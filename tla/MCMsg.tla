------------------------------- MODULE MCMsg -------------------------------
(* The instance of MsgBox for TLC. *)
EXTENDS MsgBox, TLC

Renamings == Permutations(Telnet) \cup Permutations(Senders)
=============================================================================
