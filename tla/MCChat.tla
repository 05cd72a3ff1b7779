------------------------------- MODULE MCChat -------------------------------
(* The instance of ChatStation for TLC. *)
EXTENDS ChatStation, TLC

\* Everybody has an account of his own.
Numbers == [c \in Clients |-> IF c \in Sysops THEN 1 ELSE 2]

\* No property tells chat ids or room names apart.
Renamings == Permutations(Ids) \cup Permutations(RoomNames)
=============================================================================
