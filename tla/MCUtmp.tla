------------------------------- MODULE MCUtmp -------------------------------
(* Instances of Utmp for TLC. *)
EXTENDS Utmp

OneList  == [u \in Users |-> 1]         \* all users share a hash list
TwoLists == [u \in Users |-> 1 + (u % 2)]
AnyValue == Users \cup {0}              \* stack garbage may be a live uid
=============================================================================
