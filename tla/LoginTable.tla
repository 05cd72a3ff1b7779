----------------------------- MODULE LoginTable -----------------------------
(***************************************************************************)
(* What the login table promises its users, without arrays or links: a     *)
(* pool of slots, one list of who is on line sorted by name, and one list  *)
(* per hash value by which the sessions of a user are found.               *)
(*                                                                         *)
(* A login takes the slot freed last, enters it before the first entry     *)
(* whose name is not smaller, and at the front of its hash list; a logout  *)
(* takes the slot out of both lists and gives it back.                     *)
(* Utmp (the arrays of libBBS/utmp.c) implements this module.              *)
(***************************************************************************)
EXTENDS Integers, Sequences, FiniteSets, SequencesExt

CONSTANTS
    Slots,      \* the slots of the pool, 1..USHM_SIZE
    Users,      \* user names: naturals, ordered as strcasecmp orders names
    Hash        \* Hash[u]: the hash list user u belongs to

VARIABLES
    freed,      \* the free slots, the one freed last first
    online,     \* the slots in use, in the order the user list shows them
    byHash,     \* byHash[h]: the slots in use of the users hashed to h
    who         \* who[n]: the user slot n belongs to, 0 if it is free

tableVars == <<freed, online, byHash, who>>

Values(s) == {s[i] : i \in DOMAIN s}
Hashes == {Hash[u] : u \in Users}

\* s without n.
Drop(s, n) == RemoveAt(s, CHOOSE i \in DOMAIN s : s[i] = n)

\* The position of the first entry of s not smaller than u, or behind the last.
PlaceFor(s, u) ==
    CHOOSE i \in 1..Len(s)+1 :
        /\ \A j \in 1..i-1 : who[s[j]] < u
        /\ i <= Len(s) => who[s[i]] >= u

Init ==
    /\ freed \in [1..Cardinality(Slots) -> Slots]
    /\ Values(freed) = Slots
    /\ online = <<>>
    /\ byHash = [h \in Hashes |-> <<>>]
    /\ who = [n \in Slots |-> 0]

Login(u) ==
    /\ freed # <<>> /\ freed' = Tail(freed)
    /\ LET n == Head(freed)
           s == online
       IN  /\ online' = InsertAt(s, PlaceFor(s, u), n)
           /\ byHash' = [byHash EXCEPT ![Hash[u]] = <<n>> \o @]
           /\ who' = [who EXCEPT ![n] = u]

Logout(n) ==
    /\ n \in Values(online) /\ freed' = <<n>> \o freed
    /\ online' = Drop(online, n)
    /\ byHash' = [byHash EXCEPT ![Hash[who[n]]] = Drop(@, n)]
    /\ who' = [who EXCEPT ![n] = 0]

Next == (\E u \in Users : Login(u)) \/ (\E n \in Slots : Logout(n))

Spec == Init /\ [][Next]_tableVars
=============================================================================
