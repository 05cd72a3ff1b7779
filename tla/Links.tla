------------------------------- MODULE Links -------------------------------
(***************************************************************************)
(* Reading linked lists kept in integer arrays.  The shared tables of      *)
(* libBBS (utmphead, uidshm) hold their lists as an array "next" of slot   *)
(* numbers 1..N, 0 being the null link.  These operators turn such a list  *)
(* into the sequence it stands for; they are the reading of the arrays the *)
(* refinement mappings and the structural invariants are stated with.      *)
(***************************************************************************)
EXTENDS Integers, Sequences, FiniteSets

\* The slots reached from "from" after 0..bound links; 0 is absorbing.
Walk(next, from, bound) ==
    LET at[k \in 0..bound] ==
            IF k = 0 THEN from
            ELSE LET n == at[k-1] IN IF n \in DOMAIN next THEN next[n] ELSE 0
    IN  at

\* The slots met from "from" on, up to the first link equal to "stop".
\* "bound" limits the walk: a list longer than it is cut there.
Listing(next, from, stop, bound) ==
    LET at   == Walk(next, from, bound)
        ends == {j \in 1..bound : at[j] = stop}
        len  == IF from = 0 THEN 0
                ELSE IF ends = {} THEN bound
                ELSE CHOOSE j \in ends : \A k \in ends : j <= k
    IN  [j \in 1..len |-> at[j-1]]

\* A list that ends (at 0).
Chain(next, head, bound) == Listing(next, head, 0, bound)

\* A ring, read once round from its head.
Ring(next, head, bound) == Listing(next, head, head, bound)

\* s lists exactly the members of S, each of them once.
Lists(s, S) ==
    /\ {s[i] : i \in DOMAIN s} = S
    /\ Len(s) = Cardinality(S)
=============================================================================
