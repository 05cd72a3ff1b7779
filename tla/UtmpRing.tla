------------------------------ MODULE UtmpRing ------------------------------
(***************************************************************************)
(* The ring of the login table, statement by statement.                    *)
(*                                                                         *)
(* getnewutmpent() links a slot into the ring list_next / list_prev, which *)
(* is sorted by user name from listhead on; clear_utmp2() unlinks it.  Both*)
(* run under the file lock, so one of them is in progress at a time (pc #  *)
(* "idle"); but the lock orders writers only.  A writer may be killed      *)
(* between any two statements, and readers (module UtmpReaders) walk the   *)
(* ring meanwhile.  Each action below is one assignment of the code.       *)
(*                                                                         *)
(* The free list is a set here: which free slot is taken does not matter   *)
(* to the ring.  The history variables order, len and at say what list the *)
(* ring stands for; no action's effect on the program's state depends on   *)
(* them.                                                                   *)
(***************************************************************************)
EXTENDS Integers

CONSTANTS
    USHM_SIZE,      \* slots of the table
    Names           \* user names: numbers, ordered as strcasecmp orders them

ASSUME UtmpRingAssumption ==
    USHM_SIZE \in Nat \ {0} /\ Names \subseteq Nat

Slots == 1..USHM_SIZE

VARIABLES
    listhead, list_prev, list_next,     \* utmphead
    userid, active,                     \* utmpshm->uinfo[]
    free,                               \* the slots on the free list
    pc, pos, cur, key, atHead,          \* the writer: where it is, its locals
    order, len, at,                     \* history: the list, its length, and
                                        \* the place of cur (removal: pos) in it
    torn                                \* a writer was killed amid its changes

shared == <<listhead, list_prev, list_next, userid, active, free>>
locals == <<pos, cur, key, atHead>>
history == <<order, len, at>>
ringVars == <<shared, pc, locals, history, torn>>

Succ(i) == IF i = len THEN 1 ELSE i + 1        \* neighbours in the list
Pred(i) == IF i = 1 THEN len ELSE i - 1
Members == {order[i] : i \in 1..len}

\* The list with pos put in at place p, and without the entry at place p.
WithPos(p) ==
    [i \in 1..len+1 |-> IF i < p THEN order[i]
                        ELSE IF i = p THEN pos ELSE order[i-1]]
Without(p) == [i \in 1..len-1 |-> IF i < p THEN order[i] ELSE order[i+1]]

Init ==
    /\ listhead = 0
    /\ list_prev = [n \in Slots |-> 0] /\ list_next = [n \in Slots |-> 0]
    /\ userid = [n \in Slots |-> 0] /\ active = [n \in Slots |-> FALSE]
    /\ free = Slots
    /\ pc = "idle" /\ pos = 0 /\ cur = 0 /\ key = 0 /\ atHead = FALSE
    /\ order = [i \in 1..0 |-> 0] /\ len = 0 /\ at = 0
    /\ torn = FALSE

-----------------------------------------------------------------------------
(* getnewutmpent(): a slot for a login of user k. *)

Begin(n, k) ==
    /\ pc = "idle" /\ n \in free /\ k \in Names
    /\ pos' = n /\ key' = k
    /\ IF listhead = 0
       THEN pc' = "e1" /\ UNCHANGED <<cur, atHead, at>>
       ELSE IF userid[listhead] >= k
       THEN pc' = "i1" /\ atHead' = TRUE /\ cur' = listhead /\ at' = 1
       ELSE pc' = "walk" /\ atHead' = FALSE
            /\ cur' = list_next[listhead] /\ at' = Succ(1)
    /\ UNCHANGED <<shared, order, len, torn>>

\* The first login: a ring of one.
Alone1 ==
    /\ pc = "e1" /\ pc' = "e2" /\ list_prev' = [list_prev EXCEPT ![pos] = pos]
    /\ UNCHANGED <<listhead, list_next, userid, active, free, locals, history, torn>>
Alone2 ==
    /\ pc = "e2" /\ pc' = "e3" /\ list_next' = [list_next EXCEPT ![pos] = pos]
    /\ UNCHANGED <<listhead, list_prev, userid, active, free, locals, history, torn>>
Alone3 ==
    /\ pc = "e3" /\ pc' = "pop" /\ listhead' = pos
    /\ order' = [i \in 1..1 |-> pos] /\ len' = 1
    /\ UNCHANGED <<list_prev, list_next, userid, active, free, locals, at, torn>>

\* The search for the first entry that is not smaller.
Walk ==
    /\ pc = "walk"
    /\ IF userid[cur] < key /\ cur # listhead
       THEN cur' = list_next[cur] /\ at' = Succ(at) /\ UNCHANGED pc
       ELSE pc' = "i1" /\ UNCHANGED <<cur, at>>
    /\ UNCHANGED <<shared, pos, key, atHead, order, len, torn>>

\* Four links, and the head if the entry is the new first one.
Link1 ==
    /\ pc = "i1" /\ pc' = "i2"
    /\ list_prev' = [list_prev EXCEPT ![pos] = list_prev[cur]]
    /\ UNCHANGED <<listhead, list_next, userid, active, free, locals, history, torn>>
\* Faulty: the new entry leads nowhere.
Link2Skipped ==
    /\ pc = "i2" /\ pc' = "i3"
    /\ UNCHANGED <<shared, locals, history, torn>>
Link2 ==
    /\ pc = "i2" /\ pc' = "i3" /\ list_next' = [list_next EXCEPT ![pos] = cur]
    /\ UNCHANGED <<listhead, list_prev, userid, active, free, locals, history, torn>>
Link3 ==
    /\ pc = "i3" /\ pc' = "i4" /\ list_prev' = [list_prev EXCEPT ![cur] = pos]
    /\ UNCHANGED <<listhead, list_next, userid, active, free, locals, history, torn>>
Link4 ==
    /\ pc = "i4"
    /\ list_next' = [list_next EXCEPT ![list_prev[pos]] = pos]
    /\ IF atHead
       THEN pc' = "i5" /\ UNCHANGED <<order, len>>
       ELSE /\ pc' = "pop"
            /\ order' = WithPos(IF at = 1 THEN len + 1 ELSE at) /\ len' = len + 1
    /\ UNCHANGED <<listhead, list_prev, userid, active, free, locals, at, torn>>
\* Faulty: the head stays.
Link5Skipped ==
    /\ pc = "i5" /\ pc' = "pop"
    /\ order' = WithPos(1) /\ len' = len + 1
    /\ UNCHANGED <<shared, locals, at, torn>>
Link5 ==
    /\ pc = "i5" /\ pc' = "pop" /\ listhead' = pos
    /\ order' = WithPos(1) /\ len' = len + 1
    /\ UNCHANGED <<list_prev, list_next, userid, active, free, locals, at, torn>>

\* The slot is taken off the free list, then the entry is filled in.
Pop ==
    /\ pc = "pop" /\ pc' = "fill" /\ free' = free \ {pos}
    /\ UNCHANGED <<listhead, list_prev, list_next, userid, active, locals, history, torn>>
Fill ==
    /\ pc = "fill" /\ pc' = "idle"
    /\ userid' = [userid EXCEPT ![pos] = key]
    /\ active' = [active EXCEPT ![pos] = TRUE]
    /\ UNCHANGED <<listhead, list_prev, list_next, free, locals, history, torn>>

-----------------------------------------------------------------------------
(* clear_utmp2(): the entry at place i of the list is cleared. *)

Clear(i) ==
    /\ pc = "idle" /\ i \in 1..len
    /\ pos' = order[i] /\ at' = i /\ pc' = "r1"
    /\ UNCHANGED <<shared, cur, key, atHead, order, len, torn>>

Unlink1 ==
    /\ pc = "r1"
    /\ IF listhead = pos
       THEN pc' = "r2" /\ listhead' = list_next[pos]
       ELSE pc' = "r3" /\ UNCHANGED listhead
    /\ UNCHANGED <<list_prev, list_next, userid, active, free, locals, history, torn>>
\* Faulty: the last entry stays the head.
Unlink2Skipped ==
    /\ pc = "r2" /\ pc' = "r3" /\ UNCHANGED <<shared, locals, history, torn>>
Unlink2 ==
    /\ pc = "r2" /\ pc' = "r3"
    /\ listhead' = IF listhead = pos THEN 0 ELSE listhead
    /\ UNCHANGED <<list_prev, list_next, userid, active, free, locals, history, torn>>
Unlink3 ==
    /\ pc = "r3" /\ pc' = "r4"
    /\ list_next' = [list_next EXCEPT ![list_prev[pos]] = list_next[pos]]
    /\ UNCHANGED <<listhead, list_prev, userid, active, free, locals, history, torn>>
\* Faulty: the entry taken out is made a ring of its own.
Unlink4Tidy ==
    /\ pc = "r4" /\ pc' = "push"
    /\ list_prev' = [list_prev EXCEPT ![list_next[pos]] = list_prev[pos]]
    /\ list_next' = [list_next EXCEPT ![pos] = pos]
    /\ order' = Without(at) /\ len' = len - 1
    /\ UNCHANGED <<listhead, userid, active, free, locals, at, torn>>
Unlink4 ==
    /\ pc = "r4" /\ pc' = "push"
    /\ list_prev' = [list_prev EXCEPT ![list_next[pos]] = list_prev[pos]]
    /\ order' = Without(at) /\ len' = len - 1
    /\ UNCHANGED <<listhead, list_next, userid, active, free, locals, at, torn>>

Push ==
    /\ pc = "push" /\ pc' = "zero" /\ free' = free \cup {pos}
    /\ UNCHANGED <<listhead, list_prev, list_next, userid, active, locals, history, torn>>

\* The name of the cleared entry is not set: it reads as any (k).
Zero(k) ==
    /\ pc = "zero" /\ pc' = "idle" /\ k \in Names \cup {0}
    /\ active' = [active EXCEPT ![pos] = FALSE]
    /\ userid' = [userid EXCEPT ![pos] = k]
    /\ UNCHANGED <<listhead, list_prev, list_next, free, locals, history, torn>>

-----------------------------------------------------------------------------
\* The writer has changed something that others still see the old side of.
Halfway ==
    \/ pc \in {"i4", "i5", "pop", "fill", "r4", "push", "zero"}
    \/ pc \in {"r2", "r3"} /\ listhead # order[1]

\* The writer is killed (SIGKILL, or SIGALRM in its own handler) and the lock
\* with it released.  If it was halfway, this is where the model stops.
Die ==
    /\ pc # "idle" /\ pc' = "idle"
    /\ torn' = Halfway
    /\ UNCHANGED <<shared, locals, history>>

Writer ==
    /\ ~torn
    /\ \/ \E n \in Slots, k \in Names : Begin(n, k)
       \/ Alone1 \/ Alone2 \/ Alone3 \/ Walk
       \/ Link1 \/ Link2 \/ Link3 \/ Link4 \/ Link5 \/ Pop \/ Fill
       \/ \E i \in 1..USHM_SIZE : Clear(i)
       \/ Unlink1 \/ Unlink2 \/ Unlink3 \/ Unlink4 \/ Push
       \/ \E k \in Names \cup {0} : Zero(k)

Next == Writer \/ (~torn /\ Die)

Spec == Init /\ [][Next]_ringVars

-----------------------------------------------------------------------------
(* Properties. *)

Steps == {"idle", "e1", "e2", "e3", "walk", "i1", "i2", "i3", "i4", "i5", "pop",
          "fill", "r1", "r2", "r3", "r4", "push", "zero"}

TypeOK ==
    /\ listhead \in 0..USHM_SIZE
    /\ list_prev \in [Slots -> 0..USHM_SIZE] /\ list_next \in [Slots -> 0..USHM_SIZE]
    /\ userid \in [Slots -> Names \cup {0}] /\ active \in [Slots -> BOOLEAN]
    /\ free \subseteq Slots
    /\ pc \in Steps /\ pos \in 0..USHM_SIZE /\ cur \in 0..USHM_SIZE
    /\ key \in Names \cup {0} /\ atHead \in BOOLEAN
    /\ len \in Nat /\ order \in [1..len -> Slots] /\ at \in Nat
    /\ torn \in BOOLEAN

\* The name the list is sorted by: the entry put in last is filled in last.
Name(n) == IF pc \in {"pop", "fill"} /\ n = pos THEN key ELSE userid[n]

NoDuplicates == \A i, j \in 1..len : order[i] = order[j] => i = j
Sorted == \A i, j \in 1..len : i < j => Name(order[i]) <= Name(order[j])

\* Whenever no writer is at work, the two arrays are one ring of all entries
\* in use, closed in both directions and sorted from listhead on, and every
\* other slot is free - also after a writer was killed, unless it was halfway.
RingImplements ==
    pc = "idle" /\ ~torn =>
        /\ listhead = IF len = 0 THEN 0 ELSE order[1]
        /\ \A i \in 1..len : /\ list_next[order[i]] = order[Succ(i)]
                             /\ list_prev[order[i]] = order[Pred(i)]
        /\ NoDuplicates /\ Sorted
        /\ Members = {n \in Slots : active[n]} /\ free = Slots \ Members

-----------------------------------------------------------------------------
(* The inductive invariant: what holds between any two statements. *)

Linking == {"i1", "i2", "i3", "i4", "i5"}
Inserting == Linking \cup {"e1", "e2", "e3", "walk"}
Unlinking == {"r1", "r2", "r3", "r4"}

\* Where the writer's locals point to.
Locals ==
    /\ pc \in {"e1", "e2", "e3"} => len = 0
    /\ pc \in Linking \cup {"walk"} => /\ at \in 1..len /\ cur = order[at]
    /\ pc \in Inserting => /\ pos \in free /\ key \in Names
    /\ pc \in {"pop", "fill"} => /\ pos \in Members /\ key \in Names
    /\ pc \in Unlinking => /\ at \in 1..len /\ pos = order[at]
    /\ pc \in {"push", "zero"} => pos \in Slots \ Members

\* The search: what has been passed is smaller; back at the head it is all.
Passed ==
    /\ pc \in Linking \cup {"walk"} /\ ~atHead =>
           /\ \A j \in 1..len : j < at \/ at = 1 => userid[order[j]] < key
           /\ pc \in Linking => at = 1 \/ userid[order[at]] >= key
    /\ pc \in Linking /\ atHead => at = 1 /\ userid[order[1]] >= key
    /\ pc = "walk" => ~atHead
    /\ pc = "i5" => atHead

HeadAt ==
    listhead =
        IF len = 0 THEN 0
        ELSE IF pc = "r2" /\ at = 1 THEN order[Succ(1)]
        ELSE IF pc \in {"r3", "r4"} /\ at = 1
        THEN IF len = 1 THEN 0 ELSE order[2]
        ELSE order[1]

Links ==
    /\ \A i \in 1..len :
           /\ list_next[order[i]] =
                  IF pc = "i5" /\ i = len THEN pos
                  ELSE IF pc = "r4" /\ i = Pred(at) THEN order[Succ(at)]
                  ELSE order[Succ(i)]
           /\ list_prev[order[i]] =
                  IF pc \in {"i4", "i5"} /\ i = at THEN pos ELSE order[Pred(i)]
    /\ pc \in {"i2", "i3", "i4", "i5"} => list_prev[pos] = order[Pred(at)]
    /\ pc \in {"i3", "i4", "i5"} => list_next[pos] = cur
    /\ pc \in {"e2", "e3"} => list_prev[pos] = pos
    /\ pc = "e3" => list_next[pos] = pos

InUse ==
    /\ \A n \in Slots :
           active[n] <=> \/ n \in Members /\ ~(pc \in {"pop", "fill"} /\ n = pos)
                         \/ pc \in {"push", "zero"} /\ n = pos
    /\ \A n \in Slots :
           n \in free <=> \/ n \notin Members /\ ~(pc = "push" /\ n = pos)
                          \/ pc = "pop" /\ n = pos

Inv ==
    /\ TypeOK
    /\ ~torn => /\ Locals /\ Passed /\ HeadAt /\ Links /\ InUse
                /\ NoDuplicates /\ Sorted
=============================================================================
