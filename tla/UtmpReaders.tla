---------------------------- MODULE UtmpReaders ----------------------------
(***************************************************************************)
(* apply_ulist_addr(): the user lists of the telnet interface are made by  *)
(* walking the ring of the login table without a lock, while writers       *)
(* (module UtmpRing) change it under one.  Every read of shared memory is  *)
(* a step here: the head, an entry, a link, and the head again for each    *)
(* entry to see whether the walk has come round.                           *)
(*                                                                         *)
(* The reader is logged in itself: own is its entry, which nobody clears   *)
(* while it walks (a kick signals it first).  The function it applies      *)
(* returns COUNT for an entry in use (full_utmp of list.c) or another      *)
(* value (alcounter of talk.c); only the former are counted.               *)
(* Writers are not killed here.                                            *)
(***************************************************************************)
EXTENDS UtmpRing

CONSTANT Counting       \* does the function return COUNT

ASSUME UtmpReadersAssumption == Counting \in BOOLEAN /\ USHM_SIZE > 1

VARIABLES
    rpc,        \* where the reader is
    own,        \* the reader's own entry
    i,          \* the entry it is at
    num,        \* how many it has counted
    seen,       \* history: how often each entry was reported, up to SeenMax
    stay,       \* history: the entries in use during the whole walk so far
    cleared, headed     \* history: was an entry cleared, was the head set

Arrays == INSTANCE Links

SeenMax == 2
walk == <<own, i, num, seen, stay, cleared, headed>>
readerVars == <<rpc, walk>>

Walking == rpc \in {"report", "next", "test"}

ReaderInit ==
    /\ rpc = "idle" /\ own = 0 /\ i = 0 /\ num = 0
    /\ seen = [n \in Slots |-> 0] /\ stay = {} /\ cleared = FALSE /\ headed = FALSE

\* The entries that are not being cleared.
Remaining == Members \ (IF pc \in Unlinking THEN {pos} ELSE {})

\* Faulty: the walk begins behind the head.
ReadBehindHead(n) ==
    /\ rpc = "idle" /\ n \in Remaining /\ active[n]
    /\ rpc' = "report" /\ own' = n
    /\ i' = list_next[listhead] /\ num' = 0
    /\ seen' = [m \in Slots |-> 0]
    /\ stay' = {m \in Remaining : active[m]}
    /\ cleared' = (pc \in Unlinking \cup {"push", "zero"})
    /\ headed' = FALSE
    /\ UNCHANGED ringVars

ReadHead(n) ==
    /\ rpc = "idle" /\ n \in Remaining /\ active[n]
    /\ rpc' = "report" /\ own' = n
    /\ i' = listhead /\ num' = 0
    /\ seen' = [m \in Slots |-> 0]
    /\ stay' = {m \in Remaining : active[m]}
    /\ cleared' = (pc \in Unlinking \cup {"push", "zero"})
    /\ headed' = FALSE
    /\ UNCHANGED ringVars

\* The function is applied to entry i if that is in use.
Report ==
    /\ rpc = "report" /\ rpc' = "next"
    /\ seen' = IF active[i] /\ seen[i] < SeenMax THEN [seen EXCEPT ![i] = @ + 1]
               ELSE seen
    /\ num' = IF active[i] /\ Counting THEN num + 1 ELSE num
    /\ UNCHANGED <<ringVars, own, i, stay, cleared, headed>>

\* As many as the table has slots: taken for a loop, the list is rebuilt.
TooMany == num >= USHM_SIZE

ReadNext ==
    /\ rpc = "next"
    /\ i' = list_next[i]
    /\ rpc' = IF TooMany THEN "alarm" ELSE "test"
    /\ UNCHANGED <<ringVars, own, num, seen, stay, cleared, headed>>

\* Faulty: the walk ends behind the head.
TestBehindHead ==
    /\ rpc = "test"
    /\ rpc' = IF i = list_next[listhead] THEN "done" ELSE "report"
    /\ UNCHANGED <<ringVars, walk>>

Test ==
    /\ rpc = "test"
    /\ rpc' = IF i = listhead THEN "done" ELSE "report"
    /\ UNCHANGED <<ringVars, walk>>

Reader ==
    \/ \E n \in Slots : ReadHead(n)
    \/ Report \/ ReadNext \/ Test

\* A step of a writer, seen by the reader.
WriterStep ==
    /\ Writer
    /\ ~(pc = "idle" /\ pc' = "r1" /\ pos' = own /\ Walking)
    /\ stay' = stay \ {n \in Slots : ~active'[n] \/ (pc' = "r1" /\ n = pos')}
    /\ cleared' = (Walking /\ (cleared \/ pc' = "r1"))
    /\ headed' = (Walking /\ (headed \/ listhead' # listhead))
    /\ UNCHANGED <<rpc, own, i, num, seen>>

ReadersNext == rpc \notin {"alarm", "done"} /\ (Reader \/ WriterStep)

ReadersSpec == Init /\ ReaderInit /\ [][ReadersNext]_<<ringVars, readerVars>>

-----------------------------------------------------------------------------
(* Properties. *)

\* The reader is at a slot whose link has been set: the order of the writers'
\* assignments never makes a slot reachable before it leads on, so no read is
\* out of the table (list_next[0 - 1]), without any lock.
ReaderOnRing == Walking => i \in Slots /\ list_next[i] \in Slots

\* From wherever the reader is, an entry taken out of the ring under it
\* included, the links lead back to the head: a walk comes to its end as soon
\* as the writers pause.
LeadsToHead ==
    Walking /\ pc = "idle" =>
        \E k \in 0..USHM_SIZE : Arrays!Walk(list_next, i, USHM_SIZE)[k] = listhead

\* A walk during which no entry is cleared reports every entry that was in
\* use when it began, whatever is inserted meanwhile ...
InsertsHideNobody ==
    rpc = "done" /\ ~cleared => \A n \in stay : seen[n] >= 1

\* ... and nobody twice, unless an entry was inserted at the head.
NobodyTwice ==
    rpc = "done" /\ ~cleared /\ ~headed => \A n \in Slots : seen[n] <= 1

\* "maybe loop": the list is rebuilt, and the process ended, for a list that
\* does not come back to its head.
RebuiltWhenLooping == rpc = "alarm" => \E n \in Slots : seen[n] > 1

\* Every user who is on line during the whole walk is on the list.
NobodyMissed == rpc = "done" => \A n \in stay : seen[n] >= 1
=============================================================================
