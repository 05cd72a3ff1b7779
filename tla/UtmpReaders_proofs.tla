------------------------ MODULE UtmpReaders_proofs -------------------------
(***************************************************************************)
(* Readers of the ring of the login table: proofs about UtmpReaders.       *)
(*                                                                         *)
(* A reader may stand on an entry that has been taken out of the ring.     *)
(* Trail(G, r) says why it comes back all the same: G holds all entries    *)
(* that it can get to; the links do not leave G; and those of G that are   *)
(* not in the list have ranks r that get smaller from link to link, since  *)
(* an entry taken out leads to what was behind it then.  The reader's own  *)
(* entry is in the list, so the last of them leads there.  Ahead and       *)
(* Behind follow a walk during which no entry is cleared.                  *)
(***************************************************************************)
EXTENDS UtmpReaders, UtmpRing_proofs, FiniteInduction, FiniteSetTheorems

\* The reader's own entry stays in the list.
Watching ==
    /\ rpc \in {"idle", "report", "next", "test", "done", "alarm"}
    /\ Walking => own \in Remaining

Trail(G, r) ==
    /\ G \subseteq Slots /\ r \in [Slots -> Nat \ {0}]
    /\ i \in G /\ Members \subseteq G
    /\ \A n \in G : list_next[n] \in G
    /\ \A n \in G \ Members : list_next[n] \in Members \/ r[list_next[n]] < r[n]
Led == Walking => \E G, r : Trail(G, r)

\* The new head, which the last entry leads to already.
AtNew == pc = "i5" /\ i = pos

\* Nobody is cleared: who stays has been reported, or is at place p or behind.
NoneLost(p) == \A n \in stay : seen[n] >= 1 \/ \E q \in p..len : order[q] = n
Ahead ==
    ~cleared =>
      /\ Walking =>
           /\ pc \notin Unlinking \cup {"push", "zero"}
           /\ \A n \in stay : n \in Members /\ active[n]
           /\ seen \in [Slots -> 0..SeenMax]
      /\ rpc = "report" => \/ AtNew /\ NoneLost(len+1)
                           \/ \E p \in 1..len : i = order[p] /\ NoneLost(p)
      /\ rpc = "next" => \/ AtNew /\ NoneLost(len+1)
                         \/ \E p \in 1..len : i = order[p] /\ NoneLost(p+1)
      /\ rpc = "test" => \/ (AtNew \/ i \in Members) /\ NoneLost(len+1)
                         \/ \E p \in 2..len : i = order[p] /\ NoneLost(p)
      /\ rpc = "done" => NoneLost(len+1)

\* Nor is the head moved: who has been reported was so once, before place p.
Once(p) == \A n \in Slots : seen[n] >= 1 => seen[n] = 1 /\ \E q \in 1..p-1 : q <= len /\ order[q] = n
Behind ==
    ~cleared /\ ~headed =>
      /\ rpc = "report" => \/ AtNew /\ Once(len+1)
                           \/ \E p \in 1..len : i = order[p] /\ Once(p)
      /\ rpc = "next" => \/ AtNew /\ Once(len+1)
                         \/ \E p \in 1..len : i = order[p] /\ Once(p+1)
      /\ rpc = "test" => \/ (AtNew \/ i = order[1]) /\ Once(len+1)
                         \/ \E p \in 2..len : i = order[p] /\ Once(p)
      /\ rpc = "done" => \A n \in Slots : seen[n] <= 1

ReadersInv == Inv /\ ~torn /\ Watching /\ Led /\ Ahead /\ Behind

-----------------------------------------------------------------------------
(* What the steps of a writer are to a reader. *)

\* The links and the list are left alone.
Quiet ==
    /\ UNCHANGED <<list_next, order, len>> /\ pc # "i5" /\ pc' # "i5"
    /\ listhead' # listhead => pc \in Unlinking
\* The new entry is made to lead on.
Aimed ==
    /\ pos \in Slots \ Members /\ cur \in Members
    /\ list_next' = [list_next EXCEPT ![pos] = cur]
    /\ UNCHANGED <<order, len, listhead>> /\ pc # "i5" /\ pc' # "i5"
\* The last entry is led to the new head.
LedToNew ==
    /\ pos \in Slots \ Members /\ list_next[pos] \in Members
    /\ list_next' = [list_next EXCEPT ![order[len]] = pos]
    /\ UNCHANGED <<order, len, listhead, pos>> /\ pc # "i5" /\ pc' = "i5"
\* The entry is in the list at place p.
PutIn(p) ==
    /\ pos \in Slots \ Members /\ list_next[pos] \in Members
    /\ list_next' = [list_next EXCEPT ![order[p-1]] = pos]
    /\ order' = WithPos(p) /\ len' = len + 1 /\ Members' = Members \cup {pos}
    /\ UNCHANGED listhead /\ pc # "i5" /\ pc' # "i5"
\* The new entry is the head.
NewHead ==
    /\ pc = "i5" /\ pc' # "i5" /\ pos \in Slots \ Members
    /\ list_next[order[len]] = pos /\ list_next[pos] = order[1]
    /\ order' = WithPos(1) /\ len' = len + 1 /\ Members' = Members \cup {pos}
    /\ UNCHANGED list_next /\ listhead' = pos /\ listhead = order[1]
\* The entry is passed over, and then out of the list.
Bridged ==
    /\ pc \in Unlinking /\ pc' \in Unlinking
    /\ \E a, b \in Members : list_next' = [list_next EXCEPT ![a] = b]
    /\ UNCHANGED <<order, len>>
TakenOut ==
    /\ pc \in Unlinking /\ pc' = "push" /\ pos \in Members
    /\ UNCHANGED list_next /\ Members' = Members \ {pos}
    /\ list_next[pos] \in Members \ {pos} \/ Members = {pos}

\* Every step of a writer with entries in the list is one of these.
LEMMA Effects ==
  ASSUME Inv, ~torn, Writer, len > 0
  PROVE  \/ Quiet \/ Aimed \/ LedToNew \/ (\E p \in 2..len+1 : PutIn(p)) \/ NewHead
         \/ Bridged \/ TakenOut
<1> USE UtmpRingAssumption
<1>1. len \in Nat /\ 1 \in 1..len /\ len \in 1..len
  BY Parts DEF TypeOK
<1>2. ASSUME NEW n \in Slots, NEW k \in Names, Begin(n, k) PROVE Quiet
  BY <1>2 DEF Begin, Quiet, shared
<1>3. CASE Alone1 \/ Alone2 \/ Alone3
  BY <1>3, Parts DEF Alone1, Alone2, Alone3, Locals
<1>4. CASE Walk \/ Link1 \/ Link3 \/ Pop \/ Fill \/ Push
  BY <1>4 DEF Walk, Link1, Link3, Pop, Fill, Push, Quiet, shared, history
<1>5. CASE Link2
  <2>1. pos \in Slots \ Members /\ cur \in Members
    BY <1>5, Parts, Places DEF Link2, Locals, Linking, Inserting, InUse, TypeOK
  <2> QED BY <1>5, <2>1 DEF Link2, Aimed, history
<1>6. CASE Link4
  <2>1. /\ pc = "i4" /\ pos \in Slots \ Members /\ at \in 1..len /\ cur = order[at] /\ cur \in Members
        /\ list_next[pos] = cur /\ list_prev[pos] = order[Pred(at)]
    BY <1>6, Parts, Places DEF Link4, Locals, Linking, Inserting, InUse, TypeOK, Links
  <2>2. list_next' = [list_next EXCEPT ![order[Pred(at)]] = pos] /\ UNCHANGED <<listhead, pos>>
    BY <1>6, <2>1 DEF Link4, locals
  <2>3. CASE atHead
    <3>1. Pred(at) = len
      BY <2>1, <2>3, Parts DEF Passed, Linking, Pred
    <3> QED BY <1>6, <2>1, <2>2, <2>3, <3>1 DEF Link4, LedToNew
  <2>4. CASE ~atHead
    <3> DEFINE p == IF at = 1 THEN len + 1 ELSE at
    <3>1. p \in 2..len+1 /\ p \in 1..len+1 /\ Pred(at) = p - 1
      BY <1>1, <2>1 DEF Pred
    <3>2. order' = WithPos(p) /\ len' = len + 1 /\ pc' = "pop"
      BY <1>6, <2>4 DEF Link4
    <3> HIDE DEF p
    <3>3. Members' = Members \cup {pos}
      <4>1. Members' = {WithPos(p)[j] : j \in 1..len+1}
        BY <3>2 DEF Members
      <4> QED BY <2>1, <3>1, <4>1, WithPosList, Parts
    <3>4. PutIn(p)
      BY <2>1, <2>2, <3>1, <3>2, <3>3 DEF PutIn
    <3> QED BY <3>1, <3>4
  <2> QED BY <2>3, <2>4
<1>7. CASE Link5
  <2>1. /\ pc = "i5" /\ at = 1 /\ pos \in Slots \ Members /\ listhead = order[1]
        /\ list_next[pos] = order[1] /\ list_next[order[len]] = pos
    BY <1>1, <1>7, Parts DEF Link5, Locals, Linking, Inserting, Links, InUse, TypeOK, Passed, HeadAt
  <2>2. /\ pc' = "pop" /\ listhead' = pos /\ order' = WithPos(1) /\ len' = len + 1
        /\ UNCHANGED list_next
    BY <1>7 DEF Link5
  <2>3. Members' = Members \cup {pos}
    <3>1. 1 \in 1..len+1
      BY <1>1
    <3>2. Members' = {WithPos(1)[j] : j \in 1..len+1}
      BY <2>2 DEF Members
    <3> QED BY <2>1, <3>1, <3>2, WithPosList, Parts
  <2> QED BY <2>1, <2>2, <2>3 DEF NewHead
<1>8. ASSUME NEW p \in 1..USHM_SIZE, Clear(p) PROVE Quiet
  BY <1>8 DEF Clear, Quiet, shared
<1>9. CASE Unlink1 \/ Unlink2
  BY <1>9 DEF Unlink1, Unlink2, Quiet, Unlinking, history
<1>10. CASE Unlink3
  <2>1. /\ pc = "r3" /\ pc' = "r4" /\ at \in 1..len /\ pos = order[at]
        /\ list_prev[pos] = order[Pred(at)] /\ list_next[pos] = order[Succ(at)]
    BY <1>10, Parts DEF Unlink3, Locals, Unlinking, Links
  <2>2. order[Pred(at)] \in Members /\ order[Succ(at)] \in Members
    BY <2>1, Places, Parts
  <2>3. list_next' = [list_next EXCEPT ![order[Pred(at)]] = order[Succ(at)]]
    BY <1>10, <2>1 DEF Unlink3
  <2> QED BY <1>10, <2>1, <2>2, <2>3 DEF Unlink3, Bridged, Unlinking, history
<1>11. CASE Unlink4
  <2>1. pc = "r4" /\ pc' = "push" /\ at \in 1..len /\ pos = order[at] /\ pos \in Members
    BY <1>11, Parts, Places DEF Unlink4, Locals, Unlinking
  <2>2. order' = Without(at) /\ len' = len - 1 /\ UNCHANGED list_next
    BY <1>11 DEF Unlink4
  <2>3. Members' = Members \ {pos}
    BY <2>1, <2>2, WithoutList, Parts, ZenonT(40) DEF Members
  <2>4. Succ(at) \in 1..len /\ list_next[pos] = IF at = Pred(at) THEN order[Succ(at)] ELSE order[Succ(at)]
    BY <2>1, Parts, Places DEF Links
  <2>5. len > 1 => Succ(at) # at
    BY <1>1, <2>1 DEF Succ
  <2>6. CASE len > 1
    BY <2>1, <2>2, <2>3, <2>4, <2>5, <2>6, Parts, Places DEF TakenOut, NoDuplicates, Unlinking
  <2>7. CASE len = 1
    <3>1. Members = {pos}
      BY <2>1, <2>7 DEF Members
    <3> QED BY <2>1, <2>2, <2>3, <3>1 DEF TakenOut, Unlinking
  <2> QED BY <1>1, <2>6, <2>7
<1>12. ASSUME NEW k \in Names \cup {0}, Zero(k) PROVE Quiet
  BY <1>12 DEF Zero, Quiet, history
<1> QED
  BY <1>2, <1>3, <1>4, <1>5, <1>6, <1>7, <1>8, <1>9, <1>10, <1>11, <1>12 DEF Writer

-----------------------------------------------------------------------------
(* The links lead back. *)

\* An entry begins to be cleared at r1; until it is out pos is that entry.
LEMMA ClearingOne ==
  ASSUME Inv, ~torn, Writer, pc' \in Unlinking
  PROVE  \/ pc \in Unlinking /\ pos' = pos
         \/ pc = "idle" /\ pc' = "r1"
BY DEF Writer, Begin, Alone1, Alone2, Alone3, Walk, Link1, Link2, Link3, Link4, Link5, Pop, Fill,
       Clear, Unlink1, Unlink2, Unlink3, Unlink4, Push, Zero, Unlinking, locals

\* A writer that is not killed leaves nothing torn, and the invariant of the ring holds on.
LEMMA WriterInv ==
  ASSUME Inv, ~torn, Writer
  PROVE  Inv' /\ ~torn'
<1>1. Inv'
  BY NextInv DEF Next
<1>2. ~torn'
  BY DEF Writer, Begin, Alone1, Alone2, Alone3, Walk, Link1, Link2, Link3, Link4, Link5, Pop, Fill,
         Clear, Unlink1, Unlink2, Unlink3, Unlink4, Push, Zero, shared, history
<1> QED BY <1>1, <1>2

\* While it walks the reader's own entry is in the list.
LEMMA OwnListed ==
  ASSUME Inv, ~torn, Watching, Walking
  PROVE  own \in Members /\ len > 0 /\ (pc \in Unlinking => own # pos)
<1>1. own \in Members /\ (pc \in Unlinking => own # pos)
  BY DEF Watching, Remaining
<1>2. len \in Nat
  BY Parts DEF TypeOK
<1> QED BY <1>1, <1>2 DEF Members

\* Writers put entries in and take others out than the reader's.
LEMMA WriterWatching ==
  ASSUME Inv, ~torn, Watching, WriterStep
  PROVE  Watching'
<1> SUFFICES ASSUME Walking' PROVE own \in Remaining'
  BY DEF Watching, WriterStep
<1>1. Walking /\ Writer /\ own' = own
  BY DEF WriterStep, Walking
<1>2. own \in Members /\ len > 0 /\ (pc \in Unlinking => own # pos)
  BY <1>1, OwnListed
<1>3. own \in Members'
  <2>1. Members \subseteq Members' \/ (pc \in Unlinking /\ Members' = Members \ {pos})
    BY <1>1, <1>2, Effects DEF Quiet, Aimed, LedToNew, PutIn, NewHead, Bridged, TakenOut, Members
  <2> QED BY <1>2, <2>1
<1>4. pc' \in Unlinking => own # pos'
  BY <1>1, <1>2, ClearingOne DEF WriterStep
<1> QED BY <1>3, <1>4 DEF Remaining

\* An entry outside of the list that leads into it may be led from.
LEMMA WiderTrail ==
  ASSUME NEW G, NEW r, Trail(G, r), NEW p \in Slots, list_next[p] \in Members,
         p \notin Members
  PROVE  Trail(G \cup {p}, r)
<1> SUFFICES ASSUME NEW n \in G \cup {p}
             PROVE  /\ list_next[n] \in G
                    /\ n \notin Members => list_next[n] \in Members \/ r[list_next[n]] < r[n]
  BY DEF Trail
<1>1. CASE n \in G
  BY <1>1 DEF Trail
<1>2. CASE n = p
  BY <1>2 DEF Trail
<1> QED BY <1>1, <1>2

\* The steps of a writer leave the reader a trail back.
LEMMA WriterLed ==
  ASSUME Inv, ~torn, Watching, Led, WriterStep
  PROVE  Led'
<1> SUFFICES ASSUME Walking' PROVE \E G, r : Trail(G, r)'
  BY DEF Led
<1>1. Walking /\ Writer /\ i' = i
  BY DEF WriterStep, Walking
<1>2. PICK G, r : Trail(G, r)
  BY <1>1 DEF Led
<1>3. own \in Members /\ len > 0 /\ (pc \in Unlinking => own # pos)
  BY <1>1, OwnListed
<1>4. /\ list_next \in [Slots -> 0..USHM_SIZE] /\ len \in Nat /\ Members \subseteq Slots
      /\ order[len] \in Members
  <2>1. len \in Nat /\ len \in 1..len
    BY <1>3, Parts DEF TypeOK
  <2> QED BY <2>1, Parts, Places DEF TypeOK
<1>5. CASE Quiet
  <2>1. Trail(G, r)'
    BY <1>1, <1>2, <1>5 DEF Trail, Quiet, Members
  <2> QED BY <2>1
<1>6. CASE Aimed
  <2>1. Members' = Members
    BY <1>6 DEF Aimed, Members
  <2>2. Trail(G, r)'
    BY <1>1, <1>2, <1>4, <1>6, <2>1 DEF Trail, Aimed
  <2> QED BY <2>2
<1>7. CASE LedToNew
  <2>1. Members' = Members
    BY <1>7 DEF LedToNew, Members
  <2>2. Trail(G \cup {pos}, r)
    BY <1>2, <1>7, WiderTrail DEF LedToNew
  <2>3. PICK q, e : q = pos /\ e = order[len]
    OBVIOUS
  <2>4. list_next' = [list_next EXCEPT ![e] = q] /\ e \in Members
    BY <1>4, <1>7, <2>3 DEF LedToNew
  <2>5. Trail(G \cup {q}, r)'
    BY <1>1, <1>4, <2>1, <2>2, <2>3, <2>4 DEF Trail
  <2> QED BY <2>5
<1>8. ASSUME NEW p \in 2..len+1, PutIn(p) PROVE \E GG, rr : Trail(GG, rr)'
  <2>1. Members' = Members \cup {pos} /\ p-1 \in 1..len
    BY <1>4, <1>8 DEF PutIn
  <2>2. Trail(G \cup {pos}, r)
    BY <1>2, <1>8, WiderTrail DEF PutIn
  <2>3. PICK q, e : q = pos /\ e = order[p-1]
    OBVIOUS
  <2>4. list_next' = [list_next EXCEPT ![e] = q] /\ e \in Members
    BY <1>8, <2>1, <2>3, Parts, Places DEF PutIn
  <2>5. Trail(G \cup {q}, r)'
    BY <1>1, <1>4, <2>1, <2>2, <2>3, <2>4 DEF Trail
  <2> QED BY <2>5
<1>9. CASE NewHead
  <2>1. Members' = Members \cup {pos} /\ list_next' = list_next /\ pos \in G
    BY <1>2, <1>4, <1>9 DEF NewHead, Trail
  <2>2. Trail(G, r)'
    BY <1>1, <1>2, <2>1 DEF Trail
  <2> QED BY <2>2
<1>10. CASE Bridged
  <2>1. Members' = Members
    BY <1>10 DEF Bridged, Members
  <2>2. PICK a, b \in Members : list_next' = [list_next EXCEPT ![a] = b]
    BY <1>10 DEF Bridged
  <2>3. Trail(G, r)'
    BY <1>1, <1>2, <1>4, <2>1, <2>2 DEF Trail
  <2> QED BY <2>3
<1>11. CASE TakenOut
  <2>1. PICK q : q = pos
    OBVIOUS
  <2>2. /\ q \in Members /\ list_next' = list_next /\ Members' = Members \ {q}
        /\ list_next[q] \in Members'
    BY <1>3, <1>11, <2>1 DEF TakenOut
  <2>3. PICK rr : rr = [n \in Slots |-> IF n = q THEN 1 ELSE r[n] + 1]
    OBVIOUS
  <2>4. r \in [Slots -> Nat \ {0}] /\ G \subseteq Slots
    BY <1>2 DEF Trail
  <2>5. rr \in [Slots -> Nat \ {0}]
    BY <2>3, <2>4
  <2>6. ASSUME NEW n \in G \ Members'
        PROVE  list_next[n] \in Members' \/ rr[list_next[n]] < rr[n]
    <3>1. CASE n = q
      BY <2>2, <3>1
    <3>2. CASE n # q
      <4>1. n \in G \ Members /\ list_next[n] \in G
        BY <1>2, <2>2, <3>2 DEF Trail
      <4>2. list_next[n] \in Members \/ r[list_next[n]] < r[n]
        BY <1>2, <4>1 DEF Trail
      <4>3. CASE list_next[n] = q
        BY <2>3, <2>4, <3>2, <4>1, <4>3
      <4>4. CASE list_next[n] # q
        BY <2>2, <2>3, <2>4, <3>2, <4>1, <4>2, <4>4
      <4> QED BY <4>3, <4>4
    <3> QED BY <3>1, <3>2
  <2>7. Trail(G, rr)'
    BY <1>1, <1>2, <2>2, <2>5, <2>6 DEF Trail
  <2> QED BY <2>7
<1> QED
  BY <1>1, <1>3, <1>5, <1>6, <1>7, <1>8, <1>9, <1>10, <1>11, Effects

\* Where a walk begins: at the head, which is in the list.
LEMMA HeadListed ==
  ASSUME Inv, ~torn, NEW n \in Remaining
  PROVE  /\ len > 0 /\ listhead \in Members
         /\ pc \notin Unlinking => listhead = order[1]
<1>1. n \in Members /\ len \in Nat /\ (pc \in Unlinking => n # pos)
  BY Parts DEF Remaining, TypeOK
<1>2. len > 0 /\ 1 \in 1..len
  BY <1>1 DEF Members
<1>3. pc \in Unlinking => len # 1 /\ 2 \in 1..len
  <2>1. pc \in Unlinking => pos \in Members
    BY Parts, Places DEF Locals
  <2>2. len = 1 => Members = {order[1]}
    BY DEF Members
  <2> QED BY <1>1, <1>2, <2>1, <2>2
<1>4. order[1] \in Members /\ order[Succ(1)] \in Members
  BY <1>2, Parts, Places
<1>5. pc \in Unlinking => order[2] \in Members
  BY <1>3, Parts, Places
<1> QED
  BY <1>2, <1>3, <1>4, <1>5, Parts DEF HeadAt, Unlinking

\* From the list a walk can get to the list, and to the new head once the last entry leads to it.
LEMMA FirstTrail ==
  ASSUME Inv, ~torn, NEW h \in Members, i' = h, UNCHANGED ringVars
  PROVE  \E G, r : Trail(G, r)'
<1>1. PICK r : r = [n \in Slots |-> 1]
  OBVIOUS
<1>2. PICK G : G = IF pc = "i5" THEN Members \cup {pos} ELSE Members
  OBVIOUS
<1>3. Members \subseteq Slots /\ len \in Nat
  BY Parts, Places DEF TypeOK
<1>4. ASSUME NEW n \in Members PROVE list_next[n] \in G
  <2>1. PICK p \in 1..len : n = order[p]
    BY <1>4 DEF Members
  <2>2. order[Succ(p)] \in Members
    BY <2>1, Parts, Places
  <2>3. pc = "r4" => at \in 1..len
    BY Parts DEF Locals, Unlinking
  <2>4. pc = "r4" => order[Succ(at)] \in Members
    BY <2>3, Parts, Places
  <2> QED BY <1>2, <2>1, <2>2, <2>4, Parts DEF Links
<1>5. pc = "i5" => pos \in Slots /\ list_next[pos] \in Members
  BY Parts, Places DEF Locals, Linking, Inserting, Links, TypeOK
<1>6. Members' = Members /\ list_next' = list_next
  BY DEF ringVars, shared, history, Members
<1>7. G \subseteq Slots /\ Members \subseteq G /\ (\A n \in G : list_next[n] \in G)
      /\ \A n \in G \ Members : list_next[n] \in Members
  BY <1>2, <1>3, <1>4, <1>5
<1>8. Trail(G, r)'
  <2>1. r \in [Slots -> Nat \ {0}]
    BY <1>1
  <2> QED BY <1>6, <1>7, <2>1 DEF Trail
<1> QED BY <1>8

\* The steps of the reader, whose own entry stays and whose trail it follows.
LEMMA ReaderLed ==
  ASSUME Inv, ~torn, Watching, Led, Reader
  PROVE  Watching' /\ Led'
<1>1. ASSUME NEW n \in Slots, ReadHead(n) PROVE Watching' /\ Led'
  <2>1. n \in Remaining /\ rpc' = "report" /\ own' = n /\ i' = listhead /\ UNCHANGED ringVars
    BY <1>1 DEF ReadHead
  <2>2. Remaining' = Remaining
    BY <2>1 DEF ringVars, shared, locals, history, Remaining, Members
  <2>3. listhead \in Members
    BY <2>1, HeadListed
  <2>4. Led'
    BY <2>1, <2>3, FirstTrail DEF Led
  <2> QED BY <2>1, <2>2, <2>4 DEF Watching
<1>2. CASE Report \/ ReadNext \/ Test
  <2>1. /\ Walking /\ UNCHANGED <<ringVars, own>>
        /\ i' \in {i, list_next[i]}
        /\ rpc' \in {"report", "next", "test", "done", "alarm"}
    BY <1>2 DEF Report, ReadNext, Test, walk, Walking
  <2>2. Remaining' = Remaining /\ Members' = Members /\ list_next' = list_next
    BY <2>1 DEF ringVars, shared, locals, history, Remaining, Members
  <2>3. PICK G, r : Trail(G, r)
    BY <2>1 DEF Led
  <2>4. Trail(G, r)'
    BY <2>1, <2>2, <2>3 DEF Trail
  <2>5. Watching'
    BY <2>1, <2>2 DEF Watching
  <2> QED BY <2>4, <2>5 DEF Led
<1> QED BY <1>1, <1>2 DEF Reader

-----------------------------------------------------------------------------
(* Walks during which no entry is cleared. *)

\* An entry put in at place p moves those behind it one place on.
LEMMA Shifted ==
  ASSUME TypeOK, NEW p \in 1..len+1, order' = WithPos(p), len' = len + 1
  PROVE  /\ len \in Nat /\ len' \in Nat /\ order'[p] = pos
         /\ \A q \in 1..len : /\ q < p => q \in 1..len' /\ order'[q] = order[q]
                              /\ q >= p => q+1 \in 1..len' /\ order'[q+1] = order[q]
BY DEF TypeOK, WithPos

\* Who was ahead is so still after an entry is put in; nobody joins those who stay.
LEMMA NoneLostOn ==
  ASSUME TypeOK, NEW p \in 1..len+1, order' = WithPos(p), len' = len + 1,
         stay' \subseteq stay, seen' = seen,
         NEW k \in 1..len+1, NoneLost(k),
         NEW t \in Nat, t <= IF k < p THEN k ELSE k+1
  PROVE  NoneLost(t)'
<1> SUFFICES ASSUME NEW n \in stay, ~(seen[n] >= 1)
             PROVE  \E q \in t..len' : order'[q] = n
  BY DEF NoneLost
<1>1. PICK q \in k..len : order[q] = n
  BY DEF NoneLost
<1>2. len \in Nat /\ q \in 1..len
  BY DEF TypeOK
<1>3. CASE q < p
  BY <1>1, <1>2, <1>3, Shifted
<1>4. CASE q >= p
  <2>1. q+1 \in t..len' /\ order'[q+1] = order[q]
    BY <1>2, <1>4, Shifted
  <2> QED BY <1>1, <2>1
<1> QED BY <1>2, <1>3, <1>4

\* The same while the list is left alone.
LEMMA NoneLostStays ==
  ASSUME UNCHANGED <<order, len, seen>>, stay' \subseteq stay
  PROVE  (\A k : NoneLost(k) => NoneLost(k)') /\ (NoneLost(len+1) => NoneLost(len+1)')
BY DEF NoneLost

\* Everybody has been reported.
LEMMA AllSeen ==
  ASSUME TypeOK
  PROVE  NoneLost(len+1) <=> \A n \in stay : seen[n] >= 1
BY DEF NoneLost, TypeOK

\* The steps of writers pass nobody by.
LEMMA WriterAhead ==
  ASSUME Inv, ~torn, Watching, Ahead, WriterStep, rpc # "done"
  PROVE  Ahead'
<1>1. CASE ~Walking
  BY <1>1 DEF Ahead, WriterStep, Walking
<1> SUFFICES ASSUME Walking, ~cleared' PROVE Ahead'
  BY <1>1 DEF Ahead
<1>2. /\ Writer /\ i' = i /\ seen' = seen /\ rpc' = rpc /\ stay' \subseteq stay
      /\ ~cleared /\ pc' # "r1" /\ \A n \in stay' : n \in Slots => active'[n]
  BY DEF WriterStep
<1>3. pc \notin Unlinking \cup {"push", "zero"}
  BY <1>2 DEF Ahead
<1>4. pc' \notin Unlinking \cup {"push", "zero"}
  <2>1. pc' \notin Unlinking
    BY <1>2, <1>3, ClearingOne
  <2>2. pc' \notin {"push", "zero"}
    BY <1>2, <1>3 DEF Writer, Begin, Alone1, Alone2, Alone3, Walk, Link1, Link2, Link3, Link4, Link5,
       Pop, Fill, Clear, Unlink1, Unlink2, Unlink3, Unlink4, Push, Zero, Unlinking
  <2> QED BY <2>1, <2>2
<1>5. len > 0 /\ TypeOK /\ Members \subseteq Slots /\ len \in Nat
  BY OwnListed, Parts, Places DEF TypeOK
<1>6. \/ (Quiet \/ Aimed \/ LedToNew) \/ (\E p \in 2..len+1 : PutIn(p)) \/ NewHead
  BY <1>2, <1>3, <1>5, Effects DEF Bridged, TakenOut
<1>7. Members \subseteq Members'
  BY <1>6 DEF Quiet, Aimed, LedToNew, PutIn, NewHead, Members
<1>8. Walking' /\ (\A n \in stay' : n \in Members' /\ active'[n]) /\ seen' \in [Slots -> 0..SeenMax]
  BY <1>2, <1>5, <1>7 DEF Ahead, Walking
<1>9. CASE Quiet \/ Aimed \/ LedToNew
  <2>1. UNCHANGED <<order, len>> /\ ~AtNew
    BY <1>9 DEF Quiet, Aimed, LedToNew, AtNew
  <2>2. /\ \A k : NoneLost(k) => NoneLost(k)'
        /\ NoneLost(len+1) => NoneLost(len+1)'
    BY <1>2, <2>1, NoneLostStays
  <2>3. rpc = "report" => \E p \in 1..len' : i' = order'[p] /\ NoneLost(p)'
    BY <1>2, <2>1, <2>2 DEF Ahead
  <2>4. rpc = "next" => \E p \in 1..len' : i' = order'[p] /\ NoneLost(p+1)'
    BY <1>2, <2>1, <2>2 DEF Ahead
  <2>5. rpc = "test" => \/ i' \in Members' /\ NoneLost(len+1)'
                        \/ \E p \in 2..len' : i' = order'[p] /\ NoneLost(p)'
    BY <1>2, <1>7, <2>1, <2>2 DEF Ahead
  <2> QED BY <1>2, <1>4, <1>8, <2>3, <2>4, <2>5 DEF Ahead, Walking
<1>10. ASSUME NEW p \in 1..len+1, order' = WithPos(p), len' = len + 1, ~AtNew PROVE Ahead'
  <2>1. /\ \A k \in 1..len+1 : NoneLost(k) => NoneLost(IF k < p THEN k ELSE k+1)'
        /\ \A k \in 1..len : NoneLost(k+1) => NoneLost(IF k < p THEN k+1 ELSE k+2)'
    <3>1. ASSUME NEW k \in 1..len+1, NoneLost(k), NEW t \in Nat, t <= IF k < p THEN k ELSE k+1
          PROVE  NoneLost(t)'
      BY <1>2, <1>5, <1>10, <3>1, NoneLostOn
    <3>2. ASSUME NEW k \in 1..len+1, NoneLost(k) PROVE NoneLost(IF k < p THEN k ELSE k+1)'
      <4>1. PICK t : t = IF k < p THEN k ELSE k+1
        OBVIOUS
      <4>2. t \in Nat /\ t <= IF k < p THEN k ELSE k+1
        BY <1>5, <4>1
      <4> QED BY <3>1, <3>2, <4>1, <4>2
    <3>3. ASSUME NEW k \in 1..len, NoneLost(k+1) PROVE NoneLost(IF k < p THEN k+1 ELSE k+2)'
      <4>1. PICK t, kk : t = (IF k < p THEN k+1 ELSE k+2) /\ kk = k+1
        OBVIOUS
      <4>2. t \in Nat /\ t <= (IF kk < p THEN kk ELSE kk+1) /\ kk \in 1..len+1
        BY <1>5, <4>1
      <4>3. NoneLost(t)'
        BY <3>1, <3>3, <4>1, <4>2
      <4> QED BY <4>1, <4>3
    <3> QED BY <3>2, <3>3
  <2>2. \A k \in 1..len : /\ k < p => k \in 1..len' /\ order'[k] = order[k]
                          /\ k >= p => k+1 \in 1..len' /\ order'[k+1] = order[k]
    BY <1>5, <1>10, Shifted
  <2>3. rpc = "report" => \E k \in 1..len' : i' = order'[k] /\ NoneLost(k)'
    <3> SUFFICES ASSUME rpc = "report" PROVE \E k \in 1..len' : i' = order'[k] /\ NoneLost(k)'
      OBVIOUS
    <3>1. PICK k \in 1..len : i = order[k] /\ NoneLost(k)
      BY <1>2, <1>10 DEF Ahead
    <3>2. PICK kk : kk = k+1
      OBVIOUS
    <3>3. CASE k < p
      BY <1>2, <1>5, <2>1, <2>2, <3>1, <3>3
    <3>4. CASE k >= p
      <4>1. NoneLost(kk)' /\ kk \in 1..len' /\ order'[kk] = i
        BY <1>5, <2>1, <2>2, <3>1, <3>2, <3>4
      <4> QED BY <1>2, <4>1
    <3> QED BY <1>5, <3>3, <3>4
  <2>4. rpc = "next" => \E k \in 1..len' : i' = order'[k] /\ NoneLost(k+1)'
    <3> SUFFICES ASSUME rpc = "next" PROVE \E k \in 1..len' : i' = order'[k] /\ NoneLost(k+1)'
      OBVIOUS
    <3>1. PICK k \in 1..len : i = order[k] /\ NoneLost(k+1)
      BY <1>2, <1>10 DEF Ahead
    <3>2. PICK kk : kk = k+1
      OBVIOUS
    <3>3. CASE k < p
      BY <1>2, <2>1, <2>2, <3>1, <3>3
    <3>4. CASE k >= p
      <4>1. NoneLost(kk+1)' /\ kk \in 1..len' /\ order'[kk] = i
        BY <2>1, <2>2, <3>1, <3>2, <3>4
      <4> QED BY <1>2, <4>1
    <3> QED BY <1>5, <3>3, <3>4
  <2>5. rpc = "test" => \/ i' \in Members' /\ NoneLost(len+1)'
                        \/ \E k \in 2..len' : i' = order'[k] /\ NoneLost(k)'
    <3> SUFFICES ASSUME rpc = "test"
                 PROVE  \/ i' \in Members' /\ NoneLost(len+1)'
                        \/ \E k \in 2..len' : i' = order'[k] /\ NoneLost(k)'
      OBVIOUS
    <3>1. CASE i \in Members /\ NoneLost(len+1)
      <4>1. \A n \in stay' : seen'[n] >= 1
        BY <1>2, <1>5, <3>1, AllSeen
      <4>2. NoneLost(len+1)'
        BY <4>1 DEF NoneLost
      <4> QED BY <1>2, <1>7, <3>1, <4>2
    <3>2. CASE \E k \in 2..len : i = order[k] /\ NoneLost(k)
      <4>1. PICK k \in 2..len : i = order[k] /\ NoneLost(k)
        BY <3>2
      <4>2. k \in 1..len /\ k \in 1..len+1
        BY <1>5
      <4>3. CASE k < p
        <5>1. k \in 2..len' /\ order'[k] = i /\ NoneLost(k)'
          BY <1>5, <2>1, <2>2, <4>1, <4>2, <4>3
        <5> QED BY <1>2, <5>1
      <4>4. CASE k >= p
        <5>1. k+1 \in 2..len' /\ order'[k+1] = i /\ NoneLost(k+1)'
          BY <1>5, <2>1, <2>2, <4>1, <4>2, <4>4
        <5> QED BY <1>2, <5>1
      <4> QED BY <1>5, <4>3, <4>4
    <3> QED BY <1>2, <1>10, <3>1, <3>2 DEF Ahead
  <2> QED BY <1>2, <1>4, <1>8, <2>3, <2>4, <2>5 DEF Ahead, Walking
<1>11. ASSUME NEW p \in 2..len+1, PutIn(p) PROVE Ahead'
  BY <1>5, <1>10, <1>11 DEF PutIn, AtNew
<1>12. CASE NewHead /\ AtNew
  <2>1. order' = WithPos(1) /\ len' = len+1 /\ i = pos /\ pos \in Members'
    BY <1>12 DEF NewHead, AtNew
  <2>2. order'[1] = i' /\ 1 \in 1..len'
    BY <1>2, <1>5, <2>1, Shifted
  <2>3. NoneLost(len+1)
    BY <1>2, <1>12, <1>5, Parts DEF Ahead, Walking, NewHead, AtNew, NoneLost, TypeOK, Members
  <2>4. \A n \in stay' : seen'[n] >= 1
    BY <1>2, <1>5, <2>3, AllSeen
  <2>5. (\A k : NoneLost(k)') /\ NoneLost(len+1)'
    BY <2>4 DEF NoneLost
  <2> QED BY <1>2, <1>4, <1>8, <2>1, <2>2, <2>5 DEF Ahead, Walking
<1>13. CASE NewHead /\ ~AtNew
  <2>1. 1 \in 1..len+1
    BY <1>5
  <2> QED BY <1>10, <1>13, <2>1 DEF NewHead
<1> QED BY <1>6, <1>9, <1>11, <1>12, <1>13

\* The reader comes from each entry to the one behind it.
LEMMA NextPlace ==
  ASSUME Inv, ~torn, pc \notin Unlinking, len > 0
  PROVE  /\ listhead = order[1] /\ order[1] \in Members
         /\ \A p \in 1..len : /\ p < len => list_next[order[p]] = order[p+1]
                              /\ p = len => \/ list_next[order[p]] = order[1] /\ pc # "i5"
                                            \/ list_next[order[p]] = pos /\ pc = "i5"
         /\ pc = "i5" => list_next[pos] = order[1] /\ pos \in Slots \ Members /\ ~active[pos]
<1>1. len \in Nat /\ 1 \in 1..len
  BY Parts DEF TypeOK
<1>2. order[1] \in Members
  BY <1>1, Parts, Places
<1>3. pc = "i5" => at = 1 /\ pos \in Slots \ Members
  BY Parts DEF Passed, Linking, Locals, Inserting, InUse, TypeOK
<1>4. pc = "i5" => list_next[pos] = order[1] /\ ~active[pos]
  BY <1>3, Parts DEF Links, Locals, Linking, InUse
<1>5. listhead = order[1]
  BY <1>1, Parts DEF HeadAt, Unlinking
<1>6. \A p \in 1..len : list_next[order[p]] = IF pc = "i5" /\ p = len THEN pos ELSE order[Succ(p)]
  BY Parts DEF Links, Unlinking
<1> QED BY <1>1, <1>2, <1>3, <1>4, <1>5, <1>6 DEF Succ

\* The reader reports who stays when it is there, and is done when it comes to the head again.
LEMMA ReaderAhead ==
  ASSUME Inv, ~torn, Watching, Ahead, Reader
  PROVE  Ahead'
<1>1. ASSUME NEW n \in Slots, ReadHead(n), ~cleared' PROVE Ahead'
  <2>1. /\ n \in Remaining /\ rpc' = "report" /\ i' = listhead /\ UNCHANGED ringVars
        /\ seen' = [m \in Slots |-> 0] /\ stay' = {m \in Remaining : active[m]}
        /\ pc \notin Unlinking \cup {"push", "zero"}
    BY <1>1 DEF ReadHead
  <2>2. /\ UNCHANGED <<order, len, pc, active>> /\ Members' = Members
    BY <2>1 DEF ringVars, shared, history, Members
  <2>3. listhead = order[1] /\ len > 0 /\ len \in Nat
    BY <2>1, HeadListed, Parts DEF TypeOK
  <2>4. stay' \subseteq Members' /\ (\A m \in stay' : active'[m]) /\ seen' \in [Slots -> 0..SeenMax]
    BY <2>1, <2>2 DEF Remaining, SeenMax
  <2>5. \A m \in stay' : \E q \in 1..len' : order'[q] = m
    BY <2>2, <2>4 DEF Members
  <2>6. NoneLost(1)' /\ 1 \in 1..len'
    BY <2>2, <2>3, <2>5 DEF NoneLost
  <2> QED BY <2>1, <2>2, <2>3, <2>4, <2>6 DEF Ahead, Walking
<1>2. ASSUME Report \/ ReadNext \/ Test, ~cleared'
      PROVE  /\ Walking /\ ~cleared /\ UNCHANGED <<ringVars, own, stay>>
             /\ UNCHANGED <<order, len, pc, pos, active, listhead>> /\ Members' = Members
             /\ len > 0 /\ len \in Nat /\ TypeOK /\ Members \subseteq Slots /\ pc \notin Unlinking
             /\ pc \notin Unlinking \cup {"push", "zero"}
             /\ \A n \in stay : n \in Members /\ active[n]
             /\ seen \in [Slots -> 0..SeenMax]
  <2>1. Walking /\ ~cleared /\ UNCHANGED <<ringVars, own, stay>>
    BY <1>2 DEF Report, ReadNext, Test, walk, Walking
  <2>2. len > 0 /\ len \in Nat /\ TypeOK /\ Members \subseteq Slots
    BY <2>1, OwnListed, Parts, Places DEF TypeOK
  <2> QED BY <2>1, <2>2 DEF ringVars, shared, locals, history, Members, Ahead
<1>3. ASSUME Report, ~cleared' PROVE Ahead'
  <2>1. /\ rpc = "report" /\ rpc' = "next" /\ i' = i
        /\ seen' = IF active[i] /\ seen[i] < SeenMax THEN [seen EXCEPT ![i] = @ + 1] ELSE seen
    BY <1>3 DEF Report
  <2>2. PICK e : e = i
    OBVIOUS
  <2>3. /\ seen' \in [Slots -> 0..SeenMax]
        /\ \A n \in Slots : seen[n] >= 1 => seen'[n] >= 1
        /\ e \in stay => seen'[e] >= 1
    <3>1. seen \in [Slots -> 0..2] /\ (e \in stay => active[e]) /\ e \in Slots
      <4>1. AtNew => pos \in Slots
        BY <1>2, <1>3, NextPlace DEF AtNew
      <4>2. \A p \in 1..len : order[p] \in Slots
        BY Parts, Places
      <4>3. e \in Slots
        BY <1>2, <1>3, <2>1, <2>2, <4>1, <4>2 DEF Ahead, AtNew
      <4> QED BY <1>2, <1>3, <4>3 DEF SeenMax
    <3>2. seen' = IF active[e] /\ seen[e] < 2 THEN [seen EXCEPT ![e] = seen[e] + 1] ELSE seen
      BY <2>1, <2>2 DEF SeenMax
    <3>3. CASE active[e] /\ seen[e] < 2
      <4>1. seen[e] + 1 \in 1..2
        BY <3>1, <3>3
      <4>2. seen'[e] = seen[e] + 1 /\ \A n \in Slots : n # e => seen'[n] = seen[n]
        BY <3>1, <3>2, <3>3
      <4>3. seen' \in [Slots -> 0..SeenMax]
        BY <3>1, <3>2, <3>3, <4>1 DEF SeenMax
      <4> QED BY <4>1, <4>2, <4>3
    <3>4. CASE ~(active[e] /\ seen[e] < 2)
      BY <3>1, <3>2, <3>4 DEF SeenMax
    <3> QED BY <3>3, <3>4
  <2>4. stay \subseteq Slots
    BY <1>2, <1>3
  <2>5. CASE AtNew /\ NoneLost(len+1)
    <3>1. \A n \in stay' : seen'[n] >= 1
      BY <1>2, <1>3, <2>3, <2>4, <2>5, AllSeen
    <3>2. NoneLost(len+1)' /\ AtNew'
      BY <1>2, <1>3, <2>1, <2>5, <3>1 DEF NoneLost, AtNew
    <3> QED BY <1>2, <1>3, <2>1, <2>3, <3>2 DEF Ahead, Walking
  <2>6. ASSUME NEW p \in 1..len, i = order[p], NoneLost(p) PROVE Ahead'
    <3>1. ASSUME NEW n \in stay, ~(seen'[n] >= 1) PROVE \E q \in p+1..len : order[q] = n
      <4>1. PICK q \in p..len : order[q] = n
        BY <2>3, <2>4, <2>6, <3>1 DEF NoneLost
      <4>2. q # p
        BY <2>2, <2>3, <2>6, <3>1, <4>1
      <4> QED BY <1>2, <1>3, <4>1, <4>2
    <3>2. NoneLost(p+1)'
      BY <1>2, <1>3, <3>1 DEF NoneLost
    <3>3. p \in 1..len' /\ i' = order'[p]
      BY <1>2, <1>3, <2>1, <2>6
    <3> QED BY <1>2, <1>3, <2>1, <2>3, <3>2, <3>3 DEF Ahead, Walking
  <2> QED BY <1>2, <1>3, <2>1, <2>5, <2>6 DEF Ahead
<1>4. ASSUME ReadNext, ~cleared' PROVE Ahead'
  <2>1. /\ rpc = "next" /\ rpc' \in {"test", "alarm"} /\ i' = list_next[i] /\ seen' = seen
    BY <1>4 DEF ReadNext
  <2>2. \A k : NoneLost(k) => NoneLost(k)'
    BY <1>2, <1>4, <2>1 DEF NoneLost
  <2>3. CASE AtNew /\ NoneLost(len+1)
    <3>1. i' \in Members'
      BY <1>2, <1>4, <2>1, <2>3, NextPlace DEF AtNew
    <3>2. NoneLost(len+1)'
      BY <1>2, <1>4, <2>1, <2>3 DEF NoneLost
    <3> QED BY <1>2, <1>4, <2>1, <3>1, <3>2 DEF Ahead, Walking
  <2>4. ASSUME NEW p \in 1..len, i = order[p], NoneLost(p+1) PROVE Ahead'
    <3>1. CASE p < len
      <4>1. PICK k : k = p+1
        OBVIOUS
      <4>2. i' = order'[k] /\ k \in 2..len' /\ NoneLost(k)'
        BY <1>2, <1>4, <2>1, <2>2, <2>4, <3>1, <4>1, NextPlace
      <4> QED BY <1>2, <1>4, <2>1, <4>2 DEF Ahead, Walking
    <3>2. CASE p = len
      <4>1. AtNew' \/ i' \in Members'
        BY <1>2, <1>4, <2>1, <2>4, <3>2, NextPlace DEF AtNew
      <4>2. NoneLost(len+1)'
        BY <1>2, <1>4, <2>1, <2>4, <3>2 DEF NoneLost
      <4> QED BY <1>2, <1>4, <2>1, <4>1, <4>2 DEF Ahead, Walking
    <3> QED BY <1>2, <1>4, <3>1, <3>2
  <2> QED BY <1>2, <1>4, <2>1, <2>3, <2>4 DEF Ahead
<1>5. ASSUME Test, ~cleared' PROVE Ahead'
  <2>1. /\ rpc = "test" /\ rpc' = (IF i = listhead THEN "done" ELSE "report") /\ i' = i /\ seen' = seen
    BY <1>5 DEF Test, walk
  <2>2. (\A k : NoneLost(k) => NoneLost(k)') /\ (NoneLost(len+1) => NoneLost(len+1)')
    BY <1>2, <1>5, <2>1 DEF NoneLost
  <2>3. CASE (AtNew \/ i \in Members) /\ NoneLost(len+1)
    <3>1. NoneLost(len+1)' /\ \A n \in stay : seen[n] >= 1
      BY <1>2, <1>5, <2>2, <2>3, AllSeen
    <3>2. \A k : NoneLost(k)'
      BY <1>2, <1>5, <2>1, <3>1 DEF NoneLost
    <3>3. AtNew' \/ \E k \in 1..len' : i' = order'[k]
      BY <1>2, <1>5, <2>1, <2>3 DEF AtNew, Members
    <3> QED BY <1>2, <1>5, <2>1, <3>1, <3>2, <3>3 DEF Ahead, Walking
  <2>4. ASSUME NEW p \in 2..len, i = order[p], NoneLost(p) PROVE Ahead'
    <3>1. p \in 1..len /\ 1 \in 1..len /\ p # 1
      BY <1>2, <1>5
    <3>2. order[p] # order[1] /\ listhead = order[1]
      BY <1>2, <1>5, <3>1, NextPlace, Parts DEF NoDuplicates
    <3>3. rpc' = "report"
      BY <2>1, <2>4, <3>2
    <3>4. p \in 1..len' /\ i' = order'[p] /\ NoneLost(p)'
      BY <1>2, <1>5, <2>1, <2>2, <2>4, <3>1
    <3> QED BY <1>2, <1>5, <2>1, <3>3, <3>4 DEF Ahead, Walking
  <2> QED BY <1>2, <1>5, <2>1, <2>3, <2>4 DEF Ahead
<1>6. CASE cleared'
  BY <1>6 DEF Ahead
<1> QED BY <1>1, <1>3, <1>4, <1>5, <1>6 DEF Reader

-----------------------------------------------------------------------------
(* Walks during which the head stays too. *)

\* Who was reported was so before place p, also after an entry was put in behind the head.
LEMMA OnceOn ==
  ASSUME TypeOK, NEW p \in 1..len+1, order' = WithPos(p), len' = len + 1, seen' = seen,
         NEW k \in 1..len+1, Once(k)
  PROVE  Once(IF k <= p THEN k ELSE k+1)' /\ Once(k+1)'
<1>0. len \in Nat /\ len' = len + 1
  BY DEF TypeOK
<1>1. ASSUME NEW n \in Slots, seen[n] >= 1
      PROVE  /\ seen'[n] = 1
             /\ \E q \in 1..k : q <= len' /\ order'[q] = n
             /\ k <= p => \E q \in 1..k-1 : q <= len' /\ order'[q] = n
  <2>1. PICK q \in 1..k-1 : q <= len /\ order[q] = n
    BY <1>1 DEF Once
  <2>2. q \in 1..len /\ seen[n] = 1
    BY <1>0, <1>1, <2>1 DEF Once
  <2>3. CASE q < p
    <3>1. q \in 1..len' /\ order'[q] = n
      BY <2>1, <2>2, <2>3, Shifted
    <3> QED BY <1>0, <2>1, <2>2, <3>1
  <2>4. CASE q >= p
    <3>1. q+1 \in 1..len' /\ order'[q+1] = n /\ ~(k <= p)
      BY <1>0, <2>1, <2>2, <2>4, Shifted
    <3>2. q+1 \in 1..k /\ q+1 <= len'
      BY <1>0, <2>1, <3>1
    <3> QED BY <2>2, <3>1, <3>2
  <2> QED BY <1>0, <2>1, <2>3, <2>4
<1>2. Once(k+1)'
  BY <1>0, <1>1 DEF Once
<1>3. CASE k <= p
  BY <1>0, <1>1, <1>3 DEF Once
<1>4. CASE ~(k <= p)
  BY <1>2, <1>4
<1> QED BY <1>2, <1>3, <1>4

\* The steps of writers that do not move the head leave the places passed passed.
LEMMA WriterBehind ==
  ASSUME Inv, ~torn, Watching, Ahead, Behind, WriterStep, rpc # "done"
  PROVE  Behind'
<1>1. CASE ~Walking
  BY <1>1 DEF Behind, WriterStep, Walking
<1> SUFFICES ASSUME Walking, ~cleared', ~headed' PROVE Behind'
  BY <1>1 DEF Behind
<1>2. /\ Writer /\ i' = i /\ seen' = seen /\ rpc' = rpc /\ rpc # "done"
      /\ ~cleared /\ ~headed /\ listhead' = listhead
  BY DEF WriterStep
<1>3. pc \notin Unlinking \cup {"push", "zero"}
  BY <1>2 DEF Ahead
<1>5. len > 0 /\ TypeOK /\ Members \subseteq Slots /\ len \in Nat /\ order[1] \in Members
  <2>1. len > 0 /\ len \in Nat
    BY OwnListed, Parts DEF TypeOK
  <2>2. 1 \in 1..len
    BY <2>1
  <2> QED BY <2>1, <2>2, Parts, Places
<1>6. \/ (Quiet \/ Aimed \/ LedToNew) \/ (\E p \in 2..len+1 : PutIn(p)) \/ NewHead
  BY <1>2, <1>3, <1>5, Effects DEF Bridged, TakenOut
<1>7. ~NewHead
  BY <1>2, <1>5 DEF NewHead
<1>8. CASE Quiet \/ Aimed \/ LedToNew
  <2>1. UNCHANGED <<order, len>> /\ ~AtNew
    BY <1>8 DEF Quiet, Aimed, LedToNew, AtNew
  <2>2. (\A k : Once(k) => Once(k)') /\ (Once(len+1) => Once(len+1)')
    BY <1>2, <2>1 DEF Once
  <2>3. rpc = "report" => \E p \in 1..len' : i' = order'[p] /\ Once(p)'
    BY <1>2, <2>1, <2>2 DEF Behind
  <2>4. rpc = "next" => \E p \in 1..len' : i' = order'[p] /\ Once(p+1)'
    BY <1>2, <2>1, <2>2 DEF Behind
  <2>5. rpc = "test" => \/ i' = order'[1] /\ Once(len+1)'
                        \/ \E p \in 2..len' : i' = order'[p] /\ Once(p)'
    BY <1>2, <2>1, <2>2 DEF Behind
  <2> QED BY <1>2, <2>3, <2>4, <2>5 DEF Behind
<1>9. ASSUME NEW p \in 2..len+1, PutIn(p) PROVE Behind'
  <2>1. order' = WithPos(p) /\ len' = len + 1 /\ ~AtNew /\ p \in 1..len+1 /\ 1 < p
    BY <1>5, <1>9 DEF PutIn, AtNew
  <2>2. /\ \A k \in 1..len+1 : Once(k) => Once(IF k <= p THEN k ELSE k+1)' /\ Once(k+1)'
        /\ \A k \in 1..len : /\ k < p => k \in 1..len' /\ order'[k] = order[k]
                             /\ k >= p => k+1 \in 1..len' /\ order'[k+1] = order[k]
    BY <1>2, <1>5, <2>1, OnceOn, Shifted
  <2>3. ASSUME NEW k \in 1..len, i = order[k], NEW t, t = IF k < p THEN k ELSE k+1
        PROVE  /\ t \in 1..len' /\ i' = order'[t] /\ (k # 1 => t \in 2..len')
               /\ Once(k) => Once(t)'
               /\ Once(k+1) => Once(t+1)'
    <3>1. k \in 1..len+1 /\ k+1 \in 1..len+1 /\ k \in Nat /\ p \in Nat
      BY <1>5
    <3>2. CASE k < p
      <4>1. t = k /\ k <= p /\ k+1 <= p
        BY <2>3, <3>1, <3>2
      <4> QED BY <1>2, <1>5, <2>2, <2>3, <3>1, <3>2, <4>1
    <3>3. CASE ~(k < p)
      <4>1. PICK kk : kk = k+1
        OBVIOUS
      <4>2. t = kk /\ k >= p /\ ~(kk <= p)
        BY <2>3, <3>1, <3>3, <4>1
      <4> QED BY <1>2, <1>5, <2>2, <2>3, <3>1, <4>1, <4>2
    <3> QED BY <3>2, <3>3
  <2>4. ASSUME rpc = "report" PROVE \E k \in 1..len' : i' = order'[k] /\ Once(k)'
    <3>1. PICK k \in 1..len : i = order[k] /\ Once(k)
      BY <1>2, <2>1, <2>4 DEF Behind
    <3>2. PICK t : t = IF k < p THEN k ELSE k+1
      OBVIOUS
    <3>3. t \in 1..len' /\ i' = order'[t] /\ Once(t)'
      BY <2>3, <3>1, <3>2
    <3> QED BY <3>3
  <2>5. ASSUME rpc = "next" PROVE \E k \in 1..len' : i' = order'[k] /\ Once(k+1)'
    <3>1. PICK k \in 1..len : i = order[k] /\ Once(k+1)
      BY <1>2, <2>1, <2>5 DEF Behind
    <3>2. PICK t : t = IF k < p THEN k ELSE k+1
      OBVIOUS
    <3>3. t \in 1..len' /\ i' = order'[t] /\ Once(t+1)'
      BY <2>3, <3>1, <3>2
    <3> QED BY <3>3
  <2>6. ASSUME rpc = "test"
        PROVE  \/ i' = order'[1] /\ Once(len+1)'
               \/ \E k \in 2..len' : i' = order'[k] /\ Once(k)'
    <3>1. CASE i = order[1] /\ Once(len+1)
      <4>1. PICK e : e = len+1
        OBVIOUS
      <4>2. e \in 1..len+1
        BY <1>5, <4>1
      <4>3. Once(e+1)'
        BY <2>2, <3>1, <4>1, <4>2
      <4>4. Once(len+1)'
        BY <2>1, <4>1, <4>3
      <4>5. order'[1] = order[1]
        BY <1>5, <2>1, <2>2
      <4> QED BY <1>2, <3>1, <4>4, <4>5
    <3>2. ASSUME NEW k \in 2..len, i = order[k], Once(k)
          PROVE  \E q \in 2..len' : i' = order'[q] /\ Once(q)'
      <4>1. PICK t : t = IF k < p THEN k ELSE k+1
        OBVIOUS
      <4>2. k \in 1..len /\ k # 1
        BY <1>5
      <4>3. t \in 2..len' /\ i' = order'[t] /\ Once(t)'
        BY <2>3, <3>2, <4>1, <4>2
      <4> QED BY <4>3
    <3> QED BY <1>2, <2>1, <2>6, <3>1, <3>2 DEF Behind
  <2> QED BY <1>2, <2>4, <2>5, <2>6 DEF Behind
<1> QED BY <1>6, <1>7, <1>8, <1>9

\* Each entry is reported in its place, once, before the reader is at the head again.
LEMMA ReaderBehind ==
  ASSUME Inv, ~torn, Watching, Ahead, Behind, Reader
  PROVE  Behind'
<1>1. ASSUME NEW n \in Slots, ReadHead(n), ~cleared' PROVE Behind'
  <2>1. /\ n \in Remaining /\ rpc' = "report" /\ i' = listhead /\ UNCHANGED ringVars
        /\ seen' = [m \in Slots |-> 0] /\ pc \notin Unlinking
    BY <1>1 DEF ReadHead
  <2>2. UNCHANGED <<order, len>>
    BY <2>1 DEF ringVars, history
  <2>3. listhead = order[1] /\ len > 0 /\ len \in Nat
    BY <2>1, HeadListed, Parts DEF TypeOK
  <2>4. Once(1)' /\ 1 \in 1..len'
    BY <2>1, <2>2, <2>3 DEF Once
  <2> QED BY <2>1, <2>2, <2>3, <2>4 DEF Behind
<1>2. ASSUME Report \/ ReadNext \/ Test, ~cleared', ~headed'
      PROVE  /\ Walking /\ ~cleared /\ ~headed
             /\ UNCHANGED <<order, len, pc, pos, active, listhead>>
             /\ len > 0 /\ len \in Nat /\ TypeOK /\ pc \notin Unlinking
             /\ seen \in [Slots -> 0..SeenMax]
  <2>1. Walking /\ ~cleared /\ ~headed /\ UNCHANGED ringVars
    BY <1>2 DEF Report, ReadNext, Test, walk, Walking
  <2>2. len > 0 /\ len \in Nat /\ TypeOK
    BY <2>1, OwnListed, Parts DEF TypeOK
  <2> QED BY <2>1, <2>2 DEF ringVars, shared, locals, history, Ahead
<1>3. ASSUME Report, ~cleared', ~headed' PROVE Behind'
  <2>1. /\ rpc = "report" /\ rpc' = "next" /\ i' = i
        /\ seen' = IF active[i] /\ seen[i] < SeenMax THEN [seen EXCEPT ![i] = @ + 1] ELSE seen
    BY <1>3 DEF Report
  <2>2. PICK e : e = i
    OBVIOUS
  <2>3. /\ \A n \in Slots : n # e => seen'[n] = seen[n]
        /\ e \in Slots => seen'[e] \in {seen[e], seen[e] + 1}
        /\ ~active[e] => seen' = seen
    <3>1. seen \in [Slots -> 0..2]
      BY <1>2, <1>3 DEF SeenMax
    <3>2. seen' = IF active[e] /\ seen[e] < 2 THEN [seen EXCEPT ![e] = seen[e] + 1] ELSE seen
      BY <2>1, <2>2 DEF SeenMax
    <3> QED BY <3>1, <3>2
  <2>4. CASE AtNew /\ Once(len+1)
    <3>1. seen' = seen
      BY <1>2, <1>3, <2>2, <2>3, <2>4, NextPlace DEF AtNew
    <3>2. AtNew' /\ Once(len+1)'
      BY <1>2, <1>3, <2>1, <2>4, <3>1 DEF AtNew, Once
    <3> QED BY <2>1, <3>2 DEF Behind
  <2>5. ASSUME NEW p \in 1..len, i = order[p], Once(p) PROVE Behind'
    <3>1. e \in Slots /\ seen[e] = 0
      <4>1. e \in Slots /\ \A q \in 1..p-1 : q <= len /\ order[q] = e => FALSE
        BY <2>2, <2>5, <1>2, <1>3, Parts, Places DEF NoDuplicates
      <4> QED BY <1>2, <1>3, <2>5, <4>1 DEF Once, SeenMax
    <3>2. ASSUME NEW n \in Slots, seen'[n] >= 1
          PROVE  seen'[n] = 1 /\ \E q \in 1..(p+1)-1 : q <= len /\ order[q] = n
      <4>1. CASE n = e
        <5>1. p \in 1..(p+1)-1 /\ p <= len /\ order[p] = n
          BY <1>2, <1>3, <2>2, <2>5, <4>1
        <5>2. seen'[n] = 1
          BY <2>3, <3>1, <3>2, <4>1
        <5> QED BY <5>1, <5>2
      <4>2. CASE n # e
        <5>1. seen[n] >= 1
          BY <2>3, <3>2, <4>2
        <5>2. seen[n] = 1 /\ \E q \in 1..p-1 : q <= len /\ order[q] = n
          BY <2>5, <5>1 DEF Once
        <5> QED BY <1>2, <1>3, <2>3, <4>2, <5>2
      <4> QED BY <4>1, <4>2
    <3>3. Once(p+1)' /\ p \in 1..len' /\ i' = order'[p]
      BY <1>2, <1>3, <2>1, <2>5, <3>2 DEF Once
    <3> QED BY <2>1, <3>3 DEF Behind
  <2> QED BY <1>2, <1>3, <2>1, <2>4, <2>5 DEF Behind
<1>4. ASSUME ReadNext, ~cleared', ~headed' PROVE Behind'
  <2>1. /\ rpc = "next" /\ rpc' \in {"test", "alarm"} /\ i' = list_next[i] /\ seen' = seen
    BY <1>4 DEF ReadNext
  <2>2. (\A k : Once(k) => Once(k)') /\ (Once(len+1) => Once(len+1)')
    BY <1>2, <1>4, <2>1 DEF Once
  <2>3. CASE AtNew /\ Once(len+1)
    <3>1. i' = order'[1]
      BY <1>2, <1>4, <2>1, <2>3, NextPlace DEF AtNew
    <3> QED BY <1>2, <1>4, <2>1, <2>2, <2>3, <3>1 DEF Behind
  <2>4. ASSUME NEW p \in 1..len, i = order[p], Once(p+1) PROVE Behind'
    <3>1. CASE p < len
      <4>1. PICK k : k = p+1
        OBVIOUS
      <4>2. i' = order'[k] /\ k \in 2..len' /\ Once(k)'
        BY <1>2, <1>4, <2>1, <2>2, <2>4, <3>1, <4>1, NextPlace
      <4> QED BY <2>1, <4>2 DEF Behind
    <3>2. CASE p = len
      <4>1. AtNew' \/ i' = order'[1]
        BY <1>2, <1>4, <2>1, <2>4, <3>2, NextPlace DEF AtNew
      <4>2. Once(len+1)'
        BY <1>2, <1>4, <2>2, <2>4, <3>2
      <4> QED BY <2>1, <4>1, <4>2 DEF Behind
    <3> QED BY <1>2, <1>4, <3>1, <3>2
  <2> QED BY <1>2, <1>4, <2>1, <2>3, <2>4 DEF Behind
<1>5. ASSUME Test, ~cleared', ~headed' PROVE Behind'
  <2>1. /\ rpc = "test" /\ rpc' = (IF i = listhead THEN "done" ELSE "report") /\ i' = i /\ seen' = seen
    BY <1>5 DEF Test, walk
  <2>2. (\A k : Once(k) => Once(k)') /\ (Once(len+1) => Once(len+1)')
    BY <1>2, <1>5, <2>1 DEF Once
  <2>3. listhead = order[1] /\ order[1] \in Members
    BY <1>2, <1>5, NextPlace
  <2>4. CASE i = order[1] /\ Once(len+1)
    <3>1. rpc' = "done"
      BY <2>1, <2>3, <2>4
    <3>2. \A n \in Slots : seen'[n] <= 1
      BY <1>2, <1>5, <2>1, <2>4 DEF Once, SeenMax
    <3> QED BY <3>1, <3>2 DEF Behind
  <2>5. CASE AtNew /\ Once(len+1)
    <3>1. rpc' = "report"
      BY <1>2, <1>5, <2>1, <2>3, <2>5, NextPlace DEF AtNew
    <3>2. AtNew'
      BY <1>2, <1>5, <2>1, <2>5 DEF AtNew
    <3> QED BY <2>2, <2>5, <3>1, <3>2 DEF Behind
  <2>6. ASSUME NEW p \in 2..len, i = order[p], Once(p) PROVE Behind'
    <3>1. p \in 1..len /\ 1 \in 1..len /\ p # 1
      BY <1>2, <1>5
    <3>2. rpc' = "report"
      BY <2>1, <2>3, <2>6, <3>1, Parts DEF NoDuplicates
    <3>3. p \in 1..len' /\ i' = order'[p] /\ Once(p)'
      BY <1>2, <1>5, <2>1, <2>2, <2>6, <3>1
    <3> QED BY <3>2, <3>3 DEF Behind
  <2> QED BY <1>2, <1>5, <2>1, <2>4, <2>5, <2>6 DEF Behind
<1>6. CASE cleared' \/ headed'
  BY <1>6 DEF Behind
<1> QED BY <1>1, <1>3, <1>4, <1>5, <1>6 DEF Reader

-----------------------------------------------------------------------------
(* The walk along a trail. *)

Closed(nx, G) == G \subseteq DOMAIN nx /\ \A n \in G : nx[n] \in G
Along(w, nx, s, N) == w[0] = s /\ \A j \in 1..N : w[j] = nx[w[j-1]]
Falls(d, nx, h, G) == d \in [G -> Int] /\ \A n \in G : nx[n] = h \/ d[nx[n]] < d[n]

\* Walk of module Links follows the links: from a closed set they stay in it.
LEMMA WalkInside ==
  ASSUME NEW N \in Nat, NEW nx, NEW G, Closed(nx, G), NEW s \in G
  PROVE  Arrays!Walk(nx, s, N) \in [0..N -> G] /\ Along(Arrays!Walk(nx, s, N), nx, s, N)
<1> DEFINE GG == [j \in 0..N |-> G]
           F == [p \in (1..N) \X G |-> nx[p[2]]]
           Step(x) == IF x \in DOMAIN nx THEN nx[x] ELSE 0
           Def(f) == f = [k \in 0..N |-> IF k = 0 THEN s ELSE Step(f[k-1])]
           Eq(f) == /\ Recursion(N, F, s, f)
                    /\ \A j \in 0..N : f[j] \in GG[j]
<1>1. \A j \in 1..N : \A x \in G : F[<<j, x>>] = nx[x] /\ F[<<j, x>>] \in G
  BY DEF Closed
<1>2. \E f : Eq(f)
  <2>1. s \in GG[0] /\ \A j \in 1..N : \A x \in GG[j-1] : F[<<j, x>>] \in GG[j]
    <3>1. GG[0] = G /\ \A j \in 1..N : GG[j-1] = G /\ GG[j] = G
      OBVIOUS
    <3> HIDE DEF F, GG
    <3> QED BY <1>1, <3>1
  <2> HIDE DEF F, GG
  <2> QED BY <2>1, RecursiveFunction, Zenon
<1>3. PICK f : Eq(f)
  BY <1>2
<1>4. \A j \in 0..N : f[j] \in G
  BY <1>3
<1>5. f = [j \in 0..N |-> IF j = 0 THEN s ELSE F[<<j, f[j-1]>>]]
  BY <1>3 DEF Recursion
<1>6. \A j \in 1..N : f[j-1] \in G /\ F[<<j, f[j-1]>>] = Step(f[j-1])
  BY <1>1, <1>4 DEF Closed
<1>7. Def(f)
  <2>1. ASSUME NEW j \in 0..N
        PROVE  (IF j = 0 THEN s ELSE F[<<j, f[j-1]>>]) = (IF j = 0 THEN s ELSE Step(f[j-1]))
    <3>1. j = 0 \/ j \in 1..N
      OBVIOUS
    <3> HIDE DEF F, Step
    <3> QED BY <1>6, <3>1
  <2> HIDE DEF F, Step
  <2> QED BY <1>5, <2>1, Zenon
<1>8. Arrays!Walk(nx, s, N) = CHOOSE g : Def(g)
  BY DEF Arrays!Walk
<1>9. Def(Arrays!Walk(nx, s, N))
  <2> HIDE DEF Def
  <2> QED BY <1>7, <1>8
<1> DEFINE w == Arrays!Walk(nx, s, N)
           T == {j \in 0..N : w[j] \in G}
<1>10. w = [k \in 0..N |-> IF k = 0 THEN s ELSE Step(w[k-1])]
  BY <1>9
<1> HIDE DEF w
<1>11. w[0] = s /\ \A j \in 1..N : w[j] = Step(w[j-1])
  <2> HIDE DEF Step
  <2> QED BY <1>10
<1>12. 0..N \subseteq T
  <2>1. 0 \in T
    BY <1>11
  <2>2. \A j \in 1..N : j-1 \in T => j \in T
    BY <1>11 DEF Closed
  <2> HIDE DEF T
  <2> QED BY <2>1, <2>2, SetInduction
<1>13. \A j \in 0..N : w[j] \in G
  BY <1>12
<1>14. w \in [0..N -> G]
  <2>1. DOMAIN w = 0..N /\ w = [j \in DOMAIN w |-> w[j]]
    BY <1>10
  <2> QED BY <1>13, <2>1
<1>15. \A j \in 1..N : j-1 \in 0..N /\ w[j] = nx[w[j-1]]
  BY <1>11, <1>13 DEF Closed
<1>16. w = Arrays!Walk(nx, s, N)
  BY DEF w
<1> QED
  BY <1>11, <1>14, <1>15, <1>16 DEF Along

Reaches(N, nx, s, h) == \E k \in 0..N : Arrays!Walk(nx, s, N)[k] = h

\* A walk along links by which d gets smaller, except to h, comes to h within N links among N slots.
LEMMA WalkReaches ==
  ASSUME NEW N \in Nat \ {0}, NEW nx, NEW G, G \subseteq 1..N, Closed(nx, G), NEW s \in G,
         NEW h, NEW d, Falls(d, nx, h, G)
  PROVE  Reaches(N, nx, s, h)
<1>0. PICK w \in [0..N -> G] : w = Arrays!Walk(nx, s, N) /\ Along(w, nx, s, N)
  <2>1. N \in Nat
    OBVIOUS
  <2> QED BY <2>1, WalkInside
<1> DEFINE D == {j \in 0..N : \A k \in 0..j-1 : d[w[j]] < d[w[k]]}
<1>1. w \in [0..N -> G] /\ w[0] = s /\ \A j \in 1..N : w[j] = nx[w[j-1]]
  BY <1>0 DEF Along
<1>2. SUFFICES ASSUME \A k \in 0..N : w[k] # h PROVE FALSE
  BY <1>0 DEF Reaches
<1>3. \A j \in 1..N : d[w[j]] < d[w[j-1]]
  <2> SUFFICES ASSUME NEW j \in 1..N PROVE d[w[j]] < d[w[j-1]]
    OBVIOUS
  <2>1. j-1 \in 0..N /\ j \in 0..N
    OBVIOUS
  <2> QED BY <1>1, <1>2, <2>1 DEF Falls
<1>4. \A j \in 0..N : w[j] \in G /\ d[w[j]] \in Int
  BY <1>1 DEF Falls
<1>5. 0..N \subseteq D
  <2>1. 0 \in D
    OBVIOUS
  <2>2. ASSUME NEW j \in 1..N, j-1 \in D PROVE j \in D
    <3>1. ASSUME NEW k \in 0..j-1 PROVE d[w[j]] < d[w[k]]
      <4>1. j \in 0..N /\ j-1 \in 0..N /\ k \in 0..N
        OBVIOUS
      <4>2. CASE k = j-1
        BY <1>3, <4>2
      <4>3. CASE k \in 0..(j-1)-1
        <5>1. d[w[j-1]] < d[w[k]]
          BY <2>2, <4>3
        <5> QED BY <1>3, <1>4, <4>1, <5>1
      <4> QED BY <4>2, <4>3
    <3> QED BY <3>1
  <2> HIDE DEF D
  <2> QED BY <2>1, <2>2, SetInduction
<1>6. \A k, j \in 0..N : k < j => w[k] # w[j]
  <2> SUFFICES ASSUME NEW k \in 0..N, NEW j \in 0..N, k < j PROVE w[k] # w[j]
    OBVIOUS
  <2>1. d[w[j]] < d[w[k]] /\ d[w[j]] \in Int
    BY <1>4, <1>5
  <2> QED BY <2>1
<1>7. /\ IsFiniteSet(0..N) /\ IsFiniteSet(1..N)
      /\ Cardinality(1..N) < Cardinality(0..N)
  <2>1. N \in Int /\ 0 <= N /\ 1 <= N /\ 0 \in Int /\ 1 \in Int
    OBVIOUS
  <2>2. IsFiniteSet(0..N) /\ Cardinality(0..N) = N + 1
    BY <2>1, FS_Interval
  <2>3. IsFiniteSet(1..N) /\ Cardinality(1..N) = N
    BY <2>1, FS_Interval
  <2> QED BY <2>2, <2>3
<1>8. w \in [0..N -> 1..N]
  BY <1>1
<1>9. PICK k, j \in 0..N : k # j /\ w[k] = w[j]
  <2> DEFINE A == 0..N
             B == 1..N
  <2> HIDE DEF A, B
  <2>1. \A g \in [A -> B] : IsFiniteSet(A) /\ IsFiniteSet(B) /\ Cardinality(B) < Cardinality(A) =>
           \E x, y \in A : x # y /\ g[x] = g[y]
    BY FS_PigeonHole
  <2> QED BY <1>7, <1>8, <2>1 DEF A, B
<1> QED
  BY <1>6, <1>9

\* Whenever the writers pause, the reader's trail goes through the list to the head.
LEMMA LedToHead ==
  ASSUME Inv, ~torn, Watching, Led
  PROVE  LeadsToHead
<1> SUFFICES ASSUME Walking, pc = "idle"
             PROVE  \E k \in 0..USHM_SIZE : Arrays!Walk(list_next, i, USHM_SIZE)[k] = listhead
  BY DEF LeadsToHead
<1>1. PICK G, r : Trail(G, r)
  BY DEF Led
<1>2. len > 0 /\ len \in Nat /\ listhead = order[1] /\ TypeOK /\ NoDuplicates
  BY OwnListed, NextPlace, Parts DEF TypeOK, Unlinking
<1>3. \A p \in 1..len : list_next[order[p]] = listhead \/ (p < len /\ list_next[order[p]] = order[p+1])
  BY <1>2, NextPlace DEF Unlinking
<1> DEFINE Place(n) == CHOOSE p \in 1..len : order[p] = n
           d == [n \in G |-> IF n \in Members THEN -Place(n) ELSE r[n]]
<1>4. \A p \in 1..len : Place(order[p]) = p
  BY <1>2 DEF NoDuplicates
<1>5. \A n \in Members : Place(n) \in 1..len /\ order[Place(n)] = n
  BY DEF Members
<1>6. G \subseteq Slots /\ i \in G /\ Members \subseteq G /\ r \in [Slots -> Nat \ {0}]
      /\ \A n \in G : list_next[n] \in G
  BY <1>1 DEF Trail
<1> HIDE DEF Place
<1>7. d \in [G -> Int]
  <2>1. ASSUME NEW n \in G PROVE (IF n \in Members THEN -Place(n) ELSE r[n]) \in Int
    BY <1>5, <1>6, <2>1
  <2> QED BY <2>1
<1>8. ASSUME NEW n \in G PROVE list_next[n] = listhead \/ d[list_next[n]] < d[n]
  <2>1. PICK m : m = list_next[n]
    OBVIOUS
  <2>2. m \in G
    BY <1>6, <1>8, <2>1
  <2>3. CASE n \in Members
    <3>1. PICK p \in 1..len : order[p] = n
      BY <2>3 DEF Members
    <3>2. CASE m # listhead
      <4>1. PICK q : q = p+1
        OBVIOUS
      <4>2. m = order[q] /\ q \in 1..len
        BY <1>2, <1>3, <2>1, <3>1, <3>2, <4>1
      <4>3. m \in Members /\ Place(m) = q /\ Place(n) = p
        BY <1>4, <3>1, <4>2 DEF Members
      <4>4. d[m] = -q /\ d[n] = -p
        BY <1>8, <2>2, <2>3, <4>3
      <4> QED BY <2>1, <4>1, <4>4
    <3> QED BY <2>1, <3>2
  <2>4. CASE n \notin Members
    <3>1. m \in Members \/ r[m] < r[n]
      BY <1>1, <1>8, <2>1, <2>4 DEF Trail
    <3>2. CASE m \in Members
      <4>1. d[m] = -Place(m) /\ Place(m) \in 1..len /\ d[n] = r[n] /\ r[n] \in Nat \ {0}
        BY <1>5, <1>6, <1>8, <2>2, <2>4, <3>2
      <4> QED BY <2>1, <4>1
    <3>3. CASE m \notin Members
      <4>1. d[m] = r[m] /\ d[n] = r[n]
        BY <1>8, <2>2, <2>4, <3>3
      <4> QED BY <2>1, <3>1, <3>3, <4>1
    <3> QED BY <3>2, <3>3
  <2> QED BY <2>3, <2>4
<1>9. USHM_SIZE \in Nat \ {0} /\ G \subseteq 1..USHM_SIZE /\ Closed(list_next, G)
  BY <1>2, <1>6, UtmpRingAssumption DEF TypeOK, Slots, Closed
<1> HIDE DEF d
<1>10. Falls(d, list_next, listhead, G)
  BY <1>7, <1>8 DEF Falls
<1>11. PICK N, nx, s, h : N = USHM_SIZE /\ nx = list_next /\ s = i /\ h = listhead
  OBVIOUS
<1>12. Reaches(N, nx, s, h)
  <2>1. /\ N \in Nat \ {0} /\ G \subseteq 1..N /\ Closed(nx, G) /\ s \in G
        /\ Falls(d, nx, h, G)
    BY <1>6, <1>9, <1>10, <1>11
  <2> QED BY <2>1, WalkReaches
<1> QED BY <1>11, <1>12 DEF Reaches

-----------------------------------------------------------------------------
(* The theorems. *)

\* The invariant holds at the start and after every step.
LEMMA ReadersInvariance == ReadersSpec => []ReadersInv
<1>1. Init /\ ReaderInit => ReadersInv
  <2> SUFFICES ASSUME Init, ReaderInit PROVE ReadersInv
    OBVIOUS
  <2>1. Inv /\ ~torn
    BY InitInv DEF Init
  <2> QED BY <2>1 DEF ReaderInit, ReadersInv, Watching, Led, Ahead, Behind, Walking
<1>2. ReadersInv /\ [ReadersNext]_<<ringVars, readerVars>> => ReadersInv'
  <2> SUFFICES ASSUME ReadersInv, [ReadersNext]_<<ringVars, readerVars>> PROVE ReadersInv'
    OBVIOUS
  <2>1. CASE rpc \notin {"alarm", "done"} /\ Reader
    <3>1. UNCHANGED ringVars
      BY <2>1 DEF Reader, ReadHead, Report, ReadNext, Test
    <3>2. Inv' /\ ~torn'
      BY <3>1, NextInv DEF ReadersInv, ringVars
    <3> QED BY <2>1, <3>2, ReaderLed, ReaderAhead, ReaderBehind DEF ReadersInv
  <2>2. CASE rpc \notin {"alarm", "done"} /\ WriterStep
    <3>1. Inv' /\ ~torn'
      BY <2>2, WriterInv DEF ReadersInv, WriterStep
    <3> QED BY <2>2, <3>1, WriterWatching, WriterLed, WriterAhead, WriterBehind DEF ReadersInv
  <2>3. CASE UNCHANGED <<ringVars, readerVars>>
    <3>1. UNCHANGED ringVars /\ UNCHANGED <<listhead, list_next, active, pc, pos, order, len, torn>>
          /\ UNCHANGED <<rpc, own, i, seen, stay, cleared, headed>>
      BY <2>3 DEF ringVars, shared, locals, history, readerVars, walk
    <3>2. Inv' /\ ~torn'
      BY <3>1, NextInv DEF ReadersInv
    <3>3. Members' = Members /\ Remaining' = Remaining /\ (Walking' <=> Walking)
      BY <3>1 DEF Members, Remaining, Walking
    <3>4. Watching' /\ Led'
      BY <3>1, <3>3 DEF ReadersInv, Watching, Led, Trail
    <3>5. Ahead'
      BY <3>1, <3>3 DEF ReadersInv, Ahead, NoneLost, AtNew
    <3>6. Behind'
      BY <3>1, <3>3 DEF ReadersInv, Behind, Once, AtNew
    <3> QED BY <3>2, <3>4, <3>5, <3>6 DEF ReadersInv
  <2> QED BY <2>1, <2>2, <2>3 DEF ReadersNext
<1> QED BY <1>1, <1>2, PTL DEF ReadersSpec

\* apply_ulist_addr() reads no link out of the table, though it takes no
\* lock: the order of the assignments of getnewutmpent() and clear_utmp2()
\* never lets it come to an entry whose link has not been set.
THEOREM NoReadOutside == ReadersSpec => []ReaderOnRing
<1>1. ReadersInv => ReaderOnRing
  BY DEF ReadersInv, Led, Trail, ReaderOnRing
<1> QED BY <1>1, ReadersInvariance, PTL

\* A walk that is under way comes to the head again as soon as the writers
\* pause, also from an entry that was taken out of the ring under it.
THEOREM WalkComesRound == ReadersSpec => []LeadsToHead
<1>1. ReadersInv => LeadsToHead
  BY LedToHead DEF ReadersInv
<1> QED BY <1>1, ReadersInvariance, PTL

\* A list made while nobody's entry was cleared has everybody who was on
\* line throughout, whatever logins there were.
THEOREM NobodyHidden == ReadersSpec => []InsertsHideNobody
<1>1. ReadersInv => InsertsHideNobody
  BY AllSeen, Parts DEF ReadersInv, Ahead, InsertsHideNobody
<1> QED BY <1>1, ReadersInvariance, PTL

\* ... and nobody twice, unless somebody was put in at its head.
THEOREM NobodyDoubled == ReadersSpec => []NobodyTwice
<1>1. ReadersInv => NobodyTwice
  BY DEF ReadersInv, Behind, NobodyTwice
<1> QED BY <1>1, ReadersInvariance, PTL
=============================================================================
