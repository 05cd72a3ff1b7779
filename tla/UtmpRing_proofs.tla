-------------------------- MODULE UtmpRing_proofs --------------------------
(***************************************************************************)
(* The proof that the two link arrays of the login table are one sorted    *)
(* ring of the entries in use whenever no writer is at work: Inv of        *)
(* UtmpRing is inductive, for every table size and every set of names.     *)
(* One lemma per statement of the code, one step per part of Inv.          *)
(***************************************************************************)
EXTENDS UtmpRing, TLAPS

\* The empty table satisfies Inv.
LEMMA InitInv == Init => Inv
  <1> SUFFICES ASSUME Init PROVE Inv
    OBVIOUS
  <1> USE UtmpRingAssumption
  <1>1. TypeOK
    <2>1. order \in [1..len -> Slots] /\ len \in Nat
      BY DEF Init
    <2>2. /\ list_prev \in [Slots -> 0..USHM_SIZE]
          /\ list_next \in [Slots -> 0..USHM_SIZE]
      BY DEF Init
    <2>3. userid \in [Slots -> Names \cup {0}] /\ active \in [Slots -> BOOLEAN]
      BY DEF Init
    <2>4. pc \in Steps /\ pos \in 0..USHM_SIZE /\ cur \in 0..USHM_SIZE
      BY DEF Init, Steps
    <2>5. listhead \in 0..USHM_SIZE /\ at \in Nat /\ free \subseteq Slots
      BY DEF Init
    <2>6. key \in Names \cup {0} /\ atHead \in BOOLEAN /\ torn \in BOOLEAN
      BY DEF Init
    <2> QED
      BY <2>1, <2>2, <2>3, <2>4, <2>5, <2>6 DEF TypeOK
  <1>2. Locals /\ Passed /\ HeadAt /\ Links
    BY DEF Init, Locals, Passed, HeadAt, Links, Linking, Inserting, Unlinking, Slots
  <1>3. Members = {}
    BY DEF Init, Members
  <1>4. InUse
    BY <1>3 DEF Init, InUse, Slots
  <1>5. NoDuplicates /\ Sorted
    BY DEF Init, NoDuplicates, Sorted
  <1> QED
    BY <1>1, <1>2, <1>4, <1>5 DEF Inv

\* The parts of Inv, for a writer at work.
LEMMA Parts ==
  ASSUME Inv, ~torn
  PROVE  TypeOK /\ Locals /\ Passed /\ HeadAt /\ Links /\ InUse /\ NoDuplicates /\ Sorted
  BY DEF Inv

\* The members of the list are slots; each place's neighbours are places.
LEMMA Places ==
  ASSUME TypeOK
  PROVE  /\ Members \subseteq Slots
         /\ \A i \in 1..len : /\ order[i] \in Slots /\ order[i] \in Members
                              /\ Succ(i) \in 1..len /\ Pred(i) \in 1..len
                              /\ Succ(Pred(i)) = i /\ Pred(Succ(i)) = i
  <1>1. \A i \in 1..len : /\ Succ(i) \in 1..len /\ Pred(i) \in 1..len
                          /\ Succ(Pred(i)) = i /\ Pred(Succ(i)) = i
    BY DEF TypeOK, Succ, Pred
  <1>2. \A i \in 1..len : order[i] \in Slots /\ order[i] \in Members
    BY DEF TypeOK, Members
  <1> QED
    BY <1>1, <1>2 DEF Members

\* Names are numbers.
LEMMA Numbers ==
  ASSUME TypeOK
  PROVE  key \in Nat /\ \A n \in Slots : userid[n] \in Nat
  <1>1. Names \cup {0} \subseteq Nat
    BY UtmpRingAssumption
  <1>2. key \in Names \cup {0} /\ \A n \in Slots : userid[n] \in Names \cup {0}
    BY DEF TypeOK
  <1> QED
    BY <1>1, <1>2

\* Putting the slot pos, which is not in the list, in at place p.
LEMMA WithPosList ==
  ASSUME TypeOK, NoDuplicates, pos \in Slots \ Members, NEW p \in 1..len+1
  PROVE  /\ WithPos(p) \in [1..len+1 -> Slots]
         /\ {WithPos(p)[i] : i \in 1..len+1} = Members \cup {pos}
         /\ \A i, j \in 1..len+1 : WithPos(p)[i] = WithPos(p)[j] => i = j
  <1> DEFINE L == WithPos(p)
  <1>1. len \in Nat /\ p \in 1..len+1 /\ \A i \in 1..len : order[i] \in Slots
    BY DEF TypeOK
  <1>2. \A i \in 1..len+1 : /\ i < p => i \in 1..len /\ L[i] = order[i]
                            /\ i = p => L[i] = pos
                            /\ i > p => i-1 \in 1..len /\ L[i] = order[i-1]
    BY <1>1 DEF WithPos
  <1>3. L \in [1..len+1 -> Slots]
    BY <1>1, <1>2 DEF WithPos
  <1>4. \A i \in 1..len+1 : L[i] \in Members \cup {pos}
    BY <1>1, <1>2 DEF Members
  <1>5. ASSUME NEW n \in Members \cup {pos} PROVE \E i \in 1..len+1 : L[i] = n
    <2>1. CASE n = pos
      BY <2>1, <1>1, <1>2
    <2>2. CASE n \in Members
      <3>1. PICK j \in 1..len : order[j] = n
        BY <2>2 DEF Members
      <3>2. j < p => j \in 1..len+1 /\ L[j] = n
        BY <3>1, <1>1, <1>2
      <3>3. j >= p => j+1 \in 1..len+1 /\ L[j+1] = n
        BY <3>1, <1>1, <1>2
      <3> QED
        BY <3>2, <3>3, <1>1
    <2> QED
      BY <2>1, <2>2
  <1>6. \A i, j \in 1..len+1 : L[i] = L[j] => i = j
    <2> SUFFICES ASSUME NEW i \in 1..len+1, NEW j \in 1..len+1, L[i] = L[j], i < j
                 PROVE  FALSE
      BY <1>1
    <2>1. \A k \in 1..len : order[k] # pos
      BY DEF Members
    <2>2. i # p /\ j # p
      BY <1>1, <1>2, <2>1
    <2> QED
      BY <1>1, <1>2, <2>2 DEF NoDuplicates
  <1> QED
    BY <1>3, <1>4, <1>5, <1>6

\* Taking the entry at place p out.
LEMMA WithoutList ==
  ASSUME TypeOK, NoDuplicates, NEW p \in 1..len
  PROVE  /\ Without(p) \in [1..len-1 -> Slots] /\ len-1 \in Nat
         /\ {Without(p)[i] : i \in 1..len-1} = Members \ {order[p]}
         /\ \A i, j \in 1..len-1 : Without(p)[i] = Without(p)[j] => i = j
  <1> DEFINE L == Without(p)
  <1>1. len \in Nat /\ p \in 1..len /\ \A i \in 1..len : order[i] \in Slots
    BY DEF TypeOK
  <1>2. \A i \in 1..len-1 : /\ i < p => i \in 1..len /\ L[i] = order[i]
                            /\ i >= p => i+1 \in 1..len /\ L[i] = order[i+1]
    BY <1>1 DEF Without
  <1>3. L \in [1..len-1 -> Slots] /\ len-1 \in Nat
    BY <1>1, <1>2 DEF Without
  <1>4. \A i \in 1..len-1 : L[i] \in Members \ {order[p]}
    BY <1>1, <1>2 DEF Members, NoDuplicates
  <1>5. ASSUME NEW n \in Members \ {order[p]} PROVE \E i \in 1..len-1 : L[i] = n
    <2>1. PICK j \in 1..len : order[j] = n
      BY DEF Members
    <2>2. j < p => j \in 1..len-1 /\ L[j] = n
      BY <2>1, <1>1, <1>2
    <2>3. j > p => j-1 \in 1..len-1 /\ L[j-1] = n
      BY <2>1, <1>1, <1>2
    <2> QED
      BY <2>1, <2>2, <2>3, <1>1
  <1>6. \A i, j \in 1..len-1 : L[i] = L[j] => i = j
    BY <1>1, <1>2 DEF NoDuplicates
  <1> QED
    BY <1>3, <1>4, <1>5, <1>6

\* Taking a slot for a login and comparing with the head keeps Inv.
LEMMA BeginInv ==
  ASSUME Inv, ~torn, NEW n \in Slots, NEW k \in Names, Begin(n, k)
  PROVE  Inv'
  <1> USE UtmpRingAssumption
  <1>a. pc = "idle" /\ n \in free /\ pos' = n /\ key' = k /\ k \in Nat
    BY DEF Begin
  <1>b. listhead # 0 => /\ len > 0 /\ listhead = order[1]
                        /\ list_next[listhead] = order[Succ(1)]
                        /\ Succ(1) \in 1..len /\ 1 \in 1..len /\ len \in Nat
    BY <1>a, Parts DEF HeadAt, Links, TypeOK, Succ
  <1>c. listhead = 0 => len = 0
    <2>1. len # 0 => listhead = order[1] /\ order[1] \in Slots
      BY <1>a, Parts, Places DEF HeadAt, TypeOK, Begin
    <2> QED
      BY <2>1 DEF Slots
  <1>1. TypeOK'
    <2>a. cur \in 0..USHM_SIZE /\ at \in Nat /\ atHead \in BOOLEAN /\ listhead \in 0..USHM_SIZE
      BY Parts DEF TypeOK
    <2>b. ASSUME listhead # 0
          PROVE  list_next[listhead] \in 0..USHM_SIZE /\ Succ(1) \in Nat
      <3>1. listhead \in Slots
        BY <2>a, <2>b DEF Slots
      <3>2. list_next \in [Slots -> 0..USHM_SIZE]
        BY Parts DEF TypeOK
      <3>3. Succ(1) \in 1..len /\ len \in Nat
        BY <1>b, <2>b
      <3> QED
        BY <3>1, <3>2, <3>3
    <2>2. cur' \in 0..USHM_SIZE /\ at' \in Nat /\ atHead' \in BOOLEAN /\ pc' \in Steps
      <3>1. CASE listhead = 0
        BY <2>a, <3>1 DEF Begin, Steps
      <3>2. CASE listhead # 0 /\ userid[listhead] >= k
        <4>1. pc' = "i1" /\ atHead' = TRUE /\ cur' = listhead /\ at' = 1
          BY <3>2 DEF Begin
        <4> QED
          BY <2>a, <4>1 DEF Steps
      <3>3. CASE listhead # 0 /\ ~(userid[listhead] >= k)
        BY <2>b, <3>3 DEF Begin, Steps
      <3> QED
        BY <3>1, <3>2, <3>3
    <2>3. pos' \in 0..USHM_SIZE /\ key' \in Names \cup {0}
      BY <1>a DEF Slots
    <2> QED
      BY <2>2, <2>3, Parts DEF Begin, TypeOK, shared
  <1>2. Locals'
    BY <1>a, <1>b, <1>c, Parts
    DEF Begin, Locals, TypeOK, Inserting, Linking, Unlinking, shared
  <1>3. Passed'
    <2>1. \A j \in 1..len : j < Succ(1) \/ Succ(1) = 1 => j = 1
      BY Parts DEF TypeOK, Succ
    <2>2. CASE listhead = 0
      BY <1>a, <2>2 DEF Begin, Passed, Linking
    <2>3. CASE listhead # 0 /\ userid[listhead] >= k
      BY <1>a, <1>b, <2>3 DEF Begin, Passed, Linking, shared
    <2>4. CASE listhead # 0 /\ ~(userid[listhead] >= k)
      <3>1. userid[order[1]] < k
        BY <1>a, <1>b, <2>4, Parts, Places, Numbers
      <3> QED
        BY <1>a, <2>1, <2>4, <3>1 DEF Begin, Passed, Linking, shared
    <2> QED
      BY <2>2, <2>3, <2>4
  <1>4. HeadAt'
    BY Parts DEF Begin, HeadAt, shared
  <1>5. Links'
    BY Parts DEF Begin, Links, Succ, Pred, shared
  <1>6. InUse'
    <2>1. Members' = Members
      BY DEF Begin, Members
    <2> QED
      BY <2>1, Parts DEF Begin, InUse, shared
  <1>7. NoDuplicates'
    BY Parts DEF Begin, NoDuplicates, shared
  <1>8. Sorted'
    BY Parts DEF Begin, Sorted, Name, shared
  <1> QED
    BY <1>1, <1>2, <1>3, <1>4, <1>5, <1>6, <1>7, <1>8 DEF Inv

\* The first login: setting list_prev of the slot keeps Inv.
LEMMA Alone1Inv ==
  ASSUME Inv, ~torn, Alone1
  PROVE  Inv'
  <1> USE UtmpRingAssumption
  <1>1. TypeOK'
    BY Parts DEF Alone1, TypeOK, Steps, locals, history
  <1>2. Locals'
    BY Parts DEF Alone1, Locals, Linking, Inserting, Unlinking, locals, history
  <1>3. Passed'
    BY Parts DEF Alone1, Passed, Linking, locals, history
  <1>4. HeadAt'
    BY Parts DEF Alone1, HeadAt, locals, history
  <1>5. Links'
    BY Parts, Places DEF Alone1, Links, TypeOK, Locals, Linking, Inserting,
      Unlinking, Succ, Pred, Members, InUse, NoDuplicates, locals, history
  <1>6. InUse'
    BY Parts DEF Alone1, InUse, Members, locals, history
  <1>7. NoDuplicates'
    BY Parts DEF Alone1, NoDuplicates, locals, history
  <1>8. Sorted'
    BY Parts DEF Alone1, Sorted, Name, locals, history
  <1> QED
    BY <1>1, <1>2, <1>3, <1>4, <1>5, <1>6, <1>7, <1>8 DEF Inv

\* The first login: setting list_next of the slot keeps Inv.
LEMMA Alone2Inv ==
  ASSUME Inv, ~torn, Alone2
  PROVE  Inv'
  <1> USE UtmpRingAssumption
  <1>1. TypeOK'
    BY Parts DEF Alone2, TypeOK, Steps, locals, history
  <1>2. Locals'
    BY Parts DEF Alone2, Locals, Linking, Inserting, Unlinking, locals, history
  <1>3. Passed'
    BY Parts DEF Alone2, Passed, Linking, locals, history
  <1>4. HeadAt'
    BY Parts DEF Alone2, HeadAt, locals, history
  <1>5. Links'
    BY Parts, Places DEF Alone2, Links, TypeOK, Locals, Linking, Inserting,
      Unlinking, Succ, Pred, Members, InUse, NoDuplicates, locals, history
  <1>6. InUse'
    BY Parts DEF Alone2, InUse, Members, locals, history
  <1>7. NoDuplicates'
    BY Parts DEF Alone2, NoDuplicates, locals, history
  <1>8. Sorted'
    BY Parts DEF Alone2, Sorted, Name, locals, history
  <1> QED
    BY <1>1, <1>2, <1>3, <1>4, <1>5, <1>6, <1>7, <1>8 DEF Inv

\* The first login: setting listhead makes the list <<pos>> and keeps Inv.
LEMMA Alone3Inv ==
  ASSUME Inv, ~torn, Alone3
  PROVE  Inv'
  <1> USE UtmpRingAssumption
  <1>1. TypeOK'
    BY Parts, Places DEF Alone3, TypeOK, Steps, Slots, Locals, Linking, Inserting,
      Unlinking, locals
  <1>2. Locals'
    BY Parts DEF Alone3, Locals, Linking, Inserting, Unlinking, Members, locals
  <1>3. Passed'
    BY Parts DEF Alone3, Passed, Linking, locals
  <1>4. HeadAt'
    BY Parts DEF Alone3, HeadAt, locals
  <1>5. Links'
    BY Parts DEF Alone3, Links, Succ, Pred, locals
  <1>6. InUse'
    BY Parts DEF Alone3, InUse, Members, Locals, Unlinking, Inserting, Linking,
      locals
  <1>7. NoDuplicates'
    BY Parts DEF Alone3, NoDuplicates, locals
  <1>8. Sorted'
    BY Parts DEF Alone3, Sorted, Name, locals
  <1> QED
    BY <1>1, <1>2, <1>3, <1>4, <1>5, <1>6, <1>7, <1>8 DEF Inv

\* A round of the search for the place of the new entry keeps Inv.
LEMMA WalkInv ==
  ASSUME Inv, ~torn, Walk
  PROVE  Inv'
  <1> USE UtmpRingAssumption
  <1>a. /\ pc = "walk" /\ at \in 1..len /\ cur = order[at] /\ cur \in Slots
        /\ len > 0 /\ listhead = order[1] /\ Succ(at) \in 1..len
        /\ list_next[cur] = order[Succ(at)]
        /\ cur = listhead <=> at = 1
    BY Parts DEF Walk, Locals, TypeOK, HeadAt, Links, Succ, NoDuplicates, Linking
  <1>b. pc' \in {"walk", "i1"} /\ UNCHANGED <<shared, pos, key, atHead, order, len, torn>>
    BY <1>a DEF Walk
  <1>1. TypeOK'
    BY <1>a, <1>b, Parts, SMTT(40) DEF Walk, TypeOK, Steps, Slots, shared
  <1>2. Locals'
    BY <1>a, <1>b, Parts
    DEF Walk, Locals, TypeOK, Inserting, Linking, Unlinking, shared
  <1>3. Passed'
    <2>1. ~atHead /\ \A j \in 1..len : j < at \/ at = 1 => userid[order[j]] < key
      BY <1>a, Parts DEF Passed
    <2>2. CASE userid[cur] < key /\ cur # listhead
      <3>1. \A j \in 1..len : j < Succ(at) \/ Succ(at) = 1 => j < at \/ j = at
        BY <1>a, <2>2, Parts DEF Succ, TypeOK
      <3> QED
        BY <1>a, <1>b, <2>1, <2>2, <3>1 DEF Walk, Passed, Linking, shared
    <2>3. CASE ~(userid[cur] < key /\ cur # listhead)
      <3>1. at = 1 \/ userid[order[at]] >= key
        BY <1>a, <2>3, Parts, Places, Numbers
      <3> QED
        BY <1>a, <1>b, <2>1, <2>3, <3>1 DEF Walk, Passed, Linking, shared
    <2> QED
      BY <2>2, <2>3
  <1>4. HeadAt'
    BY Parts DEF Walk, HeadAt, shared
  <1>5. Links'
    BY Parts DEF Walk, Links, Succ, Pred, shared
  <1>6. InUse'
    <2>1. Members' = Members
      BY DEF Walk, Members
    <2> QED
      BY <1>a, <1>b, <2>1, Parts DEF InUse, shared
  <1>7. NoDuplicates'
    BY Parts DEF Walk, NoDuplicates, shared
  <1>8. Sorted'
    BY Parts DEF Walk, Sorted, Name, shared
  <1> QED
    BY <1>1, <1>2, <1>3, <1>4, <1>5, <1>6, <1>7, <1>8 DEF Inv

\* Setting list_prev of the new entry keeps Inv.
LEMMA Link1Inv ==
  ASSUME Inv, ~torn, Link1
  PROVE  Inv'
  <1> USE UtmpRingAssumption
  <1>1. TypeOK'
    <2>1. cur \in Slots /\ pos \in Slots
      BY Parts, Places DEF Link1, Locals, Linking, Inserting, TypeOK
    <2> QED
      BY <2>1, Parts DEF Link1, TypeOK, Steps, locals, history
  <1>2. Locals'
    BY Parts DEF Link1, Locals, Linking, Inserting, Unlinking, locals, history
  <1>3. Passed'
    BY Parts DEF Link1, Passed, Linking, locals, history
  <1>4. HeadAt'
    BY Parts DEF Link1, HeadAt, locals, history
  <1>5. Links'
    <2>1. pos \in Slots \ Members /\ at \in 1..len
      BY Parts DEF Link1, Locals, Linking, Inserting, InUse, TypeOK
    <2>2. \A i \in 1..len : order[i] \in Slots /\ order[i] # pos
      BY <2>1, Parts, Places
    <2>3. list_prev'[pos] = list_prev[cur] /\ \A n \in Slots : n # pos => list_prev'[n] = list_prev[n]
      BY <2>1, Parts DEF Link1, TypeOK
    <2> QED
      BY <2>1, <2>2, <2>3, Parts DEF Link1, Links, Locals, Linking, Succ, Pred, locals, history
  <1>6. InUse'
    BY Parts DEF Link1, InUse, Members, locals, history
  <1>7. NoDuplicates'
    BY Parts DEF Link1, NoDuplicates, locals, history
  <1>8. Sorted'
    BY Parts DEF Link1, Sorted, Name, locals, history
  <1> QED
    BY <1>1, <1>2, <1>3, <1>4, <1>5, <1>6, <1>7, <1>8 DEF Inv

\* Setting list_next of the new entry keeps Inv.
LEMMA Link2Inv ==
  ASSUME Inv, ~torn, Link2
  PROVE  Inv'
  <1> USE UtmpRingAssumption
  <1>1. TypeOK'
    BY Parts DEF Link2, TypeOK, Steps, locals, history
  <1>2. Locals'
    BY Parts DEF Link2, Locals, Linking, Inserting, Unlinking, locals, history
  <1>3. Passed'
    BY Parts DEF Link2, Passed, Linking, locals, history
  <1>4. HeadAt'
    BY Parts DEF Link2, HeadAt, locals, history
  <1>5. Links'
    <2>1. pos \in Slots \ Members /\ at \in 1..len
      BY Parts DEF Link2, Locals, Linking, Inserting, InUse, TypeOK
    <2>2. \A i \in 1..len : order[i] \in Slots /\ order[i] # pos
      BY <2>1, Parts, Places
    <2>3. list_next'[pos] = cur /\ \A n \in Slots : n # pos => list_next'[n] = list_next[n]
      BY <2>1, Parts DEF Link2, TypeOK
    <2> QED
      BY <2>1, <2>2, <2>3, Parts DEF Link2, Links, Locals, Linking, Succ, Pred, locals, history
  <1>6. InUse'
    BY Parts DEF Link2, InUse, Members, locals, history
  <1>7. NoDuplicates'
    BY Parts DEF Link2, NoDuplicates, locals, history
  <1>8. Sorted'
    BY Parts DEF Link2, Sorted, Name, locals, history
  <1> QED
    BY <1>1, <1>2, <1>3, <1>4, <1>5, <1>6, <1>7, <1>8 DEF Inv

\* Setting list_prev of the entry behind keeps Inv.
LEMMA Link3Inv ==
  ASSUME Inv, ~torn, Link3
  PROVE  Inv'
  <1> USE UtmpRingAssumption
  <1>1. TypeOK'
    BY Parts DEF Link3, TypeOK, Steps, locals, history
  <1>2. Locals'
    BY Parts DEF Link3, Locals, Linking, Inserting, Unlinking, locals, history
  <1>3. Passed'
    BY Parts DEF Link3, Passed, Linking, locals, history
  <1>4. HeadAt'
    BY Parts DEF Link3, HeadAt, locals, history
  <1>5. Links'
    <2>1. pos \in Slots \ Members /\ at \in 1..len /\ cur = order[at]
      BY Parts DEF Link3, Locals, Linking, Inserting, InUse, TypeOK
    <2>2. /\ cur \in Slots /\ cur # pos
          /\ \A i \in 1..len : order[i] \in Slots /\ order[i] # pos /\ (order[i] = cur => i = at)
      BY <2>1, Parts, Places DEF NoDuplicates
    <2>3. list_prev'[cur] = pos /\ \A n \in Slots : n # cur => list_prev'[n] = list_prev[n]
      BY <2>2, Parts DEF Link3, TypeOK
    <2> QED
      BY <2>1, <2>2, <2>3, Parts DEF Link3, Links, Succ, Pred, locals, history
  <1>6. InUse'
    BY Parts DEF Link3, InUse, Members, locals, history
  <1>7. NoDuplicates'
    BY Parts DEF Link3, NoDuplicates, locals, history
  <1>8. Sorted'
    BY Parts DEF Link3, Sorted, Name, locals, history
  <1> QED
    BY <1>1, <1>2, <1>3, <1>4, <1>5, <1>6, <1>7, <1>8 DEF Inv

\* Setting list_next of the entry before, by which the new entry becomes
\* reachable, keeps Inv: the list gets longer unless the head has to move first.
LEMMA Link4Inv ==
  ASSUME Inv, ~torn, Link4
  PROVE  Inv'
  <1> USE UtmpRingAssumption
  <1>a. /\ pc = "i4" /\ at \in 1..len /\ cur = order[at] /\ key \in Names
        /\ pos \in Slots \ Members /\ pos \in free
        /\ list_prev[pos] = order[Pred(at)] /\ list_next[pos] = order[at]
        /\ Pred(at) \in 1..len /\ listhead = order[1]
    BY Parts, Places DEF Link4, Locals, Linking, Inserting, Links, InUse, TypeOK, HeadAt
  <1> DEFINE p == IF at = 1 THEN len + 1 ELSE at
  <1>b. list_next' = [list_next EXCEPT ![order[Pred(at)]] = pos]
    BY <1>a DEF Link4
  <1>c. \A j \in 1..len : list_next'[order[j]] = IF j = Pred(at) THEN pos ELSE order[Succ(j)]
    BY <1>a, <1>b, Parts, Places DEF Links, NoDuplicates, TypeOK
  <1>d. /\ UNCHANGED <<listhead, list_prev, userid, active, free, pos, cur, key, atHead, at, torn>>
        /\ atHead => (pc' = "i5" /\ UNCHANGED <<order, len>>)
        /\ ~atHead => (pc' = "pop" /\ order' = WithPos(p) /\ len' = len + 1)
    BY DEF Link4, locals
  <1>e. /\ p \in 1..len+1 /\ len \in Nat
        /\ at = 1 => p = len + 1
        /\ at # 1 => p = at
    BY <1>a, Parts DEF TypeOK
  <1> HIDE DEF p
  <1>f. /\ WithPos(p) \in [1..len+1 -> Slots]
        /\ {WithPos(p)[i] : i \in 1..len+1} = Members \cup {pos}
        /\ \A i, j \in 1..len+1 : WithPos(p)[i] = WithPos(p)[j] => i = j
    BY <1>a, <1>e, WithPosList, Parts
  <1>g. Members' = IF atHead THEN Members ELSE Members \cup {pos}
    <2>1. CASE atHead
      BY <1>d, <2>1 DEF Members
    <2>2. CASE ~atHead
      <3>1. Members' = {WithPos(p)[i] : i \in 1..len+1}
        BY <1>d, <2>2 DEF Members
      <3> QED
        BY <1>f, <2>2, <3>1
    <2> QED
      BY <2>1, <2>2
  <1>h. list_next'[pos] = order[at] /\ list_prev'[pos] = order[Pred(at)]
    BY <1>a, <1>b, <1>d, Parts, Places DEF TypeOK
  <1>1. TypeOK'
    <2>1. order' \in [1..len' -> Slots] /\ len' \in Nat
      BY <1>d, <1>f, Parts DEF TypeOK
    <2>2. list_next' \in [Slots -> 0..USHM_SIZE]
      BY <1>a, <1>b, Parts DEF TypeOK, Slots
    <2> QED
      BY <1>d, <2>1, <2>2, Parts DEF TypeOK, Steps
  <1>2. Locals'
    BY <1>a, <1>d, <1>g, Parts DEF Locals, Linking, Inserting, Unlinking
  <1>3. Passed'
    BY Parts DEF Link4, Passed, Linking, locals
  <1>4. HeadAt'
    <2>1. ~atHead => order'[1] = order[1]
      BY <1>a, <1>d, <1>e, Parts DEF WithPos, TypeOK
    <2> QED
      BY <1>a, <1>d, <2>1, Parts DEF HeadAt, TypeOK
  <1>5. Links'
    <2>1. CASE atHead
      <3>1. at = 1 /\ Pred(at) = len
        BY <1>a, <2>1, Parts DEF Passed, Linking, Pred
      <3>2. \A j \in 1..len : list_prev'[order[j]] = IF j = at THEN pos ELSE order[Pred(j)]
        BY <1>a, <1>d, Parts DEF Links
      <3> QED
        BY <1>a, <1>c, <1>d, <1>h, <2>1, <3>1, <3>2 DEF Links, Succ, Pred
    <2>2. CASE ~atHead
      <3>1. \A j \in 1..len : list_prev'[order[j]] = IF j = at THEN pos ELSE order[Pred(j)]
        BY <1>a, <1>d, Parts DEF Links
      <3> DEFINE L == WithPos(p)
      <3>2. \A j \in 1..len+1 :
               /\ j < p => j \in 1..len /\ L[j] = order[j]
               /\ j = p => L[j] = pos
               /\ j > p => j-1 \in 1..len /\ L[j] = order[j-1]
        BY <1>e DEF WithPos
      <3> HIDE DEF L
      <3>3. ASSUME NEW j \in 1..len+1
            PROVE  list_next'[L[j]] = L[IF j = len+1 THEN 1 ELSE j+1]
        <4>1. CASE j = p
          BY <4>1, <1>a, <1>e, <1>h, <3>2
        <4>2. CASE j < p
          <5>1. Pred(at) = p - 1
            BY <1>a, <1>e DEF Pred
          <5> QED
            BY <4>2, <5>1, <1>a, <1>c, <1>e, <3>2 DEF Succ
        <4>3. CASE j > p
          <5>1. Pred(at) = p - 1 /\ at = p
            BY <4>3, <1>a, <1>e, Parts DEF Pred, TypeOK
          <5> QED
            BY <4>3, <5>1, <1>a, <1>c, <1>e, <3>2 DEF Succ
        <4> QED
          BY <4>1, <4>2, <4>3, <1>e, Parts DEF TypeOK
      <3>4. ASSUME NEW j \in 1..len+1
            PROVE  list_prev'[L[j]] = L[IF j = 1 THEN len+1 ELSE j-1]
        <4>1. CASE j = p
          BY <4>1, <1>a, <1>e, <1>h, <3>2 DEF Pred
        <4>2. CASE j < p
          BY <4>2, <1>a, <1>e, <3>1, <3>2 DEF Pred
        <4>3. CASE j > p
          BY <4>3, <1>a, <1>e, <3>1, <3>2 DEF Pred
        <4> QED
          BY <4>1, <4>2, <4>3, <1>e, Parts DEF TypeOK
      <3>5. order' = L /\ len' = len + 1 /\ pc' = "pop"
        BY <1>d, <2>2 DEF L
      <3> QED
        BY <3>3, <3>4, <3>5 DEF Links, Succ, Pred
    <2> QED
      BY <2>1, <2>2
  <1>6. InUse'
    BY <1>a, <1>d, <1>g, Parts DEF InUse
  <1>7. NoDuplicates'
    BY <1>d, <1>f, Parts DEF NoDuplicates
  <1>8. Sorted'
    <2>1. CASE atHead
      BY <1>a, <1>d, <2>1, Parts DEF Sorted, Name
    <2>2. CASE ~atHead
      <3>1. \A j \in 1..len : order[j] # pos
        BY <1>a, Places, Parts
      <3>2. \A j \in 1..len+1 :
               /\ j < p => j \in 1..len /\ order'[j] = order[j] /\ Name(order[j])' = userid[order[j]]
               /\ j = p => order'[j] = pos /\ Name(order[j])' = key
               /\ j > p => /\ j-1 \in 1..len /\ order'[j] = order[j-1]
                           /\ Name(order[j])' = userid[order[j-1]]
        BY <1>d, <1>e, <2>2, <3>1 DEF WithPos, Name
      <3>5. \A j \in 1..len : userid[order[j]] \in Nat /\ key \in Nat
        BY Parts, Places, Numbers
      <3>3. \A i, j \in 1..len : i <= j => userid[order[i]] <= userid[order[j]]
        BY <1>a, <3>5, Parts DEF Sorted, Name
      <3>4. /\ \A j \in 1..len : j < p => userid[order[j]] < key
            /\ \A j \in 1..len : j >= p => userid[order[j]] >= key
        <4>1. /\ \A j \in 1..len : j < at \/ at = 1 => userid[order[j]] < key
              /\ at = 1 \/ userid[order[at]] >= key
          BY <1>a, <2>2, Parts DEF Passed, Linking
        <4> QED
          BY <1>a, <1>e, <4>1, <3>5, <3>3
      <3>6. ASSUME NEW i \in 1..len+1, NEW j \in 1..len+1, i < j
            PROVE  Name(order[i])' <= Name(order[j])'
        <4>1. CASE i < p /\ j < p
          BY <4>1, <3>2, <3>3, <3>6
        <4>2. CASE i < p /\ j = p
          BY <4>2, <3>2, <3>4, <3>5
        <4>3. CASE i < p /\ j > p
          BY <4>3, <3>2, <3>3, <3>6, <1>e
        <4>4. CASE i = p
          BY <4>4, <3>2, <3>4, <3>5, <3>6, <1>e
        <4>5. CASE i > p
          BY <4>5, <3>2, <3>3, <3>6, <1>e
        <4> QED
          BY <4>1, <4>2, <4>3, <4>4, <4>5, <1>e
      <3> QED
        BY <1>d, <2>2, <3>6 DEF Sorted
    <2> QED
      BY <2>1, <2>2
  <1> QED
    BY <1>1, <1>2, <1>3, <1>4, <1>5, <1>6, <1>7, <1>8 DEF Inv

\* Moving listhead to the new entry keeps Inv.
LEMMA Link5Inv ==
  ASSUME Inv, ~torn, Link5
  PROVE  Inv'
  <1> USE UtmpRingAssumption
  <1>a. /\ pc = "i5" /\ atHead /\ at = 1 /\ len >= 1 /\ key \in Names
        /\ pos \in Slots \ Members /\ pos \in free /\ listhead = order[1]
        /\ list_prev[pos] = order[len] /\ list_next[pos] = order[1]
    BY Parts DEF Link5, Locals, Linking, Inserting, Links, InUse, TypeOK, Passed, Pred, HeadAt
  <1>b. \A j \in 1..len : /\ list_next[order[j]] = IF j = len THEN pos ELSE order[j+1]
                          /\ list_prev[order[j]] = IF j = 1 THEN pos ELSE order[j-1]
    BY <1>a, Parts DEF Links, Succ, Pred
  <1>c. /\ UNCHANGED <<list_prev, list_next, userid, active, free, pos, cur, key, atHead, at, torn>>
        /\ pc' = "pop" /\ listhead' = pos /\ order' = WithPos(1) /\ len' = len + 1
    BY DEF Link5, locals
  <1>d. 1 \in 1..len+1 /\ len \in Nat
    BY Parts DEF TypeOK
  <1>e. /\ WithPos(1) \in [1..len+1 -> Slots]
        /\ {WithPos(1)[i] : i \in 1..len+1} = Members \cup {pos}
        /\ \A i, j \in 1..len+1 : WithPos(1)[i] = WithPos(1)[j] => i = j
    BY <1>a, <1>d, WithPosList, Parts
  <1>f. Members' = Members \cup {pos}
    BY <1>c, <1>e DEF Members
  <1>g. \A j \in 1..len+1 : /\ j = 1 => order'[j] = pos
                            /\ j > 1 => j-1 \in 1..len /\ order'[j] = order[j-1]
    BY <1>c, Parts DEF WithPos, TypeOK
  <1>1. TypeOK'
    <2>1. order' \in [1..len' -> Slots] /\ len' \in Nat
      BY <1>c, <1>d, <1>e
    <2>2. pos \in 0..USHM_SIZE
      BY <1>a DEF Slots
    <2> QED
      BY <1>c, <2>1, <2>2, Parts DEF TypeOK, Steps
  <1>2. Locals'
    BY <1>a, <1>c, <1>f, Parts DEF Locals, Linking, Inserting, Unlinking
  <1>3. Passed'
    BY Parts DEF Link5, Passed, Linking, locals
  <1>4. HeadAt'
    BY <1>a, <1>c, <1>d, <1>g, Parts DEF HeadAt, TypeOK
  <1>5. Links'
    <2>1. ASSUME NEW j \in 1..len+1
          PROVE  /\ list_next[order'[j]] = order'[IF j = len+1 THEN 1 ELSE j+1]
                 /\ list_prev[order'[j]] = order'[IF j = 1 THEN len+1 ELSE j-1]
      <3>1. CASE j = 1
        BY <3>1, <1>a, <1>d, <1>g
      <3>2. CASE j > 1 /\ j <= len
        BY <3>2, <1>a, <1>b, <1>d, <1>g
      <3>3. CASE j > 1 /\ j = len+1
        BY <3>3, <1>a, <1>b, <1>d, <1>g
      <3> QED
        BY <3>1, <3>2, <3>3, <1>d
    <2> QED
      BY <1>c, <2>1 DEF Links, Succ, Pred
  <1>6. InUse'
    BY <1>a, <1>c, <1>f, Parts DEF InUse
  <1>7. NoDuplicates'
    BY <1>c, <1>e DEF NoDuplicates
  <1>8. Sorted'
    <2>1. \A j \in 1..len : order[j] # pos /\ userid[order[j]] \in Nat /\ key \in Nat
      BY <1>a, Places, Parts, Numbers
    <2>2. \A j \in 1..len+1 :
             /\ j = 1 => Name(order[j])' = key
             /\ j > 1 => j-1 \in 1..len /\ Name(order[j])' = userid[order[j-1]]
      BY <1>c, <1>g, <2>1 DEF Name
    <2>3. \A i, j \in 1..len : i <= j => userid[order[i]] <= userid[order[j]]
      BY <1>a, <2>1, Parts DEF Sorted, Name, TypeOK
    <2>4. \A j \in 1..len : userid[order[j]] >= key
      <3>1. userid[order[1]] >= key
        BY <1>a, Parts DEF Passed, Linking
      <3> QED
        BY <1>a, <2>1, <2>3, <3>1, Parts DEF TypeOK
    <2>5. ASSUME NEW i \in 1..len+1, NEW j \in 1..len+1, i < j
          PROVE  Name(order[i])' <= Name(order[j])'
      BY <1>d, <2>1, <2>2, <2>3, <2>4, <2>5
    <2> QED
      BY <1>c, <2>5 DEF Sorted
  <1> QED
    BY <1>1, <1>2, <1>3, <1>4, <1>5, <1>6, <1>7, <1>8 DEF Inv

\* Taking the slot off the free list keeps Inv.
LEMMA PopInv ==
  ASSUME Inv, ~torn, Pop
  PROVE  Inv'
  <1> USE UtmpRingAssumption
  <1>1. TypeOK'
    BY Parts DEF Pop, TypeOK, Steps, locals, history
  <1>2. Locals'
    BY Parts DEF Pop, Locals, Linking, Inserting, Unlinking, Members, locals,
      history
  <1>3. Passed'
    BY Parts DEF Pop, Passed, Linking, locals, history
  <1>4. HeadAt'
    BY Parts DEF Pop, HeadAt, locals, history
  <1>5. Links'
    BY Parts DEF Pop, Links, Succ, Pred, locals, history
  <1>6. InUse'
    <2>1. Members' = Members
      BY DEF Pop, Members, history
    <2>2. pc = "pop" /\ pc' = "fill" /\ pos' = pos /\ active' = active /\ pos \in Members
      BY Parts DEF Pop, Locals, locals
    <2>3. free' = free \ {pos}
      BY DEF Pop
    <2> QED
      BY <2>1, <2>2, <2>3, Parts DEF InUse
  <1>7. NoDuplicates'
    BY Parts DEF Pop, NoDuplicates, locals, history
  <1>8. Sorted'
    BY Parts DEF Pop, Sorted, Name, locals, history
  <1> QED
    BY <1>1, <1>2, <1>3, <1>4, <1>5, <1>6, <1>7, <1>8 DEF Inv

\* Filling in the entry keeps Inv.
LEMMA FillInv ==
  ASSUME Inv, ~torn, Fill
  PROVE  Inv'
  <1> USE UtmpRingAssumption
  <1>1. TypeOK'
    BY Parts DEF Fill, TypeOK, Steps, locals, history
  <1>2. Locals'
    BY Parts DEF Fill, Locals, Linking, Inserting, Unlinking, locals, history
  <1>3. Passed'
    BY Parts DEF Fill, Passed, Linking, locals, history
  <1>4. HeadAt'
    BY Parts DEF Fill, HeadAt, locals, history
  <1>5. Links'
    BY Parts DEF Fill, Links, Succ, Pred, locals, history
  <1>6. InUse'
    BY SMTT(40) DEF Inv, Fill, TypeOK, Locals, Passed, HeadAt, Links, InUse, NoDuplicates, Sorted,
      Slots, Steps, Members, Linking, Inserting, Unlinking, Succ, Pred, Name, shared, locals, history
  <1>7. NoDuplicates'
    BY Parts DEF Fill, NoDuplicates, locals, history
  <1>8. Sorted'
    <2>1. pos \in Slots /\ key \in Names
      BY Parts, Places DEF Fill, Locals
    <2>2. \A j \in 1..len : Name(order[j])' = Name(order[j])
      BY <2>1, Parts, Places DEF Fill, Name, TypeOK, locals, history
    <2> QED
      BY <2>2, Parts DEF Fill, Sorted, history
  <1> QED
    BY <1>1, <1>2, <1>3, <1>4, <1>5, <1>6, <1>7, <1>8 DEF Inv

\* Moving listhead on, if it is at the entry to be cleared, keeps Inv.
LEMMA Unlink1Inv ==
  ASSUME Inv, ~torn, Unlink1
  PROVE  Inv'
  <1> USE UtmpRingAssumption
  <1>1. TypeOK'
    <2>1. pos \in Slots
      BY Parts, Places DEF Unlink1, Locals, Unlinking
    <2> QED
      BY <2>1, Parts DEF Unlink1, TypeOK, Steps, locals, history
  <1>2. Locals'
    BY Parts DEF Unlink1, Locals, Linking, Inserting, Unlinking, locals, history
  <1>3. Passed'
    BY Parts DEF Unlink1, Passed, Linking, locals, history
  <1>4. HeadAt'
    <2>1. /\ pc = "r1" /\ at \in 1..len /\ len \in Nat /\ pos = order[at]
          /\ listhead = order[1]
      BY Parts DEF Unlink1, Locals, Unlinking, HeadAt, TypeOK
    <2>2. pos = listhead <=> at = 1
      BY <2>1, Parts DEF NoDuplicates
    <2>3. list_next[pos] = order[Succ(at)]
      BY <2>1, Parts DEF Links
    <2> QED
      BY <2>1, <2>2, <2>3 DEF Unlink1, HeadAt, Succ, locals, history
  <1>5. Links'
    BY Parts DEF Unlink1, Links, Succ, Pred, locals, history
  <1>6. InUse'
    <2>1. Members' = Members
      BY DEF Unlink1, Members, history
    <2> QED
      BY <2>1, Parts DEF Unlink1, InUse, locals
  <1>7. NoDuplicates'
    BY Parts DEF Unlink1, NoDuplicates, locals, history
  <1>8. Sorted'
    BY Parts DEF Unlink1, Sorted, Name, locals, history
  <1> QED
    BY <1>1, <1>2, <1>3, <1>4, <1>5, <1>6, <1>7, <1>8 DEF Inv

\* Emptying the ring, if that entry is its only one, keeps Inv.
LEMMA Unlink2Inv ==
  ASSUME Inv, ~torn, Unlink2
  PROVE  Inv'
  <1> USE UtmpRingAssumption
  <1>1. TypeOK'
    BY Parts DEF Unlink2, TypeOK, Steps, locals, history
  <1>2. Locals'
    BY Parts DEF Unlink2, Locals, Linking, Inserting, Unlinking, locals, history
  <1>3. Passed'
    BY Parts DEF Unlink2, Passed, Linking, locals, history
  <1>4. HeadAt'
    BY Parts, Places DEF Unlink2, HeadAt, Links, NoDuplicates, Locals, Unlinking,
      TypeOK, Succ, locals, history
  <1>5. Links'
    BY Parts DEF Unlink2, Links, Succ, Pred, locals, history
  <1>6. InUse'
    BY Parts DEF Unlink2, InUse, Members, locals, history
  <1>7. NoDuplicates'
    BY Parts DEF Unlink2, NoDuplicates, locals, history
  <1>8. Sorted'
    BY Parts DEF Unlink2, Sorted, Name, locals, history
  <1> QED
    BY <1>1, <1>2, <1>3, <1>4, <1>5, <1>6, <1>7, <1>8 DEF Inv

\* Setting list_next of the entry before keeps Inv.
LEMMA Unlink3Inv ==
  ASSUME Inv, ~torn, Unlink3
  PROVE  Inv'
  <1> USE UtmpRingAssumption
  <1>a. /\ pc = "r3" /\ pc' = "r4" /\ at \in 1..len /\ pos = order[at] /\ pos \in Slots
        /\ Pred(at) \in 1..len /\ Succ(at) \in 1..len
    BY Parts, Places DEF Unlink3, Locals, Unlinking
  <1>b. list_prev[pos] = order[Pred(at)] /\ list_next[pos] = order[Succ(at)]
    BY <1>a, Parts DEF Links
  <1>c. list_next' = [list_next EXCEPT ![order[Pred(at)]] = order[Succ(at)]]
    BY <1>b DEF Unlink3
  <1>1. TypeOK'
    BY <1>a, <1>c, Parts DEF Unlink3, TypeOK, Steps, Slots, locals, history
  <1>2. Locals'
    BY Parts DEF Unlink3, Locals, Linking, Inserting, Unlinking, locals, history
  <1>3. Passed'
    BY Parts DEF Unlink3, Passed, Linking, locals, history
  <1>4. HeadAt'
    BY Parts DEF Unlink3, HeadAt, locals, history
  <1>5. Links'
    <2>1. UNCHANGED <<pos, cur, order, len, at, list_prev>>
      BY DEF Unlink3, locals, history
    <2>2. \A j \in 1..len : /\ list_prev[order[j]] = order[Pred(j)]
                            /\ list_next[order[j]] = order[Succ(j)]
      BY <1>a, Parts DEF Links
    <2>3. \A j \in 1..len : list_next'[order[j]] =
             IF j = Pred(at) THEN order[Succ(at)] ELSE order[Succ(j)]
      BY <1>a, <1>c, <2>2, Parts, Places DEF NoDuplicates, TypeOK
    <2> QED
      BY <1>a, <2>1, <2>2, <2>3 DEF Links, Succ, Pred
  <1>6. InUse'
    BY Parts DEF Unlink3, InUse, Members, locals, history
  <1>7. NoDuplicates'
    BY Parts DEF Unlink3, NoDuplicates, locals, history
  <1>8. Sorted'
    BY Parts DEF Unlink3, Sorted, Name, locals, history
  <1> QED
    BY <1>1, <1>2, <1>3, <1>4, <1>5, <1>6, <1>7, <1>8 DEF Inv

\* Setting list_prev of the entry behind, by which the list gets shorter,
\* keeps Inv.
LEMMA Unlink4Inv ==
  ASSUME Inv, ~torn, Unlink4
  PROVE  Inv'
  <1> USE UtmpRingAssumption
  <1>a. /\ pc = "r4" /\ at \in 1..len /\ pos = order[at] /\ pos \in Slots
        /\ Pred(at) \in 1..len /\ Succ(at) \in 1..len
    BY Parts, Places DEF Unlink4, Locals, Unlinking
  <1>b. /\ list_prev[pos] = order[Pred(at)]
        /\ list_next[pos] = order[Succ(at)]
    BY <1>a, Parts DEF Links, Succ, Pred, TypeOK
  <1>c. /\ UNCHANGED <<listhead, list_next, userid, active, free, pos, cur, key, atHead, at, torn>>
        /\ pc' = "push" /\ order' = Without(at) /\ len' = len - 1
        /\ list_prev' = [list_prev EXCEPT ![order[Succ(at)]] = order[Pred(at)]]
    BY <1>b DEF Unlink4, locals
  <1>d. /\ Without(at) \in [1..len-1 -> Slots] /\ len-1 \in Nat
        /\ {Without(at)[i] : i \in 1..len-1} = Members \ {order[at]}
        /\ \A i, j \in 1..len-1 : Without(at)[i] = Without(at)[j] => i = j
    BY <1>a, WithoutList, Parts
  <1>e. Members' = Members \ {pos}
    <2>1. {Without(at)[i] : i \in 1..len-1} = Members \ {pos}
      BY <1>a, <1>d
    <2>2. Members' = {Without(at)[i] : i \in 1..len-1}
      BY <1>c DEF Members
    <2> QED
      BY <2>1, <2>2
  <1>f. \A j \in 1..len-1 : /\ j < at => j \in 1..len /\ order'[j] = order[j]
                            /\ j >= at => j+1 \in 1..len /\ order'[j] = order[j+1]
    BY <1>a, <1>c, Parts, SMTT(40) DEF Without, TypeOK
  <1>1. TypeOK'
    <2>1. order' \in [1..len' -> Slots] /\ len' \in Nat
      BY <1>c, <1>d
    <2>2. order[Pred(at)] \in 0..USHM_SIZE
      BY <1>a, Parts, Places DEF Slots
    <2> QED
      BY <1>c, <2>1, <2>2, Parts DEF TypeOK, Steps
  <1>2. Locals'
    BY <1>a, <1>c, <1>e, Parts DEF Locals, Linking, Inserting, Unlinking
  <1>3. Passed'
    BY Parts DEF Unlink4, Passed, Linking, locals
  <1>4. HeadAt'
    <2>1. listhead = IF at # 1 THEN order[1] ELSE IF len = 1 THEN 0 ELSE order[2]
      BY <1>a, Parts DEF HeadAt, TypeOK
    <2>2. len \in Nat /\ len >= 1 /\ len' = len - 1
      BY <1>a, <1>c, Parts DEF TypeOK
    <2>3. len > 1 => order'[1] = IF at # 1 THEN order[1] ELSE order[2]
      BY <1>a, <1>f, <2>2
    <2> QED
      BY <1>a, <1>c, <2>1, <2>2, <2>3 DEF HeadAt
  <1>5. Links'
    <2>1. \A j \in 1..len : /\ list_next[order[j]] =
                                  IF j = Pred(at) THEN order[Succ(at)] ELSE order[Succ(j)]
                            /\ list_prev'[order[j]] =
                                  IF j = Succ(at) THEN order[Pred(at)] ELSE order[Pred(j)]
      BY <1>a, <1>c, Parts, Places DEF Links, NoDuplicates, TypeOK
    <2>2. ASSUME NEW j \in 1..len-1
          PROVE  list_next[order'[j]] = order'[IF j = len-1 THEN 1 ELSE j+1]
      <3>1. len \in Nat /\ len >= 2
        BY Parts DEF TypeOK
      <3>2. CASE j < at
        BY <3>1, <3>2, <1>a, <1>f, <2>1 DEF Succ, Pred
      <3>3. CASE j >= at
        BY <3>1, <3>3, <1>a, <1>f, <2>1 DEF Succ, Pred
      <3> QED
        BY <3>1, <3>2, <3>3, <1>a
    <2>3. ASSUME NEW j \in 1..len-1
          PROVE  list_prev'[order'[j]] = order'[IF j = 1 THEN len-1 ELSE j-1]
      <3>1. len \in Nat /\ len >= 2
        BY Parts DEF TypeOK
      <3>2. CASE j < at
        BY <3>1, <3>2, <1>a, <1>f, <2>1 DEF Succ, Pred
      <3>3. CASE j >= at
        BY <3>1, <3>3, <1>a, <1>f, <2>1 DEF Succ, Pred
      <3> QED
        BY <3>1, <3>2, <3>3, <1>a
    <2> QED
      BY <1>c, <2>2, <2>3 DEF Links, Succ, Pred
  <1>6. InUse'
    BY <1>a, <1>c, <1>e, Parts, Places DEF InUse
  <1>7. NoDuplicates'
    BY <1>c, <1>d DEF NoDuplicates
  <1>8. Sorted'
    <2>1. \A j \in 1..len : Name(order[j]) = userid[order[j]]
      BY <1>a DEF Name
    <2>2. \A j \in 1..len-1 : Name(order[j])' = userid[order'[j]]
      BY <1>c DEF Name
    <2>4. \A i, j \in 1..len : i < j => userid[order[i]] <= userid[order[j]]
      BY <2>1, Parts DEF Sorted
    <2>5. len \in Nat
      BY Parts DEF TypeOK
    <2>3. ASSUME NEW i \in 1..len-1, NEW j \in 1..len-1, i < j
          PROVE  Name(order[i])' <= Name(order[j])'
      <3>1. CASE i < at /\ j < at
        BY <3>1, <1>f, <2>2, <2>3, <2>4
      <3>2. CASE i < at /\ j >= at
        BY <3>2, <1>a, <1>f, <2>2, <2>4, <2>5
      <3>3. CASE i >= at
        BY <3>3, <1>a, <1>f, <2>2, <2>3, <2>4, <2>5
      <3> QED
        BY <3>1, <3>2, <3>3, <1>a, <2>5
    <2> QED
      BY <1>c, <2>3 DEF Sorted
  <1> QED
    BY <1>1, <1>2, <1>3, <1>4, <1>5, <1>6, <1>7, <1>8 DEF Inv

\* Putting the slot on the free list keeps Inv.
LEMMA PushInv ==
  ASSUME Inv, ~torn, Push
  PROVE  Inv'
  <1> USE UtmpRingAssumption
  <1>1. TypeOK'
    <2>1. pos \in Slots
      BY Parts DEF Push, Locals
    <2> QED
      BY <2>1, Parts DEF Push, TypeOK, Steps, locals, history
  <1>2. Locals'
    BY Parts DEF Push, Locals, Linking, Inserting, Unlinking, Members, locals,
      history
  <1>3. Passed'
    BY Parts DEF Push, Passed, Linking, locals, history
  <1>4. HeadAt'
    BY Parts DEF Push, HeadAt, locals, history
  <1>5. Links'
    BY Parts DEF Push, Links, Succ, Pred, locals, history
  <1>6. InUse'
    <2>1. Members' = Members
      BY DEF Push, Members, history
    <2>2. pc = "push" /\ pc' = "zero" /\ pos' = pos /\ active' = active
          /\ pos \in Slots \ Members /\ free' = free \cup {pos}
      BY Parts DEF Push, Locals, locals
    <2> QED
      BY <2>1, <2>2, Parts DEF InUse
  <1>7. NoDuplicates'
    BY Parts DEF Push, NoDuplicates, locals, history
  <1>8. Sorted'
    BY Parts DEF Push, Sorted, Name, locals, history
  <1> QED
    BY <1>1, <1>2, <1>3, <1>4, <1>5, <1>6, <1>7, <1>8 DEF Inv

\* Choosing the entry to be cleared keeps Inv.
LEMMA ClearInv ==
  ASSUME Inv, ~torn, NEW i \in 1..USHM_SIZE, Clear(i)
  PROVE  Inv'
  <1> USE UtmpRingAssumption
  <1>1. TypeOK'
    <2>1. order[i] \in 0..USHM_SIZE /\ i \in Nat
      BY Parts, Places DEF Clear, Slots
    <2> QED
      BY <2>1, Parts DEF Clear, TypeOK, Steps, shared
  <1>2. Locals'
    BY Parts DEF Clear, Locals, Linking, Inserting, Unlinking, shared
  <1>3. Passed'
    BY Parts DEF Clear, Passed, Linking, shared
  <1>4. HeadAt'
    BY Parts DEF Clear, HeadAt, shared
  <1>5. Links'
    BY Parts DEF Clear, Links, Succ, Pred, shared
  <1>6. InUse'
    <2>1. Members' = Members
      BY DEF Clear, Members
    <2> QED
      BY <2>1, Parts DEF Clear, InUse, shared
  <1>7. NoDuplicates'
    BY Parts DEF Clear, NoDuplicates, shared
  <1>8. Sorted'
    BY Parts DEF Clear, Sorted, Name, shared
  <1> QED
    BY <1>1, <1>2, <1>3, <1>4, <1>5, <1>6, <1>7, <1>8 DEF Inv

\* Clearing the entry keeps Inv.
LEMMA ZeroInv ==
  ASSUME Inv, ~torn, NEW k \in Names \cup {0}, Zero(k)
  PROVE  Inv'
  <1> USE UtmpRingAssumption
  <1>1. TypeOK'
    BY Parts DEF Zero, TypeOK, Steps, locals, history
  <1>2. Locals'
    BY Parts DEF Zero, Locals, Linking, Inserting, Unlinking, locals, history
  <1>3. Passed'
    BY Parts DEF Zero, Passed, Linking, locals, history
  <1>4. HeadAt'
    BY Parts DEF Zero, HeadAt, locals, history
  <1>5. Links'
    BY Parts DEF Zero, Links, Succ, Pred, locals, history
  <1>6. InUse'
    <2>1. Members' = Members
      BY DEF Zero, Members, history
    <2>2. pc = "zero" /\ pc' = "idle" /\ pos \in Slots \ Members /\ UNCHANGED <<pos, free>>
          /\ active' = [active EXCEPT ![pos] = FALSE]
      BY Parts DEF Zero, Locals, locals
    <2> QED
      BY <2>1, <2>2, Parts DEF InUse, TypeOK
  <1>7. NoDuplicates'
    BY Parts DEF Zero, NoDuplicates, locals, history
  <1>8. Sorted'
    <2>1. pos \in Slots \ Members
      BY Parts DEF Zero, Locals
    <2>2. \A j \in 1..len : Name(order[j])' = Name(order[j])
      BY <2>1, Parts, Places DEF Zero, Name, TypeOK, locals, history
    <2> QED
      BY <2>2, Parts DEF Zero, Sorted, history
  <1> QED
    BY <1>1, <1>2, <1>3, <1>4, <1>5, <1>6, <1>7, <1>8 DEF Inv

\* The death of a writer keeps Inv.
LEMMA DieInv ==
  ASSUME Inv, ~torn, Die
  PROVE  Inv'
  <1> USE UtmpRingAssumption
  <1>1. TypeOK'
    BY Parts DEF TypeOK, Die, Halfway, Steps, shared, locals, history
  <1>3. ASSUME ~torn'
        PROVE  Locals' /\ Passed' /\ HeadAt' /\ Links' /\ InUse' /\ NoDuplicates' /\ Sorted'
    <2>1. /\ pc' = "idle"
          /\ \/ pc \in Inserting \ {"i4", "i5"}
             \/ pc = "r1"
             \/ pc \in {"r2", "r3"} /\ listhead = order[1]
      BY <1>3, Parts DEF Die, Halfway, TypeOK, Steps, Inserting, Linking
    <2>2. len' = len /\ order' = order /\ Members' = Members
      BY DEF Die, history, Members
    <2>3. Locals' /\ Passed'
      BY <2>1 DEF Locals, Passed, Linking, Inserting, Unlinking
    <2>4. HeadAt'
      BY <2>1, <2>2, Parts
      DEF HeadAt, Die, shared, TypeOK, Inserting, Linking, Unlinking, Locals, Succ, NoDuplicates
    <2>5. Links'
      BY <2>1, <2>2, Parts
      DEF Links, Die, shared, TypeOK, Inserting, Linking, Succ, Pred
    <2>6. InUse'
      BY <2>1, <2>2, Parts DEF InUse, Die, shared, Inserting, Linking
    <2>7. NoDuplicates' /\ Sorted'
      BY <2>1, <2>2, Parts
      DEF NoDuplicates, Sorted, Name, Die, shared, locals, Inserting, Linking
    <2> QED
      BY <2>3, <2>4, <2>5, <2>6, <2>7
  <1> QED
    BY <1>1, <1>3 DEF Inv

\* Every step keeps Inv.
LEMMA NextInv == Inv /\ [Next]_ringVars => Inv'
  <1> SUFFICES ASSUME Inv, [Next]_ringVars PROVE Inv'
    OBVIOUS
  <1>1. CASE ~torn /\ Writer
    <2>1. ASSUME NEW n \in Slots, NEW k \in Names, Begin(n, k) PROVE Inv'
      BY <1>1, <2>1, BeginInv
    <2>2. ASSUME NEW i \in 1..USHM_SIZE, Clear(i) PROVE Inv'
      BY <1>1, <2>2, ClearInv
    <2>3. ASSUME NEW k \in Names \cup {0}, Zero(k) PROVE Inv'
      BY <1>1, <2>3, ZeroInv
    <2> QED
      BY <1>1, <2>1, <2>2, <2>3, Alone1Inv, Alone2Inv, Alone3Inv, WalkInv,
         Link1Inv, Link2Inv, Link3Inv, Link4Inv, Link5Inv, PopInv, FillInv,
         Unlink1Inv, Unlink2Inv, Unlink3Inv, Unlink4Inv, PushInv DEF Writer
  <1>2. CASE ~torn /\ Die
    BY <1>2, DieInv
  <1>3. CASE UNCHANGED ringVars
    BY <1>3 DEF ringVars, shared, locals, history, Inv, TypeOK, Locals, Passed, HeadAt,
       Links, InUse, NoDuplicates, Sorted, Members, Succ, Pred, Name
  <1> QED
    BY <1>1, <1>2, <1>3 DEF Next, Writer

\* Between any two statements of a writer the arrays, the locals and the list
\* they stand for are related as Inv says.
THEOREM Invariance == Spec => []Inv
  <1>1. Init => Inv
    BY InitInv
  <1>2. Inv /\ [Next]_ringVars => Inv'
    BY NextInv
  <1> QED
    BY <1>1, <1>2, PTL DEF Spec

\* Whenever no writer is at work, list_next and list_prev are one ring of all
\* entries in use, sorted from listhead on, whatever the order of logins and
\* logouts was, and also after a writer was killed before its first visible
\* assignment.
THEOREM RingCorrect == Spec => []RingImplements
  <1>1. Inv => RingImplements
    <2> SUFFICES ASSUME Inv, pc = "idle", ~torn PROVE RingImplements
      BY DEF RingImplements
    <2>1. listhead = IF len = 0 THEN 0 ELSE order[1]
      BY Parts DEF HeadAt
    <2>2. \A i \in 1..len : /\ list_next[order[i]] = order[Succ(i)]
                            /\ list_prev[order[i]] = order[Pred(i)]
      BY Parts DEF Links
    <2>3. Members = {n \in Slots : active[n]} /\ free = Slots \ Members
      BY Parts, Places DEF InUse, TypeOK
    <2> QED
      BY <2>1, <2>2, <2>3, Parts DEF RingImplements
  <1> QED
    BY <1>1, Invariance, PTL
=============================================================================
