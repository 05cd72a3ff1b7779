---------------------------- MODULE Utmp_proofs ----------------------------
(***************************************************************************)
(* Proofs about the login table of libBBS/utmp.c, for every number of      *)
(* slots, processes, sessions and users.                                   *)
(*                                                                         *)
(* The properties read the arrays with Chain and Ring; an invariant about  *)
(* these readings is not inductive, for a step changes three arrays at     *)
(* once.  The inductive invariant says that three sequences exist for      *)
(* which the arrays stand (Stands): the free slots f, the slots in use in  *)
(* the order of the ring o, and b[h] for each hash value.  The proof has   *)
(* four parts:                                                             *)
(*   - lemmas about one chain or ring: what reading it gives (ChainReads,  *)
(*     RingReads), and what putting a slot in, taking one out or taking    *)
(*     the first makes of it;                                              *)
(*   - the operations of the table: LoginStands, LogoutStands, PidStands   *)
(*     say which lists the arrays stand for afterwards;                    *)
(*   - the actors: every step of a process or session writes to the table  *)
(*     only by one of these operations (Write), and leaves each actor with *)
(*     what it needs to take its next step (Acts);                         *)
(*   - the properties, which follow from the lists.                        *)
(*                                                                         *)
(* The theorems are about UnhitSpec: any behaviour of the programs, and    *)
(* any values the local struct zeroinfo of clear_utmp2() leaves as the uid *)
(* of a cleared entry, up to the first kick or log-off that clears a slot  *)
(* not in use because that value is its user's (HitsLeftover); such a      *)
(* clear links a free slot in the free list a second time.                 *)
(***************************************************************************)
EXTENDS Utmp, FiniteInduction, FiniteSetTheorems, SequenceTheorems

N == USHM_SIZE
Links0 == 0..N

\* What the proofs use of the constants.
LEMMA Numbers ==
  /\ N \in Nat \ {0} /\ Slots = 1..N /\ Links0 = Slots \cup {0} /\ 0 \notin Slots
  /\ Users \subseteq Nat \ {0} /\ Hash \in [Users -> Nat \ {0}]
  /\ CounterMod \in Nat \ {0}
BY UtmpAssumption DEF N, Slots, Links0

-----------------------------------------------------------------------------
(* Sequences of slots. *)

Distinct(s) == \A i, j \in 1..Len(s) : s[i] = s[j] => i = j

\* A sequence without repetitions is no longer than the table.
LEMMA ShortLists ==
  ASSUME NEW s \in Seq(Slots), Distinct(s)
  PROVE  Len(s) \in 0..N
<1> DEFINE D == 1..Len(s)
<1>1. Len(s) \in Nat /\ s \in [D -> Slots]
  OBVIOUS
<1>2. SUFFICES ASSUME Len(s) > N PROVE FALSE
  BY <1>1, Numbers
<1>3. IsFiniteSet(D) /\ Cardinality(D) = Len(s)
  BY <1>1, FS_Interval
<1>4. IsFiniteSet(Slots) /\ Cardinality(Slots) = N
  BY Numbers, FS_Interval
<1>5. \E x, y \in D : x # y /\ s[x] = s[y]
  <2>1. Cardinality(Slots) < Cardinality(D)
    BY <1>2, <1>3, <1>4, Numbers
  <2> HIDE DEF D
  <2> QED BY <1>1, <1>3, <1>4, <2>1, FS_PigeonHole
<1> QED BY <1>5 DEF Distinct

\* As many slots as it is long are in it.
LEMMA DistinctLists ==
  ASSUME NEW s \in Seq(Slots), Distinct(s), NEW S, Values(s) = S
  PROVE  Lists(s, S)
<1> DEFINE D == 1..Len(s)
<1>1. Len(s) \in Nat /\ DOMAIN s = D /\ s \in [D -> S]
  BY DEF Values
<1>2. IsFiniteSet(D) /\ Cardinality(D) = Len(s)
  BY <1>1, FS_Interval
<1>3. s \in Bijection(D, S)
  <2>1. s \in Injection(D, S)
    BY <1>1 DEF Injection, IsInjective, Distinct
  <2>2. s \in Surjection(D, S)
    BY <1>1 DEF Surjection, Values
  <2> QED BY <2>1, <2>2 DEF Bijection
<1>4. Cardinality(S) = Cardinality(D)
  <2> HIDE DEF D
  <2> QED BY <1>2, <1>3, FS_Bijection DEF ExistsBijection
<1> QED BY <1>1, <1>2, <1>4 DEF Lists, Values

\* z is s with n put in as entry i.
Gains(z, s, i, n) ==
    /\ z \in Seq(Slots) /\ Len(z) = Len(s)+1
    /\ \A j \in 1..Len(s)+1 : z[j] = IF j < i THEN s[j] ELSE IF j = i THEN n ELSE s[j-1]

LEMMA Inserted ==
  ASSUME NEW s \in Seq(Slots), NEW i \in 1..Len(s)+1, NEW n \in Slots
  PROVE  Gains(Table!InsertAt(s, i, n), s, i, n)
<1> DEFINE a == SubSeq(s, 1, i-1)
           b == SubSeq(s, i, Len(s))
<1>1. /\ a \in Seq(Slots) /\ Len(a) = i-1
      /\ \A j \in 1..i-1 : a[j] = s[j]
  OBVIOUS
<1>2. /\ b \in Seq(Slots) /\ Len(b) = Len(s)-i+1
      /\ \A j \in 1..Len(s)-i+1 : b[j] = s[j+i-1]
  OBVIOUS
<1>3. Table!InsertAt(s, i, n) = a \o <<n>> \o b
  BY DEF Table!InsertAt
<1> HIDE DEF a, b
<1> DEFINE c == a \o <<n>>
<1>4. /\ c \in Seq(Slots) /\ Len(c) = i
      /\ \A j \in 1..i : c[j] = IF j < i THEN s[j] ELSE n
  BY <1>1
<1> HIDE DEF c
<1>5. /\ c \o b \in Seq(Slots) /\ Len(c \o b) = Len(s)+1
      /\ \A j \in 1..Len(s)+1 : (c \o b)[j] = IF j <= i THEN c[j] ELSE b[j-i]
  <2>1. Len(c) + Len(b) = Len(s)+1
    BY <1>2, <1>4
  <2>2. /\ c \o b \in Seq(Slots) /\ Len(c \o b) = Len(c) + Len(b)
        /\ \A j \in 1..Len(c) + Len(b) :
             (c \o b)[j] = IF j <= Len(c) THEN c[j] ELSE b[j - Len(c)]
    BY <1>2, <1>4, ConcatProperties
  <2> QED BY <1>4, <2>1, <2>2
<1>6. \A j \in 1..Len(s)+1 :
        (c \o b)[j] = IF j < i THEN s[j] ELSE IF j = i THEN n ELSE s[j-1]
  BY <1>2, <1>4, <1>5
<1> QED BY <1>3, <1>5, <1>6 DEF c, Gains

\* z is s without its entry i.
Lacks(z, s, i) ==
    /\ z \in Seq(Slots) /\ Len(z) = Len(s)-1
    /\ \A j \in 1..Len(s)-1 : z[j] = IF j < i THEN s[j] ELSE s[j+1]

LEMMA Removed ==
  ASSUME NEW s \in Seq(Slots), NEW i \in 1..Len(s)
  PROVE  Lacks(Table!RemoveAt(s, i), s, i)
<1> DEFINE a == SubSeq(s, 1, i-1)
           b == SubSeq(s, i+1, Len(s))
<1>1. /\ a \in Seq(Slots) /\ Len(a) = i-1
      /\ \A j \in 1..i-1 : a[j] = s[j]
  OBVIOUS
<1>2. /\ b \in Seq(Slots) /\ Len(b) = Len(s)-i
      /\ \A j \in 1..Len(s)-i : b[j] = s[j+i]
  OBVIOUS
<1>3. Table!RemoveAt(s, i) = a \o b
  BY DEF Table!RemoveAt
<1> HIDE DEF a, b
<1>4. /\ a \o b \in Seq(Slots) /\ Len(a \o b) = Len(s)-1
      /\ \A j \in 1..Len(s)-1 : (a \o b)[j] = IF j <= i-1 THEN a[j] ELSE b[j-(i-1)]
  <2>1. Len(a) + Len(b) = Len(s)-1
    BY <1>1, <1>2
  <2>2. /\ a \o b \in Seq(Slots) /\ Len(a \o b) = Len(a) + Len(b)
        /\ \A j \in 1..Len(a) + Len(b) :
             (a \o b)[j] = IF j <= Len(a) THEN a[j] ELSE b[j - Len(a)]
    BY <1>1, <1>2, ConcatProperties
  <2> QED BY <1>1, <2>1, <2>2
<1>5. \A j \in 1..Len(s)-1 : (a \o b)[j] = IF j < i THEN s[j] ELSE s[j+1]
  BY <1>1, <1>2, <1>4
<1> QED BY <1>3, <1>4, <1>5 DEF Lacks

LEMMA Dropped ==
  ASSUME NEW s \in Seq(Slots), Distinct(s), NEW i \in 1..Len(s)
  PROVE  Lacks(Table!Drop(s, s[i]), s, i)
<1>1. (CHOOSE j \in DOMAIN s : s[j] = s[i]) = i
  BY DEF Distinct
<1>2. Table!Drop(s, s[i]) = Table!RemoveAt(s, i)
  BY <1>1 DEF Table!Drop
<1> QED BY <1>2, Removed

-----------------------------------------------------------------------------
(* Walking the arrays. *)

\* The recursive function of Walk.
LEMMA WalkDef ==
  ASSUME NEW nx \in [Slots -> Links0], NEW x0 \in Links0, NEW B \in Nat
  PROVE  /\ Walk(nx, x0, B)[0] = x0
         /\ \A j \in 1..B :
              Walk(nx, x0, B)[j] = LET n == Walk(nx, x0, B)[j-1]
                                   IN  IF n \in Slots THEN nx[n] ELSE 0
<1> DEFINE G == [j \in 0..B |-> Links0]
           F == [p \in (1..B) \X Links0 |-> IF p[2] \in Slots THEN nx[p[2]] ELSE 0]
           Def(f) == f = [j \in 0..B |->
                            IF j = 0 THEN x0
                            ELSE IF f[j-1] \in DOMAIN nx THEN nx[f[j-1]] ELSE 0]
           Eq(f) == /\ Recursion(B, F, x0, f)
                    /\ \A j \in 0..B : f[j] \in G[j]
<1>0. DOMAIN nx = Slots
  OBVIOUS
<1>1. \A j \in 1..B : \A x \in Links0 :
         F[<<j, x>>] = (IF x \in Slots THEN nx[x] ELSE 0) /\ F[<<j, x>>] \in Links0
  BY Numbers
<1>2. \E f : Eq(f)
  <2>1. x0 \in G[0] /\ \A j \in 1..B : \A x \in G[j-1] : F[<<j, x>>] \in G[j]
    <3>1. \A j \in 1..B : j-1 \in 0..B /\ j \in 0..B
      OBVIOUS
    <3> HIDE DEF F
    <3> QED BY <1>1, <3>1
  <2> HIDE DEF F, G
  <2> QED BY <2>1, RecursiveFunction, Zenon
<1>3. PICK f : Eq(f)
  BY <1>2
<1>4. \A j \in 0..B : f[j] \in Links0
  BY <1>3
<1>5. f = [j \in 0..B |-> IF j = 0 THEN x0 ELSE F[<<j, f[j-1]>>]]
  BY <1>3 DEF Recursion
<1>6. \A j \in 1..B : F[<<j, f[j-1]>>] = (IF f[j-1] \in DOMAIN nx THEN nx[f[j-1]] ELSE 0)
  BY <1>0, <1>1, <1>4
<1>7. Def(f)
  <2> HIDE DEF F
  <2> QED BY <1>5, <1>6
<1>8. Walk(nx, x0, B) = CHOOSE g : Def(g)
  BY DEF Walk
<1>9. Def(Walk(nx, x0, B))
  <2> HIDE DEF Def
  <2> QED BY <1>7, <1>8
<1> QED BY <1>0, <1>9

\* The arrays nx from hd on stand for s: each slot leads to the next one.
ChainIs(nx, hd, s) ==
    /\ s \in Seq(Slots) /\ Distinct(s)
    /\ hd = IF Len(s) = 0 THEN 0 ELSE s[1]
    /\ \A i \in 1..Len(s) : nx[s[i]] = IF i = Len(s) THEN 0 ELSE s[i+1]
\* The same for a ring, and pv leads back.
RingIs(nx, pv, hd, s) ==
    /\ s \in Seq(Slots) /\ Distinct(s)
    /\ hd = IF Len(s) = 0 THEN 0 ELSE s[1]
    /\ \A i \in 1..Len(s) : nx[s[i]] = IF i = Len(s) THEN s[1] ELSE s[i+1]
    /\ \A i \in 1..Len(s) : pv[s[i]] = IF i = 1 THEN s[Len(s)] ELSE s[i-1]

\* Walking along a chain or ring of l slots.
LEMMA WalkAlong ==
  ASSUME NEW nx \in [Slots -> Links0], NEW s \in Seq(Slots), Len(s) # 0, NEW last \in Links0,
         \A i \in 1..Len(s) : nx[s[i]] = IF i = Len(s) THEN last ELSE s[i+1],
         NEW B \in Nat, B >= Len(s)
  PROVE  \A j \in 0..Len(s) : Walk(nx, s[1], B)[j] = IF j = Len(s) THEN last ELSE s[j+1]
<1> DEFINE w == Walk(nx, s[1], B)
           T == {j \in 0..Len(s) : w[j] = IF j = Len(s) THEN last ELSE s[j+1]}
<1>1. Len(s) \in Nat /\ (\A i \in 1..Len(s) : s[i] \in Slots) /\ s[1] \in Links0
  BY Numbers
<1>2. w[0] = s[1] /\ \A j \in 1..B : w[j] = IF w[j-1] \in Slots THEN nx[w[j-1]] ELSE 0
  BY <1>1, WalkDef
<1> HIDE DEF w
<1>3. 0 \in T
  BY <1>1, <1>2
<1>4. ASSUME NEW j \in 1..Len(s), j-1 \in T PROVE j \in T
  <2>1. w[j-1] = s[j] /\ s[j] \in Slots
    BY <1>1, <1>4
  <2>2. w[j] = nx[s[j]]
    BY <1>1, <1>2, <2>1
  <2> QED BY <1>1, <2>2
<1>5. 0..Len(s) \subseteq T
  <2> HIDE DEF T
  <2> QED BY <1>1, <1>3, <1>4, SetInduction
<1> QED BY <1>5 DEF w

\* Reading such arrays gives the sequence back.
LEMMA ListingIs ==
  ASSUME NEW nx \in [Slots -> Links0], NEW s \in Seq(Slots), Distinct(s), Len(s) # 0,
         NEW last \in Links0, \A i \in 2..Len(s) : last # s[i],
         \A i \in 1..Len(s) : nx[s[i]] = IF i = Len(s) THEN last ELSE s[i+1],
         NEW B \in Nat, B >= N
  PROVE  Listing(nx, s[1], last, B) = s
<1> DEFINE w == Walk(nx, s[1], B)
           ends == {j \in 1..B : w[j] = last}
<1>1. Len(s) \in 1..B /\ B >= Len(s) /\ (\A i \in 1..Len(s) : s[i] \in Slots)
  BY ShortLists, Numbers
<1>2. \A j \in 0..Len(s) : w[j] = IF j = Len(s) THEN last ELSE s[j+1]
  BY <1>1, WalkAlong
<1> HIDE DEF w
<1>3. Len(s) \in ends /\ \A k \in ends : Len(s) <= k
  <2>1. ASSUME NEW k \in 1..B, w[k] = last, k < Len(s) PROVE FALSE
    <3>1. w[k] = s[k+1] /\ k+1 \in 2..Len(s)
      BY <1>1, <1>2, <2>1
    <3> QED BY <2>1, <3>1
  <2>2. w[Len(s)] = last
    BY <1>1, <1>2
  <2> QED BY <1>1, <2>1, <2>2
<1>4. (CHOOSE j \in ends : \A k \in ends : j <= k) = Len(s)
  <2>1. \A j \in ends : j \in Nat
    OBVIOUS
  <2> HIDE DEF ends
  <2> QED BY <1>1, <1>3, <2>1
<1>5. s[1] # 0 /\ ends # {}
  BY <1>1, <1>3, Numbers
<1>6. Listing(nx, s[1], last, B) = [j \in 1..Len(s) |-> w[j-1]]
  BY <1>4, <1>5 DEF Listing, w
<1>7. s = [j \in 1..Len(s) |-> s[j]]
  OBVIOUS
<1>8. \A j \in 1..Len(s) : w[j-1] = s[j]
  BY <1>1, <1>2
<1> QED BY <1>6, <1>7, <1>8

\* A list of no slots.
LEMMA ListingEmpty ==
  ASSUME NEW nx, NEW last, NEW B
  PROVE  Listing(nx, 0, last, B) = <<>>
BY DEF Listing

\* Chain and Ring read back what the arrays stand for.
LEMMA ChainReads ==
  ASSUME NEW nx \in [Slots -> Links0], NEW hd, NEW s, ChainIs(nx, hd, s),
         NEW B \in Nat, B >= N
  PROVE  Chain(nx, hd, B) = s
<1>1. CASE Len(s) = 0
  <2>1. s = <<>> /\ hd = 0
    BY <1>1 DEF ChainIs
  <2> QED BY <2>1, ListingEmpty DEF Chain
<1>2. CASE Len(s) # 0
  <2>1. hd = s[1] /\ \A i \in 2..Len(s) : 0 # s[i]
    BY <1>2, Numbers DEF ChainIs
  <2>2. 0 \in Links0
    BY Numbers
  <2>3. Listing(nx, s[1], 0, B) = s
    BY <1>2, <2>1, <2>2, ListingIs DEF ChainIs
  <2> QED BY <2>1, <2>3 DEF Chain
<1> QED BY <1>1, <1>2

LEMMA RingReads ==
  ASSUME NEW nx \in [Slots -> Links0], NEW pv, NEW hd, NEW s, RingIs(nx, pv, hd, s),
         NEW B \in Nat, B >= N
  PROVE  Ring(nx, hd, B) = s
<1>1. CASE Len(s) = 0
  <2>1. s = <<>> /\ hd = 0
    BY <1>1 DEF RingIs
  <2> QED BY <2>1, ListingEmpty DEF Ring
<1>2. CASE Len(s) # 0
  <2>1. hd = s[1] /\ \A i \in 2..Len(s) : s[1] # s[i]
    BY <1>2 DEF RingIs, Distinct
  <2>2. s[1] \in Links0
    BY <1>2, Numbers DEF RingIs
  <2>3. Listing(nx, s[1], s[1], B) = s
    BY <1>2, <2>1, <2>2, ListingIs DEF RingIs
  <2> QED BY <2>1, <2>3 DEF Ring
<1> QED BY <1>1, <1>2

-----------------------------------------------------------------------------
(* What the operations do to one list. *)

LEMMA ValuesOf ==
  ASSUME NEW s \in Seq(Slots)
  PROVE  /\ \A x : x \in Values(s) <=> \E i \in 1..Len(s) : x = s[i]
         /\ Values(s) \subseteq Slots
BY DEF Values

LEMMA ChainKept ==
  ASSUME NEW nx, NEW hd, NEW s, ChainIs(nx, hd, s), NEW my,
         \A n \in Values(s) : my[n] = nx[n]
  PROVE  ChainIs(my, hd, s)
<1>1. \A i \in 1..Len(s) : my[s[i]] = nx[s[i]]
  BY ValuesOf DEF ChainIs
<1> QED BY <1>1 DEF ChainIs

\* The first slot is taken.
LEMMA ChainTail ==
  ASSUME NEW nx, NEW hd, NEW s, ChainIs(nx, hd, s), Len(s) # 0, NEW my,
         \A n \in Values(s) \ {s[1]} : my[n] = nx[n]
  PROVE  /\ ChainIs(my, nx[s[1]], Tail(s))
         /\ Values(Tail(s)) = Values(s) \ {s[1]}
<1> DEFINE z == Tail(s)
<1>1. s \in Seq(Slots) /\ Distinct(s)
      /\ \A i \in 1..Len(s) : nx[s[i]] = IF i = Len(s) THEN 0 ELSE s[i+1]
  BY DEF ChainIs
<1>2. /\ z \in Seq(Slots) /\ Len(z) = Len(s)-1
      /\ \A i \in 1..Len(s)-1 : z[i] = s[i+1] /\ i+1 \in 1..Len(s)
  BY <1>1
<1> HIDE DEF z
<1>3. Distinct(z)
  BY <1>1, <1>2 DEF Distinct
<1>4. Values(z) = Values(s) \ {s[1]}
  <2>1. \A x : x \in Values(z) <=> \E i \in 1..Len(s)-1 : x = s[i+1]
    BY <1>2, ValuesOf
  <2>2. \A x : x \in Values(s) <=> \E i \in 1..Len(s) : x = s[i]
    BY <1>1, ValuesOf
  <2>3. ASSUME NEW x \in Values(z) PROVE x \in Values(s) \ {s[1]}
    <3>1. PICK i \in 1..Len(s)-1 : x = s[i+1]
      BY <2>1
    <3>2. i+1 \in 1..Len(s) /\ 1 \in 1..Len(s) /\ i+1 # 1
      BY <1>1
    <3> QED BY <2>2, <3>1, <3>2, <1>1 DEF Distinct
  <2>4. ASSUME NEW x \in Values(s) \ {s[1]} PROVE x \in Values(z)
    <3>1. PICK i \in 1..Len(s) : x = s[i]
      BY <2>2
    <3>2. i-1 \in 1..Len(s)-1 /\ x = s[(i-1)+1]
      BY <1>1, <3>1
    <3> QED BY <2>1, <3>2
  <2> QED BY <2>3, <2>4
<1>5. \A i \in 1..Len(z) : my[z[i]] = IF i = Len(z) THEN 0 ELSE z[i+1]
  <2> TAKE i \in 1..Len(z)
  <2>1. z[i] \in Values(z)
    BY <1>2, ValuesOf
  <2>2. my[z[i]] = nx[s[i+1]] /\ i+1 \in 1..Len(s)
    BY <1>2, <1>4, <2>1
  <2>3. nx[s[i+1]] = IF i+1 = Len(s) THEN 0 ELSE s[i+2]
    BY <1>1, <2>2
  <2>4. i # Len(z) => z[i+1] = s[i+2]
    BY <1>2
  <2> QED BY <1>1, <1>2, <2>2, <2>3, <2>4
<1>6. nx[s[1]] = IF Len(z) = 0 THEN 0 ELSE z[1]
  BY <1>1, <1>2
<1> QED BY <1>2, <1>3, <1>4, <1>5, <1>6 DEF ChainIs, z

\* A slot is put in front.
LEMMA ChainPush ==
  ASSUME NEW nx, NEW hd, NEW s, ChainIs(nx, hd, s), NEW n \in Slots \ Values(s), NEW my,
         my[n] = hd, \A m \in Values(s) : my[m] = nx[m]
  PROVE  /\ ChainIs(my, n, <<n>> \o s)
         /\ Values(<<n>> \o s) = Values(s) \cup {n}
<1> DEFINE z == <<n>> \o s
<1>1. s \in Seq(Slots) /\ Distinct(s) /\ hd = (IF Len(s) = 0 THEN 0 ELSE s[1])
      /\ \A i \in 1..Len(s) : nx[s[i]] = IF i = Len(s) THEN 0 ELSE s[i+1]
  BY DEF ChainIs
<1>2. /\ z \in Seq(Slots) /\ Len(z) = Len(s)+1
      /\ \A i \in 1..Len(s)+1 : z[i] = IF i = 1 THEN n ELSE s[i-1]
  <2>1. <<n>> \in Seq(Slots) /\ Len(<<n>>) = 1 /\ <<n>>[1] = n
    OBVIOUS
  <2> QED BY <1>1, <2>1, ConcatProperties
<1> HIDE DEF z
<1>3. \A x : x \in Values(s) <=> \E i \in 1..Len(s) : x = s[i]
  BY <1>1, ValuesOf
<1>4. \A i \in 1..Len(s) : s[i] \in Values(s) /\ s[i] # n
  BY <1>3
<1>5. Distinct(z)
  <2> SUFFICES ASSUME NEW i \in 1..Len(s)+1, NEW j \in 1..Len(s)+1, z[i] = z[j] PROVE i = j
    BY <1>2 DEF Distinct
  <2>1. CASE i = 1 \/ j = 1
    BY <1>1, <1>2, <1>4, <2>1
  <2>2. CASE i # 1 /\ j # 1
    <3>1. i-1 \in 1..Len(s) /\ j-1 \in 1..Len(s) /\ s[i-1] = s[j-1]
      BY <1>1, <1>2, <2>2
    <3> QED BY <1>1, <3>1 DEF Distinct
  <2> QED BY <2>1, <2>2
<1>6. Values(z) = Values(s) \cup {n}
  <2>1. \A x : x \in Values(z) <=> \E i \in 1..Len(s)+1 : x = z[i]
    BY <1>2, ValuesOf
  <2>2. ASSUME NEW x \in Values(z) PROVE x \in Values(s) \cup {n}
    <3>1. PICK i \in 1..Len(s)+1 : x = z[i]
      BY <2>1
    <3>2. i = 1 \/ i-1 \in 1..Len(s)
      BY <1>1
    <3> QED BY <1>2, <1>4, <3>1, <3>2
  <2>3. ASSUME NEW x \in Values(s) PROVE x \in Values(z)
    <3>1. PICK i \in 1..Len(s) : x = s[i]
      BY <1>3
    <3>2. i+1 \in 1..Len(s)+1 /\ z[i+1] = s[i]
      BY <1>1, <1>2
    <3> QED BY <2>1, <3>1, <3>2
  <2>4. n \in Values(z)
    <3>1. 1 \in 1..Len(s)+1 /\ z[1] = n
      BY <1>1, <1>2
    <3> QED BY <2>1, <3>1
  <2> QED BY <2>2, <2>3, <2>4
<1>7. \A i \in 1..Len(z) : my[z[i]] = IF i = Len(z) THEN 0 ELSE z[i+1]
  <2> TAKE i \in 1..Len(z)
  <2>1. CASE i = 1
    <3>1. my[z[i]] = hd
      BY <1>2, <2>1
    <3>2. Len(s) # 0 => z[2] = s[1]
      BY <1>1, <1>2
    <3> QED BY <1>1, <1>2, <2>1, <3>1, <3>2
  <2>2. CASE i # 1
    <3>1. i-1 \in 1..Len(s) /\ z[i] = s[i-1]
      BY <1>1, <1>2, <2>2
    <3>2. my[z[i]] = nx[s[i-1]]
      BY <1>4, <3>1
    <3>3. nx[s[i-1]] = IF i-1 = Len(s) THEN 0 ELSE s[(i-1)+1]
      BY <1>1, <3>1
    <3>4. i # Len(z) => z[i+1] = s[(i-1)+1]
      BY <1>1, <1>2, <3>1
    <3> QED BY <1>1, <1>2, <3>1, <3>2, <3>3, <3>4
  <2> QED BY <2>1, <2>2
<1>8. Len(z) # 0 /\ z[1] = n
  BY <1>1, <1>2
<1> QED BY <1>2, <1>5, <1>6, <1>7, <1>8 DEF ChainIs, z

\* What is left of a sequence without its entry i.
LEMMA LeftOver ==
  ASSUME NEW s \in Seq(Slots), Distinct(s), NEW i \in 1..Len(s), NEW z, Lacks(z, s, i)
  PROVE  Distinct(z) /\ Values(z) = Values(s) \ {s[i]}
<1> USE DEF Lacks
<1> DEFINE at(j) == IF j < i THEN j ELSE j+1
<1>1. /\ \A j \in 1..Len(z) : at(j) \in 1..Len(s) /\ at(j) # i /\ z[j] = s[at(j)]
      /\ \A j, k \in 1..Len(z) : at(j) = at(k) => j = k
      /\ \A k \in 1..Len(s) : k # i => \E j \in 1..Len(z) : at(j) = k
  <2>1. \A k \in 1..Len(s) : k # i => at(IF k < i THEN k ELSE k-1) = k
                                  /\ (IF k < i THEN k ELSE k-1) \in 1..Len(z)
    OBVIOUS
  <2>2. \A j \in 1..Len(z) : at(j) \in 1..Len(s) /\ at(j) # i /\ z[j] = s[at(j)]
    OBVIOUS
  <2>3. \A j, k \in 1..Len(z) : at(j) = at(k) => j = k
    OBVIOUS
  <2> HIDE DEF at
  <2> QED BY <2>1, <2>2, <2>3
<1> HIDE DEF at
<1>2. Distinct(z)
  <2> SUFFICES ASSUME NEW j \in 1..Len(z), NEW k \in 1..Len(z), z[j] = z[k] PROVE j = k
    BY DEF Distinct
  <2>1. at(j) \in 1..Len(s) /\ at(k) \in 1..Len(s) /\ s[at(j)] = s[at(k)]
    BY <1>1
  <2>2. at(j) = at(k)
    BY <2>1 DEF Distinct
  <2> QED BY <1>1, <2>2
<1>3. \A x : x \in Values(z) <=> \E j \in 1..Len(z) : x = z[j]
  BY ValuesOf
<1>4. \A x : x \in Values(s) <=> \E j \in 1..Len(s) : x = s[j]
  BY ValuesOf
<1>5. ASSUME NEW x \in Values(z) PROVE x \in Values(s) \ {s[i]}
  <2>1. PICK j \in 1..Len(z) : x = z[j]
    BY <1>3
  <2> QED BY <1>1, <1>4, <2>1 DEF Distinct
<1>6. ASSUME NEW x \in Values(s) \ {s[i]} PROVE x \in Values(z)
  <2>1. PICK k \in 1..Len(s) : x = s[k] /\ k # i
    BY <1>4
  <2> QED BY <1>1, <1>3, <2>1
<1> QED BY <1>2, <1>5, <1>6

\* Slot s[i] is taken out of a chain.
LEMMA ChainDrop ==
  ASSUME NEW nx, NEW hd, NEW s, ChainIs(nx, hd, s), NEW i \in 1..Len(s), NEW my,
         \A j \in 1..Len(s) : j # i =>
             my[s[j]] = IF j = i-1 THEN nx[s[i]] ELSE nx[s[j]]
  PROVE  /\ ChainIs(my, IF i = 1 THEN nx[s[i]] ELSE hd, Table!Drop(s, s[i]))
         /\ Values(Table!Drop(s, s[i])) = Values(s) \ {s[i]}
<1>1. s \in Seq(Slots) /\ Distinct(s) /\ hd = (IF Len(s) = 0 THEN 0 ELSE s[1])
      /\ \A j \in 1..Len(s) : nx[s[j]] = IF j = Len(s) THEN 0 ELSE s[j+1]
  BY DEF ChainIs
<1> DEFINE z == Table!Drop(s, s[i])
<1>0. Lacks(z, s, i)
  BY <1>1, Dropped
<1>2. /\ z \in Seq(Slots) /\ Len(z) = Len(s)-1
      /\ \A j \in 1..Len(s)-1 : z[j] = IF j < i THEN s[j] ELSE s[j+1]
  BY <1>0 DEF Lacks
<1> HIDE DEF z
<1>3. Distinct(z) /\ Values(z) = Values(s) \ {s[i]}
  BY <1>0, <1>1, LeftOver
<1>4. \A j \in 1..Len(z) : my[z[j]] = IF j = Len(z) THEN 0 ELSE z[j+1]
  <2> TAKE j \in 1..Len(z)
  <2>1. CASE j < i-1
    <3>1. z[j] = s[j] /\ z[j+1] = s[j+1] /\ j \in 1..Len(s) /\ j # Len(z) /\ j # i
          /\ j # Len(s) /\ j # i-1
      BY <1>1, <1>2, <2>1
    <3> QED BY <1>1, <3>1
  <2>2. CASE j = i-1
    <3>1. z[j] = s[j] /\ j \in 1..Len(s) /\ j # i /\ my[s[j]] = nx[s[i]]
      BY <1>1, <1>2, <2>2
    <3>2. nx[s[i]] = IF i = Len(s) THEN 0 ELSE s[i+1]
      BY <1>1
    <3>3. j # Len(z) => z[j+1] = s[i+1]
      BY <1>1, <1>2, <2>2
    <3> QED BY <1>1, <1>2, <2>2, <3>1, <3>2, <3>3
  <2>3. CASE j >= i
    <3>1. z[j] = s[j+1] /\ j+1 \in 1..Len(s) /\ j+1 # i /\ j+1 # i-1
      BY <1>1, <1>2, <2>3
    <3>2. my[s[j+1]] = nx[s[j+1]]
      BY <3>1
    <3>3. nx[s[j+1]] = IF j+1 = Len(s) THEN 0 ELSE s[(j+1)+1]
      BY <1>1, <3>1
    <3>4. j # Len(z) => z[j+1] = s[(j+1)+1]
      BY <1>1, <1>2, <2>3
    <3> QED BY <1>1, <1>2, <3>1, <3>2, <3>3, <3>4
  <2> QED BY <1>1, <1>2, <2>1, <2>2, <2>3
<1>5. (IF i = 1 THEN nx[s[i]] ELSE hd) = IF Len(z) = 0 THEN 0 ELSE z[1]
  <2>1. CASE i = 1
    BY <1>1, <1>2, <2>1
  <2>2. CASE i # 1
    BY <1>1, <1>2, <2>2
  <2> QED BY <2>1, <2>2
<1> QED BY <1>2, <1>3, <1>4, <1>5 DEF ChainIs, z

\* A sequence with a new slot put in.
LEMMA GainsOne ==
  ASSUME NEW s \in Seq(Slots), Distinct(s), NEW i \in 1..Len(s)+1,
         NEW n \in Slots \ Values(s), NEW z, Gains(z, s, i, n)
  PROVE  Distinct(z) /\ Values(z) = Values(s) \cup {n}
<1> USE DEF Gains
<1> DEFINE at(j) == IF j < i THEN j ELSE j+1
<1>1. /\ \A j \in 1..Len(s) : at(j) \in 1..Len(z) /\ at(j) # i /\ z[at(j)] = s[j]
      /\ \A k \in 1..Len(z) : k # i => \E j \in 1..Len(s) : at(j) = k
      /\ i \in 1..Len(z) /\ z[i] = n
  <2>1. \A k \in 1..Len(z) : k # i => at(IF k < i THEN k ELSE k-1) = k
                                  /\ (IF k < i THEN k ELSE k-1) \in 1..Len(s)
    OBVIOUS
  <2>2. \A j \in 1..Len(s) : at(j) \in 1..Len(z) /\ at(j) # i /\ z[at(j)] = s[j]
    OBVIOUS
  <2>3. i \in 1..Len(z) /\ z[i] = n
    OBVIOUS
  <2> HIDE DEF at
  <2> QED BY <2>1, <2>2, <2>3
<1> HIDE DEF at
<1>3. \A x : x \in Values(z) <=> \E j \in 1..Len(z) : x = z[j]
  BY ValuesOf
<1>4. \A x : x \in Values(s) <=> \E j \in 1..Len(s) : x = s[j]
  BY ValuesOf
<1>2. Distinct(z)
  <2> SUFFICES ASSUME NEW j \in 1..Len(z), NEW k \in 1..Len(z), z[j] = z[k] PROVE j = k
    BY DEF Distinct
  <2>1. ASSUME NEW m \in 1..Len(z), m # i PROVE z[m] # n
    BY <1>1, <1>4, <2>1
  <2>3. CASE j = i \/ k = i
    BY <1>1, <2>1, <2>3
  <2>2. CASE j # i /\ k # i
    <3>1. PICK a \in 1..Len(s) : at(a) = j
      BY <1>1, <2>2
    <3>2. PICK b \in 1..Len(s) : at(b) = k
      BY <1>1, <2>2
    <3>3. s[a] = s[b]
      BY <1>1, <3>1, <3>2
    <3> QED BY <3>1, <3>2, <3>3 DEF Distinct
  <2> QED BY <2>2, <2>3
<1>5. ASSUME NEW x \in Values(z) PROVE x \in Values(s) \cup {n}
  <2>1. PICK k \in 1..Len(z) : x = z[k]
    BY <1>3
  <2>2. CASE k # i
    <3>1. PICK a \in 1..Len(s) : at(a) = k
      BY <1>1, <2>2
    <3> QED BY <1>1, <1>4, <2>1, <3>1
  <2> QED BY <1>1, <2>1, <2>2
<1>6. ASSUME NEW x \in Values(s) PROVE x \in Values(z)
  BY <1>1, <1>3, <1>4
<1> QED BY <1>1, <1>2, <1>3, <1>5, <1>6

\* The first slot of a ring.
LEMMA RingAlone ==
  ASSUME NEW n \in Slots, NEW my, NEW vy, my[n] = n, vy[n] = n,
         NEW z, Gains(z, <<>>, 1, n)
  PROVE  RingIs(my, vy, n, z)
<1>1. z \in Seq(Slots) /\ Len(z) = 1 /\ z[1] = n
  BY DEF Gains
<1>2. Distinct(z)
  BY <1>1 DEF Distinct
<1>3. \A i \in 1..1 : i = 1
  OBVIOUS
<1> QED BY <1>1, <1>2, <1>3 DEF RingIs

\* Slot n is linked in before cur, which is entry i or, at the end, the first.
LEMMA RingPut ==
  ASSUME NEW nx, NEW pv, NEW hd, NEW s, RingIs(nx, pv, hd, s), Len(s) # 0,
         NEW i \in 1..Len(s)+1, NEW n \in Slots \ Values(s),
         NEW cur, cur = s[IF i = Len(s)+1 THEN 1 ELSE i],
         NEW z, Gains(z, s, i, n),
         NEW my, my[n] = cur, my[pv[cur]] = n,
         \A m \in Values(s) \ {pv[cur]} : my[m] = nx[m],
         NEW vy, vy[n] = pv[cur], vy[cur] = n,
         \A m \in Values(s) \ {cur} : vy[m] = pv[m]
  PROVE  RingIs(my, vy, IF i = 1 THEN n ELSE hd, z)
<1> DEFINE L == Len(s)
<1>1. /\ s \in Seq(Slots) /\ Distinct(s) /\ hd = s[1]
      /\ \A j \in 1..L : nx[s[j]] = IF j = L THEN s[1] ELSE s[j+1]
      /\ \A j \in 1..L : pv[s[j]] = IF j = 1 THEN s[L] ELSE s[j-1]
  BY DEF RingIs
<1>2. L \in Nat \ {0} /\ i \in 1..L+1
  BY <1>1
<1>3. /\ z \in Seq(Slots) /\ Len(z) = L+1
      /\ \A j \in 1..L+1 : z[j] = IF j < i THEN s[j] ELSE IF j = i THEN n ELSE s[j-1]
  BY DEF Gains
<1>4. Distinct(z)
  BY <1>1, GainsOne
<1>5. \A j \in 1..L : s[j] \in Values(s) /\ s[j] # n
  BY <1>1, ValuesOf
<1>6. \A j, k \in 1..L : s[j] = s[k] => j = k
  BY <1>1 DEF Distinct
<1>7. pv[cur] = s[IF i = 1 THEN L ELSE i-1]
  <2>1. (IF i = L+1 THEN 1 ELSE i) \in 1..L
    BY <1>2
  <2>2. CASE i = L+1
    BY <1>1, <1>2, <2>1, <2>2
  <2>3. CASE i # L+1
    BY <1>1, <1>2, <2>1, <2>3
  <2> QED BY <2>2, <2>3
<1>8. \A j \in 1..L :
        /\ my[s[j]] = IF j = (IF i = 1 THEN L ELSE i-1) THEN n ELSE nx[s[j]]
        /\ vy[s[j]] = IF j = (IF i = L+1 THEN 1 ELSE i) THEN n ELSE pv[s[j]]
  <2>1. (IF i = 1 THEN L ELSE i-1) \in 1..L /\ (IF i = L+1 THEN 1 ELSE i) \in 1..L
    BY <1>2
  <2> QED BY <1>5, <1>6, <1>7, <2>1
<1> HIDE DEF L
<1>9. \A j \in 1..L+1 : my[z[j]] = IF j = L+1 THEN z[1] ELSE z[j+1]
  <2> TAKE j \in 1..L+1
  <2>1. CASE j < i
    <3>1. z[j] = s[j] /\ j \in 1..L /\ j # L+1
          /\ z[j+1] = IF j+1 < i THEN s[j+1] ELSE n
      BY <1>2, <1>3, <2>1
    <3>2. CASE j+1 = i
      BY <1>8, <3>1, <3>2, <1>2
    <3>3. CASE j+1 # i
      <4>1. my[s[j]] = nx[s[j]] /\ j # L
        BY <1>8, <2>1, <3>1, <3>3, <1>2
      <4> QED BY <1>1, <3>1, <4>1, <2>1, <3>3, <1>2
    <3> QED BY <3>2, <3>3
  <2>2. CASE j = i
    <3>1. z[j] = n
      BY <1>3, <2>2
    <3>2. i = L+1 => z[1] = s[1]
      BY <1>2, <1>3
    <3>3. i # L+1 => z[i+1] = s[i]
      BY <1>2, <1>3
    <3> QED BY <2>2, <3>1, <3>2, <3>3 DEF L
  <2>3. CASE j > i
    <3>1. z[j] = s[j-1] /\ j-1 \in 1..L
      BY <1>2, <1>3, <2>3
    <3>2. CASE j = L+1 /\ i = 1
      <4>1. z[1] = n /\ my[s[j-1]] = n
        BY <1>2, <1>3, <1>8, <3>1, <3>2
      <4> QED BY <3>1, <3>2, <4>1
    <3>3. CASE ~(j = L+1 /\ i = 1)
      <4>1. my[s[j-1]] = nx[s[j-1]]
        BY <1>2, <1>8, <2>3, <3>1, <3>3
      <4>2. nx[s[j-1]] = IF j-1 = L THEN s[1] ELSE s[(j-1)+1]
        BY <1>1, <3>1
      <4>3. j # L+1 => z[j+1] = s[(j-1)+1]
        BY <1>2, <1>3, <2>3
      <4>4. j = L+1 => z[1] = s[1]
        BY <1>2, <1>3, <3>3
      <4> QED BY <1>2, <3>1, <4>1, <4>2, <4>3, <4>4
    <3> QED BY <3>2, <3>3
  <2> QED BY <1>2, <2>1, <2>2, <2>3
<1>10. \A j \in 1..L+1 : vy[z[j]] = IF j = 1 THEN z[L+1] ELSE z[j-1]
  <2> TAKE j \in 1..L+1
  <2>1. CASE j < i
    <3>1. z[j] = s[j] /\ j \in 1..L /\ (j # 1 => z[j-1] = s[j-1])
      BY <1>2, <1>3, <2>1
    <3>2. z[L+1] = IF i = L+1 THEN n ELSE s[L]
      BY <1>2, <1>3
    <3>3. CASE j = 1 /\ i = L+1
      BY <1>8, <3>1, <3>2, <3>3
    <3>4. CASE ~(j = 1 /\ i = L+1)
      <4>1. vy[s[j]] = pv[s[j]]
        BY <1>2, <1>8, <2>1, <3>1, <3>4
      <4>2. pv[s[j]] = IF j = 1 THEN s[L] ELSE s[j-1]
        BY <1>1, <3>1
      <4> QED BY <3>1, <3>2, <3>4, <4>1, <4>2
    <3> QED BY <3>3, <3>4
  <2>2. CASE j = i
    <3>1. z[j] = n /\ z[L+1] = (IF i = L+1 THEN n ELSE s[L]) /\ (j # 1 => z[j-1] = s[j-1])
      BY <1>2, <1>3, <2>2
    <3> QED BY <1>2, <1>7, <2>2, <3>1 DEF L
  <2>3. CASE j > i
    <3>1. z[j] = s[j-1] /\ j-1 \in 1..L /\ j # 1 /\ i # L+1
          /\ z[j-1] = IF j-1 = i THEN n ELSE s[(j-1)-1]
      BY <1>2, <1>3, <2>3
    <3>2. CASE j-1 = i
      BY <1>8, <3>1, <3>2
    <3>3. CASE j-1 # i
      <4>1. vy[s[j-1]] = pv[s[j-1]]
        BY <1>2, <1>8, <3>1, <3>3
      <4>2. pv[s[j-1]] = s[(j-1)-1]
        BY <1>1, <2>3, <3>1, <3>3
      <4> QED BY <3>1, <3>3, <4>1, <4>2
    <3> QED BY <3>2, <3>3
  <2> QED BY <1>2, <2>1, <2>2, <2>3
<1>11. (IF i = 1 THEN n ELSE hd) = z[1]
  BY <1>1, <1>2, <1>3
<1> QED BY <1>2, <1>3, <1>4, <1>9, <1>10, <1>11 DEF RingIs, L

\* Slot s[i] is unlinked.
LEMMA RingDrop ==
  ASSUME NEW nx, NEW pv, NEW hd, NEW s, RingIs(nx, pv, hd, s),
         NEW i \in 1..Len(s), NEW z, Lacks(z, s, i),
         NEW my, \A m \in Values(s) \ {s[i]} : my[m] = IF m = pv[s[i]] THEN nx[s[i]] ELSE nx[m],
         NEW vy, \A m \in Values(s) \ {s[i]} : vy[m] = IF m = nx[s[i]] THEN pv[s[i]] ELSE pv[m]
  PROVE  RingIs(my, vy, IF hd # s[i] THEN hd ELSE IF nx[s[i]] = s[i] THEN 0 ELSE nx[s[i]], z)
<1> DEFINE L == Len(s)
<1>1. /\ s \in Seq(Slots) /\ Distinct(s) /\ hd = s[1]
      /\ \A j \in 1..L : nx[s[j]] = IF j = L THEN s[1] ELSE s[j+1]
      /\ \A j \in 1..L : pv[s[j]] = IF j = 1 THEN s[L] ELSE s[j-1]
  BY DEF RingIs
<1>2. L \in Nat \ {0} /\ i \in 1..L
  BY <1>1
<1>3. /\ z \in Seq(Slots) /\ Len(z) = L-1
      /\ \A j \in 1..L-1 : z[j] = IF j < i THEN s[j] ELSE s[j+1]
  BY DEF Lacks
<1>4. Distinct(z)
  BY <1>1, LeftOver
<1>5. \A j \in 1..L : s[j] \in Values(s)
  BY <1>1, ValuesOf
<1>6. \A j, k \in 1..L : s[j] = s[k] => j = k
  BY <1>1 DEF Distinct
<1>7. /\ pv[s[i]] = s[IF i = 1 THEN L ELSE i-1] /\ nx[s[i]] = s[IF i = L THEN 1 ELSE i+1]
      /\ (IF i = 1 THEN L ELSE i-1) \in 1..L /\ (IF i = L THEN 1 ELSE i+1) \in 1..L
  <2>1. pv[s[i]] = s[IF i = 1 THEN L ELSE i-1]
    <3>1. pv[s[i]] = IF i = 1 THEN s[L] ELSE s[i-1]
      BY <1>1
    <3> QED BY <3>1
  <2>2. nx[s[i]] = s[IF i = L THEN 1 ELSE i+1]
    <3>1. nx[s[i]] = IF i = L THEN s[1] ELSE s[i+1]
      BY <1>1
    <3> QED BY <3>1
  <2>3. (IF i = 1 THEN L ELSE i-1) \in 1..L /\ (IF i = L THEN 1 ELSE i+1) \in 1..L
    BY <1>2
  <2> QED BY <2>1, <2>2, <2>3
<1>8. \A j \in 1..L : j # i =>
        /\ my[s[j]] = IF j = (IF i = 1 THEN L ELSE i-1) THEN s[IF i = L THEN 1 ELSE i+1]
                      ELSE nx[s[j]]
        /\ vy[s[j]] = IF j = (IF i = L THEN 1 ELSE i+1) THEN s[IF i = 1 THEN L ELSE i-1]
                      ELSE pv[s[j]]
  <2> TAKE j \in 1..L
  <2> HAVE j # i
  <2>1. s[j] \in Values(s) \ {s[i]}
    BY <1>5, <1>6
  <2>2. /\ s[j] = pv[s[i]] <=> j = IF i = 1 THEN L ELSE i-1
        /\ s[j] = nx[s[i]] <=> j = IF i = L THEN 1 ELSE i+1
    BY <1>6, <1>7
  <2> QED BY <1>7, <2>1, <2>2
<1> HIDE DEF L
<1>9. \A j \in 1..L-1 : my[z[j]] = IF j = L-1 THEN z[1] ELSE z[j+1]
  <2> TAKE j \in 1..L-1
  <2>1. CASE j < i
    <3>1. z[j] = s[j] /\ j \in 1..L /\ j # i /\ j # L
      BY <1>2, <1>3, <2>1
    <3>2. my[s[j]] = IF j = i-1 THEN s[IF i = L THEN 1 ELSE i+1] ELSE s[j+1]
      BY <1>1, <1>2, <1>8, <2>1, <3>1
    <3>3. CASE j = i-1
      <4>1. i # L => j # L-1 /\ z[j+1] = s[i+1]
        BY <1>2, <1>3, <3>3
      <4>2. i = L => j = L-1 /\ z[1] = s[1]
        BY <1>2, <1>3, <3>3
      <4> QED BY <3>1, <3>2, <3>3, <4>1, <4>2
    <3>4. CASE j # i-1
      <4>1. j # L-1 /\ z[j+1] = s[j+1]
        BY <1>2, <1>3, <2>1, <3>4
      <4> QED BY <3>1, <3>2, <3>4, <4>1
    <3> QED BY <3>3, <3>4
  <2>2. CASE j >= i
    <3>1. z[j] = s[j+1] /\ j+1 \in 1..L /\ j+1 # i
      BY <1>2, <1>3, <2>2
    <3>2. my[s[j+1]] = IF j+1 = L /\ i = 1 THEN s[2] ELSE IF j+1 = L THEN s[1] ELSE s[(j+1)+1]
      BY <1>1, <1>2, <1>8, <2>2, <3>1
    <3>3. j = L-1 => z[1] = IF i = 1 THEN s[2] ELSE s[1]
      BY <1>2, <1>3
    <3>4. j # L-1 => z[j+1] = s[(j+1)+1]
      BY <1>2, <1>3, <2>2
    <3> QED BY <1>2, <3>1, <3>2, <3>3, <3>4
  <2> QED BY <1>2, <2>1, <2>2
<1>10. \A j \in 1..L-1 : vy[z[j]] = IF j = 1 THEN z[L-1] ELSE z[j-1]
  <2> TAKE j \in 1..L-1
  <2>0. z[L-1] = IF i = L THEN s[L-1] ELSE s[L]
    BY <1>2, <1>3
  <2>1. CASE j < i
    <3>1. z[j] = s[j] /\ j \in 1..L /\ j # i /\ (j # 1 => z[j-1] = s[j-1])
      BY <1>2, <1>3, <2>1
    <3>2. vy[s[j]] = IF j = 1 /\ i = L THEN s[i-1] ELSE IF j = 1 THEN s[L] ELSE s[j-1]
      BY <1>1, <1>2, <1>8, <2>1, <3>1
    <3> QED BY <1>2, <2>0, <3>1, <3>2
  <2>2. CASE j >= i
    <3>1. z[j] = s[j+1] /\ j+1 \in 1..L /\ j+1 # i /\ j+1 # 1 /\ i # L
      BY <1>2, <1>3, <2>2
    <3>2. vy[s[j+1]] = IF j = i THEN s[IF i = 1 THEN L ELSE i-1] ELSE s[j]
      BY <1>1, <1>2, <1>8, <2>2, <3>1
    <3>3. j # 1 => z[j-1] = IF j = i THEN s[i-1] ELSE s[j]
      BY <1>2, <1>3, <2>2
    <3>4. j = 1 => i = 1
      BY <2>2
    <3> QED BY <1>2, <2>0, <3>1, <3>2, <3>3, <3>4
  <2> QED BY <1>2, <2>1, <2>2
<1>11. (IF hd # s[i] THEN hd ELSE IF nx[s[i]] = s[i] THEN 0 ELSE nx[s[i]])
         = IF Len(z) = 0 THEN 0 ELSE z[1]
  <2>1. CASE i = 1 /\ L = 1
    BY <1>1, <1>3, <1>7, <2>1
  <2>2. CASE i = 1 /\ L # 1
    <3>1. nx[s[i]] = s[2] /\ s[2] # s[1]
      BY <1>2, <1>6, <1>7, <2>2
    <3>2. z[1] = s[2] /\ Len(z) # 0
      BY <1>2, <1>3, <2>2
    <3> QED BY <1>1, <2>2, <3>1, <3>2
  <2>3. CASE i # 1
    <3>1. hd # s[i]
      BY <1>1, <1>2, <1>6, <2>3 DEF L
    <3>2. z[1] = s[1] /\ Len(z) # 0
      BY <1>2, <1>3, <2>3 DEF L
    <3> QED BY <1>1, <3>1, <3>2
  <2> QED BY <2>1, <2>2, <2>3
<1> QED BY <1>3, <1>4, <1>9, <1>10, <1>11 DEF RingIs, L


-----------------------------------------------------------------------------
(* The table as lists: free slots f, slots in use in order o, and for each *)
(* hash value b[h] the slots in use of its users.                          *)

HashValues == {Hash[u] : u \in Users}
TableType ==
    [ uinfo : [Slots -> Entry], next : [Slots -> Links0],
      hashhead : [HashValues \cup {0} -> Links0], listhead : Links0,
      list_prev : [Slots -> Links0], list_next : [Slots -> Links0],
      number : Links0, count : [Counters -> 0..CounterMod-1] ]
OfHash(t, h) == {n \in ActiveSlots(t) : Hash[t.uinfo[n].uid] = h}

FreeIs(t, f) ==
    /\ ChainIs(t.next, t.hashhead[0], f)
    /\ Values(f) = Slots \ ActiveSlots(t)
HashedIs(t, b) ==
    /\ b \in [HashValues -> Seq(Slots)]
    /\ \A h \in HashValues : /\ ChainIs(t.next, t.hashhead[h], b[h])
                             /\ Values(b[h]) = OfHash(t, h)
Ascending(t, o) ==
    \A j, k \in 1..Len(o) : j < k => t.uinfo[o[j]].uid <= t.uinfo[o[k]].uid
OnlineIs(t, o) ==
    /\ RingIs(t.list_next, t.list_prev, t.listhead, o)
    /\ Values(o) = ActiveSlots(t)
    /\ Ascending(t, o)
\* A slot in use has a uid, and no other slot has the pid of a process.
Marked(t) ==
    \A n \in Slots : /\ t.uinfo[n].active => t.uinfo[n].uid # 0
                     /\ ~t.uinfo[n].active => t.uinfo[n].pid \in {0, 1}
\* What clear_utmp2() leaves in a slot, g being what the stack held.
Cleared(g) == [BlankEntry EXCEPT !.uid = g]
Balance(t) == t.count["login"] + t.count["wwwlogin"]
                - t.count["logout"] - t.count["wwwlogout"] - t.number
Counted(t) ==
    /\ t.number = Cardinality(ActiveSlots(t))
    /\ \E k \in Int : Balance(t) = k * CounterMod

Stands(t, f, o, b) ==
    /\ t \in TableType
    /\ FreeIs(t, f) /\ OnlineIs(t, o) /\ HashedIs(t, b)
    /\ Marked(t) /\ Counted(t)

LEMMA UidsAre ==
  ASSUME NEW t \in TableType
  PROVE  \A n \in Slots : /\ t.uinfo[n] \in Entry /\ t.uinfo[n].uid \in Users \cup {0}
                          /\ t.uinfo[n].uid \in Nat
<1>1. \A n \in Slots : t.uinfo[n] \in Entry
  BY DEF TableType
<1>2. \A e \in Entry : e.uid \in Users \cup {0}
  BY DEF Entry
<1>3. \A u \in Users \cup {0} : u \in Nat
  BY Numbers
<1> QED BY <1>1, <1>2, <1>3

LEMMA ClearedIs ==
  ASSUME NEW g \in Users \cup {0}
  PROVE  /\ Cleared(g) \in Entry /\ ~Cleared(g).active
         /\ Cleared(g).uid = g /\ Cleared(g).pid = 0
BY DEF Cleared, BlankEntry, Entry

\* The table as it is created stands for N free slots.
LEMMA EmptyStands ==
  Stands(EmptyUtmp, [i \in 1..N |-> i], <<>>, [h \in HashValues |-> <<>>])
<1> DEFINE t == EmptyUtmp
           f == [i \in 1..N |-> i]
           b == [h \in HashValues |-> <<>>]
<1>1. /\ t.uinfo = [n \in Slots |-> BlankEntry]
      /\ t.next = [n \in Slots |-> IF n = N THEN 0 ELSE n+1]
      /\ t.hashhead = [h \in HashValues \cup {0} |-> IF h = 0 THEN 1 ELSE 0]
      /\ t.listhead = 0 /\ t.number = 0 /\ t.count = [c \in Counters |-> 0]
      /\ t.list_prev = [n \in Slots |-> 0] /\ t.list_next = [n \in Slots |-> 0]
  BY DEF EmptyUtmp, HashValues, N
<1>2. 0 \notin HashValues
  BY Numbers DEF HashValues
<1>3. t \in TableType
  <2>1. BlankEntry \in Entry
    BY DEF BlankEntry, Entry
  <2>2. t.next \in [Slots -> Links0] /\ 1 \in Links0 /\ 0 \in Links0
    BY <1>1, Numbers DEF Links0
  <2>3. 0 \in 0..CounterMod-1
    BY Numbers
  <2> QED BY <1>1, <2>1, <2>2, <2>3 DEF EmptyUtmp, TableType, HashValues
<1>4. \A n \in Slots : t.uinfo[n].active = FALSE /\ t.uinfo[n].uid = 0 /\ t.uinfo[n].pid = 0
  BY <1>1 DEF BlankEntry
<1>5. ActiveSlots(t) = {}
  BY <1>4 DEF ActiveSlots
<1>6. FreeIs(t, f)
  <2>1. f \in Seq(Slots) /\ Len(f) = N /\ \A i \in 1..N : f[i] = i
    BY Numbers
  <2>2. Distinct(f)
    BY <2>1 DEF Distinct
  <2>3. t.hashhead[0] = f[1] /\ Len(f) # 0
    BY <1>1, <2>1, Numbers
  <2>4. \A i \in 1..N : t.next[f[i]] = IF i = N THEN 0 ELSE f[i+1]
    BY <1>1, <2>1, Numbers
  <2>5. Values(f) = Slots
    BY <2>1, Numbers DEF Values
  <2> QED BY <1>5, <2>1, <2>2, <2>3, <2>4, <2>5 DEF FreeIs, ChainIs
<1>7. OnlineIs(t, <<>>)
  BY <1>1, <1>5 DEF OnlineIs, RingIs, Distinct, Values, Ascending
<1>8. HashedIs(t, b)
  <2>1. ASSUME NEW h \in HashValues
        PROVE  ChainIs(t.next, t.hashhead[h], <<>>) /\ Values(<<>>) = OfHash(t, h)
    BY <1>1, <1>2, <1>5 DEF ChainIs, Distinct, Values, OfHash
  <2> QED BY <2>1 DEF HashedIs
<1>9. Marked(t)
  BY <1>4 DEF Marked
<1>10. Counted(t)
  <2>1. Cardinality(ActiveSlots(t)) = 0
    BY <1>5, FS_EmptySet
  <2>2. Balance(t) = 0 * CounterMod
    BY <1>1, Numbers DEF Balance, Counters
  <2> QED BY <1>1, <2>1, <2>2 DEF Counted
<1> QED BY <1>3, <1>6, <1>7, <1>8, <1>9, <1>10 DEF Stands

\* The arrays read back what they stand for.
LEMMA Reads ==
  ASSUME NEW t, NEW f, NEW o, NEW b, Stands(t, f, o, b), NEW B \in Nat, B >= N
  PROVE  /\ Chain(t.next, t.hashhead[0], B) = f
         /\ Ring(t.list_next, t.listhead, B) = o
         /\ \A h \in HashValues : Chain(t.next, t.hashhead[h], B) = b[h]
<1>1. t.next \in [Slots -> Links0] /\ t.list_next \in [Slots -> Links0]
  BY DEF Stands, TableType
<1> QED BY <1>1, ChainReads, RingReads DEF Stands, FreeIs, OnlineIs, HashedIs

\* The slots of users with different hash values are different ones, and
\* none of them is free.
LEMMA ListsApart ==
  ASSUME NEW t, NEW f, NEW o, NEW b, Stands(t, f, o, b)
  PROVE  /\ 0 \notin HashValues
         /\ \A h \in HashValues : Values(b[h]) \subseteq ActiveSlots(t)
         /\ \A h, g \in HashValues : h # g => Values(b[h]) \cap Values(b[g]) = {}
         /\ Values(f) \cap ActiveSlots(t) = {}
         /\ \A n \in ActiveSlots(t) : /\ n \in Slots /\ t.uinfo[n].uid \in Users
                                      /\ Hash[t.uinfo[n].uid] \in HashValues
<1>1. 0 \notin HashValues
  BY Numbers DEF HashValues
<1>2. \A h \in HashValues : Values(b[h]) = OfHash(t, h)
  BY DEF Stands, HashedIs
<1>3. Values(f) = Slots \ ActiveSlots(t)
  BY DEF Stands, FreeIs
<1>4. \A n \in ActiveSlots(t) : n \in Slots /\ t.uinfo[n].uid \in Users
  BY DEF Stands, Marked, TableType, Entry, ActiveSlots
<1> QED BY <1>1, <1>2, <1>3, <1>4 DEF OfHash, HashValues

\* Finitely many slots are in use.
LEMMA ActiveFinite ==
  ASSUME NEW t
  PROVE  /\ IsFiniteSet(ActiveSlots(t)) /\ ActiveSlots(t) \subseteq Slots
         /\ Cardinality(ActiveSlots(t)) \in Links0
<1>1. IsFiniteSet(Slots) /\ Cardinality(Slots) = N
  BY Numbers, FS_Interval
<1>2. ActiveSlots(t) \subseteq Slots
  BY DEF ActiveSlots
<1>3. /\ IsFiniteSet(ActiveSlots(t))
      /\ Cardinality(ActiveSlots(t)) <= Cardinality(Slots)
  BY <1>1, <1>2, FS_Subset
<1>4. Cardinality(ActiveSlots(t)) \in Nat
  BY <1>3, FS_CardinalityType
<1> QED BY <1>1, <1>2, <1>3, <1>4, Numbers DEF Links0

-----------------------------------------------------------------------------
(* A login. *)

\* Entry i of o is the first one that is not smaller than u.
Place(t, o, u, i) ==
    /\ i \in 1..Len(o)+1
    /\ \A j \in 1..i-1 : t.uinfo[o[j]].uid < u
    /\ i <= Len(o) => t.uinfo[o[i]].uid >= u

LEMMA PlaceExists ==
  ASSUME NEW t \in TableType, NEW o \in Seq(Slots), NEW u \in Users
  PROVE  \E i \in 1..Len(o)+1 : Place(t, o, u, i)
<1> DEFINE T == {j \in 1..Len(o) : t.uinfo[o[j]].uid >= u}
<1>1. \A j \in 1..Len(o) : t.uinfo[o[j]].uid \in Nat
  BY UidsAre
<1>2. u \in Nat /\ Len(o) \in Nat
  BY Numbers
<1>3. CASE T = {}
  <2>1. \A j \in 1..Len(o) : t.uinfo[o[j]].uid < u
    BY <1>1, <1>2, <1>3
  <2>2. Place(t, o, u, Len(o)+1)
    BY <1>2, <2>1 DEF Place
  <2> QED BY <1>2, <2>2
<1>4. CASE T # {}
  <2>1. T \in SUBSET Nat
    OBVIOUS
  <2>2. PICK i \in T : \A j \in T : i <= j
    <3> HIDE DEF T
    <3> QED BY <1>4, <2>1, LeastElement
  <2>3. ASSUME NEW j \in 1..i-1 PROVE t.uinfo[o[j]].uid < u
    <3>1. j \in 1..Len(o) /\ ~(i <= j)
      BY <1>2
    <3>2. j \notin T
      BY <2>2, <3>1
    <3> QED BY <1>1, <1>2, <3>1, <3>2
  <2>4. Place(t, o, u, i)
    BY <1>2, <2>3 DEF Place
  <2> QED BY <1>2, <2>4
<1> QED BY <1>3, <1>4

\* The loop of the code stops at that entry, or round again at the head.
LEMMA InsertBeforeIs ==
  ASSUME NEW t \in TableType, NEW o, OnlineIs(t, o), Len(o) # 0, NEW u \in Users,
         NEW i, Place(t, o, u, i), i # 1
  PROVE  InsertBefore(t, u) = o[IF i = Len(o)+1 THEN 1 ELSE i]
<1> DEFINE L == Len(o)
           w == Walk(t.list_next, t.listhead, N+1)
           stops == {j \in 1..N+1 : w[j] = t.listhead \/ t.uinfo[w[j]].uid >= u}
<1>1. /\ o \in Seq(Slots) /\ Distinct(o) /\ t.listhead = o[1]
      /\ \A j \in 1..L : t.list_next[o[j]] = IF j = L THEN o[1] ELSE o[j+1]
  BY DEF OnlineIs, RingIs
<1>2. L \in 1..N
  BY <1>1, ShortLists
<1>3. \A j \in 1..L : o[j] \in Slots /\ t.uinfo[o[j]].uid \in Nat
  BY <1>1, UidsAre
<1>4. u \in Nat /\ N \in Nat
  BY Numbers
<1>5. i \in 2..L+1
  BY <1>2 DEF Place
<1>6. \A j \in 0..L : w[j] = IF j = L THEN o[1] ELSE o[j+1]
  <2>1. o[1] \in Links0 /\ N+1 \in Nat /\ N+1 >= L
    BY <1>2, <1>3, <1>4, Numbers
  <2> QED BY <1>1, <2>1, WalkAlong DEF TableType
<1> HIDE DEF w
<1>7. w[i-1] = o[IF i = L+1 THEN 1 ELSE i]
  <2>1. i-1 \in 0..L
    BY <1>2, <1>5
  <2>2. CASE i = L+1
    <3>1. i-1 = L
      BY <1>2, <2>2
    <3>2. w[i-1] = o[1]
      BY <1>6, <2>1, <3>1
    <3> QED BY <2>2, <3>2
  <2>3. CASE i # L+1
    <3>1. i-1 # L /\ (i-1)+1 = i
      BY <1>2, <1>5, <2>3
    <3>2. w[i-1] = o[(i-1)+1]
      BY <1>6, <2>1, <3>1
    <3> QED BY <2>3, <3>1, <3>2
  <2> QED BY <2>2, <2>3
<1>8. i-1 \in stops
  <2>1. i-1 \in 1..N+1
    BY <1>2, <1>4, <1>5
  <2>2. CASE i = L+1
    BY <1>1, <1>7, <2>1, <2>2
  <2>3. CASE i # L+1
    <3>1. i <= L
      BY <1>2, <1>5, <2>3
    <3>2. t.uinfo[o[i]].uid >= u
      BY <3>1 DEF Place
    <3> QED BY <1>7, <2>1, <2>3, <3>2
  <2> QED BY <2>2, <2>3
<1>9. \A k \in stops : i-1 <= k
  <2> SUFFICES ASSUME NEW k \in 1..N+1, k < i-1, k \in stops PROVE FALSE
    BY <1>4, <1>5
  <2>1. k+1 \in 2..L /\ k+1 \in 1..i-1 /\ k \in 0..L /\ k # L
    BY <1>2, <1>4, <1>5
  <2>2. w[k] = o[k+1]
    BY <1>6, <2>1
  <2>3. o[k+1] # o[1]
    BY <1>1, <1>2, <2>1 DEF Distinct
  <2>4. t.uinfo[o[k+1]].uid < u /\ t.uinfo[o[k+1]].uid \in Nat
    BY <1>3, <2>1 DEF Place
  <2> QED BY <1>1, <1>4, <2>2, <2>3, <2>4
<1>10. (CHOOSE j \in stops : \A k \in stops : j <= k) = i-1
  <2>1. \A j \in stops : j \in Nat
    OBVIOUS
  <2>2. i-1 \in Nat
    BY <1>5
  <2> HIDE DEF stops
  <2> QED BY <1>8, <1>9, <2>1, <2>2
<1>11. InsertBefore(t, u) = w[CHOOSE j \in stops : \A k \in stops : j <= k]
  BY DEF InsertBefore, w, N
<1> QED BY <1>7, <1>10, <1>11

\* The ring with the new slot in its place.
LEMMA ListInsertIs ==
  ASSUME NEW t \in TableType, NEW o, OnlineIs(t, o), NEW u \in Users,
         NEW i, Place(t, o, u, i), NEW n \in Slots \ Values(o), NEW z, Gains(z, o, i, n),
         NEW s, s = ListInsert(t, n, u)
  PROVE  /\ s \in TableType
         /\ RingIs(s.list_next, s.list_prev, s.listhead, z)
         /\ s.uinfo = t.uinfo /\ s.next = t.next /\ s.hashhead = t.hashhead
         /\ s.number = t.number /\ s.count = t.count
<1>1. o \in Seq(Slots) /\ t.listhead = IF Len(o) = 0 THEN 0 ELSE o[1]
  BY DEF OnlineIs, RingIs
<1>2. n \in Slots /\ n \in Links0 /\ 0 \notin Slots
  BY Numbers
<1>3. CASE Len(o) = 0
  <2>1. s = [t EXCEPT !.list_prev[n] = n, !.list_next[n] = n, !.listhead = n]
    BY <1>1, <1>3 DEF ListInsert
  <2>2. /\ s \in TableType /\ s.list_prev[n] = n /\ s.list_next[n] = n /\ s.listhead = n
        /\ s.uinfo = t.uinfo /\ s.next = t.next /\ s.hashhead = t.hashhead
        /\ s.number = t.number /\ s.count = t.count
    <3>1. PICK my : my = [t.list_next EXCEPT ![n] = n]
      OBVIOUS
    <3>2. PICK vy : vy = [t.list_prev EXCEPT ![n] = n]
      OBVIOUS
    <3>3. s = [t EXCEPT !.list_prev = vy, !.list_next = my, !.listhead = n]
      BY <2>1, <3>1, <3>2
    <3>4. my \in [Slots -> Links0] /\ my[n] = n /\ vy \in [Slots -> Links0] /\ vy[n] = n
      BY <1>2, <3>1, <3>2 DEF TableType
    <3> QED BY <1>2, <3>3, <3>4 DEF TableType
  <2>3. o = <<>> /\ i = 1
    BY <1>1, <1>3 DEF Place
  <2> QED BY <1>2, <2>2, <2>3, RingAlone
<1>4. CASE Len(o) # 0
  <2>1. Len(o) \in Nat \ {0} /\ o[1] \in Slots /\ t.uinfo[o[1]].uid \in Nat /\ u \in Nat
    <3>1. Len(o) \in Nat \ {0} /\ o[1] \in Slots
      BY <1>1, <1>4
    <3> QED BY <3>1, UidsAre, Numbers
  <2>2. t.listhead = o[1] /\ t.listhead # 0
    BY <1>1, <1>2, <1>4, <2>1
  <2>3. t.uinfo[t.listhead].uid >= u <=> i = 1
    <3>1. i = 1 => t.uinfo[o[1]].uid >= u
      BY <2>1 DEF Place
    <3>2. i # 1 => t.uinfo[o[1]].uid < u
      BY <2>1 DEF Place
    <3> QED BY <2>1, <2>2, <3>1, <3>2
  <2>4. PICK c : c = o[IF i = Len(o)+1 THEN 1 ELSE i]
    OBVIOUS
  <2>5. PICK p : p = t.list_prev[c]
    OBVIOUS
  <2>6. c \in Slots /\ p \in Values(o) /\ p \in Slots /\ p # n
    <3>1. PICK k \in 1..Len(o) : c = o[k]
      BY <2>1, <2>4 DEF Place
    <3>2. p = o[IF k = 1 THEN Len(o) ELSE k-1]
      BY <2>5, <3>1 DEF OnlineIs, RingIs
    <3>3. (IF k = 1 THEN Len(o) ELSE k-1) \in 1..Len(o)
      BY <2>1
    <3> QED BY <1>1, <3>1, <3>2, <3>3, ValuesOf
  <2>7. (IF i = 1 THEN t.listhead ELSE InsertBefore(t, u)) = c
    <3>1. CASE i = 1
      BY <2>1, <2>2, <2>4, <3>1
    <3>2. CASE i # 1
      BY <1>4, <2>4, <3>2, InsertBeforeIs
    <3> QED BY <3>1, <3>2
  <2>8. PICK my : my = [t.list_next EXCEPT ![n] = c, ![p] = n]
    OBVIOUS
  <2>9. PICK vy : vy = [t.list_prev EXCEPT ![n] = p, ![c] = n]
    OBVIOUS
  <2>10. s = [t EXCEPT !.list_prev = vy, !.list_next = my,
                       !.listhead = IF i = 1 THEN n ELSE t.listhead]
    BY <2>2, <2>3, <2>5, <2>7, <2>8, <2>9 DEF ListInsert
  <2>11. /\ my \in [Slots -> Links0] /\ my[n] = c /\ my[p] = n
         /\ \A m \in Values(o) \ {p} : my[m] = t.list_next[m]
    <3>1. t.list_next \in [Slots -> Links0] /\ c \in Links0 /\ Values(o) \subseteq Slots
      BY <1>1, <2>6, Numbers, ValuesOf DEF TableType
    <3> QED BY <1>2, <2>6, <2>8, <3>1
  <2>12. /\ vy \in [Slots -> Links0] /\ vy[n] = p /\ vy[c] = n
         /\ \A m \in Values(o) \ {c} : vy[m] = t.list_prev[m]
    <3>1. t.list_prev \in [Slots -> Links0] /\ p \in Links0 /\ Values(o) \subseteq Slots
      BY <1>1, <2>6, Numbers, ValuesOf DEF TableType
    <3>2. c # n
      BY <1>1, <2>1, <2>4, ValuesOf DEF Place
    <3> QED BY <1>2, <2>6, <2>9, <3>1, <3>2
  <2>13. /\ s \in TableType /\ s.list_prev = vy /\ s.list_next = my
         /\ s.listhead = (IF i = 1 THEN n ELSE t.listhead)
         /\ s.uinfo = t.uinfo /\ s.next = t.next /\ s.hashhead = t.hashhead
         /\ s.number = t.number /\ s.count = t.count
    BY <1>2, <2>10, <2>11, <2>12 DEF TableType
  <2>14. RingIs(my, vy, IF i = 1 THEN n ELSE t.listhead, z)
    <3>1. RingIs(t.list_next, t.list_prev, t.listhead, o) /\ i \in 1..Len(o)+1
      BY DEF OnlineIs, Place
    <3> QED BY <1>4, <2>4, <2>5, <2>11, <2>12, <3>1, RingPut
  <2> QED BY <2>13, <2>14
<1> QED BY <1>3, <1>4

\* Names still ascend.
LEMMA AscendingPut ==
  ASSUME NEW t \in TableType, NEW o, OnlineIs(t, o), NEW u \in Users,
         NEW i, Place(t, o, u, i), NEW n \in Slots \ Values(o), NEW z, Gains(z, o, i, n),
         NEW s, s.uinfo[n].uid = u, \A m \in Values(o) : s.uinfo[m].uid = t.uinfo[m].uid
  PROVE  Ascending(s, z)
<1> DEFINE L == Len(o)
           U(j) == t.uinfo[o[j]].uid
           V(j) == s.uinfo[z[j]].uid
<1>1. o \in Seq(Slots) /\ L \in Nat /\ i \in 1..L+1 /\ u \in Nat
  BY Numbers DEF OnlineIs, RingIs, Place
<1>2. \A j \in 1..L : o[j] \in Values(o) /\ U(j) \in Nat
  BY <1>1, ValuesOf, UidsAre
<1>3. \A j, k \in 1..L : j < k => U(j) <= U(k)
  BY DEF OnlineIs, Ascending
<1>4. /\ \A j \in 1..i-1 : U(j) < u
      /\ i <= L => U(i) >= u
  BY DEF Place
<1>5. /\ Len(z) = L+1
      /\ \A j \in 1..L+1 : z[j] = IF j < i THEN o[j] ELSE IF j = i THEN n ELSE o[j-1]
  BY DEF Gains
<1>6. \A j \in 1..L+1 : V(j) = IF j < i THEN U(j) ELSE IF j = i THEN u ELSE U(j-1)
  <2> TAKE j \in 1..L+1
  <2>1. CASE j < i
    <3>1. j \in 1..L /\ z[j] = o[j]
      BY <1>1, <1>5, <2>1
    <3> QED BY <1>2, <2>1, <3>1
  <2>2. CASE j = i
    BY <1>5, <2>2
  <2>3. CASE j > i
    <3>1. j-1 \in 1..L /\ z[j] = o[j-1]
      BY <1>1, <1>5, <2>3
    <3> QED BY <1>1, <1>2, <2>3, <3>1
  <2> QED BY <1>1, <2>1, <2>2, <2>3
<1> HIDE DEF U, V, L
<1>7. \A j \in i..L : u <= U(j)
  <2> TAKE j \in i..L
  <2>1. i \in 1..L /\ j \in 1..L /\ U(i) >= u
    BY <1>1, <1>4
  <2>2. U(i) <= U(j)
    BY <1>1, <1>2, <1>3, <2>1
  <2> QED BY <1>1, <1>2, <2>1, <2>2
<1>8. ASSUME NEW j \in 1..L+1, NEW k \in 1..L+1, j < k PROVE V(j) <= V(k)
  <2>1. CASE k < i
    <3>1. j \in 1..L /\ k \in 1..L /\ j < i
      BY <1>1, <1>8, <2>1
    <3> QED BY <1>3, <1>6, <1>8, <2>1, <3>1
  <2>2. CASE k = i
    <3>1. j \in 1..i-1 /\ j \in 1..L /\ j < i
      BY <1>1, <1>8, <2>2
    <3> QED BY <1>1, <1>2, <1>4, <1>6, <2>2, <3>1
  <2>3. CASE k > i /\ j < i
    <3>1. j \in 1..i-1 /\ j \in 1..L /\ k-1 \in i..L /\ k-1 \in 1..L
      BY <1>1, <1>8, <2>3
    <3>2. U(j) < u /\ u <= U(k-1) /\ V(j) = U(j) /\ V(k) = U(k-1)
      BY <1>1, <1>4, <1>6, <1>7, <2>3, <3>1
    <3> QED BY <1>1, <1>2, <3>1, <3>2
  <2>4. CASE k > i /\ j = i
    <3>1. k-1 \in i..L
      BY <1>1, <1>8, <2>4
    <3> QED BY <1>1, <1>6, <1>7, <2>4, <3>1
  <2>5. CASE k > i /\ j > i
    <3>1. k-1 \in 1..L /\ j-1 \in 1..L /\ j-1 < k-1
      BY <1>1, <1>8, <2>5
    <3> QED BY <1>1, <1>3, <1>6, <2>5, <3>1
  <2> QED BY <1>1, <2>1, <2>2, <2>3, <2>4, <2>5
<1> QED BY <1>5, <1>8 DEF Ascending, V, L

\* A counter goes up by one and wraps.
LEMMA BumpIs ==
  ASSUME NEW t \in TableType, NEW c \in Counters
  PROVE  /\ Bump(t, c) \in [Counters -> 0..CounterMod-1]
         /\ \A d \in Counters : d # c => Bump(t, c)[d] = t.count[d]
         /\ \/ Bump(t, c)[c] = t.count[c] + 1
            \/ Bump(t, c)[c] = t.count[c] + 1 - CounterMod
<1>1. t.count \in [Counters -> 0..CounterMod-1] /\ CounterMod \in Nat \ {0}
  BY Numbers DEF TableType
<1>2. PICK v : v = t.count[c]
  OBVIOUS
<1>3. Bump(t, c) = [t.count EXCEPT ![c] = (v + 1) % CounterMod]
  BY <1>2 DEF Bump
<1>4. v \in 0..CounterMod-1
  BY <1>1, <1>2
<1>5. (v + 1) % CounterMod = IF v + 1 = CounterMod THEN 0 ELSE v + 1
  <2>1. v + 1 \in 0..CounterMod
    BY <1>1, <1>4
  <2>2. \A M \in Nat \ {0} : \A a \in 0..M : a % M = IF a = M THEN 0 ELSE a
    OBVIOUS
  <2> QED BY <1>1, <2>1, <2>2
<1>6. PICK y : y = (v + 1) % CounterMod
  OBVIOUS
<1>7. y \in 0..CounterMod-1 /\ (y = v + 1 \/ y = v + 1 - CounterMod)
  BY <1>1, <1>4, <1>5, <1>6
<1> QED BY <1>1, <1>2, <1>3, <1>6, <1>7

\* What a login of entry e makes of the lists, z being the new ring.
LoginGives(t, f, z, b, e, c) ==
    /\ NewSlot(t) = f[1] /\ f[1] \in Slots \ ActiveSlots(t)
    /\ NewUtmpEnt(t, e, c).uinfo = [t.uinfo EXCEPT ![f[1]] = e]
    /\ Stands(NewUtmpEnt(t, e, c), Tail(f), z, [b EXCEPT ![Hash[e.uid]] = <<f[1]>> \o @])

\* getnewutmpent(): the slot freed last becomes the entry e.
LEMMA LoginStands ==
  ASSUME NEW t, NEW f, NEW o, NEW b, Stands(t, f, o, b), Len(f) # 0,
         NEW e \in Entry, e.active, e.uid \in Users, NEW c \in {"login", "wwwlogin"},
         NEW i, Place(t, o, e.uid, i), NEW z, Gains(z, o, i, f[1])
  PROVE  LoginGives(t, f, z, b, e, c)
<1> DEFINE n == f[1]
           u == e.uid
           H == Hash[u]
           bb == [b EXCEPT ![H] = <<n>> \o @]
<1>0. PICK x : x = NewUtmpEnt(t, e, c)
  OBVIOUS
<1>1. t \in TableType /\ OnlineIs(t, o) /\ FreeIs(t, f) /\ HashedIs(t, b)
      /\ Marked(t) /\ Counted(t)
  BY DEF Stands
<1>2. /\ f \in Seq(Slots) /\ t.hashhead[0] = n /\ n \in Slots
      /\ t.next[n] = IF 1 = Len(f) THEN 0 ELSE f[2]
      /\ ChainIs(t.next, t.hashhead[0], f)
  <2>1. ChainIs(t.next, t.hashhead[0], f) /\ f \in Seq(Slots)
    BY <1>1 DEF FreeIs, ChainIs
  <2>2. Len(f) \in Nat \ {0}
    BY <2>1
  <2>3. n \in Slots /\ 1 \in 1..Len(f) /\ 1+1 = 2
    BY <2>1, <2>2
  <2>4. t.next[f[1]] = IF 1 = Len(f) THEN 0 ELSE f[1+1]
    BY <2>1, <2>3 DEF ChainIs
  <2>5. t.hashhead[0] = n
    BY <2>1 DEF ChainIs
  <2> QED BY <2>1, <2>3, <2>4, <2>5
<1>3. n \in Slots \ ActiveSlots(t) /\ Values(o) = ActiveSlots(t)
  BY <1>1, <1>2, ValuesOf DEF FreeIs, OnlineIs
<1>4. NewSlot(t) = n
  BY <1>2 DEF NewSlot
<1>5. H \in HashValues /\ H # 0
  BY Numbers DEF HashValues
<1>6. PICK s : s = ListInsert(t, n, u)
  OBVIOUS
<1>7. /\ s \in TableType
      /\ RingIs(s.list_next, s.list_prev, s.listhead, z)
      /\ s.uinfo = t.uinfo /\ s.next = t.next /\ s.hashhead = t.hashhead
      /\ s.number = t.number /\ s.count = t.count
  BY <1>1, <1>3, <1>6, ListInsertIs
<1>8. PICK nn : nn = [t.next EXCEPT ![n] = t.hashhead[H]]
  OBVIOUS
<1>9. PICK hh : hh = [t.hashhead EXCEPT ![0] = t.next[n], ![H] = n]
  OBVIOUS
<1>10. PICK ui : ui = [t.uinfo EXCEPT ![n] = e]
  OBVIOUS
<1>11. x = [s EXCEPT !.uinfo = ui, !.next = nn, !.hashhead = hh,
                     !.number = t.number + 1, !.count = Bump(t, c)]
  BY <1>0, <1>4, <1>6, <1>7, <1>8, <1>9, <1>10 DEF NewUtmpEnt, TableType
<1>12. /\ x.uinfo = ui /\ x.next = nn /\ x.hashhead = hh /\ x.number = t.number + 1
       /\ x.count = Bump(t, c) /\ x.list_next = s.list_next /\ x.list_prev = s.list_prev
       /\ x.listhead = s.listhead
       /\ x = [ uinfo |-> ui, next |-> nn, hashhead |-> hh, listhead |-> s.listhead,
                list_prev |-> s.list_prev, list_next |-> s.list_next,
                number |-> t.number + 1, count |-> Bump(t, c) ]
  BY <1>7, <1>11 DEF TableType
<1>13. /\ nn \in [Slots -> Links0] /\ nn[n] = t.hashhead[H]
       /\ \A m \in Slots \ {n} : nn[m] = t.next[m]
  BY <1>1, <1>2, <1>5, <1>8 DEF TableType
<1>14. /\ hh \in [HashValues \cup {0} -> Links0] /\ hh[0] = t.next[n] /\ hh[H] = n
       /\ \A h \in HashValues \ {H} : hh[h] = t.hashhead[h]
  <2>1. t.next[n] \in Links0 /\ n \in Links0 /\ 0 \notin HashValues
    BY <1>1, <1>2, Numbers DEF TableType, HashValues
  <2> QED BY <1>1, <1>5, <1>9, <2>1 DEF TableType
<1>15. /\ ui \in [Slots -> Entry] /\ ui[n] = e /\ \A m \in Slots \ {n} : ui[m] = t.uinfo[m]
  BY <1>1, <1>2, <1>10 DEF TableType
<1>16. ActiveSlots(x) = ActiveSlots(t) \cup {n}
  BY <1>2, <1>12, <1>15 DEF ActiveSlots
<1>17. Counted(x) /\ x.number \in Links0
  <2>1. Cardinality(ActiveSlots(x)) = Cardinality(ActiveSlots(t)) + 1
    BY <1>3, <1>16, ActiveFinite, FS_AddElement
  <2>2. x.number = Cardinality(ActiveSlots(x)) /\ x.number \in Links0
    BY <1>1, <1>12, <2>1, ActiveFinite DEF Counted
  <2>3. PICK k \in Int : Balance(t) = k * CounterMod
    BY <1>1 DEF Counted
  <2>4. \E j \in Int : Balance(x) = j * CounterMod
    <3> DEFINE C == t.count
               D == x.count
    <3>1. /\ \A d \in Counters : C[d] \in Int
          /\ t.number \in Int /\ CounterMod \in Int
      BY <1>1, Numbers DEF TableType, Links0
    <3>2. /\ \A d \in Counters : d # c => D[d] = C[d]
          /\ D[c] = C[c] + 1 \/ D[c] = C[c] + 1 - CounterMod
      BY <1>1, <1>12, BumpIs DEF Counters
    <3> HIDE DEF C, D
    <3>3. Balance(t) = C["login"] + C["wwwlogin"] - C["logout"] - C["wwwlogout"] - t.number
      BY DEF Balance, C
    <3>4. Balance(x) = D["login"] + D["wwwlogin"] - D["logout"] - D["wwwlogout"] - (t.number + 1)
      BY <1>12 DEF Balance, D
    <3>5. Balance(x) = Balance(t) \/ Balance(x) = Balance(t) - CounterMod
      <4>1. PICK p1 \in Int, p2 \in Int, q1 \in Int, q2 \in Int, m \in Int, M \in Int :
              /\ p1 = C["login"] /\ p2 = C["wwwlogin"] /\ q1 = C["logout"]
              /\ q2 = C["wwwlogout"] /\ m = t.number /\ M = CounterMod
        BY <3>1 DEF Counters
      <4>2. Balance(t) = p1 + p2 - q1 - q2 - m
        BY <3>3, <4>1
      <4>3. D["logout"] = q1 /\ D["wwwlogout"] = q2
        BY <3>2, <4>1 DEF Counters
      <4>4. \/ D["login"] = p1 + 1 /\ D["wwwlogin"] = p2
            \/ D["login"] = p1 + 1 - M /\ D["wwwlogin"] = p2
            \/ D["login"] = p1 /\ D["wwwlogin"] = p2 + 1
            \/ D["login"] = p1 /\ D["wwwlogin"] = p2 + 1 - M
        BY <3>2, <4>1 DEF Counters
      <4>5. PICK d1, d2 : d1 = D["login"] /\ d2 = D["wwwlogin"]
        OBVIOUS
      <4>6. Balance(x) = d1 + d2 - q1 - q2 - (m + 1)
        BY <3>4, <4>1, <4>3, <4>5
      <4>7. \/ d1 = p1 + 1 /\ d2 = p2
            \/ d1 = p1 + 1 - M /\ d2 = p2
            \/ d1 = p1 /\ d2 = p2 + 1
            \/ d1 = p1 /\ d2 = p2 + 1 - M
        BY <4>4, <4>5
      <4>8. \/ d1 + d2 - q1 - q2 - (m + 1) = p1 + p2 - q1 - q2 - m
            \/ d1 + d2 - q1 - q2 - (m + 1) = p1 + p2 - q1 - q2 - m - M
        BY <4>7
      <4>9. PICK B0 \in Int : B0 = p1 + p2 - q1 - q2 - m
        OBVIOUS
      <4>10. Balance(x) = B0 \/ Balance(x) = B0 - M
        BY <4>6, <4>8, <4>9
      <4>11. Balance(t) = B0 /\ M = CounterMod
        BY <4>1, <4>2, <4>9
      <4> HIDE DEF Balance
      <4> QED BY <4>10, <4>11
    <3>6. Balance(x) = k * CounterMod \/ Balance(x) = (k-1) * CounterMod
      BY <2>3, <3>1, <3>5
    <3> QED BY <3>6
  <2> QED BY <2>2, <2>4 DEF Counted
<1>18. x \in TableType
  <2>1. Bump(t, c) \in [Counters -> 0..CounterMod-1]
    BY <1>1, BumpIs DEF Counters
  <2>2. t.number + 1 \in Links0
    BY <1>12, <1>17
  <2> QED BY <1>7, <1>12, <1>13, <1>14, <1>15, <2>1, <2>2 DEF TableType
<1>19. FreeIs(x, Tail(f))
  <2>1. ChainIs(nn, t.next[n], Tail(f)) /\ Values(Tail(f)) = Values(f) \ {n}
    <3>1. \A m \in Values(f) \ {f[1]} : nn[m] = t.next[m]
      BY <1>2, <1>13, ValuesOf
    <3> QED BY <1>2, <3>1, ChainTail
  <2>2. Values(Tail(f)) = Slots \ ActiveSlots(x)
    BY <1>1, <1>16, <2>1 DEF FreeIs
  <2> QED BY <1>12, <1>14, <2>1, <2>2 DEF FreeIs
<1>20. OnlineIs(x, z)
  <2>1. RingIs(x.list_next, x.list_prev, x.listhead, z)
    BY <1>7, <1>12
  <2>2. Values(z) = ActiveSlots(x)
    <3>1. o \in Seq(Slots) /\ Distinct(o) /\ i \in 1..Len(o)+1
      BY <1>1 DEF OnlineIs, RingIs, Place
    <3> QED BY <1>3, <1>16, <3>1, GainsOne
  <2>3. Ascending(x, z)
    <3>1. \A m \in Values(o) : x.uinfo[m].uid = t.uinfo[m].uid
      BY <1>3, <1>12, <1>15 DEF ActiveSlots
    <3>2. x.uinfo[n].uid = u
      BY <1>12, <1>15
    <3> QED BY <1>1, <1>3, <3>1, <3>2, AscendingPut
  <2> QED BY <2>1, <2>2, <2>3 DEF OnlineIs
<1>21. HashedIs(x, bb)
  <2>1. b \in [HashValues -> Seq(Slots)]
    BY <1>1 DEF HashedIs
  <2>2. PICK y : y = <<n>> \o b[H]
    OBVIOUS
  <2>3. bb = [b EXCEPT ![H] = y]
    BY <2>2
  <2>4. \A h \in HashValues : /\ ChainIs(t.next, t.hashhead[h], b[h])
                              /\ Values(b[h]) = OfHash(t, h) /\ n \notin Values(b[h])
                              /\ Values(b[h]) \subseteq Slots
    BY <1>1, <1>3, Numbers DEF HashedIs, OfHash, ActiveSlots
  <2>5. ChainIs(nn, n, y) /\ Values(y) = OfHash(t, H) \cup {n} /\ y \in Seq(Slots)
    <3>1. \A m \in Values(b[H]) : nn[m] = t.next[m]
      BY <1>5, <1>13, <2>4
    <3>2. n \in Slots \ Values(b[H]) /\ ChainIs(t.next, t.hashhead[H], b[H])
      BY <1>2, <1>5, <2>4
    <3>3. ChainIs(nn, n, y) /\ Values(y) = Values(b[H]) \cup {n}
      BY <1>13, <2>2, <3>1, <3>2, ChainPush
    <3> QED BY <1>5, <2>4, <3>3 DEF ChainIs
  <2>6. OfHash(x, H) = OfHash(t, H) \cup {n}
    BY <1>2, <1>3, <1>12, <1>15, <1>16 DEF OfHash, ActiveSlots
  <2>7. ASSUME NEW h \in HashValues \ {H}
        PROVE  ChainIs(nn, t.hashhead[h], b[h]) /\ Values(b[h]) = OfHash(x, h)
    <3>1. \A m \in Values(b[h]) : nn[m] = t.next[m]
      BY <1>13, <2>4
    <3>2. ChainIs(nn, t.hashhead[h], b[h])
      BY <2>4, <3>1, ChainKept
    <3>3. OfHash(x, h) = OfHash(t, h)
      BY <1>3, <1>12, <1>15, <1>16 DEF OfHash, ActiveSlots
    <3> QED BY <2>4, <3>2, <3>3
  <2>8. bb \in [HashValues -> Seq(Slots)] /\ bb[H] = y
        /\ \A h \in HashValues \ {H} : bb[h] = b[h]
    BY <1>5, <2>1, <2>3, <2>5
  <2> HIDE DEF bb
  <2>9. ASSUME NEW h \in HashValues
        PROVE  ChainIs(x.next, x.hashhead[h], bb[h]) /\ Values(bb[h]) = OfHash(x, h)
    <3>0. x.next = nn /\ x.hashhead[h] = hh[h]
      BY <1>12
    <3>1. CASE h = H
      BY <1>14, <2>5, <2>6, <2>8, <3>0, <3>1
    <3>2. CASE h # H
      <4>1. hh[h] = t.hashhead[h] /\ bb[h] = b[h]
        BY <1>14, <2>8, <3>2
      <4> QED BY <2>7, <3>0, <3>2, <4>1
    <3> QED BY <3>1, <3>2
  <2> QED BY <2>8, <2>9 DEF HashedIs
<1>22. Marked(x)
  <2>1. u # 0
    BY Numbers
  <2> QED BY <1>1, <1>12, <1>15, <2>1 DEF Marked
<1>23. Stands(x, Tail(f), z, bb)
  BY <1>17, <1>18, <1>19, <1>20, <1>21, <1>22 DEF Stands
<1> QED BY <1>0, <1>3, <1>4, <1>10, <1>12, <1>23 DEF LoginGives

-----------------------------------------------------------------------------
(* A logout. *)

\* Whatever becomes of n's own link, the arrays stand for L without n.
WithoutIn(nx, hd, L, n) ==
    \A nn : (\A m \in Slots \ {n} : nn[m] = nx[m])
              => /\ ChainIs(nn, hd, Table!Drop(L, n))
                 /\ Values(Table!Drop(L, n)) = Values(L) \ {n}

\* r is t but for the links of the hash lists.
Relinked(r, t) == r = [t EXCEPT !.next = r.next, !.hashhead = r.hashhead]

\* s is t with n taken out of the list of hash value H.
HashedOut(t, b, n, H, s) ==
    /\ H \in HashValues /\ n \in Values(b[H]) /\ Relinked(s, t)
    /\ s.next \in [Slots -> Links0] /\ s.hashhead \in [HashValues \cup {0} -> Links0]
    /\ \A m \in Slots \ Values(b[H]) : s.next[m] = t.next[m]
    /\ \A h \in (HashValues \cup {0}) \ {H} : s.hashhead[h] = t.hashhead[h]
    /\ WithoutIn(s.next, s.hashhead[H], b[H], n)

\* A slot is taken out of its user's hash list.
LEMMA HashRemoveIs ==
  ASSUME NEW t, NEW f, NEW o, NEW b, Stands(t, f, o, b), NEW n \in ActiveSlots(t)
  PROVE  HashedOut(t, b, n, Hash[t.uinfo[n].uid], HashRemove(t, n))
<1>a. PICK H : H = Hash[t.uinfo[n].uid]
  OBVIOUS
<1>b. PICK s : s = HashRemove(t, n)
  OBVIOUS
<1>0. PICK L : L = b[H]
  OBVIOUS
<1>1. t \in TableType /\ HashedIs(t, b) /\ n \in Slots
  BY DEF Stands, ActiveSlots
<1>2. H \in HashValues /\ H # 0 /\ t.uinfo[n].uid # 0
  BY <1>a, ListsApart, Numbers
<1>3. n \in Values(L) /\ ChainIs(t.next, t.hashhead[H], L)
  BY <1>0, <1>1, <1>2, <1>a DEF HashedIs, OfHash
<1>4. /\ L \in Seq(Slots) /\ Distinct(L)
      /\ t.hashhead[H] = IF Len(L) = 0 THEN 0 ELSE L[1]
      /\ \A j \in 1..Len(L) : t.next[L[j]] = IF j = Len(L) THEN 0 ELSE L[j+1]
  BY <1>3 DEF ChainIs
<1>5. PICK i \in 1..Len(L) : n = L[i]
  BY <1>3, <1>4, ValuesOf
<1>6. Chain(t.next, t.hashhead[H], N) = L
  <2>1. N \in Nat /\ N >= N
    BY Numbers
  <2>2. \A h \in HashValues : Chain(t.next, t.hashhead[h], N) = b[h]
    BY <2>1, Reads
  <2> QED BY <1>0, <1>2, <2>2
<1>7. {j \in DOMAIN L : L[j] = n} = {i}
  <2>1. DOMAIN L = 1..Len(L) /\ \A j \in 1..Len(L) : L[j] = L[i] => j = i
    BY <1>4, <1>5 DEF Distinct
  <2> QED BY <1>5, <2>1
<1>8. HashOf(t.uinfo[n].uid) = H
  BY <1>2, <1>a DEF HashOf
<1>9. t.next[n] \in Links0 /\ t.next \in [Slots -> Links0]
      /\ t.hashhead \in [HashValues \cup {0} -> Links0]
  BY <1>1 DEF TableType
<1>10. s = IF 1 \in {i} THEN [t EXCEPT !.hashhead[H] = t.next[n]]
           ELSE [t EXCEPT !.next[L[i-1]] = t.next[n]]
  <2>1. (CHOOSE j \in {i} : TRUE) = i /\ {i} # {}
    OBVIOUS
  <2>2. HashRemove(t, n) =
          IF {i} = {} THEN t
          ELSE IF 1 \in {i} THEN [t EXCEPT !.hashhead[H] = t.next[n]]
          ELSE [t EXCEPT !.next[L[(CHOOSE j \in {i} : TRUE) - 1]] = t.next[n]]
    <3> QED BY <1>6, <1>7, <1>8 DEF HashRemove, N
  <2> QED BY <1>b, <2>1, <2>2
<1>11. ASSUME i = 1 PROVE HashedOut(t, b, n, H, s)
  <2>1. PICK hh : hh = [t.hashhead EXCEPT ![H] = t.next[n]]
    OBVIOUS
  <2>2. s = [t EXCEPT !.hashhead = hh]
    BY <1>10, <1>11, <2>1
  <2>3. s.next = t.next /\ s.hashhead = hh /\ Relinked(s, t)
    BY <1>1, <2>2 DEF TableType, Relinked
  <2>4. /\ hh \in [HashValues \cup {0} -> Links0] /\ hh[H] = t.next[n]
        /\ \A h \in (HashValues \cup {0}) \ {H} : hh[h] = t.hashhead[h]
    BY <1>2, <1>9, <2>1
  <2>5. WithoutIn(s.next, s.hashhead[H], L, n)
    <3> SUFFICES ASSUME NEW nn, \A m \in Slots \ {n} : nn[m] = s.next[m]
                 PROVE  /\ ChainIs(nn, s.hashhead[H], Table!Drop(L, n))
                        /\ Values(Table!Drop(L, n)) = Values(L) \ {n}
      BY DEF WithoutIn
    <3>1. ASSUME NEW j \in 1..Len(L), j # i
          PROVE  nn[L[j]] = IF j = i-1 THEN t.next[L[i]] ELSE t.next[L[j]]
      <4>1. \A k \in 1..Len(L) : k # i => L[k] \in Slots \ {n}
        BY <1>4, <1>5 DEF Distinct
      <4> QED BY <1>11, <2>3, <3>1, <4>1
    <3>2. s.hashhead[H] = IF i = 1 THEN t.next[L[i]] ELSE t.hashhead[H]
      BY <1>5, <1>11, <2>3, <2>4
    <3>3. /\ ChainIs(nn, IF i = 1 THEN t.next[L[i]] ELSE t.hashhead[H], Table!Drop(L, L[i]))
          /\ Values(Table!Drop(L, L[i])) = Values(L) \ {L[i]}
      BY <1>3, <3>1, ChainDrop
    <3> QED BY <1>5, <3>2, <3>3
  <2> QED BY <1>0, <1>2, <1>3, <1>9, <2>3, <2>4, <2>5 DEF HashedOut
<1>12. ASSUME i # 1 PROVE HashedOut(t, b, n, H, s)
  <2>0. i-1 \in 1..Len(L) /\ L[i-1] \in Slots /\ L[i-1] \in Values(L)
    <3>1. i-1 \in 1..Len(L)
      BY <1>4, <1>5, <1>12
    <3> QED BY <1>4, <3>1, ValuesOf
  <2>1. PICK nx : nx = [t.next EXCEPT ![L[i-1]] = t.next[n]]
    OBVIOUS
  <2>2. s = [t EXCEPT !.next = nx]
    BY <1>10, <1>12, <2>1
  <2>3. s.next = nx /\ s.hashhead = t.hashhead /\ Relinked(s, t)
    BY <1>1, <2>2 DEF TableType, Relinked
  <2>4. /\ nx \in [Slots -> Links0] /\ nx[L[i-1]] = t.next[n]
        /\ \A m \in Slots \ {L[i-1]} : nx[m] = t.next[m]
    BY <1>9, <2>0, <2>1
  <2>5. WithoutIn(s.next, s.hashhead[H], L, n)
    <3> SUFFICES ASSUME NEW nn, \A m \in Slots \ {n} : nn[m] = s.next[m]
                 PROVE  /\ ChainIs(nn, s.hashhead[H], Table!Drop(L, n))
                        /\ Values(Table!Drop(L, n)) = Values(L) \ {n}
      BY DEF WithoutIn
    <3>1. ASSUME NEW j \in 1..Len(L), j # i
          PROVE  nn[L[j]] = IF j = i-1 THEN t.next[L[i]] ELSE t.next[L[j]]
      <4>1. L[j] \in Slots \ {n} /\ (L[j] = L[i-1] <=> j = i-1)
        <5>1. \A k \in 1..Len(L) : L[j] = L[k] => j = k
          BY <1>4 DEF Distinct
        <5>2. L[j] \in Slots
          BY <1>4
        <5> QED BY <1>5, <2>0, <3>1, <5>1, <5>2
      <4>2. nn[L[j]] = nx[L[j]]
        BY <2>3, <4>1
      <4> QED BY <1>5, <2>4, <4>1, <4>2
    <3>2. s.hashhead[H] = IF i = 1 THEN t.next[L[i]] ELSE t.hashhead[H]
      BY <1>12, <2>3
    <3>3. /\ ChainIs(nn, IF i = 1 THEN t.next[L[i]] ELSE t.hashhead[H], Table!Drop(L, L[i]))
          /\ Values(Table!Drop(L, L[i])) = Values(L) \ {L[i]}
      BY <1>3, <3>1, ChainDrop
    <3> QED BY <1>5, <3>2, <3>3
  <2>6. \A m \in Slots \ Values(L) : nx[m] = t.next[m]
    BY <2>0, <2>4
  <2> QED BY <1>0, <1>2, <1>3, <1>9, <2>3, <2>4, <2>5, <2>6 DEF HashedOut
<1> QED BY <1>a, <1>b, <1>11, <1>12

\* s is r with n taken out of the ring o of t.
RingOut(t, r, o, n, s) ==
    /\ s \in TableType /\ s.next = r.next /\ s.hashhead = r.hashhead
    /\ s.uinfo = t.uinfo /\ s.number = t.number /\ s.count = t.count
    /\ RingIs(s.list_next, s.list_prev, s.listhead, Table!Drop(o, n))
    /\ Values(Table!Drop(o, n)) = Values(o) \ {n}
    /\ \E i \in 1..Len(o) : Lacks(Table!Drop(o, n), o, i)

\* A slot is taken out of the ring.
LEMMA ListRemoveIs ==
  ASSUME NEW t \in TableType, NEW o, OnlineIs(t, o), NEW n \in ActiveSlots(t),
         NEW r, Relinked(r, t), r.next \in [Slots -> Links0],
         r.hashhead \in [HashValues \cup {0} -> Links0]
  PROVE  RingOut(t, r, o, n, ListRemove(r, n))
<1>0. PICK s : s = ListRemove(r, n)
  OBVIOUS
<1>1. /\ o \in Seq(Slots) /\ Distinct(o) /\ Values(o) = ActiveSlots(t)
      /\ RingIs(t.list_next, t.list_prev, t.listhead, o) /\ n \in Slots
  BY DEF OnlineIs, RingIs, ActiveSlots
<1>2. PICK i \in 1..Len(o) : n = o[i]
  BY <1>1, ValuesOf
<1>3. Lacks(Table!Drop(o, n), o, i)
  BY <1>1, <1>2, Dropped
<1>4. Values(Table!Drop(o, n)) = Values(o) \ {n}
  BY <1>1, <1>2, <1>3, LeftOver
<1>5. PICK p, q : p = t.list_prev[n] /\ q = t.list_next[n]
  OBVIOUS
<1>6. p \in Links0 /\ q \in Links0
  BY <1>1, <1>5 DEF TableType
<1>7. PICK my : my = [t.list_next EXCEPT ![p] = q]
  OBVIOUS
<1>8. PICK vy : vy = [t.list_prev EXCEPT ![q] = p]
  OBVIOUS
<1>9. PICK lh : lh = IF t.listhead # n THEN t.listhead ELSE IF q = n THEN 0 ELSE q
  OBVIOUS
<1>a. PICK nx, hh : nx = r.next /\ hh = r.hashhead
  OBVIOUS
<1>b. r = [t EXCEPT !.next = nx, !.hashhead = hh]
  BY <1>a DEF Relinked
<1>10. r.list_prev = t.list_prev /\ r.list_next = t.list_next /\ r.listhead = t.listhead
  BY <1>b DEF TableType
<1>11. s = [r EXCEPT !.listhead = lh, !.list_next = my, !.list_prev = vy]
  BY <1>0, <1>5, <1>7, <1>8, <1>9, <1>10 DEF ListRemove
<1>12. /\ my \in [Slots -> Links0] /\ \A m \in Slots : my[m] = IF m = p THEN q ELSE t.list_next[m]
       /\ vy \in [Slots -> Links0] /\ \A m \in Slots : vy[m] = IF m = q THEN p ELSE t.list_prev[m]
       /\ lh \in Links0
  BY <1>6, <1>7, <1>8, <1>9, Numbers DEF TableType
<1>13. /\ s \in TableType /\ s.next = r.next /\ s.hashhead = r.hashhead
       /\ s.uinfo = t.uinfo /\ s.number = t.number /\ s.count = t.count
       /\ s.list_next = my /\ s.list_prev = vy /\ s.listhead = lh
  <2>1. nx \in [Slots -> Links0] /\ hh \in [HashValues \cup {0} -> Links0]
    BY <1>a
  <2>2. s = [t EXCEPT !.next = nx, !.hashhead = hh, !.listhead = lh, !.list_next = my,
                      !.list_prev = vy]
    BY <1>b, <1>11 DEF TableType
  <2> QED BY <1>a, <1>12, <2>1, <2>2 DEF TableType
<1>14. RingIs(my, vy, lh, Table!Drop(o, n))
  <2>1. Values(o) \subseteq Slots
    BY <1>1, ValuesOf
  <2>2. \A m \in Values(o) \ {o[i]} :
          my[m] = IF m = t.list_prev[o[i]] THEN t.list_next[o[i]] ELSE t.list_next[m]
    BY <1>2, <1>5, <1>12, <2>1
  <2>3. \A m \in Values(o) \ {o[i]} :
          vy[m] = IF m = t.list_next[o[i]] THEN t.list_prev[o[i]] ELSE t.list_prev[m]
    BY <1>2, <1>5, <1>12, <2>1
  <2>4. lh = IF t.listhead # o[i] THEN t.listhead
             ELSE IF t.list_next[o[i]] = o[i] THEN 0 ELSE t.list_next[o[i]]
    BY <1>2, <1>5, <1>9
  <2> QED BY <1>1, <1>3, <2>2, <2>3, <2>4, RingDrop
<1> QED BY <1>0, <1>3, <1>4, <1>13, <1>14 DEF RingOut

\* Names still ascend.
LEMMA AscendingDrop ==
  ASSUME NEW t, NEW o \in Seq(Slots), Distinct(o), Ascending(t, o), NEW i \in 1..Len(o),
         NEW z, Lacks(z, o, i), NEW s, \A m \in Slots \ {o[i]} : s.uinfo[m] = t.uinfo[m]
  PROVE  Ascending(s, z)
<1> DEFINE at(j) == IF j < i THEN j ELSE j+1
<1>1. ASSUME NEW j \in 1..Len(z)
      PROVE  at(j) \in 1..Len(o) /\ at(j) # i /\ z[j] = o[at(j)]
  BY <1>1 DEF Lacks
<1>2. \A j, k \in 1..Len(z) : j < k => at(j) < at(k)
  BY DEF Lacks
<1> HIDE DEF at
<1>3. ASSUME NEW j \in 1..Len(z) PROVE s.uinfo[z[j]] = t.uinfo[o[at(j)]]
  <2>1. at(j) \in 1..Len(o) /\ at(j) # i /\ z[j] = o[at(j)]
    BY <1>1
  <2>2. z[j] \in Slots \ {o[i]}
    BY <2>1 DEF Distinct
  <2> QED BY <2>1, <2>2
<1> QED BY <1>1, <1>2, <1>3 DEF Ascending

\* clear_utmp2() of an entry in use, no garbage left in it.
LEMMA LogoutStands ==
  ASSUME NEW t, NEW f, NEW o, NEW b, Stands(t, f, o, b), NEW n \in ActiveSlots(t),
         NEW g \in Garbage
  PROVE  /\ Clear2(t, n, g).uinfo = [t.uinfo EXCEPT ![n] = Cleared(g)]
         /\ Stands(Clear2(t, n, g), <<n>> \o f, Table!Drop(o, n),
                   [b EXCEPT ![Hash[t.uinfo[n].uid]] = Table!Drop(@, n)])
<1>0. PICK x : x = Clear2(t, n, g)
  OBVIOUS
<1>1. t \in TableType /\ OnlineIs(t, o) /\ FreeIs(t, f) /\ HashedIs(t, b)
      /\ Marked(t) /\ Counted(t)
  BY DEF Stands
<1>2. n \in Slots /\ t.uinfo[n].active /\ t.uinfo[n].uid \in Users /\ 0 \notin HashValues
  BY ListsApart DEF ActiveSlots
<1>3. PICK H : H = Hash[t.uinfo[n].uid]
  OBVIOUS
<1>4. PICK r : r = HashRemove(t, n)
  OBVIOUS
<1>5. /\ H \in HashValues /\ n \in Values(b[H]) /\ Relinked(r, t)
      /\ r.next \in [Slots -> Links0] /\ r.hashhead \in [HashValues \cup {0} -> Links0]
      /\ \A m \in Slots \ Values(b[H]) : r.next[m] = t.next[m]
      /\ \A h \in (HashValues \cup {0}) \ {H} : r.hashhead[h] = t.hashhead[h]
      /\ WithoutIn(r.next, r.hashhead[H], b[H], n)
  <2>1. HashedOut(t, b, n, Hash[t.uinfo[n].uid], HashRemove(t, n))
    BY HashRemoveIs
  <2>2. HashedOut(t, b, n, H, r)
    BY <1>3, <1>4, <2>1
  <2> QED BY <2>2 DEF HashedOut
<1>6. PICK s : s = ListRemove(r, n)
  OBVIOUS
<1>7. /\ s \in TableType /\ s.next = r.next /\ s.hashhead = r.hashhead
      /\ s.uinfo = t.uinfo /\ s.number = t.number /\ s.count = t.count
      /\ RingIs(s.list_next, s.list_prev, s.listhead, Table!Drop(o, n))
      /\ Values(Table!Drop(o, n)) = Values(o) \ {n}
      /\ \E i \in 1..Len(o) : Lacks(Table!Drop(o, n), o, i)
  <2>1. RingOut(t, r, o, n, ListRemove(r, n))
    BY <1>1, <1>5, ListRemoveIs
  <2>2. RingOut(t, r, o, n, s)
    BY <1>6, <2>1
  <2> QED BY <2>2 DEF RingOut
<1>8. PICK c \in Counters : /\ c \in {"logout", "wwwlogout"}
                            /\ (IF ~t.uinfo[n].active THEN s.count
                                ELSE IF t.uinfo[n].pid # 1 THEN Bump(t, "logout")
                                ELSE Bump(t, "wwwlogout")) = Bump(t, c)
  BY <1>2 DEF Counters
<1>9. PICK nn : nn = [r.next EXCEPT ![n] = r.hashhead[0]]
  OBVIOUS
<1>10. PICK hh : hh = [r.hashhead EXCEPT ![0] = n]
  OBVIOUS
<1>11. PICK ui : ui = [t.uinfo EXCEPT ![n] = Cleared(g)]
  OBVIOUS
<1>12. x = [s EXCEPT !.next = nn, !.hashhead = hh, !.number = t.number - 1,
                     !.count = Bump(t, c), !.uinfo = ui]
  <2>2. x = [s EXCEPT !.next[n] = s.hashhead[0], !.hashhead[0] = n,
                      !.number = IF t.uinfo[n].active THEN s.number - 1 ELSE s.number,
                      !.count = IF ~t.uinfo[n].active THEN s.count
                                ELSE IF t.uinfo[n].pid # 1 THEN Bump(t, "logout")
                                ELSE Bump(t, "wwwlogout"),
                      !.uinfo[n] = Cleared(g)]
    BY <1>0, <1>4, <1>6 DEF Clear2, Cleared
  <2> QED BY <1>2, <1>7, <1>8, <1>9, <1>10, <1>11, <2>2
<1>13. /\ x.uinfo = ui /\ x.next = nn /\ x.hashhead = hh /\ x.number = t.number - 1
       /\ x.count = Bump(t, c) /\ x.list_next = s.list_next /\ x.list_prev = s.list_prev
       /\ x.listhead = s.listhead
       /\ x = [ uinfo |-> ui, next |-> nn, hashhead |-> hh, listhead |-> s.listhead,
                list_prev |-> s.list_prev, list_next |-> s.list_next,
                number |-> t.number - 1, count |-> Bump(t, c) ]
  BY <1>7, <1>12 DEF TableType
<1>14. /\ nn \in [Slots -> Links0] /\ nn[n] = t.hashhead[0]
       /\ \A m \in Slots \ {n} : nn[m] = r.next[m]
  <2>1. r.hashhead[0] = t.hashhead[0] /\ t.hashhead[0] \in Links0
    BY <1>1, <1>2, <1>5 DEF TableType
  <2> QED BY <1>2, <1>5, <1>9, <2>1
<1>15. /\ hh \in [HashValues \cup {0} -> Links0] /\ hh[0] = n
       /\ \A h \in HashValues : hh[h] = r.hashhead[h]
  <2>1. n \in Links0
    BY <1>2, Numbers
  <2> QED BY <1>2, <1>5, <1>10, <2>1
<1>16. /\ ui \in [Slots -> Entry] /\ ui[n].active = FALSE /\ ui[n].pid = 0
       /\ \A m \in Slots \ {n} : ui[m] = t.uinfo[m]
  <2>1. Cleared(g) \in Entry /\ Cleared(g).active = FALSE /\ Cleared(g).pid = 0
    <3>1. g \in Users \cup {0}
      BY UtmpAssumption
    <3> QED BY <3>1, ClearedIs DEF Entry
  <2> QED BY <1>1, <1>2, <1>11, <2>1 DEF TableType
<1>17. ActiveSlots(x) = ActiveSlots(t) \ {n}
  BY <1>2, <1>13, <1>16 DEF ActiveSlots
<1>18. Counted(x) /\ x.number \in Links0
  <2>1. Cardinality(ActiveSlots(x)) = Cardinality(ActiveSlots(t)) - 1
    BY <1>17, ActiveFinite, FS_RemoveElement
  <2>2. x.number = Cardinality(ActiveSlots(x)) /\ x.number \in Links0
    BY <1>1, <1>13, <2>1, ActiveFinite DEF Counted
  <2>3. PICK k \in Int : Balance(t) = k * CounterMod
    BY <1>1 DEF Counted
  <2>4. \E j \in Int : Balance(x) = j * CounterMod
    <3>1. PICK p1 \in Int, p2 \in Int, q1 \in Int, q2 \in Int, m \in Int, M \in Int :
            /\ p1 = t.count["login"] /\ p2 = t.count["wwwlogin"] /\ q1 = t.count["logout"]
            /\ q2 = t.count["wwwlogout"] /\ m = t.number /\ M = CounterMod
      <4>1. /\ \A d \in Counters : t.count[d] \in Int
            /\ t.number \in Int /\ CounterMod \in Int
        BY <1>1, Numbers DEF TableType, Links0
      <4> QED BY <4>1 DEF Counters
    <3>2. PICK D : D = Bump(t, c)
      OBVIOUS
    <3>3. /\ \A d \in Counters : d # c => D[d] = t.count[d]
          /\ D[c] = t.count[c] + 1 \/ D[c] = t.count[c] + 1 - CounterMod
      BY <1>1, <3>2, BumpIs
    <3>4. Balance(t) = p1 + p2 - q1 - q2 - m
      BY <3>1 DEF Balance
    <3>5. D["login"] = p1 /\ D["wwwlogin"] = p2
      BY <1>8, <3>1, <3>3 DEF Counters
    <3>6. PICK d1, d2 : d1 = D["logout"] /\ d2 = D["wwwlogout"]
      OBVIOUS
    <3>7. Balance(x) = p1 + p2 - d1 - d2 - (m - 1)
      BY <1>13, <3>1, <3>2, <3>5, <3>6 DEF Balance
    <3>8. \/ d1 = q1 + 1 /\ d2 = q2
          \/ d1 = q1 + 1 - M /\ d2 = q2
          \/ d1 = q1 /\ d2 = q2 + 1
          \/ d1 = q1 /\ d2 = q2 + 1 - M
      BY <1>8, <3>1, <3>3, <3>6 DEF Counters
    <3>9. PICK B \in Int : B = p1 + p2 - q1 - q2 - m
      OBVIOUS
    <3>10. Balance(x) = B \/ Balance(x) = B + M
      BY <3>7, <3>8, <3>9
    <3>11. B = k * M
      BY <2>3, <3>1, <3>4, <3>9
    <3>12. B + M = (k+1) * M
      BY <3>11
    <3> QED BY <3>1, <3>10, <3>11, <3>12
  <2> QED BY <2>2, <2>4 DEF Counted
<1>19. x \in TableType
  <2>1. Bump(t, c) \in [Counters -> 0..CounterMod-1]
    BY <1>1, BumpIs
  <2>2. t.number - 1 \in Links0
    BY <1>13, <1>18
  <2> QED BY <1>7, <1>13, <1>14, <1>15, <1>16, <2>1, <2>2 DEF TableType
<1>20. FreeIs(x, <<n>> \o f)
  <2>1. /\ ChainIs(t.next, t.hashhead[0], f) /\ Values(f) = Slots \ ActiveSlots(t)
        /\ Values(f) \cap Values(b[H]) = {}
    BY <1>1, <1>5, ListsApart DEF FreeIs
  <2>2. \A m \in Values(f) : nn[m] = t.next[m]
    BY <1>5, <1>14, <2>1
  <2>3. /\ ChainIs(nn, n, <<n>> \o f) /\ Values(<<n>> \o f) = Values(f) \cup {n}
    BY <1>2, <1>14, <2>1, <2>2, ChainPush
  <2>4. Values(<<n>> \o f) = Slots \ ActiveSlots(x)
    BY <1>2, <1>17, <2>1, <2>3
  <2> QED BY <1>13, <1>15, <2>3, <2>4 DEF FreeIs
<1>21. OnlineIs(x, Table!Drop(o, n))
  <2>1. RingIs(x.list_next, x.list_prev, x.listhead, Table!Drop(o, n))
    BY <1>7, <1>13
  <2>2. Values(Table!Drop(o, n)) = ActiveSlots(x)
    BY <1>1, <1>7, <1>17 DEF OnlineIs
  <2>3. Ascending(x, Table!Drop(o, n))
    <3>1. o \in Seq(Slots) /\ Distinct(o) /\ Ascending(t, o) /\ n \in Values(o)
      BY <1>1 DEF OnlineIs, RingIs
    <3>2. PICK i \in 1..Len(o) : n = o[i]
      BY <3>1, ValuesOf
    <3>3. Lacks(Table!Drop(o, n), o, i)
      BY <3>1, <3>2, Dropped
    <3>4. \A m \in Slots \ {o[i]} : x.uinfo[m] = t.uinfo[m]
      BY <1>13, <1>16, <3>2
    <3> QED BY <3>1, <3>3, <3>4, AscendingDrop
  <2> QED BY <2>1, <2>2, <2>3 DEF OnlineIs
<1>22. PICK bb : bb = [b EXCEPT ![H] = Table!Drop(b[H], n)]
  OBVIOUS
<1>23. HashedIs(x, bb)
  <2>1. b \in [HashValues -> Seq(Slots)]
    BY <1>1 DEF HashedIs
  <2>2. PICK y : y = Table!Drop(b[H], n)
    OBVIOUS
  <2>3. \A h \in HashValues : /\ ChainIs(t.next, t.hashhead[h], b[h])
                              /\ Values(b[h]) = OfHash(t, h)
                              /\ Values(b[h]) \subseteq Slots
    BY <1>1 DEF HashedIs, OfHash, ActiveSlots
  <2>4. ChainIs(nn, r.hashhead[H], y) /\ Values(y) = OfHash(t, H) \ {n} /\ y \in Seq(Slots)
    <3>1. ChainIs(nn, r.hashhead[H], y) /\ Values(y) = Values(b[H]) \ {n}
      BY <1>5, <1>14, <2>2 DEF WithoutIn
    <3> QED BY <1>5, <2>3, <3>1 DEF ChainIs
  <2>5. OfHash(x, H) = OfHash(t, H) \ {n}
    BY <1>2, <1>13, <1>16, <1>17 DEF OfHash, ActiveSlots
  <2>6. ASSUME NEW h \in HashValues \ {H}
        PROVE  ChainIs(nn, r.hashhead[h], b[h]) /\ Values(b[h]) = OfHash(x, h)
    <3>1. Values(b[h]) \cap Values(b[H]) = {}
      BY <1>5, <2>6, ListsApart
    <3>2. \A m \in Values(b[h]) : nn[m] = t.next[m]
      BY <1>5, <1>14, <2>3, <2>6, <3>1
    <3>3. ChainIs(nn, t.hashhead[h], b[h])
      BY <2>3, <2>6, <3>2, ChainKept
    <3>4. n \notin OfHash(t, h)
      BY <1>5, <2>3, <2>6, <3>1
    <3>5. OfHash(x, h) = OfHash(t, h)
      BY <1>13, <1>16, <1>17, <3>4 DEF OfHash, ActiveSlots
    <3> QED BY <1>5, <2>3, <2>6, <3>3, <3>5
  <2>7. bb \in [HashValues -> Seq(Slots)] /\ bb[H] = y
        /\ \A h \in HashValues \ {H} : bb[h] = b[h]
    BY <1>5, <1>22, <2>1, <2>2, <2>4
  <2>8. ASSUME NEW h \in HashValues
        PROVE  ChainIs(x.next, x.hashhead[h], bb[h]) /\ Values(bb[h]) = OfHash(x, h)
    <3>1. CASE h = H
      BY <1>13, <1>15, <2>4, <2>5, <2>7, <3>1
    <3>2. CASE h # H
      BY <1>13, <1>15, <2>6, <2>7, <3>2
    <3> QED BY <3>1, <3>2
  <2> QED BY <2>7, <2>8 DEF HashedIs
<1>24. Marked(x)
  BY <1>1, <1>13, <1>16 DEF Marked
<1>25. Stands(x, <<n>> \o f, Table!Drop(o, n), bb)
  BY <1>18, <1>19, <1>20, <1>21, <1>23, <1>24 DEF Stands
<1> QED BY <1>0, <1>3, <1>11, <1>13, <1>22, <1>25

\* www_user_login() gives its entry pid 1.
LEMMA PidStands ==
  ASSUME NEW t, NEW f, NEW o, NEW b, Stands(t, f, o, b), NEW n \in Slots,
         NEW x, x = [t EXCEPT !.uinfo[n].pid = 1]
  PROVE  /\ Stands(x, f, o, b) /\ x.next = t.next /\ x.hashhead = t.hashhead
         /\ \A m \in Slots : /\ x.uinfo[m].active = t.uinfo[m].active
                             /\ x.uinfo[m].uid = t.uinfo[m].uid
<1>1. t \in TableType /\ OnlineIs(t, o) /\ FreeIs(t, f) /\ HashedIs(t, b)
      /\ Marked(t) /\ Counted(t)
  BY DEF Stands
<1>2. PICK e : e = t.uinfo[n]
  OBVIOUS
<1>3. PICK d : d = [e EXCEPT !.pid = 1]
  OBVIOUS
<1>4. e \in Entry
  BY <1>1, <1>2 DEF TableType
<1>5. d \in Entry /\ d.active = e.active /\ d.uid = e.uid /\ d.pid = 1
  BY <1>3, <1>4 DEF Entry
<1>6. PICK ui : ui = [t.uinfo EXCEPT ![n] = d]
  OBVIOUS
<1>7. x = [t EXCEPT !.uinfo = ui]
  BY <1>2, <1>3, <1>6
<1>8. /\ ui \in [Slots -> Entry]
      /\ \A m \in Slots : /\ ui[m].active = t.uinfo[m].active /\ ui[m].uid = t.uinfo[m].uid
                          /\ ui[m].pid = t.uinfo[m].pid \/ ui[m].pid = 1
  BY <1>1, <1>2, <1>5, <1>6 DEF TableType
<1>9. /\ x \in TableType /\ x.uinfo = ui /\ x.next = t.next /\ x.hashhead = t.hashhead
      /\ x.list_next = t.list_next /\ x.list_prev = t.list_prev /\ x.listhead = t.listhead
      /\ x.number = t.number /\ x.count = t.count
  BY <1>1, <1>7, <1>8 DEF TableType
<1>10. ActiveSlots(x) = ActiveSlots(t)
  BY <1>8, <1>9 DEF ActiveSlots
<1>11. FreeIs(x, f)
  BY <1>1, <1>9, <1>10 DEF FreeIs
<1>12. OnlineIs(x, o)
  <2>1. \A j \in 1..Len(o) : x.uinfo[o[j]].uid = t.uinfo[o[j]].uid
    <3>1. o \in Seq(Slots)
      BY <1>1 DEF OnlineIs, RingIs
    <3> QED BY <1>8, <1>9, <3>1
  <2> QED BY <1>1, <1>9, <1>10, <2>1 DEF OnlineIs, Ascending
<1>13. HashedIs(x, b)
  <2>1. \A h \in HashValues : OfHash(x, h) = OfHash(t, h)
    BY <1>8, <1>9, <1>10 DEF OfHash, ActiveSlots
  <2> QED BY <1>1, <1>9, <2>1 DEF HashedIs
<1>14. Marked(x) /\ Counted(x)
  BY <1>1, <1>8, <1>9, <1>10 DEF Marked, Counted, Balance
<1> QED BY <1>8, <1>9, <1>11, <1>12, <1>13, <1>14 DEF Stands

-----------------------------------------------------------------------------
(* The actors. *)

\* apply_utmp() comes upon slots only.
LEMMA EntriesAre ==
  ASSUME NEW t, NEW f, NEW o, NEW b, Stands(t, f, o, b), NEW u \in Users
  PROVE  EntriesOf(t, u) \in Seq(Slots)
<1> DEFINE list == Chain(t.next, t.hashhead[Hash[u]], USHM_SIZE)
           Put(s, n) == IF t.uinfo[n].active /\ t.uinfo[n].uid = u THEN Append(s, n) ELSE s
           G == [j \in 0..Len(list) |-> Seq(Slots)]
           F == [p \in (1..Len(list)) \X Seq(Slots) |-> Put(p[2], list[p[1]])]
           Def(g) == g = [i \in 0..Len(list) |->
                            IF i = 0 THEN <<>>
                            ELSE IF t.uinfo[list[i]].active /\ t.uinfo[list[i]].uid = u
                                 THEN Append(g[i-1], list[i])
                            ELSE g[i-1]]
           Eq(g) == /\ Recursion(Len(list), F, <<>>, g)
                    /\ \A j \in 0..Len(list) : g[j] \in G[j]
<1>1. list \in Seq(Slots)
  <2>1. Hash[u] \in HashValues /\ N \in Nat /\ N >= N
    BY Numbers DEF HashValues
  <2>2. list = b[Hash[u]]
    BY <2>1, Reads DEF N
  <2> HIDE DEF list
  <2> QED BY <2>1, <2>2 DEF Stands, HashedIs
<1>2. Len(list) \in Nat /\ \A j \in 1..Len(list) : list[j] \in Slots
  <2> HIDE DEF list
  <2> QED BY <1>1
<1> HIDE DEF list
<1>3. \A s \in Seq(Slots), n \in Slots : Put(s, n) \in Seq(Slots)
  OBVIOUS
<1>4. \A j \in 1..Len(list) : \A x \in Seq(Slots) :
         F[<<j, x>>] = Put(x, list[j]) /\ F[<<j, x>>] \in Seq(Slots)
  <2> HIDE DEF Put
  <2> QED BY <1>2, <1>3
<1>5. \E g : Eq(g)
  <2>1. <<>> \in G[0] /\ \A j \in 1..Len(list) : \A x \in G[j-1] : F[<<j, x>>] \in G[j]
    <3>1. \A j \in 1..Len(list) : j-1 \in 0..Len(list) /\ j \in 0..Len(list)
      BY <1>2
    <3>2. 0 \in 0..Len(list)
      BY <1>2
    <3> HIDE DEF F
    <3> QED BY <1>4, <3>1, <3>2
  <2> HIDE DEF F, G
  <2> QED BY <1>2, <2>1, RecursiveFunction, Zenon
<1>6. PICK g : Eq(g)
  BY <1>5
<1>7. \A j \in 0..Len(list) : g[j] \in Seq(Slots)
  BY <1>6
<1>8. g = [j \in 0..Len(list) |-> IF j = 0 THEN <<>> ELSE F[<<j, g[j-1]>>]]
  BY <1>6 DEF Recursion
<1>9. \A j \in 1..Len(list) : F[<<j, g[j-1]>>] = Put(g[j-1], list[j])
  <2>1. \A j \in 1..Len(list) : j-1 \in 0..Len(list)
    BY <1>2
  <2> HIDE DEF F, Put
  <2> QED BY <1>4, <1>7, <2>1
<1>10. Def(g)
  <2> DEFINE Val(i) == IF i = 0 THEN <<>>
                       ELSE IF t.uinfo[list[i]].active /\ t.uinfo[list[i]].uid = u
                            THEN Append(g[i-1], list[i])
                       ELSE g[i-1]
  <2>1. ASSUME NEW i \in 0..Len(list) PROVE g[i] = Val(i)
    <3>1. CASE i = 0
      BY <1>8, <3>1
    <3>2. CASE i # 0
      <4>1. i \in 1..Len(list)
        BY <1>2, <3>2
      <4> HIDE DEF F
      <4>2. g[i] = Put(g[i-1], list[i])
        BY <1>8, <1>9, <3>2, <4>1
      <4> QED BY <3>2, <4>2
    <3> QED BY <3>1, <3>2
  <2>2. g = [i \in 0..Len(list) |-> g[i]]
    BY <1>8
  <2>3. g = [i \in 0..Len(list) |-> Val(i)]
    <3> HIDE DEF Val
    <3> QED BY <2>1, <2>2, Zenon
  <2> QED BY <2>3
<1>11. EntriesOf(t, u) = (CHOOSE h : Def(h))[Len(list)]
  BY DEF EntriesOf, list
<1>12. \A h : Def(h) => \A j \in 0..Len(list) : h[j] \in Seq(Slots)
  <2> SUFFICES ASSUME NEW h, Def(h) PROVE \A j \in 0..Len(list) : h[j] \in Seq(Slots)
    OBVIOUS
  <2> DEFINE T == {j \in 0..Len(list) : h[j] \in Seq(Slots)}
  <2>1. 0 \in T
    BY <1>2
  <2>2. ASSUME NEW j \in 1..Len(list), j-1 \in T PROVE j \in T
    <3>1. j \in 0..Len(list) /\ j # 0 /\ h[j-1] \in Seq(Slots) /\ list[j] \in Slots
      BY <1>2, <2>2
    <3>2. h[j] = Put(h[j-1], list[j])
      BY <3>1
    <3> HIDE DEF Put
    <3> QED BY <1>3, <3>1, <3>2
  <2>3. 0..Len(list) \subseteq T
    <3> HIDE DEF T
    <3> QED BY <1>2, <2>1, <2>2, SetInduction
  <2> QED BY <2>3
<1>13. Len(list) \in 0..Len(list)
  BY <1>2
<1> HIDE DEF Def
<1> QED BY <1>10, <1>11, <1>12, <1>13

Places == {"none", "connected", "picked", "checked", "cleaning", "entered", "started",
           "exiting", "selflocked", "login", "allocated", "online", "logoff"}
HasEntry == {"picked", "cleaning", "entered", "started", "exiting", "selflocked",
             "allocated", "online", "logoff"}
Kicks == [uid : Users \cup {0}, step : {"signal", "clear"},
          todo : Seq([ent : Slots, pid : Telnet \cup {0, 1}])]

\* An actor at l, for user u, with slot e and kick k, the lock being lk and
\* the clean pass at sc: it has a user, a slot where it needs one, kicks only
\* before its login or when it is complete, and cleans with the lock held.
Fits(p, l, u, e, k, lk, sc) ==
    /\ l # "none" => u \in Users
    /\ l \in HasEntry => e \in Slots
    /\ k.todo # <<>> => l \in {"connected", "started", "login"} /\ k.uid \in Users
    /\ l = "cleaning" => lk = p /\ p \in Telnet /\ sc \in Slots

Acts ==
    /\ lock \in Actors \cup {Free} /\ scan \in Links0 /\ sig \subseteq Telnet
    /\ pc \in [Actors -> Places] /\ user \in [Actors -> Users \cup {0}]
    /\ ent \in [Actors -> Links0] /\ kick \in [Actors -> Kicks]
    /\ \A p \in Actors : Fits(p, pc[p], user[p], ent[p], kick[p], lock, scan)
Sound == \E f, o, b : Stands(utmp, f, o, b)
\* The inductive invariant.
IInv == Acts /\ Sound

\* Actor p goes to l.
MovesTo(p, l, u, e, k) ==
    /\ pc' = [pc EXCEPT ![p] = l] /\ user' = [user EXCEPT ![p] = u]
    /\ ent' = [ent EXCEPT ![p] = e] /\ kick' = [kick EXCEPT ![p] = k]
\* ... and leaves the lock of others alone.
MinesLock(p) ==
    \/ lock' = lock /\ scan' = scan
    \/ lock \in {Free, p} /\ lock' \in {Free, p} /\ scan' \in Links0

LEMMA ActsMove ==
  ASSUME Acts, NEW p \in Actors, NEW l \in Places, NEW u \in Users \cup {0},
         NEW e \in Links0, NEW k \in Kicks, MovesTo(p, l, u, e, k),
         MinesLock(p), sig' \subseteq Telnet, Fits(p, l, u, e, k, lock', scan')
  PROVE  Acts'
<1>1. /\ lock' \in Actors \cup {Free} /\ scan' \in Links0
  BY DEF Acts, MinesLock
<1>2. /\ pc' \in [Actors -> Places] /\ user' \in [Actors -> Users \cup {0}]
      /\ ent' \in [Actors -> Links0] /\ kick' \in [Actors -> Kicks]
  BY DEF Acts, MovesTo
<1>3. ASSUME NEW q \in Actors
      PROVE  Fits(q, pc'[q], user'[q], ent'[q], kick'[q], lock', scan')
  <2>1. CASE q = p
    <3>1. pc'[q] = l /\ user'[q] = u /\ ent'[q] = e /\ kick'[q] = k
      BY <2>1 DEF Acts, MovesTo
    <3> QED BY <2>1, <3>1
  <2>2. CASE q # p
    <3>1. pc'[q] = pc[q] /\ user'[q] = user[q] /\ ent'[q] = ent[q] /\ kick'[q] = kick[q]
      BY <2>2 DEF Acts, MovesTo
    <3>2. Fits(q, pc[q], user[q], ent[q], kick[q], lock, scan)
      BY DEF Acts
    <3>3. pc[q] = "cleaning" => lock' = lock /\ scan' = scan
      <4>1. \A r \in Telnet : r # Free
        BY UtmpAssumption DEF Free
      <4> QED BY <2>2, <3>2, <4>1 DEF Fits, MinesLock
    <3> QED BY <3>1, <3>2, <3>3 DEF Fits
  <2> QED BY <2>1, <2>2
<1> QED BY <1>1, <1>2, <1>3 DEF Acts

\* A process ends.
LEMMA ActsEnd ==
  ASSUME Acts, NEW p \in Actors, Ends(p)
  PROVE  Acts'
<1>1. NoKick \in Kicks /\ NoKick.todo = <<>>
  BY DEF NoKick, Kicks
<1>2. MovesTo(p, "none", 0, 0, NoKick) /\ "none" \in Places /\ "none" \notin HasEntry
  BY DEF Ends, MovesTo, Goto, Nobody, Places, HasEntry
<1>3. 0 \in Links0
  BY Numbers
<1>4. MinesLock(p) /\ sig' \subseteq Telnet
  BY <1>3 DEF Acts, Ends, MinesLock
<1>5. Fits(p, "none", 0, 0, NoKick, lock', scan')
  BY <1>1, <1>2 DEF Fits
<1> QED BY <1>1, <1>2, <1>3, <1>4, <1>5, ActsMove

\* What an actor does not change it keeps.
LEMMA Unmoved ==
  ASSUME Acts, NEW p \in Actors
  PROVE  /\ pc = [pc EXCEPT ![p] = pc[p]] /\ user = [user EXCEPT ![p] = user[p]]
         /\ ent = [ent EXCEPT ![p] = ent[p]] /\ kick = [kick EXCEPT ![p] = kick[p]]
         /\ pc[p] \in Places /\ user[p] \in Users \cup {0} /\ ent[p] \in Links0
         /\ kick[p] \in Kicks /\ sig \subseteq Telnet
         /\ Fits(p, pc[p], user[p], ent[p], kick[p], lock, scan)
BY DEF Acts

\* A list of slots is one of entries to kick, with the pids they have.
LEMMA KickOfIs ==
  ASSUME utmp \in TableType, NEW u \in Users, NEW s \in Seq(Slots)
  PROVE  KickOf(u, s) \in Kicks /\ KickOf(u, s).uid = u
<1> DEFINE m == IF Len(s) > KickMax THEN KickMax ELSE Len(s)
           Item == [ent : Slots, pid : Telnet \cup {0, 1}]
           td == [i \in 1..m |-> [ent |-> s[i], pid |-> utmp.uinfo[s[i]].pid]]
<1>1. m \in Nat /\ m <= Len(s) /\ Len(s) \in Nat
  BY DEF KickMax
<1> HIDE DEF m
<1>2. \A i \in 1..m : s[i] \in Slots
  BY <1>1
<1>3. \A i \in 1..m : utmp.uinfo[s[i]].pid \in Telnet \cup {0, 1}
  BY <1>2 DEF TableType, Entry
<1>4. td \in [1..m -> Item]
  BY <1>2, <1>3
<1>5. td \in Seq(Item)
  <2> HIDE DEF td, Item
  <2> QED BY <1>1, <1>4
<1>6. KickOf(u, s) = [uid |-> u, step |-> "signal", todo |-> td]
  BY DEF KickOf, m
<1> HIDE DEF td, Item
<1>7. [uid |-> u, step |-> "signal", todo |-> td]
         \in [uid : Users \cup {0}, step : {"signal", "clear"}, todo : Seq(Item)]
  BY <1>5
<1> QED BY <1>6, <1>7 DEF Kicks, Item

\* How a step may write to the table: it takes a new entry, clears one that
\* is in use, or gives one pid 1.
Write(t, x) ==
    \/ x = t
    \/ \E e \in Entry, c \in {"login", "wwwlogin"} :
          e.active /\ e.uid \in Users /\ NewSlot(t) # 0 /\ x = NewUtmpEnt(t, e, c)
    \/ \E n \in ActiveSlots(t), g \in Garbage : x = Clear2(t, n, g)
    \/ \E n \in Slots : x = [t EXCEPT !.uinfo[n].pid = 1]
Goes == Acts' /\ Write(utmp, utmp')

\* The steps of a telnet process that leave the table as it is.
LEMMA TelnetQuiet ==
  ASSUME Acts, Sound, NEW p \in Telnet,
         \/ (\E v \in Users : Connect(p, v) \/ KickUser(p, v)) \/ CheckMulti(p)
         \/ PickWindow(p) \/ KickWindow(p) \/ HangUp(p)
         \/ EnterFull(p) \/ Start(p) \/ Leave(p) \/ Hup(p) \/ HupInLock(p) \/ Crash(p)
         \/ LongLock(p)
  PROVE  Goes
<1>a. p \in Actors
  BY DEF Actors
<1>b. /\ utmp \in TableType
      /\ \A x \in Users : EntriesOf(utmp, x) \in Seq(Slots)
  BY EntriesAre DEF Sound, Stands
<1>c. NoKick \in Kicks /\ NoKick.todo = <<>>
  BY DEF NoKick, Kicks
<1>1. ASSUME NEW v \in Users, Connect(p, v) PROVE Goes
  <2>1. MovesTo(p, "connected", v, ent[p], kick[p]) /\ Write(utmp, utmp')
    BY <1>1, <1>a, Unmoved DEF Connect, Goto, MovesTo, Write
  <2>2. /\ Fits(p, "connected", v, ent[p], kick[p], lock', scan')
        /\ MinesLock(p) /\ sig' \subseteq Telnet
    BY <1>1, <1>a, Unmoved DEF Connect, Fits, MinesLock, Ready, Kicking, HasEntry, Free
  <2>3. "connected" \in Places /\ v \in Users \cup {0} /\ ent[p] \in Links0 /\ kick[p] \in Kicks
    BY <1>1, <1>a, Unmoved, Numbers DEF Places
  <2> QED BY <1>a, <2>1, <2>2, <2>3, ActsMove DEF Goes
<1>2. CASE CheckMulti(p)
  <2>1. MovesTo(p, "checked", user[p], ent[p], kick[p]) /\ Write(utmp, utmp')
    BY <1>2, <1>a, Unmoved DEF CheckMulti, Goto, MovesTo, Write
  <2>2. /\ Fits(p, "checked", user[p], ent[p], kick[p], lock', scan')
        /\ MinesLock(p) /\ sig' \subseteq Telnet
    BY <1>2, <1>a, Unmoved DEF CheckMulti, Fits, MinesLock, Ready, Kicking, HasEntry, Free
  <2>3. "checked" \in Places /\ user[p] \in Users \cup {0} /\ ent[p] \in Links0 /\ kick[p] \in Kicks
    BY <1>2, <1>a, Unmoved, Numbers DEF Places
  <2> QED BY <1>a, <2>1, <2>2, <2>3, ActsMove DEF Goes
<1>3. CASE PickWindow(p)
  <2>1. user[p] \in Users
    BY <1>3, <1>a, Unmoved DEF PickWindow, Fits
  <2>2. PICK n \in Values(EntriesOf(utmp, user[p])) : ent' = [ent EXCEPT ![p] = n]
    BY <1>3 DEF PickWindow
  <2>3. n \in Slots /\ n \in Links0
    <3>1. EntriesOf(utmp, user[p]) \in Seq(Slots)
      BY <1>b, <2>1
    <3> QED BY <2>2, <3>1, ValuesOf, Numbers
  <2>4. MovesTo(p, "picked", user[p], n, kick[p]) /\ Write(utmp, utmp')
    BY <1>3, <1>a, <2>2, Unmoved DEF PickWindow, Goto, MovesTo, Write
  <2>5. /\ Fits(p, "picked", user[p], n, kick[p], lock', scan')
        /\ MinesLock(p) /\ sig' \subseteq Telnet
    BY <1>3, <1>a, <2>1, <2>3, Unmoved DEF PickWindow, Fits, MinesLock, Ready, Kicking
  <2>6. "picked" \in Places /\ user[p] \in Users \cup {0} /\ kick[p] \in Kicks
    BY <1>a, Unmoved DEF Places
  <2> QED BY <1>a, <2>3, <2>4, <2>5, <2>6, ActsMove DEF Goes
<1>4. CASE KickWindow(p)
  <2>1. user[p] \in Users /\ ent[p] \in Slots
    BY <1>4, <1>a, Unmoved DEF KickWindow, Fits, HasEntry
  <2>2. PICK k : k = KickOf(user[p], <<ent[p]>>)
    OBVIOUS
  <2>3. k \in Kicks /\ k.uid = user[p]
    <3>1. <<ent[p]>> \in Seq(Slots)
      BY <2>1
    <3> QED BY <1>b, <2>1, <2>2, <3>1, KickOfIs
  <2>4. MovesTo(p, "connected", user[p], 0, k) /\ Write(utmp, utmp')
    BY <1>4, <1>a, <2>2, Unmoved DEF KickWindow, Goto, MovesTo, Write
  <2>5. /\ Fits(p, "connected", user[p], 0, k, lock', scan')
        /\ MinesLock(p) /\ sig' \subseteq Telnet
    BY <1>4, <1>a, <2>1, <2>3, Unmoved DEF KickWindow, Fits, MinesLock, HasEntry
  <2>6. "connected" \in Places /\ 0 \in Links0
    BY Numbers DEF Places
  <2> QED BY <1>a, <2>1, <2>3, <2>4, <2>5, <2>6, ActsMove DEF Goes
<1>5. CASE HangUp(p)
  <2>1. Ends(p) /\ Write(utmp, utmp')
    BY <1>5 DEF HangUp, Write
  <2> QED BY <1>a, <2>1, ActsEnd DEF Goes
<1>6. CASE EnterFull(p)
  <2>1. Ends(p) /\ Write(utmp, utmp')
    BY <1>6 DEF EnterFull, Write
  <2> QED BY <1>a, <2>1, ActsEnd DEF Goes
<1>7. CASE Start(p)
  <2>1. MovesTo(p, "started", user[p], ent[p], kick[p]) /\ Write(utmp, utmp')
    BY <1>7, <1>a, Unmoved DEF Start, Goto, MovesTo, Write
  <2>2. /\ Fits(p, "started", user[p], ent[p], kick[p], lock', scan')
        /\ MinesLock(p) /\ sig' \subseteq Telnet
    BY <1>7, <1>a, Unmoved DEF Start, Fits, MinesLock, Ready, Kicking, HasEntry, Free
  <2>3. "started" \in Places /\ user[p] \in Users \cup {0} /\ ent[p] \in Links0 /\ kick[p] \in Kicks
    BY <1>7, <1>a, Unmoved, Numbers DEF Places
  <2> QED BY <1>a, <2>1, <2>2, <2>3, ActsMove DEF Goes
<1>8. CASE Leave(p)
  <2>1. MovesTo(p, "exiting", user[p], ent[p], kick[p]) /\ Write(utmp, utmp')
    BY <1>8, <1>a, Unmoved DEF Leave, Goto, MovesTo, Write
  <2>2. /\ Fits(p, "exiting", user[p], ent[p], kick[p], lock', scan')
        /\ MinesLock(p) /\ sig' \subseteq Telnet
    BY <1>8, <1>a, Unmoved DEF Leave, Fits, MinesLock, Ready, Kicking, HasEntry, Free
  <2>3. "exiting" \in Places /\ user[p] \in Users \cup {0} /\ ent[p] \in Links0 /\ kick[p] \in Kicks
    BY <1>8, <1>a, Unmoved, Numbers DEF Places
  <2> QED BY <1>a, <2>1, <2>2, <2>3, ActsMove DEF Goes
<1>9. CASE Hup(p) /\ pc[p] = "started"
  <2>1. MovesTo(p, "exiting", user[p], ent[p], NoKick) /\ Write(utmp, utmp')
    BY <1>9, <1>a, Unmoved DEF Hup, Goto, MovesTo, Write
  <2>2. /\ Fits(p, "exiting", user[p], ent[p], NoKick, lock', scan')
        /\ MinesLock(p) /\ sig' \subseteq Telnet
    BY <1>9, <1>a, <1>c, Unmoved DEF Hup, Fits, MinesLock, HasEntry
  <2>3. "exiting" \in Places /\ user[p] \in Users \cup {0} /\ ent[p] \in Links0
    BY <1>a, Unmoved DEF Places
  <2> QED BY <1>a, <1>c, <2>1, <2>2, <2>3, ActsMove DEF Goes
<1>10. CASE Hup(p) /\ pc[p] # "started"
  <2>1. Ends(p) /\ Write(utmp, utmp')
    BY <1>10 DEF Hup, Write
  <2> QED BY <1>a, <2>1, ActsEnd DEF Goes
<1>11. CASE HupInLock(p)
  <2>1. MovesTo(p, "selflocked", user[p], ent[p], NoKick) /\ Write(utmp, utmp')
    BY <1>11, <1>a, Unmoved DEF HupInLock, Goto, MovesTo, Write
  <2>2. /\ Fits(p, "selflocked", user[p], ent[p], NoKick, lock', scan')
        /\ MinesLock(p) /\ sig' \subseteq Telnet
    BY <1>11, <1>a, <1>c, Unmoved DEF HupInLock, Fits, MinesLock, HasEntry
  <2>3. "selflocked" \in Places /\ user[p] \in Users \cup {0} /\ ent[p] \in Links0
    BY <1>a, Unmoved DEF Places
  <2> QED BY <1>a, <1>c, <2>1, <2>2, <2>3, ActsMove DEF Goes
<1>12. CASE Crash(p)
  <2>1. Ends(p) /\ Write(utmp, utmp')
    BY <1>12 DEF Crash, Write
  <2> QED BY <1>a, <2>1, ActsEnd DEF Goes
<1>13. CASE LongLock(p)
  <2>1. Ends(p) /\ Write(utmp, utmp')
    BY <1>13 DEF LongLock, Write
  <2> QED BY <1>a, <2>1, ActsEnd DEF Goes
<1>14. ASSUME NEW v \in Users, KickUser(p, v) PROVE Goes
  <2>1. PICK k : k = KickOf(v, EntriesOf(utmp, v))
    OBVIOUS
  <2>2. k \in Kicks /\ k.uid = v
    BY <1>b, <2>1, KickOfIs
  <2>3. MovesTo(p, "started", user[p], ent[p], k) /\ Write(utmp, utmp')
    BY <1>14, <1>a, <2>1, Unmoved DEF KickUser, MovesTo, Write
  <2>4. /\ Fits(p, "started", user[p], ent[p], k, lock', scan')
        /\ MinesLock(p) /\ sig' \subseteq Telnet
    BY <1>14, <1>a, <2>2, Unmoved DEF KickUser, Fits, MinesLock, HasEntry
  <2>5. "started" \in Places /\ user[p] \in Users \cup {0} /\ ent[p] \in Links0
    BY <1>a, Unmoved DEF Places
  <2> QED BY <1>a, <2>2, <2>3, <2>4, <2>5, ActsMove DEF Goes
<1> QED BY <1>1, <1>2, <1>3, <1>4, <1>5, <1>6, <1>7, <1>8, <1>9, <1>10, <1>11, <1>12, <1>13, <1>14

\* The steps of a web session that leave the table as it is.
LEMMA WebQuiet ==
  ASSUME Acts, Sound, NEW p \in Web,
         \/ (\E v \in Users : WwwBegin(p, v)) \/ WwwCheckMulti(p) \/ WwwKick(p) \/ WwwFull(p)
         \/ WwwStale(p) \/ WwwLogoff(p) \/ WwwFail(p)
  PROVE  Goes
<1>a. p \in Actors
  BY DEF Actors
<1>b. utmp \in TableType
  BY DEF Sound, Stands
<1>1. ASSUME NEW v \in Users, WwwBegin(p, v) PROVE Goes
  <2>1. MovesTo(p, "login", v, ent[p], kick[p]) /\ Write(utmp, utmp')
    BY <1>1, <1>a, Unmoved DEF WwwBegin, Goto, MovesTo, Write
  <2>2. /\ Fits(p, "login", v, ent[p], kick[p], lock', scan')
        /\ MinesLock(p) /\ sig' \subseteq Telnet
    BY <1>1, <1>a, Unmoved DEF WwwBegin, Fits, MinesLock, Ready, Kicking, HasEntry, Free
  <2>3. "login" \in Places /\ v \in Users \cup {0} /\ ent[p] \in Links0 /\ kick[p] \in Kicks
    BY <1>1, <1>a, Unmoved, Numbers DEF Places
  <2> QED BY <1>a, <2>1, <2>2, <2>3, ActsMove DEF Goes
<1>2. CASE WwwCheckMulti(p)
  <2>1. MovesTo(p, "checked", user[p], ent[p], kick[p]) /\ Write(utmp, utmp')
    BY <1>2, <1>a, Unmoved DEF WwwCheckMulti, Goto, MovesTo, Write
  <2>2. /\ Fits(p, "checked", user[p], ent[p], kick[p], lock', scan')
        /\ MinesLock(p) /\ sig' \subseteq Telnet
    BY <1>2, <1>a, Unmoved DEF WwwCheckMulti, Fits, MinesLock, Ready, Kicking, HasEntry, Free
  <2>3. "checked" \in Places /\ user[p] \in Users \cup {0} /\ ent[p] \in Links0 /\ kick[p] \in Kicks
    BY <1>2, <1>a, Unmoved, Numbers DEF Places
  <2> QED BY <1>a, <2>1, <2>2, <2>3, ActsMove DEF Goes
<1>3. CASE WwwKick(p)
  <2>1. user[p] \in Users
    BY <1>3, <1>a, Unmoved DEF WwwKick, Fits
  <2>2. PICK n \in Slots : kick' = [kick EXCEPT ![p] = KickOf(user[p], <<n>>)]
    BY <1>3 DEF WwwKick
  <2>3. PICK k : k = KickOf(user[p], <<n>>)
    OBVIOUS
  <2>4. k \in Kicks /\ k.uid = user[p]
    <3>1. <<n>> \in Seq(Slots)
      OBVIOUS
    <3> QED BY <1>b, <2>1, <2>3, <3>1, KickOfIs
  <2>5. MovesTo(p, "login", user[p], ent[p], k) /\ Write(utmp, utmp')
    BY <1>3, <1>a, <2>2, <2>3, Unmoved DEF WwwKick, MovesTo, Write
  <2>6. /\ Fits(p, "login", user[p], ent[p], k, lock', scan')
        /\ MinesLock(p) /\ sig' \subseteq Telnet
    BY <1>3, <1>a, <2>1, <2>4, Unmoved DEF WwwKick, Fits, MinesLock, HasEntry
  <2>7. "login" \in Places /\ ent[p] \in Links0
    BY <1>a, Unmoved DEF Places
  <2> QED BY <1>a, <2>1, <2>4, <2>5, <2>6, <2>7, ActsMove DEF Goes
<1>4. CASE WwwFull(p)
  <2>1. Ends(p) /\ Write(utmp, utmp')
    BY <1>4 DEF WwwFull, Write
  <2> QED BY <1>a, <2>1, ActsEnd DEF Goes
<1>5. CASE WwwStale(p)
  <2>1. Ends(p) /\ Write(utmp, utmp')
    BY <1>5 DEF WwwStale, Write
  <2> QED BY <1>a, <2>1, ActsEnd DEF Goes
<1>6. CASE WwwLogoff(p)
  <2>1. MovesTo(p, "logoff", user[p], ent[p], kick[p]) /\ Write(utmp, utmp')
    BY <1>6, <1>a, Unmoved DEF WwwLogoff, Goto, MovesTo, Write
  <2>2. /\ Fits(p, "logoff", user[p], ent[p], kick[p], lock', scan')
        /\ MinesLock(p) /\ sig' \subseteq Telnet
    BY <1>6, <1>a, Unmoved DEF WwwLogoff, Fits, MinesLock, Ready, Kicking, HasEntry, Free
  <2>3. "logoff" \in Places /\ user[p] \in Users \cup {0} /\ ent[p] \in Links0 /\ kick[p] \in Kicks
    BY <1>6, <1>a, Unmoved, Numbers DEF Places
  <2> QED BY <1>a, <2>1, <2>2, <2>3, ActsMove DEF Goes
<1>7. CASE pc[p] \in {"login", "checked", "allocated"} /\ Ends(p) /\ UNCHANGED utmp
  BY <1>7, <1>a, ActsEnd DEF Goes, Write
<1>8. CASE /\ pc[p] = "logoff" /\ Goto(p, "online")
           /\ UNCHANGED <<utmp, lock, scan, user, ent, kick, sig>>
  <2>1. MovesTo(p, "online", user[p], ent[p], kick[p]) /\ Write(utmp, utmp')
    BY <1>8, <1>a, Unmoved DEF Goto, MovesTo, Write
  <2>2. /\ Fits(p, "online", user[p], ent[p], kick[p], lock', scan')
        /\ MinesLock(p) /\ sig' \subseteq Telnet
    BY <1>8, <1>a, Unmoved DEF Fits, MinesLock, HasEntry
  <2>3. "online" \in Places /\ user[p] \in Users \cup {0} /\ ent[p] \in Links0 /\ kick[p] \in Kicks
    BY <1>a, Unmoved DEF Places
  <2> QED BY <1>a, <2>1, <2>2, <2>3, ActsMove DEF Goes
<1> QED BY <1>1, <1>2, <1>3, <1>4, <1>5, <1>6, <1>7, <1>8 DEF WwwFail

\* kill() reaches telnet processes.
LEMMA ReachedAre ==
  ASSUME NEW p, NEW n
  PROVE  Reached(p, n) \subseteq Telnet
BY DEF Reached

\* The entry a login makes.
LEMMA NewEntry ==
  ASSUME NEW p \in Actors, NEW i \in Telnet \cup {0, 1}, NEW u \in Users
  PROVE  [active |-> TRUE, pid |-> i, uid |-> u, utmpkey |-> p] \in Entry
BY DEF Entry

\* A slot with the pid of a telnet process is in use.
LEMMA MatchActive ==
  ASSUME NEW t, Marked(t), NEW n \in Slots, NEW p \in Telnet, t.uinfo[n].pid = p
  PROVE  n \in ActiveSlots(t)
<1>1. p # 0 /\ p # 1
  BY UtmpAssumption
<1> QED BY <1>1 DEF Marked, ActiveSlots

\* The steps of a telnet process that write to the table.
LEMMA TelnetWrites ==
  ASSUME Acts, Sound, NEW p \in Telnet,
         Enter(p) \/ Clean(p) \/ ClearOwn(p)
  PROVE  Goes
<1>a. p \in Actors /\ p # Free
  BY UtmpAssumption DEF Actors, Free
<1>b. utmp \in TableType /\ Marked(utmp)
  BY DEF Sound, Stands
<1>1. CASE Enter(p)
  <2>1. user[p] \in Users
    BY <1>1, <1>a, Unmoved DEF Enter, Fits
  <2>2. PICK e : e = [active |-> TRUE, pid |-> p, uid |-> user[p], utmpkey |-> p]
    OBVIOUS
  <2>3. e \in Entry /\ e.active /\ e.uid \in Users
    BY <1>a, <2>1, <2>2, NewEntry
  <2>4. PICK n : n = NewSlot(utmp)
    OBVIOUS
  <2>5. n \in Links0 /\ n # 0
    BY <1>1, <1>b, <2>4 DEF Enter, NewSlot, TableType
  <2>6. /\ utmp' = NewUtmpEnt(utmp, e, "login") /\ ent' = [ent EXCEPT ![p] = n]
        /\ sig' \subseteq Telnet
    BY <1>1, <1>a, <2>2, <2>4, ReachedAre, Unmoved DEF Enter
  <2>7. Write(utmp, utmp')
    BY <2>3, <2>4, <2>5, <2>6 DEF Write
  <2>8. n \in Slots
    BY <2>5, Numbers
  <2>9. CASE Goto(p, "entered") /\ UNCHANGED <<lock, scan>>
    <3>1. MovesTo(p, "entered", user[p], n, kick[p])
      BY <1>1, <1>a, <2>6, <2>9, Unmoved DEF Enter, Goto, MovesTo
    <3>2. Fits(p, "entered", user[p], n, kick[p], lock', scan') /\ MinesLock(p)
      BY <1>1, <1>a, <2>1, <2>8, <2>9, Unmoved DEF Enter, Fits, MinesLock, Ready, Kicking
    <3>3. "entered" \in Places /\ kick[p] \in Kicks
      BY <1>a, Unmoved DEF Places
    <3> QED BY <1>a, <2>1, <2>5, <2>6, <2>7, <3>1, <3>2, <3>3, ActsMove DEF Goes
  <2>10. CASE Goto(p, "cleaning") /\ lock' = p /\ scan' = 1
    <3>1. MovesTo(p, "cleaning", user[p], n, kick[p])
      BY <1>1, <1>a, <2>6, <2>10, Unmoved DEF Enter, Goto, MovesTo
    <3>2. 1 \in Slots /\ 1 \in Links0
      BY Numbers
    <3>3. Fits(p, "cleaning", user[p], n, kick[p], lock', scan') /\ MinesLock(p)
      BY <1>1, <1>a, <2>1, <2>8, <2>10, <3>2, Unmoved
      DEF Enter, Fits, MinesLock, Ready, Kicking, Free
    <3>4. "cleaning" \in Places /\ kick[p] \in Kicks
      BY <1>a, Unmoved DEF Places
    <3> QED BY <1>a, <2>1, <2>5, <2>6, <2>7, <3>1, <3>3, <3>4, ActsMove DEF Goes
  <2> QED BY <1>1, <2>9, <2>10 DEF Enter
<1>2. CASE Clean(p)
  <2>1. /\ lock = p /\ scan \in Slots /\ user[p] \in Users /\ ent[p] \in Slots
        /\ kick[p].todo = <<>> /\ kick[p] \in Kicks
    BY <1>2, <1>a, Unmoved DEF Clean, Fits, HasEntry, Ready, Kicking
  <2>2. Write(utmp, utmp')
    <3>1. PICK idle \in BOOLEAN, g \in Garbage :
             utmp' = IF Reapable(utmp.uinfo[scan], idle) THEN Clear2(utmp, scan, g) ELSE utmp
      BY <1>2 DEF Clean
    <3>2. Reapable(utmp.uinfo[scan], idle) => scan \in ActiveSlots(utmp)
      BY <2>1 DEF Reapable, ActiveSlots
    <3> QED BY <3>1, <3>2 DEF Write
  <2>3. CASE scan = USHM_SIZE
    <3>1. /\ Goto(p, "entered") /\ lock' = Free /\ scan' = 0
          /\ UNCHANGED <<user, ent, kick, sig>>
      BY <1>2, <2>3 DEF Clean, Release
    <3>2. MovesTo(p, "entered", user[p], ent[p], kick[p])
      BY <1>a, <3>1, Unmoved DEF Goto, MovesTo
    <3>3. Fits(p, "entered", user[p], ent[p], kick[p], lock', scan')
      BY <2>1 DEF Fits
    <3>4. MinesLock(p) /\ sig' \subseteq Telnet
      BY <1>a, <2>1, <3>1, Numbers, Unmoved DEF MinesLock
    <3>5. /\ "entered" \in Places /\ user[p] \in Users \cup {0} /\ ent[p] \in Links0
      BY <2>1, Numbers DEF Places
    <3> QED BY <1>a, <2>1, <2>2, <3>2, <3>3, <3>4, <3>5, ActsMove DEF Goes
  <2>4. CASE scan # USHM_SIZE
    <3>1. scan' = scan + 1 /\ UNCHANGED <<pc, lock, user, ent, kick, sig>> /\ pc[p] = "cleaning"
      BY <1>2, <2>4 DEF Clean
    <3>2. scan' \in Slots /\ scan' \in Links0
      BY <2>1, <2>4, <3>1, Numbers DEF N
    <3>3. MovesTo(p, "cleaning", user[p], ent[p], kick[p])
      BY <1>a, <3>1, Unmoved DEF MovesTo
    <3>4. Fits(p, "cleaning", user[p], ent[p], kick[p], lock', scan')
      BY <2>1, <3>1, <3>2 DEF Fits
    <3>5. MinesLock(p) /\ sig' \subseteq Telnet
      BY <1>a, <2>1, <3>1, <3>2, Unmoved DEF MinesLock
    <3>6. /\ "cleaning" \in Places /\ user[p] \in Users \cup {0} /\ ent[p] \in Links0
      BY <2>1, Numbers DEF Places
    <3> QED BY <1>a, <2>1, <2>2, <3>3, <3>4, <3>5, <3>6, ActsMove DEF Goes
  <2> QED BY <2>3, <2>4
<1>3. CASE ClearOwn(p)
  <2>1. user[p] \in Users /\ ent[p] \in Slots
    BY <1>3, <1>a, Unmoved DEF ClearOwn, Fits, HasEntry
  <2>2. Ends(p)
    BY <1>3 DEF ClearOwn
  <2>3. PICK g \in Garbage :
          utmp' = IF ClearMatches(utmp, ent[p], user[p], p) THEN Clear2(utmp, ent[p], g) ELSE utmp
    BY <1>3 DEF ClearOwn
  <2>4. Write(utmp, utmp')
    BY <1>b, <2>1, <2>3, MatchActive DEF Write, ClearMatches
  <2> QED BY <1>a, <2>2, <2>4, ActsEnd DEF Goes
<1> QED BY <1>1, <1>2, <1>3

\* The steps of a web session that write to the table.
LEMMA WebWrites ==
  ASSUME Acts, Sound, NEW p \in Web,
         WwwAlloc(p) \/ WwwSetPid(p) \/ (WwwClear(p) /\ ~WwwHits(p))
  PROVE  Goes
<1>a. p \in Actors
  BY DEF Actors
<1>b. utmp \in TableType /\ Marked(utmp)
  BY DEF Sound, Stands
<1>1. CASE WwwAlloc(p)
  <2>1. user[p] \in Users
    BY <1>1, <1>a, Unmoved DEF WwwAlloc, Fits
  <2>2. PICK e : e = [active |-> TRUE, pid |-> 0, uid |-> user[p], utmpkey |-> p]
    OBVIOUS
  <2>3. e \in Entry /\ e.active /\ e.uid \in Users
    BY <1>a, <2>1, <2>2, NewEntry
  <2>4. PICK n : n = NewSlot(utmp)
    OBVIOUS
  <2>5. n \in Links0 /\ n # 0
    BY <1>1, <1>b, <2>4 DEF WwwAlloc, NewSlot, TableType
  <2>6. /\ utmp' = NewUtmpEnt(utmp, e, "wwwlogin") /\ ent' = [ent EXCEPT ![p] = n]
        /\ sig' \subseteq Telnet
    BY <1>1, <1>a, <2>2, <2>4, ReachedAre, Unmoved DEF WwwAlloc
  <2>7. Write(utmp, utmp')
    BY <2>3, <2>4, <2>5, <2>6 DEF Write
  <2>8. n \in Slots
    BY <2>5, Numbers
  <2>9. MovesTo(p, "allocated", user[p], n, kick[p])
    BY <1>1, <1>a, <2>6, Unmoved DEF WwwAlloc, Goto, MovesTo
  <2>10. kick[p].todo = <<>> /\ kick[p] \in Kicks
    BY <1>1, <1>a, Unmoved DEF WwwAlloc, Fits
  <2>11. Fits(p, "allocated", user[p], n, kick[p], lock', scan') /\ MinesLock(p)
    BY <1>1, <2>1, <2>8, <2>10 DEF WwwAlloc, Fits, MinesLock
  <2>12. "allocated" \in Places
    BY DEF Places
  <2> QED BY <1>a, <2>1, <2>5, <2>6, <2>7, <2>9, <2>10, <2>11, <2>12, ActsMove DEF Goes
<1>2. CASE WwwSetPid(p)
  <2>1. user[p] \in Users /\ ent[p] \in Slots /\ kick[p].todo = <<>> /\ kick[p] \in Kicks
    BY <1>2, <1>a, Unmoved DEF WwwSetPid, Fits, HasEntry
  <2>2. Write(utmp, utmp')
    BY <1>2, <2>1 DEF WwwSetPid, Write
  <2>3. MovesTo(p, "online", user[p], ent[p], kick[p])
    BY <1>2, <1>a, Unmoved DEF WwwSetPid, Goto, MovesTo
  <2>4. /\ Fits(p, "online", user[p], ent[p], kick[p], lock', scan')
        /\ MinesLock(p) /\ sig' \subseteq Telnet
    BY <1>2, <1>a, <2>1, Unmoved DEF WwwSetPid, Fits, MinesLock
  <2>5. "online" \in Places /\ ent[p] \in Links0
    BY <2>1, Numbers DEF Places
  <2> QED BY <1>a, <2>1, <2>2, <2>3, <2>4, <2>5, ActsMove DEF Goes
<1>3. CASE WwwClear(p) /\ ~WwwHits(p)
  <2>1. user[p] \in Users /\ ent[p] \in Slots
    BY <1>3, <1>a, Unmoved DEF WwwClear, Fits, HasEntry
  <2>2. Ends(p)
    BY <1>3 DEF WwwClear
  <2>3. PICK g \in Garbage :
          utmp' = IF ClearMatches(utmp, ent[p], user[p], 1) THEN Clear2(utmp, ent[p], g) ELSE utmp
    BY <1>3 DEF WwwClear
  <2>4. ClearMatches(utmp, ent[p], user[p], 1) => utmp.uinfo[ent[p]].active
    BY <1>3 DEF WwwHits, HitsLeftover
  <2>5. Write(utmp, utmp')
    BY <2>1, <2>3, <2>4 DEF Write, ActiveSlots
  <2> QED BY <1>a, <2>2, <2>5, ActsEnd DEF Goes
<1> QED BY <1>1, <1>2, <1>3

\* The steps of a kick.
LEMMA KickWrites ==
  ASSUME Acts, Sound, NEW p \in Actors,
         KickSignal(p) \/ KickLock(p) \/ (KickClear(p) /\ ~KickHits(p))
  PROVE  Goes
<1> DEFINE Item == [ent : Slots, pid : Telnet \cup {0, 1}]
<1>a. kick[p] \in Kicks /\ kick[p].todo # <<>> /\ kick[p].todo \in Seq(Item)
  BY Unmoved DEF KickSignal, KickLock, KickClear, Kicking, Kicks
<1>b. utmp \in TableType /\ Marked(utmp)
  BY DEF Sound, Stands
<1>c. /\ pc[p] \in {"connected", "started", "login"} /\ kick[p].uid \in Users
      /\ pc[p] \in Places /\ user[p] \in Users \cup {0} /\ ent[p] \in Links0
      /\ pc[p] # "none" /\ pc[p] # "cleaning" /\ user[p] \in Users
      /\ (pc[p] \in HasEntry => ent[p] \in Slots)
  BY <1>a, Unmoved DEF Fits
<1>d. PICK td : td = Tail(kick[p].todo)
  OBVIOUS
<1>e. td \in Seq(Item) /\ Head(kick[p].todo) \in Item
  <2> HIDE DEF Item
  <2> QED BY <1>a, <1>d
<1>1. CASE KickSignal(p)
  <2>1. Write(utmp, utmp') /\ sig' \subseteq Telnet
    BY <1>1, ReachedAre, Unmoved DEF KickSignal, Write
  <2>2. PICK k \in Kicks : kick' = [kick EXCEPT ![p] = k] /\ k.uid = kick[p].uid
    <3>1. PICK k1 : k1 = [kick[p] EXCEPT !.step = "clear"]
      OBVIOUS
    <3>2. PICK k2 : k2 = [kick[p] EXCEPT !.todo = td]
      OBVIOUS
    <3>3. k1 \in Kicks /\ k1.uid = kick[p].uid
      BY <1>a, <3>1 DEF Kicks
    <3>4. k2 \in Kicks /\ k2.uid = kick[p].uid
      BY <1>a, <1>e, <3>2 DEF Kicks
    <3>5. kick' = [kick EXCEPT ![p] = k1] \/ kick' = [kick EXCEPT ![p] = k2]
      BY <1>1, <1>d, <3>1, <3>2 DEF KickSignal
    <3> QED BY <3>3, <3>4, <3>5
  <2>3. MovesTo(p, pc[p], user[p], ent[p], k)
    BY <1>1, <2>2, Unmoved DEF KickSignal, MovesTo
  <2>4. Fits(p, pc[p], user[p], ent[p], k, lock', scan') /\ MinesLock(p)
    BY <1>1, <1>c, <2>2 DEF KickSignal, Fits, MinesLock
  <2> QED BY <1>c, <2>1, <2>2, <2>3, <2>4, ActsMove DEF Goes
<1>2. CASE KickLock(p)
  <2>1. Write(utmp, utmp') /\ sig' \subseteq Telnet
    BY <1>2, Unmoved DEF KickLock, Write
  <2>2. MovesTo(p, pc[p], user[p], ent[p], kick[p])
    BY <1>2, Unmoved DEF KickLock, MovesTo
  <2>3. Fits(p, pc[p], user[p], ent[p], kick[p], lock', scan')
    BY <1>c DEF Fits
  <2>4. MinesLock(p)
    BY <1>2 DEF KickLock, MinesLock, Acts
  <2> QED BY <1>a, <1>c, <2>1, <2>2, <2>3, <2>4, ActsMove DEF Goes
<1>3. CASE KickClear(p) /\ ~KickHits(p)
  <2>1. PICK i : i = Head(kick[p].todo)
    OBVIOUS
  <2>2. i.ent \in Slots
    BY <1>e, <2>1
  <2>3. PICK g \in Garbage :
          utmp' = IF ClearMatches(utmp, i.ent, kick[p].uid, i.pid)
                  THEN Clear2(utmp, i.ent, g) ELSE utmp
    BY <1>3, <2>1 DEF KickClear
  <2>4. Write(utmp, utmp') /\ sig' \subseteq Telnet
    <3>1. ClearMatches(utmp, i.ent, kick[p].uid, i.pid) => utmp.uinfo[i.ent].active
      BY <1>3, <2>1 DEF KickHits, HitsLeftover
    <3> QED BY <1>3, <2>2, <2>3, <3>1, Unmoved DEF KickClear, Write, ActiveSlots
  <2>5. PICK k : k = [kick[p] EXCEPT !.todo = td, !.step = "signal"]
    OBVIOUS
  <2>6. k \in Kicks /\ k.uid = kick[p].uid
    BY <1>a, <1>e, <2>5 DEF Kicks
  <2>7. kick' = [kick EXCEPT ![p] = k]
    BY <1>3, <1>d, <2>5 DEF KickClear
  <2>8. MovesTo(p, pc[p], user[p], ent[p], k)
    BY <1>3, <2>7, Unmoved DEF KickClear, MovesTo
  <2>9. Fits(p, pc[p], user[p], ent[p], k, lock', scan')
    BY <1>c, <2>6 DEF Fits
  <2>10. MinesLock(p)
    BY <1>3, Numbers DEF KickClear, Release, MinesLock
  <2> QED BY <1>c, <2>4, <2>6, <2>8, <2>9, <2>10, ActsMove DEF Goes
<1> QED BY <1>1, <1>2, <1>3

\* Every step.
LEMMA AllGo ==
  ASSUME IInv, UnhitNext
  PROVE  Goes
<1>1. Acts /\ Sound
  BY DEF IInv
<1>3. ASSUME NEW p \in Telnet, TelnetStep(p) PROVE Goes
  <2>1. CASE \E u \in Users : Connect(p, u) \/ KickUser(p, u)
    BY <1>1, <2>1, TelnetQuiet
  <2>2. CASE Enter(p) \/ Clean(p) \/ ClearOwn(p)
    BY <1>1, <2>2, TelnetWrites
  <2>3. CASE \/ CheckMulti(p) \/ PickWindow(p) \/ KickWindow(p) \/ HangUp(p)
             \/ EnterFull(p) \/ Start(p) \/ Leave(p) \/ Hup(p) \/ HupInLock(p) \/ Crash(p)
             \/ LongLock(p)
    BY <1>1, <2>3, TelnetQuiet
  <2> QED BY <1>3, <2>1, <2>2, <2>3 DEF TelnetStep
<1>4. ASSUME NEW p \in Web, WebStep(p) \/ (WwwClear(p) /\ ~WwwHits(p)) PROVE Goes
  <2>1. CASE \E u \in Users : WwwBegin(p, u)
    BY <1>1, <2>1, WebQuiet
  <2>2. CASE WwwAlloc(p) \/ WwwSetPid(p) \/ (WwwClear(p) /\ ~WwwHits(p))
    BY <1>1, <2>2, WebWrites
  <2>3. CASE \/ WwwCheckMulti(p) \/ WwwKick(p) \/ WwwFull(p) \/ WwwStale(p) \/ WwwLogoff(p)
             \/ WwwFail(p)
    BY <1>1, <2>3, WebQuiet
  <2> QED BY <1>4, <2>1, <2>2, <2>3 DEF WebStep
<1>5. ASSUME NEW p \in Actors, KickStep(p) \/ (KickClear(p) /\ ~KickHits(p)) PROVE Goes
  BY <1>1, <1>5, KickWrites DEF KickStep
<1> QED BY <1>3, <1>4, <1>5 DEF UnhitNext

-----------------------------------------------------------------------------
(* What a write to the table does to the lists. *)

\* Chain and Ring read the lists back with the bound the properties use.
LEMMA ReadBack ==
  ASSUME NEW t, NEW f, NEW o, NEW b, Stands(t, f, o, b)
  PROVE  /\ Chain(t.next, t.hashhead[0], USHM_SIZE+1) = f
         /\ Ring(t.list_next, t.listhead, USHM_SIZE+1) = o
         /\ \A h \in HashValues : Chain(t.next, t.hashhead[h], USHM_SIZE+1) = b[h]
         /\ [h \in {Hash[u] : u \in Users} |->
                 Chain(t.next, t.hashhead[h], USHM_SIZE+1)] = b
<1>1. USHM_SIZE+1 \in Nat /\ USHM_SIZE+1 >= N
  BY Numbers DEF N
<1>2. \A h \in HashValues : Chain(t.next, t.hashhead[h], USHM_SIZE+1) = b[h]
  BY <1>1, Reads
<1>3. b = [h \in HashValues |-> b[h]]
  BY DEF Stands, HashedIs
<1> QED BY <1>1, <1>2, <1>3, Reads DEF HashValues

\* The user of a slot, as LoginTable has it.
WhoIs(t) == [n \in Slots |-> IF t.uinfo[n].active THEN t.uinfo[n].uid ELSE 0]

\* LoginTable's place of a new entry is the one the code finds.
LEMMA PlaceForIs ==
  ASSUME NEW f, NEW o, NEW b, Stands(utmp, f, o, b), NEW u \in Users,
         NEW i, Place(utmp, o, u, i)
  PROVE  Table!PlaceFor(o, u) = i
<1> DEFINE W == WhoIs(utmp)
           P(k) == /\ \A j \in 1..k-1 : W[o[j]] < u
                   /\ k <= Len(o) => W[o[k]] >= u
<1>1. /\ o \in Seq(Slots) /\ Values(o) = ActiveSlots(utmp) /\ utmp \in TableType
      /\ i \in 1..Len(o)+1 /\ u \in Nat
  BY Numbers DEF Stands, OnlineIs, RingIs, Place
<1>2. \A j \in 1..Len(o) : o[j] \in Slots /\ utmp.uinfo[o[j]].active
  BY <1>1, ValuesOf DEF ActiveSlots
<1>3. \A j \in 1..Len(o) : W[o[j]] = utmp.uinfo[o[j]].uid /\ W[o[j]] \in Nat
  BY <1>1, <1>2, UidsAre DEF WhoIs
<1>4. Table!PlaceFor(o, u) = CHOOSE k \in 1..Len(o)+1 : P(k)
  BY DEF Table!PlaceFor, WhoIs
<1> HIDE DEF W
<1>5. P(i)
  BY <1>1, <1>3 DEF Place
<1>6. ASSUME NEW k \in 1..Len(o)+1, P(k) PROVE k = i
  <2>1. CASE k < i
    <3>1. k \in 1..Len(o) /\ k \in 1..i-1
      BY <1>1, <2>1
    <3>2. W[o[k]] < u /\ W[o[k]] >= u /\ W[o[k]] \in Nat
      BY <1>3, <1>5, <1>6, <3>1
    <3> QED BY <1>1, <3>2
  <2>2. CASE k > i
    <3>1. i \in 1..Len(o) /\ i \in 1..k-1
      BY <1>1, <2>2
    <3>2. W[o[i]] < u /\ W[o[i]] >= u /\ W[o[i]] \in Nat
      BY <1>3, <1>5, <1>6, <3>1
    <3> QED BY <1>1, <3>2
  <2> QED BY <1>1, <2>1, <2>2
<1> HIDE DEF P
<1> QED BY <1>1, <1>4, <1>5, <1>6

\* The place and the new ring of a login.
LEMMA LoginGivesThis ==
  ASSUME NEW t, NEW f, NEW o, NEW b, Stands(t, f, o, b), Len(f) # 0,
         NEW e \in Entry, e.active, e.uid \in Users, NEW c \in {"login", "wwwlogin"}
  PROVE  \E i \in 1..Len(o)+1 :
            Place(t, o, e.uid, i) /\ LoginGives(t, f, Table!InsertAt(o, i, f[1]), b, e, c)
<1>1. f \in Seq(Slots) /\ o \in Seq(Slots) /\ t \in TableType
  BY DEF Stands, FreeIs, ChainIs, OnlineIs, RingIs
<1>2. PICK i \in 1..Len(o)+1 : Place(t, o, e.uid, i)
  BY <1>1, PlaceExists
<1>3. f[1] \in Slots
  BY <1>1
<1>4. PICK z : z = Table!InsertAt(o, i, f[1])
  OBVIOUS
<1>5. Gains(z, o, i, f[1])
  BY <1>1, <1>3, <1>4, Inserted
<1>6. LoginGives(t, f, z, b, e, c)
  BY <1>2, <1>5, LoginStands
<1> QED BY <1>2, <1>4, <1>6

\* A login: getnewutmpent() implements LoginTable's Login.
LEMMA LoginWrites ==
  ASSUME NEW f, NEW o, NEW b, Stands(utmp, f, o, b), NEW e \in Entry, e.active,
         e.uid \in Users, NEW c \in {"login", "wwwlogin"}, NewSlot(utmp) # 0,
         utmp' = NewUtmpEnt(utmp, e, c)
  PROVE  Sound' /\ Table!Login(e.uid)
<1>1. /\ f \in Seq(Slots) /\ utmp.hashhead[0] = (IF Len(f) = 0 THEN 0 ELSE f[1])
      /\ o \in Seq(Slots) /\ utmp \in TableType
      /\ Values(f) = Slots \ ActiveSlots(utmp) /\ b \in [HashValues -> Seq(Slots)]
  BY DEF Stands, FreeIs, ChainIs, OnlineIs, RingIs, HashedIs
<1>2. Len(f) # 0
  BY <1>1 DEF NewSlot
<1>3. PICK i \in 1..Len(o)+1 :
        Place(utmp, o, e.uid, i) /\ LoginGives(utmp, f, Table!InsertAt(o, i, f[1]), b, e, c)
  BY <1>2, LoginGivesThis
<1>4. f[1] \in Slots /\ Head(f) = f[1] /\ f # <<>>
  BY <1>1, <1>2
<1>5. PICK z : z = Table!InsertAt(o, i, f[1])
  OBVIOUS
<1>7. PICK bb : bb = [b EXCEPT ![Hash[e.uid]] = <<f[1]>> \o @]
  OBVIOUS
<1>8. /\ f[1] \in Slots \ ActiveSlots(utmp)
      /\ utmp'.uinfo = [utmp.uinfo EXCEPT ![f[1]] = e]
      /\ Stands(utmp', Tail(f), z, bb)
  <2>1. LoginGives(utmp, f, z, b, e, c)
    BY <1>3, <1>5
  <2> QED BY <1>7, <2>1 DEF LoginGives
<1>9. Sound'
  BY <1>8 DEF Sound
<1>10. Table!PlaceFor(o, e.uid) = i
  BY <1>3, PlaceForIs
<1>11. WhoIs(utmp') = [WhoIs(utmp) EXCEPT ![f[1]] = e.uid]
  <2>1. utmp.uinfo \in [Slots -> Entry]
    BY <1>1 DEF TableType
  <2> QED BY <1>4, <1>8, <2>1 DEF WhoIs
<1>12. /\ Chain(utmp'.next, utmp'.hashhead[0], USHM_SIZE+1) = Tail(f)
       /\ Ring(utmp'.list_next, utmp'.listhead, USHM_SIZE+1) = z
       /\ [h \in {Hash[u] : u \in Users} |->
                 Chain(utmp'.next, utmp'.hashhead[h], USHM_SIZE+1)] = bb
  BY <1>8, ReadBack
<1>13. /\ Chain(utmp.next, utmp.hashhead[0], USHM_SIZE+1) = f
       /\ Ring(utmp.list_next, utmp.listhead, USHM_SIZE+1) = o
       /\ [h \in {Hash[u] : u \in Users} |->
                 Chain(utmp.next, utmp.hashhead[h], USHM_SIZE+1)] = b
  BY ReadBack
<1>14. Table!Login(e.uid)
  BY <1>4, <1>5, <1>7, <1>10, <1>11, <1>12, <1>13 DEF Table!Login, WhoIs
<1> QED BY <1>9, <1>14

\* A logout: clear_utmp2() of a slot in use implements LoginTable's Logout.
LEMMA LogoutWrites ==
  ASSUME NEW f, NEW o, NEW b, Stands(utmp, f, o, b), NEW n \in ActiveSlots(utmp),
         NEW g \in Garbage, utmp' = Clear2(utmp, n, g)
  PROVE  Sound' /\ Table!Logout(n)
<1>1. o \in Seq(Slots) /\ Values(o) = ActiveSlots(utmp) /\ utmp \in TableType
  BY DEF Stands, OnlineIs, RingIs
<1>2. PICK bb : bb = [b EXCEPT ![Hash[utmp.uinfo[n].uid]] = Table!Drop(@, n)]
  OBVIOUS
<1>3. PICK z : z = Table!Drop(o, n)
  OBVIOUS
<1>4. /\ utmp'.uinfo = [utmp.uinfo EXCEPT ![n] = Cleared(g)]
      /\ Stands(utmp', <<n>> \o f, z, bb)
  BY <1>2, <1>3, LogoutStands
<1>5. Sound'
  BY <1>4 DEF Sound
<1>6. n \in Slots /\ WhoIs(utmp)[n] = utmp.uinfo[n].uid
  BY DEF ActiveSlots, WhoIs
<1>7. WhoIs(utmp') = [WhoIs(utmp) EXCEPT ![n] = 0]
  <2>1. utmp.uinfo \in [Slots -> Entry]
    BY <1>1 DEF TableType
  <2>2. /\ ~utmp'.uinfo[n].active
        /\ \A m \in Slots : m # n => utmp'.uinfo[m] = utmp.uinfo[m]
    <3>1. g \in Users \cup {0}
      BY UtmpAssumption
    <3> QED BY <1>4, <1>6, <2>1, <3>1, ClearedIs
  <2> QED BY <1>6, <2>2 DEF WhoIs
<1>8. /\ Chain(utmp'.next, utmp'.hashhead[0], USHM_SIZE+1) = <<n>> \o f
      /\ Ring(utmp'.list_next, utmp'.listhead, USHM_SIZE+1) = z
      /\ [h \in {Hash[u] : u \in Users} |->
                 Chain(utmp'.next, utmp'.hashhead[h], USHM_SIZE+1)] = bb
  BY <1>4, ReadBack
<1>9. /\ Chain(utmp.next, utmp.hashhead[0], USHM_SIZE+1) = f
      /\ Ring(utmp.list_next, utmp.listhead, USHM_SIZE+1) = o
      /\ [h \in {Hash[u] : u \in Users} |->
                 Chain(utmp.next, utmp.hashhead[h], USHM_SIZE+1)] = b
  BY ReadBack
<1>10. n \in Table!Values(o)
  BY <1>1 DEF Table!Values, Values
<1>11. Table!Logout(n)
  BY <1>2, <1>3, <1>6, <1>7, <1>8, <1>9, <1>10 DEF Table!Logout, WhoIs
<1> QED BY <1>5, <1>11

\* A write that leaves the lists alone.
LEMMA OtherWrites ==
  ASSUME NEW f, NEW o, NEW b, Stands(utmp, f, o, b),
         \/ utmp' = utmp
         \/ \E n \in Slots : utmp' = [utmp EXCEPT !.uinfo[n].pid = 1]
  PROVE  Sound' /\ UNCHANGED Table!tableVars
<1>1. CASE utmp' = utmp
  BY <1>1 DEF Sound, Table!tableVars
<1>2. ASSUME NEW n \in Slots, utmp' = [utmp EXCEPT !.uinfo[n].pid = 1]
      PROVE  Sound' /\ UNCHANGED Table!tableVars
  <2>1. /\ Stands(utmp', f, o, b)
        /\ \A m \in Slots : /\ utmp'.uinfo[m].active = utmp.uinfo[m].active
                            /\ utmp'.uinfo[m].uid = utmp.uinfo[m].uid
    BY <1>2, PidStands
  <2>2. WhoIs(utmp') = WhoIs(utmp)
    BY <2>1 DEF WhoIs
  <2>3. /\ Chain(utmp'.next, utmp'.hashhead[0], USHM_SIZE+1) = f
        /\ Ring(utmp'.list_next, utmp'.listhead, USHM_SIZE+1) = o
        /\ [h \in {Hash[u] : u \in Users} |->
                 Chain(utmp'.next, utmp'.hashhead[h], USHM_SIZE+1)] = b
    BY <2>1, ReadBack
  <2>4. /\ Chain(utmp.next, utmp.hashhead[0], USHM_SIZE+1) = f
        /\ Ring(utmp.list_next, utmp.listhead, USHM_SIZE+1) = o
        /\ [h \in {Hash[u] : u \in Users} |->
                 Chain(utmp.next, utmp.hashhead[h], USHM_SIZE+1)] = b
    BY ReadBack
  <2>5. UNCHANGED Table!tableVars
    BY <2>2, <2>3, <2>4 DEF Table!tableVars, WhoIs
  <2> QED BY <2>1, <2>5 DEF Sound
<1> QED BY <1>1, <1>2

\* Every write keeps the lists sound and implements a step of LoginTable.
LEMMA WriteKeeps ==
  ASSUME Sound, Write(utmp, utmp')
  PROVE  Sound' /\ [Table!Next]_(Table!tableVars)
<1>1. PICK f, o, b : Stands(utmp, f, o, b)
  BY DEF Sound
<1>2. CASE \/ utmp' = utmp
           \/ \E n \in Slots : utmp' = [utmp EXCEPT !.uinfo[n].pid = 1]
  BY <1>1, <1>2, OtherWrites
<1>3. CASE \E e \in Entry, c \in {"login", "wwwlogin"} :
             /\ e.active /\ e.uid \in Users /\ NewSlot(utmp) # 0
             /\ utmp' = NewUtmpEnt(utmp, e, c)
  BY <1>1, <1>3, LoginWrites DEF Table!Next
<1>4. CASE \E n \in ActiveSlots(utmp), g \in Garbage : utmp' = Clear2(utmp, n, g)
  BY <1>1, <1>4, LogoutWrites DEF Table!Next, ActiveSlots
<1> QED BY <1>2, <1>3, <1>4 DEF Write

-----------------------------------------------------------------------------
(* The invariant, and what it says of the table. *)

LEMMA IInvInit ==
  ASSUME Init
  PROVE  IInv
<1>1. Sound
  BY EmptyStands DEF Init, Sound
<1>2. NoKick \in Kicks /\ NoKick.todo = <<>>
  BY DEF NoKick, Kicks
<1>3. Acts
  <2>1. 0 \in Links0 /\ "none" \in Places /\ "none" \notin HasEntry
    BY Numbers DEF Places, HasEntry
  <2>2. /\ lock \in Actors \cup {Free} /\ scan \in Links0 /\ sig \subseteq Telnet
        /\ pc \in [Actors -> Places] /\ user \in [Actors -> Users \cup {0}]
        /\ ent \in [Actors -> Links0] /\ kick \in [Actors -> Kicks]
    BY <1>2, <2>1 DEF Init, Nobody
  <2>3. \A p \in Actors : Fits(p, pc[p], user[p], ent[p], kick[p], lock, scan)
    BY <1>2, <2>1 DEF Init, Fits
  <2> QED BY <2>2, <2>3 DEF Acts
<1> QED BY <1>1, <1>3 DEF IInv

LEMMA IInvNext ==
  ASSUME IInv, [UnhitNext]_vars
  PROVE  IInv' /\ [Table!Next]_(Table!tableVars)
<1>1. CASE UnhitNext
  <2>1. Acts' /\ Write(utmp, utmp')
    BY <1>1, AllGo DEF Goes
  <2>2. Sound' /\ [Table!Next]_(Table!tableVars)
    BY <2>1, WriteKeeps DEF IInv
  <2> QED BY <2>1, <2>2 DEF IInv
<1>2. CASE UNCHANGED vars
  <2>1. Acts'
    BY <1>2 DEF IInv, Acts, vars
  <2>2. Sound' /\ [Table!Next]_(Table!tableVars)
    BY <1>2, WriteKeeps DEF IInv, vars, Write
  <2> QED BY <2>1, <2>2 DEF IInv
<1> QED BY <1>1, <1>2

LEMMA TypeFollows ==
  ASSUME IInv
  PROVE  TypeOK
<1>1. utmp \in TableType
  BY DEF IInv, Sound, Stands
<1>2. \A p \in Actors :
        /\ kick[p].uid \in Users \cup {0} /\ kick[p].step \in {"signal", "clear"}
        /\ kick[p].todo \in Seq([ent : Slots, pid : Telnet \cup {0, 1}])
  BY DEF IInv, Acts, Kicks
<1> QED BY <1>1, <1>2 DEF TypeOK, TableType, HashValues, Links0, N, IInv, Acts, Places, Nobody

LEMMA FreeListFollows ==
  ASSUME IInv
  PROVE  FreeListSound
<1>1. PICK f, o, b : Stands(utmp, f, o, b)
  BY DEF IInv, Sound
<1>2. f \in Seq(Slots) /\ Distinct(f) /\ Values(f) = Slots \ ActiveSlots(utmp)
  BY <1>1 DEF Stands, FreeIs, ChainIs
<1>3. Lists(f, Slots \ ActiveSlots(utmp))
  BY <1>2, DistinctLists
<1> QED BY <1>1, <1>3, ReadBack DEF FreeListSound

LEMMA HashListsFollow ==
  ASSUME IInv
  PROVE  HashListsSound
<1>1. PICK f, o, b : Stands(utmp, f, o, b)
  BY DEF IInv, Sound
<1>2. DOMAIN utmp.hashhead \ {0} = HashValues
  <2>1. 0 \notin HashValues
    BY <1>1, ListsApart
  <2> QED BY <1>1, <2>1 DEF Stands, TableType
<1>3. ASSUME NEW h \in HashValues
      PROVE  Lists(Chain(utmp.next, utmp.hashhead[h], USHM_SIZE+1), OfHash(utmp, h))
  <2>1. b[h] \in Seq(Slots) /\ Distinct(b[h]) /\ Values(b[h]) = OfHash(utmp, h)
    BY <1>1 DEF Stands, HashedIs, ChainIs
  <2>2. Lists(b[h], OfHash(utmp, h))
    BY <2>1, DistinctLists
  <2>3. Chain(utmp.next, utmp.hashhead[h], USHM_SIZE+1) = b[h]
    BY <1>1, ReadBack
  <2> QED BY <2>2, <2>3
<1> QED BY <1>2, <1>3 DEF HashListsSound, OfHash

LEMMA RingFollows ==
  ASSUME IInv
  PROVE  RingSound
<1>1. PICK f, o, b : Stands(utmp, f, o, b)
  BY DEF IInv, Sound
<1>2. /\ o \in Seq(Slots) /\ Distinct(o) /\ Values(o) = ActiveSlots(utmp)
      /\ RingIs(utmp.list_next, utmp.list_prev, utmp.listhead, o)
      /\ Ascending(utmp, o)
  BY <1>1 DEF Stands, OnlineIs, RingIs
<1>3. Ring(utmp.list_next, utmp.listhead, USHM_SIZE+1) = o
  BY <1>1, ReadBack
<1>4. Lists(o, ActiveSlots(utmp))
  BY <1>2, DistinctLists
<1>5. ASSUME NEW n \in Values(o) PROVE utmp.list_prev[utmp.list_next[n]] = n
  <2>1. PICK j \in 1..Len(o) : n = o[j]
    BY <1>2, ValuesOf
  <2>2. Len(o) \in Nat
    BY <1>2
  <2>3. CASE j = Len(o)
    <3>1. utmp.list_next[o[j]] = o[1] /\ 1 \in 1..Len(o)
      BY <1>2, <2>2, <2>3 DEF RingIs
    <3>2. utmp.list_prev[o[1]] = o[Len(o)]
      BY <1>2, <3>1 DEF RingIs
    <3> QED BY <2>1, <2>3, <3>1, <3>2
  <2>4. CASE j # Len(o)
    <3>1. utmp.list_next[o[j]] = o[j+1] /\ j+1 \in 1..Len(o) /\ j+1 # 1 /\ (j+1)-1 = j
      BY <1>2, <2>2, <2>4 DEF RingIs
    <3>2. utmp.list_prev[o[j+1]] = o[(j+1)-1]
      BY <1>2, <3>1 DEF RingIs
    <3> QED BY <2>1, <3>1, <3>2
  <2> QED BY <2>3, <2>4
<1>6. ASSUME NEW i \in 1..Len(o)-1
      PROVE  utmp.uinfo[o[i]].uid <= utmp.uinfo[o[i+1]].uid
  <2>1. i \in 1..Len(o) /\ i+1 \in 1..Len(o) /\ i < i+1
    BY <1>2
  <2> QED BY <1>2, <2>1 DEF Ascending
<1> QED BY <1>3, <1>4, <1>5, <1>6 DEF RingSound

\* A multiple of the width of a counter.
LEMMA Multiple ==
  ASSUME NEW k \in Int
  PROVE  (k * CounterMod) % CounterMod = 0
<1>1. CounterMod \in Nat /\ CounterMod > 0
  BY Numbers
<1> QED BY <1>1

LEMMA CountersFollow ==
  ASSUME IInv
  PROVE  CountersAgree
<1>1. PICK f, o, b : Stands(utmp, f, o, b)
  BY DEF IInv, Sound
<1>2. utmp.number = Cardinality(ActiveSlots(utmp))
  BY <1>1 DEF Stands, Counted
<1>3. PICK k \in Int : Balance(utmp) = k * CounterMod
  BY <1>1 DEF Stands, Counted
<1>4. Balance(utmp) % CounterMod = 0
  BY <1>3, Multiple
<1> QED BY <1>2, <1>4 DEF CountersAgree, Balance

\* The table as it is created has the lists LoginTable begins with.
LEMMA TableInit ==
  ASSUME Init
  PROVE  Table!Init
<1> DEFINE f == [i \in 1..N |-> i]
           b == [h \in HashValues |-> <<>>]
<1>1. Stands(utmp, f, <<>>, b)
  BY EmptyStands DEF Init
<1>2. Table!Cardinality(Slots) = N /\ Slots = 1..N
  <2>1. Cardinality(Slots) = N /\ Slots = 1..N
    BY Numbers, FS_Interval
  <2>2. Table!Cardinality(Slots) = Cardinality(Slots)
    BY DEF Table!Cardinality, Cardinality
  <2> QED BY <2>1, <2>2
<1>3. f \in [1..Table!Cardinality(Slots) -> Slots] /\ Table!Values(f) = Slots
  BY <1>2 DEF Table!Values
<1>4. b = [h \in Table!Hashes |-> <<>>]
  BY DEF Table!Hashes, HashValues
<1>5. WhoIs(utmp) = [n \in Slots |-> 0]
  BY DEF Init, EmptyUtmp, BlankEntry, WhoIs
<1> HIDE DEF f, b
<1>6. /\ Chain(utmp.next, utmp.hashhead[0], USHM_SIZE+1) = f
      /\ Ring(utmp.list_next, utmp.listhead, USHM_SIZE+1) = <<>>
      /\ [h \in {Hash[u] : u \in Users} |->
                 Chain(utmp.next, utmp.hashhead[h], USHM_SIZE+1)] = b
  BY <1>1, ReadBack
<1>7. /\ Chain(utmp.next, utmp.hashhead[0], USHM_SIZE+1)
           \in [1..Table!Cardinality(Slots) -> Slots]
      /\ Table!Values(Chain(utmp.next, utmp.hashhead[0], USHM_SIZE+1)) = Slots
  BY <1>3, <1>6
<1>8. [h \in {Hash[u] : u \in Users} |->
          Chain(utmp.next, utmp.hashhead[h], USHM_SIZE+1)] = [h \in Table!Hashes |-> <<>>]
  BY <1>4, <1>6
<1>9. [n \in Slots |-> IF utmp.uinfo[n].active THEN utmp.uinfo[n].uid ELSE 0]
         = [n \in Slots |-> 0]
  BY <1>5 DEF WhoIs
<1> QED BY <1>6, <1>7, <1>8, <1>9 DEF Table!Init

-----------------------------------------------------------------------------
(* The theorems.  They hold up to the first clear that hits a leftover. *)

\* The inductive invariant: between any two sections under the lock of
\* getnewutmpent() and clear_utmp2() the arrays stand for three lists of slots.
THEOREM Invariance ==
  UnhitSpec => []IInv
<1>1. Init => IInv
  BY IInvInit
<1>2. IInv /\ [UnhitNext]_vars => IInv'
  BY IInvNext
<1> QED BY <1>1, <1>2, PTL DEF UnhitSpec

\* TypeOK: links are slots or null, the number of logins lies between 0 and
\* the size of the table, every kick is of slots of the table.
THEOREM TypeCorrect ==
  UnhitSpec => []TypeOK
<1>1. IInv => TypeOK
  BY TypeFollows
<1> QED BY <1>1, Invariance, PTL

\* FreeListSound: getnewutmpent() never gives out a slot that is in use and
\* clear_utmp2() loses none, whatever kicks, crashes and clean passes do.
THEOREM FreeListKept ==
  UnhitSpec => []FreeListSound
<1>1. IInv => FreeListSound
  BY FreeListFollows
<1> QED BY <1>1, Invariance, PTL

\* HashListsSound: the hash lists by which apply_utmp() finds the logins of a
\* user hold exactly these.
THEOREM HashListsKept ==
  UnhitSpec => []HashListsSound
<1>1. IInv => HashListsSound
  BY HashListsFollow
<1> QED BY <1>1, Invariance, PTL

\* RingSound: the ring apply_ulist_addr() shows has every slot in use once,
\* can be followed in both directions, and is sorted by name.
THEOREM RingKept ==
  UnhitSpec => []RingSound
<1>1. IInv => RingSound
  BY RingFollows
<1> QED BY <1>1, Invariance, PTL

\* CountersAgree: the number MAXACTIVE is compared with is that of the slots in
\* use, and the login statistics differ by it.
THEOREM CountersKept ==
  UnhitSpec => []CountersAgree
<1>1. IInv => CountersAgree
  BY CountersFollow
<1> QED BY <1>1, Invariance, PTL

\* TableSpec: each step is a login or a logout of LoginTable, or changes
\* nothing that can be seen in the lists.
THEOREM TableImplemented ==
  UnhitSpec => TableSpec
<1>1. Init => Table!Init
  BY TableInit
<1>2. IInv /\ [UnhitNext]_vars => [Table!Next]_(Table!tableVars)
  BY IInvNext
<1> QED BY <1>1, <1>2, Invariance, PTL DEF UnhitSpec, TableSpec, Table!Spec

-----------------------------------------------------------------------------
(* Who may take away the entry of a running telnet process. *)

Running == {"cleaning", "entered", "started", "exiting"}
Holds(p) == pc[p] \in Running /\ Owns(p)
\* An entry a running process holds has its user's uid.
Owned == \A p \in Telnet : Holds(p) => utmp.uinfo[ent[p]].uid = user[p]
OInv == IInv /\ Owned

\* The three ways LiveEntryKept allows.
MayLose(p) ==
    \/ pc[p] = "exiting" /\ pc'[p] = "none"
    \/ \E q \in Actors : lock = q /\ Kicking(q) /\ kick[q].uid = user[p]
    \/ \E w \in Web : WwwSetPid(w) /\ ent[w] = ent[p]

\* No process comes to run but those that ran, with the slot they have.
SameRunning ==
    \A q \in Telnet : pc'[q] \in Running =>
        pc[q] \in Running /\ ent'[q] = ent[q] /\ user'[q] = user[q]
\* The entry in slot n alone changes and is nobody's then; who held it loses
\* it in a way that is allowed.
Cut(n) ==
    /\ \A m \in Slots \ {n} : utmp'.uinfo[m] = utmp.uinfo[m]
    /\ \A p \in Telnet : ~OwnEntry(utmp'.uinfo[n], p)
    /\ \A p \in Telnet : Holds(p) /\ ent[p] = n => MayLose(p)

\* A slot that was cleared is nobody's.
LEMMA ClearCuts ==
  ASSUME IInv, NEW n \in ActiveSlots(utmp), NEW g \in Garbage, utmp' = Clear2(utmp, n, g),
         \A p \in Telnet : Holds(p) /\ ent[p] = n => MayLose(p)
  PROVE  Cut(n)
<1>1. PICK f, o, b : Stands(utmp, f, o, b)
  BY DEF IInv, Sound
<1>2. utmp.uinfo \in [Slots -> Entry]
  BY <1>1 DEF Stands, TableType
<1>3. utmp'.uinfo = [utmp.uinfo EXCEPT ![n] = Cleared(g)]
  BY <1>1, LogoutStands
<1>4. ~Cleared(g).active
  <2>1. g \in Users \cup {0}
    BY UtmpAssumption
  <2> QED BY <2>1, ClearedIs
<1>5. n \in Slots
  BY DEF ActiveSlots
<1>6. utmp'.uinfo[n] = Cleared(g) /\ \A m \in Slots \ {n} : utmp'.uinfo[m] = utmp.uinfo[m]
  BY <1>2, <1>3, <1>5
<1> QED BY <1>4, <1>6 DEF Cut, OwnEntry

LEMMA UinfoIs ==
  ASSUME IInv
  PROVE  utmp \in TableType /\ utmp.uinfo \in [Slots -> Entry] /\ Marked(utmp)
BY DEF IInv, Sound, Stands, TableType

\* The steps that leave the table alone.
LEMMA RunQuiet ==
  ASSUME IInv, NEW p \in Telnet,
         \/ (\E v \in Users : Connect(p, v) \/ KickUser(p, v))
         \/ CheckMulti(p) \/ PickWindow(p) \/ KickWindow(p) \/ HangUp(p)
         \/ EnterFull(p) \/ Start(p) \/ Leave(p) \/ Hup(p) \/ HupInLock(p) \/ Crash(p)
         \/ LongLock(p)
  PROVE  SameRunning /\ utmp' = utmp
<1>a. /\ p \in Actors /\ \A q \in Telnet : q \in Actors
      /\ pc \in [Actors -> Places] /\ user \in [Actors -> Users \cup {0}]
      /\ ent \in [Actors -> Links0]
  BY DEF Actors, IInv, Acts
<1>1. CASE \/ (\E v \in Users : Connect(p, v) \/ KickUser(p, v))
           \/ CheckMulti(p) \/ PickWindow(p) \/ KickWindow(p)
  BY <1>1, <1>a DEF Connect, KickUser, CheckMulti, PickWindow, KickWindow, Goto, SameRunning,
     Running
<1>2. CASE HangUp(p) \/ EnterFull(p) \/ Crash(p) \/ LongLock(p)
  BY <1>2, <1>a DEF HangUp, EnterFull, Crash, LongLock, Ends, Goto, SameRunning, Running
<1>3. CASE Start(p) \/ Leave(p) \/ HupInLock(p)
  BY <1>3, <1>a DEF Start, Leave, HupInLock, Goto, SameRunning, Running
<1>4. CASE Hup(p)
  BY <1>4, <1>a DEF Hup, Ends, Goto, SameRunning, Running
<1> QED BY <1>1, <1>2, <1>3, <1>4

LEMMA RunWebQuiet ==
  ASSUME IInv, NEW w \in Web,
         \/ \E v \in Users : WwwBegin(w, v)
         \/ WwwCheckMulti(w) \/ WwwKick(w) \/ WwwFull(w) \/ WwwStale(w) \/ WwwLogoff(w)
         \/ WwwFail(w)
  PROVE  SameRunning /\ utmp' = utmp
<1>a. /\ w \in Actors /\ \A q \in Telnet : q \in Actors /\ q # w
      /\ pc \in [Actors -> Places] /\ user \in [Actors -> Users \cup {0}]
      /\ ent \in [Actors -> Links0]
  BY UtmpAssumption DEF Actors, IInv, Acts
<1>1. CASE (\E v \in Users : WwwBegin(w, v)) \/ WwwCheckMulti(w) \/ WwwKick(w)
  BY <1>1, <1>a DEF WwwBegin, WwwCheckMulti, WwwKick, Goto, SameRunning
<1>2. CASE WwwFull(w) \/ WwwStale(w)
  BY <1>2, <1>a DEF WwwFull, WwwStale, Ends, Goto, SameRunning
<1>3. CASE WwwLogoff(w)
  BY <1>3, <1>a DEF WwwLogoff, Goto, SameRunning
<1>4. CASE WwwFail(w)
  BY <1>4, <1>a DEF WwwFail, Ends, Goto, SameRunning
<1> QED BY <1>1, <1>2, <1>3, <1>4

\* The steps that clear.
LEMMA RunCut ==
  ASSUME OInv, NEW p \in Telnet, Clean(p) \/ ClearOwn(p)
  PROVE  SameRunning /\ (utmp' = utmp \/ \E n \in Slots : Cut(n))
<1>a. /\ p \in Actors /\ \A q \in Telnet : q \in Actors
      /\ pc \in [Actors -> Places] /\ user \in [Actors -> Users \cup {0}]
      /\ ent \in [Actors -> Links0]
      /\ \A q \in Telnet : q # 0 /\ q # 1
      /\ Fits(p, pc[p], user[p], ent[p], kick[p], lock, scan)
  BY UtmpAssumption DEF Actors, OInv, IInv, Acts
<1>b. IInv /\ Marked(utmp) /\ \A n \in ActiveSlots(utmp) : n \in Slots
  BY UinfoIs DEF OInv, ActiveSlots
<1>c. \A q \in Telnet : Holds(q) => utmp.uinfo[ent[q]].pid = q
  BY DEF Holds, Owns, OwnEntry
<1>1. CASE Clean(p)
  <2>1. SameRunning
    BY <1>1, <1>a DEF Clean, Release, Goto, SameRunning, Running
  <2>2. PICK idle \in BOOLEAN, g \in Garbage :
          utmp' = IF Reapable(utmp.uinfo[scan], idle) THEN Clear2(utmp, scan, g) ELSE utmp
    BY <1>1 DEF Clean
  <2>3. ASSUME Reapable(utmp.uinfo[scan], idle) PROVE scan \in Slots /\ Cut(scan)
    <3>1. scan \in Slots
      BY <1>1, <1>a DEF Clean, Fits
    <3>2. scan \in ActiveSlots(utmp)
      BY <2>3, <3>1 DEF Reapable, ActiveSlots
    <3>3. ASSUME NEW q \in Telnet, Holds(q), ent[q] = scan PROVE MayLose(q)
      <4>1. utmp.uinfo[scan].pid = q
        BY <1>c, <3>3
      <4>2. pc[q] = "none"
        BY <1>a, <2>3, <4>1 DEF Reapable
      <4> QED BY <3>3, <4>2 DEF Holds, Running
    <3>4. utmp' = Clear2(utmp, scan, g)
      BY <2>2, <2>3
    <3> QED BY <1>b, <3>1, <3>2, <3>3, <3>4, ClearCuts
  <2> QED BY <2>1, <2>2, <2>3
<1>2. CASE ClearOwn(p)
  <2>1. SameRunning /\ pc[p] = "exiting" /\ pc'[p] = "none"
    BY <1>2, <1>a DEF ClearOwn, Ends, Goto, SameRunning, Running
  <2>2. PICK g \in Garbage :
          utmp' = IF ClearMatches(utmp, ent[p], user[p], p) THEN Clear2(utmp, ent[p], g) ELSE utmp
    BY <1>2 DEF ClearOwn
  <2>3. ent[p] \in Slots
    BY <1>a, <2>1 DEF Fits, HasEntry
  <2>4. ASSUME ClearMatches(utmp, ent[p], user[p], p) PROVE Cut(ent[p])
    <3>1. utmp.uinfo[ent[p]].pid = p
      BY <2>4 DEF ClearMatches
    <3>2. ent[p] \in ActiveSlots(utmp)
      BY <1>b, <2>3, <3>1, MatchActive
    <3>3. ASSUME NEW q \in Telnet, Holds(q), ent[q] = ent[p] PROVE MayLose(q)
      <4>1. q = p
        BY <1>c, <3>1, <3>3
      <4> QED BY <2>1, <4>1 DEF MayLose
    <3>4. utmp' = Clear2(utmp, ent[p], g)
      BY <2>2, <2>4
    <3> QED BY <1>b, <3>2, <3>3, <3>4, ClearCuts
  <2> QED BY <2>1, <2>2, <2>3, <2>4
<1> QED BY <1>1, <1>2

\* The steps of a kick: signal and lock leave the table alone, and the clear
\* takes an entry of the user who is kicked.
LEMMA RunKick ==
  ASSUME OInv, NEW p \in Actors, KickStep(p) \/ (KickClear(p) /\ ~KickHits(p))
  PROVE  SameRunning /\ (utmp' = utmp \/ \E n \in Slots : Cut(n))
<1>a. kick[p] \in Kicks /\ \A q \in Telnet : q \in Actors
  BY DEF Actors, OInv, IInv, Acts
<1>b. /\ IInv /\ \A n \in ActiveSlots(utmp) : n \in Slots
      /\ Fits(p, pc[p], user[p], ent[p], kick[p], lock, scan)
  BY DEF OInv, IInv, Acts, ActiveSlots
<1>1. CASE KickSignal(p) \/ KickLock(p)
  BY <1>1 DEF KickSignal, KickLock, SameRunning
<1>2. CASE KickClear(p) /\ ~KickHits(p)
  <2>1. SameRunning /\ Kicking(p) /\ lock = p
    BY <1>2 DEF KickClear, SameRunning
  <2>2. PICK i : i = Head(kick[p].todo)
    OBVIOUS
  <2>3. i.ent \in Slots /\ kick[p].uid \in Users
    <3> DEFINE Item == [ent : Slots, pid : Telnet \cup {0, 1}]
    <3>1. kick[p].todo # <<>> /\ kick[p].todo \in Seq(Item) /\ kick[p].uid \in Users
      BY <1>a, <1>b, <2>1 DEF Kicking, Kicks, Fits
    <3>2. i \in Item
      <4> HIDE DEF Item
      <4> QED BY <2>2, <3>1
    <3> QED BY <3>1, <3>2
  <2>4. PICK g \in Garbage :
          utmp' = IF ClearMatches(utmp, i.ent, kick[p].uid, i.pid)
                  THEN Clear2(utmp, i.ent, g) ELSE utmp
    BY <1>2, <2>2 DEF KickClear
  <2>5. ASSUME ClearMatches(utmp, i.ent, kick[p].uid, i.pid) PROVE Cut(i.ent)
    <3>1. i.ent \in ActiveSlots(utmp)
      BY <1>2, <2>1, <2>2, <2>3, <2>5 DEF KickHits, HitsLeftover, ActiveSlots
    <3>2. utmp.uinfo[i.ent].uid = kick[p].uid
      BY <2>3, <2>5, Numbers DEF ClearMatches
    <3>3. ASSUME NEW q \in Telnet, Holds(q), ent[q] = i.ent PROVE MayLose(q)
      BY <2>1, <3>2, <3>3 DEF MayLose, OInv, Owned
    <3>4. utmp' = Clear2(utmp, i.ent, g)
      BY <2>4, <2>5
    <3> QED BY <1>b, <3>1, <3>3, <3>4, ClearCuts
  <2> QED BY <2>1, <2>3, <2>4, <2>5
<1> QED BY <1>1, <1>2 DEF KickStep

\* The steps of a web session that write to an entry: the log-off clears one
\* of pid 1, which no telnet process holds, and the late pid is the third way.
LEMMA RunWebCut ==
  ASSUME OInv, NEW w \in Web, (WwwClear(w) /\ ~WwwHits(w)) \/ WwwSetPid(w)
  PROVE  SameRunning /\ (utmp' = utmp \/ \E n \in Slots : Cut(n))
<1>a. /\ w \in Actors /\ \A q \in Telnet : q \in Actors /\ q # w /\ q # 1
      /\ pc \in [Actors -> Places] /\ user \in [Actors -> Users \cup {0}]
      /\ ent \in [Actors -> Links0]
      /\ Fits(w, pc[w], user[w], ent[w], kick[w], lock, scan)
  BY UtmpAssumption DEF Actors, OInv, IInv, Acts
<1>b. /\ IInv /\ \A n \in ActiveSlots(utmp) : n \in Slots
      /\ utmp \in TableType /\ utmp.uinfo \in [Slots -> Entry]
  BY UinfoIs DEF OInv, ActiveSlots
<1>1. CASE WwwClear(w) /\ ~WwwHits(w)
  <2>1. SameRunning
    BY <1>1, <1>a DEF WwwClear, Ends, Goto, SameRunning
  <2>2. PICK g \in Garbage :
          utmp' = IF ClearMatches(utmp, ent[w], user[w], 1) THEN Clear2(utmp, ent[w], g) ELSE utmp
    BY <1>1 DEF WwwClear
  <2>3. ent[w] \in Slots /\ pc[w] = "logoff"
    BY <1>1, <1>a DEF WwwClear, Fits, HasEntry
  <2>4. ASSUME ClearMatches(utmp, ent[w], user[w], 1) PROVE Cut(ent[w])
    <3>1. ent[w] \in ActiveSlots(utmp)
      BY <1>1, <2>3, <2>4 DEF WwwHits, HitsLeftover, ActiveSlots
    <3>2. \A q \in Telnet : ~(Holds(q) /\ ent[q] = ent[w])
      BY <1>a, <2>4 DEF Holds, Owns, OwnEntry, ClearMatches
    <3>3. utmp' = Clear2(utmp, ent[w], g)
      BY <2>2, <2>4
    <3> QED BY <1>b, <3>1, <3>2, <3>3, ClearCuts
  <2> QED BY <2>1, <2>2, <2>3, <2>4
<1>2. CASE WwwSetPid(w)
  <2>1. SameRunning
    BY <1>2, <1>a DEF WwwSetPid, Goto, SameRunning
  <2>2. ent[w] \in Slots
    BY <1>2, <1>a DEF WwwSetPid, Fits, HasEntry
  <2>3. PICK n : n = ent[w]
    OBVIOUS
  <2>4. PICK d : d = [utmp.uinfo[n] EXCEPT !.pid = 1]
    OBVIOUS
  <2>5. d.pid = 1
    <3>1. utmp.uinfo[n] \in Entry
      BY <1>b, <2>2, <2>3
    <3> QED BY <2>4, <3>1 DEF Entry
  <2>6. PICK ui : ui = [utmp.uinfo EXCEPT ![n] = d]
    OBVIOUS
  <2>7. utmp' = [utmp EXCEPT !.uinfo = ui]
    BY <1>2, <2>3, <2>4, <2>6 DEF WwwSetPid
  <2>8. utmp'.uinfo = ui
    BY <1>b, <2>7 DEF TableType
  <2>9. ui[n] = d /\ \A m \in Slots \ {n} : ui[m] = utmp.uinfo[m]
    BY <1>b, <2>2, <2>3, <2>6
  <2>10. \A q \in Telnet : Holds(q) /\ ent[q] = n => MayLose(q)
    BY <1>2, <2>3 DEF MayLose
  <2>11. Cut(n)
    BY <1>a, <2>5, <2>8, <2>9, <2>10 DEF Cut, OwnEntry
  <2> QED BY <2>1, <2>2, <2>3, <2>11
<1> QED BY <1>1, <1>2

\* A login, of a telnet process or a web session, takes a slot nobody holds.
LEMMA RunNew ==
  ASSUME OInv, NEW p \in Actors, pc[p] = "checked", NEW e \in Entry, e.active,
         e.uid = user[p], e.utmpkey = p, NEW c \in {"login", "wwwlogin"},
         NewSlot(utmp) # 0, utmp' = NewUtmpEnt(utmp, e, c),
         ent' = [ent EXCEPT ![p] = NewSlot(utmp)], user' = user,
         \A q \in Telnet : q # p => pc'[q] = pc[q]
  PROVE  Owned' /\ \A q \in Telnet : Holds(q) => OwnedAfter(q)
<1>a. /\ \A q \in Telnet : q \in Actors
      /\ pc \in [Actors -> Places] /\ user \in [Actors -> Users \cup {0}]
      /\ ent \in [Actors -> Links0]
      /\ \A q \in Actors : Fits(q, pc[q], user[q], ent[q], kick[q], lock, scan)
  BY DEF Actors, OInv, IInv, Acts
<1>3. e.uid \in Users
  BY <1>a DEF Fits
<1>4. PICK f, o, b : Stands(utmp, f, o, b)
  BY DEF OInv, IInv, Sound
<1>5. /\ f \in Seq(Slots) /\ utmp.hashhead[0] = (IF Len(f) = 0 THEN 0 ELSE f[1])
      /\ o \in Seq(Slots) /\ utmp \in TableType
  BY <1>4 DEF Stands, FreeIs, ChainIs, OnlineIs, RingIs
<1>6. Len(f) # 0 /\ f[1] \in Slots
  BY <1>5 DEF NewSlot
<1>7. PICK z : LoginGives(utmp, f, z, b, e, c)
  BY <1>3, <1>4, <1>6, LoginGivesThis
<1>10. PICK n : n = f[1]
  OBVIOUS
<1>11. /\ NewSlot(utmp) = n /\ n \in Slots \ ActiveSlots(utmp)
       /\ utmp'.uinfo = [utmp.uinfo EXCEPT ![n] = e]
  BY <1>7, <1>10 DEF LoginGives
<1>12. /\ utmp'.uinfo = [utmp.uinfo EXCEPT ![n] = e] /\ ent' = [ent EXCEPT ![p] = n]
  BY <1>11
<1>13. utmp.uinfo \in [Slots -> Entry] /\ ~utmp.uinfo[n].active
  BY <1>5, <1>11 DEF TableType, ActiveSlots
<1>14. \A q \in Telnet : Holds(q) => ent[q] \in Slots /\ ent[q] # n
  BY <1>a, <1>13 DEF Holds, Owns, OwnEntry, Running, Fits, HasEntry
<1>15. \A q \in Telnet : Holds(q) => OwnedAfter(q)
  BY <1>12, <1>13, <1>14 DEF Holds, Owns, OwnedAfter
<1>16. ASSUME NEW q \in Telnet, Holds(q)'
       PROVE  utmp'.uinfo[ent'[q]].uid = user'[q]
  <2>1. CASE q = p
    BY <1>a, <1>11, <1>12, <1>13, <2>1
  <2>2. CASE q # p
    <3>1. ent'[q] = ent[q] /\ pc'[q] = pc[q] /\ pc[q] \in Running
      BY <1>a, <1>12, <1>16, <2>2 DEF Holds
    <3>2. ent[q] \in Slots
      BY <1>a, <3>1 DEF Fits, HasEntry, Running
    <3>3. ent[q] # n
      <4>1. SUFFICES ASSUME ent[q] = n PROVE FALSE
        OBVIOUS
      <4>2. utmp'.uinfo[n].utmpkey = p
        BY <1>11, <1>12, <1>13
      <4> QED BY <1>16, <2>2, <3>1, <4>1, <4>2 DEF Holds, Owns, OwnEntry
    <3>4. utmp'.uinfo[ent[q]] = utmp.uinfo[ent[q]]
      BY <1>12, <1>13, <3>2, <3>3
    <3>5. Holds(q)
      BY <1>16, <3>1, <3>4 DEF Holds, Owns
    <3> QED BY <3>1, <3>4, <3>5 DEF OInv, Owned
  <2> QED BY <2>1, <2>2
<1> QED BY <1>15, <1>16 DEF Owned

LEMMA RunEnter ==
  ASSUME OInv, NEW p \in Actors, (p \in Telnet /\ Enter(p)) \/ (p \in Web /\ WwwAlloc(p))
  PROVE  Owned' /\ \A q \in Telnet : Holds(q) => OwnedAfter(q)
<1>a. /\ \A q \in Telnet : q \in Actors
      /\ pc \in [Actors -> Places] /\ user[p] \in Users
  <2>1. /\ \A q \in Telnet : q \in Actors
        /\ pc \in [Actors -> Places]
        /\ Fits(p, pc[p], user[p], ent[p], kick[p], lock, scan)
    BY DEF Actors, OInv, IInv, Acts
  <2> QED BY <2>1 DEF Enter, WwwAlloc, Fits
<1>1. CASE p \in Telnet /\ Enter(p)
  <2>1. PICK e : e = [active |-> TRUE, pid |-> p, uid |-> user[p], utmpkey |-> p]
    OBVIOUS
  <2>2. e \in Entry /\ e.active /\ e.uid = user[p] /\ e.utmpkey = p
    BY <1>1, <1>a, <2>1, NewEntry
  <2>3. /\ utmp' = NewUtmpEnt(utmp, e, "login") /\ NewSlot(utmp) # 0
        /\ ent' = [ent EXCEPT ![p] = NewSlot(utmp)] /\ user' = user /\ pc[p] = "checked"
    BY <1>1, <2>1 DEF Enter
  <2>4. \A q \in Telnet : q # p => pc'[q] = pc[q]
    BY <1>1, <1>a DEF Enter, Goto
  <2> QED BY <2>2, <2>3, <2>4, RunNew
<1>2. CASE p \in Web /\ WwwAlloc(p)
  <2>1. PICK e : e = [active |-> TRUE, pid |-> 0, uid |-> user[p], utmpkey |-> p]
    OBVIOUS
  <2>2. e \in Entry /\ e.active /\ e.uid = user[p] /\ e.utmpkey = p
    BY <1>a, <2>1, NewEntry
  <2>3. /\ utmp' = NewUtmpEnt(utmp, e, "wwwlogin") /\ NewSlot(utmp) # 0
        /\ ent' = [ent EXCEPT ![p] = NewSlot(utmp)] /\ user' = user /\ pc[p] = "checked"
    BY <1>2, <2>1 DEF WwwAlloc
  <2>4. \A q \in Telnet : q # p => pc'[q] = pc[q]
    BY <1>2, <1>a DEF WwwAlloc, Goto
  <2> QED BY <2>2, <2>3, <2>4, RunNew
<1> QED BY <1>1, <1>2

\* What a step does to the entries of running processes.
LEMMA RunStep ==
  ASSUME OInv, [UnhitNext]_vars
  PROVE  /\ Owned'
         /\ \A p \in Telnet : Holds(p) /\ ~OwnedAfter(p) => MayLose(p)
<1> DEFINE Goal == /\ Owned'
                   /\ \A p \in Telnet : Holds(p) /\ ~OwnedAfter(p) => MayLose(p)
<1>b. \A q \in Telnet : pc[q] \in Running => ent[q] \in Slots
  BY DEF OInv, IInv, Acts, Fits, HasEntry, Running, Actors
<1>1. ASSUME SameRunning, utmp' = utmp PROVE Goal
  <2>1. \A q \in Telnet : Holds(q)' => Holds(q) /\ ent'[q] = ent[q] /\ user'[q] = user[q]
    BY <1>1 DEF SameRunning, Holds, Owns
  <2>2. \A q \in Telnet : Holds(q) => OwnedAfter(q)
    BY <1>1 DEF Holds, Owns, OwnedAfter
  <2> QED BY <1>1, <2>1, <2>2 DEF OInv, Owned
<1>2. ASSUME SameRunning, NEW n \in Slots, Cut(n) PROVE Goal
  <2>4. ASSUME NEW q \in Telnet, Holds(q)'
        PROVE  /\ Holds(q) /\ ent'[q] = ent[q] /\ user'[q] = user[q]
               /\ utmp'.uinfo[ent[q]] = utmp.uinfo[ent[q]]
    <3>1. pc[q] \in Running /\ ent'[q] = ent[q] /\ user'[q] = user[q]
      BY <1>2, <2>4 DEF SameRunning, Holds
    <3>2. ent[q] # n
      BY <1>2, <2>4, <3>1 DEF Holds, Owns, Cut
    <3>3. utmp'.uinfo[ent[q]] = utmp.uinfo[ent[q]]
      BY <1>b, <1>2, <3>1, <3>2 DEF Cut
    <3> QED BY <2>4, <3>1, <3>3 DEF Holds, Owns
  <2>5. Owned'
    BY <2>4 DEF OInv, Owned
  <2>6. ASSUME NEW q \in Telnet, Holds(q), ~OwnedAfter(q) PROVE MayLose(q)
    <3>1. ent[q] = n
      BY <1>b, <1>2, <2>6 DEF Holds, Owns, OwnedAfter, Cut
    <3> QED BY <1>2, <2>6, <3>1 DEF Cut
  <2> QED BY <2>5, <2>6
<1>3. ASSUME NEW p \in Actors, (p \in Telnet /\ Enter(p)) \/ (p \in Web /\ WwwAlloc(p))
      PROVE  Goal
  <2>1. Owned' /\ \A q \in Telnet : Holds(q) => OwnedAfter(q)
    BY <1>3, RunEnter
  <2> QED BY <2>1
<1>4. ASSUME UNCHANGED vars PROVE Goal
  <2>1. SameRunning /\ utmp' = utmp
    BY <1>4 DEF vars, SameRunning
  <2> QED BY <1>1, <2>1
<1>a. \A p \in Telnet \cup Web : p \in Actors
  BY DEF Actors
<1> HIDE DEF Goal
<1>5. ASSUME NEW p \in Telnet, TelnetStep(p) PROVE Goal
  <2>1. CASE Enter(p)
    BY <1>3, <1>a, <2>1
  <2>2. CASE Clean(p) \/ ClearOwn(p)
    BY <1>1, <1>2, <2>2, RunCut
  <2>3. CASE \/ (\E v \in Users : Connect(p, v) \/ KickUser(p, v))
             \/ CheckMulti(p) \/ PickWindow(p) \/ KickWindow(p) \/ HangUp(p)
             \/ EnterFull(p) \/ Start(p) \/ Leave(p) \/ Hup(p) \/ HupInLock(p) \/ Crash(p)
             \/ LongLock(p)
    <3>1. SameRunning /\ utmp' = utmp
      BY <2>3, RunQuiet DEF OInv
    <3> QED BY <1>1, <3>1
  <2> QED BY <1>5, <2>1, <2>2, <2>3 DEF TelnetStep
<1>6. ASSUME NEW p \in Web, WebStep(p) \/ (WwwClear(p) /\ ~WwwHits(p)) PROVE Goal
  <2>1. CASE WwwAlloc(p)
    BY <1>3, <1>a, <2>1
  <2>2. CASE (WwwClear(p) /\ ~WwwHits(p)) \/ WwwSetPid(p)
    BY <1>1, <1>2, <1>6, <2>2, RunWebCut
  <2>3. CASE \/ \E v \in Users : WwwBegin(p, v)
             \/ WwwCheckMulti(p) \/ WwwKick(p) \/ WwwFull(p) \/ WwwStale(p) \/ WwwLogoff(p)
             \/ WwwFail(p)
    <3>1. SameRunning /\ utmp' = utmp
      BY <2>3, RunWebQuiet DEF OInv
    <3> QED BY <1>1, <3>1
  <2> QED BY <1>6, <2>1, <2>2, <2>3 DEF WebStep
<1>7. ASSUME NEW p \in Actors, KickStep(p) \/ (KickClear(p) /\ ~KickHits(p)) PROVE Goal
  BY <1>1, <1>2, <1>7, RunKick
<1>8. Goal
  <2>1. CASE UnhitNext
    <3>1. CASE \E p \in Telnet : TelnetStep(p)
      BY <1>5, <3>1
    <3>2. CASE \E w \in Web : WebStep(w) \/ (WwwClear(w) /\ ~WwwHits(w))
      BY <1>6, <2>1, <3>2
    <3>3. CASE \E p \in Actors : KickStep(p) \/ (KickClear(p) /\ ~KickHits(p))
      BY <1>7, <2>1, <3>3
    <3> QED BY <2>1, <3>1, <3>2, <3>3 DEF UnhitNext
  <2>2. CASE UNCHANGED vars
    BY <1>4, <2>2
  <2> QED BY <2>1, <2>2
<1> QED BY <1>8 DEF Goal

LEMMA RunInit ==
  ASSUME Init
  PROVE  OInv
BY IInvInit DEF Init, OInv, Owned, Holds, Running, Actors

\* LiveEntryKept: a running telnet process loses its entry, or the pid in it,
\* only by its own clear_utmp(), to a kick of its user, or to the late pid = 1
\* of a web login whose slot it was given; never to the clean pass or to the
\* exit of another process.
THEOREM LiveEntriesKept ==
  UnhitSpec => LiveEntryKept
<1> DEFINE Kept ==
        \A p \in Telnet :
          /\ pc[p] \in {"cleaning", "entered", "started", "exiting"}
          /\ Owns(p) /\ ~OwnedAfter(p)
          => \/ pc[p] = "exiting" /\ pc'[p] = "none"
             \/ \E q \in Actors : lock = q /\ Kicking(q) /\ kick[q].uid = user[p]
             \/ \E w \in Web : WwwSetPid(w) /\ ent[w] = ent[p]
<1>1. Init => OInv
  BY RunInit
<1>2. OInv /\ [UnhitNext]_vars => OInv' /\ [Kept]_vars
  <2> SUFFICES ASSUME OInv, [UnhitNext]_vars PROVE OInv' /\ Kept
    OBVIOUS
  <2>1. IInv'
    BY IInvNext DEF OInv
  <2>2. /\ Owned'
        /\ \A p \in Telnet : Holds(p) /\ ~OwnedAfter(p) => MayLose(p)
    BY RunStep
  <2>3. Kept
    BY <2>2 DEF Holds, Running, MayLose
  <2> QED BY <2>1, <2>2, <2>3 DEF OInv
<1> QED BY <1>1, <1>2, PTL DEF UnhitSpec, LiveEntryKept
=============================================================================
