--------------------------- MODULE UCache_proofs ---------------------------
(***************************************************************************)
(* The user cache: proofs about module UCache.                             *)
(*                                                                         *)
(* The hash lists are arrays of heads and links.  That they are lists - no *)
(* two of them meet, each ends, none holds a slot twice - is not inductive *)
(* as it stands.  The invariant (Lists) gives every slot the list it is in *)
(* (o) and a rank that gets smaller along the list (r).  Walks that do not *)
(* end within MAXUSERS links would pass more slots than there are.         *)
(*                                                                         *)
(* What the lists are for needs more: that every slot of a list is reached *)
(* from its head (Entered) and where a search stands among the ranks       *)
(* (ReadInv); whose a request is and what its process waits for (Tasks);   *)
(* that a slot is in one operation (Alone); and on these, what the names   *)
(* lead to (NameInv), whose accounts the records hold (Phantoms, Fresh)    *)
(* and which of them a registered user has (Accounts).                     *)
(***************************************************************************)
EXTENDS UCache, FiniteInduction, FiniteSetTheorems

Ids == Names \cup {NoName}
Links == 0..MAXUSERS
Record == [id : Ids, acc : Int, level : {0, 1}]

\* The list that slot u is in, or -1, is o[u]; r[u] gets smaller along a list.
Lists(h, nx, o, r) ==
    /\ h \in [Keys -> Links] /\ nx \in [Slots -> Links]
    /\ o \in [Slots -> Keys \cup {-1}] /\ r \in [Slots -> Int]
    /\ \A k \in Keys : h[k] # 0 => o[h[k]] = k
    /\ \A u \in Slots : o[u] # -1 /\ nx[u] # 0 => o[nx[u]] = o[u] /\ r[nx[u]] < r[u]
    /\ \A u, v \in Slots :
         o[u] # -1 /\ o[v] # -1 /\ nx[u] = nx[v] /\ nx[u] # 0 => u = v
    /\ \A u \in Slots, k \in Keys : o[u] # -1 /\ nx[u] = h[k] => h[k] = 0

\* Every slot that belongs to a list is its first or comes behind another one.
Entered(h, nx, o) ==
    \A u \in Slots : o[u] # -1 =>
      h[o[u]] = u \/ \E v \in Slots : o[v] = o[u] /\ nx[v] = u

\* What the proofs use of the constants: slot 0 ends a list, and hash 0 is that of no name but the empty one.
LEMMA Numbers ==
  /\ MAXUSERS \in Nat \ {0} /\ UCACHE_HASHSIZE \in Nat \ {0}
  /\ Links = Slots \cup {0} /\ 0 \notin Slots
  /\ 0 \in Keys /\ -1 \notin Keys /\ UCACHE_HASHSIZE \in Keys
  /\ ucache_hash \in [Ids -> Keys]
  /\ \A n \in Names : ucache_hash[n] # 0
BY UCacheAssumption DEF Links, Slots, Keys, Ids

-----------------------------------------------------------------------------
(* Walks *)

\* Walk, the recursive function of the model, takes the first slot and then follows the links, up to
\* MAXUSERS of them.
LEMMA WalkDef ==
  ASSUME NEW nx \in [Slots -> Links], NEW s \in Links
  PROVE  /\ Walk(nx, s) \in [0..MAXUSERS -> Links]
         /\ Walk(nx, s)[0] = s
         /\ \A j \in 1..MAXUSERS :
              Walk(nx, s)[j] = IF Walk(nx, s)[j-1] = 0 THEN 0 ELSE nx[Walk(nx, s)[j-1]]
<1> DEFINE G == [j \in 0..MAXUSERS |-> Links]
           F == [p \in (1..MAXUSERS) \X Links |-> IF p[2] = 0 THEN 0 ELSE nx[p[2]]]
           Def(f) == f = [j \in 0..MAXUSERS |->
                            IF j = 0 THEN s ELSE IF f[j-1] = 0 THEN 0 ELSE nx[f[j-1]]]
           Eq(f) == /\ Recursion(MAXUSERS, F, s, f)
                    /\ \A j \in 0..MAXUSERS : f[j] \in G[j]
<1>1. \A j \in 1..MAXUSERS : \A x \in Links :
         F[<<j, x>>] = (IF x = 0 THEN 0 ELSE nx[x]) /\ F[<<j, x>>] \in Links
  BY Numbers
<1>2. \E f : Eq(f)
  <2>1. s \in G[0] /\ \A j \in 1..MAXUSERS : \A x \in G[j-1] : F[<<j, x>>] \in G[j]
    BY <1>1, Numbers
  <2>2. MAXUSERS \in Nat
    BY Numbers
  <2> HIDE DEF F, G
  <2> QED BY <2>1, <2>2, RecursiveFunction, Zenon
<1>3. PICK f : Eq(f)
  BY <1>2
<1>4. \A j \in 0..MAXUSERS : f[j] \in Links
  BY <1>3
<1>5. f = [j \in 0..MAXUSERS |-> IF j = 0 THEN s ELSE F[<<j, f[j-1]>>]]
  BY <1>3 DEF Recursion
<1>6. \A j \in 1..MAXUSERS : F[<<j, f[j-1]>>] = (IF f[j-1] = 0 THEN 0 ELSE nx[f[j-1]])
  BY <1>1, <1>4, Numbers
<1>7. Def(f)
  <2> HIDE DEF F
  <2> QED BY <1>5, <1>6
<1>8. Walk(nx, s) = CHOOSE g : Def(g)
  BY DEF Walk
<1>9. Def(Walk(nx, s))
  <2> HIDE DEF Def
  <2> QED BY <1>7, <1>8
<1> DEFINE w == Walk(nx, s)
           T == {j \in 0..MAXUSERS : w[j] \in Links}
<1>10. w[0] = s /\ \A j \in 1..MAXUSERS : w[j] = IF w[j-1] = 0 THEN 0 ELSE nx[w[j-1]]
  BY <1>9, Numbers
<1>11. 0..MAXUSERS \subseteq T
  <2>1. 0 \in T
    BY <1>10, Numbers
  <2>2. \A j \in 1..MAXUSERS : j-1 \in T => j \in T
    BY <1>10, Numbers
  <2> HIDE DEF T
  <2> QED BY <2>1, <2>2, SetInduction, Numbers
<1>12. w = [j \in 0..MAXUSERS |-> w[j]]
  BY <1>9
<1>13. w \in [0..MAXUSERS -> Links]
  <2>1. \A j \in 0..MAXUSERS : w[j] \in Links
    BY <1>11
  <2> HIDE DEF w
  <2> QED BY <2>1, <1>12
<1> QED
  BY <1>10, <1>13

\* A walk from the head of a list stays in the list.
LEMMA WalkStays ==
  ASSUME NEW h, NEW nx, NEW o, NEW r, Lists(h, nx, o, r), NEW k \in Keys
  PROVE  \A j \in 0..MAXUSERS :
           Walk(nx, h[k])[j] \in Slots => o[Walk(nx, h[k])[j]] = k
<1> DEFINE w == Walk(nx, h[k])
           T == {j \in 0..MAXUSERS : w[j] \in Slots => o[w[j]] = k}
<1>1. /\ w \in [0..MAXUSERS -> Links] /\ w[0] = h[k]
      /\ \A j \in 1..MAXUSERS : w[j] = IF w[j-1] = 0 THEN 0 ELSE nx[w[j-1]]
  BY WalkDef DEF Lists
<1> HIDE DEF w
<1>2. 0 \in T
  BY <1>1, Numbers DEF Lists
<1>3. ASSUME NEW j \in 1..MAXUSERS, j-1 \in T PROVE j \in T
  <2>1. SUFFICES ASSUME w[j] \in Slots PROVE o[w[j]] = k
    OBVIOUS
  <2>2. j-1 \in 0..MAXUSERS /\ w[j-1] \in Links
    BY <1>1, Numbers
  <2>3. w[j-1] \in Slots /\ w[j] = nx[w[j-1]] /\ w[j] # 0
    BY <1>1, <2>1, <2>2, Numbers
  <2>4. o[w[j-1]] = k
    BY <1>3, <2>2, <2>3
  <2> QED BY <2>3, <2>4, Numbers DEF Lists
<1>4. 0..MAXUSERS \subseteq T
  <2> HIDE DEF T
  <2> QED BY <1>2, <1>3, SetInduction, Numbers
<1> QED BY <1>4 DEF w

\* ... and comes to its end.
LEMMA WalkEnds ==
  ASSUME NEW h, NEW nx, NEW o, NEW r, Lists(h, nx, o, r), NEW k \in Keys
  PROVE  Walk(nx, h[k])[MAXUSERS] = 0
<1> DEFINE w == Walk(nx, h[k])
           N == 0..MAXUSERS
<1>1. /\ w \in [N -> Links] /\ w[0] = h[k]
      /\ \A j \in 1..MAXUSERS : w[j] = IF w[j-1] = 0 THEN 0 ELSE nx[w[j-1]]
  BY WalkDef DEF Lists
<1>2. \A j \in N : w[j] \in Slots => o[w[j]] = k
  BY WalkStays
<1> HIDE DEF w
<1>3. SUFFICES ASSUME w[MAXUSERS] # 0 PROVE FALSE
  BY DEF w
<1> DEFINE T == {j \in N : w[j] # 0 => \A i \in 0..j : w[i] # 0}
           D == {j \in N : w[j] # 0 => \A i \in 0..j-1 : r[w[j]] < r[w[i]]}
<1>4. N \subseteq T
  <2>1. 0 \in T
    BY Numbers
  <2>2. ASSUME NEW j \in 1..MAXUSERS, j-1 \in T PROVE j \in T
    <3>1. w[j] # 0 => w[j-1] # 0
      BY <1>1
    <3> QED BY <2>2, <3>1, Numbers
  <2> HIDE DEF T
  <2> QED BY <2>1, <2>2, SetInduction, Numbers
<1>5. \A j \in N : w[j] \in Slots
  BY <1>1, <1>3, <1>4, Numbers
<1>6. \A j \in 1..MAXUSERS : r[w[j]] < r[w[j-1]]
  <2> SUFFICES ASSUME NEW j \in 1..MAXUSERS PROVE r[w[j]] < r[w[j-1]]
    OBVIOUS
  <2>1. j-1 \in N /\ w[j-1] \in Slots /\ w[j] \in Slots
    BY <1>5, Numbers
  <2>2. w[j] = nx[w[j-1]] /\ o[w[j-1]] = k
    BY <1>1, <1>2, <2>1, Numbers
  <2> QED BY <2>1, <2>2, Numbers DEF Lists
<1>7. N \subseteq D
  <2>1. 0 \in D
    BY Numbers
  <2>2. ASSUME NEW j \in 1..MAXUSERS, j-1 \in D PROVE j \in D
    <3>1. j \in Nat /\ j-1 \in N /\ j \in N
      BY Numbers
    <3>2. ASSUME NEW i \in 0..j-1 PROVE r[w[j]] < r[w[i]]
      <4>1. w[j] \in Slots /\ w[j-1] \in Slots /\ w[i] \in Slots
        <5>1. i \in N
          BY <3>1, Numbers
        <5> QED BY <1>5, <3>1, <5>1
      <4>2. r[w[j]] \in Int /\ r[w[j-1]] \in Int /\ r[w[i]] \in Int
        BY <4>1 DEF Lists
      <4>3. w[j-1] # 0
        BY <4>1, Numbers
      <4>4. CASE i = j-1
        BY <1>6, <4>4
      <4>5. CASE i \in 0..(j-1)-1
        <5>1. r[w[j-1]] < r[w[i]]
          BY <2>2, <4>3, <4>5
        <5> QED BY <5>1, <4>2, <1>6
      <4> QED BY <3>1, <4>4, <4>5
    <3> QED BY <3>1, <3>2
  <2> HIDE DEF D
  <2> QED BY <2>1, <2>2, SetInduction, Numbers
<1>8. \A i, j \in N : i < j => w[i] # w[j]
  <2> SUFFICES ASSUME NEW i \in N, NEW j \in N, i < j PROVE w[i] # w[j]
    OBVIOUS
  <2>1. r[w[j]] < r[w[i]]
    BY <1>5, <1>7, Numbers
  <2>2. r[w[j]] \in Int
    BY <1>5 DEF Lists
  <2> QED BY <2>1, <2>2
<1>9. IsFiniteSet(N) /\ IsFiniteSet(Slots) /\ Cardinality(Slots) < Cardinality(N)
  <2>1. MAXUSERS \in Int /\ 0 <= MAXUSERS /\ 1 <= MAXUSERS /\ 0 \in Int /\ 1 \in Int
    BY Numbers
  <2>2. IsFiniteSet(0..MAXUSERS) /\ Cardinality(0..MAXUSERS) = MAXUSERS + 1
    BY <2>1, FS_Interval
  <2>3. IsFiniteSet(1..MAXUSERS) /\ Cardinality(1..MAXUSERS) = MAXUSERS
    BY <2>1, FS_Interval
  <2> QED BY <2>1, <2>2, <2>3 DEF Slots
<1>10. w \in [N -> Slots]
  BY <1>1, <1>5
<1>11. PICK i, j \in N : i # j /\ w[i] = w[j]
  <2> HIDE DEF N
  <2> QED BY <1>9, <1>10, FS_PigeonHole
<1> QED
  BY <1>8, <1>11, Numbers

\* What a search finds is a slot of that name in the list of its key.
LEMMA SearchStays ==
  ASSUME NEW h, NEW nx, NEW o, NEW r, Lists(h, nx, o, r),
         NEW pw, NEW n \in Ids
  PROVE  LET u == SearchIn(h, nx, pw, n)
         IN  u # 0 => /\ u \in Slots /\ o[u] = ucache_hash[n] /\ pw[u].id = n
                      /\ \E j \in 0..MAXUSERS : Walk(nx, h[ucache_hash[n]])[j] = u
<1> DEFINE k == ucache_hash[n]
           w == Walk(nx, h[k])
           hits == {j \in 0..MAXUSERS : w[j] # 0 /\ pw[w[j]].id = n}
<1>1. k \in Keys /\ nx \in [Slots -> Links] /\ h[k] \in Links
  BY Numbers DEF Lists
<1>2. w \in [0..MAXUSERS -> Links] /\ \A j \in 0..MAXUSERS : w[j] \in Slots => o[w[j]] = k
  BY <1>1, WalkDef, WalkStays
<1>3. SearchIn(h, nx, pw, n) =
        IF hits = {} THEN 0 ELSE w[CHOOSE j \in hits : \A i \in hits : j <= i]
  BY DEF SearchIn
<1>4. hits # {} => (CHOOSE j \in hits : \A i \in hits : j <= i) \in hits
  <2>1. hits \in SUBSET Nat
    OBVIOUS
  <2>2. hits # {} => \E j \in hits : \A i \in hits : j <= i
    <3> HIDE DEF hits
    <3> QED BY <2>1, LeastElement
  <2> HIDE DEF hits
  <2> QED BY <2>2
<1> DEFINE j0 == CHOOSE j \in hits : \A i \in hits : j <= i
<1>5. CASE hits = {}
  BY <1>3, <1>5
<1>6. CASE hits # {}
  <2>1. SearchIn(h, nx, pw, n) = w[j0]
    BY <1>3, <1>6
  <2>2. j0 \in hits
    BY <1>4, <1>6
  <2> HIDE DEF j0, w
  <2>3. j0 \in 0..MAXUSERS /\ w[j0] # 0 /\ pw[w[j0]].id = n
    BY <2>2
  <2>4. w[j0] \in Slots
    BY <1>2, <2>3, Numbers
  <2> QED BY <1>2, <2>1, <2>3, <2>4 DEF w
<1> QED BY <1>5, <1>6

\* Among slots that have something in common one has the greatest rank.
LEMMA Greatest ==
  ASSUME NEW r \in [Slots -> Int], NEW B \in SUBSET Slots, B # {}
  PROVE  \E u \in B : \A v \in B : r[v] <= r[u]
<1> DEFINE T == {n \in 0..MAXUSERS : \E m \in Int : \A i \in 1..n : r[i] <= m}
<1>1. 0..MAXUSERS \subseteq T
  <2>1. 0 \in T
    BY Numbers
  <2>2. ASSUME NEW n \in 1..MAXUSERS, n-1 \in T PROVE n \in T
    <3>1. PICK m \in Int : \A i \in 1..n-1 : r[i] <= m
      BY <2>2
    <3>2. n \in Slots /\ r[n] \in Int /\ n \in 0..MAXUSERS /\ n \in Nat
      BY Numbers DEF Slots
    <3>3. \A i \in 1..n : i \in Slots /\ (i = n \/ i \in 1..n-1)
      BY <3>2, Numbers DEF Slots
    <3>4. CASE r[n] <= m
      <4>1. \A i \in 1..n : r[i] <= m
        BY <3>1, <3>3, <3>4
      <4> QED BY <3>2, <4>1
    <3>5. CASE ~(r[n] <= m)
      <4>1. \A i \in 1..n : r[i] <= r[n]
        BY <3>1, <3>2, <3>3, <3>5
      <4> QED BY <3>2, <4>1
    <3> QED BY <3>4, <3>5
  <2> HIDE DEF T
  <2> QED BY <2>1, <2>2, SetInduction, Numbers
<1>2. MAXUSERS \in 0..MAXUSERS
  BY Numbers
<1>3. PICK m \in Int : \A i \in Slots : r[i] <= m
  BY <1>1, <1>2 DEF Slots
<1> DEFINE S == {m - r[u] : u \in B}
<1>4. S \in SUBSET Nat /\ S # {}
  BY <1>3
<1>5. PICK x \in S : \A y \in S : x <= y
  <2> HIDE DEF S
  <2> QED BY <1>4, LeastElement
<1>6. PICK u \in B : x = m - r[u]
  BY <1>5
<1>7. \A v \in B : m - r[u] <= m - r[v]
  BY <1>5, <1>6
<1> QED BY <1>6, <1>7, <1>3

\* A list holds the slots that belong to it.
LEMMA ListOfIs ==
  ASSUME NEW h, NEW nx, NEW o, NEW r, Lists(h, nx, o, r), Entered(h, nx, o), NEW k \in Keys
  PROVE  ListOf(h, nx, k) = {u \in Slots : o[u] = k}
<1> DEFINE w == Walk(nx, h[k])
<1>1. /\ w \in [0..MAXUSERS -> Links] /\ w[0] = h[k]
      /\ \A j \in 1..MAXUSERS : w[j] = IF w[j-1] = 0 THEN 0 ELSE nx[w[j-1]]
  <2>1. h[k] \in Links /\ nx \in [Slots -> Links]
    BY DEF Lists
  <2> QED BY <2>1, WalkDef
<1>2. \A j \in 0..MAXUSERS : w[j] \in Slots => o[w[j]] = k
  BY WalkStays
<1>3. w[MAXUSERS] = 0
  BY WalkEnds
<1>4. ListOf(h, nx, k) = {w[j] : j \in 0..MAXUSERS} \ {0}
  BY DEF ListOf
<1> HIDE DEF w
<1>5. ListOf(h, nx, k) \subseteq {u \in Slots : o[u] = k}
  BY <1>1, <1>2, <1>4, Numbers
<1> DEFINE B == {u \in Slots : o[u] = k /\ u \notin ListOf(h, nx, k)}
<1>6. SUFFICES ASSUME B # {} PROVE FALSE
  BY <1>5
<1>7. PICK u \in B : \A v \in B : r[v] <= r[u]
  <2>1. r \in [Slots -> Int] /\ B \in SUBSET Slots
    BY DEF Lists
  <2> HIDE DEF B
  <2> QED BY <1>6, <2>1, Greatest
<1>8. CASE h[k] = u
  <2>1. 0 \in 0..MAXUSERS /\ u # 0
    BY <1>7, Numbers
  <2> QED BY <1>1, <1>4, <1>7, <1>8, <2>1
<1>9. CASE h[k] # u
  <2>1. PICK v \in Slots : o[v] = k /\ nx[v] = u
    BY <1>7, <1>9, Numbers DEF Entered
  <2>2. r[u] < r[v] /\ r[u] \in Int /\ r[v] \in Int
    BY <1>7, <2>1, Numbers DEF Lists
  <2>3. v \notin B
    BY <1>7, <2>2
  <2>4. PICK j \in 0..MAXUSERS : w[j] = v
    BY <1>4, <2>1, <2>3
  <2>5. j # MAXUSERS
    BY <1>3, <2>1, <2>4, Numbers
  <2>6. j+1 \in 1..MAXUSERS /\ j+1 \in 0..MAXUSERS /\ (j+1)-1 = j
    BY <2>4, <2>5, Numbers
  <2>7. w[j+1] = u
    BY <1>1, <2>1, <2>4, <2>6, Numbers
  <2> QED BY <1>4, <1>7, <2>6, <2>7, Numbers
<1> QED BY <1>8, <1>9

\* A slot of that name in the list of its key is found, it or another one.
LEMMA SearchFinds ==
  ASSUME NEW h, NEW nx, NEW pw, NEW n, NEW u \in ListOf(h, nx, ucache_hash[n]), pw[u].id = n
  PROVE  SearchIn(h, nx, pw, n) # 0
<1> DEFINE w == Walk(nx, h[ucache_hash[n]])
           hits == {j \in 0..MAXUSERS : w[j] # 0 /\ pw[w[j]].id = n}
           j0 == CHOOSE j \in hits : \A i \in hits : j <= i
<1>1. SearchIn(h, nx, pw, n) = IF hits = {} THEN 0 ELSE w[j0]
  BY DEF SearchIn
<1>2. ListOf(h, nx, ucache_hash[n]) = {w[j] : j \in 0..MAXUSERS} \ {0}
  BY DEF ListOf
<1> HIDE DEF w
<1>3. hits # {}
  BY <1>2
<1>4. j0 \in hits
  <2>1. hits \in SUBSET Nat
    OBVIOUS
  <2>2. \E j \in hits : \A i \in hits : j <= i
    <3> HIDE DEF hits
    <3> QED BY <1>3, <2>1, LeastElement
  <2> HIDE DEF hits
  <2> QED BY <2>2
<1> HIDE DEF j0
<1> QED BY <1>1, <1>3, <1>4

-----------------------------------------------------------------------------
(* Changes of the lists. *)

\* The first slot of a list is taken out.
LEMMA TakeFirst ==
  ASSUME NEW h, NEW nx, NEW o, NEW r, Lists(h, nx, o, r),
         NEW k \in Keys, NEW u \in Slots, h[k] = u
  PROVE  Lists([h EXCEPT ![k] = nx[u]], nx, [o EXCEPT ![u] = -1], r)
BY Numbers DEF Lists

\* A slot is taken out from behind another one.
LEMMA TakeNext ==
  ASSUME NEW h, NEW nx, NEW o, NEW r, Lists(h, nx, o, r),
         NEW p \in Slots, NEW u \in Slots, o[p] # -1, nx[p] = u
  PROVE  Lists(h, [nx EXCEPT ![p] = nx[u]], [o EXCEPT ![u] = -1], r)
BY Numbers DEF Lists

\* A slot in no list becomes the first of one.
LEMMA PutFirst ==
  ASSUME NEW h, NEW nx, NEW o, NEW r, Lists(h, nx, o, r),
         NEW k \in Keys, NEW u \in Slots, o[u] = -1
  PROVE  \E rr : /\ Lists([h EXCEPT ![k] = u], [nx EXCEPT ![u] = h[k]], [o EXCEPT ![u] = k], rr)
                 /\ \A v \in Slots : v # u => rr[v] = r[v]
<1> DEFINE rr == [r EXCEPT ![u] = IF h[k] = 0 THEN 0 ELSE r[h[k]] + 1]
<1>1. Lists([h EXCEPT ![k] = u], [nx EXCEPT ![u] = h[k]], [o EXCEPT ![u] = k], rr)
  BY Numbers DEF Lists
<1>2. \A v \in Slots : v # u => rr[v] = r[v]
  BY DEF Lists
<1> QED BY <1>1, <1>2

\* A slot in no list becomes the only one of a list, whatever was in it.
LEMMA PutAlone ==
  ASSUME NEW h, NEW nx, NEW o, NEW r, Lists(h, nx, o, r),
         NEW k \in Keys, NEW u \in Slots, o[u] = -1
  PROVE  Lists([h EXCEPT ![k] = u], [nx EXCEPT ![u] = 0],
               [v \in Slots |-> IF v = u THEN k ELSE IF o[v] = k THEN -1 ELSE o[v]], r)
BY Numbers DEF Lists

\* A slot in no list becomes the last of one.
LEMMA PutLast ==
  ASSUME NEW h, NEW nx, NEW o, NEW r, Lists(h, nx, o, r),
         NEW p \in Slots, NEW u \in Slots, o[u] = -1, o[p] # -1, nx[p] = 0
  PROVE  \E rr : Lists(h, [nx EXCEPT ![u] = 0, ![p] = u], [o EXCEPT ![u] = o[p]], rr)
<1> DEFINE rr == [r EXCEPT ![u] = r[p] - 1]
<1>1. Lists(h, [nx EXCEPT ![u] = 0, ![p] = u], [o EXCEPT ![u] = o[p]], rr)
  BY Numbers DEF Lists
<1> QED BY <1>1

\* The links of slots in no list do not matter.
LEMMA SetLoose ==
  ASSUME NEW h, NEW nx, NEW o, NEW r, Lists(h, nx, o, r),
         NEW u \in Slots, o[u] = -1, NEW v \in Links
  PROVE  Lists(h, [nx EXCEPT ![u] = v], o, r)
BY DEF Lists

\* The same changes leave every slot of a list entered.
LEMMA TakeFirstEntered ==
  ASSUME NEW h, NEW nx, NEW o, NEW r, Lists(h, nx, o, r), Entered(h, nx, o),
         NEW k \in Keys, NEW u \in Slots, h[k] = u
  PROVE  Entered([h EXCEPT ![k] = nx[u]], nx, [o EXCEPT ![u] = -1])
BY Numbers DEF Lists, Entered

LEMMA TakeNextEntered ==
  ASSUME NEW h, NEW nx, NEW o, NEW r, Lists(h, nx, o, r), Entered(h, nx, o),
         NEW p \in Slots, NEW u \in Slots, o[p] # -1, nx[p] = u
  PROVE  Entered(h, [nx EXCEPT ![p] = nx[u]], [o EXCEPT ![u] = -1])
BY Numbers DEF Lists, Entered

LEMMA PutFirstEntered ==
  ASSUME NEW h, NEW nx, NEW o, NEW r, Lists(h, nx, o, r), Entered(h, nx, o),
         NEW k \in Keys, NEW u \in Slots, o[u] = -1
  PROVE  Entered([h EXCEPT ![k] = u], [nx EXCEPT ![u] = h[k]], [o EXCEPT ![u] = k])
BY Numbers DEF Lists, Entered

LEMMA PutAloneEntered ==
  ASSUME NEW h, NEW nx, NEW o, NEW r, Lists(h, nx, o, r), Entered(h, nx, o),
         NEW k \in Keys, NEW u \in Slots, o[u] = -1
  PROVE  Entered([h EXCEPT ![k] = u], [nx EXCEPT ![u] = 0],
                 [v \in Slots |-> IF v = u THEN k ELSE IF o[v] = k THEN -1 ELSE o[v]])
BY Numbers DEF Lists, Entered

LEMMA PutLastEntered ==
  ASSUME NEW h, NEW nx, NEW o, NEW r, Lists(h, nx, o, r), Entered(h, nx, o),
         NEW p \in Slots, NEW u \in Slots, o[u] = -1, o[p] # -1, nx[p] = 0
  PROVE  Entered(h, [nx EXCEPT ![u] = 0, ![p] = u], [o EXCEPT ![u] = o[p]])
BY Numbers DEF Lists, Entered

LEMMA SetLooseEntered ==
  ASSUME NEW h, NEW nx, NEW o, NEW r, Lists(h, nx, o, r), Entered(h, nx, o),
         NEW u \in Slots, o[u] = -1, NEW v \in Links
  PROVE  Entered(h, [nx EXCEPT ![u] = v], o)
BY DEF Lists, Entered

-----------------------------------------------------------------------------
(* load_ucache *)

LoadState == [head : [Keys -> Links], next : [Slots -> Links],
              pw : [Slots -> Record], prev : Links]

\* After slots 1..n: the others are in no list yet, and the slot that the
\* next free one is linked behind has no name and is the last of its list,
\* if it is in one.
Loading(n, s, o, r) ==
    /\ s \in LoadState
    /\ Lists(s.head, s.next, o, r) /\ Entered(s.head, s.next, o)
    /\ \A u \in Slots : u > n => o[u] = -1
    /\ s.prev <= n
    /\ s.prev # 0 => o[s.prev] \in {0, -1} /\ (o[s.prev] = 0 => s.next[s.prev] = 0)

\* What the lists have to do with the names met so far; free slots are lost only
\* if a name of the file was there twice.
Filled(n, s, o, pw) ==
    /\ \A u \in Slots : s.pw[u] \in {pw[u], [pw[u] EXCEPT !.id = NoName]}
    /\ \A u \in 1..n : s.pw[u].id # NoName => o[u] = ucache_hash[s.pw[u].id]
    /\ \A u, v \in 1..n : u # v /\ s.pw[u].id = s.pw[v].id => s.pw[u].id = NoName
    /\ Twice(pw) = {} => /\ \A u \in 1..n : s.pw[u].id = NoName => o[u] = 0
                         /\ s.prev # 0 => o[s.prev] = 0
                         /\ s.prev = 0 => \A u \in Slots : o[u] # 0

\* fillucache on a free record: it goes behind the last free slot met, or first in list 0.
LEMMA AddEmptyLoads ==
  ASSUME NEW n \in Slots, NEW s, NEW o, NEW r, Loading(n-1, s, o, r),
         NEW pw \in [Slots -> Record], Filled(n-1, s, o, pw), s.pw[n].id = NoName
  PROVE  \E oo, rr : Loading(n, AddEmpty(s, n), oo, rr) /\ Filled(n, AddEmpty(s, n), oo, pw)
<1>1. /\ n \in Slots /\ o[n] = -1 /\ n \in Nat \ {0} /\ s \in LoadState
      /\ o \in [Slots -> Keys \cup {-1}]
      /\ Lists(s.head, s.next, o, r) /\ Entered(s.head, s.next, o)
  BY Numbers DEF Loading, Slots, Lists
<1>0. ASSUME NEW t, t.pw = s.pw, t.prev = n, NEW oo, oo[n] \in {0, -1},
             Twice(pw) = {} => oo[n] = 0,
             \A u \in Slots : u # n => oo[u] = o[u] \/ (o[u] = 0 /\ oo[u] = -1),
             Twice(pw) = {} => \A u \in Slots : u # n => oo[u] = o[u]
      PROVE  Filled(n, t, oo, pw)
  <2>1. \A u \in 1..n : u \in Slots /\ (u = n \/ u \in 1..n-1)
    BY <1>1, Numbers DEF Slots
  <2>2. \A u \in 1..n : s.pw[u].id # NoName => u # n /\ u \in 1..n-1 /\ s.pw[u].id \in Ids
    BY <1>1, <2>1 DEF LoadState, Record
  <2>3. ASSUME NEW u \in 1..n, s.pw[u].id # NoName PROVE oo[u] = ucache_hash[s.pw[u].id]
    <3>1. u # n /\ u \in 1..n-1 /\ s.pw[u].id \in Names /\ u \in Slots
      BY <2>1, <2>2, <2>3 DEF Ids
    <3>2. o[u] = ucache_hash[s.pw[u].id]
      BY <2>3, <3>1 DEF Filled
    <3>3. ucache_hash[s.pw[u].id] # 0
      BY <3>1, Numbers
    <3> QED BY <1>0, <3>1, <3>2, <3>3
  <2>4. \A u, v \in 1..n : u # v /\ s.pw[u].id = s.pw[v].id => s.pw[u].id = NoName
    BY <2>2 DEF Filled
  <2>5. n # 0
    BY <1>1
  <2>6. Twice(pw) = {} => \A u \in 1..n : s.pw[u].id = NoName => oo[u] = 0
    BY <1>0, <2>1 DEF Filled
  <2> QED BY <1>0, <2>3, <2>4, <2>5, <2>6 DEF Filled
<1>2. CASE s.prev = 0
  <2> DEFINE oo == [v \in Slots |-> IF v = n THEN 0 ELSE IF o[v] = 0 THEN -1 ELSE o[v]]
             t == [s EXCEPT !.prev = n, !.head = [s.head EXCEPT ![0] = n],
                            !.next = [s.next EXCEPT ![n] = 0]]
  <2>1. AddEmpty(s, n) = t
    BY <1>1, <1>2 DEF AddEmpty, LoadState
  <2>2. /\ t.head = [s.head EXCEPT ![0] = n] /\ t.next = [s.next EXCEPT ![n] = 0]
        /\ t.prev = n /\ t \in LoadState
    BY <1>1, Numbers DEF LoadState
  <2>3. Lists(t.head, t.next, oo, r) /\ Entered(t.head, t.next, oo)
    <3>1. Lists(t.head, t.next, oo, r)
      BY <1>1, <2>2, PutAlone, Numbers
    <3>2. Entered(t.head, t.next, oo)
      BY <1>1, <2>2, PutAloneEntered, Numbers
    <3> QED BY <3>1, <3>2
  <2>4. Loading(n, t, oo, r)
    BY <1>1, <2>2, <2>3, Numbers DEF Loading, LoadState, Slots
  <2>5. Twice(pw) = {} => \A u \in Slots : o[u] # 0
    BY <1>2 DEF Filled
  <2>6. /\ t.pw = s.pw /\ oo[n] = 0 /\ \A u \in Slots : u # n => oo[u] = o[u] \/ (o[u] = 0 /\ oo[u] = -1)
    BY <1>1, <2>2 DEF LoadState
  <2> HIDE DEF t, oo
  <2>7. Filled(n, t, oo, pw)
    BY <1>0, <2>2, <2>5, <2>6
  <2> QED BY <2>1, <2>4, <2>7
<1>3. CASE s.prev # 0
  <2> DEFINE p == s.prev
             t == [s EXCEPT !.prev = n,
                            !.next = [s.next EXCEPT ![n] = 0, ![p] = n]]
  <2>1. p \in Slots /\ p # n
    BY <1>1, <1>3, Numbers DEF Loading, LoadState
  <2>2. AddEmpty(s, n) = t
    BY <1>1, <1>3 DEF AddEmpty, LoadState
  <2>3. /\ t.head = s.head /\ t.next = [s.next EXCEPT ![n] = 0, ![p] = n]
        /\ t.prev = n /\ t \in LoadState /\ t.pw = s.pw
    BY <1>1, <2>1, Numbers DEF LoadState
  <2>4. CASE o[p] = -1
    <3>1. /\ Lists(t.head, [s.next EXCEPT ![n] = 0], o, r)
          /\ Entered(t.head, [s.next EXCEPT ![n] = 0], o)
      BY <1>1, <2>3, SetLoose, SetLooseEntered, Numbers
    <3>2. /\ Lists(t.head, [[s.next EXCEPT ![n] = 0] EXCEPT ![p] = n], o, r)
          /\ Entered(t.head, [[s.next EXCEPT ![n] = 0] EXCEPT ![p] = n], o)
      BY <3>1, <2>1, <2>4, SetLoose, SetLooseEntered, Numbers
    <3>3. t.next = [[s.next EXCEPT ![n] = 0] EXCEPT ![p] = n]
      BY <2>3
    <3>4. Loading(n, t, o, r)
      BY <1>1, <2>1, <2>3, <2>4, <3>2, <3>3, Numbers DEF Loading, LoadState, Slots
    <3>5. Twice(pw) # {}
      BY <1>3, <2>4, Numbers DEF Filled
    <3> HIDE DEF t
    <3>6. Filled(n, t, o, pw)
      BY <1>0, <1>1, <2>3, <3>5
    <3> QED BY <2>2, <3>4, <3>6
  <2>5. CASE o[p] = 0
    <3> DEFINE oo == [o EXCEPT ![n] = 0]
    <3>1. \E rr : Lists(s.head, [s.next EXCEPT ![n] = 0, ![p] = n], [o EXCEPT ![n] = o[p]], rr)
      <4>1. Lists(s.head, s.next, o, r) /\ s.next[p] = 0 /\ o[p] # -1
        BY <1>3, <2>5 DEF Loading
      <4> QED BY <1>1, <2>1, <4>1, PutLast
    <3>2. PICK rr : Lists(t.head, t.next, oo, rr)
      BY <2>3, <2>5, <3>1
    <3>6. Entered(t.head, t.next, oo)
      <4>1. s.next[p] = 0 /\ o[p] # -1
        BY <1>3, <2>5 DEF Loading
      <4>2. Entered(s.head, [s.next EXCEPT ![n] = 0, ![p] = n], [o EXCEPT ![n] = o[p]])
        BY <1>1, <2>1, <4>1, PutLastEntered
      <4> HIDE DEF t
      <4> QED BY <2>3, <2>5, <4>2
    <3>3. oo[n] = 0 /\ \A u \in Slots : u > n => oo[u] = -1
      BY <1>1, Numbers DEF Loading, Slots
    <3>4. t.next[n] = 0
      BY <1>1, <2>1, <2>3, Numbers DEF LoadState
    <3>5. Loading(n, t, oo, rr)
      <4> HIDE DEF t, oo
      <4> QED BY <1>1, <2>3, <3>2, <3>3, <3>4, <3>6, Numbers DEF Loading
    <3>7. \A u \in Slots : u # n => oo[u] = o[u]
      BY <1>1
    <3> HIDE DEF t, oo
    <3>8. Filled(n, t, oo, pw)
      BY <1>0, <2>3, <3>3, <3>7
    <3> QED BY <2>2, <3>5, <3>8
  <2> QED BY <1>3, <2>4, <2>5 DEF Loading
<1> QED BY <1>2, <1>3

\* fillucache on a record with a name: it goes in front of the list of its hash.
LEMMA AddNamedLoads ==
  ASSUME NEW n \in Slots, NEW s, NEW o, NEW r, Loading(n-1, s, o, r),
         NEW pw \in [Slots -> Record], Filled(n-1, s, o, pw), s.pw[n].id # NoName,
         \A u \in 1..n-1 : s.pw[u].id # s.pw[n].id
  PROVE  \E oo, rr : Loading(n, AddNamed(s, n), oo, rr) /\ Filled(n, AddNamed(s, n), oo, pw)
<1> DEFINE k == ucache_hash[s.pw[n].id]
           t == [s EXCEPT !.next = [s.next EXCEPT ![n] = s.head[k]],
                          !.head = [s.head EXCEPT ![k] = n]]
           oo == [o EXCEPT ![n] = k]
<1>1. /\ o[n] = -1 /\ n \in Nat \ {0} /\ s \in LoadState /\ k \in Keys
      /\ o \in [Slots -> Keys \cup {-1}] /\ \A u \in Slots : u > n-1 => o[u] = -1
  <2>1. s \in LoadState /\ \A u \in Slots : u > n-1 => o[u] = -1
    BY DEF Loading
  <2>2. n > n-1 /\ n \in Nat \ {0}
    BY Numbers DEF Slots
  <2>3. k \in Keys
    BY <2>1, Numbers DEF LoadState, Record
  <2> QED BY <2>1, <2>2, <2>3 DEF Loading, Lists
<1> HIDE DEF k
<1>2. AddNamed(s, n) = t
  BY <1>1 DEF AddNamed, LoadState, k
<1>3. /\ t.head = [s.head EXCEPT ![k] = n] /\ t.next = [s.next EXCEPT ![n] = s.head[k]]
      /\ t.prev = s.prev /\ t \in LoadState /\ t.pw = s.pw
  BY <1>1, Numbers DEF LoadState
<1>4. PICK rr : Lists(t.head, t.next, oo, rr)
  <2>1. Lists(s.head, s.next, o, r)
    BY DEF Loading
  <2>2. \E rr : Lists([s.head EXCEPT ![k] = n], [s.next EXCEPT ![n] = s.head[k]], oo, rr)
    BY <1>1, <2>1, PutFirst
  <2> HIDE DEF t
  <2> QED BY <1>3, <2>2
<1>5. \A u \in Slots : u > n => oo[u] = -1
  <2> SUFFICES ASSUME NEW u \in Slots, u > n PROVE oo[u] = -1
    OBVIOUS
  <2>1. u # n /\ u > n-1
    BY <1>1, Numbers DEF Slots
  <2> QED BY <1>1, <2>1
<1>6. s.prev <= n-1 /\ s.prev \in Links
  BY <1>1 DEF Loading, LoadState
<1>7. s.prev # 0 => /\ s.prev \in Slots /\ s.prev # n
                    /\ oo[s.prev] = o[s.prev] /\ t.next[s.prev] = s.next[s.prev]
  BY <1>1, <1>3, <1>6, Numbers DEF LoadState
<1>9. Entered(t.head, t.next, oo)
  <2>1. Lists(s.head, s.next, o, r) /\ Entered(s.head, s.next, o)
    BY DEF Loading
  <2>2. Entered([s.head EXCEPT ![k] = n], [s.next EXCEPT ![n] = s.head[k]], oo)
    BY <1>1, <2>1, PutFirstEntered
  <2> HIDE DEF t
  <2> QED BY <1>3, <2>2
<1>8. Loading(n, t, oo, rr)
  <2> HIDE DEF t, oo
  <2>1. s.prev # 0 => o[s.prev] \in {0, -1} /\ (o[s.prev] = 0 => s.next[s.prev] = 0)
    BY DEF Loading
  <2> QED BY <1>1, <1>3, <1>4, <1>5, <1>6, <1>7, <1>9, <2>1, Numbers DEF Loading, Slots
<1>10. Filled(n, t, oo, pw)
  <2>1. \A u \in 1..n : u \in Slots /\ (u = n \/ u \in 1..n-1)
    BY <1>1, Numbers DEF Slots
  <2>2. oo[n] = k /\ k # 0 /\ \A u \in Slots : u # n => oo[u] = o[u]
    <3>1. s.pw[n].id \in Names
      BY <1>1 DEF LoadState, Record, Ids
    <3> QED BY <1>1, <3>1, Numbers DEF k
  <2> HIDE DEF t, oo
  <2>3. \A u \in 1..n : s.pw[u].id # NoName => oo[u] = ucache_hash[s.pw[u].id]
    BY <2>1, <2>2 DEF Filled, k
  <2>4. \A u, v \in 1..n : u # v /\ s.pw[u].id = s.pw[v].id => s.pw[u].id = NoName
    BY <2>1 DEF Filled
  <2>5. \A u \in Slots : u # n => (o[u] # 0 => oo[u] # 0) /\ (o[u] = 0 => oo[u] = 0)
    BY <2>2
  <2>6. Twice(pw) = {} => \A u \in 1..n : s.pw[u].id = NoName => oo[u] = 0
    BY <2>1, <2>5 DEF Filled
  <2>7. Twice(pw) = {} => /\ s.prev # 0 => oo[s.prev] = 0
                          /\ s.prev = 0 => \A u \in Slots : oo[u] # 0
    BY <1>7, <2>2, <2>5 DEF Filled
  <2>8. \A u \in Slots : s.pw[u] \in {pw[u], [pw[u] EXCEPT !.id = NoName]}
    BY DEF Filled
  <2>9. ASSUME NEW x, x.pw = s.pw, x.prev = s.prev PROVE Filled(n, x, oo, pw)
    BY <2>3, <2>4, <2>6, <2>7, <2>8, <2>9 DEF Filled
  <2> QED BY <1>3, <2>9
<1> QED BY <1>2, <1>8, <1>10

\* The older slot of a name is taken out and becomes the free list.
LEMMA DropOldLoads ==
  ASSUME NEW n \in Slots, NEW s, NEW o, NEW r, Loading(n-1, s, o, r),
         NEW i \in Slots, NEW k \in Keys \ {0}, k = ucache_hash[s.pw[i].id],
         \E j \in 0..MAXUSERS : Walk(s.next, s.head[k])[j] = i,
         NEW pw \in [Slots -> Record], Filled(n-1, s, o, pw), Twice(pw) # {}
  PROVE  /\ \E oo : Loading(n-1, DropOld(s, i), oo, r) /\ Filled(n-1, DropOld(s, i), oo, pw)
         /\ DropOld(s, i).pw[i].id = NoName
         /\ \A u \in Slots : u # i => DropOld(s, i).pw[u] = s.pw[u]
<1> DEFINE w == Walk(s.next, s.head[k])
           before == {j \in 0..MAXUSERS-1 : w[j+1] = i}
           j0 == CHOOSE j \in before : TRUE
           p == w[j0]
           o1 == [o EXCEPT ![i] = -1]
           oo == [v \in Slots |-> IF v = i THEN 0 ELSE IF o1[v] = 0 THEN -1 ELSE o1[v]]
           Last(u) == [u EXCEPT !.pw[i].id = NoName, !.next[i] = 0, !.head[0] = i]
<1>1. /\ s \in LoadState /\ Lists(s.head, s.next, o, r) /\ Entered(s.head, s.next, o)
      /\ o \in [Slots -> Keys \cup {-1}] /\ n \in Nat /\ n - 1 \in Nat
  BY Numbers DEF Loading, Lists, Slots
<1>2. /\ w \in [0..MAXUSERS -> Links] /\ w[0] = s.head[k]
      /\ \A j \in 1..MAXUSERS : w[j] = IF w[j-1] = 0 THEN 0 ELSE s.next[w[j-1]]
      /\ \A j \in 0..MAXUSERS : w[j] \in Slots => o[w[j]] = k
  <2>1. s.next \in [Slots -> Links] /\ s.head[k] \in Links
    BY <1>1 DEF LoadState
  <2>2. \A j \in 0..MAXUSERS : w[j] \in Slots => o[w[j]] = k
    <3>1. \A j \in 0..MAXUSERS :
            Walk(s.next, s.head[k])[j] \in Slots => o[Walk(s.next, s.head[k])[j]] = k
      BY <1>1, WalkStays
    <3> QED BY <3>1
  <2> QED BY <2>1, <2>2, WalkDef
<1> HIDE DEF w
<1>3. o[i] = k /\ i < n
  <2>1. o[i] = k
    BY <1>2 DEF w
  <2> QED BY <1>1, <2>1, Numbers DEF Loading, Slots
<1>4. /\ o1 \in [Slots -> Keys \cup {-1}] /\ o1[i] = -1
      /\ \A v \in Slots : v # i => o1[v] = o[v]
  BY <1>1, Numbers
<1>5. s.head[k] # i => p \in Slots /\ o[p] = k /\ s.next[p] = i
  <2> SUFFICES ASSUME s.head[k] # i PROVE p \in Slots /\ o[p] = k /\ s.next[p] = i
    OBVIOUS
  <2>1. PICK j \in 0..MAXUSERS : w[j] = i
    BY DEF w
  <2>2. j-1 \in before
    BY <2>1, <1>2, Numbers
  <2>3. j0 \in before
    BY <2>2
  <2> HIDE DEF j0
  <2>4. j0 \in 0..MAXUSERS /\ j0+1 \in 1..MAXUSERS /\ w[j0+1] = i /\ (j0+1)-1 = j0
    BY <2>3, Numbers
  <2>5. w[j0] # 0 /\ s.next[w[j0]] = i /\ w[j0] \in Links
    BY <1>2, <2>4, Numbers
  <2> QED BY <1>2, <2>4, <2>5, Numbers
<1> HIDE DEF p, o1
\* The rest is the same however i was taken out.
<1>6. ASSUME NEW u \in LoadState, Lists(u.head, u.next, o1, r), u.prev = s.prev, u.pw = s.pw,
             Entered(u.head, u.next, o1),
             s.prev # 0 /\ o[s.prev] = 0 => u.next[s.prev] = s.next[s.prev]
      PROVE  /\ Loading(n-1, Last(u), oo, r) /\ Filled(n-1, Last(u), oo, pw)
             /\ Last(u).pw[i].id = NoName
             /\ \A v \in Slots : v # i => Last(u).pw[v] = s.pw[v]
  <2>1. /\ Last(u).head = [u.head EXCEPT ![0] = i] /\ Last(u).next = [u.next EXCEPT ![i] = 0]
        /\ Last(u).prev = s.prev /\ Last(u) \in LoadState
        /\ Last(u).pw = [s.pw EXCEPT ![i] = [s.pw[i] EXCEPT !.id = NoName]]
    <3>1. [u.pw[i] EXCEPT !.id = NoName] \in Record
      BY <1>6 DEF LoadState, Record, Ids
    <3>2. Last(u) = [u EXCEPT !.pw = [u.pw EXCEPT ![i] = [u.pw[i] EXCEPT !.id = NoName]],
                              !.next = [u.next EXCEPT ![i] = 0],
                              !.head = [u.head EXCEPT ![0] = i]]
      BY <1>6 DEF LoadState
    <3>3. /\ [u.pw EXCEPT ![i] = [u.pw[i] EXCEPT !.id = NoName]] \in [Slots -> Record]
          /\ [u.next EXCEPT ![i] = 0] \in [Slots -> Links]
          /\ [u.head EXCEPT ![0] = i] \in [Keys -> Links]
      BY <1>6, <3>1, Numbers DEF LoadState
    <3> HIDE DEF Last
    <3> QED BY <1>6, <3>2, <3>3 DEF LoadState
  <2>2. Lists(Last(u).head, Last(u).next, oo, r)
    BY <1>4, <1>6, <2>1, PutAlone, Numbers, SMTT(40)
  <2>6. Entered(Last(u).head, Last(u).next, oo)
    BY <1>4, <1>6, <2>1, PutAloneEntered, Numbers, SMTT(40)
  <2>7. \A v \in Slots : v # i => oo[v] = o[v] \/ (o[v] = 0 /\ oo[v] = -1)
    BY <1>4
  <2>3. \A v \in Slots : v > n-1 => oo[v] = -1
    BY <1>1, <1>3, <1>4, Numbers DEF Loading, Slots
  <2>4. s.prev # 0 => s.prev \in Slots /\ s.prev # i /\ oo[s.prev] = -1
    BY <1>1, <1>3, <1>4, Numbers DEF Loading, LoadState
  <2> HIDE DEF Last, oo
  <2>5. s.prev <= n-1
    BY DEF Loading
  <2>8. Loading(n-1, Last(u), oo, r)
    BY <2>1, <2>2, <2>3, <2>4, <2>5, <2>6, Numbers DEF Loading
  <2>9. /\ Last(u).pw[i] = [s.pw[i] EXCEPT !.id = NoName] /\ Last(u).pw[i].id = NoName
        /\ \A v \in Slots : v # i => Last(u).pw[v] = s.pw[v]
    BY <1>1, <2>1 DEF LoadState, Record
  <2>10. 1..n-1 \subseteq Slots
    BY <1>1, Numbers DEF Slots
  <2>11. \A v \in 1..n-1 : Last(u).pw[v].id # NoName => oo[v] = ucache_hash[Last(u).pw[v].id]
    <3> SUFFICES ASSUME NEW v \in 1..n-1, Last(u).pw[v].id # NoName
                 PROVE  oo[v] = ucache_hash[Last(u).pw[v].id]
      OBVIOUS
    <3>1. v \in Slots /\ v # i /\ Last(u).pw[v] = s.pw[v]
      BY <2>9, <2>10
    <3>2. s.pw[v].id \in Names
      BY <1>1, <3>1 DEF LoadState, Record, Ids
    <3>3. o[v] = ucache_hash[s.pw[v].id]
      BY <3>1 DEF Filled
    <3> QED BY <2>7, <3>1, <3>2, <3>3, Numbers
  <2>12. \A v, x \in 1..n-1 : v # x /\ Last(u).pw[v].id = Last(u).pw[x].id => Last(u).pw[v].id = NoName
    BY <2>9, <2>10 DEF Filled
  <2>13. \A v \in Slots : Last(u).pw[v] \in {pw[v], [pw[v] EXCEPT !.id = NoName]}
    <3>1. s.pw[i] \in {pw[i], [pw[i] EXCEPT !.id = NoName]}
      BY DEF Filled
    <3>2. [s.pw[i] EXCEPT !.id = NoName] = [pw[i] EXCEPT !.id = NoName]
      BY <3>1 DEF Record
    <3> QED BY <2>9, <3>2 DEF Filled
  <2>14. Filled(n-1, Last(u), oo, pw)
    BY <2>11, <2>12, <2>13 DEF Filled
  <2> QED BY <2>8, <2>9, <2>14
<1>7. CASE s.head[k] = i
  <2> DEFINE u == [s EXCEPT !.head[k] = s.next[i]]
  <2>1. DropOld(s, i) = Last(u)
    BY <1>7 DEF DropOld
  <2>2. /\ u \in LoadState /\ u.head = [s.head EXCEPT ![k] = s.next[i]]
        /\ u.next = s.next /\ u.prev = s.prev /\ u.pw = s.pw
    BY <1>1 DEF LoadState
  <2>3. /\ Lists([s.head EXCEPT ![k] = s.next[i]], s.next, o1, r)
        /\ Entered([s.head EXCEPT ![k] = s.next[i]], s.next, o1)
    BY <1>1, <1>7, TakeFirst, TakeFirstEntered DEF o1
  <2> HIDE DEF u, Last, oo
  <2> QED BY <1>6, <2>1, <2>2, <2>3
<1>8. CASE s.head[k] # i
  <2> DEFINE u == [s EXCEPT !.next[p] = s.next[i]]
  <2>1. DropOld(s, i) = Last(u)
    BY <1>8 DEF DropOld, p, w
  <2>2. /\ u \in LoadState /\ u.next = [s.next EXCEPT ![p] = s.next[i]]
        /\ u.head = s.head /\ u.prev = s.prev /\ u.pw = s.pw
    BY <1>1, <1>5, <1>8 DEF LoadState
  <2>3. /\ Lists(s.head, [s.next EXCEPT ![p] = s.next[i]], o1, r)
        /\ Entered(s.head, [s.next EXCEPT ![p] = s.next[i]], o1)
    BY <1>1, <1>5, <1>8, TakeNext, TakeNextEntered, Numbers DEF o1
  <2>4. s.prev # 0 /\ o[s.prev] = 0 => u.next[s.prev] = s.next[s.prev]
    BY <1>1, <1>5, <1>8, <2>2, Numbers DEF LoadState
  <2> HIDE DEF u, Last, oo
  <2> QED BY <1>6, <2>1, <2>2, <2>3, <2>4
<1> QED BY <1>7, <1>8

\* One round of load_ucache's loop, whichever record it meets.
LEMMA FillLoads ==
  ASSUME NEW n \in Slots, NEW s, NEW o, NEW r, Loading(n-1, s, o, r), NEW newer \in BOOLEAN,
         NEW pw \in [Slots -> Record], Filled(n-1, s, o, pw),
         \A u \in Slots : u > n-1 => s.pw[u] = pw[u]
  PROVE  LET t == fillucache(s, n, newer)
         IN  /\ \E oo, rr : Loading(n, t, oo, rr) /\ Filled(n, t, oo, pw)
             /\ \A u \in Slots : u > n => t.pw[u] = pw[u]
<1> DEFINE id == s.pw[n].id
           old == SearchIn(s.head, s.next, s.pw, id)
           Goal(t) == /\ \E oo, rr : Loading(n, t, oo, rr) /\ Filled(n, t, oo, pw)
                      /\ \A u \in Slots : u > n => t.pw[u] = pw[u]
<1>1. /\ s \in LoadState /\ Lists(s.head, s.next, o, r) /\ Entered(s.head, s.next, o)
      /\ id \in Ids /\ s.pw \in [Slots -> Record]
  BY DEF Loading, LoadState, Record
<1>2. n \in Nat /\ n > n-1 /\ 1..n-1 \subseteq Slots /\ n \notin 1..n-1
      /\ \A u \in Slots : u \in Nat /\ (u > n-1 <=> u = n \/ u > n) /\ (u > n-1 \/ u \in 1..n-1)
  BY Numbers DEF Slots
<1>3. SUFFICES Goal(fillucache(s, n, newer))
  OBVIOUS
<1>4. \A t : t.pw = s.pw => \A u \in Slots : u > n => t.pw[u] = pw[u]
  BY <1>2
<1>5. AddEmpty(s, n).pw = s.pw /\ AddNamed(s, n).pw = s.pw
  BY <1>1 DEF AddEmpty, AddNamed, LoadState
<1>6. CASE id = NoName
  <2>1. fillucache(s, n, newer) = AddEmpty(s, n)
    BY <1>6 DEF fillucache
  <2>2. \E oo, rr : Loading(n, AddEmpty(s, n), oo, rr) /\ Filled(n, AddEmpty(s, n), oo, pw)
    BY <1>6, AddEmptyLoads
  <2> QED BY <1>4, <1>5, <2>1, <2>2
<1>7. CASE id # NoName /\ old = 0
  <2>1. fillucache(s, n, newer) = AddNamed(s, n)
    BY <1>7 DEF fillucache
  <2>2. ASSUME NEW u \in 1..n-1, s.pw[u].id = id PROVE FALSE
    <3>1. u \in Slots /\ o[u] = ucache_hash[id] /\ ucache_hash[id] \in Keys
      BY <1>1, <1>2, <1>7, <2>2, Numbers DEF Filled
    <3>2. u \in ListOf(s.head, s.next, ucache_hash[id])
      BY <1>1, <3>1, ListOfIs
    <3> QED BY <1>7, <2>2, <3>2, SearchFinds
  <2>3. \A u \in 1..n-1 : s.pw[u].id # s.pw[n].id
    BY <2>2
  <2>4. \E oo, rr : Loading(n, AddNamed(s, n), oo, rr) /\ Filled(n, AddNamed(s, n), oo, pw)
    BY <1>7, <2>3, AddNamedLoads
  <2> QED BY <1>4, <1>5, <2>1, <2>4
\* A name met before.
<1>8. ASSUME id # NoName, old # 0
      PROVE  /\ old \in 1..n-1 /\ old \in Slots /\ s.pw[old].id = id /\ Twice(pw) # {}
             /\ ucache_hash[s.pw[old].id] \in Keys \ {0}
             /\ \E j \in 0..MAXUSERS : Walk(s.next, s.head[ucache_hash[s.pw[old].id]])[j] = old
  <2>1. LET u == SearchIn(s.head, s.next, s.pw, id)
        IN  u # 0 => /\ u \in Slots /\ o[u] = ucache_hash[id] /\ s.pw[u].id = id
                     /\ \E j \in 0..MAXUSERS : Walk(s.next, s.head[ucache_hash[id]])[j] = u
    <3> HIDE DEF id
    <3> QED BY <1>1, SearchStays
  <2>2. /\ old \in Slots /\ o[old] = ucache_hash[id] /\ s.pw[old].id = id
        /\ \E j \in 0..MAXUSERS : Walk(s.next, s.head[ucache_hash[id]])[j] = old
    <3> HIDE DEF id
    <3> QED BY <1>8, <2>1
  <2> HIDE DEF old
  <2>3. ucache_hash[id] \in Keys \ {0}
    BY <1>1, <1>8, Numbers DEF Ids
  <2>4. old \in 1..n-1
    BY <1>2, <2>2, <2>3, Numbers DEF Loading
  <2>5. pw[old].id = id /\ pw[n].id = id /\ old # n
    <3>1. s.pw[old] \in {pw[old], [pw[old] EXCEPT !.id = NoName]}
      BY <2>2 DEF Filled
    <3>2. [pw[old] EXCEPT !.id = NoName].id = NoName
      BY <2>2 DEF Record
    <3> QED BY <1>2, <1>8, <2>2, <2>4, <3>1, <3>2
  <2>6. Twice(pw) # {}
    BY <1>8, <2>2, <2>5 DEF Twice
  <2> QED BY <2>2, <2>3, <2>4, <2>6
<1>9. CASE id # NoName /\ old # 0 /\ newer
  <2>1. fillucache(s, n, newer) = AddNamed(DropOld(s, old), n)
    BY <1>9 DEF fillucache
  <2> HIDE DEF old
  <2>2. PICK d : d = DropOld(s, old)
    OBVIOUS
  <2>3. /\ \E oo : Loading(n-1, d, oo, r) /\ Filled(n-1, d, oo, pw)
        /\ d.pw[old].id = NoName /\ \A u \in Slots : u # old => d.pw[u] = s.pw[u]
    BY <1>8, <1>9, <2>2, DropOldLoads
  <2>4. PICK oo : Loading(n-1, d, oo, r) /\ Filled(n-1, d, oo, pw)
    BY <2>3
  <2>5. d.pw[n] = s.pw[n]
    BY <1>2, <1>8, <1>9, <2>3
  <2>6. \A u \in 1..n-1 : d.pw[u].id # d.pw[n].id
    BY <1>2, <1>8, <1>9, <2>3, <2>5 DEF Filled
  <2>7. \E oo2, rr : Loading(n, AddNamed(d, n), oo2, rr) /\ Filled(n, AddNamed(d, n), oo2, pw)
    BY <1>9, <2>4, <2>5, <2>6, AddNamedLoads
  <2>8. AddNamed(d, n).pw = d.pw
    BY <2>4 DEF AddNamed, LoadState, Loading
  <2>9. \A u \in Slots : u > n => d.pw[u] = pw[u]
    BY <1>2, <1>8, <1>9, <2>3
  <2> QED BY <2>1, <2>2, <2>7, <2>8, <2>9
<1>10. CASE id # NoName /\ old # 0 /\ ~newer
  <2> DEFINE t == [s EXCEPT !.pw[n].id = NoName]
  <2>1. fillucache(s, n, newer) = AddEmpty(t, n)
    BY <1>10 DEF fillucache
  <2>2. /\ t \in LoadState /\ t.head = s.head /\ t.next = s.next /\ t.prev = s.prev
        /\ t.pw = [s.pw EXCEPT ![n] = [s.pw[n] EXCEPT !.id = NoName]]
    <3>1. [s.pw[n] EXCEPT !.id = NoName] \in Record
      BY <1>1 DEF LoadState, Record, Ids
    <3>2. t = [s EXCEPT !.pw = [s.pw EXCEPT ![n] = [s.pw[n] EXCEPT !.id = NoName]]]
      BY <1>1 DEF LoadState
    <3> HIDE DEF t
    <3> QED BY <1>1, <3>1, <3>2 DEF LoadState
  <2> HIDE DEF t
  <2>3. Loading(n-1, t, o, r)
    BY <2>2 DEF Loading
  <2>4. /\ t.pw[n] = [pw[n] EXCEPT !.id = NoName] /\ t.pw[n].id = NoName
        /\ \A u \in Slots : u # n => t.pw[u] = s.pw[u]
    BY <1>1, <1>2, <2>2 DEF Record
  <2>5. Filled(n-1, t, o, pw)
    <3>1. \A u \in Slots : t.pw[u] \in {pw[u], [pw[u] EXCEPT !.id = NoName]}
      BY <2>4 DEF Filled
    <3>2. \A u \in 1..n-1 : t.pw[u] = s.pw[u]
      BY <1>2, <2>4
    <3>3. Twice(pw) # {}
      BY <1>8, <1>10
    <3> QED BY <3>1, <3>2, <3>3 DEF Filled
  <2>6. \E oo, rr : Loading(n, AddEmpty(t, n), oo, rr) /\ Filled(n, AddEmpty(t, n), oo, pw)
    BY <2>3, <2>4, <2>5, AddEmptyLoads
  <2>7. AddEmpty(t, n).pw = t.pw
    BY <2>2 DEF AddEmpty, LoadState
  <2>8. \A u \in Slots : u > n => t.pw[u] = pw[u]
    BY <1>2, <2>4
  <2> QED BY <2>1, <2>6, <2>7, <2>8
<1> QED BY <1>6, <1>7, <1>9, <1>10

\* The lists made from any file are sound, and have every name once.
LEMMA LoadSound ==
  ASSUME NEW pw \in [Slots -> Record], NEW newer \in BOOLEAN
  PROVE  LET s == load_ucache(pw, newer)
         IN  /\ s \in LoadState
             /\ \E o, r : /\ Lists(s.head, s.next, o, r) /\ Entered(s.head, s.next, o)
                          /\ Filled(MAXUSERS, s, o, pw)
<1> DEFINE s0 == [head |-> [k \in Keys |-> 0], next |-> [i \in Slots |-> 0],
                  pw |-> pw, prev |-> 0]
           Good(n, s) == /\ \E o, r : Loading(n, s, o, r) /\ Filled(n, s, o, pw)
                         /\ \A u \in Slots : u > n => s.pw[u] = pw[u]
           G == [n \in 0..MAXUSERS |-> {s \in LoadState : Good(n, s)}]
           F == [p \in (1..MAXUSERS) \X LoadState |-> fillucache(p[2], p[1], newer)]
           Def(f) == f = [n \in 0..MAXUSERS |->
                            IF n = 0 THEN s0 ELSE fillucache(f[n-1], n, newer)]
<1>1. s0 \in G[0]
  <2>1. s0 \in LoadState
    BY Numbers DEF LoadState
  <2>2. Lists(s0.head, s0.next, [i \in Slots |-> -1], [i \in Slots |-> 0])
    BY Numbers DEF Lists
  <2>3. Entered(s0.head, s0.next, [i \in Slots |-> -1])
    BY DEF Entered
  <2>4. Loading(0, s0, [i \in Slots |-> -1], [i \in Slots |-> 0])
    BY <2>1, <2>2, <2>3 DEF Loading
  <2>5. Filled(0, s0, [i \in Slots |-> -1], pw)
    BY DEF Filled
  <2>6. Good(0, s0)
    BY <2>4, <2>5
  <2> HIDE DEF s0, Good
  <2> QED BY <2>1, <2>6, Numbers
<1>2. ASSUME NEW n \in 1..MAXUSERS, NEW s \in G[n-1]
      PROVE  s \in LoadState /\ F[<<n, s>>] = fillucache(s, n, newer) /\ F[<<n, s>>] \in G[n]
  <2>1. n-1 \in 0..MAXUSERS /\ n \in 0..MAXUSERS /\ n \in Slots
    BY Numbers DEF Slots
  <2>2. s \in LoadState /\ Good(n-1, s)
    BY <2>1
  <2>3. F[<<n, s>>] = fillucache(s, n, newer)
    BY <2>2
  <2>4. Good(n, fillucache(s, n, newer))
    BY <2>1, <2>2, FillLoads
  <2>5. fillucache(s, n, newer) \in LoadState
    BY <2>4 DEF Loading
  <2> HIDE DEF F, Good
  <2> QED BY <2>1, <2>2, <2>3, <2>4, <2>5
<1>3. \E f : Recursion(MAXUSERS, F, s0, f) /\ \A n \in 0..MAXUSERS : f[n] \in G[n]
  <2>1. \A n \in 1..MAXUSERS : \A s \in G[n-1] : F[<<n, s>>] \in G[n]
    BY <1>2
  <2>2. MAXUSERS \in Nat
    BY Numbers
  <2> HIDE DEF s0, F, G
  <2> QED BY <1>1, <2>1, <2>2, RecursiveFunction, Zenon
<1>4. PICK f : Recursion(MAXUSERS, F, s0, f) /\ \A n \in 0..MAXUSERS : f[n] \in G[n]
  BY <1>3
<1>5. Def(f)
  <2>1. \A n \in 1..MAXUSERS : f[n-1] \in G[n-1]
    BY <1>4, Numbers
  <2>2. \A n \in 1..MAXUSERS : F[<<n, f[n-1]>>] = fillucache(f[n-1], n, newer)
    BY <1>2, <2>1
  <2>3. \A n \in 0..MAXUSERS : n = 0 \/ n \in 1..MAXUSERS
    BY Numbers
  <2> HIDE DEF F, G, s0
  <2> QED BY <1>4, <2>2, <2>3 DEF Recursion
<1> DEFINE g == CHOOSE g : Def(g)
           T == {n \in 0..MAXUSERS : g[n] = f[n]}
<1>6. Def(g)
  <2> HIDE DEF Def
  <2> QED BY <1>5
<1>7. load_ucache(pw, newer) = g[MAXUSERS]
  BY DEF load_ucache
<1>8. 0..MAXUSERS \subseteq T
  <2> HIDE DEF g, s0
  <2>1. 0 \in T
    BY <1>5, <1>6, Numbers
  <2>2. \A n \in 1..MAXUSERS : n-1 \in T => n \in T
    BY <1>5, <1>6, Numbers
  <2> HIDE DEF T
  <2> QED BY <2>1, <2>2, SetInduction, Numbers
<1>9. g[MAXUSERS] = f[MAXUSERS] /\ f[MAXUSERS] \in G[MAXUSERS]
  <2> HIDE DEF g, G
  <2> QED BY <1>4, <1>8, Numbers
<1>10. g[MAXUSERS] \in LoadState /\ Good(MAXUSERS, g[MAXUSERS])
  <2> HIDE DEF g, Good
  <2> QED BY <1>9, Numbers
<1> HIDE DEF g
<1> QED BY <1>7, <1>10 DEF Loading

-----------------------------------------------------------------------------
(* The inductive invariant. *)

Requests == [cmd : {"NEW", "SET", "DEL"}, uid : Links, id : Ids, c : Clients, seq : Int]
Jobs == [step : {"none", "link", "name"}, cmd : {"", "NEW", "SET", "DEL"}, uid : Links,
         id : Ids, c : Clients \cup {0}, seq : Int]
ClientStates == [pc : {"idle", "send", "wait", "answered", "write"},
            op : {"", "register", "delete", "kill", "modify"},
            n : Ids, n2 : Ids, uid : -1..MAXUSERS, copy : Record, seq : Int]

Types ==
    /\ passwd \in [Slots -> Record] /\ file \in [Slots -> Record]
    /\ queue \in Seq(Requests)
    /\ job \in Jobs /\ (job.step # "none" => job.uid \in Slots /\ job.c \in Clients)
    /\ cl \in [Clients -> ClientStates]
    /\ \A c \in Clients : cl[c].pc = "send" => cl[c].uid \in Slots
    /\ events \in Nat

\* The lists are sound, and the slot that is being put into one is in none.
ListInv ==
    \E o, r : /\ Lists(hashhead, next, o, r) /\ Entered(hashhead, next, o)
              /\ job.step = "link" => o[job.uid] = -1

IInv == Types /\ ListInv

\* The initial values are of their types.
LEMMA RecordFacts == Free \in Record /\ IdleClient \in ClientStates /\ NoJob \in Jobs
BY UCacheAssumption DEF Free, Record, IdleClient, ClientStates, NoJob, Jobs, Ids, Links

\* The cache as load_ucache leaves it satisfies the invariant.
LEMMA InitInv == Init => IInv
<1> SUFFICES ASSUME Init PROVE IInv
  OBVIOUS
<1> DEFINE FileOf(names) == [i \in Slots |-> IF names[i] = NoName THEN Free
                                           ELSE [id |-> names[i], acc |-> i, level |-> 1]]
<1>1. PICK names \in FirstFiles, newer \in BOOLEAN :
        LET s == load_ucache(FileOf(names), newer) IN
        /\ hashhead = s.head /\ next = s.next /\ passwd = s.pw
        /\ file = FileOf(names)
  BY DEF Init
<1>2. queue = <<>> /\ job = NoJob /\ events = 0 /\ cl = [c \in Clients |-> IdleClient]
  BY DEF Init
<1>3. FileOf(names) \in [Slots -> Record]
  <2>1. names \in [Slots -> Ids]
    BY UCacheAssumption DEF Ids
  <2>2. \A i \in Slots : i \in Int
    BY DEF Slots
  <2> QED BY <2>1, <2>2, RecordFacts DEF Record
<1> HIDE DEF FileOf
<1>4. /\ passwd \in [Slots -> Record]
      /\ \E o, r : Lists(hashhead, next, o, r) /\ Entered(hashhead, next, o)
  BY <1>1, <1>3, LoadSound DEF LoadState
<1>5. job.step = "none" /\ \A c \in Clients : cl[c].pc = "idle"
  BY <1>2 DEF NoJob, IdleClient
<1> QED BY <1>1, <1>2, <1>3, <1>4, <1>5, RecordFacts DEF IInv, Types, ListInv

-----------------------------------------------------------------------------
(* Taking a slot out of its list. *)

\* The walk in Before() stays in lists, though it may go through next[-1].
LEMMA BeforeStays ==
  ASSUME NEW o, NEW r, Lists(hashhead, next, o, r), NEW uid \in Slots, NEW k \in Keys,
         Before(uid, k) # -1
  PROVE  LET p == Before(uid, k)
         IN  \/ p = 0 /\ hashhead[UCACHE_HASHSIZE] = uid
             \/ p \in Slots /\ o[p] # -1 /\ next[p] = uid
<1> DEFINE G == [j \in 0..MAXUSERS |-> Links]
           F == [q \in (1..MAXUSERS) \X Links |-> NextOf(q[2])]
           Def(f) == f = [j \in 0..MAXUSERS |-> IF j = 0 THEN hashhead[k] ELSE NextOf(f[j-1])]
           node == CHOOSE f : Def(f)
           hits == {j \in 0..MAXUSERS :
                      NextOf(node[j]) = uid /\ \A i \in 0..j : i = 0 \/ node[i] # 0}
           j0 == CHOOSE j \in hits : \A i \in hits : j <= i
<1>1. /\ hashhead \in [Keys -> Links] /\ next \in [Slots -> Links]
      /\ \A i \in Links : NextOf(i) \in Links
  BY Numbers DEF Lists, NextOf
<1>2. Def(node)
  <2>1. \A j \in 1..MAXUSERS : \A x \in Links :
          F[<<j, x>>] = NextOf(x) /\ F[<<j, x>>] \in Links
    BY <1>1
  <2>2. \E f : Recursion(MAXUSERS, F, hashhead[k], f) /\ \A j \in 0..MAXUSERS : f[j] \in G[j]
    <3>1. hashhead[k] \in G[0] /\ \A j \in 1..MAXUSERS : \A x \in G[j-1] : F[<<j, x>>] \in G[j]
      BY <1>1, <2>1, Numbers
    <3>2. MAXUSERS \in Nat
      BY Numbers
    <3> HIDE DEF F, G
    <3> QED BY <3>1, <3>2, RecursiveFunction, Zenon
  <2>3. PICK f : Recursion(MAXUSERS, F, hashhead[k], f) /\ \A j \in 0..MAXUSERS : f[j] \in G[j]
    BY <2>2
  <2>4. \A j \in 0..MAXUSERS : f[j] \in Links
    BY <2>3
  <2>5. \A j \in 1..MAXUSERS : F[<<j, f[j-1]>>] = NextOf(f[j-1])
    BY <2>1, <2>4, Numbers
  <2>6. Def(f)
    <3> HIDE DEF F
    <3> QED BY <2>3, <2>5 DEF Recursion
  <2> HIDE DEF Def
  <2> QED BY <2>6
<1>3. node[0] = hashhead[k] /\ \A j \in 1..MAXUSERS : node[j] = NextOf(node[j-1])
  <2> HIDE DEF node
  <2> QED BY <1>2, Numbers
<1>4. Before(uid, k) = IF hits = {} THEN -1 ELSE node[j0]
  BY DEF Before
<1> DEFINE T == {j \in 0..MAXUSERS :
                   /\ node[j] \in Links
                   /\ (\A i \in 0..j : i = 0 \/ node[i] # 0) /\ node[j] # 0 => o[node[j]] # -1}
<1> HIDE DEF node
<1>5. 0..MAXUSERS \subseteq T
  <2>1. 0 \in T
    BY <1>1, <1>3, Numbers DEF Lists
  <2>2. ASSUME NEW j \in 1..MAXUSERS, j-1 \in T PROVE j \in T
    <3>1. j-1 \in 0..MAXUSERS /\ j \in 0..MAXUSERS /\ node[j-1] \in Links
      BY <2>2, Numbers
    <3>2. node[j] = NextOf(node[j-1]) /\ node[j] \in Links
      BY <1>1, <1>3, <3>1
    <3>3. ASSUME \A i \in 0..j : i = 0 \/ node[i] # 0, node[j] # 0 PROVE o[node[j]] # -1
      <4>1. CASE node[j-1] = 0
        BY <3>2, <3>3, <4>1, Numbers DEF NextOf, Lists
      <4>2. CASE node[j-1] # 0
        <5>1. \A i \in 0..j-1 : i = 0 \/ node[i] # 0
          BY <3>3, Numbers
        <5>2. node[j-1] \in Slots /\ o[node[j-1]] # -1
          BY <2>2, <3>1, <4>2, <5>1, Numbers
        <5>3. node[j] = next[node[j-1]]
          BY <3>2, <4>2 DEF NextOf
        <5> QED BY <3>3, <5>2, <5>3, Numbers DEF Lists
      <4> QED BY <4>1, <4>2
    <3> QED BY <3>1, <3>2, <3>3
  <2> HIDE DEF T
  <2> QED BY <2>1, <2>2, SetInduction, Numbers
<1>6. hits # {}
  BY <1>4
<1>7. j0 \in hits
  <2>1. hits \in SUBSET Nat
    OBVIOUS
  <2>2. \E j \in hits : \A i \in hits : j <= i
    <3> HIDE DEF hits
    <3> QED BY <1>6, <2>1, LeastElement
  <2> HIDE DEF hits
  <2> QED BY <2>2
<1> DEFINE p == node[j0]
<1>8. Before(uid, k) = p
  BY <1>4, <1>6
<1> HIDE DEF j0
<1>9. /\ j0 \in 0..MAXUSERS /\ NextOf(p) = uid /\ p \in Links
      /\ p # 0 => o[p] # -1
  <2>1. /\ j0 \in 0..MAXUSERS /\ NextOf(p) = uid
        /\ \A i \in 0..j0 : i = 0 \/ node[i] # 0
    BY <1>7
  <2> QED BY <1>5, <2>1
<1> HIDE DEF p
<1> QED BY <1>8, <1>9, Numbers DEF NextOf

\* Remove() keeps the lists sound, and leaves the slot in none of them.
LEMMA RemoveSound ==
  ASSUME NEW o, NEW r, Lists(hashhead, next, o, r), NEW uid \in Slots, NEW k \in Keys,
         hashhead[k] = uid \/ Before(uid, k) # -1, Entered(hashhead, next, o),
         Remove(uid, k, Before(uid, k))
  PROVE  /\ Lists(hashhead', next', [o EXCEPT ![uid] = -1], r)
         /\ Entered(hashhead', next', [o EXCEPT ![uid] = -1])
<1> DEFINE p == Before(uid, k)
<1>1. CASE hashhead[k] = uid
  <2>1. hashhead' = [hashhead EXCEPT ![k] = next[uid]] /\ next' = next
    BY <1>1 DEF Remove
  <2> QED BY <1>1, <2>1, TakeFirst, TakeFirstEntered
<1>2. CASE hashhead[k] # uid /\ p = 0 /\ hashhead[UCACHE_HASHSIZE] = uid
  <2>1. hashhead' = [hashhead EXCEPT ![UCACHE_HASHSIZE] = next[uid]] /\ next' = next
    BY <1>2 DEF Remove
  <2> QED BY <1>2, <2>1, TakeFirst, TakeFirstEntered, Numbers
<1>3. CASE hashhead[k] # uid /\ p \in Slots /\ o[p] # -1 /\ next[p] = uid
  <2>1. next' = [next EXCEPT ![p] = next[uid]] /\ hashhead' = hashhead
    BY <1>3, Numbers DEF Remove
  <2> HIDE DEF p
  <2> QED BY <1>3, <2>1, TakeNext, TakeNextEntered
<1> QED BY <1>1, <1>2, <1>3, BeforeStays

\* An answer leaves the clients typed.
LEMMA AnswerTypes ==
  ASSUME cl \in [Clients -> ClientStates], NEW c \in Clients, NEW seq, NEW uid \in -1..MAXUSERS,
         \A d \in Clients : cl[d].pc = "send" => cl[d].uid \in Slots,
         Answer(c, seq, uid)
  PROVE  /\ cl' \in [Clients -> ClientStates]
         /\ \A d \in Clients : cl'[d].pc = "send" => cl'[d].uid \in Slots
<1> DEFINE v == IF cl[c].op = "register" THEN uid ELSE cl[c].uid
           a == [cl[c] EXCEPT !.pc = "answered", !.uid = v]
<1>1. a \in ClientStates /\ a.pc = "answered"
  BY DEF ClientStates
<1>2. cl' = [cl EXCEPT ![c] = a] \/ cl' = cl
  BY DEF Answer
<1> HIDE DEF a
<1> QED BY <1>1, <1>2

\* userd and killd: a slot is taken out, or nothing changes.
LEMMA UnlinkInv ==
  ASSUME Types, ListInv, NEW req \in Requests, NEW uid \in Links,
         Unlink(req, uid)
  PROVE  /\ ListInv' /\ passwd' = passwd
         /\ job' \in Jobs /\ (job'.step # "none" => job'.uid \in Slots /\ job'.c \in Clients)
         /\ cl' \in [Clients -> ClientStates]
         /\ \A c \in Clients : cl'[c].pc = "send" => cl'[c].uid \in Slots
<1> DEFINE k == ucache_hash[passwd[uid].id]
           p == Before(uid, k)
<1>1. passwd' = passwd /\ job.step = "none"
  BY DEF Unlink
<1>2. PICK o, r : Lists(hashhead, next, o, r) /\ Entered(hashhead, next, o)
  BY DEF ListInv
<1>3. CASE UNCHANGED <<hashhead, next, job>> /\ Answer(req.c, req.seq, IF req.cmd = "NEW" THEN -1 ELSE 0)
  <2>1. ListInv'
    BY <1>1, <1>2, <1>3 DEF ListInv
  <2>2. req.c \in Clients /\ (IF req.cmd = "NEW" THEN -1 ELSE 0) \in -1..MAXUSERS
    BY Numbers DEF Requests
  <2>3. /\ cl' \in [Clients -> ClientStates]
        /\ \A d \in Clients : cl'[d].pc = "send" => cl'[d].uid \in Slots
    BY <1>3, <2>2, AnswerTypes DEF Types
  <2> QED BY <1>1, <1>3, <2>1, <2>3 DEF Types
<1>4. CASE /\ uid # 0 /\ (hashhead[k] = uid \/ p # -1)
           /\ Remove(uid, k, p)
           /\ job' = [step |-> "link", cmd |-> req.cmd, uid |-> uid, id |-> req.id,
                      c |-> req.c, seq |-> req.seq]
           /\ UNCHANGED cl
  <2>1. uid \in Slots /\ k \in Keys
    BY <1>4, Numbers DEF Types, Record
  <2>2. /\ Lists(hashhead', next', [o EXCEPT ![uid] = -1], r)
        /\ Entered(hashhead', next', [o EXCEPT ![uid] = -1])
    BY <1>2, <1>4, <2>1, RemoveSound
  <2>3. [o EXCEPT ![uid] = -1][uid] = -1 /\ job'.uid = uid
    BY <1>2, <1>4, <2>1 DEF Lists
  <2>4. ListInv'
    BY <2>2, <2>3 DEF ListInv
  <2>5. job' \in Jobs /\ job'.c \in Clients
    BY <1>4 DEF Jobs, Requests
  <2> QED BY <1>1, <1>4, <2>1, <2>3, <2>4, <2>5 DEF Types
<1> QED BY <1>3, <1>4 DEF Unlink

-----------------------------------------------------------------------------
(* Every step keeps the invariant. *)

ListsStay == UNCHANGED <<hashhead, next, job>>

\* A step that leaves heads, links and the request in progress alone leaves the lists right.
LEMMA SameLists == ListInv /\ ListsStay => ListInv'
BY DEF ListInv, ListsStay

\* One client changes, and neither the records nor the lists do.
LEMMA ClientTypes ==
  ASSUME Types, NEW c \in Clients, NEW s \in ClientStates, s.pc = "send" => s.uid \in Slots,
         cl' = [cl EXCEPT ![c] = s]
  PROVE  /\ cl' \in [Clients -> ClientStates]
         /\ \A d \in Clients : cl'[d].pc = "send" => cl'[d].uid \in Slots
BY DEF Types

\* searchuser returns a slot of the table or 0.
LEMMA Found ==
  ASSUME IInv, NEW n \in Names
  PROVE  LET u == searchuser(n)
         IN  u # 0 => u \in Slots /\ passwd[u] \in Record
<1>1. PICK o, r : Lists(hashhead, next, o, r)
  BY DEF IInv, ListInv
<1> DEFINE u == SearchIn(hashhead, next, passwd, n)
<1>2. u # 0 => u \in Slots
  BY <1>1, SearchStays DEF Ids
<1> HIDE DEF u
<1> QED BY <1>2 DEF u, searchuser, IInv, Types

\* Every step of a client or of the daemon keeps the invariant.
LEMMA StepInv == IInv /\ [Next]_vars => IInv'
<1> SUFFICES ASSUME IInv, [Next]_vars PROVE IInv'
  OBVIOUS
<1> USE DEF IInv
<1>1. CASE UNCHANGED vars
  BY <1>1, SameLists DEF Types, ListsStay, vars, cache
<1>2. ASSUME NEW c \in Clients, NEW n \in Names, Register(c, n) PROVE IInv'
  <2> DEFINE s == [IdleClient EXCEPT !.pc = "wait", !.op = "register", !.n = n, !.seq = events + 1]
             q == [cmd |-> "NEW", uid |-> 0, id |-> n, c |-> c, seq |-> events + 1]
  <2>1. s \in ClientStates /\ s.pc # "send" /\ q \in Requests
    <3>1. IdleClient \in ClientStates /\ events + 1 \in Int /\ n \in Ids /\ NoName \in Ids
          /\ 0 \in Links
      BY RecordFacts, Numbers DEF Ids, Types
    <3> HIDE DEF IdleClient
    <3> QED BY <3>1 DEF ClientStates, Requests
  <2>2. /\ cl' = [cl EXCEPT ![c] = s] /\ queue' = Append(queue, q) /\ events' = events + 1
        /\ UNCHANGED <<file, passwd>> /\ ListsStay
    BY <1>2 DEF Register, Starts, StaysPut, ListsStay, cache
  <2> HIDE DEF s, q
  <2> QED BY <2>1, <2>2, ClientTypes, SameLists DEF Types, ListsStay
<1>3. ASSUME NEW c \in Clients, NEW n \in Names, NEW op \in {"delete", "kill"}, Delete(c, n, op)
      PROVE  IInv'
  <2> DEFINE u == searchuser(n)
             s == [IdleClient EXCEPT !.pc = "send", !.op = op, !.n = n, !.uid = u, !.seq = events + 1]
  <2>1. /\ cl' = [cl EXCEPT ![c] = s] /\ queue' = queue /\ events' = events + 1
        /\ UNCHANGED <<file, passwd>> /\ ListsStay /\ u # 0
    BY <1>3 DEF Delete, Starts, StaysPut, ListsStay, cache
  <2>2. u \in Slots
    BY <2>1, Found
  <2> HIDE DEF u
  <2>3. s \in ClientStates /\ s.uid \in Slots
    <3>1. /\ IdleClient \in ClientStates /\ events + 1 \in Int /\ n \in Ids
          /\ u \in -1..MAXUSERS
      BY <2>2, RecordFacts, Numbers DEF Ids, Types, Slots
    <3> QED BY <2>2, <3>1 DEF ClientStates
  <2> HIDE DEF s
  <2> QED BY <2>1, <2>3, ClientTypes, SameLists DEF Types, ListsStay
<1>4. ASSUME NEW c \in Clients, NEW n \in Names, NEW n2 \in Names, Modify(c, n, n2) PROVE IInv'
  <2> DEFINE u == searchuser(n)
             s == [IdleClient EXCEPT !.pc = IF n2 = n THEN "write" ELSE "send", !.op = "modify",
                        !.n = n, !.n2 = n2, !.uid = u, !.copy = passwd[u], !.seq = events + 1]
  <2>1. /\ cl' = [cl EXCEPT ![c] = s] /\ queue' = queue /\ events' = events + 1
        /\ UNCHANGED <<file, passwd>> /\ ListsStay /\ u # 0
    BY <1>4 DEF Modify, Starts, StaysPut, ListsStay, cache
  <2>2. u \in Slots /\ passwd[u] \in Record
    BY <2>1, Found
  <2> HIDE DEF u
  <2>3. s \in ClientStates /\ s.uid \in Slots
    <3>1. /\ IdleClient \in ClientStates /\ events + 1 \in Int /\ n \in Ids
          /\ u \in -1..MAXUSERS /\ n2 \in Ids
      BY <2>2, RecordFacts, Numbers DEF Ids, Types, Slots
    <3> QED BY <2>2, <3>1 DEF ClientStates
  <2> HIDE DEF s
  <2> QED BY <2>1, <2>3, ClientTypes, SameLists DEF Types, ListsStay
<1>5. ASSUME NEW c \in Clients, SendDel(c) PROVE IInv'
  <2> DEFINE s == [cl[c] EXCEPT !.pc = "wait"]
             q == [cmd |-> "DEL", uid |-> cl[c].uid, id |-> NoName, c |-> c, seq |-> cl[c].seq]
  <2>1. s \in ClientStates /\ s.pc # "send" /\ q \in Requests
    BY <1>5, Numbers DEF ClientStates, Requests, Ids, Types, SendDel
  <2>2. /\ cl' = [cl EXCEPT ![c] = s] /\ queue' = Append(queue, q) /\ events' = events
        /\ UNCHANGED <<file, passwd>> /\ ListsStay
    BY <1>5 DEF SendDel, Request, StaysPut, ListsStay, cache, Types
  <2> HIDE DEF s, q
  <2> QED BY <2>1, <2>2, ClientTypes, SameLists DEF Types, ListsStay
<1>6. ASSUME NEW c \in Clients, SendSet(c) PROVE IInv'
  <2> DEFINE s == [cl[c] EXCEPT !.pc = "wait"]
             t == [cl[c] EXCEPT !.pc = "write"]
             q == [cmd |-> "SET", uid |-> cl[c].uid, id |-> cl[c].n2, c |-> c, seq |-> cl[c].seq]
  <2>1. /\ s \in ClientStates /\ s.pc # "send" /\ q \in Requests
        /\ t \in ClientStates /\ t.pc # "send"
    BY <1>6, Numbers DEF ClientStates, Requests, Ids, Types, SendSet
  <2>2. /\ \/ cl' = [cl EXCEPT ![c] = s] /\ queue' = Append(queue, q)
           \/ cl' = [cl EXCEPT ![c] = t] /\ queue' = queue
        /\ UNCHANGED <<file, passwd, events>> /\ ListsStay
    BY <1>6 DEF SendSet, Request, StaysPut, ListsStay, cache, Types
  <2> HIDE DEF s, t, q
  <2>3. /\ cl' \in [Clients -> ClientStates]
        /\ \A d \in Clients : cl'[d].pc = "send" => cl'[d].uid \in Slots
    BY <2>1, <2>2, ClientTypes
  <2>4. queue' \in Seq(Requests)
    BY <2>1, <2>2 DEF Types
  <2> QED BY <2>2, <2>3, <2>4, SameLists DEF Types, ListsStay
<1>7. ASSUME NEW c \in Clients, Kill(c) PROVE IInv'
  <2> DEFINE q == [cmd |-> "DEL", uid |-> cl[c].uid, id |-> NoName, c |-> c, seq |-> cl[c].seq]
  <2>1. q \in Requests /\ cl[c].uid \in Links
    BY <1>7, Numbers DEF Kill, Types, Requests, ClientStates, Ids
  <2>2. Unlink(q, cl[c].uid) /\ UNCHANGED <<file, queue, events>>
    BY <1>7 DEF Kill
  <2> HIDE DEF q
  <2> QED BY <2>1, <2>2, UnlinkInv DEF Types
<1>8. ASSUME NEW c \in Clients, Timeout(c) PROVE IInv'
  <2> DEFINE t == [cl[c] EXCEPT !.pc = "answered"]
  <2>1. t \in ClientStates /\ t.pc # "send" /\ IdleClient.pc # "send"
    BY DEF ClientStates, Types, IdleClient
  <2>2. /\ cl' = [cl EXCEPT ![c] = t] \/ cl' = [cl EXCEPT ![c] = IdleClient]
        /\ UNCHANGED <<file, passwd, events, queue>> /\ ListsStay
    BY <1>8 DEF Timeout, StaysPut, ListsStay, cache, Types
  <2> HIDE DEF t
  <2> QED BY <2>1, <2>2, ClientTypes, RecordFacts, SameLists DEF Types, ListsStay
<1>9. ASSUME NEW c \in Clients, Registered(c) PROVE IInv'
  <2> DEFINE v == [id |-> passwd[cl[c].uid].id, acc |-> MAXUSERS + cl[c].seq, level |-> 1]
             t == [cl[c] EXCEPT !.pc = "write", !.copy = v]
  <2>1. IdleClient.pc # "send" /\ t.pc # "send"
    BY DEF ClientStates, Types, IdleClient
  <2>2. /\ cl[c].uid \in Int /\ cl[c].seq \in Int
        /\ cl[c].uid > 0 => v \in Record
    <3>1. cl[c] \in ClientStates
      BY DEF Types
    <3>2. cl[c].uid \in -1..MAXUSERS /\ cl[c].seq \in Int
      BY <3>1 DEF ClientStates
    <3>3. cl[c].uid > 0 => passwd[cl[c].uid].id \in Ids
      BY <3>2, Numbers DEF Slots, Types, Record
    <3> QED BY <3>2, <3>3, Numbers DEF Record
  <2>3. cl[c].uid > 0 => t \in ClientStates
    <3> HIDE DEF v
    <3> QED BY <2>2 DEF ClientStates, Types
  <2>4. /\ (cl[c].uid > 0 /\ cl' = [cl EXCEPT ![c] = t]) \/ cl' = [cl EXCEPT ![c] = IdleClient]
        /\ UNCHANGED <<file, passwd, events, queue>> /\ ListsStay
    <3>1. UNCHANGED <<file, passwd, events, queue>> /\ ListsStay
      BY <1>9 DEF Registered, StaysPut, ListsStay, cache
    <3>2. cl[c].uid <= 0 => cl' = [cl EXCEPT ![c] = IdleClient]
      BY <1>9 DEF Registered
    <3>3. ~(cl[c].uid <= 0) => cl' = [cl EXCEPT ![c] = t]
      <4>1. ~(cl[c].uid <= 0) => cl' = [cl EXCEPT ![c].pc = "write", ![c].copy = v]
        BY <1>9 DEF Registered
      <4> HIDE DEF v
      <4> QED BY <4>1 DEF Types
    <3>4. cl[c].uid <= 0 \/ cl[c].uid > 0
      BY <2>2
    <3> HIDE DEF t
    <3> QED BY <3>1, <3>2, <3>3, <3>4
  <2> HIDE DEF t
  <2> QED BY <2>1, <2>3, <2>4, ClientTypes, RecordFacts, SameLists DEF Types, ListsStay
<1>10. ASSUME NEW c \in Clients, Deleted(c) PROVE IInv'
  <2> DEFINE t == [passwd[cl[c].uid] EXCEPT !.level = 0]
  <2>1. /\ cl' = [cl EXCEPT ![c] = IdleClient] /\ passwd' = [passwd EXCEPT ![cl[c].uid] = t]
        /\ UNCHANGED <<file, events, queue>> /\ ListsStay
    BY <1>10 DEF Deleted, ListsStay
  <2>2. cl[c].uid \in Slots => t \in Record
    BY DEF Types, Record
  <2>3. passwd' \in [Slots -> Record]
    <3> HIDE DEF t
    <3> QED BY <2>1, <2>2 DEF Types
  <2>4. IdleClient.pc # "send"
    BY DEF IdleClient
  <2> HIDE DEF t
  <2> QED BY <2>1, <2>3, <2>4, ClientTypes, RecordFacts, SameLists DEF Types, ListsStay
<1>11. ASSUME NEW c \in Clients, Modified(c) PROVE IInv'
  <2> DEFINE v == IF searchuser(cl[c].n2) = cl[c].uid THEN cl[c].n2 ELSE cl[c].copy.id
             t == [cl[c] EXCEPT !.pc = "write", !.copy = [cl[c].copy EXCEPT !.id = v]]
  <2>1. cl[c] \in ClientStates /\ cl[c].copy \in Record /\ v \in Ids
    BY DEF Types, ClientStates, Record
  <2>2. /\ cl' = [cl EXCEPT ![c] = [[cl[c] EXCEPT !.pc = "write"] EXCEPT !.copy = [cl[c].copy EXCEPT !.id = v]]]
        /\ UNCHANGED <<file, passwd, events, queue>> /\ ListsStay
    BY <1>11, <2>1 DEF Modified, StaysPut, ListsStay, cache, ClientStates, Types
  <2> HIDE DEF v
  <2>3. [cl[c].copy EXCEPT !.id = v] \in Record
    BY <2>1 DEF Record
  <2>4. t \in ClientStates /\ t.pc # "send"
    BY <2>1, <2>3 DEF ClientStates
  <2>5. cl' = [cl EXCEPT ![c] = t]
    BY <2>1, <2>2 DEF ClientStates
  <2> HIDE DEF t
  <2> QED BY <2>2, <2>4, <2>5, ClientTypes, SameLists DEF Types, ListsStay
<1>12. ASSUME NEW c \in Clients, WriteBack(c) PROVE IInv'
  <2>1. /\ cl' = [cl EXCEPT ![c] = IdleClient] /\ passwd' = [passwd EXCEPT ![cl[c].uid] = cl[c].copy]
        /\ UNCHANGED <<file, events, queue>> /\ ListsStay
    BY <1>12 DEF WriteBack, ListsStay
  <2>2. passwd' \in [Slots -> Record]
    BY <2>1 DEF Types, ClientStates
  <2>3. IdleClient.pc # "send"
    BY DEF IdleClient
  <2> QED BY <2>1, <2>2, <2>3, ClientTypes, RecordFacts, SameLists DEF Types, ListsStay
<1>13. CASE userd
  <2> DEFINE q == Head(queue)
  <2>1. q \in Requests /\ Tail(queue) \in Seq(Requests)
    BY <1>13 DEF userd, Types
  <2>2. Unlink(q, IF q.cmd = "NEW" THEN searchnewuser ELSE q.uid) /\ queue' = Tail(queue)
        /\ UNCHANGED <<file, events>>
    BY <1>13 DEF userd
  <2>3. (IF q.cmd = "NEW" THEN searchnewuser ELSE q.uid) \in Links
    BY <2>1, Numbers DEF ListInv, Lists, searchnewuser, Requests
  <2> HIDE DEF q
  <2> QED BY <2>1, <2>2, <2>3, UnlinkInv DEF Types
<1>14. CASE Link
  <2> DEFINE u == job.uid
             k == ucache_hash[job.id]
  <2>1. u \in Slots /\ k \in Keys /\ job \in Jobs /\ job.c \in Clients
    BY <1>14, Numbers DEF Link, Types, Jobs
  <2>2. PICK o, r : Lists(hashhead, next, o, r) /\ Entered(hashhead, next, o) /\ o[u] = -1
    BY <1>14 DEF Link, ListInv
  <2>3. hashhead' = [hashhead EXCEPT ![k] = u] /\ next' = [next EXCEPT ![u] = hashhead[k]]
    BY <1>14 DEF Link
  <2>4. \E oo, rr : Lists(hashhead', next', oo, rr) /\ Entered(hashhead', next', oo)
    <3> HIDE DEF u, k
    <3>1. Entered(hashhead', next', [o EXCEPT ![u] = k])
      BY <2>1, <2>2, <2>3, PutFirstEntered
    <3>2. \E rr : Lists(hashhead', next', [o EXCEPT ![u] = k], rr)
      BY <2>1, <2>2, <2>3, PutFirst
    <3> QED BY <3>1, <3>2
  <2>5. job' \in Jobs /\ job'.step = "name" /\ job'.uid = u /\ job'.c = job.c
    BY <1>14, <2>1 DEF Link, Jobs
  <2>6. UNCHANGED <<passwd, file, queue, cl, events>>
    BY <1>14 DEF Link
  <2> QED BY <2>1, <2>4, <2>5, <2>6 DEF Types, ListInv
<1>15. CASE Name
  <2> DEFINE u == job.uid
             v == IF job.cmd = "NEW" THEN [Free EXCEPT !.id = job.id, !.acc = -job.seq]
                  ELSE [passwd[u] EXCEPT !.id = job.id]
  <2>1. u \in Slots /\ job \in Jobs /\ job.c \in Clients
    BY <1>15 DEF Name, Types
  <2>2. v \in Record
    <3>1. job.id \in Ids /\ -job.seq \in Int /\ passwd[u] \in Record /\ Free \in Record
      <4>1. job.id \in Ids /\ job.seq \in Int
        BY <2>1 DEF Jobs
      <4>2. passwd[u] \in Record
        BY <2>1 DEF Types
      <4> QED BY <4>1, <4>2, RecordFacts
    <3> HIDE DEF u
    <3> QED BY <3>1 DEF Record
  <2>3. passwd' = [passwd EXCEPT ![u] = v] /\ Answer(job.c, job.seq, u) /\ job' = NoJob
        /\ UNCHANGED <<hashhead, next, file, queue, events>>
    BY <1>15 DEF Name
  <2>4. passwd' \in [Slots -> Record]
    <3> HIDE DEF v
    <3> QED BY <2>1, <2>2, <2>3 DEF Types
  <2>5. u \in -1..MAXUSERS
    BY <2>1, Numbers DEF Slots
  <2>6. /\ cl' \in [Clients -> ClientStates]
        /\ \A d \in Clients : cl'[d].pc = "send" => cl'[d].uid \in Slots
    BY <2>1, <2>3, <2>5, AnswerTypes DEF Types
  <2>7. job' \in Jobs /\ job'.step = "none"
    BY <2>3, RecordFacts DEF NoJob
  <2>8. ListInv'
    BY <2>3, <2>7 DEF ListInv
  <2> QED BY <2>3, <2>4, <2>6, <2>7, <2>8 DEF Types
<1>16. ASSUME NEW n \in Names, StartSearch(n) PROVE IInv'
  BY <1>16, SameLists DEF StartSearch, Types, ListsStay, cache
<1>17. CASE Hop \/ Missed
  BY <1>17, SameLists DEF Hop, Missed, Types, ListsStay, cache
<1>18. CASE flush_ucache
  BY <1>18, SameLists DEF flush_ucache, Types, ListsStay, cache
<1>19. CASE Restart
  <2>1. PICK newer \in BOOLEAN : Loaded(newer, file)
    BY <1>19 DEF Restart
  <2>2. /\ passwd' \in [Slots -> Record]
        /\ \E o, r : Lists(hashhead', next', o, r) /\ Entered(hashhead', next', o)
    BY <2>1, LoadSound DEF Loaded, LoadState, Types
  <2>3. /\ queue' = <<>> /\ job' = NoJob /\ cl' = [c \in Clients |-> IdleClient]
        /\ events' = events + 1 /\ file' = file
    BY <1>19 DEF Restart
  <2>4. job'.step = "none" /\ \A c \in Clients : cl'[c].pc = "idle"
    BY <2>3 DEF NoJob, IdleClient
  <2> QED BY <2>2, <2>3, <2>4, RecordFacts DEF Types, ListInv
<1>20. ASSUME NEW c \in Clients, Die(c) PROVE IInv'
  <2>1. /\ cl' = [cl EXCEPT ![c] = IdleClient] /\ events' = events + 1 /\ IdleClient.pc # "send"
        /\ UNCHANGED <<file, passwd, queue>> /\ ListsStay
    BY <1>20 DEF Die, StaysPut, ListsStay, cache, Types, IdleClient
  <2>2. events' \in Nat
    BY <2>1 DEF Types
  <2> QED BY <2>1, <2>2, ClientTypes, RecordFacts, SameLists DEF Types, ListsStay
<1> QED
  BY <1>1, <1>2, <1>3, <1>4, <1>5, <1>6, <1>7, <1>8, <1>9, <1>10, <1>11, <1>12,
     <1>13, <1>14, <1>15, <1>16, <1>17, <1>18, <1>19, <1>20 DEF Next

\* The model's own type invariant follows: a slot of a list has that list
\* as its owner, and the slot that is being put into one has none.
LEMMA InvTypes == IInv => TypeOK
<1> SUFFICES ASSUME IInv PROVE TypeOK
  OBVIOUS
<1>1. PICK o, r : Lists(hashhead, next, o, r) /\ (job.step = "link" => o[job.uid] = -1)
  BY DEF IInv, ListInv
<1>2. hashhead \in [Keys -> 0..MAXUSERS] /\ next \in [Slots -> 0..MAXUSERS]
  BY <1>1 DEF Lists, Links
<1>3. \A u \in Slots : passwd[u].id \in Names \cup {NoName} /\ passwd[u].level \in {0, 1}
  BY DEF IInv, Types, Record, Ids
<1>4. ASSUME job.step = "link", NEW k \in Keys, job.uid \in ListOf(hashhead, next, k) PROVE FALSE
  <2>1. PICK j \in 0..MAXUSERS : job.uid = Walk(next, hashhead[k])[j]
    BY <1>4 DEF ListOf
  <2>2. job.uid \in Slots
    BY <1>4 DEF IInv, Types
  <2>3. o[job.uid] = k
    BY <1>1, <2>1, <2>2, WalkStays
  <2> QED BY <1>1, <1>4, <2>3, Numbers
<1> QED BY <1>2, <1>3, <1>4 DEF TypeOK

\* Every list ends, and no slot is in two.
LEMMA InvLists == IInv => ListsSound
<1> SUFFICES ASSUME IInv PROVE ListsSound
  OBVIOUS
<1>1. PICK o, r : Lists(hashhead, next, o, r)
  BY DEF IInv, ListInv
<1>2. \A k \in Keys : Walk(next, hashhead[k])[MAXUSERS] = 0
  BY <1>1, WalkEnds
<1>3. ASSUME NEW k \in Keys, NEW l \in Keys, k # l,
             NEW u \in ListOf(hashhead, next, k) \cap ListOf(hashhead, next, l)
      PROVE  FALSE
  <2>1. PICK i \in 0..MAXUSERS : u = Walk(next, hashhead[k])[i]
    BY DEF ListOf
  <2>2. PICK j \in 0..MAXUSERS : u = Walk(next, hashhead[l])[j]
    BY DEF ListOf
  <2>3. u # 0 /\ u \in Links
    <3>1. next \in [Slots -> Links] /\ hashhead[k] \in Links
      BY <1>1 DEF Lists
    <3> QED BY <2>1, <3>1, WalkDef, ZenonT(40) DEF ListOf
  <2>4. u \in Slots
    BY <2>3, Numbers
  <2>5. o[u] = k
    BY <1>1, <2>1, <2>4, WalkStays
  <2>6. o[u] = l
    BY <1>1, <2>2, <2>4, WalkStays
  <2> QED BY <1>3, <2>5, <2>6
<1> QED BY <1>2, <1>3 DEF ListsSound

\* The values of the cache have their types whatever processes, userd,
\* killd and restarts do, and a slot that setuserid_internal has taken out
\* of its list and not put back is in no list.
THEOREM TypeCorrect == Spec => []TypeOK
<1>1. Init => IInv
  BY InitInv
<1>2. IInv /\ [Next]_vars => IInv'
  BY StepInv
<1>3. IInv => TypeOK
  BY InvTypes
<1> QED BY <1>1, <1>2, <1>3, PTL DEF Spec

\* load_ucache and setuserid_internal keep every hash list, the one of free
\* slots too, finite and the lists disjoint, for any number of users, keys
\* and processes: though the search for the slot before runs through
\* next[-1] and operations overlap on one slot.
THEOREM ListsCorrect == Spec => []ListsSound
<1>1. Init => IInv
  BY InitInv
<1>2. IInv /\ [Next]_vars => IInv'
  BY StepInv
<1>3. IInv => ListsSound
  BY InvLists
<1> QED BY <1>1, <1>2, <1>3, PTL DEF Spec

\* Ranks get smaller along a walk as long as it has not come to the end.
LEMMA WalkFalls ==
  ASSUME NEW h, NEW nx, NEW o, NEW r, Lists(h, nx, o, r), NEW k \in Keys
  PROVE  LET w == Walk(nx, h[k])
         IN  \A i, j \in 0..MAXUSERS :
               i < j /\ w[j] # 0 => /\ w[i] \in Slots /\ w[j] \in Slots
                                    /\ o[w[i]] = k /\ o[w[j]] = k /\ r[w[j]] < r[w[i]]
<1> DEFINE w == Walk(nx, h[k])
           N == 0..MAXUSERS
           T == {j \in N : w[j] # 0 => \A i \in 0..j-1 : w[i] \in Slots /\ r[w[j]] < r[w[i]]}
<1>1. /\ w \in [N -> Links] /\ w[0] = h[k]
      /\ \A j \in 1..MAXUSERS : w[j] = IF w[j-1] = 0 THEN 0 ELSE nx[w[j-1]]
  BY WalkDef DEF Lists
<1>2. \A j \in N : w[j] \in Slots => o[w[j]] = k
  BY WalkStays
<1> HIDE DEF w
<1>3. 0 \in T
  BY Numbers
<1>4. ASSUME NEW j \in 1..MAXUSERS, j-1 \in T PROVE j \in T
  <2>1. j \in Nat /\ j-1 \in N /\ j \in N /\ j-1 \in Nat
    BY Numbers
  <2>2. SUFFICES ASSUME w[j] # 0, NEW i \in 0..j-1 PROVE w[i] \in Slots /\ r[w[j]] < r[w[i]]
    BY <2>1
  <2>3. w[j-1] \in Slots /\ w[j] \in Slots /\ w[j] = nx[w[j-1]]
    BY <1>1, <2>1, <2>2, Numbers
  <2>4. r[w[j]] < r[w[j-1]] /\ r[w[j]] \in Int /\ r[w[j-1]] \in Int
    BY <1>2, <2>1, <2>3, Numbers DEF Lists
  <2>5. CASE i = j-1
    BY <2>3, <2>4, <2>5
  <2>6. CASE i \in 0..(j-1)-1
    <3>1. w[i] \in Slots /\ r[w[j-1]] < r[w[i]]
      BY <1>4, <2>3, <2>6, Numbers
    <3>2. r[w[i]] \in Int
      BY <3>1 DEF Lists
    <3> QED BY <2>4, <3>1, <3>2
  <2> QED BY <2>1, <2>5, <2>6
<1>5. N \subseteq T
  <2> HIDE DEF T
  <2> QED BY <1>3, <1>4, SetInduction, Numbers
<1>6. SUFFICES ASSUME NEW i \in N, NEW j \in N, i < j, w[j] # 0
               PROVE  /\ w[i] \in Slots /\ w[j] \in Slots
                      /\ o[w[i]] = k /\ o[w[j]] = k /\ r[w[j]] < r[w[i]]
  BY DEF w
<1>7. w[i] \in Slots /\ r[w[j]] < r[w[i]]
  BY <1>5, <1>6, Numbers
<1>8. w[j] \in Slots
  BY <1>1, <1>6, Numbers
<1> QED BY <1>2, <1>7, <1>8

\* Between a slot and the next one of its list there is none.
LEMMA NextIsNext ==
  ASSUME NEW h, NEW nx, NEW o, NEW r, Lists(h, nx, o, r), Entered(h, nx, o), NEW k \in Keys,
         NEW x \in Slots, NEW y \in Slots, o[x] = k, o[y] = k, x # y, r[y] <= r[x]
  PROVE  nx[x] \in Slots /\ o[nx[x]] = k /\ r[y] <= r[nx[x]]
<1> DEFINE w == Walk(nx, h[k])
           N == 0..MAXUSERS
<1>1. /\ w \in [N -> Links] /\ w[0] = h[k]
      /\ \A j \in 1..MAXUSERS : w[j] = IF w[j-1] = 0 THEN 0 ELSE nx[w[j-1]]
  BY WalkDef DEF Lists
<1>2. \A i, j \in N : i < j /\ w[j] # 0 => /\ w[i] \in Slots /\ w[j] \in Slots
                                          /\ o[w[i]] = k /\ o[w[j]] = k /\ r[w[j]] < r[w[i]]
  BY WalkFalls
<1>3. x \in ListOf(h, nx, k) /\ y \in ListOf(h, nx, k)
  BY ListOfIs
<1>4. PICK i \in N, j \in N : w[i] = x /\ w[j] = y
  BY <1>3 DEF ListOf
<1> HIDE DEF w
<1>5. r[x] \in Int /\ r[y] \in Int /\ x # 0 /\ y # 0
  BY Numbers DEF Lists
<1>6. i < j
  <2>1. i # j
    BY <1>4
  <2>2. ~(j < i)
    BY <1>2, <1>4, <1>5
  <2> QED BY <1>4, <2>1, <2>2, Numbers
<1>7. i+1 \in 1..MAXUSERS /\ i+1 \in N /\ (i+1)-1 = i /\ (i+1 = j \/ i+1 < j)
  BY <1>4, <1>6, Numbers
<1>8. w[i+1] = nx[x]
  BY <1>1, <1>4, <1>5, <1>7
<1>9. CASE i+1 = j
  BY <1>4, <1>5, <1>8, <1>9
<1>10. CASE i+1 < j
  <2>1. w[i+1] \in Slots /\ o[w[i+1]] = k /\ r[w[j]] < r[w[i+1]]
    BY <1>2, <1>4, <1>5, <1>7, <1>10
  <2>2. r[w[i+1]] \in Int
    BY <2>1 DEF Lists
  <2> QED BY <1>4, <1>5, <1>8, <2>1, <2>2
<1> QED BY <1>7, <1>9, <1>10

\* No slot of a list comes before its first.
LEMMA HeadIsFirst ==
  ASSUME NEW h, NEW nx, NEW o, NEW r, Lists(h, nx, o, r), Entered(h, nx, o), NEW k \in Keys,
         NEW y \in Slots, o[y] = k
  PROVE  h[k] \in Slots /\ o[h[k]] = k /\ r[y] <= r[h[k]]
<1> DEFINE w == Walk(nx, h[k])
           N == 0..MAXUSERS
<1>1. w \in [N -> Links] /\ w[0] = h[k]
  BY WalkDef DEF Lists
<1>2. \A i, j \in N : i < j /\ w[j] # 0 => /\ w[i] \in Slots /\ w[j] \in Slots
                                          /\ o[w[i]] = k /\ o[w[j]] = k /\ r[w[j]] < r[w[i]]
  BY WalkFalls
<1>3. y \in ListOf(h, nx, k)
  BY ListOfIs
<1>4. PICK j \in N : w[j] = y
  BY <1>3 DEF ListOf
<1> HIDE DEF w
<1>5. y # 0 /\ r[y] \in Int
  BY Numbers DEF Lists
<1>6. CASE j = 0
  BY <1>1, <1>4, <1>5, <1>6
<1>7. CASE 0 < j
  <2>1. w[0] \in Slots /\ o[w[0]] = k /\ r[w[j]] < r[w[0]]
    BY <1>2, <1>4, <1>5, <1>7, Numbers
  <2>2. r[w[0]] \in Int
    BY <2>1 DEF Lists
  <2> QED BY <1>1, <1>4, <1>5, <2>1, <2>2
<1> QED BY <1>4, <1>6, <1>7, Numbers

\* A search looks at the names of the slots only.
LEMMA SearchSame ==
  ASSUME NEW h, NEW nx, NEW o, NEW r, Lists(h, nx, o, r), NEW n \in Ids,
         NEW pw, NEW pv, \A u \in Slots : pv[u].id = pw[u].id
  PROVE  SearchIn(h, nx, pv, n) = SearchIn(h, nx, pw, n)
<1> DEFINE w == Walk(nx, h[ucache_hash[n]])
           hits(p) == {j \in 0..MAXUSERS : w[j] # 0 /\ p[w[j]].id = n}
<1>1. \A p : SearchIn(h, nx, p, n) =
               IF hits(p) = {} THEN 0
               ELSE w[CHOOSE j \in hits(p) : \A i \in hits(p) : j <= i]
  BY DEF SearchIn
<1>2. w \in [0..MAXUSERS -> Links]
  <2>1. h[ucache_hash[n]] \in Links /\ nx \in [Slots -> Links]
    BY Numbers DEF Lists
  <2> QED BY <2>1, WalkDef
<1> HIDE DEF w
<1>3. hits(pw) = hits(pv)
  BY <1>2, Numbers
<1> HIDE DEF hits
<1> QED BY <1>1, <1>3

\* What Unlink does, if the slot stays where it is, and if it leaves its list.
Refused(req) ==
    /\ UNCHANGED <<hashhead, next, job>>
    /\ Answer(req.c, req.seq, IF req.cmd = "NEW" THEN -1 ELSE 0)
TakenOut(req, uid) ==
    LET k == ucache_hash[passwd[uid].id] IN
    /\ uid \in Slots /\ k \in Keys /\ ~Taken(uid, req.id)
    /\ hashhead[k] = uid \/ Before(uid, k) # -1
    /\ Remove(uid, k, Before(uid, k))
    /\ job' = [step |-> "link", cmd |-> req.cmd, uid |-> uid, id |-> req.id,
               c |-> req.c, seq |-> req.seq]
    /\ UNCHANGED cl

LEMMA UnlinkCases ==
  ASSUME Types, NEW req, NEW uid \in Links, Unlink(req, uid)
  PROVE  /\ job.step = "none" /\ passwd' = passwd /\ Seen(0)
         /\ Refused(req) \/ TakenOut(req, uid)
<1> DEFINE k == ucache_hash[passwd[uid].id]
<1>1. uid # 0 => uid \in Slots /\ k \in Keys
  BY Numbers DEF Types, Record
<1> QED BY <1>1 DEF Unlink, Refused, TakenOut

\* A process that searches without the lock, which has seen no slot move under it
\* and can find its user still, has him before it: it is on a slot of the list, or on
\* the one just taken out, whose link still leads there.
Readers == [pc : {"idle", "at"}, n : Ids, pos : Links, goal : Links,
            moved : BOOLEAN, gone : BOOLEAN]
Ahead(o, r, s) ==
    /\ s \in Slots /\ o[s] = ucache_hash[rdr.n] /\ r[rdr.goal] <= r[s]
Reading(o, r) ==
    rdr.pc = "at" /\ ~rdr.gone =>
      /\ rdr.goal \in Slots /\ o[rdr.goal] = ucache_hash[rdr.n] /\ passwd[rdr.goal].id = rdr.n
      /\ SearchIn(hashhead, next, passwd, rdr.n) = rdr.goal
      /\ ~rdr.moved =>
           \/ Ahead(o, r, rdr.pos)
           \/ job.step = "link" /\ job.uid = rdr.pos /\ Ahead(o, r, next[rdr.pos])
ReadInv ==
    /\ rdr \in Readers
    /\ \E o, r : /\ Lists(hashhead, next, o, r) /\ Entered(hashhead, next, o)
                 /\ job.step = "link" => o[job.uid] = -1
                 /\ Reading(o, r)

\* What the process notices of a change.
LEMMA SeenMeans ==
  ASSUME rdr \in Readers, NEW u, Seen(u)
  PROVE  /\ rdr' \in Readers /\ rdr'.pc = rdr.pc
         /\ rdr'.n = rdr.n /\ rdr'.pos = rdr.pos /\ rdr'.goal = rdr.goal
         /\ rdr.pc = "at" /\ ~rdr'.gone =>
              ~rdr.gone /\ SearchIn(hashhead', next', passwd', rdr.n) = rdr.goal
         /\ rdr.pc = "at" /\ ~rdr'.moved => ~rdr.moved /\ ~(u # 0 /\ rdr.pos = u)
<1>1. CASE rdr.pc = "idle"
  <2>1. rdr' = rdr
    BY <1>1 DEF Seen
  <2> QED BY <1>1, <2>1
<1>2. CASE rdr.pc # "idle"
  <2> DEFINE m == rdr.moved \/ (u # 0 /\ rdr.pos = u)
             g == rdr.gone \/ SearchIn(hashhead', next', passwd', rdr.n) # rdr.goal
  <2>1. rdr' = [rdr EXCEPT !.moved = m, !.gone = g]
    BY <1>2 DEF Seen
  <2>2. m \in BOOLEAN /\ g \in BOOLEAN
    BY Zenon DEF Readers
  <2>3. (~m => ~rdr.moved /\ ~(u # 0 /\ rdr.pos = u))
        /\ (~g => ~rdr.gone /\ SearchIn(hashhead', next', passwd', rdr.n) = rdr.goal)
    OBVIOUS
  <2> HIDE DEF m, g
  <2>4. /\ rdr'.moved = m /\ rdr'.gone = g /\ rdr' \in Readers /\ rdr'.pc = rdr.pc
        /\ rdr'.n = rdr.n /\ rdr'.pos = rdr.pos /\ rdr'.goal = rdr.goal
    BY <2>1, <2>2 DEF Readers
  <2> QED BY <2>3, <2>4
<1> QED BY <1>1, <1>2

\* Where the user is, is where the search in the new state finds him.
LEMMA GoalStays ==
  ASSUME rdr \in Readers, NEW u, Seen(u), rdr'.pc = "at", ~rdr'.gone,
         NEW o, NEW r, Reading(o, r), NEW oo, NEW rr, Lists(hashhead', next', oo, rr)
  PROVE  /\ rdr.pc = "at" /\ ~rdr.gone
         /\ rdr'.goal = rdr.goal /\ rdr'.n = rdr.n /\ rdr'.pos = rdr.pos /\ rdr.goal \in Slots
         /\ oo[rdr.goal] = ucache_hash[rdr.n] /\ passwd'[rdr.goal].id = rdr.n
         /\ SearchIn(hashhead', next', passwd', rdr.n) = rdr.goal
<1>1. rdr.pc = "at" /\ ~rdr.gone /\ SearchIn(hashhead', next', passwd', rdr.n) = rdr.goal
  BY SeenMeans
<1>2. rdr'.goal = rdr.goal /\ rdr'.n = rdr.n /\ rdr'.pos = rdr.pos
  BY SeenMeans
<1>3. rdr.goal \in Slots /\ rdr.goal # 0 /\ rdr.n \in Ids
  BY <1>1, Numbers DEF Reading, Readers
<1>4. LET v == SearchIn(hashhead', next', passwd', rdr.n)
      IN  v # 0 => oo[v] = ucache_hash[rdr.n] /\ passwd'[v].id = rdr.n
  BY <1>3, SearchStays
<1> QED BY <1>1, <1>2, <1>3, <1>4

\* The process notices nothing as long as the cache stays.
LEMMA ReadStays ==
  ASSUME ReadInv, UNCHANGED <<hashhead, next, job, rdr>>,
         \A u \in Slots : passwd'[u].id = passwd[u].id
  PROVE  ReadInv'
<1>1. PICK o, r : /\ Lists(hashhead, next, o, r) /\ Entered(hashhead, next, o)
                  /\ job.step = "link" => o[job.uid] = -1
                  /\ Reading(o, r)
  BY DEF ReadInv
<1>2. Reading(o, r)'
  <2>1. rdr.n \in Ids
    BY DEF ReadInv, Readers
  <2>2. SearchIn(hashhead, next, passwd', rdr.n) = SearchIn(hashhead, next, passwd, rdr.n)
    BY <1>1, <2>1, SearchSame
  <2> QED BY <1>1, <2>2 DEF Reading, Ahead
<1> QED BY <1>1, <1>2 DEF ReadInv

\* A slot is taken out.
LEMMA ReadTaken ==
  ASSUME ReadInv, NEW req, NEW uid, TakenOut(req, uid), job.step = "none", Seen(0)
  PROVE  ReadInv'
<1> DEFINE k == ucache_hash[passwd[uid].id]
           m == ucache_hash[rdr.n]
<1>1. PICK o, r : /\ Lists(hashhead, next, o, r) /\ Entered(hashhead, next, o)
                  /\ Reading(o, r)
  BY DEF ReadInv
<1> DEFINE oo == [o EXCEPT ![uid] = -1]
<1>2. /\ Lists(hashhead', next', oo, r) /\ Entered(hashhead', next', oo)
      /\ uid \in Slots /\ job'.uid = uid /\ job'.step = "link"
  BY <1>1, RemoveSound DEF TakenOut
<1>3. oo[uid] = -1 /\ (\A v \in Slots : v # uid => oo[v] = o[v]) /\ o \in [Slots -> Keys \cup {-1}]
  BY <1>1, <1>2 DEF Lists
<1> HIDE DEF oo
<1>4. rdr' \in Readers
  BY SeenMeans DEF ReadInv
<1>5. ASSUME rdr'.pc = "at", ~rdr'.gone
      PROVE  /\ rdr'.goal \in Slots /\ oo[rdr'.goal] = ucache_hash[rdr'.n]
             /\ passwd'[rdr'.goal].id = rdr'.n
             /\ SearchIn(hashhead', next', passwd', rdr'.n) = rdr'.goal
             /\ ~rdr'.moved => \/ Ahead(oo, r, rdr.pos)'
                               \/ job'.uid = rdr'.pos /\ Ahead(oo, r, next[rdr.pos])'
  <2>1. /\ rdr.pc = "at" /\ ~rdr.gone
        /\ rdr'.goal = rdr.goal /\ rdr'.n = rdr.n /\ rdr'.pos = rdr.pos /\ rdr.goal \in Slots
        /\ oo[rdr.goal] = m /\ passwd'[rdr.goal].id = rdr.n
        /\ SearchIn(hashhead', next', passwd', rdr.n) = rdr.goal
    BY <1>1, <1>2, <1>5, GoalStays DEF ReadInv
  <2>2. SUFFICES ASSUME ~rdr'.moved
                 PROVE  \/ Ahead(oo, r, rdr.pos)'
                        \/ job'.uid = rdr'.pos /\ Ahead(oo, r, next[rdr.pos])'
    BY <2>1
  <2>3. ~rdr.moved
    BY <2>1, <2>2, SeenMeans DEF ReadInv
  <2>4. rdr.pos \in Slots /\ o[rdr.pos] = m /\ r[rdr.goal] <= r[rdr.pos] /\ m \in Keys
    <3>1. m \in Keys
      BY Numbers DEF ReadInv, Readers
    <3> QED BY <1>1, <2>1, <2>3, <3>1 DEF Reading, Ahead
  <2>5. rdr.goal # uid /\ o[rdr.goal] = m
    BY <1>3, <2>1, <2>4, Numbers
  <2>6. CASE rdr.pos # uid
    BY <1>3, <2>1, <2>4, <2>6 DEF Ahead
  <2>7. CASE rdr.pos = uid
    <3>1. next[uid] \in Slots /\ o[next[uid]] = m /\ r[rdr.goal] <= r[next[uid]]
      BY <1>1, <1>2, <2>1, <2>4, <2>5, <2>7, NextIsNext
    <3>2. next[uid] # uid
      BY <1>1, <1>2, <2>4, <2>7, <3>1, Numbers DEF Lists
    <3>3. next'[uid] = next[uid]
      BY <1>1, <1>2 DEF TakenOut, Remove, Lists
    <3> QED BY <1>2, <1>3, <2>1, <2>7, <3>1, <3>2, <3>3 DEF Ahead
  <2> QED BY <2>6, <2>7
<1>6. Reading(oo, r)'
  BY <1>2, <1>5 DEF Reading
<1> QED BY <1>2, <1>3, <1>4, <1>6 DEF ReadInv

\* It is put into its new list.
LEMMA ReadLinked ==
  ASSUME Types, ReadInv, Link
  PROVE  ReadInv'
<1> DEFINE m == ucache_hash[rdr.n]
<1>1. PICK u \in Slots, k \in Keys : u = job.uid /\ k = ucache_hash[job.id] /\ u # 0
  BY Numbers DEF Link, Types, Jobs
<1>2. /\ hashhead' = [hashhead EXCEPT ![k] = u] /\ next' = [next EXCEPT ![u] = hashhead[k]]
      /\ job'.step = "name" /\ passwd' = passwd /\ Seen(u) /\ job.step = "link"
  BY <1>1 DEF Link, Types, Jobs
<1>3. PICK o, r : /\ Lists(hashhead, next, o, r) /\ Entered(hashhead, next, o)
                  /\ o[u] = -1 /\ Reading(o, r)
  BY <1>1, <1>2 DEF ReadInv
<1> DEFINE oo == [o EXCEPT ![u] = k]
<1>4. PICK rr : /\ Lists(hashhead', next', oo, rr) /\ Entered(hashhead', next', oo)
                /\ \A v \in Slots : v # u => rr[v] = r[v]
  <2>1. Entered(hashhead', next', oo)
    BY <1>1, <1>2, <1>3, PutFirstEntered
  <2>2. \E rr : Lists(hashhead', next', oo, rr) /\ \A v \in Slots : v # u => rr[v] = r[v]
    <3>1. PICK rr : /\ Lists([hashhead EXCEPT ![k] = u], [next EXCEPT ![u] = hashhead[k]],
                             [o EXCEPT ![u] = k], rr)
                    /\ \A v \in Slots : v # u => rr[v] = r[v]
      <4>1. Lists(hashhead, next, o, r) /\ o[u] = -1
        BY <1>3
      <4> QED BY <4>1, PutFirst
    <3> QED BY <1>2, <3>1
  <2> QED BY <2>1, <2>2
<1>5. \A v \in Slots : v # u => oo[v] = o[v]
  BY <1>1, <1>3 DEF Lists
<1> HIDE DEF oo
<1>6. rdr' \in Readers
  BY <1>2, SeenMeans DEF ReadInv
<1>7. ASSUME rdr'.pc = "at", ~rdr'.gone
      PROVE  /\ rdr'.goal \in Slots /\ oo[rdr'.goal] = ucache_hash[rdr'.n]
             /\ passwd'[rdr'.goal].id = rdr'.n
             /\ SearchIn(hashhead', next', passwd', rdr'.n) = rdr'.goal
             /\ ~rdr'.moved => Ahead(oo, rr, rdr.pos)'
  <2>1. /\ rdr.pc = "at" /\ ~rdr.gone
        /\ rdr'.goal = rdr.goal /\ rdr'.n = rdr.n /\ rdr'.pos = rdr.pos /\ rdr.goal \in Slots
        /\ oo[rdr.goal] = m /\ passwd'[rdr.goal].id = rdr.n
        /\ SearchIn(hashhead', next', passwd', rdr.n) = rdr.goal
    BY <1>2, <1>3, <1>4, <1>7, GoalStays DEF ReadInv
  <2>2. SUFFICES ASSUME ~rdr'.moved PROVE Ahead(oo, rr, rdr.pos)'
    BY <2>1
  <2>3. ~rdr.moved /\ rdr.pos # u
    BY <1>1, <1>2, <2>1, <2>2, SeenMeans DEF ReadInv
  <2>4. rdr.pos \in Slots /\ o[rdr.pos] = m /\ r[rdr.goal] <= r[rdr.pos] /\ o[rdr.goal] = m
    BY <1>1, <1>3, <2>1, <2>3 DEF Reading, Ahead
  <2>5. m \in Keys
    BY Numbers DEF ReadInv, Readers
  <2>6. rdr.goal # u
    BY <1>3, <2>4, <2>5, Numbers
  <2> QED BY <1>4, <1>5, <2>1, <2>3, <2>4, <2>6 DEF Ahead
<1>8. Reading(oo, rr)'
  BY <1>7 DEF Reading
<1> QED BY <1>2, <1>4, <1>6, <1>8 DEF ReadInv

\* Names change: the search may find another slot, and then it is over.
LEMMA ReadNamed ==
  ASSUME ReadInv, UNCHANGED <<hashhead, next>>, Seen(0),
         job' = job \/ (job.step = "name" /\ job'.step = "none")
  PROVE  ReadInv'
<1>1. PICK o, r : /\ Lists(hashhead, next, o, r) /\ Entered(hashhead, next, o)
                  /\ job.step = "link" => o[job.uid] = -1
                  /\ Reading(o, r)
  BY DEF ReadInv
<1>2. Lists(hashhead', next', o, r) /\ rdr \in Readers
  BY <1>1 DEF ReadInv
<1>3. ASSUME rdr'.pc = "at", ~rdr'.gone
      PROVE  /\ rdr'.goal \in Slots /\ o[rdr'.goal] = ucache_hash[rdr'.n]
             /\ passwd'[rdr'.goal].id = rdr'.n
             /\ SearchIn(hashhead', next', passwd', rdr'.n) = rdr'.goal
             /\ ~rdr'.moved => \/ Ahead(o, r, rdr.pos)'
                               \/ /\ job'.step = "link" /\ job'.uid = rdr'.pos
                                  /\ Ahead(o, r, next[rdr.pos])'
  <2>1. /\ rdr.pc = "at" /\ ~rdr.gone
        /\ rdr'.goal = rdr.goal /\ rdr'.n = rdr.n /\ rdr'.pos = rdr.pos /\ rdr.goal \in Slots
        /\ o[rdr.goal] = ucache_hash[rdr.n] /\ passwd'[rdr.goal].id = rdr.n
        /\ SearchIn(hashhead', next', passwd', rdr.n) = rdr.goal
    BY <1>1, <1>2, <1>3, GoalStays
  <2>2. ~rdr'.moved => ~rdr.moved
    BY <1>2, <2>1, SeenMeans
  <2> QED BY <1>1, <2>1, <2>2 DEF Reading, Ahead
<1>4. Reading(o, r)'
  BY <1>3 DEF Reading
<1>5. rdr' \in Readers
  BY <1>2, SeenMeans
<1> QED BY <1>1, <1>4, <1>5 DEF ReadInv

\* The search begins at the head of the list, and follows the links.
LEMMA ReadStarts ==
  ASSUME ReadInv, NEW n \in Names, StartSearch(n)
  PROVE  ReadInv'
<1> DEFINE k == ucache_hash[n]
           g == searchuser(n)
<1>1. PICK o, r : /\ Lists(hashhead, next, o, r) /\ Entered(hashhead, next, o)
                  /\ job.step = "link" => o[job.uid] = -1
  BY DEF ReadInv
<1>2. g # 0 /\ g = SearchIn(hashhead, next, passwd, n) /\ n \in Ids /\ k \in Keys
  BY Numbers DEF StartSearch, searchuser, Ids
<1>3. g \in Slots /\ o[g] = k /\ passwd[g].id = n
  BY <1>1, <1>2, SearchStays
<1>4. hashhead[k] \in Slots /\ o[hashhead[k]] = k /\ r[g] <= r[hashhead[k]]
  BY <1>1, <1>2, <1>3, HeadIsFirst
<1>5. /\ rdr'.pc = "at" /\ rdr'.n = n /\ rdr'.pos = hashhead[k] /\ rdr'.goal = g
      /\ rdr' \in Readers /\ UNCHANGED <<hashhead, next, passwd, job>>
  <2>1. /\ rdr' = [IdleReader EXCEPT !.pc = "at", !.n = n, !.pos = hashhead[k], !.goal = g]
        /\ UNCHANGED <<hashhead, next, passwd, job>>
    BY DEF StartSearch, cache
  <2>2. hashhead[k] \in Links /\ g \in Links
    BY <1>3, <1>4, Numbers
  <2> HIDE DEF k, g
  <2> QED BY <1>2, <2>1, <2>2 DEF IdleReader, Readers
<1> HIDE DEF g, k
<1>6. Reading(o, r)'
  BY <1>2, <1>3, <1>4, <1>5 DEF Reading, Ahead, k
<1> QED BY <1>1, <1>5, <1>6 DEF ReadInv

LEMMA ReadIdle ==
  ASSUME ReadInv, UNCHANGED <<hashhead, next, job>>, rdr' = IdleReader
  PROVE  ReadInv'
<1>1. rdr' \in Readers /\ rdr'.pc = "idle"
  BY Numbers DEF IdleReader, Readers, Ids
<1> QED BY <1>1 DEF ReadInv, Reading

LEMMA ReadHops ==
  ASSUME Types, ReadInv, Hop
  PROVE  ReadInv'
<1>1. PICK o, r : /\ Lists(hashhead, next, o, r) /\ Entered(hashhead, next, o)
                  /\ job.step = "link" => o[job.uid] = -1
                  /\ Reading(o, r)
  BY DEF ReadInv
<1>2. UNCHANGED <<hashhead, next, passwd, job>> /\ rdr.pc = "at" /\ rdr.pos # 0
  BY DEF Hop, cache
<1>3. CASE passwd[rdr.pos].id = rdr.n
  BY <1>2, <1>3, ReadIdle DEF Hop
<1>4. CASE passwd[rdr.pos].id # rdr.n
  <2>1. rdr' = [rdr EXCEPT !.pos = next[rdr.pos]]
    BY <1>4 DEF Hop
  <2>2. rdr.pos \in Slots /\ next[rdr.pos] \in Links /\ rdr.n \in Ids
    BY <1>1, <1>2, Numbers DEF ReadInv, Readers, Lists
  <2>3. /\ rdr' \in Readers /\ rdr'.pc = rdr.pc /\ rdr'.n = rdr.n /\ rdr'.goal = rdr.goal
        /\ rdr'.pos = next[rdr.pos] /\ rdr'.moved = rdr.moved /\ rdr'.gone = rdr.gone
    BY <2>1, <2>2 DEF ReadInv, Readers
  <2>4. ASSUME ~rdr.gone, ~rdr.moved PROVE Ahead(o, r, next[rdr.pos])
    <3>1. rdr.goal # rdr.pos
      BY <1>1, <1>2, <1>4, <2>4 DEF Reading
    <3>2. CASE Ahead(o, r, rdr.pos)
      <4>1. /\ rdr.goal \in Slots /\ o[rdr.goal] = ucache_hash[rdr.n] /\ ucache_hash[rdr.n] \in Keys
        BY <1>1, <1>2, <2>2, <2>4, Numbers DEF Reading
      <4> QED BY <1>1, <2>2, <3>1, <3>2, <4>1, NextIsNext DEF Ahead
    <3> QED BY <1>1, <1>2, <2>4, <3>2 DEF Reading
  <2>5. Reading(o, r)'
    BY <1>1, <1>2, <2>3, <2>4 DEF Reading, Ahead
  <2> QED BY <1>1, <1>2, <2>3, <2>5 DEF ReadInv
<1> QED BY <1>3, <1>4

LEMMA LoadedLists ==
  ASSUME NEW pw \in [Slots -> Record], NEW newer \in BOOLEAN, Loaded(newer, pw)
  PROVE  \E o, r : Lists(hashhead', next', o, r) /\ Entered(hashhead', next', o)
BY LoadSound DEF Loaded

LEMMA InitRead == Init => ReadInv
<1> SUFFICES ASSUME Init PROVE ReadInv
  OBVIOUS
<1>1. IInv
  BY InitInv
<1>2. rdr = IdleReader /\ job.step = "none"
  <2>1. rdr = IdleReader /\ job = NoJob
    BY DEF Init
  <2> QED BY <2>1 DEF NoJob
<1>3. IdleReader \in Readers /\ IdleReader.pc = "idle"
  BY Numbers DEF IdleReader, Readers, Ids
<1> QED BY <1>1, <1>2, <1>3 DEF ReadInv, Reading, IInv, ListInv

\* Every step leaves the user before the process, or is noticed.
LEMMA StepRead == Types /\ ReadInv /\ [Next]_vars => ReadInv'
<1> SUFFICES ASSUME Types, ReadInv, [Next]_vars PROVE ReadInv'
  OBVIOUS
<1>1. CASE UNCHANGED <<cache, job, rdr>>
  BY <1>1, ReadStays DEF cache
<1>2. ASSUME NEW c \in Clients, NEW n \in Names, Register(c, n) PROVE ReadInv'
  BY <1>1, <1>2 DEF Register, StaysPut
<1>3. ASSUME NEW c \in Clients, NEW n \in Names, NEW op \in {"delete", "kill"}, Delete(c, n, op)
      PROVE  ReadInv'
  BY <1>1, <1>3 DEF Delete, StaysPut
<1>4. ASSUME NEW c \in Clients, NEW n \in Names, NEW n2 \in Names, Modify(c, n, n2) PROVE ReadInv'
  BY <1>1, <1>4 DEF Modify, StaysPut
<1>5. ASSUME NEW c \in Clients, SendDel(c) \/ SendSet(c) \/ Timeout(c) \/ Registered(c) \/ Modified(c)
      PROVE  ReadInv'
  BY <1>1, <1>5 DEF SendDel, SendSet, Timeout, Registered, Modified, StaysPut
<1>6. ASSUME NEW req, NEW uid \in Links, Unlink(req, uid) PROVE ReadInv'
  <2>1. job.step = "none" /\ passwd' = passwd /\ Seen(0)
    BY <1>6, UnlinkCases
  <2>2. CASE Refused(req)
    BY <2>1, <2>2, ReadNamed DEF Refused
  <2>3. CASE TakenOut(req, uid)
    BY <2>1, <2>3, ReadTaken
  <2> QED BY <1>6, <2>2, <2>3, UnlinkCases
<1>7. ASSUME NEW c \in Clients, Kill(c) PROVE ReadInv'
  <2>1. cl[c].uid \in Links
    BY <1>7, Numbers DEF Kill, Types
  <2> QED BY <1>6, <1>7, <2>1 DEF Kill
<1>8. CASE userd
  <2>1. Head(queue) \in Requests
    BY <1>8 DEF userd, Types
  <2>2. searchnewuser \in Links
    BY Numbers DEF ReadInv, Lists, searchnewuser
  <2>3. (IF Head(queue).cmd = "NEW" THEN searchnewuser ELSE Head(queue).uid) \in Links
    BY <2>1, <2>2 DEF Requests
  <2> QED BY <1>6, <1>8, <2>3 DEF userd
<1>9. ASSUME NEW c \in Clients, Deleted(c) PROVE ReadInv'
  <2>1. \A u \in Slots : passwd'[u].id = passwd[u].id
    BY <1>9 DEF Deleted, Types, Record
  <2> QED BY <1>9, <2>1, ReadStays DEF Deleted
<1>10. ASSUME NEW c \in Clients, WriteBack(c) PROVE ReadInv'
  BY <1>10, ReadNamed DEF WriteBack
<1>11. CASE Link
  BY <1>11, ReadLinked
<1>12. CASE Name
  BY <1>12, ReadNamed DEF Name, NoJob
<1>13. ASSUME NEW n \in Names, StartSearch(n) PROVE ReadInv'
  BY <1>13, ReadStarts
<1>14. CASE Hop
  BY <1>14, ReadHops
<1>15. CASE Missed
  BY <1>15, ReadIdle DEF Missed, cache
<1>16. CASE flush_ucache
  BY <1>1, <1>16 DEF flush_ucache
<1>17. CASE Restart
  <2>1. PICK newer \in BOOLEAN : Loaded(newer, file)
    BY <1>17 DEF Restart
  <2>2. \E o, r : Lists(hashhead', next', o, r) /\ Entered(hashhead', next', o)
    BY <2>1, LoadedLists DEF Types
  <2>3. rdr' = IdleReader /\ job'.step = "none"
    BY <1>17 DEF Restart, NoJob
  <2>4. IdleReader \in Readers /\ IdleReader.pc = "idle"
    BY Numbers DEF IdleReader, Readers, Ids
  <2> QED BY <2>2, <2>3, <2>4 DEF ReadInv, Reading
<1>18. ASSUME NEW c \in Clients, Die(c) PROVE ReadInv'
  BY <1>1, <1>18 DEF Die, StaysPut
<1>19. CASE UNCHANGED vars
  BY <1>1, <1>19 DEF vars
<1> QED
  BY <1>2, <1>3, <1>4, <1>5, <1>7, <1>8, <1>9, <1>10, <1>11, <1>12, <1>13, <1>14, <1>15,
     <1>16, <1>17, <1>18, <1>19 DEF Next

\* A search without the lock that comes to the end of the list, for a user who was
\* in one slot and could be found all along, stood on a slot that
\* setuserid_internal put into another list: for any number of users, keys and
\* processes.
THEOREM MissesWereMoved == Spec => []MissedOnlyMoved
<1>1. Init => Types /\ ReadInv
  BY InitInv, InitRead DEF IInv
<1>2. IInv /\ ReadInv /\ [Next]_vars => IInv' /\ ReadInv'
  BY StepInv, StepRead DEF IInv
<1>3. IInv /\ ReadInv => MissedOnlyMoved
  <2> SUFFICES ASSUME IInv, ReadInv, rdr.pc = "at", rdr.pos = 0, ~rdr.gone, ~rdr.moved
               PROVE  FALSE
    BY DEF MissedOnlyMoved
  <2>1. PICK o, r : Reading(o, r)
    BY DEF ReadInv
  <2>2. ~(job.step = "link" /\ job.uid = 0)
    BY Numbers DEF IInv, Types
  <2> QED BY <2>1, <2>2, Numbers DEF Reading, Ahead
<1>4. Init => IInv
  BY InitInv
<1> QED BY <1>1, <1>2, <1>3, <1>4, PTL DEF Spec

-----------------------------------------------------------------------------
(* What the steps of a client do, field by field. *)

Others(c) == \A d \in Clients : d # c => cl'[d] = cl[d]
CacheStays == UNCHANGED <<hashhead, next, passwd, file, job>>

LEMMA IdleFields ==
  /\ IdleClient.pc = "idle" /\ IdleClient.op = "" /\ IdleClient.uid = 0 /\ IdleClient.seq = 0
  /\ IdleClient.copy = Free /\ Free.id = NoName /\ Free.acc = 0 /\ Free.level = 0
BY DEF IdleClient, Free

LEMMA RegisterDoes ==
  ASSUME Types, NEW c \in Clients, NEW n \in Names, Register(c, n)
  PROVE  /\ cl[c].pc = "idle" /\ Others(c) /\ searchuser(n) = 0
         /\ cl'[c].pc = "wait" /\ cl'[c].op = "register" /\ cl'[c].uid = 0
         /\ cl'[c].copy = Free /\ cl'[c].seq = events + 1
         /\ queue' = Append(queue, [cmd |-> "NEW", uid |-> 0, id |-> n, c |-> c, seq |-> events + 1])
         /\ events' = events + 1 /\ CacheStays /\ UNCHANGED <<accounts, gaveup, mixed>>
<1> DEFINE s == [IdleClient EXCEPT !.pc = "wait", !.op = "register", !.n = n, !.seq = events + 1]
<1>1. /\ cl' = [cl EXCEPT ![c] = s]
      /\ events' = events + 1 /\ CacheStays /\ UNCHANGED <<accounts, gaveup, mixed>>
      /\ cl[c].pc = "idle" /\ searchuser(n) = 0
      /\ queue' = Append(queue, [cmd |-> "NEW", uid |-> 0, id |-> n, c |-> c, seq |-> events + 1])
  BY DEF Register, Idle, Starts, StaysPut, cache, CacheStays, ghosts
<1>2. s.pc = "wait" /\ s.op = "register" /\ s.uid = 0 /\ s.copy = Free /\ s.seq = events + 1
  BY DEF IdleClient
<1> HIDE DEF s
<1> QED BY <1>1, <1>2 DEF Others, Types

LEMMA DeleteDoes ==
  ASSUME IInv, NEW c \in Clients, NEW n \in Names, NEW op \in {"delete", "kill"}, Delete(c, n, op)
  PROVE  /\ cl[c].pc = "idle" /\ Others(c)
         /\ cl'[c].pc = "send" /\ cl'[c].op = op /\ cl'[c].uid = searchuser(n)
         /\ searchuser(n) \in Slots
         /\ cl'[c].copy = Free /\ cl'[c].seq = events + 1
         /\ accounts' = accounts \ {passwd[searchuser(n)].acc}
         /\ mixed' = mixed \cup Overlap(searchuser(n))
         /\ events' = events + 1 /\ CacheStays /\ UNCHANGED <<queue, gaveup>>
<1> DEFINE u == searchuser(n)
           s == [IdleClient EXCEPT !.pc = "send", !.op = op, !.n = n, !.uid = u, !.seq = events + 1]
<1>1. /\ cl' = [cl EXCEPT ![c] = s] /\ u # 0
      /\ events' = events + 1 /\ CacheStays /\ UNCHANGED <<queue, gaveup>>
      /\ cl[c].pc = "idle" /\ accounts' = accounts \ {passwd[u].acc}
      /\ mixed' = mixed \cup Overlap(u)
  BY DEF Delete, Idle, Starts, StaysPut, cache, CacheStays
<1>2. u \in Slots
  BY <1>1, Found
<1>3. s.pc = "send" /\ s.op = op /\ s.uid = u /\ s.copy = Free /\ s.seq = events + 1
  BY DEF IdleClient
<1> HIDE DEF s, u
<1> QED BY <1>1, <1>2, <1>3 DEF Others, IInv, Types, u

LEMMA ModifyDoes ==
  ASSUME IInv, NEW c \in Clients, NEW n \in Names, NEW n2 \in Names, Modify(c, n, n2)
  PROVE  /\ cl[c].pc = "idle" /\ Others(c)
         /\ cl'[c].pc \in {"write", "send"} /\ cl'[c].op = "modify" /\ cl'[c].uid = searchuser(n)
         /\ searchuser(n) \in Slots /\ passwd[searchuser(n)].id = n
         /\ cl'[c].copy = passwd[searchuser(n)] /\ cl'[c].n2 = n2 /\ cl'[c].seq = events + 1
         /\ mixed' = mixed \cup Overlap(searchuser(n))
         /\ events' = events + 1 /\ CacheStays /\ UNCHANGED <<queue, accounts, gaveup>>
<1> DEFINE u == searchuser(n)
           pc == IF n2 = n THEN "write" ELSE "send"
           s == [IdleClient EXCEPT !.pc = pc, !.op = "modify",
                          !.n = n, !.n2 = n2, !.uid = u, !.copy = passwd[u], !.seq = events + 1]
<1>1. /\ cl' = [cl EXCEPT ![c] = s] /\ u # 0
      /\ events' = events + 1 /\ CacheStays /\ UNCHANGED <<queue, accounts, gaveup>>
      /\ cl[c].pc = "idle" /\ mixed' = mixed \cup Overlap(u)
  BY DEF Modify, Idle, Starts, StaysPut, cache, CacheStays
<1>2. u \in Slots /\ passwd[u].id = n
  <2>1. PICK o, r : Lists(hashhead, next, o, r)
    BY DEF IInv, ListInv
  <2> QED BY <1>1, <2>1, SearchStays DEF searchuser, Ids
<1>3. pc \in {"write", "send"}
  OBVIOUS
<1> HIDE DEF pc
<1>4. /\ s.pc = pc /\ s.op = "modify" /\ s.uid = u /\ s.copy = passwd[u] /\ s.n2 = n2
      /\ s.seq = events + 1
  BY DEF IdleClient
<1> HIDE DEF s, u
<1> QED BY <1>1, <1>2, <1>3, <1>4 DEF Others, IInv, Types, u

\* The process goes on, with the same operation on the same slot.
GoesOn(c, pc) ==
    /\ Others(c) /\ cl'[c].pc = pc
    /\ cl'[c].op = cl[c].op /\ cl'[c].uid = cl[c].uid /\ cl'[c].n2 = cl[c].n2
    /\ cl'[c].copy = cl[c].copy /\ cl'[c].seq = cl[c].seq
Ends(c) == Others(c) /\ cl'[c] = IdleClient

LEMMA SendDelDoes ==
  ASSUME Types, NEW c \in Clients, SendDel(c)
  PROVE  /\ cl[c].pc = "send" /\ cl[c].op = "delete" /\ GoesOn(c, "wait")
         /\ queue' = Append(queue, [cmd |-> "DEL", uid |-> cl[c].uid, id |-> NoName, c |-> c,
                                    seq |-> cl[c].seq])
         /\ CacheStays /\ UNCHANGED <<events, accounts, gaveup, mixed>>
<1>1. cl' = [cl EXCEPT ![c] = [cl[c] EXCEPT !.pc = "wait"]]
  BY DEF SendDel
<1> QED BY <1>1 DEF SendDel, Request, StaysPut, cache, CacheStays, ghosts, GoesOn, Others, Types,
                    ClientStates

LEMMA SendSetDoes ==
  ASSUME Types, NEW c \in Clients, SendSet(c)
  PROVE  /\ cl[c].pc = "send" /\ cl[c].op = "modify"
         /\ \/ /\ GoesOn(c, "wait") /\ searchuser(cl[c].n2) = 0
               /\ queue' = Append(queue, [cmd |-> "SET", uid |-> cl[c].uid, id |-> cl[c].n2, c |-> c,
                                          seq |-> cl[c].seq])
            \/ GoesOn(c, "write") /\ UNCHANGED queue
         /\ CacheStays /\ UNCHANGED <<events, accounts, gaveup, mixed>>
<1>1. CASE searchuser(cl[c].n2) = 0
  <2>1. cl' = [cl EXCEPT ![c] = [cl[c] EXCEPT !.pc = "wait"]]
    BY <1>1 DEF SendSet
  <2>2. GoesOn(c, "wait")
    BY <2>1 DEF GoesOn, Others, Types, ClientStates
  <2> QED BY <1>1, <2>2 DEF SendSet, Request, StaysPut, cache, CacheStays, ghosts
<1>2. CASE searchuser(cl[c].n2) # 0
  <2>1. cl' = [cl EXCEPT ![c] = [cl[c] EXCEPT !.pc = "write"]]
    BY <1>2 DEF SendSet
  <2>2. GoesOn(c, "write")
    BY <2>1 DEF GoesOn, Others, Types, ClientStates
  <2> QED BY <1>2, <2>2 DEF SendSet, Request, StaysPut, cache, CacheStays, ghosts
<1> QED BY <1>1, <1>2

LEMMA TimeoutDoes ==
  ASSUME Types, NEW c \in Clients, Timeout(c)
  PROVE  /\ cl[c].pc = "wait" /\ cl[c].op # "kill"
         /\ \/ cl[c].op = "register" /\ Ends(c) /\ gaveup' = gaveup \cup {cl[c].seq}
            \/ cl[c].op # "register" /\ GoesOn(c, "answered") /\ UNCHANGED gaveup
         /\ mixed \subseteq mixed' /\ (cl[c].op = "modify" => "late" \in mixed')
         /\ CacheStays /\ UNCHANGED <<queue, events, accounts>>
<1>0. /\ cl[c].pc = "wait" /\ cl[c].op # "kill" /\ CacheStays /\ UNCHANGED <<queue, events, accounts>>
      /\ mixed \subseteq mixed' /\ (cl[c].op = "modify" => "late" \in mixed')
  BY DEF Timeout, StaysPut, cache, CacheStays
<1>1. CASE cl[c].op = "register"
  <2>1. cl' = [cl EXCEPT ![c] = IdleClient] /\ gaveup' = gaveup \cup {cl[c].seq}
    BY <1>1 DEF Timeout
  <2> QED BY <1>0, <1>1, <2>1 DEF Ends, Others, Types
<1>2. CASE cl[c].op # "register"
  <2>1. cl' = [cl EXCEPT ![c] = [cl[c] EXCEPT !.pc = "answered"]] /\ UNCHANGED gaveup
    BY <1>2 DEF Timeout
  <2>2. GoesOn(c, "answered")
    BY <2>1 DEF GoesOn, Others, Types, ClientStates
  <2> QED BY <1>0, <1>2, <2>1, <2>2
<1> QED BY <1>1, <1>2

LEMMA DieDoes ==
  ASSUME NEW c \in Clients, Types, Die(c)
  PROVE  /\ cl[c].pc # "idle" /\ cl[c].op # "kill" /\ Ends(c)
         /\ gaveup' = gaveup \cup {x \in {cl[c].seq} : cl[c].op = "register"}
         /\ events' = events + 1 /\ CacheStays /\ UNCHANGED <<queue, accounts, mixed>>
<1>1. /\ cl[c].pc # "idle" /\ cl[c].op # "kill" /\ cl' = [cl EXCEPT ![c] = IdleClient]
      /\ events' = events + 1 /\ CacheStays /\ UNCHANGED <<queue, accounts, mixed>>
  BY DEF Die, StaysPut, cache, CacheStays
<1>2. gaveup' = gaveup \cup {x \in {cl[c].seq} : cl[c].op = "register"}
  BY DEF Die
<1> QED BY <1>1, <1>2 DEF Ends, Others, Types

LEMMA RegisteredDoes ==
  ASSUME Types, NEW c \in Clients, Registered(c)
  PROVE  /\ cl[c].pc = "answered" /\ cl[c].op = "register"
         /\ \/ Ends(c) /\ cl[c].uid \notin Slots
            \/ /\ Others(c) /\ cl'[c].pc = "write" /\ cl'[c].op = "register"
               /\ cl'[c].uid = cl[c].uid /\ cl[c].uid \in Slots /\ cl'[c].seq = cl[c].seq
               /\ cl'[c].copy = [id |-> passwd[cl[c].uid].id, acc |-> MAXUSERS + cl[c].seq, level |-> 1]
         /\ CacheStays /\ UNCHANGED <<queue, events, accounts, gaveup, mixed>>
<1> DEFINE v == [id |-> passwd[cl[c].uid].id, acc |-> MAXUSERS + cl[c].seq, level |-> 1]
<1>0. /\ cl[c].pc = "answered" /\ cl[c].op = "register"
      /\ CacheStays /\ UNCHANGED <<queue, events, accounts, gaveup, mixed>>
  BY DEF Registered, StaysPut, cache, CacheStays, ghosts
<1>3. cl[c] \in ClientStates /\ cl[c].uid \in -1..MAXUSERS
  BY DEF Types, ClientStates
<1>1. CASE cl[c].uid <= 0
  <2>1. cl' = [cl EXCEPT ![c] = IdleClient]
    BY <1>1 DEF Registered
  <2>2. cl[c].uid \notin Slots
    BY <1>1, <1>3, Numbers DEF Slots
  <2> QED BY <1>0, <2>1, <2>2 DEF Ends, Others, Types
<1>2. CASE ~(cl[c].uid <= 0)
  <2>1. cl' = [cl EXCEPT ![c].pc = "write", ![c].copy = v]
    BY <1>2 DEF Registered
  <2>2. cl[c].uid \in Slots
    BY <1>2, <1>3, Numbers DEF Slots
  <2> HIDE DEF v
  <2>3. /\ Others(c) /\ cl'[c].pc = "write" /\ cl'[c].op = cl[c].op /\ cl'[c].copy = v
        /\ cl'[c].uid = cl[c].uid /\ cl'[c].seq = cl[c].seq
    BY <1>3, <2>1 DEF Others, Types, ClientStates
  <2> QED BY <1>0, <2>2, <2>3 DEF v
<1> QED BY <1>1, <1>2

LEMMA DeletedDoes ==
  ASSUME Types, NEW c \in Clients, Deleted(c)
  PROVE  /\ cl[c].pc = "answered" /\ cl[c].op \in {"delete", "kill"} /\ Ends(c)
         /\ \A u \in Slots : /\ passwd'[u].id = passwd[u].id /\ passwd'[u].acc = passwd[u].acc
                             /\ u # cl[c].uid => passwd'[u].level = passwd[u].level
         /\ UNCHANGED <<hashhead, next, file, queue, job, events, accounts, gaveup, mixed>>
BY DEF Deleted, Ends, Others, Types, Record, ghosts

LEMMA ModifiedDoes ==
  ASSUME Types, NEW c \in Clients, Modified(c)
  PROVE  /\ cl[c].pc = "answered" /\ cl[c].op = "modify"
         /\ Others(c) /\ cl'[c].pc = "write" /\ cl'[c].op = "modify"
         /\ cl'[c].uid = cl[c].uid /\ cl'[c].n2 = cl[c].n2 /\ cl'[c].seq = cl[c].seq
         /\ cl'[c].copy.acc = cl[c].copy.acc /\ cl'[c].copy.level = cl[c].copy.level
         /\ cl'[c].copy.id = IF searchuser(cl[c].n2) = cl[c].uid THEN cl[c].n2 ELSE cl[c].copy.id
         /\ CacheStays /\ UNCHANGED <<queue, events, accounts, gaveup, mixed>>
<1> DEFINE v == IF searchuser(cl[c].n2) = cl[c].uid THEN cl[c].n2 ELSE cl[c].copy.id
<1>1. /\ cl[c].pc = "answered" /\ cl[c].op = "modify"
      /\ CacheStays /\ UNCHANGED <<queue, events, accounts, gaveup, mixed>>
  BY DEF Modified, StaysPut, cache, CacheStays, ghosts
<1>2. cl[c] \in ClientStates /\ cl[c].copy \in Record
  BY DEF Types, ClientStates
<1>3. cl' = [cl EXCEPT ![c] = [[cl[c] EXCEPT !.pc = "write"] EXCEPT !.copy = [cl[c].copy EXCEPT !.id = v]]]
  BY <1>2 DEF Modified, ClientStates, Types
<1> HIDE DEF v
<1>4. PICK y : y = [cl[c].copy EXCEPT !.id = v]
  OBVIOUS
<1>5. y.id = v /\ y.acc = cl[c].copy.acc /\ y.level = cl[c].copy.level
  BY <1>2, <1>4 DEF Record
<1>6. /\ Others(c) /\ cl'[c].pc = "write" /\ cl'[c].op = cl[c].op
      /\ cl'[c].uid = cl[c].uid /\ cl'[c].n2 = cl[c].n2 /\ cl'[c].seq = cl[c].seq /\ cl'[c].copy = y
  BY <1>2, <1>3, <1>4 DEF Others, Types, ClientStates
<1> QED BY <1>1, <1>5, <1>6 DEF v

LEMMA WriteBackDoes ==
  ASSUME Types, NEW c \in Clients, WriteBack(c)
  PROVE  /\ cl[c].pc = "write" /\ Ends(c)
         /\ cl[c].uid \in Slots => passwd'[cl[c].uid] = cl[c].copy
         /\ \A u \in Slots : u # cl[c].uid => passwd'[u] = passwd[u]
         /\ accounts' = IF cl[c].op = "register" THEN accounts \cup {cl[c].copy.acc} ELSE accounts
         /\ UNCHANGED <<hashhead, next, file, queue, job, events, gaveup, mixed>>
BY DEF WriteBack, Ends, Others, Types

\* The answer reaches the process that waits for it, if it still does.
LEMMA AnswerDoes ==
  ASSUME Types, NEW c \in Clients, NEW seq, NEW uid, Answer(c, seq, uid)
  PROVE  \/ /\ cl[c].seq = seq /\ (cl[c].pc = "wait" \/ cl[c].op = "kill")
            /\ Others(c) /\ cl'[c].pc = "answered" /\ cl'[c].op = cl[c].op
            /\ cl'[c].uid = IF cl[c].op = "register" THEN uid ELSE cl[c].uid
            /\ cl'[c].n2 = cl[c].n2 /\ cl'[c].copy = cl[c].copy /\ cl'[c].seq = seq
         \/ cl' = cl /\ ~(cl[c].seq = seq /\ (cl[c].pc = "wait" \/ cl[c].op = "kill"))
<1> DEFINE v == IF cl[c].op = "register" THEN uid ELSE cl[c].uid
<1>1. CASE cl[c].seq = seq /\ (cl[c].pc = "wait" \/ cl[c].op = "kill")
  <2>1. cl' = [cl EXCEPT ![c].pc = "answered", ![c].uid = v]
    BY <1>1 DEF Answer
  <2> HIDE DEF v
  <2>2. /\ Others(c) /\ cl'[c].pc = "answered" /\ cl'[c].op = cl[c].op /\ cl'[c].uid = v
        /\ cl'[c].n2 = cl[c].n2 /\ cl'[c].copy = cl[c].copy /\ cl'[c].seq = cl[c].seq
    BY <2>1 DEF Others, Types, ClientStates
  <2> QED BY <1>1, <2>2 DEF v
<1>2. CASE ~(cl[c].seq = seq /\ (cl[c].pc = "wait" \/ cl[c].op = "kill"))
  BY <1>2 DEF Answer
<1> QED BY <1>1, <1>2

-----------------------------------------------------------------------------
(* Operations and their requests. *)

Running == job.step # "none"
Active(c) == cl[c].pc # "idle"
Own(r) == cl[r.c].seq = r.seq
Asked == {queue[i] : i \in 1..Len(queue)}
Pending == Asked \cup {r \in {job} : Running}

\* What a process is at determines what it has of its operation.
ClientOK(c) ==
    LET x == cl[c] IN
    /\ x.pc = "idle" => x = IdleClient
    /\ x.pc # "idle" => x.op # "" /\ x.seq \in 1..events
    /\ x.op = "register" => x.pc \in {"wait", "answered", "write"}
    /\ x.op = "register" /\ x.pc = "wait" => x.uid = 0
    /\ x.op = "register" /\ x.pc = "write" =>
         x.uid \in Slots /\ x.copy.acc = MAXUSERS + x.seq /\ x.copy.level = 1
    /\ x.op = "delete" => x.pc \in {"send", "wait", "answered"}
    /\ x.op = "kill" => x.pc \in {"send", "answered"}
    /\ x.op \in {"delete", "kill", "modify"} => x.uid \in Slots
    /\ x.op = "modify" => x.n2 \in Names /\ x.copy.id \in Names

\* A request belongs to the operation with its number: while that lasts, the
\* operation is where one that has sent the request can be.
TaskOK(r) ==
    LET x == cl[r.c] IN
    /\ r.c \in Clients /\ r.seq \in 1..events /\ r.id \in Ids
    /\ r.cmd \in {"NEW", "SET", "DEL"} /\ (r.cmd = "DEL" <=> r.id = NoName)
    /\ r.cmd # "NEW" => r.uid \in Slots
    /\ \A c \in Clients : cl[c].seq = r.seq => c = r.c
    /\ Own(r) => /\ r.cmd = "NEW" => x.op = "register" /\ x.pc = "wait"
                 /\ r.cmd = "SET" => /\ x.op = "modify" /\ x.uid = r.uid /\ x.n2 = r.id
                                     /\ x.pc \in {"wait", "answered", "write"}
                 /\ r.cmd = "DEL" => /\ x.op \in {"delete", "kill"} /\ x.uid = r.uid
                                     /\ x.op = "delete" => x.pc \in {"wait", "answered"}
                                     /\ x.op = "kill" => x.pc = "send"
    /\ r.cmd = "NEW" => r.seq \in gaveup \/ Own(r)
    /\ "late" \notin mixed /\ r.cmd = "SET" /\ Own(r) => x.pc = "wait"

Distinct == \A i, j \in 1..Len(queue) : i # j => queue[i].seq # queue[j].seq
Tasks ==
    /\ \A c \in Clients : ClientOK(c)
    /\ \A r \in Pending : TaskOK(r)
    /\ \A r \in Asked : Own(r) => cl[r.c].op # "kill"
    /\ Distinct
    /\ Running => \A r \in Asked : r.seq # job.seq
    /\ \A c, d \in Clients : c # d /\ Active(c) => cl[c].seq # cl[d].seq

\* A request is put behind the others ...
LEMMA AskedGrows ==
  ASSUME queue \in Seq(Requests), NEW q \in Requests, queue' = Append(queue, q)
  PROVE  /\ Asked' = Asked \cup {q}
         /\ Distinct /\ (\A r \in Asked : r.seq # q.seq) => Distinct'
<1>1. /\ Len(queue) \in Nat /\ Len(queue') = Len(queue) + 1 /\ queue'[Len(queue) + 1] = q
      /\ \A i \in 1..Len(queue) : queue'[i] = queue[i]
  OBVIOUS
<1>2. 1..(Len(queue) + 1) = 1..Len(queue) \cup {Len(queue) + 1}
  BY <1>1
<1>3. PICK n \in Nat : n = Len(queue)
  BY <1>1
<1>4. Asked' = Asked \cup {q}
  <2>1. ASSUME NEW r \in Asked' PROVE r \in Asked \cup {q}
    BY <1>1, <1>2 DEF Asked
  <2>2. q \in Asked'
    BY <1>1, <1>2 DEF Asked
  <2>3. ASSUME NEW r \in Asked PROVE r \in Asked'
    <3>1. PICK i \in 1..Len(queue) : r = queue[i]
      BY DEF Asked
    <3>2. i \in 1..Len(queue') /\ r = queue'[i]
      BY <1>1, <1>2, <3>1
    <3> QED BY <3>2 DEF Asked
  <2> QED BY <2>1, <2>2, <2>3
<1>5. ASSUME Distinct, \A r \in Asked : r.seq # q.seq PROVE Distinct'
  <2>1. \A i \in 1..Len(queue) : queue[i] \in Asked
    BY DEF Asked
  <2> QED BY <1>1, <1>2, <1>5, <2>1 DEF Distinct
<1> QED BY <1>4, <1>5

\* ... and userd takes the first.
LEMMA AskedShrinks ==
  ASSUME queue \in Seq(Requests), queue # <<>>, queue' = Tail(queue), Distinct
  PROVE  /\ Head(queue) \in Asked /\ Asked' \subseteq Asked /\ Distinct'
         /\ \A r \in Asked' : r.seq # Head(queue).seq
<1>1. /\ Len(queue) \in Nat \ {0} /\ Len(queue') = Len(queue) - 1 /\ Head(queue) = queue[1]
      /\ \A i \in 1..Len(queue') : queue'[i] = queue[i+1]
  OBVIOUS
<1>2. \A i \in 1..Len(queue') : i+1 \in 1..Len(queue) /\ i+1 # 1
  BY <1>1
<1>3. 1 \in 1..Len(queue)
  BY <1>1
<1>4. ASSUME NEW r \in Asked' PROVE r \in Asked /\ r.seq # Head(queue).seq
  <2>1. PICK i \in 1..Len(queue') : r = queue'[i]
    BY DEF Asked
  <2>2. r = queue[i+1] /\ i+1 \in 1..Len(queue) /\ i+1 # 1
    BY <1>1, <1>2, <2>1
  <2> QED BY <1>1, <1>3, <2>2 DEF Asked, Distinct
<1>5. Distinct'
  <2>1. \A i, j \in 1..Len(queue') : i # j => i+1 # j+1
    BY <1>1
  <2> QED BY <1>1, <1>2, <2>1 DEF Distinct
<1>6. Head(queue) \in Asked
  BY <1>1, <1>3 DEF Asked
<1> QED BY <1>4, <1>5, <1>6

\* The requests of the other processes do not notice a step of one.
LEMMA TaskOfOther ==
  ASSUME events \in Int, NEW r, TaskOK(r), NEW c \in Clients, Others(c), ClientOK(c),
         events' \in {events, events + 1}, mixed \subseteq mixed', gaveup \subseteq gaveup',
         cl'[c].seq \in {cl[c].seq, 0, events + 1},
         ~(r.c = c /\ Own(r))
  PROVE  TaskOK(r)'
<1>1. r.seq \in 1..events /\ r.seq \in 1..events' /\ r.seq # events + 1 /\ r.seq # 0
  BY DEF TaskOK
<1>2. Own(r)' => Own(r)
  BY <1>1 DEF Own, Others, TaskOK
<1>3. Own(r)' => r.c # c
  BY <1>1, <1>2 DEF Own
<1>4. \A d \in Clients : cl'[d].seq = r.seq => cl[d].seq = r.seq
  BY <1>1 DEF Others
<1>5. Own(r) => Own(r)' /\ cl'[r.c] = cl[r.c]
  BY DEF Own, Others, TaskOK
<1> QED BY <1>1, <1>2, <1>3, <1>4, <1>5 DEF TaskOK

\* One process goes on, and perhaps asks for something.
LEMMA MoveKeepsTasks ==
  ASSUME Types, Tasks, NEW c \in Clients, Others(c), UNCHANGED job,
         events' \in {events, events + 1}, mixed \subseteq mixed', gaveup \subseteq gaveup',
         ClientOK(c)',
         \/ cl'[c].seq \in {cl[c].seq, 0}
         \/ cl'[c].seq = events + 1 /\ events' = events + 1,
         \A r \in Pending : r.c = c /\ Own(r) =>
           TaskOK(r)' /\ (Own(r)' => cl'[c].op = cl[c].op),
         \/ queue' = queue
         \/ \E q \in Requests :
              /\ queue' = Append(queue, q) /\ q.c = c /\ TaskOK(q)' /\ cl'[c].op # "kill"
              /\ \A r \in Pending : r.seq # q.seq
  PROVE  Tasks'
<1>1. ASSUME NEW d \in Clients PROVE ClientOK(d)'
  <2>1. CASE d = c
    BY <2>1
  <2>2. CASE d # c
    <3>1. cl'[d] = cl[d] /\ ClientOK(d)
      BY <2>2 DEF Tasks, Others
    <3>2. 1..events \subseteq 1..events'
      BY DEF Types
    <3> QED BY <3>1, <3>2 DEF ClientOK
  <2> QED BY <2>1, <2>2
<1>2. ASSUME NEW r \in Pending PROVE TaskOK(r)'
  <2>1. CASE r.c = c /\ Own(r)
    BY <2>1
  <2>2. CASE ~(r.c = c /\ Own(r))
    BY <2>2, TaskOfOther DEF Tasks, Types
  <2> QED BY <2>1, <2>2
<1>3. \/ Asked' = Asked /\ Distinct'
      \/ \E q \in Requests :
           /\ Asked' = Asked \cup {q} /\ Distinct' /\ q.c = c /\ TaskOK(q)' /\ cl'[c].op # "kill"
           /\ \A r \in Pending : r.seq # q.seq
  <2>1. CASE queue' = queue
    BY <2>1 DEF Asked, Tasks, Distinct
  <2>2. ASSUME NEW q \in Requests, queue' = Append(queue, q), q.c = c, TaskOK(q)',
               cl'[c].op # "kill", \A r \in Pending : r.seq # q.seq
        PROVE  <1>3
    BY <2>2, AskedGrows DEF Tasks, Types, Pending
  <2> QED BY <2>1, <2>2
<1>4. \A r \in Pending' : TaskOK(r)'
  BY <1>2, <1>3 DEF Pending, Running
<1>5. ASSUME NEW r \in Asked, Own(r)' PROVE cl'[r.c].op # "kill"
  <2>1. TaskOK(r) /\ r \in Pending
    BY DEF Tasks, Pending
  <2>2. r.seq # 0 /\ r.seq # events + 1 /\ r.c \in Clients
    BY <2>1 DEF TaskOK, Types
  <2>3. Own(r)
    BY <1>5, <2>2 DEF Own, Others
  <2> QED BY <1>5, <2>1, <2>2, <2>3 DEF Tasks, Others
<1>6. \A r \in Asked' : Own(r)' => cl'[r.c].op # "kill"
  BY <1>3, <1>5
<1>7. Running' => \A r \in Asked' : r.seq # job'.seq
  BY <1>3 DEF Tasks, Running, Pending
<1>8. ASSUME NEW d \in Clients, NEW e \in Clients, d # e, Active(d)' PROVE cl'[d].seq # cl'[e].seq
  <2>1. \A a \in Clients : (cl[a].pc = "idle" /\ cl[a].seq = 0) \/ (Active(a) /\ cl[a].seq \in 1..events)
    BY IdleFields DEF Tasks, ClientOK, Active
  <2>2. cl'[d].seq \in 1..events'
    BY <1>1, <1>8 DEF Active, ClientOK
  <2> QED BY <1>8, <2>1, <2>2 DEF Tasks, Others, Active, Types
<1> QED BY <1>1, <1>3, <1>4, <1>6, <1>7, <1>8 DEF Tasks

\* No process moves: requests stay what they are, also the one that becomes the job.
LEMMA TaskSame ==
  ASSUME events \in Int, NEW q, TaskOK(q), NEW r, cl' = cl,
         r.cmd = q.cmd, r.uid = q.uid, r.id = q.id, r.c = q.c, r.seq = q.seq,
         events' \in Int, events <= events', mixed \subseteq mixed', gaveup \subseteq gaveup'
  PROVE  TaskOK(r)'
<1>1. 1..events \subseteq 1..events'
  OBVIOUS
<1> QED BY <1>1 DEF TaskOK, Own

LEMMA StandKeepsTasks ==
  ASSUME Types, Tasks, cl' = cl, events' \in Int, events <= events', mixed \subseteq mixed',
         gaveup \subseteq gaveup', Asked' \subseteq Asked, Distinct',
         \A r \in Pending' : \E q : /\ TaskOK(q) /\ r.cmd = q.cmd /\ r.uid = q.uid /\ r.id = q.id
                                    /\ r.c = q.c /\ r.seq = q.seq,
         Running' => \A r \in Asked' : r.seq # job'.seq
  PROVE  Tasks'
<1>1. ASSUME NEW d \in Clients PROVE ClientOK(d)'
  <2>1. cl'[d] = cl[d] /\ ClientOK(d)
    BY DEF Tasks
  <2>2. 1..events \subseteq 1..events'
    BY DEF Types
  <2> QED BY <2>1, <2>2 DEF ClientOK
<1>2. \A r \in Pending' : TaskOK(r)'
  BY TaskSame DEF Types
<1>3. \A r \in Asked' : Own(r)' => cl'[r.c].op # "kill"
  BY DEF Tasks, Own
<1>4. \A c, d \in Clients : c # d /\ Active(c)' => cl'[c].seq # cl'[d].seq
  BY DEF Tasks, Active
<1> QED BY <1>1, <1>2, <1>3, <1>4 DEF Tasks

\* userd or killd answers: only the process that waits for this answer notices.
LEMMA AnswerKeepsTasks ==
  ASSUME Types, Tasks, NEW q, TaskOK(q), NEW uid, Answer(q.c, q.seq, uid),
         Asked' \subseteq Asked, Pending' \subseteq Pending, \A r \in Pending' : r.seq # q.seq,
         Distinct', events' = events, mixed \subseteq mixed', gaveup' = gaveup,
         Running' => \A r \in Asked' : r.seq # job'.seq
  PROVE  Tasks'
<1>1. q.c \in Clients
  BY DEF TaskOK
<1>2. CASE cl' = cl
  <2>1. \A r \in Pending' : TaskOK(r)
    BY DEF Tasks
  <2>2. events' \in Int /\ events <= events' /\ gaveup \subseteq gaveup'
    BY DEF Types
  <2> QED BY <1>2, <2>1, <2>2, StandKeepsTasks
<1>3. CASE /\ cl[q.c].seq = q.seq /\ (cl[q.c].pc = "wait" \/ cl[q.c].op = "kill")
           /\ Others(q.c) /\ cl'[q.c].pc = "answered" /\ cl'[q.c].op = cl[q.c].op
           /\ cl'[q.c].uid = IF cl[q.c].op = "register" THEN uid ELSE cl[q.c].uid
           /\ cl'[q.c].n2 = cl[q.c].n2 /\ cl'[q.c].copy = cl[q.c].copy /\ cl'[q.c].seq = q.seq
  <2>1. ClientOK(q.c)
    BY <1>1 DEF Tasks
  <2>2. ClientOK(q.c)'
    <3>1. cl[q.c].pc # "idle"
      BY <1>3, <2>1, IdleFields DEF ClientOK
    <3> QED BY <1>3, <2>1, <3>1 DEF ClientOK
  <2>3. ASSUME NEW d \in Clients PROVE ClientOK(d)'
    <3>1. CASE d = q.c
      BY <2>2, <3>1
    <3>2. CASE d # q.c
      <4>1. cl'[d] = cl[d] /\ ClientOK(d)
        BY <1>3, <3>2 DEF Tasks, Others
      <4> QED BY <4>1 DEF ClientOK
    <3> QED BY <3>1, <3>2
  <2>4. ASSUME NEW r \in Pending' PROVE TaskOK(r)'
    <3>1. TaskOK(r) /\ r.seq # q.seq
      BY DEF Tasks
    <3>2. ~(r.c = q.c /\ Own(r))
      BY <1>3, <3>1 DEF Own
    <3> QED BY <1>1, <1>3, <2>1, <3>1, <3>2, TaskOfOther DEF Types
  <2>5. ASSUME NEW r \in Asked', Own(r)' PROVE cl'[r.c].op # "kill"
    <3>1. TaskOK(r) /\ r.seq # q.seq /\ r \in Asked
      BY DEF Tasks, Pending
    <3>2. r.c # q.c /\ Own(r) /\ r.c \in Clients
      BY <1>3, <2>5, <3>1 DEF Own, Others, TaskOK
    <3> QED BY <1>3, <3>1, <3>2 DEF Tasks, Others
  <2>6. ASSUME NEW c \in Clients, NEW d \in Clients, c # d, Active(c)' PROVE cl'[c].seq # cl'[d].seq
    <3>1. cl'[c].seq = cl[c].seq /\ cl'[d].seq = cl[d].seq
      BY <1>3 DEF Others
    <3>2. Active(c)
      BY <1>3, <2>1, <2>6, IdleFields DEF Active, Others, ClientOK
    <3> QED BY <2>6, <3>1, <3>2 DEF Tasks
  <2> QED BY <2>3, <2>4, <2>5, <2>6 DEF Tasks
<1> QED BY <1>1, <1>2, <1>3, AnswerDoes

LEMMA UnlinkKeepsTasks ==
  ASSUME Types, Tasks, NEW q \in Requests, TaskOK(q), NEW uid \in Links, Unlink(q, uid),
         q.cmd # "NEW" => uid = q.uid,
         Asked' \subseteq Asked, Distinct', \A r \in Asked' : r.seq # q.seq,
         UNCHANGED <<events, gaveup>>
  PROVE  Tasks'
<1>1. /\ job.step = "none" /\ mixed \subseteq mixed'
  BY DEF Unlink
<1>2. CASE Refused(q)
  <2>1. Pending' = Asked' /\ ~Running'
    BY <1>1, <1>2 DEF Refused, Pending, Running
  <2>2. Answer(q.c, q.seq, IF q.cmd = "NEW" THEN -1 ELSE 0)
    BY <1>2 DEF Refused
  <2>3. Pending' \subseteq Pending
    BY <2>1 DEF Pending
  <2> QED BY <1>1, <2>1, <2>2, <2>3, AnswerKeepsTasks
<1>3. CASE TakenOut(q, uid)
  <2>1. /\ job'.cmd = q.cmd /\ job'.uid = uid /\ job'.id = q.id /\ job'.c = q.c /\ job'.seq = q.seq
        /\ cl' = cl
    BY <1>3 DEF TakenOut
  <2>2. Pending' \subseteq Asked' \cup {job'}
    BY DEF Pending
  <2>3. TaskOK([q EXCEPT !.uid = uid]) /\ [q EXCEPT !.uid = uid].uid = uid
    <3>1. /\ [q EXCEPT !.uid = uid].uid = uid /\ [q EXCEPT !.uid = uid].c = q.c
          /\ [q EXCEPT !.uid = uid].cmd = q.cmd /\ [q EXCEPT !.uid = uid].id = q.id
          /\ [q EXCEPT !.uid = uid].seq = q.seq
      BY DEF Requests
    <3> QED BY <3>1 DEF TaskOK, Own
  <2>4. PICK t : t = [q EXCEPT !.uid = uid]
    OBVIOUS
  <2>5. /\ TaskOK(t) /\ job'.cmd = t.cmd /\ job'.uid = t.uid /\ job'.id = t.id /\ job'.c = t.c
        /\ job'.seq = t.seq
    BY <2>1, <2>3, <2>4 DEF Requests
  <2>6. \A r \in Asked : TaskOK(r)
    BY DEF Tasks, Pending
  <2>7. \A r \in Pending' : \E y : /\ TaskOK(y) /\ r.cmd = y.cmd /\ r.uid = y.uid /\ r.id = y.id
                                   /\ r.c = y.c /\ r.seq = y.seq
    BY <2>2, <2>5, <2>6
  <2>8. \A r \in Asked' : r.seq # job'.seq
    BY <2>1
  <2>9. events' \in Int /\ events <= events' /\ gaveup \subseteq gaveup'
    BY DEF Types
  <2> QED BY <1>1, <2>1, <2>7, <2>8, <2>9, StandKeepsTasks
<1> QED BY <1>2, <1>3, UnlinkCases

\* A process at work has asked for nothing unless it waits or its request is late.
LEMMA OwnFacts ==
  ASSUME Tasks, NEW c \in Clients, NEW r \in Pending, r.c = c, Own(r)
  PROVE  /\ cl[c].pc # "idle" /\ cl[c].seq = r.seq /\ TaskOK(r)
         /\ cl[c].pc = "send" => cl[c].op = "kill"
<1>1. TaskOK(r) /\ ClientOK(c)
  BY DEF Tasks
<1> QED BY <1>1, IdleFields DEF TaskOK, ClientOK, Own

LEMMA InitTasks == Init => Tasks
<1> SUFFICES ASSUME Init PROVE Tasks
  OBVIOUS
<1>1. queue = <<>> /\ job = NoJob /\ cl = [c \in Clients |-> IdleClient]
  BY DEF Init
<1>2. Asked = {} /\ Pending = {} /\ Distinct /\ ~Running
  <2>1. Len(queue) = 0
    BY <1>1
  <2>2. ~Running
    BY <1>1 DEF Running, NoJob
  <2> QED BY <2>1, <2>2 DEF Asked, Pending, Distinct
<1>3. \A c \in Clients : ClientOK(c) /\ ~Active(c)
  BY <1>1, IdleFields DEF ClientOK, Active
<1> QED BY <1>2, <1>3 DEF Tasks

LEMMA StepTasks ==
  ASSUME IInv, Tasks, [Next]_vars
  PROVE  Tasks'
<1>0. Types /\ events \in Nat
  BY DEF IInv, Types
<1>1. ASSUME UNCHANGED <<queue, job, cl>>, events' \in {events, events + 1, events + 2},
             mixed \subseteq mixed', gaveup \subseteq gaveup'
      PROVE  Tasks'
  <2>1. Asked' = Asked /\ Pending' = Pending /\ (Running' <=> Running) /\ Distinct'
    BY <1>1 DEF Asked, Pending, Running, Distinct, Tasks
  <2>2. \A r \in Pending : TaskOK(r)
    BY DEF Tasks
  <2>3. Running => \A r \in Asked : r.seq # job.seq
    BY DEF Tasks
  <2>4. events' \in Int /\ events <= events'
    BY <1>0, <1>1
  <2> QED BY <1>0, <1>1, <2>1, <2>2, <2>3, <2>4, StandKeepsTasks
\* A process begins.
<1>2. \A c \in Clients : cl[c].pc = "idle" => \A r \in Pending : ~(r.c = c /\ Own(r))
  BY OwnFacts
<1>3. \A r \in Pending : r.seq # events + 1
  BY <1>0 DEF Tasks, TaskOK
<1>4. ASSUME NEW c \in Clients, NEW n \in Names, Register(c, n) PROVE Tasks'
  <2>0. PICK s : s = [cmd |-> "NEW", uid |-> 0, id |-> n, c |-> c, seq |-> events + 1]
    OBVIOUS
  <2>1. /\ cl[c].pc = "idle" /\ Others(c)
        /\ cl'[c].pc = "wait" /\ cl'[c].op = "register" /\ cl'[c].uid = 0
        /\ cl'[c].copy = Free /\ cl'[c].seq = events + 1
        /\ queue' = Append(queue, s)
        /\ events' = events + 1 /\ job' = job /\ UNCHANGED <<gaveup, mixed>>
    BY <1>0, <1>4, <2>0, RegisterDoes DEF CacheStays
  <2>2. s \in Requests /\ events + 1 \in 1..events'
    BY <1>0, <2>0, <2>1, Numbers DEF Requests, Ids
  <2>3. ClientOK(c)'
    BY <2>1, <2>2 DEF ClientOK
  <2>4. s.c = c /\ s.seq = events + 1 /\ s.cmd = "NEW" /\ s.id = n /\ s.id # NoName
    BY <2>0, UCacheAssumption
  <2>5. \A d \in Clients : cl'[d].seq = events + 1 => d = c
    <3>1. \A d \in Clients : cl[d].seq = 0 \/ cl[d].seq \in 1..events
      BY IdleFields DEF Tasks, ClientOK
    <3> QED BY <1>0, <2>1, <3>1 DEF Others
  <2>6. s.id \in Ids
    BY <2>4 DEF Ids
  <2>7. TaskOK(s)'
    BY <2>1, <2>2, <2>4, <2>5, <2>6 DEF TaskOK, Own
  <2>8. cl'[c].op # "kill" /\ \A r \in Pending : r.seq # s.seq
    BY <1>3, <2>1, <2>4
  <2> QED BY <1>0, <1>2, <2>1, <2>2, <2>3, <2>4, <2>7, <2>8, MoveKeepsTasks
<1>5. ASSUME NEW c \in Clients, NEW n \in Names, NEW op \in {"delete", "kill"}, Delete(c, n, op)
      PROVE  Tasks'
  <2>1. /\ cl[c].pc = "idle" /\ Others(c)
        /\ cl'[c].pc = "send" /\ cl'[c].op = op /\ cl'[c].uid \in Slots
        /\ cl'[c].seq = events + 1 /\ queue' = queue
        /\ events' = events + 1 /\ job' = job /\ gaveup' = gaveup /\ mixed \subseteq mixed'
    BY <1>5, DeleteDoes DEF CacheStays
  <2>3. cl'[c].seq \in 1..events'
    BY <1>0, <2>1
  <2>2. ClientOK(c)'
    BY <2>1, <2>3 DEF ClientOK
  <2> QED BY <1>0, <1>2, <2>1, <2>2, MoveKeepsTasks
<1>6. ASSUME NEW c \in Clients, NEW n \in Names, NEW n2 \in Names, Modify(c, n, n2) PROVE Tasks'
  <2>1. /\ cl[c].pc = "idle" /\ Others(c)
        /\ cl'[c].pc \in {"write", "send"} /\ cl'[c].op = "modify" /\ cl'[c].uid \in Slots
        /\ cl'[c].copy.id \in Names /\ cl'[c].n2 \in Names
        /\ cl'[c].seq = events + 1 /\ queue' = queue
        /\ events' = events + 1 /\ job' = job /\ gaveup' = gaveup /\ mixed \subseteq mixed'
    BY <1>6, ModifyDoes DEF CacheStays
  <2>2. ClientOK(c)'
    BY <1>0, <2>1 DEF ClientOK
  <2> QED BY <1>0, <1>2, <2>1, <2>2, MoveKeepsTasks
\* It sends its request.
<1>7. ASSUME NEW c \in Clients, cl[c].pc = "send", cl[c].op # "kill"
      PROVE  /\ \A r \in Pending : ~(r.c = c /\ Own(r))
             /\ \A r \in Pending : r.seq # cl[c].seq
  <2>1. \A r \in Pending : ~(r.c = c /\ Own(r))
    BY <1>7, OwnFacts
  <2> QED BY <2>1 DEF Tasks, TaskOK, Own
<1>8. ASSUME NEW c \in Clients, cl[c].pc = "send", cl[c].op \in {"delete", "modify"},
             GoesOn(c, "wait"), NEW s \in Requests, queue' = Append(queue, s),
             s.c = c, s.seq = cl[c].seq, s.uid = cl[c].uid,
             \/ s.cmd = "DEL" /\ s.id = NoName /\ cl[c].op = "delete"
             \/ s.cmd = "SET" /\ s.id = cl[c].n2 /\ cl[c].op = "modify",
             CacheStays, UNCHANGED <<events, accounts, gaveup, mixed>>
      PROVE  Tasks'
  <2>1. ClientOK(c) /\ cl[c].seq \in 1..events
    BY <1>8 DEF Tasks, ClientOK
  <2>2. ClientOK(c)'
    BY <1>8, <2>1 DEF ClientOK, GoesOn
  <2>3. \A d \in Clients : cl'[d].seq = cl[c].seq => d = c
    BY <1>8 DEF Tasks, Active, GoesOn, Others
  <2>4. s.id \in Ids /\ s.uid \in Slots /\ (s.cmd = "SET" => s.id # NoName)
    BY <1>8, <2>1, UCacheAssumption DEF ClientOK, Ids
  <2>5. TaskOK(s)'
    BY <1>8, <2>1, <2>3, <2>4 DEF TaskOK, Own, GoesOn
  <2>6. /\ job' = job /\ Others(c) /\ events' = events /\ gaveup' = gaveup /\ mixed' = mixed
        /\ cl'[c].seq = cl[c].seq /\ cl'[c].op # "kill"
    BY <1>8 DEF CacheStays, GoesOn
  <2>7. cl[c].op # "kill"
    BY <1>8
  <2> QED BY <1>0, <1>7, <1>8, <2>2, <2>5, <2>6, <2>7, MoveKeepsTasks
<1>9. ASSUME NEW c \in Clients, SendDel(c) PROVE Tasks'
  <2> DEFINE s == [cmd |-> "DEL", uid |-> cl[c].uid, id |-> NoName, c |-> c, seq |-> cl[c].seq]
  <2>1. /\ cl[c].pc = "send" /\ cl[c].op = "delete" /\ GoesOn(c, "wait") /\ queue' = Append(queue, s)
        /\ CacheStays /\ UNCHANGED <<events, accounts, gaveup, mixed>>
    BY <1>0, <1>9, SendDelDoes
  <2>2. s \in Requests /\ s.c = c /\ s.seq = cl[c].seq /\ s.uid = cl[c].uid /\ s.cmd = "DEL"
        /\ s.id = NoName
    BY <1>0, <2>1, Numbers DEF Requests, Types, Ids, ClientStates
  <2> HIDE DEF s
  <2> QED BY <1>8, <2>1, <2>2
<1>10. ASSUME NEW c \in Clients, SendSet(c) PROVE Tasks'
  <2> DEFINE s == [cmd |-> "SET", uid |-> cl[c].uid, id |-> cl[c].n2, c |-> c, seq |-> cl[c].seq]
  <2>1. /\ cl[c].pc = "send" /\ cl[c].op = "modify"
        /\ \/ GoesOn(c, "wait") /\ queue' = Append(queue, s)
           \/ GoesOn(c, "write") /\ UNCHANGED queue
        /\ CacheStays /\ UNCHANGED <<events, accounts, gaveup, mixed>>
    BY <1>0, <1>10, SendSetDoes
  <2>2. s \in Requests /\ s.c = c /\ s.seq = cl[c].seq /\ s.uid = cl[c].uid /\ s.cmd = "SET"
        /\ s.id = cl[c].n2
    BY <1>0, <2>1, Numbers DEF Requests, Types, Ids, ClientStates
  <2> HIDE DEF s
  <2>3. CASE GoesOn(c, "wait") /\ queue' = Append(queue, s)
    BY <1>8, <2>1, <2>2, <2>3
  <2>4. CASE GoesOn(c, "write") /\ UNCHANGED queue
    <3>1. /\ job' = job /\ Others(c) /\ events' = events /\ gaveup' = gaveup /\ mixed' = mixed
          /\ cl'[c].seq = cl[c].seq
      BY <2>1, <2>4 DEF CacheStays, GoesOn
    <3>2. ClientOK(c)'
      BY <2>1, <2>4, <3>1 DEF Tasks, ClientOK, GoesOn
    <3>3. \A r \in Pending : ~(r.c = c /\ Own(r))
      BY <1>7, <2>1
    <3> QED BY <1>0, <2>4, <3>1, <3>2, <3>3, MoveKeepsTasks
  <2> QED BY <2>1, <2>3, <2>4
\* It waits for the answer, gets it or gives up, and ends.
<1>11. ASSUME NEW c \in Clients, Others(c), UNCHANGED <<queue, job, events>>,
              mixed \subseteq mixed', gaveup \subseteq gaveup', ClientOK(c)',
              cl'[c].seq \in {cl[c].seq, 0},
              \A r \in Pending : r.c = c /\ Own(r) =>
                TaskOK(r)' /\ (Own(r)' => cl'[c].op = cl[c].op)
       PROVE  Tasks'
  BY <1>0, <1>11, MoveKeepsTasks
<1>12. \A c \in Clients, r \in Pending : r.c = c /\ Own(r) => TaskOK(r) /\ ClientOK(c)
  BY DEF Tasks
<1>13. ASSUME NEW c \in Clients, Timeout(c) PROVE Tasks'
  <2>1. /\ cl[c].pc = "wait" /\ cl[c].op # "kill"
        /\ \/ cl[c].op = "register" /\ Ends(c) /\ gaveup' = gaveup \cup {cl[c].seq}
           \/ cl[c].op # "register" /\ GoesOn(c, "answered") /\ UNCHANGED gaveup
        /\ mixed \subseteq mixed' /\ (cl[c].op = "modify" => "late" \in mixed')
        /\ UNCHANGED <<queue, events, job>>
    BY <1>0, <1>13, TimeoutDoes DEF CacheStays
  <2>2. ClientOK(c)
    BY DEF Tasks
  <2>3. CASE cl[c].op = "register" /\ Ends(c) /\ gaveup' = gaveup \cup {cl[c].seq}
    <3>1. ClientOK(c)' /\ cl'[c].seq = 0 /\ Others(c)
      BY <2>3, IdleFields DEF Ends, ClientOK
    <3>2. ASSUME NEW r \in Pending, r.c = c, Own(r) PROVE TaskOK(r)' /\ ~Own(r)'
      <4>1. TaskOK(r) /\ r.seq = cl[c].seq /\ r.cmd = "NEW"
        BY <2>3, <3>2 DEF Tasks, TaskOK, Own
      <4>2. ~Own(r)'
        BY <3>1, <3>2, <4>1 DEF Own, TaskOK
      <4>3. \A d \in Clients : cl'[d].seq # r.seq
        BY <3>1, <3>2, <4>1, <4>2 DEF TaskOK, Own, Others
      <4> QED BY <2>1, <2>3, <4>1, <4>2, <4>3 DEF TaskOK
    <3> QED BY <1>11, <2>1, <2>3, <3>1, <3>2
  <2>4. CASE cl[c].op # "register" /\ GoesOn(c, "answered") /\ UNCHANGED gaveup
    <3>1. ClientOK(c)' /\ cl'[c].seq = cl[c].seq /\ Others(c) /\ cl'[c].op = cl[c].op
      BY <2>1, <2>2, <2>4, IdleFields DEF GoesOn, ClientOK
    <3>2. ASSUME NEW r \in Pending, r.c = c, Own(r) PROVE TaskOK(r)'
      <4>1. TaskOK(r) /\ r.cmd # "NEW" /\ Own(r)' /\ \A d \in Clients : cl'[d].seq = cl[d].seq
        BY <2>4, <3>1, <3>2 DEF Tasks, TaskOK, Own, Others
      <4> QED BY <2>1, <2>4, <3>2, <4>1 DEF TaskOK, GoesOn, Own
    <3> QED BY <1>11, <2>1, <2>4, <3>1, <3>2
  <2> QED BY <2>1, <2>3, <2>4
<1>14. ASSUME NEW c \in Clients, Registered(c) PROVE Tasks'
  <2>1. /\ cl[c].pc = "answered" /\ cl[c].op = "register"
        /\ \/ Ends(c) /\ cl[c].uid \notin Slots
           \/ /\ Others(c) /\ cl'[c].pc = "write" /\ cl'[c].op = "register"
              /\ cl'[c].uid = cl[c].uid /\ cl[c].uid \in Slots /\ cl'[c].seq = cl[c].seq
              /\ cl'[c].copy = [id |-> passwd[cl[c].uid].id, acc |-> MAXUSERS + cl[c].seq, level |-> 1]
        /\ UNCHANGED <<queue, events, job, gaveup, mixed>>
    BY <1>0, <1>14, RegisteredDoes DEF CacheStays
  <2>2. ClientOK(c)
    BY DEF Tasks
  <2>3. ClientOK(c)' /\ cl'[c].seq \in {0, cl[c].seq} /\ Others(c)
    <3>1. CASE Ends(c)
      BY <3>1, IdleFields DEF Ends, ClientOK
    <3>2. CASE ~Ends(c)
      <4>1. cl'[c].copy.acc = MAXUSERS + cl[c].seq /\ cl'[c].copy.level = 1
        BY <2>1, <3>2
      <4>2. cl[c].seq \in 1..events'
        BY <2>1, <2>2, IdleFields DEF ClientOK
      <4> QED BY <2>1, <3>2, <4>1, <4>2 DEF ClientOK
    <3> QED BY <3>1, <3>2
  <2>4. \A r \in Pending : ~(r.c = c /\ Own(r))
    BY <1>12, <2>1 DEF TaskOK
  <2> QED BY <1>11, <2>1, <2>3, <2>4
<1>15. ASSUME NEW c \in Clients, Others(c), UNCHANGED <<queue, job, events, gaveup, mixed>>,
              cl'[c] = IdleClient \/ (cl'[c].pc = "write" /\ ClientOK(c)' /\ cl'[c].seq = cl[c].seq
                                      /\ cl'[c].uid = cl[c].uid /\ cl'[c].n2 = cl[c].n2),
              cl[c].op = "modify" => cl'[c].op \in {"modify", ""},
              cl[c].op # "modify" => cl'[c] = IdleClient,
              cl[c].pc \in {"answered", "write"}
       PROVE  Tasks'
  <2>1. ClientOK(c)' /\ cl'[c].seq \in {0, cl[c].seq}
    BY <1>15, IdleFields DEF ClientOK
  <2>2. ASSUME NEW r \in Pending, r.c = c, Own(r)
        PROVE  TaskOK(r)' /\ (Own(r)' => cl'[c].op = cl[c].op)
    <3>1. /\ TaskOK(r) /\ r.cmd # "NEW" /\ (r.cmd = "SET" => "late" \in mixed) /\ r.seq # 0
          /\ (r.cmd = "SET" => cl[c].op = "modify")
          /\ (r.cmd = "DEL" => cl[c].op # "modify")
      <4>1. TaskOK(r) /\ r.c = c /\ Own(r)
        BY <1>12, <2>2
      <4>2. r.cmd # "NEW" /\ r.seq # 0
        <5>1. cl[c].pc # "wait"
          BY <1>15
        <5>2. r.cmd # "NEW"
          BY <4>1, <5>1 DEF TaskOK
        <5>3. r.seq \in 1..events
          BY <4>1 DEF TaskOK
        <5> QED BY <1>0, <5>2, <5>3
      <4>3. (r.cmd = "SET" => cl[c].op = "modify") /\ (r.cmd = "DEL" => cl[c].op # "modify")
        BY <4>1 DEF TaskOK
      <4>4. r.cmd = "SET" => "late" \in mixed
        BY <1>15, <4>1 DEF TaskOK
      <4> QED BY <4>1, <4>2, <4>3, <4>4
    <3>2. \A d \in Clients : cl'[d].seq = r.seq => d = c
      BY <1>15, <2>2, <3>1 DEF TaskOK, Others
    <3>3. Own(r)' => cl'[c] # IdleClient /\ cl[c].op = "modify" /\ cl'[c].op = "modify"
      BY <1>15, <2>2, <3>1, IdleFields DEF Own, ClientOK
    <3> QED BY <1>15, <2>2, <3>1, <3>2, <3>3 DEF TaskOK, Own
  <2> QED BY <1>11, <1>15, <2>1, <2>2
<1>16. ASSUME NEW c \in Clients, Deleted(c) PROVE Tasks'
  BY <1>0, <1>15, <1>16, DeletedDoes DEF Ends
<1>17. ASSUME NEW c \in Clients, Modified(c) PROVE Tasks'
  <2>1. /\ cl[c].pc = "answered" /\ cl[c].op = "modify"
        /\ Others(c) /\ cl'[c].pc = "write" /\ cl'[c].op = "modify"
        /\ cl'[c].uid = cl[c].uid /\ cl'[c].n2 = cl[c].n2 /\ cl'[c].seq = cl[c].seq
        /\ cl'[c].copy.id \in {cl[c].n2, cl[c].copy.id}
        /\ UNCHANGED <<queue, events, job, gaveup, mixed>>
    BY <1>0, <1>17, ModifiedDoes DEF CacheStays
  <2>2. ClientOK(c)'
    BY <2>1 DEF Tasks, ClientOK
  <2> QED BY <1>15, <2>1, <2>2
<1>18. ASSUME NEW c \in Clients, WriteBack(c) PROVE Tasks'
  BY <1>0, <1>15, <1>18, WriteBackDoes, IdleFields DEF Ends
\* userd and killd.
<1>19. ASSUME NEW c \in Clients, Kill(c) PROVE Tasks'
  <2>0. PICK q : q = [cmd |-> "DEL", uid |-> cl[c].uid, id |-> NoName, c |-> c, seq |-> cl[c].seq]
    OBVIOUS
  <2>1. /\ cl[c].pc = "send" /\ cl[c].op = "kill" /\ Unlink(q, cl[c].uid)
        /\ UNCHANGED <<queue, events, gaveup>>
    BY <1>19, <2>0 DEF Kill
  <2>2. ClientOK(c) /\ cl[c].seq \in 1..events /\ cl[c].uid \in Slots /\ cl[c].uid \in Links
    BY <2>1, Numbers DEF Tasks, ClientOK
  <2>3. /\ q \in Requests /\ q.cmd = "DEL" /\ q.uid = cl[c].uid /\ q.id = NoName /\ q.c = c
        /\ q.seq = cl[c].seq /\ q.id \in Ids
    BY <2>0, <2>2 DEF Requests, Ids
  <2>4. \A d \in Clients : cl[d].seq = cl[c].seq => d = c
    BY <2>1 DEF Tasks, Active
  <2>5. TaskOK(q)
    BY <2>1, <2>2, <2>3, <2>4 DEF TaskOK
  <2>6. \A r \in Asked : r.seq # q.seq
    BY <2>1, <2>3 DEF Tasks, TaskOK, Own, Pending
  <2>7. Asked' = Asked /\ Distinct'
    BY <2>1 DEF Asked, Tasks, Distinct
  <2> QED BY <1>0, <2>1, <2>2, <2>3, <2>5, <2>6, <2>7, UnlinkKeepsTasks
<1>20. CASE userd
  <2>0. PICK q, uid : q = Head(queue) /\ uid = IF q.cmd = "NEW" THEN searchnewuser ELSE q.uid
    OBVIOUS
  <2>1. /\ queue # <<>> /\ queue' = Tail(queue) /\ Unlink(q, uid) /\ UNCHANGED <<events, gaveup>>
    BY <1>20, <2>0 DEF userd
  <2>2. /\ q \in Asked /\ Asked' \subseteq Asked /\ Distinct' /\ \A r \in Asked' : r.seq # q.seq
    BY <1>0, <2>0, <2>1, AskedShrinks DEF Types, Tasks
  <2>3. q \in Requests /\ TaskOK(q)
    BY <1>0, <2>0, <2>1, <2>2 DEF Types, Tasks, Pending
  <2>4. uid \in Links /\ (q.cmd # "NEW" => uid = q.uid)
    BY <2>0, <2>3, Numbers DEF IInv, ListInv, Lists, searchnewuser, Requests
  <2> QED BY <1>0, <2>1, <2>2, <2>3, <2>4, UnlinkKeepsTasks
<1>21. CASE Link
  <2>1. /\ job'.cmd = job.cmd /\ job'.uid = job.uid /\ job'.id = job.id /\ job'.c = job.c
        /\ job'.seq = job.seq /\ Running /\ UNCHANGED <<queue, cl, events, gaveup, mixed>>
    BY <1>0, <1>21 DEF Link, Types, Jobs, Running, ghosts
  <2>2. Asked' = Asked /\ Distinct' /\ \A r \in Asked' : r.seq # job'.seq
    BY <2>1 DEF Asked, Tasks, Distinct
  <2>3. \A r \in Pending' : r \in Asked \/ r = job'
    BY <2>2 DEF Pending
  <2>4. TaskOK(job) /\ \A r \in Asked : TaskOK(r)
    BY <2>1 DEF Tasks, Pending
  <2>5. \A r \in Pending' : \E q : /\ TaskOK(q) /\ r.cmd = q.cmd /\ r.uid = q.uid /\ r.id = q.id
                                   /\ r.c = q.c /\ r.seq = q.seq
    BY <2>1, <2>3, <2>4
  <2>6. events' \in Int /\ events <= events'
    BY <1>0, <2>1
  <2> QED BY <1>0, <2>1, <2>2, <2>5, <2>6, StandKeepsTasks
<1>22. CASE Name
  <2>0. PICK q : q = job
    OBVIOUS
  <2>1. Running /\ Answer(q.c, q.seq, q.uid) /\ UNCHANGED <<queue, events, gaveup, mixed>>
    BY <1>22, <2>0 DEF Name, Running, ghosts
  <2>2. ~Running'
    BY <1>22 DEF Name, Running, NoJob
  <2>3. Asked' = Asked /\ Distinct' /\ Pending' = Asked /\ Pending' \subseteq Pending
    BY <2>1, <2>2 DEF Asked, Tasks, Distinct, Pending
  <2>4. TaskOK(q) /\ \A r \in Asked : r.seq # q.seq
    BY <2>0, <2>1 DEF Tasks, Pending
  <2> QED BY <1>0, <2>1, <2>2, <2>3, <2>4, AnswerKeepsTasks
<1>23. CASE Restart
  <2>1. queue' = <<>> /\ job' = NoJob /\ cl' = [c \in Clients |-> IdleClient]
    BY <1>23 DEF Restart
  <2>2. Asked' = {} /\ Pending' = {} /\ Distinct' /\ ~Running'
    <3>1. Len(queue') = 0
      BY <2>1
    <3>2. ~Running'
      BY <2>1 DEF Running, NoJob
    <3> QED BY <3>1, <3>2 DEF Asked, Pending, Distinct
  <2>3. \A c \in Clients : ClientOK(c)' /\ ~Active(c)'
    BY <2>1, IdleFields DEF ClientOK, Active
  <2> QED BY <2>2, <2>3 DEF Tasks
<1>24. ASSUME NEW n \in Names, StartSearch(n) PROVE Tasks'
  BY <1>1, <1>24 DEF StartSearch, ghosts
<1>25. CASE Hop \/ Missed \/ flush_ucache
  BY <1>1, <1>25 DEF Hop, Missed, flush_ucache, ghosts
<1>26. ASSUME NEW c \in Clients, Die(c) PROVE Tasks'
  <2>1. /\ cl[c].pc # "idle" /\ cl[c].op # "kill" /\ Ends(c)
        /\ gaveup' = gaveup \cup {x \in {cl[c].seq} : cl[c].op = "register"}
        /\ events' = events + 1 /\ UNCHANGED <<queue, job, mixed>>
    BY <1>0, <1>26, DieDoes DEF CacheStays
  <2>2. ClientOK(c)' /\ cl'[c].seq = 0 /\ Others(c)
    BY <2>1, IdleFields DEF Ends, ClientOK
  <2>3. ASSUME NEW r \in Pending, r.c = c, Own(r) PROVE TaskOK(r)' /\ ~Own(r)'
    <3>1. TaskOK(r) /\ r.seq = cl[c].seq /\ r.seq \in 1..events /\ (r.cmd = "NEW" => r.seq \in gaveup')
      BY <2>1, <2>3 DEF Tasks, TaskOK, Own
    <3>2. ~Own(r)' /\ r.seq \in 1..events'
      BY <1>0, <2>1, <2>2, <2>3, <3>1 DEF Own
    <3>3. \A d \in Clients : cl'[d].seq # r.seq
      BY <2>2, <2>3, <3>1, <3>2 DEF TaskOK, Own, Others
    <3> QED BY <3>1, <3>2, <3>3 DEF TaskOK
  <2>4. gaveup \subseteq gaveup' /\ mixed \subseteq mixed' /\ queue' = queue
    BY <2>1
  <2> QED BY <1>0, <2>1, <2>2, <2>3, <2>4, MoveKeepsTasks
<1>27. CASE UNCHANGED vars
  BY <1>1, <1>27 DEF vars, ghosts
<1> QED
  BY <1>4, <1>5, <1>6, <1>9, <1>10, <1>13, <1>14, <1>16, <1>17, <1>18, <1>19, <1>20, <1>21,
     <1>22, <1>23, <1>24, <1>25, <1>26, <1>27 DEF Next

\* As long as no two operations overlapped, a slot is in one operation only.
Calm == "overlap" \notin mixed
Alone ==
    Calm =>
      /\ \A c, d \in Clients :
           c # d /\ Active(c) /\ Active(d) /\ cl[c].uid = cl[d].uid => cl[c].uid \notin Slots
      /\ \A r \in Asked, d \in Clients :
           r.cmd # "NEW" /\ Active(d) /\ cl[d].uid = r.uid => cl[d].seq = r.seq
      /\ \A r, q \in Asked : r # q /\ r.cmd # "NEW" /\ q.cmd # "NEW" => r.uid # q.uid
      /\ Running => \A r \in Asked : r.cmd # "NEW" => r.uid # job.uid
      /\ Running => \A d \in Clients : Active(d) /\ cl[d].uid = job.uid => cl[d].seq = job.seq

\* What the slots of requests and of the job are.
LEMMA TaskSlots ==
  ASSUME Types, Tasks
  PROVE  /\ \A r \in Asked : r.cmd # "NEW" => r.uid \in Slots
         /\ Running => job.uid \in Slots
BY DEF Tasks, TaskOK, Pending, Types, Running

\* One process goes on: with the same slot, or none, or one nobody has.
LEMMA MoveKeepsAlone ==
  ASSUME Types, Tasks, Alone, NEW c \in Clients, Others(c), mixed \subseteq mixed', UNCHANGED job,
         Active(c)' => \/ cl'[c].uid \notin Slots
                       \/ Active(c) /\ cl'[c].uid = cl[c].uid /\ cl'[c].seq = cl[c].seq
                       \/ "overlap" \in mixed' \/ ~Busy(cl'[c].uid),
         \A r \in Asked' : r \in Asked \/ r.cmd = "NEW"
  PROVE  Alone'
<1> SUFFICES ASSUME Calm' PROVE Alone'
  BY DEF Alone
<1>1. Calm /\ "overlap" \notin mixed' /\ (Running' <=> Running)
  BY DEF Calm, Running
<1>2. /\ \A r \in Asked : r.cmd # "NEW" => r.uid \in Slots
      /\ Running => job.uid \in Slots
  BY TaskSlots
<1>3. \A d \in Clients : d # c => (Active(d)' <=> Active(d)) /\ cl'[d] = cl[d]
  BY DEF Others, Active
<1>4. ASSUME Active(c)', ~Busy(cl'[c].uid)
      PROVE  /\ \A d \in Clients : Active(d) => cl[d].uid # cl'[c].uid
             /\ \A r \in Asked : r.cmd # "NEW" => r.uid # cl'[c].uid
             /\ Running => job.uid # cl'[c].uid
  BY <1>4 DEF Busy, Active, Asked, Running
<1>5. ASSUME NEW d \in Clients, d # c, Active(c)', Active(d)', cl'[c].uid = cl'[d].uid
      PROVE  cl'[c].uid \notin Slots
  BY <1>1, <1>3, <1>4, <1>5 DEF Alone
<1>6. \A x, y \in Clients :
        x # y /\ Active(x)' /\ Active(y)' /\ cl'[x].uid = cl'[y].uid => cl'[x].uid \notin Slots
  <2> SUFFICES ASSUME NEW x \in Clients, NEW y \in Clients, x # y, Active(x)', Active(y)',
                      cl'[x].uid = cl'[y].uid
               PROVE  cl'[x].uid \notin Slots
    OBVIOUS
  <2>1. CASE x = c \/ y = c
    BY <1>5, <2>1
  <2>2. CASE x # c /\ y # c
    BY <1>1, <1>3, <2>2 DEF Alone
  <2> QED BY <2>1, <2>2
<1>7. ASSUME NEW r \in Asked', NEW d \in Clients, r.cmd # "NEW", Active(d)', cl'[d].uid = r.uid
      PROVE  cl'[d].seq = r.seq
  <2>1. r \in Asked /\ r.uid \in Slots
    BY <1>2, <1>7
  <2>2. CASE d = c
    BY <1>1, <1>4, <1>7, <2>1, <2>2 DEF Alone
  <2>3. CASE d # c
    BY <1>1, <1>3, <1>7, <2>1, <2>3 DEF Alone
  <2> QED BY <2>2, <2>3
<1>8. ASSUME Running', NEW d \in Clients, Active(d)', cl'[d].uid = job'.uid
      PROVE  cl'[d].seq = job'.seq
  <2>1. CASE d = c
    BY <1>1, <1>2, <1>4, <1>8, <2>1 DEF Alone
  <2>2. CASE d # c
    BY <1>1, <1>3, <1>8, <2>2 DEF Alone
  <2> QED BY <2>1, <2>2
<1>9. /\ \A r, q \in Asked' : r # q /\ r.cmd # "NEW" /\ q.cmd # "NEW" => r.uid # q.uid
      /\ Running' => \A r \in Asked' : r.cmd # "NEW" => r.uid # job'.uid
  BY <1>1 DEF Alone
<1> QED BY <1>6, <1>7, <1>8, <1>9 DEF Alone

\* A process asks for its slot: nobody else has asked for it.
LEMMA SendKeepsAlone ==
  ASSUME Types, Tasks, Alone, NEW c \in Clients, cl[c].pc = "send", cl[c].op # "kill",
         GoesOn(c, "wait"), NEW q, q.cmd # "NEW", q.uid = cl[c].uid, q.seq = cl[c].seq,
         q.uid \in Slots,
         Asked' = Asked \cup {q}, UNCHANGED <<job, mixed>>
  PROVE  Alone'
<1> SUFFICES ASSUME Calm' PROVE Alone'
  BY DEF Alone
<1>1. Calm /\ (Running' <=> Running)
  BY DEF Calm, Running
<1>2. \A d \in Clients : (Active(d)' <=> Active(d)) /\ cl'[d].uid = cl[d].uid /\ cl'[d].seq = cl[d].seq
  BY DEF GoesOn, Others, Active
<1>3. \A r \in Pending : r.seq # cl[c].seq
  <2>1. \A r \in Pending : ~(r.c = c /\ Own(r))
    BY OwnFacts
  <2> QED BY <2>1 DEF Tasks, TaskOK, Own
<1>4. Active(c)
  BY DEF Active
<1>5. \A r \in Asked : r.cmd # "NEW" => r.uid # q.uid
  BY <1>1, <1>3, <1>4 DEF Alone, Pending
<1>6. Running => q.uid # job.uid
  BY <1>1, <1>3, <1>4 DEF Alone, Pending
<1>7. \A d \in Clients : Active(d) /\ cl[d].uid = q.uid => cl[d].seq = q.seq
  BY <1>1, <1>4 DEF Alone
<1> QED BY <1>1, <1>2, <1>5, <1>6, <1>7 DEF Alone

\* A job begins: nobody else has its slot.
LEMMA JobKeepsAlone ==
  ASSUME Types, Tasks, Alone, cl' = cl, mixed \subseteq mixed', Asked' \subseteq Asked,
         Calm' => /\ \A r \in Asked' : r.cmd # "NEW" => r.uid # job'.uid
                  /\ \A d \in Clients : Active(d) /\ cl[d].uid = job'.uid => cl[d].seq = job'.seq
  PROVE  Alone'
BY DEF Alone, Calm, Active

\* An answer: a registration gets the slot of the job.
LEMMA AnswerKeepsAlone ==
  ASSUME Types, Tasks, Alone, NEW q, q.c \in Clients, NEW uid, Answer(q.c, q.seq, uid),
         mixed \subseteq mixed', Asked' \subseteq Asked, ~Running',
         uid \notin Slots \/ (Running /\ uid = job.uid /\ q = job)
  PROVE  Alone'
<1> SUFFICES ASSUME Calm' PROVE Alone'
  BY DEF Alone
<1>1. Calm
  BY DEF Calm
<1>2. CASE cl' = cl
  BY <1>1, <1>2 DEF Alone, Active
<1>3. CASE /\ cl[q.c].seq = q.seq /\ (cl[q.c].pc = "wait" \/ cl[q.c].op = "kill")
           /\ Others(q.c) /\ cl'[q.c].pc = "answered" /\ cl'[q.c].op = cl[q.c].op
           /\ cl'[q.c].uid = IF cl[q.c].op = "register" THEN uid ELSE cl[q.c].uid
           /\ cl'[q.c].n2 = cl[q.c].n2 /\ cl'[q.c].copy = cl[q.c].copy /\ cl'[q.c].seq = q.seq
  <2>1. \A d \in Clients : Active(d)' <=> Active(d)
    <3>1. Active(q.c)
      BY <1>3, IdleFields DEF Tasks, ClientOK, Active
    <3> QED BY <1>3, <3>1 DEF Active, Others
  <2>2. \A d \in Clients : cl'[d].seq = cl[d].seq /\ (d # q.c => cl'[d].uid = cl[d].uid)
    BY <1>3 DEF Others
  <2>3. cl'[q.c].uid = cl[q.c].uid \/ cl'[q.c].uid \notin Slots
        \/ (Running /\ cl'[q.c].uid = job.uid /\ q.seq = job.seq)
    BY <1>3
  <2>4. Running => /\ \A d \in Clients : d # q.c /\ Active(d) /\ q.seq = job.seq => cl[d].uid # job.uid
                   /\ \A r \in Asked : r.cmd # "NEW" => r.uid # job.uid
    BY <1>1, <1>3 DEF Alone, Tasks
  <2>5. \A r \in Asked : r.cmd # "NEW" => r.uid \in Slots
    BY TaskSlots
  <2>6. \A x, y \in Clients :
          x # y /\ Active(x)' /\ Active(y)' /\ cl'[x].uid = cl'[y].uid => cl'[x].uid \notin Slots
    BY <1>1, <2>1, <2>2, <2>3, <2>4 DEF Alone
  <2>7. \A r \in Asked', d \in Clients :
          r.cmd # "NEW" /\ Active(d)' /\ cl'[d].uid = r.uid => cl'[d].seq = r.seq
    BY <1>1, <2>1, <2>2, <2>3, <2>4, <2>5 DEF Alone
  <2>8. \A r, s \in Asked' : r # s /\ r.cmd # "NEW" /\ s.cmd # "NEW" => r.uid # s.uid
    BY <1>1 DEF Alone
  <2> QED BY <2>6, <2>7, <2>8 DEF Alone
<1> QED BY <1>2, <1>3, AnswerDoes

LEMMA InitAlone == Init => Alone
<1> SUFFICES ASSUME Init PROVE Alone
  OBVIOUS
<1>1. queue = <<>> /\ job = NoJob /\ cl = [c \in Clients |-> IdleClient]
  BY DEF Init
<1>2. Asked = {} /\ ~Running
  <2>1. Len(queue) = 0
    BY <1>1
  <2>2. ~Running
    BY <1>1 DEF Running, NoJob
  <2> QED BY <2>1, <2>2 DEF Asked
<1>3. \A c \in Clients : ~Active(c)
  BY <1>1, IdleFields DEF Active
<1> QED BY <1>2, <1>3 DEF Alone

\* Unlink: a registration takes a slot of nobody, or the overlap is noted.
LEMMA UnlinkKeepsAlone ==
  ASSUME Types, Tasks, Alone, NEW q \in Requests, TaskOK(q), NEW uid \in Links, Unlink(q, uid),
         Asked' \subseteq Asked, \A r \in Asked' : r.seq # q.seq,
         q.cmd # "NEW" => /\ uid = q.uid
                          /\ Calm => /\ \A r \in Asked' : r.cmd # "NEW" => r.uid # uid
                                     /\ \A d \in Clients : Active(d) /\ cl[d].uid = uid => cl[d].seq = q.seq
  PROVE  Alone'
<1>1. /\ job.step = "none" /\ mixed \subseteq mixed'
      /\ q.cmd = "NEW" /\ uid # 0 => Overlap(uid) \subseteq mixed'
  BY DEF Unlink
<1>2. CASE Refused(q)
  <2>1. ~Running' /\ Answer(q.c, q.seq, IF q.cmd = "NEW" THEN -1 ELSE 0)
    BY <1>1, <1>2 DEF Refused, Running
  <2>2. (IF q.cmd = "NEW" THEN -1 ELSE 0) \notin Slots
    BY Numbers DEF Slots
  <2>3. q.c \in Clients
    BY DEF Requests
  <2> QED BY <1>1, <2>1, <2>2, <2>3, AnswerKeepsAlone
<1>3. CASE TakenOut(q, uid)
  <2>1. job'.uid = uid /\ job'.seq = q.seq /\ cl' = cl /\ uid # 0
    BY <1>3, Numbers DEF TakenOut
  <2>2. Calm' => Calm
    BY <1>1 DEF Calm
  <2>3. CASE q.cmd # "NEW"
    BY <1>1, <2>1, <2>2, <2>3, JobKeepsAlone
  <2>4. CASE q.cmd = "NEW"
    <3>1. Calm' => ~Busy(uid)
      BY <1>1, <2>1, <2>4 DEF Calm, Overlap
    <3>2. ~Busy(uid) => /\ \A r \in Asked : r.cmd # "NEW" => r.uid # uid
                        /\ \A d \in Clients : Active(d) => cl[d].uid # uid
      BY DEF Busy, Active, Asked
    <3> QED BY <1>1, <2>1, <3>1, <3>2, JobKeepsAlone
  <2> QED BY <2>3, <2>4
<1> QED BY <1>2, <1>3, UnlinkCases

LEMMA StepAlone ==
  ASSUME IInv, Tasks, Alone, [Next]_vars
  PROVE  Alone'
<1>0. Types /\ events \in Nat /\ queue \in Seq(Requests)
  BY DEF IInv, Types
<1>1. ASSUME UNCHANGED <<queue, job, cl>>, mixed \subseteq mixed'
      PROVE  Alone'
  <2>1. Asked' = Asked /\ (Running' <=> Running)
    BY <1>1 DEF Asked, Running
  <2> QED BY <1>1, <2>1 DEF Alone, Calm, Active
<1>2. ASSUME queue' = queue PROVE Asked' = Asked
  BY <1>2 DEF Asked
\* A process with the same slot, or without one.
<1>3. ASSUME NEW c \in Clients, UNCHANGED <<queue, job>>, mixed \subseteq mixed',
             \/ Ends(c)
             \/ Others(c) /\ cl'[c].uid = cl[c].uid /\ cl'[c].seq = cl[c].seq /\ cl[c].pc # "idle"
      PROVE  Alone'
  <2>1. Others(c) /\ (Active(c)' => Active(c) /\ cl'[c].uid = cl[c].uid /\ cl'[c].seq = cl[c].seq)
    BY <1>3, IdleFields DEF Ends, Active
  <2> QED BY <1>0, <1>2, <1>3, <2>1, MoveKeepsAlone
<1>4. ASSUME NEW c \in Clients, NEW n \in Names, Register(c, n) PROVE Alone'
  <2>0. PICK s : s = [cmd |-> "NEW", uid |-> 0, id |-> n, c |-> c, seq |-> events + 1]
    OBVIOUS
  <2>1. /\ Others(c) /\ cl'[c].uid = 0 /\ queue' = Append(queue, s)
        /\ job' = job /\ UNCHANGED mixed
    BY <1>0, <1>4, <2>0, RegisterDoes DEF CacheStays
  <2>2. s \in Requests /\ s.cmd = "NEW"
    BY <1>0, <2>0, Numbers DEF Requests, Ids
  <2>3. Asked' = Asked \cup {s}
    BY <1>0, <2>1, <2>2, AskedGrows
  <2> QED BY <1>0, <2>1, <2>2, <2>3, Numbers, MoveKeepsAlone
<1>5. ASSUME NEW c \in Clients, NEW n \in Names, NEW op \in {"delete", "kill"}, Delete(c, n, op)
      PROVE  Alone'
  <2>1. /\ Others(c) /\ cl'[c].uid = searchuser(n) /\ queue' = queue /\ job' = job
        /\ mixed' = mixed \cup Overlap(searchuser(n))
    BY <1>5, DeleteDoes DEF CacheStays
  <2> QED BY <1>0, <1>2, <2>1, MoveKeepsAlone DEF Overlap
<1>6. ASSUME NEW c \in Clients, NEW n \in Names, NEW n2 \in Names, Modify(c, n, n2) PROVE Alone'
  <2>1. /\ Others(c) /\ cl'[c].uid = searchuser(n) /\ queue' = queue /\ job' = job
        /\ mixed' = mixed \cup Overlap(searchuser(n))
    BY <1>6, ModifyDoes DEF CacheStays
  <2> QED BY <1>0, <1>2, <2>1, MoveKeepsAlone DEF Overlap
<1>7. ASSUME NEW c \in Clients, SendDel(c) PROVE Alone'
  <2>0. PICK s : s = [cmd |-> "DEL", uid |-> cl[c].uid, id |-> NoName, c |-> c, seq |-> cl[c].seq]
    OBVIOUS
  <2>1. /\ cl[c].pc = "send" /\ cl[c].op = "delete" /\ GoesOn(c, "wait") /\ queue' = Append(queue, s)
        /\ UNCHANGED <<job, mixed>>
    BY <1>0, <1>7, <2>0, SendDelDoes DEF CacheStays
  <2>2. s \in Requests /\ s.seq = cl[c].seq /\ s.uid = cl[c].uid /\ s.cmd = "DEL" /\ s.uid \in Slots
    BY <1>0, <2>0, <2>1, Numbers DEF Requests, Types, Ids, ClientStates
  <2>3. Asked' = Asked \cup {s}
    BY <1>0, <2>1, <2>2, AskedGrows
  <2> QED BY <1>0, <2>1, <2>2, <2>3, SendKeepsAlone
<1>8. ASSUME NEW c \in Clients, SendSet(c) PROVE Alone'
  <2>0. PICK s : s = [cmd |-> "SET", uid |-> cl[c].uid, id |-> cl[c].n2, c |-> c, seq |-> cl[c].seq]
    OBVIOUS
  <2>1. /\ cl[c].pc = "send" /\ cl[c].op = "modify"
        /\ \/ GoesOn(c, "wait") /\ queue' = Append(queue, s)
           \/ GoesOn(c, "write") /\ UNCHANGED queue
        /\ UNCHANGED <<job, mixed>>
    BY <1>0, <1>8, <2>0, SendSetDoes DEF CacheStays
  <2>2. s \in Requests /\ s.seq = cl[c].seq /\ s.uid = cl[c].uid /\ s.cmd = "SET" /\ s.uid \in Slots
    BY <1>0, <2>0, <2>1, Numbers DEF Requests, Types, Ids, ClientStates
  <2>3. CASE GoesOn(c, "wait") /\ queue' = Append(queue, s)
    <3>1. Asked' = Asked \cup {s}
      BY <1>0, <2>2, <2>3, AskedGrows
    <3> QED BY <1>0, <2>1, <2>2, <2>3, <3>1, SendKeepsAlone
  <2>4. CASE GoesOn(c, "write") /\ UNCHANGED queue
    BY <1>3, <2>1, <2>4 DEF GoesOn
  <2> QED BY <2>1, <2>3, <2>4
<1>9. ASSUME NEW c \in Clients, Timeout(c) PROVE Alone'
  <2>1. /\ cl[c].pc = "wait" /\ (Ends(c) \/ GoesOn(c, "answered"))
        /\ mixed \subseteq mixed' /\ UNCHANGED <<queue, job>>
    BY <1>0, <1>9, TimeoutDoes DEF CacheStays
  <2> QED BY <1>3, <2>1 DEF GoesOn
<1>10. ASSUME NEW c \in Clients, Registered(c) PROVE Alone'
  <2>1. /\ cl[c].pc = "answered"
        /\ \/ Ends(c)
           \/ Others(c) /\ cl'[c].uid = cl[c].uid /\ cl'[c].seq = cl[c].seq
        /\ UNCHANGED <<queue, job, mixed>>
    BY <1>0, <1>10, RegisteredDoes DEF CacheStays
  <2> QED BY <1>3, <2>1
<1>11. ASSUME NEW c \in Clients, Deleted(c) \/ WriteBack(c) PROVE Alone'
  <2>1. Ends(c) /\ UNCHANGED <<queue, job, mixed>>
    BY <1>0, <1>11, DeletedDoes, WriteBackDoes
  <2> QED BY <1>3, <2>1
<1>12. ASSUME NEW c \in Clients, Modified(c) PROVE Alone'
  <2>1. /\ cl[c].pc = "answered" /\ Others(c) /\ cl'[c].uid = cl[c].uid /\ cl'[c].seq = cl[c].seq
        /\ UNCHANGED <<queue, job, mixed>>
    BY <1>0, <1>12, ModifiedDoes DEF CacheStays
  <2> QED BY <1>3, <2>1
\* userd and killd.
<1>13. ASSUME NEW c \in Clients, Kill(c) PROVE Alone'
  <2>0. PICK q : q = [cmd |-> "DEL", uid |-> cl[c].uid, id |-> NoName, c |-> c, seq |-> cl[c].seq]
    OBVIOUS
  <2>1. /\ cl[c].pc = "send" /\ cl[c].op = "kill" /\ Unlink(q, cl[c].uid) /\ UNCHANGED queue
    BY <1>13, <2>0 DEF Kill
  <2>2. ClientOK(c) /\ cl[c].seq \in 1..events /\ cl[c].uid \in Slots /\ cl[c].uid \in Links
    BY <2>1, Numbers DEF Tasks, ClientOK
  <2>3. /\ q \in Requests /\ q.cmd = "DEL" /\ q.uid = cl[c].uid /\ q.id = NoName /\ q.c = c
        /\ q.seq = cl[c].seq /\ q.id \in Ids
    BY <2>0, <2>2 DEF Requests, Ids
  <2>4. \A d \in Clients : cl[d].seq = cl[c].seq => d = c
    BY <2>1 DEF Tasks, Active
  <2>5. TaskOK(q)
    BY <2>1, <2>2, <2>3, <2>4 DEF TaskOK
  <2>6. \A r \in Asked : r.seq # q.seq
    BY <2>1, <2>3 DEF Tasks, TaskOK, Own, Pending
  <2>7. Asked' = Asked /\ Active(c)
    BY <2>1 DEF Asked, Active
  <2>8. Calm => /\ \A r \in Asked : r.cmd # "NEW" => r.uid # cl[c].uid
                /\ \A d \in Clients : Active(d) /\ cl[d].uid = cl[c].uid => cl[d].seq = q.seq
    BY <2>2, <2>3, <2>6, <2>7 DEF Alone
  <2> QED BY <1>0, <2>1, <2>2, <2>3, <2>5, <2>6, <2>7, <2>8, UnlinkKeepsAlone
<1>14. CASE userd
  <2>0. PICK q, uid : q = Head(queue) /\ uid = IF q.cmd = "NEW" THEN searchnewuser ELSE q.uid
    OBVIOUS
  <2>1. queue # <<>> /\ queue' = Tail(queue) /\ Unlink(q, uid)
    BY <1>14, <2>0 DEF userd
  <2>2. /\ q \in Asked /\ Asked' \subseteq Asked /\ \A r \in Asked' : r.seq # q.seq
    BY <1>0, <2>0, <2>1, AskedShrinks DEF Types, Tasks
  <2>3. q \in Requests /\ TaskOK(q)
    BY <1>0, <2>0, <2>1, <2>2 DEF Types, Tasks, Pending
  <2>4. uid \in Links /\ (q.cmd # "NEW" => uid = q.uid)
    BY <2>0, <2>3, Numbers DEF IInv, ListInv, Lists, searchnewuser, Requests
  <2>5. q.cmd # "NEW" /\ Calm => /\ \A r \in Asked' : r.cmd # "NEW" => r.uid # uid
                                 /\ \A d \in Clients : Active(d) /\ cl[d].uid = uid => cl[d].seq = q.seq
    BY <2>2, <2>4 DEF Alone
  <2> QED BY <1>0, <2>1, <2>2, <2>3, <2>4, <2>5, UnlinkKeepsAlone
<1>15. CASE Link
  <2>1. job'.uid = job.uid /\ job'.seq = job.seq /\ Running /\ UNCHANGED <<queue, cl, mixed>>
    BY <1>0, <1>15 DEF Link, Types, Jobs, Running, ghosts
  <2>2. Asked' = Asked
    BY <1>2, <2>1
  <2> QED BY <1>0, <2>1, <2>2, JobKeepsAlone DEF Alone, Calm
<1>16. CASE Name
  <2>0. PICK q : q = job
    OBVIOUS
  <2>1. Running /\ Answer(q.c, q.seq, q.uid) /\ UNCHANGED <<queue, mixed>> /\ ~Running'
    BY <1>16, <2>0 DEF Name, Running, ghosts, NoJob
  <2>2. q.c \in Clients /\ Asked' = Asked
    BY <1>0, <1>2, <2>0, <2>1 DEF Types, Running
  <2> QED BY <1>0, <2>0, <2>1, <2>2, AnswerKeepsAlone
<1>17. CASE Restart
  <2>1. queue' = <<>> /\ job' = NoJob /\ cl' = [c \in Clients |-> IdleClient]
    BY <1>17 DEF Restart
  <2>2. Asked' = {} /\ ~Running'
    <3>1. Len(queue') = 0
      BY <2>1
    <3>2. ~Running'
      BY <2>1 DEF Running, NoJob
    <3> QED BY <3>1, <3>2 DEF Asked
  <2>3. \A c \in Clients : ~Active(c)'
    BY <2>1, IdleFields DEF Active
  <2> QED BY <2>2, <2>3 DEF Alone
<1>18. ASSUME NEW n \in Names, StartSearch(n) PROVE Alone'
  BY <1>1, <1>18 DEF StartSearch, ghosts
<1>19. CASE Hop \/ Missed \/ flush_ucache
  BY <1>1, <1>19 DEF Hop, Missed, flush_ucache, ghosts
<1>20. ASSUME NEW c \in Clients, Die(c) PROVE Alone'
  <2>1. Ends(c) /\ UNCHANGED <<queue, job, mixed>>
    BY <1>0, <1>20, DieDoes DEF CacheStays
  <2> QED BY <1>3, <2>1
<1>21. CASE UNCHANGED vars
  BY <1>1, <1>21 DEF vars, ghosts
<1> QED
  BY <1>4, <1>5, <1>6, <1>7, <1>8, <1>9, <1>10, <1>11, <1>12, <1>13, <1>14, <1>15, <1>16,
     <1>17, <1>18, <1>19, <1>20, <1>21 DEF Next

-----------------------------------------------------------------------------
(* Accounts nobody has. *)

\* The account in a record is one that somebody was told of, or belongs to a
\* registration given up; a name without one is being written by its registrant.
Unmixed == mixed \subseteq {"dup"}
Known(a) == a < 0 => -a \in gaveup
Registering(u, a) == \E c \in Clients : cl[c].op = "register" /\ cl[c].uid = u /\ a = -cl[c].seq
Phantoms ==
    Unmixed =>
      /\ \A u \in Slots : passwd[u].id # NoName =>
           Known(passwd[u].acc) \/ Registering(u, passwd[u].acc)
      /\ \A c \in Clients : Known(cl[c].copy.acc)
      /\ \A c \in Clients : cl[c].op = "modify" => Known(passwd[cl[c].uid].acc)
      /\ \A r \in Asked : r.cmd = "SET" => Known(passwd[r.uid].acc)
      /\ Running /\ job.cmd = "SET" => Known(passwd[job.uid].acc)

LEMMA Unmixing ==
  ASSUME mixed \subseteq mixed', Unmixed'
  PROVE  Unmixed /\ Calm
BY DEF Unmixed, Calm

\* A process goes on that does not give its slot up, if it registers one.
LEMMA MoveKeepsPhantoms ==
  ASSUME Types, Tasks, Phantoms, NEW c \in Clients, Others(c), UNCHANGED job,
         mixed \subseteq mixed', gaveup \subseteq gaveup',
         \A u \in Slots : passwd'[u].id = passwd[u].id /\ passwd'[u].acc = passwd[u].acc,
         Unmixed' => /\ Known(cl'[c].copy.acc)
                     /\ cl'[c].op = "modify" => cl'[c].uid \in Slots /\ Known(passwd[cl'[c].uid].acc)
                     /\ cl[c].op = "register" /\ cl[c].uid \in Slots =>
                          \/ cl'[c].op = "register" /\ cl'[c].uid = cl[c].uid /\ cl'[c].seq = cl[c].seq
                          \/ cl[c].seq \in gaveup'
                     /\ \A r \in Asked' : r.cmd = "SET" =>
                          r \in Asked \/ (r.uid \in Slots /\ Known(passwd[r.uid].acc))
  PROVE  Phantoms'
<1> SUFFICES ASSUME Unmixed' PROVE Phantoms'
  BY DEF Phantoms
<1>1. Unmixed
  BY Unmixing
<1>2. \A a : a < 0 /\ -a \in gaveup => -a \in gaveup'
  OBVIOUS
<1>3. ASSUME NEW u \in Slots, NEW a, Registering(u, a) PROVE Registering(u, a)' \/ Known(a)'
  <2>1. PICK d \in Clients : cl[d].op = "register" /\ cl[d].uid = u /\ a = -cl[d].seq
    BY <1>3 DEF Registering
  <2>2. -a = cl[d].seq
    <3>1. cl[d] \in ClientStates
      BY DEF Types
    <3>2. cl[d].seq \in Int
      BY <3>1 DEF ClientStates
    <3> QED BY <2>1, <3>2
  <2> QED BY <2>1, <2>2 DEF Registering, Others, Known
<1>4. \A d \in Clients : Known(cl[d].copy.acc)'
  <2>1. \A d \in Clients : Known(cl'[d].copy.acc)
    BY <1>1 DEF Phantoms, Others
  <2> QED BY <1>2, <2>1 DEF Known
<1>5. \A d \in Clients : cl'[d].op = "modify" => cl'[d].uid \in Slots /\ Known(passwd[cl'[d].uid].acc)
  BY <1>1 DEF Phantoms, Others, Tasks, ClientOK
<1>6. \A r \in Asked' : r.cmd = "SET" => r.uid \in Slots /\ Known(passwd[r.uid].acc)
  BY <1>1, TaskSlots DEF Phantoms
<1>7. Running' /\ job'.cmd = "SET" => job'.uid \in Slots /\ Known(passwd[job'.uid].acc)
  BY <1>1, TaskSlots DEF Phantoms, Running
<1>8. \A u \in Slots : Known(passwd[u].acc) => Known(passwd[u].acc)'
  BY <1>2 DEF Known
<1>9. ASSUME NEW u \in Slots, passwd'[u].id # NoName
      PROVE  Known(passwd[u].acc)' \/ Registering(u, passwd[u].acc)'
  <2>1. PICK a : a = passwd[u].acc
    OBVIOUS
  <2>2. passwd'[u].acc = a /\ (Known(a) \/ Registering(u, a)) /\ (Known(a) => Known(a)')
    BY <1>1, <1>2, <1>9, <2>1 DEF Phantoms, Known
  <2> QED BY <1>3, <2>2
<1>10. \A d \in Clients : cl'[d].op = "modify" => Known(passwd[cl[d].uid].acc)'
  BY <1>5, <1>8
<1>11. \A r \in Asked' : r.cmd = "SET" => Known(passwd[r.uid].acc)'
  BY <1>6, <1>8
<1>12. Running' /\ job'.cmd = "SET" => Known(passwd[job.uid].acc)'
  BY <1>7, <1>8
<1> QED BY <1>4, <1>9, <1>10, <1>11, <1>12 DEF Phantoms

\* An answer: only one that registers, and had no slot, gets one.
LEMMA AnswerKeepsRegistering ==
  ASSUME Types, Tasks, NEW c \in Clients, NEW seq, NEW uid, Answer(c, seq, uid)
  PROVE  /\ \A u \in Slots : \A a : Registering(u, a) => Registering(u, a)'
         /\ \A d \in Clients : /\ cl'[d].op = cl[d].op /\ cl'[d].copy = cl[d].copy
                               /\ cl[d].op # "register" => cl'[d].uid = cl[d].uid
<1>1. ClientOK(c)
  BY DEF Tasks
<1>2. CASE cl' = cl
  BY <1>2 DEF Registering
<1>3. CASE /\ cl[c].seq = seq /\ (cl[c].pc = "wait" \/ cl[c].op = "kill")
           /\ Others(c) /\ cl'[c].pc = "answered" /\ cl'[c].op = cl[c].op
           /\ cl'[c].uid = IF cl[c].op = "register" THEN uid ELSE cl[c].uid
           /\ cl'[c].n2 = cl[c].n2 /\ cl'[c].copy = cl[c].copy /\ cl'[c].seq = seq
  <2>1. cl[c].op = "register" => cl[c].uid = 0
    BY <1>1, <1>3 DEF ClientOK
  <2>2. \A d \in Clients : d # c => cl'[d] = cl[d]
    BY <1>3 DEF Others
  <2>3. ASSUME NEW u \in Slots, NEW a, Registering(u, a) PROVE Registering(u, a)'
    <3>1. PICK d \in Clients : cl[d].op = "register" /\ cl[d].uid = u /\ a = -cl[d].seq
      BY <2>3 DEF Registering
    <3>2. d # c
      BY <2>1, <3>1, Numbers
    <3> QED BY <2>2, <3>1, <3>2 DEF Registering
  <2> QED BY <1>3, <2>2, <2>3
<1> QED BY <1>2, <1>3, AnswerDoes

\* What load_ucache makes of the records: some lose their name, so that each name is there once, in
\* the list of its key; and without a name twice in the file all others are free.
LEMMA LoadedRecords ==
  ASSUME NEW pw \in [Slots -> Record], NEW newer \in BOOLEAN, NEW s, s = load_ucache(pw, newer)
  PROVE  /\ \A u \in Slots : /\ s.pw[u].acc = pw[u].acc /\ s.pw[u].level = pw[u].level
                             /\ s.pw[u].id \in {pw[u].id, NoName}
         /\ \A u \in Slots : s.pw[u].id # NoName => u \in ListOf(s.head, s.next, ucache_hash[s.pw[u].id])
         /\ \A u, v \in Slots : u # v /\ s.pw[u].id = s.pw[v].id => s.pw[u].id = NoName
         /\ Twice(pw) = {} => \A u \in Slots : s.pw[u].id = NoName => u \in ListOf(s.head, s.next, 0)
<1>1. PICK o, r : /\ Lists(s.head, s.next, o, r) /\ Entered(s.head, s.next, o)
                  /\ Filled(MAXUSERS, s, o, pw)
  BY LoadSound
<1>2. s \in LoadState
  BY LoadSound
<1>3. \A u \in Slots : u \in 1..MAXUSERS
  BY DEF Slots
<1>4. \A k \in Keys : ListOf(s.head, s.next, k) = {u \in Slots : o[u] = k}
  BY <1>1, ListOfIs
<1>5. \A u \in Slots : s.pw[u] \in {pw[u], [pw[u] EXCEPT !.id = NoName]}
  BY <1>1 DEF Filled
<1>6. \A u \in Slots : /\ s.pw[u].acc = pw[u].acc /\ s.pw[u].level = pw[u].level
                       /\ s.pw[u].id \in {pw[u].id, NoName}
  BY <1>5 DEF Record
<1>7. \A u \in Slots : s.pw[u].id \in Ids
  BY <1>2 DEF LoadState, Record
<1>8. \A u \in Slots : ucache_hash[s.pw[u].id] \in Keys
  BY <1>7, Numbers
<1>9. \A u \in Slots : s.pw[u].id # NoName => u \in ListOf(s.head, s.next, ucache_hash[s.pw[u].id])
  BY <1>1, <1>3, <1>4, <1>8 DEF Filled
<1>10. \A u, v \in Slots : u # v /\ s.pw[u].id = s.pw[v].id => s.pw[u].id = NoName
  BY <1>1, <1>3 DEF Filled
<1>11. Twice(pw) = {} => \A u \in Slots : s.pw[u].id = NoName => u \in ListOf(s.head, s.next, 0)
  BY <1>1, <1>3, <1>4, Numbers DEF Filled
<1> QED BY <1>6, <1>9, <1>10, <1>11

\* The machine starts with the users of PASSFILE.
LEMMA InitRecords ==
  ASSUME Init
  PROVE  /\ \E newer \in BOOLEAN :
              LET s == load_ucache(file, newer)
              IN  hashhead = s.head /\ next = s.next /\ passwd = s.pw
         /\ file \in [Slots -> Record]
         /\ \A u \in Slots : /\ file[u].acc \in {0, u}
                             /\ file[u].id # NoName => file[u].acc = u /\ file[u].level = 1
         /\ accounts = Present(passwd) /\ gaveup = {} /\ mixed = Twice(file)
         /\ queue = <<>> /\ job = NoJob /\ rdr = IdleReader /\ events = 0
         /\ cl = [c \in Clients |-> IdleClient]
<1> DEFINE FileOf(names) == [i \in Slots |-> IF names[i] = NoName THEN Free
                                           ELSE [id |-> names[i], acc |-> i, level |-> 1]]
<1>1. PICK names \in FirstFiles, newer \in BOOLEAN :
        LET s == load_ucache(FileOf(names), newer) IN
        /\ hashhead = s.head /\ next = s.next /\ passwd = s.pw
        /\ file = FileOf(names) /\ accounts = Present(s.pw) /\ mixed = Twice(FileOf(names))
  BY DEF Init
<1>2. \A u \in Slots : /\ FileOf(names)[u].acc \in {0, u}
                       /\ FileOf(names)[u].id # NoName =>
                            FileOf(names)[u].acc = u /\ FileOf(names)[u].level = 1
  BY IdleFields
<1>3. file \in [Slots -> Record]
  BY InitInv DEF IInv, Types
<1> HIDE DEF FileOf
<1>4. /\ gaveup = {} /\ queue = <<>> /\ job = NoJob /\ rdr = IdleReader /\ events = 0
      /\ cl = [c \in Clients |-> IdleClient]
  BY DEF Init
<1> QED BY <1>1, <1>2, <1>3, <1>4

LEMMA InitPhantoms == Init => Phantoms
<1> SUFFICES ASSUME Init PROVE Phantoms
  OBVIOUS
<1>1. \A u \in Slots : passwd[u].acc \in {0, u}
  <2>1. PICK newer \in BOOLEAN : passwd = load_ucache(file, newer).pw
    BY InitRecords
  <2>2. \A u \in Slots : passwd[u].acc = file[u].acc
    BY <2>1, InitRecords, LoadedRecords
  <2> QED BY <2>2, InitRecords
<1>2. \A u \in Slots : Known(passwd[u].acc)
  BY <1>1, Numbers DEF Known, Slots
<1>3. Asked = {} /\ ~Running
  <2>1. queue = <<>> /\ job = NoJob
    BY InitRecords
  <2>2. Len(queue) = 0
    BY <2>1
  <2>3. ~Running
    BY <2>1 DEF Running, NoJob
  <2> QED BY <2>2, <2>3 DEF Asked
<1>4. \A c \in Clients : cl[c].op = "" /\ cl[c].copy.acc = 0
  BY InitRecords, IdleFields
<1>5. \A c \in Clients : Known(cl[c].copy.acc)
  <2>1. \A a : a = 0 => Known(a)
    BY DEF Known
  <2> QED BY <1>4, <2>1
<1> QED BY <1>2, <1>3, <1>4, <1>5 DEF Phantoms

\* userd or killd begins a change, or refuses it.
LEMMA UnlinkKeepsPhantoms ==
  ASSUME Types, Tasks, Phantoms, NEW q, q.c \in Clients, NEW uid \in Links, Unlink(q, uid),
         Asked' \subseteq Asked, UNCHANGED gaveup,
         q.cmd = "SET" => uid = q.uid /\ q \in Asked
  PROVE  Phantoms'
<1> SUFFICES ASSUME Unmixed' PROVE Phantoms'
  BY DEF Phantoms
<1>1. Unmixed /\ passwd' = passwd
  <2>1. mixed \subseteq mixed'
    BY DEF Unlink
  <2> QED BY <2>1, Unmixing, UnlinkCases
<1>2. \A a : Known(a) <=> a < 0 => -a \in gaveup'
  BY DEF Known
<1>3. /\ \A u \in Slots : \A a : Registering(u, a) => Registering(u, a)'
      /\ \A d \in Clients : /\ cl'[d].op = cl[d].op /\ cl'[d].copy = cl[d].copy
                            /\ cl[d].op # "register" => cl'[d].uid = cl[d].uid
  <2>1. CASE Refused(q)
    BY <2>1, AnswerKeepsRegistering DEF Refused
  <2>2. CASE TakenOut(q, uid)
    BY <2>2 DEF TakenOut, Registering
  <2> QED BY <2>1, <2>2, UnlinkCases
<1>4. Running' /\ job'.cmd = "SET" => Known(passwd[job'.uid].acc)
  <2>1. CASE Refused(q)
    BY <2>1, UnlinkCases DEF Refused, Running
  <2>2. CASE TakenOut(q, uid)
    <3>1. job'.uid = uid /\ job'.cmd = q.cmd
      BY <2>2 DEF TakenOut
    <3> QED BY <1>1, <3>1 DEF Phantoms
  <2> QED BY <2>1, <2>2, UnlinkCases
<1>5. /\ \A u \in Slots : passwd'[u].id # NoName =>
           Known(passwd'[u].acc) \/ Registering(u, passwd[u].acc)'
      /\ \A c \in Clients : Known(cl'[c].copy.acc)
      /\ \A c \in Clients : cl'[c].op = "modify" => Known(passwd'[cl'[c].uid].acc)
      /\ \A r \in Asked' : r.cmd = "SET" => Known(passwd'[r.uid].acc)
      /\ Running' /\ job'.cmd = "SET" => Known(passwd'[job'.uid].acc)
  BY <1>1, <1>3, <1>4 DEF Phantoms
<1> QED BY <1>5 DEF Phantoms, Known

\* The new name is there: who registers it has it, if he still waits.
LEMMA NameKeepsPhantoms ==
  ASSUME Types, Tasks, Alone, Phantoms, Name
  PROVE  Phantoms'
<1> SUFFICES ASSUME Unmixed' PROVE Phantoms'
  BY DEF Phantoms
<1>0. PICK q : q = job
  OBVIOUS
<1>1. /\ Unmixed /\ Calm /\ q.step = "name" /\ Running /\ ~Running'
      /\ Answer(q.c, q.seq, q.uid) /\ UNCHANGED <<gaveup, queue>>
  BY <1>0, Unmixing DEF Name, ghosts, Running, NoJob
<1>2. q.uid \in Slots /\ q.c \in Clients /\ TaskOK(q) /\ q.seq \in Nat
  BY <1>0, <1>1 DEF Types, Tasks, Pending, Running, TaskOK
<1>3. /\ passwd'[q.uid].acc = IF q.cmd = "NEW" THEN -q.seq ELSE passwd[q.uid].acc
      /\ \A u \in Slots : u # q.uid => passwd'[u] = passwd[u]
  <2>1. \A e \in Record : \A a, i : /\ [[e EXCEPT !.id = i] EXCEPT !.acc = a].acc = a
                                   /\ [e EXCEPT !.id = i].acc = e.acc
    BY DEF Record
  <2>2. CASE q.cmd = "NEW"
    <3>1. passwd' = [passwd EXCEPT ![q.uid] = [[Free EXCEPT !.id = q.id] EXCEPT !.acc = -q.seq]]
      BY <1>0, <2>2 DEF Name, Free
    <3> QED BY <1>2, <2>1, <2>2, <3>1, RecordFacts DEF Types
  <2>3. CASE q.cmd # "NEW"
    <3>1. passwd' = [passwd EXCEPT ![q.uid] = [passwd[q.uid] EXCEPT !.id = q.id]]
      BY <1>0, <2>3 DEF Name
    <3> QED BY <1>2, <2>1, <2>3, <3>1 DEF Types
  <2> QED BY <2>2, <2>3
<1>4. /\ \A u \in Slots : \A a : Registering(u, a) => Registering(u, a)'
      /\ \A d \in Clients : /\ cl'[d].op = cl[d].op /\ cl'[d].copy = cl[d].copy
                            /\ cl[d].op # "register" => cl'[d].uid = cl[d].uid
  BY <1>1, <1>2, AnswerKeepsRegistering
<1>5. Asked' = Asked
  BY <1>1 DEF Asked
<1>6. q.cmd = "NEW" => q.seq \in gaveup \/ Registering(q.uid, -q.seq)'
  <2>1. ASSUME q.cmd = "NEW", q.seq \notin gaveup
        PROVE  cl'[q.c].op = "register" /\ cl'[q.c].uid = q.uid /\ cl'[q.c].seq = q.seq
    <3>1. cl[q.c].seq = q.seq /\ cl[q.c].op = "register" /\ cl[q.c].pc = "wait"
      BY <1>2, <2>1 DEF TaskOK, Own
    <3> QED BY <1>1, <1>2, <3>1, AnswerDoes
  <2> QED BY <1>2, <2>1 DEF Registering
<1>7. ASSUME NEW d \in Clients, cl[d].op = "modify", q.cmd = "NEW" PROVE cl[d].uid # q.uid
  <2>1. Active(d)
    BY <1>7, IdleFields DEF Tasks, ClientOK, Active
  <2>2. cl[d].uid = q.uid => cl[d].seq = q.seq
    BY <1>0, <1>1, <2>1 DEF Alone
  <2> QED BY <1>2, <1>7, <2>2 DEF TaskOK, Own
<1>8. \A r \in Asked : r.cmd = "SET" => r.uid # q.uid /\ r.uid \in Slots
  BY <1>0, <1>1, TaskSlots DEF Alone
<1>9. \A u \in Slots : Known(passwd[u].acc) /\ (u = q.uid => q.cmd # "NEW") => Known(passwd'[u].acc)
  BY <1>3
<1>10. \A u \in Slots : passwd'[u].id # NoName =>
         Known(passwd'[u].acc) \/ Registering(u, passwd[u].acc)'
  <2>1. ASSUME NEW u \in Slots, u # q.uid, passwd'[u].id # NoName
        PROVE  Known(passwd'[u].acc) \/ Registering(u, passwd[u].acc)'
    BY <1>1, <1>3, <1>4, <2>1 DEF Phantoms
  <2>2. CASE q.cmd = "NEW"
    <3>1. -passwd'[q.uid].acc = q.seq /\ passwd'[q.uid].acc = -q.seq
      BY <1>2, <1>3, <2>2
    <3> QED BY <1>6, <2>1, <2>2, <3>1 DEF Known
  <2>3. CASE q.cmd = "SET"
    <3>1. Known(passwd[q.uid].acc)
      BY <1>0, <1>1, <2>3 DEF Phantoms
    <3> QED BY <1>9, <2>1, <2>3, <3>1
  <2>4. CASE q.cmd = "DEL"
    <3>1. passwd'[q.uid].id = NoName
      <4>1. q.id = NoName
        BY <1>2, <2>4 DEF TaskOK
      <4>2. passwd' = [passwd EXCEPT ![q.uid] = [passwd[q.uid] EXCEPT !.id = q.id]]
        BY <1>0, <2>4 DEF Name
      <4> QED BY <1>2, <4>1, <4>2 DEF Types, Record
    <3> QED BY <2>1, <3>1
  <2> QED BY <1>2, <2>2, <2>3, <2>4 DEF TaskOK
<1>11. /\ \A c \in Clients : Known(cl'[c].copy.acc)
       /\ \A c \in Clients : cl'[c].op = "modify" => Known(passwd'[cl'[c].uid].acc)
       /\ \A r \in Asked' : r.cmd = "SET" => Known(passwd'[r.uid].acc)
  <2>1. \A c \in Clients : Known(cl'[c].copy.acc)
    BY <1>1, <1>4 DEF Phantoms
  <2>2. ASSUME NEW c \in Clients, cl'[c].op = "modify" PROVE Known(passwd'[cl'[c].uid].acc)
    <3>1. cl[c].op = "modify" /\ cl'[c].uid = cl[c].uid
      BY <1>4, <2>2
    <3>2. cl[c].uid \in Slots
      BY <3>1 DEF Tasks, ClientOK
    <3> QED BY <1>1, <1>7, <1>9, <3>1, <3>2 DEF Phantoms
  <2>3. \A r \in Asked' : r.cmd = "SET" => Known(passwd'[r.uid].acc)
    BY <1>1, <1>5, <1>8, <1>9 DEF Phantoms
  <2> QED BY <2>1, <2>2, <2>3
<1> QED BY <1>1, <1>10, <1>11 DEF Phantoms, Known

LEMMA StepPhantoms ==
  ASSUME IInv, Tasks, Alone, Phantoms, [Next]_vars
  PROVE  Phantoms'
<1>0. Types /\ queue \in Seq(Requests)
  BY DEF IInv, Types
<1>1. ASSUME UNCHANGED <<queue, job, cl, passwd, gaveup, mixed>> PROVE Phantoms'
  <2>1. Asked' = Asked
    BY <1>1 DEF Asked
  <2> QED BY <1>1, <2>1 DEF Phantoms, Unmixed, Known, Registering, Running
<1>2. \A c \in Clients : cl[c].pc = "idle" => cl[c].uid = 0
  BY IdleFields DEF Tasks, ClientOK
<1>3. \A c \in Clients : ClientOK(c)
  BY DEF Tasks
<1>4. Known(0)
  BY DEF Known
<1>5. \A u \in Slots : Busy(u) => Overlap(u) = {"overlap"}
  BY DEF Overlap
<1>6. ASSUME queue' = queue PROVE Asked' = Asked
  BY <1>6 DEF Asked
\* A process begins.
<1>7. ASSUME NEW c \in Clients, NEW n \in Names, Register(c, n) PROVE Phantoms'
  <2>0. PICK s : s = [cmd |-> "NEW", uid |-> 0, id |-> n, c |-> c, seq |-> events + 1]
    OBVIOUS
  <2>1. /\ cl[c].pc = "idle" /\ Others(c) /\ cl'[c].op = "register" /\ cl'[c].copy = Free
        /\ queue' = Append(queue, s) /\ UNCHANGED <<job, passwd, gaveup, mixed>>
    BY <1>0, <1>7, <2>0, RegisterDoes DEF CacheStays
  <2>2. s \in Requests /\ s.cmd = "NEW"
    BY <1>0, <2>0, Numbers DEF Requests, Ids, Types
  <2>3. Asked' = Asked \cup {s}
    BY <1>0, <2>1, <2>2, AskedGrows
  <2>4. cl[c].uid \notin Slots
    BY <1>2, <2>1, Numbers
  <2>5. \A r \in Asked' : r.cmd = "SET" => r \in Asked
    BY <2>2, <2>3
  <2> QED BY <1>0, <1>4, <2>1, <2>4, <2>5, IdleFields, MoveKeepsPhantoms
<1>8. ASSUME NEW c \in Clients, NEW n \in Names, NEW op \in {"delete", "kill"}, Delete(c, n, op)
      PROVE  Phantoms'
  <2>1. /\ cl[c].pc = "idle" /\ Others(c) /\ cl'[c].op = op /\ cl'[c].copy = Free
        /\ mixed \subseteq mixed' /\ UNCHANGED <<queue, job, passwd, gaveup>>
    BY <1>8, DeleteDoes DEF CacheStays
  <2>2. cl[c].uid \notin Slots
    BY <1>2, <2>1, Numbers
  <2>3. Asked' = Asked
    BY <1>6, <2>1
  <2> QED BY <1>0, <1>4, <2>1, <2>2, <2>3, IdleFields, MoveKeepsPhantoms
<1>9. ASSUME NEW c \in Clients, NEW n \in Names, NEW n2 \in Names, Modify(c, n, n2) PROVE Phantoms'
  <2>0. PICK u : u = searchuser(n)
    OBVIOUS
  <2>1. /\ cl[c].pc = "idle" /\ Others(c) /\ cl'[c].op = "modify" /\ cl'[c].copy = passwd[u]
        /\ cl'[c].uid = u /\ u \in Slots /\ passwd[u].id = n
        /\ mixed' = mixed \cup Overlap(u) /\ UNCHANGED <<queue, job, passwd, gaveup>>
    BY <1>9, <2>0, ModifyDoes DEF CacheStays
  <2>2. cl[c].uid \notin Slots
    BY <1>2, <2>1, Numbers
  <2>3. Asked' = Asked
    BY <1>6, <2>1
  <2>4. \A a : Registering(u, a) => Busy(u)
    <3>1. ASSUME NEW d \in Clients, cl[d].op = "register", cl[d].uid = u PROVE Busy(u)
      <4>1. cl[d].pc # "idle"
        BY <1>3, <3>1, IdleFields DEF ClientOK
      <4> QED BY <3>1, <4>1 DEF Busy
    <3> QED BY <3>1 DEF Registering
  <2>5. Unmixed' => Unmixed /\ \A a : ~Registering(u, a)
    BY <1>5, <2>1, <2>4 DEF Unmixed
  <2>6. Unmixed' => Known(passwd[u].acc)
    <3>1. passwd[u].id # NoName
      BY <2>1, UCacheAssumption
    <3> QED BY <2>1, <2>5, <3>1 DEF Phantoms
  <2>7. mixed \subseteq mixed'
    BY <2>1
  <2> QED BY <1>0, <2>1, <2>2, <2>3, <2>6, <2>7, MoveKeepsPhantoms
<1>10. ASSUME NEW c \in Clients, SendDel(c) PROVE Phantoms'
  <2>0. PICK s : s = [cmd |-> "DEL", uid |-> cl[c].uid, id |-> NoName, c |-> c, seq |-> cl[c].seq]
    OBVIOUS
  <2>1. /\ cl[c].pc = "send" /\ cl[c].op = "delete" /\ GoesOn(c, "wait") /\ queue' = Append(queue, s)
        /\ UNCHANGED <<job, mixed, passwd, gaveup>>
    BY <1>0, <1>10, <2>0, SendDelDoes DEF CacheStays
  <2>2. s \in Requests /\ s.cmd = "DEL"
    BY <1>0, <2>0, <2>1, Numbers DEF Requests, Types, Ids, ClientStates
  <2>3. Asked' = Asked \cup {s}
    BY <1>0, <2>1, <2>2, AskedGrows
  <2>4. \A r \in Asked' : r.cmd = "SET" => r \in Asked
    BY <2>2, <2>3
  <2>5. Unmixed' => Known(cl'[c].copy.acc)
    BY <2>1 DEF GoesOn, Phantoms, Unmixed
  <2> QED BY <1>0, <2>1, <2>4, <2>5, MoveKeepsPhantoms DEF GoesOn
<1>11. ASSUME NEW c \in Clients, SendSet(c) PROVE Phantoms'
  <2>0. PICK s : s = [cmd |-> "SET", uid |-> cl[c].uid, id |-> cl[c].n2, c |-> c, seq |-> cl[c].seq]
    OBVIOUS
  <2>1. /\ cl[c].pc = "send" /\ cl[c].op = "modify" /\ Others(c) /\ cl'[c].op = cl[c].op
        /\ cl'[c].uid = cl[c].uid /\ cl'[c].copy = cl[c].copy
        /\ queue' = Append(queue, s) \/ UNCHANGED queue
        /\ UNCHANGED <<job, mixed, passwd, gaveup>>
    BY <1>0, <1>11, <2>0, SendSetDoes DEF CacheStays, GoesOn
  <2>2. s \in Requests /\ s.uid = cl[c].uid /\ s.uid \in Slots
    BY <1>0, <2>0, <2>1, Numbers DEF Requests, Types, Ids, ClientStates
  <2>3. \A r \in Asked' : r \in Asked \/ r = s
    BY <1>0, <1>6, <2>1, <2>2, AskedGrows
  <2>4. Unmixed' => Known(cl[c].copy.acc) /\ Known(passwd[cl[c].uid].acc)
    BY <2>1 DEF Phantoms, Unmixed
  <2> QED BY <1>0, <2>1, <2>2, <2>3, <2>4, MoveKeepsPhantoms
<1>12. ASSUME NEW c \in Clients, Timeout(c) PROVE Phantoms'
  <2>1. /\ cl[c].pc = "wait" /\ Others(c)
        /\ \/ cl[c].op = "register" /\ Ends(c)
           \/ cl[c].op # "register" /\ GoesOn(c, "answered")
        /\ gaveup \subseteq gaveup'
        /\ mixed \subseteq mixed' /\ UNCHANGED <<queue, job, passwd>>
    BY <1>0, <1>12, TimeoutDoes DEF CacheStays, Ends, GoesOn
  <2>2. cl[c].op = "register" => cl[c].uid \notin Slots
    BY <1>3, <2>1, Numbers DEF ClientOK
  <2>3. Asked' = Asked
    BY <1>6, <2>1
  <2>4. Unmixed' => Known(cl[c].copy.acc) /\ (cl[c].op = "modify" => Known(passwd[cl[c].uid].acc))
    BY <2>1, Unmixing DEF Phantoms
  <2>5. cl[c].op = "modify" => cl[c].uid \in Slots
    BY <1>3 DEF ClientOK
  <2>6. CASE cl[c].op = "register" /\ Ends(c)
    <3>1. cl'[c].op = "" /\ cl'[c].copy.acc = 0
      BY <2>6, IdleFields DEF Ends
    <3> QED BY <1>0, <1>4, <2>1, <2>2, <2>3, <3>1, MoveKeepsPhantoms
  <2>7. CASE cl[c].op # "register" /\ GoesOn(c, "answered")
    <3>1. cl'[c].op = cl[c].op /\ cl'[c].uid = cl[c].uid /\ cl'[c].copy = cl[c].copy
      BY <2>7 DEF GoesOn
    <3>2. Unmixed' => /\ Known(cl'[c].copy.acc)
                      /\ cl'[c].op = "modify" => cl'[c].uid \in Slots /\ Known(passwd[cl'[c].uid].acc)
      BY <2>4, <2>5, <3>1
    <3> QED BY <1>0, <2>1, <2>3, <2>7, <3>2, MoveKeepsPhantoms
  <2> QED BY <2>1, <2>6, <2>7
<1>13. ASSUME NEW c \in Clients, Registered(c) PROVE Phantoms'
  <2>0. PICK v : v = [id |-> passwd[cl[c].uid].id, acc |-> MAXUSERS + cl[c].seq, level |-> 1]
    OBVIOUS
  <2>1. /\ cl[c].op = "register" /\ Others(c)
        /\ \/ Ends(c) /\ cl[c].uid \notin Slots
           \/ /\ cl'[c].op = "register" /\ cl'[c].uid = cl[c].uid /\ cl'[c].seq = cl[c].seq
              /\ cl'[c].copy = v
        /\ UNCHANGED <<queue, job, passwd, gaveup, mixed>>
    BY <1>0, <1>13, <2>0, RegisteredDoes DEF CacheStays, Ends
  <2>2. Asked' = Asked
    BY <1>6, <2>1
  <2>3. CASE Ends(c) /\ cl[c].uid \notin Slots
    <3>1. cl'[c].op = "" /\ cl'[c].copy.acc = 0
      BY <2>3, IdleFields DEF Ends
    <3> QED BY <1>0, <1>4, <2>1, <2>2, <2>3, <3>1, MoveKeepsPhantoms
  <2>4. CASE /\ cl'[c].op = "register" /\ cl'[c].uid = cl[c].uid /\ cl'[c].seq = cl[c].seq
             /\ cl'[c].copy = v
    <3>0. v.acc = MAXUSERS + cl[c].seq
      BY <2>0
    <3>1. cl[c].seq \in 1..events
      BY <1>3, <2>1, IdleFields DEF ClientOK
    <3>2. Known(MAXUSERS + cl[c].seq)
      BY <1>0, <3>1, Numbers DEF Known, Types
    <3> QED BY <1>0, <2>1, <2>2, <2>4, <3>0, <3>2, MoveKeepsPhantoms
  <2> QED BY <2>1, <2>3, <2>4
<1>14. ASSUME NEW c \in Clients, Deleted(c) PROVE Phantoms'
  <2>1. /\ cl[c].op \in {"delete", "kill"} /\ Others(c) /\ cl'[c].op = "" /\ cl'[c].copy.acc = 0
        /\ \A u \in Slots : passwd'[u].id = passwd[u].id /\ passwd'[u].acc = passwd[u].acc
        /\ UNCHANGED <<queue, job, gaveup, mixed>>
    BY <1>0, <1>14, DeletedDoes, IdleFields DEF Ends
  <2>2. Asked' = Asked
    BY <1>6, <2>1
  <2> QED BY <1>0, <1>4, <2>1, <2>2, MoveKeepsPhantoms
<1>15. ASSUME NEW c \in Clients, Modified(c) PROVE Phantoms'
  <2>1. /\ cl[c].op = "modify" /\ Others(c) /\ cl'[c].op = "modify" /\ cl'[c].uid = cl[c].uid
        /\ cl'[c].copy.acc = cl[c].copy.acc
        /\ UNCHANGED <<queue, job, passwd, gaveup, mixed>>
    BY <1>0, <1>15, ModifiedDoes DEF CacheStays
  <2>2. Asked' = Asked
    BY <1>6, <2>1
  <2>3. Unmixed' => Known(cl[c].copy.acc) /\ Known(passwd[cl[c].uid].acc)
    BY <2>1 DEF Phantoms, Unmixed
  <2>4. cl[c].uid \in Slots
    BY <1>3, <2>1 DEF ClientOK
  <2> QED BY <1>0, <2>1, <2>2, <2>3, <2>4, MoveKeepsPhantoms
<1>16. ASSUME NEW c \in Clients, WriteBack(c) PROVE Phantoms'
  <2>1. /\ cl[c].pc = "write" /\ Others(c) /\ cl'[c].op = "" /\ cl'[c].copy.acc = 0
        /\ cl[c].uid \in Slots => passwd'[cl[c].uid] = cl[c].copy
        /\ \A u \in Slots : u # cl[c].uid => passwd'[u] = passwd[u]
        /\ UNCHANGED <<queue, job, gaveup, mixed>>
    BY <1>0, <1>16, WriteBackDoes, IdleFields DEF Ends
  <2> SUFFICES ASSUME Unmixed' PROVE Phantoms'
    BY DEF Phantoms
  <2>2. Unmixed /\ Asked' = Asked
    BY <1>6, <2>1 DEF Unmixed
  <2>3. \A u \in Slots : Known(passwd[u].acc) => Known(passwd'[u].acc)
    BY <2>1, <2>2 DEF Phantoms
  <2>4. ASSUME NEW u \in Slots, passwd'[u].id # NoName
        PROVE  Known(passwd'[u].acc) \/ Registering(u, passwd[u].acc)'
    <3>1. CASE u = cl[c].uid
      BY <2>1, <2>2, <3>1 DEF Phantoms
    <3>2. CASE u # cl[c].uid
      <4>1. \A a : Registering(u, a) => Registering(u, a)'
        BY <2>1, <3>2 DEF Registering, Others
      <4> QED BY <2>1, <2>2, <2>4, <3>2, <4>1 DEF Phantoms
    <3> QED BY <3>1, <3>2
  <2>5. \A d \in Clients : Known(cl'[d].copy.acc)
    BY <1>4, <2>1, <2>2 DEF Phantoms, Others
  <2>6. \A d \in Clients : cl'[d].op = "modify" => Known(passwd'[cl'[d].uid].acc)
    BY <1>3, <2>1, <2>2, <2>3 DEF Phantoms, Others, ClientOK
  <2>7. \A r \in Asked' : r.cmd = "SET" => Known(passwd'[r.uid].acc)
    BY <1>0, <2>2, <2>3, TaskSlots DEF Phantoms
  <2>8. Running' /\ job'.cmd = "SET" => Known(passwd'[job'.uid].acc)
    BY <1>0, <2>1, <2>2, <2>3, TaskSlots DEF Phantoms, Running
  <2> QED BY <2>1, <2>4, <2>5, <2>6, <2>7, <2>8 DEF Phantoms, Known
\* userd and killd.
<1>17. ASSUME NEW c \in Clients, Kill(c) PROVE Phantoms'
  <2>0. PICK q : q = [cmd |-> "DEL", uid |-> cl[c].uid, id |-> NoName, c |-> c, seq |-> cl[c].seq]
    OBVIOUS
  <2>1. /\ cl[c].pc = "send" /\ Unlink(q, cl[c].uid) /\ UNCHANGED <<queue, gaveup>>
    BY <1>17, <2>0 DEF Kill
  <2>2. cl[c].uid \in Links /\ q.c = c /\ q.cmd = "DEL"
    BY <1>0, <2>0, <2>1, Numbers DEF Types
  <2> QED BY <1>0, <1>6, <2>1, <2>2, UnlinkKeepsPhantoms
<1>18. CASE userd
  <2>0. PICK q, uid : q = Head(queue) /\ uid = IF q.cmd = "NEW" THEN searchnewuser ELSE q.uid
    OBVIOUS
  <2>1. queue # <<>> /\ queue' = Tail(queue) /\ Unlink(q, uid) /\ UNCHANGED gaveup
    BY <1>18, <2>0 DEF userd
  <2>2. q \in Asked /\ Asked' \subseteq Asked
    BY <1>0, <2>0, <2>1, AskedShrinks DEF Types, Tasks
  <2>3. q \in Requests /\ q.c \in Clients
    <3>1. q \in Requests
      BY <1>0, <2>0, <2>1
    <3> QED BY <3>1 DEF Requests
  <2>4. uid \in Links /\ (q.cmd # "NEW" => uid = q.uid)
    BY <2>0, <2>3, Numbers DEF IInv, ListInv, Lists, searchnewuser, Requests
  <2> QED BY <1>0, <2>1, <2>2, <2>3, <2>4, UnlinkKeepsPhantoms
<1>19. CASE Link
  <2>1. /\ job'.uid = job.uid /\ job'.cmd = job.cmd /\ Running
        /\ UNCHANGED <<queue, cl, mixed, passwd, gaveup>>
    BY <1>0, <1>19 DEF Link, Types, Jobs, Running, ghosts
  <2>2. Asked' = Asked
    BY <1>6, <2>1
  <2> QED BY <2>1, <2>2 DEF Phantoms, Unmixed, Known, Registering
<1>20. CASE Name
  BY <1>0, <1>20, NameKeepsPhantoms
\* The machine starts again: who registered then was not told.
<1>21. CASE Restart
  <2>1. /\ queue' = <<>> /\ job' = NoJob /\ cl' = [c \in Clients |-> IdleClient]
        /\ gaveup' = gaveup \cup {-a : a \in Present(file)}
    BY <1>21 DEF Restart
  <2>2. Asked' = {} /\ ~Running'
    <3>1. Len(queue') = 0
      BY <2>1
    <3>2. ~Running'
      BY <2>1 DEF Running, NoJob
    <3> QED BY <3>1, <3>2 DEF Asked
  <2>3. \A c \in Clients : cl'[c].op = "" /\ cl'[c].copy.acc = 0
    BY <2>1, IdleFields
  <2>4. PICK newer \in BOOLEAN : passwd' = load_ucache(file, newer).pw
    BY <1>21 DEF Restart, Loaded
  <2>5. \A u \in Slots : passwd'[u].acc = file[u].acc /\ passwd'[u].id \in {file[u].id, NoName}
    BY <1>0, <2>4, LoadedRecords DEF Types
  <2>6. \A u \in Slots : passwd'[u].id # NoName => -passwd'[u].acc \in gaveup'
    BY <2>1, <2>5 DEF Present
  <2>7. \A c \in Clients : Known(cl[c].copy.acc)'
    <3>1. \A a : a = 0 => ~(a < 0)
      OBVIOUS
    <3> QED BY <2>3, <3>1 DEF Known
  <2> QED BY <2>2, <2>3, <2>6, <2>7 DEF Phantoms, Known
<1>22. ASSUME NEW n \in Names, StartSearch(n) PROVE Phantoms'
  BY <1>1, <1>22 DEF StartSearch, ghosts, cache
<1>23. CASE Hop \/ Missed \/ flush_ucache
  BY <1>1, <1>23 DEF Hop, Missed, flush_ucache, ghosts, cache
\* Who registers and ends has given up.
<1>24. ASSUME NEW c \in Clients, Die(c) PROVE Phantoms'
  <2>1. /\ Others(c) /\ cl'[c] = IdleClient
        /\ gaveup' = gaveup \cup {x \in {cl[c].seq} : cl[c].op = "register"}
        /\ UNCHANGED <<queue, job, passwd, mixed>>
    BY <1>0, <1>24, DieDoes DEF CacheStays, Ends
  <2>2. cl'[c].op = "" /\ cl'[c].copy.acc = 0
    BY <2>1, IdleFields
  <2>3. gaveup \subseteq gaveup' /\ (cl[c].op = "register" => cl[c].seq \in gaveup')
    BY <2>1
  <2>4. Asked' = Asked
    BY <1>6, <2>1
  <2> QED BY <1>0, <1>4, <2>1, <2>2, <2>3, <2>4, MoveKeepsPhantoms
<1>25. CASE UNCHANGED vars
  BY <1>1, <1>25 DEF vars, ghosts, cache
<1> QED
  BY <1>7, <1>8, <1>9, <1>10, <1>11, <1>12, <1>13, <1>14, <1>15, <1>16, <1>17, <1>18, <1>19,
     <1>20, <1>21, <1>22, <1>23, <1>24, <1>25 DEF Next

\* A name taken by nobody comes from a registration that did not wait for userd's answer,
\* whose process ended, or that a restart cut short; otherwise its registrant has the slot and is about to write his
\* record: as long as no two operations met on a slot and nobody was renamed too late or within
\* a hash list.
THEOREM PhantomsTimedOut == Spec => []PhantomOnlyTimeout
<1>1. Init => IInv /\ Tasks /\ Alone /\ Phantoms
  BY InitInv, InitTasks, InitAlone, InitPhantoms
<1>2. IInv /\ Tasks /\ Alone /\ Phantoms /\ [Next]_vars => (IInv /\ Tasks /\ Alone /\ Phantoms)'
  BY StepInv, StepTasks, StepAlone, StepPhantoms
<1>3. Phantoms => PhantomOnlyTimeout
  BY DEF Phantoms, PhantomOnlyTimeout, Unmixed, Known, Registering
<1> QED BY <1>1, <1>2, <1>3, PTL DEF Spec

-----------------------------------------------------------------------------
(* What leads where. *)

In(k) == ListOf(hashhead, next, k)

\* The steps of setuserid_internal: the slot leaves the list it is in, and is then in one list.
LEMMA TakenOutOf ==
  ASSUME IInv, NEW q, NEW uid, TakenOut(q, uid)
  PROVE  \A k \in Keys : In(k)' = In(k) \ {uid}
<1>1. PICK o, r : Lists(hashhead, next, o, r) /\ Entered(hashhead, next, o)
  BY DEF IInv, ListInv
<1>2. uid \in Slots
  BY DEF TakenOut
<1>3. PICK oo : oo = [o EXCEPT ![uid] = -1]
  OBVIOUS
<1>4. Lists(hashhead', next', oo, r) /\ Entered(hashhead', next', oo)
  BY <1>1, <1>3, RemoveSound DEF TakenOut
<1>5. oo[uid] = -1 /\ \A v \in Slots : v # uid => oo[v] = o[v]
  BY <1>1, <1>2, <1>3 DEF Lists
<1>6. ASSUME NEW k \in Keys PROVE In(k)' = In(k) \ {uid}
  <2>1. In(k) = {u \in Slots : o[u] = k}
    BY <1>1, ListOfIs DEF In
  <2>2. In(k)' = {u \in Slots : oo[u] = k}
    BY <1>4, ListOfIs DEF In
  <2> QED BY <1>5, <2>1, <2>2, Numbers
<1> QED BY <1>6

LEMMA LinkedInto ==
  ASSUME IInv, Link
  PROVE  /\ job.uid \in Slots /\ ucache_hash[job.id] \in Keys
         /\ \A k \in Keys : In(k)' = IF k = ucache_hash[job.id] THEN In(k) \cup {job.uid} ELSE In(k)
<1>1. PICK o, r : /\ Lists(hashhead, next, o, r) /\ Entered(hashhead, next, o)
                  /\ job.step = "link" => o[job.uid] = -1
  BY DEF IInv, ListInv
<1>2. PICK u, m : u = job.uid /\ m = ucache_hash[job.id]
  OBVIOUS
<1>3. u \in Slots /\ m \in Keys /\ o[u] = -1
  BY <1>1, <1>2, Numbers DEF Link, IInv, Types, Jobs
<1>4. hashhead' = [hashhead EXCEPT ![m] = u] /\ next' = [next EXCEPT ![u] = hashhead[m]]
  BY <1>2 DEF Link
<1>5. PICK oo : oo = [o EXCEPT ![u] = m]
  OBVIOUS
<1>6. \E rr : Lists(hashhead', next', oo, rr)
  BY <1>1, <1>3, <1>4, <1>5, PutFirst
<1>7. Entered(hashhead', next', oo)
  BY <1>1, <1>3, <1>4, <1>5, PutFirstEntered
<1>8. oo[u] = m /\ \A v \in Slots : v # u => oo[v] = o[v]
  BY <1>1, <1>3, <1>5 DEF Lists
<1>9. ASSUME NEW k \in Keys PROVE In(k)' = IF k = m THEN In(k) \cup {u} ELSE In(k)
  <2>1. In(k) = {v \in Slots : o[v] = k}
    BY <1>1, ListOfIs DEF In
  <2>2. In(k)' = {v \in Slots : oo[v] = k}
    BY <1>6, <1>7, ListOfIs DEF In
  <2> QED BY <1>3, <1>8, <2>1, <2>2, Numbers
<1> QED BY <1>2, <1>3, <1>9

\* Lists have nothing in common, and the first free slot is in that of free slots.
LEMMA OneList ==
  ASSUME IInv
  PROVE  /\ \A k, l \in Keys : k # l => In(k) \cap In(l) = {}
         /\ \A k \in Keys : In(k) \subseteq Slots
         /\ searchnewuser # 0 => searchnewuser \in In(0)
<1>1. PICK o, r : Lists(hashhead, next, o, r) /\ Entered(hashhead, next, o)
  BY DEF IInv, ListInv
<1>2. \A k \in Keys : In(k) = {u \in Slots : o[u] = k}
  BY <1>1, ListOfIs DEF In
<1>3. searchnewuser # 0 => searchnewuser \in Slots /\ o[searchnewuser] = 0
  BY <1>1, Numbers DEF Lists, searchnewuser
<1> QED BY <1>2, <1>3, Numbers

\* What searchuser finds, and that it finds something.
LEMMA FoundName ==
  ASSUME IInv, NEW n \in Names
  PROVE  /\ searchuser(n) # 0 => searchuser(n) \in Slots /\ passwd[searchuser(n)].id = n
         /\ \A u \in In(ucache_hash[n]) : passwd[u].id = n => searchuser(n) # 0
<1>1. PICK o, r : Lists(hashhead, next, o, r)
  BY DEF IInv, ListInv
<1>2. searchuser(n) # 0 => searchuser(n) \in Slots /\ passwd[searchuser(n)].id = n
  BY <1>1, SearchStays DEF searchuser, Ids
<1> QED BY <1>2, SearchFinds DEF searchuser, In

-----------------------------------------------------------------------------
(* Names and free slots. *)

Moving(u) == Running /\ job.uid = u
Ordinary == mixed \cap {"overlap", "late", "samekey"} = {}

\* The name a process has read, or will write, is that of its slot: a rename that
\* has been answered may have been made or not.
CopyOK(c) ==
    /\ cl[c].op = "modify" =>
         /\ passwd[cl[c].uid].id \in {cl[c].copy.id, cl[c].n2}
         /\ cl[c].pc # "answered" => passwd[cl[c].uid].id = cl[c].copy.id
    /\ cl[c].op = "register" /\ cl[c].pc = "write" => passwd[cl[c].uid].id = cl[c].copy.id
\* Who has been given a slot finds a name there.
NewOK(c) ==
    cl[c].op = "register" /\ cl[c].uid \in Slots =>
      passwd[cl[c].uid].id # NoName /\ (cl[c].pc = "write" => cl[c].copy.id # NoName)

Linked == job.step = "name" => job.uid \in In(ucache_hash[job.id])
Leading == \A u \in Slots : passwd[u].id # NoName /\ ~Moving(u) => u \in In(ucache_hash[passwd[u].id])
Unique == \A u, v \in Slots : u # v /\ passwd[u].id = passwd[v].id => passwd[u].id = NoName
\* The new name is nobody else's, and a new user's slot was free.
JobOK ==
    Running => /\ job.cmd # "DEL" => \A u \in Slots : u # job.uid => passwd[u].id # job.id
               /\ job.cmd = "NEW" => passwd[job.uid].id = NoName
Named == Ordinary => Leading /\ Unique /\ JobOK /\ \A c \in Clients : CopyOK(c)
Nameless ==
    /\ Calm => \A c \in Clients : NewOK(c)
    /\ Calm /\ "dup" \notin mixed =>
         \A u \in Slots : passwd[u].id = NoName /\ ~Moving(u) => u \in In(0)
NameInv == Linked /\ Named /\ Nameless

\* One process goes on, and no name changes.
LEMMA MoveKeepsNames ==
  ASSUME Types, Tasks, NameInv, NEW c \in Clients, Others(c), UNCHANGED <<hashhead, next, job>>,
         mixed \subseteq mixed', \A u \in Slots : passwd'[u].id = passwd[u].id,
         Ordinary' => CopyOK(c)', Calm' => NewOK(c)'
  PROVE  NameInv'
<1>1. \A k : In(k)' = In(k)
  BY DEF In
<1>2. (Running' <=> Running) /\ \A u : Moving(u)' <=> Moving(u)
  BY DEF Running, Moving
<1>3. (Ordinary' => Ordinary) /\ (Calm' => Calm)
  BY DEF Ordinary, Calm
<1>4. Linked'
  BY <1>1 DEF NameInv, Linked
<1>5. ASSUME Ordinary' PROVE Leading' /\ Unique' /\ JobOK'
  <2>1. Leading /\ Unique /\ JobOK
    BY <1>3, <1>5 DEF NameInv, Named
  <2>2. Leading'
    BY <1>1, <1>2, <2>1 DEF Leading
  <2>3. Unique'
    BY <2>1 DEF Unique
  <2>4. JobOK'
    BY <1>2, <2>1 DEF JobOK, Types, Running
  <2> QED BY <2>2, <2>3, <2>4
<1>6. ASSUME Ordinary', NEW d \in Clients PROVE CopyOK(d)'
  <2>1. CASE d # c
    <3>1. cl'[d] = cl[d] /\ CopyOK(d) /\ ClientOK(d)
      BY <1>3, <1>6, <2>1 DEF Others, NameInv, Named, Tasks
    <3>2. cl[d].op = "modify" \/ (cl[d].op = "register" /\ cl[d].pc = "write") => cl[d].uid \in Slots
      BY <3>1 DEF ClientOK
    <3> QED BY <3>1, <3>2 DEF CopyOK
  <2> QED BY <1>6, <2>1
<1>7. ASSUME Calm', NEW d \in Clients PROVE NewOK(d)'
  <2>1. CASE d # c
    <3>1. cl'[d] = cl[d] /\ NewOK(d)
      BY <1>3, <1>7, <2>1 DEF Others, NameInv, Nameless
    <3> QED BY <3>1 DEF NewOK
  <2> QED BY <1>7, <2>1
<1>8. Calm' /\ "dup" \notin mixed' =>
        \A u \in Slots : passwd'[u].id = NoName /\ ~Moving(u)' => u \in In(0)'
  BY <1>1, <1>2, <1>3 DEF NameInv, Nameless
<1> QED BY <1>4, <1>5, <1>6, <1>7, <1>8 DEF NameInv, Named, Nameless

\* The machine has started, or started again.
StartsFrom(pw, newer) ==
    LET s == load_ucache(pw, newer) IN
    /\ hashhead = s.head /\ next = s.next /\ passwd = s.pw
    /\ job = NoJob /\ cl = [c \in Clients |-> IdleClient] /\ Twice(pw) \subseteq mixed
Started == \E pw \in [Slots -> Record], newer \in BOOLEAN : StartsFrom(pw, newer)

LEMMA LoadedNames == Started => NameInv
<1> SUFFICES ASSUME NEW pw \in [Slots -> Record], NEW newer \in BOOLEAN, StartsFrom(pw, newer)
             PROVE  NameInv
  BY DEF Started
<1>0. job = NoJob /\ cl = [c \in Clients |-> IdleClient] /\ Twice(pw) \subseteq mixed
  BY DEF StartsFrom
<1>1. PICK s : /\ s = load_ucache(pw, newer)
               /\ hashhead = s.head /\ next = s.next /\ passwd = s.pw
  BY DEF StartsFrom
<1>2. /\ \A u \in Slots : s.pw[u].id # NoName => u \in ListOf(s.head, s.next, ucache_hash[s.pw[u].id])
      /\ \A u, v \in Slots : u # v /\ s.pw[u].id = s.pw[v].id => s.pw[u].id = NoName
      /\ Twice(pw) = {} => \A u \in Slots : s.pw[u].id = NoName => u \in ListOf(s.head, s.next, 0)
  BY <1>1, LoadedRecords
<1>3. Leading /\ Unique
  BY <1>1, <1>2 DEF Leading, Unique, In
<1>4. ~Running /\ job.step # "name"
  BY <1>0 DEF Running, NoJob
<1>5. \A c \in Clients : cl[c].op = ""
  BY <1>0, IdleFields
<1>6. \A c \in Clients : CopyOK(c) /\ NewOK(c)
  BY <1>5 DEF CopyOK, NewOK
<1>7. "dup" \notin mixed => Twice(pw) = {}
  BY <1>0 DEF Twice
<1>8. "dup" \notin mixed => \A u \in Slots : passwd[u].id = NoName => u \in In(0)
  BY <1>1, <1>2, <1>7 DEF In
<1> QED BY <1>3, <1>4, <1>6, <1>8 DEF NameInv, Linked, Named, Nameless, JobOK

LEMMA InitNames == Init => NameInv
<1> SUFFICES ASSUME Init PROVE NameInv
  OBVIOUS
<1>1. PICK newer \in BOOLEAN :
        LET s == load_ucache(file, newer)
        IN  hashhead = s.head /\ next = s.next /\ passwd = s.pw
  BY InitRecords
<1>2. StartsFrom(file, newer) /\ file \in [Slots -> Record]
  BY <1>1, InitRecords DEF StartsFrom
<1>3. Started
  BY <1>2 DEF Started
<1> QED BY <1>3, LoadedNames

\* The names stay, and the answer gives a slot to nobody.
LEMMA RefusedKeepsNames ==
  ASSUME Types, Tasks, NameInv, NEW q, q.c \in Clients, Refused(q), passwd' = passwd,
         mixed \subseteq mixed'
  PROVE  NameInv'
<1>1. PICK s : s = IF q.cmd = "NEW" THEN -1 ELSE 0
  OBVIOUS
<1>2. s \notin Slots
  BY <1>1, Numbers DEF Slots
<1>3. UNCHANGED <<hashhead, next, job>> /\ Answer(q.c, q.seq, s)
  BY <1>1 DEF Refused
<1>4. (Ordinary' => CopyOK(q.c)) /\ (Calm' => NewOK(q.c))
  BY DEF Ordinary, Calm, NameInv, Named, Nameless
<1>5. \/ /\ Others(q.c) /\ cl'[q.c].pc = "answered" /\ cl'[q.c].op = cl[q.c].op
         /\ cl'[q.c].uid = IF cl[q.c].op = "register" THEN s ELSE cl[q.c].uid
         /\ cl'[q.c].n2 = cl[q.c].n2 /\ cl'[q.c].copy = cl[q.c].copy
      \/ cl' = cl
  BY <1>3, AnswerDoes
<1>6. Others(q.c)
  BY <1>5 DEF Others
<1>7. Ordinary' => CopyOK(q.c)'
  BY <1>4, <1>5 DEF CopyOK
<1>8. Calm' => NewOK(q.c)'
  BY <1>2, <1>4, <1>5 DEF NewOK
<1> QED BY <1>3, <1>6, <1>7, <1>8, MoveKeepsNames

\* A slot is taken out: the name it will have is nobody's.
LEMMA TakenOutKeepsNames ==
  ASSUME IInv, Tasks, NameInv, NEW q, TaskOK(q), NEW uid, Unlink(q, uid), TakenOut(q, uid),
         q.cmd = "NEW" => uid = searchnewuser
  PROVE  NameInv'
<1>1. /\ job.step = "none" /\ passwd' = passwd /\ uid \in Slots /\ cl' = cl /\ ~Running
  BY UnlinkCases, Numbers DEF IInv, TakenOut, Unlink, Running
<1>2. /\ mixed \subseteq mixed'
      /\ q.cmd = "SET" /\ Ordinary' => ucache_hash[passwd[uid].id] # ucache_hash[q.id]
  BY DEF Unlink, Ordinary
<1>3. /\ job'.step = "link" /\ job'.uid = uid /\ job'.cmd = q.cmd /\ job'.id = q.id /\ Running'
  BY DEF TakenOut, Running
<1>4. \A k \in Keys : In(k)' = In(k) \ {uid}
  BY TakenOutOf
<1>5. \A u \in Slots : Moving(u)' <=> u = uid
  BY <1>3 DEF Moving
<1>6. \A u \in Slots : ~Moving(u)
  BY <1>1 DEF Moving
<1>7. (Ordinary' => Ordinary) /\ (Calm' => Calm)
  BY <1>2 DEF Ordinary, Calm
<1>8. \A u \in Slots : passwd[u].id \in Ids /\ ucache_hash[passwd[u].id] \in Keys
  BY Numbers DEF IInv, Types, Record
<1>9. ASSUME Ordinary' PROVE Leading' /\ Unique' /\ JobOK'
  <2>1. Leading /\ Unique
    BY <1>7, <1>9 DEF NameInv, Named
  <2>2. Leading'
    BY <1>1, <1>4, <1>5, <1>6, <1>8, <2>1 DEF Leading
  <2>3. Unique'
    BY <1>1, <2>1 DEF Unique
  <2>4. q.cmd = "NEW" => passwd[uid].id = NoName
    <3>1. ASSUME q.cmd = "NEW", passwd[uid].id # NoName PROVE FALSE
      <4>1. uid \in In(0)
        BY <1>1, <3>1, OneList, Numbers
      <4>2. uid \in In(ucache_hash[passwd[uid].id])
        BY <1>1, <1>6, <2>1, <3>1 DEF Leading
      <4>3. ucache_hash[passwd[uid].id] # 0
        BY <1>1, <1>8, <3>1, UCacheAssumption DEF Ids
      <4> QED BY <1>1, <1>8, <4>1, <4>2, <4>3, OneList, Numbers
    <3> QED BY <3>1
  <2>5. ASSUME q.cmd # "DEL", NEW u \in Slots, u # uid, passwd[u].id = q.id PROVE FALSE
    <3>1. q.id \in Names /\ q.cmd \in {"NEW", "SET"}
      BY <2>5 DEF TaskOK, Ids
    <3>2. ucache_hash[q.id] # 0 /\ q.id # NoName
      BY <3>1, UCacheAssumption
    <3>3. ucache_hash[q.id] # ucache_hash[passwd[uid].id]
      <4>1. CASE q.cmd = "NEW"
        <5>1. ucache_hash[NoName] = 0
          BY UCacheAssumption
        <5> QED BY <2>4, <3>2, <4>1, <5>1
      <4>2. CASE q.cmd = "SET"
        BY <1>2, <1>9, <4>2
      <4> QED BY <3>1, <4>1, <4>2
    <3>4. searchuser(q.id) = 0
      BY <3>2, <3>3 DEF TakenOut, Taken
    <3>5. u \in In(ucache_hash[q.id])
      BY <1>6, <2>1, <2>5, <3>2 DEF Leading
    <3> QED BY <2>5, <3>1, <3>4, <3>5, FoundName
  <2>6. JobOK'
    BY <1>1, <1>3, <2>4, <2>5 DEF JobOK
  <2> QED BY <2>2, <2>3, <2>6
<1>10. Linked'
  BY <1>3 DEF Linked
<1>11. Ordinary' => \A c \in Clients : CopyOK(c)'
  BY <1>1, <1>7 DEF NameInv, Named, CopyOK
<1>12. Calm' => \A c \in Clients : NewOK(c)'
  BY <1>1, <1>7 DEF NameInv, Nameless, NewOK
<1>13. Calm' /\ "dup" \notin mixed' =>
         \A u \in Slots : passwd'[u].id = NoName /\ ~Moving(u)' => u \in In(0)'
  BY <1>1, <1>2, <1>4, <1>5, <1>6, <1>7, Numbers DEF NameInv, Nameless
<1> QED BY <1>9, <1>10, <1>11, <1>12, <1>13 DEF NameInv, Named, Nameless

\* The slot comes into its new list.
LEMMA LinkKeepsNames ==
  ASSUME IInv, NameInv, Link
  PROVE  NameInv'
<1>1. /\ job'.step = "name" /\ job'.uid = job.uid /\ job'.cmd = job.cmd /\ job'.id = job.id
      /\ Running /\ Running' /\ UNCHANGED <<passwd, cl, mixed>>
  BY DEF Link, IInv, Types, Jobs, Running, ghosts
<1>2. /\ job.uid \in Slots /\ ucache_hash[job.id] \in Keys
      /\ \A k \in Keys : In(k)' = IF k = ucache_hash[job.id] THEN In(k) \cup {job.uid} ELSE In(k)
  BY LinkedInto
<1>3. \A k \in Keys : In(k) \subseteq In(k)'
  BY <1>2
<1>4. \A u : Moving(u)' <=> Moving(u)
  BY <1>1 DEF Moving
<1>5. Linked'
  BY <1>1, <1>2 DEF Linked
<1>6. \A u \in Slots : ucache_hash[passwd[u].id] \in Keys
  BY Numbers DEF IInv, Types, Record
<1>7. Leading => Leading'
  BY <1>1, <1>3, <1>4, <1>6 DEF Leading
<1>8. (Unique => Unique') /\ (JobOK => JobOK')
  BY <1>1 DEF Unique, JobOK
<1>9. \A c \in Clients : (CopyOK(c) => CopyOK(c)') /\ (NewOK(c) => NewOK(c)')
  BY <1>1 DEF CopyOK, NewOK
<1>10. (Ordinary' <=> Ordinary) /\ (Calm' <=> Calm)
  BY <1>1 DEF Ordinary, Calm
<1>11. Named'
  BY <1>7, <1>8, <1>9, <1>10 DEF NameInv, Named
<1>12. Nameless'
  BY <1>1, <1>3, <1>4, <1>9, <1>10, Numbers DEF NameInv, Nameless
<1> QED BY <1>5, <1>11, <1>12 DEF NameInv

\* What Name does to the records.
LEMMA NameDoes ==
  ASSUME Types, Name
  PROVE  /\ job.step = "name" /\ Running /\ ~Running' /\ Answer(job.c, job.seq, job.uid)
         /\ job.uid \in Slots /\ job.c \in Clients
         /\ \A u \in Slots : u # job.uid => passwd'[u] = passwd[u]
         /\ passwd'[job.uid].id = job.id
         /\ passwd'[job.uid].acc = IF job.cmd = "NEW" THEN -job.seq ELSE passwd[job.uid].acc
         /\ passwd'[job.uid].level = IF job.cmd = "NEW" THEN 0 ELSE passwd[job.uid].level
         /\ UNCHANGED <<hashhead, next, file, queue, events, accounts, gaveup, mixed>>
<1>0. PICK q : q = job
  OBVIOUS
<1>1. /\ q.step = "name" /\ Running /\ ~Running' /\ Answer(q.c, q.seq, q.uid)
      /\ UNCHANGED <<hashhead, next, file, queue, events, accounts, gaveup, mixed>>
  BY <1>0 DEF Name, Running, NoJob, ghosts
<1>2. q.uid \in Slots /\ q.c \in Clients
  BY <1>0, <1>1 DEF Types, Running
<1>3. \A e \in Record : \A a, i : /\ [[e EXCEPT !.id = i] EXCEPT !.acc = a].acc = a
                                  /\ [[e EXCEPT !.id = i] EXCEPT !.acc = a].id = i
                                  /\ [[e EXCEPT !.id = i] EXCEPT !.acc = a].level = e.level
                                  /\ [e EXCEPT !.id = i].acc = e.acc
                                  /\ [e EXCEPT !.id = i].id = i
                                  /\ [e EXCEPT !.id = i].level = e.level
  BY DEF Record
<1>4. CASE q.cmd = "NEW"
  <2>1. passwd' = [passwd EXCEPT ![q.uid] = [[Free EXCEPT !.id = q.id] EXCEPT !.acc = -q.seq]]
    BY <1>0, <1>4 DEF Name, Free
  <2>2. /\ \A u \in Slots : u # q.uid => passwd'[u] = passwd[u]
        /\ passwd'[q.uid] = [[Free EXCEPT !.id = q.id] EXCEPT !.acc = -q.seq]
    BY <1>2, <2>1 DEF Types
  <2>3. /\ passwd'[q.uid].id = q.id /\ passwd'[q.uid].acc = -q.seq
        /\ passwd'[q.uid].level = Free.level
    BY <1>3, <2>2, RecordFacts
  <2> QED BY <1>0, <1>1, <1>2, <1>4, <2>2, <2>3, IdleFields
<1>5. CASE q.cmd # "NEW"
  <2>1. passwd' = [passwd EXCEPT ![q.uid] = [passwd[q.uid] EXCEPT !.id = q.id]]
    BY <1>0, <1>5 DEF Name
  <2> QED BY <1>0, <1>1, <1>2, <1>3, <1>5, <2>1 DEF Types
<1> QED BY <1>4, <1>5

\* Whom a job concerns, as long as no two operations met on a slot.
LEMMA JobsClient ==
  ASSUME Types, Tasks, Alone, Calm, Running, NEW c \in Clients, cl[c].uid = job.uid
  PROVE  /\ c = job.c /\ cl[c].seq = job.seq
         /\ job.cmd = "SET" => /\ cl[c].op = "modify" /\ cl[c].n2 = job.id
                               /\ "late" \notin mixed => cl[c].pc = "wait"
         /\ job.cmd = "DEL" => cl[c].op \in {"delete", "kill"}
         /\ job.cmd # "NEW"
<1>1. TaskOK(job) /\ job.uid \in Slots
  BY DEF Tasks, Pending, Types, Running
<1>2. Active(c) /\ ClientOK(c)
  BY <1>1, IdleFields, Numbers DEF Active, Tasks, ClientOK
<1>3. cl[c].seq = job.seq
  BY <1>2 DEF Alone
<1>4. c = job.c /\ Own(job)
  BY <1>1, <1>3 DEF TaskOK, Own
<1>5. job.cmd = "NEW" => cl[c].uid = 0
  BY <1>1, <1>2, <1>4 DEF TaskOK, ClientOK
<1> QED BY <1>1, <1>3, <1>4, <1>5, Numbers DEF TaskOK

LEMMA NameKeepsNames ==
  ASSUME IInv, Tasks, Alone, NameInv, Name
  PROVE  NameInv'
<1>1. PICK q : q = job
  OBVIOUS
<1>2. /\ q.step = "name" /\ Running /\ ~Running' /\ Answer(q.c, q.seq, q.uid)
      /\ q.uid \in Slots /\ q.c \in Clients
      /\ \A u \in Slots : u # q.uid => passwd'[u] = passwd[u]
      /\ passwd'[q.uid].id = q.id
      /\ UNCHANGED <<hashhead, next, mixed>>
  BY <1>1, NameDoes DEF IInv
<1>3. Types /\ TaskOK(q)
  BY <1>1, <1>2 DEF IInv, Tasks, Pending
<1>4. \A k : In(k)' = In(k)
  BY <1>2 DEF In
<1>5. \A u : ~Moving(u)'
  BY <1>2 DEF Moving, Running
<1>6. \A u \in Slots : Moving(u) <=> u = q.uid
  BY <1>1, <1>2 DEF Moving
<1>7. q.uid \in In(ucache_hash[q.id])
  BY <1>1, <1>2 DEF NameInv, Linked
<1>8. (Ordinary' <=> Ordinary) /\ (Calm' <=> Calm) /\ (Ordinary => Calm /\ "late" \notin mixed)
  BY <1>2 DEF Ordinary, Calm
<1>9. Linked'
  BY <1>2 DEF Linked, Running
<1>10. ASSUME Ordinary PROVE Leading' /\ Unique' /\ JobOK'
  <2>1. Leading /\ Unique /\ JobOK
    BY <1>10 DEF NameInv, Named
  <2>2. Leading'
    BY <1>2, <1>4, <1>6, <1>7, <2>1 DEF Leading
  <2>3. ASSUME NEW u \in Slots, u # q.uid, passwd[u].id = q.id PROVE q.id = NoName
    BY <1>1, <1>2, <1>3, <2>1, <2>3 DEF JobOK, TaskOK
  <2>4. Unique'
    BY <1>2, <2>1, <2>3 DEF Unique
  <2> QED BY <1>2, <2>2, <2>4 DEF JobOK
<1>11. /\ \A d \in Clients : d # q.c => cl'[d] = cl[d]
       /\ \/ /\ cl[q.c].seq = q.seq
             /\ cl'[q.c].pc = "answered" /\ cl'[q.c].op = cl[q.c].op
             /\ cl'[q.c].uid = IF cl[q.c].op = "register" THEN q.uid ELSE cl[q.c].uid
             /\ cl'[q.c].n2 = cl[q.c].n2 /\ cl'[q.c].copy = cl[q.c].copy
          \/ /\ cl' = cl
             /\ ~(cl[q.c].seq = q.seq /\ (cl[q.c].pc = "wait" \/ cl[q.c].op = "kill"))
  <2>1. PICK seq, uid : seq = q.seq /\ uid = q.uid
    OBVIOUS
  <2>2. Answer(q.c, seq, uid)
    BY <1>2, <2>1
  <2> QED BY <1>2, <1>3, <2>1, <2>2, AnswerDoes DEF Others
<1>12. ASSUME Ordinary, NEW d \in Clients PROVE CopyOK(d)'
  <2>1. CopyOK(d) /\ ClientOK(d)
    BY <1>12 DEF NameInv, Named, Tasks
  <2>2. cl'[d].op = cl[d].op /\ cl'[d].n2 = cl[d].n2 /\ cl'[d].copy = cl[d].copy
    BY <1>11
  <2>3. CASE cl[d].uid = q.uid
    <3>1. /\ d = q.c /\ cl[d].seq = q.seq /\ q.cmd # "NEW"
          /\ q.cmd = "SET" => cl[d].op = "modify" /\ cl[d].n2 = q.id /\ cl[d].pc = "wait"
          /\ q.cmd = "DEL" => cl[d].op \in {"delete", "kill"}
      BY <1>1, <1>2, <1>3, <1>8, <1>12, <2>3, JobsClient
    <3>2. CASE q.cmd = "SET"
      <4>1. cl'[d].pc = "answered" /\ cl'[d].uid = q.uid /\ cl'[d].op = "modify" /\ cl'[d].n2 = q.id
        BY <1>11, <2>2, <2>3, <3>1, <3>2
      <4> QED BY <1>2, <4>1 DEF CopyOK
    <3>3. CASE q.cmd = "DEL"
      BY <2>2, <3>1, <3>3 DEF CopyOK
    <3> QED BY <1>3, <3>1, <3>2, <3>3 DEF TaskOK
  <2>4. CASE cl[d].uid # q.uid
    <3>1. cl[d].op = "modify" => cl'[d].uid = cl[d].uid /\ cl'[d].pc \in {cl[d].pc, "answered"}
      BY <1>11
    <3>2. cl[d].op = "modify" => cl[d].uid \in Slots /\ passwd'[cl[d].uid] = passwd[cl[d].uid]
      BY <1>2, <2>1, <2>4 DEF ClientOK
    <3>3. cl'[d].op = "register" /\ cl'[d].pc = "write" => cl'[d] = cl[d] /\ cl[d].uid \in Slots
      BY <1>11, <2>1 DEF ClientOK
    <3> QED BY <1>2, <2>1, <2>2, <2>4, <3>1, <3>2, <3>3 DEF CopyOK
  <2> QED BY <2>3, <2>4
<1>13. ASSUME Calm, NEW d \in Clients PROVE NewOK(d)'
  <2>1. NewOK(d)
    BY <1>13 DEF NameInv, Nameless
  <2>2. CASE cl'[d] = cl[d]
    <3>1. cl[d].op = "register" => cl[d].uid # q.uid
      BY <1>1, <1>2, <1>3, <1>13, JobsClient DEF TaskOK
    <3> QED BY <1>2, <2>1, <2>2, <3>1 DEF NewOK
  <2>3. CASE cl'[d] # cl[d]
    <3>1. /\ d = q.c /\ cl'[d].pc = "answered" /\ cl[d].seq = q.seq /\ cl'[d].op = cl[d].op
          /\ cl[d].op = "register" => cl'[d].uid = q.uid
      BY <1>11, <2>3
    <3>2. cl[d].op = "register" => q.id # NoName
      BY <1>3, <3>1 DEF TaskOK, Own
    <3> QED BY <1>2, <3>1, <3>2 DEF NewOK
  <2> QED BY <2>2, <2>3
<1>14. ASSUME Calm, "dup" \notin mixed, NEW u \in Slots, passwd'[u].id = NoName PROVE u \in In(0)'
  <2>1. CASE u = q.uid
    <3>1. ucache_hash[NoName] = 0
      BY UCacheAssumption
    <3> QED BY <1>2, <1>4, <1>7, <1>14, <2>1, <3>1
  <2>2. CASE u # q.uid
    BY <1>2, <1>4, <1>6, <1>14, <2>2 DEF NameInv, Nameless
  <2> QED BY <2>1, <2>2
<1>15. Nameless'
  BY <1>2, <1>8, <1>13, <1>14 DEF Nameless
<1>16. Named'
  BY <1>8, <1>10, <1>12 DEF Named
<1> QED BY <1>9, <1>15, <1>16 DEF NameInv

\* A record is written back with the name the slot has.
LEMMA WriteBackKeepsNames ==
  ASSUME Types, Tasks, Alone, NameInv, NEW c \in Clients, WriteBack(c)
  PROVE  NameInv'
<1>1. /\ cl[c].pc = "write" /\ Others(c) /\ cl'[c].op = ""
      /\ cl[c].uid \in Slots => passwd'[cl[c].uid] = cl[c].copy
      /\ \A u \in Slots : u # cl[c].uid => passwd'[u] = passwd[u]
      /\ UNCHANGED <<hashhead, next, job, mixed>>
  BY WriteBackDoes, IdleFields DEF Ends
<1>2. /\ cl[c].op \in {"register", "modify"} /\ cl[c].uid \in Slots
      /\ cl[c].op = "modify" => cl[c].copy.id # NoName
  <2>1. cl[c].op \in {"", "register", "delete", "kill", "modify"}
    BY DEF Types, ClientStates
  <2>2. ClientOK(c)
    BY DEF Tasks
  <2> QED BY <1>1, <2>1, <2>2, UCacheAssumption DEF ClientOK
<1>3. CopyOK(c)' /\ NewOK(c)'
  BY <1>1 DEF CopyOK, NewOK
<1>4. ASSUME Ordinary PROVE \A u \in Slots : passwd'[u].id = passwd[u].id
  <2>1. CopyOK(c)
    BY <1>4 DEF NameInv, Named
  <2>2. passwd[cl[c].uid].id = cl[c].copy.id
    BY <1>1, <1>2, <2>1 DEF CopyOK
  <2> QED BY <1>1, <1>2, <2>2
<1>5. CASE Ordinary
  BY <1>1, <1>3, <1>4, <1>5, MoveKeepsNames
<1>6. CASE ~Ordinary
  <2>1. ~Ordinary' /\ (Calm' <=> Calm)
    BY <1>1, <1>6 DEF Ordinary, Calm
  <2>2. \A k : In(k)' = In(k)
    BY <1>1 DEF In
  <2>3. \A u : Moving(u)' <=> Moving(u)
    BY <1>1 DEF Moving, Running
  <2>4. Linked'
    BY <1>1, <2>2 DEF NameInv, Linked
  <2>5. ASSUME Calm PROVE cl[c].copy.id # NoName
    <3>1. NewOK(c)
      BY <2>5 DEF NameInv, Nameless
    <3> QED BY <1>1, <1>2, <3>1 DEF NewOK
  <2>6. ASSUME Calm, NEW d \in Clients PROVE NewOK(d)'
    <3>1. CASE d = c
      BY <1>3, <3>1
    <3>2. CASE d # c
      <4>1. cl'[d] = cl[d] /\ NewOK(d)
        BY <1>1, <2>6, <3>2 DEF Others, NameInv, Nameless
      <4>2. cl[d].op = "register" => Active(d)
        BY IdleFields DEF Tasks, ClientOK, Active
      <4>3. cl[d].op = "register" => cl[d].uid # cl[c].uid
        BY <1>1, <1>2, <2>6, <3>2, <4>2 DEF Alone, Active
      <4> QED BY <1>1, <4>1, <4>3 DEF NewOK
    <3> QED BY <3>1, <3>2
  <2>7. ASSUME Calm, "dup" \notin mixed, NEW u \in Slots, passwd'[u].id = NoName, ~Moving(u)
        PROVE  u \in In(0)
    <3>1. u # cl[c].uid
      BY <1>1, <1>2, <2>5, <2>7
    <3>2. passwd[u].id = NoName
      BY <1>1, <2>7, <3>1
    <3> QED BY <2>7, <3>2 DEF NameInv, Nameless
  <2>8. Nameless'
    BY <1>1, <2>1, <2>2, <2>3, <2>6, <2>7 DEF Nameless
  <2> QED BY <2>1, <2>4, <2>8 DEF NameInv, Named
<1> QED BY <1>5, <1>6

\* The renamed process looks whether its new name leads to its slot: that is so if it was renamed.
LEMMA ModifiedKeepsCopy ==
  ASSUME IInv, Tasks, Alone, NameInv, NEW c \in Clients, Modified(c), Ordinary
  PROVE  CopyOK(c)'
<1>1. /\ cl[c].pc = "answered" /\ cl[c].op = "modify"
      /\ cl'[c].pc = "write" /\ cl'[c].op = "modify" /\ cl'[c].uid = cl[c].uid
      /\ cl'[c].n2 = cl[c].n2 /\ passwd' = passwd
      /\ cl'[c].copy.id = IF searchuser(cl[c].n2) = cl[c].uid THEN cl[c].n2 ELSE cl[c].copy.id
  BY ModifiedDoes DEF IInv, CacheStays
<1>2. PICK u, n : u = cl[c].uid /\ n = cl[c].n2
  OBVIOUS
<1>3. u \in Slots /\ n \in Names /\ Types
  BY <1>1, <1>2 DEF IInv, Tasks, ClientOK
<1>4. passwd[u].id \in {cl[c].copy.id, n}
  BY <1>1, <1>2 DEF NameInv, Named, CopyOK
<1>5. CASE searchuser(n) = u
  <2>1. passwd[u].id = n
    BY <1>3, <1>5, FoundName, Numbers
  <2> QED BY <1>1, <1>2, <1>5, <2>1 DEF CopyOK
<1>6. CASE searchuser(n) # u
  <2>1. ASSUME passwd[u].id = n PROVE FALSE
    <3>1. ~Moving(u)
      <4>1. "late" \notin mixed /\ Calm
        BY DEF Ordinary, Calm
      <4>2. ASSUME Moving(u) PROVE FALSE
        <5>1. TaskOK(job)
          BY <4>2 DEF Moving, Tasks, Pending
        <5> QED BY <1>1, <1>2, <1>3, <4>1, <4>2, <5>1, JobsClient DEF Moving, TaskOK
      <4> QED BY <4>2
    <3>2. Leading /\ Unique
      BY DEF NameInv, Named
    <3>3. n # NoName
      BY <1>3, UCacheAssumption
    <3>4. u \in In(ucache_hash[n])
      BY <1>3, <2>1, <3>1, <3>2, <3>3 DEF Leading
    <3>5. searchuser(n) \in Slots /\ passwd[searchuser(n)].id = n
      BY <1>3, <2>1, <3>4, FoundName
    <3> QED BY <1>3, <1>6, <2>1, <3>2, <3>3, <3>5 DEF Unique
  <2> QED BY <1>1, <1>2, <1>4, <1>6, <2>1 DEF CopyOK
<1> QED BY <1>5, <1>6

LEMMA StepNames ==
  ASSUME IInv, Tasks, Alone, NameInv, [Next]_vars
  PROVE  NameInv'
<1>0. Types /\ queue \in Seq(Requests)
  BY DEF IInv, Types
<1>1. ASSUME UNCHANGED <<hashhead, next, passwd, job, cl, mixed>> PROVE NameInv'
  <2>1. \A k : In(k)' = In(k)
    BY <1>1 DEF In
  <2>2. (Running' <=> Running) /\ \A u : Moving(u)' <=> Moving(u)
    BY <1>1 DEF Running, Moving
  <2>3. Linked'
    BY <1>1, <2>1 DEF NameInv, Linked
  <2>4. (Leading => Leading') /\ (Unique => Unique') /\ (JobOK => JobOK')
    BY <1>1, <2>1, <2>2 DEF Leading, Unique, JobOK
  <2>5. \A c \in Clients : (CopyOK(c) => CopyOK(c)') /\ (NewOK(c) => NewOK(c)')
    BY <1>1 DEF CopyOK, NewOK
  <2>6. (Ordinary' <=> Ordinary) /\ (Calm' <=> Calm)
    BY <1>1 DEF Ordinary, Calm
  <2>7. Named'
    BY <2>4, <2>5, <2>6 DEF NameInv, Named
  <2>8. Nameless'
    BY <1>1, <2>1, <2>2, <2>5, <2>6 DEF NameInv, Nameless
  <2> QED BY <2>3, <2>7, <2>8 DEF NameInv
\* What is left to show of a process that goes on.
<1>2. ASSUME NEW c \in Clients, Others(c), mixed \subseteq mixed',
             CacheStays \/ (UNCHANGED <<hashhead, next, job>> /\ \A u \in Slots : passwd'[u].id = passwd[u].id),
             Ordinary /\ Ordinary' /\ CopyOK(c) => CopyOK(c)',
             Calm /\ NewOK(c) => NewOK(c)'
      PROVE  NameInv'
  <2>1. (Ordinary' => Ordinary) /\ (Calm' => Calm)
    BY <1>2 DEF Ordinary, Calm
  <2>2. (Ordinary => CopyOK(c)) /\ (Calm => NewOK(c))
    BY DEF NameInv, Named, Nameless
  <2>3. UNCHANGED <<hashhead, next, job>> /\ \A u \in Slots : passwd'[u].id = passwd[u].id
    BY <1>2 DEF CacheStays
  <2> QED BY <1>0, <1>2, <2>1, <2>2, <2>3, MoveKeepsNames
<1>3. ASSUME NEW c \in Clients, Ends(c) PROVE CopyOK(c)' /\ NewOK(c)'
  BY <1>3, IdleFields DEF Ends, CopyOK, NewOK
<1>4. ASSUME NEW c \in Clients, NEW pc, GoesOn(c, pc), passwd' = passwd,
             cl[c].op # "register", cl[c].pc # "answered"
      PROVE  CopyOK(c) => CopyOK(c)'
  BY <1>4 DEF GoesOn, CopyOK
<1>5. ASSUME NEW c \in Clients, cl'[c].op # "register" PROVE NewOK(c)'
  BY <1>5 DEF NewOK
\* The processes.
<1>6. ASSUME NEW c \in Clients, NEW n \in Names, Register(c, n) PROVE NameInv'
  <2>1. /\ Others(c) /\ cl'[c].op = "register" /\ cl'[c].pc = "wait" /\ cl'[c].uid = 0
        /\ CacheStays /\ mixed \subseteq mixed'
    BY <1>0, <1>6, RegisterDoes
  <2>2. CopyOK(c)' /\ NewOK(c)'
    BY <2>1, Numbers DEF CopyOK, NewOK
  <2> QED BY <1>2, <2>1, <2>2
<1>7. ASSUME NEW c \in Clients, NEW n \in Names, NEW op \in {"delete", "kill"}, Delete(c, n, op)
      PROVE  NameInv'
  <2>1. /\ Others(c) /\ cl'[c].op = op
        /\ CacheStays /\ mixed \subseteq mixed'
    BY <1>7, DeleteDoes
  <2>2. CopyOK(c)' /\ NewOK(c)'
    BY <2>1 DEF CopyOK, NewOK
  <2> QED BY <1>2, <2>1, <2>2
<1>8. ASSUME NEW c \in Clients, NEW n \in Names, NEW n2 \in Names, Modify(c, n, n2) PROVE NameInv'
  <2>1. /\ Others(c) /\ cl'[c].op = "modify" /\ cl'[c].copy = passwd[cl'[c].uid]
        /\ CacheStays /\ mixed \subseteq mixed'
    BY <1>8, ModifyDoes
  <2>2. CopyOK(c)' /\ NewOK(c)'
    BY <2>1 DEF CopyOK, NewOK, CacheStays
  <2> QED BY <1>2, <2>1, <2>2
<1>9. ASSUME NEW c \in Clients, SendDel(c) PROVE NameInv'
  <2>1. /\ cl[c].op = "delete" /\ Others(c) /\ cl'[c].op = "delete"
        /\ CacheStays /\ mixed \subseteq mixed'
    BY <1>0, <1>9, SendDelDoes DEF GoesOn
  <2>2. CopyOK(c)' /\ NewOK(c)'
    BY <2>1 DEF CopyOK, NewOK
  <2> QED BY <1>2, <2>1, <2>2
<1>10. ASSUME NEW c \in Clients, SendSet(c) PROVE NameInv'
  <2>1. /\ cl[c].pc = "send" /\ cl[c].op = "modify" /\ (GoesOn(c, "wait") \/ GoesOn(c, "write"))
        /\ CacheStays /\ mixed \subseteq mixed'
    BY <1>0, <1>10, SendSetDoes
  <2>2. passwd' = passwd /\ Others(c) /\ cl'[c].op = "modify"
    BY <2>1 DEF GoesOn, CacheStays
  <2>3. CopyOK(c) => CopyOK(c)'
    BY <1>4, <2>1, <2>2
  <2> QED BY <1>2, <1>5, <2>1, <2>2, <2>3
<1>11. ASSUME NEW c \in Clients, Timeout(c) PROVE NameInv'
  <2>1. /\ cl[c].pc = "wait"
        /\ \/ cl[c].op = "register" /\ Ends(c)
           \/ cl[c].op # "register" /\ GoesOn(c, "answered")
        /\ mixed \subseteq mixed' /\ CacheStays
    BY <1>0, <1>11, TimeoutDoes
  <2>2. CASE Ends(c)
    <3>1. CopyOK(c)' /\ NewOK(c)' /\ Others(c)
      BY <1>3, <2>2 DEF Ends
    <3> QED BY <1>2, <2>1, <3>1
  <2>3. CASE cl[c].op # "register" /\ GoesOn(c, "answered")
    <3>1. passwd' = passwd /\ Others(c) /\ cl'[c].op # "register"
      BY <2>1, <2>3 DEF GoesOn, CacheStays
    <3>2. CopyOK(c) => CopyOK(c)'
      BY <1>4, <2>1, <2>3, <3>1
    <3> QED BY <1>2, <1>5, <2>1, <3>1, <3>2
  <2> QED BY <2>1, <2>2, <2>3
<1>12. ASSUME NEW c \in Clients, Registered(c) PROVE NameInv'
  <2>0. PICK v : v = [id |-> passwd[cl[c].uid].id, acc |-> MAXUSERS + cl[c].seq, level |-> 1]
    OBVIOUS
  <2>1. /\ cl[c].op = "register" /\ Others(c)
        /\ \/ Ends(c)
           \/ /\ cl'[c].pc = "write" /\ cl'[c].op = "register" /\ cl'[c].uid = cl[c].uid
              /\ cl'[c].copy = v
        /\ CacheStays /\ mixed \subseteq mixed'
    BY <1>0, <1>12, <2>0, RegisteredDoes DEF Ends
  <2>2. CASE Ends(c)
    BY <1>2, <1>3, <2>1, <2>2
  <2>3. CASE /\ cl'[c].pc = "write" /\ cl'[c].op = "register" /\ cl'[c].uid = cl[c].uid
             /\ cl'[c].copy = v
    <3>1. v.id = passwd[cl[c].uid].id
      BY <2>0
    <3>2. CopyOK(c)' /\ (NewOK(c) => NewOK(c)')
      BY <2>1, <2>3, <3>1 DEF CopyOK, NewOK, CacheStays
    <3> QED BY <1>2, <2>1, <3>2
  <2> QED BY <2>1, <2>2, <2>3
<1>13. ASSUME NEW c \in Clients, Deleted(c) PROVE NameInv'
  <2>1. /\ Ends(c) /\ \A u \in Slots : passwd'[u].id = passwd[u].id
        /\ UNCHANGED <<hashhead, next, job, mixed>>
    BY <1>0, <1>13, DeletedDoes
  <2>2. Others(c) /\ CopyOK(c)' /\ NewOK(c)'
    BY <1>3, <2>1 DEF Ends
  <2> QED BY <1>2, <2>1, <2>2
<1>14. ASSUME NEW c \in Clients, Modified(c) PROVE NameInv'
  <2>1. Others(c) /\ cl'[c].op = "modify" /\ CacheStays /\ mixed \subseteq mixed'
    BY <1>0, <1>14, ModifiedDoes
  <2>2. Ordinary => CopyOK(c)'
    BY <1>14, ModifiedKeepsCopy
  <2> QED BY <1>2, <1>5, <2>1, <2>2
<1>15. ASSUME NEW c \in Clients, WriteBack(c) PROVE NameInv'
  BY <1>0, <1>15, WriteBackKeepsNames
\* userd and killd.
<1>16. ASSUME NEW q, TaskOK(q), NEW uid \in Links, Unlink(q, uid), q.cmd = "NEW" => uid = searchnewuser
      PROVE  NameInv'
  <2>1. passwd' = passwd /\ (Refused(q) \/ TakenOut(q, uid)) /\ mixed \subseteq mixed'
    BY <1>0, <1>16, UnlinkCases DEF Unlink
  <2>2. CASE Refused(q)
    BY <1>0, <1>16, <2>1, <2>2, RefusedKeepsNames DEF TaskOK
  <2>3. CASE TakenOut(q, uid)
    BY <1>16, <2>3, TakenOutKeepsNames
  <2> QED BY <2>1, <2>2, <2>3
<1>17. ASSUME NEW c \in Clients, Kill(c) PROVE NameInv'
  <2>0. PICK q : q = [cmd |-> "DEL", uid |-> cl[c].uid, id |-> NoName, c |-> c, seq |-> cl[c].seq]
    OBVIOUS
  <2>1. /\ cl[c].pc = "send" /\ cl[c].op = "kill" /\ Unlink(q, cl[c].uid)
    BY <1>17, <2>0 DEF Kill
  <2>2. cl[c].seq \in 1..events /\ cl[c].uid \in Slots /\ cl[c].uid \in Links
    BY <2>1, Numbers DEF Tasks, ClientOK
  <2>3. /\ q.cmd = "DEL" /\ q.uid = cl[c].uid /\ q.id = NoName /\ q.c = c
        /\ q.seq = cl[c].seq /\ q.id \in Ids
    BY <2>0 DEF Ids
  <2>4. \A d \in Clients : cl[d].seq = cl[c].seq => d = c
    BY <2>1 DEF Tasks, Active
  <2>5. TaskOK(q)
    BY <2>1, <2>2, <2>3, <2>4 DEF TaskOK
  <2> QED BY <1>16, <2>1, <2>2, <2>3, <2>5
<1>18. CASE userd
  <2>0. PICK q, uid : q = Head(queue) /\ uid = IF q.cmd = "NEW" THEN searchnewuser ELSE q.uid
    OBVIOUS
  <2>1. queue # <<>> /\ queue' = Tail(queue) /\ Unlink(q, uid)
    BY <1>18, <2>0 DEF userd
  <2>2. q \in Asked
    BY <1>0, <2>0, <2>1, AskedShrinks DEF Types, Tasks
  <2>3. q \in Requests /\ TaskOK(q)
    BY <1>0, <2>0, <2>1, <2>2 DEF Types, Tasks, Pending
  <2>4. uid \in Links
    BY <2>0, <2>3, Numbers DEF IInv, ListInv, Lists, searchnewuser, Requests
  <2> QED BY <1>16, <2>0, <2>1, <2>3, <2>4
<1>19. CASE Link
  BY <1>19, LinkKeepsNames
<1>20. CASE Name
  BY <1>20, NameKeepsNames
<1>21. CASE Restart
  <2>1. /\ job' = NoJob /\ cl' = [c \in Clients |-> IdleClient] /\ Twice(file) \subseteq mixed'
    BY <1>21 DEF Restart
  <2>2. PICK newer \in BOOLEAN :
          LET s == load_ucache(file, newer)
          IN  hashhead' = s.head /\ next' = s.next /\ passwd' = s.pw
    BY <1>21 DEF Restart, Loaded
  <2>3. PICK pw : pw = file
    OBVIOUS
  <2>4. pw \in [Slots -> Record]
    BY <1>0, <2>3 DEF Types
  <2>5. StartsFrom(pw, newer)'
    BY <2>1, <2>2, <2>3 DEF StartsFrom
  <2>6. Started'
    BY <2>4, <2>5 DEF Started
  <2>7. Started' => NameInv'
    BY LoadedNames, PTL
  <2> QED BY <2>6, <2>7
<1>22. ASSUME NEW n \in Names, StartSearch(n) PROVE NameInv'
  BY <1>1, <1>22 DEF StartSearch, ghosts, cache
<1>23. CASE Hop \/ Missed \/ flush_ucache
  BY <1>1, <1>23 DEF Hop, Missed, flush_ucache, ghosts, cache
<1>24. ASSUME NEW c \in Clients, Die(c) PROVE NameInv'
  <2>1. Ends(c) /\ Others(c) /\ CacheStays /\ mixed \subseteq mixed'
    BY <1>0, <1>24, DieDoes DEF Ends
  <2>2. CopyOK(c)' /\ NewOK(c)'
    BY <1>3, <2>1
  <2> QED BY <1>2, <2>1, <2>2
<1>25. CASE UNCHANGED vars
  BY <1>1, <1>25 DEF vars, ghosts, cache
<1> QED
  BY <1>6, <1>7, <1>8, <1>9, <1>10, <1>11, <1>12, <1>13, <1>14, <1>15, <1>17, <1>18, <1>19,
     <1>20, <1>21, <1>22, <1>23, <1>24, <1>25 DEF Next

\* Between two changes by userd or killd every name is in one slot, in the list that
\* searchuser looks through for it, and every slot without a name in the list of free slots:
\* unless operations on one slot overlapped, or a rename timed out or stayed within its list,
\* or (the free slots) PASSFILE had a name twice.
THEOREM NamesLead == Spec => []NamesSound
<1>1. Init => IInv /\ Tasks /\ Alone /\ NameInv
  BY InitInv, InitTasks, InitAlone, InitNames
<1>2. IInv /\ Tasks /\ Alone /\ NameInv /\ [Next]_vars => (IInv /\ Tasks /\ Alone /\ NameInv)'
  BY StepInv, StepTasks, StepAlone, StepNames
<1>3. NameInv => NamesSound
  <2> SUFFICES ASSUME NameInv, job.step = "none" PROVE NamesSound
    BY DEF NamesSound
  <2>1. \A u : ~Moving(u)
    BY DEF Moving, Running
  <2>2. mixed \cap {"overlap", "late", "samekey"} = {} =>
          /\ \A u \in Slots : passwd[u].id # NoName =>
               u \in ListOf(hashhead, next, ucache_hash[passwd[u].id])
          /\ \A u, v \in Slots : passwd[u].id = passwd[v].id /\ u # v => passwd[u].id = NoName
    BY <2>1 DEF NameInv, Named, Ordinary, Leading, Unique, In
  <2>3. mixed \cap {"overlap", "dup"} = {} =>
          \A u \in Slots : passwd[u].id = NoName => u \in ListOf(hashhead, next, 0)
    BY <2>1 DEF NameInv, Nameless, Calm, In
  <2> QED BY <2>2, <2>3 DEF NamesSound
<1> QED BY <1>1, <1>2, <1>3, PTL DEF Spec

-----------------------------------------------------------------------------
(* Accounts. *)

\* A new account is in no record before its registrant writes it.
Fresh ==
    /\ \A u \in Slots : passwd[u].acc <= MAXUSERS + events /\ file[u].acc <= MAXUSERS + events
    /\ \A c \in Clients : cl[c].copy.acc <= MAXUSERS + events
    /\ \A c \in Clients : cl[c].op = "register" =>
         /\ \A u \in Slots : /\ passwd[u].acc # MAXUSERS + cl[c].seq
                             /\ file[u].acc # MAXUSERS + cl[c].seq
         /\ \A d \in Clients : d # c => cl[d].copy.acc # MAXUSERS + cl[c].seq

LEMMA Typed ==
  ASSUME Types
  PROVE  /\ \A u \in Slots : passwd[u].acc \in Int /\ file[u].acc \in Int
         /\ \A c \in Clients : cl[c].copy.acc \in Int /\ cl[c].seq \in Int
         /\ events \in Nat /\ MAXUSERS \in Nat /\ job.seq \in Int
BY Numbers DEF Types, Record, ClientStates, Jobs

\* One process goes on.
LEMMA MoveKeepsFresh ==
  ASSUME Types, Fresh, NEW c \in Clients, Others(c), file' = file,
         \A u \in Slots : passwd'[u].acc = passwd[u].acc,
         events' \in Nat, events <= events', cl'[c].copy.acc <= MAXUSERS + events',
         \A d \in Clients : d # c /\ cl[d].op = "register" => cl'[c].copy.acc # MAXUSERS + cl[d].seq,
         cl'[c].op = "register" => \/ cl[c].op = "register" /\ cl'[c].seq = cl[c].seq
                                   \/ cl'[c].seq = events + 1
  PROVE  Fresh'
<1>1. \A a \in Int : a <= MAXUSERS + events => a <= MAXUSERS + events' /\ a # MAXUSERS + (events + 1)
  BY Typed
<1>2. \A d \in Clients : d # c => cl'[d] = cl[d]
  BY DEF Others
<1>3. \A u \in Slots : passwd'[u].acc <= MAXUSERS + events' /\ file'[u].acc <= MAXUSERS + events'
  BY <1>1, Typed DEF Fresh
<1>4. \A d \in Clients : cl'[d].copy.acc <= MAXUSERS + events'
  BY <1>1, <1>2, Typed DEF Fresh
<1>5. ASSUME NEW d \in Clients, cl'[d].op = "register"
      PROVE  /\ \A u \in Slots : /\ passwd[u].acc # MAXUSERS + cl'[d].seq
                                 /\ file[u].acc # MAXUSERS + cl'[d].seq
             /\ \A e \in Clients : e # d => cl'[e].copy.acc # MAXUSERS + cl'[d].seq
  <2>1. CASE d # c
    BY <1>2, <1>5, <2>1 DEF Fresh
  <2>2. CASE d = c /\ cl[c].op = "register" /\ cl'[c].seq = cl[c].seq
    BY <1>2, <2>2 DEF Fresh
  <2>3. CASE d = c /\ cl'[c].seq = events + 1
    BY <1>1, <1>2, <2>3, Typed DEF Fresh
  <2> QED BY <1>5, <2>1, <2>2, <2>3
<1> QED BY <1>3, <1>4, <1>5 DEF Fresh

LEMMA StandKeepsFresh ==
  ASSUME Types, Fresh, cl' = cl, events' \in Nat, events <= events',
         \A u \in Slots : /\ passwd'[u].acc = passwd[u].acc
                          /\ file'[u].acc \in {file[u].acc, passwd[u].acc}
  PROVE  Fresh'
<1>1. \A a \in Int : a <= MAXUSERS + events => a <= MAXUSERS + events'
  BY Typed
<1>2. \A u \in Slots : passwd'[u].acc <= MAXUSERS + events' /\ file'[u].acc <= MAXUSERS + events'
  BY <1>1, Typed DEF Fresh
<1>3. \A d \in Clients : cl'[d].copy.acc <= MAXUSERS + events'
  BY <1>1, Typed DEF Fresh
<1> QED BY <1>2, <1>3 DEF Fresh

LEMMA InitFresh == Init => Fresh
<1> SUFFICES ASSUME Init PROVE Fresh
  OBVIOUS
<1>1. PICK newer \in BOOLEAN : passwd = load_ucache(file, newer).pw
  BY InitRecords
<1>2. \A u \in Slots : passwd[u].acc \in {0, u} /\ file[u].acc \in {0, u}
  BY <1>1, InitRecords, LoadedRecords
<1>3. events = 0 /\ \A c \in Clients : cl[c].op = "" /\ cl[c].copy.acc = 0
  BY InitRecords, IdleFields
<1>6. MAXUSERS \in Nat /\ MAXUSERS + events = MAXUSERS /\ 0 <= MAXUSERS + events
  <2>1. MAXUSERS \in Nat
    BY Numbers
  <2>2. events = 0
    BY <1>3
  <2> QED BY <2>1, <2>2
<1>4. \A u \in Slots : u <= MAXUSERS + events
  BY <1>6 DEF Slots
<1>5. \A u \in Slots : passwd[u].acc <= MAXUSERS + events /\ file[u].acc <= MAXUSERS + events
  BY <1>2, <1>4, <1>6
<1>7. \A c \in Clients : cl[c].copy.acc <= MAXUSERS + events
  BY <1>3, <1>6
<1> QED BY <1>3, <1>5, <1>7 DEF Fresh

LEMMA AnswerKeepsFresh ==
  ASSUME Types, Fresh, NEW c \in Clients, NEW seq, NEW uid, Answer(c, seq, uid),
         file' = file, events' = events, \A u \in Slots : passwd'[u].acc = passwd[u].acc
  PROVE  Fresh'
<1>1. events' \in Nat /\ events <= events'
  BY Typed
<1>2. CASE cl' = cl
  BY <1>1, <1>2, StandKeepsFresh
<1>3. CASE /\ Others(c) /\ cl'[c].op = cl[c].op /\ cl'[c].copy = cl[c].copy /\ cl'[c].seq = cl[c].seq
  <2>1. /\ cl'[c].copy.acc <= MAXUSERS + events'
        /\ \A d \in Clients : d # c /\ cl[d].op = "register" => cl'[c].copy.acc # MAXUSERS + cl[d].seq
    BY <1>3 DEF Fresh
  <2> QED BY <1>1, <1>3, <2>1, MoveKeepsFresh
<1> QED BY <1>2, <1>3, AnswerDoes

LEMMA StepFresh ==
  ASSUME IInv, Tasks, Fresh, [Next]_vars
  PROVE  Fresh'
<1>0. Types /\ events \in Nat /\ MAXUSERS \in Nat
  BY Typed DEF IInv
<1>1. ASSUME UNCHANGED <<passwd, file, cl>>, events' \in {events, events + 1, events + 2} PROVE Fresh'
  <2>1. events' \in Nat /\ events <= events'
    BY <1>0, <1>1
  <2> QED BY <1>0, <1>1, <2>1, StandKeepsFresh
<1>2. /\ \A c \in Clients : cl[c].op = "register" => cl[c].seq \in 1..events
      /\ \A c, d \in Clients : cl[c].op = "register" /\ c # d => cl[c].seq # cl[d].seq
  BY IdleFields DEF Tasks, ClientOK, Active
<1>3. ASSUME NEW c \in Clients, Others(c), cl'[c].copy.acc \in {0, cl[c].copy.acc},
             \/ cl'[c].op # "register"
             \/ cl[c].op = "register" /\ cl'[c].seq = cl[c].seq
             \/ cl'[c].seq = events + 1,
             file' = file, \A u \in Slots : passwd'[u].acc = passwd[u].acc,
             events' \in {events, events + 1}
      PROVE  Fresh'
  <2>1. events' \in Nat /\ events <= events'
    BY <1>0, <1>3
  <2>2. cl'[c].copy.acc <= MAXUSERS + events'
    BY <1>0, <1>3, Typed DEF Fresh
  <2>3. \A d \in Clients : d # c /\ cl[d].op = "register" => cl'[c].copy.acc # MAXUSERS + cl[d].seq
    BY <1>0, <1>2, <1>3 DEF Fresh
  <2> QED BY <1>0, <1>3, <2>1, <2>2, <2>3, MoveKeepsFresh
<1>4. ASSUME NEW c \in Clients, NEW n \in Names, Register(c, n) PROVE Fresh'
  <2>1. /\ Others(c) /\ cl'[c].copy.acc = 0 /\ cl'[c].seq = events + 1
        /\ passwd' = passwd /\ file' = file /\ events' = events + 1
    BY <1>0, <1>4, RegisterDoes, IdleFields DEF CacheStays
  <2> QED BY <1>3, <2>1
<1>5. ASSUME NEW c \in Clients, NEW n \in Names, NEW op \in {"delete", "kill"}, Delete(c, n, op)
      PROVE  Fresh'
  <2>1. /\ Others(c) /\ cl'[c].copy.acc = 0 /\ cl'[c].seq = events + 1
        /\ passwd' = passwd /\ file' = file /\ events' = events + 1
    BY <1>5, DeleteDoes, IdleFields DEF CacheStays
  <2> QED BY <1>3, <2>1
<1>6. ASSUME NEW c \in Clients, NEW n \in Names, NEW n2 \in Names, Modify(c, n, n2) PROVE Fresh'
  <2>0. PICK u : u = searchuser(n)
    OBVIOUS
  <2>1. /\ Others(c) /\ cl'[c].copy = passwd[u] /\ u \in Slots /\ cl'[c].op = "modify"
        /\ passwd' = passwd /\ file' = file /\ events' = events + 1
    BY <1>6, <2>0, ModifyDoes DEF CacheStays
  <2>2. events' \in Nat /\ events <= events'
    BY <1>0, <2>1
  <2>3. cl'[c].copy.acc <= MAXUSERS + events'
    BY <1>0, <2>1, Typed DEF Fresh
  <2>4. \A d \in Clients : cl[d].op = "register" => cl'[c].copy.acc # MAXUSERS + cl[d].seq
    BY <2>1 DEF Fresh
  <2> QED BY <1>0, <2>1, <2>2, <2>3, <2>4, MoveKeepsFresh
<1>7. ASSUME NEW c \in Clients, SendDel(c) \/ SendSet(c) \/ Timeout(c) PROVE Fresh'
  <2>1. /\ Others(c) /\ UNCHANGED <<passwd, file, events>>
        /\ \/ cl'[c].op = cl[c].op /\ cl'[c].copy = cl[c].copy /\ cl'[c].seq = cl[c].seq
           \/ Ends(c)
    BY <1>0, <1>7, SendDelDoes, SendSetDoes, TimeoutDoes DEF CacheStays, GoesOn, Ends
  <2>2. Ends(c) => cl'[c].op = "" /\ cl'[c].copy.acc = 0
    BY IdleFields DEF Ends
  <2> QED BY <1>3, <2>1, <2>2
<1>8. ASSUME NEW c \in Clients, Registered(c) PROVE Fresh'
  <2>0. PICK v : v = [id |-> passwd[cl[c].uid].id, acc |-> MAXUSERS + cl[c].seq, level |-> 1]
    OBVIOUS
  <2>1. /\ cl[c].op = "register" /\ Others(c) /\ UNCHANGED <<passwd, file, events>>
        /\ \/ cl'[c].op = "" /\ cl'[c].copy.acc = 0
           \/ cl'[c].seq = cl[c].seq /\ cl'[c].copy = v
    BY <1>0, <1>8, <2>0, RegisteredDoes, IdleFields DEF CacheStays, Ends
  <2>2. CASE cl'[c].seq = cl[c].seq /\ cl'[c].copy = v
    <3>1. v.acc = MAXUSERS + cl[c].seq
      BY <2>0
    <3>2. events' \in Nat /\ events <= events'
      <4>1. events' = events
        BY <2>1
      <4> QED BY <1>0, <4>1
    <3>3. cl'[c].copy.acc <= MAXUSERS + events'
      BY <1>0, <1>2, <2>1, <2>2, <3>1
    <3>4. \A d \in Clients : d # c /\ cl[d].op = "register" => cl'[c].copy.acc # MAXUSERS + cl[d].seq
      BY <1>0, <1>2, <2>1, <2>2, <3>1, Typed
    <3> QED BY <1>0, <2>1, <2>2, <3>2, <3>3, <3>4, MoveKeepsFresh
  <2> QED BY <1>3, <2>1, <2>2
<1>9. ASSUME NEW c \in Clients, Deleted(c) PROVE Fresh'
  <2>1. /\ Others(c) /\ cl'[c].op = "" /\ cl'[c].copy.acc = 0 /\ UNCHANGED <<file, events>>
        /\ \A u \in Slots : passwd'[u].acc = passwd[u].acc
    BY <1>0, <1>9, DeletedDoes, IdleFields DEF Ends
  <2> QED BY <1>3, <2>1
<1>10. ASSUME NEW c \in Clients, Modified(c) PROVE Fresh'
  <2>1. /\ Others(c) /\ cl'[c].op = "modify" /\ cl'[c].copy.acc = cl[c].copy.acc
        /\ UNCHANGED <<passwd, file, events>>
    BY <1>0, <1>10, ModifiedDoes DEF CacheStays
  <2> QED BY <1>3, <2>1
<1>11. ASSUME NEW c \in Clients, WriteBack(c) PROVE Fresh'
  <2>1. /\ Others(c) /\ cl'[c].op = "" /\ cl'[c].copy.acc = 0
        /\ \A u \in Slots : passwd'[u].acc \in {passwd[u].acc, cl[c].copy.acc}
        /\ UNCHANGED <<file, events>>
    BY <1>0, <1>11, WriteBackDoes, IdleFields DEF Ends
  <2>2. \A d \in Clients : d # c => cl'[d] = cl[d]
    BY <2>1 DEF Others
  <2>3. \A u \in Slots : passwd'[u].acc <= MAXUSERS + events' /\ file'[u].acc <= MAXUSERS + events'
    BY <2>1 DEF Fresh
  <2>4. \A d \in Clients : cl'[d].copy.acc <= MAXUSERS + events'
    <3>1. 0 <= MAXUSERS + events
      BY <1>0
    <3> QED BY <2>1, <2>2, <3>1 DEF Fresh
  <2>5. \A d \in Clients : cl'[d].op = "register" => d # c /\ cl[d].op = "register" /\ cl'[d].seq \in 1..events
    BY <1>2, <2>1, <2>2
  <2>6. ASSUME NEW d \in Clients, cl'[d].op = "register"
        PROVE  /\ \A u \in Slots : /\ passwd'[u].acc # MAXUSERS + cl'[d].seq
                                   /\ file'[u].acc # MAXUSERS + cl'[d].seq
               /\ \A e \in Clients : e # d => cl'[e].copy.acc # MAXUSERS + cl'[d].seq
    <3>1. d # c /\ cl[d].op = "register" /\ cl'[d] = cl[d] /\ cl[d].seq \in 1..events
      BY <2>2, <2>5, <2>6
    <3>2. MAXUSERS + cl[d].seq # 0
      BY <1>0, <3>1
    <3>3. /\ \A u \in Slots : /\ passwd[u].acc # MAXUSERS + cl[d].seq
                              /\ file[u].acc # MAXUSERS + cl[d].seq
          /\ \A e \in Clients : e # d => cl[e].copy.acc # MAXUSERS + cl[d].seq
      BY <3>1 DEF Fresh
    <3> QED BY <2>1, <2>2, <3>1, <3>2, <3>3
  <2> QED BY <2>3, <2>4, <2>6 DEF Fresh
\* userd and killd.
<1>12. ASSUME NEW q, q.c \in Clients, NEW uid \in Links, Unlink(q, uid), UNCHANGED <<file, events>>
       PROVE  Fresh'
  <2>1. passwd' = passwd
    BY <1>0, <1>12, UnlinkCases
  <2>2. CASE Refused(q)
    <3>1. PICK seq, s : Answer(q.c, seq, s)
      BY <2>2 DEF Refused
    <3> QED BY <1>0, <1>12, <2>1, <3>1, AnswerKeepsFresh
  <2>3. CASE TakenOut(q, uid)
    BY <1>1, <1>12, <2>1, <2>3 DEF TakenOut
  <2> QED BY <1>0, <1>12, <2>2, <2>3, UnlinkCases
<1>13. ASSUME NEW c \in Clients, Kill(c) PROVE Fresh'
  <2>0. PICK q : q = [cmd |-> "DEL", uid |-> cl[c].uid, id |-> NoName, c |-> c, seq |-> cl[c].seq]
    OBVIOUS
  <2>1. cl[c].pc = "send" /\ Unlink(q, cl[c].uid) /\ UNCHANGED <<file, events>>
    BY <1>13, <2>0 DEF Kill
  <2>2. cl[c].uid \in Links /\ q.c = c
    BY <1>0, <2>0, <2>1, Numbers DEF Types
  <2> QED BY <1>12, <2>1, <2>2
<1>14. CASE userd
  <2>0. PICK q, uid : q = Head(queue) /\ uid = IF q.cmd = "NEW" THEN searchnewuser ELSE q.uid
    OBVIOUS
  <2>1. queue # <<>> /\ Unlink(q, uid) /\ UNCHANGED <<file, events>>
    BY <1>14, <2>0 DEF userd
  <2>2. q \in Requests
    BY <1>0, <2>0, <2>1 DEF Types
  <2>3. uid \in Links /\ q.c \in Clients
    BY <2>0, <2>2, Numbers DEF IInv, ListInv, Lists, searchnewuser, Requests
  <2> QED BY <1>12, <2>1, <2>3
<1>15. CASE Link
  BY <1>1, <1>15 DEF Link
<1>16. CASE Name
  <2>0. PICK q : q = job
    OBVIOUS
  <2>1. /\ Answer(q.c, q.seq, q.uid) /\ q.uid \in Slots /\ q.c \in Clients /\ Running
        /\ \A u \in Slots : u # q.uid => passwd'[u] = passwd[u]
        /\ passwd'[q.uid].acc \in {-q.seq, passwd[q.uid].acc}
        /\ UNCHANGED <<file, events>>
    BY <1>0, <1>16, <2>0, NameDoes
  <2>2. q.seq \in 1..events
    BY <2>0, <2>1 DEF Tasks, Pending, TaskOK
  <2>3. \A d \in Clients : /\ cl'[d].op = cl[d].op /\ cl'[d].copy = cl[d].copy
                           /\ cl'[d].seq = cl[d].seq
    <3>1. PICK seq, s : seq = q.seq /\ s = q.uid
      OBVIOUS
    <3>2. Answer(q.c, seq, s)
      BY <2>1, <3>1
    <3> QED BY <1>0, <2>1, <3>2, AnswerDoes DEF Others
  <2>4. \A u \in Slots : passwd'[u].acc \in {-q.seq, passwd[u].acc}
    BY <2>1
  <2>5. \A u \in Slots : passwd'[u].acc <= MAXUSERS + events
    BY <1>0, <2>2, <2>4 DEF Fresh
  <2>6. ASSUME NEW c \in Clients, cl[c].op = "register", NEW u \in Slots
        PROVE  passwd'[u].acc # MAXUSERS + cl[c].seq
    BY <1>0, <1>2, <2>2, <2>4, <2>6 DEF Fresh
  <2> QED BY <2>1, <2>3, <2>5, <2>6 DEF Fresh
<1>17. CASE Restart
  <2>1. cl' = [c \in Clients |-> IdleClient] /\ file' = file /\ events' = events + 1
    BY <1>17 DEF Restart
  <2>2. PICK newer \in BOOLEAN : passwd' = load_ucache(file, newer).pw
    BY <1>17 DEF Restart, Loaded
  <2>3. \A u \in Slots : passwd'[u].acc = file[u].acc
    BY <1>0, <2>2, LoadedRecords DEF Types
  <2>4. \A c \in Clients : cl'[c].op = "" /\ cl'[c].copy.acc = 0
    BY <2>1, IdleFields
  <2>5. \A u \in Slots : passwd'[u].acc <= MAXUSERS + events' /\ file'[u].acc <= MAXUSERS + events'
    BY <1>0, <2>1, <2>3, Typed DEF Fresh
  <2>6. 0 <= MAXUSERS + events'
    BY <1>0, <2>1
  <2> QED BY <2>4, <2>5, <2>6 DEF Fresh
<1>18. CASE flush_ucache
  <2>1. events' \in Nat /\ events <= events' /\ cl' = cl /\ passwd' = passwd /\ file' = passwd
    BY <1>0, <1>18 DEF flush_ucache, cache
  <2> QED BY <1>0, <2>1, StandKeepsFresh
<1>19. ASSUME NEW n \in Names, StartSearch(n) PROVE Fresh'
  BY <1>1, <1>19 DEF StartSearch, cache
<1>20. CASE Hop \/ Missed
  BY <1>1, <1>20 DEF Hop, Missed, cache
<1>21. ASSUME NEW c \in Clients, Die(c) PROVE Fresh'
  <2>1. /\ Others(c) /\ cl'[c].op = "" /\ cl'[c].copy.acc = 0
        /\ UNCHANGED <<passwd, file>> /\ events' = events + 1
    BY <1>0, <1>21, DieDoes, IdleFields DEF CacheStays, Ends
  <2> QED BY <1>3, <2>1
<1>22. CASE UNCHANGED vars
  BY <1>1, <1>22 DEF vars, cache
<1> QED
  BY <1>4, <1>5, <1>6, <1>7, <1>8, <1>9, <1>10, <1>11, <1>13, <1>14, <1>15, <1>16, <1>17,
     <1>18, <1>19, <1>20, <1>21, <1>22 DEF Next

\* What an operation knows of the account in its slot.
HolderOK(c) ==
    /\ cl[c].op \in {"delete", "kill"} => passwd[cl[c].uid].acc \notin accounts
    /\ cl[c].op = "modify" => /\ cl[c].copy.acc = passwd[cl[c].uid].acc
                              /\ cl[c].copy.level = passwd[cl[c].uid].level
    /\ cl[c].op = "register" /\ cl[c].uid \in Slots => passwd[cl[c].uid].acc = -cl[c].seq
Held == \A a \in accounts : \E u \in Slots :
          passwd[u].acc = a /\ passwd[u].level = 1 /\ passwd[u].id # NoName
Permitted(pw) == \A u \in Slots : pw[u].acc \in accounts => pw[u].level = 1
Doomed(r) == r.cmd = "DEL" => passwd[r.uid].acc \notin accounts
Accounts ==
    /\ \A a \in accounts : a \in Int /\ a > 0
    /\ Unmixed => /\ Held /\ Permitted(passwd) /\ Permitted(file)
                  /\ \A c \in Clients : HolderOK(c)
                  /\ \A r \in Asked : Doomed(r)
                  /\ Running => Doomed(job)

\* One process goes on, and no record changes.
LEMMA MoveKeepsAccounts ==
  ASSUME Accounts, NEW c \in Clients, Others(c), mixed \subseteq mixed',
         passwd' = passwd, file' \in {file, passwd}, accounts' \subseteq accounts,
         Unmixed' => HolderOK(c)',
         \A r \in Asked' : r \in Asked \/ Doomed(r) \/ Doomed(r)',
         Running' => Doomed(job)' \/ (Running /\ job'.cmd = job.cmd /\ job'.uid = job.uid)
  PROVE  Accounts'
<1>1. \A a \in accounts' : a \in Int /\ a > 0
  BY DEF Accounts
<1> SUFFICES ASSUME Unmixed' PROVE Accounts'
  BY <1>1 DEF Accounts
<1>2. Unmixed
  BY Unmixing
<1>3. Held'
  BY <1>2 DEF Accounts, Held
<1>4. Permitted(passwd)' /\ Permitted(file)'
  BY <1>2 DEF Accounts, Permitted
<1>5. \A d \in Clients : HolderOK(d)'
  <2>1. ASSUME NEW d \in Clients, d # c PROVE HolderOK(d)'
    <3>1. HolderOK(d) /\ cl'[d] = cl[d]
      BY <1>2, <2>1 DEF Accounts, Others
    <3> QED BY <3>1 DEF HolderOK
  <2> QED BY <2>1
<1>6. \A r \in Asked' : Doomed(r)'
  <2>1. \A r : Doomed(r) => Doomed(r)'
    BY DEF Doomed
  <2> QED BY <1>2, <2>1 DEF Accounts
<1>7. Running' => Doomed(job)'
  BY <1>2 DEF Accounts, Doomed
<1> QED BY <1>1, <1>3, <1>4, <1>5, <1>6, <1>7 DEF Accounts

\* The machine has started, or started again, with a file of permitted accounts.
Resumes(newer) ==
    /\ file \in [Slots -> Record] /\ passwd = load_ucache(file, newer).pw
    /\ job = NoJob /\ cl = [c \in Clients |-> IdleClient] /\ queue = <<>>
    /\ accounts \subseteq Present(passwd) /\ \A a \in accounts : a \in Int /\ a > 0
    /\ Unmixed => Permitted(file)

Resumed == \E newer \in BOOLEAN : Resumes(newer)

LEMMA LoadedAccounts == Resumed => Accounts
<1> SUFFICES ASSUME NEW newer \in BOOLEAN, Resumes(newer) PROVE Accounts
  BY DEF Resumed
<1>0. /\ file \in [Slots -> Record] /\ passwd = load_ucache(file, newer).pw
      /\ job = NoJob /\ cl = [c \in Clients |-> IdleClient] /\ queue = <<>>
      /\ accounts \subseteq Present(passwd) /\ \A a \in accounts : a \in Int /\ a > 0
      /\ Unmixed => Permitted(file)
  BY DEF Resumes
<1>1. \A u \in Slots : passwd[u].acc = file[u].acc /\ passwd[u].level = file[u].level
  BY <1>0, LoadedRecords
<1>2. Asked = {} /\ ~Running
  <2>1. Len(queue) = 0
    BY <1>0
  <2>2. ~Running
    BY <1>0 DEF Running, NoJob
  <2> QED BY <2>1, <2>2 DEF Asked
<1>3. \A c \in Clients : cl[c].op = ""
  BY <1>0, IdleFields
<1>4. \A c \in Clients : HolderOK(c)
  BY <1>3 DEF HolderOK
<1>5. ASSUME Unmixed PROVE Held /\ Permitted(passwd)
  <2>1. Permitted(passwd)
    BY <1>0, <1>1, <1>5 DEF Permitted
  <2>2. \A a \in accounts : \E u \in Slots : passwd[u].acc = a /\ passwd[u].id # NoName
    BY <1>0 DEF Present
  <2> QED BY <2>1, <2>2 DEF Held, Permitted
<1> QED BY <1>0, <1>2, <1>4, <1>5 DEF Accounts

LEMMA InitAccounts == Init => Accounts
<1> SUFFICES ASSUME Init PROVE Accounts
  OBVIOUS
<1>1. PICK newer \in BOOLEAN : passwd = load_ucache(file, newer).pw
  BY InitRecords
<1>2. \A u \in Slots : passwd[u].acc = file[u].acc /\ passwd[u].id \in {file[u].id, NoName}
  BY <1>1, InitRecords, LoadedRecords
<1>3. \A a \in accounts : \E u \in Slots : a = u /\ file[u].level = 1
  <2>1. \A a \in accounts : \E u \in Slots : a = passwd[u].acc /\ passwd[u].id # NoName
    BY InitRecords DEF Present
  <2> QED BY <1>2, <2>1, InitRecords
<1>4. \A a \in accounts : a \in Int /\ a > 0
  BY <1>3 DEF Slots
<1>5. Permitted(file)
  <2>1. ASSUME NEW u \in Slots, file[u].acc \in accounts PROVE file[u].level = 1
    <3>1. PICK v \in Slots : file[u].acc = v /\ file[v].level = 1
      BY <1>3, <2>1
    <3>2. file[u].acc = u
      BY <3>1, InitRecords, Numbers
    <3> QED BY <3>1, <3>2
  <2> QED BY <2>1 DEF Permitted
<1>6. Resumes(newer)
  BY <1>1, <1>4, <1>5, InitRecords DEF Resumes
<1> QED BY <1>6, LoadedAccounts DEF Resumed

\* Slots of two operations are two, as long as none overlapped.
LEMMA SlotOfOne ==
  ASSUME Types, Tasks, Alone, Calm, NEW c \in Clients, Active(c), cl[c].uid \in Slots
  PROVE  /\ \A d \in Clients : cl[d].uid = cl[c].uid => d = c
         /\ cl[c].op \in {"register", "modify"} =>
              /\ \A r \in Asked : r.cmd = "DEL" => r.uid # cl[c].uid
              /\ Running /\ job.cmd = "DEL" => job.uid # cl[c].uid
<1>1. ASSUME NEW d \in Clients, cl[d].uid = cl[c].uid PROVE d = c
  <2>1. ClientOK(d)
    BY DEF Tasks
  <2>2. Active(d)
    BY <1>1, <2>1, IdleFields, Numbers DEF ClientOK, Active
  <2> QED BY <1>1, <2>2 DEF Alone
<1>2. ASSUME cl[c].op \in {"register", "modify"}, NEW r \in Asked, r.cmd = "DEL", r.uid = cl[c].uid
      PROVE  FALSE
  <2>1. TaskOK(r)
    BY DEF Tasks, Pending
  <2>2. cl[c].seq = r.seq
    BY <1>2 DEF Alone
  <2> QED BY <1>2, <2>1, <2>2 DEF TaskOK, Own
<1>3. cl[c].op \in {"register", "modify"} /\ Running /\ job.cmd = "DEL" => job.uid # cl[c].uid
  BY JobsClient
<1> QED BY <1>1, <1>2, <1>3

\* The permissions of a deleted user go: his slot has no account that is to be kept.
LEMMA DeletedKeepsAccounts ==
  ASSUME Types, Tasks, Alone, Accounts, NEW c \in Clients, Deleted(c)
  PROVE  Accounts'
<1>1. /\ cl[c].pc = "answered" /\ cl[c].op \in {"delete", "kill"} /\ Others(c) /\ cl'[c].op = ""
      /\ \A u \in Slots : /\ passwd'[u].id = passwd[u].id /\ passwd'[u].acc = passwd[u].acc
                          /\ u # cl[c].uid => passwd'[u].level = passwd[u].level
      /\ UNCHANGED <<file, queue, job, accounts, mixed>>
  BY DeletedDoes, IdleFields DEF Ends
<1>2. \A a \in accounts' : a \in Int /\ a > 0
  BY <1>1 DEF Accounts
<1> SUFFICES ASSUME Unmixed PROVE Accounts'
  BY <1>1, <1>2 DEF Accounts, Unmixed
<1>3. Calm /\ cl[c].uid \in Slots /\ Active(c)
  BY <1>1 DEF Calm, Unmixed, Tasks, ClientOK, Active
<1>4. passwd[cl[c].uid].acc \notin accounts
  BY <1>1 DEF Accounts, HolderOK
<1>5. Held' /\ Permitted(passwd)' /\ Permitted(file)'
  <2>1. Held /\ Permitted(passwd) /\ Permitted(file)
    BY DEF Accounts
  <2>2. Held'
    <3>1. ASSUME NEW a \in accounts
          PROVE  \E u \in Slots : passwd'[u].acc = a /\ passwd'[u].level = 1 /\ passwd'[u].id # NoName
      <4>1. PICK u \in Slots : passwd[u].acc = a /\ passwd[u].level = 1 /\ passwd[u].id # NoName
        BY <2>1 DEF Held
      <4>2. u # cl[c].uid
        BY <1>4, <4>1
      <4> QED BY <1>1, <4>1, <4>2
    <3> QED BY <1>1, <3>1 DEF Held
  <2>3. Permitted(passwd)'
    BY <1>1, <1>4, <2>1 DEF Permitted
  <2>4. Permitted(file)'
    BY <1>1, <2>1 DEF Permitted
  <2> QED BY <2>2, <2>3, <2>4
<1>6. ASSUME NEW d \in Clients PROVE HolderOK(d)'
  <2>1. CASE d = c
    BY <1>1, <2>1 DEF HolderOK
  <2>2. CASE d # c
    <3>1. HolderOK(d) /\ cl'[d] = cl[d] /\ cl[d].uid # cl[c].uid /\ ClientOK(d)
      BY <1>1, <1>3, <2>2, SlotOfOne DEF Accounts, Others, Tasks
    <3>2. cl[d].op \in {"delete", "kill", "modify"} => cl[d].uid \in Slots
      BY <3>1 DEF ClientOK
    <3> QED BY <1>1, <3>1, <3>2 DEF HolderOK
  <2> QED BY <2>1, <2>2
<1>7. (\A r \in Asked' : Doomed(r)') /\ (Running' => Doomed(job)')
  <2>1. Asked' = Asked /\ (Running' <=> Running)
    BY <1>1 DEF Asked, Running
  <2>2. \A r \in Asked : r.cmd = "DEL" => r.uid \in Slots
    BY TaskSlots
  <2>3. Running => job.uid \in Slots
    BY TaskSlots
  <2> QED BY <1>1, <2>1, <2>2, <2>3 DEF Accounts, Doomed
<1> QED BY <1>1, <1>2, <1>5, <1>6, <1>7 DEF Accounts

\* A registration writes its account, and then has it; other records are written back as they were.
LEMMA WriteBackKeepsAccounts ==
  ASSUME Types, Tasks, Alone, NameInv, Fresh, Accounts, NEW c \in Clients, WriteBack(c)
  PROVE  Accounts'
<1>0. PICK v, w : v = cl[c].copy /\ w = cl[c].uid
  OBVIOUS
<1>1. /\ cl[c].pc = "write" /\ Others(c) /\ cl'[c].op = ""
      /\ w \in Slots => passwd'[w] = v
      /\ \A u \in Slots : u # w => passwd'[u] = passwd[u]
      /\ accounts' = IF cl[c].op = "register" THEN accounts \cup {v.acc} ELSE accounts
      /\ UNCHANGED <<file, queue, job, mixed>>
  BY <1>0, WriteBackDoes, IdleFields DEF Ends
<1>2. /\ cl[c].op \in {"register", "modify"} /\ w \in Slots /\ Active(c)
      /\ cl[c].op = "register" => /\ v.acc = MAXUSERS + cl[c].seq /\ v.level = 1
                                  /\ cl[c].seq \in 1..events
      /\ cl[c].op = "modify" => v.id # NoName
  <2>1. cl[c].op \in {"", "register", "delete", "kill", "modify"}
    BY DEF Types, ClientStates
  <2>2. ClientOK(c)
    BY DEF Tasks
  <2> QED BY <1>0, <1>1, <2>1, <2>2, UCacheAssumption DEF ClientOK, Active
<1>3. cl[c].op = "register" => v.acc \in Int /\ v.acc > 0
  BY <1>2, Typed
<1>4. \A a \in accounts' : a \in Int /\ a > 0
  BY <1>1, <1>3 DEF Accounts
<1> SUFFICES ASSUME Unmixed PROVE Accounts'
  BY <1>1, <1>4 DEF Accounts, Unmixed
<1>5. Calm
  BY DEF Calm, Unmixed
<1>6. Held /\ Permitted(passwd) /\ Permitted(file) /\ HolderOK(c)
  BY DEF Accounts
<1>7. v.id # NoName
  BY <1>0, <1>1, <1>2, <1>5 DEF NameInv, Nameless, NewOK
\* Of the others, nobody has the slot, or the account.
<1>8. ASSUME NEW d \in Clients PROVE d # c => cl[d].uid # w
  BY <1>0, <1>2, <1>5, SlotOfOne
<1>9. /\ \A r \in Asked : r.cmd = "DEL" => r.uid # w /\ r.uid \in Slots
      /\ Running /\ job.cmd = "DEL" => job.uid # w /\ job.uid \in Slots
  BY <1>0, <1>2, <1>5, SlotOfOne, TaskSlots
<1>10. ASSUME cl[c].op = "register", NEW u \in Slots PROVE passwd[u].acc # v.acc /\ file[u].acc # v.acc
  BY <1>2, <1>10 DEF Fresh
<1>11. cl[c].op = "register" => passwd[w].acc \notin accounts
  <2>1. ASSUME cl[c].op = "register", passwd[w].acc \in accounts PROVE FALSE
    <3>1. passwd[w].acc = -cl[c].seq
      BY <1>0, <1>2, <1>6, <2>1 DEF HolderOK
    <3>2. -cl[c].seq > 0
      BY <2>1, <3>1 DEF Accounts
    <3> QED BY <1>2, <2>1, <3>2, Typed
  <2> QED BY <2>1
<1>12. cl[c].op = "modify" => v.acc = passwd[w].acc /\ v.level = passwd[w].level
  BY <1>0, <1>6 DEF HolderOK
<1>13. Held'
  <2>1. ASSUME NEW a \in accounts
        PROVE  \E u \in Slots : passwd'[u].acc = a /\ passwd'[u].level = 1 /\ passwd'[u].id # NoName
    <3>1. PICK u \in Slots : passwd[u].acc = a /\ passwd[u].level = 1 /\ passwd[u].id # NoName
      BY <1>6 DEF Held
    <3>2. CASE u # w
      BY <1>1, <3>1, <3>2
    <3>3. CASE u = w
      BY <1>1, <1>2, <1>7, <1>11, <1>12, <3>1, <3>3
    <3> QED BY <3>2, <3>3
  <2>2. cl[c].op = "register" => passwd'[w].acc = v.acc /\ passwd'[w].level = 1 /\ passwd'[w].id # NoName
    BY <1>1, <1>2, <1>7
  <2> QED BY <1>1, <1>2, <2>1, <2>2 DEF Held
<1>14. Permitted(passwd)'
  <2>1. ASSUME NEW u \in Slots, passwd'[u].acc \in accounts' PROVE passwd'[u].level = 1
    <3>1. CASE u = w /\ cl[c].op = "register"
      BY <1>1, <1>2, <3>1
    <3>2. CASE u = w /\ cl[c].op = "modify"
      BY <1>1, <1>2, <1>6, <1>12, <2>1, <3>2 DEF Permitted
    <3>3. CASE u # w
      BY <1>1, <1>6, <1>10, <2>1, <3>3 DEF Permitted
    <3> QED BY <1>2, <3>1, <3>2, <3>3
  <2> QED BY <2>1 DEF Permitted
<1>15. Permitted(file)'
  BY <1>1, <1>6, <1>10 DEF Permitted
<1>16. \A u \in Slots : u # w /\ passwd[u].acc \notin accounts => passwd'[u].acc \notin accounts'
  BY <1>1, <1>10
<1>17. ASSUME NEW d \in Clients PROVE HolderOK(d)'
  <2>1. CASE d = c
    BY <1>1, <2>1 DEF HolderOK
  <2>2. CASE d # c
    <3>1. HolderOK(d) /\ cl'[d] = cl[d] /\ cl[d].uid # w /\ ClientOK(d)
      BY <1>1, <1>8, <2>2 DEF Accounts, Others, Tasks
    <3>2. cl[d].op \in {"delete", "kill", "modify"} => cl[d].uid \in Slots
      BY <3>1 DEF ClientOK
    <3> QED BY <1>1, <1>16, <3>1, <3>2 DEF HolderOK
  <2> QED BY <2>1, <2>2
<1>18. (\A r \in Asked' : Doomed(r)') /\ (Running' => Doomed(job)')
  <2>1. Asked' = Asked /\ (Running' <=> Running) /\ job' = job
    BY <1>1 DEF Asked, Running
  <2>2. ASSUME NEW r \in Asked PROVE Doomed(r)'
    BY <1>9, <1>16 DEF Accounts, Doomed
  <2>3. Running => Doomed(job)'
    BY <1>9, <1>16, <2>1 DEF Accounts, Doomed
  <2> QED BY <2>1, <2>2, <2>3
<1> QED BY <1>1, <1>4, <1>13, <1>14, <1>15, <1>17, <1>18 DEF Accounts

\* A slot gets its new name: an account that is to be kept is not in the slot of a new user or of a
\* deleted one.
LEMMA NameKeepsAccounts ==
  ASSUME Types, Tasks, Alone, NameInv, Accounts, Name
  PROVE  Accounts'
<1>1. PICK q : q = job
  OBVIOUS
<1>2. /\ Running /\ ~Running' /\ Answer(q.c, q.seq, q.uid)
      /\ q.uid \in Slots /\ q.c \in Clients
      /\ \A u \in Slots : u # q.uid => passwd'[u] = passwd[u]
      /\ passwd'[q.uid].id = q.id
      /\ passwd'[q.uid].acc = IF q.cmd = "NEW" THEN -q.seq ELSE passwd[q.uid].acc
      /\ passwd'[q.uid].level = IF q.cmd = "NEW" THEN 0 ELSE passwd[q.uid].level
      /\ UNCHANGED <<file, queue, accounts, mixed>>
  BY <1>1, NameDoes
<1>3. TaskOK(q) /\ q.seq \in 1..events /\ q.cmd \in {"NEW", "SET", "DEL"}
  BY <1>1, <1>2 DEF Tasks, Pending, TaskOK
<1>4. \A a \in accounts' : a \in Int /\ a > 0
  BY <1>2 DEF Accounts
<1> SUFFICES ASSUME Unmixed PROVE Accounts'
  BY <1>2, <1>4 DEF Accounts, Unmixed
<1>5. Calm /\ Ordinary
  BY DEF Calm, Unmixed, Ordinary
<1>6. Held /\ Permitted(passwd) /\ Permitted(file) /\ Doomed(q) /\ JobOK
  BY <1>1, <1>2, <1>5 DEF Accounts, NameInv, Named
<1>7. -q.seq \notin accounts
  <2>1. ~(-q.seq > 0)
    BY <1>3, Typed
  <2> QED BY <2>1 DEF Accounts
<1>8. Held'
  <2>1. ASSUME NEW a \in accounts
        PROVE  \E u \in Slots : passwd'[u].acc = a /\ passwd'[u].level = 1 /\ passwd'[u].id # NoName
    <3>1. PICK u \in Slots : passwd[u].acc = a /\ passwd[u].level = 1 /\ passwd[u].id # NoName
      BY <1>6 DEF Held
    <3>2. CASE u # q.uid
      BY <1>2, <3>1, <3>2
    <3>3. CASE u = q.uid
      <4>1. q.cmd = "SET"
        BY <1>1, <1>2, <1>3, <1>6, <3>1, <3>3 DEF JobOK, Doomed
      <4>2. q.id # NoName
        BY <1>3, <4>1 DEF TaskOK
      <4> QED BY <1>2, <3>1, <3>3, <4>1, <4>2
    <3> QED BY <3>2, <3>3
  <2> QED BY <1>2, <2>1 DEF Held
<1>9. Permitted(passwd)' /\ Permitted(file)'
  <2>1. ASSUME NEW u \in Slots, passwd'[u].acc \in accounts PROVE passwd'[u].level = 1
    BY <1>2, <1>6, <1>7, <2>1 DEF Permitted
  <2> QED BY <1>2, <1>6, <2>1 DEF Permitted
<1>10. \A u \in Slots : passwd[u].acc \notin accounts => passwd'[u].acc \notin accounts
  BY <1>2, <1>7
<1>11. /\ \A d \in Clients : d # q.c => cl'[d] = cl[d]
       /\ \/ /\ cl[q.c].seq = q.seq
             /\ cl'[q.c].pc = "answered" /\ cl'[q.c].op = cl[q.c].op
             /\ cl'[q.c].uid = IF cl[q.c].op = "register" THEN q.uid ELSE cl[q.c].uid
             /\ cl'[q.c].copy = cl[q.c].copy /\ cl'[q.c].seq = q.seq
          \/ cl' = cl
  <2>1. PICK seq, uid : seq = q.seq /\ uid = q.uid
    OBVIOUS
  <2>2. Answer(q.c, seq, uid)
    BY <1>2, <2>1
  <2> QED BY <1>2, <2>1, <2>2, AnswerDoes DEF Others
<1>12. ASSUME NEW d \in Clients PROVE HolderOK(d)'
  <2>1. HolderOK(d) /\ ClientOK(d)
    BY DEF Accounts, Tasks
  <2>2. /\ cl'[d].op = cl[d].op /\ cl'[d].copy = cl[d].copy
        /\ cl[d].op # "register" => cl'[d].uid = cl[d].uid
    BY <1>11
  <2>3. cl[d].op \in {"delete", "kill", "modify"} => cl[d].uid \in Slots
    BY <2>1 DEF ClientOK
  <2>4. cl[d].uid = q.uid => q.cmd # "NEW" /\ cl[d].op # "register"
    BY <1>1, <1>2, <1>3, <1>5, JobsClient
  <2>5. cl[d].op \in {"delete", "kill"} => passwd'[cl'[d].uid].acc \notin accounts
    BY <1>10, <2>1, <2>2, <2>3 DEF HolderOK
  <2>6. cl[d].op = "modify" => /\ cl'[d].copy.acc = passwd'[cl'[d].uid].acc
                               /\ cl'[d].copy.level = passwd'[cl'[d].uid].level
    BY <1>2, <2>1, <2>2, <2>3, <2>4 DEF HolderOK
  <2>7. ASSUME cl[d].op = "register", cl'[d].uid \in Slots PROVE passwd'[cl'[d].uid].acc = -cl'[d].seq
    <3>1. CASE cl'[d] = cl[d]
      BY <1>2, <2>1, <2>4, <2>7, <3>1 DEF HolderOK
    <3>2. CASE cl'[d] # cl[d]
      <4>1. d = q.c /\ cl[d].seq = q.seq /\ cl'[d].uid = q.uid /\ cl'[d].seq = q.seq
        BY <1>11, <2>7, <3>2
      <4>2. q.cmd = "NEW"
        BY <1>3, <2>7, <4>1 DEF TaskOK, Own
      <4> QED BY <1>2, <4>1, <4>2
    <3> QED BY <3>1, <3>2
  <2> QED BY <1>2, <2>2, <2>5, <2>6, <2>7 DEF HolderOK
<1>13. \A r \in Asked' : Doomed(r)'
  <2>1. Asked' = Asked
    BY <1>2 DEF Asked
  <2> QED BY <1>2, <1>10, <2>1, TaskSlots DEF Accounts, Doomed
<1> QED BY <1>2, <1>4, <1>8, <1>9, <1>12, <1>13 DEF Accounts

\* userd or killd begins a change, or refuses it.
LEMMA UnlinkKeepsAccounts ==
  ASSUME Types, Tasks, Accounts, NEW q, q.c \in Clients, NEW uid \in Links, Unlink(q, uid),
         Asked' \subseteq Asked, UNCHANGED <<accounts, file>>,
         Unmixed => Doomed(q), q.cmd # "NEW" => uid = q.uid
  PROVE  Accounts'
<1>1. passwd' = passwd /\ mixed \subseteq mixed' /\ (Refused(q) \/ TakenOut(q, uid)) /\ ~Running
  BY UnlinkCases DEF Unlink, Running
<1>2. (Unmixed' => Unmixed) /\ (Unmixed => \A c \in Clients : HolderOK(c))
  BY <1>1 DEF Accounts, Unmixed
<1>3. CASE Refused(q)
  <2>1. PICK s : s = IF q.cmd = "NEW" THEN -1 ELSE 0
    OBVIOUS
  <2>2. s \notin Slots
    BY <2>1, Numbers DEF Slots
  <2>3. \/ /\ Others(q.c) /\ cl'[q.c].op = cl[q.c].op /\ cl'[q.c].copy = cl[q.c].copy
           /\ cl'[q.c].uid = IF cl[q.c].op = "register" THEN s ELSE cl[q.c].uid
        \/ cl' = cl
    BY <1>3, <2>1, AnswerDoes DEF Refused
  <2>4. Others(q.c)
    BY <2>3 DEF Others
  <2>5. Unmixed' => HolderOK(q.c)'
    BY <1>1, <1>2, <2>2, <2>3 DEF HolderOK
  <2>6. ~Running'
    BY <1>1, <1>3 DEF Refused, Running
  <2> QED BY <1>1, <2>4, <2>5, <2>6, MoveKeepsAccounts
<1>4. CASE TakenOut(q, uid)
  <2>1. cl' = cl /\ job'.cmd = q.cmd /\ job'.uid = uid
    BY <1>4 DEF TakenOut
  <2>2. \A a \in accounts' : a \in Int /\ a > 0
    BY DEF Accounts
  <2> SUFFICES ASSUME Unmixed' PROVE Accounts'
    BY <2>2 DEF Accounts
  <2>3. \A r : Doomed(r) => Doomed(r)'
    BY <1>1 DEF Doomed
  <2>4. Doomed(job)'
    BY <1>1, <1>2, <2>1 DEF Doomed
  <2>5. \A c \in Clients : HolderOK(c)'
    BY <1>1, <1>2, <2>1 DEF HolderOK
  <2>6. Held' /\ Permitted(passwd)' /\ Permitted(file)'
    BY <1>1, <1>2 DEF Accounts, Held, Permitted
  <2> QED BY <1>2, <2>2, <2>3, <2>4, <2>5, <2>6 DEF Accounts
<1> QED BY <1>1, <1>3, <1>4

LEMMA StepAccounts ==
  ASSUME IInv, Tasks, Alone, NameInv, Fresh, Accounts, [Next]_vars
  PROVE  Accounts'
<1>0. Types /\ queue \in Seq(Requests)
  BY DEF IInv, Types
<1>1. ASSUME UNCHANGED <<queue, job, cl, passwd, accounts, mixed>>, file' \in {file, passwd}
      PROVE  Accounts'
  <2>1. Asked' = Asked /\ (Running' <=> Running) /\ (Unmixed' <=> Unmixed)
    BY <1>1 DEF Asked, Running, Unmixed
  <2>2. \A r : Doomed(r) => Doomed(r)'
    BY <1>1 DEF Doomed
  <2>3. Running /\ Doomed(job) => Doomed(job)'
    BY <1>1 DEF Doomed
  <2>4. \A c \in Clients : HolderOK(c) => HolderOK(c)'
    BY <1>1 DEF HolderOK
  <2>5. Unmixed => Held' /\ Permitted(passwd)' /\ Permitted(file)'
    BY <1>1 DEF Accounts, Held, Permitted
  <2> QED BY <1>1, <2>1, <2>2, <2>3, <2>4, <2>5 DEF Accounts
<1>2. ASSUME queue' = queue PROVE Asked' = Asked
  BY <1>2 DEF Asked
<1>3. Unmixed => \A c \in Clients : HolderOK(c)
  BY DEF Accounts
\* A process goes on with the same slot and the same record, or ends.
<1>4. ASSUME NEW c \in Clients, Others(c), CacheStays, mixed \subseteq mixed', accounts' = accounts,
             \/ cl'[c].op = ""
             \/ /\ cl'[c].op = cl[c].op /\ cl'[c].uid = cl[c].uid
                /\ cl'[c].seq = cl[c].seq
                /\ cl[c].op = "modify" => /\ cl'[c].copy.acc = cl[c].copy.acc
                                          /\ cl'[c].copy.level = cl[c].copy.level,
             \A r \in Asked' : r \in Asked \/ Doomed(r) \/ Doomed(r)'
      PROVE  Accounts'
  <2>1. passwd' = passwd /\ file' = file /\ job' = job
    BY <1>4 DEF CacheStays
  <2>2. Unmixed' => HolderOK(c)
    BY <1>3, <1>4, Unmixing
  <2>3. Unmixed' => HolderOK(c)'
    BY <1>4, <2>1, <2>2 DEF HolderOK
  <2>4. Running' => Running /\ job'.cmd = job.cmd /\ job'.uid = job.uid
    BY <2>1 DEF Running
  <2> QED BY <1>4, <2>1, <2>3, <2>4, MoveKeepsAccounts
\* A process begins.
<1>5. ASSUME NEW c \in Clients, NEW n \in Names, Register(c, n) PROVE Accounts'
  <2>0. PICK s : s = [cmd |-> "NEW", uid |-> 0, id |-> n, c |-> c, seq |-> events + 1]
    OBVIOUS
  <2>1. /\ Others(c) /\ cl'[c].op = "register" /\ cl'[c].uid = 0
        /\ queue' = Append(queue, s) /\ UNCHANGED <<job, passwd, file, accounts, mixed>>
    BY <1>0, <1>5, <2>0, RegisterDoes DEF CacheStays
  <2>2. s \in Requests /\ s.cmd = "NEW"
    BY <1>0, <2>0, Numbers DEF Requests, Ids, Types
  <2>3. Asked' = Asked \cup {s}
    BY <1>0, <2>1, <2>2, AskedGrows
  <2>4. \A r \in Asked' : r \in Asked \/ Doomed(r)
    BY <2>2, <2>3 DEF Doomed
  <2>5. HolderOK(c)'
    BY <2>1, Numbers DEF HolderOK
  <2>6. Running' => Running /\ job'.cmd = job.cmd /\ job'.uid = job.uid
    BY <2>1 DEF Running
  <2> QED BY <2>1, <2>4, <2>5, <2>6, MoveKeepsAccounts
<1>6. ASSUME NEW c \in Clients, NEW n \in Names, NEW op \in {"delete", "kill"}, Delete(c, n, op)
      PROVE  Accounts'
  <2>0. PICK u : u = searchuser(n)
    OBVIOUS
  <2>1. /\ Others(c) /\ cl'[c].op = op /\ cl'[c].uid = u
        /\ accounts' = accounts \ {passwd[u].acc}
        /\ mixed \subseteq mixed' /\ UNCHANGED <<queue, job, passwd, file>>
    BY <1>6, <2>0, DeleteDoes DEF CacheStays
  <2>2. Asked' = Asked
    BY <1>2, <2>1
  <2>3. HolderOK(c)'
    BY <2>1 DEF HolderOK
  <2>4. Running' => Running /\ job'.cmd = job.cmd /\ job'.uid = job.uid
    BY <2>1 DEF Running
  <2> QED BY <2>1, <2>2, <2>3, <2>4, MoveKeepsAccounts
<1>7. ASSUME NEW c \in Clients, NEW n \in Names, NEW n2 \in Names, Modify(c, n, n2) PROVE Accounts'
  <2>0. PICK u : u = searchuser(n)
    OBVIOUS
  <2>1. /\ Others(c) /\ cl'[c].op = "modify" /\ cl'[c].copy = passwd[u] /\ cl'[c].uid = u
        /\ mixed \subseteq mixed' /\ UNCHANGED <<queue, job, passwd, file, accounts>>
    BY <1>7, <2>0, ModifyDoes DEF CacheStays
  <2>2. Asked' = Asked
    BY <1>2, <2>1
  <2>3. HolderOK(c)'
    BY <2>1 DEF HolderOK
  <2>4. Running' => Running /\ job'.cmd = job.cmd /\ job'.uid = job.uid
    BY <2>1 DEF Running
  <2> QED BY <2>1, <2>2, <2>3, <2>4, MoveKeepsAccounts
<1>8. ASSUME NEW c \in Clients, SendDel(c) PROVE Accounts'
  <2>0. PICK s : s = [cmd |-> "DEL", uid |-> cl[c].uid, id |-> NoName, c |-> c, seq |-> cl[c].seq]
    OBVIOUS
  <2>1. /\ cl[c].pc = "send" /\ cl[c].op = "delete" /\ GoesOn(c, "wait") /\ queue' = Append(queue, s)
        /\ CacheStays /\ UNCHANGED <<mixed, accounts>>
    BY <1>0, <1>8, <2>0, SendDelDoes
  <2>2. s \in Requests /\ s.uid = cl[c].uid
    BY <1>0, <2>0, <2>1, Numbers DEF Requests, Types, Ids, ClientStates
  <2>3. Asked' = Asked \cup {s}
    BY <1>0, <2>1, <2>2, AskedGrows
  <2>4. CASE Unmixed
    <3>1. Doomed(s)
      BY <1>3, <2>1, <2>2, <2>4 DEF HolderOK, Doomed
    <3>2. \A r \in Asked' : r \in Asked \/ Doomed(r)
      BY <2>3, <3>1
    <3> QED BY <1>4, <2>1, <3>2 DEF GoesOn
  <2>5. CASE ~Unmixed
    <3>1. \A a \in accounts' : a \in Int /\ a > 0
      BY <2>1 DEF Accounts
    <3> QED BY <2>1, <2>5, <3>1 DEF Accounts, Unmixed
  <2> QED BY <2>4, <2>5
<1>9. ASSUME NEW c \in Clients, SendSet(c) PROVE Accounts'
  <2>0. PICK s : s = [cmd |-> "SET", uid |-> cl[c].uid, id |-> cl[c].n2, c |-> c, seq |-> cl[c].seq]
    OBVIOUS
  <2>1. /\ cl[c].pc = "send" /\ cl[c].op = "modify" /\ Others(c) /\ cl'[c].op = cl[c].op
        /\ cl'[c].uid = cl[c].uid /\ cl'[c].copy = cl[c].copy /\ cl'[c].seq = cl[c].seq
        /\ queue' = Append(queue, s) \/ UNCHANGED queue
        /\ CacheStays /\ UNCHANGED <<mixed, accounts>>
    BY <1>0, <1>9, <2>0, SendSetDoes DEF GoesOn
  <2>2. s \in Requests /\ s.cmd = "SET"
    BY <1>0, <2>0, <2>1, Numbers DEF Requests, Types, Ids, ClientStates
  <2>3. \A r \in Asked' : r \in Asked \/ r = s
    BY <1>0, <1>2, <2>1, <2>2, AskedGrows
  <2>4. \A r \in Asked' : r \in Asked \/ Doomed(r)
    BY <2>2, <2>3 DEF Doomed
  <2> QED BY <1>4, <2>1, <2>4
<1>10. ASSUME NEW c \in Clients, Timeout(c) \/ Registered(c) \/ Modified(c) PROVE Accounts'
  <2>1. /\ CacheStays /\ UNCHANGED <<queue, accounts>> /\ mixed \subseteq mixed'
        /\ Others(c)
        /\ \/ cl'[c].op = ""
           \/ /\ cl'[c].op = cl[c].op /\ cl'[c].uid = cl[c].uid
              /\ cl'[c].seq = cl[c].seq
              /\ cl[c].op = "modify" => /\ cl'[c].copy.acc = cl[c].copy.acc
                                        /\ cl'[c].copy.level = cl[c].copy.level
    <3>1. CASE Timeout(c)
      BY <1>0, <3>1, TimeoutDoes, IdleFields DEF GoesOn, Ends
    <3>2. CASE Registered(c)
      BY <1>0, <3>2, RegisteredDoes, IdleFields DEF Ends
    <3>3. CASE Modified(c)
      BY <1>0, <3>3, ModifiedDoes
    <3> QED BY <1>10, <3>1, <3>2, <3>3
  <2> QED BY <1>2, <1>4, <2>1
<1>11. ASSUME NEW c \in Clients, Deleted(c) PROVE Accounts'
  BY <1>0, <1>11, DeletedKeepsAccounts
<1>12. ASSUME NEW c \in Clients, WriteBack(c) PROVE Accounts'
  BY <1>0, <1>12, WriteBackKeepsAccounts
\* userd and killd.
<1>13. ASSUME NEW c \in Clients, Kill(c) PROVE Accounts'
  <2>0. PICK q : q = [cmd |-> "DEL", uid |-> cl[c].uid, id |-> NoName, c |-> c, seq |-> cl[c].seq]
    OBVIOUS
  <2>1. /\ cl[c].pc = "send" /\ cl[c].op = "kill" /\ Unlink(q, cl[c].uid)
        /\ UNCHANGED <<queue, file, accounts>>
    BY <1>13, <2>0 DEF Kill
  <2>2. cl[c].uid \in Links /\ q.c = c /\ q.uid = cl[c].uid
    BY <1>0, <2>0, <2>1, Numbers DEF Types
  <2>3. Unmixed => Doomed(q)
    BY <1>3, <2>1, <2>2 DEF HolderOK, Doomed
  <2> QED BY <1>0, <1>2, <2>1, <2>2, <2>3, UnlinkKeepsAccounts
<1>14. CASE userd
  <2>0. PICK q, uid : q = Head(queue) /\ uid = IF q.cmd = "NEW" THEN searchnewuser ELSE q.uid
    OBVIOUS
  <2>1. queue # <<>> /\ queue' = Tail(queue) /\ Unlink(q, uid) /\ UNCHANGED <<file, accounts>>
    BY <1>14, <2>0 DEF userd
  <2>2. q \in Asked /\ Asked' \subseteq Asked
    BY <1>0, <2>0, <2>1, AskedShrinks DEF Types, Tasks
  <2>3. q \in Requests
    BY <1>0, <2>0, <2>1
  <2>4. uid \in Links /\ q.c \in Clients /\ (q.cmd # "NEW" => uid = q.uid)
    BY <2>0, <2>3, Numbers DEF IInv, ListInv, Lists, searchnewuser, Requests
  <2>5. Unmixed => Doomed(q)
    BY <2>2 DEF Accounts
  <2> QED BY <1>0, <2>1, <2>2, <2>4, <2>5, UnlinkKeepsAccounts
<1>15. CASE Link
  <2>1. /\ job'.uid = job.uid /\ job'.cmd = job.cmd /\ Running
        /\ UNCHANGED <<queue, cl, mixed, passwd, file, accounts>>
    BY <1>0, <1>15 DEF Link, Types, Jobs, Running, ghosts
  <2>2. Asked' = Asked /\ (Unmixed' <=> Unmixed)
    BY <1>2, <2>1 DEF Unmixed
  <2>3. (\A r : Doomed(r) => Doomed(r)') /\ (Doomed(job) => Doomed(job)')
    BY <2>1 DEF Doomed
  <2>4. \A c \in Clients : HolderOK(c) => HolderOK(c)'
    BY <2>1 DEF HolderOK
  <2>5. Unmixed => Held' /\ Permitted(passwd)' /\ Permitted(file)'
    BY <2>1 DEF Accounts, Held, Permitted
  <2> QED BY <2>1, <2>2, <2>3, <2>4, <2>5 DEF Accounts
<1>16. CASE Name
  BY <1>0, <1>16, NameKeepsAccounts
<1>17. CASE Restart
  <2>1. /\ queue' = <<>> /\ job' = NoJob /\ cl' = [c \in Clients |-> IdleClient]
        /\ accounts' = accounts \cap Present(passwd') /\ file' = file /\ mixed \subseteq mixed'
    BY <1>17 DEF Restart
  <2>2. PICK newer \in BOOLEAN : passwd' = load_ucache(file, newer).pw
    BY <1>17 DEF Restart, Loaded
  <2>3. Resumes(newer)'
    <3>1. accounts' \subseteq Present(passwd')
      BY <2>1
    <3>2. \A a \in accounts' : a \in Int /\ a > 0
      BY <2>1 DEF Accounts
    <3>3. Unmixed' => Permitted(file)'
      BY <2>1, Unmixing DEF Accounts, Permitted
    <3>4. file' \in [Slots -> Record] /\ passwd' = load_ucache(file', newer).pw
      BY <1>0, <2>1, <2>2 DEF Types
    <3> QED BY <2>1, <3>1, <3>2, <3>3, <3>4 DEF Resumes
  <2>4. Resumed'
    BY <2>3 DEF Resumed
  <2>5. Resumed' => Accounts'
    BY LoadedAccounts, PTL
  <2> QED BY <2>4, <2>5
<1>18. ASSUME NEW n \in Names, StartSearch(n) PROVE Accounts'
  BY <1>1, <1>18 DEF StartSearch, ghosts, cache
<1>19. CASE Hop \/ Missed \/ flush_ucache
  BY <1>1, <1>19 DEF Hop, Missed, flush_ucache, ghosts, cache
<1>20. ASSUME NEW c \in Clients, Die(c) PROVE Accounts'
  <2>1. /\ Others(c) /\ CacheStays /\ mixed \subseteq mixed' /\ accounts' = accounts
        /\ cl'[c].op = "" /\ queue' = queue
    BY <1>0, <1>20, DieDoes, IdleFields DEF Ends
  <2> QED BY <1>2, <1>4, <2>1
<1>21. CASE UNCHANGED vars
  BY <1>1, <1>21 DEF vars, ghosts, cache
<1> QED
  BY <1>5, <1>6, <1>7, <1>8, <1>9, <1>10, <1>11, <1>12, <1>13, <1>14, <1>15, <1>16, <1>17,
     <1>18, <1>19, <1>20, <1>21 DEF Next

\* A user who was told that he is registered, and whom nobody chose to delete, is found by
\* searchuser and has his permissions, whatever userd, killd and the other processes do, and
\* after a restart if he had been flushed: as long as no two operations met on a slot and
\* nobody was renamed too late or within a hash list.
THEOREM AccountsKept == Spec => []AccountKept
<1>1. Init => IInv /\ Tasks /\ Alone /\ NameInv /\ Fresh /\ Accounts
  BY InitInv, InitTasks, InitAlone, InitNames, InitFresh, InitAccounts
<1>2. IInv /\ Tasks /\ Alone /\ NameInv /\ Fresh /\ Accounts /\ [Next]_vars
        => (IInv /\ Tasks /\ Alone /\ NameInv /\ Fresh /\ Accounts)'
  BY StepInv, StepTasks, StepAlone, StepNames, StepFresh, StepAccounts
<1>3. IInv /\ NameInv /\ Accounts => AccountKept
  <2> SUFFICES ASSUME IInv, NameInv, Accounts, Unmixed, job.step = "none", NEW a \in accounts
               PROVE  \E u \in Slots : /\ passwd[u].acc = a /\ passwd[u].level = 1
                                       /\ searchuser(passwd[u].id) = u
    BY DEF AccountKept, Unmixed
  <2>1. PICK u \in Slots : passwd[u].acc = a /\ passwd[u].level = 1 /\ passwd[u].id # NoName
    BY DEF Accounts, Held
  <2>2. Leading /\ Unique /\ ~Moving(u)
    BY DEF NameInv, Named, Ordinary, Unmixed, Moving, Running
  <2>3. PICK n \in Names : n = passwd[u].id
    BY <2>1 DEF IInv, Types, Record, Ids
  <2>4. u \in In(ucache_hash[n])
    BY <2>1, <2>2, <2>3 DEF Leading
  <2>5. searchuser(n) \in Slots /\ passwd[searchuser(n)].id = n
    BY <2>3, <2>4, FoundName
  <2>6. searchuser(n) = u
    BY <2>1, <2>2, <2>3, <2>5 DEF Unique
  <2> QED BY <2>1, <2>3, <2>6
<1> QED BY <1>1, <1>2, <1>3, PTL DEF Spec
=============================================================================
