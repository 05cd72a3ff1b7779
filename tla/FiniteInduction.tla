-------------------------- MODULE FiniteInduction --------------------------
(***************************************************************************)
(* Induction over 0..N stated for sets, and the existence of functions     *)
(* defined by recursion over 0..N: what the proofs about the lists of the  *)
(* caches need to know of the recursive functions that walk them.          *)
(***************************************************************************)
EXTENDS Integers, WellFoundedInduction, TLAPS

LessOnNat == {ss \in Nat \X Nat : ss[1] < ss[2]}

\* A set of numbers that is not empty has a least one.
LEMMA LeastElement ==
  ASSUME NEW T \in SUBSET Nat, T # {}
  PROVE  \E x \in T : \A y \in T : x <= y
<1>1. IsWellFoundedOn(LessOnNat, Nat)
  BY NatLessThanWellFounded DEF OpToRel, LessOnNat
<1>2. \A x, y \in Nat : <<y, x>> \in LessOnNat <=> y < x
  BY DEF LessOnNat
<1>3. \E x \in T : \A y \in T : <<y, x>> \notin LessOnNat
  BY <1>1, WFMin, Zenon
<1>4. PICK x \in T : \A y \in T : <<y, x>> \notin LessOnNat
  BY <1>3
<1>5. \A y \in T : ~(y < x)
  BY <1>2, <1>4
<1> QED
  BY <1>4, <1>5

\* What holds of 0 and goes from each number to the next holds up to N.
LEMMA SetInduction ==
  ASSUME NEW N \in Nat, NEW T,
         0 \in T, \A j \in 1..N : j-1 \in T => j \in T
  PROVE  0..N \subseteq T
<1> DEFINE Bad == {j \in 0..N : j \notin T}
<1>1. Bad \in SUBSET Nat
  OBVIOUS
<1>2. SUFFICES ASSUME Bad # {} PROVE FALSE
  OBVIOUS
<1>3. \E x \in Bad : \A y \in Bad : x <= y
  <2> HIDE DEF Bad
  <2> QED BY <1>1, <1>2, LeastElement
<1>4. PICK x \in Bad : \A y \in Bad : x <= y
  BY <1>3
<1>5. x \in 1..N /\ x-1 \in 0..N /\ x-1 \notin Bad
  BY <1>4
<1> QED
  BY <1>4, <1>5

\* f is x0 at 0, and each value comes from the one before by F.
Recursion(N, F, x0, f) == f = [j \in 0..N |-> IF j = 0 THEN x0 ELSE F[<<j, f[j-1]>>]]

\* A function over 0..N is defined by its first value and the step F from
\* each value to the next, and its values are where the steps lead.
LEMMA RecursiveFunction ==
  ASSUME NEW N \in Nat, NEW G, NEW F, NEW x0,
         x0 \in G[0], \A j \in 1..N : \A x \in G[j-1] : F[<<j, x>>] \in G[j]
  PROVE  \E f : /\ Recursion(N, F, x0, f)
                /\ \A j \in 0..N : f[j] \in G[j]
<1> DEFINE Def(n, f) == /\ f = [j \in 0..n |-> IF j = 0 THEN x0 ELSE F[<<j, f[j-1]>>]]
                        /\ \A j \in 0..n : f[j] \in G[j]
           T == {n \in 0..N : \E f : Def(n, f)}
<1>1. 0 \in T
  <2>1. Def(0, [j \in 0..0 |-> x0])
    BY SMT
  <2>2. \E f : Def(0, f)
    BY <2>1
  <2> HIDE DEF Def
  <2> QED BY <2>2
<1>2. ASSUME NEW n \in 1..N, n-1 \in T PROVE n \in T
  <2>1. PICK f : Def(n-1, f)
    BY <1>2
  <2> DEFINE g == [j \in 0..n |-> IF j \in 0..n-1 THEN f[j] ELSE F[<<n, f[n-1]>>]]
  <2>2. n \in Nat /\ n-1 \in 0..n-1
    OBVIOUS
  <2>3. \A j \in 0..n-1 : f[j] = (IF j = 0 THEN x0 ELSE F[<<j, f[j-1]>>])
    BY <2>1
  <2>4. (\A j \in 0..n-1 : g[j] = f[j]) /\ g[n] = F[<<n, f[n-1]>>]
    BY <2>2
  <2>5. \A j \in 0..n : g[j] \in G[j]
    <3>1. F[<<n, f[n-1]>>] \in G[n]
      BY <2>1, <2>2
    <3> HIDE DEF g
    <3>2. \A j \in 0..n-1 : g[j] \in G[j]
      BY <2>1, <2>4
    <3>3. \A j \in 0..n : j \in 0..n-1 \/ j = n
      BY <2>2
    <3> QED BY <2>4, <3>1, <3>2, <3>3
  <2>6. \A j \in 0..n : g[j] = (IF j = 0 THEN x0 ELSE F[<<j, g[j-1]>>])
    <3> HIDE DEF g
    <3>1. ASSUME NEW j \in 0..n-1
          PROVE  g[j] = (IF j = 0 THEN x0 ELSE F[<<j, g[j-1]>>])
      <4>1. j = 0 \/ j-1 \in 0..n-1
        OBVIOUS
      <4> QED BY <2>3, <2>4, <4>1
    <3>2. g[n] = (IF n = 0 THEN x0 ELSE F[<<n, g[n-1]>>])
      BY <2>2, <2>4
    <3> QED BY <3>1, <3>2
  <2>7. g = [j \in 0..n |-> IF j = 0 THEN x0 ELSE F[<<j, g[j-1]>>]]
    <3>1. g = [j \in 0..n |-> g[j]]
      OBVIOUS
    <3> HIDE DEF g
    <3> QED BY <2>6, <3>1, Zenon
  <2>8. \E h : Def(n, h)
    BY <2>5, <2>7
  <2> HIDE DEF Def
  <2> QED BY <2>8
<1>3. 0..N \subseteq T
  <2> HIDE DEF T
  <2> QED BY <1>1, <1>2, SetInduction
<1>4. \E f : Def(N, f)
  BY <1>3
<1> QED BY <1>4 DEF Recursion
=============================================================================
