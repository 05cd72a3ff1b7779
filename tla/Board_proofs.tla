---------------------------- MODULE Board_proofs ----------------------------
(***************************************************************************)
(* The articles of a board: proofs about module Board.                     *)
(*                                                                         *)
(* That .DIR is sorted by id is not inductive as it stands: an article     *)
(* could come back from .DELETED, or from a process that has it in hand,   *)
(* with an id that .DIR has not reached yet.  The invariant (FilesOrdered, *)
(* ProcsOrdered) bounds the ids of both lists and of the processes by the  *)
(* last id given.  An insertion keeps the order because the bisection      *)
(* stops between the smaller ids and the larger ones (SearchDef); what the *)
(* loop has left and what it has excluded at each turn is Narrowed, and    *)
(* FiniteInduction leads from turn to turn.  A record that is written      *)
(* where it was read keeps it because an edit is of an article, so that    *)
(* its place is not behind the end of the file (Ready).                    *)
(*                                                                         *)
(* That bodies and lists agree is only said of articles in nobody's hands; *)
(* the second invariant, JInv, says of every article where it is: one with *)
(* its M is in .DIR once or in one process's hands (Placed), and Carries   *)
(* says at which steps a process has it.  A deletion gets hold of what was *)
(* asked for, by its place or its id, because an id stands for one article *)
(* in all lists and hands (OneName).                                       *)
(*                                                                         *)
(* That .ORIGIN lists the threads of .DIR is only said when nobody is at   *)
(* work.  Until then the two differ by the threads that processes are to   *)
(* enter (Coming) and to take out (Going); while the flag is set one       *)
(* process makes .ORIGIN anew from the .DIR that it saw (MadeAnew), and    *)
(* what comes to .DIR meanwhile must be entered after it (Covered).  That  *)
(* is Origins, the third invariant's main part.                            *)
(***************************************************************************)
EXTENDS Board, FiniteInduction, SequenceTheorems, FiniteSetTheorems

RecordsTo(n) == [art : 0..n, kind : {"", "M", "D"}, id : Nat, root : BOOLEAN]
Letters == {"M", "D", "none"}

SortedSeq(s) == \A i, j \in 1..Len(s) : i < j => s[i].id < s[j].id
Below(s, n) == \A i \in 1..Len(s) : s[i].id <= n

-----------------------------------------------------------------------------
(* Operators *)

\* More articles make more records.
LEMMA RecordsGrow ==
  ASSUME NEW m \in Nat, NEW n \in Nat, m <= n
  PROVE  RecordsTo(m) \subseteq RecordsTo(n)
<1> SUFFICES ASSUME NEW r \in RecordsTo(m) PROVE r \in RecordsTo(n)
  OBVIOUS
<1>1. 0..m \subseteq 0..n
  OBVIOUS
<1> QED
  BY <1>1 DEF RecordsTo

LEMMA ZeroRecord == ASSUME NEW n \in Nat PROVE Zero \in RecordsTo(n) /\ Zero.id = 0
BY DEF Zero, RecordsTo

\* A mapping of n records.
LEMMA ViewDef ==
  ASSUME NEW a \in Nat, NEW s \in Seq(RecordsTo(a)), NEW n \in Nat
  PROVE  /\ View(s, n) \in Seq(RecordsTo(a)) /\ Len(View(s, n)) = n
         /\ \A i \in 1..n : /\ View(s, n)[i] \in RecordsTo(a)
                            /\ View(s, n)[i] = IF i <= Len(s) THEN s[i] ELSE Zero
<1>1. View(s, n) \in [1..n -> RecordsTo(a)]
  BY ZeroRecord DEF View
<1>2. \A i \in 1..n : View(s, n)[i] = IF i <= Len(s) THEN s[i] ELSE Zero
  BY DEF View
<1> QED
  BY <1>1, <1>2

\* Records i to j are gone, the others keep their order.
LEMMA RemovedDef ==
  ASSUME NEW a \in Nat, NEW s \in Seq(RecordsTo(a)), NEW n \in Nat,
         NEW i \in 1..n, NEW j \in i..n
  PROVE  /\ Removed(s, n, i, j) \in Seq(RecordsTo(a))
         /\ Len(Removed(s, n, i, j)) = n - (j-i+1)
         /\ \A k \in 1..n-(j-i+1) :
              Removed(s, n, i, j)[k] = View(s, n)[IF k < i THEN k ELSE k + (j-i+1)]
<1> DEFINE m == n - (j-i+1)
           at(k) == IF k < i THEN k ELSE k + (j-i+1)
<1>1. m \in Nat /\ \A k \in 1..m : at(k) \in 1..n
  OBVIOUS
<1>2. \A k \in 1..m : View(s, n)[at(k)] \in RecordsTo(a)
  BY <1>1, ViewDef
<1>3. Removed(s, n, i, j) = [k \in 1..m |-> View(s, n)[at(k)]]
  BY DEF Removed
<1>4. Removed(s, n, i, j) \in [1..m -> RecordsTo(a)]
  <2> HIDE DEF m, at
  <2> QED BY <1>2, <1>3
<1>5. Len(Removed(s, n, i, j)) = m /\ Removed(s, n, i, j) \in Seq(RecordsTo(a))
  <2> HIDE DEF m
  <2> QED BY <1>1, <1>4
<1>6. \A k \in 1..m : Removed(s, n, i, j)[k] = View(s, n)[at(k)]
  <2> HIDE DEF m, at
  <2> QED BY <1>3
<1> QED
  BY <1>5, <1>6

\* What is left of a sorted file is sorted, if the size is not too large.
LEMMA RemovedSorted ==
  ASSUME NEW a \in Nat, NEW s \in Seq(RecordsTo(a)), NEW n \in Nat, n <= Len(s),
         NEW i \in 1..n, NEW j \in i..n, NEW b \in Nat, SortedSeq(s), Below(s, b)
  PROVE  SortedSeq(Removed(s, n, i, j)) /\ Below(Removed(s, n, i, j), b)
<1> DEFINE m == n - (j-i+1)
           at(k) == IF k < i THEN k ELSE k + (j-i+1)
           t == Removed(s, n, i, j)
<1>1. /\ m \in Nat
      /\ \A k \in 1..m : at(k) \in 1..n /\ at(k) \in 1..Len(s)
      /\ \A k, l \in 1..m : k < l => at(k) < at(l)
  OBVIOUS
<1>2. Len(t) = m /\ \A k \in 1..m : t[k] = View(s, n)[at(k)]
  BY RemovedDef
<1>3. \A k \in 1..n : View(s, n)[k] = s[k]
  BY DEF View
<1>4. \A k \in 1..m : t[k] = s[at(k)]
  <2> HIDE DEF t, m, at
  <2> QED BY <1>1, <1>2, <1>3
<1> HIDE DEF t, m, at
<1>5. SortedSeq(t)
  BY <1>1, <1>2, <1>4 DEF SortedSeq
<1>6. Below(t, b)
  BY <1>1, <1>2, <1>4 DEF Below
<1> QED
  BY <1>5, <1>6 DEF t

\* A larger id is a bound too.
LEMMA BelowMore ==
  ASSUME NEW a \in Nat, NEW s \in Seq(RecordsTo(a)), NEW b \in Nat, NEW c \in Nat,
         Below(s, b), b <= c
  PROVE  Below(s, c)
<1>1. \A i \in 1..Len(s) : s[i].id \in Nat
  <2>1. \A i \in 1..Len(s) : s[i] \in RecordsTo(a)
    OBVIOUS
  <2> QED BY <2>1 DEF RecordsTo
<1> QED
  BY <1>1 DEF Below

\* One record is written.
LEMMA SubstituteDef ==
  ASSUME NEW a \in Nat, NEW s \in Seq(RecordsTo(a)), NEW i \in Nat, NEW r \in RecordsTo(a)
  PROVE  substitute_record(s, i, r) \in Seq(RecordsTo(a))
<1>1. PICK n \in Nat : n = IF i > Len(s) THEN i ELSE Len(s)
  OBVIOUS
<1>2. PICK v : v = View(s, n)
  OBVIOUS
<1>3. v \in [1..n -> RecordsTo(a)]
  BY <1>2, ZeroRecord DEF View
<1>4. substitute_record(s, i, r) = [v EXCEPT ![i] = r]
  BY <1>1, <1>2 DEF substitute_record, ReplaceAt
<1>5. [v EXCEPT ![i] = r] \in [1..n -> RecordsTo(a)]
  BY <1>3
<1>6. \A w \in [1..n -> RecordsTo(a)] : w \in Seq(RecordsTo(a))
  OBVIOUS
<1> QED
  BY <1>4, <1>5, <1>6, Zenon

\* It is written as it was.
LEMMA SubstituteSame ==
  ASSUME NEW a \in Nat, NEW s \in Seq(RecordsTo(a)), NEW i \in 1..Len(s)
  PROVE  substitute_record(s, i, s[i]) = s
<1>1. PICK v : v = View(s, Len(s))
  OBVIOUS
<1>2. substitute_record(s, i, s[i]) = [v EXCEPT ![i] = s[i]]
  BY <1>1 DEF substitute_record, ReplaceAt
<1>3. v = [k \in 1..Len(s) |-> IF k <= Len(s) THEN s[k] ELSE Zero]
  BY <1>1 DEF View
<1>4. v = s
  BY <1>3
<1> QED
  BY <1>2, <1>4

\* It has an id within the bound: the others too.
LEMMA SubstituteBelow ==
  ASSUME NEW a \in Nat, NEW s \in Seq(RecordsTo(a)), NEW i \in Nat, NEW r \in RecordsTo(a),
         NEW b \in Nat, Below(s, b), r.id <= b
  PROVE  Below(substitute_record(s, i, r), b)
<1>1. PICK n \in Nat : n = IF i > Len(s) THEN i ELSE Len(s)
  OBVIOUS
<1>2. PICK v : v = View(s, n)
  OBVIOUS
<1>3. v \in Seq(RecordsTo(a)) /\ Len(v) = n
      /\ \A k \in 1..n : v[k] = IF k <= Len(s) THEN s[k] ELSE Zero
  <2>1. \A k \in 1..n : v[k] = IF k <= Len(s) THEN s[k] ELSE Zero
    BY <1>2 DEF View
  <2> QED BY <1>2, <2>1, ViewDef
<1>4. \A k \in 1..n : v[k].id <= b
  <2> SUFFICES ASSUME NEW k \in 1..n PROVE v[k].id <= b
    OBVIOUS
  <2>1. CASE k <= Len(s)
    BY <1>3, <2>1 DEF Below
  <2>2. CASE ~(k <= Len(s))
    BY <1>3, <2>2, ZeroRecord
  <2> QED BY <2>1, <2>2
<1>5. PICK z : z = [v EXCEPT ![i] = r]
  OBVIOUS
<1>6. substitute_record(s, i, r) = z
  BY <1>1, <1>2, <1>5 DEF substitute_record, ReplaceAt
<1>7. v \in [1..n -> RecordsTo(a)]
  BY <1>3
<1>8. z \in [1..n -> RecordsTo(a)] /\ \A k \in 1..n : z[k] = IF k = i THEN r ELSE v[k]
  BY <1>5, <1>7
<1>9. Len(z) = n
  BY <1>8
<1> QED
  BY <1>4, <1>6, <1>8, <1>9 DEF Below

-----------------------------------------------------------------------------
(* The bisection *)

\* The bisection after j turns: the record has been found or the interval is
\* smaller by j; in a sorted file what is left of it is less, what is right of it
\* is more.
Narrowed(s, id, j, b) ==
    /\ b \in (1..Len(s)+1) \X (0..Len(s))
    /\ \/ b[1] = b[2] /\ s[b[1]].id = id
       \/ b[1] <= b[2] + 1 /\ b[2] - b[1] < Len(s) - j
    /\ SortedSeq(s) => /\ \A k \in 1..Len(s) : k < b[1] => s[k].id < id
                       /\ \A k \in 1..Len(s) : k > b[2] => id < s[k].id

LEMMA HalvedNarrows ==
  ASSUME NEW a \in Nat, NEW s \in Seq(RecordsTo(a)), NEW id \in Nat,
         NEW j \in 1..Len(s), NEW b, Narrowed(s, id, j-1, b)
  PROVE  Narrowed(s, id, j, Halved(s, id, b))
<1> DEFINE mid == (b[1] + b[2]) \div 2
<1>1. /\ b \in (1..Len(s)+1) \X (0..Len(s)) /\ b = <<b[1], b[2]>>
      /\ b[1] \in 1..Len(s)+1 /\ b[2] \in 0..Len(s) /\ Len(s) \in Nat
  BY DEF Narrowed
<1>2. \A k \in 1..Len(s) : s[k].id \in Nat
  <2>1. \A k \in 1..Len(s) : s[k] \in RecordsTo(a)
    OBVIOUS
  <2> QED BY <2>1 DEF RecordsTo
<1>3. CASE b[1] > b[2]
  <2>1. Halved(s, id, b) = b
    BY <1>3 DEF Halved
  <2>2. b[2] - b[1] < Len(s) - j /\ b[1] <= b[2] + 1
    BY <1>1, <1>3 DEF Narrowed
  <2> QED BY <2>1, <2>2 DEF Narrowed
<1>4. CASE b[1] <= b[2]
  <2>1. mid \in 1..Len(s) /\ b[1] <= mid /\ mid <= b[2]
    BY <1>1, <1>4
  <2>a. Halved(s, id, b) = IF b[1] > b[2] THEN b
                          ELSE IF s[mid].id = id THEN <<mid, mid>>
                          ELSE IF id < s[mid].id THEN <<b[1], mid - 1>> ELSE <<mid + 1, b[2]>>
    BY DEF Halved
  <2>b. ~(b[1] > b[2]) /\ s[mid].id \in Nat
    BY <1>1, <1>2, <1>4, <2>1
  <2> HIDE DEF mid
  <2>2. CASE s[mid].id = id
    <3>1. Halved(s, id, b) = <<mid, mid>>
      BY <2>a, <2>b, <2>2
    <3>2. SortedSeq(s) => /\ \A k \in 1..Len(s) : k < mid => s[k].id < id
                          /\ \A k \in 1..Len(s) : k > mid => id < s[k].id
      BY <2>1, <2>2 DEF SortedSeq
    <3> QED BY <2>1, <2>2, <3>1, <3>2 DEF Narrowed
  <2>3. CASE id < s[mid].id
    <3>1. Halved(s, id, b) = <<b[1], mid - 1>>
      BY <2>a, <2>b, <2>3
    <3>2. SortedSeq(s) => \A k \in 1..Len(s) : k > mid - 1 => id < s[k].id
      <4> SUFFICES ASSUME SortedSeq(s), NEW k \in 1..Len(s), k > mid - 1 PROVE id < s[k].id
        OBVIOUS
      <4>1. k = mid \/ s[mid].id < s[k].id
        BY <2>1 DEF SortedSeq
      <4> QED BY <1>2, <2>1, <2>3, <4>1
    <3>3. b[2] - b[1] < Len(s) - (j-1) \/ (b[1] = b[2] /\ s[b[1]].id = id)
      BY DEF Narrowed
    <3>4. mid - 1 - b[1] < Len(s) - j
      <4>1. CASE b[1] = b[2] /\ s[b[1]].id = id
        <5>1. mid = b[1]
          BY <1>1, <2>1, <4>1
        <5> QED BY <1>2, <2>1, <2>3, <4>1, <5>1
      <4>2. CASE b[2] - b[1] < Len(s) - (j-1)
        BY <1>1, <2>1, <4>2
      <4> QED BY <3>3, <4>1, <4>2
    <3>5. SortedSeq(s) => \A k \in 1..Len(s) : k < b[1] => s[k].id < id
      BY DEF Narrowed
    <3>6. <<b[1], mid - 1>> \in (1..Len(s)+1) \X (0..Len(s)) /\ b[1] <= mid - 1 + 1
      BY <1>1, <2>1
    <3> QED BY <3>1, <3>2, <3>4, <3>5, <3>6 DEF Narrowed
  <2>4. CASE s[mid].id # id /\ ~(id < s[mid].id)
    <3>1. Halved(s, id, b) = <<mid + 1, b[2]>>
      BY <2>a, <2>b, <2>4
    <3>2. SortedSeq(s) => \A k \in 1..Len(s) : k < mid + 1 => s[k].id < id
      <4> SUFFICES ASSUME SortedSeq(s), NEW k \in 1..Len(s), k < mid + 1 PROVE s[k].id < id
        OBVIOUS
      <4>1. k = mid \/ s[k].id < s[mid].id
        BY <2>1 DEF SortedSeq
      <4> QED BY <1>2, <2>1, <2>4, <4>1
    <3>3. b[2] - b[1] < Len(s) - (j-1) \/ (b[1] = b[2] /\ s[b[1]].id = id)
      BY DEF Narrowed
    <3>4. b[2] - (mid + 1) < Len(s) - j
      <4>1. CASE b[1] = b[2] /\ s[b[1]].id = id
        <5>1. mid = b[1]
          BY <1>1, <2>1, <4>1
        <5> QED BY <2>4, <4>1, <5>1
      <4>2. CASE b[2] - b[1] < Len(s) - (j-1)
        BY <1>1, <2>1, <4>2
      <4> QED BY <3>3, <4>1, <4>2
    <3>5. SortedSeq(s) => \A k \in 1..Len(s) : k > b[2] => id < s[k].id
      BY DEF Narrowed
    <3>6. <<mid + 1, b[2]>> \in (1..Len(s)+1) \X (0..Len(s)) /\ mid + 1 <= b[2] + 1
      BY <1>1, <2>1
    <3> QED BY <3>1, <3>2, <3>4, <3>5, <3>6 DEF Narrowed
  <2> QED BY <2>2, <2>3, <2>4
<1> QED
  BY <1>1, <1>3, <1>4

\* Where the bisection ends: at the record, or between two records.
LEMMA BisectDef ==
  ASSUME NEW a \in Nat, NEW s \in Seq(RecordsTo(a)), NEW id \in Nat
  PROVE  Narrowed(s, id, Len(s), Bisect(s, id))
<1> DEFINE N == Len(s)
           Pairs == (1..N+1) \X (0..N)
           G == [j \in 0..N |-> {b \in Pairs : Narrowed(s, id, j, b)}]
           F == [x \in (1..N) \X Pairs |-> Halved(s, id, x[2])]
           Def(f) == f = [n \in 0..N |-> IF n = 0 THEN <<1, N>> ELSE Halved(s, id, f[n-1])]
           Eq(f) == /\ Recursion(N, F, <<1, N>>, f)
                    /\ \A j \in 0..N : f[j] \in G[j]
<1>1. N \in Nat
  OBVIOUS
<1>2. \A j \in 0..N : \A b : b \in G[j] <=> Narrowed(s, id, j, b)
  BY DEF Narrowed
<1>3. Narrowed(s, id, 0, <<1, N>>)
  BY <1>1 DEF Narrowed
<1>4. \A j \in 1..N : \A b \in Pairs : F[<<j, b>>] = Halved(s, id, b)
  OBVIOUS
<1>5. ASSUME NEW j \in 1..N, NEW b \in G[j-1]
      PROVE  F[<<j, b>>] = Halved(s, id, b) /\ F[<<j, b>>] \in G[j]
  <2>1. j \in 1..Len(s) /\ j-1 \in 0..N /\ j \in 0..N
    OBVIOUS
  <2>2. b \in Pairs /\ Narrowed(s, id, j-1, b)
    BY <2>1
  <2>3. Narrowed(s, id, j, Halved(s, id, b))
    BY <2>1, <2>2, HalvedNarrows
  <2> HIDE DEF F, G, N, Pairs
  <2> QED BY <1>2, <1>4, <2>1, <2>2, <2>3
<1>6. \E f : Eq(f)
  <2>1. <<1, N>> \in G[0]
    BY <1>1, <1>2, <1>3
  <2>2. \A j \in 1..N : \A b \in G[j-1] : F[<<j, b>>] \in G[j]
    BY <1>5
  <2> HIDE DEF F, G, N
  <2> QED BY <1>1, <2>1, <2>2, RecursiveFunction, Zenon
<1>7. PICK f : Eq(f)
  BY <1>6
<1>8. f = [j \in 0..N |-> IF j = 0 THEN <<1, N>> ELSE F[<<j, f[j-1]>>]]
  BY <1>7 DEF Recursion
<1>9. \A j \in 1..N : F[<<j, f[j-1]>>] = Halved(s, id, f[j-1])
  <2> HIDE DEF F, G
  <2>1. \A j \in 1..N : f[j-1] \in G[j-1]
    BY <1>1, <1>7
  <2> QED BY <1>5, <2>1
<1>10. Def(f)
  <2> HIDE DEF F, G, N
  <2>1. \A j \in 0..N : (IF j = 0 THEN <<1, N>> ELSE F[<<j, f[j-1]>>])
                      = (IF j = 0 THEN <<1, N>> ELSE Halved(s, id, f[j-1]))
    BY <1>1, <1>9
  <2> QED BY <1>8, <2>1
<1> DEFINE B == CHOOSE g : Def(g)
<1>11. Def(B)
  <2> HIDE DEF Def
  <2> QED BY <1>10
<1>12. Bisect(s, id) = B[N]
  BY DEF Bisect
<1> DEFINE T == {j \in 0..N : B[j] \in G[j]}
<1>13. B[0] = <<1, N>> /\ \A j \in 1..N : B[j] = Halved(s, id, B[j-1])
  <2>1. B = [j \in 0..N |-> IF j = 0 THEN <<1, N>> ELSE Halved(s, id, B[j-1])]
    BY <1>11, Zenon
  <2> DEFINE H(j) == IF j = 0 THEN <<1, N>> ELSE Halved(s, id, B[j-1])
  <2>2. B = [j \in 0..N |-> H(j)]
    BY <2>1
  <2> HIDE DEF B, N, H
  <2>3. 0 \in 0..N /\ \A j \in 1..N : j \in 0..N
    BY <1>1
  <2>4. B[0] = H(0) /\ \A j \in 1..N : B[j] = H(j)
    BY <2>2, <2>3
  <2> QED BY <2>4 DEF H
<1> HIDE DEF B
<1>14. 0..N \subseteq T
  <2>1. 0 \in T
    <3>1. 0 \in 0..N
      BY <1>1
    <3>2. B[0] \in G[0]
      <4> HIDE DEF G
      <4> QED BY <1>2, <1>3, <1>13, <3>1
    <3> QED BY <3>1, <3>2
  <2>2. ASSUME NEW j \in 1..N, j-1 \in T PROVE j \in T
    <3> HIDE DEF F, G
    <3>1. B[j-1] \in G[j-1] /\ j \in 0..N
      BY <2>2
    <3>2. B[j] \in G[j]
      BY <1>5, <1>13, <3>1
    <3> QED BY <3>1, <3>2
  <2> HIDE DEF T
  <2> QED BY <1>1, <2>1, <2>2, SetInduction
<1>15. B[N] \in G[N] /\ N \in 0..N
  BY <1>1, <1>14
<1> HIDE DEF G
<1> QED
  BY <1>2, <1>12, <1>15

\* Where a record is found, if anywhere; in a sorted file, where it is not found
\* is the place for it.
LEMMA SearchDef ==
  ASSUME NEW a \in Nat, NEW s \in Seq(RecordsTo(a)), NEW id \in Nat
  PROVE  /\ Search_Bin(s, id) \in 0..Len(s)
         /\ Bisect(s, id)[1] \in 1..Len(s)+1
         /\ SortedSeq(s) /\ Search_Bin(s, id) = 0 =>
              /\ \A k \in 1..Len(s) : k < Bisect(s, id)[1] => s[k].id < id
              /\ \A k \in 1..Len(s) : k >= Bisect(s, id)[1] => id < s[k].id
<1> DEFINE b == Bisect(s, id)
<1>1. Narrowed(s, id, Len(s), b)
  BY BisectDef
<1> HIDE DEF b
<1>2. b[1] \in 1..Len(s)+1 /\ b[2] \in 0..Len(s) /\ Len(s) \in Nat
  BY <1>1 DEF Narrowed
<1>3. Search_Bin(s, id) = IF b[1] = b[2] /\ s[b[1]].id = id THEN b[1] ELSE 0
  BY DEF Search_Bin, b
<1>4. Search_Bin(s, id) \in 0..Len(s)
  BY <1>2, <1>3
<1>5. ASSUME SortedSeq(s), Search_Bin(s, id) = 0
      PROVE  /\ \A k \in 1..Len(s) : k < b[1] => s[k].id < id
             /\ \A k \in 1..Len(s) : k >= b[1] => id < s[k].id
  <2>1. ~(b[1] = b[2] /\ s[b[1]].id = id)
    BY <1>2, <1>3, <1>5
  <2>2. b[2] < b[1]
    BY <1>1, <1>2, <2>1 DEF Narrowed
  <2> QED BY <1>1, <1>2, <1>5, <2>2 DEF Narrowed
<1> QED
  BY <1>2, <1>4, <1>5 DEF b

\* prepare_write_dir finds a place of the file or none.
LEMMA LocateDef ==
  ASSUME NEW a \in Nat, NEW s \in Seq(RecordsTo(a)), NEW i \in Nat, NEW r \in RecordsTo(a)
  PROVE  Locate(s, i, r) \in 0..Len(s)
<1>1. r.id \in Nat
  BY DEF RecordsTo
<1>2. Search_Bin(s, r.id) \in 0..Len(s)
  BY <1>1, SearchDef
<1> QED
  BY <1>2 DEF Locate

\* One record more, at i.
LEMMA InsertAtDef ==
  ASSUME NEW R, NEW s \in Seq(R), NEW i \in 1..Len(s)+1, NEW r \in R
  PROVE  /\ InsertAt(s, i, r) \in Seq(R) /\ Len(InsertAt(s, i, r)) = Len(s)+1
         /\ \A j \in 1..Len(s)+1 :
              InsertAt(s, i, r)[j] = IF j < i THEN s[j] ELSE IF j = i THEN r ELSE s[j-1]
<1> DEFINE a == SubSeq(s, 1, i-1)
           b == SubSeq(s, i, Len(s))
<1>1. /\ a \in Seq(R) /\ Len(a) = i-1
      /\ \A j \in 1..i-1 : a[j] = s[j]
  OBVIOUS
<1>2. /\ b \in Seq(R) /\ Len(b) = Len(s)-i+1
      /\ \A j \in 1..Len(s)-i+1 : b[j] = s[j+i-1]
  OBVIOUS
<1>3. InsertAt(s, i, r) = a \o <<r>> \o b
  BY DEF InsertAt
<1> HIDE DEF a, b
<1> DEFINE c == a \o <<r>>
<1>4. /\ c \in Seq(R) /\ Len(c) = i
      /\ \A j \in 1..i : c[j] = IF j < i THEN s[j] ELSE r
  BY <1>1
<1> HIDE DEF c
<1>5. /\ c \o b \in Seq(R) /\ Len(c \o b) = Len(s)+1
      /\ \A j \in 1..Len(s)+1 : (c \o b)[j] = IF j <= i THEN c[j] ELSE b[j-i]
  <2>1. Len(c) + Len(b) = Len(s)+1
    BY <1>2, <1>4
  <2>2. /\ c \o b \in Seq(R) /\ Len(c \o b) = Len(c) + Len(b)
        /\ \A j \in 1..Len(c) + Len(b) :
             (c \o b)[j] = IF j <= Len(c) THEN c[j] ELSE b[j - Len(c)]
    BY <1>2, <1>4, ConcatProperties
  <2> QED BY <1>4, <2>1, <2>2
<1>6. \A j \in 1..Len(s)+1 :
        (c \o b)[j] = IF j < i THEN s[j] ELSE IF j = i THEN r ELSE s[j-1]
  BY <1>2, <1>4, <1>5
<1> QED BY <1>3, <1>5, <1>6 DEF c

\* A record with the largest id keeps the file sorted at its end.
LEMMA AppendSorted ==
  ASSUME NEW a \in Nat, NEW s \in Seq(RecordsTo(a)), NEW r \in RecordsTo(a), NEW b \in Nat,
         SortedSeq(s), Below(s, b), r.id = b + 1
  PROVE  SortedSeq(Append(s, r)) /\ Below(Append(s, r), b + 1)
<1> DEFINE t == Append(s, r)
<1>1. /\ Len(s) \in Nat /\ Len(t) = Len(s) + 1
      /\ (\A i \in 1..Len(s) : t[i] = s[i]) /\ t[Len(s)+1] = r
  OBVIOUS
<1>2. \A i \in 1..Len(s) : s[i].id \in Nat /\ s[i].id <= b
  <2>1. \A i \in 1..Len(s) : s[i] \in RecordsTo(a)
    OBVIOUS
  <2> QED BY <2>1 DEF Below, RecordsTo
<1> HIDE DEF t
<1>3. \A i \in 1..Len(t) : i \in 1..Len(s) \/ i = Len(s)+1
  BY <1>1
<1>4. SortedSeq(t)
  BY <1>1, <1>2, <1>3 DEF SortedSeq
<1>5. Below(t, b + 1)
  BY <1>1, <1>2, <1>3 DEF Below
<1> QED
  BY <1>4, <1>5 DEF t

\* An undeleted record: the file stays sorted, and no id is larger than the last one.
NewId(s, r) == IF Renumbers(s, r) THEN nowid + 1 ELSE nowid

LEMMA InsertedDef ==
  ASSUME NEW a \in Nat, NEW s \in Seq(RecordsTo(a)), NEW r \in RecordsTo(a), nowid \in Nat
  PROVE  /\ Inserted(s, r) \in Seq(RecordsTo(a)) /\ NewId(s, r) \in Nat
         /\ nowid <= NewId(s, r) /\ Renumbered(r) \in RecordsTo(a)
         /\ SortedSeq(s) /\ Below(s, nowid) /\ r.id <= nowid =>
              SortedSeq(Inserted(s, r)) /\ Below(Inserted(s, r), NewId(s, r))
<1>1. r.id \in Nat
  BY DEF RecordsTo
<1>2. Renumbered(r) \in RecordsTo(a) /\ Renumbered(r).id = nowid + 1
  <2> DEFINE q == [r EXCEPT !.id = nowid + 1]
  <2>1. nowid + 1 \in Nat
    OBVIOUS
  <2>2. q \in RecordsTo(a)
    BY <2>1 DEF RecordsTo
  <2>3. Renumbered(r) = [q EXCEPT !.root = TRUE] /\ Renumbered(r).id = nowid + 1
    BY DEF Renumbered, RecordsTo
  <2> HIDE DEF q
  <2>4. [q EXCEPT !.root = TRUE] \in RecordsTo(a)
    BY <2>2 DEF RecordsTo
  <2> QED BY <2>3, <2>4
<1>3. NewId(s, r) \in Nat /\ nowid <= NewId(s, r)
  BY DEF NewId
<1>4. CASE Renumbers(s, r)
  <2>1. Inserted(s, r) = Append(s, Renumbered(r)) /\ NewId(s, r) = nowid + 1
    BY <1>4 DEF Inserted, NewId
  <2>2. Append(s, Renumbered(r)) \in Seq(RecordsTo(a))
    BY <1>2
  <2>3. SortedSeq(s) /\ Below(s, nowid) =>
          SortedSeq(Append(s, Renumbered(r))) /\ Below(Append(s, Renumbered(r)), nowid + 1)
    BY <1>2, AppendSorted
  <2> QED BY <1>2, <1>3, <2>1, <2>2, <2>3
<1>5. CASE ~Renumbers(s, r)
  <2> DEFINE i == Bisect(s, r.id)[1]
             t == InsertAt(s, i, r)
  <2>1. Inserted(s, r) = t /\ NewId(s, r) = nowid
    BY <1>5 DEF Inserted, NewId
  <2>2. i \in 1..Len(s)+1
    BY <1>1, SearchDef
  <2>3. SortedSeq(s) => /\ \A k \in 1..Len(s) : k < i => s[k].id < r.id
                        /\ \A k \in 1..Len(s) : k >= i => r.id < s[k].id
    BY <1>1, <1>5, SearchDef DEF Renumbers
  <2> HIDE DEF i
  <2>4. /\ t \in Seq(RecordsTo(a)) /\ Len(t) = Len(s)+1
        /\ \A j \in 1..Len(s)+1 :
             t[j] = IF j < i THEN s[j] ELSE IF j = i THEN r ELSE s[j-1]
    BY <2>2, InsertAtDef
  <2> HIDE DEF t
  <2>5. ASSUME SortedSeq(s), Below(s, nowid), r.id <= nowid
        PROVE  SortedSeq(t) /\ Below(t, nowid)
    <3>1. Len(s) \in Nat /\ \A k \in 1..Len(s) : s[k].id \in Nat
      <4>1. Len(s) \in Nat /\ \A k \in 1..Len(s) : s[k] \in RecordsTo(a)
        OBVIOUS
      <4>2. \A x \in RecordsTo(a) : x.id \in Nat
        BY DEF RecordsTo
      <4> QED BY <4>1, <4>2
    <3>2. ASSUME NEW j \in 1..Len(t), NEW k \in 1..Len(t), j < k
          PROVE  t[j].id < t[k].id
      <4>1. CASE k < i
        <5>1. j \in 1..Len(s) /\ k \in 1..Len(s) /\ t[j] = s[j] /\ t[k] = s[k]
          BY <2>2, <2>4, <3>1, <3>2, <4>1
        <5> QED BY <2>5, <3>2, <5>1 DEF SortedSeq
      <4>2. CASE k = i
        BY <1>1, <2>2, <2>3, <2>4, <2>5, <3>1, <3>2, <4>2
      <4>3. CASE k > i
        <5>1. k-1 \in 1..Len(s) /\ t[k] = s[k-1]
          BY <2>2, <2>4, <3>1, <4>3
        <5>2. CASE j < i
          BY <2>2, <2>4, <2>5, <3>1, <3>2, <4>3, <5>1, <5>2 DEF SortedSeq
        <5>3. CASE j = i
          BY <2>2, <2>3, <2>4, <2>5, <3>1, <3>2, <4>3, <5>1, <5>3
        <5>4. CASE j > i
          <6>1. j-1 \in 1..Len(s) /\ t[j] = s[j-1] /\ j-1 < k-1
            BY <2>2, <2>4, <3>1, <3>2, <5>4
          <6> QED BY <2>5, <5>1, <6>1 DEF SortedSeq
        <5> QED BY <2>2, <3>2, <5>2, <5>3, <5>4
      <4> QED BY <2>2, <3>2, <4>1, <4>2, <4>3
    <3>3. ASSUME NEW j \in 1..Len(t) PROVE t[j].id <= nowid
      <4>1. CASE j < i
        BY <2>2, <2>4, <2>5, <3>1, <4>1 DEF Below
      <4>2. CASE j = i
        BY <2>2, <2>4, <2>5, <4>2
      <4>3. CASE j > i
        <5>1. j-1 \in 1..Len(s) /\ t[j] = s[j-1]
          BY <2>2, <2>4, <3>1, <4>3
        <5> QED BY <2>5, <5>1 DEF Below
      <4> QED BY <2>2, <4>1, <4>2, <4>3
    <3> QED BY <3>2, <3>3 DEF SortedSeq, Below
  <2> QED BY <1>2, <1>3, <2>1, <2>4, <2>5
<1> QED
  BY <1>4, <1>5

-----------------------------------------------------------------------------
(* The records that begin a thread *)

\* The list as it grows: B[j] is that of the first j records.
Lists(s, B, R) ==
    /\ B[0] = <<>> /\ \A j \in 0..Len(s) : B[j] \in R
    /\ \A j \in 1..Len(s) : B[j] = IF s[j].root THEN Append(B[j-1], s[j]) ELSE B[j-1]

LEMMA RootsLists ==
  ASSUME NEW a \in Nat, NEW s \in Seq(RecordsTo(a))
  PROVE  \E B : Lists(s, B, Seq(RecordsTo(a))) /\ Roots(s) = B[Len(s)]
<1> DEFINE N == Len(s)
           R == Seq(RecordsTo(a))
           step(j, x) == IF s[j].root THEN Append(x, s[j]) ELSE x
           G == [j \in 0..N |-> R]
           F == [x \in (1..N) \X R |-> step(x[1], x[2])]
           Def(f) == f = [n \in 0..N |-> IF n = 0 THEN <<>>
                            ELSE IF s[n].root THEN Append(f[n-1], s[n]) ELSE f[n-1]]
           Eq(f) == Recursion(N, F, <<>>, f) /\ \A j \in 0..N : f[j] \in G[j]
<1>1. N \in Nat /\ <<>> \in R
  OBVIOUS
<1>2. \A j \in 1..N : \A x \in R : F[<<j, x>>] = step(j, x) /\ step(j, x) \in R
  OBVIOUS
<1>3. \A j \in 0..N : G[j] = R
  OBVIOUS
<1>4. \E f : Eq(f)
  <2>1. <<>> \in G[0] /\ \A j \in 1..N : \A x \in G[j-1] : F[<<j, x>>] \in G[j]
    <3> HIDE DEF F, G, N, R, step
    <3> QED BY <1>1, <1>2, <1>3
  <2> HIDE DEF F, G, N
  <2> QED BY <1>1, <2>1, RecursiveFunction, Zenon
<1>5. PICK f : Eq(f)
  BY <1>4
<1>6. \A j \in 0..N : f[j] \in R
  <2> HIDE DEF R, G, N
  <2> QED BY <1>3, <1>5
<1>7. f = [j \in 0..N |-> IF j = 0 THEN <<>> ELSE F[<<j, f[j-1]>>]]
  BY <1>5 DEF Recursion
<1>8. \A j \in 0..N : (IF j = 0 THEN <<>> ELSE F[<<j, f[j-1]>>])
                      = (IF j = 0 THEN <<>> ELSE step(j, f[j-1]))
  <2> HIDE DEF F, N, R, step
  <2> QED BY <1>1, <1>2, <1>6
<1>9. Def(f)
  <2> HIDE DEF F, N, R
  <2> QED BY <1>7, <1>8
<1> DEFINE B == CHOOSE g : Def(g)
<1>10. Def(B)
  <2> HIDE DEF Def
  <2> QED BY <1>9
<1>11. Roots(s) = B[N]
  BY DEF Roots
<1>12. B[0] = <<>> /\ \A j \in 1..N : B[j] = step(j, B[j-1])
  <2> DEFINE H(j) == IF j = 0 THEN <<>> ELSE step(j, B[j-1])
  <2>1. B = [j \in 0..N |-> H(j)]
    BY <1>10, Zenon
  <2> HIDE DEF B, N, H
  <2>2. 0 \in 0..N /\ \A j \in 1..N : j \in 0..N
    BY <1>1
  <2>3. B[0] = H(0) /\ \A j \in 1..N : B[j] = H(j)
    BY <2>1, <2>2
  <2> HIDE DEF step
  <2> QED BY <2>3 DEF H
<1> HIDE DEF B
<1> DEFINE T == {j \in 0..N : B[j] \in R}
<1>13. 0..N \subseteq T
  <2>1. 0 \in T
    <3>1. B[0] \in R /\ 0 \in 0..N
      BY <1>1, <1>12
    <3> QED BY <3>1
  <2>2. ASSUME NEW j \in 1..N, j-1 \in T PROVE j \in T
    <3>1. B[j-1] \in R /\ j \in 0..N
      BY <2>2
    <3>2. B[j] \in R
      <4> HIDE DEF step, R, N, F
      <4> QED BY <1>2, <1>12, <3>1
    <3> QED BY <3>1, <3>2
  <2> HIDE DEF T
  <2> QED BY <1>1, <2>1, <2>2, SetInduction
<1>14. \A j \in 0..N : B[j] \in R
  BY <1>13
<1>15. Lists(s, B, R)
  <2> HIDE DEF B, R
  <2> QED BY <1>12, <1>14 DEF Lists
<1> QED
  BY <1>11, <1>15

LEMMA RootsType ==
  ASSUME NEW a \in Nat, NEW s \in Seq(RecordsTo(a))
  PROVE  Roots(s) \in Seq(RecordsTo(a))
<1>1. PICK B : Lists(s, B, Seq(RecordsTo(a))) /\ Roots(s) = B[Len(s)]
  BY RootsLists
<1>2. Len(s) \in 0..Len(s)
  OBVIOUS
<1> QED
  BY <1>1, <1>2 DEF Lists

\* The list has the records that begin a thread, no others, in their order.
LEMMA RootsDef ==
  ASSUME NEW a \in Nat, NEW s \in Seq(RecordsTo(a)), SortedSeq(s)
  PROVE  /\ \A i \in 1..Len(Roots(s)) : \E j \in 1..Len(s) : s[j].root /\ Roots(s)[i] = s[j]
         /\ \A j \in 1..Len(s) : s[j].root => \E i \in 1..Len(Roots(s)) : Roots(s)[i] = s[j]
         /\ SortedSeq(Roots(s))
<1> DEFINE R == Seq(RecordsTo(a))
           From(n, t) == \A i \in 1..Len(t) : \E j \in 1..n : s[j].root /\ t[i] = s[j]
           All(n, t) == \A j \in 1..n : s[j].root => \E i \in 1..Len(t) : t[i] = s[j]
           Good(n, t) == From(n, t) /\ All(n, t) /\ SortedSeq(t)
<1>1. PICK B : Lists(s, B, R) /\ Roots(s) = B[Len(s)]
  BY RootsLists
<1>2. PICK N \in Nat : N = Len(s)
  OBVIOUS
<1> DEFINE T == {n \in 0..N : Good(n, B[n])}
<1>3. 0 \in T
  <2>1. B[0] = <<>>
    BY <1>1 DEF Lists
  <2>2. Good(0, <<>>)
    BY DEF SortedSeq
  <2> QED BY <1>2, <2>1, <2>2
<1>4. ASSUME NEW n \in 1..N, n-1 \in T PROVE n \in T
  <2>1. PICK t : t = B[n-1]
    OBVIOUS
  <2>2. PICK u : u = B[n]
    OBVIOUS
  <2>3. n-1 \in 0..N /\ n \in 0..N /\ n-1 \in 0..Len(s) /\ n \in 1..Len(s)
    BY <1>2
  <2>4. t \in R /\ u = IF s[n].root THEN Append(t, s[n]) ELSE t
    BY <1>1, <2>1, <2>2, <2>3 DEF Lists
  <2>5. Good(n-1, t)
    BY <1>4, <2>1
  <2>6. CASE ~s[n].root
    <3>1. u = t
      BY <2>4, <2>6
    <3>2. From(n, t) /\ SortedSeq(t)
      <4>1. \A j \in 1..n-1 : j \in 1..n
        BY <2>3
      <4> QED BY <2>5, <4>1
    <3>3. All(n, t)
      <4>1. \A j \in 1..n : s[j].root => j \in 1..n-1
        BY <2>3, <2>6
      <4> QED BY <2>5, <4>1
    <3>4. Good(n, t)
      BY <3>2, <3>3
    <3>5. B[n] = t
      BY <2>2, <3>1
    <3> HIDE DEF Good
    <3> QED BY <2>3, <3>4, <3>5
  <2>7. CASE s[n].root
    <3>1. PICK m \in Nat : m = Len(t)
      BY <2>4
    <3>2. /\ Len(u) = m+1 /\ u[m+1] = s[n]
          /\ \A i \in 1..m : u[i] = t[i]
      BY <2>4, <2>7, <3>1
    <3>3. \A i \in 1..m : \E j \in 1..n-1 : s[j].root /\ t[i] = s[j]
      BY <2>5, <3>1
    <3>4. From(n, u)
      <4> SUFFICES ASSUME NEW i \in 1..Len(u) PROVE \E j \in 1..n : s[j].root /\ u[i] = s[j]
        OBVIOUS
      <4>1. CASE i \in 1..m
        <5>1. PICK j \in 1..n-1 : s[j].root /\ t[i] = s[j]
          BY <3>3, <4>1
        <5>2. j \in 1..n
          BY <2>3
        <5> QED BY <3>2, <4>1, <5>1, <5>2
      <4>2. CASE i \notin 1..m
        <5>1. i = m+1 /\ n \in 1..n
          BY <2>3, <3>2, <4>2
        <5> QED BY <2>7, <3>2, <5>1
      <4> QED BY <4>1, <4>2
    <3>5. All(n, u)
      <4> SUFFICES ASSUME NEW j \in 1..n, s[j].root PROVE \E i \in 1..Len(u) : u[i] = s[j]
        OBVIOUS
      <4>1. CASE j = n
        <5>1. m+1 \in 1..Len(u)
          BY <3>2
        <5> QED BY <3>2, <4>1, <5>1
      <4>2. CASE j # n
        <5>1. j \in 1..n-1
          BY <2>3, <4>2
        <5>2. PICK i \in 1..m : t[i] = s[j]
          BY <2>5, <3>1, <5>1
        <5>3. i \in 1..Len(u)
          BY <3>2
        <5> QED BY <3>2, <5>2, <5>3
      <4> QED BY <4>1, <4>2
    <3>6. SortedSeq(u)
      <4> SUFFICES ASSUME NEW i \in 1..Len(u), NEW k \in 1..Len(u), i < k
                   PROVE  u[i].id < u[k].id
        BY DEF SortedSeq
      <4>1. i \in 1..m
        BY <3>2
      <4>2. CASE k \in 1..m
        BY <2>5, <3>1, <3>2, <4>1, <4>2 DEF SortedSeq
      <4>3. CASE k \notin 1..m
        <5>1. k = m+1
          BY <3>2, <4>3
        <5>2. PICK j \in 1..n-1 : t[i] = s[j]
          BY <3>3, <4>1
        <5>3. j \in 1..Len(s) /\ j < n
          BY <2>3
        <5>4. s[j].id < s[n].id
          BY <2>3, <5>3 DEF SortedSeq
        <5> QED BY <3>2, <4>1, <5>1, <5>2, <5>4
      <4> QED BY <4>2, <4>3
    <3> QED BY <2>2, <2>3, <3>4, <3>5, <3>6
  <2> QED BY <2>6, <2>7
<1>5. N \in T
  <2>1. 0..N \subseteq T
    <3> HIDE DEF T
    <3> QED BY <1>2, <1>3, <1>4, SetInduction
  <2> QED BY <1>2, <2>1
<1> QED
  BY <1>1, <1>2, <1>5

-----------------------------------------------------------------------------
(* The invariant *)

\* What a process has at hand: an edit is of an article and writes at a
\* position; the range of a deletion is in order and, once the file's size has
\* been taken, within it.
Steps == {"idle", "append", "origin", "map", "cut", "ocut", "cancel", "check", "move",
          "insert", "blank", "find", "write", "owrite", "stat", "rmove", "rcut", "regen",
          "rewrite", "clear", "flag"}
Operations == {"", "post", "delete", "undelete", "edit", "range"}
ProcessRecords(n) ==
    [pc : Steps, op : Operations, rec : RecordsTo(n), ent : Nat, to : Nat, size : Nat,
     was : Seq(RecordsTo(n))]
Ready(pc, art, ent, to, size) ==
    /\ pc \in {"find", "write"} => art # 0
    /\ pc \in {"write", "owrite"} => ent > 0
    /\ pc \in {"stat", "rmove", "rcut"} => 1 <= ent /\ ent <= to
    /\ pc \in {"rmove", "rcut"} => to <= size
Processes(n) ==
    {x \in ProcessRecords(n) : Ready(x.pc, x.rec.art, x.ent, x.to, x.size)}

FilesOK ==
    /\ dir \in Seq(RecordsTo(posted)) /\ origin \in Seq(RecordsTo(posted))
    /\ deleted \in Seq(RecordsTo(posted)) /\ body \in Seq(Letters)
SharedOK == nowid \in Nat /\ idseq \in Nat /\ updateorigin \in BOOLEAN
ProcsOK == pr \in [Procs -> Processes(posted)]

\* .DIR is sorted, and no id in a list or at hand is above the last one given,
\* so the next one is new: without this, an article could come back from
\* .DELETED with an id that .DIR has not reached.
FilesOrdered == ~disorder => SortedSeq(dir) /\ Below(dir, nowid) /\ Below(deleted, nowid)
ProcsOrdered == ~disorder => \A q \in Procs : pr[q].rec.id <= nowid

IInv == FilesOK /\ SharedOK /\ ProcsOK /\ FilesOrdered /\ ProcsOrdered

LEMMA RecordsAre ==
  ASSUME NEW n \in Nat, NEW r \in RecordsTo(n)
  PROVE  r.art \in 0..n /\ r.id \in Nat /\ r.root \in BOOLEAN /\ r.kind \in {"", "M", "D"}
BY DEF RecordsTo

\* The fields of a process, and how one is put together.
LEMMA ProcessIs ==
  ASSUME NEW n \in Nat, NEW x \in Processes(n)
  PROVE  /\ x = [pc |-> x.pc, op |-> x.op, rec |-> x.rec, ent |-> x.ent, to |-> x.to,
                 size |-> x.size, was |-> x.was]
         /\ x.pc \in Steps /\ x.op \in Operations /\ x.rec \in RecordsTo(n)
         /\ x.ent \in Nat /\ x.to \in Nat /\ x.size \in Nat /\ x.was \in Seq(RecordsTo(n))
         /\ x.rec.art \in 0..n /\ x.rec.id \in Nat
         /\ Ready(x.pc, x.rec.art, x.ent, x.to, x.size)
<1>1. x \in ProcessRecords(n) /\ Ready(x.pc, x.rec.art, x.ent, x.to, x.size)
  BY DEF Processes
<1>2. x.rec \in RecordsTo(n)
  BY <1>1 DEF ProcessRecords
<1> QED
  BY <1>1, <1>2, RecordsAre DEF ProcessRecords

LEMMA ProcessMade ==
  ASSUME NEW n \in Nat, NEW pc \in Steps, NEW op \in Operations, NEW r \in RecordsTo(n),
         NEW ent \in Nat, NEW to \in Nat, NEW size \in Nat, NEW was \in Seq(RecordsTo(n)),
         Ready(pc, r.art, ent, to, size)
  PROVE  [pc |-> pc, op |-> op, rec |-> r, ent |-> ent, to |-> to, size |-> size, was |-> was]
           \in Processes(n)
BY DEF Processes, ProcessRecords

LEMMA IdleProcess ==
  ASSUME NEW n \in Nat
  PROVE  Idle \in Processes(n) /\ Idle.rec.id = 0 /\ Idle.rec = Zero
<1>1. Zero \in RecordsTo(n) /\ <<>> \in Seq(RecordsTo(n))
  BY ZeroRecord
<1>2. Ready("idle", Zero.art, 0, 0, 0)
  BY DEF Ready
<1>3. Idle \in Processes(n)
  <2>1. PICK z : z = Zero
    OBVIOUS
  <2>2. Idle = [pc |-> "idle", op |-> "", rec |-> z, ent |-> 0, to |-> 0, size |-> 0, was |-> <<>>]
    BY <2>1 DEF Idle
  <2>3. z \in RecordsTo(n) /\ Ready("idle", z.art, 0, 0, 0)
    BY <1>1, <1>2, <2>1
  <2>4. Idle \in ProcessRecords(n)
    BY <1>1, <2>2, <2>3 DEF ProcessRecords, Steps, Operations
  <2>5. Ready(Idle.pc, Idle.rec.art, Idle.ent, Idle.to, Idle.size)
    BY <2>2, <2>3
  <2> QED BY <2>4, <2>5 DEF Processes
<1> QED
  BY <1>3 DEF Idle, Zero

\* More articles make more processes.
LEMMA ProcessesGrow ==
  ASSUME NEW m \in Nat, NEW n \in Nat, m <= n
  PROVE  Processes(m) \subseteq Processes(n)
<1> SUFFICES ASSUME NEW x \in Processes(m) PROVE x \in Processes(n)
  OBVIOUS
<1>1. RecordsTo(m) \subseteq RecordsTo(n)
  BY RecordsGrow
<1>2. x.rec \in RecordsTo(n) /\ x.was \in Seq(RecordsTo(n))
  BY <1>1, ProcessIs
<1>3. [pc |-> x.pc, op |-> x.op, rec |-> x.rec, ent |-> x.ent, to |-> x.to,
       size |-> x.size, was |-> x.was] \in Processes(n)
  BY <1>2, ProcessIs, ProcessMade
<1> QED
  BY <1>3, ProcessIs

\* The invariant of the processes is kept if p goes on as y, and the counters
\* do not shrink.
Grows ==
    /\ posted \in Nat /\ posted' \in Nat /\ posted <= posted'
    /\ nowid \in Nat /\ nowid' \in Nat /\ nowid <= nowid'
    /\ disorder => disorder'
GoesOnAs(p, y) ==
    /\ pr' = [pr EXCEPT ![p] = y] /\ y \in Processes(posted')
    /\ ~disorder' => y.rec.id <= nowid'

LEMMA ProcStep ==
  ASSUME ProcsOK, ProcsOrdered, NEW p \in Procs, NEW y, Grows, GoesOnAs(p, y)
  PROVE  ProcsOK' /\ ProcsOrdered'
<1>1. Processes(posted) \subseteq Processes(posted')
  BY ProcessesGrow DEF Grows
<1>2. pr \in [Procs -> Processes(posted')]
  BY <1>1 DEF ProcsOK
<1>3. ProcsOK'
  BY <1>2 DEF ProcsOK, GoesOnAs
<1>4. ASSUME ~disorder', NEW q \in Procs PROVE pr'[q].rec.id <= nowid'
  <2>1. CASE q = p
    BY <1>2, <1>4, <2>1 DEF GoesOnAs
  <2>2. CASE q # p
    <3>1. pr'[q] = pr[q] /\ pr[q].rec.id <= nowid
      BY <1>2, <1>4, <2>2 DEF GoesOnAs, ProcsOrdered, Grows
    <3>2. pr[q].rec.id \in Nat
      BY ProcessIs DEF ProcsOK, Grows
    <3> QED BY <3>1, <3>2 DEF Grows
  <2> QED BY <2>1, <2>2
<1> QED
  BY <1>3, <1>4 DEF ProcsOrdered

\* Nothing but the processes changes.
LEMMA FilesFrame ==
  ASSUME IInv, UNCHANGED <<files, shm, disorder>>
  PROVE  FilesOK' /\ SharedOK' /\ FilesOrdered' /\ Grows
BY DEF IInv, files, shm, FilesOK, SharedOK, FilesOrdered, Grows, posted

\* What p has at hand, as far as the other lemmas need it.
LEMMA AtHand ==
  ASSUME IInv, NEW p \in Procs
  PROVE  /\ posted \in Nat /\ nowid \in Nat /\ pr[p] \in Processes(posted)
         /\ pr[p].rec \in RecordsTo(posted) /\ pr[p].rec.id \in Nat
         /\ ~disorder => pr[p].rec.id <= nowid
<1>1. posted \in Nat /\ nowid \in Nat /\ pr[p] \in Processes(posted)
  BY DEF IInv, FilesOK, SharedOK, ProcsOK, posted
<1> QED
  BY <1>1, ProcessIs DEF IInv, ProcsOrdered

\* A process goes on with step c and record r; it keeps the rest.
Continues(x, c, r) ==
    [pc |-> c, op |-> x.op, rec |-> r, ent |-> x.ent, to |-> x.to, size |-> x.size, was |-> x.was]

LEMMA ContinuesType ==
  ASSUME NEW n \in Nat, NEW x \in Processes(n), NEW c \in Steps, NEW r \in RecordsTo(n),
         Ready(c, r.art, x.ent, x.to, x.size)
  PROVE  Continues(x, c, r) \in Processes(n) /\ Continues(x, c, r).rec = r
BY ProcessIs, ProcessMade DEF Continues

LEMMA GotoIs ==
  ASSUME NEW n \in Nat, NEW p, NEW x \in Processes(n), pr[p] = x, NEW c, Goto(p, c)
  PROVE  pr' = [pr EXCEPT ![p] = Continues(x, c, x.rec)]
<1>1. [x EXCEPT !.pc = c] = Continues(x, c, x.rec)
  BY DEF Processes, ProcessRecords, Continues
<1> QED
  BY <1>1 DEF Goto

LEMMA AfterDirIs ==
  ASSUME NEW n \in Nat, NEW p \in Procs, NEW x \in Processes(n), pr[p] = x,
         pr \in [Procs -> Processes(n)], NEW r, NEW c, AfterDir(p, r, c)
  PROVE  pr' = [pr EXCEPT ![p] = Continues(x, IF r.root THEN "origin" ELSE c, r)]
<1>1. PICK d : d = IF r.root THEN "origin" ELSE c
  OBVIOUS
<1>2. PICK z : z = [x EXCEPT !.rec = r]
  OBVIOUS
<1>3. z = Continues(x, x.pc, r)
  BY <1>2 DEF Processes, ProcessRecords, Continues
<1>4. [z EXCEPT !.pc = d] = Continues(x, d, r)
  BY <1>3 DEF Continues
<1>5. pr' = [pr EXCEPT ![p] = [[x EXCEPT !.rec = r] EXCEPT !.pc = d]]
  BY <1>1 DEF AfterDir
<1> QED
  BY <1>1, <1>2, <1>4, <1>5

-----------------------------------------------------------------------------
(* How a process goes on *)

LEMMA StepParts ==
  ASSUME FilesOK', SharedOK', FilesOrdered', ProcsOK', ProcsOrdered'
  PROVE  IInv'
BY DEF IInv

\* The steps after the work on .ORIGIN need nothing.
LEMMA ReadyAnyway ==
  ASSUME NEW c \in Steps \ {"find", "write", "owrite", "stat", "rmove", "rcut"},
         NEW a, NEW e, NEW t, NEW n
  PROVE  Ready(c, a, e, t, n)
BY DEF Ready

LEMMA GotoStep ==
  ASSUME IInv, NEW p \in Procs, NEW c \in Steps, Goto(p, c), Grows,
         Ready(c, pr[p].rec.art, pr[p].ent, pr[p].to, pr[p].size)
  PROVE  ProcsOK' /\ ProcsOrdered'
<1>1. PICK x : x = pr[p]
  OBVIOUS
<1>2. x \in Processes(posted) /\ posted \in Nat /\ (~disorder => x.rec.id <= nowid)
      /\ x.rec.id \in Nat
  BY <1>1, AtHand
<1>3. PICK y : y = Continues(x, c, x.rec)
  OBVIOUS
<1>4. pr' = [pr EXCEPT ![p] = y] /\ y \in Processes(posted) /\ y.rec = x.rec
  BY <1>1, <1>2, <1>3, GotoIs, ContinuesType, ProcessIs
<1>5. GoesOnAs(p, y)
  <2>1. y \in Processes(posted')
    BY <1>4, ProcessesGrow DEF Grows
  <2>2. ~disorder' => y.rec.id <= nowid'
    BY <1>2, <1>4 DEF Grows
  <2> QED BY <1>4, <2>1, <2>2 DEF GoesOnAs
<1> QED
  BY <1>5, ProcStep DEF IInv

LEMMA DoneStep ==
  ASSUME IInv, NEW p \in Procs, Done(p), Grows
  PROVE  ProcsOK' /\ ProcsOrdered'
<1>1. GoesOnAs(p, Idle)
  BY IdleProcess DEF GoesOnAs, Done, Grows
<1> QED
  BY <1>1, ProcStep DEF IInv

LEMMA StartsStep ==
  ASSUME IInv, NEW p \in Procs, NEW y, Starts(p, y), Grows,
         y \in Processes(posted'), ~disorder' => y.rec.id <= nowid'
  PROVE  ProcsOK' /\ ProcsOrdered'
<1>1. GoesOnAs(p, y)
  BY DEF GoesOnAs, Starts
<1> QED
  BY <1>1, ProcStep DEF IInv

LEMMA AfterDirStep ==
  ASSUME IInv, NEW p \in Procs, NEW r \in RecordsTo(posted), NEW c \in {"idle", "cancel", "blank"},
         AfterDir(p, r, c), Grows, ~disorder' => r.id <= nowid'
  PROVE  ProcsOK' /\ ProcsOrdered'
<1>1. PICK x : x = pr[p]
  OBVIOUS
<1>2. x \in Processes(posted) /\ posted \in Nat
  BY <1>1, AtHand
<1>3. PICK d : d = IF r.root THEN "origin" ELSE c
  OBVIOUS
<1>4. d \in Steps \ {"find", "write", "owrite", "stat", "rmove", "rcut"}
  BY <1>3 DEF Steps
<1>5. PICK y : y = Continues(x, d, r)
  OBVIOUS
<1>6. pr' = [pr EXCEPT ![p] = y] /\ y \in Processes(posted) /\ y.rec = r
  <2>1. pr \in [Procs -> Processes(posted)]
    BY DEF IInv, ProcsOK
  <2>2. pr' = [pr EXCEPT ![p] = y]
    BY <1>1, <1>2, <1>3, <1>5, <2>1, AfterDirIs
  <2>3. Ready(d, r.art, x.ent, x.to, x.size)
    BY <1>4, ReadyAnyway
  <2> QED BY <1>2, <1>4, <1>5, <2>2, <2>3, ContinuesType
<1>7. GoesOnAs(p, y)
  <2>1. y \in Processes(posted')
    BY <1>6, ProcessesGrow DEF Grows
  <2> QED BY <1>6, <2>1 DEF GoesOnAs
<1> QED
  BY <1>7, ProcStep DEF IInv

LEMMA GoesOnStep ==
  ASSUME IInv, NEW p \in Procs, GoesOn(p), Grows
  PROVE  ProcsOK' /\ ProcsOrdered'
<1>1. PICK c : c = AfterOrigin(pr[p].op)
  OBVIOUS
<1>2. c \in {"cancel", "blank", "idle"}
  BY <1>1 DEF AfterOrigin
<1>3. CASE c = "idle"
  BY <1>1, <1>3, DoneStep DEF GoesOn
<1>4. CASE c # "idle"
  <2>1. Goto(p, c)
    BY <1>1, <1>4 DEF GoesOn
  <2>2. c \in Steps \ {"find", "write", "owrite", "stat", "rmove", "rcut"}
    BY <1>2 DEF Steps
  <2> QED BY <2>1, <2>2, ReadyAnyway, GotoStep
<1> QED
  BY <1>3, <1>4

\* A step to c that sets the place, the size or what was seen too.
Sets(x, c, e, t, n, w) ==
    [pc |-> c, op |-> x.op, rec |-> x.rec, ent |-> e, to |-> t, size |-> n, was |-> w]
LEMMA SetsStep ==
  ASSUME IInv, NEW p \in Procs, NEW c \in Steps, NEW e \in Nat, NEW t \in Nat, NEW n \in Nat,
         NEW w \in Seq(RecordsTo(posted)), Grows,
         Ready(c, pr[p].rec.art, e, t, n), pr' = [pr EXCEPT ![p] = Sets(pr[p], c, e, t, n, w)]
  PROVE  ProcsOK' /\ ProcsOrdered'
<1>1. PICK x : x = pr[p]
  OBVIOUS
<1>2. x \in Processes(posted) /\ posted \in Nat /\ (~disorder => x.rec.id <= nowid)
      /\ x.rec.id \in Nat
  BY <1>1, AtHand
<1>3. PICK y : y = Sets(x, c, e, t, n, w)
  OBVIOUS
<1>4. y \in Processes(posted) /\ y.rec = x.rec
  BY <1>1, <1>2, <1>3, ProcessIs, ProcessMade DEF Sets
<1>5. GoesOnAs(p, y)
  <2>1. y \in Processes(posted')
    BY <1>4, ProcessesGrow DEF Grows
  <2>2. pr' = [pr EXCEPT ![p] = y]
    BY <1>1, <1>3
  <2>3. ~disorder' => y.rec.id <= nowid'
    BY <1>2, <1>4 DEF Grows
  <2> QED BY <2>1, <2>2, <2>3 DEF GoesOnAs
<1> QED
  BY <1>5, ProcStep DEF IInv

\* The initial form of an operation.
Begun(c, o, r, e, t) ==
    [pc |-> c, op |-> o, rec |-> r, ent |-> e, to |-> t, size |-> 0, was |-> <<>>]

LEMMA BegunIs ==
  ASSUME NEW c, NEW o, NEW r, NEW e
  PROVE  /\ [Idle EXCEPT !.pc = c, !.op = o, !.rec = r] = Begun(c, o, r, 0, 0)
         /\ [Idle EXCEPT !.pc = c, !.op = o, !.rec = r, !.ent = e] = Begun(c, o, r, e, 0)
<1>1. PICK x : x = [Idle EXCEPT !.pc = c]
  OBVIOUS
<1>2. PICK y : y = [x EXCEPT !.op = o]
  OBVIOUS
<1>3. PICK z : z = [y EXCEPT !.rec = r]
  OBVIOUS
<1>4. x = Begun(c, "", Zero, 0, 0)
  BY <1>1 DEF Idle, Begun
<1>5. y = Begun(c, o, Zero, 0, 0)
  BY <1>2, <1>4 DEF Begun
<1>6. z = Begun(c, o, r, 0, 0)
  BY <1>3, <1>5 DEF Begun
<1>7. [z EXCEPT !.ent = e] = Begun(c, o, r, e, 0)
  BY <1>6 DEF Begun
<1>8. [Idle EXCEPT !.pc = c, !.op = o, !.rec = r] = z
  BY <1>1, <1>2, <1>3
<1>9. [Idle EXCEPT !.pc = c, !.op = o, !.rec = r, !.ent = e] = [z EXCEPT !.ent = e]
  BY <1>1, <1>2, <1>3
<1> QED
  BY <1>6, <1>7, <1>8, <1>9

LEMMA BegunOnRange ==
  ASSUME NEW e, NEW t
  PROVE  [Idle EXCEPT !.pc = "stat", !.op = "range", !.ent = e, !.to = t]
           = Begun("stat", "range", Zero, e, t)
<1>1. PICK x : x = [Idle EXCEPT !.pc = "stat"]
  OBVIOUS
<1>2. PICK y : y = [x EXCEPT !.op = "range"]
  OBVIOUS
<1>3. PICK z : z = [y EXCEPT !.ent = e]
  OBVIOUS
<1>4. x = Begun("stat", "", Zero, 0, 0)
  BY <1>1 DEF Idle, Begun
<1>5. y = Begun("stat", "range", Zero, 0, 0)
  BY <1>2, <1>4 DEF Begun
<1>6. z = Begun("stat", "range", Zero, e, 0)
  BY <1>3, <1>5 DEF Begun
<1>7. [z EXCEPT !.to = t] = Begun("stat", "range", Zero, e, t)
  BY <1>6 DEF Begun
<1>8. [Idle EXCEPT !.pc = "stat", !.op = "range", !.ent = e, !.to = t] = [z EXCEPT !.to = t]
  BY <1>1, <1>2, <1>3
<1> QED
  BY <1>7, <1>8

LEMMA BegunType ==
  ASSUME NEW n \in Nat, NEW c \in Steps, NEW o \in Operations, NEW r \in RecordsTo(n),
         NEW e \in Nat, NEW t \in Nat, Ready(c, r.art, e, t, 0)
  PROVE  Begun(c, o, r, e, t) \in Processes(n) /\ Begun(c, o, r, e, t).rec = r
<1>1. <<>> \in Seq(RecordsTo(n))
  OBVIOUS
<1> QED
  BY <1>1, ProcessMade DEF Begun

-----------------------------------------------------------------------------
(* The actions *)

LEMMA PostStep ==
  ASSUME IInv, NEW p \in Procs, NEW root \in BOOLEAN, Post(p, root)
  PROVE  IInv'
<1>0. PICK r : r = [art |-> posted + 1, kind |-> "M", id |-> 0, root |-> root]
  OBVIOUS
<1>1. posted \in Nat /\ nowid \in Nat
  BY DEF IInv, FilesOK, SharedOK, posted
<1>2. posted' = posted + 1 /\ body' \in Seq(Letters)
  BY DEF Post, IInv, FilesOK, posted, Letters
<1>3. Grows
  BY <1>1, <1>2 DEF Post, shm, ghosts, Grows
<1>4. r \in RecordsTo(posted') /\ r.id = 0
  BY <1>0, <1>1, <1>2 DEF RecordsTo
<1>5. PICK y : y = Begun("append", "post", r, 0, 0)
  OBVIOUS
<1>6. ProcsOK' /\ ProcsOrdered'
  <2>1. Starts(p, y)
    <3>1. Starts(p, [Idle EXCEPT !.pc = "append", !.op = "post", !.rec = r])
      BY <1>0 DEF Post
    <3> QED BY <1>5, <3>1, BegunIs
  <2>2. "append" \in Steps \ {"find", "write", "owrite", "stat", "rmove", "rcut"}
        /\ "post" \in Operations /\ posted' \in Nat
    BY <1>1, <1>2 DEF Steps, Operations
  <2>3. y \in Processes(posted') /\ y.rec = r
    BY <1>4, <1>5, <2>2, ReadyAnyway, BegunType
  <2>4. y.rec.id <= nowid'
    BY <1>1, <1>3, <1>4, <2>3 DEF Grows
  <2> QED BY <1>3, <2>1, <2>3, <2>4, StartsStep
<1>7. FilesOK'
  <2>1. RecordsTo(posted) \subseteq RecordsTo(posted')
    BY <1>1, <1>2, RecordsGrow
  <2> QED BY <1>2, <2>1 DEF Post, IInv, FilesOK
<1>8. SharedOK' /\ FilesOrdered'
  BY DEF Post, IInv, SharedOK, FilesOrdered, shm, ghosts
<1> QED
  BY <1>6, <1>7, <1>8, StepParts

LEMMA AppendDirStep ==
  ASSUME IInv, NEW p \in Procs, AppendDir(p)
  PROVE  IInv'
<1>1. PICK r : r = [pr[p].rec EXCEPT !.id = nowid + 1]
  OBVIOUS
<1>2. posted \in Nat /\ nowid \in Nat /\ r \in RecordsTo(posted) /\ r.id = nowid + 1
  <2>1. posted \in Nat /\ nowid \in Nat /\ pr[p].rec \in RecordsTo(posted)
    BY AtHand
  <2>2. nowid + 1 \in Nat
    BY <2>1
  <2> QED BY <1>1, <2>1, <2>2 DEF RecordsTo
<1>3. /\ nowid' = nowid + 1 /\ dir' = Append(dir, r)
      /\ IF r.root THEN AfterDir(p, r, "idle") ELSE Done(p)
      /\ UNCHANGED <<origin, deleted, body, updateorigin, idseq, disorder>>
  BY <1>1 DEF AppendDir, ghosts
<1>4. posted' = posted /\ Grows
  BY <1>2, <1>3 DEF Grows, posted
<1>5. FilesOK' /\ SharedOK'
  BY <1>2, <1>3, <1>4 DEF IInv, FilesOK, SharedOK
<1>6. FilesOrdered'
  <2> SUFFICES ASSUME ~disorder'
               PROVE  SortedSeq(dir') /\ Below(dir', nowid') /\ Below(deleted', nowid')
    BY DEF FilesOrdered
  <2>1. SortedSeq(dir) /\ Below(dir, nowid) /\ Below(deleted, nowid)
    BY <1>3 DEF IInv, FilesOrdered
  <2>2. dir \in Seq(RecordsTo(posted)) /\ deleted \in Seq(RecordsTo(posted))
    BY DEF IInv, FilesOK
  <2>3. SortedSeq(dir') /\ Below(dir', nowid')
    BY <1>2, <1>3, <2>1, <2>2, AppendSorted
  <2>4. Below(deleted', nowid')
    BY <1>2, <1>3, <1>4, <2>1, <2>2, BelowMore
  <2> QED BY <2>3, <2>4
<1>7. ProcsOK' /\ ProcsOrdered'
  <2>1. ~disorder' => r.id <= nowid'
    BY <1>2, <1>3
  <2> QED BY <1>2, <1>3, <1>4, <2>1, AfterDirStep, DoneStep
<1> QED
  BY <1>5, <1>6, <1>7, StepParts

\* Steps that change neither a file nor a counter.
LEMMA OnlyProc ==
  ASSUME IInv, UNCHANGED <<files, shm, disorder>>, Grows => ProcsOK' /\ ProcsOrdered'
  PROVE  IInv'
BY FilesFrame, StepParts

LEMMA AppendOriginStep ==
  ASSUME IInv, NEW p \in Procs, AppendOrigin(p)
  PROVE  IInv'
<1>1. /\ origin' = Append(origin, pr[p].rec) /\ Done(p)
      /\ UNCHANGED <<dir, deleted, body, nowid, updateorigin, idseq, disorder>>
  BY DEF AppendOrigin, shm
<1>2. pr[p].rec \in RecordsTo(posted) /\ posted \in Nat /\ nowid \in Nat
  BY AtHand
<1>3. posted' = posted /\ Grows
  BY <1>1, <1>2 DEF posted, Grows
<1>4. FilesOK' /\ SharedOK' /\ FilesOrdered'
  BY <1>1, <1>2, <1>3 DEF IInv, FilesOK, SharedOK, FilesOrdered
<1> QED
  BY <1>1, <1>3, <1>4, DoneStep, StepParts

\* The article that is picked has an id no larger than the last one.
LEMMA Picked ==
  ASSUME IInv, NEW s, s = dir \/ s = deleted, NEW i \in 1..Len(s)
  PROVE  s[i] \in RecordsTo(posted) /\ (~disorder => s[i].id <= nowid)
<1>1. s \in Seq(RecordsTo(posted))
  BY DEF IInv, FilesOK
<1>2. ~disorder => Below(s, nowid)
  BY DEF IInv, FilesOrdered
<1> QED
  BY <1>1, <1>2 DEF Below

\* An operation begins.
LEMMA BeginStep ==
  ASSUME IInv, NEW p \in Procs, NEW c \in Steps, NEW o \in Operations,
         NEW r \in RecordsTo(posted), NEW e \in Nat, NEW t \in Nat, Ready(c, r.art, e, t, 0),
         ~disorder => r.id <= nowid, Starts(p, Begun(c, o, r, e, t)),
         UNCHANGED <<files, shm, disorder>>
  PROVE  IInv'
<1>1. posted \in Nat /\ posted' = posted /\ nowid' = nowid /\ disorder' = disorder
  BY AtHand DEF files, shm, posted
<1>2. PICK y : y = Begun(c, o, r, e, t)
  OBVIOUS
<1>3. y \in Processes(posted') /\ y.rec = r
  BY <1>1, <1>2, BegunType
<1>4. ~disorder' => y.rec.id <= nowid'
  BY <1>1, <1>3
<1>5. Grows => ProcsOK' /\ ProcsOrdered'
  BY <1>2, <1>3, <1>4, StartsStep
<1> QED
  BY <1>5, OnlyProc

\* What the steps and operations are called.
LEMMA Names ==
  /\ \A c \in {"idle", "append", "origin", "map", "cut", "ocut", "cancel", "check", "move",
               "insert", "blank", "regen", "rewrite", "clear"} :
       c \in Steps \ {"find", "write", "owrite", "stat", "rmove", "rcut"}
  /\ {"find", "write", "owrite", "stat", "rmove", "rcut"} \subseteq Steps
  /\ {"post", "delete", "undelete", "edit", "range"} \subseteq Operations
BY DEF Steps, Operations

LEMMA DeleteStep ==
  ASSUME IInv, NEW p \in Procs, NEW i \in 1..Len(dir), NEW ent \in 0..Len(dir), Delete(p, i, ent)
  PROVE  IInv'
<1>1. /\ Starts(p, [Idle EXCEPT !.pc = "map", !.op = "delete", !.rec = dir[i], !.ent = ent])
      /\ UNCHANGED <<files, shm, disorder>>
  BY DEF Delete
<1>2. Starts(p, Begun("map", "delete", dir[i], ent, 0))
  <2>1. PICK r : r = dir[i]
    OBVIOUS
  <2>2. Starts(p, [Idle EXCEPT !.pc = "map", !.op = "delete", !.rec = r, !.ent = ent])
    BY <1>1, <2>1
  <2>3. Starts(p, Begun("map", "delete", r, ent, 0))
    BY <2>2, BegunIs
  <2> QED BY <2>1, <2>3
<1>3. dir[i] \in RecordsTo(posted) /\ (~disorder => dir[i].id <= nowid)
  BY Picked
<1>4. ent \in Nat
  BY DEF IInv, FilesOK
<1>5. Ready("map", dir[i].art, ent, 0, 0)
  BY Names, ReadyAnyway
<1>6. "map" \in Steps /\ "delete" \in Operations
  BY Names
<1> QED
  BY <1>1, <1>2, <1>3, <1>4, <1>5, <1>6, BeginStep

LEMMA UndeleteStep ==
  ASSUME IInv, NEW p \in Procs, NEW i \in 1..Len(deleted), Undelete(p, i)
  PROVE  IInv'
<1>1. /\ Starts(p, [Idle EXCEPT !.pc = "check", !.op = "undelete", !.rec = deleted[i], !.ent = i])
      /\ UNCHANGED <<files, shm, disorder>>
  BY DEF Undelete, ghosts
<1>2. Starts(p, Begun("check", "undelete", deleted[i], i, 0))
  <2>1. PICK r : r = deleted[i]
    OBVIOUS
  <2>2. Starts(p, [Idle EXCEPT !.pc = "check", !.op = "undelete", !.rec = r, !.ent = i])
    BY <1>1, <2>1
  <2>3. Starts(p, Begun("check", "undelete", r, i, 0))
    BY <2>2, BegunIs
  <2> QED BY <2>1, <2>3
<1>3. deleted[i] \in RecordsTo(posted) /\ (~disorder => deleted[i].id <= nowid)
  BY Picked
<1>4. Ready("check", deleted[i].art, i, 0, 0)
  BY Names, ReadyAnyway
<1>5. "check" \in Steps /\ "undelete" \in Operations
  BY Names
<1> QED
  BY <1>1, <1>2, <1>3, <1>4, <1>5, BeginStep

LEMMA EditTitleStep ==
  ASSUME IInv, NEW p \in Procs, NEW i \in 1..Len(dir), EditTitle(p, i)
  PROVE  IInv'
<1>1. /\ Starts(p, [Idle EXCEPT !.pc = "find", !.op = "edit", !.rec = dir[i], !.ent = i])
      /\ dir[i].art # 0
      /\ UNCHANGED <<files, shm, disorder>>
  BY DEF EditTitle, ghosts
<1>2. Starts(p, Begun("find", "edit", dir[i], i, 0))
  <2>1. PICK r : r = dir[i]
    OBVIOUS
  <2>2. Starts(p, [Idle EXCEPT !.pc = "find", !.op = "edit", !.rec = r, !.ent = i])
    BY <1>1, <2>1
  <2>3. Starts(p, Begun("find", "edit", r, i, 0))
    BY <2>2, BegunIs
  <2> QED BY <2>1, <2>3
<1>3. dir[i] \in RecordsTo(posted) /\ (~disorder => dir[i].id <= nowid)
  BY Picked
<1>4. Ready("find", dir[i].art, i, 0, 0)
  BY <1>1 DEF Ready
<1>5. "find" \in Steps /\ "edit" \in Operations
  BY Names
<1> QED
  BY <1>1, <1>2, <1>3, <1>4, <1>5, BeginStep

LEMMA DeleteRangeStep ==
  ASSUME IInv, NEW p \in Procs, NEW i \in 1..Len(dir), NEW j \in 1..Len(dir), DeleteRange(p, i, j)
  PROVE  IInv'
<1>1. /\ i <= j
      /\ Starts(p, [Idle EXCEPT !.pc = "stat", !.op = "range", !.ent = i, !.to = j])
      /\ UNCHANGED <<files, shm, disorder>>
  BY DEF DeleteRange
<1>2. Starts(p, Begun("stat", "range", Zero, i, j))
  BY <1>1, BegunOnRange
<1>3. Zero \in RecordsTo(posted) /\ Zero.id = 0 /\ nowid \in Nat
  BY AtHand, ZeroRecord
<1>4. Ready("stat", Zero.art, i, j, 0)
  BY <1>1 DEF Ready
<1>5. "stat" \in Steps /\ "range" \in Operations /\ i \in Nat /\ j \in Nat
  BY Names
<1>6. Zero.id <= nowid
  BY <1>3
<1> QED
  BY <1>1, <1>2, <1>3, <1>4, <1>5, <1>6, BeginStep

LEMMA MapStep ==
  ASSUME IInv, NEW p \in Procs, Map(p) \/ MapOrigin(p)
  PROVE  IInv'
<1>1. UNCHANGED <<files, shm, disorder>>
  BY DEF Map, MapOrigin, ghosts
<1>2. CASE Done(p)
  BY <1>1, <1>2, DoneStep, OnlyProc
<1>3. CASE Goto(p, "cancel")
  BY <1>1, <1>3, Names, ReadyAnyway, GotoStep, OnlyProc
<1>4. ASSUME NEW c \in {"cut", "ocut"}, NEW n \in Nat,
             pr' = [pr EXCEPT ![p].pc = c, ![p].size = n]
      PROVE  IInv'
  <2>1. PICK x : x = pr[p]
    OBVIOUS
  <2>2. x \in Processes(posted) /\ posted \in Nat
    BY <2>1, AtHand
  <2>3. [x EXCEPT !.pc = c, !.size = n] = Sets(x, c, x.ent, x.to, n, x.was)
    <3>1. PICK z : z = [x EXCEPT !.pc = c]
      OBVIOUS
    <3>2. z = Continues(x, c, x.rec)
      BY <2>2, <3>1 DEF Processes, ProcessRecords, Continues
    <3>3. [z EXCEPT !.size = n] = Sets(x, c, x.ent, x.to, n, x.was)
      BY <3>2 DEF Continues, Sets
    <3> QED BY <3>1, <3>3
  <2>4. pr' = [pr EXCEPT ![p] = [x EXCEPT !.pc = c, !.size = n]]
    BY <1>4, <2>1 DEF IInv, ProcsOK
  <2>5. pr' = [pr EXCEPT ![p] = Sets(x, c, x.ent, x.to, n, x.was)]
    BY <2>3, <2>4
  <2>6. x.ent \in Nat /\ x.to \in Nat /\ x.was \in Seq(RecordsTo(posted))
    BY <2>2, ProcessIs
  <2>7. Ready(c, x.rec.art, x.ent, x.to, n) /\ c \in Steps
    BY <1>4, Names, ReadyAnyway
  <2>8. Grows => ProcsOK' /\ ProcsOrdered'
    <3>1. pr' = [pr EXCEPT ![p] = Sets(pr[p], c, x.ent, x.to, n, x.was)]
      BY <2>1, <2>5
    <3>2. Ready(c, pr[p].rec.art, x.ent, x.to, n)
      BY <2>1, <2>7
    <3> QED BY <1>4, <2>6, <2>7, <3>1, <3>2, SetsStep
  <2> QED BY <1>1, <2>8, OnlyProc
<1>5. Len(dir) \in Nat /\ Len(origin) \in Nat
  BY DEF IInv, FilesOK
<1> QED
  BY <1>2, <1>3, <1>4, <1>5 DEF Map, MapOrigin

LEMMA CutStep ==
  ASSUME IInv, NEW p \in Procs, Cut(p)
  PROVE  IInv'
<1>1. PICK n : n = pr[p].size
  OBVIOUS
<1>2. PICK e : e = Locate(View(dir, n), pr[p].ent, pr[p].rec)
  OBVIOUS
<1>3. /\ posted \in Nat /\ nowid \in Nat /\ n \in Nat /\ pr[p].ent \in Nat
      /\ pr[p].rec \in RecordsTo(posted) /\ dir \in Seq(RecordsTo(posted))
      /\ deleted \in Seq(RecordsTo(posted))
  BY <1>1, AtHand, ProcessIs DEF IInv, FilesOK
<1>4. UNCHANGED <<origin, deleted, body, nowid, updateorigin, idseq>>
  BY DEF Cut, shm
<1>5. View(dir, n) \in Seq(RecordsTo(posted)) /\ Len(View(dir, n)) = n
  BY <1>3, ViewDef
<1>6. e \in 0..n
  BY <1>2, <1>3, <1>5, LocateDef
<1>7. CASE e = 0
  <2>1. Done(p) /\ UNCHANGED <<dir, disorder>>
    BY <1>1, <1>2, <1>7 DEF Cut
  <2> QED BY <1>4, <2>1, DoneStep, OnlyProc DEF files, shm
<1>8. CASE e # 0
  <2>1. /\ dir' = Removed(dir, n, e, e) /\ AfterDir(p, View(dir, n)[e], "cancel")
        /\ disorder' = (disorder \/ n > Len(dir))
    BY <1>1, <1>2, <1>8 DEF Cut
  <2>2. posted' = posted /\ e \in 1..n /\ e \in e..n
    BY <1>3, <1>4, <1>6, <1>8 DEF posted
  <2>3. Grows
    <3>1. disorder => disorder'
      BY <2>1, Zenon
    <3> QED BY <1>3, <1>4, <2>2, <3>1 DEF Grows
  <2>4. dir' \in Seq(RecordsTo(posted))
    BY <1>3, <2>1, <2>2, RemovedDef
  <2>5. FilesOK' /\ SharedOK'
    BY <1>4, <2>2, <2>4 DEF IInv, FilesOK, SharedOK
  <2>6. ASSUME ~disorder'
        PROVE  ~disorder /\ n <= Len(dir)
    <3>1. Len(dir) \in Nat
      BY <1>3
    <3>2. ~disorder /\ ~(n > Len(dir))
      BY <2>1, <2>6, Zenon
    <3> QED BY <1>3, <3>1, <3>2
  <2>7. FilesOrdered'
    <3> SUFFICES ASSUME ~disorder'
                 PROVE  SortedSeq(dir') /\ Below(dir', nowid') /\ Below(deleted', nowid')
      BY DEF FilesOrdered
    <3>1. SortedSeq(dir) /\ Below(dir, nowid) /\ Below(deleted, nowid)
      BY <2>6 DEF IInv, FilesOrdered
    <3>2. SortedSeq(dir') /\ Below(dir', nowid)
      BY <1>3, <2>1, <2>2, <2>6, <3>1, RemovedSorted
    <3> QED BY <1>4, <3>1, <3>2
  <2>8. PICK r : r = View(dir, n)[e]
    OBVIOUS
  <2>9. r \in RecordsTo(posted) /\ r = IF e <= Len(dir) THEN dir[e] ELSE Zero
    <3>1. View(dir, n)[e] = IF e <= Len(dir) THEN dir[e] ELSE Zero
      BY <2>2 DEF View
    <3>2. View(dir, n)[e] \in RecordsTo(posted)
      BY <1>5, <2>2
    <3> QED BY <2>8, <3>1, <3>2
  <2>10. ASSUME ~disorder' PROVE r.id <= nowid'
    <3>1. r = dir[e] /\ e \in 1..Len(dir) /\ Below(dir, nowid)
      BY <1>3, <2>2, <2>6, <2>9, <2>10 DEF IInv, FilesOrdered
    <3> QED BY <1>4, <3>1 DEF Below
  <2>11. ProcsOK' /\ ProcsOrdered'
    BY <2>1, <2>3, <2>8, <2>9, <2>10, AfterDirStep
  <2> QED BY <2>5, <2>7, <2>11, StepParts
<1> QED
  BY <1>7, <1>8

LEMMA CutOriginStep ==
  ASSUME IInv, NEW p \in Procs, CutOrigin(p)
  PROVE  IInv'
<1>1. PICK n : n = pr[p].size
  OBVIOUS
<1>2. PICK e : e = Search_Bin(View(origin, n), pr[p].rec.id)
  OBVIOUS
<1>3. /\ posted \in Nat /\ nowid \in Nat /\ n \in Nat /\ pr[p].rec.id \in Nat
      /\ origin \in Seq(RecordsTo(posted))
  BY <1>1, AtHand, ProcessIs DEF IInv, FilesOK
<1>4. /\ UNCHANGED <<dir, deleted, body, nowid, updateorigin, idseq, disorder>>
      /\ origin' = IF e = 0 THEN origin ELSE Removed(origin, n, e, e)
      /\ Goto(p, "cancel")
  BY <1>1, <1>2 DEF CutOrigin, shm
<1>5. View(origin, n) \in Seq(RecordsTo(posted)) /\ Len(View(origin, n)) = n
  BY <1>3, ViewDef
<1>6. e \in 0..n
  BY <1>2, <1>3, <1>5, SearchDef
<1>7. origin' \in Seq(RecordsTo(posted))
  <2>1. CASE e = 0
    BY <1>3, <1>4, <2>1
  <2>2. CASE e # 0
    <3>1. e \in 1..n /\ e \in e..n
      BY <1>3, <1>6, <2>2
    <3> QED BY <1>3, <1>4, <2>2, <3>1, RemovedDef
  <2> QED BY <2>1, <2>2
<1>8. posted' = posted /\ Grows
  BY <1>3, <1>4 DEF posted, Grows
<1>9. FilesOK' /\ SharedOK' /\ FilesOrdered'
  BY <1>4, <1>7, <1>8 DEF IInv, FilesOK, SharedOK, FilesOrdered
<1> QED
  BY <1>4, <1>8, <1>9, Names, ReadyAnyway, GotoStep, StepParts

\* rename() changes a letter.
LEMMA RenamedType ==
  ASSUME NEW b \in Seq(Letters), NEW r, NEW z \in Letters
  PROVE  Renamed(b, r, z) \in Seq(Letters) /\ Len(Renamed(b, r, z)) = Len(b)
<1>1. PICK k : k = r.art
  OBVIOUS
<1>2. PICK n \in Nat : n = Len(b)
  OBVIOUS
<1>3. b \in [1..n -> Letters]
  BY <1>2
<1>4. [b EXCEPT ![k] = z] \in [1..n -> Letters]
  BY <1>3
<1>5. \A w \in [1..n -> Letters] : w \in Seq(Letters) /\ Len(w) = n
  BY <1>2
<1>6. Renamed(b, r, z) = b \/ Renamed(b, r, z) = [b EXCEPT ![k] = z]
  BY <1>1 DEF Renamed
<1>7. Renamed(b, r, z) \in [1..n -> Letters]
  BY <1>3, <1>4, <1>6
<1> QED
  BY <1>2, <1>5, <1>7

\* Another letter in a record.
LEMMA KindSet ==
  ASSUME NEW n \in Nat, NEW r \in RecordsTo(n), NEW k \in {"", "M", "D"}
  PROVE  /\ [r EXCEPT !.kind = k] \in RecordsTo(n)
         /\ [r EXCEPT !.kind = k].id = r.id /\ [r EXCEPT !.kind = k].art = r.art
BY DEF RecordsTo

LEMMA BelowAppend ==
  ASSUME NEW a \in Nat, NEW s \in Seq(RecordsTo(a)), NEW r, NEW b, Below(s, b), r.id <= b
  PROVE  Below(Append(s, r), b)
BY DEF Below

LEMMA cancelpostStep ==
  ASSUME IInv, NEW p \in Procs, cancelpost(p)
  PROVE  IInv'
<1>1. PICK r : r = [pr[p].rec EXCEPT !.kind = "D"]
  OBVIOUS
<1>2. /\ posted \in Nat /\ nowid \in Nat /\ pr[p].rec \in RecordsTo(posted)
      /\ ~disorder => pr[p].rec.id <= nowid
  BY AtHand
<1>3. r \in RecordsTo(posted) /\ (~disorder => r.id <= nowid)
  BY <1>1, <1>2, KindSet
<1>4. /\ body' = Renamed(body, pr[p].rec, "D") /\ deleted' = Append(deleted, r) /\ Done(p)
      /\ UNCHANGED <<dir, origin, nowid, updateorigin, idseq, disorder>>
  BY <1>1 DEF cancelpost, shm, ghosts
<1>5. body' \in Seq(Letters) /\ posted' = posted
  <2>1. body \in Seq(Letters) /\ "D" \in Letters
    BY DEF IInv, FilesOK, Letters
  <2> QED BY <1>4, <2>1, RenamedType DEF posted
<1>6. Grows
  BY <1>2, <1>4, <1>5 DEF Grows
<1>7. FilesOK' /\ SharedOK'
  BY <1>3, <1>4, <1>5 DEF IInv, FilesOK, SharedOK
<1>8. FilesOrdered'
  <2>1. deleted \in Seq(RecordsTo(posted))
    BY DEF IInv, FilesOK
  <2> QED BY <1>2, <1>3, <1>4, <2>1, BelowAppend DEF IInv, FilesOrdered
<1> QED
  BY <1>4, <1>6, <1>7, <1>8, DoneStep, StepParts

LEMMA CheckStep ==
  ASSUME IInv, NEW p \in Procs, Check(p)
  PROVE  IInv'
<1>1. UNCHANGED <<files, shm, disorder>> /\ (Goto(p, "move") \/ Done(p))
  BY DEF Check, ghosts
<1> QED
  BY <1>1, Names, ReadyAnyway, GotoStep, DoneStep, OnlyProc

\* A step to c that sets the record.
LEMMA RecordStep ==
  ASSUME IInv, NEW p \in Procs, NEW r \in RecordsTo(posted), Grows, ~disorder' => r.id <= nowid',
         NEW c \in Steps \ {"find", "write", "owrite", "stat", "rmove", "rcut"},
         pr' = [pr EXCEPT ![p] = Continues(pr[p], c, r)]
  PROVE  ProcsOK' /\ ProcsOrdered'
<1>1. PICK x : x = pr[p]
  OBVIOUS
<1>2. x \in Processes(posted) /\ posted \in Nat
  BY <1>1, AtHand
<1>3. PICK y : y = Continues(x, c, r)
  OBVIOUS
<1>4. Ready(c, r.art, x.ent, x.to, x.size)
  BY ReadyAnyway
<1>5. y \in Processes(posted) /\ y.rec = r
  BY <1>2, <1>3, <1>4, ContinuesType
<1>6. GoesOnAs(p, y)
  <2>1. y \in Processes(posted')
    BY <1>5, ProcessesGrow DEF Grows
  <2>2. pr' = [pr EXCEPT ![p] = y]
    BY <1>1, <1>3
  <2> QED BY <1>5, <2>1, <2>2 DEF GoesOnAs
<1> QED
  BY <1>6, ProcStep DEF IInv

LEMMA MoveStep ==
  ASSUME IInv, NEW p \in Procs, Move(p)
  PROVE  IInv'
<1>1. PICK x : x = pr[p]
  OBVIOUS
<1>2. PICK r : r = [x.rec EXCEPT !.kind = "M"]
  OBVIOUS
<1>3. /\ posted \in Nat /\ nowid \in Nat /\ x \in Processes(posted) /\ x.rec \in RecordsTo(posted)
      /\ ~disorder => x.rec.id <= nowid
  BY <1>1, AtHand
<1>4. r \in RecordsTo(posted) /\ (~disorder => r.id <= nowid)
  BY <1>2, <1>3, KindSet
<1>5. /\ body' = Renamed(body, x.rec, "M")
      /\ pr' = [pr EXCEPT ![p].pc = "insert", ![p].rec.kind = "M"]
      /\ UNCHANGED <<dir, origin, deleted, nowid, updateorigin, idseq, disorder>>
  BY <1>1 DEF Move, shm
<1>6. body' \in Seq(Letters) /\ posted' = posted
  <2>1. body \in Seq(Letters) /\ "M" \in Letters
    BY DEF IInv, FilesOK, Letters
  <2> QED BY <1>5, <2>1, RenamedType DEF posted
<1>7. Grows
  BY <1>3, <1>5, <1>6 DEF Grows
<1>8. FilesOK' /\ SharedOK' /\ FilesOrdered'
  BY <1>5, <1>6 DEF IInv, FilesOK, SharedOK, FilesOrdered
<1>9. pr' = [pr EXCEPT ![p] = Continues(pr[p], "insert", r)]
  <2>1. PICK z : z = [x EXCEPT !.pc = "insert"]
    OBVIOUS
  <2>2. z = Continues(x, "insert", x.rec)
    BY <1>3, <2>1 DEF Processes, ProcessRecords, Continues
  <2>3. [z EXCEPT !.rec = r] = Continues(x, "insert", r)
    BY <2>2 DEF Continues
  <2>4. [z EXCEPT !.rec.kind = "M"] = [z EXCEPT !.rec = r]
    <3>1. z.rec = x.rec
      BY <2>2 DEF Continues
    <3> QED BY <1>2, <3>1
  <2>5. pr' = [pr EXCEPT ![p] = [z EXCEPT !.rec.kind = "M"]]
    <3>1. [pr EXCEPT ![p].pc = "insert", ![p].rec.kind = "M"]
            = [pr EXCEPT ![p] = [[pr[p] EXCEPT !.pc = "insert"] EXCEPT !.rec.kind = "M"]]
      BY DEF IInv, ProcsOK
    <3> QED BY <1>1, <1>5, <2>1, <3>1
  <2> QED BY <1>1, <2>3, <2>4, <2>5
<1>10. ProcsOK' /\ ProcsOrdered'
  <2>1. ~disorder' => r.id <= nowid'
    BY <1>4, <1>5
  <2> QED BY <1>4, <1>7, <1>9, <2>1, Names, RecordStep
<1> QED
  BY <1>8, <1>10, StepParts

LEMMA InsertStep ==
  ASSUME IInv, NEW p \in Procs, Insert(p)
  PROVE  IInv'
<1>1. PICK r : r = pr[p].rec
  OBVIOUS
<1>2. PICK q : q = IF Renumbers(dir, r) THEN Renumbered(r) ELSE r
  OBVIOUS
<1>3. /\ posted \in Nat /\ nowid \in Nat /\ r \in RecordsTo(posted) /\ r.id \in Nat
      /\ ~disorder => r.id <= nowid
  BY <1>1, AtHand
<1>4. /\ dir' = Inserted(dir, r) /\ nowid' = NewId(dir, r) /\ AfterDir(p, q, "blank")
      /\ UNCHANGED <<origin, deleted, body, updateorigin, idseq, disorder>>
  BY <1>1, <1>2 DEF Insert, NewId, ghosts
<1>5. /\ dir \in Seq(RecordsTo(posted)) /\ deleted \in Seq(RecordsTo(posted))
  BY DEF IInv, FilesOK
<1>6. /\ dir' \in Seq(RecordsTo(posted)) /\ nowid' \in Nat /\ nowid <= nowid'
      /\ Renumbered(r) \in RecordsTo(posted)
      /\ SortedSeq(dir) /\ Below(dir, nowid) /\ r.id <= nowid =>
           SortedSeq(dir') /\ Below(dir', nowid')
  BY <1>3, <1>4, <1>5, InsertedDef
<1>7. posted' = posted /\ Grows
  BY <1>3, <1>4, <1>6 DEF posted, Grows
<1>8. FilesOK' /\ SharedOK'
  BY <1>4, <1>6, <1>7 DEF IInv, FilesOK, SharedOK
<1>9. FilesOrdered'
  <2> SUFFICES ASSUME ~disorder'
               PROVE  SortedSeq(dir') /\ Below(dir', nowid') /\ Below(deleted', nowid')
    BY DEF FilesOrdered
  <2>1. SortedSeq(dir) /\ Below(dir, nowid) /\ Below(deleted, nowid) /\ r.id <= nowid
    BY <1>3, <1>4 DEF IInv, FilesOrdered
  <2>2. Below(deleted', nowid')
    BY <1>3, <1>4, <1>5, <1>6, <2>1, BelowMore
  <2> QED BY <1>6, <2>1, <2>2
<1>10. q \in RecordsTo(posted) /\ (~disorder' => q.id <= nowid')
  <2>1. CASE Renumbers(dir, r)
    <3>1. q = Renumbered(r) /\ nowid' = nowid + 1
      BY <1>2, <1>4, <2>1 DEF NewId
    <3>2. Renumbered(r).id = nowid + 1
      BY <1>3 DEF Renumbered, RecordsTo
    <3> QED BY <1>3, <1>6, <3>1, <3>2
  <2>2. CASE ~Renumbers(dir, r)
    BY <1>2, <1>3, <1>4, <1>6, <2>2
  <2> QED BY <2>1, <2>2
<1> QED
  BY <1>4, <1>7, <1>8, <1>9, <1>10, AfterDirStep, StepParts

LEMMA InsertOriginStep ==
  ASSUME IInv, NEW p \in Procs, InsertOrigin(p)
  PROVE  IInv'
<1>1. PICK r : r = pr[p].rec
  OBVIOUS
<1>2. /\ posted \in Nat /\ nowid \in Nat /\ r \in RecordsTo(posted)
      /\ origin \in Seq(RecordsTo(posted)) /\ dir \in Seq(RecordsTo(posted))
      /\ deleted \in Seq(RecordsTo(posted))
  BY <1>1, AtHand DEF IInv, FilesOK
<1>3. /\ origin' = Inserted(origin, r) /\ nowid' = NewId(origin, r) /\ Goto(p, "blank")
      /\ UNCHANGED <<dir, deleted, body, updateorigin, idseq, disorder>>
  BY <1>1 DEF InsertOrigin, NewId
<1>4. origin' \in Seq(RecordsTo(posted)) /\ nowid' \in Nat /\ nowid <= nowid'
  BY <1>2, <1>3, InsertedDef
<1>5. posted' = posted /\ Grows
  BY <1>2, <1>3, <1>4 DEF posted, Grows
<1>6. FilesOK' /\ SharedOK'
  BY <1>3, <1>4, <1>5 DEF IInv, FilesOK, SharedOK
<1>7. FilesOrdered'
  BY <1>2, <1>3, <1>4, BelowMore DEF IInv, FilesOrdered
<1> QED
  BY <1>3, <1>5, <1>6, <1>7, Names, ReadyAnyway, GotoStep, StepParts

LEMMA BlankStep ==
  ASSUME IInv, NEW p \in Procs, Blank(p)
  PROVE  IInv'
<1>1. PICK e : e = pr[p].ent
  OBVIOUS
<1>2. /\ posted \in Nat /\ nowid \in Nat /\ e \in Nat /\ deleted \in Seq(RecordsTo(posted))
      /\ Zero \in RecordsTo(posted) /\ Zero.id = 0
  BY <1>1, AtHand, ProcessIs, ZeroRecord DEF IInv, FilesOK
<1>3. /\ deleted' = substitute_record(deleted, e, Zero) /\ Done(p)
      /\ UNCHANGED <<dir, origin, body, nowid, updateorigin, idseq, disorder>>
  BY <1>1 DEF Blank, shm
<1>4. /\ deleted' \in Seq(RecordsTo(posted))
      /\ Below(deleted, nowid) => Below(deleted', nowid)
  <2>1. Zero.id <= nowid
    BY <1>2
  <2> QED BY <1>2, <1>3, <2>1, SubstituteDef, SubstituteBelow
<1>5. posted' = posted /\ Grows
  BY <1>2, <1>3 DEF posted, Grows
<1>6. FilesOK' /\ SharedOK' /\ FilesOrdered'
  BY <1>3, <1>4, <1>5 DEF IInv, FilesOK, SharedOK, FilesOrdered
<1> QED
  BY <1>3, <1>5, <1>6, DoneStep, StepParts

\* A set of numbers up to m that is not empty has a largest one.
LEMMA LargestElement ==
  ASSUME NEW m \in Nat, NEW T \in SUBSET (1..m), T # {}
  PROVE  \E x \in T : \A y \in T : y <= x
<1> DEFINE U == {m - x : x \in T}
<1>1. U \in SUBSET Nat /\ U # {}
  <2>1. \A x \in T : m - x \in Nat
    OBVIOUS
  <2> QED BY <2>1
<1>2. \E u \in U : \A v \in U : u <= v
  <2> HIDE DEF U
  <2> QED BY <1>1, LeastElement
<1>3. PICK x \in T : \A v \in U : m - x <= v
  BY <1>2
<1>4. \A y \in T : m - x <= m - y
  BY <1>3
<1> QED
  BY <1>3, <1>4

\* Two fields and more are changed.
LEMMA SetsPlace ==
  ASSUME NEW n \in Nat, NEW x \in Processes(n), NEW c, NEW e
  PROVE  [x EXCEPT !.pc = c, !.ent = e] = Sets(x, c, e, x.to, x.size, x.was)
<1>1. PICK y : y = [x EXCEPT !.pc = c]
  OBVIOUS
<1>2. y = Sets(x, c, x.ent, x.to, x.size, x.was)
  BY <1>1 DEF Processes, ProcessRecords, Sets
<1>3. [y EXCEPT !.ent = e] = Sets(x, c, e, x.to, x.size, x.was)
  BY <1>2 DEF Sets
<1> QED
  BY <1>1, <1>3

LEMMA SetsRange ==
  ASSUME NEW n \in Nat, NEW x \in Processes(n), NEW c, NEW z, NEW t
  PROVE  [x EXCEPT !.pc = c, !.size = z, !.to = t] = Sets(x, c, x.ent, t, z, x.was)
<1>1. PICK y : y = [x EXCEPT !.pc = c]
  OBVIOUS
<1>2. PICK v : v = [y EXCEPT !.size = z]
  OBVIOUS
<1>3. y = Sets(x, c, x.ent, x.to, x.size, x.was)
  BY <1>1 DEF Processes, ProcessRecords, Sets
<1>4. v = Sets(x, c, x.ent, x.to, z, x.was)
  BY <1>2, <1>3 DEF Sets
<1>5. [v EXCEPT !.to = t] = Sets(x, c, x.ent, t, z, x.was)
  BY <1>4 DEF Sets
<1> QED
  BY <1>1, <1>2, <1>5

\* The place has been found: the record is written there.
LEMMA PlaceStep ==
  ASSUME IInv, NEW p \in Procs, NEW c \in {"write", "owrite"}, NEW e \in Nat, e > 0,
         c = "write" => pr[p].rec.art # 0, pr' = [pr EXCEPT ![p].pc = c, ![p].ent = e], Grows
  PROVE  ProcsOK' /\ ProcsOrdered'
<1>1. PICK x : x = pr[p]
  OBVIOUS
<1>2. x \in Processes(posted) /\ posted \in Nat
  BY <1>1, AtHand
<1>3. pr' = [pr EXCEPT ![p] = [x EXCEPT !.pc = c, !.ent = e]]
  BY <1>1 DEF IInv, ProcsOK
<1>4. pr' = [pr EXCEPT ![p] = Sets(pr[p], c, e, x.to, x.size, x.was)]
  <2>1. [x EXCEPT !.pc = c, !.ent = e] = Sets(x, c, e, x.to, x.size, x.was)
    BY <1>2, SetsPlace
  <2> QED BY <1>1, <1>3, <2>1
<1>5. x.to \in Nat /\ x.size \in Nat /\ x.was \in Seq(RecordsTo(posted))
  BY <1>2, ProcessIs
<1>6. Ready(c, pr[p].rec.art, e, x.to, x.size) /\ c \in Steps
  BY Names DEF Ready
<1> QED
  BY <1>4, <1>5, <1>6, SetsStep

LEMMA FindStep ==
  ASSUME IInv, NEW p \in Procs, Find(p)
  PROVE  IInv'
<1> DEFINE at == {i \in 1..pr[p].ent : i <= Len(dir) /\ SameFile(dir[i], pr[p].rec)}
           e == CHOOSE i \in at : \A j \in at : j <= i
<1>1. /\ pr[p].pc = "find" /\ UNCHANGED <<files, shm, disorder>>
      /\ IF at = {} THEN Done(p) ELSE pr' = [pr EXCEPT ![p].pc = "write", ![p].ent = e]
  BY DEF Find, ghosts
<1>2. pr[p].ent \in Nat /\ pr[p].rec.art # 0
  BY <1>1, AtHand, ProcessIs DEF Ready
<1>3. CASE at = {}
  BY <1>1, <1>3, DoneStep, OnlyProc
<1>4. CASE at # {}
  <2>1. at \in SUBSET (1..pr[p].ent)
    OBVIOUS
  <2>2. \E i \in at : \A j \in at : j <= i
    <3> HIDE DEF at
    <3> QED BY <1>2, <1>4, <2>1, LargestElement
  <2>3. e \in at
    <3> HIDE DEF at
    <3> QED BY <2>2
  <2>4. e \in Nat /\ e > 0
    <3> HIDE DEF e
    <3> QED BY <1>2, <2>3
  <2>5. pr' = [pr EXCEPT ![p].pc = "write", ![p].ent = e]
    BY <1>1, <1>4
  <2>6. Grows => ProcsOK' /\ ProcsOrdered'
    <3> HIDE DEF e
    <3> QED BY <1>2, <2>4, <2>5, PlaceStep
  <2> QED BY <1>1, <2>6, OnlyProc
<1> QED
  BY <1>3, <1>4

LEMMA FindOriginStep ==
  ASSUME IInv, NEW p \in Procs, FindOrigin(p)
  PROVE  IInv'
<1>1. PICK e : e = Search_Bin(origin, pr[p].rec.id)
  OBVIOUS
<1>2. /\ UNCHANGED <<files, shm, disorder>>
      /\ IF e = 0 THEN Done(p) ELSE pr' = [pr EXCEPT ![p].pc = "owrite", ![p].ent = e]
  BY <1>1 DEF FindOrigin, ghosts
<1>3. e \in Nat
  <2>1. posted \in Nat /\ origin \in Seq(RecordsTo(posted)) /\ pr[p].rec.id \in Nat
    BY AtHand DEF IInv, FilesOK
  <2>2. e \in 0..Len(origin)
    BY <1>1, <2>1, SearchDef
  <2> QED BY <2>1, <2>2
<1>4. CASE e = 0
  BY <1>2, <1>4, DoneStep, OnlyProc
<1>5. CASE e # 0
  <2>1. e > 0 /\ pr' = [pr EXCEPT ![p].pc = "owrite", ![p].ent = e]
    BY <1>2, <1>3, <1>5
  <2>2. Grows => ProcsOK' /\ ProcsOrdered'
    BY <1>3, <2>1, PlaceStep
  <2> QED BY <1>2, <2>2, OnlyProc
<1> QED
  BY <1>4, <1>5

\* If the record is still at its place it is written as it was.
LEMMA WriteStep ==
  ASSUME IInv, NEW p \in Procs, Write(p)
  PROVE  IInv'
<1>1. PICK r : r = pr[p].rec
  OBVIOUS
<1>2. PICK e : e = pr[p].ent
  OBVIOUS
<1>3. /\ pr[p].pc = "write" /\ dir' = substitute_record(dir, e, r)
      /\ disorder' = (disorder \/ View(dir, e)[e] # r)
      /\ IF r.root THEN AfterDir(p, r, "idle") ELSE Done(p)
      /\ UNCHANGED <<origin, deleted, body, nowid, updateorigin, idseq>>
  BY <1>1, <1>2 DEF Write, shm
<1>4. /\ posted \in Nat /\ nowid \in Nat /\ r \in RecordsTo(posted)
      /\ e \in Nat /\ e > 0 /\ r.art # 0 /\ (~disorder => r.id <= nowid)
      /\ dir \in Seq(RecordsTo(posted))
  BY <1>1, <1>2, <1>3, AtHand, ProcessIs DEF Ready, IInv, FilesOK
<1>5. disorder => disorder'
  BY <1>3, Zenon
<1>6. posted' = posted /\ Grows
  BY <1>3, <1>4, <1>5 DEF posted, Grows
<1>7. dir' \in Seq(RecordsTo(posted))
  BY <1>3, <1>4, SubstituteDef
<1>8. FilesOK' /\ SharedOK'
  BY <1>3, <1>6, <1>7 DEF IInv, FilesOK, SharedOK
<1>9. FilesOrdered'
  <2> SUFFICES ASSUME ~disorder'
               PROVE  SortedSeq(dir') /\ Below(dir', nowid') /\ Below(deleted', nowid')
    BY DEF FilesOrdered
  <2>1. ~disorder /\ View(dir, e)[e] = r
    BY <1>3, Zenon
  <2>2. e \in 1..e
    BY <1>4
  <2>3. View(dir, e)[e] = IF e <= Len(dir) THEN dir[e] ELSE Zero
    BY <1>4, <2>2 DEF View
  <2>4. e \in 1..Len(dir) /\ dir[e] = r
    <3>1. Zero.art = 0
      BY DEF Zero
    <3> QED BY <1>4, <2>1, <2>3, <3>1
  <2>5. dir' = dir
    <3>1. substitute_record(dir, e, r) = dir
      <4>1. substitute_record(dir, e, dir[e]) = dir
        BY <1>4, <2>4, SubstituteSame
      <4> QED BY <2>4, <4>1
    <3> QED BY <1>3, <3>1
  <2> QED BY <1>3, <2>1, <2>5 DEF IInv, FilesOrdered
<1>10. ProcsOK' /\ ProcsOrdered'
  <2>1. ~disorder' => r.id <= nowid'
    BY <1>3, <1>4, <1>5
  <2> QED BY <1>3, <1>4, <1>6, <2>1, AfterDirStep, DoneStep
<1> QED
  BY <1>8, <1>9, <1>10, StepParts

LEMMA WriteOriginStep ==
  ASSUME IInv, NEW p \in Procs, WriteOrigin(p)
  PROVE  IInv'
<1>1. PICK r : r = pr[p].rec
  OBVIOUS
<1>2. PICK e : e = pr[p].ent
  OBVIOUS
<1>3. /\ origin' = substitute_record(origin, e, r) /\ Done(p)
      /\ UNCHANGED <<dir, deleted, body, nowid, updateorigin, idseq, disorder>>
  BY <1>1, <1>2 DEF WriteOrigin, shm
<1>4. /\ posted \in Nat /\ nowid \in Nat /\ r \in RecordsTo(posted) /\ e \in Nat
      /\ origin \in Seq(RecordsTo(posted))
  BY <1>1, <1>2, AtHand, ProcessIs DEF IInv, FilesOK
<1>5. posted' = posted /\ Grows
  BY <1>3, <1>4 DEF posted, Grows
<1>6. origin' \in Seq(RecordsTo(posted))
  BY <1>3, <1>4, SubstituteDef
<1>7. FilesOK' /\ SharedOK' /\ FilesOrdered'
  BY <1>3, <1>5, <1>6 DEF IInv, FilesOK, SharedOK, FilesOrdered
<1> QED
  BY <1>3, <1>5, <1>7, DoneStep, StepParts

\* The range is cut to the file.
LEMMA StatStep ==
  ASSUME IInv, NEW p \in Procs, Stat(p)
  PROVE  IInv'
<1>1. PICK x : x = pr[p]
  OBVIOUS
<1>2. PICK n : n = Len(dir)
  OBVIOUS
<1>3. PICK t : t = IF x.to > n THEN n ELSE x.to
  OBVIOUS
<1>4. /\ posted \in Nat /\ x \in Processes(posted) /\ n \in Nat
  BY <1>1, <1>2, AtHand DEF IInv, FilesOK
<1>5. x.pc = "stat" /\ UNCHANGED <<files, shm, disorder>>
  BY <1>1 DEF Stat, ghosts
<1>6. /\ x.ent \in Nat /\ x.to \in Nat /\ x.was \in Seq(RecordsTo(posted))
      /\ 1 <= x.ent /\ x.ent <= x.to
  BY <1>4, <1>5, ProcessIs DEF Ready
<1>7. CASE x.ent > n
  BY <1>1, <1>2, <1>5, <1>7, DoneStep, OnlyProc DEF Stat
<1>8. CASE ~(x.ent > n)
  <2>1. pr' = [pr EXCEPT ![p] = [x EXCEPT !.pc = "rmove", !.size = n, !.to = t]]
    <3>1. pr' = [pr EXCEPT ![p].pc = "rmove", ![p].size = n, ![p].to = t]
      BY <1>1, <1>2, <1>3, <1>8 DEF Stat, IInv, ProcsOK
    <3> QED BY <1>1, <3>1 DEF IInv, ProcsOK
  <2>2. pr' = [pr EXCEPT ![p] = Sets(pr[p], "rmove", x.ent, t, n, x.was)]
    <3>1. [x EXCEPT !.pc = "rmove", !.size = n, !.to = t]
            = Sets(x, "rmove", x.ent, t, n, x.was)
      BY <1>4, SetsRange
    <3> QED BY <1>1, <2>1, <3>1
  <2>3. t \in Nat /\ x.ent <= t /\ t <= n
    BY <1>3, <1>4, <1>6, <1>8
  <2>4. Ready("rmove", pr[p].rec.art, x.ent, t, n) /\ "rmove" \in Steps
    BY <1>6, <2>3, Names DEF Ready
  <2>5. Grows => ProcsOK' /\ ProcsOrdered'
    BY <1>4, <1>6, <2>2, <2>3, <2>4, SetsStep
  <2> QED BY <1>5, <2>5, OnlyProc
<1> QED
  BY <1>7, <1>8

\* The letters of the range change, not the ids.
LEMMA MoveRangeStep ==
  ASSUME IInv, NEW p \in Procs, MoveRange(p)
  PROVE  IInv'
<1>1. /\ posted \in Nat /\ nowid \in Nat /\ dir \in Seq(RecordsTo(posted)) /\ Len(dir) \in Nat
      /\ body \in Seq(Letters) /\ posted = Len(body)
  BY AtHand DEF IInv, FilesOK, posted
<1>2. /\ pr[p].pc = "rmove" /\ Goto(p, "rcut")
      /\ UNCHANGED <<origin, deleted, nowid, updateorigin, idseq, disorder>>
  BY DEF MoveRange, shm
<1>3. body' \in Seq(Letters) /\ posted' = posted
  <2> DEFINE D(a) == \E i \in 1..Len(dir) :
                       InRange(p, i) /\ dir[i].art = a /\ dir[i].kind = body[a]
  <2>1. body' = [a \in 1..posted |-> IF D(a) THEN "D" ELSE body[a]]
    BY DEF MoveRange
  <2> HIDE DEF D
  <2>2. \A a \in 1..posted : (IF D(a) THEN "D" ELSE body[a]) \in Letters
    BY <1>1 DEF Letters
  <2>3. body' \in [1..posted -> Letters]
    BY <2>1, <2>2
  <2> QED BY <1>1, <2>3 DEF posted
<1>4. dir' \in [1..Len(dir) -> RecordsTo(posted)] /\ \A i \in 1..Len(dir) : dir'[i].id = dir[i].id
  <2> DEFINE C(i) == InRange(p, i) /\ dir[i].art # 0
             new(i) == IF C(i) THEN [dir[i] EXCEPT !.kind = "D"] ELSE dir[i]
  <2>1. dir' = [i \in 1..Len(dir) |-> new(i)]
    BY DEF MoveRange
  <2>2. ASSUME NEW i \in 1..Len(dir) PROVE new(i) \in RecordsTo(posted) /\ new(i).id = dir[i].id
    <3>1. dir[i] \in RecordsTo(posted)
      BY <1>1
    <3>2. PICK r : r = dir[i]
      OBVIOUS
    <3>3. [r EXCEPT !.kind = "D"] \in RecordsTo(posted) /\ [r EXCEPT !.kind = "D"].id = r.id
      BY <1>1, <3>1, <3>2, KindSet
    <3> HIDE DEF C
    <3> QED BY <3>1, <3>2, <3>3
  <2> HIDE DEF new
  <2> QED BY <2>1, <2>2
<1>5. dir' \in Seq(RecordsTo(posted)) /\ Len(dir') = Len(dir)
  BY <1>1, <1>4
<1>6. Grows
  BY <1>1, <1>2, <1>3 DEF Grows
<1>7. FilesOK' /\ SharedOK'
  BY <1>2, <1>3, <1>5 DEF IInv, FilesOK, SharedOK
<1>8. FilesOrdered'
  <2> SUFFICES ASSUME ~disorder'
               PROVE  SortedSeq(dir') /\ Below(dir', nowid') /\ Below(deleted', nowid')
    BY DEF FilesOrdered
  <2>1. SortedSeq(dir) /\ Below(dir, nowid) /\ Below(deleted, nowid)
    BY <1>2 DEF IInv, FilesOrdered
  <2>2. SortedSeq(dir')
    BY <1>4, <1>5, <2>1 DEF SortedSeq
  <2>3. Below(dir', nowid')
    BY <1>2, <1>4, <1>5, <2>1 DEF Below
  <2> QED BY <1>2, <2>1, <2>2, <2>3
<1>9. Ready("rcut", pr[p].rec.art, pr[p].ent, pr[p].to, pr[p].size) /\ "rcut" \in Steps
  <2>1. Ready("rmove", pr[p].rec.art, pr[p].ent, pr[p].to, pr[p].size)
    BY <1>2, AtHand, ProcessIs
  <2> QED BY <2>1, Names DEF Ready
<1> QED
  BY <1>2, <1>6, <1>7, <1>8, <1>9, GotoStep, StepParts

LEMMA CutRangeStep ==
  ASSUME IInv, NEW p \in Procs, CutRange(p)
  PROVE  IInv'
<1>1. PICK n : n = pr[p].size
  OBVIOUS
<1>2. PICK i : i = pr[p].ent
  OBVIOUS
<1>3. PICK j : j = pr[p].to
  OBVIOUS
<1>4. PICK v : v = View(dir, n)
  OBVIOUS
<1>5. /\ pr[p].pc = "rcut" /\ dir' = Removed(dir, n, i, j)
      /\ deleted' = deleted \o SubSeq(v, i, j)
      /\ disorder' = (disorder \/ n > Len(dir)) /\ Goto(p, "flag")
      /\ UNCHANGED <<origin, body, nowid, idseq, updateorigin>>
  BY <1>1, <1>2, <1>3, <1>4 DEF CutRange, shm
<1>6. /\ posted \in Nat /\ nowid \in Nat /\ n \in Nat /\ i \in 1..n /\ j \in i..n
      /\ dir \in Seq(RecordsTo(posted)) /\ deleted \in Seq(RecordsTo(posted))
  <2>1. posted \in Nat /\ nowid \in Nat /\ pr[p] \in Processes(posted)
    BY AtHand
  <2>2. n \in Nat /\ i \in Nat /\ j \in Nat /\ 1 <= i /\ i <= j /\ j <= n
    BY <1>1, <1>2, <1>3, <1>5, <2>1, ProcessIs DEF Ready
  <2> QED BY <2>1, <2>2 DEF IInv, FilesOK
<1>7. disorder => disorder'
  BY <1>5, Zenon
<1>8. posted' = posted /\ Grows
  BY <1>5, <1>6, <1>7 DEF posted, Grows
<1>9. dir' \in Seq(RecordsTo(posted))
  BY <1>5, <1>6, RemovedDef
<1>10. /\ v \in Seq(RecordsTo(posted)) /\ Len(v) = n
       /\ \A k \in 1..n : v[k] = IF k <= Len(dir) THEN dir[k] ELSE Zero
  <2>1. \A k \in 1..n : v[k] = IF k <= Len(dir) THEN dir[k] ELSE Zero
    BY <1>4 DEF View
  <2> QED BY <1>4, <1>6, <2>1, ViewDef
<1>11. PICK u : u = SubSeq(v, i, j)
  OBVIOUS
<1>12. /\ u \in Seq(RecordsTo(posted)) /\ Len(u) = j-i+1
       /\ \A k \in 1..Len(u) : u[k] = v[i+k-1]
  BY <1>6, <1>10, <1>11
<1>13. /\ deleted' \in Seq(RecordsTo(posted)) /\ Len(deleted') = Len(deleted) + Len(u)
       /\ \A k \in 1..Len(deleted) + Len(u) :
            deleted'[k] = IF k <= Len(deleted) THEN deleted[k] ELSE u[k - Len(deleted)]
  <2>1. deleted' = deleted \o u
    BY <1>5, <1>11
  <2> QED BY <1>6, <1>12, <2>1, ConcatProperties
<1>14. FilesOK' /\ SharedOK'
  BY <1>5, <1>8, <1>9, <1>13 DEF IInv, FilesOK, SharedOK
<1>15. FilesOrdered'
  <2> SUFFICES ASSUME ~disorder'
               PROVE  SortedSeq(dir') /\ Below(dir', nowid') /\ Below(deleted', nowid')
    BY DEF FilesOrdered
  <2>1. ~disorder /\ ~(n > Len(dir))
    BY <1>5, Zenon
  <2>2. n <= Len(dir) /\ Len(dir) \in Nat
    BY <1>6, <2>1
  <2>3. SortedSeq(dir) /\ Below(dir, nowid) /\ Below(deleted, nowid)
    BY <2>1 DEF IInv, FilesOrdered
  <2>4. SortedSeq(dir') /\ Below(dir', nowid)
    BY <1>5, <1>6, <2>2, <2>3, RemovedSorted
  <2>5. ASSUME NEW k \in 1..Len(u) PROVE u[k].id <= nowid
    <3>1. i+k-1 \in 1..n /\ i+k-1 \in 1..Len(dir)
      BY <1>6, <1>12, <2>2
    <3>2. u[k] = dir[i+k-1]
      BY <1>10, <1>12, <2>2, <3>1
    <3> QED BY <2>3, <3>1, <3>2 DEF Below
  <2>6. Below(deleted', nowid)
    <3> SUFFICES ASSUME NEW k \in 1..Len(deleted') PROVE deleted'[k].id <= nowid
      BY DEF Below
    <3>1. CASE k <= Len(deleted)
      BY <1>6, <1>12, <1>13, <2>3, <3>1 DEF Below
    <3>2. CASE ~(k <= Len(deleted))
      <4>1. k - Len(deleted) \in 1..Len(u) /\ deleted'[k] = u[k - Len(deleted)]
        BY <1>6, <1>12, <1>13, <3>2
      <4> QED BY <2>5, <4>1
    <3> QED BY <3>1, <3>2
  <2> QED BY <1>5, <2>4, <2>6
<1>16. "flag" \in Steps /\ "flag" \in Steps \ {"find", "write", "owrite", "stat", "rmove", "rcut"}
  BY DEF Steps
<1>17. ProcsOK' /\ ProcsOrdered'
  BY <1>5, <1>8, <1>16, ReadyAnyway, GotoStep
<1> QED
  BY <1>14, <1>15, <1>17, StepParts

LEMMA FlagStep ==
  ASSUME IInv, NEW p \in Procs, Flag(p)
  PROVE  IInv'
<1>1. /\ updateorigin' = TRUE /\ Done(p)
      /\ UNCHANGED <<dir, origin, deleted, body, nowid, idseq, disorder>>
  BY DEF Flag, files
<1>2. posted \in Nat /\ nowid \in Nat
  BY AtHand
<1>3. posted' = posted /\ Grows
  BY <1>1, <1>2 DEF posted, Grows
<1>4. FilesOK' /\ SharedOK' /\ FilesOrdered'
  BY <1>1, <1>3 DEF IInv, FilesOK, SharedOK, FilesOrdered
<1> QED
  BY <1>1, <1>3, <1>4, DoneStep, StepParts

LEMMA RegenStep ==
  ASSUME IInv, NEW p \in Procs, Regen(p)
  PROVE  IInv'
<1>1. UNCHANGED <<files, shm, disorder>> /\ Goto(p, "regen")
  BY DEF Regen, ghosts
<1> QED
  BY <1>1, Names, ReadyAnyway, GotoStep, OnlyProc

LEMMA RegenLockStep ==
  ASSUME IInv, NEW p \in Procs, RegenLock(p)
  PROVE  IInv'
<1>1. PICK x : x = pr[p]
  OBVIOUS
<1>2. PICK n : n = Len(dir)
  OBVIOUS
<1>3. PICK w : w = dir
  OBVIOUS
<1>4. /\ posted \in Nat /\ x \in Processes(posted) /\ n \in Nat /\ w \in Seq(RecordsTo(posted))
  BY <1>1, <1>2, <1>3, AtHand DEF IInv, FilesOK
<1>5. /\ UNCHANGED <<files, shm, disorder>>
      /\ \/ pr' = [pr EXCEPT ![p].pc = "rewrite", ![p].size = n, ![p].was = w]
         \/ GoesOn(p)
  BY <1>2, <1>3 DEF RegenLock, ghosts
<1>6. CASE pr' = [pr EXCEPT ![p].pc = "rewrite", ![p].size = n, ![p].was = w]
  <2>1. pr' = [pr EXCEPT ![p] = [x EXCEPT !.pc = "rewrite", !.size = n, !.was = w]]
    BY <1>1, <1>6 DEF IInv, ProcsOK
  <2>2. pr' = [pr EXCEPT ![p] = Sets(pr[p], "rewrite", x.ent, x.to, n, w)]
    <3>1. [x EXCEPT !.pc = "rewrite", !.size = n, !.was = w]
            = Sets(x, "rewrite", x.ent, x.to, n, w)
      <4>1. PICK y : y = [x EXCEPT !.pc = "rewrite"]
        OBVIOUS
      <4>2. PICK v : v = [y EXCEPT !.size = n]
        OBVIOUS
      <4>3. y = Sets(x, "rewrite", x.ent, x.to, x.size, x.was)
        BY <1>4, <4>1 DEF Processes, ProcessRecords, Sets
      <4>4. v = Sets(x, "rewrite", x.ent, x.to, n, x.was)
        BY <4>2, <4>3 DEF Sets
      <4>5. [v EXCEPT !.was = w] = Sets(x, "rewrite", x.ent, x.to, n, w)
        BY <4>4 DEF Sets
      <4> QED BY <4>1, <4>2, <4>5
    <3> QED BY <1>1, <2>1, <3>1
  <2>3. x.ent \in Nat /\ x.to \in Nat
    BY <1>4, ProcessIs
  <2>4. Ready("rewrite", pr[p].rec.art, x.ent, x.to, n) /\ "rewrite" \in Steps
    BY Names, ReadyAnyway
  <2>5. Grows => ProcsOK' /\ ProcsOrdered'
    BY <1>4, <2>2, <2>3, <2>4, SetsStep
  <2> QED BY <1>5, <2>5, OnlyProc
<1>7. CASE GoesOn(p)
  BY <1>5, <1>7, GoesOnStep, OnlyProc
<1> QED
  BY <1>5, <1>6, <1>7

LEMMA RegenWriteStep ==
  ASSUME IInv, NEW p \in Procs, RegenWrite(p)
  PROVE  IInv'
<1>1. PICK n : n = pr[p].size
  OBVIOUS
<1>2. /\ posted \in Nat /\ nowid \in Nat /\ n \in Nat /\ dir \in Seq(RecordsTo(posted))
  BY <1>1, AtHand, ProcessIs DEF IInv, FilesOK
<1>3. /\ origin' = Roots(View(dir, n)) /\ Goto(p, "clear")
      /\ UNCHANGED <<dir, deleted, body, nowid, updateorigin, idseq, disorder>>
  BY <1>1 DEF RegenWrite, shm
<1>4. origin' \in Seq(RecordsTo(posted))
  <2>1. View(dir, n) \in Seq(RecordsTo(posted))
    BY <1>2, ViewDef
  <2> QED BY <1>2, <1>3, <2>1, RootsType
<1>5. posted' = posted /\ Grows
  BY <1>2, <1>3 DEF posted, Grows
<1>6. FilesOK' /\ SharedOK' /\ FilesOrdered'
  BY <1>3, <1>4, <1>5 DEF IInv, FilesOK, SharedOK, FilesOrdered
<1> QED
  BY <1>3, <1>5, <1>6, Names, ReadyAnyway, GotoStep, StepParts

LEMMA RegenClearStep ==
  ASSUME IInv, NEW p \in Procs, RegenClear(p)
  PROVE  IInv'
<1>1. /\ updateorigin' = FALSE /\ GoesOn(p)
      /\ UNCHANGED <<dir, origin, deleted, body, nowid, idseq, disorder>>
  BY DEF RegenClear, files
<1>2. posted \in Nat /\ nowid \in Nat
  BY AtHand
<1>3. posted' = posted /\ Grows
  BY <1>1, <1>2 DEF posted, Grows
<1>4. FilesOK' /\ SharedOK' /\ FilesOrdered'
  BY <1>1, <1>3 DEF IInv, FilesOK, SharedOK, FilesOrdered
<1> QED
  BY <1>1, <1>3, <1>4, GoesOnStep, StepParts

-----------------------------------------------------------------------------
(* The daemon and the machine *)

\* The processes are where they were.
LEMMA ProcsFrame ==
  ASSUME ProcsOK, ProcsOrdered, UNCHANGED <<pr, disorder, nowid>>, posted' = posted
  PROVE  ProcsOK' /\ ProcsOrdered'
BY DEF ProcsOK, ProcsOrdered

LEMMA killdirStep ==
  ASSUME IInv, NEW k \in 1..Len(deleted), killdir(k)
  PROVE  IInv'
<1>1. /\ posted \in Nat /\ deleted \in Seq(RecordsTo(posted)) /\ Len(deleted) \in Nat
      /\ body \in Seq(Letters) /\ posted = Len(body)
  BY DEF IInv, FilesOK, posted
<1>2. /\ deleted' = SubSeq(deleted, k + 1, Len(deleted))
      /\ UNCHANGED <<dir, origin, nowid, updateorigin, idseq, pr, disorder>>
  BY DEF killdir, shm, ghosts
<1>3. body' \in Seq(Letters) /\ posted' = posted
  <2> DEFINE D(a) == a \in Arts(SubSeq(deleted, 1, k)) /\ body[a] = "D"
  <2>1. body' = [a \in 1..posted |-> IF D(a) THEN "none" ELSE body[a]]
    BY DEF killdir
  <2> HIDE DEF D
  <2>2. \A a \in 1..posted : (IF D(a) THEN "none" ELSE body[a]) \in Letters
    BY <1>1 DEF Letters
  <2>3. body' \in [1..posted -> Letters]
    BY <2>1, <2>2
  <2> QED BY <1>1, <2>3 DEF posted
<1>4. /\ deleted' \in Seq(RecordsTo(posted)) /\ Len(deleted') = Len(deleted) - k
      /\ \A i \in 1..Len(deleted') : deleted'[i] = deleted[k + i]
  BY <1>1, <1>2
<1>5. FilesOK' /\ SharedOK'
  BY <1>2, <1>3, <1>4 DEF IInv, FilesOK, SharedOK
<1>6. Below(deleted, nowid) => Below(deleted', nowid)
  <2> SUFFICES ASSUME Below(deleted, nowid), NEW i \in 1..Len(deleted')
               PROVE  deleted'[i].id <= nowid
    BY DEF Below
  <2>1. k + i \in 1..Len(deleted)
    BY <1>1, <1>4
  <2> QED BY <1>4, <2>1 DEF Below
<1>7. FilesOrdered'
  BY <1>2, <1>6 DEF IInv, FilesOrdered
<1> QED
  BY <1>2, <1>3, <1>5, <1>7, ProcsFrame, StepParts DEF IInv

LEMMA flush_bcacheStep ==
  ASSUME IInv, flush_bcache
  PROVE  IInv'
<1>1. /\ idseq' = nowid
      /\ UNCHANGED <<dir, origin, deleted, body, nowid, updateorigin, pr, disorder>>
  BY DEF flush_bcache, files, ghosts
<1>2. posted' = posted
  BY <1>1 DEF posted
<1>3. FilesOK' /\ SharedOK' /\ FilesOrdered'
  BY <1>1, <1>2 DEF IInv, FilesOK, SharedOK, FilesOrdered
<1> QED
  BY <1>1, <1>2, <1>3, ProcsFrame, StepParts DEF IInv

\* After a restart nobody is at work, and the last id is above those in the
\* lists or that is noted.
LEMMA DieStep ==
  ASSUME IInv, NEW p \in Procs, Die(p)
  PROVE  IInv'
<1>1. Done(p) /\ UNCHANGED <<files, shm, disorder>>
  BY DEF Die
<1>2. FilesOK' /\ SharedOK' /\ FilesOrdered' /\ Grows
  BY <1>1, FilesFrame
<1> QED
  BY <1>1, <1>2, DoneStep, StepParts

LEMMA RestartStep ==
  ASSUME IInv, Restart
  PROVE  IInv'
<1>1. /\ posted \in Nat /\ nowid \in Nat /\ idseq \in Nat
      /\ dir \in Seq(RecordsTo(posted)) /\ deleted \in Seq(RecordsTo(posted))
      /\ Len(dir) \in Nat /\ Len(deleted) \in Nat
  BY DEF IInv, FilesOK, SharedOK, posted
<1>2. /\ updateorigin' = FALSE /\ pr' = [p \in Procs |-> Idle]
      /\ UNCHANGED <<dir, origin, deleted, body, idseq>>
  BY DEF Restart, files
<1>3. PICK last \in LastIds :
        /\ nowid' = IF idseq > last + 1 THEN idseq ELSE last + 1
        /\ disorder' = (disorder \/ \E r \in Listed : r.id > nowid')
  BY DEF Restart
<1>4. nowid' \in Nat
  <2>1. last \in Nat
    <3>1. CASE Len(dir) > 1
      <4>1. dir[Len(dir) - 1] \in RecordsTo(posted)
        BY <1>1, <3>1
      <4>2. dir[Len(dir) - 1].id \in Nat
        BY <1>1, <4>1, RecordsAre
      <4> QED BY <3>1, <4>2 DEF LastIds
    <3>2. CASE ~(Len(dir) > 1)
      BY <1>1, <3>2 DEF LastIds
    <3> QED BY <3>1, <3>2
  <2> QED BY <1>1, <1>3, <2>1
<1>5. posted' = posted
  BY <1>2 DEF posted
<1>6. FilesOK' /\ SharedOK'
  BY <1>2, <1>4, <1>5 DEF IInv, FilesOK, SharedOK
<1>7. FilesOrdered'
  <2> SUFFICES ASSUME ~disorder'
               PROVE  SortedSeq(dir') /\ Below(dir', nowid') /\ Below(deleted', nowid')
    BY DEF FilesOrdered
  <2>1. ~disorder /\ \A r \in Listed : ~(r.id > nowid')
    BY <1>3, Zenon
  <2>2. PICK z : z = dir \o deleted
    OBVIOUS
  <2>3. /\ z \in Seq(RecordsTo(posted)) /\ Len(z) = Len(dir) + Len(deleted)
        /\ \A i \in 1..Len(dir) + Len(deleted) :
             z[i] = IF i <= Len(dir) THEN dir[i] ELSE deleted[i - Len(dir)]
    BY <1>1, <2>2, ConcatProperties
  <2>4. \A i \in 1..Len(z) : z[i].id <= nowid'
    <3> SUFFICES ASSUME NEW i \in 1..Len(z) PROVE z[i].id <= nowid'
      OBVIOUS
    <3>1. z[i] \in Listed
      BY <2>2 DEF Listed
    <3>2. z[i].id \in Nat
      <4>1. z[i] \in RecordsTo(posted)
        BY <2>3
      <4> QED BY <1>1, <4>1, RecordsAre
    <3> QED BY <1>4, <2>1, <3>1, <3>2
  <2>5. Below(dir, nowid')
    <3> SUFFICES ASSUME NEW i \in 1..Len(dir) PROVE dir[i].id <= nowid'
      BY DEF Below
    <3>1. i \in 1..Len(z) /\ z[i] = dir[i]
      BY <1>1, <2>3
    <3> QED BY <2>4, <3>1
  <2>6. Below(deleted, nowid')
    <3> SUFFICES ASSUME NEW i \in 1..Len(deleted) PROVE deleted[i].id <= nowid'
      BY DEF Below
    <3>1. PICK j : j = Len(dir) + i
      OBVIOUS
    <3>2. j \in 1..Len(dir) + Len(deleted) /\ ~(j <= Len(dir)) /\ j - Len(dir) = i
      BY <1>1, <3>1
    <3>3. j \in 1..Len(z) /\ z[j] = deleted[i]
      BY <2>3, <3>2
    <3> QED BY <2>4, <3>3
  <2>7. SortedSeq(dir)
    BY <2>1 DEF IInv, FilesOrdered
  <2> QED BY <1>2, <2>5, <2>6, <2>7
<1>8. ProcsOK' /\ ProcsOrdered'
  <2>1. Idle \in Processes(posted') /\ Idle.rec.id <= nowid'
    BY <1>1, <1>4, <1>5, IdleProcess
  <2>2. PICK x : x = Idle
    OBVIOUS
  <2>3. pr' = [p \in Procs |-> x]
    BY <1>2, <2>2
  <2> QED BY <2>1, <2>2, <2>3 DEF ProcsOK, ProcsOrdered
<1> QED
  BY <1>6, <1>7, <1>8, StepParts

-----------------------------------------------------------------------------
(* Theorems *)

LEMMA InitHolds == Init => IInv
<1> SUFFICES ASSUME Init PROVE IInv
  OBVIOUS
<1>1. PICK s \in FirstDirs, saved \in {0, 1} :
        /\ dir = [i \in 1..Len(s) |->
                    [art |-> i, kind |-> "M", id |-> s[i][1], root |-> s[i][2]]]
        /\ origin = Roots(dir) /\ deleted = <<>>
        /\ body = [i \in 1..Len(s) |-> "M"]
        /\ nowid = LastId(s) /\ idseq = saved * LastId(s)
        /\ updateorigin = FALSE /\ pr = [p \in Procs |-> Idle]
  BY DEF Init
<1>2. /\ s \in Seq((Nat \ {0}) \X BOOLEAN) /\ Len(s) \in Nat
      /\ \A i, j \in 1..Len(s) : i < j => s[i][1] < s[j][1]
  BY BoardAssumption
<1>3. \A i \in 1..Len(s) : s[i][1] \in Nat /\ s[i][2] \in BOOLEAN
  <2>1. \A i \in 1..Len(s) : s[i] \in (Nat \ {0}) \X BOOLEAN
    BY <1>2
  <2> QED BY <2>1
<1>4. LastId(s) \in Nat /\ \A i \in 1..Len(s) : s[i][1] <= LastId(s)
  <2>1. CASE s = <<>>
    <3>1. LastId(s) = 0 /\ Len(s) = 0
      BY <2>1 DEF LastId
    <3> QED BY <3>1
  <2>2. CASE s # <<>>
    <3>1. Len(s) \in 1..Len(s) /\ LastId(s) = s[Len(s)][1]
      BY <1>2, <2>2 DEF LastId
    <3>2. LastId(s) \in Nat
      BY <1>3, <3>1
    <3>3. ASSUME NEW i \in 1..Len(s) PROVE s[i][1] <= LastId(s)
      <4>1. i = Len(s) \/ i < Len(s)
        BY <1>2
      <4>2. s[i][1] = s[Len(s)][1] \/ s[i][1] < s[Len(s)][1]
        BY <1>2, <3>1, <4>1
      <4> QED BY <1>3, <3>1, <3>2, <4>2
    <3> QED BY <3>2, <3>3
  <2> QED BY <2>1, <2>2
<1>5. body \in Seq(Letters) /\ posted = Len(s)
  <2>1. PICK n \in Nat : n = Len(s)
    BY <1>2
  <2>2. body \in [1..n -> Letters]
    BY <1>1, <2>1 DEF Letters
  <2>3. \A f \in [1..n -> Letters] : f \in Seq(Letters) /\ Len(f) = n
    OBVIOUS
  <2> QED BY <2>1, <2>2, <2>3, Zenon DEF posted
<1>6. dir \in Seq(RecordsTo(posted)) /\ Len(dir) = Len(s)
  <2>1. \A i \in 1..Len(s) : [art |-> i, kind |-> "M", id |-> s[i][1], root |-> s[i][2]]
                               \in RecordsTo(posted)
    BY <1>2, <1>3, <1>5 DEF RecordsTo
  <2>2. dir \in [1..Len(s) -> RecordsTo(posted)]
    BY <1>1, <2>1
  <2>3. PICK n \in Nat : n = Len(s)
    BY <1>2
  <2>4. \A f \in [1..n -> RecordsTo(posted)] : f \in Seq(RecordsTo(posted)) /\ Len(f) = n
    OBVIOUS
  <2> QED BY <2>2, <2>3, <2>4, Zenon
<1>7. \A i \in 1..Len(s) : dir[i].id = s[i][1]
  BY <1>1
<1>8. origin \in Seq(RecordsTo(posted)) /\ deleted \in Seq(RecordsTo(posted)) /\ Len(deleted) = 0
  <2>1. deleted \in Seq(RecordsTo(posted)) /\ Len(deleted) = 0
    BY <1>1
  <2>2. posted \in Nat
    BY <1>2, <1>5
  <2>3. Roots(dir) \in Seq(RecordsTo(posted))
    BY <1>6, <2>2, RootsType
  <2> QED BY <1>1, <2>1, <2>3
<1>9. saved * LastId(s) \in Nat
  BY <1>4
<1>10. FilesOK /\ SharedOK
  BY <1>1, <1>4, <1>5, <1>6, <1>8, <1>9 DEF FilesOK, SharedOK
<1>11. FilesOrdered
  <2>1. SortedSeq(dir)
    BY <1>2, <1>6, <1>7 DEF SortedSeq
  <2>2. Below(dir, nowid)
    BY <1>1, <1>4, <1>6, <1>7 DEF Below
  <2>3. Below(deleted, nowid)
    BY <1>8 DEF Below
  <2> QED BY <2>1, <2>2, <2>3 DEF FilesOrdered
<1>12. ProcsOK /\ ProcsOrdered
  <2>1. Idle \in Processes(posted) /\ Idle.rec.id <= nowid
    BY <1>1, <1>2, <1>4, <1>5, IdleProcess
  <2>2. PICK x : x = Idle
    OBVIOUS
  <2>3. pr = [p \in Procs |-> x]
    BY <1>1, <2>2
  <2> QED BY <2>1, <2>2, <2>3 DEF ProcsOK, ProcsOrdered
<1> QED
  BY <1>10, <1>11, <1>12 DEF IInv

LEMMA Stutter == IInv /\ UNCHANGED vars => IInv'
<1> SUFFICES ASSUME IInv, UNCHANGED vars PROVE IInv'
  OBVIOUS
<1>1. UNCHANGED <<dir, origin, deleted, body, nowid, updateorigin, idseq, pr, disorder>>
  BY DEF vars, ghosts
<1>2. posted' = posted
  BY <1>1 DEF posted
<1>3. FilesOK' /\ SharedOK' /\ FilesOrdered'
  BY <1>1, <1>2 DEF IInv, FilesOK, SharedOK, FilesOrdered
<1> QED
  BY <1>1, <1>2, <1>3, ProcsFrame, StepParts DEF IInv

LEMMA NextKeeps == IInv /\ [Next]_vars => IInv'
<1> SUFFICES ASSUME IInv, [Next]_vars PROVE IInv'
  OBVIOUS
<1>1. ASSUME NEW p \in Procs, \E root \in BOOLEAN : Post(p, root) PROVE IInv'
  BY <1>1, PostStep
<1>2. ASSUME NEW p \in Procs, \E i \in 1..Len(dir), ent \in 0..Len(dir) : Delete(p, i, ent)
      PROVE  IInv'
  BY <1>2, DeleteStep
<1>3. ASSUME NEW p \in Procs, \E i \in 1..Len(deleted) : Undelete(p, i) PROVE IInv'
  BY <1>3, UndeleteStep
<1>4. ASSUME NEW p \in Procs, \E i \in 1..Len(dir) : EditTitle(p, i) PROVE IInv'
  BY <1>4, EditTitleStep
<1>5. ASSUME NEW p \in Procs, \E i, j \in 1..Len(dir) : DeleteRange(p, i, j) PROVE IInv'
  BY <1>5, DeleteRangeStep
<1>6. ASSUME NEW p \in Procs,
             \/ AppendDir(p) \/ AppendOrigin(p)
             \/ Map(p) \/ Cut(p) \/ MapOrigin(p) \/ CutOrigin(p) \/ cancelpost(p)
      PROVE  IInv'
  BY <1>6, AppendDirStep, AppendOriginStep, MapStep, CutStep, CutOriginStep, cancelpostStep
<1>7. ASSUME NEW p \in Procs,
             Check(p) \/ Move(p) \/ Insert(p) \/ InsertOrigin(p) \/ Blank(p)
      PROVE  IInv'
  BY <1>7, CheckStep, MoveStep, InsertStep, InsertOriginStep, BlankStep
<1>8. ASSUME NEW p \in Procs, Find(p) \/ Write(p) \/ FindOrigin(p) \/ WriteOrigin(p)
      PROVE  IInv'
  BY <1>8, FindStep, WriteStep, FindOriginStep, WriteOriginStep
<1>9. ASSUME NEW p \in Procs, Stat(p) \/ MoveRange(p) \/ CutRange(p) \/ Flag(p) \/ Die(p)
      PROVE  IInv'
  BY <1>9, StatStep, MoveRangeStep, CutRangeStep, FlagStep, DieStep
<1>10. ASSUME NEW p \in Procs,
              Regen(p) \/ RegenLock(p) \/ RegenWrite(p) \/ RegenClear(p)
       PROVE  IInv'
  BY <1>10, RegenStep, RegenLockStep, RegenWriteStep, RegenClearStep
<1>11. CASE \E k \in 1..Len(deleted) : killdir(k)
  BY <1>11, killdirStep
<1>12. CASE flush_bcache \/ Restart
  BY <1>12, flush_bcacheStep, RestartStep
<1>13. CASE UNCHANGED vars
  BY <1>13, Stutter
<1> QED
  BY <1>1, <1>2, <1>3, <1>4, <1>5, <1>6, <1>7, <1>8, <1>9, <1>10, <1>11, <1>12, <1>13 DEF Next

\* The inductive invariant: types, what a process at its step may rely on, and
\* that .DIR is sorted with no id above the last one given.
THEOREM Invariance == Spec => []IInv
BY InitHolds, NextKeeps, PTL DEF Spec

\* Values have their types: what the operations read in a file, at a position
\* that a search or a screen gave, is a record or what lies behind the file's end.
THEOREM TypeCorrect == Spec => []TypeOK
<1>1. IInv => TypeOK
  <2> SUFFICES ASSUME IInv PROVE TypeOK
    OBVIOUS
  <2>1. Records = RecordsTo(posted)
    BY DEF Records, RecordsTo
  <2>2. {dir, origin, deleted} \subseteq Seq(Records) /\ body \in Seq({"M", "D", "none"})
    BY <2>1 DEF IInv, FilesOK, Letters
  <2>3. {nowid, idseq} \subseteq Nat /\ updateorigin \in BOOLEAN
    BY DEF IInv, SharedOK
  <2>4. ASSUME NEW p \in Procs
        PROVE  /\ pr[p].rec \in Records /\ pr[p].ent \in Nat
               /\ pr[p].pc \in {"write", "owrite"} => pr[p].ent > 0
    <3>1. posted \in Nat /\ pr[p] \in Processes(posted)
      BY AtHand
    <3> QED BY <2>1, <3>1, ProcessIs DEF Ready
  <2> QED BY <2>2, <2>3, <2>4 DEF TypeOK
<1> QED
  BY <1>1, Invariance, PTL

\* .DIR stays sorted by id, for boards and numbers of articles of any size, as
\* long as no restart repeats ids and no stale size or position is used: the
\* bisections of do_undel_post, del_origin and edit_title rest on it.
THEOREM IdsStaySorted == Spec => []IdsSorted
<1>1. IInv => IdsSorted
  <2> SUFFICES ASSUME IInv, ~disorder, NEW i \in 1..Len(dir) - 1 PROVE dir[i].id < dir[i+1].id
    BY DEF IdsSorted
  <2>1. SortedSeq(dir) /\ Len(dir) \in Nat
    BY DEF IInv, FilesOrdered, FilesOK
  <2>2. i \in 1..Len(dir) /\ i+1 \in 1..Len(dir) /\ i < i+1
    BY <2>1
  <2> QED BY <2>1, <2>2 DEF SortedSeq
<1> QED
  BY <1>1, Invariance, PTL

\* An article that is posted gets an id that no article of the board has, in
\* .DIR or in .DELETED (get_nextid_bid under the lock of .DIR).
NewIdsAreNew ==
    [][\A p \in Procs : AppendDir(p) /\ ~disorder => \A r \in Listed : r.id < nowid']_vars

THEOREM PostsGetNewIds == Spec => NewIdsAreNew
<1>1. ASSUME IInv, NEW p \in Procs, AppendDir(p), ~disorder, NEW r \in Listed
      PROVE  r.id < nowid'
  <2>1. /\ posted \in Nat /\ nowid \in Nat /\ nowid' = nowid + 1
        /\ dir \in Seq(RecordsTo(posted)) /\ deleted \in Seq(RecordsTo(posted))
        /\ Len(dir) \in Nat /\ Len(deleted) \in Nat
        /\ Below(dir, nowid) /\ Below(deleted, nowid)
    BY <1>1, AtHand DEF AppendDir, IInv, FilesOK, FilesOrdered
  <2>2. PICK z : z = dir \o deleted
    OBVIOUS
  <2>3. /\ z \in Seq(RecordsTo(posted)) /\ Len(z) = Len(dir) + Len(deleted)
        /\ \A i \in 1..Len(dir) + Len(deleted) :
             z[i] = IF i <= Len(dir) THEN dir[i] ELSE deleted[i - Len(dir)]
    BY <2>1, <2>2, ConcatProperties
  <2>4. PICK i \in 1..Len(z) : r = z[i]
    BY <2>2 DEF Listed
  <2>5. r.id \in Nat
    <3>1. r \in RecordsTo(posted)
      BY <2>3, <2>4
    <3> QED BY <2>1, <3>1, RecordsAre
  <2>6. CASE i <= Len(dir)
    <3>1. i \in 1..Len(dir) /\ r = dir[i]
      BY <2>1, <2>3, <2>4, <2>6
    <3>2. r.id <= nowid
      BY <2>1, <3>1 DEF Below
    <3> QED BY <2>1, <2>5, <3>2
  <2>7. CASE ~(i <= Len(dir))
    <3>1. PICK j : j = i - Len(dir)
      OBVIOUS
    <3>2. j \in 1..Len(deleted) /\ r = deleted[j]
      BY <2>1, <2>3, <2>4, <2>7, <3>1
    <3>3. r.id <= nowid
      BY <2>1, <3>2 DEF Below
    <3> QED BY <2>1, <2>5, <3>3
  <2> QED BY <2>6, <2>7
<1>2. IInv /\ [Next]_vars =>
        [\A p \in Procs : AppendDir(p) /\ ~disorder => \A r \in Listed : r.id < nowid']_vars
  BY <1>1
<1> QED
  BY <1>2, Invariance, PTL DEF Spec, NewIdsAreNew

\* Search_Bin is right about sorted files of every length: it finds a record with
\* the id if there is one, and its loop ends within as many turns as there are
\* records.
THEOREM BisectionFinds ==
  ASSUME NEW a \in Nat, NEW s \in Seq(RecordsTo(a)), NEW id \in Nat, SortedSeq(s)
  PROVE  IF \E i \in 1..Len(s) : s[i].id = id
         THEN Search_Bin(s, id) \in 1..Len(s) /\ s[Search_Bin(s, id)].id = id
         ELSE Search_Bin(s, id) = 0
<1>1. Search_Bin(s, id) \in 0..Len(s)
  BY SearchDef
<1>2. Search_Bin(s, id) # 0 => s[Search_Bin(s, id)].id = id
  BY DEF Search_Bin
<1>3. ASSUME Search_Bin(s, id) = 0, NEW i \in 1..Len(s), s[i].id = id
      PROVE  FALSE
  <2>1. PICK m : m = Bisect(s, id)[1]
    OBVIOUS
  <2>2. /\ m \in 1..Len(s)+1
        /\ \A k \in 1..Len(s) : k < m => s[k].id < id
        /\ \A k \in 1..Len(s) : k >= m => id < s[k].id
    BY <1>3, <2>1, SearchDef
  <2> QED BY <1>3, <2>2
<1> QED
  BY <1>1, <1>2, <1>3

-----------------------------------------------------------------------------
(* Where an article is *)

Has(x, a, k) == Carries(x) /\ x.rec.art = a /\ x.rec.kind = k
Held(a, k) == {q \in Procs : Has(pr[q], a, k)}
\* The records of an article with a letter in a file.
Filed(s, a, k) == {i \in 1..Len(s) : s[i].art = a /\ s[i].kind = k}

One(F) == \E i \in F : F = {i}
Single(F, H) == (One(F) /\ H = {}) \/ (F = {} /\ One(H))
None(F, H) == F = {} /\ H = {}

\* An article with its M is in .DIR once or at hand once, no other is; one with
\* its D is in .DELETED or on the way to it; nobody deleted one unasked.
Placed(a) ==
    IF body[a] = "M" THEN Single(Filed(dir, a, "M"), Held(a, "M"))
                     ELSE None(Filed(dir, a, "M"), Held(a, "M"))
Marked(a) == ~RangeAtWork => Filed(dir, a, "D") = {}
Findable(a) == body[a] = "D" => a \in Arts(deleted) \/ Filed(dir, a, "D") # {} \/ Held(a, "D") # {}
Wanted(a) == body[a] # "M" => a \in asked \/ disorder
Kept(a) == Placed(a) /\ Marked(a) /\ Findable(a) /\ Wanted(a) /\ Filed(deleted, a, "M") = {}
Articles == \A a \in 1..posted \ mixed : Kept(a)

\* What a process has at hand fits its step.
Named(r) == r.art # 0 => r.kind \in {"M", "D"}
Course(x) ==
    /\ x.op = "delete" =>
         x.pc \in {"map", "cut", "origin", "ocut", "cancel", "regen", "rewrite", "clear"}
    /\ x.pc \in {"map", "cut", "ocut", "cancel"} => x.op = "delete"
    /\ x.pc \in {"map", "cut"} => x.rec.art # 0
    /\ x.pc \in {"append", "insert"} => x.rec.kind = "M"
Proper(x, A, M, d) ==
    /\ Course(x) /\ Named(x.rec)
    /\ x.op = "delete" /\ x.rec.art # 0 => x.rec.art \in A \/ d
    /\ x.pc \in {"check", "move"} /\ x.rec.art \notin M \cup {0} => x.rec.kind = "D"
ProcsProper == \A q \in Procs : Proper(pr[q], asked, mixed, disorder)

AllNamed(s) == \A i \in 1..Len(s) : Named(s[i])
FilesNamed == AllNamed(dir) /\ AllNamed(deleted)

\* An id stands for one article.
RecordsOf(s) == {s[i] : i \in 1..Len(s)}
Known == RecordsOf(dir) \cup RecordsOf(deleted)
           \cup {pr[q].rec : q \in {u \in Procs : pr[u].pc # "append"}}
OneName ==
    ~disorder => \A r, s \in Known : r.art # 0 /\ s.art # 0 /\ r.id = s.id => r.art = s.art

JInv == IInv /\ ProcsProper /\ FilesNamed /\ OneName /\ Articles

-----------------------------------------------------------------------------
(* The records of an article in a file that is changed *)

LEMMA OneIs ==
  ASSUME NEW F, NEW i, i \in F, \A j \in F : j = i
  PROVE  One(F)
<1>1. F = {i}
  OBVIOUS
<1> QED
  BY <1>1 DEF One

LEMMA FiledAppend ==
  ASSUME NEW n \in Nat, NEW s \in Seq(RecordsTo(n)), NEW r \in RecordsTo(n),
         NEW a \in Nat, NEW k \in {"M", "D"}
  PROVE  \A j : j \in Filed(Append(s, r), a, k) <=>
                  j \in Filed(s, a, k) \/ (j = Len(s) + 1 /\ r.art = a /\ r.kind = k)
<1>1. PICK t : t = Append(s, r)
  OBVIOUS
<1>2. /\ Len(s) \in Nat /\ Len(t) = Len(s) + 1 /\ t[Len(s)+1] = r
      /\ \A i \in 1..Len(s) : t[i] = s[i]
  BY <1>1
<1>3. \A i : i \in 1..Len(t) <=> i \in 1..Len(s) \/ i = Len(s) + 1
  BY <1>2
<1>4. \A j : j \in Filed(t, a, k) <=>
                j \in Filed(s, a, k) \/ (j = Len(s) + 1 /\ r.art = a /\ r.kind = k)
  BY <1>2, <1>3 DEF Filed
<1> QED
  BY <1>1, <1>4

LEMMA FiledInsertAt ==
  ASSUME NEW n \in Nat, NEW s \in Seq(RecordsTo(n)), NEW r \in RecordsTo(n),
         NEW m \in 1..Len(s)+1, NEW a \in Nat, NEW k \in {"M", "D"}
  PROVE  /\ Filed(InsertAt(s, m, r), a, k) \subseteq 1..Len(s)+1
         /\ \A j \in 1..Len(s)+1 :
              j \in Filed(InsertAt(s, m, r), a, k) <=>
                \/ j < m /\ j \in Filed(s, a, k)
                \/ j = m /\ r.art = a /\ r.kind = k
                \/ j > m /\ j-1 \in Filed(s, a, k)
<1>1. PICK t : t = InsertAt(s, m, r)
  OBVIOUS
<1>2. /\ Len(s) \in Nat /\ Len(t) = Len(s) + 1
      /\ \A j \in 1..Len(s)+1 : t[j] = IF j < m THEN s[j] ELSE IF j = m THEN r ELSE s[j-1]
  BY <1>1, InsertAtDef
<1>3. Filed(t, a, k) \subseteq 1..Len(s)+1
  BY <1>2 DEF Filed
<1>4. ASSUME NEW j \in 1..Len(s)+1
      PROVE  j \in Filed(t, a, k) <=> \/ j < m /\ j \in Filed(s, a, k)
                                      \/ j = m /\ r.art = a /\ r.kind = k
                                      \/ j > m /\ j-1 \in Filed(s, a, k)
  <2>1. CASE j < m
    <3>1. t[j] = s[j] /\ j \in 1..Len(s) /\ j \in 1..Len(t) /\ ~(j = m) /\ ~(j > m)
      BY <1>2, <2>1
    <3> QED BY <2>1, <3>1 DEF Filed
  <2>2. CASE j = m
    <3>1. t[j] = r /\ j \in 1..Len(t) /\ ~(j < m) /\ ~(j > m)
      BY <1>2, <2>2
    <3> QED BY <2>2, <3>1 DEF Filed
  <2>3. CASE j > m
    <3>1. t[j] = s[j-1] /\ j-1 \in 1..Len(s) /\ j \in 1..Len(t) /\ ~(j = m) /\ ~(j < m)
      BY <1>2, <2>3
    <3> QED BY <2>3, <3>1 DEF Filed
  <2> QED BY <2>1, <2>2, <2>3
<1> QED
  BY <1>1, <1>3, <1>4

\* An article that comes back is filed once more, the others as before.
LEMMA FiledInserted ==
  ASSUME NEW n \in Nat, NEW s \in Seq(RecordsTo(n)), NEW r \in RecordsTo(n), nowid \in Nat,
         NEW a \in Nat, NEW k \in {"M", "D"}
  PROVE  /\ ~(r.art = a /\ r.kind = k) =>
              /\ Filed(s, a, k) = {} => Filed(Inserted(s, r), a, k) = {}
              /\ Filed(s, a, k) # {} => Filed(Inserted(s, r), a, k) # {}
              /\ One(Filed(s, a, k)) => One(Filed(Inserted(s, r), a, k))
         /\ r.art = a /\ r.kind = k /\ Filed(s, a, k) = {} => One(Filed(Inserted(s, r), a, k))
<1>1. CASE Renumbers(s, r)
  <2>1. Inserted(s, r) = Append(s, Renumbered(r)) /\ Renumbered(r) \in RecordsTo(n)
    BY <1>1, InsertedDef DEF Inserted
  <2>2. Renumbered(r).art = r.art /\ Renumbered(r).kind = r.kind
    BY DEF Renumbered, RecordsTo
  <2>3. PICK q \in RecordsTo(n) : q = Renumbered(r)
    BY <2>1
  <2>4. PICK F : F = Filed(s, a, k)
    OBVIOUS
  <2>5. PICK G : G = Filed(Append(s, q), a, k)
    OBVIOUS
  <2>6. \A j : j \in G <=> j \in F \/ (j = Len(s) + 1 /\ q.art = a /\ q.kind = k)
    BY <2>4, <2>5, FiledAppend
  <2>7. ASSUME ~(q.art = a /\ q.kind = k) PROVE G = F
    BY <2>6, <2>7
  <2>8. ASSUME q.art = a, q.kind = k, F = {} PROVE One(G)
    <3>1. PICK m : m = Len(s) + 1
      OBVIOUS
    <3>2. m \in G /\ \A j \in G : j = m
      BY <2>6, <2>8, <3>1
    <3> QED BY <3>2, OneIs
  <2> QED BY <2>1, <2>2, <2>3, <2>4, <2>5, <2>7, <2>8
<1>2. CASE ~Renumbers(s, r)
  <2>1. PICK m : m = Bisect(s, r.id)[1]
    OBVIOUS
  <2>2. m \in 1..Len(s)+1
    <3>1. r.id \in Nat
      BY RecordsAre
    <3> QED BY <2>1, <3>1, SearchDef
  <2>2a. Len(s) \in Nat
    OBVIOUS
  <2>3. PICK t : t = InsertAt(s, m, r)
    OBVIOUS
  <2>4. Inserted(s, r) = t
    BY <1>2, <2>1, <2>3 DEF Inserted
  <2>5. PICK F : F = Filed(s, a, k)
    OBVIOUS
  <2>6. PICK G : G = Filed(t, a, k)
    OBVIOUS
  <2>7. F \subseteq 1..Len(s) /\ G \subseteq 1..Len(s)+1
    <3>1. F \subseteq 1..Len(s)
      BY <2>5 DEF Filed
    <3>2. Filed(t, a, k) \subseteq 1..Len(s)+1
      BY <2>2, <2>2a, <2>3, FiledInsertAt
    <3> QED BY <2>6, <3>1, <3>2
  <2>8. \A j \in 1..Len(s)+1 : j \in G <=> \/ j < m /\ j \in F
                                           \/ j = m /\ r.art = a /\ r.kind = k
                                           \/ j > m /\ j-1 \in F
    BY <2>2, <2>2a, <2>3, <2>5, <2>6, FiledInsertAt
  <2>9. ASSUME ~(r.art = a /\ r.kind = k) PROVE /\ F = {} => G = {}
                                                /\ F # {} => G # {}
                                                /\ One(F) => One(G)
    <3>1. F = {} => G = {}
      BY <2>7, <2>8, <2>9
    <3>2. ASSUME NEW f \in F PROVE (f < m /\ f \in G) \/ (~(f < m) /\ f+1 \in G)
      <4>1. CASE f < m
        BY <2>2, <2>2a, <2>7, <2>8, <4>1
      <4>2. CASE ~(f < m)
        <5>1. f+1 \in 1..Len(s)+1 /\ f+1 > m /\ (f+1)-1 = f
          BY <2>2, <2>2a, <2>7, <4>2
        <5> QED BY <2>8, <4>2, <5>1
      <4> QED BY <4>1, <4>2
    <3>3. ASSUME NEW f \in F, F = {f} PROVE One(G)
      <4>1. PICK g : g = IF f < m THEN f ELSE f+1
        OBVIOUS
      <4>2. g \in G
        BY <3>2, <4>1
      <4>3. ASSUME NEW h \in G PROVE h = g
        <5>1. (h < m /\ h = f) \/ (h > m /\ h-1 = f)
          BY <2>7, <2>8, <2>9, <3>3
        <5> QED BY <2>2, <2>2a, <2>7, <4>1, <5>1
      <4> QED BY <4>2, <4>3 DEF One
    <3> QED BY <3>1, <3>2, <3>3 DEF One
  <2>10. ASSUME r.art = a, r.kind = k, F = {} PROVE One(G)
    <3>1. m \in G /\ \A h \in G : h = m
      BY <2>2, <2>2a, <2>7, <2>8, <2>10
    <3> QED BY <3>1 DEF One
  <2> QED BY <2>4, <2>5, <2>6, <2>9, <2>10
<1> QED
  BY <1>1, <1>2

\* The articles behind the size that was taken.
LEMMA Behind ==
  ASSUME NEW c \in Nat, NEW s \in Seq(RecordsTo(c)), NEW n \in Nat, NEW a \in Nat, a # 0,
         a \notin Arts(SubSeq(s, n + 1, Len(s))), NEW k \in 1..Len(s), s[k].art = a
  PROVE  k <= n
<1> SUFFICES ASSUME ~(k <= n) PROVE FALSE
  OBVIOUS
<1>1. Len(s) \in Nat
  OBVIOUS
<1>2. PICK u : u = SubSeq(s, n + 1, Len(s))
  OBVIOUS
<1>3. Len(u) = Len(s) - n /\ \A i \in 1..Len(u) : u[i] = s[n + i]
  BY <1>1, <1>2
<1>4. PICK i : i = k - n
  OBVIOUS
<1>5. i \in 1..Len(u) /\ n + i = k
  BY <1>1, <1>3, <1>4
<1>6. a \in Arts(u)
  BY <1>3, <1>5 DEF Arts
<1> QED
  BY <1>2, <1>6

\* Records i to j are gone.
Squeezed(t, s, n, i, w) ==
    Len(t) = n - w /\ \A l \in 1..n-w : t[l] = View(s, n)[IF l < i THEN l ELSE l + w]
LEMMA RemovedAt ==
  ASSUME NEW c \in Nat, NEW s \in Seq(RecordsTo(c)), NEW n \in Nat,
         NEW i \in 1..n, NEW j \in i..n, NEW w \in Nat, w = j-i+1
  PROVE  Squeezed(Removed(s, n, i, j), s, n, i, w)
<1>1. PICK t : t = Removed(s, n, i, j)
  OBVIOUS
<1>2. Len(t) = n - (j-i+1)
  BY <1>1, RemovedDef
<1>3. \A l \in 1..n-(j-i+1) : t[l] = View(s, n)[IF l < i THEN l ELSE l + (j-i+1)]
  BY <1>1, RemovedDef
<1> QED
  BY <1>1, <1>2, <1>3 DEF Squeezed

\* What is left of F when the records i to j are gone is G.
Spared(F, G, i, j) ==
    /\ G # {} <=> \E f \in F : f \notin i..j
    /\ One(F) /\ G # {} => One(G)
LEMMA FiledRemoved ==
  ASSUME NEW c \in Nat, NEW s \in Seq(RecordsTo(c)), NEW n \in Nat,
         NEW i \in 1..n, NEW j \in i..n, NEW a \in Nat, NEW k \in {"M", "D"}, a # 0,
         a \notin Arts(SubSeq(s, n + 1, Len(s)))
  PROVE  /\ \A f \in Filed(s, a, k) : f <= n
         /\ Spared(Filed(s, a, k), Filed(Removed(s, n, i, j), a, k), i, j)
<1>1. PICK t : t = Removed(s, n, i, j)
  OBVIOUS
<1>2. PICK w \in Nat : w = j-i+1
  OBVIOUS
<1> DEFINE at(l) == IF l < i THEN l ELSE l + w
<1>3. Len(t) = n - w /\ \A l \in 1..n-w : t[l] = View(s, n)[at(l)] /\ at(l) \in 1..n
  <2>1. Squeezed(t, s, n, i, w)
    BY <1>1, <1>2, RemovedAt
  <2>2. \A l \in 1..n-w : at(l) \in 1..n
    BY <1>2
  <2> QED BY <2>1, <2>2 DEF Squeezed
<1>4. \A l \in 1..n : View(s, n)[l] = IF l <= Len(s) THEN s[l] ELSE Zero
  BY DEF View
<1>5. PICK F : F = Filed(s, a, k)
  OBVIOUS
<1>6. PICK G : G = Filed(t, a, k)
  OBVIOUS
<1>7. Len(s) \in Nat /\ F \subseteq 1..Len(s) /\ G \subseteq 1..n-w
  BY <1>3, <1>5, <1>6 DEF Filed
<1>8. \A f \in F : f \in 1..n
  <2>1. \A f \in F : f <= n
    BY <1>5, Behind DEF Filed
  <2> QED BY <1>7, <2>1
<1>9. ASSUME NEW g \in G PROVE at(g) \in F /\ at(g) \notin i..j
  <2>1. t[g] = View(s, n)[at(g)] /\ at(g) \in 1..n /\ t[g].art = a /\ t[g].kind = k
    BY <1>3, <1>6, <1>7 DEF Filed
  <2>2. at(g) \notin i..j
    BY <1>2, <1>7
  <2> HIDE DEF at
  <2>3. at(g) <= Len(s)
    <3>1. Zero.art = 0
      BY DEF Zero
    <3> QED BY <1>4, <2>1, <3>1
  <2>4. at(g) \in 1..Len(s) /\ t[g] = s[at(g)]
    BY <1>4, <1>7, <2>1, <2>3
  <2> QED BY <1>5, <2>1, <2>2, <2>4 DEF Filed
<1>10. ASSUME NEW f \in F, f \notin i..j
       PROVE  \E g \in G : at(g) = f
  <2>1. PICK g : g = IF f < i THEN f ELSE f - w
    OBVIOUS
  <2>2. f \in 1..n /\ f <= Len(s)
    BY <1>7, <1>8
  <2>3. g \in 1..n-w /\ at(g) = f
    BY <1>2, <1>10, <2>1, <2>2
  <2> HIDE DEF at
  <2>4. t[g] = s[f]
    BY <1>3, <1>4, <2>2, <2>3
  <2>5. g \in G
    BY <1>3, <1>5, <1>6, <2>3, <2>4 DEF Filed
  <2> QED BY <2>3, <2>5
<1>11. \A g, h \in G : at(g) = at(h) => g = h
  BY <1>2, <1>7
<1>12. ASSUME NEW f \in F, F = {f}, f \notin i..j PROVE One(G)
  <2>1. PICK g \in G : at(g) = f
    BY <1>10, <1>12
  <2>2. \A h \in G : at(h) = f
    BY <1>9, <1>12
  <2> HIDE DEF at
  <2>3. G = {g}
    BY <1>11, <2>1, <2>2
  <2> QED BY <2>1, <2>3 DEF One
<1> HIDE DEF at
<1>13. G # {} => \E f \in F : f \notin i..j
  BY <1>9
<1>14. (\E f \in F : f \notin i..j) => G # {}
  BY <1>10
<1>15. One(F) /\ (\E f \in F : f \notin i..j) => One(G)
  BY <1>12 DEF One
<1>16. Spared(F, G, i, j)
  BY <1>13, <1>14, <1>15 DEF Spared
<1> QED
  BY <1>1, <1>5, <1>6, <1>8, <1>16

-----------------------------------------------------------------------------
(* The processes *)

LEMMA HeldStep ==
  ASSUME ProcsOK, NEW p \in Procs, NEW y, pr' = [pr EXCEPT ![p] = y], NEW a, NEW k
  PROVE  \A q \in Procs : q \in Held(a, k)' <=> IF q = p THEN Has(y, a, k) ELSE q \in Held(a, k)
<1> SUFFICES ASSUME NEW q \in Procs
             PROVE  q \in Held(a, k)' <=> IF q = p THEN Has(y, a, k) ELSE q \in Held(a, k)
  OBVIOUS
<1>1. q \in Held(a, k)' <=> Has(pr'[q], a, k)
  BY DEF Held, Has, Carries
<1>2. q \in Held(a, k) <=> Has(pr[q], a, k)
  BY DEF Held
<1>3. pr'[q] = IF q = p THEN y ELSE pr[q]
  BY DEF ProcsOK
<1> QED
  BY <1>1, <1>2, <1>3

LEMMA ProperMore ==
  ASSUME NEW x, NEW A, NEW M, NEW d, NEW B, NEW N, NEW e, A \subseteq B, M \subseteq N, d => e,
         Proper(x, A, M, d)
  PROVE  Proper(x, B, N, e)
BY DEF Proper

LEMMA ProperStep ==
  ASSUME ProcsOK, ProcsProper, NEW p \in Procs, NEW y, pr' = [pr EXCEPT ![p] = y],
         asked \subseteq asked', mixed \subseteq mixed', disorder => disorder',
         Proper(y, asked', mixed', disorder')
  PROVE  ProcsProper'
<1> SUFFICES ASSUME NEW q \in Procs PROVE Proper(pr'[q], asked', mixed', disorder')
  BY DEF ProcsProper, Proper, Course, Named
<1>1. pr'[q] = IF q = p THEN y ELSE pr[q]
  BY DEF ProcsOK
<1>2. Proper(pr[q], asked, mixed, disorder)
  BY DEF ProcsProper
<1>3. Proper(pr[q], asked', mixed', disorder')
  BY <1>2, ProperMore
<1> QED
  BY <1>1, <1>3

-----------------------------------------------------------------------------
(* Ids *)

\* A record is an old one, with its article and its id, or the next id is A's.
Comes(r, A) ==
    \/ r.art = 0
    \/ \E s \in Known : s.id = r.id /\ s.art = r.art
    \/ r.id = nowid + 1 /\ r.art = A

LEMMA KnownBelow ==
  ASSUME IInv, ~disorder, NEW r \in Known
  PROVE  r.id \in Nat /\ r.id <= nowid /\ nowid \in Nat
<1>1. /\ posted \in Nat /\ nowid \in Nat
      /\ dir \in Seq(RecordsTo(posted)) /\ deleted \in Seq(RecordsTo(posted))
      /\ Below(dir, nowid) /\ Below(deleted, nowid)
  BY DEF IInv, FilesOK, SharedOK, FilesOrdered, posted
<1>2. CASE r \in RecordsOf(dir)
  <2>1. PICK i \in 1..Len(dir) : r = dir[i]
    BY <1>2 DEF RecordsOf
  <2>2. r \in RecordsTo(posted)
    BY <1>1, <2>1
  <2> QED BY <1>1, <2>1, <2>2, RecordsAre DEF Below
<1>3. CASE r \in RecordsOf(deleted)
  <2>1. PICK i \in 1..Len(deleted) : r = deleted[i]
    BY <1>3 DEF RecordsOf
  <2>2. r \in RecordsTo(posted)
    BY <1>1, <2>1
  <2> QED BY <1>1, <2>1, <2>2, RecordsAre DEF Below
<1>4. CASE r \in {pr[q].rec : q \in {u \in Procs : pr[u].pc # "append"}}
  <2>1. PICK q \in Procs : r = pr[q].rec
    BY <1>4
  <2> QED BY <2>1, AtHand
<1> QED
  BY <1>2, <1>3, <1>4 DEF Known

LEMMA ComesOld ==
  ASSUME NEW A, NEW r \in Known
  PROVE  Comes(r, A)
BY DEF Comes

LEMMA KnownRecords ==
  /\ \A i \in 1..Len(dir) : dir[i] \in Known
  /\ \A i \in 1..Len(deleted) : deleted[i] \in Known
  /\ \A q \in Procs : pr[q].pc # "append" => pr[q].rec \in Known
<1>1. \A i \in 1..Len(dir) : dir[i] \in Known
  BY DEF Known, RecordsOf
<1>2. \A i \in 1..Len(deleted) : deleted[i] \in Known
  BY DEF Known, RecordsOf
<1>3. \A q \in Procs : pr[q].pc # "append" => pr[q].rec \in Known
  BY DEF Known
<1> QED
  BY <1>1, <1>2, <1>3

LEMMA OneNameStep ==
  ASSUME IInv, OneName, disorder => disorder', NEW A,
         ~disorder' => \A r \in Known' : Comes(r, A)
  PROVE  OneName'
<1> SUFFICES ASSUME ~disorder', NEW r \in Known', NEW s \in Known',
                    r.art # 0, s.art # 0, r.id = s.id
             PROVE  r.art = s.art
  BY DEF OneName
<1>1. ~disorder /\ Comes(r, A) /\ Comes(s, A)
  OBVIOUS
<1>2. \A t, u \in Known : t.art # 0 /\ u.art # 0 /\ t.id = u.id => t.art = u.art
  BY <1>1 DEF OneName
<1>3. \A t \in Known : t.id # nowid + 1
  <2> SUFFICES ASSUME NEW t \in Known PROVE t.id # nowid + 1
    OBVIOUS
  <2>1. t.id \in Nat /\ t.id <= nowid /\ nowid \in Nat
    BY <1>1, KnownBelow
  <2> QED BY <2>1
<1>4. (\E t \in Known : t.id = r.id /\ t.art = r.art) \/ (r.id = nowid + 1 /\ r.art = A)
  BY <1>1 DEF Comes
<1>5. (\E t \in Known : t.id = s.id /\ t.art = s.art) \/ (s.id = nowid + 1 /\ s.art = A)
  BY <1>1 DEF Comes
<1> QED
  BY <1>2, <1>3, <1>4, <1>5

\* A step of p, which goes on as y.
LEMMA OneNameProc ==
  ASSUME IInv, OneName, disorder => disorder', NEW A, NEW p \in Procs, NEW y,
         pr' = [pr EXCEPT ![p] = y],
         ~disorder' => /\ \A i \in 1..Len(dir') : Comes(dir'[i], A)
                       /\ \A i \in 1..Len(deleted') : Comes(deleted'[i], A)
                       /\ y.pc # "append" => Comes(y.rec, A)
  PROVE  OneName'
<1>1. ASSUME ~disorder', NEW r \in Known' PROVE Comes(r, A)
  <2>1. CASE r \in RecordsOf(dir')
    <3>1. PICK i \in 1..Len(dir') : r = dir'[i]
      BY <2>1 DEF RecordsOf
    <3> QED BY <1>1, <3>1
  <2>2. CASE r \in RecordsOf(deleted')
    <3>1. PICK i \in 1..Len(deleted') : r = deleted'[i]
      BY <2>2 DEF RecordsOf
    <3> QED BY <1>1, <3>1
  <2>3. CASE r \in {pr'[q].rec : q \in {u \in Procs : pr'[u].pc # "append"}}
    <3>1. PICK q \in Procs : pr'[q].pc # "append" /\ r = pr'[q].rec
      BY <2>3
    <3>2. pr'[q] = IF q = p THEN y ELSE pr[q]
      BY DEF IInv, ProcsOK
    <3>3. CASE q = p
      BY <1>1, <3>1, <3>2, <3>3
    <3>4. CASE q # p
      <4>1. pr[q].rec \in Known
        BY <3>1, <3>2, <3>4, KnownRecords
      <4> QED BY <3>1, <3>2, <3>4, <4>1, ComesOld
    <3> QED BY <3>3, <3>4
  <2>4. Known' = RecordsOf(dir') \cup RecordsOf(deleted')
                   \cup {pr'[q].rec : q \in {u \in Procs : pr'[u].pc # "append"}}
    BY DEF Known, RecordsOf
  <2> QED BY <1>1, <2>1, <2>2, <2>3, <2>4
<1> QED
  BY <1>1, OneNameStep

\* The files that do not change.
LEMMA ComesFrame ==
  ASSUME NEW A
  PROVE  /\ dir' = dir => \A i \in 1..Len(dir') : Comes(dir'[i], A)
         /\ deleted' = deleted => \A i \in 1..Len(deleted') : Comes(deleted'[i], A)
         /\ \A q \in Procs : pr[q].pc # "append" => Comes(pr[q].rec, A)
<1>1. \A i \in 1..Len(dir) : Comes(dir[i], A)
  BY KnownRecords, ComesOld
<1>2. \A i \in 1..Len(deleted) : Comes(deleted[i], A)
  BY KnownRecords, ComesOld
<1>3. \A q \in Procs : pr[q].pc # "append" => Comes(pr[q].rec, A)
  BY KnownRecords, ComesOld
<1> QED
  BY <1>1, <1>2, <1>3

-----------------------------------------------------------------------------
(* Steps that leave the articles where they are *)

\* What the other lemmas need of the state.
LEMMA Parts ==
  ASSUME JInv
  PROVE  IInv /\ ProcsOK /\ ProcsProper /\ FilesNamed /\ OneName /\ Articles
         /\ posted \in Nat /\ nowid \in Nat
         /\ dir \in Seq(RecordsTo(posted)) /\ deleted \in Seq(RecordsTo(posted))
         /\ body \in Seq(Letters) /\ posted = Len(body)
BY DEF JInv, IInv, ProcsOK, FilesOK, SharedOK, posted

\* As many, as far as it matters.
Alike(F, G) == (F = {} <=> G = {}) /\ (One(F) => One(G))

\* An article that is where it was.
LEMMA KeptOn ==
  ASSUME NEW a, Kept(a), body'[a] = body[a], asked \subseteq asked', disorder => disorder',
         Alike(Filed(dir, a, "M"), Filed(dir', a, "M")), Alike(Held(a, "M"), Held(a, "M")'),
         Filed(dir, a, "D") # {} \/ Held(a, "D") # {} =>
           a \in Arts(deleted') \/ Filed(dir', a, "D") # {} \/ Held(a, "D")' # {},
         ~RangeAtWork' /\ (~RangeAtWork => Filed(dir, a, "D") = {}) => Filed(dir', a, "D") = {},
         body[a] = "D" /\ a \in Arts(deleted) => a \in Arts(deleted'),
         Filed(deleted', a, "M") = {}
  PROVE  Kept(a)'
<1>1. Placed(a)'
  BY DEF Kept, Placed, Alike, Single, None, Filed
<1>2. Marked(a)'
  BY DEF Kept, Marked, Filed
<1>3. Findable(a)'
  <2>1. Findable(a)
    BY DEF Kept
  <2> QED BY <2>1 DEF Findable, Filed
<1>4. Wanted(a)'
  BY DEF Kept, Wanted
<1>5. Filed(deleted, a, "M")' = {}
  BY DEF Filed
<1> QED
  BY <1>1, <1>2, <1>3, <1>4, <1>5 DEF Kept

LEMMA AlikeSame == ASSUME NEW F PROVE Alike(F, F)
BY DEF Alike

LEMMA KeptSame ==
  ASSUME NEW a, Kept(a), UNCHANGED <<dir, deleted, body>>, asked \subseteq asked',
         disorder => disorder', RangeAtWork => RangeAtWork',
         Held(a, "M")' = Held(a, "M"), Held(a, "D")' = Held(a, "D")
  PROVE  Kept(a)'
<1>1. Alike(Filed(dir, a, "M"), Filed(dir', a, "M")) /\ Alike(Held(a, "M"), Held(a, "M")')
  BY AlikeSame
<1>2. Filed(deleted', a, "M") = {}
  BY DEF Kept
<1>3. Filed(dir, a, "D") # {} \/ Held(a, "D") # {} =>
           a \in Arts(deleted') \/ Filed(dir', a, "D") # {} \/ Held(a, "D")' # {}
  OBVIOUS
<1>4. ~RangeAtWork' /\ (~RangeAtWork => Filed(dir, a, "D") = {}) => Filed(dir', a, "D") = {}
  OBVIOUS
<1>5. body[a] = "D" /\ a \in Arts(deleted) => a \in Arts(deleted')
  OBVIOUS
<1> QED
  BY <1>1, <1>2, <1>3, <1>4, <1>5, KeptOn

\* Another process is not concerned with the range lock of p.
LEMMA RangeStays ==
  ASSUME ProcsOK, NEW p \in Procs, NEW y, pr' = [pr EXCEPT ![p] = y], pr[p].pc # "rcut"
  PROVE  RangeAtWork => RangeAtWork'
<1> SUFFICES ASSUME NEW q \in Procs, pr[q].pc = "rcut" PROVE pr'[q].pc = "rcut"
  BY DEF RangeAtWork
<1> QED
  BY DEF ProcsOK

LEMMA HeldSame ==
  ASSUME ProcsOK, NEW p \in Procs, NEW y, pr' = [pr EXCEPT ![p] = y], NEW a, NEW k,
         Has(y, a, k) <=> Has(pr[p], a, k)
  PROVE  \A q : q \in Held(a, k)' <=> q \in Held(a, k)
<1>1. \A q \in Procs : q \in Held(a, k)' <=> IF q = p THEN Has(y, a, k) ELSE q \in Held(a, k)
  BY HeldStep
<1>2. \A q \in Procs : q \in Held(a, k) <=> Has(pr[q], a, k)
  BY DEF Held
<1>3. \A q \in Procs : q \in Held(a, k)' <=> q \in Held(a, k)
  BY <1>1, <1>2
<1>4. Held(a, k)' \subseteq Procs /\ Held(a, k) \subseteq Procs
  BY DEF Held
<1> QED
  BY <1>3, <1>4

LEMMA Quiet ==
  ASSUME JInv, IInv', NEW p \in Procs, NEW y, pr' = [pr EXCEPT ![p] = y],
         UNCHANGED <<dir, deleted, body, mixed, disorder>>, asked \subseteq asked',
         Proper(y, asked', mixed, disorder), \A a, k : Has(y, a, k) <=> Has(pr[p], a, k),
         pr[p].pc # "rcut", y.pc # "append" => Comes(y.rec, 0)
  PROVE  JInv'
<1>1. ProcsOK
  BY Parts
<1>2. ProcsProper'
  BY <1>1, Parts, ProperStep
<1>3. FilesNamed'
  BY Parts DEF FilesNamed
<1>4. OneName'
  BY Parts, ComesFrame, OneNameProc
<1>5. Articles'
  <2>1. posted' = posted
    BY DEF posted
  <2> SUFFICES ASSUME NEW a \in 1..posted \ mixed PROVE Kept(a)'
    BY <2>1 DEF Articles
  <2>2. \A k : Held(a, k)' = Held(a, k)
    <3> SUFFICES ASSUME NEW k PROVE Held(a, k)' = Held(a, k)
      OBVIOUS
    <3>1. Has(y, a, k) <=> Has(pr[p], a, k)
      OBVIOUS
    <3>2. \A q : q \in Held(a, k)' <=> q \in Held(a, k)
      BY <1>1, <3>1, HeldSame
    <3> QED BY <3>2
  <2>3. Kept(a)
    BY Parts DEF Articles
  <2>4. RangeAtWork => RangeAtWork'
    BY <1>1, RangeStays
  <2> QED BY <2>2, <2>3, <2>4, KeptSame
<1> QED
  BY <1>2, <1>3, <1>4, <1>5 DEF JInv

\* A process that carries nothing stops.
LEMMA IdleProper ==
  ASSUME NEW A, NEW M, NEW d
  PROVE  Proper(Idle, A, M, d) /\ ~Carries(Idle) /\ Idle.pc = "idle" /\ Idle.rec.art = 0
BY DEF Proper, Course, Named, Idle, Zero, Carries

LEMMA QuietDone ==
  ASSUME JInv, IInv', NEW p \in Procs, Done(p),
         UNCHANGED <<dir, deleted, body, mixed, disorder>>, asked \subseteq asked',
         ~Carries(pr[p]), pr[p].pc # "rcut"
  PROVE  JInv'
<1>1. PICK y : y = Idle
  OBVIOUS
<1>2. pr' = [pr EXCEPT ![p] = y]
  BY <1>1 DEF Done
<1>3. Proper(y, asked', mixed, disorder) /\ ~Carries(y) /\ y.rec.art = 0
  BY <1>1, IdleProper
<1>4. \A a, k : Has(y, a, k) <=> Has(pr[p], a, k)
  BY <1>3 DEF Has
<1>5. Comes(y.rec, 0)
  BY <1>3 DEF Comes
<1> QED
  BY <1>2, <1>3, <1>4, <1>5, Quiet

\* A process goes on with what it has.
Passes(x, c) ==
    /\ x.pc \notin {"append", "insert", "rcut"} /\ c \notin {"append", "insert", "check"}
    /\ c = "move" => x.pc = "check"
    /\ c \in {"map", "cut", "ocut", "cancel"} => x.op = "delete"
    /\ x.op = "delete" =>
         \/ x.pc = "map" /\ c = "cut"
         \/ x.pc \in {"origin", "ocut", "regen", "rewrite", "clear"}
            /\ c \in {"ocut", "cancel", "regen", "rewrite", "clear"}
Onward(x, y) == y.op = x.op /\ y.rec = x.rec /\ Passes(x, y.pc)

LEMMA QuietOn ==
  ASSUME JInv, IInv', NEW p \in Procs, NEW y, pr' = [pr EXCEPT ![p] = y], Onward(pr[p], y),
         UNCHANGED <<dir, deleted, body, mixed, disorder>>, asked \subseteq asked'
  PROVE  JInv'
<1>1. PICK x : x = pr[p]
  OBVIOUS
<1>2. Proper(x, asked, mixed, disorder)
  BY <1>1, Parts DEF ProcsProper
<1>3. Proper(x, asked', mixed, disorder)
  BY <1>2, ProperMore
<1>4. Onward(x, y)
  BY <1>1
<1>5. Course(y)
  BY <1>3, <1>4 DEF Proper, Course, Onward, Passes
<1>6. Proper(y, asked', mixed, disorder)
  BY <1>3, <1>4, <1>5 DEF Proper, Onward, Passes
<1>7. Carries(y) <=> Carries(x)
  BY <1>4 DEF Carries, Onward, Passes
<1>8. \A a, k : Has(y, a, k) <=> Has(x, a, k)
  BY <1>4, <1>7 DEF Has, Onward
<1>9. x.pc # "rcut" /\ x.pc # "append" /\ y.rec = x.rec
  BY <1>4 DEF Onward, Passes
<1>10. Comes(y.rec, 0)
  BY <1>1, <1>9, ComesFrame
<1> QED
  BY <1>1, <1>6, <1>8, <1>9, <1>10, Quiet

\* A step that only says where the process goes.
LEMMA QuietGoto ==
  ASSUME JInv, IInv', NEW p \in Procs, NEW c, Goto(p, c),
         UNCHANGED <<dir, deleted, body, mixed, disorder>>, asked \subseteq asked',
         Onward(pr[p], Continues(pr[p], c, pr[p].rec))
  PROVE  JInv'
<1>1. PICK x : x = pr[p]
  OBVIOUS
<1>2. posted \in Nat /\ x \in Processes(posted)
  BY <1>1, Parts, AtHand
<1>3. PICK y : y = Continues(x, c, x.rec)
  OBVIOUS
<1>4. pr' = [pr EXCEPT ![p] = y]
  BY <1>1, <1>2, <1>3, GotoIs
<1>5. Onward(pr[p], y)
  BY <1>1, <1>3
<1> QED
  BY <1>4, <1>5, QuietOn

\* After the work on .ORIGIN.
LEMMA QuietGoesOn ==
  ASSUME JInv, IInv', NEW p \in Procs, GoesOn(p),
         UNCHANGED <<dir, deleted, body, mixed, disorder>>, asked \subseteq asked',
         pr[p].pc \in {"regen", "clear"}
  PROVE  JInv'
<1>1. PICK x : x = pr[p]
  OBVIOUS
<1>2. PICK c : c = AfterOrigin(x.op)
  OBVIOUS
<1>3. c = CASE x.op = "delete" -> "cancel" [] x.op = "undelete" -> "blank" [] OTHER -> "idle"
  BY <1>2 DEF AfterOrigin
<1>4. CASE c = "idle"
  <2>1. Done(p)
    BY <1>1, <1>2, <1>4 DEF GoesOn
  <2>2. x.op # "delete"
    BY <1>3, <1>4
  <2>3. ~Carries(pr[p]) /\ pr[p].pc # "rcut"
    BY <1>1, <2>2 DEF Carries
  <2> QED BY <2>1, <2>3, QuietDone
<1>5. CASE c # "idle"
  <2>1. Goto(p, c)
    BY <1>1, <1>2, <1>5 DEF GoesOn
  <2>2. (x.op = "delete" /\ c = "cancel") \/ (x.op = "undelete" /\ c = "blank")
    BY <1>3, <1>5
  <2>3. Onward(x, Continues(x, c, x.rec))
    BY <1>1, <2>2 DEF Onward, Passes, Continues
  <2> QED BY <1>1, <2>1, <2>3, QuietGoto
<1> QED
  BY <1>4, <1>5

\* An operation begins.
LEMMA QuietStart ==
  ASSUME JInv, IInv', NEW p \in Procs, NEW c, NEW o, NEW r, NEW e, NEW t,
         Starts(p, Begun(c, o, r, e, t)),
         UNCHANGED <<dir, deleted, body, mixed, disorder>>, asked \subseteq asked',
         ~Carries(Begun(c, o, r, e, t)), Proper(Begun(c, o, r, e, t), asked', mixed, disorder),
         r \in Known \/ r.art = 0
  PROVE  JInv'
<1>1. PICK y : y = Begun(c, o, r, e, t)
  OBVIOUS
<1>2. pr' = [pr EXCEPT ![p] = y] /\ pr[p].pc = "idle"
  BY <1>1 DEF Starts
<1>3. ~Carries(pr[p]) /\ pr[p].pc # "rcut"
  <2>1. Course(pr[p])
    BY Parts DEF ProcsProper, Proper
  <2> QED BY <1>2, <2>1 DEF Carries, Course
<1>4. \A a, k : Has(y, a, k) <=> Has(pr[p], a, k)
  BY <1>1, <1>3 DEF Has
<1>5. y.rec = r
  BY <1>1 DEF Begun
<1>6. Comes(y.rec, 0)
  BY <1>5, ComesOld DEF Comes
<1>7. Proper(y, asked', mixed, disorder)
  BY <1>1
<1> QED
  BY <1>2, <1>3, <1>4, <1>6, <1>7, Quiet

-----------------------------------------------------------------------------
(* The operations that leave the articles where they are *)

\* p is now at step c, with the record and the operation it had.
Moves(p, c) ==
    \E y : pr' = [pr EXCEPT ![p] = y] /\ y.pc = c /\ y.op = pr[p].op /\ y.rec = pr[p].rec

LEMMA QuietMoves ==
  ASSUME JInv, IInv', NEW p \in Procs, NEW c, Moves(p, c), Passes(pr[p], c),
         UNCHANGED <<dir, deleted, body, mixed, disorder>>, asked \subseteq asked'
  PROVE  JInv'
<1>1. PICK y : pr' = [pr EXCEPT ![p] = y] /\ y.pc = c /\ y.op = pr[p].op /\ y.rec = pr[p].rec
  BY DEF Moves
<1>2. Onward(pr[p], y)
  BY <1>1 DEF Onward
<1> QED
  BY <1>1, <1>2, QuietOn

LEMMA GotoMoves ==
  ASSUME JInv, NEW p \in Procs, NEW c, Goto(p, c)
  PROVE  Moves(p, c)
<1>1. PICK x : x = pr[p]
  OBVIOUS
<1>2. posted \in Nat /\ x \in Processes(posted)
  BY <1>1, Parts, AtHand
<1>3. PICK y : y = Continues(x, c, x.rec)
  OBVIOUS
<1>4. pr' = [pr EXCEPT ![p] = y]
  BY <1>1, <1>2, <1>3, GotoIs
<1>5. y.pc = c /\ y.op = x.op /\ y.rec = x.rec
  BY <1>3 DEF Continues
<1> QED
  BY <1>1, <1>4, <1>5 DEF Moves

LEMMA SizeMoves ==
  ASSUME JInv, NEW p \in Procs, NEW c, NEW n, pr' = [pr EXCEPT ![p].pc = c, ![p].size = n]
  PROVE  Moves(p, c)
<1>1. PICK x : x = pr[p]
  OBVIOUS
<1>2. posted \in Nat /\ x \in Processes(posted)
  BY <1>1, Parts, AtHand
<1>3. PICK z : z = [x EXCEPT !.pc = c]
  OBVIOUS
<1>4. z = Continues(x, c, x.rec)
  BY <1>2, <1>3 DEF Processes, ProcessRecords, Continues
<1>5. PICK y : y = [z EXCEPT !.size = n]
  OBVIOUS
<1>6. y = Sets(x, c, x.ent, x.to, n, x.was)
  BY <1>4, <1>5 DEF Continues, Sets
<1>7. pr' = [pr EXCEPT ![p] = [x EXCEPT !.pc = c, !.size = n]]
  BY <1>1, Parts DEF ProcsOK
<1>8. pr' = [pr EXCEPT ![p] = y]
  BY <1>3, <1>5, <1>7
<1>9. y.pc = c /\ y.op = x.op /\ y.rec = x.rec
  BY <1>6 DEF Sets
<1> QED
  BY <1>1, <1>8, <1>9 DEF Moves

LEMMA PlaceMoves ==
  ASSUME JInv, NEW p \in Procs, NEW c, NEW e, pr' = [pr EXCEPT ![p].pc = c, ![p].ent = e]
  PROVE  Moves(p, c)
<1>1. PICK x : x = pr[p]
  OBVIOUS
<1>2. posted \in Nat /\ x \in Processes(posted)
  BY <1>1, Parts, AtHand
<1>3. pr' = [pr EXCEPT ![p] = [x EXCEPT !.pc = c, !.ent = e]]
  BY <1>1, Parts DEF ProcsOK
<1>4. PICK y : y = Sets(x, c, e, x.to, x.size, x.was)
  OBVIOUS
<1>5. [x EXCEPT !.pc = c, !.ent = e] = y
  BY <1>2, <1>4, SetsPlace
<1>6. pr' = [pr EXCEPT ![p] = y]
  BY <1>3, <1>5
<1>7. y.pc = c /\ y.op = x.op /\ y.rec = x.rec
  BY <1>4 DEF Sets
<1> QED
  BY <1>1, <1>6, <1>7 DEF Moves

LEMMA RangeMoves ==
  ASSUME JInv, NEW p \in Procs,
         pr' = [pr EXCEPT ![p].pc = "rmove", ![p].size = Len(dir),
                          ![p].to = IF @ > Len(dir) THEN Len(dir) ELSE @]
  PROVE  Moves(p, "rmove")
<1>1. PICK x : x = pr[p]
  OBVIOUS
<1>2. PICK n : n = Len(dir)
  OBVIOUS
<1>3. PICK t : t = IF x.to > n THEN n ELSE x.to
  OBVIOUS
<1>4. posted \in Nat /\ x \in Processes(posted) /\ pr \in [Procs -> Processes(posted)]
  BY <1>1, Parts, AtHand DEF ProcsOK
<1>5. pr' = [pr EXCEPT ![p].pc = "rmove", ![p].size = n, ![p].to = t]
  BY <1>1, <1>2, <1>3, <1>4
<1>6. pr' = [pr EXCEPT ![p] = [x EXCEPT !.pc = "rmove", !.size = n, !.to = t]]
  BY <1>1, <1>4, <1>5
<1>7. PICK y : y = Sets(x, "rmove", x.ent, t, n, x.was)
  OBVIOUS
<1>8. [x EXCEPT !.pc = "rmove", !.size = n, !.to = t] = y
  BY <1>4, <1>7, SetsRange
<1>9. pr' = [pr EXCEPT ![p] = y]
  BY <1>6, <1>8
<1>10. y.pc = "rmove" /\ y.op = x.op /\ y.rec = x.rec
  BY <1>7 DEF Sets
<1> QED
  BY <1>1, <1>9, <1>10 DEF Moves

Copies(p, n, w) ==
    \E y : /\ pr' = [pr EXCEPT ![p] = y] /\ y.pc = "rewrite" /\ y.op = pr[p].op
           /\ y.rec = pr[p].rec /\ y.size = n /\ y.was = w

\* p has taken the size n and seen the file w.
LEMMA CopyMoves ==
  ASSUME JInv, NEW p \in Procs, NEW n, NEW w,
         pr' = [pr EXCEPT ![p].pc = "rewrite", ![p].size = n, ![p].was = w]
  PROVE  Copies(p, n, w)
<1>1. PICK x : x = pr[p]
  OBVIOUS
<1>2. posted \in Nat /\ x \in Processes(posted) /\ pr \in [Procs -> Processes(posted)]
  BY <1>1, Parts, AtHand DEF ProcsOK
<1>3. PICK z : z = [x EXCEPT !.pc = "rewrite"]
  OBVIOUS
<1>4. PICK v : v = [z EXCEPT !.size = n]
  OBVIOUS
<1>5. PICK y : y = [v EXCEPT !.was = w]
  OBVIOUS
<1>6. z = Sets(x, "rewrite", x.ent, x.to, x.size, x.was)
  BY <1>2, <1>3 DEF Processes, ProcessRecords, Sets
<1>7. v = Sets(x, "rewrite", x.ent, x.to, n, x.was)
  BY <1>4, <1>6 DEF Sets
<1>8. /\ y.pc = "rewrite" /\ y.op = x.op /\ y.rec = x.rec /\ y.size = n /\ y.was = w
  BY <1>5, <1>7 DEF Sets
<1>9. pr' = [pr EXCEPT ![p] = [x EXCEPT !.pc = "rewrite", !.size = n, !.was = w]]
  BY <1>1, <1>2
<1>10. pr' = [pr EXCEPT ![p] = y]
  BY <1>3, <1>4, <1>5, <1>9
<1> QED
  BY <1>1, <1>8, <1>10 DEF Copies

\* The record at hand gets its M.
LEMMA KindMoves ==
  ASSUME JInv, NEW p \in Procs, pr' = [pr EXCEPT ![p].pc = "insert", ![p].rec.kind = "M"]
  PROVE  \E y : /\ pr' = [pr EXCEPT ![p] = y] /\ y.pc = "insert" /\ y.op = pr[p].op
                /\ y.rec = [pr[p].rec EXCEPT !.kind = "M"]
<1>1. PICK x : x = pr[p]
  OBVIOUS
<1>2. PICK o : o = x.rec
  OBVIOUS
<1>3. PICK r : r = [o EXCEPT !.kind = "M"]
  OBVIOUS
<1>4. x \in Processes(posted)
  BY <1>1, Parts, AtHand
<1>5. PICK z : z = [x EXCEPT !.pc = "insert"]
  OBVIOUS
<1>6. z = Continues(x, "insert", o)
  BY <1>2, <1>4, <1>5 DEF Processes, ProcessRecords, Continues
<1>7. PICK y : y = Continues(x, "insert", r)
  OBVIOUS
<1>8. [z EXCEPT !.rec = r] = y
  BY <1>6, <1>7 DEF Continues
<1>9. [z EXCEPT !.rec.kind = "M"] = [z EXCEPT !.rec = r]
  <2>1. z.rec = o
    BY <1>6 DEF Continues
  <2> QED BY <1>3, <2>1
<1>10. [pr EXCEPT ![p].pc = "insert", ![p].rec.kind = "M"]
         = [pr EXCEPT ![p] = [[pr[p] EXCEPT !.pc = "insert"] EXCEPT !.rec.kind = "M"]]
  BY Parts DEF ProcsOK
<1>11. pr' = [pr EXCEPT ![p] = y]
  BY <1>1, <1>5, <1>8, <1>9, <1>10
<1>12. y.pc = "insert" /\ y.op = x.op /\ y.rec = r
  BY <1>7 DEF Continues
<1> QED
  BY <1>1, <1>2, <1>3, <1>11, <1>12

\* What is known of p at its step.
LEMMA OnCourse ==
  ASSUME JInv, NEW p \in Procs
  PROVE  Course(pr[p]) /\ Proper(pr[p], asked, mixed, disorder) /\ Named(pr[p].rec)
BY Parts DEF ProcsProper, Proper

LEMMA AppendOriginKeeps ==
  ASSUME JInv, NEW p \in Procs, AppendOrigin(p)
  PROVE  JInv'
<1>1. IInv'
  BY Parts, AppendOriginStep
<1>2. /\ Done(p) /\ pr[p].pc = "origin" /\ pr[p].op = "post"
      /\ UNCHANGED <<dir, deleted, body, mixed, disorder>> /\ asked' = asked
  BY DEF AppendOrigin
<1>3. ~Carries(pr[p]) /\ pr[p].pc # "rcut"
  BY <1>2 DEF Carries
<1> QED
  BY <1>1, <1>2, <1>3, QuietDone

LEMMA MapKeeps ==
  ASSUME JInv, NEW p \in Procs, Map(p)
  PROVE  JInv'
<1>1. IInv'
  BY Parts, MapStep
<1>2. /\ pr[p].pc = "map" /\ UNCHANGED <<dir, deleted, body, mixed, disorder>> /\ asked' = asked
      /\ Done(p) \/ pr' = [pr EXCEPT ![p].pc = "cut", ![p].size = Len(dir)]
  BY DEF Map, files, ghosts
<1>3. ~Carries(pr[p]) /\ pr[p].pc # "rcut"
  BY <1>2 DEF Carries
<1>4. Passes(pr[p], "cut")
  BY <1>2, OnCourse DEF Course, Passes
<1> QED
  BY <1>1, <1>2, <1>3, <1>4, QuietDone, SizeMoves, QuietMoves

LEMMA MapOriginKeeps ==
  ASSUME JInv, NEW p \in Procs, MapOrigin(p)
  PROVE  JInv'
<1>1. IInv'
  BY Parts, MapStep
<1>2. /\ pr[p].pc = "origin" /\ pr[p].op = "delete"
      /\ UNCHANGED <<dir, deleted, body, mixed, disorder>> /\ asked' = asked
      /\ Goto(p, "cancel") \/ pr' = [pr EXCEPT ![p].pc = "ocut", ![p].size = Len(origin)]
  BY DEF MapOrigin, files, ghosts
<1>3. Passes(pr[p], "cancel") /\ Passes(pr[p], "ocut")
  BY <1>2 DEF Passes
<1> QED
  BY <1>1, <1>2, <1>3, GotoMoves, SizeMoves, QuietMoves

LEMMA CutOriginKeeps ==
  ASSUME JInv, NEW p \in Procs, CutOrigin(p)
  PROVE  JInv'
<1>1. IInv'
  BY Parts, CutOriginStep
<1>2. /\ pr[p].pc = "ocut" /\ Goto(p, "cancel")
      /\ UNCHANGED <<dir, deleted, body, mixed, disorder>> /\ asked' = asked
  BY DEF CutOrigin
<1>3. Passes(pr[p], "cancel")
  BY <1>2, OnCourse DEF Course, Passes
<1> QED
  BY <1>1, <1>2, <1>3, GotoMoves, QuietMoves

LEMMA CheckKeeps ==
  ASSUME JInv, NEW p \in Procs, Check(p)
  PROVE  JInv'
<1>1. IInv'
  BY Parts, CheckStep
<1>2. /\ pr[p].pc = "check" /\ (Goto(p, "move") \/ Done(p))
      /\ UNCHANGED <<dir, deleted, body, mixed, disorder>> /\ asked' = asked
  BY DEF Check, files, ghosts
<1>3. Course(pr[p])
  BY OnCourse
<1>4. Passes(pr[p], "move") /\ ~Carries(pr[p]) /\ pr[p].pc # "rcut"
  BY <1>2, <1>3 DEF Course, Passes, Carries
<1> QED
  BY <1>1, <1>2, <1>4, GotoMoves, QuietMoves, QuietDone

LEMMA InsertOriginKeeps ==
  ASSUME JInv, NEW p \in Procs, InsertOrigin(p)
  PROVE  JInv'
<1>1. IInv'
  BY Parts, InsertOriginStep
<1>2. /\ pr[p].pc = "origin" /\ pr[p].op = "undelete" /\ Goto(p, "blank")
      /\ UNCHANGED <<dir, deleted, body, mixed, disorder>> /\ asked' = asked
  BY DEF InsertOrigin
<1>3. Passes(pr[p], "blank")
  BY <1>2 DEF Passes
<1> QED
  BY <1>1, <1>2, <1>3, GotoMoves, QuietMoves

LEMMA FindKeeps ==
  ASSUME JInv, NEW p \in Procs, Find(p)
  PROVE  JInv'
<1>1. IInv'
  BY Parts, FindStep
<1>2. PICK e : e = CHOOSE i \in {k \in 1..pr[p].ent : k <= Len(dir) /\ SameFile(dir[k], pr[p].rec)} :
                     \A j \in {k \in 1..pr[p].ent : k <= Len(dir) /\ SameFile(dir[k], pr[p].rec)} :
                       j <= i
  OBVIOUS
<1>3. /\ pr[p].pc = "find" /\ UNCHANGED <<dir, deleted, body, mixed, disorder>> /\ asked' = asked
      /\ Done(p) \/ pr' = [pr EXCEPT ![p].pc = "write", ![p].ent = e]
  BY <1>2 DEF Find, files, ghosts
<1>4. Course(pr[p])
  BY OnCourse
<1>5. Passes(pr[p], "write") /\ ~Carries(pr[p]) /\ pr[p].pc # "rcut"
  BY <1>3, <1>4 DEF Course, Passes, Carries
<1> QED
  BY <1>1, <1>3, <1>5, PlaceMoves, QuietMoves, QuietDone

LEMMA FindOriginKeeps ==
  ASSUME JInv, NEW p \in Procs, FindOrigin(p)
  PROVE  JInv'
<1>1. IInv'
  BY Parts, FindOriginStep
<1>2. PICK e : e = Search_Bin(origin, pr[p].rec.id)
  OBVIOUS
<1>3. /\ pr[p].pc = "origin" /\ pr[p].op = "edit"
      /\ UNCHANGED <<dir, deleted, body, mixed, disorder>> /\ asked' = asked
      /\ Done(p) \/ pr' = [pr EXCEPT ![p].pc = "owrite", ![p].ent = e]
  BY <1>2 DEF FindOrigin, files, ghosts
<1>4. Passes(pr[p], "owrite") /\ ~Carries(pr[p]) /\ pr[p].pc # "rcut"
  BY <1>3 DEF Passes, Carries
<1> QED
  BY <1>1, <1>3, <1>4, PlaceMoves, QuietMoves, QuietDone

LEMMA WriteOriginKeeps ==
  ASSUME JInv, NEW p \in Procs, WriteOrigin(p)
  PROVE  JInv'
<1>1. IInv'
  BY Parts, WriteOriginStep
<1>2. /\ pr[p].pc = "owrite" /\ Done(p)
      /\ UNCHANGED <<dir, deleted, body, mixed, disorder>> /\ asked' = asked
  BY DEF WriteOrigin
<1>3. ~Carries(pr[p]) /\ pr[p].pc # "rcut"
  BY <1>2 DEF Carries
<1> QED
  BY <1>1, <1>2, <1>3, QuietDone

LEMMA StatKeeps ==
  ASSUME JInv, NEW p \in Procs, Stat(p)
  PROVE  JInv'
<1>1. IInv'
  BY Parts, StatStep
<1>2. /\ pr[p].pc = "stat" /\ UNCHANGED <<dir, deleted, body, mixed, disorder>> /\ asked' = asked
  BY DEF Stat, files, ghosts
<1>3. Course(pr[p])
  BY OnCourse
<1>4. Passes(pr[p], "rmove") /\ ~Carries(pr[p]) /\ pr[p].pc # "rcut"
  BY <1>2, <1>3 DEF Course, Passes, Carries
<1>5. CASE Done(p)
  BY <1>1, <1>2, <1>4, <1>5, QuietDone
<1>6. CASE pr' = [pr EXCEPT ![p].pc = "rmove", ![p].size = Len(dir),
                            ![p].to = IF @ > Len(dir) THEN Len(dir) ELSE @]
  <2>1. Moves(p, "rmove")
    BY <1>6, RangeMoves
  <2> QED BY <1>1, <1>2, <1>4, <2>1, QuietMoves
<1> QED
  BY <1>5, <1>6 DEF Stat

LEMMA RegenKeeps ==
  ASSUME JInv, NEW p \in Procs, Regen(p)
  PROVE  JInv'
<1>1. IInv'
  BY Parts, RegenStep
<1>2. /\ pr[p].pc = "origin" /\ Goto(p, "regen")
      /\ UNCHANGED <<dir, deleted, body, mixed, disorder>> /\ asked' = asked
  BY DEF Regen, files, ghosts
<1>3. Passes(pr[p], "regen")
  BY <1>2 DEF Passes
<1> QED
  BY <1>1, <1>2, <1>3, GotoMoves, QuietMoves

LEMMA RegenLockKeeps ==
  ASSUME JInv, NEW p \in Procs, RegenLock(p)
  PROVE  JInv'
<1>1. IInv'
  BY Parts, RegenLockStep
<1>2. PICK n : n = Len(dir)
  OBVIOUS
<1>3. PICK w : w = dir
  OBVIOUS
<1>4. /\ pr[p].pc = "regen"
      /\ UNCHANGED <<dir, deleted, body, mixed, disorder>> /\ asked' = asked
      /\ \/ pr' = [pr EXCEPT ![p].pc = "rewrite", ![p].size = n, ![p].was = w]
         \/ GoesOn(p)
  BY <1>2, <1>3 DEF RegenLock, files, ghosts
<1>5. Passes(pr[p], "rewrite")
  BY <1>4 DEF Passes
<1>6. CASE pr' = [pr EXCEPT ![p].pc = "rewrite", ![p].size = n, ![p].was = w]
  <2>1. Moves(p, "rewrite")
    BY <1>6, CopyMoves DEF Moves, Copies
  <2> QED BY <1>1, <1>4, <1>5, <2>1, QuietMoves
<1>7. CASE GoesOn(p)
  BY <1>1, <1>4, <1>7, QuietGoesOn
<1> QED
  BY <1>4, <1>6, <1>7

LEMMA RegenWriteKeeps ==
  ASSUME JInv, NEW p \in Procs, RegenWrite(p)
  PROVE  JInv'
<1>1. IInv'
  BY Parts, RegenWriteStep
<1>2. /\ pr[p].pc = "rewrite" /\ Goto(p, "clear")
      /\ UNCHANGED <<dir, deleted, body, mixed, disorder>> /\ asked' = asked
  BY DEF RegenWrite
<1>3. Passes(pr[p], "clear")
  BY <1>2 DEF Passes
<1> QED
  BY <1>1, <1>2, <1>3, GotoMoves, QuietMoves

LEMMA RegenClearKeeps ==
  ASSUME JInv, NEW p \in Procs, RegenClear(p)
  PROVE  JInv'
<1>1. IInv'
  BY Parts, RegenClearStep
<1>2. /\ pr[p].pc = "clear" /\ GoesOn(p)
      /\ UNCHANGED <<dir, deleted, body, mixed, disorder>> /\ asked' = asked
  BY DEF RegenClear, files
<1> QED
  BY <1>1, <1>2, QuietGoesOn

\* The processes are as they were.
LEMMA QuietAll ==
  ASSUME JInv, IInv', UNCHANGED <<dir, deleted, body, mixed, disorder, asked, pr>>
  PROVE  JInv'
<1>1. ProcsProper' /\ FilesNamed' /\ OneName'
  BY Parts DEF ProcsProper, Proper, Course, Named, FilesNamed, AllNamed, OneName, Known, RecordsOf
<1>2. Articles'
  <2>1. posted' = posted
    BY DEF posted
  <2> SUFFICES ASSUME NEW a \in 1..posted \ mixed PROVE Kept(a)'
    BY <2>1 DEF Articles
  <2>2. Held(a, "M")' = Held(a, "M") /\ Held(a, "D")' = Held(a, "D")
    BY DEF Held, Has, Carries
  <2>3. RangeAtWork => RangeAtWork'
    BY DEF RangeAtWork
  <2>4. Kept(a)
    BY Parts DEF Articles
  <2> QED BY <2>2, <2>3, <2>4, KeptSame
<1> QED
  BY <1>1, <1>2 DEF JInv

LEMMA flush_bcacheKeeps ==
  ASSUME JInv, flush_bcache
  PROVE  JInv'
<1>1. IInv'
  BY Parts, flush_bcacheStep
<1> QED
  BY <1>1, QuietAll DEF flush_bcache, files, ghosts

LEMMA StutterKeeps ==
  ASSUME JInv, UNCHANGED vars
  PROVE  JInv'
<1>1. IInv'
  BY Parts, Stutter
<1> QED
  BY <1>1, QuietAll DEF vars, ghosts

-----------------------------------------------------------------------------
(* Operations begin *)

LEMMA PickedNamed ==
  ASSUME JInv
  PROVE  /\ \A i \in 1..Len(dir) : Named(dir[i]) /\ dir[i] \in Known
         /\ \A i \in 1..Len(deleted) : Named(deleted[i]) /\ deleted[i] \in Known
BY Parts, KnownRecords DEF FilesNamed, AllNamed

LEMMA DeleteKeeps ==
  ASSUME JInv, NEW p \in Procs, NEW i \in 1..Len(dir), NEW ent \in 0..Len(dir), Delete(p, i, ent)
  PROVE  JInv'
<1>1. IInv'
  BY Parts, DeleteStep
<1>2. PICK r : r = dir[i]
  OBVIOUS
<1>3. /\ Starts(p, [Idle EXCEPT !.pc = "map", !.op = "delete", !.rec = r, !.ent = ent])
      /\ UNCHANGED <<dir, deleted, body, mixed, disorder>> /\ asked' = asked \cup {r.art}
  BY <1>2 DEF Delete, files
<1>4. PICK y : y = Begun("map", "delete", r, ent, 0)
  OBVIOUS
<1>5. Starts(p, y)
  BY <1>3, <1>4, BegunIs
<1>6. Named(r) /\ r \in Known
  BY <1>2, PickedNamed
<1>7. y.pc = "map" /\ y.op = "delete" /\ y.rec = r /\ r.art # 0
  BY <1>2, <1>4 DEF Begun, Delete
<1>8. ~Carries(y)
  BY <1>7 DEF Carries
<1>9. Course(y)
  BY <1>7 DEF Course
<1>10. Proper(y, asked', mixed, disorder)
  BY <1>3, <1>6, <1>7, <1>9 DEF Proper
<1> QED
  BY <1>1, <1>3, <1>4, <1>5, <1>6, <1>8, <1>10, QuietStart

LEMMA UndeleteKeeps ==
  ASSUME JInv, NEW p \in Procs, NEW i \in 1..Len(deleted), Undelete(p, i)
  PROVE  JInv'
<1>1. IInv'
  BY Parts, UndeleteStep
<1>2. PICK r : r = deleted[i]
  OBVIOUS
<1>3. /\ Starts(p, [Idle EXCEPT !.pc = "check", !.op = "undelete", !.rec = r, !.ent = i])
      /\ UNCHANGED <<dir, deleted, body, mixed, disorder>> /\ asked' = asked
  BY <1>2 DEF Undelete, files, ghosts
<1>4. PICK y : y = Begun("check", "undelete", r, i, 0)
  OBVIOUS
<1>5. Starts(p, y)
  BY <1>3, <1>4, BegunIs
<1>6. Named(r) /\ r \in Known
  BY <1>2, PickedNamed
<1>7. y.pc = "check" /\ y.op = "undelete" /\ y.rec = r
  BY <1>4 DEF Begun
<1>8. ~Carries(y)
  BY <1>7 DEF Carries
<1>9. Course(y)
  BY <1>7 DEF Course
<1>10. r.art \notin mixed \cup {0} => r.kind = "D"
  <2> SUFFICES ASSUME r.art \notin mixed, r.art # 0 PROVE r.kind = "D"
    OBVIOUS
  <2>1. r.art \in 1..posted
    <3>1. r \in RecordsTo(posted) /\ posted \in Nat
      BY <1>2, Parts
    <3>2. PICK n \in Nat : n = posted
      BY <3>1
    <3>3. r.art \in 0..n
      BY <3>1, <3>2, RecordsAre
    <3> QED BY <3>2, <3>3
  <2>2. Filed(deleted, r.art, "M") = {}
    BY <2>1, Parts DEF Articles, Kept
  <2>3. r.kind # "M"
    BY <1>2, <2>2 DEF Filed
  <2> QED BY <1>6, <2>3 DEF Named
<1>11. Proper(y, asked', mixed, disorder)
  BY <1>6, <1>7, <1>9, <1>10 DEF Proper
<1> QED
  BY <1>1, <1>3, <1>4, <1>5, <1>6, <1>8, <1>11, QuietStart

LEMMA EditTitleKeeps ==
  ASSUME JInv, NEW p \in Procs, NEW i \in 1..Len(dir), EditTitle(p, i)
  PROVE  JInv'
<1>1. IInv'
  BY Parts, EditTitleStep
<1>2. PICK r : r = dir[i]
  OBVIOUS
<1>3. /\ Starts(p, [Idle EXCEPT !.pc = "find", !.op = "edit", !.rec = r, !.ent = i])
      /\ UNCHANGED <<dir, deleted, body, mixed, disorder>> /\ asked' = asked
  BY <1>2 DEF EditTitle, files, ghosts
<1>4. PICK y : y = Begun("find", "edit", r, i, 0)
  OBVIOUS
<1>5. Starts(p, y)
  BY <1>3, <1>4, BegunIs
<1>6. Named(r) /\ r \in Known
  BY <1>2, PickedNamed
<1>7. y.pc = "find" /\ y.op = "edit" /\ y.rec = r
  BY <1>4 DEF Begun
<1>8. ~Carries(y)
  BY <1>7 DEF Carries
<1>9. Course(y)
  BY <1>7 DEF Course
<1>10. Proper(y, asked', mixed, disorder)
  BY <1>6, <1>7, <1>9 DEF Proper
<1> QED
  BY <1>1, <1>3, <1>4, <1>5, <1>6, <1>8, <1>10, QuietStart

LEMMA DeleteRangeKeeps ==
  ASSUME JInv, NEW p \in Procs, NEW i \in 1..Len(dir), NEW j \in 1..Len(dir), DeleteRange(p, i, j)
  PROVE  JInv'
<1>1. IInv'
  BY Parts, DeleteRangeStep
<1>2. /\ Starts(p, [Idle EXCEPT !.pc = "stat", !.op = "range", !.ent = i, !.to = j])
      /\ UNCHANGED <<dir, deleted, body, mixed, disorder>> /\ asked \subseteq asked'
  BY DEF DeleteRange, files
<1>3. PICK y : y = Begun("stat", "range", Zero, i, j)
  OBVIOUS
<1>4. Starts(p, y)
  BY <1>2, <1>3, BegunOnRange
<1>5. y.pc = "stat" /\ y.op = "range" /\ y.rec = Zero /\ Zero.art = 0
  BY <1>3 DEF Begun, Zero
<1>6. ~Carries(y)
  BY <1>5 DEF Carries
<1>7. Course(y)
  BY <1>5 DEF Course
<1>8. Proper(y, asked', mixed, disorder)
  BY <1>5, <1>7 DEF Proper, Named
<1> QED
  BY <1>1, <1>2, <1>3, <1>4, <1>5, <1>6, <1>8, QuietStart

-----------------------------------------------------------------------------
(* The records of a file that is changed *)

LEMMA InsertAtAll ==
  ASSUME NEW n \in Nat, NEW s \in Seq(RecordsTo(n)), NEW m \in 1..Len(s)+1,
         NEW r \in RecordsTo(n), NEW t, t = InsertAt(s, m, r)
  PROVE  /\ Len(t) = Len(s)+1
         /\ \A i \in 1..Len(s)+1 : /\ i < m => t[i] = s[i]
                                   /\ i = m => t[i] = r
                                   /\ i > m => t[i] = s[i-1]
<1>1. PICK R : R = RecordsTo(n)
  OBVIOUS
<1>2. PICK l \in Nat : l = Len(s)
  OBVIOUS
<1>3. Len(t) = l+1
  BY <1>1, <1>2, InsertAtDef
<1>4. \A i \in 1..l+1 : t[i] = IF i < m THEN s[i] ELSE IF i = m THEN r ELSE s[i-1]
  BY <1>1, <1>2, InsertAtDef
<1>5. m \in 1..l+1
  BY <1>2
<1>6. \A i \in 1..l+1 : (i < m => t[i] = s[i]) /\ (i = m => t[i] = r) /\ (i > m => t[i] = s[i-1])
  BY <1>4, <1>5
<1> QED
  BY <1>2, <1>3, <1>6

LEMMA InsertedFrom ==
  ASSUME NEW n \in Nat, NEW s \in Seq(RecordsTo(n)), NEW r \in RecordsTo(n), nowid \in Nat,
         NEW q, q = (IF Renumbers(s, r) THEN Renumbered(r) ELSE r)
  PROVE  \A i \in 1..Len(Inserted(s, r)) :
           Inserted(s, r)[i] = q \/ \E j \in 1..Len(s) : Inserted(s, r)[i] = s[j]
<1>1. CASE Renumbers(s, r)
  <2>1. Inserted(s, r) = Append(s, q)
    BY <1>1 DEF Inserted
  <2> QED BY <2>1
<1>2. CASE ~Renumbers(s, r)
  <2>1. PICK m : m = Bisect(s, r.id)[1]
    OBVIOUS
  <2>2. m \in 1..Len(s)+1
    <3>1. r.id \in Nat
      BY RecordsAre
    <3> QED BY <2>1, <3>1, SearchDef
  <2>3. PICK t : t = InsertAt(s, m, r)
    OBVIOUS
  <2>4. Inserted(s, r) = t /\ q = r
    BY <1>2, <2>1, <2>3 DEF Inserted
  <2>5. PICK l \in Nat : l = Len(s)
    OBVIOUS
  <2>6. ASSUME NEW i \in 1..Len(t) PROVE t[i] = q \/ \E j \in 1..Len(s) : t[i] = s[j]
    <3>1. i \in 1..l+1 /\ m \in 1..l+1
      BY <2>2, <2>3, <2>5, InsertAtAll
    <3>2. CASE i < m
      <4>1. i \in 1..l
        BY <3>1, <3>2
      <4>2. t[i] = s[i]
        BY <2>2, <2>3, <2>5, <3>1, <3>2, InsertAtAll
      <4> QED BY <2>5, <4>1, <4>2
    <3>3. CASE i = m
      <4>1. t[i] = r
        BY <2>2, <2>3, <2>5, <3>1, <3>3, InsertAtAll
      <4> QED BY <2>4, <4>1
    <3>4. CASE i > m
      <4>1. i-1 \in 1..l
        BY <3>1, <3>4
      <4>2. t[i] = s[i-1]
        BY <2>2, <2>3, <2>5, <3>1, <3>4, InsertAtAll
      <4> QED BY <2>5, <4>1, <4>2
    <3> QED BY <3>1, <3>2, <3>3, <3>4
  <2> QED BY <2>4, <2>6
<1> QED
  BY <1>1, <1>2

LEMMA RemovedFrom ==
  ASSUME NEW c \in Nat, NEW s \in Seq(RecordsTo(c)), NEW n \in Nat,
         NEW i \in 1..n, NEW j \in i..n
  PROVE  \A l \in 1..Len(Removed(s, n, i, j)) :
           Removed(s, n, i, j)[l] = Zero \/ \E m \in 1..Len(s) : Removed(s, n, i, j)[l] = s[m]
<1>1. PICK t : t = Removed(s, n, i, j)
  OBVIOUS
<1>2. PICK w \in Nat : w = j-i+1
  OBVIOUS
<1>3. Squeezed(t, s, n, i, w)
  BY <1>1, <1>2, RemovedAt
<1>4. ASSUME NEW l \in 1..Len(t) PROVE t[l] = Zero \/ \E m \in 1..Len(s) : t[l] = s[m]
  <2>1. PICK m : m = IF l < i THEN l ELSE l + w
    OBVIOUS
  <2>2. m \in 1..n /\ t[l] = View(s, n)[m]
    BY <1>2, <1>3, <2>1 DEF Squeezed
  <2>3. t[l] = IF m <= Len(s) THEN s[m] ELSE Zero
    BY <2>2 DEF View
  <2>4. m <= Len(s) => m \in 1..Len(s)
    BY <2>2
  <2> QED BY <2>3, <2>4
<1> QED
  BY <1>1, <1>4

\* One record is written at e.
Written(t, s, e, r) ==
    /\ Len(t) >= Len(s) /\ Len(t) \in Nat
    /\ \A i \in 1..Len(t) : t[i] = IF i = e THEN r ELSE IF i <= Len(s) THEN s[i] ELSE Zero
    /\ e > 0 => e \in 1..Len(t)

LEMMA SubstituteIs ==
  ASSUME NEW c \in Nat, NEW s \in Seq(RecordsTo(c)), NEW e \in Nat, NEW r \in RecordsTo(c)
  PROVE  Written(substitute_record(s, e, r), s, e, r)
<1>1. PICK n \in Nat : n = IF e > Len(s) THEN e ELSE Len(s)
  OBVIOUS
<1>2. PICK v : v = View(s, n)
  OBVIOUS
<1>3. v = [k \in 1..n |-> IF k <= Len(s) THEN s[k] ELSE Zero]
  BY <1>2 DEF View
<1>4. PICK t : t = [v EXCEPT ![e] = r]
  OBVIOUS
<1>5. substitute_record(s, e, r) = t
  BY <1>1, <1>2, <1>4 DEF substitute_record, ReplaceAt
<1>6. /\ DOMAIN t = 1..n
      /\ \A k \in 1..n : t[k] = IF k = e THEN r ELSE IF k <= Len(s) THEN s[k] ELSE Zero
  BY <1>3, <1>4
<1>7. t \in Seq(RecordsTo(c))
  BY <1>5, SubstituteDef
<1>8. Len(t) = n
  BY <1>6, <1>7
<1> QED
  BY <1>1, <1>5, <1>6, <1>8 DEF Written

LEMMA FiledWritten ==
  ASSUME NEW c \in Nat, NEW s \in Seq(RecordsTo(c)), NEW e \in Nat, NEW r \in RecordsTo(c),
         NEW a \in Nat, NEW k \in {"M", "D"}, a # 0,
         View(s, e)[e] = r \/ (r.art # a /\ View(s, e)[e].art # a), e > 0
  PROVE  Filed(substitute_record(s, e, r), a, k) = Filed(s, a, k)
<1>1. PICK t : t = substitute_record(s, e, r)
  OBVIOUS
<1>2. Written(t, s, e, r)
  BY <1>1, SubstituteIs
<1>3. Len(s) \in Nat /\ Len(t) \in Nat /\ Len(t) >= Len(s) /\ e \in 1..Len(t)
  BY <1>2 DEF Written
<1>4. View(s, e)[e] = IF e <= Len(s) THEN s[e] ELSE Zero
  <2>1. e \in 1..e
    BY <1>3
  <2> QED BY <2>1 DEF View
<1>5. Zero.art = 0
  BY DEF Zero
<1>6. ASSUME NEW i PROVE i \in Filed(t, a, k) <=> i \in Filed(s, a, k)
  <2>1. CASE i = e
    <3>1. i \in 1..Len(t) /\ t[i] = r /\ (i \in 1..Len(s) <=> e <= Len(s))
      BY <1>2, <1>3, <2>1 DEF Written
    <3>2. i \in Filed(t, a, k) <=> r.art = a /\ r.kind = k
      BY <3>1 DEF Filed
    <3>3. i \in Filed(s, a, k) <=> e <= Len(s) /\ s[e].art = a /\ s[e].kind = k
      BY <2>1, <3>1 DEF Filed
    <3> QED BY <1>4, <1>5, <3>2, <3>3
  <2>2. CASE i # e
    <3>1. ASSUME i \in 1..Len(s) PROVE i \in 1..Len(t) /\ t[i] = s[i]
      BY <1>2, <1>3, <2>2, <3>1 DEF Written
    <3>2. ASSUME i \in 1..Len(t), i \notin 1..Len(s) PROVE t[i] = Zero
      BY <1>2, <1>3, <2>2, <3>2 DEF Written
    <3> QED BY <1>5, <3>1, <3>2 DEF Filed
  <2> QED BY <2>1, <2>2
<1> QED
  BY <1>1, <1>6

-----------------------------------------------------------------------------
(* What processes carry *)

LEMMA HeldGone ==
  ASSUME ProcsOK, NEW p \in Procs, NEW y, pr' = [pr EXCEPT ![p] = y], NEW a, NEW k,
         Has(pr[p], a, k), ~Has(y, a, k), One(Held(a, k))
  PROVE  Held(a, k)' = {}
<1>1. \A q \in Procs : q \in Held(a, k)' <=> IF q = p THEN Has(y, a, k) ELSE q \in Held(a, k)
  BY HeldStep
<1>2. p \in Held(a, k)
  BY DEF Held
<1>3. Held(a, k) = {p}
  BY <1>2 DEF One
<1>4. Held(a, k)' \subseteq Procs
  BY DEF Held
<1> QED
  BY <1>1, <1>3, <1>4

LEMMA HeldComes ==
  ASSUME ProcsOK, NEW p \in Procs, NEW y, pr' = [pr EXCEPT ![p] = y], NEW a, NEW k,
         Has(y, a, k), \A q \in Procs \ {p} : q \notin Held(a, k)
  PROVE  One(Held(a, k)')
<1>1. \A q \in Procs : q \in Held(a, k)' <=> IF q = p THEN Has(y, a, k) ELSE q \in Held(a, k)
  BY HeldStep
<1>2. Held(a, k)' \subseteq Procs
  BY DEF Held
<1>3. p \in Held(a, k)' /\ \A q \in Held(a, k)' : q = p
  BY <1>1, <1>2
<1> QED
  BY <1>3, OneIs

LEMMA HeldBy ==
  ASSUME NEW p \in Procs, NEW a, NEW k, Has(pr[p], a, k)
  PROVE  p \in Held(a, k) /\ Held(a, k) # {}
BY DEF Held

LEMMA Assembled ==
  ASSUME IInv', ProcsProper', FilesNamed', OneName', Articles'
  PROVE  JInv'
BY DEF JInv

LEMMA Cases ==
  ASSUME NEW a, Kept(a)
  PROVE  /\ Filed(dir, a, "M") # {} => /\ body[a] = "M" /\ One(Filed(dir, a, "M"))
                                       /\ Held(a, "M") = {}
         /\ Held(a, "M") # {} => /\ body[a] = "M" /\ Filed(dir, a, "M") = {}
                                 /\ One(Held(a, "M"))
         /\ body[a] # "M" => Filed(dir, a, "M") = {} /\ Held(a, "M") = {}
BY DEF Kept, Placed, Single, None, One

LEMMA KeptIs ==
  ASSUME NEW a, Placed(a)', Marked(a)', Findable(a)', Wanted(a)', Filed(deleted', a, "M") = {}
  PROVE  Kept(a)'
<1>1. Filed(deleted, a, "M")' = {}
  BY DEF Filed
<1> QED
  BY <1>1 DEF Kept

LEMMA AfterDirMoves ==
  ASSUME JInv, NEW p \in Procs, NEW r, NEW c, AfterDir(p, r, c)
  PROVE  \E y : /\ pr' = [pr EXCEPT ![p] = y] /\ y.op = pr[p].op /\ y.rec = r
                /\ y.pc = IF r.root THEN "origin" ELSE c
<1>1. PICK x : x = pr[p]
  OBVIOUS
<1>2. posted \in Nat /\ x \in Processes(posted) /\ pr \in [Procs -> Processes(posted)]
  BY <1>1, Parts, AtHand DEF ProcsOK
<1>3. PICK d : d = IF r.root THEN "origin" ELSE c
  OBVIOUS
<1>4. PICK y : y = Continues(x, d, r)
  OBVIOUS
<1>5. pr' = [pr EXCEPT ![p] = y]
  BY <1>1, <1>2, <1>3, <1>4, AfterDirIs
<1>6. y.pc = d /\ y.op = x.op /\ y.rec = r
  BY <1>4 DEF Continues
<1> QED
  BY <1>1, <1>3, <1>5, <1>6

-----------------------------------------------------------------------------
(* Posting *)

LEMMA PostKeeps ==
  ASSUME JInv, NEW p \in Procs, NEW root \in BOOLEAN, Post(p, root)
  PROVE  JInv'
<1>1. IInv'
  BY Parts, PostStep
<1>2. PICK n \in Nat : n = posted
  BY Parts
<1>3. PICK r : r = [art |-> n + 1, kind |-> "M", id |-> 0, root |-> root]
  OBVIOUS
<1>4. PICK y : y = Begun("append", "post", r, 0, 0)
  OBVIOUS
<1>5. /\ Starts(p, [Idle EXCEPT !.pc = "append", !.op = "post", !.rec = r])
      /\ body' = Append(body, "M")
      /\ UNCHANGED <<dir, deleted, mixed, disorder, asked>>
  BY <1>2, <1>3 DEF Post, ghosts
<1>6. Starts(p, y)
  BY <1>4, <1>5, BegunIs
<1>7. pr' = [pr EXCEPT ![p] = y] /\ pr[p].pc = "idle"
  BY <1>6 DEF Starts
<1>8. y.pc = "append" /\ y.op = "post" /\ y.rec = r /\ r.art = n + 1 /\ r.kind = "M"
  BY <1>3, <1>4 DEF Begun
<1>9. ProcsProper'
  <2>1. Course(y)
    BY <1>8 DEF Course
  <2>2. Proper(y, asked', mixed', disorder')
    BY <1>8, <2>1 DEF Proper, Named
  <2> QED BY <1>5, <1>7, <2>2, Parts, ProperStep
<1>10. FilesNamed'
  BY <1>5, Parts DEF FilesNamed, AllNamed, Named
<1>11. OneName'
  BY <1>5, <1>7, <1>8, Parts, ComesFrame, OneNameProc
<1>12. /\ body \in Seq(Letters) /\ n = Len(body) /\ posted' = n + 1 /\ body'[n+1] = "M"
       /\ \A a \in 1..n : body'[a] = body[a]
  BY <1>2, <1>5, Parts DEF posted
<1>13. ~Carries(pr[p])
  BY <1>7, OnCourse DEF Course, Carries
<1>14. ASSUME NEW a \in 1..n \ mixed PROVE Kept(a)'
  <2>1. Kept(a)
    BY <1>2, Parts DEF Articles
  <2>2. \A k : Held(a, k)' = Held(a, k)
    <3> SUFFICES ASSUME NEW k PROVE Held(a, k)' = Held(a, k)
      OBVIOUS
    <3>1. Has(y, a, k) <=> Has(pr[p], a, k)
      BY <1>8, <1>13 DEF Has
    <3>2. ProcsOK
      BY Parts
    <3>3. pr' = [pr EXCEPT ![p] = y]
      BY <1>7
    <3>4. \A q : q \in Held(a, k)' <=> q \in Held(a, k)
      BY <3>1, <3>2, <3>3, HeldSame
    <3> QED BY <3>4
  <2>3. RangeAtWork => RangeAtWork'
    BY <1>7, Parts, RangeStays
  <2>4. Alike(Filed(dir, a, "M"), Filed(dir', a, "M")) /\ Alike(Held(a, "M"), Held(a, "M")')
    BY <1>5, <2>2, AlikeSame
  <2>5. Filed(deleted', a, "M") = {}
    BY <1>5, <2>1 DEF Kept
  <2>6. Filed(dir, a, "D") # {} \/ Held(a, "D") # {} =>
           a \in Arts(deleted') \/ Filed(dir', a, "D") # {} \/ Held(a, "D")' # {}
    BY <1>5, <2>2
  <2>7. ~RangeAtWork' /\ (~RangeAtWork => Filed(dir, a, "D") = {}) => Filed(dir', a, "D") = {}
    BY <1>5, <2>3
  <2>8. body[a] = "D" /\ a \in Arts(deleted) => a \in Arts(deleted')
    BY <1>5
  <2>9. body'[a] = body[a]
    BY <1>12
  <2>10. asked \subseteq asked' /\ (disorder => disorder')
    BY <1>5
  <2> QED BY <2>1, <2>4, <2>5, <2>6, <2>7, <2>8, <2>9, <2>10, KeptOn
<1>15. Kept(n+1)'
  <2>1. PICK a \in Nat : a = n + 1
    OBVIOUS
  <2>2. ASSUME NEW s \in Seq(RecordsTo(n)), NEW k PROVE Filed(s, a, k) = {}
    <3>1. ASSUME NEW i \in 1..Len(s) PROVE s[i].art # a
      <4>1. s[i] \in RecordsTo(n)
        OBVIOUS
      <4>2. s[i].art \in 0..n
        BY <4>1, RecordsAre
      <4> QED BY <2>1, <4>2
    <3> QED BY <3>1 DEF Filed
  <2>3. dir \in Seq(RecordsTo(n)) /\ deleted \in Seq(RecordsTo(n))
    BY <1>2, Parts
  <2>4. One(Held(a, "M")')
    <3>1. Has(y, a, "M")
      BY <1>8, <2>1 DEF Has, Carries
    <3>2. ASSUME NEW q \in Procs PROVE q \notin Held(a, "M")
      <4>1. pr[q].rec \in RecordsTo(n)
        BY <1>2, Parts, AtHand
      <4>2. pr[q].rec.art \in 0..n
        BY <4>1, RecordsAre
      <4>3. pr[q].rec.art # a
        BY <2>1, <4>2
      <4> QED BY <4>3 DEF Held, Has
    <3> QED BY <1>7, <3>1, <3>2, Parts, HeldComes
  <2>5. body'[a] = "M"
    BY <1>12, <2>1
  <2>6. Filed(dir', a, "M") = {} /\ Filed(dir', a, "D") = {} /\ Filed(deleted', a, "M") = {}
    BY <1>5, <2>2, <2>3
  <2>7. Placed(a)'
    BY <2>4, <2>5, <2>6 DEF Placed, Single, Filed
  <2>8. Marked(a)'
    BY <2>6 DEF Marked, Filed
  <2>9. Findable(a)' /\ Wanted(a)'
    BY <2>5 DEF Findable, Wanted
  <2> QED BY <2>1, <2>6, <2>7, <2>8, <2>9, KeptIs
<1>16. Articles'
  <2> SUFFICES ASSUME NEW a \in 1..n+1, a \notin mixed PROVE Kept(a)'
    BY <1>5, <1>12 DEF Articles
  <2>1. a \in 1..n \/ a = n + 1
    OBVIOUS
  <2> QED BY <1>14, <1>15, <2>1
<1> QED
  BY <1>1, <1>9, <1>10, <1>11, <1>16, Assembled

\* What one step does to the articles it is not about.
LEMMA Others ==
  ASSUME JInv, NEW p \in Procs, NEW y, pr' = [pr EXCEPT ![p] = y], NEW a, Kept(a),
         body'[a] = body[a], asked \subseteq asked', disorder => disorder',
         ~Has(y, a, "M"), ~Has(pr[p], a, "M"), Has(pr[p], a, "D") => a \in Arts(deleted'),
         Alike(Filed(dir, a, "M"), Filed(dir', a, "M")),
         Filed(dir, a, "D") # {} => \/ a \in Arts(deleted') \/ Has(y, a, "D")
                                    \/ Filed(dir', a, "D") # {},
         Filed(dir, a, "D") = {} => Filed(dir', a, "D") = {},
         pr[p].pc # "rcut" \/ Filed(dir', a, "D") = {},
         body[a] = "D" /\ a \in Arts(deleted) => a \in Arts(deleted'),
         Filed(deleted', a, "M") = {}
  PROVE  Kept(a)'
<1>1. \A q \in Procs, k \in {"M", "D"} :
         q \in Held(a, k)' <=> IF q = p THEN Has(y, a, k) ELSE q \in Held(a, k)
  <2> SUFFICES ASSUME NEW k \in {"M", "D"}
               PROVE  \A q \in Procs :
                        q \in Held(a, k)' <=> IF q = p THEN Has(y, a, k) ELSE q \in Held(a, k)
    OBVIOUS
  <2> QED BY Parts, HeldStep
<1>2. Held(a, "M")' = Held(a, "M")
  <2>1. Has(y, a, "M") <=> Has(pr[p], a, "M")
    OBVIOUS
  <2>2. ProcsOK
    BY Parts
  <2>3. \A q : q \in Held(a, "M")' <=> q \in Held(a, "M")
    BY <2>1, <2>2, HeldSame
  <2> QED BY <2>3
<1>3. Alike(Held(a, "M"), Held(a, "M")')
  BY <1>2, AlikeSame
<1>4. Held(a, "D") # {} => a \in Arts(deleted') \/ Held(a, "D")' # {}
  <2> SUFFICES ASSUME NEW q \in Held(a, "D") PROVE a \in Arts(deleted') \/ Held(a, "D")' # {}
    OBVIOUS
  <2>1. q \in Procs /\ Has(pr[q], a, "D")
    BY DEF Held
  <2>2. CASE q = p
    BY <2>1, <2>2
  <2>3. CASE q # p
    BY <1>1, <2>1, <2>3
  <2> QED BY <2>2, <2>3
<1>5. Has(y, a, "D") => Held(a, "D")' # {}
  BY <1>1
<1>6. Filed(dir, a, "D") # {} \/ Held(a, "D") # {} =>
        a \in Arts(deleted') \/ Filed(dir', a, "D") # {} \/ Held(a, "D")' # {}
  BY <1>4, <1>5
<1>7. ~RangeAtWork' /\ (~RangeAtWork => Filed(dir, a, "D") = {}) => Filed(dir', a, "D") = {}
  <2>1. CASE pr[p].pc # "rcut"
    <3>1. RangeAtWork => RangeAtWork'
      BY <2>1, Parts, RangeStays
    <3> QED BY <3>1
  <2>2. CASE Filed(dir', a, "D") = {}
    BY <2>2
  <2> QED BY <2>1, <2>2
<1> QED
  BY <1>3, <1>6, <1>7, KeptOn

LEMMA AppendDirKeeps ==
  ASSUME JInv, NEW p \in Procs, AppendDir(p)
  PROVE  JInv'
<1>1. IInv'
  BY Parts, AppendDirStep
<1>2. PICK x : x = pr[p]
  OBVIOUS
<1>3. PICK r : r = [x.rec EXCEPT !.id = nowid + 1]
  OBVIOUS
<1>4. /\ x.pc = "append" /\ dir' = Append(dir, r)
      /\ IF r.root THEN AfterDir(p, r, "idle") ELSE Done(p)
      /\ UNCHANGED <<deleted, body, mixed, disorder, asked>>
  BY <1>2, <1>3 DEF AppendDir, ghosts
<1>5. /\ Course(x) /\ x.rec.kind = "M" /\ x.op # "delete"
      /\ posted \in Nat /\ nowid \in Nat /\ x.rec \in RecordsTo(posted)
  BY <1>2, <1>4, Parts, AtHand, OnCourse DEF Course
<1>6. r \in RecordsTo(posted) /\ r.id = nowid + 1 /\ r.art = x.rec.art /\ r.kind = "M"
  <2>1. nowid + 1 \in Nat
    BY <1>5
  <2> QED BY <1>3, <1>5, <2>1 DEF RecordsTo
<1>7. PICK y : /\ pr' = [pr EXCEPT ![p] = y]
               /\ y = Idle \/ (y.pc = "origin" /\ y.op = x.op /\ y.rec = r)
  <2>1. CASE r.root
    <3>1. PICK y : /\ pr' = [pr EXCEPT ![p] = y] /\ y.op = pr[p].op /\ y.rec = r
                   /\ y.pc = IF r.root THEN "origin" ELSE "idle"
      BY <1>4, <2>1, AfterDirMoves
    <3> QED BY <1>2, <2>1, <3>1
  <2>2. CASE ~r.root
    BY <1>4, <2>2 DEF Done
  <2> QED BY <2>1, <2>2
<1>8. ~Carries(y)
  <2>1. ~Carries(Idle)
    BY IdleProper
  <2> QED BY <1>5, <1>7, <2>1 DEF Carries
<1>9. ProcsProper'
  <2>1. CASE y = Idle
    <3>1. Proper(y, asked', mixed', disorder')
      BY <2>1, IdleProper
    <3> QED BY <1>4, <1>7, <3>1, Parts, ProperStep
  <2>2. CASE y.pc = "origin" /\ y.op = x.op /\ y.rec = r
    <3>1. Course(y)
      BY <1>5, <2>2 DEF Course
    <3>2. Proper(y, asked', mixed', disorder')
      BY <1>5, <1>6, <2>2, <3>1 DEF Proper, Named
    <3> QED BY <1>4, <1>7, <3>2, Parts, ProperStep
  <2> QED BY <1>7, <2>1, <2>2
<1>10. /\ dir \in Seq(RecordsTo(posted)) /\ Len(dir) \in Nat /\ Len(dir') = Len(dir) + 1
       /\ dir'[Len(dir) + 1] = r /\ \A i \in 1..Len(dir) : dir'[i] = dir[i]
  BY <1>4, Parts
<1>11. \A i \in 1..Len(dir') : dir'[i] = r \/ \E j \in 1..Len(dir) : dir'[i] = dir[j]
  <2>1. \A i \in 1..Len(dir') : i \in 1..Len(dir) \/ i = Len(dir) + 1
    BY <1>10
  <2> QED BY <1>10, <2>1
<1>12. FilesNamed'
  <2>1. AllNamed(dir')
    BY <1>6, <1>11, Parts DEF FilesNamed, AllNamed, Named
  <2>2. AllNamed(deleted')
    BY <1>4, Parts DEF FilesNamed
  <2> QED BY <2>1, <2>2 DEF FilesNamed, AllNamed, Named
<1>13. OneName'
  <2>1. PICK A : A = r.art
    OBVIOUS
  <2>2. Comes(r, A)
    BY <1>6, <2>1 DEF Comes
  <2>3. \A j \in 1..Len(dir) : Comes(dir[j], A)
    BY KnownRecords, ComesOld
  <2>4. \A i \in 1..Len(dir') : Comes(dir'[i], A)
    BY <1>11, <2>2, <2>3
  <2>5. Comes(Idle.rec, A)
    BY IdleProper DEF Comes
  <2>6. Comes(y.rec, A)
    BY <1>7, <2>2, <2>5
  <2>7. \A i \in 1..Len(deleted') : Comes(deleted'[i], A)
    BY <1>4, ComesFrame
  <2> QED BY <1>4, <1>7, <2>4, <2>6, <2>7, Parts, OneNameProc
<1>14. posted' = posted
  BY <1>4 DEF posted
<1>15. Articles'
  <2> SUFFICES ASSUME NEW a \in 1..posted, a \notin mixed PROVE Kept(a)'
    BY <1>4, <1>14 DEF Articles
  <2>1. Kept(a) /\ a \in Nat /\ a # 0
    BY <1>5, Parts DEF Articles
  <2>2. \A k \in {"M", "D"} : \A j : j \in Filed(dir', a, k) <=>
                  j \in Filed(dir, a, k) \/ (j = Len(dir) + 1 /\ r.art = a /\ r.kind = k)
    BY <1>4, <1>5, <1>6, <1>10, <2>1, FiledAppend
  <2>3. Filed(dir', a, "D") = Filed(dir, a, "D")
    BY <1>6, <2>2
  <2>4. \A k : ~Has(y, a, k)
    BY <1>8 DEF Has
  <2>5. \A k : Has(pr[p], a, k) <=> r.art = a /\ k = "M"
    BY <1>2, <1>4, <1>5, <1>6 DEF Has, Carries
  <2>6. Filed(deleted', a, "M") = {}
    BY <1>4, <2>1 DEF Kept
  <2>7. CASE r.art # a
    <3>1. Filed(dir', a, "M") = Filed(dir, a, "M")
      BY <2>2, <2>7
    <3>2. Alike(Filed(dir, a, "M"), Filed(dir', a, "M"))
      BY <3>1, AlikeSame
    <3>3. ~Has(y, a, "M") /\ ~Has(pr[p], a, "M") /\ ~Has(pr[p], a, "D")
      BY <2>4, <2>5, <2>7
    <3>4. pr[p].pc # "rcut"
      BY <1>2, <1>4
    <3> QED BY <1>4, <1>7, <2>1, <2>3, <2>6, <3>2, <3>3, <3>4, Others
  <2>8. CASE r.art = a
    <3>1. Has(pr[p], a, "M") /\ ~Has(y, a, "M")
      BY <2>4, <2>5, <2>8
    <3>2. body[a] = "M" /\ Filed(dir, a, "M") = {} /\ One(Held(a, "M"))
      BY <2>1, <3>1, HeldBy, Cases
    <3>3. Held(a, "M")' = {}
      BY <1>7, <3>1, <3>2, Parts, HeldGone
    <3>4. One(Filed(dir', a, "M"))
      <4>1. PICK m : m = Len(dir) + 1
        OBVIOUS
      <4>2. PICK F : F = Filed(dir', a, "M")
        OBVIOUS
      <4>3. m \in F /\ \A j \in F : j = m
        BY <1>6, <2>2, <2>8, <3>2, <4>1, <4>2
      <4> QED BY <4>2, <4>3, OneIs
    <3>5. body'[a] = "M"
      BY <1>4, <3>2
    <3>6. Placed(a)'
      BY <3>3, <3>4, <3>5 DEF Placed, Single, Filed
    <3>7. Marked(a)'
      <4>1. RangeAtWork => RangeAtWork'
        BY <1>2, <1>4, <1>7, Parts, RangeStays
      <4>2. ~RangeAtWork' => Filed(dir', a, "D") = {}
        BY <2>1, <2>3, <4>1 DEF Kept, Marked
      <4> QED BY <4>2 DEF Marked, Filed
    <3>8. Findable(a)' /\ Wanted(a)'
      BY <3>5 DEF Findable, Wanted
    <3> QED BY <2>6, <3>6, <3>7, <3>8, KeptIs
  <2> QED BY <2>7, <2>8
<1> QED
  BY <1>1, <1>9, <1>12, <1>13, <1>15, Assembled

-----------------------------------------------------------------------------
(* Deleting one *)

\* The record that is found is one of the article that was asked for.
LEMMA FoundIsAsked ==
  ASSUME JInv, NEW p \in Procs, pr[p].pc = "cut", NEW s, NEW e \in 1..Len(s),
         e = Locate(s, pr[p].ent, pr[p].rec), s[e] \in Known, s[e].art # 0
  PROVE  s[e].art \in asked \/ disorder
<1>1. PICK x : x = pr[p]
  OBVIOUS
<1>2. /\ x.rec.art # 0 /\ x.op = "delete" /\ x.rec \in Known
      /\ x.rec.art \in asked \/ disorder
  BY <1>1, OnCourse, KnownRecords DEF Course, Proper
<1>3. CASE x.ent \in 1..Len(s) /\ SameFile(s[x.ent], x.rec)
  <2>1. e = x.ent
    BY <1>1, <1>3 DEF Locate
  <2> QED BY <1>2, <1>3, <2>1 DEF SameFile
<1>4. CASE ~(x.ent \in 1..Len(s) /\ SameFile(s[x.ent], x.rec))
  <2>1. e = Search_Bin(s, x.rec.id) /\ e # 0
    BY <1>1, <1>4 DEF Locate
  <2>2. PICK b : b = Bisect(s, x.rec.id)
    OBVIOUS
  <2>3. b[1] = e /\ s[b[1]].id = x.rec.id
    BY <2>1, <2>2 DEF Search_Bin
  <2>4. s[e].id = x.rec.id
    BY <2>3
  <2>5. OneName
    BY Parts
  <2>6. ~disorder => s[e].art = x.rec.art
    BY <1>2, <2>4, <2>5 DEF OneName
  <2> QED BY <1>2, <2>6
<1> QED
  BY <1>3, <1>4

LEMMA CutKeeps ==
  ASSUME JInv, NEW p \in Procs, Cut(p)
  PROVE  JInv'
<1>1. IInv'
  BY Parts, CutStep
<1>2. PICK x : x = pr[p]
  OBVIOUS
<1>3. PICK n : n = x.size
  OBVIOUS
<1>4. PICK v : v = View(dir, n)
  OBVIOUS
<1>5. PICK e : e = Locate(v, x.ent, x.rec)
  OBVIOUS
<1>6. /\ x.pc = "cut" /\ UNCHANGED <<deleted, body, asked>>
      /\ e = 0 => Done(p) /\ UNCHANGED <<dir, mixed, disorder>>
      /\ e # 0 => /\ dir' = Removed(dir, n, e, e) /\ AfterDir(p, v[e], "cancel")
                  /\ mixed' = mixed \cup Arts(SubSeq(dir, n + 1, Len(dir)))
                  /\ disorder' = (disorder \/ n > Len(dir))
  BY <1>2, <1>3, <1>4, <1>5 DEF Cut
<1>7. /\ posted \in Nat /\ n \in Nat /\ x.ent \in Nat /\ x.rec \in RecordsTo(posted)
      /\ dir \in Seq(RecordsTo(posted)) /\ x.op = "delete"
  BY <1>2, <1>3, <1>6, Parts, AtHand, ProcessIs, OnCourse DEF Course
<1>8. v \in Seq(RecordsTo(posted)) /\ Len(v) = n
  BY <1>4, <1>7, ViewDef
<1>9. e \in 0..n
  BY <1>5, <1>7, <1>8, LocateDef
<1>10. ~Carries(pr[p]) /\ pr[p].pc # "rcut"
  BY <1>2, <1>6 DEF Carries
<1>11. CASE e = 0
  BY <1>1, <1>6, <1>10, <1>11, QuietDone
<1>12. CASE e # 0
  <2>1. e \in 1..n /\ e \in e..n
    BY <1>7, <1>9, <1>12
  <2>2. PICK r : r = v[e]
    OBVIOUS
  <2>3. r = IF e <= Len(dir) THEN dir[e] ELSE Zero
    BY <1>4, <2>1, <2>2 DEF View
  <2>4. PICK y : /\ pr' = [pr EXCEPT ![p] = y] /\ y.op = "delete" /\ y.rec = r
                 /\ y.pc = IF r.root THEN "origin" ELSE "cancel"
    <3>1. AfterDir(p, r, "cancel")
      BY <1>6, <1>12, <2>2
    <3>2. PICK y : /\ pr' = [pr EXCEPT ![p] = y] /\ y.op = pr[p].op /\ y.rec = r
                   /\ y.pc = IF r.root THEN "origin" ELSE "cancel"
      BY <3>1, AfterDirMoves
    <3> QED BY <1>2, <1>7, <3>2
  <2>5. e <= Len(dir) => e \in 1..Len(dir) /\ r \in Known /\ Named(r)
    <3>1. e <= Len(dir) => e \in 1..Len(dir) /\ r = dir[e]
      BY <1>7, <2>1, <2>3
    <3> QED BY <3>1, PickedNamed
  <2>6. Zero.art = 0 /\ Named(Zero)
    BY DEF Zero, Named
  <2>7. disorder => disorder'
    BY <1>6, <1>12, Zenon
  <2>8. mixed \subseteq mixed' /\ asked \subseteq asked'
    BY <1>6, <1>12
  <2>9. r.art # 0 => r.art \in asked \/ disorder
    <3> SUFFICES ASSUME r.art # 0 PROVE r.art \in asked \/ disorder
      OBVIOUS
    <3>1. r \in Known
      BY <2>3, <2>5, <2>6
    <3> QED BY <1>2, <1>5, <1>6, <1>8, <2>1, <2>2, <3>1, FoundIsAsked
  <2>10. ProcsProper'
    <3>1. Course(y)
      BY <2>4 DEF Course
    <3>2. Named(y.rec)
      BY <2>3, <2>4, <2>5, <2>6
    <3>3. Proper(y, asked', mixed', disorder')
      BY <2>4, <2>7, <2>8, <2>9, <3>1, <3>2 DEF Proper
    <3> QED BY <2>4, <2>7, <2>8, <3>3, Parts, ProperStep
  <2>11. \A l \in 1..Len(dir') : dir'[l] = Zero \/ \E m \in 1..Len(dir) : dir'[l] = dir[m]
    BY <1>6, <1>7, <1>12, <2>1, RemovedFrom
  <2>12. FilesNamed'
    <3>1. \A l \in 1..Len(dir') : Named(dir'[l])
      BY <2>6, <2>11, PickedNamed
    <3>2. \A l \in 1..Len(deleted') : Named(deleted'[l])
      BY <1>6, PickedNamed
    <3> QED BY <3>1, <3>2 DEF FilesNamed, AllNamed, Named
  <2>13. OneName'
    <3>1. Comes(Zero, 0)
      BY <2>6 DEF Comes
    <3>2. \A m \in 1..Len(dir) : Comes(dir[m], 0)
      BY KnownRecords, ComesOld
    <3>3. \A l \in 1..Len(dir') : Comes(dir'[l], 0)
      BY <2>11, <3>1, <3>2
    <3>4. Comes(y.rec, 0)
      BY <2>3, <2>4, <2>5, <3>1, ComesOld
    <3>5. \A l \in 1..Len(deleted') : Comes(deleted'[l], 0)
      BY <1>6, ComesFrame
    <3> QED BY <2>4, <2>7, <3>3, <3>4, <3>5, Parts, OneNameProc
  <2>14. posted' = posted
    BY <1>6 DEF posted
  <2>15. Articles'
    <3> SUFFICES ASSUME NEW a \in 1..posted, a \notin mixed' PROVE Kept(a)'
      BY <2>14 DEF Articles
    <3>1. a \notin mixed /\ a \notin Arts(SubSeq(dir, n + 1, Len(dir)))
      BY <1>6, <1>12
    <3>2. Kept(a) /\ a \in Nat /\ a # 0
      BY <1>7, <3>1, Parts DEF Articles
    <3>3. ASSUME NEW k \in {"M", "D"} PROVE Spared(Filed(dir, a, k), Filed(dir', a, k), e, e)
      <4>1. PICK t : t = Removed(dir, n, e, e)
        OBVIOUS
      <4>2. dir' = t
        BY <1>6, <1>12, <4>1
      <4>3. Spared(Filed(dir, a, k), Filed(t, a, k), e, e)
        BY <1>7, <2>1, <3>1, <3>2, <4>1, FiledRemoved
      <4> QED BY <4>2, <4>3
    <3>4. e..e = {e}
      BY <1>7, <2>1
    <3>5. \A k : e \in Filed(dir, a, k) <=> r.art = a /\ r.kind = k
      <4>1. r.art = a => e \in 1..Len(dir) /\ r = dir[e]
        BY <2>3, <2>5, <2>6, <3>2
      <4>2. e \in 1..Len(dir) => r = dir[e]
        BY <1>7, <2>3
      <4> QED BY <4>1, <4>2 DEF Filed
    <3>6. ASSUME NEW k \in {"M", "D"}, ~(r.art = a /\ r.kind = k)
          PROVE  /\ Alike(Filed(dir, a, k), Filed(dir', a, k))
                 /\ Filed(dir, a, k) # {} => Filed(dir', a, k) # {}
                 /\ Filed(dir, a, k) = {} => Filed(dir', a, k) = {}
      <4>1. PICK F : F = Filed(dir, a, k)
        OBVIOUS
      <4>2. PICK G : G = Filed(dir', a, k)
        OBVIOUS
      <4>3. e \notin F
        BY <3>5, <3>6, <4>1
      <4>4. (G # {} <=> \E f \in F : f \notin {e}) /\ (One(F) /\ G # {} => One(G))
        BY <3>3, <3>4, <4>1, <4>2 DEF Spared
      <4>5. (F = {} <=> G = {}) /\ (One(F) => One(G))
        BY <4>3, <4>4 DEF One
      <4> QED BY <4>1, <4>2, <4>5 DEF Alike
    <3>7. \A k : Has(y, a, k) <=> r.art = a /\ r.kind = k
      BY <2>4 DEF Has, Carries
    <3>8. \A k : ~Has(pr[p], a, k)
      BY <1>10 DEF Has
    <3>9. Filed(deleted', a, "M") = {} /\ Arts(deleted') = Arts(deleted) /\ body'[a] = body[a]
      BY <1>6, <3>2 DEF Kept
    <3>10. CASE r.art = a /\ r.kind = "M"
      <4>1. e \in Filed(dir, a, "M")
        BY <3>5, <3>10
      <4>2. body[a] = "M" /\ Filed(dir, a, "M") = {e} /\ Held(a, "M") = {}
        BY <3>2, <4>1, Cases DEF One
      <4>3. Filed(dir', a, "M") = {}
        BY <3>3, <3>4, <4>2 DEF Spared
      <4>4. One(Held(a, "M")')
        <5>1. Has(y, a, "M")
          BY <3>7, <3>10
        <5> QED BY <2>4, <4>2, <5>1, Parts, HeldComes
      <4>5. Placed(a)'
        BY <3>9, <4>2, <4>3, <4>4 DEF Placed, Single, Filed
      <4>6. Marked(a)'
        <5>1. ~(r.art = a /\ r.kind = "D")
          BY <3>10
        <5>2. Filed(dir, a, "D") = {} => Filed(dir', a, "D") = {}
          BY <3>6, <5>1
        <5>3. RangeAtWork => RangeAtWork'
          BY <1>10, <2>4, Parts, RangeStays
        <5>4. ~RangeAtWork' => Filed(dir', a, "D") = {}
          BY <3>2, <5>2, <5>3 DEF Kept, Marked
        <5> QED BY <5>4 DEF Marked, Filed
      <4>7. Findable(a)' /\ Wanted(a)'
        BY <3>9, <4>2 DEF Findable, Wanted
      <4> QED BY <3>9, <4>5, <4>6, <4>7, KeptIs
    <3>11. CASE r.art = a /\ r.kind = "D"
      <4>1. ~Has(y, a, "M") /\ Has(y, a, "D")
        BY <3>7, <3>11
      <4>2. Filed(dir, a, "D") # {}
        BY <3>5, <3>11
      <4>3. ~(r.art = a /\ r.kind = "M")
        BY <3>11
      <4>4. Alike(Filed(dir, a, "M"), Filed(dir', a, "M"))
        BY <3>6, <4>3
      <4> QED BY <1>6, <1>10, <2>4, <2>7, <3>2, <3>8, <3>9, <4>1, <4>2, <4>4, Others
    <3>12. CASE r.art # a
      <4>1. ~Has(y, a, "M")
        BY <3>7, <3>12
      <4>2. Alike(Filed(dir, a, "M"), Filed(dir', a, "M"))
        BY <3>6, <3>12
      <4>3. /\ Filed(dir, a, "D") # {} => Filed(dir', a, "D") # {}
            /\ Filed(dir, a, "D") = {} => Filed(dir', a, "D") = {}
        BY <3>6, <3>12
      <4> QED BY <1>6, <1>10, <2>4, <2>7, <3>2, <3>8, <3>9, <4>1, <4>2, <4>3, Others
    <3>13. r.art = a => r.kind \in {"M", "D"}
      BY <2>3, <2>5, <2>6, <3>2 DEF Named
    <3> QED BY <3>10, <3>11, <3>12, <3>13
  <2> QED BY <1>1, <2>10, <2>12, <2>13, <2>15, Assembled
<1> QED
  BY <1>11, <1>12

LEMMA cancelpostKeeps ==
  ASSUME JInv, NEW p \in Procs, cancelpost(p)
  PROVE  JInv'
<1>1. IInv'
  BY Parts, cancelpostStep
<1>2. PICK x : x = pr[p]
  OBVIOUS
<1>3. PICK r : r = x.rec
  OBVIOUS
<1>4. PICK d : d = [r EXCEPT !.kind = "D"]
  OBVIOUS
<1>5. /\ x.pc = "cancel" /\ body' = Renamed(body, r, "D") /\ deleted' = Append(deleted, d)
      /\ Done(p) /\ UNCHANGED <<dir, mixed, disorder, asked>>
  BY <1>2, <1>3, <1>4 DEF cancelpost, ghosts
<1>6. /\ x.op = "delete" /\ posted \in Nat /\ r \in RecordsTo(posted)
      /\ Named(r) /\ (r.art # 0 => r.art \in asked \/ disorder) /\ r \in Known
  BY <1>2, <1>3, <1>5, Parts, AtHand, OnCourse, KnownRecords DEF Course, Proper
<1>7. d \in RecordsTo(posted) /\ d.art = r.art /\ d.id = r.id /\ d.kind = "D"
  <2>1. d \in RecordsTo(posted) /\ d.art = r.art /\ d.id = r.id
    BY <1>4, <1>6, KindSet
  <2>2. d.kind = "D"
    BY <1>4, <1>6 DEF RecordsTo
  <2> QED BY <2>1, <2>2
<1>8. PICK y : y = Idle
  OBVIOUS
<1>9. pr' = [pr EXCEPT ![p] = y] /\ ~Carries(y) /\ y.rec.art = 0
  BY <1>5, <1>8, IdleProper DEF Done
<1>10. ProcsProper'
  <2>1. Proper(y, asked', mixed', disorder')
    BY <1>8, IdleProper
  <2> QED BY <1>5, <1>9, <2>1, Parts, ProperStep
<1>11. /\ deleted \in Seq(RecordsTo(posted)) /\ Len(deleted) \in Nat
       /\ Len(deleted') = Len(deleted) + 1 /\ deleted'[Len(deleted) + 1] = d
       /\ \A i \in 1..Len(deleted) : deleted'[i] = deleted[i]
  BY <1>5, Parts
<1>12. \A i \in 1..Len(deleted') :
         deleted'[i] = d \/ \E j \in 1..Len(deleted) : deleted'[i] = deleted[j]
  <2>1. \A i \in 1..Len(deleted') : i \in 1..Len(deleted) \/ i = Len(deleted) + 1
    BY <1>11
  <2> QED BY <1>11, <2>1
<1>13. FilesNamed'
  <2>1. \A l \in 1..Len(dir') : Named(dir'[l])
    BY <1>5, PickedNamed
  <2>2. Named(d)
    BY <1>7 DEF Named
  <2>3. \A l \in 1..Len(deleted') : Named(deleted'[l])
    BY <1>12, <2>2, PickedNamed
  <2> QED BY <2>1, <2>3 DEF FilesNamed, AllNamed, Named
<1>14. OneName'
  <2>1. Comes(d, 0)
    BY <1>6, <1>7 DEF Comes
  <2>2. \A m \in 1..Len(deleted) : Comes(deleted[m], 0)
    BY KnownRecords, ComesOld
  <2>3. \A l \in 1..Len(deleted') : Comes(deleted'[l], 0)
    BY <1>12, <2>1, <2>2
  <2>4. Comes(y.rec, 0)
    BY <1>9 DEF Comes
  <2>5. \A l \in 1..Len(dir') : Comes(dir'[l], 0)
    BY <1>5, ComesFrame
  <2> QED BY <1>5, <1>9, <2>3, <2>4, <2>5, Parts, OneNameProc
<1>15. posted' = posted /\ body \in Seq(Letters) /\ posted = Len(body)
  <2>1. body \in Seq(Letters) /\ "D" \in Letters
    BY Parts DEF Letters
  <2> QED BY <1>5, <2>1, RenamedType DEF posted
<1>16. Articles'
  <2> SUFFICES ASSUME NEW a \in 1..posted, a \notin mixed PROVE Kept(a)'
    BY <1>5, <1>15 DEF Articles
  <2>1. Kept(a) /\ a \in Nat /\ a # 0
    BY <1>6, Parts DEF Articles
  <2>2. Filed(deleted', a, "M") = {}
    <3>1. Filed(deleted, a, "M") = {}
      BY <2>1 DEF Kept
    <3>2. \A i \in 1..Len(deleted) : ~(deleted[i].art = a /\ deleted[i].kind = "M")
      BY <3>1 DEF Filed
    <3>3. \A i \in 1..Len(deleted') : ~(deleted'[i].art = a /\ deleted'[i].kind = "M")
      BY <1>7, <1>12, <3>2
    <3> QED BY <3>3 DEF Filed
  <2>3. a \in Arts(deleted) \/ r.art = a => a \in Arts(deleted')
    <3>1. ASSUME NEW i \in 1..Len(deleted), deleted[i].art = a PROVE a \in Arts(deleted')
      <4>1. i \in 1..Len(deleted') /\ deleted'[i].art = a
        BY <1>11, <3>1
      <4> QED BY <2>1, <4>1 DEF Arts
    <3>2. ASSUME r.art = a PROVE a \in Arts(deleted')
      <4>1. Len(deleted) + 1 \in 1..Len(deleted') /\ deleted'[Len(deleted) + 1].art = a
        BY <1>7, <1>11, <3>2
      <4> QED BY <2>1, <4>1 DEF Arts
    <3> QED BY <3>1, <3>2 DEF Arts
  <2>4. \A k : Has(pr[p], a, k) <=> r.art = a /\ r.kind = k
    BY <1>2, <1>3, <1>5, <1>6 DEF Has, Carries
  <2>5. \A k : ~Has(y, a, k)
    BY <1>9 DEF Has
  <2>6. body'[a] = IF r.art = a /\ body[a] = r.kind THEN "D" ELSE body[a]
    BY <1>5, <1>15, <2>1 DEF Renamed
  <2>7. CASE r.art = a /\ r.kind = "M"
    <3>1. Has(pr[p], a, "M") /\ ~Has(y, a, "M")
      BY <2>4, <2>5, <2>7
    <3>2. body[a] = "M" /\ Filed(dir, a, "M") = {} /\ One(Held(a, "M"))
      BY <2>1, <3>1, HeldBy, Cases
    <3>3. Held(a, "M")' = {}
      BY <1>9, <3>1, <3>2, Parts, HeldGone
    <3>4. body'[a] = "D"
      BY <2>6, <2>7, <3>2
    <3>5. Placed(a)'
      BY <1>5, <3>2, <3>3, <3>4 DEF Placed, None, Filed
    <3>6. Marked(a)'
      <4>1. RangeAtWork => RangeAtWork'
        BY <1>2, <1>5, <1>9, Parts, RangeStays
      <4>2. ~RangeAtWork' => Filed(dir', a, "D") = {}
        BY <1>5, <2>1, <4>1 DEF Kept, Marked
      <4> QED BY <4>2 DEF Marked, Filed
    <3>7. Findable(a)' /\ Wanted(a)'
      BY <1>5, <1>6, <2>1, <2>3, <2>7 DEF Findable, Wanted
    <3> QED BY <2>2, <3>5, <3>6, <3>7, KeptIs
  <2>8. CASE ~(r.art = a /\ r.kind = "M")
    <3>1. body'[a] = body[a]
      <4>1. r.art = a => r.kind = "D"
        BY <1>6, <2>1, <2>8 DEF Named
      <4> QED BY <2>6, <4>1
    <3>2. ~Has(pr[p], a, "M") /\ ~Has(y, a, "M") /\ (Has(pr[p], a, "D") => a \in Arts(deleted'))
      BY <2>3, <2>4, <2>5, <2>8
    <3>3. Alike(Filed(dir, a, "M"), Filed(dir', a, "M"))
      BY <1>5, AlikeSame
    <3>4. pr[p].pc # "rcut"
      BY <1>2, <1>5
    <3>5. a \in Arts(deleted) => a \in Arts(deleted')
      BY <2>3
    <3> QED BY <1>5, <1>9, <2>1, <2>2, <3>1, <3>2, <3>3, <3>4, <3>5, Others
  <2> QED BY <2>7, <2>8
<1> QED
  BY <1>1, <1>10, <1>13, <1>14, <1>16, Assembled

-----------------------------------------------------------------------------
(* Undeleting *)

LEMMA MoveKeeps ==
  ASSUME JInv, NEW p \in Procs, Move(p)
  PROVE  JInv'
<1>1. IInv'
  BY Parts, MoveStep
<1>2. PICK x : x = pr[p]
  OBVIOUS
<1>3. PICK o : o = x.rec
  OBVIOUS
<1>4. PICK r : r = [o EXCEPT !.kind = "M"]
  OBVIOUS
<1>5. /\ posted \in Nat /\ x \in Processes(posted) /\ o \in RecordsTo(posted)
  BY <1>2, <1>3, Parts, AtHand
<1>6. /\ x.pc = "move" /\ body' = Renamed(body, o, "M")
      /\ mixed' = IF body[o.art] = "D" THEN mixed ELSE mixed \cup {o.art}
      /\ pr' = [pr EXCEPT ![p].pc = "insert", ![p].rec.kind = "M"]
      /\ UNCHANGED <<dir, deleted, disorder, asked>>
  BY <1>2, <1>3 DEF Move
<1>7. Course(x) /\ x.op # "delete" /\ Proper(x, asked, mixed, disorder) /\ o \in Known
  BY <1>2, <1>3, <1>6, OnCourse, KnownRecords DEF Course
<1>8. r \in RecordsTo(posted) /\ r.id = o.id /\ r.art = o.art /\ r.kind = "M"
  <2>1. r.id = o.id /\ r.art = o.art /\ r \in RecordsTo(posted)
    BY <1>4, <1>5, KindSet
  <2>2. r.kind = "M"
    BY <1>4, <1>5 DEF RecordsTo
  <2> QED BY <2>1, <2>2
<1>9. PICK y : pr' = [pr EXCEPT ![p] = y] /\ y.pc = "insert" /\ y.op = x.op /\ y.rec = r
  BY <1>2, <1>3, <1>4, <1>6, KindMoves
<1>10. pr' = [pr EXCEPT ![p] = y]
  BY <1>9
<1>11. y.pc = "insert" /\ y.op = x.op /\ y.rec = r
  BY <1>9
<1>12. mixed \subseteq mixed'
  BY <1>6
<1>13. ProcsProper'
  <2>1. Course(y)
    BY <1>7, <1>8, <1>11 DEF Course
  <2>2. Proper(y, asked', mixed', disorder')
    BY <1>7, <1>8, <1>11, <2>1 DEF Proper, Named
  <2> QED BY <1>6, <1>10, <1>12, <2>2, Parts, ProperStep
<1>14. FilesNamed'
  BY <1>6, Parts DEF FilesNamed
<1>15. OneName'
  <2>1. Comes(y.rec, 0)
    BY <1>7, <1>8, <1>11 DEF Comes
  <2> QED BY <1>6, <1>10, <2>1, Parts, ComesFrame, OneNameProc
<1>16. posted' = posted /\ body \in Seq(Letters) /\ posted = Len(body)
  <2>1. body \in Seq(Letters) /\ "M" \in Letters
    BY Parts DEF Letters
  <2> QED BY <1>6, <2>1, RenamedType DEF posted
<1>17. Articles'
  <2> SUFFICES ASSUME NEW a \in 1..posted, a \notin mixed' PROVE Kept(a)'
    BY <1>16 DEF Articles
  <2>1. Kept(a) /\ a \in Nat /\ a # 0 /\ a \notin mixed
    BY <1>5, <1>12, Parts DEF Articles
  <2>2. \A k : ~Has(pr[p], a, k)
    BY <1>2, <1>6, <1>7 DEF Has, Carries
  <2>3. \A k : Has(y, a, k) <=> o.art = a /\ k = "M"
    BY <1>8, <1>11 DEF Has, Carries
  <2>4. Filed(deleted', a, "M") = {}
    BY <1>6, <2>1 DEF Kept
  <2>5. body'[a] = IF o.art = a /\ body[a] = o.kind THEN "M" ELSE body[a]
    BY <1>6, <1>16, <2>1 DEF Renamed
  <2>6. CASE o.art = a
    <3>1. body[a] = "D"
      BY <1>6, <2>6
    <3>2. o.kind = "D"
      BY <1>3, <1>6, <1>7, <2>1, <2>6 DEF Proper
    <3>3. body'[a] = "M"
      BY <2>5, <2>6, <3>1, <3>2
    <3>4. Filed(dir, a, "M") = {} /\ Held(a, "M") = {}
      BY <2>1, <3>1, Cases
    <3>5. One(Held(a, "M")')
      <4>1. Has(y, a, "M")
        BY <2>3, <2>6
      <4> QED BY <1>10, <3>4, <4>1, Parts, HeldComes
    <3>6. Placed(a)'
      BY <1>6, <3>3, <3>4, <3>5 DEF Placed, Single, Filed
    <3>7. Marked(a)'
      <4>1. RangeAtWork => RangeAtWork'
        BY <1>2, <1>6, <1>10, Parts, RangeStays
      <4>2. ~RangeAtWork' => Filed(dir', a, "D") = {}
        BY <1>6, <2>1, <4>1 DEF Kept, Marked
      <4> QED BY <4>2 DEF Marked, Filed
    <3>8. Findable(a)' /\ Wanted(a)'
      BY <3>3 DEF Findable, Wanted
    <3> QED BY <2>4, <3>6, <3>7, <3>8, KeptIs
  <2>7. CASE o.art # a
    <3>1. Alike(Filed(dir, a, "M"), Filed(dir', a, "M"))
      BY <1>6, AlikeSame
    <3>2. pr[p].pc # "rcut"
      BY <1>2, <1>6
    <3>3. body'[a] = body[a] /\ ~Has(y, a, "M")
      BY <2>3, <2>5, <2>7
    <3> QED BY <1>6, <1>10, <2>1, <2>2, <2>4, <3>1, <3>2, <3>3, Others
  <2> QED BY <2>6, <2>7
<1> QED
  BY <1>1, <1>13, <1>14, <1>15, <1>17, Assembled

LEMMA InsertKeeps ==
  ASSUME JInv, NEW p \in Procs, Insert(p)
  PROVE  JInv'
<1>1. IInv'
  BY Parts, InsertStep
<1>2. PICK x : x = pr[p]
  OBVIOUS
<1>3. PICK r : r = x.rec
  OBVIOUS
<1>4. PICK q : q = IF Renumbers(dir, r) THEN Renumbered(r) ELSE r
  OBVIOUS
<1>5. /\ posted \in Nat /\ nowid \in Nat /\ r \in RecordsTo(posted)
      /\ dir \in Seq(RecordsTo(posted))
  BY <1>2, <1>3, Parts, AtHand
<1>6. /\ x.pc = "insert" /\ dir' = Inserted(dir, r) /\ AfterDir(p, q, "blank")
      /\ UNCHANGED <<deleted, body, mixed, disorder, asked>>
  BY <1>2, <1>3, <1>4 DEF Insert, ghosts
<1>7. Course(x) /\ x.op # "delete" /\ r.kind = "M" /\ r \in Known
  BY <1>2, <1>3, <1>6, OnCourse, KnownRecords DEF Course
<1>8. /\ q.art = r.art /\ q.kind = "M"
      /\ q.id = r.id \/ q.id = nowid + 1
  <2>1. Renumbered(r).art = r.art /\ Renumbered(r).kind = r.kind /\ Renumbered(r).id = nowid + 1
    BY <1>5 DEF Renumbered, RecordsTo
  <2> QED BY <1>4, <1>7, <2>1
<1>9. PICK y : /\ pr' = [pr EXCEPT ![p] = y] /\ y.op = x.op /\ y.rec = q
               /\ y.pc = IF q.root THEN "origin" ELSE "blank"
  BY <1>2, <1>6, AfterDirMoves
<1>10. ~Carries(y)
  BY <1>7, <1>9 DEF Carries
<1>11. ProcsProper'
  <2>1. Course(y)
    BY <1>7, <1>9 DEF Course
  <2>2. Proper(y, asked', mixed', disorder')
    BY <1>7, <1>8, <1>9, <2>1 DEF Proper, Named
  <2> QED BY <1>6, <1>9, <2>2, Parts, ProperStep
<1>12. \A i \in 1..Len(dir') : dir'[i] = q \/ \E j \in 1..Len(dir) : dir'[i] = dir[j]
  BY <1>4, <1>5, <1>6, InsertedFrom
<1>13. FilesNamed'
  <2>1. Named(q)
    BY <1>8 DEF Named
  <2>2. \A l \in 1..Len(dir') : Named(dir'[l])
    BY <1>12, <2>1, PickedNamed
  <2>3. \A l \in 1..Len(deleted') : Named(deleted'[l])
    BY <1>6, PickedNamed
  <2> QED BY <2>2, <2>3 DEF FilesNamed, AllNamed, Named
<1>14. OneName'
  <2>1. PICK A : A = r.art
    OBVIOUS
  <2>2. Comes(q, A)
    BY <1>7, <1>8, <2>1 DEF Comes
  <2>3. \A j \in 1..Len(dir) : Comes(dir[j], A)
    BY KnownRecords, ComesOld
  <2>4. \A i \in 1..Len(dir') : Comes(dir'[i], A)
    BY <1>12, <2>2, <2>3
  <2>5. \A i \in 1..Len(deleted') : Comes(deleted'[i], A)
    BY <1>6, ComesFrame
  <2> QED BY <1>6, <1>9, <2>2, <2>4, <2>5, Parts, OneNameProc
<1>15. posted' = posted
  BY <1>6 DEF posted
<1>16. Articles'
  <2> SUFFICES ASSUME NEW a \in 1..posted, a \notin mixed PROVE Kept(a)'
    BY <1>6, <1>15 DEF Articles
  <2>1. Kept(a) /\ a \in Nat /\ a # 0
    BY <1>5, Parts DEF Articles
  <2>2. \A k : ~Has(y, a, k)
    BY <1>10 DEF Has
  <2>3. \A k : Has(pr[p], a, k) <=> r.art = a /\ k = "M"
    BY <1>2, <1>3, <1>6, <1>7 DEF Has, Carries
  <2>4. Filed(deleted', a, "M") = {}
    BY <1>6, <2>1 DEF Kept
  <2>5. PICK t : t = Inserted(dir, r)
    OBVIOUS
  <2>6. ASSUME NEW k \in {"M", "D"}
        PROVE  /\ ~(r.art = a /\ r.kind = k) =>
                    /\ Filed(dir, a, k) = {} => Filed(t, a, k) = {}
                    /\ Filed(dir, a, k) # {} => Filed(t, a, k) # {}
                    /\ One(Filed(dir, a, k)) => One(Filed(t, a, k))
               /\ r.art = a /\ r.kind = k /\ Filed(dir, a, k) = {} => One(Filed(t, a, k))
    <3>1. /\ ~(r.art = a /\ r.kind = k) =>
              /\ Filed(dir, a, k) = {} => Filed(Inserted(dir, r), a, k) = {}
              /\ Filed(dir, a, k) # {} => Filed(Inserted(dir, r), a, k) # {}
              /\ One(Filed(dir, a, k)) => One(Filed(Inserted(dir, r), a, k))
      BY <1>5, <2>1, FiledInserted
    <3>2. r.art = a /\ r.kind = k /\ Filed(dir, a, k) = {} => One(Filed(Inserted(dir, r), a, k))
      BY <1>5, <2>1, FiledInserted
    <3> QED BY <2>5, <3>1, <3>2
  <2>7. dir' = t
    BY <1>6, <2>5
  <2>8. /\ Filed(dir, a, "D") = {} => Filed(dir', a, "D") = {}
        /\ Filed(dir, a, "D") # {} => Filed(dir', a, "D") # {}
    BY <1>7, <2>6, <2>7
  <2>9. CASE r.art # a
    <3>1. Alike(Filed(dir, a, "M"), Filed(dir', a, "M"))
      BY <2>6, <2>7, <2>9 DEF Alike
    <3>2. ~Has(y, a, "M") /\ ~Has(pr[p], a, "M") /\ ~Has(pr[p], a, "D")
      BY <2>2, <2>3, <2>9
    <3>3. pr[p].pc # "rcut"
      BY <1>2, <1>6
    <3> QED BY <1>6, <1>9, <2>1, <2>4, <2>8, <3>1, <3>2, <3>3, Others
  <2>10. CASE r.art = a
    <3>1. Has(pr[p], a, "M") /\ ~Has(y, a, "M")
      BY <2>2, <2>3, <2>10
    <3>2. body[a] = "M" /\ Filed(dir, a, "M") = {} /\ One(Held(a, "M"))
      BY <2>1, <3>1, HeldBy, Cases
    <3>3. Held(a, "M")' = {}
      BY <1>9, <3>1, <3>2, Parts, HeldGone
    <3>4. One(Filed(dir', a, "M"))
      BY <1>7, <2>6, <2>7, <2>10, <3>2
    <3>5. body'[a] = "M"
      BY <1>6, <3>2
    <3>6. Placed(a)'
      BY <3>3, <3>4, <3>5 DEF Placed, Single, Filed
    <3>7. Marked(a)'
      <4>1. RangeAtWork => RangeAtWork'
        BY <1>2, <1>6, <1>9, Parts, RangeStays
      <4>2. ~RangeAtWork' => Filed(dir', a, "D") = {}
        BY <2>1, <2>8, <4>1 DEF Kept, Marked
      <4> QED BY <4>2 DEF Marked, Filed
    <3>8. Findable(a)' /\ Wanted(a)'
      BY <3>5 DEF Findable, Wanted
    <3> QED BY <2>4, <3>6, <3>7, <3>8, KeptIs
  <2> QED BY <2>9, <2>10
<1> QED
  BY <1>1, <1>11, <1>13, <1>14, <1>16, Assembled

LEMMA BlankKeeps ==
  ASSUME JInv, NEW p \in Procs, Blank(p)
  PROVE  JInv'
<1>1. IInv'
  BY Parts, BlankStep
<1>2. PICK x : x = pr[p]
  OBVIOUS
<1>3. PICK e : e = x.ent
  OBVIOUS
<1>4. /\ posted \in Nat /\ e \in Nat /\ deleted \in Seq(RecordsTo(posted)) /\ Len(deleted) \in Nat
      /\ Zero \in RecordsTo(posted) /\ Zero.art = 0 /\ Named(Zero)
  <2>1. Zero.art = 0 /\ Named(Zero)
    BY DEF Zero, Named
  <2> QED BY <1>2, <1>3, <2>1, Parts, AtHand, ProcessIs, ZeroRecord
<1>5. PICK v : v = View(deleted, e)[e]
  OBVIOUS
<1>6. /\ x.pc = "blank" /\ deleted' = substitute_record(deleted, e, Zero) /\ Done(p)
      /\ mixed' = mixed \cup {b \in Arts(<<v>>) : body[b] = "D"}
      /\ UNCHANGED <<dir, body, disorder, asked>>
  BY <1>2, <1>3, <1>5 DEF Blank
<1>7. Course(x) /\ ~Carries(x)
  BY <1>2, <1>6, OnCourse DEF Course, Carries
<1>8. PICK y : y = Idle
  OBVIOUS
<1>9. pr' = [pr EXCEPT ![p] = y] /\ ~Carries(y) /\ y.rec.art = 0
  BY <1>6, <1>8, IdleProper DEF Done
<1>10. mixed \subseteq mixed'
  BY <1>6
<1>11. ProcsProper'
  <2>1. Proper(y, asked', mixed', disorder')
    BY <1>8, IdleProper
  <2> QED BY <1>6, <1>9, <1>10, <2>1, Parts, ProperStep
<1>12. Written(deleted', deleted, e, Zero)
  BY <1>4, <1>6, SubstituteIs
<1>13. /\ Len(deleted') \in Nat /\ Len(deleted') >= Len(deleted)
       /\ \A i \in 1..Len(deleted') :
            i # e => deleted'[i] = IF i <= Len(deleted) THEN deleted[i] ELSE Zero
       /\ \A i \in 1..Len(deleted') : i = e => deleted'[i] = Zero
  BY <1>12 DEF Written
<1>14. \A i \in 1..Len(deleted') :
         deleted'[i] = Zero \/ \E j \in 1..Len(deleted) : deleted'[i] = deleted[j]
  <2> SUFFICES ASSUME NEW i \in 1..Len(deleted')
               PROVE  deleted'[i] = Zero \/ \E j \in 1..Len(deleted) : deleted'[i] = deleted[j]
    OBVIOUS
  <2>1. i <= Len(deleted) => i \in 1..Len(deleted)
    BY <1>4, <1>13
  <2> QED BY <1>13, <2>1
<1>15. FilesNamed'
  <2>1. \A l \in 1..Len(dir') : Named(dir'[l])
    BY <1>6, PickedNamed
  <2>2. \A l \in 1..Len(deleted') : Named(deleted'[l])
    BY <1>4, <1>14, PickedNamed
  <2> QED BY <2>1, <2>2 DEF FilesNamed, AllNamed, Named
<1>16. OneName'
  <2>1. Comes(Zero, 0) /\ Comes(y.rec, 0)
    BY <1>4, <1>9 DEF Comes
  <2>2. \A m \in 1..Len(deleted) : Comes(deleted[m], 0)
    BY KnownRecords, ComesOld
  <2>3. \A l \in 1..Len(deleted') : Comes(deleted'[l], 0)
    BY <1>14, <2>1, <2>2
  <2>4. \A l \in 1..Len(dir') : Comes(dir'[l], 0)
    BY <1>6, ComesFrame
  <2> QED BY <1>6, <1>9, <2>1, <2>3, <2>4, Parts, OneNameProc
<1>17. posted' = posted
  BY <1>6 DEF posted
<1>18. Articles'
  <2> SUFFICES ASSUME NEW a \in 1..posted, a \notin mixed' PROVE Kept(a)'
    BY <1>17 DEF Articles
  <2>1. Kept(a) /\ a \in Nat /\ a # 0
    BY <1>4, <1>10, Parts DEF Articles
  <2>2. Filed(deleted', a, "M") = {}
    <3>1. Filed(deleted, a, "M") = {}
      BY <2>1 DEF Kept
    <3>2. \A i \in 1..Len(deleted) : ~(deleted[i].art = a /\ deleted[i].kind = "M")
      BY <3>1 DEF Filed
    <3>3. \A i \in 1..Len(deleted') : ~(deleted'[i].art = a /\ deleted'[i].kind = "M")
      BY <1>4, <1>14, <2>1, <3>2
    <3> QED BY <3>3 DEF Filed
  <2>3. body[a] = "D" /\ a \in Arts(deleted) => a \in Arts(deleted')
    <3> SUFFICES ASSUME body[a] = "D", NEW i \in 1..Len(deleted), deleted[i].art = a
                 PROVE  a \in Arts(deleted')
      BY DEF Arts
    <3>1. i # e
      <4> SUFFICES ASSUME i = e PROVE FALSE
        OBVIOUS
      <4>1. e \in 1..e /\ e <= Len(deleted)
        BY <1>4
      <4>2. v = deleted[e]
        BY <1>5, <4>1 DEF View
      <4>3. v.art = a
        BY <4>2
      <4>4. Len(<<v>>) = 1 /\ <<v>>[1].art = a
        BY <4>3
      <4>5. a \in Arts(<<v>>)
        BY <2>1, <4>4 DEF Arts
      <4> QED BY <1>6, <4>5
    <3>2. i \in 1..Len(deleted') /\ deleted'[i] = deleted[i]
      BY <1>4, <1>13, <3>1
    <3> QED BY <2>1, <3>2 DEF Arts
  <2>4. \A k : ~Has(pr[p], a, k) /\ ~Has(y, a, k)
    BY <1>2, <1>7, <1>9 DEF Has
  <2>5. Alike(Filed(dir, a, "M"), Filed(dir', a, "M"))
    BY <1>6, AlikeSame
  <2>6. pr[p].pc # "rcut"
    BY <1>2, <1>6
  <2> QED BY <1>6, <1>9, <2>1, <2>2, <2>3, <2>4, <2>5, <2>6, Others
<1> QED
  BY <1>1, <1>11, <1>15, <1>16, <1>18, Assembled

-----------------------------------------------------------------------------
(* Editing a title *)

LEMMA WriteKeeps ==
  ASSUME JInv, NEW p \in Procs, Write(p)
  PROVE  JInv'
<1>1. IInv'
  BY Parts, WriteStep
<1>2. PICK x : x = pr[p]
  OBVIOUS
<1>3. PICK r : r = x.rec
  OBVIOUS
<1>4. PICK e : e = x.ent
  OBVIOUS
<1>5. PICK v : v = View(dir, e)[e]
  OBVIOUS
<1>6. /\ x.pc = "write" /\ dir' = substitute_record(dir, e, r)
      /\ mixed' = IF v # r THEN mixed \cup {r.art, v.art} ELSE mixed
      /\ disorder' = (disorder \/ v # r)
      /\ IF r.root THEN AfterDir(p, r, "idle") ELSE Done(p)
      /\ UNCHANGED <<deleted, body, asked>>
  BY <1>2, <1>3, <1>4, <1>5 DEF Write
<1>7. /\ posted \in Nat /\ r \in RecordsTo(posted) /\ e \in Nat /\ e > 0 /\ r.art # 0
      /\ dir \in Seq(RecordsTo(posted)) /\ Len(dir) \in Nat
  <2>1. posted \in Nat /\ x \in Processes(posted) /\ dir \in Seq(RecordsTo(posted))
    BY <1>2, Parts, AtHand
  <2>2. Ready(x.pc, x.rec.art, x.ent, x.to, x.size) /\ x.ent \in Nat /\ x.rec \in RecordsTo(posted)
    BY <2>1, ProcessIs
  <2> QED BY <1>3, <1>4, <1>6, <2>1, <2>2 DEF Ready
<1>8. Course(x) /\ x.op # "delete" /\ Named(r) /\ r \in Known /\ ~Carries(x)
  BY <1>2, <1>3, <1>6, OnCourse, KnownRecords DEF Course, Carries
<1>9. disorder => disorder'
  BY <1>6, Zenon
<1>10. mixed \subseteq mixed'
  BY <1>6
<1>11. PICK y : /\ pr' = [pr EXCEPT ![p] = y]
                /\ y = Idle \/ (y.pc = "origin" /\ y.op = x.op /\ y.rec = r)
  <2>1. CASE r.root
    <3>1. PICK y : /\ pr' = [pr EXCEPT ![p] = y] /\ y.op = pr[p].op /\ y.rec = r
                   /\ y.pc = IF r.root THEN "origin" ELSE "idle"
      BY <1>6, <2>1, AfterDirMoves
    <3> QED BY <1>2, <2>1, <3>1
  <2>2. CASE ~r.root
    BY <1>6, <2>2 DEF Done
  <2> QED BY <2>1, <2>2
<1>12. ~Carries(y)
  <2>1. ~Carries(Idle)
    BY IdleProper
  <2> QED BY <1>8, <1>11, <2>1 DEF Carries
<1>13. ProcsProper'
  <2>1. CASE y = Idle
    <3>1. Proper(y, asked', mixed', disorder')
      BY <2>1, IdleProper
    <3> QED BY <1>6, <1>9, <1>10, <1>11, <3>1, Parts, ProperStep
  <2>2. CASE y.pc = "origin" /\ y.op = x.op /\ y.rec = r
    <3>1. Course(y)
      BY <1>8, <2>2 DEF Course
    <3>2. Proper(y, asked', mixed', disorder')
      BY <1>8, <2>2, <3>1 DEF Proper
    <3> QED BY <1>6, <1>9, <1>10, <1>11, <3>2, Parts, ProperStep
  <2> QED BY <1>11, <2>1, <2>2
<1>14. Zero.art = 0 /\ Named(Zero)
  BY DEF Zero, Named
<1>15. \A i \in 1..Len(dir') : \/ dir'[i] = r \/ dir'[i] = Zero
                              \/ \E j \in 1..Len(dir) : dir'[i] = dir[j]
  <2>1. Written(dir', dir, e, r)
    BY <1>6, <1>7, SubstituteIs
  <2> SUFFICES ASSUME NEW i \in 1..Len(dir')
               PROVE  \/ dir'[i] = r \/ dir'[i] = Zero
                      \/ \E j \in 1..Len(dir) : dir'[i] = dir[j]
    OBVIOUS
  <2>2. dir'[i] = IF i = e THEN r ELSE IF i <= Len(dir) THEN dir[i] ELSE Zero
    BY <2>1 DEF Written
  <2>3. i <= Len(dir) => i \in 1..Len(dir)
    BY <1>7
  <2> QED BY <2>2, <2>3
<1>16. FilesNamed'
  <2>1. \A l \in 1..Len(dir') : Named(dir'[l])
    BY <1>8, <1>14, <1>15, PickedNamed
  <2>2. \A l \in 1..Len(deleted') : Named(deleted'[l])
    BY <1>6, PickedNamed
  <2> QED BY <2>1, <2>2 DEF FilesNamed, AllNamed, Named
<1>17. OneName'
  <2>1. Comes(Zero, 0) /\ Comes(r, 0)
    BY <1>8, <1>14, ComesOld DEF Comes
  <2>2. \A m \in 1..Len(dir) : Comes(dir[m], 0)
    BY KnownRecords, ComesOld
  <2>3. \A l \in 1..Len(dir') : Comes(dir'[l], 0)
    BY <1>15, <2>1, <2>2
  <2>4. Comes(Idle.rec, 0)
    BY IdleProper DEF Comes
  <2>5. Comes(y.rec, 0)
    BY <1>11, <2>1, <2>4
  <2>6. \A l \in 1..Len(deleted') : Comes(deleted'[l], 0)
    BY <1>6, ComesFrame
  <2> QED BY <1>9, <1>11, <2>3, <2>5, <2>6, Parts, OneNameProc
<1>18. posted' = posted
  BY <1>6 DEF posted
<1>19. Articles'
  <2> SUFFICES ASSUME NEW a \in 1..posted, a \notin mixed' PROVE Kept(a)'
    BY <1>18 DEF Articles
  <2>1. Kept(a) /\ a \in Nat /\ a # 0
    BY <1>7, <1>10, Parts DEF Articles
  <2>2. v = r \/ (r.art # a /\ v.art # a)
    BY <1>6
  <2>3. ASSUME NEW k \in {"M", "D"} PROVE Filed(dir', a, k) = Filed(dir, a, k)
    <3>1. Filed(substitute_record(dir, e, r), a, k) = Filed(dir, a, k)
      BY <1>5, <1>7, <2>1, <2>2, FiledWritten
    <3> QED BY <1>6, <3>1
  <2>4. Filed(deleted', a, "M") = {} /\ body'[a] = body[a]
    BY <1>6, <2>1 DEF Kept
  <2>5. \A k : ~Has(pr[p], a, k) /\ ~Has(y, a, k)
    BY <1>2, <1>8, <1>12 DEF Has
  <2>6. Filed(dir', a, "D") = Filed(dir, a, "D")
    BY <2>3
  <2>7. Alike(Filed(dir, a, "M"), Filed(dir', a, "M"))
    BY <2>3, AlikeSame
  <2>8. pr[p].pc # "rcut"
    BY <1>2, <1>6
  <2> QED BY <1>6, <1>9, <1>11, <2>1, <2>4, <2>5, <2>6, <2>7, <2>8, Others
<1> QED
  BY <1>1, <1>13, <1>16, <1>17, <1>19, Assembled

-----------------------------------------------------------------------------
(* Deleting a range *)

LEMMA MoveRangeKeeps ==
  ASSUME JInv, NEW p \in Procs, MoveRange(p)
  PROVE  JInv'
<1>1. IInv'
  BY Parts, MoveRangeStep
<1>2. /\ posted \in Nat /\ dir \in Seq(RecordsTo(posted)) /\ Len(dir) \in Nat
      /\ posted = Len(body)
  BY Parts
<1>3. /\ pr[p].pc = "rmove" /\ ~RangeAtWork
      /\ body' = [a \in 1..posted |->
            IF \E i \in 1..Len(dir) : InRange(p, i) /\ dir[i].art = a /\ dir[i].kind = body[a]
            THEN "D" ELSE body[a]]
      /\ dir' = [i \in 1..Len(dir) |->
            IF InRange(p, i) /\ dir[i].art # 0 THEN [dir[i] EXCEPT !.kind = "D"] ELSE dir[i]]
      /\ mixed' = mixed \cup ({dir[i].art : i \in {k \in 1..Len(dir) : InRange(p, k)}} \ asked)
      /\ Goto(p, "rcut") /\ UNCHANGED <<deleted, disorder, asked>>
  BY DEF MoveRange, RangeAtWork, Locked
<1>4. PICK y : pr' = [pr EXCEPT ![p] = y] /\ y.pc = "rcut" /\ y.op = pr[p].op /\ y.rec = pr[p].rec
  <2>1. Moves(p, "rcut")
    BY <1>3, GotoMoves
  <2> QED BY <2>1 DEF Moves
<1>5. /\ Course(pr[p]) /\ pr[p].op # "delete" /\ Named(pr[p].rec) /\ pr[p].rec \in Known
  BY <1>3, OnCourse, KnownRecords DEF Course
<1>6. ~Carries(pr[p]) /\ ~Carries(y)
  BY <1>3, <1>4, <1>5 DEF Carries
<1>7. mixed \subseteq mixed'
  BY <1>3
<1>8. ProcsProper'
  <2>1. Course(y)
    BY <1>4, <1>5 DEF Course
  <2>2. Proper(y, asked', mixed', disorder')
    BY <1>4, <1>5, <2>1 DEF Proper
  <2> QED BY <1>3, <1>4, <1>7, <2>2, Parts, ProperStep
<1>9. Len(dir') = Len(dir)
      /\ \A i \in 1..Len(dir) :
           /\ dir'[i].art = dir[i].art /\ dir'[i].id = dir[i].id
           /\ dir'[i].kind = IF InRange(p, i) /\ dir[i].art # 0 THEN "D" ELSE dir[i].kind
  <2> DEFINE C(i) == InRange(p, i) /\ dir[i].art # 0
             new(i) == IF C(i) THEN [dir[i] EXCEPT !.kind = "D"] ELSE dir[i]
  <2>1. dir' = [i \in 1..Len(dir) |-> new(i)]
    BY <1>3
  <2>2. ASSUME NEW i \in 1..Len(dir)
        PROVE  /\ new(i).art = dir[i].art /\ new(i).id = dir[i].id
               /\ new(i).kind = IF C(i) THEN "D" ELSE dir[i].kind
    <3>1. PICK r \in RecordsTo(posted) : r = dir[i]
      BY <1>2
    <3>2. /\ [r EXCEPT !.kind = "D"].art = r.art /\ [r EXCEPT !.kind = "D"].id = r.id
          /\ [r EXCEPT !.kind = "D"].kind = "D"
      BY <3>1 DEF RecordsTo
    <3> HIDE DEF C
    <3> QED BY <3>1, <3>2
  <2>3. DOMAIN dir' = 1..Len(dir)
    BY <2>1
  <2>4. dir' \in Seq(RecordsTo(posted'))
    BY <1>1 DEF IInv, FilesOK
  <2>5. Len(dir') = Len(dir)
    BY <1>2, <2>3, <2>4
  <2>6. \A i \in 1..Len(dir) : dir'[i] = new(i)
    BY <2>1
  <2> HIDE DEF new
  <2>7. \A i \in 1..Len(dir) : /\ dir'[i].art = dir[i].art /\ dir'[i].id = dir[i].id
                               /\ dir'[i].kind = IF C(i) THEN "D" ELSE dir[i].kind
    BY <2>2, <2>6
  <2> QED BY <2>5, <2>7
<1>10. FilesNamed'
  <2>1. \A l \in 1..Len(dir') : Named(dir'[l])
    BY <1>9, PickedNamed DEF Named
  <2>2. \A l \in 1..Len(deleted') : Named(deleted'[l])
    BY <1>3, PickedNamed
  <2> QED BY <2>1, <2>2 DEF FilesNamed, AllNamed, Named
<1>11. OneName'
  <2>1. \A l \in 1..Len(dir') : Comes(dir'[l], 0)
    BY <1>9, KnownRecords DEF Comes
  <2>2. Comes(y.rec, 0)
    BY <1>4, <1>5, ComesOld
  <2>3. \A l \in 1..Len(deleted') : Comes(deleted'[l], 0)
    BY <1>3, ComesFrame
  <2> QED BY <1>3, <1>4, <2>1, <2>2, <2>3, Parts, OneNameProc
<1>12. posted' = posted
  <2>1. DOMAIN body' = 1..posted
    BY <1>3
  <2>2. body' \in Seq(Letters)
    BY <1>1 DEF IInv, FilesOK
  <2> QED BY <1>2, <2>1, <2>2 DEF posted
<1>13. RangeAtWork'
  <2>1. pr'[p].pc = "rcut"
    BY <1>4, Parts DEF ProcsOK
  <2> QED BY <2>1 DEF RangeAtWork
<1>14. Articles'
  <2> SUFFICES ASSUME NEW a \in 1..posted, a \notin mixed' PROVE Kept(a)'
    BY <1>12 DEF Articles
  <2>1. Kept(a) /\ a \in Nat /\ a # 0
    BY <1>2, <1>7, Parts DEF Articles
  <2>2. Filed(dir, a, "D") = {}
    BY <1>3, <2>1 DEF Kept, Marked
  <2>3. \A k : ~Has(pr[p], a, k) /\ ~Has(y, a, k)
    BY <1>6 DEF Has
  <2>4. Filed(deleted', a, "M") = {}
    BY <1>3, <2>1 DEF Kept
  <2>5. body'[a] = IF \E i \in 1..Len(dir) : InRange(p, i) /\ dir[i].art = a /\ dir[i].kind = body[a]
                   THEN "D" ELSE body[a]
    BY <1>3
  <2>6. ASSUME NEW i \in 1..Len(dir), InRange(p, i), dir[i].art = a PROVE Kept(a)'
    <3>1. dir[i].kind = "M"
      <4>1. dir[i].kind \in {"M", "D"}
        BY <2>1, <2>6, PickedNamed DEF Named
      <4>2. dir[i].kind # "D"
        BY <2>2, <2>6 DEF Filed
      <4> QED BY <4>1, <4>2
    <3>2. i \in Filed(dir, a, "M")
      BY <2>6, <3>1 DEF Filed
    <3>3. body[a] = "M" /\ Filed(dir, a, "M") = {i} /\ Held(a, "M") = {}
      BY <2>1, <3>2, Cases DEF One
    <3>4. body'[a] = "D"
      BY <2>5, <2>6, <3>1, <3>3
    <3>5. Filed(dir', a, "M") = {}
      <4> SUFFICES ASSUME NEW j \in 1..Len(dir), dir'[j].art = a, dir'[j].kind = "M" PROVE FALSE
        BY <1>9 DEF Filed
      <4>1. dir[j].art = a /\ dir[j].kind = "M" /\ ~InRange(p, j)
        BY <1>9, <2>1
      <4>2. j \in Filed(dir, a, "M")
        BY <4>1 DEF Filed
      <4> QED BY <2>6, <3>3, <4>1, <4>2
    <3>6. Filed(dir', a, "D") # {}
      <4>1. i \in 1..Len(dir') /\ dir'[i].art = a /\ dir'[i].kind = "D"
        BY <1>9, <2>1, <2>6
      <4> QED BY <4>1 DEF Filed
    <3>7. Held(a, "M")' = {}
      <4>1. Has(y, a, "M") <=> Has(pr[p], a, "M")
        BY <2>3
      <4>2. ProcsOK
        BY Parts
      <4>3. \A q : q \in Held(a, "M")' <=> q \in Held(a, "M")
        BY <1>4, <4>1, <4>2, HeldSame
      <4> QED BY <3>3, <4>3
    <3>8. Placed(a)'
      BY <3>4, <3>5, <3>7 DEF Placed, None, Filed
    <3>9. Marked(a)'
      BY <1>13 DEF Marked
    <3>10. Findable(a)'
      BY <3>6 DEF Findable, Filed
    <3>11. Wanted(a)'
      <4>1. a \in asked
        BY <1>3, <2>6
      <4> QED BY <1>3, <4>1 DEF Wanted
    <3> QED BY <2>4, <3>8, <3>9, <3>10, <3>11, KeptIs
  <2>7. ASSUME \A i \in 1..Len(dir) : ~(InRange(p, i) /\ dir[i].art = a) PROVE Kept(a)'
    <3>1. body'[a] = body[a]
      BY <2>5, <2>7
    <3>2. \A i \in 1..Len(dir) : dir[i].art = a => dir'[i].kind = dir[i].kind
      BY <1>9, <2>7
    <3>3. \A k : Filed(dir', a, k) = Filed(dir, a, k)
      BY <1>9, <3>2 DEF Filed
    <3>4. Alike(Filed(dir, a, "M"), Filed(dir', a, "M"))
      BY <3>3, AlikeSame
    <3>5. Filed(dir', a, "D") = Filed(dir, a, "D")
      BY <3>3
    <3>6. pr[p].pc # "rcut"
      BY <1>3
    <3> QED BY <1>3, <1>4, <2>1, <2>3, <2>4, <3>1, <3>4, <3>5, <3>6, Others
  <2> QED BY <2>6, <2>7
<1> QED
  BY <1>1, <1>8, <1>10, <1>11, <1>14, Assembled

LEMMA CutRangeKeeps ==
  ASSUME JInv, NEW p \in Procs, CutRange(p)
  PROVE  JInv'
<1>1. IInv'
  BY Parts, CutRangeStep
<1>2. PICK n : n = pr[p].size
  OBVIOUS
<1>3. PICK i : i = pr[p].ent
  OBVIOUS
<1>4. PICK j : j = pr[p].to
  OBVIOUS
<1>5. PICK v : v = View(dir, n)
  OBVIOUS
<1>6. PICK u : u = SubSeq(v, i, j)
  OBVIOUS
<1>7. PICK C : C = {v[l].art : l \in {k \in 1..n : InRange(p, k) # (v[k].kind = "D")}}
  OBVIOUS
<1>8. /\ pr[p].pc = "rcut" /\ dir' = Removed(dir, n, i, j) /\ deleted' = deleted \o u
      /\ mixed' = mixed \cup Arts(SubSeq(dir, n + 1, Len(dir))) \cup C
      /\ disorder' = (disorder \/ n > Len(dir)) /\ Goto(p, "flag") /\ UNCHANGED <<body, asked>>
  BY <1>2, <1>3, <1>4, <1>5, <1>6, <1>7 DEF CutRange
<1>9. /\ posted \in Nat /\ n \in Nat /\ i \in 1..n /\ j \in i..n
      /\ dir \in Seq(RecordsTo(posted)) /\ deleted \in Seq(RecordsTo(posted))
      /\ Len(dir) \in Nat /\ Len(deleted) \in Nat
  <2>1. posted \in Nat /\ pr[p] \in Processes(posted)
    BY Parts, AtHand
  <2>2. n \in Nat /\ i \in Nat /\ j \in Nat /\ 1 <= i /\ i <= j /\ j <= n
    BY <1>2, <1>3, <1>4, <1>8, <2>1, ProcessIs DEF Ready
  <2> QED BY <2>1, <2>2, Parts
<1>10. disorder => disorder'
  BY <1>8, Zenon
<1>11. mixed \subseteq mixed'
  BY <1>8
<1>12. /\ Course(pr[p]) /\ ~Carries(pr[p]) /\ pr[p].op # "delete" /\ Named(pr[p].rec)
       /\ pr[p].rec \in Known
  BY <1>8, OnCourse, KnownRecords DEF Course, Carries
<1>13. PICK y : pr' = [pr EXCEPT ![p] = y] /\ y.pc = "flag" /\ y.op = pr[p].op /\ y.rec = pr[p].rec
  <2>1. Moves(p, "flag")
    BY <1>8, GotoMoves
  <2> QED BY <2>1 DEF Moves
<1>14. pr' = [pr EXCEPT ![p] = y] /\ ~Carries(y) /\ Comes(y.rec, 0)
  <2>1. Comes(y.rec, 0)
    BY <1>12, <1>13, ComesOld
  <2> QED BY <1>12, <1>13, <2>1 DEF Carries
<1>15. ProcsProper'
  <2>1. Proper(y, asked', mixed', disorder')
    BY <1>12, <1>13 DEF Proper, Course
  <2> QED BY <1>8, <1>10, <1>11, <1>14, <2>1, Parts, ProperStep
<1>16. Zero.art = 0 /\ Named(Zero)
  BY DEF Zero, Named
<1>17. /\ v \in Seq(RecordsTo(posted)) /\ Len(v) = n
       /\ \A k \in 1..n : v[k] = IF k <= Len(dir) THEN dir[k] ELSE Zero
  <2>1. \A k \in 1..n : v[k] = IF k <= Len(dir) THEN dir[k] ELSE Zero
    BY <1>5 DEF View
  <2> QED BY <1>5, <1>9, <2>1, ViewDef
<1>18. /\ u \in Seq(RecordsTo(posted)) /\ Len(u) = j-i+1
       /\ \A k \in 1..Len(u) : u[k] = v[i+k-1]
  BY <1>6, <1>9, <1>17
<1>19. /\ Len(deleted') = Len(deleted) + Len(u)
       /\ \A k \in 1..Len(deleted) + Len(u) :
            deleted'[k] = IF k <= Len(deleted) THEN deleted[k] ELSE u[k - Len(deleted)]
  BY <1>8, <1>9, <1>18, ConcatProperties
\* What is in .DELETED was there, or was in the range.
<1>20. ASSUME NEW k \in 1..Len(deleted')
       PROVE  \/ \E l \in 1..Len(deleted) : deleted'[k] = deleted[l]
              \/ \E l \in i..j : deleted'[k] = v[l]
  <2>1. CASE k <= Len(deleted)
    <3>1. k \in 1..Len(deleted) /\ k \in 1..Len(deleted) + Len(u)
      BY <1>9, <1>19, <2>1
    <3>2. deleted'[k] = deleted[k]
      BY <1>19, <2>1, <3>1
    <3> QED BY <3>1, <3>2
  <2>2. CASE ~(k <= Len(deleted))
    <3>1. PICK m : m = k - Len(deleted)
      OBVIOUS
    <3>2. m \in 1..Len(u) /\ deleted'[k] = u[m]
      BY <1>9, <1>18, <1>19, <2>2, <3>1
    <3>3. i+m-1 \in i..j /\ u[m] = v[i+m-1]
      BY <1>9, <1>18, <3>2
    <3> QED BY <3>2, <3>3
  <2> QED BY <2>1, <2>2
<1>21. /\ \A l \in 1..Len(deleted) : \E k \in 1..Len(deleted') : deleted'[k] = deleted[l]
       /\ \A l \in i..j : \E k \in 1..Len(deleted') : deleted'[k] = v[l]
  <2>1. ASSUME NEW l \in 1..Len(deleted) PROVE \E k \in 1..Len(deleted') : deleted'[k] = deleted[l]
    <3>1. l \in 1..Len(deleted') /\ deleted'[l] = deleted[l]
      BY <1>9, <1>18, <1>19
    <3> QED BY <3>1
  <2>2. ASSUME NEW l \in i..j PROVE \E k \in 1..Len(deleted') : deleted'[k] = v[l]
    <3>1. PICK m : m = l-i+1
      OBVIOUS
    <3>2. m \in 1..Len(u) /\ i+m-1 = l
      BY <1>9, <1>18, <3>1
    <3>3. PICK k : k = Len(deleted) + m
      OBVIOUS
    <3>4. k \in 1..Len(deleted) + Len(u) /\ ~(k <= Len(deleted)) /\ k - Len(deleted) = m
      BY <1>9, <1>18, <3>2, <3>3
    <3>5. k \in 1..Len(deleted') /\ deleted'[k] = u[m]
      BY <1>19, <3>4
    <3>6. u[m] = v[l]
      BY <1>18, <3>2
    <3> QED BY <3>5, <3>6
  <2> QED BY <2>1, <2>2
<1>22. \A l \in 1..n : Named(v[l]) /\ Comes(v[l], 0)
  <2> SUFFICES ASSUME NEW l \in 1..n PROVE Named(v[l]) /\ Comes(v[l], 0)
    OBVIOUS
  <2>1. CASE l <= Len(dir)
    <3>1. l \in 1..Len(dir) /\ v[l] = dir[l]
      BY <1>9, <1>17, <2>1
    <3> QED BY <3>1, PickedNamed, ComesOld
  <2>2. CASE ~(l <= Len(dir))
    <3>1. v[l] = Zero
      BY <1>17, <2>2
    <3> QED BY <1>16, <3>1 DEF Comes
  <2> QED BY <2>1, <2>2
<1>23. \A l \in i..j : l \in 1..n
  BY <1>9
<1>24. \A l \in 1..Len(dir') : dir'[l] = Zero \/ \E m \in 1..Len(dir) : dir'[l] = dir[m]
  BY <1>8, <1>9, RemovedFrom
<1>25. FilesNamed'
  <2>1. \A l \in 1..Len(dir') : Named(dir'[l])
    BY <1>16, <1>24, PickedNamed
  <2>2. \A l \in 1..Len(deleted') : Named(deleted'[l])
    BY <1>20, <1>22, <1>23, PickedNamed
  <2> QED BY <2>1, <2>2 DEF FilesNamed, AllNamed, Named
<1>26. OneName'
  <2>1. Comes(Zero, 0) /\ Comes(y.rec, 0)
    BY <1>14, <1>16 DEF Comes
  <2>2. /\ \A m \in 1..Len(dir) : Comes(dir[m], 0)
        /\ \A m \in 1..Len(deleted) : Comes(deleted[m], 0)
    BY KnownRecords, ComesOld
  <2>3. \A l \in 1..Len(dir') : Comes(dir'[l], 0)
    BY <1>24, <2>1, <2>2
  <2>4. \A l \in 1..Len(deleted') : Comes(deleted'[l], 0)
    BY <1>20, <1>22, <1>23, <2>2
  <2> QED BY <1>10, <1>14, <2>1, <2>3, <2>4, Parts, OneNameProc
<1>27. posted' = posted
  BY <1>8 DEF posted
<1>28. Articles'
  <2> SUFFICES ASSUME NEW a \in 1..posted, a \notin mixed' PROVE Kept(a)'
    BY <1>27 DEF Articles
  <2>1. a \notin mixed /\ a \notin Arts(SubSeq(dir, n + 1, Len(dir))) /\ a \notin C
    BY <1>8
  <2>2. Kept(a) /\ a \in Nat /\ a # 0
    BY <1>9, <2>1, Parts DEF Articles
  <2>3. \A l \in 1..n : v[l].art = a => (l \in i..j <=> v[l].kind = "D")
    <3> SUFFICES ASSUME NEW l \in 1..n, v[l].art = a PROVE l \in i..j <=> v[l].kind = "D"
      OBVIOUS
    <3>1. InRange(p, l) <=> l \in i..j
      BY <1>3, <1>4, <1>9 DEF InRange
    <3>2. InRange(p, l) \in BOOLEAN
      BY DEF InRange
    <3>3. InRange(p, l) = (v[l].kind = "D")
      BY <1>7, <2>1
    <3> QED BY <3>1, <3>2, <3>3
  <2>4. ASSUME NEW k \in {"M", "D"}
        PROVE  /\ \A f \in Filed(dir, a, k) : f <= n
               /\ Spared(Filed(dir, a, k), Filed(dir', a, k), i, j)
    <3>1. PICK t : t = Removed(dir, n, i, j)
      OBVIOUS
    <3>2. dir' = t
      BY <1>8, <3>1
    <3>3. /\ \A f \in Filed(dir, a, k) : f <= n
          /\ Spared(Filed(dir, a, k), Filed(t, a, k), i, j)
      <4>1. \A f \in Filed(dir, a, k) : f <= n
        BY <1>9, <2>1, <2>2, FiledRemoved
      <4>2. Spared(Filed(dir, a, k), Filed(t, a, k), i, j)
        BY <1>9, <2>1, <2>2, <3>1, FiledRemoved
      <4> QED BY <4>1, <4>2
    <3> QED BY <3>2, <3>3
  <2>5. ASSUME NEW k \in {"M", "D"}, NEW f \in Filed(dir, a, k)
        PROVE  f \in 1..n /\ v[f].art = a /\ (f \in i..j <=> k = "D")
    <3>1. f \in 1..Len(dir) /\ f <= n /\ dir[f].art = a /\ dir[f].kind = k
      BY <2>4 DEF Filed
    <3>2. f \in 1..n /\ v[f] = dir[f]
      BY <1>9, <1>17, <3>1
    <3> QED BY <2>3, <3>1, <3>2
  <2>6. Alike(Filed(dir, a, "M"), Filed(dir', a, "M"))
    <3>1. \A f \in Filed(dir, a, "M") : f \notin i..j
      BY <2>5
    <3>2. PICK F : F = Filed(dir, a, "M")
      OBVIOUS
    <3>3. PICK G : G = Filed(dir', a, "M")
      OBVIOUS
    <3>4. (G # {} <=> \E f \in F : f \notin i..j) /\ (One(F) /\ G # {} => One(G))
      BY <2>4, <3>2, <3>3 DEF Spared
    <3>5. (F = {} <=> G = {}) /\ (One(F) => One(G))
      BY <3>1, <3>2, <3>4 DEF One
    <3> QED BY <3>2, <3>3, <3>5 DEF Alike
  <2>7. Filed(dir', a, "D") = {}
    <3>1. \A f \in Filed(dir, a, "D") : f \in i..j
      BY <2>5
    <3> QED BY <2>4, <3>1 DEF Spared
  <2>8. Filed(dir, a, "D") # {} => a \in Arts(deleted')
    <3> SUFFICES ASSUME NEW f \in Filed(dir, a, "D") PROVE a \in Arts(deleted')
      OBVIOUS
    <3>1. f \in i..j /\ v[f].art = a
      BY <2>5
    <3>2. PICK k \in 1..Len(deleted') : deleted'[k] = v[f]
      BY <1>21, <3>1
    <3> QED BY <2>2, <3>1, <3>2 DEF Arts
  <2>9. a \in Arts(deleted) => a \in Arts(deleted')
    <3> SUFFICES ASSUME NEW l \in 1..Len(deleted), deleted[l].art = a PROVE a \in Arts(deleted')
      BY DEF Arts
    <3>1. PICK k \in 1..Len(deleted') : deleted'[k] = deleted[l]
      BY <1>21
    <3> QED BY <2>2, <3>1 DEF Arts
  <2>10. Filed(deleted', a, "M") = {}
    <3> SUFFICES ASSUME NEW k \in 1..Len(deleted'), deleted'[k].art = a, deleted'[k].kind = "M"
                 PROVE  FALSE
      BY DEF Filed
    <3>1. CASE \E l \in 1..Len(deleted) : deleted'[k] = deleted[l]
      <4>1. Filed(deleted, a, "M") = {}
        BY <2>2 DEF Kept
      <4> QED BY <3>1, <4>1 DEF Filed
    <3>2. CASE \E l \in i..j : deleted'[k] = v[l]
      BY <1>23, <2>3, <3>2
    <3> QED BY <1>20, <3>1, <3>2
  <2>11. \A k : ~Has(pr[p], a, k) /\ ~Has(y, a, k)
    BY <1>12, <1>14 DEF Has
  <2>12. body'[a] = body[a] /\ asked \subseteq asked'
    BY <1>8
  <2> QED BY <1>10, <1>14, <2>2, <2>6, <2>7, <2>8, <2>9, <2>10, <2>11, <2>12, Others
<1> QED
  BY <1>1, <1>15, <1>25, <1>26, <1>28, Assembled

LEMMA FlagKeeps ==
  ASSUME JInv, NEW p \in Procs, Flag(p)
  PROVE  JInv'
<1>1. IInv'
  BY Parts, FlagStep
<1>2. /\ Done(p) /\ pr[p].pc = "flag"
      /\ UNCHANGED <<dir, deleted, body, mixed, disorder>> /\ asked' = asked
  BY DEF Flag, files
<1>3. ~Carries(pr[p]) /\ pr[p].pc # "rcut"
  BY <1>2 DEF Carries
<1> QED
  BY <1>1, <1>2, <1>3, QuietDone

-----------------------------------------------------------------------------
(* miscd, the machine, and the start *)

LEMMA killdirKeeps ==
  ASSUME JInv, NEW k \in 1..Len(deleted), killdir(k)
  PROVE  JInv'
<1>1. IInv'
  BY Parts, killdirStep
<1>2. PICK old : old = SubSeq(deleted, 1, k)
  OBVIOUS
<1>3. /\ deleted' = SubSeq(deleted, k + 1, Len(deleted))
      /\ body' = [a \in 1..posted |-> IF a \in Arts(old) /\ body[a] = "D" THEN "none" ELSE body[a]]
      /\ UNCHANGED <<dir, pr, mixed, disorder, asked>>
  BY <1>2 DEF killdir, ghosts
<1>4. /\ posted \in Nat /\ deleted \in Seq(RecordsTo(posted)) /\ Len(deleted) \in Nat
      /\ posted = Len(body)
  BY Parts
<1>5. /\ Len(deleted') = Len(deleted) - k
      /\ \A i \in 1..Len(deleted') : deleted'[i] = deleted[k + i]
      /\ Len(old) = k /\ \A i \in 1..k : old[i] = deleted[i]
  BY <1>2, <1>3, <1>4
<1>6. \A i \in 1..Len(deleted') : \E j \in 1..Len(deleted) : deleted'[i] = deleted[j]
  <2> SUFFICES ASSUME NEW i \in 1..Len(deleted')
               PROVE  \E j \in 1..Len(deleted) : deleted'[i] = deleted[j]
    OBVIOUS
  <2>1. k + i \in 1..Len(deleted)
    BY <1>4, <1>5
  <2> QED BY <1>5, <2>1
<1>7. ProcsProper'
  BY <1>3, Parts DEF ProcsProper, Proper, Course, Named
<1>8. FilesNamed'
  <2>1. \A l \in 1..Len(dir') : Named(dir'[l])
    BY <1>3, PickedNamed
  <2>2. \A l \in 1..Len(deleted') : Named(deleted'[l])
    BY <1>6, PickedNamed
  <2> QED BY <2>1, <2>2 DEF FilesNamed, AllNamed, Named
<1>9. OneName'
  <2>1. RecordsOf(deleted)' \subseteq RecordsOf(deleted)
    <3>1. RecordsOf(deleted)' = RecordsOf(deleted')
      BY DEF RecordsOf
    <3> QED BY <1>6, <3>1 DEF RecordsOf
  <2>2. RecordsOf(dir)' = RecordsOf(dir)
    BY <1>3 DEF RecordsOf
  <2>3. Known' \subseteq Known
    BY <1>3, <2>1, <2>2 DEF Known
  <2>4. \A r \in Known' : Comes(r, 0)
    BY <2>3, ComesOld
  <2> QED BY <1>3, <2>4, Parts, OneNameStep
<1>10. posted' = posted
  <2>1. DOMAIN body' = 1..posted
    BY <1>3
  <2>2. body' \in Seq(Letters)
    BY <1>1 DEF IInv, FilesOK
  <2> QED BY <1>4, <2>1, <2>2 DEF posted
<1>11. Articles'
  <2> SUFFICES ASSUME NEW a \in 1..posted, a \notin mixed PROVE Kept(a)'
    BY <1>3, <1>10 DEF Articles
  <2>1. Kept(a) /\ a # 0
    BY <1>4, Parts DEF Articles
  <2>2. Held(a, "M")' = Held(a, "M") /\ Held(a, "D")' = Held(a, "D")
    BY <1>3 DEF Held, Has, Carries
  <2>3. RangeAtWork' <=> RangeAtWork
    BY <1>3 DEF RangeAtWork
  <2>4. Filed(deleted', a, "M") = {}
    <3>1. Filed(deleted, a, "M") = {}
      BY <2>1 DEF Kept
    <3>2. \A i \in 1..Len(deleted) : ~(deleted[i].art = a /\ deleted[i].kind = "M")
      BY <3>1 DEF Filed
    <3>3. \A i \in 1..Len(deleted') : ~(deleted'[i].art = a /\ deleted'[i].kind = "M")
      BY <1>6, <3>2
    <3> QED BY <3>3 DEF Filed
  <2>5. body'[a] = IF a \in Arts(old) /\ body[a] = "D" THEN "none" ELSE body[a]
    BY <1>3
  <2>6. CASE a \in Arts(old) /\ body[a] = "D"
    <3>1. body'[a] = "none" /\ body[a] = "D"
      BY <2>5, <2>6
    <3>2. Filed(dir', a, "M") = {} /\ Held(a, "M")' = {}
      BY <1>3, <2>1, <2>2, <3>1, Cases
    <3>3. Placed(a)'
      BY <3>1, <3>2 DEF Placed, None, Filed
    <3>4. Marked(a)'
      <4>1. ~RangeAtWork' => Filed(dir', a, "D") = {}
        BY <1>3, <2>1, <2>3 DEF Kept, Marked
      <4> QED BY <4>1 DEF Marked, Filed
    <3>5. Findable(a)'
      BY <3>1 DEF Findable
    <3>6. Wanted(a)'
      BY <1>3, <2>1, <3>1 DEF Kept, Wanted
    <3> QED BY <2>4, <3>3, <3>4, <3>5, <3>6, KeptIs
  <2>7. CASE ~(a \in Arts(old) /\ body[a] = "D")
    <3>1. body'[a] = body[a]
      BY <2>5, <2>7
    <3>2. body[a] = "D" /\ a \in Arts(deleted) => a \in Arts(deleted')
      <4> SUFFICES ASSUME body[a] = "D", NEW l \in 1..Len(deleted), deleted[l].art = a
                   PROVE  a \in Arts(deleted')
        BY DEF Arts
      <4>1. ~(l <= k)
        <5> SUFFICES ASSUME l <= k PROVE FALSE
          OBVIOUS
        <5>1. l \in 1..Len(old) /\ old[l].art = a
          BY <1>4, <1>5
        <5>2. a \in Arts(old)
          BY <2>1, <5>1 DEF Arts
        <5> QED BY <2>7, <5>2
      <4>2. PICK m : m = l - k
        OBVIOUS
      <4>3. m \in 1..Len(deleted') /\ k + m = l
        BY <1>4, <1>5, <4>1, <4>2
      <4>4. deleted'[m].art = a
        BY <1>5, <4>3
      <4> QED BY <2>1, <4>3, <4>4 DEF Arts
    <3>3. Alike(Filed(dir, a, "M"), Filed(dir', a, "M")) /\ Alike(Held(a, "M"), Held(a, "M")')
      BY <1>3, <2>2, AlikeSame
    <3>4. Filed(dir, a, "D") # {} \/ Held(a, "D") # {} =>
            a \in Arts(deleted') \/ Filed(dir', a, "D") # {} \/ Held(a, "D")' # {}
      BY <1>3, <2>2
    <3>5. ~RangeAtWork' /\ (~RangeAtWork => Filed(dir, a, "D") = {}) => Filed(dir', a, "D") = {}
      BY <1>3, <2>3
    <3>6. asked \subseteq asked' /\ (disorder => disorder')
      BY <1>3
    <3> QED BY <2>1, <2>4, <3>1, <3>2, <3>3, <3>4, <3>5, <3>6, KeptOn
  <2> QED BY <2>6, <2>7
<1> QED
  BY <1>1, <1>7, <1>8, <1>9, <1>11, Assembled

\* An article that is between no two lists is in nobody's hands.
LEMMA AtRest ==
  ASSUME JInv, NEW a, a \notin InHand
  PROVE  \A k : Held(a, k) = {}
<1> SUFFICES ASSUME NEW k, NEW q \in Procs, Has(pr[q], a, k) PROVE FALSE
  BY DEF Held
<1>1. Carries(pr[q]) /\ pr[q].rec.art = a
  BY DEF Has
<1> QED
  BY <1>1 DEF InHand

LEMMA RestartKeeps ==
  ASSUME JInv, Restart
  PROVE  JInv'
<1>1. IInv'
  BY Parts, RestartStep
<1>2. PICK x : x = Idle
  OBVIOUS
<1>3. /\ pr' = [p \in Procs |-> x] /\ UNCHANGED <<dir, deleted, body, asked>>
      /\ mixed' = mixed \cup InHand
                    \cup {dir[i].art : i \in {k \in 1..Len(dir) : dir[k].kind = "D"}}
  BY <1>2 DEF Restart, files, HalfDeleted
<1>4. disorder => disorder'
  <2>1. PICK d : disorder' = (disorder \/ d)
    BY DEF Restart
  <2> QED BY <2>1, Zenon
<1>5. ~Carries(x) /\ x.pc = "idle" /\ x.rec.art = 0
  BY <1>2, IdleProper
<1>6. ProcsProper'
  <2>1. Proper(x, asked', mixed', disorder')
    BY <1>2, IdleProper
  <2>2. \A q \in Procs : Proper(pr'[q], asked', mixed', disorder')
    BY <1>3, <2>1
  <2> QED BY <2>2 DEF ProcsProper, Proper, Course, Named
<1>7. FilesNamed'
  BY <1>3, Parts DEF FilesNamed, AllNamed, Named
<1>8. OneName'
  <2>1. ASSUME NEW r \in Known' PROVE Comes(r, 0)
    <3>1. RecordsOf(dir)' = RecordsOf(dir) /\ RecordsOf(deleted)' = RecordsOf(deleted)
      BY <1>3 DEF RecordsOf
    <3>2. r \in Known \/ \E q \in Procs : r = pr'[q].rec
      BY <3>1 DEF Known
    <3>3. r \in Known \/ r.art = 0
      BY <1>3, <1>5, <3>2
    <3> QED BY <3>3, ComesOld DEF Comes
  <2> QED BY <1>4, <2>1, Parts, OneNameStep
<1>9. posted' = posted
  BY <1>3 DEF posted
<1>10. Articles'
  <2> SUFFICES ASSUME NEW a \in 1..posted, a \notin mixed' PROVE Kept(a)'
    BY <1>9 DEF Articles
  <2>1. Kept(a) /\ a \notin InHand
    BY <1>3, Parts DEF Articles
  <2>2. Held(a, "M") = {} /\ Held(a, "D") = {}
    BY <2>1, AtRest
  <2>3. Held(a, "M")' = {}
    BY <1>3, <1>5 DEF Held, Has, Carries
  <2>4. Filed(dir, a, "D") = {}
    BY <1>3 DEF Filed
  <2>5. Alike(Filed(dir, a, "M"), Filed(dir', a, "M")) /\ Alike(Held(a, "M"), Held(a, "M")')
    BY <1>3, <2>2, <2>3, AlikeSame
  <2>6. Filed(dir', a, "D") = {} /\ Filed(deleted', a, "M") = {} /\ body'[a] = body[a]
    BY <1>3, <2>1, <2>4 DEF Kept
  <2>7. Arts(deleted') = Arts(deleted) /\ asked \subseteq asked'
    BY <1>3
  <2> QED BY <1>4, <2>1, <2>2, <2>4, <2>5, <2>6, <2>7, KeptOn
<1> QED
  BY <1>1, <1>6, <1>7, <1>8, <1>10, Assembled

\* What the process had between two lists, or had marked, is what mixed now
\* names; the others are where they were.
LEMMA DieKeeps ==
  ASSUME JInv, NEW p \in Procs, Die(p)
  PROVE  JInv'
<1>1. IInv'
  BY Parts, DieStep
<1>2. PICK x : x = pr[p]
  OBVIOUS
<1>3. PICK A : A = IF Carries(x) THEN {x.rec.art} ELSE {}
  OBVIOUS
<1>4. PICK B : B = IF x.pc = "rcut" THEN {dir[i].art : i \in {k \in 1..Len(dir) : dir[k].kind = "D"}}
                                   ELSE {}
  OBVIOUS
<1>5. PICK y : y = Idle
  OBVIOUS
<1>6. /\ pr' = [pr EXCEPT ![p] = y] /\ mixed' = mixed \cup A \cup B
      /\ UNCHANGED <<dir, deleted, body, asked, disorder>>
  BY <1>2, <1>3, <1>4, <1>5 DEF Die, Done, HalfDeleted, files
<1>7. ~Carries(y) /\ y.rec.art = 0 /\ Comes(y.rec, 0)
  BY <1>5, IdleProper DEF Comes
<1>8. ProcsProper'
  <2>1. Proper(y, asked', mixed', disorder')
    BY <1>5, IdleProper
  <2>2. mixed \subseteq mixed'
    BY <1>6
  <2> QED BY <1>6, <2>1, <2>2, Parts, ProperStep
<1>9. FilesNamed'
  BY <1>6, Parts DEF FilesNamed, AllNamed, Named
<1>10. OneName'
  <2>1. /\ \A m \in 1..Len(dir) : Comes(dir[m], 0)
        /\ \A m \in 1..Len(deleted) : Comes(deleted[m], 0)
    BY KnownRecords, ComesOld
  <2>2. \A m \in 1..Len(dir') : Comes(dir'[m], 0)
    BY <1>6, <2>1
  <2>3. \A m \in 1..Len(deleted') : Comes(deleted'[m], 0)
    BY <1>6, <2>1
  <2> QED BY <1>6, <1>7, <2>2, <2>3, Parts, OneNameProc
<1>11. posted' = posted
  BY <1>6 DEF posted
<1>12. Articles'
  <2> SUFFICES ASSUME NEW a \in 1..posted, a \notin mixed' PROVE Kept(a)'
    BY <1>11 DEF Articles
  <2>1. a \notin mixed /\ a \notin A /\ a \notin B
    BY <1>6
  <2>2. Kept(a)
    BY <2>1, Parts DEF Articles
  <2>3. \A k : ~Has(pr[p], a, k) /\ ~Has(y, a, k)
    BY <1>2, <1>3, <1>7, <2>1 DEF Has
  <2>4. pr[p].pc # "rcut" \/ Filed(dir', a, "D") = {}
    BY <1>2, <1>4, <1>6, <2>1 DEF Filed
  <2>5. Filed(dir', a, "M") = Filed(dir, a, "M") /\ Filed(dir', a, "D") = Filed(dir, a, "D")
    BY <1>6
  <2>6. Filed(deleted', a, "M") = {}
    BY <1>6, <2>2 DEF Kept
  <2>7. Alike(Filed(dir, a, "M"), Filed(dir', a, "M"))
    BY <2>5, AlikeSame
  <2>8. body'[a] = body[a] /\ asked \subseteq asked' /\ Arts(deleted') = Arts(deleted)
        /\ (disorder => disorder')
    BY <1>6
  <2> QED BY <1>6, <2>2, <2>3, <2>4, <2>5, <2>6, <2>7, <2>8, Others
<1> QED
  BY <1>1, <1>8, <1>9, <1>10, <1>12, Assembled

LEMMA InitKept == Init => JInv
<1> SUFFICES ASSUME Init PROVE JInv
  OBVIOUS
<1>1. IInv
  BY InitHolds
<1>2. PICK x : x = Idle
  OBVIOUS
<1>3. PICK s \in FirstDirs :
        /\ dir = [i \in 1..Len(s) |->
                    [art |-> i, kind |-> "M", id |-> s[i][1], root |-> s[i][2]]]
        /\ deleted = <<>> /\ body = [i \in 1..Len(s) |-> "M"] /\ pr = [p \in Procs |-> x]
  BY <1>2 DEF Init
<1>4. /\ s \in Seq((Nat \ {0}) \X BOOLEAN) /\ Len(s) \in Nat
      /\ \A i, j \in 1..Len(s) : i < j => s[i][1] < s[j][1]
  BY BoardAssumption
<1>5. \A i \in 1..Len(s) : s[i][1] \in Nat
  <2>1. \A i \in 1..Len(s) : s[i] \in (Nat \ {0}) \X BOOLEAN
    BY <1>4
  <2> QED BY <2>1
<1>6. PICK n \in Nat : n = Len(s)
  BY <1>4
<1>7. Len(dir) = n /\ posted = n /\ Len(deleted) = 0
  <2>1. dir \in Seq(RecordsTo(posted)) /\ body \in Seq(Letters)
    BY <1>1 DEF IInv, FilesOK
  <2>2. DOMAIN dir = 1..n /\ DOMAIN body = 1..n
    BY <1>3, <1>6
  <2>3. Len(dir) = n /\ Len(body) = n
    BY <1>6, <2>1, <2>2
  <2> QED BY <1>3, <2>3 DEF posted
<1>8. \A i \in 1..n : /\ dir[i].art = i /\ dir[i].kind = "M" /\ dir[i].id = s[i][1]
                      /\ body[i] = "M"
  BY <1>3, <1>6
<1>9. ~Carries(x) /\ x.pc = "idle" /\ x.rec.art = 0 /\ \A q \in Procs : pr[q] = x
  BY <1>2, <1>3, IdleProper
<1>10. ProcsProper
  BY <1>2, <1>9, IdleProper DEF ProcsProper
<1>11. FilesNamed
  BY <1>7, <1>8 DEF FilesNamed, AllNamed, Named
<1>12. OneName
  <2> SUFFICES ASSUME NEW r \in Known, NEW t \in Known, r.art # 0, t.art # 0, r.id = t.id
               PROVE  r.art = t.art
    BY DEF OneName
  <2>1. ASSUME NEW u \in Known, u.art # 0 PROVE \E i \in 1..n : u = dir[i]
    BY <1>7, <1>9, <2>1 DEF Known, RecordsOf
  <2>2. PICK i \in 1..n : r = dir[i]
    BY <2>1
  <2>3. PICK j \in 1..n : t = dir[j]
    BY <2>1
  <2>4. s[i][1] = s[j][1]
    BY <1>8, <2>2, <2>3
  <2>5. ~(i < j) /\ ~(j < i)
    BY <1>4, <1>5, <1>6, <2>4
  <2>6. i = j
    BY <2>5
  <2> QED BY <2>2, <2>3, <2>6
<1>13. Articles
  <2> SUFFICES ASSUME NEW a \in 1..n PROVE Kept(a)
    BY <1>7 DEF Articles
  <2>1. Filed(dir, a, "M") = {a}
    BY <1>7, <1>8 DEF Filed
  <2>2. Filed(dir, a, "D") = {} /\ Filed(deleted, a, "M") = {}
    BY <1>7, <1>8 DEF Filed
  <2>3. Held(a, "M") = {}
    BY <1>9 DEF Held, Has
  <2>4. body[a] = "M"
    BY <1>8
  <2>5. Placed(a)
    BY <2>1, <2>3, <2>4 DEF Placed, Single, One
  <2> QED BY <2>2, <2>4, <2>5 DEF Kept, Marked, Findable, Wanted
<1> QED
  BY <1>1, <1>10, <1>11, <1>12, <1>13 DEF JInv

LEMMA NextKept == JInv /\ [Next]_vars => JInv'
<1> SUFFICES ASSUME JInv, [Next]_vars PROVE JInv'
  OBVIOUS
<1>1. ASSUME NEW p \in Procs, \E root \in BOOLEAN : Post(p, root) PROVE JInv'
  BY <1>1, PostKeeps
<1>2. ASSUME NEW p \in Procs, \E i \in 1..Len(dir), ent \in 0..Len(dir) : Delete(p, i, ent)
      PROVE  JInv'
  BY <1>2, DeleteKeeps
<1>3. ASSUME NEW p \in Procs, \E i \in 1..Len(deleted) : Undelete(p, i) PROVE JInv'
  BY <1>3, UndeleteKeeps
<1>4. ASSUME NEW p \in Procs, \E i \in 1..Len(dir) : EditTitle(p, i) PROVE JInv'
  BY <1>4, EditTitleKeeps
<1>5. ASSUME NEW p \in Procs, \E i, j \in 1..Len(dir) : DeleteRange(p, i, j) PROVE JInv'
  BY <1>5, DeleteRangeKeeps
<1>6. ASSUME NEW p \in Procs, AppendDir(p) \/ AppendOrigin(p) PROVE JInv'
  BY <1>6, AppendDirKeeps, AppendOriginKeeps
<1>7. ASSUME NEW p \in Procs, Map(p) \/ Cut(p) \/ MapOrigin(p) \/ CutOrigin(p) \/ cancelpost(p)
      PROVE  JInv'
  BY <1>7, MapKeeps, CutKeeps, MapOriginKeeps, CutOriginKeeps, cancelpostKeeps
<1>8. ASSUME NEW p \in Procs,
             Check(p) \/ Move(p) \/ Insert(p) \/ InsertOrigin(p) \/ Blank(p)
      PROVE  JInv'
  BY <1>8, CheckKeeps, MoveKeeps, InsertKeeps, InsertOriginKeeps, BlankKeeps
<1>9. ASSUME NEW p \in Procs, Find(p) \/ Write(p) \/ FindOrigin(p) \/ WriteOrigin(p)
      PROVE  JInv'
  BY <1>9, FindKeeps, WriteKeeps, FindOriginKeeps, WriteOriginKeeps
<1>10. ASSUME NEW p \in Procs, Stat(p) \/ MoveRange(p) \/ CutRange(p) \/ Flag(p) \/ Die(p)
       PROVE  JInv'
  BY <1>10, StatKeeps, MoveRangeKeeps, CutRangeKeeps, FlagKeeps, DieKeeps
<1>11. ASSUME NEW p \in Procs,
              Regen(p) \/ RegenLock(p) \/ RegenWrite(p) \/ RegenClear(p)
       PROVE  JInv'
  BY <1>11, RegenKeeps, RegenLockKeeps, RegenWriteKeeps, RegenClearKeeps
<1>12. CASE \E k \in 1..Len(deleted) : killdir(k)
  BY <1>12, killdirKeeps
<1>13. CASE flush_bcache \/ Restart
  BY <1>13, flush_bcacheKeeps, RestartKeeps
<1>14. CASE UNCHANGED vars
  BY <1>14, StutterKeeps
<1> QED
  BY <1>1, <1>2, <1>3, <1>4, <1>5, <1>6, <1>7, <1>8, <1>9, <1>10, <1>11, <1>12, <1>13, <1>14
     DEF Next

\* For boards and numbers of articles of any size and any number of processes,
\* which may end at any step: the name of an article's body and the lists agree
\* unless a process has it between two lists.  One with its M is in .DIR once, one
\* with its D is not and can be undeleted, and it was on a screen when its deletion
\* was asked for.  Excepted are the articles that mixed names: two operations
\* disagreed about them, or the process that had them in hand ended.  Of after_post,
\* do_del_post, do_undel_post, edit_title, delete_range_base and miscd's killdir.
THEOREM BodyAndListsAgree == Spec => []IndexAgrees
<1>1. JInv => IndexAgrees
  <2> SUFFICES ASSUME JInv, ~RangeAtWork, NEW a \in 1..posted, a \notin mixed, a \notin InHand
               PROVE  /\ Times(a) = (IF body[a] = "M" THEN 1 ELSE 0)
                      /\ body[a] = "D" => a \in Arts(deleted)
                      /\ body[a] # "M" => a \in asked \/ disorder
    BY DEF IndexAgrees
  <2>1. Kept(a) /\ FilesNamed /\ a # 0 /\ a \in 1..posted /\ posted \in Nat
    <3>1. a \in 1..posted /\ posted \in Nat
      BY Parts
    <3> QED BY <3>1, Parts DEF Articles
  <2>2. Held(a, "M") = {} /\ Held(a, "D") = {}
    BY AtRest
  <2>3. Filed(dir, a, "D") = {}
    BY <2>1 DEF Kept, Marked
  <2>4. {i \in 1..Len(dir) : dir[i].art = a} = Filed(dir, a, "M")
    <3>1. ASSUME NEW i \in 1..Len(dir), dir[i].art = a PROVE dir[i].kind = "M"
      <4>1. dir[i].kind \in {"M", "D"}
        BY <2>1, <3>1 DEF FilesNamed, AllNamed, Named
      <4>2. dir[i].kind # "D"
        BY <2>3, <3>1 DEF Filed
      <4> QED BY <4>1, <4>2
    <3> QED BY <3>1 DEF Filed
  <2>5. Times(a) = Cardinality(Filed(dir, a, "M"))
    BY <2>4 DEF Times
  <2>6. Times(a) = (IF body[a] = "M" THEN 1 ELSE 0)
    <3>1. CASE body[a] = "M"
      <4>1. One(Filed(dir, a, "M"))
        BY <2>1, <2>2, <3>1 DEF Kept, Placed, Single, One
      <4>2. PICK f : Filed(dir, a, "M") = {f}
        BY <4>1 DEF One
      <4> QED BY <2>5, <3>1, <4>2, FS_Singleton
    <3>2. CASE body[a] # "M"
      <4>1. Filed(dir, a, "M") = {}
        BY <2>1, <3>2, Cases
      <4> QED BY <2>5, <3>2, <4>1, FS_EmptySet
    <3> QED BY <3>1, <3>2
  <2>7. body[a] = "D" => a \in Arts(deleted)
    BY <2>1, <2>2, <2>3 DEF Kept, Findable
  <2>8. body[a] # "M" => a \in asked \/ disorder
    BY <2>1 DEF Kept, Wanted
  <2> QED BY <2>6, <2>7, <2>8
<1>2. Spec => []JInv
  BY InitKept, NextKept, PTL DEF Spec
<1> QED
  BY <1>1, <1>2, PTL

-----------------------------------------------------------------------------
(* What is in a file that is changed *)

\* A mapping of the size the file has.
LEMMA ViewAll ==
  ASSUME NEW a \in Nat, NEW s \in Seq(RecordsTo(a))
  PROVE  View(s, Len(s)) = s
<1>1. PICK n \in Nat : n = Len(s)
  OBVIOUS
<1>2. View(s, n) = [i \in 1..n |-> IF i <= n THEN s[i] ELSE Zero]
  BY <1>1 DEF View
<1>3. s = [i \in 1..n |-> s[i]]
  BY <1>1
<1>4. \A i \in 1..n : i <= n
  BY <1>1
<1> QED
  BY <1>1, <1>2, <1>3, <1>4

\* Records i to j are gone, no others, and the rest keeps its order.
Without(t, s, n, i, j) ==
    /\ \A l \in 1..Len(t) : \E m \in 1..n : m \notin i..j /\ t[l] = s[m]
    /\ \A m \in 1..n : m \notin i..j => \E l \in 1..Len(t) : t[l] = s[m]
    /\ SortedSeq(s) => SortedSeq(t)
LEMMA RemovedWithout ==
  ASSUME NEW a \in Nat, NEW s \in Seq(RecordsTo(a)), NEW n \in Nat, n <= Len(s),
         NEW i \in 1..n, NEW j \in i..n
  PROVE  Without(Removed(s, n, i, j), s, n, i, j)
<1>1. PICK t : t = Removed(s, n, i, j)
  OBVIOUS
<1>2. PICK w \in Nat : w = j-i+1
  OBVIOUS
<1>3. Squeezed(t, s, n, i, w)
  BY <1>1, <1>2, RemovedAt
<1>4. Len(s) \in Nat /\ w <= n
  BY <1>2
<1>5. \A k \in 1..n : View(s, n)[k] = s[k]
  BY <1>4 DEF View
<1> DEFINE at(l) == IF l < i THEN l ELSE l + w
<1>6. /\ \A l \in 1..n-w : at(l) \in 1..n /\ at(l) \notin i..j
      /\ \A k, l \in 1..n-w : k < l => at(k) < at(l)
  BY <1>2
<1>7. Len(t) = n-w /\ \A l \in 1..n-w : t[l] = s[at(l)]
  <2>1. Len(t) = n-w /\ \A l \in 1..n-w : t[l] = View(s, n)[at(l)]
    BY <1>3 DEF Squeezed
  <2> HIDE DEF at
  <2> QED BY <1>5, <1>6, <2>1
<1>8. \A m \in 1..n : m \notin i..j => \E l \in 1..n-w : at(l) = m
  <2> SUFFICES ASSUME NEW m \in 1..n, m \notin i..j PROVE \E l \in 1..n-w : at(l) = m
    OBVIOUS
  <2>1. CASE m < i
    <3>1. m \in 1..n-w /\ at(m) = m
      BY <1>2, <2>1
    <3> QED BY <3>1
  <2>2. CASE m > j
    <3>1. m-w \in 1..n-w /\ at(m-w) = m
      BY <1>2, <2>2
    <3> QED BY <3>1
  <2> QED BY <2>1, <2>2
<1> HIDE DEF at
<1>9. \A l \in 1..Len(t) : \E m \in 1..n : m \notin i..j /\ t[l] = s[m]
  BY <1>6, <1>7
<1>10. \A m \in 1..n : m \notin i..j => \E l \in 1..Len(t) : t[l] = s[m]
  BY <1>7, <1>8
<1>11. SortedSeq(s) => SortedSeq(t)
  <2>1. \A k \in 1..n : k \in 1..Len(s)
    BY <1>4
  <2> QED BY <1>6, <1>7, <2>1 DEF SortedSeq
<1> QED
  BY <1>1, <1>9, <1>10, <1>11 DEF Without

\* One record more at i, before those with larger ids, is in its place.
LEMMA InsertAtSorted ==
  ASSUME NEW a \in Nat, NEW s \in Seq(RecordsTo(a)), NEW i \in 1..Len(s)+1,
         NEW r \in RecordsTo(a), SortedSeq(s),
         \A k \in 1..Len(s) : k < i => s[k].id < r.id,
         \A k \in 1..Len(s) : k >= i => r.id < s[k].id
  PROVE  SortedSeq(InsertAt(s, i, r))
<1>1. PICK R : R = RecordsTo(a)
  OBVIOUS
<1>2. PICK n \in Nat : n = Len(s)
  OBVIOUS
<1>3. PICK t : t = InsertAt(s, i, r)
  OBVIOUS
<1>4. Len(t) = n+1
  BY <1>1, <1>2, <1>3, InsertAtDef
<1>5. \A j \in 1..n+1 : t[j] = IF j < i THEN s[j] ELSE IF j = i THEN r ELSE s[j-1]
  BY <1>1, <1>2, <1>3, InsertAtDef
<1> SUFFICES ASSUME NEW j \in 1..n+1, NEW k \in 1..n+1, j < k PROVE t[j].id < t[k].id
  BY <1>3, <1>4 DEF SortedSeq
<1>6. i \in 1..n+1
  BY <1>2
<1>7. CASE k < i
  <2>1. j \in 1..n /\ k \in 1..n /\ t[j] = s[j] /\ t[k] = s[k]
    BY <1>5, <1>6, <1>7
  <2> QED BY <1>2, <2>1 DEF SortedSeq
<1>8. CASE k = i
  <2>1. j \in 1..n /\ t[j] = s[j] /\ t[k] = r
    BY <1>5, <1>6, <1>8
  <2> QED BY <1>2, <1>8, <2>1
<1>9. CASE k > i
  <2>1. k-1 \in 1..n /\ t[k] = s[k-1] /\ k-1 >= i
    BY <1>5, <1>6, <1>9
  <2>2. CASE j < i
    <3>1. j \in 1..n /\ t[j] = s[j] /\ j < k-1
      BY <1>5, <1>6, <2>1, <2>2
    <3> QED BY <1>2, <2>1, <3>1 DEF SortedSeq
  <2>3. CASE j = i
    <3>1. t[j] = r
      BY <1>5, <2>3
    <3> QED BY <1>2, <2>1, <3>1
  <2>4. CASE j > i
    <3>1. j-1 \in 1..n /\ t[j] = s[j-1] /\ j-1 < k-1
      BY <1>5, <1>6, <2>4
    <3> QED BY <1>2, <2>1, <3>1 DEF SortedSeq
  <2> QED BY <1>6, <2>2, <2>3, <2>4
<1> QED
  BY <1>6, <1>7, <1>8, <1>9

\* An undeleted record q comes to the others.
With(t, s, q) ==
    /\ \A i \in 1..Len(t) : t[i] = q \/ \E j \in 1..Len(s) : t[i] = s[j]
    /\ \A j \in 1..Len(s) : \E i \in 1..Len(t) : t[i] = s[j]
    /\ \E i \in 1..Len(t) : t[i] = q
LEMMA InsertedWith ==
  ASSUME NEW n \in Nat, NEW s \in Seq(RecordsTo(n)), NEW r \in RecordsTo(n), nowid \in Nat,
         NEW q, q = (IF Renumbers(s, r) THEN Renumbered(r) ELSE r)
  PROVE  With(Inserted(s, r), s, q)
<1>1. PICK t : t = Inserted(s, r)
  OBVIOUS
<1>2. PICK m \in Nat : m = Len(s)
  OBVIOUS
<1>3. \A i \in 1..Len(t) : t[i] = q \/ \E j \in 1..Len(s) : t[i] = s[j]
  BY <1>1, InsertedFrom
<1>4. (\A j \in 1..m : \E i \in 1..Len(t) : t[i] = s[j]) /\ \E i \in 1..Len(t) : t[i] = q
  <2>1. CASE Renumbers(s, r)
    <3>1. t = Append(s, q)
      BY <1>1, <2>1 DEF Inserted
    <3>2. Len(t) = m+1 /\ t[m+1] = q /\ \A j \in 1..m : t[j] = s[j]
      BY <1>2, <3>1
    <3>3. m+1 \in 1..m+1 /\ \A j \in 1..m : j \in 1..m+1
      BY <1>2
    <3> QED BY <3>2, <3>3
  <2>2. CASE ~Renumbers(s, r)
    <3>1. PICK e : e = Bisect(s, r.id)[1]
      OBVIOUS
    <3>2. e \in 1..m+1
      <4>1. r.id \in Nat
        BY RecordsAre
      <4> QED BY <1>2, <3>1, <4>1, SearchDef
    <3>3. t = InsertAt(s, e, r) /\ q = r
      BY <1>1, <2>2, <3>1 DEF Inserted
    <3>4. PICK R : R = RecordsTo(n)
      OBVIOUS
    <3>5. Len(t) = m+1
      BY <1>2, <3>2, <3>3, <3>4, InsertAtDef
    <3>6. \A j \in 1..m+1 : t[j] = IF j < e THEN s[j] ELSE IF j = e THEN r ELSE s[j-1]
      BY <1>2, <3>2, <3>3, <3>4, InsertAtDef
    <3>7. ASSUME NEW j \in 1..m PROVE \E i \in 1..m+1 : t[i] = s[j]
      <4>1. CASE j < e
        <5>1. j \in 1..m+1
          BY <1>2
        <5> QED BY <3>6, <4>1, <5>1
      <4>2. CASE j >= e
        <5>1. j+1 \in 1..m+1 /\ ~(j+1 < e) /\ j+1 # e /\ (j+1)-1 = j
          BY <1>2, <3>2, <4>2
        <5>2. t[j+1] = s[j]
          BY <3>6, <5>1
        <5> QED BY <5>1, <5>2
      <4> QED BY <1>2, <3>2, <4>1, <4>2
    <3>8. t[e] = q
      BY <3>2, <3>3, <3>6
    <3> QED BY <3>2, <3>5, <3>7, <3>8
  <2> QED BY <2>1, <2>2
<1> QED
  BY <1>1, <1>2, <1>3, <1>4 DEF With

\* One that keeps its id has its place.
LEMMA InsertedSorted ==
  ASSUME NEW n \in Nat, NEW s \in Seq(RecordsTo(n)), NEW r \in RecordsTo(n), SortedSeq(s),
         ~Renumbers(s, r)
  PROVE  SortedSeq(Inserted(s, r))
<1>1. PICK e : e = Bisect(s, r.id)[1]
  OBVIOUS
<1>2. r.id \in Nat /\ Search_Bin(s, r.id) = 0
  BY RecordsAre DEF Renumbers
<1>3. /\ e \in 1..Len(s)+1
      /\ \A k \in 1..Len(s) : k < e => s[k].id < r.id
      /\ \A k \in 1..Len(s) : k >= e => r.id < s[k].id
  BY <1>1, <1>2, SearchDef
<1>4. Inserted(s, r) = InsertAt(s, e, r)
  BY <1>1 DEF Inserted
<1> QED
  BY <1>3, <1>4, InsertAtSorted

-----------------------------------------------------------------------------
(* Where a thread is listed *)

Same(r, s) == r.id = s.id /\ r.art = s.art
ThreadIn(s, r) == \E i \in 1..Len(s) : s[i].root /\ Same(s[i], r)
On(s, r) == \E i \in 1..Len(s) : Same(s[i], r)

\* A process is to enter a thread in .ORIGIN, or to take it out.
Coming(P, r) == \E q \in Procs : Enters(P[q]) /\ Same(P[q].rec, r)
Going(P, r) == \E q \in Procs : Leaves(P[q]) /\ Same(P[q].rec, r)

\* What .ORIGIN (o) lists is a thread of .DIR (d) or about to leave; the threads
\* of .DIR are listed or about to be.
Taken(o, s) == \A i \in 1..Len(o) : ThreadIn(s, o[i])
Backed(o, d, P) == \A i \in 1..Len(o) : ThreadIn(d, o[i]) \/ Going(P, o[i])
Covered(o, d, P) == \A i \in 1..Len(d) : d[i].root => On(o, d[i]) \/ Coming(P, d[i])
Fits(o, d, P) == Covered(o, d, P) /\ SortedSeq(o)

\* Unless operations overlapped, that is so while the flag is not set, when
\* nobody makes .ORIGIN anew; and one that has made it took it from the .DIR it saw.
NobodyMakes == \A q \in Procs : pr[q].pc \notin {"regen", "rewrite", "clear"}
InStep == ~updateorigin => NobodyMakes /\ Backed(origin, dir, pr) /\ Fits(origin, dir, pr)
MadeAnew ==
    \A q \in Procs : pr[q].pc = "clear" => Taken(origin, pr[q].was) /\ Fits(origin, dir, pr)
Origins == ~loose /\ ~disorder => InStep /\ MadeAnew

\* One process at a time makes it, with the size that .DIR had; the others have an
\* article at hand.
Making(x) == x.pc \in {"rewrite", "clear"}
OneMakes ==
    \A q \in Procs : Making(pr[q]) => updateorigin /\ \A u \in Procs \ {q} : ~Making(pr[u])
Apt(x) ==
    /\ x.op \in {"post", "undelete", "edit"} => x.rec.art # 0
    /\ x.pc = "append" => x.op = "post"
    /\ x.pc \in {"check", "move", "insert"} => x.op = "undelete"
    /\ x.pc = "owrite" => x.op = "edit"
    /\ x.pc = "rewrite" => x.size = Len(x.was)
ProcsApt == \A q \in Procs : Apt(pr[q])
DirSolid == ~disorder => \A i \in 1..Len(dir) : dir[i].art # 0

OriginInv == Origins /\ OneMakes /\ ProcsApt /\ DirSolid
KInv == JInv /\ OriginInv

LEMMA OriginParts ==
  ASSUME KInv
  PROVE  JInv /\ Origins /\ OneMakes /\ ProcsApt /\ DirSolid /\ ProcsOK
         /\ posted \in Nat /\ nowid \in Nat
         /\ dir \in Seq(RecordsTo(posted)) /\ origin \in Seq(RecordsTo(posted))
<1>1. JInv
  BY DEF KInv
<1>2. IInv /\ ProcsOK /\ posted \in Nat /\ nowid \in Nat /\ dir \in Seq(RecordsTo(posted))
  BY <1>1, Parts
<1>3. origin \in Seq(RecordsTo(posted))
  BY <1>2 DEF IInv, FilesOK
<1> QED
  BY <1>1, <1>2, <1>3 DEF KInv, OriginInv

-----------------------------------------------------------------------------
(* How a process's step bears on it *)

LEMMA Stepped ==
  ASSUME ProcsOK, NEW p \in Procs, NEW y, pr' = [pr EXCEPT ![p] = y]
  PROVE  pr'[p] = y /\ \A q \in Procs : q # p => pr'[q] = pr[q]
BY DEF ProcsOK

LEMMA ComingOn ==
  ASSUME ProcsOK, NEW p \in Procs, NEW y, pr' = [pr EXCEPT ![p] = y], NEW r, Coming(pr, r),
         Enters(pr[p]) /\ Same(pr[p].rec, r) => Enters(y) /\ Same(y.rec, r)
  PROVE  Coming(pr', r)
<1>1. PICK q \in Procs : Enters(pr[q]) /\ Same(pr[q].rec, r)
  BY DEF Coming
<1>2. Enters(pr'[q]) /\ Same(pr'[q].rec, r)
  BY <1>1, Stepped
<1> QED
  BY <1>2 DEF Coming

LEMMA GoingOn ==
  ASSUME ProcsOK, NEW p \in Procs, NEW y, pr' = [pr EXCEPT ![p] = y], NEW r, Going(pr, r),
         Leaves(pr[p]) /\ Same(pr[p].rec, r) => Leaves(y) /\ Same(y.rec, r)
  PROVE  Going(pr', r)
<1>1. PICK q \in Procs : Leaves(pr[q]) /\ Same(pr[q].rec, r)
  BY DEF Going
<1>2. Leaves(pr'[q]) /\ Same(pr'[q].rec, r)
  BY <1>1, Stepped
<1> QED
  BY <1>2 DEF Going

LEMMA AptStep ==
  ASSUME ProcsOK, ProcsApt, NEW p \in Procs, NEW y, pr' = [pr EXCEPT ![p] = y], Apt(y)
  PROVE  ProcsApt'
<1>1. \A q \in Procs : Apt(pr'[q])
  BY Stepped DEF ProcsApt
<1> QED
  BY <1>1 DEF ProcsApt, Apt

LEMMA OneMakesStep ==
  ASSUME ProcsOK, OneMakes, NEW p \in Procs, NEW y, pr' = [pr EXCEPT ![p] = y],
         updateorigin => updateorigin',
         Making(y) => updateorigin' /\ \A q \in Procs \ {p} : ~Making(pr[q])
  PROVE  OneMakes'
<1> SUFFICES ASSUME NEW q \in Procs, Making(pr'[q])
             PROVE  updateorigin' /\ \A u \in Procs \ {q} : ~Making(pr'[u])
  BY DEF OneMakes, Making
<1>1. pr'[p] = y /\ \A u \in Procs : u # p => pr'[u] = pr[u]
  BY Stepped
<1>2. CASE q = p
  BY <1>1, <1>2
<1>3. CASE q # p
  <2>1. Making(pr[q])
    BY <1>1, <1>3
  <2>2. updateorigin /\ \A u \in Procs \ {q} : ~Making(pr[u])
    BY <2>1 DEF OneMakes
  <2>3. ~Making(y)
    BY <1>3, <2>1
  <2> QED BY <1>1, <2>2, <2>3
<1> QED
  BY <1>2, <1>3

\* A step of a process that does not make .ORIGIN.
LEMMA OriginsStep ==
  ASSUME KInv, NEW p \in Procs, NEW y, pr' = [pr EXCEPT ![p] = y], ~Making(y),
         y.pc = "regen" => updateorigin', updateorigin => updateorigin',
         ~loose' /\ ~disorder' => ~loose /\ ~disorder,
         ~loose' /\ ~disorder' /\ Fits(origin, dir, pr) => Fits(origin', dir', pr'),
         ~loose' /\ ~disorder' /\ ~updateorigin' /\ Backed(origin, dir, pr) /\ Fits(origin, dir, pr)
           => Backed(origin', dir', pr'),
         ~loose' /\ ~disorder' /\ updateorigin /\ Fits(origin, dir, pr)
           => \A s : Taken(origin, s) => Taken(origin', s)
  PROVE  Origins'
<1> SUFFICES ASSUME ~loose', ~disorder' PROVE InStep' /\ MadeAnew'
  BY DEF Origins
<1>1. InStep /\ MadeAnew
  BY OriginParts DEF Origins
<1>2. pr'[p] = y /\ \A u \in Procs : u # p => pr'[u] = pr[u]
  BY OriginParts, Stepped
<1>3. InStep'
  <2> SUFFICES ASSUME ~updateorigin'
               PROVE  NobodyMakes' /\ Backed(origin', dir', pr') /\ Fits(origin', dir', pr')
    BY DEF InStep, NobodyMakes, Backed, Fits, Covered, Coming, Going
  <2>1. NobodyMakes /\ Backed(origin, dir, pr) /\ Fits(origin, dir, pr)
    BY <1>1 DEF InStep
  <2>2. ASSUME NEW q \in Procs PROVE pr'[q].pc \notin {"regen", "rewrite", "clear"}
    BY <1>2, <2>1 DEF NobodyMakes, Making
  <2>3. Backed(origin', dir', pr')
    BY <2>1
  <2>4. Fits(origin', dir', pr')
    BY <2>1
  <2>5. NobodyMakes'
    BY <2>2 DEF NobodyMakes
  <2> QED BY <2>3, <2>4, <2>5
<1>4. MadeAnew'
  <2> SUFFICES ASSUME NEW q \in Procs, pr'[q].pc = "clear"
               PROVE  Taken(origin', pr'[q].was) /\ Fits(origin', dir', pr')
    BY DEF MadeAnew, Taken, Fits, Covered, Coming
  <2>1. pr'[q] = pr[q]
    BY <1>2 DEF Making
  <2>2. updateorigin
    BY <2>1, OriginParts DEF OneMakes, Making
  <2>3. Taken(origin, pr[q].was) /\ Fits(origin, dir, pr)
    BY <1>1, <2>1 DEF MadeAnew
  <2> QED BY <2>1, <2>2, <2>3
<1> QED
  BY <1>3, <1>4

\* One that leaves the lists and what is to enter and to leave them.
LEMMA OriginsStay ==
  ASSUME KInv, NEW p \in Procs, NEW y, pr' = [pr EXCEPT ![p] = y], ~Making(y),
         y.pc = "regen" => updateorigin,
         Enters(pr[p]) => Enters(y) /\ Same(y.rec, pr[p].rec),
         ~updateorigin /\ Leaves(pr[p]) => Leaves(y) /\ Same(y.rec, pr[p].rec),
         UNCHANGED <<dir, origin, updateorigin>>,
         ~loose' /\ ~disorder' => ~loose /\ ~disorder
  PROVE  Origins'
<1>1. ASSUME NEW r, Coming(pr, r) PROVE Coming(pr', r)
  <2>1. Enters(pr[p]) /\ Same(pr[p].rec, r) => Enters(y) /\ Same(y.rec, r)
    BY DEF Same
  <2> QED BY <1>1, <2>1, OriginParts, ComingOn
<1>2. Fits(origin, dir, pr) => Fits(origin', dir', pr')
  BY <1>1 DEF Fits, Covered
<1>3. ASSUME ~updateorigin, NEW r, Going(pr, r) PROVE Going(pr', r)
  <2>1. Leaves(pr[p]) /\ Same(pr[p].rec, r) => Leaves(y) /\ Same(y.rec, r)
    BY <1>3 DEF Same
  <2> QED BY <1>3, <2>1, OriginParts, GoingOn
<1>4. ~updateorigin' /\ Backed(origin, dir, pr) => Backed(origin', dir', pr')
  BY <1>3 DEF Backed
<1> QED
  BY <1>2, <1>4, OriginsStep

LEMMA OriginInvIs ==
  ASSUME Origins', OneMakes', ProcsApt', DirSolid'
  PROVE  OriginInv'
BY DEF OriginInv

\* A step of p that is not about .ORIGIN.
LEMMA QuietOrigin ==
  ASSUME KInv, NEW p \in Procs, NEW y, pr' = [pr EXCEPT ![p] = y], ~Making(y), Apt(y),
         y.pc = "regen" => updateorigin,
         Enters(pr[p]) => Enters(y) /\ Same(y.rec, pr[p].rec),
         ~updateorigin /\ Leaves(pr[p]) => Leaves(y) /\ Same(y.rec, pr[p].rec),
         UNCHANGED <<dir, origin, updateorigin, loose, disorder>>
  PROVE  OriginInv'
<1>1. Origins'
  BY OriginsStay
<1>2. OneMakes'
  BY OriginParts, OneMakesStep
<1>3. ProcsApt'
  BY OriginParts, AptStep
<1>4. DirSolid'
  BY OriginParts DEF DirSolid
<1> QED
  BY <1>1, <1>2, <1>3, <1>4, OriginInvIs

-----------------------------------------------------------------------------
(* Steps that are not about .ORIGIN *)

LEMMA IdleApt == ~Making(Idle) /\ ~Enters(Idle) /\ ~Leaves(Idle) /\ Apt(Idle) /\ Idle.pc = "idle"
<1>1. Idle.pc = "idle" /\ Idle.op = ""
  BY DEF Idle
<1> QED
  BY <1>1 DEF Making, Enters, Leaves, Apt

LEMMA OriginDone ==
  ASSUME KInv, NEW p \in Procs, Done(p), ~Enters(pr[p]), updateorigin \/ ~Leaves(pr[p]),
         UNCHANGED <<dir, origin, updateorigin, loose, disorder>>
  PROVE  OriginInv'
<1>1. PICK y : y = Idle
  OBVIOUS
<1>2. pr' = [pr EXCEPT ![p] = y] /\ ~Making(y) /\ Apt(y) /\ y.pc = "idle"
  BY <1>1, IdleApt DEF Done
<1> QED
  BY <1>2, QuietOrigin

LEMMA OriginBegins ==
  ASSUME KInv, NEW p \in Procs, NEW c, NEW o, NEW r, NEW e, NEW t,
         Starts(p, Begun(c, o, r, e, t)), Apt(Begun(c, o, r, e, t)),
         c \notin {"regen", "rewrite", "clear"},
         UNCHANGED <<dir, origin, updateorigin, loose, disorder>>
  PROVE  OriginInv'
<1>1. PICK y : y = Begun(c, o, r, e, t)
  OBVIOUS
<1>2. pr' = [pr EXCEPT ![p] = y] /\ pr[p].pc = "idle"
  BY <1>1 DEF Starts
<1>3. y.pc = c /\ Apt(y)
  BY <1>1 DEF Begun
<1>4. ~Making(y) /\ ~Enters(pr[p]) /\ ~Leaves(pr[p])
  BY <1>2, <1>3 DEF Making, Enters, Leaves
<1> QED
  BY <1>2, <1>3, <1>4, QuietOrigin

\* p moves on with the record it has.
LEMMA OriginMoves ==
  ASSUME KInv, NEW p \in Procs, NEW c, Moves(p, c),
         c \notin {"append", "check", "insert", "rewrite", "clear"},
         c = "move" => pr[p].op = "undelete", c = "owrite" => pr[p].op = "edit",
         c = "regen" => updateorigin,
         Enters(pr[p]) => c \in {"origin", "regen"},
         ~updateorigin /\ Leaves(pr[p]) => c \in {"origin", "ocut"},
         UNCHANGED <<dir, origin, updateorigin, loose, disorder>>
  PROVE  OriginInv'
<1>1. PICK y : pr' = [pr EXCEPT ![p] = y] /\ y.pc = c /\ y.op = pr[p].op /\ y.rec = pr[p].rec
  BY DEF Moves
<1>2. Apt(pr[p])
  BY OriginParts DEF ProcsApt
<1>3. Apt(y)
  BY <1>1, <1>2 DEF Apt
<1>4. ~Making(y) /\ Same(y.rec, pr[p].rec)
  BY <1>1 DEF Making, Same
<1>5. Enters(pr[p]) => Enters(y)
  BY <1>1 DEF Enters
<1>6. ~updateorigin /\ Leaves(pr[p]) => Leaves(y)
  BY <1>1 DEF Leaves
<1> QED
  BY <1>1, <1>3, <1>4, <1>5, <1>6, QuietOrigin

LEMMA PostFits ==
  ASSUME KInv, NEW p \in Procs, NEW root \in BOOLEAN, Post(p, root)
  PROVE  OriginInv'
<1>1. PICK n \in Nat : n = posted
  BY OriginParts
<1>2. PICK r : r = [art |-> n + 1, kind |-> "M", id |-> 0, root |-> root]
  OBVIOUS
<1>3. PICK y : y = Begun("append", "post", r, 0, 0)
  OBVIOUS
<1>4. Starts(p, [Idle EXCEPT !.pc = "append", !.op = "post", !.rec = r])
  BY <1>1, <1>2 DEF Post
<1>5. Starts(p, y)
  BY <1>3, <1>4, BegunIs
<1>6. y.pc = "append" /\ y.op = "post" /\ y.rec.art # 0
  BY <1>2, <1>3 DEF Begun
<1>7. Apt(y)
  BY <1>6 DEF Apt
<1>8. UNCHANGED <<dir, origin, updateorigin, loose, disorder>>
  BY DEF Post, shm, ghosts
<1> QED
  BY <1>3, <1>5, <1>7, <1>8, OriginBegins

LEMMA DeleteFits ==
  ASSUME KInv, NEW p \in Procs, NEW i \in 1..Len(dir), NEW ent \in 0..Len(dir), Delete(p, i, ent)
  PROVE  OriginInv'
<1>1. PICK y : y = Begun("map", "delete", dir[i], ent, 0)
  OBVIOUS
<1>2. Starts(p, y) /\ UNCHANGED <<dir, origin, updateorigin, loose, disorder>>
  BY <1>1, BegunIs DEF Delete, files, shm
<1>3. y.pc = "map" /\ y.op = "delete"
  BY <1>1 DEF Begun
<1>4. Apt(y)
  BY <1>3 DEF Apt
<1> QED
  BY <1>1, <1>2, <1>4, OriginBegins

LEMMA UndeleteFits ==
  ASSUME KInv, NEW p \in Procs, NEW i \in 1..Len(deleted), Undelete(p, i)
  PROVE  OriginInv'
<1>1. PICK y : y = Begun("check", "undelete", deleted[i], i, 0)
  OBVIOUS
<1>2. Starts(p, y) /\ UNCHANGED <<dir, origin, updateorigin, loose, disorder>>
  BY <1>1, BegunIs DEF Undelete, files, shm, ghosts
<1>3. y.pc = "check" /\ y.op = "undelete" /\ y.rec.art # 0
  BY <1>1 DEF Begun, Undelete
<1>4. Apt(y)
  BY <1>3 DEF Apt
<1> QED
  BY <1>1, <1>2, <1>4, OriginBegins

LEMMA EditTitleFits ==
  ASSUME KInv, NEW p \in Procs, NEW i \in 1..Len(dir), EditTitle(p, i)
  PROVE  OriginInv'
<1>1. PICK y : y = Begun("find", "edit", dir[i], i, 0)
  OBVIOUS
<1>2. Starts(p, y) /\ UNCHANGED <<dir, origin, updateorigin, loose, disorder>>
  BY <1>1, BegunIs DEF EditTitle, files, shm, ghosts
<1>3. y.pc = "find" /\ y.op = "edit" /\ y.rec.art # 0
  BY <1>1 DEF Begun, EditTitle
<1>4. Apt(y)
  BY <1>3 DEF Apt
<1> QED
  BY <1>1, <1>2, <1>4, OriginBegins

LEMMA DeleteRangeFits ==
  ASSUME KInv, NEW p \in Procs, NEW i \in 1..Len(dir), NEW j \in 1..Len(dir), DeleteRange(p, i, j)
  PROVE  OriginInv'
<1>1. PICK y : y = Begun("stat", "range", Zero, i, j)
  OBVIOUS
<1>2. Starts(p, y) /\ UNCHANGED <<dir, origin, updateorigin, loose, disorder>>
  BY <1>1, BegunOnRange DEF DeleteRange, files, shm
<1>3. y.pc = "stat" /\ y.op = "range"
  BY <1>1 DEF Begun
<1>4. Apt(y)
  BY <1>3 DEF Apt
<1> QED
  BY <1>1, <1>2, <1>4, OriginBegins

LEMMA MapFits ==
  ASSUME KInv, NEW p \in Procs, Map(p)
  PROVE  OriginInv'
<1>1. /\ pr[p].pc = "map" /\ UNCHANGED <<dir, origin, updateorigin, loose, disorder>>
      /\ Done(p) \/ pr' = [pr EXCEPT ![p].pc = "cut", ![p].size = Len(dir)]
  BY DEF Map, files, shm, ghosts
<1>2. ~Enters(pr[p]) /\ ~Leaves(pr[p])
  BY <1>1 DEF Enters, Leaves
<1>3. Done(p) \/ Moves(p, "cut")
  BY <1>1, OriginParts, SizeMoves
<1> QED
  BY <1>1, <1>2, <1>3, OriginDone, OriginMoves

LEMMA cancelpostFits ==
  ASSUME KInv, NEW p \in Procs, cancelpost(p)
  PROVE  OriginInv'
<1>1. /\ pr[p].pc = "cancel" /\ Done(p) /\ UNCHANGED <<dir, origin, updateorigin, loose, disorder>>
  BY DEF cancelpost, shm, ghosts
<1>2. ~Enters(pr[p]) /\ ~Leaves(pr[p])
  BY <1>1 DEF Enters, Leaves
<1> QED
  BY <1>1, <1>2, OriginDone

LEMMA CheckFits ==
  ASSUME KInv, NEW p \in Procs, Check(p)
  PROVE  OriginInv'
<1>1. /\ pr[p].pc = "check" /\ UNCHANGED <<dir, origin, updateorigin, loose, disorder>>
      /\ Goto(p, "move") \/ Done(p)
  BY DEF Check, files, shm, ghosts
<1>2. ~Enters(pr[p]) /\ ~Leaves(pr[p])
  BY <1>1 DEF Enters, Leaves
<1>3. pr[p].op = "undelete"
  BY <1>1, OriginParts DEF ProcsApt, Apt
<1>4. Done(p) \/ Moves(p, "move")
  BY <1>1, OriginParts, GotoMoves
<1> QED
  BY <1>1, <1>2, <1>3, <1>4, OriginDone, OriginMoves

LEMMA MoveFits ==
  ASSUME KInv, NEW p \in Procs, Move(p)
  PROVE  OriginInv'
<1>1. PICK x : x = pr[p]
  OBVIOUS
<1>2. /\ x.pc = "move" /\ UNCHANGED <<dir, origin, updateorigin, loose, disorder>>
      /\ pr' = [pr EXCEPT ![p].pc = "insert", ![p].rec.kind = "M"]
  BY <1>1 DEF Move, shm
<1>3. Apt(x) /\ x.rec \in RecordsTo(posted) /\ posted \in Nat
  BY <1>1, OriginParts, Parts, AtHand DEF ProcsApt
<1>4. PICK y : /\ pr' = [pr EXCEPT ![p] = y] /\ y.pc = "insert" /\ y.op = x.op
               /\ y.rec = [x.rec EXCEPT !.kind = "M"]
  BY <1>1, <1>2, OriginParts, KindMoves
<1>5. y.rec.art = x.rec.art
  BY <1>3, <1>4 DEF RecordsTo
<1>6. Apt(y)
  BY <1>2, <1>3, <1>4, <1>5 DEF Apt
<1>7. ~Making(y) /\ ~Enters(x) /\ ~Leaves(x)
  BY <1>2, <1>4 DEF Making, Enters, Leaves
<1> QED
  BY <1>1, <1>2, <1>4, <1>6, <1>7, QuietOrigin

LEMMA BlankFits ==
  ASSUME KInv, NEW p \in Procs, Blank(p)
  PROVE  OriginInv'
<1>1. /\ pr[p].pc = "blank" /\ Done(p) /\ UNCHANGED <<dir, origin, updateorigin, loose, disorder>>
  BY DEF Blank, shm
<1>2. ~Enters(pr[p]) /\ ~Leaves(pr[p])
  BY <1>1 DEF Enters, Leaves
<1> QED
  BY <1>1, <1>2, OriginDone

LEMMA FindFits ==
  ASSUME KInv, NEW p \in Procs, Find(p)
  PROVE  OriginInv'
<1>1. PICK e : e = CHOOSE i \in {k \in 1..pr[p].ent : k <= Len(dir) /\ SameFile(dir[k], pr[p].rec)} :
                     \A j \in {k \in 1..pr[p].ent : k <= Len(dir) /\ SameFile(dir[k], pr[p].rec)} :
                       j <= i
  OBVIOUS
<1>2. /\ pr[p].pc = "find" /\ UNCHANGED <<dir, origin, updateorigin, loose, disorder>>
      /\ Done(p) \/ pr' = [pr EXCEPT ![p].pc = "write", ![p].ent = e]
  BY <1>1 DEF Find, files, shm, ghosts
<1>3. ~Enters(pr[p]) /\ ~Leaves(pr[p])
  BY <1>2 DEF Enters, Leaves
<1>4. Done(p) \/ Moves(p, "write")
  BY <1>2, OriginParts, PlaceMoves
<1> QED
  BY <1>2, <1>3, <1>4, OriginDone, OriginMoves

LEMMA FindOriginFits ==
  ASSUME KInv, NEW p \in Procs, FindOrigin(p)
  PROVE  OriginInv'
<1>1. PICK e : e = Search_Bin(origin, pr[p].rec.id)
  OBVIOUS
<1>2. /\ pr[p].op = "edit" /\ UNCHANGED <<dir, origin, updateorigin, loose, disorder>>
      /\ Done(p) \/ pr' = [pr EXCEPT ![p].pc = "owrite", ![p].ent = e]
  BY <1>1 DEF FindOrigin, files, shm, ghosts
<1>3. ~Enters(pr[p]) /\ ~Leaves(pr[p])
  BY <1>2 DEF Enters, Leaves
<1>4. Done(p) \/ Moves(p, "owrite")
  BY <1>2, OriginParts, PlaceMoves
<1> QED
  BY <1>2, <1>3, <1>4, OriginDone, OriginMoves

LEMMA StatFits ==
  ASSUME KInv, NEW p \in Procs, Stat(p)
  PROVE  OriginInv'
<1>1. /\ pr[p].pc = "stat" /\ UNCHANGED <<dir, origin, updateorigin, loose, disorder>>
      /\ \/ Done(p)
         \/ pr' = [pr EXCEPT ![p].pc = "rmove", ![p].size = Len(dir),
                             ![p].to = IF @ > Len(dir) THEN Len(dir) ELSE @]
  BY DEF Stat, files, shm, ghosts
<1>2. ~Enters(pr[p]) /\ ~Leaves(pr[p])
  BY <1>1 DEF Enters, Leaves
<1>3. Done(p) \/ Moves(p, "rmove")
  BY <1>1, OriginParts, RangeMoves
<1> QED
  BY <1>1, <1>2, <1>3, OriginDone, OriginMoves

LEMMA RegenFits ==
  ASSUME KInv, NEW p \in Procs, Regen(p)
  PROVE  OriginInv'
<1>1. updateorigin /\ Goto(p, "regen") /\ UNCHANGED <<dir, origin, updateorigin, loose, disorder>>
  BY DEF Regen, files, shm, ghosts
<1>2. Moves(p, "regen")
  BY <1>1, OriginParts, GotoMoves
<1> QED
  BY <1>1, <1>2, OriginMoves

-----------------------------------------------------------------------------
(* Threads enter .DIR and .ORIGIN *)

\* A thread q comes to .DIR, and p is to enter it.
LEMMA ThreadComes ==
  ASSUME KInv, NEW p \in Procs, NEW y, pr' = [pr EXCEPT ![p] = y],
         ~Making(y), Apt(y), y.pc # "regen", ~Enters(pr[p]), ~Leaves(pr[p]),
         NEW q, With(dir', dir, q), q.root => Enters(y) /\ y.rec = q, q.art # 0,
         UNCHANGED <<origin, updateorigin, loose, disorder>>
  PROVE  OriginInv'
<1>1. ASSUME NEW r, Coming(pr, r) PROVE Coming(pr', r)
  BY <1>1, OriginParts, ComingOn
<1>2. ASSUME NEW r, Going(pr, r) PROVE Going(pr', r)
  BY <1>2, OriginParts, GoingOn
<1>3. q.root => Coming(pr', q)
  BY OriginParts, Stepped DEF Coming, Same
<1>4. /\ \A i \in 1..Len(dir') : dir'[i] = q \/ \E j \in 1..Len(dir) : dir'[i] = dir[j]
      /\ \A j \in 1..Len(dir) : \E i \in 1..Len(dir') : dir'[i] = dir[j]
  BY DEF With
<1>5. ASSUME NEW r, ThreadIn(dir, r) PROVE ThreadIn(dir', r)
  BY <1>4, <1>5 DEF ThreadIn
<1>6. Fits(origin, dir, pr) => Fits(origin', dir', pr')
  <2> SUFFICES ASSUME Covered(origin, dir, pr), NEW i \in 1..Len(dir'), dir'[i].root
               PROVE  On(origin, dir'[i]) \/ Coming(pr', dir'[i])
    BY DEF Fits, Covered
  <2>1. CASE dir'[i] = q
    BY <1>3, <2>1
  <2>2. ASSUME NEW j \in 1..Len(dir), dir'[i] = dir[j] PROVE On(origin, dir[j]) \/ Coming(pr', dir[j])
    BY <1>1, <2>2 DEF Covered
  <2> QED BY <1>4, <2>1, <2>2
<1>7. Backed(origin, dir, pr) => Backed(origin', dir', pr')
  BY <1>2, <1>5 DEF Backed
<1>8. Origins'
  BY <1>6, <1>7, OriginsStep
<1>9. OneMakes'
  BY OriginParts, OneMakesStep
<1>10. ProcsApt'
  BY OriginParts, AptStep
<1>11. DirSolid'
  <2>1. ~disorder => \A j \in 1..Len(dir) : dir[j].art # 0
    BY OriginParts DEF DirSolid
  <2>2. ~disorder' => \A i \in 1..Len(dir') : dir'[i].art # 0
    BY <1>4, <2>1
  <2> QED BY <2>2 DEF DirSolid
<1> QED
  BY <1>8, <1>9, <1>10, <1>11, OriginInvIs

LEMMA AppendDirFits ==
  ASSUME KInv, NEW p \in Procs, AppendDir(p)
  PROVE  OriginInv'
<1>1. PICK x : x = pr[p]
  OBVIOUS
<1>2. PICK r : r = [x.rec EXCEPT !.id = nowid + 1]
  OBVIOUS
<1>3. /\ x.pc = "append" /\ dir' = Append(dir, r)
      /\ IF r.root THEN AfterDir(p, r, "idle") ELSE Done(p)
      /\ UNCHANGED <<origin, updateorigin, loose, disorder>>
  BY <1>1, <1>2 DEF AppendDir, ghosts
<1>4. x.rec \in RecordsTo(posted) /\ Apt(x) /\ posted \in Nat
  BY <1>1, OriginParts, Parts, AtHand DEF ProcsApt
<1>5. r.art = x.rec.art /\ x.op = "post" /\ r.art # 0
  BY <1>2, <1>3, <1>4 DEF Apt, RecordsTo
<1>6. PICK y : /\ pr' = [pr EXCEPT ![p] = y] /\ Apt(y) /\ y.pc \in {"origin", "idle"}
               /\ r.root => Enters(y) /\ y.rec = r
  <2>1. CASE r.root
    <3>1. PICK y : /\ pr' = [pr EXCEPT ![p] = y] /\ y.op = x.op /\ y.rec = r /\ y.pc = "origin"
      BY <1>1, <1>3, <2>1, OriginParts, AfterDirMoves
    <3>2. Apt(y) /\ Enters(y)
      BY <1>5, <3>1 DEF Apt, Enters
    <3> QED BY <3>1, <3>2
  <2>2. CASE ~r.root
    BY <1>3, <2>2, IdleApt DEF Done
  <2> QED BY <2>1, <2>2
<1>7. With(dir', dir, r)
  <2>1. PICK n \in Nat : n = Len(dir)
    BY OriginParts
  <2>2. dir \in Seq(RecordsTo(posted))
    BY OriginParts
  <2>3. Len(dir') = n+1 /\ dir'[n+1] = r /\ \A i \in 1..n : dir'[i] = dir[i]
    BY <1>3, <2>1, <2>2
  <2>4. \A i \in 1..n+1 : i = n+1 \/ i \in 1..n
    OBVIOUS
  <2>5. n+1 \in 1..n+1 /\ \A i \in 1..n : i \in 1..n+1
    OBVIOUS
  <2> QED BY <2>1, <2>3, <2>4, <2>5 DEF With
<1>8. ~Enters(x) /\ ~Leaves(x) /\ ~Making(y)
  BY <1>3, <1>6 DEF Enters, Leaves, Making
<1> QED
  BY <1>1, <1>3, <1>5, <1>6, <1>7, <1>8, ThreadComes

LEMMA InsertFits ==
  ASSUME KInv, NEW p \in Procs, Insert(p)
  PROVE  OriginInv'
<1>1. PICK x : x = pr[p]
  OBVIOUS
<1>2. PICK r : r = x.rec
  OBVIOUS
<1>3. PICK q : q = IF Renumbers(dir, r) THEN Renumbered(r) ELSE r
  OBVIOUS
<1>4. /\ x.pc = "insert" /\ dir' = Inserted(dir, r) /\ AfterDir(p, q, "blank")
      /\ UNCHANGED <<origin, updateorigin, loose, disorder>>
  BY <1>1, <1>2, <1>3 DEF Insert, ghosts
<1>5. r \in RecordsTo(posted) /\ Apt(x) /\ posted \in Nat /\ nowid \in Nat
  BY <1>1, <1>2, OriginParts, Parts, AtHand DEF ProcsApt
<1>6. x.op = "undelete" /\ r.art # 0
  BY <1>2, <1>4, <1>5 DEF Apt
<1>7. q.art = r.art
  <2>1. Renumbered(r).art = r.art
    BY <1>5 DEF Renumbered, RecordsTo
  <2> QED BY <1>3, <2>1
<1>8. PICK y : /\ pr' = [pr EXCEPT ![p] = y] /\ y.op = x.op /\ y.rec = q
               /\ y.pc = IF q.root THEN "origin" ELSE "blank"
  BY <1>1, <1>4, OriginParts, AfterDirMoves
<1>9. Apt(y) /\ ~Making(y) /\ y.pc # "regen" /\ (q.root => Enters(y))
  BY <1>6, <1>7, <1>8 DEF Apt, Making, Enters
<1>10. ~Enters(x) /\ ~Leaves(x)
  BY <1>4 DEF Enters, Leaves
<1>11. With(dir', dir, q)
  BY <1>3, <1>4, <1>5, OriginParts, InsertedWith
<1> QED
  BY <1>1, <1>4, <1>6, <1>7, <1>8, <1>9, <1>10, <1>11, ThreadComes

\* One whose id is in .DIR is there.
LEMMA NotGone ==
  ASSUME KInv, NEW p \in Procs, ~disorder, pr[p].pc # "append", pr[p].rec.art # 0, ~Gone(pr[p].rec)
  PROVE  ThreadIn(dir, pr[p].rec)
<1>1. PICK i \in 1..Len(dir) : dir[i].root /\ dir[i].id = pr[p].rec.id
  BY DEF Gone
<1>2. dir[i].art # 0
  BY OriginParts DEF DirSolid
<1>3. dir[i] \in Known /\ pr[p].rec \in Known
  BY KnownRecords
<1>4. dir[i].art = pr[p].rec.art
  BY <1>1, <1>2, <1>3, OriginParts, Parts DEF OneName
<1> QED
  BY <1>1, <1>4 DEF ThreadIn, Same

\* p enters its thread in .ORIGIN.
LEMMA ThreadListed ==
  ASSUME KInv, NEW p \in Procs, NEW y, pr' = [pr EXCEPT ![p] = y],
         ~Making(y), Apt(y), y.pc # "regen", ~Leaves(pr[p]), ~updateorigin,
         ~loose' /\ ~disorder' => ~loose /\ ~disorder,
         ~loose' /\ ~disorder' =>
           /\ With(origin', origin, pr[p].rec) /\ ThreadIn(dir, pr[p].rec)
           /\ SortedSeq(origin) => SortedSeq(origin'),
         UNCHANGED <<dir, updateorigin, disorder>>
  PROVE  OriginInv'
<1>1. PICK r : r = pr[p].rec
  OBVIOUS
<1>2. ASSUME ~loose', ~disorder'
      PROVE  /\ \A i \in 1..Len(origin') : origin'[i] = r \/ \E j \in 1..Len(origin) : origin'[i] = origin[j]
             /\ \A j \in 1..Len(origin) : \E i \in 1..Len(origin') : origin'[i] = origin[j]
             /\ \E i \in 1..Len(origin') : origin'[i] = r
  BY <1>1, <1>2 DEF With
<1>3. ASSUME ~loose', ~disorder', Fits(origin, dir, pr) PROVE Fits(origin', dir', pr')
  <2>1. ASSUME NEW t, On(origin, t) PROVE On(origin', t)
    BY <1>2, <1>3, <2>1 DEF On
  <2>2. On(origin', r)
    BY <1>2, <1>3 DEF On, Same
  <2>3. ASSUME NEW t, Coming(pr, t) PROVE On(origin', t) \/ Coming(pr', t)
    <3>1. CASE Same(r, t)
      BY <2>2, <3>1 DEF On, Same
    <3>2. CASE ~Same(r, t)
      BY <1>1, <2>3, <3>2, OriginParts, ComingOn
    <3> QED BY <3>1, <3>2
  <2>4. Covered(origin', dir, pr')
    BY <1>3, <2>1, <2>3 DEF Fits, Covered
  <2> QED BY <1>3, <2>4 DEF Fits
<1>4. ASSUME ~loose', ~disorder', Backed(origin, dir, pr) PROVE Backed(origin', dir', pr')
  <2>1. ASSUME NEW t, Going(pr, t) PROVE Going(pr', t)
    BY <2>1, OriginParts, GoingOn
  <2>2. ThreadIn(dir, r)
    BY <1>1, <1>4
  <2> QED BY <1>2, <1>4, <2>1, <2>2 DEF Backed
<1>5. Origins'
  BY <1>3, <1>4, OriginsStep
<1>6. OneMakes'
  BY OriginParts, OneMakesStep
<1>7. ProcsApt'
  BY OriginParts, AptStep
<1>8. DirSolid'
  BY OriginParts DEF DirSolid
<1> QED
  BY <1>5, <1>6, <1>7, <1>8, OriginInvIs

LEMMA AppendOriginFits ==
  ASSUME KInv, NEW p \in Procs, AppendOrigin(p)
  PROVE  OriginInv'
<1>1. PICK r : r = pr[p].rec
  OBVIOUS
<1>2. /\ pr[p].pc = "origin" /\ pr[p].op = "post" /\ ~updateorigin /\ Done(p)
      /\ origin' = Append(origin, r) /\ loose' = (loose \/ Gone(r) \/ Overtaken(r))
      /\ UNCHANGED <<dir, updateorigin, disorder>>
  BY <1>1 DEF AppendOrigin, shm
<1>3. PICK y : y = Idle
  OBVIOUS
<1>4. pr' = [pr EXCEPT ![p] = y] /\ ~Making(y) /\ Apt(y) /\ y.pc = "idle"
  BY <1>2, <1>3, IdleApt DEF Done
<1>5. ~Leaves(pr[p])
  BY <1>2 DEF Leaves
<1>6. Apt(pr[p]) /\ r \in RecordsTo(posted) /\ posted \in Nat /\ origin \in Seq(RecordsTo(posted))
  BY <1>1, OriginParts, Parts, AtHand DEF ProcsApt
<1>7. r.art # 0 /\ r.id \in Nat
  <2>1. r.art # 0
    BY <1>1, <1>2, <1>6 DEF Apt
  <2> QED BY <1>6, <2>1, RecordsAre
<1>8. ~loose' => ~loose /\ ~Gone(r) /\ ~Overtaken(r)
  BY <1>2
<1>9. PICK n \in Nat : n = Len(origin)
  BY <1>6
<1>10. Len(origin') = n+1 /\ origin'[n+1] = r /\ \A i \in 1..n : origin'[i] = origin[i]
  BY <1>2, <1>6, <1>9
<1>11. n+1 \in 1..n+1 /\ \A i \in 1..n+1 : i = n+1 \/ i \in 1..n
  OBVIOUS
<1>12. \A i \in 1..n : i \in 1..n+1
  OBVIOUS
<1>13. With(origin', origin, r)
  BY <1>9, <1>10, <1>11, <1>12 DEF With
<1>14. ASSUME ~Overtaken(r), SortedSeq(origin) PROVE SortedSeq(origin')
  <2>1. \A i \in 1..n : origin[i].id < r.id
    <3>1. \A i \in 1..n : origin[i].id \in Nat
      <4>1. \A i \in 1..n : origin[i] \in RecordsTo(posted)
        BY <1>6, <1>9
      <4> QED BY <1>6, <4>1, RecordsAre
    <3> QED BY <1>7, <1>9, <1>14, <3>1 DEF Overtaken
  <2>2. \A i, j \in 1..n : i < j => origin[i].id < origin[j].id
    BY <1>9, <1>14 DEF SortedSeq
  <2>3. \A i, j \in 1..n+1 : i < j => i \in 1..n
    OBVIOUS
  <2>4. \A i, j \in 1..n+1 : i < j => origin'[i].id < origin'[j].id
    BY <1>10, <1>11, <2>1, <2>2, <2>3
  <2> QED BY <1>10, <2>4 DEF SortedSeq
<1>15. ~loose' /\ ~disorder' => ThreadIn(dir, r)
  BY <1>1, <1>2, <1>7, <1>8, NotGone
<1> QED
  BY <1>1, <1>2, <1>4, <1>5, <1>8, <1>13, <1>14, <1>15, ThreadListed

LEMMA InsertOriginFits ==
  ASSUME KInv, NEW p \in Procs, InsertOrigin(p)
  PROVE  OriginInv'
<1>1. PICK r : r = pr[p].rec
  OBVIOUS
<1>2. /\ pr[p].pc = "origin" /\ pr[p].op = "undelete" /\ ~updateorigin /\ Goto(p, "blank")
      /\ origin' = Inserted(origin, r) /\ loose' = (loose \/ Renumbers(origin, r) \/ Gone(r))
      /\ UNCHANGED <<dir, updateorigin, disorder>>
  BY <1>1 DEF InsertOrigin
<1>3. PICK y : /\ pr' = [pr EXCEPT ![p] = y] /\ y.pc = "blank" /\ y.op = pr[p].op
               /\ y.rec = pr[p].rec
  BY <1>2, OriginParts, GotoMoves DEF Moves
<1>4. Apt(pr[p]) /\ r \in RecordsTo(posted) /\ posted \in Nat /\ nowid \in Nat
      /\ origin \in Seq(RecordsTo(posted))
  BY <1>1, OriginParts, Parts, AtHand DEF ProcsApt
<1>5. r.art # 0
  BY <1>1, <1>2, <1>4 DEF Apt
<1>6. Apt(y) /\ ~Making(y) /\ ~Leaves(pr[p])
  BY <1>1, <1>2, <1>3, <1>5 DEF Apt, Making, Leaves
<1>7. ~loose' => ~loose /\ ~Renumbers(origin, r) /\ ~Gone(r)
  BY <1>2
<1>8. ASSUME ~Renumbers(origin, r) PROVE With(origin', origin, r)
  BY <1>2, <1>4, <1>8, InsertedWith
<1>9. ASSUME ~Renumbers(origin, r), SortedSeq(origin) PROVE SortedSeq(origin')
  BY <1>2, <1>4, <1>9, InsertedSorted
<1>10. ~loose' /\ ~disorder' => ThreadIn(dir, r)
  BY <1>1, <1>2, <1>5, <1>7, NotGone
<1> QED
  BY <1>1, <1>2, <1>3, <1>6, <1>7, <1>8, <1>9, <1>10, ThreadListed

-----------------------------------------------------------------------------
(* Threads leave .DIR and .ORIGIN *)

LEMMA MapOriginFits ==
  ASSUME KInv, NEW p \in Procs, MapOrigin(p)
  PROVE  OriginInv'
<1>1. /\ pr[p].op = "delete" /\ ~updateorigin
      /\ UNCHANGED <<dir, origin, updateorigin, loose, disorder>>
  BY DEF MapOrigin, files, shm, ghosts
<1>2. ~Enters(pr[p])
  BY <1>1 DEF Enters
<1>3. CASE origin # <<>>
  <2>1. pr' = [pr EXCEPT ![p].pc = "ocut", ![p].size = Len(origin)]
    BY <1>3 DEF MapOrigin
  <2>2. Moves(p, "ocut")
    BY <2>1, OriginParts, SizeMoves
  <2> QED BY <1>1, <1>2, <2>2, OriginMoves
<1>4. CASE origin = <<>>
  <2>1. Goto(p, "cancel")
    BY <1>4 DEF MapOrigin
  <2>2. PICK y : /\ pr' = [pr EXCEPT ![p] = y] /\ y.pc = "cancel" /\ y.op = pr[p].op
                 /\ y.rec = pr[p].rec
    BY <2>1, OriginParts, GotoMoves DEF Moves
  <2>3. Apt(y) /\ ~Making(y)
    BY <1>1, <2>2 DEF Apt, Making
  <2>4. \A r : Coming(pr, r) => Coming(pr', r)
    BY <1>2, <2>2, OriginParts, ComingOn
  <2>5. Fits(origin, dir, pr) => Fits(origin', dir', pr')
    BY <1>1, <2>4 DEF Fits, Covered
  <2>6. Backed(origin', dir', pr')
    <3>1. Len(origin') = 0
      BY <1>1, <1>4
    <3> QED BY <3>1 DEF Backed
  <2>7. Origins'
    BY <1>1, <2>2, <2>3, <2>5, <2>6, OriginsStep
  <2>8. OneMakes'
    BY <1>1, <2>2, <2>3, OriginParts, OneMakesStep
  <2>9. ProcsApt'
    BY <2>2, <2>3, OriginParts, AptStep
  <2>10. DirSolid'
    BY <1>1, OriginParts DEF DirSolid
  <2> QED BY <2>7, <2>8, <2>9, <2>10, OriginInvIs
<1> QED
  BY <1>3, <1>4

\* Of .DIR only what was in it is left.
LEMMA FewerThreads ==
  ASSUME KInv, NEW p \in Procs, NEW y, pr' = [pr EXCEPT ![p] = y], ~Making(y), Apt(y),
         y.pc # "regen", ~Enters(pr[p]), origin' = origin, updateorigin => updateorigin',
         ~disorder' => ~disorder /\ \A i \in 1..Len(dir') : \E j \in 1..Len(dir) : dir'[i] = dir[j],
         ~loose' /\ ~disorder' => ~loose /\ ~disorder,
         ~loose' /\ ~disorder' /\ ~updateorigin' =>
           \A i \in 1..Len(origin) :
             ThreadIn(dir, origin[i]) \/ Going(pr, origin[i])
               => ThreadIn(dir', origin[i]) \/ Going(pr', origin[i])
  PROVE  OriginInv'
<1>1. ASSUME NEW r, Coming(pr, r) PROVE Coming(pr', r)
  BY <1>1, OriginParts, ComingOn
<1>2. ASSUME ~disorder', Fits(origin, dir, pr) PROVE Fits(origin', dir', pr')
  <2> SUFFICES ASSUME NEW i \in 1..Len(dir'), dir'[i].root
               PROVE  On(origin, dir'[i]) \/ Coming(pr', dir'[i])
    BY <1>2 DEF Fits, Covered
  <2>1. PICK j \in 1..Len(dir) : dir'[i] = dir[j]
    BY <1>2
  <2>2. On(origin, dir[j]) \/ Coming(pr, dir[j])
    BY <1>2, <2>1 DEF Fits, Covered
  <2> QED BY <1>1, <2>1, <2>2
<1>3. ASSUME ~loose', ~disorder', ~updateorigin', Backed(origin, dir, pr)
      PROVE  Backed(origin', dir', pr')
  BY <1>3 DEF Backed
<1>4. Origins'
  BY <1>2, <1>3, OriginsStep
<1>5. OneMakes'
  BY OriginParts, OneMakesStep
<1>6. ProcsApt'
  BY OriginParts, AptStep
<1>7. DirSolid'
  <2>1. ASSUME ~disorder', NEW i \in 1..Len(dir') PROVE dir'[i].art # 0
    <3>1. PICK j \in 1..Len(dir) : dir'[i] = dir[j]
      BY <2>1
    <3>2. ~disorder
      BY <2>1
    <3> QED BY <3>1, <3>2, OriginParts DEF DirSolid
  <2> QED BY <2>1 DEF DirSolid
<1> QED
  BY <1>4, <1>5, <1>6, <1>7, OriginInvIs

LEMMA CutFits ==
  ASSUME KInv, NEW p \in Procs, Cut(p)
  PROVE  OriginInv'
<1>1. PICK x : x = pr[p]
  OBVIOUS
<1>2. PICK n : n = x.size
  OBVIOUS
<1>3. PICK v : v = View(dir, n)
  OBVIOUS
<1>4. PICK e : e = Locate(v, x.ent, x.rec)
  OBVIOUS
<1>5. /\ x.pc = "cut" /\ UNCHANGED <<origin, updateorigin>>
      /\ e = 0 => Done(p) /\ UNCHANGED <<dir, disorder, loose>>
      /\ e # 0 => /\ dir' = Removed(dir, n, e, e) /\ AfterDir(p, v[e], "cancel")
                  /\ disorder' = (disorder \/ n > Len(dir)) /\ loose' = (loose \/ n # Len(dir))
  BY <1>1, <1>2, <1>3, <1>4 DEF Cut, shm
<1>6. Course(x) /\ x.op = "delete" /\ ~Enters(x) /\ ~Leaves(x)
  BY <1>1, <1>5, OriginParts, OnCourse DEF Course, Enters, Leaves
<1>7. CASE e = 0
  BY <1>1, <1>5, <1>6, <1>7, OriginDone
<1>8. CASE e # 0
  <2>1. /\ posted \in Nat /\ n \in Nat /\ x.ent \in Nat /\ x.rec \in RecordsTo(posted)
        /\ dir \in Seq(RecordsTo(posted)) /\ Len(dir) \in Nat
    BY <1>1, <1>2, OriginParts, Parts, AtHand, ProcessIs
  <2>2. v \in Seq(RecordsTo(posted)) /\ Len(v) = n
    BY <1>3, <2>1, ViewDef
  <2>3. e \in 1..n /\ e \in e..n
    <3>1. e \in 0..n
      BY <1>4, <2>1, <2>2, LocateDef
    <3> QED BY <1>8, <2>1, <3>1
  <2>4. PICK y : /\ pr' = [pr EXCEPT ![p] = y] /\ y.op = x.op /\ y.rec = v[e]
                 /\ y.pc = IF v[e].root THEN "origin" ELSE "cancel"
    BY <1>1, <1>5, <1>8, OriginParts, AfterDirMoves
  <2>5. Apt(y) /\ ~Making(y) /\ y.pc # "regen" /\ (v[e].root => Leaves(y))
    BY <1>6, <2>4 DEF Apt, Making, Leaves
  <2>6. ASSUME n <= Len(dir) PROVE Without(dir', dir, n, e, e)
    BY <1>5, <1>8, <2>1, <2>3, <2>6, RemovedWithout
  <2>7. /\ ~disorder' => ~disorder /\ n <= Len(dir)
        /\ ~loose' => ~loose /\ n = Len(dir)
    <3>1. ~disorder' => ~disorder /\ ~(n > Len(dir))
      BY <1>5, <1>8, Zenon
    <3>2. ~loose' => ~loose /\ n = Len(dir)
      BY <1>5, <1>8, Zenon
    <3> QED BY <2>1, <3>1, <3>2
  <2>8. ASSUME ~disorder', NEW i \in 1..Len(dir') PROVE \E j \in 1..Len(dir) : dir'[i] = dir[j]
    <3>1. PICK m \in 1..n : dir'[i] = dir[m]
      BY <2>6, <2>7, <2>8 DEF Without
    <3>2. m \in 1..Len(dir)
      BY <2>1, <2>7, <2>8
    <3> QED BY <3>1, <3>2
  <2>9. ASSUME NEW r, Going(pr, r) PROVE Going(pr', r)
    BY <1>1, <1>6, <2>4, <2>9, OriginParts, GoingOn
  <2>10. ASSUME ~loose', NEW r, ThreadIn(dir, r) PROVE ThreadIn(dir', r) \/ Going(pr', r)
    <3>1. PICK m \in 1..Len(dir) : dir[m].root /\ Same(dir[m], r)
      BY <2>10 DEF ThreadIn
    <3>2. n = Len(dir) /\ m \in 1..n
      BY <2>7, <2>10
    <3>3. CASE m = e
      <4>1. v[e] = dir[e]
        BY <1>3, <2>1, <2>3, <3>2, ViewAll
      <4>2. Leaves(y) /\ Same(y.rec, r)
        BY <2>4, <2>5, <3>1, <3>3, <4>1
      <4> QED BY <2>4, <4>2, OriginParts, Stepped DEF Going
    <3>4. CASE m # e
      <4>1. Without(dir', dir, n, e, e)
        <5>1. n <= Len(dir)
          BY <2>1, <3>2
        <5> QED BY <2>6, <5>1
      <4>2. m \notin e..e
        BY <2>3, <3>2, <3>4
      <4>3. PICK l \in 1..Len(dir') : dir'[l] = dir[m]
        BY <3>2, <4>1, <4>2 DEF Without
      <4> QED BY <3>1, <4>3 DEF ThreadIn
    <3> QED BY <3>3, <3>4
  <2>11. ASSUME ~loose', NEW i \in 1..Len(origin),
                ThreadIn(dir, origin[i]) \/ Going(pr, origin[i])
         PROVE  ThreadIn(dir', origin[i]) \/ Going(pr', origin[i])
    BY <2>9, <2>10, <2>11
  <2> QED BY <1>1, <1>5, <1>6, <2>4, <2>5, <2>7, <2>8, <2>11, FewerThreads
<1> QED
  BY <1>7, <1>8

LEMMA CutRangeFits ==
  ASSUME KInv, NEW p \in Procs, CutRange(p)
  PROVE  OriginInv'
<1>1. PICK x : x = pr[p]
  OBVIOUS
<1>2. PICK n : n = x.size
  OBVIOUS
<1>3. /\ x.pc = "rcut" /\ dir' = Removed(dir, n, x.ent, x.to) /\ Goto(p, "flag")
      /\ disorder' = (disorder \/ n > Len(dir)) /\ loose' = TRUE /\ UNCHANGED updateorigin
  BY <1>1, <1>2 DEF CutRange, shm
<1>4. /\ posted \in Nat /\ n \in Nat /\ x.ent \in Nat /\ x.to \in Nat
      /\ dir \in Seq(RecordsTo(posted)) /\ Len(dir) \in Nat
      /\ Ready(x.pc, x.rec.art, x.ent, x.to, x.size)
  BY <1>1, <1>2, OriginParts, Parts, AtHand, ProcessIs
<1>5. x.ent \in 1..n /\ x.to \in x.ent..n
  BY <1>2, <1>3, <1>4 DEF Ready
<1>6. PICK y : pr' = [pr EXCEPT ![p] = y] /\ y.pc = "flag" /\ y.op = pr[p].op /\ y.rec = pr[p].rec
  <2>1. Moves(p, "flag")
    BY <1>3, OriginParts, GotoMoves
  <2> QED BY <2>1 DEF Moves
<1>7. ~Making(y) /\ Apt(y)
  <2>1. Apt(pr[p])
    BY OriginParts DEF ProcsApt
  <2> QED BY <1>6, <2>1 DEF Making, Apt
<1>8. Origins'
  BY <1>3 DEF Origins
<1>9. OneMakes'
  BY <1>3, <1>6, <1>7, OriginParts, OneMakesStep
<1>10. ProcsApt'
  BY <1>6, <1>7, OriginParts, AptStep
<1>11. DirSolid'
  <2> SUFFICES ASSUME ~disorder', NEW i \in 1..Len(dir') PROVE dir'[i].art # 0
    BY DEF DirSolid
  <2>1. ~disorder /\ ~(n > Len(dir))
    BY <1>3, Zenon
  <2>2. n <= Len(dir)
    BY <1>4, <2>1
  <2>3. Without(dir', dir, n, x.ent, x.to)
    BY <1>3, <1>4, <1>5, <2>2, RemovedWithout
  <2>4. PICK m \in 1..n : dir'[i] = dir[m]
    BY <2>3 DEF Without
  <2>5. m \in 1..Len(dir)
    BY <1>4, <2>2
  <2> QED BY <2>1, <2>4, <2>5, OriginParts DEF DirSolid
<1> QED
  BY <1>8, <1>9, <1>10, <1>11, OriginInvIs

\* The flag stands for whatever .ORIGIN lacks, unless somebody is making it.
LEMMA FlagFits ==
  ASSUME KInv, NEW p \in Procs, Flag(p)
  PROVE  OriginInv'
<1>1. PICK b \in BOOLEAN : b <=> \E q \in Procs : Making(pr[q])
  OBVIOUS
<1>2. /\ pr[p].pc = "flag" /\ updateorigin' = TRUE /\ loose' = (loose /\ b) /\ Done(p)
      /\ UNCHANGED <<dir, origin, disorder>>
  BY <1>1 DEF Flag, files, Regenerating, Making
<1>3. PICK y : y = Idle
  OBVIOUS
<1>4. pr' = [pr EXCEPT ![p] = y] /\ ~Making(y) /\ Apt(y) /\ y.pc = "idle"
  BY <1>2, <1>3, IdleApt DEF Done
<1>5. pr'[p] = y /\ \A q \in Procs : q # p => pr'[q] = pr[q]
  BY <1>4, OriginParts, Stepped
<1>6. ASSUME NEW r, Coming(pr, r) PROVE Coming(pr', r)
  <2>1. ~Enters(pr[p])
    BY <1>2 DEF Enters
  <2> QED BY <1>4, <1>6, <2>1, OriginParts, ComingOn
<1>7. Origins'
  <2> SUFFICES ASSUME ~loose', ~disorder' PROVE InStep' /\ MadeAnew'
    BY DEF Origins
  <2>1. InStep'
    BY <1>2 DEF InStep
  <2>2. MadeAnew'
    <3> SUFFICES ASSUME NEW q \in Procs, pr'[q].pc = "clear"
                 PROVE  Taken(origin', pr'[q].was) /\ Fits(origin', dir', pr')
      BY DEF MadeAnew, Taken, Fits, Covered, Coming
    <3>1. pr'[q] = pr[q]
      BY <1>4, <1>5
    <3>2. b
      BY <1>1, <3>1 DEF Making
    <3>3. ~loose /\ ~disorder
      BY <1>2, <3>2
    <3>4. Taken(origin, pr[q].was) /\ Fits(origin, dir, pr)
      BY <3>1, <3>3, OriginParts DEF Origins, MadeAnew
    <3>5. Fits(origin', dir', pr')
      BY <1>2, <1>6, <3>4 DEF Fits, Covered
    <3> QED BY <1>2, <3>1, <3>4, <3>5
  <2> QED BY <2>1, <2>2
<1>8. OneMakes'
  BY <1>2, <1>4, OriginParts, OneMakesStep
<1>9. ProcsApt'
  BY <1>4, OriginParts, AptStep
<1>10. DirSolid'
  BY <1>2, OriginParts DEF DirSolid
<1> QED
  BY <1>7, <1>8, <1>9, <1>10, OriginInvIs

LEMMA CutOriginFits ==
  ASSUME KInv, NEW p \in Procs, CutOrigin(p)
  PROVE  OriginInv'
<1>1. PICK x : x = pr[p]
  OBVIOUS
<1>2. PICK k : k = x.rec.id
  OBVIOUS
<1>3. PICK n : n = x.size
  OBVIOUS
<1>4. PICK e : e = Search_Bin(View(origin, n), k)
  OBVIOUS
<1>5. /\ x.pc = "ocut" /\ origin' = (IF e = 0 THEN origin ELSE Removed(origin, n, e, e))
      /\ loose' = (loose \/ n # Len(origin) \/ ~Gone(x.rec)) /\ Goto(p, "cancel")
      /\ UNCHANGED <<dir, updateorigin, disorder>>
  BY <1>1, <1>2, <1>3, <1>4 DEF CutOrigin, shm
<1>6. x.op = "delete" /\ ~Enters(x)
  <2>1. Course(x)
    BY <1>1, OriginParts, OnCourse
  <2> QED BY <1>5, <2>1 DEF Course, Enters
<1>7. PICK y : pr' = [pr EXCEPT ![p] = y] /\ y.pc = "cancel" /\ y.op = x.op /\ y.rec = x.rec
  BY <1>1, <1>5, OriginParts, GotoMoves DEF Moves
<1>8. Apt(y) /\ ~Making(y) /\ y.pc # "regen"
  BY <1>6, <1>7 DEF Apt, Making
<1>9. /\ posted \in Nat /\ n \in Nat /\ k \in Nat
      /\ origin \in Seq(RecordsTo(posted)) /\ Len(origin) \in Nat
  BY <1>1, <1>2, <1>3, OriginParts, Parts, AtHand, ProcessIs
<1>10. ~loose' => ~loose /\ n = Len(origin) /\ Gone(x.rec)
  BY <1>5
\* What is left of .ORIGIN is without p's id, and all the rest is there.
<1>11. ASSUME ~loose', SortedSeq(origin)
       PROVE  /\ \A l \in 1..Len(origin') :
                   \E m \in 1..Len(origin) : origin'[l] = origin[m] /\ origin[m].id # k
              /\ \A m \in 1..Len(origin) :
                   origin[m].id # k => \E l \in 1..Len(origin') : origin'[l] = origin[m]
              /\ SortedSeq(origin')
  <2>1. n = Len(origin) /\ e = Search_Bin(origin, k)
    BY <1>4, <1>9, <1>10, <1>11, ViewAll
  <2>2. IF \E i \in 1..n : origin[i].id = k THEN e \in 1..n /\ origin[e].id = k ELSE e = 0
    BY <1>9, <1>11, <2>1, BisectionFinds
  <2>3. CASE e = 0
    <3>1. origin' = origin
      BY <1>5, <2>3
    <3>2. \A i \in 1..n : origin[i].id # k
      BY <1>9, <2>2, <2>3
    <3> QED BY <1>11, <2>1, <3>1, <3>2
  <2>4. CASE e # 0
    <3>1. e \in 1..n /\ origin[e].id = k /\ e \in e..n /\ \A m \in 1..n : m \in e..e <=> m = e
      BY <1>9, <2>2, <2>4
    <3>2. n <= Len(origin) /\ origin' = Removed(origin, n, e, e)
      BY <1>5, <1>9, <2>1, <2>4
    <3>3. Without(origin', origin, n, e, e)
      BY <1>9, <3>1, <3>2, RemovedWithout
    <3>4. \A m \in 1..n : origin[m].id \in Nat
      <4>1. \A m \in 1..n : origin[m] \in RecordsTo(posted)
        BY <1>9, <2>1
      <4> QED BY <1>9, <4>1, RecordsAre
    <3>5. \A m \in 1..n : m # e => origin[m].id # k
      <4> SUFFICES ASSUME NEW m \in 1..n, m # e PROVE origin[m].id # k
        OBVIOUS
      <4>1. m < e \/ e < m
        BY <3>1
      <4>2. origin[m].id < origin[e].id \/ origin[e].id < origin[m].id
        BY <1>11, <2>1, <3>1, <4>1 DEF SortedSeq
      <4> QED BY <3>1, <3>4, <4>2
    <3>6. ASSUME NEW l \in 1..Len(origin')
          PROVE  \E m \in 1..n : origin'[l] = origin[m] /\ origin[m].id # k
      <4>1. PICK m \in 1..n : m \notin e..e /\ origin'[l] = origin[m]
        BY <3>3 DEF Without
      <4> QED BY <3>1, <3>5, <4>1
    <3>7. ASSUME NEW m \in 1..n, origin[m].id # k
          PROVE  \E l \in 1..Len(origin') : origin'[l] = origin[m]
      <4>1. m \notin e..e
        BY <3>1, <3>7
      <4> QED BY <3>3, <4>1 DEF Without
    <3>8. SortedSeq(origin')
      BY <1>11, <3>3 DEF Without
    <3> QED BY <2>1, <3>6, <3>7, <3>8
  <2> QED BY <2>3, <2>4
<1>12. ASSUME NEW r, Coming(pr, r) PROVE Coming(pr', r)
  BY <1>1, <1>6, <1>7, <1>12, OriginParts, ComingOn
<1>13. ASSUME ~loose', Fits(origin, dir, pr) PROVE Fits(origin', dir', pr')
  <2>1. SortedSeq(origin)
    BY <1>13 DEF Fits
  <2>2. SortedSeq(origin')
    BY <1>11, <1>13, <2>1
  <2>3. ASSUME NEW i \in 1..Len(dir), dir[i].root PROVE On(origin', dir[i]) \/ Coming(pr', dir[i])
    <3>1. dir[i].id # k
      BY <1>2, <1>10, <1>13, <2>3 DEF Gone
    <3>2. On(origin, dir[i]) \/ Coming(pr, dir[i])
      BY <1>13, <2>3 DEF Fits, Covered
    <3>3. ASSUME On(origin, dir[i]) PROVE On(origin', dir[i])
      <4>1. PICK m \in 1..Len(origin) : Same(origin[m], dir[i])
        BY <3>3 DEF On
      <4>2. origin[m].id # k
        BY <3>1, <4>1 DEF Same
      <4>3. PICK l \in 1..Len(origin') : origin'[l] = origin[m]
        BY <1>11, <1>13, <2>1, <4>2
      <4> QED BY <4>1, <4>3 DEF On
    <3> QED BY <1>12, <3>2, <3>3
  <2> QED BY <1>5, <2>2, <2>3 DEF Fits, Covered
<1>14. ASSUME ~loose', Backed(origin, dir, pr), SortedSeq(origin) PROVE Backed(origin', dir', pr')
  <2> SUFFICES ASSUME NEW l \in 1..Len(origin')
               PROVE  ThreadIn(dir', origin'[l]) \/ Going(pr', origin'[l])
    BY DEF Backed
  <2>1. PICK m \in 1..Len(origin) : origin'[l] = origin[m] /\ origin[m].id # k
    BY <1>11, <1>14
  <2>2. ThreadIn(dir, origin[m]) \/ Going(pr, origin[m])
    BY <1>14 DEF Backed
  <2>3. ~Same(x.rec, origin[m])
    BY <1>2, <2>1 DEF Same
  <2>4. ASSUME Going(pr, origin[m]) PROVE Going(pr', origin[m])
    BY <1>1, <1>7, <2>3, <2>4, OriginParts, GoingOn
  <2> QED BY <1>5, <2>1, <2>2, <2>4
<1>15. ASSUME ~loose', SortedSeq(origin), NEW s, Taken(origin, s) PROVE Taken(origin', s)
  <2> SUFFICES ASSUME NEW l \in 1..Len(origin') PROVE ThreadIn(s, origin'[l])
    BY DEF Taken
  <2>1. PICK m \in 1..Len(origin) : origin'[l] = origin[m]
    BY <1>11, <1>15
  <2> QED BY <1>15, <2>1 DEF Taken
<1>16. Origins'
  <2>1. ~loose' /\ ~disorder' => ~loose /\ ~disorder
    BY <1>5, <1>10
  <2>2. ~loose' /\ Fits(origin, dir, pr) => \A s : Taken(origin, s) => Taken(origin', s)
    BY <1>15 DEF Fits
  <2>3. ~loose' /\ Backed(origin, dir, pr) /\ Fits(origin, dir, pr) => Backed(origin', dir', pr')
    BY <1>14 DEF Fits
  <2> QED BY <1>5, <1>7, <1>8, <1>13, <2>1, <2>2, <2>3, OriginsStep
<1>17. OneMakes'
  BY <1>5, <1>7, <1>8, OriginParts, OneMakesStep
<1>18. ProcsApt'
  BY <1>7, <1>8, OriginParts, AptStep
<1>19. DirSolid'
  BY <1>5, OriginParts DEF DirSolid
<1> QED
  BY <1>16, <1>17, <1>18, <1>19, OriginInvIs

-----------------------------------------------------------------------------
(* Records are written over themselves *)

\* A record that is written over itself.
LEMMA SubstituteSelf ==
  ASSUME NEW a \in Nat, NEW s \in Seq(RecordsTo(a)), NEW e \in Nat, NEW r \in RecordsTo(a),
         e > 0, r.art # 0, View(s, e)[e] = r
  PROVE  substitute_record(s, e, r) = s
<1>1. PICK t : t = substitute_record(s, e, r)
  OBVIOUS
<1>2. PICK n \in Nat : n = Len(s)
  OBVIOUS
<1>3. View(s, e)[e] = IF e <= n THEN s[e] ELSE Zero
  <2>1. e \in 1..e
    OBVIOUS
  <2> QED BY <1>2, <2>1 DEF View
<1>z. Zero.art = 0
  BY DEF Zero
<1>4. e <= n /\ s[e] = r
  BY <1>2, <1>3, <1>z
<1>5. View(s, n) = s /\ DOMAIN s = 1..n
  BY <1>2, ViewAll
<1>6. t = [s EXCEPT ![e] = r]
  <2>1. ~(e > n)
    BY <1>2, <1>4
  <2> QED BY <1>1, <1>2, <1>5, <2>1 DEF substitute_record, ReplaceAt
<1>7. [s EXCEPT ![e] = r] = s
  <2>1. s = [k \in 1..n |-> s[k]]
    BY <1>2
  <2> QED BY <1>4, <1>5, <2>1
<1> QED
  BY <1>1, <1>6, <1>7

LEMMA WriteFits ==
  ASSUME KInv, NEW p \in Procs, Write(p)
  PROVE  OriginInv'
<1>1. PICK x : x = pr[p]
  OBVIOUS
<1>2. PICK r : r = x.rec
  OBVIOUS
<1>3. PICK e : e = x.ent
  OBVIOUS
<1>4. PICK v : v = View(dir, e)[e]
  OBVIOUS
<1>5. /\ x.pc = "write" /\ dir' = substitute_record(dir, e, r)
      /\ disorder' = (disorder \/ v # r) /\ loose' = (loose \/ v # r)
      /\ IF r.root THEN AfterDir(p, r, "idle") ELSE Done(p)
      /\ UNCHANGED <<origin, updateorigin>>
  BY <1>1, <1>2, <1>3, <1>4 DEF Write, shm
<1>6. /\ posted \in Nat /\ e \in Nat /\ r \in RecordsTo(posted) /\ dir \in Seq(RecordsTo(posted))
      /\ Ready(x.pc, x.rec.art, x.ent, x.to, x.size) /\ Apt(x)
  BY <1>1, <1>2, <1>3, OriginParts, Parts, AtHand, ProcessIs DEF ProcsApt
<1>7. e > 0 /\ r.art # 0
  BY <1>2, <1>3, <1>5, <1>6 DEF Ready
<1>8. v = r => dir' = dir
  BY <1>4, <1>5, <1>6, <1>7, SubstituteSelf
<1>9. PICK y : pr' = [pr EXCEPT ![p] = y] /\ Apt(y) /\ y.pc \in {"origin", "idle"}
  <2>1. CASE r.root
    <3>1. PICK y : /\ pr' = [pr EXCEPT ![p] = y] /\ y.op = x.op /\ y.rec = r /\ y.pc = "origin"
      BY <1>1, <1>5, <2>1, OriginParts, AfterDirMoves
    <3>2. Apt(y)
      BY <1>7, <3>1 DEF Apt
    <3> QED BY <3>1, <3>2
  <2>2. CASE ~r.root
    BY <1>5, <2>2, IdleApt DEF Done
  <2> QED BY <2>1, <2>2
<1>10. ~Making(y) /\ y.pc # "regen" /\ ~Enters(x) /\ ~Leaves(x)
  BY <1>5, <1>9 DEF Making, Enters, Leaves
<1>11. ASSUME v = r PROVE Origins'
  <2>1. dir' = dir
    BY <1>8, <1>11
  <2>2. ~loose' /\ ~disorder' => ~loose /\ ~disorder
    BY <1>5
  <2> QED BY <1>1, <1>5, <1>9, <1>10, <2>1, <2>2, OriginsStay
<1>12. ASSUME v # r PROVE Origins'
  BY <1>5, <1>12 DEF Origins
<1>13. OneMakes'
  BY <1>5, <1>9, <1>10, OriginParts, OneMakesStep
<1>14. ProcsApt'
  BY <1>9, OriginParts, AptStep
<1>15. DirSolid'
  <2>1. ~disorder' => ~disorder /\ v = r
    BY <1>5
  <2> QED BY <1>8, <2>1, OriginParts DEF DirSolid
<1> QED
  BY <1>11, <1>12, <1>13, <1>14, <1>15, OriginInvIs

LEMMA WriteOriginFits ==
  ASSUME KInv, NEW p \in Procs, WriteOrigin(p)
  PROVE  OriginInv'
<1>1. PICK x : x = pr[p]
  OBVIOUS
<1>2. PICK r : r = x.rec
  OBVIOUS
<1>3. PICK e : e = x.ent
  OBVIOUS
<1>4. PICK v : v = View(origin, e)[e]
  OBVIOUS
<1>5. /\ x.pc = "owrite" /\ origin' = substitute_record(origin, e, r)
      /\ loose' = (loose \/ v # r) /\ Done(p) /\ UNCHANGED <<dir, updateorigin, disorder>>
  BY <1>1, <1>2, <1>3, <1>4 DEF WriteOrigin, shm
<1>6. /\ posted \in Nat /\ e \in Nat /\ r \in RecordsTo(posted) /\ origin \in Seq(RecordsTo(posted))
      /\ Ready(x.pc, x.rec.art, x.ent, x.to, x.size) /\ Apt(x)
  BY <1>1, <1>2, <1>3, OriginParts, Parts, AtHand, ProcessIs DEF ProcsApt
<1>7. e > 0 /\ r.art # 0
  BY <1>2, <1>3, <1>5, <1>6 DEF Ready, Apt
<1>8. v = r => origin' = origin
  BY <1>4, <1>5, <1>6, <1>7, SubstituteSelf
<1>9. PICK y : y = Idle
  OBVIOUS
<1>10. pr' = [pr EXCEPT ![p] = y] /\ ~Making(y) /\ Apt(y) /\ y.pc = "idle"
  BY <1>5, <1>9, IdleApt DEF Done
<1>11. ~Enters(x) /\ ~Leaves(x)
  BY <1>5 DEF Enters, Leaves
<1>12. ASSUME v = r PROVE Origins'
  <2>1. origin' = origin
    BY <1>8, <1>12
  <2>2. ~loose' => ~loose
    BY <1>5
  <2> QED BY <1>1, <1>5, <1>10, <1>11, <2>1, <2>2, OriginsStay
<1>13. ASSUME v # r PROVE Origins'
  BY <1>5, <1>13 DEF Origins
<1>14. OneMakes'
  BY <1>5, <1>10, OriginParts, OneMakesStep
<1>15. ProcsApt'
  BY <1>10, OriginParts, AptStep
<1>16. DirSolid'
  BY <1>5, OriginParts DEF DirSolid
<1> QED
  BY <1>12, <1>13, <1>14, <1>15, <1>16, OriginInvIs

\* The records get a D and keep the rest.
LEMMA MoveRangeFits ==
  ASSUME KInv, NEW p \in Procs, MoveRange(p)
  PROVE  OriginInv'
<1>1. PICK n \in Nat : n = Len(dir)
  BY OriginParts
<1>2. /\ pr[p].pc = "rmove" /\ Goto(p, "rcut") /\ UNCHANGED <<origin, updateorigin, loose, disorder>>
      /\ dir' = [i \in 1..n |->
                   IF InRange(p, i) /\ dir[i].art # 0 THEN [dir[i] EXCEPT !.kind = "D"] ELSE dir[i]]
  BY <1>1 DEF MoveRange, shm
<1>3. PICK y : pr' = [pr EXCEPT ![p] = y] /\ y.pc = "rcut" /\ y.op = pr[p].op /\ y.rec = pr[p].rec
  BY <1>2, OriginParts, GotoMoves DEF Moves
<1>4. Apt(y) /\ ~Making(y) /\ ~Enters(pr[p]) /\ ~Leaves(pr[p])
  <2>1. Apt(pr[p])
    BY OriginParts DEF ProcsApt
  <2> QED BY <1>2, <1>3, <2>1 DEF Apt, Making, Enters, Leaves
<1>5. Len(dir') = n
  BY <1>2
<1>6. ASSUME NEW i \in 1..n
      PROVE  dir'[i].id = dir[i].id /\ dir'[i].art = dir[i].art /\ dir'[i].root = dir[i].root
  <2>1. PICK r : r = dir[i]
    OBVIOUS
  <2>2. r \in RecordsTo(posted)
    BY <1>1, <2>1, OriginParts
  <2>3. PICK d : d = [r EXCEPT !.kind = "D"]
    OBVIOUS
  <2>4. d.id = r.id /\ d.art = r.art /\ d.root = r.root
    BY <2>2, <2>3 DEF RecordsTo
  <2>5. dir'[i] = d \/ dir'[i] = r
    BY <1>2, <2>1, <2>3
  <2> QED BY <2>1, <2>4, <2>5
<1>7. ASSUME NEW r, Coming(pr, r) PROVE Coming(pr', r)
  BY <1>3, <1>4, <1>7, OriginParts, ComingOn
<1>8. ASSUME NEW r, Going(pr, r) PROVE Going(pr', r)
  BY <1>3, <1>4, <1>8, OriginParts, GoingOn
<1>9. ASSUME NEW r, ThreadIn(dir, r) PROVE ThreadIn(dir', r)
  BY <1>1, <1>5, <1>6, <1>9 DEF ThreadIn, Same
<1>10. ASSUME Fits(origin, dir, pr) PROVE Fits(origin', dir', pr')
  <2>1. ASSUME NEW i \in 1..n, dir'[i].root PROVE On(origin, dir'[i]) \/ Coming(pr', dir'[i])
    <3>1. dir[i].root /\ Same(dir'[i], dir[i])
      BY <1>6, <2>1 DEF Same
    <3>2. On(origin, dir[i]) \/ Coming(pr, dir[i])
      BY <1>1, <1>10, <3>1 DEF Fits, Covered
    <3>3. On(origin, dir[i]) => On(origin, dir'[i])
      BY <3>1 DEF On, Same
    <3>4. Coming(pr, dir[i]) => Coming(pr, dir'[i])
      BY <3>1 DEF Coming, Same
    <3> QED BY <1>7, <3>2, <3>3, <3>4
  <2> QED BY <1>2, <1>5, <1>10, <2>1 DEF Fits, Covered
<1>11. Backed(origin, dir, pr) => Backed(origin', dir', pr')
  BY <1>2, <1>8, <1>9 DEF Backed
<1>12. Origins'
  BY <1>2, <1>3, <1>4, <1>10, <1>11, OriginsStep
<1>13. OneMakes'
  BY <1>2, <1>3, <1>4, OriginParts, OneMakesStep
<1>14. ProcsApt'
  BY <1>3, <1>4, OriginParts, AptStep
<1>15. DirSolid'
  BY <1>1, <1>2, <1>5, <1>6, OriginParts DEF DirSolid
<1> QED
  BY <1>12, <1>13, <1>14, <1>15, OriginInvIs

-----------------------------------------------------------------------------
(* .ORIGIN is made anew *)

LEMMA GoesOnMoves ==
  ASSUME KInv, NEW p \in Procs, GoesOn(p)
  PROVE  \E y : /\ pr' = [pr EXCEPT ![p] = y] /\ Apt(y) /\ ~Making(y) /\ ~Enters(y)
                /\ y.pc # "regen"
<1>1. PICK c : c = AfterOrigin(pr[p].op)
  OBVIOUS
<1>2. c \in {"cancel", "blank", "idle"}
  BY <1>1 DEF AfterOrigin
<1>3. CASE c = "idle"
  <2>1. PICK y : y = Idle
    OBVIOUS
  <2>2. pr' = [pr EXCEPT ![p] = y]
    BY <1>1, <1>3, <2>1 DEF GoesOn, Done
  <2> QED BY <2>1, <2>2, IdleApt
<1>4. CASE c # "idle"
  <2>1. Goto(p, c)
    BY <1>1, <1>4 DEF GoesOn
  <2>2. PICK y : pr' = [pr EXCEPT ![p] = y] /\ y.pc = c /\ y.op = pr[p].op /\ y.rec = pr[p].rec
    BY <2>1, OriginParts, GotoMoves DEF Moves
  <2>3. Apt(pr[p])
    BY OriginParts DEF ProcsApt
  <2>4. Apt(y) /\ ~Making(y) /\ ~Enters(y) /\ y.pc # "regen"
    BY <1>2, <2>2, <2>3 DEF Apt, Making, Enters
  <2> QED BY <2>2, <2>4
<1> QED
  BY <1>3, <1>4

LEMMA RegenLockFits ==
  ASSUME KInv, NEW p \in Procs, RegenLock(p)
  PROVE  OriginInv'
<1>1. /\ pr[p].pc = "regen" /\ UNCHANGED <<dir, origin, updateorigin, loose, disorder>>
      /\ \A q \in Procs : ~Making(pr[q])
  BY DEF RegenLock, files, shm, ghosts, Regenerating, Making
<1>2. DirSolid'
  BY <1>1, OriginParts DEF DirSolid
<1>3. CASE updateorigin /\ dir # <<>>
  <2>1. PICK n : n = Len(dir)
    OBVIOUS
  <2>2. PICK w : w = dir
    OBVIOUS
  <2>3. pr' = [pr EXCEPT ![p].pc = "rewrite", ![p].size = n, ![p].was = w]
    BY <1>3, <2>1, <2>2 DEF RegenLock
  <2>4. PICK y : /\ pr' = [pr EXCEPT ![p] = y] /\ y.pc = "rewrite" /\ y.op = pr[p].op
                 /\ y.rec = pr[p].rec /\ y.size = n /\ y.was = w
    <3>1. JInv
      BY OriginParts
    <3>2. Copies(p, n, w)
      BY <2>3, <3>1, CopyMoves
    <3> QED BY <3>2 DEF Copies
  <2>5. Apt(pr[p])
    BY OriginParts DEF ProcsApt
  <2>6. Apt(y)
    BY <2>1, <2>2, <2>4, <2>5 DEF Apt
  <2>7. OneMakes'
    BY <1>1, <1>3, <2>4, OriginParts, OneMakesStep
  <2>8. ProcsApt'
    BY <2>4, <2>6, OriginParts, AptStep
  <2>9. \A q \in Procs : pr'[q].pc # "clear"
    BY <1>1, <2>4, OriginParts, Stepped DEF Making
  <2>10. Origins'
    BY <1>1, <1>3, <2>9 DEF Origins, InStep, MadeAnew
  <2> QED BY <1>2, <2>7, <2>8, <2>10, OriginInvIs
<1>4. CASE ~(updateorigin /\ dir # <<>>)
  <2>1. GoesOn(p)
    BY <1>4 DEF RegenLock
  <2>2. PICK y : /\ pr' = [pr EXCEPT ![p] = y] /\ Apt(y) /\ ~Making(y) /\ ~Enters(y)
                 /\ y.pc # "regen"
    BY <2>1, GoesOnMoves
  <2>3. OneMakes'
    BY <1>1, <2>2, OriginParts, OneMakesStep
  <2>4. ProcsApt'
    BY <2>2, OriginParts, AptStep
  <2>5. Origins'
    <3>1. CASE ~updateorigin
      <4>1. loose \/ disorder
        BY <1>1, <3>1, OriginParts DEF Origins, InStep, NobodyMakes
      <4> QED BY <1>1, <4>1 DEF Origins
    <3>2. CASE updateorigin
      <4>1. \A q \in Procs : pr'[q].pc # "clear"
        BY <1>1, <2>2, OriginParts, Stepped DEF Making
      <4> QED BY <1>1, <3>2, <4>1 DEF Origins, InStep, MadeAnew
    <3> QED BY <3>1, <3>2
  <2> QED BY <1>2, <2>3, <2>4, <2>5, OriginInvIs
<1> QED
  BY <1>3, <1>4

LEMMA RegenWriteFits ==
  ASSUME KInv, NEW p \in Procs, RegenWrite(p)
  PROVE  OriginInv'
<1>1. PICK x : x = pr[p]
  OBVIOUS
<1>2. /\ x.pc = "rewrite" /\ origin' = Roots(View(dir, x.size)) /\ loose' = (dir # x.was)
      /\ Goto(p, "clear") /\ UNCHANGED <<dir, updateorigin, disorder>>
  BY <1>1 DEF RegenWrite, shm
<1>3. posted \in Nat /\ x \in Processes(posted)
  BY <1>1, OriginParts, Parts, AtHand
<1>4. PICK y : y = Continues(x, "clear", x.rec)
  OBVIOUS
<1>5. pr' = [pr EXCEPT ![p] = y]
  BY <1>1, <1>2, <1>3, <1>4, GotoIs
<1>6. y.pc = "clear" /\ y.op = x.op /\ y.rec = x.rec /\ y.was = x.was
  BY <1>4 DEF Continues
<1>7. Apt(x) /\ x.size = Len(x.was) /\ updateorigin /\ \A q \in Procs \ {p} : ~Making(pr[q])
  <2>1. Apt(x)
    BY <1>1, OriginParts DEF ProcsApt
  <2>2. updateorigin /\ \A q \in Procs \ {p} : ~Making(pr[q])
    BY <1>1, <1>2, OriginParts DEF OneMakes, Making
  <2> QED BY <1>2, <2>1, <2>2 DEF Apt
<1>8. Apt(y)
  BY <1>6, <1>7 DEF Apt
<1>9. OneMakes'
  BY <1>2, <1>5, <1>7, OriginParts, OneMakesStep
<1>10. ProcsApt'
  BY <1>5, <1>8, OriginParts, AptStep
<1>11. DirSolid'
  BY <1>2, OriginParts DEF DirSolid
<1>12. Origins'
  <2> SUFFICES ASSUME ~loose', ~disorder' PROVE InStep' /\ MadeAnew'
    BY DEF Origins
  <2>1. InStep'
    BY <1>2, <1>7 DEF InStep
  <2>2. x.was = dir /\ origin' = Roots(dir)
    BY <1>2, <1>7, OriginParts, ViewAll
  <2>3. SortedSeq(dir)
    BY <1>2, OriginParts, Parts DEF IInv, FilesOrdered
  <2>4. PICK o : o = Roots(dir)
    OBVIOUS
  <2>5. \A i \in 1..Len(o) : \E j \in 1..Len(dir) : dir[j].root /\ o[i] = dir[j]
    BY <2>3, <2>4, OriginParts, RootsDef
  <2>6. \A j \in 1..Len(dir) : dir[j].root => \E i \in 1..Len(o) : o[i] = dir[j]
    BY <2>3, <2>4, OriginParts, RootsDef
  <2>7. SortedSeq(o)
    BY <2>3, <2>4, OriginParts, RootsDef
  <2>8. Taken(o, dir)
    BY <2>5 DEF Taken, ThreadIn, Same
  <2>9. Fits(o, dir, pr')
    BY <2>6, <2>7 DEF Fits, Covered, On, Same
  <2>10. ASSUME NEW q \in Procs, pr'[q].pc = "clear" PROVE pr'[q].was = dir
    <3>1. q = p
      BY <1>5, <1>7, <2>10, OriginParts, Stepped DEF Making
    <3>2. pr'[p] = y
      BY <1>5, OriginParts, Stepped
    <3> QED BY <1>6, <2>2, <3>1, <3>2
  <2>11. Taken(origin', dir) /\ Fits(origin', dir', pr')
    BY <1>2, <2>2, <2>4, <2>8, <2>9
  <2>12. MadeAnew'
    BY <2>10, <2>11 DEF MadeAnew, Fits, Covered, Coming, Taken
  <2> QED BY <2>1, <2>12
<1> QED
  BY <1>9, <1>10, <1>11, <1>12, OriginInvIs

LEMMA RegenClearFits ==
  ASSUME KInv, NEW p \in Procs, RegenClear(p)
  PROVE  OriginInv'
<1>1. PICK d : d = (dir # pr[p].was)
  OBVIOUS
<1>2. PICK b : b = (\E q \in Procs \ {p} : pr[q].pc # "idle")
  OBVIOUS
<1>3. /\ pr[p].pc = "clear" /\ updateorigin' = FALSE /\ loose' = (loose \/ d \/ b) /\ GoesOn(p)
      /\ UNCHANGED <<dir, origin, disorder>>
  BY <1>1, <1>2 DEF RegenClear, files
<1>4. PICK y : /\ pr' = [pr EXCEPT ![p] = y] /\ Apt(y) /\ ~Making(y) /\ ~Enters(y)
               /\ y.pc # "regen"
  BY <1>3, GoesOnMoves
<1>5. pr'[p] = y /\ \A q \in Procs : q # p => pr'[q] = pr[q]
  BY <1>4, OriginParts, Stepped
<1>6. \A q \in Procs : ~Making(pr'[q])
  <2>1. \A q \in Procs \ {p} : ~Making(pr[q])
    BY <1>3, OriginParts DEF OneMakes, Making
  <2> QED BY <1>4, <1>5, <2>1
<1>7. OneMakes'
  <2>1. \A q \in Procs : ~Making(pr[q])'
    BY <1>6 DEF Making
  <2> QED BY <2>1 DEF OneMakes
<1>8. ProcsApt'
  BY <1>4, OriginParts, AptStep
<1>9. DirSolid'
  BY <1>3, OriginParts DEF DirSolid
<1>10. Origins'
  <2> SUFFICES ASSUME ~loose', ~disorder' PROVE InStep' /\ MadeAnew'
    BY DEF Origins
  <2>1. ~loose /\ ~d /\ ~b
    BY <1>3, Zenon
  <2>2. dir = pr[p].was /\ \A q \in Procs \ {p} : pr[q].pc = "idle"
    BY <1>1, <1>2, <2>1
  <2>3. MadeAnew
    BY <1>3, <2>1, OriginParts DEF Origins
  <2>4. Taken(origin, dir) /\ Fits(origin, dir, pr)
    BY <1>3, <2>2, <2>3 DEF MadeAnew
  <2>5. \A r : ~Coming(pr, r)
    BY <1>3, <2>2 DEF Coming, Enters
  <2>6. Backed(origin', dir', pr')
    BY <1>3, <2>4 DEF Taken, Backed
  <2>7. Fits(origin', dir', pr')
    BY <1>3, <2>4, <2>5 DEF Fits, Covered
  <2>8. \A q \in Procs : pr'[q].pc \notin {"regen", "rewrite", "clear"}
    BY <1>4, <1>5, <1>6, <2>2 DEF Making
  <2>9. NobodyMakes'
    BY <2>8 DEF NobodyMakes
  <2>10. InStep'
    BY <2>6, <2>7, <2>9 DEF InStep, Backed, Fits, Covered, Coming, Going
  <2>11. MadeAnew'
    BY <2>8 DEF MadeAnew
  <2> QED BY <2>10, <2>11
<1> QED
  BY <1>7, <1>8, <1>9, <1>10, OriginInvIs

-----------------------------------------------------------------------------
(* miscd, the machine, and all of it *)

LEMMA OriginsSame ==
  ASSUME KInv, UNCHANGED <<dir, origin, updateorigin, loose, disorder, pr>>
  PROVE  OriginInv'
<1>1. Origins' /\ OneMakes' /\ ProcsApt' /\ DirSolid'
  <2>1. Origins'
    BY OriginParts
       DEF Origins, InStep, NobodyMakes, MadeAnew, Backed, Fits, Covered, Coming, Going
  <2>2. OneMakes'
    BY OriginParts DEF OneMakes
  <2>3. ProcsApt'
    BY OriginParts DEF ProcsApt
  <2>4. DirSolid'
    BY OriginParts DEF DirSolid
  <2> QED BY <2>1, <2>2, <2>3, <2>4
<1> QED
  BY <1>1, OriginInvIs

\* Nobody is to enter or to take out a thread.
LEMMA NobodyComes ==
  ASSUME NEW P, \A q \in Procs : ~Enters(P[q]) /\ ~Leaves(P[q]), NEW r
  PROVE  ~Coming(P, r) /\ ~Going(P, r)
BY DEF Coming, Going

LEMMA RestartFits ==
  ASSUME KInv, Restart
  PROVE  OriginInv'
<1>1. PICK x : x = Idle
  OBVIOUS
<1>2. x.pc = "idle" /\ ~Making(x) /\ Apt(x)
  BY <1>1, IdleApt
<1>3. pr' = [p \in Procs |-> x] /\ UNCHANGED <<dir, origin>> /\ updateorigin' = FALSE
  BY <1>1 DEF Restart, files
<1>4. \A q \in Procs : pr'[q] = x
  BY <1>3
<1>5. ~loose' => ~loose /\ ~updateorigin /\ \A q \in Procs : ~Enters(pr[q]) /\ ~Leaves(pr[q])
  <2>1. loose' = (loose \/ updateorigin \/ \E q \in Procs : Enters(pr[q]) \/ Leaves(pr[q]))
    BY DEF Restart
  <2>2. ~loose' => ~loose /\ ~updateorigin /\ ~\E q \in Procs : Enters(pr[q]) \/ Leaves(pr[q])
    BY <2>1, Zenon
  <2> QED BY <2>2
<1>6. ~disorder' => ~disorder
  <2>1. PICK b : disorder' = (disorder \/ b)
    BY DEF Restart
  <2> QED BY <2>1, Zenon
<1>7. DirSolid'
  BY <1>3, <1>6, OriginParts DEF DirSolid
<1>8. OneMakes'
  BY <1>2, <1>4 DEF OneMakes
<1>9. ProcsApt'
  BY <1>2, <1>4 DEF ProcsApt
<1>10. Origins'
  <2> SUFFICES ASSUME ~loose', ~disorder' PROVE InStep' /\ MadeAnew'
    BY DEF Origins
  <2>1. Backed(origin, dir, pr) /\ Fits(origin, dir, pr)
    BY <1>5, <1>6, OriginParts DEF Origins, InStep
  <2>2. \A q \in Procs : ~Enters(pr[q]) /\ ~Leaves(pr[q])
    BY <1>5
  <2>3. \A i \in 1..Len(origin) : ThreadIn(dir, origin[i])
    BY <2>1, <2>2, NobodyComes DEF Backed
  <2>4. \A i \in 1..Len(dir) : dir[i].root => On(origin, dir[i])
    BY <2>1, <2>2, NobodyComes DEF Fits, Covered
  <2>5. Backed(origin', dir', pr')
    BY <1>3, <2>3 DEF Backed
  <2>6. Fits(origin', dir', pr')
    BY <1>3, <2>1, <2>4 DEF Fits, Covered
  <2>7. NobodyMakes'
    BY <1>2, <1>4 DEF NobodyMakes
  <2>8. InStep'
    BY <2>5, <2>6, <2>7 DEF InStep
  <2>9. MadeAnew'
    BY <1>2, <1>4 DEF MadeAnew
  <2> QED BY <2>8, <2>9
<1> QED
  BY <1>7, <1>8, <1>9, <1>10, OriginInvIs

LEMMA DieFits ==
  ASSUME KInv, NEW p \in Procs, Die(p)
  PROVE  OriginInv'
<1>1. /\ Done(p) /\ UNCHANGED <<dir, origin, updateorigin, disorder>>
      /\ loose' = (loose \/ Enters(pr[p]) \/ Leaves(pr[p]))
  BY DEF Die, files, shm
<1>2. PICK y : y = Idle
  OBVIOUS
<1>3. pr' = [pr EXCEPT ![p] = y] /\ ~Making(y) /\ Apt(y) /\ y.pc = "idle"
  BY <1>1, <1>2, IdleApt DEF Done
<1>4. Origins'
  <2>1. CASE Enters(pr[p]) \/ Leaves(pr[p])
    <3>1. loose'
      BY <1>1, <2>1, Zenon
    <3> QED BY <3>1 DEF Origins
  <2>2. CASE ~(Enters(pr[p]) \/ Leaves(pr[p]))
    <3>1. ~loose' => ~loose
      BY <1>1, Zenon
    <3> QED BY <1>1, <1>3, <2>2, <3>1, OriginsStay
  <2> QED BY <2>1, <2>2
<1>5. OneMakes'
  BY <1>1, <1>3, OriginParts, OneMakesStep
<1>6. ProcsApt'
  BY <1>3, OriginParts, AptStep
<1>7. DirSolid'
  BY <1>1, OriginParts DEF DirSolid
<1> QED
  BY <1>4, <1>5, <1>6, <1>7, OriginInvIs

LEMMA InitOrigin == Init => OriginInv
<1> SUFFICES ASSUME Init PROVE OriginInv
  OBVIOUS
<1>1. PICK x : x = Idle
  OBVIOUS
<1>2. x.pc = "idle" /\ ~Making(x) /\ Apt(x)
  BY <1>1, IdleApt
<1>3. pr = [p \in Procs |-> x] /\ origin = Roots(dir) /\ disorder = FALSE
  BY <1>1 DEF Init
<1>4. \A q \in Procs : pr[q] = x
  BY <1>3
<1>5. PICK s \in FirstDirs :
        dir = [i \in 1..Len(s) |->
                 [art |-> i, kind |-> "M", id |-> s[i][1], root |-> s[i][2]]]
  BY DEF Init
<1>6. Len(s) \in Nat
  BY BoardAssumption
<1>7. DirSolid
  <2>1. Len(dir) = Len(s)
    BY <1>5, <1>6
  <2>2. \A i \in 1..Len(dir) : dir[i].art = i
    BY <1>5, <2>1
  <2>3. \A i \in 1..Len(dir) : i # 0
    BY <1>6, <2>1
  <2> QED BY <2>2, <2>3 DEF DirSolid
<1>8. dir \in Seq(RecordsTo(posted)) /\ SortedSeq(dir) /\ posted \in Nat
  <2>1. IInv
    BY InitHolds
  <2>2. posted \in Nat
    BY <2>1 DEF IInv, FilesOK, posted
  <2> QED BY <1>3, <2>1, <2>2 DEF IInv, FilesOK, FilesOrdered
<1>9. PICK o : o = Roots(dir)
  OBVIOUS
<1>10. /\ \A i \in 1..Len(o) : \E j \in 1..Len(dir) : dir[j].root /\ o[i] = dir[j]
       /\ \A j \in 1..Len(dir) : dir[j].root => \E i \in 1..Len(o) : o[i] = dir[j]
       /\ SortedSeq(o)
  BY <1>8, <1>9, RootsDef
<1>11. Backed(o, dir, pr) /\ Fits(o, dir, pr)
  <2>1. Backed(o, dir, pr)
    BY <1>10 DEF Backed, ThreadIn, Same
  <2>2. Covered(o, dir, pr)
    BY <1>10 DEF Covered, On, Same
  <2> QED BY <1>10, <2>1, <2>2 DEF Fits
<1>12. Origins
  <2>1. NobodyMakes
    BY <1>2, <1>4 DEF NobodyMakes
  <2>2. MadeAnew
    BY <1>2, <1>4 DEF MadeAnew
  <2> QED BY <1>3, <1>9, <1>11, <2>1, <2>2 DEF Origins, InStep
<1>13. OneMakes /\ ProcsApt
  BY <1>2, <1>4 DEF OneMakes, ProcsApt
<1> QED
  BY <1>7, <1>12, <1>13 DEF OriginInv

LEMMA NextFits == KInv /\ [Next]_vars => OriginInv'
<1> SUFFICES ASSUME KInv, [Next]_vars PROVE OriginInv'
  OBVIOUS
<1>1. ASSUME NEW p \in Procs, \E root \in BOOLEAN : Post(p, root) PROVE OriginInv'
  BY <1>1, PostFits
<1>2. ASSUME NEW p \in Procs, \E i \in 1..Len(dir), ent \in 0..Len(dir) : Delete(p, i, ent)
      PROVE  OriginInv'
  BY <1>2, DeleteFits
<1>3. ASSUME NEW p \in Procs, \E i \in 1..Len(deleted) : Undelete(p, i) PROVE OriginInv'
  BY <1>3, UndeleteFits
<1>4. ASSUME NEW p \in Procs, \E i \in 1..Len(dir) : EditTitle(p, i) PROVE OriginInv'
  BY <1>4, EditTitleFits
<1>5. ASSUME NEW p \in Procs, \E i, j \in 1..Len(dir) : DeleteRange(p, i, j) PROVE OriginInv'
  BY <1>5, DeleteRangeFits
<1>6. ASSUME NEW p \in Procs, AppendDir(p) \/ AppendOrigin(p) PROVE OriginInv'
  BY <1>6, AppendDirFits, AppendOriginFits
<1>7. ASSUME NEW p \in Procs, Map(p) \/ Cut(p) \/ MapOrigin(p) \/ CutOrigin(p) \/ cancelpost(p)
      PROVE  OriginInv'
  BY <1>7, MapFits, CutFits, MapOriginFits, CutOriginFits, cancelpostFits
<1>8. ASSUME NEW p \in Procs,
             Check(p) \/ Move(p) \/ Insert(p) \/ InsertOrigin(p) \/ Blank(p)
      PROVE  OriginInv'
  BY <1>8, CheckFits, MoveFits, InsertFits, InsertOriginFits, BlankFits
<1>9. ASSUME NEW p \in Procs, Find(p) \/ Write(p) \/ FindOrigin(p) \/ WriteOrigin(p)
      PROVE  OriginInv'
  BY <1>9, FindFits, WriteFits, FindOriginFits, WriteOriginFits
<1>10. ASSUME NEW p \in Procs, Stat(p) \/ MoveRange(p) \/ CutRange(p) \/ Flag(p) \/ Die(p)
       PROVE  OriginInv'
  BY <1>10, StatFits, MoveRangeFits, CutRangeFits, FlagFits, DieFits
<1>11. ASSUME NEW p \in Procs,
              Regen(p) \/ RegenLock(p) \/ RegenWrite(p) \/ RegenClear(p)
       PROVE  OriginInv'
  BY <1>11, RegenFits, RegenLockFits, RegenWriteFits, RegenClearFits
<1>12. CASE \E k \in 1..Len(deleted) : killdir(k)
  BY <1>12, OriginsSame DEF killdir, shm, ghosts
<1>13. CASE flush_bcache
  BY <1>13, OriginsSame DEF flush_bcache, files, ghosts
<1>14. CASE Restart
  BY <1>14, RestartFits
<1>15. CASE UNCHANGED vars
  BY <1>15, OriginsSame DEF vars, ghosts
<1> QED
  BY <1>1, <1>2, <1>3, <1>4, <1>5, <1>6, <1>7, <1>8, <1>9, <1>10, <1>11, <1>12, <1>13, <1>14,
     <1>15 DEF Next

\* For boards of any size and any number of processes, once nobody is at work
\* .ORIGIN lists the articles of .DIR that begin a thread, or the flag says that
\* it is to be made anew, unless operations overlapped, or ended between .DIR and
\* .ORIGIN, in one of the ways that loose and disorder name.  Of after_post, del_origin, do_undel_post, edit_title,
\* delete_range_base and board_regenspecial.
THEOREM OriginKeepsUp == Spec => []OriginsListed
<1>1. KInv => OriginsListed
  <2> SUFFICES ASSUME KInv, \A p \in Procs : pr[p].pc = "idle",
                      ~updateorigin, ~loose, ~disorder
               PROVE  Arts(origin) = RootArts
    BY DEF OriginsListed
  <2>1. Backed(origin, dir, pr) /\ Fits(origin, dir, pr)
    BY OriginParts DEF Origins, InStep
  <2>a. \A q \in Procs : ~Enters(pr[q]) /\ ~Leaves(pr[q])
    BY DEF Enters, Leaves
  <2>2. \A i \in 1..Len(origin) : ThreadIn(dir, origin[i])
    BY <2>1, <2>a, NobodyComes DEF Backed
  <2>3. \A i \in 1..Len(dir) : dir[i].root => On(origin, dir[i])
    BY <2>1, <2>a, NobodyComes DEF Fits, Covered
  <2>4. posted \in Nat /\ dir \in Seq(RecordsTo(posted)) /\ SortedSeq(dir)
    BY OriginParts, Parts DEF IInv, FilesOrdered
  <2>5. PICK t : t = Roots(dir)
    OBVIOUS
  <2>6. /\ \A i \in 1..Len(t) : \E j \in 1..Len(dir) : dir[j].root /\ t[i] = dir[j]
        /\ \A j \in 1..Len(dir) : dir[j].root => \E i \in 1..Len(t) : t[i] = dir[j]
    BY <2>4, <2>5, RootsDef
  <2>7. ASSUME NEW i \in 1..Len(origin) PROVE \E k \in 1..Len(t) : t[k].art = origin[i].art
    <3>1. PICK j \in 1..Len(dir) : dir[j].root /\ dir[j].art = origin[i].art
      BY <2>2 DEF ThreadIn, Same
    <3>2. PICK k \in 1..Len(t) : t[k] = dir[j]
      BY <2>6, <3>1
    <3> QED BY <3>1, <3>2
  <2>8. ASSUME NEW k \in 1..Len(t) PROVE \E i \in 1..Len(origin) : origin[i].art = t[k].art
    <3>1. PICK j \in 1..Len(dir) : dir[j].root /\ t[k] = dir[j]
      BY <2>6
    <3>2. PICK i \in 1..Len(origin) : origin[i].art = dir[j].art
      BY <2>3, <3>1 DEF On, Same
    <3> QED BY <3>1, <3>2
  <2>9. Arts(origin) = Arts(t)
    BY <2>7, <2>8 DEF Arts
  <2> QED BY <2>5, <2>9 DEF RootArts
<1>2. Init => KInv
  BY InitKept, InitOrigin DEF KInv
<1>3. KInv /\ [Next]_vars => KInv'
  <2>1. KInv => JInv
    BY DEF KInv
  <2>2. JInv' /\ OriginInv' => KInv'
    BY DEF KInv
  <2> QED BY <2>1, <2>2, NextKept, NextFits
<1>4. Spec => []KInv
  BY <1>2, <1>3, PTL DEF Spec
<1> QED
  BY <1>1, <1>4, PTL
=============================================================================
