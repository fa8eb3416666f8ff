-------------------------- MODULE KnownFaultsProofs --------------------------
(***************************************************************************)
(* For any models, amounts, limits, programs and exploitable sets, and     *)
(* whatever chains of faults the emulator cuts short: exactly the wanted   *)
(* lists of models are injected, each once and lower orders first, and     *)
(* reusing the results of earlier lists loses no set of faults that would  *)
(* be tried if nothing were redundant.                                     *)
(*                                                                         *)
(* Complete is not inductive: that nothing is lost when a fault is skipped *)
(* depends on what was memorized for earlier lists.  FaultsInv says of     *)
(* every list that was injected (GoodList) that what is memorized for it   *)
(* is sorted by size, exploitable, not redundant with what had been looked *)
(* up, has all that was memorized for the beginnings of the list, and      *)
(* covers every exploitable chain of faults of the list that would be      *)
(* tried (CoversList).  That one injection keeps this is shown by          *)
(* induction over its levels: a chain that would be tried, and includes    *)
(* nothing known and nothing found, is reached at its level, since its     *)
(* beginnings would be tried as well (Closed, LevelCovers).                *)
(*                                                                         *)
(* The sections: finite sets in an order; vectors and subsequences; the    *)
(* sort and the removal of duplicates; compute_model_combinations; the     *)
(* theorems of ModelCombinations; combinations of faults, chains and       *)
(* levels; the memory; the steps and theorems of KnownFaults.              *)
(***************************************************************************)
EXTENDS KnownFaults, SequenceTheorems, FiniteSetTheorems, SetInduction

-----------------------------------------------------------------------------
(* Finite sets in an order *)

(* A strict total order of S, as a set of pairs. *)
StrictOrder(R, S) ==
  /\ \A x \in S : <<x, x>> \notin R
  /\ \A x, y, z \in S : <<x, y>> \in R /\ <<y, z>> \in R => <<x, z>> \in R
  /\ \A x, y \in S : x = y \/ <<x, y>> \in R \/ <<y, x>> \in R

(* What comes before x in an order. *)
Below(R, S, x) == {y \in S : <<y, x>> \in R}

(* The place of each element, from 0 on. *)
Rank(R, S) == [x \in S |-> Cardinality(Below(R, S, x))]

(* The elements by their rank. *)
EnumerationOf(S, R) == [k \in 1 .. Cardinality(S) |-> CHOOSE x \in S : Rank(R, S)[x] = k - 1]

(* g lists the elements of S in their order. *)
Enumerates(g, n, S, R) ==
  /\ n \in Nat
  /\ g \in [1 .. n -> S]
  /\ \A x \in S : \E k \in 1 .. n : g[k] = x
  /\ \A j, k \in 1 .. n : j < k => <<g[j], g[k]>> \in R

(* The number of smaller elements grows with the element. *)
LEMMA RankGrows ==
  ASSUME NEW S, IsFiniteSet(S), NEW R, StrictOrder(R, S), NEW x \in S, NEW y \in S, <<x, y>> \in R
  PROVE  Rank(R, S)[x] < Rank(R, S)[y]
<1>1. Below(R, S, x) \subseteq Below(R, S, y) /\ x \in Below(R, S, y) /\ x \notin Below(R, S, x)
  BY DEF Below, StrictOrder
<1>2. Below(R, S, y) \subseteq S /\ IsFiniteSet(Below(R, S, y))
  BY FS_Subset DEF Below
<1>3. IsFiniteSet(Below(R, S, x)) /\ Cardinality(Below(R, S, x)) <= Cardinality(Below(R, S, y))
      /\ Cardinality(Below(R, S, x)) # Cardinality(Below(R, S, y))
  BY <1>1, <1>2, FS_Subset
<1>4. Cardinality(Below(R, S, x)) \in Nat /\ Cardinality(Below(R, S, y)) \in Nat
  BY <1>2, <1>3, FS_CardinalityType
<1>5. QED
  BY <1>3, <1>4 DEF Rank

(* The ranks are the numbers below the size of the set, each once. *)
LEMMA RankIsBijection ==
  ASSUME NEW S, IsFiniteSet(S), NEW R, StrictOrder(R, S)
  PROVE  /\ Rank(R, S) \in [S -> 0 .. Cardinality(S) - 1]
         /\ \A x, y \in S : Rank(R, S)[x] = Rank(R, S)[y] => x = y
         /\ \A x, y \in S : Rank(R, S)[x] < Rank(R, S)[y] => <<x, y>> \in R
         /\ \A k \in 0 .. Cardinality(S) - 1 : \E x \in S : Rank(R, S)[x] = k
<1> DEFINE n == Cardinality(S)
           r == Rank(R, S)
<1>0. n \in Nat
  BY FS_CardinalityType
<1>1. ASSUME NEW x \in S PROVE r[x] \in 0 .. n - 1
  <2>1. Below(R, S, x) \subseteq S \ {x}
    BY DEF Below, StrictOrder
  <2>2. IsFiniteSet(S \ {x}) /\ Cardinality(S \ {x}) = n - 1
    BY FS_RemoveElement
  <2>3. IsFiniteSet(Below(R, S, x)) /\ Cardinality(Below(R, S, x)) <= n - 1
    BY <2>1, <2>2, FS_Subset
  <2>4. Cardinality(Below(R, S, x)) \in Nat
    BY <2>3, FS_CardinalityType
  <2>5. QED
    BY <1>0, <2>3, <2>4 DEF Rank
<1>2. r \in [S -> 0 .. n - 1]
  <2>1. DOMAIN r = S /\ r = [x \in S |-> r[x]]
    BY DEF Rank
  <2> HIDE DEF r, n
  <2>2. QED
    BY <1>1, <2>1
<1>3. ASSUME NEW x \in S, NEW y \in S, r[x] = r[y] PROVE x = y
  <2>1. CASE <<x, y>> \in R
    <3>1. r[x] < r[y]
      BY <2>1, RankGrows
    <3> HIDE DEF r, n
    <3>2. QED
      BY <1>1, <1>3, <3>1
  <2>2. CASE <<y, x>> \in R
    <3>1. r[y] < r[x]
      BY <2>2, RankGrows
    <3> HIDE DEF r, n
    <3>2. QED
      BY <1>1, <1>3, <3>1
  <2>3. QED
    BY <2>1, <2>2 DEF StrictOrder
<1>4. ASSUME NEW x \in S, NEW y \in S, r[x] < r[y] PROVE <<x, y>> \in R
  <2>1. CASE <<y, x>> \in R
    <3>1. r[y] < r[x]
      BY <2>1, RankGrows
    <3> HIDE DEF r, n
    <3>2. QED
      BY <1>1, <1>4, <3>1
  <2>2. x # y
    <3> HIDE DEF r, n
    <3>1. QED
      BY <1>1, <1>4
  <2>3. QED
    BY <2>1, <2>2 DEF StrictOrder
<1>5. \A k \in 0 .. n - 1 : \E x \in S : r[x] = k
  <2> HIDE DEF r
  <2>1. r \in Injection(S, 0 .. n - 1)
    BY <1>2, <1>3 DEF Injection, IsInjective
  <2>2. IsFiniteSet(0 .. n - 1) /\ Cardinality(0 .. n - 1) = n
    BY <1>0, FS_Interval, SMTT(30)
  <2>3. r \in Surjection(S, 0 .. n - 1)
    BY <2>1, <2>2, FS_Injection
  <2>4. QED
    BY <2>3 DEF Surjection
<1>6. QED
  BY <1>2, <1>3, <1>4, <1>5

(* The enumeration by rank lists the elements of the set in their order. *)
LEMMA EnumerationEnumerates ==
  ASSUME NEW S, IsFiniteSet(S), NEW R, StrictOrder(R, S)
  PROVE  Enumerates(EnumerationOf(S, R), Cardinality(S), S, R)
<1> DEFINE n == Cardinality(S)
           r == Rank(R, S)
           g == EnumerationOf(S, R)
<1>0. n \in Nat
  BY FS_CardinalityType
<1>1. /\ r \in [S -> 0 .. n - 1]
      /\ \A x, y \in S : r[x] = r[y] => x = y
      /\ \A x, y \in S : r[x] < r[y] => <<x, y>> \in R
      /\ \A k \in 0 .. n - 1 : \E x \in S : r[x] = k
  BY RankIsBijection
<1>2. g = [k \in 1 .. n |-> CHOOSE x \in S : r[x] = k - 1]
  BY DEF EnumerationOf
<1> HIDE DEF n, r, g
<1>3. ASSUME NEW k \in 1 .. n PROVE g[k] \in S /\ r[g[k]] = k - 1
  <2>1. k - 1 \in 0 .. n - 1
    BY <1>0
  <2>2. QED
    BY <1>1, <1>2, <2>1
<1>4. g \in [1 .. n -> S]
  BY <1>2, <1>3
<1>5. ASSUME NEW x \in S PROVE \E k \in 1 .. n : g[k] = x
  <2>1. r[x] + 1 \in 1 .. n /\ r[x] \in Nat
    BY <1>0, <1>1
  <2>2. r[g[r[x] + 1]] = r[x] /\ g[r[x] + 1] \in S
    BY <1>3, <2>1
  <2>3. QED
    BY <1>1, <2>1, <2>2
<1>6. ASSUME NEW j \in 1 .. n, NEW k \in 1 .. n, j < k PROVE <<g[j], g[k]>> \in R
  <2>1. r[g[j]] < r[g[k]]
    BY <1>0, <1>3, <1>6
  <2>2. QED
    BY <1>1, <1>3, <2>1
<1>7. QED
  BY <1>0, <1>4, <1>5, <1>6 DEF Enumerates, n, g

(* There is only one way to list the elements in their order. *)
LEMMA EnumerationUnique ==
  ASSUME NEW S, NEW R, StrictOrder(R, S), NEW n, NEW h, Enumerates(h, n, S, R)
  PROVE  IsFiniteSet(S) /\ Cardinality(S) = n /\ EnumerationOf(S, R) = h
<1>1. /\ n \in Nat
      /\ h \in [1 .. n -> S]
      /\ \A x \in S : \E k \in 1 .. n : h[k] = x
      /\ \A j, k \in 1 .. n : j < k => <<h[j], h[k]>> \in R
  BY DEF Enumerates
<1>2. \A j, k \in 1 .. n : h[j] = h[k] => j = k
  <2>1. SUFFICES ASSUME NEW j \in 1 .. n, NEW k \in 1 .. n, h[j] = h[k], j # k PROVE FALSE
    OBVIOUS
  <2>2. h[j] \in S /\ <<h[j], h[j]>> \notin R
    BY <1>1 DEF StrictOrder
  <2>3. j < k \/ k < j
    BY <1>1, <2>1
  <2>4. QED
    BY <1>1, <2>1, <2>2, <2>3
<1>3. h \in Bijection(1 .. n, S)
  BY <1>1, <1>2 DEF Bijection, Injection, Surjection, IsInjective
<1>4. IsFiniteSet(S) /\ Cardinality(S) = n
  BY <1>1, <1>3, FS_NatBijection, FS_CountingElements DEF ExistsBijection
<1>5. ASSUME NEW k \in 1 .. n PROVE Rank(R, S)[h[k]] = k - 1
  <2> DEFINE B == Below(R, S, h[k])
             f == [j \in 1 .. k - 1 |-> h[j]]
  <2>0. k \in Nat /\ k >= 1 /\ k <= n /\ h[k] \in S
    BY <1>1
  <2>1. f \in [1 .. k - 1 -> B]
    BY <1>1, <2>0 DEF Below
  <2>2. ASSUME NEW x \in B PROVE \E j \in 1 .. k - 1 : f[j] = x
    <3>1. x \in S /\ <<x, h[k]>> \in R
      BY DEF Below
    <3>2. PICK j \in 1 .. n : h[j] = x
      BY <1>1, <3>1
    <3>3. j # k
      BY <2>0, <3>1, <3>2 DEF StrictOrder
    <3>4. ~(k < j)
      BY <1>1, <2>0, <3>1, <3>2 DEF StrictOrder
    <3>5. QED
      BY <2>0, <3>2, <3>3, <3>4
  <2>3. \A i, j \in 1 .. k - 1 : f[i] = f[j] => i = j
    <3>1. \A i \in 1 .. k - 1 : i \in 1 .. n /\ f[i] = h[i]
      BY <1>1, <2>0
    <3> HIDE DEF f
    <3>2. QED
      BY <1>2, <3>1
  <2> HIDE DEF f, B
  <2>4. f \in Bijection(1 .. k - 1, B)
    BY <2>1, <2>2, <2>3 DEF Bijection, Injection, Surjection, IsInjective
  <2>5. Cardinality(B) = k - 1
    BY <2>0, <2>4, FS_CountingElements DEF ExistsBijection
  <2>6. QED
    BY <2>0, <2>5 DEF Rank, B
<1>6. ASSUME NEW k \in 1 .. n PROVE (CHOOSE x \in S : Rank(R, S)[x] = k - 1) = h[k]
  <2>1. h[k] \in S /\ Rank(R, S)[h[k]] = k - 1
    BY <1>1, <1>5
  <2>2. \A x, y \in S : Rank(R, S)[x] = Rank(R, S)[y] => x = y
    BY <1>4, RankIsBijection
  <2>3. QED
    BY <2>1, <2>2
<1>7. EnumerationOf(S, R) = [k \in 1 .. n |-> CHOOSE x \in S : Rank(R, S)[x] = k - 1]
  BY <1>4 DEF EnumerationOf
<1>8. QED
  BY <1>1, <1>4, <1>6, <1>7

(* The numbers in their order. *)
Ascending(D) == {x \in D \X D : x[1] < x[2]}

(* Numbers are in a strict order. *)
LEMMA AscendingOrder ==
  ASSUME NEW D \in SUBSET Int
  PROVE  StrictOrder(Ascending(D), D) /\ \A x, y \in D : <<x, y>> \in Ascending(D) <=> x < y
  BY DEF StrictOrder, Ascending

(* InOrder lists numbers in this order. *)
LEMMA InOrderAscending ==
  ASSUME NEW D \in SUBSET Int
  PROVE  InOrder(D, LAMBDA i, j : i < j) = EnumerationOf(D, Ascending(D))
<1>1. ASSUME NEW x \in D
      PROVE  {y \in D : y < x} = Below(Ascending(D), D, x)
  BY AscendingOrder DEF Below
<1>2. ASSUME NEW x \in D
      PROVE  Cardinality({y \in D : y < x}) = Rank(Ascending(D), D)[x]
  BY <1>1 DEF Rank
<1>3. InOrder(D, LAMBDA i, j : i < j) =
        [k \in 1 .. Cardinality(D) |-> CHOOSE x \in D : Cardinality({y \in D : y < x}) = k - 1]
  BY DEF InOrder
<1>4. ASSUME NEW k
      PROVE  (CHOOSE x \in D : Cardinality({y \in D : y < x}) = k - 1)
             = (CHOOSE x \in D : Rank(Ascending(D), D)[x] = k - 1)
  BY <1>2
<1>5. QED
  BY <1>3, <1>4 DEF EnumerationOf

(* The order of vectors: b is greater at the first place at which they      *)
(* differ, or goes on where a has ended.                                    *)
LEMMA VectorLessIrreflexive ==
  ASSUME NEW a \in Seq(Nat) PROVE ~VectorLess(a, a)
<1>1. \A i \in 1 .. Len(a) : a[i] \in Nat
  BY ElementOfSeq
<1>2. Len(a) \in Nat
  BY LenProperties
<1>3. QED
  BY <1>1, <1>2 DEF VectorLess

(* a is less than b because of place i. *)
LessAt(a, b, i) ==
  /\ \A j \in 1 .. i - 1 : j <= Len(b) /\ a[j] = b[j]
  /\ i <= Len(b)
  /\ i <= Len(a) => a[i] < b[i]

(* One such place decides. *)
LEMMA LessAtIs ==
  ASSUME NEW a, NEW b, NEW i \in 1 .. Len(a) + 1, LessAt(a, b, i)
  PROVE  VectorLess(a, b)
  BY DEF VectorLess, LessAt

(* The first of two deciding places decides for both. *)
LEMMA LessAtTransitive ==
  ASSUME NEW a \in Seq(Nat), NEW b \in Seq(Nat), NEW c \in Seq(Nat),
         NEW i \in 1 .. Len(a) + 1, NEW j \in 1 .. Len(b) + 1, LessAt(a, b, i), LessAt(b, c, j)
  PROVE  VectorLess(a, c)
<1>0. Len(a) \in Nat /\ Len(b) \in Nat /\ Len(c) \in Nat
  BY LenProperties
<1>1. /\ \A k \in 1 .. Len(a) : a[k] \in Nat
      /\ \A k \in 1 .. Len(b) : b[k] \in Nat
      /\ \A k \in 1 .. Len(c) : c[k] \in Nat
  BY ElementOfSeq
<1> DEFINE la == Len(a)  lb == Len(b)  lc == Len(c)
<1>2. i \in Nat /\ j \in Nat /\ 1 <= i /\ 1 <= j /\ i <= la + 1 /\ i <= lb /\ j <= lc
  BY <1>0 DEF LessAt
<1>3. CASE i <= j
  <2>1. \A k \in 1 .. i - 1 : k <= lc /\ a[k] = c[k]
    <3>1. TAKE k \in 1 .. i - 1
    <3>2. k \in 1 .. j - 1
      BY <1>2, <1>3
    <3>3. QED
      BY <1>2, <1>3, <3>2 DEF LessAt
  <2>2. i <= lc
    BY <1>0, <1>2, <1>3
  <2>3. ASSUME i <= la PROVE a[i] < c[i]
    <3>1. a[i] < b[i] /\ a[i] \in Nat /\ b[i] \in Nat /\ c[i] \in Nat
      BY <1>0, <1>1, <1>2, <2>2, <2>3 DEF LessAt
    <3>2. b[i] <= c[i]
      <4>1. CASE i = j
        BY <1>0, <1>1, <1>2, <2>2, <4>1 DEF LessAt
      <4>2. CASE i < j
        <5>1. i \in 1 .. j - 1
          BY <1>2, <4>2
        <5>2. QED
          BY <3>1, <5>1 DEF LessAt
      <4>3. QED
        BY <1>2, <1>3, <4>1, <4>2
    <3>3. QED
      BY <3>1, <3>2, SMTT(30)
  <2>4. QED
    BY <1>0, <1>2, <2>1, <2>2, <2>3 DEF VectorLess
<1>4. CASE j < i
  <2>1. j \in 1 .. i - 1 /\ j <= la /\ j <= lb
    BY <1>0, <1>2, <1>4, SMTT(30)
  <2>2. \A k \in 1 .. j - 1 : k <= lc /\ a[k] = c[k]
    <3>1. TAKE k \in 1 .. j - 1
    <3>2. k \in 1 .. i - 1
      BY <1>2, <1>4
    <3>3. QED
      BY <1>2, <3>2 DEF LessAt
  <2>3. a[j] = b[j] /\ b[j] < c[j]
    BY <2>1 DEF LessAt
  <2>4. LessAt(a, c, j)
    BY <1>2, <2>2, <2>3 DEF LessAt
  <2>5. j \in 1 .. Len(a) + 1
    BY <1>0, <2>1
  <2>6. QED
    BY <2>4, <2>5, LessAtIs
<1>5. QED
  BY <1>2, <1>3, <1>4

(* The order of vectors is transitive. *)
LEMMA VectorLessTransitive ==
  ASSUME NEW a \in Seq(Nat), NEW b \in Seq(Nat), NEW c \in Seq(Nat), VectorLess(a, b), VectorLess(b, c)
  PROVE  VectorLess(a, c)
<1>1. PICK i \in 1 .. Len(a) + 1 : LessAt(a, b, i)
  BY DEF VectorLess, LessAt
<1>2. PICK j \in 1 .. Len(b) + 1 : LessAt(b, c, j)
  BY DEF VectorLess, LessAt
<1>3. QED
  BY <1>1, <1>2, LessAtTransitive

(* Two different vectors have a first place at which they differ. *)
LEMMA VectorLessTotal ==
  ASSUME NEW a \in Seq(Nat), NEW b \in Seq(Nat), a # b, ~VectorLess(b, a)
  PROVE  VectorLess(a, b)
<1> DEFINE la == Len(a)  lb == Len(b)
           E == {i \in Nat \ {0} : i > la \/ i > lb \/ a[i] # b[i]}
<1>0. la \in Nat /\ lb \in Nat
  BY LenProperties
<1>1. la + lb + 1 \in E
  BY <1>0
<1>2. PICK i \in E : \A j \in E : i <= j
  <2>1. E \in SUBSET Nat /\ E # {}
    BY <1>1
  <2> HIDE DEF E
  <2>2. QED
    BY <2>1, LeastElement
<1>3. \A j \in 1 .. i - 1 : j <= la /\ j <= lb /\ a[j] = b[j]
  <2>1. TAKE j \in 1 .. i - 1
  <2>2. j \in Nat \ {0} /\ j \notin E
    BY <1>2
  <2>3. QED
    BY <1>0, <2>2
<1>4. ~(i > la /\ i > lb)
  <2>1. SUFFICES ASSUME i > la, i > lb PROVE FALSE
    OBVIOUS
  <2>2. la = lb
    <3>1. la \in 1 .. i - 1 \/ la = 0
      BY <1>0, <1>2, <2>1
    <3>2. lb \in 1 .. i - 1 \/ lb = 0
      BY <1>0, <1>2, <2>1
    <3>3. QED
      BY <1>0, <1>3, <3>1, <3>2
  <2>3. \A j \in 1 .. la : a[j] = b[j]
    BY <1>0, <1>2, <1>3, <2>1
  <2>4. a = b
    BY <2>2, <2>3, SeqEqual
  <2>5. QED
    BY <2>4
<1>5. i \in Nat /\ i >= 1 /\ i <= la + 1 /\ i <= lb + 1
  <2>1. i - 1 \in 1 .. i - 1 \/ i = 1
    BY <1>2
  <2>2. QED
    BY <1>0, <1>2, <1>3, <2>1
<1>6. \A k \in 1 .. la : a[k] \in Nat
  BY ElementOfSeq
<1>7. \A k \in 1 .. lb : b[k] \in Nat
  BY ElementOfSeq
<1>8. CASE i > la
  BY <1>0, <1>3, <1>4, <1>5, <1>8 DEF VectorLess
<1>9. CASE i > lb
  BY <1>0, <1>3, <1>4, <1>5, <1>9, SMTT(30) DEF VectorLess
<1>10. CASE i <= la /\ i <= lb
  <2>1. a[i] # b[i] /\ a[i] \in Nat /\ b[i] \in Nat
    BY <1>2, <1>5, <1>6, <1>7, <1>10
  <2>2. CASE a[i] < b[i]
    <3>1. LessAt(a, b, i)
      BY <1>3, <1>5, <1>10, <2>2 DEF LessAt
    <3>2. QED
      BY <1>5, <3>1, LessAtIs
  <2>3. CASE b[i] < a[i]
    <3>1. LessAt(b, a, i)
      BY <1>3, <1>5, <1>10, <2>3 DEF LessAt
    <3>2. QED
      BY <1>5, <3>1, LessAtIs
  <2>4. QED
    BY <2>1, <2>2, <2>3
<1>11. QED
  BY <1>0, <1>5, <1>8, <1>9, <1>10

(* The order of the vectors of a set, as a set of pairs. *)
VectorOrder(S) == {x \in S \X S : VectorLess(x[1], x[2])}

(* It is a strict order of them. *)
LEMMA VectorOrderStrict ==
  ASSUME NEW S \in SUBSET Seq(Nat)
  PROVE  StrictOrder(VectorOrder(S), S) /\ \A x, y \in S : <<x, y>> \in VectorOrder(S) <=> VectorLess(x, y)
<1>1. \A x, y \in S : <<x, y>> \in VectorOrder(S) <=> VectorLess(x, y)
  BY DEF VectorOrder
<1>2. \A x \in S : ~VectorLess(x, x)
  BY VectorLessIrreflexive
<1>3. \A x, y, z \in S : VectorLess(x, y) /\ VectorLess(y, z) => VectorLess(x, z)
  BY VectorLessTransitive
<1>4. \A x, y \in S : x = y \/ VectorLess(x, y) \/ VectorLess(y, x)
  BY VectorLessTotal
<1>5. QED
  BY <1>1, <1>2, <1>3, <1>4 DEF StrictOrder

(* InOrder lists vectors in this order: the keys of memorized_faults. *)
LEMMA InOrderVectors ==
  ASSUME NEW S \in SUBSET Seq(Nat)
  PROVE  InOrder(S, VectorLess) = EnumerationOf(S, VectorOrder(S))
<1>1. ASSUME NEW x \in S
      PROVE  {y \in S : VectorLess(y, x)} = Below(VectorOrder(S), S, x)
  BY VectorOrderStrict DEF Below
<1>2. ASSUME NEW x \in S
      PROVE  Cardinality({y \in S : VectorLess(y, x)}) = Rank(VectorOrder(S), S)[x]
  BY <1>1 DEF Rank
<1>3. InOrder(S, VectorLess) =
        [k \in 1 .. Cardinality(S) |-> CHOOSE x \in S : Cardinality({y \in S : VectorLess(y, x)}) = k - 1]
  BY DEF InOrder
<1>4. ASSUME NEW k
      PROVE  (CHOOSE x \in S : Cardinality({y \in S : VectorLess(y, x)}) = k - 1)
             = (CHOOSE x \in S : Rank(VectorOrder(S), S)[x] = k - 1)
  BY <1>2
<1>5. QED
  BY <1>3, <1>4 DEF EnumerationOf

(* The order of the lists of models: by length, then as vectors. *)
ListOrder(S) == {x \in S \X S : ListLess(x[1], x[2])}

(* It is a strict order of the lists of models. *)
LEMMA ListOrderStrict ==
  ASSUME NEW S \in SUBSET Seq(Nat)
  PROVE  StrictOrder(ListOrder(S), S) /\ \A x, y \in S : <<x, y>> \in ListOrder(S) <=> ListLess(x, y)
<1>0. \A x \in S : x \in Seq(Nat) /\ Len(x) \in Nat
  BY LenProperties
<1>1. \A x, y \in S : <<x, y>> \in ListOrder(S) <=> ListLess(x, y)
  BY DEF ListOrder
<1>2. \A x \in S : ~ListLess(x, x)
  BY <1>0, VectorLessIrreflexive DEF ListLess
<1>3. ASSUME NEW x \in S, NEW y \in S, NEW z \in S, ListLess(x, y), ListLess(y, z)
      PROVE  ListLess(x, z)
  <2>1. Len(x) \in Nat /\ Len(y) \in Nat /\ Len(z) \in Nat
    BY <1>0
  <2>2. VectorLess(x, y) /\ VectorLess(y, z) => VectorLess(x, z)
    BY <1>0, VectorLessTransitive
  <2>3. QED
    BY <1>3, <2>1, <2>2 DEF ListLess
<1>4. ASSUME NEW x \in S, NEW y \in S
      PROVE  x = y \/ ListLess(x, y) \/ ListLess(y, x)
  <2>1. Len(x) \in Nat /\ Len(y) \in Nat
    BY <1>0
  <2>2. x = y \/ VectorLess(x, y) \/ VectorLess(y, x)
    BY <1>0, VectorLessTotal
  <2>3. QED
    BY <2>1, <2>2 DEF ListLess
<1>5. QED
  BY <1>1, <1>2, <1>3, <1>4 DEF StrictOrder

(* InOrder lists the lists of models in this order. *)
LEMMA InOrderLists ==
  ASSUME NEW S \in SUBSET Seq(Nat)
  PROVE  InOrder(S, ListLess) = EnumerationOf(S, ListOrder(S))
<1>1. ASSUME NEW x \in S
      PROVE  {y \in S : ListLess(y, x)} = Below(ListOrder(S), S, x)
  BY ListOrderStrict DEF Below
<1>2. ASSUME NEW x \in S
      PROVE  Cardinality({y \in S : ListLess(y, x)}) = Rank(ListOrder(S), S)[x]
  BY <1>1 DEF Rank
<1>3. InOrder(S, ListLess) =
        [k \in 1 .. Cardinality(S) |-> CHOOSE x \in S : Cardinality({y \in S : ListLess(y, x)}) = k - 1]
  BY DEF InOrder
<1>4. ASSUME NEW k
      PROVE  (CHOOSE x \in S : Cardinality({y \in S : ListLess(y, x)}) = k - 1)
             = (CHOOSE x \in S : Rank(ListOrder(S), S)[x] = k - 1)
  BY <1>2
<1>5. QED
  BY <1>3, <1>4 DEF EnumerationOf

-----------------------------------------------------------------------------
(* Subsequences *)

(* h chooses the elements of u in t, from left to right. *)
Embeds(h, u, t) ==
  /\ h \in [1 .. Len(u) -> 1 .. Len(t)]
  /\ \A j, k \in 1 .. Len(u) : j < k => h[j] < h[k]
  /\ \A k \in 1 .. Len(u) : u[k] = t[h[k]]

(* The elements at the places of D, if h lists these places. *)
LEMMA ElementsAtListed ==
  ASSUME NEW T, NEW t \in Seq(T), NEW D \in SUBSET (1 .. Len(t)), NEW n, NEW h,
         Enumerates(h, n, D, Ascending(D))
  PROVE  /\ ElementsAt(t, D) \in Seq(T)
         /\ Len(ElementsAt(t, D)) = n
         /\ \A k \in 1 .. n : ElementsAt(t, D)[k] = t[h[k]]
         /\ Embeds(h, ElementsAt(t, D), t)
<1>0. D \in SUBSET Int
  OBVIOUS
<1>1. StrictOrder(Ascending(D), D) /\ \A x, y \in D : <<x, y>> \in Ascending(D) <=> x < y
  BY <1>0, AscendingOrder
<1>2. IsFiniteSet(D) /\ Cardinality(D) = n /\ EnumerationOf(D, Ascending(D)) = h
  BY <1>1, EnumerationUnique
<1>3. ElementsAt(t, D) = [k \in 1 .. Cardinality(D) |-> t[InOrder(D, LAMBDA i, j : i < j)[k]]]
  BY DEF ElementsAt
<1>4. ElementsAt(t, D) = [k \in 1 .. n |-> t[h[k]]]
  BY <1>0, <1>2, <1>3, InOrderAscending
<1>5. n \in Nat /\ h \in [1 .. n -> D] /\ \A j, k \in 1 .. n : j < k => h[j] < h[k]
  BY <1>1 DEF Enumerates
<1> DEFINE u == ElementsAt(t, D)
<1>6. \A i \in 1 .. Len(t) : t[i] \in T
  BY ElementOfSeq
<1>7. u \in [1 .. n -> T]
  BY <1>4, <1>5, <1>6
<1> HIDE DEF u
<1>8. u \in Seq(T) /\ Len(u) = n
  BY <1>5, <1>7
<1>9. Embeds(h, u, t)
  BY <1>4, <1>5, <1>8 DEF Embeds, u
<1>10. QED
  BY <1>4, <1>8, <1>9 DEF u

(* Every set of places is listed. *)
LEMMA PlacesListed ==
  ASSUME NEW N \in Nat, NEW D \in SUBSET (1 .. N)
  PROVE  IsFiniteSet(D) /\ Cardinality(D) \in Nat /\ Cardinality(D) <= N
         /\ \E h : Enumerates(h, Cardinality(D), D, Ascending(D))
<1>1. IsFiniteSet(1 .. N) /\ Cardinality(1 .. N) = N
  BY FS_Interval
<1>2. IsFiniteSet(D) /\ Cardinality(D) <= N /\ Cardinality(D) \in Nat
  BY <1>1, FS_Subset, FS_CardinalityType
<1>3. D \in SUBSET Int
  OBVIOUS
<1>4. StrictOrder(Ascending(D), D)
  BY <1>3, AscendingOrder
<1>5. Enumerates(EnumerationOf(D, Ascending(D)), Cardinality(D), D, Ascending(D))
  BY <1>2, <1>4, EnumerationEnumerates
<1>6. QED
  BY <1>2, <1>5

(* What an embedding chooses are the elements at its places. *)
LEMMA EmbeddedAt ==
  ASSUME NEW T, NEW t \in Seq(T), NEW u \in Seq(T), NEW h, Embeds(h, u, t),
         NEW D \in SUBSET (1 .. Len(t)), \A k \in 1 .. Len(u) : h[k] \in D,
         \A x \in D : \E k \in 1 .. Len(u) : h[k] = x
  PROVE  Enumerates(h, Len(u), D, Ascending(D)) /\ ElementsAt(t, D) = u
<1> DEFINE n == Len(u)
<1>0. n \in Nat
  BY LenProperties
<1>1. /\ h \in [1 .. n -> 1 .. Len(t)]
      /\ \A j, k \in 1 .. n : j < k => h[j] < h[k]
      /\ \A k \in 1 .. n : u[k] = t[h[k]]
  BY DEF Embeds
<1>2. \A k \in 1 .. n : h[k] \in D
  OBVIOUS
<1>3. \A x \in D : \E k \in 1 .. n : h[k] = x
  OBVIOUS
<1> HIDE DEF n
<1>5. h \in [1 .. n -> D]
  BY <1>1, <1>2
<1>6. \A x, y \in D : <<x, y>> \in Ascending(D) <=> x < y
  <2>1. D \in SUBSET Int
    OBVIOUS
  <2>2. QED
    BY <2>1, AscendingOrder
<1>7. Enumerates(h, n, D, Ascending(D))
  BY <1>0, <1>1, <1>2, <1>3, <1>5, <1>6 DEF Enumerates
<1> DEFINE e == ElementsAt(t, D)
<1>8. e \in Seq(T) /\ Len(e) = n /\ \A k \in 1 .. n : e[k] = t[h[k]]
  BY <1>7, ElementsAtListed
<1> HIDE DEF e
<1>9. e = u
  <2>1. Len(e) = Len(u) /\ \A k \in 1 .. Len(e) : e[k] = u[k]
    BY <1>1, <1>8 DEF n
  <2>2. QED
    BY <1>8, <2>1, SeqEqual
<1>10. QED
  BY <1>7, <1>9 DEF e, n

(* A subsequence is what can be embedded. *)
LEMMA SubsequenceIs ==
  ASSUME NEW T, NEW t \in Seq(T)
  PROVE  /\ \A u \in Subsequences(t) : u \in Seq(T) /\ Len(u) <= Len(t) /\ \E h : Embeds(h, u, t)
         /\ \A u \in Seq(T) : \A h : Embeds(h, u, t) => u \in Subsequences(t)
<1>0. Len(t) \in Nat /\ DOMAIN t = 1 .. Len(t)
  BY LenProperties
<1>1. ASSUME NEW u \in Subsequences(t)
      PROVE  u \in Seq(T) /\ Len(u) <= Len(t) /\ \E h : Embeds(h, u, t)
  <2>1. PICK D \in SUBSET (1 .. Len(t)) : u = ElementsAt(t, D)
    BY <1>0 DEF Subsequences
  <2>2. PICK h : Enumerates(h, Cardinality(D), D, Ascending(D))
    BY <1>0, PlacesListed
  <2>3. Cardinality(D) <= Len(t)
    BY <1>0, PlacesListed
  <2>4. QED
    BY <2>1, <2>2, <2>3, ElementsAtListed
<1>2. ASSUME NEW u \in Seq(T), NEW h, Embeds(h, u, t) PROVE u \in Subsequences(t)
  <2> DEFINE D == {h[k] : k \in 1 .. Len(u)}
  <2>1. D \in SUBSET (1 .. Len(t)) /\ ElementsAt(t, D) = u
    <3>1. D \in SUBSET (1 .. Len(t)) /\ (\A k \in 1 .. Len(u) : h[k] \in D)
          /\ \A x \in D : \E k \in 1 .. Len(u) : h[k] = x
      BY <1>2 DEF Embeds
    <3> HIDE DEF D
    <3>2. QED
      BY <1>2, <3>1, EmbeddedAt
  <2>2. QED
    BY <1>0, <2>1 DEF Subsequences
<1>3. QED
  BY <1>1, <1>2

-----------------------------------------------------------------------------
(* Sorting and the removal of duplicates *)

(* The elements of a sequence. *)
LEMMA ToSetOfSeq ==
  ASSUME NEW S, NEW s \in Seq(S)
  PROVE  /\ ToSet(s) \subseteq S
         /\ \A x : x \in ToSet(s) <=> \E i \in 1 .. Len(s) : s[i] = x
<1>1. DOMAIN s = 1 .. Len(s) /\ \A i \in 1 .. Len(s) : s[i] \in S
  BY LenProperties, ElementOfSeq
<1>2. QED
  BY <1>1 DEF ToSet

(* Where each element is after an insertion. *)
LEMMA InsertAtIs ==
  ASSUME NEW S, NEW t \in Seq(S), NEW x \in S, NEW p \in 1 .. Len(t) + 1
  PROVE  /\ InsertAt(t, p, x) \in Seq(S)
         /\ Len(InsertAt(t, p, x)) = Len(t) + 1
         /\ \A k \in 1 .. Len(t) + 1 :
              InsertAt(t, p, x)[k] = IF k < p THEN t[k] ELSE IF k = p THEN x ELSE t[k - 1]
<1> DEFINE a == SubSeq(t, 1, p - 1)
           b == SubSeq(t, p, Len(t))
           ax == a \o <<x>>
           u == ax \o b
           n == Len(t)
<1>0. n \in Nat /\ p \in Nat /\ 1 <= p /\ p <= n + 1
  BY LenProperties
<1>1. \A i \in 1 .. n : t[i] \in S
  BY ElementOfSeq
<1>2. a \in Seq(S) /\ Len(a) = p - 1 /\ \A i \in 1 .. p - 1 : a[i] = t[i]
  <2>1. \A i \in 1 .. p - 1 : t[i] \in S
    BY <1>0, <1>1
  <2>2. p - 1 \in Int /\ 1 \in Int
    BY <1>0
  <2>3. SubSeq(t, 1, p - 1) \in Seq(S)
        /\ Len(SubSeq(t, 1, p - 1)) = (IF 1 <= p - 1 THEN (p - 1) - 1 + 1 ELSE 0)
        /\ \A i \in 1 .. (p - 1) - 1 + 1 : SubSeq(t, 1, p - 1)[i] = t[1 + i - 1]
    BY <2>1, <2>2, SubSeqProperties
  <2>4. QED
    BY <1>0, <2>3
<1>3. b \in Seq(S) /\ Len(b) = n - p + 1 /\ \A i \in 1 .. n - p + 1 : b[i] = t[p + i - 1]
  <2>1. \A i \in p .. n : t[i] \in S
    BY <1>0, <1>1
  <2>2. p \in Int /\ n \in Int
    BY <1>0
  <2>3. SubSeq(t, p, n) \in Seq(S)
        /\ Len(SubSeq(t, p, n)) = (IF p <= n THEN n - p + 1 ELSE 0)
        /\ \A i \in 1 .. n - p + 1 : SubSeq(t, p, n)[i] = t[p + i - 1]
    <3> HIDE DEF n
    <3>1. QED
      BY <2>1, <2>2, SubSeqProperties
  <2>4. QED
    BY <1>0, <2>3
<1> HIDE DEF a, b
<1>4. <<x>> \in Seq(S) /\ Len(<<x>>) = 1 /\ <<x>>[1] = x
  OBVIOUS
<1>5. /\ ax \in Seq(S) /\ Len(ax) = p
      /\ \A i \in 1 .. p : ax[i] = IF i <= p - 1 THEN a[i] ELSE x
  <2>1. /\ a \o <<x>> \in Seq(S) /\ Len(a \o <<x>>) = Len(a) + Len(<<x>>)
        /\ \A i \in 1 .. Len(a) + Len(<<x>>) : (a \o <<x>>)[i] = IF i <= Len(a) THEN a[i] ELSE <<x>>[i - Len(a)]
    BY <1>2, <1>4, ConcatProperties
  <2>2. QED
    BY <1>0, <1>2, <1>4, <2>1
<1> HIDE DEF ax
<1>6. /\ u \in Seq(S) /\ Len(u) = n + 1
      /\ \A i \in 1 .. n + 1 : u[i] = IF i <= p THEN ax[i] ELSE b[i - p]
  <2>1. /\ ax \o b \in Seq(S) /\ Len(ax \o b) = Len(ax) + Len(b)
        /\ \A i \in 1 .. Len(ax) + Len(b) : (ax \o b)[i] = IF i <= Len(ax) THEN ax[i] ELSE b[i - Len(ax)]
    BY <1>3, <1>5, ConcatProperties
  <2>2. QED
    BY <1>0, <1>3, <1>5, <2>1
<1>7. InsertAt(t, p, x) = u
  BY DEF InsertAt, a, b, ax
<1> HIDE DEF u, n
<1>8. ASSUME NEW k \in 1 .. n + 1
      PROVE  u[k] = IF k < p THEN t[k] ELSE IF k = p THEN x ELSE t[k - 1]
  <2>1. CASE k < p
    BY <1>0, <1>2, <1>5, <1>6, <2>1
  <2>2. CASE k = p
    BY <1>0, <1>5, <1>6, <2>2
  <2>3. CASE k > p
    <3>1. k - p \in 1 .. n - p + 1 /\ p + (k - p) - 1 = k - 1
      BY <1>0, <2>3
    <3>2. u[k] = b[k - p]
      BY <1>0, <1>6, <2>3
    <3>3. QED
      BY <1>0, <1>3, <2>3, <3>1, <3>2
  <2>4. QED
    BY <1>0, <2>1, <2>2, <2>3
<1>9. QED
  BY <1>6, <1>7, <1>8 DEF n

(* The greatest element of a set of places and 0. *)
LEMMA MaxOfPlaces ==
  ASSUME NEW N \in Nat, NEW A \in SUBSET (1 .. N)
  PROVE  Max({0} \cup A) \in {0} \cup A /\ \A j \in A : j <= Max({0} \cup A)
<1> DEFINE B == {0} \cup A
           C == {N - j : j \in B}
<1>1. B \in SUBSET (0 .. N) /\ 0 \in B
  OBVIOUS
<1> HIDE DEF B
<1>2. C \in SUBSET Nat /\ C # {}
  BY <1>1
<1>3. PICK c \in C : \A d \in C : c <= d
  <2> HIDE DEF C
  <2>1. QED
    BY <1>2, LeastElement
<1>4. PICK m \in B : c = N - m
  OBVIOUS
<1>5. ASSUME NEW j \in B PROVE m >= j
  <2>1. N - j \in C
    OBVIOUS
  <2>2. c <= N - j /\ j \in 0 .. N /\ m \in 0 .. N
    BY <1>1, <1>3, <2>1
  <2> HIDE DEF C
  <2>3. QED
    BY <1>4, <2>2
<1>6. Max(B) \in B /\ \A j \in B : Max(B) >= j
  BY <1>5 DEF Max
<1>7. QED
  BY <1>1, <1>6 DEF B

(* u is t with x put in somewhere. *)
IsInsertion(u, t, x) == \E p \in 1 .. Len(t) + 1 : u = InsertAt(t, p, x)

(* To put x in front is to insert it at 1. *)
LEMMA InsertFront ==
  ASSUME NEW S, NEW t \in Seq(S), NEW x \in S
  PROVE  <<x>> \o t = InsertAt(t, 1, x) /\ 1 \in 1 .. Len(t) + 1
<1> DEFINE u == <<x>> \o t
           v == InsertAt(t, 1, x)
           n == Len(t)
<1>0. n \in Nat /\ 1 \in 1 .. n + 1
  BY LenProperties
<1>1. v \in Seq(S) /\ Len(v) = n + 1
      /\ \A k \in 1 .. n + 1 : v[k] = IF k < 1 THEN t[k] ELSE IF k = 1 THEN x ELSE t[k - 1]
  BY <1>0, InsertAtIs
<1>2. u \in Seq(S) /\ Len(u) = n + 1
      /\ \A k \in 1 .. n + 1 : u[k] = IF k = 1 THEN x ELSE t[k - 1]
  <2>1. <<x>> \in Seq(S) /\ Len(<<x>>) = 1 /\ <<x>>[1] = x
    OBVIOUS
  <2>2. /\ u \in Seq(S) /\ Len(u) = Len(<<x>>) + Len(t)
        /\ \A k \in 1 .. Len(<<x>>) + Len(t) : u[k] = IF k <= Len(<<x>>) THEN <<x>>[k] ELSE t[k - Len(<<x>>)]
    BY <2>1, ConcatProperties
  <2> HIDE DEF u
  <2>3. QED
    BY <1>0, <2>1, <2>2
<1> HIDE DEF u, v, n
<1>3. Len(u) = Len(v) /\ \A k \in 1 .. Len(u) : u[k] = v[k]
  BY <1>0, <1>1, <1>2
<1>4. u = v
  BY <1>1, <1>2, <1>3, SeqEqual
<1>5. QED
  BY <1>0, <1>4 DEF u, v, n

(* To insert x behind some places. *)
LEMMA InsertBehind ==
  ASSUME NEW S, NEW t \in Seq(S), NEW x \in S, NEW A \in SUBSET (DOMAIN t)
  PROVE  IsInsertion(InsertAt(t, 1 + Max({0} \cup A), x), t, x)
<1>1. Len(t) \in Nat /\ DOMAIN t = 1 .. Len(t)
  BY LenProperties
<1>2. A \in SUBSET (1 .. Len(t))
  BY <1>1
<1>3. Max({0} \cup A) \in {0} \cup A
  BY <1>1, <1>2, MaxOfPlaces
<1>4. 1 + Max({0} \cup A) \in 1 .. Len(t) + 1
  BY <1>1, <1>2, <1>3
<1>5. QED
  BY <1>4 DEF IsInsertion

(* Whatever the comparator, one step of the sort is an insertion. *)
LEMMA InsertedFault ==
  ASSUME NEW S, NEW t \in Seq(S), NEW x \in S
  PROVE  IsInsertion(Inserted(t, x, FaultLess), t, x)
<1> DEFINE A == {j \in DOMAIN t : ~FaultLess(x, t[j])}
<1>1. IsInsertion(InsertAt(t, 1 + Max({0} \cup A), x), t, x)
  <2>1. A \in SUBSET (DOMAIN t)
    OBVIOUS
  <2> HIDE DEF A
  <2>2. QED
    BY <2>1, InsertBehind
<1>2. IsInsertion(<<x>> \o t, t, x)
  BY InsertFront DEF IsInsertion
<1>3. Inserted(t, x, FaultLess) = <<x>> \o t
      \/ Inserted(t, x, FaultLess) = InsertAt(t, 1 + Max({0} \cup A), x)
  BY DEF Inserted
<1>4. QED
  BY <1>1, <1>2, <1>3

(* The same for the order of combinations of faults. *)
LEMMA InsertedCombination ==
  ASSUME NEW S, NEW t \in Seq(S), NEW x \in S
  PROVE  IsInsertion(Inserted(t, x, CombinationLess), t, x)
<1> DEFINE A == {j \in DOMAIN t : ~CombinationLess(x, t[j])}
<1>1. IsInsertion(InsertAt(t, 1 + Max({0} \cup A), x), t, x)
  <2>1. A \in SUBSET (DOMAIN t)
    OBVIOUS
  <2> HIDE DEF A
  <2>2. QED
    BY <2>1, InsertBehind
<1>2. IsInsertion(<<x>> \o t, t, x)
  BY InsertFront DEF IsInsertion
<1>3. Inserted(t, x, CombinationLess) = <<x>> \o t
      \/ Inserted(t, x, CombinationLess) = InsertAt(t, 1 + Max({0} \cup A), x)
  BY DEF Inserted
<1>4. QED
  BY <1>1, <1>2, <1>3

(* The same for models, whose comparator is no order at all. *)
LEMMA InsertedModel ==
  ASSUME NEW S, NEW t \in Seq(S), NEW x \in S
  PROVE  IsInsertion(Inserted(t, x, Before), t, x)
<1> DEFINE A == {j \in DOMAIN t : ~Before(x, t[j])}
<1>1. IsInsertion(InsertAt(t, 1 + Max({0} \cup A), x), t, x)
  <2>1. A \in SUBSET (DOMAIN t)
    OBVIOUS
  <2> HIDE DEF A
  <2>2. QED
    BY <2>1, InsertBehind
<1>2. IsInsertion(<<x>> \o t, t, x)
  BY InsertFront DEF IsInsertion
<1>3. Inserted(t, x, Before) = <<x>> \o t
      \/ Inserted(t, x, Before) = InsertAt(t, 1 + Max({0} \cup A), x)
  BY DEF Inserted
<1>4. QED
  BY <1>1, <1>2, <1>3

(* An insertion adds one element. *)
LEMMA InsertionKeeps ==
  ASSUME NEW S, NEW t \in Seq(S), NEW x \in S, NEW u, IsInsertion(u, t, x)
  PROVE  u \in Seq(S) /\ Len(u) = Len(t) + 1 /\ ToSet(u) = ToSet(t) \cup {x}
<1> DEFINE n == Len(t)
<1>0. n \in Nat
  BY LenProperties
<1>1. PICK p \in 1 .. n + 1 : u = InsertAt(t, p, x)
  BY DEF IsInsertion
<1>2. u \in Seq(S) /\ Len(u) = n + 1
      /\ \A k \in 1 .. n + 1 : u[k] = IF k < p THEN t[k] ELSE IF k = p THEN x ELSE t[k - 1]
  <2> DEFINE v == InsertAt(t, p, x)
  <2>1. v \in Seq(S) /\ Len(v) = n + 1
        /\ \A k \in 1 .. n + 1 : v[k] = IF k < p THEN t[k] ELSE IF k = p THEN x ELSE t[k - 1]
    BY InsertAtIs
  <2>2. u = v
    BY <1>1
  <2> HIDE DEF v
  <2>3. QED
    BY <2>1, <2>2
<1>3. \A y : y \in ToSet(t) <=> \E i \in 1 .. n : t[i] = y
  BY ToSetOfSeq
<1>4. \A y : y \in ToSet(u) <=> \E i \in 1 .. n + 1 : u[i] = y
  <2>1. \A y : y \in ToSet(u) <=> \E i \in 1 .. Len(u) : u[i] = y
    BY <1>2, ToSetOfSeq
  <2>2. QED
    BY <1>2, <2>1
<1> HIDE DEF n
<1>5. ASSUME NEW y \in ToSet(u) PROVE y \in ToSet(t) \cup {x}
  <2>1. PICK i \in 1 .. n + 1 : u[i] = y
    BY <1>4
  <2>2. CASE i < p
    BY <1>0, <1>2, <1>3, <2>1, <2>2
  <2>3. CASE i = p
    BY <1>0, <1>2, <2>1, <2>3
  <2>4. CASE i > p
    <3>1. i - 1 \in 1 .. n /\ t[i - 1] = y
      BY <1>0, <1>2, <2>1, <2>4
    <3>2. QED
      BY <1>3, <3>1
  <2>5. QED
    BY <1>0, <2>2, <2>3, <2>4
<1>6. ASSUME NEW y \in ToSet(t) PROVE y \in ToSet(u)
  <2>1. PICK i \in 1 .. n : t[i] = y
    BY <1>3
  <2>2. CASE i < p
    BY <1>0, <1>2, <1>4, <2>1, <2>2
  <2>3. CASE i >= p
    <3>1. i + 1 \in 1 .. n + 1 /\ u[i + 1] = t[(i + 1) - 1]
      BY <1>0, <1>2, <2>3
    <3>2. (i + 1) - 1 = i
      BY <1>0
    <3>3. QED
      BY <1>4, <2>1, <3>1, <3>2
  <2>4. QED
    BY <1>0, <2>2, <2>3
<1>7. x \in ToSet(u)
  <2>1. u[p] = x
    BY <1>0, <1>2
  <2> HIDE DEF n
  <2>2. QED
    BY <1>4, <2>1
<1>8. QED
  BY <1>2, <1>5, <1>6, <1>7 DEF n

(* One insertion after the other keeps all elements. *)
LEMMA InsertionsKeep ==
  ASSUME NEW S, NEW s \in Seq(S), NEW f \in [0 .. Len(s) -> Seq(S)], f[0] = <<>>,
         \A n \in 1 .. Len(s) : IsInsertion(f[n], f[n - 1], s[n])
  PROVE  Len(f[Len(s)]) = Len(s) /\ ToSet(f[Len(s)]) = ToSet(s)
<1> DEFINE N == Len(s)
           Good == {n \in 0 .. N : Len(f[n]) = n /\ ToSet(f[n]) = {s[i] : i \in 1 .. n}}
<1>0. N \in Nat /\ \A i \in 1 .. N : s[i] \in S
  BY LenProperties, ElementOfSeq
<1>1. 0 \in Good
  BY <1>0 DEF ToSet
<1>2. ASSUME NEW n \in Good, n < N PROVE n + 1 \in Good
  <2>0. n \in 0 .. N /\ Len(f[n]) = n /\ ToSet(f[n]) = {s[i] : i \in 1 .. n}
    OBVIOUS
  <2>1. n \in 0 .. N /\ Len(f[n]) = n /\ ToSet(f[n]) = {s[i] : i \in 1 .. n} /\ n + 1 \in 1 .. N
    <3> HIDE DEF N, Good
    <3>1. QED
      BY <1>0, <1>2, <2>0
  <2>2. IsInsertion(f[n + 1], f[n], s[n + 1]) /\ f[n] \in Seq(S) /\ s[n + 1] \in S
    <3>1. (n + 1) - 1 = n
      BY <2>1
    <3>2. QED
      BY <1>0, <2>1, <3>1
  <2>3. Len(f[n + 1]) = n + 1 /\ ToSet(f[n + 1]) = ToSet(f[n]) \cup {s[n + 1]}
    BY <2>1, <2>2, InsertionKeeps
  <2>4. {s[i] : i \in 1 .. n} \cup {s[n + 1]} = {s[i] : i \in 1 .. n + 1}
    <3>1. \A i : i \in 1 .. n + 1 <=> i \in 1 .. n \/ i = n + 1
      BY <2>1
    <3>2. QED
      BY <3>1
  <2>5. QED
    BY <2>1, <2>3, <2>4
<1>3. Good = 0 .. N
  <2>1. Good \in SUBSET (0 .. N)
    OBVIOUS
  <2> HIDE DEF Good
  <2>2. QED
    BY <1>0, <1>1, <1>2, <2>1, IntervalInduct
<1>4. N \in Good
  BY <1>0, <1>3
<1>5. DOMAIN s = 1 .. N
  BY LenProperties
<1>6. QED
  BY <1>4, <1>5 DEF ToSet

(* f goes from the empty sequence on by step. *)
FollowsSteps(f, S, N, step) ==
  /\ f \in [0 .. N -> Seq(S)]
  /\ f[0] = <<>>
  /\ \A n \in 1 .. N : f[n] = step[n][f[n - 1]]

(* A sequence that is computed step by step. *)
LEMMA SequenceByStep ==
  ASSUME NEW S, NEW N \in Nat, NEW step \in [1 .. N -> [Seq(S) -> Seq(S)]]
  PROVE  \E f : FollowsSteps(f, S, N, step)
<1> DEFINE Q == Seq(S)
           base == <<>>
<1>1. base \in Q /\ step \in [1 .. N -> [Q -> Q]]
  OBVIOUS
<1> HIDE DEF Q, base
<1>2. \E f \in [0 .. N -> Q] : f[0] = base /\ \A n \in 1 .. N : f[n] = step[n][f[n - 1]]
  BY <1>1, RecursionByStep
<1>3. QED
  BY <1>2 DEF Q, base, FollowsSteps

(* The sort inserts one element after the other. *)
LEMMA SortStepsFaults ==
  ASSUME NEW S, NEW s \in Seq(S)
  PROVE  \E g \in [0 .. Len(s) -> Seq(S)] :
           /\ g[0] = <<>>
           /\ \A n \in 1 .. Len(s) : g[n] = Inserted(g[n - 1], s[n], FaultLess)
           /\ \A n \in 1 .. Len(s) : IsInsertion(g[n], g[n - 1], s[n])
           /\ StdSort(s, FaultLess) = g[Len(s)]
<1> DEFINE N == Len(s)
           by == [n \in 1 .. N |-> [t \in Seq(S) |-> Inserted(t, s[n], FaultLess)]]
<1>0. N \in Nat /\ \A i \in 1 .. N : s[i] \in S
  BY LenProperties, ElementOfSeq
<1>1. ASSUME NEW n \in 1 .. N, NEW t \in Seq(S)
      PROVE  IsInsertion(Inserted(t, s[n], FaultLess), t, s[n]) /\ Inserted(t, s[n], FaultLess) \in Seq(S)
  <2>1. s[n] \in S
    BY <1>0
  <2>2. IsInsertion(Inserted(t, s[n], FaultLess), t, s[n])
    BY <2>1, InsertedFault
  <2>3. QED
    BY <2>1, <2>2, InsertionKeeps
<1>2. by \in [1 .. N -> [Seq(S) -> Seq(S)]]
      /\ \A n \in 1 .. N : \A t \in Seq(S) : by[n][t] = Inserted(t, s[n], FaultLess)
  BY <1>1
<1> HIDE DEF N, by
<1>3. N \in Nat /\ <<>> \in Seq(S)
  BY <1>0
<1>4. \E f : FollowsSteps(f, S, N, by)
  BY <1>2, <1>3, SequenceByStep
<1>5. PICK f \in [0 .. N -> Seq(S)] : f[0] = <<>> /\ \A n \in 1 .. N : f[n] = by[n][f[n - 1]]
  BY <1>4 DEF FollowsSteps
<1>6. ASSUME NEW n \in 1 .. N PROVE n - 1 \in 0 .. N /\ f[n] = Inserted(f[n - 1], s[n], FaultLess)
  <2>1. n - 1 \in 0 .. N
    BY <1>0
  <2>2. f[n - 1] \in Seq(S)
    BY <1>5, <2>1
  <2>3. QED
    BY <1>2, <1>5, <2>1, <2>2
<1>7. f = [i \in 0 .. N |-> IF i = 0 THEN <<>> ELSE Inserted(f[i - 1], s[i], FaultLess)]
  <2>1. \A i \in 0 .. N : f[i] = IF i = 0 THEN <<>> ELSE Inserted(f[i - 1], s[i], FaultLess)
    BY <1>0, <1>5, <1>6
  <2>2. QED
    BY <1>5, <2>1
<1> DEFINE g == CHOOSE g : g = [i \in 0 .. N |-> IF i = 0 THEN <<>> ELSE Inserted(g[i - 1], s[i], FaultLess)]
<1>8. g = [i \in 0 .. N |-> IF i = 0 THEN <<>> ELSE Inserted(g[i - 1], s[i], FaultLess)]
  BY <1>7
<1>9. StdSort(s, FaultLess) = g[N]
  BY DEF StdSort, N
<1> HIDE DEF g
<1>10. g[0] = <<>> /\ \A n \in 1 .. N : g[n] = Inserted(g[n - 1], s[n], FaultLess)
  BY <1>0, <1>8
<1> DEFINE Good == {n \in 0 .. N : g[n] \in Seq(S)}
<1>11. Good = 0 .. N
  <2>1. 0 \in Good
    <3>1. g[0] \in Seq(S) /\ 0 \in 0 .. N
      BY <1>3, <1>10
    <3>2. QED
      BY <3>1
  <2>2. ASSUME NEW n \in Good, n < N PROVE n + 1 \in Good
    <3>1. n \in 0 .. N /\ g[n] \in Seq(S) /\ n + 1 \in 1 .. N /\ (n + 1) - 1 = n
      BY <1>0, <2>2
    <3>2. g[n + 1] = Inserted(g[n], s[n + 1], FaultLess)
      BY <1>10, <3>1
    <3>3. g[n + 1] \in Seq(S)
      BY <1>1, <3>1, <3>2
    <3>4. n + 1 \in 0 .. N
      BY <1>0, <3>1
    <3>5. QED
      BY <3>3, <3>4
  <2>3. Good \in SUBSET (0 .. N)
    OBVIOUS
  <2> HIDE DEF Good
  <2>4. QED
    BY <1>0, <2>1, <2>2, <2>3, IntervalInduct
<1>12. g \in [0 .. N -> Seq(S)]
  <2>1. \A n \in 0 .. N : g[n] \in Seq(S)
    BY <1>11
  <2>2. QED
    BY <1>8, <2>1
<1>13. \A n \in 1 .. N : IsInsertion(g[n], g[n - 1], s[n])
  <2>1. TAKE n \in 1 .. N
  <2>2. n - 1 \in 0 .. N
    BY <1>0
  <2>3. QED
    BY <1>1, <1>10, <1>12, <2>2
<1>14. QED
  BY <1>9, <1>10, <1>12, <1>13 DEF N

(* The same for combinations of faults. *)
LEMMA SortStepsCombinations ==
  ASSUME NEW S, NEW s \in Seq(S)
  PROVE  \E g \in [0 .. Len(s) -> Seq(S)] :
           /\ g[0] = <<>>
           /\ \A n \in 1 .. Len(s) : g[n] = Inserted(g[n - 1], s[n], CombinationLess)
           /\ \A n \in 1 .. Len(s) : IsInsertion(g[n], g[n - 1], s[n])
           /\ StdSort(s, CombinationLess) = g[Len(s)]
<1> DEFINE N == Len(s)
           by == [n \in 1 .. N |-> [t \in Seq(S) |-> Inserted(t, s[n], CombinationLess)]]
<1>0. N \in Nat /\ \A i \in 1 .. N : s[i] \in S
  BY LenProperties, ElementOfSeq
<1>1. ASSUME NEW n \in 1 .. N, NEW t \in Seq(S)
      PROVE  IsInsertion(Inserted(t, s[n], CombinationLess), t, s[n]) /\ Inserted(t, s[n], CombinationLess) \in Seq(S)
  <2>1. s[n] \in S
    BY <1>0
  <2>2. IsInsertion(Inserted(t, s[n], CombinationLess), t, s[n])
    BY <2>1, InsertedCombination
  <2>3. QED
    BY <2>1, <2>2, InsertionKeeps
<1>2. by \in [1 .. N -> [Seq(S) -> Seq(S)]]
      /\ \A n \in 1 .. N : \A t \in Seq(S) : by[n][t] = Inserted(t, s[n], CombinationLess)
  BY <1>1
<1> HIDE DEF N, by
<1>3. N \in Nat /\ <<>> \in Seq(S)
  BY <1>0
<1>4. \E f : FollowsSteps(f, S, N, by)
  BY <1>2, <1>3, SequenceByStep
<1>5. PICK f \in [0 .. N -> Seq(S)] : f[0] = <<>> /\ \A n \in 1 .. N : f[n] = by[n][f[n - 1]]
  BY <1>4 DEF FollowsSteps
<1>6. ASSUME NEW n \in 1 .. N PROVE n - 1 \in 0 .. N /\ f[n] = Inserted(f[n - 1], s[n], CombinationLess)
  <2>1. n - 1 \in 0 .. N
    BY <1>0
  <2>2. f[n - 1] \in Seq(S)
    BY <1>5, <2>1
  <2>3. QED
    BY <1>2, <1>5, <2>1, <2>2
<1>7. f = [i \in 0 .. N |-> IF i = 0 THEN <<>> ELSE Inserted(f[i - 1], s[i], CombinationLess)]
  <2>1. \A i \in 0 .. N : f[i] = IF i = 0 THEN <<>> ELSE Inserted(f[i - 1], s[i], CombinationLess)
    BY <1>0, <1>5, <1>6
  <2>2. QED
    BY <1>5, <2>1
<1> DEFINE g == CHOOSE g : g = [i \in 0 .. N |-> IF i = 0 THEN <<>> ELSE Inserted(g[i - 1], s[i], CombinationLess)]
<1>8. g = [i \in 0 .. N |-> IF i = 0 THEN <<>> ELSE Inserted(g[i - 1], s[i], CombinationLess)]
  BY <1>7
<1>9. StdSort(s, CombinationLess) = g[N]
  BY DEF StdSort, N
<1> HIDE DEF g
<1>10. g[0] = <<>> /\ \A n \in 1 .. N : g[n] = Inserted(g[n - 1], s[n], CombinationLess)
  BY <1>0, <1>8
<1> DEFINE Good == {n \in 0 .. N : g[n] \in Seq(S)}
<1>11. Good = 0 .. N
  <2>1. 0 \in Good
    <3>1. g[0] \in Seq(S) /\ 0 \in 0 .. N
      BY <1>3, <1>10
    <3>2. QED
      BY <3>1
  <2>2. ASSUME NEW n \in Good, n < N PROVE n + 1 \in Good
    <3>1. n \in 0 .. N /\ g[n] \in Seq(S) /\ n + 1 \in 1 .. N /\ (n + 1) - 1 = n
      BY <1>0, <2>2
    <3>2. g[n + 1] = Inserted(g[n], s[n + 1], CombinationLess)
      BY <1>10, <3>1
    <3>3. g[n + 1] \in Seq(S)
      BY <1>1, <3>1, <3>2
    <3>4. n + 1 \in 0 .. N
      BY <1>0, <3>1
    <3>5. QED
      BY <3>3, <3>4
  <2>3. Good \in SUBSET (0 .. N)
    OBVIOUS
  <2> HIDE DEF Good
  <2>4. QED
    BY <1>0, <2>1, <2>2, <2>3, IntervalInduct
<1>12. g \in [0 .. N -> Seq(S)]
  <2>1. \A n \in 0 .. N : g[n] \in Seq(S)
    BY <1>11
  <2>2. QED
    BY <1>8, <2>1
<1>13. \A n \in 1 .. N : IsInsertion(g[n], g[n - 1], s[n])
  <2>1. TAKE n \in 1 .. N
  <2>2. n - 1 \in 0 .. N
    BY <1>0
  <2>3. QED
    BY <1>1, <1>10, <1>12, <2>2
<1>14. QED
  BY <1>9, <1>10, <1>12, <1>13 DEF N

(* The same for models. *)
LEMMA SortStepsModels ==
  ASSUME NEW S, NEW s \in Seq(S)
  PROVE  \E g \in [0 .. Len(s) -> Seq(S)] :
           /\ g[0] = <<>>
           /\ \A n \in 1 .. Len(s) : g[n] = Inserted(g[n - 1], s[n], Before)
           /\ \A n \in 1 .. Len(s) : IsInsertion(g[n], g[n - 1], s[n])
           /\ StdSort(s, Before) = g[Len(s)]
<1> DEFINE N == Len(s)
           by == [n \in 1 .. N |-> [t \in Seq(S) |-> Inserted(t, s[n], Before)]]
<1>0. N \in Nat /\ \A i \in 1 .. N : s[i] \in S
  BY LenProperties, ElementOfSeq
<1>1. ASSUME NEW n \in 1 .. N, NEW t \in Seq(S)
      PROVE  IsInsertion(Inserted(t, s[n], Before), t, s[n]) /\ Inserted(t, s[n], Before) \in Seq(S)
  <2>1. s[n] \in S
    BY <1>0
  <2>2. IsInsertion(Inserted(t, s[n], Before), t, s[n])
    BY <2>1, InsertedModel
  <2>3. QED
    BY <2>1, <2>2, InsertionKeeps
<1>2. by \in [1 .. N -> [Seq(S) -> Seq(S)]]
      /\ \A n \in 1 .. N : \A t \in Seq(S) : by[n][t] = Inserted(t, s[n], Before)
  BY <1>1
<1> HIDE DEF N, by
<1>3. N \in Nat /\ <<>> \in Seq(S)
  BY <1>0
<1>4. \E f : FollowsSteps(f, S, N, by)
  BY <1>2, <1>3, SequenceByStep
<1>5. PICK f \in [0 .. N -> Seq(S)] : f[0] = <<>> /\ \A n \in 1 .. N : f[n] = by[n][f[n - 1]]
  BY <1>4 DEF FollowsSteps
<1>6. ASSUME NEW n \in 1 .. N PROVE n - 1 \in 0 .. N /\ f[n] = Inserted(f[n - 1], s[n], Before)
  <2>1. n - 1 \in 0 .. N
    BY <1>0
  <2>2. f[n - 1] \in Seq(S)
    BY <1>5, <2>1
  <2>3. QED
    BY <1>2, <1>5, <2>1, <2>2
<1>7. f = [i \in 0 .. N |-> IF i = 0 THEN <<>> ELSE Inserted(f[i - 1], s[i], Before)]
  <2>1. \A i \in 0 .. N : f[i] = IF i = 0 THEN <<>> ELSE Inserted(f[i - 1], s[i], Before)
    BY <1>0, <1>5, <1>6
  <2>2. QED
    BY <1>5, <2>1
<1> DEFINE g == CHOOSE g : g = [i \in 0 .. N |-> IF i = 0 THEN <<>> ELSE Inserted(g[i - 1], s[i], Before)]
<1>8. g = [i \in 0 .. N |-> IF i = 0 THEN <<>> ELSE Inserted(g[i - 1], s[i], Before)]
  BY <1>7
<1>9. StdSort(s, Before) = g[N]
  BY DEF StdSort, N
<1> HIDE DEF g
<1>10. g[0] = <<>> /\ \A n \in 1 .. N : g[n] = Inserted(g[n - 1], s[n], Before)
  BY <1>0, <1>8
<1> DEFINE Good == {n \in 0 .. N : g[n] \in Seq(S)}
<1>11. Good = 0 .. N
  <2>1. 0 \in Good
    <3>1. g[0] \in Seq(S) /\ 0 \in 0 .. N
      BY <1>3, <1>10
    <3>2. QED
      BY <3>1
  <2>2. ASSUME NEW n \in Good, n < N PROVE n + 1 \in Good
    <3>1. n \in 0 .. N /\ g[n] \in Seq(S) /\ n + 1 \in 1 .. N /\ (n + 1) - 1 = n
      BY <1>0, <2>2
    <3>2. g[n + 1] = Inserted(g[n], s[n + 1], Before)
      BY <1>10, <3>1
    <3>3. g[n + 1] \in Seq(S)
      BY <1>1, <3>1, <3>2
    <3>4. n + 1 \in 0 .. N
      BY <1>0, <3>1
    <3>5. QED
      BY <3>3, <3>4
  <2>3. Good \in SUBSET (0 .. N)
    OBVIOUS
  <2> HIDE DEF Good
  <2>4. QED
    BY <1>0, <2>1, <2>2, <2>3, IntervalInduct
<1>12. g \in [0 .. N -> Seq(S)]
  <2>1. \A n \in 0 .. N : g[n] \in Seq(S)
    BY <1>11
  <2>2. QED
    BY <1>8, <2>1
<1>13. \A n \in 1 .. N : IsInsertion(g[n], g[n - 1], s[n])
  <2>1. TAKE n \in 1 .. N
  <2>2. n - 1 \in 0 .. N
    BY <1>0
  <2>3. QED
    BY <1>1, <1>10, <1>12, <2>2
<1>14. QED
  BY <1>9, <1>10, <1>12, <1>13 DEF N

(* It keeps all elements. *)
LEMMA SortFaults ==
  ASSUME NEW S, NEW s \in Seq(S)
  PROVE  /\ StdSort(s, FaultLess) \in Seq(S)
         /\ Len(StdSort(s, FaultLess)) = Len(s)
         /\ ToSet(StdSort(s, FaultLess)) = ToSet(s)
<1>1. PICK g \in [0 .. Len(s) -> Seq(S)] :
        /\ g[0] = <<>>
        /\ \A n \in 1 .. Len(s) : IsInsertion(g[n], g[n - 1], s[n])
        /\ StdSort(s, FaultLess) = g[Len(s)]
  BY SortStepsFaults
<1>2. Len(g[Len(s)]) = Len(s) /\ ToSet(g[Len(s)]) = ToSet(s)
  BY <1>1, InsertionsKeep
<1>3. g[Len(s)] \in Seq(S)
  BY <1>1, LenProperties
<1>4. QED
  BY <1>1, <1>2, <1>3

(* The same for combinations. *)
LEMMA SortCombinations ==
  ASSUME NEW S, NEW s \in Seq(S)
  PROVE  /\ StdSort(s, CombinationLess) \in Seq(S)
         /\ Len(StdSort(s, CombinationLess)) = Len(s)
         /\ ToSet(StdSort(s, CombinationLess)) = ToSet(s)
<1>1. PICK g \in [0 .. Len(s) -> Seq(S)] :
        /\ g[0] = <<>>
        /\ \A n \in 1 .. Len(s) : IsInsertion(g[n], g[n - 1], s[n])
        /\ StdSort(s, CombinationLess) = g[Len(s)]
  BY SortStepsCombinations
<1>2. Len(g[Len(s)]) = Len(s) /\ ToSet(g[Len(s)]) = ToSet(s)
  BY <1>1, InsertionsKeep
<1>3. g[Len(s)] \in Seq(S)
  BY <1>1, LenProperties
<1>4. QED
  BY <1>1, <1>2, <1>3

-----------------------------------------------------------------------------
(* The chosen elements of a sequence that grows *)

(* Nothing is chosen by an empty set of places. *)
LEMMA ElementsAtNone ==
  ASSUME NEW T, NEW t \in Seq(T)
  PROVE  ElementsAt(t, {}) = <<>>
<1>1. Len(t) \in Nat /\ {} \in SUBSET (1 .. Len(t))
  BY LenProperties
<1>2. PICK h : Enumerates(h, Cardinality({}), {}, Ascending({}))
  BY <1>1, PlacesListed
<1>3. Cardinality({}) = 0
  BY FS_EmptySet
<1> DEFINE u == ElementsAt(t, {})
<1>4. u \in Seq(T) /\ Len(u) = 0
  BY <1>1, <1>2, <1>3, ElementsAtListed
<1> HIDE DEF u
<1>5. u = <<>>
  BY <1>4
<1>6. QED
  BY <1>5 DEF u

(* A place behind all chosen ones adds its element at the end. *)
LEMMA ElementsAtNext ==
  ASSUME NEW T, NEW t \in Seq(T), NEW D \in SUBSET (1 .. Len(t)), NEW i \in 1 .. Len(t),
         \A d \in D : d < i
  PROVE  /\ ElementsAt(t, D) \in Seq(T)
         /\ ElementsAt(t, D \cup {i}) = Append(ElementsAt(t, D), t[i])
<1> DEFINE n == Cardinality(D)
           u == ElementsAt(t, D)
           v == Append(u, t[i])
<1>0. Len(t) \in Nat /\ t[i] \in T
  BY LenProperties, ElementOfSeq
<1>1. n \in Nat
  BY <1>0, PlacesListed
<1>2. PICK h : Enumerates(h, n, D, Ascending(D))
  BY <1>0, PlacesListed
<1> HIDE DEF n
<1>3. /\ u \in Seq(T) /\ Len(u) = n
      /\ \A k \in 1 .. n : u[k] = t[h[k]]
  BY <1>2, ElementsAtListed
<1> HIDE DEF u
<1>4. /\ h \in [1 .. n -> D]
      /\ \A x \in D : \E k \in 1 .. n : h[k] = x
      /\ \A j, k \in 1 .. n : j < k => <<h[j], h[k]>> \in Ascending(D)
  BY <1>2 DEF Enumerates
<1>5. \A j, k \in 1 .. n : j < k => h[j] < h[k]
  BY <1>4 DEF Ascending
<1>6. v \in Seq(T) /\ Len(v) = n + 1 /\ v[n + 1] = t[i] /\ \A k \in 1 .. n : v[k] = u[k]
  BY <1>0, <1>3, AppendProperties
<1> HIDE DEF v
<1> DEFINE g == [k \in 1 .. n + 1 |-> IF k <= n THEN h[k] ELSE i]
<1>7. /\ g \in [1 .. n + 1 -> 1 .. Len(t)]
      /\ \A k \in 1 .. n + 1 : g[k] = IF k <= n THEN h[k] ELSE i
  <2>1. \A k \in 1 .. n : h[k] \in 1 .. Len(t)
    BY <1>4
  <2>2. QED
    BY <1>1, <2>1
<1> HIDE DEF g
<1>8. \A k \in 1 .. n : h[k] \in D /\ h[k] < i
  BY <1>4
<1>9. ASSUME NEW j \in 1 .. n + 1, NEW k \in 1 .. n + 1, j < k PROVE g[j] < g[k]
  <2>1. j \in 1 .. n /\ g[j] = h[j]
    BY <1>1, <1>7, <1>9
  <2>2. CASE k \in 1 .. n
    BY <1>5, <1>7, <1>9, <2>1, <2>2
  <2>3. CASE k = n + 1
    BY <1>1, <1>7, <1>8, <2>1, <2>3
  <2>4. QED
    BY <1>1, <2>2, <2>3
<1>10. \A k \in 1 .. n + 1 : v[k] = t[g[k]]
  BY <1>1, <1>3, <1>6, <1>7, SMTT(30)
<1>11. Embeds(g, v, t)
  BY <1>6, <1>7, <1>9, <1>10 DEF Embeds
<1>12. \A k \in 1 .. Len(v) : g[k] \in D \cup {i}
  BY <1>1, <1>6, <1>7, <1>8
<1>13. ASSUME NEW x \in D \cup {i} PROVE \E k \in 1 .. Len(v) : g[k] = x
  <2>1. CASE x \in D
    <3>1. PICK k \in 1 .. n : h[k] = x
      BY <1>4, <2>1
    <3>2. k \in 1 .. Len(v) /\ g[k] = x
      BY <1>1, <1>6, <1>7, <3>1
    <3>3. QED
      BY <3>2
  <2>2. CASE x = i
    <3>1. n + 1 \in 1 .. Len(v) /\ g[n + 1] = i
      BY <1>1, <1>6, <1>7
    <3>2. QED
      BY <2>2, <3>1
  <2>3. QED
    BY <2>1, <2>2
<1> DEFINE E == D \cup {i}
<1>14. E \in SUBSET (1 .. Len(t)) /\ (\A k \in 1 .. Len(v) : g[k] \in E)
       /\ (\A x \in E : \E k \in 1 .. Len(v) : g[k] = x)
  BY <1>12, <1>13
<1> HIDE DEF E
<1>15. ElementsAt(t, E) = v
  BY <1>6, <1>11, <1>14, EmbeddedAt
<1>16. QED
  BY <1>3, <1>15 DEF E, u, v

(* What lies behind the chosen places does not matter. *)
LEMMA ElementsAtSame ==
  ASSUME NEW T, NEW s \in Seq(T), NEW t \in Seq(T), NEW D \in SUBSET (1 .. Len(s)),
         Len(s) <= Len(t), \A k \in 1 .. Len(s) : t[k] = s[k]
  PROVE  ElementsAt(s, D) \in Seq(T) /\ ElementsAt(t, D) = ElementsAt(s, D)
<1> DEFINE n == Cardinality(D)
           u == ElementsAt(s, D)
           v == ElementsAt(t, D)
<1>0. Len(s) \in Nat /\ Len(t) \in Nat /\ D \in SUBSET (1 .. Len(t))
  BY LenProperties
<1>1. n \in Nat
  BY <1>0, PlacesListed
<1>2. PICK h : Enumerates(h, n, D, Ascending(D))
  BY <1>0, PlacesListed
<1> HIDE DEF n
<1>3. /\ u \in Seq(T) /\ Len(u) = n
      /\ \A k \in 1 .. n : u[k] = s[h[k]]
  BY <1>2, ElementsAtListed
<1>4. /\ v \in Seq(T) /\ Len(v) = n
      /\ \A k \in 1 .. n : v[k] = t[h[k]]
  BY <1>0, <1>2, ElementsAtListed
<1>5. h \in [1 .. n -> D]
  BY <1>2 DEF Enumerates
<1> HIDE DEF u, v
<1>6. Len(v) = Len(u) /\ \A k \in 1 .. Len(v) : v[k] = u[k]
  <2>1. Len(v) = Len(u) /\ Len(v) = n
    BY <1>3, <1>4
  <2>2. ASSUME NEW k \in 1 .. n PROVE v[k] = u[k]
    <3>1. v[k] = t[h[k]] /\ u[k] = s[h[k]]
      BY <1>3, <1>4
    <3>2. h[k] \in 1 .. Len(s)
      BY <1>5
    <3>3. QED
      BY <3>1, <3>2
  <2>3. QED
    BY <2>1, <2>2
<1>7. u = v
  BY <1>3, <1>4, <1>6, SeqEqual
<1>8. QED
  BY <1>3, <1>7 DEF u, v

(* What is chosen are the elements at the places. *)
LEMMA ElementsAtSet ==
  ASSUME NEW T, NEW t \in Seq(T), NEW D \in SUBSET (1 .. Len(t))
  PROVE  /\ ElementsAt(t, D) \in Seq(T)
         /\ Len(ElementsAt(t, D)) = Cardinality(D)
         /\ \A x : x \in ToSet(ElementsAt(t, D)) <=> \E d \in D : t[d] = x
         /\ \A k \in 1 .. Len(ElementsAt(t, D)) : \E d \in D : ElementsAt(t, D)[k] = t[d]
<1> DEFINE n == Cardinality(D)
           u == ElementsAt(t, D)
<1>0. Len(t) \in Nat
  BY LenProperties
<1>1. n \in Nat
  BY <1>0, PlacesListed
<1>2. PICK h : Enumerates(h, n, D, Ascending(D))
  BY <1>0, PlacesListed
<1> HIDE DEF n
<1>3. /\ u \in Seq(T) /\ Len(u) = n
      /\ \A k \in 1 .. n : u[k] = t[h[k]]
  BY <1>2, ElementsAtListed
<1> HIDE DEF u
<1>4. h \in [1 .. n -> D] /\ \A d \in D : \E k \in 1 .. n : h[k] = d
  BY <1>2 DEF Enumerates
<1>5. ASSUME NEW x PROVE x \in ToSet(u) <=> \E d \in D : t[d] = x
  <2>1. ASSUME x \in ToSet(u) PROVE \E d \in D : t[d] = x
    <3>1. PICK k \in 1 .. Len(u) : u[k] = x
      BY <1>3, <2>1, ToSetOfSeq
    <3>2. h[k] \in D /\ t[h[k]] = x
      BY <1>3, <1>4, <3>1
    <3>3. QED
      BY <3>2
  <2>2. ASSUME NEW d \in D, t[d] = x PROVE x \in ToSet(u)
    <3>1. PICK k \in 1 .. n : h[k] = d
      BY <1>4
    <3>2. k \in 1 .. Len(u) /\ u[k] = x
      BY <1>3, <2>2, <3>1
    <3>3. QED
      BY <1>3, <3>2, ToSetOfSeq
  <2>3. QED
    BY <2>1, <2>2
<1>6. \A k \in 1 .. Len(u) : \E d \in D : u[k] = t[d]
  BY <1>3, <1>4
<1>7. QED
  BY <1>3, <1>5, <1>6 DEF u, n

-----------------------------------------------------------------------------
(* The sort of the models *)

(* Behind the first of two parts. *)
LEMMA InsertBetween ==
  ASSUME NEW S, NEW a \in Seq(S), NEW b \in Seq(S), NEW x \in S
  PROVE  InsertAt(a \o b, 1 + Len(a), x) = Append(a, x) \o b
<1> DEFINE s == a \o b
           m == Len(a)
           n == Len(b)
           ax == Append(a, x)
<1>0. m \in Nat /\ n \in Nat
  BY LenProperties
<1>1. /\ s \in Seq(S) /\ Len(s) = m + n
      /\ \A i \in 1 .. m + n : s[i] = IF i <= m THEN a[i] ELSE b[i - m]
  BY ConcatProperties
<1>2. ax \in Seq(S) /\ Len(ax) = m + 1 /\ ax[m + 1] = x /\ \A i \in 1 .. m : ax[i] = a[i]
  BY AppendProperties
<1> HIDE DEF s, ax
<1> DEFINE u == ax \o b
<1>4. /\ u \in Seq(S) /\ Len(u) = m + 1 + n
      /\ \A i \in 1 .. m + 1 + n : u[i] = IF i <= m + 1 THEN ax[i] ELSE b[i - (m + 1)]
  <2>1. /\ u \in Seq(S) /\ Len(u) = Len(ax) + n
        /\ \A i \in 1 .. Len(ax) + n : u[i] = IF i <= Len(ax) THEN ax[i] ELSE b[i - Len(ax)]
    BY <1>2, ConcatProperties
  <2> HIDE DEF u
  <2>2. QED
    BY <1>2, <2>1
<1> HIDE DEF u
<1> DEFINE p == 1 + m
           y == InsertAt(s, p, x)
<1>6. p = m + 1 /\ p \in 1 .. Len(s) + 1
  <2> HIDE DEF m, n
  <2>1. QED
    BY <1>0, <1>1
<1> HIDE DEF p, m, n
<1>7. y \in Seq(S) /\ Len(y) = Len(s) + 1
      /\ \A k \in 1 .. Len(s) + 1 : y[k] = IF k < p THEN s[k] ELSE IF k = p THEN x ELSE s[k - 1]
  <2>1. s \in Seq(S) /\ p \in 1 .. Len(s) + 1
    BY <1>1, <1>6
  <2>2. QED
    BY <2>1, InsertAtIs
<1> HIDE DEF y
<1>9. Len(y) = m + n + 1 /\ Len(u) = Len(y)
  BY <1>0, <1>1, <1>4, <1>7
<1>10. ASSUME NEW k \in 1 .. m + n + 1 PROVE y[k] = u[k]
  <2>1. CASE k \in 1 .. m
    <3>1. y[k] = s[k]
      BY <1>0, <1>1, <1>6, <1>7, <2>1
    <3>2. s[k] = a[k]
      BY <1>0, <1>1, <2>1
    <3>3. u[k] = ax[k]
      BY <1>0, <1>4, <2>1
    <3>4. QED
      BY <1>2, <2>1, <3>1, <3>2, <3>3
  <2>2. CASE k = m + 1
    <3>1. y[k] = x
      BY <1>0, <1>1, <1>6, <1>7, <2>2
    <3>2. u[k] = ax[k]
      BY <1>0, <1>4, <2>2
    <3>3. QED
      BY <1>2, <2>2, <3>1, <3>2
  <2>3. CASE k > m + 1
    <3>1. y[k] = s[k - 1]
      BY <1>0, <1>1, <1>6, <1>7, <2>3
    <3>2. k - 1 \in 1 .. m + n /\ ~(k - 1 <= m) /\ (k - 1) - m = k - (m + 1)
      BY <1>0, <2>3
    <3>3. s[k - 1] = b[k - (m + 1)]
      BY <1>1, <3>2
    <3>4. u[k] = b[k - (m + 1)]
      BY <1>0, <1>4, <2>3
    <3>5. QED
      BY <3>1, <3>3, <3>4
  <2>4. QED
    BY <1>0, <2>1, <2>2, <2>3
<1>12. y = u
  BY <1>4, <1>7, <1>9, <1>10, SeqEqual
<1>14. QED
  BY <1>12 DEF y, u, ax, s, m, n, p

(* At the end of all. *)
LEMMA InsertAtEnd ==
  ASSUME NEW S, NEW a \in Seq(S), NEW b \in Seq(S), NEW x \in S
  PROVE  InsertAt(a \o b, 1 + Len(a) + Len(b), x) = a \o Append(b, x)
<1> DEFINE s == a \o b
           m == Len(a)
           n == Len(b)
           bx == Append(b, x)
<1>0. m \in Nat /\ n \in Nat
  BY LenProperties
<1>1. /\ s \in Seq(S) /\ Len(s) = m + n
      /\ \A i \in 1 .. m + n : s[i] = IF i <= m THEN a[i] ELSE b[i - m]
  BY ConcatProperties
<1>3. bx \in Seq(S) /\ Len(bx) = n + 1 /\ bx[n + 1] = x /\ \A i \in 1 .. n : bx[i] = b[i]
  BY AppendProperties
<1> HIDE DEF s, bx
<1> DEFINE v == a \o bx
<1>5. /\ v \in Seq(S) /\ Len(v) = m + (n + 1)
      /\ \A i \in 1 .. m + (n + 1) : v[i] = IF i <= m THEN a[i] ELSE bx[i - m]
  <2>1. /\ v \in Seq(S) /\ Len(v) = m + Len(bx)
        /\ \A i \in 1 .. m + Len(bx) : v[i] = IF i <= m THEN a[i] ELSE bx[i - m]
    BY <1>3, ConcatProperties
  <2> HIDE DEF v
  <2>2. QED
    BY <1>3, <2>1
<1> HIDE DEF v
<1> DEFINE q == 1 + m + n
           z == InsertAt(s, q, x)
<1>6. q = m + n + 1 /\ q \in 1 .. Len(s) + 1
  <2> HIDE DEF m, n
  <2>1. QED
    BY <1>0, <1>1
<1> HIDE DEF q, m, n
<1>8. z \in Seq(S) /\ Len(z) = Len(s) + 1
      /\ \A k \in 1 .. Len(s) + 1 : z[k] = IF k < q THEN s[k] ELSE IF k = q THEN x ELSE s[k - 1]
  <2>1. s \in Seq(S) /\ q \in 1 .. Len(s) + 1
    BY <1>1, <1>6
  <2>2. QED
    BY <2>1, InsertAtIs
<1> HIDE DEF z
<1>9. Len(z) = m + n + 1 /\ Len(v) = Len(z)
  BY <1>0, <1>1, <1>5, <1>8
<1>11. ASSUME NEW k \in 1 .. m + n + 1 PROVE z[k] = v[k]
  <2>1. CASE k \in 1 .. m
    <3>1. z[k] = s[k]
      BY <1>0, <1>1, <1>6, <1>8, <2>1
    <3>2. s[k] = a[k]
      BY <1>0, <1>1, <2>1
    <3>3. v[k] = a[k]
      BY <1>0, <1>5, <2>1
    <3>4. QED
      BY <3>1, <3>2, <3>3
  <2>2. CASE k > m /\ k < m + n + 1
    <3>1. z[k] = s[k]
      BY <1>0, <1>1, <1>6, <1>8, <2>2
    <3>2. s[k] = b[k - m]
      BY <1>0, <1>1, <2>2
    <3>3. v[k] = bx[k - m] /\ k - m \in 1 .. n
      BY <1>0, <1>5, <2>2
    <3>4. QED
      BY <1>3, <3>1, <3>2, <3>3
  <2>3. CASE k = m + n + 1
    <3>1. z[k] = x
      BY <1>0, <1>1, <1>6, <1>8, <2>3
    <3>2. v[k] = bx[k - m] /\ k - m = n + 1
      BY <1>0, <1>5, <2>3
    <3>3. QED
      BY <1>3, <3>1, <3>2
  <2>4. QED
    BY <1>0, <2>1, <2>2, <2>3
<1>13. z = v
  BY <1>5, <1>8, <1>9, <1>11, SeqEqual
<1>14. QED
  BY <1>13 DEF z, v, bx, s, m, n, q

(* A model with the position it is told apart by. *)
IdModel == [instruction : BOOLEAN, permanent : BOOLEAN, amount : 0 .. MaxAmount, id : Nat]

(* The models of a caller, told apart by their positions. *)
Numbered(s) == s \in Seq(IdModel) /\ \A i \in 1 .. Len(s) : s[i].id = i

(* Of a list of instruction models a and register models b, all from before *)
(* x, the sort keeps the parts together.                                    *)
LEMMA InsertedBetween ==
  ASSUME NEW a \in Seq(IdModel), NEW b \in Seq(IdModel), NEW x \in IdModel,
         \A k \in 1 .. Len(a) : a[k].instruction /\ a[k].id < x.id,
         \A k \in 1 .. Len(b) : ~b[k].instruction /\ b[k].id < x.id
  PROVE  /\ x.instruction => Inserted(a \o b, x, Before) = Append(a, x) \o b
         /\ ~x.instruction => Inserted(a \o b, x, Before) = a \o Append(b, x)
<1> DEFINE s == a \o b
           A == {j \in DOMAIN s : ~Before(x, s[j])}
           m == Len(a)
           n == Len(b)
<1>0. m \in Nat /\ n \in Nat
  BY LenProperties
<1>1. /\ s \in Seq(IdModel) /\ Len(s) = m + n
      /\ \A i \in 1 .. m + n : s[i] = IF i <= m THEN a[i] ELSE b[i - m]
  BY ConcatProperties
<1>2. \/ Inserted(s, x, Before) = <<x>> \o s /\ s # <<>> /\ Before(x, Head(s))
      \/ Inserted(s, x, Before) = InsertAt(s, 1 + Max({0} \cup A), x)
  BY DEF Inserted
<1>3. <<x>> \o s = InsertAt(s, 1, x)
  <2> HIDE DEF s
  <2>1. QED
    BY <1>1, InsertFront
<1>4. x.instruction \in BOOLEAN /\ x.id \in Nat
  BY DEF IdModel
<1> DEFINE y == Inserted(s, x, Before)
           u == Append(a, x) \o b
           v == a \o Append(b, x)
<1>16. InsertAt(s, 1 + m, x) = u /\ InsertAt(s, 1 + Len(s), x) = v
  <2> HIDE DEF s, m, n, A
  <2>1. a \in Seq(IdModel) /\ b \in Seq(IdModel) /\ x \in IdModel
    OBVIOUS
  <2>2. InsertAt(a \o b, 1 + Len(a), x) = Append(a, x) \o b
    BY <2>1, InsertBetween
  <2>3. InsertAt(a \o b, 1 + Len(a) + Len(b), x) = a \o Append(b, x)
    BY <2>1, InsertAtEnd
  <2>4. InsertAt(s, 1 + m, x) = u /\ InsertAt(s, 1 + m + n, x) = v
    BY <2>2, <2>3 DEF s, m, n
  <2>5. 1 + m + n = 1 + Len(s)
    BY <1>0, <1>1
  <2> HIDE DEF u, v
  <2>6. QED
    BY <2>4, <2>5
<1>17. \/ y = <<x>> \o s /\ s # <<>> /\ Before(x, Head(s))
       \/ y = InsertAt(s, 1 + Max({0} \cup A), x)
  BY <1>2
<1> HIDE DEF s, m, n, y, u, v
<1>5. DOMAIN s = 1 .. m + n /\ m + n \in Nat
  BY <1>0, <1>1, LenProperties
<1>6. ASSUME NEW j \in 1 .. m PROVE s[j].instruction /\ s[j].id < x.id /\ s[j].id \in Nat
  <2>1. s[j] = a[j] /\ a[j] \in IdModel
    BY <1>0, <1>1, <1>6, ElementOfSeq DEF m
  <2>2. QED
    BY <2>1 DEF m, IdModel
<1>7. ASSUME NEW j \in 1 .. m + n, j > m
      PROVE  ~s[j].instruction /\ s[j].id < x.id /\ s[j].id \in Nat
  <2>1. j - m \in 1 .. n /\ s[j] = b[j - m]
    BY <1>0, <1>1, <1>7
  <2>2. b[j - m] \in IdModel
    BY <2>1, ElementOfSeq DEF n
  <2>3. QED
    BY <2>1, <2>2 DEF n, IdModel
<1>8. \A j \in 1 .. m : ~Before(x, s[j])
  BY <1>4, <1>6 DEF Before
<1>9. \A j \in 1 .. m + n : j > m => (Before(x, s[j]) <=> x.instruction)
  BY <1>4, <1>7 DEF Before
<1>10. A \in SUBSET (1 .. m + n) /\ \A j \in 1 .. m + n : j \in A <=> j <= m \/ ~x.instruction
  <2>1. ASSUME NEW j \in 1 .. m + n PROVE j \in A <=> j <= m \/ ~x.instruction
    <3>1. j \in A <=> ~Before(x, s[j])
      BY <1>5
    <3>2. CASE j <= m
      BY <1>0, <1>8, <3>1, <3>2
    <3>3. CASE j > m
      BY <1>0, <1>9, <3>1, <3>3
    <3>4. QED
      BY <1>0, <3>2, <3>3
  <2>2. QED
    BY <1>5, <2>1
<1> HIDE DEF A
<1> DEFINE M == Max({0} \cup A)
<1>11. M \in {0} \cup A /\ \A j \in A : j <= M
  BY <1>5, <1>10, MaxOfPlaces
<1> HIDE DEF M
<1>12. M \in 0 .. m + n
  BY <1>5, <1>10, <1>11
<1>18. \/ y = InsertAt(s, 1, x) /\ s # <<>> /\ Before(x, Head(s))
       \/ y = InsertAt(s, 1 + M, x)
  BY <1>3, <1>17 DEF M
<1>13. ASSUME x.instruction PROVE y = u
  <2>1. \A j \in 1 .. m + n : j \in A <=> j <= m
    BY <1>10, <1>13
  <2>2. M = m
    <3>1. M <= m
      BY <1>0, <1>10, <1>11, <1>12, <2>1
    <3>2. m = 0 \/ m \in A
      BY <1>0, <2>1
    <3>3. QED
      BY <1>0, <1>11, <1>12, <3>1, <3>2
  <2>3. ASSUME s # <<>>, Before(x, Head(s)) PROVE m = 0
    <3>1. Head(s) = s[1] /\ m + n # 0
      BY <1>1, <1>5, <2>3
    <3>2. QED
      BY <1>0, <1>8, <2>3, <3>1
  <2>4. CASE y = InsertAt(s, 1 + M, x)
    BY <1>16, <2>2, <2>4
  <2>5. CASE y = InsertAt(s, 1, x) /\ m = 0
    <3>1. 1 = 1 + m
      BY <2>5
    <3>2. QED
      BY <1>16, <2>5, <3>1
  <2>6. QED
    BY <1>18, <2>3, <2>4, <2>5
<1>14. ASSUME ~x.instruction PROVE y = v
  <2>1. A = 1 .. m + n
    BY <1>10, <1>14
  <2>2. M = m + n
    <3>1. m + n = 0 \/ m + n \in A
      BY <1>5, <2>1
    <3>2. QED
      BY <1>5, <1>11, <1>12, <3>1
  <2>3. ASSUME s # <<>>, Before(x, Head(s)) PROVE FALSE
    <3>1. Head(s) = s[1] /\ 1 \in A
      BY <1>1, <1>5, <2>1, <2>3
    <3>2. QED
      BY <2>3, <3>1 DEF A
  <2>4. y = InsertAt(s, 1 + M, x)
    BY <1>18, <2>3
  <2>5. M = Len(s)
    BY <1>1, <2>2
  <2>6. QED
    BY <1>16, <2>4, <2>5
<1>15. QED
  BY <1>13, <1>14 DEF y, u, v, s

(* The places of the first n models that are of a kind. *)
Places(s, n, kind) == {i \in 1 .. n : s[i].instruction = kind}

(* The sort pulls the instruction models to the front, and nothing else.    *)
LEMMA SortedInParts ==
  ASSUME NEW s, Numbered(s)
  PROVE  StdSort(s, Before) = ElementsAt(s, Places(s, Len(s), TRUE))
                           \o ElementsAt(s, Places(s, Len(s), FALSE))
<1> DEFINE N == Len(s)
           head(n) == ElementsAt(s, Places(s, n, TRUE))
           rest(n) == ElementsAt(s, Places(s, n, FALSE))
<1>0. N \in Nat /\ s \in Seq(IdModel)
  BY LenProperties DEF Numbered
<1>1. PICK g \in [0 .. N -> Seq(IdModel)] :
           /\ g[0] = <<>>
           /\ \A n \in 1 .. N : g[n] = Inserted(g[n - 1], s[n], Before)
           /\ StdSort(s, Before) = g[N]
  BY <1>0, SortStepsModels
<1> DEFINE P == {n \in Nat : n <= N => g[n] = head(n) \o rest(n)}
<1>2. 0 \in P
  <2>1. Places(s, 0, TRUE) = {} /\ Places(s, 0, FALSE) = {}
    BY DEF Places
  <2>2. head(0) = <<>> /\ rest(0) = <<>>
    BY <1>0, <2>1, ElementsAtNone
  <2>3. <<>> \o <<>> = <<>>
    OBVIOUS
  <2>4. QED
    BY <1>1, <2>2, <2>3
<1>3. ASSUME NEW n \in P PROVE n + 1 \in P
  <2>1. SUFFICES ASSUME n + 1 <= N PROVE g[n + 1] = head(n + 1) \o rest(n + 1)
    OBVIOUS
  <2> DEFINE x == s[n + 1]
             a == head(n)
             b == rest(n)
             D == Places(s, n, TRUE)
             E == Places(s, n, FALSE)
  <2>2. n \in Nat /\ n + 1 \in 1 .. N /\ (n + 1) - 1 = n /\ n <= N
    BY <1>0, <2>1
  <2>3. g[n] = a \o b
    BY <2>2
  <2> HIDE DEF P
  <2>4. x \in IdModel /\ x.instruction \in BOOLEAN
    <3>1. x \in IdModel
      BY <1>0, <2>2, ElementOfSeq
    <3>2. QED
      BY <3>1 DEF IdModel
  <2>5. x.id = n + 1 /\ \A i \in 1 .. n : s[i].id = i
    BY <2>2 DEF Numbered
  <2>6. /\ D \in SUBSET (1 .. N) /\ E \in SUBSET (1 .. N)
        /\ (\A d \in D : d < n + 1 /\ s[d].instruction /\ s[d].id = d)
        /\ (\A d \in E : d < n + 1 /\ ~s[d].instruction /\ s[d].id = d)
    BY <2>2, <2>5 DEF Places
  <2> HIDE DEF D, E
  <2>7. a \in Seq(IdModel) /\ \A k \in 1 .. Len(a) : \E d \in D : a[k] = s[d]
    <3>1. /\ ElementsAt(s, D) \in Seq(IdModel)
          /\ \A k \in 1 .. Len(ElementsAt(s, D)) : \E d \in D : ElementsAt(s, D)[k] = s[d]
      BY <1>0, <2>6, ElementsAtSet
    <3>2. a = ElementsAt(s, D)
      BY DEF D
    <3> HIDE DEF a
    <3>3. QED
      BY <3>1, <3>2
  <2>8. b \in Seq(IdModel) /\ \A k \in 1 .. Len(b) : \E d \in E : b[k] = s[d]
    <3>1. /\ ElementsAt(s, E) \in Seq(IdModel)
          /\ \A k \in 1 .. Len(ElementsAt(s, E)) : \E d \in E : ElementsAt(s, E)[k] = s[d]
      BY <1>0, <2>6, ElementsAtSet
    <3>2. b = ElementsAt(s, E)
      BY DEF E
    <3> HIDE DEF b
    <3>3. QED
      BY <3>1, <3>2
  <2>9. ElementsAt(s, D \cup {n + 1}) = Append(a, x)
    <3>1. n + 1 \in 1 .. Len(s) /\ D \in SUBSET (1 .. Len(s)) /\ s \in Seq(IdModel)
      BY <1>0, <2>2, <2>6
    <3>2. \A d \in D : d < n + 1
      BY <2>6
    <3>3. ElementsAt(s, D \cup {n + 1}) = Append(ElementsAt(s, D), s[n + 1])
      BY <3>1, <3>2, ElementsAtNext
    <3>4. QED
      BY <3>3 DEF D
  <2>10. ElementsAt(s, E \cup {n + 1}) = Append(b, x)
    <3>1. n + 1 \in 1 .. Len(s) /\ E \in SUBSET (1 .. Len(s)) /\ s \in Seq(IdModel)
      BY <1>0, <2>2, <2>6
    <3>2. \A d \in E : d < n + 1
      BY <2>6
    <3>3. ElementsAt(s, E \cup {n + 1}) = Append(ElementsAt(s, E), s[n + 1])
      BY <3>1, <3>2, ElementsAtNext
    <3>4. QED
      BY <3>3 DEF E
  <2> HIDE DEF a, b
  <2>11. \A k \in 1 .. Len(a) : a[k].instruction /\ a[k].id < x.id
    <3>1. ASSUME NEW k \in 1 .. Len(a) PROVE a[k].instruction /\ a[k].id < x.id
      <4>1. PICK d \in D : a[k] = s[d]
        BY <2>7
      <4>2. s[d].instruction /\ s[d].id < n + 1
        BY <2>6
      <4>3. QED
        BY <2>5, <4>1, <4>2
    <3>2. QED
      BY <3>1
  <2>12. \A k \in 1 .. Len(b) : ~b[k].instruction /\ b[k].id < x.id
    <3>1. ASSUME NEW k \in 1 .. Len(b) PROVE ~b[k].instruction /\ b[k].id < x.id
      <4>1. PICK d \in E : b[k] = s[d]
        BY <2>8
      <4>2. ~s[d].instruction /\ s[d].id < n + 1
        BY <2>6
      <4>3. QED
        BY <2>5, <4>1, <4>2
    <3>2. QED
      BY <3>1
  <2> HIDE DEF x
  <2>13. /\ x.instruction => Inserted(a \o b, x, Before) = Append(a, x) \o b
         /\ ~x.instruction => Inserted(a \o b, x, Before) = a \o Append(b, x)
    BY <2>4, <2>7, <2>8, <2>11, <2>12, InsertedBetween
  <2>14. g[n + 1] = Inserted(a \o b, x, Before)
    BY <1>1, <2>2, <2>3 DEF x
  <2>15. CASE x.instruction
    <3>1. Places(s, n + 1, TRUE) = D \cup {n + 1} /\ Places(s, n + 1, FALSE) = E
      BY <2>2, <2>15 DEF Places, D, E, x
    <3>2. head(n + 1) = Append(a, x) /\ rest(n + 1) = b
      BY <2>9, <3>1 DEF b, E
    <3>3. QED
      BY <2>13, <2>14, <2>15, <3>2
  <2>16. CASE ~x.instruction
    <3>1. Places(s, n + 1, FALSE) = E \cup {n + 1} /\ Places(s, n + 1, TRUE) = D
      <4>1. x.instruction = FALSE
        BY <2>4, <2>16
      <4>2. QED
        BY <2>2, <4>1 DEF Places, D, E, x
    <3>2. head(n + 1) = a /\ rest(n + 1) = Append(b, x)
      BY <2>10, <3>1 DEF a, D
    <3>3. QED
      BY <2>13, <2>14, <2>16, <3>2
  <2>17. QED
    BY <2>15, <2>16
<1>4. P = Nat
  <2>1. P \in SUBSET Nat
    OBVIOUS
  <2> HIDE DEF P
  <2>2. QED
    BY <1>2, <1>3, <2>1, NatInduct
<1>5. g[N] = head(N) \o rest(N)
  <2>1. N \in P
    BY <1>0, <1>4
  <2>2. N <= N
    BY <1>0
  <2> HIDE DEF head, rest, N
  <2>3. QED
    BY <2>1, <2>2
<1>6. QED
  BY <1>1, <1>5

-----------------------------------------------------------------------------
(* Sequences of sequences, one behind the other *)

(* g[n] is the first n sequences. *)
IsFlattening(g, s, S) ==
  /\ g \in [0 .. Len(s) -> Seq(S)]
  /\ g[0] = <<>>
  /\ \A n \in 1 .. Len(s) : g[n] = g[n - 1] \o s[n]
  /\ FlattenSeq(s) = g[Len(s)]

(* FlattenSeq puts one sequence behind the other. *)
LEMMA FlattenSteps ==
  ASSUME NEW S, NEW s \in Seq(Seq(S))
  PROVE  \E g : IsFlattening(g, s, S)
<1> DEFINE N == Len(s)
           by == [n \in 1 .. N |-> [t \in Seq(S) |-> t \o s[n]]]
<1>0. N \in Nat /\ \A i \in 1 .. N : s[i] \in Seq(S)
  BY LenProperties, ElementOfSeq
<1>1. ASSUME NEW n \in 1 .. N, NEW t \in Seq(S)
      PROVE  t \o s[n] \in Seq(S)
  <2>1. s[n] \in Seq(S)
    BY <1>0
  <2>2. QED
    BY <2>1, ConcatProperties
<1>2. by \in [1 .. N -> [Seq(S) -> Seq(S)]]
      /\ \A n \in 1 .. N : \A t \in Seq(S) : by[n][t] = t \o s[n]
  BY <1>1
<1> HIDE DEF N, by
<1>3. N \in Nat /\ <<>> \in Seq(S)
  BY <1>0
<1>4. \E f : FollowsSteps(f, S, N, by)
  BY <1>2, <1>3, SequenceByStep
<1>5. PICK f \in [0 .. N -> Seq(S)] : f[0] = <<>> /\ \A n \in 1 .. N : f[n] = by[n][f[n - 1]]
  BY <1>4 DEF FollowsSteps
<1>6. ASSUME NEW n \in 1 .. N PROVE n - 1 \in 0 .. N /\ f[n] = f[n - 1] \o s[n]
  <2>1. n - 1 \in 0 .. N
    BY <1>0
  <2>2. f[n - 1] \in Seq(S)
    BY <1>5, <2>1
  <2>3. QED
    BY <1>2, <1>5, <2>1, <2>2
<1>7. CASE N = 0
  <2>1. s = <<>>
    BY <1>7 DEF N
  <2>2. FlattenSeq(s) = s
    BY <1>7 DEF FlattenSeq, N
  <2>3. IsFlattening(f, s, S)
    BY <1>5, <1>6, <1>7, <2>1, <2>2 DEF IsFlattening, N
  <2>4. QED
    BY <2>3
<1>8. CASE N # 0
  <2>1. 1 \in 1 .. N
    BY <1>0, <1>8
  <2>2. f[1] = s[1]
    <3>1. f[1] = f[1 - 1] \o s[1]
      BY <1>6, <2>1
    <3>2. f[1 - 1] = <<>>
      BY <1>5
    <3>3. f[1] = <<>> \o s[1] /\ s[1] \in Seq(S)
      BY <1>0, <2>1, <3>1, <3>2
    <3>4. QED
      BY <3>3, ConcatEmptySeq
  <2> DEFINE e == [i \in 1 .. N |-> f[i]]
  <2>3. e = [i \in 1 .. N |-> IF i = 1 THEN s[i] ELSE e[i - 1] \o s[i]]
    <3>1. ASSUME NEW i \in 1 .. N PROVE e[i] = IF i = 1 THEN s[i] ELSE e[i - 1] \o s[i]
      <4>1. CASE i = 1
        BY <2>2, <4>1
      <4>2. CASE i # 1
        <5>1. i - 1 \in 1 .. N
          BY <1>0, <4>2
        <5>2. QED
          BY <1>6, <4>2, <5>1
      <4>3. QED
        BY <4>1, <4>2
    <3>2. e = [i \in 1 .. N |-> e[i]]
      OBVIOUS
    <3> HIDE DEF e
    <3>3. QED
      BY <3>1, <3>2
  <2> HIDE DEF e
  <2> DEFINE g == CHOOSE g : g = [i \in 1 .. N |-> IF i = 1 THEN s[i] ELSE g[i - 1] \o s[i]]
  <2>4. g = [i \in 1 .. N |-> IF i = 1 THEN s[i] ELSE g[i - 1] \o s[i]]
    BY <2>3
  <2>5. FlattenSeq(s) = g[N]
    BY <1>8 DEF FlattenSeq, N
  <2> HIDE DEF g
  <2> DEFINE Good == {n \in 0 .. N : n # 0 => g[n] = f[n]}
  <2>6. Good = 0 .. N
    <3>1. 0 \in Good
      BY <1>0
    <3>2. ASSUME NEW n \in Good, n < N PROVE n + 1 \in Good
      <4>1. n \in 0 .. N /\ n + 1 \in 1 .. N /\ (n + 1) - 1 = n /\ (n # 0 => g[n] = f[n])
        BY <1>0, <3>2
      <4>2. f[n + 1] = f[n] \o s[n + 1]
        BY <1>6, <4>1
      <4>3. g[n + 1] = IF n + 1 = 1 THEN s[n + 1] ELSE g[n] \o s[n + 1]
        BY <2>4, <4>1
      <4>4. CASE n = 0
        <5>1. n + 1 = 1
          BY <4>4
        <5>2. g[n + 1] = f[n + 1]
          BY <2>2, <4>3, <5>1
        <5>3. QED
          BY <4>1, <5>2
      <4>5. CASE n # 0
        <5>1. n + 1 # 1
          BY <4>1, <4>5
        <5>2. g[n + 1] = f[n + 1]
          BY <4>1, <4>2, <4>3, <4>5, <5>1
        <5>3. QED
          BY <4>1, <5>2
      <4>6. QED
        BY <4>4, <4>5
    <3>3. Good \in SUBSET (0 .. N)
      OBVIOUS
    <3> HIDE DEF Good
    <3>4. QED
      BY <1>0, <3>1, <3>2, <3>3, IntervalInduct
  <2>7. g[N] = f[N]
    <3>1. N \in 0 .. N
      BY <1>0
    <3>2. QED
      BY <1>8, <2>6, <3>1
  <2>8. IsFlattening(f, s, S)
    BY <1>5, <1>6, <2>5, <2>7 DEF IsFlattening, N
  <2>9. QED
    BY <2>8
<1>9. QED
  BY <1>7, <1>8

(* The elements of two sequences put together. *)
LEMMA ConcatSet ==
  ASSUME NEW S, NEW s \in Seq(S), NEW t \in Seq(S)
  PROVE  \A x : x \in ToSet(s \o t) <=> x \in ToSet(s) \/ x \in ToSet(t)
<1> DEFINE u == s \o t
           m == Len(s)
           n == Len(t)
<1>0. m \in Nat /\ n \in Nat
  BY LenProperties
<1>1. /\ u \in Seq(S) /\ Len(u) = m + n
      /\ \A i \in 1 .. m + n : u[i] = IF i <= m THEN s[i] ELSE t[i - m]
  BY ConcatProperties
<1>2. \A x : x \in ToSet(s) <=> \E i \in 1 .. m : s[i] = x
  BY ToSetOfSeq
<1>3. \A x : x \in ToSet(t) <=> \E i \in 1 .. n : t[i] = x
  BY ToSetOfSeq
<1> HIDE DEF u
<1>4. \A x : x \in ToSet(u) <=> \E i \in 1 .. m + n : u[i] = x
  BY <1>1, ToSetOfSeq
<1> HIDE DEF m, n
<1>5. \A i \in 1 .. m : i \in 1 .. m + n /\ u[i] = s[i]
  BY <1>0, <1>1
<1>6. ASSUME NEW i \in 1 .. n PROVE i + m \in 1 .. m + n /\ u[i + m] = t[i]
  <2>1. i + m \in 1 .. m + n /\ ~(i + m <= m) /\ (i + m) - m = i
    BY <1>0
  <2>2. QED
    BY <1>1, <2>1
<1>7. \A i \in 1 .. m + n : i \in 1 .. m \/ (i - m \in 1 .. n /\ u[i] = t[i - m])
  BY <1>0, <1>1
<1>8. ASSUME NEW x PROVE x \in ToSet(u) <=> x \in ToSet(s) \/ x \in ToSet(t)
  <2>1. ASSUME x \in ToSet(u) PROVE x \in ToSet(s) \/ x \in ToSet(t)
    BY <1>2, <1>3, <1>4, <1>5, <1>7, <2>1
  <2>2. ASSUME x \in ToSet(s) PROVE x \in ToSet(u)
    BY <1>2, <1>4, <1>5, <2>2
  <2>3. ASSUME x \in ToSet(t) PROVE x \in ToSet(u)
    BY <1>3, <1>4, <1>6, <2>3
  <2>4. QED
    BY <2>1, <2>2, <2>3
<1>9. QED
  BY <1>8 DEF u

(* All elements are kept. *)
LEMMA FlattenKeeps ==
  ASSUME NEW S, NEW s \in Seq(Seq(S))
  PROVE  /\ FlattenSeq(s) \in Seq(S)
         /\ \A x : x \in ToSet(FlattenSeq(s)) <=> \E n \in 1 .. Len(s) : x \in ToSet(s[n])
<1> DEFINE N == Len(s)
<1>0. N \in Nat /\ \A i \in 1 .. N : s[i] \in Seq(S)
  BY LenProperties, ElementOfSeq
<1>1. PICK g : IsFlattening(g, s, S)
  BY FlattenSteps
<1>2. /\ g \in [0 .. N -> Seq(S)]
      /\ g[0] = <<>>
      /\ \A n \in 1 .. N : g[n] = g[n - 1] \o s[n]
      /\ FlattenSeq(s) = g[N]
  BY <1>1 DEF IsFlattening
<1> HIDE DEF N
<1> DEFINE Good == {n \in 0 .. N : \A x : x \in ToSet(g[n]) <=> \E i \in 1 .. n : x \in ToSet(s[i])}
<1>3. 0 \in Good
  <2>1. ToSet(<<>>) = {}
    BY DEF ToSet
  <2>2. 0 \in 0 .. N /\ 1 .. 0 = {}
    BY <1>0
  <2>3. QED
    BY <1>2, <2>1, <2>2
<1>4. ASSUME NEW n \in Good, n < N PROVE n + 1 \in Good
  <2>1. /\ n \in 0 .. N /\ n + 1 \in 1 .. N /\ n + 1 \in 0 .. N /\ (n + 1) - 1 = n
        /\ \A x : x \in ToSet(g[n]) <=> \E i \in 1 .. n : x \in ToSet(s[i])
    BY <1>0, <1>4
  <2>2. g[n + 1] = g[n] \o s[n + 1] /\ g[n] \in Seq(S) /\ s[n + 1] \in Seq(S)
    BY <1>0, <1>2, <2>1
  <2>3. \A x : x \in ToSet(g[n + 1]) <=> x \in ToSet(g[n]) \/ x \in ToSet(s[n + 1])
    BY <2>2, ConcatSet
  <2>4. \A i : i \in 1 .. n + 1 <=> i \in 1 .. n \/ i = n + 1
    BY <2>1
  <2>5. \A x : x \in ToSet(g[n + 1]) <=> \E i \in 1 .. n + 1 : x \in ToSet(s[i])
    BY <2>1, <2>3, <2>4
  <2>6. QED
    BY <2>1, <2>5
<1>5. Good = 0 .. N
  <2>1. Good \in SUBSET (0 .. N)
    OBVIOUS
  <2> HIDE DEF Good
  <2>2. QED
    BY <1>0, <1>3, <1>4, <2>1, IntervalInduct
<1>6. N \in Good
  <2> HIDE DEF Good
  <2>1. QED
    BY <1>0, <1>5
<1>7. QED
  BY <1>0, <1>2, <1>6 DEF N

-----------------------------------------------------------------------------
(* The positions of the models, each as often as its amount *)

(* How often a model is listed among those of one kind. *)
Share(models, n, permanent) == IF models[n].permanent = permanent THEN models[n].amount ELSE 0

(* In ids, model n has the places behind base[n - 1], up to base[n]. *)
IsLaidOut(ids, base, models, permanent) ==
  /\ base \in [0 .. Len(models) -> Nat]
  /\ base[0] = 0
  /\ \A n \in 1 .. Len(models) : base[n] = base[n - 1] + Share(models, n, permanent)
  /\ ids \in Seq(1 .. Len(models))
  /\ Len(ids) = base[Len(models)]
  /\ \A n \in 1 .. Len(models) : \A j \in Nat : base[n - 1] < j /\ j <= base[n] => ids[j] = n

(* It is a number. *)
ShareType ==
  \A models \in Seq(IdModel) : \A n \in 1 .. Len(models) : \A permanent \in BOOLEAN :
    Share(models, n, permanent) \in Nat

(* The amounts of models are numbers. *)
LEMMA ShareIsNat == ShareType
<1> SUFFICES ASSUME NEW models \in Seq(IdModel), NEW n \in 1 .. Len(models), NEW permanent \in BOOLEAN
             PROVE  Share(models, n, permanent) \in Nat
  BY DEF ShareType
<1>1. models[n] \in IdModel
  BY ElementOfSeq
<1>2. models[n].amount \in Nat
  BY <1>1 DEF IdModel
<1>3. QED
  BY <1>2 DEF Share

(* The bases grow. *)
LEMMA BasesGrow ==
  ASSUME NEW N \in Nat, NEW base \in [0 .. N -> Nat],
         \A n \in 1 .. N : base[n - 1] <= base[n]
  PROVE  \A m, n \in 0 .. N : m <= n => base[m] <= base[n]
<1> DEFINE Good == {n \in 0 .. N : \A m \in 0 .. n : base[m] <= base[n]}
<1>1. 0 \in Good
  BY DEF Good
<1>2. ASSUME NEW n \in Good, n < N PROVE n + 1 \in Good
  <2>1. n \in 0 .. N /\ n + 1 \in 1 .. N /\ n + 1 \in 0 .. N /\ (n + 1) - 1 = n
    BY <1>2
  <2>2. base[n] <= base[n + 1] /\ base[n] \in Nat /\ base[n + 1] \in Nat
    BY <2>1
  <2>3. ASSUME NEW m \in 0 .. n + 1 PROVE base[m] <= base[n + 1]
    <3>1. CASE m \in 0 .. n
      <4>1. base[m] <= base[n] /\ base[m] \in Nat
        BY <2>1, <3>1
      <4>2. QED
        BY <2>2, <4>1
    <3>2. CASE m = n + 1
      BY <2>2, <3>2
    <3>3. QED
      BY <2>1, <3>1, <3>2
  <2>4. QED
    BY <2>1, <2>3
<1>3. Good = 0 .. N
  <2>1. Good \in SUBSET (0 .. N)
    OBVIOUS
  <2> HIDE DEF Good
  <2>2. QED
    BY <1>1, <1>2, <2>1, IntervalInduct
<1>4. ASSUME NEW m \in 0 .. N, NEW n \in 0 .. N, m <= n PROVE base[m] <= base[n]
  <2>1. n \in Good
    <3> HIDE DEF Good
    <3>1. QED
      BY <1>3
  <2>2. m \in 0 .. n
    BY <1>4
  <2>3. QED
    BY <2>1, <2>2
<1>5. QED
  BY <1>4

(* Every place up to the last base has its model. *)
LEMMA PlaceBetweenBases ==
  ASSUME NEW N \in Nat, NEW base \in [0 .. N -> Nat], base[0] = 0,
         NEW j \in Nat, 1 <= j, j <= base[N]
  PROVE  \E n \in 1 .. N : base[n - 1] < j /\ j <= base[n]
<1> DEFINE B == {n \in Nat : n \in 0 .. N /\ j <= base[n]}
<1>1. N \in B /\ B \in SUBSET Nat
  OBVIOUS
<1>2. \A n \in B : n \in 0 .. N /\ j <= base[n]
  OBVIOUS
<1>3. \A n \in 0 .. N : j <= base[n] => n \in B
  OBVIOUS
<1> HIDE DEF B
<1>4. PICK n \in B : \A m \in B : n <= m
  BY <1>1, LeastElement
<1>5. n \in 1 .. N /\ n - 1 \in 0 .. N
  BY <1>2
<1>6. ~(j <= base[n - 1])
  <2>1. n - 1 \notin B
    BY <1>4, <1>5
  <2>2. QED
    BY <1>3, <1>5, <2>1
<1>7. base[n - 1] \in Nat
  BY <1>5
<1>8. QED
  BY <1>2, <1>5, <1>6, <1>7

(* What Ids lays out. *)
LEMMA IdsLaidOut ==
  ASSUME NEW models \in Seq(IdModel), NEW permanent \in BOOLEAN
  PROVE  \E base : IsLaidOut(Ids(models, permanent), base, models, permanent)
<1> DEFINE N == Len(models)
           S == 1 .. N
           seqs == [i \in DOMAIN models |->
                      IF models[i].permanent = permanent THEN [j \in 1 .. models[i].amount |-> i] ELSE <<>>]
           ids == Ids(models, permanent)
<1>0. N \in Nat /\ DOMAIN models = 1 .. N
  BY LenProperties
<1>1. ids = FlattenSeq(seqs)
  BY DEF Ids
<1>2. ASSUME NEW n \in 1 .. N
      PROVE  /\ seqs[n] \in Seq(S)
             /\ Len(seqs[n]) = Share(models, n, permanent)
             /\ \A j \in 1 .. Share(models, n, permanent) : seqs[n][j] = n
  <2>1. models[n] \in IdModel
    BY ElementOfSeq
  <2>2. models[n].amount \in Nat
    BY <2>1 DEF IdModel
  <2>3. CASE models[n].permanent = permanent
    <3> DEFINE a == models[n].amount
    <3>1. seqs[n] = [j \in 1 .. a |-> n] /\ Share(models, n, permanent) = a
      BY <1>0, <2>3 DEF Share
    <3>2. n \in S
      OBVIOUS
    <3> HIDE DEF a, seqs, S
    <3>3. a \in Nat
      BY <2>2 DEF a
    <3>4. [j \in 1 .. a |-> n] \in Seq(S) /\ Len([j \in 1 .. a |-> n]) = a
      BY <3>2, <3>3
    <3>5. QED
      BY <3>1, <3>4
  <2>4. CASE models[n].permanent # permanent
    <3>1. seqs[n] = <<>> /\ Share(models, n, permanent) = 0
      BY <1>0, <2>4 DEF Share
    <3> HIDE DEF seqs
    <3>2. QED
      BY <3>1
  <2>5. QED
    BY <2>3, <2>4
<1>3. seqs \in Seq(Seq(S)) /\ Len(seqs) = N
  <2>1. seqs = [i \in 1 .. N |-> seqs[i]]
    BY <1>0
  <2> HIDE DEF seqs, N, S
  <2>2. \A i \in 1 .. N : seqs[i] \in Seq(S)
    BY <1>2
  <2> DEFINE Q == Seq(S)
  <2>3. \A i \in 1 .. N : seqs[i] \in Q
    BY <2>2
  <2> HIDE DEF Q
  <2>4. [i \in 1 .. N |-> seqs[i]] \in Seq(Q) /\ Len([i \in 1 .. N |-> seqs[i]]) = N
    BY <1>0, <2>3
  <2>5. QED
    BY <2>1, <2>4 DEF Q
<1> HIDE DEF seqs, ids
<1>4. PICK g : IsFlattening(g, seqs, S)
  <2> HIDE DEF N, S
  <2>1. QED
    BY <1>3, FlattenSteps
<1>5. /\ g \in [0 .. N -> Seq(S)]
      /\ g[0] = <<>>
      /\ \A n \in 1 .. N : g[n] = g[n - 1] \o seqs[n]
      /\ ids = g[N]
  BY <1>1, <1>3, <1>4 DEF IsFlattening
<1> HIDE DEF N, S
<1> DEFINE base == [n \in 0 .. N |-> Len(g[n])]
<1>6. base \in [0 .. N -> Nat] /\ \A n \in 0 .. N : base[n] = Len(g[n])
  <2>1. \A n \in 0 .. N : g[n] \in Seq(S)
    BY <1>5
  <2>2. \A n \in 0 .. N : Len(g[n]) \in Nat
    BY <2>1, LenProperties
  <2>3. QED
    BY <2>2
<1> HIDE DEF base
<1>7. base[0] = 0
  BY <1>0, <1>5, <1>6
<1>8. ASSUME NEW n \in 1 .. N
      PROVE  /\ n - 1 \in 0 .. N /\ n \in 0 .. N
             /\ base[n] = base[n - 1] + Share(models, n, permanent)
             /\ Share(models, n, permanent) \in Nat
             /\ \A j \in 1 .. base[n] :
                  g[n][j] = IF j <= base[n - 1] THEN g[n - 1][j] ELSE seqs[n][j - base[n - 1]]
  <2>1. n - 1 \in 0 .. N /\ n \in 0 .. N
    BY <1>0
  <2>2. g[n - 1] \in Seq(S) /\ seqs[n] \in Seq(S)
    BY <1>2, <1>5, <2>1
  <2>3. /\ Len(g[n - 1] \o seqs[n]) = Len(g[n - 1]) + Len(seqs[n])
        /\ \A j \in 1 .. Len(g[n - 1]) + Len(seqs[n]) :
             (g[n - 1] \o seqs[n])[j] = IF j <= Len(g[n - 1]) THEN g[n - 1][j]
                                        ELSE seqs[n][j - Len(g[n - 1])]
    BY <2>2, ConcatProperties
  <2>4. g[n] = g[n - 1] \o seqs[n] /\ base[n] = Len(g[n]) /\ base[n - 1] = Len(g[n - 1])
    BY <1>5, <1>6, <2>1
  <2>5. Share(models, n, permanent) \in Nat
    BY ShareIsNat DEF ShareType, N
  <2>6. QED
    BY <1>2, <2>1, <2>3, <2>4, <2>5
<1>9. \A m, n \in 0 .. N : m <= n => base[m] <= base[n]
  <2>1. \A n \in 1 .. N : base[n - 1] <= base[n]
    <3>1. TAKE n \in 1 .. N
    <3>2. base[n - 1] \in Nat
      BY <1>6, <1>8
    <3>3. QED
      BY <1>8, <3>2
  <2>2. QED
    BY <1>0, <1>6, <2>1, BasesGrow
<1> DEFINE At(n, m) == \A j \in Nat : base[m - 1] < j /\ j <= base[m] => g[n][j] = m
           Good == {n \in 0 .. N : \A m \in 1 .. n : At(n, m)}
<1>10. 0 \in Good
  BY <1>0
<1>11. ASSUME NEW n \in Good, n < N PROVE n + 1 \in Good
  <2>1. n \in 0 .. N /\ n + 1 \in 1 .. N /\ n + 1 \in 0 .. N /\ (n + 1) - 1 = n
    BY <1>0, <1>11
  <2>2. ASSUME NEW m \in 1 .. n PROVE At(n, m)
    OBVIOUS
  <2>3. /\ base[n + 1] = base[n] + Share(models, n + 1, permanent)
        /\ Share(models, n + 1, permanent) \in Nat
        /\ \A j \in 1 .. base[n + 1] :
             g[n + 1][j] = IF j <= base[n] THEN g[n][j] ELSE seqs[n + 1][j - base[n]]
    BY <1>8, <2>1
  <2>4. base[n] \in Nat /\ base[n + 1] \in Nat
    BY <1>6, <2>1
  <2>5. ASSUME NEW m \in 1 .. n + 1, NEW j \in Nat, base[m - 1] < j, j <= base[m]
        PROVE  g[n + 1][j] = m
    <3>1. m - 1 \in 0 .. N /\ m \in 0 .. N /\ base[m - 1] \in Nat /\ base[m] \in Nat
      BY <1>0, <1>6, <2>1
    <3>2. CASE m \in 1 .. n
      <4>1. base[m] <= base[n]
        BY <1>9, <2>1, <3>1, <3>2
      <4>2. j \in 1 .. base[n + 1] /\ j <= base[n]
        BY <2>3, <2>4, <2>5, <3>1, <4>1
      <4>3. g[n][j] = m
        BY <2>2, <2>5, <3>2
      <4>4. QED
        BY <2>3, <4>2, <4>3
    <3>3. CASE m = n + 1
      <4>1. base[n] < j /\ j <= base[n + 1]
        BY <2>1, <2>5, <3>3
      <4>2. j \in 1 .. base[n + 1] /\ ~(j <= base[n]) /\ j - base[n] \in 1 .. Share(models, n + 1, permanent)
        BY <2>3, <2>4, <4>1
      <4>3. seqs[n + 1][j - base[n]] = n + 1
        BY <1>2, <2>1, <4>2
      <4>4. QED
        BY <2>3, <3>3, <4>2, <4>3
    <3>4. QED
      BY <2>1, <3>2, <3>3
  <2>6. QED
    BY <2>1, <2>5
<1>12. Good = 0 .. N
  <2>1. Good \in SUBSET (0 .. N)
    OBVIOUS
  <2> HIDE DEF Good
  <2>2. QED
    BY <1>0, <1>10, <1>11, <2>1, IntervalInduct
<1>13. \A m \in 1 .. N : \A j \in Nat : base[m - 1] < j /\ j <= base[m] => g[N][j] = m
  <2>1. N \in Good
    <3> HIDE DEF Good
    <3>1. QED
      BY <1>0, <1>12
  <2>2. QED
    BY <2>1
<1>14. ids \in Seq(S) /\ Len(ids) = base[N]
  <2>1. N \in 0 .. N
    BY <1>0
  <2>2. QED
    BY <1>5, <1>6, <2>1
<1>15. IsLaidOut(ids, base, models, permanent)
  BY <1>5, <1>6, <1>7, <1>8, <1>13, <1>14 DEF IsLaidOut, N, S
<1>16. QED
  BY <1>15 DEF ids

(* The places of model m in a list. *)
Occurrences(list, m) == {i \in DOMAIN list : list[i] = m}

(* No model more often than its amount. *)
NotTooOften(list, models) ==
  \A m \in DOMAIN models : Cardinality(Occurrences(list, m)) <= models[m].amount

(* All models are permanent, or none is. *)
OfKind(list, models, permanent) == \A i \in DOMAIN list : models[list[i]].permanent = permanent

(* A list whose models never go back. *)
Nondecreasing(list) == \A i, j \in DOMAIN list : i < j => list[i] <= list[j]

(* The bases are numbers that grow by the shares. *)
LEMMA LaidOutNumbers ==
  ASSUME NEW models \in Seq(IdModel), NEW permanent \in BOOLEAN, NEW ids, NEW base,
         IsLaidOut(ids, base, models, permanent)
  PROVE  /\ \A n \in 1 .. Len(models) :
              /\ base[n - 1] \in Nat /\ base[n] \in Nat
              /\ Share(models, n, permanent) \in Nat
              /\ base[n] = base[n - 1] + Share(models, n, permanent)
         /\ \A m, n \in 0 .. Len(models) : m <= n => base[m] <= base[n]
<1> DEFINE N == Len(models)
<1>0. N \in Nat
  BY LenProperties
<1>1. /\ base \in [0 .. N -> Nat]
      /\ \A n \in 1 .. N : base[n] = base[n - 1] + Share(models, n, permanent)
      /\ \A n \in 1 .. N : Share(models, n, permanent) \in Nat
  BY ShareIsNat DEF IsLaidOut, ShareType
<1> HIDE DEF N
<1>2. ASSUME NEW n \in 1 .. N
      PROVE  /\ base[n - 1] \in Nat /\ base[n] \in Nat
             /\ Share(models, n, permanent) \in Nat
             /\ base[n] = base[n - 1] + Share(models, n, permanent)
             /\ base[n - 1] <= base[n]
  <2>1. n - 1 \in 0 .. N /\ n \in 0 .. N
    BY <1>0
  <2>2. base[n - 1] \in Nat /\ base[n] \in Nat
    BY <1>1, <2>1
  <2>3. Share(models, n, permanent) \in Nat /\ base[n] = base[n - 1] + Share(models, n, permanent)
    BY <1>1
  <2>4. QED
    BY <2>2, <2>3
<1>3. \A m, n \in 0 .. N : m <= n => base[m] <= base[n]
  BY <1>0, <1>1, <1>2, BasesGrow
<1>4. QED
  BY <1>2, <1>3 DEF N

(* Where the places of a model are. *)
LEMMA LaidOutPlaces ==
  ASSUME NEW models \in Seq(IdModel), NEW permanent \in BOOLEAN, NEW ids, NEW base,
         IsLaidOut(ids, base, models, permanent)
  PROVE  /\ \A j \in 1 .. Len(ids) :
              /\ ids[j] \in 1 .. Len(models)
              /\ base[ids[j] - 1] < j /\ j <= base[ids[j]]
              /\ models[ids[j]].permanent = permanent
         /\ \A j, k \in 1 .. Len(ids) : j < k => ids[j] <= ids[k]
<1> DEFINE N == Len(models)
<1>0. N \in Nat
  BY LenProperties
<1>1. /\ base \in [0 .. N -> Nat]
      /\ base[0] = 0
      /\ \A n \in 1 .. N : base[n] = base[n - 1] + Share(models, n, permanent)
      /\ ids \in Seq(1 .. N)
      /\ Len(ids) = base[N]
      /\ \A n \in 1 .. N : \A j \in Nat : base[n - 1] < j /\ j <= base[n] => ids[j] = n
  BY DEF IsLaidOut
<1>2. \A n \in 1 .. N : Share(models, n, permanent) \in Nat /\ base[n - 1] \in Nat /\ base[n] \in Nat
  BY LaidOutNumbers
<1>3. \A m, n \in 0 .. N : m <= n => base[m] <= base[n]
  BY LaidOutNumbers
<1>4. Len(ids) \in Nat
  BY <1>1, LenProperties
<1>5. ASSUME NEW j \in 1 .. Len(ids)
      PROVE  /\ ids[j] \in 1 .. N
             /\ base[ids[j] - 1] < j /\ j <= base[ids[j]]
             /\ models[ids[j]].permanent = permanent
  <2>1. j \in Nat /\ 1 <= j /\ j <= base[N]
    BY <1>1, <1>4
  <2>2. PICK n \in 1 .. N : base[n - 1] < j /\ j <= base[n]
    <3> HIDE DEF N
    <3>1. QED
      BY <1>0, <1>1, <2>1, PlaceBetweenBases
  <2>3. ids[j] = n
    BY <1>1, <2>1, <2>2
  <2>4. models[n].permanent = permanent
    <3>1. Share(models, n, permanent) # 0
      BY <1>1, <1>2, <2>1, <2>2
    <3>2. QED
      BY <3>1 DEF Share
  <2>5. QED
    BY <2>2, <2>3, <2>4
<1>6. ASSUME NEW j \in 1 .. Len(ids), NEW k \in 1 .. Len(ids), j < k PROVE ids[j] <= ids[k]
  <2>1. SUFFICES ASSUME ids[k] < ids[j] PROVE FALSE
    BY <1>5
  <2> DEFINE m == ids[j]
             n == ids[k]
  <2>2. m \in 1 .. N /\ n \in 1 .. N /\ base[m - 1] < j /\ k <= base[n]
    BY <1>5
  <2>3. n \in 0 .. N /\ m - 1 \in 0 .. N /\ n <= m - 1
    BY <1>0, <2>1, <2>2
  <2> HIDE DEF m, n, N
  <2>4. base[n] <= base[m - 1] /\ base[n] \in Nat /\ base[m - 1] \in Nat
    BY <1>1, <1>3, <2>3
  <2>5. QED
    BY <1>4, <1>6, <2>2, <2>4
<1>7. QED
  BY <1>5, <1>6

(* f takes the elements of a list from different places of ids. *)
IsTaken(f, list, ids) ==
  /\ f \in [1 .. Len(list) -> 1 .. Len(ids)]
  /\ \A i, j \in 1 .. Len(list) : f[i] = f[j] => i = j
  /\ \A i \in 1 .. Len(list) : list[i] = ids[f[i]]

(* What is taken from different places is not taken too often. *)
LEMMA TakenFromPlaces ==
  ASSUME NEW models \in Seq(IdModel), NEW permanent \in BOOLEAN, NEW ids, NEW base,
         IsLaidOut(ids, base, models, permanent),
         NEW list \in Seq(1 .. Len(models)), NEW f, IsTaken(f, list, ids)
  PROVE  NotTooOften(list, models) /\ OfKind(list, models, permanent)
<1> DEFINE N == Len(models)
           n == Len(list)
<1>0. N \in Nat /\ DOMAIN models = 1 .. N /\ n \in Nat /\ DOMAIN list = 1 .. n
  BY LenProperties
<1>1. /\ base \in [0 .. N -> Nat]
      /\ \A m \in 1 .. N : base[m] = base[m - 1] + Share(models, m, permanent)
      /\ \A m \in 1 .. N : Share(models, m, permanent) \in Nat
  BY ShareIsNat DEF IsLaidOut, ShareType
<1>2. \A j \in 1 .. Len(ids) :
        /\ base[ids[j] - 1] < j /\ j <= base[ids[j]]
        /\ models[ids[j]].permanent = permanent
  BY LaidOutPlaces
<1>6. /\ f \in [1 .. Len(list) -> 1 .. Len(ids)]
      /\ \A i, j \in 1 .. Len(list) : f[i] = f[j] => i = j
      /\ \A i \in 1 .. Len(list) : list[i] = ids[f[i]]
  BY DEF IsTaken
<1>3. OfKind(list, models, permanent)
  BY <1>0, <1>2, <1>6 DEF OfKind
<1>4. ASSUME NEW m \in 1 .. N PROVE Cardinality(Occurrences(list, m)) <= models[m].amount
  <2> DEFINE A == Occurrences(list, m)
             B == base[m - 1] + 1 .. base[m]
             g == [i \in A |-> f[i]]
  <2>1. A \in SUBSET (1 .. n) /\ \A i \in A : list[i] = m
    BY <1>0 DEF Occurrences
  <2>2. base[m - 1] \in Nat /\ base[m] \in Nat /\ base[m] = base[m - 1] + Share(models, m, permanent)
        /\ Share(models, m, permanent) \in Nat
    BY LaidOutNumbers
  <2>3. IsFiniteSet(B) /\ Cardinality(B) = Share(models, m, permanent)
    <3>1. IsFiniteSet(B) /\ Cardinality(B)
                              = IF base[m - 1] + 1 > base[m] THEN 0 ELSE base[m] - (base[m - 1] + 1) + 1
      <4>1. base[m - 1] + 1 \in Int /\ base[m] \in Int
        BY <2>2
      <4> DEFINE lo == base[m - 1] + 1
                 hi == base[m]
      <4>2. IsFiniteSet(lo .. hi) /\ Cardinality(lo .. hi) = IF lo > hi THEN 0 ELSE hi - lo + 1
        <5> HIDE DEF lo, hi
        <5>1. lo \in Int /\ hi \in Int
          BY <4>1 DEF lo, hi
        <5>2. QED
          BY <5>1, FS_Interval
      <4>3. QED
        BY <4>2
    <3> DEFINE c == Cardinality(B)
    <3>2. c = IF base[m - 1] + 1 > base[m] THEN 0 ELSE base[m] - (base[m - 1] + 1) + 1
      BY <3>1
    <3> HIDE DEF c
    <3>3. c = Share(models, m, permanent)
      BY <2>2, <3>2
    <3>4. QED
      BY <3>1, <3>3 DEF c
  <2> HIDE DEF A
  <2>4. \A i \in A : f[i] \in B
    <3>1. TAKE i \in A
    <3>2. ids[f[i]] = m /\ f[i] \in 1 .. Len(ids)
      BY <1>6, <2>1
    <3>3. base[m - 1] < f[i] /\ f[i] <= base[m] /\ f[i] \in Nat
      BY <1>2, <3>2
    <3>4. QED
      BY <2>2, <3>3
  <2> HIDE DEF B
  <2>5. g \in Injection(A, B)
    <3>1. g \in [A -> B] /\ \A i \in A : g[i] = f[i]
      BY <2>4
    <3> HIDE DEF g
    <3>2. \A i, j \in A : g[i] = g[j] => i = j
      BY <1>6, <2>1, <3>1
    <3>3. QED
      BY <3>1, <3>2 DEF Injection, IsInjective
  <2>6. Cardinality(A) <= Cardinality(B) /\ IsFiniteSet(A)
    <3> HIDE DEF g
    <3>1. QED
      BY <2>3, <2>5, FS_Injection
  <2>7. Cardinality(A) \in Nat
    BY <2>6, FS_CardinalityType
  <2>8. Share(models, m, permanent) <= models[m].amount
    <3>1. models[m] \in IdModel
      BY ElementOfSeq
    <3>2. models[m].amount \in Nat
      BY <3>1 DEF IdModel
    <3>3. QED
      BY <3>2 DEF Share
  <2>9. models[m].amount \in Nat
    <3>1. models[m] \in IdModel
      BY ElementOfSeq
    <3>2. QED
      BY <3>1 DEF IdModel
  <2>10. QED
    BY <2>2, <2>3, <2>6, <2>7, <2>8, <2>9 DEF A
<1>5. QED
  BY <1>0, <1>3, <1>4 DEF NotTooOften

(* h puts the elements of a list at their places in ids, the first of equal *)
(* ones first.                                                              *)
IsPlacement(h, list, ids) ==
  /\ h \in [1 .. Len(list) -> 1 .. Len(ids)]
  /\ \A i \in 1 .. Len(list) : ids[h[i]] = list[i]
  /\ \A i, j \in 1 .. Len(list) : i < j /\ list[i] = list[j] => h[i] < h[j]

(* What is not wanted too often has a place. *)
LEMMA PlacementExists ==
  ASSUME NEW models \in Seq(IdModel), NEW permanent \in BOOLEAN, NEW ids, NEW base,
         IsLaidOut(ids, base, models, permanent),
         NEW list \in Seq(1 .. Len(models)), NotTooOften(list, models), OfKind(list, models, permanent)
  PROVE  \E h : IsPlacement(h, list, ids)
<1> DEFINE N == Len(models)
           n == Len(list)
           upto(i) == {k \in 1 .. i : list[k] = list[i]}
           h == [i \in 1 .. n |-> base[list[i] - 1] + Cardinality(upto(i))]
<1>0. N \in Nat /\ DOMAIN models = 1 .. N /\ n \in Nat /\ DOMAIN list = 1 .. n
      /\ \A i \in 1 .. n : list[i] \in 1 .. N
  BY LenProperties, ElementOfSeq
<1>1. /\ base \in [0 .. N -> Nat]
      /\ base[0] = 0
      /\ \A m \in 1 .. N : base[m] = base[m - 1] + Share(models, m, permanent)
      /\ \A m \in 1 .. N : Share(models, m, permanent) \in Nat
      /\ ids \in Seq(1 .. N) /\ Len(ids) = base[N]
      /\ \A m \in 1 .. N : \A j \in Nat : base[m - 1] < j /\ j <= base[m] => ids[j] = m
  BY ShareIsNat DEF IsLaidOut, ShareType
<1>2. \A m1, m2 \in 0 .. N : m1 <= m2 => base[m1] <= base[m2]
  BY LaidOutNumbers
<1>3. ASSUME NEW i \in 1 .. n
      PROVE  /\ IsFiniteSet(upto(i)) /\ Cardinality(upto(i)) \in Nat
             /\ 1 <= Cardinality(upto(i)) /\ Cardinality(upto(i)) <= Share(models, list[i], permanent)
  <2> DEFINE A == upto(i)
             B == Occurrences(list, list[i])
  <2>1. A \in SUBSET B /\ i \in A
    BY <1>0 DEF Occurrences
  <2>2. B \in SUBSET (1 .. n)
    BY <1>0 DEF Occurrences
  <2> HIDE DEF A, B
  <2>3. IsFiniteSet(1 .. n)
    BY <1>0, FS_Interval
  <2>4. IsFiniteSet(B) /\ Cardinality(B) \in Nat
    BY <2>2, <2>3, FS_Subset, FS_CardinalityType
  <2>5. IsFiniteSet(A) /\ Cardinality(A) \in Nat /\ Cardinality(A) <= Cardinality(B)
    BY <2>1, <2>4, FS_Subset, FS_CardinalityType
  <2>6. Cardinality(A) # 0
    BY <2>1, <2>5, FS_EmptySet
  <2>7. Cardinality(B) <= Share(models, list[i], permanent)
    <3>1. models[list[i]].permanent = permanent
      BY <1>0 DEF OfKind
    <3>2. Cardinality(B) <= models[list[i]].amount
      BY <1>0 DEF NotTooOften, B
    <3>3. QED
      BY <3>1, <3>2 DEF Share
  <2>8. Share(models, list[i], permanent) \in Nat
    BY <1>0, <1>1
  <2>9. 1 <= Cardinality(A) /\ Cardinality(A) <= Share(models, list[i], permanent)
    BY <2>4, <2>5, <2>6, <2>7, <2>8
  <2>10. QED
    BY <2>5, <2>9 DEF A
<1>4. ASSUME NEW i \in 1 .. n
      PROVE  /\ h[i] \in Nat /\ base[list[i] - 1] < h[i] /\ h[i] <= base[list[i]]
             /\ h[i] = base[list[i] - 1] + Cardinality(upto(i))
  <2> DEFINE c == Cardinality(upto(i))
             m == list[i]
  <2>1. c \in Nat /\ 1 <= c /\ c <= Share(models, m, permanent)
    BY <1>3
  <2>2. m \in 1 .. N
    BY <1>0
  <2>3. h[i] = base[m - 1] + c
    OBVIOUS
  <2> HIDE DEF c, m, h
  <2>4. base[m - 1] \in Nat /\ base[m] = base[m - 1] + Share(models, m, permanent)
        /\ Share(models, m, permanent) \in Nat
    BY <2>2, LaidOutNumbers
  <2>5. h[i] \in Nat /\ base[m - 1] < h[i] /\ h[i] <= base[m]
    BY <2>1, <2>3, <2>4
  <2>6. QED
    BY <2>3, <2>5 DEF m, c
<1> HIDE DEF h
<1>5. ASSUME NEW i \in 1 .. n PROVE h[i] \in 1 .. Len(ids) /\ ids[h[i]] = list[i]
  <2>1. list[i] \in 1 .. N /\ list[i] - 1 \in 0 .. N /\ list[i] \in 0 .. N /\ list[i] <= N /\ N \in 0 .. N
    BY <1>0
  <2>2. base[list[i]] <= base[N] /\ base[list[i] - 1] \in Nat /\ base[N] \in Nat /\ base[list[i]] \in Nat
    BY <1>1, <1>2, <2>1
  <2>3. h[i] \in 1 .. base[N]
    <3>1. h[i] \in Nat /\ base[list[i] - 1] < h[i] /\ h[i] <= base[list[i]]
      BY <1>4
    <3> DEFINE u == base[list[i]]
               v == base[list[i] - 1]
               w == base[N]
               y == h[i]
    <3>2. y \in Nat /\ v < y /\ y <= u /\ u <= w /\ u \in Nat /\ v \in Nat /\ w \in Nat
      BY <2>2, <3>1
    <3> HIDE DEF u, v, w, y
    <3>3. y \in 1 .. w
      BY <3>2
    <3>4. QED
      BY <3>3 DEF y, w
  <2>4. QED
    BY <1>1, <1>4, <2>1, <2>3
<1>6. ASSUME NEW i \in 1 .. n, NEW j \in 1 .. n, i < j, list[i] = list[j]
      PROVE  h[i] < h[j]
  <2> DEFINE A == upto(i)
             B == upto(j)
             a == Cardinality(A)
             b == Cardinality(B)
             x == base[list[i] - 1]
  <2>1. A \in SUBSET B /\ j \in B /\ j \notin A
    BY <1>0, <1>6
  <2>2. IsFiniteSet(A) /\ IsFiniteSet(B) /\ a \in Nat /\ b \in Nat
    BY <1>3
  <2> HIDE DEF A, B
  <2>3. a <= b /\ (a = b => A = B)
    BY <2>1, <2>2, FS_Subset
  <2>4. a < b
    BY <2>1, <2>2, <2>3
  <2>5. h[i] = x + a /\ h[j] = x + b /\ x \in Nat
    <3>1. h[i] = x + a
      BY <1>4 DEF A
    <3>2. h[j] = x + b
      BY <1>4, <1>6 DEF B
    <3>3. x \in Nat
      BY <1>0, LaidOutNumbers
    <3>4. QED
      BY <3>1, <3>2, <3>3
  <2> HIDE DEF a, b, x
  <2>6. QED
    BY <2>2, <2>4, <2>5
<1>7. IsPlacement(h, list, ids)
  <2>1. h \in [1 .. n -> 1 .. Len(ids)]
    <3>1. h = [i \in 1 .. n |-> h[i]]
      BY DEF h
    <3>2. QED
      BY <1>5, <3>1
  <2>2. QED
    BY <1>5, <1>6, <2>1 DEF IsPlacement
<1>8. QED
  BY <1>7

(* A sorted vector comes before its other permutations. *)
LEMMA SortedLeast ==
  ASSUME NEW s \in Seq(Nat), NEW p \in Seq(Nat), Len(p) = Len(s),
         \A i, j \in 1 .. Len(s) : i < j => s[i] <= s[j],
         NEW f \in [1 .. Len(s) -> 1 .. Len(s)],
         \A i, j \in 1 .. Len(s) : f[i] = f[j] => i = j,
         \A i \in 1 .. Len(s) : p[i] = s[f[i]]
  PROVE  p = s \/ VectorLess(s, p)
<1> DEFINE n == Len(s)
<1>0. n \in Nat /\ (\A i \in 1 .. n : s[i] \in Nat) /\ \A i \in 1 .. n : p[i] \in Nat
  BY LenProperties, ElementOfSeq
<1>1. SUFFICES ASSUME VectorLess(p, s) PROVE FALSE
  BY VectorLessTotal
<1>2. PICK i \in 1 .. n + 1 :
         /\ \A j \in 1 .. i - 1 : j <= n /\ p[j] = s[j]
         /\ i <= n
         /\ i <= n => p[i] < s[i]
  BY <1>1 DEF VectorLess
<1> HIDE DEF n
<1>3. i \in 1 .. n /\ p[i] < s[i] /\ p[i] \in Nat
  BY <1>0, <1>2
<1> DEFINE v == p[i]
           A == {j \in 1 .. n : s[j] <= v}
           B == {j \in 1 .. n : p[j] <= v}
           g == [j \in B |-> f[j]]
<1>4. i \in B /\ i \notin A
  BY <1>0, <1>3
<1>5. A \in SUBSET B
  <2>1. ASSUME NEW j \in A PROVE j \in B
    <3>1. j < i
      <4>1. CASE j > i
        <5>1. s[i] <= s[j]
          BY <1>3, <4>1 DEF n
        <5>2. s[i] \in Nat /\ s[j] \in Nat /\ s[j] <= v
          BY <1>0, <1>3
        <5>3. QED
          BY <1>3, <5>1, <5>2
      <4>2. j # i
        BY <1>4
      <4>3. QED
        BY <1>0, <1>3, <4>1, <4>2
    <3>2. p[j] = s[j]
      BY <1>0, <1>2, <1>3, <3>1
    <3>3. QED
      BY <3>2
  <2>2. QED
    BY <2>1
<1>6. A \in SUBSET (1 .. n) /\ B \in SUBSET (1 .. n)
  OBVIOUS
<1>7. \A j \in B : f[j] \in A
  BY <1>0 DEF n
<1>8. g \in Injection(B, A)
  <2> HIDE DEF A, B
  <2>1. g \in [B -> A] /\ \A j \in B : g[j] = f[j]
    BY <1>7
  <2> HIDE DEF g
  <2>2. \A j, k \in B : g[j] = g[k] => j = k
    BY <1>6, <2>1 DEF n
  <2>3. QED
    BY <2>1, <2>2 DEF Injection, IsInjective
<1> HIDE DEF A, B, g
<1>9. IsFiniteSet(1 .. n)
  BY <1>0, FS_Interval
<1>10. IsFiniteSet(A) /\ IsFiniteSet(B) /\ Cardinality(A) \in Nat /\ Cardinality(B) \in Nat
  BY <1>6, <1>9, FS_Subset, FS_CardinalityType
<1>11. Cardinality(B) <= Cardinality(A)
  BY <1>8, <1>10, FS_Injection
<1>12. Cardinality(A) <= Cardinality(B) /\ (Cardinality(B) = Cardinality(A) => B = A)
  BY <1>5, <1>10, FS_Subset
<1>13. QED
  BY <1>4, <1>10, <1>11, <1>12

(* What a SubsetChooser hands out for the models of a kind. *)
IsSubset(s, models, max_, permanent) ==
  /\ s \in Seq(1 .. Len(models)) /\ s # <<>>
  /\ max_ # 0 => Len(s) <= max_
  /\ NotTooOften(s, models) /\ OfKind(s, models, permanent) /\ Nondecreasing(s)

(* The subsets of the ids are the nondecreasing lists of one kind. *)
LEMMA SubsetsAre ==
  ASSUME NEW models \in Seq(IdModel), NEW permanent \in BOOLEAN, NEW limit \in Nat, NEW s
  PROVE  s \in Subsets(Ids(models, permanent), limit) <=> IsSubset(s, models, limit, permanent)
<1> DEFINE N == Len(models)
           ids == Ids(models, permanent)
           T == 1 .. N
<1>0. PICK base : IsLaidOut(ids, base, models, permanent)
  BY IdsLaidOut
<1>1. ids \in Seq(T)
  BY <1>0 DEF IsLaidOut
<1>2. /\ \A u \in Subsequences(ids) : u \in Seq(T) /\ Len(u) <= Len(ids) /\ \E h : Embeds(h, u, ids)
      /\ \A u \in Seq(T) : \A h : Embeds(h, u, ids) => u \in Subsequences(ids)
  <2> HIDE DEF ids, T
  <2>1. QED
    BY <1>1, SubsequenceIs
<1>3. \A j, k \in 1 .. Len(ids) : j < k => ids[j] <= ids[k]
  <2> HIDE DEF ids
  <2>1. QED
    BY <1>0, LaidOutPlaces
<1>4. s \in Subsets(ids, limit) <=> s \in Subsequences(ids) /\ Len(s) \in 1 .. Bound(ids, limit)
  BY DEF Subsets
<1> HIDE DEF ids
<1>5. Len(ids) \in Nat
  BY <1>1, LenProperties
<1>6. ASSUME s \in Subsequences(ids), Len(s) \in 1 .. Bound(ids, limit)
      PROVE  IsSubset(s, models, limit, permanent)
  <2>1. s \in Seq(T) /\ Len(s) \in Nat /\ DOMAIN s = 1 .. Len(s)
    BY <1>2, <1>6, LenProperties
  <2>2. PICK h : Embeds(h, s, ids)
    BY <1>2, <1>6
  <2>3. /\ h \in [1 .. Len(s) -> 1 .. Len(ids)]
        /\ \A j, k \in 1 .. Len(s) : j < k => h[j] < h[k]
        /\ \A k \in 1 .. Len(s) : s[k] = ids[h[k]]
    BY <2>2 DEF Embeds
  <2>4. \A j, k \in 1 .. Len(s) : h[j] = h[k] => j = k
    BY <1>5, <2>1, <2>3, SMTT(30)
  <2>5. NotTooOften(s, models) /\ OfKind(s, models, permanent)
    <3>1. s \in Seq(1 .. Len(models)) /\ IsTaken(h, s, ids)
      BY <2>1, <2>3, <2>4 DEF IsTaken
    <3> HIDE DEF T, N
    <3>2. QED
      BY <1>0, <3>1, TakenFromPlaces
  <2>6. Nondecreasing(s)
    BY <1>3, <2>1, <2>3 DEF Nondecreasing
  <2>7. s # <<>> /\ (limit # 0 => Len(s) <= limit)
    <3>1. Len(s) \in 1 .. IF limit # 0 /\ limit < Len(ids) THEN limit ELSE Len(ids)
      BY <1>6 DEF Bound
    <3>2. Len(s) >= 1
      BY <1>5, <3>1
    <3>3. QED
      BY <1>5, <2>1, <3>1, <3>2
  <2>8. QED
    BY <2>1, <2>5, <2>6, <2>7 DEF IsSubset
<1>7. ASSUME IsSubset(s, models, limit, permanent)
      PROVE  s \in Subsequences(ids) /\ Len(s) \in 1 .. Bound(ids, limit)
  <2>1. /\ s \in Seq(T) /\ s # <<>>
        /\ limit # 0 => Len(s) <= limit
        /\ NotTooOften(s, models) /\ OfKind(s, models, permanent) /\ Nondecreasing(s)
    BY <1>7 DEF IsSubset
  <2>2. Len(s) \in Nat /\ Len(s) # 0 /\ DOMAIN s = 1 .. Len(s)
    BY <2>1, LenProperties, EmptySeq
  <2>3. PICK h : IsPlacement(h, s, ids)
    BY <1>0, <2>1, PlacementExists
  <2>4. /\ h \in [1 .. Len(s) -> 1 .. Len(ids)]
        /\ \A i \in 1 .. Len(s) : ids[h[i]] = s[i]
        /\ \A i, j \in 1 .. Len(s) : i < j /\ s[i] = s[j] => h[i] < h[j]
    BY <2>3 DEF IsPlacement
  <2>5. ASSUME NEW i \in 1 .. Len(s), NEW j \in 1 .. Len(s), i < j PROVE h[i] < h[j]
    <3>1. CASE s[i] = s[j]
      BY <2>4, <2>5, <3>1
    <3>2. CASE s[i] # s[j]
      <4>1. s[i] <= s[j] /\ s[i] \in T /\ s[j] \in T
        BY <2>1, <2>2, <2>5, ElementOfSeq DEF Nondecreasing
      <4>2. SUFFICES ASSUME h[j] <= h[i] PROVE FALSE
        BY <1>5, <2>4
      <4>3. h[j] # h[i]
        BY <2>4, <3>2
      <4>4. h[j] < h[i] /\ h[j] \in 1 .. Len(ids) /\ h[i] \in 1 .. Len(ids)
        BY <1>5, <2>4, <4>2, <4>3, SMTT(30)
      <4>5. ids[h[j]] <= ids[h[i]]
        BY <1>3, <4>4
      <4>6. s[j] <= s[i]
        BY <2>4, <4>5
      <4>7. QED
        BY <3>2, <4>1, <4>6
    <3>3. QED
      BY <3>1, <3>2
  <2>6. Embeds(h, s, ids)
    BY <2>4, <2>5 DEF Embeds
  <2>7. s \in Subsequences(ids)
    BY <1>2, <2>1, <2>6
  <2>8. Len(s) <= Len(ids)
    BY <1>2, <2>7
  <2>9. Len(s) \in 1 .. Bound(ids, limit)
    BY <1>5, <2>1, <2>2, <2>8 DEF Bound
  <2>10. QED
    BY <2>7, <2>9
<1>8. QED
  BY <1>4, <1>6, <1>7 DEF ids

(* A sequence over a larger set. *)
LEMMA SeqWiden ==
  ASSUME NEW T, NEW U, T \subseteq U, NEW s \in Seq(T)
  PROVE  s \in Seq(U)
<1>1. Len(s) \in Nat /\ s = [i \in 1 .. Len(s) |-> s[i]] /\ \A i \in 1 .. Len(s) : s[i] \in U
  BY LenProperties, ElementOfSeq
<1>2. [i \in 1 .. Len(s) |-> s[i]] \in Seq(U)
  BY <1>1
<1>3. QED
  BY <1>1, <1>2

(* A placement takes the elements from different places. *)
LEMMA PlacementTakes ==
  ASSUME NEW list, Len(list) \in Nat, NEW ids, NEW h, IsPlacement(h, list, ids)
  PROVE  IsTaken(h, list, ids)
<1> DEFINE n == Len(list)
<1>1. /\ h \in [1 .. n -> 1 .. Len(ids)]
      /\ \A i \in 1 .. n : ids[h[i]] = list[i]
      /\ \A i, j \in 1 .. n : i < j /\ list[i] = list[j] => h[i] < h[j]
  BY DEF IsPlacement
<1>2. ASSUME NEW i \in 1 .. n, NEW j \in 1 .. n, h[i] = h[j] PROVE i = j
  <2>1. list[i] = list[j]
    BY <1>1, <1>2
  <2>2. ~(h[i] < h[j]) /\ ~(h[j] < h[i])
    <3>1. h[i] \in 1 .. Len(ids)
      BY <1>1
    <3> DEFINE x == h[i]
    <3>2. x \in Int
      BY <3>1
    <3> HIDE DEF x
    <3>3. ~(x < x)
      BY <3>2
    <3>4. QED
      BY <1>2, <3>3 DEF x
  <2>3. ~(i < j) /\ ~(j < i)
    BY <1>1, <2>1, <2>2
  <2>4. QED
    BY <2>3
<1>3. QED
  BY <1>1, <1>2 DEF IsTaken

(* What the permutations of all subsets are. *)
IsChoice(p, models, limit, permanent) ==
  /\ p \in Seq(1 .. Len(models)) /\ p # <<>>
  /\ limit # 0 => Len(p) <= limit
  /\ NotTooOften(p, models) /\ OfKind(p, models, permanent)

(* The permutations visited from one subset are lists of that kind. *)
LEMMA PermutationIsChoice ==
  ASSUME NEW models \in Seq(IdModel), NEW permanent \in BOOLEAN, NEW limit \in Nat,
         NEW s, IsSubset(s, models, limit, permanent), NEW p, p \in PermutationsFrom(s)
  PROVE  IsChoice(p, models, limit, permanent)
<1> DEFINE T == 1 .. Len(models)
           n == Len(s)
           ids == Ids(models, permanent)
<1>1. /\ s \in Seq(1 .. Len(models)) /\ s # <<>>
      /\ limit # 0 => Len(s) <= limit
      /\ NotTooOften(s, models) /\ OfKind(s, models, permanent)
  BY DEF IsSubset
<1>2. n \in Nat /\ DOMAIN s = 1 .. n /\ n # 0 /\ \A i \in 1 .. n : s[i] \in T
  BY <1>1, LenProperties, EmptySeq, ElementOfSeq
<1>3. PICK f \in Bijection(DOMAIN s, DOMAIN s) : p = [i \in DOMAIN s |-> s[f[i]]]
  BY DEF PermutationsFrom, Rearrangements
<1>4. f \in [1 .. n -> 1 .. n] /\ \A i, j \in 1 .. n : f[i] = f[j] => i = j
  BY <1>2, <1>3 DEF Bijection, Injection, IsInjective
<1> HIDE DEF ids
<1>5. PICK base : IsLaidOut(ids, base, models, permanent)
  BY IdsLaidOut DEF ids
<1>6. PICK h : IsPlacement(h, s, ids)
  <2> HIDE DEF T, n
  <2>1. QED
    BY <1>1, <1>5, PlacementExists
<1>7. IsTaken(h, s, ids)
  BY <1>2, <1>6, PlacementTakes
<1>8. /\ h \in [1 .. n -> 1 .. Len(ids)]
      /\ \A i, j \in 1 .. n : h[i] = h[j] => i = j
      /\ \A i \in 1 .. n : s[i] = ids[h[i]]
  BY <1>7 DEF IsTaken
<1> HIDE DEF n
<1>9. p = [i \in 1 .. n |-> s[f[i]]]
  BY <1>2, <1>3
<1>10. p \in Seq(T) /\ Len(p) = n
  <2>1. \A i \in 1 .. n : s[f[i]] \in T
    BY <1>2, <1>4
  <2> DEFINE q == [i \in 1 .. n |-> s[f[i]]]
  <2> HIDE DEF T
  <2>2. q \in Seq(T) /\ Len(q) = n
    BY <1>2, <2>1
  <2>3. QED
    BY <1>9, <2>2
<1> DEFINE g == [i \in 1 .. n |-> h[f[i]]]
<1>11. g \in [1 .. n -> 1 .. Len(ids)] /\ \A i \in 1 .. n : g[i] = h[f[i]]
  BY <1>4, <1>8
<1> HIDE DEF g
<1>12. \A i, j \in 1 .. n : g[i] = g[j] => i = j
  <2>1. ASSUME NEW i \in 1 .. n, NEW j \in 1 .. n, g[i] = g[j] PROVE i = j
    <3>1. f[i] \in 1 .. n /\ f[j] \in 1 .. n /\ h[f[i]] = h[f[j]]
      BY <1>4, <1>11, <2>1
    <3>2. f[i] = f[j]
      BY <1>8, <3>1
    <3>3. QED
      BY <1>4, <3>2
  <2>2. QED
    BY <2>1
<1>13. \A i \in 1 .. n : p[i] = ids[g[i]]
  BY <1>4, <1>8, <1>9, <1>11
<1>14. IsTaken(g, p, ids)
  BY <1>10, <1>11, <1>12, <1>13 DEF IsTaken
<1>15. NotTooOften(p, models) /\ OfKind(p, models, permanent)
  <2>1. p \in Seq(1 .. Len(models))
    BY <1>10
  <2> HIDE DEF T
  <2>2. QED
    BY <1>5, <1>14, <2>1, TakenFromPlaces
<1>16. p # <<>>
  BY <1>2, <1>10
<1>17. QED
  BY <1>1, <1>10, <1>15, <1>16 DEF IsChoice, n, T

(* Every list of transient models is visited from its sorted form. *)
LEMMA ChoiceIsPermutation ==
  ASSUME NEW models \in Seq(IdModel), NEW permanent \in BOOLEAN, NEW limit \in Nat,
         NEW p, IsChoice(p, models, limit, permanent)
  PROVE  \E s \in Subsets(Ids(models, permanent), limit) : p \in PermutationsFrom(s)
<1> DEFINE T == 1 .. Len(models)
           n == Len(p)
           ids == Ids(models, permanent)
<1>1. /\ p \in Seq(1 .. Len(models)) /\ p # <<>>
      /\ limit # 0 => Len(p) <= limit
      /\ NotTooOften(p, models) /\ OfKind(p, models, permanent)
  BY DEF IsChoice
<1>2. n \in Nat /\ DOMAIN p = 1 .. n /\ n # 0 /\ \A i \in 1 .. n : p[i] \in T
  BY <1>1, LenProperties, EmptySeq, ElementOfSeq
<1> HIDE DEF ids
<1>3. PICK base : IsLaidOut(ids, base, models, permanent)
  BY IdsLaidOut DEF ids
<1>4. PICK h : IsPlacement(h, p, ids)
  <2> HIDE DEF T, n
  <2>1. QED
    BY <1>1, <1>3, PlacementExists
<1>5. IsTaken(h, p, ids)
  BY <1>2, <1>4, PlacementTakes
<1>6. /\ h \in [1 .. n -> 1 .. Len(ids)]
      /\ \A i, j \in 1 .. n : h[i] = h[j] => i = j
      /\ \A i \in 1 .. n : p[i] = ids[h[i]]
  BY <1>5 DEF IsTaken
<1>7. ids \in Seq(T) /\ Len(ids) \in Nat
  BY <1>3, LenProperties DEF IsLaidOut
<1> HIDE DEF n, T
<1> DEFINE D == {h[i] : i \in 1 .. n}
<1>8. D \in SUBSET (1 .. Len(ids)) /\ (\A i \in 1 .. n : h[i] \in D) /\ \A x \in D : \E i \in 1 .. n : h[i] = x
  BY <1>6
<1> HIDE DEF D
<1>9. Cardinality(D) = n
  <2>1. IsFiniteSet(1 .. n) /\ Cardinality(1 .. n) = n
    BY <1>2, FS_Interval
  <2>2. h \in [1 .. n -> D]
    BY <1>6, <1>8
  <2>3. h \in Surjection(1 .. n, D) /\ h \in Injection(1 .. n, D)
    BY <1>6, <1>8, <2>2 DEF Surjection, Injection, IsInjective
  <2>4. Cardinality(D) = Cardinality(1 .. n) <=> h \in Injection(1 .. n, D)
    BY <2>1, <2>3, FS_Surjection
  <2>5. QED
    BY <2>1, <2>3, <2>4
<1>10. PICK e : Enumerates(e, n, D, Ascending(D))
  BY <1>7, <1>8, <1>9, PlacesListed
<1>11. /\ e \in [1 .. n -> D]
       /\ \A x \in D : \E k \in 1 .. n : e[k] = x
       /\ \A j, k \in 1 .. n : j < k => e[j] < e[k]
  BY <1>10 DEF Enumerates, Ascending
<1>12. \A j, k \in 1 .. n : e[j] = e[k] => j = k
  <2>1. TAKE j, k \in 1 .. n
  <2>2. e[j] \in 1 .. Len(ids) /\ e[k] \in 1 .. Len(ids)
    BY <1>8, <1>11
  <2>3. QED
    BY <1>2, <1>7, <1>11, <2>2
<1> DEFINE s == ElementsAt(ids, D)
<1>13. /\ s \in Seq(T) /\ Len(s) = n
       /\ \A k \in 1 .. n : s[k] = ids[e[k]]
       /\ Embeds(e, s, ids)
  BY <1>7, <1>8, <1>10, ElementsAtListed
<1> HIDE DEF s
<1>14. s \in Subsequences(ids) /\ n <= Len(ids)
  BY <1>7, <1>13, SubsequenceIs
<1>15. s \in Subsets(ids, limit)
  <2>1. n \in 1 .. Bound(ids, limit)
    BY <1>1, <1>2, <1>7, <1>14 DEF Bound, n
  <2>2. QED
    BY <1>13, <1>14, <2>1 DEF Subsets
<1>16. Nondecreasing(s)
  BY <1>15, SubsetsAre DEF ids, IsSubset
<1> DEFINE f == [i \in 1 .. n |-> CHOOSE k \in 1 .. n : e[k] = h[i]]
<1>17. f \in [1 .. n -> 1 .. n] /\ \A i \in 1 .. n : e[f[i]] = h[i]
  BY <1>8, <1>11
<1> HIDE DEF f
<1>18. \A i, j \in 1 .. n : f[i] = f[j] => i = j
  BY <1>6, <1>17
<1>19. \A k \in 1 .. n : \E i \in 1 .. n : f[i] = k
  <2>1. TAKE k \in 1 .. n
  <2>2. PICK i \in 1 .. n : h[i] = e[k]
    BY <1>8, <1>11
  <2>3. f[i] = k
    BY <1>12, <1>17, <2>2
  <2>4. QED
    BY <2>3
<1>20. \A i \in 1 .. n : p[i] = s[f[i]]
  <2>1. ASSUME NEW i \in 1 .. n PROVE p[i] = s[f[i]]
    <3>1. f[i] \in 1 .. n /\ e[f[i]] = h[i]
      BY <1>17
    <3>2. s[f[i]] = ids[e[f[i]]]
      BY <1>13, <3>1
    <3>3. QED
      BY <1>6, <3>1, <3>2
  <2>2. QED
    BY <2>1
<1>21. DOMAIN s = 1 .. n
  BY <1>13, LenProperties
<1>22. f \in Bijection(DOMAIN s, DOMAIN s)
  BY <1>17, <1>18, <1>19, <1>21 DEF Bijection, Injection, Surjection, IsInjective
<1>23. p = [i \in DOMAIN s |-> s[f[i]]]
  <2>1. p = [i \in 1 .. n |-> p[i]]
    BY <1>1, <1>2
  <2>2. QED
    BY <1>20, <1>21, <2>1
<1>24. p = s \/ VectorLess(s, p)
  <2>1. s \in Seq(Nat) /\ p \in Seq(Nat)
    <3>1. T \subseteq Nat
      BY DEF T
    <3>2. s \in Seq(T) /\ p \in Seq(T)
      BY <1>1, <1>13 DEF T
    <3>3. QED
      BY <3>1, <3>2, SeqWiden
  <2>2. \A i, j \in 1 .. Len(s) : i < j => s[i] <= s[j]
    BY <1>13, <1>16, <1>21 DEF Nondecreasing
  <2>3. Len(p) = Len(s)
    BY <1>13 DEF n
  <2>4. f \in [1 .. Len(s) -> 1 .. Len(s)] /\ \A i, j \in 1 .. Len(s) : f[i] = f[j] => i = j
    BY <1>13, <1>17, <1>18
  <2>5. \A i \in 1 .. Len(s) : p[i] = s[f[i]]
    BY <1>13, <1>20
  <2>6. QED
    BY <2>1, <2>2, <2>3, <2>4, <2>5, SortedLeast
<1>25. p \in PermutationsFrom(s)
  BY <1>22, <1>23, <1>24 DEF PermutationsFrom, Rearrangements
<1>26. QED
  BY <1>15, <1>25 DEF ids

(* Numbers of occurrences. *)
LEMMA OccurrencesFinite ==
  ASSUME NEW T, NEW list \in Seq(T), NEW m
  PROVE  /\ \A i : i \in Occurrences(list, m) <=> i \in 1 .. Len(list) /\ list[i] = m
         /\ IsFiniteSet(Occurrences(list, m)) /\ Cardinality(Occurrences(list, m)) \in Nat
<1>1. Len(list) \in Nat /\ DOMAIN list = 1 .. Len(list)
  BY LenProperties
<1>2. Occurrences(list, m) \in SUBSET (1 .. Len(list))
      /\ \A i : i \in Occurrences(list, m) <=> i \in 1 .. Len(list) /\ list[i] = m
  BY <1>1 DEF Occurrences
<1>3. IsFiniteSet(1 .. Len(list))
  BY <1>1, FS_Interval
<1>4. QED
  BY <1>2, <1>3, FS_Subset, FS_CardinalityType

(* An injection of occurrences compares their numbers. *)
LEMMA OccurrencesFewer ==
  ASSUME NEW T, NEW list \in Seq(T), NEW other \in Seq(T), NEW m,
         NEW g \in [Occurrences(list, m) -> Occurrences(other, m)],
         \A i, j \in Occurrences(list, m) : g[i] = g[j] => i = j
  PROVE  Cardinality(Occurrences(list, m)) <= Cardinality(Occurrences(other, m))
<1> DEFINE A == Occurrences(list, m)
           B == Occurrences(other, m)
<1>1. IsFiniteSet(B)
  BY OccurrencesFinite
<1>2. g \in Injection(A, B)
  BY DEF Injection, IsInjective
<1> HIDE DEF A, B
<1>3. Cardinality(A) <= Cardinality(B)
  BY <1>1, <1>2, FS_Injection
<1>4. QED
  BY <1>3 DEF A, B

(* What is taken from a list that is not too long is not too long. *)
LEMMA TakenNotTooOften ==
  ASSUME NEW models \in Seq(IdModel), NEW list \in Seq(1 .. Len(models)),
         NEW other \in Seq(1 .. Len(models)), NotTooOften(other, models), NEW f, IsTaken(f, list, other)
  PROVE  NotTooOften(list, models)
<1> DEFINE T == 1 .. Len(models)
<1>1. /\ f \in [1 .. Len(list) -> 1 .. Len(other)]
      /\ \A i, j \in 1 .. Len(list) : f[i] = f[j] => i = j
      /\ \A i \in 1 .. Len(list) : list[i] = other[f[i]]
  BY DEF IsTaken
<1>2. DOMAIN models = T
  BY LenProperties
<1>3. list \in Seq(T) /\ other \in Seq(T)
  OBVIOUS
<1>4. ASSUME NEW m \in T PROVE Cardinality(Occurrences(list, m)) <= models[m].amount
  <2> DEFINE A == Occurrences(list, m)
             B == Occurrences(other, m)
             g == [i \in A |-> f[i]]
  <2> HIDE DEF T
  <2>1. \A i : i \in A <=> i \in 1 .. Len(list) /\ list[i] = m
    BY <1>3, OccurrencesFinite
  <2>2. \A i : i \in B <=> i \in 1 .. Len(other) /\ other[i] = m
    BY <1>3, OccurrencesFinite
  <2>3. Cardinality(A) \in Nat /\ Cardinality(B) \in Nat
    BY <1>3, OccurrencesFinite
  <2> HIDE DEF A, B
  <2>4. \A i \in A : f[i] \in B
    BY <1>1, <2>1, <2>2
  <2>5. g \in [A -> B] /\ \A i \in A : g[i] = f[i]
    BY <2>4
  <2> HIDE DEF g
  <2>6. \A i, j \in A : g[i] = g[j] => i = j
    BY <1>1, <2>1, <2>5
  <2>7. Cardinality(A) <= Cardinality(B)
    BY <1>3, <2>5, <2>6, OccurrencesFewer DEF A, B
  <2>8. Cardinality(B) <= models[m].amount
    BY <1>2 DEF NotTooOften, B
  <2>9. models[m] \in IdModel
    BY ElementOfSeq DEF T
  <2>10. models[m].amount \in Nat
    BY <2>9 DEF IdModel
  <2>11. QED
    BY <2>3, <2>7, <2>8, <2>10 DEF A
<1>5. QED
  BY <1>2, <1>4 DEF NotTooOften

(* Permanent models first, and these in one order. *)
IsWanted(list, models, limit) ==
  /\ list \in Seq(1 .. Len(models)) /\ list # <<>>
  /\ limit # 0 => Len(list) <= limit
  /\ NotTooOften(list, models)
  /\ \A i, j \in DOMAIN list :
       i < j /\ models[list[j]].permanent => models[list[i]].permanent /\ list[i] <= list[j]

(* Permanent models in front of transient ones. *)
LEMMA MixedIsWanted ==
  ASSUME NEW models \in Seq(IdModel), NEW limit \in Nat,
         NEW a, IsSubset(a, models, limit, TRUE), NEW b, IsChoice(b, models, limit, FALSE),
         limit = 0 \/ Len(a) + Len(b) <= limit
  PROVE  IsWanted(a \o b, models, limit)
<1> DEFINE T == 1 .. Len(models)
           m == Len(a)
           n == Len(b)
           list == a \o b
<1>1. /\ a \in Seq(T) /\ a # <<>>
      /\ NotTooOften(a, models) /\ OfKind(a, models, TRUE) /\ Nondecreasing(a)
  BY DEF IsSubset
<1>2. /\ b \in Seq(T) /\ b # <<>>
      /\ NotTooOften(b, models) /\ OfKind(b, models, FALSE)
  BY DEF IsChoice
<1>3. /\ m \in Nat /\ n \in Nat /\ m # 0 /\ DOMAIN a = 1 .. m /\ DOMAIN b = 1 .. n
      /\ (\A i \in 1 .. m : a[i] \in T) /\ (\A i \in 1 .. n : b[i] \in T)
  BY <1>1, <1>2, LenProperties, EmptySeq, ElementOfSeq
<1> HIDE DEF T
<1>4. /\ list \in Seq(T) /\ Len(list) = m + n
      /\ \A i \in 1 .. m + n : list[i] = IF i <= m THEN a[i] ELSE b[i - m]
  BY <1>1, <1>2, ConcatProperties
<1>5. DOMAIN list = 1 .. m + n
  BY <1>4, LenProperties
<1> HIDE DEF list, m, n
<1>6. ASSUME NEW i \in 1 .. m + n
      PROVE  \/ i \in 1 .. m /\ list[i] = a[i] /\ models[list[i]].permanent = TRUE
             \/ i > m /\ i - m \in 1 .. n /\ list[i] = b[i - m] /\ models[list[i]].permanent = FALSE
  <2>1. CASE i <= m
    <3>1. i \in 1 .. m /\ list[i] = a[i]
      BY <1>3, <1>4, <2>1
    <3>2. models[a[i]].permanent = TRUE
      BY <1>1, <1>3, <3>1 DEF OfKind
    <3>3. QED
      BY <3>1, <3>2
  <2>2. CASE i > m
    <3>1. i - m \in 1 .. n /\ list[i] = b[i - m]
      BY <1>3, <1>4, <2>2
    <3>2. models[b[i - m]].permanent = FALSE
      BY <1>2, <1>3, <3>1 DEF OfKind
    <3>3. QED
      BY <2>2, <3>1, <3>2
  <2>3. i <= m \/ i > m
    BY <1>3
  <2>4. QED
    BY <2>1, <2>2, <2>3
<1>7. ASSUME NEW x \in T PROVE Cardinality(Occurrences(list, x)) <= models[x].amount
  <2> DEFINE A == Occurrences(a, x)
             B == Occurrences(b, x)
             L == Occurrences(list, x)
  <2>1. (\A i : i \in A <=> i \in 1 .. m /\ a[i] = x) /\ Cardinality(A) \in Nat
    BY <1>1, OccurrencesFinite DEF m
  <2>2. (\A i : i \in B <=> i \in 1 .. n /\ b[i] = x) /\ Cardinality(B) \in Nat
    BY <1>2, OccurrencesFinite DEF n
  <2>3. (\A i : i \in L <=> i \in 1 .. m + n /\ list[i] = x) /\ Cardinality(L) \in Nat
    BY <1>4, OccurrencesFinite
  <2>4. Cardinality(A) <= models[x].amount /\ Cardinality(B) <= models[x].amount
    <3>1. x \in DOMAIN models
      BY LenProperties DEF T
    <3>2. QED
      BY <1>1, <1>2, <3>1 DEF NotTooOften
  <2>5. models[x].amount \in Nat
    <3>1. models[x] \in IdModel
      BY ElementOfSeq DEF T
    <3>2. QED
      BY <3>1 DEF IdModel
  <2> HIDE DEF A, B, L
  <2>6. CASE models[x].permanent = TRUE
    <3> DEFINE g == [i \in L |-> i]
    <3>1. \A i \in L : i \in A
      BY <1>6, <2>1, <2>3, <2>6
    <3>2. g \in [L -> A] /\ \A i, j \in L : g[i] = g[j] => i = j
      BY <3>1
    <3> HIDE DEF g
    <3>3. Cardinality(L) <= Cardinality(A)
      BY <1>1, <1>4, <3>2, OccurrencesFewer DEF A, L
    <3>4. QED
      BY <2>1, <2>3, <2>4, <2>5, <3>3 DEF L
  <2>7. CASE models[x].permanent # TRUE
    <3> DEFINE g == [i \in L |-> i - m]
    <3>1. \A i \in L : i - m \in B /\ i \in Int
      <4>1. TAKE i \in L
      <4>2. i \in 1 .. m + n /\ list[i] = x
        BY <2>3
      <4>3. i - m \in 1 .. n /\ b[i - m] = x
        BY <1>6, <2>7, <4>2
      <4>4. QED
        BY <2>2, <4>2, <4>3
    <3>2. g \in [L -> B] /\ \A i \in L : g[i] = i - m
      BY <3>1
    <3> HIDE DEF g
    <3>3. \A i, j \in L : g[i] = g[j] => i = j
      BY <1>3, <3>1, <3>2
    <3>4. Cardinality(L) <= Cardinality(B)
      BY <1>2, <1>4, <3>2, <3>3, OccurrencesFewer DEF B, L
    <3>5. QED
      BY <2>2, <2>3, <2>4, <2>5, <3>4 DEF L
  <2>8. QED
    BY <2>6, <2>7
<1>8. ASSUME NEW i \in 1 .. m + n, NEW j \in 1 .. m + n, i < j, models[list[j]].permanent
      PROVE  models[list[i]].permanent /\ list[i] <= list[j]
  <2>1. j \in 1 .. m /\ list[j] = a[j]
    BY <1>6, <1>8
  <2>2. i \in 1 .. m /\ list[i] = a[i] /\ models[list[i]].permanent = TRUE
    <3>1. i \in 1 .. m
      BY <1>3, <1>8, <2>1
    <3>2. ~(i > m)
      BY <1>3, <3>1
    <3>3. QED
      BY <1>6, <3>2
  <2>3. a[i] <= a[j]
    BY <1>1, <1>3, <1>8, <2>1, <2>2 DEF Nondecreasing
  <2>4. QED
    BY <2>1, <2>2, <2>3
<1>9. list # <<>> /\ (limit # 0 => Len(list) <= limit)
  <2>1. Len(list) # 0
    BY <1>3, <1>4
  <2>2. QED
    BY <1>4, <2>1 DEF m, n
<1>10. NotTooOften(list, models)
  <2>1. DOMAIN models = T
    BY LenProperties DEF T
  <2>2. QED
    BY <1>7, <2>1 DEF NotTooOften
<1>11. QED
  BY <1>4, <1>5, <1>8, <1>9, <1>10 DEF IsWanted, T, list

(* A wanted list that begins with a permanent model and has another one is  *)
(* the permanent ones, followed by the others.                              *)
LEMMA WantedSplits ==
  ASSUME NEW models \in Seq(IdModel), NEW limit \in Nat, NEW list, IsWanted(list, models, limit),
         ~OfKind(list, models, TRUE), ~OfKind(list, models, FALSE)
  PROVE  \E a, b : /\ list = a \o b
                   /\ IsSubset(a, models, limit, TRUE) /\ IsChoice(b, models, limit, FALSE)
                   /\ limit = 0 \/ Len(a) + Len(b) <= limit
<1> DEFINE T == 1 .. Len(models)
           n == Len(list)
           Others_ == {i \in Nat : i \in 1 .. n /\ models[list[i]].permanent = FALSE}
<1>1. /\ list \in Seq(T) /\ list # <<>>
      /\ limit # 0 => n <= limit
      /\ NotTooOften(list, models)
      /\ \A i, j \in DOMAIN list :
           i < j /\ models[list[j]].permanent => models[list[i]].permanent /\ list[i] <= list[j]
  BY DEF IsWanted
<1>2. n \in Nat /\ DOMAIN list = 1 .. n /\ \A i \in 1 .. n : list[i] \in T
  BY <1>1, LenProperties, ElementOfSeq
<1>3. ASSUME NEW i \in 1 .. n PROVE models[list[i]].permanent \in BOOLEAN
  <2>1. models[list[i]] \in IdModel
    BY <1>2, ElementOfSeq
  <2>2. QED
    BY <2>1 DEF IdModel
<1> HIDE DEF T, n
<1>4. Others_ # {} /\ Others_ \in SUBSET Nat
  BY <1>2, <1>3 DEF OfKind
<1>5. PICK f \in Others_ : \A i \in Others_ : f <= i
  <2> HIDE DEF Others_
  <2>1. QED
    BY <1>4, LeastElement
<1>6. f \in 1 .. n /\ models[list[f]].permanent = FALSE
  OBVIOUS
<1>7. \A i \in 1 .. n : i < f => models[list[i]].permanent = TRUE
  <2>1. ASSUME NEW i \in 1 .. n, i < f PROVE models[list[i]].permanent = TRUE
    <3>1. i \notin Others_
      BY <1>2, <1>5, <1>6, <2>1
    <3>2. i \in Nat
      BY <1>2
    <3>3. QED
      BY <1>3, <3>1, <3>2
  <2>2. QED
    BY <2>1
<1> HIDE DEF Others_
<1>8. \A i \in 1 .. n : i > f => models[list[i]].permanent = FALSE
  <2>1. ASSUME NEW i \in 1 .. n, i > f PROVE models[list[i]].permanent = FALSE
    <3>1. ~models[list[i]].permanent
      BY <1>1, <1>2, <1>6, <2>1
    <3>2. QED
      BY <1>3, <3>1
  <2>2. QED
    BY <2>1
<1>9. f # 1
  <2>1. f = 1 => \A i \in 1 .. n : models[list[i]].permanent = FALSE
    BY <1>2, <1>6, <1>8
  <2>2. QED
    BY <1>2, <2>1 DEF OfKind
<1> DEFINE k == f - 1
           a == SubSeq(list, 1, k)
           b == SubSeq(list, f, n)
<1>10. k \in 1 .. n /\ k \in Nat /\ f = k + 1 /\ f \in Nat /\ k < f
  BY <1>2, <1>6, <1>9
<1>11. a \in Seq(T) /\ Len(a) = k /\ \A i \in 1 .. k : a[i] = list[i]
  <2>1. \A i \in 1 .. k : list[i] \in T
    BY <1>2, <1>10
  <2> HIDE DEF k
  <2>2. 1 \in Int /\ k \in Int
    BY <1>10
  <2>3. /\ SubSeq(list, 1, k) \in Seq(T)
        /\ Len(SubSeq(list, 1, k)) = (IF 1 <= k THEN k - 1 + 1 ELSE 0)
        /\ \A i \in 1 .. k - 1 + 1 : SubSeq(list, 1, k)[i] = list[1 + i - 1]
    BY <2>1, <2>2, SubSeqProperties
  <2>4. QED
    BY <1>10, <2>3
<1>12. b \in Seq(T) /\ Len(b) = n - k /\ \A i \in 1 .. n - k : b[i] = list[k + i]
  <2>1. \A i \in f .. n : list[i] \in T
    BY <1>2, <1>6
  <2>2. f \in Int /\ n \in Int
    BY <1>2, <1>10
  <2>3. /\ SubSeq(list, f, n) \in Seq(T)
        /\ Len(SubSeq(list, f, n)) = (IF f <= n THEN n - f + 1 ELSE 0)
        /\ \A i \in 1 .. n - f + 1 : SubSeq(list, f, n)[i] = list[f + i - 1]
    BY <2>1, <2>2, SubSeqProperties
  <2> HIDE DEF k
  <2>4. n - f + 1 = n - k /\ f <= n
    BY <1>2, <1>6, <1>10
  <2>5. ASSUME NEW i \in 1 .. n - k PROVE f + i - 1 = k + i
    BY <1>2, <1>10
  <2>6. QED
    BY <2>3, <2>4, <2>5
<1> HIDE DEF k, a, b
<1>13. DOMAIN a = 1 .. k /\ DOMAIN b = 1 .. n - k /\ n - k \in Nat /\ n - k # 0
  <2>1. DOMAIN a = 1 .. k /\ DOMAIN b = 1 .. n - k
    BY <1>11, <1>12, LenProperties
  <2>2. n - k \in Nat /\ n - k # 0
    BY <1>2, <1>6, <1>10
  <2>3. QED
    BY <2>1, <2>2
<1>14. list = a \o b
  <2> DEFINE u == a \o b
  <2>1. /\ u \in Seq(T) /\ Len(u) = Len(a) + Len(b)
        /\ \A i \in 1 .. Len(a) + Len(b) : u[i] = IF i <= Len(a) THEN a[i] ELSE b[i - Len(a)]
    BY <1>11, <1>12, ConcatProperties
  <2> HIDE DEF u
  <2>2. Len(u) = n /\ \A i \in 1 .. n : u[i] = IF i <= k THEN a[i] ELSE b[i - k]
    <3>1. Len(a) + Len(b) = n
      BY <1>2, <1>10, <1>11, <1>12
    <3>2. QED
      BY <1>11, <2>1, <3>1
  <2>3. ASSUME NEW i \in 1 .. n PROVE u[i] = list[i]
    <3>1. CASE i <= k
      BY <1>2, <1>11, <2>2, <3>1
    <3>2. CASE i > k
      <4>1. i - k \in 1 .. n - k /\ k + (i - k) = i /\ ~(i <= k)
        BY <1>2, <1>10, <3>2
      <4>2. u[i] = b[i - k]
        BY <2>2, <4>1
      <4>3. b[i - k] = list[k + (i - k)]
        BY <1>12, <4>1
      <4>4. QED
        BY <4>1, <4>2, <4>3
    <3>3. QED
      BY <1>2, <1>10, <3>1, <3>2
  <2>4. Len(list) = Len(u) /\ \A i \in 1 .. Len(list) : list[i] = u[i]
    BY <2>2, <2>3 DEF n
  <2>5. list = u
    BY <1>1, <2>1, <2>4, SeqEqual
  <2>6. QED
    BY <2>5 DEF u
<1>15. NotTooOften(a, models)
  <2> DEFINE g == [i \in 1 .. k |-> i]
  <2>1. \A i \in 1 .. k : i \in 1 .. Len(list) /\ g[i] = i /\ a[i] = list[g[i]]
    BY <1>2, <1>10, <1>11 DEF n
  <2>2. g \in [1 .. Len(a) -> 1 .. Len(list)]
    BY <1>11, <2>1
  <2> HIDE DEF g
  <2>3. IsTaken(g, a, list)
    BY <1>11, <2>1, <2>2 DEF IsTaken
  <2>4. a \in Seq(1 .. Len(models)) /\ list \in Seq(1 .. Len(models))
    BY <1>1, <1>11 DEF T
  <2>5. QED
    BY <1>1, <2>3, <2>4, TakenNotTooOften
<1>16. NotTooOften(b, models)
  <2> DEFINE g == [i \in 1 .. n - k |-> k + i]
  <2>1. \A i \in 1 .. n - k : k + i \in 1 .. Len(list) /\ g[i] = k + i /\ b[i] = list[g[i]]
    <3>1. TAKE i \in 1 .. n - k
    <3>2. k + i \in 1 .. n
      BY <1>2, <1>10
    <3>3. QED
      BY <1>12, <3>2 DEF n
  <2>2. g \in [1 .. Len(b) -> 1 .. Len(list)]
    BY <1>12, <2>1
  <2> HIDE DEF g
  <2>3. \A i, j \in 1 .. n - k : g[i] = g[j] => i = j
    BY <1>10, <1>13, <2>1
  <2>4. IsTaken(g, b, list)
    BY <1>12, <2>1, <2>2, <2>3 DEF IsTaken
  <2>5. b \in Seq(1 .. Len(models)) /\ list \in Seq(1 .. Len(models))
    BY <1>1, <1>12 DEF T
  <2>6. QED
    BY <1>1, <2>4, <2>5, TakenNotTooOften
<1>17. ASSUME NEW i \in 1 .. k PROVE i \in 1 .. n /\ i < f
  BY <1>2, <1>10
<1>18. OfKind(a, models, TRUE)
  BY <1>7, <1>11, <1>13, <1>17 DEF OfKind
<1>19. Nondecreasing(a)
  <2>1. ASSUME NEW i \in 1 .. k, NEW j \in 1 .. k, i < j PROVE a[i] <= a[j]
    <3>1. i \in 1 .. n /\ j \in 1 .. n /\ models[list[j]].permanent
      BY <1>7, <1>17
    <3>2. list[i] <= list[j]
      BY <1>1, <1>2, <2>1, <3>1
    <3>3. QED
      BY <1>11, <3>2
  <2>2. QED
    BY <1>13, <2>1 DEF Nondecreasing
<1>20. OfKind(b, models, FALSE)
  <2>1. ASSUME NEW i \in 1 .. n - k PROVE models[b[i]].permanent = FALSE
    <3>1. k + i \in 1 .. n /\ (k + i = f \/ k + i > f)
      BY <1>2, <1>10
    <3>2. models[list[k + i]].permanent = FALSE
      BY <1>6, <1>8, <3>1
    <3>3. QED
      BY <1>12, <3>2
  <2>2. QED
    BY <1>13, <2>1 DEF OfKind
<1>21. a # <<>> /\ b # <<>>
  <2>1. Len(a) # 0 /\ Len(b) # 0
    BY <1>10, <1>11, <1>12, <1>13
  <2>2. QED
    BY <2>1
<1>22. (limit # 0 => Len(a) <= limit /\ Len(b) <= limit) /\ (limit = 0 \/ Len(a) + Len(b) <= limit)
  BY <1>1, <1>2, <1>10, <1>11, <1>12
<1>23. IsSubset(a, models, limit, TRUE)
  BY <1>11, <1>15, <1>18, <1>19, <1>21, <1>22 DEF IsSubset, T
<1>24. IsChoice(b, models, limit, FALSE)
  BY <1>12, <1>16, <1>20, <1>21, <1>22 DEF IsChoice, T
<1>25. QED
  BY <1>14, <1>22, <1>23, <1>24

(* Lists of one kind. *)
LEMMA PermanentIsWanted ==
  ASSUME NEW models \in Seq(IdModel), NEW limit \in Nat, NEW list
  PROVE  IsSubset(list, models, limit, TRUE)
           <=> IsWanted(list, models, limit) /\ OfKind(list, models, TRUE)
  BY DEF IsSubset, IsWanted, OfKind, Nondecreasing

(* The wanted lists of transient models only. *)
LEMMA TransientIsWanted ==
  ASSUME NEW models \in Seq(IdModel), NEW limit \in Nat, NEW list
  PROVE  IsChoice(list, models, limit, FALSE)
           <=> IsWanted(list, models, limit) /\ OfKind(list, models, FALSE)
  BY DEF IsChoice, IsWanted, OfKind

(* The lists of models to inject are the wanted ones. *)
LEMMA AllPermutationsAre ==
  ASSUME NEW models \in Seq(IdModel), NEW limit \in Nat, NEW list
  PROVE  list \in AllPermutations(models, limit) <=> IsWanted(list, models, limit)
<1> DEFINE permanent == Subsets(Ids(models, TRUE), limit)
           subsets == Subsets(Ids(models, FALSE), limit)
           other == UNION {PermutationsFrom(s) : s \in subsets}
           mixed == {x \in permanent \X other : limit = 0 \/ Len(x[1]) + Len(x[2]) <= limit}
<1>1. AllPermutations(models, limit) = permanent \cup other \cup {x[1] \o x[2] : x \in mixed}
  BY DEF AllPermutations
<1>2. \A a : a \in permanent <=> IsSubset(a, models, limit, TRUE)
  BY SubsetsAre
<1>3. \A s : s \in subsets <=> IsSubset(s, models, limit, FALSE)
  BY SubsetsAre
<1> HIDE DEF permanent
<1>4. ASSUME NEW b PROVE b \in other <=> IsChoice(b, models, limit, FALSE)
  <2>1. ASSUME b \in other PROVE IsChoice(b, models, limit, FALSE)
    <3>1. PICK s \in subsets : b \in PermutationsFrom(s)
      BY <2>1
    <3>2. IsSubset(s, models, limit, FALSE)
      BY <1>3, <3>1
    <3>3. QED
      BY <3>1, <3>2, PermutationIsChoice
  <2>2. ASSUME IsChoice(b, models, limit, FALSE) PROVE b \in other
    <3>1. \E s \in subsets : b \in PermutationsFrom(s)
      BY <2>2, ChoiceIsPermutation
    <3> HIDE DEF subsets
    <3>2. QED
      BY <3>1
  <2>3. QED
    BY <2>1, <2>2
<1> HIDE DEF other
<1>5. ASSUME list \in {x[1] \o x[2] : x \in mixed} PROVE IsWanted(list, models, limit)
  <2>1. PICK x \in mixed : list = x[1] \o x[2]
    BY <1>5
  <2>2. x[1] \in permanent /\ x[2] \in other /\ (limit = 0 \/ Len(x[1]) + Len(x[2]) <= limit)
    OBVIOUS
  <2>3. IsSubset(x[1], models, limit, TRUE) /\ IsChoice(x[2], models, limit, FALSE)
    BY <1>2, <1>4, <2>2
  <2> DEFINE a == x[1]
             b == x[2]
  <2>4. /\ IsSubset(a, models, limit, TRUE) /\ IsChoice(b, models, limit, FALSE) /\ list = a \o b
        /\ limit = 0 \/ Len(a) + Len(b) <= limit
    BY <2>1, <2>2, <2>3
  <2> HIDE DEF a, b
  <2>5. QED
    BY <2>4, MixedIsWanted
<1>6. ASSUME IsWanted(list, models, limit), ~OfKind(list, models, TRUE), ~OfKind(list, models, FALSE)
      PROVE  list \in {x[1] \o x[2] : x \in mixed}
  <2>1. PICK a, b : /\ list = a \o b
                    /\ IsSubset(a, models, limit, TRUE) /\ IsChoice(b, models, limit, FALSE)
                    /\ limit = 0 \/ Len(a) + Len(b) <= limit
    BY <1>6, WantedSplits
  <2>2. a \in permanent /\ b \in other
    BY <1>2, <1>4, <2>1
  <2>3. <<a, b>> \in mixed
    BY <2>1, <2>2
  <2>4. list = <<a, b>>[1] \o <<a, b>>[2]
    BY <2>1
  <2> HIDE DEF mixed
  <2>5. QED
    BY <2>3, <2>4
<1> HIDE DEF mixed
<1>7. list \in permanent <=> IsWanted(list, models, limit) /\ OfKind(list, models, TRUE)
  BY <1>2, PermanentIsWanted
<1>8. list \in other <=> IsWanted(list, models, limit) /\ OfKind(list, models, FALSE)
  BY <1>4, TransientIsWanted
<1>9. QED
  BY <1>1, <1>5, <1>6, <1>7, <1>8

-----------------------------------------------------------------------------
(* The lists are finitely many *)

(* The sequences of up to k elements. *)
ShortLists(S, k) == {s \in Seq(S) : Len(s) <= k}

(* There are finitely many of them. *)
LEMMA ShortListsFinite ==
  ASSUME NEW S, IsFiniteSet(S), NEW K \in Nat
  PROVE  IsFiniteSet(ShortLists(S, K))
<1> DEFINE P == {k \in Nat : IsFiniteSet(ShortLists(S, k))}
<1>1. 0 \in P
  <2>1. ASSUME NEW s \in ShortLists(S, 0) PROVE s \in {<<>>}
    <3>1. s \in Seq(S) /\ Len(s) <= 0
      BY DEF ShortLists
    <3>2. Len(s) \in Nat
      BY <3>1, LenProperties
    <3>3. s = <<>>
      BY <3>1, <3>2, EmptySeq
    <3>4. QED
      BY <3>3
  <2>2. ShortLists(S, 0) \in SUBSET {<<>>}
    BY <2>1
  <2>3. IsFiniteSet({<<>>})
    BY FS_Singleton
  <2>4. QED
    BY <2>2, <2>3, FS_Subset
<1>2. ASSUME NEW k \in P PROVE k + 1 \in P
  <2> DEFINE A == ShortLists(S, k)
             B == ShortLists(S, k + 1)
             C == A \X S
             f == [x \in C |-> Append(x[1], x[2])]
             D == {f[x] : x \in C}
  <2>1. k \in Nat /\ IsFiniteSet(A)
    OBVIOUS
  <2>2. \A s : s \in A <=> s \in Seq(S) /\ Len(s) <= k
    BY DEF ShortLists
  <2>3. \A s : s \in B <=> s \in Seq(S) /\ Len(s) <= k + 1
    BY DEF ShortLists
  <2> HIDE DEF A, B, P
  <2>4. IsFiniteSet(C)
    BY <2>1, FS_Product
  <2>5. \A s \in A : \A x \in S : f[<<s, x>>] = Append(s, x) /\ <<s, x>> \in C
    OBVIOUS
  <2>6. f \in [C -> D]
    OBVIOUS
  <2>7. \A y \in D : \E x \in C : f[x] = y
    OBVIOUS
  <2>8. \A x \in C : f[x] \in D
    OBVIOUS
  <2> HIDE DEF C, f, D
  <2>9. f \in Surjection(C, D)
    BY <2>6, <2>7 DEF Surjection
  <2>10. IsFiniteSet(D)
    BY <2>4, <2>9, FS_Surjection
  <2>11. ASSUME NEW s \in B PROVE s \in A \cup D
    <3>1. s \in Seq(S) /\ Len(s) <= k + 1 /\ Len(s) \in Nat
      BY <2>3, LenProperties
    <3>2. CASE Len(s) <= k
      BY <2>2, <3>1, <3>2
    <3>3. CASE Len(s) = k + 1
      <4> DEFINE u == SubSeq(s, 1, k)
                 x == s[k + 1]
      <4>1. x \in S /\ \A i \in 1 .. k : s[i] \in S
        BY <2>1, <3>1, <3>3, ElementOfSeq
      <4>2. u \in Seq(S) /\ Len(u) = k /\ \A i \in 1 .. k : u[i] = s[i]
        <5>1. 1 \in Int /\ k \in Int
          BY <2>1
        <5>2. /\ SubSeq(s, 1, k) \in Seq(S)
              /\ Len(SubSeq(s, 1, k)) = (IF 1 <= k THEN k - 1 + 1 ELSE 0)
              /\ \A i \in 1 .. k - 1 + 1 : SubSeq(s, 1, k)[i] = s[1 + i - 1]
          BY <4>1, <5>1, SubSeqProperties
        <5>3. QED
          BY <2>1, <5>2
      <4> HIDE DEF u
      <4> DEFINE v == Append(u, x)
      <4>3. v \in Seq(S) /\ Len(v) = k + 1 /\ v[k + 1] = x /\ \A i \in 1 .. k : v[i] = u[i]
        BY <4>1, <4>2, AppendProperties
      <4> HIDE DEF v
      <4>4. Len(s) = Len(v) /\ \A i \in 1 .. Len(s) : s[i] = v[i]
        <5>1. \A i \in 1 .. k + 1 : i \in 1 .. k \/ i = k + 1
          BY <2>1
        <5>2. QED
          BY <3>3, <4>2, <4>3, <5>1
      <4>5. s = v
        BY <3>1, <4>3, <4>4, SeqEqual
      <4>6. u \in A
        BY <2>1, <2>2, <4>2
      <4>7. f[<<u, x>>] = v /\ <<u, x>> \in C
        BY <2>5, <4>1, <4>6 DEF v
      <4>8. v \in D
        BY <2>8, <4>7
      <4>9. QED
        BY <4>5, <4>8
    <3>4. QED
      BY <2>1, <3>1, <3>2, <3>3
  <2>12. IsFiniteSet(A \cup D)
    BY <2>1, <2>10, FS_Union
  <2>13. B \in SUBSET (A \cup D)
    BY <2>11
  <2>14. IsFiniteSet(B)
    BY <2>12, <2>13, FS_Subset
  <2>15. QED
    BY <2>1, <2>14 DEF B, P
<1>3. P = Nat
  <2>1. P \in SUBSET Nat
    OBVIOUS
  <2> HIDE DEF P
  <2>2. QED
    BY <1>1, <1>2, <2>1, NatInduct
<1>4. QED
  BY <1>3

-----------------------------------------------------------------------------
(* The sorted models are those of the caller in another order *)

(* Models in another order, each still there once. *)
IsRearranged(models, original) ==
  /\ models \in Seq(IdModel)
  /\ \A i \in 1 .. Len(models) :
       models[i].id \in 1 .. Len(original) /\ models[i] = original[models[i].id]
  /\ \A i, j \in 1 .. Len(models) : models[i].id = models[j].id => i = j

(* What is chosen from numbered models has its numbers, in order. *)
LEMMA ChosenNumbers ==
  ASSUME NEW s, Numbered(s), NEW D \in SUBSET (1 .. Len(s))
  PROVE  /\ ElementsAt(s, D) \in Seq(IdModel)
         /\ \A i \in 1 .. Len(ElementsAt(s, D)) :
              ElementsAt(s, D)[i].id \in D /\ ElementsAt(s, D)[i] = s[ElementsAt(s, D)[i].id]
         /\ \A i, j \in 1 .. Len(ElementsAt(s, D)) :
              ElementsAt(s, D)[i].id = ElementsAt(s, D)[j].id => i = j
<1> DEFINE u == ElementsAt(s, D)
           n == Cardinality(D)
<1>0. s \in Seq(IdModel) /\ Len(s) \in Nat /\ \A i \in 1 .. Len(s) : s[i].id = i
  BY LenProperties DEF Numbered
<1>1. n \in Nat
  BY <1>0, PlacesListed
<1>2. PICK h : Enumerates(h, n, D, Ascending(D))
  BY <1>0, PlacesListed
<1> HIDE DEF n
<1>3. u \in Seq(IdModel) /\ Len(u) = n /\ \A k \in 1 .. n : u[k] = s[h[k]]
  BY <1>0, <1>2, ElementsAtListed
<1> HIDE DEF u
<1>4. h \in [1 .. n -> D] /\ \A j, k \in 1 .. n : j < k => h[j] < h[k]
  BY <1>2 DEF Enumerates, Ascending
<1>5. \A k \in 1 .. n : h[k] \in 1 .. Len(s) /\ h[k] \in D
  BY <1>4
<1>6. \A k \in 1 .. n : u[k].id = h[k]
  BY <1>0, <1>3, <1>5
<1>7. \A i, j \in 1 .. n : u[i].id = u[j].id => i = j
  <2>1. ASSUME NEW i \in 1 .. n, NEW j \in 1 .. n, h[i] = h[j] PROVE i = j
    <3>1. h[i] \in Int /\ h[j] \in Int
      BY <1>5
    <3>2. ~(h[i] < h[j]) /\ ~(h[j] < h[i])
      BY <2>1, <3>1
    <3>3. QED
      BY <1>4, <3>2
  <2>2. QED
    BY <1>6, <2>1
<1>8. QED
  BY <1>3, <1>5, <1>6, <1>7 DEF u

(* The sort only rearranges the models. *)
LEMMA SortRearranges ==
  ASSUME NEW s, Numbered(s)
  PROVE  IsRearranged(StdSort(s, Before), s)
<1> DEFINE N == Len(s)
           I == Places(s, N, TRUE)
           O == Places(s, N, FALSE)
           a == ElementsAt(s, I)
           b == ElementsAt(s, O)
           m == Len(a)
           n == Len(b)
           r == a \o b
<1>1. StdSort(s, Before) = r
  BY SortedInParts
<1>2. I \in SUBSET (1 .. N) /\ O \in SUBSET (1 .. N) /\ \A d \in I : d \notin O
  BY DEF Places
<1> HIDE DEF I, O
<1>3. /\ a \in Seq(IdModel)
      /\ \A i \in 1 .. m : a[i].id \in I /\ a[i] = s[a[i].id]
      /\ \A i, j \in 1 .. m : a[i].id = a[j].id => i = j
  BY <1>2, ChosenNumbers
<1>4. /\ b \in Seq(IdModel)
      /\ \A i \in 1 .. n : b[i].id \in O /\ b[i] = s[b[i].id]
      /\ \A i, j \in 1 .. n : b[i].id = b[j].id => i = j
  BY <1>2, ChosenNumbers
<1> HIDE DEF a, b
<1>5. m \in Nat /\ n \in Nat
  BY <1>3, <1>4, LenProperties
<1>6. /\ r \in Seq(IdModel) /\ Len(r) = m + n
      /\ \A i \in 1 .. m + n : r[i] = IF i <= m THEN a[i] ELSE b[i - m]
  BY <1>3, <1>4, ConcatProperties
<1> HIDE DEF r, m, n
<1>7. ASSUME NEW i \in 1 .. m + n
      PROVE  \/ i \in 1 .. m /\ r[i] = a[i] /\ r[i].id \in I /\ r[i] = s[r[i].id]
             \/ i - m \in 1 .. n /\ r[i] = b[i - m] /\ r[i].id \in O /\ r[i] = s[r[i].id]
  <2>1. CASE i <= m
    BY <1>3, <1>5, <1>6, <2>1
  <2>2. CASE i > m
    <3>1. i - m \in 1 .. n /\ r[i] = b[i - m]
      BY <1>5, <1>6, <2>2
    <3>2. QED
      BY <1>4, <3>1
  <2>3. i <= m \/ i > m
    BY <1>5
  <2>4. QED
    BY <2>1, <2>2, <2>3
<1>8. \A i \in 1 .. m + n : r[i].id \in 1 .. N /\ r[i] = s[r[i].id]
  BY <1>2, <1>7
<1>9. ASSUME NEW i \in 1 .. m + n, NEW j \in 1 .. m + n, r[i].id = r[j].id PROVE i = j
  <2>1. CASE r[i].id \in I
    <3>1. i \in 1 .. m /\ r[i] = a[i] /\ j \in 1 .. m /\ r[j] = a[j]
      BY <1>2, <1>7, <1>9, <2>1
    <3>2. QED
      BY <1>3, <1>9, <3>1
  <2>2. CASE r[i].id \in O
    <3>1. i - m \in 1 .. n /\ r[i] = b[i - m] /\ j - m \in 1 .. n /\ r[j] = b[j - m]
      BY <1>2, <1>7, <1>9, <2>2
    <3>2. i - m = j - m
      BY <1>4, <1>9, <3>1
    <3>3. QED
      BY <1>5, <3>2
  <2>3. QED
    BY <1>7, <2>1, <2>2
<1>10. QED
  BY <1>1, <1>6, <1>8, <1>9 DEF IsRearranged

(* A list that is not too often in anything is not longer than all amounts  *)
(* together.                                                                *)
LEMMA WantedShort ==
  ASSUME NEW original \in Seq(IdModel), NEW models, IsRearranged(models, original),
         NEW list \in Seq(1 .. Len(models)), NotTooOften(list, models)
  PROVE  IsFiniteSet(Uses(original)) /\ Len(list) <= Cardinality(Uses(original))
<1> DEFINE n == Len(list)
           U == Uses(original)
           upto(i) == {k \in 1 .. i : list[k] = list[i]}
           g == [i \in 1 .. n |-> <<models[list[i]].id, Cardinality(upto(i))>>]
<1>0. n \in Nat /\ Len(original) \in Nat /\ DOMAIN list = 1 .. n /\ DOMAIN original = 1 .. Len(original)
      /\ DOMAIN models = 1 .. Len(models) /\ \A i \in 1 .. n : list[i] \in 1 .. Len(models)
  BY LenProperties, ElementOfSeq DEF IsRearranged
<1>1. /\ \A i \in 1 .. Len(models) :
           models[i].id \in 1 .. Len(original) /\ models[i] = original[models[i].id]
      /\ \A i, j \in 1 .. Len(models) : models[i].id = models[j].id => i = j
  BY DEF IsRearranged
<1>2. MaxAmount \in Nat
  BY BoundAssumption
<1>3. \A m \in 1 .. Len(original) : original[m].amount \in 0 .. MaxAmount
  <2>1. TAKE m \in 1 .. Len(original)
  <2>2. original[m] \in IdModel
    BY ElementOfSeq
  <2>3. QED
    BY <2>2 DEF IdModel
<1>4. IsFiniteSet(U)
  <2>1. IsFiniteSet((1 .. Len(original)) \X (1 .. MaxAmount))
    <3> DEFINE A == 1 .. Len(original)
               B == 1 .. MaxAmount
    <3>1. IsFiniteSet(A)
      BY <1>0, FS_Interval
    <3>2. IsFiniteSet(B)
      BY <1>2, FS_Interval
    <3> HIDE DEF A, B
    <3>3. IsFiniteSet(A \X B)
      BY <3>1, <3>2, FS_Product
    <3>4. QED
      BY <3>3 DEF A, B
  <2>2. U \in SUBSET ((1 .. Len(original)) \X (1 .. MaxAmount))
    BY <1>0 DEF Uses
  <2> HIDE DEF U
  <2>3. QED
    BY <2>1, <2>2, FS_Subset
<1>5. \A m \in 1 .. Len(original) : \A c \in 1 .. MaxAmount : c <= original[m].amount => <<m, c>> \in U
  BY <1>0 DEF Uses
<1> HIDE DEF n, U
<1>6. ASSUME NEW i \in 1 .. n
      PROVE  /\ IsFiniteSet(upto(i)) /\ Cardinality(upto(i)) \in 1 .. MaxAmount
             /\ Cardinality(upto(i)) <= original[models[list[i]].id].amount
  <2> DEFINE A == upto(i)
             B == Occurrences(list, list[i])
  <2>1. A \in SUBSET B /\ i \in A
    BY <1>0 DEF Occurrences
  <2>2. IsFiniteSet(B) /\ Cardinality(B) \in Nat
    BY OccurrencesFinite
  <2> HIDE DEF A
  <2>3. Cardinality(B) <= models[list[i]].amount
    BY <1>0 DEF NotTooOften
  <2>4. models[list[i]].amount = original[models[list[i]].id].amount
        /\ original[models[list[i]].id].amount \in 0 .. MaxAmount
    BY <1>0, <1>1, <1>3
  <2> HIDE DEF B
  <2>5. IsFiniteSet(A) /\ Cardinality(A) \in Nat /\ Cardinality(A) <= Cardinality(B)
    BY <2>1, <2>2, FS_Subset, FS_CardinalityType
  <2>6. Cardinality(A) # 0
    BY <2>1, <2>5, FS_EmptySet
  <2>7. Cardinality(A) \in 1 .. MaxAmount /\ Cardinality(A) <= original[models[list[i]].id].amount
    <3> DEFINE x == original[models[list[i]].id].amount
               y == models[list[i]].amount
               c == Cardinality(A)
               d == Cardinality(B)
    <3>1. x \in 0 .. MaxAmount /\ y = x /\ c \in Nat /\ d \in Nat /\ c <= d /\ d <= y /\ c # 0
      BY <2>2, <2>3, <2>4, <2>5, <2>6
    <3> HIDE DEF x, y, c, d
    <3>2. c \in 1 .. MaxAmount /\ c <= x
      BY <1>2, <3>1
    <3>3. QED
      BY <3>2 DEF c, x
  <2>8. QED
    BY <2>5, <2>7 DEF A
<1>7. ASSUME NEW i \in 1 .. n
      PROVE  g[i] \in U /\ g[i][1] = models[list[i]].id /\ g[i][2] = Cardinality(upto(i))
  <2>1. models[list[i]].id \in 1 .. Len(original)
    BY <1>0, <1>1
  <2>2. g[i] = <<models[list[i]].id, Cardinality(upto(i))>>
    OBVIOUS
  <2>3. g[i] \in U
    BY <1>5, <1>6, <2>1, <2>2
  <2>4. QED
    BY <2>2, <2>3
<1>8. g \in [1 .. n -> U]
  BY <1>7
<1> HIDE DEF g
<1>9. ASSUME NEW i \in 1 .. n, NEW j \in 1 .. n, i < j PROVE g[i] # g[j]
  <2>1. SUFFICES ASSUME g[i] = g[j] PROVE FALSE
    OBVIOUS
  <2>2. list[i] = list[j]
    <3>1. models[list[i]].id = models[list[j]].id
      <4>1. g[i][1] = models[list[i]].id
        BY <1>7
      <4>2. g[j][1] = models[list[j]].id
        BY <1>7
      <4>3. QED
        BY <2>1, <4>1, <4>2
    <3>2. list[i] \in 1 .. Len(models) /\ list[j] \in 1 .. Len(models)
      BY <1>0
    <3>3. QED
      BY <1>1, <3>1, <3>2
  <2> DEFINE A == upto(i)
             B == upto(j)
  <2>3. A \in SUBSET B /\ j \in B /\ j \notin A
    BY <1>0, <1>9, <2>2
  <2>4. IsFiniteSet(A) /\ IsFiniteSet(B) /\ Cardinality(A) = Cardinality(B)
    BY <1>6, <1>7, <2>1
  <2> HIDE DEF A, B
  <2>5. A = B
    BY <2>3, <2>4, FS_Subset
  <2>6. QED
    BY <2>3, <2>5
<1>10. \A i, j \in 1 .. n : g[i] = g[j] => i = j
  <2>1. ASSUME NEW i \in 1 .. n, NEW j \in 1 .. n, g[i] = g[j] PROVE i = j
    <3>1. ~(i < j)
      BY <1>9, <2>1
    <3>2. ~(j < i)
      BY <1>9, <2>1
    <3>3. QED
      BY <1>0, <3>1, <3>2
  <2>2. QED
    BY <2>1
<1>11. g \in Injection(1 .. n, U)
  BY <1>8, <1>10 DEF Injection, IsInjective
<1>12. Cardinality(1 .. n) <= Cardinality(U) /\ Cardinality(1 .. n) = n
  BY <1>0, <1>4, <1>11, FS_Injection, FS_Interval
<1>13. QED
  BY <1>4, <1>12 DEF n, U

-----------------------------------------------------------------------------
(* Computing the lists *)

(* lists holds each wanted list of the models once, shorter ones first. *)
IsListing(lists, models, limit) ==
  LET W == AllPermutations(models, limit)
  IN  Enumerates(lists, Cardinality(W), W, ListOrder(W))

(* The wanted lists are finitely many, and short. *)
LEMMA WantedLists ==
  ASSUME NEW original \in Seq(IdModel), NEW models, IsRearranged(models, original),
         NEW limit \in Nat, Cardinality(Uses(original)) <= MaxTotal
  PROVE  /\ IsFiniteSet(AllPermutations(models, limit))
         /\ AllPermutations(models, limit) \in SUBSET Seq(Nat)
         /\ \A list \in AllPermutations(models, limit) :
              IsWanted(list, models, limit) /\ Len(list) <= MaxTotal
<1> DEFINE W == AllPermutations(models, limit)
           T == 1 .. Len(models)
<1>0. models \in Seq(IdModel) /\ Len(models) \in Nat /\ MaxTotal \in Nat
  BY BoundAssumption, LenProperties DEF IsRearranged
<1>1. \A list : list \in W <=> IsWanted(list, models, limit)
  BY <1>0, AllPermutationsAre
<1> HIDE DEF W
<1>2. ASSUME NEW list \in W
      PROVE  list \in Seq(T) /\ Len(list) <= MaxTotal
  <2>1. list \in Seq(1 .. Len(models)) /\ NotTooOften(list, models)
    BY <1>1 DEF IsWanted
  <2>2. IsFiniteSet(Uses(original)) /\ Len(list) <= Cardinality(Uses(original))
    BY <2>1, WantedShort
  <2>3. Cardinality(Uses(original)) \in Nat /\ Len(list) \in Nat
    BY <2>1, <2>2, FS_CardinalityType, LenProperties
  <2>4. QED
    BY <1>0, <2>1, <2>2, <2>3
<1>3. W \in SUBSET ShortLists(T, MaxTotal)
  BY <1>2 DEF ShortLists
<1>4. IsFiniteSet(W)
  <2>1. IsFiniteSet(T)
    BY <1>0, FS_Interval
  <2> HIDE DEF T
  <2>2. IsFiniteSet(ShortLists(T, MaxTotal))
    BY <1>0, <2>1, ShortListsFinite
  <2>3. QED
    BY <1>3, <2>2, FS_Subset
<1>5. W \in SUBSET Seq(Nat)
  <2>1. T \subseteq Nat
    BY <1>0
  <2> HIDE DEF T
  <2>2. QED
    BY <1>2, <2>1, SeqWiden
<1>6. QED
  BY <1>1, <1>2, <1>4, <1>5 DEF W

(* What compute_model_combinations returns lists the wanted ones in order. *)
LEMMA ListsComputed ==
  ASSUME NEW original \in Seq(IdModel), NEW models, IsRearranged(models, original),
         NEW limit \in Nat, Cardinality(Uses(original)) <= MaxTotal
  PROVE  IsListing(ComputeModelCombinations(models, limit), models, limit)
<1> DEFINE W == AllPermutations(models, limit)
<1>1. IsFiniteSet(W) /\ W \in SUBSET Seq(Nat)
  BY WantedLists
<1>2. ComputeModelCombinations(models, limit) = InOrder(W, ListLess)
  BY DEF ComputeModelCombinations
<1> HIDE DEF W
<1>3. InOrder(W, ListLess) = EnumerationOf(W, ListOrder(W))
  BY <1>1, InOrderLists
<1>4. StrictOrder(ListOrder(W), W)
  BY <1>1, ListOrderStrict
<1>5. Enumerates(EnumerationOf(W, ListOrder(W)), Cardinality(W), W, ListOrder(W))
  BY <1>1, <1>4, EnumerationEnumerates
<1>6. QED
  BY <1>2, <1>3, <1>5 DEF IsListing, W

(* What the listing says of its elements and their order. *)
LEMMA ListingIs ==
  ASSUME NEW original \in Seq(IdModel), NEW models, IsRearranged(models, original),
         NEW limit \in Nat, Cardinality(Uses(original)) <= MaxTotal,
         NEW lists, IsListing(lists, models, limit)
  PROVE  /\ lists \in Seq(Seq(1 .. Len(models)))
         /\ \A list : IsWanted(list, models, limit) <=> \E i \in 1 .. Len(lists) : lists[i] = list
         /\ \A i \in 1 .. Len(lists) : Len(lists[i]) <= MaxTotal
         /\ \A i, j \in 1 .. Len(lists) : i < j => lists[i] # lists[j] /\ Len(lists[i]) <= Len(lists[j])
<1> DEFINE W == AllPermutations(models, limit)
           n == Cardinality(W)
           T == 1 .. Len(models)
<1>1. Enumerates(lists, n, W, ListOrder(W))
  BY DEF IsListing
<1>2. W \in SUBSET Seq(Nat) /\ \A list \in W : IsWanted(list, models, limit) /\ Len(list) <= MaxTotal
  BY WantedLists
<1>3. \A list : list \in W <=> IsWanted(list, models, limit)
  BY AllPermutationsAre DEF IsRearranged
<1> HIDE DEF W
<1>4. n \in Nat /\ lists \in [1 .. n -> W] /\ (\A x \in W : \E k \in 1 .. n : lists[k] = x)
      /\ \A j, k \in 1 .. n : j < k => <<lists[j], lists[k]>> \in ListOrder(W)
  BY <1>1 DEF Enumerates
<1> HIDE DEF n
<1>5. \A list \in W : list \in Seq(T)
  BY <1>2 DEF IsWanted
<1>6. lists \in Seq(Seq(T)) /\ Len(lists) = n
  <2> DEFINE Q == Seq(T)
  <2>1. lists \in [1 .. n -> Q]
    BY <1>4, <1>5
  <2> HIDE DEF Q, T
  <2>2. lists \in Seq(Q) /\ Len(lists) = n
    BY <1>4, <2>1
  <2>3. QED
    BY <2>2 DEF Q
<1>7. ASSUME NEW i \in 1 .. n, NEW j \in 1 .. n, i < j
      PROVE  lists[i] # lists[j] /\ Len(lists[i]) <= Len(lists[j])
  <2>1. lists[i] \in W /\ lists[j] \in W
    BY <1>4
  <2>2. ListLess(lists[i], lists[j])
    BY <1>4, <1>7 DEF ListOrder
  <2>3. lists[i] \in Seq(Nat) /\ lists[j] \in Seq(Nat) /\ Len(lists[i]) \in Nat /\ Len(lists[j]) \in Nat
    BY <1>2, <2>1, LenProperties
  <2>4. Len(lists[i]) < Len(lists[j])
        \/ (Len(lists[i]) = Len(lists[j]) /\ VectorLess(lists[i], lists[j]))
    BY <2>2 DEF ListLess
  <2>5. lists[i] # lists[j]
    <3>1. ~VectorLess(lists[i], lists[i])
      BY <2>3, VectorLessIrreflexive
    <3>2. ~(Len(lists[i]) < Len(lists[i]))
      BY <2>3
    <3>3. QED
      BY <2>4, <3>1, <3>2
  <2>6. QED
    BY <2>3, <2>4, <2>5
<1>8. ASSUME NEW list PROVE IsWanted(list, models, limit) <=> \E i \in 1 .. n : lists[i] = list
  BY <1>3, <1>4
<1>9. \A i \in 1 .. n : Len(lists[i]) <= MaxTotal
  BY <1>2, <1>4
<1>10. QED
  BY <1>6, <1>7, <1>8, <1>9 DEF T

-----------------------------------------------------------------------------
(* ModelCombinations *)

(* The inductive invariant: what each step has computed so far, of models   *)
(* that the initial state numbers and bounds.                               *)
ListsInv ==
  /\ Numbered(given)
  /\ Cardinality(Uses(given)) <= MaxTotal
  /\ max \in Nat
  /\ pc \in {"sort", "combine", "done"}
  /\ pc = "sort" => fault_models = given
  /\ pc # "sort" => fault_models = StdSort(given, Before)
  /\ pc # "done" => models_to_inject = <<>>
  /\ pc = "done" => models_to_inject = ComputeModelCombinations(fault_models, max)

(* The models as passed are numbered. *)
LEMMA GivenNumbered ==
  ASSUME NEW k \in Nat, NEW models \in [1 .. k -> Model]
  PROVE  Numbered(WithIds(models))
<1> DEFINE s == WithIds(models)
<1>1. DOMAIN models = 1 .. k
  OBVIOUS
<1>2. ASSUME NEW i \in 1 .. k PROVE s[i] \in IdModel /\ s[i].id = i
  <2>1. s[i] = [instruction |-> models[i].instruction, permanent |-> models[i].permanent,
                amount |-> models[i].amount, id |-> i]
    BY <1>1 DEF WithIds
  <2>2. models[i] \in Model /\ i \in Nat
    OBVIOUS
  <2>3. QED
    BY <2>1, <2>2 DEF IdModel, Model
<1>3. s = [i \in 1 .. k |-> s[i]]
  BY <1>1 DEF WithIds
<1> HIDE DEF s
<1>4. s \in [1 .. k -> IdModel]
  BY <1>2, <1>3
<1>5. s \in Seq(IdModel) /\ Len(s) = k
  <2> DEFINE Q == IdModel
  <2>1. s \in [1 .. k -> Q]
    BY <1>4
  <2> HIDE DEF Q
  <2>2. s \in Seq(Q) /\ Len(s) = k
    BY <2>1
  <2>3. QED
    BY <2>2 DEF Q
<1>6. QED
  BY <1>2, <1>5 DEF Numbered, s

(* The invariant holds of every reachable state. *)
LEMMA ListsInitially == Init => ListsInv
<1> SUFFICES ASSUME Init PROVE ListsInv
  OBVIOUS
<1>1. MaxModels \in Nat /\ MaxTotal \in Nat
  BY BoundAssumption
<1>2. PICK models \in UNION {[1 .. k -> Model] : k \in 1 .. MaxModels} : given = WithIds(models)
  BY DEF Init
<1>3. PICK k \in 1 .. MaxModels : models \in [1 .. k -> Model]
  BY <1>2
<1>4. k \in Nat
  BY <1>1, <1>3
<1>5. Numbered(given)
  BY <1>2, <1>3, <1>4, GivenNumbered
<1>6. QED
  BY <1>1, <1>5 DEF Init, ListsInv

(* Each step keeps the invariant of the lists. *)
LEMMA ListsInductive == ListsInv /\ [Next]_vars => ListsInv'
<1> SUFFICES ASSUME ListsInv, [Next]_vars PROVE ListsInv'
  OBVIOUS
<1>1. CASE SortModels
  <2>1. /\ pc = "sort" /\ pc' = "combine" /\ fault_models' = StdSort(fault_models, Before)
        /\ given' = given /\ max' = max /\ models_to_inject' = models_to_inject
    BY <1>1 DEF SortModels
  <2>2. fault_models = given /\ models_to_inject = <<>>
    BY <2>1 DEF ListsInv
  <2>3. fault_models' = StdSort(given, Before)
    BY <2>1, <2>2
  <2>4. Numbered(given)' /\ (Cardinality(Uses(given)) <= MaxTotal)' /\ max' \in Nat
    BY <2>1 DEF ListsInv
  <2>5. QED
    BY <2>1, <2>2, <2>3, <2>4 DEF ListsInv
<1>2. CASE Combine
  <2>1. /\ pc = "combine" /\ pc' = "done" /\ fault_models' = fault_models
        /\ models_to_inject' = ComputeModelCombinations(fault_models, max)
        /\ given' = given /\ max' = max
    BY <1>2 DEF Combine
  <2>2. fault_models' = StdSort(given, Before)
    BY <2>1 DEF ListsInv
  <2>3. models_to_inject' = ComputeModelCombinations(fault_models, max)'
    BY <2>1
  <2>4. Numbered(given)' /\ (Cardinality(Uses(given)) <= MaxTotal)' /\ max' \in Nat
    BY <2>1 DEF ListsInv
  <2>5. QED
    BY <2>1, <2>2, <2>3, <2>4 DEF ListsInv
<1>3. CASE UNCHANGED vars
  BY <1>3 DEF ListsInv, vars
<1>4. QED
  BY <1>1, <1>2, <1>3 DEF Next, Done

(* It holds throughout, for any number of models and any amounts. *)
THEOREM ListsAlways == Spec => []ListsInv
<1>1. Init => ListsInv
  BY ListsInitially
<1>2. ListsInv /\ [Next]_vars => ListsInv'
  BY ListsInductive
<1>3. QED
  BY <1>1, <1>2, PTL DEF Spec

(* Although the comparator is no weak order, the sort puts the instruction  *)
(* models first and keeps the order of the caller within each kind.         *)
LEMMA InstructionModelsFirstHolds == ListsInv => InstructionModelsFirst
<1> SUFFICES ASSUME ListsInv, pc # "sort" PROVE
      fault_models = ElementsAt(given, {i \in DOMAIN given : given[i].instruction})
                  \o ElementsAt(given, {i \in DOMAIN given : ~given[i].instruction})
  BY DEF InstructionModelsFirst
<1>1. Numbered(given) /\ fault_models = StdSort(given, Before)
  BY DEF ListsInv
<1>2. given \in Seq(IdModel) /\ DOMAIN given = 1 .. Len(given)
  BY <1>1 DEF Numbered
<1>3. ASSUME NEW i \in 1 .. Len(given) PROVE given[i].instruction \in BOOLEAN
  <2>1. given[i] \in IdModel
    BY <1>2, ElementOfSeq
  <2>2. QED
    BY <2>1 DEF IdModel
<1>4. Places(given, Len(given), TRUE) = {i \in DOMAIN given : given[i].instruction}
  BY <1>2, <1>3 DEF Places
<1>5. Places(given, Len(given), FALSE) = {i \in DOMAIN given : ~given[i].instruction}
  BY <1>2, <1>3 DEF Places
<1>6. StdSort(given, Before) = ElementsAt(given, Places(given, Len(given), TRUE))
                            \o ElementsAt(given, Places(given, Len(given), FALSE))
  BY <1>1, SortedInParts
<1>7. QED
  BY <1>1, <1>4, <1>5, <1>6

(* Although the comparator of the sort is no strict weak order, the         *)
(* instruction models come first and each kind keeps its order.             *)
THEOREM SortIsByKind == Spec => []InstructionModelsFirst
  BY ListsAlways, InstructionModelsFirstHolds, PTL

(* What the sort and the enumeration give at the end. *)
LEMMA ListsAtEnd ==
  ASSUME ListsInv, pc = "done"
  PROVE  /\ IsRearranged(fault_models, given) /\ fault_models \in Seq(IdModel)
         /\ models_to_inject \in Seq(Seq(1 .. Len(fault_models)))
         /\ \A list : IsWanted(list, fault_models, max)
                        <=> \E i \in 1 .. Len(models_to_inject) : models_to_inject[i] = list
         /\ \A i \in 1 .. Len(models_to_inject) : Len(models_to_inject[i]) <= MaxTotal
         /\ \A i, j \in 1 .. Len(models_to_inject) :
              i < j => /\ models_to_inject[i] # models_to_inject[j]
                       /\ Len(models_to_inject[i]) <= Len(models_to_inject[j])
<1>1. /\ Numbered(given) /\ max \in Nat /\ Cardinality(Uses(given)) <= MaxTotal
      /\ fault_models = StdSort(given, Before)
      /\ models_to_inject = ComputeModelCombinations(fault_models, max)
  BY DEF ListsInv
<1>2. given \in Seq(IdModel)
  BY <1>1 DEF Numbered
<1>3. IsRearranged(fault_models, given)
  BY <1>1, SortRearranges
<1>4. IsListing(models_to_inject, fault_models, max)
  BY <1>1, <1>2, <1>3, ListsComputed
<1>5. models_to_inject \in Seq(Seq(1 .. Len(fault_models)))
  BY <1>1, <1>2, <1>3, <1>4, ListingIs
<1>6. \A list : IsWanted(list, fault_models, max)
                  <=> \E i \in 1 .. Len(models_to_inject) : models_to_inject[i] = list
  BY <1>1, <1>2, <1>3, <1>4, ListingIs
<1>7. \A i \in 1 .. Len(models_to_inject) : Len(models_to_inject[i]) <= MaxTotal
  BY <1>1, <1>2, <1>3, <1>4, ListingIs
<1>8. \A i, j \in 1 .. Len(models_to_inject) :
        i < j => /\ models_to_inject[i] # models_to_inject[j]
                 /\ Len(models_to_inject[i]) <= Len(models_to_inject[j])
  BY <1>1, <1>2, <1>3, <1>4, ListingIs
<1>9. fault_models \in Seq(IdModel)
  BY <1>3 DEF IsRearranged
<1>10. QED
  BY <1>3, <1>5, <1>6, <1>7, <1>8, <1>9

(* The lists that are wanted, as the property and as the lemmas tell them.  *)
LEMMA WantedIs ==
  ASSUME NEW list, fault_models \in Seq(IdModel)
  PROVE  IsWanted(list, fault_models, max)
           <=> list \in Seq(1 .. Len(fault_models)) /\ list # <<>> /\ Wanted(list)
  BY DEF IsWanted, Wanted, NotTooOften, Occurrences

(* Exactly the wanted lists are injected, each once. *)
LEMMA AllWantedListsHolds == ListsInv => AllWantedLists
<1> SUFFICES ASSUME ListsInv, pc = "done" PROVE
      /\ ToSet(models_to_inject) =
           {list \in UNION {[1 .. k -> DOMAIN fault_models] : k \in 1 .. MaxTotal} : Wanted(list)}
      /\ IsInjective(models_to_inject)
  BY DEF AllWantedLists
<1> DEFINE T == 1 .. Len(fault_models)
           lists == models_to_inject
           W == {list \in UNION {[1 .. k -> DOMAIN fault_models] : k \in 1 .. MaxTotal} : Wanted(list)}
<1>1. fault_models \in Seq(IdModel) /\ lists \in Seq(Seq(T))
  BY ListsAtEnd
<1>2. \A list : IsWanted(list, fault_models, max) <=> \E i \in 1 .. Len(lists) : lists[i] = list
  BY ListsAtEnd
<1>3. \A i \in 1 .. Len(lists) : Len(lists[i]) <= MaxTotal
  BY ListsAtEnd
<1>4. \A i, j \in 1 .. Len(lists) : i < j => lists[i] # lists[j]
  BY ListsAtEnd
<1>5. MaxTotal \in Nat /\ DOMAIN fault_models = T /\ Len(lists) \in Nat /\ DOMAIN lists = 1 .. Len(lists)
  BY <1>1, BoundAssumption, LenProperties
<1>6. ASSUME NEW list
      PROVE  list \in UNION {[1 .. k -> T] : k \in 1 .. MaxTotal}
               <=> list \in Seq(T) /\ list # <<>> /\ Len(list) <= MaxTotal
  <2> HIDE DEF T
  <2>1. ASSUME list \in UNION {[1 .. k -> T] : k \in 1 .. MaxTotal}
        PROVE  list \in Seq(T) /\ list # <<>> /\ Len(list) <= MaxTotal
    <3>1. PICK k \in 1 .. MaxTotal : list \in [1 .. k -> T]
      BY <2>1
    <3>2. k \in Nat /\ k # 0 /\ k <= MaxTotal
      BY <1>5
    <3>3. list \in Seq(T) /\ Len(list) = k
      BY <3>1, <3>2
    <3>4. QED
      BY <3>2, <3>3
  <2>2. ASSUME list \in Seq(T), list # <<>>, Len(list) <= MaxTotal
        PROVE  list \in UNION {[1 .. k -> T] : k \in 1 .. MaxTotal}
    <3>1. Len(list) \in Nat /\ Len(list) # 0 /\ list \in [1 .. Len(list) -> T]
      BY <2>2, EmptySeq, LenProperties
    <3>2. Len(list) \in 1 .. MaxTotal
      BY <1>5, <2>2, <3>1
    <3>3. QED
      BY <3>1, <3>2
  <2>3. QED
    BY <2>1, <2>2
<1>7. ASSUME NEW list PROVE list \in W <=> \E i \in 1 .. Len(lists) : lists[i] = list
  <2>1. list \in W <=> list \in Seq(T) /\ list # <<>> /\ Len(list) <= MaxTotal /\ Wanted(list)
    <3> DEFINE U == UNION {[1 .. k -> T] : k \in 1 .. MaxTotal}
    <3>1. list \in W <=> list \in U /\ Wanted(list)
      BY <1>5
    <3>2. QED
      BY <1>6, <3>1
  <2>2. IsWanted(list, fault_models, max) <=> list \in Seq(T) /\ list # <<>> /\ Wanted(list)
    BY <1>1, WantedIs
  <2> HIDE DEF W, T
  <2>3. QED
    BY <1>2, <1>3, <2>1, <2>2
<1>8. ToSet(lists) = W
  <2>1. ToSet(lists) = {lists[i] : i \in DOMAIN lists}
    BY DEF ToSet
  <2> HIDE DEF W
  <2>2. QED
    BY <1>5, <1>7, <2>1
<1>9. IsInjective(lists)
  <2> HIDE DEF lists
  <2>1. ASSUME NEW i \in 1 .. Len(lists), NEW j \in 1 .. Len(lists), lists[i] = lists[j] PROVE i = j
    <3>1. ~(i < j)
      BY <1>4, <2>1
    <3>2. ~(j < i)
      BY <1>4, <2>1
    <3>3. QED
      BY <1>5, <3>1, <3>2
  <2>2. QED
    BY <1>5, <2>1 DEF IsInjective
<1>10. QED
  BY <1>8, <1>9

(* Exactly the wanted lists are injected, and each once. *)
THEOREM ListsAreTheWanted == Spec => []AllWantedLists
  BY ListsAlways, AllWantedListsHolds, PTL

(* What is left of a wanted list is wanted. *)
LEMMA PartIsWanted ==
  ASSUME NEW models \in Seq(IdModel), NEW limit \in Nat, NEW list, IsWanted(list, models, limit),
         NEW part \in Seq(1 .. Len(models)), part # <<>>, Len(part) <= Len(list),
         NEW f, IsTaken(f, part, list),
         \A i, j \in 1 .. Len(part) : i < j => f[i] < f[j]
  PROVE  IsWanted(part, models, limit)
<1> DEFINE n == Len(list)
           m == Len(part)
<1>1. /\ list \in Seq(1 .. Len(models)) /\ NotTooOften(list, models)
      /\ limit # 0 => n <= limit
      /\ \A i, j \in DOMAIN list :
           i < j /\ models[list[j]].permanent => models[list[i]].permanent /\ list[i] <= list[j]
  BY DEF IsWanted
<1>2. n \in Nat /\ m \in Nat /\ m <= n /\ DOMAIN list = 1 .. n /\ DOMAIN part = 1 .. m
  BY <1>1, LenProperties
<1>3. f \in [1 .. m -> 1 .. n] /\ \A i \in 1 .. m : part[i] = list[f[i]]
  BY DEF IsTaken
<1>4. NotTooOften(part, models)
  BY <1>1, TakenNotTooOften
<1> HIDE DEF n, m
<1>5. limit # 0 => m <= limit
  BY <1>1, <1>2
<1>6. ASSUME NEW i \in 1 .. m, NEW j \in 1 .. m, i < j, models[part[j]].permanent
      PROVE  models[part[i]].permanent /\ part[i] <= part[j]
  <2>1. f[i] \in 1 .. n /\ f[j] \in 1 .. n /\ part[i] = list[f[i]] /\ part[j] = list[f[j]]
    BY <1>3
  <2>2. f[i] < f[j]
    BY <1>6 DEF m
  <2>3. models[list[f[j]]].permanent
    BY <1>6, <2>1
  <2>4. QED
    BY <1>1, <1>2, <2>1, <2>2, <2>3
<1>7. QED
  BY <1>2, <1>4, <1>5, <1>6 DEF IsWanted, m

(* The list without its last model, and the last model alone. *)
LEMMA LowerOrdersWanted ==
  ASSUME NEW models \in Seq(IdModel), NEW limit \in Nat, NEW list, IsWanted(list, models, limit),
         Len(list) > 1
  PROVE  /\ IsWanted(Front(list), models, limit) /\ Len(Front(list)) = Len(list) - 1
         /\ IsWanted(<<Last(list)>>, models, limit) /\ Len(<<Last(list)>>) = 1
<1> DEFINE T == 1 .. Len(models)
           n == Len(list)
<1>1. list \in Seq(T) /\ n \in Nat /\ n > 1 /\ \A i \in 1 .. n : list[i] \in T
  BY LenProperties, ElementOfSeq DEF IsWanted
<1> HIDE DEF T
<1>2. Front(list) \in Seq(T) /\ Len(Front(list)) = n - 1 /\ \A i \in 1 .. n - 1 : Front(list)[i] = list[i]
  <2> DEFINE k == n - 1
  <2>1. k \in Int /\ 1 \in Int /\ 1 <= k /\ \A i \in 1 .. k : list[i] \in T
    BY <1>1
  <2> HIDE DEF k, n
  <2>2. /\ SubSeq(list, 1, k) \in Seq(T)
        /\ Len(SubSeq(list, 1, k)) = (IF 1 <= k THEN k - 1 + 1 ELSE 0)
        /\ \A i \in 1 .. k - 1 + 1 : SubSeq(list, 1, k)[i] = list[1 + i - 1]
    BY <2>1, SubSeqProperties
  <2>3. Front(list) = SubSeq(list, 1, k)
    BY DEF Front, k, n
  <2>4. k - 1 + 1 = k /\ \A i \in 1 .. k : 1 + i - 1 = i
    BY <2>1
  <2>5. QED
    BY <2>1, <2>2, <2>3, <2>4 DEF k
<1>3. Last(list) = list[n] /\ list[n] \in T
  BY <1>1 DEF Last
<1>4. IsWanted(Front(list), models, limit)
  <2> DEFINE p == Front(list)
             f == [i \in 1 .. Len(p) |-> i]
  <2> HIDE DEF p
  <2>1. p \in Seq(T) /\ Len(p) = n - 1 /\ \A i \in 1 .. n - 1 : p[i] = list[i]
    BY <1>2 DEF p
  <2>2. \A i \in 1 .. Len(p) : f[i] = i /\ i \in 1 .. n
    BY <1>1, <2>1
  <2>3. f \in [1 .. Len(p) -> 1 .. Len(list)]
    BY <2>2 DEF n
  <2> HIDE DEF f
  <2>4. IsTaken(f, p, list)
    BY <2>1, <2>2, <2>3 DEF IsTaken
  <2>5. p # <<>> /\ Len(p) <= Len(list) /\ p \in Seq(1 .. Len(models))
    <3>1. Len(p) # 0
      BY <1>1, <2>1
    <3>2. p # <<>>
      BY <3>1
    <3>3. QED
      BY <1>1, <2>1, <3>2 DEF T, n
  <2>6. \A i, j \in 1 .. Len(p) : i < j => f[i] < f[j]
    BY <2>2
  <2>7. IsWanted(p, models, limit)
    BY <2>4, <2>5, <2>6, PartIsWanted
  <2>8. QED
    BY <2>7 DEF p
<1>5. IsWanted(<<Last(list)>>, models, limit) /\ Len(<<Last(list)>>) = 1
  <2> DEFINE p == <<Last(list)>>
             f == [i \in 1 .. Len(p) |-> n]
  <2>1. p \in Seq(T) /\ Len(p) = 1 /\ p[1] = list[n] /\ p # <<>>
    BY <1>3
  <2> HIDE DEF p
  <2>2. \A i \in 1 .. Len(p) : f[i] = n /\ i = 1 /\ n \in 1 .. n
    BY <1>1, <2>1
  <2>3. f \in [1 .. Len(p) -> 1 .. Len(list)]
    BY <1>1 DEF n
  <2> HIDE DEF f
  <2>4. IsTaken(f, p, list)
    BY <2>1, <2>2, <2>3 DEF IsTaken
  <2>5. p # <<>> /\ Len(p) <= Len(list) /\ p \in Seq(1 .. Len(models))
    BY <1>1, <2>1 DEF T, n
  <2>6. \A i, j \in 1 .. Len(p) : i < j => f[i] < f[j]
    BY <2>1
  <2>7. IsWanted(p, models, limit)
    BY <2>4, <2>5, <2>6, PartIsWanted
  <2>8. QED
    BY <2>1, <2>7 DEF p
<1>6. QED
  BY <1>2, <1>4, <1>5 DEF n

(* Before a list is injected, its first models and its last one have been.  *)
LEMMA LowerOrdersFirstHolds == ListsInv => LowerOrdersFirst
<1> DEFINE lists == models_to_inject
<1> SUFFICES ASSUME ListsInv, NEW i \in DOMAIN lists, Len(lists[i]) > 1
             PROVE  {Front(lists[i]), <<Last(lists[i])>>} \subseteq {lists[j] : j \in 1 .. i - 1}
  BY DEF LowerOrdersFirst
<1>1. pc = "done"
  <2>1. lists = <<>> => DOMAIN lists = {}
    OBVIOUS
  <2>2. pc # "done" => lists = <<>>
    BY DEF ListsInv
  <2>3. QED
    BY <2>1, <2>2
<1>2. fault_models \in Seq(IdModel) /\ lists \in Seq(Seq(1 .. Len(fault_models)))
  BY <1>1, ListsAtEnd
<1>3. \A list : IsWanted(list, fault_models, max) <=> \E j \in 1 .. Len(lists) : lists[j] = list
  BY <1>1, ListsAtEnd
<1>4. \A j, k \in 1 .. Len(lists) : j < k => Len(lists[j]) <= Len(lists[k])
  BY <1>1, ListsAtEnd
<1>5. Len(lists) \in Nat /\ i \in 1 .. Len(lists) /\ max \in Nat
  BY <1>2, LenProperties DEF ListsInv
<1> HIDE DEF lists
<1>6. IsWanted(lists[i], fault_models, max)
  BY <1>3, <1>5
<1> DEFINE list == lists[i]
<1>7. Len(list) \in Nat
  BY <1>6, LenProperties DEF IsWanted
<1> HIDE DEF list
<1>8. /\ IsWanted(Front(list), fault_models, max) /\ Len(Front(list)) = Len(list) - 1
      /\ IsWanted(<<Last(list)>>, fault_models, max) /\ Len(<<Last(list)>>) = 1
  BY <1>2, <1>5, <1>6, LowerOrdersWanted DEF list
<1>9. ASSUME NEW part, IsWanted(part, fault_models, max), Len(part) \in Nat, Len(part) < Len(list)
      PROVE  part \in {lists[j] : j \in 1 .. i - 1}
  <2>1. PICK j \in 1 .. Len(lists) : lists[j] = part
    BY <1>3, <1>9
  <2>2. ~(i < j)
    <3>1. i < j => Len(list) <= Len(part)
      BY <1>4, <1>5, <2>1 DEF list
    <3>2. QED
      BY <1>7, <1>9, <3>1
  <2>3. i # j
    BY <1>7, <1>9, <2>1 DEF list
  <2>4. j \in 1 .. i - 1
    BY <1>5, <2>2, <2>3
  <2>5. QED
    BY <2>1, <2>4
<1>10. Len(Front(list)) \in Nat /\ Len(Front(list)) < Len(list) /\ 1 < Len(list)
  BY <1>7, <1>8 DEF list
<1>11. Front(list) \in {lists[j] : j \in 1 .. i - 1}
  BY <1>8, <1>9, <1>10
<1>12. <<Last(list)>> \in {lists[j] : j \in 1 .. i - 1}
  <2>1. Len(<<Last(list)>>) \in Nat /\ Len(<<Last(list)>>) < Len(list)
    BY <1>8, <1>10
  <2>2. QED
    BY <1>8, <1>9, <2>1
<1>13. QED
  BY <1>11, <1>12 DEF list

(* The two lists prepare_known_exploitable_faults looks up have been        *)
(* injected.                                                                *)
THEOREM LowerOrdersComeFirst == Spec => []LowerOrdersFirst
  BY ListsAlways, LowerOrdersFirstHolds, PTL

-----------------------------------------------------------------------------
(* KnownFaults: the invariant *)

(* A fault, and a combination of faults. *)
FaultRecord == [instruction : BOOLEAN, model : Nat, time : Nat, where : Nat]

(* A combination of faults. *)
Combined == [instruction_faults : Seq(FaultRecord), register_faults : Seq(FaultRecord)]

(* What is known when the list is injected. *)
KnownFor(memo, list) ==
  IF Len(list) > 1 THEN memo[<<Last(list)>>] \o memo[Front(list)] ELSE <<>>

(* The lists the lookups for this one find. *)
LookedUp(memo, list) ==
  Len(list) > 1 => Front(list) \in DOMAIN memo /\ <<Last(list)>> \in DOMAIN memo

(* Every exploitable chain of the list that would be tried if nothing were  *)
(* redundant includes a memorized combination.                              *)
CoversList(models, tries, exploit, memo, list) ==
  \A c \in Chains(models, list) :
    c \in tries /\ ToSet(c) \in exploit =>
      \E k \in ToSet(memo[list]) : Includes(Combination(c), k)

(* The combination is a chain of some list, and includes nothing that was   *)
(* known when that list was injected.                                       *)
HasOrigin(models, memo, k) ==
  \E list \in DOMAIN memo :
    /\ k \in ToSet(memo[list])
    /\ \E c \in Chains(models, list) : k = Combination(c)
    /\ \A x \in ToSet(KnownFor(memo, list)) : ~Includes(k, x)

(* What was memorized for each beginning of the list is memorized for it. *)
HoldsPrefixes(memo, list) ==
  \A i \in 1 .. Len(list) :
    /\ SubSeq(list, 1, i) \in DOMAIN memo
    /\ ToSet(memo[SubSeq(list, 1, i)]) \subseteq ToSet(memo[list])

(* Smaller combinations first, none larger than the list. *)
SortedBySize(combinations, n) ==
  /\ \A i \in DOMAIN combinations : Size(combinations[i]) \in 1 .. n
  /\ \A i, j \in DOMAIN combinations : i < j => Size(combinations[i]) <= Size(combinations[j])

(* What was not looked up has a fault of each model. *)
NewAreFull(memo, list) ==
  \A k \in ToSet(memo[list]) :
    \/ Size(k) = Len(list)
    \/ Len(list) > 1 /\ k \in ToSet(memo[Front(list)]) \cup ToSet(memo[<<Last(list)>>])

(* All that is true of a list that was injected. *)
GoodList(models, tries, exploit, memo, list) ==
  /\ LookedUp(memo, list)
  /\ memo[list] \in Seq(Combined)
  /\ SortedBySize(memo[list], Len(list))
  /\ \A k \in ToSet(memo[list]) : Faults(k) \in exploit /\ HasOrigin(models, memo, k)
  /\ HoldsPrefixes(memo, list)
  /\ NewAreFull(memo, list)
  /\ CoversList(models, tries, exploit, memo, list)

(* It is true of all lists that were. *)
GoodMemo(models, tries, exploit, memo) ==
  \A list \in DOMAIN memo : GoodList(models, tries, exploit, memo, list)

(* Each exploitable set is that of a chain of some list that is tried. *)
AreOfChains(models, lists, tries, exploit) ==
  \A e \in exploit :
    \E i \in 1 .. Len(lists) : \E c \in Chains(models, lists[i]) : c \in tries /\ e = ToSet(c)

(* What a chain that is tried begins with is tried as well. *)
Closed(tries) ==
  \A c \in Seq(FaultRecord) : \A f \in FaultRecord :
    Append(c, f) \in tries => c = <<>> \/ c \in tries

(* The lists before model_index are memorized, and known is what was looked *)
(* up for the current one.                                                  *)
Injections ==
  /\ model_index \in 1 .. Len(models_to_inject) + 1
  /\ DOMAIN memorized = {models_to_inject[j] : j \in 1 .. model_index - 1}
  /\ GoodMemo(fault_models, tried, exploitable, memorized)
  /\ AreOfChains(fault_models, models_to_inject, tried, exploitable)
  /\ Closed(tried)
  /\ phase \in {"prepare", "simulate"} => model_index <= Len(models_to_inject)
  /\ phase \in {"aggregate", "done"} => model_index = Len(models_to_inject) + 1
  /\ phase = "simulate" => known = KnownFor(memorized, current_models)
  /\ known \in Seq(Combined)
  /\ \A i, j \in DOMAIN known : i < j => Size(known[i]) <= Size(known[j])
  /\ \A k \in ToSet(known) : Faults(k) \in exploitable
  /\ phase # "done" => result = <<>>
  /\ phase = "done" => ToSet(result) = UNION {ToSet(memorized[list]) : list \in DOMAIN memorized}

(* The inductive invariant of KnownFaults. *)
FaultsInv ==
  /\ ListsInv
  /\ phase \in {"lists", "prepare", "simulate", "aggregate", "done"}
  /\ phase = "lists" <=> pc # "done"
  /\ phase = "lists" =>
       /\ model_index = 1 /\ known = <<>> /\ memorized = <<>> /\ result = <<>>
       /\ tried = {} /\ exploitable = {}
  /\ phase # "lists" => Injections

-----------------------------------------------------------------------------
(* Duplicates *)

(* An element at the end of a sequence. *)
LEMMA AppendSet ==
  ASSUME NEW S, NEW t \in Seq(S), NEW x \in S
  PROVE  /\ Append(t, x) \in Seq(S) /\ Len(Append(t, x)) = Len(t) + 1
         /\ ToSet(Append(t, x)) = ToSet(t) \cup {x}
<1> DEFINE n == Len(t)
           u == Append(t, x)
<1>1. n \in Nat /\ DOMAIN t = 1 .. n
  BY LenProperties
<1>2. u \in Seq(S) /\ Len(u) = n + 1 /\ u[n + 1] = x /\ \A i \in 1 .. n : u[i] = t[i]
  BY AppendProperties
<1>3. DOMAIN u = 1 .. n + 1
  BY <1>2
<1> HIDE DEF u, n
<1>4. ToSet(u) = {u[i] : i \in 1 .. n + 1} /\ ToSet(t) = {t[i] : i \in 1 .. n}
  BY <1>1, <1>3 DEF ToSet
<1>5. \A i : i \in 1 .. n + 1 <=> i \in 1 .. n \/ i = n + 1
  BY <1>1
<1>6. ToSet(u) = ToSet(t) \cup {x}
  BY <1>2, <1>4, <1>5
<1>7. QED
  BY <1>2, <1>6 DEF u, n

(* Dropping an element equal to the last one drops nothing from the set. *)
LEMMA KeptKeeps ==
  ASSUME NEW S, NEW t \in Seq(S), NEW x \in S
  PROVE  Kept(t, x) \in Seq(S) /\ ToSet(Kept(t, x)) = ToSet(t) \cup {x}
<1>1. CASE t # <<>> /\ Last(t) = x
  <2>1. Kept(t, x) = t
    BY <1>1 DEF Kept
  <2>2. Len(t) \in 1 .. Len(t) /\ x = t[Len(t)]
    <3>1. Len(t) \in Nat /\ Len(t) # 0
      BY <1>1, EmptySeq, LenProperties
    <3>2. QED
      BY <1>1, <3>1 DEF Last
  <2>3. x \in ToSet(t)
    BY <2>2, ToSetOfSeq
  <2>4. QED
    BY <2>1, <2>3
<1>2. CASE ~(t # <<>> /\ Last(t) = x)
  <2>1. Kept(t, x) = Append(t, x)
    BY <1>2 DEF Kept
  <2>2. QED
    BY <2>1, AppendSet
<1>3. QED
  BY <1>1, <1>2

(* std::unique keeps the set of elements. *)
LEMMA UniqueKeeps ==
  ASSUME NEW S, NEW s \in Seq(S)
  PROVE  StdUnique(s) \in Seq(S) /\ ToSet(StdUnique(s)) = ToSet(s)
<1> DEFINE N == Len(s)
           by == [n \in 1 .. N |-> [t \in Seq(S) |-> Kept(t, s[n])]]
<1>0. N \in Nat /\ DOMAIN s = 1 .. N /\ \A i \in 1 .. N : s[i] \in S
  BY LenProperties, ElementOfSeq
<1>1. ASSUME NEW n \in 1 .. N, NEW t \in Seq(S)
      PROVE  Kept(t, s[n]) \in Seq(S) /\ ToSet(Kept(t, s[n])) = ToSet(t) \cup {s[n]}
  <2>1. s[n] \in S
    BY <1>0
  <2>2. QED
    BY <2>1, KeptKeeps
<1>2. by \in [1 .. N -> [Seq(S) -> Seq(S)]]
      /\ \A n \in 1 .. N : \A t \in Seq(S) : by[n][t] = Kept(t, s[n])
  BY <1>1
<1> HIDE DEF N, by
<1>3. N \in Nat /\ <<>> \in Seq(S)
  BY <1>0
<1>4. \E f : FollowsSteps(f, S, N, by)
  BY <1>2, <1>3, SequenceByStep
<1>5. PICK f \in [0 .. N -> Seq(S)] : f[0] = <<>> /\ \A n \in 1 .. N : f[n] = by[n][f[n - 1]]
  BY <1>4 DEF FollowsSteps
<1>6. ASSUME NEW n \in 1 .. N PROVE n - 1 \in 0 .. N /\ f[n] = Kept(f[n - 1], s[n])
  <2>1. n - 1 \in 0 .. N
    BY <1>0
  <2>2. f[n - 1] \in Seq(S)
    BY <1>5, <2>1
  <2>3. QED
    BY <1>2, <1>5, <2>1, <2>2
<1>7. f = [i \in 0 .. N |-> IF i = 0 THEN <<>> ELSE Kept(f[i - 1], s[i])]
  <2>1. \A i \in 0 .. N : f[i] = IF i = 0 THEN <<>> ELSE Kept(f[i - 1], s[i])
    BY <1>0, <1>5, <1>6
  <2>2. QED
    BY <1>5, <2>1
<1> DEFINE g == CHOOSE g : g = [i \in 0 .. N |-> IF i = 0 THEN <<>> ELSE Kept(g[i - 1], s[i])]
<1>8. g = [i \in 0 .. N |-> IF i = 0 THEN <<>> ELSE Kept(g[i - 1], s[i])]
  BY <1>7
<1>9. StdUnique(s) = g[N]
  BY DEF StdUnique, N
<1> HIDE DEF g
<1>10. g[0] = <<>> /\ \A n \in 1 .. N : g[n] = Kept(g[n - 1], s[n])
  BY <1>0, <1>8
<1> DEFINE Good == {n \in 0 .. N : g[n] \in Seq(S) /\ ToSet(g[n]) = {s[i] : i \in 1 .. n}}
<1>11. Good = 0 .. N
  <2>1. 0 \in Good
    <3>1. g[0] \in Seq(S) /\ 0 \in 0 .. N
      BY <1>3, <1>10
    <3>2. ToSet(g[0]) = {}
      BY <1>10 DEF ToSet
    <3>3. QED
      BY <3>1, <3>2
  <2>2. ASSUME NEW n \in Good, n < N PROVE n + 1 \in Good
    <3>1. n \in 0 .. N /\ g[n] \in Seq(S) /\ ToSet(g[n]) = {s[i] : i \in 1 .. n}
      OBVIOUS
    <3> HIDE DEF Good
    <3>2. n + 1 \in 1 .. N /\ (n + 1) - 1 = n
      BY <1>0, <2>2, <3>1
    <3>3. g[n + 1] = Kept(g[n], s[n + 1])
      BY <1>10, <3>2
    <3>4. g[n + 1] \in Seq(S) /\ ToSet(g[n + 1]) = ToSet(g[n]) \cup {s[n + 1]}
      BY <1>1, <3>1, <3>2, <3>3
    <3>5. {s[i] : i \in 1 .. n} \cup {s[n + 1]} = {s[i] : i \in 1 .. n + 1}
      <4>1. \A i : i \in 1 .. n + 1 <=> i \in 1 .. n \/ i = n + 1
        BY <1>0, <3>1
      <4>2. QED
        BY <4>1
    <3>6. n + 1 \in 0 .. N /\ g[n + 1] \in Seq(S) /\ ToSet(g[n + 1]) = {s[i] : i \in 1 .. n + 1}
      BY <1>0, <3>1, <3>2, <3>4, <3>5
    <3>7. QED
      BY <3>6 DEF Good
  <2>3. Good \in SUBSET (0 .. N)
    OBVIOUS
  <2> HIDE DEF Good
  <2>4. QED
    BY <1>0, <2>1, <2>2, <2>3, IntervalInduct
<1>12. N \in Good
  <2> HIDE DEF Good
  <2>1. N \in 0 .. N
    BY <1>0
  <2>2. QED
    BY <1>11, <2>1
<1>13. g[N] \in Seq(S) /\ ToSet(g[N]) = {s[i] : i \in 1 .. N}
  BY <1>12
<1>14. QED
  BY <1>0, <1>9, <1>13 DEF ToSet

(* In another order, a vector holds the same elements. *)
LEMMA RearrangementKeeps ==
  ASSUME NEW S, NEW s \in Seq(S), NEW t \in Rearrangements(s)
  PROVE  t \in Seq(S) /\ ToSet(t) = ToSet(s)
<1> DEFINE n == Len(s)
           D == 1 .. n
<1>1. n \in Nat /\ DOMAIN s = D /\ s \in [D -> S]
  BY LenProperties
<1>2. PICK f \in Bijection(DOMAIN s, DOMAIN s) : t = [i \in DOMAIN s |-> s[f[i]]]
  BY DEF Rearrangements
<1> HIDE DEF D
<1>3. f \in [D -> D] /\ \A k \in D : \E i \in D : f[i] = k
  BY <1>1, <1>2 DEF Bijection, Injection, Surjection
<1>4. t = [i \in D |-> s[f[i]]]
  BY <1>1, <1>2
<1>5. t \in [D -> S] /\ \A i \in D : t[i] = s[f[i]]
  BY <1>1, <1>3, <1>4
<1>6. t \in Seq(S) /\ DOMAIN t = D
  BY <1>1, <1>5 DEF D
<1>7. \A x : (\E i \in D : t[i] = x) <=> (\E k \in D : s[k] = x)
  <2>1. ASSUME NEW x, NEW i \in D, t[i] = x PROVE \E k \in D : s[k] = x
    BY <1>3, <1>5, <2>1
  <2>2. ASSUME NEW x, NEW k \in D, s[k] = x PROVE \E i \in D : t[i] = x
    BY <1>3, <1>5, <2>2
  <2>3. QED
    BY <2>1, <2>2
<1>8. ToSet(t) = ToSet(s)
  BY <1>1, <1>6, <1>7 DEF ToSet
<1>9. QED
  BY <1>6, <1>8

(* However it is sorted, a vector without its duplicates holds the same     *)
(* combinations.                                                            *)
LEMMA WithoutDuplicatesKeeps ==
  ASSUME NEW S, NEW s \in Seq(S), NEW u \in WithoutDuplicates(s)
  PROVE  u \in Seq(S) /\ ToSet(u) = ToSet(s)
<1>1. PICK t \in Sortings(s, CombinationLess) : u = StdUnique(t)
  BY DEF WithoutDuplicates
<1>2. t \in Seq(S) /\ ToSet(t) = ToSet(s)
  <2>1. CASE Len(s) <= 16
    <3>1. t = StdSort(s, CombinationLess)
      BY <1>1, <2>1 DEF Sortings
    <3>2. QED
      BY <3>1, SortCombinations
  <2>2. CASE ~(Len(s) <= 16)
    <3>1. t \in Rearrangements(s)
      BY <1>1, <2>2 DEF Sortings
    <3>2. QED
      BY <3>1, RearrangementKeeps
  <2>3. QED
    BY <2>1, <2>2
<1>3. QED
  BY <1>1, <1>2, UniqueKeeps

-----------------------------------------------------------------------------
(* Combinations of faults *)

(* The positions of the faults of a kind. *)
KindPlaces(c, kind) == {i \in DOMAIN c : c[i].instruction = kind}

(* A combination holds the faults of its chain, each as often. *)
LEMMA CombinationIs ==
  ASSUME NEW c \in Seq(FaultRecord)
  PROVE  /\ Combination(c) \in Combined
         /\ Combination(c).instruction_faults = ElementsAt(c, KindPlaces(c, TRUE))
         /\ Combination(c).register_faults = ElementsAt(c, KindPlaces(c, FALSE))
         /\ Faults(Combination(c)) = ToSet(c)
         /\ Size(Combination(c)) = Len(c)
<1> DEFINE n == Len(c)
           I == KindPlaces(c, TRUE)
           R == KindPlaces(c, FALSE)
           k == Combination(c)
<1>1. n \in Nat /\ DOMAIN c = 1 .. n
  BY LenProperties
<1>2. k.instruction_faults = ElementsAt(c, I) /\ k.register_faults = ElementsAt(c, R)
      /\ k = [instruction_faults |-> ElementsAt(c, I), register_faults |-> ElementsAt(c, R)]
  BY DEF Combination, KindPlaces
<1>3. I \in SUBSET (1 .. n) /\ R \in SUBSET (1 .. n)
  BY <1>1 DEF KindPlaces
<1>4. I \cup R = 1 .. n /\ I \cap R = {}
  <2>1. ASSUME NEW i \in 1 .. n PROVE c[i].instruction \in BOOLEAN
    <3>1. c[i] \in FaultRecord
      BY ElementOfSeq
    <3>2. QED
      BY <3>1 DEF FaultRecord
  <2>2. QED
    BY <1>1, <2>1 DEF KindPlaces
<1> HIDE DEF I, R, k, n
<1>5. /\ ElementsAt(c, I) \in Seq(FaultRecord) /\ Len(ElementsAt(c, I)) = Cardinality(I)
      /\ \A x : x \in ToSet(ElementsAt(c, I)) <=> \E d \in I : c[d] = x
  BY <1>3, ElementsAtSet DEF n
<1>6. /\ ElementsAt(c, R) \in Seq(FaultRecord) /\ Len(ElementsAt(c, R)) = Cardinality(R)
      /\ \A x : x \in ToSet(ElementsAt(c, R)) <=> \E d \in R : c[d] = x
  BY <1>3, ElementsAtSet DEF n
<1>7. k \in Combined
  BY <1>2, <1>5, <1>6 DEF Combined
<1>8. Faults(k) = ToSet(c)
  <2>1. \A x : x \in ToSet(c) <=> \E d \in 1 .. n : c[d] = x
    BY ToSetOfSeq DEF n
  <2>2. \A x : x \in Faults(k) <=> (\E d \in I : c[d] = x) \/ (\E d \in R : c[d] = x)
    BY <1>2, <1>5, <1>6 DEF Faults
  <2>3. QED
    BY <1>4, <2>1, <2>2
<1>9. Size(k) = n
  <2>1. IsFiniteSet(I) /\ IsFiniteSet(R)
    BY <1>1, <1>3, PlacesListed
  <2>2. Cardinality(I \cup R) = Cardinality(I) + Cardinality(R) - Cardinality(I \cap R)
    BY <2>1, FS_Union
  <2>3. Cardinality(I \cap R) = 0
    BY <1>4, FS_EmptySet
  <2>4. Cardinality(I \cup R) = n
    <3>1. Cardinality(1 .. n) = n
      <4>1. 1 \in Int /\ n \in Int
        BY <1>1
      <4>2. Cardinality(1 .. n) = IF 1 > n THEN 0 ELSE n - 1 + 1
        BY <4>1, FS_Interval
      <4>3. QED
        BY <1>1, <4>2
    <3>2. QED
      BY <1>4, <3>1
  <2>5. Cardinality(I) \in Nat /\ Cardinality(R) \in Nat
    BY <2>1, FS_CardinalityType
  <2>6. QED
    BY <1>1, <1>2, <1>5, <1>6, <2>2, <2>3, <2>4, <2>5 DEF Size
<1>10. QED
  BY <1>2, <1>7, <1>8, <1>9 DEF I, R, k, n

(* Sizes are numbers. *)
LEMMA SizeIsNat ==
  ASSUME NEW k \in Combined
  PROVE  /\ k.instruction_faults \in Seq(FaultRecord) /\ k.register_faults \in Seq(FaultRecord)
         /\ Size(k) \in Nat
<1>1. k.instruction_faults \in Seq(FaultRecord) /\ k.register_faults \in Seq(FaultRecord)
  BY DEF Combined
<1>2. Len(k.instruction_faults) \in Nat /\ Len(k.register_faults) \in Nat
  BY <1>1, LenProperties
<1> DEFINE a == Len(k.instruction_faults)
           b == Len(k.register_faults)
<1>3. Size(k) = a + b
  BY DEF Size
<1> HIDE DEF a, b
<1>4. a \in Nat /\ b \in Nat
  BY <1>2 DEF a, b
<1>5. Size(k) \in Nat
  BY <1>3, <1>4
<1>6. QED
  BY <1>1, <1>5

(* A subsequence takes its elements from the sequence. *)
LEMMA SubsequenceSet ==
  ASSUME NEW T, NEW t \in Seq(T), NEW u \in Subsequences(t)
  PROVE  u \in Seq(T) /\ ToSet(u) \subseteq ToSet(t) /\ Len(u) <= Len(t)
<1>1. u \in Seq(T) /\ Len(u) <= Len(t) /\ \E h : Embeds(h, u, t)
  BY SubsequenceIs
<1>2. PICK h : Embeds(h, u, t)
  BY <1>1
<1>3. h \in [1 .. Len(u) -> 1 .. Len(t)] /\ \A k \in 1 .. Len(u) : u[k] = t[h[k]]
  BY <1>2 DEF Embeds
<1>4. ASSUME NEW x \in ToSet(u) PROVE x \in ToSet(t)
  <2>1. PICK k \in 1 .. Len(u) : u[k] = x
    BY <1>1, ToSetOfSeq
  <2>2. h[k] \in 1 .. Len(t) /\ t[h[k]] = x
    BY <1>3, <2>1
  <2>3. QED
    BY <2>2, ToSetOfSeq
<1>5. QED
  BY <1>1, <1>4

(* What is included has no other faults, and not more of them. *)
LEMMA IncludedIsSmaller ==
  ASSUME NEW c \in Combined, NEW k \in Combined, Includes(c, k)
  PROVE  Faults(k) \subseteq Faults(c) /\ Size(k) <= Size(c)
<1>1. /\ c.instruction_faults \in Seq(FaultRecord) /\ c.register_faults \in Seq(FaultRecord)
      /\ k.instruction_faults \in Seq(FaultRecord) /\ k.register_faults \in Seq(FaultRecord)
  BY SizeIsNat
<1>2. /\ k.instruction_faults \in Subsequences(c.instruction_faults)
      /\ k.register_faults \in Subsequences(c.register_faults)
  BY DEF Includes
<1>3. /\ ToSet(k.instruction_faults) \subseteq ToSet(c.instruction_faults)
      /\ Len(k.instruction_faults) <= Len(c.instruction_faults)
  BY <1>1, <1>2, SubsequenceSet
<1>4. /\ ToSet(k.register_faults) \subseteq ToSet(c.register_faults)
      /\ Len(k.register_faults) <= Len(c.register_faults)
  BY <1>1, <1>2, SubsequenceSet
<1>5. Size(k) <= Size(c)
  <2>1. /\ Len(k.instruction_faults) \in Nat /\ Len(c.instruction_faults) \in Nat
        /\ Len(k.register_faults) \in Nat /\ Len(c.register_faults) \in Nat
    BY <1>1, LenProperties
  <2> DEFINE a == Len(k.instruction_faults)
             b == Len(c.instruction_faults)
             d == Len(k.register_faults)
             e == Len(c.register_faults)
  <2>2. a \in Nat /\ b \in Nat /\ d \in Nat /\ e \in Nat /\ a <= b /\ d <= e
    BY <1>3, <1>4, <2>1
  <2>3. Size(k) = a + d /\ Size(c) = b + e
    BY DEF Size
  <2> HIDE DEF a, b, d, e
  <2>4. QED
    BY <2>2, <2>3
<1>6. QED
  BY <1>3, <1>4, <1>5 DEF Faults

(* A sequence is one of its subsequences, and so is one of its elements. *)
LEMMA SubsequenceSelf ==
  ASSUME NEW T, NEW t \in Seq(T) PROVE t \in Subsequences(t)
<1> DEFINE h == [i \in 1 .. Len(t) |-> i]
<1>1. Len(t) \in Nat
  BY LenProperties
<1>2. Embeds(h, t, t)
  BY <1>1 DEF Embeds
<1>3. QED
  BY <1>2, SubsequenceIs

(* One element is a subsequence. *)
LEMMA SubsequenceOne ==
  ASSUME NEW T, NEW t \in Seq(T), NEW x \in ToSet(t) PROVE <<x>> \in Subsequences(t)
<1>1. PICK i \in 1 .. Len(t) : t[i] = x
  BY ToSetOfSeq
<1> DEFINE h == [j \in 1 .. 1 |-> i]
           u == <<x>>
<1>2. x \in T /\ u \in Seq(T) /\ Len(u) = 1 /\ u[1] = x
  BY <1>1, ElementOfSeq
<1> HIDE DEF u
<1>3. Embeds(h, u, t)
  BY <1>1, <1>2 DEF Embeds
<1>4. u \in Subsequences(t)
  BY <1>2, <1>3, SubsequenceIs
<1>5. QED
  BY <1>4 DEF u

(* No element is a subsequence of any. *)
LEMMA SubsequenceNone ==
  ASSUME NEW T, NEW t \in Seq(T) PROVE <<>> \in Subsequences(t)
<1> DEFINE h == [j \in 1 .. 0 |-> 0]
           u == <<>>
<1>1. u \in Seq(T) /\ Len(u) = 0
  OBVIOUS
<1> HIDE DEF u
<1>2. Embeds(h, u, t)
  BY <1>1 DEF Embeds
<1>3. u \in Subsequences(t)
  BY <1>1, <1>2, SubsequenceIs
<1>4. QED
  BY <1>3 DEF u

(* What is a subsequence stays one when an element is added behind. *)
LEMMA SubsequenceOfLonger ==
  ASSUME NEW T, NEW t \in Seq(T), NEW x \in T, NEW u \in Subsequences(t)
  PROVE  u \in Subsequences(Append(t, x))
<1> DEFINE v == Append(t, x)
<1>1. u \in Seq(T) /\ \E h : Embeds(h, u, t)
  BY SubsequenceIs
<1>2. PICK h : Embeds(h, u, t)
  BY <1>1
<1>3. v \in Seq(T) /\ Len(v) = Len(t) + 1 /\ \A i \in 1 .. Len(t) : v[i] = t[i]
  BY AppendProperties
<1>4. Len(t) \in Nat
  BY LenProperties
<1> HIDE DEF v
<1>5. \A i \in 1 .. Len(t) : i \in 1 .. Len(v)
  BY <1>3, <1>4
<1>6. /\ h \in [1 .. Len(u) -> 1 .. Len(t)]
      /\ \A j, k \in 1 .. Len(u) : j < k => h[j] < h[k]
      /\ \A k \in 1 .. Len(u) : u[k] = t[h[k]]
  BY <1>2 DEF Embeds
<1>7. h \in [1 .. Len(u) -> 1 .. Len(v)] /\ \A k \in 1 .. Len(u) : u[k] = v[h[k]]
  BY <1>3, <1>5, <1>6
<1>8. Embeds(h, u, v)
  BY <1>6, <1>7 DEF Embeds
<1>9. u \in Subsequences(v)
  BY <1>1, <1>3, <1>8, SubsequenceIs
<1>10. QED
  BY <1>9 DEF v

(* A further fault goes to the end of those of its kind. *)
LEMMA PlacesNext ==
  ASSUME NEW c \in Seq(FaultRecord), NEW f \in FaultRecord, NEW kind \in BOOLEAN
  PROVE  ElementsAt(Append(c, f), KindPlaces(Append(c, f), kind)) =
           IF f.instruction = kind THEN Append(ElementsAt(c, KindPlaces(c, kind)), f)
           ELSE ElementsAt(c, KindPlaces(c, kind))
<1> DEFINE n == Len(c)
           t == Append(c, f)
           D == KindPlaces(c, kind)
           E == KindPlaces(t, kind)
<1>1. n \in Nat /\ DOMAIN c = 1 .. n
  BY LenProperties
<1>2. t \in Seq(FaultRecord) /\ Len(t) = n + 1 /\ t[n + 1] = f /\ \A i \in 1 .. n : t[i] = c[i]
  BY AppendProperties
<1>3. DOMAIN t = 1 .. n + 1
  BY <1>2
<1> HIDE DEF t, n
<1>4. D \in SUBSET (1 .. n)
  BY <1>1 DEF KindPlaces
<1>5. E = IF f.instruction = kind THEN D \cup {n + 1} ELSE D
  <2>1. \A i : i \in 1 .. n + 1 <=> i \in 1 .. n \/ i = n + 1
    BY <1>1
  <2>2. \A i \in 1 .. n : i # n + 1
    BY <1>1
  <2>3. \A i : i \in E <=> i \in 1 .. n + 1 /\ t[i].instruction = kind
    BY <1>3 DEF KindPlaces
  <2>4. \A i : i \in D <=> i \in 1 .. n /\ c[i].instruction = kind
    BY <1>1 DEF KindPlaces
  <2> HIDE DEF D, E
  <2>5. \A i : i \in E <=> i \in D \/ (i = n + 1 /\ f.instruction = kind)
    BY <1>2, <2>1, <2>2, <2>3, <2>4
  <2>6. QED
    BY <2>5
<1> HIDE DEF D, E
<1>6. ElementsAt(t, D) = ElementsAt(c, D)
  <2>1. Len(c) <= Len(t) /\ \A i \in 1 .. Len(c) : t[i] = c[i]
    BY <1>1, <1>2 DEF n
  <2>2. QED
    BY <1>2, <1>4, <2>1, ElementsAtSame DEF n
<1>7. ElementsAt(t, D \cup {n + 1}) = Append(ElementsAt(t, D), f)
  <2>1. D \in SUBSET (1 .. Len(t)) /\ n + 1 \in 1 .. Len(t) /\ \A d \in D : d < n + 1
    BY <1>1, <1>2, <1>4
  <2>2. ElementsAt(t, D \cup {n + 1}) = Append(ElementsAt(t, D), t[n + 1])
    BY <1>2, <2>1, ElementsAtNext
  <2>3. QED
    BY <1>2, <2>2
<1>8. QED
  BY <1>5, <1>6, <1>7 DEF t, D, E

(* The combination of a longer chain, field by field. *)
LEMMA CombinationNext ==
  ASSUME NEW c \in Seq(FaultRecord), NEW f \in FaultRecord
  PROVE  /\ Append(c, f) \in Seq(FaultRecord)
         /\ Combination(Append(c, f)).instruction_faults =
              IF f.instruction THEN Append(Combination(c).instruction_faults, f)
              ELSE Combination(c).instruction_faults
         /\ Combination(Append(c, f)).register_faults =
              IF f.instruction THEN Combination(c).register_faults
              ELSE Append(Combination(c).register_faults, f)
<1> DEFINE t == Append(c, f)
<1>1. t \in Seq(FaultRecord)
  BY AppendProperties
<1>2. f.instruction \in BOOLEAN
  BY DEF FaultRecord
<1>3. /\ Combination(c).instruction_faults = ElementsAt(c, KindPlaces(c, TRUE))
      /\ Combination(c).register_faults = ElementsAt(c, KindPlaces(c, FALSE))
  BY CombinationIs
<1>4. /\ Combination(t).instruction_faults = ElementsAt(t, KindPlaces(t, TRUE))
      /\ Combination(t).register_faults = ElementsAt(t, KindPlaces(t, FALSE))
  <2> HIDE DEF t
  <2>1. QED
    BY <1>1, CombinationIs
<1>5. ElementsAt(t, KindPlaces(t, TRUE)) =
        IF f.instruction = TRUE THEN Append(ElementsAt(c, KindPlaces(c, TRUE)), f)
        ELSE ElementsAt(c, KindPlaces(c, TRUE))
  BY PlacesNext
<1>6. ElementsAt(t, KindPlaces(t, FALSE)) =
        IF f.instruction = FALSE THEN Append(ElementsAt(c, KindPlaces(c, FALSE)), f)
        ELSE ElementsAt(c, KindPlaces(c, FALSE))
  BY PlacesNext
<1> HIDE DEF t
<1>7. CASE f.instruction = TRUE
  BY <1>1, <1>3, <1>4, <1>5, <1>6, <1>7 DEF t
<1>8. CASE f.instruction = FALSE
  BY <1>1, <1>3, <1>4, <1>5, <1>6, <1>8 DEF t
<1>9. QED
  BY <1>2, <1>7, <1>8

(* What the combination of a chain includes, that of a longer one does.     *)
LEMMA IncludesNext ==
  ASSUME NEW c \in Seq(FaultRecord), NEW f \in FaultRecord, NEW k, Includes(Combination(c), k)
  PROVE  Includes(Combination(Append(c, f)), k)
<1> DEFINE a == Combination(c)
           b == Combination(Append(c, f))
<1>1. a \in Combined
  BY CombinationIs
<1>2. /\ b.instruction_faults = IF f.instruction THEN Append(a.instruction_faults, f) ELSE a.instruction_faults
      /\ b.register_faults = IF f.instruction THEN a.register_faults ELSE Append(a.register_faults, f)
  BY CombinationNext
<1> HIDE DEF a, b
<1>3. a.instruction_faults \in Seq(FaultRecord) /\ a.register_faults \in Seq(FaultRecord)
  BY <1>1, SizeIsNat
<1>4. /\ k.instruction_faults \in Subsequences(a.instruction_faults)
      /\ k.register_faults \in Subsequences(a.register_faults)
  BY DEF Includes, a
<1>5. k.instruction_faults \in Subsequences(Append(a.instruction_faults, f))
  BY <1>3, <1>4, SubsequenceOfLonger
<1>6. k.register_faults \in Subsequences(Append(a.register_faults, f))
  BY <1>3, <1>4, SubsequenceOfLonger
<1>7. Includes(b, k)
  BY <1>2, <1>4, <1>5, <1>6 DEF Includes
<1>8. QED
  BY <1>7 DEF b

(* A combination includes itself, *)
LEMMA IncludesSelf ==
  ASSUME NEW k \in Combined PROVE Includes(k, k)
<1>1. k.instruction_faults \in Seq(FaultRecord) /\ k.register_faults \in Seq(FaultRecord)
  BY SizeIsNat
<1>2. k.instruction_faults \in Subsequences(k.instruction_faults)
  BY <1>1, SubsequenceSelf
<1>3. k.register_faults \in Subsequences(k.register_faults)
  BY <1>1, SubsequenceSelf
<1>4. QED
  BY <1>2, <1>3 DEF Includes

(* that of the chain without its last fault, *)
LEMMA IncludesPrevious ==
  ASSUME NEW c \in Seq(FaultRecord), NEW f \in FaultRecord
  PROVE  Includes(Combination(Append(c, f)), Combination(c))
<1>1. Combination(c) \in Combined
  BY CombinationIs
<1>2. Includes(Combination(c), Combination(c))
  BY <1>1, IncludesSelf
<1>3. QED
  BY <1>2, IncludesNext

(* A sequence without elements is empty. *)
LEMMA NoElements ==
  ASSUME NEW S, NEW s \in Seq(S), ToSet(s) = {} PROVE s = <<>> /\ Len(s) = 0
<1> DEFINE n == Len(s)
<1>1. n \in Nat
  BY LenProperties
<1>2. \A i : i \notin 1 .. n
  BY ToSetOfSeq
<1> HIDE DEF n
<1>3. n = 0
  <2>1. n # 0 => 1 \in 1 .. n
    BY <1>1
  <2>2. QED
    BY <1>2, <2>1
<1>4. QED
  BY <1>3, EmptySeq DEF n

(* and that of its last fault. *)
LEMMA IncludesLast ==
  ASSUME NEW c \in Seq(FaultRecord), NEW f \in FaultRecord
  PROVE  Includes(Combination(Append(c, f)), Combination(<<f>>))
<1> DEFINE a == Combination(c)
           b == Combination(Append(c, f))
           e == <<>>
           o == Combination(e)
           k == Combination(Append(e, f))
<1>1. a \in Combined
  BY CombinationIs
<1>2. e \in Seq(FaultRecord)
  OBVIOUS
<1>3. /\ b.instruction_faults = IF f.instruction THEN Append(a.instruction_faults, f) ELSE a.instruction_faults
      /\ b.register_faults = IF f.instruction THEN a.register_faults ELSE Append(a.register_faults, f)
  BY CombinationNext
<1>4. /\ k.instruction_faults = IF f.instruction THEN Append(o.instruction_faults, f) ELSE o.instruction_faults
      /\ k.register_faults = IF f.instruction THEN o.register_faults ELSE Append(o.register_faults, f)
  <2> HIDE DEF e
  <2>1. QED
    BY <1>2, CombinationNext
<1>5. o \in Combined /\ Faults(o) = ToSet(e)
  <2> HIDE DEF e
  <2>1. QED
    BY <1>2, CombinationIs
<1>6. o.instruction_faults = <<>> /\ o.register_faults = <<>>
  <2>1. ToSet(e) = {}
    BY DEF ToSet
  <2>2. Faults(o) = {}
    BY <1>5, <2>1
  <2> HIDE DEF o
  <2>3. ToSet(o.instruction_faults) = {} /\ ToSet(o.register_faults) = {}
    BY <2>2 DEF Faults
  <2>4. o.instruction_faults \in Seq(FaultRecord) /\ o.register_faults \in Seq(FaultRecord)
    BY <1>5, SizeIsNat
  <2>5. \A s \in Seq(FaultRecord) : ToSet(s) = {} => s = <<>>
    BY NoElements
  <2>6. QED
    BY <2>3, <2>4, <2>5
<1>7. Append(e, f) = <<f>>
  OBVIOUS
<1> HIDE DEF a, b, e, o
<1>8. a.instruction_faults \in Seq(FaultRecord) /\ a.register_faults \in Seq(FaultRecord)
  BY <1>1, SizeIsNat
<1>9. ASSUME NEW t \in Seq(FaultRecord)
      PROVE  <<>> \in Subsequences(t) /\ Append(<<>>, f) \in Subsequences(Append(t, f))
  <2>1. <<>> \in Subsequences(t)
    BY SubsequenceNone
  <2> DEFINE u == Append(t, f)
  <2>2. u \in Seq(FaultRecord) /\ f \in ToSet(u)
    BY AppendSet
  <2> HIDE DEF u
  <2>3. <<f>> \in Subsequences(u)
    BY <2>2, SubsequenceOne
  <2>4. QED
    BY <2>1, <2>3 DEF u
<1>10. CASE f.instruction
  <2> HIDE DEF k
  <2>1. k.instruction_faults = Append(<<>>, f) /\ k.register_faults = <<>>
    BY <1>4, <1>6, <1>10 DEF k
  <2>2. b.instruction_faults = Append(a.instruction_faults, f) /\ b.register_faults = a.register_faults
    BY <1>3, <1>10
  <2>3. QED
    BY <1>7, <1>8, <1>9, <2>1, <2>2 DEF Includes, b, k
<1>11. CASE ~f.instruction
  <2> HIDE DEF k
  <2>1. k.instruction_faults = <<>> /\ k.register_faults = Append(<<>>, f)
    BY <1>4, <1>6, <1>11 DEF k
  <2>2. b.instruction_faults = a.instruction_faults /\ b.register_faults = Append(a.register_faults, f)
    BY <1>3, <1>11
  <2>3. QED
    BY <1>7, <1>8, <1>9, <2>1, <2>2 DEF Includes, b, k
<1>12. QED
  BY <1>10, <1>11

(* A fault of a combination is one of the parts it is found by. *)
LEMMA HashedByFault ==
  ASSUME NEW k \in Combined, NEW f \in Faults(k)
  PROVE  <<f>> \in HashedParts(k)
<1> DEFINE a == k.instruction_faults
           b == k.register_faults
           s == a \o b
           t == StdSort(s, FaultLess)
<1>1. a \in Seq(FaultRecord) /\ b \in Seq(FaultRecord)
  BY SizeIsNat
<1>2. s \in Seq(FaultRecord) /\ f \in ToSet(s)
  <2>1. f \in ToSet(a) \/ f \in ToSet(b)
    BY DEF Faults
  <2> HIDE DEF a, b
  <2>2. s \in Seq(FaultRecord)
    BY <1>1, ConcatProperties
  <2>3. QED
    BY <1>1, <2>1, <2>2, ConcatSet
<1>3. SortedFaults(k) = t
  BY DEF SortedFaults
<1> HIDE DEF s
<1>4. t \in Seq(FaultRecord) /\ ToSet(t) = ToSet(s)
  BY <1>2, SortFaults
<1> HIDE DEF t
<1>5. <<f>> \in Subsequences(t)
  BY <1>2, <1>4, SubsequenceOne
<1>6. <<f>> # <<>>
  OBVIOUS
<1>7. QED
  BY <1>3, <1>5, <1>6 DEF HashedParts

(* is_fault_redundant finds an included combination, if the known ones are  *)
(* sorted by their size,                                                    *)
LEMMA RedundantIf ==
  ASSUME known \in Seq(Combined), \A i \in DOMAIN known : Size(known[i]) # 0,
         \A i, j \in DOMAIN known : i < j => Size(known[i]) <= Size(known[j]),
         NEW c \in Combined, NEW k \in ToSet(known), Includes(c, k)
  PROVE  Redundant(c)
<1>1. PICK i \in DOMAIN known : known[i] = k
  BY DEF ToSet
<1>2. DOMAIN known = 1 .. Len(known) /\ Len(known) \in Nat /\ \A j \in DOMAIN known : known[j] \in Combined
  <2>1. DOMAIN known = 1 .. Len(known) /\ Len(known) \in Nat
    BY LenProperties
  <2>2. \A j \in 1 .. Len(known) : known[j] \in Combined
    BY ElementOfSeq
  <2>3. QED
    BY <2>1, <2>2
<1>3. k \in Combined /\ Faults(k) \subseteq Faults(c) /\ Size(k) <= Size(c)
  <2>1. k \in Combined
    BY <1>1, <1>2
  <2>2. QED
    BY <2>1, IncludedIsSmaller
<1>4. Faults(k) # {}
  <2>1. Size(k) # 0
    BY <1>1
  <2>2. k.instruction_faults \in Seq(FaultRecord) /\ k.register_faults \in Seq(FaultRecord)
    BY <1>3, SizeIsNat
  <2>3. \A s \in Seq(FaultRecord) : ToSet(s) = {} => Len(s) = 0
    BY NoElements
  <2>4. ASSUME Faults(k) = {} PROVE Size(k) = 0
    <3>1. ToSet(k.instruction_faults) = {} /\ ToSet(k.register_faults) = {}
      BY <2>4 DEF Faults
    <3>2. Len(k.instruction_faults) = 0 /\ Len(k.register_faults) = 0
      BY <2>2, <2>3, <3>1
    <3>3. QED
      BY <3>2 DEF Size
  <2>5. QED
    BY <2>1, <2>4
<1>5. PICK f \in Faults(k) : TRUE
  BY <1>4
<1> DEFINE part == <<f>>
<1>6. part \in HashedParts(k)
  BY <1>3, HashedByFault
<1>7. part \in HashedParts(c)
  <2>1. f \in Faults(c)
    BY <1>3
  <2>2. QED
    BY <2>1, HashedByFault
<1> HIDE DEF part
<1> DEFINE candidates == {j \in DOMAIN known : part \in HashedParts(known[j])}
<1>8. i \in candidates
  BY <1>1, <1>6
<1>9. \A j \in candidates : j <= i => Size(known[j]) <= Size(c)
  <2>1. ASSUME NEW j \in DOMAIN known, j <= i PROVE Size(known[j]) <= Size(c)
    <3>1. Size(known[j]) \in Nat /\ Size(known[i]) \in Nat /\ Size(c) \in Nat
      BY <1>2, SizeIsNat
    <3>2. Size(known[j]) <= Size(known[i])
      <4>1. j < i \/ j = i
        BY <1>2, <2>1
      <4>2. CASE j < i
        BY <4>2
      <4>3. CASE j = i
        BY <3>1, <4>3
      <4>4. QED
        BY <4>1, <4>2, <4>3
    <3>3. Size(known[i]) <= Size(c)
      BY <1>1, <1>3
    <3>4. QED
      BY <3>1, <3>2, <3>3
  <2>2. QED
    BY <2>1
<1>10. Includes(c, known[i])
  BY <1>1
<1>11. QED
  BY <1>7, <1>8, <1>9, <1>10 DEF Redundant

(* and nothing else. *)
LEMMA RedundantOnlyIf ==
  ASSUME NEW c, Redundant(c)
  PROVE  \E k \in ToSet(known) : Includes(c, k)
<1>1. PICK part \in HashedParts(c) :
        \E i \in {i \in DOMAIN known : part \in HashedParts(known[i])} : Includes(c, known[i])
  BY DEF Redundant
<1>2. PICK i \in DOMAIN known : Includes(c, known[i])
  BY <1>1
<1>3. known[i] \in ToSet(known)
  BY DEF ToSet
<1>4. QED
  BY <1>2, <1>3

-----------------------------------------------------------------------------
(* Chains of faults *)

(* The constants of the program are numbers. *)
LEMMA FaultsConstants == Length \in Nat /\ Registers \in Nat
  BY FaultsAssumption

(* Where the next level begins: at most one instruction after the last fault. *)
LEMMA EntryTimeIs ==
  ASSUME NEW models, NEW chain \in Seq(FaultRecord)
  PROVE  /\ EntryTime(models, chain) \in Nat
         /\ chain = <<>> => EntryTime(models, chain) = 0
         /\ chain # <<>> => /\ Last(chain) \in FaultRecord /\ Last(chain) = chain[Len(chain)]
                            /\ Len(chain) \in 1 .. Len(chain)
                            /\ EntryTime(models, chain) <= Last(chain).time + 1
<1>1. CASE chain = <<>>
  BY <1>1 DEF EntryTime
<1>2. CASE chain # <<>>
  <2> DEFINE f == Last(chain)
  <2>1. Len(chain) \in 1 .. Len(chain)
    <3>1. Len(chain) \in Nat /\ Len(chain) # 0
      BY <1>2, EmptySeq, LenProperties
    <3>2. QED
      BY <3>1
  <2>2. f = chain[Len(chain)] /\ f \in FaultRecord
    BY <2>1, ElementOfSeq DEF Last
  <2>3. EntryTime(models, chain) = IF f.instruction /\ ~models[f.model].permanent THEN f.time + 1 ELSE f.time
    BY <1>2 DEF EntryTime, LetsExecute
  <2>4. f.time \in Nat
    BY <2>2 DEF FaultRecord
  <2> HIDE DEF f
  <2>5. EntryTime(models, chain) \in Nat /\ EntryTime(models, chain) <= f.time + 1
    BY <2>3, <2>4
  <2>6. QED
    BY <1>2, <2>1, <2>2, <2>5 DEF f
<1>3. QED
  BY <1>1, <1>2

(* What an injected fault looks like. *)
IsInjected(f, m, limit) ==
  /\ f \in FaultRecord /\ f.model = m
  /\ f.time <= limit \/ f.time <= Length
  /\ f.where <= Length + Registers

(* The fields of a fault. *)
LEMMA FaultIs ==
  ASSUME NEW i \in BOOLEAN, NEW m \in Nat, NEW t \in Nat, NEW w \in Nat
  PROVE  /\ Fault(i, m, t, w) \in FaultRecord
         /\ Fault(i, m, t, w).instruction = i /\ Fault(i, m, t, w).model = m
         /\ Fault(i, m, t, w).time = t /\ Fault(i, m, t, w).where = w
  BY DEF Fault, FaultRecord

(* What may be injected after a chain. *)
LEMMA InjectableIs ==
  ASSUME NEW models \in Seq(IdModel), NEW m \in 1 .. Len(models), NEW chain \in Seq(FaultRecord),
         NEW f \in Injectable(models, m, chain)
  PROVE  IsInjected(f, m, EntryTime(models, chain))
<1> DEFINE e == EntryTime(models, chain)
           instruction == models[m].instruction
<1>0. m \in Nat /\ Length \in Nat /\ Registers \in Nat /\ instruction \in BOOLEAN
  <2>1. models[m] \in IdModel
    BY ElementOfSeq
  <2>2. m \in Nat
    BY LenProperties
  <2>3. QED
    BY <2>1, <2>2, FaultsConstants DEF IdModel
<1>1. e \in Nat
  BY EntryTimeIs
<1>2. CASE f \in PermanentFaults(models, m, chain)
  <2> DEFINE first == IF chain # <<>> /\ Last(chain).model = m THEN Last(chain).where + 1 ELSE 0
             last == (IF instruction THEN Length ELSE Registers) - 1
  <2>1. first \in Nat
    <3>1. CASE chain # <<>>
      <4>1. Last(chain) \in FaultRecord
        BY <3>1, EntryTimeIs
      <4>2. Last(chain).where \in Nat
        BY <4>1 DEF FaultRecord
      <4>3. QED
        BY <4>2
    <3>2. CASE chain = <<>>
      BY <3>2
    <3>3. QED
      BY <3>1, <3>2
  <2>2. last \in Int /\ last <= Length + Registers
    BY <1>0
  <2>3. PICK where \in first .. last : f = Fault(instruction, m, e, where)
    BY <1>2 DEF PermanentFaults
  <2> HIDE DEF e, first, last, instruction
  <2>4. where \in Nat /\ where <= Length + Registers
    BY <1>0, <2>1, <2>2
  <2>5. f \in FaultRecord /\ f.model = m /\ f.time = e /\ f.where = where
    BY <1>0, <1>1, <2>3, <2>4, FaultIs
  <2>6. f.time <= e /\ f.where <= Length + Registers
    BY <1>1, <2>4, <2>5
  <2>7. QED
    BY <2>5, <2>6 DEF IsInjected, e
<1>3. CASE f \in TransientInstructionFaults(models, m, chain)
  <2>1. PICK time \in e .. Length - 1 : f = Fault(TRUE, m, time, time)
    BY <1>3 DEF TransientInstructionFaults
  <2> HIDE DEF e
  <2>2. time \in Nat /\ time <= Length /\ time <= Length + Registers
    BY <1>0, <1>1
  <2>3. f \in FaultRecord /\ f.model = m /\ f.time = time /\ f.where = time
    BY <1>0, <2>1, <2>2 DEF Fault, FaultRecord
  <2>4. QED
    BY <2>2, <2>3 DEF IsInjected
<1>4. CASE f \in TransientRegisterFaults(models, m, chain)
  <2>1. \E time \in e .. Length - 1 : \E where \in 0 .. Registers - 1 : f = Fault(FALSE, m, time, where)
    <3>1. PICK at \in (e .. Length - 1) \X (0 .. Registers - 1) : f = Fault(FALSE, m, at[1], at[2])
      BY <1>4 DEF TransientRegisterFaults
    <3> HIDE DEF e
    <3>2. at[1] \in e .. Length - 1 /\ at[2] \in 0 .. Registers - 1
      OBVIOUS
    <3>3. QED
      BY <3>1, <3>2
  <2>5. PICK time \in e .. Length - 1 : \E where \in 0 .. Registers - 1 : f = Fault(FALSE, m, time, where)
    BY <2>1
  <2>6. PICK where \in 0 .. Registers - 1 : f = Fault(FALSE, m, time, where)
    BY <2>5
  <2> HIDE DEF e
  <2>2. time \in Nat /\ time <= Length /\ where \in Nat /\ where <= Length + Registers
    BY <1>0, <1>1
  <2>3. f \in FaultRecord /\ f.model = m /\ f.time = time /\ f.where = where
    BY <1>0, <2>6, <2>2 DEF Fault, FaultRecord
  <2>4. QED
    BY <2>2, <2>3 DEF IsInjected
<1>5. QED
  BY <1>2, <1>3, <1>4 DEF Injectable

(* A second fault is never the first one again. *)
LEMMA SecondFaultDiffers ==
  ASSUME NEW models \in Seq(IdModel), NEW m \in 1 .. Len(models), NEW p \in FaultRecord,
         NEW f \in Injectable(models, m, <<p>>)
  PROVE  f # p
<1> SUFFICES ASSUME f = p PROVE FALSE
  OBVIOUS
<1> DEFINE c == <<p>>
<1>0. m \in Nat /\ Length \in Nat /\ Registers \in Nat /\ models[m].instruction \in BOOLEAN
      /\ models[m].permanent \in BOOLEAN
  <2>1. models[m] \in IdModel
    BY ElementOfSeq
  <2>2. m \in Nat
    BY LenProperties
  <2>3. QED
    BY <2>1, <2>2, FaultsConstants DEF IdModel
<1>1. c # <<>> /\ Last(c) = p /\ \A g : g \in ToSet(c) <=> g = p
  BY DEF Last, ToSet
<1>2. p.instruction \in BOOLEAN /\ p.model \in Nat /\ p.time \in Nat /\ p.where \in Nat
  BY DEF FaultRecord
<1>3. EntryTime(models, c) = IF p.instruction /\ ~models[p.model].permanent THEN p.time + 1 ELSE p.time
  BY <1>1 DEF EntryTime, LetsExecute
<1>4. f \in Injectable(models, m, c)
  OBVIOUS
<1> HIDE DEF c
<1>5. \A g, kind : g \in Others(c, kind) <=> g = p /\ p.instruction = kind
  BY <1>1 DEF Others
<1>6. CASE f \in PermanentFaults(models, m, c)
  <2>1. PICK where : /\ where \notin {g.where : g \in Others(c, models[m].instruction)}
                     /\ f = Fault(models[m].instruction, m, EntryTime(models, c), where)
    BY <1>6 DEF PermanentFaults
  <2>2. f.instruction = models[m].instruction /\ f.where = where
    BY <2>1 DEF Fault
  <2>3. p \in Others(c, models[m].instruction)
    BY <1>5, <2>2
  <2>4. QED
    BY <2>1, <2>2, <2>3
<1>7. CASE ~models[m].permanent /\ f \in TransientInstructionFaults(models, m, c)
  <2>1. PICK time \in EntryTime(models, c) .. Length - 1 : f = Fault(TRUE, m, time, time)
    BY <1>7 DEF TransientInstructionFaults
  <2>2. f.instruction = TRUE /\ f.model = m /\ f.time = time
    BY <2>1 DEF Fault
  <2>3. EntryTime(models, c) = p.time + 1
    BY <1>3, <1>7, <2>2
  <2>4. time \in p.time + 1 .. Length - 1 /\ time = p.time
    BY <2>1, <2>2, <2>3
  <2>5. QED
    BY <1>0, <1>2, <2>4
<1>8. CASE f \in TransientRegisterFaults(models, m, c)
  <2> DEFINE S == {Fault(FALSE, m, at[1], at[2]) :
                     at \in (EntryTime(models, c) .. Length - 1) \X (0 .. Registers - 1)}
             free(g) == g.where = f.where => ~models[g.model].permanent /\ g.time # f.time
             U == {g \in S : \A h \in Others(c, FALSE) :
                               h.where = g.where => ~models[h.model].permanent /\ h.time # g.time}
  <2>1. f \in U
    BY <1>8 DEF TransientRegisterFaults
  <2>2. f.instruction = FALSE
    <3>1. f \in S
      BY <2>1
    <3>2. \E time, where : f = Fault(FALSE, m, time, where)
      BY <3>1
    <3>3. QED
      BY <3>2 DEF Fault
  <2>3. \A g \in Others(c, FALSE) : free(g)
    <3> HIDE DEF S
    <3>1. QED
      BY <2>1
  <2>4. p \in Others(c, FALSE)
    BY <1>5, <2>2
  <2>5. QED
    BY <2>3, <2>4
<1>9. QED
  BY <1>4, <1>6, <1>7, <1>8 DEF Injectable

-----------------------------------------------------------------------------
(* Chains of a list, one model after the other *)

(* Each chain with each fault that may follow. *)
Extended(models, m, chains) == UNION {{Append(c, f) : f \in Injectable(models, m, c)} : c \in chains}

(* u[n] is the chains of the first n models. *)
IsChainFunction(u, models, list) ==
  /\ u \in [0 .. Len(list) -> SUBSET Seq(FaultRecord)]
  /\ u[0] = {<<>>}
  /\ \A n \in 1 .. Len(list) : u[n] = Extended(models, list[n], u[n - 1])
  /\ Chains(models, list) = u[Len(list)]

(* The chains with one more fault. *)
LEMMA ExtendedIs ==
  ASSUME NEW models \in Seq(IdModel), NEW m \in 1 .. Len(models), NEW chains \in SUBSET Seq(FaultRecord)
  PROVE  /\ Extended(models, m, chains) \in SUBSET Seq(FaultRecord)
         /\ \A x : x \in Extended(models, m, chains)
                     <=> \E c \in chains : \E f \in Injectable(models, m, c) : x = Append(c, f)
<1>1. ASSUME NEW x
      PROVE  x \in Extended(models, m, chains)
               <=> \E c \in chains : \E f \in Injectable(models, m, c) : x = Append(c, f)
  BY DEF Extended
<1>2. ASSUME NEW c \in chains, NEW f \in Injectable(models, m, c) PROVE Append(c, f) \in Seq(FaultRecord)
  <2>1. f \in FaultRecord
    BY InjectableIs DEF IsInjected
  <2>2. QED
    BY <2>1, AppendProperties
<1>3. Extended(models, m, chains) \in SUBSET Seq(FaultRecord)
  <2> DEFINE E == Extended(models, m, chains)
             Q == Seq(FaultRecord)
  <2>1. \A x \in E : x \in Q
    BY <1>1, <1>2
  <2> HIDE DEF E, Q
  <2>2. E \in SUBSET Q
    BY <2>1
  <2>3. QED
    BY <2>2 DEF E, Q
<1>4. QED
  BY <1>1, <1>3

(* f goes from base on by step. *)
Iterates(f, Q, N, base, step) ==
  f \in [0 .. N -> Q] /\ f[0] = base /\ \A n \in 1 .. N : f[n] = step[n][f[n - 1]]

(* A value that is computed step by step. *)
LEMMA IterationExists ==
  ASSUME NEW Q, NEW base \in Q, NEW N \in Nat, NEW step \in [1 .. N -> [Q -> Q]]
  PROVE  \E f : Iterates(f, Q, N, base, step)
<1>1. \E f \in [0 .. N -> Q] : f[0] = base /\ \A n \in 1 .. N : f[n] = step[n][f[n - 1]]
  BY RecursionByStep
<1>2. QED
  BY <1>1 DEF Iterates

(* The chains of a list are computed so. *)
LEMMA ChainsByStep ==
  ASSUME NEW models \in Seq(IdModel), NEW list \in Seq(1 .. Len(models))
  PROVE  \E u : IsChainFunction(u, models, list)
<1> DEFINE N == Len(list)
           Q == SUBSET Seq(FaultRecord)
           by == [n \in 1 .. N |-> [C \in Q |-> Extended(models, list[n], C)]]
           base == {<<>>}
<1>0. N \in Nat /\ \A i \in 1 .. N : list[i] \in 1 .. Len(models)
  BY LenProperties, ElementOfSeq
<1>1. ASSUME NEW n \in 1 .. N, NEW C \in Q PROVE Extended(models, list[n], C) \in Q
  <2>1. list[n] \in 1 .. Len(models)
    BY <1>0
  <2>2. QED
    BY <2>1, ExtendedIs
<1>2. base \in Q
  OBVIOUS
<1> HIDE DEF N, Q, base
<1>3. by \in [1 .. N -> [Q -> Q]] /\ \A n \in 1 .. N : \A C \in Q : by[n][C] = Extended(models, list[n], C)
  BY <1>1
<1> HIDE DEF by
<1>4. \E f : Iterates(f, Q, N, base, by)
  <2>1. N \in Nat
    BY <1>0
  <2>2. by \in [1 .. N -> [Q -> Q]]
    BY <1>3
  <2>3. QED
    BY <1>2, <2>1, <2>2, IterationExists
<1>5. PICK f \in [0 .. N -> Q] : f[0] = base /\ \A n \in 1 .. N : f[n] = by[n][f[n - 1]]
  BY <1>4 DEF Iterates
<1>6. ASSUME NEW n \in 1 .. N PROVE n - 1 \in 0 .. N /\ f[n] = Extended(models, list[n], f[n - 1])
  <2>1. n - 1 \in 0 .. N
    BY <1>0
  <2>2. f[n - 1] \in Q
    BY <1>5, <2>1
  <2>3. QED
    BY <1>3, <1>5, <2>1, <2>2
<1>7. f = [i \in 0 .. N |-> IF i = 0 THEN {<<>>}
                            ELSE UNION {{Append(c, x) : x \in Injectable(models, list[i], c)} : c \in f[i - 1]}]
  <2>1. \A i \in 0 .. N :
          f[i] = IF i = 0 THEN {<<>>}
                 ELSE UNION {{Append(c, x) : x \in Injectable(models, list[i], c)} : c \in f[i - 1]}
    <3>1. TAKE i \in 0 .. N
    <3>2. CASE i = 0
      BY <1>5, <3>2 DEF base
    <3>3. CASE i # 0
      <4>1. i \in 1 .. N
        BY <1>0, <3>3
      <4>2. f[i] = Extended(models, list[i], f[i - 1])
        BY <1>6, <4>1
      <4>3. QED
        BY <3>3, <4>2 DEF Extended
    <3>4. QED
      BY <3>2, <3>3
  <2>2. QED
    BY <1>5, <2>1
<1> DEFINE g == CHOOSE g : g = [i \in 0 .. N |->
                  IF i = 0 THEN {<<>>}
                  ELSE UNION {{Append(c, x) : x \in Injectable(models, list[i], c)} : c \in g[i - 1]}]
<1>8. g = [i \in 0 .. N |-> IF i = 0 THEN {<<>>}
                            ELSE UNION {{Append(c, x) : x \in Injectable(models, list[i], c)} : c \in g[i - 1]}]
  BY <1>7
<1>9. Chains(models, list) = g[N]
  BY DEF Chains, N
<1> HIDE DEF g
<1>10. g[0] = base
  BY <1>0, <1>8 DEF base
<1>11. \A n \in 1 .. N : g[n] = Extended(models, list[n], g[n - 1])
  <2>1. TAKE n \in 1 .. N
  <2>2. n \in 0 .. N /\ n # 0
    BY <1>0
  <2>3. QED
    BY <1>8, <2>2 DEF Extended
<1> DEFINE Good == {n \in 0 .. N : g[n] \in Q}
<1>12. Good = 0 .. N
  <2>1. 0 \in Good
    BY <1>0, <1>2, <1>10
  <2>2. ASSUME NEW n \in Good, n < N PROVE n + 1 \in Good
    <3>1. n \in 0 .. N /\ g[n] \in Q
      OBVIOUS
    <3>2. n + 1 \in 1 .. N /\ n + 1 \in 0 .. N /\ (n + 1) - 1 = n
      BY <1>0, <2>2, <3>1
    <3>3. g[n + 1] = Extended(models, list[n + 1], g[n])
      BY <1>11, <3>2
    <3>4. QED
      BY <1>1, <3>1, <3>2, <3>3
  <2>3. Good \in SUBSET (0 .. N)
    OBVIOUS
  <2> HIDE DEF Good
  <2>4. QED
    BY <1>0, <2>1, <2>2, <2>3, IntervalInduct
<1>13. g \in [0 .. N -> Q]
  <2>1. \A n \in 0 .. N : g[n] \in Q
    BY <1>12
  <2>2. DOMAIN g = 0 .. N /\ g = [i \in 0 .. N |-> g[i]]
    BY <1>8
  <2>3. QED
    BY <2>1, <2>2
<1>14. IsChainFunction(g, models, list)
  BY <1>9, <1>10, <1>11, <1>13 DEF IsChainFunction, N, Q, base
<1>15. QED
  BY <1>14

(* The chains of no model, and those of a list with one more. *)
LEMMA ChainsNone ==
  ASSUME NEW models \in Seq(IdModel) PROVE Chains(models, <<>>) = {<<>>}
<1> DEFINE list == <<>>
<1>1. list \in Seq(1 .. Len(models)) /\ Len(list) = 0
  OBVIOUS
<1> HIDE DEF list
<1>2. \E u : IsChainFunction(u, models, list)
  BY <1>1, ChainsByStep
<1>3. PICK u : IsChainFunction(u, models, list)
  BY <1>2
<1>4. Chains(models, list) = u[0] /\ u[0] = {<<>>}
  BY <1>1, <1>3 DEF IsChainFunction
<1>5. QED
  BY <1>4 DEF list

(* The chains of a list with one more model. *)
LEMMA ChainsNext ==
  ASSUME NEW models \in Seq(IdModel), NEW list \in Seq(1 .. Len(models)), NEW m \in 1 .. Len(models)
  PROVE  /\ Append(list, m) \in Seq(1 .. Len(models))
         /\ Chains(models, list) \in SUBSET Seq(FaultRecord)
         /\ Chains(models, Append(list, m)) = Extended(models, m, Chains(models, list))
<1> DEFINE T == 1 .. Len(models)
           N == Len(list)
           longer == Append(list, m)
<1>1. N \in Nat
  BY LenProperties
<1>2. longer \in Seq(T) /\ Len(longer) = N + 1 /\ longer[N + 1] = m /\ \A i \in 1 .. N : longer[i] = list[i]
  BY AppendProperties
<1> HIDE DEF longer, T
<1>3. \E v : IsChainFunction(v, models, list)
  BY ChainsByStep
<1>4. \E u : IsChainFunction(u, models, longer)
  BY <1>2, ChainsByStep DEF T
<1>5. PICK v : IsChainFunction(v, models, list)
  BY <1>3
<1>6. PICK u : IsChainFunction(u, models, longer)
  BY <1>4
<1> HIDE DEF N
<1>7. /\ v \in [0 .. N -> SUBSET Seq(FaultRecord)] /\ v[0] = {<<>>}
      /\ \A n \in 1 .. N : v[n] = Extended(models, list[n], v[n - 1])
      /\ Chains(models, list) = v[N]
  BY <1>5 DEF IsChainFunction, N
<1>8. /\ u[0] = {<<>>}
      /\ \A n \in 1 .. N + 1 : u[n] = Extended(models, longer[n], u[n - 1])
      /\ Chains(models, longer) = u[N + 1]
  BY <1>2, <1>6 DEF IsChainFunction
<1> DEFINE Same == {n \in 0 .. N : u[n] = v[n]}
<1>9. Same = 0 .. N
  <2>1. 0 \in Same
    <3>1. 0 \in 0 .. N
      BY <1>1
    <3>2. u[0] = v[0]
      BY <1>7, <1>8
    <3>3. QED
      BY <3>1, <3>2
  <2>2. ASSUME NEW n \in Same, n < N PROVE n + 1 \in Same
    <3>1. n \in 0 .. N /\ u[n] = v[n]
      OBVIOUS
    <3>2. n + 1 \in 1 .. N /\ n + 1 \in 1 .. N + 1 /\ n + 1 \in 0 .. N /\ (n + 1) - 1 = n
      BY <1>1, <2>2, <3>1
    <3>3. u[n + 1] = Extended(models, longer[n + 1], u[n])
      BY <1>8, <3>2
    <3>4. v[n + 1] = Extended(models, list[n + 1], v[n])
      BY <1>7, <3>2
    <3>5. longer[n + 1] = list[n + 1]
      BY <1>2, <3>2
    <3>6. QED
      BY <3>1, <3>2, <3>3, <3>4, <3>5
  <2>3. Same \in SUBSET (0 .. N)
    OBVIOUS
  <2> HIDE DEF Same
  <2>4. QED
    BY <1>1, <2>1, <2>2, <2>3, IntervalInduct
<1>10. u[N] = v[N]
  <2>1. N \in 0 .. N
    BY <1>1
  <2> HIDE DEF Same
  <2>2. N \in Same
    BY <1>9, <2>1
  <2>3. QED
    BY <2>2 DEF Same
<1>11. u[N + 1] = Extended(models, m, u[N])
  <2>1. N + 1 \in 1 .. N + 1 /\ (N + 1) - 1 = N
    BY <1>1
  <2>2. u[N + 1] = Extended(models, longer[N + 1], u[(N + 1) - 1])
    BY <1>8, <2>1
  <2>3. QED
    BY <1>2, <2>1, <2>2
<1>12. v[N] \in SUBSET Seq(FaultRecord)
  <2>1. N \in 0 .. N
    BY <1>1
  <2>2. QED
    BY <1>7, <2>1
<1>13. QED
  BY <1>2, <1>7, <1>8, <1>10, <1>11, <1>12 DEF T, longer

(* A chain has a fault of each model of its list, within the bounds. *)
ChainWithin(c, list, n) ==
  /\ c \in Seq(FaultRecord) /\ Len(c) = n
  /\ \A i \in 1 .. n :
       /\ c[i].model = list[i]
       /\ c[i].time <= Length + i
       /\ c[i].where <= Length + Registers

(* One more fault keeps the bounds. *)
LEMMA ExtendedWithin ==
  ASSUME NEW models \in Seq(IdModel), NEW list \in Seq(1 .. Len(models)), NEW n \in Nat,
         n + 1 \in 1 .. Len(list), NEW c, ChainWithin(c, list, n),
         NEW f \in Injectable(models, list[n + 1], c)
  PROVE  ChainWithin(Append(c, f), list, n + 1)
<1> DEFINE d == Append(c, f)
           m == list[n + 1]
           e == EntryTime(models, c)
<1>1. /\ c \in Seq(FaultRecord) /\ Len(c) = n
      /\ \A i \in 1 .. n : /\ c[i].model = list[i]
                           /\ c[i].time <= Length + i
                           /\ c[i].where <= Length + Registers
  BY DEF ChainWithin
<1>2. m \in 1 .. Len(models)
  BY ElementOfSeq
<1>3. Length \in Nat /\ Registers \in Nat
  BY FaultsConstants
<1> HIDE DEF m
<1>4. IsInjected(f, m, e)
  <2>1. f \in Injectable(models, m, c)
    BY DEF m
  <2>2. QED
    BY <1>1, <1>2, <2>1, InjectableIs
<1>5. e \in Nat /\ e <= Length + (n + 1)
  <2>1. CASE c = <<>>
    <3>1. e = 0
      BY <1>1, <2>1, EntryTimeIs
    <3>2. QED
      BY <1>3, <3>1
  <2>2. CASE c # <<>>
    <3>1. /\ e \in Nat /\ Last(c) = c[Len(c)] /\ Len(c) \in 1 .. Len(c) /\ e <= Last(c).time + 1
          /\ Last(c) \in FaultRecord
      BY <1>1, <2>2, EntryTimeIs
    <3>2. c[n].time <= Length + n /\ Last(c) = c[n]
      BY <1>1, <3>1
    <3> DEFINE t == c[n].time
    <3>3. t \in Nat
      BY <3>1, <3>2 DEF FaultRecord
    <3>4. e <= t + 1 /\ t <= Length + n
      BY <3>1, <3>2
    <3> HIDE DEF e, t
    <3>5. QED
      BY <1>3, <3>1, <3>3, <3>4
  <2>3. QED
    BY <2>1, <2>2
<1>6. f \in FaultRecord /\ f.model = m /\ f.where <= Length + Registers /\ (f.time <= e \/ f.time <= Length)
  BY <1>4 DEF IsInjected
<1> HIDE DEF e
<1>7. f.time <= Length + (n + 1)
  <2>1. f.time \in Nat
    BY <1>6 DEF FaultRecord
  <2>2. QED
    BY <1>3, <1>5, <1>6, <2>1
<1>8. d \in Seq(FaultRecord) /\ Len(d) = n + 1 /\ d[n + 1] = f /\ \A i \in 1 .. n : d[i] = c[i]
  <2>1. /\ d \in Seq(FaultRecord) /\ Len(d) = Len(c) + 1 /\ d[Len(c) + 1] = f
        /\ \A i \in 1 .. Len(c) : d[i] = c[i]
    <3>1. c \in Seq(FaultRecord) /\ f \in FaultRecord
      BY <1>1, <1>6
    <3>2. QED
      BY <3>1, AppendProperties
  <2> HIDE DEF d
  <2>2. QED
    BY <1>1, <2>1
<1> HIDE DEF d
<1>9. \A i \in 1 .. n + 1 : /\ d[i].model = list[i]
                            /\ d[i].time <= Length + i
                            /\ d[i].where <= Length + Registers
  <2>1. TAKE i \in 1 .. n + 1
  <2>2. CASE i \in 1 .. n
    BY <1>1, <1>8, <2>2
  <2>3. CASE i = n + 1
    BY <1>6, <1>7, <1>8, <2>3 DEF m
  <2>4. i \in 1 .. n \/ i = n + 1
    OBVIOUS
  <2>5. QED
    BY <2>2, <2>3, <2>4
<1>10. QED
  BY <1>8, <1>9 DEF ChainWithin, d

(* Every chain of a list is within them. *)
LEMMA ChainsWithin ==
  ASSUME NEW models \in Seq(IdModel), NEW list \in Seq(1 .. Len(models)), NEW c \in Chains(models, list)
  PROVE  ChainWithin(c, list, Len(list))
<1> DEFINE N == Len(list)
<1>0. N \in Nat /\ \A n \in 1 .. N : list[n] \in 1 .. Len(models)
  BY LenProperties, ElementOfSeq
<1>1. \E u : IsChainFunction(u, models, list)
  BY ChainsByStep
<1>2. PICK u : IsChainFunction(u, models, list)
  BY <1>1
<1>3. /\ u \in [0 .. N -> SUBSET Seq(FaultRecord)] /\ u[0] = {<<>>}
      /\ \A n \in 1 .. N : u[n] = Extended(models, list[n], u[n - 1])
      /\ Chains(models, list) = u[N]
  BY <1>2 DEF IsChainFunction
<1> DEFINE Good == {n \in 0 .. N : \A d \in u[n] : ChainWithin(d, list, n)}
<1>4. 0 \in Good
  <2>1. ChainWithin(<<>>, list, 0)
    BY DEF ChainWithin
  <2>2. \A d \in u[0] : ChainWithin(d, list, 0)
    BY <1>3, <2>1
  <2>3. QED
    BY <1>0, <2>2
<1>5. ASSUME NEW n \in Good, n < N PROVE n + 1 \in Good
  <2>1. n \in 0 .. N /\ \A d \in u[n] : ChainWithin(d, list, n)
    OBVIOUS
  <2> HIDE DEF Good
  <2>2. n \in Nat /\ n + 1 \in 1 .. N /\ n + 1 \in 0 .. N /\ (n + 1) - 1 = n
    BY <1>0, <1>5, <2>1
  <2>3. u[n + 1] = Extended(models, list[n + 1], u[n])
    BY <1>3, <2>2
  <2>4. ASSUME NEW d \in u[n + 1] PROVE ChainWithin(d, list, n + 1)
    <3>1. list[n + 1] \in 1 .. Len(models) /\ u[n] \in SUBSET Seq(FaultRecord)
      BY <1>0, <1>3, <2>1, <2>2
    <3>2. d \in Extended(models, list[n + 1], u[n])
      BY <2>3
    <3>3. \E b \in u[n] : \E f \in Injectable(models, list[n + 1], b) : d = Append(b, f)
      BY <3>1, <3>2, ExtendedIs
    <3>4. PICK b \in u[n] : \E f \in Injectable(models, list[n + 1], b) : d = Append(b, f)
      BY <3>3
    <3>5. PICK f \in Injectable(models, list[n + 1], b) : d = Append(b, f)
      BY <3>4
    <3>6. ChainWithin(b, list, n)
      BY <2>1
    <3>7. ChainWithin(Append(b, f), list, n + 1)
      BY <2>2, <3>6, ExtendedWithin DEF N
    <3>8. QED
      BY <3>5, <3>7
  <2>5. QED
    BY <2>2, <2>4 DEF Good
<1>6. Good = 0 .. N
  <2>1. Good \in SUBSET (0 .. N)
    OBVIOUS
  <2> HIDE DEF Good, N
  <2>2. QED
    BY <1>0, <1>4, <1>5, <2>1, IntervalInduct
<1>7. N \in Good
  <2> HIDE DEF Good
  <2>1. N \in 0 .. N
    BY <1>0
  <2>2. QED
    BY <1>6, <2>1
<1>8. QED
  BY <1>3, <1>7

(* Chains are finitely many. *)
Bounded(N, T, W) == [instruction : BOOLEAN, model : 0 .. N, time : 0 .. T, where : 0 .. W]

(* Faults within bounds are finitely many. *)
LEMMA BoundedFinite ==
  ASSUME NEW N \in Nat, NEW T \in Nat, NEW W \in Nat
  PROVE  IsFiniteSet(Bounded(N, T, W))
<1> DEFINE A == 0 .. N
           B == 0 .. T
           C == 0 .. W
           P == ((BOOLEAN \X A) \X B) \X C
           F == [x \in P |-> [instruction |-> x[1][1][1], model |-> x[1][1][2], time |-> x[1][2], where |-> x[2]]]
           R == [instruction : BOOLEAN, model : A, time : B, where : C]
<1>1. IsFiniteSet(A) /\ IsFiniteSet(B) /\ IsFiniteSet(C)
  BY FS_Interval
<1>2. IsFiniteSet(BOOLEAN)
  <2>1. IsFiniteSet({} \cup {TRUE})
    BY FS_EmptySet, FS_AddElement
  <2>2. IsFiniteSet(({} \cup {TRUE}) \cup {FALSE})
    BY <2>1, FS_AddElement
  <2>3. BOOLEAN = ({} \cup {TRUE}) \cup {FALSE}
    OBVIOUS
  <2>4. QED
    BY <2>2, <2>3
<1> HIDE DEF A, B, C
<1>3. IsFiniteSet(P)
  <2>1. IsFiniteSet(BOOLEAN \X A)
    BY <1>1, <1>2, FS_Product
  <2>2. IsFiniteSet((BOOLEAN \X A) \X B)
    BY <1>1, <2>1, FS_Product
  <2>3. QED
    BY <1>1, <2>2, FS_Product
<1>4. \A x \in P : x[1][1][1] \in BOOLEAN /\ x[1][1][2] \in A /\ x[1][2] \in B /\ x[2] \in C
  OBVIOUS
<1>5. F \in [P -> R]
  BY <1>4
<1>6. \A r \in R : \E x \in P : F[x] = r
  <2>1. TAKE r \in R
  <2> DEFINE x == <<<<<<r.instruction, r.model>>, r.time>>, r.where>>
  <2>2. x \in P
    OBVIOUS
  <2>3. F[x] = [instruction |-> x[1][1][1], model |-> x[1][1][2], time |-> x[1][2], where |-> x[2]]
    BY <2>2
  <2>4. F[x] = [instruction |-> r.instruction, model |-> r.model, time |-> r.time, where |-> r.where]
    BY <2>3
  <2>5. r = [instruction |-> r.instruction, model |-> r.model, time |-> r.time, where |-> r.where]
    OBVIOUS
  <2>6. QED
    BY <2>2, <2>4, <2>5
<1> HIDE DEF P, F, R
<1>7. F \in Surjection(P, R)
  BY <1>5, <1>6 DEF Surjection
<1>8. IsFiniteSet(R)
  BY <1>3, <1>7, FS_Surjection
<1>9. QED
  BY <1>8 DEF Bounded, R, A, B, C

(* Short chains of them are finitely many. *)
LEMMA ShortChainsFinite ==
  ASSUME NEW M \in Nat, NEW K \in Nat
  PROVE  IsFiniteSet(ShortLists(Bounded(M, Length + K, Length + Registers), K))
<1> DEFINE B == Bounded(M, Length + K, Length + Registers)
<1>1. Length + K \in Nat /\ Length + Registers \in Nat
  BY FaultsConstants
<1>2. IsFiniteSet(B)
  BY <1>1, BoundedFinite
<1> HIDE DEF B
<1>3. IsFiniteSet(ShortLists(B, K))
  BY <1>2, ShortListsFinite
<1>4. QED
  BY <1>3 DEF B

(* Every chain is one of these. *)
LEMMA ChainBounded ==
  ASSUME NEW models \in Seq(IdModel), NEW list \in Seq(1 .. Len(models)),
         NEW K \in Nat, Len(list) <= K, NEW c \in Chains(models, list)
  PROVE  c \in ShortLists(Bounded(Len(models), Length + K, Length + Registers), K)
<1> DEFINE N == Len(list)
           M == Len(models)
           B == Bounded(M, Length + K, Length + Registers)
<1>1. /\ N \in Nat /\ N <= K /\ M \in Nat /\ Length \in Nat /\ Registers \in Nat
      /\ \A i \in 1 .. N : list[i] \in 1 .. M
  BY LenProperties, ElementOfSeq, FaultsConstants
<1>2. ChainWithin(c, list, N)
  BY ChainsWithin
<1>3. /\ c \in Seq(FaultRecord) /\ Len(c) = N
      /\ \A i \in 1 .. N : /\ c[i].model = list[i]
                           /\ c[i].time <= Length + i
                           /\ c[i].where <= Length + Registers
  BY <1>2 DEF ChainWithin
<1>4. ASSUME NEW i \in 1 .. N PROVE c[i] \in B
  <2>1. c[i] \in FaultRecord
    BY <1>3, ElementOfSeq
  <2> DEFINE f == c[i]
  <2>2. /\ f \in FaultRecord /\ f.model = list[i] /\ f.time <= Length + i /\ f.where <= Length + Registers
        /\ list[i] \in 1 .. M /\ i \in Nat /\ i <= N
    BY <1>1, <1>3, <2>1
  <2> HIDE DEF f, N, M, B
  <2>3. f.time \in Nat /\ f.where \in Nat /\ f.model \in Nat /\ f.instruction \in BOOLEAN
    BY <2>2 DEF FaultRecord
  <2>4. f.time <= Length + K /\ f.model <= M
    BY <1>1, <2>2, <2>3
  <2>5. f.time \in 0 .. Length + K /\ f.model \in 0 .. M /\ f.where \in 0 .. Length + Registers
    BY <1>1, <2>2, <2>3, <2>4
  <2>6. f = [instruction |-> f.instruction, model |-> f.model, time |-> f.time, where |-> f.where]
    BY <2>2 DEF FaultRecord
  <2>7. f \in B
    BY <2>3, <2>5, <2>6 DEF Bounded, B
  <2>8. QED
    BY <2>7 DEF f
<1> HIDE DEF N, M, B
<1>5. c \in [1 .. N -> B]
  <2>1. DOMAIN c = 1 .. N /\ c = [i \in DOMAIN c |-> c[i]]
    BY <1>3
  <2>2. QED
    BY <1>4, <2>1
<1>6. c \in Seq(B)
  BY <1>1, <1>5
<1>7. QED
  BY <1>1, <1>3, <1>6 DEF ShortLists, B, M

-----------------------------------------------------------------------------
(* Beginnings of a list *)

(* The beginning of a sequence. *)
LEMMA PrefixIs ==
  ASSUME NEW T, NEW list \in Seq(T), NEW i \in 0 .. Len(list)
  PROVE  /\ SubSeq(list, 1, i) \in Seq(T) /\ Len(SubSeq(list, 1, i)) = i
         /\ \A j \in 1 .. i : SubSeq(list, 1, i)[j] = list[j]
<1>1. Len(list) \in Nat /\ \A j \in 1 .. Len(list) : list[j] \in T
  BY LenProperties, ElementOfSeq
<1>2. 1 \in Int /\ i \in Int /\ \A j \in 1 .. i : list[j] \in T
  BY <1>1
<1>3. /\ SubSeq(list, 1, i) \in Seq(T)
      /\ Len(SubSeq(list, 1, i)) = (IF 1 <= i THEN i - 1 + 1 ELSE 0)
      /\ \A j \in 1 .. i - 1 + 1 : SubSeq(list, 1, i)[j] = list[1 + j - 1]
  BY <1>2, SubSeqProperties
<1>4. i - 1 + 1 = i /\ (IF 1 <= i THEN i - 1 + 1 ELSE 0) = i /\ \A j \in 1 .. i : 1 + j - 1 = j
  BY <1>1
<1>5. QED
  BY <1>3, <1>4

(* A beginning with one more element. *)
LEMMA PrefixNext ==
  ASSUME NEW T, NEW list \in Seq(T), NEW i \in 1 .. Len(list)
  PROVE  SubSeq(list, 1, i) = Append(SubSeq(list, 1, i - 1), list[i])
<1> DEFINE p == SubSeq(list, 1, i)
           q == SubSeq(list, 1, i - 1)
           r == Append(q, list[i])
<1>1. Len(list) \in Nat /\ list[i] \in T /\ i - 1 \in 0 .. Len(list) /\ i \in 0 .. Len(list) /\ i \in Nat
  BY LenProperties, ElementOfSeq
<1>2. p \in Seq(T) /\ Len(p) = i /\ \A j \in 1 .. i : p[j] = list[j]
  BY <1>1, PrefixIs
<1>3. q \in Seq(T) /\ Len(q) = i - 1 /\ \A j \in 1 .. i - 1 : q[j] = list[j]
  BY <1>1, PrefixIs
<1> HIDE DEF p, q
<1>4. r \in Seq(T) /\ Len(r) = Len(q) + 1 /\ r[Len(q) + 1] = list[i] /\ \A j \in 1 .. Len(q) : r[j] = q[j]
  BY <1>1, <1>3, AppendProperties
<1> HIDE DEF r
<1>5. Len(r) = i /\ r[i] = list[i] /\ \A j \in 1 .. i - 1 : r[j] = list[j]
  <2>1. Len(q) + 1 = i
    BY <1>1, <1>3
  <2>2. QED
    BY <1>3, <1>4, <2>1
<1>6. \A j \in 1 .. i : j \in 1 .. i - 1 \/ j = i
  BY <1>1
<1>7. \A j \in 1 .. i : p[j] = r[j]
  BY <1>2, <1>5, <1>6
<1>8. p = r
  BY <1>2, <1>4, <1>5, <1>7, SeqEqual
<1>9. QED
  BY <1>8 DEF p, q, r

(* The shortest and the longest beginning. *)
LEMMA PrefixAll ==
  ASSUME NEW T, NEW list \in Seq(T)
  PROVE  SubSeq(list, 1, 0) = <<>> /\ SubSeq(list, 1, Len(list)) = list
<1> DEFINE p == SubSeq(list, 1, Len(list))
           q == SubSeq(list, 1, 0)
<1>1. Len(list) \in Nat /\ 0 \in 0 .. Len(list) /\ Len(list) \in 0 .. Len(list)
  BY LenProperties
<1>2. p \in Seq(T) /\ Len(p) = Len(list) /\ \A j \in 1 .. Len(list) : p[j] = list[j]
  BY <1>1, PrefixIs
<1>3. q \in Seq(T) /\ Len(q) = 0
  BY <1>1, PrefixIs
<1> HIDE DEF p, q
<1>4. p = list
  BY <1>2, SeqEqual
<1>5. q = <<>>
  BY <1>3, EmptySeq
<1>6. QED
  BY <1>4, <1>5 DEF p, q

(* The beginning of a beginning. *)
LEMMA PrefixOfPrefix ==
  ASSUME NEW T, NEW list \in Seq(T), NEW j \in 0 .. Len(list), NEW i \in 0 .. j
  PROVE  SubSeq(SubSeq(list, 1, j), 1, i) = SubSeq(list, 1, i)
<1> DEFINE p == SubSeq(list, 1, j)
           q == SubSeq(p, 1, i)
           r == SubSeq(list, 1, i)
<1>1. Len(list) \in Nat /\ i \in 0 .. Len(list) /\ i \in Nat /\ j \in Nat
  BY LenProperties
<1>2. p \in Seq(T) /\ Len(p) = j /\ \A k \in 1 .. j : p[k] = list[k]
  BY PrefixIs
<1>3. r \in Seq(T) /\ Len(r) = i /\ \A k \in 1 .. i : r[k] = list[k]
  BY <1>1, PrefixIs
<1> HIDE DEF p, r
<1>4. q \in Seq(T) /\ Len(q) = i /\ \A k \in 1 .. i : q[k] = p[k]
  <2>1. i \in 0 .. Len(p)
    BY <1>2
  <2>2. QED
    BY <1>2, <2>1, PrefixIs
<1> HIDE DEF q
<1>5. \A k \in 1 .. i : k \in 1 .. j
  BY <1>1
<1>6. \A k \in 1 .. i : q[k] = r[k]
  BY <1>2, <1>3, <1>4, <1>5
<1>7. q = r
  BY <1>3, <1>4, <1>6, SeqEqual
<1>8. QED
  BY <1>7 DEF p, q, r

-----------------------------------------------------------------------------
(* The levels of an injection *)

(* The models and the current list are ones. *)
Injectables == fault_models \in Seq(IdModel) /\ current_models \in Seq(1 .. Len(fault_models))

(* What a level may be given. *)
LEMMA InjectedIs ==
  ASSUME Injectables, NEW i \in 1 .. Len(current_models), NEW chains \in SUBSET Seq(FaultRecord)
  PROVE  /\ Injected(i, chains) \in SUBSET Seq(FaultRecord)
         /\ \A c : c \in Injected(i, chains) <=> /\ c \in Extended(fault_models, current_models[i], chains)
                                                 /\ c \in tried /\ ~Redundant(Combination(c))
<1> DEFINE E == Extended(fault_models, current_models[i], chains)
<1>1. current_models[i] \in 1 .. Len(fault_models)
  BY ElementOfSeq DEF Injectables
<1>2. E \in SUBSET Seq(FaultRecord)
  BY <1>1, ExtendedIs DEF Injectables
<1>3. Injected(i, chains) = {c \in E : c \in tried /\ ~Redundant(Combination(c))}
  BY DEF Injected, Extended
<1> HIDE DEF E
<1>4. QED
  BY <1>2, <1>3 DEF E

(* What each level begins with. *)
Continued(n, chains) == IF n = 1 THEN {<<>>} ELSE chains \ Hits(n - 1, chains)

(* What the levels of an injection inject, each after the one before. *)
LevelsAre(f) ==
  /\ f \in [1 .. Len(current_models) -> SUBSET Seq(FaultRecord)]
  /\ \A n \in 1 .. Len(current_models) :
       f[n] = Injected(n, Continued(n, IF n = 1 THEN {} ELSE f[n - 1]))

(* The levels of the model are these. *)
LEMMA LevelByStep ==
  ASSUME Injectables PROVE LevelsAre(level)
<1> DEFINE N == Len(current_models)
           Q == SUBSET Seq(FaultRecord)
           by == [n \in 1 .. N |-> [C \in Q |-> Injected(n, Continued(n, C))]]
           base == {}
<1>0. N \in Nat
  BY LenProperties DEF Injectables
<1>1. ASSUME NEW n \in 1 .. N, NEW C \in Q PROVE Continued(n, C) \in Q /\ Injected(n, Continued(n, C)) \in Q
  <2>1. Continued(n, C) \in Q
    BY DEF Continued
  <2> DEFINE D == Continued(n, C)
  <2> HIDE DEF D
  <2>2. Injected(n, D) \in Q
    BY <2>1, InjectedIs DEF D
  <2>3. QED
    BY <2>1, <2>2 DEF D
<1>2. base \in Q
  OBVIOUS
<1> HIDE DEF N, Q, base
<1>3. by \in [1 .. N -> [Q -> Q]] /\ \A n \in 1 .. N : \A C \in Q : by[n][C] = Injected(n, Continued(n, C))
  BY <1>1
<1> HIDE DEF by
<1>4. \E f : Iterates(f, Q, N, base, by)
  <2>1. by \in [1 .. N -> [Q -> Q]]
    BY <1>3
  <2>2. QED
    BY <1>0, <1>2, <2>1, IterationExists
<1>5. PICK f \in [0 .. N -> Q] : f[0] = base /\ \A n \in 1 .. N : f[n] = by[n][f[n - 1]]
  BY <1>4 DEF Iterates
<1>6. ASSUME NEW n \in 1 .. N
      PROVE  /\ n - 1 \in 0 .. N /\ f[n - 1] \in Q /\ f[n] = Injected(n, Continued(n, f[n - 1]))
             /\ f[n] = IF n = 1 THEN Injected(1, {<<>>})
                       ELSE Injected(n, f[n - 1] \ Hits(n - 1, f[n - 1]))
  <2>1. n - 1 \in 0 .. N
    BY <1>0
  <2>2. f[n - 1] \in Q
    BY <1>5, <2>1
  <2>3. f[n] = Injected(n, Continued(n, f[n - 1]))
    BY <1>3, <1>5, <2>1, <2>2
  <2>4. QED
    BY <2>1, <2>2, <2>3 DEF Continued
<1> DEFINE h == [n \in 1 .. N |-> f[n]]
<1>7. h = [i \in 1 .. N |-> IF i = 1 THEN Injected(1, {<<>>})
                            ELSE Injected(i, h[i - 1] \ Hits(i - 1, h[i - 1]))]
  <2>1. ASSUME NEW i \in 1 .. N
        PROVE  h[i] = IF i = 1 THEN Injected(1, {<<>>})
                      ELSE Injected(i, h[i - 1] \ Hits(i - 1, h[i - 1]))
    <3>1. CASE i = 1
      BY <1>6, <3>1
    <3>2. CASE i # 1
      <4>1. i - 1 \in 1 .. N
        BY <1>0, <3>2
      <4>2. h[i - 1] = f[i - 1] /\ h[i] = f[i]
        BY <4>1
      <4> HIDE DEF h
      <4>3. QED
        BY <1>6, <3>2, <4>2
    <3>3. QED
      BY <3>1, <3>2
  <2>2. h = [i \in 1 .. N |-> h[i]]
    OBVIOUS
  <2> HIDE DEF h
  <2>3. QED
    BY <2>1, <2>2
<1>8. level = [i \in 1 .. N |-> IF i = 1 THEN Injected(1, {<<>>})
                                ELSE Injected(i, level[i - 1] \ Hits(i - 1, level[i - 1]))]
  <2> HIDE DEF h
  <2> DEFINE g == CHOOSE g : g = [i \in 1 .. N |-> IF i = 1 THEN Injected(1, {<<>>})
                                  ELSE Injected(i, g[i - 1] \ Hits(i - 1, g[i - 1]))]
  <2>1. g = [i \in 1 .. N |-> IF i = 1 THEN Injected(1, {<<>>})
                              ELSE Injected(i, g[i - 1] \ Hits(i - 1, g[i - 1]))]
    BY <1>7
  <2>2. level = g
    BY DEF level, N
  <2> HIDE DEF g
  <2>3. QED
    BY <2>1, <2>2
<1>9. \A n \in 1 .. N : level[n] = Injected(n, Continued(n, IF n = 1 THEN {} ELSE level[n - 1]))
  BY <1>8 DEF Continued
<1> DEFINE Good == {n \in 0 .. N : n # 0 => level[n] \in Q}
<1>10. Good = 0 .. N
  <2>1. 0 \in Good
    BY <1>0
  <2>2. ASSUME NEW n \in Good, n < N PROVE n + 1 \in Good
    <3>1. n \in 0 .. N /\ (n # 0 => level[n] \in Q)
      OBVIOUS
    <3> HIDE DEF Good
    <3>2. n + 1 \in 1 .. N /\ n + 1 \in 0 .. N /\ (n + 1) - 1 = n /\ (n + 1 = 1 <=> n = 0)
      BY <1>0, <2>2, <3>1
    <3> DEFINE C == IF n + 1 = 1 THEN {} ELSE level[n]
    <3>3. C \in Q
      BY <1>2, <3>1, <3>2 DEF base
    <3>4. level[n + 1] = Injected(n + 1, Continued(n + 1, C))
      BY <1>9, <3>2
    <3> HIDE DEF C
    <3>5. level[n + 1] \in Q
      BY <1>1, <3>2, <3>3, <3>4
    <3>6. QED
      BY <3>2, <3>5 DEF Good
  <2>3. Good \in SUBSET (0 .. N)
    OBVIOUS
  <2> HIDE DEF Good
  <2>4. QED
    BY <1>0, <2>1, <2>2, <2>3, IntervalInduct
<1>11. level \in [1 .. N -> Q]
  <2>1. ASSUME NEW n \in 1 .. N PROVE level[n] \in Q
    <3>1. n \in 0 .. N /\ n # 0
      BY <1>0
    <3>2. n \in Good
      <4> HIDE DEF Good
      <4>1. QED
        BY <1>10, <3>1
    <3>3. QED
      BY <3>1, <3>2
  <2>2. DOMAIN level = 1 .. N /\ level = [i \in 1 .. N |-> level[i]]
    BY <1>8
  <2>3. QED
    BY <2>1, <2>2
<1>12. QED
  BY <1>9, <1>11 DEF LevelsAre, N, Q

(* The chains of each beginning of the list extend those of the one before. *)
LEMMA PrefixChains ==
  ASSUME Injectables, NEW i \in 1 .. Len(current_models)
  PROVE  /\ current_models[i] \in 1 .. Len(fault_models)
         /\ SubSeq(current_models, 1, i) \in Seq(1 .. Len(fault_models))
         /\ Chains(fault_models, SubSeq(current_models, 1, i)) \in SUBSET Seq(FaultRecord)
         /\ Chains(fault_models, SubSeq(current_models, 1, i - 1)) \in SUBSET Seq(FaultRecord)
         /\ Chains(fault_models, SubSeq(current_models, 1, i)) =
              Extended(fault_models, current_models[i],
                       Chains(fault_models, SubSeq(current_models, 1, i - 1)))
<1> DEFINE T == 1 .. Len(fault_models)
           p == SubSeq(current_models, 1, i - 1)
           q == SubSeq(current_models, 1, i)
           m == current_models[i]
<1>0. fault_models \in Seq(IdModel) /\ current_models \in Seq(T)
  BY DEF Injectables
<1>1. m \in T /\ i - 1 \in 0 .. Len(current_models)
  BY <1>0, ElementOfSeq, LenProperties
<1>2. p \in Seq(T)
  BY <1>0, <1>1, PrefixIs
<1>3. q = Append(p, m)
  <2> HIDE DEF T
  <2>1. QED
    BY <1>0, PrefixNext
<1> HIDE DEF p, q, m
<1>4. /\ Append(p, m) \in Seq(T) /\ Chains(fault_models, p) \in SUBSET Seq(FaultRecord)
      /\ Chains(fault_models, Append(p, m)) = Extended(fault_models, m, Chains(fault_models, p))
  BY <1>0, <1>1, <1>2, ChainsNext
<1>5. Chains(fault_models, q) \in SUBSET Seq(FaultRecord)
  <2> DEFINE C == Chains(fault_models, p)
  <2>1. C \in SUBSET Seq(FaultRecord) /\ Chains(fault_models, q) = Extended(fault_models, m, C)
    BY <1>3, <1>4
  <2> HIDE DEF C
  <2>2. Extended(fault_models, m, C) \in SUBSET Seq(FaultRecord)
    BY <1>0, <1>1, <2>1, ExtendedIs
  <2>3. QED
    BY <2>1, <2>2
<1>6. QED
  BY <1>1, <1>3, <1>4, <1>5 DEF p, q, m

(* Each level injects chains of the models up to it that are tried, none of *)
(* them redundant.                                                          *)
LEMMA LevelChains ==
  ASSUME Injectables, NEW i \in 1 .. Len(current_models)
  PROVE  /\ level[i] \in SUBSET Chains(fault_models, SubSeq(current_models, 1, i))
         /\ \A c \in level[i] : c \in tried /\ ~Redundant(Combination(c))
<1> DEFINE N == Len(current_models)
           C(n) == Chains(fault_models, SubSeq(current_models, 1, n))
           Good == {n \in 0 .. N :
                      n # 0 => /\ level[n] \in SUBSET C(n)
                               /\ \A c \in level[n] : c \in tried /\ ~Redundant(Combination(c))}
<1>0. N \in Nat /\ fault_models \in Seq(IdModel) /\ current_models \in Seq(1 .. Len(fault_models))
  BY LenProperties DEF Injectables
<1>1. LevelsAre(level)
  BY LevelByStep
<1>2. /\ level \in [1 .. N -> SUBSET Seq(FaultRecord)]
      /\ \A n \in 1 .. N : level[n] = Injected(n, Continued(n, IF n = 1 THEN {} ELSE level[n - 1]))
  BY <1>1 DEF LevelsAre
<1>3. C(0) = {<<>>}
  <2>1. SubSeq(current_models, 1, 0) = <<>>
    BY <1>0, PrefixAll
  <2>2. QED
    BY <1>0, <2>1, ChainsNone
<1>4. 0 \in Good
  BY <1>0
<1>5. ASSUME NEW n \in Good, n < N PROVE n + 1 \in Good
  <2>1. n \in 0 .. N /\ (n # 0 => level[n] \in SUBSET C(n))
    OBVIOUS
  <2> HIDE DEF Good
  <2>2. n + 1 \in 1 .. N /\ n + 1 \in 0 .. N /\ (n + 1) - 1 = n /\ (n + 1 = 1 <=> n = 0)
    BY <1>0, <1>5, <2>1
  <2> DEFINE D == Continued(n + 1, IF n + 1 = 1 THEN {} ELSE level[n])
             m == current_models[n + 1]
  <2>3. level[n + 1] = Injected(n + 1, D)
    BY <1>2, <2>2
  <2>4. D \in SUBSET C(n)
    <3>1. CASE n = 0
      BY <1>3, <2>2, <3>1 DEF Continued
    <3>2. CASE n # 0
      <4>1. D = level[n] \ Hits((n + 1) - 1, level[n])
        BY <2>2, <3>2 DEF Continued
      <4>2. QED
        BY <2>1, <3>2, <4>1
    <3>3. QED
      BY <3>1, <3>2
  <2>5. /\ C(n) \in SUBSET Seq(FaultRecord) /\ m \in 1 .. Len(fault_models)
        /\ C(n + 1) = Extended(fault_models, m, C(n))
    <3> DEFINE j == n + 1
    <3>1. j \in 1 .. Len(current_models) /\ j - 1 = n
      BY <2>2
    <3> HIDE DEF j
    <3>2. /\ current_models[j] \in 1 .. Len(fault_models)
          /\ C(j - 1) \in SUBSET Seq(FaultRecord)
          /\ C(j) = Extended(fault_models, current_models[j], C(j - 1))
      BY <3>1, PrefixChains
    <3>3. QED
      BY <3>1, <3>2 DEF j
  <2> HIDE DEF D, C, m
  <2>6. D \in SUBSET Seq(FaultRecord)
    BY <2>4, <2>5
  <2>7. \A c : c \in level[n + 1] <=> /\ c \in Extended(fault_models, m, D)
                                      /\ c \in tried /\ ~Redundant(Combination(c))
    BY <2>2, <2>3, <2>6, InjectedIs DEF m
  <2>8. \A c : c \in Extended(fault_models, m, D) => c \in Extended(fault_models, m, C(n))
    BY <2>4 DEF Extended
  <2>9. level[n + 1] \in SUBSET C(n + 1)
    BY <2>5, <2>7, <2>8
  <2>10. \A c \in level[n + 1] : c \in tried /\ ~Redundant(Combination(c))
    BY <2>7
  <2>11. QED
    BY <2>2, <2>9, <2>10 DEF Good
<1>6. Good = 0 .. N
  <2>1. Good \in SUBSET (0 .. N)
    OBVIOUS
  <2> HIDE DEF Good, N
  <2>2. QED
    BY <1>0, <1>4, <1>5, <2>1, IntervalInduct
<1>7. i \in Good /\ i # 0
  <2>1. i \in 0 .. N /\ i # 0
    BY <1>0
  <2> HIDE DEF Good
  <2>2. QED
    BY <1>6, <2>1
<1>8. QED
  BY <1>7

(* A chain is caught: what is known or found is included in it. *)
Caught(c) == \E k : (k \in ToSet(known) \/ k \in Found) /\ Includes(Combination(c), k)

(* One more fault does not undo it. *)
LEMMA CaughtNext ==
  ASSUME NEW c \in Seq(FaultRecord), NEW f \in FaultRecord, Caught(c) PROVE Caught(Append(c, f))
<1>1. PICK k : (k \in ToSet(known) \/ k \in Found) /\ Includes(Combination(c), k)
  BY DEF Caught
<1>2. Includes(Combination(Append(c, f)), k)
  BY <1>1, IncludesNext
<1>3. QED
  BY <1>1, <1>2 DEF Caught

(* What is found is what a level that ends with a chain adds. *)
LEMMA FoundIs ==
  ASSUME Injectables
  PROVE  \A k : k \in Found <=> \E i \in 1 .. Len(current_models) :
                                  \E c \in Hits(i, level[i]) : k = Combination(c)
<1>1. DOMAIN current_models = 1 .. Len(current_models)
  BY LenProperties DEF Injectables
<1> DEFINE U == UNION {Hits(i, level[i]) : i \in DOMAIN current_models}
<1>2. Found = {Combination(c) : c \in U}
  BY DEF Found
<1>3. \A c : c \in U <=> \E i \in 1 .. Len(current_models) : c \in Hits(i, level[i])
  BY <1>1
<1> HIDE DEF U
<1>4. QED
  BY <1>2, <1>3

(* Each chain of the models up to a level that is tried is injected or      *)
(* caught.                                                                  *)
LEMMA LevelCovers ==
  ASSUME Injectables, Closed(tried), NEW i \in 1 .. Len(current_models),
         NEW c \in Chains(fault_models, SubSeq(current_models, 1, i)), c \in tried, ~Caught(c)
  PROVE  c \in level[i]
<1> DEFINE N == Len(current_models)
           C(n) == Chains(fault_models, SubSeq(current_models, 1, n))
           Good == {n \in 0 .. N : n # 0 => \A d \in C(n) : d \in tried => d \in level[n] \/ Caught(d)}
<1>0. N \in Nat /\ fault_models \in Seq(IdModel) /\ current_models \in Seq(1 .. Len(fault_models))
  BY LenProperties DEF Injectables
<1>1. LevelsAre(level)
  BY LevelByStep
<1>2. /\ level \in [1 .. N -> SUBSET Seq(FaultRecord)]
      /\ \A n \in 1 .. N : level[n] = Injected(n, Continued(n, IF n = 1 THEN {} ELSE level[n - 1]))
  BY <1>1 DEF LevelsAre
<1>3. C(0) = {<<>>}
  <2>1. SubSeq(current_models, 1, 0) = <<>>
    BY <1>0, PrefixAll
  <2>2. QED
    BY <1>0, <2>1, ChainsNone
<1>4. 0 \in Good
  BY <1>0
<1>5. ASSUME NEW n \in Good, n < N PROVE n + 1 \in Good
  <2>1. n \in 0 .. N /\ (n # 0 => \A d \in C(n) : d \in tried => d \in level[n] \/ Caught(d))
    OBVIOUS
  <2> HIDE DEF Good
  <2>2. n + 1 \in 1 .. N /\ n + 1 \in 0 .. N /\ (n + 1) - 1 = n /\ (n + 1 = 1 <=> n = 0)
        /\ (n # 0 => n \in 1 .. N)
    BY <1>0, <1>5, <2>1
  <2> DEFINE D == Continued(n + 1, IF n + 1 = 1 THEN {} ELSE level[n])
             m == current_models[n + 1]
  <2>3. level[n + 1] = Injected(n + 1, D)
    BY <1>2, <2>2
  <2>4. ASSUME NEW b \in C(n), n # 0 => b \in tried, ~Caught(b) PROVE b \in D
    <3>1. CASE n = 0
      BY <1>3, <2>2, <3>1 DEF Continued
    <3>2. CASE n # 0
      <4>1. D = level[n] \ Hits(n, level[n])
        BY <2>2, <3>2 DEF Continued
      <4>2. b \in level[n]
        BY <2>1, <2>4, <3>2
      <4>3. b \notin Hits(n, level[n])
        <5>1. SUFFICES ASSUME b \in Hits(n, level[n]) PROVE FALSE
          OBVIOUS
        <5>2. Combination(b) \in Found
          BY <2>2, <3>2, <5>1, FoundIs
        <5>3. b \in Seq(FaultRecord)
          BY <1>2, <2>2, <3>2, <4>2
        <5>4. Includes(Combination(b), Combination(b))
          BY <5>3, CombinationIs, IncludesSelf
        <5>5. QED
          BY <2>4, <5>2, <5>4 DEF Caught
      <4>4. QED
        BY <4>1, <4>2, <4>3
    <3>3. QED
      BY <3>1, <3>2
  <2>5. /\ C(n) \in SUBSET Seq(FaultRecord) /\ m \in 1 .. Len(fault_models)
        /\ C(n + 1) = Extended(fault_models, m, C(n))
    <3> DEFINE j == n + 1
    <3>1. j \in 1 .. Len(current_models) /\ j - 1 = n
      BY <2>2
    <3> HIDE DEF j
    <3>2. /\ current_models[j] \in 1 .. Len(fault_models)
          /\ C(j - 1) \in SUBSET Seq(FaultRecord)
          /\ C(j) = Extended(fault_models, current_models[j], C(j - 1))
      BY <3>1, PrefixChains
    <3>3. QED
      BY <3>1, <3>2 DEF j
  <2>10. \A b \in C(n) : Len(b) = n
    <3> DEFINE p == SubSeq(current_models, 1, n)
    <3>1. n \in 0 .. Len(current_models)
      BY <2>1
    <3>2. p \in Seq(1 .. Len(fault_models)) /\ Len(p) = n
      BY <1>0, <3>1, PrefixIs
    <3> HIDE DEF p
    <3>3. \A b \in Chains(fault_models, p) : Len(b) = n
      BY <1>0, <3>2, ChainsWithin DEF ChainWithin
    <3>4. QED
      BY <3>3 DEF p
  <2>6. D \in SUBSET Seq(FaultRecord)
    <3>1. CASE n = 0
      BY <2>2, <3>1 DEF Continued
    <3>2. CASE n # 0
      <4>1. D = level[n] \ Hits((n + 1) - 1, level[n])
        BY <2>2, <3>2 DEF Continued
      <4>2. level[n] \in SUBSET Seq(FaultRecord)
        BY <1>2, <2>2, <3>2
      <4>3. QED
        BY <4>1, <4>2
    <3>3. QED
      BY <3>1, <3>2
  <2> HIDE DEF D, C, m
  <2>7. \A d : d \in level[n + 1] <=> /\ d \in Extended(fault_models, m, D)
                                      /\ d \in tried /\ ~Redundant(Combination(d))
    BY <2>2, <2>3, <2>6, InjectedIs DEF m
  <2>8. ASSUME NEW d \in C(n + 1), d \in tried, ~Caught(d) PROVE d \in level[n + 1]
    <3>1. \E b \in C(n) : \E f \in Injectable(fault_models, m, b) : d = Append(b, f)
      BY <1>0, <2>5, ExtendedIs
    <3>2. PICK b \in C(n) : \E f \in Injectable(fault_models, m, b) : d = Append(b, f)
      BY <3>1
    <3>3. PICK f \in Injectable(fault_models, m, b) : d = Append(b, f)
      BY <3>2
    <3>4. b \in Seq(FaultRecord) /\ f \in FaultRecord
      <4>1. b \in Seq(FaultRecord)
        BY <2>5
      <4>2. IsInjected(f, m, EntryTime(fault_models, b))
        BY <1>0, <2>5, <4>1, InjectableIs
      <4>3. QED
        BY <4>1, <4>2 DEF IsInjected
    <3>5. ~Caught(b)
      BY <2>8, <3>3, <3>4, CaughtNext
    <3>6. b \in D
      <4>1. b = <<>> \/ b \in tried
        BY <2>8, <3>3, <3>4 DEF Closed
      <4>2. n # 0 => b # <<>>
        BY <2>10, <3>4, EmptySeq
      <4>3. QED
        BY <2>4, <3>5, <4>1, <4>2
    <3>7. d \in Extended(fault_models, m, D)
      BY <3>3, <3>6 DEF Extended
    <3>8. ~Redundant(Combination(d))
      <4>1. Redundant(Combination(d)) => \E k \in ToSet(known) : Includes(Combination(d), k)
        BY RedundantOnlyIf
      <4>2. QED
        BY <2>8, <4>1 DEF Caught
    <3>9. QED
      BY <2>7, <2>8, <3>7, <3>8
  <2>9. QED
    BY <2>2, <2>8 DEF Good
<1>6. Good = 0 .. N
  <2>1. Good \in SUBSET (0 .. N)
    OBVIOUS
  <2> HIDE DEF Good, N
  <2>2. QED
    BY <1>0, <1>4, <1>5, <2>1, IntervalInduct
<1>7. i \in Good /\ i # 0
  <2>1. i \in 0 .. N /\ i # 0
    BY <1>0
  <2> HIDE DEF Good
  <2>2. QED
    BY <1>6, <2>1
<1>8. QED
  BY <1>7

(* Nothing exploitable that is tried is missed. *)
LEMMA InjectionCovers ==
  ASSUME Injectables, Closed(tried), current_models # <<>>,
         NEW c \in Chains(fault_models, current_models), c \in tried, ToSet(c) \in exploitable
  PROVE  Caught(c)
<1> DEFINE N == Len(current_models)
<1>1. N \in Nat /\ N # 0 /\ N \in 1 .. N
  BY EmptySeq, LenProperties DEF Injectables
<1>2. SubSeq(current_models, 1, N) = current_models
  BY PrefixAll DEF Injectables
<1>3. SUFFICES ASSUME ~Caught(c) PROVE FALSE
  OBVIOUS
<1>4. c \in level[N]
  BY <1>1, <1>2, <1>3, LevelCovers
<1>5. c \in Hits(N, level[N])
  BY <1>4 DEF Hits
<1>6. Combination(c) \in Found
  BY <1>1, <1>5, FoundIs
<1>7. Combination(c) \in Combined
  <2>1. level[N] \in SUBSET Seq(FaultRecord)
    BY <1>1, LevelByStep DEF LevelsAre
  <2>2. QED
    BY <1>4, <2>1, CombinationIs
<1>8. Includes(Combination(c), Combination(c))
  BY <1>7, IncludesSelf
<1>9. QED
  BY <1>3, <1>6, <1>8 DEF Caught

(* What is found is an exploitable chain of the models up to some level     *)
(* that is not redundant, and there are finitely many.                      *)
FoundAt(k, i) ==
  /\ i \in 1 .. Len(current_models)
  /\ \E c \in Chains(fault_models, SubSeq(current_models, 1, i)) :
       k = Combination(c) /\ c \in tried /\ ToSet(c) \in exploitable
  /\ ~Redundant(k)

(* What is found was exploitable at some level and is not redundant. *)
LEMMA FoundAtSome ==
  ASSUME Injectables, NEW k \in Found
  PROVE  \E i : FoundAt(k, i)
<1>1. PICK i \in 1 .. Len(current_models) : \E c \in Hits(i, level[i]) : k = Combination(c)
  BY FoundIs
<1>2. PICK c \in Hits(i, level[i]) : k = Combination(c)
  BY <1>1
<1>3. c \in level[i] /\ ToSet(c) \in exploitable
  BY DEF Hits
<1>4. /\ c \in Chains(fault_models, SubSeq(current_models, 1, i))
      /\ c \in tried /\ ~Redundant(Combination(c))
  BY <1>3, LevelChains
<1>5. FoundAt(k, i)
  BY <1>2, <1>3, <1>4 DEF FoundAt
<1>6. QED
  BY <1>5

(* Finitely many combinations are found. *)
LEMMA FoundFinite ==
  ASSUME Injectables
  PROVE  IsFiniteSet(Found) /\ Found \in SUBSET Combined
<1> DEFINE N == Len(current_models)
           M == Len(fault_models)
           S == ShortLists(Bounded(M, Length + N, Length + Registers), N)
           F == [c \in S |-> Combination(c)]
           R == {F[c] : c \in S}
<1>1. N \in Nat /\ M \in Nat /\ fault_models \in Seq(IdModel) /\ current_models \in Seq(1 .. M)
  BY LenProperties DEF Injectables
<1>2. IsFiniteSet(S)
  BY <1>1, ShortChainsFinite
<1>3. ASSUME NEW k \in Found
      PROVE  \E c \in S : c \in Seq(FaultRecord) /\ k = Combination(c)
  <2>1. \E i : FoundAt(k, i)
    BY FoundAtSome
  <2>2. PICK i : FoundAt(k, i)
    BY <2>1
  <2>3. i \in 1 .. N
    BY <2>2 DEF FoundAt
  <2>4. PICK c \in Chains(fault_models, SubSeq(current_models, 1, i)) : k = Combination(c)
    BY <2>2 DEF FoundAt
  <2> DEFINE p == SubSeq(current_models, 1, i)
  <2>5. i \in 0 .. N /\ i <= N
    BY <1>1, <2>3
  <2>6. p \in Seq(1 .. M) /\ Len(p) = i
    BY <1>1, <2>5, PrefixIs
  <2>7. Chains(fault_models, p) \in SUBSET Seq(FaultRecord)
    BY <2>3, PrefixChains
  <2>8. c \in Chains(fault_models, p)
    OBVIOUS
  <2> HIDE DEF p
  <2>9. c \in S
    BY <1>1, <2>5, <2>6, <2>8, ChainBounded
  <2>10. QED
    BY <2>4, <2>7, <2>8, <2>9
<1>4. Found \in SUBSET Combined
  <2>1. ASSUME NEW k \in Found PROVE k \in Combined
    <3>1. PICK c \in S : c \in Seq(FaultRecord) /\ k = Combination(c)
      BY <1>3
    <3>2. QED
      BY <3>1, CombinationIs
  <2>2. QED
    BY <2>1
<1> HIDE DEF S
<1>5. F \in [S -> R] /\ \A r \in R : \E c \in S : F[c] = r
  OBVIOUS
<1>6. \A k \in Found : k \in R
  <2>1. TAKE k \in Found
  <2>2. PICK c \in S : k = Combination(c)
    BY <1>3
  <2>3. F[c] = k
    BY <2>2
  <2>4. QED
    BY <2>3
<1> HIDE DEF F, R
<1>7. F \in Surjection(S, R)
  BY <1>5 DEF Surjection
<1>8. IsFiniteSet(R)
  BY <1>2, <1>7, FS_Surjection
<1>9. Found \in SUBSET R
  BY <1>6
<1>10. IsFiniteSet(Found)
  BY <1>8, <1>9, FS_Subset
<1>11. QED
  BY <1>4, <1>10

-----------------------------------------------------------------------------
(* What an injection adds to the memorized combinations *)

(* One memory has all of another. *)
Agree(memo, larger) ==
  DOMAIN memo \subseteq DOMAIN larger /\ \A list \in DOMAIN memo : larger[list] = memo[list]

(* What is looked up for a list stays the same in a larger memory. *)
LEMMA KnownForAgrees ==
  ASSUME NEW memo, NEW larger, Agree(memo, larger), NEW list, LookedUp(memo, list)
  PROVE  KnownFor(larger, list) = KnownFor(memo, list)
  BY DEF Agree, LookedUp, KnownFor

(* Where a combination comes from stays the same in a larger memory. *)
LEMMA OriginAgrees ==
  ASSUME NEW models, NEW tries, NEW exploit, NEW memo, NEW larger, Agree(memo, larger),
         GoodMemo(models, tries, exploit, memo), NEW k, HasOrigin(models, memo, k)
  PROVE  HasOrigin(models, larger, k)
<1>1. PICK list \in DOMAIN memo :
        /\ k \in ToSet(memo[list])
        /\ \E c \in Chains(models, list) : k = Combination(c)
        /\ \A x \in ToSet(KnownFor(memo, list)) : ~Includes(k, x)
  BY DEF HasOrigin
<1>2. LookedUp(memo, list)
  BY DEF GoodMemo, GoodList
<1>3. KnownFor(larger, list) = KnownFor(memo, list)
  BY <1>2, KnownForAgrees
<1>4. list \in DOMAIN larger /\ larger[list] = memo[list]
  BY DEF Agree
<1>5. QED
  BY <1>1, <1>3, <1>4 DEF HasOrigin

(* What was good stays good. *)
LEMMA ListAgrees ==
  ASSUME NEW models, NEW tries, NEW exploit, NEW memo, NEW larger, Agree(memo, larger),
         GoodMemo(models, tries, exploit, memo), NEW list \in DOMAIN memo
  PROVE  GoodList(models, tries, exploit, larger, list)
<1>1. GoodList(models, tries, exploit, memo, list)
  BY DEF GoodMemo
<1>2. larger[list] = memo[list]
  BY DEF Agree
<1>3. LookedUp(larger, list) /\ LookedUp(memo, list)
  BY <1>1 DEF GoodList, LookedUp, Agree
<1>4. \A k \in ToSet(larger[list]) : Faults(k) \in exploit /\ HasOrigin(models, larger, k)
  <2>1. TAKE k \in ToSet(larger[list])
  <2>2. Faults(k) \in exploit /\ HasOrigin(models, memo, k)
    BY <1>1, <1>2 DEF GoodList
  <2>3. HasOrigin(models, larger, k)
    BY <2>2, OriginAgrees
  <2>4. QED
    BY <2>2, <2>3
<1>5. HoldsPrefixes(larger, list)
  <2>1. HoldsPrefixes(memo, list)
    BY <1>1 DEF GoodList
  <2>2. QED
    BY <1>2, <2>1 DEF HoldsPrefixes, Agree
<1>6. NewAreFull(larger, list)
  <2>1. NewAreFull(memo, list)
    BY <1>1 DEF GoodList
  <2>2. Len(list) > 1 =>
          larger[Front(list)] = memo[Front(list)] /\ larger[<<Last(list)>>] = memo[<<Last(list)>>]
    BY <1>3 DEF LookedUp, Agree
  <2>3. QED
    BY <1>2, <2>1, <2>2 DEF NewAreFull
<1>7. CoversList(models, tries, exploit, larger, list)
  <2>1. CoversList(models, tries, exploit, memo, list)
    BY <1>1 DEF GoodList
  <2>2. QED
    BY <1>2, <2>1 DEF CoversList
<1>8. larger[list] \in Seq(Combined) /\ SortedBySize(larger[list], Len(list))
  BY <1>1, <1>2 DEF GoodList
<1>9. QED
  BY <1>3, <1>4, <1>5, <1>6, <1>7, <1>8 DEF GoodList

(* One sorted sequence behind another with no larger combinations. *)
LEMMA SortedBehind ==
  ASSUME NEW a \in Seq(Combined), NEW b \in Seq(Combined), NEW m \in Nat, NEW n \in Nat,
         m <= n, SortedBySize(a, m), SortedBySize(b, n),
         \A j \in 1 .. Len(b) : \A i \in 1 .. Len(a) : Size(a[i]) <= Size(b[j])
  PROVE  a \o b \in Seq(Combined) /\ SortedBySize(a \o b, n)
<1> DEFINE k == Len(a)
           l == Len(b)
           s == a \o b
<1>1. k \in Nat /\ l \in Nat /\ DOMAIN a = 1 .. k /\ DOMAIN b = 1 .. l
  BY LenProperties
<1>2. s \in Seq(Combined) /\ Len(s) = Len(a) + Len(b)
      /\ \A i \in 1 .. Len(a) + Len(b) : s[i] = IF i <= Len(a) THEN a[i] ELSE b[i - Len(a)]
  BY ConcatProperties
<1> HIDE DEF s
<1>3. DOMAIN s = 1 .. k + l
  BY <1>2
<1>4. /\ \A i \in 1 .. k : Size(a[i]) \in 1 .. m
      /\ \A i, j \in 1 .. k : i < j => Size(a[i]) <= Size(a[j])
      /\ \A i \in 1 .. l : Size(b[i]) \in 1 .. n
      /\ \A i, j \in 1 .. l : i < j => Size(b[i]) <= Size(b[j])
  BY <1>1 DEF SortedBySize
<1>5. \A j \in 1 .. l : \A i \in 1 .. k : Size(a[i]) <= Size(b[j])
  OBVIOUS
<1>6. \A i \in 1 .. k + l : s[i] = IF i <= k THEN a[i] ELSE b[i - k]
  BY <1>2
<1> HIDE DEF k, l
<1>7. ASSUME NEW i \in 1 .. k + l
      PROVE  \/ i \in 1 .. k /\ s[i] = a[i]
             \/ i > k /\ i - k \in 1 .. l /\ s[i] = b[i - k]
  BY <1>1, <1>6
<1>8. ASSUME NEW i \in 1 .. k + l PROVE Size(s[i]) \in 1 .. n
  <2>1. CASE i \in 1 .. k /\ s[i] = a[i]
    BY <1>4, <2>1
  <2>2. CASE i - k \in 1 .. l /\ s[i] = b[i - k]
    BY <1>4, <2>2
  <2>3. QED
    BY <1>7, <2>1, <2>2
<1>9. ASSUME NEW i \in 1 .. k + l, NEW j \in 1 .. k + l, i < j PROVE Size(s[i]) <= Size(s[j])
  <2>1. CASE j \in 1 .. k /\ s[j] = a[j]
    <3>1. i \in 1 .. k /\ s[i] = a[i]
      <4>1. i \in 1 .. k /\ ~(i > k)
        BY <1>1, <1>9, <2>1
      <4>2. QED
        BY <1>7, <4>1
    <3>2. QED
      BY <1>4, <1>9, <2>1, <3>1
  <2>2. CASE j - k \in 1 .. l /\ s[j] = b[j - k]
    <3>1. CASE i \in 1 .. k /\ s[i] = a[i]
      BY <1>5, <2>2, <3>1
    <3>2. CASE i - k \in 1 .. l /\ s[i] = b[i - k]
      <4>1. i - k < j - k
        BY <1>1, <1>9
      <4>2. QED
        BY <1>4, <2>2, <3>2, <4>1
    <3>3. QED
      BY <1>7, <3>1, <3>2
  <2>3. QED
    BY <1>7, <2>1, <2>2
<1>10. SortedBySize(s, n)
  BY <1>3, <1>8, <1>9 DEF SortedBySize
<1>11. QED
  BY <1>2, <1>10 DEF s

(* Lists of models. *)
LEMMA FrontAndLast ==
  ASSUME NEW T, NEW list \in Seq(T), Len(list) > 1
  PROVE  /\ Front(list) \in Seq(T) /\ Len(Front(list)) = Len(list) - 1
         /\ <<Last(list)>> \in Seq(T) /\ Len(<<Last(list)>>) = 1
         /\ Last(list) = list[Len(list)] /\ Last(list) \in T
         /\ Front(list) = SubSeq(list, 1, Len(list) - 1)
<1> DEFINE n == Len(list)
           k == n - 1
<1>1. n \in Nat /\ n > 1 /\ k \in 0 .. Len(list) /\ n \in 1 .. Len(list)
  BY LenProperties
<1>2. Front(list) = SubSeq(list, 1, k)
  BY DEF Front
<1>3. Last(list) = list[n] /\ Last(list) \in T
  BY <1>1, ElementOfSeq DEF Last
<1> HIDE DEF k
<1>4. SubSeq(list, 1, k) \in Seq(T) /\ Len(SubSeq(list, 1, k)) = k
  BY <1>1, PrefixIs
<1>5. <<Last(list)>> \in Seq(T) /\ Len(<<Last(list)>>) = 1
  BY <1>3
<1>6. QED
  BY <1>2, <1>3, <1>4, <1>5 DEF k

(* What is known before an injection is sorted, smaller, exploitable. *)
KnownIsGood(models, tries, exploit, memo, list) ==
  /\ KnownFor(memo, list) \in Seq(Combined)
  /\ SortedBySize(KnownFor(memo, list), Len(list) - 1)
  /\ \A k \in ToSet(KnownFor(memo, list)) :
       /\ Faults(k) \in exploit /\ HasOrigin(models, memo, k)
       /\ Len(list) > 1 /\ (k \in ToSet(memo[Front(list)]) \/ k \in ToSet(memo[<<Last(list)>>]))
  /\ Len(list) > 1 => ToSet(memo[Front(list)]) \subseteq ToSet(KnownFor(memo, list))
                      /\ ToSet(memo[<<Last(list)>>]) \subseteq ToSet(KnownFor(memo, list))

(* What is looked up is sorted by size and exploitable, and comes from the  *)
(* two lists.                                                               *)
LEMMA KnownGood ==
  ASSUME NEW models, NEW tries, NEW exploit, NEW memo,
         GoodMemo(models, tries, exploit, memo),
         NEW T, NEW list \in Seq(T), list # <<>>, LookedUp(memo, list)
  PROVE  KnownIsGood(models, tries, exploit, memo, list)
<1>1. CASE Len(list) > 1
  <2> DEFINE a == memo[<<Last(list)>>]
             b == memo[Front(list)]
             m == Len(list) - 1
  <2>1. GoodList(models, tries, exploit, memo, <<Last(list)>>) /\ GoodList(models, tries, exploit, memo, Front(list))
    BY <1>1 DEF LookedUp, GoodMemo
  <2>2. /\ a \in Seq(Combined) /\ SortedBySize(a, Len(<<Last(list)>>))
        /\ b \in Seq(Combined) /\ SortedBySize(b, Len(Front(list)))
        /\ \A k \in ToSet(a) : Faults(k) \in exploit /\ HasOrigin(models, memo, k)
        /\ \A k \in ToSet(b) : Faults(k) \in exploit /\ HasOrigin(models, memo, k)
    BY <2>1 DEF GoodList
  <2>3. Len(<<Last(list)>>) = 1 /\ Len(Front(list)) = m
    BY <1>1, FrontAndLast
  <2>4. m \in Nat /\ 1 \in Nat /\ 1 <= m
    BY <1>1, LenProperties
  <2>5. KnownFor(memo, list) = a \o b
    BY <1>1 DEF KnownFor
  <2> HIDE DEF a, b, m
  <2>6. SortedBySize(a, 1) /\ SortedBySize(b, m)
    BY <2>2, <2>3
  <2>7. \A j \in 1 .. Len(b) : \A i \in 1 .. Len(a) : Size(a[i]) <= Size(b[j])
    <3>1. DOMAIN a = 1 .. Len(a) /\ DOMAIN b = 1 .. Len(b)
      BY <2>2, LenProperties
    <3>2. ASSUME NEW j \in 1 .. Len(b), NEW i \in 1 .. Len(a) PROVE Size(a[i]) <= Size(b[j])
      <4>1. Size(a[i]) \in 1 .. 1 /\ Size(b[j]) \in 1 .. m
        BY <2>6, <3>1 DEF SortedBySize
      <4>2. QED
        BY <2>4, <4>1
    <3>3. QED
      BY <3>2
  <2>8. a \o b \in Seq(Combined) /\ SortedBySize(a \o b, m)
    BY <2>2, <2>4, <2>6, <2>7, SortedBehind
  <2>9. \A k : k \in ToSet(a \o b) <=> k \in ToSet(a) \/ k \in ToSet(b)
    BY <2>2, ConcatSet
  <2>10. ToSet(a) \subseteq ToSet(a \o b) /\ ToSet(b) \subseteq ToSet(a \o b)
    BY <2>9
  <2>11. \A k \in ToSet(a \o b) : /\ Faults(k) \in exploit /\ HasOrigin(models, memo, k)
                                  /\ k \in ToSet(b) \/ k \in ToSet(a)
    BY <2>2, <2>9
  <2>12. QED
    BY <1>1, <2>5, <2>8, <2>10, <2>11 DEF KnownIsGood, a, b, m
<1>2. CASE ~(Len(list) > 1)
  <2>1. KnownFor(memo, list) = <<>>
    BY <1>2 DEF KnownFor
  <2>2. ToSet(<<>>) = {}
    BY DEF ToSet
  <2>3. SortedBySize(<<>>, Len(list) - 1)
    BY DEF SortedBySize
  <2>4. <<>> \in Seq(Combined)
    OBVIOUS
  <2>5. QED
    BY <1>2, <2>1, <2>2, <2>3, <2>4 DEF KnownIsGood
<1>3. QED
  BY <1>1, <1>2

(* What an injection finds for a list, knowing what was looked up. *)
Gives(models, tries, exploit, memo, list, new) ==
  /\ new \in Seq(Combined)
  /\ \A k \in ToSet(new) :
       /\ \A x \in ToSet(KnownFor(memo, list)) : ~Includes(k, x)
       /\ \E i \in 1 .. Len(list) : \E c \in Chains(models, SubSeq(list, 1, i)) :
            k = Combination(c) /\ c \in tries /\ ToSet(c) \in exploit
  /\ \A c \in Chains(models, list) : c \in tries /\ ToSet(c) \in exploit =>
       \E k : (k \in ToSet(KnownFor(memo, list)) \/ k \in ToSet(new)) /\ Includes(Combination(c), k)

(* The beginnings of a list whose lower orders were memorized. *)
LEMMA PrefixesMemorized ==
  ASSUME NEW models, NEW tries, NEW exploit, NEW memo,
         GoodMemo(models, tries, exploit, memo),
         NEW T, NEW list \in Seq(T), list # <<>>, LookedUp(memo, list),
         NEW i \in 1 .. Len(list), i # Len(list)
  PROVE  /\ SubSeq(list, 1, i) \in DOMAIN memo
         /\ ToSet(memo[SubSeq(list, 1, i)]) \subseteq ToSet(KnownFor(memo, list))
<1> DEFINE n == Len(list)
           j == n - 1
           p == SubSeq(list, 1, j)
<1>1. n \in Nat /\ n > 1 /\ j \in 0 .. Len(list) /\ i \in 0 .. j /\ i \in 1 .. j
  BY LenProperties
<1>2. Front(list) = p /\ Len(Front(list)) = j
  BY <1>1, FrontAndLast
<1>3. p \in DOMAIN memo
  BY <1>1, <1>2 DEF LookedUp
<1>4. ToSet(memo[p]) \subseteq ToSet(KnownFor(memo, list))
  BY <1>1, <1>2, KnownGood DEF KnownIsGood
<1> HIDE DEF j
<1>5. SubSeq(p, 1, i) = SubSeq(list, 1, i)
  BY <1>1, PrefixOfPrefix
<1>6. HoldsPrefixes(memo, p)
  BY <1>3 DEF GoodMemo, GoodList
<1>7. i \in 1 .. Len(p)
  BY <1>1, <1>2
<1> HIDE DEF p
<1>8. SubSeq(p, 1, i) \in DOMAIN memo /\ ToSet(memo[SubSeq(p, 1, i)]) \subseteq ToSet(memo[p])
  BY <1>6, <1>7 DEF HoldsPrefixes
<1>9. QED
  BY <1>4, <1>5, <1>8

(* What is new has a fault of each model. *)
LEMMA NewIsFull ==
  ASSUME NEW models \in Seq(IdModel), NEW tries, NEW exploit, NEW memo,
         GoodMemo(models, tries, exploit, memo),
         NEW list \in Seq(1 .. Len(models)), list # <<>>, LookedUp(memo, list),
         NEW new, Gives(models, tries, exploit, memo, list, new), NEW k \in ToSet(new)
  PROVE  /\ \E c \in Chains(models, list) : k = Combination(c)
         /\ Size(k) = Len(list) /\ Faults(k) \in exploit
<1>1. \A x \in ToSet(KnownFor(memo, list)) : ~Includes(k, x)
  BY DEF Gives
<1>2. PICK i \in 1 .. Len(list) : \E c \in Chains(models, SubSeq(list, 1, i)) :
                                    k = Combination(c) /\ c \in tries /\ ToSet(c) \in exploit
  BY DEF Gives
<1>3. PICK c \in Chains(models, SubSeq(list, 1, i)) : k = Combination(c) /\ c \in tries /\ ToSet(c) \in exploit
  BY <1>2
<1>4. i = Len(list)
  <2>1. SUFFICES ASSUME i # Len(list) PROVE FALSE
    OBVIOUS
  <2> DEFINE p == SubSeq(list, 1, i)
  <2>2. p \in DOMAIN memo /\ ToSet(memo[p]) \subseteq ToSet(KnownFor(memo, list))
    BY <2>1, PrefixesMemorized
  <2>3. CoversList(models, tries, exploit, memo, p)
    BY <2>2 DEF GoodMemo, GoodList
  <2>4. \E x \in ToSet(memo[p]) : Includes(k, x)
    BY <1>3, <2>3 DEF CoversList
  <2>5. QED
    BY <1>1, <2>2, <2>4
<1>5. SubSeq(list, 1, i) = list
  BY <1>4, PrefixAll
<1>6. c \in Chains(models, list)
  BY <1>5
<1>7. c \in Seq(FaultRecord) /\ Len(c) = Len(list)
  BY <1>6, ChainsWithin DEF ChainWithin
<1>8. Faults(k) = ToSet(c) /\ Size(k) = Len(c)
  BY <1>3, <1>7, CombinationIs
<1>9. QED
  BY <1>3, <1>6, <1>7, <1>8

-----------------------------------------------------------------------------
(* The memory after an injection is good *)

(* What is memorized once the new combinations of a list are. *)
Larger(memo, list, new) ==
  [l \in DOMAIN memo \cup {list} |-> IF l = list THEN KnownFor(memo, list) \o new ELSE memo[l]]

(* The memory with one more list. *)
LEMMA LargerIs ==
  ASSUME NEW memo, NEW list, NEW new, list \notin DOMAIN memo
  PROVE  /\ DOMAIN Larger(memo, list, new) = DOMAIN memo \cup {list}
         /\ Larger(memo, list, new)[list] = KnownFor(memo, list) \o new
         /\ Agree(memo, Larger(memo, list, new))
  BY DEF Larger, Agree

(* The list that is added is good. *)
LEMMA AddedIsGood ==
  ASSUME NEW models \in Seq(IdModel), NEW tries, NEW exploit, NEW memo,
         GoodMemo(models, tries, exploit, memo),
         NEW list \in Seq(1 .. Len(models)), list # <<>>, LookedUp(memo, list),
         NEW new, Gives(models, tries, exploit, memo, list, new),
         NEW larger, Agree(memo, larger), list \in DOMAIN larger,
         larger[list] = KnownFor(memo, list) \o new
  PROVE  GoodList(models, tries, exploit, larger, list)
<1> DEFINE old == KnownFor(memo, list)
           n == Len(list)
           m == n - 1
<1>1. n \in Nat /\ n > 0 /\ m \in Nat /\ m <= n /\ n \in 1 .. n
  BY LenProperties, EmptySeq
<1>2. /\ old \in Seq(Combined) /\ SortedBySize(old, m)
      /\ \A k \in ToSet(old) : Faults(k) \in exploit /\ HasOrigin(models, memo, k)
      /\ \A k \in ToSet(old) :
           Len(list) > 1 /\ (k \in ToSet(memo[Front(list)]) \/ k \in ToSet(memo[<<Last(list)>>]))
  BY KnownGood DEF KnownIsGood
<1>3. new \in Seq(Combined)
  BY DEF Gives
<1>4. \A k \in ToSet(new) :
        /\ \E c \in Chains(models, list) : k = Combination(c)
        /\ Size(k) = Len(list) /\ Faults(k) \in exploit
  BY NewIsFull
<1>5. LookedUp(larger, list)
  BY DEF LookedUp, Agree
<1>6. KnownFor(larger, list) = old
  BY KnownForAgrees
<1>7. \A k : k \in ToSet(larger[list]) <=> k \in ToSet(old) \/ k \in ToSet(new)
  BY <1>2, <1>3, ConcatSet
<1>8. larger[list] \in Seq(Combined) /\ SortedBySize(larger[list], n)
  <2>1. DOMAIN old = 1 .. Len(old) /\ DOMAIN new = 1 .. Len(new) /\ Len(old) \in Nat /\ Len(new) \in Nat
    BY <1>2, <1>3, LenProperties
  <2>2. \A j \in 1 .. Len(new) : Size(new[j]) = n
    <3>1. \A j \in 1 .. Len(new) : new[j] \in ToSet(new)
      BY <1>3, ToSetOfSeq
    <3>2. QED
      BY <1>4, <3>1
  <2> HIDE DEF old, n
  <2>3. \A i \in 1 .. Len(old) : Size(old[i]) \in 1 .. m
    BY <1>2, <2>1 DEF SortedBySize
  <2>4. \A j \in 1 .. Len(new) : \A i \in 1 .. Len(old) : Size(old[i]) <= Size(new[j])
    BY <1>1, <2>2, <2>3
  <2>5. SortedBySize(new, n)
    BY <1>1, <2>1, <2>2 DEF SortedBySize
  <2> HIDE DEF m
  <2>6. old \o new \in Seq(Combined) /\ SortedBySize(old \o new, n)
    BY <1>1, <1>2, <1>3, <2>4, <2>5, SortedBehind
  <2>7. QED
    BY <2>6 DEF old
<1>9. ASSUME NEW k \in ToSet(larger[list])
      PROVE  Faults(k) \in exploit /\ HasOrigin(models, larger, k)
  <2>1. CASE k \in ToSet(old)
    <3>1. Faults(k) \in exploit /\ HasOrigin(models, memo, k)
      BY <1>2, <2>1
    <3>2. HasOrigin(models, larger, k)
      BY <3>1, OriginAgrees
    <3>3. QED
      BY <3>1, <3>2
  <2>2. CASE k \in ToSet(new)
    <3>1. \A x \in ToSet(KnownFor(larger, list)) : ~Includes(k, x)
      BY <1>6, <2>2 DEF Gives
    <3>2. \E c \in Chains(models, list) : k = Combination(c)
      BY <1>4, <2>2
    <3>3. HasOrigin(models, larger, k)
      BY <3>1, <3>2 DEF HasOrigin
    <3>4. QED
      BY <1>4, <2>2, <3>3
  <2>3. QED
    BY <1>7, <2>1, <2>2
<1>10. HoldsPrefixes(larger, list)
  <2>1. ASSUME NEW i \in 1 .. n
        PROVE  /\ SubSeq(list, 1, i) \in DOMAIN larger
               /\ ToSet(larger[SubSeq(list, 1, i)]) \subseteq ToSet(larger[list])
    <3>1. CASE i = n
      <4>1. SubSeq(list, 1, i) = list
        BY <3>1, PrefixAll
      <4>2. QED
        BY <4>1
    <3>2. CASE i # n
      <4>1. i \in 1 .. Len(list) /\ i # Len(list)
        BY <3>2
      <4>2. /\ SubSeq(list, 1, i) \in DOMAIN memo
            /\ ToSet(memo[SubSeq(list, 1, i)]) \subseteq ToSet(old)
        BY <4>1, PrefixesMemorized
      <4>3. larger[SubSeq(list, 1, i)] = memo[SubSeq(list, 1, i)] /\ SubSeq(list, 1, i) \in DOMAIN larger
        BY <4>2 DEF Agree
      <4> HIDE DEF old
      <4>4. QED
        BY <1>7, <4>2, <4>3
    <3>3. QED
      BY <3>1, <3>2
  <2>2. QED
    BY <2>1 DEF HoldsPrefixes
<1>11. NewAreFull(larger, list)
  <2>1. n > 1 => larger[Front(list)] = memo[Front(list)] /\ larger[<<Last(list)>>] = memo[<<Last(list)>>]
    BY DEF LookedUp, Agree
  <2>2. ASSUME NEW k \in ToSet(larger[list])
        PROVE  \/ Size(k) = n
               \/ n > 1 /\ k \in ToSet(larger[Front(list)]) \cup ToSet(larger[<<Last(list)>>])
    <3>1. CASE k \in ToSet(old)
      BY <1>2, <2>1, <3>1
    <3>2. CASE k \in ToSet(new)
      BY <1>4, <3>2
    <3>3. QED
      BY <1>7, <3>1, <3>2
  <2>3. QED
    BY <2>2 DEF NewAreFull
<1>12. CoversList(models, tries, exploit, larger, list)
  <2>1. ASSUME NEW c \in Chains(models, list), c \in tries, ToSet(c) \in exploit
        PROVE  \E k \in ToSet(larger[list]) : Includes(Combination(c), k)
    <3>1. \E k : (k \in ToSet(old) \/ k \in ToSet(new)) /\ Includes(Combination(c), k)
      BY <2>1 DEF Gives
    <3> HIDE DEF old
    <3>2. QED
      BY <1>7, <3>1
  <2>2. QED
    BY <2>1 DEF CoversList
<1>13. QED
  BY <1>5, <1>8, <1>9, <1>10, <1>11, <1>12 DEF GoodList

(* The memory stays good. *)
LEMMA LargerIsGood ==
  ASSUME NEW models \in Seq(IdModel), NEW tries, NEW exploit, NEW memo,
         GoodMemo(models, tries, exploit, memo),
         NEW list \in Seq(1 .. Len(models)), list # <<>>, LookedUp(memo, list),
         list \notin DOMAIN memo,
         NEW new, Gives(models, tries, exploit, memo, list, new)
  PROVE  GoodMemo(models, tries, exploit, Larger(memo, list, new))
<1> DEFINE larger == Larger(memo, list, new)
<1>1. DOMAIN larger = DOMAIN memo \cup {list} /\ larger[list] = KnownFor(memo, list) \o new
      /\ Agree(memo, larger)
  BY LargerIs
<1> HIDE DEF larger
<1>2. GoodList(models, tries, exploit, larger, list)
  BY <1>1, AddedIsGood
<1>3. \A l \in DOMAIN memo : GoodList(models, tries, exploit, larger, l)
  BY <1>1, ListAgrees
<1>4. GoodMemo(models, tries, exploit, larger)
  BY <1>1, <1>2, <1>3 DEF GoodMemo
<1>5. QED
  BY <1>4 DEF larger

-----------------------------------------------------------------------------
(* What the threads add *)

(* A sequence that has each element of the set, once. *)
LEMMA SequenceOfSet ==
  ASSUME NEW S, IsFiniteSet(S), NEW s \in SetToSeqs(S)
  PROVE  s \in Seq(S) /\ ToSet(s) = S
<1> DEFINE n == Cardinality(S)
           D == 1 .. n
<1>1. n \in Nat
  BY FS_CardinalityType
<1>2. s \in [D -> S] /\ \A a, b \in D : s[a] = s[b] => a = b
  BY DEF SetToSeqs, IsInjective, Injection
<1>3. IsFiniteSet(D) /\ Cardinality(D) = n
  BY <1>1, FS_Interval
<1>4. s \in Seq(S) /\ DOMAIN s = D
  BY <1>1, <1>2
<1>5. \A y \in S : \E i \in D : s[i] = y
  <2> HIDE DEF D, n
  <2>1. s \in Injection(D, S)
    BY <1>2 DEF Injection, IsInjective
  <2>2. Cardinality(D) = Cardinality(S)
    BY <1>3 DEF n
  <2>3. s \in Surjection(D, S)
    BY <2>1, <2>2, FS_Injection
  <2>4. QED
    BY <2>3 DEF Surjection
<1>6. ToSet(s) = S
  BY <1>2, <1>4, <1>5 DEF ToSet
<1>7. QED
  BY <1>4, <1>6

(* What an injection adds, whatever the order in which the threads finish. *)
LEMMA ThreadsGive ==
  ASSUME Injectables, Closed(tried), current_models # <<>>,
         GoodMemo(fault_models, tried, exploitable, memorized),
         LookedUp(memorized, current_models), known = KnownFor(memorized, current_models),
         NEW found \in SetToSeqs(Found), NEW new \in WithoutDuplicates(found)
  PROVE  Gives(fault_models, tried, exploitable, memorized, current_models, new)
<1> DEFINE list == current_models
<1>1. IsFiniteSet(Found) /\ Found \in SUBSET Combined
  BY FoundFinite
<1>2. found \in Seq(Found) /\ ToSet(found) = Found
  BY <1>1, SequenceOfSet
<1>3. new \in Seq(Found) /\ ToSet(new) = Found
  BY <1>2, WithoutDuplicatesKeeps
<1>4. new \in Seq(Combined)
  BY <1>1, <1>3
<1>5. list \in Seq(1 .. Len(fault_models))
  BY DEF Injectables
<1>6. KnownIsGood(fault_models, tried, exploitable, memorized, list)
  BY <1>5, KnownGood
<1>7. known \in Seq(Combined) /\ SortedBySize(known, Len(list) - 1)
  BY <1>6 DEF KnownIsGood
<1>8. /\ \A i \in DOMAIN known : Size(known[i]) # 0
      /\ \A i, j \in DOMAIN known : i < j => Size(known[i]) <= Size(known[j])
  BY <1>7 DEF SortedBySize
<1>9. ASSUME NEW k \in Found
      PROVE  /\ \A x \in ToSet(known) : ~Includes(k, x)
             /\ \E i \in 1 .. Len(list) : \E c \in Chains(fault_models, SubSeq(list, 1, i)) :
                  k = Combination(c) /\ c \in tried /\ ToSet(c) \in exploitable
  <2>1. \E i : FoundAt(k, i)
    BY FoundAtSome
  <2>2. PICK i : FoundAt(k, i)
    BY <2>1
  <2>3. k \in Combined
    BY <1>1
  <2>4. ~Redundant(k)
    BY <2>2 DEF FoundAt
  <2>5. \A x \in ToSet(known) : ~Includes(k, x)
    BY <1>7, <1>8, <2>3, <2>4, RedundantIf
  <2>6. QED
    BY <2>2, <2>5 DEF FoundAt
<1>10. ASSUME NEW c \in Chains(fault_models, list), c \in tried, ToSet(c) \in exploitable
       PROVE  \E k : (k \in ToSet(known) \/ k \in Found) /\ Includes(Combination(c), k)
  BY <1>10, InjectionCovers DEF Caught
<1>11. QED
  BY <1>3, <1>4, <1>9, <1>10 DEF Gives

-----------------------------------------------------------------------------
(* KnownFaults: each step keeps the invariant *)

(* The list that is being injected. *)
IsCurrent ==
  /\ Injectables
  /\ current_models # <<>>
  /\ current_models \notin DOMAIN memorized
  /\ LookedUp(memorized, current_models)
  /\ GoodMemo(fault_models, tried, exploitable, memorized)
  /\ Closed(tried)

(* The list being injected is new, and its lower orders were memorized. *)
LEMMA CurrentIs ==
  ASSUME FaultsInv, phase \in {"prepare", "simulate"}
  PROVE  IsCurrent
<1> DEFINE lists == models_to_inject
           n == Len(lists)
           m == model_index
<1>1. ListsInv /\ pc = "done" /\ Injections
  BY DEF FaultsInv
<1>2. /\ fault_models \in Seq(IdModel) /\ lists \in Seq(Seq(1 .. Len(fault_models)))
      /\ \A list : IsWanted(list, fault_models, max) <=> \E i \in 1 .. Len(lists) : lists[i] = list
      /\ \A i, j \in 1 .. Len(lists) : i < j => lists[i] # lists[j]
  BY <1>1, ListsAtEnd
<1>3. n \in Nat /\ DOMAIN lists = 1 .. n
  BY <1>2, LenProperties
<1>4. m \in 1 .. n
  BY <1>1, <1>3 DEF Injections
<1>5. current_models = lists[m]
  BY DEF current_models
<1>6. IsWanted(lists[m], fault_models, max)
  BY <1>2, <1>4
<1>7. current_models \in Seq(1 .. Len(fault_models)) /\ current_models # <<>>
  BY <1>5, <1>6 DEF IsWanted
<1>8. DOMAIN memorized = {lists[j] : j \in 1 .. m - 1} /\ GoodMemo(fault_models, tried, exploitable, memorized)
  BY <1>1 DEF Injections
<1>9. LookedUp(memorized, current_models)
  <2>1. LowerOrdersFirst
    BY <1>1, LowerOrdersFirstHolds
  <2>2. Len(lists[m]) > 1 =>
          {Front(lists[m]), <<Last(lists[m])>>} \subseteq {lists[j] : j \in 1 .. m - 1}
    BY <1>3, <1>4, <2>1 DEF LowerOrdersFirst
  <2>3. QED
    BY <1>5, <1>8, <2>2 DEF LookedUp
<1> HIDE DEF lists, n
<1>10. \A j \in 1 .. m - 1 : lists[j] # lists[m]
  <2>1. \A j \in 1 .. m - 1 : j \in 1 .. n /\ j < m
    BY <1>3, <1>4
  <2>2. QED
    BY <1>2, <1>4, <2>1 DEF n
<1>11. current_models \notin DOMAIN memorized
  BY <1>5, <1>8, <1>10
<1>12. Closed(tried)
  BY <1>1 DEF Injections
<1>13. QED
  BY <1>2, <1>7, <1>8, <1>9, <1>11, <1>12 DEF IsCurrent, Injectables

(* The invariant holds at first. *)
LEMMA FaultsInitially == FaultsInit => FaultsInv
<1> SUFFICES ASSUME FaultsInit PROVE FaultsInv
  OBVIOUS
<1>1. ListsInv
  BY ListsInitially DEF FaultsInit
<1>2. pc = "sort" /\ phase = "lists"
  BY DEF FaultsInit, Init
<1>3. model_index = 1 /\ known = <<>> /\ memorized = <<>> /\ result = <<>> /\ tried = {} /\ exploitable = {}
  BY DEF FaultsInit
<1>4. QED
  BY <1>1, <1>2, <1>3 DEF FaultsInv

(* The steps of the lists are those of ModelCombinations. *)
LEMMA StepsOfLists == [FaultsNext]_<<vars, injecting>> => [Next]_vars
  BY DEF FaultsNext, Sort, ComputeLists, Prepare, Simulate, Aggregate, Finished, Next, vars

(* Sorting the models keeps the invariant. *)
LEMMA SortKeeps ==
  ASSUME FaultsInv, Sort, ListsInv' PROVE FaultsInv'
<1>1. pc = "sort" /\ pc' = "combine" /\ UNCHANGED injecting
  BY DEF Sort, SortModels
<1>2. phase = "lists" /\ phase' = "lists"
  BY <1>1 DEF FaultsInv, injecting
<1>3. model_index = 1 /\ known = <<>> /\ memorized = <<>> /\ result = <<>> /\ tried = {} /\ exploitable = {}
  BY <1>2 DEF FaultsInv
<1>4. model_index' = 1 /\ known' = <<>> /\ memorized' = <<>> /\ result' = <<>> /\ tried' = {} /\ exploitable' = {}
  BY <1>1, <1>3 DEF injecting
<1>5. QED
  BY <1>1, <1>2, <1>4 DEF FaultsInv

(* What is chosen of a set is in it. *)
LEMMA UpToIs ==
  ASSUME NEW n, NEW S, NEW chosen \in UpTo(n, S)
  PROVE  \A x \in chosen : x \in S
<1>1. PICK k \in 0 .. n : \E s \in [1 .. k -> S] : chosen = ToSet(s)
  BY DEF UpTo
<1>2. PICK s \in [1 .. k -> S] : chosen = ToSet(s)
  BY <1>1
<1>3. QED
  BY <1>2 DEF ToSet

(* The chains of all lists. *)
AllChains(models, lists) == UNION {Chains(models, list) : list \in ToSet(lists)}

(* A chain without its last fault is one of a list without its last model.  *)
LEMMA ChainsClosed ==
  ASSUME NEW models \in Seq(IdModel), NEW limit \in Nat,
         NEW lists \in Seq(Seq(1 .. Len(models))),
         \A list : IsWanted(list, models, limit) <=> \E i \in 1 .. Len(lists) : lists[i] = list
  PROVE  Closed(AllChains(models, lists)) /\ AllChains(models, lists) \in SUBSET Seq(FaultRecord)
<1> DEFINE T == 1 .. Len(models)
           all == AllChains(models, lists)
<1>1. \A c : c \in all <=> \E list \in ToSet(lists) : c \in Chains(models, list)
  BY DEF AllChains
<1>2. \A list : list \in ToSet(lists) <=> IsWanted(list, models, limit)
  BY ToSetOfSeq
<1>3. ASSUME NEW list \in ToSet(lists), NEW c \in Chains(models, list)
      PROVE  /\ list \in Seq(1 .. Len(models)) /\ list # <<>> /\ Len(list) \in Nat
             /\ c \in Seq(FaultRecord) /\ Len(c) = Len(list)
  <2>1. list \in Seq(1 .. Len(models)) /\ list # <<>>
    BY <1>2 DEF IsWanted
  <2>2. ChainWithin(c, list, Len(list))
    BY <2>1, ChainsWithin
  <2>3. QED
    BY <2>1, <2>2, LenProperties DEF ChainWithin
<1> HIDE DEF all, T
<1>4. ASSUME NEW c \in Seq(FaultRecord), NEW f \in FaultRecord, Append(c, f) \in all
      PROVE  c = <<>> \/ c \in all
  <2>1. PICK list \in ToSet(lists) : Append(c, f) \in Chains(models, list)
    BY <1>1, <1>4
  <2>2. /\ list \in Seq(1 .. Len(models)) /\ list # <<>> /\ Len(list) \in Nat
        /\ Len(Append(c, f)) = Len(list)
    BY <1>3, <2>1
  <2>3. Len(list) = Len(c) + 1 /\ Len(c) \in Nat
    BY <2>2, AppendProperties, LenProperties
  <2>4. CASE ~(Len(list) > 1)
    <3>1. Len(c) = 0
      BY <2>3, <2>4
    <3>2. QED
      BY <3>1, EmptySeq
  <2>5. CASE Len(list) > 1
    <3> DEFINE p == Front(list)
               m == Last(list)
    <3>1. IsWanted(p, models, limit)
      BY <1>2, <2>1, <2>5, LowerOrdersWanted
    <3>2. p \in Seq(1 .. Len(models)) /\ m \in 1 .. Len(models) /\ list = Append(p, m)
      <4>1. /\ p \in Seq(1 .. Len(models)) /\ m \in 1 .. Len(models) /\ m = list[Len(list)]
            /\ p = SubSeq(list, 1, Len(list) - 1)
        BY <2>2, <2>5, FrontAndLast
      <4>2. Len(list) \in 1 .. Len(list)
        BY <2>2, <2>5
      <4> HIDE DEF p, m
      <4>3. SubSeq(list, 1, Len(list)) = Append(SubSeq(list, 1, Len(list) - 1), list[Len(list)])
        BY <2>2, <4>2, PrefixNext
      <4>4. SubSeq(list, 1, Len(list)) = list
        BY <2>2, PrefixAll
      <4>5. QED
        BY <4>1, <4>3, <4>4
    <3> HIDE DEF p, m
    <3>3. /\ Chains(models, p) \in SUBSET Seq(FaultRecord)
          /\ Chains(models, Append(p, m)) = Extended(models, m, Chains(models, p))
      BY <3>2, ChainsNext
    <3> DEFINE B == Chains(models, p)
    <3>4. B \in SUBSET Seq(FaultRecord) /\ Append(c, f) \in Extended(models, m, B)
      BY <2>1, <3>2, <3>3
    <3> HIDE DEF B
    <3> DEFINE d == Append(c, f)
    <3>12. m \in 1 .. Len(models) /\ d \in Extended(models, m, B)
      BY <3>2, <3>4
    <3> HIDE DEF d
    <3>13. \E b \in B : \E g \in Injectable(models, m, b) : d = Append(b, g)
      BY <3>4, <3>12, ExtendedIs
    <3>5. \E b \in B : \E g \in Injectable(models, m, b) : Append(c, f) = Append(b, g)
      BY <3>13 DEF d
    <3>6. PICK b \in B : \E g \in Injectable(models, m, b) : Append(c, f) = Append(b, g)
      BY <3>5
    <3>7. PICK g \in Injectable(models, m, b) : Append(c, f) = Append(b, g)
      BY <3>6
    <3>8. b \in Seq(FaultRecord)
      BY <3>4
    <3>9. g \in FaultRecord
      BY <3>2, <3>8, InjectableIs DEF IsInjected
    <3>10. c = b
      BY <3>7, <3>8, <3>9, AppendInjective
    <3>11. QED
      BY <1>1, <1>2, <3>1, <3>10 DEF B
  <2>6. QED
    BY <2>4, <2>5
<1>5. Closed(all)
  BY <1>4 DEF Closed
<1>6. all \in SUBSET Seq(FaultRecord)
  BY <1>1, <1>3
<1>7. QED
  BY <1>5, <1>6 DEF all

(* Whatever the emulator cuts short, what a chain begins with is tried.     *)
LEMMA ReachedClosed ==
  ASSUME NEW chains \in SUBSET Seq(FaultRecord), Closed(chains), NEW ineffective, NEW stopped
  PROVE  Closed(Reached(chains, ineffective, stopped))
<1> DEFINE reached == Reached(chains, ineffective, stopped)
           passes(c, n) == /\ SubSeq(c, 1, n) \notin ineffective
                           /\ n < Len(c) => SubSeq(c, 1, n) \notin stopped
<1>1. \A c : c \in reached <=> c \in chains /\ \A n \in 1 .. Len(c) : passes(c, n)
  BY DEF Reached
<1> HIDE DEF reached
<1>2. ASSUME NEW c \in Seq(FaultRecord), NEW f \in FaultRecord, Append(c, f) \in reached, c # <<>>
      PROVE  c \in reached
  <2> DEFINE d == Append(c, f)
  <2>1. d \in Seq(FaultRecord) /\ Len(d) = Len(c) + 1 /\ Len(c) \in Nat
    BY AppendProperties, LenProperties
  <2>2. c \in chains
    BY <1>1, <1>2 DEF Closed
  <2>3. SubSeq(d, 1, Len(c)) = c
    <3>1. Len(c) \in 0 .. Len(d) /\ \A i \in 1 .. Len(c) : d[i] = c[i]
      BY <2>1, AppendProperties
    <3> HIDE DEF d
    <3>2. /\ SubSeq(d, 1, Len(c)) \in Seq(FaultRecord) /\ Len(SubSeq(d, 1, Len(c))) = Len(c)
          /\ \A i \in 1 .. Len(c) : SubSeq(d, 1, Len(c))[i] = d[i]
      BY <2>1, <3>1, PrefixIs
    <3> DEFINE e == SubSeq(d, 1, Len(c))
    <3>3. e \in Seq(FaultRecord) /\ Len(e) = Len(c) /\ \A i \in 1 .. Len(c) : e[i] = c[i]
      BY <3>1, <3>2
    <3> HIDE DEF e
    <3>4. e = c
      BY <3>3, SeqEqual
    <3>5. QED
      BY <3>4 DEF e
  <2>4. ASSUME NEW n \in 1 .. Len(c) PROVE passes(c, n)
    <3>1. n \in 1 .. Len(d) /\ n < Len(d) /\ Len(c) \in 0 .. Len(d) /\ n \in 0 .. Len(c)
      BY <2>1
    <3>2. passes(d, n)
      BY <1>1, <1>2, <3>1
    <3> HIDE DEF d
    <3>3. SubSeq(SubSeq(d, 1, Len(c)), 1, n) = SubSeq(d, 1, n)
      BY <2>1, <3>1, PrefixOfPrefix
    <3>4. SubSeq(c, 1, n) = SubSeq(d, 1, n)
      BY <2>3, <3>3
    <3>5. QED
      BY <3>1, <3>2, <3>4
  <2> HIDE DEF passes
  <2>5. QED
    BY <1>1, <2>2, <2>4
<1>3. QED
  BY <1>2 DEF Closed, reached

(* Computing the lists keeps it, whatever the emulator cuts short and       *)
(* whichever sets of faults are exploitable.                                *)
LEMMA ComputeListsKeeps ==
  ASSUME FaultsInv, ComputeLists, ListsInv' PROVE FaultsInv'
<1> DEFINE lists == models_to_inject'
           all == AllChains(fault_models, lists)
           sets == {ToSet(c) : c \in tried'}
<1>1. /\ pc = "combine" /\ pc' = "done" /\ fault_models' = fault_models
      /\ lists = ComputeModelCombinations(fault_models, max)
  BY DEF ComputeLists, Combine
<1>0. /\ \E ineffective, stopped : tried' = Reached(all, ineffective, stopped)
      /\ \E n : exploitable' \in UpTo(n, sets)
  <2>1. PICK ineffective, stopped :
          LET cuts == Cardinality(ineffective) + Cardinality(stopped)
          IN /\ cuts <= MaxCuts
             /\ tried' = Reached(all, ineffective, stopped)
             /\ exploitable' \in UpTo(MaxExploitable - cuts, {ToSet(c) : c \in tried'})
    BY DEF ComputeLists, AllChains
  <2>2. QED
    BY <2>1
<1>2. /\ phase' = IF lists = <<>> THEN "aggregate" ELSE "prepare"
      /\ model_index' = model_index /\ known' = known /\ memorized' = memorized /\ result' = result
  BY DEF ComputeLists
<1>3. phase = "lists"
  BY <1>1 DEF FaultsInv
<1>4. model_index' = 1 /\ known' = <<>> /\ memorized' = <<>> /\ result' = <<>>
  BY <1>2, <1>3 DEF FaultsInv
<1>5. /\ lists \in Seq(Seq(1 .. Len(fault_models))) /\ fault_models \in Seq(IdModel) /\ max \in Nat
      /\ \A list : IsWanted(list, fault_models, max) <=> \E i \in 1 .. Len(lists) : lists[i] = list
  <2>1. Numbered(given) /\ fault_models = StdSort(given, Before) /\ max \in Nat
        /\ Cardinality(Uses(given)) <= MaxTotal
    BY <1>1 DEF FaultsInv, ListsInv
  <2>2. given \in Seq(IdModel)
    BY <2>1 DEF Numbered
  <2>3. IsRearranged(fault_models, given)
    BY <2>1, SortRearranges
  <2>4. IsListing(lists, fault_models, max)
    BY <1>1, <2>1, <2>2, <2>3, ListsComputed
  <2>5. fault_models \in Seq(IdModel)
    BY <2>3 DEF IsRearranged
  <2> HIDE DEF lists
  <2>6. QED
    BY <2>1, <2>2, <2>3, <2>4, <2>5, ListingIs
<1> HIDE DEF lists, all
<1>16. Closed(all) /\ all \in SUBSET Seq(FaultRecord)
  BY <1>5, ChainsClosed DEF all
<1>17. Closed(tried') /\ tried' \in SUBSET all
  <2>1. PICK ineffective, stopped : tried' = Reached(all, ineffective, stopped)
    BY <1>0
  <2>2. Closed(Reached(all, ineffective, stopped))
    BY <1>16, ReachedClosed
  <2>3. Reached(all, ineffective, stopped) \in SUBSET all
    BY DEF Reached
  <2>4. QED
    BY <2>1, <2>2, <2>3
<1>6. \A e \in exploitable' : e \in sets
  <2>1. PICK n : exploitable' \in UpTo(n, sets)
    BY <1>0
  <2> HIDE DEF sets
  <2>2. QED
    BY <2>1, UpToIs
<1>7. AreOfChains(fault_models, lists, tried', exploitable')
  <2>1. ASSUME NEW e \in exploitable'
        PROVE  \E i \in 1 .. Len(lists) : \E c \in Chains(fault_models, lists[i]) :
                 c \in tried' /\ e = ToSet(c)
    <3>1. PICK c \in tried' : e = ToSet(c)
      BY <1>6, <2>1
    <3>2. PICK list \in ToSet(lists) : c \in Chains(fault_models, list)
      BY <1>17, <3>1 DEF all, AllChains
    <3>3. PICK i \in 1 .. Len(lists) : lists[i] = list
      BY <1>5, ToSetOfSeq
    <3>4. QED
      BY <3>1, <3>2, <3>3
  <2>2. QED
    BY <2>1 DEF AreOfChains
<1>8. DOMAIN memorized' = {} /\ {models_to_inject'[j] : j \in 1 .. model_index' - 1} = {}
  <2>1. 1 .. 1 - 1 = {}
    OBVIOUS
  <2>2. QED
    BY <1>4, <2>1
<1>9. GoodMemo(fault_models, tried', exploitable', memorized')
  BY <1>8 DEF GoodMemo
<1>10. phase' \in {"prepare", "aggregate"} /\ (phase' = "prepare" <=> lists # <<>>)
  BY <1>2
<1>11. Len(lists) \in Nat /\ (lists = <<>> <=> Len(lists) = 0)
  BY <1>5, LenProperties, EmptySeq
<1>12. /\ model_index' \in 1 .. Len(lists) + 1
       /\ phase' \in {"prepare", "simulate"} => model_index' <= Len(lists)
       /\ phase' \in {"aggregate", "done"} => model_index' = Len(lists) + 1
  BY <1>4, <1>10, <1>11
<1>13. /\ known' \in Seq(Combined) /\ DOMAIN known' = {} /\ ToSet(known') = {}
  BY <1>4 DEF ToSet
<1>14. Injections'
  BY <1>1, <1>4, <1>7, <1>17, <1>8, <1>9, <1>10, <1>12, <1>13 DEF Injections, lists
<1>15. QED
  BY <1>1, <1>10, <1>14 DEF FaultsInv

(* prepare_known_exploitable_faults keeps it: both lists are found in the   *)
(* map.                                                                     *)
LEMMA PrepareKeeps ==
  ASSUME FaultsInv, Prepare, ListsInv' PROVE FaultsInv'
<1>1. phase = "prepare" /\ phase' = "simulate"
      /\ UNCHANGED <<vars, tried, exploitable, model_index, memorized, result>>
  BY DEF Prepare
<1>2. Injections /\ pc = "done" /\ pc' = "done"
  BY <1>1 DEF FaultsInv, vars
<1>3. IsCurrent
  BY <1>1, CurrentIs
<1>4. current_models' = current_models /\ models_to_inject' = models_to_inject
      /\ fault_models' = fault_models
  BY <1>1 DEF current_models, vars
<1>5. known' = KnownFor(memorized, current_models)
  BY <1>3 DEF Prepare, IsCurrent, Memorized, LookedUp, KnownFor
<1>6. current_models \in Seq(1 .. Len(fault_models))
  BY <1>3 DEF IsCurrent, Injectables
<1>7. KnownIsGood(fault_models, tried, exploitable, memorized, current_models)
  BY <1>3, <1>6, KnownGood DEF IsCurrent
<1>8. /\ known' \in Seq(Combined)
      /\ \A i, j \in DOMAIN known' : i < j => Size(known'[i]) <= Size(known'[j])
      /\ \A k \in ToSet(known') : Faults(k) \in exploitable
  BY <1>5, <1>7 DEF KnownIsGood, SortedBySize
<1>9. result' = <<>>
  BY <1>1, <1>2 DEF Injections
<1>10. model_index' <= Len(models_to_inject')
  BY <1>1, <1>2, <1>4 DEF Injections
<1>11. known' = KnownFor(memorized', current_models')
  BY <1>1, <1>4, <1>5
<1>12. /\ model_index' \in 1 .. Len(models_to_inject') + 1
       /\ DOMAIN memorized' = {models_to_inject'[j] : j \in 1 .. model_index' - 1}
       /\ GoodMemo(fault_models', tried', exploitable', memorized')
       /\ AreOfChains(fault_models', models_to_inject', tried', exploitable')
       /\ exploitable' = exploitable /\ tried' = tried /\ Closed(tried')
  BY <1>1, <1>2, <1>4 DEF Injections
<1>13. Injections'
  BY <1>1, <1>8, <1>9, <1>10, <1>11, <1>12 DEF Injections
<1>14. QED
  BY <1>1, <1>2, <1>13 DEF FaultsInv

(* Injecting a list keeps it, in whichever order the threads add their      *)
(* results.                                                                 *)
LEMMA SimulateKeeps ==
  ASSUME FaultsInv, Simulate, ListsInv' PROVE FaultsInv'
<1> DEFINE n == Len(models_to_inject)
           m == model_index
<1>1. /\ phase = "simulate" /\ UNCHANGED <<vars, tried, exploitable, known, result>>
      /\ model_index' = model_index + 1
      /\ phase' = IF model_index = n THEN "aggregate" ELSE "prepare"
  BY DEF Simulate
<1>2. Injections /\ pc = "done" /\ pc' = "done"
  BY <1>1 DEF FaultsInv, vars
<1>3. IsCurrent
  BY <1>1, CurrentIs
<1>4. models_to_inject' = models_to_inject /\ fault_models' = fault_models
      /\ exploitable' = exploitable /\ tried' = tried
  BY <1>1 DEF vars
<1>5. known = KnownFor(memorized, current_models)
  BY <1>1, <1>2 DEF Injections
<1>6. \E found \in SetToSeqs(Found) : \E new \in WithoutDuplicates(found) :
        memorized' = Larger(memorized, current_models, new)
  BY <1>5 DEF Simulate, Larger
<1>0. PICK found \in SetToSeqs(Found) : \E new \in WithoutDuplicates(found) :
        memorized' = Larger(memorized, current_models, new)
  BY <1>6
<1>7. PICK new \in WithoutDuplicates(found) : memorized' = Larger(memorized, current_models, new)
  BY <1>0
<1>8. Gives(fault_models, tried, exploitable, memorized, current_models, new)
  BY <1>3, <1>5, ThreadsGive DEF IsCurrent
<1>9. fault_models \in Seq(IdModel) /\ current_models \in Seq(1 .. Len(fault_models))
  BY <1>3 DEF IsCurrent, Injectables
<1>10. GoodMemo(fault_models, tried, exploitable, memorized')
  BY <1>3, <1>7, <1>8, <1>9, LargerIsGood DEF IsCurrent
<1>11. DOMAIN memorized' = DOMAIN memorized \cup {current_models}
  BY <1>3, <1>7, LargerIs DEF IsCurrent
<1>12. m \in 1 .. n /\ n \in Nat
  <2>1. models_to_inject \in Seq(Seq(1 .. Len(fault_models)))
    BY <1>2, ListsAtEnd DEF FaultsInv
  <2>2. n \in Nat
    BY <2>1, LenProperties
  <2>3. QED
    BY <1>1, <1>2, <2>2 DEF Injections
<1>13. DOMAIN memorized' = {models_to_inject'[j] : j \in 1 .. model_index' - 1}
  <2>1. DOMAIN memorized = {models_to_inject[j] : j \in 1 .. m - 1}
    BY <1>2 DEF Injections
  <2> DEFINE last == model_index' - 1
  <2>2. 1 .. last = (1 .. m - 1) \cup {m}
    BY <1>1, <1>12
  <2>3. current_models = models_to_inject[m]
    BY DEF current_models
  <2> HIDE DEF m, last
  <2>4. DOMAIN memorized' = {models_to_inject[j] : j \in 1 .. last}
    BY <1>11, <2>1, <2>2, <2>3
  <2>5. DOMAIN memorized' = {models_to_inject'[j] : j \in 1 .. last}
    BY <1>4, <2>4
  <2>6. QED
    BY <2>5 DEF last
<1>14. /\ model_index' \in 1 .. Len(models_to_inject') + 1
       /\ phase' \in {"prepare", "aggregate"}
       /\ phase' = "prepare" => model_index' <= Len(models_to_inject')
       /\ phase' = "aggregate" => model_index' = Len(models_to_inject') + 1
  BY <1>1, <1>4, <1>12
<1>15. /\ AreOfChains(fault_models', models_to_inject', tried', exploitable')
       /\ GoodMemo(fault_models', tried', exploitable', memorized')
       /\ Closed(tried')
  BY <1>2, <1>4, <1>10 DEF Injections
<1>16. /\ known' \in Seq(Combined)
       /\ \A i, j \in DOMAIN known' : i < j => Size(known'[i]) <= Size(known'[j])
       /\ \A k \in ToSet(known') : Faults(k) \in exploitable'
  BY <1>1, <1>2 DEF Injections
<1>17. result' = <<>>
  BY <1>1, <1>2 DEF Injections
<1>18. Injections'
  BY <1>13, <1>14, <1>15, <1>16, <1>17 DEF Injections
<1>19. QED
  BY <1>2, <1>14, <1>18 DEF FaultsInv

(* What the results of all lists are put together to. *)
Together(memo) ==
  LET lists == InOrder(DOMAIN memo, VectorLess)
  IN  FlattenSeq([i \in DOMAIN lists |-> memo[lists[i]]])

(* The results of all lists are put together without a loss. *)
LEMMA TogetherIs ==
  ASSUME NEW memo, DOMAIN memo \in SUBSET Seq(Nat), IsFiniteSet(DOMAIN memo),
         \A list \in DOMAIN memo : memo[list] \in Seq(Combined)
  PROVE  /\ Together(memo) \in Seq(Combined)
         /\ ToSet(Together(memo)) = UNION {ToSet(memo[list]) : list \in DOMAIN memo}
<1> DEFINE D == DOMAIN memo
           n == Cardinality(D)
           lists == InOrder(D, VectorLess)
           s == [i \in DOMAIN lists |-> memo[lists[i]]]
<1>1. Enumerates(EnumerationOf(D, VectorOrder(D)), n, D, VectorOrder(D))
  BY VectorOrderStrict, EnumerationEnumerates
<1>2. lists = EnumerationOf(D, VectorOrder(D))
  BY InOrderVectors
<1>3. n \in Nat /\ lists \in [1 .. n -> D] /\ \A x \in D : \E k \in 1 .. n : lists[k] = x
  BY <1>1, <1>2 DEF Enumerates
<1>4. Together(memo) = FlattenSeq(s)
  BY DEF Together
<1> HIDE DEF n, lists
<1>5. DOMAIN s = 1 .. n /\ \A i \in 1 .. n : s[i] = memo[lists[i]] /\ lists[i] \in D
  BY <1>3
<1>6. s \in Seq(Seq(Combined)) /\ Len(s) = n
  <2>1. s \in [1 .. n -> Seq(Combined)]
    BY <1>3, <1>5
  <2>2. QED
    BY <1>3, <2>1
<1> HIDE DEF s
<1>7. /\ FlattenSeq(s) \in Seq(Combined)
      /\ \A x : x \in ToSet(FlattenSeq(s)) <=> \E i \in 1 .. Len(s) : x \in ToSet(s[i])
  BY <1>6, FlattenKeeps
<1>9. \A x : x \in ToSet(FlattenSeq(s)) <=> \E i \in 1 .. n : x \in ToSet(s[i])
  BY <1>6, <1>7
<1>10. \A x : (\E i \in 1 .. n : x \in ToSet(s[i])) <=> (\E list \in D : x \in ToSet(memo[list]))
  BY <1>3, <1>5
<1>11. QED
  BY <1>4, <1>7, <1>9, <1>10

(* Aggregating the results keeps it. *)
LEMMA AggregateKeeps ==
  ASSUME FaultsInv, Aggregate, ListsInv' PROVE FaultsInv'
<1>1. /\ phase = "aggregate" /\ phase' = "done"
      /\ UNCHANGED <<vars, tried, exploitable, model_index, known, memorized>>
      /\ result' \in WithoutDuplicates(Together(memorized))
  BY DEF Aggregate, AllResults, Together
<1>2. Injections /\ pc = "done" /\ pc' = "done"
  BY <1>1 DEF FaultsInv, vars
<1>3. models_to_inject' = models_to_inject /\ fault_models' = fault_models
  BY <1>1 DEF vars
<1> DEFINE lists == models_to_inject
           m == model_index
<1>4. lists \in Seq(Seq(1 .. Len(fault_models))) /\ Len(lists) \in Nat
  BY <1>2, ListsAtEnd, LenProperties DEF FaultsInv
<1>5. m = Len(lists) + 1 /\ DOMAIN memorized = {lists[j] : j \in 1 .. m - 1}
  BY <1>1, <1>2 DEF Injections
<1>6. DOMAIN memorized = ToSet(lists)
  <2>1. m - 1 = Len(lists) /\ DOMAIN lists = 1 .. Len(lists)
    BY <1>4, <1>5, LenProperties
  <2>2. QED
    BY <1>5, <2>1 DEF ToSet
<1>7. DOMAIN memorized \in SUBSET Seq(Nat)
  <2>1. \A list \in Seq(1 .. Len(fault_models)) : list \in Seq(Nat)
    <3>1. 1 .. Len(fault_models) \subseteq Nat
      OBVIOUS
    <3>2. QED
      BY <3>1, SeqWiden
  <2>2. ToSet(lists) \subseteq Seq(1 .. Len(fault_models))
    BY <1>4, ToSetOfSeq
  <2>3. QED
    BY <1>6, <2>1, <2>2
<1>8. IsFiniteSet(DOMAIN memorized)
  <2> DEFINE D == 1 .. Len(lists)
  <2>1. IsFiniteSet(D)
    BY <1>4, FS_Interval
  <2>2. \A x : x \in ToSet(lists) <=> \E i \in D : lists[i] = x
    BY <1>4, ToSetOfSeq
  <2>3. lists \in [D -> Seq(1 .. Len(fault_models))]
    BY <1>4, LenProperties
  <2> HIDE DEF D, lists
  <2>4. lists \in Surjection(D, ToSet(lists))
    BY <2>2, <2>3 DEF Surjection
  <2>5. IsFiniteSet(ToSet(lists))
    BY <2>1, <2>4, FS_Surjection
  <2>6. QED
    BY <1>6, <2>5
<1>9. \A list \in DOMAIN memorized : memorized[list] \in Seq(Combined)
  BY <1>2 DEF Injections, GoodMemo, GoodList
<1>10. /\ Together(memorized) \in Seq(Combined)
       /\ ToSet(Together(memorized)) = UNION {ToSet(memorized[list]) : list \in DOMAIN memorized}
  BY <1>7, <1>8, <1>9, TogetherIs
<1>13. ToSet(result') = ToSet(Together(memorized))
  BY <1>1, <1>10, WithoutDuplicatesKeeps
<1>11. ToSet(result') = UNION {ToSet(memorized'[list]) : list \in DOMAIN memorized'}
  BY <1>1, <1>10, <1>13
<1>12. Injections'
  BY <1>1, <1>2, <1>3, <1>11 DEF Injections
<1>14. QED
  BY <1>1, <1>2, <1>12 DEF FaultsInv

(* Each step keeps the invariant. *)
LEMMA FaultsInductive == FaultsInv /\ [FaultsNext]_<<vars, injecting>> => FaultsInv'
<1> SUFFICES ASSUME FaultsInv, [FaultsNext]_<<vars, injecting>> PROVE FaultsInv'
  OBVIOUS
<1>1. [Next]_vars
  BY StepsOfLists
<1>2. ListsInv'
  BY <1>1, ListsInductive DEF FaultsInv
<1>3. CASE Sort
  BY <1>2, <1>3, SortKeeps
<1>4. CASE ComputeLists
  BY <1>2, <1>4, ComputeListsKeeps
<1>5. CASE Prepare
  BY <1>2, <1>5, PrepareKeeps
<1>6. CASE Simulate
  BY <1>2, <1>6, SimulateKeeps
<1>7. CASE Aggregate
  BY <1>2, <1>7, AggregateKeeps
<1>8. CASE Finished \/ UNCHANGED <<vars, injecting>>
  <2>1. UNCHANGED <<vars, injecting>>
    BY <1>8 DEF Finished
  <2>2. /\ exploitable' = exploitable /\ tried' = tried /\ model_index' = model_index /\ known' = known
        /\ memorized' = memorized /\ result' = result /\ phase' = phase
    BY <2>1 DEF injecting
  <2>3. pc' = pc /\ fault_models' = fault_models /\ models_to_inject' = models_to_inject
    BY <2>1 DEF vars
  <2>4. current_models' = current_models
    BY <2>2, <2>3 DEF current_models
  <2>5. Injections => Injections'
    BY <2>2, <2>3, <2>4 DEF Injections
  <2>6. QED
    BY <1>2, <2>2, <2>3, <2>5 DEF FaultsInv
<1>9. QED
  BY <1>3, <1>4, <1>5, <1>6, <1>7, <1>8 DEF FaultsNext

(* The lists are computed, and then injected as they were computed.         *)
THEOREM ListsAreComputed == FaultsSpec => Spec
<1>1. FaultsInit => Init
  BY DEF FaultsInit
<1>2. QED
  BY <1>1, StepsOfLists, PTL DEF FaultsSpec, Spec

(* The invariant holds throughout, for any models, any limit and any        *)
(* program.                                                                 *)
THEOREM FaultsAlways == FaultsSpec => []FaultsInv
  BY FaultsInitially, FaultsInductive, PTL DEF FaultsSpec

-----------------------------------------------------------------------------
(* What the invariant says at the end *)

(* A list that was injected. *)
LEMMA MemorizedIs ==
  ASSUME FaultsInv, phase # "lists"
  PROVE  /\ Injections /\ fault_models \in Seq(IdModel)
         /\ models_to_inject \in Seq(Seq(1 .. Len(fault_models)))
         /\ \A list \in DOMAIN memorized :
              /\ list \in ToSet(models_to_inject)
              /\ list \in Seq(1 .. Len(fault_models)) /\ list # <<>>
              /\ GoodList(fault_models, tried, exploitable, memorized, list)
<1> DEFINE lists == models_to_inject
           m == model_index
<1>1. ListsInv /\ pc = "done" /\ Injections
  BY DEF FaultsInv
<1>2. /\ fault_models \in Seq(IdModel) /\ lists \in Seq(Seq(1 .. Len(fault_models)))
      /\ \A list : IsWanted(list, fault_models, max) <=> \E i \in 1 .. Len(lists) : lists[i] = list
  BY <1>1, ListsAtEnd
<1>3. DOMAIN memorized = {lists[j] : j \in 1 .. m - 1} /\ m \in 1 .. Len(lists) + 1
  BY <1>1 DEF Injections
<1>4. Len(lists) \in Nat
  BY <1>2, LenProperties
<1>5. ASSUME NEW list \in DOMAIN memorized
      PROVE  list \in ToSet(lists) /\ list \in Seq(1 .. Len(fault_models)) /\ list # <<>>
  <2>1. PICK j \in 1 .. m - 1 : lists[j] = list
    BY <1>3
  <2>2. j \in 1 .. Len(lists)
    BY <1>3, <1>4
  <2>3. list \in ToSet(lists)
    BY <1>2, <2>1, <2>2, ToSetOfSeq
  <2>4. IsWanted(list, fault_models, max)
    BY <1>2, <2>1, <2>2
  <2>5. QED
    BY <2>3, <2>4 DEF IsWanted
<1>6. \A list \in DOMAIN memorized : GoodList(fault_models, tried, exploitable, memorized, list)
  BY <1>1 DEF Injections, GoodMemo
<1>7. QED
  BY <1>1, <1>2, <1>5, <1>6

(* What is in the result was memorized for some list. *)
LEMMA ResultIs ==
  ASSUME FaultsInv, NEW k \in ToSet(result)
  PROVE  /\ phase = "done"
         /\ \E list \in DOMAIN memorized : k \in ToSet(memorized[list])
<1>1. ToSet(<<>>) = {}
  BY DEF ToSet
<1>2. phase = "done" /\ Injections
  BY <1>1 DEF FaultsInv, Injections
<1>3. ToSet(result) = UNION {ToSet(memorized[list]) : list \in DOMAIN memorized}
  BY <1>2 DEF Injections
<1>4. QED
  BY <1>2, <1>3

(* Each exploitable set is that of a chain that is tried, which includes a  *)
(* memorized combination.                                                   *)
LEMMA CompleteHolds == FaultsInv => Complete
<1> SUFFICES ASSUME FaultsInv PROVE Complete
  OBVIOUS
<1>1. ASSUME NEW k \in ToSet(known) \cup ToSet(result) PROVE Faults(k) \in exploitable
  <2>1. CASE k \in ToSet(result)
    <3>1. phase = "done"
      BY <2>1, ResultIs
    <3>2. PICK list \in DOMAIN memorized : k \in ToSet(memorized[list])
      BY <2>1, ResultIs
    <3>3. GoodList(fault_models, tried, exploitable, memorized, list)
      BY <3>1, MemorizedIs
    <3>4. QED
      BY <3>2, <3>3 DEF GoodList
  <2>2. CASE k \in ToSet(known)
    <3>1. phase # "lists"
      BY <2>2 DEF FaultsInv, ToSet
    <3>2. QED
      BY <2>2, <3>1 DEF FaultsInv, Injections
  <2>3. QED
    BY <2>1, <2>2
<1>2. ASSUME phase = "done", NEW e \in exploitable PROVE \E k \in ToSet(result) : Faults(k) \subseteq e
  <2> DEFINE lists == models_to_inject
  <2>1. /\ Injections /\ fault_models \in Seq(IdModel)
        /\ lists \in Seq(Seq(1 .. Len(fault_models)))
    BY <1>2, MemorizedIs
  <2>2. AreOfChains(fault_models, lists, tried, exploitable)
    BY <2>1 DEF Injections
  <2>3. PICK i \in 1 .. Len(lists) : \E c \in Chains(fault_models, lists[i]) :
                                       c \in tried /\ e = ToSet(c)
    BY <2>2 DEF AreOfChains
  <2>4. PICK c \in Chains(fault_models, lists[i]) : c \in tried /\ e = ToSet(c)
    BY <2>3
  <2>5. lists[i] \in DOMAIN memorized
    <3>1. DOMAIN memorized = {lists[j] : j \in 1 .. model_index - 1} /\ model_index = Len(lists) + 1
      BY <1>2, <2>1 DEF Injections
    <3>2. i \in 1 .. model_index - 1
      <4>1. Len(lists) \in Nat
        BY <2>1, LenProperties
      <4>2. QED
        BY <3>1, <4>1
    <3>3. QED
      BY <3>1, <3>2
  <2> DEFINE list == lists[i]
  <2>6. GoodList(fault_models, tried, exploitable, memorized, list) /\ list \in Seq(1 .. Len(fault_models))
    BY <1>2, <2>5, MemorizedIs
  <2> HIDE DEF list
  <2>7. CoversList(fault_models, tried, exploitable, memorized, list) /\ memorized[list] \in Seq(Combined)
    BY <2>6 DEF GoodList
  <2>8. c \in Chains(fault_models, list)
    BY DEF list
  <2>9. PICK k \in ToSet(memorized[list]) : Includes(Combination(c), k)
    BY <2>4, <2>7, <2>8 DEF CoversList
  <2>10. c \in Seq(FaultRecord)
    BY <2>1, <2>6, <2>8, ChainsWithin DEF ChainWithin
  <2>11. Combination(c) \in Combined /\ Faults(Combination(c)) = e
    BY <2>4, <2>10, CombinationIs
  <2>12. k \in Combined
    BY <2>7, ToSetOfSeq
  <2>13. Faults(k) \subseteq e
    BY <2>9, <2>11, <2>12, IncludedIsSmaller
  <2>14. k \in ToSet(result)
    <3>1. ToSet(result) = UNION {ToSet(memorized[l]) : l \in DOMAIN memorized}
      BY <1>2, <2>1 DEF Injections
    <3>2. QED
      BY <2>5, <2>9, <3>1 DEF list
  <2>15. QED
    BY <2>13, <2>14
<1>3. QED
  BY <1>1, <1>2 DEF Complete

(* Skipping redundant faults loses no set of faults that would be tried     *)
(* without it, whatever the models, the limit, the length of the run, the   *)
(* chains that are cut short and the sets that are exploitable.             *)
THEOREM NothingIsLost == FaultsSpec => []Complete
  BY FaultsAlways, CompleteHolds, PTL

(* What is looked up is sorted by size. *)
LEMMA KnownSortedBySizeHolds == FaultsInv => KnownSortedBySize
<1> SUFFICES ASSUME FaultsInv PROVE KnownSortedBySize
  OBVIOUS
<1>1. CASE phase = "lists"
  BY <1>1 DEF FaultsInv, KnownSortedBySize
<1>2. CASE phase # "lists"
  BY <1>2 DEF FaultsInv, Injections, KnownSortedBySize
<1>3. QED
  BY <1>1, <1>2

(* The known combinations never grow smaller again.                         *)
THEOREM KnownStaySorted == FaultsSpec => []KnownSortedBySize
  BY FaultsAlways, KnownSortedBySizeHolds, PTL

(* What is memorized is full, or was looked up. *)
LEMMA NewHaveAllFaultsHolds == FaultsInv => NewHaveAllFaults
<1> SUFFICES ASSUME FaultsInv, NEW list \in DOMAIN memorized, NEW k \in ToSet(memorized[list])
             PROVE  \/ Size(k) = Len(list)
                    \/ k \in ToSet(Memorized(Front(list))) \cup ToSet(Memorized(<<Last(list)>>))
  BY DEF NewHaveAllFaults
<1>1. phase # "lists"
  BY DEF FaultsInv
<1>2. GoodList(fault_models, tried, exploitable, memorized, list)
  BY <1>1, MemorizedIs
<1>3. CASE Size(k) = Len(list)
  BY <1>3
<1>4. CASE Len(list) > 1 /\ k \in ToSet(memorized[Front(list)]) \cup ToSet(memorized[<<Last(list)>>])
  <2>1. Front(list) \in DOMAIN memorized /\ <<Last(list)>> \in DOMAIN memorized
    BY <1>2, <1>4 DEF GoodList, LookedUp
  <2>2. QED
    BY <1>4, <2>1 DEF Memorized
<1>5. QED
  BY <1>2, <1>3, <1>4 DEF GoodList, NewAreFull

(* What is new for a list has a fault of each of its models.                *)
THEOREM NewFaultsAreFull == FaultsSpec => []NewHaveAllFaults
  BY FaultsAlways, NewHaveAllFaultsHolds, PTL

-----------------------------------------------------------------------------
(* Chains of one and of two faults *)

(* The chain of one fault f. *)
IsSingle(c, list, f) == f \in FaultRecord /\ c = <<f>> /\ ToSet(c) = {f} /\ f.model = list[1]

(* The chain of two faults g and h, which differ. *)
IsPair(c, list, g, h) ==
  /\ g \in FaultRecord /\ h \in FaultRecord /\ g # h
  /\ c = Append(<<g>>, h) /\ ToSet(c) = {g, h}
  /\ g.model = list[1] /\ h.model = list[2]

(* A sequence of one element. *)
LEMMA OneElement ==
  ASSUME NEW T, NEW s \in Seq(T), Len(s) = 1
  PROVE  s[1] \in T /\ s = <<s[1]>>
<1> DEFINE x == s[1]
           t == <<x>>
<1>1. x \in T
  BY ElementOfSeq
<1> HIDE DEF x
<1>2. t \in Seq(T) /\ Len(t) = 1 /\ t[1] = x
  BY <1>1
<1> HIDE DEF t
<1>3. \A i \in 1 .. Len(s) : s[i] = t[i]
  BY <1>2 DEF x
<1>4. s = t
  BY <1>2, <1>3, SeqEqual
<1>5. QED
  BY <1>1, <1>4 DEF t, x

(* A chain of a list of one model has one fault. *)
LEMMA SingleChain ==
  ASSUME NEW models \in Seq(IdModel), NEW list \in Seq(1 .. Len(models)), Len(list) = 1,
         NEW c \in Chains(models, list)
  PROVE  \E f : IsSingle(c, list, f)
<1>1. ChainWithin(c, list, Len(list))
  BY ChainsWithin
<1>2. c \in Seq(FaultRecord) /\ Len(c) = 1 /\ c[1].model = list[1]
  BY <1>1 DEF ChainWithin
<1>3. c[1] \in FaultRecord /\ c = <<c[1]>>
  BY <1>2, OneElement
<1>4. ToSet(c) = {c[1]}
  <2>1. \A x : x \in ToSet(c) <=> \E i \in 1 .. 1 : c[i] = x
    BY <1>2, ToSetOfSeq
  <2>2. QED
    BY <2>1
<1>5. IsSingle(c, list, c[1])
  BY <1>2, <1>3, <1>4 DEF IsSingle
<1>6. QED
  BY <1>5

(* A chain of a list of two models has two different faults. *)
LEMMA PairChain ==
  ASSUME NEW models \in Seq(IdModel), NEW list \in Seq(1 .. Len(models)), Len(list) = 2,
         NEW c \in Chains(models, list)
  PROVE  \E g, h : IsPair(c, list, g, h)
<1> DEFINE T == 1 .. Len(models)
           first == <<list[1]>>
           m == list[2]
<1>0. 1 \in 1 .. Len(list) /\ 2 \in 1 .. Len(list) /\ list \in Seq(T)
  OBVIOUS
<1> HIDE DEF T
<1>1. list[1] \in T /\ m \in T /\ first \in Seq(T) /\ Len(first) = 1 /\ first[1] = list[1]
  <2>1. list[1] \in T /\ list[2] \in T
    BY <1>0, ElementOfSeq
  <2>2. QED
    BY <2>1
<1>2. list = Append(first, m)
  OBVIOUS
<1> HIDE DEF first, m
<1>3. Chains(models, first) \in SUBSET Seq(FaultRecord)
      /\ Chains(models, list) = Extended(models, m, Chains(models, first))
  BY <1>1, <1>2, ChainsNext DEF T
<1>4. \E b \in Chains(models, first) : \E f \in Injectable(models, m, b) : c = Append(b, f)
  BY <1>1, <1>3, ExtendedIs, SMTT(30) DEF T
<1>5. PICK b \in Chains(models, first) : \E f \in Injectable(models, m, b) : c = Append(b, f)
  BY <1>4
<1>6. PICK h \in Injectable(models, m, b) : c = Append(b, h)
  BY <1>5
<1>7. \E g : IsSingle(b, first, g)
  BY <1>1, SingleChain DEF T
<1>8. PICK g : IsSingle(b, first, g)
  BY <1>7
<1>9. g \in FaultRecord /\ b = <<g>> /\ ToSet(b) = {g} /\ g.model = list[1] /\ b \in Seq(FaultRecord)
  BY <1>1, <1>8 DEF IsSingle
<1>10. IsInjected(h, m, EntryTime(models, b))
  BY <1>1, <1>9, InjectableIs DEF T
<1>11. h \in FaultRecord /\ h.model = m
  BY <1>10 DEF IsInjected
<1>12. h # g
  BY <1>1, <1>9, SecondFaultDiffers DEF T
<1>13. ToSet(c) = ToSet(b) \cup {h}
  <2>1. b \in Seq(FaultRecord) /\ h \in FaultRecord
    BY <1>9, <1>11
  <2>2. ToSet(Append(b, h)) = ToSet(b) \cup {h}
    BY <2>1, AppendSet
  <2>3. QED
    BY <1>6, <2>2
<1>14. IsPair(c, list, g, h)
  BY <1>6, <1>9, <1>11, <1>12, <1>13 DEF IsPair, m
<1>15. QED
  BY <1>14

(* Where a combination comes from. *)
Origin(models, memo, k, list, c) ==
  /\ list \in DOMAIN memo /\ k \in ToSet(memo[list])
  /\ c \in Chains(models, list) /\ k = Combination(c)
  /\ \A x \in ToSet(KnownFor(memo, list)) : ~Includes(k, x)

(* Of two combinations of up to two faults none is part of the other. *)
LEMMA PairsApart ==
  ASSUME NEW models \in Seq(IdModel), NEW tries, NEW exploit, NEW memo,
         GoodMemo(models, tries, exploit, memo),
         NEW k, NEW p \in Seq(1 .. Len(models)), NEW b, Origin(models, memo, k, p, b),
         NEW l, NEW q \in Seq(1 .. Len(models)), NEW c, Origin(models, memo, l, q, c),
         Len(p) \in {1, 2}, Len(q) \in {1, 2}, Faults(k) \subseteq Faults(l)
  PROVE  Faults(k) = Faults(l)
<1>1. b \in Chains(models, p) /\ c \in Chains(models, q)
  BY DEF Origin
<1>2. b \in Seq(FaultRecord) /\ c \in Seq(FaultRecord)
  BY <1>1, ChainsWithin DEF ChainWithin
<1>3. k = Combination(b) /\ l = Combination(c)
  BY DEF Origin
<1>4. Faults(k) = ToSet(b) /\ Faults(l) = ToSet(c)
  BY <1>2, <1>3, CombinationIs
<1>5. ToSet(b) \subseteq ToSet(c)
  BY <1>4
<1>6. CASE Len(p) = 1 /\ Len(q) = 1
  <2>1. (\E f : IsSingle(b, p, f)) /\ (\E f : IsSingle(c, q, f))
    BY <1>1, <1>6, SingleChain
  <2>2. PICK f : IsSingle(b, p, f)
    BY <2>1
  <2>3. PICK g : IsSingle(c, q, g)
    BY <2>1
  <2>4. QED
    BY <1>4, <1>5, <2>2, <2>3 DEF IsSingle
<1>7. CASE Len(p) = 2 /\ Len(q) = 1
  <2>1. \E g, h : IsPair(b, p, g, h)
    BY <1>1, <1>7, PairChain
  <2>2. \E f : IsSingle(c, q, f)
    BY <1>1, <1>7, SingleChain
  <2>3. QED
    BY <1>5, <2>1, <2>2 DEF IsPair, IsSingle
<1>8. CASE Len(p) = 2 /\ Len(q) = 2
  <2>1. \E g, h : IsPair(b, p, g, h)
    BY <1>1, <1>8, PairChain
  <2>2. \E g, h : IsPair(c, q, g, h)
    BY <1>1, <1>8, PairChain
  <2>3. PICK g, h : IsPair(b, p, g, h)
    BY <2>1
  <2>4. PICK i, j : IsPair(c, q, i, j)
    BY <2>2
  <2>5. {g, h} \subseteq {i, j} /\ g # h /\ ToSet(b) = {g, h} /\ ToSet(c) = {i, j}
    BY <1>5, <2>3, <2>4 DEF IsPair
  <2>6. QED
    BY <1>4, <2>5
<1>9. CASE Len(p) = 1 /\ Len(q) = 2
  <2>1. \E f : IsSingle(b, p, f)
    BY <1>1, <1>9, SingleChain
  <2>2. \E g, h : IsPair(c, q, g, h)
    BY <1>1, <1>9, PairChain
  <2>3. PICK f : IsSingle(b, p, f)
    BY <2>1
  <2>4. PICK g, h : IsPair(c, q, g, h)
    BY <2>2
  <2>5. /\ f \in FaultRecord /\ b = <<f>> /\ ToSet(b) = {f} /\ f.model = p[1]
        /\ g \in FaultRecord /\ h \in FaultRecord /\ c = Append(<<g>>, h) /\ ToSet(c) = {g, h}
        /\ g.model = q[1] /\ h.model = q[2]
    BY <2>3, <2>4 DEF IsSingle, IsPair
  <2>0. <<g>> \in Seq(FaultRecord)
    BY <2>5
  <2>6. f = g \/ f = h
    BY <1>5, <2>5
  <2>7. Includes(l, k)
    <3>1. CASE f = g
      BY <1>3, <2>0, <2>5, <3>1, IncludesPrevious
    <3>2. CASE f = h
      BY <1>3, <2>0, <2>5, <3>2, IncludesLast
    <3>3. QED
      BY <2>6, <3>1, <3>2
  <2>8. p = <<p[1]>>
    BY <1>9, OneElement
  <2>9. p = Front(q) \/ p = <<Last(q)>>
    <3>1. Front(q) = <<q[1]>>
      <4> DEFINE r == Front(q)
      <4>0. Len(q) > 1
        BY <1>9
      <4>1. /\ Front(q) \in Seq(1 .. Len(models)) /\ Len(Front(q)) = Len(q) - 1
            /\ Front(q) = SubSeq(q, 1, Len(q) - 1)
        BY <4>0, FrontAndLast
      <4>2. Len(q) - 1 = 1 /\ 1 \in 0 .. Len(q)
        BY <1>9
      <4>3. r \in Seq(1 .. Len(models)) /\ Len(r) = 1 /\ r = SubSeq(q, 1, 1)
        BY <4>1, <4>2
      <4>4. SubSeq(q, 1, 1)[1] = q[1]
        BY <4>2, PrefixIs
      <4> HIDE DEF r
      <4>5. r[1] = q[1] /\ r = <<r[1]>>
        BY <4>3, <4>4, OneElement
      <4>6. QED
        BY <4>5 DEF r
    <3>2. Last(q) = q[2]
      BY <1>9 DEF Last
    <3>3. p[1] = q[1] \/ p[1] = q[2]
      BY <2>5, <2>6
    <3>4. QED
      BY <2>8, <3>1, <3>2, <3>3
  <2>10. q # <<>> /\ Len(q) > 1
    BY <1>9
  <2>11. q \in DOMAIN memo /\ k \in ToSet(memo[p])
    BY DEF Origin
  <2>12. LookedUp(memo, q)
    BY <2>11 DEF GoodMemo, GoodList
  <2>13. KnownIsGood(models, tries, exploit, memo, q)
    BY <2>10, <2>12, KnownGood
  <2>14. k \in ToSet(KnownFor(memo, q))
    BY <2>9, <2>10, <2>11, <2>13 DEF KnownIsGood
  <2>15. QED
    BY <2>7, <2>14 DEF Origin
<1>10. QED
  BY <1>6, <1>7, <1>8, <1>9

(* Each result has an origin, and none of two origins is part of the other. *)
LEMMA PairsMinimalHolds == FaultsInv => PairsMinimal
<1> SUFFICES ASSUME FaultsInv, \A list \in ToSet(models_to_inject) : Len(list) <= 2,
                    NEW k \in ToSet(result), NEW l \in ToSet(result), Faults(k) \subseteq Faults(l)
             PROVE  Faults(k) = Faults(l)
  BY DEF PairsMinimal, ResultMinimal
<1>1. phase = "done"
  BY ResultIs
<1>2. GoodMemo(fault_models, tried, exploitable, memorized) /\ fault_models \in Seq(IdModel)
  BY <1>1, MemorizedIs DEF Injections
<1>3. ASSUME NEW x \in ToSet(result)
      PROVE  \E list \in DOMAIN memorized : \E c : Origin(fault_models, memorized, x, list, c)
  <2>1. \E list \in DOMAIN memorized : x \in ToSet(memorized[list])
    BY ResultIs
  <2>2. HasOrigin(fault_models, memorized, x)
    BY <1>2, <2>1 DEF GoodMemo, GoodList
  <2>3. QED
    BY <2>2 DEF HasOrigin, Origin
<1>4. ASSUME NEW list \in DOMAIN memorized
      PROVE  list \in Seq(1 .. Len(fault_models)) /\ Len(list) \in {1, 2}
  <2>1. list \in ToSet(models_to_inject) /\ list \in Seq(1 .. Len(fault_models)) /\ list # <<>>
    BY <1>1, MemorizedIs
  <2>2. Len(list) <= 2 /\ Len(list) \in Nat /\ Len(list) # 0
    BY <2>1, LenProperties, EmptySeq
  <2> DEFINE n == Len(list)
  <2> HIDE DEF n
  <2>3. n \in {1, 2}
    <3>1. n <= 2 /\ n \in Nat /\ n # 0
      BY <2>2 DEF n
    <3>2. QED
      BY <3>1
  <2>4. QED
    BY <2>1, <2>3 DEF n
<1>5. PICK p \in DOMAIN memorized : \E c : Origin(fault_models, memorized, k, p, c)
  BY <1>3
<1>6. PICK b : Origin(fault_models, memorized, k, p, b)
  BY <1>5
<1>7. PICK q \in DOMAIN memorized : \E c : Origin(fault_models, memorized, l, q, c)
  BY <1>3
<1>8. PICK c : Origin(fault_models, memorized, l, q, c)
  BY <1>7
<1>9. QED
  BY <1>2, <1>4, <1>6, <1>8, PairsApart

(* With lists of up to two models only the smallest combinations are kept.  *)
THEOREM PairsAreMinimal == FaultsSpec => []PairsMinimal
  BY FaultsAlways, PairsMinimalHolds, PTL
=============================================================================
