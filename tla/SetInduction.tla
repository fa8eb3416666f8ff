----------------------------- MODULE SetInduction -----------------------------
(***************************************************************************)
(* Induction over the natural numbers, stated for sets of numbers instead  *)
(* of predicates, and what follows from it for lists that are computed one *)
(* element after the other: a function that is defined by recursion on the *)
(* index of a list has the values its definition says.                     *)
(***************************************************************************)
EXTENDS Integers, WellFoundedInduction, TLAPS

(* A set that holds 0 and the successor of each of its elements is Nat.     *)
LEMMA NatInduct ==
  ASSUME NEW S \in SUBSET Nat, 0 \in S, \A n \in S : n + 1 \in S
  PROVE  S = Nat
<1> DEFINE Less == OpToRel(<, Nat)
<1>1. IsWellFoundedOn(Less, Nat)
  BY NatLessThanWellFounded
<1>2. \A y, x \in Nat : y < x => <<y, x>> \in Less
  BY DEF OpToRel
<1> HIDE DEF Less
<1>3. SUFFICES ASSUME Nat \ S # {} PROVE FALSE
  OBVIOUS
<1>4. PICK x \in Nat \ S : \A y \in Nat \ S : ~ (<<y, x>> \in Less)
  BY <1>1, <1>3, WFMin
<1>5. x \in Nat /\ x # 0 /\ x - 1 \in Nat /\ x - 1 < x
  BY <1>4
<1>6. x - 1 \in S
  <2>1. <<x - 1, x>> \in Less
    BY <1>2, <1>5
  <2>2. QED
    BY <1>4, <1>5, <2>1
<1>7. (x - 1) + 1 \in S
  BY <1>6
<1>8. QED
  BY <1>4, <1>5, <1>7

(* A set of numbers that is not empty has a least element. *)
LEMMA LeastElement ==
  ASSUME NEW S \in SUBSET Nat, S # {}
  PROVE  \E x \in S : \A y \in S : x <= y
<1> DEFINE Less == OpToRel(<, Nat)
<1>1. IsWellFoundedOn(Less, Nat)
  BY NatLessThanWellFounded
<1>2. \A y, x \in Nat : y < x => <<y, x>> \in Less
  BY DEF OpToRel
<1> HIDE DEF Less
<1>3. PICK x \in S : \A y \in S : ~ (<<y, x>> \in Less)
  BY <1>1, WFMin
<1>4. x \in Nat /\ \A y \in S : y \in Nat /\ ~(y < x)
  BY <1>2, <1>3
<1>5. \A y \in S : x <= y
  BY <1>4
<1>6. QED
  BY <1>5

(* Induction up to a bound. *)
LEMMA IntervalInduct ==
  ASSUME NEW N \in Nat, NEW S \in SUBSET (0 .. N), 0 \in S,
         \A n \in S : n < N => n + 1 \in S
  PROVE  S = 0 .. N
<1> DEFINE T == S \union {n \in Nat : n > N}
<1>0. \A n \in S : n \in Nat /\ n <= N
  OBVIOUS
<1>1. T \in SUBSET Nat /\ 0 \in T
  BY <1>0
<1>2. ASSUME NEW n \in T PROVE n + 1 \in T
  <2>1. CASE n \in S /\ n < N
    BY <2>1
  <2>2. CASE n >= N
    BY <1>0, <2>2
  <2>3. QED
    BY <1>0, <2>1, <2>2
<1>3. T = Nat
  <2> HIDE DEF T
  <2>1. QED
    BY <1>1, <1>2, NatInduct
<1>4. \A n \in 0 .. N : n \in S
  BY <1>3
<1>5. QED
  BY <1>4

(* A recursive function that goes from one value to the next by step[n] is  *)
(* the one its definition describes.                                        *)
LEMMA RecursionByStep ==
  ASSUME NEW S, NEW base \in S, NEW N \in Nat, NEW step \in [1 .. N -> [S -> S]]
  PROVE  \E f \in [0 .. N -> S] : f[0] = base /\ \A n \in 1 .. N : f[n] = step[n][f[n - 1]]
<1> DEFINE Good(n) == \E f \in [0 .. n -> S] :
                        f[0] = base /\ \A k \in 1 .. n : f[k] = step[k][f[k - 1]]
           T == {n \in 0 .. N : Good(n)}
<1>1. 0 \in T
  <2> DEFINE h == [k \in 0 .. 0 |-> base]
  <2>1. h \in [0 .. 0 -> S] /\ h[0] = base /\ 1 .. 0 = {}
    OBVIOUS
  <2> HIDE DEF h
  <2>2. Good(0)
    BY <2>1
  <2>3. QED
    BY <2>2
<1>2. ASSUME NEW n \in T, n < N PROVE n + 1 \in T
  <2>1. PICK f \in [0 .. n -> S] : f[0] = base /\ \A k \in 1 .. n : f[k] = step[k][f[k - 1]]
    BY <1>2
  <2> DEFINE h == [k \in 0 .. n + 1 |-> IF k <= n THEN f[k] ELSE step[n + 1][f[n]]]
  <2>2. n \in Nat /\ n + 1 \in 1 .. N /\ f[n] \in S
    BY <1>2
  <2>3. step[n + 1][f[n]] \in S
    BY <2>2
  <2>4. h \in [0 .. n + 1 -> S]
    BY <2>2, <2>3
  <2>5. h[0] = base /\ \A k \in 1 .. n + 1 : h[k] = step[k][h[k - 1]]
    BY <2>1, <2>2
  <2>6. Good(n + 1)
    BY <2>4, <2>5
  <2>7. QED
    BY <2>2, <2>6
<1>3. N \in T
  <2> HIDE DEF T
  <2>1. T \in SUBSET (0 .. N)
    BY DEF T
  <2>2. T = 0 .. N
    BY <1>1, <1>2, <2>1, IntervalInduct
  <2>3. QED
    BY <2>2
<1>4. QED
  BY <1>3
=============================================================================
