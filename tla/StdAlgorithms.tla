---------------------------- MODULE StdAlgorithms ----------------------------
(* The algorithms of the standard library the fault simulator relies on, as *)
(* libstdc++ performs them.                                                 *)
EXTENDS Integers, Sequences, SequencesExt

(* One step of an insertion sort: x goes in front of all if it is less than *)
(* the first element, else behind the last element it is not less than.     *)
Inserted(sorted, x, Less(_, _)) ==
  IF sorted # <<>> /\ Less(x, Head(sorted))
  THEN <<x>> \o sorted
  ELSE InsertAt(sorted, 1 + Max({0} \cup {j \in DOMAIN sorted : ~Less(x, sorted[j])}), x)

(* std::sort of up to 16 elements: an insertion sort.  It is told exactly   *)
(* since the code also sorts with comparators that are no weak orders.      *)
StdSort(s, Less(_, _)) ==
  LET sorted[i \in 0 .. Len(s)] ==
        IF i = 0 THEN <<>> ELSE Inserted(sorted[i - 1], s[i], Less)
  IN  sorted[Len(s)]

(* The same elements in any order. *)
Rearrangements(s) == {[i \in DOMAIN s |-> s[f[i]]] : f \in Bijection(DOMAIN s, DOMAIN s)}

(* What std::sort may return.  Of more elements the comparators of the code *)
(* only tell that they are rearranged.                                      *)
Sortings(s, Less(_, _)) == IF Len(s) <= 16 THEN {StdSort(s, Less)} ELSE Rearrangements(s)

(* std::unique: an element equal to the one kept before it is dropped. *)
Kept(kept, x) == IF kept # <<>> /\ Last(kept) = x THEN kept ELSE Append(kept, x)

StdUnique(s) ==
  LET kept[i \in 0 .. Len(s)] == IF i = 0 THEN <<>> ELSE Kept(kept[i - 1], s[i])
  IN  kept[Len(s)]

(* The elements of a std::set or the keys of a std::map as they are visited. *)
InOrder(S, Less(_, _)) ==
  [k \in 1 .. Cardinality(S) |->
     CHOOSE x \in S : Cardinality({y \in S : Less(y, x)}) = k - 1]

(* The elements of s at the positions of a set. *)
ElementsAt(s, D) ==
  LET at == InOrder(D, LAMBDA i, j : i < j)
  IN  [k \in 1 .. Cardinality(D) |-> s[at[k]]]

Subsequences(s) == {ElementsAt(s, D) : D \in SUBSET DOMAIN s}

(* The order of vectors. *)
VectorLess(a, b) ==
  \E i \in 1 .. Len(a) + 1 :
    /\ \A j \in 1 .. i - 1 : j <= Len(b) /\ a[j] = b[j]
    /\ i <= Len(b)
    /\ i <= Len(a) => a[i] < b[i]

(* The vectors next_permutation visits from s on, s itself included, until  *)
(* it wraps to the first one.                                               *)
PermutationsFrom(s) ==
  {p \in Rearrangements(s) : p = s \/ VectorLess(s, p)}
=============================================================================
