------------------------------ MODULE ModelLists ------------------------------
(* FaultSimulator::compute_model_combinations.  A fault model and its       *)
(* amount are a record; a model is named by its position.                   *)
EXTENDS StdAlgorithms

(* The positions of the permanent models, or of the others, each as often   *)
(* as it may be injected.                                                   *)
Ids(models, permanent) ==
  FlattenSeq([i \in DOMAIN models |->
    IF models[i].permanent = permanent THEN [j \in 1 .. models[i].amount |-> i] ELSE <<>>])

Bound(ids, max) == IF max # 0 /\ max < Len(ids) THEN max ELSE Len(ids)

(* What a SubsetChooser hands out for each size, as vectors of positions. *)
Subsets(ids, max) == {s \in Subsequences(ids) : Len(s) \in 1 .. Bound(ids, max)}

(* Mutant: the bound on simultaneous faults is forgotten for mixed lists. *)
AllPermutationsUnbounded(models, max) ==
  LET permanent == Subsets(Ids(models, TRUE), max)
      other     == UNION {PermutationsFrom(s) : s \in Subsets(Ids(models, FALSE), max)}
  IN permanent \cup other \cup {p \o o : p \in permanent, o \in other}

(* All subsets of the permanent models, all permutations of all subsets of  *)
(* the others, and one of each that are together not too long.              *)
AllPermutations(models, max) ==
  LET permanent == Subsets(Ids(models, TRUE), max)
      other     == UNION {PermutationsFrom(s) : s \in Subsets(Ids(models, FALSE), max)}
      mixed     == {x \in permanent \X other : max = 0 \/ Len(x[1]) + Len(x[2]) <= max}
  IN permanent \cup other \cup {x[1] \o x[2] : x \in mixed}

(* Mutant: shorter lists do not come first. *)
ListLessLexicographic(a, b) == VectorLess(a, b)

ListLess(a, b) == Len(a) < Len(b) \/ (Len(a) = Len(b) /\ VectorLess(a, b))

ComputeModelCombinations(models, max) == InOrder(AllPermutations(models, max), ListLess)
=============================================================================
