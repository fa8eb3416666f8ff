--------------------------- MODULE FaultCombination ---------------------------
(* FaultCombination, InstructionFault and RegisterFault: their orders,      *)
(* equality (that of the records) and inclusion.                            *)
EXTENDS StdAlgorithms

(* where is the address of an instruction or the register; a model has a    *)
(* single iteration.                                                        *)
Fault(instruction, model, time, where) ==
  [instruction |-> instruction, model |-> model, time |-> time, where |-> where]

(* The faults of a chain, in the order they were added, kept by kind. *)
Combination(chain) ==
  LET ofKind(instruction) ==
        ElementsAt(chain, {i \in DOMAIN chain : chain[i].instruction = instruction})
  IN  [instruction_faults |-> ofKind(TRUE), register_faults |-> ofKind(FALSE)]

Faults(c) == ToSet(c.instruction_faults) \cup ToSet(c.register_faults)

Size(c) == Len(c.instruction_faults) + Len(c.register_faults)

(* is_less_than: the model does not count, and faults of different kinds    *)
(* are never less than each other.                                          *)
FaultLess(a, b) ==
  /\ a.instruction = b.instruction
  /\ a.time < b.time \/ (a.time = b.time /\ a.where < b.where)

SortedFaults(c) == StdSort(c.instruction_faults \o c.register_faults, FaultLess)

(* operator<: by size, then by the first faults that differ. *)
CombinationLess(a, b) ==
  \/ Size(a) < Size(b)
  \/ /\ Size(a) = Size(b)
     /\ LET s == SortedFaults(a)
            t == SortedFaults(b)
        IN \E i \in DOMAIN s :
             /\ FaultLess(s[i], t[i])
             /\ \A j \in 1 .. i - 1 : ~FaultLess(t[j], s[j])

(* remove_duplicates: what is left, for each way in which it may sort. *)
WithoutDuplicates(s) == {StdUnique(t) : t \in Sortings(s, CombinationLess)}

(* custom_includes for both kinds: the faults of the other combination are  *)
(* found in this one, in their order.                                       *)
Includes(c, other) ==
  /\ other.instruction_faults \in Subsequences(c.instruction_faults)
  /\ other.register_faults \in Subsequences(c.register_faults)

(* The vectors of faults a combination is hashed by, one for each choice of *)
(* its sorted faults.  Hashes are taken to be without collisions.           *)
HashedParts(c) == Subsequences(SortedFaults(c)) \ {<<>>}
=============================================================================
