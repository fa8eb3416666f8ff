-------------------------- MODULE ModelCombinations --------------------------
(***************************************************************************)
(* The first steps of FaultSimulator::simulate_faults: the models are      *)
(* sorted, and the lists of models to inject are computed, for every short *)
(* vector of models and every limit.                                       *)
(*                                                                         *)
(* The comparator of the sort is no strict weak order: of a register model *)
(* and a later instruction model, each is less than the other.             *)
(***************************************************************************)
EXTENDS ModelLists

CONSTANTS MaxModels,   \* bound on the number of models,
          MaxAmount,   \* on the amount of each
          MaxTotal     \* and on the sum of amounts

(* Up to 16 elements StdSort is what std::sort does: of the models, and of  *)
(* the faults of a chain.                                                   *)
ASSUME BoundAssumption ==
  {MaxModels, MaxAmount, MaxTotal} \subseteq Nat \ {0} /\ MaxModels <= 16 /\ MaxTotal <= 16

VARIABLES given,              \* the models as passed by the caller,
          fault_models,       \* and as sorted
          max,                \* max_simulatenous_faults, where 0 is no limit
          models_to_inject,
          pc

vars == <<given, fault_models, max, models_to_inject, pc>>

Model == [instruction : BOOLEAN, permanent : BOOLEAN, amount : 0 .. MaxAmount]

(* id tells models apart: the position std::find finds in the copy of the   *)
(* vector that the comparator captured.                                     *)
WithIds(models) ==
  [i \in DOMAIN models |->
     [instruction |-> models[i].instruction, permanent |-> models[i].permanent,
      amount |-> models[i].amount, id |-> i]]

(* Each use of a model: the model, and which of its amount. *)
Uses(models) == {u \in (DOMAIN models) \X (1 .. MaxAmount) : u[2] <= models[u[1]].amount}

Init ==
  /\ given \in {WithIds(models) : models \in UNION {[1 .. k -> Model] : k \in 1 .. MaxModels}}
  /\ Cardinality(Uses(given)) <= MaxTotal
  /\ fault_models = given
  /\ max \in 0 .. MaxTotal
  /\ models_to_inject = <<>>
  /\ pc = "sort"

(* Mutant: only positions are compared. *)
BeforeByPosition(a, b) == a.id < b.id

Before(a, b) == (a.instruction /\ ~b.instruction) \/ a.id < b.id

SortModels ==
  /\ pc = "sort"
  /\ fault_models' = StdSort(fault_models, Before)
  /\ pc' = "combine"
  /\ UNCHANGED <<given, max, models_to_inject>>

Combine ==
  /\ pc = "combine"
  /\ models_to_inject' = ComputeModelCombinations(fault_models, max)
  /\ pc' = "done"
  /\ UNCHANGED <<given, fault_models, max>>

Done == pc = "done" /\ UNCHANGED vars

Next == SortModels \/ Combine \/ Done

Spec == Init /\ [][Next]_vars

-----------------------------------------------------------------------------
(* Although the comparator is inconsistent, the instruction models come     *)
(* first, and within each kind the order of the caller is kept.             *)
InstructionModelsFirst ==
  pc # "sort" =>
    fault_models = ElementsAt(given, {i \in DOMAIN given : given[i].instruction})
                \o ElementsAt(given, {i \in DOMAIN given : ~given[i].instruction})

(* A list the simulator should try: no model more often than it may be      *)
(* injected, not more than the limit, the permanent ones first and, since   *)
(* their order does not matter, in one order only.                          *)
Wanted(list) ==
  /\ max # 0 => Len(list) <= max
  /\ \A m \in DOMAIN fault_models :
       Cardinality({i \in DOMAIN list : list[i] = m}) <= fault_models[m].amount
  /\ \A i, j \in DOMAIN list :
       i < j /\ fault_models[list[j]].permanent
         => fault_models[list[i]].permanent /\ list[i] <= list[j]

(* Exactly the lists that are wanted are injected, and each once.           *)
AllWantedLists ==
  pc = "done" =>
    /\ ToSet(models_to_inject) =
         {list \in UNION {[1 .. k -> DOMAIN fault_models] : k \in 1 .. MaxTotal} : Wanted(list)}
    /\ IsInjective(models_to_inject)

(* Before a list is injected, the list without its last model and the last  *)
(* model alone have been: these are the two whose results                   *)
(* prepare_known_exploitable_faults looks up, silently doing without them.  *)
LowerOrdersFirst ==
  \A i \in DOMAIN models_to_inject :
    LET list == models_to_inject[i]
    IN Len(list) > 1 =>
         {Front(list), <<Last(list)>>} \subseteq {models_to_inject[j] : j \in 1 .. i - 1}
=============================================================================
