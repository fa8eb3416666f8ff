------------------------------ MODULE KnownFaults ------------------------------
(***************************************************************************)
(* FaultSimulator::simulate_faults as a whole: the lists of models are     *)
(* computed as ModelCombinations does, and are injected one after the      *)
(* other.  What is modelled of the injection is how it uses the results of *)
(* earlier lists: prepare_known_exploitable_faults, is_fault_redundant,    *)
(* the levels of injection that skip redundant faults, and the final       *)
(* result.                                                                 *)
(*                                                                         *)
(* What the emulator decides is chosen before the first injection: which   *)
(* faults have an effect, after which of them the inner levels are called, *)
(* and which sets of faults make the program exploitable.  The program     *)
(* runs straight on: the instruction executed at time t is at address t.   *)
(***************************************************************************)
EXTENDS ModelCombinations, FaultCombination

CONSTANTS Inputs,         \* the vectors of fault models of a caller
          Limit,          \* max_simulatenous_faults
          Length,         \* instructions of a run
          Registers,      \* number of registers
          MaxExploitable, \* bound on the sets of faults that are exploitable
          MaxCuts,        \* bound on the chains that the emulator cuts short
          MaxResults      \* bound on the results of all lists together

ASSUME FaultsAssumption ==
  /\ Inputs \subseteq UNION {[1 .. k -> Model] : k \in 1 .. MaxModels}
  /\ {Limit, Length, Registers, MaxExploitable, MaxCuts, MaxResults} \subseteq Nat

VARIABLES tried,          \* the chains of faults that are tried, if none is redundant
          exploitable,    \* the sets of faults that make the program exploitable
          model_index,    \* the list being injected
          known,          \* known_fault_combinations
          memorized,      \* memorized_faults
          result,
          phase

injecting == <<tried, exploitable, model_index, known, memorized, result, phase>>

-----------------------------------------------------------------------------
(* The faults that may be injected after a chain of faults *)

(* A transient instruction fault lets its instruction execute before the    *)
(* next level begins; a register fault and a permanent one do not.          *)
LetsExecute(models, f) == f.instruction /\ ~models[f.model].permanent

(* The time at which the level after a chain begins.                        *)
EntryTime(models, chain) ==
  IF chain = <<>> THEN 0
  ELSE LET f == Last(chain) IN IF LetsExecute(models, f) THEN f.time + 1 ELSE f.time

(* Faults of the kind that are already in the chain. *)
Others(chain, instruction) == {f \in ToSet(chain) : f.instruction = instruction}

(* A permanent model goes through all instructions or registers, from       *)
(* recursion_data on if the model is the one before again.                  *)
PermanentFaults(models, m, chain) ==
  LET instruction == models[m].instruction
      first == IF chain # <<>> /\ Last(chain).model = m THEN Last(chain).where + 1 ELSE 0
      last  == (IF instruction THEN Length ELSE Registers) - 1
  IN {Fault(instruction, m, EntryTime(models, chain), where) :
        where \in (first .. last) \ {f.where : f \in Others(chain, instruction)}}

TransientInstructionFaults(models, m, chain) ==
  {Fault(TRUE, m, time, time) :
     time \in (EntryTime(models, chain) .. Length - 1)
                \ {f.where : f \in {g \in Others(chain, TRUE) : models[g.model].permanent}}}

TransientRegisterFaults(models, m, chain) ==
  {f \in {Fault(FALSE, m, at[1], at[2]) :
            at \in (EntryTime(models, chain) .. Length - 1) \X (0 .. Registers - 1)} :
     \A g \in Others(chain, FALSE) :
       g.where = f.where => ~models[g.model].permanent /\ g.time # f.time}

Injectable(models, m, chain) ==
  IF models[m].permanent THEN PermanentFaults(models, m, chain)
  ELSE IF models[m].instruction THEN TransientInstructionFaults(models, m, chain)
  ELSE TransientRegisterFaults(models, m, chain)

(* All chains of a list of models, one fault of each. *)
Chains(models, list) ==
  LET upto[i \in 0 .. Len(list)] ==
        IF i = 0 THEN {<<>>}
        ELSE UNION {{Append(c, f) : f \in Injectable(models, list[i], c)} : c \in upto[i - 1]}
  IN upto[Len(list)]

(* Sets of up to n elements of S. *)
UpTo(n, S) == {ToSet(s) : s \in UNION {[1 .. k -> S] : k \in 0 .. n}}

(* A level passes over a fault that has no effect: its register is not read,*)
(* or still holds the value that a fault of the chain has put there until   *)
(* it is overwritten; it is not applicable or changes nothing; it is no     *)
(* instruction, or one that fails.  After a transient instruction fault no  *)
(* level is called if too few cycles are left, or if the repeated           *)
(* instruction does not end as the first time.                              *)
Reached(chains, ineffective, stopped) ==
  {c \in chains : \A n \in 1 .. Len(c) :
     /\ SubSeq(c, 1, n) \notin ineffective
     /\ n < Len(c) => SubSeq(c, 1, n) \notin stopped}

-----------------------------------------------------------------------------
FaultsInit ==
  /\ Init
  /\ given \in {WithIds(models) : models \in Inputs}
  /\ max = Limit
  /\ tried = {} /\ exploitable = {}
  /\ model_index = 1
  /\ known = <<>> /\ memorized = <<>> /\ result = <<>>
  /\ phase = "lists"

Sort == SortModels /\ UNCHANGED injecting

ComputeLists ==
  /\ Combine
  /\ LET all == UNION {Chains(fault_models, list) : list \in ToSet(models_to_inject')}
     IN \E ineffective \in UpTo(MaxCuts, all) :
        \E stopped \in UpTo(MaxCuts, {c \in all : LetsExecute(fault_models, Last(c))}) :
          LET cuts == Cardinality(ineffective) + Cardinality(stopped)
          IN /\ cuts <= MaxCuts
             /\ tried' = Reached(all, ineffective, stopped)
             /\ exploitable' \in UpTo(MaxExploitable - cuts, {ToSet(c) : c \in tried'})
  /\ phase' = IF models_to_inject' = <<>> THEN "aggregate" ELSE "prepare"
  /\ UNCHANGED <<model_index, known, memorized, result>>

current_models == models_to_inject[model_index]

(* memorized_faults.find, and nothing if the list is not there. *)
Memorized(list) == IF list \in DOMAIN memorized THEN memorized[list] ELSE <<>>

(* Mutant: those of the last model alone are not looked up. *)
PrepareWithoutLast ==
  /\ phase = "prepare"
  /\ known' = IF Len(current_models) > 1 THEN Memorized(Front(current_models)) ELSE <<>>
  /\ phase' = "simulate"
  /\ UNCHANGED <<vars, tried, exploitable, model_index, memorized, result>>

(* Mutant: the longer list is looked up first. *)
PrepareSwapped ==
  /\ phase = "prepare"
  /\ known' = IF Len(current_models) > 1
              THEN Memorized(Front(current_models)) \o Memorized(<<Last(current_models)>>)
              ELSE <<>>
  /\ phase' = "simulate"
  /\ UNCHANGED <<vars, tried, exploitable, model_index, memorized, result>>

(* prepare_known_exploitable_faults: those of the last model alone, then    *)
(* those of the list without it.                                            *)
Prepare ==
  /\ phase = "prepare"
  /\ known' = IF Len(current_models) > 1
              THEN Memorized(<<Last(current_models)>>) \o Memorized(Front(current_models))
              ELSE <<>>
  /\ phase' = "simulate"
  /\ UNCHANGED <<vars, tried, exploitable, model_index, memorized, result>>

(* Mutant: one common part is enough. *)
RedundantByPart(c) ==
  \E part \in HashedParts(c) : \E i \in DOMAIN known : part \in HashedParts(known[i])

(* is_fault_redundant: for each part of the faults, the known combinations  *)
(* that have it as a part are looked through, up to the first larger one.   *)
Redundant(c) ==
  \E part \in HashedParts(c) :
    LET candidates == {i \in DOMAIN known : part \in HashedParts(known[i])}
    IN  \E i \in candidates :
          /\ \A j \in candidates : j <= i => Size(known[j]) <= Size(c)
          /\ Includes(c, known[i])

(* What level i injects after the chains that reached it. *)
Injected(i, chains) ==
  {c \in UNION {{Append(b, f) : f \in Injectable(fault_models, current_models[i], b)} : b \in chains} :
     c \in tried /\ ~Redundant(Combination(c))}

(* A transient fault is tried on its own before the next level; a permanent *)
(* one only at the last level.  What is exploitable is not continued.       *)
Hits(i, chains) ==
  {c \in chains :
     /\ ~fault_models[current_models[i]].permanent \/ i = Len(current_models)
     /\ ToSet(c) \in exploitable}

(* What each level injects, and all that is found exploitable. *)
level[i \in 1 .. Len(current_models)] ==
  IF i = 1 THEN Injected(1, {<<>>})
  ELSE Injected(i, level[i - 1] \ Hits(i - 1, level[i - 1]))

Found == {Combination(c) : c \in UNION {Hits(i, level[i]) : i \in DOMAIN current_models}}

(* Mutant: only what is new is stored. *)
SimulateNewOnly ==
  /\ phase = "simulate"
  /\ \E found \in SetToSeqs(Found) : \E new \in WithoutDuplicates(found) :
       memorized' = [list \in DOMAIN memorized \cup {current_models} |->
                       IF list = current_models THEN new ELSE memorized[list]]
  /\ model_index' = model_index + 1
  /\ phase' = IF model_index = Len(models_to_inject) THEN "aggregate" ELSE "prepare"
  /\ UNCHANGED <<vars, tried, exploitable, known, result>>

(* The threads inject and add their results in any order; without           *)
(* duplicates they are stored behind the known ones.                        *)
Simulate ==
  /\ phase = "simulate"
  /\ \E found \in SetToSeqs(Found) : \E new \in WithoutDuplicates(found) :
       memorized' = [list \in DOMAIN memorized \cup {current_models} |->
                       IF list = current_models THEN known \o new ELSE memorized[list]]
  /\ model_index' = model_index + 1
  /\ phase' = IF model_index = Len(models_to_inject) THEN "aggregate" ELSE "prepare"
  /\ UNCHANGED <<vars, tried, exploitable, known, result>>

(* The results of all lists, in the order of the map. *)
AllResults ==
  LET lists == InOrder(DOMAIN memorized, VectorLess)
  IN  FlattenSeq([i \in DOMAIN lists |-> memorized[lists[i]]])

Aggregate ==
  /\ phase = "aggregate"
  /\ Len(AllResults) <= MaxResults
  /\ result' \in WithoutDuplicates(AllResults)
  /\ phase' = "done"
  /\ UNCHANGED <<vars, tried, exploitable, model_index, known, memorized>>

Finished ==
  /\ phase = "done" \/ (phase = "aggregate" /\ Len(AllResults) > MaxResults)
  /\ UNCHANGED <<vars, injecting>>

FaultsNext == Sort \/ ComputeLists \/ Prepare \/ Simulate \/ Aggregate \/ Finished

FaultsSpec == FaultsInit /\ [][FaultsNext]_<<vars, injecting>>

-----------------------------------------------------------------------------
(* Skipping redundant faults loses nothing: every set of faults that makes  *)
(* the program exploitable, and that would be tried if nothing were         *)
(* redundant, is represented by a result that it includes; and only such    *)
(* sets are results.                                                        *)
Complete ==
  /\ \A c \in ToSet(known) \cup ToSet(result) : Faults(c) \in exploitable
  /\ phase = "done" => \A e \in exploitable : \E c \in ToSet(result) : Faults(c) \subseteq e

(* is_fault_redundant stops at the first candidate with more faults: known  *)
(* combinations never have fewer faults than those before them.             *)
KnownSortedBySize ==
  \A i, j \in DOMAIN known : i < j => Size(known[i]) <= Size(known[j])

(* What was found with the first models of a list, or with its last one, is *)
(* not found again with all of them: what is new has a fault of each model. *)
NewHaveAllFaults ==
  \A list \in DOMAIN memorized :
    \A c \in ToSet(memorized[list]) :
      \/ Size(c) = Len(list)
      \/ c \in ToSet(Memorized(Front(list))) \cup ToSet(Memorized(<<Last(list)>>))

(* fault_combination.h:23: of two exploitable combinations of which one     *)
(* includes the other, only the smaller one is kept.  This is so for lists  *)
(* of up to two models, and not for longer ones.                            *)
ResultMinimal ==
  \A c, d \in ToSet(result) : Faults(c) \subseteq Faults(d) => Faults(c) = Faults(d)
PairsMinimal ==
  (\A list \in ToSet(models_to_inject) : Len(list) <= 2) => ResultMinimal

(* fault_simulator.cpp:143: duplicates are filtered out of the result.      *)
ResultWithoutDuplicates == IsInjective(result)

(* The same for combinations that hold the same faults in another order,    *)
(* which get_sorted_faults is to make alike.                                *)
EachSetOfFaultsOnce ==
  \A i, j \in DOMAIN result : Faults(result[i]) = Faults(result[j]) => i = j
=============================================================================
