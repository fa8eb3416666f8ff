---------------------------- MODULE InjectionPool ----------------------------
(***************************************************************************)
(* The threads of FaultSimulator::simulate_faults.                         *)
(*                                                                         *)
(* For every list of fault models the main thread starts num_threads - 1   *)
(* workers and works along.  All claim the indices of the outermost model  *)
(* from m_thread_progress, under m_progress_mutex, which also guards the   *)
(* merge of the results; every critical section is one action here.        *)
(*                                                                         *)
(* A thread that claims an index first brings its own emulator to the      *)
(* place of the fault, starting from where it injected last:               *)
(*   - for an instruction fault by running up to the next address of the   *)
(*     list it collected, once for every entry it has not passed yet;      *)
(*   - for a register fault by running for as many instructions as lie     *)
(*     between the two indices;                                            *)
(*   - a permanent fault is injected at the start.                         *)
(* The fault-free run of the program is the sequence trace of instruction  *)
(* addresses, followed by the address where it stops; time t is the moment *)
(* before the instruction at address At(t) is executed.                    *)
(***************************************************************************)
EXTENDS Integers, Sequences, FiniteSets

CONSTANTS Thread,        \* all threads that call simulate()
          Main,          \* the thread that calls simulate_faults()
          Address,       \* instruction addresses
          MaxLength,     \* bound on the length of the fault-free run
          Faultable,     \* number of entries of m_all_instructions
          Rounds         \* number of model lists, models_to_inject.size()

ASSUME PoolAssumption ==
  /\ Main \in Thread /\ IsFiniteSet(Thread)
  /\ MaxLength \in Nat \ {0} /\ Faultable \in Nat /\ Rounds \in Nat \ {0}

VARIABLES
  trace,     \* time -> address of the instruction executed then
  budget,    \* m_ctx.emulation_timeout
  ignored,   \* m_ctx.ignore_time_ranges, one range
  skipped,   \* addresses in m_ctx.ignore_memory_ranges
  target,    \* round -> what its outermost model faults
  round,     \* model_index + 1
  progress,  \* m_thread_progress
  new,       \* m_new_exploitable_faults, the places of the faults
  results,   \* round -> memorized_faults
  pc,
  index,     \* current_index
  last,      \* last_index
  saved,     \* time of the thread's snapshot
  now,       \* time of the thread's emulator
  remaining, \* remaining_cycles
  found,     \* thread_ctx.new_faults
  done       \* auxiliary: <<thread, index, time>> of this round's injections

program == <<trace, budget, ignored, skipped, target>>
local   == <<pc, index, last, saved, now, remaining, found>>
vars    == <<program, round, progress, new, results, local, done>>

Targets == {"instruction", "register", "permanent"}
Labels  == {"unborn", "spawn", "collect", "claim", "restore", "replay", "inject",
            "merge", "finished", "join", "returned", "crashed"}

Length == Len(trace) - 1
At(t)  == trace[t + 1]

(* Instructions the fault-free run executes before it stops or times out. *)
RunLength == IF budget < Length THEN budget ELSE Length

-----------------------------------------------------------------------------
(* instruction_collector and add_new_registers_vector *)
Ignored(t) == At(t) \in skipped \/ (ignored.start <= t /\ t < ignored.end)

CollectedTimes == {t \in 0 .. RunLength - 1 : ~Ignored(t)}

(* Time of the i-th instruction of addresses_to_fault, counted from 0. *)
CollectedAt(i) ==
  CHOOSE t \in CollectedTimes : Cardinality({u \in CollectedTimes : u < t}) = i

IndexBound == CASE target[round] = "instruction" -> Cardinality(CollectedTimes)
           [] target[round] = "register"    -> RunLength
           [] target[round] = "permanent"   -> Faultable

(* The place where index i is meant to be faulted. *)
Place(i) == IF target[round] = "instruction" THEN CollectedAt(i) ELSE i

(* The indices of a round that have something to fault. *)
Indices == {i \in 0 .. IndexBound - 1 : target[round] = "register" => ~Ignored(i)}

Init ==
  /\ trace \in UNION {[1 .. n + 1 -> Address] : n \in 1 .. MaxLength}
  /\ budget \in 1 .. MaxLength + 1
  /\ ignored \in [start : 0 .. MaxLength, end : 0 .. MaxLength]
  /\ skipped \in SUBSET Address
  /\ target \in [1 .. Rounds -> Targets]
  /\ round = 1
  /\ progress = 0
  /\ new = {}
  /\ results = <<>>
  /\ pc = [w \in Thread |-> IF w = Main THEN "spawn" ELSE "unborn"]
  /\ index = [w \in Thread |-> 0]
  /\ last = [w \in Thread |-> 0]
  /\ saved = [w \in Thread |-> 0]
  /\ now = [w \in Thread |-> 0]
  /\ remaining = [w \in Thread |-> 0]
  /\ found = [w \in Thread |-> {}]
  /\ done = {}

-----------------------------------------------------------------------------
Go(w, label) == pc' = [pc EXCEPT ![w] = label]

Shared == <<round, progress, new, results, done>>

Spawn(w) ==
  /\ pc[Main] = "spawn" /\ pc[w] = "unborn"
  /\ Go(w, "collect")
  /\ UNCHANGED <<program, Shared, index, last, saved, now, remaining, found>>

Spawned ==
  /\ pc[Main] = "spawn" /\ \A w \in Thread \ {Main} : pc[w] # "unborn"
  /\ Go(Main, "collect")
  /\ UNCHANGED <<program, Shared, index, last, saved, now, remaining, found>>

(* A fresh copy of the emulator, its backup, and the fault-free run. *)
Collect(w) ==
  /\ pc[w] = "collect"
  /\ last' = [last EXCEPT ![w] = 0]
  /\ saved' = [saved EXCEPT ![w] = 0]
  /\ now' = [now EXCEPT ![w] = RunLength]
  /\ remaining' = [remaining EXCEPT ![w] = budget]
  /\ found' = [found EXCEPT ![w] = {}]
  /\ Go(w, "claim")
  /\ UNCHANGED <<program, Shared, index>>

(* Mutant: the shared counter is set from the thread's own index. *)
ClaimOwn(w) ==
  /\ pc[w] = "claim"
  /\ index' = [index EXCEPT ![w] = progress]
  /\ progress' = index[w] + 1
  /\ CASE progress >= IndexBound        -> Go(w, "merge")
       [] progress \in Indices     -> Go(w, "restore")
       [] OTHER                    -> UNCHANGED pc
  /\ UNCHANGED <<program, round, new, results, done, last, saved, now, remaining, found>>

(* Mutant: the counter does not move on. *)
ClaimAgain(w) ==
  /\ pc[w] = "claim"
  /\ index' = [index EXCEPT ![w] = progress]
  /\ CASE progress >= IndexBound        -> Go(w, "merge")
       [] progress \in Indices     -> Go(w, "restore")
       [] OTHER                    -> UNCHANGED pc
  /\ UNCHANGED <<program, round, progress, new, results, done, last, saved, now, remaining, found>>

(* current_index = m_thread_progress++ under the mutex *)
Claim(w) ==
  /\ pc[w] = "claim"
  /\ index' = [index EXCEPT ![w] = progress]
  /\ progress' = progress + 1
  /\ CASE progress >= IndexBound        -> Go(w, "merge")
       [] progress \in Indices     -> Go(w, "restore")
       [] OTHER                    -> UNCHANGED pc
  /\ UNCHANGED <<program, round, new, results, done, last, saved, now, remaining, found>>

(* Mutant: every index gets the whole timeout for its replay. *)
RestoreTimeout(w) ==
  /\ pc[w] = "restore"
  /\ now' = [now EXCEPT ![w] = saved[w]]
  /\ remaining' = [remaining EXCEPT ![w] = budget]
  /\ Go(w, IF target[round] = "permanent" THEN "inject" ELSE "replay")
  /\ UNCHANGED <<program, Shared, index, last, saved, found>>

Restore(w) ==
  /\ pc[w] = "restore"
  /\ now' = [now EXCEPT ![w] = saved[w]]
  /\ Go(w, IF target[round] = "permanent" THEN "inject" ELSE "replay")
  /\ UNCHANGED <<program, Shared, index, last, saved, remaining, found>>

(* emulate(address, cycles) from time t: the first arrival, in fewer than   *)
(* cycles instructions; t itself counts.                                    *)
Arrivals(t, address, cycles) ==
  {u \in t .. t + cycles - 1 : u <= Length /\ At(u) = address}

FirstOf(S) == CHOOSE t \in S : \A u \in S : t <= u

(* One pass of the loop over addresses_to_fault. *)
ReplayInstruction(w) ==
  LET arrivals == Arrivals(now[w], At(CollectedAt(last[w])), remaining[w])
      there    == FirstOf(arrivals)
  IN
  /\ pc[w] = "replay" /\ target[round] = "instruction" /\ last[w] <= index[w]
  /\ IF arrivals # {}
     THEN /\ now' = [now EXCEPT ![w] = there]
          /\ remaining' = [remaining EXCEPT ![w] = remaining[w] - (there - now[w])]
          /\ last' = [last EXCEPT ![w] = last[w] + 1]
          /\ UNCHANGED pc
     ELSE /\ Go(w, IF now[w] + remaining[w] <= Length THEN "merge" ELSE "crashed")
          /\ UNCHANGED <<now, remaining, last>>
  /\ UNCHANGED <<program, Shared, index, saved, found>>

(* Mutant: the replay runs current_index instructions from the snapshot.    *)
ReplayRegisterAbsolute(w) ==
  /\ pc[w] = "replay" /\ target[round] = "register" /\ last[w] < index[w]
  /\ IF now[w] + index[w] <= Length
     THEN /\ now' = [now EXCEPT ![w] = now[w] + index[w]]
          /\ remaining' = [remaining EXCEPT ![w] = remaining[w] - index[w]]
          /\ last' = [last EXCEPT ![w] = index[w]]
          /\ UNCHANGED pc
     ELSE /\ Go(w, "crashed")
          /\ UNCHANGED <<now, remaining, last>>
  /\ UNCHANGED <<program, Shared, index, saved, found>>

(* emulate(current_index - last_index) *)
ReplayRegister(w) ==
  /\ pc[w] = "replay" /\ target[round] = "register" /\ last[w] < index[w]
  /\ LET cycles == index[w] - last[w]
     IN IF now[w] + cycles <= Length
        THEN /\ now' = [now EXCEPT ![w] = now[w] + cycles]
             /\ remaining' = [remaining EXCEPT ![w] = remaining[w] - cycles]
             /\ last' = [last EXCEPT ![w] = index[w]]
             /\ UNCHANGED pc
        ELSE /\ Go(w, "crashed")
             /\ UNCHANGED <<now, remaining, last>>
  /\ UNCHANGED <<program, Shared, index, saved, found>>

(* Mutant: no backup at the new place. *)
ReplayedUnsaved(w) ==
  /\ pc[w] = "replay"
  /\ \/ target[round] = "instruction" /\ last[w] > index[w]
     \/ target[round] = "register" /\ last[w] >= index[w]
  /\ Go(w, IF remaining[w] = 0 THEN "merge" ELSE "inject")
  /\ UNCHANGED <<program, Shared, index, last, saved, now, remaining, found>>

(* The place is reached: return without cycles left, else backup. *)
Replayed(w) ==
  /\ pc[w] = "replay"
  /\ \/ target[round] = "instruction" /\ last[w] > index[w]
     \/ target[round] = "register" /\ last[w] >= index[w]
  /\ IF remaining[w] = 0
     THEN Go(w, "merge") /\ UNCHANGED saved
     ELSE Go(w, "inject") /\ saved' = [saved EXCEPT ![w] = now[w]]
  /\ UNCHANGED <<program, Shared, index, last, now, remaining, found>>

(* All faults of the model at this place; the runs end anywhere. *)
Inject(w) ==
  /\ pc[w] = "inject"
  /\ LET place == IF target[round] = "permanent" THEN index[w] ELSE now[w]
     IN /\ found' = [found EXCEPT ![w] = @ \union {place}]
        /\ done' = done \union {<<w, index[w], place>>}
  /\ Go(w, "claim")
  /\ UNCHANGED <<program, round, progress, new, results, index, last, saved, now, remaining>>

Merge(w) ==
  /\ pc[w] = "merge"
  /\ new' = new \union found[w]
  /\ Go(w, IF w = Main THEN "join" ELSE "finished")
  /\ UNCHANGED <<program, round, progress, results, done, index, last, saved, now, remaining, found>>

(* Mutant: the results are taken before the workers are joined. *)
JoinEarly ==
  /\ pc[Main] = "join"
  /\ results' = Append(results, new)
  /\ new' = {}
  /\ IF round < Rounds
     THEN /\ round' = round + 1
          /\ progress' = 0
          /\ done' = {}
          /\ pc' = [w \in Thread |-> IF w = Main THEN "spawn" ELSE "unborn"]
     ELSE Go(Main, "returned") /\ UNCHANGED <<round, progress, done>>
  /\ UNCHANGED <<program, index, last, saved, now, remaining, found>>

(* All workers joined: store the results and go on with the next models.    *)
Join ==
  /\ pc[Main] = "join" /\ \A w \in Thread \ {Main} : pc[w] = "finished"
  /\ results' = Append(results, new)
  /\ new' = {}
  /\ IF round < Rounds
     THEN /\ round' = round + 1
          /\ progress' = 0
          /\ done' = {}
          /\ pc' = [w \in Thread |-> IF w = Main THEN "spawn" ELSE "unborn"]
     ELSE /\ Go(Main, "returned")
          /\ UNCHANGED <<round, progress, done>>
  /\ UNCHANGED <<program, index, last, saved, now, remaining, found>>

Returned == pc[Main] = "returned" /\ UNCHANGED vars

Step(w) ==
  \/ Spawn(w) \/ Collect(w) \/ Claim(w) \/ Restore(w)
  \/ ReplayInstruction(w) \/ ReplayRegister(w) \/ Replayed(w)
  \/ Inject(w) \/ Merge(w)

Next == (\E w \in Thread : Step(w)) \/ Spawned \/ Join \/ Returned

(* Programs for which an address identifies the next instruction to fault:  *)
(* none branches to itself, and only the end of the run is ignored, as in   *)
(* the AES case study.                                                      *)
StraightInit ==
  /\ Init
  /\ \A t \in 0 .. Length - 1 : At(t) # At(t + 1)
  /\ skipped = {}
  /\ ignored.end = MaxLength

(* The operating system lets every thread run. *)
Fairness == WF_vars(Spawned) /\ WF_vars(Join) /\ \A w \in Thread : WF_vars(Step(w))

Spec == Init /\ [][Next]_vars /\ Fairness

StraightSpec == StraightInit /\ [][Next]_vars /\ Fairness

-----------------------------------------------------------------------------
(* Every fault goes to the occurrence of the instruction it was collected   *)
(* for: replaying by address from wherever the thread injected last, with   *)
(* other threads taking the indices in between, ends at the same moment of  *)
(* the run as a replay from the start.                                      *)
InjectedInPlace ==
  \A d \in done : d[2] \in Indices /\ d[3] = Place(d[2])

(* No index is injected by two threads. *)
ClaimedOnce ==
  \A d, e \in done : d[2] = e[2] => d = e

(* At every injection the cycles left are the timeout less the cycles       *)
(* already run, so that each fault gets the whole timeout.                  *)
TimeoutPerFault ==
  \A w \in Thread : (pc[w] = "inject" /\ target[round] # "permanent")
    => remaining[w] + now[w] = budget

(* When simulate_faults has joined its workers, the results of each model   *)
(* list are those of all indices, whichever thread found them.              *)
AllIndicesInResults ==
  \A r \in 1 .. Len(results) :
    results[r] = CASE target[r] = "instruction" -> CollectedTimes
                   [] target[r] = "register"    -> CollectedTimes
                   [] target[r] = "permanent"   -> 0 .. Faultable - 1

(* No thread dies of the "error which should never occur". *)
NoCrash == \A w \in Thread : pc[w] # "crashed"

(* simulate_faults returns. *)
Termination == <>(pc[Main] = "returned")

(* Context::ignore_time_ranges, armory/context.h: "If you want to not       *)
(* inject faults in a time tange, define it here."                          *)
IgnoredTimeNotInjected ==
  \A d \in done : target[round] # "permanent" =>
    ~(ignored.start <= d[3] /\ d[3] < ignored.end)
=============================================================================
