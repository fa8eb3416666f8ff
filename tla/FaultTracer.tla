----------------------------- MODULE FaultTracer -----------------------------
(***************************************************************************)
(* FaultTracer::verify as a second implementation of what the four         *)
(* functions of injection do with a chain of faults: no snapshots, levels  *)
(* or replays, but one run in which hooks find the moment of every fault   *)
(* by its time.  A behaviour follows the simulator along one path through  *)
(* its levels and hands every chain it tries to the tracer.                *)
(***************************************************************************)
EXTENDS FaultedProgram

CONSTANTS ModelLists,   \* the lists of fault models
          IgnoredRanges,\* the addresses that a context may ignore
          MaxTimeout    \* bound on the emulation timeout

(* Permanent models come first, see AllWantedLists of ModelCombinations;     *)
(* instruction faults have no type "until_overwrite".                        *)
ModelAssumption ==
  \A list \in ModelLists :
    /\ list \in Seq([instruction : BOOLEAN, type : {"permanent", "transient", "until_overwrite"}])
    /\ Len(list) > 0
    /\ \A i \in DOMAIN list : list[i].instruction => list[i].type # "until_overwrite"
    /\ \A i, j \in DOMAIN list : i < j /\ list[j].type = "permanent" => list[i].type = "permanent"

ASSUME SizeAssumption == Size \in Nat
ASSUME TimeoutAssumption == MaxTimeout \in Nat \ {0}
ASSUME ListsAssumption == ModelAssumption

VARIABLES
  models,       \* m_fault_models
  timeout,      \* m_ctx.emulation_timeout
  ignored_from, \* start of the only ignored time range, which never ends
  level,        \* fault_model_index
  entry,        \* the emulator when the level was called
  remaining,    \* remaining_cycles of the level
  place,        \* the snapshot of the level, with the fault being tried in its chain
  left,         \* remaining_cycles at that place
  tried,        \* the emulator after the chain was tried
  forgotten,    \* auxiliary: the end address was visited before that place
  found,        \* the chain is added to new_faults
  traced,       \* the emulator of the tracer after verify()
  pc

setup == <<program, end_address, required, ignored, models, timeout, ignored_from>>
vars  == <<setup, level, entry, remaining, place, left, tried, forgotten, found, traced, pc>>

Never == 2 * MaxTimeout

Init ==
  /\ program \in [Address -> Instruction]
  /\ end_address \in Address
  /\ required \in 1 .. 2
  /\ ignored \in IgnoredRanges
  /\ models \in ModelLists
  /\ timeout \in MaxTimeout - 1 .. MaxTimeout
  /\ ignored_from \in {2, Never}
  /\ level = 1
  /\ entry = MainEmulator(<<>>)
  /\ remaining = timeout
  /\ place = entry /\ left = 0 /\ tried = entry /\ forgotten = FALSE /\ found = FALSE /\ traced = entry
  /\ pc = "inject"

model == models[level]
AtModel(instruction, permanent) ==
  pc = "inject" /\ model.instruction = instruction /\ (model.type = "permanent") = permanent
LastLevel == level = Len(models)

NewInstructionFault(m, where) ==
  [instruction |-> TRUE, type |-> model.type, where |-> where, time |-> m.time, original |-> m.flash[where]]
NewRegisterFault(m) ==
  [instruction |-> FALSE, type |-> model.type, time |-> m.time, original |-> m.reg]

WithFault(m, f) == [m EXCEPT !.faults = Append(@, f)]
Chained(instruction, P(_)) == \E k \in DOMAIN entry.faults :
                                entry.faults[k].instruction = instruction /\ P(entry.faults[k])

(* The manipulation of the last fault of the chain. *)
Newest(m) == m.faults[Len(m.faults)]
WriteInstruction(m) == [m EXCEPT !.flash[Newest(m).where] = ManipulatedInstruction(Newest(m).original)]
RepairFlash(m) == [m EXCEPT !.flash[Newest(m).where] = Newest(m).original]
WriteRegister(m) == [m EXCEPT !.reg = ManipulatedValue(Newest(m).original)]

(* What the level's own run without a further fault executes. *)
Executed(m, cycles) ==
  LET all == Emulate(Fresh(m), Nowhere, cycles, FALSE).trace
  IN SubSeq(all, Len(m.trace) + 1, Len(all))

(* get_instruction_order and add_new_registers_vector *)
Collected(executed) ==
  {i \in DOMAIN executed : executed[i].time < ignored_from /\ executed[i].pc \notin ignored}

(* What is left of the level's cycles at m. *)
Left(m) == remaining - (m.time - entry.time)

(* The replay to the last of some instructions, one by one by the           *)
(* addresses of those that were collected.                                  *)
Replay(executed, last) ==
  LET to[i \in 0 .. last] ==
        IF i = 0 THEN Fresh(entry)
        ELSE LET before == to[i - 1]
             IN IF i \notin Collected(executed) \/ before.code = "MAX_INSTRUCTIONS_REACHED"
                THEN before
                ELSE Emulate(before, executed[i].pc, Left(before), FALSE)
  IN to[last]

-----------------------------------------------------------------------------
(* One fault is injected at m and the chain tried to the end of the run. *)
Try(m, cycles, run) ==
  /\ place' = m
  /\ left' = cycles
  /\ tried' = run
  /\ found' = (run.end_reached /\ run.decision = "EXPLOITABLE")
  /\ forgotten' = (\E i \in DOMAIN m.trace : m.trace[i].pc = end_address)
  /\ pc' = "verify"
  /\ UNCHANGED <<setup, level, entry, remaining, traced>>

(* The next level is called. *)
Descend(m, cycles) ==
  /\ level' = level + 1
  /\ entry' = m
  /\ remaining' = cycles
  /\ pc' = "inject"
  /\ UNCHANGED <<setup, place, left, tried, forgotten, found, traced>>

(* Mutant: the cycle of the faulted instruction is not counted. *)
RunAllCycles(m, cycles) ==
  LET one  == Emulate(WriteInstruction(Fresh(m)), Nowhere, 1, FALSE)
      rest == RepairFlash(one)
  IN IF one.code = "INVALID_MEMORY_ACCESS" \/ one.end_reached \/ cycles <= 1 THEN rest
     ELSE Emulate(rest, Nowhere, cycles, FALSE)

(* The faulted instruction alone, then the rest of the run with the flash   *)
(* repaired.                                                                *)
RunInstructionFault(m, cycles) ==
  LET one  == Emulate(WriteInstruction(Fresh(m)), Nowhere, 1, FALSE)
      rest == RepairFlash(one)
  IN IF one.code = "INVALID_MEMORY_ACCESS" \/ one.end_reached \/ cycles <= 1 THEN rest
     ELSE Emulate(rest, Nowhere, cycles - 1, FALSE)

(* simulate_instruction_fault, for one of the collected instructions. *)
InjectInstruction ==
  /\ AtModel(TRUE, FALSE)
  /\ LET executed == Executed(entry, remaining) IN \E i \in Collected(executed) :
       LET n == Replay(executed, i)
           cycles == Left(n)
           where == executed[i].pc
           m == WithFault(n, NewInstructionFault(n, where))
       IN /\ n.code = "END_ADDRESS_REACHED"
          /\ cycles # 0
          /\ ~Chained(TRUE, LAMBDA f : f.type = "permanent" /\ f.where = where)
          /\ Try(m, cycles, RunInstructionFault(m, cycles))

(* simulate_register_fault, for an instruction that reads the register. *)
InjectRegister ==
  /\ AtModel(FALSE, FALSE)
  /\ LET executed == Executed(entry, remaining) IN \E i \in Collected(executed) :
       LET n == IF i = 1 THEN Fresh(entry) ELSE Emulate(Fresh(entry), Nowhere, i - 1, FALSE)
           m == WithFault(n, NewRegisterFault(n))
           cycles == Left(n)
       IN /\ executed[i].instruction # "nop"
          /\ cycles # 0
          /\ ~Chained(FALSE, LAMBDA f :
                 \/ f.type = "permanent" \/ f.time = n.time
                 \/ f.type = "until_overwrite" /\ ManipulatedValue(f.original) = n.reg)
          /\ Try(m, cycles, Emulate(WriteRegister(Fresh(m)), Nowhere, cycles, FALSE))

(* A permanent fault is tried at the last level, and in force for all inner *)
(* levels otherwise.                                                        *)
TryPermanent(m, written) ==
  IF LastLevel THEN Try(m, remaining, Emulate(Fresh(written), Nowhere, remaining, FALSE))
  ELSE Descend(written, remaining)

(* m_all_instructions: the loop that gathers them ends before the last one. *)
AllInstructions == {a \in Address : a + 1 < Size /\ a \notin ignored}

(* simulate_permanent_instruction_fault; the same model goes on behind the  *)
(* address of the level before.                                             *)
InjectPermanentInstruction ==
  /\ AtModel(TRUE, TRUE)
  /\ \E a \in AllInstructions :
       LET m == WithFault(entry, NewInstructionFault(entry, a))
       IN /\ ~Chained(TRUE, LAMBDA f : f.where = a)
          /\ level > 1 /\ models[level - 1] = model => a > Newest(entry).where
          /\ TryPermanent(m, WriteInstruction(m))

(* simulate_permanent_register_fault *)
InjectPermanentRegister ==
  /\ AtModel(FALSE, TRUE)
  /\ ~Chained(FALSE, LAMBDA f : TRUE)
  /\ LET m == WithFault(entry, NewRegisterFault(entry))
     IN TryPermanent(m, WriteRegister(m))

(* FaultTracer::verify of the chain just tried. *)
Verify ==
  /\ pc = "verify"
  /\ traced' = Emulate(MainEmulator(place.faults), Nowhere, timeout, TRUE)
  /\ pc' = "verified"
  /\ UNCHANGED <<setup, level, entry, remaining, place, left, tried, forgotten, found>>

(* Not exploitable: continue with the next level. *)
Continues == pc = "verified" /\ ~found /\ ~LastLevel /\ model.type # "permanent"

(* Mutant: the first run goes on instead of the saved place. *)
AgainWithoutRestore ==
  Emulate(WriteInstruction([tried EXCEPT !.end_reached = FALSE]), Nowhere, 1, FALSE)

(* The fault is injected once more and its instruction executed.  The       *)
(* exploitability model is the one the first run has used.                  *)
AgainOnce ==
  Emulate(WriteInstruction([place EXCEPT !.visits = tried.visits, !.end_reached = FALSE]),
          Nowhere, 1, FALSE)

AgainInstruction ==
  /\ Continues /\ model.instruction
  /\ left > 2
  /\ LET one == AgainOnce
     IN /\ one.code = "MAX_INSTRUCTIONS_REACHED"
        /\ Descend(RepairFlash(one), left - 1)

(* Anything but a full cycle moves on to the next iteration of the model.   *)
AgainFailed ==
  /\ Continues /\ model.instruction
  /\ left > 2
  /\ AgainOnce.code # "MAX_INSTRUCTIONS_REACHED"
  /\ pc' = "skipped"
  /\ UNCHANGED <<setup, level, entry, remaining, place, left, tried, forgotten, found, traced>>

AgainRegister ==
  /\ Continues /\ ~model.instruction
  /\ left > 0
  /\ Descend(WriteRegister(place), left)

Next ==
  \/ InjectInstruction \/ InjectRegister
  \/ InjectPermanentInstruction \/ InjectPermanentRegister
  \/ Verify
  \/ AgainInstruction \/ AgainFailed \/ AgainRegister

Spec == Init /\ [][Next]_vars

-----------------------------------------------------------------------------
(* The verdict of the tracer, verify()'s result. *)
Confirmed == traced.end_reached /\ traced.decision = "EXPLOITABLE"

(* Under a permanent register fault, a step in an ignored memory range has  *)
(* written the register: the simulator's handle_permanent_register_fault_   *)
(* overwrite leaves that value alone, the tracer's manipulates it.          *)
LeftAlone(faults, step) ==
  HasPermanent(faults) /\ step.instruction = "flip" /\ step.pc \in ignored

(* The tracer calls a chain exploitable exactly if the simulator does,      *)
(* unless the two differ by construction: the simulator starts the          *)
(* exploitability model anew with every fault, so that it forgets visits of *)
(* an end address before the last one, and it leaves values alone in an     *)
(* ignored memory range.                                                    *)
VerdictsAgree ==
  /\ pc = "verified" /\ ~forgotten
  /\ \A k \in DOMAIN tried.trace : ~LeftAlone(place.faults, tried.trace[k])
  => (Confirmed <=> found)

(* Both executed the same instructions on the same values, cycle by cycle:  *)
(* replays, repeated injections and restored places add up to the run that  *)
(* has all faults of the chain at their times, within the same timeout.     *)
(* Where the simulator leaves a value alone this holds up to that write.    *)
SameRun ==
  pc = "verified" /\ ~forgotten =>
    \/ traced.trace = tried.trace
    \/ \E k \in DOMAIN tried.trace :
         /\ LeftAlone(place.faults, tried.trace[k])
         /\ \A i \in 1 .. k : i \in DOMAIN traced.trace /\ traced.trace[i] = tried.trace[i]

(* The inner levels are skipped for a fault only if its instruction did not *)
(* execute: what ended the first run does not end its repetition.  Faults   *)
(* on an end address are the exception: there the exploitability model of   *)
(* the first run has already counted the visit that the repetition makes.   *)
SkippedOnlyIfNotExecuted ==
  pc = "skipped" /\ place.pc # end_address => Len(tried.trace) = Len(place.trace)
=============================================================================
