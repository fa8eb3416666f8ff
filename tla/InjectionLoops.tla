---------------------------- MODULE InjectionLoops ----------------------------
(***************************************************************************)
(* One thread of the fault simulator injecting a list of fault models:     *)
(* FaultSimulator::simulate_fault and the four functions it dispatches to, *)
(* which call each other recursively, one level per model of the list.     *)
(* All levels share the emulator of the thread; each has a Snapshot of its *)
(* own, and all rely on the others to leave the flash and the hooks as     *)
(* they found them.                                                        *)
(*                                                                         *)
(* Which faults exist, which are redundant and what the program does after *)
(* a fault is left open: a choice of the action.  The order of backups,    *)
(* restores, flash writes, hooks and early exits is that of the code.      *)
(* A finished emulate() is the step out of one of the labels in Running.   *)
(***************************************************************************)
EXTENDS Snapshot

CONSTANTS Levels,      \* number of models, m_fault_models.size()
          Code,        \* the flash addresses a fault may be written to
          None,        \* no fault address
          Original     \* flash content nobody manipulated

Level == 0 .. Levels - 1

ASSUME LevelsAssumption ==
  /\ Levels \in Nat \ {0} /\ None \notin Code /\ Original \notin Level
  /\ Snap = Level

VARIABLES kind,      \* m_fault_models[level]: what it faults and for how long
          depth,     \* fault_model_index of the innermost call
          pc,        \* where each call is
          fault,     \* level -> fault.address
          original,  \* level -> fault.original_instruction
          flash,     \* flash address -> Original or the level that overwrote it
          hooks      \* levels whose register fault has a hook in the emulator

saved    == vars  \* of Snapshot
control  == <<kind, depth, pc, fault, original, flash, hooks>>
loopVars == <<saved, control>>

Kind == [target : {"instruction", "register"},
         type   : {"permanent", "transient", "until_overwrite"}]

Instr(l)     == kind[l].target = "instruction"
Permanent(l) == kind[l].type = "permanent"
Last(l)      == l = Levels - 1

Running == {"collect", "replay", "step", "rest", "again_step"}

(* compute_model_combinations lists permanent models before the others;     *)
(* UNTIL_OVERWRITE exists for registers only.                               *)
LoopsInit ==
  /\ Init
  /\ kind \in [Level -> Kind]
  /\ \A l \in Level : Instr(l) => kind[l].type # "until_overwrite"
  /\ \A l \in Level : \A m \in Level : (l < m /\ Permanent(m)) => Permanent(l)
  /\ depth = 0
  /\ pc = [l \in Level |-> IF l = 0 THEN "reset" ELSE "idle"]
  /\ fault = [l \in Level |-> None]
  /\ original = [l \in Level |-> None]
  /\ flash = [a \in Code |-> Original]
  /\ hooks = {}

-----------------------------------------------------------------------------
At(l, label) == depth = l /\ pc[l] = label

Go(l, label) == pc' = [pc EXCEPT ![l] = label] /\ UNCHANGED <<kind, depth>>

Call(l) ==
  /\ pc' = [pc EXCEPT ![l] = "called", ![l + 1] = "reset"]
  /\ depth' = l + 1
  /\ UNCHANGED kind

Return(l) ==
  /\ IF l = 0
     THEN pc' = [pc EXCEPT ![0] = "done"] /\ depth' = 0
     ELSE pc' = [pc EXCEPT ![l] = "idle", ![l - 1] = "revert"] /\ depth' = l - 1
  /\ fault' = [fault EXCEPT ![l] = None]
  /\ original' = [original EXCEPT ![l] = None]
  /\ UNCHANGED <<kind, flash, hooks>>

Locals == <<fault, original, flash, hooks>>

(* Mutant: the call starts with backup(). *)
ResetForgotten(l) ==
  /\ At(l, "reset")
  /\ Go(l, "first_backup")
  /\ UNCHANGED <<saved, Locals>>

(* snapshots[fault_model_index]->reset() and ->backup() on entry. *)
FirstReset(l) ==
  /\ At(l, "reset")
  /\ Reset(l)
  /\ Go(l, "first_backup")
  /\ UNCHANGED Locals

FirstBackup(l) ==
  /\ At(l, "first_backup")
  /\ Backup(l)
  /\ Go(l, IF Permanent(l) THEN "claim" ELSE "collect")
  /\ UNCHANGED Locals

(* The program makes a step inside emulate(). *)
Emulate(l) ==
  /\ depth = l /\ pc[l] \in Running
  /\ Execute
  /\ UNCHANGED control

(* get_instruction_order, or the run that collects the registers read. *)
Collected(l) ==
  /\ At(l, "collect")
  /\ Go(l, "claim")
  /\ UNCHANGED <<saved, Locals>>

(* The next index, or the end of the range. *)
Claim(l) ==
  /\ At(l, "claim")
  /\ \/ Return(l)
     \/ /\ Go(l, IF Permanent(l) THEN "select" ELSE "replay_restore")
        /\ UNCHANGED Locals
  /\ UNCHANGED saved

ReplayRestore(l) ==
  /\ At(l, "replay_restore")
  /\ Restore(l)
  /\ Go(l, "replay")
  /\ UNCHANGED Locals

(* The place of the fault is reached; an instruction replay that runs into  *)
(* the timeout ends the call.                                               *)
Replayed(l) ==
  /\ At(l, "replay")
  /\ \/ Go(l, "save") /\ UNCHANGED Locals
     \/ Instr(l) /\ Return(l)
  /\ UNCHANGED saved

(* backup() of the new position, unless no cycles remain. *)
Save(l) ==
  /\ At(l, "save")
  /\ \/ Backup(l) /\ Go(l, "select") /\ UNCHANGED Locals
     \/ Return(l) /\ UNCHANGED saved

-----------------------------------------------------------------------------
(* Addresses of the faults of the outer levels that make the code skip one. *)
Processed(l) ==
  {fault[k] : k \in {k \in 0 .. l - 1 : Instr(k) /\ (Permanent(l) \/ Permanent(k))}}

SelectInstruction(l) ==
  /\ At(l, "select") /\ Instr(l)
  /\ \E a \in Code :
       IF a \in Processed(l)
       THEN Go(l, "claim") /\ UNCHANGED Locals
       ELSE /\ fault' = [fault EXCEPT ![l] = a]
            /\ original' = [original EXCEPT ![l] = flash[a]]
            /\ Go(l, "iterate")
            /\ UNCHANGED <<flash, hooks>>
  /\ UNCHANGED saved

(* A register: the state is restored to read its original value; or none is *)
(* left, or a permanent fault of the chain already holds it.                *)
SelectRegister(l) ==
  /\ At(l, "select") /\ ~Instr(l)
  /\ \/ Restore(l) /\ Go(l, "iterate")
     \/ Go(l, "claim") /\ UNCHANGED saved
  /\ UNCHANGED Locals

(* A new fault that is neither ineffective nor redundant, or none left. *)
Iterate(l) ==
  /\ At(l, "iterate")
  /\ \/ Go(l, "inject_restore")
     \/ Go(l, IF Instr(l) \/ Permanent(l) THEN "claim" ELSE "select")
  /\ UNCHANGED <<saved, Locals>>

(* Mutant: the next fault is injected where the previous run ended. *)
InjectWithoutRestore(l) ==
  /\ At(l, "inject_restore")
  /\ Go(l, "inject")
  /\ UNCHANGED <<saved, Locals>>

InjectRestore(l) ==
  /\ At(l, "inject_restore")
  /\ Restore(l)
  /\ Go(l, "inject")
  /\ UNCHANGED Locals

WriteFault(l) == flash' = [flash EXCEPT ![fault[l]] = l]
Unwrite(l)    == flash' = [flash EXCEPT ![fault[l]] = original[l]]

InjectInstruction(l) ==
  /\ At(l, "inject") /\ Instr(l)
  /\ WriteFault(l)
  /\ CASE ~Permanent(l)           -> Go(l, "step")
       [] Permanent(l) /\ Last(l) -> Go(l, "rest")
       [] OTHER                   -> Call(l)
  /\ UNCHANGED <<saved, fault, original, hooks>>

(* write_register, then the hook that reverts or renews the fault. *)
InjectRegister(l) ==
  /\ At(l, "inject") /\ ~Instr(l)
  /\ \E c \in CPU : Compute(c)
  /\ hooks' = IF kind[l].type = "until_overwrite" THEN hooks ELSE hooks \union {l}
  /\ IF Permanent(l) /\ ~Last(l) THEN Call(l) ELSE Go(l, "rest")
  /\ UNCHANGED <<fault, original, flash>>

(* The register took no other value: continue with the next iteration. *)
IneffectiveRegister(l) ==
  /\ At(l, "inject") /\ ~Instr(l) /\ ~Permanent(l)
  /\ Go(l, "iterate")
  /\ UNCHANGED <<saved, Locals>>

(* Mutant: a failed step goes on before the flash is repaired. *)
SteppedUnrepaired(l) ==
  /\ At(l, "step")
  /\ \/ Unwrite(l) /\ Go(l, "rest")
     \/ UNCHANGED flash /\ Go(l, "iterate")
  /\ UNCHANGED <<saved, fault, original, hooks>>

(* emulate(1) of the faulted instruction: reverted whether it worked or not *)
(* because it is transient; an error moves on to the next iteration.        *)
Stepped(l) ==
  /\ At(l, "step")
  /\ Unwrite(l)
  /\ Go(l, "rest") \/ Go(l, "iterate")
  /\ UNCHANGED <<saved, fault, original, hooks>>

(* The faulted run ended: exploitable, or try a further fault on top of it. *)
Rested(l) ==
  /\ At(l, "rest")
  /\ \/ Go(l, "revert")
     \/ ~Permanent(l) /\ ~Last(l) /\ Go(l, "again_restore")
  /\ UNCHANGED <<saved, Locals>>

AgainRestore(l) ==
  /\ At(l, "again_restore")
  /\ Restore(l)
  /\ Go(l, "again")
  /\ UNCHANGED Locals

AgainInstruction(l) ==
  /\ At(l, "again") /\ Instr(l)
  /\ WriteFault(l)
  /\ Go(l, "again_step")
  /\ UNCHANGED <<saved, fault, original, hooks>>

AgainRegister(l) ==
  /\ At(l, "again") /\ ~Instr(l)
  /\ \E c \in CPU : Compute(c)
  /\ Call(l)
  /\ UNCHANGED Locals

AgainStepped(l) ==
  /\ At(l, "again_step")
  /\ Unwrite(l)
  /\ Call(l) \/ Go(l, "iterate")
  /\ UNCHANGED <<saved, fault, original, hooks>>

(* Mutant: the hook of the register fault stays. *)
RevertFlashOnly(l) ==
  /\ At(l, "revert")
  /\ IF Instr(l) THEN Unwrite(l) ELSE UNCHANGED flash
  /\ Go(l, "iterate")
  /\ UNCHANGED <<saved, fault, original, hooks>>

(* Back from the inner level, or no inner level was needed. *)
Revert(l) ==
  /\ At(l, "revert")
  /\ IF Instr(l) THEN Unwrite(l) ELSE UNCHANGED flash
  /\ hooks' = hooks \ {l}
  /\ Go(l, "iterate")
  /\ UNCHANGED <<saved, fault, original>>

Done == pc[0] = "done" /\ UNCHANGED loopVars

LoopsNext ==
  \/ \E l \in Level :
       \/ FirstReset(l) \/ FirstBackup(l) \/ Emulate(l) \/ Collected(l) \/ Claim(l)
       \/ ReplayRestore(l) \/ Replayed(l) \/ Save(l)
       \/ SelectInstruction(l) \/ SelectRegister(l) \/ Iterate(l)
       \/ InjectRestore(l) \/ InjectInstruction(l) \/ InjectRegister(l)
       \/ IneffectiveRegister(l) \/ Stepped(l) \/ Rested(l)
       \/ AgainRestore(l) \/ AgainInstruction(l) \/ AgainRegister(l)
       \/ AgainStepped(l) \/ Revert(l)
  \/ Done

LoopsSpec == LoopsInit /\ [][LoopsNext]_loopVars

-----------------------------------------------------------------------------
(* Every call of the recursion obeys the contract of the snapshots: a level *)
(* overtaken by the restore of an outer one is reset before it is used.     *)
ObeysSnapshotContract == Spec

(* All faults of one index, at every level, are injected into the same      *)
(* state: the one the level saved, including after inner levels have run.   *)
InjectedIntoSavedState ==
  pc[depth] \in {"inject", "again"}
    => depth \in valid /\ ram = data[depth] /\ cpu = state[depth]

(* The faults the innermost run is meant to see: the permanent ones of the  *)
(* outer levels, and its own while it is injected.                          *)
InForce(l) == IF l = depth
              THEN pc[l] \in {"step", "again_step"} \/ (Permanent(l) /\ pc[l] \in {"rest", "revert"})
              ELSE pc[l] = "called" /\ Permanent(l)

(* The flash differs from the original program in exactly those faults:     *)
(* no error path, early return or failed step leaves one behind.            *)
FlashHoldsFaultsInForce ==
  \A a \in Code : \A l \in Level :
    flash[a] = l <=> l <= depth /\ Instr(l) /\ InForce(l) /\ fault[l] = a

(* Only register faults of the chain under test have a hook in the emulator *)
(* while it runs: a left-over hook would revert or renew a fault of a run   *)
(* it does not belong to.                                                   *)
HooksOfChain ==
  \A l \in hooks : /\ ~Instr(l) /\ l <= depth
                   /\ pc[l] \in {"rest", "again_restore", "again", "called", "revert"}
=============================================================================
