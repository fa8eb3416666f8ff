---------------------------- MODULE FaultedProgram ----------------------------
(***************************************************************************)
(* Runs of a small program under faults, on the emulators of the fault     *)
(* simulator and of the fault tracer.  The two differ in the hooks they    *)
(* install: the simulator has manipulated its emulator before the run and  *)
(* reverts register faults after their instruction; the tracer does both   *)
(* in hooks before a fetch, found by time.  Both renew permanent register  *)
(* faults after a write, but inside an ignored memory range only the       *)
(* tracer does.  Both detect the end before a fetch.                       *)
(*                                                                         *)
(* The program works on one register and one byte of memory.  A machine is *)
(* an emulator together with what its hooks refer to: the faults and the   *)
(* state of the exploitability model.                                      *)
(***************************************************************************)
EXTENDS Integers, Sequences, SequencesExt

CONSTANTS Size  \* the flash holds instructions at 0 .. Size - 1

VARIABLES program,      \* the instructions, main_emulator's flash
          end_address,  \* the only one of m_ctx.end_addresses
          required,     \* visits of it after which the model decides
          ignored       \* the addresses in m_ctx.ignore_memory_ranges

Address == 0 .. Size - 1
Instruction == {"nop", "flip", "store", "branch"}

(* apply() of the models: a bit flip, which undoes itself if applied twice. *)
ManipulatedInstruction(i) ==
  CASE i = "nop" -> "flip" [] i = "flip" -> "nop" [] i = "store" -> "branch" [] i = "branch" -> "store"
ManipulatedValue(v) == 1 - v

InstructionFault ==
  [instruction : {TRUE}, type : {"permanent", "transient"},
   where : Address, time : Nat, original : Instruction]
RegisterFault ==
  [instruction : {FALSE}, type : {"permanent", "transient", "until_overwrite"},
   time : Nat, original : 0 .. 1]
Fault == InstructionFault \cup RegisterFault

Machine ==
  [pc : 0 .. Size, reg : 0 .. 1, mem : 0 .. 1, time : Nat, flash : [Address -> Instruction],
   faults : Seq(Fault), visits : Nat, end_reached : BOOLEAN,
   decision : {"none", "EXPLOITABLE", "NOT_EXPLOITABLE"},
   code : {"OK", "STOP_EMULATION_CALLED", "INVALID_MEMORY_ACCESS",
           "MAX_INSTRUCTIONS_REACHED", "END_ADDRESS_REACHED"},
   trace : Seq([pc : Address, instruction : Instruction, reg : 0 .. 1, time : Nat])]

(* trace is auxiliary: what was executed, and on which value.               *)
MainEmulator(faults) ==
  [pc |-> 0, reg |-> 0, mem |-> 0, time |-> 0, flash |-> program,
   faults |-> faults, visits |-> 0, end_reached |-> FALSE, decision |-> "none",
   code |-> "OK", trace |-> <<>>]

(* A clone of the exploitability model of the context replaces the present. *)
Fresh(m) == [m EXCEPT !.visits = 0, !.end_reached = FALSE]

Is(f, instruction, type) == f.instruction = instruction /\ f.type = type

-----------------------------------------------------------------------------
(* detect_end_of_execution with the model of the case studies, which counts *)
(* the visits and looks at the memory when there were enough.               *)
DetectEnd(m) ==
  IF m.pc # end_address THEN m
  ELSE IF m.visits + 1 # required THEN [m EXCEPT !.visits = @ + 1]
  ELSE [m EXCEPT !.visits = @ + 1, !.end_reached = TRUE, !.code = "STOP_EMULATION_CALLED",
                 !.decision = IF m.mem = 1 THEN "EXPLOITABLE" ELSE "NOT_EXPLOITABLE"]

(* handle_instruction_faults: the transient faults of the last instruction  *)
(* are reverted, then those of this one injected.  A chain has at most one  *)
(* fault of a time and an address.                                          *)
Repaired(m) ==
  [a \in Address |->
     LET last == {f \in Range(m.faults) : Is(f, TRUE, "transient") /\ f.time = m.time - 1 /\ f.where = a}
     IN IF last = {} THEN m.flash[a] ELSE (CHOOSE f \in last : TRUE).original]
Manipulated(m, flash) ==
  [a \in Address |->
     IF \E f \in Range(m.faults) : f.instruction /\ f.time = m.time /\ f.where = a
     THEN ManipulatedInstruction(flash[a]) ELSE flash[a]]

(* handle_register_faults *)
RepairedRegister(m) ==
  LET last == {f \in Range(m.faults) : Is(f, FALSE, "transient") /\ f.time + 1 = m.time}
  IN IF last = {} THEN m.reg ELSE (CHOOSE f \in last : TRUE).original
ManipulatedRegister(m, v) ==
  IF \E f \in Range(m.faults) : ~f.instruction /\ f.time = m.time THEN ManipulatedValue(v) ELSE v

(* The tracer learns the original value of a fault when it injects it.      *)
Learnt(m, flash, v) ==
  [k \in DOMAIN m.faults |->
     LET f == m.faults[k]
     IN IF f.time # m.time THEN f
        ELSE [f EXCEPT !.original = IF f.instruction THEN flash[f.where] ELSE v]]

(* The hooks before a fetch, in the order the tracer adds them. *)
TracerFetch(m) ==
  [DetectEnd(m) EXCEPT
     !.flash  = Manipulated(m, Repaired(m)),
     !.reg    = ManipulatedRegister(m, RepairedRegister(m)),
     !.faults = Learnt(m, Repaired(m), RepairedRegister(m))]

HasPermanent(faults) == \E k \in DOMAIN faults : Is(faults[k], FALSE, "permanent")

(* A register write of the program, and the hooks after it that renew       *)
(* permanent faults: the simulator's returns early for an instruction in    *)
(* an ignored memory range, the tracer's does not.                          *)
Written(m, v, tracing) ==
  IF HasPermanent(m.faults) /\ (tracing \/ m.pc \notin ignored) THEN ManipulatedValue(v) ELSE v

Execute(m, tracing) ==
  LET i == m.flash[m.pc]
  IN [m EXCEPT !.reg = IF i = "flip" THEN Written(m, 1 - m.reg, tracing) ELSE @,
               !.mem = IF i = "store" THEN m.reg ELSE @,
               !.pc  = IF i = "branch" /\ m.reg = 1 THEN 0 ELSE @ + 1,
               !.trace = Append(@, [pc |-> m.pc, instruction |-> i, reg |-> m.reg, time |-> m.time])]

(* Mutant: the fault is found by the time of the next instruction. *)
RevertTransientLate(m) ==
  LET now == {f \in Range(m.faults) : Is(f, FALSE, "transient") /\ f.time + 1 = m.time}
  IN IF now = {} THEN m.reg ELSE (CHOOSE f \in now : TRUE).original

(* revert_transient_fault, a hook for each such fault of the chain. *)
RevertTransient(m) ==
  LET now == {f \in Range(m.faults) : Is(f, FALSE, "transient") /\ f.time = m.time}
  IN IF now = {} THEN m.reg ELSE (CHOOSE f \in now : TRUE).original

(* clock_cpu; an address outside the flash has no instruction. *)
Clock(m, tracing) ==
  LET fetched  == IF tracing THEN TracerFetch(m) ELSE DetectEnd(m)
      executed == Execute(fetched, tracing)
  IN IF m.pc \notin Address THEN [m EXCEPT !.code = "INVALID_MEMORY_ACCESS"]
     ELSE IF fetched.code # "OK" THEN fetched
     ELSE [executed EXCEPT !.reg = IF tracing THEN @ ELSE RevertTransient(executed),
                           !.time = @ + 1]

Nowhere == -1

(* emulate(stop, cycles): the budget is tested before the address. *)
Emulate(m, stop, cycles, tracing) ==
  LET run[n \in 0 .. cycles] ==
        IF n = 0 THEN [m EXCEPT !.code = "OK"]
        ELSE LET before == run[n - 1]
             IN IF before.code # "OK" THEN before
                ELSE IF before.pc = stop THEN [before EXCEPT !.code = "END_ADDRESS_REACHED"]
                ELSE Clock(before, tracing)
      last == run[cycles]
  IN IF last.code # "OK" THEN last ELSE [last EXCEPT !.code = "MAX_INSTRUCTIONS_REACHED"]
=============================================================================
