------------------------------ MODULE Processor ------------------------------
(***************************************************************************)
(* Emulator::emulate on short programs: fetch, decode and execute, with    *)
(* one fault of the built-in models on the way.  A scenario is a program,  *)
(* the registers it may start with, and what may be faulted.  The program  *)
(* is all there is in flash, from address 0.                               *)
(***************************************************************************)
EXTENDS Decoder, Execution, FaultModels, Sequences

CONSTANTS
  Scenarios,        \* records [program, archs, inputs, instructions, registers]
  MaxInstructions   \* bound on the instructions of a run

ASSUME ProgramsAssumption ==
  \A s \in Scenarios : s.program \in Seq(0 .. 2^16 - 1)

ASSUME InputsAssumption ==
  \A s \in Scenarios : s.inputs \subseteq [RegisterFile -> 0 .. 2^Width - 1]

VARIABLES
  emu,      \* the emulator
  time,     \* m_emulated_time, over the calls of emulate
  target,   \* what may still be faulted: [instructions, registers]
  pending,  \* the fault that is in place for the next instruction
  past      \* auxiliary: what was decoded and executed, with the registers before

vars == <<emu, time, target, pending, past>>

\* Register PSR follows the core registers.
PSR == 16

\* The end address of emulate(max_instructions).
NoEndAddress == 1

NoFault == [kind |-> "none"]

Bytes(program) ==
  [a \in 0 .. 2 * Len(program) - 1 |->
     IF a % 2 = 0 THEN program[a \div 2 + 1] % 256 ELSE program[a \div 2 + 1] \div 256]

Started(arch, program, registers) ==
  [arch |-> arch, reg |-> registers, xpsr |-> {}, psr |-> Fields({}), flash |-> Bytes(program),
   ram |-> [a \in Ram |-> a % 2^ByteWidth], exclusive |-> 0,
   special |-> [PRIMASK |-> 0, FAULTMASK |-> 0, BASEPRI |-> 0, CONTROL |-> 0],
   code |-> "OK", updated |-> FALSE, branched |-> FALSE]

Init ==
  \E s \in Scenarios : \E arch \in s.archs, registers \in s.inputs :
    /\ emu = Started(arch, s.program, registers)
    /\ time = 0
    /\ target = [instructions |-> s.instructions, registers |-> s.registers]
    /\ pending = NoFault
    /\ past = <<>>

HalfwordAt(m, address) == m.flash[address] + 256 * m.flash[address + 1]

SizeAt(m, address) == InstructionSize(HalfwordAt(m, address))

\* validate_address; RAM is not executable.
ValidateAddress(m, address) ==
  IF ~InFlash(m, address, 2) THEN "INVALID_MEMORY_ACCESS"
  ELSE IF ~InFlash(m, address, SizeAt(m, address)) THEN "INCOMPLETE_DATA" ELSE "OK"

Position(m) ==
  IF ~InITBlock(m) THEN "outside" ELSE IF LastInITBlock(m) THEN "last" ELSE "inside"

Fetched(m) ==
  LET pc == m.reg[PC]
  IN  [arch |-> m.arch, it |-> Position(m), H |-> HalfwordAt(m, pc),
       L |-> IF SizeAt(m, pc) = 4 THEN HalfwordAt(m, pc + 2) ELSE 0]

\* Flags and IT state reach register PSR after the instruction.
Committed(m) ==
  [IF m.updated THEN WritePSR(m, PsrValue(m.psr)) ELSE m EXCEPT !.updated = FALSE, !.branched = FALSE]

\* clock_cpu: the emulator afterwards, and the instruction if one was executed.
ClockCPU(m) ==
  LET code == ValidateAddress(m, m.reg[PC])
      i == Decode(Fetched(m))
  IN  CASE code # "OK" -> [m |-> Fail(m, code), i |-> Refuse(code)]
        [] code = "OK" /\ ~IsOK(i) -> [m |-> Fail(m, i.code), i |-> i]
        [] OTHER -> [m |-> Committed(Execute(m, i, SizeAt(m, m.reg[PC]))), i |-> i]

\* write_register, which takes a word, too.  The fault simulation calls it, but not for
\* SP and PC.
SetRegister(m, r, bits) ==
  IF r = PSR THEN SetPSR(m, bits) ELSE [m EXCEPT !.reg[r] = Wrap(Number(bits))]

RegisterBits(m, r) == IF r = PSR THEN m.xpsr ELSE Ones(m.reg[r])

BitsOfRegister(r) == IF r = PSR THEN 32 ELSE Width

\* A call of emulate starts at an even address.
Resumed(m) == [m EXCEPT !.reg[PC] = Align(@, 2)]

\* After the instruction: an instruction fault is removed between two calls of
\* emulate, a transient register fault by the hook that follows an execution.
PutBack(clocked) ==
  CASE pending.kind = "instruction" ->
         Resumed([clocked.m EXCEPT !.flash = Updated(@, pending.original)])
    [] pending.kind = "transient" /\ IsOK(clocked.i) ->
         SetRegister(clocked.m, pending.register, pending.original)
    [] OTHER -> clocked.m

\* The loop of emulate goes on.
Running == emu.code = "OK" /\ time < MaxInstructions /\ emu.reg[PC] # NoEndAddress

\* An instruction whose execution fails counts too.
Clock ==
  /\ Running
  /\ LET clocked == ClockCPU(emu)
         entry == [i |-> clocked.i, reg |-> emu.reg, inIT |-> InITBlock(emu),
                   code |-> clocked.m.code, fault |-> pending]
     IN  /\ emu' = PutBack(clocked)
         /\ time' = IF IsOK(clocked.i) THEN time + 1 ELSE time
         /\ past' = IF IsOK(clocked.i) THEN Append(past, entry) ELSE past
  /\ pending' = NoFault
  /\ UNCHANGED target

Stop ==
  /\ emu.code = "OK" /\ ~Running
  /\ emu' = Fail(emu, IF time >= MaxInstructions THEN "MAX_INSTRUCTIONS_REACHED"
                                                 ELSE "END_ADDRESS_REACHED")
  /\ UNCHANGED <<time, target, pending, past>>

NothingLeft == [instructions |-> FALSE, registers |-> {}]

\* simulate_instruction_fault writes over an instruction that was decoded in a
\* run without the fault.
FaultInstruction(model, iteration) ==
  LET pc == emu.reg[PC]
      size == SizeAt(emu, pc)
      original == [k \in 0 .. size - 1 |-> emu.flash[pc + k]]
      written == ManipulatedInstruction(model, iteration, original)
      placed(bytes) == [a \in pc .. pc + size - 1 |-> bytes[a - pc]]
  IN  /\ Running /\ target.instructions
      /\ ValidateAddress(emu, pc) = "OK"
      /\ iteration \in InstructionIterations(model, size)
      /\ written # original
      /\ IsOK(Decode(Fetched(emu)))
      /\ emu' = Resumed([emu EXCEPT !.flash = Updated(@, placed(written))])
      /\ pending' = [kind |-> "instruction", model |-> model, original |-> placed(original)]
      /\ target' = NothingLeft
      /\ UNCHANGED <<time, past>>

\* simulate_register_fault writes to a register that the next instruction reads;
\* a scenario names such registers.  Every instruction reads PSR.
FaultRegister(r, type, model, iteration) ==
  LET original == RegisterBits(emu, r)
      written == SetRegister(emu, r, ManipulatedBits(model, iteration, original, BitsOfRegister(r)))
  IN  /\ Running /\ Faultable(r)
      /\ iteration \in RegisterIterations(model, BitsOfRegister(r))
      /\ RegisterBits(written, r) # original
      /\ emu' = Resumed(written)
      /\ pending' = [kind |-> type, register |-> r, original |-> original]
      /\ target' = NothingLeft
      /\ UNCHANGED <<time, past>>

Next ==
  \/ Clock
  \/ Stop
  \/ \E model \in InstructionModel, iteration \in 0..31 : FaultInstruction(model, iteration)
  \/ \E r \in target.registers, type \in {"transient", "until_overwrite"},
        model \in RegisterModel, iteration \in 0..31 : FaultRegister(r, type, model, iteration)

Spec == Init /\ [][Next]_vars

-----------------------------------------------------------------------------

RegisterFaultAt(k, r) ==
  past[k].fault.kind \in {"transient", "until_overwrite"} /\ past[k].fault.register = r

\* j is an instruction, and i but for one member.
SameBut(i, j, member) == IsOK(j) /\ [i EXCEPT ![member] = 0] = [j EXCEPT ![member] = 0]

\* decoded[arch][it] is what a decoder for arch makes of a word in that place of
\* an IT block.  Whatever a core decodes, the next larger one decodes to the same
\* instruction, but for the mask of MSR, which ARMv6-M does not have.
CoresAlike(decoded) ==
  \A it \in ItPosition :
    /\ IsOK(decoded["ARMv6M"][it]) =>
         SameBut(decoded["ARMv6M"][it], decoded["ARMv7M"][it],
                 IF decoded["ARMv6M"][it].name = "MSR" THEN "imm" ELSE "code")
    /\ IsOK(decoded["ARMv7M"][it]) => decoded["ARMv7EM"][it] = decoded["ARMv7M"][it]

\* Where an instruction is accepted both inside and outside an IT block, at most
\* the flags that it sets differ; the last one of a block decodes as the others do.
PlacesAlike(decoded) ==
  \A arch \in Arch :
    /\ IsOK(decoded[arch]["inside"]) => decoded[arch]["last"] = decoded[arch]["inside"]
    /\ IsOK(decoded[arch]["last"]) /\ IsOK(decoded[arch]["outside"]) =>
         SameBut(decoded[arch]["last"], decoded[arch]["outside"], "S")

\* What an instruction word means does not depend on the core that is chosen, nor
\* on the IT block that it is in.
DecodedAlike ==
  emu.code = "OK" /\ ValidateAddress(emu, emu.reg[PC]) = "OK" =>
    LET decoded == [arch \in Arch |-> [it \in ItPosition |->
                     Decode([Fetched(emu) EXCEPT !.arch = arch, !.it = it])]]
    IN  CoresAlike(decoded) /\ PlacesAlike(decoded)

\* The decoder hands execute nothing that it cannot carry out: no register that
\* does not exist and no shift that is refused, and the only mnemonics without a
\* case are those of NotExecuted.  An immediate is refused only where it is
\* expanded by the execution, and condition 15 comes only from a fault in PSR.
Executable ==
  \A k \in DOMAIN past :
    LET e == past[k]
    IN  /\ e.code \notin {"INVALID_REGISTER", "INVALID_SHIFT_ARGUMENT"}
        /\ e.code = "INVALID_IMMEDIATE" => e.i.name \in LogicalName \union {"MOV"}
        /\ e.code = "UNSUPPORTED" =>
             e.i.name \in NotExecuted \/ \E j \in 1 .. k : RegisterFaultAt(j, PSR)

\* The decoded flags and IT state that instructions work on, and register PSR,
\* which snapshots, hooks and register faults work on, agree between two
\* instructions, whoever wrote last.
PsrMirrored ==
  emu.code = "OK" => emu.psr = Fields(emu.xpsr) /\ emu.xpsr \subseteq PsrBits(emu.arch)

\* The conditions of a block, from the four bits of its first one and the mask:
\* the lowest 1 of the mask ends it, and each bit above is the last bit of a
\* condition.
BlockConditions(it) ==
  [k \in 1 .. 4 - LowestOf(BitsOf(it % 16)) |->
     2 * (it \div 32) + IF k = 1 THEN Bit(it, 4) ELSE Bit(it, 5 - k)]

Opened == {k \in DOMAIN past : past[k].i.name = "IT"}

PsrFaulted == pending.kind # "none" \/ \E k \in DOMAIN past : RegisterFaultAt(k, PSR)

\* What was executed after the last IT.
InBlock == {k \in DOMAIN past : Opened # {} /\ k > Max(Opened)}

\* The conditions that are still to come in the block of the last IT.  execute
\* leaves the block where it is at a hint, also one that a skip has written.
ToCome ==
  IF Opened = {} THEN <<>>
  ELSE LET conditions == BlockConditions(past[Max(Opened)].i.imm)
           decided == Cardinality({k \in InBlock : past[k].i.name \notin HintName})
       IN  SubSeq(conditions, decided + 1, Len(conditions))

\* An IT instruction decides about as many instructions as its mask says, each
\* under the condition that it has there, however the IT state got from one to
\* the next: through psr, register PSR and faults in the instructions.  Hints do
\* not count.  Faults in PSR and MSR are left out, which write an older IT state.
BlockAsEncoded ==
  emu.code = "OK" /\ ~PsrFaulted /\ (\A k \in InBlock : past[k].i.name # "MSR") =>
    /\ InITBlock(emu) <=> ToCome # <<>>
    /\ LastInITBlock(emu) <=> Len(ToCome) = 1
    /\ ToCome # <<>> => emu.psr.it \div 16 = Head(ToCome)

\* What a comparison of x and y in words of so many bits says to each condition.
Compared(x, y, bits) ==
  LET signed(z) == IF z < 2^(bits - 1) THEN z ELSE z - 2^bits
      difference == signed(x) - signed(y)
      low == (x - y) % 2^bits
  IN  <<x = y, x # y, x >= y, x < y, low >= 2^(bits - 1), low < 2^(bits - 1),
        difference # signed(low), difference = signed(low), x > y, x <= y,
        difference >= 0, difference < 0, difference > 0, difference <= 0>>

IsComparison(k, names) ==
  /\ k \in DOMAIN past
  /\ past[k].i.name \in names /\ OnlyRegisters(past[k].i) /\ past[k].i.amount = 0
  /\ past[k].i.S \/ past[k].i.name = "CMP"
  /\ past[k].fault.kind \in {"none", "instruction"} /\ ~past[k].inIT

\* A conditional branch after CMP goes to its target when the relation that its
\* condition names holds between the compared registers, and to the instruction
\* after it when not; after CMP of the lower and SBCS of the upper words, the
\* orders hold between double words.
ComparisonsDecide ==
  LET n == Len(past)
      branch == past[n]
      pc == branch.reg[PC]
      first == past[n - 1].i
      pair == past[n - 2].i
      registers == past[n - 2].reg
      single == IsComparison(n - 1, {"CMP"})
      double == IsComparison(n - 2, {"CMP"}) /\ IsComparison(n - 1, {"SBC"})
      word(high, low) == registers[high] * 2^Width + registers[low]
      decided(relations) ==
        emu.reg[PC] = IF relations[branch.i.condition + 1]
                      THEN Align(Wrap(pc + 4 + branch.i.imm), 2) ELSE Wrap(pc + SizeAt(emu, pc))
  IN  n >= 2 /\ emu.code = "OK" /\ pending = NoFault /\ branch.i.name = "B"
        /\ branch.i.condition < 14 /\ branch.fault = NoFault /\ ~branch.inIT =>
        /\ single => decided(Compared(past[n - 1].reg[first.Rn], past[n - 1].reg[first.Rm], Width))
        /\ double /\ branch.i.condition \in {2, 3, 10, 11} =>
             decided(Compared(word(first.Rn, pair.Rn), word(first.Rm, pair.Rm), 2 * Width))

\* Stores of a list and the loads that take it back.
StoreAndLoad == {<<"PUSH", "POP">>, <<"STMDB", "LDM">>, <<"STM", "LDMDB">>}

\* The registers of a list of which LR is stored and PC loaded.
Returning(list) == IF PC \in list THEN (list \ {PC}) \union {LR} ELSE list

\* A list that is stored and loaded with nothing but moves in between comes back
\* as it was, register by register and LR into PC, and PUSH and POP or STMDB and
\* LDM leave the base where it was.  LDM with PC does not, and is left out.
StackInverse ==
  LET n == Len(past)
      last == past[n]
      loaded == BitsOf(last.i.imm)
      base(i) == IF i.name \in {"PUSH", "POP"} THEN SP ELSE i.Rn
      quiet(k) == /\ past[k].fault.kind \in {"none", "instruction"} /\ ~past[k].inIT
                  /\ past[k].code = "OK"
      pairs(j) == /\ <<past[j].i.name, last.i.name>> \in StoreAndLoad
                  /\ base(past[j].i) = base(last.i) /\ base(last.i) \notin loaded
                  /\ BitsOf(past[j].i.imm) = Returning(loaded)
                  /\ past[j].i.wback = last.i.wback /\ (last.i.wback \/ last.i.name = "POP")
                  /\ \A k \in j .. n : quiet(k)
                  /\ \A k \in j + 1 .. n - 1 : past[k].i.name = "MOV" /\ past[k].i.Rd # base(last.i)
  IN  n >= 2 /\ emu.code = "OK" /\ pending = NoFault =>
        \A j \in 1 .. n - 1 : pairs(j) =>
          /\ \A r \in loaded \ {PC} : emu.reg[r] = past[j].reg[r]
          /\ PC \in loaded => emu.reg[PC] = Align(past[j].reg[LR], 2)
          /\ last.i.name = "POP" \/ (last.i.name = "LDM" /\ PC \notin loaded) =>
               emu.reg[base(last.i)] = past[j].reg[base(last.i)]
=============================================================================
