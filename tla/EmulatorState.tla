---------------------------- MODULE EmulatorState ----------------------------
(***************************************************************************)
(* The state of an emulator and the accesses that instructions are made    *)
(* of: registers, the program status register, memory, the IT block.       *)
(*                                                                         *)
(* The state is a record: arch, reg (registers), xpsr (the bits that are   *)
(* set in the register PSR), psr (the decoded copy of it that instructions *)
(* use), flash and ram (address -> byte), exclusive, special (PRIMASK,     *)
(* FAULTMASK, BASEPRI, CONTROL), code (m_return_code), updated             *)
(* (m_psr_updated) and branched (~increment_pc).  An access fails by       *)
(* setting code, and does nothing when code is not "OK".                   *)
(***************************************************************************)
EXTENDS Thumb, ArmFunctions

CONSTANTS RamOffset, RamSize

ASSUME RamAssumption == RamOffset \in Nat /\ RamSize \in Nat

Ram == RamOffset .. RamOffset + RamSize - 1

RegisterFile == 0..15

\* The bits of PSR that write_register keeps.
PsrBits(arch) == IF arch = "ARMv6M" THEN 28..31 ELSE (25..31) \union (10..15)

\* psr as the fields of a value of PSR; a flag is 0 or 1.
Fields(bits) ==
  LET flag(i) == IF i \in bits THEN 1 ELSE 0
  IN  [N |-> flag(31), Z |-> flag(30), C |-> flag(29), V |-> flag(28), Q |-> flag(27),
       it |-> flag(10) + 2 * flag(11) + 4 * flag(12) + 8 * flag(13) + 16 * flag(14)
                + 32 * flag(15) + 64 * flag(25) + 128 * flag(26)]

\* The value that clock_cpu puts together from psr.
PsrValue(psr) ==
  LET flag(f, i) == IF psr[f] = 1 THEN {i} ELSE {}
      it(i) == Bit(psr.it, i) = 1
  IN  flag("N", 31) \union flag("Z", 30) \union flag("C", 29) \union flag("V", 28)
        \union flag("Q", 27) \union {i + 10 : i \in {j \in 0..5 : it(j)}}
        \union {i + 19 : i \in {j \in 6..7 : it(j)}}

Fail(m, code) == [m EXCEPT !.code = code]

ReadRegister(m, r) ==
  IF m.code # "OK" THEN 0 ELSE IF r = PC THEN Wrap(m.reg[PC] + 4) ELSE m.reg[r]

\* A register shifted as an instruction says; CHECK_SHIFT tests whether it can be.
ShiftedOperand(m, i) == Shift_C(ReadRegister(m, i.Rm), i.shift, i.amount, m.psr.C)

\* write_register_internal, which takes a word.
WriteRegister(m, r, value) ==
  CASE m.code # "OK" -> m
    [] m.code = "OK" /\ r \notin RegisterFile -> Fail(m, "INVALID_REGISTER")
    [] OTHER -> [m EXCEPT !.reg[r] = IF r = SP THEN Align(Wrap(value), 4) ELSE Wrap(value)]

\* write_register(PSR, ...), which keeps register and copy together.
SetPSR(m, bits) ==
  [m EXCEPT !.xpsr = bits \cap PsrBits(m.arch), !.psr = Fields(bits \cap PsrBits(m.arch))]

WritePSR(m, bits) == IF m.code = "OK" THEN SetPSR(m, bits) ELSE m

InFlash(m, address, bytes) == {address, address + bytes - 1} \subseteq DOMAIN m.flash

InRam(address, bytes) == RamOffset <= address /\ address + bytes <= RamOffset + RamSize

\* read_memory_internal: the value, and the state with the error if there is one.
ReadMemory(m, address, bytes) ==
  LET at(k) == IF InRam(address, bytes) THEN m.ram[address + k]
               ELSE m.flash[address + k] % 2^ByteWidth
  IN  CASE m.code # "OK" -> [m |-> m, value |-> 0]
        [] m.code = "OK" /\ (InRam(address, bytes) \/ InFlash(m, address, bytes)) ->
             [m |-> m, value |-> MapThenSumSet(LAMBDA k : at(k) * 2^(ByteWidth * k), 0 .. bytes - 1)]
        [] OTHER -> [m |-> Fail(m, "INVALID_MEMORY_ACCESS"), value |-> 0]

WriteMemory(m, address, value, bytes) ==
  CASE m.code # "OK" -> m
    [] m.code = "OK" /\ InRam(address, bytes) ->
         [m EXCEPT !.ram = [a \in Ram |-> IF a \in address .. address + bytes - 1
                                          THEN ByteOf(value, a - address) ELSE @[a]]]
    [] OTHER -> Fail(m, "INVALID_MEMORY_ACCESS")

\* in_IT_block() and last_in_IT_block().
InITBlock(m) == m.arch # "ARMv6M" /\ m.psr.it % 16 # 0

LastInITBlock(m) == m.arch # "ARMv6M" /\ m.psr.it % 16 = 8

(* Mutant: UPDATE_PSR is forgotten. *)
PopITQuietly(m) ==
  [m EXCEPT !.psr.it = IF @ % 8 = 0 THEN 0 ELSE 32 * (@ \div 32) + ((2 * @) % 32)]

(* Mutant: the mask moves up and does not reach the condition. *)
PopITMaskOnly(m) ==
  [m EXCEPT !.psr.it = IF @ % 8 = 0 THEN 0 ELSE 16 * (@ \div 16) + ((2 * @) % 16),
            !.updated = TRUE]

\* pop_IT_condition: the block is over, or its mask moves up, pulling the last
\* bit of the next condition with it.
PopITCondition(m) ==
  [m EXCEPT !.psr.it = IF @ % 8 = 0 THEN 0 ELSE 32 * (@ \div 32) + ((2 * @) % 32),
            !.updated = TRUE]

ConditionHolds(condition, psr) ==
  LET base == <<psr.Z = 1, psr.C = 1, psr.N = 1, psr.V = 1, psr.C = 1 /\ psr.Z = 0, psr.N = psr.V,
                psr.N = psr.V /\ psr.Z = 0, TRUE>>[condition \div 2 + 1]
  IN  base # (condition % 2 = 1)

\* evaluate_condition
EvaluateCondition(m, i) ==
  LET condition == IF InITBlock(m) THEN m.psr.it \div 16 ELSE i.condition
      popped == IF InITBlock(m) THEN PopITCondition(m) ELSE m
  IN  IF condition = 15 THEN [m |-> Fail(popped, "UNSUPPORTED"), holds |-> FALSE]
      ELSE [m |-> popped, holds |-> ConditionHolds(condition, m.psr)]

\* branch_write_PC where the code also skips the increment.
BranchWritePC(m, address) ==
  [WriteRegister(m, PC, Align(address, 2)) EXCEPT !.branched = TRUE]

\* bx_write_PC; to leave Thumb state is an error, whatever code was before.
BxWritePC(m, address) ==
  IF address % 2 = 0 THEN Fail(m, "HARD_FAULT") ELSE BranchWritePC(m, address)

\* ADVANCE_PC
Advance(m, size) ==
  IF m.code = "OK" /\ ~m.branched THEN WriteRegister(m, PC, m.reg[PC] + size) ELSE m

\* Flags that an instruction assigns to psr: f has some of the fields.
SetFlags(m, f) == [m EXCEPT !.psr = Updated(@, f), !.updated = TRUE]

NZ(result) == [N |-> Bit(result, Width - 1), Z |-> IF result = 0 THEN 1 ELSE 0]

NZC(result, carry) ==
  [N |-> Bit(result, Width - 1), Z |-> IF result = 0 THEN 1 ELSE 0, C |-> carry]
=============================================================================
