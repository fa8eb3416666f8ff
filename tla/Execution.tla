------------------------------ MODULE Execution ------------------------------
(***************************************************************************)
(* Emulator::execute: branches, hints, IT, special registers, and the      *)
(* dispatch on the mnemonic.                                               *)
(***************************************************************************)
EXTENDS ExecutionData, ExecutionMemory

\* B, BL, BX, BLX.  BLX reads its register after it has written LR.
BranchTo(m, i) ==
  LET pc == ReadRegister(m, PC)
      linked == CASE i.name = "BL" -> WriteRegister(m, LR, Or(pc, 1))
                  [] i.name = "BLX" -> WriteRegister(m, LR, Or(Wrap(pc - 2), 1))
                  [] OTHER -> m
  IN  IF i.name \in {"B", "BL"} THEN BranchWritePC(linked, Wrap(pc + i.imm))
      ELSE BxWritePC(linked, ReadRegister(linked, i.Rm))

CompareBranch(m, i) ==
  IF (i.name = "CBZ") = (ReadRegister(m, i.Rn) = 0)
  THEN BranchWritePC(m, Wrap(ReadRegister(m, PC) + i.imm)) ELSE m

\* TBB and TBH: the increment that follows comes on top.
TableBranch(m, i) ==
  LET index == ReadRegister(m, i.Rm)
      read == IF i.name = "TBH" THEN ReadMemory(m, Wrap(ReadRegister(m, i.Rn) + 2 * index), 2)
              ELSE ReadMemory(m, Wrap(ReadRegister(m, i.Rn) + index), 1)
  IN  WriteRegister(read.m, PC, Align(Wrap(ReadRegister(read.m, PC) + 2 * read.value), 2))

HintName == {"NOP", "SEV", "DSB", "ISB", "DMB", "CSDB", "DBG", "CLREX", "SSBB", "PSSBB", "PLD", "PLI"}

\* CPS: the execution priority is 0, which allows FAULTMASK.
ChangeState(m, i) ==
  LET mask == 1 - Bit(i.imm, 4)
      disable == 1 - mask
  IN  [m EXCEPT !.special.PRIMASK = IF Bit(i.imm, 1) = 1 THEN disable ELSE @,
                !.special.FAULTMASK = IF Bit(i.imm, 0) = 1 THEN disable ELSE @]

\* The flags of PSR are its upper five bits, in a word of any width.
FlagsWord(bits) == MapThenSumSet(LAMBDA b : 2^(Width - 32 + b), bits \cap 27..31)

WordFlags(word) == {b \in 27..31 : Bit(word, Width - 32 + b) = 1}

\* MRS, by the upper five bits of the number of the special register.
MoveFromSpecialRegister(m, i) ==
  LET group == i.imm \div 8
      part == i.imm % 8
      value == CASE group = 0 -> IF part < 4 THEN FlagsWord(m.xpsr) ELSE 0
                 [] group = 1 -> IF part < 2 THEN ReadRegister(m, SP) ELSE 0
                 [] group = 2 -> (CASE part = 0 -> m.special.PRIMASK
                                    [] part \in {1, 2} -> Wrap(m.special.BASEPRI)
                                    [] part = 3 -> m.special.FAULTMASK
                                    [] part = 4 -> m.special.CONTROL
                                    [] OTHER -> 0)
                 [] OTHER -> 0
  IN  WriteRegister(m, i.Rd, value)

\* MSR.  PSR is read as the register has it, with the IT state from before this
\* instruction; the GE bits that ARMv7E-M accepts are not kept.
MoveToSpecialRegister(m, i) ==
  LET value == ReadRegister(m, i.Rn)
      low == value % 256
      group == (i.imm \div 8) % 32
      part == i.imm % 8
      mask == (i.imm \div 256) % 4
      flags == IF part < 4 /\ mask >= 2 THEN (m.xpsr \ 27..31) \union WordFlags(value) ELSE m.xpsr
      basepri == m.special.BASEPRI
  IN  CASE group = 0 -> IF part < 4 /\ mask % 2 = 1 /\ m.arch # "ARMv7EM"
                        THEN Fail(m, "UNPREDICTABLE") ELSE WritePSR(m, flags)
        [] group = 1 -> IF part < 2 THEN WriteRegister(m, SP, value) ELSE m
        [] group = 2 -> (CASE part = 0 -> [m EXCEPT !.special.PRIMASK = value % 2]
                           [] part = 1 -> [m EXCEPT !.special.BASEPRI = low]
                           [] part = 2 -> IF low # 0 /\ (low < basepri \/ basepri = 0)
                                          THEN [m EXCEPT !.special.BASEPRI = low] ELSE m
                           [] part = 3 -> [m EXCEPT !.special.FAULTMASK = value % 2]
                           [] part = 4 -> [m EXCEPT !.special.CONTROL = value % 4]
                           [] OTHER -> m)
        [] OTHER -> m

\* What an instruction does once its condition holds.
Perform(m, i) ==
  CASE i.name \in ArithmeticName -> Arithmetic(m, i)
    [] i.name \in LogicalName -> Logical(m, i)
    [] i.name \in {"LSL", "LSR", "ASR", "ROR", "RRX"} -> Shift(m, i)
    [] i.name \in {"MOV", "MOVW", "MOVT"} -> Move(m, i)
    [] i.name \in RearrangeName -> Rearrange(m, i)
    [] i.name \in {"SSAT", "USAT"} -> Saturation(m, i)
    [] i.name \in {"SBFX", "UBFX"} -> ExtractField(m, i)
    [] i.name \in {"BFI", "BFC"} -> InsertField(m, i)
    [] i.name \in {"MUL", "MLA", "MLS"} -> Product(m, i)
    [] i.name \in {"SMULL", "UMULL", "SMLAL", "UMLAL"} -> LongProduct(m, i)
    [] i.name \in {"SDIV", "UDIV"} -> Quotient(m, i)
    [] i.name = "ADR" -> Address(m, i)
    [] i.name \in SingleLoad \union SingleStore \union AlignedName -> Transfer(m, i)
    [] i.name \in {"B", "BL", "BX", "BLX"} -> BranchTo(m, i)
    [] i.name \in {"TBB", "TBH"} -> TableBranch(m, i)
    [] i.name = "MRS" -> MoveFromSpecialRegister(m, i)
    [] i.name = "MSR" -> MoveToSpecialRegister(m, i)
    [] OTHER -> Fail(m, "UNSUPPORTED")

\* Instructions that look at no condition, and so leave the IT block where it is.
Unconditional == {"CBZ", "CBNZ", "IT", "UDF", "CPS"} \union HintName

PerformUnconditional(m, i) ==
  CASE i.name \in {"CBZ", "CBNZ"} -> CompareBranch(m, i)
    [] i.name = "IT" -> [m EXCEPT !.psr.it = i.imm, !.updated = TRUE]
    [] i.name \in HintName -> m
    [] i.name = "CPS" -> ChangeState(m, i)
    [] i.name = "UDF" -> Fail(m, "UNDEFINED")

\* Mnemonics that are decoded and have no case in execute.
NotExecuted == {"YIELD", "WFE", "WFI", "BKPT", "SVC"}

\* execute
Execute(m, i, size) ==
  LET evaluated == EvaluateCondition(m, i)
  IN  CASE i.name \in NotExecuted -> Fail(m, "UNSUPPORTED")
        [] i.name \in Unconditional -> Advance(PerformUnconditional(m, i), size)
        [] OTHER -> Advance(IF evaluated.holds THEN Perform(evaluated.m, i) ELSE evaluated.m, size)
=============================================================================
