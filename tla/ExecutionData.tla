---------------------------- MODULE ExecutionData ----------------------------
(***************************************************************************)
(* Emulator::execute, instructions that compute on registers.  Each takes  *)
(* the state and the instruction once its condition holds, and leaves PC   *)
(* to be advanced.                                                         *)
(***************************************************************************)
EXTENDS EmulatorState

\* A second operand: a shifted register, or an immediate.  The arithmetic
\* immediates were expanded by the decoder, the logical ones are here.
ArithmeticOperand(m, i) ==
  IF OnlyRegisters(i) THEN ShiftedOperand(m, i)
  ELSE Valid(IF i.expanded THEN ThumbExpandImm_C(i.imm, 0).value ELSE Wrap(i.imm), 0)

LogicalOperand(m, i) ==
  IF OnlyRegisters(i) THEN ShiftedOperand(m, i) ELSE ThumbExpandImm_C(i.imm, m.psr.C)

\* CHECK_SHIFT and CHECK_IMM.
Refused(m, i) == Fail(m, IF OnlyRegisters(i) THEN "INVALID_SHIFT_ARGUMENT" ELSE "INVALID_IMMEDIATE")

ArithmeticName == {"ADC", "ADD", "ADDW", "SBC", "SUB", "SUBW", "RSB", "CMN", "CMP"}

Sum(name, x, y, carry) ==
  CASE name = "ADC" -> AddWithCarry(x, y, carry)
    [] name \in {"ADD", "ADDW", "CMN"} -> AddWithCarry(x, y, 0)
    [] name = "SBC" -> AddWithCarry(x, Not(y), carry)
    [] name \in {"SUB", "SUBW", "CMP"} -> AddWithCarry(x, Not(y), 1)
    [] name = "RSB" -> AddWithCarry(Not(x), y, 1)

\* Only ADD looks for PC as its destination.
Arithmetic(m, i) ==
  LET operand == ArithmeticOperand(m, i)
      sum == Sum(i.name, ReadRegister(m, i.Rn), operand.value, m.psr.C)
      compare == i.name \in {"CMN", "CMP"}
      written == IF compare THEN m ELSE WriteRegister(m, i.Rd, sum.result)
  IN  CASE ~operand.ok -> Refused(m, i)
        [] operand.ok /\ i.name \in {"ADD", "ADDW"} /\ i.Rd = PC ->
             [m EXCEPT !.reg[PC] = Align(sum.result, 2), !.branched = TRUE]
        [] OTHER -> IF ~(i.S \/ compare) THEN written
                    ELSE SetFlags(SetFlags(written, NZC(sum.result, sum.carry)),
                                  [V |-> IF sum.overflow THEN 1 ELSE 0])

LogicalName == {"AND", "BIC", "EOR", "ORR", "ORN", "TST", "TEQ", "MVN"}

Combined(name, x, y) ==
  CASE name \in {"AND", "TST"} -> And(x, y)
    [] name = "BIC" -> And(x, Not(y))
    [] name \in {"EOR", "TEQ"} -> Xor(x, y)
    [] name = "ORR" -> Or(x, y)
    [] name = "ORN" -> Or(x, Not(y))
    [] name = "MVN" -> Not(y)

Logical(m, i) ==
  LET operand == LogicalOperand(m, i)
      test == i.name \in {"TST", "TEQ"}
      x == IF i.name = "MVN" THEN 0 ELSE ReadRegister(m, i.Rn)
      result == Combined(i.name, x, operand.value)
      written == IF test THEN m ELSE WriteRegister(m, i.Rd, result)
  IN  CASE ~operand.ok -> Refused(m, i)
        [] operand.ok /\ (i.S \/ test) -> SetFlags(written, NZC(result, operand.carry))
        [] OTHER -> written

\* LSL, LSR, ASR, ROR by an immediate or the low byte of a register; RRX.
Shift(m, i) ==
  LET byRegister == OnlyRegisters(i) /\ i.name # "RRX"
      amount == IF byRegister THEN ReadRegister(m, i.Rm) % 256 ELSE i.amount
      base == ReadRegister(m, IF byRegister THEN i.Rn ELSE i.Rm)
      shifted == IF i.name = "RRX" THEN RRX_C(base, m.psr.C)
                 ELSE Shift_C(base, i.shift, amount, m.psr.C)
      written == WriteRegister(m, i.Rd, shifted.value)
  IN  CASE ~shifted.ok -> Fail(m, "INVALID_SHIFT_ARGUMENT")
        [] shifted.ok /\ i.S -> SetFlags(written, NZC(shifted.value, shifted.carry))
        [] OTHER -> written

\* MOV, MOVW, MOVT.  To PC, the increment that follows comes on top.
Move(m, i) ==
  LET old == ReadRegister(m, i.Rd)
      half == 2^(2 * ByteWidth)
      moved == CASE i.name = "MOVW" -> Valid(Wrap(i.imm), m.psr.C)
                 [] i.name = "MOVT" -> Valid((old % half) + Wrap(i.imm * half), m.psr.C)
                 [] i.name = "MOV" /\ OnlyRegisters(i) -> Valid(ReadRegister(m, i.Rm), m.psr.C)
                 [] OTHER -> ThumbExpandImm_C(i.imm, m.psr.C)
      written == WriteRegister(m, i.Rd, moved.value)
  IN  CASE i.Rd = PC -> WriteRegister(m, PC, Align(ReadRegister(m, i.Rm), 2))
        [] i.Rd # PC /\ ~moved.ok -> Fail(m, "INVALID_IMMEDIATE")
        [] i.Rd # PC /\ moved.ok /\ i.S -> SetFlags(written, NZC(moved.value, moved.carry))
        [] OTHER -> written

\* RBIT, REV, REV16, REVSH, CLZ, SXTB, SXTH, UXTB, UXTH.  The ROR of the last
\* four accepts every amount, also none, so that their CHECK_SHIFT never fails.
RearrangeName == {"RBIT", "REV", "REV16", "REVSH", "CLZ", "SXTB", "SXTH", "UXTB", "UXTH"}

Rearranged(i, x) ==
  LET bytes(order) == MapThenSumSet(LAMBDA k : ByteOf(x, order[k + 1]) * 2^(ByteWidth * k), 0..3)
      half == 2 * ByteWidth
      rotated == Rotated(x, i.amount)
  IN  CASE i.name = "RBIT" -> Number({Width - 1 - p : p \in Ones(x)})
        [] i.name = "REV" -> bytes(<<3, 2, 1, 0>>)
        [] i.name = "REV16" -> bytes(<<1, 0, 3, 2>>)
        [] i.name = "REVSH" -> SignExtend(bytes(<<1, 0, 3, 2>>) % 2^half, half)
        [] i.name = "CLZ" -> IF x = 0 THEN Width ELSE Width - 1 - Max(Ones(x))
        [] i.name = "SXTB" -> SignExtend(rotated % 2^ByteWidth, ByteWidth)
        [] i.name = "SXTH" -> SignExtend(rotated % 2^half, half)
        [] i.name = "UXTB" -> rotated % 2^ByteWidth
        [] i.name = "UXTH" -> rotated % 2^half

Rearrange(m, i) == WriteRegister(m, i.Rd, Rearranged(i, ReadRegister(m, i.Rm)))

\* SSAT and USAT.  The result of SSAT is extended from bit 4 whatever its width.
Saturation(m, i) ==
  LET operand == Shift_C(ReadRegister(m, i.Rn), i.shift, i.amount, m.psr.C)
      signed == SignedSat(Signed(operand.value), i.imm)
      unsigned == UnsignedSat(Signed(operand.value), i.imm)
      chosen == IF i.name = "SSAT" THEN signed ELSE unsigned
      result == IF i.name = "SSAT" THEN SignExtend(chosen.value, 5) ELSE chosen.value
      written == WriteRegister(m, i.Rd, result)
  IN  CASE ~operand.ok -> Fail(m, "INVALID_SHIFT_ARGUMENT")
        [] operand.ok /\ chosen.sat -> SetFlags(written, [Q |-> 1])
        [] OTHER -> written

\* SBFX and UBFX.
ExtractField(m, i) ==
  LET field == (ReadRegister(m, i.Rn) \div Power(i.imm)) % Power(i.imm2)
  IN  IF i.imm + i.imm2 > Width THEN Fail(m, "UNPREDICTABLE")
      ELSE WriteRegister(m, i.Rd, IF i.name = "SBFX" THEN SignExtend(field, i.imm2) ELSE field)

\* BFI and BFC.
InsertField(m, i) ==
  LET old == ReadRegister(m, i.Rd)
      msb == i.imm + i.imm2
      low == old % Power(i.imm)
      high == IF msb < Width THEN (old \div Power(msb)) * Power(msb) ELSE 0
      value == IF i.name = "BFI" THEN ReadRegister(m, i.Rn) % Power(i.imm2) ELSE 0
  IN  WriteRegister(m, i.Rd, high + Wrap(value * Power(i.imm)) + low)

\* MUL sets flags; MLA and MLS could.
Product(m, i) ==
  LET product == ReadRegister(m, i.Rn) * ReadRegister(m, i.Rm)
      result == CASE i.name = "MUL" -> Wrap(product)
                  [] i.name = "MLA" -> Wrap(product + ReadRegister(m, i.Ra))
                  [] i.name = "MLS" -> Wrap(ReadRegister(m, i.Ra) - product)
      written == WriteRegister(m, i.Rd, result)
  IN  IF i.S THEN SetFlags(written, NZ(result)) ELSE written

\* SMULL, UMULL, SMLAL, UMLAL to Rd (high) and Ra (low).  UMLAL converts its
\* operands as SMLAL does.
LongProduct(m, i) ==
  LET unsigned == i.name = "UMULL"
      factor(r) == IF unsigned THEN ReadRegister(m, r) ELSE Signed(ReadRegister(m, r))
      addend == IF i.name \in {"SMULL", "UMULL"} THEN 0
                ELSE ReadRegister(m, i.Rd) * 2^Width + ReadRegister(m, i.Ra)
      result == factor(i.Rn) * factor(i.Rm) + addend
  IN  WriteRegister(WriteRegister(m, i.Rd, result \div 2^Width), i.Ra, result)

\* SDIV and UDIV round to the nearest; CCR, which nothing sets, asks for no trap.
Quotient(m, i) ==
  LET operand(r) == IF i.name = "SDIV" THEN Signed(ReadRegister(m, r)) ELSE ReadRegister(m, r)
  IN  WriteRegister(m, i.Rd, IF operand(i.Rm) = 0 THEN 0
                             ELSE Rounded(operand(i.Rn), operand(i.Rm)))

\* ADR
Address(m, i) ==
  LET base == Align(ReadRegister(m, PC), 4)
  IN  WriteRegister(m, i.Rd, IF i.add THEN base + i.imm ELSE base - i.imm)
=============================================================================
