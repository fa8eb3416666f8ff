----------------------------- MODULE DecoderData -----------------------------
(***************************************************************************)
(* decode_instruction, 32-bit data processing: shifted register (op1 = 01, *)
(* op2 = 01xxxxx), modified immediate and plain immediate (op1 = 10,       *)
(* op = 0).                                                                *)
(***************************************************************************)
EXTENDS Thumb

LOCAL Op(w) == Bits(w.H, 8, 5)

LOCAL S(w) == IsSet(w.H, 4)

LOCAL Imm5(w) == 4 * Bits(w.L, 14, 12) + Bits(w.L, 7, 6)

SplitImm12(w) == 2048 * Bits(w.H, 10, 10) + 256 * Bits(w.L, 14, 12) + Bits(w.L, 7, 0)

\* The operations of both forms by opcode, and the tests they become when the
\* destination is PC.
OperationName ==
  [op \in {0, 1, 2, 3, 4, 8, 10, 11, 13, 14} |->
     <<"AND", "BIC", "ORR", "ORN", "EOR", "none", "none", "none", "ADD", "none",
       "ADC", "SBC", "none", "SUB", "RSB">>[op + 1]]

TestName ==
  [op \in {0, 4, 8, 13} |-> CASE op = 0 -> "TST" [] op = 4 -> "TEQ" [] op = 8 -> "CMN" [] op = 13 -> "CMP"]

\* ADD and SUB are the operations whose first operand may be SP.
LOCAL AddOrSub == {8, 13}

\* AND, BIC, ORR, ORN, EOR, ADD, ADC, SBC, SUB, RSB with a shifted register.
ThreeRegisters(w) ==
  LET d == Ld(w)
      n == Hn(w)
      m == Lm(w)
      op == Op(w)
  IN  Checked(IsSet(w.L, 15),
              \/ PC \in {d, m} \/ m = SP
              \/ d = SP /\ ~(op \in AddOrSub /\ n = SP)
              \/ n = SP /\ op \notin AddOrSub
              \/ n = PC /\ op # 4,
              Ins(OperationName[op], "RRR",
                  [S |-> S(w), Rd |-> d, Rn |-> n, Rm |-> m] ++ ImmShift(Bits(w.L, 5, 4), Imm5(w))))

\* TST, TEQ, CMN, CMP with a shifted register.
TestRegister(w) ==
  LET n == Hn(w)
      m == Lm(w)
  IN  IF ~S(w) THEN Refuse("UNPREDICTABLE")
      ELSE From7(w, Checked(IsSet(w.L, 15),
                            m \in SPorPC \/ n = PC \/ (n = SP /\ Op(w) \notin AddOrSub),
                            Ins(TestName[Op(w)], "RR", [Rn |-> n, Rm |-> m]
                                                         ++ ImmShift(Bits(w.L, 5, 4), Imm5(w)))))

\* ORR without a first operand: MOV, LSL, LSR, ASR, ROR, RRX.
MoveOrShift(w) ==
  LET d == Ld(w)
      m == Lm(w)
      type == Bits(w.L, 5, 4)
      dm == [S |-> S(w), Rd |-> d, Rm |-> m]
  IN  Checked(IsSet(w.L, 15), {d, m} \cap SPorPC # {},
              IF Imm5(w) = 0 /\ type = 0 THEN Ins("MOV", "RR", dm)
              ELSE IF Imm5(w) = 0 /\ type = 3 THEN Ins("RRX", "RR", dm)
              ELSE Ins(<<"LSL", "LSR", "ASR", "ROR">>[type + 1], "RRI",
                       dm ++ ImmShift(type, Imm5(w))))

MoveNot(w) ==
  LET d == Ld(w)
      m == Lm(w)
  IN  Checked(IsSet(w.L, 15), {d, m} \cap SPorPC # {},
              Ins("MVN", "RR", [S |-> S(w), Rd |-> d, Rm |-> m]
                                 ++ ImmShift(Bits(w.L, 5, 4), Imm5(w))))

ShiftedRegister(w) ==
  LET op == Op(w)
  IN  CASE op \in DOMAIN TestName /\ Ld(w) = 15 -> TestRegister(w)
        [] op = 2 /\ Hn(w) = 15 -> From7(w, MoveOrShift(w))
        [] op = 3 /\ Hn(w) = 15 -> From7(w, MoveNot(w))
        [] op = 6 /\ ~V7E(w) -> Refuse("UNSUPPORTED")
        [] op \in DOMAIN OperationName /\ ~(op \in DOMAIN TestName /\ Ld(w) = 15)
                                       /\ ~(op \in {2, 3} /\ Hn(w) = 15) ->
             From7(w, ThreeRegisters(w))
        [] OTHER -> Refuse("UNKNOWN_INSTRUCTION")

\* What thumb_expand_imm accepts: a pattern of several bytes may not be zero.
Expandable(imm12) == imm12 < 256 \/ imm12 >= 1024 \/ imm12 % 256 # 0

\* The arithmetic operations expand the immediate here, the logical ones when
\* they execute.
LOCAL Arithmetic == {8, 10, 11, 13, 14}

LOCAL Expanding(w, i) ==
  IF Op(w) \in Arithmetic /\ ~Expandable(SplitImm12(w)) THEN Refuse("INVALID_IMMEDIATE") ELSE i

LOCAL Immediate(w) == [imm |-> SplitImm12(w), expanded |-> Op(w) \in Arithmetic]

\* AND, BIC, ORR, ORN, EOR, ADD, ADC, SBC, SUB, RSB with a modified immediate.
TwoRegistersImmediate(w) ==
  LET d == Ld(w)
      n == Hn(w)
      op == Op(w)
  IN  Expanding(w, Checked(FALSE,
        \/ n = PC
        \/ n = SP /\ op \notin AddOrSub
        \/ d = SP /\ ~(op \in AddOrSub /\ n = SP)
        \/ d = PC /\ (op \in {10, 11, 14} \/ (op \in {1, 2} /\ ~S(w))),
        Ins(OperationName[op], "RRI", [S |-> S(w), Rd |-> d, Rn |-> n] ++ Immediate(w))))

TestImmediate(w) ==
  LET n == Hn(w)
  IN  Expanding(w, Checked(FALSE, n = PC \/ (n = SP /\ Op(w) \notin AddOrSub),
                           Ins(TestName[Op(w)], "RI", [Rn |-> n] ++ Immediate(w))))

MoveImmediate(w) ==
  Checked(FALSE, Ld(w) \in SPorPC,
          Ins(IF Op(w) = 2 THEN "MOV" ELSE "MVN", "RI", [S |-> S(w), Rd |-> Ld(w)] ++ Immediate(w)))

ModifiedImmediate(w) ==
  LET op == Op(w)
  IN  IF op \notin DOMAIN OperationName THEN Refuse("UNKNOWN_INSTRUCTION")
      ELSE From7(w, CASE op \in DOMAIN TestName /\ Ld(w) = 15 -> TestImmediate(w)
                      [] op \in {2, 3} /\ Hn(w) = 15 -> MoveImmediate(w)
                      [] OTHER -> TwoRegistersImmediate(w))

\* ADDW and SUBW; with PC as operand they stand for ADR.
AddSubWide(w) ==
  LET d == Ld(w)
      n == Hn(w)
      add == ~IsSet(w.H, 7)
      adr == n = PC
  IN  Checked(FALSE, d = PC \/ (d = SP /\ n # SP),
              Ins(IF add THEN "ADDW" ELSE "SUBW", IF adr /\ ~add THEN "RI" ELSE "RRI",
                  [Rd |-> d, Rn |-> n, imm |-> SplitImm12(w), add |-> adr /\ add]))

MoveWide(w) ==
  Checked(FALSE, Ld(w) \in SPorPC,
          Ins(IF IsSet(w.H, 7) THEN "MOVT" ELSE "MOVW", "RI",
              [Rd |-> Ld(w), imm |-> 4096 * Hn(w) + SplitImm12(w)]))

LOCAL Width(w) == Bits(w.L, 4, 0)

LOCAL Reserved(w) == IsSet(w.H, 10) \/ IsSet(w.L, 5)

\* SSAT and USAT; the type of the shift is not looked at.
Saturate(w) ==
  LET d == Ld(w)
      n == Hn(w)
      signed == ~IsSet(w.H, 7)
  IN  Checked(Reserved(w), {d, n} \cap SPorPC # {},
              Ins(IF signed THEN "SSAT" ELSE "USAT", "RRI",
                  [Rd |-> d, Rn |-> n, imm |-> Width(w) + (IF signed THEN 1 ELSE 0)]
                    ++ ImmShift(0, Imm5(w))))

\* SBFX and UBFX.
BitFieldExtract(w) ==
  LET d == Ld(w)
      n == Hn(w)
  IN  Checked(Reserved(w), {d, n} \cap SPorPC # {},
              Ins(IF IsSet(w.H, 7) THEN "UBFX" ELSE "SBFX", "RRII",
                  [Rd |-> d, Rn |-> n, imm |-> Imm5(w), imm2 |-> Width(w) + 1]))

\* BFI and BFC; the encoding holds the last bit, the instruction the width.
BitFieldInsert(w) ==
  LET d == Ld(w)
      n == Hn(w)
      field == [Rd |-> d, imm |-> Imm5(w), imm2 |-> Width(w) - Imm5(w) + 1]
  IN  Checked(FALSE, Imm5(w) > Width(w) \/ d \in SPorPC \/ n = SP,
              IF n = PC THEN Ins("BFC", "RRII", field) ELSE Ins("BFI", "RRII", [Rn |-> n] ++ field))

PlainImmediate(w) ==
  LET op == Bits(w.H, 8, 4)
      noshift == Bits(w.L, 14, 12) = 0 /\ Bits(w.L, 7, 6) = 0
      shift == Bits(w.L, 14, 12) # 0 /\ Bits(w.L, 7, 6) # 0
  IN  CASE op \in {0, 10} -> From7(w, AddSubWide(w))
        [] op \in {4, 12} -> From7(w, MoveWide(w))
        [] op \in {16, 24} \/ (op \in {18, 26} /\ shift) -> From7(w, Saturate(w))
        [] op \in {18, 26} /\ noshift /\ ~V7E(w) -> Refuse("UNSUPPORTED")
        [] op \in {20, 28} -> From7(w, BitFieldExtract(w))
        [] op = 22 -> From7(w, BitFieldInsert(w))
        [] OTHER -> Refuse("UNKNOWN_INSTRUCTION")
=============================================================================
