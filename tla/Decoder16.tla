------------------------------ MODULE Decoder16 ------------------------------
(***************************************************************************)
(* The first half of decode_instruction: encodings of one halfword.  One   *)
(* operator per group of the code, a row or a tuple where its branches     *)
(* differ in constants only.                                               *)
(***************************************************************************)
EXTENDS Thumb

LOCAL Low(w) == Bits(w.H, 2, 0)

LOCAL Middle(w) == Bits(w.H, 5, 3)

LOCAL Upper(w) == Bits(w.H, 8, 6)

LOCAL R8(w) == Bits(w.H, 10, 8)

LOCAL Imm8(w) == Bits(w.H, 7, 0)

MovsRegister(w) == Ins("MOV", "RR", [S |-> TRUE, Rd |-> Low(w), Rm |-> Middle(w)])

\* LSL, LSR, ASR with an immediate, and ADD, SUB with three operands.
ShiftAddSub(w) ==
  LET type == Bits(w.H, 12, 11)
      AddSub == IF IsSet(w.H, 9) THEN "SUB" ELSE "ADD"
      dn == [S |-> ~InIT(w), Rd |-> Low(w), Rn |-> Middle(w)]
  IN  IF type < 3
      THEN Ins(<<"LSL", "LSR", "ASR">>[type + 1], "RRI",
               [S |-> ~InIT(w), Rd |-> Low(w), Rm |-> Middle(w)]
                 ++ ImmShift(type, Bits(w.H, 10, 6)))
      ELSE IF IsSet(w.H, 10) THEN Ins(AddSub, "RRI", [imm |-> Upper(w)] ++ dn)
                             ELSE Ins(AddSub, "RRR", [Rm |-> Upper(w)] ++ dn)

\* MOV, CMP, ADD, SUB with an immediate of eight bits.
MovCmpAddSub(w) ==
  LET i == [imm |-> Imm8(w)]
  IN  CASE Bits(w.H, 12, 11) = 0 -> Ins("MOV", "RI", [S |-> ~InIT(w), Rd |-> R8(w)] ++ i)
        [] Bits(w.H, 12, 11) = 1 -> Ins("CMP", "RI", [Rn |-> R8(w)] ++ i)
        [] OTHER -> Ins(IF IsSet(w.H, 11) THEN "SUB" ELSE "ADD", "RI",
                        [S |-> ~InIT(w), Rd |-> R8(w), Rn |-> R8(w)] ++ i)

DataProcessingName == <<"AND", "EOR", "LSL", "LSR", "ASR", "ADC", "SBC", "ROR", "TST",
                        "RSB", "CMP", "CMN", "ORR", "MUL", "BIC", "MVN">>

DataProcessing(w) ==
  LET name == DataProcessingName[Bits(w.H, 9, 6) + 1]
      low == Low(w)
      mid == Middle(w)
      s == [S |-> ~InIT(w)]
  IN  CASE name \in {"TST", "CMP", "CMN"} -> Ins(name, "RR", [Rn |-> low, Rm |-> mid])
        [] name = "RSB" -> Ins(name, "RRI", [Rd |-> low, Rn |-> mid, imm |-> 0] ++ s)
        [] name = "MUL" -> Ins(name, "RR", [Rd |-> low, Rm |-> low, Rn |-> mid] ++ s)
        [] name = "MVN" -> Ins(name, "RR", [Rd |-> low, Rm |-> mid] ++ s)
        [] name \in {"LSL", "LSR", "ASR", "ROR"} ->
             Ins(name, "RR", [Rd |-> low, Rn |-> low, Rm |-> mid, shift |-> name] ++ s)
        [] OTHER -> Ins(name, "RR", [Rd |-> low, Rn |-> low, Rm |-> mid] ++ s)

\* ADD with high registers; SP as second operand becomes the first one, as the
\* destination it is both.
AddHigh(w) ==
  LET d == 8 * Bits(w.H, 7, 7) + Low(w)
      m == Bits(w.H, 6, 3)
      toPC == d = PC /\ MidIT(w)
  IN  CASE m = SP -> IF toPC THEN Refuse("UNPREDICTABLE")
                     ELSE Ins("ADD", "RRR", [Rd |-> d, Rn |-> SP, Rm |-> d])
        [] m # SP /\ d = SP -> Ins("ADD", "RRR", [Rd |-> SP, Rn |-> SP, Rm |-> m])
        [] OTHER -> IF toPC \/ (d = PC /\ m = PC) THEN Refuse("UNPREDICTABLE")
                    ELSE Ins("ADD", "RR", [Rd |-> d, Rn |-> d, Rm |-> m])

\* CMP and MOV with high registers, BX and BLX.
SpecialDataBranchExchange(w) ==
  LET opcode == Bits(w.H, 9, 6)
      n == 8 * Bits(w.H, 7, 7) + Low(w)
      m == Bits(w.H, 6, 3)
  IN  CASE opcode \in 0..3 -> AddHigh(w)
        [] opcode = 4 -> Refuse("UNPREDICTABLE")
        [] opcode \in 5..7 -> IF (n < 8 /\ m < 8) \/ PC \in {n, m} THEN Refuse("UNPREDICTABLE")
                              ELSE Ins("CMP", "RR", [Rn |-> n, Rm |-> m])
        [] opcode \in 8..11 -> Ins("MOV", "RR", [Rd |-> n, Rm |-> m])
        [] opcode \in 12..15 -> IF Low(w) # 0 THEN Refuse("UNEXPECTED_ENCODING")
                                ELSE IF MidIT(w) \/ m = PC THEN Refuse("UNPREDICTABLE")
                                ELSE Ins(IF opcode < 14 THEN "BX" ELSE "BLX", "R", [Rm |-> m])

LoadLiteral(w) == Ins("LDR", "RI", [Rd |-> R8(w), imm |-> 4 * Imm8(w), add |-> TRUE])

LOCAL Offset == [index |-> TRUE, add |-> TRUE]

\* Loads and stores at Rn + Rm.
LoadStoreRegister(w) ==
  Ins(<<"STR", "STRH", "STRB", "LDRSB", "LDR", "LDRH", "LDRB", "LDRSH">>[Bits(w.H, 11, 9) + 1],
      "RRR", [Rd |-> Low(w), Rn |-> Middle(w), Rm |-> Upper(w)] ++ Offset)

\* Loads and stores at Rn or SP plus an immediate, scaled by the access size.
LoadStoreImmediate(w) ==
  LET row == <<<<"STR", 4>>, <<"LDR", 4>>, <<"STRB", 1>>, <<"LDRB", 1>>, <<"STRH", 2>>,
               <<"LDRH", 2>>, <<"STR", 4>>, <<"LDR", 4>>>>[Bits(w.H, 15, 11) - 11]
  IN  IF Bits(w.H, 15, 12) = 9
      THEN Ins(row[1], "RRI", [Rd |-> R8(w), Rn |-> SP, imm |-> row[2] * Imm8(w)] ++ Offset)
      ELSE Ins(row[1], "RRI", [Rd |-> Low(w), Rn |-> Middle(w),
                               imm |-> row[2] * Bits(w.H, 10, 6)] ++ Offset)

AddToPCorSP(w) ==
  IF IsSet(w.H, 11) THEN Ins("ADD", "RRI", [Rd |-> R8(w), Rn |-> SP, imm |-> 4 * Imm8(w)])
                    ELSE Ins("ADR", "RI", [Rd |-> R8(w), imm |-> 4 * Imm8(w), add |-> TRUE])

\* CBZ, CBNZ.
CompareAndBranch(w) ==
  IF InIT(w) THEN Refuse("UNPREDICTABLE")
  ELSE Ins(IF IsSet(w.H, 11) THEN "CBNZ" ELSE "CBZ", "RI",
           [Rn |-> Low(w), imm |-> 64 * Bits(w.H, 9, 9) + 2 * Bits(w.H, 7, 3)])

PushPop(w) ==
  LET m == Bits(w.H, 8, 8)
      pop == IsSet(w.H, 11)
      imm == Imm8(w) + m * (IF pop THEN 2^15 ELSE 2^14)
  IN  IF imm = 0 \/ (pop /\ m = 1 /\ MidIT(w)) THEN Refuse("UNPREDICTABLE")
      ELSE Ins(IF pop THEN "POP" ELSE "PUSH", "I", [imm |-> imm])

ChangeProcessorState(w) ==
  CASE Bits(w.H, 3, 2) # 0 -> Refuse("UNEXPECTED_ENCODING")
    [] Bits(w.H, 3, 2) = 0 /\ InIT(w) -> Refuse("UNPREDICTABLE")
    [] OTHER -> Ins("CPS", "I", [imm |-> Bits(w.H, 4, 0)])

\* IT and the hints.
IfThenAndHints(w) ==
  LET firstcond == Bits(w.H, 7, 4)
      mask == Bits(w.H, 3, 0)
  IN  CASE mask # 0 ->
             IF ~V7(w) THEN Refuse("UNSUPPORTED")
             ELSE IF \/ firstcond = 15
                     \/ firstcond = 14 /\ Cardinality(BitsOf(mask)) # 1
                     \/ InIT(w)
             THEN Refuse("UNPREDICTABLE")
             ELSE Ins("IT", "I", [imm |-> Imm8(w)])
        [] mask = 0 /\ firstcond < 5 ->
             Ins(<<"NOP", "YIELD", "WFE", "WFI", "SEV">>[firstcond + 1], "NONE", <<>>)
        [] OTHER -> Refuse("UNKNOWN_INSTRUCTION")

\* SP adjusted, extensions, byte reversals, and the groups above.
Miscellaneous(w) ==
  LET op5 == Bits(w.H, 11, 7)
      op6 == Bits(w.H, 11, 6)
      dm == [Rd |-> Low(w), Rm |-> Middle(w)]
      sp == [Rd |-> SP, Rn |-> SP, imm |-> 4 * Bits(w.H, 6, 0)]
  IN  CASE op5 = 0 -> Ins("ADD", "RI", sp)
        [] op5 = 1 -> Ins("SUB", "RI", sp)
        [] Bits(w.H, 11, 8) \in {1, 3, 9, 11} /\ V7(w) -> CompareAndBranch(w)
        [] op6 \in 8..11 -> Ins(<<"SXTH", "SXTB", "UXTH", "UXTB">>[op6 - 7], "RR", dm)
        [] Bits(w.H, 10, 9) = 2 -> PushPop(w)
        [] Bits(w.H, 11, 5) = 51 -> ChangeProcessorState(w)
        [] op6 = 40 -> Ins("REV", "RR", dm)
        [] op6 = 41 -> Ins("REV16", "RR", dm)
        [] op6 = 43 -> Ins("REVSH", "RR", dm)
        [] Bits(w.H, 11, 8) = 14 -> Ins("BKPT", "NONE", <<>>)
        [] Bits(w.H, 11, 8) = 15 -> IfThenAndHints(w)
        [] OTHER -> Refuse("UNKNOWN_INSTRUCTION")

\* STM and LDM: a base in the list must be the first one stored, and is not
\* written back when loaded.
StoreLoadMultiple(w) ==
  LET list == BitsOf(Imm8(w))
      n == R8(w)
      members == [Rn |-> n, imm |-> Imm8(w)]
  IN  CASE list = {} -> Refuse("UNPREDICTABLE")
        [] list # {} /\ IsSet(w.H, 11) -> Ins("LDM", "RI", [wback |-> n \notin list] ++ members)
        [] OTHER -> IF n \in list /\ n # LowestOf(list) THEN Refuse("UNPREDICTABLE")
                    ELSE Ins("STM", "RI", [wback |-> TRUE] ++ members)

ConditionalBranchAndSVC(w) ==
  LET condition == Bits(w.H, 11, 8)
  IN  CASE condition = 14 -> Ins("UDF", "NONE", <<>>)
        [] condition = 15 -> Ins("SVC", "I", [imm |-> Imm8(w)])
        [] OTHER -> IF InIT(w) THEN Refuse("UNPREDICTABLE")
                    ELSE Ins("B", "I", [condition |-> condition,
                                        imm |-> SignExtended(2 * Imm8(w), 9)])

Branch(w) ==
  IF MidIT(w) THEN Refuse("UNPREDICTABLE")
  ELSE Ins("B", "I", [imm |-> SignExtended(2 * Bits(w.H, 10, 0), 12)])

\* The dispatch on the upper bits, in the order of the code.
Decode16(w) ==
  LET op5 == Bits(w.H, 15, 11)
  IN  CASE w.H < 64 -> MovsRegister(w)
        [] w.H >= 64 /\ op5 \in 0..3 -> ShiftAddSub(w)
        [] op5 \in 4..7 -> MovCmpAddSub(w)
        [] Bits(w.H, 15, 10) = 16 -> DataProcessing(w)
        [] Bits(w.H, 15, 10) = 17 -> SpecialDataBranchExchange(w)
        [] op5 = 9 -> LoadLiteral(w)
        [] op5 \in {10, 11} -> LoadStoreRegister(w)
        [] op5 \in 12..19 -> LoadStoreImmediate(w)
        [] op5 \in {20, 21} -> AddToPCorSP(w)
        [] op5 \in {22, 23} -> Miscellaneous(w)
        [] op5 \in {24, 25} -> StoreLoadMultiple(w)
        [] op5 \in {26, 27} -> ConditionalBranchAndSVC(w)
        [] op5 = 28 -> Branch(w)
=============================================================================
