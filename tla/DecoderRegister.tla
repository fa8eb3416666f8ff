--------------------------- MODULE DecoderRegister ---------------------------
(***************************************************************************)
(* decode_instruction, 32-bit encodings with op1 = 11 and op2 = 01xxxxx:   *)
(* register operations, multiplications and divisions.  Of the DSP         *)
(* extension only the test of the architecture is there.                   *)
(***************************************************************************)
EXTENDS Thumb

LOCAL DSP(w) == Refuse(IF V7E(w) THEN "UNKNOWN_INSTRUCTION" ELSE "UNSUPPORTED")

LOCAL Unknown == Refuse("UNKNOWN_INSTRUCTION")

LOCAL dnm(w) == [Rd |-> Ld(w), Rn |-> Hn(w), Rm |-> Lm(w)]

LOCAL Bad(registers) == registers \cap SPorPC # {}

ShiftByRegister(w) ==
  LET type == <<"LSL", "LSR", "ASR", "ROR">>[Bits(w.H, 6, 5) + 1]
  IN  From7(w, Checked(FALSE, Bad({Ld(w), Hn(w), Lm(w)}),
                       Ins(type, "RRR", [S |-> IsSet(w.H, 4), shift |-> type] ++ dnm(w))))

\* Parallel additions and subtractions.
ParallelArithmetic(w) ==
  IF Bits(w.H, 6, 4) \in {0, 1, 2, 4, 5, 6} /\ Bits(w.L, 5, 4) < 3 THEN DSP(w) ELSE Unknown

\* REV, REV16, RBIT, REVSH, CLZ, whose source is encoded twice.
ReverseOrCount(w) ==
  LET op1 == Bits(w.H, 5, 4)
      op2 == Bits(w.L, 5, 4)
      of(name) == From7(w, Checked(FALSE, Bad({Ld(w), Lm(w)}) \/ Hn(w) # Lm(w),
                                   Ins(name, "RR", [Rd |-> Ld(w), Rm |-> Lm(w)])))
  IN  CASE op1 = 0 -> DSP(w)
        [] op1 = 1 -> of(<<"REV", "REV16", "RBIT", "REVSH">>[op2 + 1])
        [] op1 = 2 /\ op2 = 0 -> DSP(w)
        [] op1 = 3 /\ op2 = 0 -> of("CLZ")
        [] OTHER -> Unknown

\* SXTH, UXTH, SXTB, UXTB of a rotated register; with an addend they are DSP.
Extend(w) ==
  LET op == Bits(w.H, 7, 4)
  IN  CASE op > 5 -> Unknown
        [] op \in {2, 3} \/ (op < 6 /\ Hn(w) # 15) -> DSP(w)
        [] OTHER -> From7(w, Checked(IsSet(w.L, 6), Bad({Ld(w), Lm(w)}),
                      Ins(<<"SXTH", "UXTH", "none", "none", "SXTB", "UXTB">>[op + 1], "RR",
                          [Rd |-> Ld(w), Rm |-> Lm(w), shift |-> "ROR",
                           amount |-> 8 * Bits(w.L, 5, 4)])))

DataProcessingRegister(w) ==
  LET op2 == Bits(w.L, 7, 4)
      high == IsSet(w.H, 7)
  IN  CASE op2 = 0 /\ ~high -> ShiftByRegister(w)
        [] op2 < 8 /\ high -> ParallelArithmetic(w)
        [] op2 \in 8..11 /\ Bits(w.H, 7, 6) = 2 -> ReverseOrCount(w)
        [] op2 >= 8 /\ ~(op2 \in 8..11 /\ Bits(w.H, 7, 6) = 2) -> Extend(w)
        [] OTHER -> Unknown

\* MLA, MUL, MLS.
Multiply(w) ==
  LET op1 == Bits(w.H, 6, 4)
      op2 == Bits(w.L, 5, 4)
      a == Lt(w)
      dnma == [Ra |-> a] ++ dnm(w)
      bad == Bad({Ld(w), Hn(w), Lm(w)})
  IN  CASE op1 = 0 /\ op2 = 0 /\ a # 15 -> From7(w, Checked(FALSE, bad \/ a = SP,
                                                            Ins("MLA", "RRRR", dnma)))
        [] op1 = 0 /\ op2 = 0 /\ a = 15 -> From7(w, Checked(FALSE, bad, Ins("MUL", "RRR", dnm(w))))
        [] op1 = 0 /\ op2 = 1 -> From7(w, Checked(FALSE, bad \/ Bad({a}),
                                                  Ins("MLS", "RRRR", dnma)))
        [] op1 = 1 \/ (op1 \in 2..6 /\ op2 < 2) \/ (op1 = 7 /\ op2 = 0) -> DSP(w)
        [] OTHER -> Unknown

\* SMULL, UMULL, SMLAL, UMLAL, SDIV, UDIV.
MultiplyLongOrDivide(w) ==
  LET op1 == Bits(w.H, 6, 4)
      op2 == Bits(w.L, 7, 4)
      a == Lt(w)
      bad == Bad({Ld(w), Hn(w), Lm(w)})
  IN  CASE op1 \in {0, 2} /\ op2 = 0 ->
             From7(w, Checked(FALSE, bad \/ Bad({a}) \/ a = Ld(w),
                              Ins(IF op1 = 0 THEN "SMULL" ELSE "UMULL", "RRRR",
                                  [Ra |-> a] ++ dnm(w))))
        [] op1 \in {4, 6} /\ op2 = 0 ->
             From7(w, Checked(FALSE, bad \/ Bad({a}),
                              Ins(IF op1 = 4 THEN "SMLAL" ELSE "UMLAL", "RRRR",
                                  [Ra |-> a] ++ dnm(w))))
        [] op1 \in {1, 3} /\ op2 = 15 ->
             From7(w, Checked(a # 15, bad, Ins(IF op1 = 1 THEN "SDIV" ELSE "UDIV", "RRR", dnm(w))))
        [] \/ op1 = 4 /\ op2 \in 8..13
           \/ op1 = 5 /\ op2 \in {12, 13}
           \/ op1 = 6 /\ op2 = 6 -> DSP(w)
        [] OTHER -> Unknown

RegisterOperations(w) ==
  CASE ~IsSet(w.H, 8) -> DataProcessingRegister(w)
    [] IsSet(w.H, 8) /\ ~IsSet(w.H, 7) -> Multiply(w)
    [] IsSet(w.H, 8) /\ IsSet(w.H, 7) -> MultiplyLongOrDivide(w)
=============================================================================
