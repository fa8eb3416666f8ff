---------------------------- MODULE DecoderControl ----------------------------
(***************************************************************************)
(* decode_instruction, 32-bit encodings with op1 = 10 and op = 1: branches *)
(* and miscellaneous control.  The only group that ARMv6-M has a part of.  *)
(***************************************************************************)
EXTENDS Thumb

\* The bits of a branch offset that all forms share: H[low..0] and L[10:0].
BranchOffset(w, bits) == 2^11 * (w.H % 2^bits) + (w.L % 2^11)

LOCAL Sign(w) == Bits(w.H, 10, 10)

LOCAL J1(w) == Bits(w.L, 13, 13)

LOCAL J2(w) == Bits(w.L, 11, 11)

ConditionalBranchWide(w) ==
  Checked(FALSE, InIT(w),
          Ins("B", "I", [condition |-> Bits(w.H, 9, 6),
                         imm |-> SignExtended(2 * (2^19 * Sign(w) + 2^18 * J1(w) + 2^17 * J2(w)
                                                    + BranchOffset(w, 6)), 21)]))

\* B and BL with 25 bits, two of which are stored as their difference to the sign.
BranchWide(w, name) ==
  LET I1 == IF J1(w) = Sign(w) THEN 1 ELSE 0
      I2 == IF J2(w) = Sign(w) THEN 1 ELSE 0
  IN  Checked(FALSE, MidIT(w),
              Ins(name, "I", [imm |-> SignExtended(2 * (2^23 * Sign(w) + 2^22 * I1 + 2^21 * I2
                                                         + BranchOffset(w, 10)), 25)]))

\* Numbers of special registers that MRS and MSR do not know.
LOCAL NoRegister(sysm) == sysm = 4 \/ sysm \in 10..15 \/ sysm > 20

MoveToSpecial(w) ==
  LET sysm == Bits(w.L, 7, 0)
      mask == Bits(w.L, 11, 10)
      unexpected == \/ IsSet(w.H, 4)
                    \/ ~V7(w) /\ Bits(w.L, 13, 8) # 8
                    \/ V7(w) /\ (IsSet(w.L, 13) \/ Bits(w.L, 9, 8) # 0)
      undefined == \/ Hn(w) \in SPorPC
                   \/ NoRegister(sysm)
                   \/ V7(w) /\ (mask = 0 \/ (mask # 2 /\ sysm > 3))
  IN  CASE unexpected -> Refuse("UNEXPECTED_ENCODING")
        [] ~unexpected /\ undefined -> Refuse("UNDEFINED")
        [] OTHER -> Ins("MSR", "RI", [Rn |-> Hn(w),
                                      imm |-> sysm + (IF V7(w) THEN 256 * mask ELSE 0)])

MoveFromSpecial(w) ==
  LET sysm == Bits(w.L, 7, 0)
  IN  CASE w.H % 32 # 15 \/ IsSet(w.L, 13) -> Refuse("UNEXPECTED_ENCODING")
        [] ~(w.H % 32 # 15 \/ IsSet(w.L, 13)) /\ (Ld(w) = SP \/ NoRegister(sysm)) ->
             Refuse("UNDEFINED")
        [] OTHER -> Ins("MRS", "RI", [Rd |-> Ld(w), imm |-> sysm])

HintsWide(w) ==
  LET hint == Bits(w.L, 7, 0)
      name == CASE hint < 5 -> <<"NOP", "YIELD", "WFE", "WFI", "SEV">>[hint + 1]
                [] hint = 20 -> "CSDB"
                [] hint >= 240 -> "DBG"
                [] OTHER -> "none"
  IN  CASE Bits(w.L, 10, 8) # 0 -> Refuse("UNDEFINED")
        [] Bits(w.L, 10, 8) = 0 /\ name = "none" -> Refuse("UNKNOWN_INSTRUCTION")
        [] OTHER -> From7(w, Checked(Hn(w) # 15 \/ IsSet(w.L, 13) \/ IsSet(w.L, 11), FALSE,
                                     Ins(name, "NONE", <<>>)))

\* CLREX and the barriers, of which DSB, DMB and ISB are in every architecture.
Barriers(w) ==
  LET op == Bits(w.L, 7, 4)
      option == Lm(w)
      name == CASE op = 2 -> "CLREX"
                [] op = 4 -> (CASE option = 0 -> "SSBB" [] option = 4 -> "PSSBB" [] OTHER -> "DSB")
                [] op = 5 -> "DMB"
                [] op = 6 -> "ISB"
                [] OTHER -> "none"
      i == Checked(Hn(w) # 15 \/ IsSet(w.L, 13) \/ Ld(w) # 15 \/ (op = 2 /\ option # 15), FALSE,
                   Ins(name, "NONE", <<>>))
  IN  CASE name = "none" -> Refuse("UNKNOWN_INSTRUCTION")
        [] name \in {"DSB", "DMB", "ISB"} -> i
        [] OTHER -> From7(w, i)

MiscellaneousControl(w) ==
  LET op == Bits(w.H, 10, 4)
  IN  CASE Bits(w.H, 9, 7) # 7 -> From7(w, ConditionalBranchWide(w))
        [] op \in {56, 57} -> MoveToSpecial(w)
        [] op = 58 -> HintsWide(w)
        [] op = 59 -> Barriers(w)
        [] op \in {62, 63} -> MoveFromSpecial(w)
        [] op = 127 /\ IsSet(w.L, 13) -> Ins("UDF", "NONE", <<>>)
        [] OTHER -> Refuse("UNKNOWN_INSTRUCTION")

BranchesAndControl(w) ==
  CASE Bits(w.L, 14, 12) \in {0, 2} -> MiscellaneousControl(w)
    [] Bits(w.L, 14, 12) \in {1, 3} -> From7(w, BranchWide(w, "B"))
    [] Bits(w.L, 14, 12) \in {5, 7} -> BranchWide(w, "BL")
    [] OTHER -> Refuse("UNKNOWN_INSTRUCTION")
=============================================================================
