------------------------------- MODULE Thumb -------------------------------
(***************************************************************************)
(* What the instruction decoder works on: halfwords and their bit fields,  *)
(* and the record struct Instruction that it fills in.                     *)
(*                                                                         *)
(* A fetch is a record [arch, it, H, L]: the architecture of the decoder,  *)
(* the position in an IT block, and two halfwords of the flash.  A 16-bit  *)
(* instruction is in H alone.  A 32-bit immediate is a number modulo 2^32  *)
(* in the code; here branch offsets are signed, and an immediate that      *)
(* thumb_expand_imm has expanded keeps its 12 bits and is marked.          *)
(***************************************************************************)
EXTENDS Integers, FiniteSets, TLC

Arch == {"ARMv6M", "ARMv7M", "ARMv7EM"}

\* in_IT_block and last_in_IT_block, as they can be together.
ItPosition == {"outside", "inside", "last"}

\* The bits high..low of x, as the macros _1BIT.._12BIT take them after a shift.
Bits(x, high, low) == (x \div 2^low) % 2^(high - low + 1)

IsSet(x, i) == (x \div 2^i) % 2 = 1

SP == 13

LR == 14

PC == 15

SPorPC == {SP, PC}

\* What the constructor of Instruction leaves in a register or an immediate.
Unset == -1

\* struct Instruction as constructed; address, size and encoding are left out.
Blank == [code |-> "OK", name |-> "UDF", ot |-> "NONE", condition |-> 14,
          S |-> FALSE, wback |-> FALSE, index |-> FALSE, add |-> FALSE,
          shift |-> "LSL", amount |-> 0, Rd |-> Unset, Rn |-> Unset, Rm |-> Unset,
          Ra |-> Unset, imm |-> Unset, imm2 |-> Unset, expanded |-> FALSE]

\* f with other values for some of its arguments.
Updated(f, values) == [x \in DOMAIN f |-> IF x \in DOMAIN values THEN values[x] ELSE f[x]]

\* The members of f, and those of g besides.
f ++ g == [x \in DOMAIN f \union DOMAIN g |-> IF x \in DOMAIN f THEN f[x] ELSE g[x]]

\* A decoded instruction: its name, operand type, and the members that are set.
Ins(name, ot, members) == Updated(Updated(Blank, members), [name |-> name, ot |-> ot])

\* Decoding ends with another return code; the half-filled record is of no use.
Refuse(code) == [code |-> code]

IsOK(i) == i.code = "OK"

\* uses_only_registers()
OnlyRegisters(i) == i.ot \in {"R", "RR", "RRR", "RRRR"}

\* The register fields of a 32-bit encoding: H[3:0], L[15:12], L[11:8], L[3:0].
Hn(w) == w.H % 16

Lt(w) == w.L \div 4096

Ld(w) == (w.L \div 256) % 16

Lm(w) == w.L % 16

InIT(w) == w.it # "outside"

\* in_IT_block && !last_in_IT_block
MidIT(w) == w.it = "inside"

V7(w) == w.arch # "ARMv6M"

V7E(w) == w.arch = "ARMv7EM"

(* Mutant: the encoding of RRX is not given its amount. *)
ImmShiftPlain(type, imm5) ==
  [shift  |-> IF type = 3 /\ imm5 = 0 THEN "RRX" ELSE <<"LSL", "LSR", "ASR", "ROR">>[type + 1],
   amount |-> IF type \in {1, 2} /\ imm5 = 0 THEN 32 ELSE imm5]

\* decode_imm_shift
ImmShift(type, imm5) ==
  CASE type = 0 -> [shift |-> "LSL", amount |-> imm5]
    [] type = 1 -> [shift |-> "LSR", amount |-> IF imm5 = 0 THEN 32 ELSE imm5]
    [] type = 2 -> [shift |-> "ASR", amount |-> IF imm5 = 0 THEN 32 ELSE imm5]
    [] type = 3 -> IF imm5 = 0 THEN [shift |-> "RRX", amount |-> 1]
                               ELSE [shift |-> "ROR", amount |-> imm5]

(* Mutant: the architecture has to be the same, not at least as large. *)
From7Exactly(w, i) == IF w.arch = "ARMv7M" THEN i ELSE Refuse("UNSUPPORTED")

\* REQUIRE_ARCH(ARMv7M) before anything else.
From7(w, i) == IF V7(w) THEN i ELSE Refuse("UNSUPPORTED")

\* The two tests at the end of most encodings, in their order.
Checked(unexpected, unpredictable, i) ==
  IF unexpected THEN Refuse("UNEXPECTED_ENCODING")
  ELSE IF unpredictable THEN Refuse("UNPREDICTABLE") ELSE i

SignExtended(x, bits) == IF x < 2^(bits - 1) THEN x ELSE x - 2^bits

\* The positions of the bits of a register list; bit_count and lowest_set_bit.
BitsOf(x) == {i \in 0..15 : IsSet(x, i)}

LowestOf(list) == CHOOSE i \in list : \A j \in list : i <= j

\* get_instruction_size
InstructionSize(halfword) == IF Bits(halfword, 15, 11) \in {29, 30, 31} THEN 4 ELSE 2
=============================================================================
