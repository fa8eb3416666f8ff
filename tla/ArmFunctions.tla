---------------------------- MODULE ArmFunctions ----------------------------
(***************************************************************************)
(* arm_functions.cpp: arithmetic on machine words.  A word has four bytes; *)
(* the machine of the code has ByteWidth = 8.  What the code takes apart   *)
(* as bytes, halves and words is the same for any width, so that small     *)
(* words can be checked exhaustively.                                      *)
(***************************************************************************)
EXTENDS Integers, FiniteSets, FiniteSetsExt

CONSTANT ByteWidth      \* bits of a byte

\* The five flags of PSR, which MRS and MSR take, are the upper bits of a word.
ASSUME ByteWidthAssumption == ByteWidth \in Nat \ {0, 1}

Width == 4 * ByteWidth

Wrap(x) == x % 2^Width

\* (i32)x
Signed(x) == IF x < 2^(Width - 1) THEN x ELSE x - 2^Width

Bit(x, i) == (x \div 2^i) % 2

\* 2^n, as far as a word can tell.
Power(n) == 2^(IF n < Width THEN n ELSE Width)

ByteOf(x, k) == (x \div 2^(ByteWidth * k)) % 2^ByteWidth

\* A word and the positions of its bits.
Ones(x) == {i \in 0 .. Width - 1 : Bit(x, i) = 1}

Number(positions) == MapThenSumSet(LAMBDA i : 2^i, positions)

And(x, y) == Number(Ones(x) \cap Ones(y))

Or(x, y) == Number(Ones(x) \union Ones(y))

Xor(x, y) == Number((Ones(x) \union Ones(y)) \ (Ones(x) \cap Ones(y)))

Not(x) == 2^Width - 1 - x

\* A result with its carry, of an operation that accepts its arguments.
Valid(value, carry) == [ok |-> TRUE, value |-> value, carry |-> carry]

Invalid == [ok |-> FALSE, value |-> 0, carry |-> 0]

LSL_C(x, n) ==
  CASE n = 0 -> Invalid
    [] n \in 1..Width -> Valid(Wrap(x * 2^n), Bit(x, Width - n))
    [] OTHER -> Valid(0, 0)

LSR_C(x, n) ==
  CASE n = 0 -> Invalid
    [] n \in 1..Width -> Valid(x \div 2^n, Bit(x, n - 1))
    [] OTHER -> Valid(0, 0)

\* Beyond the width the sign is not repeated: a product is masked to one bit.
ASR_C(x, n) ==
  CASE n = 0 -> Invalid
    [] n \in 1..Width -> Valid(Wrap(Signed(x) \div 2^n), Bit(x, n - 1))
    [] OTHER -> Valid(Bit(x, Width - 1), Bit(x, Width - 1))

Rotated(x, n) == IF n % Width = 0 THEN x
                 ELSE x \div 2^(n % Width) + Wrap(x * 2^(Width - (n % Width)))

ROR_C(x, n) == IF n = 0 THEN Invalid ELSE Valid(Rotated(x, n), Bit(Rotated(x, n), Width - 1))

RRX_C(x, carry) == Valid(carry * 2^(Width - 1) + x \div 2, x % 2)

Shift_C(x, type, amount, carry) ==
  CASE type = "RRX" /\ amount # 1 -> Invalid
    [] amount = 0 /\ type # "RRX" -> Valid(x, carry)
    [] amount # 0 /\ type = "LSL" -> LSL_C(x, amount)
    [] amount # 0 /\ type = "LSR" -> LSR_C(x, amount)
    [] amount # 0 /\ type = "ASR" -> ASR_C(x, amount)
    [] amount # 0 /\ type = "ROR" -> ROR_C(x, amount)
    [] amount = 1 /\ type = "RRX" -> RRX_C(x, carry)

(* Mutant: the carry in is not counted when overflow is looked for. *)
AddIgnoringCarry(x, y, carry) ==
  [result   |-> Wrap(x + y + carry),
   carry    |-> IF x + y + carry < 2^Width THEN 0 ELSE 1,
   overflow |-> Signed(Wrap(x + y)) # Signed(x) + Signed(y)]

AddWithCarry(x, y, carry) ==
  [result   |-> Wrap(x + y + carry),
   carry    |-> IF x + y + carry < 2^Width THEN 0 ELSE 1,
   overflow |-> Signed(Wrap(x + y + carry)) # Signed(x) + Signed(y) + carry]

Align(address, alignment) == address - (address % alignment)

\* The bits above num_bits are set or left alone.  A shift by the whole width is
\* undefined in C++; processors take the amount modulo the width.
SignExtend(value, num_bits) ==
  IF Bit(value, num_bits - 1) = 0 THEN value
  ELSE IF num_bits = Width THEN 2^Width - 1
  ELSE Or(value, 2^Width - 2^num_bits)

\* signed_sat_Q and unsigned_sat_Q: the value and whether it was saturated.
SignedSat(i, n) ==
  CASE i >= Power(n - 1) -> [value |-> Power(n - 1) - 1, sat |-> TRUE]
    [] i < -Power(n - 1) -> [value |-> Wrap(-Power(n - 1)), sat |-> TRUE]
    [] OTHER -> [value |-> Wrap(i), sat |-> FALSE]

UnsignedSat(i, n) ==
  CASE i >= Power(n) -> [value |-> Power(n) - 1, sat |-> TRUE]
    [] i < 0 -> [value |-> 0, sat |-> TRUE]
    [] OTHER -> [value |-> i, sat |-> FALSE]

\* thumb_expand_imm_C: a byte in one of four patterns, or a rotated byte.
ThumbExpandImm_C(imm12, carry) ==
  LET byte == imm12 % 256
      at(positions) == Wrap(MapThenSumSet(LAMBDA k : byte * 2^(ByteWidth * k), positions))
      pattern == <<{0}, {0, 2}, {1, 3}, {0, 1, 2, 3}>>[((imm12 \div 256) % 4) + 1]
  IN  IF imm12 >= 1024 THEN ROR_C(Wrap(128 + (imm12 % 128)), (imm12 \div 128) % 32)
      ELSE IF pattern # {0} /\ byte = 0 THEN Invalid
      ELSE Valid(at(pattern), carry)

\* std::llround of a quotient: to the nearest integer, halves away from zero.
Rounded(a, b) ==
  LET abs(x) == IF x < 0 THEN -x ELSE x
      magnitude == (2 * abs(a) + abs(b)) \div (2 * abs(b))
  IN  IF (a < 0) = (b < 0) THEN magnitude ELSE -magnitude
=============================================================================
