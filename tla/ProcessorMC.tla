----------------------------- MODULE ProcessorMC -----------------------------
(***************************************************************************)
(* Programs for Processor, in words of eight bits: every encoding once,    *)
(* with every instruction fault, and longer programs where the order of    *)
(* instructions matters.                                                   *)
(***************************************************************************)
EXTENDS Processor

Narrow == {
  (* sums and comparisons *)
    \h4162, \h340C, \h44A1, \h1C06, \h1813, \h4487, \h41A7, \h3F01, \h1E8C, \h1B0E, \h424F,
    \h42C4, \h2B04, \h454F, \hA601,
  (* logic and moves *)
    \h4034, \h43AB, \h404F, \h4318, \h4204, \h43E7, \h2009, \h46CB, \h46F7,
  (* shifts *)
    \h409F, \h00A8, \h40E2, \h08CD, \h4119, \h10F9, \h41DA,
  (* bytes and bits *)
    \hBA18, \hBA6F, \hBAD1, \hB244, \hB20C, \hB2CE, \hB288,
  (* products and quotients *)
    \h4346,
  (* loads *)
    \h4F0F, \h68F5, \h5863, \h7925, \h5D19, \h8893, \h5B2A, \h572A, \h5FF4,
  (* stores *)
    \h6010, \h513E, \h7121, \h54F2, \h80E5, \h533B,
  (* lists of registers *)
    \hC803, \hCE0B, \hC403, \hB403, \hBC08, \hBD00,
  (* branches *)
    \hDC04, \h47A8, \h47F0, \h4708, \h4770, \hB122, \hB90C,
  (* hints and special registers *)
    \hBF00, \hBF40, \hBF20, \hBF30, \hBF10, \hBF03, \hDE6F, \hDF08, \hBE36, \hB660}

Wide == {
  (* sums and comparisons *)
    <<\hF15B, \h000B>>, <<\hEB51, \h004C>>, <<\hF11C, \h0006>>, <<\hEB1A, \h0068>>, <<\hF207, \h0A00>>,
    <<\hF20F, \h0800>>, <<\hF164, \h0902>>, <<\hEB76, \h0049>>, <<\hF1A1, \h0204>>, <<\hEBBA, \h0770>>,
    <<\hF2AF, \h0003>>, <<\hF2A8, \h0005>>, <<\hF1D7, \h0004>>, <<\hEBC3, \h000C>>, <<\hF112, \h0F02>>,
    <<\hEB1A, \h0FE9>>, <<\hF1B3, \h0F05>>, <<\hEBB4, \h1F10>>,
  (* logic and moves *)
    <<\hF000, \h0301>>, <<\hEA0A, \h1003>>, <<\hF000, \h1000>>, <<\hF024, \h0004>>, <<\hEA3B, \h03CC>>,
    <<\hF09C, \h0208>>, <<\hEA83, \h0802>>, <<\hF056, \h0200>>, <<\hEA45, \h0603>>, <<\hF073, \h0004>>,
    <<\hEA69, \h1140>>, <<\hF019, \h0F00>>, <<\hEA18, \h0F02>>, <<\hF08A, \h0F08>>, <<\hEA90, \h1F04>>,
    <<\hF06F, \h0004>>, <<\hEA6F, \h0082>>, <<\hF05F, \h0902>>, <<\hEA4F, \h0302>>, <<\hF240, \h0207>>,
    <<\hF6C9, \h74AE>>, <<\hF2C0, \h0101>>,
  (* shifts *)
    <<\hEA4F, \h0182>>, <<\hFA11, \h0403>>, <<\hEA5F, \h181C>>, <<\hFA39, \hF201>>, <<\hEA5F, \h03A8>>,
    <<\hFA56, \h8104>>, <<\hEA4F, \h00F4>>, <<\hFA61, \h800A>>, <<\hEA5F, \h0533>>,
  (* bytes and bits *)
    <<\hFA90, \hB1A0>>, <<\hFA99, \hD889>>, <<\hFA95, \h7995>>, <<\hFA92, \hFAB2>>, <<\hFAB3, \h6083>>,
    <<\hFA4F, \h0185>>, <<\hFA0F, \hFC87>>, <<\hFA5F, \h8688>>, <<\hFA1F, \hF880>>, <<\hF30B, \h0242>>,
    <<\hF388, \h0A0C>>, <<\hF347, \h0100>>, <<\hF3C8, \h0540>>, <<\hF368, \h0A20>>, <<\hF76F, \h0223>>,
  (* products and quotients *)
    <<\hFB09, \hF50C>>, <<\hFB03, \hB0CC>>, <<\hFB0C, \h695A>>, <<\hFB83, \h4001>>, <<\hFBA2, \h1803>>,
    <<\hFBCA, \h8401>>, <<\hFBE7, \h6008>>, <<\hFB94, \hF0FB>>, <<\hFBB6, \hFCF1>>,
  (* loads *)
    <<\hF85F, \h1002>>, <<\hF8DF, \h5004>>, <<\hF859, \h0C00>>, <<\hF8D3, \h1000>>, <<\hF85B, \hC908>>,
    <<\hF851, \h7B00>>, <<\hF854, \h0D00>>, <<\hF852, \h6F00>>, <<\hF853, \h0004>>, <<\hF8D0, \hF000>>,
    <<\hF85A, \h0E04>>, <<\hF81F, \h4004>>, <<\hF89F, \hB001>>, <<\hF817, \h0C02>>, <<\hF89C, \h9000>>,
    <<\hF818, \h9907>>, <<\hF811, \h9B09>>, <<\hF812, \h1D03>>, <<\hF811, \h5F00>>, <<\hF815, \h8001>>,
    <<\hF818, \h3E0B>>, <<\hF83F, \h7000>>, <<\hF8BF, \h2000>>, <<\hF833, \h8C00>>, <<\hF8B9, \hA003>>,
    <<\hF831, \h0900>>, <<\hF839, \h3B00>>, <<\hF835, \h8D02>>, <<\hF83A, \h4F03>>, <<\hF832, \hC003>>,
    <<\hF83B, \h5E0B>>, <<\hF91F, \h4000>>, <<\hF99F, \h0000>>, <<\hF91A, \h6C04>>, <<\hF998, \h1002>>,
    <<\hF914, \h1908>>, <<\hF91C, \h7B05>>, <<\hF918, \h0D00>>, <<\hF918, \h7F0C>>, <<\hF917, \h4000>>,
    <<\hF911, \hBE04>>, <<\hF93F, \h0000>>, <<\hF9BF, \h8000>>, <<\hF937, \h0C01>>, <<\hF9B2, \h4002>>,
    <<\hF934, \h0900>>, <<\hF93C, \h8B05>>, <<\hF934, \hCD01>>, <<\hF93C, \h6F00>>, <<\hF933, \h6008>>,
    <<\hF93A, \hBE07>>, <<\hE95F, \hA001>>, <<\hE9DF, \h700F>>, <<\hE956, \h0200>>, <<\hE9D6, \h5001>>,
    <<\hE878, \h2C00>>, <<\hE8F0, \h5402>>, <<\hE972, \h9A01>>, <<\hE9F4, \hA001>>, <<\hE858, \h0F00>>,
    <<\hE8D3, \h1F4F>>, <<\hE8D2, \hBF5F>>,
  (* stores *)
    <<\hF844, \h0C01>>, <<\hF8C6, \hA006>>, <<\hF84A, \h1900>>, <<\hF840, \h9B02>>, <<\hF846, \h1D00>>,
    <<\hF84A, \h6F0A>>, <<\hF842, \h4015>>, <<\hF842, \h1E04>>, <<\hF804, \h1C03>>, <<\hF888, \hB003>>,
    <<\hF800, \h7907>>, <<\hF80C, \h3B0B>>, <<\hF802, \h4D06>>, <<\hF806, \h8F03>>, <<\hF804, \h2049>>,
    <<\hF80A, \h0E06>>, <<\hF82C, \h0C02>>, <<\hF8A0, \h4001>>, <<\hF828, \h0901>>, <<\hF824, \hCB0C>>,
    <<\hF826, \h5D0C>>, <<\hF828, \h1F09>>, <<\hF820, \hB743>>, <<\hF828, \h4E0C>>, <<\hE946, \h0B00>>,
    <<\hE9CA, \h4001>>, <<\hE860, \h8401>>, <<\hE8E6, \hC002>>, <<\hE960, \h7800>>, <<\hE9E8, \h6400>>,
    <<\hE84A, \h1002>>, <<\hE8CB, \h8F4A>>, <<\hE8CC, \h8F56>>,
  (* lists of registers *)
    <<\hE896, \h000A>>, <<\hE8B4, \h000C>>, <<\hE91C, \h0006>>, <<\hE936, \h0007>>, <<\hE88C, \h000A>>,
    <<\hE8AA, \h000A>>, <<\hE904, \h0009>>, <<\hE924, \h0006>>, <<\hE92D, \h0006>>, <<\hE8BD, \h0000>>,
  (* branches *)
    <<\hF465, \h86ED>>, <<\hF000, \hB802>>, <<\hF000, \h8002>>, <<\hF403, \hF3FA>>, <<\hF000, \hF802>>,
    <<\hE8D3, \hF000>>, <<\hE8DC, \hF019>>,
  (* hints and special registers *)
    <<\hF9BA, \hF092>>, <<\hF3AF, \h8004>>, <<\hF3AF, \h8003>>, <<\hF3AF, \h8001>>, <<\hF3AF, \h80FE>>,
    <<\hF81F, \hF00C>>, <<\hF89F, \hF008>>, <<\hF813, \hFC0A>>, <<\hF89B, \hF005>>, <<\hF816, \hF001>>,
    <<\hF919, \hFC00>>, <<\hF99A, \hF005>>, <<\hF91A, \hF008>>, <<\hF7F3, \hAF0B>>, <<\hF3EF, \h8000>>,
    <<\hF3EF, \h8211>>, <<\hF3EF, \h8208>>, <<\hF382, \h8802>>, <<\hF380, \h8800>>, <<\hF380, \h8810>>,
    <<\hF380, \h8811>>, <<\hF380, \h8812>>, <<\hF380, \h8808>>, <<\hF380, \h8814>>, <<\hF3BF, \h8F2F>>,
    <<\hF3AF, \h8014>>, <<\hF3BF, \h8F4F>>, <<\hF3BF, \h8F5F>>, <<\hF3BF, \h8F6F>>, <<\hF3BF, \h8F40>>,
    <<\hF3BF, \h8F44>>}


\* Registers that make most of these succeed: even ones point to RAM.
Usual ==
  [r \in 0..15 |-> <<68, 1, 72, 2, 76, 3, 80, 4, 64, 1, 72, 2, 88, 80, 255, 0>>[r + 1]]

\* Registers at the ends of the range.
Extreme == [r \in 0..15 |-> IF r < 13 THEN <<255, 128, 127, 0>>[(r % 4) + 1] ELSE Usual[r]]

With(values) == [r \in 0..15 |-> IF r \in DOMAIN values THEN values[r] ELSE Usual[r]]

V7Only == {"ARMv7M"}

Scenario(program, archs, inputs, instructions, registers) ==
  [program |-> program, archs |-> archs, inputs |-> inputs,
   instructions |-> instructions, registers |-> registers]

Encodings == {<<h>> : h \in Narrow} \union Wide

Singles ==
  {Scenario(p, {"ARMv6M", "ARMv7M"}, {Usual}, TRUE, {}) : p \in Encodings}
    \union {Scenario(p, Arch, {Extreme}, FALSE, {}) : p \in Encodings}

\* CMP r0, r1 and a branch on each condition.
Comparisons ==
  {Scenario(<<\h4288, \hD002 + 256 * condition>>, {"ARMv6M"},
            {With((0 :> x) @@ (1 :> y)) : x, y \in {0, 1, 127, 128, 129, 255}}, FALSE, {}) :
     condition \in 0..13}

\* CMP r0, r2; SBCS r1, r3 and a branch on an order.
DoubleComparisons ==
  {Scenario(<<\h4290, \h4199, \hD002 + 256 * condition>>, {"ARMv6M"},
            {With((0 :> a) @@ (1 :> b) @@ (2 :> c) @@ (3 :> d)) :
               a, c \in {0, 1, 255}, b, d \in {0, 127, 128}}, FALSE, {}) :
     condition \in {2, 3, 10, 11}}

Add == \h3201       \* ADD r2, #1

\* CMP r0, r1; IT with every condition and mask; five additions.
Block(it, middle) == <<\h4288, \hBF00 + it>> \o middle

Blocks ==
  {Scenario(Block(it, <<Add, Add, Add, Add, Add>>), V7Only,
            {With((0 :> x) @@ (1 :> 1)) : x \in 0..2}, FALSE, {}) :
     it \in {n \in 0..255 : n % 16 # 0}}

\* Faults in a block, in its IT instruction and in PSR.
FaultedBlocks ==
  {Scenario(Block(it, <<Add, Add, \hF102, \h0201, Add>>), V7Only, {With((1 :> 1))}, TRUE, {PSR}) :
     it \in {\h06, \h15}}

\* A list is stored, r0 and r1 are overwritten, and it is loaded again.
Stacked(store, load) ==
  Scenario(store \o <<\h2009, \h2109>> \o load, V7Only, {With((13 :> 96) @@ (4 :> 80))}, FALSE, {})

LowLists == {2 * a + b : a, b \in 0..1} \union {3, 6, 9, 15}

Stacks ==
  UNION {{Stacked(<<\hB400 + list>>, <<\hBC00 + list>>),
          Stacked(<<\hB500 + list>>, <<\hBD00 + list>>),
          Stacked(<<\hE92D, \h4000 + list>>, <<\hE8BD, \h8000 + list>>),
          Stacked(<<\hE924, list>>, <<\hE8B4, list>>),
          Stacked(<<\hE8A4, list>>, <<\hE934, list>>)} : list \in LowLists \ {0}}

All == Singles \union Comparisons \union DoubleComparisons \union Blocks \union FaultedBlocks \union Stacks
=============================================================================
