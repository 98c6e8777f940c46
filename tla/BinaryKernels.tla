---------------------------- MODULE BinaryKernels ----------------------------
(***************************************************************************)
(* The tables of kernels with two operands.  For each backend there are    *)
(* the rows in the order in which they are registered, the position at     *)
(* which the type check looks for a pair of dtypes, the wrappers on the    *)
(* host, and the declarations and definitions of what they call on the     *)
(* device.  The preprocessor expands a table once for each function; here  *)
(* a table is a function of the two dtypes.                                *)
(***************************************************************************)
EXTENDS Dtypes

\* Rows of a table: the dtypes that go with the first operand, in order.
ToU32 == <<"u8", "u16", "u32">>
NumericPartners ==
  [t \in ToSet(Numeric) |->
    CASE t \in {"u8", "u16", "u32"} -> Numeric
      [] t = "u64" -> Unsigned
      [] t \in {"i8", "i16", "i32"} -> ToU32 \o Signed \o Reals \o Complexes
      [] t = "i64" -> ToU32 \o Signed
      [] OTHER -> ToU32 \o <<"i8", "i16", "i32">> \o Reals \o Complexes]

BitPartners ==
  [t \in {"b"} \union ToSet(IntegerTypes) |->
    CASE t \in {"b", "u8", "u16", "u32"} -> <<"b">> \o IntegerTypes
      [] t = "u64" -> <<"b">> \o Unsigned
      [] OTHER -> <<"b", "u8", "u16", "u32">> \o Signed]

\* Results, in the order of the partners.
ArithmeticOut ==
  [u8   |-> <<"u8", "u16", "u32", "u64", "i16", "i16", "i32", "i64", "bf16", "f16", "f32", "f64", "c32", "c64", "c128">>,
   u16  |-> <<"u16", "u16", "u32", "u64", "i32", "i32", "i32", "i64", "f32", "f32", "f32", "f64", "c64", "c64", "c128">>,
   u32  |-> <<"u32", "u32", "u32", "u64", "i64", "i64", "i64", "i64", "f64", "f64", "f64", "f64", "c128", "c128", "c128">>,
   u64  |-> <<"u64", "u64", "u64", "u64">>,
   i8   |-> <<"i16", "i32", "i64", "i8", "i16", "i32", "i64", "bf16", "f16", "f32", "f64", "c32", "c64", "c128">>,
   i16  |-> <<"i16", "i32", "i64", "i16", "i16", "i32", "i64", "f32", "f32", "f32", "f64", "c64", "c64", "c128">>,
   i32  |-> <<"i32", "i32", "i64", "i32", "i32", "i32", "i64", "f64", "f64", "f64", "f64", "c128", "c128", "c128">>,
   i64  |-> <<"i64", "i64", "i64", "i64", "i64", "i64", "i64">>,
   bf16 |-> <<"bf16", "f32", "f64", "bf16", "f32", "f64", "bf16", "f32", "f32", "f64", "c64", "c64", "c128">>,
   f16  |-> <<"f16", "f32", "f64", "f16", "f32", "f64", "f32", "f16", "f32", "f64", "c32", "c64", "c128">>,
   f32  |-> <<"f32", "f32", "f64", "f32", "f32", "f64", "f32", "f32", "f32", "f64", "c64", "c64", "c128">>,
   f64  |-> <<"f64", "f64", "f64", "f64", "f64", "f64", "f64", "f64", "f64", "f64", "c128", "c128", "c128">>,
   c32  |-> <<"c32", "c64", "c128", "c32", "c64", "c128", "c64", "c32", "c64", "c128", "c32", "c64", "c128">>,
   c64  |-> <<"c64", "c64", "c128", "c64", "c64", "c128", "c64", "c64", "c64", "c128", "c64", "c64", "c128">>,
   c128 |-> [i \in 1..13 |-> "c128"]]

\* Division of integers gives a floating point number.
FloatReturnOut ==
  [u8  |-> <<"f16", "f32", "f64", "u64", "f16", "f32", "f64", "i64">>,
   u16 |-> <<"f32", "f32", "f64", "u64", "f32", "f32", "f64", "i64">>,
   u32 |-> <<"f64", "f64", "f64", "u64", "f64", "f64", "f64", "i64">>,
   i8  |-> <<"f16", "f32", "f64", "f16", "f32", "f64", "i64">>,
   i16 |-> <<"f32", "f32", "f64", "f32", "f32", "f64", "i64">>,
   i32 |-> <<"f64", "f64", "f64", "f64", "f64", "f64", "i64">>]

BitwiseOut ==
  [b   |-> <<"b", "u8", "u16", "u32", "u64", "i8", "i16", "i32", "i64">>,
   u8  |-> <<"u8", "u8", "u16", "u32", "u64", "i16", "i16", "i32", "i64">>,
   u16 |-> <<"u16", "u16", "u16", "u32", "u64", "i32", "i32", "i32", "i64">>,
   u32 |-> <<"u32", "u32", "u32", "u32", "u64", "i64", "i64", "i64", "i64">>,
   u64 |-> <<"u64", "u64", "u64", "u64", "u64">>,
   i8  |-> <<"i8", "i16", "i32", "i64", "i8", "i16", "i32", "i64">>,
   i16 |-> <<"i16", "i16", "i32", "i64", "i16", "i16", "i32", "i64">>,
   i32 |-> <<"i32", "i32", "i32", "i64", "i32", "i32", "i32", "i64">>,
   i64 |-> [i \in 1..8 |-> "i64"]]

Position(s, x) == CHOOSE i \in DOMAIN s : s[i] = x

NumericPairs == UNION {{<<t, u>> : u \in ToSet(NumericPartners[t])} : t \in DOMAIN NumericPartners}
BitPairs == UNION {{<<t, u>> : u \in ToSet(BitPartners[t])} : t \in DOMAIN BitPartners}

\* Wrong: a signed and an unsigned type of the same width give the unsigned one.
Arithmetic_KeepsUnsigned(p) ==
  IF p = <<"i16", "u16">> THEN "u16" ELSE ArithmeticOut[p[1]][Position(NumericPartners[p[1]], p[2])]

Arithmetic(p) == ArithmeticOut[p[1]][Position(NumericPartners[p[1]], p[2])]
FloatReturn(p) ==
  LET k == Position(NumericPartners[p[1]], p[2])
  IN IF p[1] \in DOMAIN FloatReturnOut /\ k <= Len(FloatReturnOut[p[1]])
     THEN FloatReturnOut[p[1]][k] ELSE Arithmetic(p)
Comparison(p) == "b"
Bitwise(p) == BitwiseOut[p[1]][Position(BitPartners[p[1]], p[2])]
-----------------------------------------------------------------------------
(* The rows that are registered, in order.                                 *)

Rows(types, Partners, Out(_)) ==
  FlattenSeq([i \in DOMAIN types |->
    [j \in DOMAIN Partners[types[i]] |->
      LET p == <<types[i], Partners[types[i]][j]>> IN [in |-> p, out |-> Out(p)]]])

CpuArithmeticInit == Rows(Numeric, NumericPartners, Arithmetic)
CpuFloatReturnInit == Rows(Numeric, NumericPartners, FloatReturn)
CpuComparisonInit == Rows(Numeric, NumericPartners, Comparison)
CpuEqualnInit == Rows(Numeric, NumericPartners, Comparison)
CpuBitwiseInit == Rows(<<"b">> \o IntegerTypes, BitPartners, Bitwise)

CudaArithmeticInit == Rows(Numeric, NumericPartners, Arithmetic)
CudaFloatReturnInit == Rows(Numeric, NumericPartners, FloatReturn)
CudaComparisonInit == Rows(Numeric, NumericPartners, Comparison)
CudaEqualnInit == Rows(Numeric, NumericPartners, Comparison)
CudaBitwiseInit == Rows(<<"b">> \o IntegerTypes, BitPartners, Bitwise)
-----------------------------------------------------------------------------
(* Where the type check looks for a pair.  The rows of the switch have     *)
(* their own order: it is written down a second time in the code.          *)

Row(start, partners) == [start |-> start, partners |-> partners]

LocationIn(rows, stride, p) ==
  IF p[1] \in DOMAIN rows /\ p[2] \in ToSet(rows[p[1]].partners)
  THEN rows[p[1]].start + stride * (Position(rows[p[1]].partners, p[2]) - 1)
  ELSE -1

NoU64 == SelectSeq(Numeric, LAMBDA u : u # "u64")
NoWide == SelectSeq(Numeric, LAMBDA u : u \notin {"u64", "i64"})

CpuUnsignedRows ==
  [u8 |-> Row(0, Numeric), u16 |-> Row(180, Numeric), u32 |-> Row(360, Numeric), u64 |-> Row(540, Unsigned)]
CpuSignedRows ==
  [i8 |-> Row(588, NoU64), i16 |-> Row(756, NoU64), i32 |-> Row(924, NoU64),
   i64 |-> Row(1092, <<"u8", "u16", "u32">> \o Signed)]
CpuRealRows ==
  [bf16 |-> Row(1176, NoWide), f16 |-> Row(1332, NoWide), f32 |-> Row(1488, NoWide), f64 |-> Row(1644, NoWide)]
CpuComplexRows == [c32 |-> Row(1800, NoWide), c64 |-> Row(1956, NoWide), c128 |-> Row(2112, NoWide)]

\* Wrong: the row of f32 starts where the one of f64 does.
CpuBinaryRows_Shifted ==
  CpuUnsignedRows @@ CpuSignedRows @@ [CpuRealRows EXCEPT !.f32.start = 1644] @@ CpuComplexRows

CpuBinaryRows == CpuUnsignedRows @@ CpuSignedRows @@ CpuRealRows @@ CpuComplexRows
CpuBinaryLocation(p) == LocationIn(CpuBinaryRows, 12, p)

CudaUnsignedRows ==
  [u8 |-> Row(0, Numeric), u16 |-> Row(60, Numeric), u32 |-> Row(120, Numeric), u64 |-> Row(180, Unsigned)]
CudaSignedRows ==
  [i8 |-> Row(196, NoU64), i16 |-> Row(252, NoU64), i32 |-> Row(308, NoU64),
   i64 |-> Row(364, <<"u8", "u16", "u32">> \o Signed)]
CudaRealRows ==
  [bf16 |-> Row(392, NoWide), f16 |-> Row(444, NoWide), f32 |-> Row(496, NoWide), f64 |-> Row(548, NoWide)]
CudaComplexRows == [c32 |-> Row(600, NoWide), c64 |-> Row(652, NoWide), c128 |-> Row(704, NoWide)]

CudaBinaryLocation(p) ==
  LocationIn(CudaUnsignedRows @@ CudaSignedRows @@ CudaRealRows @@ CudaComplexRows, 4, p)

\* In the row of u16, the signed types come before the unsigned ones.
SignedBits == <<"b", "u8", "u16", "u32">> \o Signed
CpuBitwiseRows ==
  [b |-> Row(0, <<"b">> \o IntegerTypes), u8 |-> Row(108, <<"b">> \o IntegerTypes),
   u16 |-> Row(216, <<"b">> \o Signed \o Unsigned), u32 |-> Row(324, <<"b">> \o IntegerTypes),
   u64 |-> Row(432, <<"b">> \o Unsigned), i8 |-> Row(492, SignedBits), i16 |-> Row(588, SignedBits),
   i32 |-> Row(684, SignedBits), i64 |-> Row(780, SignedBits)]
CpuBitwiseLocation(p) == LocationIn(CpuBitwiseRows, 12, p)

CudaBitwiseRows ==
  [b |-> Row(0, <<"b">> \o IntegerTypes), u8 |-> Row(36, <<"b">> \o IntegerTypes),
   u16 |-> Row(72, <<"b">> \o Signed \o Unsigned), u32 |-> Row(108, <<"b">> \o IntegerTypes),
   u64 |-> Row(144, <<"b">> \o Unsigned), i8 |-> Row(164, SignedBits), i16 |-> Row(196, SignedBits),
   i32 |-> Row(228, SignedBits), i64 |-> Row(260, SignedBits)]
CudaBitwiseLocation(p) == LocationIn(CudaBitwiseRows, 4, p)
-----------------------------------------------------------------------------
(* Wrappers and what they call.  A pair without an implementation has a    *)
(* wrapper that raises NotImplementedError ("noimpl") or RuntimeError      *)
(* ("nokern"), or no declaration and no definition; complex numbers are    *)
(* compiled as C++ ("implc") in a file of their own on MSVC.  Where a       *)
(* device file says "no implementation", the line expands to nothing and   *)
(* its result is not compared with anything.                               *)

With(S) == {p \in NumericPairs : p[1] \in S \/ p[2] \in S}
Half == {"f16", "c32"}
Complex == ToSet(Complexes)
Bytes == {"u8", "i8"} \X {"u8", "i8"}
ComplexFile == With(Complex) \ With({"bf16"})
WidePairs == {p \in NumericPairs : \E i \in 1..2 : p[i] \in {"u64", "i64"}}

Table(pairs, Out(_), noimpl, nokern, implc) ==
  [p \in pairs |->
    [out |-> Out(p),
     kind |-> CASE p \in noimpl -> "noimpl" [] p \in nokern -> "nokern"
                [] p \in implc -> "implc" [] OTHER -> "impl"]]

CpuHostArithmetic == Table(NumericPairs, Arithmetic, With(Half), {}, {})
CpuHostNoComplex == Table(NumericPairs, Arithmetic, With({"f16"}) \ With(Complex), With(Complex), {})
CpuHostFloatReturn == Table(NumericPairs, FloatReturn, With(Half) \union Bytes, WidePairs, {})
CpuHostComparison == Table(NumericPairs, Comparison, With(Half), {}, {})
CpuHostBitwise == Table(BitPairs, Bitwise, {}, {}, {})

CpuDeclArithmetic == Table(NumericPairs, Arithmetic, With(Half), {}, {})
CpuDeclNoComplex ==
  LET noimpl == (With({"f16"}) \ With(Complex)) \union {<<"c32", "bf16">>}
      decl == {<<"c64", "bf16">>, <<"c128", "bf16">>}
  IN Table(NumericPairs, Arithmetic, noimpl, With(Complex) \ decl, {})
CpuDeclFloatReturn == Table(NumericPairs, FloatReturn, With(Half) \union Bytes, WidePairs, {})
CpuDeclComparison == Table(NumericPairs, Comparison, With(Half) \ {<<"bf16", "f16">>}, {}, {})
CpuDeclBitwise == Table(BitPairs, Bitwise, {}, {}, {})

CpuDeviceArithmetic == Table(NumericPairs, Arithmetic, With(Half), {}, ComplexFile)
CpuDeviceNoComplex ==
  Table(NumericPairs, Arithmetic, (With({"f16"}) \ With(Complex)) \union {<<"c128", "f16">>}, With(Complex), {})
CpuDeviceFloatReturn == Table(NumericPairs, FloatReturn, With(Half) \union Bytes, WidePairs, ComplexFile)
CpuDeviceComparison == Table(NumericPairs, Comparison, With(Half), {}, ComplexFile)
CpuDeviceBitwise == Table(BitPairs, Bitwise, {}, {}, {})

\* cpu_device_msvc.cc has the complex rows only.
MsvcArithmetic == Table(ComplexFile, Arithmetic, With(Half), {}, {})
MsvcFloatReturn == Table(ComplexFile, FloatReturn, With(Half), {}, {})
MsvcComparison == Table(ComplexFile, Comparison, With(Half), {}, {})

CudaHostArithmetic == Table(NumericPairs, Arithmetic, With({"c32"}), {}, {})
CudaHostNoComplex ==
  LET noimpl == {<<"u8", "f16">>, <<"i8", "f16">>, <<"f16", "u8">>, <<"f16", "i8">>, <<"f16", "bf16">>, <<"f16", "f16">>}
  IN Table(NumericPairs, Arithmetic, noimpl, With(Complex), {})
CudaHostFloatReturn == Table(NumericPairs, FloatReturn, With({"c32"}), WidePairs, {})
CudaHostComparison == Table(NumericPairs, Comparison, With({"c32"}), {}, {})
CudaHostBitwise == Table(BitPairs, Bitwise, {}, {}, {})

CudaDeclArithmetic == Table(NumericPairs, Arithmetic, With({"c32"}), {}, {})
CudaDeclNoComplex ==
  LET noimpl == {<<"u8", "f16">>, <<"i8", "f16">>, <<"f16", "u8">>, <<"f16", "i8">>, <<"f16", "f16">>}
                  \union {p \in NumericPairs : p[1] = "c32" /\ p[2] \notin Complex}
  IN Table(NumericPairs, Arithmetic, noimpl, {p \in NumericPairs : p[2] \in Complex}, {})
CudaDeclFloatReturn == Table(NumericPairs, FloatReturn, With({"c32"}), WidePairs, {})
CudaDeclComparison == Table(NumericPairs, Comparison, With({"c32"}), {}, {})
CudaDeclBitwise == Table(BitPairs, Bitwise, {}, {}, {})

CudaDeviceArithmetic == Table(NumericPairs, Arithmetic, With({"c32"}), {}, {})
CudaDeviceNoComplex ==
  LET noimpl == {<<"u8", "f16">>, <<"i8", "f16">>, <<"f16", "u8">>, <<"f16", "i8">>, <<"f16", "f16">>}
  IN Table(NumericPairs, Arithmetic, noimpl, With(Complex), {})
CudaDeviceFloatReturn == Table(NumericPairs, FloatReturn, With({"c32"}), WidePairs, {})
CudaDeviceComparison == Table(NumericPairs, Comparison, With({"c32"}), {}, {})
CudaDeviceBitwise == Table(BitPairs, Bitwise, {}, {}, {})
=============================================================================
