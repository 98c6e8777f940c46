---------------------------- MODULE UnaryKernels -----------------------------
(***************************************************************************)
(* The tables of kernels with one operand, as BinaryKernels has those with *)
(* two: registered rows, positions, wrappers, declarations, definitions.   *)
(* A row is the pair of the operand's and the result's dtype.              *)
(***************************************************************************)
EXTENDS Dtypes

Position(s, x) == CHOOSE i \in DOMAIN s : s[i] = x

\* copy and abs: what an operand can be converted to, in order.
IntegerPartners ==
  [b |-> <<"b">> \o Numeric,
   u8 |-> Unsigned \o <<"i16", "i32", "i64">> \o Reals \o Complexes,
   u16 |-> <<"u16", "u32", "u64", "i32", "i64", "f32", "f64", "c64", "c128">>,
   u32 |-> <<"u32", "u64", "i64", "f64", "c128">>,
   u64 |-> <<"u64">>,
   i8 |-> Signed \o Reals \o Complexes,
   i16 |-> <<"i16", "i32", "i64", "f32", "f64", "c64", "c128">>,
   i32 |-> <<"i32", "i64", "f64", "c128">>,
   i64 |-> <<"i64">>]

FloatPartners ==
  [bf16 |-> <<"bf16", "f32", "f64", "c64", "c128">>,
   f16 |-> <<"f16", "f32", "f64", "c32", "c64", "c128">>,
   f32 |-> <<"f32", "f64", "c64", "c128">>,
   f64 |-> <<"f64", "c128">>,
   c32 |-> <<"c32", "c64", "c128">>,
   c64 |-> <<"c64", "c128">>,
   c128 |-> <<"c128">>]

CopyTypes == <<"b">> \o Numeric
CopyPartners ==
  [t \in ToSet(CopyTypes) |-> IF t \in DOMAIN IntegerPartners THEN IntegerPartners[t] ELSE FloatPartners[t]]
CopyPairs == UNION {{<<t, u>> : u \in ToSet(CopyPartners[t])} : t \in ToSet(CopyTypes)}

\* The other functions have one result for each operand.
InvertRows == [i \in 1..9 |-> <<CopyTypes[i], CopyTypes[i]>>]
NegativeRows ==
  <<<<"u8", "i16">>, <<"u16", "i32">>, <<"u32", "i64">>>>
    \o [i \in 1..11 |-> LET t == (Signed \o Reals \o Complexes)[i] IN <<t, t>>]

HalfRows == <<<<"u8", "f16">>, <<"i8", "f16">>, <<"f16", "f16">>>>
RealRows ==
  <<<<"bf16", "bf16">>, <<"u16", "f32">>, <<"i16", "f32">>, <<"f32", "f32">>,
    <<"u32", "f64">>, <<"i32", "f64">>, <<"f64", "f64">>>>
ComplexRows == <<<<"c32", "c32">>, <<"c64", "c64">>, <<"c128", "c128">>>>
-----------------------------------------------------------------------------
(* The rows that are registered, in order.                                 *)

AsRows(pairs) == [i \in DOMAIN pairs |-> [in |-> <<pairs[i][1]>>, out |-> pairs[i][2]]]

CopyRows(types, Partners) ==
  FlattenSeq([i \in DOMAIN types |-> [j \in DOMAIN Partners[types[i]] |-> <<types[i], Partners[types[i]][j]>>]])

CpuCopyInit == AsRows(CopyRows(CopyTypes, CopyPartners))
CpuInvertInit == AsRows(InvertRows)
CpuNegativeInit == AsRows(NegativeRows)
CpuMathInit == AsRows(HalfRows \o RealRows \o ComplexRows)

CudaCopyInit == AsRows(CopyRows(CopyTypes, CopyPartners))
CudaReduceInit == AsRows(CopyRows(CopyTypes, CopyPartners))
CudaInvertInit == AsRows(InvertRows)
CudaNegativeInit == AsRows(NegativeRows)
CudaMathInit == AsRows(HalfRows \o RealRows \o ComplexRows)
-----------------------------------------------------------------------------
(* Where the type check looks for an operand and a result: the result      *)
(* matters for copy and abs only.                                          *)

CpuCopyStart ==
  [b |-> 0, u8 |-> 96, u16 |-> 180, u32 |-> 234, u64 |-> 264, i8 |-> 270, i16 |-> 336, i32 |-> 378, i64 |-> 402]
CpuCopyStartReal ==
  [bf16 |-> 408, f16 |-> 438, f32 |-> 474, f64 |-> 498, c32 |-> 510, c64 |-> 528, c128 |-> 540]
CudaCopyStart ==
  [b |-> 0, u8 |-> 32, u16 |-> 60, u32 |-> 78, u64 |-> 88, i8 |-> 90, i16 |-> 112, i32 |-> 126, i64 |-> 134]
CudaCopyStartReal ==
  [bf16 |-> 136, f16 |-> 146, f32 |-> 158, f64 |-> 166, c32 |-> 170, c64 |-> 176, c128 |-> 180]

CopyLocation(starts, stride, p) ==
  IF <<p[1], p[2]>> \in CopyPairs
  THEN starts[p[1]] + stride * (Position(CopyPartners[p[1]], p[2]) - 1)
  ELSE -1

CpuCopyLocation(p) == CopyLocation(CpuCopyStart @@ CpuCopyStartReal, 6, p)
CudaCopyLocation(p) == CopyLocation(CudaCopyStart @@ CudaCopyStartReal, 2, p)

InvertOrder == CopyTypes
NegativeOrder == <<"u8", "u16", "u32">> \o Signed \o Reals \o Complexes
MathOrder == <<"u8", "i8", "f16", "bf16", "u16", "i16", "f32", "u32", "i32", "f64">> \o Complexes

At(order, stride, p) == IF p[1] \in ToSet(order) THEN stride * (Position(order, p[1]) - 1) ELSE -1

CpuInvertLocation(p) == At(SubSeq(InvertOrder, 1, 9), 6, p)
CpuNegativeLocation(p) == At(NegativeOrder, 6, p)
CpuMathLocation(p) == At(MathOrder, 6, p)
CudaInvertLocation(p) == At(SubSeq(InvertOrder, 1, 9), 2, p)
CudaNegativeLocation(p) == At(NegativeOrder, 2, p)
CudaMathLocation(p) == At(MathOrder, 2, p)
-----------------------------------------------------------------------------
(* Wrappers and what they call, as in BinaryKernels.                       *)

Touches(pairs, S) == {p \in pairs : p[1] \in S \/ p[2] \in S}
Half == {"f16", "c32"}
Wide == {"c64", "c128"}

Table(pairs, noimpl, implc) ==
  [p \in pairs |-> [out |-> p[2],
                    kind |-> CASE p \in noimpl -> "noimpl" [] p \in implc -> "implc" [] OTHER -> "impl"]]

CpuHostCopy == Table(CopyPairs, Touches(CopyPairs, Half), {})
CpuDeclCopy == Table(CopyPairs, Touches(CopyPairs, Half), {})
CpuDeviceCopy == Table(CopyPairs, Touches(CopyPairs, Half), Touches(CopyPairs, Wide))
MsvcCopy == Table(Touches(CopyPairs, ToSet(Complexes)), Touches(CopyPairs, Half), {})

CudaHostCopy == Table(CopyPairs, Touches(CopyPairs, {"c32"}), {})
CudaDeclCopy == Table(CopyPairs, Touches(CopyPairs, {"c32"}), {})
CudaDeviceCopy == Table(CopyPairs, Touches(CopyPairs, {"c32"}), {})

\* The reductions need an operator of the thrust library.
NoThrust ==
  Touches(CopyPairs, {"bf16"} \union ToSet(Complexes)) \union {p \in CopyPairs : p[1] = "f16" /\ p[2] # "f16"}
CudaHostReduce == Table(CopyPairs, NoThrust, {})
CudaDeclReduce == Table(CopyPairs, NoThrust \ {<<"f32", "c64">>, <<"f32", "c128">>, <<"f64", "c128">>}, {})
CudaDeviceReduce == Table(CopyPairs, NoThrust, {})

CpuHostInvert == Table(ToSet(InvertRows), {}, {})
CpuDeclInvert == Table(ToSet(InvertRows), {}, {})
CpuDeviceInvert == Table(ToSet(InvertRows), {}, {})
CudaHostInvert == Table(ToSet(InvertRows), {}, {})
CudaDeclInvert == Table(ToSet(InvertRows), {}, {})
CudaDeviceInvert == Table(ToSet(InvertRows), {}, {})

Diagonal(S) == {<<t, t>> : t \in S}
CpuHostNegative == Table(ToSet(NegativeRows), Diagonal(Half), {})
CpuDeclNegative == Table(ToSet(NegativeRows), Diagonal(Half), {})
CpuDeviceNegative == Table(ToSet(NegativeRows), Diagonal(Half), Diagonal(Wide))
MsvcNegative == Table(Diagonal(ToSet(Complexes)), Diagonal({"c32"}), {})
CudaHostNegative == Table(ToSet(NegativeRows), Diagonal({"c32"}), {})
CudaDeclNegative == Table(ToSet(NegativeRows), Diagonal({"c32"}), {})
CudaDeviceNegative == Table(ToSet(NegativeRows), Diagonal({"c32"}), {})
-----------------------------------------------------------------------------
(* Mathematical functions: which of them have complex kernels, and, on a   *)
(* CUDA device, kernels for half precision.                                *)

ComplexMath ==
  {"exp", "log", "log10", "sqrt", "sin", "cos", "tan", "asin", "acos", "atan",
   "sinh", "cosh", "tanh", "asinh", "acosh", "atanh"}
RealMath ==
  {"fabs", "exp2", "expm1", "log2", "log1p", "logb", "cbrt", "erf", "erfc", "lgamma", "tgamma",
   "ceil", "floor", "trunc", "round", "nearbyint"}
CudaHalfMath == {"fabs", "exp", "exp2", "log", "log10", "log2", "sqrt", "sin", "cos"}

MathPairs == ToSet(HalfRows) \union ToSet(RealRows) \union ToSet(ComplexRows)
HalfIf(ok) == IF ok THEN ToSet(HalfRows) ELSE {}
ComplexIf(name) == IF name \in ComplexMath THEN ToSet(ComplexRows) ELSE {}
NoComplexMath(name) == IF name \in ComplexMath THEN Diagonal({"c32"}) ELSE ToSet(ComplexRows)

CpuHostMath(name) == Table(MathPairs, ToSet(HalfRows) \union NoComplexMath(name), {})
CpuDeclMath(name) == Table(ToSet(RealRows) \union ComplexIf(name), {}, {})
CpuDeviceMath(name) == Table(ToSet(RealRows) \union ComplexIf(name), Diagonal({"c32"}), Diagonal(Wide))
MsvcMath(name) == Table(ComplexIf(name), Diagonal({"c32"}), {})

CudaHostMath(name) ==
  Table(MathPairs, (ToSet(HalfRows) \ HalfIf(name \in CudaHalfMath)) \union NoComplexMath(name), {})
CudaDeclMath(name) ==
  Table(HalfIf(name \in CudaHalfMath) \union ToSet(RealRows) \union ComplexIf(name), {}, {})
CudaDeviceMath(name) ==
  Table(HalfIf(name \in CudaHalfMath) \union ToSet(RealRows) \union ComplexIf(name), Diagonal({"c32"}), {})
=============================================================================
