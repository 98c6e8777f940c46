------------------------------- MODULE MCViews -------------------------------
EXTENDS Views

\* The dtypes with fewer bits: each has as many more than the one before it as it needs to.
IntFormat(low, high, size) == [kind |-> "int", low |-> 2 * low, high |-> 2 * high, digits |-> 0, top |-> 0, size |-> size]
FloatFormat(kind, digits, top, size) == [kind |-> kind, low |-> 0, high |-> 0, digits |-> digits, top |-> 2 * top, size |-> size]
MCFormat ==
  [u8 |-> IntFormat(0, 3, 1), u16 |-> IntFormat(0, 15, 2), u32 |-> IntFormat(0, 63, 4), u64 |-> IntFormat(0, 511, 8),
   i8 |-> IntFormat(-2, 1, 1), i16 |-> IntFormat(-8, 7, 2), i32 |-> IntFormat(-32, 31, 4), i64 |-> IntFormat(-256, 255, 8),
   bf16 |-> FloatFormat("float", 2, 2048, 2), f16 |-> FloatFormat("float", 3, 16, 2),
   f32 |-> FloatFormat("float", 5, 2048, 4), f64 |-> FloatFormat("float", 7, 8192, 8),
   bc32 |-> FloatFormat("complex", 2, 2048, 4), c32 |-> FloatFormat("complex", 3, 16, 4),
   c64 |-> FloatFormat("complex", 5, 2048, 8), c128 |-> FloatFormat("complex", 7, 8192, 16)]
MCLimit == 2 * 64
MCInf == 100000
MCNaN == 200000

MCParts == {-MCInf, -2 * 256, -2 * 65, -2 * 64, -2 * 33, -2 * 9, -4, -2, -1, 0, 1, 2, 4, 6, 7, 14, 2 * 15, 2 * 16, 2 * 31, 2 * 32 + 1,
            2 * 63, 2 * 64, 2 * 65, 2 * 66, 2 * 255, 2 * 511, 2 * 512, 2 * 2032, 2 * 7000, MCInf, MCNaN}
MCValues(t) ==
  {<<re, im>> \in MCParts \X (IF IsComplex(t) THEN {0, 2, 2 * 33, MCNaN} ELSE {0}) :
     PartOf(t, re) /\ (im # 0 => re \in {0, 2, 2 * 66, MCInf} /\ PartOf(t, im))}

Ints == Leaf("i32")

Arrays == {CArray(<<6>>, Ints), CArray(<<2, 3>>, Ints), FArray(<<2, 3>>, Ints), CArray(<<2, 0>>, Ints),
           CArray(<<0, 2>>, Ints), CArray(<<3, 1>>, Ints), FArray(<<2, 2, 2>>, Ints),
           CArray(<<2, 2>>, Optional(Ints))}

RaggedArrays == {Ragged(<<<<0, 4>>>>, Ints), Ragged(<<<<0, 2>>, <<0, 3, 5>>>>, Ints),
                 Ragged(<<<<0, 3>>, <<0, 2, 2, 4>>>>, Ints), Ragged(<<<<0, 2>>, <<0, 1, 3>>>>, Optional(Ints)),
                 Ragged(<<<<0, 1>>, <<0, 2>>, <<0, 1, 3>>>>, Ints)}

Pair == TupleType(<<ItemType(Leaf("i16")), CArray(<<2>>, Optional(Ints))>>)
Items == {ItemType(Pair), CArray(<<2>>, Pair), CArray(<<2>>, Optional(Pair)),
          Ragged(<<<<0, 2>>>>, Pair), ItemType(ConstrOf(CArray(<<3>>, Ints)))}

MCPrimaryTypes == Arrays \union RaggedArrays \union Items \union {ItemType(Leaf(t)) : t \in DOMAIN MCFormat}

\* Foreign buffers: with steps of every kind, lists of every length, and fields at an alignment.
MCBufferTypes ==
  {ndt_fixed_dim(ItemType(Ints), n, s) : n \in 0 .. 3, s \in -2 .. 2}
  \union {ndt_fixed_dim(ndt_fixed_dim(ItemType(Ints), m, t), n, s) : m \in 1 .. 2, n \in {0, 2}, s \in {-2, -1, 2}, t \in {-1, 1}}
  \union {Ragged(<<<<0, n>>>>, Ints) : n \in 0 .. 3}
  \union {Ragged(<<<<0, 2>>, <<0, m, n>>>>, Ints) : m \in 0 .. 2, n \in 2 .. 4}
  \union {Ragged(<<<<0, 2>>, <<0, 1, 2>>>>, Optional(Ints))}
  \union {ItemType(TupleType(<<ItemType(Leaf("i16")), ndt_fixed_dim(ItemType(Ints), 2, s)>>)) : s \in -1 .. 2}
  \union {ItemType(ConstrOf(ItemType(Ints)))}
MCBufferSizes == {0, 8, 16}

Cut(start, stop, step) == Slice(Unpack(start, stop, step))
AllSlices == {Cut(a, b, s) : a \in {<<>>, <<-7>>, <<-2>>, <<8>>}, b \in {<<>>, <<-8>>, <<-1>>, <<1>>}, s \in {<<>>, <<2>>, <<-1>>, <<-2>>}}
FewSlices == {Cut(<<1>>, <<>>, <<>>), Cut(<<>>, <<>>, <<-1>>), Cut(<<2>>, <<1>>, <<>>)}
Indices == {Index(i) : i \in {-7, -2, -1, 0, 1, 3}}
FewIndices == {Index(i) : i \in {-1, 0, 1}}

Keys(t, n) ==
  CASE n = 0 /\ NDim(t) = 1 -> AllSlices \union Indices
    [] n = 0 /\ NDim(t) = 2 -> FewSlices \union {Index(-1), Index(1)}
    [] OTHER -> {Cut(<<>>, <<>>, <<-1>>), Cut(<<1>>, <<>>, <<>>), Index(-1)}

Fields == {FieldName(0), FieldName(1), Index(-1)}

MCSubscripts(t, n) ==
  LET K == Keys(t, n)
      Rows == UNION {[1 .. k -> K] : k \in 1 .. IF NDim(t) < 3 THEN NDim(t) ELSE 3}
      Into == IF t.dt.k = "leaf" THEN {}
              ELSE {r \o <<f>> : r \in [1 .. NDim(t) -> FewIndices], f \in Fields}
                   \union {r \o <<f, i>> : r \in [1 .. NDim(t) -> {Index(0), Index(-1)}], f \in Fields, i \in {Index(0), Index(2)}}
  IN  Rows \union Into

MCAssignments(t) ==
  IF t.dims = <<>> THEN {}
  ELSE LET K == {<<Cut(<<1>>, <<>>, <<>>)>>, <<Cut(<<>>, <<-1>>, <<>>)>>, <<Cut(<<>>, <<>>, <<-1>>)>>, <<Index(-1)>>}
       IN  {[to |-> a, from |-> b] : a \in K, b \in K}

\* Single numbers are copied to every dtype, and compared to numbers of every dtype; arrays are
\* copied to a wider and to a narrower dtype.
MCCopyTypes(t, n) ==
  CASE t.dt.k = "leaf" /\ t.dims = <<>> /\ n = 0 -> {Leaf(u) : u \in DOMAIN MCFormat}
    [] t.dt.k = "leaf" /\ t.dims # <<>> /\ n = 1 -> {Leaf("f64"), Leaf("i8"), Optional(Leaf("bf16"))}
    [] OTHER -> {}
MCComparands(t, n) == IF n = 0 THEN DOMAIN MCFormat ELSE {}

MCShapes == {<<6>>, <<3, 2>>, <<2, 1, 3>>, <<2, 2>>, <<0, 2>>, <<1>>, <<>>}
=============================================================================
