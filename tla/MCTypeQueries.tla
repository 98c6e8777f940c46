---------------------------- MODULE MCTypeQueries ----------------------------
(* Questions about types: signatures with arguments, pairs of types and Python values. *)
EXTENDS TypeQueries

I64 == Node("Int64")
I32 == Node("Int32")
F64 == Node("Float64")
AnyType == Node("AnyKind")
Text == Node("String")

Slice(start, stop, step) == [start |-> start, stop |-> stop, step |-> step]
Reversed == Slice(98, -99, -1)
FromSecond == Slice(1, 99, 1)

\* One list of three lists: of two, of one and of no items.
Nested(item, off, sl, slBelow) == Var(Var(item, <<0, 2, 3, 3>>, slBelow), off, sl)
Indexed(index) == VarElem(Below(Nested(I64, <<0, 3>>, <<>>, <<>>)), <<0, 3>>, <<>>, index)
-----------------------------------------------------------------------------
(* Arguments. *)

Items == {I64, F64, Opt(I64), I32, Text}

Arrays ==
  {Fixed(n, t) : n \in {1, 2}, t \in {I64, F64}} \union {Fixed(n, Fixed(m, I64)) : n, m \in {1, 2}} \union
  {Fixed(2, Fixed(3, I64)), AsFortran(Fixed(2, Fixed(3, I64)), 1), Fixed(3, Fixed(2, I64)), Fixed(0, Fixed(2, I64)),
   ndt_fixed_dim(I64, 2, -1), ndt_fixed_dim(Fixed(2, I64), 2, -2), Fixed(2, Fixed(1, Fixed(2, I64))), Fixed(2, Opt(I64))}

\* With slices, with stored indices and with lists that share their items.
Raggeds ==
  {Var(t, <<0, 2>>, <<>>) : t \in {I64, F64, I32}} \union {Var(I64, <<0, 3>>, sl) : sl \in {<<>>, <<FromSecond>>}} \union
  {Nested(I64, <<0, 3>>, sl, <<>>) : sl \in {<<>>, <<Reversed>>}} \union
  {Nested(I64, <<0, 3>>, <<>>, <<FromSecond>>), Nested(I64, <<0, 3>>, <<FromSecond>>, <<Reversed>>),
   Nested(F64, <<0, 3>>, <<>>, <<>>), Nested(I64, <<0, 0>>, <<>>, <<>>), Var(I64, <<0, 0>>, <<>>),
   Var(Var(I64, <<0, 0, 1, 3>>, <<>>), <<0, 3>>, <<>>),
   Indexed(0), Indexed(-2), Var(VarElem(I64, <<0, 2, 3, 4>>, <<>>, 0), <<0, 3>>, <<>>),
   Var(VarElem(I64, <<0, 2, 3, 4>>, <<Reversed>>, -1), <<0, 3>>, <<FromSecond>>)}

Others ==
  {ndt_array(I64), ndt_array(ndt_array(I64)), ndt_array(F64), ndt_array(I32), ndt_ref(I64), ndt_ref(Fixed(2, I64)),
   ndt_tuple(<<I64, I64>>), ndt_tuple(<<I64, Fixed(2, I64)>>), ndt_tuple(<<Fixed(2, I64), Fixed(3, I64)>>),
   ndt_record(<<"a", "b">>, <<I64, Fixed(2, I64)>>), ndt_record(<<"a", "c">>, <<I64, Fixed(2, I64)>>),
   ndt_constr("C", I64)}

Passed == Items \union Arrays \union Raggeds \union Others
-----------------------------------------------------------------------------
(* Signatures. *)

T == Typevar("T")
N(t) == SymbolicDim("N", t)
M(t) == SymbolicDim("M", t)
Dots(t) == EllipsisDim("D", t)
VarDots(t) == EllipsisDim("var", t)
ArrayDots(t) == EllipsisDim("array", t)

\* Two inputs and a result.
Patterns == {
  <<N(T), N(T), N(T)>>, <<N(M(T)), M(N(T)), N(N(T))>>, <<T, T, T>>, <<T, N(T), T>>, <<Fixed(2, T), N(T), Fixed(2, N(T))>>,
  <<Dots(T), Dots(T), Dots(F64)>>, <<Dots(N(T)), Dots(M(T)), Dots(N(M(T)))>>,
  <<Require(Dots(I64), "F"), Dots(I64), Require(Dots(I64), "F")>>, <<Dots(I64), Require(Dots(I64), "C"), Dots(ndt_tuple(<<I64>>))>>,
  <<Require(N(M(T)), "C"), N(M(T)), N(M(T))>>, <<Require(N(M(T)), "F"), N(M(T)), M(N(T))>>,
  <<VarDots(I64), VarDots(I64), VarDots(F64)>>, <<VarDots(I64), VarDots(F64), VarDots(I64)>>, <<VarDots(T), VarDots(T), VarDots(T)>>,
  <<ndt_abstract_var_dim(T), T, T>>, <<ArrayDots(I64), ArrayDots(I64), ArrayDots(F64)>>, <<ndt_array(T), T, T>>,
  <<AnyType, Node("ScalarKind"), I64>>, <<Node("SignedKind"), Node("FloatKind"), I64>>, <<Opt(T), Opt(T), Opt(I64)>>,
  <<ndt_tuple(<<T, N(T)>>), N(T), T>>, <<ndt_tuple(<<N(T), M(T)>>), N(T), M(T)>>,
  <<ndt_record(<<"a", "b">>, <<T, N(T)>>), T, N(T)>>, <<ndt_ref(T), T, T>>, <<ndt_ref(N(T)), N(T), ndt_ref(N(T))>>,
  <<ndt_constr("C", I64), I64, ndt_constr("C", I64)>>}

Function(nin, patterns, cons, n, args, li) ==
  [sig |-> [nin |-> nin, types |-> patterns], cons |-> cons, n |-> n, args |-> args, li |-> li]

\* Ragged patterns are for arguments that have dimensions.
Suitable(patterns) == IF patterns[1].name = "var" THEN {t \in Passed : Ndim(t) > 0} ELSE Passed

\* Lists of a ragged array, as an index leaves them behind.
Sublists == {Var(I64, <<0, 2, 3, 3>>, sl) : sl \in {<<>>, <<FromSecond>>, <<Reversed>>}}

\* The constraint of pdist: as many distances as there are pairs of points.
Pdist ==
  [in |-> <<"N", "M">>, out |-> "P",
   f |-> [s \in (0..3) \X (0..3) |-> IF s[1] = 0 \/ s[2] = 0 THEN Fail ELSE <<(s[1] * (s[1] - 1)) \div 2>>]]

MCSignatures ==
  {Function(2, p, <<>>, 2, Suitable(p), {0}) : p \in Patterns} \union
  {Function(2, p, <<>>, 3, Arrays, {0}) :
     p \in {<<Dots(I64), Dots(I64), Require(Dots(F64), "C")>>, <<N(T), N(T), M(T)>>}} \union
  {Function(2, <<VarDots(T), VarDots(T), VarDots(F64)>>, <<>>, 2, Sublists, 0..2)} \union
  {Function(1, <<N(M(T)), SymbolicDim("P", T)>>, <<Pdist>>, n, Arrays, {0}) : n \in {1, 2}}
-----------------------------------------------------------------------------
(* Pairs of types. *)

MCPool ==
  {Node(tag) : tag \in NumberTags} \union {Text, Node("Bytes"), AnyType, Opt(AnyType), Opt(I64), Opt(F64), Opt(Text)} \union
  {Fixed(n, t) : n \in {1, 2}, t \in {I64, I32, F64, Opt(I32), AnyType}} \union
  {Fixed(2, Fixed(2, I64)), AsFortran(Fixed(2, Fixed(2, I64)), 1), Opt(Fixed(2, I64))} \union
  {Var(I64, <<0, 2>>, <<>>), Opt(Var(I64, <<0, 2>>, <<>>)), Var(I32, <<0, 2>>, <<>>), Var(I64, <<0, 3>>, <<>>),
   Var(I64, <<0, 3>>, <<FromSecond>>), VarElem(I64, <<0, 3>>, <<>>, 0)} \union
  {ndt_array(t) : t \in {I64, I32, F64, AnyType}} \union {ndt_ref(I64), ndt_ref(I32)} \union
  {ndt_constr("C", I64), ndt_constr("C", I32), ndt_constr("D", I32)} \union
  {ndt_tuple(<<>>), ndt_tuple(<<I64>>), ndt_tuple(<<I32, Opt(I64)>>), ndt_tuple(<<Opt(I64), I32>>),
   ndt_tuple(<<Opt(AnyType), I32>>), ndt_tuple(<<Fixed(2, I64), F64>>)} \union
  {ndt_record(<<"a">>, <<t>>) : t \in {I64, I32, Opt(AnyType)}} \union {ndt_record(<<"b">>, <<I64>>)}
-----------------------------------------------------------------------------
(* Python values. *)

PyInt == Value("int", <<>>, <<>>)
PyFloat == Value("float", <<>>, <<>>)
PyStr == Value("str", <<>>, <<>>)
PySet == Value("set", <<>>, <<>>)
PyList(items) == Value("list", items, <<>>)
PyTuple(items) == Value("tuple", items, <<>>)
PyDict(keys, items) == Value("dict", items, keys)

\* Lists and tuples of at most n of the values.
ListsOf(values, n) == {PyList(s) : s \in BoundedSeq(values, n)}
TuplesOf(values, n) == {PyTuple(s) : s \in BoundedSeq(values, n)}

Atoms == {PyNone, PyInt, PyFloat}
Flat == ListsOf(Atoms, 2)
Tables == ListsOf({PyNone, PyInt} \union ListsOf({PyNone, PyInt}, 2), 3)
Cubes == ListsOf({PyNone} \union ListsOf({PyNone} \union ListsOf({PyInt}, 2), 2), 2)
InList(v) == PyList(<<v>>)
Deep == {InList(InList(InList(v))) : v \in {PyNone, InList(PyInt), PyList(<<>>)}} \union {InList(InList(PyList(<<PyList(<<>>), PyNone>>)))}

Pairs == TuplesOf({PyNone, PyInt, PyStr}, 2)
Dicts ==
  {PyDict(<<"a">>, <<x>>) : x \in Atoms} \union {PyDict(<<"a", "b">>, <<x, y>>) : x, y \in Atoms} \union {PyDict(<<"b">>, <<PyInt>>)}
PairLists ==
  ListsOf(Pairs, 2) \union {PyList(s) : s \in [1..3 -> TuplesOf({PyNone, PyInt, PyStr}, 1)]} \union
  {PyList(s) : s \in {<<PyNone, x, y>> : x, y \in Pairs} \union {<<x, y, PyNone>> : x, y \in Pairs}}

\* Values in fields: lists of lists, tuples and what is no value of a type.
Fields ==
  Flat \union {PyNone, PyList(<<PySet>>), PyTuple(<<PyNone>>), PyTuple(<<PyTuple(<<PyInt>>)>>)} \union
  {PyList(s) : s \in {<<InList(PyInt)>>, <<PyTuple(<<PyInt>>)>>, <<PyTuple(<<PyNone>>)>>, <<PyTuple(<<PyNone>>), PyTuple(<<PyInt>>)>>}} \union
  {PyList(<<PyList(<<PyInt, PyInt>>), InList(PyInt)>>), PyList(<<InList(PyInt), PyList(<<PyInt, PyInt>>)>>)}
FieldLists ==
  {PyList(<<PyTuple(<<x>>), PyTuple(<<y>>)>>) : x, y \in Fields} \union
  {PyList(<<InList(PyTuple(<<x>>)), PyList(<<PyTuple(<<y>>), PyTuple(<<z>>)>>)>>) : x, y, z \in Atoms}

MCValues ==
  Atoms \union {PyStr, PySet, PyTuple(<<PySet>>), PyList(<<PySet>>)} \union Flat \union Pairs \union Dicts \union Tables \union Cubes
  \union Deep \union PairLists \union ListsOf(Dicts, 2) \union FieldLists

MCItemTypes == {Node("Int8")}
=============================================================================
