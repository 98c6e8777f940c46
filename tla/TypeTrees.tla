----------------------------- MODULE TypeTrees -----------------------------
(***************************************************************************)
(* Types as trees, concrete ones and patterns with symbols.  All nodes     *)
(* have the same fields, of which each kind of node uses a few, so that    *)
(* types are equal if their trees are: sizes, alignments and the flags of  *)
(* subtrees follow from the tree.  Fixed-size strings and bytes, chars,    *)
(* categorical types, unions, nominal types, functions and modules are     *)
(* left out, and so are ragged and flexible arrays of tuples.               *)
(***************************************************************************)
EXTENDS Integers, SequencesExt

Lists == INSTANCE SliceArith WITH Far <- 99

NoStep == 99    \* INT64_MAX: choose the step

Node(tag) ==
  [tag |-> tag, opt |-> FALSE, name |-> "", n |-> 0, step |-> 0, require |-> "NA",
   off |-> <<>>, sl |-> <<>>, names |-> <<>>, types |-> <<>>]

\* A missing value is allowed.
Opt(t) == [t EXCEPT !.opt = TRUE]
Below(t) == t.types[1]
On(tag, t) == [Node(tag) EXCEPT !.types = <<t>>]

SymbolicDim(name, t) == [On("SymbolicDim", t) EXCEPT !.name = name]
EllipsisDim(name, t) == [On("EllipsisDim", t) EXCEPT !.name = name]
Typevar(name) == [Node("Typevar") EXCEPT !.name = name]
ndt_array(t) == On("Array", t)
ndt_ref(t) == On("Ref", t)
ndt_constr(name, t) == [On("Constr", t) EXCEPT !.name = name]
ndt_tuple(types) == [Node("Tuple") EXCEPT !.types = types]
ndt_record(names, types) == [Node("Record") EXCEPT !.names = names, !.types = types]
ndt_abstract_var_dim(t) == On("VarDim", t)
Var(t, off, sl) == [On("VarDim", t) EXCEPT !.off = off, !.sl = sl]
VarElem(t, off, sl, index) == [Var(t, off, sl) EXCEPT !.tag = "VarDimElem", !.n = index]

\* A pattern for arrays in C ("C") or in Fortran order ("F").
Require(t, order) == [t EXCEPT !.require = order]
-----------------------------------------------------------------------------
SignedTags == {"Int8", "Int16", "Int32", "Int64"}
UnsignedTags == {"Uint8", "Uint16", "Uint32", "Uint64"}
FloatTags == {"BFloat16", "Float16", "Float32", "Float64"}
ComplexTags == {"BComplex32", "Complex32", "Complex64", "Complex128"}
NumberTags == {"Bool"} \union SignedTags \union UnsignedTags \union FloatTags \union ComplexTags
ScalarTags == NumberTags \union {"String", "Bytes"}
KindTags == {"AnyKind", "ScalarKind", "SignedKind", "UnsignedKind", "FloatKind", "ComplexKind"}
VarTags == {"VarDim", "VarDimElem"}
DimTags == {"FixedDim", "SymbolicDim", "EllipsisDim", "Array"} \union VarTags

\* The tags that each kind of type stands for.
OfKind(kind) ==
  CASE kind = "SignedKind" -> SignedTags
    [] kind = "UnsignedKind" -> UnsignedTags
    [] kind = "FloatKind" -> FloatTags
    [] kind = "ComplexKind" -> ComplexTags
    [] kind = "ScalarKind" -> ScalarTags

IsAbstractNode(t) ==
  \/ t.tag \in KindTags \union {"SymbolicDim", "EllipsisDim", "Typevar"}
  \/ t.tag = "VarDim" /\ t.off = <<>>
  \/ t.require # "NA"

RECURSIVE ndt_is_concrete(_), DimsOf(_), DtypeOf(_)
ndt_is_concrete(t) == ~IsAbstractNode(t) /\ \A i \in DOMAIN t.types : ndt_is_concrete(t.types[i])
DimsOf(t) == IF t.tag \in DimTags THEN <<t>> \o DimsOf(Below(t)) ELSE <<>>
DtypeOf(t) == IF t.tag \in DimTags THEN DtypeOf(Below(t)) ELSE t

Ndim(t) == Len(DimsOf(t))
ndt_logical_ndim(t) == Len(SelectSeq(DimsOf(t), LAMBDA d : d.tag # "VarDimElem"))

\* What is left of a type below its first k dimensions.
Beneath(t, k) == IF k = 0 THEN t ELSE Below(DimsOf(t)[k])

\* fixed_datasize(): the items from the first to the last one.
RECURSIVE DataItems(_)
DataItems(t) ==
  IF t.tag # "FixedDim" THEN 1
  ELSE IF t.n = 0 \/ DataItems(Below(t)) = 0 THEN 0
  ELSE (t.n - 1) * (IF t.step < 0 THEN -t.step ELSE t.step) + DataItems(Below(t))

\* The dimension of a concrete type that is given no step follows the one below.
ndt_fixed_dim(t, n, step) ==
  [On("FixedDim", t) EXCEPT !.n = n,
     !.step = IF ~ndt_is_concrete(t) THEN NoStep ELSE IF step = NoStep THEN DataItems(t) ELSE step]
Fixed(n, t) == ndt_fixed_dim(t, n, NoStep)

\* Dimensions that have more than one element follow each other, in this order.
InOrder(dims) ==
  \A i \in DOMAIN dims :
    dims[i].n > 1 => dims[i].step = FoldLeft(LAMBDA p, d : p * d.n, 1, SubSeq(dims, i + 1, Len(dims)))
IsNdarray(t) == \A i \in DOMAIN DimsOf(t) : DimsOf(t)[i].tag = "FixedDim"
ndt_is_c_contiguous(t) == ndt_is_concrete(t) /\ IsNdarray(t) /\ InOrder(DimsOf(t))
ndt_is_f_contiguous(t) == ndt_is_concrete(t) /\ IsNdarray(t) /\ InOrder(Reverse(DimsOf(t)))

HasOrder(t, require) ==
  /\ require = "C" => ndt_is_c_contiguous(t)
  /\ require = "F" => ndt_is_f_contiguous(t)

\* _ndt_to_fortran().
RECURSIVE AsFortran(_, _)
AsFortran(t, step) ==
  IF t.tag # "FixedDim" THEN t ELSE ndt_fixed_dim(AsFortran(Below(t), step * t.n), t.n, step)

\* Bytes of an item below the dimensions of a type, for the types that occur here.
Bytes(tag) ==
  CASE tag \in {"Bool", "Int8", "Uint8"} -> 1
    [] tag \in {"Int16", "Uint16", "BFloat16", "Float16"} -> 2
    [] tag \in {"Int32", "Uint32", "Float32", "BComplex32", "Complex32"} -> 4
    [] tag \in {"Complex128", "Bytes", "Array"} -> 16
    [] OTHER -> 8

\* What an array stores for the size of its items.  A flexible one has none while it is abstract.
ItemBytes(t) ==
  IF t.tag \in VarTags THEN Bytes(DtypeOf(t).tag)
  ELSE IF Below(t).tag = "Array" \/ ndt_is_concrete(Below(t)) THEN Bytes(Below(t).tag) ELSE 0

\* The offsets of lists that follow each other.
OffsetsOf(lengths) ==
  [k \in 1 .. Len(lengths) + 1 |-> FoldLeft(LAMBDA sum, n : sum + n, 0, SubSeq(lengths, 1, k - 1))]
-----------------------------------------------------------------------------
(* Results of functions that may fail: <<>> or <<the result>>.             *)

Fail == <<>>
Then(r, Op(_)) == IF r = Fail THEN Fail ELSE Op(r[1])

\* The results of several functions, if none of them fails.
AllOf(results) ==
  IF \E i \in DOMAIN results : results[i] = Fail THEN Fail ELSE <<[i \in DOMAIN results |-> results[i][1]]>>
=============================================================================
