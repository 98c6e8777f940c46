----------------------------- MODULE ArrayTypes -----------------------------
(***************************************************************************)
(* Concrete types of arrays: a sequence of dimensions, outermost first,    *)
(* and the type of the items below them.  A fixed dimension has an extent  *)
(* and a step in items, a ragged one ("var") the offsets of its lists and  *)
(* the slices that have been taken; "elem" is a ragged dimension together  *)
(* with the index that is to be applied to each of its lists.  Items are   *)
(* numbers, tuples (records are tuples) or a type in a constructor.        *)
(***************************************************************************)
EXTENDS SliceArith, Numbers

NoStep == Far    \* INT64_MAX: choose the step

Last0(s) == s[Len(s)]

\* Sizes of items in bytes; the parts of a type in one record for all kinds.
Item(k, size, align, types, offset) ==
  [k |-> k, size |-> size, align |-> align, types |-> types, offset |-> offset, opt |-> FALSE, num |-> "none"]
Leaf(t) ==
  LET bytes == Format[t].size
  IN  [Item("leaf", bytes, IF IsComplex(t) THEN bytes \div 2 ELSE bytes, <<>>, <<>>) EXCEPT !.num = t]
Optional(dt) == [dt EXCEPT !.opt = TRUE]

ItemType(dt) == [dims |-> <<>>, dt |-> dt]
NDim(t) == Len(t.dims)
Inner(t) == [t EXCEPT !.dims = Tail(@)]
Around(d, t) == [t EXCEPT !.dims = <<d>> \o @]

DimSize(d, inner, itemsize) ==
  IF d.k # "fixed" THEN Last0(d.off) * itemsize
  ELSE IF d.n = 0 \/ inner = 0 THEN 0 ELSE (d.n - 1) * (IF d.step < 0 THEN -d.step ELSE d.step) * itemsize + inner

\* Bytes from the first to the last item; a ragged type counts the innermost lists.
datasize(t) ==
  IF t.dims # <<>> /\ Last0(t.dims).k # "fixed" THEN DimSize(Last0(t.dims), t.dt.size, t.dt.size)
  ELSE FoldRight(LAMBDA d, inner : DimSize(d, inner, t.dt.size), t.dims, t.dt.size)

\* A dimension around t; without a step the array is laid out in C order.
ndt_fixed_dim(t, n, step) ==
  LET natural == IF t.dims = <<>> THEN 1
                 ELSE IF t.dt.size = 0 THEN t.dims[1].n * t.dims[1].step
                 ELSE datasize(t) \div t.dt.size
  IN  Around([k |-> "fixed", n |-> n, step |-> IF step = NoStep THEN natural ELSE step], t)

CArray(shape, dt) == FoldRight(LAMBDA n, t : ndt_fixed_dim(t, n, NoStep), shape, ItemType(dt))

\* The same in Fortran order: the steps grow from the outermost dimension.
FArray(shape, dt) ==
  LET StepAt(i) == FoldLeft(LAMBDA p, n : p * n, 1, SubSeq(shape, 1, i - 1))
  IN  FoldRight(LAMBDA i, t : ndt_fixed_dim(t, shape[i], StepAt(i)), [i \in DOMAIN shape |-> i], ItemType(dt))

\* The offsets of each ragged dimension must address the lists of the next one.
OffsetsFit(off, t) == Len(off) >= 2 /\ (t.dims # <<>> => Last0(off) = Len(t.dims[1].off) - 1)
ndt_var_dim(t, off, sl) == Around([k |-> "var", off |-> off, sl |-> sl], t)
ndt_convert_to_var_elem(d, t, i) == Around([k |-> "elem", off |-> d.off, sl |-> d.sl, idx |-> i], t)
Ragged(offsets, dt) == FoldRight(LAMBDA off, t : ndt_var_dim(t, off, <<>>), offsets, ItemType(dt))

AlignOf(t) == t.dt.align
round_up(n, align) == ((n + align - 1) \div align) * align

\* Fields one after the other, each at its alignment, and room for the next tuple in an array.
TupleType(types) ==
  LET Place(at, t) == [offset |-> Append(at.offset, round_up(at.end, AlignOf(t))),
                       end |-> round_up(at.end, AlignOf(t)) + datasize(t),
                       align |-> IF AlignOf(t) > at.align THEN AlignOf(t) ELSE at.align]
      all == FoldLeft(Place, [offset |-> <<>>, end |-> 0, align |-> 1], types)
  IN  Item("tuple", round_up(all.end, all.align), all.align, types, all.offset)

ConstrOf(t) == Item("constr", datasize(t), AlignOf(t), <<t>>, <<0>>)

-----------------------------------------------------------------------------
FixedOnly(t) == \A i \in DOMAIN t.dims : t.dims[i].k = "fixed"
Extents(t) == [i \in DOMAIN t.dims |-> t.dims[i].n]
Steps(t) == [i \in DOMAIN t.dims |-> t.dims[i].step]
Product(s) == FoldLeft(LAMBDA p, n : p * n, 1, s)

\* Dimensions of one element may have any step.
ndt_is_c_contiguous(t) ==
  FixedOnly(t) /\ \A i \in DOMAIN t.dims :
                    t.dims[i].n > 1 => t.dims[i].step = Product(SubSeq(Extents(t), i + 1, NDim(t)))
ndt_is_f_contiguous(t) ==
  FixedOnly(t) /\ \A i \in DOMAIN t.dims :
                    t.dims[i].n > 1 => t.dims[i].step = Product(SubSeq(Extents(t), 1, i - 1))
ndt_is_var_contiguous(t) ==
  \A i \in DOMAIN t.dims :
    /\ t.dims[i].k = "var" /\ t.dims[i].sl = <<>>
    /\ Len(t.dims[i].off) = IF i = 1 THEN 2 ELSE Last0(t.dims[i - 1].off) + 1

\* Dimensions without those that have an index stored.
ndt_logical_ndim(t) == Cardinality({i \in DOMAIN t.dims : t.dims[i].k # "elem"})
ndt_is_optional(t) == t.dims = <<>> /\ t.dt.opt

\* Some part of t below its outermost node is optional.  Types are nested at most twice here.
OptionalInside(dt) ==
  \E i \in DOMAIN dt.types : \/ dt.types[i].dt.opt
                             \/ \E j \in DOMAIN dt.types[i].dt.types : dt.types[i].dt.types[j].dt.opt
ndt_subtree_is_optional(t) == OptionalInside(t.dt) \/ (t.dims # <<>> /\ t.dt.opt)

is_primary_type(t) ==
  \/ t.dims = <<>>
  \/ t.dims[1].k = "fixed" /\ (ndt_is_c_contiguous(t) \/ ndt_is_f_contiguous(t))
  \/ t.dims[1].k # "fixed" /\ ndt_is_var_contiguous(t)
=============================================================================
