------------------------------ MODULE ViewOps ------------------------------
(***************************************************************************)
(* What libxnd does with a view of a memory block: walking down its type   *)
(* and its bitmaps, indexing and slicing it, changing its shape, checking  *)
(* it against the size of a foreign buffer, and reading its value.  A view *)
(* is a record with the bitmap it has come to (bm, a path in the tree of   *)
(* bitmaps), a linear index (idx), a type and an address (ptr).            *)
(***************************************************************************)
EXTENDS ArrayTypes

Error == [error |-> TRUE]
View(bm, idx, type, ptr) == [bm |-> bm, idx |-> idx, type |-> type, ptr |-> ptr]

\* A whole block: the nth one of the program, far from the others.
Apart == 1000
Block_OneBitmap(t, n) == View(<<0>>, 0, t, n * Apart)
Block(t, n) == View(<<n>>, 0, t, n * Apart)

\* Keys of a subscript.
Index(i) == [tag |-> "Index", i |-> i]
Slice(s) == [tag |-> "Slice", s |-> s]
FieldName(i) == [tag |-> "FieldName", i |-> i]

Outer(x) == x.type.dims[1]
IsArray(x) == x.type.dims # <<>>

-----------------------------------------------------------------------------
\* One dimension down: the address of an item is known when no dimension is left.
Descend(x, idx) ==
  LET u == Inner(x.type)
  IN  View(x.bm, idx, u, IF u.dims = <<>> THEN x.ptr + idx * datasize(u) ELSE x.ptr)

xnd_fixed_dim_next(x, i) == Descend(x, x.idx + i * Outer(x).step)
xnd_var_dim_next(x, r, i) == Descend(x, r.start + i * r.step)

\* One item down, into field i (from 0).  Each item has bitmaps of its own for its fields.
NoBitmap == <<-1>>
xnd_bitmap_next(x, i) ==
  IF OptionalInside(x.type.dt) THEN Append(x.bm, x.idx * Len(x.type.dt.types) + i) ELSE NoBitmap
xnd_tuple_next(x, i) ==
  View(xnd_bitmap_next(x, i), 0, x.type.dt.types[i + 1], x.ptr + x.type.dt.offset[i + 1])

\* The list of a ragged dimension that x stands for; Error if there is none.
List(x, Indices(_, _, _)) ==
  IF HasList(Outer(x).off, x.idx) THEN Indices(Outer(x).sl, Outer(x).off, x.idx) ELSE Error
VarList(x) == List(x, ndt_var_indices)

\* x for an index that could not be found.
InList(x, r, i) == IF i = NoIndex THEN Error ELSE xnd_var_dim_next(x, r, i)
StoredIndex(x, r) == IF r = Error THEN NoIndex ELSE adjust_index(Outer(x).idx, r.shape)
Stored(x, r) == InList(x, r, StoredIndex(x, r))
apply_stored_index(x) == Stored(x, VarList(x))

RECURSIVE apply_stored_indices(_)
apply_stored_indices(x) ==
  IF x = Error \/ ~IsArray(x) \/ Outer(x).k # "elem" THEN x ELSE apply_stored_indices(apply_stored_index(x))

-----------------------------------------------------------------------------
\* What x consists of: the elements of a dimension, the fields of a tuple, what a constructor holds.
Kind(x) == IF IsArray(x) THEN Outer(x).k ELSE x.type.dt.k
Missing(x) == Kind(x) = "var" /\ VarList(x) = Error
Length(x) ==
  CASE Kind(x) = "fixed" -> Outer(x).n
    [] Kind(x) = "var" -> VarList(x).shape
    [] OTHER -> Len(x.type.dt.types)
Part(x, i) ==
  CASE Kind(x) = "fixed" -> xnd_fixed_dim_next(x, i)
    [] Kind(x) = "var" -> xnd_var_dim_next(x, VarList(x), i)
    [] OTHER -> xnd_tuple_next(x, i)

get_index(key, shape) == IF key.tag = "Index" THEN adjust_index(key.i, shape) ELSE NoIndex
get_index_record(key, shape) == IF key.tag = "FieldName" THEN key.i ELSE get_index(key, shape)
PartIndex(x, key) == IF Kind(x) = "tuple" THEN get_index_record(key, Length(x)) ELSE get_index(key, Length(x))

\* Down to a single element or a part of an item; the type of the result is part of the type of x.
RECURSIVE xnd_subtree(_, _), Below(_, _)
xnd_subtree(x, keys) == Below(apply_stored_indices(x), keys)
Below(x, keys) ==
  LET Step(i, rest) == IF i = NoIndex THEN Error ELSE xnd_subtree(Part(x, i), rest)
  IN  CASE x = Error \/ keys = <<>> -> x
        [] x # Error /\ keys # <<>> /\ (Kind(x) = "leaf" \/ Missing(x)) -> Error
        [] OTHER -> IF Kind(x) = "constr" THEN Step(0, keys) ELSE Step(PartIndex(x, keys[1]), Tail(keys))

\* A view with a type of its own.  A row of keys is applied to the dimensions one by one.
RECURSIVE xnd_multikey(_, _)

\* A slice of a fixed dimension moves the index and multiplies the step.
SliceFixed(x, keys) ==
  LET d == Outer(x)
      a == SliceAdjust(d.n, keys[1].s)
      sliced == xnd_multikey(xnd_fixed_dim_next(x, a.start), Tail(keys))
  IN  IF sliced = Error THEN Error
      ELSE [x EXCEPT !.type = ndt_fixed_dim(sliced.type, a.shape, d.step * a.step), !.idx = sliced.idx]

\* A slice of a ragged dimension is only noted: the length of each list is known when it is read.
ndt_var_add_slice(d, s) == Append(d.sl, s)
SliceVar(x, keys) ==
  LET d == Outer(x)
      next == xnd_multikey([x EXCEPT !.type = Inner(@)], Tail(keys))
  IN  IF next = Error THEN Error
      ELSE [x EXCEPT !.type = ndt_var_dim(next.type, d.off, ndt_var_add_slice(d, keys[1].s)), !.idx = next.idx]

\* An index into a ragged dimension below or above a slice is only noted, too.
StoreIndex(x, i, rest) ==
  LET tail == xnd_multikey(xnd_var_dim_next(x, Whole(0), 0), rest)
  IN  IF tail = Error THEN Error
      ELSE [x EXCEPT !.type = ndt_convert_to_var_elem(Outer(x), tail.type, i)]

xnd_index(x, keys) ==
  CASE Outer(x).k = "fixed" ->
         LET i == get_index(keys[1], Outer(x).n)
         IN  IF i = NoIndex THEN Error ELSE xnd_multikey(xnd_fixed_dim_next(x, i), Tail(keys))
    [] Outer(x).k = "elem" -> StoreIndex(x, Outer(x).idx, keys)
    [] OTHER -> StoreIndex(x, keys[1].i, Tail(keys))

xnd_slice(x, keys) ==
  CASE Outer(x).k = "fixed" -> SliceFixed(x, keys)
    [] Outer(x).k = "var" -> SliceVar(x, keys)
    [] OTHER -> StoreIndex(x, Outer(x).idx, keys)

xnd_multikey(x, keys) ==
  CASE Len(keys) > ndt_logical_ndim(x.type) -> Error
    [] keys = <<>> -> x
    [] keys # <<>> /\ keys[1].tag = "Index" -> xnd_index(x, keys)
    [] keys # <<>> /\ keys[1].tag = "Slice" -> xnd_slice(x, keys)
    [] OTHER -> Error

\* The indices that were noted must exist in every list that a slice leaves.
RECURSIVE validate_indices(_)
validate_indices(x) ==
  CASE ~IsArray(x) \/ Outer(x).k = "fixed" -> TRUE
    [] IsArray(x) /\ Outer(x).k = "var" ->
         LET r == List(x, ndt_var_indices_non_empty)
         IN  r # Error /\ \A i \in 0 .. r.shape - 1 : validate_indices(xnd_var_dim_next(x, r, i))
    [] OTHER -> LET y == apply_stored_index(x) IN y # Error /\ validate_indices(y)

Has(keys, tag) == \E i \in DOMAIN keys : keys[i].tag = tag

xnd_subscript(x, keys) ==
  IF Has(keys, "Slice")
  THEN LET res == xnd_multikey(x, keys)
       IN  IF res # Error /\ Has(keys, "Index") /\ ~validate_indices(res) THEN Error ELSE res
  ELSE xnd_subtree(x, keys)

-----------------------------------------------------------------------------
ndt_transpose_Inverse(t, p) ==
  FoldRight(LAMBDA i, u : LET d == t.dims[CHOOSE j \in DOMAIN p : p[j] = i] IN ndt_fixed_dim(u, d.n, d.step),
            [i \in DOMAIN p |-> i], ItemType(t.dt))

\* Dimensions of the same array in another order; a permutation of their numbers.
ndt_transpose(t, p) ==
  FoldRight(LAMBDA i, u : ndt_fixed_dim(u, t.dims[i].n, t.dims[i].step), p, ItemType(t.dt))

\* Steps of an array with these extents that is laid out from step on, in either order.
Layout(shape, step, order) ==
  [i \in DOMAIN shape |->
     step * (IF order = "F" THEN Product(SubSeq(shape, 1, i - 1)) ELSE Product(SubSeq(shape, i + 1, Len(shape))))]

\* The fewest leading extents of each shape, at least one, that hold as many elements.
RECURSIVE Balance(_, _, _, _)
Balance(new, old, nj, oj) ==
  LET np == Product(SubSeq(new, 1, nj))
      op == Product(SubSeq(old, 1, oj))
  IN  IF np = op THEN [new |-> nj, old |-> oj]
      ELSE IF np < op THEN Balance(new, old, nj + 1, oj) ELSE Balance(new, old, nj, oj + 1)

\* Old dimensions that hold their elements as one dimension would.
Combine(dims, order) ==
  \A i \in 1 .. Len(dims) - 1 :
    IF order = "F" THEN dims[i + 1].step = dims[i].n * dims[i].step
    ELSE dims[i].step = dims[i + 1].n * dims[i + 1].step

\* The new steps, group by group; <<>> in place of a sequence of steps if a group cannot be combined.
RECURSIVE Regroup(_, _, _, _)
Regroup(new, dims, order, last) ==
  IF new = <<>> \/ dims = <<>> THEN <<[i \in DOMAIN new |-> last]>>
  ELSE LET b == Balance(new, [i \in DOMAIN dims |-> dims[i].n], 1, 1)
           group == SubSeq(dims, 1, b.old)
           extents == SubSeq(new, 1, b.new)
           steps == Layout(extents, (IF order = "F" THEN group[1] ELSE Last0(group)).step, order)
           unit == Last0(steps) * (IF order = "F" THEN Last0(extents) ELSE 1)
           rest == Regroup(SubSeq(new, b.new + 1, Len(new)), SubSeq(dims, b.old + 1, Len(dims)), order, unit)
       IN  IF ~Combine(group, order) \/ rest = <<>> THEN <<>> ELSE <<steps \o rest[1]>>

xnd_nocopy_reshape(shape, dims, order) ==
  Regroup(shape, SelectSeq(dims, LAMBDA d : d.n # 1), order, 1)

\* The steps of the reshaped array, or <<>> if the elements would have to be moved.
NewSteps(t, shape, order) ==
  CASE shape = Extents(t) -> <<Steps(t)>>
    [] shape # Extents(t) /\ 0 \in {shape[i] : i \in DOMAIN shape} -> <<[i \in DOMAIN shape |-> 0]>>
    [] OTHER -> IF (order = "F" /\ ndt_is_f_contiguous(t)) \/ (order # "F" /\ ndt_is_c_contiguous(t))
                THEN <<Layout(shape, 1, order)>>
                ELSE xnd_nocopy_reshape(shape, t.dims, order)

xnd_reshape(x, shape, order) ==
  LET o == IF order = "A" THEN (IF ndt_is_f_contiguous(x.type) THEN "F" ELSE "C") ELSE order
  IN  IF ~FixedOnly(x.type) THEN Error
      ELSE IF Product(shape) # Product(Extents(x.type)) THEN Error
      ELSE LET steps == NewSteps(x.type, shape, o)
           IN  IF steps = <<>> THEN Error
               ELSE [x EXCEPT !.type = FoldRight(LAMBDA i, u : ndt_fixed_dim(u, shape[i], steps[1][i]),
                                                 [i \in DOMAIN shape |-> i], ItemType(x.type.dt))]

-----------------------------------------------------------------------------
\* A type for a copy of the elements, one after the other.  For ragged arrays the lists that x
\* reaches at each level are counted; dimensions with a stored index, or of which no list is
\* reached, disappear.
Parts(x) == IF Outer(x).k = "elem" THEN <<apply_stored_index(x)>> ELSE [i \in 1 .. Length(x) |-> Part(x, i - 1)]

RECURSIVE Reach(_, _)
Reach(x, level) ==                    \* lengths of the lists at this level below x, in order
  CASE ~IsArray(x) -> <<>>
    [] IsArray(x) /\ level = 1 -> <<Len(Parts(x))>>
    [] OTHER -> LET parts == Parts(x) IN FlattenSeq([i \in DOMAIN parts |-> Reach(parts[i], level - 1)])

Sums(s) == [i \in 1 .. Len(s) + 1 |-> FoldLeft(LAMBDA a, b : a + b, 0, SubSeq(s, 1, i - 1))]

var_copy_contiguous(x, dt) ==
  LET kept == SelectSeq([i \in DOMAIN x.type.dims |-> i],
                        LAMBDA i : x.type.dims[i].k # "elem" /\ Reach(x, i) # <<>>)
  IN  Ragged([i \in DOMAIN kept |-> Sums(Reach(x, kept[i]))], dt)

ndt_copy_contiguous(x, dt) ==
  IF FixedOnly(x.type) THEN CArray(Extents(x.type), dt) ELSE var_copy_contiguous(x, dt)

-----------------------------------------------------------------------------
Inside_Upper(ptr, size, bufsize) == ptr + size <= bufsize
Inside(ptr, size, bufsize) == ptr >= 0 /\ ptr + size <= bufsize

\* Does every item lie in the first bufsize bytes?  Only the first and the last part are looked at.
\* The addresses are numbers of any size here: the code computes them with 64 bits and refuses a type
\* for which one of the sums overflows.
RECURSIVE xnd_bounds_check(_, _)
xnd_bounds_check(x, bufsize) ==
  LET Ends(n) == (n > 0 => xnd_bounds_check(Part(x, 0), bufsize)) /\ (n > 1 => xnd_bounds_check(Part(x, n - 1), bufsize))
  IN  CASE ndt_subtree_is_optional(x.type) \/ Kind(x) = "elem" -> FALSE
        [] ~ndt_subtree_is_optional(x.type) /\ Kind(x) = "leaf" -> Inside(x.ptr, x.type.dt.size, bufsize)
        [] OTHER -> ~Missing(x) /\ Ends(Length(x))

-----------------------------------------------------------------------------
\* The bits that are allocated for nitems of type t: pairs of a bitmap and a position in it.
RECURSIVE bitmap_init(_, _, _)
bitmap_init(t, nitems, path) ==
  LET shape == Len(t.dt.types)
      n == CASE t.dims = <<>> -> nitems
             [] t.dims # <<>> /\ t.dims[1].k = "fixed" -> nitems * Product(Extents(t))
             [] OTHER -> Last0(Last0(t.dims).off)
      own == IF t.dt.opt THEN {<<path, i>> : i \in 0 .. n - 1} ELSE {}
  IN  own \union IF ~OptionalInside(t.dt) THEN {}
                 ELSE UNION {bitmap_init(t.dt.types[(i % shape) + 1], 1, Append(path, i)) : i \in 0 .. n * shape - 1}

-----------------------------------------------------------------------------
\* The value of x as Python shows it, and its elements in order.  mem maps the address of
\* each number that is stored to its value, bits each validity bit to TRUE or FALSE.
Node(k, v) == [k |-> k, v |-> v]
NA == Node("na", 0)
Wild == Node("wild", 0)       \* not an address or a bit of the block

RECURSIVE Value(_, _, _), Held(_, _, _)
Value(x, mem, bits) == Held(apply_stored_indices(x), mem, bits)
Held(x, mem, bits) ==
  CASE x = Error -> Wild
    [] x # Error /\ ~IsArray(x) /\ x.type.dt.opt /\ <<x.bm, x.idx>> \notin DOMAIN bits -> Wild
    [] x # Error /\ ~IsArray(x) /\ x.type.dt.opt /\ <<x.bm, x.idx>> \in DOMAIN bits /\ ~bits[<<x.bm, x.idx>>] -> NA
    [] OTHER ->
       CASE Kind(x) = "leaf" -> IF x.ptr \in DOMAIN mem THEN Node("leaf", mem[x.ptr]) ELSE Wild
         [] Kind(x) = "constr" -> Value(Part(x, 0), mem, bits)
         [] Missing(x) -> Wild
         [] OTHER -> Node(IF IsArray(x) THEN "list" ELSE "tuple",
                          [i \in 1 .. Length(x) |-> Value(Part(x, i - 1), mem, bits)])

\* The places of the numbers in x and their bits, in the order of Value; an optional tuple is one place.
Place(x, ptr, size) == [ptr |-> ptr, size |-> size, bit |-> <<x.bm, x.idx>>, opt |-> x.type.dt.opt]

RECURSIVE Places(_), PlacesIn(_)
Places(x) == PlacesIn(apply_stored_indices(x))
PlacesIn(x) ==
  IF Kind(x) = "leaf" THEN <<Place(x, x.ptr, x.type.dt.size)>>
  ELSE (IF ~IsArray(x) /\ x.type.dt.opt THEN <<Place(x, -1, 0)>> ELSE <<>>)
       \o FlattenSeq([i \in 1 .. Length(x) |-> Places(Part(x, i - 1))])

\* Copying x to y, one number after the other, in the memory m (a record of mem and bits).
\* A failure leaves what has been copied before it.
IsNA(v, m) == ndt_is_optional(v.type) /\ ~m.bits[<<v.bm, v.idx>>]
SetValid_NeverSet(v, m, valid) ==
  IF ndt_is_optional(v.type) /\ ~valid THEN [m EXCEPT !.bits[<<v.bm, v.idx>>] = FALSE] ELSE m
SetValid(v, m, valid) == IF ndt_is_optional(v.type) THEN [m EXCEPT !.bits[<<v.bm, v.idx>>] = valid] ELSE m
Failed(m) == [m EXCEPT !.ok = FALSE]

CopyNumber(y, m, n) == IF n = None THEN Failed(m) ELSE [m EXCEPT !.mem[y.ptr] = n]

RECURSIVE xnd_copy(_, _, _), CopyValid(_, _, _)
xnd_copy(y0, x0, m) ==
  LET Copy(y, x) == IF ~IsNA(x, m) THEN CopyValid(y, x, SetValid(y, m, TRUE))
                    ELSE IF ndt_is_optional(y.type) THEN SetValid(y, m, FALSE) ELSE Failed(m)
  IN  Copy(apply_stored_indices(y0), apply_stored_indices(x0))
CopyValid(y, x, m) ==
  LET CopyPart(n, i) == IF n.ok THEN xnd_copy(Part(y, i - 1), Part(x, i - 1), n) ELSE n
  IN  CASE Kind(x) # Kind(y) -> Failed(m)
        [] Kind(x) = Kind(y) /\ Kind(x) = "leaf" ->
             CopyNumber(y, m, copy_number(x.type.dt.num, y.type.dt.num, m.mem[x.ptr]))
        [] OTHER -> IF Length(x) = Length(y) THEN FoldLeft(CopyPart, m, [i \in 1 .. Length(x) |-> i]) ELSE Failed(m)

-----------------------------------------------------------------------------
\* Comparing: part by part, as far as the types agree; a missing element is not equal to anything.
EqualParts(x, y, Eq(_, _)) ==
  Kind(x) = Kind(y) /\ Length(x) = Length(y) /\ \A i \in 0 .. Length(x) - 1 : Eq(Part(x, i), Part(y, i))

RECURSIVE xnd_equal(_, _, _, _)
xnd_equal(x0, y0, m, wraps) ==
  LET Eq(x, y) ==
        /\ ~IsNA(x, m) /\ ~IsNA(y, m)
        /\ IF Kind(x) = "leaf" /\ Kind(y) = "leaf"
           THEN equal_number(x.type.dt.num, m.mem[x.ptr], y.type.dt.num, m.mem[y.ptr], wraps)
           ELSE EqualParts(x, y, LAMBDA v, w : xnd_equal(v, w, m, wraps))
  IN  Eq(apply_stored_indices(x0), apply_stored_indices(y0))

\* The same with equal dtypes; stored indices are looked at only together.
RECURSIVE xnd_strict_equal(_, _, _)
xnd_strict_equal(x, y, m) ==
  LET BothFound(v, w) == v # Error /\ w # Error /\ xnd_strict_equal(v, w, m)
  IN  CASE Kind(x) # Kind(y) \/ IsNA(x, m) \/ IsNA(y, m) -> FALSE
        [] Kind(x) = Kind(y) /\ Kind(x) = "elem" -> BothFound(apply_stored_index(x), apply_stored_index(y))
        [] OTHER -> IF Kind(x) = "leaf"
                    THEN strict_equal_number(x.type.dt.num, m.mem[x.ptr], y.type.dt.num, m.mem[y.ptr])
                    ELSE EqualParts(x, y, LAMBDA v, w : xnd_strict_equal(v, w, m))
=============================================================================
