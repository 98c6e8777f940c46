------------------------------- MODULE Views -------------------------------
(***************************************************************************)
(* A program that makes views of the array in a memory block: it indexes,  *)
(* slices, reshapes and transposes what it has, copies or serializes it    *)
(* into a block of its own, and assigns one part of the array to another.  *)
(* The block is created for a type, or it is the memory of a foreign       *)
(* buffer that is accessed with a type if the bounds check accepts that.   *)
(***************************************************************************)
EXTENDS ViewOps, TLC

CONSTANTS
  PrimaryTypes,       \* types of new containers
  BufferTypes,        \* types that foreign buffers are accessed with
  BufferSizes,        \* and the sizes of these buffers
  Subscripts(_, _),   \* keys that the program uses on a type, in its nth step
  Assignments(_),     \* pairs of keys: what is assigned to, and what is assigned
  Shapes,             \* shapes that it asks for
  Values(_),          \* numbers of a dtype that it works with
  CopyTypes(_, _),    \* dtypes that arrays are copied to, in its nth step
  Comparands(_, _),   \* and dtypes of numbers that a number is compared to
  MaxSteps,           \* bound: operations on one block
  ReshapesScalars     \* does it reshape to or from an array without dimensions?

VARIABLES x, mem, bits, last, steps
vars == <<x, mem, bits, last, steps>>

ValueOf(v) == Value(v, mem, bits)

\* The numbers in size bytes of memory that v reaches, each with its place among them as its
\* value; a single number has any value.
NumbersAt(places, size) ==
  LET In(i) == places[i].ptr >= 0 /\ places[i].ptr + places[i].size <= size
      ptrs == {places[i].ptr : i \in {j \in DOMAIN places : In(j)}}
  IN  [a \in ptrs |-> Real(2 * CHOOSE i \in DOMAIN places : places[i].ptr = a)]
Numbers(v, size) ==
  IF Kind(v) = "leaf" THEN [{a \in {v.ptr} : a + v.type.dt.size <= size} -> Values(v.type.dt.num)]
  ELSE {NumbersAt(Places(v), size)}

\* A new container: its numbers and a bit for each optional item, one of which may be NA.
New ==
  \E t \in {u \in PrimaryTypes : is_primary_type(u)} : \E m \in Numbers(Block(t, 0), datasize(t)) :
    LET v == Block(t, 0)
        own == bitmap_init(t, 1, v.bm)
    IN  /\ x = v
        /\ mem = m
        /\ \E b \in {[p \in own |-> p # na] : na \in own \union {<<>>}} :
             bits = b /\ last = [op |-> "new", ok |-> TRUE, value |-> Value(v, m, b)]
        /\ steps = 0

\* from_buffer_and_type(): the caller gives a type for the memory.
FromBufferAndType ==
  \E t \in BufferTypes, size \in BufferSizes : \E m \in Numbers(Block(t, 0), size) :
    LET v == Block(t, 0)
        ok == xnd_bounds_check(v, size)
    IN  /\ x = v
        /\ mem = m
        /\ bits = <<>>
        /\ last = [op |-> "buffer", ok |-> ok, value |-> Value(v, m, <<>>)]
        /\ steps = IF ok THEN 0 ELSE MaxSteps

Init == New \/ FromBufferAndType

\* The result takes the place of x; last keeps the value of what the operation was given.
\* Bound: nothing follows an operation that has changed nothing, as it could have followed before.
Done(op, result) ==
  /\ steps < MaxSteps
  /\ steps' = IF result \in {Error, x} THEN MaxSteps ELSE steps + 1
  /\ last' = op @@ [ok |-> result # Error, value |-> ValueOf(x)]
  /\ x' = IF result = Error THEN x ELSE result

Subscript ==
  /\ \E keys \in Subscripts(x.type, steps) :
       Done([op |-> "subscript", keys |-> keys], xnd_subscript(x, keys))
  /\ UNCHANGED <<mem, bits>>

Reshape ==
  /\ \E shape \in Shapes, order \in {"C", "F", "A"} :
       /\ (x.type.dims = <<>>) # (shape = <<>>) => ReshapesScalars
       /\ Done([op |-> "reshape", shape |-> shape,
                order |-> IF order = "A" /\ ndt_is_f_contiguous(x.type) THEN "F" ELSE order],
               xnd_reshape(x, shape, order))
  /\ UNCHANGED <<mem, bits>>

Transpose ==
  /\ FixedOnly(x.type) /\ NDim(x.type) >= 2
  /\ \E p \in {q \in [DOMAIN x.type.dims -> DOMAIN x.type.dims] : \A i \in DOMAIN q : \E j \in DOMAIN q : q[j] = i} :
       Done([op |-> "transpose", p |-> p], [x EXCEPT !.type = ndt_transpose(@, p)])
  /\ UNCHANGED <<mem, bits>>

\* A block of its own for a copy of the elements that x reaches, of the same or another dtype,
\* zeroed before they are copied.
PtrsIn(places) == {places[i].ptr : i \in DOMAIN places}
PtrsOf(v) == PtrsIn(Places(v))
Zeros(v) == [a \in PtrsOf(v) |-> Real(0)]
Unset(v) == [b \in bitmap_init(v.type, 1, v.bm) |-> FALSE]
CopyOf(y, empty, unset) == xnd_copy(y, x, [mem |-> mem @@ empty, bits |-> bits @@ unset, ok |-> TRUE])

Replace(op, y, empty, unset, copied) ==
  /\ Done(op, IF copied.ok THEN y ELSE Error)
  /\ mem' = IF copied.ok THEN Restrict(copied.mem, DOMAIN empty) ELSE mem
  /\ bits' = IF copied.ok THEN Restrict(copied.bits, DOMAIN unset) ELSE bits

CopyTo(op, y, empty, unset) == Replace(op, y, empty, unset, CopyOf(y, empty, unset))
CopyContiguous == \E dt \in {x.type.dt} \union CopyTypes(x.type, steps) :
  LET op == [op |-> "copy", dt |-> dt, from |-> x.type]
  IN  \E y \in {Block(ndt_copy_contiguous(x, dt), steps + 1)} : CopyTo(op, y, Zeros(y), Unset(y))

\* The numbers in size bytes of memory that start at ptr.
MemoryAt(ptr, size) == [a \in {b \in DOMAIN mem : b \in ptr .. ptr + size - 1} |-> mem[a]]

\* Where the elements of a contiguous array start.
Start == IF IsArray(x) THEN x.ptr + x.idx * x.type.dt.size ELSE x.ptr

Contiguous == ndt_is_c_contiguous(x.type) \/ ndt_is_f_contiguous(x.type) \/ ndt_is_var_contiguous(x.type)
HasBitmap(t) == ndt_is_optional(t) \/ ndt_subtree_is_optional(t)

\* serialize(), and deserialize() of the result: bytes and type go into a block of their own.
Serialize ==
  LET ok == Contiguous /\ ~HasBitmap(x.type)
      y == Block(x.type, steps + 1)
      bytes == MemoryAt(Start, datasize(x.type))
  IN  /\ Done([op |-> "serialize", dt |-> x.type.dt], IF ok THEN y ELSE Error)
      /\ mem' = IF ok THEN [a \in {b - Start + y.ptr : b \in DOMAIN bytes} |-> bytes[a - y.ptr + Start]] ELSE mem
      /\ UNCHANGED bits

\* tobytes(): the numbers in the order of memory, after a copy if they are not contiguous there.
ByAddress(m) == [i \in 1 .. Cardinality(DOMAIN m) |->
                   m[CHOOSE a \in DOMAIN m : Cardinality({b \in DOMAIN m : b < a}) = i - 1]]

CopiedMemory(y, empty) == Restrict(CopyOf(y, empty, <<>>).mem, DOMAIN empty)
ToBytes ==
  LET Copied(y) == CopiedMemory(y, Zeros(y))
      memory == IF Contiguous THEN MemoryAt(Start, datasize(x.type))
                ELSE Copied(Block(ndt_copy_contiguous(x, x.type.dt), steps + 1))
  IN  /\ FixedOnly(x.type) /\ ~HasBitmap(x.type)
      /\ Done([op |-> "tobytes", f |-> ndt_is_f_contiguous(x.type) /\ ~ndt_is_c_contiguous(x.type),
               bytes |-> ByAddress(memory)],
              x)
      /\ UNCHANGED <<mem, bits>>

\* x[to] = x[from]: a copy inside the block, which keeps what was done if it fails.
AssignTo(to, from, copied) ==
  /\ steps < MaxSteps
  /\ steps' = steps + 1
  /\ last' = [op |-> "assign", ok |-> copied.ok, value |-> ValueOf(from), old |-> mem, to |-> to, from |-> from]
  /\ mem' = copied.mem
  /\ bits' = copied.bits
  /\ UNCHANGED x

\* Pairs of parts of x.
Pairs == {p \in {[to |-> xnd_subscript(x, a.to), from |-> xnd_subscript(x, a.from)] : a \in Assignments(x.type)} :
            p.to # Error /\ p.from # Error}
Assign == \E p \in Pairs : AssignTo(p.to, p.from, xnd_copy(p.to, p.from, [mem |-> mem, bits |-> bits, ok |-> TRUE]))

\* x[to] == x[from] and x[to].strict_equal(x[from]), or a number and one of another array.
Compare(v, w, m) ==
  \E wraps \in BOOLEAN :
    /\ steps < MaxSteps
    /\ steps' = MaxSteps
    /\ last' = [op |-> "compare", ok |-> TRUE, value |-> Value(v, m.mem, m.bits), other |-> Value(w, m.mem, m.bits),
                types |-> <<v.type, w.type>>, equal |-> xnd_equal(v, w, m, wraps), strict |-> xnd_strict_equal(v, w, m)]
    /\ UNCHANGED <<x, mem, bits>>

CompareParts == \E p \in Pairs : Compare(p.to, p.from, [mem |-> mem, bits |-> bits])

CompareNumbers ==
  /\ x.type.dims = <<>> /\ x.type.dt.k = "leaf" /\ ~x.type.dt.opt
  /\ \E t \in Comparands(x.type, steps) : \E n \in Values(t) :
       LET y == Block(ItemType(Leaf(t)), steps + 1)
       IN  Compare(x, y, [mem |-> mem @@ (y.ptr :> n), bits |-> bits])

Next == \/ Subscript \/ Reshape \/ Transpose \/ CopyContiguous \/ Serialize \/ ToBytes \/ Assign
        \/ CompareParts \/ CompareNumbers

Spec == Init /\ [][Next]_vars

-----------------------------------------------------------------------------
\* Python's view of the same operations, on nested lists.
Unknown == Node("unknown", 0)
Refused == Node("refused", 0)

\* Keys applied to a value; what is inside of NA is not known.
RECURSIVE PyGet(_, _)
PyGet(v, keys) ==
  LET At(i) == IF i \in -Len(v.v) .. Len(v.v) - 1 THEN PyGet(v.v[(i % Len(v.v)) + 1], Tail(keys)) ELSE Refused
  IN  CASE keys = <<>> -> v
        [] keys # <<>> /\ v.k = "na" -> Unknown
        [] keys # <<>> /\ v.k = "tuple" /\ keys[1].tag = "FieldName" -> At(keys[1].i)
        [] keys # <<>> /\ v.k \in {"list", "tuple"} /\ keys[1].tag = "Index" ->
             At(keys[1].i)
        [] keys # <<>> /\ v.k = "list" /\ keys[1].tag = "Slice" ->
             LET visited == Visited(Len(v.v), keys[1].s)
                 rows == [i \in DOMAIN visited |-> PyGet(v.v[visited[i] + 1], Tail(keys))]
             IN  IF \E i \in DOMAIN rows : rows[i] \in {Refused, Unknown} THEN rows[CHOOSE i \in DOMAIN rows : rows[i] \in {Refused, Unknown}]
                 ELSE Node("list", rows)
        [] OTHER -> Refused

RECURSIVE HasKind(_, _)
HasKind(v, kinds) ==
  v.k \in kinds \/ (v.k \in {"list", "tuple"} /\ \E i \in DOMAIN v.v : HasKind(v.v[i], kinds))

\* A list without elements: what an index below it would have to be checked against is not there.
RECURSIVE HasEmpty(_)
HasEmpty(v) == v.k = "list" /\ (v.v = <<>> \/ \E i \in DOMAIN v.v : HasEmpty(v.v[i]))

RECURSIVE FlatC(_)
FlatC(v) == IF v.k # "list" THEN <<v>> ELSE FlattenSeq([i \in DOMAIN v.v |-> FlatC(v.v[i])])

RECURSIVE FlatF(_)
FlatF(v) ==
  IF v.k # "list" THEN <<v>>
  ELSE LET rows == [i \in DOMAIN v.v |-> FlatF(v.v[i])]
           n == Len(rows)
       IN  IF n = 0 THEN <<>> ELSE [k \in 1 .. n * Len(rows[1]) |-> rows[((k - 1) % n) + 1][((k - 1) \div n) + 1]]

RECURSIVE ShapeOf(_)
ShapeOf(v) == IF v.k # "list" THEN <<>> ELSE <<Len(v.v)>> \o (IF v.v = <<>> THEN <<>> ELSE ShapeOf(v.v[1]))

RECURSIVE ValueAt(_, _)
ValueAt(v, i) == IF i = <<>> THEN v ELSE ValueAt(v.v[i[1]], Tail(i))

-----------------------------------------------------------------------------
\* The variables keep their types; the lists of a ragged dimension start at its first element,
\* and the bitmap and the address of a view are those of the same block.
TypeOK ==
  /\ \A i \in DOMAIN x.type.dims : x.type.dims[i].k \in {"fixed", "var", "elem"}
  /\ \A i \in 1 .. NDim(x.type) - 1 :        \* fixed and ragged dimensions are never mixed
       x.type.dims[i].k = "fixed" <=> x.type.dims[i + 1].k = "fixed"
  /\ \A i \in DOMAIN x.type.dims : x.type.dims[i].k # "fixed" => x.type.dims[i].off[1] = 0
  /\ last.ok /\ x.bm # NoBitmap => x.bm[1] = x.ptr \div Apart
  /\ DOMAIN mem \subseteq Int
  /\ \A b \in DOMAIN bits : bits[b] \in BOOLEAN
  /\ steps \in 0 .. MaxSteps

\* Every element of every view of a container is one of the container's numbers, and its
\* validity bit is allocated, however often it has been indexed, sliced and reshaped.
InBlock == last.ok => ~HasKind(ValueOf(x), {"wild"}) \/ HasKind(last.value, {"wild"})

\* x[keys] has the elements that Python gives for the same keys on the nested list, also
\* after other views and on ragged arrays where indices are stored; it is refused only if
\* Python refuses it or an index is below an empty list.
SubscriptAsPython ==
  last.op = "subscript" =>
    LET py == PyGet(last.value, last.keys)
    IN  \/ py = Unknown
        \/ last.ok /\ ValueOf(x) = py
        \/ ~last.ok /\ (py = Refused \/ HasEmpty(py) \/ HasEmpty(last.value))

\* A reshaped array has the elements in the same order, C or Fortran, in the new shape.
ReshapeKeepsOrder ==
  last.op = "reshape" /\ last.ok /\ x.type.dt.k # "constr" =>
    LET Flat(v) == IF last.order = "F" THEN FlatF(v) ELSE FlatC(v)
    IN  /\ Flat(ValueOf(x)) = Flat(last.value)
        /\ 0 \notin {last.shape[i] : i \in DOMAIN last.shape} => ShapeOf(ValueOf(x)) = last.shape

\* Element i of the transposed array is the element with the permuted index.
TransposeKeepsElements ==
  last.op = "transpose" =>
    LET v == ValueOf(x)
        n == Extents(x.type)
    IN  \A i \in {f \in [DOMAIN n -> 1 .. 4] : \A d \in DOMAIN n : f[d] <= n[d]} :
          ValueAt(v, i) = ValueAt(last.value, [d \in DOMAIN n |-> i[CHOOSE e \in DOMAIN n : last.p[e] = d]])

\* A contiguous copy and a serialized array have the same value.  In another dtype each number is
\* the same one, whatever its size, if that is an integer or has the digits of a double. In the
\* dtypes with fewer digits xnd_copy() stores the nearest number that they have, against the claim
\* of CastsExact.
RECURSIVE Arrived(_, _, _)
Arrived(v, w, t) ==
  CASE v.k = "list" -> w.k = "list" /\ Len(v.v) = Len(w.v) /\ \A i \in DOMAIN v.v : Arrived(v.v[i], w.v[i], t)
    [] v.k = "leaf" /\ t # "none" ->
         w.k = "leaf" /\ (IF IsInt(t) \/ t \in {"f64", "c128"} THEN v.v = w.v ELSE NearestNumber(t, v.v, w.v))
    [] OTHER -> v = w
CopyKeepsValue == last.op \in {"copy", "serialize"} /\ last.ok => Arrived(last.value, ValueOf(x), last.dt.num)

\* xnd_copy() has exact casts: an array that could be copied to another dtype has the same numbers
\* there.  This is what the heading of copy.c says; a copy to a dtype with fewer digits than doubles
\* succeeds and rounds.
CastsExact == last.op = "copy" /\ last.ok => Arrived(last.value, ValueOf(x), "none")

\* Numbers that are copied to another dtype are refused only if there is one that this does not
\* have, or that has no neighbours among the doubles or the integers.
CopyRefusedForCause ==
  last.op = "copy" /\ ~last.ok /\ last.dt.k = "leaf" /\ last.from.dt.k = "leaf" /\ FixedOnly(last.from) =>
    LET flat == FlatC(last.value)
    IN  \E i \in DOMAIN flat :
          IF flat[i].k = "na" THEN ~last.dt.opt
          ELSE ~NumberOf(last.dt.num, flat[i].v) \/ Beyond(last.from.dt.num, flat[i].v, last.dt.num, flat[i].v)

\* What is equal: the same numbers at the same places of dimensions of the same kind.
RECURSIVE SameValue(_, _)
SameValue(v, w) ==
  /\ v.k = w.k /\ v.k # "na"
  /\ IF v.k = "leaf" THEN SameNumber(v.v, w.v)
     ELSE Len(v.v) = Len(w.v) /\ \A i \in DOMAIN v.v : SameValue(v.v[i], w.v[i])

\* Arrays are equal exactly if they have the same value, in whatever dtype and however they lie in
\* memory; only large integers are not equal to any double.
EqualIfSame ==
  last.op = "compare" /\ SameValue(last.value, last.other) =>
    \/ last.equal
    \/ last.value.k = "leaf" /\ Beyond(last.types[1].dt.num, last.value.v, last.types[2].dt.num, last.other.v)
EqualityExact == last.op = "compare" /\ last.equal => SameValue(last.value, last.other)

\* A complex number is compared to a number without sign by its real part.
ComplexUint(t, u) == t.num # "none" /\ IsComplex(t.num) /\ u.num = "u64"
StrictlyEqual ==
  last.op = "compare" =>
    /\ last.strict => SameValue(last.value, last.other) /\ last.equal
    /\ last.equal /\ last.types[1] = last.types[2] => last.strict

\* tobytes() gives the elements in C order, of an array in Fortran order in that.
BytesInOrder ==
  last.op = "tobytes" =>
    LET flat == IF last.f THEN FlatF(last.value) ELSE FlatC(last.value)
    IN  (\A i \in DOMAIN flat : flat[i].k = "leaf") => last.bytes = [i \in DOMAIN flat |-> flat[i].v]

\* An assignment changes nothing outside of its target, also if it fails half way; if the
\* source is not part of the target, the target has its value afterwards.
AssignKeepsRest ==
  last.op = "assign" =>
    /\ \A a \in DOMAIN mem \ PtrsOf(last.to) : mem[a] = last.old[a]
    /\ last.ok /\ PtrsOf(last.to) \intersect PtrsOf(last.from) = {} => ValueOf(last.to) = last.value

\* Where the bounds check does not look: between the ends, if these have no elements.
LooksAway(t) ==
  \/ t.dt.k = "tuple" /\ Len(t.dt.types) > 2
  \/ \E i \in DOMAIN t.dims : t.dims[i].k = "var" /\ \E j \in 1 .. Len(t.dims[i].off) - 1 : t.dims[i].off[j] = t.dims[i].off[j + 1]

\* The bounds check accepts a type for a buffer exactly if all elements are inside of it.
BoundsExact ==
  last.op = "buffer" /\ ~LooksAway(x.type) => (last.ok <=> ~HasKind(last.value, {"wild"}))

\* Another shape or order of the dimensions is another way to number the same elements.
LayoutKeepsElements == ReshapeKeepsOrder /\ TransposeKeepsElements

\* Elements arrive in their places when they are copied: to a new block, to bytes, inside a block.
\* Of numbers in another dtype it says that the copy is the number or, where it is not exact, its
\* neighbour.
CopiesArrive == CopyKeepsValue /\ CopyRefusedForCause /\ BytesInOrder /\ AssignKeepsRest

\* Comparing agrees with the values.
ComparedByValue ==
  /\ EqualIfSame /\ StrictlyEqual
  /\ last.op = "compare" /\ ~ComplexUint(last.types[1].dt, last.types[2].dt) => EqualityExact
=============================================================================
