--------------------------- MODULE TypeInference ---------------------------
(***************************************************************************)
(* The type that xnd infers for a Python value.  A value is a record of    *)
(* its kind and, for containers, of its items and its keys; numbers and    *)
(* texts themselves do not matter.                                         *)
(***************************************************************************)
EXTENDS Unification

CONSTANT NDT_MAX_DIM    \* how deep lists may be nested

Value(kind, items, keys) == [kind |-> kind, items |-> items, keys |-> keys]
PyNone == Value("None", <<>>, <<>>)
ListKind(v) == IF v.kind \in {"None", "list"} THEN v.kind ELSE "data"

NoList == -1    \* the length that is noted for a missing list

\* search(): the data in the order of the lists, the lengths of the lists at each level and the
\* least and the greatest depth at which data were found.
RECURSIVE search(_, _, _)
search(level, v, s) ==
  LET found == {ListKind(v.items[i]) : i \in DOMAIN v.items}
      seen == [s EXCEPT !.acc[level + 1] = Append(@, Len(v.items)), !.most = IF level >= @ THEN level + 1 ELSE @]
      Add(r, item) ==
        Then(r, LAMBDA q : IF item = PyNone THEN <<[q EXCEPT !.acc[level + 2] = Append(@, NoList)]>>
                           ELSE search(level + 1, item, q))
  IN  CASE v.kind # "list" -> <<[s EXCEPT !.data = Append(@, v), !.least = IF level < @ THEN level ELSE @]>>
        [] v.kind = "list" /\ level >= NDT_MAX_DIM -> Fail
        [] v.kind = "list" /\ level < NDT_MAX_DIM /\ "list" \notin found ->
             <<[seen EXCEPT !.data = @ \o v.items, !.least = IF level + 1 < @ THEN level + 1 ELSE @]>>
        [] v.kind = "list" /\ level + 1 < NDT_MAX_DIM /\ "list" \in found /\ "data" \notin found ->
             FoldLeft(Add, <<seen>>, v.items)
        [] OTHER -> Fail

\* The lengths at each level from the innermost lists to the outermost one.
data_shapes(v) ==
  Then(search(0, v, [data |-> <<>>, acc |-> [i \in 1 .. NDT_MAX_DIM |-> <<>>], least |-> NDT_MAX_DIM, most |-> 0]),
       LAMBDA s : IF s.least # s.most THEN Fail
                  ELSE <<[data |-> s.data, shapes |-> Reverse(SubSeq(s.acc, 1, s.most))]>>)

\* Wrong: only lists next to each other are compared with the first one.
require_var_Second(shapes) ==
  \E i \in DOMAIN shapes : NoList \in Range(shapes[i]) \/ (Len(shapes[i]) > 1 /\ shapes[i][2] # shapes[i][1])

require_var(shapes) ==
  \E i \in DOMAIN shapes : NoList \in Range(shapes[i]) \/ \E k \in DOMAIN shapes[i] : shapes[i][k] # shapes[i][1]

fixed_from_shapes(shapes, dtype) ==
  FoldLeft(LAMBDA t, lengths : Fixed(IF lengths = <<>> THEN 0 ELSE lengths[1], t), dtype, shapes)

\* A missing list has no elements, and makes its dimension optional.
Present(lengths) == [k \in DOMAIN lengths |-> IF lengths[k] = NoList THEN 0 ELSE lengths[k]]
var_from_shapes(shapes, dtype) ==
  FoldLeft(LAMBDA t, lengths : [Var(t, OffsetsOf(Present(lengths)), <<>>) EXCEPT !.opt = NoList \in Range(lengths)],
           dtype, shapes)

Dimensions(shapes, dtype) ==
  IF require_var(shapes) THEN var_from_shapes(shapes, dtype) ELSE fixed_from_shapes(shapes, dtype)

\* The types of the values that fast_dtypes() knows; all others are tuples, dicts or refused.
TagOfKind ==
  [bool |-> "Bool", float |-> "Float64", complex |-> "Complex128", int |-> "Int64", str |-> "String", bytes |-> "Bytes"]

RECURSIVE typeof(_, _, _)

\* The type so far and the type of each next value.  A shortcut stops at the first type that is
\* complete, after the second value.
RECURSIVE UnifyRest(_, _, _)
UnifyRest(dtype, rest, shortcut) ==
  IF rest = <<>> THEN <<dtype>>
  ELSE Then(typeof(Head(rest), FALSE, shortcut),
            LAMBDA t : Then(IF t = dtype THEN <<t>> ELSE ndt_unify(t, dtype),
                            LAMBDA u : IF shortcut /\ ndt_is_concrete(u) THEN <<u>>
                                       ELSE UnifyRest(u, Tail(rest), shortcut)))

unify_dtypes(data, shortcut) ==
  Then(Then(typeof(Head(data), FALSE, shortcut), LAMBDA t : UnifyRest(t, Tail(data), shortcut)),
       LAMBDA t : IF ndt_is_concrete(t) THEN <<t>> ELSE ndt_unify_replace_any(t, t))

typeof_data(data, shortcut) ==
  LET kinds == {v.kind : v \in Range(data) \ {PyNone}}
      dtype == Node(IF kinds = {} THEN "Float64" ELSE TagOfKind[CHOOSE k \in kinds : TRUE])
  IN  IF kinds = {} \/ (Cardinality(kinds) = 1 /\ kinds \subseteq DOMAIN TagOfKind)
      THEN <<[dtype EXCEPT !.opt = PyNone \in Range(data)]>>
      ELSE unify_dtypes(data, shortcut)

typeof_list(v, shortcut) ==
  Then(data_shapes(v),
       LAMBDA s : Then(typeof_data(s.data, shortcut), LAMBDA dtype : <<Dimensions(s.shapes, dtype)>>))

\* typeof(v, dtype=t): only the dimensions are inferred.
typeof_list_top(v, dtype) == Then(data_shapes(v), LAMBDA s : <<Dimensions(s.shapes, dtype)>>)

FieldTypes(v, replace_any, shortcut) == AllOf([i \in DOMAIN v.items |-> typeof(v.items[i], replace_any, shortcut)])

typeof(v, replace_any, shortcut) ==
  CASE v.kind = "list" -> typeof_list(v, shortcut)
    [] v.kind = "tuple" -> Then(FieldTypes(v, replace_any, shortcut), LAMBDA types : <<ndt_tuple(types)>>)
    [] v.kind = "dict" -> Then(FieldTypes(v, replace_any, shortcut), LAMBDA types : <<ndt_record(v.keys, types)>>)
    [] v.kind \in DOMAIN TagOfKind -> <<Node(TagOfKind[v.kind])>>
    [] v = PyNone -> <<Opt(Node(IF replace_any THEN "Float64" ELSE "AnyKind"))>>
    [] OTHER -> Fail

\* xnd_typeof(): a type is given for the items, or inferred.
xnd_typeof(v, dtype, shortcut) ==
  IF dtype = Fail THEN typeof(v, TRUE, shortcut)
  ELSE IF v.kind = "list" THEN typeof_list_top(v, dtype[1]) ELSE dtype
-----------------------------------------------------------------------------
(* The reference: what a type says of values, and which values have one.   *)

\* The values at each depth of nested lists; what is at the last depth are data.
RECURSIVE Level(_, _)
Level(values, depth) ==
  IF depth = 0 THEN values
  ELSE Level(FlattenSeq([i \in DOMAIN values |-> IF values[i].kind = "list" THEN values[i].items ELSE <<>>]), depth - 1)
Lengths(values) == [i \in DOMAIN values |-> Len(values[i].items)]

Regular(v, depth) ==
  \A k \in 0 .. depth - 1 : PyNone \notin Range(Level(<<v>>, k)) /\ Cardinality(Range(Lengths(Level(<<v>>, k)))) <= 1

\* The dimensions are those of v: fixed ones if all lists of a depth have the same length, else the
\* lists as they are.
DimsExact(t, v) ==
  \A k \in DOMAIN DimsOf(t) :
    LET lists == Level(<<v>>, k - 1)
        d == DimsOf(t)[k]
    IN  /\ k > 1 => d.opt = (PyNone \in Range(lists))
        /\ IF Regular(v, Ndim(t))
           THEN d.tag = "FixedDim" /\ d.step = DataItems(Below(d)) /\ Range(Lengths(lists)) \subseteq {d.n} /\ (lists = <<>> => d.n = 0)
           ELSE d.tag = "VarDim" /\ d.off = OffsetsOf(Lengths(lists))

\* Some of the values are missing exactly if the type is optional; the others have the type.
RECURSIVE Exact(_, _)
Exact(t, values) ==
  LET present == values \ {PyNone}
      Items(i) == {v.items[i] : v \in present}
  IN  /\ t.opt = (PyNone \in values)
      /\ present = {} => t.tag = "Float64"
      /\ \A v \in present :
           IF v.kind = "list" THEN DimsExact(t, v) /\ Ndim(t) > 0
           ELSE /\ t.tag = CASE v.kind = "tuple" -> "Tuple" [] v.kind = "dict" -> "Record" [] OTHER -> TagOfKind[v.kind]
                /\ Len(t.types) = Len(v.items) /\ t.names = v.keys
      /\ \A i \in DOMAIN t.types :
           IF t.tag \in DimTags
           THEN i = 1 => Exact(DtypeOf(t), UNION {Range(Level(<<v>>, Ndim(t))) : v \in present})
           ELSE Exact(t.types[i], Items(i))

\* Values that could have a type in common: of the same kind, lists with the same lengths of lists.
RECURSIVE Depth(_), Alike(_)
Depth(v) ==
  IF v.kind # "list" THEN 0
  ELSE 1 + (IF \E i \in DOMAIN v.items : v.items[i].kind = "list"
            THEN CHOOSE n \in {Depth(v.items[i]) : i \in DOMAIN v.items} \ {0} : TRUE ELSE 0)
Alike(values) ==
  LET present == values \ {PyNone}
      v == CHOOSE w \in present : TRUE
      SameShape(w) == \A k \in 0 .. Depth(v) : Len(Level(<<w>>, k)) = Len(Level(<<v>>, k))
                                                /\ (k < Depth(v) => Lengths(Level(<<w>>, k)) = Lengths(Level(<<v>>, k)))
  IN  present = {} \/
      /\ v.kind \in DOMAIN TagOfKind \union {"list", "tuple", "dict"}
      /\ \A w \in present : w.kind = v.kind /\ w.keys = v.keys /\ Len(w.items) = Len(v.items)
      /\ v.kind \in {"tuple", "dict"} => \A i \in DOMAIN v.items : Alike({w.items[i] : w \in present})
      /\ v.kind = "list" =>
           /\ Depth(v) <= NDT_MAX_DIM
           /\ \A w \in present : SameShape(w)
           /\ \A w \in present : \A k \in 0 .. Depth(v) - 1 : \A x \in Range(Level(<<w>>, k)) : x.kind \in {"list", "None"}
           /\ \A w \in present : \A x \in Range(Level(<<w>>, Depth(v))) : x.kind # "list"
           /\ Alike(UNION {Range(Level(<<w>>, Depth(v))) : w \in present})

\* Lists in tuples and dicts get a type on their own: float64 where they have no data.
RECURSIVE HasVoid(_), HasVoidList(_, _)
HasVoid(v) == v = PyNone \/ (v.kind = "list" /\ v.items = <<>>) \/ \E i \in DOMAIN v.items : HasVoid(v.items[i])
HasVoidList(v, inside) ==
  \/ inside /\ v.kind = "list" /\ HasVoid(v)
  \/ \E i \in DOMAIN v.items : HasVoidList(v.items[i], inside \/ v.kind \in {"tuple", "dict"})
=============================================================================
