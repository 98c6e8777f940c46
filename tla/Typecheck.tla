----------------------------- MODULE Typecheck -----------------------------
(***************************************************************************)
(* Matching of the arguments of a call with the signature of a function:   *)
(* what the symbols of the signature stand for, and the types of the       *)
(* results.  Signatures have no ellipsis or named ones ("D...", "var..."   *)
(* and "array..."); those with unnamed ones are broadcast, see Broadcast.  *)
(***************************************************************************)
EXTENDS TypeTrees

(* A table of symbols maps each bound name to what it stands for: a pair of the kind of entry and *)
(* its value.                                                                                     *)

\* Wrong: a symbol that is bound already is not compared.
Resolve_Rebind(tbl, name, entry) == <<(name :> entry) @@ tbl>>

\* resolve_shape() and resolve_typevar(), and resolve_array(), whose name no other symbol can have: a
\* symbol is bound when it is met for the first time, and must stand for the same thing later on.
Resolve(tbl, name, entry) ==
  CASE name \notin DOMAIN tbl -> <<(name :> entry) @@ tbl>>
    [] name \in DOMAIN tbl /\ tbl[name] = entry -> <<tbl>>
    [] OTHER -> Fail

\* The extents of a named ellipsis.  What the name is bound to is taken for extents and not tested, so
\* there is no value if it stands for an extent or a type elsewhere (N... * N * int64): the code reads
\* another member of the union then.
resolve_fixed(tbl, name, shape) ==
  LET entry == <<"FixedSeq", shape>>
  IN  CASE name \notin DOMAIN tbl -> <<(name :> entry) @@ tbl>>
        [] name \in DOMAIN tbl /\ tbl[name][1] = "FixedSeq" -> IF tbl[name] = entry THEN <<tbl>> ELSE Fail

\* What a node of a pattern asks of a node of a type, apart from symbols and the nodes below.
NodeFits(p, c) ==
  /\ p.opt = c.opt
  /\ CASE p.tag \in {"AnyKind", "Typevar"} -> TRUE
       [] p.tag \in KindTags \ {"AnyKind"} -> c.tag \in OfKind(p.tag)
       [] p.tag = "FixedDim" -> c.tag = "FixedDim" /\ p.n = c.n /\ HasOrder(c, p.require)
       [] p.tag = "SymbolicDim" -> c.tag = "FixedDim" /\ HasOrder(c, p.require)
       [] p.tag = "Array" -> c.tag = "Array" /\ ItemBytes(p) = ItemBytes(c)
       [] p.tag = "Constr" -> c.tag = "Constr" /\ p.name = c.name /\ p.types = c.types
       [] OTHER -> p.tag = c.tag /\ Len(p.types) = Len(c.types) /\ p.names = c.names

\* The nodes below that are matched, too.
Parts(p) == IF p.tag = "Constr" THEN <<>> ELSE p.types

ResolveNode(p, c, tbl) ==
  CASE p.tag = "SymbolicDim" -> Resolve(tbl, p.name, <<"Shape", c.n>>)
    [] p.tag = "Typevar" -> Resolve(tbl, p.name, <<"Type", c>>)
    [] OTHER -> <<tbl>>

RECURSIVE match_datashape(_, _, _)
match_datashape(p, c, tbl) ==
  CASE c.tag = "VarDimElem" -> match_datashape(p, Below(c), tbl)
    [] c.tag # "VarDimElem" /\ ~NodeFits(p, c) -> Fail
    [] OTHER ->
         FoldLeft(LAMBDA r, i : Then(r, LAMBDA q : match_datashape(p.types[i], c.types[i], q)),
                  ResolveNode(p, c, tbl), [i \in DOMAIN Parts(p) |-> i])
-----------------------------------------------------------------------------
(* Ragged arrays.  A list is a dimension of a type and its number there.   *)

List(t, i) == Lists!ndt_var_indices(t.sl, t.off, i)
NextLists(t, i) ==
  LET next == Lists!Reached(List(t, i))
  IN  IF t.tag = "VarDim" THEN next ELSE <<next[Lists!adjust_index(t.n, Len(next)) + 1]>>

\* apply_stored_indices(): the first dimension without an index, and the list in it.
RECURSIVE SkipElems(_, _)
SkipElems(t, i) == IF t.tag = "VarDimElem" THEN SkipElems(Below(t), NextLists(t, i)[1]) ELSE <<t, i>>

\* The same lists, in the first ndim dimensions that have no index.
RECURSIVE match_concrete_var_dim(_, _, _, _, _)
match_concrete_var_dim(t, i, u, j, ndim) ==
  \/ ndim = 0
  \/ LET x == SkipElems(t, i)
         y == SkipElems(u, j)
         xs == NextLists(x[1], x[2])
         ys == NextLists(y[1], y[2])
     IN  /\ ItemBytes(x[1]) = ItemBytes(y[1])
         /\ Len(xs) = Len(ys)
         /\ \A k \in DOMAIN xs : match_concrete_var_dim(Below(x[1]), xs[k], Below(y[1]), ys[k], ndim - 1)

\* The entry is the type of the array, the number of its dimensions and the list that it is.
resolve_var(tbl, entry) ==
  LET t == entry[2].type
      bound == tbl["var"][2].type
  IN  CASE "var" \notin DOMAIN tbl -> <<("var" :> entry) @@ tbl>>
        [] /\ "var" \in DOMAIN tbl
           /\ ndt_logical_ndim(t) = ndt_logical_ndim(bound)
           /\ match_concrete_var_dim(t, entry[2].li, bound, tbl["var"][2].li, ndt_logical_ndim(bound)) -> <<tbl>>
        [] OTHER -> Fail
-----------------------------------------------------------------------------
\* outer_inner(): the dimensions that an ellipsis can stand for.
EllipsisTags(name) ==
  CASE name = "var" -> VarTags
    [] name = "array" -> {"Array"}
    [] OTHER -> {"FixedDim"}

OuterNdim(p, c) == Ndim(c) - Ndim(Below(p))
Outer(p, c) == SubSeq(DimsOf(c), 1, OuterNdim(p, c))
EllipsisFits(p, c) ==
  /\ HasOrder(c, p.require)
  /\ OuterNdim(p, c) >= 0
  /\ \A i \in DOMAIN Outer(p, c) : Outer(p, c)[i].tag \in EllipsisTags(p.name)

EllipsisShape(p, c) == [i \in DOMAIN Outer(p, c) |-> Outer(p, c)[i].n]

resolve_ellipsis(p, c, li, tbl) ==
  CASE p.name = "var" -> resolve_var(tbl, <<"VarSeq", [type |-> c, size |-> OuterNdim(p, c), li |-> li]>>)
    [] p.name = "array" -> Resolve(tbl, p.name, <<"ArraySeq", OuterNdim(p, c)>>)
    [] OTHER -> resolve_fixed(tbl, p.name, EllipsisShape(p, c))

match_datashape_top(p, c, li, tbl) ==
  CASE p.tag # "EllipsisDim" -> match_datashape(p, c, tbl)
    [] p.tag = "EllipsisDim" /\ ~EllipsisFits(p, c) -> Fail
    [] OTHER -> Then(match_datashape(Below(p), Beneath(c, OuterNdim(p, c)), tbl),
                     LAMBDA q : resolve_ellipsis(p, c, li, q))

\* A constraint computes an extent from those of other symbols; if the symbol for it is bound already,
\* the two are not compared.
resolve_constraint(cons, tbl) ==
  IF \A i \in DOMAIN cons.in : cons.in[i] \in DOMAIN tbl /\ tbl[cons.in[i]][1] = "Shape"
  THEN Then(cons.f[[i \in DOMAIN cons.in |-> tbl[cons.in[i]][2]]],
            LAMBDA n : LET r == Resolve(tbl, cons.out, <<"Shape", n>>) IN IF r = Fail THEN <<tbl>> ELSE r)
  ELSE Fail
-----------------------------------------------------------------------------
(* What a pattern stands for.                                              *)

\* ndt_copy_contiguous_dtype(): the lists that are reached in each dimension, one after the other,
\* without the dimensions that have an index and those of which no list is reached.
RECURSIVE ReachedIn(_, _)
ReachedIn(t, lists) ==
  IF t.tag \notin VarTags \/ lists = <<>> THEN <<>>
  ELSE (IF t.tag = "VarDimElem" THEN <<>> ELSE <<[k \in DOMAIN lists |-> List(t, lists[k]).shape]>>)
       \o ReachedIn(Below(t), FlattenSeq([k \in DOMAIN lists |-> NextLists(t, lists[k])]))
ndt_copy_contiguous_dtype(t, li, dtype) ==
  FoldRight(LAMBDA lengths, u : Var(u, OffsetsOf(lengths), <<>>), ReachedIn(t, <<li>>), dtype)

\* The dimensions of a named ellipsis, around t.
Surround(entry, t) ==
  CASE entry[1] = "FixedSeq" -> FoldRight(Fixed, entry[2], t)
    [] entry[1] = "ArraySeq" -> FoldLeft(LAMBDA u, n : ndt_array(u), t, [i \in 1 .. entry[2] |-> i])
    [] OTHER -> IF entry[2].size = 0 THEN t ELSE ndt_copy_contiguous_dtype(entry[2].type, entry[2].li, t)

IsBound(tbl, name, kind) == name \in DOMAIN tbl /\ tbl[name][1] = kind

\* Without patterns of ragged dimensions, which occur in no result.
RECURSIVE ndt_substitute(_, _, _)
ndt_substitute(t, tbl, req_concrete) ==
  LET Inside(req, Op(_)) == Then(ndt_substitute(Below(t), tbl, req), Op)
  IN  CASE ndt_is_concrete(t) -> <<t>>
        [] t.tag = "FixedDim" -> Inside(req_concrete, LAMBDA u : <<ndt_fixed_dim(u, t.n, t.step)>>)
        [] t.tag = "SymbolicDim" ->
             Inside(req_concrete,
                    LAMBDA u : IF IsBound(tbl, t.name, "Shape") THEN <<Fixed(tbl[t.name][2], u)>>
                               ELSE IF req_concrete THEN Fail ELSE <<SymbolicDim(t.name, u)>>)
        [] t.tag = "EllipsisDim" ->
             Inside(TRUE, LAMBDA u : IF t.name \in DOMAIN tbl THEN <<Surround(tbl[t.name], u)>> ELSE Fail)
        [] t.tag = "Typevar" ->
             IF IsBound(tbl, t.name, "Type") THEN ndt_substitute(tbl[t.name][2], tbl, req_concrete)
             ELSE IF req_concrete THEN Fail ELSE <<Typevar(t.name)>>
        [] t.tag \in {"Constr", "Ref"} -> Inside(req_concrete, LAMBDA u : <<[t EXCEPT !.types = <<u>>]>>)
        [] OTHER -> Fail

\* A result in Fortran order is laid out again, if it has the form that asks for that.
to_fortran(p, t) ==
  CASE p.tag # "EllipsisDim" \/ p.require # "F" -> <<t>>
    [] p.tag = "EllipsisDim" /\ p.require = "F" /\ ndt_is_c_contiguous(t) -> <<AsFortran(t, 1)>>
    [] OTHER -> Fail

Result(p, tbl) == Then(ndt_substitute(p, tbl, FALSE), LAMBDA t : to_fortran(p, t))

check_contig(patterns, args) ==
  \A i \in DOMAIN args : patterns[i].tag = "EllipsisDim" => HasOrder(args[i], patterns[i].require)

\* The end of ndt_typecheck(): the types of the results, or of the outputs that were passed.
Results(sig, args, tbl) ==
  IF ~check_contig(sig.types, args) THEN Fail
  ELSE IF Len(args) > sig.nin THEN <<SubSeq(args, sig.nin + 1, Len(args))>>
  ELSE AllOf([i \in 1 .. Len(sig.types) - sig.nin |-> Result(sig.types[sig.nin + i], tbl)])
-----------------------------------------------------------------------------
(* The reference.  A pattern asks of its symbols what they must stand for, *)
(* as pairs of name and value; an argument matches if its nodes fit.       *)

RECURSIVE Fits(_, _), Asks(_, _)
Fits(p, c) ==
  IF c.tag = "VarDimElem" THEN Fits(p, Below(c))
  ELSE NodeFits(p, c) /\ \A i \in DOMAIN Parts(p) : Fits(p.types[i], c.types[i])
Asks(p, c) ==
  IF c.tag = "VarDimElem" THEN Asks(p, Below(c))
  ELSE (CASE p.tag = "SymbolicDim" -> {<<p.name, <<"Shape", c.n>>>>}
          [] p.tag = "Typevar" -> {<<p.name, <<"Type", c>>>>}
          [] OTHER -> {})
       \union UNION {Asks(p.types[i], c.types[i]) : i \in DOMAIN Parts(p)}

\* The elements of list i of a ragged array, as lists of lists.
Elements(t, i) ==
  FoldLeft(LAMBDA s, slice : LET at == Lists!Visited(Len(s), slice) IN [k \in DOMAIN at |-> s[at[k] + 1]],
           [k \in 1 .. t.off[i + 2] - t.off[i + 1] |-> t.off[i + 1] + k - 1], t.sl)
\* A nested list is the set of its lists, each with the path that leads to it and its length.
RECURSIVE Nest(_, _, _)
Nest(t, i, path) ==
  CASE t.tag = "VarDim" ->
         {<<path, Len(Elements(t, i))>>}
         \union UNION {Nest(Below(t), Elements(t, i)[k], Append(path, k)) : k \in DOMAIN Elements(t, i)}
    [] t.tag = "VarDimElem" -> Nest(Below(t), Elements(t, i)[(t.n % Len(Elements(t, i))) + 1], path)
    [] OTHER -> {}

FitsTop(p, c) ==
  IF p.tag = "EllipsisDim"
  THEN EllipsisFits(p, c) /\ Fits(Below(p), Beneath(c, OuterNdim(p, c)))
  ELSE Fits(p, c)
AsksTop(p, c, li) ==
  IF p.tag # "EllipsisDim" THEN Asks(p, c)
  ELSE Asks(Below(p), Beneath(c, OuterNdim(p, c)))
       \union {<<p.name, CASE p.name = "var" -> <<"Lists", Nest(c, li, <<>>)>>
                           [] p.name = "array" -> <<"Ndim", OuterNdim(p, c)>>
                           [] OTHER -> <<"Extents", EllipsisShape(p, c)>> >>}

\* The dimensions of a type lie in memory as those of a new array.
Compact(t, order) ==
  CASE t.tag \in VarTags ->
         LET dims == SelectSeq(DimsOf(t), LAMBDA d : d.tag \in VarTags)
         IN  \A i \in DOMAIN dims :
               /\ dims[i].tag = "VarDim" /\ dims[i].sl = <<>> /\ dims[i].off[1] = 0
               /\ Len(dims[i].off) = IF i = 1 THEN 2 ELSE Last(dims[i - 1].off) + 1
    [] t.tag = "FixedDim" -> IF order = "F" THEN ndt_is_f_contiguous(t) ELSE ndt_is_c_contiguous(t)
    [] OTHER -> TRUE
=============================================================================
