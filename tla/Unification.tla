---------------------------- MODULE Unification ----------------------------
(***************************************************************************)
(* Unification of two types: a type that can hold all values of both.      *)
(***************************************************************************)
EXTENDS TypeTrees

\* The result has the flags of both types.
unify_common(w, t, u) == [w EXCEPT !.opt = t.opt \/ u.opt]

\* The order of the tags in enum ndt.
TagOrder ==
  <<"Bool", "Int8", "Int16", "Int32", "Int64", "Uint8", "Uint16", "Uint32", "Uint64",
    "BFloat16", "Float16", "Float32", "Float64", "BComplex32", "Complex32", "Complex64", "Complex128">>
RankOf(tag) == CHOOSE i \in DOMAIN TagOrder : TagOrder[i] = tag
max_tag(x, y) == IF RankOf(x) >= RankOf(y) THEN x ELSE y

SameKind(t, u) ==
  \E kind \in {{"Bool"}, SignedTags, UnsignedTags, FloatTags, ComplexTags} : t.tag \in kind /\ u.tag \in kind

\* What two nodes must have in common, apart from the types below them.
SameNode(t, u) ==
  /\ t.tag = u.tag
  /\ CASE t.tag = "FixedDim" -> t.n = u.n
       [] t.tag = "VarDim" -> t.off # <<>> /\ u.off # <<>> /\ t.sl = <<>> /\ u.sl = <<>> /\ t.off = u.off
       [] t.tag = "Array" -> ItemBytes(t) = ItemBytes(u)
       [] t.tag \in {"Tuple", "Record"} -> Len(t.types) = Len(u.types) /\ t.names = u.names
       [] t.tag = "Constr" -> t.name = u.name
       [] OTHER -> t.tag \in {"Ref", "String", "Bytes"}

\* The node of t around other types.
Rebuilt(t, types) ==
  IF t.tag = "FixedDim" THEN ndt_fixed_dim(types[1], t.n, t.step) ELSE [t EXCEPT !.types = types]

\* ndt_is_ref_free(), negated: the only other flag that unify_common() asks to be the same.
RECURSIVE HasRef(_)
HasRef(t) == t.tag = "Ref" \/ \E i \in DOMAIN t.types : HasRef(t.types[i])

RECURSIVE unify(_, _, _)
unify(t, u, replace_any) ==
  CASE replace_any /\ t.tag = "AnyKind" /\ u.tag = "AnyKind" -> <<unify_common(Node("Float64"), t, u)>>
    [] ~(replace_any /\ t.tag = "AnyKind") /\ u.tag = "AnyKind" ->
         IF HasRef(t) THEN Fail ELSE <<unify_common(t, t, u)>>
    [] t.tag = "AnyKind" /\ u.tag # "AnyKind" -> IF HasRef(u) THEN Fail ELSE <<unify_common(u, t, u)>>
    [] t.tag # "AnyKind" /\ u.tag # "AnyKind" /\ t.tag \in NumberTags ->
         IF SameKind(t, u) THEN <<unify_common(Node(max_tag(t.tag, u.tag)), t, u)>> ELSE Fail
    [] OTHER ->
         IF SameNode(t, u)
         THEN Then(AllOf([i \in DOMAIN t.types |-> unify(t.types[i], u.types[i], replace_any)]),
                   LAMBDA types : <<unify_common(Rebuilt(t, types), t, u)>>)
         ELSE Fail

ndt_unify(t, u) == unify(t, u, FALSE)
ndt_unify_replace_any(t, u) == unify(t, u, TRUE)
-----------------------------------------------------------------------------
(* The reference: which types hold all values of another one.              *)

\* Bits of the fraction and of the exponent; the parts of complex numbers are floats.
FloatFormat ==
  [Float64 |-> <<52, 11>>, Float32 |-> <<23, 8>>, Float16 |-> <<10, 5>>, BFloat16 |-> <<7, 8>>,
   Complex128 |-> <<52, 11>>, Complex64 |-> <<23, 8>>, Complex32 |-> <<10, 5>>, BComplex32 |-> <<7, 8>>]

HoldsNumber(w, t) ==
  /\ \E kind \in {{"Bool"}, SignedTags, UnsignedTags, FloatTags, ComplexTags} : {w, t} \subseteq kind
  /\ IF t \in DOMAIN FloatFormat
     THEN FloatFormat[w][1] >= FloatFormat[t][1] /\ FloatFormat[w][2] >= FloatFormat[t][2]
     ELSE Bytes(w) >= Bytes(t)

\* A value of type t has a place in the memory of type w.  Nothing but a missing value is known to
\* be of the type Any.
RECURSIVE HoldsAll(_, _)
HoldsAll(w, t) ==
  /\ t.opt => w.opt
  /\ \/ t.tag = "AnyKind"
     \/ t.tag \in NumberTags /\ w.tag \in NumberTags /\ HoldsNumber(w.tag, t.tag)
     \/ /\ t.tag \notin NumberTags
        /\ <<w.tag, w.n, w.off, w.name, w.names, Len(w.types)>> = <<t.tag, t.n, t.off, t.name, t.names, Len(t.types)>>
        /\ \A i \in DOMAIN t.types : HoldsAll(w.types[i], t.types[i])
=============================================================================
