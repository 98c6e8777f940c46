---------------------------- MODULE TypeQueries ----------------------------
(***************************************************************************)
(* What a program asks of types: whether the arguments of a call match the *)
(* signature of a function and which types the results have, which type    *)
(* holds the values of two others, and which type a Python value gets.     *)
(***************************************************************************)
EXTENDS Typecheck, TypeInference

CONSTANTS
  Signatures,  \* [sig, cons, n, args, li]: functions, each with n arguments out of args and their lists
  Pool,        \* the types that are unified, each with each
  Values,      \* Python values
  ItemTypes    \* types that are given for the items of a value

VARIABLES
  query,      \* what is asked
  table,      \* the symbols of the signature that are bound
  matched,    \* how many arguments have been matched
  reply,      \* "none", "refused" or "accepted"
  found       \* the types that are the answer

queryVars == <<query, table, matched, reply, found>>

NoQuery == [ask |-> "none"]

Quiet ==
  /\ table = <<>>
  /\ matched = 0
  /\ reply = "none"
  /\ found = <<>>

AskMatch ==
  \E f \in Signatures : \E args \in [1 .. f.n -> f.args], li \in [1 .. f.n -> f.li] :
    query = [ask |-> "match", sig |-> f.sig, args |-> args, li |-> li, cons |-> f.cons]
AskUnify == \E t, u \in Pool : query = [ask |-> "unify", t |-> t, u |-> u]
AskInfer ==
  \E v \in Values, dtype \in {<<>>} \union {<<t>> : t \in ItemTypes}, shortcut \in BOOLEAN :
    query = [ask |-> "infer", value |-> v, dtype |-> dtype, shortcut |-> shortcut]

QueryInit == (AskMatch \/ AskUnify \/ AskInfer) /\ Quiet

\* The answer is a sequence of types, or a failure.
Answer(r) ==
  /\ reply' = IF r = Fail THEN "refused" ELSE "accepted"
  /\ found' = IF r = Fail THEN <<>> ELSE r[1]
  /\ UNCHANGED <<query, table, matched>>

One(r) == IF r = Fail THEN Fail ELSE <<r>>

\* One argument after the other.
MatchArgument ==
  /\ query.ask = "match" /\ reply = "none" /\ matched < Len(query.args)
  /\ LET k == matched + 1
         r == match_datashape_top(query.sig.types[k], query.args[k], query.li[k], table)
     IN  IF r = Fail THEN Answer(Fail)
         ELSE /\ table' = r[1]
              /\ matched' = k
              /\ UNCHANGED <<query, reply, found>>

Constrained == IF query.cons = <<>> THEN <<table>> ELSE resolve_constraint(query.cons[1], table)

\* All arguments match: the constraint and the results.
Conclude ==
  /\ query.ask = "match" /\ reply = "none" /\ matched = Len(query.args)
  /\ Answer(Then(Constrained, LAMBDA tbl : Results(query.sig, query.args, tbl)))

Unify ==
  /\ query.ask = "unify" /\ reply = "none"
  /\ Answer(One(ndt_unify(query.t, query.u)))

Infer ==
  /\ query.ask = "infer" /\ reply = "none"
  /\ Answer(One(xnd_typeof(query.value, query.dtype, query.shortcut)))

QueryNext == MatchArgument \/ Conclude \/ Unify \/ Infer
-----------------------------------------------------------------------------
Asked == UNION {AsksTop(query.sig.types[i], query.args[i], query.li[i]) : i \in DOMAIN query.args}
AllFit == \A i \in DOMAIN query.args : FitsTop(query.sig.types[i], query.args[i])
IsFunction(pairs) == \A a, b \in pairs : a[1] = b[1] => a[2] = b[2]
ValueOf(pairs, name) == (CHOOSE a \in pairs : a[1] = name)[2]

\* Ragged arguments of one ellipsis have as many dimensions and items of the same size.
SameForm ==
  LET ragged == {query.args[i] : i \in {j \in DOMAIN query.args : query.sig.types[j].name = "var"}}
  IN  \A t, u \in ragged : ndt_logical_ndim(t) = ndt_logical_ndim(u)
                          /\ (ndt_logical_ndim(t) > 0 => ItemBytes(t) = ItemBytes(u))

\* The symbols together with the one that the constraint computes, unless an output that was passed
\* gives it a meaning; <<>> if it refuses.
Resolved ==
  IF query.cons = <<>> THEN <<Asked>>
  ELSE LET c == query.cons[1]
           n == c.f[[i \in DOMAIN c.in |-> ValueOf(Asked, c.in[i])[2]]]
           given == \E a \in Asked : a[1] = c.out
       IN  CASE n = Fail -> Fail
             [] n # Fail /\ given -> <<Asked>>
             [] OTHER -> <<Asked \union {<<c.out, <<"Shape", n[1]>>>>}>>

\* A symbol for a type may stand for an array with steps of its own, which the result then has, too.
ItemsCompact == \A a \in Resolved[1] : a[2][1] = "Type" => Compact(a[2][2], "C")

HasNewResults == Len(query.args) = query.sig.nin

\* The arguments determine whether the call is accepted, and what its results are.
MatchRight ==
  IF ~AllFit \/ ~IsFunction(Asked) \/ ~SameForm THEN reply = "refused"
  ELSE IF Resolved = Fail THEN reply = "refused"
  ELSE /\ reply = "accepted"
       /\ \A k \in DOMAIN found :
            LET p == query.sig.types[query.sig.nin + k]
            IN  /\ ndt_is_concrete(found[k])
                /\ HasNewResults /\ ItemsCompact => Compact(found[k], p.require)
                /\ FitsTop(p, found[k])
                /\ AsksTop(p, found[k], 0) \subseteq Resolved[1]

\* A call is accepted exactly if its arguments give each symbol of the signature one meaning,
\* whatever their order, and the results are new arrays in which the symbols have that meaning:
\* ndt_typecheck() with a table of symbols that it fills as it goes.
TypecheckExact == query.ask = "match" /\ reply # "none" => MatchRight

\* Types that unify() refuses whatever the other one is, and formats of numbers of which neither holds
\* the values of the other one.
RECURSIVE Tags(_), Sliced(_)
Tags(t) == {t.tag} \union UNION {Tags(t.types[i]) : i \in DOMAIN t.types}
Sliced(t) == t.sl # <<>> \/ \E i \in DOMAIN t.types : Sliced(t.types[i])
Special ==
  LET tags == Tags(query.t) \union Tags(query.u)
  IN  \/ tags \intersect {"Ref", "VarDimElem"} # {}
      \/ query.t.tag = "Array" /\ query.u.tag = "Array" /\ ItemBytes(query.t) # ItemBytes(query.u)
      \/ Sliced(query.t) \/ Sliced(query.u)

\* In both orders; half-precision floats of different formats have no type in common, and get one.
Unified ==
  LET other == ndt_unify(query.u, query.t)
      Mixed == \E pair \in {{"Float16", "BFloat16"}, {"Complex32", "BComplex32"}} :
                 pair \subseteq Tags(query.t) \union Tags(query.u)
  IN  /\ (reply = "accepted") = (other # Fail)
      /\ reply = "accepted" /\ ~Mixed => HoldsAll(found[1], query.t) /\ HoldsAll(found[1], query.u)
      /\ reply = "accepted" => HoldsAll(found[1], other[1]) /\ HoldsAll(other[1], found[1])
      /\ ~Special => \A w \in Pool : HoldsAll(w, query.t) /\ HoldsAll(w, query.u)
                                    => reply = "accepted" /\ HoldsAll(w, found[1])

\* All values are looked at.
InferredFully ==
  /\ reply = "accepted" => Exact(found[1], {query.value})
  /\ reply = "refused" => ~Alike({query.value}) \/ HasVoidList(query.value, FALSE)

\* A shortcut may miss that later values are missing, and nothing else.
InferredShort ==
  LET full == xnd_typeof(query.value, query.dtype, FALSE)
  IN  full # Fail => reply = "accepted" /\ HoldsAll(full[1], found[1])

\* The type of the items is given.
InferredAround ==
  reply = "accepted" => /\ DtypeOf(found[1]) = query.dtype[1]
                        /\ query.value.kind = "list" => DimsExact(found[1], query.value)

\* Unification answers with a type that has a place for all values of both, the least one that there
\* is, and so refuses nothing that has one; typeof() of a value with data and None in any order answers
\* with the dimensions, the fields and the missing values that are there: ndt_unify() and xnd_typeof().
TypesInferred ==
  reply # "none" =>
    /\ query.ask = "unify" => Unified
    /\ query.ask = "infer" =>
         IF query.dtype # <<>> THEN InferredAround
         ELSE IF query.shortcut THEN InferredShort ELSE InferredFully
=============================================================================
