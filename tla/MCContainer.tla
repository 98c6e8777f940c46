---------------------------- MODULE MCContainer ----------------------------
EXTENDS Container

Type(tag, n, types) == [tag |-> tag, n |-> n, types |-> types]
Number == Type("int", 0, <<>>)
Text == Type("string", 0, <<>>)
Bytes == Type("bytes", 0, <<>>)
Ref(t) == Type("ref", 0, <<t>>)
Fixed(n, t) == Type("fixed", n, <<t>>)
Tuple(types) == Type("tuple", 0, types)
Union(types) == Type("union", 0, types)
Flexible(t) == Type("array", 0, <<t>>)

V(kind, n, items) == [kind |-> kind, n |-> n, items |-> items]

\* All values of a type, and one that is refused.
RECURSIVE ValuesOf(_)
ValuesOf(t) ==
  CASE t.tag = "ref" -> ValuesOf(t.types[1])
    [] t.tag \in {"int", "string", "bytes"} -> {V(t.tag, 5, <<>>), V("other", 0, <<>>)}
    [] t.tag = "fixed" -> {V("fixed", t.n, s) : s \in [1..t.n -> ValuesOf(t.types[1])]}
    [] t.tag = "tuple" ->
         {V("tuple", Len(t.types), s) :
            s \in {r \in [DOMAIN t.types -> UNION {ValuesOf(u) : u \in Range(t.types)}] :
                     \A i \in DOMAIN r : r[i] \in ValuesOf(t.types[i])}}
    [] t.tag = "union" ->
         UNION {{V("union", i-1, <<v>>) : v \in ValuesOf(t.types[i])} : i \in DOMAIN t.types}
    [] t.tag = "array" ->
         UNION {{V("array", n, s) : s \in [1..n -> ValuesOf(t.types[1])]} : n \in 0..2}

\* Types whose containers are initialized, assigned and released correctly;
\* copying them is correct without unions and arrays.
MCTypes ==
  {Tuple(<<Text, Bytes>>), Ref(Tuple(<<Number, Text>>)), Fixed(2, Text),
   Tuple(<<Ref(Number), Number>>), Flexible(Tuple(<<Number, Text>>)), Union(<<Text, Bytes>>),
   Union(<<Number, Bytes>>), Fixed(2, Flexible(Number))}
MCCopiedTypes == {Tuple(<<Text, Bytes>>), Ref(Tuple(<<Number, Text>>))}

\* The two containers have the same types and values.
MCSymmetry == Permutations(Containers)

\* A number where a string is expected.
MCUnionTypes == {Union(<<Number, Text>>)}

=============================================================================
