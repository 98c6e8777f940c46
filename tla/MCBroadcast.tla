---------------------------- MODULE MCBroadcast ----------------------------
(* Calls whose arguments are broadcast, and the questions of MCTypeQueries: one or the other. *)
EXTENDS ApplyLoops, MCTypeQueries

Layout(shape, steps) == [shape |-> shape, steps |-> steps]

\* Arrays in C order, in Fortran order, reversed, with gaps and with repeated
\* elements; shapes with and without extents of 0 and 1.
Vectors == {Layout(<<n>>, <<s>>) : n \in 0..3, s \in {-1, 0, 1, 2}}
Matrices ==
  UNION {{CArray(<<n, m>>), ToFortran(CArray(<<n, m>>)), Layout(<<n, m>>, <<-m, 1>>),
          Layout(<<n, m>>, <<0, 1>>)} : n, m \in 0..2}
Few == {Scalar} \union {CArray(<<n>>) : n \in 0..3} \union {Layout(<<2>>, <<-1>>)}
       \union {CArray(<<n, m>>) : n, m \in 0..2} \union {Layout(<<2, 2>>, <<1, 2>>)}

Arguments == {Scalar} \union Vectors \union Matrices
NoNeed(n) == [i \in 1..n |-> "NA"]

Call(fast, inner, args, nin, check, need, avail) ==
  [fast |-> fast, inner |-> inner, args |-> args, nin |-> nin, check |-> check,
   need |-> need, avail |-> avail]

Rows(set) == {x \in set : NDim(x) >= 1}
Available == {{"OptC", "Xnd"}, {"OptZ", "OptS"}, {"C", "Fortran"}, {"Strided"}}

MCCalls ==
  \* x -> y, x, y -> z, and with an output.
  {Call(f, 0, <<x, y>>, 2, FALSE, NoNeed(3), {"OptC", "OptZ", "OptS", "Xnd"}) :
     f \in BOOLEAN, x, y \in Arguments} \union
  {Call(f, 0, <<x, y>>, 1, TRUE, NoNeed(2), a) :
     f \in BOOLEAN, x \in Few, y \in Arguments, a \in {{"OptC"}, {"OptS", "C"}}} \union
  {Call(f, 0, <<x, y, z>>, 2, TRUE, NoNeed(3), {"OptZ", "Strided"}) :
     f \in BOOLEAN, x, y, z \in Few} \union
  \* vfold: the first input is the output.
  {Call(TRUE, 0, <<x, y, x>>, 2, FALSE, NoNeed(3), {"OptC", "C"}) : x, y \in Arguments} \union
  \* An inner dimension, and signatures that ask for contiguous arguments.
  {Call(FALSE, 1, <<x, y>>, 2, FALSE, need, a) :
     x \in Rows(Few), y \in Rows(Arguments), a \in Available,
     need \in {NoNeed(3), <<"C", "NA", "NA">>, <<"F", "F", "F">>}} \union
  {Call(FALSE, 1, <<x, y>>, 1, TRUE, <<"NA", need>>, {"C", "Fortran"}) :
     x \in Rows(Arguments), y \in Rows(Few), need \in {"NA", "C", "F"}}

\* Two inputs, the first of which must be C-contiguous.
MCOrderedCalls ==
  {Call(FALSE, 1, <<x, y>>, 2, FALSE, <<"C", "NA", "NA">>, {"C"}) : x, y \in Rows(Few)}

NoCall == Call(FALSE, 0, <<>>, 0, FALSE, <<>>, {})

MCInit ==
  /\ ran = <<>>
  /\ \/ Init /\ query = NoQuery /\ Quiet
     \/ QueryInit /\ call = NoCall /\ Begin

Calling == query = NoQuery /\ UNCHANGED queryVars
Preparing == Calling /\ UNCHANGED ran
Asking == query # NoQuery /\ UNCHANGED loopVars

MCNext ==
  \/ Preparing /\ MatchArg
  \/ Preparing /\ BroadcastAll
  \/ Preparing /\ Finish
  \/ Preparing /\ FastTypecheck
  \/ Preparing /\ SelectKernel
  \/ Calling /\ Apply
  \/ Asking /\ MatchArgument
  \/ Asking /\ Conclude
  \/ Asking /\ Unify
  \/ Asking /\ Infer
=============================================================================
