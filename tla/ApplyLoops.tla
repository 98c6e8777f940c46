----------------------------- MODULE ApplyLoops -----------------------------
(***************************************************************************)
(* How the kernel that Broadcast selects is applied: gm_xnd_map() walks    *)
(* through the outer dimensions of all arguments and calls it with a row   *)
(* of each; for kernels with the signature of NumPy, the arguments become  *)
(* pointers, dimensions and steps, and gm_np_map() walks through these.    *)
(* Dimensions are fixed here.                                              *)
(***************************************************************************)
EXTENDS Broadcast

VARIABLE ran    \* the tuples of elements that the kernel works on, one after the other
loopVars == <<vars, ran>>

\* What is noted in the place of a stack when an error ends the walk.
Error == <<>>
Failed(s) == s # <<>> /\ Last(s) = Error

\* An array and the place of its first element.
Placed == {x \in [at : Int, shape : Seq(Nat), steps : Seq(Int)] : Len(x.shape) = Len(x.steps)}
From(x, at) == [at |-> at, shape |-> x.shape, steps |-> x.steps]
xnd_fixed_dim_next(x, i) == [at |-> x.at + i * x.steps[1], shape |-> Tail(x.shape), steps |-> Tail(x.steps)]

\* The stacks with which the kernel is called.
Stacks == Seq(Placed) \ {<<>>}
UntilError(walks) == FoldLeft(LAMBDA s, w : IF Failed(s) THEN s ELSE s \o w, <<>>, walks)
NextOf(stack, i) == [k \in DOMAIN stack |-> xnd_fixed_dim_next(stack[k], i)]
gm_xnd_map(stack, n) ==
  LET walk[m \in 0..n] ==
        [s \in Stacks |->
           IF m = 0 THEN <<s>>
           ELSE IF \E x \in Range(s) : x.shape = <<>> \/ x.shape[1] # s[1].shape[1] THEN <<Error>>
           ELSE UntilError([i \in 1..s[1].shape[1] |-> walk[m-1][NextOf(s, i - 1)]])]
  IN  walk[n][stack]
-----------------------------------------------------------------------------
(* Arguments as NumPy passes them.                                         *)

\* gm_as_ndarray(): a scalar is an array of one element.
gm_as_ndarray(x) == IF x.shape = <<>> THEN [x EXCEPT !.shape = <<1>>, !.steps = <<0>>] ELSE x

sum_inner_dimensions(stack, n) ==
  Total([k \in DOMAIN stack |-> IF NDim(stack[k]) = n THEN 1 ELSE NDim(stack[k]) - n])

\* The outer dimensions once, with a step for each argument, and then the inner ones of each argument.
gm_np_convert_xnd(stack, n) ==
  LET nd == [k \in DOMAIN stack |-> gm_as_ndarray(stack[k])]
      Below(s) == SubSeq(s, n + 1, Len(s))
  IN  [args  |-> [k \in DOMAIN nd |-> nd[k].at],
       dims  |-> SubSeq(nd[1].shape, 1, n) \o FlattenSeq([k \in DOMAIN nd |-> Below(nd[k].shape)]),
       steps |-> FlattenSeq([i \in 1..n |-> [k \in DOMAIN nd |-> nd[k].steps[i]]])
                 \o FlattenSeq([k \in DOMAIN nd |-> Below(nd[k].steps)])]

\* The errors of the conversion: other outer dimensions, or more values than there is room for.
Refuses(stack, n) ==
  LET c == gm_np_convert_xnd(stack, n)
      room == sum_inner_dimensions(stack, n)
  IN  \/ \E x \in Range(stack) : SubSeq(x.shape, 1, n) # SubSeq(stack[1].shape, 1, n)
      \/ Len(c.dims) > n + room
      \/ Len(c.steps) > Len(stack) * n + room

\* Wrong: the steps of the outer dimension are used again for the next one.
gm_np_map_SameSteps(c, n) ==
  LET nargs == Len(c.args)
  IN  IF n <= 1 THEN <<c>>
      ELSE [i \in 1..c.dims[1] |->
              [args |-> [k \in 1..nargs |-> c.args[k] + (i - 1) * c.steps[k]], dims |-> Tail(c.dims), steps |-> c.steps]]

\* d dimensions further: the pointers to dimensions and steps are moved.
Inside(c, d, args) ==
  [args |-> args, dims |-> SubSeq(c.dims, d + 1, Len(c.dims)),
   steps |-> SubSeq(c.steps, d * Len(c.args) + 1, Len(c.steps))]
gm_np_map(c, n) ==
  LET nargs == Len(c.args)
      walk[m \in 0..n] ==
        [args \in [1..nargs -> Int] |->
           IF m <= 1 THEN <<Inside(c, n - m, args)>>
           ELSE FlattenSeq([i \in 1..c.dims[n-m+1] |->
                  walk[m-1][ [k \in 1..nargs |-> args[k] + (i - 1) * c.steps[(n-m)*nargs + k]] ] ])]
  IN  walk[n][c.args]
-----------------------------------------------------------------------------
(* Kernels: the elements on which one call of a kernel works.              *)

\* CPU_HOST_BINARY(): a loop over the dimension that is left to the kernel, one element after the other
\* or with steps.
LoopStep(x) == IF kernel = "OptC" THEN Product(Tail(x.shape)) ELSE x.steps[1]
LoopOver(stack) == [i \in 1..stack[1].shape[1] |-> [k \in DOMAIN stack |-> stack[k].at + (i - 1) * LoopStep(stack[k])]]

\* gm_multiply_strided_1D_q64_q64(): a loop over the first dimension.
StridedLoop(c) == [i \in 1..c.dims[1] |-> [k \in DOMAIN c.args |-> c.args[k] + (i - 1) * c.steps[k]]]

\* The elements of all rows.
WorkOn(rows, Work(_)) == FlattenSeq([i \in DOMAIN rows |-> IF rows[i] = Error THEN <<Error>> ELSE Work(rows[i])])

gm_apply(stack) ==
  LET calls == gm_np_map(gm_np_convert_xnd(stack, outer), outer)
  IN  CASE kernel \in {"OptC", "OptZ", "OptS"} /\ outer = 0 -> <<Error>>
        [] kernel \in {"OptC", "OptZ", "OptS"} /\ outer > 0 -> WorkOn(gm_xnd_map(stack, outer - 1), LoopOver)
        [] kernel \in {"C", "Fortran", "Xnd"} ->
             WorkOn(gm_xnd_map(stack, outer), LAMBDA s : <<[k \in DOMAIN s |-> s[k].at]>>)
        [] kernel = "Strided" ->
             IF Refuses(stack, outer) THEN <<Error>> ELSE FlattenSeq([i \in DOMAIN calls |-> StridedLoop(calls[i])])

Apply ==
  /\ pc = "done"
  /\ ran' = gm_apply([k \in DOMAIN types |-> From(types[k], 0)])
  /\ pc' = "applied"
  /\ UNCHANGED <<call, acc, types, outer, flags, kernel, why>>

LoopInit == Init /\ ran = <<>>
LoopNext == (Next /\ UNCHANGED ran) \/ Apply
LoopSpec == LoopInit /\ [][LoopNext]_loopVars
-----------------------------------------------------------------------------
\* The indices of an array in row-major order.
RowMajorIndices(shape) ==
  [k \in 1..Product(shape) |->
     [i \in DOMAIN shape |-> ((k - 1) \div Product(SubSeq(shape, i + 1, Len(shape)))) % shape[i]]]

\* A strided kernel also runs through the inner dimension; the others are given it as a whole.
Looped == IF kernel = "Strided" THEN types[1].shape ELSE acc
Index(i, idx) == idx \o [j \in 1 .. NDim(types[i]) - Len(idx) |-> 0]
ElementAt(i, idx) ==
  IF i \in DOMAIN call.args THEN Offset(call.args[i], Source(call.args[i], Index(i, idx)))
  ELSE Offset(types[i], Index(i, idx))

\* A strided kernel runs through one dimension: of a kernel with an inner dimension, gm_np_map()
\* calls it for an outer one.
LosesInner == kernel = "Strided" /\ call.inner > 0 /\ outer + call.inner > 1

\* Whichever kernel is selected, and in whichever way it is applied, it works once on each element
\* of the common shape, in row-major order, on the elements that the arguments as they were passed
\* have there: gm_xnd_map(), gm_np_convert_xnd() and gm_np_map() agree.
LoopsAgree ==
  pc = "applied" /\ ~LosesInner =>
    ran = [k \in 1..Product(Looped) |-> [i \in DOMAIN types |-> ElementAt(i, RowMajorIndices(Looped)[k])]]

\* The kernel is one that the arguments allow, the best of these, and works on their elements:
\* ndt_select_kernel_strategy(), select_kernel() and gm_apply().
KernelApplied == KernelRight /\ LoopsAgree
=============================================================================
