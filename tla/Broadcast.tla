------------------------------ MODULE Broadcast ------------------------------
(***************************************************************************)
(* How the arguments of a gufunc call become the arrays that a kernel is   *)
(* applied to.  ndt_typecheck() matches each argument with the signature,  *)
(* gathers the shape that all arguments broadcast to, and gives each of    *)
(* them that shape; ndt_fast_unary_fixed_typecheck() and                   *)
(* ndt_fast_binary_fixed_typecheck() do the same for the signatures        *)
(* without inner dimensions.  Then ndt_select_kernel_strategy() computes   *)
(* what every kernel may assume, and select_kernel() picks one.            *)
(*                                                                         *)
(* An array type is its shape and its steps, counted in elements.  Dtypes  *)
(* always match, and allocations succeed.                                  *)
(***************************************************************************)
EXTENDS Integers, FiniteSets, SequencesExt

CONSTANT
  Calls     \* the calls: [fast, inner, args, nin, check, need, avail]

\* An array has a step for each dimension.
NDArrays == {x \in [shape : Seq(Nat), steps : Seq(Int)] : Len(x.shape) = Len(x.steps)}

AllFlags == {"INNER_C", "INNER_F", "INNER_S", "EXT_C", "EXT_ZERO", "EXT_S", "INNER_X"}
Kernels == {"OptC", "OptZ", "OptS", "C", "Fortran", "Strided", "Xnd"}

\* What parse_args() and the signatures make of a call: an output or none, and
\* only a given output is checked; the fast type checks are for signatures
\* without inner dimensions.  Functions without inputs are left out.
ASSUME CallsAssumption ==
  \A c \in Calls :
    /\ c.fast \in BOOLEAN /\ c.check \in BOOLEAN
    /\ c.nin \in Nat \ {0} /\ c.inner \in Nat
    /\ c.args \in Seq(NDArrays) /\ Len(c.args) \in {c.nin, c.nin+1}
    /\ c.check => Len(c.args) = c.nin + 1
    /\ c.fast => c.inner = 0
    /\ c.need \in [1..c.nin+1 -> {"NA", "C", "F"}]
    /\ c.avail \subseteq Kernels

VARIABLES
  call,     \* the call: args are the inputs and, if given, the output
  pc,       \* "match", "broadcast", "select", "done", "applied" or "refused"
  acc,      \* BroadcastSeq: the shape that the arguments seen so far have
  types,    \* spec->types: first the arguments, then what they are applied as
  outer,    \* spec->outer_dims
  flags,    \* spec->flags
  kernel,   \* the kernel selected, or "none"
  why       \* the error of a call that is refused, or "none"

vars == <<call, pc, acc, types, outer, flags, kernel, why>>
-----------------------------------------------------------------------------
(* Arrays. *)

NDim(x) == Len(x.shape)
Product(s) == FoldLeft(LAMBDA a, b : a * b, 1, s)
Total(s) == FoldLeft(LAMBDA a, b : a + b, 0, s)
Abs(n) == IF n < 0 THEN -n ELSE n

\* The array of the last n dimensions of x.
Inner(x, n) ==
  [shape |-> SubSeq(x.shape, NDim(x)-n+1, NDim(x)),
   steps |-> SubSeq(x.steps, NDim(x)-n+1, NDim(x))]

\* fixed_datasize() in elements: from the first element to the last one.
Span(x) ==
  IF \E i \in DOMAIN x.shape : x.shape[i] = 0 THEN 0
  ELSE 1 + Total([i \in DOMAIN x.shape |-> (x.shape[i]-1) * Abs(x.steps[i])])

\* ndt_fixed_dim() with INT64_MAX for a step: the dimension is C-contiguous.
FixedDim(n, x) == [shape |-> <<n>> \o x.shape, steps |-> <<Span(x)>> \o x.steps]

\* Several of them, around an array.
FixedDims(shape, x) ==
  LET dims[k \in 0..Len(shape)] == IF k = 0 THEN x ELSE FixedDim(shape[Len(shape)-k+1], dims[k-1])
  IN  dims[Len(shape)]

Scalar == [shape |-> <<>>, steps |-> <<>>]
CArray(shape) == FixedDims(shape, Scalar)

\* _ndt_to_fortran().
ToFortran(x) == [x EXCEPT !.steps = [i \in DOMAIN x.shape |-> Product(SubSeq(x.shape, 1, i-1))]]

IsC(x) ==
  \A i \in DOMAIN x.shape :
    x.shape[i] > 1 => x.steps[i] = Product(SubSeq(x.shape, i+1, NDim(x)))
IsF(x) ==
  \A i \in DOMAIN x.shape : x.shape[i] > 1 => x.steps[i] = Product(SubSeq(x.shape, 1, i-1))
-----------------------------------------------------------------------------
(* Broadcasting. *)

NoShape == <<-1>>

\* Wrong: an extent of 1 is not stretched to the other one.
Extent_KeepsOne(n, m) ==
  IF n = m \/ m = 1 THEN n ELSE IF m = 0 THEN 0 ELSE IF n = 1 THEN n ELSE -1

\* One dimension of the accumulated shape (n) and of an argument (m).
Extent(n, m) ==
  IF n = m THEN n
  ELSE IF n = 1 THEN m
  ELSE IF m = 0 THEN 0
  ELSE IF m # 1 THEN -1
  ELSE n

\* _resolve_broadcast(): the shapes are aligned at the right.
ResolveBroadcast(v, w) ==
  LET size == IF Len(v) >= Len(w) THEN Len(v) ELSE Len(w)
      At(s, i) == s[i - (size - Len(s))]
      Has(s, i) == i > size - Len(s)
      result == [i \in 1..size |-> IF Has(v, i) /\ Has(w, i) THEN Extent(At(v, i), At(w, i))
                                   ELSE IF Has(v, i) THEN At(v, i) ELSE At(w, i)]
  IN  IF -1 \in Range(result) THEN NoShape ELSE result

\* Wrong: the steps of stretched dimensions are kept.
Stretch_KeepsStep(x, shape) ==
  [shape |-> SubSeq(shape, Len(shape)-NDim(x)+1, Len(shape)), steps |-> x.steps]

\* Wrong: dimensions of extent 1 are not stretched.
Stretch_KeepsExtent(x, shape) ==
  [shape |-> x.shape,
   steps |-> [i \in DOMAIN x.shape |-> IF x.shape[i] <= 1 THEN 0 ELSE x.steps[i]]]

\* The dimensions of an argument in the common shape: one that has at most
\* one element does not move.
Stretch(x, shape) ==
  [shape |-> SubSeq(shape, Len(shape)-NDim(x)+1, Len(shape)),
   steps |-> [i \in DOMAIN x.shape |-> IF x.shape[i] <= 1 THEN 0 ELSE x.steps[i]]]

\* Concatenation of the dimensions of two arrays.
Around(x, y) == [shape |-> x.shape \o y.shape, steps |-> x.steps \o y.steps]

\* broadcast(): the outer dimensions of u become 'shape'; those that it does
\* not have repeat it (step 0), or are new ones if it is an output.
Broadcast(u, shape, inner, use_max) ==
  LET own == [shape |-> SubSeq(u.shape, 1, NDim(u)-inner),
              steps |-> SubSeq(u.steps, 1, NDim(u)-inner)]
      new == SubSeq(shape, 1, Len(shape)-NDim(own))
      tail == Around(Stretch(own, shape), Inner(u, inner))
  IN  IF use_max THEN FixedDims(new, tail)
      ELSE Around([shape |-> new, steps |-> [i \in DOMAIN new |-> 0]], tail)

\* fast_broadcast().
FastBroadcast(u, shape) == Broadcast(u, shape, 0, FALSE)
-----------------------------------------------------------------------------
(* Kernel strategy. *)

\* Wrong: the innermost outer dimension is not looked at.
CheckC_InnerOnly(fl, x, n) ==
  IF ~IsC(Inner(x, NDim(x)-n)) THEN fl \ {"INNER_C", "EXT_C", "EXT_ZERO"}
  ELSE IF n = 0 THEN fl \ {"EXT_C", "EXT_ZERO"} ELSE fl

\* check_c(): n is the number of outer dimensions.
CheckC(fl, x, n) ==
  LET inner == Inner(x, NDim(x)-n)
  IN  IF ~IsC(inner) THEN fl \ {"INNER_C", "EXT_C", "EXT_ZERO"}
      ELSE IF n = 0 THEN fl \ {"EXT_C", "EXT_ZERO"}
      ELSE IF x.shape[n] > 1 /\ x.steps[n] # Product(inner.shape)
      THEN fl \ (IF x.steps[n] # 0 THEN {"EXT_C", "EXT_ZERO"} ELSE {"EXT_C"})
      ELSE fl

CheckF(fl, x, n) == IF IsF(Inner(x, NDim(x)-n)) THEN fl ELSE fl \ {"INNER_F"}
CheckStrided(fl, n) == IF n = 0 THEN fl \ {"EXT_S"} ELSE fl

\* select_flags() for arrays with fixed dimensions.
SelectFlags(xs, n) ==
  FoldLeft(LAMBDA fl, x : CheckF(CheckC(CheckStrided(fl, n), x, n), x, n), AllFlags, xs)

\* What each kernel asks for, in the order in which select_kernel() tries them.
Order == <<"OptC", "OptZ", "OptS", "C", "Fortran", "Strided", "Xnd">>
Requests(k, fl) ==
  CASE k = "OptC"    -> {"EXT_C", "INNER_C"} \subseteq fl
    [] k = "OptZ"    -> {"EXT_C", "INNER_C"} \subseteq fl \/ {"EXT_ZERO", "INNER_C"} \subseteq fl
    [] k = "OptS"    -> {"EXT_S", "INNER_S"} \subseteq fl
    [] k = "C"       -> "INNER_C" \in fl
    [] k = "Fortran" -> "INNER_F" \in fl
    [] k = "Strided" -> "INNER_S" \in fl
    [] k = "Xnd"     -> "INNER_X" \in fl
-----------------------------------------------------------------------------
(* A call. *)

HasOut == Len(call.args) > call.nin
Out == call.nin + 1
Meets(x, need) == (need = "C" => IsC(x)) /\ (need = "F" => IsF(x))
OuterShape(x) == SubSeq(x.shape, 1, NDim(x)-call.inner)

Refuse(error) ==
  /\ pc' = "refused"
  /\ why' = error
  /\ UNCHANGED <<call, acc, types, outer, flags, kernel>>

Begin ==
  /\ pc = "match"
  /\ acc = NoShape
  /\ types = <<>>
  /\ outer = 0
  /\ flags = {}
  /\ kernel = "none"
  /\ why = "none"

Init == call \in Calls /\ Begin

\* match_datashape_top(): the contiguity asked for, the inner dimension of
\* the signature, which has the same extent in all arguments, and what is
\* left for the ellipsis.
Matches(k) ==
  LET a == call.args[k]
  IN  /\ Meets(a, call.need[k])
      /\ NDim(a) >= call.inner
      /\ \A j \in 1..k-1 : Inner(a, call.inner).shape = Inner(call.args[j], call.inner).shape

Gather(k) ==
  LET w == OuterShape(call.args[k]) IN IF acc = NoShape THEN w ELSE ResolveBroadcast(acc, w)

MatchArg ==
  /\ pc = "match" /\ ~call.fast /\ Len(types) < Len(call.args)
  /\ LET k == Len(types)+1
     IN  IF ~Matches(k) THEN Refuse("match")
         ELSE IF Gather(k) = NoShape THEN Refuse("broadcast")
         ELSE /\ acc' = Gather(k)
              /\ types' = Append(types, call.args[k])
              /\ UNCHANGED <<call, pc, outer, flags, kernel, why>>

\* ndt_substitute() infers the output of a call that gives none.
OutType ==
  IF HasOut THEN call.args[Out] ELSE CArray(Inner(call.args[1], call.inner).shape)

\* Wrong: an explicit output may be stretched.
BroadcastAll_NoCheck ==
  /\ pc = "match" /\ ~call.fast /\ Len(types) = Len(call.args)
  /\ types' = Append([i \in 1..call.nin |-> Broadcast(types[i], acc, call.inner, FALSE)],
                     Broadcast(OutType, acc, call.inner, FALSE))
  /\ outer' = Len(acc)
  /\ pc' = "broadcast"
  /\ UNCHANGED <<call, acc, flags, kernel, why>>

\* ndt_broadcast_all().
BroadcastAll ==
  /\ pc = "match" /\ ~call.fast /\ Len(types) = Len(call.args)
  /\ LET out == Broadcast(OutType, acc, call.inner, TRUE)
     IN  IF call.check /\ out # OutType THEN Refuse("out")
         ELSE /\ types' = Append([i \in 1..call.nin |-> Broadcast(types[i], acc, call.inner, FALSE)],
                                 out)
              /\ outer' = Len(acc)
              /\ pc' = "broadcast"
              /\ UNCHANGED <<call, acc, flags, kernel, why>>

\* The end of ndt_typecheck(): an inferred output in Fortran order, the
\* contiguity of the arguments as they were passed, and the strategy.
Finish ==
  /\ pc = "broadcast"
  /\ LET toF == ~HasOut /\ call.need[Out] = "F"
         ts  == IF toF THEN [types EXCEPT ![Out] = ToFortran(@)] ELSE types
     IN  IF \/ toF /\ ~IsC(types[Out])
            \/ \E i \in DOMAIN call.args : ~Meets(call.args[i], call.need[i])
         THEN Refuse("order")
         ELSE /\ types' = ts
              /\ flags' = SelectFlags(ts, outer)
              /\ pc' = "select"
              /\ UNCHANGED <<call, acc, outer, kernel, why>>

\* The shape that the fast type checks gather from one or two inputs and the
\* output, and the output that they infer or take.
FastShape ==
  FoldLeft(LAMBDA v, a : IF v = NoShape THEN v ELSE ResolveBroadcast(v, a.shape),
           call.args[1].shape, Tail(call.args))
FastOut ==
  IF HasOut /\ ~call.check THEN FastBroadcast(call.args[Out], FastShape) ELSE CArray(FastShape)

\* _ndt_unary_broadcast() and _ndt_binary_broadcast(), for signatures
\* without inner dimensions.
FastTypecheck ==
  /\ pc = "match" /\ call.fast
  /\ IF FastShape = NoShape THEN Refuse("broadcast")
     ELSE IF call.check /\ FastOut # call.args[Out] THEN Refuse("out")
     ELSE LET ts == Append([i \in 1..call.nin |-> FastBroadcast(call.args[i], FastShape)], FastOut)
          IN  /\ acc' = FastShape
              /\ types' = ts
              /\ outer' = Len(FastShape)
              /\ flags' = SelectFlags(ts, Len(FastShape))
              /\ pc' = "select"
              /\ UNCHANGED <<call, kernel, why>>

\* select_kernel().
Usable(i) == Order[i] \in call.avail /\ Requests(Order[i], flags)

SelectKernel ==
  /\ pc = "select"
  /\ \/ (\A i \in DOMAIN Order : ~Usable(i)) /\ Refuse("kernel")
     \/ \E i \in DOMAIN Order :
          /\ Usable(i) /\ \A j \in 1..i-1 : ~Usable(j)
          /\ kernel' = Order[i]
          /\ pc' = "done"
          /\ UNCHANGED <<call, acc, types, outer, flags, why>>

Next == MatchArg \/ BroadcastAll \/ Finish \/ FastTypecheck \/ SelectKernel

Spec == Init /\ [][Next]_vars
-----------------------------------------------------------------------------
(* What broadcasting means: the reference. *)

Applied == pc \in {"select", "done"}
Empty(x) == 0 \in Range(x.shape)

\* The indices of the elements of an array, and where each element is.
Indices(shape) ==
  {idx \in [DOMAIN shape -> UNION {0..(n-1) : n \in Range(shape)}] :
     \A i \in DOMAIN shape : idx[i] < shape[i]}
Offset(x, idx) == Total([i \in DOMAIN idx |-> idx[i] * x.steps[i]])

\* The extents in dimension i, counted from the last outer one.
Extents(i) ==
  {OuterShape(x)[NDim(x)-call.inner+1-i] : x \in {y \in Range(call.args) : NDim(y)-call.inner >= i}}
Dims == UNION {1..(NDim(x)-call.inner) : x \in Range(call.args)}
Compatible == \A i \in Dims : \A n, m \in Extents(i) \ {1} : n = m
Common ==
  [i \in 1..Cardinality(Dims) |->
     LET e == Extents(Cardinality(Dims)+1-i) \ {1}
     IN  IF e = {} THEN 1 ELSE CHOOSE n \in e : TRUE]

\* Where an element of a stretched array comes from.
Source(x, idx) ==
  [i \in DOMAIN x.shape |-> IF x.shape[i] = 1 THEN 0 ELSE idx[Len(idx)-NDim(x)+i]]

\* Memory order of the last n dimensions of an array, element by element.
RowMajor(x, n) ==
  LET y == Inner(x, n)
  IN  \A idx \in Indices(y.shape) :
        Offset(y, idx) = FoldLeft(LAMBDA r, i : r * y.shape[i] + idx[i], 0, [i \in 1..n |-> i])
ColumnMajor(x, n) ==
  LET y == Inner(x, n)
  IN  \A idx \in Indices(y.shape) :
        Offset(y, idx) = FoldLeft(LAMBDA r, i : r * y.shape[i] + idx[i], 0, [i \in 1..n |-> n+1-i])
RepeatsLoop(x, n) == \A idx \in Indices(Inner(x, n).shape) : idx[1] * x.steps[NDim(x)-n+1] = 0

\* What a kernel may assume of an argument with n inner dimensions:
\* gumath.h on the fields of gm_kernel_set_t.
MayRun(k, x, n) ==
  CASE k = "OptC" -> outer > 0 /\ RowMajor(x, n+1)
    [] k = "OptZ" -> outer > 0 /\ RowMajor(x, n) /\ (RowMajor(x, n+1) \/ RepeatsLoop(x, n+1))
    [] k = "OptS" -> outer > 0
    [] k = "C" -> RowMajor(x, n)
    [] k = "Fortran" -> ColumnMajor(x, n)
    [] OTHER -> TRUE
-----------------------------------------------------------------------------
(* Properties. *)

\* The values of the variables; every array of an application has the common
\* shape of its outer dimensions around the inner ones (call is a constant).
TypeOK ==
  /\ pc \in {"match", "broadcast", "select", "done", "applied", "refused"}
  /\ why \in {"none", "match", "broadcast", "out", "order", "kernel"}
  /\ (why = "none") = (pc # "refused")
  /\ flags \subseteq AllFlags
  /\ kernel \in Kernels \union {"none"}
  /\ Applied =>
       /\ Len(types) = call.nin + 1
       /\ \A x \in Range(types) :
            /\ DOMAIN x.steps = DOMAIN x.shape
            /\ NDim(x) = outer + call.inner
            /\ OuterShape(x) = acc

\* _resolve_broadcast() finds the shape that NumPy's rule gives, whatever the
\* order of the arguments, and refuses no arguments that NumPy accepts.  What
\* it accepts beyond them (an extent after one of 0) has no elements.
NumpyShape ==
  /\ Compatible => why # "broadcast"
  /\ Applied => IF Compatible THEN acc = Common ELSE 0 \in Range(acc)

\* The element at an index of a broadcast argument is the element of the
\* argument at the same index, 0 in the dimensions of extent 1: broadcast()
\* and fast_broadcast() address no element that the argument does not have.
ElementsKept ==
  Applied => \A i \in DOMAIN call.args : \A idx \in Indices(types[i].shape) :
    /\ \A j \in DOMAIN Source(call.args[i], idx) :
         Source(call.args[i], idx)[j] < call.args[i].shape[j]
    /\ Offset(types[i], idx) = Offset(call.args[i], Source(call.args[i], idx))

\* Two iterations of a kernel never write the same element, so that they may
\* run in any order and in different threads: an output is never stretched,
\* unless the caller waives the check (vfold, which runs in one thread).
OutputsDisjoint ==
  LET Distinct(x) == \A i, j \in Indices(x.shape) : Offset(x, i) = Offset(x, j) => i = j
  IN  /\ Applied
      /\ HasOut => call.check /\ Distinct(call.args[Out])
      => Distinct(types[Out])

\* The kernel that is selected gets arguments in the memory order that it is
\* documented to be written for, all of them.
KernelAssumptions ==
  pc = "done" => \A x \in Range(types) : MayRun(kernel, x, call.inner)

\* The call finds a kernel, and the first in the order of preference, when the
\* function has one that is fit for its arguments: check_c() and check_f()
\* withdraw nothing that the arguments allow.
KernelFound ==
  LET Fit(k) == \A x \in Range(types) : ~Empty(x) /\ MayRun(k, x, call.inner)
      Rank(k) == CHOOSE i \in DOMAIN Order : Order[i] = k
  IN  /\ why = "kernel" => \A k \in call.avail : ~Fit(k)
      /\ pc = "done" => \A k \in call.avail : Fit(k) => Rank(kernel) <= Rank(k)

\* An output of the type that would have been inferred is not refused, but for
\* those with an extent of 0 or 1, whose steps broadcast() makes 0.
OutRefusedForCause ==
  why = "out" =>
    \/ ~Compatible
    \/ call.args[Out] # CArray(Common \o Inner(call.args[1], call.inner).shape)
    \/ ~call.fast /\ \E n \in Range(OuterShape(call.args[Out])) : n <= 1

\* The calls that are refused are those that NumPy would refuse.
RefusedForCause == NumpyShape /\ OutRefusedForCause

\* The kernel is one that the arguments allow, and the best of these.
KernelRight == KernelAssumptions /\ KernelFound

\* The test suite on signatures such as "C[... * N * float64]": contiguity is
\* "required for all dimensions after broadcast".
ContiguousAfterBroadcast ==
  Applied => \A i \in DOMAIN call.args : Meets(types[i], call.need[i])
=============================================================================
