----------------------------- MODULE SliceArith -----------------------------
(***************************************************************************)
(* Arithmetic of indices and slices: what libndtypes and libxnd compute    *)
(* for a dimension of a given length, and what Python says of a list of    *)
(* that length (the reference definitions, after the line).                *)
(***************************************************************************)
EXTENDS Integers, Sequences, SequencesExt

\* What a start or stop that is left out of a slice is replaced by.
CONSTANT Far

ASSUME FarAssumption == Far \in Nat \ {0}

NoIndex == -1

\* The parts of a slice as Python passes them on: each is <<>> (left out) or <<value>>.
Unpack(start, stop, step) ==
  LET by == IF step = <<>> THEN 1 ELSE step[1]
  IN  [start |-> IF start # <<>> THEN start[1] ELSE IF by < 0 THEN Far ELSE 0,
       stop |-> IF stop # <<>> THEN stop[1] ELSE IF by < 0 THEN -Far - 1 ELSE Far,
       step |-> by]

\* A negative index counts from the end; NoIndex stands for the IndexError.
adjust_index(i, shape) ==
  LET k == IF i < 0 THEN i + shape ELSE i
  IN  IF k \in 0 .. shape - 1 THEN k ELSE NoIndex

Clip_Open(i, length, step) ==
  IF i < 0
  THEN IF i + length < 0 THEN (IF step < 0 THEN -1 ELSE 0) ELSE i + length
  ELSE i

\* The start or stop of a slice, moved into the range in which it has an effect.
Clip(i, length, step) ==
  IF i < 0
  THEN IF i + length < 0 THEN (IF step < 0 THEN -1 ELSE 0) ELSE i + length
  ELSE IF i >= length THEN (IF step < 0 THEN length - 1 ELSE length) ELSE i

\* The number of elements from start to stop.
Count(start, stop, step) ==
  CASE step < 0 /\ stop < start -> ((start - stop - 1) \div (-step)) + 1
    [] step > 0 /\ start < stop -> ((stop - start - 1) \div step) + 1
    [] OTHER -> 0

SliceAdjust(length, s) ==
  LET start == Clip(s.start, length, s.step)
      stop == Clip(s.stop, length, s.step)
  IN  [start |-> start, step |-> s.step, shape |-> Count(start, stop, s.step)]

Apply_Shift(r, s) ==
  LET a == SliceAdjust(r.shape, s)
  IN  [start |-> r.start + a.start, step |-> r.step * a.step, shape |-> a.shape]

\* One more slice on top of those that have been applied to a list of a ragged dimension.
Apply(r, s) ==
  LET a == SliceAdjust(r.shape, s)
  IN  [start |-> r.start + a.start * r.step, step |-> r.step * a.step, shape |-> a.shape]

\* The same, if the slice leaves anything.
ApplyNonEmpty(r, s) == IF SliceAdjust(r.shape, s).shape > 0 THEN Apply(r, s) ELSE r

Whole(length) == [start |-> 0, step |-> 1, shape |-> length]

Stacked(Op(_, _), slices, offsets, i) ==
  LET r == FoldLeft(Op, Whole(offsets[i + 2] - offsets[i + 1]), slices)
  IN  [r EXCEPT !.start = @ + offsets[i + 1]]

\* Position, step and length of list i of a ragged dimension under its slices.
HasList(offsets, i) == i \in 0 .. Len(offsets) - 2
ndt_var_indices(slices, offsets, i) == Stacked(Apply, slices, offsets, i)
ndt_var_indices_non_empty(slices, offsets, i) == Stacked(ApplyNonEmpty, slices, offsets, i)

-----------------------------------------------------------------------------
\* Python: the indices that a slice of a list of this length visits.
Visited(length, s) ==
  LET Pos(i) == IF i < 0 THEN i + length ELSE i
      Up(i) == i >= Pos(s.start) /\ i < Pos(s.stop)
               /\ (i - (IF Pos(s.start) < 0 THEN 0 ELSE Pos(s.start))) % s.step = 0
      Down(i) == i <= Pos(s.start) /\ i > Pos(s.stop)
                 /\ ((IF Pos(s.start) >= length THEN length - 1 ELSE Pos(s.start)) - i) % (-s.step) = 0
      Hit == {i \in 0 .. length - 1 : IF s.step > 0 THEN Up(i) ELSE Down(i)}
      ByStep == [k \in 1 .. length |-> IF s.step > 0 THEN k - 1 ELSE length - k]
  IN  SelectSeq(ByStep, LAMBDA i : i \in Hit)

\* The indices that start, step and shape stand for.
Reached(r) == [k \in 1 .. r.shape |-> r.start + (k - 1) * r.step]
=============================================================================
