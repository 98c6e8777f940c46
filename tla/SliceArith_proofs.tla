-------------------------- MODULE SliceArith_proofs --------------------------
(***************************************************************************)
(* Slices stay inside of what they are taken from, whatever the length,    *)
(* the bounds and the step, and however many are taken one after another.  *)
(***************************************************************************)
EXTENDS SliceArith, TLAPS

\* An index that is accepted is one of the dimension, and it is the one that
\* Python counts from the end if it is negative (adjust_index()).
THEOREM IndexInDimension ==
  ASSUME NEW shape \in Nat, NEW i \in Int
  PROVE  /\ adjust_index(i, shape) # NoIndex => adjust_index(i, shape) \in 0 .. shape - 1
         /\ adjust_index(i, shape) # NoIndex <=> i \in -shape .. shape - 1
BY DEF adjust_index, NoIndex

\* A bound that is clipped lies in the range of the dimension.
LEMMA ClipInRange ==
  ASSUME NEW length \in Nat, NEW i \in Int, NEW step \in Int \ {0}
  PROVE  Clip(i, length, step) \in IF step < 0 THEN -1 .. length - 1 ELSE 0 .. length
BY DEF Clip

\* With k no more than d \div s, k steps of s lead no further than d.
LEMMA StepsWithin ==
  ASSUME NEW d \in Nat, NEW s \in Nat \ {0}, NEW k \in 0 .. d \div s
  PROVE  k * s \in 0 .. d
<1>1. /\ d \div s \in Nat
      /\ d % s \in 0 .. s - 1
      /\ d = s * (d \div s) + (d % s)
  OBVIOUS
<1> DEFINE q == d \div s
<1>2. k \in Nat /\ q \in Nat /\ k <= q /\ q - k \in Nat
  BY <1>1
<1> HIDE DEF q
<1>3. /\ s * q = s * k + s * (q - k)
      /\ s * k \in Nat
      /\ s * (q - k) \in Nat
      /\ k * s = s * k
  BY <1>2
<1>4. d >= s * q
  BY <1>1, <1>2 DEF q
<1>5. QED
  BY <1>3, <1>4, <1>2

\* Every position that a slice visits is one of the dimension
\* (xnd_slice_adjust_indices()): start and shape fit each other for both signs
\* of the step.
THEOREM SliceInDimension ==
  ASSUME NEW length \in Nat, NEW s \in [start : Int, stop : Int, step : Int \ {0}]
  PROVE  LET a == SliceAdjust(length, s)
         IN  /\ a.shape \in Nat
             /\ a.start \in Int
             /\ a.step = s.step
             /\ \A k \in 0 .. a.shape - 1 : a.start + k * a.step \in 0 .. length - 1
<1> DEFINE start == Clip(s.start, length, s.step)
           stop == Clip(s.stop, length, s.step)
           step == s.step
           shape == Count(start, stop, step)
<1>1. step \in Int \ {0}
  OBVIOUS
<1>2. /\ start \in IF step < 0 THEN -1 .. length - 1 ELSE 0 .. length
      /\ stop \in IF step < 0 THEN -1 .. length - 1 ELSE 0 .. length
  BY <1>1, ClipInRange
<1>3. SliceAdjust(length, s) = [start |-> start, step |-> step, shape |-> shape]
  BY DEF SliceAdjust
<1> SUFFICES /\ shape \in Nat
             /\ start \in Int
             /\ \A k \in 0 .. shape - 1 : start + k * step \in 0 .. length - 1
  BY <1>3
<1> HIDE DEF start, stop, step, shape
<1>4. start \in Int
  BY <1>1, <1>2
<1>5. CASE step < 0 /\ stop < start
  <2> DEFINE d == start - stop - 1
             t == -step
  <2>1. d \in Nat /\ t \in Nat \ {0}
    BY <1>1, <1>2, <1>5
  <2>2. shape = (d \div t) + 1
    BY <1>1, <1>2, <1>5 DEF shape, Count
  <2>3. d \div t \in Nat
    BY <2>1
  <2>4. ASSUME NEW k \in 0 .. shape - 1
        PROVE  start + k * step \in 0 .. length - 1
    <3>1. k \in 0 .. d \div t
      BY <2>2, <2>3
    <3>2. k * t \in 0 .. d
      BY <2>1, <3>1, StepsWithin
    <3>3. k * step = -(k * t)
      BY <1>1, <3>1, <2>3
    <3>4. start + k * step = start - k * t
      BY <1>4, <3>2, <3>3
    <3>5. QED
      BY <1>1, <1>2, <1>5, <3>2, <3>4
  <2>5. QED
    BY <1>4, <2>2, <2>3, <2>4
<1>6. CASE step > 0 /\ start < stop
  <2> DEFINE d == stop - start - 1
  <2>1. d \in Nat /\ step \in Nat \ {0}
    BY <1>1, <1>2, <1>6
  <2>2. shape = (d \div step) + 1
    BY <1>1, <1>2, <1>6 DEF shape, Count
  <2>3. d \div step \in Nat
    BY <2>1
  <2>4. ASSUME NEW k \in 0 .. shape - 1
        PROVE  start + k * step \in 0 .. length - 1
    <3>1. k \in 0 .. d \div step
      BY <2>2, <2>3
    <3>2. k * step \in 0 .. d
      BY <2>1, <3>1, StepsWithin
    <3>3. QED
      BY <1>1, <1>2, <1>6, <3>2
  <2>5. QED
    BY <1>4, <2>2, <2>3, <2>4
<1>7. CASE ~(step < 0 /\ stop < start) /\ ~(step > 0 /\ start < stop)
  <2>1. shape = 0
    BY <1>7 DEF shape, Count
  <2>2. QED
    BY <1>4, <2>1
<1>8. QED
  BY <1>5, <1>6, <1>7

\* A row of positions as ndt_var_indices() keeps it: start, step and shape.
Row == [start : Int, step : Int, shape : Nat]
Within(r, length) == \A k \in 0 .. r.shape - 1 : r.start + k * r.step \in 0 .. length - 1

\* A slice on top of the slices that a list has: still a row of positions, and
\* its positions are some of those that were there.
THEOREM SliceOfSlice ==
  ASSUME NEW r \in Row, NEW s \in [start : Int, stop : Int, step : Int \ {0}]
  PROVE  /\ Apply(r, s) \in Row
         /\ \A k \in 0 .. Apply(r, s).shape - 1 : \E j \in 0 .. r.shape - 1 :
              Apply(r, s).start + k * Apply(r, s).step = r.start + j * r.step
<1> DEFINE a == SliceAdjust(r.shape, s)
<1>1. r.start \in Int /\ r.step \in Int /\ r.shape \in Nat
  BY DEF Row
<1>2. /\ a.shape \in Nat
      /\ a.start \in Int
      /\ a.step \in Int
      /\ \A k \in 0 .. a.shape - 1 : a.start + k * a.step \in 0 .. r.shape - 1
  BY <1>1, SliceInDimension
<1>3. Apply(r, s) = [start |-> r.start + a.start * r.step, step |-> r.step * a.step, shape |-> a.shape]
  BY DEF Apply
<1> HIDE DEF a
<1>4. r.start + a.start * r.step \in Int /\ r.step * a.step \in Int
  BY <1>1, <1>2
<1>5. ASSUME NEW k \in 0 .. a.shape - 1
      PROVE  \E j \in 0 .. r.shape - 1 :
               (r.start + a.start * r.step) + k * (r.step * a.step) = r.start + j * r.step
  <2> DEFINE j == a.start + k * a.step
  <2>1. j \in 0 .. r.shape - 1
    BY <1>2
  <2>2. k \in Int
    BY <1>2
  <2>3. k * (r.step * a.step) = (k * a.step) * r.step
    BY <1>1, <1>2, <2>2
  <2>4. j * r.step = a.start * r.step + (k * a.step) * r.step
    BY <1>1, <1>2, <2>2
  <2>5. (r.start + a.start * r.step) + k * (r.step * a.step) = r.start + j * r.step
    <3>1. a.start * r.step \in Int /\ (k * a.step) * r.step \in Int
      BY <1>1, <1>2, <2>2
    <3>2. QED
      BY <1>1, <2>3, <2>4, <3>1
  <2>6. QED
    BY <2>1, <2>5
<1>6. QED
  BY <1>3, <1>4, <1>2, <1>5 DEF Row

\* A list that lies in the offsets of its dimension lies there under any slice,
\* so that reading a ragged array reaches no element of another list.
THEOREM SliceStaysInList ==
  ASSUME NEW length \in Nat, NEW r \in Row, Within(r, length),
         NEW s \in [start : Int, stop : Int, step : Int \ {0}]
  PROVE  Apply(r, s) \in Row /\ Within(Apply(r, s), length)
BY SliceOfSlice DEF Within

\* The whole list is such a row.
THEOREM WholeInList ==
  ASSUME NEW length \in Nat
  PROVE  Whole(length) \in Row /\ Within(Whole(length), length)
BY DEF Whole, Row, Within
=============================================================================
