------------------------------- MODULE Numbers -------------------------------
(***************************************************************************)
(* Copying a number to another dtype and comparing numbers of two dtypes.  *)
(* A number is a pair of a real and an imaginary part, both counted in     *)
(* halves, so that there are fractions.  The dtypes are the ones of the    *)
(* code with fewer bits: what matters is which of them has the numbers of  *)
(* which other, and where doubles cease to have every integer.             *)
(***************************************************************************)
EXTENDS Integers, Sequences, FiniteSets

CONSTANTS
  Format,    \* of each dtype: kind; bounds of integers; digits and bound of a part of the others
  Limit,     \* 2^52: up to here doubles have every integer, and their neighbours, too
  Inf,       \* larger than all numbers
  NaN        \* and not a number

ASSUME NumberAssumption ==
  /\ Limit \in Nat /\ Inf \in Nat /\ NaN \in Nat /\ NaN > Inf
  /\ \A t \in DOMAIN Format : Format[t].kind \in {"int", "float", "complex"} /\ Format[t].top < Inf

Real(re) == <<re, 0>>
IsInt(t) == Format[t].kind = "int"
IsFloat(t) == Format[t].kind = "float"
IsComplex(t) == Format[t].kind = "complex"
Special(a) == a \in {-Inf, Inf, NaN}
Abs(a) == IF a < 0 THEN -a ELSE a

\* The integer dtypes that have more integers than a double.
Wide == {t \in DOMAIN Format : IsInt(t) /\ Format[t].high > Limit}

\* The multiple of unit that is nearest to a, the even one of two.
NearestMultiple(unit, a) ==
  LET q == Abs(a) \div unit
      r == Abs(a) % unit
      up == 2 * r > unit \/ (2 * r = unit /\ q % 2 = 1)
  IN  (IF a < 0 THEN -unit ELSE unit) * (IF up THEN q + 1 ELSE q)

\* Rounding to this many digits.
Round(digits, a) ==
  NearestMultiple(2 ^ (CHOOSE e \in 0 .. 20 : Abs(a) < 2 ^ (digits + e) /\ (e = 0 \/ Abs(a) >= 2 ^ (digits + e - 1))), a)

\* The nearest number of a floating point format; what is too large becomes infinite.
Bounded(t, a) == IF Special(a) \/ Abs(a) < Format[t].top THEN a ELSE IF a < 0 THEN -Inf ELSE Inf
ToFloat(t, a) == Bounded(t, IF Special(a) THEN a ELSE Round(Format[t].digits, a))

\* bfloat16 numbers are rounded twice and may become infinite; a double that is stored as half or
\* single precision may not.
RoundedTwice == {"bf16", "bc32"}
None == <<>>
Unless(fails, r) == IF fails THEN None ELSE r
Finite(a, r) == Unless(Special(r) /\ ~Special(a), <<r>>)
pack(t, a) == IF t \in RoundedTwice THEN <<ToFloat(t, ToFloat("f32", a))>> ELSE Finite(a, ToFloat(t, a))

\* The two parts of a number, each stored or None.
Both(re, im) == Unless(re = None \/ im = None, re \o im)
PackReal(t, a) == Both(pack(t, a), <<0>>)

-----------------------------------------------------------------------------
\* Copying: the number as dtype u has it, or None for an error.
copy_int64(u, a) ==
  IF IsInt(u) THEN (IF a >= Format[u].low /\ a <= Format[u].high THEN Real(a) ELSE None)
  ELSE IF a >= -Limit /\ a <= Limit THEN PackReal(u, a) ELSE None

copy_uint64(u, a) ==
  IF IsInt(u) THEN (IF a <= Format[u].high THEN Real(a) ELSE None)
  ELSE IF a <= Limit THEN PackReal(u, a) ELSE None

isint(a) == ~Special(a) /\ a % 2 = 0
copy_float64(u, a) ==
  IF ~IsInt(u) THEN PackReal(u, a)
  ELSE IF /\ isint(a) /\ a >= Format[u].low /\ a <= Format[u].high
          /\ u \in Wide => a >= -Limit /\ a <= Limit
       THEN Real(a) ELSE None

copy_complex128(u, re, im) ==
  IF IsComplex(u) THEN Both(pack(u, re), pack(u, im)) ELSE IF im = 0 THEN copy_float64(u, re) ELSE None

copy_number(t, u, v) ==
  CASE IsInt(t) /\ Format[t].low < 0 -> copy_int64(u, v[1])
    [] IsInt(t) /\ Format[t].low = 0 -> copy_uint64(u, v[1])
    [] IsFloat(t) -> copy_float64(u, v[1])
    [] OTHER -> copy_complex128(u, v[1], v[2])

-----------------------------------------------------------------------------
\* Comparing.  Doubles: NaN is not equal to anything.
Same(a, b) == a = b /\ a # NaN

\* Integers are compared to doubles only up to the limit.  llabs() of the smallest one has no
\* defined value: "wraps" is whether it is taken to be below the limit.
Comparable(t, a, wraps) == Abs(a) <= Limit \/ (wraps /\ t = "i64" /\ a = Format[t].low)

equal_int64(t, a, u, v, wraps) ==
  IF IsInt(u) THEN a = v[1]
  ELSE (IsComplex(u) => v[2] = 0) /\ Comparable(t, a, wraps) /\ Same(a, v[1])

equal_uint64(a, u, v) ==
  IF IsInt(u) THEN a = v[1]
  ELSE (IsComplex(u) => v[2] = 0) /\ a <= Limit /\ Same(a, v[1])

equal_float64(a, u, v, wraps) ==
  IF IsInt(u) THEN Comparable(u, v[1], wraps) /\ Same(a, v[1])
  ELSE (IsComplex(u) => v[2] = 0) /\ Same(a, v[1])

\* The imaginary part is looked at for all dtypes but "u64".
equal_complex128(re, im, u, v, wraps) ==
  CASE IsComplex(u) -> Same(re, v[1]) /\ Same(im, v[2])
    [] IsFloat(u) -> im = 0 /\ Same(re, v[1])
    [] IsInt(u) /\ u # "u64" -> im = 0 /\ Comparable(u, v[1], wraps) /\ Same(re, v[1])
    [] OTHER -> v[1] <= Limit /\ Same(re, v[1])

equal_number_Parts(t, v, u, w, wraps) ==
  CASE IsInt(t) /\ Format[t].low < 0 -> equal_int64(t, v[1], u, w, wraps)
    [] IsInt(t) /\ Format[t].low = 0 -> equal_uint64(v[1], u, w)
    [] IsFloat(t) -> equal_float64(v[1], u, w, wraps)
    [] OTHER -> equal_float64(v[1], u, w, wraps)
equal_number(t, v, u, w, wraps) ==
  CASE IsInt(t) /\ Format[t].low < 0 -> equal_int64(t, v[1], u, w, wraps)
    [] IsInt(t) /\ Format[t].low = 0 -> equal_uint64(v[1], u, w)
    [] IsFloat(t) -> equal_float64(v[1], u, w, wraps)
    [] IsComplex(t) /\ v[2] = 0 -> equal_float64(v[1], u, w, wraps)
    [] OTHER -> equal_complex128(v[1], v[2], u, w, wraps)

strict_equal_number(t, v, u, w) == t = u /\ Same(v[1], w[1]) /\ Same(v[2], w[2])

-----------------------------------------------------------------------------
\* What the dtypes are: the numbers that each of them has.
PartOf(t, a) ==
  IF IsInt(t) THEN ~Special(a) /\ a % 2 = 0 /\ a >= Format[t].low /\ a <= Format[t].high
  ELSE Special(a) \/ (Abs(a) < Format[t].top
                      /\ \E e \in 0 .. 20 : Abs(a) % 2 ^ e = 0 /\ Abs(a) < 2 ^ (Format[t].digits + e))
NumberOf(t, v) == PartOf(t, v[1]) /\ (IF IsComplex(t) THEN PartOf(t, v[2]) ELSE v[2] = 0)

\* No number of the dtype is nearer to a than r; beyond the largest there is only infinity.
Nearest(t, a, r) ==
  IF Special(a) THEN r = a
  ELSE IF Special(r) THEN ~IsInt(t) /\ ~\E c \in Abs(a) .. Format[t].top : PartOf(t, c)
  ELSE PartOf(t, r) /\ \A c \in a - Abs(a - r) + 1 .. a + Abs(a - r) - 1 : ~PartOf(t, c)

\* The number nearest to v, of a dtype that is rounded twice the one nearest to the one in single precision.
NearestTo(t, a, r) ==
  IF t \in RoundedTwice
  THEN \E s \in {Inf, -Inf, NaN} \union (a - 64 .. a + 64) : Nearest("f32", a, s) /\ Nearest(t, s, r)
  ELSE Nearest(t, a, r)
NearestNumber(t, v, w) ==
  /\ NearestTo(t, v[1], w[1])
  /\ IF IsComplex(t) THEN NearestTo(t, v[2], w[2]) ELSE v[2] = 0 /\ w[2] = 0

\* The same number, whatever the dtypes.
SameNumber(v, w) == Same(v[1], w[1]) /\ Same(v[2], w[2])

\* Between an integer and a double these are neither copied nor equal.
Beyond(t, v, u, w) == IsInt(t) # IsInt(u) /\ Abs(IF IsInt(t) THEN v[1] ELSE w[1]) > Limit
=============================================================================
