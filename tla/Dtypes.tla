------------------------------- MODULE Dtypes --------------------------------
(***************************************************************************)
(* The numeric dtypes and which of their values another dtype also has.    *)
(***************************************************************************)
EXTENDS Integers, SequencesExt

Unsigned == <<"u8", "u16", "u32", "u64">>
Signed == <<"i8", "i16", "i32", "i64">>
Reals == <<"bf16", "f16", "f32", "f64">>
Complexes == <<"c32", "c64", "c128">>

IntegerTypes == Unsigned \o Signed
Numeric == IntegerTypes \o Reals \o Complexes
Dtypes == {"b"} \union ToSet(Numeric)

IsComplex(t) == t \in ToSet(Complexes)
-----------------------------------------------------------------------------
(* What a dtype is, independently of the code: the values of an integer    *)
(* type have at most "bits" bits, with a sign or without; those of a       *)
(* floating point type have "bits" bits of precision and exponents up to   *)
(* "range"; a complex number is a pair of them.                            *)

IntFormat(bits, sign) == [kind |-> "int", bits |-> bits, sign |-> sign, range |-> bits, pair |-> FALSE]
FloatFormat(bits, range) == [kind |-> "float", bits |-> bits, sign |-> TRUE, range |-> range, pair |-> FALSE]
Pair(t) == [t EXCEPT !.pair = TRUE]

Format ==
  [b |-> IntFormat(1, FALSE),
   u8 |-> IntFormat(8, FALSE), u16 |-> IntFormat(16, FALSE), u32 |-> IntFormat(32, FALSE), u64 |-> IntFormat(64, FALSE),
   i8 |-> IntFormat(7, TRUE), i16 |-> IntFormat(15, TRUE), i32 |-> IntFormat(31, TRUE), i64 |-> IntFormat(63, TRUE),
   bf16 |-> FloatFormat(8, 128), f16 |-> FloatFormat(11, 16), f32 |-> FloatFormat(24, 128), f64 |-> FloatFormat(53, 1024),
   c32 |-> Pair(FloatFormat(11, 16)), c64 |-> Pair(FloatFormat(24, 128)), c128 |-> Pair(FloatFormat(53, 1024))]

IsInteger(t) == Format[t].kind = "int"

\* Every value of t is exactly a value of u.
Exact(t, u) ==
  LET f == Format[t]
      g == Format[u]
  IN /\ f.bits <= g.bits /\ f.range <= g.range
     /\ f.sign => g.sign
     /\ f.kind = "float" => g.kind = "float"
     /\ f.pair => g.pair

\* u holds the values of both operands, and no type with fewer values does.
LeastCommon(u, t0, t1) ==
  /\ Exact(t0, u) /\ Exact(t1, u)
  /\ \A v \in Dtypes : (Exact(t0, v) /\ Exact(t1, v) /\ Exact(v, u)) => Exact(u, v)
=============================================================================
