---------------------------- MODULE SplitArith ----------------------------
(***************************************************************************)
(* The arithmetic of xnd/libxnd/split.c: m items are dealt to n parts, the *)
(* first r = m % n parts get q + 1 of them, the others q = m \div n.       *)
(***************************************************************************)
EXTENDS Integers

start(i, r, q) == IF i < r THEN i * (q+1) ELSE r + i*q

\* Wrong variants, named <operator>_<fault>, show that the properties notice.
stop_ForgetsRemainder(i, r, q) == IF i < r THEN (i+1) * (q+1) ELSE (i+1)*q

stop(i, r, q) == IF i < r THEN (i+1) * (q+1) ELSE r + (i+1)*q

step_RemainderToFirst(i, r, q) == IF i = 0 THEN q + r ELSE q

step(i, r, q) == IF i < r THEN q + 1 ELSE q
=============================================================================
