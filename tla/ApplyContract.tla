--------------------------- MODULE ApplyContract ---------------------------
(***************************************************************************)
(* What the caller of gm_apply_thread() relies on, with or without         *)
(* threads: the kernel runs at most once on each row of the outer          *)
(* dimensions; success means it ran on all of them; a kernel error is the  *)
(* error of the first row that fails, with every row before it computed -  *)
(* what the sequential loop of gm_xnd_map() reports.  Only a call that     *)
(* failed to create a thread may still see rows computed after it          *)
(* returned.                                                               *)
(***************************************************************************)
EXTENDS Integers

CONSTANT NRows

Rows == 0..(NRows-1)

VARIABLES bad,       \* the rows on which the kernel fails
          written,   \* how often the kernel completed each row
          result,    \* "running", "ok" or the kind of the error returned
          errRow     \* the row a kernel error is about, else NRows

vars == <<bad, written, result, errRow>>

FirstBad(r) == r \in bad /\ \A s \in bad : r <= s

Init ==
  /\ bad \in SUBSET Rows
  /\ written = [r \in Rows |-> 0]
  /\ result = "running"
  /\ errRow = NRows

Compute(r) ==
  /\ result \in {"running", "create"}
  /\ r \notin bad
  /\ written[r] = 0
  /\ written' = [written EXCEPT ![r] = 1]
  /\ UNCHANGED <<bad, result, errRow>>

Succeed ==
  /\ result = "running"
  /\ bad = {}
  /\ \A r \in Rows : written[r] = 1
  /\ result' = "ok"
  /\ UNCHANGED <<bad, written, errRow>>

FailInKernel(r) ==
  /\ result = "running"
  /\ FirstBad(r)
  /\ \A s \in 0..(r-1) : written[s] = 1
  /\ result' = "kernel"
  /\ errRow' = r
  /\ UNCHANGED <<bad, written>>

\* Memory or an unequal subdivision: nothing has been computed.
FailBeforeStart ==
  /\ result = "running"
  /\ \A r \in Rows : written[r] = 0
  /\ result' \in {"memory", "subdivision"}
  /\ UNCHANGED <<bad, written, errRow>>

FailToCreateThread ==
  /\ result = "running"
  /\ result' = "create"
  /\ UNCHANGED <<bad, written, errRow>>

Next ==
  \/ \E r \in Rows : Compute(r)
  \/ Succeed
  \/ \E r \in Rows : FailInKernel(r)
  \/ FailBeforeStart
  \/ FailToCreateThread

Spec == Init /\ [][Next]_vars
=============================================================================
