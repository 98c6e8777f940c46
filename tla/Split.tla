------------------------------- MODULE Split -------------------------------
(***************************************************************************)
(* One call of xnd_split() (xnd/libxnd/split.c): validate the arguments,   *)
(* compute the schedule, make one slice per row, report through *nparts    *)
(* how many slices there are.                                              *)
(***************************************************************************)
EXTENDS SplitSchedule, FiniteSetsExt

CONSTANTS MaxParts,   \* the largest nparts a caller asks for
          MaxShape,   \* bound on the extent of one dimension
          MaxDims     \* bound on the number of outer dimensions

ASSUME BoundsAssumption ==
  /\ MaxParts \in Nat \ {0}
  /\ MaxShape \in Nat \ {0}
  /\ MaxDims \in Nat \ {0}

VARIABLES shape,      \* the outer dimensions (get_shape(), at most max_outer)
          emptyInner, \* whether a dimension after them has no elements
          nparts,     \* the in/out parameter *nparts
          result,     \* the rows handed to xnd_subscript()
          status      \* "called", "split" or "error"

arguments == <<shape, emptyInner>>
splitVars == <<arguments, nparts, result, status>>

Shapes == UNION {[1..d -> 0..MaxShape] : d \in 0..MaxDims}

SplitInit ==
  /\ shape \in Shapes
  /\ emptyInner \in BOOLEAN
  /\ nparts \in 0..MaxParts
  /\ result = << >>
  /\ status = "called"

\* nparts < 1, or a dimension without elements.
InvalidCall == nparts < 1 \/ emptyInner \/ \E d \in DOMAIN shape : shape[d] <= 0

\* The early returns of xnd_split() and get_shape().
Refuse ==
  /\ status = "called"
  /\ InvalidCall
  /\ status' = "error"
  /\ UNCHANGED <<arguments, nparts, result>>

\* An allocation fails, or xnd_subscript() does and free_slices() undoes the
\* slices made so far: nothing is returned and *nparts keeps its value.
OutOfMemory ==
  /\ status = "called"
  /\ ~InvalidCall
  /\ status' = "error"
  /\ UNCHANGED <<arguments, nparts, result>>

\* Wrong: one slice too many is reported.
SplitShape_CountsOneMore ==
  /\ status = "called"
  /\ ~InvalidCall
  /\ result' = Schedule(shape, nparts)
  /\ nparts' = Len(result') + 1
  /\ status' = "split"
  /\ UNCHANGED arguments

SplitShape ==
  /\ status = "called"
  /\ ~InvalidCall
  /\ result' = Schedule(shape, nparts)
  /\ nparts' = Len(result')
  /\ status' = "split"
  /\ UNCHANGED arguments

SplitNext == Refuse \/ OutOfMemory \/ SplitShape

SplitSpec == SplitInit /\ [][SplitNext]_splitVars

-----------------------------------------------------------------------------
SplitTypeOK ==
  /\ shape \in Shapes
  /\ emptyInner \in BOOLEAN
  /\ nparts \in 0..MaxParts
  /\ \A i \in DOMAIN result : Len(result[i]) <= Len(shape)
  /\ status \in {"called", "split", "error"}

Cells == {f \in [DOMAIN shape -> 0..(MaxShape-1)] :
            \A d \in DOMAIN shape : f[d] < shape[d]}

CellsOf(row) == {f \in Cells : \A d \in DOMAIN row : row[d][1] <= f[d] /\ f[d] < row[d][2]}

(***************************************************************************)
(* Every element of the outer index space lies in exactly one slice: no    *)
(* element is processed by two threads and none is skipped, whatever the   *)
(* way n and the extents divide.                                           *)
(***************************************************************************)
SlicesPartition ==
  status = "split" =>
    \A f \in Cells : \E i \in DOMAIN result :
      \A k \in DOMAIN result : f \in CellsOf(result[k]) <=> k = i

(***************************************************************************)
(* The slices are consecutive intervals of the row-major order, in the     *)
(* order of the result, and none is empty: processing them one after the   *)
(* other is processing the array front to back (what lets gm_apply_thread  *)
(* report the error a sequential loop would have met first).               *)
(***************************************************************************)
SlicesInOrder ==
  status = "split" =>
    LET tiles == Tiles(shape, result)
    IN  /\ tiles[1][1] = 0
        /\ \A i \in DOMAIN tiles : tiles[i][1] < tiles[i][2]
        /\ \A i \in 1..(Len(tiles)-1) : tiles[i][2] = tiles[i+1][1]
        /\ tiles[Len(tiles)][2] = Size(shape)

(***************************************************************************)
(* The slices tile the array, in order.                                    *)
(***************************************************************************)
SlicesTile == SlicesPartition /\ SlicesInOrder

(***************************************************************************)
(* xnd_split() makes exactly as many slices as asked for, or one per       *)
(* element of the outer dimensions when there are fewer: the rows never    *)
(* outgrow the nrows x ncols matrix allocated for them, and two arrays of  *)
(* the same outer shape are always cut alike, which gm_apply_thread needs  *)
(* (it refuses an unequal subdivision).                                    *)
(***************************************************************************)
AsManyAsPossible ==
  [][status' = "split" =>
       nparts' = Min({nparts, Size(shape)})]_splitVars
=============================================================================
