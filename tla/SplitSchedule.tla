--------------------------- MODULE SplitSchedule ---------------------------
(***************************************************************************)
(* The recursion of xnd/libxnd/split.c that cuts the outer dimensions of   *)
(* an array into at most n slices.  A slice is a row of index ranges, one  *)
(* per leading dimension that the schedule touches; the dimensions after   *)
(* them are taken whole.  A range is <<start, stop>>, stop excluded.       *)
(*                                                                         *)
(* The code fills a matrix of nrows x ncols ranges in place and advances   *)
(* `row` by the length of each finished block; here a block is the         *)
(* sequence of its rows, and advancing is concatenation.                   *)
(***************************************************************************)
EXTENDS SplitArith, Sequences, SequencesExt

\* last_column(): the m indices of a dimension dealt to n <= m parts.
LastColumn(m, n) ==
  [i \in 1..n |->
     << <<start(i-1, m % n, m \div n), stop(i-1, m % n, m \div n)>> >>]

\* single_step_slice() and prepend(): index i in front of each row of a block.
Prepend(i, block) == [k \in 1..Len(block) |-> << <<i, i+1>> >> \o block[k]]

\* column(): n parts of a dimension of extent m, where below[j] are the rows of
\* j parts of the dimensions after it.
Column(m, n, below) ==
  FlattenSeq([i \in 1..m |-> Prepend(i-1, below[step(i-1, n % m, n \div m)])])

\* schedule(): the rows for `parts` parts of `shape`.  sched[k][n] are the rows
\* of n parts of the last k dimensions.
Schedule(shape, parts) ==
  LET sched[k \in 0..Len(shape)] ==
        [n \in 1..parts |->
           IF k = 0 THEN << << >> >>
           ELSE LET m == shape[Len(shape) - k + 1]
                IN  IF n <= m THEN LastColumn(m, n) ELSE Column(m, n, sched[k-1])]
  IN  sched[Len(shape)][parts]

-----------------------------------------------------------------------------
(***************************************************************************)
(* How much of the row-major order of the outer index space a row stands   *)
(* for.                                                                    *)
(***************************************************************************)

\* Volume(shape)[k] is the number of elements of the last k dimensions.
Volume(shape) ==
  LET vol[k \in 0..Len(shape)] == IF k = 0 THEN 1 ELSE shape[Len(shape) - k + 1] * vol[k-1]
  IN  vol

Size(shape) == Volume(shape)[Len(shape)]

\* The first position and the number of positions of a row that starts k
\* dimensions before the end; `tail` counts its ranges from the last one.
RowFirst(vol, k, row) ==
  LET first[tail \in 0..Len(row)] ==
        IF tail = 0 THEN 0
        ELSE row[Len(row) - tail + 1][1] * vol[k - Len(row) + tail - 1] + first[tail-1]
  IN  first[Len(row)]

RowSize(vol, k, row) ==
  LET size[tail \in 0..Len(row)] ==
        IF tail = 0 THEN vol[k - Len(row)]
        ELSE (row[Len(row) - tail + 1][2] - row[Len(row) - tail + 1][1]) * size[tail-1]
  IN  size[Len(row)]

\* A row as an interval <<first, stop>> of the row-major order.
Interval(vol, k, row) ==
  <<RowFirst(vol, k, row), RowFirst(vol, k, row) + RowSize(vol, k, row)>>

\* The slices as intervals.
Tiles(shape, rows) ==
  [i \in 1..Len(rows) |-> Interval(Volume(shape), Len(shape), rows[i])]
=============================================================================
