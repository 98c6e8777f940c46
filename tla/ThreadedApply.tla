--------------------------- MODULE ThreadedApply ---------------------------
(***************************************************************************)
(* One call of gm_apply_thread() (gumath/libgumath/thread.c): the calling  *)
(* thread splits every argument into slices, starts one worker per slice,  *)
(* joins the workers in order, collects the first error and releases the   *)
(* slices and the thread_info array, which the workers use without any     *)
(* synchronisation but pthread_create() and pthread_join().                *)
(*                                                                         *)
(* A row is one element of the outer dimensions in row-major order; the    *)
(* kernel is called once per row (_gm_xnd_map) and may fail on some rows.  *)
(* Which rows a worker gets is the business of SplitSchedule; here it is   *)
(* the constant Tile.                                                      *)
(***************************************************************************)
EXTENDS Integers

CONSTANTS NThreads,   \* the nthreads argument
          NArgs,      \* nrows in the code: arguments and return values
          NRows,      \* elements of the outer dimensions
          NCols,      \* slices xnd_split() makes of the broadcast arguments
          Tile        \* Tile[w] = <<first, stop>>, the rows of slice w

Args == 0..(NArgs-1)
Rows == 0..(NRows-1)
Workers == 0..(NCols-1)
First(w) == Tile[w][1]
Stop(w) == Tile[w][2]

ASSUME ApplyAssumption ==
  /\ NThreads \in Nat \ {0}
  /\ NArgs \in Nat \ {0}
  /\ NRows \in Nat \ {0}
  /\ NCols \in 1..NThreads

\* What SplitSchedule guarantees: the slices are consecutive, in order and
\* cover all rows.
ASSUME TileAssumption ==
  /\ Tile \in [Workers -> (0..NRows) \X (0..NRows)]
  /\ \A w \in Workers : First(w) <= Stop(w)
  /\ \A v, w \in Workers : v < w => Stop(v) <= First(w)
  /\ \A r \in Rows : \E w \in Workers : First(w) <= r /\ r < Stop(w)

VARIABLES
  bad,       \* the rows on which the kernel fails
  large,     \* the arguments that are ndarrays of GM_THREAD_CUTOFF elements
  nslices,   \* nslices[i]: the slices that xnd_split() makes of argument i
  pc,        \* where the calling thread is
  i,         \* its loop counter over arguments, workers or rows
  slices,    \* the arguments whose slices are allocated
  tinfo,     \* the thread_info array: "none", "live" or "freed"
  ctx,       \* the caller's error context: "none" or the kind of error
  errRow,    \* the row a kernel error in ctx is about, else NRows
  wpc,       \* where each worker is
  row,       \* the next row of each worker
  wctx,      \* tinfo[w].ctx: the row whose error it holds, else NRows
  written,   \* how often the kernel has completed each row
  strayed    \* the workers that used slices or tinfo after they were freed

main == <<pc, i, slices, tinfo, ctx, errRow>>
input == <<bad, large, nslices>>
workers == <<wpc, row, wctx>>
vars == <<main, input, workers, written, strayed>>

\* After broadcasting all arguments have the outer shape of the first one, and
\* then nslices is NCols throughout; the C interface accepts others too.
Init ==
  /\ bad \in SUBSET Rows
  /\ large \in SUBSET Args
  /\ nslices \in [Args -> 1..NThreads]
  /\ nslices[0] = NCols
  /\ pc = "enter"
  /\ i = 0
  /\ slices = {}
  /\ tinfo = "none"
  /\ ctx = "none"
  /\ errRow = NRows
  /\ wpc = [w \in Workers |-> "none"]
  /\ row = [w \in Workers |-> First(w)]
  /\ wctx = [w \in Workers |-> NRows]
  /\ written = [r \in Rows |-> 0]
  /\ strayed = {}

-----------------------------------------------------------------------------
(* The calling thread.                                                     *)

\* clear_all_slices(), ndt_free(tinfo) and return.  `n` is the number of
\* arguments whose slices are released.
ReleaseAndReturn(n) ==
  /\ slices' = slices \ (0..(n-1))
  /\ tinfo' = IF tinfo = "live" THEN "freed" ELSE tinfo
  /\ pc' = "returned"

UseThreads == NThreads > 1 /\ large = Args

Enter ==
  /\ pc = "enter"
  /\ pc' = IF UseThreads THEN "split" ELSE "sequential"
  /\ UNCHANGED <<i, slices, tinfo, ctx, errRow, input, workers, written, strayed>>

\* gm_apply() in the calling thread, one row at a time.
SequentialRow ==
  /\ pc = "sequential"
  /\ i < NRows
  /\ i \notin bad
  /\ written' = [written EXCEPT ![i] = @ + 1]
  /\ i' = i + 1
  /\ UNCHANGED <<pc, slices, tinfo, ctx, errRow, input, workers, strayed>>

\* Wrong: the error of the kernel is lost.
SequentialReturn_LosesError ==
  /\ pc = "sequential"
  /\ i = NRows \/ i \in bad
  /\ pc' = "returned"
  /\ UNCHANGED <<i, ctx, errRow, slices, tinfo, input, workers, written, strayed>>

SequentialReturn ==
  /\ pc = "sequential"
  /\ \/ i = NRows /\ UNCHANGED <<ctx, errRow>>
     \/ i \in bad /\ ctx' = "kernel" /\ errRow' = i
  /\ pc' = "returned"
  /\ UNCHANGED <<i, slices, tinfo, input, workers, written, strayed>>

\* Wrong: the slices of the last argument are not released.
SplitArg_ReleasesOneLess ==
  /\ pc = "split"
  /\ i < NArgs
  /\ \/ /\ slices' = slices \union {i}
        /\ i' = i + 1
        /\ UNCHANGED <<pc, tinfo, ctx, errRow>>
     \/ /\ ctx' = "memory"
        /\ ReleaseAndReturn(i-1)
        /\ UNCHANGED <<i, errRow>>
  /\ UNCHANGED <<input, workers, written, strayed>>

SplitArg ==
  /\ pc = "split"
  /\ i < NArgs
  /\ \/ /\ slices' = slices \union {i}
        /\ i' = i + 1
        /\ UNCHANGED <<pc, tinfo, ctx, errRow>>
     \/ /\ ctx' = "memory"                        \* xnd_split() fails
        /\ ReleaseAndReturn(i)
        /\ UNCHANGED <<i, errRow>>
  /\ UNCHANGED <<input, workers, written, strayed>>

CheckSubdivision ==
  /\ pc = "split"
  /\ i = NArgs
  /\ \/ /\ \A k \in Args : nslices[k] = nslices[0]
        /\ pc' = "alloc"
        /\ UNCHANGED <<slices, tinfo, ctx>>
     \/ /\ \E k \in Args : nslices[k] # nslices[0]
        /\ ctx' = "subdivision"
        /\ ReleaseAndReturn(NArgs)
  /\ UNCHANGED <<i, errRow, input, workers, written, strayed>>

AllocThreadInfo ==
  /\ pc = "alloc"
  /\ \/ /\ tinfo' = "live"
        /\ i' = 0
        /\ pc' = "create"
        /\ UNCHANGED <<slices, ctx>>
     \/ /\ ctx' = "memory"
        /\ ReleaseAndReturn(NArgs)
        /\ UNCHANGED i
  /\ UNCHANGED <<errRow, input, workers, written, strayed>>

\* pthread_create() in the loop; its failure releases everything at once,
\* whatever the workers started so far are doing.
CreateWorker ==
  /\ pc = "create"
  /\ i < NCols
  /\ \/ /\ wpc' = [wpc EXCEPT ![i] = "created"]
        /\ i' = i + 1
        /\ UNCHANGED <<pc, slices, tinfo, ctx>>
     \/ /\ ctx' = "create"
        /\ ReleaseAndReturn(NArgs)
        /\ UNCHANGED <<i, wpc>>
  /\ UNCHANGED <<errRow, input, row, wctx, written, strayed>>

\* Wrong: the join loop starts where the create loop ended.
AllCreated_KeepsIndex ==
  /\ pc = "create"
  /\ i = NCols
  /\ pc' = "join"
  /\ UNCHANGED <<i, slices, tinfo, ctx, errRow, input, workers, written, strayed>>

AllCreated ==
  /\ pc = "create"
  /\ i = NCols
  /\ pc' = "join"
  /\ i' = 0
  /\ UNCHANGED <<slices, tinfo, ctx, errRow, input, workers, written, strayed>>

\* Wrong: the last error is kept.
JoinWorker_LastError ==
  /\ pc = "join"
  /\ i < NCols
  /\ wpc[i] = "done"
  /\ IF wctx[i] # NRows
     THEN ctx' = "kernel" /\ errRow' = wctx[i]
     ELSE UNCHANGED <<ctx, errRow>>
  /\ wctx' = [wctx EXCEPT ![i] = NRows]
  /\ i' = i + 1
  /\ UNCHANGED <<pc, slices, tinfo, input, wpc, row, written, strayed>>

\* pthread_join(); the first error in the order of the workers is kept.
JoinWorker ==
  /\ pc = "join"
  /\ i < NCols
  /\ wpc[i] = "done"
  /\ IF wctx[i] # NRows /\ ctx = "none"
     THEN ctx' = "kernel" /\ errRow' = wctx[i]
     ELSE UNCHANGED <<ctx, errRow>>
  /\ wctx' = [wctx EXCEPT ![i] = NRows]            \* ndt_err_clear
  /\ i' = i + 1
  /\ UNCHANGED <<pc, slices, tinfo, input, wpc, row, written, strayed>>

\* Wrong: the memory is released before all workers are joined.
AllJoined_Early ==
  /\ pc = "join"
  /\ ReleaseAndReturn(NArgs)
  /\ UNCHANGED <<i, ctx, errRow, input, workers, written, strayed>>

AllJoined ==
  /\ pc = "join"
  /\ i = NCols
  /\ ReleaseAndReturn(NArgs)
  /\ UNCHANGED <<i, ctx, errRow, input, workers, written, strayed>>

-----------------------------------------------------------------------------
(* The workers.                                                            *)

\* The slices, their types and tinfo are gone, but the worker still reads them.
Dangling == pc = "returned" /\ tinfo = "freed"

Touch(w) == strayed' = IF Dangling THEN strayed \union {w} ELSE strayed

\* Wrong: every worker takes the first slice.
StartWorker_FirstSlice(w) ==
  /\ wpc[w] = "created"
  /\ Touch(w)
  /\ wpc' = [wpc EXCEPT ![w] = "running"]
  /\ row' = [row EXCEPT ![w] = First(0)]
  /\ UNCHANGED <<main, input, wctx, written>>

\* apply_thread() copies its slice of every argument into its own stack.
StartWorker(w) ==
  /\ wpc[w] = "created"
  /\ Touch(w)
  /\ wpc' = [wpc EXCEPT ![w] = "running"]
  /\ UNCHANGED <<main, input, row, wctx, written>>

\* Wrong: the loop over the rows does not stop at the end of the slice.
WorkerRow_PastStop(w) ==
  /\ wpc[w] = "running"
  /\ row[w] \notin bad
  /\ Touch(w)
  /\ written' = [r \in Rows |-> written[r] + (IF r = row[w] THEN 1 ELSE 0)]
  /\ row' = [row EXCEPT ![w] = @ + 1]
  /\ UNCHANGED <<main, input, wpc, wctx>>

WorkerRow(w) ==
  /\ wpc[w] = "running"
  /\ row[w] < Stop(w)
  /\ row[w] \notin bad
  /\ Touch(w)
  /\ written' = [written EXCEPT ![row[w]] = @ + 1]
  /\ row' = [row EXCEPT ![w] = @ + 1]
  /\ UNCHANGED <<main, input, wpc, wctx>>

\* Wrong: the worker tries the failing row again.
WorkerError_Retries(w) ==
  /\ wpc[w] = "running"
  /\ row[w] < Stop(w)
  /\ row[w] \in bad
  /\ Touch(w)
  /\ wctx' = [wctx EXCEPT ![w] = row[w]]
  /\ UNCHANGED <<main, input, wpc, row, written>>

\* The kernel fails: gm_apply() stores the error in tinfo[w].ctx and returns.
WorkerError(w) ==
  /\ wpc[w] = "running"
  /\ row[w] < Stop(w)
  /\ row[w] \in bad
  /\ Touch(w)
  /\ wctx' = [wctx EXCEPT ![w] = row[w]]
  /\ wpc' = [wpc EXCEPT ![w] = "done"]
  /\ UNCHANGED <<main, input, row, written>>

WorkerDone(w) ==
  /\ wpc[w] = "running"
  /\ row[w] = Stop(w)
  /\ wpc' = [wpc EXCEPT ![w] = "done"]
  /\ UNCHANGED <<main, input, row, wctx, written, strayed>>

\* Using freed memory is undefined: it may work as before (the actions above)
\* or end the worker anywhere.
WorkerCrash(w) ==
  /\ wpc[w] \in {"created", "running"}
  /\ Dangling
  /\ Touch(w)
  /\ wpc' = [wpc EXCEPT ![w] = "crashed"]
  /\ UNCHANGED <<main, input, row, wctx, written>>

-----------------------------------------------------------------------------
Main ==
  \/ Enter \/ SequentialRow \/ SequentialReturn
  \/ SplitArg \/ CheckSubdivision \/ AllocThreadInfo
  \/ CreateWorker \/ AllCreated \/ JoinWorker \/ AllJoined

Worker(w) ==
  \/ StartWorker(w) \/ WorkerRow(w) \/ WorkerError(w)
  \/ WorkerDone(w) \/ WorkerCrash(w)

Next == Main \/ \E w \in Workers : Worker(w)

\* The operating system schedules every runnable thread eventually.
Fairness == WF_vars(Main) /\ \A w \in Workers : WF_vars(Worker(w))

Spec == Init /\ [][Next]_vars /\ Fairness
-----------------------------------------------------------------------------
(* Properties.                                                             *)

TypeOK ==
  /\ bad \in SUBSET Rows
  /\ large \in SUBSET Args
  /\ nslices \in [Args -> 1..NThreads]
  /\ pc \in {"enter", "sequential", "split", "alloc", "create", "join", "returned"}
  /\ i \in Nat
  /\ slices \in SUBSET Args
  /\ tinfo \in {"none", "live", "freed"}
  /\ ctx \in {"none", "memory", "subdivision", "create", "kernel"}
  /\ errRow \in 0..NRows
  /\ wpc \in [Workers -> {"none", "created", "running", "done", "crashed"}]
  /\ row \in [Workers -> 0..NRows]
  /\ wctx \in [Workers -> 0..NRows]
  /\ written \in [Rows -> Nat]
  /\ strayed \in SUBSET Workers

\* No worker uses the slices or the thread_info array after the caller has
\* released them, unless creating a thread failed: that return path does not
\* join the workers that already run (thread.c:149).
NoUseAfterFree == ctx # "create" => strayed = {}

\* Every return path releases all slices that were made and tinfo, however
\* far the call had come.
NothingLeaked == pc = "returned" => slices = {} /\ tinfo # "live"

\* The workers never compute a row twice between them (they write the output
\* without locks), and a call that succeeds has computed every row.
WrittenOnce ==
  /\ \A r \in Rows : written[r] <= 1
  /\ pc = "returned" /\ ctx = "none" => \A r \in Rows : written[r] = 1

\* A kernel error is reported as the sequential loop would report it, in
\* whatever order the workers fail and end: it is the error of the first
\* failing row, and all rows before that one are computed.  No kernel error is
\* lost.
FirstErrorReported ==
  /\ pc = "returned" /\ ctx = "kernel" =>
       /\ errRow \in bad
       /\ \A r \in bad : errRow <= r
       /\ \A r \in 0..(errRow-1) : written[r] = 1
  /\ pc = "returned" /\ bad # {} => ctx # "none"

\* gm_apply_thread() keeps the promise of gm_apply().
Contract == INSTANCE ApplyContract WITH
              result <- IF pc # "returned" THEN "running"
                        ELSE IF ctx = "none" THEN "ok" ELSE ctx,
              errRow <- IF pc = "returned" THEN errRow ELSE NRows

ImplementsContract == Contract!Spec

\* The call returns: no worker is waited for that was not started, and no
\* started worker waits for anything.
CallReturns == <>(pc = "returned")

\* No worker is left behind: every thread started ends, also when the caller
\* has returned without joining it.
WorkersEnd ==
  \A w \in Workers : (wpc[w] = "created") ~> (wpc[w] \in {"done", "crashed"})

\* The caller and all workers that it starts come to an end.
CallEnds == CallReturns /\ WorkersEnd
-----------------------------------------------------------------------------
(* The inductive invariant behind the safety properties.                   *)

Computed(w, r) == First(w) <= r /\ r < row[w]

\* The workers that exist at each point of the call.
WorkersInv ==
  /\ pc \in {"enter", "sequential", "split", "alloc"} =>
       /\ tinfo = "none"
       /\ ctx = "none"
       /\ \A w \in Workers : wpc[w] = "none"
  /\ pc = "create" =>
       /\ tinfo = "live"
       /\ ctx = "none"
       /\ i <= NCols
       /\ \A w \in Workers : wpc[w] # "none" <=> w < i
  /\ pc = "join" =>
       /\ tinfo = "live"
       /\ ctx \in {"none", "kernel"}
       /\ i <= NCols
       /\ \A w \in Workers : wpc[w] # "none" /\ (w < i => wpc[w] = "done")
  /\ pc = "returned" /\ ctx # "create" => \A w \in Workers : wpc[w] \in {"none", "done"}
  /\ tinfo = "freed" => pc = "returned"

\* What is allocated at each point of the call.
MemoryInv ==
  /\ pc = "enter" => i = 0
  /\ pc \in {"enter", "sequential"} => slices = {}
  /\ pc = "split" => i <= NArgs /\ slices = 0..(i-1)

\* Without threads the caller computes the rows before i; without an error it
\* does not return before the last row.
SequentialInv ==
  /\ pc = "sequential" => ~UseThreads
  /\ ~UseThreads =>
       /\ pc \in {"enter", "sequential", "returned"}
       /\ i <= NRows
       /\ \A r \in Rows : written[r] = IF r < i THEN 1 ELSE 0
       /\ \A r \in 0..(i-1) : r \notin bad
       /\ pc = "returned" => \/ ctx = "none" /\ i = NRows
                             \/ ctx = "kernel" /\ errRow = i /\ i \in bad

\* A worker has computed the rows of its slice up to row[w], none of them bad;
\* it ends at the end of the slice or at the first bad row, which stays in
\* wctx until it is joined.
RowsInv ==
  /\ UseThreads => pc # "sequential"
  /\ UseThreads => \A r \in Rows :
       written[r] = IF \E w \in Workers : Computed(w, r) THEN 1 ELSE 0
  /\ \A w \in Workers :
       /\ First(w) <= row[w] /\ row[w] <= Stop(w)
       /\ wpc[w] \in {"none", "created"} => row[w] = First(w)
       /\ \A r \in Rows : Computed(w, r) => r \notin bad
       /\ wctx[w] # NRows => wctx[w] = row[w]
       /\ wpc[w] = "done" /\ row[w] # Stop(w) => row[w] \in bad
       /\ wpc[w] = "done" /\ row[w] # Stop(w) /\ ~(pc = "returned") /\ ~(pc = "join" /\ w < i)
            => wctx[w] = row[w]
       /\ wctx[w] # NRows => wpc[w] = "done" /\ row[w] # Stop(w)

\* errRow is where the first failing worker stopped.
FirstFailure(last) ==
  \E w \in 0..(last-1) :
    /\ errRow = row[w]
    /\ row[w] < Stop(w)
    /\ row[w] \in bad
    /\ \A v \in 0..(w-1) : row[v] = Stop(v)

NoFailure(last) == \A w \in 0..(last-1) : row[w] = Stop(w)

\* The join loop has kept the error of the first failing worker so far.
ErrorInv ==
  /\ ctx # "kernel" => errRow = NRows
  /\ UseThreads =>
       /\ pc = "join" => IF ctx = "none" THEN NoFailure(i) ELSE FirstFailure(i)
       /\ pc = "returned" =>
            /\ ctx = "none" => NoFailure(NCols)
            /\ ctx = "kernel" => FirstFailure(NCols)

IInv ==
  /\ TypeOK
  /\ WorkersInv
  /\ MemoryInv
  /\ SequentialInv
  /\ RowsInv
  /\ ErrorInv
  /\ NoUseAfterFree
  /\ NothingLeaked
=============================================================================
