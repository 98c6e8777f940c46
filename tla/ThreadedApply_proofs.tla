----------------------- MODULE ThreadedApply_proofs -----------------------
(***************************************************************************)
(* Safety of gm_apply_thread() for every number of threads, arguments and  *)
(* rows, every way to cut the rows into consecutive slices and every set   *)
(* of failing rows, and that it implements ApplyContract.                  *)
(***************************************************************************)
EXTENDS ThreadedApply, TLAPS

USE ApplyAssumption DEF ApplyAssumption

\* A slice is an interval of rows.
LEMMA TileType ==
  ASSUME NEW w \in Workers
  PROVE  First(w) \in 0..NRows /\ Stop(w) \in 0..NRows /\ First(w) <= Stop(w)
BY TileAssumption DEF TileAssumption, First, Stop

\* The types hold at the call.
LEMMA TypeInit == Init => TypeOK
<1> SUFFICES ASSUME Init PROVE TypeOK
  OBVIOUS
<1>1. row \in [Workers -> 0..NRows]
  BY TileType DEF Init
<1>2. QED
  BY <1>1 DEF Init, TypeOK, Args, Rows, Workers

\* Every step of the caller and of the workers keeps the types.
LEMMA TypeNext == TypeOK /\ [Next]_vars => TypeOK'
<1> SUFFICES ASSUME TypeOK, [Next]_vars
             PROVE  TypeOK'
  OBVIOUS
<1> USE DEF TypeOK
<1>1. CASE Enter
  BY <1>1 DEF Enter, input, workers
<1>2. CASE SequentialRow
  BY <1>2 DEF SequentialRow, input, workers, Rows
<1>3. CASE SequentialReturn
  BY <1>3 DEF SequentialReturn, input, workers, Rows
<1>4. CASE SplitArg
  <2>1. i \in Args
    BY <1>4 DEF SplitArg, Args
  <2>2. slices' \subseteq Args
    BY <1>4, <2>1 DEF SplitArg, ReleaseAndReturn
  <2>3. i' \in Nat
    BY <1>4 DEF SplitArg
  <2>4. pc' \in {"split", "returned"} /\ tinfo' \in {tinfo, "freed"} /\ ctx' \in {ctx, "memory"}
    BY <1>4 DEF SplitArg, ReleaseAndReturn
  <2>5. UNCHANGED <<input, workers, written, strayed, errRow>>
    BY <1>4 DEF SplitArg
  <2>6. QED
    BY <2>2, <2>3, <2>4, <2>5 DEF input, workers
<1>5. CASE CheckSubdivision
  BY <1>5 DEF CheckSubdivision, ReleaseAndReturn, input, workers
<1>6. CASE AllocThreadInfo
  BY <1>6 DEF AllocThreadInfo, ReleaseAndReturn, input, workers
<1>7. CASE CreateWorker
  BY <1>7 DEF CreateWorker, ReleaseAndReturn, input
<1>8. CASE AllCreated
  BY <1>8 DEF AllCreated, input, workers
<1>9. CASE JoinWorker
  BY <1>9 DEF JoinWorker, input, Workers
<1>10. CASE AllJoined
  BY <1>10 DEF AllJoined, ReleaseAndReturn, input, workers
<1>11. ASSUME NEW w \in Workers, StartWorker(w)
       PROVE  TypeOK'
  BY <1>11 DEF StartWorker, Touch, main, input
<1>12. ASSUME NEW w \in Workers, WorkerRow(w)
       PROVE  TypeOK'
  <2>1. row[w] \in Rows /\ row[w] + 1 \in 0..NRows
    BY <1>12, TileType DEF WorkerRow, Rows
  <2>2. QED
    BY <1>12, <2>1 DEF WorkerRow, Touch, main, input
<1>13. ASSUME NEW w \in Workers, WorkerError(w)
       PROVE  TypeOK'
  BY <1>13 DEF WorkerError, Touch, main, input
<1>14. ASSUME NEW w \in Workers, WorkerDone(w)
       PROVE  TypeOK'
  BY <1>14 DEF WorkerDone, main, input
<1>15. ASSUME NEW w \in Workers, WorkerCrash(w)
       PROVE  TypeOK'
  BY <1>15 DEF WorkerCrash, Touch, main, input
<1>16. CASE UNCHANGED vars
  BY <1>16 DEF vars, main, input, workers
<1>17. QED
  BY <1>1, <1>2, <1>3, <1>4, <1>5, <1>6, <1>7, <1>8, <1>9, <1>10, <1>11,
     <1>12, <1>13, <1>14, <1>15, <1>16 DEF Next, Main, Worker

\* A step keeps what is known of the workers at each point of the call: a worker
\* exists from its creation on, and all have ended before the caller returns.
LEMMA WorkersStep ==
  TypeOK /\ WorkersInv /\ NoUseAfterFree /\ [Next]_vars => WorkersInv' /\ NoUseAfterFree'
<1> SUFFICES ASSUME TypeOK, WorkersInv, NoUseAfterFree, [Next]_vars
             PROVE  WorkersInv' /\ NoUseAfterFree'
  OBVIOUS
<1> USE DEF TypeOK, WorkersInv, NoUseAfterFree
<1>1. CASE Enter
  BY <1>1 DEF Enter, input, workers
<1>2. CASE SequentialRow
  BY <1>2 DEF SequentialRow, input, workers
<1>3. CASE SequentialReturn
  BY <1>3 DEF SequentialReturn, input, workers
<1>4. CASE SplitArg
  BY <1>4 DEF SplitArg, ReleaseAndReturn, input, workers
<1>5. CASE CheckSubdivision
  BY <1>5 DEF CheckSubdivision, ReleaseAndReturn, input, workers
<1>6. CASE AllocThreadInfo
  BY <1>6 DEF AllocThreadInfo, ReleaseAndReturn, input, workers, Workers
<1>7. CASE CreateWorker
  BY <1>7 DEF CreateWorker, ReleaseAndReturn, input, Workers
<1>8. CASE AllCreated
  BY <1>8 DEF AllCreated, input, workers, Workers
<1>9. CASE JoinWorker
  BY <1>9 DEF JoinWorker, input, Workers
<1>10. CASE AllJoined
  BY <1>10 DEF AllJoined, ReleaseAndReturn, input, workers, Workers
<1>11. ASSUME NEW w \in Workers, StartWorker(w)
       PROVE  WorkersInv' /\ NoUseAfterFree'
  BY <1>11 DEF StartWorker, Touch, Dangling, main, input
<1>12. ASSUME NEW w \in Workers, WorkerRow(w)
       PROVE  WorkersInv' /\ NoUseAfterFree'
  BY <1>12 DEF WorkerRow, Touch, Dangling, main, input
<1>13. ASSUME NEW w \in Workers, WorkerError(w)
       PROVE  WorkersInv' /\ NoUseAfterFree'
  BY <1>13 DEF WorkerError, Touch, Dangling, main, input
<1>14. ASSUME NEW w \in Workers, WorkerDone(w)
       PROVE  WorkersInv' /\ NoUseAfterFree'
  BY <1>14 DEF WorkerDone, main, input
<1>15. ASSUME NEW w \in Workers, WorkerCrash(w)
       PROVE  WorkersInv' /\ NoUseAfterFree'
  BY <1>15 DEF WorkerCrash, Touch, Dangling, main, input
<1>16. CASE UNCHANGED vars
  BY <1>16 DEF vars, main, input, workers
<1>17. QED
  BY <1>1, <1>2, <1>3, <1>4, <1>5, <1>6, <1>7, <1>8, <1>9, <1>10, <1>11,
     <1>12, <1>13, <1>14, <1>15, <1>16 DEF Next, Main, Worker

\* A step keeps what is known of the slices and tinfo, of the workers that may
\* use them, and of the release on every return path.
LEMMA MemoryStep ==
  TypeOK /\ WorkersInv /\ MemoryInv /\ NothingLeaked /\ [Next]_vars
    => MemoryInv' /\ NothingLeaked'
<1> SUFFICES ASSUME TypeOK, WorkersInv, MemoryInv, NothingLeaked, [Next]_vars
             PROVE  MemoryInv' /\ NothingLeaked'
  OBVIOUS
<1> USE DEF TypeOK, WorkersInv, MemoryInv, NothingLeaked
<1>1. CASE Enter
  BY <1>1 DEF Enter, input, workers, Args
<1>2. CASE SequentialRow \/ SequentialReturn
  BY <1>2 DEF SequentialRow, SequentialReturn, input, workers, Args
<1>3. CASE SplitArg
  <2>1. i \in Nat /\ i \in Args /\ slices = 0..(i-1) /\ tinfo = "none"
    BY <1>3 DEF SplitArg, Args
  <2>2. CASE slices' = slices \union {i} /\ i' = i + 1 /\ UNCHANGED <<pc, tinfo>>
    <3>1. slices' = 0..(i'-1)
      BY <2>1, <2>2
    <3>2. i' <= NArgs
      BY <2>1, <2>2 DEF Args
    <3>3. QED
      BY <1>3, <2>2, <3>1, <3>2 DEF SplitArg
  <2>3. CASE ReleaseAndReturn(i)
    BY <2>1, <2>3 DEF ReleaseAndReturn
  <2>4. QED
    BY <1>3, <2>2, <2>3 DEF SplitArg
<1>4. CASE CheckSubdivision
  BY <1>4 DEF CheckSubdivision, ReleaseAndReturn, input, workers, Args
<1>5. CASE AllocThreadInfo
  BY <1>5 DEF AllocThreadInfo, ReleaseAndReturn, input, workers, Args
<1>6. CASE CreateWorker
  BY <1>6 DEF CreateWorker, ReleaseAndReturn, input, Args
<1>7. CASE AllCreated \/ JoinWorker
  BY <1>7 DEF AllCreated, JoinWorker, input, workers, Args
<1>8. CASE AllJoined
  BY <1>8 DEF AllJoined, ReleaseAndReturn, input, workers, Args
<1>9. ASSUME NEW w \in Workers, Worker(w)
      PROVE  UNCHANGED main
  BY <1>9 DEF Worker, StartWorker, WorkerRow, WorkerError, WorkerDone, WorkerCrash
<1>10. CASE UNCHANGED main
  BY <1>10 DEF main
<1>11. CASE UNCHANGED vars
  BY <1>10, <1>11 DEF vars
<1>12. QED
  BY <1>1, <1>2, <1>3, <1>4, <1>5, <1>6, <1>7, <1>8, <1>9, <1>10, <1>11
  DEF Next, Main

\* A step of the sequential loop computes the rows front to back.
LEMMA SequentialStep ==
  TypeOK /\ WorkersInv /\ MemoryInv /\ SequentialInv /\ [Next]_vars => SequentialInv'
<1> SUFFICES ASSUME TypeOK, WorkersInv, MemoryInv, SequentialInv, [Next]_vars
             PROVE  SequentialInv'
  OBVIOUS
<1> USE DEF TypeOK, SequentialInv
<1>1. CASE Enter
  BY <1>1 DEF Enter, input, workers, UseThreads, MemoryInv
<1>2. CASE SequentialRow
  <2>1. /\ pc = "sequential" /\ pc' = pc /\ i' = i + 1 /\ i < NRows /\ i \notin bad
        /\ UNCHANGED <<bad, large, nslices, ctx, errRow>>
        /\ written' = [written EXCEPT ![i] = @ + 1]
    BY <1>2 DEF SequentialRow, input
  <2>2. ASSUME NEW r \in Rows
        PROVE  written'[r] = IF r < i' THEN 1 ELSE 0
    BY <2>1, <2>2 DEF Rows
  <2>3. \A r \in 0..(i'-1) : r \notin bad'
    BY <2>1
  <2>4. QED
    BY <2>1, <2>2, <2>3 DEF UseThreads
<1>3. CASE SequentialReturn
  BY <1>3 DEF SequentialReturn, input, workers, UseThreads, WorkersInv, Rows
<1>4. CASE SplitArg \/ CheckSubdivision \/ AllocThreadInfo \/ CreateWorker
           \/ AllCreated \/ JoinWorker \/ AllJoined
  <2>1. UseThreads /\ UNCHANGED large /\ pc' # "sequential"
    BY <1>4 DEF SplitArg, CheckSubdivision, AllocThreadInfo, CreateWorker, AllCreated,
                JoinWorker, AllJoined, ReleaseAndReturn, input
  <2>2. QED
    BY <2>1 DEF UseThreads
<1>5. ASSUME NEW w \in Workers, Worker(w)
      PROVE  SequentialInv'
  <2>1. UNCHANGED <<pc, i, ctx, errRow, bad, large>> /\ wpc[w] # "none"
    BY <1>5 DEF Worker, StartWorker, WorkerRow, WorkerError, WorkerDone, WorkerCrash,
                main, input
  <2>2. pc \notin {"enter", "sequential", "split", "alloc"}
    BY <2>1 DEF WorkersInv
  <2>3. CASE UseThreads
    BY <2>1, <2>2, <2>3 DEF UseThreads
  <2>4. CASE ~UseThreads
    <3>1. pc = "returned" /\ ctx # "create"
      BY <2>2, <2>4
    <3>2. wpc[w] = "done"
      BY <2>1, <3>1 DEF WorkersInv
    <3>3. QED
      BY <1>5, <3>2 DEF Worker, StartWorker, WorkerRow, WorkerError, WorkerDone, WorkerCrash
  <2>5. QED
    BY <2>3, <2>4
<1>6. CASE UNCHANGED vars
  BY <1>6 DEF vars, main, input, workers, UseThreads
<1>7. QED
  BY <1>1, <1>2, <1>3, <1>4, <1>5, <1>6 DEF Next, Main

\* Two workers never share a row.
LEMMA OneWorkerPerRow ==
  ASSUME NEW v \in Workers, NEW w \in Workers, NEW r \in Int,
         First(v) <= r, r < Stop(v), First(w) <= r, r < Stop(w)
  PROVE  v = w
<1>1. v < w => Stop(v) <= First(w)
  BY TileAssumption DEF TileAssumption
<1>2. w < v => Stop(w) <= First(v)
  BY TileAssumption DEF TileAssumption
<1>3. /\ First(v) \in Int /\ Stop(v) \in Int /\ First(w) \in Int /\ Stop(w) \in Int
      /\ v \in Int /\ w \in Int
  BY TileType DEF Workers
<1>4. QED
  BY <1>1, <1>2, <1>3

\* A step keeps the relation between what a worker has computed and the position
\* at which it stands or has stopped.
LEMMA RowsStep ==
  TypeOK /\ WorkersInv /\ SequentialInv /\ RowsInv /\ [Next]_vars => RowsInv'
<1> SUFFICES ASSUME TypeOK, WorkersInv, SequentialInv, RowsInv, [Next]_vars
             PROVE  RowsInv'
  OBVIOUS
<1> USE DEF TypeOK, RowsInv, Computed
<1>1. CASE Enter
  BY <1>1 DEF Enter, input, workers, UseThreads
<1>2. CASE SequentialRow \/ SequentialReturn
  BY <1>2 DEF SequentialRow, SequentialReturn, input, workers, UseThreads, SequentialInv, WorkersInv
<1>3. CASE SplitArg \/ CheckSubdivision \/ AllocThreadInfo
  BY <1>3 DEF SplitArg, CheckSubdivision, AllocThreadInfo, ReleaseAndReturn, input, workers,
              UseThreads
<1>4. CASE CreateWorker
  BY <1>4 DEF CreateWorker, ReleaseAndReturn, input, UseThreads, WorkersInv
<1>5. CASE AllCreated
  BY <1>5 DEF AllCreated, input, workers, UseThreads, Workers
<1>6. CASE JoinWorker
  BY <1>6 DEF JoinWorker, input, UseThreads, Workers
<1>7. CASE AllJoined
  BY <1>7 DEF AllJoined, ReleaseAndReturn, input, workers, UseThreads
<1>8. ASSUME NEW w \in Workers, StartWorker(w)
      PROVE  RowsInv'
  BY <1>8 DEF StartWorker, main, input, UseThreads
<1>9. ASSUME NEW w \in Workers, WorkerRow(w)
      PROVE  RowsInv'
  <2> DEFINE r0 == row[w]
  <2>1. /\ r0 \in Rows /\ First(w) <= r0 /\ r0 < Stop(w) /\ r0 \notin bad
        /\ wpc[w] = "running"
        /\ row' = [row EXCEPT ![w] = r0 + 1]
        /\ written' = [written EXCEPT ![r0] = @ + 1]
        /\ UNCHANGED <<pc, i, bad, large, wpc, wctx>>
    BY <1>9, TileType DEF WorkerRow, main, input, Rows
  <2>2. r0 + 1 <= Stop(w) /\ First(w) \in Int /\ Stop(w) \in Int
    BY <2>1, TileType DEF Rows
  <2>3. ASSUME NEW v \in Workers, Computed(v, r0)
        PROVE  FALSE
    <3>1. v = w
      BY <2>1, <2>3, OneWorkerPerRow, TileType DEF Rows
    <3>2. QED
      BY <2>3, <3>1 DEF Rows
  <2>4. ASSUME NEW v \in Workers, NEW r \in Rows
        PROVE  Computed(v, r)' <=> Computed(v, r) \/ (v = w /\ r = r0)
    BY <2>1, <2>2 DEF Rows
  <2> HIDE DEF Computed
  <2>5. UseThreads => written[r0] = 0
    BY <2>1, <2>3
  <2>6. UseThreads' => \A r \in Rows :
          written'[r] = IF \E v \in Workers : Computed(v, r)' THEN 1 ELSE 0
    <3> SUFFICES ASSUME UseThreads, NEW r \in Rows
                 PROVE  written'[r] = IF \E v \in Workers : Computed(v, r)' THEN 1 ELSE 0
      BY <2>1 DEF UseThreads
    <3>1. CASE r = r0
      BY <2>1, <2>4, <2>5, <3>1
    <3>2. CASE r # r0
      BY <2>1, <2>4, <3>2
    <3>3. QED
      BY <3>1, <3>2
  <2>7. ASSUME NEW v \in Workers, NEW r \in Rows, Computed(v, r)'
        PROVE  r \notin bad'
    BY <2>1, <2>4, <2>7
  <2>8. wctx[w] = NRows
    BY <2>1
  <2>9. ASSUME NEW v \in Workers
        PROVE  /\ First(v) <= row'[v] /\ row'[v] <= Stop(v)
               /\ wpc'[v] \in {"none", "created"} => row'[v] = First(v)
               /\ wctx'[v] # NRows => wctx'[v] = row'[v]
               /\ wpc'[v] = "done" /\ row'[v] # Stop(v) => row'[v] \in bad'
               /\ wpc'[v] = "done" /\ row'[v] # Stop(v) /\ ~(pc' = "returned")
                      /\ ~(pc' = "join" /\ v < i')
                    => wctx'[v] = row'[v]
               /\ wctx'[v] # NRows => wpc'[v] = "done" /\ row'[v] # Stop(v)
    BY <2>1, <2>2, <2>8, <2>9
  <2>10. UseThreads' => pc' # "sequential"
    BY <2>1 DEF UseThreads
  <2>11. QED
    BY <2>6, <2>7, <2>9, <2>10
<1>10. ASSUME NEW w \in Workers, WorkerError(w)
       PROVE  RowsInv'
  BY <1>10 DEF WorkerError, main, input, UseThreads
<1>11. ASSUME NEW w \in Workers, WorkerDone(w)
       PROVE  RowsInv'
  BY <1>11 DEF WorkerDone, main, input, UseThreads
<1>12. ASSUME NEW w \in Workers, WorkerCrash(w)
       PROVE  RowsInv'
  BY <1>12 DEF WorkerCrash, main, input, UseThreads
<1>13. CASE UNCHANGED vars
  BY <1>13 DEF vars, main, input, workers, UseThreads
<1>14. QED
  BY <1>1, <1>2, <1>3, <1>4, <1>5, <1>6, <1>7, <1>8, <1>9, <1>10, <1>11, <1>12, <1>13
  DEF Next, Main, Worker

\* A step of the join loop keeps the error of the first worker that failed.
LEMMA ErrorStep ==
  TypeOK /\ WorkersInv /\ MemoryInv /\ SequentialInv /\ RowsInv /\ ErrorInv /\ [Next]_vars
    => ErrorInv'
<1> SUFFICES ASSUME TypeOK, WorkersInv, MemoryInv, SequentialInv, RowsInv, ErrorInv,
                    [Next]_vars
             PROVE  ErrorInv'
  OBVIOUS
<1> USE DEF TypeOK, ErrorInv, NoFailure, FirstFailure
<1>1. CASE Enter
  BY <1>1 DEF Enter, input, workers, UseThreads
<1>2. CASE SequentialRow \/ SequentialReturn
  BY <1>2 DEF SequentialRow, SequentialReturn, input, workers, UseThreads, SequentialInv
<1>3. CASE SplitArg \/ CheckSubdivision \/ AllocThreadInfo \/ CreateWorker
  BY <1>3 DEF SplitArg, CheckSubdivision, AllocThreadInfo, CreateWorker, ReleaseAndReturn,
              input, workers, UseThreads, WorkersInv
<1>4. CASE AllCreated
  BY <1>4 DEF AllCreated, input, workers, UseThreads, WorkersInv
<1>5. CASE JoinWorker
  <2>1. /\ pc = "join" /\ pc' = "join" /\ i \in Workers /\ i' = i + 1 /\ wpc[i] = "done"
        /\ UNCHANGED <<bad, large, row>>
        /\ ctx \in {"none", "kernel"}
    BY <1>5 DEF JoinWorker, input, Workers, WorkersInv
  <2>2. wctx[i] = NRows => row[i] = Stop(i)
    BY <2>1 DEF RowsInv, Rows
  <2>3. wctx[i] # NRows => wctx[i] = row[i] /\ row[i] \in bad /\ row[i] < Stop(i)
    BY <2>1, TileType DEF RowsInv
  <2>4. CASE wctx[i] # NRows /\ ctx = "none"
    <3>1. ctx' = "kernel" /\ errRow' = wctx[i]
      BY <1>5, <2>4 DEF JoinWorker
    <3>2. UseThreads => NoFailure(i)
      BY <2>1, <2>4
    <3>3. QED
      BY <2>1, <2>3, <2>4, <3>1, <3>2 DEF UseThreads
  <2>5. CASE ~(wctx[i] # NRows /\ ctx = "none")
    <3>1. ctx' = ctx /\ errRow' = errRow
      BY <1>5, <2>5 DEF JoinWorker
    <3>2. QED
      BY <2>1, <2>2, <2>5, <3>1 DEF UseThreads
  <2>6. QED
    BY <2>4, <2>5
<1>6. CASE AllJoined
  BY <1>6 DEF AllJoined, ReleaseAndReturn, input, workers, UseThreads
<1>7. ASSUME NEW w \in Workers, Worker(w)
      PROVE  ErrorInv'
  <2>1. /\ UNCHANGED <<pc, i, ctx, errRow, bad, large>>
        /\ wpc[w] \in {"created", "running"}
    BY <1>7 DEF Worker, StartWorker, WorkerRow, WorkerError, WorkerDone, WorkerCrash,
                main, input
  <2>2. /\ UseThreads' = UseThreads
        /\ \A v \in Workers : v # w => row'[v] = row[v]
    BY <1>7, <2>1 DEF Worker, StartWorker, WorkerRow, WorkerError, WorkerDone, WorkerCrash,
                      UseThreads
  <2>3. CASE pc = "join"
    <3>1. i <= NCols /\ ~(w < i) /\ \A v \in 0..(i-1) : v \in Workers /\ v # w
      BY <2>1, <2>3 DEF WorkersInv, Workers
    <3>2. QED
      BY <2>1, <2>2, <2>3, <3>1
  <2>4. CASE pc = "returned"
    BY <2>1, <2>4 DEF WorkersInv
  <2>5. QED
    BY <2>1, <2>3, <2>4
<1>8. CASE UNCHANGED vars
  BY <1>8 DEF vars, main, input, workers, UseThreads
<1>9. QED
  BY <1>1, <1>2, <1>3, <1>4, <1>5, <1>6, <1>7, <1>8 DEF Next, Main

\* The invariant holds at the call.
LEMMA InvInit == Init => IInv
<1> SUFFICES ASSUME Init PROVE IInv
  OBVIOUS
<1>1. TypeOK
  BY TypeInit
<1>2. WorkersInv /\ MemoryInv /\ NoUseAfterFree /\ NothingLeaked
  BY DEF Init, WorkersInv, MemoryInv, NoUseAfterFree, NothingLeaked
<1>3. SequentialInv /\ ErrorInv
  BY DEF Init, SequentialInv, ErrorInv, Rows
<1>4. RowsInv
  BY TileType DEF Init, RowsInv, Computed, Rows
<1>5. QED
  BY <1>1, <1>2, <1>3, <1>4 DEF IInv

\* IInv is an invariant of every call of gm_apply_thread().
THEOREM Invariance == Spec => []IInv
<1>1. IInv /\ [Next]_vars => IInv'
  BY TypeNext, WorkersStep, MemoryStep, SequentialStep, RowsStep, ErrorStep DEF IInv
<1>2. QED
  BY InvInit, <1>1, PTL DEF Spec

\* The variables keep their types.
THEOREM TypeCorrect == Spec => []TypeOK
<1>1. IInv => TypeOK
  BY DEF IInv
<1>2. QED
  BY <1>1, Invariance, PTL

\* Unless creating a thread fails, gm_apply_thread() releases the slices and
\* tinfo only when no worker can use them any more.
THEOREM MemorySafety == Spec => []NoUseAfterFree
<1>1. IInv => NoUseAfterFree
  BY DEF IInv
<1>2. QED
  BY <1>1, Invariance, PTL

\* On every return path, the error returns in the middle of the call included,
\* gm_apply_thread() has freed the slices of all arguments and tinfo.
THEOREM ReturnsReleased == Spec => []NothingLeaked
<1>1. IInv => NothingLeaked
  BY DEF IInv
<1>2. QED
  BY <1>1, Invariance, PTL

\* What the rows that the workers have computed add up to when all have ended.
LEMMA InvWrittenOnce == IInv => WrittenOnce
<1>1. ASSUME IInv
      PROVE  WrittenOnce
  <2> USE <1>1 DEF IInv
  <2>1. \A r \in Rows : written[r] <= 1
    BY DEF SequentialInv, RowsInv
  <2>2. ASSUME pc = "returned", ctx = "none", NEW r \in Rows
        PROVE  written[r] = 1
    <3>1. CASE UseThreads
      <4>1. PICK w \in Workers : First(w) <= r /\ r < Stop(w)
        BY TileAssumption DEF TileAssumption
      <4>2. row[w] = Stop(w)
        BY <2>2, <3>1, w \in 0..(NCols-1) DEF ErrorInv, NoFailure, Workers
      <4>3. QED
        BY <3>1, <4>1, <4>2 DEF RowsInv, Computed
    <3>2. CASE ~UseThreads
      BY <2>2, <3>2 DEF SequentialInv, Rows
    <3>3. QED
      BY <3>1, <3>2
  <2>3. QED
    BY <2>1, <2>2 DEF WrittenOnce
<1>2. QED
  BY <1>1

\* No row is computed twice, and success means that every row is computed.
THEOREM EachRowOnce == Spec => []WrittenOnce
BY InvWrittenOnce, Invariance, PTL

\* The workers before the one whose error is kept have computed their slices.
LEMMA InvFirstError == IInv => FirstErrorReported
<1>1. ASSUME IInv
      PROVE  FirstErrorReported
  <2> USE <1>1 DEF IInv
  <2>1. ASSUME pc = "returned", ctx = "kernel"
        PROVE  /\ errRow \in bad
               /\ \A r \in bad : errRow <= r
               /\ \A r \in 0..(errRow-1) : written[r] = 1
    <3>1. CASE ~UseThreads
      BY <2>1, <3>1 DEF SequentialInv, TypeOK, Rows
    <3>2. CASE UseThreads
      <4>1. PICK w \in 0..(NCols-1) :
               /\ errRow = row[w]
               /\ row[w] < Stop(w)
               /\ row[w] \in bad
               /\ \A v \in 0..(w-1) : row[v] = Stop(v)
        BY <2>1, <3>2 DEF ErrorInv, FirstFailure
      <4>2. ASSUME NEW r \in Rows, r < errRow
            PROVE  \E v \in Workers : Computed(v, r)
        <5>1. PICK v \in Workers : First(v) <= r /\ r < Stop(v)
          BY TileAssumption DEF TileAssumption
        <5>2. v <= w
          <6>1. w < v => Stop(w) <= First(v)
            BY <4>1, TileAssumption DEF TileAssumption, Workers
          <6>2. row[w] \in Int /\ First(v) \in Int /\ Stop(w) \in Int
            BY <4>1, TileType DEF TypeOK, Workers
          <6>3. QED
            BY <4>1, <4>2, <5>1, <6>1, <6>2 DEF Workers, Rows
        <5>3. v < w => row[v] = Stop(v)
          BY <4>1 DEF Workers
        <5>4. QED
          BY <4>1, <4>2, <5>1, <5>2, <5>3 DEF Computed, Workers
      <4>3. \A r \in bad : errRow <= r
        <5> SUFFICES ASSUME NEW r \in bad, r < errRow
                     PROVE  FALSE
          BY <4>1 DEF TypeOK, Rows
        <5>1. r \in Rows
          BY DEF TypeOK
        <5>2. QED
          BY <4>2, <5>1 DEF RowsInv
      <4>4. \A r \in 0..(errRow-1) : written[r] = 1
        <5> SUFFICES ASSUME NEW r \in 0..(errRow-1)
                     PROVE  written[r] = 1
          OBVIOUS
        <5>1. r \in Rows /\ r < errRow
          BY DEF TypeOK, Rows
        <5>2. QED
          BY <3>2, <4>2, <5>1 DEF RowsInv
      <4>5. QED
        BY <4>1, <4>3, <4>4
    <3>3. QED
      BY <3>1, <3>2
  <2>2. ASSUME pc = "returned", bad # {}, ctx = "none"
        PROVE  FALSE
    <3>1. PICK r \in bad : r \in Rows
      BY <2>2 DEF TypeOK
    <3>2. CASE ~UseThreads
      BY <2>2, <3>1, <3>2 DEF SequentialInv, Rows
    <3>3. CASE UseThreads
      <4>1. PICK w \in Workers : First(w) <= r /\ r < Stop(w)
        BY <3>1, TileAssumption DEF TileAssumption
      <4>2. row[w] = Stop(w)
        BY <2>2, <3>3 DEF ErrorInv, NoFailure, Workers
      <4>3. QED
        BY <3>1, <4>1, <4>2 DEF RowsInv, Computed
    <3>4. QED
      BY <3>2, <3>3
  <2>3. QED
    BY <2>1, <2>2 DEF FirstErrorReported
<1>2. QED
  BY <1>1

\* Among the errors of the workers the call reports the one that the
\* sequential loop would have met, whatever the order in which they end.
THEOREM FirstError == Spec => []FirstErrorReported
BY InvFirstError, Invariance, PTL

-----------------------------------------------------------------------------
(* gm_apply_thread() implements ApplyContract: every step of the caller    *)
(* and of the workers is a step of the contract, or changes nothing that   *)
(* the contract speaks of.                                                 *)

\* The result as the contract sees it.
Result == IF pc # "returned" THEN "running" ELSE IF ctx = "none" THEN "ok" ELSE ctx
ErrRow == IF pc = "returned" THEN errRow ELSE NRows

\* A step after which the contract's variables are as they were.
LEMMA Stutter ==
  ASSUME UNCHANGED <<bad, written>>, Result' = Result, ErrRow' = ErrRow
  PROVE  [Contract!Next]_(Contract!vars)
BY DEF Contract!vars, Result, ErrRow

\* A row computed once by the caller or by a worker.
LEMMA ComputeStep ==
  ASSUME NEW r \in Rows, r \notin bad, Result \in {"running", "create"},
         written[r] = 0, written' = [written EXCEPT ![r] = 1],
         bad' = bad, Result' = Result, ErrRow' = ErrRow
  PROVE  [Contract!Next]_(Contract!vars)
<1>1. Contract!Compute(r)
  BY DEF Contract!Compute, Result, ErrRow
<1>2. QED
  BY <1>1 DEF Contract!Next, Contract!Rows, Rows

\* A return before any worker exists.
LEMMA FailBeforeStartStep ==
  ASSUME pc # "returned", pc' = "returned", ctx' \in {"memory", "subdivision"},
         errRow' = NRows, UNCHANGED <<bad, written>>, \A r \in Rows : written[r] = 0
  PROVE  [Contract!Next]_(Contract!vars)
<1>1. Contract!FailBeforeStart
  BY DEF Contract!FailBeforeStart, Contract!Rows, Rows
<1>2. QED
  BY <1>1 DEF Contract!Next

\* A return without an error or with that of a kernel.
LEMMA ReturnStep ==
  ASSUME TypeOK, WrittenOnce', FirstErrorReported', UNCHANGED <<bad, written>>,
         pc # "returned", pc' = "returned", ctx' \in {"none", "kernel"},
         ctx' = "none" => errRow' = NRows
  PROVE  [Contract!Next]_(Contract!vars)
<1>1. CASE ctx' = "none"
  <2>1. bad = {} /\ \A r \in Rows : written[r] = 1
    BY <1>1 DEF WrittenOnce, FirstErrorReported, Rows
  <2>2. Contract!Succeed
    BY <1>1, <2>1 DEF Contract!Succeed, Contract!Rows, Rows
  <2>3. QED
    BY <2>2 DEF Contract!Next
<1>2. CASE ctx' = "kernel"
  <2>1. /\ errRow' \in bad
        /\ \A r \in bad : errRow' <= r
        /\ \A r \in 0..(errRow'-1) : written[r] = 1
    BY <1>2 DEF FirstErrorReported
  <2>2. errRow' \in Rows
    BY <2>1 DEF TypeOK
  <2>3. Contract!FailInKernel(errRow')
    BY <1>2, <2>1 DEF Contract!FailInKernel, Contract!FirstBad
  <2>4. QED
    BY <2>2, <2>3 DEF Contract!Next, Contract!Rows, Rows
<1>3. QED
  BY <1>1, <1>2

\* Before the first worker starts nothing has been computed.
LEMMA NothingComputed ==
  ASSUME IInv, pc \in {"split", "alloc"}
  PROVE  UseThreads /\ \A r \in Rows : written[r] = 0
<1>1. UseThreads
  BY DEF IInv, SequentialInv
<1>2. \A w \in Workers : row[w] = First(w)
  BY DEF IInv, WorkersInv, RowsInv
<1>3. ASSUME NEW w \in Workers, NEW r \in Rows
      PROVE  ~Computed(w, r)
  BY <1>2, TileType DEF Computed, Rows
<1>4. QED
  BY <1>1, <1>3 DEF IInv, RowsInv

\* A worker that computes a row is the first to do so, in a call that has not
\* returned or could not create another worker.
LEMMA WorkerRowStep ==
  ASSUME IInv, NEW w \in Workers, WorkerRow(w)
  PROVE  [Contract!Next]_(Contract!vars)
<1> DEFINE r0 == row[w]
<1> USE DEF IInv
<1>0. /\ wpc[w] = "running" /\ r0 < Stop(w) /\ r0 \notin bad
      /\ written' = [written EXCEPT ![r0] = @ + 1]
      /\ UNCHANGED <<pc, ctx, errRow, bad>>
  BY DEF WorkerRow, main, input
<1>1. r0 \in Rows /\ First(w) <= r0
  <2>1. First(w) <= r0 /\ r0 \in 0..NRows
    BY DEF RowsInv, TypeOK
  <2>2. QED
    BY <1>0, <2>1, TileType, ApplyAssumption DEF Rows
<1>2. Result \in {"running", "create"}
  BY <1>0 DEF WorkersInv, Result
<1>3. UseThreads
  <2>1. pc \notin {"enter", "sequential"}
    BY <1>0 DEF WorkersInv
  <2>2. pc = "returned" => ctx = "create"
    BY <1>0 DEF WorkersInv
  <2>3. QED
    BY <2>1, <2>2 DEF SequentialInv
<1>4. ASSUME NEW v \in Workers, Computed(v, r0)
      PROVE  FALSE
  <2>1. v = w
    BY <1>0, <1>1, <1>4, OneWorkerPerRow, TileType DEF Rows, Computed, RowsInv, TypeOK
  <2>2. QED
    BY <1>0, <1>4, <2>1, <1>1 DEF Rows, Computed
<1>5. written[r0] = 0
  BY <1>1, <1>3, <1>4 DEF RowsInv
<1>6. Result' = Result /\ ErrRow' = ErrRow
  BY <1>0 DEF Result, ErrRow
<1>7. QED
  <2>1. written' = [written EXCEPT ![r0] = 1]
    BY <1>0, <1>5
  <2> HIDE DEF IInv, r0
  <2>2. QED
    BY <1>0, <1>1, <1>2, <1>5, <1>6, <2>1, ComputeStep

\* Each step of a call, seen by the contract.
LEMMA RefinementStep ==
  ASSUME IInv, IInv', [Next]_vars, WrittenOnce', FirstErrorReported'
  PROVE  [Contract!Next]_(Contract!vars)
<1> USE DEF Result, ErrRow
<1>0. TypeOK /\ TypeOK'
  BY DEF IInv
<1>1. CASE Enter \/ AllCreated
  BY <1>1, Stutter DEF Enter, AllCreated, input, workers
<1>2. CASE SequentialRow
  <2>1. i \in Rows /\ written[i] = 0
    BY <1>0, <1>2 DEF SequentialRow, IInv, SequentialInv, Rows, TypeOK
  <2>2. /\ i \notin bad /\ bad' = bad /\ written' = [written EXCEPT ![i] = 1]
        /\ Result = "running" /\ Result' = Result /\ ErrRow' = ErrRow
    BY <1>2, <2>1 DEF SequentialRow, input
  <2> HIDE DEF Result, ErrRow
  <2>3. QED
    BY <2>1, <2>2, ComputeStep
<1>3. CASE SequentialReturn
  <2>1. ctx = "none" /\ errRow = NRows
    BY <1>3 DEF SequentialReturn, IInv, WorkersInv, ErrorInv
  <2>2. QED
    BY <1>0, <1>3, <2>1, ReturnStep DEF SequentialReturn, input
<1>4. CASE SplitArg \/ CheckSubdivision \/ AllocThreadInfo
  <2>1. ctx = "none" /\ errRow = NRows /\ pc \in {"split", "alloc"}
    BY <1>4 DEF SplitArg, CheckSubdivision, AllocThreadInfo, IInv, WorkersInv, ErrorInv
  <2>2. \A r \in Rows : written[r] = 0
    BY <2>1, NothingComputed
  <2>3. UNCHANGED <<bad, written, errRow>>
    BY <1>4 DEF SplitArg, CheckSubdivision, AllocThreadInfo, input
  <2>4. CASE pc' = "returned"
    <3>1. ctx' \in {"memory", "subdivision"}
      BY <1>4, <2>1, <2>4 DEF SplitArg, CheckSubdivision, AllocThreadInfo
    <3>2. QED
      BY <2>1, <2>2, <2>3, <2>4, <3>1, FailBeforeStartStep
  <2>5. CASE pc' # "returned"
    BY <2>1, <2>3, <2>5, Stutter
  <2>6. QED
    BY <2>4, <2>5
<1>5. CASE CreateWorker
  <2>1. /\ pc = "create" /\ ctx = "none" /\ errRow = NRows
        /\ UNCHANGED <<bad, written, errRow>>
    BY <1>5 DEF CreateWorker, IInv, WorkersInv, ErrorInv, input
  <2>2. CASE pc' = "returned"
    <3>1. ctx' = "create"
      BY <1>5, <2>1, <2>2 DEF CreateWorker
    <3>2. Contract!FailToCreateThread
      BY <2>1, <2>2, <3>1 DEF Contract!FailToCreateThread
    <3>3. QED
      BY <3>2 DEF Contract!Next
  <2>3. CASE pc' # "returned"
    BY <2>1, <2>3, Stutter
  <2>4. QED
    BY <2>2, <2>3
<1>6. CASE JoinWorker
  BY <1>6, Stutter DEF JoinWorker, input
<1>7. CASE AllJoined
  <2>1. ctx \in {"none", "kernel"} /\ (ctx = "none" => errRow = NRows)
    BY <1>7 DEF AllJoined, IInv, WorkersInv, ErrorInv
  <2>2. QED
    BY <1>0, <1>7, <2>1, ReturnStep DEF AllJoined, ReleaseAndReturn, input
<1>8. ASSUME NEW w \in Workers, StartWorker(w) \/ WorkerError(w) \/ WorkerDone(w) \/ WorkerCrash(w)
      PROVE  [Contract!Next]_(Contract!vars)
  BY <1>8, Stutter DEF StartWorker, WorkerError, WorkerDone, WorkerCrash, main, input
<1>9. ASSUME NEW w \in Workers, WorkerRow(w)
      PROVE  [Contract!Next]_(Contract!vars)
  BY <1>9, WorkerRowStep
<1>10. CASE UNCHANGED vars
  BY <1>10, Stutter DEF vars, main, input
<1>11. QED
  BY <1>1, <1>2, <1>3, <1>4, <1>5, <1>6, <1>7, <1>8, <1>9, <1>10 DEF Next, Main, Worker

\* A call starts as the contract says.
LEMMA RefinementInit == Init => Contract!Init
BY DEF Init, Contract!Init, Contract!Rows, Rows

\* Whatever the number of threads, arguments and rows, the tiling and the
\* interleaving, gm_apply_thread() does what the contract of gm_apply() allows.
THEOREM Implementation == Spec => ImplementsContract
<1>1. IInv /\ IInv' /\ [Next]_vars /\ WrittenOnce' /\ FirstErrorReported'
        => [Contract!Next]_(Contract!vars)
  BY RefinementStep
<1>2. QED
  BY <1>1, RefinementInit, Invariance, EachRowOnce, FirstError, PTL
  DEF Spec, ImplementsContract, Contract!Spec
=============================================================================
