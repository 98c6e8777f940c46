-------------------------- MODULE MCThreadedApply --------------------------
(***************************************************************************)
(* A call of gm_apply_thread() on an array with outer dimensions 2 x 2,    *)
(* two arguments and three threads, and a call of xnd_split() beside it.   *)
(* One of the two takes all its inputs: if gm_apply_thread() does, then    *)
(* xnd_split() cuts the same array for the same threads; if xnd_split()    *)
(* does, then gm_apply_thread() has small arguments.                       *)
(***************************************************************************)
EXTENDS ThreadedApply, Split

MCShape == <<2, 2>>

MCTile == [w \in 0..2 |-> CASE w = 0 -> <<0, 1>>
                            [] w = 1 -> <<1, 2>>
                            [] w = 2 -> <<2, 4>>]

\* The tiles are those that xnd_split() computes for the shape.
ASSUME TileIsSchedule ==
  LET tiles == Tiles(MCShape, Schedule(MCShape, NThreads))
  IN  /\ NCols = Len(tiles)
      /\ \A w \in Workers : MCTile[w] = tiles[w+1]

MCInit ==
  /\ Init
  /\ SplitInit
  /\ \/ shape = MCShape /\ nparts = NThreads /\ ~emptyInner
     \/ large = {} /\ bad = {} /\ \A k \in Args : nslices[k] = NCols

MCNext ==
  \/ Next /\ UNCHANGED splitVars
  \/ SplitNext /\ UNCHANGED vars

MCSpec == MCInit /\ [][MCNext]_<<vars, splitVars>> /\ Fairness
=============================================================================
