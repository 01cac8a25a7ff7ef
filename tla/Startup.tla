------------------------------- MODULE Startup -------------------------------
(***************************************************************************)
(* What runs between the start of a server and its first forward: getting  *)
(* the shards from the hub, warming the page cache, one of the iterators   *)
(* that read them (the buffered one, or the one through numpy dumps), the  *)
(* PLE table, and the conversions that end load_weights.  Each keeps its   *)
(* own state, so each is followed on its own; the prefetch and the         *)
(* buffered iterator run over a thread pool.                               *)
(***************************************************************************)
EXTENDS SnapshotDownload, CheckpointPrefetch, ShardWindow, NpCache, PleTable, DenseConversion

VARIABLE part       \* the part that is followed

startVars == <<part, snapshotVars, runnerVars, rank, cancelEvent, left, joiner,
               genVars, poolVars, vars, tableVars, denseVars>>
prefetchOwn == <<runnerVars, rank, cancelEvent, left, joiner>>

(* What the other parts own.                                               *)
BesideSnapshot == <<part, prefetchOwn, genVars, poolVars, vars, tableVars, denseVars>>
BesidePrefetch == <<part, snapshotVars, genVars, vars, tableVars, denseVars>>
BesideWindow   == <<part, snapshotVars, prefetchOwn, vars, tableVars, denseVars>>
BesideNumpy    == <<part, snapshotVars, prefetchOwn, genVars, poolVars, tableVars, denseVars>>
BesideTable    == <<part, snapshotVars, prefetchOwn, genVars, poolVars, vars, denseVars>>
BesideDense    == <<part, snapshotVars, prefetchOwn, genVars, poolVars, vars, tableVars>>

StartInit ==
    /\ part \in {"snapshot", "prefetch", "window", "numpy", "table", "dense"}
    /\ SnapshotInit /\ PrefetchInit /\ WindowInit /\ Init /\ TableInit /\ DenseInit
    /\ part # "snapshot" => hubOffline = [p \in Starts |-> FALSE]
    /\ part # "prefetch" => rank = 0
    /\ part # "dense" => env = [calib |-> TRUE, nvfp4 |-> {}, fp8 |-> {}, hc |-> "off",
                                slice |-> FALSE, bigm |-> "off"]

StartNext ==
    \/ part = "snapshot" /\ SnapshotNext /\ UNCHANGED BesideSnapshot
    \/ part = "prefetch" /\ PrefetchNext /\ UNCHANGED BesidePrefetch
    \/ part = "window"   /\ WindowNext   /\ UNCHANGED BesideWindow
    \/ part = "numpy"    /\ Next         /\ UNCHANGED BesideNumpy
    \/ part = "table"    /\ TableNext    /\ UNCHANGED BesideTable
    \/ part = "dense"    /\ DenseNext    /\ UNCHANGED BesideDense

StartSpec == StartInit /\ [][StartNext]_startVars

(* The fairness of the prefetch, the buffered iterator and the numpy cache. *)
StartFairSpec ==
    /\ StartSpec
    /\ WF_startVars(part = "prefetch" /\ Runner /\ UNCHANGED BesidePrefetch)
    /\ WF_startVars(part = "prefetch" /\ StartReading /\ UNCHANGED BesidePrefetch)
    /\ \A shard \in Jobs :
          WF_startVars(part = "prefetch" /\ ReadBlock(shard) /\ UNCHANGED BesidePrefetch)
    /\ WF_startVars(part = "window" /\ Generator /\ UNCHANGED BesideWindow)
    /\ WF_startVars(part = "window" /\ Worker /\ UNCHANGED BesideWindow)
    /\ \A p \in Procs : WF_startVars(part = "numpy" /\ Load(p) /\ UNCHANGED BesideNumpy)
-----------------------------------------------------------------------------
(* The liveness of each part, when it is the part that runs.               *)
PrefetchRunsOut == part = "prefetch" => PrefetchEnds
WindowRunsOut == part = "window" => IterationEnds
NumpyLoadsEnd == part = "numpy" => EveryLoadEnds
=============================================================================
