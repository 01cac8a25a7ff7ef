-------------------------- MODULE CheckpointPrefetch --------------------------
(***************************************************************************)
(* Background page-cache prefetch of one rank's checkpoint shards: a       *)
(* runner thread feeds a thread pool a window of NumThreads files and      *)
(* replaces each finished one, while the owner of the handle may cancel    *)
(* or stop it at any moment.  The cancel event is checked by the runner    *)
(* before it takes a file and by a worker before every block it reads; a   *)
(* cancel can fall between a check and the submission it allowed.          *)
(***************************************************************************)
EXTENDS ThreadPool

CONSTANTS
    SortedFiles,    \* all shards of the checkpoint, sorted
    WorldSize,      \* ranks of this node
    Blocks          \* bound: blocks of a file

ASSUME PrefetchAssumption ==
    /\ SortedFiles \in Seq(Jobs)
    /\ \A i, j \in DOMAIN SortedFiles : SortedFiles[i] = SortedFiles[j] => i = j
    /\ WorldSize \in Nat \ {0}
    /\ Blocks \in Nat

NumThreads == MaxWorkers

VARIABLES
    rank,           \* local_rank
    runner,         \* where the runner thread is
    drawn,          \* files the runner took from file_iter
    chosen,         \* the file it is about to submit, {} when none
    futures,        \* the dict of futures it waits for
    reaping,        \* futures of the last wait() it has still to handle
    cancelEvent,
    succeededEvent,
    errors,         \* files in the handle's error list
    left,           \* blocks of a file not read yet
    joiner,         \* the owner inside stop(): "no", "waiting", "back", "timeout"
    late            \* ghost: submissions made after the cancel event was set

runnerVars == <<runner, drawn, chosen, futures, reaping, succeededEvent, errors, late>>
prefetchVars == <<poolVars, runnerVars, rank, cancelEvent, left, joiner>>

\* sorted_files[local_rank::local_world_size]
MyCount ==
    IF rank < Len(SortedFiles) THEN (Len(SortedFiles) - rank - 1) \div WorldSize + 1 ELSE 0
MyFile(n) == SortedFiles[rank + 1 + (n - 1) * WorldSize]
MyFiles == {MyFile(n) : n \in 1 .. MyCount}

Take_CancelIgnored(found, exhausted) ==
    IF drawn = MyCount
    THEN runner' = exhausted /\ UNCHANGED <<drawn, chosen>>
    ELSE runner' = found /\ drawn' = drawn + 1 /\ chosen' = {MyFile(drawn + 1)}

\* next(file_iter, None) unless the cancel event is set.
Take(found, exhausted) ==
    IF cancelEvent \/ drawn = MyCount
    THEN runner' = exhausted /\ UNCHANGED <<drawn, chosen>>
    ELSE runner' = found /\ drawn' = drawn + 1 /\ chosen' = {MyFile(drawn + 1)}

\* for path in islice(file_iter, num_threads): break if cancelled, else submit.
SeedWindow ==
    /\ runner = "seed"
    /\ IF Cardinality(futures) < NumThreads THEN Take("seedSubmit", "wait")
       ELSE runner' = "wait" /\ UNCHANGED <<drawn, chosen>>
    /\ UNCHANGED <<poolVars, futures, reaping, succeededEvent, errors, late>>

SubmitChosen(from, to) ==
    /\ runner = from
    /\ runner' = to
    /\ \E shard \in chosen : Submit(shard)
    /\ futures' = futures \union chosen
    /\ chosen' = {}
    /\ late' = IF cancelEvent THEN late + 1 ELSE late
    /\ UNCHANGED <<drawn, reaping, succeededEvent, errors>>

Wait_AllThreads ==
    /\ runner = "wait"
    /\ IF futures = {} THEN runner' = "shutdown" /\ UNCHANGED reaping
       ELSE /\ Cardinality(futures \intersect ended) = NumThreads
            /\ reaping' = futures \intersect ended
            /\ runner' = "reap"
    /\ UNCHANGED <<poolVars, drawn, chosen, futures, succeededEvent, errors, late>>

\* while futures: wait(futures, FIRST_COMPLETED)
Wait ==
    /\ runner = "wait"
    /\ IF futures = {} THEN runner' = "shutdown" /\ UNCHANGED reaping
       ELSE /\ futures \intersect ended # {}
            /\ reaping' = futures \intersect ended
            /\ runner' = "reap"
    /\ UNCHANGED <<poolVars, drawn, chosen, futures, succeededEvent, errors, late>>

Reap_ErrorDropped ==
    /\ runner = "reap"
    /\ \E shard \in reaping :
         /\ reaping' = reaping \ {shard}
         /\ futures' = futures \ {shard}
         /\ Take("submit", "reap")
    /\ UNCHANGED <<poolVars, succeededEvent, errors, late>>

Reap ==
    /\ runner = "reap"
    /\ \E shard \in reaping :
         /\ reaping' = reaping \ {shard}
         /\ futures' = futures \ {shard}
         /\ errors' = IF shard \in raised THEN errors \union {shard} ELSE errors
         /\ Take("submit", "reap")
    /\ UNCHANGED <<poolVars, succeededEvent, late>>

ReapDone ==
    /\ runner = "reap" /\ reaping = {}
    /\ runner' = "wait"
    /\ UNCHANGED <<poolVars, drawn, chosen, futures, reaping, succeededEvent, errors, late>>

LeavePool_CancelIsNoSuccess ==
    /\ runner = "shutdown" /\ Drained
    /\ runner' = "finish" /\ succeededEvent' = ~cancelEvent
    /\ UNCHANGED <<poolVars, drawn, chosen, futures, reaping, errors, late>>

\* Leaving the executor's with-block, then the end of _run_prefetch.
LeavePool ==
    /\ runner = "shutdown" /\ Drained
    /\ runner' = "finish" /\ succeededEvent' = TRUE
    /\ UNCHANGED <<poolVars, drawn, chosen, futures, reaping, errors, late>>

ThreadEnds ==
    /\ runner = "finish"
    /\ runner' = "ended"
    /\ UNCHANGED <<poolVars, drawn, chosen, futures, reaping, succeededEvent, errors, late>>

Runner ==
    /\ \/ SeedWindow \/ SubmitChosen("seedSubmit", "seed")
       \/ Wait \/ Reap \/ ReapDone \/ SubmitChosen("submit", "reap")
       \/ LeavePool \/ ThreadEnds
    /\ UNCHANGED <<rank, cancelEvent, left, joiner>>

StartReading ==
    /\ Start
    /\ UNCHANGED <<runnerVars, rank, cancelEvent, left, joiner>>

ReadBlock_IdleOnCancel(shard) ==
    /\ \/ ~cancelEvent /\ left[shard] = 0 /\ End(shard, TRUE) /\ UNCHANGED left
       \/ ~cancelEvent /\ End(shard, FALSE) /\ UNCHANGED left
       \/ /\ shard \in running /\ ~cancelEvent /\ left[shard] > 0
          /\ left' = [left EXCEPT ![shard] = @ - 1]
          /\ UNCHANGED poolVars
    /\ UNCHANGED <<runnerVars, rank, cancelEvent, joiner>>

\* One turn of _prefetch_checkpoint_file's loop; opening or reading may raise.
ReadBlock(shard) ==
    /\ \/ (cancelEvent \/ left[shard] = 0) /\ End(shard, TRUE) /\ UNCHANGED left
       \/ End(shard, FALSE) /\ UNCHANGED left
       \/ /\ shard \in running /\ ~cancelEvent /\ left[shard] > 0
          /\ left' = [left EXCEPT ![shard] = @ - 1]
          /\ UNCHANGED poolVars
    /\ UNCHANGED <<runnerVars, rank, cancelEvent, joiner>>

\* The handle.
Cancel ==
    /\ ~cancelEvent /\ cancelEvent' = TRUE
    /\ UNCHANGED <<poolVars, runnerVars, rank, left, joiner>>

Stop ==
    /\ joiner = "no" /\ joiner' = "waiting" /\ cancelEvent' = TRUE
    /\ UNCHANGED <<poolVars, runnerVars, rank, left>>

Joined ==
    /\ joiner = "waiting"
    /\ joiner' = IF runner = "ended" THEN "back" ELSE "timeout"
    /\ UNCHANGED <<poolVars, runnerVars, rank, cancelEvent, left>>

Done == runner = "ended"
Failed == errors # {} \/ (Done /\ ~succeededEvent)

PrefetchInit ==
    /\ PoolInit
    /\ rank \in 0 .. WorldSize - 1
    /\ runner = "seed" /\ drawn = 0 /\ chosen = {}
    /\ futures = {} /\ reaping = {} /\ errors = {} /\ late = 0
    /\ cancelEvent = FALSE /\ succeededEvent = FALSE
    /\ left = [shard \in Jobs |-> Blocks]
    /\ joiner = "no"

PrefetchNext ==
    \/ Runner
    \/ StartReading
    \/ \E shard \in Jobs : ReadBlock(shard)
    \/ Cancel \/ Stop \/ Joined

PrefetchSpec == PrefetchInit /\ [][PrefetchNext]_prefetchVars

\* The OS schedules the runner and the pool's workers, and reads return.
PrefetchFairSpec ==
    /\ PrefetchSpec
    /\ WF_prefetchVars(Runner)
    /\ WF_prefetchVars(StartReading)
    /\ \A shard \in Jobs : WF_prefetchVars(ReadBlock(shard))
-----------------------------------------------------------------------------
PrefetchTypeOK ==
    /\ PoolTypeOK
    /\ rank \in 0 .. WorldSize - 1
    /\ runner \in {"seed", "seedSubmit", "wait", "reap", "submit", "shutdown",
                  "finish", "ended"}
    /\ drawn \in Nat
    /\ chosen \subseteq Jobs /\ Cardinality(chosen) <= 1
    /\ futures \subseteq Jobs
    /\ reaping \subseteq futures
    /\ errors \subseteq Jobs
    /\ cancelEvent \in BOOLEAN /\ succeededEvent \in BOOLEAN
    /\ left \in [Jobs -> 0 .. Blocks]
    /\ joiner \in {"no", "waiting", "back", "timeout"}
    /\ late \in Nat

\* A cancel lets through the one submission whose check came before it; no
\* later check passes.
AtMostOneLateSubmission == late <= 1

\* A prefetch that ended without being cancelled read every file of its rank
\* to the end or reported it.
EndedMeansReadOrReported ==
    Done /\ ~cancelEvent => \A shard \in MyFiles : left[shard] = 0 \/ shard \in errors

\* The handle never calls a prefetch failed for which it has no error to show,
\* at whatever moment between the success event and the thread's death it asks.
FailureHasAnError == Failed => errors # {}

\* stop() and cancel() are bounded: the thread dies, and no file is submitted
\* forever.
CancelEndsThread == cancelEvent ~> Done

\* Without a cancel the prefetch ends by itself.
PrefetchEnds == <>Done
=============================================================================
