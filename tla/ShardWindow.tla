----------------------------- MODULE ShardWindow -----------------------------
(***************************************************************************)
(* buffered_multi_thread_safetensors_weights_iterator: a generator over a  *)
(* thread pool that keeps a deque of MaxWorkers + 1 submitted shards,      *)
(* takes results from its front, submits one more shard per result and     *)
(* yields the tensors of the one it took.  It runs only while its consumer *)
(* asks for the next tensor; the consumer may close it between two.        *)
(***************************************************************************)
EXTENDS ThreadPool

CONSTANTS
    ShardCount,         \* hf_weights_files, numbered in order
    TensorsPerShard     \* tensors of a shard, in sorted name order

ASSUME WindowAssumption ==
    /\ ShardCount \in Nat
    /\ TensorsPerShard \in Nat \ {0}
    /\ Jobs = 1 .. ShardCount

BufferSize == MaxWorkers + 1

VARIABLES
    phase,      \* where the generator is
    taken,      \* shards taken from file_iter
    pending,    \* the deque of submitted shards
    current,    \* the shard popped from it, 0 when none
    yielded,    \* how many of its tensors were yielded
    out,        \* ghost: everything yielded
    outcome     \* how the iteration ended, "open" before

genVars == <<phase, taken, pending, current, yielded, out, outcome>>
windowVars == <<poolVars, genVars>>

SubmitNext ==
    /\ Submit(taken + 1)
    /\ taken' = taken + 1
    /\ pending' = Append(pending, taken + 1)

Seed_Everything ==
    /\ phase = "seed"
    /\ IF taken < ShardCount
       THEN SubmitNext /\ UNCHANGED phase
       ELSE phase' = "pop" /\ UNCHANGED <<poolVars, taken, pending>>
    /\ UNCHANGED <<current, yielded, out, outcome>>

\* for st_file in islice(file_iter, buffer_size)
Seed ==
    /\ phase = "seed"
    /\ IF taken < BufferSize /\ taken < ShardCount
       THEN SubmitNext /\ UNCHANGED phase
       ELSE phase' = "pop" /\ UNCHANGED <<poolVars, taken, pending>>
    /\ UNCHANGED <<current, yielded, out, outcome>>

\* while pending: popleft; an empty deque ends the loop.
Pop ==
    /\ phase = "pop"
    /\ IF pending = <<>>
       THEN /\ phase' = "shutdown" /\ outcome' = "complete"
            /\ UNCHANGED <<pending, current>>
       ELSE /\ phase' = "result" /\ UNCHANGED outcome
            /\ current' = Head(pending) /\ pending' = Tail(pending)
    /\ UNCHANGED <<poolVars, taken, yielded, out>>

Result_FailureSkipped ==
    /\ phase = "result"
    /\ current \in ended
    /\ phase' = IF current \in raised THEN "pop" ELSE "replenish"
    /\ UNCHANGED <<poolVars, taken, pending, current, yielded, out, outcome>>

Result_OnlySuccess ==
    /\ phase = "result"
    /\ current \in ended \ raised
    /\ phase' = "replenish"
    /\ UNCHANGED <<poolVars, taken, pending, current, yielded, out, outcome>>

\* future.result() blocks, then returns the tensors or raises out of the loop.
Result ==
    /\ phase = "result"
    /\ current \in ended
    /\ IF current \in raised
       THEN phase' = "shutdown" /\ outcome' = "raised"
       ELSE phase' = "replenish" /\ UNCHANGED outcome
    /\ UNCHANGED <<poolVars, taken, pending, current, yielded, out>>

Replenish_AtFront ==
    /\ phase = "replenish"
    /\ phase' = "yield"
    /\ IF taken < ShardCount
       THEN /\ Submit(taken + 1)
            /\ taken' = taken + 1
            /\ pending' = <<taken + 1>> \o pending
       ELSE UNCHANGED <<poolVars, taken, pending>>
    /\ UNCHANGED <<current, yielded, out, outcome>>

Replenish ==
    /\ phase = "replenish"
    /\ phase' = "yield"
    /\ IF taken < ShardCount THEN SubmitNext
       ELSE UNCHANGED <<poolVars, taken, pending>>
    /\ UNCHANGED <<current, yielded, out, outcome>>

YieldTensor ==
    /\ phase = "yield"
    /\ yielded < TensorsPerShard
    /\ yielded' = yielded + 1
    /\ out' = Append(out, <<current, yielded + 1>>)
    /\ UNCHANGED <<poolVars, phase, taken, pending, current, outcome>>

\* del state_dict
ReleaseShard ==
    /\ phase = "yield"
    /\ yielded = TensorsPerShard
    /\ phase' = "pop" /\ current' = 0 /\ yielded' = 0
    /\ UNCHANGED <<poolVars, taken, pending, out, outcome>>

\* The consumer drops the generator at a yield.
Close ==
    /\ phase = "yield" /\ yielded > 0
    /\ phase' = "shutdown" /\ outcome' = "closed"
    /\ UNCHANGED <<poolVars, taken, pending, current, yielded, out>>

\* Leaving the executor's with-block waits for every submitted shard.
Shutdown ==
    /\ phase = "shutdown" /\ Drained
    /\ phase' = "over" /\ pending' = <<>> /\ current' = 0 /\ yielded' = 0
    /\ UNCHANGED <<poolVars, taken, out, outcome>>

Generator ==
    Seed \/ Pop \/ Result \/ Replenish \/ YieldTensor \/ ReleaseShard \/ Shutdown

Worker ==
    /\ Start \/ \E shard \in Jobs, ok \in BOOLEAN : End(shard, ok)
    /\ UNCHANGED genVars

WindowInit ==
    /\ PoolInit
    /\ phase = "seed" /\ taken = 0 /\ pending = <<>> /\ current = 0
    /\ yielded = 0 /\ out = <<>> /\ outcome = "open"

WindowNext == Generator \/ Close \/ Worker

WindowSpec == WindowInit /\ [][WindowNext]_windowVars

\* The consumer keeps asking and the pool's threads are scheduled.
WindowFairSpec == WindowSpec /\ WF_windowVars(Generator) /\ WF_windowVars(Worker)
-----------------------------------------------------------------------------
WindowTypeOK ==
    /\ PoolTypeOK
    /\ phase \in {"seed", "pop", "result", "replenish", "yield", "shutdown", "over"}
    /\ taken \in 0 .. ShardCount
    /\ pending \in Seq(Jobs)
    /\ current \in 0 .. ShardCount
    /\ yielded \in 0 .. TensorsPerShard
    /\ out \in Seq(Jobs \X (1 .. TensorsPerShard))
    /\ outcome \in {"open", "complete", "raised", "closed"}

\* At most max_workers + 1 shards are in flight: submitted and not yet taken.
InFlightBounded == Len(pending) <= BufferSize

\* Peak memory: the shards being read, those read and waiting, and the one
\* being yielded are never more than max_workers + 2.
Referenced == {pending[i] : i \in DOMAIN pending} \union ({current} \ {0})
Resident == running \union ((ended \ raised) \intersect Referenced)

PeakMemoryBounded == Cardinality(Resident) <= MaxWorkers + 2

\* The deque holds consecutive shards that continue the one being yielded and
\* reach up to the last one submitted: no shard is skipped or waits twice.
WindowIsContiguous ==
    phase # "over" => \A i \in DOMAIN pending : pending[i] = taken - Len(pending) + i

\* The consumer sees what a sequential loader would show it.
Promise == INSTANCE InOrderLoad WITH
    ShardCount <- ShardCount, TensorsPerShard <- TensorsPerShard, out <- out, outcome <- outcome
ImplementsInOrderLoad == Promise!Spec

\* If the consumer keeps asking, the iteration ends, also after a failure.
IterationEnds == <>(phase = "over")
=============================================================================
