-------------------------- MODULE ShardWindowProofs --------------------------
(***************************************************************************)
(* The sliding window of shards for every number of shards, tensors and    *)
(* workers: its bounds, its order, and that the consumer sees what the     *)
(* in-order loader promises.                                               *)
(***************************************************************************)
EXTENDS ShardWindow, FiniteSetTheorems, TLAPS

\* Shards taken off the deque so far.
Base == taken - Len(pending)

\* The pool's queue is the tail of what was submitted; the rest of it is being
\* read or has ended, never both.
QueueInv ==
    /\ Len(queue) <= taken
    /\ \A i \in DOMAIN queue : queue[i] = taken - Len(queue) + i
    /\ running \subseteq 1 .. taken - Len(queue)
    /\ ended \subseteq 1 .. taken - Len(queue)
    /\ running \intersect ended = {}

\* How far the window is filled at each point of the loop.
FillInv ==
    /\ Len(pending) <= BufferSize
    /\ Len(pending) <= taken
    /\ phase = "seed" => Len(pending) = taken
    /\ phase = "pop" => Len(pending) = BufferSize \/ taken = ShardCount
    /\ phase \in {"result", "replenish"} =>
         /\ Len(pending) <= MaxWorkers
         /\ Len(pending) = MaxWorkers \/ taken = ShardCount
    /\ phase = "yield" => Len(pending) = BufferSize \/ taken = ShardCount

\* The shard off the deque, and that every shard before it was released.
CurrentInv ==
    /\ phase \in {"seed", "pop", "over"} => current = 0
    /\ phase \in {"result", "replenish", "yield"} => current = Base /\ current >= 1
    /\ phase = "shutdown" => current \in {0, Base}
    /\ phase \in {"replenish", "yield"} => current \in ended
    /\ phase \notin {"yield", "shutdown"} => yielded = 0
    /\ phase # "over" => \A s \in Queued \union running : s > Base \/ s = current

OutcomeInv ==
    outcome = "open" <=> phase \notin {"shutdown", "over"}

IInv == WindowTypeOK /\ QueueInv /\ FillInv /\ WindowIsContiguous /\ CurrentInv /\ OutcomeInv

\* What was yielded: whole shards before the current one, then its first ones.
OutInv ==
    /\ phase \in {"seed", "pop"} => Len(out) = TensorsPerShard * Base
    /\ phase \in {"result", "replenish", "yield"} =>
         Len(out) = TensorsPerShard * (current - 1) + yielded

-----------------------------------------------------------------------------
LEMMA SeqElement ==
  ASSUME NEW S, NEW q \in Seq(S), NEW k \in DOMAIN q
  PROVE  q[k] \in S
  OBVIOUS

\* Handing the next shard to the pool extends the deque and the queue by it.
LEMMA SubmitNextExtends ==
  ASSUME WindowTypeOK, QueueInv, WindowIsContiguous, phase # "over",
         taken < ShardCount, SubmitNext
  PROVE  /\ PoolTypeOK' /\ QueueInv'
         /\ taken' \in 0 .. ShardCount /\ pending' \in Seq(Jobs)
         /\ taken' = taken + 1
         /\ Len(pending') = Len(pending) + 1
         /\ \A i \in DOMAIN pending' : pending'[i] = taken' - Len(pending') + i
         /\ Base' = Base
         /\ Queued' \subseteq Queued \union {taken + 1}
         /\ running' = running /\ ended' = ended
  <1> USE WindowAssumption
  <1>1. taken + 1 \in Jobs /\ taken \in 0 .. ShardCount
      BY DEF WindowTypeOK
  <1>2. pending' = Append(pending, taken + 1) /\ pending \in Seq(Jobs) /\ taken' = taken + 1
      BY DEF SubmitNext, WindowTypeOK
  <1>3. queue' = Append(queue, taken + 1) /\ queue \in Seq(Jobs)
        /\ running' = running /\ ended' = ended /\ raised' = raised
      BY DEF SubmitNext, Submit, WindowTypeOK, PoolTypeOK
  <1>4. PoolTypeOK'
      BY <1>1, <1>3 DEF WindowTypeOK, PoolTypeOK
  <1>5. QueueInv'
    <2>1. Len(queue') = Len(queue) + 1 /\ DOMAIN queue' = 1 .. Len(queue) + 1
        BY <1>1, <1>3
    <2>2. \A i \in DOMAIN queue' : queue'[i] = taken' - Len(queue') + i
        BY <1>1, <1>2, <1>3, <2>1 DEF QueueInv
    <2>3. taken' - Len(queue') = taken - Len(queue) /\ Len(queue') <= taken'
        BY <1>1, <1>2, <1>3, <2>1 DEF QueueInv
    <2> QED
        BY <1>3, <2>2, <2>3 DEF QueueInv
  <1>6. Queued' \subseteq Queued \union {taken + 1}
      BY <1>1, <1>3 DEF Queued
  <1>7. \A i \in DOMAIN pending' : pending'[i] = taken' - Len(pending') + i
    <2>1. /\ Len(pending') = Len(pending) + 1 /\ DOMAIN pending' = 1 .. Len(pending) + 1
          /\ \A i \in 1 .. Len(pending) : pending'[i] = pending[i]
          /\ pending'[Len(pending) + 1] = taken + 1
        BY <1>1, <1>2
    <2>2. \A i \in 1 .. Len(pending) : pending[i] = taken - Len(pending) + i
        BY <1>2 DEF WindowIsContiguous
    <2> QED
        BY <1>1, <1>2, <2>1, <2>2
  <1> QED
      BY <1>1, <1>2, <1>3, <1>4, <1>5, <1>6, <1>7 DEF Base

\* The pool starts and ends jobs without touching the generator.
LEMMA WorkerPreserves ==
  ASSUME IInv, Worker
  PROVE  IInv'
  <1> USE WindowAssumption, PoolAssumption
  <1>0. UNCHANGED genVars
      BY DEF Worker
  <1>1. CASE Start
    <2>1. queue # <<>> /\ queue \in Seq(Jobs) /\ queue' = Tail(queue)
          /\ running' = running \union {Head(queue)} /\ ended' = ended /\ raised' = raised
        BY <1>1 DEF Start, IInv, WindowTypeOK, PoolTypeOK
    <2>2. /\ Len(queue') = Len(queue) - 1 /\ Len(queue) >= 1
          /\ DOMAIN queue' = 1 .. Len(queue) - 1
          /\ \A i \in 1 .. Len(queue) - 1 : queue'[i] = queue[i + 1]
          /\ Head(queue) = queue[1] /\ 1 \in DOMAIN queue
          /\ queue' \in Seq(Jobs) /\ Head(queue) \in Jobs /\ Len(queue) \in Nat
        BY <2>1
    <2>3. taken \in 0 .. ShardCount /\ Head(queue) = taken - Len(queue) + 1
        BY <2>2 DEF IInv, QueueInv, WindowTypeOK
    <2>4. QueueInv'
      <3>a. Len(queue) <= taken /\ Len(queue) \in Nat /\ taken \in Nat
          BY <2>2, <2>3 DEF IInv, QueueInv
      <3>b. taken - Len(queue) \in Nat
          BY ONLY <3>a
      <3>0. PICK front \in Nat : front = taken - Len(queue)
          BY ONLY <3>b
      <3>1. taken' = taken /\ taken' - Len(queue') = front + 1 /\ Head(queue) = front + 1
          BY <2>2, <2>3, <3>0, <1>0 DEF genVars
      <3>2. \A i \in DOMAIN queue' : queue'[i] = front + 1 + i
        <4>1. \A i \in 1 .. Len(queue) : queue[i] = front + i
          <5>1. DOMAIN queue = 1 .. Len(queue)
              BY <2>1
          <5> QED
              BY <5>1, <3>0 DEF IInv, QueueInv
        <4>2. \A i \in 1 .. Len(queue) - 1 : i + 1 \in 1 .. Len(queue)
            BY <2>2
        <4>3. \A i \in 1 .. Len(queue) - 1 : queue'[i] = queue[i + 1]
            BY <2>2
        <4>4. \A i \in 1 .. Len(queue) - 1 : queue'[i] = front + (i + 1)
            BY <4>1, <4>2, <4>3
        <4>5. \A i \in 1 .. Len(queue) - 1 : queue'[i] = front + 1 + i
            BY <4>4, <3>0
        <4> QED
            BY <2>2, <4>5
      <3>3. running \subseteq 1 .. front /\ ended \subseteq 1 .. front
            /\ running \intersect ended = {}
          BY <3>0 DEF IInv, QueueInv
      <3>4. running' \subseteq 1 .. front + 1 /\ ended' \subseteq 1 .. front + 1
            /\ running' \intersect ended' = {}
        <4>1. front \in Nat /\ front + 1 \in 1 .. front + 1 /\ front + 1 \notin 1 .. front
              /\ 1 .. front \subseteq 1 .. front + 1
            BY <3>0
        <4>2. running' = running \union {front + 1} /\ ended' = ended
            BY <2>1, <3>1
        <4> QED
            BY ONLY <3>3, <4>1, <4>2
      <3>5. Len(queue') <= taken'
          BY <2>2, <2>3, <3>0, <3>1
      <3> QED
          BY <3>1, <3>2, <3>4, <3>5 DEF QueueInv
    <2>5. Queued' \union running' \subseteq Queued \union running
        BY <2>1, <2>2 DEF Queued
    <2> QED
        BY <2>1, <2>2, <2>4, <2>5, <1>0 DEF IInv, WindowTypeOK, PoolTypeOK, FillInv,
           WindowIsContiguous, CurrentInv, OutcomeInv, Base, genVars
  <1>2. ASSUME NEW shard \in Jobs, NEW ok \in BOOLEAN, End(shard, ok) PROVE IInv'
    <2>1. Queued' = Queued /\ running' = running \ {shard} /\ shard \in running
          /\ ended' = ended \union {shard} /\ queue' = queue
          /\ raised' \subseteq raised \union {shard}
        BY <1>2 DEF End, Queued
    <2>2. PoolTypeOK'
        BY <2>1 DEF IInv, WindowTypeOK, PoolTypeOK
    <2>3. QueueInv'
        BY <2>1, <1>0 DEF IInv, QueueInv, genVars
    <2> QED
        BY <2>1, <2>2, <2>3, <1>0 DEF IInv, WindowTypeOK, FillInv,
           WindowIsContiguous, CurrentInv, OutcomeInv, Base, genVars
  <1> QED
      BY <1>1, <1>2 DEF Worker

\* Nothing is submitted, read or yielded at first.
LEMMA InitEstablishes == WindowInit => IInv
  BY WindowAssumption, PoolAssumption DEF WindowInit, PoolInit, IInv, WindowTypeOK,
     PoolTypeOK, QueueInv, FillInv, WindowIsContiguous, CurrentInv, OutcomeInv,
     Base, BufferSize, Queued

\* Each step of the generator keeps the window contiguous and within bounds.
LEMMA GeneratorPreserves ==
  ASSUME IInv, Generator \/ Close
  PROVE  IInv'
  <1> USE WindowAssumption, PoolAssumption
  <1>t. /\ taken \in 0 .. ShardCount /\ pending \in Seq(Jobs) /\ Len(pending) \in Nat
        /\ current \in 0 .. ShardCount /\ yielded \in 0 .. TensorsPerShard
        /\ BufferSize = MaxWorkers + 1 /\ MaxWorkers \in Nat \ {0}
      BY DEF IInv, WindowTypeOK, BufferSize
  <1>j. Queued \union running \subseteq 1 .. ShardCount
    <2>1. queue \in Seq(Jobs) /\ running \subseteq Jobs /\ Jobs = 1 .. ShardCount
        BY DEF IInv, WindowTypeOK, PoolTypeOK
    <2>2. ASSUME NEW k \in DOMAIN queue PROVE queue[k] \in Jobs
        BY ONLY <2>1, <2>2, SeqElement
    <2> QED
        BY ONLY <2>1, <2>2 DEF Queued
  <1>p. ASSUME UNCHANGED poolVars, UNCHANGED taken
        PROVE  PoolTypeOK' /\ QueueInv' /\ Queued' = Queued /\ running' = running
      BY <1>p DEF IInv, WindowTypeOK, PoolTypeOK, QueueInv, Queued, poolVars
  <1>1. CASE Seed
    <2>1. CASE taken < BufferSize /\ taken < ShardCount
      <3>1. SubmitNext /\ UNCHANGED <<phase, current, yielded, out, outcome>> /\ phase = "seed"
          BY <1>1, <2>1 DEF Seed
      <3>2. WindowTypeOK'
          BY <3>1, <2>1, SubmitNextExtends DEF IInv, WindowTypeOK
      <3>3. FillInv'
          BY <3>1, <2>1, <1>t, SubmitNextExtends DEF IInv, FillInv
      <3>4. WindowIsContiguous'
          BY <3>1, <2>1, SubmitNextExtends DEF IInv, WindowIsContiguous
      <3>5. CurrentInv'
        <4>1. /\ Base' = Base /\ Queued' \subseteq Queued \union {taken + 1}
              /\ running' = running /\ ended' = ended /\ taken' = taken + 1
            BY <3>1, <2>1, SubmitNextExtends DEF IInv
        <4>2. taken + 1 > Base
            BY <1>t DEF Base
        <4>3. \A s \in Queued \union running : s > Base \/ s = current
            BY <3>1 DEF IInv, CurrentInv
        <4>4. \A s \in Queued' \union running' : s > Base' \/ s = current'
            BY <3>1, <4>1, <4>2, <4>3
        <4> QED
            BY <3>1, <4>1, <4>4 DEF IInv, CurrentInv
      <3> QED
          BY <3>1, <3>2, <3>3, <3>4, <3>5, <2>1, SubmitNextExtends DEF IInv, OutcomeInv
    <2>2. CASE ~(taken < BufferSize /\ taken < ShardCount)
      <3>1. phase' = "pop" /\ phase = "seed"
            /\ UNCHANGED <<poolVars, taken, pending, current, yielded, out, outcome>>
          BY <1>1, <2>2 DEF Seed
      <3> QED
          BY <3>1, <2>2, <1>t, <1>p DEF IInv, WindowTypeOK, FillInv, WindowIsContiguous,
             CurrentInv, OutcomeInv, Base
    <2> QED
        BY <2>1, <2>2
  <1>2. CASE Pop
    <2>1. CASE pending = <<>>
        BY <1>2, <2>1, <1>t, <1>p DEF Pop, IInv, WindowTypeOK, FillInv, WindowIsContiguous,
           CurrentInv, OutcomeInv, Base
    <2>2. CASE pending # <<>>
      <3>1. /\ phase = "pop" /\ phase' = "result" /\ outcome' = outcome
            /\ current' = Head(pending) /\ pending' = Tail(pending)
            /\ UNCHANGED <<poolVars, taken, yielded, out>>
          BY <1>2, <2>2 DEF Pop
      <3>2. /\ Len(pending') = Len(pending) - 1 /\ Len(pending) >= 1
            /\ \A i \in 1 .. Len(pending) - 1 : pending'[i] = pending[i + 1]
            /\ DOMAIN pending' = 1 .. Len(pending) - 1
            /\ current' = pending[1] /\ 1 \in DOMAIN pending
            /\ pending' \in Seq(Jobs) /\ current' \in Jobs
          BY <3>1, <2>2, <1>t
      <3>3. current' = taken - Len(pending) + 1
          BY <3>1, <3>2, <1>t DEF IInv, WindowIsContiguous
      <3>4. WindowTypeOK'
          BY <3>1, <3>2, <1>t, <1>p DEF IInv, WindowTypeOK
      <3>5. WindowIsContiguous'
        <4>1. \A i \in DOMAIN pending : pending[i] = taken - Len(pending) + i
            BY <3>1 DEF IInv, WindowIsContiguous
        <4>2. ASSUME NEW i \in 1 .. Len(pending) - 1
              PROVE  pending'[i] = taken' - Len(pending') + i
          <5>1. i + 1 \in DOMAIN pending /\ Len(pending) \in Nat /\ taken \in Nat /\ taken' = taken
              BY <3>1, <3>2, <1>t
          <5>2. pending[i + 1] = taken - Len(pending) + (i + 1)
              BY <4>1, <5>1
          <5>3. pending'[i] = pending[i + 1] /\ Len(pending') = Len(pending) - 1
              BY <3>2
          <5>4. \A n, l \in Nat : n - l + (i + 1) = n - (l - 1) + i
              OBVIOUS
          <5> QED
              BY ONLY <5>1, <5>2, <5>3, <5>4
        <4> QED
            BY <3>2, <4>2 DEF WindowIsContiguous
      <3>6. FillInv'
        <4>1. Len(pending) <= taken /\ Len(pending) <= MaxWorkers + 1
              /\ (Len(pending) = MaxWorkers + 1 \/ taken = ShardCount)
            BY <3>1, <1>t DEF IInv, FillInv
        <4>2. phase' = "result" /\ taken' = taken /\ Len(pending') = Len(pending) - 1
            BY <3>1, <3>2
        <4>3. Len(pending') <= MaxWorkers /\ Len(pending') <= taken'
              /\ (Len(pending') = MaxWorkers \/ taken' = ShardCount)
            BY <4>1, <4>2, <1>t
        <4> QED
            BY <4>2, <4>3, <1>t DEF FillInv, BufferSize
      <3>7. Base' = Base + 1 /\ current' = Base'
          BY <3>1, <3>2, <3>3, <1>t DEF Base
      <3>9. \A s \in Queued \union running : s > Base
        <4>1. current = 0
            BY <3>1 DEF IInv, CurrentInv
        <4>2. \A s \in Queued \union running : s \in Nat /\ s >= 1
            BY <1>j
        <4> QED
            BY <4>1, <4>2, <3>1 DEF IInv, CurrentInv
      <3>8. CurrentInv'
        <4>1. \A s \in Queued \union running : s \in Nat
            BY <1>j
        <4>2. \A s \in Queued' \union running' : s > Base' \/ s = current'
            BY <3>1, <3>7, <3>9, <4>1, <1>p, <1>t DEF Base
        <4>3. current' >= 1 /\ yielded' = 0
            BY <3>1, <3>2 DEF IInv, CurrentInv
        <4> QED
            BY <3>1, <3>7, <4>2, <4>3 DEF CurrentInv
      <3> QED
          BY <3>1, <3>4, <3>5, <3>6, <3>8, <1>p DEF IInv, OutcomeInv
    <2> QED
        BY <2>1, <2>2
  <1>3. CASE Result
    <2>1. /\ UNCHANGED <<poolVars, taken, pending, current, yielded, out>>
          /\ phase = "result" /\ current \in ended
          /\ \/ phase' = "shutdown" /\ outcome' = "raised"
             \/ phase' = "replenish" /\ outcome' = outcome
        BY <1>3 DEF Result
    <2>2. WindowTypeOK' /\ QueueInv'
        BY <2>1, <1>p DEF IInv, WindowTypeOK
    <2>3. FillInv'
        BY <2>1, <1>t DEF IInv, FillInv, BufferSize
    <2>4. WindowIsContiguous'
        BY <2>1 DEF IInv, WindowIsContiguous
    <2>5. CurrentInv'
        BY <2>1, <1>p DEF IInv, CurrentInv, Base, poolVars
    <2> QED
        BY <2>1, <2>2, <2>3, <2>4, <2>5 DEF IInv, OutcomeInv
  <1>4. CASE Replenish
    <2>1. CASE taken < ShardCount
      <3>1. /\ SubmitNext /\ phase = "replenish" /\ phase' = "yield"
            /\ UNCHANGED <<current, yielded, out, outcome>>
          BY <1>4, <2>1 DEF Replenish
      <3>2. WindowTypeOK'
          BY <3>1, <2>1, SubmitNextExtends DEF IInv, WindowTypeOK
      <3>3. FillInv'
          BY <3>1, <2>1, <1>t, SubmitNextExtends DEF IInv, FillInv
      <3>4. WindowIsContiguous'
          BY <3>1, <2>1, SubmitNextExtends DEF IInv, WindowIsContiguous
      <3>5. CurrentInv'
        <4>1. /\ Base' = Base /\ Queued' \subseteq Queued \union {taken + 1}
              /\ running' = running /\ ended' = ended /\ taken' = taken + 1
            BY <3>1, <2>1, SubmitNextExtends DEF IInv
        <4>2. taken + 1 > Base
            BY <1>t DEF Base
        <4>3. \A s \in Queued \union running : s > Base \/ s = current
            BY <3>1 DEF IInv, CurrentInv
        <4>4. \A s \in Queued' \union running' : s > Base' \/ s = current'
            BY <3>1, <4>1, <4>2, <4>3
        <4> QED
            BY <3>1, <4>1, <4>4 DEF IInv, CurrentInv
      <3> QED
          BY <3>1, <3>2, <3>3, <3>4, <3>5, <2>1, SubmitNextExtends DEF IInv, OutcomeInv
    <2>2. CASE ~(taken < ShardCount)
      <3>1. /\ phase = "replenish" /\ phase' = "yield"
            /\ UNCHANGED <<poolVars, taken, pending, current, yielded, out, outcome>>
          BY <1>4, <2>2 DEF Replenish
      <3>2. WindowTypeOK' /\ QueueInv'
          BY <3>1, <1>p DEF IInv, WindowTypeOK
      <3>3. FillInv'
          BY <3>1, <2>2, <1>t DEF IInv, FillInv, BufferSize
      <3>4. WindowIsContiguous' /\ CurrentInv'
          BY <3>1, <1>p DEF IInv, WindowIsContiguous, CurrentInv, Base, poolVars
      <3> QED
          BY <3>1, <3>2, <3>3, <3>4 DEF IInv, OutcomeInv
    <2> QED
        BY <2>1, <2>2
  <1>5. CASE YieldTensor
    <2>1. <<current, yielded + 1>> \in Jobs \X (1 .. TensorsPerShard)
        BY <1>5, <1>t DEF YieldTensor, IInv, CurrentInv
    <2>2. out' \in Seq(Jobs \X (1 .. TensorsPerShard))
        BY <1>5, <2>1 DEF YieldTensor, IInv, WindowTypeOK
    <2>3. /\ UNCHANGED <<poolVars, phase, taken, pending, current, outcome>>
          /\ phase = "yield" /\ yielded < TensorsPerShard /\ yielded' = yielded + 1
        BY <1>5 DEF YieldTensor
    <2>4. WindowTypeOK' /\ QueueInv'
        BY <2>2, <2>3, <1>t, <1>p DEF IInv, WindowTypeOK
    <2>5. FillInv' /\ WindowIsContiguous'
        BY <2>3 DEF IInv, FillInv, WindowIsContiguous
    <2>6. CurrentInv'
        BY <2>3, <1>p DEF IInv, CurrentInv, Base, poolVars
    <2> QED
        BY <2>3, <2>4, <2>5, <2>6 DEF IInv, OutcomeInv
  <1>6. CASE ReleaseShard
    <2>1. current \notin Queued \union running
      <3>1. current \in ended
          BY <1>6 DEF ReleaseShard, IInv, CurrentInv
      <3>2. \A i \in DOMAIN queue : queue[i] > taken - Len(queue)
          BY <1>t DEF IInv, QueueInv, WindowTypeOK, PoolTypeOK
      <3>3. ended \subseteq 1 .. taken - Len(queue) /\ running \intersect ended = {}
          BY DEF IInv, QueueInv
      <3> QED
          BY <3>1, <3>2, <3>3, <1>t DEF Queued
    <2>2. \A s \in Queued \union running : s > Base
        BY <1>6, <2>1 DEF ReleaseShard, IInv, CurrentInv
    <2> QED
        BY <1>6, <2>2, <1>t, <1>p DEF ReleaseShard, IInv, WindowTypeOK, FillInv, WindowIsContiguous,
           CurrentInv, OutcomeInv, Base
  <1>7. CASE Close
      BY <1>7, <1>t, <1>p DEF Close, IInv, WindowTypeOK, FillInv, WindowIsContiguous,
         CurrentInv, OutcomeInv, Base
  <1>8. CASE Shutdown
      BY <1>8, <1>t, <1>p DEF Shutdown, IInv, WindowTypeOK, FillInv, WindowIsContiguous,
         CurrentInv, OutcomeInv, Base
  <1> QED
      BY <1>1, <1>2, <1>3, <1>4, <1>5, <1>6, <1>7, <1>8 DEF Generator

LEMMA StepPreserves == IInv /\ [WindowNext]_windowVars => IInv'
  <1> SUFFICES ASSUME IInv, [WindowNext]_windowVars PROVE IInv'
      OBVIOUS
  <1>1. CASE UNCHANGED windowVars
      BY <1>1 DEF windowVars, poolVars, genVars, IInv, WindowTypeOK, PoolTypeOK, QueueInv, FillInv,
         WindowIsContiguous, CurrentInv, OutcomeInv, Base, Queued
  <1> QED
      BY <1>1, WorkerPreserves, GeneratorPreserves DEF WindowNext

LEMMA Inductive == WindowSpec => []IInv
  BY InitEstablishes, StepPreserves, PTL DEF WindowSpec

\* Variables keep their types.
THEOREM TypeCorrect == WindowSpec => []WindowTypeOK
  <1>1. IInv => WindowTypeOK
      BY DEF IInv
  <1> QED
      BY <1>1, Inductive, PTL

\* The generator never keeps more than max_workers + 1 submitted shards.
THEOREM SubmissionsBounded == WindowSpec => []InFlightBounded
  <1>1. IInv => InFlightBounded
      BY DEF IInv, FillInv, InFlightBounded
  <1> QED
      BY <1>1, Inductive, PTL

\* The deque is the run of shards between the one yielded and the last one
\* submitted, for every number of shards and workers.
THEOREM NoShardSkipped == WindowSpec => []WindowIsContiguous
  <1>1. IInv => WindowIsContiguous
      BY DEF IInv
  <1> QED
      BY <1>1, Inductive, PTL

-----------------------------------------------------------------------------
\* Once the generator is over, the pool is empty and stays so.
OverInv == phase = "over" => queue = <<>> /\ running = {} /\ pending = <<>>

LEMMA OverInductive == WindowSpec => []OverInv
  <1>1. WindowInit => OverInv
      BY DEF WindowInit, OverInv
  <1>2. OverInv /\ [WindowNext]_windowVars => OverInv'
    <2> SUFFICES ASSUME OverInv, [WindowNext]_windowVars PROVE OverInv'
        OBVIOUS
    <2> USE DEF OverInv
    <2>1. CASE Generator
        BY <2>1 DEF Generator, Seed, Pop, Result, Replenish, YieldTensor, ReleaseShard,
           Shutdown, Drained, poolVars
    <2>2. CASE Close
        BY <2>2 DEF Close
    <2>3. CASE Worker
        BY <2>3 DEF Worker, Start, End, genVars
    <2>4. CASE UNCHANGED windowVars
        BY <2>4 DEF windowVars, poolVars, genVars
    <2> QED
        BY <2>1, <2>2, <2>3, <2>4 DEF WindowNext
  <1> QED
      BY <1>1, <1>2, PTL DEF WindowSpec

\* The shards in memory are among the one being yielded and those after it in
\* the window, so there are at most max_workers + 2 of them.
THEOREM MemoryBounded == WindowSpec => []PeakMemoryBounded
  <1>1. IInv /\ OverInv => PeakMemoryBounded
    <2> SUFFICES ASSUME IInv, OverInv PROVE Cardinality(Resident) <= MaxWorkers + 2
        BY DEF PeakMemoryBounded
    <2> USE WindowAssumption, PoolAssumption
    <2>1. /\ taken \in Nat /\ Len(pending) \in Nat /\ current \in Nat
          /\ pending \in Seq(Jobs) /\ MaxWorkers \in Nat
          /\ Len(pending) <= taken /\ Len(pending) <= MaxWorkers + 1
        BY DEF IInv, WindowTypeOK, FillInv, BufferSize
    <2>2. Base \in Nat /\ Base = taken - Len(pending)
        BY <2>1 DEF Base
    <2>3. Resident \subseteq Base .. taken
      <3>1. \A i \in DOMAIN pending : pending[i] \in Base .. taken
        <4>1. CASE phase = "over"
            BY <4>1 DEF OverInv
        <4>2. CASE phase # "over"
            BY <4>2, <2>1, <2>2 DEF IInv, WindowIsContiguous
        <4> QED
            BY <4>1, <4>2
      <3>2. current \in {0, Base}
          BY DEF IInv, CurrentInv, WindowTypeOK
      <3>3. running \subseteq Base .. taken
        <4>1. CASE phase = "over"
            BY <4>1 DEF OverInv
        <4>2. CASE phase # "over"
          <5>1. \A s \in running : s > Base \/ s = current
              BY <4>2 DEF IInv, CurrentInv
          <5>2. \A s \in running : s \in Nat /\ s >= 1 /\ s <= taken
            <6>1. queue \in Seq(Jobs) /\ running \subseteq 1 .. taken - Len(queue)
                BY DEF IInv, WindowTypeOK, PoolTypeOK, QueueInv
            <6>2. Len(queue) \in Nat
                BY <6>1
            <6> QED
                BY <6>1, <6>2, <2>1
          <5> QED
              BY <5>1, <5>2, <3>2, <2>1, <2>2
        <4> QED
            BY <4>1, <4>2
      <3>4. Base \in Base .. taken
          BY <2>1, <2>2
      <3> QED
          BY <3>1, <3>2, <3>3, <3>4 DEF Resident, Referenced
    <2>4. IsFiniteSet(Base .. taken) /\ Cardinality(Base .. taken) = Len(pending) + 1
      <3>1. Base \in Int /\ taken \in Int /\ Base <= taken
          BY <2>1, <2>2
      <3>2. Cardinality(Base .. taken) = taken - Base + 1
          BY <3>1, FS_Interval
      <3> QED
          BY <3>1, <3>2, <2>1, <2>2, FS_Interval
    <2>5. IsFiniteSet(Resident) /\ Cardinality(Resident) <= Cardinality(Base .. taken)
          /\ Cardinality(Resident) \in Nat
        BY <2>3, <2>4, FS_Subset, FS_CardinalityType
    <2> QED
        BY <2>1, <2>4, <2>5
  <1> QED
      BY <1>1, Inductive, OverInductive, PTL

-----------------------------------------------------------------------------
LEMMA OutInductive ==
  ASSUME IInv, OutInv, [WindowNext]_windowVars
  PROVE  OutInv'
  <1> USE WindowAssumption, PoolAssumption
  <1>t. /\ taken \in Nat /\ pending \in Seq(Jobs) /\ Len(pending) \in Nat
        /\ current \in Nat /\ yielded \in Nat /\ TensorsPerShard \in Nat
        /\ Base = taken - Len(pending) /\ Len(pending) <= taken
      BY DEF IInv, WindowTypeOK, Base, FillInv
  <1>1. CASE Seed
    <2>1. CASE taken < BufferSize /\ taken < ShardCount
      <3>1. SubmitNext /\ UNCHANGED <<phase, current, yielded, out>> /\ phase = "seed"
          BY <1>1, <2>1 DEF Seed
      <3> QED
          BY <3>1, <2>1, SubmitNextExtends DEF IInv, OutInv
    <2> QED
        BY <2>1, <1>1 DEF Seed, OutInv, Base
  <1>2. CASE Pop
    <2>1. CASE pending = <<>>
        BY <1>2, <2>1 DEF Pop, OutInv
    <2>2. CASE pending # <<>>
      <3>1. /\ phase = "pop" /\ phase' = "result" /\ current' = Head(pending)
            /\ out' = out /\ yielded' = yielded
          BY <1>2, <2>2 DEF Pop
      <3>2. Head(pending) = pending[1] /\ 1 \in DOMAIN pending
          BY <2>2, <1>t
      <3>3. current' = Base + 1 /\ yielded' = 0
          BY <3>1, <3>2, <1>t DEF IInv, WindowIsContiguous, CurrentInv
      <3>4. Base \in Nat
          BY <1>t
      <3>5. current' - 1 = Base /\ TensorsPerShard * Base + 0 = TensorsPerShard * Base
          BY <3>3, <3>4, <1>t
      <3>6. Len(out') = TensorsPerShard * Base /\ phase' = "result"
          BY <3>1 DEF OutInv
      <3>7. Len(out') = TensorsPerShard * (current' - 1) + yielded'
          BY <3>3, <3>5, <3>6
      <3> QED
          BY <3>6, <3>7 DEF OutInv
    <2> QED
        BY <2>1, <2>2
  <1>3. CASE Result
      BY <1>3 DEF Result, OutInv
  <1>4. CASE Replenish
      BY <1>4 DEF Replenish, OutInv
  <1>5. CASE YieldTensor
    <2>1. /\ phase = "yield" /\ UNCHANGED <<phase, current>> /\ yielded' = yielded + 1
          /\ Len(out') = Len(out) + 1
        BY <1>5 DEF YieldTensor, IInv, WindowTypeOK
    <2> QED
        BY <2>1, <1>t DEF OutInv
  <1>6. CASE ReleaseShard
    <2>1. /\ phase = "yield" /\ phase' = "pop" /\ UNCHANGED <<taken, pending, out>>
          /\ yielded = TensorsPerShard /\ current = Base /\ current >= 1
        BY <1>6 DEF ReleaseShard, IInv, CurrentInv
    <2>2. Len(out) = TensorsPerShard * (Base - 1) + TensorsPerShard
        BY <2>1 DEF OutInv
    <2>3. TensorsPerShard * (Base - 1) + TensorsPerShard = TensorsPerShard * Base
        BY <2>1, <1>t
    <2>4. Base' = Base
        BY <2>1 DEF Base
    <2> QED
        BY <2>1, <2>2, <2>3, <2>4 DEF OutInv
  <1>7. CASE Close
      BY <1>7 DEF Close, OutInv
  <1>8. CASE Shutdown
      BY <1>8 DEF Shutdown, OutInv
  <1>9. CASE Worker \/ UNCHANGED windowVars
      BY <1>9 DEF Worker, windowVars, genVars, OutInv, Base
  <1> QED
      BY <1>1, <1>2, <1>3, <1>4, <1>5, <1>6, <1>7, <1>8, <1>9 DEF WindowNext, Generator

\* Euclidean division of the number of tensors before one by the tensors of a
\* shard gives back its shard and its place there.
LEMMA PlaceOfTensor ==
  ASSUME NEW d \in Nat \ {0}, NEW q \in Nat, NEW y \in 0 .. d - 1
  PROVE  (d * q + y) \div d = q /\ (d * q + y) % d = y
  OBVIOUS

LEMMA TensorAtPlace ==
  ASSUME NEW q \in Nat, NEW y \in 0 .. TensorsPerShard - 1, NEW n \in Nat,
         n = TensorsPerShard * q + y + 1
  PROVE  Promise!TensorAt(n) = <<q + 1, y + 1>>
  <1>1. n - 1 = TensorsPerShard * q + y
      BY WindowAssumption
  <1>2. (n - 1) \div TensorsPerShard = q /\ (n - 1) % TensorsPerShard = y
      BY <1>1, PlaceOfTensor, WindowAssumption
  <1> QED
      BY <1>2 DEF Promise!TensorAt

\* A tensor of one of the shards is not past the last one.
LEMMA TensorsBefore ==
  ASSUME NEW d \in Nat \ {0}, NEW n \in Nat, NEW c \in 1 .. n, NEW y \in 0 .. d - 1
  PROVE  d * (c - 1) + y < n * d
  <1>1. PICK k \in Nat : n = c + k
    <2>1. n - c \in Nat /\ n = c + (n - c)
        OBVIOUS
    <2> QED
        BY <2>1
  <1>2. PICK b \in Nat : c = b + 1
    <2>1. c - 1 \in Nat /\ c = (c - 1) + 1
        OBVIOUS
    <2> QED
        BY <2>1
  <1>3. n * d = d * b + d + d * k /\ d * k \in Nat /\ d * b \in Nat
      BY <1>1, <1>2
  <1>4. d * (c - 1) = d * b
      BY <1>2
  <1> QED
      BY <1>3, <1>4

\* Whatever order the pool reads shards in, the consumer is handed what an
\* in-order loader would hand it.
THEOREM LoadsInOrder == WindowSpec => ImplementsInOrderLoad
  <1> USE WindowAssumption, PoolAssumption
  <1>1. WindowInit => Promise!Init /\ OutInv
      BY DEF WindowInit, Promise!Init, OutInv, Base
  <1>2. IInv /\ OutInv /\ [WindowNext]_windowVars => [Promise!Next]_<<out, outcome>>
    <2> SUFFICES ASSUME IInv, OutInv, [WindowNext]_windowVars
                 PROVE  Promise!Next \/ UNCHANGED <<out, outcome>>
        OBVIOUS
    <2>t. /\ taken \in 0 .. ShardCount /\ Len(pending) \in Nat /\ pending \in Seq(Jobs)
          /\ current \in 0 .. ShardCount /\ yielded \in 0 .. TensorsPerShard
          /\ TensorsPerShard \in Nat \ {0} /\ ShardCount \in Nat
          /\ out \in Seq(Jobs \X (1 .. TensorsPerShard))
        BY DEF IInv, WindowTypeOK
    <2>s. ASSUME current \in 1 .. ShardCount, NEW y \in 0 .. TensorsPerShard - 1
          PROVE  TensorsPerShard * (current - 1) + y < ShardCount * TensorsPerShard
        BY <2>s, <2>t, TensorsBefore
    <2>1. CASE YieldTensor
      <3>1. /\ phase = "yield" /\ yielded \in 0 .. TensorsPerShard - 1
            /\ out' = Append(out, <<current, yielded + 1>>) /\ outcome' = outcome
            /\ outcome = "open" /\ current \in 1 .. ShardCount
            /\ Len(out) = TensorsPerShard * (current - 1) + yielded
          BY <2>1, <2>t DEF YieldTensor, IInv, OutcomeInv, CurrentInv, OutInv
      <3>2. Len(out) < ShardCount * TensorsPerShard
          BY <3>1, <2>s
      <3>3. Promise!TensorAt(Len(out) + 1) = <<current, yielded + 1>>
        <4>1. current - 1 \in Nat /\ Len(out) \in Nat
            BY <3>1, <2>t
        <4>2. Len(out) + 1 = TensorsPerShard * (current - 1) + yielded + 1
              /\ Len(out) + 1 \in Nat /\ current - 1 + 1 = current
            BY <3>1, <4>1
        <4> QED
          <5>1. yielded \in 0 .. TensorsPerShard - 1
              BY <3>1
          <5>2. Promise!TensorAt(Len(out) + 1) = <<(current - 1) + 1, yielded + 1>>
              BY <4>1, <4>2, <5>1, TensorAtPlace
          <5> QED
              BY <4>2, <5>2
      <3> QED
          BY <3>1, <3>2, <3>3 DEF Promise!Next, Promise!Yield
    <2>2. CASE Pop
      <3>1. CASE pending = <<>>
        <4>1. phase = "pop" /\ outcome' = "complete" /\ out' = out /\ outcome = "open"
            BY <2>2, <3>1 DEF Pop, IInv, OutcomeInv
        <4>2. Base = ShardCount
            BY <4>1, <3>1, <2>t DEF IInv, FillInv, BufferSize, Base
        <4>3. Len(out) = ShardCount * TensorsPerShard
            BY <4>1, <4>2, <2>t DEF OutInv
        <4> QED
            BY <4>1, <4>3 DEF Promise!Next, Promise!Complete
      <3>2. CASE pending # <<>>
          BY <2>2, <3>2 DEF Pop
      <3> QED
          BY <3>1, <3>2
    <2>3. CASE Result
      <3>1. CASE current \in raised
        <4>1. phase = "result" /\ outcome' = "raised" /\ out' = out /\ outcome = "open"
              /\ yielded = 0 /\ current \in 1 .. ShardCount
            BY <2>3, <3>1, <2>t DEF Result, IInv, OutcomeInv, CurrentInv
        <4>2. Len(out) = TensorsPerShard * (current - 1) + 0
            BY <4>1 DEF OutInv
        <4>3. current - 1 \in Nat /\ 0 \in 0 .. TensorsPerShard - 1
            BY <4>1, <2>t
        <4>4. Len(out) < ShardCount * TensorsPerShard
            BY <4>1, <4>2, <4>3, <2>s
        <4>5. Len(out) % TensorsPerShard = 0
          <5>1. (TensorsPerShard * (current - 1) + 0) % TensorsPerShard = 0
              BY <4>3, <2>t, PlaceOfTensor
          <5> QED
              BY <5>1, <4>2
        <4> QED
            BY <4>1, <4>4, <4>5 DEF Promise!Next, Promise!Raise
      <3>2. CASE current \notin raised
          BY <2>3, <3>2 DEF Result
      <3> QED
          BY <3>1, <3>2
    <2>4. CASE Close
      <3>1. /\ phase = "yield" /\ yielded > 0 /\ outcome' = "closed" /\ out' = out
            /\ outcome = "open" /\ current >= 1
            /\ Len(out) = TensorsPerShard * (current - 1) + yielded
          BY <2>4 DEF Close, IInv, OutcomeInv, CurrentInv, OutInv
      <3>2. TensorsPerShard * (current - 1) \in Nat
          BY <3>1, <2>t
      <3>3. Len(out) > 0
          BY <3>1, <3>2, <2>t
      <3>4. out # <<>>
          BY <3>3
      <3> QED
          BY <3>1, <3>4 DEF Promise!Next, Promise!Close
    <2>5. CASE Seed \/ Replenish \/ ReleaseShard \/ Shutdown \/ Worker \/ UNCHANGED windowVars
        BY <2>5 DEF Seed, Replenish, ReleaseShard, Shutdown, Worker, windowVars, genVars
    <2> QED
        BY <2>1, <2>2, <2>3, <2>4, <2>5 DEF WindowNext, Generator
  <1>3. IInv /\ OutInv /\ [WindowNext]_windowVars => OutInv'
      BY OutInductive
  <1>4. WindowSpec => []OutInv
      BY <1>1, <1>3, Inductive, PTL DEF WindowSpec
  <1> QED
      BY <1>1, <1>2, <1>4, Inductive, PTL DEF WindowSpec, ImplementsInOrderLoad, Promise!Spec
=============================================================================
