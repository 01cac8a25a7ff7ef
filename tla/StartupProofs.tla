----------------------------- MODULE StartupProofs -----------------------------
(***************************************************************************)
(* The parts of a start for every number of processes, shards, rows and    *)
(* parts: the folder of numpy dumps, the page-cache prefetch, what a start *)
(* that loads has loaded, which rows a served table has, and which weights *)
(* and rows of the head the forwards read.                                 *)
(***************************************************************************)
EXTENDS Startup, Integers, FiniteSetTheorems, TLAPS

-----------------------------------------------------------------------------
(* The folder of numpy dumps: a readable list of names stands for a        *)
(* complete dump, and nothing changes under a process that reads it.       *)

Inside == {"check", "dump", "save", "names", "release"}

\* A process inside the critical section holds the lock.
LockHeld == \A p \in Procs : pc[p] \in Inside => lock = p

\* What the process that dumps has done so far.
DumpProgress ==
    \A p \in Procs :
        /\ pc[p] \in {"dump", "save"} =>
             names = "absent" /\ \A n \in 1 .. at[p] - 1 : file[n] = "whole"
        /\ pc[p] = "save" => at[p] \in Tensors
        /\ pc[p] = "load" => names = "whole"
        /\ pc[p] = "names" =>
             names = "cut" /\ \A n \in Tensors : file[n] = "whole"

NpCacheInv == TypeOK /\ LockHeld /\ DumpProgress /\ NamesMeanWholeDump

\* Before anything ran the folder is empty.
LEMMA NpCacheInitially == Init => NpCacheInv
  BY NpAssumption DEF Init, NpCacheInv, TypeOK, LockHeld, Inside, DumpProgress,
     NamesMeanWholeDump, Tensors

\* Every step of a process, a crash and a restart keep the folder consistent.
LEMMA NpCacheStep == NpCacheInv /\ [Next]_vars => NpCacheInv'
  <1> SUFFICES ASSUME NpCacheInv, [Next]_vars PROVE NpCacheInv'
      OBVIOUS
  <1> USE NpAssumption DEF NpCacheInv, TypeOK, LockHeld, Inside, DumpProgress,
          NamesMeanWholeDump, Tensors
  <1>1. ASSUME NEW p \in Procs, Acquire(p) PROVE NpCacheInv'
      BY <1>1 DEF Acquire, Step
  <1>2. ASSUME NEW p \in Procs, Check(p) PROVE NpCacheInv'
      BY <1>2 DEF Check, Step, Go
  <1>3. ASSUME NEW p \in Procs, OpenTensor(p) PROVE NpCacheInv'
      BY <1>3 DEF OpenTensor, Step
  <1>4. ASSUME NEW p \in Procs, SaveTensor(p) PROVE NpCacheInv'
      BY <1>4 DEF SaveTensor, Step, Go
  <1>5. ASSUME NEW p \in Procs, OpenNames(p) PROVE NpCacheInv'
      BY <1>5 DEF OpenNames, Step
  <1>6. ASSUME NEW p \in Procs, WriteNames(p) PROVE NpCacheInv'
      BY <1>6 DEF WriteNames, Step
  <1>7. ASSUME NEW p \in Procs, Release(p) PROVE NpCacheInv'
      BY <1>7 DEF Release, Step
  <1>8. ASSUME NEW p \in Procs, ReadNames(p) PROVE NpCacheInv'
      BY <1>8 DEF ReadNames, Step, Go
  <1>9. ASSUME NEW p \in Procs, LoadTensor(p) PROVE NpCacheInv'
      BY <1>9 DEF LoadTensor, Step, Go
  <1>10. ASSUME NEW p \in Procs, Loaded(p) PROVE NpCacheInv'
      BY <1>10 DEF Loaded, Step
  <1>11. ASSUME NEW p \in Procs, Crash(p) PROVE NpCacheInv'
      BY <1>11 DEF Crash
  <1>12. ASSUME NEW p \in Procs, Restart(p) PROVE NpCacheInv'
      BY <1>12 DEF Restart, Step
  <1>13. CASE UNCHANGED vars
      BY <1>13 DEF vars
  <1> QED
      BY <1>1, <1>2, <1>3, <1>4, <1>5, <1>6, <1>7, <1>8, <1>9, <1>10, <1>11,
         <1>12, <1>13 DEF Next, Load

LEMMA Inductive == Spec => []NpCacheInv
  BY NpCacheInitially, NpCacheStep, PTL DEF Spec

\* Variables keep their types.
THEOREM NpCacheTypes == Spec => []TypeOK
  <1>1. NpCacheInv => TypeOK
      BY DEF NpCacheInv
  <1> QED
      BY <1>1, Inductive, PTL

\* A readable weight_names.json means that every tensor was dumped whole,
\* however many processes died while dumping.
THEOREM ListMeansWholeDump == Spec => []NamesMeanWholeDump
  <1>1. NpCacheInv => NamesMeanWholeDump
      BY DEF NpCacheInv
  <1> QED
      BY <1>1, Inductive, PTL

\* No file changes while a process reads the folder outside the lock.
THEOREM ReadersUndisturbed == Spec => NothingIsRewrittenUnderReaders
  <1>1. NpCacheInv /\ [Next]_vars =>
          [(\E p \in Procs : pc[p] = "load") =>
             /\ \A n \in Tensors : file'[n] = file[n]
             /\ names' = names]_vars
    <2> SUFFICES ASSUME NpCacheInv, [Next]_vars, NEW q \in Procs, pc[q] = "load"
                 PROVE (\A n \in Tensors : file'[n] = file[n]) /\ names' = names
        OBVIOUS
    <2>1. \A p \in Procs : pc[p] \notin {"dump", "save", "names"}
        BY DEF NpCacheInv, DumpProgress
    <2> QED
        BY <2>1 DEF Next, Load, vars, Acquire, Check, OpenTensor, SaveTensor,
           OpenNames, WriteNames, Release, ReadNames, LoadTensor, Loaded,
           Crash, Restart, Step
  <1> QED
      BY <1>1, Inductive, PTL DEF Spec, NothingIsRewrittenUnderReaders

\* While nobody was killed: whoever is past the dump follows a complete list,
\* and a list that is being written has its writer.
Calm ==
    crashes = 0 =>
        /\ \A p \in Procs : pc[p] \notin {"failed", "down"}
        /\ \A p \in Procs : pc[p] \in {"release", "list", "load"} => names = "whole"
        /\ names = "cut" => \E p \in Procs : pc[p] = "names"

LEMMA CalmPreserved == NpCacheInv /\ Calm /\ [Next]_vars => Calm'
  <1> SUFFICES ASSUME NpCacheInv, Calm, [Next]_vars, crashes' = 0 PROVE Calm'
      BY DEF Calm
  <1> USE NpAssumption DEF Step, Go
  <1>1. /\ crashes \in Nat
        /\ pc \in [Procs -> {"start", "check", "dump", "save", "names", "release",
                            "list", "load", "loaded", "failed", "down"}]
      BY DEF NpCacheInv, TypeOK
  <1>2. ASSUME NEW p \in Procs, Check(p) PROVE Calm'
    <2>1. crashes = 0 /\ pc[p] = "check" /\ lock = p
        BY <1>2 DEF Check, NpCacheInv, LockHeld, Inside
    <2>2. names # "cut"
        BY <2>1 DEF Calm, NpCacheInv, LockHeld, Inside
    <2> QED
        BY <1>1, <1>2, <2>1, <2>2 DEF Check, Calm, NpCacheInv, TypeOK
  <1>3. ASSUME NEW p \in Procs, OpenNames(p) PROVE Calm'
    <2>1. crashes = 0 /\ names = "absent"
        BY <1>3 DEF OpenNames, NpCacheInv, DumpProgress
    <2> QED
        BY <1>1, <1>3, <2>1 DEF OpenNames, Calm
  <1>4. ASSUME NEW p \in Procs, LoadTensor(p) PROVE Calm'
    <2>1. crashes = 0 /\ names = "whole" /\ file[at[p]] = "whole"
        BY <1>4 DEF LoadTensor, Calm, NpCacheInv, NamesMeanWholeDump
    <2> QED
        BY <1>1, <1>4, <2>1 DEF LoadTensor, Calm
  <1>5. ASSUME NEW p \in Procs, ReadNames(p) PROVE Calm'
    <2>1. crashes = 0 /\ names = "whole"
        BY <1>5 DEF ReadNames, Calm
    <2> QED
        BY <1>1, <1>5, <2>1 DEF ReadNames, Calm
  <1>6. ASSUME NEW p \in Procs, Crash(p) PROVE Calm'
      BY <1>1, <1>6 DEF Crash
  <1>7. ASSUME NEW p \in Procs,
               Acquire(p) \/ OpenTensor(p) \/ SaveTensor(p) \/ WriteNames(p)
               \/ Release(p) \/ Loaded(p) \/ Restart(p)
        PROVE Calm'
      BY <1>1, <1>7 DEF Acquire, OpenTensor, SaveTensor, WriteNames, Release,
         Loaded, Restart, Calm
  <1>8. CASE UNCHANGED vars
      BY <1>8 DEF vars, Calm
  <1> QED
      BY <1>2, <1>3, <1>4, <1>5, <1>6, <1>7, <1>8 DEF Next, Load

\* As long as no process is killed, every load finds a complete list and whole
\* tensors: nobody fails.
THEOREM CalmLoadsSucceed == Spec => []UndisturbedLoadSucceeds
  <1>1. Init => Calm
      BY DEF Init, Calm
  <1>2. NpCacheInv /\ Calm => UndisturbedLoadSucceeds
      BY DEF Calm, UndisturbedLoadSucceeds, EveryLoadSucceeds
  <1> QED
      BY <1>1, <1>2, CalmPreserved, Inductive, PTL DEF Spec

-----------------------------------------------------------------------------
(* The prefetch: what a cancel lets through, that an end means read or     *)
(* reported, and that a failure can be shown.                              *)

Submitting == {"seedSubmit", "submit"}

\* A file is between the cancel check and its submission exactly while the
\* runner is about to submit, and it is one of this rank's.
ChosenInv ==
    /\ runner \in Submitting <=> chosen # {}
    /\ drawn \in 0 .. MyCount

\* The late submission was the last one.
LateInv == late = 0 \/ (late = 1 /\ cancelEvent /\ runner \notin Submitting)

\* The event is set before the runner leaves.
SuccessInv == runner \in {"finish", "ended"} => succeededEvent

\* A future whose job neither raised nor was cut short has its file read.
ReadInv ==
    /\ \A shard \in ended : shard \in raised \/ left[shard] = 0 \/ cancelEvent
    /\ reaping \subseteq ended

\* No drawn file is lost: it is about to be submitted, waited for, read or
\* reported, unless the prefetch was cancelled.
TrackedInv ==
    ~cancelEvent => \A n \in 1 .. drawn :
        \/ MyFile(n) \in chosen \union futures \union errors
        \/ left[MyFile(n)] = 0

\* The runner stops waiting only when the iterator is exhausted.
DrainInv ==
    /\ runner \in {"wait", "reap"} /\ futures = {} => cancelEvent \/ drawn = MyCount
    /\ runner \in {"shutdown", "finish", "ended"} =>
         futures = {} /\ (cancelEvent \/ drawn = MyCount)

PrefetchInv ==
    /\ PrefetchTypeOK /\ ChosenInv /\ LateInv /\ SuccessInv
    /\ ReadInv /\ TrackedInv /\ DrainInv

-----------------------------------------------------------------------------
\* The slice sorted_files[rank::world_size] stays within the list.
LEMMA MyFilesAreJobs ==
  ASSUME rank \in 0 .. WorldSize - 1
  PROVE  /\ MyCount \in Nat
         /\ \A n \in 1 .. MyCount : MyFile(n) \in Jobs
  <1> USE PrefetchAssumption
  <1> DEFINE N == Len(SortedFiles)
             q == (N - rank - 1) \div WorldSize
  <1>1. N \in Nat /\ rank \in Nat /\ WorldSize \in Nat \ {0}
      OBVIOUS
  <1>2. CASE rank < N
    <2>1. N - rank - 1 \in Nat
        BY <1>1, <1>2
    <2>2. q \in Nat /\ q * WorldSize <= N - rank - 1
        BY <1>1, <2>1
    <2>3. MyCount = q + 1
        BY <1>2 DEF MyCount
    <2>4. ASSUME NEW n \in 1 .. MyCount PROVE MyFile(n) \in Jobs
      <3>1. n - 1 \in 0 .. q
          BY <2>2, <2>3
      <3>2. (n - 1) * WorldSize <= q * WorldSize /\ (n - 1) * WorldSize \in Nat
          BY <1>1, <2>2, <3>1
      <3>3. rank + 1 + (n - 1) * WorldSize \in 1 .. N
          BY <1>1, <2>2, <3>2
      <3>4. QED
          BY <3>3 DEF MyFile
    <2>5. QED
        BY <2>2, <2>3, <2>4
  <1>3. CASE ~(rank < N)
      BY <1>3 DEF MyCount
  <1>4. QED
      BY <1>2, <1>3

-----------------------------------------------------------------------------
\* Each rank keeps its slice.
LEMMA SliceStays ==
  ASSUME rank' = rank
  PROVE  MyCount' = MyCount /\ \A n : MyFile(n)' = MyFile(n)
  BY DEF MyCount, MyFile

\* What the cancel check before a file decides.
LEMMA TakeStep ==
  ASSUME PrefetchTypeOK, ChosenInv, chosen = {},
         NEW found, NEW exhausted, Take(found, exhausted)
  PROVE  \/ /\ cancelEvent \/ drawn = MyCount
            /\ runner' = exhausted /\ drawn' = drawn /\ chosen' = {}
         \/ /\ ~cancelEvent /\ drawn < MyCount
            /\ runner' = found /\ drawn' = drawn + 1
            /\ chosen' = {MyFile(drawn + 1)}
            /\ MyFile(drawn + 1) \in Jobs /\ Cardinality(chosen') = 1
            /\ drawn' \in 1 .. MyCount
  <1>1. MyCount \in Nat /\ \A n \in 1 .. MyCount : MyFile(n) \in Jobs
      BY MyFilesAreJobs DEF PrefetchTypeOK
  <1>2. drawn \in 0 .. MyCount
      BY DEF ChosenInv
  <1>3. CASE cancelEvent \/ drawn = MyCount
      BY <1>3 DEF Take
  <1>4. CASE ~(cancelEvent \/ drawn = MyCount)
    <2>1. drawn < MyCount /\ drawn + 1 \in 1 .. MyCount
        BY <1>1, <1>2, <1>4
    <2>2. Cardinality({MyFile(drawn + 1)}) = 1
        BY FS_Singleton
    <2>3. QED
        BY <1>1, <1>4, <2>1, <2>2 DEF Take
  <1>5. QED
      BY <1>3, <1>4

\* The pool keeps its types whatever happens in it.
LEMMA PoolStep ==
  ASSUME PoolTypeOK
  PROVE  /\ \A job \in Jobs : Submit(job) => PoolTypeOK' /\ UNCHANGED <<running, ended, raised>>
         /\ Start => PoolTypeOK' /\ UNCHANGED <<ended, raised>>
         /\ \A job, ok : End(job, ok) =>
              /\ PoolTypeOK' /\ job \in Jobs /\ ended' = ended \union {job}
              /\ raised' = IF ok THEN raised ELSE raised \union {job}
  <1>1. ASSUME NEW job \in Jobs, Submit(job)
        PROVE  PoolTypeOK' /\ UNCHANGED <<running, ended, raised>>
      BY <1>1 DEF Submit, PoolTypeOK
  <1>2. ASSUME Start PROVE PoolTypeOK' /\ UNCHANGED <<ended, raised>>
    <2>1. queue # <<>> /\ queue \in Seq(Jobs)
        BY <1>2 DEF Start, PoolTypeOK
    <2>2. Head(queue) \in Jobs /\ Tail(queue) \in Seq(Jobs)
        BY <2>1
    <2>3. QED
        BY <1>2, <2>2 DEF Start, PoolTypeOK
  <1>3. ASSUME NEW job, NEW ok, End(job, ok)
        PROVE  /\ PoolTypeOK' /\ job \in Jobs /\ ended' = ended \union {job}
               /\ raised' = IF ok THEN raised ELSE raised \union {job}
      BY <1>3 DEF End, PoolTypeOK
  <1>4. QED
      BY <1>1, <1>2, <1>3

LEMMA PrefetchInitially == PrefetchInit => PrefetchInv
  <1> SUFFICES ASSUME PrefetchInit PROVE PrefetchInv
      OBVIOUS
  <1> USE PrefetchAssumption DEF PrefetchInit
  <1>1. MyCount \in Nat
      BY MyFilesAreJobs
  <1>2. PrefetchTypeOK
    <2>1. PoolTypeOK
        BY DEF PoolInit, PoolTypeOK
    <2>2. Cardinality(chosen) <= 1
        BY FS_EmptySet
    <2>3. left \in [Jobs -> 0 .. Blocks]
        OBVIOUS
    <2>4. QED
        BY <2>1, <2>2, <2>3 DEF PrefetchTypeOK
  <1>3. ChosenInv /\ LateInv /\ SuccessInv /\ ReadInv /\ DrainInv
      BY <1>1 DEF ChosenInv, LateInv, SuccessInv, ReadInv, DrainInv, PoolInit, Submitting
  <1>4. TrackedInv
      BY DEF TrackedInv
  <1>5. QED
      BY <1>2, <1>3, <1>4 DEF PrefetchInv

\* Every step of the runner, the pool's workers and the handle's owner keeps the
\* invariant.
LEMMA PrefetchStep == PrefetchInv /\ [PrefetchNext]_prefetchVars => PrefetchInv'
  <1> SUFFICES ASSUME PrefetchInv, [PrefetchNext]_prefetchVars PROVE PrefetchInv'
      OBVIOUS
  <1> USE DEF PrefetchInv
  <1>a. PoolTypeOK
      BY DEF PrefetchTypeOK
  <1>b. MyCount \in Nat /\ \A n \in 1 .. MyCount : MyFile(n) \in Jobs
      BY MyFilesAreJobs DEF PrefetchTypeOK
  <1>c. rank' = rank
      BY DEF PrefetchNext, prefetchVars, Runner, StartReading, ReadBlock, Cancel, Stop, Joined
  <1>d. MyCount' = MyCount /\ \A n : MyFile(n)' = MyFile(n)
      BY <1>c, SliceStays
  <1> DEFINE Kept == UNCHANGED <<rank, cancelEvent, left, joiner>>
  <1>1. ASSUME SeedWindow, Kept PROVE PrefetchInv'
    <2> USE <1>1
    <2>1. runner = "seed" /\ chosen = {}
        BY DEF SeedWindow, ChosenInv, Submitting
    <2>2. UNCHANGED <<poolVars, futures, reaping, succeededEvent, errors, late>>
        BY DEF SeedWindow
    <2>3. CASE Cardinality(futures) < NumThreads
      <3>1. Take("seedSubmit", "wait")
          BY <2>3 DEF SeedWindow
      <3>2. \/ /\ cancelEvent \/ drawn = MyCount
               /\ runner' = "wait" /\ drawn' = drawn /\ chosen' = {}
            \/ /\ ~cancelEvent /\ drawn < MyCount
               /\ runner' = "seedSubmit" /\ drawn' = drawn + 1
               /\ chosen' = {MyFile(drawn + 1)}
               /\ MyFile(drawn + 1) \in Jobs /\ Cardinality(chosen') = 1
               /\ drawn' \in 1 .. MyCount
          BY <3>1, <2>1, TakeStep
      <3>3. PrefetchTypeOK'
        <4>1. chosen' \subseteq Jobs /\ Cardinality(chosen') <= 1 /\ drawn' \in Nat
            BY <3>2, FS_EmptySet DEF PrefetchTypeOK
        <4>2. runner' \in {"wait", "seedSubmit"}
            BY <3>2
        <4>3. QED
            BY <2>2, <4>1, <4>2 DEF PrefetchTypeOK, PoolTypeOK, poolVars
      <3>4. ChosenInv' /\ LateInv' /\ SuccessInv' /\ ReadInv' /\ DrainInv'
          BY <2>1, <2>2, <3>2, <1>b, <1>d
          DEF ChosenInv, LateInv, SuccessInv, ReadInv, DrainInv, Submitting, poolVars,
              PrefetchTypeOK
      <3>5. TrackedInv'
          BY <2>1, <2>2, <3>2, <1>d DEF TrackedInv, PrefetchTypeOK
      <3>6. QED
          BY <3>3, <3>4, <3>5
    <2>4. CASE ~(Cardinality(futures) < NumThreads)
      <3>1. runner' = "wait" /\ UNCHANGED <<drawn, chosen>>
          BY <2>4 DEF SeedWindow
      <3>2. futures # {}
          BY <2>4, FS_EmptySet, PoolAssumption DEF NumThreads
      <3>3. PrefetchTypeOK'
          BY <2>1, <2>2, <3>1 DEF PrefetchTypeOK, PoolTypeOK, poolVars
      <3>4. ChosenInv' /\ LateInv' /\ SuccessInv' /\ ReadInv' /\ DrainInv' /\ TrackedInv'
          BY <2>1, <2>2, <3>1, <3>2, <1>d
          DEF ChosenInv, LateInv, SuccessInv, ReadInv, DrainInv, TrackedInv, Submitting, poolVars
      <3>5. QED
          BY <3>3, <3>4
    <2>5. QED
        BY <2>3, <2>4
  <1>2. ASSUME NEW from \in Submitting, NEW to \in {"seed", "reap"},
               SubmitChosen(from, to), Kept
        PROVE  PrefetchInv'
    <2> USE <1>2
    <2>1. PICK shard \in chosen : Submit(shard)
        BY DEF SubmitChosen
    <2>2. /\ PoolTypeOK' /\ UNCHANGED <<running, ended, raised>>
        BY <2>1, <1>a, PoolStep DEF PrefetchTypeOK
    <2>3. /\ runner = from /\ runner' = to /\ futures' = futures \union chosen /\ chosen' = {}
          /\ late' = (IF cancelEvent THEN late + 1 ELSE late)
          /\ UNCHANGED <<drawn, reaping, succeededEvent, errors>>
        BY DEF SubmitChosen
    <2>4. PrefetchTypeOK'
        BY <2>2, <2>3, FS_EmptySet DEF PrefetchTypeOK
    <2>5. ChosenInv' /\ LateInv' /\ SuccessInv' /\ ReadInv'
        BY <2>2, <2>3, <1>d DEF ChosenInv, LateInv, SuccessInv, ReadInv, Submitting
    <2>6. DrainInv'
        BY <2>1, <2>3 DEF DrainInv
    <2>7. TrackedInv'
        BY <2>3, <1>d DEF TrackedInv
    <2>8. QED
        BY <2>4, <2>5, <2>6, <2>7
  <1>3. ASSUME Wait, Kept PROVE PrefetchInv'
    <2> USE <1>3
    <2>1. /\ runner = "wait"
          /\ UNCHANGED <<poolVars, drawn, chosen, futures, succeededEvent, errors, late>>
          /\ \/ futures = {} /\ runner' = "shutdown" /\ reaping' = reaping
             \/ /\ futures # {} /\ runner' = "reap"
                /\ reaping' = futures \intersect ended
        BY DEF Wait
    <2>2. PrefetchTypeOK'
        BY <2>1 DEF PrefetchTypeOK, PoolTypeOK, poolVars
    <2>3. ChosenInv' /\ LateInv' /\ SuccessInv' /\ ReadInv' /\ DrainInv' /\ TrackedInv'
        BY <2>1, <1>d
        DEF ChosenInv, LateInv, SuccessInv, ReadInv, DrainInv, TrackedInv, Submitting, poolVars
    <2>4. QED
        BY <2>2, <2>3
  <1>4. ASSUME Reap, Kept PROVE PrefetchInv'
    <2> USE <1>4
    <2>1. PICK shard \in reaping :
            /\ reaping' = reaping \ {shard}
            /\ futures' = futures \ {shard}
            /\ errors' = IF shard \in raised THEN errors \union {shard} ELSE errors
            /\ Take("submit", "reap")
        BY DEF Reap
    <2>2. runner = "reap" /\ chosen = {} /\ UNCHANGED <<poolVars, succeededEvent, late>>
        BY DEF Reap, ChosenInv, Submitting
    <2>3. \/ /\ cancelEvent \/ drawn = MyCount
             /\ runner' = "reap" /\ drawn' = drawn /\ chosen' = {}
          \/ /\ ~cancelEvent /\ drawn < MyCount
             /\ runner' = "submit" /\ drawn' = drawn + 1
             /\ chosen' = {MyFile(drawn + 1)}
             /\ MyFile(drawn + 1) \in Jobs /\ Cardinality(chosen') = 1
             /\ drawn' \in 1 .. MyCount
        BY <2>1, <2>2, TakeStep
    <2>4. PrefetchTypeOK'
      <3>a. Cardinality({}) = 0
          BY FS_EmptySet
      <3>b. chosen' \subseteq Jobs /\ Cardinality(chosen') <= 1
          BY <2>3, <3>a
      <3>1. chosen' \subseteq Jobs /\ Cardinality(chosen') <= 1 /\ drawn' \in Nat
          BY <2>3, <3>b DEF PrefetchTypeOK
      <3>2. runner' \in {"reap", "submit"}
          BY <2>3
      <3>3. reaping' \subseteq futures' /\ futures' \subseteq Jobs /\ errors' \subseteq Jobs
          BY <2>1 DEF PrefetchTypeOK
      <3>4. QED
          BY <2>2, <3>1, <3>2, <3>3 DEF PrefetchTypeOK, PoolTypeOK, poolVars
    <2>5. ChosenInv' /\ LateInv' /\ SuccessInv' /\ ReadInv' /\ DrainInv'
        BY <2>1, <2>2, <2>3, <1>b, <1>d
        DEF ChosenInv, LateInv, SuccessInv, ReadInv, DrainInv, Submitting, poolVars,
            PrefetchTypeOK
    <2>6. TrackedInv'
      <3>1. shard \in raised \/ left[shard] = 0 \/ cancelEvent
          BY <2>1 DEF ReadInv
      <3>2. QED
          BY <2>1, <2>2, <2>3, <3>1, <1>d DEF TrackedInv, PrefetchTypeOK
    <2>7. QED
        BY <2>4, <2>5, <2>6
  <1>5. ASSUME ReapDone \/ LeavePool \/ ThreadEnds, Kept PROVE PrefetchInv'
    <2> USE <1>5
    <2>1. /\ UNCHANGED <<poolVars, drawn, chosen, futures, reaping, errors, late>>
          /\ \/ runner = "reap" /\ runner' = "wait" /\ succeededEvent' = succeededEvent
             \/ runner = "shutdown" /\ runner' = "finish" /\ succeededEvent' = TRUE
             \/ runner = "finish" /\ runner' = "ended" /\ succeededEvent' = succeededEvent
        BY DEF ReapDone, LeavePool, ThreadEnds
    <2>2. PrefetchTypeOK'
        BY <2>1 DEF PrefetchTypeOK, PoolTypeOK, poolVars
    <2>3. ChosenInv' /\ LateInv' /\ SuccessInv' /\ ReadInv' /\ DrainInv' /\ TrackedInv'
        BY <2>1, <1>d
        DEF ChosenInv, LateInv, SuccessInv, ReadInv, DrainInv, TrackedInv, Submitting, poolVars
    <2>4. QED
        BY <2>2, <2>3
  <1>6. CASE Runner
      BY <1>1, <1>2, <1>3, <1>4, <1>5, <1>6 DEF Runner, Submitting
  <1>7. CASE StartReading
    <2>1. PoolTypeOK' /\ UNCHANGED <<ended, raised>>
        BY <1>7, <1>a, PoolStep DEF StartReading
    <2>2. UNCHANGED <<runnerVars, rank, cancelEvent, left, joiner>>
        BY <1>7 DEF StartReading
    <2>3. PrefetchTypeOK'
        BY <2>1, <2>2 DEF PrefetchTypeOK, runnerVars
    <2>4. ChosenInv' /\ LateInv' /\ SuccessInv' /\ ReadInv' /\ DrainInv' /\ TrackedInv'
        BY <2>1, <2>2, <1>d
        DEF ChosenInv, LateInv, SuccessInv, ReadInv, DrainInv, TrackedInv, Submitting, runnerVars
    <2>5. QED
        BY <2>3, <2>4
  <1>8. ASSUME NEW shard \in Jobs, ReadBlock(shard) PROVE PrefetchInv'
    <2>1. UNCHANGED <<runnerVars, rank, cancelEvent, joiner>>
        BY <1>8 DEF ReadBlock
    <2>2. /\ PoolTypeOK' /\ left' \in [Jobs -> 0 .. Blocks]
          /\ \A s \in Jobs : left[s] = 0 => left'[s] = 0
          /\ ended \subseteq ended'
          /\ \A s \in ended' : s \in raised' \/ left'[s] = 0 \/ cancelEvent
      <3>1. CASE (cancelEvent \/ left[shard] = 0) /\ End(shard, TRUE) /\ UNCHANGED left
        <4>1. PoolTypeOK' /\ ended' = ended \union {shard} /\ raised' = raised
            BY <3>1, <1>a, PoolStep
        <4>2. QED
            BY <3>1, <4>1 DEF ReadInv, PrefetchTypeOK
      <3>2. CASE End(shard, FALSE) /\ UNCHANGED left
        <4>1. PoolTypeOK' /\ ended' = ended \union {shard} /\ raised' = raised \union {shard}
            BY <3>2, <1>a, PoolStep
        <4>2. QED
            BY <3>2, <4>1 DEF ReadInv, PrefetchTypeOK
      <3>3. CASE /\ shard \in running /\ ~cancelEvent /\ left[shard] > 0
                 /\ left' = [left EXCEPT ![shard] = @ - 1]
                 /\ UNCHANGED poolVars
        <4>1. left \in [Jobs -> 0 .. Blocks] /\ left[shard] \in 1 .. Blocks
            BY <3>3, PrefetchAssumption DEF PrefetchTypeOK
        <4>2. left' \in [Jobs -> 0 .. Blocks] /\ \A s \in Jobs : left[s] = 0 => left'[s] = 0
            BY <3>3, <4>1, PrefetchAssumption
        <4>3. QED
            BY <3>3, <4>2, <1>a DEF ReadInv, PrefetchTypeOK, PoolTypeOK, poolVars
      <3>4. QED
          BY <1>8, <3>1, <3>2, <3>3 DEF ReadBlock
    <2>3. PrefetchTypeOK'
        BY <2>1, <2>2 DEF PrefetchTypeOK, runnerVars
    <2>4. ChosenInv' /\ LateInv' /\ SuccessInv' /\ ReadInv' /\ DrainInv'
        BY <2>1, <2>2, <1>d
        DEF ChosenInv, LateInv, SuccessInv, ReadInv, DrainInv, Submitting, runnerVars
    <2>5. TrackedInv'
      <3>1. \A n \in 1 .. drawn : MyFile(n) \in Jobs
          BY <1>b DEF ChosenInv
      <3>2. QED
          BY <2>1, <2>2, <3>1, <1>d DEF TrackedInv, runnerVars
    <2>6. QED
        BY <2>3, <2>4, <2>5
  <1>9. CASE Cancel \/ Stop \/ Joined
    <2>1. /\ UNCHANGED <<poolVars, runnerVars, rank, left>>
          /\ cancelEvent' \in BOOLEAN /\ (cancelEvent => cancelEvent')
          /\ joiner' \in {"no", "waiting", "back", "timeout"}
        BY <1>9 DEF Cancel, Stop, Joined, PrefetchTypeOK
    <2>2. PrefetchTypeOK'
        BY <2>1 DEF PrefetchTypeOK, PoolTypeOK, poolVars, runnerVars
    <2>3. ChosenInv' /\ LateInv' /\ SuccessInv' /\ ReadInv' /\ DrainInv' /\ TrackedInv'
        BY <2>1, <1>d
        DEF ChosenInv, LateInv, SuccessInv, ReadInv, DrainInv, TrackedInv, Submitting,
            poolVars, runnerVars
    <2>4. QED
        BY <2>2, <2>3
  <1>10. CASE UNCHANGED prefetchVars
    <2>1. PrefetchTypeOK'
        BY <1>10 DEF prefetchVars, PrefetchTypeOK, PoolTypeOK, poolVars, runnerVars
    <2>2. ChosenInv' /\ LateInv' /\ SuccessInv' /\ ReadInv' /\ DrainInv' /\ TrackedInv'
        BY <1>10, <1>d
        DEF prefetchVars, ChosenInv, LateInv, SuccessInv, ReadInv, DrainInv, TrackedInv,
            Submitting, poolVars, runnerVars
    <2>3. QED
        BY <2>1, <2>2
  <1>11. QED
      BY <1>6, <1>7, <1>8, <1>9, <1>10 DEF PrefetchNext

\* The invariant at every moment of the prefetch.
LEMMA PrefetchAlways == PrefetchSpec => []PrefetchInv
  BY PrefetchInitially, PrefetchStep, PTL DEF PrefetchSpec

\* Every variable keeps its type, the runner's counters and the pool's included.
THEOREM PrefetchTypes == PrefetchSpec => []PrefetchTypeOK
  <1>1. PrefetchInv => PrefetchTypeOK
      BY DEF PrefetchInv
  <1>2. QED
      BY <1>1, PrefetchAlways, PTL

\* Whatever the number of files and threads, a cancel lets through at most the
\* one submission whose check of the event came before it.
THEOREM CancelLetsOneThrough == PrefetchSpec => []AtMostOneLateSubmission
  <1>1. PrefetchInv => AtMostOneLateSubmission
      BY DEF PrefetchInv, LateInv, AtMostOneLateSubmission
  <1>2. QED
      BY <1>1, PrefetchAlways, PTL

\* A runner that ended without a cancel left none of its rank's files unread and
\* unreported.
THEOREM EndMeansReadOrReported == PrefetchSpec => []EndedMeansReadOrReported
  <1>1. ASSUME PrefetchInv, Done, ~cancelEvent, NEW shard \in MyFiles
        PROVE  left[shard] = 0 \/ shard \in errors
    <2>1. PICK n \in 1 .. MyCount : shard = MyFile(n)
        BY <1>1 DEF MyFiles
    <2>2. futures = {} /\ drawn = MyCount /\ chosen = {}
        BY <1>1 DEF PrefetchInv, DrainInv, ChosenInv, Submitting, Done
    <2>3. QED
        BY <1>1, <2>1, <2>2 DEF PrefetchInv, TrackedInv
  <1>2. PrefetchInv => EndedMeansReadOrReported
      BY <1>1 DEF EndedMeansReadOrReported
  <1>3. QED
      BY <1>2, PrefetchAlways, PTL

\* At no moment between the success event and the thread's death does the
\* handle call a prefetch failed without an error to show.
THEOREM FailuresHaveErrors == PrefetchSpec => []FailureHasAnError
  <1>1. PrefetchInv => FailureHasAnError
      BY DEF PrefetchInv, SuccessInv, FailureHasAnError, Failed, Done
  <1>2. QED
      BY <1>1, PrefetchAlways, PTL

-----------------------------------------------------------------------------
(* The snapshot.                                                           *)

Places == {"start", "find", "ls", "fetch", "leave", "glob", "askIndex", "index", "filter",
           "loaded", "failed", "down"}

SnapshotTypes ==
    /\ onDisk \subseteq Shards
    /\ indexOnDisk \in BOOLEAN
    /\ hubOffline \in [Starts -> BOOLEAN]
    /\ place \in [Starts -> Places]
    /\ listed \in [Starts -> SUBSET Shards]
    /\ sawIndex \in [Starts -> BOOLEAN]
    /\ cuts \in Nat

\* Whoever checks, downloads or fetches the index holds the lock.
HoldsModelLock ==
    \A p \in Starts :
        place[p] \in {"find", "ls", "fetch", "leave", "index"} => modelLock = p

\* Before the first cut a folder that holds part of the model has its downloader.
NoHalfDownload ==
    cuts = 0 => onDisk = {} \/ Shards \subseteq onDisk \/ \E q \in Starts : place[q] = "fetch"

\* A start that StartsAreComplete speaks of.
Covered(p) == ~hubOffline[p] /\ (cuts = 0 \/ sawIndex[p])

\* Once such a start leaves the download everything is there, and it lists it.
CoveredInv ==
    \A p \in Starts : Covered(p) =>
        /\ place[p] \in {"leave", "glob", "askIndex", "index", "filter", "loaded"} =>
             Shards \subseteq onDisk
        /\ place[p] \in {"askIndex", "index", "filter", "loaded"} => Shards \subseteq listed[p]

FailedInv == \A p \in Starts : place[p] = "failed" => hubOffline[p] \/ cuts > 0

SnapshotInv == SnapshotTypes /\ HoldsModelLock /\ NoHalfDownload /\ CoveredInv /\ FailedInv

LEMMA SnapshotInitially == SnapshotInit => SnapshotInv
  <1> SUFFICES ASSUME SnapshotInit PROVE SnapshotInv
      OBVIOUS
  <1>1. /\ onDisk = {} /\ indexOnDisk = FALSE /\ hubOffline \in [Starts -> BOOLEAN]
        /\ listed = [p \in Starts |-> {}] /\ sawIndex = [p \in Starts |-> FALSE] /\ cuts = 0
        /\ place \in [Starts -> Places] /\ \A p \in Starts : place[p] = "start"
      BY DEF SnapshotInit, Places
  <1>2. SnapshotTypes
      BY <1>1 DEF SnapshotTypes
  <1>3. HoldsModelLock /\ NoHalfDownload /\ CoveredInv /\ FailedInv
      BY <1>1 DEF HoldsModelLock, NoHalfDownload, CoveredInv, FailedInv
  <1>4. QED
      BY <1>2, <1>3 DEF SnapshotInv

\* A process that checks the folder before the first cut finds nothing or all of it.
LEMMA FolderIsWhole ==
  ASSUME SnapshotInv, NEW p \in Starts, place[p] = "find", cuts = 0, onDisk # {}
  PROVE  Shards \subseteq onDisk
  <1>1. ASSUME NEW q \in Starts, place[q] = "fetch" PROVE FALSE
      BY <1>1 DEF SnapshotInv, HoldsModelLock
  <1>2. QED
      BY <1>1 DEF SnapshotInv, NoHalfDownload

\* A step of one process inside or around the lock.
LEMMA SnapshotStartStep ==
  ASSUME SnapshotInv, NEW p \in Starts, StartStep(p)
  PROVE  SnapshotInv'
  <1> USE SnapshotAssumption DEF SnapshotInv
  <1>1. SnapshotTypes
      OBVIOUS
  <1>2. CASE EnterDownload(p)
    <2>1. /\ modelLock = "free" /\ modelLock' = p
          /\ place[p] = "start" /\ place' = [place EXCEPT ![p] = "find"]
          /\ UNCHANGED <<onDisk, indexOnDisk, hubOffline, listed, sawIndex, cuts>>
        BY <1>2 DEF EnterDownload, Move
    <2>2. SnapshotTypes'
        BY <2>1 DEF SnapshotTypes, Places
    <2>3. HoldsModelLock'
        BY <2>1 DEF HoldsModelLock, SnapshotTypes
    <2>4. NoHalfDownload' /\ CoveredInv' /\ FailedInv'
        BY <2>1 DEF NoHalfDownload, CoveredInv, Covered, FailedInv, SnapshotTypes
    <2>5. QED
        BY <2>2, <2>3, <2>4
  <1>3. CASE FindLocal(p)
    <2>1. /\ place[p] = "find"
          /\ place' = [place EXCEPT ![p] = IF onDisk # {} /\ IndexFilesExist THEN "leave" ELSE "ls"]
          /\ sawIndex' = [sawIndex EXCEPT ![p] = indexOnDisk]
          /\ UNCHANGED <<modelLock, onDisk, indexOnDisk, hubOffline, listed, cuts>>
        BY <1>3 DEF FindLocal, Move
    <2>2. SnapshotTypes'
        BY <2>1 DEF SnapshotTypes, Places
    <2>3. HoldsModelLock' /\ NoHalfDownload' /\ FailedInv'
        BY <2>1 DEF HoldsModelLock, NoHalfDownload, FailedInv, SnapshotTypes
    <2>4. CoveredInv'
      <3>1. Covered(p)' /\ place'[p] = "leave" => Shards \subseteq onDisk
          BY <2>1, FolderIsWhole DEF Covered, SnapshotTypes, IndexFilesExist
      <3>2. place'[p] \in {"leave", "ls"}
          BY <2>1 DEF SnapshotTypes
      <3>3. ASSUME NEW q \in Starts, q # p
            PROVE  place'[q] = place[q] /\ sawIndex'[q] = sawIndex[q]
          BY <2>1, <3>3 DEF SnapshotTypes
      <3>4. QED
          BY <2>1, <3>1, <3>2, <3>3 DEF CoveredInv, Covered
    <2>5. QED
        BY <2>2, <2>3, <2>4
  <1>4. CASE ListHub(p) \/ LeaveDownload(p)
    <2>1. /\ \/ /\ place[p] = "ls" /\ modelLock' = modelLock
                /\ place' = [place EXCEPT ![p] = IF hubOffline[p] THEN "leave" ELSE "fetch"]
             \/ /\ place[p] = "leave" /\ modelLock' = "free"
                /\ place' = [place EXCEPT ![p] = "glob"]
          /\ UNCHANGED <<onDisk, indexOnDisk, hubOffline, listed, sawIndex, cuts>>
        BY <1>4 DEF ListHub, LeaveDownload, Move
    <2>2. SnapshotTypes'
        BY <2>1 DEF SnapshotTypes, Places
    <2>3. HoldsModelLock'
        BY <2>1 DEF HoldsModelLock, SnapshotTypes
    <2>4. NoHalfDownload' /\ FailedInv'
        BY <2>1 DEF NoHalfDownload, FailedInv, SnapshotTypes
    <2>5. CoveredInv'
        BY <2>1 DEF CoveredInv, Covered, SnapshotTypes
    <2>6. QED
        BY <2>2, <2>3, <2>4, <2>5
  <1>5. CASE FetchShard(p) \/ FetchDone(p)
    <2>1. /\ place[p] = "fetch"
          /\ \/ place' = place /\ \E shard \in Shards \ onDisk : onDisk' = onDisk \union {shard}
             \/ /\ Shards \subseteq onDisk /\ onDisk' = onDisk
                /\ place' = [place EXCEPT ![p] = "leave"]
          /\ UNCHANGED <<modelLock, indexOnDisk, hubOffline, listed, sawIndex, cuts>>
        BY <1>5 DEF FetchShard, FetchDone, Move
    <2>2. SnapshotTypes'
        BY <2>1 DEF SnapshotTypes, Places
    <2>3. HoldsModelLock' /\ NoHalfDownload' /\ FailedInv'
        BY <2>1 DEF HoldsModelLock, NoHalfDownload, FailedInv, SnapshotTypes
    <2>4. CoveredInv'
        BY <2>1 DEF CoveredInv, Covered, SnapshotTypes
    <2>5. QED
        BY <2>2, <2>3, <2>4
  <1>6. CASE Glob(p)
    <2>1. /\ place[p] = "glob"
          /\ place' = [place EXCEPT ![p] = IF onDisk = {} THEN "failed" ELSE "askIndex"]
          /\ listed' = [listed EXCEPT ![p] = onDisk]
          /\ UNCHANGED <<modelLock, onDisk, indexOnDisk, hubOffline, sawIndex, cuts>>
        BY <1>6 DEF Glob, Move
    <2>2. SnapshotTypes'
        BY <2>1 DEF SnapshotTypes, Places
    <2>3. HoldsModelLock' /\ NoHalfDownload' /\ CoveredInv'
        BY <2>1 DEF HoldsModelLock, NoHalfDownload, CoveredInv, Covered, SnapshotTypes
    <2>4. FailedInv'
      <3>1. ~hubOffline[p] /\ cuts = 0 => Shards \subseteq onDisk
          BY <2>1 DEF CoveredInv, Covered
      <3>2. QED
          BY <2>1, <3>1 DEF FailedInv, SnapshotTypes
    <2>5. QED
        BY <2>2, <2>3, <2>4
  <1>7. CASE EnterIndex(p)
    <2>1. /\ modelLock = "free" /\ modelLock' = p
          /\ place[p] = "askIndex" /\ place' = [place EXCEPT ![p] = "index"]
          /\ UNCHANGED <<onDisk, indexOnDisk, hubOffline, listed, sawIndex, cuts>>
        BY <1>7 DEF EnterIndex, Move
    <2>2. SnapshotTypes'
        BY <2>1 DEF SnapshotTypes, Places
    <2>3. HoldsModelLock'
        BY <2>1 DEF HoldsModelLock, SnapshotTypes
    <2>4. NoHalfDownload' /\ CoveredInv' /\ FailedInv'
        BY <2>1 DEF NoHalfDownload, CoveredInv, Covered, FailedInv, SnapshotTypes
    <2>5. QED
        BY <2>2, <2>3, <2>4
  <1>8. ASSUME NEW reached \in BOOLEAN, FetchIndex(p, reached) PROVE SnapshotInv'
    <2>1. /\ place[p] = "index" /\ place' = [place EXCEPT ![p] = "filter"]
          /\ modelLock' = "free"
          /\ cuts' = (IF reached \/ hubOffline[p] THEN cuts ELSE cuts + 1)
          /\ indexOnDisk' \in BOOLEAN
          /\ UNCHANGED <<onDisk, hubOffline, listed, sawIndex>>
        BY <1>8 DEF FetchIndex, Move, SnapshotTypes
    <2>2. SnapshotTypes' /\ (cuts' = 0 => cuts = 0) /\ (cuts > 0 => cuts' > 0)
        BY <2>1 DEF SnapshotTypes, Places
    <2>3. HoldsModelLock'
        BY <2>1 DEF HoldsModelLock, SnapshotTypes
    <2>4. NoHalfDownload' /\ CoveredInv' /\ FailedInv'
        BY <2>1, <2>2 DEF NoHalfDownload, CoveredInv, Covered, FailedInv, SnapshotTypes
    <2>5. QED
        BY <2>2, <2>3, <2>4
  <1>9. CASE Filter(p)
    <2>1. /\ place[p] = "filter"
          /\ place' = [place EXCEPT ![p] = IF IndexFilesExist THEN "loaded" ELSE "failed"]
          /\ listed' = [listed EXCEPT ![p] = IF indexOnDisk THEN listed[p] \intersect Shards
                                             ELSE listed[p]]
          /\ UNCHANGED <<modelLock, onDisk, indexOnDisk, hubOffline, sawIndex, cuts>>
        BY <1>9 DEF Filter, Move
    <2>2. SnapshotTypes'
        BY <2>1 DEF SnapshotTypes, Places
    <2>3. HoldsModelLock' /\ NoHalfDownload'
        BY <2>1 DEF HoldsModelLock, NoHalfDownload, SnapshotTypes
    <2>4. CoveredInv'
        BY <2>1 DEF CoveredInv, Covered, SnapshotTypes
    <2>5. FailedInv'
      <3>1. ~hubOffline[p] /\ cuts = 0 => Shards \subseteq onDisk
          BY <2>1 DEF CoveredInv, Covered
      <3>2. QED
          BY <2>1, <3>1 DEF FailedInv, SnapshotTypes, IndexFilesExist
    <2>6. QED
        BY <2>2, <2>3, <2>4, <2>5
  <1>10. QED
      BY <1>2, <1>3, <1>4, <1>5, <1>6, <1>7, <1>8, <1>9 DEF StartStep

\* Kills, broken connections and new starts included.
LEMMA SnapshotStep == SnapshotInv /\ [SnapshotNext]_snapshotVars => SnapshotInv'
  <1> SUFFICES ASSUME SnapshotInv, [SnapshotNext]_snapshotVars PROVE SnapshotInv'
      OBVIOUS
  <1> USE SnapshotAssumption DEF SnapshotInv
  <1>1. ASSUME NEW p \in Starts, NEW to \in {"down", "failed"}, Cut(p, to) PROVE SnapshotInv'
    <2>1. /\ cuts' = cuts + 1 /\ place' = [place EXCEPT ![p] = to]
          /\ modelLock' = (IF modelLock = p THEN "free" ELSE modelLock)
          /\ UNCHANGED <<onDisk, indexOnDisk, hubOffline, listed, sawIndex>>
        BY <1>1 DEF Cut
    <2>2. SnapshotTypes' /\ cuts' > 0
        BY <2>1 DEF SnapshotTypes, Places
    <2>3. HoldsModelLock' /\ NoHalfDownload' /\ FailedInv'
        BY <2>1, <2>2 DEF HoldsModelLock, NoHalfDownload, FailedInv, SnapshotTypes
    <2>4. CoveredInv'
        BY <2>1, <2>2 DEF CoveredInv, Covered, SnapshotTypes
    <2>5. QED
        BY <2>2, <2>3, <2>4
  <1>2. ASSUME NEW p \in Starts, StartAgain(p) PROVE SnapshotInv'
    <2>1. /\ place[p] \in {"down", "failed"} /\ place' = [place EXCEPT ![p] = "start"]
          /\ \E offline \in BOOLEAN : hubOffline' = [hubOffline EXCEPT ![p] = offline]
          /\ listed' = [listed EXCEPT ![p] = {}]
          /\ sawIndex' = [sawIndex EXCEPT ![p] = FALSE]
          /\ UNCHANGED <<modelLock, onDisk, indexOnDisk, cuts>>
        BY <1>2 DEF StartAgain
    <2>2. SnapshotTypes'
        BY <2>1 DEF SnapshotTypes, Places
    <2>3. HoldsModelLock' /\ NoHalfDownload' /\ FailedInv'
        BY <2>1 DEF HoldsModelLock, NoHalfDownload, FailedInv, SnapshotTypes
    <2>4. CoveredInv'
        BY <2>1 DEF CoveredInv, Covered, SnapshotTypes
    <2>5. QED
        BY <2>2, <2>3, <2>4
  <1>3. CASE UNCHANGED snapshotVars
      BY <1>3 DEF snapshotVars, SnapshotTypes, HoldsModelLock, NoHalfDownload, CoveredInv,
                  Covered, FailedInv
  <1>4. QED
      BY <1>1, <1>2, <1>3, SnapshotStartStep DEF SnapshotNext

\* However many processes share the folder, a start that may use the hub loads the
\* whole model while nothing was cut, and with an index the whole or nothing.
THEOREM StartsLoadAll == SnapshotSpec => []StartsAreComplete
  <1>1. SnapshotInv => StartsAreComplete
    <2> SUFFICES ASSUME SnapshotInv, NEW p \in Starts
                 PROVE  /\ cuts = 0 /\ ~hubOffline[p] => place[p] # "failed"
                        /\ place[p] = "loaded" /\ Covered(p) => AllListed(p)
        BY DEF StartsAreComplete, Covered
    <2>1. cuts = 0 /\ ~hubOffline[p] => place[p] # "failed"
        BY DEF SnapshotInv, FailedInv
    <2>2. place[p] = "loaded" /\ Covered(p) => AllListed(p)
        BY DEF SnapshotInv, CoveredInv, AllListed
    <2>3. QED
        BY <2>1, <2>2
  <1>2. QED
      BY <1>1, SnapshotInitially, SnapshotStep, PTL DEF SnapshotSpec

-----------------------------------------------------------------------------
(* The table.                                                              *)

Dtypes == {"bf16", "fp8"}

\* The rows of a mapped file, which serves one rank.
FileRows == CeilDiv(TableRows, PadTo * 1) * PadTo

TableTypes ==
    /\ parts \subseteq given /\ given \subseteq 0 .. Parts - 1
    /\ kills \in Nat
    /\ DOMAIN mapped = Dtypes
    /\ \A d \in Dtypes :
          /\ mapped[d] \in [size : {"absent", "empty", "full"}, rows : {mapped[d].rows}]
          /\ mapped[d].size # "absent" => DOMAIN mapped[d].rows = 0 .. FileRows - 1

\* Once launched, the table has the rows of the rank.
Launched ==
    life # "down" => launch \in Launches /\ DOMAIN table = 0 .. RankRows(launch) - 1

\* Nothing is loaded before the storage has its final size and dtype.
NothingLoadedYet ==
    /\ life = "created" =>
          launch.storage = "mapped" /\ mapped[launch.dtype].size # "absent" /\ parts = given
    /\ life = "loading" /\ SwitchesToFp8 => parts = given

\* A row of part i is the checkpoint's.
LoadedParts(rows, i) ==
    \A row \in PartStart(i) .. PartEnd(i) - 1 :
        row \in TpStart(launch) .. TpEnd(launch) - 1 =>
            rows[row - TpStart(launch)] = Row(launch.checkpoint, row)

RowsInv == life \in {"loading", "serving"} => \A i \in given \ parts : LoadedParts(table, i)
ServingInv == life = "serving" => parts = {}

TableInv == TableTypes /\ Launched /\ NothingLoadedYet /\ RowsInv /\ ServingInv

\* The sizes and the bounds of the partitions and parts are integers.
LEMMA Sizes ==
  ASSUME NEW l \in Launches
  PROVE  /\ RankRows(l) \in Int /\ TpStart(l) \in Int /\ TpEnd(l) \in Int
         /\ TpEnd(l) - TpStart(l) <= RankRows(l) \/ TpEnd(l) <= TpStart(l)
         /\ PartSize \in Int
         /\ \A i \in 0 .. Parts - 1 :
               /\ PartStart(i) \in Int /\ PartEnd(i) \in Int
               /\ PartEnd(i) - PartStart(i) <= PartSize \/ PartEnd(i) <= PartStart(i)
  <1>1. l.ranks \in 1 .. 2 /\ l.rank \in 0 .. 1
      BY DEF Launches
  <1>2. \A a \in Int : \A b \in Nat \ {0} : a \div b \in Int
      OBVIOUS
  <1>3. PadTo * l.ranks \in Nat \ {0}
      BY <1>1, TableAssumption
  <1>4. RankRows(l) \in Int
    <2>1. CeilDiv(TableRows, PadTo * l.ranks) \in Int
        BY <1>2, <1>3, TableAssumption DEF CeilDiv
    <2>2. QED
        BY <2>1, TableAssumption DEF RankRows
  <1>5. /\ l.rank * RankRows(l) \in Int /\ (l.rank + 1) * RankRows(l) \in Int
        /\ \/ l.rank * RankRows(l) = 0 /\ (l.rank + 1) * RankRows(l) = RankRows(l)
           \/ /\ l.rank * RankRows(l) = RankRows(l)
              /\ (l.rank + 1) * RankRows(l) = RankRows(l) + RankRows(l)
    <2>1. CASE l.rank = 0
        BY <2>1, <1>4
    <2>2. CASE l.rank = 1
        BY <2>2, <1>4
    <2>3. QED
        BY <2>1, <2>2, <1>1
  <1>6. /\ TpStart(l) \in Int /\ TpEnd(l) \in Int
        /\ TpEnd(l) - TpStart(l) <= RankRows(l) \/ TpEnd(l) <= TpStart(l)
      BY <1>4, <1>5, TableAssumption DEF TpStart, TpEnd, Least
  <1>7. PartSize \in Int
      BY <1>2, TableAssumption DEF PartSize, CeilDiv
  <1>8. ASSUME NEW i \in 0 .. Parts - 1
        PROVE  /\ PartStart(i) \in Int /\ PartEnd(i) \in Int
               /\ PartEnd(i) - PartStart(i) <= PartSize \/ PartEnd(i) <= PartStart(i)
    <2>1. PartStart(i) \in Int
        BY <1>7, TableAssumption DEF PartStart
    <2>2. QED
        BY <2>1, <1>7, TableAssumption DEF PartEnd, Least
  <1>9. QED
      BY <1>4, <1>6, <1>7, <1>8

\* What a part leaves in the table: its rows are the checkpoint's, and a row it
\* changes is the checkpoint's too.
LEMMA WithPartRows ==
  ASSUME NEW l \in Launches, NEW i \in 0 .. Parts - 1, NEW rows,
         DOMAIN rows = 0 .. RankRows(l) - 1
  PROVE  /\ DOMAIN WithPart(l, rows, i) = 0 .. RankRows(l) - 1
         /\ \A n \in 0 .. RankRows(l) - 1 :
               \/ WithPart(l, rows, i)[n] = rows[n]
               \/ WithPart(l, rows, i)[n] = Row(l.checkpoint, TpStart(l) + n)
         /\ \A row \in PartStart(i) .. PartEnd(i) - 1 :
               row \in TpStart(l) .. TpEnd(l) - 1 =>
                   /\ row - TpStart(l) \in 0 .. RankRows(l) - 1
                   /\ WithPart(l, rows, i)[row - TpStart(l)] = Row(l.checkpoint, row)
  <1> DEFINE start == TpStart(l)
             end   == TpEnd(l)
             first == PartStart(i)
             last  == PartEnd(i)
             low   == Most(first, start)
             high  == Least(last, end)
             src   == [n \in 0 .. PartSize - 1 |-> Row(l.checkpoint, first + n)]
  <1>1. /\ RankRows(l) \in Int /\ start \in Int /\ end \in Int /\ PartSize \in Int
        /\ first \in Int /\ last \in Int
        /\ end - start <= RankRows(l) \/ end <= start
        /\ last - first <= PartSize \/ last <= first
      BY Sizes
  <1>2. WithPart(l, rows, i) =
           [n \in DOMAIN rows |-> IF start + n \in low .. high - 1
                                  THEN src[start + n - first] ELSE rows[n]]
      BY DEF WithPart
  <1>3. /\ DOMAIN WithPart(l, rows, i) = 0 .. RankRows(l) - 1
        /\ \A n \in 0 .. RankRows(l) - 1 :
              WithPart(l, rows, i)[n] =
                 IF start + n \in low .. high - 1 THEN src[start + n - first] ELSE rows[n]
      BY <1>2
  <1>4. \A m \in Int :
           m \in low .. high - 1 <=> m \in first .. last - 1 /\ m \in start .. end - 1
      BY <1>1 DEF Most, Least
  <1> HIDE DEF start, end, first, last, low, high
  <1>5. ASSUME NEW n \in 0 .. RankRows(l) - 1, start + n \in low .. high - 1
        PROVE  WithPart(l, rows, i)[n] = Row(l.checkpoint, start + n)
    <2> DEFINE k == start + n - first
    <2>1. k \in 0 .. PartSize - 1 /\ first + k = start + n
      <3>1. start + n \in first .. last - 1
          BY <1>1, <1>4, <1>5
      <3>2. n \in Int
          BY <1>1
      <3>3. QED
          BY <1>1, <3>1, <3>2
    <2>2. WithPart(l, rows, i)[n] = src[k]
        BY <1>3, <1>5
    <2> HIDE DEF k
    <2>3. src[k] = Row(l.checkpoint, first + k)
        BY <2>1
    <2>4. QED
        BY <2>1, <2>2, <2>3
  <1>6. ASSUME NEW n \in 0 .. RankRows(l) - 1
        PROVE  \/ WithPart(l, rows, i)[n] = rows[n]
               \/ WithPart(l, rows, i)[n] = Row(l.checkpoint, start + n)
    <2>1. CASE start + n \in low .. high - 1
        BY <2>1, <1>5
    <2>2. CASE ~(start + n \in low .. high - 1)
        BY <2>2, <1>3
    <2>3. QED
        BY <2>1, <2>2
  <1>7. ASSUME NEW row \in first .. last - 1, row \in start .. end - 1
        PROVE  /\ row - start \in 0 .. RankRows(l) - 1
               /\ WithPart(l, rows, i)[row - start] = Row(l.checkpoint, row)
    <2>1. row - start \in 0 .. RankRows(l) - 1 /\ start + (row - start) = row
        BY <1>1, <1>7
    <2>2. start + (row - start) \in low .. high - 1
        BY <1>1, <1>4, <1>7, <2>1
    <2>3. WithPart(l, rows, i)[row - start] = Row(l.checkpoint, start + (row - start))
        BY <1>5, <2>1, <2>2
    <2>4. QED
        BY <2>1, <2>3
  <1>8. QED
      BY <1>3, <1>6, <1>7 DEF start, end, first, last

LEMMA TableInitially == TableInit => TableInv
  BY DEF TableInit, TableInv, TableTypes, Dtypes, Launched, NothingLoadedYet, RowsInv, ServingInv

\* A new process takes the storage over or makes it; nothing is loaded yet.
LEMMA LaunchStep ==
  ASSUME TableInv, NEW l \in Launches, Launch(l)
  PROVE  TableInv'
  <1> USE DEF TableInv
  <1>1. /\ launch' = l /\ dtype' = l.dtype /\ kills' = kills
        /\ given' \subseteq 0 .. Parts - 1 /\ parts' = given'
      BY DEF Launch
  <1>2. l.dtype \in Dtypes /\ (l.storage = "mapped" => l.ranks = 1)
      BY DEF Launches, Dtypes
  <1>3. l.storage = "mapped" => RankRows(l) = FileRows
      BY <1>2 DEF RankRows, FileRows
  <1>4. DOMAIN Junk(l) = 0 .. RankRows(l) - 1 /\ DOMAIN Zeros(l) = 0 .. RankRows(l) - 1
      BY DEF Junk, Zeros
  <1>5. CASE l.storage = "mapped" /\ mapped[l.dtype].size # "full"
    <2>1. /\ life' = "created" /\ table' = Junk(l)
          /\ mapped' = [mapped EXCEPT ![l.dtype] = [size |-> "empty", rows |-> Zeros(l)]]
        BY <1>5 DEF Launch
    <2>2. TableTypes'
      <3>1. ASSUME NEW d \in Dtypes
            PROVE  /\ mapped'[d] \in [size : {"absent", "empty", "full"}, rows : {mapped'[d].rows}]
                   /\ mapped'[d].size # "absent" => DOMAIN mapped'[d].rows = 0 .. FileRows - 1
        <4>1. CASE d = l.dtype
            BY <4>1, <2>1, <1>2, <1>3, <1>4, <1>5 DEF TableTypes
        <4>2. CASE d # l.dtype
            BY <4>2, <2>1, <1>2 DEF TableTypes
        <4>3. QED
            BY <4>1, <4>2
      <3>2. QED
          BY <3>1, <2>1, <1>1 DEF TableTypes
    <2>3. Launched'
        BY <2>1, <1>1, <1>4 DEF Launched, RankRows
    <2>4. NothingLoadedYet'
        BY <2>1, <1>1, <1>2, <1>5 DEF NothingLoadedYet, TableTypes
    <2>5. QED
        BY <2>1, <2>2, <2>3, <2>4 DEF RowsInv, ServingInv
  <1>6. CASE ~(l.storage = "mapped" /\ mapped[l.dtype].size # "full")
    <2>1. /\ life' = "loading" /\ mapped' = mapped
          /\ table' = CASE l.storage = "mapped" -> mapped[l.dtype].rows
                         [] l.storage = "packed" -> Zeros(l)
                         [] OTHER -> Junk(l)
        BY <1>6 DEF Launch
    <2>2. DOMAIN table' = 0 .. RankRows(l) - 1
        BY <2>1, <1>2, <1>3, <1>4, <1>6 DEF TableTypes
    <2>3. QED
        BY <2>1, <2>2, <1>1
        DEF TableTypes, Launched, NothingLoadedYet, RowsInv, ServingInv, RankRows
  <1>7. QED
      BY <1>5, <1>6

\* A part that arrives: its rows join the ones that were right already, in a
\* table that is as it was or, when it changes to fp8, empty again.
LEMMA LoadPartStep ==
  ASSUME TableInv, NEW i \in 0 .. Parts - 1, LoadPart(i)
  PROVE  TableInv'
  <1> USE DEF TableInv
  <1>1. /\ life = "loading" /\ i \in parts /\ parts' = parts \ {i}
        /\ launch' = launch /\ given' = given /\ kills' = kills
      BY DEF LoadPart
  <1>2. launch \in Launches /\ DOMAIN table = 0 .. RankRows(launch) - 1
      BY <1>1 DEF Launched
  <1>3. CASE SwitchesToFp8 /\ launch.storage # "parameter"
    <2>1. life' = "raised" /\ table' = table /\ mapped' = mapped
        BY <1>3 DEF LoadPart
    <2>2. QED
        BY <2>1, <1>1, <1>2
        DEF TableTypes, Launched, NothingLoadedYet, RowsInv, ServingInv, RankRows
  <1>4. CASE ~(SwitchesToFp8 /\ launch.storage # "parameter")
    <2> DEFINE before == IF SwitchesToFp8 THEN Junk(launch) ELSE table
    <2>1. /\ life' = life /\ dtype' = (IF SwitchesToFp8 THEN "fp8" ELSE dtype)
          /\ table' = WithPart(launch, before, i)
          /\ mapped' = IF launch.storage = "mapped"
                       THEN [mapped EXCEPT ![launch.dtype].rows = table'] ELSE mapped
        BY <1>4 DEF LoadPart
    <2>2. DOMAIN before = 0 .. RankRows(launch) - 1
        BY <1>2 DEF Junk
    <2> HIDE DEF before
    <2>3. /\ DOMAIN table' = 0 .. RankRows(launch) - 1
          /\ \A n \in 0 .. RankRows(launch) - 1 :
                \/ table'[n] = before[n]
                \/ table'[n] = Row(launch.checkpoint, TpStart(launch) + n)
          /\ \A row \in PartStart(i) .. PartEnd(i) - 1 :
                row \in TpStart(launch) .. TpEnd(launch) - 1 =>
                    table'[row - TpStart(launch)] = Row(launch.checkpoint, row)
        BY <2>1, <2>2, <1>2, WithPartRows
    <2>4. launch.dtype \in Dtypes /\ (launch.storage = "mapped" => launch.ranks = 1)
        BY <1>2 DEF Launches, Dtypes
    <2>5. launch.storage = "mapped" => RankRows(launch) = FileRows
        BY <2>4 DEF RankRows, FileRows
    <2>6. TableTypes'
      <3>1. ASSUME NEW d \in Dtypes
            PROVE  /\ mapped'[d] \in [size : {"absent", "empty", "full"}, rows : {mapped'[d].rows}]
                   /\ mapped'[d].size # "absent" => DOMAIN mapped'[d].rows = 0 .. FileRows - 1
        <4>1. CASE launch.storage = "mapped" /\ d = launch.dtype
          <5>1. mapped'[d] = [size |-> mapped[d].size, rows |-> table']
              BY <4>1, <2>1, <2>4 DEF TableTypes
          <5>2. QED
              BY <5>1, <4>1, <2>3, <2>5 DEF TableTypes
        <4>2. CASE ~(launch.storage = "mapped" /\ d = launch.dtype)
            BY <4>2, <2>1, <2>4 DEF TableTypes
        <4>3. QED
            BY <4>1, <4>2
      <3>2. DOMAIN mapped' = Dtypes
          BY <2>1 DEF TableTypes
      <3>3. QED
          BY <3>1, <3>2, <1>1 DEF TableTypes
    <2>7. Launched'
        BY <2>3, <1>1, <1>2 DEF Launched, RankRows
    <2>8. NothingLoadedYet' /\ ServingInv'
      <3>1. ~SwitchesToFp8'
          BY <1>1, <2>1 DEF SwitchesToFp8
      <3>2. QED
          BY <3>1, <1>1, <2>1 DEF NothingLoadedYet, ServingInv
    <2>9. RowsInv'
      <3>1. SUFFICES ASSUME NEW j \in given \ (parts \ {i}), NEW row \in PartStart(j) .. PartEnd(j) - 1,
                            row \in TpStart(launch) .. TpEnd(launch) - 1
                     PROVE  table'[row - TpStart(launch)] = Row(launch.checkpoint, row)
          BY <1>1 DEF RowsInv, LoadedParts, PartStart, PartEnd, TpStart, TpEnd, RankRows
      <3>2. CASE j = i
          BY <3>2, <3>1, <2>3
      <3>3. CASE j # i
        <4>1. j \in given \ parts /\ parts # given /\ j \in 0 .. Parts - 1
            BY <3>3 DEF TableTypes
        <4>2. before = table
            BY <4>1, <1>1 DEF NothingLoadedYet, before
        <4>3. table[row - TpStart(launch)] = Row(launch.checkpoint, row)
            BY <4>1, <3>1, <1>1 DEF RowsInv, LoadedParts
        <4>4. /\ row - TpStart(launch) \in 0 .. RankRows(launch) - 1
              /\ TpStart(launch) + (row - TpStart(launch)) = row
            BY <3>1, <1>2, Sizes
        <4>5. QED
            BY <4>2, <4>3, <4>4, <2>3
      <3>4. QED
          BY <3>2, <3>3
    <2>10. QED
        BY <2>6, <2>7, <2>8, <2>9
  <1>5. QED
      BY <1>3, <1>4

\* The file that gets its size, the end of the load and a kill included.
LEMMA TableStep == TableInv /\ [TableNext]_tableVars => TableInv'
  <1> SUFFICES ASSUME TableInv, [TableNext]_tableVars PROVE TableInv'
      OBVIOUS
  <1> USE DEF TableInv
  <1>1. CASE SizeFile
    <2>1. /\ life = "created" /\ life' = "loading" /\ parts = given
          /\ mapped' = [mapped EXCEPT ![launch.dtype].size = "full"]
          /\ table' = mapped[launch.dtype].rows
          /\ UNCHANGED <<launch, dtype, given, parts, kills>>
        BY <1>1 DEF SizeFile, NothingLoadedYet
    <2>2. /\ launch \in Launches /\ launch.storage = "mapped" /\ launch.dtype \in Dtypes
          /\ launch.ranks = 1 /\ mapped[launch.dtype].size # "absent"
        BY <2>1 DEF Launched, NothingLoadedYet, Launches, Dtypes
    <2>3. DOMAIN table' = 0 .. RankRows(launch) - 1
        BY <2>1, <2>2 DEF TableTypes, RankRows, FileRows
    <2>4. TableTypes'
      <3>1. ASSUME NEW d \in Dtypes
            PROVE  /\ mapped'[d] \in [size : {"absent", "empty", "full"}, rows : {mapped'[d].rows}]
                   /\ mapped'[d].size # "absent" => DOMAIN mapped'[d].rows = 0 .. FileRows - 1
        <4>1. CASE d = launch.dtype
          <5>1. mapped'[d] = [size |-> "full", rows |-> mapped[d].rows]
              BY <4>1, <2>1, <2>2 DEF TableTypes
          <5>2. QED
              BY <5>1, <4>1, <2>2 DEF TableTypes
        <4>2. CASE d # launch.dtype
            BY <4>2, <2>1, <2>2 DEF TableTypes
        <4>3. QED
            BY <4>1, <4>2
      <3>2. QED
          BY <3>1, <2>1 DEF TableTypes
    <2>5. QED
        BY <2>1, <2>2, <2>3, <2>4 DEF Launched, NothingLoadedYet, RowsInv, ServingInv, RankRows
  <1>2. CASE Serve
    <2>1. /\ life = "loading" /\ life' = "serving" /\ parts = {}
          /\ UNCHANGED <<launch, dtype, table, mapped, given, parts, kills>>
        BY <1>2 DEF Serve
    <2>2. RowsInv'
        BY <2>1 DEF RowsInv, LoadedParts, PartStart, PartEnd, TpStart, TpEnd, RankRows
    <2>3. QED
        BY <2>1, <2>2 DEF TableTypes, Launched, NothingLoadedYet, ServingInv, RankRows
  <1>3. CASE Kill
    <2>1. /\ life' = "down" /\ kills' = kills + 1
          /\ UNCHANGED <<launch, dtype, table, mapped, given, parts>>
        BY <1>3 DEF Kill
    <2>2. QED
        BY <2>1 DEF TableTypes, Launched, NothingLoadedYet, RowsInv, ServingInv
  <1>4. CASE UNCHANGED tableVars
      BY <1>4 DEF tableVars, TableTypes, Launched, NothingLoadedYet, RowsInv, ServingInv, LoadedParts,
                  SwitchesToFp8, PartStart, PartEnd, TpStart, TpEnd, RankRows
  <1>5. QED
      BY <1>1, <1>2, <1>3, <1>4, LaunchStep, LoadPartStep DEF TableNext

\* However many rows, parts and checkpoints, and however often a process was
\* killed over a mapped file, a served table holds the rows of its checkpoint.
THEOREM ServesItsCheckpoint == TableSpec => []ServedRowsAreTheCheckpoints
  <1>1. TableInv => ServedRowsAreTheCheckpoints
    <2> SUFFICES ASSUME TableInv, life = "serving", NEW i \in given PROVE LoadedParts(table, i)
        BY DEF ServedRowsAreTheCheckpoints, LoadedParts
    <2> QED
        BY DEF TableInv, RowsInv, ServingInv
  <1>2. QED
      BY <1>1, TableInitially, TableStep, PTL DEF TableSpec

-----------------------------------------------------------------------------
(* The conversions and the draft's rows of the head.                       *)

Formats == {"bf16", "fp8", "nvfp4"}
Modules == [weight : Formats, roundings : Nat, method : Formats \union {"loader"},
            codes : BOOLEAN, wrapped : {"no", "calib", "slice"}, view : BOOLEAN]

DenseTypes ==
    /\ stage \in {"calib", "nvfp4", "fp8", "hc", "slice", "serving"}
    /\ linear \in [Linears -> Modules]
    /\ fused \in BOOLEAN /\ active \in BOOLEAN
    /\ aside \in Formats \union {"none"}
    /\ drafting \in {"no", "begun", "logits"}
    /\ lastLogits \in {"nobody", "target", "draft"} \X {"none", "all", "frequent"}

\* A weight that is not bf16 was rounded once and is read by its own method.
Sound(layer) ==
    \/ layer.weight = "bf16" /\ layer.roundings = 0 /\ layer.method = "loader"
    \/ layer.weight # "bf16" /\ layer.roundings = 1 /\ layer.method = layer.weight

SoundInv == \A m \in Linears : Sound(linear[m])

\* The fused buffer is there for as long as a module is a view of it.
FusedInv ==
    /\ fused => linear["qkvz"].weight = "bf16"
    /\ \A m \in Linears : linear[m].view => fused /\ m \in {"qkvz", "ba"}

\* Rows are put aside last, from the head as it stays.
SliceInv ==
    /\ stage # "serving" => aside = "none" /\ drafting = "no" /\ lastLogits[1] = "nobody"
    /\ aside # "none" =>
          aside = linear["lm_head"].weight /\ linear["lm_head"].wrapped = "slice"

\* The flag is up during the draft's forward, and only then.
FlagInv == active <=> drafting # "no" /\ aside # "none"

DenseInv == DenseTypes /\ SoundInv /\ FusedInv /\ SliceInv /\ FlagInv /\ EachReadsItsRows

LEMMA DenseInitially == DenseInit => DenseInv
  <1> SUFFICES ASSUME DenseInit PROVE DenseInv
      OBVIOUS
  <1>1. /\ stage = "calib" /\ linear = AsLoaded /\ fused = TRUE /\ aside = "none" /\ active = FALSE
        /\ drafting = "no" /\ lastLogits = <<"nobody", "none">>
      BY DEF DenseInit
  <1>2. \A m \in Linears :
           /\ linear[m] \in Modules /\ Sound(linear[m]) /\ linear[m].weight = "bf16"
           /\ linear[m].view => m \in {"qkvz", "ba"}
    <2> SUFFICES ASSUME NEW m \in Linears
                 PROVE  /\ linear[m] \in Modules /\ Sound(linear[m]) /\ linear[m].weight = "bf16"
                        /\ linear[m].view => m \in {"qkvz", "ba"}
        OBVIOUS
    <2> DEFINE seen == m \in {"qkvz", "ba"}
    <2>1. seen \in BOOLEAN
        OBVIOUS
    <2>2. linear[m] = [weight |-> "bf16", roundings |-> 0, method |-> "loader", codes |-> FALSE,
                       wrapped |-> "no", view |-> seen]
        BY <1>1 DEF AsLoaded
    <2> HIDE DEF seen
    <2>3. linear[m] \in Modules /\ Sound(linear[m]) /\ linear[m].weight = "bf16"
        BY <2>1, <2>2 DEF Modules, Formats, Sound
    <2>4. linear[m].view => seen
        BY <2>2
    <2>5. QED
        BY <2>3, <2>4 DEF seen
  <1>3. DOMAIN linear = Linears /\ linear = [m \in Linears |-> linear[m]]
      BY <1>1 DEF AsLoaded
  <1>4. DenseTypes
      BY <1>1, <1>2, <1>3 DEF DenseTypes
  <1>5. FusedInv
      BY <1>1, <1>2 DEF FusedInv, Linears
  <1>6. QED
      BY <1>1, <1>2, <1>4, <1>5 DEF DenseInv, SoundInv, SliceInv, FlagInv, EachReadsItsRows

\* What one stage does to one module.
LEMMA ConvertedModules ==
  ASSUME DenseTypes, SoundInv, FusedInv, NEW groups, NEW format \in {"fp8", "nvfp4"},
         NEW codes \in BOOLEAN, Convert(groups, format, codes)
  PROVE  linear' \in [Linears -> Modules] /\ fused' \in BOOLEAN /\ SoundInv' /\ FusedInv'
  <1> DEFINE converted == {m \in Linears : Eligible(m, groups)}
             unfuse == "qkvz" \in converted /\ fused
             After(layer) == [layer EXCEPT !.weight = format, !.method = format,
                                 !.roundings = layer.roundings + 1, !.codes = codes, !.view = FALSE]
             Copied(layer) == [layer EXCEPT !.view = FALSE]
  <1>1. ASSUME NEW layer \in Modules
        PROVE  /\ After(layer) \in Modules
               /\ After(layer).weight = format /\ After(layer).method = format
               /\ After(layer).roundings = layer.roundings + 1 /\ ~After(layer).view
    <2> DEFINE a == [layer EXCEPT !.weight = format]
               b == [a EXCEPT !.method = format]
               c == [b EXCEPT !.roundings = layer.roundings + 1]
               d == [c EXCEPT !.codes = codes]
               e == [d EXCEPT !.view = FALSE]
    <2>1. After(layer) = e
        BY DEF Modules
    <2>2. a \in Modules /\ a.weight = format
        BY DEF Modules, Formats
    <2> HIDE DEF a
    <2>3. b \in Modules /\ b.weight = format /\ b.method = format
        BY <2>2 DEF Modules, Formats
    <2> HIDE DEF b
    <2>4. /\ c \in Modules /\ c.weight = format /\ c.method = format
          /\ c.roundings = layer.roundings + 1
        BY <2>3 DEF Modules
    <2> HIDE DEF c
    <2>5. /\ d \in Modules /\ d.weight = format /\ d.method = format
          /\ d.roundings = layer.roundings + 1
        BY <2>4 DEF Modules
    <2> HIDE DEF d
    <2>6. /\ e \in Modules /\ e.weight = format /\ e.method = format
          /\ e.roundings = layer.roundings + 1 /\ ~e.view
        BY <2>5 DEF Modules
    <2> HIDE DEF e, After
    <2>7. QED
        BY <2>1, <2>6
  <1>10. ASSUME NEW layer \in Modules
        PROVE  /\ Copied(layer) \in Modules
               /\ Copied(layer).weight = layer.weight /\ Copied(layer).method = layer.method
               /\ Copied(layer).roundings = layer.roundings /\ ~Copied(layer).view
      BY DEF Modules
  <1>2. /\ linear' = [m \in Linears |-> linear'[m]]
        /\ \A m \in Linears :
              /\ m \in converted => linear'[m] = After(linear[m])
              /\ m \notin converted /\ m = "ba" /\ unfuse => linear'[m] = Copied(linear[m])
              /\ m \notin converted /\ ~(m = "ba" /\ unfuse) => linear'[m] = linear[m]
        /\ fused' = (fused /\ ~unfuse)
    <2>1. /\ linear' = [m \in Linears |->
                       IF m \in converted THEN After(linear[m])
                       ELSE IF m = "ba" /\ unfuse THEN Copied(linear[m]) ELSE linear[m]]
          /\ fused' = (fused /\ ~unfuse)
        BY DEF Convert
    <2> HIDE DEF converted, unfuse, After, Copied
    <2>2. QED
        BY <2>1
  <1>3. \A m \in converted : m \in Linears /\ linear[m].weight = "bf16"
      BY DEF Eligible
  <1> HIDE DEF converted, unfuse, After, Copied
  <1>4. ASSUME NEW m \in Linears
        PROVE  /\ linear'[m] \in Modules /\ Sound(linear'[m])
               /\ m \notin converted => linear'[m].weight = linear[m].weight
               /\ m \in converted \/ (m = "ba" /\ unfuse) => ~linear'[m].view
               /\ linear'[m].view => linear[m].view
    <2>1. linear[m] \in Modules /\ Sound(linear[m])
        BY DEF DenseTypes, SoundInv
    <2>2. CASE m \in converted
      <3>1. linear'[m] = After(linear[m]) /\ linear[m].roundings = 0
          BY <1>2, <1>3, <2>1, <2>2 DEF Sound
      <3>2. linear'[m] \in Modules /\ Sound(linear'[m])
          BY <3>1, <2>1, <1>1 DEF Sound
      <3>3. ~linear'[m].view
          BY <3>1, <2>1, <1>1
      <3>4. QED
          BY <3>2, <3>3, <2>2
    <2>3. CASE m \notin converted /\ m = "ba" /\ unfuse
      <3>1. linear'[m] = Copied(linear[m])
          BY <1>2, <2>3
      <3>2. /\ linear'[m] \in Modules /\ Sound(linear'[m])
            /\ linear'[m].weight = linear[m].weight
          BY <3>1, <2>1, <1>10 DEF Sound
      <3>3. ~linear'[m].view
          BY <3>1, <2>1, <1>10
      <3>4. QED
          BY <3>2, <3>3, <2>3
    <2>4. CASE m \notin converted /\ ~(m = "ba" /\ unfuse)
      <3>1. linear'[m] = linear[m]
          BY <1>2, <2>4
      <3>2. linear'[m].view => linear[m].view
          BY <3>1, Zenon
      <3>3. QED
          BY <3>1, <3>2, <2>1, <2>4
    <2>5. QED
        BY <2>2, <2>3, <2>4
  <1>5. linear' \in [Linears -> Modules]
      BY <1>2, <1>4
  <1>6. fused' \in BOOLEAN /\ (fused' => fused /\ "qkvz" \notin converted)
      BY <1>2 DEF unfuse
  <1>7. ~fused' => ~fused \/ (unfuse /\ "qkvz" \in converted)
      BY <1>2 DEF unfuse
  <1>8. FusedInv'
    <2>1. fused' => linear'["qkvz"].weight = "bf16"
        BY <1>4, <1>6 DEF FusedInv, Linears
    <2>2. ASSUME NEW m \in Linears, linear'[m].view PROVE fused' /\ m \in {"qkvz", "ba"}
        BY <1>4, <1>7, <2>2 DEF FusedInv
    <2>3. QED
        BY <2>1, <2>2 DEF FusedInv
  <1>9. QED
      BY <1>4, <1>5, <1>6, <1>8 DEF SoundInv

\* Until the rows are put aside nothing reads the head.
LEMMA LoadStageStep ==
  ASSUME DenseInv, Calibrate \/ ConvertNvfp4 \/ ConvertFp8 \/ ConvertMixers \/ PrepareSlice
  PROVE  DenseInv'
  <1> USE DEF DenseInv
  <1>1. /\ stage # "serving" /\ aside = "none" /\ drafting = "no" /\ lastLogits[1] = "nobody"
        /\ active = FALSE
        /\ UNCHANGED <<active, drafting, lastLogits>>
      BY DEF Calibrate, ConvertNvfp4, ConvertFp8, ConvertMixers, PrepareSlice, SliceInv, FlagInv,
             DenseTypes
  <1>2. FlagInv' /\ EachReadsItsRows'
      BY <1>1 DEF FlagInv, EachReadsItsRows
  <1>3. CASE Calibrate
    <2>1. stage' \in {"serving", "nvfp4"} /\ UNCHANGED <<fused, aside>>
        BY <1>3 DEF Calibrate
    <2>2. ASSUME NEW m \in Linears
          PROVE  /\ linear'[m] \in Modules /\ Sound(linear'[m])
                 /\ linear'[m].weight = linear[m].weight /\ linear'[m].view = linear[m].view
      <3>1. linear[m] \in Modules /\ Sound(linear[m])
          BY DEF DenseTypes, SoundInv
      <3>2. linear'[m] = linear[m] \/ linear'[m] = [linear[m] EXCEPT !.wrapped = "calib"]
          BY <1>3 DEF Calibrate
      <3>3. QED
          BY <3>1, <3>2 DEF Modules, Sound
    <2>3. DOMAIN linear' = Linears /\ linear' = [m \in Linears |-> linear'[m]]
        BY <1>3 DEF Calibrate, DenseTypes
    <2>4. DenseTypes'
        BY <2>1, <2>2, <2>3, <1>1 DEF DenseTypes
    <2>5. SoundInv' /\ FusedInv' /\ SliceInv'
        BY <2>1, <2>2, <1>1 DEF SoundInv, FusedInv, SliceInv, Linears
    <2>6. QED
        BY <2>4, <2>5, <1>2
  <1>4. CASE ConvertNvfp4 \/ ConvertFp8
    <2>1. /\ stage' \in {"fp8", "hc"} /\ UNCHANGED aside
          /\ \E groups : \E format \in {"fp8", "nvfp4"} : \E codes \in BOOLEAN :
                Convert(groups, format, codes)
        BY <1>4 DEF ConvertNvfp4, ConvertFp8
    <2>2. linear' \in [Linears -> Modules] /\ fused' \in BOOLEAN /\ SoundInv' /\ FusedInv'
        BY <2>1, ConvertedModules
    <2>3. DenseTypes' /\ SliceInv'
        BY <2>1, <2>2, <1>1 DEF DenseTypes, SliceInv
    <2>4. QED
        BY <2>2, <2>3, <1>2
  <1>5. CASE ConvertMixers
    <2>1. stage' = "slice" /\ UNCHANGED <<linear, fused, aside>>
        BY <1>5 DEF ConvertMixers
    <2>2. QED
        BY <2>1, <1>1, <1>2 DEF DenseTypes, SoundInv, FusedInv, SliceInv
  <1>6. CASE PrepareSlice
    <2>1. /\ stage' = "serving" /\ UNCHANGED fused
          /\ aside' = "none" \/ aside' = SliceOf(linear["lm_head"])
          /\ linear' = IF aside' = "none" THEN linear
                       ELSE [linear EXCEPT !["lm_head"].wrapped = "slice"]
        BY <1>6 DEF PrepareSlice
    <2>2. /\ "lm_head" \in Linears /\ linear["lm_head"] \in Modules
          /\ Sound(linear["lm_head"])
        BY DEF Linears, DenseTypes, SoundInv
    <2>3. SliceOf(linear["lm_head"]) \in {"none", linear["lm_head"].weight}
        BY <2>2 DEF SliceOf, Sound
    <2>4. ASSUME NEW m \in Linears
          PROVE  /\ linear'[m] \in Modules /\ Sound(linear'[m])
                 /\ linear'[m].weight = linear[m].weight /\ linear'[m].view = linear[m].view
                 /\ aside' # "none" /\ m = "lm_head" => linear'[m].wrapped = "slice"
      <3>1. linear[m] \in Modules /\ Sound(linear[m])
          BY DEF DenseTypes, SoundInv
      <3>2. CASE aside' # "none" /\ m = "lm_head"
        <4>1. linear'[m] = [linear[m] EXCEPT !.wrapped = "slice"]
            BY <2>1, <3>2 DEF DenseTypes
        <4>2. QED
            BY <4>1, <3>1 DEF Modules, Sound
      <3>3. CASE ~(aside' # "none" /\ m = "lm_head")
        <4>1. linear'[m] = linear[m]
            BY <2>1, <3>3 DEF DenseTypes
        <4>2. QED
            BY <4>1, <3>1, <3>3
      <3>4. QED
          BY <3>2, <3>3
    <2>5. linear' = [m \in Linears |-> linear'[m]]
        BY <2>1 DEF DenseTypes
    <2>6. linear' \in [Linears -> Modules]
        BY <2>4, <2>5
    <2>7. DenseTypes'
        BY <2>1, <2>2, <2>3, <2>6, <1>1 DEF DenseTypes, Modules
    <2>8. SoundInv' /\ FusedInv' /\ SliceInv'
        BY <2>1, <2>2, <2>3, <2>4 DEF SoundInv, FusedInv, SliceInv, Linears
    <2>9. FlagInv' /\ EachReadsItsRows'
        BY <1>1 DEF FlagInv, EachReadsItsRows
    <2>10. QED
        BY <2>7, <2>8, <2>9
  <1>7. QED
      BY <1>3, <1>4, <1>5, <1>6

\* The forwards of the draft, also one that raises, and of the target.
LEMMA DenseStep == DenseInv /\ [DenseNext]_denseVars => DenseInv'
  <1> SUFFICES ASSUME DenseInv, [DenseNext]_denseVars PROVE DenseInv'
      OBVIOUS
  <1> USE DEF DenseInv
  <1>1. CASE DraftForward
    <2>1. /\ stage = "serving" /\ drafting = "no" /\ drafting' = "begun"
          /\ active' = (active \/ aside # "none")
          /\ UNCHANGED <<stage, linear, fused, aside, lastLogits>>
        BY <1>1 DEF DraftForward
    <2>2. active' = (aside # "none")
        BY <2>1 DEF FlagInv, DenseTypes
    <2>3. QED
        BY <2>1, <2>2 DEF DenseTypes, SoundInv, FusedInv, SliceInv, FlagInv, EachReadsItsRows
  <1>2. CASE DraftLogits
    <2>1. /\ drafting = "begun" /\ drafting' = "logits" /\ lastLogits' = <<"draft", HeadRows>>
          /\ UNCHANGED <<stage, linear, fused, aside, active>>
        BY <1>2 DEF DraftLogits
    <2>2. HeadRows \in {"all", "frequent"} /\ (aside # "none" => HeadRows = "frequent")
        BY <2>1 DEF HeadRows, SliceInv, FlagInv
    <2>3. QED
        BY <2>1, <2>2 DEF DenseTypes, SoundInv, FusedInv, SliceInv, FlagInv, EachReadsItsRows
  <1>3. ASSUME NEW fails \in BOOLEAN, DraftEnds(fails) PROVE DenseInv'
    <2>1. /\ drafting # "no" /\ drafting' = "no" /\ active' = (active /\ aside = "none")
          /\ UNCHANGED <<stage, linear, fused, aside, lastLogits>>
        BY <1>3 DEF DraftEnds
    <2>2. active' = FALSE
        BY <2>1 DEF FlagInv, DenseTypes
    <2>3. QED
        BY <2>1, <2>2 DEF DenseTypes, SoundInv, FusedInv, SliceInv, FlagInv, EachReadsItsRows
  <1>4. CASE TargetForward
    <2>1. /\ stage = "serving" /\ drafting = "no" /\ lastLogits' = <<"target", HeadRows>>
          /\ UNCHANGED <<stage, linear, fused, aside, active, drafting>>
        BY <1>4 DEF TargetForward
    <2>2. HeadRows = "all"
        BY <2>1 DEF HeadRows, FlagInv
    <2>3. QED
        BY <2>1, <2>2 DEF DenseTypes, SoundInv, FusedInv, SliceInv, FlagInv, EachReadsItsRows
  <1>5. CASE UNCHANGED denseVars
      BY <1>5 DEF denseVars, DenseTypes, SoundInv, FusedInv, SliceInv, FlagInv, EachReadsItsRows
  <1>6. QED
      BY <1>1, <1>2, <1>3, <1>4, <1>5, LoadStageStep DEF DenseNext

\* Whatever groups were asked for, in both formats at once too: a weight is rounded
\* once and read by its method, and what was fused is whole or gone.
THEOREM WeightsAreReadAsStored == DenseSpec => []ForwardReadsTheLoadedWeights
  <1>1. DenseInv => ForwardReadsTheLoadedWeights
    <2> SUFFICES ASSUME DenseInv PROVE ForwardReadsTheLoadedWeights
        OBVIOUS
    <2>1. \A m \in Linears :
             /\ linear[m].roundings <= 1
             /\ linear[m].method = IF linear[m].weight = "bf16" THEN "loader" ELSE linear[m].weight
        BY DEF DenseInv, SoundInv, Sound
    <2>2. QED
        BY <2>1 DEF DenseInv, FusedInv, SliceInv, ForwardReadsTheLoadedWeights
  <1>2. QED
      BY <1>1, DenseInitially, DenseStep, PTL DEF DenseSpec

\* The draft reads the rows put aside and the target the whole head, also after a
\* draft forward that raised.
THEOREM HeadRowsAreTheReaders == DenseSpec => []EachReadsItsRows
  <1>1. DenseInv => EachReadsItsRows
      BY DEF DenseInv
  <1>2. QED
      BY <1>1, DenseInitially, DenseStep, PTL DEF DenseSpec

-----------------------------------------------------------------------------
\* The composition gives each part exactly its own behaviours, so that what is
\* proved of each holds of the whole.  The prefetch and the buffered iterator
\* use one pool in turn: each has its behaviours when it is the part that runs.
THEOREM PartsAreIndependent ==
  StartSpec => /\ SnapshotSpec /\ Spec /\ TableSpec /\ DenseSpec
               /\ part = "prefetch" => PrefetchSpec
               /\ part = "window" => WindowSpec
  <1> DEFINE Prefetches == part = "prefetch"
             Iterates   == part = "window"
  <1>1. StartInit => SnapshotInit /\ PrefetchInit /\ WindowInit /\ Init /\ TableInit /\ DenseInit
      BY DEF StartInit
  <1>2. [StartNext]_startVars =>
          /\ [SnapshotNext]_snapshotVars /\ [Next]_vars /\ [TableNext]_tableVars /\ [DenseNext]_denseVars
          /\ Prefetches => Prefetches' /\ [PrefetchNext]_prefetchVars
          /\ Iterates => Iterates' /\ [WindowNext]_windowVars
      BY DEF StartNext, startVars, prefetchVars, windowVars, prefetchOwn, BesideSnapshot, BesidePrefetch,
             BesideWindow, BesideNumpy, BesideTable, BesideDense
  <1> HIDE DEF Prefetches, Iterates
  <1>3. StartSpec => /\ SnapshotSpec /\ Spec /\ TableSpec /\ DenseSpec
                     /\ Prefetches => PrefetchSpec
                     /\ Iterates => WindowSpec
      BY <1>1, <1>2, PTL DEF StartSpec, SnapshotSpec, Spec, TableSpec, DenseSpec, PrefetchSpec, WindowSpec
  <1>4. QED
      BY <1>3 DEF Prefetches, Iterates
=============================================================================
