------------------------------ MODULE ThreadPool ------------------------------
(***************************************************************************)
(* concurrent.futures.ThreadPoolExecutor as the loaders of weight_utils    *)
(* use it: submitted jobs wait in a FIFO queue, at most MaxWorkers of them *)
(* run, and each ends with a result or an exception.  What a job does      *)
(* between Start and End belongs to the module that uses the pool.         *)
(***************************************************************************)
EXTENDS Naturals, Sequences, FiniteSets

CONSTANTS
    Jobs,       \* what can be submitted: checkpoint files
    MaxWorkers  \* threads of the pool

ASSUME PoolAssumption == MaxWorkers \in Nat \ {0}

VARIABLES
    queue,      \* submitted, not started
    running,    \* jobs a worker is executing
    ended,      \* jobs whose future is done
    raised      \* those of them that ended with an exception

poolVars == <<queue, running, ended, raised>>

Queued == {queue[i] : i \in DOMAIN queue}
Submitted == Queued \union running \union ended

PoolInit ==
    /\ queue = <<>>
    /\ running = {}
    /\ ended = {}
    /\ raised = {}

Submit(job) ==
    /\ queue' = Append(queue, job)
    /\ UNCHANGED <<running, ended, raised>>

Start ==
    /\ queue # <<>>
    /\ Cardinality(running) < MaxWorkers
    /\ queue' = Tail(queue)
    /\ running' = running \union {Head(queue)}
    /\ UNCHANGED <<ended, raised>>

End(job, ok) ==
    /\ job \in running
    /\ running' = running \ {job}
    /\ ended' = ended \union {job}
    /\ raised' = IF ok THEN raised ELSE raised \union {job}
    /\ UNCHANGED queue

\* shutdown(wait=True) returns once no job is left.
Drained == queue = <<>> /\ running = {}

PoolTypeOK ==
    /\ queue \in Seq(Jobs)
    /\ running \subseteq Jobs
    /\ ended \subseteq Jobs
    /\ raised \subseteq ended
=============================================================================
