------------------------------- MODULE NpCache -------------------------------
(***************************************************************************)
(* np_cache_weights_iterator: processes that load one checkpoint share a   *)
(* folder of numpy dumps.  Under a file lock the first of them dumps every *)
(* tensor and then the list of their names; the others find the list and   *)
(* skip the dump.  All of them read the folder after releasing the lock.   *)
(* The operating system frees the lock of a process that dies and keeps    *)
(* the files it left, whole or not.                                        *)
(***************************************************************************)
EXTENDS Naturals

CONSTANTS
    Procs,
    TensorCount,    \* tensors of the checkpoint, in the order they are dumped
    MaxCrashes      \* bound: processes killed

ASSUME NpAssumption ==
    /\ TensorCount \in Nat \ {0}
    /\ MaxCrashes \in Nat
    /\ "free" \notin Procs

VARIABLES
    lock,       \* holder of get_lock, or "free"
    names,      \* weight_names.json: "absent", "cut" (opened for writing), "whole"
    file,       \* the dump of a tensor: likewise
    pc,         \* where a process is
    at,         \* the tensor it is at
    crashes     \* processes killed so far

vars == <<lock, names, file, pc, at, crashes>>

Tensors == 1 .. TensorCount

Step(p, from, to) == pc[p] = from /\ pc' = [pc EXCEPT ![p] = to]
Go(p, n) == at' = [at EXCEPT ![p] = n]

Acquire_Unlocked(p) ==
    /\ lock' = p
    /\ Step(p, "start", "check")
    /\ UNCHANGED <<names, file, at, crashes>>

Acquire(p) ==
    /\ lock = "free" /\ lock' = p
    /\ Step(p, "start", "check")
    /\ UNCHANGED <<names, file, at, crashes>>

Check_AlwaysDump(p) ==
    /\ Step(p, "check", "dump")
    /\ Go(p, 1)
    /\ UNCHANGED <<lock, names, file, crashes>>

\* os.path.exists(weight_names_file)
Check(p) ==
    /\ Step(p, "check", IF names = "absent" THEN "dump" ELSE "release")
    /\ Go(p, 1)
    /\ UNCHANGED <<lock, names, file, crashes>>

OpenTensor(p) ==
    /\ at[p] \in Tensors
    /\ Step(p, "dump", "save")
    /\ file' = [file EXCEPT ![at[p]] = "cut"]
    /\ UNCHANGED <<lock, names, at, crashes>>

SaveTensor(p) ==
    /\ Step(p, "save", "dump")
    /\ file' = [file EXCEPT ![at[p]] = "whole"]
    /\ Go(p, at[p] + 1)
    /\ UNCHANGED <<lock, names, crashes>>

OpenNames_BeforeTensors(p) ==
    /\ Step(p, "dump", "names")
    /\ names' = "cut"
    /\ UNCHANGED <<lock, file, at, crashes>>

OpenNames(p) ==
    /\ at[p] \notin Tensors
    /\ Step(p, "dump", "names")
    /\ names' = "cut"
    /\ UNCHANGED <<lock, file, at, crashes>>

WriteNames(p) ==
    /\ Step(p, "names", "release")
    /\ names' = "whole"
    /\ UNCHANGED <<lock, file, at, crashes>>

Release_LockKept(p) ==
    /\ Step(p, "release", "list")
    /\ UNCHANGED <<lock, names, file, at, crashes>>

Release(p) ==
    /\ Step(p, "release", "list")
    /\ lock' = "free"
    /\ UNCHANGED <<names, file, at, crashes>>

\* json.load, outside the lock
ReadNames(p) ==
    /\ Step(p, "list", IF names = "whole" THEN "load" ELSE "failed")
    /\ Go(p, 1)
    /\ UNCHANGED <<lock, names, file, crashes>>

LoadTensor(p) ==
    /\ at[p] \in Tensors
    /\ Step(p, "load", IF file[at[p]] = "whole" THEN "load" ELSE "failed")
    /\ Go(p, at[p] + 1)
    /\ UNCHANGED <<lock, names, file, crashes>>

Loaded(p) ==
    /\ at[p] \notin Tensors
    /\ Step(p, "load", "loaded")
    /\ UNCHANGED <<lock, names, file, at, crashes>>

Crash(p) ==
    /\ crashes < MaxCrashes
    /\ crashes' = crashes + 1
    /\ pc[p] \notin {"loaded", "failed", "down"}
    /\ pc' = [pc EXCEPT ![p] = "down"]
    /\ lock' = IF lock = p THEN "free" ELSE lock
    /\ UNCHANGED <<names, file, at>>

Restart(p) ==
    /\ Step(p, "down", "start")
    /\ UNCHANGED <<lock, names, file, at, crashes>>

Load(p) ==
    \/ Acquire(p) \/ Check(p) \/ OpenTensor(p) \/ SaveTensor(p)
    \/ OpenNames(p) \/ WriteNames(p) \/ Release(p)
    \/ ReadNames(p) \/ LoadTensor(p) \/ Loaded(p)

Init ==
    /\ lock = "free"
    /\ names = "absent"
    /\ file = [n \in Tensors |-> "absent"]
    /\ pc = [p \in Procs |-> "start"]
    /\ at = [p \in Procs |-> 1]
    /\ crashes = 0

Next == \E p \in Procs : Load(p) \/ Crash(p) \/ Restart(p)

Spec == Init /\ [][Next]_vars

\* Processes that are not killed run on; the file lock is eventually granted.
FairSpec == Spec /\ \A p \in Procs : WF_vars(Load(p))
-----------------------------------------------------------------------------
TypeOK ==
    /\ lock \in Procs \union {"free"}
    /\ names \in {"absent", "cut", "whole"}
    /\ file \in [Tensors -> {"absent", "cut", "whole"}]
    /\ pc \in [Procs -> {"start", "check", "dump", "save", "names", "release",
                         "list", "load", "loaded", "failed", "down"}]
    /\ at \in [Procs -> 1 .. TensorCount + 1]
    /\ crashes \in 0 .. MaxCrashes

\* A readable list of names stands for a complete dump, whoever wrote which
\* part of it and however often the dump was interrupted.
NamesMeanWholeDump ==
    names = "whole" => \A n \in Tensors : file[n] = "whole"

\* Readers work outside the lock: no tensor and no list is opened for writing
\* while a process reads the folder.
NothingIsRewrittenUnderReaders ==
    [][(\E p \in Procs : pc[p] = "load") =>
         /\ \A n \in Tensors : file'[n] = file[n]
         /\ names' = names]_vars

\* "Will dump the model weights to numpy files if they are not already dumped":
\* a process that is left alone gets the weights.
EveryLoadSucceeds == \A p \in Procs : pc[p] # "failed"

\* As long as nobody is killed, every process that found or made the dump can
\* read the list and every tensor, whatever the others are doing meanwhile.
UndisturbedLoadSucceeds == crashes = 0 => EveryLoadSucceeds

\* Nobody waits forever for the lock, also when its holder was killed.
EveryLoadEnds == <>(\A p \in Procs : pc[p] \in {"loaded", "failed", "down"})
=============================================================================
