--------------------------- MODULE SnapshotDownload ---------------------------
(***************************************************************************)
(* How a start of the server gets the shards of a model named on the hub:  *)
(* under a lock it either trusts the local snapshot or downloads what is   *)
(* missing; then it lists the shards, fetches the index under the same     *)
(* lock and filters the list by it.  Processes share the snapshot folder;  *)
(* a process may be killed and the connection may break at any moment,     *)
(* and either leaves the shards that had arrived.  The clean-up that only  *)
(* runs in CI is another file's.                                           *)
(***************************************************************************)
EXTENDS Naturals

CONSTANTS
    Starts,         \* processes that start a server on the model
    Shards,         \* the safetensors files that the index names
    MaxCuts         \* bound: kills and broken connections together

ASSUME SnapshotAssumption == "free" \notin Starts /\ Shards # {} /\ MaxCuts \in Nat

VARIABLES
    modelLock,      \* holder of get_lock, or "free"
    onDisk,         \* shards in the snapshot folder, each whole
    indexOnDisk,    \* model.safetensors.index.json is there too
    hubOffline,     \* HF_HUB_OFFLINE of a process
    place,          \* where a process is
    listed,         \* the shards it will load
    sawIndex,       \* ghost: the index was there when it looked for a snapshot
    cuts            \* kills and broken connections so far

snapshotVars == <<modelLock, onDisk, indexOnDisk, hubOffline, place, listed, sawIndex, cuts>>

Move(p, from, to) == place[p] = from /\ place' = [place EXCEPT ![p] = to]

\* _check_index_files_exist; a folder without an index passes.
IndexFilesExist == indexOnDisk => Shards \subseteq onDisk

EnterDownload_Unlocked(p) ==
    /\ modelLock' = p
    /\ Move(p, "start", "find")
    /\ UNCHANGED <<onDisk, indexOnDisk, hubOffline, listed, sawIndex, cuts>>

EnterDownload(p) ==
    /\ modelLock = "free" /\ modelLock' = p
    /\ Move(p, "start", "find")
    /\ UNCHANGED <<onDisk, indexOnDisk, hubOffline, listed, sawIndex, cuts>>

\* _find_local_hf_snapshot_dir_unlocked: a snapshot with a shard in it is
\* trusted unless the index names a file that is missing.
FindLocal(p) ==
    /\ Move(p, "find", IF onDisk # {} /\ IndexFilesExist THEN "leave" ELSE "ls")
    /\ sawIndex' = [sawIndex EXCEPT ![p] = indexOnDisk]
    /\ UNCHANGED <<modelLock, onDisk, indexOnDisk, hubOffline, listed, cuts>>

\* fs.ls, and snapshot_download with local_files_only when offline: it returns
\* the folder as it is.
ListHub(p) ==
    /\ Move(p, "ls", IF hubOffline[p] THEN "leave" ELSE "fetch")
    /\ UNCHANGED <<modelLock, onDisk, indexOnDisk, hubOffline, listed, sawIndex, cuts>>

FetchShard(p) ==
    /\ place[p] = "fetch"
    /\ \E shard \in Shards \ onDisk : onDisk' = onDisk \union {shard}
    /\ UNCHANGED <<modelLock, indexOnDisk, hubOffline, place, listed, sawIndex, cuts>>

FetchDone(p) ==
    /\ Shards \subseteq onDisk
    /\ Move(p, "fetch", "leave")
    /\ UNCHANGED <<modelLock, onDisk, indexOnDisk, hubOffline, listed, sawIndex, cuts>>

LeaveDownload(p) ==
    /\ Move(p, "leave", "glob")
    /\ modelLock' = "free"
    /\ UNCHANGED <<onDisk, indexOnDisk, hubOffline, listed, sawIndex, cuts>>

\* The loader lists the folder; without a shard there is nothing to load.
Glob(p) ==
    /\ Move(p, "glob", IF onDisk = {} THEN "failed" ELSE "askIndex")
    /\ listed' = [listed EXCEPT ![p] = onDisk]
    /\ UNCHANGED <<modelLock, onDisk, indexOnDisk, hubOffline, sawIndex, cuts>>

EnterIndex(p) ==
    /\ modelLock = "free" /\ modelLock' = p
    /\ Move(p, "askIndex", "index")
    /\ UNCHANGED <<onDisk, indexOnDisk, hubOffline, listed, sawIndex, cuts>>

\* download_safetensors_index_file_from_hf: an index that cannot be had, for
\* want of a connection too, is no error.
FetchIndex(p, reached) ==
    /\ Move(p, "index", "filter")
    /\ modelLock' = "free"
    /\ ~reached /\ ~hubOffline[p] => cuts < MaxCuts
    /\ cuts' = IF reached \/ hubOffline[p] THEN cuts ELSE cuts + 1
    /\ indexOnDisk' = (indexOnDisk \/ (reached /\ ~hubOffline[p]))
    /\ UNCHANGED <<onDisk, hubOffline, listed, sawIndex>>

\* filter_duplicate_safetensors_files: with an index, a missing shard raises.
Filter(p) ==
    /\ Move(p, "filter", IF IndexFilesExist THEN "loaded" ELSE "failed")
    /\ listed' = [listed EXCEPT ![p] = IF indexOnDisk THEN @ \intersect Shards ELSE @]
    /\ UNCHANGED <<modelLock, onDisk, indexOnDisk, hubOffline, sawIndex, cuts>>

\* The process is killed, or its connection breaks and the error is raised.
Cut(p, to) ==
    /\ cuts < MaxCuts /\ cuts' = cuts + 1
    /\ \/ to = "down" /\ place[p] \notin {"down", "failed", "loaded"}
       \/ to = "failed" /\ place[p] \in {"ls", "fetch"} /\ ~hubOffline[p]
    /\ place' = [place EXCEPT ![p] = to]
    /\ modelLock' = IF modelLock = p THEN "free" ELSE modelLock
    /\ UNCHANGED <<onDisk, indexOnDisk, hubOffline, listed, sawIndex>>

\* A server that did not start is started again, perhaps offline this time.
StartAgain(p) ==
    /\ place[p] \in {"down", "failed"}
    /\ place' = [place EXCEPT ![p] = "start"]
    /\ \E offline \in BOOLEAN : hubOffline' = [hubOffline EXCEPT ![p] = offline]
    /\ listed' = [listed EXCEPT ![p] = {}]
    /\ sawIndex' = [sawIndex EXCEPT ![p] = FALSE]
    /\ UNCHANGED <<modelLock, onDisk, indexOnDisk, cuts>>

StartStep(p) ==
    \/ EnterDownload(p) \/ FindLocal(p) \/ ListHub(p) \/ FetchShard(p)
    \/ FetchDone(p) \/ LeaveDownload(p) \/ Glob(p)
    \/ EnterIndex(p) \/ FetchIndex(p, TRUE) \/ FetchIndex(p, FALSE) \/ Filter(p)

SnapshotInit ==
    /\ modelLock = "free"
    /\ onDisk = {} /\ indexOnDisk = FALSE
    /\ hubOffline \in [Starts -> BOOLEAN]
    /\ place = [p \in Starts |-> "start"]
    /\ listed = [p \in Starts |-> {}]
    /\ sawIndex = [p \in Starts |-> FALSE]
    /\ cuts = 0

SnapshotNext ==
    \E p \in Starts :
        \/ StartStep(p)
        \/ \E to \in {"down", "failed"} : Cut(p, to)
        \/ StartAgain(p)

SnapshotSpec == SnapshotInit /\ [][SnapshotNext]_snapshotVars
-----------------------------------------------------------------------------
AllListed(p) == Shards \subseteq listed[p]

\* "Otherwise those shards are silently dropped and the model loads with
\* uninitialized weights": a start that loads, loads every shard.
NothingIsDropped == \A p \in Starts : place[p] = "loaded" => AllListed(p)

\* A start that may use the hub gets the whole model, whoever downloaded it,
\* while no process was killed and no connection broke; and afterwards, when it
\* found the index, it still gets the whole model or none of it.
StartsAreComplete ==
    \A p \in Starts :
        /\ cuts = 0 /\ ~hubOffline[p] => place[p] # "failed"
        /\ place[p] = "loaded" /\ ~hubOffline[p] /\ (cuts = 0 \/ sawIndex[p]) => AllListed(p)
=============================================================================
