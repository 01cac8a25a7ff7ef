------------------------------- MODULE PleTable -------------------------------
(***************************************************************************)
(* The PLE table of one rank, from its allocation to the end of            *)
(* load_weights.  The checkpoint holds it in parts of equal size, the last *)
(* shorter; a rank keeps the rows of its partition.  The storage is an     *)
(* ordinary parameter, pinned host memory, a file mapped into memory that  *)
(* outlives the process, or packed NVFP4; a checkpoint in fp8 makes an     *)
(* ordinary bf16 parameter change to fp8 when its first part arrives.      *)
(* A process may be killed at any moment and the next one may load another *)
(* checkpoint of the same shape.                                           *)
(***************************************************************************)
EXTENDS Naturals

CONSTANTS
    TableRows,      \* org_vocab_size
    Parts,          \* ple_num_sync_shards
    PadTo,          \* the vocabulary is padded to a multiple of PadTo rows a rank
    Checkpoints,    \* checkpoints with a table of this shape
    PartDtype,      \* dtype of their parts, "bf16" or "fp8"
    MaxKills        \* bound: processes killed

ASSUME TableAssumption ==
    /\ TableRows \in Nat \ {0} /\ Parts \in Nat \ {0} /\ PadTo \in Nat \ {0}
    /\ PartDtype \in [Checkpoints -> {"bf16", "fp8"}]
    /\ MaxKills \in Nat

VARIABLES
    life,           \* "down", "created", "loading", "raised" or "serving"
    launch,         \* what the process was started with
    dtype,          \* dtype of the storage
    table,          \* the rank's rows
    mapped,         \* the mapped files: size and contents, by dtype
    given,          \* parts that the checkpoint's files hold
    parts,          \* those of them the loader has still to hand over
    kills

tableVars == <<life, launch, dtype, table, mapped, given, parts, kills>>

CeilDiv(a, b) == (a + b - 1) \div b
Least(a, b) == IF a < b THEN a ELSE b
Most(a, b) == IF a > b THEN a ELSE b

\* shard_indices of VocabParallelEmbedding
RankRows(l) == CeilDiv(TableRows, PadTo * l.ranks) * PadTo
TpStart(l) == Least(l.rank * RankRows(l), TableRows)
TpEnd(l) == Least((l.rank + 1) * RankRows(l), TableRows)

\* A row is known by its checkpoint and number; memory nobody wrote holds junk.
Row(c, n) == <<c, n>>
Junk(l) == [n \in 0 .. RankRows(l) - 1 |-> Row("junk", 0)]
Zeros(l) == [n \in 0 .. RankRows(l) - 1 |-> Row("zero", 0)]

PartSize == CeilDiv(TableRows, Parts)
PartStart(i) == i * PartSize
PartEnd(i) == PartStart(i) + (IF PartStart(i) < TableRows
                              THEN Least(PartSize, TableRows - PartStart(i)) ELSE 0)

\* copy_ple_rows_to_tp_embedding, and its twin for packed rows: the overlap of
\* the part with the partition.
WithPart(l, rows, i) ==
    LET from == Most(PartStart(i), TpStart(l))
        to == Least(PartEnd(i), TpEnd(l))
        source == [n \in 0 .. PartSize - 1 |-> Row(l.checkpoint, PartStart(i) + n)]
    IN [n \in DOMAIN rows |-> IF TpStart(l) + n \in from .. to - 1
                              THEN source[TpStart(l) + n - PartStart(i)] ELSE rows[n]]

\* The packed table and the mapped file serve one rank: the first is written
\* for tp1, and ranks with partitions of one size would share the second.
Launches ==
    {l \in [storage : {"parameter", "pinned", "mapped", "packed"}, ranks : 1 .. 2, rank : 0 .. 1,
            checkpoint : Checkpoints, dtype : {"bf16", "fp8"}] :
        /\ l.rank < l.ranks
        /\ l.storage \in {"mapped", "packed"} => l.ranks = 1}

\* Construction.  A mapped file of the right name and size is taken as it is;
\* one that is missing, or was cut short, is created in two steps.
Launch(l) ==
    /\ life = "down"
    /\ launch' = l /\ dtype' = l.dtype
    /\ \E lost \in SUBSET (0 .. Parts - 1) : given' = (0 .. Parts - 1) \ lost
    /\ parts' = given'
    /\ IF l.storage = "mapped" /\ mapped[l.dtype].size # "full"
       THEN /\ life' = "created" /\ table' = Junk(l)
            /\ mapped' = [mapped EXCEPT ![l.dtype] = [size |-> "empty", rows |-> Zeros(l)]]
       ELSE /\ life' = "loading" /\ UNCHANGED mapped
            /\ table' = CASE l.storage = "mapped" -> mapped[l.dtype].rows
                          [] l.storage = "packed" -> Zeros(l)
                          [] OTHER -> Junk(l)
    /\ UNCHANGED kills

SizeFile ==
    /\ life = "created" /\ life' = "loading"
    /\ mapped' = [mapped EXCEPT ![launch.dtype].size = "full"]
    /\ table' = mapped[launch.dtype].rows
    /\ UNCHANGED <<launch, dtype, given, parts, kills>>

\* What the table holds for a part in fp8 when the storage is bf16: an ordinary
\* parameter is replaced by an empty one, and pinned memory refuses.
SwitchesToFp8 ==
    PartDtype[launch.checkpoint] = "fp8" /\ dtype = "bf16" /\ launch.storage # "packed"

LoadPart_SwitchEachTime(i) ==
    /\ life = "loading" /\ i \in parts /\ parts' = parts \ {i}
    /\ IF launch.storage = "parameter" /\ PartDtype[launch.checkpoint] = "fp8"
       THEN dtype' = "fp8" /\ table' = WithPart(launch, Junk(launch), i)
       ELSE table' = WithPart(launch, table, i) /\ UNCHANGED dtype
    /\ UNCHANGED <<life, launch, mapped, given, kills>>

\* load_qwen4_exp_ple_shard
LoadPart(i) ==
    /\ life = "loading" /\ i \in parts /\ parts' = parts \ {i}
    /\ IF SwitchesToFp8 /\ launch.storage # "parameter"
       THEN life' = "raised" /\ UNCHANGED <<dtype, table, mapped>>
       ELSE /\ UNCHANGED life
            /\ dtype' = IF SwitchesToFp8 THEN "fp8" ELSE dtype
            /\ table' = WithPart(launch, IF SwitchesToFp8 THEN Junk(launch) ELSE table, i)
            /\ mapped' = IF launch.storage = "mapped"
                       THEN [mapped EXCEPT ![launch.dtype].rows = table'] ELSE mapped
    /\ UNCHANGED <<launch, given, kills>>

\* load_weights returns whatever parts there were.
Serve ==
    /\ life = "loading" /\ parts = {} /\ life' = "serving"
    /\ UNCHANGED <<launch, dtype, table, mapped, given, parts, kills>>

\* The process is killed, or ends because its load raised.
Kill ==
    /\ life # "down" /\ life' = "down"
    /\ kills < MaxKills /\ kills' = kills + 1
    /\ UNCHANGED <<launch, dtype, table, mapped, given, parts>>

TableInit ==
    /\ life = "down" /\ launch = (CHOOSE l \in Launches : TRUE) /\ dtype = launch.dtype
    /\ table = Junk(launch) /\ given = {} /\ parts = {} /\ kills = 0
    /\ mapped = [d \in {"bf16", "fp8"} |-> [size |-> "absent", rows |-> <<>>]]

TableNext ==
    \/ \E l \in Launches : Launch(l)
    \/ SizeFile
    \/ \E i \in 0 .. Parts - 1 : LoadPart(i)
    \/ Serve
    \/ Kill

TableSpec == TableInit /\ [][TableNext]_tableVars
-----------------------------------------------------------------------------
\* Whatever the storage held before and however often an earlier process was
\* killed, a table that is served holds, in every row whose part was in the
\* checkpoint, that very row of that very checkpoint.
ServedRowsAreTheCheckpoints ==
    life = "serving" =>
        \A i \in given : \A row \in PartStart(i) .. PartEnd(i) - 1 :
            row \in TpStart(launch) .. TpEnd(launch) - 1 =>
                table[row - TpStart(launch)] = Row(launch.checkpoint, row)
=============================================================================
