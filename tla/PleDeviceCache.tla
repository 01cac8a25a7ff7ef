---------------------------- MODULE PleDeviceCache ----------------------------
(***************************************************************************)
(* The direct-mapped device cache in front of the host PLE tables: row id  *)
(* modulo the number of slots names the slot, tags and rows are two        *)
(* tensors written one after the other.  The cache is one per process and  *)
(* its tags are row ids alone, whichever layer's table the row is of.  The *)
(* cache holds fp8, the table fp8 or bf16, and a lookup returns bf16.  A   *)
(* row is <<table, id, value>>: its value as the table has it, or rounded. *)
(***************************************************************************)
EXTENDS TensorOps, Integers

CONSTANTS
    Tables,         \* the PLE tables (one per PLE layer)
    RowCount,       \* rows of a table
    Dtypes,         \* dtypes a table is stored in: "fp8", "bf16"
    SlotCount,      \* st["C"]
    MaxIds,         \* bound: ids of one lookup
    CollidingMisses \* whether one lookup may miss different rows of one slot

ASSUME CacheAssumption ==
    /\ RowCount \in Nat \ {0}
    /\ Dtypes \subseteq {"fp8", "bf16"}
    /\ SlotCount \in Nat \ {0}
    /\ MaxIds \in Nat \ {0}
    /\ CollidingMisses \in BOOLEAN

Empty == -1
Ids == 0 .. RowCount - 1
CacheSlots == 0 .. SlotCount - 1
Values == {"exact", "rounded"}
Blank == <<"blank", Empty, "exact">>
Row == (Tables \X Ids \X Values) \union {Blank}

VARIABLES
    dtype,  \* what the tables are stored in
    tags,   \* row id held by a slot, Empty at first
    vals,   \* row held by a slot
    asked,  \* ghost: the last lookup, [table, ids]
    out     \* the rows it returned

cacheVars == <<dtype, tags, vals, asked, out>>

SlotOf(ids) == [i \in DOMAIN ids |-> ids[i] % SlotCount]

Misses_OccupiedIsHit(ids) == {i \in DOMAIN ids : tags[SlotOf(ids)[i]] = Empty}

Misses(ids) == {i \in DOMAIN ids : tags[SlotOf(ids)[i]] # ids[i]}

\* The conversion to the cache's fp8: exact for a row of an fp8 table.
ToFp8(row) == IF dtype = "fp8" THEN row ELSE <<row[1], row[2], "rounded">>

\* A lookup of the cached path.  The two assignments each settle their own
\* order among rows of one slot.
Lookup(table, ids) ==
    LET slot == SlotOf(ids)
        miss == Misses(ids)
        fetched == [i \in miss |-> <<table, ids[i], "exact">>]
        stored == [i \in miss |-> ToFp8(fetched[i])]
        mids == [i \in miss |-> ids[i]]
    IN
    /\ out' = [i \in DOMAIN ids |-> IF i \in miss THEN fetched[i] ELSE vals[slot[i]]]
    /\ vals' \in IndexPut(vals, miss, slot, stored)
    /\ tags' \in IndexPut(tags, miss, slot, mids)
    /\ asked' = [table |-> table, ids |-> ids]
    /\ UNCHANGED dtype

\* While a CUDA graph is captured (or without a cache) the table is read.
LookupUncached(table, ids) ==
    /\ out' = [i \in DOMAIN ids |-> <<table, ids[i], "exact">>]
    /\ asked' = [table |-> table, ids |-> ids]
    /\ UNCHANGED <<dtype, tags, vals>>

CacheInit ==
    /\ dtype \in Dtypes
    /\ tags = [s \in CacheSlots |-> Empty]
    /\ vals = [s \in CacheSlots |-> Blank]
    /\ asked = [table |-> Empty, ids |-> <<>>]
    /\ out = <<>>

CacheNext ==
    \E table \in Tables, n \in 1 .. MaxIds : \E ids \in [1 .. n -> Ids] :
        \/ /\ \A i, j \in Misses(ids) :
                SlotOf(ids)[i] = SlotOf(ids)[j] => ids[i] = ids[j] \/ CollidingMisses
           /\ Lookup(table, ids)
        \/ LookupUncached(table, ids)

CacheSpec == CacheInit /\ [][CacheNext]_cacheVars
-----------------------------------------------------------------------------
CacheTypeOK ==
    /\ dtype \in Dtypes
    /\ tags \in [CacheSlots -> Ids \union {Empty}]
    /\ vals \in [CacheSlots -> Row]

(* Every lookup returns the rows asked for, whichever of them were hits,   *)
(* and from an fp8 table with their exact values; a hit of a bf16 table    *)
(* may be a row rounded to fp8 (_ple_cached_gather, 1064, and gather).     *)
CacheReturnsItsRows ==
    \A i \in DOMAIN out :
        \E value \in Values :
            /\ out[i] = <<asked.table, asked.ids[i], value>>
            /\ dtype = "fp8" => value = "exact"

(* "(lossless)" (_ple_cache_state, 1036): every lookup returns what the    *)
(* table holds.                                                            *)
Lossless ==
    \A i \in DOMAIN out : out[i] = <<asked.table, asked.ids[i], "exact">>
=============================================================================
