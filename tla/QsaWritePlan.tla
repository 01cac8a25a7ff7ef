----------------------------- MODULE QsaWritePlan -----------------------------
(***************************************************************************)
(* Which compressed blocks one forward writes, and where.  A batch is a    *)
(* sequence of rows; a row has the raw KV slots of its request's tokens    *)
(* (its token-slot table) and a length.  Ratio consecutive tokens make a   *)
(* block, kept in slot (raw slot \div Ratio); slot 0 is reserved and takes *)
(* the writes that mean nothing.  Rows and plan entries count from 1,      *)
(* blocks, positions and slots from 0 as in the code.                      *)
(***************************************************************************)
EXTENDS Naturals, Sequences, FiniteSets

CONSTANT Ratio      \* qsa_compress_ratio

ASSUME RatioAssumption == Ratio \in Nat \ {0, 1}

CumulativeSum(counts) ==
    LET sum[i \in 0 .. Len(counts)] == IF i = 0 THEN 0 ELSE sum[i - 1] + counts[i]
    IN  sum

\* searchsorted(ends, e, right=True), as a row.
OwnerOf(ends, e) == Cardinality({r \in DOMAIN ends \ {0} : ends[r] <= e}) + 1

Inert == [row |-> 1, block |-> 0, loc |-> 0]

(***************************************************************************)
(* Row r writes blocks starts[r] .. ends[r] - 1.  The rows' blocks are     *)
(* packed one after another into `capacity` entries, the rest are inert.   *)
(***************************************************************************)
WritePlan(tables, starts, ends, capacity) ==
    LET counts == [r \in DOMAIN ends |-> IF ends[r] > starts[r] THEN ends[r] - starts[r] ELSE 0]
        total == CumulativeSum(counts)
        Entry(e) == LET r == OwnerOf(total, e)
                        b == starts[r] + e - total[r - 1]
                    IN  [row |-> r, block |-> b, loc |-> tables[r][b * Ratio + 1] \div Ratio]
    IN  [e \in 1 .. capacity |-> IF e - 1 < total[Len(ends)] THEN Entry(e - 1) ELSE Inert]

\* Decode and speculative rows: the block the row's last token completes, if it does.
PagedPlan(tables, lengths) ==
    LET ends == [r \in DOMAIN lengths |-> lengths[r] \div Ratio]
        starts == [r \in DOMAIN lengths |->
                      IF lengths[r] % Ratio = 0 THEN ends[r] - 1 ELSE ends[r]]
    IN  WritePlan(tables, starts, ends, Len(lengths))

\* Extend rows: every block the chunk completes.  The chunk starts on a block.
ExtendPlan(tables, lengths, chunks) ==
    LET rows == DOMAIN lengths
        tokens == CumulativeSum(chunks)[Len(chunks)]
    IN  WritePlan(tables, [r \in rows |-> (lengths[r] - chunks[r]) \div Ratio],
                  [r \in rows |-> lengths[r] \div Ratio], tokens \div Ratio + Len(lengths))

\* The first of an entry's Ratio token rows in the forward's packed tensors.
MemberRow(entry, lengths, chunks) ==
    IF entry = Inert THEN 0
    ELSE CumulativeSum(chunks)[entry.row - 1]
         + entry.block * Ratio - (lengths[entry.row] - chunks[entry.row])

ReplayPlan_OfPositions(tables, lengths) ==
    [r \in DOMAIN lengths |->
        [row |-> r, block |-> (lengths[r] - 1) \div Ratio,
         loc |-> IF (lengths[r] - 1) % Ratio = 0 THEN tables[r][lengths[r]] \div Ratio ELSE 0]]

(***************************************************************************)
(* The replay of a captured graph does not pack: entry r is row r, and a   *)
(* block is addressed by its last token instead of its first.              *)
(***************************************************************************)
ReplayPlan(tables, lengths) ==
    [r \in DOMAIN lengths |->
        [row |-> r, block |-> (lengths[r] - 1) \div Ratio,
         loc |-> IF lengths[r] % Ratio = 0 THEN tables[r][lengths[r]] \div Ratio ELSE 0]]

=============================================================================
