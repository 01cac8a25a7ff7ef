------------------------------ MODULE PleLayout ------------------------------
(***************************************************************************)
(* The token layout of one PLE forward, as _prepare_ple_batch builds it    *)
(* from a ForwardBatch: how the flat token array of a batch is cut into    *)
(* one row per request, and which row of the state pools each row uses.    *)
(*                                                                         *)
(* Indices are 0-based as in the code.  A forward batch fb is a record:    *)
(*   current, original  forward_mode and _original_forward_mode ("none"    *)
(*                      when the latter is None)                           *)
(*   fused              SGLANG_ENABLE_QWEN4_PLE_FUSION                     *)
(*   seqs, reqs         number of request rows, req_pool_indices           *)
(*   lens, start        extend_seq_lens and its cumulative sum             *)
(*   gpuLens, cpuLens   whether extend_seq_lens / _cpu are present         *)
(*   draft              spec_info.draft_token_num                          *)
(*   physical, nonPadded  input_ids.shape[0], num_token_non_padded_cpu     *)
(*   tokens, loc        input_ids, and out_cache_loc # 0, per position     *)
(*   mask, dst, aligned mamba_track_mask / _indices / _aligned_lens()      *)
(***************************************************************************)
EXTENDS Integers

CONSTANTS
    Reqs,       \* request-pool rows
    Slots,      \* slots of the mamba / PLE state pools
    Reserved,   \* the state pools' dummy slot 0
    Token,      \* token ids
    Eos         \* the n-gram history's fill

ASSUME LayoutAssumption == Reserved \in Slots

NoCount == -1

\* Token ids a history cell can hold.
Cell == Token \union {Eos}

ForwardMode(fb) == IF fb.original # "none" THEN fb.original ELSE fb.current

IsDecode(fb) == ForwardMode(fb) = "decode"
IsVerify(fb) == ForwardMode(fb) = "verify"

FastPath(fb) == fb.fused /\ IsDecode(fb)

ProcessedTokens(fb) ==
    IF fb.nonPadded # NoCount THEN fb.nonPadded
    ELSE IF fb.cpuLens THEN fb.start[fb.seqs]
    ELSE fb.physical

Positions(fb) == 0 .. ProcessedTokens(fb) - 1

\* cumsum(lens), from 0.
IsCumulativeSum(start, lens, n) ==
    /\ start[0] = 0
    /\ \A i \in 0 .. n - 1 : start[i + 1] = start[i] + lens[i]

\* torch.searchsorted(start[0 .. n], p, right=True) on a sorted start.
InsertionPoint_Left(start, n, p) ==
    CHOOSE k \in 0 .. n + 1 :
        /\ \A i \in 0 .. k - 1 : start[i] < p
        /\ \A i \in k .. n : start[i] >= p

InsertionPoint(start, n, p) ==
    CHOOSE k \in 0 .. n + 1 :
        /\ \A i \in 0 .. k - 1 : start[i] <= p
        /\ \A i \in k .. n : start[i] > p

Clamp(x, lo, hi) == IF x < lo THEN lo ELSE IF x > hi THEN hi ELSE x

SequenceCount(fb) ==
    IF IsVerify(fb) THEN ProcessedTokens(fb) \div fb.draft
    ELSE IF IsDecode(fb) THEN ProcessedTokens(fb)
    ELSE fb.seqs

Rows(fb) == 0 .. SequenceCount(fb) - 1

Length(fb, i) ==
    IF IsVerify(fb)
    THEN IF fb.current = "verify" /\ fb.gpuLens THEN fb.lens[i] ELSE fb.draft
    ELSE IF IsDecode(fb) THEN 1
    ELSE fb.lens[i]

LongestRow(fb) ==
    IF fb.seqs = 0 THEN 0
    ELSE CHOOSE w \in {fb.lens[i] : i \in 0 .. fb.seqs - 1} :
            \A i \in 0 .. fb.seqs - 1 : fb.lens[i] <= w

RowWidth(fb) ==
    IF IsVerify(fb) THEN fb.draft
    ELSE IF IsDecode(fb) THEN 1
    ELSE IF fb.cpuLens THEN LongestRow(fb)
    ELSE ProcessedTokens(fb)

Columns(fb) == 0 .. RowWidth(fb) - 1

ReqIndex(fb, p) ==
    IF IsVerify(fb) THEN p \div fb.draft
    ELSE IF IsDecode(fb) THEN p
    ELSE Clamp(InsertionPoint(fb.start, fb.seqs, p) - 1, 0, fb.seqs - 1)

RowStart(fb, i) ==
    IF IsVerify(fb) THEN i * fb.draft
    ELSE IF IsDecode(fb) THEN i
    ELSE fb.start[i]

TokenOffset(fb, p) == p - RowStart(fb, ReqIndex(fb, p))

ValidToken(fb, p) == FastPath(fb) \/ TokenOffset(fb, p) < Length(fb, ReqIndex(fb, p))

\* The error checks of _get_processed_token_count and of the verify branch.
WellShaped(fb) ==
    /\ ProcessedTokens(fb) \in 0 .. fb.physical
    /\ IsVerify(fb) => fb.draft > 0 /\ ProcessedTokens(fb) % fb.draft = 0

\* A row that owns state: CUDA-graph padding rows name request row 0, which may
\* be a live request, and are told apart by a zero length or a zero cache slot.
OwnsState_AnyNonempty(fb, i) == Length(fb, i) # 0

OwnsState(fb, i) ==
    /\ Length(fb, i) # 0
    /\ IsDecode(fb) => fb.loc[i]
    /\ IsVerify(fb) => \E o \in Columns(fb) : fb.loc[i * fb.draft + o]

StateIndex(fb, slotOf, i) ==
    IF OwnsState(fb, i) THEN slotOf[fb.reqs[i]] ELSE Reserved

\* The positions scattered to cell (i, o) of the padded rows.
ScatteredTo(fb, i, o) ==
    {p \in Positions(fb) : ReqIndex(fb, p) = i /\ TokenOffset(fb, p) = o}

NgramCell(fb, i, o) ==
    IF \E p \in ScatteredTo(fb, i, o) : ValidToken(fb, p)
    THEN fb.tokens[CHOOSE p \in ScatteredTo(fb, i, o) : ValidToken(fb, p)]
    ELSE Eos

\* The short convolution scatters every processed column, valid or not.
ConvCell(fb, i, o, zero) ==
    IF ScatteredTo(fb, i, o) # {}
    THEN fb.tokens[CHOOSE p \in ScatteredTo(fb, i, o) : TRUE]
    ELSE zero

TrackDestination(fb, i) == IF fb.mask[i] THEN fb.dst[i] ELSE Reserved

TrackOffset_WholeRow(fb, i) == Length(fb, i)

TrackOffset(fb, i) ==
    IF IsDecode(fb) THEN Length(fb, i)
    ELSE LET offset == IF fb.aligned[i] < 0 THEN 0 ELSE fb.aligned[i]
         IN IF offset < Length(fb, i) THEN offset ELSE Length(fb, i)
=============================================================================
