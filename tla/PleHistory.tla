------------------------------ MODULE PleHistory ------------------------------
(***************************************************************************)
(* The two side states of the per-layer-embedding (PLE) layer: the n-gram  *)
(* history and the short-convolution state, one slot of each per request.  *)
(* A forward prepares its batch (reading the history), runs the layer      *)
(* (which reads and advances the convolution state) and commits the        *)
(* history once every layer consumed it.  A target-verify forward writes   *)
(* one candidate state per draft position instead; the server installs the *)
(* one for the number of tokens it accepted.                               *)
(*                                                                         *)
(* Around it, and outside src/: the scheduler that forms the batches, the  *)
(* slot allocator, and the radix cache that keeps snapshots taken at       *)
(* multiples of Interval tokens and hands them to requests with the same   *)
(* prefix.  A request's text is fixed when it is admitted; the model       *)
(* reveals it as the forwards consume it.                                  *)
(***************************************************************************)
EXTENDS PleLayout, TensorOps, FiniteSets

CONSTANTS
    Zero,             \* the convolution state's fill
    Junk,             \* a draft token the target rejects
    Stale,            \* what a slot's previous owner left in a cell
    NoBatch,          \* no forward is running
    PadRow,           \* the request row CUDA-graph padding names (row 0)
    ContextLen,       \* ngram_size - 1
    ConvLen,          \* short_conv_state_len
    Interval,         \* mamba track interval
    DraftTokens,      \* draft_token_num
    MaxChunk,         \* bound: tokens of one request in an extend
    MaxLen,           \* bound: tokens of one request
    MaxPadding,       \* bound: padding rows (or tokens) of a batch
    Texts             \* the texts requests can turn out to have

ASSUME HistoryAssumption ==
    /\ IsFiniteSet(Reqs) /\ PadRow \in Reqs
    /\ Junk \in Token
    /\ ContextLen \in Nat \ {0}
    /\ ConvLen \in Nat \ {0}
    /\ Interval \in Nat \ {0}
    /\ DraftTokens \in Nat \ {0}
    /\ MaxChunk \in Nat /\ MaxLen \in Nat /\ MaxPadding \in Nat
    /\ Texts # {} /\ Texts \subseteq [1 .. MaxLen -> Token]

VARIABLES
    pc,           \* "idle", "layers", "commit" or "verified"
    ngram,        \* the pool's n-gram history, per slot
    conv,         \* the pool's short-convolution state, per slot
    ngramSteps,   \* verify: the history after j + 1 tokens of row i, at [i][j]
    convSteps,    \* verify: the convolution state, likewise
    batch,        \* the forward in flight: its layout, slots and read history
    slotOf,       \* working slot of a request, Reserved when it has none
    trackOf,      \* slot its next boundary snapshot goes to
    text,         \* the request's text
    done,         \* ghost: how many of its tokens the state stands for
    tracked,      \* ghost: the prefix length its track slot stands for, or 0
    snap          \* ghost: the prefix <<text, length>> a cached slot stands for

poolVars == <<ngram, conv>>
stepVars == <<ngramSteps, convSteps>>
reqVars == <<slotOf, trackOf, text, done, tracked, snap>>
vars == <<pc, poolVars, stepVars, batch, reqVars>>

Context == [0 .. ContextLen - 1 -> Cell \union {Stale}]
ConvState == [0 .. ConvLen - 1 -> Cell \union {Stale, Zero}]
Leftover(width) == [k \in 0 .. width - 1 |-> Stale]

\* The last `width` tokens of the first n of t, filled at the front.
Window(t, n, width, fill) ==
    [k \in 0 .. width - 1 |->
        IF n - width + k >= 0 THEN t[n - width + k + 1] ELSE fill]

NgramOf(t, n) == Window(t, n, ContextLen, Eos)
ConvOf(t, n) == Window(t, n, ConvLen, Zero)

Live == {r \in Reqs : slotOf[r] # Reserved}
Cached == {s \in Slots : snap[s][2] # 0}
Free == Slots \ ({Reserved} \union {slotOf[r] : r \in Reqs}
                 \union {trackOf[r] : r \in Reqs} \union Cached)

(***************************************************************************)
(* The batch: [incoming state | this forward's tokens], one row per        *)
(* sequence, and the state's value after n of the row's tokens.            *)
(***************************************************************************)
NgramAt_OneColumnMore(b, i, n) ==
    [k \in 0 .. ContextLen |->
        IF n + k < ContextLen THEN b.history[i][n + k]
        ELSE NgramCell(b.fb, i, n + k - ContextLen)]

NgramAt_RowWidth(b, i, n) ==
    LET m == IF n = Length(b.fb, i) THEN RowWidth(b.fb) ELSE n IN
    [k \in 0 .. ContextLen - 1 |->
        IF m + k < ContextLen THEN b.history[i][m + k]
        ELSE NgramCell(b.fb, i, m + k - ContextLen)]

NgramAt(b, i, n) ==
    [k \in 0 .. ContextLen - 1 |->
        IF n + k < ContextLen THEN b.history[i][n + k]
        ELSE NgramCell(b.fb, i, n + k - ContextLen)]

ConvAt(b, i, n) ==
    [k \in 0 .. ConvLen - 1 |->
        IF n + k < ConvLen THEN conv[b.slot[i]][n + k]
        ELSE ConvCell(b.fb, i, n + k - ConvLen, Zero)]

\* What lands in the reserved slot is never read as anybody's state.
Kept(rows, dst) == {i \in rows : dst[i] # Reserved}

TrackRows(fb) == IF fb.tracking THEN Rows(fb) ELSE {}

\* The working slots take the state after the whole row, then the track slots
\* the state at the boundary.
Advance(pool, b, At(_, _, _)) ==
    LET rows == Rows(b.fb)
        trackRows == TrackRows(b.fb)
        next == [i \in rows |-> At(b, i, Length(b.fb, i))]
        track == [i \in trackRows |-> At(b, i, TrackOffset(b.fb, i))]
        trackSlot == [i \in trackRows |-> TrackDestination(b.fb, i)]
    IN UNION {IndexPut(mid, Kept(trackRows, trackSlot), trackSlot, track) :
                mid \in IndexPut(pool, Kept(rows, b.slot), b.slot, next)}

\* The state after each valid step of a verify row, a fill elsewhere.
Steps(b, At(_, _, _), fill) ==
    [i \in Rows(b.fb) |-> [j \in Columns(b.fb) |->
        IF j < Length(b.fb, i) THEN At(b, i, j + 1) ELSE fill]]

(***************************************************************************)
(* _prepare_ple_batch.                                                     *)
(***************************************************************************)
Prepare(fb) ==
    /\ WellShaped(fb)
    /\ pc' = "layers"
    /\ LET slot == [i \in Rows(fb) |-> StateIndex(fb, slotOf, i)] IN
       batch' = [fb |-> fb, slot |-> slot,
                 history |-> [i \in Rows(fb) |-> ngram[slot[i]]]]
    /\ UNCHANGED <<poolVars, stepVars, reqVars>>

(***************************************************************************)
(* The scheduler's batches: rows of distinct live requests, each with the  *)
(* next tokens of its text, followed by padding.  The ghost fb.real is the *)
(* number of rows that are not padding.                                    *)
(***************************************************************************)
Boundary(n) == (n \div Interval) * Interval

RowAt(start, n, p) ==
    CHOOSE i \in 0 .. n - 1 : start[i] <= p /\ p < start[i + 1]

PadTo(reqs, n, m) == [i \in 0 .. m - 1 |-> IF i < n THEN reqs[i] ELSE PadRow]

Distinct(reqs, n) == \A i, j \in 0 .. n - 1 : reqs[i] = reqs[j] => i = j

ExtendBatch(n, padding, reqs, lens, start, cpuLens, counted) ==
    LET from(i) == done[reqs[i]]
        reach(i) == from(i) + lens[i]
        row(p) == RowAt(start, n, p)
    IN [current |-> "extend", original |-> "none", fused |-> FALSE,
        seqs |-> n, real |-> n, reqs |-> reqs, lens |-> lens, start |-> start,
        gpuLens |-> TRUE, cpuLens |-> cpuLens, draft |-> DraftTokens,
        physical |-> start[n] + padding,
        nonPadded |-> IF counted THEN start[n] ELSE NoCount,
        tokens |-> [p \in 0 .. start[n] + padding - 1 |->
            IF p < start[n]
            THEN text[reqs[row(p)]][from(row(p)) + p - start[row(p)] + 1]
            ELSE Eos],
        loc |-> [p \in 0 .. start[n] + padding - 1 |-> p < start[n]],
        tracking |-> TRUE,
        mask |-> [i \in 0 .. n - 1 |-> Boundary(reach(i)) > from(i)],
        dst |-> [i \in 0 .. n - 1 |-> trackOf[reqs[i]]],
        aligned |-> [i \in 0 .. n - 1 |-> Boundary(reach(i)) - from(i)]]

PrepareExtend ==
    \E n \in 1 .. Cardinality(Live), padding \in 0 .. MaxPadding :
    \E reqs \in [0 .. n - 1 -> Live], lens \in [0 .. n - 1 -> 0 .. MaxChunk] :
    \E start \in [0 .. n -> 0 .. n * MaxChunk] :
    \E cpuLens, counted \in BOOLEAN :
        /\ padding = 0 => counted
        /\ IsCumulativeSum(start, lens, n)
        /\ Distinct(reqs, n)
        /\ \A i \in 0 .. n - 1 : done[reqs[i]] + lens[i] <= MaxLen
        /\ Prepare(ExtendBatch(n, padding, reqs, lens, start, cpuLens, counted))

DecodeBatch(n, padding, reqs, fused, counted) ==
    LET rows == n + padding IN
    [current |-> "decode", original |-> "none", fused |-> fused,
     seqs |-> rows, real |-> n, reqs |-> PadTo(reqs, n, rows),
     gpuLens |-> FALSE, cpuLens |-> FALSE, draft |-> DraftTokens,
     physical |-> rows,
     nonPadded |-> IF counted THEN n ELSE NoCount,
     tokens |-> [i \in 0 .. rows - 1 |->
        IF i < n THEN text[reqs[i]][done[reqs[i]] + 1] ELSE Eos],
     loc |-> [i \in 0 .. rows - 1 |-> i < n],
     tracking |-> TRUE,
     mask |-> [i \in 0 .. rows - 1 |->
        i < n /\ (done[reqs[i]] + 1) % Interval = 0],
     dst |-> [i \in 0 .. rows - 1 |->
        IF i < n THEN trackOf[reqs[i]] ELSE Reserved]]

PrepareDecode ==
    \E n \in 1 .. Cardinality(Live), padding \in 0 .. MaxPadding :
    \E reqs \in [0 .. n - 1 -> Live] :
    \E fused, counted \in BOOLEAN :
        /\ padding = 0 => counted
        /\ Distinct(reqs, n)
        /\ \A i \in 0 .. n - 1 : done[reqs[i]] + 1 <= MaxLen
        /\ Prepare(DecodeBatch(n, padding, reqs, fused, counted))

\* Row i drafts `good[i]` tokens of the text, then tokens the target rejects.
\* `rewritten` is the DP rewrite of verify as EXTEND, whose lengths are
\* synthetic; a short row (eager only) has a length below its stride.
VerifyBatch(n, padding, reqs, good, short, rewritten, gpuLens, counted, padLen) ==
    LET rows == n + padding
        real(p) == p < n * DraftTokens
        row(p) == p \div DraftTokens
        offset(p) == p % DraftTokens
    IN [current |-> IF rewritten THEN "extend" ELSE "verify",
        original |-> IF rewritten THEN "verify" ELSE "none",
        fused |-> FALSE,
        seqs |-> rows, real |-> n, reqs |-> PadTo(reqs, n, rows),
        lens |-> [i \in 0 .. rows - 1 |->
            IF rewritten THEN 1
            ELSE IF i < n THEN short[i]
            ELSE IF padLen THEN DraftTokens ELSE 0],
        gpuLens |-> gpuLens, cpuLens |-> FALSE, draft |-> DraftTokens,
        physical |-> rows * DraftTokens,
        nonPadded |-> IF counted THEN n * DraftTokens ELSE NoCount,
        tokens |-> [p \in 0 .. rows * DraftTokens - 1 |->
            IF ~real(p) THEN Eos
            ELSE IF offset(p) < good[row(p)]
            THEN text[reqs[row(p)]][done[reqs[row(p)]] + offset(p) + 1]
            ELSE Junk],
        loc |-> [p \in 0 .. rows * DraftTokens - 1 |->
            real(p) /\ offset(p) < short[row(p)]],
        good |-> good]

PrepareVerify ==
    \E n \in 1 .. Cardinality(Live), padding \in 0 .. MaxPadding :
    \E reqs \in [0 .. n - 1 -> Live] :
    \E good, short \in [0 .. n - 1 -> 1 .. DraftTokens] :
    \E rewritten, gpuLens, counted, padLen \in BOOLEAN :
        /\ padding = 0 => counted
        /\ counted \/ rewritten \/ ~gpuLens => padLen
        /\ rewritten => gpuLens
        /\ Distinct(reqs, n)
        /\ \A i \in 0 .. n - 1 :
             /\ done[reqs[i]] + good[i] <= MaxLen
             /\ good[i] <= short[i]
             /\ (gpuLens /\ ~rewritten) \/ short[i] = DraftTokens
        /\ Prepare(VerifyBatch(n, padding, reqs, good, short, rewritten, gpuLens,
                               counted, padLen))

(***************************************************************************)
(* _short_conv: the layer's convolution over [state | tokens], and the     *)
(* state it leaves.  With no processed token it returns before the pool.   *)
(***************************************************************************)
ShortConv ==
    /\ pc = "layers"
    /\ pc' = "commit"
    /\ IF ProcessedTokens(batch.fb) = 0
       THEN UNCHANGED <<conv, convSteps>>
       ELSE IF IsVerify(batch.fb)
       THEN /\ convSteps' = Steps(batch, ConvAt, [k \in 0 .. ConvLen - 1 |-> Zero])
            /\ UNCHANGED conv
       ELSE /\ conv' \in Advance(conv, batch, ConvAt)
            /\ UNCHANGED convSteps
    /\ UNCHANGED <<ngram, ngramSteps, batch, reqVars>>

RealRows(fb) == {i \in Rows(fb) : i < fb.real}

\* The requests' ghost progress when a forward that is not a verify commits.
Progress(fb) ==
    LET rowOf(r) == {i \in RealRows(fb) : fb.reqs[i] = r}
        row(r) == CHOOSE i \in rowOf(r) : TRUE
        reach(r) == done[r] + Length(fb, row(r))
    IN /\ done' = [r \in Reqs |-> IF rowOf(r) # {} THEN reach(r) ELSE done[r]]
       /\ tracked' = [r \in Reqs |->
            IF rowOf(r) # {} /\ Boundary(reach(r)) > done[r]
            THEN Boundary(reach(r)) ELSE tracked[r]]

(***************************************************************************)
(* _commit_ple_batch.                                                      *)
(***************************************************************************)
Commit ==
    /\ pc = "commit"
    /\ IF ProcessedTokens(batch.fb) = 0
       THEN /\ pc' = "idle" /\ batch' = NoBatch
            /\ UNCHANGED <<ngram, ngramSteps, done, tracked>>
       ELSE IF IsVerify(batch.fb)
       THEN /\ pc' = "verified"
            /\ ngramSteps' = Steps(batch, NgramAt, [k \in 0 .. ContextLen - 1 |-> Eos])
            /\ UNCHANGED <<ngram, batch, done, tracked>>
       ELSE /\ pc' = "idle" /\ batch' = NoBatch
            /\ ngram' \in Advance(ngram, batch, NgramAt)
            /\ Progress(batch.fb)
            /\ UNCHANGED ngramSteps
    /\ UNCHANGED <<conv, convSteps, slotOf, trackOf, text, snap>>

(***************************************************************************)
(* Outside src/: the server installs the candidate state of the tokens it  *)
(* accepted, allocates and frees slots, and caches boundary snapshots.     *)
(***************************************************************************)
Accept ==
    /\ pc = "verified"
    /\ LET fb == batch.fb
           rowOf(s) == {i \in RealRows(fb) : slotOf[fb.reqs[i]] = s}
           row(s) == CHOOSE i \in rowOf(s) : TRUE
       IN \E n \in [RealRows(fb) -> 1 .. DraftTokens] :
          /\ \A i \in RealRows(fb) : n[i] <= fb.good[i]
          /\ ngram' = [s \in Slots |-> IF rowOf(s) # {}
                THEN ngramSteps[row(s)][n[row(s)] - 1] ELSE ngram[s]]
          /\ conv' = [s \in Slots |-> IF rowOf(s) # {}
                THEN convSteps[row(s)][n[row(s)] - 1] ELSE conv[s]]
          /\ done' = [r \in Reqs |-> IF \E i \in RealRows(fb) : fb.reqs[i] = r
                THEN done[r] + n[row(slotOf[r])] ELSE done[r]]
    /\ pc' = "idle" /\ batch' = NoBatch
    /\ ngramSteps' = <<>> /\ convSteps' = <<>>
    /\ UNCHANGED <<slotOf, trackOf, text, tracked, snap>>

\* A request starts with blank slots, or with a cached prefix of its text.
Start(r, t, n, history, state) ==
    /\ pc = "idle"
    /\ slotOf[r] = Reserved
    /\ \E working, track \in Free :
         /\ working # track
         /\ slotOf' = [slotOf EXCEPT ![r] = working]
         /\ trackOf' = [trackOf EXCEPT ![r] = track]
         /\ ngram' = [ngram EXCEPT ![working] = history]
         /\ conv' = [conv EXCEPT ![working] = state]
    /\ text' = [text EXCEPT ![r] = t]
    /\ done' = [done EXCEPT ![r] = n]
    /\ UNCHANGED <<pc, stepVars, batch, tracked, snap>>

Admit(r, t) ==
    Start(r, t, 0, NgramOf(t, 0), ConvOf(t, 0))

AdmitCached(r, t, s) ==
    /\ s \in Cached
    /\ \A i \in 1 .. snap[s][2] : t[i] = snap[s][1][i]
    /\ Start(r, t, snap[s][2], ngram[s], conv[s])

\* cache_unfinished_req: the track slot becomes a snapshot of the radix cache.
Cache(r) ==
    /\ pc = "idle"
    /\ tracked[r] # 0
    /\ snap' = [snap EXCEPT ![trackOf[r]] = <<text[r], tracked[r]>>]
    /\ \E s \in Free : trackOf' = [trackOf EXCEPT ![r] = s]
    /\ tracked' = [tracked EXCEPT ![r] = 0]
    /\ UNCHANGED <<pc, poolVars, stepVars, batch, slotOf, text, done>>

AnyText == CHOOSE t \in Texts : TRUE

\* What was in these slots is no longer anybody's.
Abandon(slots) ==
    /\ ngram' = [s \in Slots |-> IF s \in slots THEN Leftover(ContextLen) ELSE ngram[s]]
    /\ conv' = [s \in Slots |-> IF s \in slots THEN Leftover(ConvLen) ELSE conv[s]]

\* The slots of a finished request are not cleared.
Finish(r) ==
    /\ pc = "idle"
    /\ r \in Live
    /\ slotOf' = [slotOf EXCEPT ![r] = Reserved]
    /\ trackOf' = [trackOf EXCEPT ![r] = Reserved]
    /\ text' = [text EXCEPT ![r] = AnyText]
    /\ done' = [done EXCEPT ![r] = 0]
    /\ tracked' = [tracked EXCEPT ![r] = 0]
    /\ Abandon({slotOf[r], trackOf[r]})
    /\ UNCHANGED <<pc, stepVars, batch, snap>>

Evict(s) ==
    /\ pc = "idle"
    /\ s \in Cached
    /\ snap' = [snap EXCEPT ![s] = <<AnyText, 0>>]
    /\ Abandon({s})
    /\ UNCHANGED <<pc, stepVars, batch, slotOf, trackOf, text, done, tracked>>

Init ==
    /\ pc = "idle"
    /\ ngram = [s \in Slots |-> Leftover(ContextLen)]
    /\ conv = [s \in Slots |-> Leftover(ConvLen)]
    /\ ngramSteps = <<>> /\ convSteps = <<>>
    /\ batch = NoBatch
    /\ slotOf = [r \in Reqs |-> Reserved]
    /\ trackOf = [r \in Reqs |-> Reserved]
    /\ text = [r \in Reqs |-> AnyText]
    /\ done = [r \in Reqs |-> 0]
    /\ tracked = [r \in Reqs |-> 0]
    /\ snap = [s \in Slots |-> <<AnyText, 0>>]

Forward ==
    \/ pc = "idle" /\ (PrepareExtend \/ PrepareDecode \/ PrepareVerify)
    \/ ShortConv
    \/ Commit

Server ==
    \/ Accept
    \/ \E r \in Reqs :
        \/ \E t \in Texts : Admit(r, t)
        \/ \E t \in Texts, s \in Cached : AdmitCached(r, t, s)
        \/ Cache(r)
        \/ Finish(r)
    \/ \E s \in Slots : Evict(s)

Next == Forward \/ Server

Spec == Init /\ [][Next]_vars
-----------------------------------------------------------------------------
TypeOK ==
    /\ pc \in {"idle", "layers", "commit", "verified"}
    /\ ngram \in [Slots -> Context]
    /\ conv \in [Slots -> ConvState]
    /\ slotOf \in [Reqs -> Slots]
    /\ trackOf \in [Reqs -> Slots]
    /\ text \in [Reqs -> Texts]
    /\ done \in [Reqs -> 0 .. MaxLen]
    /\ tracked \in [Reqs -> 0 .. MaxLen]
    /\ snap \in [Slots -> Texts \X (0 .. MaxLen)]

\* Between forwards, the two states of every live request are those of the
\* text it has consumed, whatever mixture of chunked prefill, decode, verify
\* and slot reuse led there.
StateIsOfConsumedText ==
    pc = "idle" => \A r \in Live :
        /\ ngram[slotOf[r]] = NgramOf(text[r], done[r])
        /\ conv[slotOf[r]] = ConvOf(text[r], done[r])

\* A slot the radix cache hands to later requests holds the state of exactly
\* the prefix it is filed under: never the track slot's previous content, nor
\* the state of the whole chunk.
SnapshotIsOfItsPrefix ==
    \A s \in Cached :
        /\ ngram[s] = NgramOf(snap[s][1], snap[s][2])
        /\ conv[s] = ConvOf(snap[s][1], snap[s][2])

\* The history a layer hashes for a token is that token's predecessors in its
\* own request, across the seam between stored history and this forward.
LayerReadsTrueHistory ==
    pc \in {"layers", "commit"} =>
        \A i \in RealRows(batch.fb) : Length(batch.fb, i) > 0 =>
            LET r == batch.fb.reqs[i]
                known == IF IsVerify(batch.fb) THEN batch.fb.good[i]
                         ELSE Length(batch.fb, i)
            IN \A n \in 0 .. known :
                NgramAt(batch, i, n) = NgramOf(text[r], done[r] + n)

\* A forward changes no slot but those of the rows that advance a request, the
\* track slots of those requests and the reserved slot: padding rows name a
\* request row that may be live and must leave its state alone.
OwnSlots(fb) ==
    {Reserved} \union {slotOf[fb.reqs[i]] : i \in RealRows(fb)}
               \union {trackOf[fb.reqs[i]] : i \in RealRows(fb)}

ForwardTouchesOnlyItsSlots ==
    [][(pc = "layers" \/ pc = "commit") =>
          \A s \in Slots \ OwnSlots(batch.fb) :
              ngram'[s] = ngram[s] /\ conv'[s] = conv[s]]_vars
=============================================================================
