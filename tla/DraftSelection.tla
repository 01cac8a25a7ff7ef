---------------------------- MODULE DraftSelection ----------------------------
(***************************************************************************)
(* The sparse selection that the draft model's steps share.  The last      *)
(* forward of an iteration, the draft's extend, captures one of its rows   *)
(* per request: the set of keys selected for the last accepted token.  The *)
(* draft steps of the next iteration look the set up and append the        *)
(* positions that came after it.  The host enqueues the forwards and runs  *)
(* ahead of the device; it hands the extend lengths of a replay over       *)
(* through two pinned buffers that it fills in turn.                       *)
(***************************************************************************)
EXTENDS Naturals, Sequences, SequencesExt, FiniteSets

CONSTANTS
    Requests,
    Rows,           \* rows of the request pool; 0 is reserved for padding
    Window,         \* speculative_num_draft_tokens
    NumSteps,       \* speculative_num_steps
    FrontTokens,    \* num_front_tokens: rows of a block before the draft window
    TailWidth,
    HostAhead,      \* forwards enqueued before the host waits for the first
    MaxPrompt,      \* bound: tokens of a prompt
    MaxIterations   \* bound: verifications of a request

ASSUME DraftAssumption ==
    /\ IsFiniteSet(Requests)
    /\ Rows \in Nat \ {0} /\ Window \in Nat \ {0} /\ NumSteps \in Nat \ {0}
    /\ FrontTokens \in 0 .. 1
    /\ TailWidth \in Nat /\ TailWidth >= NumSteps - 1
    /\ HostAhead \in 1 .. 2
    /\ MaxPrompt \in Nat \ {0} /\ MaxIterations \in Nat

VARIABLES
    row,            \* req_pool_indices of a request, 0 when it has none
    prompt,         \* tokens of it that were handed to prefills
    stage,          \* "new", "prefill", "running" or "gone"
    iterations,
    stream,         \* what the device has still to run
    length,         \* device: accepted tokens of a request
    accepted,       \* device: num_accept_tokens of its last verification
    pins,           \* _graph_extend_lens_pin
    pinIdx,         \* _extend_lens_pin_idx
    staged,         \* device: _graph_extend_lens
    layout,         \* device: request and length of each row of the draft extend
    stored          \* device: the captured selection of a pool row

hostVars == <<row, prompt, stage, iterations, pins, pinIdx>>
deviceVars == <<length, accepted, staged, layout, stored>>
draftVars == <<hostVars, deviceVars, stream>>

Block == FrontTokens + Window
Lower(a, b) == IF a < b THEN a ELSE b
Monus(a, b) == IF a > b THEN a - b ELSE 0

\* A selection, like the row it is computed from, is known by its request and
\* the number of tokens it chooses from.
Selection(r, n) == [of |-> r, upto |-> n]
Nothing == Selection("nobody", 1)

CumSum(counts) ==
    LET sum[i \in 0 .. Len(counts)] == IF i = 0 THEN 0 ELSE sum[i - 1] + counts[i]
    IN  sum

PoolRows(batch) == [i \in DOMAIN batch |-> row[batch[i]]]
Running == {r \in Requests : stage[r] = "running"}
Forwards == Cardinality({n \in DOMAIN stream : stream[n].kind \in {"prefill", "extend"}})
-----------------------------------------------------------------------------
(* The host.                                                               *)

\* A prefill of the draft runner: a chunk of each of some requests, those of
\* `done` to the end of their prompt.
Prefill(batch, chunks, done) ==
    LET joining == {i \in DOMAIN batch : stage[batch[i]] = "new"}
        used == {row[r] : r \in Requests}
    IN
    /\ Forwards < HostAhead
    /\ \A i \in DOMAIN batch :
         /\ stage[batch[i]] \in {"new", "prefill"}
         /\ prompt[batch[i]] + chunks[i] <= MaxPrompt
    /\ \E given \in [joining -> (1 .. Rows) \ used] :
         /\ \A i, j \in joining : given[i] = given[j] => i = j
         /\ row' = [r \in Requests |->
              IF \E i \in joining : batch[i] = r
              THEN given[CHOOSE i \in joining : batch[i] = r] ELSE row[r]]
    /\ prompt' = [r \in Requests |->
         IF \E i \in DOMAIN batch : batch[i] = r
         THEN prompt[r] + chunks[CHOOSE i \in DOMAIN batch : batch[i] = r] ELSE prompt[r]]
    /\ stage' = [r \in Requests |->
         IF \E i \in DOMAIN batch : batch[i] = r
         THEN IF r \in done THEN "running" ELSE "prefill" ELSE stage[r]]
    /\ stream' = Append(stream, [kind |-> "prefill", batch |-> batch, chunks |-> chunks,
                                 pool |-> [i \in DOMAIN batch |-> row'[batch[i]]]])
    /\ UNCHANGED <<iterations, pins, pinIdx, deviceVars>>

StageExtendLens_OneHalf(lens) ==
    /\ pins' = [pins EXCEPT ![pinIdx] = [i \in DOMAIN @ |-> IF i \in DOMAIN lens THEN lens[i] ELSE @[i]]]
    /\ UNCHANGED pinIdx

\* _stage_extend_lens: the host's half of it.
StageExtendLens(lens) ==
    /\ pins' = [pins EXCEPT ![pinIdx] = [i \in DOMAIN @ |-> IF i \in DOMAIN lens THEN lens[i] ELSE @[i]]]
    /\ pinIdx' = 1 - pinIdx

\* An iteration over the running requests: draft steps, verification, and the
\* draft's extend, replayed from a graph for `size` requests of which the last
\* are padding, or run eagerly.
Iterate(batch, size, padLen, device) ==
    LET lens == [i \in 1 .. size |-> IF i \in DOMAIN batch THEN Block ELSE padLen]
        Op(kind) == [kind |-> kind, batch |-> batch, pool |-> PoolRows(batch),
                     lens |-> lens, half |-> pinIdx]
    IN
    /\ Forwards < HostAhead
    /\ batch # <<>> /\ {batch[i] : i \in DOMAIN batch} = Running
    /\ \A r \in Running : iterations[r] < MaxIterations
    /\ iterations' = [r \in Requests |-> IF r \in Running THEN iterations[r] + 1 ELSE iterations[r]]
    /\ IF device THEN UNCHANGED <<pins, pinIdx>> ELSE StageExtendLens(lens)
    /\ stream' = stream \o
         (IF device
          THEN <<Op("draft"), Op("verify"), Op("layoutOwn"), Op("extend")>>
          ELSE <<Op("draft"), Op("verify"), Op("copy"), Op("layout"), Op("extend")>>)
    /\ UNCHANGED <<row, prompt, stage, deviceVars>>

\* The host learns from an earlier result that the request is done; a later
\* forward with it may still be under way.
FinishRequest(r) ==
    /\ stage[r] = "running"
    /\ stage' = [stage EXCEPT ![r] = "gone"]
    /\ row' = [row EXCEPT ![r] = 0]
    /\ UNCHANGED <<prompt, iterations, pins, pinIdx, stream, deviceVars>>
-----------------------------------------------------------------------------
(* The device runs the head of the stream.                                 *)

Run(kind) == stream # <<>> /\ Head(stream).kind = kind /\ stream' = Tail(stream)

\* capture_mtp_sparse_indices of a prefill: the rows after which the request
\* changes, and the last one.
RunPrefill ==
    /\ Run("prefill")
    /\ LET op == Head(stream)
           ends == CumSum(op.chunks)
           rows == {x \in (DOMAIN op.batch) \X (1 .. MaxPrompt) : x[2] <= op.chunks[x[1]]}
           At(k) == CHOOSE x \in rows : ends[x[1] - 1] + x[2] = k
           total == ends[Len(op.chunks)]
           isLast == {k \in 1 .. total : k = total \/ op.pool[At(k)[1]] # op.pool[At(k + 1)[1]]}
           RowAt(k) == Selection(op.batch[At(k)[1]], length[op.batch[At(k)[1]]] + At(k)[2])
       IN  /\ stored' = [p \in DOMAIN stored |->
                IF \E k \in isLast : op.pool[At(k)[1]] = p
                THEN RowAt(CHOOSE k \in isLast : op.pool[At(k)[1]] = p) ELSE stored[p]]
           /\ length' = [r \in Requests |->
                IF \E i \in DOMAIN op.batch : op.batch[i] = r
                THEN length[r] + op.chunks[CHOOSE i \in DOMAIN op.batch : op.batch[i] = r]
                ELSE length[r]]
    /\ UNCHANGED <<hostVars, accepted, staged, layout>>

\* The draft steps write nothing that outlives them here.
RunDraft == Run("draft") /\ UNCHANGED <<hostVars, deviceVars>>

\* Between one and all tokens of the window are accepted.
RunVerify ==
    /\ Run("verify")
    /\ LET members == {Head(stream).batch[i] : i \in DOMAIN Head(stream).batch} IN
         \E n \in [members -> 1 .. Window] :
            /\ accepted' = [r \in Requests |-> IF r \in members THEN n[r] ELSE accepted[r]]
            /\ length' = [r \in Requests |-> IF r \in members THEN length[r] + n[r] ELSE length[r]]
    /\ UNCHANGED <<hostVars, staged, layout, stored>>

RunCopy ==
    /\ Run("copy")
    /\ LET op == Head(stream) IN
         staged' = [i \in DOMAIN staged |->
                      IF i \in DOMAIN op.lens THEN pins[op.half][i] ELSE staged[i]]
    /\ UNCHANGED <<hostVars, length, accepted, layout, stored>>

\* The rows of the draft extend: of each request the window and the front
\* tokens before it.  Padded requests have none; rows that are left belong to
\* the first request and have length 1.
RowsOf(op, lens) ==
    LET real == DOMAIN op.batch
        SeqLen(i) == length[op.batch[i]] - accepted[op.batch[i]] + Window
        Prefix(i) == Monus(SeqLen(i), lens[i])
        RowBlock(i) == [j \in 1 .. lens[i] |->
                          Selection(op.batch[i], Lower(Prefix(i) + j, SeqLen(i)))]
        packed == FlattenSeq([i \in real |-> RowBlock(i)])
        capacity == Len(op.lens) * Block
    IN  [k \in 1 .. capacity |->
           IF k <= Len(packed) THEN packed[k] ELSE Selection(op.batch[1], 1)]

RunLayout ==
    /\ \/ Run("layout") /\ layout' = RowsOf(Head(stream), staged)
       \/ Run("layoutOwn") /\ layout' = RowsOf(Head(stream), Head(stream).lens)
    /\ UNCHANGED <<hostVars, length, accepted, staged, stored>>

AnchorRows_AllAccepted(op) ==
    LET ends == CumSum(op.lens) IN [i \in DOMAIN op.batch |-> ends[i]]

\* The row of the last accepted token, in each request's block.
AnchorRows(op) ==
    LET ends == CumSum(op.lens)
        Clamped(k) == IF k < 1 THEN 1 ELSE Lower(k, Len(layout))
    IN  [i \in DOMAIN op.batch |->
           Clamped(FrontTokens + accepted[op.batch[i]] + ends[i] - op.lens[i])]

\* _capture_mtp_sparse_indices_from_extend_lens; padding goes to the trash row,
\* which nobody looks up.
RunExtend ==
    /\ Run("extend")
    /\ LET op == Head(stream)
           kept == {i \in DOMAIN op.batch : op.lens[i] > 0 /\ op.pool[i] > 0}
       IN  stored' = [p \in DOMAIN stored |->
             IF \E i \in kept : op.pool[i] = p
             THEN layout[AnchorRows(op)[CHOOSE i \in kept : op.pool[i] = p]] ELSE stored[p]]
    /\ layout' = <<>>
    /\ UNCHANGED <<hostVars, length, accepted, staged>>
-----------------------------------------------------------------------------
\* QSAMTPSharedSparseIndices.lookup
Lookup(p, position) ==
    [frozen |-> stored[p],
     tail |-> {n \in {stored[p].upto + j : j \in 0 .. Monus(TailWidth, 1)} :
                 TailWidth > 0 /\ n <= position}]

DraftInit ==
    /\ row = [r \in Requests |-> 0] /\ prompt = [r \in Requests |-> 0]
    /\ stage = [r \in Requests |-> "new"] /\ iterations = [r \in Requests |-> 0]
    /\ stream = <<>>
    /\ length = [r \in Requests |-> 0] /\ accepted = [r \in Requests |-> 0]
    /\ pins = [h \in 0 .. 1 |-> [i \in 1 .. Rows |-> 0]] /\ pinIdx = 0
    /\ staged = [i \in 1 .. Rows |-> 0]
    /\ layout = <<>>
    /\ stored = [p \in 1 .. Rows |-> Nothing]

DraftNext ==
    \/ \E batch \in UNION {SetToSeqs(s) : s \in (SUBSET Requests) \ {{}}} :
         \E chunks \in [DOMAIN batch -> 1 .. MaxPrompt],
            done \in SUBSET {batch[i] : i \in DOMAIN batch} : Prefill(batch, chunks, done)
    \/ \E batch \in SetToSeqs(Running), padLen \in {0, Block}, device \in BOOLEAN :
         \E size \in Len(batch) .. Rows : Iterate(batch, size, padLen, device)
    \/ \E r \in Requests : FinishRequest(r)
    \/ RunPrefill \/ RunDraft \/ RunVerify \/ RunCopy \/ RunLayout \/ RunExtend

DraftSpec == DraftInit /\ [][DraftNext]_draftVars
-----------------------------------------------------------------------------
\* Whatever the batches, their order and padding, how many drafts were accepted
\* and which request had the pool row before, a draft step at a position reads a
\* selection among its own request's accepted tokens and, after those it chose
\* from, every position up to its own.
DraftSeesItsPrefix ==
    stream # <<>> /\ Head(stream).kind = "draft" =>
        \A i \in DOMAIN Head(stream).batch, step \in 0 .. NumSteps - 2 :
            LET r == Head(stream).batch[i]
                position == length[r] + step
                keys == Lookup(Head(stream).pool[i], position)
            IN  /\ keys.frozen.of = r
                /\ keys.frozen.upto <= length[r]
                /\ keys.tail = keys.frozen.upto .. position

\* A replay is laid out from the lengths that were staged for it, though the
\* host may have staged the next replay's before the device copied them.
ReplayReadsItsLengths ==
    stream # <<>> /\ Head(stream).kind = "layout" =>
        \A i \in DOMAIN Head(stream).lens : staged[i] = Head(stream).lens[i]
=============================================================================
