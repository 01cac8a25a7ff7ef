----------------------------- MODULE PleLookahead -----------------------------
(***************************************************************************)
(* The PLE layer's lookahead: while the layer before it runs, the rows it  *)
(* will need are gathered on a second stream into a buffer that is kept    *)
(* from forward to forward.  The host only enqueues and may run ahead of   *)
(* the device by whole forwards.  wait_stream makes one stream wait for    *)
(* what is enqueued on the other so far.  The ids the gather reads live in *)
(* memory that the caching allocator may hand out as soon as the host      *)
(* drops them, unless they were recorded on the stream that reads them.    *)
(***************************************************************************)
EXTENDS Naturals, Sequences

CONSTANTS
    MaxForwards,    \* bound: forwards
    Sizes           \* bound: lookup tokens of a forward, 0 for none

ASSUME LookaheadAssumption ==
    /\ MaxForwards \in Nat \ {0}
    /\ Sizes \subseteq Nat /\ Sizes # {}

Forwards == 1 .. MaxForwards
Nobody == 0         \* no buffer, no block, rows of nobody
NoState == [there |-> FALSE, buffer |-> Nobody]

VARIABLES
    host,       \* what the host does next: "start", "layer", "ple", "end", "raised"
    forward,    \* the forward it is in
    state,      \* _prefetch_state
    eager,      \* _eager_prefetch_buffer: the forward that allocated it, its rows
    dropped,    \* buffers replaced by larger ones: their memory is free
    main, side, \* the streams: operations enqueued and not run
    mainRan, sideRan,   \* operations run
    ids,        \* whose ids the memory of a forward's ids holds
    rows,       \* whose rows a buffer holds
    used        \* ghost: <<forward, whose rows its PLE layer used>>

streamVars == <<host, forward, state, eager, dropped, main, side, mainRan, sideRan, ids, rows, used>>
deviceVars == <<mainRan, sideRan, ids, rows, used>>

\* An operation waits until the other stream has run `after` operations.
Op(kind, buffer, after) ==
    [kind |-> kind, f |-> forward, buffer |-> buffer, after |-> after, overIds |-> Nobody, overRows |-> Nobody]

AllOfMain == mainRan + Len(main')
AllOfSide == sideRan + Len(side')

\* _get_prefetch_buffer, outside of graph capture.
Buffer(size) ==
    IF eager.by = Nobody \/ eager.rows < size THEN [by |-> forward, rows |-> size]
    ELSE eager

Enqueue_NoWait(size) ==
    /\ main' = Append(main, Op("ids", Nobody, 0))
    /\ side' = Append(side, Op("gather", eager'.by, 0))

\* The ids are computed on the current stream, the gather put behind them.
Enqueue(size) ==
    /\ main' = Append(main, Op("ids", Nobody, 0))
    /\ side' = Append(side, Op("gather", eager'.by, AllOfMain))

\* start_prefetch, called before the layer that precedes the PLE layer.
StartPrefetch(size) ==
    /\ host = "start"
    /\ IF state.there
       THEN host' = "raised" /\ UNCHANGED <<state, eager, dropped, main, side>>
       ELSE /\ host' = "layer"
            /\ IF size = 0 THEN UNCHANGED <<state, eager, dropped, main, side>>
               ELSE /\ eager' = Buffer(size)
                    /\ dropped' = dropped \union ({eager.by} \ {eager'.by, Nobody})
                    /\ Enqueue(size)
                    /\ state' = [there |-> TRUE, buffer |-> eager'.by]
    /\ UNCHANGED <<forward, deviceVars>>

\* record_stream: memory of dropped ids is handed out once no gather needs it.
Reusable == {f \in 1 .. forward : \A i \in DOMAIN side : side[i].f # f}

\* The layer in between; its tensors may be given the memory of dropped ids and of
\* replaced buffers.
Layer ==
    /\ host = "layer" /\ host' = "ple"
    /\ \E i \in Reusable \union {Nobody}, b \in dropped \union {Nobody} :
         main' = Append(main, [Op("layer", Nobody, 0) EXCEPT !.overIds = i, !.overRows = b])
    /\ UNCHANGED <<forward, state, eager, dropped, side, deviceVars>>

Consume_StateKept ==
    /\ UNCHANGED <<side, state>>
    /\ main' = Append(main, Op("use", state.buffer, AllOfSide))

\* _consume_prefetched_embeddings
Consume ==
    /\ UNCHANGED side
    /\ main' = Append(main, Op("use", state.buffer, AllOfSide))
    /\ state' = NoState

\* The PLE layer; without prefetched rows it looks its rows up itself.
PleLayer ==
    /\ host = "ple"
    /\ IF state.there THEN Consume ELSE UNCHANGED <<state, main, side>>
    /\ IF forward = MaxForwards THEN host' = "end" /\ UNCHANGED forward
       ELSE host' = "start" /\ forward' = forward + 1
    /\ UNCHANGED <<eager, dropped, deviceVars>>

Host == (\E size \in Sizes : StartPrefetch(size)) \/ Layer \/ PleLayer

RunMain ==
    /\ main # <<>>
    /\ LET op == Head(main) IN
       /\ op.after <= sideRan
       /\ ids' = IF op.kind = "ids" THEN [ids EXCEPT ![op.f] = op.f]
                 ELSE IF op.overIds # Nobody THEN [ids EXCEPT ![op.overIds] = Nobody]
                 ELSE ids
       /\ rows' = IF op.overRows # Nobody THEN [rows EXCEPT ![op.overRows] = Nobody] ELSE rows
       /\ used' = IF op.kind = "use" THEN used \union {<<op.f, rows[op.buffer]>>} ELSE used
    /\ main' = Tail(main) /\ mainRan' = mainRan + 1
    /\ UNCHANGED <<host, forward, state, eager, dropped, side, sideRan>>

RunSide ==
    /\ side # <<>>
    /\ LET op == Head(side) IN
       /\ op.after <= mainRan
       /\ rows' = [rows EXCEPT ![op.buffer] = ids[op.f]]
    /\ side' = Tail(side) /\ sideRan' = sideRan + 1
    /\ UNCHANGED <<host, forward, state, eager, dropped, main, mainRan, ids, used>>

StreamInit ==
    /\ host = "start" /\ forward = 1
    /\ state = NoState /\ eager = [by |-> Nobody, rows |-> 0] /\ dropped = {}
    /\ main = <<>> /\ side = <<>> /\ mainRan = 0 /\ sideRan = 0
    /\ ids = [f \in Forwards |-> Nobody] /\ rows = [f \in Forwards |-> Nobody]
    /\ used = {}

StreamNext == Host \/ RunMain \/ RunSide

StreamSpec == StreamInit /\ [][StreamNext]_streamVars

\* The host goes on, and each stream runs its next operation once it may.
StreamFairSpec == StreamSpec /\ WF_streamVars(Host) /\ WF_streamVars(RunMain) /\ WF_streamVars(RunSide)
-----------------------------------------------------------------------------
StreamTypeOK ==
    /\ host \in {"start", "layer", "ple", "end", "raised"}
    /\ forward \in Forwards
    /\ state \in [there : BOOLEAN, buffer : Forwards \union {Nobody}]
    /\ eager \in [by : Forwards \union {Nobody}, rows : Sizes \union {0}]
    /\ mainRan \in Nat /\ sideRan \in Nat
    /\ ids \in [Forwards -> Forwards \union {Nobody}]
    /\ rows \in [Forwards -> Forwards \union {Nobody}]
    /\ used \subseteq Forwards \X (Forwards \union {Nobody})

\* A PLE layer uses the rows of its own forward's ids: not what an earlier
\* forward left in the buffer, not what a later one or a layer that was given a
\* replaced buffer's memory put there, and not rows looked up with ids whose memory
\* was given away.
RowsAreItsOwn == \A use \in used : use[2] = use[1]

\* The streams never wait for each other in a circle and no forward is refused
\* because an earlier one left its prefetch unconsumed.
EveryForwardRuns == <>(host = "end" /\ main = <<>> /\ side = <<>>)
=============================================================================
