---------------------------- MODULE QsaCompression ----------------------------
(***************************************************************************)
(* The compressed keys of the sparse attention's indexer.  A block of      *)
(* Ratio tokens is compressed when its last token arrives.  In a prefill   *)
(* its tokens are all in the forward; in decode and verification they come *)
(* one or a few at a time, and wait in the request's pending ring, where   *)
(* position p lies at p % Stride.  A verification stores a whole window of *)
(* draft tokens of which only a prefix will be kept.                       *)
(*                                                                         *)
(* A cell is a token as the ring and the compressed keys know it: its      *)
(* position and the request it was computed for; 0 is a rejected draft.    *)
(* The ring's layout, the page allocator and the radix tree are not part   *)
(* of this repository and are modelled from how it uses them.  The ring    *)
(* takes what the batch's real rows store.                                 *)
(***************************************************************************)
EXTENDS QsaWritePlan

CONSTANTS
    Req,            \* rows of the request pool
    Page,           \* tokens of a KV page
    Pages,          \* KV pages, next to the reserved page 0
    RingWindow,     \* SGLANG_QSA_RING_WINDOW, 0 when unset
    DraftTokens,    \* draft_token_num
    StoreFirst,     \* whether a forward stores all its rows before it compresses any block
    MaxPadding,     \* bound: padding rows of a batch
    MaxLen,         \* bound: tokens of a request, drafts included
    MaxRequests     \* bound: requests served

\* The page is a multiple of the ratio: a block never spans two pages.  The request
\* pool is finite.
ASSUME PageAssumption ==
    /\ IsFiniteSet(Req)
    /\ Page \in Nat \ {0} /\ Page % Ratio = 0
    /\ Pages \in Nat /\ RingWindow \in Nat /\ DraftTokens \in Nat \ {0}
    /\ StoreFirst \in BOOLEAN
    /\ MaxPadding \in Nat /\ MaxLen \in Nat /\ MaxRequests \in Nat

Stride_NotWidened == Ratio

\* The ring's width; a window that is not whole blocks is ignored.
Stride == IF RingWindow >= Ratio /\ RingWindow % Ratio = 0 THEN RingWindow ELSE Ratio

\* The widest verification the backend accepts.
DraftLimit == IF Stride > Ratio THEN Stride - Ratio ELSE Ratio

Junk == <<0, 0>>
Cells == (0 .. MaxLen - 1) \X (0 .. MaxRequests)
Offsets == 0 .. Ratio - 1
Slots == 0 .. ((Pages + 1) * Page) \div Ratio - 1

VARIABLES
    served,     \* requests admitted so far
    phase,      \* of each request row: "free", "prefill" or "decode"
    id,         \* the request it serves
    text,       \* whose computation produced each of its tokens
    pages,      \* its KV pages
    ring,       \* its pending ring
    comp,       \* the compressed keys: slot -> its block's cells
    tree        \* the radix tree: pages and the text up to their end

qsaVars == <<served, phase, id, text, pages, ring, comp, tree>>

PagesOf(r) == {pages[r][i] : i \in DOMAIN pages[r]}
TreePages == {n.page : n \in tree}
Free == (1 .. Pages) \ (TreePages \union UNION {PagesOf(r) : r \in Req})

\* A request's row of req_to_token.
Table(pg) == [i \in 1 .. Len(pg) * Page |-> pg[(i - 1) \div Page + 1] * Page + ((i - 1) % Page)]

\* The cells of a block of text t.
BlockOf(t, b) == [j \in Offsets |-> <<b * Ratio + j, t[b * Ratio + j + 1]>>]

Concat(seqs) ==
    LET cat[i \in 0 .. Len(seqs)] == IF i = 0 THEN <<>> ELSE cat[i - 1] \o seqs[i]
    IN  cat[Len(seqs)]

\* The orders in which the scheduler can list some of the request rows, each once.
Orders(members) ==
    {b \in [1 .. Cardinality(members) -> members] : \A i, j \in DOMAIN b : i < j => b[i] # b[j]}
Batches(rs) == UNION {Orders(members) : members \in (SUBSET rs) \ {{}}}

InPhase(p) == {r \in Req : phase[r] = p}

\* One write per slot; two entries for one slot would leave neither.
Written(plan, blocks) ==
    [s \in Slots |->
        LET writers == {e \in DOMAIN plan : s # 0 /\ plan[e].loc = s}
        IN  IF writers = {} THEN comp[s]
            ELSE IF Cardinality(writers) > 1 THEN [j \in Offsets |-> Junk]
            ELSE blocks[CHOOSE e \in writers : TRUE]]

\* What the radix tree holds once the full pages of text t are in it.
Published(pg, t) ==
    {[page |-> pg[i], key |-> SubSeq(t, 1, i * Page)] : i \in 1 .. Len(t) \div Page}

-----------------------------------------------------------------------------
(* Extend: a chunk of each prompt of the batch.  A chunk that is not the   *)
(* last of its prompt ends on a page; what is left of the last block goes  *)
(* to the ring.                                                            *)
-----------------------------------------------------------------------------

Extend(batch, chunks, last) ==
    LET rows == DOMAIN batch
        grown == [i \in rows |-> text[batch[i]] \o [k \in 1 .. chunks[i] |-> id[batch[i]]]]
        lengths == [i \in rows |-> Len(grown[i])]
        plan == ExtendPlan([i \in rows |-> Table(pages[batch[i]])], lengths, chunks)
        packed == Concat([i \in rows |->
                      [k \in 1 .. chunks[i] |->
                          <<Len(text[batch[i]]) + k - 1, id[batch[i]]>>]])
        RowOf(r) == CHOOSE i \in rows : batch[i] = r
        In(r) == \E i \in rows : batch[i] = r
        Left(i) == {p \in Len(text[batch[i]]) .. lengths[i] - 1 : p >= (lengths[i] \div Ratio) * Ratio}
    IN  /\ \A i \in rows :
            /\ Len(text[batch[i]]) % Ratio = 0
            /\ Len(text[batch[i]]) + chunks[i] <= Len(pages[batch[i]]) * Page
            /\ last[i] \/ (Len(text[batch[i]]) + chunks[i]) % Page = 0
        /\ comp' = Written(plan, [e \in DOMAIN plan |->
                       [j \in Offsets |->
                           packed[MemberRow(plan[e], lengths, chunks) + j + 1]]])
        /\ ring' = [r \in Req |-> [x \in 0 .. Stride - 1 |->
                       IF In(r) /\ \E p \in Left(RowOf(r)) : p % Stride = x
                       THEN <<CHOOSE p \in Left(RowOf(r)) : p % Stride = x, id[r]>>
                       ELSE ring[r][x]]]
        /\ text' = [r \in Req |-> IF In(r) THEN grown[RowOf(r)] ELSE text[r]]
        /\ phase' = [r \in Req |-> IF In(r) /\ last[RowOf(r)] THEN "decode" ELSE phase[r]]
        /\ tree' = tree \union UNION {Published(pages[batch[i]], grown[i]) : i \in rows}
        /\ UNCHANGED <<served, id, pages>>

-----------------------------------------------------------------------------
(* Decode and verification: `width` rows per request, of which the first   *)
(* kept[i] stay.  Padding rows have length 1 and the first request's row.  *)
-----------------------------------------------------------------------------

PagedRows(batch, width, kept) ==
    Concat([i \in DOMAIN batch |-> [d \in 1 .. width |->
        LET p == Len(text[batch[i]]) + d - 1
        IN  [req |-> batch[i], pos |-> p,
             cell |-> <<p, IF d <= kept[i] THEN id[batch[i]] ELSE 0>>]]])

PaddingRow_RealLength(batch) ==
    [req |-> batch[1], pos |-> Len(text[batch[1]]) - 1, cell |-> Junk]

PaddingRow(batch) == [req |-> batch[1], pos |-> 0, cell |-> Junk]

\* A ring's cell x once the first n rows are stored.
StoredCell(rows, n, r, x) ==
    LET here == {k \in 1 .. n : rows[k].req = r /\ rows[k].pos % Stride = x}
    IN  IF here = {} THEN ring[r][x]
        ELSE rows[CHOOSE k \in here : \A l \in here : l <= k].cell

PagedForward(batch, width, kept, padding, graph) ==
    LET real == PagedRows(batch, width, kept)
        rows == real \o [k \in 1 .. padding |-> PaddingRow(batch)]
        tables == [k \in DOMAIN rows |-> Table(pages[rows[k].req])]
        lengths == [k \in DOMAIN rows |-> rows[k].pos + 1]
        plan == IF graph THEN ReplayPlan(tables, lengths) ELSE PagedPlan(tables, lengths)
        Stored(k) == IF StoreFirst \/ k > Len(real) THEN Len(real) ELSE k
        Members(entry) ==
            [j \in Offsets |->
                StoredCell(real, Stored(entry.row), rows[entry.row].req,
                           (entry.block * Ratio + j) % Stride)]
        RowOf(r) == CHOOSE i \in DOMAIN batch : batch[i] = r
        In(r) == \E i \in DOMAIN batch : batch[i] = r
    IN  /\ \A i \in DOMAIN batch : Len(text[batch[i]]) + width <= Len(pages[batch[i]]) * Page
        /\ comp' = Written(plan, [e \in DOMAIN plan |-> Members(plan[e])])
        /\ ring' = [r \in Req |-> [x \in 0 .. Stride - 1 |->
                       StoredCell(real, Len(real), r, x)]]
        /\ text' = [r \in Req |->
                       IF In(r) THEN text[r] \o [k \in 1 .. kept[RowOf(r)] |-> id[r]]
                       ELSE text[r]]
        /\ UNCHANGED <<served, phase, id, pages, tree>>

Decode(batch, padding, graph) ==
    PagedForward(batch, 1, [i \in DOMAIN batch |-> 1], padding, graph)

\* The server keeps the longest prefix of the drafts it agrees with, at least the first.
Verify(batch, kept, padding, graph) ==
    /\ DraftTokens <= DraftLimit
    /\ PagedForward(batch, DraftTokens, kept, padding, graph)

-----------------------------------------------------------------------------
(* The scheduler, the page allocator and the radix tree.                   *)
-----------------------------------------------------------------------------

\* A request is admitted with the pages of the longest prefix it shares, if any.
Start(r) ==
    /\ phase[r] = "free" /\ served < MaxRequests
    /\ served' = served + 1
    /\ phase' = [phase EXCEPT ![r] = "prefill"]
    /\ id' = [id EXCEPT ![r] = served + 1]
    /\ \E key \in {<<>>} \union {n.key : n \in tree} :
        /\ text' = [text EXCEPT ![r] = key]
        /\ pages' = [pages EXCEPT ![r] = [i \in 1 .. Len(key) \div Page |->
                        (CHOOSE n \in tree : n.key = SubSeq(key, 1, i * Page)).page]]
    /\ UNCHANGED <<ring, comp, tree>>

\* Pages differ only in their number: the lowest free one is as good as any.
Allocate(r) ==
    /\ Free # {} /\ Len(pages[r]) * Page < MaxLen
    /\ \/ phase[r] = "prefill"
       \/ phase[r] = "decode" /\ Len(pages[r]) * Page < Len(text[r]) + DraftTokens
    /\ pages' = [pages EXCEPT ![r] = Append(@, CHOOSE g \in Free : \A h \in Free : g <= h)]
    /\ UNCHANGED <<served, phase, id, text, ring, comp, tree>>

\* The full pages of a finished request stay in the tree, the others are free.
Finish(r) ==
    /\ phase[r] = "decode"
    /\ phase' = [phase EXCEPT ![r] = "free"]
    /\ tree' = tree \union Published(pages[r], text[r])
    /\ text' = [text EXCEPT ![r] = <<>>]
    /\ pages' = [pages EXCEPT ![r] = <<>>]
    /\ UNCHANGED <<served, id, ring, comp>>

\* A page no request uses and no longer prefix continues leaves the tree.
Evict(n) ==
    /\ \A r \in Req : n.page \notin PagesOf(r)
    /\ \A m \in tree : Len(m.key) > Len(n.key) => SubSeq(m.key, 1, Len(n.key)) # n.key
    /\ tree' = tree \ {n}
    /\ UNCHANGED <<served, phase, id, text, pages, ring, comp>>

-----------------------------------------------------------------------------

QsaInit ==
    /\ served = 0
    /\ phase = [r \in Req |-> "free"]
    /\ id = [r \in Req |-> 0]
    /\ text = [r \in Req |-> <<>>]
    /\ pages = [r \in Req |-> <<>>]
    /\ ring = [r \in Req |-> [x \in 0 .. Stride - 1 |-> Junk]]
    /\ comp = [s \in Slots |-> [j \in Offsets |-> Junk]]
    /\ tree = {}

QsaNext ==
    \/ \E n \in tree : Evict(n)
    \/ \E r \in Req : Start(r) \/ Allocate(r) \/ Finish(r)
    \/ \E batch \in Batches(InPhase("prefill")) :
        \E chunks \in [DOMAIN batch -> 1 .. MaxLen], last \in [DOMAIN batch -> BOOLEAN] :
            Extend(batch, chunks, last)
    \/ \E batch \in Batches(InPhase("decode")), padding \in 0 .. MaxPadding :
        \E graph \in BOOLEAN :
            \/ Decode(batch, padding, graph)
            \/ \E kept \in [DOMAIN batch -> 1 .. DraftTokens] :
                Verify(batch, kept, padding, graph)

QsaSpec == QsaInit /\ [][QsaNext]_qsaVars

(* Properties.                                                             *)

TypeOK ==
    /\ served \in 0 .. MaxRequests
    /\ phase \in [Req -> {"free", "prefill", "decode"}]
    /\ id \in [Req -> 0 .. MaxRequests]
    /\ \A r \in Req : /\ text[r] \in Seq(1 .. MaxRequests)
                      /\ pages[r] \in Seq(1 .. Pages)
                      /\ Len(text[r]) <= Len(pages[r]) * Page
    /\ ring \in [Req -> [0 .. Stride - 1 -> Cells]]
    /\ comp \in [Slots -> [Offsets -> Cells]]
    /\ tree \subseteq [page : 1 .. Pages, key : Seq(1 .. MaxRequests)]

(***************************************************************************)
(* Every block a request can attend to is the compression of its own       *)
(* tokens: none of a rejected draft, of another request or of an earlier   *)
(* owner of the page or of the ring (_qsa_build_write_plan and the         *)
(* compressed lengths of the decode view).                                 *)
(***************************************************************************)
VisibleBlocksAreOwn ==
    \A r \in Req : \A b \in 0 .. Len(text[r]) \div Ratio - 1 :
        comp[Table(pages[r])[b * Ratio + 1] \div Ratio] = BlockOf(text[r], b)

(***************************************************************************)
(* The tokens of a request's unfinished block are in its ring, whatever    *)
(* was verified and rejected since they were stored: what the width check  *)
(* of _require_chain_speculation is for.                                   *)
(***************************************************************************)
PendingTailIsIntact ==
    \A r \in InPhase("decode") :
        \A p \in (Len(text[r]) \div Ratio) * Ratio .. Len(text[r]) - 1 :
            ring[r][p % Stride] = <<p, text[r][p + 1]>>

(***************************************************************************)
(* The blocks of a page in the radix tree are never written again, not     *)
(* even by the request that made the page and is still decoding: a chunk   *)
(* starts on a block and padding rows write only slot 0.                   *)
(***************************************************************************)
SharedBlocksStay ==
    [][\A n \in tree \intersect tree' :
        \A s \in {s \in Slots : (s * Ratio) \div Page = n.page} : comp'[s] = comp[s]]_qsaVars

=============================================================================
