----------------------------- MODULE MoeForward -----------------------------
(***************************************************************************)
(* One forward of the mixture of experts: routing is aligned to blocks,    *)
(* the up-GEMM, the activation, the down-GEMM and the combination run one  *)
(* after the other on the stream.  The programs of a GEMM run in any       *)
(* order: a cell that several of them store to keeps the value of any.     *)
(*                                                                         *)
(* A buffer is a function of <<row, column>>.  A cell holds what it was    *)
(* computed from: the token, the expert, the weight row and the routing    *)
(* weights multiplied in; Zero is a stored zero and Empty is memory that   *)
(* torch.empty returned.  A column stands for Unit adjacent channels.      *)
(***************************************************************************)
EXTENDS MoeKernels, Bags

CONSTANTS
    Calls,        \* the calls a forward can make (records, see Call below)
    Tokens,       \* number of tokens
    Experts,      \* number of expert slots of w1 and w2
    PerRank,      \* DeepEP: routed experts of a rank, whose slots end with the shared ones
    SharedRank,   \* DeepEP: the rank whose shared experts are appended
    Inner,        \* columns of the activation (w2.shape[2])
    Hidden,       \* columns of the output (w2.shape[1])
    Unit,         \* channels a column stands for
    QuantGroup,   \* channels of a scale group (block_shape[1])
    BlockM, UpN, DownN, StepK, Group,   \* tiles of the paths that read a config
    Zero, Empty

VARIABLES
    call,      \* the call and its routing
    route,     \* moe_align_block_size of the routing
    phase,     \* the next step of the sequence
    c1, c2, c3,
    out,
    scale      \* times routed_scaling_factor was applied to out

moeVars == <<call, route, phase, c1, c2, c3, out, scale>>

(* A call: its fields are the arguments of fused_experts and run that the  *)
(* sequence depends on; ids are the routed experts of the tokens, k to     *)
(* each, -1 a remote one, and shared experts are appended to them.         *)
Call == [kind: {"bf16", "fp8", "int4", "fp2"}, core: BOOLEAN, k: 1 .. 3, shared: 0 .. 1,
         deepep: BOOLEAN,
         inplace: BOOLEAN, noCombine: BOOLEAN, onInput: BOOLEAN, scaled: BOOLEAN,
         allReduce: BOOLEAN, tma: BOOLEAN, filter: BOOLEAN, pairs: BOOLEAN,
         fused: BOOLEAN, alpha: BOOLEAN, hooks: BOOLEAN]

(* The assertions of fused_experts, of the sequence and of the launcher.   *)
Accepted(c) ==
    /\ ~(c.inplace /\ c.noCombine)
    /\ c.fused => /\ c.kind = "bf16" /\ c.pairs
                  /\ ~c.alpha /\ ~c.onInput /\ ~c.hooks
    /\ c.tma => c.kind = "fp8"
    /\ c.pairs => c.fused \/ c.alpha
    /\ c.hooks => c.core

-----------------------------------------------------------------------------
(* The routes, k + shared to a token, and the slots of their experts:      *)
(* fused_append_shared_experts numbers the shared experts after the routed *)
(* ones; the DeepEP variant also moves the routed ids past the shared slot *)
(* of every rank before theirs.                                            *)

Topk(c)      == c.k + c.shared
Routes(c)    == 0 .. Tokens * Topk(c) - 1
RouteCount   == Tokens * Topk(call)
TokenOf(r)   == r \div Topk(call)
Routed(c, r) == c.ids[(r \div Topk(c)) * c.k + (r % Topk(c))]

Remapped(c, e) == IF c.deepep THEN e + e \div PerRank ELSE e
SharedBase(c)  == IF c.deepep THEN SharedRank * (PerRank + c.shared) + PerRank
                              ELSE Experts - c.shared
Slot(c, r) ==
    IF r % Topk(c) < c.k THEN Remapped(c, Routed(c, r))
                         ELSE SharedBase(c) + (r % Topk(c)) - c.k

\* What the cells of the up-GEMM and of the down-GEMM hold where they are no zeros.
UpCells == [token : Nat, expert : {"routed", "shared"} \X Int, row : {"gate", "up"} \X Nat,
            weights : SUBSET Nat, exact : BOOLEAN]
Terms   == [in : [0 .. Inner - 1 -> [gate : UpCells, up : UpCells]], expert : {"routed", "shared"} \X Int,
            column : Nat, weights : SUBSET Nat, exact : BOOLEAN]

\* Sizes are positive, no tile of the two-bit path is narrower than a column, calls pass
\* the assertions, and their routing names routed experts, -1 a remote one, in local slots.
ASSUME MoeAssumption ==
    /\ {Tokens, Experts, PerRank, Inner, Hidden, BlockM, UpN, DownN, StepK, Group, QuantGroup} \subseteq Nat \ {0}
    /\ Unit \in 1 .. 64 /\ SharedRank \in Nat
    /\ \A c \in Calls :
          /\ c.kind \in {"bf16", "fp8", "int4", "fp2"} /\ Accepted(c)
          /\ c.k \in Nat \ {0} /\ c.shared \in 0 .. Experts
          /\ \A r \in Routes(c) :
                /\ r % Topk(c) < c.k => Routed(c, r) \in -1 .. Experts - c.shared - 1
                /\ Slot(c, r) \in -1 .. Experts - 1
    /\ Masked \notin Nat \X Nat \X Nat
    /\ Zero # Empty
    /\ \A v \in {Zero, Empty} : v \notin UpCells /\ v \notin Terms

\* The expert whose weights a slot holds.
ExpertAt(slot) ==
    LET width == IF call.deepep THEN PerRank + call.shared ELSE Experts
        rank  == slot \div width
        i     == slot % width
    IN  IF i < width - call.shared THEN <<"routed", rank * (width - call.shared) + i>>
                                   ELSE <<"shared", i - (width - call.shared)>>

Sorted(c)   == c.tma /\ ~c.hooks
UseAllReduce(c) ==
    c.allReduce /\ ~c.noCombine /\ Topk(c) > 2 /\ c.kind \notin {"int4", "fp2"}
UseIntermediate == ~call.noCombine /\ (Topk(call) # 1 \/ call.hooks)

-----------------------------------------------------------------------------
(* moe_align_block_size (external): the routes of each expert, remote ones *)
(* first, padded to blocks.                                                *)

Bucket(c, e) == {r \in Routes(c) : Slot(c, r) = e}
BlocksOf(c, e, bm) == CeilDiv(Cardinality(Bucket(c, e)), bm)
BlocksBefore(c, bm) ==
    LET sum[i \in 0 .. Experts + 1] == IF i = 0 THEN 0 ELSE sum[i - 1] + BlocksOf(c, i - 2, bm)
    IN  sum
FirstBlock(c, e, bm) == BlocksBefore(c, bm)[e + 1]
PositionOf(c, r, bm) ==
    FirstBlock(c, Slot(c, r), bm) * bm
        + Cardinality({q \in Bucket(c, Slot(c, r)) : q < r})

Align(c, bm) ==
    LET n      == Tokens * Topk(c)
        rows   == n + Least(n, Experts + 1) * (bm - 1)
        blocks == CeilDiv(rows, bm)
        used   == FirstBlock(c, Experts, bm)
    IN  [rows   |-> rows,
         blocks |-> blocks,
         used   |-> used,
         sorted |-> [p \in 0 .. blocks * bm - 1 |->
                        IF \E r \in Routes(c) : PositionOf(c, r, bm) = p
                        THEN CHOOSE r \in Routes(c) : PositionOf(c, r, bm) = p
                        ELSE n],
         expert |-> [b \in 0 .. blocks - 1 |->
                        IF b < used
                        THEN CHOOSE e \in -1 .. Experts - 1 :
                                /\ FirstBlock(c, e, bm) <= b
                                /\ b < FirstBlock(c, e, bm) + BlocksOf(c, e, bm)
                        ELSE -1]]

-----------------------------------------------------------------------------
(* The two launches.                                                       *)

Fp2Tiles(c) == Fp2Configs(Tokens * Topk(c), Hidden * Unit, Inner * Unit, FALSE)
TileColumns(tile) == tile.n \div Unit

DotIsExact(c, k, step) ==
    CASE c.kind = "fp2"  -> ExactDot(Fp2Dot(k, step), k, 16)
      [] c.kind = "int4" -> ExactDot(PackedDot(k, step, QuantGroup, 2), k, QuantGroup)
      [] c.kind = "fp8"  -> ExactDot(DenseDot(k, step, QuantGroup), k, QuantGroup)
      [] c.kind = "bf16" -> ExactDot(DenseDot(k, step, k), k, k)

\* The up-GEMM: the rows of w13 are its columns; C in token order or sorted, half as
\* wide when the epilogue applies the activation.
UpLaunch(c) ==
    LET fp2  == c.kind = "fp2"
        t    == Fp2Tiles(c)
    IN  [bm |-> IF fp2 THEN t.m ELSE BlockM,
         bn |-> IF fp2 THEN TileColumns(t.up) ELSE UpN,
         group |-> IF fp2 THEN t.up.group ELSE Group,
         n |-> 2 * Inner, weighted |-> c.onInput, fused |-> c.fused,
         adds |-> FALSE, sorted |-> Sorted(c),
         exact |-> DotIsExact(c, Hidden * Unit, IF fp2 THEN t.up.k ELSE StepK)]

MulRoutedWeight_OnInputToo(c) == ~c.noCombine
MulRoutedWeight(c) == ~c.onInput /\ ~c.noCombine

DownLaunch(c) ==
    LET fp2  == c.kind = "fp2"
        t    == Fp2Tiles(c)
    IN  [bm |-> IF fp2 THEN t.m ELSE BlockM,
         bn |-> IF fp2 THEN TileColumns(t.down) ELSE DownN,
         group |-> IF fp2 THEN t.down.group ELSE Group,
         n |-> Hidden, weighted |-> MulRoutedWeight(c), fused |-> FALSE,
         adds |-> UseAllReduce(c), sorted |-> FALSE,
         exact |-> DotIsExact(c, Inner * Unit, IF fp2 THEN t.down.k ELSE StepK)]

(* The program pid of launch l: its block, its columns, the sorted         *)
(* positions of its block that hold a route, and whether it writes zeros.  *)
NBlocks(l) == CeilDiv(l.n, l.bn)
Program(l, pid) ==
    LET block == PidM(pid, route.blocks, NBlocks(l), l.group)
    IN  [active   |-> block < route.used,
         columns  |-> Columns(PidN(pid, route.blocks, NBlocks(l), l.group), l.bn, l.n),
         rows     |-> {p \in block * l.bm .. (block + 1) * l.bm - 1 : route.sorted[p] < RouteCount},
         expert   |-> route.expert[block],
         filtered |-> call.filter /\ route.expert[block] = -1]
Programs(l) == {p \in {Program(l, pid) : pid \in 0 .. route.blocks * NBlocks(l) - 1} : p.active}

(* The row of C that position p is stored to, by a program that multiplies *)
(* and by one that writes zeros.                                           *)
TargetRow(l, p) ==
    CASE l.adds   -> TokenOf(route.sorted[p])
      [] l.sorted -> p
      [] OTHER    -> route.sorted[p]
ZeroRow(p) == route.sorted[p]

StoredColumns(l, columns) ==
    IF l.fused THEN {j \in 0 .. Inner - 1 : 2 * j \in columns} ELSE columns

(* The stores <<row, column, position>> of a program: a filtered one       *)
(* stores zeros, unless C is the half-width activation buffer, where       *)
(* nobody reads its rows.                                                  *)
Stores(l, prog) ==
    CASE prog.filtered /\ l.fused  -> {}
      [] prog.filtered /\ ~l.fused -> {<<ZeroRow(p), j, p>> : p \in prog.rows, j \in prog.columns}
      [] OTHER -> {<<TargetRow(l, p), j, p>> : p \in prog.rows, j \in StoredColumns(l, prog.columns)}

-----------------------------------------------------------------------------
(* What a program stores.                                                  *)

\* Row n of w13: gate and up of a channel are adjacent (pairs) or half a matrix apart.
WeightRow(n) ==
    IF call.pairs THEN <<IF n % 2 = 0 THEN "gate" ELSE "up", n \div 2>>
                  ELSE <<IF n < Inner THEN "gate" ELSE "up", n % Inner>>

Weights(l, r) == IF l.weighted THEN {r} ELSE {}

UpCell(l, prog, p, n) ==
    [token |-> TokenOf(route.sorted[p]), expert |-> ExpertAt(prog.expert),
     row |-> WeightRow(n), weights |-> Weights(l, route.sorted[p]), exact |-> l.exact]

Act(gate, up) ==
    CASE Empty \in {gate, up} -> Empty
      [] Zero \in {gate, up}  -> Zero
      [] OTHER -> [gate |-> gate, up |-> up]

UpValue(l, prog, s) ==
    CASE prog.filtered -> Zero
      [] ~prog.filtered /\ l.fused ->
            Act(UpCell(l, prog, s[3], 2 * s[2]), UpCell(l, prog, s[3], 2 * s[2] + 1))
      [] OTHER -> UpCell(l, prog, s[3], s[2])

\* The down-GEMM reads a row of the activation: of its block when it is sorted.
DownValue(l, prog, s) ==
    IF prog.filtered THEN Zero
    ELSE [in |-> [i \in 0 .. Inner - 1 |->
                    c2[<<IF Sorted(call) THEN s[3] ELSE route.sorted[s[3]], i>>]],
          expert |-> ExpertAt(prog.expert), column |-> s[2],
          weights |-> Weights(l, route.sorted[s[3]]), exact |-> l.exact]

StoredBy(l, Value(_, _, _)) ==
    UNION {{[cell |-> <<s[1], s[2]>>, value |-> Value(l, prog, s)] : s \in Stores(l, prog)} :
               prog \in Programs(l)}

(* The buffers in which every cell holds one of its options.               *)
AnyOf(options) ==
    LET contested == {x \in DOMAIN options : Cardinality(options[x]) > 1}
        picks     == {f \in [contested -> UNION {options[x] : x \in contested}] :
                          \A x \in contested : f[x] \in options[x]}
    IN  {[x \in DOMAIN options |->
            IF x \in contested THEN f[x] ELSE CHOOSE v \in options[x] : TRUE] : f \in picks}

(* Plain stores: a cell nobody stores to keeps its value, one with several *)
(* stores ends up with any of them.                                        *)
Written(stored, buffer) ==
    LET values == [x \in DOMAIN buffer |-> {s.value : s \in {t \in stored : t.cell = x}}]
    IN  AnyOf([x \in DOMAIN buffer |-> IF values[x] = {} THEN {buffer[x]} ELSE values[x]])

(* A cell of out is the bag of terms added up in it.  Atomic adds commute; *)
(* a zero stored among them drops those that came before it.               *)
AsSum(v) == CASE v = Zero -> EmptyBag [] v = Empty -> Empty [] OTHER -> SetToBag({v})
Direct(stored) == {[s EXCEPT !.value = AsSum(@)] : s \in stored}
Added(stored, buffer) ==
    LET values == [x \in DOMAIN buffer |-> {s.value : s \in {t \in stored : t.cell = x}}]
    IN  AnyOf([x \in DOMAIN buffer |->
            LET terms == values[x] \ {Zero}
            IN  IF Zero \in values[x] THEN {SetToBag(k) : k \in SUBSET terms}
                                      ELSE {buffer[x] (+) SetToBag(terms)}])

-----------------------------------------------------------------------------
(* The sequence.                                                           *)

Fill(cells, v) == [c \in cells |-> v]
Gone == << >>

OutCells == (IF call.noCombine THEN Routes(call) ELSE 0 .. Tokens - 1) \X (0 .. Hidden - 1)
CacheRows == 0 .. (IF Sorted(call) THEN route.rows ELSE RouteCount) - 1

(* _prepare_fused_moe_run and the allocations before the first launch.     *)
Prepare ==
    /\ phase = "prepare"
    /\ route' = Align(call, UpLaunch(call).bm)
    /\ phase' = "allocate"
    /\ UNCHANGED <<call, c1, c2, c3, out, scale>>

Allocate ==
    /\ phase = "allocate"
    /\ out' = Fill(OutCells, IF call.inplace THEN "hidden" ELSE Empty)
    /\ c1' = Fill(CacheRows \X (0 .. IF call.fused THEN Inner - 1 ELSE 2 * Inner - 1), Empty)
    /\ phase' = "up"
    /\ UNCHANGED <<call, route, c2, c3, scale>>

UpGemm ==
    /\ phase = "up"
    /\ c1' \in Written(StoredBy(UpLaunch(call), UpValue), c1)
    /\ phase' = "activate"
    /\ UNCHANGED <<call, route, c2, c3, out, scale>>

(* The activation.  A filtered row is skipped by the kernels that take the *)
(* experts of the rows.                                                    *)
RowExpert(row) ==
    IF Sorted(call) THEN route.expert[row \div UpLaunch(call).bm] ELSE Slot(call, row)
Skipped(row) == call.filter /\ ~call.alpha /\ RowExpert(row) = -1
AdjacentPairs == call.alpha /\ (call.core \/ call.pairs)

Activated(row, j) ==
    CASE call.fused -> c1[<<row, j>>]
      [] ~call.fused /\ Skipped(row) -> Empty
      [] ~call.fused /\ ~Skipped(row) /\ AdjacentPairs -> Act(c1[<<row, 2 * j>>], c1[<<row, 2 * j + 1>>])
      [] OTHER -> Act(c1[<<row, j>>], c1[<<row, Inner + j>>])

Activate ==
    /\ phase = "activate"
    /\ c2' = [x \in CacheRows \X (0 .. Inner - 1) |-> Activated(x[1], x[2])]
    /\ c1' = Gone
    /\ c3' = Fill(Routes(call) \X (0 .. Hidden - 1), Empty)
    /\ out' = IF UseAllReduce(call) THEN Fill(OutCells, EmptyBag) ELSE out
    /\ phase' = "down"
    /\ UNCHANGED <<call, route, scale>>

(* The down-GEMM adds to out, or stores to intermediate_cache3 or to out.  *)
DownGemm ==
    LET stored == StoredBy(DownLaunch(call), DownValue)
    IN  /\ phase = "down"
        /\ CASE UseAllReduce(call) -> out' \in Added(stored, out) /\ UNCHANGED c3
             [] ~UseAllReduce(call) /\ UseIntermediate -> c3' \in Written(stored, c3) /\ UNCHANGED out
             [] OTHER -> out' \in Written(Direct(stored), out) /\ UNCHANGED c3
        /\ c2' = Gone
        /\ phase' = "combine"
        /\ UNCHANGED <<call, route, c1, scale>>

(* The combination.                                                        *)
RouteSum(t, j) ==
    LET term(i) == c3[<<t * Topk(call) + i, j>>]
        sum[i \in 0 .. Topk(call)] ==
            IF i = 0 THEN EmptyBag ELSE sum[i - 1] (+) AsSum(term(i - 1))
    IN  IF \E i \in 0 .. Topk(call) - 1 : term(i) = Empty THEN Empty ELSE sum[Topk(call)]

Combine ==
    /\ phase = "combine"
    /\ CASE call.noCombine -> UNCHANGED <<out, scale>>
         [] ~call.noCombine /\ UseAllReduce(call) ->
                /\ scale' = IF call.scaled THEN scale + 1 ELSE scale
                /\ UNCHANGED out
         [] ~call.noCombine /\ ~UseAllReduce(call) /\ Topk(call) = 1 /\ ~call.scaled /\ ~UseIntermediate ->
                UNCHANGED <<out, scale>>
         [] OTHER ->
                /\ out' = [x \in DOMAIN out |-> RouteSum(x[1], x[2])]
                /\ scale' = IF call.scaled THEN scale + 1 ELSE scale
    /\ c3' = Gone
    /\ phase' = "done"
    /\ UNCHANGED <<call, route, c1, c2>>

MoeInit ==
    /\ call \in Calls
    /\ route = Gone
    /\ phase = "prepare"
    /\ c1 = Gone /\ c2 = Gone /\ c3 = Gone /\ out = Gone
    /\ scale = 0

MoeNext == Prepare \/ Allocate \/ UpGemm \/ Activate \/ DownGemm \/ Combine

MoeSpec == MoeInit /\ [][MoeNext]_moeVars

-----------------------------------------------------------------------------
(* Types: the call is one the assertions let through, and what each phase  *)
(* has allocated.                                                          *)
MoeTypeOK ==
    /\ call \in Calls /\ Accepted(call)
    /\ phase \in {"prepare", "allocate", "up", "activate", "down", "combine", "done"}
    /\ scale \in {0, 1}
    /\ phase \in {"up", "activate"} => DOMAIN c1 \subseteq CacheRows \X (0 .. 2 * Inner - 1)
    /\ phase = "down" => DOMAIN c2 = CacheRows \X (0 .. Inner - 1)
    /\ phase \in {"combine", "done"} => DOMAIN out = OutCells

(* What one route contributes to a column of the output.                   *)
OwnExpert(r) == IF r % Topk(call) < call.k THEN <<"routed", Routed(call, r)>>
                                           ELSE <<"shared", (r % Topk(call)) - call.k>>
RouteTerm(r, j) ==
    LET up(which, i) ==
            [token |-> TokenOf(r), expert |-> OwnExpert(r), row |-> <<which, i>>,
             weights |-> IF call.onInput THEN {r} ELSE {}, exact |-> TRUE]
    IN  [in |-> [i \in 0 .. Inner - 1 |-> [gate |-> up("gate", i), up |-> up("up", i)]],
         expert |-> OwnExpert(r), column |-> j,
         weights |-> IF call.onInput \/ call.noCombine THEN {} ELSE {r}, exact |-> TRUE]

(* The result is the mixture: for every token the sum over its local       *)
(* routes, shared experts included, each computed by its own expert from   *)
(* its own token with its own weight once, scaled once; without            *)
(* combination, each route's own term.                                     *)
OutputIsTheMixture ==
    phase = "done" =>
        /\ scale = IF call.scaled /\ ~call.noCombine THEN 1 ELSE 0
        /\ \A x \in DOMAIN out :
              out[x] = SetToBag({RouteTerm(r, x[2]) :
                  r \in {q \in Routes(call) :
                            /\ x[1] = IF call.noCombine THEN q ELSE TokenOf(q)
                            /\ OwnExpert(q)[2] # -1}})

(* "Write zeros only when this kernel owns the full output"                *)
(* (fused_moe_triton_kernels.py:544): a program stores inside its buffer,  *)
(* and to a cell no other program of the launch stores to unless both add. *)
StoresAreOwned ==
    LET l      == IF phase = "up" THEN UpLaunch(call) ELSE DownLaunch(call)
        buffer == CASE phase = "up" -> DOMAIN c1
                    [] phase = "down" /\ ~UseAllReduce(call) /\ UseIntermediate -> DOMAIN c3
                    [] OTHER -> DOMAIN out
        cells(prog) == {<<s[1], s[2]>> : s \in Stores(l, prog)}
        adds(prog)  == l.adds /\ ~prog.filtered
    IN  phase \in {"up", "down"} =>
            \A prog \in Programs(l) :
                /\ cells(prog) \subseteq buffer
                /\ \A other \in Programs(l) \ {prog} :
                      \/ cells(prog) \cap cells(other) = {}
                      \/ adds(prog) /\ adds(other)
=============================================================================
