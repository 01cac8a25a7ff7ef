---------------------------- MODULE ExpertWeights ----------------------------
(***************************************************************************)
(* The weights of a mixture-of-experts layer from loading to the kernel of *)
(* the backend: the rows of w13 arrive as gate and up halves or            *)
(* interleaved, are put in the order the kernel reads, padded and given    *)
(* their global scales, again after every weight update.                   *)
(*                                                                         *)
(* The matrices of all experts are laid out alike: w13 is the sequence of  *)
(* rows of any one, w13Scale that of its block scales and w2 the columns.  *)
(***************************************************************************)
EXTENDS Integers, FiniteSets, SequencesExt, FiniteSetsExt

CONSTANTS
    ExpertLayers,   \* [method, backend, gated, interleaved, upLoaded, inner, ranks,
                    \*  rank, perToken, twoScales, updates]
    LocalExperts,   \* experts of a rank
    Chunk,          \* rows interleave_w13_halves alternates (64)
    SwizzleRows,    \* rows swizzle_blockscale pads to (128)
    Align,          \* rows FlashInfer's fp8 kernel pads to (16)
    Padding, Unset

\* The methods with the backends that are followed.
LayerKinds ==
    {<<"fp4", "marlin">>, <<"fp4", "flashinfer_cutlass">>, <<"fp4", "flashinfer_trtllm">>,
     <<"fp4", "cutedsl_v1">>, <<"fp4", "cutedsl_v2">>, <<"lm20", "triton">>,
     <<"fp8", "triton">>, <<"fp8", "flashinfer_cutlass">>}

\* Only NVFP4 checkpoints are interleaved.  upLoaded: the loader puts up first although
\* the method does not ask for it.
ASSUME ExpertAssumption ==
    /\ LocalExperts \in Nat /\ Chunk \in Nat \ {0} /\ Align \in Nat \ {0}
    /\ SwizzleRows = 2 * Chunk
    /\ Padding \notin [half : {"gate", "up"}, i : Nat, by : Nat]
    /\ \A l \in ExpertLayers :
          /\ <<l.method, l.backend>> \in LayerKinds
          /\ l.gated \in BOOLEAN /\ l.interleaved \in BOOLEAN /\ l.upLoaded \in BOOLEAN
          /\ l.perToken \in BOOLEAN /\ l.twoScales \in BOOLEAN
          /\ l.inner \in Nat \ {0} /\ l.ranks \in Nat /\ l.rank \in 0 .. l.ranks - 1
          /\ l.updates \in Nat
          /\ l.interleaved => l.gated /\ l.method = "fp4"
          /\ l.twoScales => l.gated

VARIABLES
    layer, stage,   \* "loading", "ready", "done" or "refused"
    arrived,        \* the projections loaded since the last update
    w13, w13Scale, w2,
    scale2,         \* local expert -> the two per-tensor scales of w13
    gscale,         \* the processed scales, or Unset
    deinterleaved,  \* _w13_deinterleaved
    updates,        \* weight updates made
    result          \* what a forward computed, or Unset

expertVars == <<layer, stage, arrived, w13, w13Scale, w2, scale2, gscale, deinterleaved, updates, result>>

Halves(l) == IF l.gated THEN {"gate", "up"} ELSE {"up"}
\* load_up_proj_weight_first, and where the rows end up.
UpFirst(l) == l.method = "fp4" /\ l.gated /\ l.backend \in {"flashinfer_cutlass", "cutedsl_v2"}

LoadedUpFirst(l) == UpFirst(l) \/ l.upLoaded

Row(half, i, by) == [half |-> half, i |-> i, by |-> by]
ShardScale(l, half) == IF l.twoScales /\ half = "gate" THEN 1 ELSE 2
HalfRows(l, half) == [i \in 1 .. l.inner |-> Row(half, i - 1, ShardScale(l, half))]

(* Where the loader (external) puts the rows of a projection: the gate     *)
(* first unless the method asks for up first or the loader has its own     *)
(* reason to; interleaved as stored.                                       *)
LoadedRows(l) ==
    CASE ~l.gated -> HalfRows(l, "up")
      [] l.gated /\ l.interleaved ->
            [k \in 1 .. 2 * l.inner |-> IF k % 2 = 1 THEN HalfRows(l, "gate")[(k + 1) \div 2]
                                                     ELSE HalfRows(l, "up")[k \div 2]]
      [] OTHER -> IF LoadedUpFirst(l) THEN HalfRows(l, "up") \o HalfRows(l, "gate")
                                      ELSE HalfRows(l, "gate") \o HalfRows(l, "up")

Global(e) == layer.rank * LocalExperts + e
\* The two shards of an fp8 layer are requantized by one scale.
TensorScale(e, half) ==
    <<Global(e), IF layer.twoScales /\ layer.method # "fp8" THEN half ELSE "both">>
InputScale1(g) == IF g % 2 = 0 THEN g + 1 ELSE 7 - g
InputScale2(g) == 20 + g
GlobalExperts == 0 .. layer.ranks * LocalExperts - 1
Locals == 0 .. LocalExperts - 1

ExpertInit ==
    /\ layer \in ExpertLayers
    /\ stage = "loading" /\ arrived = {}
    /\ w13 = << >> /\ w13Scale = << >> /\ w2 = << >> /\ scale2 = << >>
    /\ gscale = Unset /\ deinterleaved = FALSE /\ updates = 0 /\ result = Unset

(* A projection arrives, in any order; with the last one the layer can be  *)
(* processed.                                                              *)
LoadProjection(half) ==
    /\ stage = "loading" /\ half \in Halves(layer) \ arrived
    /\ arrived' = arrived \cup {half}
    /\ IF arrived' = Halves(layer)
       THEN /\ w13' = LoadedRows(layer)
            /\ w13Scale' = LoadedRows(layer)
            /\ w2' = [i \in 1 .. layer.inner |-> i - 1]
            /\ scale2' = [e \in Locals |-> [half2 \in {"gate", "up"} |-> TensorScale(e, half2)]]
       ELSE UNCHANGED <<w13, w13Scale, w2, scale2>>
    /\ UNCHANGED <<layer, stage, gscale, deinterleaved, updates, result>>

Complete == stage = "loading" /\ arrived = Halves(layer)

-----------------------------------------------------------------------------
(* ModelOptNvFp4FusedMoEMethod.                                            *)

Trtllm == layer.backend = "flashinfer_trtllm"

\* [g0, u0, g1, u1, ...] as [gate; up], or [up; gate] for TRT-LLM.
DeinterleaveW13(rows, upFirst) ==
    LET n == Len(rows) \div 2
    IN  [k \in DOMAIN rows |->
            IF upFirst THEN (IF k <= n THEN rows[2 * k] ELSE rows[2 * (k - n) - 1])
                       ELSE (IF k <= n THEN rows[2 * k - 1] ELSE rows[2 * (k - n)])]
MustDeinterleave == layer.interleaved /\ ~deinterleaved
Ordered(rows) == IF MustDeinterleave THEN DeinterleaveW13(rows, Trtllm) ELSE rows

\* Chunks of the two halves alternate.
InterleaveW13Halves(rows) ==
    [k \in DOMAIN rows |->
        LET p == k - 1
        IN  rows[1 + ((p \div Chunk) % 2) * (Len(rows) \div 2)
                   + (p \div (2 * Chunk)) * Chunk + (p % Chunk)]]
CuteDslV2 == layer.backend = "cutedsl_v2" /\ layer.gated
KernelOrder(rows) == IF CuteDslV2 THEN InterleaveW13Halves(Ordered(rows)) ELSE Ordered(rows)

RoundUpTo(x, m) == ((x + m - 1) \div m) * m
Pad(seq, n) == seq \o [i \in 1 .. n |-> Padding]
\* TRT-LLM's own preparation (external) neither swizzles nor pads.
SwizzlePad == IF Trtllm THEN 0 ELSE RoundUpTo(Len(w13), SwizzleRows) - Len(w13)

(* The input scales: one for all experts, or the rank's slice of them.     *)
LocalSlice_OfRankZero(f) == [e \in Locals |-> f[e]]
LocalSlice(f) == [e \in Locals |-> f[layer.rank * LocalExperts + e]]
MaxInputScale1 == Max({InputScale1(g) : g \in GlobalExperts})
InputScales ==
    CASE layer.perToken -> [first |-> [e \in Locals |-> 1], second |-> [e \in Locals |-> 1]]
      [] ~layer.perToken /\ layer.backend \in {"flashinfer_cutlass", "flashinfer_trtllm"} ->
            [first  |-> [e \in Locals |-> MaxInputScale1],
             second |-> [e \in Locals |-> Max({InputScale2(g) : g \in GlobalExperts})]]
      [] OTHER ->
            [first  |-> LocalSlice([g \in GlobalExperts |-> MaxInputScale1]),
             second |-> LocalSlice([g \in GlobalExperts |-> InputScale2(g)])]

\* alpha = input scale x tensor scale, for gate and up; quant = 1 / input scale.
ComputeGemm1Alphas(inputs) ==
    [gate |-> [e \in Locals |-> <<inputs.first[e], scale2[e]["gate"]>>],
     up   |-> [e \in Locals |-> <<inputs.first[e], scale2[e]["up"]>>]]
SingleAlpha == layer.backend # "flashinfer_trtllm"
Alphas(inputs) ==
    LET g1 == ComputeGemm1Alphas(inputs)
    IN  [gate |-> g1.gate, up |-> IF SingleAlpha THEN g1.gate ELSE g1.up,
         down |-> [e \in Locals |-> <<inputs.second[e], Global(e)>>],
         quant1 |-> inputs.first, quant2 |-> inputs.second]

ProcessFp4 ==
    /\ Complete /\ layer.method = "fp4" /\ layer.backend # "marlin"
    /\ layer.gated => SwizzlePad = 0
    /\ w13' = Pad(KernelOrder(w13), SwizzlePad)
    /\ w13Scale' = Pad(KernelOrder(w13Scale), SwizzlePad)
    /\ w2' = Pad(w2, SwizzlePad)
    /\ gscale' = Alphas(InputScales)
    /\ deinterleaved' = (deinterleaved \/ MustDeinterleave)
    /\ stage' = "ready"
    /\ UNCHANGED <<layer, arrived, scale2, updates, result>>

\* "The intermediate size required padding": the assert stops the load.
RefuseFp4 ==
    /\ Complete /\ layer.method = "fp4" /\ layer.backend # "marlin"
    /\ layer.gated /\ SwizzlePad # 0
    /\ stage' = "refused"
    /\ UNCHANGED <<layer, arrived, w13, w13Scale, w2, scale2, gscale, deinterleaved, updates, result>>

(* Marlin: weight-only; the two tensor scales collapse to the gate's.      *)
ProcessMarlinExperts ==
    /\ Complete /\ layer.method = "fp4" /\ layer.backend = "marlin"
    /\ w13' = Ordered(w13)
    /\ w13Scale' = Ordered(w13Scale)
    /\ gscale' = LET g == [e \in Locals |-> <<1, scale2[e]["gate"]>>]
                 IN  [gate |-> g, up |-> g, down |-> [e \in Locals |-> <<1, Global(e)>>],
                      quant1 |-> [e \in Locals |-> 1], quant2 |-> [e \in Locals |-> 1]]
    /\ deinterleaved' = (deinterleaved \/ MustDeinterleave)
    /\ stage' = "ready"
    /\ UNCHANGED <<layer, arrived, w2, scale2, updates, result>>

(* ModelOptNvFp2Lm20FusedMoEMethod: each row gets its own tensor scale.    *)
RowScale(e, k) ==
    IF layer.gated THEN scale2[e][IF k <= Len(w13) \div 2 THEN "gate" ELSE "up"]
                   ELSE scale2[e]["up"]
ProcessLm20 ==
    /\ Complete /\ layer.method = "lm20"
    /\ gscale' = LET at(i) == [e \in Locals |-> <<1, RowScale(e, i)>>]
                 IN  [gate |-> at(1), up |-> at(Len(w13)),
                      down |-> [e \in Locals |-> <<1, Global(e)>>],
                      quant1 |-> [e \in Locals |-> 1], quant2 |-> [e \in Locals |-> 1]]
    /\ stage' = "ready"
    /\ UNCHANGED <<layer, arrived, w13, w13Scale, w2, scale2, deinterleaved, updates, result>>

(* ModelOptFp8MoEMethod: shard s is dequantized by its scale, taking the   *)
(* gate for the first, and quantized by the larger one; for FlashInfer     *)
(* each half is padded on its own.                                         *)
ShardAt(k) == IF layer.gated /\ k <= layer.inner THEN "gate" ELSE "up"
Requantized ==
    [k \in DOMAIN w13 |-> IF w13[k].by = ShardScale(layer, ShardAt(k))
                          THEN [w13[k] EXCEPT !.by = Max({ShardScale(layer, h) : h \in Halves(layer)})]
                          ELSE Padding]
HalfPad == RoundUpTo(layer.inner, Align) - layer.inner
PaddedHalves_AtTheEnd(rows) == Pad(rows, IF layer.gated THEN 2 * HalfPad ELSE HalfPad)
PaddedHalves(rows) ==
    IF layer.gated THEN Pad(SubSeq(rows, 1, layer.inner), HalfPad)
                          \o Pad(SubSeq(rows, layer.inner + 1, 2 * layer.inner), HalfPad)
                   ELSE Pad(rows, HalfPad)
ProcessFp8Experts ==
    LET flashinfer == layer.backend = "flashinfer_cutlass"
    IN  /\ Complete /\ layer.method = "fp8"
        /\ w13' = IF flashinfer THEN PaddedHalves(Requantized) ELSE Requantized
        /\ w13Scale' = w13'
        /\ w2' = IF flashinfer THEN Pad(w2, HalfPad) ELSE w2
        /\ gscale' = LET in1 == MaxInputScale1
                         in2 == Max({InputScale2(g) : g \in GlobalExperts})
                         g1  == [e \in Locals |-> <<in1, scale2[e]["up"]>>]
                     IN  [gate |-> [e \in Locals |-> <<in1, scale2[e]["gate"]>>], up |-> g1,
                          down |-> [e \in Locals |-> <<in2, Global(e)>>],
                          quant1 |-> [e \in Locals |-> in1], quant2 |-> [e \in Locals |-> in2]]
        /\ stage' = "ready"
        /\ UNCHANGED <<layer, arrived, scale2, deinterleaved, updates, result>>

-----------------------------------------------------------------------------
(* The kernel (external): the row of w13 it takes for channel i of a half, *)
(* up first or gate first, in chunks or not.  FlashInfer's CUTLASS kernel, *)
(* CuteDSL v2's and TRT-LLM's take [Up, Gate] (1179, 1962, 2179, 2687).    *)
KernelUpFirst(l) == l.backend \in {"flashinfer_cutlass", "cutedsl_v2", "flashinfer_trtllm"}
KernelRow(half, i) ==
    LET second == half # IF KernelUpFirst(layer) THEN "up" ELSE "gate"
        half1  == Len(w13) \div 2
    IN  CASE ~layer.gated -> i + 1
          [] layer.gated /\ CuteDslV2 ->
                1 + (i \div Chunk) * 2 * Chunk + (i % Chunk) + IF second THEN Chunk ELSE 0
          [] OTHER -> 1 + i + IF second THEN half1 ELSE 0

Channels == 0 .. (IF layer.gated THEN Len(w13) \div 2 ELSE Len(w13)) - 1

Forward ==
    /\ stage = "ready"
    /\ result' = [i \in Channels |->
                    [rows |-> [h \in Halves(layer) |-> w13[KernelRow(h, i)]],
                     scales |-> [h \in Halves(layer) |-> w13Scale[KernelRow(h, i)]],
                     down |-> w2[i + 1]]]
    /\ stage' = "done"
    /\ UNCHANGED <<layer, arrived, w13, w13Scale, w2, scale2, gscale, deinterleaved, updates>>

(* New weights are loaded into the same parameters and processed again.    *)
UpdateWeights ==
    /\ stage = "done" /\ updates < layer.updates
    /\ updates' = updates + 1
    /\ stage' = "loading" /\ arrived' = {} /\ result' = Unset
    /\ UNCHANGED <<layer, w13, w13Scale, w2, scale2, gscale, deinterleaved>>

ExpertNext ==
    \/ \E half \in {"gate", "up"} : LoadProjection(half)
    \/ ProcessFp4 \/ RefuseFp4 \/ ProcessMarlinExperts \/ ProcessLm20 \/ ProcessFp8Experts
    \/ Forward
    \/ UpdateWeights

ExpertSpec == ExpertInit /\ [][ExpertNext]_expertVars

-----------------------------------------------------------------------------
(* What a layer has to be for the two properties.  Its halves reach the    *)
(* kernel in the kernel's order: loaded in it, or interleaved, put in it   *)
(* once and not loaded again; and the order in which fp8 shards are        *)
(* requantized does not matter, or is the loader's.  Its kernel has as     *)
(* many alphas as the halves have scales.                                  *)
HalvesInOrder(l) ==
    l.gated =>
        IF l.interleaved
        THEN l.updates = 0 /\ (KernelUpFirst(l) => l.backend = "flashinfer_trtllm")
        ELSE /\ LoadedUpFirst(l) = KernelUpFirst(l)
             /\ l.method = "fp8" /\ LoadedUpFirst(l) => ~l.twoScales
AlphasSuffice(l) ==
    l.twoScales => l.method = "fp8" \/ l.backend \in {"flashinfer_trtllm", "triton"}

(* Every channel is computed from the gate row, the up row and the w2      *)
(* column of one channel, each row with its own block scales, or from      *)
(* padding alone; no channel is lost.  "Load W13 as [Up, Gate] for         *)
(* FlashInfer CUTLASS and CuteDSL v2 kernels" (2687).                      *)
ChannelsStayTogether ==
    result # Unset =>
        LET own(i, c) == /\ result[i].down = c
                         /\ \A h \in Halves(layer) :
                               /\ result[i].rows[h] # Padding
                               /\ result[i].rows[h].half = h /\ result[i].rows[h].i = c
                               /\ result[i].scales[h] = result[i].rows[h]
            padding(i) == /\ result[i].down = Padding
                          /\ \A h \in Halves(layer) : result[i].rows[h] = Padding
        IN  /\ \A i \in Channels : padding(i) \/ \E c \in 0 .. layer.inner - 1 : own(i, c)
            /\ \A c \in 0 .. layer.inner - 1 : Cardinality({i \in Channels : own(i, c)}) = 1

(* What the activation is divided by when it is quantized, the GEMM's      *)
(* alpha multiplies back, with the tensor scale of the same expert and     *)
(* half: over the ranks' slices, shared scales and per-token scales.       *)
ScalesCancel ==
    gscale # Unset /\ stage \in {"ready", "done"} =>
        \A e \in Locals :
            /\ gscale.gate[e][1] = gscale.quant1[e] /\ gscale.up[e][1] = gscale.quant1[e]
            /\ gscale.down[e] = <<gscale.quant2[e], Global(e)>>
            /\ layer.gated => gscale.gate[e][2] = TensorScale(e, "gate")
            /\ gscale.up[e][2] = TensorScale(e, "up")
            /\ layer.backend = "cutedsl_v1" /\ ~layer.perToken =>
                  gscale.quant2[e] = InputScale2(Global(e))
=============================================================================
