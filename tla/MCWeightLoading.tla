--------------------------- MODULE MCWeightLoading ---------------------------
(* Small checkpoints of every kind of description, and small layers of      *)
(* every method and backend.                                                *)
EXTENDS WeightLoading

CONSTANT AllLayers     \* FALSE: leave out the layers the code mishandles

(* Two decoder layers whose numbers share a digit, the experts, the head,   *)
(* the embedding and the draft layer of a text or a vision-language model.  *)
Dot == <<".">>
Name(parts) == FoldLeft(LAMBDA n, p : IF n = << >> THEN p ELSE n \o Dot \o p, << >>, parts)
Text(vision) == IF vision THEN << <<"language_model">>, <<"model">> >> ELSE << <<"model">> >>
Stored(vision) == IF vision THEN << <<"model">>, <<"language_model">> >> ELSE << <<"model">> >>

Attn(root, i, p)  == Name(root \o << <<"layers">>, <<i>>, <<"self_attn">>, p >>)
Expert(root, e, p) == Name(root \o << <<"layers">>, <<"1">>, <<"mlp">>, <<"experts">>, e, p >>)
Experts(root)     == Name(root \o << <<"layers">>, <<"1">>, <<"mlp">>, <<"experts">> >>)
Gate(root)        == Name(root \o << <<"layers">>, <<"1">>, <<"mlp">>, <<"gate">> >>)
Embed(root)       == Name(root \o << <<"embed_tokens">> >>)
Draft == Name(<< <<"mtp">>, <<"layers">>, <<"0">>, <<"mlp">>, <<"experts">> >>)
DraftExpert == Name(<< <<"mtp">>, <<"layers">>, <<"0">>, <<"mlp">>, <<"experts">>, <<"0">>, <<"gate", "_proj">> >>)
LmHead == <<"lm_head">>

Q == <<"q", "_proj">>
K == <<"k", "_proj">>
QkvProj == <<"q", "kv", "_proj">>
QA == <<"q", "_a_proj">>
KvA == <<"kv", "_a_proj", "_with_mqa">>
FusedA == <<"fused_", "q", "kv", "_a_proj", "_with_mqa">>
MCPacked == (QkvProj :> <<Q, K>>)
MCHfPrefix == Name(<< <<"model">>, <<"language_model">> >>) \o Dot
MCModelPrefix == Name(<< <<"language_model">>, <<"model">> >>) \o Dot

Layer(prefix, class, sources) == [prefix |-> prefix, class |-> class, sources |-> sources]
LayersOf(vision) ==
    {Layer(Attn(Text(vision), i, QkvProj), "linear", {Attn(Stored(vision), i, Q), Attn(Stored(vision), i, K)}) :
        i \in {"1", "10"}}
    \cup {Layer(Attn(Text(vision), "1", FusedA), "linear", {Attn(Stored(vision), "1", QA), Attn(Stored(vision), "1", KvA)})}
    \cup {Layer(Gate(Text(vision)), "linear", {Gate(Stored(vision))}),
          Layer(Experts(Text(vision)), "moe", {Expert(Stored(vision), <<"0">>, <<"gate", "_proj">>),
                                              Expert(Stored(vision), <<"0">>, <<"down", "_proj">>)}),
          Layer((IF vision THEN LanguageModel ELSE << >>) \o LmHead, "lm_head", {LmHead}),
          Layer(Embed(Text(vision)), "embedding", {Embed(Stored(vision))}),
          Layer(Attn(Text(vision), "1", <<"attn">>), "attention", {}),
          Layer(Draft, "moe", {DraftExpert})}

(* The formats of a checkpoint's tensors.                                   *)
Formats(vision, q1, k1, q10, latent, experts, head, embed) ==
    (Attn(Stored(vision), "1", Q) :> q1) @@ (Attn(Stored(vision), "1", K) :> k1)
      @@ (Attn(Stored(vision), "10", Q) :> q10) @@ (Attn(Stored(vision), "10", K) :> q10)
      @@ (Attn(Stored(vision), "1", QA) :> latent) @@ (Attn(Stored(vision), "1", KvA) :> latent)
      @@ (Expert(Stored(vision), <<"0">>, <<"gate", "_proj">>) :> experts)
      @@ (Expert(Stored(vision), <<"0">>, <<"down", "_proj">>) :> experts)
      @@ (LmHead :> head) @@ (Embed(Stored(vision)) :> embed)
      @@ (Gate(Stored(vision)) :> "BF16") @@ (DraftExpert :> "BF16")

Exactly(text) == [lead |-> FALSE, text |-> text, trail |-> FALSE]
Wild(lead, text, trail) == [lead |-> lead, text |-> text, trail |-> trail]
Outside == {Wild(FALSE, <<"mtp", ".">>, TRUE), Wild(TRUE, <<".", "mlp", ".", "gate">>, TRUE)}
Listed(stored) == {Exactly(n) : n \in {m \in DOMAIN stored : stored[m] = "BF16"}}
AttnExcluded(stored) ==
    IF \A n \in DOMAIN stored : "self_attn" \in ToSet(n) => stored[n] = "BF16"
    THEN {Wild(TRUE, <<".", "self_attn", ".">>, TRUE)} ELSE {}

InSomeOrder(set) == FoldSet(LAMBDA x, s : Append(s, x), << >>, set)

(* The exporter writes the same facts in either form: how says whether the  *)
(* KV format is a scheme, by dictionary or by name, or a field.             *)
Nothing == [algo |-> None, scheme |-> None, kv |-> None, group |-> None, groups |-> << >>,
            exclude |-> {}, layers |-> << >>]
Entries(stored, group) ==
    LET quantised == InSomeOrder({n \in DOMAIN stored : stored[n] # "BF16"})
    IN  [i \in DOMAIN quantised |-> [name |-> quantised[i], algo |-> stored[quantised[i]],
            group |-> IF stored[quantised[i]] \in Fp4Algos THEN group ELSE None]]
Describe(flat, where, algo, kv, how, group, exclude, layers, wrong) ==
    LET facts == [Nothing EXCEPT !.algo = algo, !.exclude = exclude, !.layers = layers,
                    !.scheme = IF kv = None \/ how = "field" THEN None ELSE [dict |-> how = "dict", of |-> kv],
                    !.kv = IF how = "field" THEN kv ELSE None,
                    !.group = IF where = "top" THEN group ELSE None,
                    !.groups = CASE where = "groups" -> <<group, group>>
                                 [] where # "groups" /\ wrong -> <<group + 16>>
                                 [] OTHER -> << >>]
    IN  [method |-> "modelopt",
         top |-> IF flat THEN facts ELSE [Nothing EXCEPT !.groups = facts.groups],
         quantization |-> IF flat THEN Nothing ELSE facts]

Make(class, vision, mapper, lm20, kv, group, stored, exclude, d, wrong) ==
    [class |-> class, mapper |-> mapper, lm20 |-> lm20, kv |-> kv, group |-> group, stored |-> stored,
     exclude |-> exclude, description |-> d, contradictory |-> wrong, layers |-> InSomeOrder(LayersOf(vision))]

KvKinds == {<<kv, how>> \in {None, "FP8", "NVFP4", "INT8"} \X {"dict", "name", "field"} : kv = None => how = "field"}

(* Attention quantized but for its latent projections, or not at all.       *)
OfOneFormat(class, v, lm20, a, kv, g, flat) ==
    LET experts == CASE class = "fp8" -> "FP8" [] class = "fp4" /\ lm20 -> "NVFP2" [] OTHER -> "NVFP4"
        algo    == IF class = "fp8" THEN "FP8" ELSE "NVFP4"
        dense   == IF a THEN algo ELSE "BF16"
        stored  == Formats(v, dense, dense, dense, "BF16", experts, "BF16", "BF16")
        exclude == Outside \cup (IF a THEN Listed(stored) \ {Exactly(DraftExpert)}
                                      ELSE AttnExcluded(stored) \cup {Exactly(LmHead), Exactly(Embed(Stored(v)))})
        group   == IF class = "fp8" THEN None ELSE g
        wheres  == {"top"} \cup (IF class = "fp8" THEN {} ELSE {"groups"})
                           \cup (IF flat /\ class = "fp4" /\ g = 16 THEN {"omitted"} ELSE {})
    IN  {Make(class, v, v, lm20, kv[1], group, stored, exclude,
              Describe(flat, where, aw, kv[1], kv[2], group, exclude, << >>, FALSE), FALSE) :
            where \in wheres, aw \in IF class = "fp4" /\ ~lm20 THEN SerializedAlgos ELSE {algo}}
UniformCheckpoints ==
    UNION {OfOneFormat(class, v, lm20, a, <<None, "field">>, g, flat) :
             class \in {"fp8", "fp4"}, v \in BOOLEAN, lm20 \in BOOLEAN, a \in BOOLEAN, g \in {16, 32}, flat \in BOOLEAN}
    \cup UNION {OfOneFormat(class, TRUE, FALSE, TRUE, kv, 16, TRUE) : class \in {"fp8", "fp4"}, kv \in KvKinds}
    \cup UNION {OfOneFormat(class, FALSE, FALSE, FALSE, kv, 16, FALSE) :
                   class \in {"fp8", "fp4"}, kv \in {k \in KvKinds : k[2] = "field"}}

(* The 4-bit class over experts stored in 8 bits, and over a description    *)
(* it hands on.                                                             *)
OtherCheckpoints ==
    {LET stored  == Formats(v, "BF16", "BF16", "BF16", "BF16", "FP8", "BF16", "BF16")
         exclude == Outside \cup AttnExcluded(stored)
         d       == Describe(flat, "top", "FP8", "FP8", "field", 16, exclude, << >>, FALSE)
     IN  Make("fp4", v, v, FALSE, "FP8", 16, stored, exclude,
              [d EXCEPT !.method = m], FALSE) :
        v \in BOOLEAN, flat \in BOOLEAN, m \in {"modelopt", "fp8"}}

Contradictory ==
    {LET stored == Formats(FALSE, "NVFP4", "NVFP4", "NVFP4", "NVFP4", "NVFP4", "BF16", "BF16")
     IN  Make("fp4", FALSE, FALSE, FALSE, None, 16, stored, Outside,
              Describe(FALSE, "top", "NVFP4", None, "field", 16, Outside, << >>, TRUE), TRUE)}

Mixed(f, mapper, flat, kv) ==
    LET stored  == Formats(f[1], f[2], f[3], f[4], "BF16", f[5], f[6], f[7])
        exclude == Outside \cup (IF f[1] THEN {} ELSE Listed(stored))
    IN  Make("mixed", f[1], mapper, FALSE, kv[1], 32, stored, exclude,
             Describe(flat, "omitted", "MIXED_PRECISION", kv[1], kv[2], 32, exclude, Entries(stored, 32), FALSE), FALSE)
TextMixtures ==
    {<<FALSE, "FP8", "FP8", "NVFP4", "NVFP4", "FP8", "NVFP4">>,
     <<FALSE, "FP8", "NVFP4", "FP8", "W4A16_NVFP4", "BF16", "BF16">>,
     <<FALSE, "NVFP4", "BF16", "MXFP8", "MXFP8", "NVFP4", "BF16">>,
     <<FALSE, "BF16", "BF16", "NVFP4", "NVFP4", "BF16", "BF16">>}
VisionMixtures ==
    {<<TRUE, "NVFP4", "NVFP4", "FP8", "FP8", "NVFP4", "NVFP4">>,
     <<TRUE, "W4A16_NVFP4", "W4A16_NVFP4", "BF16", "NVFP4", "BF16", "BF16">>}
MixedCheckpoints ==
    {Mixed(f, mapper, flat, <<None, "field">>) :
        f \in TextMixtures \cup VisionMixtures, mapper \in BOOLEAN, flat \in BOOLEAN}
    \cup {Mixed(f, TRUE, flat, kv) :
             f \in VisionMixtures, flat \in BOOLEAN, kv \in {k \in KvKinds : k[2] = "field"}}
    \cup {Mixed(f, TRUE, TRUE, kv) : f \in VisionMixtures, kv \in KvKinds}

MCCheckpoints ==
    {c \in UniformCheckpoints : c.lm20 => c.class = "fp4"} \cup OtherCheckpoints \cup Contradictory \cup MixedCheckpoints

(* Widths that need no padding, or padding of rows, of columns, of both.    *)
Shapes == {<< <<1>>, 1>>, << <<2, 1>>, 3>>, << <<1, 1, 1>>, 2>>, << <<4, 5>>, 5>>, << <<4, 4>>, 2>>, << <<4, 4>>, 3>>, << <<8, 8>>, 4>>}
MCLinears ==
    {[method |-> m[1], backend |-> m[2], parts |-> s[1], k |-> s[2], swiglu |-> w,
      scales |-> [i \in DOMAIN s[1] |-> IF m[1] = "fp8" THEN i ELSE 7]] :
        m \in {<<"fp8", "any">>, <<"fp4a16", "marlin">>, <<"fp4", "marlin">>, <<"fp4", "trtllm">>, <<"fp4", "cutlass">>},
        s \in Shapes, w \in {TRUE, FALSE}}

Backends == {<<"fp4", "marlin">>, <<"fp4", "flashinfer_cutlass">>, <<"fp4", "flashinfer_trtllm">>,
             <<"fp4", "cutedsl_v1">>, <<"fp4", "cutedsl_v2">>, <<"lm20", "triton">>,
             <<"fp8", "triton">>, <<"fp8", "flashinfer_cutlass">>}
BackendLayers ==
    {[method |-> b[1], backend |-> b[2], gated |-> g, interleaved |-> x, upLoaded |-> f, inner |-> n,
      ranks |-> 2, rank |-> r, perToken |-> p, twoScales |-> t, updates |-> u] :
        b \in Backends, g \in BOOLEAN, x \in BOOLEAN, f \in BOOLEAN, n \in {2, 3, 4},
        r \in {0, 1}, p \in BOOLEAN, t \in BOOLEAN, u \in {0, 1}}
(* Where the method asks for no order, the loader is free.                  *)
Possible(l) ==
    /\ l.interleaved => l.gated /\ l.method = "fp4"
    /\ l.upLoaded => /\ l.gated /\ ~l.interleaved
                     /\ l.method = "fp8" \/ l.backend = "flashinfer_trtllm"
    /\ l.perToken => l.backend \in {"flashinfer_trtllm", "cutedsl_v2"}
    /\ l.backend \in {"flashinfer_trtllm", "marlin"} => l.updates = 0
    /\ l.updates > 0 => l.method = "fp4" /\ l.gated
    /\ l.twoScales => l.gated
    /\ l.backend = "cutedsl_v2" => l.gated
(* Layers left out of the passing run. *)
Mishandled(l) == ~HalvesInOrder(l) \/ ~AlphasSuffice(l)
MCExpertLayers == {l \in BackendLayers : Possible(l) /\ (AllLayers \/ ~Mishandled(l))}
=============================================================================
