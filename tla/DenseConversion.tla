--------------------------- MODULE DenseConversion ---------------------------
(***************************************************************************)
(* The end of load_weights and what it leaves to the forwards: the dense   *)
(* modules are converted to NVFP4 and then to FP8, or calibrated instead;  *)
(* the hyper-connection mixers follow; the frequent rows of the head are   *)
(* put aside for the draft model, which shares the head and switches to    *)
(* them by a flag of the process for the time of its forward.              *)
(***************************************************************************)
EXTENDS Naturals

CONSTANTS
    GroupsAsked     \* the lists that SGLANG_DENSE_NVFP4 and SGLANG_DENSE_FP8 may hold

VARIABLES
    env,            \* the environment variables read here
    stage,          \* what load_weights does next, then "serving"
    linear,         \* the dense modules
    fused,          \* the GDN layer computes from its fused in_proj buffer
    mixer,          \* format of the mixer weights
    aside,          \* the rows put aside: none, or their format
    active,         \* _DRAFT_SLICE["active"]
    drafting,       \* the draft's forward: "no", "begun" or "logits"
    lastLogits      \* ghost: <<model, rows>> of the last logits computed

denseVars == <<env, stage, linear, fused, mixer, aside, active, drafting, lastLogits>>

\* One module of each kind; odd has a dimension that is no multiple of 16.
Linears == {"qkvz", "ba", "out_proj", "qkv", "odd", "shared", "lm_head"}
Group(m) ==
    CASE m \in {"qkvz", "out_proj"} -> "gdn"
      [] m \in {"qkv", "odd"} -> "attn"
      [] m = "shared" -> "shared"
      [] m = "lm_head" -> "lm_head"
      [] OTHER -> "none"

\* What layer.weight holds, how often it was rounded on the way there, which
\* method reads it, whether linear-layout codes were kept, and whose memory
\* it is.
AsLoaded == [m \in Linears |->
    [weight |-> "bf16", roundings |-> 0, method |-> "loader", codes |-> FALSE,
     wrapped |-> "no", view |-> m \in {"qkvz", "ba"}]]

\* After finalize_fused_in_proj.
DenseInit ==
    /\ env \in [calib : BOOLEAN, nvfp4 : GroupsAsked, fp8 : GroupsAsked,
                hc : {"off", "fp8", "nvfp4"}, slice : BOOLEAN, bigm : {"off", "bf16"}]
    /\ stage = "calib" /\ linear = AsLoaded /\ fused = TRUE
    /\ mixer = "bf16" /\ aside = "none" /\ active = FALSE
    /\ drafting = "no" /\ lastLogits = <<"nobody", "none">>

\* _maybe_install_dense_calib: the weights stay as they are, behind a wrapper
\* that counts, and nothing else is converted.
Calibrate ==
    /\ stage = "calib"
    /\ stage' = IF env.calib THEN "serving" ELSE "nvfp4"
    /\ linear' = IF env.calib
                 THEN [m \in Linears |-> IF Group(m) \in {"gdn", "attn", "lm_head"}
                                         THEN [linear[m] EXCEPT !.wrapped = "calib"] ELSE linear[m]]
                 ELSE linear
    /\ UNCHANGED <<env, fused, mixer, aside, active, drafting, lastLogits>>

Eligible_AnyFormat(m, groups) == Group(m) \in groups /\ m # "odd"

\* A module of a group asked for whose weight is still bf16, in whole tiles.
Eligible(m, groups) ==
    /\ Group(m) \in groups
    /\ linear[m].weight = "bf16"
    /\ m # "odd"

\* One conversion stage, with the fix-up of the fused buffer: once qkvz is
\* converted the buffer is dropped, and ba, until then a view of it, copied.
Convert(groups, format, codes) ==
    LET converted == {m \in Linears : Eligible(m, groups)}
        unfuse == "qkvz" \in converted /\ fused
    IN /\ linear' = [m \in Linears |->
            IF m \in converted
            THEN [linear[m] EXCEPT !.weight = format, !.method = format,
                                   !.roundings = @ + 1, !.codes = codes, !.view = FALSE]
            ELSE IF m = "ba" /\ unfuse THEN [linear[m] EXCEPT !.view = FALSE] ELSE linear[m]]
       /\ fused' = (fused /\ ~unfuse)

\* _maybe_convert_dense_to_nvfp4; the linear codes serve the large-M path.
ConvertNvfp4 ==
    /\ stage = "nvfp4" /\ stage' = "fp8"
    /\ Convert(env.nvfp4, "nvfp4", env.bigm # "off")
    /\ UNCHANGED <<env, mixer, aside, active, drafting, lastLogits>>

\* _maybe_convert_dense_to_fp8
ConvertFp8 ==
    /\ stage = "fp8" /\ stage' = "hc"
    /\ Convert(env.fp8, "fp8", FALSE)
    /\ UNCHANGED <<env, mixer, aside, active, drafting, lastLogits>>

ConvertMixers ==
    /\ stage = "hc" /\ stage' = "slice"
    /\ mixer' = IF env.hc = "off" THEN mixer ELSE env.hc
    /\ UNCHANGED <<env, linear, fused, aside, active, drafting, lastLogits>>

\* What _maybe_prepare_draft_head_slice can cut rows from.
SliceOf(head) ==
    CASE head.method = "fp8" -> "fp8"
      [] head.method = "nvfp4" /\ head.codes -> "nvfp4"
      [] head.weight = "bf16" -> "bf16"
      [] OTHER -> "none"

PrepareSlice ==
    /\ stage = "slice" /\ stage' = "serving"
    /\ aside' = IF env.slice THEN SliceOf(linear["lm_head"]) ELSE "none"
    /\ linear' = IF aside' = "none" THEN linear
                 ELSE [linear EXCEPT !["lm_head"].wrapped = "slice"]
    /\ UNCHANGED <<env, fused, mixer, active, drafting, lastLogits>>

\* _DraftSliceAwareMethod.apply, on the head that both models share
HeadRows ==
    IF linear["lm_head"].wrapped = "slice" /\ active /\ aside # "none" THEN "frequent" ELSE "all"

\* _sdnvfp2_sliced_forward
DraftForward ==
    /\ stage = "serving" /\ drafting = "no" /\ drafting' = "begun"
    /\ active' = (active \/ aside # "none")
    /\ UNCHANGED <<env, stage, linear, fused, mixer, aside, lastLogits>>

DraftLogits ==
    /\ drafting = "begun" /\ drafting' = "logits"
    /\ lastLogits' = <<"draft", HeadRows>>
    /\ UNCHANGED <<env, stage, linear, fused, mixer, aside, active>>

DraftEnds_NoFinally(fails) ==
    /\ drafting = "logits" \/ (drafting = "begun" /\ fails)
    /\ drafting' = "no"
    /\ active' = (active /\ fails)
    /\ UNCHANGED <<env, stage, linear, fused, mixer, aside, lastLogits>>

\* The forward returns, after its logits, or raises; the finally runs in either
\* case.
DraftEnds(fails) ==
    /\ drafting = "logits" \/ (drafting = "begun" /\ fails)
    /\ drafting' = "no"
    /\ active' = (active /\ aside = "none")
    /\ UNCHANGED <<env, stage, linear, fused, mixer, aside, lastLogits>>

TargetForward ==
    /\ stage = "serving" /\ drafting = "no"
    /\ lastLogits' = <<"target", HeadRows>>
    /\ UNCHANGED <<env, stage, linear, fused, mixer, aside, active, drafting>>

DenseNext ==
    \/ Calibrate \/ ConvertNvfp4 \/ ConvertFp8 \/ ConvertMixers \/ PrepareSlice
    \/ DraftForward \/ DraftLogits \/ (\E fails \in BOOLEAN : DraftEnds(fails)) \/ TargetForward

DenseSpec == DenseInit /\ [][DenseNext]_denseVars
-----------------------------------------------------------------------------
\* When the server is up, each module's weight is rounded once at most and read
\* by the method for its format; the GDN layer does not compute from a buffer
\* that a conversion left behind, nor keep one alive that it does not use; the
\* rows put aside are rows of the head as it is now.
ForwardReadsTheLoadedWeights ==
    stage = "serving" =>
        /\ \A m \in Linears :
              /\ linear[m].roundings <= 1
              /\ linear[m].method = IF linear[m].weight = "bf16" THEN "loader" ELSE linear[m].weight
        /\ fused => linear["qkvz"].weight = "bf16"
        /\ ~fused => \A m \in Linears : ~linear[m].view
        /\ aside # "none" => aside = linear["lm_head"].weight

\* "draft steps read the slice, target verify the full head": also after a
\* draft forward that raised.
EachReadsItsRows ==
    /\ lastLogits[1] = "target" => lastLogits[2] = "all"
    /\ lastLogits[1] = "draft" /\ aside # "none" => lastLogits[2] = "frequent"
=============================================================================
