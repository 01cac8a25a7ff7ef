---------------------------- MODULE WeightLoading ----------------------------
(***************************************************************************)
(* From the checkpoint's description to the kernels: the configuration     *)
(* gives every layer its method, and the method loads the layer's weights. *)
(* One layer is followed: once it is picked, the configuration is left     *)
(* behind and only its method counts.                                      *)
(***************************************************************************)
EXTENDS QuantConfig, DenseWeights, ExpertWeights

CONSTANT Idle

VARIABLE part        \* "config", "linear" or "experts"

loadVars == <<part, quantVars, denseVars, expertVars>>

LinearKind(m) ==
    CASE m = "ModelOptFp8LinearMethod"      -> "fp8"
      [] m = "ModelOptFp4LinearMethod"      -> "fp4"
      [] m = "ModelOptNvFp4A16LinearMethod" -> "fp4a16"
      [] OTHER -> "other"
ExpertKind(m) ==
    CASE m = "ModelOptFp8MoEMethod"             -> "fp8"
      [] m = "ModelOptNvFp4FusedMoEMethod"      -> "fp4"
      [] m = "ModelOptNvFp2Lm20FusedMoEMethod"  -> "lm20"
      [] OTHER -> "other"

DenseIdle ==
    /\ linear = Idle /\ step = "idle" /\ loaded = {}
    /\ weight = Absent /\ scale = Absent /\ pack = Absent
    /\ padCols = 0 /\ outputSize = 0 /\ alpha = 0 /\ out = Absent
ExpertsIdle ==
    /\ layer = Idle /\ stage = "idle" /\ arrived = {}
    /\ w13 = << >> /\ w13Scale = << >> /\ w2 = << >> /\ scale2 = << >>
    /\ gscale = Unset /\ deinterleaved = FALSE /\ updates = 0 /\ result = Unset

Built == Parsed /\ Cardinality(DOMAIN method) = Len(checkpoint.layers)
LeaveConfiguration ==
    /\ checkpoint' = Idle /\ config' = None /\ mapped' = FALSE /\ method' = << >>

(* A linear layer, or the head, of the built model is loaded.              *)
PickLinear ==
    /\ part = "config" /\ Built
    /\ \E l \in ToSet(checkpoint.layers), shape \in Linears :
          /\ l.class \in {"linear", "lm_head"}
          /\ LinearKind(method[l.prefix]) = shape.method
          /\ linear' = shape
    /\ step' = "loading" /\ part' = "linear"
    /\ LeaveConfiguration
    /\ UNCHANGED <<loaded, weight, scale, pack, padCols, outputSize, alpha, out, expertVars>>

(* A mixture-of-experts layer of the built model is loaded.                *)
PickExperts ==
    /\ part = "config" /\ Built
    /\ \E l \in ToSet(checkpoint.layers), shape \in ExpertLayers :
          /\ l.class = "moe"
          /\ ExpertKind(method[l.prefix]) = shape.method
          /\ layer' = shape
    /\ stage' = "loading" /\ part' = "experts"
    /\ LeaveConfiguration
    /\ UNCHANGED <<arrived, w13, w13Scale, w2, scale2, gscale, deinterleaved, updates, result, denseVars>>

LoadInit == part = "config" /\ QuantInit /\ DenseIdle /\ ExpertsIdle

LoadNext ==
    \/ PickLinear
    \/ PickExperts
    \/ part = "config"  /\ QuantNext  /\ UNCHANGED <<part, denseVars, expertVars>>
    \/ part = "linear"  /\ DenseNext  /\ UNCHANGED <<part, quantVars, expertVars>>
    \/ part = "experts" /\ ExpertNext /\ UNCHANGED <<part, quantVars, denseVars>>

LoadSpec == LoadInit /\ [][LoadNext]_loadVars
=============================================================================
