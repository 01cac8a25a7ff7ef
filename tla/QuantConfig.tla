----------------------------- MODULE QuantConfig -----------------------------
(***************************************************************************)
(* How a ModelOpt checkpoint's description becomes the method that loads   *)
(* each layer: the configuration is parsed from config.json (flat) or      *)
(* hf_quant_config.json (nested), its names are mapped to the model's, and *)
(* every layer is given a method by its prefix.                            *)
(*                                                                         *)
(* A name is a sequence of syllables, "." among them.  A pattern is the    *)
(* text of a name with an optional "*" before and after it.                *)
(***************************************************************************)
EXTENDS Integers, SequencesExt

CONSTANTS
    Checkpoints,    \* what is stored and how it is described (see Section)
    Packed,         \* packed_modules_mapping: last part -> sequence of last parts
    HfPrefix, ModelPrefix,      \* the prefixes the model's name mapper swaps
    None, Refused,
    Online          \* a configuration of nvfp4_online (external)

\* Names, patterns and a mixed checkpoint's entries; a section of a description, and what
\* it is parsed to.  kv_cache_scheme is a dictionary (type, num_bits) or the name of a
\* format, "INT8" standing for all but two of them.
Names     == Seq(STRING)
Patterns  == [lead : BOOLEAN, text : Names, trail : BOOLEAN]
Listing   == [name : Names, algo : STRING, group : Nat \cup {None}]
Listings  == Seq(Listing)
KvFormats == {"FP8", "NVFP4", "INT8", "auto", None}
Schemes   == [dict : BOOLEAN, of : {"FP8", "NVFP4", "INT8"}]
Sections  == [algo : STRING \cup {None}, scheme : Schemes \cup {None}, kv : KvFormats,
              group : Nat \cup {None}, groups : Seq(Nat \cup {None}),
              exclude : SUBSET Patterns, layers : Listings]
Configs   == [class : {"fp8", "fp4", "mixed"}, serialized : BOOLEAN, kv : KvFormats,
              group : Nat \cup {None}, exclude : SUBSET Patterns, layers : Listings]

ASSUME QuantAssumption ==
    /\ None # Refused /\ None # Online /\ Refused # Online
    /\ {None, Refused, Online} \cap Configs = {}
    /\ None \notin {"FP8", "NVFP4", "NVFP4_AWQ", "INT8", "auto", "MIXED_PRECISION"}
    /\ None \notin Schemes
    /\ HfPrefix \in Names /\ ModelPrefix \in Names
    /\ \A c \in Checkpoints :
          /\ c.class \in {"fp8", "fp4", "mixed"}
          /\ c.description.top \in Sections /\ c.description.quantization \in Sections

VARIABLES
    checkpoint,
    config,         \* the parsed configuration, or None, Refused or Online
    mapped,         \* apply_weight_name_mapper was called
    method          \* layer prefix -> the method chosen for it

quantVars == <<checkpoint, config, mapped, method>>

Upto(name, i) == SubSeq(name, 1, i)
After(name, i) == SubSeq(name, i + 1, Len(name))

LastDot(name) == IF "." \in ToSet(name) THEN SelectLastInSeq(name, LAMBDA s : s = ".") ELSE 0
LastPart(name) == After(name, LastDot(name))
Base(name) == IF LastDot(name) = 0 THEN name ELSE Upto(name, LastDot(name) - 1)
Replaced(name, old, new) == IF IsPrefix(old, name) THEN new \o After(name, Len(old)) ELSE name

Parts(name) ==
    {SubSeq(name, i, j) : i \in {k \in 1 .. Len(name) : k = 1 \/ name[k - 1] = "."},
                          j \in {k \in 1 .. Len(name) : k = Len(name) \/ name[k + 1] = "."}}
        \ {p \in {SubSeq(name, i, j) : i, j \in 1 .. Len(name)} : "." \in ToSet(p)}

HasText(name, text) ==
    \E i \in 0 .. Len(name) - Len(text) : SubSeq(name, i + 1, i + Len(text)) = text

FullMatch(pattern, name) ==
    CASE pattern.lead /\ pattern.trail   -> HasText(name, pattern.text)
      [] pattern.lead /\ ~pattern.trail  -> IsSuffix(pattern.text, name)
      [] ~pattern.lead /\ pattern.trail  -> IsPrefix(pattern.text, name)
      [] ~pattern.lead /\ ~pattern.trail -> pattern.text = name

-----------------------------------------------------------------------------
(* Parsing.  A description has a section at the top and one under          *)
(* "quantization"; a field that is not there is None.                      *)

Section(d) == IF d.top.algo # None THEN d.top ELSE d.quantization
IsFlat(d)  == d.top.algo # None

\* The KV cache format, as each class reads it: the scheme where the class knows its form,
\* else the field.
HasDict(d) == IsFlat(d) /\ Section(d).scheme # None /\ Section(d).scheme.dict
HasName(d) == IsFlat(d) /\ Section(d).scheme # None /\ ~Section(d).scheme.dict
Known(format, formats, default) == IF format \in formats THEN format ELSE default
Field(d, default) == IF Section(d).kv = None THEN default ELSE Section(d).kv

KvFp8(d) ==
    IF HasDict(d) THEN Known(Section(d).scheme.of, {"FP8"}, None) ELSE Field(d, None)
KvFp4(d) ==
    CASE HasDict(d) -> Known(Section(d).scheme.of, {"FP8"}, "auto")
      [] HasName(d) -> Known(Section(d).scheme.of, {"FP8", "NVFP4"}, "auto")
      [] OTHER      -> Field(d, "auto")
KvMixed(d) ==
    IF HasDict(d) THEN Known(Section(d).scheme.of, {"FP8", "NVFP4"}, "auto") ELSE Field(d, None)

\* The first of the top level, of the first group's weights, of the default; or the only
\* one anywhere.
FlatGroup_NoDefault(s) ==
    IF s.group = None /\ s.groups # << >> THEN Head(s.groups) ELSE s.group
SerializedAlgos == {"NVFP4", "NVFP4_AWQ"}
FlatGroup(s) ==
    CASE s.group # None -> s.group
      [] s.group = None /\ s.groups # << >> /\ Head(s.groups) # None -> Head(s.groups)
      [] OTHER -> IF s.algo \in SerializedAlgos THEN 16 ELSE None
CommonGroupSize(d) ==
    LET sizes == ({d.top.group, d.quantization.group} \cup ToSet(d.top.groups)) \ {None}
    IN  IF \E g \in sizes : sizes = {g} THEN CHOOSE g \in sizes : TRUE ELSE None

Config(class, d, kv, group) ==
    [class |-> class, serialized |-> Section(d).algo # "FP8" \/ class = "fp8", kv |-> kv, group |-> group,
     exclude |-> Section(d).exclude, layers |-> Section(d).layers]

ParseFp8(d) ==
    IF Section(d).algo = "FP8" THEN Config("fp8", d, KvFp8(d), None) ELSE Refused

ParseFp4(d) ==
    LET group == IF IsFlat(d) THEN FlatGroup(Section(d)) ELSE CommonGroupSize(d)
    IN  CASE d.method = "fp8" -> Online
          [] d.method # "fp8" /\ Section(d).algo \in SerializedAlgos \cup {"FP8"} /\ group # None ->
                Config("fp4", d, KvFp4(d), group)
          [] OTHER -> Refused

Fp4Algos == {"NVFP4", "W4A16_NVFP4"}
ParseMixed(d) ==
    LET layers == Section(d).layers
        fp4    == {i \in DOMAIN layers : layers[i].algo \in Fp4Algos}
    IN  IF Section(d).algo = "MIXED_PRECISION" /\ layers # << >>
        THEN Config("mixed", d, KvMixed(d),
                    IF fp4 = {} \/ layers[Min(fp4)].group = None THEN 16 ELSE layers[Min(fp4)].group)
        ELSE Refused

Parse ==
    /\ config = None
    /\ config' = CASE checkpoint.class = "fp8"   -> ParseFp8(checkpoint.description)
                   [] checkpoint.class = "fp4"   -> ParseFp4(checkpoint.description)
                   [] checkpoint.class = "mixed" -> ParseMixed(checkpoint.description)
    /\ UNCHANGED <<checkpoint, mapped, method>>

-----------------------------------------------------------------------------
(* The model's mapper renames the patterns; one that then starts with      *)
(* "language_model." also counts without it, "language_model.*" as "*".    *)

LanguageModel == <<"language_model", ".">>
Variants(name) ==
    {name} \cup (IF IsPrefix(LanguageModel, name) THEN {After(name, Len(LanguageModel))} ELSE {})

Renamed(name) == Replaced(name, HfPrefix, ModelPrefix)
MappedExclude(patterns) ==
    UNION {{[p EXCEPT !.text = t] :
                t \in IF p.lead THEN {p.text} ELSE Variants(Renamed(p.text))} : p \in patterns}

MappedLayers(layers) ==
    [i \in DOMAIN layers |-> [layers[i] EXCEPT !.name = Renamed(@)]]

Parsed == config \notin {None, Refused, Online}

ApplyWeightNameMapper ==
    /\ Parsed /\ ~mapped /\ method = << >>
    /\ checkpoint.mapper
    /\ config' = [config EXCEPT
            !.exclude = MappedExclude(@),
            !.layers = MappedLayers(@)]
    /\ mapped' = TRUE
    /\ UNCHANGED <<checkpoint, method>>

-----------------------------------------------------------------------------
(* Exclusion.                                                              *)

FusedPatterns == {<<"q", "_a_proj">>, <<"q", "_b_proj">>,
                  <<"kv", "_a_proj", "_with_mqa">>, <<"kv", "_b_proj">>}

\* The last part of the pattern, the stars in it included.
FusedTail(p) ==
    /\ LastPart(p.text) \in FusedPatterns
    /\ ~p.trail /\ (p.lead => "." \in ToSet(p.text))

IsLayerExcluded(prefix) ==
    \E p \in config.exclude, name \in Variants(prefix) :
        \/ \E s \in {name} \cup Parts(name) : FullMatch(p, s)
        \/ FusedTail(p) /\ HasText(LastPart(name), LastPart(p.text))

Shards(prefix) ==
    IF LastPart(prefix) \in DOMAIN Packed
    THEN {Upto(prefix, LastDot(prefix)) \o s : s \in ToSet(Packed[LastPart(prefix)])}
    ELSE {prefix}

\* is_layer_skipped (external): the shards that are listed by name; some but not all of
\* them is an error.
Skipped(prefix) ==
    {s \in Shards(prefix) : [lead |-> FALSE, text |-> s, trail |-> FALSE] \in config.exclude}

Excluded(prefix) ==
    CASE Skipped(prefix) # {} /\ Skipped(prefix) # Shards(prefix) -> "refused"
      [] Skipped(prefix) = Shards(prefix) -> "yes"
      [] OTHER -> IF IsLayerExcluded(prefix) THEN "yes" ELSE "no"

-----------------------------------------------------------------------------
(* The algorithm of a layer of a mixed checkpoint: that of its own entry,  *)
(* of its shards, or of the first entry below it.                          *)

Candidates(prefix) ==
    LET hf    == <<"model", ".", "language_model", ".">>
        model == <<"language_model", ".", "model", ".">>
        tail  == <<".", "lm_head">>
    IN  <<prefix>>
          \o (IF IsSuffix(tail, prefix) THEN << <<"lm_head">> >> ELSE << >>)
          \o (CASE IsPrefix(model, prefix) -> <<Replaced(prefix, model, hf)>>
                [] IsPrefix(hf, prefix)    -> <<Replaced(prefix, hf, model)>>
                [] OTHER -> << >>)

AlgoOf(name) == {l.algo : l \in {m \in ToSet(config.layers) : m.name = name}}
Below(name) == {i \in DOMAIN config.layers : IsPrefix(name \o <<".">>, config.layers[i].name)}

First(names, Algos(_)) ==
    LET hits == {i \in DOMAIN names : Algos(names[i]) # {}}
    IN  IF hits = {} THEN {} ELSE Algos(names[Min(hits)])

ShardAlgos_OfTheFirst(prefix) ==
    IF LastPart(prefix) \in DOMAIN Packed
    THEN AlgoOf(Base(prefix) \o <<".">> \o Head(Packed[LastPart(prefix)])) ELSE {}
ShardAlgos(prefix) ==
    IF LastPart(prefix) \in DOMAIN Packed
    THEN UNION {AlgoOf(base \o <<".">> \o s) :
                    base \in ToSet(Candidates(Base(prefix))), s \in ToSet(Packed[LastPart(prefix)])}
    ELSE {}

FirstBelow(name) ==
    IF Below(name) = {} THEN {} ELSE {config.layers[Min(Below(name))].algo}

ResolveQuantAlgo(prefix) ==
    LET own   == First(Candidates(prefix), AlgoOf)
        below == First(Candidates(prefix), FirstBelow)
    IN  CASE own # {} -> own
          [] own = {} /\ ShardAlgos(prefix) # {} -> ShardAlgos(prefix)
          [] OTHER -> below

-----------------------------------------------------------------------------
(* get_quant_method.                                                       *)

Uniform == IF config.class = "fp8" THEN "FP8" ELSE "NVFP4"
Algos(prefix) == IF config.class = "mixed" THEN ResolveQuantAlgo(prefix) ELSE {Uniform}

LinearMethod(algos) ==
    CASE algos = {"FP8"}         -> "ModelOptFp8LinearMethod"
      [] algos = {"MXFP8"}       -> "Fp8LinearMethod"
      [] algos = {"NVFP4"}       -> "ModelOptFp4LinearMethod"
      [] algos = {"W4A16_NVFP4"} -> "ModelOptNvFp4A16LinearMethod"
      [] algos = {}              -> "Unquantized"

MoeMethod(algos) ==
    CASE algos = {"FP8"}   -> "ModelOptFp8MoEMethod"
      [] algos = {"MXFP8"} -> "Fp8MoEMethod"
      [] algos # {} /\ algos \subseteq Fp4Algos ->
            IF config.class = "fp4" /\ checkpoint.lm20 THEN "ModelOptNvFp2Lm20FusedMoEMethod"
                                                       ELSE "ModelOptNvFp4FusedMoEMethod"
      [] algos = {} -> "Unquantized"

EmbeddingMethod(algos) ==
    IF config.class = "mixed" /\ algos = {"NVFP4"} THEN "ModelOptNvFp4EmbeddingMethod"
                                                   ELSE "Unquantized"

\* The 4-bit class over a checkpoint that is not stored in 4 bits: the experts alone are
\* quantized while they are loaded.
OnlineMethod(layer) ==
    CASE layer.class = "moe" /\ ~IsLayerExcluded(layer.prefix) -> "ModelOptNvFp4FusedMoEMethod"
      [] layer.class = "attention" -> "None"
      [] OTHER -> "Unquantized"

SerializedMethod(layer) ==
    LET algos    == Algos(layer.prefix)
        excluded == Excluded(layer.prefix)
    IN  CASE Cardinality(algos) > 1 -> "refused"
          [] layer.class = "attention" -> IF config.kv # None THEN "ModelOptFp8KVCacheMethod" ELSE "None"
          [] layer.class = "moe" ->
                IF IsLayerExcluded(layer.prefix) THEN "Unquantized" ELSE MoeMethod(algos)
          [] layer.class # "attention" /\ layer.class # "moe" /\ excluded = "refused" -> "refused"
          [] layer.class = "embedding" ->
                IF excluded = "yes" THEN "Unquantized" ELSE EmbeddingMethod(algos)
          [] OTHER -> IF excluded = "yes" THEN "Unquantized" ELSE LinearMethod(algos)

MethodFor(layer) == IF config.serialized THEN SerializedMethod(layer) ELSE OnlineMethod(layer)

(* The model's modules are built one after the other, once the names are   *)
(* mapped, and each asks for its method.                                   *)
GetQuantMethod ==
    LET built == Cardinality(DOMAIN method)
        layer == checkpoint.layers[built + 1]
    IN  /\ Parsed /\ mapped = checkpoint.mapper
        /\ built < Len(checkpoint.layers)
        /\ method' = [p \in DOMAIN method \cup {layer.prefix} |->
                        IF p = layer.prefix THEN MethodFor(layer) ELSE method[p]]
        /\ UNCHANGED <<checkpoint, config, mapped>>

QuantInit ==
    /\ checkpoint \in Checkpoints
    /\ config = None /\ mapped = FALSE /\ method = << >>

QuantNext ==
    \/ Parse
    \/ ApplyWeightNameMapper
    \/ GetQuantMethod

QuantSpec == QuantInit /\ [][QuantNext]_quantVars

-----------------------------------------------------------------------------
(* What each method takes the tensors it loads to be.                      *)
Reads(m) ==
    CASE m \in {"ModelOptFp8LinearMethod", "ModelOptFp8MoEMethod"} -> {"FP8"}
      [] m \in {"Fp8LinearMethod", "Fp8MoEMethod"} -> {"MXFP8"}
      [] m \in {"ModelOptFp4LinearMethod", "ModelOptNvFp4EmbeddingMethod"} -> {"NVFP4"}
      [] m = "ModelOptNvFp4A16LinearMethod" -> {"W4A16_NVFP4"}
      [] m = "ModelOptNvFp4FusedMoEMethod"  -> IF config.serialized THEN Fp4Algos ELSE {"FP8", "BF16"}
      [] m = "ModelOptNvFp2Lm20FusedMoEMethod" -> {"NVFP2"}
      [] m = "Unquantized" -> {"BF16"}

(* A form of the KV cache's description that the class does not read.      *)
Overlooked ==
    LET d  == checkpoint.description
        of == Section(d).scheme.of
    IN  CASE checkpoint.class = "fp8"   -> HasName(d) \/ (HasDict(d) /\ of # "FP8")
          [] checkpoint.class = "fp4"   -> HasDict(d) /\ of # "FP8"
          [] checkpoint.class = "mixed" -> HasName(d)

(* Both descriptions of a checkpoint parse to what it stores: the same     *)
(* scale group, exclusions and KV cache format, which is left open only    *)
(* where it is none of the two known ones or in a form the class does not  *)
(* read; only a description that contradicts itself is refused             *)
(* (ModelOptFp4Config.from_config and the other two, 422, 772, 1439).      *)
DescriptionIsUnderstood ==
    config \notin {None, Online} =>
        IF config = Refused THEN checkpoint.contradictory
        ELSE /\ \/ config.kv = checkpoint.kv
                \/ config.kv \in {None, "auto"} /\ (checkpoint.kv \notin {"FP8", "NVFP4"} \/ Overlooked)
             /\ config.class # "fp8" => config.group = checkpoint.group
             /\ ~mapped => config.exclude = checkpoint.exclude

(* Every layer is loaded by the method for the format all its tensors are  *)
(* stored in, found through excluded patterns, packed projections, renamed *)
(* prefixes and entries below it; a packed projection of several formats   *)
(* is refused, not loaded in one of them.                                  *)
MethodsReadTheirTensors ==
    Parsed =>
    \A layer \in {l \in ToSet(checkpoint.layers) : l.prefix \in DOMAIN method /\ l.class # "attention"} :
        LET stored == {checkpoint.stored[s] : s \in layer.sources}
        IN  IF method[layer.prefix] = "refused" THEN Cardinality(stored) > 1
            ELSE \E algo \in Reads(method[layer.prefix]) : stored = {algo}
=============================================================================
