---------------------------- MODULE PlePrefetchGate ----------------------------
(***************************************************************************)
(* The gate that decides, per gather of the mmap'd PLE table, whether to   *)
(* advise the kernel about its pages first.  It cannot ask whether a page  *)
(* is resident: it reads the process's major-fault counter at every call   *)
(* and attributes the growth since the last large gather to that gather.   *)
(* A gather that was not advised (a probe, or one made while the gate is   *)
(* off) steers the gate.                                                   *)
(*                                                                         *)
(* Faults are counted in three classes, set apart by the two thresholds:   *)
(* "few" (below OFF_FAULTS), "some", "many" (above ON_FAULTS).  The faults *)
(* of a gather have all happened when the next gate call reads the counter *)
(* (the forward in between waits for the device).                          *)
(***************************************************************************)
EXTENDS Naturals, Sequences

CONSTANTS
    OffProbes,      \* _PLE_PF_OFF_PROBES
    ProbeEvery,     \* _PLE_PF_PROBE_EVERY
    MaxNoise,       \* bound: times unrelated faults happen
    MaxBlind        \* bound: times the fault counter cannot be read

ASSUME GateAssumption ==
    /\ OffProbes \in Nat \ {0}
    /\ ProbeEvery \in Nat \ {0, 1}
    /\ MaxNoise \in Nat /\ MaxBlind \in Nat

Heats == {"warm", "tepid", "cold"}
Classes == {"few", "some", "many"}
Modes == {"auto", "on"}

\* Major faults of an unadvised large gather.
FaultsOf(h) == [warm |-> "few", tepid |-> "some", cold |-> "many"][h]

Worse(c, d) ==
    IF "many" \in {c, d} THEN "many" ELSE IF "some" \in {c, d} THEN "some" ELSE "few"

\* Bound of the ghost `slow`, beyond what is allowed.
SlowCap == MaxBlind + 3

NoPending == [did |-> TRUE, blind |-> FALSE, there |-> FALSE]

VARIABLES
    mode,       \* SGLANG_PLE_PREFETCH
    heat,       \* how much of what is gathered is not resident
    on,         \* st["on"]
    lowProbes,  \* st["low_probes"]
    calls,      \* st["calls"], modulo ProbeEvery
    pending,    \* st["pending"]: whether advised, whether its reading failed
    since,      \* faults since that reading
    noise,      \* bursts of unrelated faults so far
    blind,      \* failed readings so far
    probed,     \* ghost: heats of the last OffProbes unadvised large gathers
    slow        \* ghost: cold large gathers in a row the gate left unadvised

gateVars == <<mode, heat, on, lowProbes, calls, pending, since, noise, blind, probed, slow>>

(***************************************************************************)
(* 1) attribute the previous large gather's faults.  A reading that failed *)
(* was recorded as -1, which makes the difference the process's lifetime   *)
(* count.                                                                  *)
(***************************************************************************)
Faults == IF pending.blind THEN "many" ELSE since

Observe_AdvisedToo ==
    IF on
    THEN /\ on' = ~(Faults = "few" /\ lowProbes + 1 >= OffProbes)
         /\ lowProbes' = IF Faults = "few" /\ on' THEN lowProbes + 1 ELSE 0
    ELSE /\ on' = (Faults = "many")
         /\ lowProbes' = IF on' THEN 0 ELSE lowProbes

Observe_OffForGood ==
    IF pending.did THEN UNCHANGED <<on, lowProbes>>
    ELSE IF on
    THEN /\ on' = ~(Faults = "few" /\ lowProbes + 1 >= OffProbes)
         /\ lowProbes' = IF Faults = "few" /\ on' THEN lowProbes + 1 ELSE 0
    ELSE UNCHANGED <<on, lowProbes>>

Observe ==
    IF pending.did THEN UNCHANGED <<on, lowProbes>>
    ELSE IF on
    THEN /\ on' = ~(Faults = "few" /\ lowProbes + 1 >= OffProbes)
         /\ lowProbes' = IF Faults = "few" /\ on' THEN lowProbes + 1 ELSE 0
    ELSE /\ on' = (Faults = "many")
         /\ lowProbes' = IF on' THEN 0 ELSE lowProbes

Attribute(readable) ==
    IF pending.there /\ readable THEN Observe ELSE UNCHANGED <<on, lowProbes>>

Blinded(readable) ==
    /\ ~readable => blind < MaxBlind
    /\ blind' = IF readable THEN blind ELSE blind + 1

\* A decode-sized gather only delivers the observation.
SmallGather(readable) ==
    /\ Attribute(readable)
    /\ Blinded(readable)
    /\ pending' = IF readable THEN NoPending ELSE pending
    /\ UNCHANGED <<mode, heat, calls, since, noise, probed, slow>>

Want_BeforeAttribution(call) == mode = "on" \/ (on /\ call # 0)

Want_NoProbes(call) == mode = "on" \/ on'

\* 2) decide for this call.
Want(call) == mode = "on" \/ (on' /\ call # 0)

\* A prefill-sized gather.  The advice may fail, and then counts as not given.
LargeGather(readable, advisable) ==
    LET call == (calls + 1) % ProbeEvery
        did == Want(call) /\ advisable
    IN
    /\ Attribute(readable)
    /\ Blinded(readable)
    /\ calls' = call
    /\ pending' = [did |-> did, blind |-> ~readable, there |-> TRUE]
    /\ since' = IF did THEN "few" ELSE FaultsOf(heat)
    /\ probed' = IF did THEN probed
                 ELSE LET all == Append(probed, heat) IN
                      SubSeq(all, IF Len(all) > OffProbes THEN 2 ELSE 1, Len(all))
    /\ slow' = IF Want(call) \/ heat # "cold" THEN 0
               ELSE IF slow < SlowCap THEN slow + 1 ELSE slow
    /\ UNCHANGED <<mode, heat, noise>>

\* The page cache takes the table's pages in, or other memory evicts them.
Drift ==
    /\ heat' \in Heats \ {heat}
    /\ UNCHANGED <<mode, on, lowProbes, calls, pending, since, noise, blind, probed, slow>>

\* Faults of anything else the process maps.
Noise ==
    /\ noise < MaxNoise
    /\ noise' = noise + 1
    /\ since' \in {Worse(since, c) : c \in Classes}
    /\ UNCHANGED <<mode, heat, on, lowProbes, calls, pending, blind, probed, slow>>

GateInit ==
    /\ mode \in Modes /\ heat \in Heats
    /\ on = TRUE /\ lowProbes = 0 /\ calls = 0
    /\ pending = NoPending /\ since = "few"
    /\ noise = 0 /\ blind = 0 /\ probed = <<>> /\ slow = 0

GateNext ==
    \/ \E readable \in BOOLEAN :
        \/ SmallGather(readable)
        \/ \E advisable \in BOOLEAN : LargeGather(readable, advisable)
    \/ Drift
    \/ Noise

GateSpec == GateInit /\ [][GateNext]_gateVars

\* Prefill chunks keep coming and their pages can be advised.
GateFairSpec == GateSpec /\ WF_gateVars(LargeGather(TRUE, TRUE))
-----------------------------------------------------------------------------
GateTypeOK ==
    /\ mode \in Modes /\ heat \in Heats
    /\ on \in BOOLEAN
    /\ lowProbes \in 0 .. OffProbes - 1
    /\ calls \in 0 .. ProbeEvery - 1
    /\ pending \in [did : BOOLEAN, blind : BOOLEAN, there : BOOLEAN]
    /\ since \in Classes
    /\ noise \in 0 .. MaxNoise /\ blind \in 0 .. MaxBlind
    /\ probed \in Seq(Heats)
    /\ slow \in 0 .. SlowCap

\* The gate gives up on advising only after its last OffProbes unadvised
\* gathers all found their pages resident: an advised gather never counts, and
\* one that faulted starts the count again.
AllProbesWarm == probed = [i \in 1 .. OffProbes |-> "warm"]

OffOnlyWhenWarm == [][on /\ ~on' => AllProbesWarm \/ blind > 0]_gateVars

\* "the first cold one turns it back on": the gate lets at most two cold
\* gathers in a row go unadvised, the one that tells it and, when that one is
\* followed by the turn of a probe, the probe.  A reading that failed costs one
\* gather more.
ColdGatherIsNoticed == slow <= 2 + blind

\* On a table that stays warm the gate goes off for good ...
WarmTableIsLeftAlone ==
    <>[](mode = "auto" /\ heat = "warm") => <>[]~on

\* ... and on one that stays cold it comes on for good.
ColdTableIsAdvised ==
    <>[](mode = "auto" /\ heat = "cold") => <>[]on
=============================================================================
