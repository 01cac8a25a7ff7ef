---------------------------- MODULE PleLookupProofs ----------------------------
(***************************************************************************)
(* The ways a PLE row reaches its layer, for every size of the constants:  *)
(* what the advise gate misses, that the device cache is lossless while    *)
(* misses do not collide, and that a lookahead uses its own forward's rows *)
(* however far the host runs ahead.                                        *)
(***************************************************************************)
EXTENDS PleLookup, SequenceTheorems, TLAPS

-----------------------------------------------------------------------------
(* The advise gate.                                                        *)

\* A pending observation that will turn the gate on (or keep it on) when it is
\* attributed: it was not advised and its faults are many, or its reading failed.
PendingMany == pending.there /\ ~pending.did /\ (pending.blind \/ since = "many")

\* After a cold gather was left unadvised the gate is about to know or knows it.
KnowsInv == slow > 0 => PendingMany \/ (~pending.there /\ on)

\* It misses one gather, one for each failed reading, and one when the turn of a
\* probe follows.
SlowInv == slow <= 1 + blind \/ (slow = 2 + blind /\ on /\ calls = 0)

Unobserved == pending.there /\ ~pending.did

\* Where the probes that lowProbes counts lie in the history of probes: before the
\* pending one, when one is pending.
Counted == IF Unobserved THEN (Len(probed) - lowProbes) .. (Len(probed) - 1)
           ELSE (Len(probed) - lowProbes + 1) .. Len(probed)

ProbesInv ==
    blind = 0 =>
      /\ ~pending.blind
      /\ Len(probed) <= OffProbes
      /\ Len(probed) >= lowProbes + (IF Unobserved THEN 1 ELSE 0)
      /\ \A i \in Counted : probed[i] = "warm"
      /\ Unobserved /\ since = "few" => probed[Len(probed)] = "warm"
      /\ ~on => lowProbes = 0

GateInv == GateTypeOK /\ KnowsInv /\ SlowInv /\ ProbesInv

\* What an attribution does to the gate, by what is pending.
LEMMA AttributeStep ==
  ASSUME GateTypeOK, NEW readable \in BOOLEAN, Attribute(readable)
  PROVE  /\ on' \in BOOLEAN /\ lowProbes' \in 0 .. OffProbes - 1
         /\ ~readable \/ ~Unobserved => on' = on /\ lowProbes' = lowProbes
         /\ readable /\ Unobserved /\ Faults # "few" =>
              /\ on => on'
              /\ lowProbes' = IF on \/ on' THEN 0 ELSE lowProbes
         /\ readable /\ Unobserved /\ Faults = "few" /\ ~on =>
              ~on' /\ lowProbes' = lowProbes
         /\ readable /\ Unobserved /\ Faults = "few" /\ on /\ lowProbes + 1 >= OffProbes =>
              ~on' /\ lowProbes' = 0
         /\ readable /\ Unobserved /\ Faults = "few" /\ on /\ lowProbes + 1 < OffProbes =>
              on' /\ lowProbes' = lowProbes + 1
         /\ readable /\ PendingMany => on'
  <1> USE GateAssumption
  <1>1. /\ on \in BOOLEAN /\ lowProbes \in 0 .. OffProbes - 1
        /\ pending.did \in BOOLEAN /\ pending.there \in BOOLEAN
        /\ OffProbes \in Nat \ {0}
      BY DEF GateTypeOK
  <1>2. CASE readable /\ Unobserved
    <2>1. Observe /\ ~pending.did
        BY <1>2 DEF Attribute, Unobserved
    <2>2. CASE on
      <3>1. /\ on' = ~(Faults = "few" /\ lowProbes + 1 >= OffProbes)
            /\ lowProbes' = IF Faults = "few" /\ on' THEN lowProbes + 1 ELSE 0
          BY <2>1, <2>2 DEF Observe
      <3>2. PendingMany => Faults = "many"
          BY DEF PendingMany, Faults
      <3>3. CASE Faults = "few" /\ lowProbes + 1 >= OffProbes
        <4>1. on' = FALSE /\ lowProbes' = 0
            BY <3>1, <3>3
        <4>2. ~PendingMany
            BY <3>2, <3>3
        <4>3. lowProbes' \in 0 .. OffProbes - 1
            BY <4>1, <1>1
        <4>4. ~(lowProbes + 1 < OffProbes)
            BY <3>3, <1>1
        <4>5. QED
            BY <4>1, <4>2, <4>3, <4>4, <3>3, <1>2, <2>2
      <3>4. CASE ~(Faults = "few" /\ lowProbes + 1 >= OffProbes)
        <4>1. on' = TRUE
            BY <3>1, <3>4
        <4>2. lowProbes' = IF Faults = "few" THEN lowProbes + 1 ELSE 0
            BY <3>1, <4>1
        <4>3. CASE Faults = "few"
            BY <4>1, <4>2, <4>3, <3>2, <3>4, <1>1, <1>2, <2>2
        <4>4. CASE Faults # "few"
            BY <4>1, <4>2, <4>4, <1>1, <1>2, <2>2
        <4>5. QED
            BY <4>3, <4>4
      <3>5. QED
          BY <3>3, <3>4
    <2>3. CASE ~on
      <3>1. /\ on' = (Faults = "many")
            /\ lowProbes' = IF on' THEN 0 ELSE lowProbes
          BY <2>1, <2>3 DEF Observe
      <3>2. PendingMany => Faults = "many"
          BY DEF PendingMany, Faults
      <3>3. QED
        <4>1. CASE Faults = "many"
          <5>1. on' = TRUE /\ lowProbes' = 0
              BY <3>1, <4>1
          <5>2. QED
              BY <5>1, <4>1, <1>1, <1>2, <2>3
        <4>2. CASE Faults # "many"
          <5>1. on' = FALSE /\ lowProbes' = lowProbes
              BY <3>1, <4>2
          <5>2. QED
              BY <5>1, <3>2, <4>2, <1>1, <1>2, <2>3
        <4>3. QED
            BY <4>1, <4>2
    <2>4. QED
        BY <2>2, <2>3
  <1>3. CASE ~(readable /\ Unobserved)
    <2>1. on' = on /\ lowProbes' = lowProbes
        BY <1>1, <1>3 DEF Attribute, Unobserved, Observe
    <2>2. QED
        BY <1>1, <1>3, <2>1 DEF PendingMany, Unobserved
  <1>4. QED
      BY <1>2, <1>3

\* Once the pending observation is attributed, the probes that lowProbes counts are
\* the last ones made, all warm.
LEMMA AttributedProbes ==
  ASSUME GateInv, Attribute(TRUE), blind = 0
  PROVE  /\ Len(probed) >= lowProbes'
         /\ \A i \in (Len(probed) - lowProbes' + 1) .. Len(probed) : probed[i] = "warm"
         /\ ~on' => lowProbes' = 0
  <1> USE GateAssumption
  <1>1. /\ on \in BOOLEAN /\ lowProbes \in 0 .. OffProbes - 1 /\ probed \in Seq(Heats)
        /\ GateTypeOK
      BY DEF GateInv, GateTypeOK
  <1>2. /\ ~pending.blind /\ (~on => lowProbes = 0)
        /\ Len(probed) >= lowProbes + (IF Unobserved THEN 1 ELSE 0)
        /\ \A i \in Counted : probed[i] = "warm"
        /\ Unobserved /\ since = "few" => probed[Len(probed)] = "warm"
      BY DEF GateInv, ProbesInv
  <1>3. Len(probed) \in Nat
      BY <1>1
  <1>4. CASE ~Unobserved
    <2>1. on' = on /\ lowProbes' = lowProbes
        BY <1>1, <1>4, AttributeStep
    <2>2. QED
        BY <1>1, <1>2, <1>3, <1>4, <2>1 DEF Counted
  <1>5. CASE Unobserved /\ Faults # "few"
    <2>1. lowProbes' = 0
        BY <1>1, <1>2, <1>5, AttributeStep
    <2>2. QED
        BY <1>3, <2>1
  <1>6. CASE Unobserved /\ Faults = "few"
    <2>1. since = "few"
        BY <1>2, <1>6 DEF Faults
    <2>2. CASE ~on
      <3>1. lowProbes' = 0
          BY <1>1, <1>2, <1>6, <2>2, AttributeStep
      <3>2. QED
          BY <1>3, <3>1
    <2>3. CASE on /\ lowProbes + 1 >= OffProbes
      <3>1. lowProbes' = 0
          BY <1>1, <1>6, <2>3, AttributeStep
      <3>2. QED
          BY <1>3, <3>1
    <2>4. CASE on /\ lowProbes + 1 < OffProbes
      <3>1. on' /\ lowProbes' = lowProbes + 1
          BY <1>1, <1>6, <2>4, AttributeStep
      <3>2. \A i \in (Len(probed) - lowProbes) .. Len(probed) :
              i \in Counted \/ i = Len(probed)
          BY <1>1, <1>3, <1>6 DEF Counted
      <3>3. QED
          BY <1>1, <1>2, <1>3, <1>6, <2>1, <3>1, <3>2
    <2>5. QED
        BY <1>1, <2>2, <2>3, <2>4
  <1>7. QED
      BY <1>4, <1>5, <1>6

\* The probes seen so far are kept and this one is added; a full record loses its first.
OneMoreProbe(kept) ==
  /\ kept \in Seq(Heats)
  /\ \E s \in {0, 1} :
       /\ Len(kept) = Len(probed) + 1 - s
       /\ s = 1 <=> Len(probed) + 1 > OffProbes
       /\ kept[Len(kept)] = heat
       /\ \A i \in 1 .. Len(kept) - 1 : kept[i] = probed[i + s]

\* The history of probes after one more, of which the oldest may have been dropped.
LEMMA ProbeAppended ==
  ASSUME GateTypeOK,
         NEW all, all = Append(probed, heat),
         NEW kept, kept = SubSeq(all, IF Len(all) > OffProbes THEN 2 ELSE 1, Len(all))
  PROVE  OneMoreProbe(kept)
  <1> USE GateAssumption
  <1>1. probed \in Seq(Heats) /\ heat \in Heats /\ Len(probed) \in Nat
      BY DEF GateTypeOK
  <1>2. /\ all \in Seq(Heats) /\ Len(all) = Len(probed) + 1
        /\ all[Len(probed) + 1] = heat
        /\ \A i \in 1 .. Len(probed) : all[i] = probed[i]
      BY <1>1, AppendProperties
  <1>3. CASE Len(all) > OffProbes
    <2>1. kept = SubSeq(all, 2, Len(all))
        BY <1>3
    <2>2. /\ kept \in Seq(Heats) /\ Len(kept) = Len(all) - 1
          /\ \A i \in 1 .. Len(kept) : kept[i] = all[i + 1]
      <3>1. \A i \in 2 .. Len(all) : all[i] \in Heats
          BY <1>1, <1>2
      <3>2. 2 <= Len(all) /\ Len(all) \in Int
          BY <1>1, <1>2, <1>3
      <3>3. QED
          BY <2>1, <3>1, <3>2, SubSeqProperties
    <2>3. /\ Len(kept) = Len(probed) + 1 - 1 /\ Len(probed) + 1 > OffProbes
          /\ kept[Len(kept)] = heat
          /\ \A i \in 1 .. Len(kept) - 1 : kept[i] = probed[i + 1]
        BY <1>1, <1>2, <1>3, <2>2
    <2>4. QED
        BY <2>2, <2>3 DEF OneMoreProbe
  <1>4. CASE ~(Len(all) > OffProbes)
    <2>1. kept = SubSeq(all, 1, Len(all))
        BY <1>4
    <2>2. /\ kept \in Seq(Heats) /\ Len(kept) = Len(all)
          /\ \A i \in 1 .. Len(kept) : kept[i] = all[i]
      <3>1. \A i \in 1 .. Len(all) : all[i] \in Heats
          BY <1>1, <1>2
      <3>2. 1 <= Len(all) /\ Len(all) \in Int
          BY <1>1, <1>2
      <3>3. QED
          BY <2>1, <3>1, <3>2, SubSeqProperties
    <2>3. /\ Len(kept) = Len(probed) + 1 - 0 /\ ~(Len(probed) + 1 > OffProbes)
          /\ kept[Len(kept)] = heat
          /\ \A i \in 1 .. Len(kept) - 1 : kept[i] = probed[i + 0]
        BY <1>1, <1>2, <1>4, <2>2
    <2>4. QED
        BY <2>2, <2>3 DEF OneMoreProbe
  <1>5. QED
      BY <1>3, <1>4

LEMMA GateInitially == GateInit => GateInv
  <1> SUFFICES ASSUME GateInit PROVE GateInv
      OBVIOUS
  <1> USE GateAssumption DEF GateInit
  <1>1. GateTypeOK
      BY DEF GateTypeOK, NoPending, Classes, SlowCap
  <1>2. KnowsInv /\ SlowInv
      BY DEF KnowsInv, SlowInv
  <1>3. ProbesInv
    <2>1. ~Unobserved /\ ~pending.blind
        BY DEF Unobserved, NoPending
    <2>2. Counted = {} /\ Len(probed) = 0
        BY <2>1 DEF Counted
    <2>3. QED
        BY <2>1, <2>2 DEF ProbesInv
  <1>4. QED
      BY <1>1, <1>2, <1>3 DEF GateInv

\* A decode-sized gather only delivers an observation.
LEMMA SmallGatherKeeps ==
  ASSUME GateInv, NEW readable \in BOOLEAN, SmallGather(readable)
  PROVE  GateInv'
  <1> USE GateAssumption
  <1>1. /\ Attribute(readable)
        /\ pending' = (IF readable THEN NoPending ELSE pending)
        /\ UNCHANGED <<mode, heat, calls, since, noise, probed, slow>>
        /\ blind' = (IF readable THEN blind ELSE blind + 1)
        /\ ~readable => blind < MaxBlind
      BY DEF SmallGather, Blinded
  <1>2. GateTypeOK
      BY DEF GateInv
  <1>3. blind \in 0 .. MaxBlind /\ slow \in Nat
      BY <1>2 DEF GateTypeOK, SlowCap
  <1>4. on' \in BOOLEAN /\ lowProbes' \in 0 .. OffProbes - 1
      BY <1>1, <1>2, AttributeStep
  <1>5. GateTypeOK'
    <2>1. pending' \in [did : BOOLEAN, blind : BOOLEAN, there : BOOLEAN]
        BY <1>1, <1>2 DEF GateTypeOK, NoPending
    <2>2. blind' \in 0 .. MaxBlind
        BY <1>1, <1>3
    <2>3. QED
        BY <1>1, <1>2, <1>4, <2>1, <2>2 DEF GateTypeOK, SlowCap
  <1>6. CASE readable
    <2>1. pending' = NoPending /\ ~Unobserved' /\ ~pending'.there /\ ~pending'.blind
        BY <1>1, <1>6 DEF NoPending, Unobserved
    <2>2. slow > 0 => on'
      <3>1. PendingMany => on'
          BY <1>1, <1>2, <1>6, AttributeStep
      <3>2. ~pending.there /\ on => on'
          BY <1>1, <1>2, <1>6, AttributeStep DEF Unobserved
      <3>3. QED
          BY <3>1, <3>2 DEF GateInv, KnowsInv
    <2>3. KnowsInv' /\ SlowInv'
        BY <1>1, <1>3, <1>6, <2>1, <2>2 DEF GateInv, KnowsInv, SlowInv
    <2>4. ProbesInv'
      <3>1. SUFFICES ASSUME blind = 0 PROVE ProbesInv'
          BY <1>1, <1>6 DEF ProbesInv
      <3>2. Len(probed) <= OffProbes
          BY <3>1 DEF GateInv, ProbesInv
      <3>3. /\ Len(probed) >= lowProbes'
            /\ \A i \in (Len(probed) - lowProbes' + 1) .. Len(probed) : probed[i] = "warm"
            /\ ~on' => lowProbes' = 0
          BY <1>1, <1>6, <3>1, AttributedProbes
      <3>4. QED
          BY <1>1, <1>4, <2>1, <3>2, <3>3 DEF ProbesInv, Counted
    <2>5. QED
        BY <1>5, <2>3, <2>4 DEF GateInv
  <1>7. CASE ~readable
    <2>1. on' = on /\ lowProbes' = lowProbes /\ blind' = blind + 1 /\ pending' = pending
        BY <1>1, <1>2, <1>7, AttributeStep
    <2>2. KnowsInv' /\ SlowInv'
        BY <1>1, <1>3, <2>1 DEF GateInv, KnowsInv, SlowInv, PendingMany
    <2>3. ProbesInv'
        BY <1>3, <2>1 DEF ProbesInv
    <2>4. QED
        BY <1>5, <2>2, <2>3 DEF GateInv
  <1>8. QED
      BY <1>6, <1>7

\* A prefill-sized gather delivers the pending observation, decides and leaves the
\* next one.
LEMMA LargeGatherKeeps ==
  ASSUME GateInv, NEW readable \in BOOLEAN, NEW advisable \in BOOLEAN,
         LargeGather(readable, advisable)
  PROVE  GateInv'
  <1> USE GateAssumption
  <1> DEFINE call == (calls + 1) % ProbeEvery
             did == Want(call) /\ advisable
  <1>1. /\ Attribute(readable)
        /\ ~readable => blind < MaxBlind
        /\ blind' = (IF readable THEN blind ELSE blind + 1)
        /\ calls' = call
        /\ pending' = [did |-> did, blind |-> ~readable, there |-> TRUE]
        /\ since' = (IF did THEN "few" ELSE FaultsOf(heat))
        /\ slow' = (IF Want(call) \/ heat # "cold" THEN 0
                    ELSE IF slow < SlowCap THEN slow + 1 ELSE slow)
        /\ UNCHANGED <<mode, heat, noise>>
      BY DEF LargeGather, Blinded
  <1>2. GateTypeOK
      BY DEF GateInv
  <1>3. /\ blind \in 0 .. MaxBlind /\ slow \in 0 .. MaxBlind + 3
        /\ calls \in 0 .. ProbeEvery - 1 /\ heat \in Heats /\ probed \in Seq(Heats)
        /\ lowProbes \in 0 .. OffProbes - 1 /\ on \in BOOLEAN
      BY <1>2 DEF GateTypeOK, SlowCap
  <1>4. on' \in BOOLEAN /\ lowProbes' \in 0 .. OffProbes - 1
      BY <1>1, <1>2, AttributeStep
  <1>5. call \in 0 .. ProbeEvery - 1 /\ (calls = 0 => call = 1)
      BY <1>3
  <1>6. Want(call) \in BOOLEAN /\ did \in BOOLEAN /\ (on' /\ call # 0 => Want(call))
      BY <1>4 DEF Want
  <1>7. /\ pending'.did = did /\ pending'.blind = ~readable /\ pending'.there = TRUE
        /\ pending' \in [did : BOOLEAN, blind : BOOLEAN, there : BOOLEAN]
      BY <1>1, <1>6
  <1>8. FaultsOf(heat) \in Classes /\ (heat = "cold" => FaultsOf(heat) = "many")
        /\ (FaultsOf(heat) = "few" => heat = "warm")
      BY <1>3 DEF FaultsOf, Heats, Classes
  <1>9. \/ did /\ probed' = probed
        \/ /\ ~did /\ probed' \in Seq(Heats)
           /\ \E s \in {0, 1} :
                /\ Len(probed') = Len(probed) + 1 - s
                /\ s = 1 <=> Len(probed) + 1 > OffProbes
                /\ probed'[Len(probed')] = heat
                /\ \A i \in 1 .. Len(probed') - 1 : probed'[i] = probed[i + s]
    <2> DEFINE all == Append(probed, heat)
    <2>1. probed' = IF did THEN probed
                    ELSE SubSeq(all, IF Len(all) > OffProbes THEN 2 ELSE 1, Len(all))
        BY DEF LargeGather
    <2>2. CASE did
        BY <2>1, <2>2
    <2>3. CASE ~did
      <3>1. probed' = SubSeq(all, IF Len(all) > OffProbes THEN 2 ELSE 1, Len(all))
          BY <2>1, <2>3
      <3>2. all = Append(probed, heat)
          OBVIOUS
      <3> HIDE DEF all
      <3>3. OneMoreProbe(probed')
          BY ONLY <1>2, <3>1, <3>2, ProbeAppended
      <3>4. QED
          BY <2>3, <3>3 DEF OneMoreProbe
    <2>4. QED
        BY <2>2, <2>3
  <1>10. GateTypeOK'
    <2>1. slow' \in 0 .. SlowCap
        BY <1>1, <1>3 DEF SlowCap
    <2>2. since' \in Classes
        BY <1>1, <1>8 DEF Classes
    <2>3. blind' \in 0 .. MaxBlind
        BY <1>1, <1>3
    <2>4. probed' \in Seq(Heats)
        BY <1>3, <1>9
    <2>5. QED
        BY <1>1, <1>2, <1>4, <1>5, <1>7, <2>1, <2>2, <2>3, <2>4 DEF GateTypeOK, SlowCap
  <1>11. slow' > 0 => ~Want(call) /\ heat = "cold" /\ slow' \in {slow, slow + 1}
      BY <1>1, <1>3, <1>6
  <1>12. KnowsInv'
      BY <1>1, <1>6, <1>7, <1>8, <1>11 DEF KnowsInv, PendingMany
  <1>13. readable /\ slow > 0 => on'
    <2>1. readable /\ PendingMany => on'
        BY <1>1, <1>2, AttributeStep
    <2>2. readable /\ ~pending.there /\ on => on'
        BY <1>1, <1>2, AttributeStep DEF Unobserved
    <2>3. QED
        BY <2>1, <2>2 DEF GateInv, KnowsInv
  <1>14. ~readable => on' = on
      BY <1>1, <1>2, AttributeStep
  <1>15. SlowInv'
    <2>1. CASE slow' > 0 /\ slow > 0 /\ readable
      <3>1. on' /\ call = 0
          BY <1>6, <1>11, <1>13, <2>1
      <3>2. slow <= 1 + blind
          BY <1>5, <3>1 DEF GateInv, SlowInv
      <3>3. QED
          BY <1>1, <1>3, <1>11, <2>1, <3>1, <3>2 DEF SlowInv
    <2>2. CASE slow' > 0 /\ slow > 0 /\ ~readable
      <3>1. slow <= 1 + blind
          BY <1>5, <1>6, <1>11, <1>14, <2>2 DEF GateInv, SlowInv
      <3>2. QED
          BY <1>1, <1>3, <1>11, <2>2, <3>1 DEF SlowInv
    <2>3. CASE ~(slow' > 0 /\ slow > 0)
      <3>1. slow' \in Int /\ blind' \in Int /\ slow' <= 1 /\ 0 <= blind'
          BY <1>1, <1>3, <1>11, <2>3 DEF SlowCap
      <3>2. slow' <= 1 + blind'
        <4>1. \A m, n \in Int : m <= 1 /\ 0 <= n => m <= 1 + n
            OBVIOUS
        <4>2. QED
            BY <3>1, <4>1
      <3>3. QED
          BY <3>2 DEF SlowInv
    <2>4. QED
        BY <2>1, <2>2, <2>3
  <1>16. ProbesInv'
    <2>1. SUFFICES ASSUME blind' = 0 PROVE ProbesInv'
        BY DEF ProbesInv
    <2>2. readable /\ blind = 0 /\ ~pending'.blind
      <3>1. readable /\ blind = 0
          BY <1>1, <1>3, <2>1
      <3>2. pending'.blind = FALSE
          BY <1>7, <3>1
      <3>3. QED
          BY <3>1, <3>2
    <2>3. /\ Len(probed) <= OffProbes
          /\ Len(probed) >= lowProbes'
          /\ \A i \in (Len(probed) - lowProbes' + 1) .. Len(probed) : probed[i] = "warm"
          /\ ~on' => lowProbes' = 0
        BY <1>1, <2>2, AttributedProbes DEF GateInv, ProbesInv
    <2>4. CASE did /\ probed' = probed
      <3>1. ~Unobserved'
          BY <1>7, <2>4 DEF Unobserved
      <3>2. QED
          BY <1>4, <2>2, <2>3, <2>4, <3>1 DEF ProbesInv, Counted
    <2>5. CASE ~did
      <3>1. PICK s \in {0, 1} :
              /\ Len(probed') = Len(probed) + 1 - s
              /\ s = 1 <=> Len(probed) + 1 > OffProbes
              /\ probed'[Len(probed')] = heat
              /\ \A i \in 1 .. Len(probed') - 1 : probed'[i] = probed[i + s]
          BY <1>9, <2>5
      <3>2. Unobserved' /\ since' = FaultsOf(heat)
          BY <1>1, <1>7, <2>5 DEF Unobserved
      <3>3. Len(probed) \in Nat
          BY <1>3
      <3>4. Len(probed') <= OffProbes /\ Len(probed') >= lowProbes' + 1
          BY <1>4, <2>3, <3>1, <3>3
      <3>5. \A i \in (Len(probed') - lowProbes') .. (Len(probed') - 1) : probed'[i] = "warm"
        <4>1. TAKE i \in (Len(probed') - lowProbes') .. (Len(probed') - 1)
        <4>2. /\ i \in 1 .. Len(probed') - 1
              /\ i + s \in (Len(probed) - lowProbes' + 1) .. Len(probed)
          <5>1. /\ s \in {0, 1} /\ Len(probed') = Len(probed) + 1 - s
                /\ lowProbes' \in Nat
              BY <1>4, <3>1
          <5>2. QED
              BY <5>1, <3>3, <3>4
        <4>3. QED
            BY <2>3, <3>1, <4>2
      <3>6. since' = "few" => probed'[Len(probed')] = "warm"
          BY <1>8, <3>1, <3>2
      <3>7. QED
          BY <2>2, <2>3, <3>2, <3>4, <3>5, <3>6 DEF ProbesInv, Counted
    <2>6. QED
        BY <1>9, <2>4, <2>5
  <1>17. QED
      BY <1>10, <1>12, <1>15, <1>16 DEF GateInv

\* Every step of the gate and of the page cache keeps the invariant.
LEMMA GateStep == GateInv /\ [GateNext]_gateVars => GateInv'
  <1> SUFFICES ASSUME GateInv, [GateNext]_gateVars PROVE GateInv'
      OBVIOUS
  <1>1. CASE Drift \/ Noise \/ UNCHANGED gateVars
    <2>1. /\ UNCHANGED <<mode, on, lowProbes, calls, pending, blind, probed, slow>>
          /\ heat' \in Heats /\ noise' \in 0 .. MaxNoise
        BY <1>1, GateAssumption DEF Drift, Noise, gateVars, GateInv, GateTypeOK
    <2>2. /\ since' \in Classes
          /\ since = "many" => since' = "many"
          /\ since' = "few" => since = "few"
        BY <1>1 DEF Drift, Noise, gateVars, GateInv, GateTypeOK, Classes, Worse
    <2>3. GateTypeOK'
        BY <2>1, <2>2 DEF GateInv, GateTypeOK, SlowCap
    <2>4. KnowsInv' /\ SlowInv'
        BY <2>1, <2>2 DEF GateInv, KnowsInv, SlowInv, PendingMany
    <2>5. ProbesInv'
        BY <2>1, <2>2 DEF GateInv, ProbesInv, Counted, Unobserved
    <2>6. QED
        BY <2>3, <2>4, <2>5 DEF GateInv
  <1>2. QED
      BY <1>1, SmallGatherKeeps, LargeGatherKeeps DEF GateNext

\* The invariant at every moment.
LEMMA GateAlways == GateSpec => []GateInv
  BY GateInitially, GateStep, PTL DEF GateSpec

\* Every variable of the gate keeps its type.
THEOREM GateTypes == GateSpec => []GateTypeOK
  <1>1. GateInv => GateTypeOK
      BY DEF GateInv
  <1>2. QED
      BY <1>1, GateAlways, PTL

\* For every number of probes and every probe interval, the gate lets at most two
\* cold gathers in a row go unadvised, one more for each reading that failed.
THEOREM GateNoticesCold == GateSpec => []ColdGatherIsNoticed
  <1>1. GateInv => ColdGatherIsNoticed
      BY GateAssumption DEF GateInv, GateTypeOK, SlowCap, SlowInv, ColdGatherIsNoticed
  <1>2. QED
      BY <1>1, GateAlways, PTL

\* The gate turns off only when its last OffProbes probes were all warm, unless a
\* reading failed.
LEMMA TurnsOffWarm ==
  ASSUME GateInv, [GateNext]_gateVars, on, ~on'
  PROVE  AllProbesWarm \/ blind > 0
  <1> USE GateAssumption
  <1>1. /\ GateTypeOK /\ on \in BOOLEAN /\ lowProbes \in 0 .. OffProbes - 1
        /\ probed \in Seq(Heats) /\ blind \in Nat
      BY DEF GateInv, GateTypeOK
  <1>2. SUFFICES ASSUME blind = 0 PROVE AllProbesWarm
      BY <1>1
  <1>3. PICK readable \in BOOLEAN : Attribute(readable)
      BY DEF GateNext, gateVars, Drift, Noise, SmallGather, LargeGather
  <1>4. readable /\ Unobserved /\ Faults = "few" /\ lowProbes + 1 >= OffProbes
    <2>1. readable /\ Unobserved
        BY <1>1, <1>3, AttributeStep
    <2>2. Faults = "few"
        BY <1>1, <1>3, <2>1, AttributeStep
    <2>3. ~(lowProbes + 1 < OffProbes)
        BY <1>1, <1>3, <2>1, <2>2, AttributeStep
    <2>4. QED
        BY <1>1, <2>1, <2>2, <2>3
  <1>5. /\ ~pending.blind /\ Len(probed) <= OffProbes /\ Len(probed) >= lowProbes + 1
        /\ \A i \in (Len(probed) - lowProbes) .. (Len(probed) - 1) : probed[i] = "warm"
        /\ since = "few" => probed[Len(probed)] = "warm"
      BY <1>2, <1>4 DEF GateInv, ProbesInv, Counted
  <1>6. since = "few" /\ lowProbes = OffProbes - 1 /\ Len(probed) = OffProbes
      BY <1>1, <1>4, <1>5 DEF Faults
  <1>7. \A i \in 1 .. OffProbes : probed[i] = "warm"
      BY <1>5, <1>6
  <1>8. probed = [i \in 1 .. OffProbes |-> "warm"]
      BY <1>1, <1>6, <1>7
  <1>9. QED
      BY <1>8 DEF AllProbesWarm

\* The gate gives up on advising only on the evidence it was asked to collect.
THEOREM GateOffWhenWarm == GateSpec => OffOnlyWhenWarm
  <1>1. GateInv /\ [GateNext]_gateVars => [on /\ ~on' => AllProbesWarm \/ blind > 0]_gateVars
      BY TurnsOffWarm
  <1>2. QED
      BY <1>1, GateAlways, PTL DEF GateSpec, OffOnlyWhenWarm

-----------------------------------------------------------------------------
(* The device cache.                                                       *)

\* What a slot that holds a tag holds: the row of that id, of the one table, as an
\* fp8 table has it, or rounded.
SlotsAreTrue ==
    \A s \in CacheSlots : tags[s] # Empty =>
        \E table \in Tables, value \in Values :
            /\ vals[s] = <<table, tags[s], value>>
            /\ dtype = "fp8" => value = "exact"

CacheInv == CacheTypeOK /\ SlotsAreTrue /\ CacheReturnsItsRows

\* An indexed assignment gives each destination one of the rows that name it and
\* leaves the others.
LEMMA IndexPutResult ==
  ASSUME NEW pool, NEW rows0, NEW dst, NEW value,
         NEW after \in IndexPut(pool, rows0, dst, value)
  PROVE  /\ after = [s \in DOMAIN pool |-> after[s]]
         /\ \A s \in DOMAIN pool :
              \/ \E i \in rows0 : dst[i] = s /\ after[s] = value[i]
              \/ (\A i \in rows0 : dst[i] # s) /\ after[s] = pool[s]
  <1> DEFINE Hit == {dst[i] : i \in rows0}
  <1>1. PICK last \in {f \in [Hit -> rows0] : \A s \in Hit : dst[f[s]] = s} :
          after = [s \in DOMAIN pool |-> IF s \in Hit THEN value[last[s]] ELSE pool[s]]
      BY DEF IndexPut
  <1>2. ASSUME NEW s \in DOMAIN pool
        PROVE  \/ \E i \in rows0 : dst[i] = s /\ after[s] = value[i]
               \/ (\A i \in rows0 : dst[i] # s) /\ after[s] = pool[s]
      BY <1>1
  <1>3. QED
      BY <1>1, <1>2

\* A lookup of the cached path whose misses do not collide keeps every slot true and
\* returns the rows asked for.
LEMMA LookupKeeps ==
  ASSUME CacheInv, \A t1, t2 \in Tables : t1 = t2,
         NEW table \in Tables, NEW n \in Nat, NEW asks \in [1 .. n -> Ids],
         \A i, j \in Misses(asks) : SlotOf(asks)[i] = SlotOf(asks)[j] => asks[i] = asks[j],
         Lookup(table, asks)
  PROVE  CacheInv'
  <1> USE CacheAssumption
  <1> DEFINE slot == SlotOf(asks)
             miss == Misses(asks)
             fetched == [i \in miss |-> <<table, asks[i], "exact">>]
             stored == [i \in miss |-> ToFp8(fetched[i])]
             mids == [i \in miss |-> asks[i]]
  <1>1. /\ out' = [i \in 1 .. n |-> IF i \in miss THEN fetched[i] ELSE vals[slot[i]]]
        /\ vals' \in IndexPut(vals, miss, slot, stored)
        /\ tags' \in IndexPut(tags, miss, slot, mids)
        /\ asked' = [table |-> table, ids |-> asks]
        /\ dtype' = dtype
      BY DEF Lookup
  <1>2. miss \subseteq 1 .. n /\ \A i \in 1 .. n : slot[i] \in CacheSlots
      BY DEF Misses, SlotOf, CacheSlots, Ids
  <1>3. /\ tags \in [CacheSlots -> Ids \union {Empty}]
        /\ vals \in [CacheSlots -> Row]
        /\ SlotsAreTrue
        /\ dtype \in Dtypes
      BY DEF CacheInv, CacheTypeOK
  <1>4. /\ vals' = [s \in CacheSlots |-> vals'[s]]
        /\ \A s \in CacheSlots :
              \/ \E i \in miss : slot[i] = s /\ vals'[s] = ToFp8(<<table, asks[i], "exact">>)
              \/ (\A i \in miss : slot[i] # s) /\ vals'[s] = vals[s]
    <2>1. DOMAIN vals = CacheSlots
        BY <1>3
    <2>2. \A i \in miss : stored[i] = ToFp8(<<table, asks[i], "exact">>)
        OBVIOUS
    <2> HIDE DEF miss, slot, stored
    <2>3. /\ vals' = [s \in DOMAIN vals |-> vals'[s]]
          /\ \A s \in DOMAIN vals :
                \/ \E i \in miss : slot[i] = s /\ vals'[s] = stored[i]
                \/ (\A i \in miss : slot[i] # s) /\ vals'[s] = vals[s]
        BY <1>1, IndexPutResult
    <2>4. QED
        BY <2>1, <2>2, <2>3
  <1>5. /\ tags' = [s \in CacheSlots |-> tags'[s]]
        /\ \A s \in CacheSlots :
              \/ \E i \in miss : slot[i] = s /\ tags'[s] = asks[i]
              \/ (\A i \in miss : slot[i] # s) /\ tags'[s] = tags[s]
    <2>1. DOMAIN tags = CacheSlots
        BY <1>3
    <2>2. \A i \in miss : mids[i] = asks[i]
        OBVIOUS
    <2> HIDE DEF miss, slot, mids
    <2>3. QED
        BY <1>1, <2>1, <2>2, IndexPutResult
  <1>6. \A i, j \in miss : slot[i] = slot[j] => asks[i] = asks[j]
      OBVIOUS
  <1>7. \A i \in 1 .. n \ miss : tags[slot[i]] = asks[i] /\ asks[i] # Empty
      BY DEF Misses, SlotOf, Ids, Empty
  <1> HIDE DEF miss, slot
  <1>8. \A i \in miss :
          /\ asks[i] \in Ids
          /\ ToFp8(<<table, asks[i], "exact">>) \in Row
          /\ \E value \in Values :
                /\ ToFp8(<<table, asks[i], "exact">>) = <<table, asks[i], value>>
                /\ dtype = "fp8" => value = "exact"
      BY <1>2 DEF Row, Values, ToFp8
  <1>9. CacheTypeOK'
    <2>1. ASSUME NEW s \in CacheSlots PROVE tags'[s] \in Ids \union {Empty}
        BY <1>3, <1>5, <1>8
    <2>2. ASSUME NEW s \in CacheSlots PROVE vals'[s] \in Row
      <3>1. CASE \E i \in miss : slot[i] = s /\ vals'[s] = ToFp8(<<table, asks[i], "exact">>)
          BY <1>8, <3>1
      <3>2. CASE vals'[s] = vals[s]
          BY <1>3, <3>2
      <3>3. QED
          BY <1>4, <3>1, <3>2
    <2>3. QED
        BY <1>1, <1>3, <1>4, <1>5, <2>1, <2>2 DEF CacheTypeOK
  <1>10. SlotsAreTrue'
    <2>1. ASSUME NEW s \in CacheSlots, tags'[s] # Empty
          PROVE  \E t \in Tables, value \in Values :
                    /\ vals'[s] = <<t, tags'[s], value>>
                    /\ dtype' = "fp8" => value = "exact"
      <3>1. CASE \E i \in miss : slot[i] = s
        <4>1. PICK i \in miss : slot[i] = s /\ vals'[s] = ToFp8(<<table, asks[i], "exact">>)
            BY <1>4, <3>1
        <4>2. PICK j \in miss : slot[j] = s /\ tags'[s] = asks[j]
            BY <1>5, <3>1
        <4>3. asks[i] = asks[j]
            BY <1>6, <4>1, <4>2
        <4>4. PICK value \in Values :
                /\ vals'[s] = <<table, asks[i], value>>
                /\ dtype = "fp8" => value = "exact"
            BY <1>8, <4>1
        <4>5. dtype' = dtype /\ tags'[s] = asks[i]
            BY <1>1, <4>2, <4>3
        <4>6. QED
            BY <4>4, <4>5
      <3>2. CASE ~\E i \in miss : slot[i] = s
        <4>1. vals'[s] = vals[s] /\ tags'[s] = tags[s]
            BY <1>4, <1>5, <3>2
        <4>2. PICK t \in Tables, value \in Values :
                /\ vals[s] = <<t, tags[s], value>>
                /\ dtype = "fp8" => value = "exact"
            BY <1>3, <2>1, <4>1 DEF SlotsAreTrue
        <4>3. dtype' = dtype
            BY <1>1
        <4>4. QED
            BY <4>1, <4>2, <4>3
      <3>3. QED
          BY <3>1, <3>2
    <2>2. QED
        BY <2>1 DEF SlotsAreTrue
  <1>11. CacheReturnsItsRows'
    <2>1. DOMAIN out' = 1 .. n /\ asked'.table = table /\ asked'.ids = asks
        BY <1>1
    <2>2. ASSUME NEW i \in 1 .. n
          PROVE  \E value \in Values :
                    /\ out'[i] = <<table, asks[i], value>>
                    /\ dtype' = "fp8" => value = "exact"
      <3>1. CASE i \in miss
          BY <1>1, <3>1 DEF Values
      <3>2. CASE i \notin miss
        <4>1. slot[i] \in CacheSlots /\ tags[slot[i]] = asks[i] /\ asks[i] # Empty
            BY <1>2, <1>7, <3>2
        <4>2. PICK t \in Tables, value \in Values :
                /\ vals[slot[i]] = <<t, asks[i], value>>
                /\ dtype = "fp8" => value = "exact"
            BY <1>3, <4>1 DEF SlotsAreTrue
        <4>3. QED
            BY <1>1, <3>2, <4>2
      <3>3. QED
          BY <3>1, <3>2
    <2>3. QED
        BY <2>1, <2>2 DEF CacheReturnsItsRows
  <1>12. QED
      BY <1>9, <1>10, <1>11 DEF CacheInv

\* The cache's invariant, while no lookup misses two different rows of one slot and
\* there is one table.
LEMMA CacheAlways ==
  ASSUME ~CollidingMisses, \A t1, t2 \in Tables : t1 = t2
  PROVE  CacheSpec => []CacheInv
  <1> USE CacheAssumption
  <1>1. CacheInit => CacheInv
      BY DEF CacheInit, CacheInv, CacheTypeOK, SlotsAreTrue, CacheReturnsItsRows, Row
  <1>2. ASSUME CacheInv, [CacheNext]_cacheVars PROVE CacheInv'
    <2>1. ASSUME NEW table \in Tables, NEW n \in 1 .. MaxIds, NEW asks \in [1 .. n -> Ids],
                 \A i, j \in Misses(asks) :
                   SlotOf(asks)[i] = SlotOf(asks)[j] => asks[i] = asks[j] \/ CollidingMisses,
                 Lookup(table, asks)
          PROVE  CacheInv'
      <3>1. n \in Nat
          OBVIOUS
      <3>2. QED
          BY <1>2, <2>1, <3>1, LookupKeeps
    <2>2. ASSUME NEW table \in Tables, NEW n \in 1 .. MaxIds, NEW asks \in [1 .. n -> Ids],
                 LookupUncached(table, asks)
          PROVE  CacheInv'
        BY <1>2, <2>2 DEF LookupUncached, CacheInv, CacheTypeOK, SlotsAreTrue,
           CacheReturnsItsRows, Values
    <2>3. CASE UNCHANGED cacheVars
        BY <1>2, <2>3 DEF cacheVars, CacheInv, CacheTypeOK, SlotsAreTrue, CacheReturnsItsRows
    <2>4. QED
        BY <1>2, <2>1, <2>2, <2>3 DEF CacheNext
  <1>3. QED
      BY <1>1, <1>2, PTL DEF CacheSpec

\* A hit returns the row asked for, exactly if the table is fp8 and at worst rounded to
\* fp8 if it is bf16, for every size of table and cache; that there is one table and no
\* lookup misses two rows of one slot are hypotheses the code does not ensure.
THEOREM CacheKeepsItsRows ==
  ASSUME ~CollidingMisses, \A t1, t2 \in Tables : t1 = t2
  PROVE  CacheSpec => []CacheReturnsItsRows
  <1>1. CacheInv => CacheReturnsItsRows
      BY DEF CacheInv
  <1>2. QED
      BY <1>1, CacheAlways, PTL

\* Over fp8 tables, under the same hypotheses, the cache is what its comment calls it:
\* no lookup returns anything but the table's own value.
THEOREM Fp8CacheIsLossless ==
  ASSUME ~CollidingMisses, \A t1, t2 \in Tables : t1 = t2, Dtypes = {"fp8"}
  PROVE  CacheSpec => []Lossless
  <1>1. CacheInv => Lossless
      BY DEF CacheInv, CacheTypeOK, CacheReturnsItsRows, Lossless
  <1>2. QED
      BY <1>1, CacheAlways, PTL

-----------------------------------------------------------------------------
(* The lookahead.                                                          *)

Operation == [kind : {"ids", "gather", "layer", "use"}, f : Forwards,
              buffer : Forwards \union {Nobody}, after : Nat,
              overIds : Forwards \union {Nobody}, overRows : Forwards \union {Nobody}]

\* A forward's rows are waited for only between its prefetch and its PLE layer, in
\* the buffer that is kept, which no later allocation has replaced.
HostInv ==
    /\ main \in Seq(Operation) /\ side \in Seq(Operation)
    /\ state.there => host \in {"layer", "ple"} /\ state.buffer = eager.by /\ eager.by # Nobody
    /\ host # "raised"
    /\ eager.by <= forward /\ (host = "start" => eager.by < forward)
    /\ dropped \subseteq 1 .. forward /\ eager.by \notin dropped
    /\ host = "start" => forward \notin dropped

\* Gathers are in the order of their forwards; the ids of each are there or will be
\* when it may run, and no layer is given their memory before.
GatherInv ==
    /\ \A j \in DOMAIN side :
         /\ side[j].kind = "gather" /\ side[j].buffer # Nobody
         /\ side[j].f <= forward /\ (host = "start" => side[j].f < forward)
         /\ \A k \in DOMAIN side : j < k => side[j].f < side[k].f
         /\ \/ ids[side[j].f] = side[j].f
            \/ \E i \in DOMAIN main :
                 main[i].kind = "ids" /\ main[i].f = side[j].f /\ mainRan + i <= side[j].after
         /\ \A i \in DOMAIN main : main[i].overIds # side[j].f
    /\ \A i \in DOMAIN main :
         /\ main[i].overIds <= forward /\ (host = "start" => main[i].overIds < forward)
         /\ main[i].overRows \in dropped \union {Nobody}
         /\ main[i].kind = "ids" => main[i].overRows = Nobody

\* Buffer b holds the rows of forward f and only later forwards' gathers are waiting,
\* or the gather that puts them there is among the first n that wait.
Gathered(gathers, held, f, b, n) ==
    \/ \E j \in DOMAIN gathers : gathers[j].f = f /\ gathers[j].buffer = b /\ j <= n
    \/ held[b] = f /\ \A j \in DOMAIN gathers : gathers[j].f > f

\* Until a PLE layer has run nothing writes its buffer but its own gather: later
\* gathers wait for the layer, and a layer given the memory of a replaced buffer
\* comes after it.
UseInv ==
    \A i \in DOMAIN main : main[i].kind = "use" =>
        /\ main[i].buffer # Nobody
        /\ main[i].f < forward \/ host = "end"
        /\ Gathered(side, rows, main[i].f, main[i].buffer, main[i].after - sideRan)
        /\ \A j \in DOMAIN side : side[j].f > main[i].f => mainRan + i <= side[j].after
        /\ \A k \in DOMAIN main : k < i => main[k].overRows # main[i].buffer

\* The rows the host still waits for.
StateInv == state.there => Gathered(side, rows, forward, state.buffer, Len(side))

StreamInv ==
    /\ StreamTypeOK /\ HostInv /\ GatherInv /\ UseInv /\ StateInv /\ RowsAreItsOwn

\* Where the elements of a queue are after an operation was enqueued.
LEMMA QueueAppend ==
  ASSUME NEW S, NEW q \in Seq(S), NEW e \in S
  PROVE  /\ Append(q, e) \in Seq(S) /\ Len(q) \in Nat /\ Len(Append(q, e)) = Len(q) + 1
         /\ DOMAIN q = 1 .. Len(q) /\ DOMAIN Append(q, e) = 1 .. Len(q) + 1
         /\ \A i \in 1 .. Len(q) : Append(q, e)[i] = q[i]
         /\ Append(q, e)[Len(q) + 1] = e
  BY AppendProperties, LenProperties

\* Where they are after the first one ran.
LEMMA QueueTail ==
  ASSUME NEW S, NEW q \in Seq(S), q # <<>>
  PROVE  /\ Tail(q) \in Seq(S) /\ Len(q) \in Nat \ {0} /\ Len(Tail(q)) = Len(q) - 1
         /\ DOMAIN q = 1 .. Len(q) /\ DOMAIN Tail(q) = 1 .. Len(q) - 1
         /\ Head(q) = q[1] /\ q[1] \in S
         /\ \A i \in 1 .. Len(q) - 1 : Tail(q)[i] = q[i + 1]
  <1>1. Len(q) \in Nat \ {0} /\ DOMAIN q = 1 .. Len(q)
      BY EmptySeq, LenProperties
  <1>2. Tail(q) \in Seq(S) /\ Len(Tail(q)) = Len(q) - 1 /\ Head(q) = q[1]
      OBVIOUS
  <1>3. \A i \in 1 .. Len(q) - 1 : Tail(q)[i] = q[i + 1]
      BY <1>1, <1>2, HeadTailProperties
  <1>4. QED
      BY <1>1, <1>2, <1>3, LenProperties

\* What a queue holds.
LEMMA QueueElements ==
  ASSUME NEW q \in Seq(Operation)
  PROVE  /\ Len(q) \in Nat /\ DOMAIN q = 1 .. Len(q)
         /\ \A i \in DOMAIN q :
              /\ q[i] \in Operation /\ q[i].f \in Forwards /\ q[i].f \in Nat \ {0}
              /\ q[i].overIds \in Nat /\ q[i].after \in Nat
  <1>1. Len(q) \in Nat /\ DOMAIN q = 1 .. Len(q)
      BY LenProperties
  <1>2. ASSUME NEW i \in DOMAIN q PROVE q[i] \in Operation
      BY <1>1, ElementOfSeq
  <1>3. ASSUME NEW op \in Operation
        PROVE  op.f \in Forwards /\ op.overIds \in Forwards \union {Nobody} /\ op.after \in Nat
      BY DEF Operation
  <1>4. Forwards \subseteq Nat \ {0} /\ Nobody \in Nat
      BY LookaheadAssumption DEF Forwards, Nobody
  <1>5. QED
      BY <1>1, <1>2, <1>3, <1>4

LEMMA StreamInitially == StreamInit => StreamInv
  <1> SUFFICES ASSUME StreamInit PROVE StreamInv
      OBVIOUS
  <1> USE LookaheadAssumption DEF StreamInit
  <1>1. StreamTypeOK
      BY DEF StreamTypeOK, Forwards, NoState, Nobody
  <1>2. HostInv
      BY DEF HostInv, NoState, Nobody
  <1>3. GatherInv /\ UseInv /\ StateInv /\ RowsAreItsOwn
      BY DEF GatherInv, UseInv, StateInv, RowsAreItsOwn, NoState
  <1>4. QED
      BY <1>1, <1>2, <1>3 DEF StreamInv

\* Before a layer the host asks for the prefetch of the PLE layer after it.
LEMMA StartPrefetchKeeps ==
  ASSUME StreamInv, NEW size \in Sizes, StartPrefetch(size)
  PROVE  StreamInv'
  <1> USE LookaheadAssumption
  <1>1. /\ host = "start" /\ ~state.there /\ host' = "layer"
        /\ UNCHANGED <<forward, deviceVars>>
      BY DEF StartPrefetch, StreamInv, HostInv
  <1>2. forward \in Nat \ {0} /\ forward \in Forwards
      BY DEF StreamInv, StreamTypeOK, Forwards
  <1>3. CASE size = 0
    <2>1. UNCHANGED <<state, eager, dropped, main, side>>
        BY <1>1, <1>3 DEF StartPrefetch
    <2>2. StreamTypeOK'
        BY <1>1, <2>1 DEF StreamInv, StreamTypeOK, deviceVars
    <2>3. HostInv' /\ RowsAreItsOwn' /\ StateInv'
        BY <1>1, <2>1 DEF StreamInv, HostInv, RowsAreItsOwn, StateInv, deviceVars
    <2>4. GatherInv'
        BY <1>1, <2>1 DEF StreamInv, GatherInv, deviceVars
    <2>5. UseInv'
        BY <1>1, <2>1 DEF StreamInv, UseInv, Gathered, deviceVars
    <2>6. QED
        BY <2>2, <2>3, <2>4, <2>5 DEF StreamInv
  <1>4. CASE size # 0
    <2> DEFINE get == [kind |-> "ids", f |-> forward, buffer |-> Nobody, after |-> 0,
                       overIds |-> Nobody, overRows |-> Nobody]
               put == [kind |-> "gather", f |-> forward, buffer |-> eager'.by,
                       after |-> mainRan + Len(main'), overIds |-> Nobody, overRows |-> Nobody]
    <2>1. /\ eager' = Buffer(size)
          /\ dropped' = dropped \union ({eager.by} \ {eager'.by, Nobody})
          /\ main' = Append(main, get) /\ side' = Append(side, put)
          /\ state' = [there |-> TRUE, buffer |-> eager'.by]
        BY <1>1, <1>4 DEF StartPrefetch, Enqueue, Op, AllOfMain
    <2>2. /\ eager \in [by : Forwards \union {Nobody}, rows : Sizes \union {0}]
          /\ eager.by <= forward /\ eager.by < forward /\ eager.by \notin dropped
          /\ dropped \subseteq 1 .. forward /\ forward \notin dropped
          /\ main \in Seq(Operation) /\ side \in Seq(Operation) /\ mainRan \in Nat
        BY <1>1 DEF StreamInv, StreamTypeOK, HostInv
    <2>3. eager'.by \in {forward, eager.by} /\ eager'.by # Nobody /\ eager'.by \in Forwards
          /\ eager' \in [by : Forwards \union {Nobody}, rows : Sizes \union {0}]
        BY <1>2, <2>1, <2>2 DEF Buffer, Nobody, Forwards
    <2>4. /\ eager'.by <= forward /\ eager'.by \notin dropped'
          /\ dropped' \subseteq 1 .. forward /\ dropped \subseteq dropped'
      <3>1. CASE eager'.by = eager.by
        <4>1. dropped' = dropped
            BY <2>1, <3>1
        <4>2. QED
            BY <2>2, <3>1, <4>1
      <3>2. CASE eager'.by = forward
        <4>1. forward \notin dropped' /\ dropped \subseteq dropped'
            BY <2>1, <2>2, <3>2
        <4>2. eager.by \in 1 .. forward \/ eager.by = Nobody
            BY <1>2, <2>2 DEF Forwards, Nobody
        <4>3. dropped' \subseteq 1 .. forward
            BY <2>1, <2>2, <4>2
        <4>4. QED
            BY <1>2, <3>2, <4>1, <4>3
      <3>3. QED
          BY <2>3, <3>1, <3>2
    <2>5. get \in Operation
        BY <1>2 DEF Operation
    <2>6. /\ main' \in Seq(Operation) /\ Len(main) \in Nat /\ Len(main') = Len(main) + 1
          /\ DOMAIN main = 1 .. Len(main) /\ DOMAIN main' = 1 .. Len(main) + 1
          /\ \A i \in 1 .. Len(main) : main'[i] = main[i]
          /\ main'[Len(main) + 1] = get
        BY <2>1, <2>2, <2>5, QueueAppend
    <2>7. put \in Operation
        BY <1>2, <2>2, <2>3, <2>6 DEF Operation
    <2>8. /\ side' \in Seq(Operation) /\ Len(side) \in Nat /\ Len(side') = Len(side) + 1
          /\ DOMAIN side = 1 .. Len(side) /\ DOMAIN side' = 1 .. Len(side) + 1
          /\ \A i \in 1 .. Len(side) : side'[i] = side[i]
          /\ side'[Len(side) + 1] = put
        BY <2>1, <2>2, <2>7, QueueAppend
    <2>9. /\ get.kind = "ids" /\ get.f = forward /\ get.overIds = Nobody /\ get.overRows = Nobody
          /\ put.kind = "gather" /\ put.f = forward /\ put.buffer = eager'.by
          /\ put.after = mainRan + Len(main) + 1
        BY <2>2, <2>6
    <2> HIDE DEF get, put
    <2>10. \A j \in 1 .. Len(side) : side[j] \in Operation
        BY <2>2
    <2>11. \A i \in 1 .. Len(main) : main[i] \in Operation
        BY <2>2
    <2>12. StreamTypeOK'
        BY <1>1, <2>1, <2>3 DEF StreamInv, StreamTypeOK, deviceVars
    <2>13. HostInv'
        BY <1>1, <2>1, <2>3, <2>4, <2>6, <2>8 DEF HostInv
    <2>14. GatherInv'
      <3>1. ASSUME NEW j \in DOMAIN side'
            PROVE  /\ side'[j].kind = "gather" /\ side'[j].buffer # Nobody
                   /\ side'[j].f <= forward
                   /\ \A k \in DOMAIN side' : j < k => side'[j].f < side'[k].f
                   /\ \/ ids[side'[j].f] = side'[j].f
                      \/ \E i \in DOMAIN main' :
                           /\ main'[i].kind = "ids" /\ main'[i].f = side'[j].f
                           /\ mainRan + i <= side'[j].after
                   /\ \A i \in DOMAIN main' : main'[i].overIds # side'[j].f
        <4>1. CASE j \in 1 .. Len(side)
          <5>1. /\ side'[j] = side[j] /\ side[j].kind = "gather" /\ side[j].buffer # Nobody
                /\ side[j].f < forward
                /\ \A k \in DOMAIN side : j < k => side[j].f < side[k].f
                /\ \/ ids[side[j].f] = side[j].f
                   \/ \E i \in DOMAIN main : /\ main[i].kind = "ids" /\ main[i].f = side[j].f
                                             /\ mainRan + i <= side[j].after
                /\ \A i \in DOMAIN main : main[i].overIds # side[j].f
              BY <1>1, <2>8, <4>1 DEF StreamInv, GatherInv
          <5>2. \A k \in DOMAIN side' : j < k => side'[j].f < side'[k].f
              BY <2>8, <2>9, <5>1
          <5>3. side[j].f \in Forwards
              BY <2>10, <4>1 DEF Operation
          <5>4. \A i \in DOMAIN main' : main'[i].overIds # side'[j].f
              BY <2>6, <2>9, <5>1, <5>3 DEF Forwards, Nobody
          <5>5. QED
              BY <1>2, <2>6, <5>1, <5>2, <5>3, <5>4 DEF Forwards
        <4>2. CASE j = Len(side) + 1
          <5>1. side'[j] = put
              BY <2>8, <4>2
          <5>2. \A i \in DOMAIN main' : main'[i].overIds # forward
            <6>1. ASSUME NEW i \in 1 .. Len(main) PROVE main[i].overIds # forward
              <7>1. main[i].overIds < forward
                  BY <1>1, <2>6 DEF StreamInv, GatherInv
              <7>2. main[i].overIds \in Nat
                <8>1. main[i] \in Operation
                    BY <2>11
                <8>2. main[i].overIds \in Forwards \cup {Nobody}
                    BY ONLY <8>1 DEF Operation
                <8>3. QED
                    BY <8>2, LookaheadAssumption DEF Forwards, Nobody
              <7>3. QED
                  BY <1>2, <7>1, <7>2
            <6>2. QED
                BY <1>2, <2>6, <2>9, <6>1 DEF Nobody
          <5>3. /\ Len(main) + 1 \in DOMAIN main'
                /\ mainRan + (Len(main) + 1) <= put.after
              BY <2>2, <2>6, <2>9
          <5>4. QED
              BY <1>2, <2>3, <2>6, <2>8, <2>9, <4>2, <5>1, <5>2, <5>3
        <4>3. QED
            BY <2>8, <4>1, <4>2
      <3>2. ASSUME NEW i \in DOMAIN main'
            PROVE  /\ main'[i].overIds <= forward
                   /\ main'[i].overRows \in dropped' \union {Nobody}
                   /\ main'[i].kind = "ids" => main'[i].overRows = Nobody
        <4>1. CASE i \in 1 .. Len(main)
          <5>1. /\ main[i].overIds <= forward /\ main[i].overRows \in dropped \union {Nobody}
                /\ main[i].kind = "ids" => main[i].overRows = Nobody
              BY <2>6, <4>1 DEF StreamInv, GatherInv
          <5>2. QED
              BY <2>4, <2>6, <4>1, <5>1
        <4>2. CASE i = Len(main) + 1
            BY <1>2, <2>6, <2>9, <4>2 DEF Nobody
        <4>3. QED
            BY <2>6, <4>1, <4>2
      <3>3. QED
          BY <1>1, <3>1, <3>2 DEF GatherInv, deviceVars
    <2>15. UseInv'
      <3>1. ASSUME NEW i \in DOMAIN main', main'[i].kind = "use"
            PROVE  /\ main'[i].buffer # Nobody
                   /\ main'[i].f < forward
                   /\ Gathered(side', rows', main'[i].f, main'[i].buffer, main'[i].after - sideRan)
                   /\ \A j \in DOMAIN side' : side'[j].f > main'[i].f => mainRan + i <= side'[j].after
                   /\ \A k \in DOMAIN main' : k < i => main'[k].overRows # main'[i].buffer
        <4>1. i \in 1 .. Len(main) /\ main'[i] = main[i]
            BY <2>6, <2>9, <3>1
        <4>2. /\ main[i].buffer # Nobody /\ main[i].f < forward
              /\ Gathered(side, rows, main[i].f, main[i].buffer, main[i].after - sideRan)
              /\ \A j \in DOMAIN side : side[j].f > main[i].f => mainRan + i <= side[j].after
              /\ \A k \in DOMAIN main : k < i => main[k].overRows # main[i].buffer
            BY <1>1, <2>6, <3>1, <4>1 DEF StreamInv, UseInv
        <4>3. main[i].f \in Forwards
            BY <2>11, <4>1 DEF Operation
        <4>4. UNCHANGED <<rows, sideRan>>
            BY <1>1 DEF deviceVars
        <4>5. Gathered(side', rows', main'[i].f, main'[i].buffer, main'[i].after - sideRan)
          <5>1. CASE \E j \in DOMAIN side : /\ side[j].f = main[i].f /\ side[j].buffer = main[i].buffer
                                            /\ j <= main[i].after - sideRan
              BY <2>8, <4>1, <4>4, <5>1 DEF Gathered
          <5>2. CASE rows[main[i].buffer] = main[i].f /\ \A j \in DOMAIN side : side[j].f > main[i].f
              BY <1>2, <2>8, <2>9, <4>1, <4>2, <4>3, <4>4, <5>2 DEF Gathered, Forwards
          <5>3. QED
              BY <4>2, <5>1, <5>2 DEF Gathered
        <4>6. \A j \in DOMAIN side' : side'[j].f > main'[i].f => mainRan + i <= side'[j].after
          <5>1. ASSUME NEW j \in 1 .. Len(side), side[j].f > main[i].f
                PROVE  mainRan + i <= side[j].after
              BY <2>8, <4>2, <5>1
          <5>2. mainRan + i <= put.after
              BY <2>2, <2>6, <2>9, <4>1
          <5>3. QED
              BY <2>8, <4>1, <5>1, <5>2
        <4>7. \A k \in DOMAIN main' : k < i => main'[k].overRows # main'[i].buffer
            BY <2>6, <4>1, <4>2
        <4>8. QED
            BY <4>1, <4>2, <4>5, <4>6, <4>7
      <3>2. QED
          BY <1>1, <3>1 DEF UseInv, deviceVars
    <2>16. StateInv'
      <3>1. state'.buffer = eager'.by
          BY <2>1
      <3>2. Gathered(side', rows', forward, state'.buffer, Len(side'))
        <4>1. /\ Len(side) + 1 \in DOMAIN side' /\ side'[Len(side) + 1] = put
              /\ put.f = forward /\ put.buffer = state'.buffer /\ Len(side) + 1 <= Len(side')
            BY <2>8, <2>9, <3>1
        <4>2. QED
            BY <4>1 DEF Gathered
      <3>3. QED
          BY <1>1, <3>2 DEF StateInv
    <2>17. RowsAreItsOwn'
        BY <1>1 DEF StreamInv, RowsAreItsOwn, deviceVars
    <2>18. QED
        BY <2>12, <2>13, <2>14, <2>15, <2>16, <2>17 DEF StreamInv
  <1>5. QED
      BY <1>3, <1>4

\* The layer in between, whose tensors may be given freed memory.
LEMMA LayerKeeps ==
  ASSUME StreamInv, Layer
  PROVE  StreamInv'
  <1> USE LookaheadAssumption
  <1>1. /\ host = "layer" /\ host' = "ple"
        /\ UNCHANGED <<forward, state, eager, dropped, side, deviceVars>>
      BY DEF Layer
  <1>2. PICK o \in Reusable \union {Nobody}, b \in dropped \union {Nobody} :
          main' = Append(main, [Op("layer", Nobody, 0) EXCEPT !.overIds = o, !.overRows = b])
      BY DEF Layer
  <1> DEFINE op == [kind |-> "layer", f |-> forward, buffer |-> Nobody, after |-> 0,
                    overIds |-> o, overRows |-> b]
  <1>3. main' = Append(main, op)
    <2> DEFINE Fields == {"kind", "f", "buffer", "after", "overIds", "overRows"}
               plain == Op("layer", Nobody, 0)
               withOver == [x \in Fields |-> IF x = "overRows" THEN b
                                             ELSE IF x = "overIds" THEN o ELSE plain[x]]
    <2>1. plain = [kind |-> "layer", f |-> forward, buffer |-> Nobody, after |-> 0,
                   overIds |-> Nobody, overRows |-> Nobody]
        BY DEF Op
    <2>2. DOMAIN plain = Fields
        BY <2>1
    <2>3. op = withOver
        BY <2>1
    <2> HIDE DEF plain, op
    <2>4. [plain EXCEPT !.overIds = o, !.overRows = b] = withOver
        BY <2>2
    <2>5. main' = Append(main, [plain EXCEPT !.overIds = o, !.overRows = b])
        BY <1>2 DEF plain
    <2>6. QED
        BY <2>3, <2>4, <2>5
  <1>4. /\ forward \in Forwards /\ main \in Seq(Operation) /\ side \in Seq(Operation)
        /\ dropped \subseteq 1 .. forward
      BY DEF StreamInv, StreamTypeOK, HostInv
  <1>5. o <= forward /\ o \in Forwards \union {Nobody} /\ b \in Forwards \union {Nobody}
      BY <1>4 DEF Reusable, Forwards, Nobody
  <1>6. \A j \in DOMAIN side : side[j] \in Operation /\ side[j].f # o
    <2>1. \A j \in DOMAIN side : side[j] \in Operation /\ side[j].f # Nobody
        BY <1>4, QueueElements DEF Nobody
    <2>2. QED
        BY <2>1 DEF Reusable
  <1>7. op \in Operation
      BY <1>4, <1>5 DEF Operation
  <1>8. /\ main' \in Seq(Operation) /\ Len(main) \in Nat
        /\ DOMAIN main = 1 .. Len(main) /\ DOMAIN main' = 1 .. Len(main) + 1
        /\ \A i \in 1 .. Len(main) : main'[i] = main[i]
        /\ main'[Len(main) + 1] = op
      BY <1>3, <1>4, <1>7, QueueAppend
  <1>9. op.kind = "layer" /\ op.overIds = o /\ op.overRows = b
      OBVIOUS
  <1> HIDE DEF op
  <1>10. StreamTypeOK'
      BY <1>1 DEF StreamInv, StreamTypeOK, deviceVars
  <1>11. HostInv'
      BY <1>1, <1>8 DEF StreamInv, HostInv
  <1>12. GatherInv'
    <2>1. ASSUME NEW j \in DOMAIN side
          PROVE  /\ side[j].kind = "gather" /\ side[j].buffer # Nobody /\ side[j].f <= forward
                 /\ \A k \in DOMAIN side : j < k => side[j].f < side[k].f
                 /\ \/ ids[side[j].f] = side[j].f
                    \/ \E i \in DOMAIN main' :
                         /\ main'[i].kind = "ids" /\ main'[i].f = side[j].f
                         /\ mainRan + i <= side[j].after
                 /\ \A i \in DOMAIN main' : main'[i].overIds # side[j].f
      <3>1. \A i \in DOMAIN main' : main'[i].overIds # side[j].f
          BY <1>6, <1>8, <1>9 DEF StreamInv, GatherInv
      <3>2. QED
          BY <1>8, <3>1 DEF StreamInv, GatherInv
    <2>2. ASSUME NEW i \in DOMAIN main'
          PROVE  /\ main'[i].overIds <= forward
                 /\ main'[i].overRows \in dropped \union {Nobody}
                 /\ main'[i].kind = "ids" => main'[i].overRows = Nobody
        BY <1>5, <1>8, <1>9 DEF StreamInv, GatherInv
    <2>3. QED
        BY <1>1, <2>1, <2>2 DEF GatherInv, deviceVars
  <1>13. UseInv'
    <2>1. ASSUME NEW i \in DOMAIN main', main'[i].kind = "use"
          PROVE  /\ main'[i].buffer # Nobody
                 /\ main'[i].f < forward
                 /\ Gathered(side, rows, main'[i].f, main'[i].buffer, main'[i].after - sideRan)
                 /\ \A j \in DOMAIN side : side[j].f > main'[i].f => mainRan + i <= side[j].after
                 /\ \A k \in DOMAIN main' : k < i => main'[k].overRows # main'[i].buffer
      <3>1. i \in 1 .. Len(main) /\ main'[i] = main[i]
          BY <1>8, <1>9, <2>1
      <3>2. QED
          BY <1>1, <1>8, <2>1, <3>1 DEF StreamInv, UseInv
    <2>2. QED
        BY <1>1, <2>1 DEF UseInv, deviceVars
  <1>14. StateInv' /\ RowsAreItsOwn'
      BY <1>1 DEF StreamInv, StateInv, RowsAreItsOwn, deviceVars
  <1>15. QED
      BY <1>10, <1>11, <1>12, <1>13, <1>14 DEF StreamInv

\* The PLE layer makes the current stream wait for the gathers enqueued so far.
LEMMA PleLayerKeeps ==
  ASSUME StreamInv, PleLayer
  PROVE  StreamInv'
  <1> USE LookaheadAssumption
  <1>1. /\ host = "ple"
        /\ \/ forward = MaxForwards /\ host' = "end" /\ forward' = forward
           \/ forward # MaxForwards /\ host' = "start" /\ forward' = forward + 1
        /\ UNCHANGED <<eager, dropped, deviceVars>>
      BY DEF PleLayer
  <1>2. side' = side
      BY DEF PleLayer, Consume
  <1>3. /\ forward \in Forwards /\ forward \in Nat \ {0}
        /\ main \in Seq(Operation) /\ side \in Seq(Operation) /\ sideRan \in Nat
        /\ dropped \subseteq 1 .. forward /\ eager.by <= forward /\ eager.by \notin dropped
        /\ eager.by \in Nat /\ eager.by \in Forwards \union {Nobody}
      BY DEF StreamInv, StreamTypeOK, HostInv, Forwards, Nobody
  <1>4. forward' \in Forwards /\ forward' \in Nat /\ forward <= forward'
        /\ (host' = "start" => forward < forward')
      BY <1>1, <1>3 DEF Forwards
  <1> DEFINE op == [kind |-> "use", f |-> forward, buffer |-> state.buffer,
                    after |-> sideRan + Len(side), overIds |-> Nobody, overRows |-> Nobody]
  <1>5. /\ state' \in [there : BOOLEAN, buffer : Forwards \union {Nobody}] /\ ~state'.there
        /\ \/ state.there /\ main' = Append(main, op)
           \/ ~state.there /\ main' = main
    <2>1. CASE state.there
      <3>1. Consume
          BY <2>1 DEF PleLayer
      <3>2. main' = Append(main, op)
          BY <1>2, <3>1 DEF Consume, Op, AllOfSide
      <3>3. state' = [there |-> FALSE, buffer |-> Nobody]
          BY <3>1 DEF Consume, NoState
      <3>4. QED
          BY <2>1, <3>2, <3>3
    <2>2. CASE ~state.there
        BY <2>2 DEF PleLayer, StreamInv, StreamTypeOK
    <2>3. QED
        BY <2>1, <2>2
  <1>6. state.there => state.buffer = eager.by /\ eager.by # Nobody
      BY DEF StreamInv, HostInv
  <1>7. state.there => op \in Operation
      BY <1>3, <1>6, LenProperties DEF Operation
  <1>8. /\ main' \in Seq(Operation) /\ Len(main) \in Nat /\ DOMAIN main = 1 .. Len(main)
        /\ \A i \in 1 .. Len(main) : i \in DOMAIN main' /\ main'[i] = main[i]
        /\ \A i \in DOMAIN main' :
              \/ i \in 1 .. Len(main)
              \/ i = Len(main) + 1 /\ state.there /\ main'[i] = op
    <2>1. CASE state.there
      <3>1. main' = Append(main, op) /\ op \in Operation
          BY <1>5, <1>7, <2>1
      <3> HIDE DEF op
      <3>2. /\ main' \in Seq(Operation) /\ Len(main) \in Nat
            /\ DOMAIN main = 1 .. Len(main) /\ DOMAIN main' = 1 .. Len(main) + 1
            /\ \A i \in 1 .. Len(main) : main'[i] = main[i]
            /\ main'[Len(main) + 1] = op
          BY <1>3, <3>1, QueueAppend
      <3>3. QED
          BY <2>1, <3>2
    <2>2. CASE ~state.there
        BY <1>3, <1>5, <2>2, LenProperties
    <2>3. QED
        BY <2>1, <2>2
  <1>9. /\ op.kind = "use" /\ op.f = forward /\ op.buffer = state.buffer
        /\ op.after = sideRan + Len(side) /\ op.overIds = Nobody /\ op.overRows = Nobody
      OBVIOUS
  <1> HIDE DEF op
  <1>10. StreamTypeOK'
      BY <1>1, <1>4, <1>5 DEF StreamInv, StreamTypeOK, deviceVars
  <1>11. HostInv'
    <2>1. eager'.by <= forward' /\ (host' = "start" => eager'.by < forward')
        BY <1>1, <1>3, <1>4
    <2>2. dropped' \subseteq 1 .. forward' /\ eager'.by \notin dropped'
        BY <1>1, <1>3, <1>4
    <2>3. host' = "start" => forward' \notin dropped'
        BY <1>1, <1>3, <1>4
    <2>4. QED
        BY <1>1, <1>2, <1>3, <1>5, <1>8, <2>1, <2>2, <2>3 DEF HostInv
  <1>12. GatherInv'
    <2>1. ASSUME NEW j \in DOMAIN side
          PROVE  /\ side[j].kind = "gather" /\ side[j].buffer # Nobody
                 /\ side[j].f <= forward' /\ (host' = "start" => side[j].f < forward')
                 /\ \A k \in DOMAIN side : j < k => side[j].f < side[k].f
                 /\ \/ ids[side[j].f] = side[j].f
                    \/ \E i \in DOMAIN main' :
                         /\ main'[i].kind = "ids" /\ main'[i].f = side[j].f
                         /\ mainRan + i <= side[j].after
                 /\ \A i \in DOMAIN main' : main'[i].overIds # side[j].f
      <3>1. side[j].f \in Forwards /\ side[j].f <= forward
          BY <1>3, QueueElements DEF StreamInv, GatherInv
      <3>2. side[j].f <= forward' /\ (host' = "start" => side[j].f < forward')
          BY <1>3, <1>4, <3>1 DEF Forwards
      <3>3. \A i \in DOMAIN main' : main'[i].overIds # side[j].f
          BY <1>8, <1>9, <3>1 DEF StreamInv, GatherInv, Forwards, Nobody
      <3>4. QED
          BY <1>8, <3>2, <3>3 DEF StreamInv, GatherInv
    <2>2. ASSUME NEW i \in DOMAIN main'
          PROVE  /\ main'[i].overIds <= forward' /\ (host' = "start" => main'[i].overIds < forward')
                 /\ main'[i].overRows \in dropped \union {Nobody}
                 /\ main'[i].kind = "ids" => main'[i].overRows = Nobody
      <3>1. CASE i \in 1 .. Len(main)
        <4>1. main[i].overIds \in Nat /\ main[i].overIds <= forward
            BY <1>3, <1>8, <3>1, QueueElements DEF StreamInv, GatherInv
        <4>2. main[i].overIds <= forward' /\ (host' = "start" => main[i].overIds < forward')
            BY <1>3, <1>4, <4>1
        <4>3. QED
            BY <1>8, <3>1, <4>2 DEF StreamInv, GatherInv
      <3>2. CASE main'[i] = op
          BY <1>3, <1>4, <1>9, <3>2 DEF Nobody
      <3>3. QED
          BY <1>8, <3>1, <3>2
    <2>3. QED
        BY <1>1, <1>2, <2>1, <2>2 DEF GatherInv, deviceVars
  <1>13. UseInv'
    <2>1. ASSUME NEW i \in DOMAIN main', main'[i].kind = "use"
          PROVE  /\ main'[i].buffer # Nobody
                 /\ main'[i].f < forward' \/ host' = "end"
                 /\ Gathered(side, rows, main'[i].f, main'[i].buffer, main'[i].after - sideRan)
                 /\ \A j \in DOMAIN side : side[j].f > main'[i].f => mainRan + i <= side[j].after
                 /\ \A k \in DOMAIN main' : k < i => main'[k].overRows # main'[i].buffer
      <3>1. CASE i \in 1 .. Len(main)
        <4>1. /\ main[i].kind = "use" /\ main[i].buffer # Nobody /\ main[i].f < forward
              /\ Gathered(side, rows, main[i].f, main[i].buffer, main[i].after - sideRan)
              /\ \A j \in DOMAIN side : side[j].f > main[i].f => mainRan + i <= side[j].after
              /\ \A k \in DOMAIN main : k < i => main[k].overRows # main[i].buffer
            BY <1>1, <1>8, <2>1, <3>1 DEF StreamInv, UseInv
        <4>2. main[i].f < forward'
          <5>1. main[i].f \in Nat
              BY <1>3, <3>1, <1>8, QueueElements
          <5>2. QED
              BY <1>3, <1>4, <4>1, <5>1
        <4>3. \A k \in DOMAIN main' : k < i => main'[k].overRows # main[i].buffer
            BY <1>8, <3>1, <4>1
        <4>4. QED
            BY <1>8, <3>1, <4>1, <4>2, <4>3
      <3>2. CASE i = Len(main) + 1 /\ state.there /\ main'[i] = op
        <4>1. Gathered(side, rows, forward, state.buffer, Len(side))
            BY <3>2 DEF StreamInv, StateInv
        <4>2. op.after - sideRan = Len(side)
            BY <1>3, <1>9, LenProperties
        <4>3. \A j \in DOMAIN side : ~(side[j].f > forward)
          <5>1. \A j \in DOMAIN side : side[j].f <= forward /\ side[j].f \in Nat
              BY <1>3, QueueElements DEF StreamInv, GatherInv
          <5>2. QED
              BY <1>3, <5>1
        <4>4. \A k \in 1 .. Len(main) : main'[k].overRows # state.buffer
            BY <1>3, <1>6, <1>8, <3>2 DEF StreamInv, GatherInv
        <4>5. forward < forward' \/ host' = "end"
            BY <1>1, <1>4
        <4>6. \A k \in DOMAIN main' : k < i => main'[k].overRows # state.buffer
            BY <1>8, <3>2, <4>4
        <4>7. QED
            BY <1>6, <1>9, <3>2, <4>1, <4>2, <4>3, <4>5, <4>6
      <3>3. QED
          BY <1>8, <3>1, <3>2
    <2>2. QED
        BY <1>1, <1>2, <2>1 DEF UseInv, deviceVars
  <1>14. StateInv' /\ RowsAreItsOwn'
      BY <1>1, <1>5 DEF StreamInv, StateInv, RowsAreItsOwn, deviceVars
  <1>15. QED
      BY <1>10, <1>11, <1>12, <1>13, <1>14 DEF StreamInv

\* The first stream runs its next operation.
LEMMA RunMainKeeps ==
  ASSUME StreamInv, RunMain
  PROVE  StreamInv'
  <1> USE LookaheadAssumption
  <1> DEFINE op == main[1]
  <1>1. /\ main # <<>> /\ main' = Tail(main) /\ mainRan' = mainRan + 1
        /\ UNCHANGED <<host, forward, state, eager, dropped, side, sideRan>>
      BY DEF RunMain
  <1>2. main \in Seq(Operation) /\ side \in Seq(Operation) /\ mainRan \in Nat /\ sideRan \in Nat
      BY DEF StreamInv, StreamTypeOK, HostInv
  <1>3. /\ main' \in Seq(Operation) /\ Len(main) \in Nat \ {0}
        /\ DOMAIN main = 1 .. Len(main) /\ DOMAIN main' = 1 .. Len(main) - 1
        /\ Head(main) = main[1] /\ op \in Operation
        /\ \A i \in 1 .. Len(main) - 1 : main'[i] = main[i + 1]
      BY <1>1, <1>2, QueueTail
  <1>4. /\ op.after <= sideRan
        /\ ids' = (IF op.kind = "ids" THEN [ids EXCEPT ![op.f] = op.f]
                   ELSE IF op.overIds # Nobody THEN [ids EXCEPT ![op.overIds] = Nobody]
                   ELSE ids)
        /\ rows' = (IF op.overRows # Nobody THEN [rows EXCEPT ![op.overRows] = Nobody] ELSE rows)
        /\ used' = (IF op.kind = "use" THEN used \union {<<op.f, rows[op.buffer]>>} ELSE used)
      BY <1>3 DEF RunMain
  <1>5. /\ ids \in [Forwards -> Forwards \union {Nobody}]
        /\ rows \in [Forwards -> Forwards \union {Nobody}]
        /\ used \subseteq Forwards \X (Forwards \union {Nobody})
      BY DEF StreamInv, StreamTypeOK
  <1>6. /\ op.f \in Forwards /\ op.buffer \in Forwards \union {Nobody}
        /\ op.overIds \in Forwards \union {Nobody} /\ op.overRows \in Forwards \union {Nobody}
        /\ op.after \in Nat /\ (op.kind = "use" => op.buffer # Nobody)
      BY <1>3 DEF Operation, StreamInv, UseInv
  <1>7. 1 \in DOMAIN main /\ \A i \in DOMAIN main' : i + 1 \in DOMAIN main /\ main'[i] = main[i + 1]
      BY <1>3
  <1> HIDE DEF op
  <1>8. /\ ids' \in [Forwards -> Forwards \union {Nobody}]
        /\ rows' \in [Forwards -> Forwards \union {Nobody}]
      BY <1>4, <1>5, <1>6
  <1>9. used' \subseteq Forwards \X (Forwards \union {Nobody})
    <2>1. op.kind = "use" => rows[op.buffer] \in Forwards \union {Nobody}
        BY <1>5, <1>6
    <2>2. QED
        BY <1>4, <1>5, <1>6, <2>1
  <1>10. StreamTypeOK'
      BY <1>1, <1>2, <1>8, <1>9 DEF StreamInv, StreamTypeOK
  <1>11. HostInv'
      BY <1>1, <1>3 DEF StreamInv, HostInv
  <1>12. \A b : b # op.overRows => rows'[b] = rows[b]
      BY <1>4, <1>5
  <1>13. GatherInv'
    <2>1. ASSUME NEW j \in DOMAIN side
          PROVE  \/ ids'[side[j].f] = side[j].f
                 \/ \E i \in DOMAIN main' :
                      /\ main'[i].kind = "ids" /\ main'[i].f = side[j].f
                      /\ mainRan' + i <= side[j].after
      <3>1. side[j].f \in Forwards /\ op.overIds # side[j].f /\ side[j].after \in Nat
          BY <1>2, <1>7, QueueElements DEF StreamInv, GatherInv, op
      <3>2. CASE ids[side[j].f] = side[j].f
          BY <1>4, <1>5, <1>6, <3>1, <3>2
      <3>3. CASE ids[side[j].f] # side[j].f
        <4>1. PICK i \in DOMAIN main :
                 /\ main[i].kind = "ids" /\ main[i].f = side[j].f
                 /\ mainRan + i <= side[j].after
            BY <3>3 DEF StreamInv, GatherInv
        <4>2. CASE i = 1
            BY <1>4, <1>5, <3>1, <4>1, <4>2 DEF op
        <4>3. CASE i # 1
          <5>1. /\ i - 1 \in DOMAIN main' /\ main'[i - 1] = main[i]
                /\ mainRan' + (i - 1) <= side[j].after
              BY <1>1, <1>2, <1>3, <3>1, <4>1, <4>3
          <5>2. QED
              BY <4>1, <5>1
        <4>4. QED
            BY <4>2, <4>3
      <3>4. QED
          BY <3>2, <3>3
    <2>2. QED
        BY <1>1, <1>7, <2>1 DEF StreamInv, GatherInv
  <1>14. UseInv'
    <2>1. ASSUME NEW i \in DOMAIN main', main'[i].kind = "use"
          PROVE  /\ main'[i].buffer # Nobody
                 /\ main'[i].f < forward \/ host = "end"
                 /\ Gathered(side, rows', main'[i].f, main'[i].buffer, main'[i].after - sideRan)
                 /\ \A j \in DOMAIN side : side[j].f > main'[i].f => mainRan' + i <= side[j].after
                 /\ \A k \in DOMAIN main' : k < i => main'[k].overRows # main'[i].buffer
      <3>1. i + 1 \in DOMAIN main /\ main'[i] = main[i + 1] /\ i \in Nat \ {0}
          BY <1>3, <1>7
      <3>2. /\ main'[i].buffer # Nobody /\ (main'[i].f < forward \/ host = "end")
            /\ Gathered(side, rows, main'[i].f, main'[i].buffer, main'[i].after - sideRan)
            /\ \A j \in DOMAIN side : side[j].f > main'[i].f => mainRan + (i + 1) <= side[j].after
            /\ \A k \in DOMAIN main : k < i + 1 => main[k].overRows # main'[i].buffer
          BY <2>1, <3>1 DEF StreamInv, UseInv
      <3>3. main'[i].buffer # op.overRows
          BY <1>7, <3>1, <3>2 DEF op
      <3>4. Gathered(side, rows', main'[i].f, main'[i].buffer, main'[i].after - sideRan)
          BY <1>12, <3>2, <3>3 DEF Gathered
      <3>5. mainRan' + i = mainRan + (i + 1)
          BY <1>1, <1>2, <3>1
      <3>6. \A k \in DOMAIN main' : k < i => main'[k].overRows # main'[i].buffer
        <4>1. TAKE k \in DOMAIN main'
        <4>2. HAVE k < i
        <4>3. k + 1 \in DOMAIN main /\ k + 1 < i + 1 /\ main'[k] = main[k + 1]
            BY <1>3, <1>7, <3>1, <4>2
        <4>4. QED
            BY <3>2, <4>3
      <3>7. QED
          BY <3>2, <3>4, <3>5, <3>6
    <2>2. QED
        BY <1>1, <2>1 DEF UseInv
  <1>15. StateInv'
    <2>1. SUFFICES ASSUME state.there
                   PROVE  Gathered(side, rows', forward, state.buffer, Len(side))
        BY <1>1 DEF StateInv
    <2>2. state.buffer # op.overRows
        BY <1>7, <2>1 DEF StreamInv, HostInv, GatherInv, op
    <2>3. QED
        BY <1>12, <2>1, <2>2 DEF StreamInv, StateInv, Gathered
  <1>16. RowsAreItsOwn'
    <2>1. CASE op.kind = "use"
      <3>1. Gathered(side, rows, op.f, op.buffer, op.after - sideRan)
          BY <1>7, <2>1 DEF StreamInv, UseInv, op
      <3>2. \A j \in DOMAIN side : ~(j <= op.after - sideRan)
          BY <1>2, <1>4, <1>6, QueueElements
      <3>3. rows[op.buffer] = op.f
          BY <3>1, <3>2 DEF Gathered
      <3>4. QED
          BY <1>4, <2>1, <3>3 DEF StreamInv, RowsAreItsOwn
    <2>2. CASE op.kind # "use"
        BY <1>4, <2>2 DEF StreamInv, RowsAreItsOwn
    <2>3. QED
        BY <2>1, <2>2
  <1>17. QED
      BY <1>10, <1>11, <1>13, <1>14, <1>15, <1>16 DEF StreamInv

\* The second stream runs its next gather.
LEMMA RunSideKeeps ==
  ASSUME StreamInv, RunSide
  PROVE  StreamInv'
  <1> USE LookaheadAssumption
  <1> DEFINE op == side[1]
  <1>1. /\ side # <<>> /\ side' = Tail(side) /\ sideRan' = sideRan + 1
        /\ UNCHANGED <<host, forward, state, eager, dropped, main, mainRan, ids, used>>
      BY DEF RunSide
  <1>2. main \in Seq(Operation) /\ side \in Seq(Operation) /\ mainRan \in Nat /\ sideRan \in Nat
      BY DEF StreamInv, StreamTypeOK, HostInv
  <1>3. /\ side' \in Seq(Operation) /\ Len(side) \in Nat \ {0} /\ Len(side') = Len(side) - 1
        /\ DOMAIN side = 1 .. Len(side) /\ DOMAIN side' = 1 .. Len(side) - 1
        /\ Head(side) = side[1] /\ op \in Operation
        /\ \A i \in 1 .. Len(side) - 1 : side'[i] = side[i + 1]
      BY <1>1, <1>2, QueueTail
  <1>4. op.after <= mainRan /\ rows' = [rows EXCEPT ![op.buffer] = ids[op.f]]
      BY <1>3 DEF RunSide
  <1>5. 1 \in DOMAIN side /\ \A j \in DOMAIN side' : j + 1 \in DOMAIN side /\ side'[j] = side[j + 1]
      BY <1>3
  <1>6. /\ ids \in [Forwards -> Forwards \union {Nobody}]
        /\ rows \in [Forwards -> Forwards \union {Nobody}]
      BY DEF StreamInv, StreamTypeOK
  <1>7. /\ op.f \in Forwards /\ op.f \in Nat \ {0} /\ op.buffer \in Forwards /\ op.f <= forward
        /\ \A j \in DOMAIN side' : side'[j].f > op.f
    <2>1. op.f \in Forwards /\ op.f \in Nat \ {0}
        BY <1>2, <1>5, QueueElements
    <2>2. op.buffer \in Forwards /\ op.f <= forward
        BY <1>3, <1>5 DEF Operation, StreamInv, GatherInv
    <2>3. ASSUME NEW j \in DOMAIN side' PROVE side'[j].f > op.f
      <3>1. j + 1 \in DOMAIN side /\ 1 < j + 1
          BY <1>3, <1>5
      <3>2. op.f < side[j + 1].f
          BY <1>5, <3>1 DEF StreamInv, GatherInv
      <3>3. QED
          BY <1>5, <2>1, <3>1, <3>2, <1>2, QueueElements
    <2>4. QED
        BY <2>1, <2>2, <2>3
  <1>8. ids[op.f] = op.f
    <2>1. \A i \in DOMAIN main : ~(mainRan + i <= op.after)
        BY <1>2, <1>4, <1>5, QueueElements
    <2>2. QED
        BY <1>5, <2>1 DEF StreamInv, GatherInv
  <1> HIDE DEF op
  <1>9. rows' \in [Forwards -> Forwards \union {Nobody}] /\ rows'[op.buffer] = op.f
      BY <1>4, <1>6, <1>7, <1>8
  <1>10. ASSUME NEW f \in Nat, NEW b, NEW n \in Int, NEW m \in Int, m = n - 1,
                Gathered(side, rows, f, b, n), ~(op.f > f)
         PROVE  Gathered(side', rows', f, b, m)
    <2>1. PICK j \in DOMAIN side : side[j].f = f /\ side[j].buffer = b /\ j <= n
        BY <1>5, <1>10 DEF Gathered, op
    <2>2. CASE j = 1
      <3>1. rows'[b] = f /\ op.f = f
          BY <1>9, <2>1, <2>2 DEF op
      <3>2. QED
          BY <1>7, <3>1 DEF Gathered
    <2>3. CASE j # 1
      <3>1. j - 1 \in DOMAIN side' /\ side'[j - 1] = side[j] /\ j - 1 <= m
          BY <1>3, <1>10, <2>1, <2>3
      <3>2. QED
          BY <2>1, <3>1 DEF Gathered
    <2>4. QED
        BY <2>2, <2>3
  <1>11. StreamTypeOK'
      BY <1>1, <1>2, <1>9 DEF StreamInv, StreamTypeOK
  <1>12. HostInv'
      BY <1>1, <1>3 DEF StreamInv, HostInv
  <1>13. GatherInv'
    <2>1. ASSUME NEW j \in DOMAIN side'
          PROVE  /\ side'[j].kind = "gather" /\ side'[j].buffer # Nobody
                 /\ side'[j].f <= forward /\ (host = "start" => side'[j].f < forward)
                 /\ \A k \in DOMAIN side' : j < k => side'[j].f < side'[k].f
                 /\ \/ ids[side'[j].f] = side'[j].f
                    \/ \E i \in DOMAIN main :
                         /\ main[i].kind = "ids" /\ main[i].f = side'[j].f
                         /\ mainRan + i <= side'[j].after
                 /\ \A i \in DOMAIN main : main[i].overIds # side'[j].f
      <3>1. j + 1 \in DOMAIN side /\ side'[j] = side[j + 1]
          BY <1>5
      <3>2. ASSUME NEW k \in DOMAIN side', j < k PROVE side'[j].f < side'[k].f
        <4>1. k + 1 \in DOMAIN side /\ side'[k] = side[k + 1] /\ j + 1 < k + 1
            BY <1>3, <1>5, <3>2
        <4>2. QED
            BY <3>1, <4>1 DEF StreamInv, GatherInv
      <3>3. QED
          BY <3>1, <3>2 DEF StreamInv, GatherInv
    <2>2. QED
        BY <1>1, <2>1 DEF StreamInv, GatherInv
  <1>14. UseInv'
    <2>1. ASSUME NEW i \in DOMAIN main, main[i].kind = "use"
          PROVE  /\ Gathered(side', rows', main[i].f, main[i].buffer, main[i].after - sideRan')
                 /\ \A j \in DOMAIN side' : side'[j].f > main[i].f => mainRan + i <= side'[j].after
      <3>1. /\ Gathered(side, rows, main[i].f, main[i].buffer, main[i].after - sideRan)
            /\ \A j \in DOMAIN side : side[j].f > main[i].f => mainRan + i <= side[j].after
          BY <2>1 DEF StreamInv, UseInv
      <3>2. ~(op.f > main[i].f)
        <4>1. op.f > main[i].f => mainRan + i <= op.after
            BY <1>5, <3>1 DEF op
        <4>2. i \in Nat \ {0} /\ op.after \in Nat
            BY <1>2, <1>5, QueueElements DEF op
        <4>3. QED
            BY <1>2, <1>4, <4>1, <4>2
      <3>3. /\ main[i].f \in Nat /\ main[i].after - sideRan \in Int
            /\ main[i].after - sideRan' \in Int
            /\ main[i].after - sideRan' = (main[i].after - sideRan) - 1
        <4>1. main[i].f \in Nat /\ main[i].after \in Nat
            BY <1>2, QueueElements
        <4>2. \A m \in Nat : /\ m - sideRan \in Int /\ m - (sideRan + 1) \in Int
                             /\ m - (sideRan + 1) = (m - sideRan) - 1
            BY <1>2
        <4>3. QED
            BY <1>1, <4>1, <4>2
      <3>4. Gathered(side', rows', main[i].f, main[i].buffer, main[i].after - sideRan')
          BY <1>10, <3>1, <3>2, <3>3
      <3>5. \A j \in DOMAIN side' : side'[j].f > main[i].f => mainRan + i <= side'[j].after
          BY <1>5, <3>1
      <3>6. QED
          BY <3>4, <3>5
    <2>2. QED
        BY <1>1, <2>1 DEF StreamInv, UseInv
  <1>15. StateInv'
    <2>1. SUFFICES ASSUME state.there
                   PROVE  Gathered(side', rows', forward, state.buffer, Len(side'))
        BY <1>1 DEF StateInv
    <2>2. forward \in Nat
        BY DEF StreamInv, StreamTypeOK, Forwards
    <2>3. ~(op.f > forward)
        BY <1>7, <2>2
    <2>4. Gathered(side, rows, forward, state.buffer, Len(side))
        BY <2>1 DEF StreamInv, StateInv
    <2>5. QED
        BY <1>3, <1>10, <2>2, <2>3, <2>4
  <1>16. RowsAreItsOwn'
      BY <1>1 DEF StreamInv, RowsAreItsOwn
  <1>17. QED
      BY <1>11, <1>12, <1>13, <1>14, <1>15, <1>16 DEF StreamInv

\* Every step of the host and of the two streams keeps the invariant.
LEMMA StreamStep == StreamInv /\ [StreamNext]_streamVars => StreamInv'
  <1> SUFFICES ASSUME StreamInv, [StreamNext]_streamVars PROVE StreamInv'
      OBVIOUS
  <1>1. CASE UNCHANGED streamVars
    <2>1. StreamTypeOK' /\ HostInv' /\ RowsAreItsOwn'
        BY <1>1 DEF StreamInv, StreamTypeOK, HostInv, RowsAreItsOwn, streamVars
    <2>2. GatherInv' /\ UseInv' /\ StateInv'
        BY <1>1 DEF StreamInv, GatherInv, UseInv, StateInv, streamVars
    <2>3. QED
        BY <2>1, <2>2 DEF StreamInv
  <1>2. QED
      BY <1>1, StartPrefetchKeeps, LayerKeeps, PleLayerKeeps, RunMainKeeps, RunSideKeeps
      DEF StreamNext, Host

LEMMA StreamAlways == StreamSpec => []StreamInv
  BY StreamInitially, StreamStep, PTL DEF StreamSpec

\* However many forwards the host runs ahead of the device and however their sizes
\* vary, a PLE layer uses the rows of its own forward's ids.
THEOREM LookaheadUsesOwnRows == StreamSpec => []RowsAreItsOwn
  <1>1. StreamInv => RowsAreItsOwn
      BY DEF StreamInv
  <1>2. QED
      BY <1>1, StreamAlways, PTL

\* A forward is never refused because an earlier one left its prefetch unconsumed.
THEOREM NoForwardIsRefused == StreamSpec => [](host # "raised")
  <1>1. StreamInv => host # "raised"
      BY DEF StreamInv, HostInv
  <1>2. QED
      BY <1>1, StreamAlways, PTL

-----------------------------------------------------------------------------
\* The composition behind one selector gives each way of lookup exactly its own
\* behaviours, so that what is proved of each holds of the whole.
THEOREM PathsAreIndependent == LookupSpec => GateSpec /\ CacheSpec /\ StreamSpec
  <1>1. LookupInit => GateInit /\ CacheInit /\ StreamInit
      BY DEF LookupInit
  <1>2. [LookupNext]_lookupVars =>
          [GateNext]_gateVars /\ [CacheNext]_cacheVars /\ [StreamNext]_streamVars
      BY DEF LookupNext, lookupVars
  <1>3. QED
      BY <1>1, <1>2, PTL DEF LookupSpec, GateSpec, CacheSpec, StreamSpec
=============================================================================
