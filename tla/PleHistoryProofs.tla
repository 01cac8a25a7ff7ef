--------------------------- MODULE PleHistoryProofs ---------------------------
(***************************************************************************)
(* The PLE side states for any number of requests, slots, tokens and       *)
(* padding rows: every forward's layout stays within its bounds, a forward *)
(* writes no slot but its own, the two states of a live request stand for  *)
(* the text it has consumed, a cached slot for the prefix it is filed      *)
(* under, and a layer reads each token's true predecessors.                *)
(***************************************************************************)
EXTENDS PleHistory, FiniteSetTheorems, WellFoundedInduction, TLAPS
\* No two requests share a working slot.
SlotsDistinct ==
    \A q, r \in Reqs : slotOf[q] = slotOf[r] /\ slotOf[q] # Reserved => q = r

\* What the layer and the commit rely on in a forward's layout: its rows are
\* rows of the request pool, its tokens are tokens, only real rows own state,
\* and a tracked row is real and goes to its own track slot.
RowsOK(fb) ==
    /\ fb.real \in Nat
    /\ \A i \in Rows(fb) :
         /\ Length(fb, i) \in Nat
         /\ fb.reqs[i] \in Reqs
         /\ OwnsState(fb, i) => i < fb.real
    /\ \A p \in Positions(fb) : fb.tokens[p] \in Cell

TracksOK(fb, track, n) ==
    ~IsVerify(fb) =>
        \A i \in Rows(fb) :
            /\ TrackOffset(fb, i) \in Nat
            /\ fb.mask[i] => i < fb.real /\ fb.dst[i] = track[fb.reqs[i]]
            /\ i < fb.real => n[fb.reqs[i]] + Length(fb, i) <= MaxLen

DraftsOK(fb, n) ==
    IsVerify(fb) =>
        /\ Columns(fb) = 0 .. DraftTokens - 1
        /\ \A i \in RealRows(fb) : n[fb.reqs[i]] + fb.good[i] <= MaxLen
                                /\ fb.good[i] \in Nat

RealDistinct(fb) ==
    \A i, j \in RealRows(fb) : fb.reqs[i] = fb.reqs[j] => i = j

\* The forward in flight.
BatchInv ==
    pc # "idle" =>
        /\ RowsOK(batch.fb)
        /\ TracksOK(batch.fb, trackOf, done)
        /\ DraftsOK(batch.fb, done)
        /\ \A i \in Rows(batch.fb) :
             /\ batch.slot[i] = StateIndex(batch.fb, slotOf, i)
             /\ batch.history[i] \in Context
        /\ \A i \in RealRows(batch.fb) : batch.fb.reqs[i] \in Live

\* The candidate states of a verify forward.
StepsInv ==
    /\ pc = "commit" /\ IsVerify(batch.fb) /\ ProcessedTokens(batch.fb) # 0 =>
         convSteps \in [Rows(batch.fb) -> [Columns(batch.fb) -> ConvState]]
    /\ pc = "verified" =>
         /\ IsVerify(batch.fb)
         /\ convSteps \in [Rows(batch.fb) -> [Columns(batch.fb) -> ConvState]]
         /\ ngramSteps \in [Rows(batch.fb) -> [Columns(batch.fb) -> Context]]

IInv == TypeOK /\ SlotsDistinct /\ BatchInv /\ StepsInv

-----------------------------------------------------------------------------
(* Indexed assignment.                                                     *)

Values(rows, value, V) == \A i \in rows : value[i] \in V

SameElsewhere(S, pool, rows, dst, r) ==
    \A s \in S : (\A i \in rows : dst[i] # s) => r[s] = pool[s]

\* An indexed assignment keeps the pool's type and every slot no row names.
LEMMA IndexPutKeeps ==
  ASSUME NEW S, NEW V, NEW rows, NEW dst, NEW value, NEW pool \in [S -> V],
         Values(rows, value, V), NEW r \in IndexPut(pool, rows, dst, value)
  PROVE  r \in [S -> V] /\ SameElsewhere(S, pool, rows, dst, r)
  <1> DEFINE Hit == {dst[i] : i \in rows}
  <1>1. PICK last \in [Hit -> rows] :
          r = [s \in DOMAIN pool |-> IF s \in Hit THEN value[last[s]] ELSE pool[s]]
      BY DEF IndexPut
  <1>2. DOMAIN pool = S
      OBVIOUS
  <1>3. r = [s \in S |-> IF s \in Hit THEN value[last[s]] ELSE pool[s]]
      BY <1>1, <1>2
  <1>4. \A s \in S : r[s] \in V
    <2> SUFFICES ASSUME NEW s \in S PROVE r[s] \in V
        OBVIOUS
    <2>1. CASE s \in Hit
      <3>1. last[s] \in rows
          BY <2>1
      <3> QED
          BY <3>1, <2>1, <1>3 DEF Values
    <2>2. CASE s \notin Hit
        BY <2>2, <1>3
    <2> QED
        BY <2>1, <2>2
  <1> QED
      BY <1>3, <1>4 DEF SameElsewhere

TwoPuts(pool, rows, dst, value, rows2, dst2, value2) ==
    UNION {IndexPut(mid, rows2, dst2, value2) : mid \in IndexPut(pool, rows, dst, value)}

SameBeside(S, pool, rows, dst, rows2, dst2, r) ==
    \A s \in S : (\A i \in rows : dst[i] # s) /\ (\A i \in rows2 : dst2[i] # s)
                   => r[s] = pool[s]

\* So do two of them, one after the other.
LEMMA TwoPutsKeep ==
  ASSUME NEW S, NEW V, NEW pool \in [S -> V],
         NEW rows, NEW dst, NEW value, Values(rows, value, V),
         NEW rows2, NEW dst2, NEW value2, Values(rows2, value2, V),
         NEW r \in TwoPuts(pool, rows, dst, value, rows2, dst2, value2)
  PROVE  r \in [S -> V] /\ SameBeside(S, pool, rows, dst, rows2, dst2, r)
  <1>1. PICK mid \in IndexPut(pool, rows, dst, value) :
          r \in IndexPut(mid, rows2, dst2, value2)
      BY DEF TwoPuts
  <1>2. mid \in [S -> V] /\ SameElsewhere(S, pool, rows, dst, mid)
      BY IndexPutKeeps
  <1>3. r \in [S -> V] /\ SameElsewhere(S, mid, rows2, dst2, r)
      BY <1>1, <1>2, IndexPutKeeps
  <1> QED
      BY <1>2, <1>3 DEF SameElsewhere, SameBeside

-----------------------------------------------------------------------------
(* Arithmetic.                                                             *)

\* A nonempty set of naturals has a least element.
LEMMA LeastElement ==
  ASSUME NEW T, T \subseteq Nat, T # {}
  PROVE  \E m \in T : \A k \in T : m <= k
  <1>1. IsWellFoundedOn(OpToRel(<, Nat), Nat)
      BY NatLessThanWellFounded
  <1>2. PICK m \in T : \A k \in T : ~ (<<k, m>> \in OpToRel(<, Nat))
      BY <1>1, WFMin
  <1>3. \A k \in T : ~ (k < m)
    <2> SUFFICES ASSUME NEW k \in T, k < m PROVE FALSE
        OBVIOUS
    <2>1. <<k, m>> \in Nat \X Nat /\ <<k, m>>[1] = k /\ <<k, m>>[2] = m
        OBVIOUS
    <2> QED
        BY <1>2, <2>1, Zenon DEF OpToRel
  <1>4. m \in Nat /\ \A k \in T : k \in Nat
      OBVIOUS
  <1>5. \A k \in Nat : ~ (k < m) => m <= k
      BY <1>4
  <1> QED
      BY <1>3, <1>4, <1>5

\* Rounding down to a multiple does not round up.
LEMMA RoundsDown ==
  ASSUME NEW n \in Nat
  PROVE  Boundary(n) \in Nat /\ Boundary(n) <= n
  BY HistoryAssumption DEF Boundary

\* Dividing a row's positions by the row width gives the row back.
LEMMA RowOfPosition ==
  ASSUME NEW d \in Nat \ {0}, NEW n \in Nat, NEW p \in 0 .. n * d - 1
  PROVE  p \div d \in 0 .. n - 1 /\ p % d \in 0 .. d - 1
  OBVIOUS

\* A position of a row of l tokens that starts at s, of a request with c consumed.
LEMMA WithinText ==
  ASSUME NEW c \in Nat, NEW l \in Nat, NEW s \in Nat, NEW p \in Nat, NEW m \in Nat,
         s <= p, p < s + l, c + l <= m
  PROVE  c + p - s + 1 \in 1 .. m
  OBVIOUS

LEMMA WithinDraft ==
  ASSUME NEW c \in Nat, NEW g \in Nat, NEW o \in Nat, NEW m \in Nat, o < g, c + g <= m
  PROVE  c + o + 1 \in 1 .. m
  OBVIOUS

LEMMA WholeRows ==
  ASSUME NEW d \in Nat \ {0}, NEW n \in Nat
  PROVE  (n * d) \div d = n
  OBVIOUS

LEMMA RowsBefore ==
  ASSUME NEW d \in Nat, NEW n \in Nat, NEW m \in Nat, n <= m
  PROVE  n * d <= m * d
  OBVIOUS

\* A position of row i lies before row n only if row i does.
LEMMA RowBefore ==
  ASSUME NEW d \in Nat \ {0}, NEW n \in Nat, NEW i \in Nat, NEW o \in 0 .. d - 1
  PROVE  (i * d + o < n * d) <=> (i < n)
  OBVIOUS

-----------------------------------------------------------------------------
(* The scheduler's batches have the layout the PLE forward relies on.      *)

LayoutOK(fb) == RowsOK(fb) /\ TracksOK(fb, trackOf, done) /\ DraftsOK(fb, done)
                /\ RealDistinct(fb) /\ \A i \in RealRows(fb) : fb.reqs[i] \in Live

LEMMA TextTyped ==
  ASSUME TypeOK, NEW r \in Reqs, NEW k \in 1 .. MaxLen
  PROVE  text[r][k] \in Token
  <1>1. text[r] \in Texts
      BY DEF TypeOK
  <1> QED
      BY <1>1, HistoryAssumption

LEMMA LiveFinite == Live \subseteq Reqs /\ Cardinality(Live) \in Nat
  <1>1. Live \subseteq Reqs
      BY DEF Live
  <1> QED
      BY <1>1, HistoryAssumption, FS_Subset, FS_CardinalityType

\* A position of the flat batch belongs to some row.
LEMMA RowAtExists ==
  ASSUME NEW n \in Nat, NEW start \in [0 .. n -> Nat], start[0] = 0,
         NEW p \in Nat, p < start[n]
  PROVE  \E i \in 0 .. n - 1 : start[i] <= p /\ p < start[i + 1]
  <1> DEFINE Past == {k \in 0 .. n : p < start[k]}
  <1>1. Past \subseteq Nat /\ n \in Past
      OBVIOUS
  <1>2. PICK m \in Past : \A k \in Past : m <= k
      BY <1>1, LeastElement
  <1>3. m # 0 /\ m - 1 \in 0 .. n - 1 /\ m - 1 \notin Past
      BY <1>2
  <1>4. start[m - 1] <= p /\ p < start[m - 1 + 1]
      BY <1>2, <1>3
  <1> QED
      BY <1>3, <1>4

LEMMA ExtendLayout ==
  ASSUME TypeOK,
         NEW n \in Nat \ {0}, NEW padding \in 0 .. MaxPadding,
         NEW reqs \in [0 .. n - 1 -> Live], NEW lens \in [0 .. n - 1 -> 0 .. MaxChunk],
         NEW start \in [0 .. n -> Nat],
         NEW cpuLens \in BOOLEAN, NEW counted \in BOOLEAN,
         IsCumulativeSum(start, lens, n),
         \A i, j \in 0 .. n - 1 : reqs[i] = reqs[j] => i = j,
         \A i \in 0 .. n - 1 : done[reqs[i]] + lens[i] <= MaxLen,
         NEW fb, fb = ExtendBatch(n, padding, reqs, lens, start, cpuLens, counted)
  PROVE  LayoutOK(fb)
  <1> USE HistoryAssumption
  <1>1. /\ ForwardMode(fb) = "extend" /\ ~IsVerify(fb) /\ ~IsDecode(fb)
        /\ fb.real = n /\ fb.seqs = n /\ fb.reqs = reqs /\ fb.lens = lens
        /\ Rows(fb) = 0 .. n - 1 /\ RealRows(fb) = 0 .. n - 1
        /\ \A i : Length(fb, i) = lens[i]
    <2>1. /\ fb.current = "extend" /\ fb.original = "none" /\ fb.gpuLens
          /\ fb.real = n /\ fb.seqs = n /\ fb.reqs = reqs /\ fb.lens = lens
        BY DEF ExtendBatch
    <2>2. ForwardMode(fb) = "extend" /\ ~IsVerify(fb) /\ ~IsDecode(fb)
        BY <2>1 DEF ForwardMode, IsVerify, IsDecode
    <2>3. Rows(fb) = 0 .. n - 1 /\ RealRows(fb) = 0 .. n - 1
        BY <2>1, <2>2 DEF Rows, SequenceCount, RealRows
    <2>4. \A i : Length(fb, i) = lens[i]
        BY <2>1, <2>2 DEF Length
    <2> QED
        BY <2>1, <2>2, <2>3, <2>4
  <1>2. /\ \A i \in 0 .. n - 1 : reqs[i] \in Live /\ reqs[i] \in Reqs /\ lens[i] \in Nat
        /\ \A i \in 0 .. n - 1 : done[reqs[i]] \in Nat
    <2>1. \A i \in 0 .. n - 1 : reqs[i] \in Live /\ reqs[i] \in Reqs /\ lens[i] \in Nat
        BY LiveFinite
    <2>2. \A r \in Reqs : done[r] \in Nat
        BY DEF TypeOK
    <2> QED
        BY <2>1, <2>2
  <1>3. \A p \in Positions(fb) : fb.tokens[p] \in Cell
    <2>1. Positions(fb) \subseteq 0 .. start[n] + padding - 1
      <3>1. start[n] \in Nat /\ start[n] # NoCount /\ padding \in Nat
          BY DEF NoCount
      <3>2. ProcessedTokens(fb) \in {start[n], start[n] + padding}
          BY <3>1 DEF ProcessedTokens, ExtendBatch
      <3> QED
          BY <3>1, <3>2 DEF Positions
    <2>2. ASSUME NEW p \in 0 .. start[n] + padding - 1 PROVE fb.tokens[p] \in Cell
      <3> DEFINE i == RowAt(start, n, p)
      <3>1. fb.tokens[p] = IF p < start[n]
              THEN text[reqs[i]][done[reqs[i]] + p - start[i] + 1] ELSE Eos
          BY <2>2 DEF ExtendBatch
      <3>2. CASE p < start[n]
        <4>1. i \in 0 .. n - 1 /\ start[i] <= p /\ p < start[i + 1]
          <5>1. start[0] = 0 /\ p \in Nat /\ n \in Nat
              BY <2>2 DEF IsCumulativeSum
          <5>2. \E k \in 0 .. n - 1 : start[k] <= p /\ p < start[k + 1]
              BY <5>1, <3>2, RowAtExists
          <5> QED
              BY <5>2, Zenon DEF RowAt
        <4> HIDE DEF i
        <4>2. start[i + 1] = start[i] + lens[i] /\ start[i] \in Nat /\ lens[i] \in Nat
            BY <4>1, <1>2 DEF IsCumulativeSum
        <4>3. done[reqs[i]] + p - start[i] + 1 \in 1 .. MaxLen
          <5>1. done[reqs[i]] \in Nat /\ done[reqs[i]] + lens[i] <= MaxLen
              BY <4>1, <1>2
          <5>2. p \in Nat
            <6>1. p \in 0 .. start[n] + padding - 1
                BY <2>2
            <6> QED
                BY <6>1
          <5>3. p < start[i] + lens[i] /\ start[i] <= p
              BY <4>1, <4>2
          <5>4. start[i] \in Nat /\ lens[i] \in Nat /\ MaxLen \in Nat
              BY <4>2
          <5> QED
              BY ONLY <5>1, <5>2, <5>3, <5>4, WithinText
        <4> QED
            BY <3>1, <3>2, <4>1, <4>3, <1>2, TextTyped DEF Cell
      <3> QED
          BY <3>1, <3>2 DEF Cell
    <2> QED
        BY <2>1, <2>2
  <1>4. ASSUME NEW i \in 0 .. n - 1
        PROVE  TrackOffset(fb, i) \in Nat /\ fb.dst[i] = trackOf[reqs[i]]
    <2>1. fb.aligned[i] = Boundary(done[reqs[i]] + lens[i]) - done[reqs[i]]
          /\ fb.dst[i] = trackOf[reqs[i]]
        BY <1>4 DEF ExtendBatch
    <2>2. Boundary(done[reqs[i]] + lens[i]) \in Nat
      <3>1. done[reqs[i]] \in Nat /\ lens[i] \in Nat
          BY <1>4, <1>2
      <3>2. done[reqs[i]] + lens[i] \in Nat
          BY ONLY <3>1
      <3> QED
          BY <3>2, RoundsDown
    <2>3. fb.aligned[i] \in Int
      <3>1. done[reqs[i]] \in Nat
          BY <1>4, <1>2
      <3> QED
          BY ONLY <2>1, <2>2, <3>1
    <2> QED
      <3>1. lens[i] \in Nat /\ Length(fb, i) = lens[i] /\ ~IsDecode(fb)
          BY <1>4, <1>1, <1>2
      <3>2. TrackOffset(fb, i) \in Nat
          BY <3>1, <2>3 DEF TrackOffset
      <3> QED
          BY <3>2, <2>1
  <1>5. RowsOK(fb)
      BY <1>1, <1>2, <1>3 DEF RowsOK
  <1>6. TracksOK(fb, trackOf, done)
    <2>1. ASSUME NEW i \in 0 .. n - 1
          PROVE  /\ TrackOffset(fb, i) \in Nat
                 /\ i < n /\ fb.dst[i] = trackOf[fb.reqs[i]]
                 /\ done[fb.reqs[i]] + Length(fb, i) <= MaxLen
      <3>1. TrackOffset(fb, i) \in Nat /\ fb.dst[i] = trackOf[reqs[i]]
          BY ONLY <1>4, <2>1
      <3>2. done[reqs[i]] + lens[i] <= MaxLen
          OBVIOUS
      <3>3. fb.reqs = reqs /\ Length(fb, i) = lens[i]
          BY ONLY <1>1
      <3>4. i < n
          BY ONLY i \in 0 .. n - 1, n \in Nat \ {0}
      <3> QED
          BY ONLY <3>1, <3>2, <3>3, <3>4
    <2> QED
        BY ONLY <1>1, <2>1 DEF TracksOK
  <1>7. DraftsOK(fb, done)
      BY <1>1 DEF DraftsOK
  <1>8. RealDistinct(fb)
      BY <1>1 DEF RealDistinct
  <1>9. \A i \in RealRows(fb) : fb.reqs[i] \in Live
      BY <1>1, <1>2
  <1> QED
      BY <1>5, <1>6, <1>7, <1>8, <1>9 DEF LayoutOK

LEMMA PadToTyped ==
  ASSUME NEW n \in Nat, NEW m \in Nat, NEW reqs \in [0 .. n - 1 -> Live]
  PROVE  /\ \A i \in 0 .. m - 1 : PadTo(reqs, n, m)[i] \in Reqs
         /\ \A i \in 0 .. m - 1 : i < n => PadTo(reqs, n, m)[i] = reqs[i]
                                           /\ reqs[i] \in Live /\ reqs[i] \in Reqs
  BY LiveFinite, HistoryAssumption DEF PadTo

LEMMA DecodeLayout ==
  ASSUME TypeOK,
         NEW n \in Nat \ {0}, NEW padding \in 0 .. MaxPadding,
         NEW reqs \in [0 .. n - 1 -> Live],
         NEW fused \in BOOLEAN, NEW counted \in BOOLEAN,
         \A i, j \in 0 .. n - 1 : reqs[i] = reqs[j] => i = j,
         \A i \in 0 .. n - 1 : done[reqs[i]] + 1 <= MaxLen,
         NEW fb, fb = DecodeBatch(n, padding, reqs, fused, counted)
  PROVE  LayoutOK(fb)
  <1> USE HistoryAssumption
  <1> DEFINE rows == n + padding
  <1>0. rows \in Nat /\ n \in Nat /\ n <= rows /\ n # NoCount /\ padding \in Nat
      BY DEF NoCount
  <1>1. /\ ForwardMode(fb) = "decode" /\ ~IsVerify(fb) /\ IsDecode(fb)
        /\ fb.real = n /\ fb.reqs = PadTo(reqs, n, rows)
        /\ \A i : Length(fb, i) = 1 /\ TrackOffset(fb, i) = 1
      BY DEF DecodeBatch, ForwardMode, IsVerify, IsDecode, Length, TrackOffset
  <1>2. /\ \A i \in 0 .. rows - 1 : fb.loc[i] = (i < n)
        /\ \A i \in 0 .. rows - 1 : fb.dst[i] = IF i < n THEN trackOf[reqs[i]] ELSE Reserved
        /\ \A i \in 0 .. rows - 1 : fb.mask[i] => i < n
        /\ \A i \in 0 .. rows - 1 :
             fb.tokens[i] = IF i < n THEN text[reqs[i]][done[reqs[i]] + 1] ELSE Eos
      BY DEF DecodeBatch
  <1>3. ProcessedTokens(fb) \in {n, rows}
      BY <1>0 DEF ProcessedTokens, DecodeBatch
  <1> HIDE DEF rows
  <1>4. Rows(fb) \subseteq 0 .. rows - 1 /\ Positions(fb) \subseteq 0 .. rows - 1
      BY <1>0, <1>1, <1>3 DEF Rows, SequenceCount, Positions
  <1>5. /\ \A i \in 0 .. rows - 1 : PadTo(reqs, n, rows)[i] \in Reqs
        /\ \A i \in 0 .. rows - 1 : i < n => PadTo(reqs, n, rows)[i] = reqs[i]
                                          /\ reqs[i] \in Live /\ reqs[i] \in Reqs
      BY <1>0, PadToTyped
  <1>6. ASSUME NEW i \in 0 .. rows - 1, i < n
        PROVE  done[reqs[i]] + 1 \in 1 .. MaxLen /\ done[reqs[i]] + 1 <= MaxLen
    <2>1. i \in 0 .. n - 1 /\ reqs[i] \in Reqs
        BY <1>6, <1>5
    <2>2. done[reqs[i]] \in Nat
        BY <2>1 DEF TypeOK
    <2> QED
        BY <2>1, <2>2
  <1>7. \A p \in Positions(fb) : fb.tokens[p] \in Cell
    <2> SUFFICES ASSUME NEW p \in 0 .. rows - 1 PROVE fb.tokens[p] \in Cell
        BY <1>4
    <2>1. CASE p < n
        BY <2>1, <1>2, <1>5, <1>6, TextTyped DEF Cell
    <2>2. CASE ~(p < n)
        BY <2>2, <1>2 DEF Cell
    <2> QED
        BY <2>1, <2>2
  <1>8. RowsOK(fb)
    <2>1. \A i \in Rows(fb) : OwnsState(fb, i) => i < n
        BY <1>1, <1>2, <1>4 DEF OwnsState
    <2> QED
        BY <2>1, <1>0, <1>1, <1>4, <1>5, <1>7 DEF RowsOK
  <1>9. TracksOK(fb, trackOf, done)
    <2>1. \A i \in Rows(fb) : fb.mask[i] => i < n /\ fb.dst[i] = trackOf[fb.reqs[i]]
        BY <1>1, <1>2, <1>4, <1>5
    <2>2. \A i \in Rows(fb) : i < n => done[fb.reqs[i]] + Length(fb, i) <= MaxLen
        BY <1>1, <1>4, <1>5, <1>6
    <2> QED
        BY <2>1, <2>2, <1>1 DEF TracksOK
  <1>10. \A i \in RealRows(fb) : i \in 0 .. n - 1 /\ fb.reqs[i] = reqs[i] /\ reqs[i] \in Live
      BY <1>0, <1>1, <1>4, <1>5 DEF RealRows
  <1>11. DraftsOK(fb, done) /\ RealDistinct(fb)
      BY <1>1, <1>10 DEF DraftsOK, RealDistinct
  <1> QED
      BY <1>8, <1>9, <1>10, <1>11 DEF LayoutOK

LEMMA VerifyLayout ==
  ASSUME TypeOK,
         NEW n \in Nat \ {0}, NEW padding \in 0 .. MaxPadding,
         NEW reqs \in [0 .. n - 1 -> Live],
         NEW good \in [0 .. n - 1 -> 1 .. DraftTokens],
         NEW short \in [0 .. n - 1 -> 1 .. DraftTokens],
         NEW rewritten \in BOOLEAN, NEW gpuLens \in BOOLEAN,
         NEW counted \in BOOLEAN, NEW padLen \in BOOLEAN,
         \A i, j \in 0 .. n - 1 : reqs[i] = reqs[j] => i = j,
         \A i \in 0 .. n - 1 : done[reqs[i]] + good[i] <= MaxLen,
         NEW fb, fb = VerifyBatch(n, padding, reqs, good, short, rewritten, gpuLens,
                                  counted, padLen)
  PROVE  LayoutOK(fb)
  <1> USE HistoryAssumption
  <1> DEFINE rows == n + padding
  <1>0. rows \in Nat /\ n \in Nat /\ n <= rows /\ padding \in Nat
        /\ n * DraftTokens \in Nat /\ rows * DraftTokens \in Nat
        /\ n * DraftTokens # NoCount
    <2>1. rows \in Nat /\ n \in Nat /\ n <= rows /\ padding \in Nat
        OBVIOUS
    <2>2. n * DraftTokens \in Nat /\ rows * DraftTokens \in Nat
        BY <2>1
    <2> QED
        BY <2>1, <2>2 DEF NoCount
  <1>1. /\ ForwardMode(fb) = "verify" /\ IsVerify(fb) /\ ~IsDecode(fb)
        /\ fb.real = n /\ fb.reqs = PadTo(reqs, n, rows) /\ fb.draft = DraftTokens
        /\ fb.good = good
        /\ RowWidth(fb) = DraftTokens
      BY DEF VerifyBatch, ForwardMode, IsVerify, IsDecode, RowWidth
  <1>2. \A p \in 0 .. rows * DraftTokens - 1 : fb.loc[p] => p < n * DraftTokens
      BY DEF VerifyBatch
  <1>3. ProcessedTokens(fb) \in {n * DraftTokens, rows * DraftTokens}
      BY <1>0 DEF ProcessedTokens, VerifyBatch
  <1>4. \A i \in 0 .. rows - 1 : Length(fb, i) \in Nat
    <2> SUFFICES ASSUME NEW i \in 0 .. rows - 1 PROVE Length(fb, i) \in Nat
        OBVIOUS
    <2>1. Length(fb, i) \in {fb.lens[i], DraftTokens}
        BY <1>1 DEF Length
    <2>2. fb.lens[i] = IF rewritten THEN 1 ELSE IF i < n THEN short[i]
                       ELSE IF padLen THEN DraftTokens ELSE 0
        BY DEF VerifyBatch
    <2>3. i < n => short[i] \in Nat
        BY <1>0
    <2> QED
        BY <2>1, <2>2, <2>3
  <1>5. ASSUME NEW p \in 0 .. rows * DraftTokens - 1 PROVE fb.tokens[p] \in Cell
    <2> DEFINE i == p \div DraftTokens
    <2> DEFINE o == p % DraftTokens
    <2>1. fb.tokens[p] = IF ~(p < n * DraftTokens) THEN Eos
            ELSE IF o < good[i] THEN text[reqs[i]][done[reqs[i]] + o + 1] ELSE Junk
        BY <1>5 DEF VerifyBatch
    <2>2. CASE p < n * DraftTokens
      <3>1. p \in 0 .. n * DraftTokens - 1
          BY <1>5, <2>2, <1>0
      <3>2. i \in 0 .. n - 1 /\ o \in 0 .. DraftTokens - 1
          BY <3>1, <1>0, RowOfPosition
      <3> HIDE DEF i, o
      <3>3. reqs[i] \in Reqs /\ done[reqs[i]] + good[i] <= MaxLen /\ good[i] \in Nat
          BY <3>2, LiveFinite
      <3>4. done[reqs[i]] \in Nat
          BY <3>3 DEF TypeOK
      <3>5. o < good[i] => done[reqs[i]] + o + 1 \in 1 .. MaxLen
        <4>1. o \in Nat /\ MaxLen \in Nat
            BY <3>2
        <4> QED
            BY ONLY <3>3, <3>4, <4>1, WithinDraft
      <3> QED
          BY <2>1, <2>2, <3>3, <3>5, TextTyped DEF Cell
    <2>3. CASE ~(p < n * DraftTokens)
        BY <2>1, <2>3 DEF Cell
    <2> QED
        BY <2>2, <2>3
  <1> HIDE DEF rows
  <1>6. Rows(fb) \subseteq 0 .. rows - 1
    <2>1. SequenceCount(fb) = ProcessedTokens(fb) \div DraftTokens
        BY <1>1 DEF SequenceCount
    <2>2. (n * DraftTokens) \div DraftTokens = n /\ (rows * DraftTokens) \div DraftTokens = rows
        BY <1>0, WholeRows
    <2>3. SequenceCount(fb) \in {n, rows}
        BY <1>3, <2>1, <2>2
    <2> QED
        BY <2>3, <1>0 DEF Rows
  <1>7. Positions(fb) \subseteq 0 .. rows * DraftTokens - 1
    <2>1. n * DraftTokens <= rows * DraftTokens
        BY <1>0, RowsBefore
    <2>2. 0 .. n * DraftTokens - 1 \subseteq 0 .. rows * DraftTokens - 1
        BY ONLY <1>0, <2>1
    <2> QED
        BY <1>3, <2>2 DEF Positions
  <1>8. /\ \A i \in 0 .. rows - 1 : PadTo(reqs, n, rows)[i] \in Reqs
        /\ \A i \in 0 .. rows - 1 : i < n => PadTo(reqs, n, rows)[i] = reqs[i]
                                          /\ reqs[i] \in Live /\ reqs[i] \in Reqs
      BY <1>0, PadToTyped
  <1>9. \A i \in Rows(fb) : OwnsState(fb, i) => i < n
    <2> SUFFICES ASSUME NEW i \in 0 .. rows - 1, OwnsState(fb, i) PROVE i < n
        BY <1>6
    <2>1. PICK o \in 0 .. DraftTokens - 1 : fb.loc[i * DraftTokens + o]
        BY <1>1 DEF OwnsState, Columns
    <2>2. i \in Nat /\ i < rows /\ o \in Nat /\ i * DraftTokens \in Nat
        BY <1>0
    <2>3. i * DraftTokens + o < rows * DraftTokens
        BY <1>0, <2>2, RowBefore
    <2>4. i * DraftTokens + o \in 0 .. rows * DraftTokens - 1
        BY ONLY <1>0, <2>2, <2>3
    <2>5. i * DraftTokens + o < n * DraftTokens
        BY <2>1, <2>4, <1>2
    <2> QED
        BY <2>2, <2>5, <1>0, RowBefore
  <1>10. RowsOK(fb)
      BY <1>0, <1>1, <1>4, <1>5, <1>6, <1>7, <1>8, <1>9 DEF RowsOK
  <1>11. \A i \in RealRows(fb) : i \in 0 .. n - 1 /\ fb.reqs[i] = reqs[i] /\ reqs[i] \in Live
      BY <1>0, <1>1, <1>6, <1>8 DEF RealRows
  <1>12. DraftsOK(fb, done)
      BY <1>1, <1>11 DEF DraftsOK, Columns
  <1>13. TracksOK(fb, trackOf, done)
      BY <1>1 DEF TracksOK
  <1>14. RealDistinct(fb)
      BY <1>11 DEF RealDistinct
  <1>15. \A i \in RealRows(fb) : fb.reqs[i] \in Live
      BY <1>11
  <1> QED
      BY <1>10, <1>12, <1>13, <1>14, <1>15 DEF LayoutOK

-----------------------------------------------------------------------------
(* The states a forward computes.                                          *)

LEMMA NgramAtTyped ==
  ASSUME BatchInv, pc # "idle", NEW i \in Rows(batch.fb), NEW n \in Nat
  PROVE  NgramAt(batch, i, n) \in Context
  <1>1. batch.history[i] \in Context /\ RowsOK(batch.fb)
      BY DEF BatchInv
  <1>2. \A o : NgramCell(batch.fb, i, o) \in Cell
    <2> SUFFICES ASSUME NEW o PROVE NgramCell(batch.fb, i, o) \in Cell
        OBVIOUS
    <2>1. CASE \E p \in ScatteredTo(batch.fb, i, o) : ValidToken(batch.fb, p)
      <3> DEFINE q == CHOOSE p \in ScatteredTo(batch.fb, i, o) : ValidToken(batch.fb, p)
      <3>1. q \in ScatteredTo(batch.fb, i, o)
          BY <2>1
      <3>2. q \in Positions(batch.fb)
          BY <3>1 DEF ScatteredTo
      <3> HIDE DEF q
      <3>3. batch.fb.tokens[q] \in Cell
          BY <3>2, <1>1 DEF RowsOK
      <3>4. NgramCell(batch.fb, i, o) = batch.fb.tokens[q]
          BY <2>1 DEF NgramCell, q
      <3> QED
          BY <3>3, <3>4
    <2>2. CASE ~ \E p \in ScatteredTo(batch.fb, i, o) : ValidToken(batch.fb, p)
        BY <2>2 DEF NgramCell, Cell
    <2> QED
        BY <2>1, <2>2
  <1>3. ASSUME NEW k \in 0 .. ContextLen - 1
        PROVE  (IF n + k < ContextLen THEN batch.history[i][n + k]
                ELSE NgramCell(batch.fb, i, n + k - ContextLen)) \in Cell \union {Stale}
    <2>1. CASE n + k < ContextLen
      <3>1. n + k \in 0 .. ContextLen - 1
          BY <1>3, <2>1, HistoryAssumption
      <3> QED
          BY <3>1, <2>1, <1>1 DEF Context
    <2>2. CASE ~ (n + k < ContextLen)
        BY <2>2, <1>2
    <2> QED
        BY <2>1, <2>2
  <1> QED
      BY <1>3 DEF NgramAt, Context

LEMMA ConvAtTyped ==
  ASSUME TypeOK, BatchInv, pc # "idle", NEW i \in Rows(batch.fb), NEW n \in Nat
  PROVE  ConvAt(batch, i, n) \in ConvState
  <1>1. batch.slot[i] \in Slots /\ RowsOK(batch.fb)
    <2>1. batch.slot[i] = StateIndex(batch.fb, slotOf, i) /\ RowsOK(batch.fb)
        BY DEF BatchInv
    <2>2. batch.fb.reqs[i] \in Reqs
        BY <2>1 DEF RowsOK
    <2> QED
        BY <2>1, <2>2, LayoutAssumption DEF StateIndex, TypeOK
  <1>2. \A o : ConvCell(batch.fb, i, o, Zero) \in Cell \union {Zero}
    <2> SUFFICES ASSUME NEW o PROVE ConvCell(batch.fb, i, o, Zero) \in Cell \union {Zero}
        OBVIOUS
    <2>1. CASE ScatteredTo(batch.fb, i, o) # {}
      <3> DEFINE q == CHOOSE p \in ScatteredTo(batch.fb, i, o) : TRUE
      <3>1. q \in Positions(batch.fb)
          BY <2>1 DEF ScatteredTo
      <3> HIDE DEF q
      <3>2. batch.fb.tokens[q] \in Cell
          BY <3>1, <1>1 DEF RowsOK
      <3>3. ConvCell(batch.fb, i, o, Zero) = batch.fb.tokens[q]
          BY <2>1 DEF ConvCell, q
      <3> QED
          BY <3>2, <3>3
    <2>2. CASE ScatteredTo(batch.fb, i, o) = {}
        BY <2>2 DEF ConvCell
    <2> QED
        BY <2>1, <2>2
  <1>3. ASSUME NEW k \in 0 .. ConvLen - 1
        PROVE  (IF n + k < ConvLen THEN conv[batch.slot[i]][n + k]
                ELSE ConvCell(batch.fb, i, n + k - ConvLen, Zero))
                 \in Cell \union {Stale, Zero}
    <2>1. CASE n + k < ConvLen
      <3>1. n + k \in 0 .. ConvLen - 1
          BY <1>3, <2>1, HistoryAssumption
      <3>2. conv[batch.slot[i]] \in ConvState
          BY <1>1 DEF TypeOK
      <3> QED
          BY <3>1, <3>2, <2>1 DEF ConvState
    <2>2. CASE ~ (n + k < ConvLen)
        BY <2>2, <1>2
    <2> QED
        BY <2>1, <2>2
  <1> QED
      BY <1>3 DEF ConvAt, ConvState

\* The rows whose state or snapshot is written name slots of their own.
LEMMA RowsWriteOwnSlots ==
  ASSUME TypeOK, BatchInv, pc # "idle"
  PROVE  /\ \A i \in Rows(batch.fb) : Length(batch.fb, i) \in Nat
         /\ \A i \in Rows(batch.fb) :
              batch.slot[i] # Reserved => batch.slot[i] \in OwnSlots(batch.fb)
         /\ ~IsVerify(batch.fb) =>
              \A i \in Rows(batch.fb) :
                /\ TrackOffset(batch.fb, i) \in Nat
                /\ TrackDestination(batch.fb, i) # Reserved =>
                     TrackDestination(batch.fb, i) \in OwnSlots(batch.fb)
  <1>1. RowsOK(batch.fb) /\ TracksOK(batch.fb, trackOf, done)
      BY DEF BatchInv
  <1>2. \A i \in Rows(batch.fb) : batch.slot[i] = StateIndex(batch.fb, slotOf, i)
      BY DEF BatchInv
  <1>3. \A i \in Rows(batch.fb) : i < batch.fb.real => i \in RealRows(batch.fb)
      BY DEF RealRows
  <1>4. ASSUME NEW i \in Rows(batch.fb), batch.slot[i] # Reserved
        PROVE  batch.slot[i] \in OwnSlots(batch.fb)
    <2>1. i \in RealRows(batch.fb) /\ batch.slot[i] = slotOf[batch.fb.reqs[i]]
        BY <1>1, <1>2, <1>3, <1>4 DEF RowsOK, StateIndex
    <2> QED
        BY <2>1 DEF OwnSlots
  <1>5. ASSUME ~IsVerify(batch.fb), NEW i \in Rows(batch.fb),
               TrackDestination(batch.fb, i) # Reserved
        PROVE  TrackDestination(batch.fb, i) \in OwnSlots(batch.fb)
    <2>1. i \in RealRows(batch.fb)
          /\ TrackDestination(batch.fb, i) = trackOf[batch.fb.reqs[i]]
        BY <1>1, <1>3, <1>5 DEF TracksOK, TrackDestination
    <2> QED
        BY <2>1 DEF OwnSlots
  <1> QED
      BY <1>1, <1>4, <1>5 DEF RowsOK, TracksOK

\* Advancing the history keeps its type and every slot that is not the batch's.
LEMMA AdvanceNgram ==
  ASSUME TypeOK, BatchInv, pc # "idle", ~IsVerify(batch.fb),
         NEW r \in Advance(ngram, batch, NgramAt)
  PROVE  r \in [Slots -> Context]
         /\ \A s \in Slots \ OwnSlots(batch.fb) : r[s] = ngram[s]
  <1> DEFINE rows == Rows(batch.fb)
  <1> DEFINE trackRows == TrackRows(batch.fb)
  <1> DEFINE next == [i \in rows |-> NgramAt(batch, i, Length(batch.fb, i))]
  <1> DEFINE track == [i \in trackRows |-> NgramAt(batch, i, TrackOffset(batch.fb, i))]
  <1> DEFINE trackSlot == [i \in trackRows |-> TrackDestination(batch.fb, i)]
  <1>1. r \in TwoPuts(ngram, Kept(rows, batch.slot), batch.slot, next,
                    Kept(trackRows, trackSlot), trackSlot, track)
      BY Zenon DEF Advance, TwoPuts
  <1>2. trackRows \subseteq rows
      BY DEF TrackRows
  <1>3. Values(Kept(rows, batch.slot), next, Context)
      BY NgramAtTyped, RowsWriteOwnSlots DEF Values, Kept
  <1>4. Values(Kept(trackRows, trackSlot), track, Context)
      BY <1>2, NgramAtTyped, RowsWriteOwnSlots DEF Values, Kept
  <1>5. ngram \in [Slots -> Context]
      BY DEF TypeOK
  <1>6. ASSUME NEW s \in Slots \ OwnSlots(batch.fb)
        PROVE  /\ \A i \in Kept(rows, batch.slot) : batch.slot[i] # s
               /\ \A i \in Kept(trackRows, trackSlot) : trackSlot[i] # s
      BY <1>2, <1>6, RowsWriteOwnSlots DEF Kept
  <1> HIDE DEF rows, trackRows, next, track, trackSlot
  <1>7. r \in [Slots -> Context]
        /\ SameBeside(Slots, ngram, Kept(rows, batch.slot), batch.slot,
                      Kept(trackRows, trackSlot), trackSlot, r)
      BY <1>1, <1>3, <1>4, <1>5, TwoPutsKeep
  <1> QED
      BY <1>6, <1>7 DEF SameBeside

\* So does advancing the short-convolution state.
LEMMA AdvanceConv ==
  ASSUME TypeOK, BatchInv, pc # "idle", ~IsVerify(batch.fb),
         NEW r \in Advance(conv, batch, ConvAt)
  PROVE  r \in [Slots -> ConvState]
         /\ \A s \in Slots \ OwnSlots(batch.fb) : r[s] = conv[s]
  <1> DEFINE rows == Rows(batch.fb)
  <1> DEFINE trackRows == TrackRows(batch.fb)
  <1> DEFINE next == [i \in rows |-> ConvAt(batch, i, Length(batch.fb, i))]
  <1> DEFINE track == [i \in trackRows |-> ConvAt(batch, i, TrackOffset(batch.fb, i))]
  <1> DEFINE trackSlot == [i \in trackRows |-> TrackDestination(batch.fb, i)]
  <1>1. r \in TwoPuts(conv, Kept(rows, batch.slot), batch.slot, next,
                    Kept(trackRows, trackSlot), trackSlot, track)
      BY Zenon DEF Advance, TwoPuts
  <1>2. trackRows \subseteq rows
      BY DEF TrackRows
  <1>3. Values(Kept(rows, batch.slot), next, ConvState)
      BY ConvAtTyped, RowsWriteOwnSlots DEF Values, Kept
  <1>4. Values(Kept(trackRows, trackSlot), track, ConvState)
      BY <1>2, ConvAtTyped, RowsWriteOwnSlots DEF Values, Kept
  <1>5. conv \in [Slots -> ConvState]
      BY DEF TypeOK
  <1>6. ASSUME NEW s \in Slots \ OwnSlots(batch.fb)
        PROVE  /\ \A i \in Kept(rows, batch.slot) : batch.slot[i] # s
               /\ \A i \in Kept(trackRows, trackSlot) : trackSlot[i] # s
      BY <1>2, <1>6, RowsWriteOwnSlots DEF Kept
  <1> HIDE DEF rows, trackRows, next, track, trackSlot
  <1>7. r \in [Slots -> ConvState]
        /\ SameBeside(Slots, conv, Kept(rows, batch.slot), batch.slot,
                      Kept(trackRows, trackSlot), trackSlot, r)
      BY <1>1, <1>3, <1>4, <1>5, TwoPutsKeep
  <1> QED
      BY <1>6, <1>7 DEF SameBeside

LEMMA StepsTyped ==
  ASSUME TypeOK, BatchInv, pc # "idle"
  PROVE  /\ Steps(batch, NgramAt, [k \in 0 .. ContextLen - 1 |-> Eos])
              \in [Rows(batch.fb) -> [Columns(batch.fb) -> Context]]
         /\ Steps(batch, ConvAt, [k \in 0 .. ConvLen - 1 |-> Zero])
              \in [Rows(batch.fb) -> [Columns(batch.fb) -> ConvState]]
  <1>1. [k \in 0 .. ContextLen - 1 |-> Eos] \in Context
      BY DEF Context, Cell
  <1>2. [k \in 0 .. ConvLen - 1 |-> Zero] \in ConvState
      BY DEF ConvState
  <1>3. \A i \in Rows(batch.fb), j \in Columns(batch.fb) :
          j + 1 \in Nat /\ NgramAt(batch, i, j + 1) \in Context
                       /\ ConvAt(batch, i, j + 1) \in ConvState
    <2>1. \A j \in Columns(batch.fb) : j + 1 \in Nat
        BY DEF Columns
    <2> QED
        BY <2>1, NgramAtTyped, ConvAtTyped
  <1>4. \A i \in Rows(batch.fb), j \in Columns(batch.fb) :
          (IF j < Length(batch.fb, i) THEN NgramAt(batch, i, j + 1)
           ELSE [k \in 0 .. ContextLen - 1 |-> Eos]) \in Context
      BY <1>1, <1>3
  <1>5. \A i \in Rows(batch.fb), j \in Columns(batch.fb) :
          (IF j < Length(batch.fb, i) THEN ConvAt(batch, i, j + 1)
           ELSE [k \in 0 .. ConvLen - 1 |-> Zero]) \in ConvState
      BY <1>2, <1>3
  <1> QED
      BY <1>4, <1>5 DEF Steps

-----------------------------------------------------------------------------
(* Every step keeps the invariant.                                         *)

LEMMA InitEstablishes == Init => IInv
  <1> SUFFICES ASSUME Init PROVE IInv
      OBVIOUS
  <1> USE HistoryAssumption, LayoutAssumption
  <1>1. AnyText \in Texts
      BY DEF AnyText
  <1>2. Leftover(ContextLen) \in Context /\ Leftover(ConvLen) \in ConvState
      BY DEF Leftover, Context, ConvState
  <1>3. TypeOK
      BY <1>1, <1>2 DEF Init, TypeOK
  <1> QED
      BY <1>3 DEF Init, IInv, SlotsDistinct, BatchInv, StepsInv

LEMMA PreparePreserves ==
  ASSUME IInv, pc = "idle", NEW fb, LayoutOK(fb), Prepare(fb)
  PROVE  IInv'
  <1>1. /\ pc' = "layers" /\ UNCHANGED <<poolVars, stepVars, reqVars>>
        /\ batch'.fb = fb
        /\ batch'.slot = [i \in Rows(fb) |-> StateIndex(fb, slotOf, i)]
        /\ batch'.history = [i \in Rows(fb) |-> ngram[StateIndex(fb, slotOf, i)]]
      BY DEF Prepare
  <1>2. \A i \in Rows(fb) : StateIndex(fb, slotOf, i) \in Slots
      BY LayoutAssumption DEF LayoutOK, RowsOK, StateIndex, IInv, TypeOK
  <1>3. TypeOK' /\ SlotsDistinct' /\ StepsInv'
      BY <1>1 DEF IInv, TypeOK, SlotsDistinct, StepsInv, poolVars, stepVars, reqVars
  <1>4. \A i \in Rows(fb) : batch'.history[i] \in Context
      BY <1>1, <1>2 DEF IInv, TypeOK
  <1>5. slotOf' = slotOf /\ trackOf' = trackOf /\ done' = done
      BY <1>1 DEF reqVars
  <1>6. BatchInv'
      BY <1>1, <1>4, <1>5 DEF BatchInv, LayoutOK, Live
  <1> QED
      BY <1>3, <1>6 DEF IInv

LEMMA ShortConvPreserves ==
  ASSUME IInv, ShortConv
  PROVE  IInv'
  <1>1. /\ pc = "layers" /\ pc' = "commit"
        /\ UNCHANGED <<ngram, ngramSteps, batch, reqVars>>
      BY DEF ShortConv
  <1>2. conv' \in [Slots -> ConvState]
      BY <1>1, AdvanceConv DEF ShortConv, IInv, TypeOK
  <1>3. TypeOK' /\ SlotsDistinct'
      BY <1>1, <1>2 DEF IInv, TypeOK, SlotsDistinct, reqVars
  <1>4. BatchInv'
      BY <1>1 DEF IInv, BatchInv, Live, reqVars
  <1>5. StepsInv'
    <2>1. ASSUME IsVerify(batch.fb), ProcessedTokens(batch.fb) # 0
          PROVE  convSteps' \in [Rows(batch.fb) -> [Columns(batch.fb) -> ConvState]]
        BY <1>1, <2>1, StepsTyped DEF ShortConv, IInv
    <2> QED
        BY <1>1, <2>1 DEF StepsInv
  <1> QED
      BY <1>3, <1>4, <1>5 DEF IInv

LEMMA CommitPreserves ==
  ASSUME IInv, Commit
  PROVE  IInv'
  <1> DEFINE fb == batch.fb
  <1>1. /\ pc = "commit"
        /\ UNCHANGED <<conv, convSteps, slotOf, trackOf, text, snap>>
      BY DEF Commit
  <1>2. SlotsDistinct'
      BY <1>1 DEF IInv, SlotsDistinct
  <1>3. CASE ProcessedTokens(fb) = 0
      BY <1>1, <1>2, <1>3 DEF Commit, IInv, TypeOK, BatchInv, StepsInv
  <1>4. CASE ProcessedTokens(fb) # 0 /\ IsVerify(fb)
    <2>1. /\ pc' = "verified" /\ UNCHANGED <<ngram, batch, done, tracked>>
          /\ ngramSteps' = Steps(batch, NgramAt, [k \in 0 .. ContextLen - 1 |-> Eos])
        BY <1>4 DEF Commit
    <2>2. TypeOK'
        BY <1>1, <2>1 DEF IInv, TypeOK
    <2>3. BatchInv'
        BY <1>1, <2>1 DEF IInv, BatchInv, Live
    <2>4. ngramSteps' \in [Rows(batch.fb) -> [Columns(batch.fb) -> Context]]
        BY <1>1, <2>1, StepsTyped DEF IInv
    <2>5. StepsInv'
        BY <1>1, <1>4, <2>1, <2>4 DEF IInv, StepsInv
    <2> QED
        BY <1>2, <2>2, <2>3, <2>5 DEF IInv
  <1>5. CASE ProcessedTokens(fb) # 0 /\ ~IsVerify(fb)
    <2>1. /\ pc' = "idle" /\ Progress(fb)
          /\ ngram' \in Advance(ngram, batch, NgramAt)
        BY <1>5 DEF Commit
    <2>2. ngram' \in [Slots -> Context]
        BY <1>1, <1>5, <2>1, AdvanceNgram DEF IInv
    <2>3. done' \in [Reqs -> 0 .. MaxLen] /\ tracked' \in [Reqs -> 0 .. MaxLen]
      <3> DEFINE rowOf(r) == {i \in RealRows(fb) : fb.reqs[i] = r}
      <3> DEFINE row(r) == CHOOSE i \in rowOf(r) : TRUE
      <3> DEFINE reach(r) == done[r] + Length(fb, row(r))
      <3>1. done' = [r \in Reqs |-> IF rowOf(r) # {} THEN reach(r) ELSE done[r]]
            /\ tracked' = [r \in Reqs |->
                 IF rowOf(r) # {} /\ Boundary(reach(r)) > done[r]
                 THEN Boundary(reach(r)) ELSE tracked[r]]
          BY <2>1, Zenon DEF Progress
      <3>2. ASSUME NEW r \in Reqs, rowOf(r) # {} PROVE reach(r) \in 0 .. MaxLen
        <4>1. row(r) \in RealRows(fb) /\ fb.reqs[row(r)] = r
            BY <3>2
        <4> HIDE DEF row
        <4>2. row(r) \in Rows(fb) /\ row(r) < fb.real
            BY <4>1 DEF RealRows
        <4>3. done[r] + Length(fb, row(r)) <= MaxLen /\ Length(fb, row(r)) \in Nat
            BY <1>1, <1>5, <4>1, <4>2 DEF IInv, BatchInv, TracksOK, RowsOK
        <4>4. done[r] \in Nat /\ MaxLen \in Nat
            BY <3>2, HistoryAssumption DEF IInv, TypeOK
        <4> QED
            BY <4>3, <4>4
      <3>3. ASSUME NEW r \in Reqs, rowOf(r) # {} PROVE Boundary(reach(r)) \in 0 .. MaxLen
        <4>1. reach(r) \in 0 .. MaxLen
            BY <3>2, <3>3
        <4> HIDE DEF reach
        <4>2. reach(r) \in Nat /\ reach(r) <= MaxLen
            BY <4>1, HistoryAssumption
        <4>3. Boundary(reach(r)) \in Nat /\ Boundary(reach(r)) <= reach(r)
            BY <4>2, RoundsDown
        <4> QED
            BY <4>2, <4>3, HistoryAssumption
      <3>4. done \in [Reqs -> 0 .. MaxLen] /\ tracked \in [Reqs -> 0 .. MaxLen]
          BY DEF IInv, TypeOK
      <3> HIDE DEF rowOf, reach
      <3> QED
          BY <3>1, <3>2, <3>3, <3>4
    <2>4. TypeOK'
        BY <1>1, <2>1, <2>2, <2>3 DEF IInv, TypeOK
    <2> QED
        BY <1>2, <2>1, <2>4 DEF IInv, BatchInv, StepsInv
  <1> QED
      BY <1>3, <1>4, <1>5

LEMMA AcceptPreserves ==
  ASSUME IInv, Accept
  PROVE  IInv'
  <1> DEFINE fb == batch.fb
  <1> DEFINE rowOf(s) == {i \in RealRows(fb) : slotOf[fb.reqs[i]] = s}
  <1> DEFINE row(s) == CHOOSE i \in rowOf(s) : TRUE
  <1>1. PICK n \in [RealRows(fb) -> 1 .. DraftTokens] :
          /\ \A i \in RealRows(fb) : n[i] <= fb.good[i]
          /\ ngram' = [s \in Slots |-> IF rowOf(s) # {}
                THEN ngramSteps[row(s)][n[row(s)] - 1] ELSE ngram[s]]
          /\ conv' = [s \in Slots |-> IF rowOf(s) # {}
                THEN convSteps[row(s)][n[row(s)] - 1] ELSE conv[s]]
          /\ done' = [r \in Reqs |-> IF \E i \in RealRows(fb) : fb.reqs[i] = r
                THEN done[r] + n[row(slotOf[r])] ELSE done[r]]
      BY Zenon DEF Accept
  <1>2. /\ pc = "verified" /\ pc' = "idle"
        /\ UNCHANGED <<slotOf, trackOf, text, tracked, snap>>
      BY DEF Accept
  <1>3. /\ IsVerify(fb)
        /\ convSteps \in [Rows(fb) -> [0 .. DraftTokens - 1 -> ConvState]]
        /\ ngramSteps \in [Rows(fb) -> [0 .. DraftTokens - 1 -> Context]]
      BY <1>2 DEF IInv, StepsInv, BatchInv, DraftsOK
  <1>4. ASSUME NEW s \in Slots, rowOf(s) # {}
        PROVE  /\ row(s) \in RealRows(fb) /\ slotOf[fb.reqs[row(s)]] = s
               /\ row(s) \in Rows(fb) /\ n[row(s)] - 1 \in 0 .. DraftTokens - 1
    <2>1. row(s) \in RealRows(fb) /\ slotOf[fb.reqs[row(s)]] = s
        BY <1>4
    <2> HIDE DEF row
    <2>2. n[row(s)] \in 1 .. DraftTokens
        BY <2>1
    <2> QED
        BY <2>1, <2>2, HistoryAssumption DEF RealRows
  <1>5. ASSUME NEW r \in Reqs, NEW i \in RealRows(fb), fb.reqs[i] = r
        PROVE  done[r] + n[row(slotOf[r])] \in 0 .. MaxLen
    <2> DEFINE j == row(slotOf[r])
    <2>1. r \in Live /\ slotOf[r] \in Slots /\ rowOf(slotOf[r]) # {}
        BY <1>2, <1>5 DEF IInv, BatchInv, TypeOK
    <2>2. j \in RealRows(fb) /\ slotOf[fb.reqs[j]] = slotOf[r]
        BY <2>1, <1>4
    <2> HIDE DEF j, row, rowOf
    <2>3. fb.reqs[j] \in Live
        BY <1>2, <2>2 DEF IInv, BatchInv
    <2>4. fb.reqs[j] = r
        BY <2>1, <2>2, <2>3 DEF IInv, SlotsDistinct, Live
    <2>5. done[r] + fb.good[j] <= MaxLen /\ fb.good[j] \in Nat
        BY <1>2, <1>3, <2>2, <2>4 DEF IInv, BatchInv, DraftsOK
    <2>6. done[r] \in Nat /\ n[j] \in Nat /\ n[j] <= fb.good[j] /\ MaxLen \in Nat
        BY <1>1, <1>5, <2>2, HistoryAssumption DEF IInv, TypeOK
    <2> QED
        BY <2>5, <2>6 DEF j
  <1>6. ngram' \in [Slots -> Context] /\ conv' \in [Slots -> ConvState]
    <2>1. ngram \in [Slots -> Context] /\ conv \in [Slots -> ConvState]
        BY DEF IInv, TypeOK
    <2> HIDE DEF rowOf, row
    <2>2. ASSUME NEW s \in Slots, rowOf(s) # {}
          PROVE  /\ ngramSteps[row(s)][n[row(s)] - 1] \in Context
                 /\ convSteps[row(s)][n[row(s)] - 1] \in ConvState
        BY <1>3, <1>4, <2>2
    <2> QED
        BY <1>1, <2>1, <2>2
  <1>7. done' \in [Reqs -> 0 .. MaxLen]
    <2>1. done \in [Reqs -> 0 .. MaxLen]
        BY DEF IInv, TypeOK
    <2> HIDE DEF rowOf, row
    <2> QED
        BY <1>1, <1>5, <2>1
  <1>8. TypeOK' /\ SlotsDistinct'
      BY <1>2, <1>6, <1>7 DEF IInv, TypeOK, SlotsDistinct
  <1> QED
      BY <1>2, <1>8 DEF IInv, BatchInv, StepsInv

LEMMA StartPreserves ==
  ASSUME IInv, NEW r \in Reqs, NEW t \in Texts, NEW n \in 0 .. MaxLen,
         NEW history \in Context, NEW state \in ConvState,
         Start(r, t, n, history, state)
  PROVE  IInv'
  <1>1. PICK working \in Free, track \in Free :
          /\ working # track
          /\ slotOf' = [slotOf EXCEPT ![r] = working]
          /\ trackOf' = [trackOf EXCEPT ![r] = track]
          /\ ngram' = [ngram EXCEPT ![working] = history]
          /\ conv' = [conv EXCEPT ![working] = state]
      BY DEF Start
  <1>2. /\ pc = "idle" /\ pc' = pc
        /\ text' = [text EXCEPT ![r] = t] /\ done' = [done EXCEPT ![r] = n]
        /\ UNCHANGED <<stepVars, batch, tracked, snap>>
      BY DEF Start
  <1>3. working \in Slots /\ track \in Slots /\ \A q \in Reqs : slotOf[q] # working
      BY DEF Free
  <1>4. TypeOK'
      BY <1>1, <1>2, <1>3 DEF IInv, TypeOK
  <1>5. SlotsDistinct'
      BY <1>1, <1>3 DEF IInv, TypeOK, SlotsDistinct
  <1> QED
      BY <1>2, <1>4, <1>5 DEF IInv, BatchInv, StepsInv

LEMMA ServerPreserves ==
  ASSUME IInv, Server
  PROVE  IInv'
  <1> USE HistoryAssumption, LayoutAssumption
  <1>0. AnyText \in Texts
      BY DEF AnyText
  <1>1. CASE Accept
      BY <1>1, AcceptPreserves
  <1>2. ASSUME NEW r \in Reqs, NEW t \in Texts, Admit(r, t) PROVE IInv'
    <2>1. NgramOf(t, 0) \in Context /\ ConvOf(t, 0) \in ConvState
      <3>1. \A k \in 0 .. ContextLen - 1 : ~ (0 - ContextLen + k >= 0)
          OBVIOUS
      <3>2. \A k \in 0 .. ConvLen - 1 : ~ (0 - ConvLen + k >= 0)
          OBVIOUS
      <3>3. NgramOf(t, 0) = [k \in 0 .. ContextLen - 1 |-> Eos]
          BY <3>1 DEF NgramOf, Window
      <3>4. ConvOf(t, 0) = [k \in 0 .. ConvLen - 1 |-> Zero]
          BY <3>2 DEF ConvOf, Window
      <3> QED
          BY <3>3, <3>4 DEF Context, ConvState, Cell
    <2>2. 0 \in 0 .. MaxLen
        OBVIOUS
    <2> QED
        BY <1>2, <2>1, <2>2, StartPreserves DEF Admit
  <1>3. ASSUME NEW r \in Reqs, NEW t \in Texts, NEW s \in Cached, AdmitCached(r, t, s)
        PROVE  IInv'
    <2>1. s \in Slots
        BY DEF Cached
    <2>2. ngram[s] \in Context /\ conv[s] \in ConvState /\ snap[s][2] \in 0 .. MaxLen
        BY <2>1 DEF IInv, TypeOK
    <2> QED
        BY <1>3, <2>2, StartPreserves DEF AdmitCached
  <1>4. ASSUME NEW r \in Reqs, Cache(r) PROVE IInv'
    <2>1. PICK s \in Free : trackOf' = [trackOf EXCEPT ![r] = s]
        BY <1>4 DEF Cache
    <2>2. s \in Slots
        BY DEF Free
    <2>3. TypeOK'
      <3>1. snap' = [snap EXCEPT ![trackOf[r]] = <<text[r], tracked[r]>>]
            /\ tracked' = [tracked EXCEPT ![r] = 0] /\ 0 \in 0 .. MaxLen
            /\ UNCHANGED <<pc, ngram, conv, slotOf, text, done>>
          BY <1>4 DEF Cache, poolVars
      <3>2. <<text[r], tracked[r]>> \in Texts \X (0 .. MaxLen)
          BY DEF IInv, TypeOK
      <3>3. snap' \in [Slots -> Texts \X (0 .. MaxLen)]
          BY <3>1, <3>2 DEF IInv, TypeOK
      <3> QED
          BY <2>1, <2>2, <3>1, <3>3 DEF IInv, TypeOK
    <2> QED
        BY <1>4, <2>3 DEF Cache, IInv, SlotsDistinct, BatchInv, StepsInv
  <1>5. Leftover(ContextLen) \in Context /\ Leftover(ConvLen) \in ConvState
      BY DEF Leftover, Context, ConvState
  <1>6. ASSUME NEW slots, Abandon(slots)
        PROVE  ngram' \in [Slots -> Context] /\ conv' \in [Slots -> ConvState]
      BY <1>5, <1>6 DEF Abandon, IInv, TypeOK
  <1>7. ASSUME NEW r \in Reqs, Finish(r) PROVE IInv'
    <2>1. ngram' \in [Slots -> Context] /\ conv' \in [Slots -> ConvState]
        BY <1>6, <1>7 DEF Finish
    <2>2. TypeOK'
        BY <1>0, <1>7, <2>1 DEF Finish, IInv, TypeOK
    <2> QED
        BY <1>7, <2>2 DEF Finish, IInv, TypeOK, SlotsDistinct, BatchInv, StepsInv
  <1>8. ASSUME NEW s \in Slots, Evict(s) PROVE IInv'
    <2>1. ngram' \in [Slots -> Context] /\ conv' \in [Slots -> ConvState]
        BY <1>6, <1>8 DEF Evict
    <2>2. TypeOK'
      <3>1. /\ snap' = [snap EXCEPT ![s] = <<AnyText, 0>>]
            /\ UNCHANGED <<pc, slotOf, trackOf, text, done, tracked>>
          BY <1>8 DEF Evict
      <3>2. <<AnyText, 0>> \in Texts \X (0 .. MaxLen)
          BY <1>0
      <3>3. snap' \in [Slots -> Texts \X (0 .. MaxLen)]
          BY <3>1, <3>2 DEF IInv, TypeOK
      <3> QED
          BY <2>1, <3>1, <3>3 DEF IInv, TypeOK
    <2> QED
        BY <1>8, <2>2 DEF Evict, IInv, SlotsDistinct, BatchInv, StepsInv
  <1> QED
      BY <1>1, <1>2, <1>3, <1>4, <1>7, <1>8 DEF Server

LEMMA ForwardPreserves ==
  ASSUME IInv, Forward
  PROVE  IInv'
  <1>0. TypeOK /\ Cardinality(Live) \in Nat
      BY LiveFinite DEF IInv
  <1>1. CASE pc = "idle" /\ PrepareExtend
    <2>1. PICK n \in 1 .. Cardinality(Live), padding \in 0 .. MaxPadding :
            \E reqs \in [0 .. n - 1 -> Live], lens \in [0 .. n - 1 -> 0 .. MaxChunk] :
            \E start \in [0 .. n -> 0 .. n * MaxChunk] :
            \E cpuLens, counted \in BOOLEAN :
              /\ padding = 0 => counted
              /\ IsCumulativeSum(start, lens, n)
              /\ Distinct(reqs, n)
              /\ \A i \in 0 .. n - 1 : done[reqs[i]] + lens[i] <= MaxLen
              /\ Prepare(ExtendBatch(n, padding, reqs, lens, start, cpuLens, counted))
        BY <1>1 DEF PrepareExtend
    <2>2. PICK reqs \in [0 .. n - 1 -> Live], lens \in [0 .. n - 1 -> 0 .. MaxChunk],
               start \in [0 .. n -> 0 .. n * MaxChunk],
               cpuLens \in BOOLEAN, counted \in BOOLEAN :
            /\ IsCumulativeSum(start, lens, n)
            /\ Distinct(reqs, n)
            /\ \A i \in 0 .. n - 1 : done[reqs[i]] + lens[i] <= MaxLen
            /\ Prepare(ExtendBatch(n, padding, reqs, lens, start, cpuLens, counted))
        BY <2>1
    <2>3. n \in Nat \ {0} /\ start \in [0 .. n -> Nat]
        BY <1>0
    <2>4. LayoutOK(ExtendBatch(n, padding, reqs, lens, start, cpuLens, counted))
        BY <1>0, <2>2, <2>3, ExtendLayout DEF Distinct
    <2> QED
        BY <1>1, <2>2, <2>4, PreparePreserves
  <1>2. CASE pc = "idle" /\ PrepareDecode
    <2>1. PICK n \in 1 .. Cardinality(Live), padding \in 0 .. MaxPadding :
            \E reqs \in [0 .. n - 1 -> Live] :
            \E fused, counted \in BOOLEAN :
              /\ Distinct(reqs, n)
              /\ \A i \in 0 .. n - 1 : done[reqs[i]] + 1 <= MaxLen
              /\ Prepare(DecodeBatch(n, padding, reqs, fused, counted))
        BY <1>2 DEF PrepareDecode
    <2>2. PICK reqs \in [0 .. n - 1 -> Live], fused \in BOOLEAN, counted \in BOOLEAN :
            /\ Distinct(reqs, n)
            /\ \A i \in 0 .. n - 1 : done[reqs[i]] + 1 <= MaxLen
            /\ Prepare(DecodeBatch(n, padding, reqs, fused, counted))
        BY <2>1
    <2>3. n \in Nat \ {0}
        BY <1>0
    <2>4. LayoutOK(DecodeBatch(n, padding, reqs, fused, counted))
        BY <1>0, <2>2, <2>3, DecodeLayout DEF Distinct
    <2> QED
        BY <1>2, <2>2, <2>4, PreparePreserves
  <1>3. CASE pc = "idle" /\ PrepareVerify
    <2>1. PICK n \in 1 .. Cardinality(Live), padding \in 0 .. MaxPadding :
            \E reqs \in [0 .. n - 1 -> Live] :
            \E good, short \in [0 .. n - 1 -> 1 .. DraftTokens] :
            \E rewritten, gpuLens, counted, padLen \in BOOLEAN :
              /\ padding = 0 => counted
              /\ counted \/ rewritten \/ ~gpuLens => padLen
              /\ rewritten => gpuLens
              /\ Distinct(reqs, n)
              /\ \A i \in 0 .. n - 1 :
                   /\ done[reqs[i]] + good[i] <= MaxLen
                   /\ good[i] <= short[i]
                   /\ (gpuLens /\ ~rewritten) \/ short[i] = DraftTokens
              /\ Prepare(VerifyBatch(n, padding, reqs, good, short, rewritten, gpuLens,
                                     counted, padLen))
        BY <1>3 DEF PrepareVerify
    <2>a. PICK reqs \in [0 .. n - 1 -> Live], good \in [0 .. n - 1 -> 1 .. DraftTokens],
               short \in [0 .. n - 1 -> 1 .. DraftTokens] :
            \E rewritten, gpuLens, counted, padLen \in BOOLEAN :
              /\ padding = 0 => counted
              /\ counted \/ rewritten \/ ~gpuLens => padLen
              /\ rewritten => gpuLens
              /\ Distinct(reqs, n)
              /\ \A i \in 0 .. n - 1 :
                   /\ done[reqs[i]] + good[i] <= MaxLen
                   /\ good[i] <= short[i]
                   /\ (gpuLens /\ ~rewritten) \/ short[i] = DraftTokens
              /\ Prepare(VerifyBatch(n, padding, reqs, good, short, rewritten, gpuLens,
                                     counted, padLen))
        BY <2>1
    <2>2. PICK rewritten \in BOOLEAN, gpuLens \in BOOLEAN, counted \in BOOLEAN,
               padLen \in BOOLEAN :
            /\ Distinct(reqs, n)
            /\ \A i \in 0 .. n - 1 : done[reqs[i]] + good[i] <= MaxLen
            /\ Prepare(VerifyBatch(n, padding, reqs, good, short, rewritten, gpuLens,
                                   counted, padLen))
        BY <2>a
    <2>3. n \in Nat \ {0}
        BY <1>0
    <2>4. LayoutOK(VerifyBatch(n, padding, reqs, good, short, rewritten, gpuLens,
                               counted, padLen))
      <3>1. \A i, j \in 0 .. n - 1 : reqs[i] = reqs[j] => i = j
          BY <2>2 DEF Distinct
      <3>2. \A i \in 0 .. n - 1 : done[reqs[i]] + good[i] <= MaxLen
          BY <2>2
      <3>3. TypeOK
          BY <1>0
      <3> HIDE DEF TypeOK, VerifyBatch, LayoutOK
      <3> QED
          BY ONLY <2>3, <3>1, <3>2, <3>3, VerifyLayout
    <2> QED
        BY <1>3, <2>2, <2>4, PreparePreserves
  <1> QED
      BY <1>1, <1>2, <1>3, ShortConvPreserves, CommitPreserves DEF Forward

LEMMA StepPreserves == IInv /\ [Next]_vars => IInv'
  <1> SUFFICES ASSUME IInv, [Next]_vars PROVE IInv'
      OBVIOUS
  <1>1. CASE UNCHANGED vars
      BY <1>1 DEF vars, poolVars, stepVars, reqVars, IInv, TypeOK, SlotsDistinct, BatchInv,
         StepsInv, Live
  <1> QED
      BY <1>1, ForwardPreserves, ServerPreserves DEF Next

LEMMA Inductive == Spec => []IInv
  BY InitEstablishes, StepPreserves, PTL DEF Spec

-----------------------------------------------------------------------------
\* The state pools, the requests' slots and their progress keep their types:
\* no forward gathers a cell outside its rows or runs past a request's text.
THEOREM TypeCorrect == Spec => []TypeOK
  <1>1. IInv => TypeOK
      BY DEF IInv
  <1> QED
      BY <1>1, Inductive, PTL

\* A forward writes only the slots of the requests it advances, whatever its
\* padding rows name.
THEOREM PaddingIsHarmless == Spec => ForwardTouchesOnlyItsSlots
  <1>1. IInv /\ [Next]_vars =>
          [(pc = "layers" \/ pc = "commit") =>
             \A s \in Slots \ OwnSlots(batch.fb) :
               ngram'[s] = ngram[s] /\ conv'[s] = conv[s]]_vars
    <2> SUFFICES ASSUME IInv, Next, pc \in {"layers", "commit"},
                        NEW s \in Slots \ OwnSlots(batch.fb)
                 PROVE  ngram'[s] = ngram[s] /\ conv'[s] = conv[s]
        BY Zenon
    <2>1. TypeOK /\ BatchInv /\ pc # "idle"
        BY DEF IInv
    <2>2. CASE ShortConv
        BY <2>1, <2>2, AdvanceConv DEF ShortConv
    <2>3. CASE Commit
        BY <2>1, <2>3, AdvanceNgram DEF Commit
    <2>4. ShortConv \/ Commit
        BY DEF Next, Forward, Server, Accept, Admit, AdmitCached, Start, Cache, Finish, Evict
    <2> QED
        BY <2>2, <2>3, <2>4
  <1> QED
      BY <1>1, Inductive, PTL DEF Spec, ForwardTouchesOnlyItsSlots

-----------------------------------------------------------------------------
(* The invariant of what the states mean.                                  *)

\* A working slot, a track slot and a cached slot belong to one owner each.
OwnersDistinct ==
    /\ \A r \in Reqs : r \in Live <=> trackOf[r] # Reserved
    /\ \A q, r \in Live : slotOf[q] # trackOf[r] /\ (trackOf[q] = trackOf[r] => q = r)
    /\ \A s \in Cached : s # Reserved /\ \A r \in Live : s # slotOf[r] /\ s # trackOf[r]
    /\ \A r \in Reqs : tracked[r] # 0 => r \in Live

\* The tokens of a row that are known to be its request's text.
Known(fb, i) == IF IsVerify(fb) THEN fb.good[i] ELSE Length(fb, i)

\* What a real row holds: it owns state unless it is empty, its cells hold the
\* next tokens of its request, and it tracks the boundary it crosses.
RowMeans(fb, i, t, at) ==
    /\ Length(fb, i) > 0 => OwnsState(fb, i)
    /\ Known(fb, i) \in 0 .. Length(fb, i)
    /\ IsVerify(fb) => 0 .. Known(fb, i) - 1 \subseteq Columns(fb)
    /\ \A o \in 0 .. Known(fb, i) - 1 :
          NgramCell(fb, i, o) = t[at + o + 1] /\ ConvCell(fb, i, o, Zero) = t[at + o + 1]
    /\ ~IsVerify(fb) =>
          /\ fb.mask[i] <=> Boundary(at + Length(fb, i)) > at
          /\ fb.mask[i] => TrackOffset(fb, i) = Boundary(at + Length(fb, i)) - at

BatchMeans(fb, t, at) ==
    /\ RealDistinct(fb)
    /\ ~IsVerify(fb) => fb.tracking
    /\ \A i \in RealRows(fb) : RowMeans(fb, i, t[fb.reqs[i]], at[fb.reqs[i]])

\* The forward in flight and the history it read.
FlightInv ==
    pc # "idle" =>
        /\ BatchMeans(batch.fb, text, done)
        /\ \A i \in RealRows(batch.fb) : Length(batch.fb, i) > 0 =>
              batch.history[i] = NgramOf(text[batch.fb.reqs[i]], done[batch.fb.reqs[i]])

\* The convolution state is ahead of the history from the layer to the commit.
ConvAhead == pc = "commit" /\ ~IsVerify(batch.fb) /\ ProcessedTokens(batch.fb) # 0

InFlight(r, i) == batch.fb.reqs[i] = r

NgramInv ==
    \A r \in Live :
        /\ ngram[slotOf[r]] = NgramOf(text[r], done[r])
        /\ tracked[r] # 0 => ngram[trackOf[r]] = NgramOf(text[r], tracked[r])

ConvInv ==
    ~ConvAhead => \A r \in Live :
        /\ conv[slotOf[r]] = ConvOf(text[r], done[r])
        /\ tracked[r] # 0 => conv[trackOf[r]] = ConvOf(text[r], tracked[r])

\* Ahead, it stands for what the commit will have made of the ghosts.
AheadInv ==
    ConvAhead => \A r \in Live :
        /\ \A i \in RealRows(batch.fb) : InFlight(r, i) =>
              LET reach == done[r] + Length(batch.fb, i)
              IN /\ conv[slotOf[r]] = ConvOf(text[r], reach)
                 /\ Boundary(reach) > done[r] => conv[trackOf[r]] = ConvOf(text[r], Boundary(reach))
                 /\ ~(Boundary(reach) > done[r]) /\ tracked[r] # 0 =>
                       conv[trackOf[r]] = ConvOf(text[r], tracked[r])
        /\ (\A i \in RealRows(batch.fb) : ~InFlight(r, i)) =>
              /\ conv[slotOf[r]] = ConvOf(text[r], done[r])
              /\ tracked[r] # 0 => conv[trackOf[r]] = ConvOf(text[r], tracked[r])

\* The candidate states of a verify forward.
CandidatesInv ==
    \A i \in RealRows(batch.fb) : \A j \in 0 .. Known(batch.fb, i) - 1 :
        LET r == batch.fb.reqs[i] IN
        /\ pc = "commit" /\ IsVerify(batch.fb) /\ ProcessedTokens(batch.fb) # 0 =>
              convSteps[i][j] = ConvOf(text[r], done[r] + j + 1)
        /\ pc = "verified" =>
              /\ convSteps[i][j] = ConvOf(text[r], done[r] + j + 1)
              /\ ngramSteps[i][j] = NgramOf(text[r], done[r] + j + 1)

StateInv ==
    /\ OwnersDistinct /\ FlightInv /\ NgramInv /\ ConvInv /\ AheadInv
    /\ pc # "idle" => CandidatesInv
    /\ SnapshotIsOfItsPrefix

-----------------------------------------------------------------------------
(* Which token a cell holds.                                               *)

\* The facts a proof needs of a function into the naturals.
Naturals(f, S) == \A x \in S : f[x] \in Nat

\* The start of a row grows with the row.
LEMMA StartGrows ==
  ASSUME NEW n \in Nat, NEW start, NEW lens, Naturals(start, 0 .. n), Naturals(lens, 0 .. n - 1),
         IsCumulativeSum(start, lens, n), NEW j \in 0 .. n, NEW k \in 0 .. n, j <= k
  PROVE  start[j] <= start[k]
  <1> SUFFICES ASSUME ~(start[j] <= start[k]) PROVE FALSE
      OBVIOUS
  <1> DEFINE Lower == {m \in 0 .. n : j <= m /\ ~(start[j] <= start[m])}
  <1>1. Lower \subseteq Nat /\ k \in Lower
      OBVIOUS
  <1>2. PICK m \in Lower : \A l \in Lower : m <= l
      BY <1>1, LeastElement
  <1>3. m \in 0 .. n /\ j <= m /\ ~(start[j] <= start[m]) /\ start[j] \in Nat /\ start[m] \in Nat
      BY <1>2 DEF Naturals
  <1>4. m # j
      BY <1>3
  <1>5. m - 1 \in 0 .. n - 1 /\ j <= m - 1 /\ (m - 1) + 1 = m /\ m - 1 \in 0 .. n /\ ~(m <= m - 1)
      BY <1>3, <1>4
  <1>6. start[j] <= start[m - 1]
      BY <1>2, <1>5
  <1>7. start[m] = start[m - 1] + lens[m - 1] /\ start[m - 1] \in Nat /\ lens[m - 1] \in Nat
      BY <1>5 DEF IsCumulativeSum, Naturals
  <1>8. QED
      BY <1>3, <1>6, <1>7

\* A position between the start of a row and the start of the next is of that row.
LEMMA RowOfStart ==
  ASSUME NEW n \in Nat, NEW start, NEW lens, Naturals(start, 0 .. n), Naturals(lens, 0 .. n - 1),
         IsCumulativeSum(start, lens, n),
         NEW i \in 0 .. n - 1, NEW p \in Nat, start[i] <= p, p < start[i + 1]
  PROVE  /\ RowAt(start, n, p) = i
         /\ InsertionPoint(start, n, p) = i + 1
         /\ p < start[n]
  <1>1. \A j, k \in 0 .. n : j <= k => start[j] <= start[k]
      BY StartGrows
  <1>2. \A j \in 0 .. n : start[j] \in Nat
      BY DEF Naturals
  <1>3. i \in 0 .. n /\ i + 1 \in 0 .. n /\ n \in 0 .. n
      OBVIOUS
  <1>4. \A j \in 0 .. n : (j <= i => start[j] <= p) /\ (i + 1 <= j => start[j] > p)
    <2> SUFFICES ASSUME NEW j \in 0 .. n
                 PROVE  (j <= i => start[j] <= p) /\ (i + 1 <= j => start[j] > p)
        OBVIOUS
    <2>1. (j <= i => start[j] <= start[i]) /\ (i + 1 <= j => start[i + 1] <= start[j])
        BY <1>1, <1>3
    <2>2. start[j] \in Nat /\ start[i] \in Nat /\ start[i + 1] \in Nat
        BY <1>2, <1>3
    <2>3. QED
        BY <2>1, <2>2
  <1>5. p < start[n]
      BY <1>3, <1>4, <1>2
  <1>6. \A j \in 0 .. n - 1 : (start[j] <= p /\ p < start[j + 1]) => j = i
    <2> SUFFICES ASSUME NEW j \in 0 .. n - 1, start[j] <= p, p < start[j + 1] PROVE j = i
        OBVIOUS
    <2>1. j \in 0 .. n /\ j + 1 \in 0 .. n
        OBVIOUS
    <2>2. ~(i + 1 <= j) /\ ~(j + 1 <= i)
        BY <2>1, <1>2, <1>4
    <2>3. QED
        BY <2>2
  <1>7. RowAt(start, n, p) = i
      BY <1>6, Zenon DEF RowAt
  <1> DEFINE At(k) == (\A j \in 0 .. k - 1 : start[j] <= p) /\ (\A j \in k .. n : start[j] > p)
  <1>8. At(i + 1) /\ i + 1 \in 0 .. n + 1
      BY <1>4
  <1>9. \A k \in 0 .. n + 1 : At(k) => k = i + 1
    <2> SUFFICES ASSUME NEW k \in 0 .. n + 1, At(k) PROVE k = i + 1
        OBVIOUS
    <2>1. ~(k > i + 1)
      <3>1. k > i + 1 => i + 1 \in 0 .. k - 1
          OBVIOUS
      <3>2. i + 1 \in 0 .. k - 1 => start[i + 1] <= p
          OBVIOUS
      <3>3. QED
          BY <3>1, <3>2, <1>2, <1>3
    <2>2. ~(k <= i)
      <3>1. k <= i => i \in k .. n
          OBVIOUS
      <3>2. i \in k .. n => start[i] > p
          OBVIOUS
      <3>3. QED
          BY <3>1, <3>2, <1>2, <1>3
    <2>3. QED
        BY <2>1, <2>2
  <1>10. InsertionPoint(start, n, p) = CHOOSE k \in 0 .. n + 1 : At(k)
      BY Zenon DEF InsertionPoint
  <1> HIDE DEF At
  <1>11. InsertionPoint(start, n, p) = i + 1
      BY <1>8, <1>9, <1>10
  <1>12. QED
      BY <1>5, <1>7, <1>11

\* A cell inside its row holds the one token that is scattered to it.
LEMMA CellIs ==
  ASSUME NEW fb, NEW i, NEW o \in Int, RowStart(fb, i) \in Int,
         RowStart(fb, i) + o \in Positions(fb), ReqIndex(fb, RowStart(fb, i) + o) = i,
         o < Length(fb, i)
  PROVE  /\ NgramCell(fb, i, o) = fb.tokens[RowStart(fb, i) + o]
         /\ ConvCell(fb, i, o, Zero) = fb.tokens[RowStart(fb, i) + o]
  <1> DEFINE p == RowStart(fb, i) + o
  <1>1. p \in Int /\ p - RowStart(fb, i) = o
      OBVIOUS
  <1>2. p \in Positions(fb) /\ ReqIndex(fb, p) = i
      OBVIOUS
  <1>3. ASSUME NEW q \in ScatteredTo(fb, i, o) PROVE q = p
    <2>1. q \in Int /\ q - RowStart(fb, i) = o
        BY DEF ScatteredTo, Positions, TokenOffset
    <2>2. QED
        BY <2>1
  <1> HIDE DEF p
  <1>4. TokenOffset(fb, p) = o
      BY <1>1, <1>2 DEF TokenOffset
  <1>5. p \in ScatteredTo(fb, i, o) /\ ValidToken(fb, p)
      BY <1>2, <1>4 DEF ScatteredTo, ValidToken
  <1>6. NgramCell(fb, i, o) = fb.tokens[p]
    <2>1. (CHOOSE q \in ScatteredTo(fb, i, o) : ValidToken(fb, q)) = p
        BY <1>3, <1>5
    <2>2. QED
        BY <1>5, <2>1 DEF NgramCell
  <1>7. ConvCell(fb, i, o, Zero) = fb.tokens[p]
    <2>1. (CHOOSE q \in ScatteredTo(fb, i, o) : TRUE) = p
        BY <1>3, <1>5
    <2>2. QED
        BY <1>5, <2>1 DEF ConvCell
  <1>8. QED
      BY <1>6, <1>7 DEF p

\* Rounding down passes a count only by reaching a multiple above it.
LEMMA BoundaryPassed ==
  ASSUME NEW n \in Nat, NEW l \in Nat
  PROVE  /\ Boundary(n + l) \in Nat /\ Boundary(n + l) <= n + l
         /\ l = 0 => ~(Boundary(n + l) > n)
         /\ ((n + 1) % Interval = 0) <=> (Boundary(n + 1) > n)
         /\ Boundary(n + 1) > n => Boundary(n + 1) = n + 1
  <1>1. Boundary(n + l) \in Nat /\ Boundary(n + l) <= n + l
      BY RoundsDown
  <1>2. Boundary(n + 1) \in Nat /\ Boundary(n + 1) <= n + 1
      BY RoundsDown
  <1>3. (n + 1) % Interval = n + 1 - Boundary(n + 1)
    <2>1. Interval \in Nat \ {0} /\ n + 1 \in Nat
        BY HistoryAssumption
    <2>2. \A m \in Nat, d \in Nat \ {0} : m % d = m - (m \div d) * d
        OBVIOUS
    <2>3. QED
        BY <2>1, <2>2 DEF Boundary
  <1>4. QED
      BY <1>1, <1>2, <1>3

\* A position before the padding is a position of the batch.
LEMMA WithinPadded ==
  ASSUME NEW p \in Nat, NEW m \in Nat, NEW d \in Nat, p < m
  PROVE  p \in 0 .. m + d - 1
  OBVIOUS

\* Clamping leaves a row number alone.
LEMMA ClampedRow ==
  ASSUME NEW n \in Nat, NEW i \in 0 .. n - 1
  PROVE  Clamp(i + 1 - 1, 0, n - 1) = i
  BY DEF Clamp

\* A batch whose rows of the given lengths lie end to end.
RaggedRows(fb, n, start, lens) ==
    /\ n \in Nat \ {0}
    /\ Naturals(start, 0 .. n) /\ Naturals(lens, 0 .. n - 1) /\ IsCumulativeSum(start, lens, n)
    /\ ~IsVerify(fb) /\ ~IsDecode(fb) /\ fb.seqs = n /\ fb.start = start
    /\ ProcessedTokens(fb) \in Nat /\ start[n] <= ProcessedTokens(fb)
    /\ \A i \in 0 .. n - 1 : Length(fb, i) = lens[i] /\ RowStart(fb, i) = start[i]

\* A cell of one of its rows holds the token at the row's start plus the offset.
LEMMA RaggedCell ==
  ASSUME NEW fb, NEW n, NEW start, NEW lens, RaggedRows(fb, n, start, lens),
         NEW i \in 0 .. n - 1, NEW o \in 0 .. lens[i] - 1, NEW p \in Nat, p = start[i] + o
  PROVE  /\ start[i] <= p /\ p < start[n] /\ RowAt(start, n, p) = i
         /\ NgramCell(fb, i, o) = fb.tokens[p]
         /\ ConvCell(fb, i, o, Zero) = fb.tokens[p]
  <1>0. /\ n \in Nat \ {0} /\ i \in 0 .. n - 1
        /\ Naturals(start, 0 .. n) /\ Naturals(lens, 0 .. n - 1) /\ IsCumulativeSum(start, lens, n)
        /\ ~IsVerify(fb) /\ ~IsDecode(fb) /\ fb.seqs = n /\ fb.start = start
        /\ ProcessedTokens(fb) \in Nat /\ start[n] <= ProcessedTokens(fb)
        /\ Length(fb, i) = lens[i] /\ RowStart(fb, i) = start[i]
      BY DEF RaggedRows
  <1>a. PICK s \in Nat, l \in Nat : s = start[i] /\ l = lens[i]
      BY ONLY <1>0 DEF Naturals
  <1>1. start[i + 1] = s + l /\ start[i] = s /\ start[n] \in Nat
      BY ONLY <1>0, <1>a DEF IsCumulativeSum, Naturals
  <1>2. p = s + o /\ s <= p /\ p < s + l /\ o \in Int /\ o < l
    <2>1. p = s + o /\ o \in 0 .. l - 1
        BY <1>a
    <2>2. QED
        BY ONLY <2>1
  <1>3. start[i] <= p /\ p < start[i + 1]
      BY ONLY <1>1, <1>2
  <1>4. RowAt(start, n, p) = i /\ InsertionPoint(start, n, p) = i + 1 /\ p < start[n]
      BY ONLY <1>0, <1>3, RowOfStart
  <1>5. p \in Positions(fb)
      BY ONLY <1>0, <1>1, <1>4 DEF Positions
  <1>6. ReqIndex(fb, p) = i
    <2>1. ReqIndex(fb, p) = Clamp(i + 1 - 1, 0, n - 1)
        BY ONLY <1>0, <1>4 DEF ReqIndex
    <2>2. QED
        BY ONLY <1>0, <2>1, ClampedRow
  <1>7. RowStart(fb, i) \in Int /\ RowStart(fb, i) + o = p /\ o < Length(fb, i)
      BY ONLY <1>0, <1>a, <1>1, <1>2
  <1>8. RowStart(fb, i) + o \in Positions(fb) /\ ReqIndex(fb, RowStart(fb, i) + o) = i
      BY ONLY <1>5, <1>6, <1>7
  <1>9. NgramCell(fb, i, o) = fb.tokens[p] /\ ConvCell(fb, i, o, Zero) = fb.tokens[p]
      BY ONLY <1>2, <1>7, <1>8, CellIs
  <1>10. QED
      BY <1>3, <1>4, <1>9

-----------------------------------------------------------------------------
(* What the scheduler's batches mean.                                      *)

\* An extend: each row holds its request's next tokens, padding follows the rows.
LEMMA ExtendMeans ==
  ASSUME TypeOK,
         NEW n \in Nat \ {0}, NEW padding \in 0 .. MaxPadding,
         NEW reqs, reqs \in [0 .. n - 1 -> Live],
         NEW lens, lens \in [0 .. n - 1 -> 0 .. MaxChunk],
         NEW start, start \in [0 .. n -> Nat],
         NEW cpuLens \in BOOLEAN, NEW counted \in BOOLEAN,
         IsCumulativeSum(start, lens, n), Distinct(reqs, n),
         \A i \in 0 .. n - 1 : done[reqs[i]] + lens[i] <= MaxLen,
         NEW fb, fb = ExtendBatch(n, padding, reqs, lens, start, cpuLens, counted)
  PROVE  BatchMeans(fb, text, done)
  <1> USE HistoryAssumption
  <1>1. /\ ~IsVerify(fb) /\ ~IsDecode(fb) /\ fb.tracking /\ fb.draft = DraftTokens
        /\ fb.real = n /\ fb.seqs = n /\ fb.reqs = reqs /\ fb.lens = lens /\ fb.start = start
        /\ RealRows(fb) = 0 .. n - 1
        /\ \A i : Length(fb, i) = lens[i] /\ RowStart(fb, i) = start[i]
      BY DEF ExtendBatch, ForwardMode, IsVerify, IsDecode, Rows, SequenceCount, RealRows, Length,
             RowStart
  <1>2. RealDistinct(fb)
      BY <1>1 DEF RealDistinct, Distinct
  <1>0. /\ n \in Nat \ {0} /\ padding \in Nat /\ n \in Nat
        /\ IsCumulativeSum(start, lens, n)
      OBVIOUS
  <1>3. /\ Naturals(start, 0 .. n) /\ Naturals(lens, 0 .. n - 1)
        /\ \A i \in 0 .. n - 1 : reqs[i] \in Reqs
      BY LiveFinite DEF Naturals
  <1>4. ProcessedTokens(fb) \in Nat /\ start[n] \in Nat /\ start[n] <= ProcessedTokens(fb)
    <2>1. start[n] \in Nat /\ start[n] # NoCount
        BY ONLY <1>0, <1>3 DEF NoCount, Naturals
    <2>2. ProcessedTokens(fb) \in {start[n], start[n] + padding}
        BY <2>1 DEF ProcessedTokens, ExtendBatch
    <2>3. QED
        BY ONLY <1>0, <2>1, <2>2
  <1>r. RaggedRows(fb, n, start, lens)
      BY ONLY <1>0, <1>1, <1>3, <1>4 DEF RaggedRows
  <1>5. ASSUME NEW i \in 0 .. n - 1
        PROVE  RowMeans(fb, i, text[reqs[i]], done[reqs[i]])
    <2>0. i \in 0 .. n - 1 /\ done \in [Reqs -> 0 .. MaxLen]
        BY DEF TypeOK
    <2>1. lens[i] \in Nat /\ done[reqs[i]] \in Nat /\ start[i] \in Nat
        BY ONLY <1>0, <1>3, <2>0, HistoryAssumption DEF Naturals
    <2>2. Length(fb, i) > 0 => OwnsState(fb, i)
        BY ONLY <1>1, <2>1 DEF OwnsState
    <2>3. Known(fb, i) = lens[i]
        BY ONLY <1>1 DEF Known
    <2>4. ASSUME NEW o \in 0 .. lens[i] - 1
          PROVE  /\ NgramCell(fb, i, o) = text[reqs[i]][done[reqs[i]] + o + 1]
                 /\ ConvCell(fb, i, o, Zero) = text[reqs[i]][done[reqs[i]] + o + 1]
      <3>1. PICK p \in Nat : p = start[i] + o
          BY ONLY <2>1, <2>4
      <3>3. /\ start[i] <= p /\ p < start[n] /\ RowAt(start, n, p) = i
            /\ NgramCell(fb, i, o) = fb.tokens[p]
            /\ ConvCell(fb, i, o, Zero) = fb.tokens[p]
          BY ONLY <1>r, <2>0, <3>1, RaggedCell
      <3>4. p \in 0 .. start[n] + padding - 1
          BY ONLY <3>3, <1>0, <1>4, WithinPadded
      <3>5. fb.tokens[p] = text[reqs[i]][done[reqs[i]] + p - start[i] + 1]
          BY <3>3, <3>4 DEF ExtendBatch
      <3>6. done[reqs[i]] + p - start[i] + 1 = done[reqs[i]] + o + 1
        <4> DEFINE c == done[reqs[i]]
        <4> DEFINE r == start[i]
        <4>1. o \in Int /\ r \in Int /\ c \in Int /\ p = r + o
            BY ONLY <2>1, <2>4, <3>1
        <4> HIDE DEF c, r
        <4>2. c + p - r + 1 = c + o + 1
            BY ONLY <4>1
        <4>3. QED
            BY ONLY <4>2 DEF c, r
      <3>7. QED
          BY ONLY <3>3, <3>5, <3>6
    <2>5. /\ fb.mask[i] <=> Boundary(done[reqs[i]] + lens[i]) > done[reqs[i]]
          /\ fb.aligned[i] = Boundary(done[reqs[i]] + lens[i]) - done[reqs[i]]
        BY DEF ExtendBatch
    <2>6. fb.mask[i] => TrackOffset(fb, i) = Boundary(done[reqs[i]] + lens[i]) - done[reqs[i]]
      <3>1. /\ Boundary(done[reqs[i]] + lens[i]) \in Nat
            /\ Boundary(done[reqs[i]] + lens[i]) <= done[reqs[i]] + lens[i]
          BY <2>1, BoundaryPassed
      <3>2. ~IsDecode(fb) /\ Length(fb, i) = lens[i]
          BY <1>1
      <3>3. QED
          BY ONLY <2>1, <2>5, <3>1, <3>2 DEF TrackOffset
    <2>7. Length(fb, i) = lens[i]
        BY <1>1
    <2>8. QED
        BY ONLY <1>1, <2>1, <2>2, <2>3, <2>4, <2>5, <2>6, <2>7 DEF RowMeans
  <1>6. QED
      BY <1>1, <1>2, <1>5 DEF BatchMeans

\* A decode: one token each, and padding rows that name a request they do not own.
LEMMA DecodeMeans ==
  ASSUME TypeOK,
         NEW n \in Nat \ {0}, NEW padding \in 0 .. MaxPadding,
         NEW reqs \in [0 .. n - 1 -> Live],
         NEW fused \in BOOLEAN, NEW counted \in BOOLEAN, Distinct(reqs, n),
         NEW fb, fb = DecodeBatch(n, padding, reqs, fused, counted)
  PROVE  BatchMeans(fb, text, done)
  <1> USE HistoryAssumption
  <1> DEFINE rows == n + padding
  <1>1. rows \in Nat /\ n \in Nat /\ n <= rows /\ n # NoCount /\ padding \in Nat
      BY DEF NoCount
  <1>2. /\ ~IsVerify(fb) /\ IsDecode(fb) /\ fb.tracking /\ fb.real = n
        /\ fb.reqs = PadTo(reqs, n, rows)
        /\ \A i : Length(fb, i) = 1 /\ TrackOffset(fb, i) = 1 /\ RowStart(fb, i) = i
        /\ \A p : ReqIndex(fb, p) = p
      BY DEF DecodeBatch, ForwardMode, IsVerify, IsDecode, Length, TrackOffset, RowStart, ReqIndex
  <1>3. /\ \A i \in 0 .. n - 1 : fb.loc[i] /\ fb.tokens[i] = text[reqs[i]][done[reqs[i]] + 1]
        /\ \A i \in 0 .. n - 1 : fb.mask[i] <=> (done[reqs[i]] + 1) % Interval = 0
    <2>1. \A i \in 0 .. n - 1 : i \in 0 .. rows - 1 /\ i < n
        BY <1>1
    <2>2. QED
        BY <2>1 DEF DecodeBatch
  <1>4. ProcessedTokens(fb) \in {n, rows}
      BY <1>1 DEF ProcessedTokens, DecodeBatch
  <1>5. \A i \in 0 .. n - 1 : i \in 0 .. rows - 1 /\ PadTo(reqs, n, rows)[i] = reqs[i] /\ reqs[i] \in Reqs
    <2>1. \A i \in 0 .. n - 1 : i \in 0 .. rows - 1 /\ i < n
        BY <1>1
    <2>2. QED
        BY <1>1, <2>1, PadToTyped
  <1> HIDE DEF rows
  <1>6. RealRows(fb) \subseteq 0 .. n - 1 /\ 0 .. n - 1 \subseteq Positions(fb)
      BY <1>1, <1>2, <1>4 DEF RealRows, Rows, SequenceCount, Positions
  <1>7. RealDistinct(fb)
      BY <1>2, <1>5, <1>6 DEF RealDistinct, Distinct
  <1>8. ASSUME NEW i \in RealRows(fb)
        PROVE  RowMeans(fb, i, text[fb.reqs[i]], done[fb.reqs[i]])
    <2>1. i \in 0 .. n - 1 /\ i \in Positions(fb) /\ fb.reqs[i] = reqs[i]
        BY <1>2, <1>5, <1>6
    <2>2. done[reqs[i]] \in Nat
        BY <1>5, <2>1 DEF TypeOK
    <2>3. OwnsState(fb, i) /\ Known(fb, i) = 1
        BY <1>2, <1>3, <2>1 DEF OwnsState, Known
    <2>4. NgramCell(fb, i, 0) = fb.tokens[i] /\ ConvCell(fb, i, 0, Zero) = fb.tokens[i]
      <3>1. RowStart(fb, i) = i /\ i \in Int /\ i + 0 = i /\ 0 < Length(fb, i)
          BY <1>2, <2>1
      <3>2. QED
          BY <1>2, <2>1, <3>1, CellIs
    <2>5. fb.tokens[i] = text[reqs[i]][done[reqs[i]] + 0 + 1]
        BY <1>3, <2>1, <2>2
    <2>6. /\ fb.mask[i] <=> Boundary(done[reqs[i]] + 1) > done[reqs[i]]
          /\ fb.mask[i] => Boundary(done[reqs[i]] + 1) - done[reqs[i]] = 1
        BY <1>3, <2>1, <2>2, BoundaryPassed
    <2>7. \A o \in 0 .. 1 - 1 : o = 0
        OBVIOUS
    <2>8. QED
        BY <1>2, <2>1, <2>3, <2>4, <2>5, <2>6, <2>7 DEF RowMeans
  <1>9. QED
      BY <1>2, <1>7, <1>8 DEF BatchMeans

\* Dividing row i's positions by the row width gives row and offset back.
LEMMA RowAndOffset ==
  ASSUME NEW d \in Nat \ {0}, NEW i \in Nat, NEW o \in 0 .. d - 1
  PROVE  (i * d + o) \div d = i /\ (i * d + o) % d = o
  OBVIOUS

\* A verify: the accepted part of each draft is its request's next tokens.
LEMMA VerifyMeans ==
  ASSUME TypeOK,
         NEW n \in Nat \ {0}, NEW padding \in 0 .. MaxPadding,
         NEW reqs, reqs \in [0 .. n - 1 -> Live],
         NEW good, good \in [0 .. n - 1 -> 1 .. DraftTokens],
         NEW short, short \in [0 .. n - 1 -> 1 .. DraftTokens],
         NEW rewritten \in BOOLEAN, NEW gpuLens \in BOOLEAN,
         NEW counted \in BOOLEAN, NEW padLen \in BOOLEAN,
         Distinct(reqs, n),
         \A i \in 0 .. n - 1 : /\ good[i] <= short[i]
                               /\ (gpuLens /\ ~rewritten) \/ short[i] = DraftTokens,
         NEW fb, fb = VerifyBatch(n, padding, reqs, good, short, rewritten, gpuLens,
                                  counted, padLen)
  PROVE  BatchMeans(fb, text, done)
  <1> USE HistoryAssumption
  <1>0. /\ \A i \in 0 .. n - 1 : reqs[i] \in Reqs
        /\ \A i \in 0 .. n - 1 : good[i] \in 1 .. DraftTokens /\ short[i] \in 1 .. DraftTokens
      BY LiveFinite
  <1> DEFINE rows == n + padding
  <1>1. rows \in Nat /\ n \in Nat /\ n <= rows /\ padding \in Nat
        /\ n * DraftTokens \in Nat /\ rows * DraftTokens \in Nat /\ n * DraftTokens # NoCount
        /\ n * DraftTokens <= rows * DraftTokens
    <2>1. rows \in Nat /\ n \in Nat /\ n <= rows /\ padding \in Nat
        BY ONLY HistoryAssumption
    <2>2. n * DraftTokens \in Nat /\ rows * DraftTokens \in Nat
        BY ONLY <2>1, HistoryAssumption
    <2>3. n * DraftTokens <= rows * DraftTokens
        BY <2>1, RowsBefore
    <2>4. QED
        BY <2>1, <2>2, <2>3 DEF NoCount
  <1>2. /\ IsVerify(fb) /\ ~IsDecode(fb) /\ fb.real = n /\ fb.reqs = PadTo(reqs, n, rows)
        /\ fb.draft = DraftTokens /\ fb.good = good /\ RowWidth(fb) = DraftTokens
        /\ fb.gpuLens = gpuLens /\ (fb.current = "verify" <=> ~rewritten)
        /\ \A i : RowStart(fb, i) = i * DraftTokens
        /\ \A p : ReqIndex(fb, p) = p \div DraftTokens
      BY DEF VerifyBatch, ForwardMode, IsVerify, IsDecode, RowWidth, RowStart, ReqIndex
  <1>3. ASSUME NEW i \in 0 .. n - 1
        PROVE  /\ i \in 0 .. rows - 1 /\ fb.reqs[i] = reqs[i] /\ reqs[i] \in Reqs
               /\ Length(fb, i) = short[i]
    <2>1. i \in 0 .. rows - 1 /\ i < n
        BY <1>1
    <2> HIDE DEF rows
    <2>2. fb.reqs[i] = reqs[i] /\ reqs[i] \in Reqs
        BY ONLY <1>0, <1>2, <2>1 DEF PadTo
    <2>3. ~rewritten => fb.lens[i] = short[i]
        BY <2>1 DEF VerifyBatch
    <2>4. Length(fb, i) = short[i]
        BY <1>2, <2>3 DEF Length
    <2>5. QED
        BY <2>1, <2>2, <2>4
  <1>4. ASSUME NEW i \in 0 .. n - 1, NEW o \in 0 .. DraftTokens - 1
        PROVE  LET p == i * DraftTokens + o
               IN /\ p \in 0 .. n * DraftTokens - 1
                  /\ ReqIndex(fb, p) = i
                  /\ fb.loc[p] <=> o < short[i]
                  /\ o < good[i] => fb.tokens[p] = text[reqs[i]][done[reqs[i]] + o + 1]
    <2> DEFINE p == i * DraftTokens + o
    <2>1. i \in Nat /\ i < n /\ o \in Nat /\ i * DraftTokens \in Nat
        OBVIOUS
    <2>2. p < n * DraftTokens
        BY <2>1, <1>1, RowBefore
    <2>3. p \in 0 .. n * DraftTokens - 1 /\ p \in 0 .. rows * DraftTokens - 1
        BY ONLY <2>1, <2>2, <1>1, HistoryAssumption DEF p
    <2>4. p \div DraftTokens = i /\ p % DraftTokens = o
        BY <2>1, RowAndOffset
    <2> HIDE DEF p
    <2>5. fb.loc[p] <=> o < short[i]
        BY <2>2, <2>3, <2>4 DEF VerifyBatch
    <2>6. o < good[i] => fb.tokens[p] = text[reqs[i]][done[reqs[i]] + o + 1]
        BY <2>2, <2>3, <2>4 DEF VerifyBatch
    <2>7. QED
        BY <2>3, <2>4, <2>5, <2>6, <1>2 DEF p
  <1>5. ProcessedTokens(fb) \in {n * DraftTokens, rows * DraftTokens}
      BY <1>1 DEF ProcessedTokens, VerifyBatch
  <1> HIDE DEF rows
  <1>6. 0 .. n * DraftTokens - 1 \subseteq Positions(fb)
      BY ONLY <1>1, <1>5 DEF Positions
  <1>7. RealRows(fb) \subseteq 0 .. n - 1
      BY <1>2, <1>1 DEF RealRows, Rows
  <1>8. RealDistinct(fb)
      BY <1>3, <1>7 DEF RealDistinct, Distinct
  <1>9. ASSUME NEW i \in RealRows(fb)
        PROVE  RowMeans(fb, i, text[fb.reqs[i]], done[fb.reqs[i]])
    <2>1. /\ i \in 0 .. n - 1 /\ fb.reqs[i] = reqs[i] /\ Length(fb, i) = short[i]
          /\ Known(fb, i) = good[i]
        BY <1>2, <1>3, <1>7 DEF Known
    <2>2. /\ short[i] \in 1 .. DraftTokens /\ good[i] \in 1 .. DraftTokens /\ good[i] <= short[i]
          /\ 0 \in 0 .. DraftTokens - 1
        BY <2>1
    <2>3. OwnsState(fb, i)
      <3>1. fb.loc[i * DraftTokens + 0]
          BY <1>4, <2>1, <2>2
      <3>2. QED
          BY <3>1, <1>2, <2>1, <2>2 DEF OwnsState, Columns
    <2>4. ASSUME NEW o \in 0 .. good[i] - 1
          PROVE  /\ NgramCell(fb, i, o) = text[reqs[i]][done[reqs[i]] + o + 1]
                 /\ ConvCell(fb, i, o, Zero) = text[reqs[i]][done[reqs[i]] + o + 1]
      <3>1. o \in 0 .. DraftTokens - 1 /\ o < good[i] /\ o < short[i] /\ o \in Int
        <4>1. \A g, h \in 1 .. DraftTokens : g <= h /\ o \in 0 .. g - 1 =>
                o \in 0 .. DraftTokens - 1 /\ o < g /\ o < h /\ o \in Int
            OBVIOUS
        <4>2. o \in 0 .. good[i] - 1
            OBVIOUS
        <4>3. QED
            BY ONLY <2>2, <4>1, <4>2
      <3>2. RowStart(fb, i) = i * DraftTokens /\ i * DraftTokens \in Int
          BY <1>2, <2>1
      <3>3. /\ i * DraftTokens + o \in Positions(fb)
            /\ ReqIndex(fb, i * DraftTokens + o) = i
            /\ fb.tokens[i * DraftTokens + o] = text[reqs[i]][done[reqs[i]] + o + 1]
          BY <1>4, <1>6, <2>1, <3>1
      <3>4. /\ NgramCell(fb, i, o) = fb.tokens[i * DraftTokens + o]
            /\ ConvCell(fb, i, o, Zero) = fb.tokens[i * DraftTokens + o]
          BY ONLY <2>1, <3>1, <3>2, <3>3, CellIs
      <3>5. QED
          BY <3>3, <3>4
    <2>5. 0 .. good[i] - 1 \subseteq Columns(fb)
        BY ONLY <1>2, <2>2, HistoryAssumption DEF Columns
    <2>6. QED
        BY <1>2, <2>1, <2>2, <2>3, <2>4, <2>5 DEF RowMeans
  <1>10. QED
      BY <1>2, <1>8, <1>9 DEF BatchMeans

-----------------------------------------------------------------------------
(* What the states hold after n more tokens.                               *)

\* The m cells hold the tokens that follow the first c of t.
Continues(cell, t, c, m) == \A o \in 0 .. m - 1 : cell[o] = t[c + o + 1]

\* The window n tokens further on is the old window followed by the new tokens.
LEMMA WindowMoves ==
  ASSUME NEW t, NEW w \in Nat, NEW fill, NEW c \in Nat, NEW m \in Nat, NEW n \in 0 .. m,
         NEW old, old = Window(t, c, w, fill),
         NEW cell, Continues(cell, t, c, m)
  PROVE  Window(t, c + n, w, fill) =
           [k \in 0 .. w - 1 |-> IF n + k < w THEN old[n + k] ELSE cell[n + k - w]]
  <1> SUFFICES ASSUME NEW k \in 0 .. w - 1
               PROVE  Window(t, c + n, w, fill)[k] =
                        IF n + k < w THEN old[n + k] ELSE cell[n + k - w]
      BY DEF Window
  <1>1. Window(t, c + n, w, fill)[k] =
          IF c + n - w + k >= 0 THEN t[c + n - w + k + 1] ELSE fill
      BY DEF Window
  <1>2. CASE n + k < w
    <2>1. n + k \in 0 .. w - 1
        BY <1>2
    <2>2. old[n + k] = IF c - w + (n + k) >= 0 THEN t[c - w + (n + k) + 1] ELSE fill
        BY <2>1 DEF Window
    <2>3. c - w + (n + k) = c + n - w + k
        OBVIOUS
    <2>4. QED
        BY <1>1, <1>2, <2>2, <2>3
  <1>3. CASE ~(n + k < w)
    <2>1. n + k - w \in 0 .. m - 1 /\ c + n - w + k >= 0
        BY <1>3
    <2>a. cell[n + k - w] = t[c + (n + k - w) + 1]
        BY <2>1 DEF Continues
    <2>2. c + (n + k - w) + 1 = c + n - w + k + 1
        OBVIOUS
    <2>3. QED
        BY <1>1, <1>3, <2>1, <2>a, <2>2
  <1>4. QED
      BY <1>2, <1>3

\* A row that continues the state it was given.
NgramRow(b, i, t, c, m) ==
    /\ b.history[i] = NgramOf(t, c)
    /\ \A o \in 0 .. m - 1 : NgramCell(b.fb, i, o) = t[c + o + 1]

ConvRow(b, i, t, c, m) ==
    /\ conv[b.slot[i]] = ConvOf(t, c)
    /\ \A o \in 0 .. m - 1 : ConvCell(b.fb, i, o, Zero) = t[c + o + 1]

\* The history the layer reads n tokens into a row.
LEMMA NgramMoves ==
  ASSUME NEW b, NEW i, NEW t, NEW c \in Nat, NEW m \in Nat, NEW n \in 0 .. m,
         NgramRow(b, i, t, c, m)
  PROVE  NgramAt(b, i, n) = NgramOf(t, c + n)
  <1> DEFINE cell == [o \in Int |-> NgramCell(b.fb, i, o)]
  <1> DEFINE old == b.history[i]
  <1>1. old = Window(t, c, ContextLen, Eos) /\ ContextLen \in Nat
      BY HistoryAssumption DEF NgramRow, NgramOf
  <1>2. Continues(cell, t, c, m)
      BY DEF Continues, NgramRow
  <1>3. \A k \in 0 .. ContextLen - 1 : cell[n + k - ContextLen] = NgramCell(b.fb, i, n + k - ContextLen)
      BY <1>1
  <1>4. NgramAt(b, i, n) = [k \in 0 .. ContextLen - 1 |->
          IF n + k < ContextLen THEN old[n + k] ELSE cell[n + k - ContextLen]]
      BY <1>3, Zenon DEF NgramAt
  <1> HIDE DEF cell, old
  <1>5. Window(t, c + n, ContextLen, Eos) = [k \in 0 .. ContextLen - 1 |->
          IF n + k < ContextLen THEN old[n + k] ELSE cell[n + k - ContextLen]]
      BY ONLY <1>1, <1>2, WindowMoves
  <1>6. QED
      BY <1>4, <1>5 DEF NgramOf

\* The convolution state n tokens into a row.
LEMMA ConvMoves ==
  ASSUME NEW b, NEW i, NEW t, NEW c \in Nat, NEW m \in Nat, NEW n \in 0 .. m,
         ConvRow(b, i, t, c, m)
  PROVE  ConvAt(b, i, n) = ConvOf(t, c + n)
  <1> DEFINE cell == [o \in Int |-> ConvCell(b.fb, i, o, Zero)]
  <1> DEFINE old == conv[b.slot[i]]
  <1>1. old = Window(t, c, ConvLen, Zero) /\ ConvLen \in Nat
      BY HistoryAssumption DEF ConvRow, ConvOf
  <1>2. Continues(cell, t, c, m)
      BY DEF Continues, ConvRow
  <1>3. \A k \in 0 .. ConvLen - 1 : cell[n + k - ConvLen] = ConvCell(b.fb, i, n + k - ConvLen, Zero)
      BY <1>1
  <1>4. ConvAt(b, i, n) = [k \in 0 .. ConvLen - 1 |->
          IF n + k < ConvLen THEN old[n + k] ELSE cell[n + k - ConvLen]]
      BY <1>3, Zenon DEF ConvAt
  <1> HIDE DEF cell, old
  <1>5. Window(t, c + n, ConvLen, Zero) = [k \in 0 .. ConvLen - 1 |->
          IF n + k < ConvLen THEN old[n + k] ELSE cell[n + k - ConvLen]]
      BY ONLY <1>1, <1>2, WindowMoves
  <1>6. QED
      BY <1>4, <1>5 DEF ConvOf

\* Texts that agree on their first n tokens have the same states there.
LEMMA SamePrefix ==
  ASSUME NEW t, NEW u, NEW n \in Nat, \A i \in 1 .. n : t[i] = u[i]
  PROVE  NgramOf(t, n) = NgramOf(u, n) /\ ConvOf(t, n) = ConvOf(u, n)
  <1>1. ASSUME NEW w \in Nat, NEW fill PROVE Window(t, n, w, fill) = Window(u, n, w, fill)
    <2>1. ASSUME NEW k \in 0 .. w - 1, n - w + k >= 0 PROVE t[n - w + k + 1] = u[n - w + k + 1]
      <3>1. n - w + k + 1 \in 1 .. n
          BY <2>1
      <3>2. QED
          BY <3>1
    <2>2. QED
        BY <2>1 DEF Window
  <1>2. QED
      BY <1>1, HistoryAssumption DEF NgramOf, ConvOf

-----------------------------------------------------------------------------
(* Which slots a forward advances.                                         *)

\* A slot that one row names receives that row's value.
LEMMA IndexPutHits ==
  ASSUME NEW pool, NEW rows, NEW dst, NEW value, NEW r \in IndexPut(pool, rows, dst, value),
         NEW i \in rows, dst[i] \in DOMAIN pool, \A j \in rows : dst[j] = dst[i] => j = i
  PROVE  r[dst[i]] = value[i]
  <1> DEFINE Hit == {dst[j] : j \in rows}
  <1>1. PICK last \in [Hit -> rows] :
          /\ \A s \in Hit : dst[last[s]] = s
          /\ r = [s \in DOMAIN pool |-> IF s \in Hit THEN value[last[s]] ELSE pool[s]]
      BY DEF IndexPut
  <1>2. dst[i] \in Hit
      OBVIOUS
  <1>3. last[dst[i]] = i
      BY <1>1, <1>2
  <1>4. QED
      BY <1>1, <1>2, <1>3

\* A slot that no row names keeps its value.
LEMMA IndexPutMisses ==
  ASSUME NEW pool, NEW rows, NEW dst, NEW value, NEW r \in IndexPut(pool, rows, dst, value),
         NEW s \in DOMAIN pool, \A j \in rows : dst[j] # s
  PROVE  r[s] = pool[s]
  BY DEF IndexPut

\* An indexed assignment keeps the pool's slots.
LEMMA IndexPutDomain ==
  ASSUME NEW pool, NEW rows, NEW dst, NEW value, NEW r \in IndexPut(pool, rows, dst, value)
  PROVE  DOMAIN r = DOMAIN pool
  BY DEF IndexPut

\* The two assignments of an advance: rows that own state, then tracked rows.
AdvancedBy(pool, next, trackSlot, track) ==
    TwoPuts(pool, Kept(Rows(batch.fb), batch.slot), batch.slot, next,
            Kept(TrackRows(batch.fb), trackSlot), trackSlot, track)

\* What it leaves in the two slots of a request with a row in the forward.
RowAdvanced(pool, r, next, track, i) ==
    LET fb == batch.fb
        q == fb.reqs[i]
    IN /\ r[slotOf[q]] = IF Length(fb, i) > 0 THEN next[i] ELSE pool[slotOf[q]]
       /\ r[trackOf[q]] = IF fb.mask[i] THEN track[i] ELSE pool[trackOf[q]]

\* The rows' requests have slots of their own, so each keeps what its row wrote.
LEMMA AdvanceMeans ==
  ASSUME TypeOK, SlotsDistinct, OwnersDistinct, BatchInv, pc # "idle", ~IsVerify(batch.fb),
         BatchMeans(batch.fb, text, done),
         NEW pool, DOMAIN pool = Slots, NEW next, NEW track,
         NEW trackSlot,
         trackSlot = [i \in TrackRows(batch.fb) |-> TrackDestination(batch.fb, i)],
         NEW r \in AdvancedBy(pool, next, trackSlot, track)
  PROVE  /\ \A i \in RealRows(batch.fb) : RowAdvanced(pool, r, next, track, i)
         /\ \A s \in Slots \ OwnSlots(batch.fb) : r[s] = pool[s]
  <1> DEFINE fb == batch.fb
  <1> DEFINE rows == Kept(Rows(fb), batch.slot)
  <1> DEFINE trackRows == Kept(TrackRows(fb), trackSlot)
  <1>1. PICK mid \in IndexPut(pool, rows, batch.slot, next) :
          r \in IndexPut(mid, trackRows, trackSlot, track)
      BY Zenon DEF TwoPuts, AdvancedBy
  <1>2. DOMAIN mid = Slots
      BY <1>1, IndexPutDomain
  <1>3. /\ RowsOK(fb) /\ TracksOK(fb, trackOf, done) /\ RealDistinct(fb) /\ fb.tracking
        /\ \A i \in Rows(fb) : batch.slot[i] = StateIndex(fb, slotOf, i)
        /\ \A i \in RealRows(fb) : fb.reqs[i] \in Live
      BY DEF BatchInv, BatchMeans
  <1>4. \A i \in RealRows(fb) : Length(fb, i) > 0 => OwnsState(fb, i)
      BY DEF BatchMeans, RowMeans
  <1>5. \A i \in Rows(fb) : i < fb.real => i \in RealRows(fb)
      BY DEF RealRows
  <1>6. \A i \in RealRows(fb) : i \in Rows(fb) /\ fb.reqs[i] \in Reqs
      BY <1>3 DEF RealRows, RowsOK
  <1>7. ASSUME NEW i \in RealRows(fb)
        PROVE  /\ slotOf[fb.reqs[i]] \in Slots /\ slotOf[fb.reqs[i]] # Reserved
               /\ trackOf[fb.reqs[i]] \in Slots /\ trackOf[fb.reqs[i]] # Reserved
    <2>1. fb.reqs[i] \in Live /\ fb.reqs[i] \in Reqs
        BY <1>3, <1>6
    <2>2. QED
        BY <2>1 DEF TypeOK, OwnersDistinct, Live
  <1>8. ASSUME NEW i \in RealRows(fb), NEW j \in RealRows(fb)
        PROVE  /\ slotOf[fb.reqs[i]] = slotOf[fb.reqs[j]] => i = j
               /\ trackOf[fb.reqs[i]] = trackOf[fb.reqs[j]] => i = j
               /\ slotOf[fb.reqs[i]] # trackOf[fb.reqs[j]]
    <2>1. fb.reqs[i] \in Live /\ fb.reqs[j] \in Live /\ fb.reqs[i] \in Reqs /\ fb.reqs[j] \in Reqs
        BY <1>3, <1>6
    <2>2. fb.reqs[i] = fb.reqs[j] => i = j
        BY <1>3 DEF RealDistinct
    <2>3. QED
        BY <2>1, <2>2 DEF SlotsDistinct, OwnersDistinct, Live
  <1>9. ASSUME NEW j \in rows
        PROVE  j \in RealRows(fb) /\ batch.slot[j] = slotOf[fb.reqs[j]] /\ OwnsState(fb, j)
    <2>1. j \in Rows(fb) /\ batch.slot[j] # Reserved
        BY DEF Kept
    <2>2. OwnsState(fb, j) /\ batch.slot[j] = slotOf[fb.reqs[j]]
        BY <1>3, <2>1 DEF StateIndex
    <2>3. QED
        BY <1>3, <1>5, <2>1, <2>2 DEF RowsOK
  <1>10. TrackRows(fb) = Rows(fb)
      BY <1>3 DEF TrackRows
  <1>11. ASSUME NEW j \in trackRows
         PROVE  j \in RealRows(fb) /\ trackSlot[j] = trackOf[fb.reqs[j]] /\ fb.mask[j]
    <2>1. j \in Rows(fb) /\ trackSlot[j] # Reserved /\ trackSlot[j] = TrackDestination(fb, j)
        BY <1>10 DEF Kept
    <2>2. fb.mask[j] /\ trackSlot[j] = fb.dst[j]
        BY <2>1 DEF TrackDestination
    <2>3. QED
        BY <1>3, <1>5, <2>1, <2>2 DEF TracksOK
  <1>12. ASSUME NEW i \in RealRows(fb), fb.mask[i]
         PROVE  i \in trackRows /\ trackSlot[i] = trackOf[fb.reqs[i]]
    <2>1. i \in Rows(fb) /\ trackSlot[i] = TrackDestination(fb, i)
        BY <1>6, <1>10
    <2>2. trackSlot[i] = trackOf[fb.reqs[i]]
        BY <1>3, <1>12, <2>1 DEF TrackDestination, TracksOK
    <2>3. QED
        BY <1>7, <1>10, <2>1, <2>2 DEF Kept
  <1>13. ASSUME NEW i \in RealRows(fb), Length(fb, i) > 0
         PROVE  i \in rows /\ batch.slot[i] = slotOf[fb.reqs[i]]
    <2>1. i \in Rows(fb) /\ OwnsState(fb, i)
        BY <1>4, <1>6, <1>13
    <2>2. batch.slot[i] = slotOf[fb.reqs[i]]
        BY <1>3, <2>1 DEF StateIndex
    <2>3. QED
        BY <1>7, <2>1, <2>2 DEF Kept
  <1>14. ASSUME NEW i \in rows PROVE Length(fb, i) > 0
    <2>1. OwnsState(fb, i) /\ i \in RealRows(fb)
        BY <1>9
    <2>2. Length(fb, i) # 0 /\ Length(fb, i) \in Nat
        BY <1>3, <1>6, <2>1 DEF OwnsState, RowsOK
    <2>3. QED
        BY <2>2
  <1> HIDE DEF rows, trackRows, fb
  <1>15. ASSUME NEW i \in RealRows(fb) PROVE RowAdvanced(pool, r, next, track, i)
    <2> DEFINE q == fb.reqs[i]
    <2>1. mid[slotOf[q]] = IF Length(fb, i) > 0 THEN next[i] ELSE pool[slotOf[q]]
      <3>1. CASE Length(fb, i) > 0
        <4>1. i \in rows /\ batch.slot[i] = slotOf[q] /\ slotOf[q] \in DOMAIN pool
            BY <1>7, <1>13, <3>1
        <4>2. \A j \in rows : batch.slot[j] = batch.slot[i] => j = i
            BY <1>8, <1>9, <4>1
        <4>3. mid[batch.slot[i]] = next[i]
            BY <4>1, <4>2, IndexPutHits
        <4>4. QED
            BY <3>1, <4>1, <4>3
      <3>2. CASE ~(Length(fb, i) > 0)
        <4>1. \A j \in rows : batch.slot[j] # slotOf[q]
            BY <1>8, <1>9, <1>14, <3>2
        <4>2. mid[slotOf[q]] = pool[slotOf[q]]
            BY <1>7, <4>1, IndexPutMisses
        <4>3. QED
            BY <3>2, <4>2
      <3>3. QED
          BY <3>1, <3>2
    <2>2. r[slotOf[q]] = mid[slotOf[q]]
      <3>1. \A j \in trackRows : trackSlot[j] # slotOf[q]
          BY <1>8, <1>11
      <3>2. QED
          BY <1>1, <1>2, <1>7, <3>1, IndexPutMisses
    <2>3. mid[trackOf[q]] = pool[trackOf[q]]
      <3>1. \A j \in rows : batch.slot[j] # trackOf[q]
          BY <1>8, <1>9
      <3>2. QED
          BY <1>7, <3>1, IndexPutMisses
    <2>4. r[trackOf[q]] = IF fb.mask[i] THEN track[i] ELSE mid[trackOf[q]]
      <3>1. CASE fb.mask[i]
        <4>1. i \in trackRows /\ trackSlot[i] = trackOf[q] /\ trackOf[q] \in DOMAIN mid
            BY <1>2, <1>7, <1>12, <3>1
        <4>2. \A j \in trackRows : trackSlot[j] = trackSlot[i] => j = i
            BY <1>8, <1>11, <4>1
        <4>3. r[trackSlot[i]] = track[i]
            BY <1>1, <4>1, <4>2, IndexPutHits
        <4>4. QED
            BY <3>1, <4>1, <4>3
      <3>2. CASE ~fb.mask[i]
        <4>1. \A j \in trackRows : trackSlot[j] # trackOf[q]
            BY <1>8, <1>11, <3>2
        <4>2. r[trackOf[q]] = mid[trackOf[q]]
            BY <1>1, <1>2, <1>7, <4>1, IndexPutMisses
        <4>3. QED
            BY <3>2, <4>2
      <3>3. QED
          BY <3>1, <3>2
    <2>5. QED
        BY ONLY <2>1, <2>2, <2>3, <2>4 DEF RowAdvanced, fb
  <1>16. ASSUME NEW s \in Slots \ OwnSlots(fb) PROVE r[s] = pool[s]
    <2>1. \A j \in rows : batch.slot[j] # s
        BY <1>9 DEF OwnSlots
    <2>2. \A j \in trackRows : trackSlot[j] # s
        BY <1>11 DEF OwnSlots
    <2>3. mid[s] = pool[s]
        BY <2>1, IndexPutMisses
    <2>4. r[s] = mid[s]
        BY <1>1, <1>2, <2>2, IndexPutMisses
    <2>5. QED
        BY <2>3, <2>4
  <1>17. QED
      BY <1>15, <1>16 DEF fb

\* What a forward that is not a verify makes of a row's two slots.
Reaches(pool, r, i, Of(_, _)) ==
    LET fb == batch.fb
        q == fb.reqs[i]
        reach == done[q] + Length(fb, i)
    IN /\ r[slotOf[q]] = Of(text[q], reach)
       /\ Boundary(reach) > done[q] => r[trackOf[q]] = Of(text[q], Boundary(reach))
       /\ ~(Boundary(reach) > done[q]) => r[trackOf[q]] = pool[trackOf[q]]

\* A row's tokens, its reach and its boundary, in numbers.
LEMMA RowNumbers ==
  ASSUME TypeOK, BatchInv, pc # "idle", ~IsVerify(batch.fb), BatchMeans(batch.fb, text, done),
         NEW i \in RealRows(batch.fb), NEW q, q = batch.fb.reqs[i]
  PROVE  /\ q \in Live /\ q \in Reqs /\ done[q] \in Nat
         /\ Length(batch.fb, i) \in Nat /\ Known(batch.fb, i) = Length(batch.fb, i)
         /\ Length(batch.fb, i) = 0 => ~batch.fb.mask[i]
         /\ batch.fb.mask[i] <=> Boundary(done[q] + Length(batch.fb, i)) > done[q]
         /\ batch.fb.mask[i] =>
              /\ TrackOffset(batch.fb, i) \in 0 .. Length(batch.fb, i)
              /\ done[q] + TrackOffset(batch.fb, i) = Boundary(done[q] + Length(batch.fb, i))
         /\ Length(batch.fb, i) > 0 => batch.slot[i] = slotOf[q]
  <1> DEFINE fb == batch.fb
  <1> DEFINE l == Length(fb, i)
  <1> DEFINE d == done[q]
  <1> DEFINE o == TrackOffset(fb, i)
  <1> DEFINE bound == Boundary(d + l)
  <1>1. i \in Rows(fb) /\ q \in Live /\ q \in Reqs /\ RowsOK(fb)
      BY DEF RealRows, BatchInv, RowsOK
  <1>2. d \in Nat /\ l \in Nat
      BY <1>1 DEF TypeOK, RowsOK
  <1>3. /\ Known(fb, i) = l
        /\ fb.mask[i] <=> bound > d
        /\ fb.mask[i] => o = bound - d
        /\ l > 0 => OwnsState(fb, i)
      BY DEF BatchMeans, RowMeans, Known
  <1>4. l > 0 => batch.slot[i] = slotOf[q]
      BY <1>1, <1>3 DEF BatchInv, StateIndex
  <1> HIDE DEF l, d, o, bound
  <1>5. bound \in Nat /\ bound <= d + l /\ (l = 0 => ~(bound > d))
      BY <1>2, BoundaryPassed DEF bound
  <1>6. bound > d /\ o = bound - d => o \in 0 .. l /\ d + o = bound
      BY ONLY <1>2, <1>5
  <1>7. fb.mask[i] => o \in 0 .. l /\ d + o = bound
      BY ONLY <1>3, <1>6
  <1>8. l = 0 => ~fb.mask[i]
      BY ONLY <1>3, <1>5
  <1>9. QED
      BY ONLY <1>1, <1>2, <1>3, <1>4, <1>7, <1>8 DEF l, d, o, bound

\* The histories a commit installs.
LEMMA NgramAdvances ==
  ASSUME IInv, StateInv, pc # "idle", ~IsVerify(batch.fb),
         NEW r \in Advance(ngram, batch, NgramAt)
  PROVE  /\ \A i \in RealRows(batch.fb) : Reaches(ngram, r, i, NgramOf)
         /\ \A s \in Slots \ OwnSlots(batch.fb) : r[s] = ngram[s]
  <1> DEFINE fb == batch.fb
  <1> DEFINE next == [i \in Rows(fb) |-> NgramAt(batch, i, Length(fb, i))]
  <1> DEFINE trackSlot == [i \in TrackRows(fb) |-> TrackDestination(fb, i)]
  <1> DEFINE track == [i \in TrackRows(fb) |-> NgramAt(batch, i, TrackOffset(fb, i))]
  <1>1. /\ TypeOK /\ SlotsDistinct /\ BatchInv /\ OwnersDistinct
        /\ BatchMeans(fb, text, done) /\ NgramInv
        /\ \A i \in RealRows(fb) : Length(fb, i) > 0 =>
             batch.history[i] = NgramOf(text[fb.reqs[i]], done[fb.reqs[i]])
      BY DEF IInv, StateInv, FlightInv
  <1>2. r \in AdvancedBy(ngram, next, trackSlot, track)
      BY Zenon DEF Advance, AdvancedBy, TwoPuts
  <1>3. DOMAIN ngram = Slots
      BY <1>1 DEF TypeOK
  <1>4. \A i \in RealRows(fb) : i \in Rows(fb) /\ i \in TrackRows(fb)
      BY <1>1 DEF RealRows, TrackRows, BatchMeans
  <1>5. \A i \in RealRows(fb) : /\ next[i] = NgramAt(batch, i, Length(fb, i))
                                /\ track[i] = NgramAt(batch, i, TrackOffset(fb, i))
      BY <1>4
  <1> HIDE DEF next, track
  <1>6. /\ \A i \in RealRows(fb) : RowAdvanced(ngram, r, next, track, i)
        /\ \A s \in Slots \ OwnSlots(fb) : r[s] = ngram[s]
      BY <1>1, <1>2, <1>3, AdvanceMeans
  <1>7. ASSUME NEW i \in RealRows(fb) PROVE Reaches(ngram, r, i, NgramOf)
    <2> DEFINE q == fb.reqs[i]
    <2> DEFINE l == Length(fb, i)
    <2> DEFINE o == TrackOffset(fb, i)
    <2>1. /\ q \in Live /\ q \in Reqs /\ done[q] \in Nat /\ l \in Nat /\ Known(fb, i) = l
          /\ l = 0 => ~fb.mask[i]
          /\ fb.mask[i] <=> Boundary(done[q] + l) > done[q]
          /\ fb.mask[i] => o \in 0 .. l /\ done[q] + o = Boundary(done[q] + l)
        BY <1>1, RowNumbers
    <2>2. /\ r[slotOf[q]] = IF l > 0 THEN next[i] ELSE ngram[slotOf[q]]
          /\ r[trackOf[q]] = IF fb.mask[i] THEN track[i] ELSE ngram[trackOf[q]]
        BY <1>6 DEF RowAdvanced
    <2>3. ASSUME l > 0, NEW n \in 0 .. l PROVE NgramAt(batch, i, n) = NgramOf(text[q], done[q] + n)
      <3>1. NgramRow(batch, i, text[q], done[q], l)
          BY <1>1, <2>1, <2>3 DEF BatchMeans, RowMeans, NgramRow
      <3> HIDE DEF q, l
      <3>2. QED
          BY <2>1, <3>1, NgramMoves
    <2>4. ngram[slotOf[q]] = NgramOf(text[q], done[q])
        BY <1>1, <2>1 DEF NgramInv
    <2>5. next[i] = NgramAt(batch, i, l) /\ track[i] = NgramAt(batch, i, o)
        BY <1>5
    <2> HIDE DEF q, l, o, fb
    <2>6. r[slotOf[q]] = NgramOf(text[q], done[q] + l)
      <3>1. CASE l > 0
        <4>1. l \in 0 .. l
            BY ONLY <2>1
        <4>2. QED
            BY <2>2, <2>3, <2>5, <3>1, <4>1
      <3>2. CASE ~(l > 0)
        <4>1. done[q] + l = done[q]
          <5>1. \A x, y \in Nat : ~(y > 0) => x + y = x
              OBVIOUS
          <5>2. QED
              BY ONLY <2>1, <3>2, <5>1, Zenon
        <4>2. QED
            BY ONLY <2>2, <2>4, <3>2, <4>1
      <3>3. QED
          BY <3>1, <3>2
    <2>7. ASSUME fb.mask[i] PROVE r[trackOf[q]] = NgramOf(text[q], Boundary(done[q] + l))
      <3>1. l # 0 /\ l > 0
          BY ONLY <2>1, <2>7
      <3>2. NgramAt(batch, i, o) = NgramOf(text[q], done[q] + o)
          BY ONLY <2>1, <2>3, <2>7, <3>1
      <3>3. QED
          BY ONLY <2>1, <2>2, <2>5, <2>7, <3>2
    <2>8. QED
        BY ONLY <2>1, <2>2, <2>6, <2>7 DEF Reaches, q, l, fb
  <1>8. QED
      BY <1>6, <1>7 DEF fb

\* The convolution states the layer leaves.
LEMMA ConvAdvances ==
  ASSUME IInv, StateInv, pc = "layers", ~IsVerify(batch.fb),
         NEW r \in Advance(conv, batch, ConvAt)
  PROVE  /\ \A i \in RealRows(batch.fb) : Reaches(conv, r, i, ConvOf)
         /\ \A s \in Slots \ OwnSlots(batch.fb) : r[s] = conv[s]
  <1> DEFINE fb == batch.fb
  <1> DEFINE next == [i \in Rows(fb) |-> ConvAt(batch, i, Length(fb, i))]
  <1> DEFINE trackSlot == [i \in TrackRows(fb) |-> TrackDestination(fb, i)]
  <1> DEFINE track == [i \in TrackRows(fb) |-> ConvAt(batch, i, TrackOffset(fb, i))]
  <1>1. /\ TypeOK /\ SlotsDistinct /\ BatchInv /\ OwnersDistinct
        /\ BatchMeans(fb, text, done) /\ ~ConvAhead /\ ConvInv
      BY DEF IInv, StateInv, FlightInv, ConvAhead
  <1>2. r \in AdvancedBy(conv, next, trackSlot, track)
      BY Zenon DEF Advance, AdvancedBy, TwoPuts
  <1>3. DOMAIN conv = Slots
      BY <1>1 DEF TypeOK
  <1>4. \A i \in RealRows(fb) : i \in Rows(fb) /\ i \in TrackRows(fb)
      BY <1>1 DEF RealRows, TrackRows, BatchMeans
  <1>5. \A i \in RealRows(fb) : /\ next[i] = ConvAt(batch, i, Length(fb, i))
                                /\ track[i] = ConvAt(batch, i, TrackOffset(fb, i))
      BY <1>4
  <1> HIDE DEF next, track
  <1>6. /\ \A i \in RealRows(fb) : RowAdvanced(conv, r, next, track, i)
        /\ \A s \in Slots \ OwnSlots(fb) : r[s] = conv[s]
      BY <1>1, <1>2, <1>3, AdvanceMeans
  <1>7. ASSUME NEW i \in RealRows(fb) PROVE Reaches(conv, r, i, ConvOf)
    <2> DEFINE q == fb.reqs[i]
    <2> DEFINE l == Length(fb, i)
    <2> DEFINE o == TrackOffset(fb, i)
    <2>1. /\ q \in Live /\ q \in Reqs /\ done[q] \in Nat /\ l \in Nat /\ Known(fb, i) = l
          /\ l = 0 => ~fb.mask[i]
          /\ fb.mask[i] <=> Boundary(done[q] + l) > done[q]
          /\ fb.mask[i] => o \in 0 .. l /\ done[q] + o = Boundary(done[q] + l)
        BY <1>1, RowNumbers
    <2>2. /\ r[slotOf[q]] = IF l > 0 THEN next[i] ELSE conv[slotOf[q]]
          /\ r[trackOf[q]] = IF fb.mask[i] THEN track[i] ELSE conv[trackOf[q]]
        BY <1>6 DEF RowAdvanced
    <2>4. conv[slotOf[q]] = ConvOf(text[q], done[q])
        BY <1>1, <2>1 DEF ConvInv
    <2>a. l > 0 => batch.slot[i] = slotOf[q]
        BY <1>1, RowNumbers
    <2>3. ASSUME l > 0, NEW n \in 0 .. l PROVE ConvAt(batch, i, n) = ConvOf(text[q], done[q] + n)
      <3>1. ConvRow(batch, i, text[q], done[q], l)
          BY <1>1, <2>1, <2>3, <2>a, <2>4 DEF BatchMeans, RowMeans, ConvRow
      <3> HIDE DEF q, l
      <3>2. QED
          BY <2>1, <3>1, ConvMoves
    <2>5. next[i] = ConvAt(batch, i, l) /\ track[i] = ConvAt(batch, i, o)
        BY <1>5
    <2> HIDE DEF q, l, o, fb
    <2>6. r[slotOf[q]] = ConvOf(text[q], done[q] + l)
      <3>1. CASE l > 0
        <4>1. l \in 0 .. l
            BY ONLY <2>1
        <4>2. QED
            BY <2>2, <2>3, <2>5, <3>1, <4>1
      <3>2. CASE ~(l > 0)
        <4>1. done[q] + l = done[q]
          <5>1. \A x, y \in Nat : ~(y > 0) => x + y = x
              OBVIOUS
          <5>2. QED
              BY ONLY <2>1, <3>2, <5>1, Zenon
        <4>2. QED
            BY ONLY <2>2, <2>4, <3>2, <4>1
      <3>3. QED
          BY <3>1, <3>2
    <2>7. ASSUME fb.mask[i] PROVE r[trackOf[q]] = ConvOf(text[q], Boundary(done[q] + l))
      <3>1. l # 0 /\ l > 0
          BY ONLY <2>1, <2>7
      <3>2. ConvAt(batch, i, o) = ConvOf(text[q], done[q] + o)
          BY ONLY <2>1, <2>3, <2>7, <3>1
      <3>3. QED
          BY ONLY <2>1, <2>2, <2>5, <2>7, <3>2
    <2>8. QED
        BY ONLY <2>1, <2>2, <2>6, <2>7 DEF Reaches, q, l, fb
  <1>8. QED
      BY <1>6, <1>7 DEF fb

-----------------------------------------------------------------------------
(* Every step keeps the meaning of the states.                             *)

LEMMA InitMeans == Init => StateInv
  <1> SUFFICES ASSUME Init PROVE StateInv
      OBVIOUS
  <1>1. Live = {} /\ Cached = {} /\ pc = "idle"
      BY DEF Init, Live, Cached
  <1>2. \A r \in Reqs : r \notin Live /\ trackOf[r] = Reserved /\ tracked[r] = 0
      BY <1>1 DEF Init
  <1>3. OwnersDistinct
      BY <1>1, <1>2 DEF OwnersDistinct
  <1>4. QED
      BY <1>1, <1>3 DEF StateInv, FlightInv, NgramInv, ConvInv, AheadInv, ConvAhead,
         SnapshotIsOfItsPrefix

LEMMA PrepareMeans ==
  ASSUME IInv, StateInv, pc = "idle", NEW fb, LayoutOK(fb), BatchMeans(fb, text, done), Prepare(fb)
  PROVE  StateInv'
  <1>1. /\ pc' = "layers" /\ batch'.fb = fb
        /\ batch'.history = [i \in Rows(fb) |-> ngram[StateIndex(fb, slotOf, i)]]
      BY DEF Prepare
  <1>2. /\ ngram' = ngram /\ conv' = conv /\ slotOf' = slotOf /\ trackOf' = trackOf
        /\ text' = text /\ done' = done /\ tracked' = tracked /\ snap' = snap
      BY DEF Prepare, poolVars, reqVars
  <1>3. Live' = Live /\ Cached' = Cached
      BY <1>2 DEF Live, Cached
  <1>4. OwnersDistinct' /\ SnapshotIsOfItsPrefix' /\ NgramInv'
      BY <1>2, <1>3 DEF StateInv, OwnersDistinct, SnapshotIsOfItsPrefix, NgramInv
  <1>5. ~ConvAhead /\ ~ConvAhead'
      BY <1>1 DEF ConvAhead
  <1>6. ConvInv' /\ AheadInv' /\ CandidatesInv'
      BY <1>1, <1>2, <1>3, <1>5 DEF StateInv, ConvInv, AheadInv, CandidatesInv
  <1>7. ASSUME NEW i \in RealRows(fb), Length(fb, i) > 0
        PROVE  batch'.history[i] = NgramOf(text[fb.reqs[i]], done[fb.reqs[i]])
    <2>1. OwnsState(fb, i) /\ i \in Rows(fb) /\ fb.reqs[i] \in Live
        BY <1>7 DEF BatchMeans, RowMeans, RealRows, LayoutOK
    <2>2. batch'.history[i] = ngram[slotOf[fb.reqs[i]]]
        BY <1>1, <2>1 DEF StateIndex
    <2>3. QED
        BY <2>1, <2>2 DEF StateInv, NgramInv
  <1>8. FlightInv'
      BY <1>1, <1>2, <1>7 DEF FlightInv
  <1>9. QED
      BY <1>4, <1>6, <1>8 DEF StateInv

\* A live request that has no row in the forward keeps its slots.
LEMMA Bystander ==
  ASSUME IInv, StateInv, pc # "idle", NEW r \in Live,
         \A i \in RealRows(batch.fb) : ~InFlight(r, i)
  PROVE  slotOf[r] \in Slots \ OwnSlots(batch.fb) /\ trackOf[r] \in Slots \ OwnSlots(batch.fb)
  <1>1. r \in Reqs /\ slotOf[r] # Reserved /\ trackOf[r] # Reserved
      BY DEF Live, StateInv, OwnersDistinct
  <1>2. slotOf[r] \in Slots /\ trackOf[r] \in Slots
      BY <1>1 DEF IInv, TypeOK
  <1>3. ASSUME NEW i \in RealRows(batch.fb)
        PROVE  /\ slotOf[r] # slotOf[batch.fb.reqs[i]] /\ slotOf[r] # trackOf[batch.fb.reqs[i]]
               /\ trackOf[r] # slotOf[batch.fb.reqs[i]] /\ trackOf[r] # trackOf[batch.fb.reqs[i]]
    <2>1. batch.fb.reqs[i] \in Live /\ batch.fb.reqs[i] # r /\ batch.fb.reqs[i] \in Reqs
        BY DEF IInv, BatchInv, InFlight, Live
    <2>2. QED
        BY <1>1, <2>1 DEF StateInv, OwnersDistinct, IInv, SlotsDistinct
  <1>4. QED
      BY <1>1, <1>2, <1>3 DEF OwnSlots

\* So does a cached slot.
LEMMA CachedAside ==
  ASSUME IInv, StateInv, pc # "idle", NEW s \in Cached
  PROVE  s \in Slots \ OwnSlots(batch.fb)
  <1>1. s \in Slots /\ s # Reserved
      BY DEF Cached, StateInv, OwnersDistinct
  <1>2. \A i \in RealRows(batch.fb) :
          s # slotOf[batch.fb.reqs[i]] /\ s # trackOf[batch.fb.reqs[i]]
      BY DEF StateInv, OwnersDistinct, IInv, BatchInv
  <1>3. QED
      BY <1>1, <1>2 DEF OwnSlots

\* A real row of a forward that is not a verify is its request's only row.
LEMMA OneRowEach ==
  ASSUME StateInv, pc # "idle", NEW i \in RealRows(batch.fb), NEW j \in RealRows(batch.fb), NEW r,
         InFlight(r, i), InFlight(r, j)
  PROVE  i = j
  BY DEF StateInv, FlightInv, BatchMeans, RealDistinct, InFlight

\* A step of the forward in flight that keeps the requests keeps what it holds of them.
LEMMA InFlightKept ==
  ASSUME StateInv, pc # "idle",
         UNCHANGED <<batch, slotOf, trackOf, text, done, tracked, snap>>
  PROVE  OwnersDistinct' /\ FlightInv' /\ Live' = Live /\ Cached' = Cached
  <1>1. Live' = Live /\ Cached' = Cached
      BY DEF Live, Cached
  <1>2. OwnersDistinct'
      BY <1>1 DEF StateInv, OwnersDistinct
  <1>3. FlightInv'
      BY DEF StateInv, FlightInv
  <1>4. QED
      BY <1>1, <1>2, <1>3

\* The candidate states of a verify stand for the tokens they follow.
LEMMA CandidateMeans ==
  ASSUME IInv, StateInv, pc # "idle", IsVerify(batch.fb), ~ConvAhead,
         NEW i \in RealRows(batch.fb), NEW j \in 0 .. Known(batch.fb, i) - 1,
         NEW q, q = batch.fb.reqs[i]
  PROVE  /\ i \in Rows(batch.fb) /\ j \in Columns(batch.fb) /\ j < Length(batch.fb, i)
         /\ NgramAt(batch, i, j + 1) = NgramOf(text[q], done[q] + j + 1)
         /\ ConvAt(batch, i, j + 1) = ConvOf(text[q], done[q] + j + 1)
  <1> DEFINE fb == batch.fb
  <1> DEFINE m == Known(fb, i)
  <1>1. i \in Rows(fb) /\ q \in Live /\ q \in Reqs
      BY DEF RealRows, IInv, BatchInv, RowsOK
  <1>2. done[q] \in Nat /\ Length(fb, i) \in Nat
      BY <1>1 DEF IInv, TypeOK, BatchInv, RowsOK
  <1>3. RowMeans(fb, i, text[q], done[q])
      BY DEF StateInv, FlightInv, BatchMeans
  <1>4. /\ m \in 0 .. Length(fb, i) /\ 0 .. m - 1 \subseteq Columns(fb)
        /\ Length(fb, i) > 0 => OwnsState(fb, i)
      BY <1>3 DEF RowMeans
  <1>5. j \in Nat /\ m \in Nat /\ j + 1 \in 0 .. m /\ j < Length(fb, i) /\ Length(fb, i) > 0
      BY <1>2, <1>4
  <1>6. batch.slot[i] = slotOf[q] /\ batch.history[i] = NgramOf(text[q], done[q])
      BY <1>1, <1>4, <1>5 DEF IInv, BatchInv, StateIndex, StateInv, FlightInv
  <1>7. NgramRow(batch, i, text[q], done[q], m)
      BY <1>3, <1>6 DEF RowMeans, NgramRow
  <1>8. conv[slotOf[q]] = ConvOf(text[q], done[q])
      BY <1>1 DEF StateInv, ConvInv
  <1>9. ConvRow(batch, i, text[q], done[q], m)
      BY <1>3, <1>6, <1>8 DEF RowMeans, ConvRow
  <1>10. j \in Columns(fb)
      BY <1>4
  <1> HIDE DEF m
  <1>11. /\ NgramAt(batch, i, j + 1) = NgramOf(text[q], done[q] + (j + 1))
         /\ ConvAt(batch, i, j + 1) = ConvOf(text[q], done[q] + (j + 1))
      BY ONLY <1>2, <1>5, <1>7, <1>9, NgramMoves, ConvMoves
  <1>12. done[q] + (j + 1) = done[q] + j + 1
      BY ONLY <1>2, <1>5
  <1>13. QED
      BY ONLY <1>1, <1>5, <1>10, <1>11, <1>12 DEF fb

LEMMA ShortConvMeans ==
  ASSUME IInv, StateInv, ShortConv
  PROVE  StateInv'
  <1>1. /\ pc = "layers" /\ pc' = "commit"
        /\ UNCHANGED <<ngram, batch, slotOf, trackOf, text, done, tracked, snap>>
      BY DEF ShortConv, reqVars
  <1>2. OwnersDistinct' /\ FlightInv' /\ Live' = Live /\ Cached' = Cached
      BY <1>1, InFlightKept
  <1>3. NgramInv'
      BY <1>1, <1>2 DEF StateInv, NgramInv
  <1>4. ~ConvAhead
      BY <1>1 DEF ConvAhead
  <1>5. \A r \in Live : /\ conv[slotOf[r]] = ConvOf(text[r], done[r])
                        /\ tracked[r] # 0 => conv[trackOf[r]] = ConvOf(text[r], tracked[r])
      BY <1>4 DEF StateInv, ConvInv
  <1>6. CASE ProcessedTokens(batch.fb) = 0
    <2>1. conv' = conv /\ ~ConvAhead'
        BY <1>1, <1>6 DEF ShortConv, ConvAhead
    <2>2. ConvInv' /\ AheadInv'
        BY <1>1, <1>2, <1>5, <2>1 DEF ConvInv, AheadInv
    <2>3. CandidatesInv'
        BY <1>1, <1>6 DEF CandidatesInv
    <2>4. SnapshotIsOfItsPrefix'
        BY <1>1, <1>2, <2>1 DEF StateInv, SnapshotIsOfItsPrefix
    <2>5. QED
        BY <1>2, <1>3, <2>2, <2>3, <2>4 DEF StateInv
  <1>7. CASE ProcessedTokens(batch.fb) # 0 /\ IsVerify(batch.fb)
    <2>1. /\ conv' = conv
          /\ convSteps' = Steps(batch, ConvAt, [k \in 0 .. ConvLen - 1 |-> Zero])
        BY <1>7 DEF ShortConv
    <2>2. ~ConvAhead'
        BY <1>1, <1>7 DEF ConvAhead
    <2>3. ConvInv' /\ AheadInv'
        BY <1>1, <1>2, <1>5, <2>1, <2>2 DEF ConvInv, AheadInv
    <2>4. SnapshotIsOfItsPrefix'
        BY <1>1, <1>2, <2>1 DEF StateInv, SnapshotIsOfItsPrefix
    <2>5. ASSUME NEW i \in RealRows(batch.fb), NEW j \in 0 .. Known(batch.fb, i) - 1,
                 NEW q, q = batch.fb.reqs[i]
          PROVE  convSteps'[i][j] = ConvOf(text[q], done[q] + j + 1)
      <3>1. /\ i \in Rows(batch.fb) /\ j \in Columns(batch.fb) /\ j < Length(batch.fb, i)
            /\ ConvAt(batch, i, j + 1) = ConvOf(text[q], done[q] + j + 1)
          BY <1>1, <1>4, <1>7, <2>5, CandidateMeans
      <3>2. convSteps'[i][j] = ConvAt(batch, i, j + 1)
          BY <2>1, <3>1 DEF Steps
      <3>3. QED
          BY <3>1, <3>2
    <2>6. CandidatesInv'
        BY <1>1, <2>5 DEF CandidatesInv
    <2>7. QED
        BY <1>2, <1>3, <2>3, <2>4, <2>6 DEF StateInv
  <1>8. CASE ProcessedTokens(batch.fb) # 0 /\ ~IsVerify(batch.fb)
    <2>1. conv' \in Advance(conv, batch, ConvAt)
        BY <1>8 DEF ShortConv
    <2>2. /\ \A i \in RealRows(batch.fb) : Reaches(conv, conv', i, ConvOf)
          /\ \A s \in Slots \ OwnSlots(batch.fb) : conv'[s] = conv[s]
        BY <1>1, <1>8, <2>1, ConvAdvances
    <2>3. ConvAhead'
        BY <1>1, <1>8 DEF ConvAhead
    <2>4. ASSUME NEW r \in Live, NEW i \in RealRows(batch.fb), InFlight(r, i)
          PROVE  LET reach == done[r] + Length(batch.fb, i)
                 IN /\ conv'[slotOf[r]] = ConvOf(text[r], reach)
                    /\ Boundary(reach) > done[r] =>
                          conv'[trackOf[r]] = ConvOf(text[r], Boundary(reach))
                    /\ ~(Boundary(reach) > done[r]) /\ tracked[r] # 0 =>
                          conv'[trackOf[r]] = ConvOf(text[r], tracked[r])
        BY <1>5, <2>2, <2>4 DEF Reaches, InFlight
    <2>5. ASSUME NEW r \in Live, \A i \in RealRows(batch.fb) : ~InFlight(r, i)
          PROVE  /\ conv'[slotOf[r]] = ConvOf(text[r], done[r])
                 /\ tracked[r] # 0 => conv'[trackOf[r]] = ConvOf(text[r], tracked[r])
        BY <1>1, <1>5, <2>2, <2>5, Bystander
    <2>6. AheadInv' /\ ConvInv'
        BY <1>1, <1>2, <2>3, <2>4, <2>5 DEF AheadInv, ConvInv, InFlight
    <2>7. CandidatesInv'
        BY <1>1, <1>8 DEF CandidatesInv
    <2>8. SnapshotIsOfItsPrefix'
        BY <1>1, <1>2, <2>2, CachedAside DEF StateInv, SnapshotIsOfItsPrefix
    <2>9. QED
        BY <1>2, <1>3, <2>6, <2>7, <2>8 DEF StateInv
  <1>9. QED
      BY <1>6, <1>7, <1>8

\* The progress a commit counts is that of the request's one row.
LEMMA ProgressMeans ==
  ASSUME StateInv, pc # "idle", Progress(batch.fb), NEW r \in Reqs
  PROVE  /\ \A i \in RealRows(batch.fb) : InFlight(r, i) =>
              LET reach == done[r] + Length(batch.fb, i)
              IN /\ done'[r] = reach
                 /\ tracked'[r] = IF Boundary(reach) > done[r] THEN Boundary(reach) ELSE tracked[r]
         /\ (\A i \in RealRows(batch.fb) : ~InFlight(r, i)) =>
              done'[r] = done[r] /\ tracked'[r] = tracked[r]
  <1> DEFINE fb == batch.fb
  <1> DEFINE rowOf(x) == {i \in RealRows(fb) : fb.reqs[i] = x}
  <1> DEFINE row(x) == CHOOSE i \in rowOf(x) : TRUE
  <1> DEFINE reach(x) == done[x] + Length(fb, row(x))
  <1>1. /\ done' = [x \in Reqs |-> IF rowOf(x) # {} THEN reach(x) ELSE done[x]]
        /\ tracked' = [x \in Reqs |->
             IF rowOf(x) # {} /\ Boundary(reach(x)) > done[x]
             THEN Boundary(reach(x)) ELSE tracked[x]]
      BY Zenon DEF Progress
  <1>2. ASSUME NEW i \in RealRows(fb), InFlight(r, i) PROVE rowOf(r) # {} /\ row(r) = i
    <2>1. i \in rowOf(r)
        BY <1>2 DEF InFlight
    <2>2. \A j \in rowOf(r) : j \in RealRows(fb) /\ InFlight(r, j)
        BY DEF InFlight
    <2>3. \A j \in rowOf(r) : j = i
        BY <1>2, <2>2, OneRowEach
    <2>4. QED
        BY <2>1, <2>3
  <1>3. (\A i \in RealRows(fb) : ~InFlight(r, i)) => rowOf(r) = {}
      BY DEF InFlight
  <1>4. ASSUME NEW i \in RealRows(fb), InFlight(r, i)
        PROVE  /\ done'[r] = done[r] + Length(fb, i)
               /\ tracked'[r] = IF Boundary(done[r] + Length(fb, i)) > done[r]
                                THEN Boundary(done[r] + Length(fb, i)) ELSE tracked[r]
    <2>1. rowOf(r) # {} /\ reach(r) = done[r] + Length(fb, i)
        BY <1>2, <1>4
    <2> HIDE DEF rowOf, reach
    <2>2. QED
        BY <1>1, <2>1
  <1>5. ASSUME \A i \in RealRows(fb) : ~InFlight(r, i)
        PROVE  done'[r] = done[r] /\ tracked'[r] = tracked[r]
    <2>1. ~(rowOf(r) # {})
        BY <1>3, <1>5
    <2> HIDE DEF rowOf, reach
    <2>2. QED
        BY <1>1, <2>1
  <1>6. QED
      BY <1>4, <1>5

LEMMA CommitMeans ==
  ASSUME IInv, StateInv, Commit
  PROVE  StateInv'
  <1>1. pc = "commit" /\ UNCHANGED <<conv, convSteps, slotOf, trackOf, text, snap>>
      BY DEF Commit
  <1>2. Live' = Live /\ Cached' = Cached
      BY <1>1 DEF Live, Cached
  <1>3. CASE ProcessedTokens(batch.fb) = 0
    <2>1. pc' = "idle" /\ UNCHANGED <<ngram, done, tracked>>
        BY <1>3 DEF Commit
    <2>2. ~ConvAhead /\ ~ConvAhead'
        BY <1>3, <2>1 DEF ConvAhead
    <2>3. QED
        BY <1>1, <1>2, <2>1, <2>2 DEF StateInv, OwnersDistinct, FlightInv, NgramInv, ConvInv,
           AheadInv, SnapshotIsOfItsPrefix
  <1>4. CASE ProcessedTokens(batch.fb) # 0 /\ IsVerify(batch.fb)
    <2>1. /\ pc' = "verified" /\ UNCHANGED <<ngram, batch, done, tracked>>
          /\ ngramSteps' = Steps(batch, NgramAt, [k \in 0 .. ContextLen - 1 |-> Eos])
        BY <1>4 DEF Commit
    <2>2. ~ConvAhead /\ ~ConvAhead'
        BY <1>4, <2>1 DEF ConvAhead
    <2>3. OwnersDistinct' /\ FlightInv'
        BY <1>1, <2>1, InFlightKept
    <2>4. NgramInv' /\ ConvInv' /\ AheadInv' /\ SnapshotIsOfItsPrefix'
        BY <1>1, <1>2, <2>1, <2>2 DEF StateInv, NgramInv, ConvInv, AheadInv, SnapshotIsOfItsPrefix
    <2>5. ASSUME NEW i \in RealRows(batch.fb), NEW j \in 0 .. Known(batch.fb, i) - 1,
                 NEW q, q = batch.fb.reqs[i]
          PROVE  /\ convSteps[i][j] = ConvOf(text[q], done[q] + j + 1)
                 /\ ngramSteps'[i][j] = NgramOf(text[q], done[q] + j + 1)
      <3>1. /\ i \in Rows(batch.fb) /\ j \in Columns(batch.fb) /\ j < Length(batch.fb, i)
            /\ NgramAt(batch, i, j + 1) = NgramOf(text[q], done[q] + j + 1)
          BY <1>1, <1>4, <2>2, <2>5, CandidateMeans
      <3>2. ngramSteps'[i][j] = NgramAt(batch, i, j + 1)
          BY <2>1, <3>1 DEF Steps
      <3>3. convSteps[i][j] = ConvOf(text[q], done[q] + j + 1)
          BY <1>1, <1>4, <2>5 DEF StateInv, CandidatesInv
      <3>4. QED
          BY <3>1, <3>2, <3>3
    <2>6. CandidatesInv'
      <3>1. pc' = "verified" /\ UNCHANGED <<batch, text, done, convSteps>>
          BY <1>1, <2>1
      <3>2. \A i \in RealRows(batch.fb) : \A j \in 0 .. Known(batch.fb, i) - 1 :
              /\ convSteps[i][j] = ConvOf(text[batch.fb.reqs[i]], done[batch.fb.reqs[i]] + j + 1)
              /\ ngramSteps'[i][j] = NgramOf(text[batch.fb.reqs[i]], done[batch.fb.reqs[i]] + j + 1)
          BY <2>5
      <3>3. QED
          BY ONLY <3>1, <3>2 DEF CandidatesInv
    <2>7. QED
        BY <2>3, <2>4, <2>6 DEF StateInv
  <1>5. CASE ProcessedTokens(batch.fb) # 0 /\ ~IsVerify(batch.fb)
    <2>1. /\ pc' = "idle" /\ Progress(batch.fb) /\ ngram' \in Advance(ngram, batch, NgramAt)
        BY <1>5 DEF Commit
    <2>2. ConvAhead /\ ~ConvAhead'
        BY <1>1, <1>5, <2>1 DEF ConvAhead
    <2>3. /\ \A i \in RealRows(batch.fb) : Reaches(ngram, ngram', i, NgramOf)
          /\ \A s \in Slots \ OwnSlots(batch.fb) : ngram'[s] = ngram[s]
        BY <1>1, <1>5, <2>1, NgramAdvances
    <2>4. ASSUME NEW r \in Live
          PROVE  /\ ngram'[slotOf[r]] = NgramOf(text[r], done'[r])
                 /\ tracked'[r] # 0 => ngram'[trackOf[r]] = NgramOf(text[r], tracked'[r])
                 /\ conv[slotOf[r]] = ConvOf(text[r], done'[r])
                 /\ tracked'[r] # 0 => conv[trackOf[r]] = ConvOf(text[r], tracked'[r])
      <3>1. r \in Reqs
          BY DEF Live
      <3>2. /\ ngram[slotOf[r]] = NgramOf(text[r], done[r])
            /\ tracked[r] # 0 => ngram[trackOf[r]] = NgramOf(text[r], tracked[r])
          BY DEF StateInv, NgramInv
      <3>3. CASE \A i \in RealRows(batch.fb) : ~InFlight(r, i)
        <4>1. done'[r] = done[r] /\ tracked'[r] = tracked[r]
            BY <1>1, <2>1, <3>1, <3>3, ProgressMeans
        <4>2. ngram'[slotOf[r]] = ngram[slotOf[r]] /\ ngram'[trackOf[r]] = ngram[trackOf[r]]
            BY <1>1, <2>3, <3>3, Bystander
        <4>3. /\ conv[slotOf[r]] = ConvOf(text[r], done[r])
              /\ tracked[r] # 0 => conv[trackOf[r]] = ConvOf(text[r], tracked[r])
            BY <2>2, <3>3 DEF StateInv, AheadInv
        <4>4. QED
            BY <3>2, <4>1, <4>2, <4>3
      <3>4. CASE \E i \in RealRows(batch.fb) : InFlight(r, i)
        <4>1. PICK i \in RealRows(batch.fb) : InFlight(r, i)
            BY <3>4
        <4> DEFINE reach == done[r] + Length(batch.fb, i)
        <4>2. /\ done'[r] = reach
              /\ tracked'[r] = IF Boundary(reach) > done[r] THEN Boundary(reach) ELSE tracked[r]
            BY <1>1, <2>1, <3>1, <4>1, ProgressMeans
        <4>3. /\ conv[slotOf[r]] = ConvOf(text[r], reach)
              /\ Boundary(reach) > done[r] => conv[trackOf[r]] = ConvOf(text[r], Boundary(reach))
              /\ ~(Boundary(reach) > done[r]) /\ tracked[r] # 0 =>
                    conv[trackOf[r]] = ConvOf(text[r], tracked[r])
            BY <2>2, <4>1 DEF StateInv, AheadInv
        <4>4. /\ ngram'[slotOf[r]] = NgramOf(text[r], reach)
              /\ Boundary(reach) > done[r] => ngram'[trackOf[r]] = NgramOf(text[r], Boundary(reach))
              /\ ~(Boundary(reach) > done[r]) => ngram'[trackOf[r]] = ngram[trackOf[r]]
            BY <2>3, <4>1 DEF Reaches, InFlight
        <4> HIDE DEF reach
        <4>5. QED
            BY <3>2, <4>2, <4>3, <4>4
      <3>5. QED
          BY <3>3, <3>4
    <2>5. \A r \in Reqs : tracked'[r] # 0 => r \in Live
      <3>1. ASSUME NEW r \in Reqs, r \notin Live PROVE tracked'[r] = tracked[r]
        <4>1. \A i \in RealRows(batch.fb) : ~InFlight(r, i)
            BY <1>1, <3>1 DEF IInv, BatchInv, InFlight
        <4>2. QED
            BY <1>1, <2>1, <4>1, ProgressMeans
      <3>2. QED
          BY <3>1 DEF StateInv, OwnersDistinct
    <2>6. OwnersDistinct'
        BY <1>1, <1>2, <2>5 DEF StateInv, OwnersDistinct
    <2>7. NgramInv' /\ ConvInv' /\ AheadInv' /\ FlightInv'
        BY <1>1, <1>2, <2>1, <2>2, <2>4 DEF NgramInv, ConvInv, AheadInv, FlightInv
    <2>8. SnapshotIsOfItsPrefix'
        BY <1>1, <1>2, <2>3, CachedAside DEF StateInv, SnapshotIsOfItsPrefix
    <2>9. QED
        BY <2>1, <2>6, <2>7, <2>8 DEF StateInv
  <1>6. QED
      BY <1>3, <1>4, <1>5

LEMMA AcceptMeans ==
  ASSUME IInv, StateInv, Accept
  PROVE  StateInv'
  <1> DEFINE fb == batch.fb
  <1> DEFINE rowOf(s) == {i \in RealRows(fb) : slotOf[fb.reqs[i]] = s}
  <1> DEFINE row(s) == CHOOSE i \in rowOf(s) : TRUE
  <1>1. PICK n \in [RealRows(fb) -> 1 .. DraftTokens] :
          /\ \A i \in RealRows(fb) : n[i] <= fb.good[i]
          /\ ngram' = [s \in Slots |-> IF rowOf(s) # {}
                THEN ngramSteps[row(s)][n[row(s)] - 1] ELSE ngram[s]]
          /\ conv' = [s \in Slots |-> IF rowOf(s) # {}
                THEN convSteps[row(s)][n[row(s)] - 1] ELSE conv[s]]
          /\ done' = [r \in Reqs |-> IF \E i \in RealRows(fb) : fb.reqs[i] = r
                THEN done[r] + n[row(slotOf[r])] ELSE done[r]]
      BY Zenon DEF Accept
  <1>2. /\ pc = "verified" /\ pc' = "idle"
        /\ UNCHANGED <<slotOf, trackOf, text, tracked, snap>>
      BY DEF Accept
  <1>3. Live' = Live /\ Cached' = Cached /\ ~ConvAhead /\ ~ConvAhead' /\ IsVerify(fb)
      BY <1>2 DEF Live, Cached, ConvAhead, IInv, StepsInv
  <1>4. ASSUME NEW i \in RealRows(fb)
        PROVE  /\ fb.reqs[i] \in Live /\ fb.reqs[i] \in Reqs
               /\ slotOf[fb.reqs[i]] # Reserved
    <2>1. fb.reqs[i] \in Live
        BY <1>2 DEF IInv, BatchInv
    <2>2. QED
        BY <2>1 DEF Live
  <1>5. ASSUME NEW r \in Live, NEW i \in RealRows(fb), fb.reqs[i] = r
        PROVE  rowOf(slotOf[r]) # {} /\ row(slotOf[r]) = i
    <2>1. i \in rowOf(slotOf[r])
        BY <1>5
    <2>2. ASSUME NEW j \in rowOf(slotOf[r]) PROVE j = i
      <3>1. j \in RealRows(fb) /\ slotOf[fb.reqs[j]] = slotOf[r]
          OBVIOUS
      <3>2. fb.reqs[j] = r
          BY <1>4, <1>5, <3>1 DEF IInv, SlotsDistinct
      <3>3. QED
          BY <1>2, <1>5, <3>1, <3>2, OneRowEach DEF InFlight
    <2>3. QED
        BY <2>1, <2>2
  <1>6. ASSUME NEW s \in Slots, \A i \in RealRows(fb) : slotOf[fb.reqs[i]] # s
        PROVE  ngram'[s] = ngram[s] /\ conv'[s] = conv[s]
    <2>1. ~(rowOf(s) # {})
        BY <1>6
    <2> HIDE DEF rowOf, row
    <2>2. QED
        BY <1>1, <2>1
  <1>7. ASSUME NEW r \in Live
        PROVE  /\ ngram'[slotOf[r]] = NgramOf(text[r], done'[r])
               /\ conv'[slotOf[r]] = ConvOf(text[r], done'[r])
    <2>1. r \in Reqs /\ slotOf[r] \in Slots /\ slotOf[r] # Reserved
        BY DEF Live, IInv, TypeOK
    <2>2. CASE \E i \in RealRows(fb) : fb.reqs[i] = r
      <3>1. PICK i \in RealRows(fb) : fb.reqs[i] = r
          BY <2>2
      <3>2. rowOf(slotOf[r]) # {} /\ row(slotOf[r]) = i
          BY <1>5, <3>1
      <3>3. /\ ngram'[slotOf[r]] = ngramSteps[i][n[i] - 1]
            /\ conv'[slotOf[r]] = convSteps[i][n[i] - 1]
            /\ done'[r] = done[r] + n[i]
        <4> HIDE DEF rowOf, row
        <4>1. QED
            BY <1>1, <2>1, <2>2, <3>2
      <3>4. n[i] \in Nat \ {0} /\ fb.good[i] \in Nat /\ done[r] \in Nat /\ n[i] <= fb.good[i]
        <4>1. fb.good[i] \in Nat
            BY <1>2, <1>3 DEF IInv, BatchInv, DraftsOK
        <4>2. done[r] \in Nat
            BY <2>1 DEF IInv, TypeOK
        <4>3. n[i] \in 1 .. DraftTokens /\ n[i] <= fb.good[i]
            BY <1>1
        <4>4. QED
            BY <4>1, <4>2, <4>3, HistoryAssumption
      <3>5. n[i] - 1 \in 0 .. Known(fb, i) - 1 /\ done[r] + (n[i] - 1) + 1 = done[r] + n[i]
        <4>1. Known(fb, i) = fb.good[i]
            BY <1>3 DEF Known
        <4>2. \A x \in Nat \ {0}, y, z \in Nat : x <= y => x - 1 \in 0 .. y - 1 /\ z + (x - 1) + 1 = z + x
            OBVIOUS
        <4>3. QED
            BY ONLY <3>4, <4>1, <4>2
      <3>6. /\ convSteps[i][n[i] - 1] = ConvOf(text[r], done[r] + (n[i] - 1) + 1)
            /\ ngramSteps[i][n[i] - 1] = NgramOf(text[r], done[r] + (n[i] - 1) + 1)
          BY <1>2, <3>1, <3>5 DEF StateInv, CandidatesInv
      <3>7. QED
          BY ONLY <3>3, <3>5, <3>6
    <2>3. CASE ~(\E i \in RealRows(fb) : fb.reqs[i] = r)
      <3>1. \A i \in RealRows(fb) : slotOf[fb.reqs[i]] # slotOf[r]
        <4>1. ASSUME NEW i \in RealRows(fb), slotOf[fb.reqs[i]] = slotOf[r] PROVE FALSE
            BY <1>4, <2>1, <2>3, <4>1 DEF IInv, SlotsDistinct
        <4>2. QED
            BY <4>1
      <3>2. ngram'[slotOf[r]] = ngram[slotOf[r]] /\ conv'[slotOf[r]] = conv[slotOf[r]]
          BY <1>6, <2>1, <3>1
      <3>3. done'[r] = done[r]
        <4> HIDE DEF rowOf, row
        <4>1. QED
            BY <1>1, <2>1, <2>3
      <3>4. QED
          BY <1>3, <3>2, <3>3 DEF StateInv, NgramInv, ConvInv
    <2>4. QED
        BY <2>2, <2>3
  <1>8. ASSUME NEW r \in Live
        PROVE  ngram'[trackOf[r]] = ngram[trackOf[r]] /\ conv'[trackOf[r]] = conv[trackOf[r]]
    <2>1. trackOf[r] \in Slots
        BY DEF Live, IInv, TypeOK
    <2>2. \A i \in RealRows(fb) : slotOf[fb.reqs[i]] # trackOf[r]
        BY <1>4 DEF StateInv, OwnersDistinct
    <2>3. QED
        BY <1>6, <2>1, <2>2
  <1>9. ASSUME NEW s \in Cached PROVE ngram'[s] = ngram[s] /\ conv'[s] = conv[s]
    <2>1. s \in Slots
        BY DEF Cached
    <2>2. \A i \in RealRows(fb) : slotOf[fb.reqs[i]] # s
        BY <1>4 DEF StateInv, OwnersDistinct
    <2>3. QED
        BY <1>6, <2>1, <2>2
  <1>10. OwnersDistinct'
      BY <1>2, <1>3 DEF StateInv, OwnersDistinct
  <1>11. NgramInv' /\ ConvInv'
      BY <1>2, <1>3, <1>7, <1>8 DEF StateInv, NgramInv, ConvInv
  <1>12. AheadInv' /\ FlightInv'
      BY <1>2, <1>3 DEF AheadInv, FlightInv
  <1>13. SnapshotIsOfItsPrefix'
      BY <1>2, <1>3, <1>9 DEF StateInv, SnapshotIsOfItsPrefix
  <1>14. QED
      BY <1>2, <1>10, <1>11, <1>12, <1>13 DEF StateInv

\* A request starts with the states of the prefix it starts from.
LEMMA StartMeans ==
  ASSUME IInv, StateInv, NEW r \in Reqs, NEW t, NEW n, NEW history, NEW state,
         history = NgramOf(t, n), state = ConvOf(t, n), Start(r, t, n, history, state)
  PROVE  StateInv'
  <1>1. PICK working \in Free, track \in Free :
          /\ working # track
          /\ slotOf' = [slotOf EXCEPT ![r] = working]
          /\ trackOf' = [trackOf EXCEPT ![r] = track]
          /\ ngram' = [ngram EXCEPT ![working] = history]
          /\ conv' = [conv EXCEPT ![working] = state]
      BY DEF Start
  <1>2. /\ pc = "idle" /\ pc' = "idle" /\ slotOf[r] = Reserved
        /\ text' = [text EXCEPT ![r] = t] /\ done' = [done EXCEPT ![r] = n]
        /\ tracked' = tracked /\ snap' = snap
      BY DEF Start
  <1>3. /\ working \in Slots /\ track \in Slots /\ working # Reserved /\ track # Reserved
        /\ working \notin Cached /\ track \notin Cached
        /\ \A q \in Reqs : /\ slotOf[q] # working /\ slotOf[q] # track
                           /\ trackOf[q] # working /\ trackOf[q] # track
      BY DEF Free
  <1>4. r \notin Live /\ tracked[r] = 0 /\ ~ConvAhead /\ ~ConvAhead' /\ Cached' = Cached
      BY <1>2 DEF Live, StateInv, OwnersDistinct, ConvAhead, Cached
  <1>5. /\ slotOf'[r] = working /\ trackOf'[r] = track /\ text'[r] = t /\ done'[r] = n
        /\ ngram'[working] = history /\ conv'[working] = state
        /\ \A q \in Reqs \ {r} : /\ slotOf'[q] = slotOf[q] /\ trackOf'[q] = trackOf[q]
                                 /\ text'[q] = text[q] /\ done'[q] = done[q]
        /\ \A s \in Slots \ {working} : ngram'[s] = ngram[s] /\ conv'[s] = conv[s]
      BY <1>1, <1>2, <1>3 DEF IInv, TypeOK
  <1>6. Live \subseteq Reqs \ {r} /\ Live' = Live \union {r}
      BY <1>3, <1>4, <1>5 DEF Live
  <1>7. \A q \in Live : slotOf[q] \in Slots \ {working} /\ trackOf[q] \in Slots \ {working}
      BY <1>3, <1>6 DEF IInv, TypeOK
  <1>8. OwnersDistinct'
    <2>1. (\A q \in Reqs : q \in Live <=> trackOf[q] # Reserved)'
        BY <1>3, <1>5, <1>6 DEF StateInv, OwnersDistinct
    <2>2. (\A p, q \in Live : slotOf[p] # trackOf[q] /\ (trackOf[p] = trackOf[q] => p = q))'
      <3>1. ASSUME NEW p \in Live', NEW q \in Live'
            PROVE  slotOf'[p] # trackOf'[q] /\ (trackOf'[p] = trackOf'[q] => p = q)
        <4>1. p \in Reqs /\ q \in Reqs /\ (p = r \/ p \in Live) /\ (q = r \/ q \in Live)
            BY <1>6
        <4>2. CASE p \in Live /\ q \in Live
            BY <1>5, <1>6, <4>2 DEF StateInv, OwnersDistinct
        <4>3. CASE p = r /\ q \in Live
            BY <1>3, <1>5, <1>6, <4>1, <4>3
        <4>4. CASE p \in Live /\ q = r
            BY <1>3, <1>5, <1>6, <4>1, <4>4
        <4>5. CASE p = r /\ q = r
            BY <1>1, <1>5, <4>5
        <4>6. QED
            BY <4>1, <4>2, <4>3, <4>4, <4>5
      <3>2. QED
          BY <3>1
    <2>3. (\A s \in Cached : s # Reserved /\ \A q \in Live : s # slotOf[q] /\ s # trackOf[q])'
        BY <1>3, <1>4, <1>5, <1>6 DEF StateInv, OwnersDistinct
    <2>4. (\A q \in Reqs : tracked[q] # 0 => q \in Live)'
        BY <1>2, <1>6 DEF StateInv, OwnersDistinct
    <2>5. QED
        BY <2>1, <2>2, <2>3, <2>4 DEF OwnersDistinct
  <1>9. NgramInv'
    <2>1. ASSUME NEW q \in Live'
          PROVE  /\ ngram'[slotOf'[q]] = NgramOf(text'[q], done'[q])
                 /\ tracked'[q] # 0 => ngram'[trackOf'[q]] = NgramOf(text'[q], tracked'[q])
      <3>1. CASE q = r
          BY <1>2, <1>4, <1>5, <3>1
      <3>2. CASE q \in Live
          BY <1>2, <1>5, <1>6, <1>7, <3>2 DEF StateInv, NgramInv
      <3>3. QED
          BY <1>6, <3>1, <3>2
    <2>2. QED
        BY <2>1 DEF NgramInv
  <1>10. ConvInv'
    <2>1. ASSUME NEW q \in Live'
          PROVE  /\ conv'[slotOf'[q]] = ConvOf(text'[q], done'[q])
                 /\ tracked'[q] # 0 => conv'[trackOf'[q]] = ConvOf(text'[q], tracked'[q])
      <3>1. CASE q = r
          BY <1>2, <1>4, <1>5, <3>1
      <3>2. CASE q \in Live
          BY <1>2, <1>4, <1>5, <1>6, <1>7, <3>2 DEF StateInv, ConvInv
      <3>3. QED
          BY <1>6, <3>1, <3>2
    <2>2. QED
        BY <2>1 DEF ConvInv
  <1>11. AheadInv' /\ FlightInv'
      BY <1>2, <1>4 DEF AheadInv, FlightInv
  <1>12. SnapshotIsOfItsPrefix'
    <2>1. \A s \in Cached : s \in Slots \ {working}
        BY <1>3 DEF Cached
    <2>2. QED
        BY <1>2, <1>4, <1>5, <2>1 DEF StateInv, SnapshotIsOfItsPrefix
  <1>13. QED
      BY <1>2, <1>8, <1>9, <1>10, <1>11, <1>12 DEF StateInv

LEMMA CacheMeans ==
  ASSUME IInv, StateInv, NEW r \in Reqs, Cache(r)
  PROVE  StateInv'
  <1>1. PICK f \in Free : trackOf' = [trackOf EXCEPT ![r] = f]
      BY DEF Cache
  <1>2. /\ pc = "idle" /\ pc' = "idle" /\ tracked[r] # 0
        /\ snap' = [snap EXCEPT ![trackOf[r]] = <<text[r], tracked[r]>>]
        /\ tracked' = [tracked EXCEPT ![r] = 0]
        /\ ngram' = ngram /\ conv' = conv /\ slotOf' = slotOf /\ text' = text /\ done' = done
      BY DEF Cache, poolVars
  <1> DEFINE c == trackOf[r]
  <1>3. /\ r \in Live /\ c \in Slots /\ c # Reserved /\ ~ConvAhead /\ ~ConvAhead' /\ Live' = Live
      BY <1>2 DEF StateInv, OwnersDistinct, IInv, TypeOK, ConvAhead, Live
  <1>4. /\ f \in Slots /\ f # Reserved /\ f \notin Cached
        /\ \A q \in Reqs : slotOf[q] # f /\ trackOf[q] # f
      BY <1>1 DEF Free
  <1>5. /\ snap'[c] = <<text[r], tracked[r]>> /\ trackOf'[r] = f /\ tracked'[r] = 0
        /\ \A s \in Slots \ {c} : snap'[s] = snap[s]
        /\ \A q \in Reqs \ {r} : trackOf'[q] = trackOf[q] /\ tracked'[q] = tracked[q]
      BY <1>1, <1>2, <1>3 DEF IInv, TypeOK
  <1>6. Live \subseteq Reqs
      BY DEF Live
  <1> HIDE DEF c
  <1>7. Cached' = Cached \union {c}
    <2>1. snap'[c][2] # 0 /\ snap'[c][1] = text[r] /\ snap'[c][2] = tracked[r]
        BY <1>2, <1>5
    <2>2. QED
        BY <1>3, <1>5, <2>1 DEF Cached
  <1>8. OwnersDistinct'
    <2>1. (\A q \in Reqs : q \in Live <=> trackOf[q] # Reserved)'
        BY <1>3, <1>4, <1>5 DEF StateInv, OwnersDistinct
    <2>2. (\A p, q \in Live : slotOf[p] # trackOf[q] /\ (trackOf[p] = trackOf[q] => p = q))'
      <3>1. ASSUME NEW p \in Live, NEW q \in Live
            PROVE  slotOf[p] # trackOf'[q] /\ (trackOf'[p] = trackOf'[q] => p = q)
        <4>1. p \in Reqs /\ q \in Reqs
            BY <1>6
        <4>2. slotOf[p] # trackOf[q] /\ (trackOf[p] = trackOf[q] => p = q)
            BY DEF StateInv, OwnersDistinct
        <4>3. QED
            BY <1>4, <1>5, <4>1, <4>2
      <3>2. QED
          BY <1>2, <1>3, <3>1
    <2>3. (\A s \in Cached : s # Reserved /\ \A q \in Live : s # slotOf[q] /\ s # trackOf[q])'
      <3>1. ASSUME NEW s \in Cached \union {c}, NEW q \in Live
            PROVE  s # Reserved /\ s # slotOf[q] /\ s # trackOf'[q]
        <4>1. q \in Reqs
            BY <1>6
        <4>2. CASE s \in Cached
            BY <1>4, <1>5, <4>1, <4>2 DEF StateInv, OwnersDistinct
        <4>3. CASE s = c
          <5>1. c # slotOf[q] /\ (trackOf[q] = c => q = r)
              BY <1>3 DEF StateInv, OwnersDistinct, c
          <5>2. c # f
              BY <1>4 DEF c
          <5>3. QED
              BY <1>3, <1>5, <4>1, <4>3, <5>1, <5>2
        <4>4. QED
            BY <4>2, <4>3
      <3>2. QED
          BY <1>2, <1>3, <1>7, <3>1
    <2>4. (\A q \in Reqs : tracked[q] # 0 => q \in Live)'
        BY <1>3, <1>5 DEF StateInv, OwnersDistinct
    <2>5. QED
        BY <2>1, <2>2, <2>3, <2>4 DEF OwnersDistinct
  <1>9. NgramInv' /\ ConvInv'
    <2>1. ASSUME NEW q \in Live, tracked'[q] # 0
          PROVE  trackOf'[q] = trackOf[q] /\ tracked'[q] = tracked[q]
        BY <1>5, <1>6, <2>1
    <2>2. QED
        BY <1>2, <1>3, <2>1 DEF StateInv, NgramInv, ConvInv
  <1>10. AheadInv' /\ FlightInv'
      BY <1>2, <1>3 DEF AheadInv, FlightInv
  <1>11. SnapshotIsOfItsPrefix'
    <2>1. ASSUME NEW s \in Cached \union {c}
          PROVE  /\ ngram[s] = NgramOf(snap'[s][1], snap'[s][2])
                 /\ conv[s] = ConvOf(snap'[s][1], snap'[s][2])
      <3>1. CASE s = c
        <4>1. snap'[c][1] = text[r] /\ snap'[c][2] = tracked[r]
            BY <1>5
        <4>2. ngram[c] = NgramOf(text[r], tracked[r]) /\ conv[c] = ConvOf(text[r], tracked[r])
            BY <1>2, <1>3 DEF StateInv, NgramInv, ConvInv, c
        <4>3. QED
            BY ONLY <3>1, <4>1, <4>2
      <3>2. CASE s # c
        <4>1. s \in Cached /\ s \in Slots \ {c}
            BY <3>2 DEF Cached
        <4>2. snap'[s] = snap[s]
            BY <1>5, <4>1
        <4>3. QED
            BY <4>1, <4>2 DEF StateInv, SnapshotIsOfItsPrefix
      <3>3. QED
          BY <3>1, <3>2
    <2>2. QED
        BY <1>2, <1>7, <2>1 DEF SnapshotIsOfItsPrefix
  <1>12. QED
      BY <1>2, <1>8, <1>9, <1>10, <1>11 DEF StateInv

LEMMA FinishMeans ==
  ASSUME IInv, StateInv, NEW r \in Reqs, Finish(r)
  PROVE  StateInv'
  <1>1. /\ pc = "idle" /\ pc' = "idle" /\ r \in Live
        /\ slotOf' = [slotOf EXCEPT ![r] = Reserved]
        /\ trackOf' = [trackOf EXCEPT ![r] = Reserved]
        /\ text' = [text EXCEPT ![r] = AnyText]
        /\ done' = [done EXCEPT ![r] = 0]
        /\ tracked' = [tracked EXCEPT ![r] = 0]
        /\ snap' = snap
      BY DEF Finish
  <1>2. Abandon({slotOf[r], trackOf[r]})
      BY DEF Finish
  <1>3. \A s \in Slots : s # slotOf[r] /\ s # trackOf[r] => ngram'[s] = ngram[s] /\ conv'[s] = conv[s]
      BY <1>2 DEF Abandon
  <1>4. /\ slotOf'[r] = Reserved /\ trackOf'[r] = Reserved /\ tracked'[r] = 0
        /\ \A q \in Reqs \ {r} : /\ slotOf'[q] = slotOf[q] /\ trackOf'[q] = trackOf[q]
                                 /\ text'[q] = text[q] /\ done'[q] = done[q]
                                 /\ tracked'[q] = tracked[q]
      BY <1>1 DEF IInv, TypeOK
  <1>5. Live \subseteq Reqs /\ Live' = Live \ {r} /\ Cached' = Cached /\ ~ConvAhead /\ ~ConvAhead'
      BY <1>1, <1>4 DEF Live, Cached, ConvAhead
  <1>6. \A q \in Live \ {r} :
          /\ slotOf[q] \in Slots /\ trackOf[q] \in Slots
          /\ slotOf[q] # slotOf[r] /\ slotOf[q] # trackOf[r]
          /\ trackOf[q] # slotOf[r] /\ trackOf[q] # trackOf[r]
    <2>1. ASSUME NEW q \in Live \ {r}
          PROVE  /\ slotOf[q] \in Slots /\ trackOf[q] \in Slots
                 /\ slotOf[q] # slotOf[r] /\ slotOf[q] # trackOf[r]
                 /\ trackOf[q] # slotOf[r] /\ trackOf[q] # trackOf[r]
      <3>1. q \in Reqs /\ slotOf[q] # Reserved /\ q # r
          BY DEF Live
      <3>2. slotOf[q] # slotOf[r]
          BY <3>1 DEF IInv, SlotsDistinct
      <3>3. QED
          BY <1>1, <3>1, <3>2 DEF StateInv, OwnersDistinct, IInv, TypeOK
    <2>2. QED
        BY <2>1
  <1>7. OwnersDistinct'
    <2>1. (\A q \in Reqs : q \in Live <=> trackOf[q] # Reserved)'
        BY <1>4, <1>5 DEF StateInv, OwnersDistinct
    <2>2. (\A p, q \in Live : slotOf[p] # trackOf[q] /\ (trackOf[p] = trackOf[q] => p = q))'
        BY <1>4, <1>5 DEF StateInv, OwnersDistinct
    <2>3. (\A s \in Cached : s # Reserved /\ \A q \in Live : s # slotOf[q] /\ s # trackOf[q])'
        BY <1>4, <1>5 DEF StateInv, OwnersDistinct
    <2>4. (\A q \in Reqs : tracked[q] # 0 => q \in Live)'
        BY <1>4, <1>5 DEF StateInv, OwnersDistinct
    <2>5. QED
        BY <2>1, <2>2, <2>3, <2>4 DEF OwnersDistinct
  <1>8. ASSUME NEW q \in Live \ {r}
        PROVE  /\ ngram'[slotOf'[q]] = NgramOf(text'[q], done'[q])
               /\ tracked'[q] # 0 => ngram'[trackOf'[q]] = NgramOf(text'[q], tracked'[q])
               /\ conv'[slotOf'[q]] = ConvOf(text'[q], done'[q])
               /\ tracked'[q] # 0 => conv'[trackOf'[q]] = ConvOf(text'[q], tracked'[q])
    <2>1. /\ slotOf'[q] = slotOf[q] /\ trackOf'[q] = trackOf[q] /\ text'[q] = text[q]
          /\ done'[q] = done[q] /\ tracked'[q] = tracked[q]
        BY <1>4, <1>5
    <2>2. /\ ngram'[slotOf[q]] = ngram[slotOf[q]] /\ ngram'[trackOf[q]] = ngram[trackOf[q]]
          /\ conv'[slotOf[q]] = conv[slotOf[q]] /\ conv'[trackOf[q]] = conv[trackOf[q]]
        BY <1>3, <1>6
    <2>3. /\ ngram[slotOf[q]] = NgramOf(text[q], done[q])
          /\ tracked[q] # 0 => ngram[trackOf[q]] = NgramOf(text[q], tracked[q])
          /\ conv[slotOf[q]] = ConvOf(text[q], done[q])
          /\ tracked[q] # 0 => conv[trackOf[q]] = ConvOf(text[q], tracked[q])
        BY <1>5 DEF StateInv, NgramInv, ConvInv
    <2>4. QED
        BY ONLY <2>1, <2>2, <2>3
  <1>9. NgramInv' /\ ConvInv'
      BY <1>5, <1>8 DEF NgramInv, ConvInv
  <1>10. AheadInv' /\ FlightInv'
      BY <1>1, <1>5 DEF AheadInv, FlightInv
  <1>11. SnapshotIsOfItsPrefix'
    <2>1. \A s \in Cached : s \in Slots /\ s # slotOf[r] /\ s # trackOf[r]
        BY <1>1 DEF Cached, StateInv, OwnersDistinct
    <2>2. QED
        BY <1>1, <1>3, <1>5, <2>1 DEF StateInv, SnapshotIsOfItsPrefix
  <1>12. QED
      BY <1>1, <1>7, <1>9, <1>10, <1>11 DEF StateInv

LEMMA EvictMeans ==
  ASSUME IInv, StateInv, NEW s \in Slots, Evict(s)
  PROVE  StateInv'
  <1>1. /\ pc = "idle" /\ pc' = "idle" /\ s \in Cached /\ Abandon({s})
        /\ snap' = [snap EXCEPT ![s] = <<AnyText, 0>>]
        /\ UNCHANGED <<slotOf, trackOf, text, done, tracked>>
      BY DEF Evict
  <1>2. \A x \in Slots \ {s} : ngram'[x] = ngram[x] /\ conv'[x] = conv[x]
      BY <1>1 DEF Abandon
  <1>3. snap'[s] = <<AnyText, 0>> /\ \A x \in Slots \ {s} : snap'[x] = snap[x]
      BY <1>1 DEF IInv, TypeOK
  <1>4. /\ Cached' = Cached \ {s} /\ Live' = Live /\ ~ConvAhead /\ ~ConvAhead'
      BY <1>1, <1>3 DEF Cached, Live, ConvAhead
  <1>5. \A q \in Live : slotOf[q] \in Slots \ {s} /\ trackOf[q] \in Slots \ {s}
      BY <1>1 DEF StateInv, OwnersDistinct, IInv, TypeOK, Live
  <1>6. OwnersDistinct'
      BY <1>1, <1>4 DEF StateInv, OwnersDistinct
  <1>7. NgramInv' /\ ConvInv'
      BY <1>1, <1>2, <1>4, <1>5 DEF StateInv, NgramInv, ConvInv
  <1>8. AheadInv' /\ FlightInv'
      BY <1>1, <1>4 DEF AheadInv, FlightInv
  <1>9. SnapshotIsOfItsPrefix'
    <2>1. \A x \in Cached : x \in Slots
        BY DEF Cached
    <2>2. QED
        BY <1>2, <1>3, <1>4, <2>1 DEF StateInv, SnapshotIsOfItsPrefix
  <1>10. QED
      BY <1>1, <1>6, <1>7, <1>8, <1>9 DEF StateInv

LEMMA ServerMeans ==
  ASSUME IInv, StateInv, Server
  PROVE  StateInv'
  <1>1. ASSUME NEW r \in Reqs, NEW t \in Texts, Admit(r, t) PROVE StateInv'
      BY <1>1, StartMeans DEF Admit
  <1>2. ASSUME NEW r \in Reqs, NEW t \in Texts, NEW s \in Cached, AdmitCached(r, t, s)
        PROVE  StateInv'
    <2>1. s \in Slots /\ snap[s][2] \in Nat
        BY HistoryAssumption DEF Cached, IInv, TypeOK
    <2>2. /\ \A i \in 1 .. snap[s][2] : t[i] = snap[s][1][i]
          /\ Start(r, t, snap[s][2], ngram[s], conv[s])
        BY <1>2 DEF AdmitCached
    <2>3. /\ ngram[s] = NgramOf(snap[s][1], snap[s][2])
          /\ conv[s] = ConvOf(snap[s][1], snap[s][2])
        BY DEF StateInv, SnapshotIsOfItsPrefix
    <2>4. /\ NgramOf(t, snap[s][2]) = NgramOf(snap[s][1], snap[s][2])
          /\ ConvOf(t, snap[s][2]) = ConvOf(snap[s][1], snap[s][2])
        BY <2>1, <2>2, SamePrefix
    <2>5. QED
        BY <2>2, <2>3, <2>4, StartMeans
  <1>3. QED
      BY <1>1, <1>2, AcceptMeans, CacheMeans, FinishMeans, EvictMeans DEF Server

LEMMA ForwardMeans ==
  ASSUME IInv, StateInv, Forward
  PROVE  StateInv'
  <1>1. TypeOK /\ Cardinality(Live) \in Nat
      BY LiveFinite DEF IInv
  <1>2. CASE pc = "idle" /\ PrepareExtend
    <2>1. PICK n \in 1 .. Cardinality(Live), padding \in 0 .. MaxPadding :
            \E reqs \in [0 .. n - 1 -> Live], lens \in [0 .. n - 1 -> 0 .. MaxChunk] :
            \E start \in [0 .. n -> 0 .. n * MaxChunk] :
            \E cpuLens, counted \in BOOLEAN :
              /\ padding = 0 => counted
              /\ IsCumulativeSum(start, lens, n)
              /\ Distinct(reqs, n)
              /\ \A i \in 0 .. n - 1 : done[reqs[i]] + lens[i] <= MaxLen
              /\ Prepare(ExtendBatch(n, padding, reqs, lens, start, cpuLens, counted))
        BY <1>2 DEF PrepareExtend
    <2>2. PICK reqs \in [0 .. n - 1 -> Live], lens \in [0 .. n - 1 -> 0 .. MaxChunk],
               start \in [0 .. n -> 0 .. n * MaxChunk],
               cpuLens \in BOOLEAN, counted \in BOOLEAN :
            /\ IsCumulativeSum(start, lens, n)
            /\ Distinct(reqs, n)
            /\ \A i \in 0 .. n - 1 : done[reqs[i]] + lens[i] <= MaxLen
            /\ Prepare(ExtendBatch(n, padding, reqs, lens, start, cpuLens, counted))
        BY <2>1
    <2> DEFINE fb == ExtendBatch(n, padding, reqs, lens, start, cpuLens, counted)
    <2>3. n \in Nat \ {0} /\ start \in [0 .. n -> Nat]
        BY <1>1
    <2>4. LayoutOK(fb)
        BY <1>1, <2>2, <2>3, ExtendLayout DEF Distinct
    <2>5. BatchMeans(fb, text, done)
        BY <1>1, <2>2, <2>3, ExtendMeans
    <2>6. Prepare(fb)
        BY <2>2
    <2> HIDE DEF fb
    <2>7. QED
        BY <1>2, <2>4, <2>5, <2>6, PrepareMeans
  <1>3. CASE pc = "idle" /\ PrepareDecode
    <2>1. PICK n \in 1 .. Cardinality(Live), padding \in 0 .. MaxPadding :
            \E reqs \in [0 .. n - 1 -> Live] :
            \E fused, counted \in BOOLEAN :
              /\ Distinct(reqs, n)
              /\ \A i \in 0 .. n - 1 : done[reqs[i]] + 1 <= MaxLen
              /\ Prepare(DecodeBatch(n, padding, reqs, fused, counted))
        BY <1>3 DEF PrepareDecode
    <2>2. PICK reqs \in [0 .. n - 1 -> Live], fused \in BOOLEAN, counted \in BOOLEAN :
            /\ Distinct(reqs, n)
            /\ \A i \in 0 .. n - 1 : done[reqs[i]] + 1 <= MaxLen
            /\ Prepare(DecodeBatch(n, padding, reqs, fused, counted))
        BY <2>1
    <2> DEFINE fb == DecodeBatch(n, padding, reqs, fused, counted)
    <2>3. n \in Nat \ {0}
        BY <1>1
    <2>4. LayoutOK(fb)
        BY <1>1, <2>2, <2>3, DecodeLayout DEF Distinct
    <2>5. BatchMeans(fb, text, done)
        BY <1>1, <2>2, <2>3, DecodeMeans
    <2>6. Prepare(fb)
        BY <2>2
    <2> HIDE DEF fb
    <2>7. QED
        BY <1>3, <2>4, <2>5, <2>6, PrepareMeans
  <1>4. CASE pc = "idle" /\ PrepareVerify
    <2>1. PICK n \in 1 .. Cardinality(Live), padding \in 0 .. MaxPadding :
            \E reqs \in [0 .. n - 1 -> Live] :
            \E good, short \in [0 .. n - 1 -> 1 .. DraftTokens] :
            \E rewritten, gpuLens, counted, padLen \in BOOLEAN :
              /\ padding = 0 => counted
              /\ counted \/ rewritten \/ ~gpuLens => padLen
              /\ rewritten => gpuLens
              /\ Distinct(reqs, n)
              /\ \A i \in 0 .. n - 1 :
                   /\ done[reqs[i]] + good[i] <= MaxLen
                   /\ good[i] <= short[i]
                   /\ (gpuLens /\ ~rewritten) \/ short[i] = DraftTokens
              /\ Prepare(VerifyBatch(n, padding, reqs, good, short, rewritten, gpuLens,
                                     counted, padLen))
        BY <1>4 DEF PrepareVerify
    <2>2. PICK reqs \in [0 .. n - 1 -> Live], good \in [0 .. n - 1 -> 1 .. DraftTokens],
               short \in [0 .. n - 1 -> 1 .. DraftTokens] :
            \E rewritten, gpuLens, counted, padLen \in BOOLEAN :
              /\ padding = 0 => counted
              /\ counted \/ rewritten \/ ~gpuLens => padLen
              /\ rewritten => gpuLens
              /\ Distinct(reqs, n)
              /\ \A i \in 0 .. n - 1 :
                   /\ done[reqs[i]] + good[i] <= MaxLen
                   /\ good[i] <= short[i]
                   /\ (gpuLens /\ ~rewritten) \/ short[i] = DraftTokens
              /\ Prepare(VerifyBatch(n, padding, reqs, good, short, rewritten, gpuLens,
                                     counted, padLen))
        BY <2>1
    <2>3. PICK rewritten \in BOOLEAN, gpuLens \in BOOLEAN, counted \in BOOLEAN,
               padLen \in BOOLEAN :
            /\ Distinct(reqs, n)
            /\ \A i \in 0 .. n - 1 :
                 /\ done[reqs[i]] + good[i] <= MaxLen
                 /\ good[i] <= short[i]
                 /\ (gpuLens /\ ~rewritten) \/ short[i] = DraftTokens
            /\ Prepare(VerifyBatch(n, padding, reqs, good, short, rewritten, gpuLens,
                                   counted, padLen))
        BY <2>2
    <2> DEFINE fb == VerifyBatch(n, padding, reqs, good, short, rewritten, gpuLens, counted, padLen)
    <2>4. n \in Nat \ {0}
        BY <1>1
    <2>5. \A i, j \in 0 .. n - 1 : reqs[i] = reqs[j] => i = j
        BY <2>3 DEF Distinct
    <2>6. \A i \in 0 .. n - 1 : done[reqs[i]] + good[i] <= MaxLen
        BY <2>3
    <2>7. LayoutOK(fb)
        BY ONLY <1>1, <2>4, <2>5, <2>6, VerifyLayout
    <2>8. BatchMeans(fb, text, done)
      <3>1. /\ Distinct(reqs, n)
            /\ \A i \in 0 .. n - 1 : /\ good[i] <= short[i]
                                     /\ (gpuLens /\ ~rewritten) \/ short[i] = DraftTokens
          BY <2>3
      <3>2. fb = VerifyBatch(n, padding, reqs, good, short, rewritten, gpuLens, counted, padLen)
          OBVIOUS
      <3>3. TypeOK
          BY <1>1
      <3> HIDE DEF fb
      <3>4. QED
          BY ONLY <2>4, <3>1, <3>2, <3>3, VerifyMeans
    <2>9. Prepare(fb)
        BY <2>3
    <2> HIDE DEF fb
    <2>10. QED
        BY <1>4, <2>7, <2>8, <2>9, PrepareMeans
  <1>5. QED
      BY <1>2, <1>3, <1>4, ShortConvMeans, CommitMeans DEF Forward

LEMMA StepMeans == IInv /\ StateInv /\ [Next]_vars => StateInv'
  <1> SUFFICES ASSUME IInv, StateInv, [Next]_vars PROVE StateInv'
      OBVIOUS
  <1>1. CASE UNCHANGED vars
    <2>1. UNCHANGED <<pc, ngram, conv, ngramSteps, convSteps, batch, slotOf, trackOf, text,
                      done, tracked, snap>>
        BY <1>1 DEF vars, poolVars, stepVars, reqVars
    <2>2. Live' = Live /\ Cached' = Cached /\ ConvAhead' = ConvAhead
        BY <2>1 DEF Live, Cached, ConvAhead
    <2>3. OwnersDistinct' /\ FlightInv' /\ NgramInv'
        BY <2>1, <2>2 DEF StateInv, OwnersDistinct, FlightInv, NgramInv
    <2>4. ConvInv' /\ AheadInv'
        BY <2>1, <2>2 DEF StateInv, ConvInv, AheadInv, InFlight
    <2>5. (pc # "idle" => CandidatesInv)' /\ SnapshotIsOfItsPrefix'
        BY <2>1, <2>2 DEF StateInv, CandidatesInv, SnapshotIsOfItsPrefix
    <2>6. QED
        BY <2>3, <2>4, <2>5 DEF StateInv
  <1>2. QED
      BY <1>1, ForwardMeans, ServerMeans DEF Next

LEMMA StateInductive == Spec => [](IInv /\ StateInv)
  <1>1. IInv /\ StateInv /\ [Next]_vars => IInv' /\ StateInv'
      BY StepPreserves, StepMeans
  <1>2. QED
      BY <1>1, InitEstablishes, InitMeans, PTL DEF Spec

-----------------------------------------------------------------------------
\* Between forwards the two states of every live request are those of the text it
\* has consumed, for any slots, requests, tokens, padding and window lengths:
\* _prepare_ple_batch, _short_conv and _commit_ple_batch lose, repeat and mix nothing.
THEOREM StateFollowsText == Spec => []StateIsOfConsumedText
  <1>1. StateInv => StateIsOfConsumedText
      BY DEF StateInv, NgramInv, ConvInv, ConvAhead, StateIsOfConsumedText
  <1>2. QED
      BY <1>1, StateInductive, PTL

\* A slot of the radix cache holds the states of the prefix it is filed under,
\* whatever was chunked, verified, evicted and reused before.
THEOREM SnapshotsArePrefixes == Spec => []SnapshotIsOfItsPrefix
  <1>1. StateInv => SnapshotIsOfItsPrefix
      BY DEF StateInv
  <1>2. QED
      BY <1>1, StateInductive, PTL

\* The history a layer hashes for a token is that token's own predecessors, across
\* the seam between the stored history and this forward's tokens.
THEOREM HistoryIsTrue == Spec => []LayerReadsTrueHistory
  <1>1. ASSUME IInv, StateInv, pc \in {"layers", "commit"},
               NEW i \in RealRows(batch.fb), Length(batch.fb, i) > 0,
               NEW q, q = batch.fb.reqs[i], NEW n \in 0 .. Known(batch.fb, i)
        PROVE  NgramAt(batch, i, n) = NgramOf(text[q], done[q] + n)
    <2> DEFINE m == Known(batch.fb, i)
    <2>1. pc # "idle" /\ i \in Rows(batch.fb) /\ q \in Reqs
        BY <1>1 DEF RealRows, IInv, BatchInv, RowsOK
    <2>2. done[q] \in Nat /\ Length(batch.fb, i) \in Nat
        BY <1>1, <2>1 DEF IInv, TypeOK, BatchInv, RowsOK
    <2>3. RowMeans(batch.fb, i, text[q], done[q]) /\ batch.history[i] = NgramOf(text[q], done[q])
        BY <1>1, <2>1 DEF StateInv, FlightInv, BatchMeans
    <2>4. m \in Nat /\ NgramRow(batch, i, text[q], done[q], m)
        BY <2>2, <2>3 DEF RowMeans, NgramRow
    <2> HIDE DEF m
    <2>5. n \in 0 .. m
        BY <1>1 DEF m
    <2>6. QED
        BY ONLY <2>2, <2>4, <2>5, NgramMoves
  <1>2. IInv /\ StateInv => LayerReadsTrueHistory
      BY <1>1 DEF LayerReadsTrueHistory, Known
  <1>3. QED
      BY <1>2, StateInductive, PTL
=============================================================================
