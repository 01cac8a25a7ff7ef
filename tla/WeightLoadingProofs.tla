-------------------------- MODULE WeightLoadingProofs --------------------------
(***************************************************************************)
(* The layers that a configuration gave their methods, for any shapes,     *)
(* ranks and checkpoints: what loading, padding, reordering and slicing    *)
(* leave of a layer is read by its kernel row by row with its own scales.  *)
(***************************************************************************)
EXTENDS WeightLoading, SequenceTheorems, FiniteSetTheorems, WellFoundedInduction, TLAPS

-----------------------------------------------------------------------------
(* Division.                                                               *)

LEMMA Divided ==
  ASSUME NEW d \in Nat \ {0}, NEW i \in Nat, NEW o \in 0 .. d - 1
  PROVE  (i * d + o) \div d = i /\ (i * d + o) % d = o
  OBVIOUS

LEMMA Division ==
  ASSUME NEW d \in Nat \ {0}, NEW a \in Nat
  PROVE  /\ a \div d \in Nat /\ a % d \in 0 .. d - 1 /\ a = (a \div d) * d + (a % d)
         /\ (a \div d) * d <= a /\ a < (a \div d) * d + d
  OBVIOUS

-----------------------------------------------------------------------------
(* The rows of w13 of an expert layer.                                     *)

RowSet == [half : {"gate", "up"}, i : Nat, by : Nat]
Other(h) == IF h = "gate" THEN "up" ELSE "gate"

\* The half the kernel takes first, and the one the loader puts first.
TakesFirst(l) == IF KernelUpFirst(l) THEN "up" ELSE "gate"
PutsFirst(l) == IF LoadedUpFirst(l) THEN "up" ELSE "gate"

\* The rows of one half, and of two halves one after the other.
OneHalf(rows, n) ==
    /\ rows \in Seq(RowSet) /\ Len(rows) = n
    /\ \A i \in 0 .. n - 1 : rows[i + 1] = Row("up", i, 2)

TwoHalves(l, rows, h, n) ==
    /\ rows \in Seq(RowSet) /\ Len(rows) = 2 * n
    /\ \A i \in 0 .. n - 1 :
         /\ rows[i + 1] = Row(h, i, ShardScale(l, h))
         /\ rows[n + i + 1] = Row(Other(h), i, ShardScale(l, Other(h)))

Alternating(l, rows, n) ==
    /\ rows \in Seq(RowSet) /\ Len(rows) = 2 * n
    /\ \A i \in 0 .. n - 1 :
         /\ rows[2 * i + 1] = Row("gate", i, ShardScale(l, "gate"))
         /\ rows[2 * i + 2] = Row("up", i, ShardScale(l, "up"))

LEMMA HalfRowsAre ==
  ASSUME NEW l, l.inner \in Nat, NEW h \in {"gate", "up"}
  PROVE  /\ HalfRows(l, h) \in Seq(RowSet) /\ Len(HalfRows(l, h)) = l.inner
         /\ \A k \in 1 .. l.inner : HalfRows(l, h)[k] = Row(h, k - 1, ShardScale(l, h))
  <1> DEFINE n == l.inner
  <1>1. \A k \in 1 .. n : Row(h, k - 1, ShardScale(l, h)) \in RowSet
      BY DEF RowSet, Row, ShardScale
  <1>2. HalfRows(l, h) \in [1 .. n -> RowSet]
      BY <1>1 DEF HalfRows
  <1>3. HalfRows(l, h) \in Seq(RowSet)
      BY <1>2 DEF Seq
  <1> QED
      BY <1>2, <1>3 DEF HalfRows

LEMMA LoadedSingle ==
  ASSUME NEW l, l.inner \in Nat, ~ l.gated
  PROVE  OneHalf(LoadedRows(l), l.inner)
  <1>1. LoadedRows(l) = HalfRows(l, "up")
      BY DEF LoadedRows
  <1>2. \A i \in 0 .. l.inner - 1 : i + 1 \in 1 .. l.inner /\ (i + 1) - 1 = i
      OBVIOUS
  <1> QED
      BY <1>1, <1>2, HalfRowsAre DEF OneHalf, ShardScale

LEMMA LoadedHalves ==
  ASSUME NEW l, l.inner \in Nat, l.gated, ~ l.interleaved
  PROVE  TwoHalves(l, LoadedRows(l), PutsFirst(l), l.inner)
  <1> DEFINE n == l.inner  h == PutsFirst(l)
             s == HalfRows(l, h)  t == HalfRows(l, Other(h))
  <1>1. LoadedRows(l) = s \o t
      BY DEF LoadedRows, PutsFirst, Other
  <1>2. h \in {"gate", "up"} /\ Other(h) \in {"gate", "up"}
      BY DEF PutsFirst, Other
  <1>3. /\ s \in Seq(RowSet) /\ Len(s) = n /\ \A k \in 1 .. n : s[k] = Row(h, k - 1, ShardScale(l, h))
        /\ t \in Seq(RowSet) /\ Len(t) = n
        /\ \A k \in 1 .. n : t[k] = Row(Other(h), k - 1, ShardScale(l, Other(h)))
      BY <1>2, HalfRowsAre
  <1> HIDE DEF s, t, h
  <1>4. /\ s \o t \in Seq(RowSet) /\ Len(s \o t) = 2 * n
        /\ \A k \in 1 .. 2 * n : (s \o t)[k] = IF k <= n THEN s[k] ELSE t[k - n]
    <2>1. /\ s \o t \in Seq(RowSet) /\ Len(s \o t) = Len(s) + Len(t)
          /\ \A k \in 1 .. Len(s) + Len(t) : (s \o t)[k] = IF k <= Len(s) THEN s[k] ELSE t[k - Len(s)]
        BY <1>3, ConcatProperties
    <2> QED
        BY <2>1, <1>3
  <1>5. ASSUME NEW i \in 0 .. n - 1
        PROVE  /\ (s \o t)[i + 1] = Row(h, i, ShardScale(l, h))
               /\ (s \o t)[n + i + 1] = Row(Other(h), i, ShardScale(l, Other(h)))
    <2>1. /\ i + 1 \in 1 .. 2 * n /\ i + 1 <= n /\ i + 1 \in 1 .. n /\ (i + 1) - 1 = i
          /\ n + i + 1 \in 1 .. 2 * n /\ ~ (n + i + 1 <= n) /\ (n + i + 1) - n = i + 1
        OBVIOUS
    <2> QED
        BY <1>3, <1>4, <2>1
  <1> QED
      BY <1>1, <1>4, <1>5 DEF TwoHalves, h

LEMMA LoadedAlternating ==
  ASSUME NEW l, l.inner \in Nat, l.gated, l.interleaved
  PROVE  Alternating(l, LoadedRows(l), l.inner)
  <1> DEFINE n == l.inner  s == LoadedRows(l)
             g == HalfRows(l, "gate")  u == HalfRows(l, "up")
             a == ShardScale(l, "gate")  b == ShardScale(l, "up")
  <1>1. s = [k \in 1 .. 2 * n |-> IF k % 2 = 1 THEN g[(k + 1) \div 2] ELSE u[k \div 2]]
      BY DEF LoadedRows
  <1>2. /\ g \in Seq(RowSet) /\ Len(g) = n /\ \A k \in 1 .. n : g[k] = Row("gate", k - 1, a)
        /\ u \in Seq(RowSet) /\ Len(u) = n /\ \A k \in 1 .. n : u[k] = Row("up", k - 1, b)
      BY HalfRowsAre
  <1> HIDE DEF s, g, u, a, b
  <1>3. \A k \in 1 .. 2 * n : IF k % 2 = 1 THEN (k + 1) \div 2 \in 1 .. n ELSE k \div 2 \in 1 .. n
      OBVIOUS
  <1>4. \A k \in 1 .. n : g[k] \in RowSet /\ u[k] \in RowSet
      BY <1>2, ElementOfSeq
  <1>5. s \in [1 .. 2 * n -> RowSet]
      BY <1>1, <1>3, <1>4
  <1>6. s \in Seq(RowSet) /\ Len(s) = 2 * n
      BY <1>5 DEF Seq
  <1>7. ASSUME NEW i \in 0 .. n - 1
        PROVE  s[2 * i + 1] = Row("gate", i, a) /\ s[2 * i + 2] = Row("up", i, b)
    <2>1. /\ 2 * i + 1 \in 1 .. 2 * n /\ (2 * i + 1) % 2 = 1 /\ (2 * i + 1 + 1) \div 2 = i + 1
          /\ 2 * i + 2 \in 1 .. 2 * n /\ (2 * i + 2) % 2 # 1 /\ (2 * i + 2) \div 2 = i + 1
          /\ i + 1 \in 1 .. n /\ (i + 1) - 1 = i
        OBVIOUS
    <2> QED
        BY <1>1, <1>2, <2>1
  <1> QED
      BY <1>6, <1>7 DEF Alternating, s, a, b

LEMMA DeinterleavedHalves ==
  ASSUME NEW l, NEW rows, NEW n \in Nat, Alternating(l, rows, n), NEW up \in BOOLEAN
  PROVE  TwoHalves(l, DeinterleaveW13(rows, up), IF up THEN "up" ELSE "gate", n)
  <1> DEFINE s == DeinterleaveW13(rows, up)  a == ShardScale(l, "gate")  b == ShardScale(l, "up")
  <1>1. rows \in Seq(RowSet) /\ Len(rows) = 2 * n /\ DOMAIN rows = 1 .. 2 * n /\ (2 * n) \div 2 = n
      BY DEF Alternating
  <1>2. s = [k \in 1 .. 2 * n |->
               IF up THEN (IF k <= n THEN rows[2 * k] ELSE rows[2 * (k - n) - 1])
                     ELSE (IF k <= n THEN rows[2 * k - 1] ELSE rows[2 * (k - n)])]
      BY <1>1 DEF DeinterleaveW13
  <1>3. \A k \in 1 .. 2 * n :
          IF k <= n THEN 2 * k \in 1 .. 2 * n /\ 2 * k - 1 \in 1 .. 2 * n
                    ELSE 2 * (k - n) - 1 \in 1 .. 2 * n /\ 2 * (k - n) \in 1 .. 2 * n
      OBVIOUS
  <1> HIDE DEF s
  <1>4. \A k \in 1 .. 2 * n : rows[k] \in RowSet
      BY <1>1, ElementOfSeq
  <1>5. s \in [1 .. 2 * n -> RowSet]
      BY <1>2, <1>3, <1>4
  <1>6. s \in Seq(RowSet) /\ Len(s) = 2 * n
      BY <1>5 DEF Seq
  <1>7. ASSUME NEW i \in 0 .. n - 1
        PROVE  /\ s[i + 1] = IF up THEN Row("up", i, b) ELSE Row("gate", i, a)
               /\ s[n + i + 1] = IF up THEN Row("gate", i, a) ELSE Row("up", i, b)
    <2>1. /\ i + 1 \in 1 .. 2 * n /\ i + 1 <= n /\ 2 * (i + 1) = 2 * i + 2 /\ 2 * (i + 1) - 1 = 2 * i + 1
          /\ n + i + 1 \in 1 .. 2 * n /\ ~ (n + i + 1 <= n)
          /\ 2 * ((n + i + 1) - n) = 2 * i + 2 /\ 2 * ((n + i + 1) - n) - 1 = 2 * i + 1
        OBVIOUS
    <2>2. rows[2 * i + 1] = Row("gate", i, a) /\ rows[2 * i + 2] = Row("up", i, b)
        BY DEF Alternating
    <2> QED
        BY <1>2, <2>1, <2>2
  <1> QED
      BY <1>6, <1>7 DEF TwoHalves, Other, s

\* Padding behind a sequence.
LEMMA PaddedIs ==
  ASSUME NEW S, NEW s, s \in Seq(S), NEW n \in Nat
  PROVE  /\ Pad(s, n) \in Seq(S \union {Padding}) /\ Len(Pad(s, n)) = Len(s) + n
         /\ \A k \in 1 .. Len(s) + n : Pad(s, n)[k] = IF k <= Len(s) THEN s[k] ELSE Padding
  <1> DEFINE P == S \union {Padding}  p == [i \in 1 .. n |-> Padding]
  <1>1. p \in [1 .. n -> P]
      OBVIOUS
  <1>2. p \in Seq(P) /\ Len(p) = n /\ \A k \in 1 .. n : p[k] = Padding
      BY <1>1 DEF Seq
  <1>3. s \in Seq(P)
      BY SeqDef
  <1> HIDE DEF p, P
  <1>4. /\ s \o p \in Seq(P) /\ Len(s \o p) = Len(s) + Len(p)
        /\ \A k \in 1 .. Len(s) + Len(p) : (s \o p)[k] = IF k <= Len(s) THEN s[k] ELSE p[k - Len(s)]
      BY <1>2, <1>3, ConcatProperties
  <1>5. \A k \in 1 .. Len(s) + n : ~ (k <= Len(s)) => k - Len(s) \in 1 .. n
      BY LenProperties
  <1>6. Pad(s, n) = s \o p
      BY DEF Pad, p
  <1> QED
      BY <1>2, <1>4, <1>5, <1>6 DEF P

-----------------------------------------------------------------------------
(* What the kernel finds.                                                  *)

\* The row it takes, of n rows, for channel i of half h.
TakenRow(l, n, h, i) ==
    LET second == l.gated /\ h # TakesFirst(l)
    IN  CASE ~ l.gated -> i + 1
          [] l.gated /\ l.backend = "cutedsl_v2" ->
                1 + (i \div Chunk) * 2 * Chunk + (i % Chunk) + IF second THEN Chunk ELSE 0
          [] OTHER -> 1 + i + IF second THEN n \div 2 ELSE 0

Width(l, n) == IF l.gated THEN n \div 2 ELSE n

\* Its channels are the layer's, each with its own rows and column, and padding.
Served(l, rows, cols) ==
    LET n == Len(rows) IN
    /\ Width(l, n) \in Nat /\ l.inner <= Width(l, n)
    /\ \A i \in 0 .. Width(l, n) - 1 :
         /\ cols[i + 1] = IF i < l.inner THEN i ELSE Padding
         /\ \A h \in Halves(l) :
              /\ i < l.inner => /\ rows[TakenRow(l, n, h, i)] \in RowSet
                                /\ rows[TakenRow(l, n, h, i)].half = h
                                /\ rows[TakenRow(l, n, h, i)].i = i
              /\ ~ (i < l.inner) => rows[TakenRow(l, n, h, i)] = Padding

Columns(l) == [i \in 1 .. l.inner |-> i - 1]

LEMMA RowsAreRows ==
  ASSUME NEW h \in {"gate", "up"}, NEW i \in Nat, NEW by \in Nat
  PROVE  Row(h, i, by) \in RowSet /\ Row(h, i, by).half = h /\ Row(h, i, by).i = i
  BY DEF Row, RowSet

LEMMA HalvesAre ==
  ASSUME NEW l
  PROVE  /\ Halves(l) \subseteq {"gate", "up"}
         /\ ~ l.gated => Halves(l) = {"up"}
         /\ \A h \in {"gate", "up"} : ShardScale(l, h) \in Nat
         /\ TakesFirst(l) \in {"gate", "up"}
         /\ \A h \in {"gate", "up"} : h = TakesFirst(l) \/ h = Other(TakesFirst(l))
         /\ Other(TakesFirst(l)) # TakesFirst(l)
  BY DEF Halves, ShardScale, TakesFirst, Other

\* Two halves in the order the kernel takes them, each with its padding.
IsRow(x, h, i) == x \in RowSet /\ x.half = h /\ x.i = i
PaddedHalvesOf(rows, h, n, p) ==
    /\ Len(rows) = 2 * (n + p)
    /\ \A i \in 0 .. n + p - 1 :
         IF i < n THEN IsRow(rows[i + 1], h, i) /\ IsRow(rows[n + p + i + 1], Other(h), i)
                  ELSE rows[i + 1] = Padding /\ rows[n + p + i + 1] = Padding

PaddedColumns(l, cols, p) ==
    \A i \in 0 .. l.inner + p - 1 : cols[i + 1] = IF i < l.inner THEN i ELSE Padding

LEMMA PaddedHalvesAreServed ==
  ASSUME NEW l, NEW rows, NEW cols, NEW p \in Nat, l.inner \in Nat, l.gated, l.backend # "cutedsl_v2",
         PaddedHalvesOf(rows, TakesFirst(l), l.inner, p), PaddedColumns(l, cols, p)
  PROVE  Served(l, rows, cols)
  <1> DEFINE n == l.inner  m == n + p  f == TakesFirst(l)
  <1>1. m \in Nat /\ n \in Nat /\ n <= m /\ Len(rows) = 2 * m /\ (2 * m) \div 2 = m
    <2>1. m \in Nat /\ n <= m /\ Len(rows) = 2 * m
        BY DEF PaddedHalvesOf
    <2> HIDE DEF m
    <2> QED
        BY <2>1
  <1>2. Width(l, Len(rows)) = m
      BY <1>1 DEF Width
  <1>3. ASSUME NEW i \in 0 .. m - 1, NEW h \in Halves(l)
        PROVE  IF i < n THEN IsRow(rows[TakenRow(l, 2 * m, h, i)], h, i)
                        ELSE rows[TakenRow(l, 2 * m, h, i)] = Padding
    <2>1. h \in {"gate", "up"} /\ f \in {"gate", "up"} /\ i \in Nat
        BY HalvesAre
    <2>2. IF i < n THEN IsRow(rows[i + 1], f, i) /\ IsRow(rows[m + i + 1], Other(f), i)
                   ELSE rows[i + 1] = Padding /\ rows[m + i + 1] = Padding
        BY DEF PaddedHalvesOf
    <2>3. CASE h = f
      <3>1. TakenRow(l, 2 * m, h, i) = i + 1
          BY <2>3 DEF TakenRow
      <3> QED
          BY <2>2, <2>3, <3>1
    <2>4. CASE h # f
      <3>1. TakenRow(l, 2 * m, h, i) = m + i + 1
        <4>1. TakenRow(l, 2 * m, h, i) = 1 + i + (2 * m) \div 2
            BY <2>4 DEF TakenRow
        <4> HIDE DEF m
        <4> QED
            BY <1>1, <2>1, <4>1
      <3>2. h = Other(f)
          BY <2>1, <2>4, HalvesAre
      <3> QED
          BY <2>2, <3>1, <3>2
    <2> QED
        BY <2>3, <2>4
  <1>4. \A i \in 0 .. m - 1 : cols[i + 1] = IF i < n THEN i ELSE Padding
      BY DEF PaddedColumns
  <1> HIDE DEF m
  <1> QED
      BY <1>1, <1>2, <1>3, <1>4 DEF Served, IsRow

LEMMA ColumnsAreColumns ==
  ASSUME NEW l, l.inner \in Nat, NEW p \in Nat
  PROVE  PaddedColumns(l, Columns(l), 0) /\ PaddedColumns(l, Pad(Columns(l), p), p)
  <1> DEFINE n == l.inner  d == Columns(l)
  <1>1. d \in Seq(Nat) /\ Len(d) = n /\ \A k \in 1 .. n : d[k] = k - 1
    <2>1. d \in [1 .. n -> Nat]
        BY DEF Columns
    <2> QED
        BY <2>1 DEF Seq, Columns
  <1> HIDE DEF d
  <1>2. \A i \in 0 .. n + 0 - 1 : d[i + 1] = IF i < n THEN i ELSE Padding
    <2>1. \A i \in 0 .. n + 0 - 1 : i + 1 \in 1 .. n /\ (i + 1) - 1 = i /\ i < n
        OBVIOUS
    <2> QED
        BY <1>1, <2>1
  <1>3. \A k \in 1 .. n + p : Pad(d, p)[k] = IF k <= n THEN d[k] ELSE Padding
    <2> DEFINE e == Pad(d, p)
    <2>1. d \in Seq(Nat) /\ Len(d) = n /\ e = Pad(d, p)
        BY <1>1
    <2> HIDE DEF n, e
    <2>2. \A k \in 1 .. n + p : e[k] = IF k <= n THEN d[k] ELSE Padding
        BY <2>1, PaddedIs
    <2> QED
        BY <2>2 DEF e
  <1>4. \A i \in 0 .. n + p - 1 :
           /\ i + 1 \in 1 .. n + p /\ (i < n <=> i + 1 <= n)
           /\ i < n => i + 1 \in 1 .. n /\ (i + 1) - 1 = i
      OBVIOUS
  <1>5. \A i \in 0 .. n + p - 1 : Pad(d, p)[i + 1] = IF i < n THEN i ELSE Padding
      BY <1>1, <1>3, <1>4
  <1> QED
      BY <1>2, <1>5 DEF PaddedColumns, d

LEMMA HalvesAreServed ==
  ASSUME NEW l, NEW rows, l.inner \in Nat, l.gated, l.backend # "cutedsl_v2",
         TwoHalves(l, rows, TakesFirst(l), l.inner)
  PROVE  Served(l, rows, Columns(l))
  <1> DEFINE n == l.inner  f == TakesFirst(l)
  <1>1. Len(rows) = 2 * (n + 0)
      BY DEF TwoHalves
  <1>2. ASSUME NEW i \in 0 .. n + 0 - 1
        PROVE  IsRow(rows[i + 1], f, i) /\ IsRow(rows[n + 0 + i + 1], Other(f), i) /\ i < n
    <2>1. i \in 0 .. n - 1 /\ n + 0 + i + 1 = n + i + 1 /\ i \in Nat /\ i < n
        OBVIOUS
    <2>2. /\ rows[i + 1] = Row(f, i, ShardScale(l, f))
          /\ rows[n + i + 1] = Row(Other(f), i, ShardScale(l, Other(f)))
        BY <2>1 DEF TwoHalves
    <2>3. /\ f \in {"gate", "up"} /\ Other(f) \in {"gate", "up"}
          /\ ShardScale(l, f) \in Nat /\ ShardScale(l, Other(f)) \in Nat
        BY HalvesAre DEF Other, ShardScale
    <2>4. IsRow(rows[i + 1], f, i) /\ IsRow(rows[n + i + 1], Other(f), i)
        BY <2>1, <2>2, <2>3, RowsAreRows DEF IsRow
    <2> QED
        BY <2>1, <2>4
  <1>3. PaddedHalvesOf(rows, f, n, 0)
      BY <1>1, <1>2 DEF PaddedHalvesOf
  <1> QED
      BY <1>3, ColumnsAreColumns, PaddedHalvesAreServed

\* Chunks of the two halves, of layers that fill them.
LEMMA ChunksAreServed ==
  ASSUME NEW l, NEW rows, l.inner \in Nat, l.gated, l.backend = "cutedsl_v2",
         l.inner % Chunk = 0, TwoHalves(l, rows, TakesFirst(l), l.inner)
  PROVE  Served(l, InterleaveW13Halves(rows), Columns(l))
  <1> DEFINE n == l.inner  f == TakesFirst(l)  s == InterleaveW13Halves(rows)
             At(p) == 1 + ((p \div Chunk) % 2) * n + (p \div (2 * Chunk)) * Chunk + (p % Chunk)
  <1>0. Chunk \in Nat \ {0}
      BY ExpertAssumption
  <1>1. rows \in Seq(RowSet) /\ Len(rows) = 2 * n /\ (2 * n) \div 2 = n /\ DOMAIN rows = 1 .. 2 * n
      BY DEF TwoHalves
  <1>2. s = [k \in 1 .. 2 * n |-> rows[At(k - 1)]]
    <2>1. s = [k \in 1 .. 2 * n |-> LET p == k - 1
                 IN rows[1 + ((p \div Chunk) % 2) * n + (p \div (2 * Chunk)) * Chunk + (p % Chunk)]]
        BY <1>1 DEF InterleaveW13Halves
    <2> QED
        BY <2>1
  <1>3. Len(s) = 2 * n
    <2> DEFINE S == {s[k] : k \in 1 .. 2 * n}
    <2>1. s \in [1 .. 2 * n -> S]
        BY <1>2
    <2> HIDE DEF s, S
    <2> QED
        BY <2>1 DEF Seq
  <1> HIDE DEF s
  <1>4. Width(l, Len(s)) = n
      BY <1>1, <1>3 DEF Width
  <1>5. ASSUME NEW i \in 0 .. n - 1, NEW b \in 0 .. 1
        PROVE  LET k == 1 + (i \div Chunk) * 2 * Chunk + (i % Chunk) + b * Chunk
               IN  k \in 1 .. 2 * n /\ At(k - 1) = 1 + b * n + i
    <2> DEFINE c == Chunk  q == i \div c  o == i % c  m == n \div c
               k == 1 + q * 2 * c + o + b * c
    <2>1. /\ q \in Nat /\ o \in 0 .. c - 1 /\ i = q * c + o
          /\ m \in Nat /\ n = m * c
      <3>1. c \in Nat \ {0} /\ i \in Nat /\ n \in Nat
          BY <1>0
      <3> HIDE DEF c, n
      <3>2. q \in Nat /\ o \in 0 .. c - 1 /\ i = q * c + o
          BY <3>1, Division
      <3>3. m \in Nat /\ n % c \in 0 .. c - 1 /\ n = m * c + (n % c)
          BY <3>1, Division
      <3>4. n % c = 0
          BY DEF c, n
      <3> HIDE DEF m
      <3>5. n = m * c
          BY <3>1, <3>3, <3>4
      <3> QED
          BY <3>2, <3>3, <3>5
    <2>2. q <= m - 1
      <3>1. i < n /\ i \in Nat
          OBVIOUS
      <3> HIDE DEF q, o, m, c
      <3>3. c \in Nat \ {0}
          BY <1>0 DEF c
      <3>2. q * c < m * c
        <4>1. q * c \in Nat /\ m * c \in Nat
            BY <2>1, <3>3
        <4> HIDE DEF n
        <4> QED
            BY <2>1, <3>1, <3>3, <4>1
      <3> QED
          BY <2>1, <3>2, <3>3
    <2>3. k - 1 = (2 * q + b) * c + o /\ k - 1 = q * (2 * c) + (o + b * c)
      <3> HIDE DEF q, o, c
      <3>1. c \in Nat /\ q \in Nat /\ o \in Nat /\ b \in Nat
          BY <1>0, <2>1 DEF c
      <3> QED
          BY <3>1
    <2>4. k \in 1 .. 2 * n
      <3> HIDE DEF q, o, c, m
      <3>1. c \in Nat /\ q \in Nat /\ o \in 0 .. c - 1 /\ b \in 0 .. 1 /\ m \in Nat /\ n = m * c /\ q <= m - 1
          BY <1>0, <2>1, <2>2 DEF c
      <3>2. (2 * q + b) * c + o < (2 * q + b + 1) * c /\ (2 * q + b + 1) * c <= (2 * m) * c
        <4>1. 2 * q + b + 1 <= 2 * m
            BY <3>1
        <4> QED
            BY <3>1, <4>1
      <3>3. (2 * m) * c = 2 * n /\ (2 * q + b) * c + o \in Nat
          BY <3>1
      <3> QED
          BY <2>3, <3>1, <3>2, <3>3
    <2>5. (k - 1) \div c = 2 * q + b /\ (k - 1) % c = o /\ (2 * q + b) % 2 = b
      <3> HIDE DEF q, o, c
      <3>1. c \in Nat \ {0} /\ 2 * q + b \in Nat /\ o \in 0 .. c - 1 /\ q \in Nat
          BY <1>0, <2>1 DEF c
      <3>2. (k - 1) \div c = 2 * q + b /\ (k - 1) % c = o
        <4>1. k - 1 = (2 * q + b) * c + o
            BY <2>3
        <4>2. ((2 * q + b) * c + o) \div c = 2 * q + b /\ ((2 * q + b) * c + o) % c = o
            BY <3>1, Divided
        <4> HIDE DEF k
        <4> QED
            BY <4>1, <4>2
      <3> QED
          BY <3>1, <3>2
    <2>6. (k - 1) \div (2 * c) = q
      <3> HIDE DEF q, o, c
      <3>1. 2 * c \in Nat \ {0} /\ q \in Nat /\ o + b * c \in 0 .. 2 * c - 1
          BY <1>0, <2>1 DEF c
      <3> QED
          BY <2>3, <3>1, Divided
    <2>7. At(k - 1) = 1 + b * n + q * c + o
        BY <2>5, <2>6
    <2> HIDE DEF q, o, c
    <2>8. q * c \in Nat /\ o \in Nat /\ b * n \in Nat
        BY <1>0, <2>1 DEF c
    <2> QED
        BY <2>1, <2>4, <2>7, <2>8 DEF q, o, c
  <1>6. ASSUME NEW i \in 0 .. n - 1, NEW h \in Halves(l)
        PROVE  /\ s[TakenRow(l, 2 * n, h, i)] \in RowSet
               /\ s[TakenRow(l, 2 * n, h, i)].half = h
               /\ s[TakenRow(l, 2 * n, h, i)].i = i
    <2>1. h \in {"gate", "up"} /\ f \in {"gate", "up"} /\ i \in Nat
        BY HalvesAre
    <2> DEFINE b == IF h = f THEN 0 ELSE 1
               k == 1 + (i \div Chunk) * 2 * Chunk + (i % Chunk) + b * Chunk
    <2>2. TakenRow(l, 2 * n, h, i) = k
        BY <1>0 DEF TakenRow
    <2>3. k \in 1 .. 2 * n /\ s[k] = rows[1 + b * n + i]
      <3>1. k \in 1 .. 2 * n /\ At(k - 1) = 1 + b * n + i
          BY <1>5
      <3> HIDE DEF k, b, At
      <3> QED
          BY <1>2, <3>1
    <2>4. rows[1 + b * n + i] = Row(h, i, ShardScale(l, h))
      <3>1. CASE h = f
          BY <3>1 DEF TwoHalves
      <3>2. CASE h # f
        <4>1. h = Other(f) /\ 1 + b * n + i = n + i + 1
            BY <2>1, <3>2, HalvesAre
        <4> QED
            BY <4>1 DEF TwoHalves
      <3> QED
          BY <3>1, <3>2
    <2>5. ShardScale(l, h) \in Nat
        BY <2>1, HalvesAre
    <2>6. Row(h, i, ShardScale(l, h)) \in RowSet /\ Row(h, i, ShardScale(l, h)).half = h /\ Row(h, i, ShardScale(l, h)).i = i
        BY <2>1, <2>5, RowsAreRows
    <2>7. s[TakenRow(l, 2 * n, h, i)] = Row(h, i, ShardScale(l, h))
        BY <2>2, <2>3, <2>4
    <2> QED
        BY <2>6, <2>7
  <1>7. \A i \in 0 .. n - 1 : i + 1 \in 1 .. n /\ (i + 1) - 1 = i /\ i < n
      OBVIOUS
  <1>8. \A i \in 0 .. n - 1 : Columns(l)[i + 1] = i
      BY <1>7 DEF Columns
  <1> QED
      BY <1>3, <1>4, <1>6, <1>7, <1>8 DEF Served, s

\* One half, with the same padding behind it as behind the columns.
LEMMA SingleIsServed ==
  ASSUME NEW l, NEW rows, NEW p \in Nat, l.inner \in Nat, ~ l.gated, OneHalf(rows, l.inner)
  PROVE  Served(l, Pad(rows, p), Pad(Columns(l), p))
  <1> DEFINE n == l.inner  s == Pad(rows, p)  c == Pad(Columns(l), p)
  <1>1. rows \in Seq(RowSet) /\ Len(rows) = n
      BY DEF OneHalf
  <1>2. Columns(l) \in Seq(Nat) /\ Len(Columns(l)) = n /\ \A k \in 1 .. n : Columns(l)[k] = k - 1
    <2>1. Columns(l) \in [1 .. n -> Nat]
        BY DEF Columns
    <2> QED
        BY <2>1 DEF Seq, Columns
  <1>3. Len(s) = n + p /\ \A k \in 1 .. n + p : s[k] = IF k <= n THEN rows[k] ELSE Padding
    <2> HIDE DEF n
    <2> QED
        BY <1>1, PaddedIs
  <1>4. \A k \in 1 .. n + p : c[k] = IF k <= n THEN Columns(l)[k] ELSE Padding
    <2> DEFINE d == Columns(l)
    <2>1. d \in Seq(Nat) /\ Len(d) = n /\ c = Pad(d, p)
        BY <1>2
    <2> HIDE DEF d, n, c
    <2>2. \A k \in 1 .. n + p : c[k] = IF k <= n THEN d[k] ELSE Padding
        BY <2>1, PaddedIs
    <2> QED
        BY <2>2 DEF d
  <1> HIDE DEF s, c
  <1>5. ASSUME NEW i \in 0 .. n + p - 1
        PROVE  /\ c[i + 1] = IF i < n THEN i ELSE Padding
               /\ i < n => s[i + 1] = Row("up", i, 2)
               /\ ~ (i < n) => s[i + 1] = Padding
    <2>1. i + 1 \in 1 .. n + p /\ (i < n <=> i + 1 <= n) /\ (i < n => i + 1 \in 1 .. n /\ i \in 0 .. n - 1 /\ (i + 1) - 1 = i)
        OBVIOUS
    <2> QED
        BY <1>2, <1>3, <1>4, <2>1 DEF OneHalf
  <1>6. \A i : TakenRow(l, n + p, "up", i) = i + 1
      BY DEF TakenRow
  <1>7. Width(l, n + p) = n + p /\ n <= n + p
      BY DEF Width
  <1>8. \A i \in 0 .. n + p - 1 : i \in Nat
      OBVIOUS
  <1>9. \A i \in 0 .. n - 1 : Row("up", i, 2) \in RowSet /\ Row("up", i, 2).half = "up" /\ Row("up", i, 2).i = i
      BY RowsAreRows
  <1>10. Halves(l) = {"up"}
      BY HalvesAre
  <1>11. \A i \in 0 .. n + p - 1 : i < n => i \in 0 .. n - 1
      OBVIOUS
  <1>12. Len(s) \in Nat /\ Width(l, Len(s)) = n + p /\ n + p \in Nat
      BY <1>3, <1>7
  <1>13. ASSUME NEW i \in 0 .. n + p - 1
         PROVE  /\ c[i + 1] = IF i < n THEN i ELSE Padding
                /\ \A h \in Halves(l) :
                     /\ i < n => /\ s[TakenRow(l, n + p, h, i)] \in RowSet
                                 /\ s[TakenRow(l, n + p, h, i)].half = h
                                 /\ s[TakenRow(l, n + p, h, i)].i = i
                     /\ ~ (i < n) => s[TakenRow(l, n + p, h, i)] = Padding
      BY <1>5, <1>6, <1>9, <1>10, <1>11
  <1>14. Served(l, s, c)
      BY <1>3, <1>7, <1>12, <1>13 DEF Served
  <1> QED
      BY <1>14 DEF s, c

-----------------------------------------------------------------------------
(* The scales of an expert layer.                                          *)

LoadedScales == [e \in Locals |-> [h \in {"gate", "up"} |-> TensorScale(e, h)]]

\* What a layer is when its last projection has arrived, and the scales it gets.
AsLoaded ==
    /\ w13 = LoadedRows(layer) /\ w13Scale = LoadedRows(layer)
    /\ w2 = Columns(layer) /\ scale2 = LoadedScales

ScalesInv ==
    /\ layer \in ExpertLayers
    /\ Complete => AsLoaded
    /\ ScalesCancel

LEMMA LayersAre ==
  ASSUME NEW l \in ExpertLayers
  PROVE  /\ <<l.method, l.backend>> \in LayerKinds
         /\ l.method \in {"fp4", "lm20", "fp8"}
         /\ l.gated \in BOOLEAN /\ l.interleaved \in BOOLEAN
         /\ l.inner \in Nat \ {0} /\ l.ranks \in Nat /\ l.rank \in 0 .. l.ranks - 1
         /\ l.updates \in Nat
         /\ l.interleaved => l.gated /\ l.method = "fp4"
         /\ l.twoScales \in BOOLEAN /\ (l.twoScales => l.gated)
         /\ l.method = "lm20" => l.backend = "triton"
         /\ l.method = "fp8" => l.backend \in {"triton", "flashinfer_cutlass"}
  <1>1. /\ <<l.method, l.backend>> \in LayerKinds
        /\ l.gated \in BOOLEAN /\ l.interleaved \in BOOLEAN
        /\ l.inner \in Nat \ {0} /\ l.ranks \in Nat /\ l.rank \in 0 .. l.ranks - 1
        /\ l.updates \in Nat
        /\ l.interleaved => l.gated /\ l.method = "fp4"
        /\ l.twoScales \in BOOLEAN /\ (l.twoScales => l.gated)
      BY ExpertAssumption
  <1>2. /\ l.method \in {"fp4", "lm20", "fp8"}
        /\ l.method = "lm20" => l.backend = "triton"
        /\ l.method = "fp8" => l.backend \in {"triton", "flashinfer_cutlass"}
      BY <1>1 DEF LayerKinds
  <1> QED
      BY <1>1, <1>2

\* The rank's experts are among all experts.
LEMMA SliceIsWithin ==
  ASSUME layer \in ExpertLayers, NEW e \in Locals
  PROVE  Global(e) \in GlobalExperts
  <1> DEFINE r == layer.rank  n == layer.ranks  c == LocalExperts
  <1>1. c \in Nat /\ e \in 0 .. c - 1 /\ n \in Nat /\ r \in 0 .. n - 1
      BY LayersAre, ExpertAssumption DEF Locals
  <1> HIDE DEF r, n, c
  <1>2. r * c \in Nat /\ r * c + e < (r + 1) * c
      BY <1>1
  <1>3. (r + 1) * c <= n * c
    <2>1. r + 1 <= n
        BY <1>1
    <2> QED
        BY <1>1, <2>1
  <1>4. r * c + e \in 0 .. n * c - 1
      BY <1>1, <1>2, <1>3
  <1> QED
      BY <1>4 DEF Global, GlobalExperts, r, n, c

\* Where the halves have scales of their own there is an alpha for each.
LEMMA ScalesAre ==
  ASSUME AsLoaded, NEW e \in Locals
  PROVE  /\ \A h \in {"gate", "up"} : scale2[e][h] = TensorScale(e, h)
         /\ ~ layer.twoScales => TensorScale(e, "gate") = TensorScale(e, "up")
  BY DEF AsLoaded, LoadedScales, TensorScale

\* No kernel has one alpha for halves that have a scale each.
OneAlphaSuffices == \A l \in ExpertLayers : AlphasSuffice(l)

LEMMA ProcessFp4Scales == OneAlphaSuffices /\ ScalesInv /\ ProcessFp4 => ScalesInv'
  <1> SUFFICES ASSUME OneAlphaSuffices, ScalesInv, ProcessFp4
               PROVE  ScalesInv'
      OBVIOUS
  <1> DEFINE in == InputScales
  <1>1. /\ layer \in ExpertLayers /\ layer' = layer /\ AsLoaded /\ stage' = "ready"
        /\ gscale' = Alphas(in) /\ layer.method = "fp4" /\ layer.backend # "marlin"
      BY DEF ScalesInv, ProcessFp4
  <1>2. ~ Complete'
      BY <1>1 DEF Complete
  <1>3. ASSUME NEW e \in Locals
        PROVE  /\ gscale'.gate[e] = <<in.first[e], TensorScale(e, "gate")>>
               /\ gscale'.up[e] = <<in.first[e], TensorScale(e, "up")>>
               /\ gscale'.down[e] = <<in.second[e], Global(e)>>
               /\ gscale'.quant1[e] = in.first[e] /\ gscale'.quant2[e] = in.second[e]
    <2> DEFINE g1 == ComputeGemm1Alphas(in)
    <2>1. /\ g1.gate[e] = <<in.first[e], TensorScale(e, "gate")>>
          /\ g1.up[e] = <<in.first[e], TensorScale(e, "up")>>
        BY <1>1, ScalesAre DEF ComputeGemm1Alphas
    <2>2. layer.backend # "flashinfer_trtllm" => TensorScale(e, "gate") = TensorScale(e, "up")
      <3>1. layer.backend # "flashinfer_trtllm" => ~ layer.twoScales
        <4>1. <<layer.method, layer.backend>> \in LayerKinds
            BY <1>1, LayersAre
        <4>2. layer.backend # "triton"
            BY <1>1, <4>1 DEF LayerKinds
        <4> QED
            BY <1>1, <4>2 DEF OneAlphaSuffices, AlphasSuffice
      <3> QED
          BY <1>1, <3>1, ScalesAre
    <2> HIDE DEF in
    <2>3. /\ Alphas(in).gate = g1.gate
          /\ Alphas(in).up = IF SingleAlpha THEN g1.gate ELSE g1.up
          /\ Alphas(in).down = [d \in Locals |-> <<in.second[d], Global(d)>>]
          /\ Alphas(in).quant1 = in.first /\ Alphas(in).quant2 = in.second
        BY DEF Alphas
    <2> HIDE DEF g1
    <2> QED
        BY <1>1, <2>1, <2>2, <2>3 DEF SingleAlpha
  <1>4. ASSUME NEW e \in Locals, layer.backend = "cutedsl_v1", ~ layer.perToken
        PROVE  in.second[e] = InputScale2(Global(e))
    <2>1. in = [first  |-> LocalSlice([g \in GlobalExperts |-> MaxInputScale1]),
                second |-> LocalSlice([g \in GlobalExperts |-> InputScale2(g)])]
        BY <1>4 DEF InputScales
    <2>2. in.second = LocalSlice([g \in GlobalExperts |-> InputScale2(g)])
        BY <2>1
    <2>3. Global(e) \in GlobalExperts
        BY <1>1, SliceIsWithin
    <2> HIDE DEF in
    <2> QED
        BY <2>2, <2>3 DEF LocalSlice, Global
  <1> HIDE DEF in
  <1>5. ScalesCancel'
    <2> SUFFICES ASSUME NEW e \in Locals
                 PROVE  /\ gscale'.gate[e][1] = gscale'.quant1[e] /\ gscale'.up[e][1] = gscale'.quant1[e]
                        /\ gscale'.down[e] = <<gscale'.quant2[e], Global(e)>>
                        /\ layer.gated => gscale'.gate[e][2] = TensorScale(e, "gate")
                        /\ gscale'.up[e][2] = TensorScale(e, "up")
                        /\ layer.backend = "cutedsl_v1" /\ ~ layer.perToken =>
                              gscale'.quant2[e] = InputScale2(Global(e))
        BY <1>1 DEF ScalesCancel, Locals, Global, TensorScale
    <2> QED
        BY <1>3, <1>4
  <1> QED
      BY <1>1, <1>2, <1>5 DEF ScalesInv

LEMMA ProcessMarlinScales == OneAlphaSuffices /\ ScalesInv /\ ProcessMarlinExperts => ScalesInv'
  <1> SUFFICES ASSUME OneAlphaSuffices, ScalesInv, ProcessMarlinExperts
               PROVE  ScalesInv'
      OBVIOUS
  <1> DEFINE g == [e \in Locals |-> <<1, scale2[e]["gate"]>>]
  <1>1. /\ layer \in ExpertLayers /\ layer' = layer /\ AsLoaded /\ stage' = "ready"
        /\ layer.method = "fp4" /\ layer.backend = "marlin"
        /\ gscale' = [gate |-> g, up |-> g, down |-> [e \in Locals |-> <<1, Global(e)>>],
                      quant1 |-> [e \in Locals |-> 1], quant2 |-> [e \in Locals |-> 1]]
      BY DEF ScalesInv, ProcessMarlinExperts
  <1>2. ~ Complete'
      BY <1>1 DEF Complete
  <1>3. ~ layer.twoScales
      BY <1>1 DEF OneAlphaSuffices, AlphasSuffice
  <1>4. ASSUME NEW e \in Locals
        PROVE  g[e] = <<1, TensorScale(e, "gate")>> /\ TensorScale(e, "gate") = TensorScale(e, "up")
      BY <1>1, <1>3, ScalesAre
  <1> HIDE DEF g
  <1>5. ScalesCancel'
      BY <1>1, <1>4 DEF ScalesCancel, Locals, Global, TensorScale
  <1> QED
      BY <1>1, <1>2, <1>5 DEF ScalesInv

\* A gated layer's first row is of the gate, its last of the other half.
LEMMA LoadedLength ==
  ASSUME layer \in ExpertLayers, AsLoaded, ~ layer.interleaved
  PROVE  /\ layer.inner \in Nat \ {0}
         /\ layer.gated => Len(w13) = 2 * layer.inner /\ TwoHalves(layer, w13, PutsFirst(layer), layer.inner)
         /\ ~ layer.gated => Len(w13) = layer.inner /\ OneHalf(w13, layer.inner)
  <1>1. layer.inner \in Nat \ {0}
      BY LayersAre
  <1> QED
      BY <1>1, LoadedHalves, LoadedSingle DEF AsLoaded, TwoHalves, OneHalf

LEMMA ProcessLm20Scales == ScalesInv /\ ProcessLm20 => ScalesInv'
  <1> SUFFICES ASSUME ScalesInv, ProcessLm20
               PROVE  ScalesInv'
      OBVIOUS
  <1> DEFINE at(i) == [e \in Locals |-> <<1, RowScale(e, i)>>]
  <1>1. /\ layer \in ExpertLayers /\ layer' = layer /\ AsLoaded /\ stage' = "ready"
        /\ layer.method = "lm20"
        /\ gscale' = [gate |-> at(1), up |-> at(Len(w13)), down |-> [e \in Locals |-> <<1, Global(e)>>],
                      quant1 |-> [e \in Locals |-> 1], quant2 |-> [e \in Locals |-> 1]]
      BY DEF ScalesInv, ProcessLm20
  <1>2. ~ Complete'
      BY <1>1 DEF Complete
  <1>3. ~ layer.interleaved /\ layer.backend = "triton"
      BY <1>1, LayersAre
  <1>4. layer.gated => 1 <= Len(w13) \div 2 /\ ~ (Len(w13) <= Len(w13) \div 2)
      BY <1>1, <1>3, LoadedLength
  <1>5. ASSUME NEW e \in Locals
        PROVE  /\ layer.gated => RowScale(e, 1) = TensorScale(e, "gate")
               /\ RowScale(e, Len(w13)) = TensorScale(e, "up")
      BY <1>1, <1>4, ScalesAre DEF RowScale
  <1>6. ASSUME NEW e \in Locals
        PROVE  /\ gscale'.gate[e] = <<1, RowScale(e, 1)>> /\ gscale'.up[e] = <<1, RowScale(e, Len(w13))>>
               /\ gscale'.down[e] = <<1, Global(e)>> /\ gscale'.quant1[e] = 1 /\ gscale'.quant2[e] = 1
      BY <1>1
  <1>7. ScalesCancel'
    <2> SUFFICES ASSUME NEW e \in Locals
                 PROVE  /\ gscale'.gate[e][1] = gscale'.quant1[e] /\ gscale'.up[e][1] = gscale'.quant1[e]
                        /\ gscale'.down[e] = <<gscale'.quant2[e], Global(e)>>
                        /\ layer.gated => gscale'.gate[e][2] = TensorScale(e, "gate")
                        /\ gscale'.up[e][2] = TensorScale(e, "up")
        BY <1>1, <1>3 DEF ScalesCancel, Locals, Global, TensorScale
    <2> QED
        BY <1>5, <1>6
  <1> QED
      BY <1>1, <1>2, <1>7 DEF ScalesInv

LEMMA ProcessFp8Scales == ScalesInv /\ ProcessFp8Experts => ScalesInv'
  <1> SUFFICES ASSUME ScalesInv, ProcessFp8Experts
               PROVE  ScalesInv'
      OBVIOUS
  <1> DEFINE in1 == MaxInputScale1
             in2 == Max({InputScale2(g) : g \in GlobalExperts})
  <1>1. /\ layer \in ExpertLayers /\ layer' = layer /\ AsLoaded /\ stage' = "ready"
        /\ layer.method = "fp8"
        /\ gscale' = [gate |-> [e \in Locals |-> <<in1, scale2[e]["gate"]>>],
                      up   |-> [e \in Locals |-> <<in1, scale2[e]["up"]>>],
                      down |-> [e \in Locals |-> <<in2, Global(e)>>],
                      quant1 |-> [e \in Locals |-> in1], quant2 |-> [e \in Locals |-> in2]]
      BY DEF ScalesInv, ProcessFp8Experts
  <1> HIDE DEF in1, in2
  <1>2. ~ Complete'
      BY <1>1 DEF Complete
  <1>3. layer.backend # "cutedsl_v1"
      BY <1>1, LayersAre
  <1>4. ASSUME NEW e \in Locals
        PROVE  /\ gscale'.gate[e] = <<in1, TensorScale(e, "gate")>> /\ gscale'.up[e] = <<in1, TensorScale(e, "up")>>
               /\ gscale'.down[e] = <<in2, Global(e)>> /\ gscale'.quant1[e] = in1 /\ gscale'.quant2[e] = in2
      BY <1>1, ScalesAre
  <1>5. ScalesCancel'
    <2> SUFFICES ASSUME NEW e \in Locals
                 PROVE  /\ gscale'.gate[e][1] = gscale'.quant1[e] /\ gscale'.up[e][1] = gscale'.quant1[e]
                        /\ gscale'.down[e] = <<gscale'.quant2[e], Global(e)>>
                        /\ layer.gated => gscale'.gate[e][2] = TensorScale(e, "gate")
                        /\ gscale'.up[e][2] = TensorScale(e, "up")
        BY <1>1, <1>3 DEF ScalesCancel, Locals, Global, TensorScale
    <2> QED
        BY <1>4
  <1> QED
      BY <1>1, <1>2, <1>5 DEF ScalesInv

LEMMA LoadProjectionKeeps ==
  ASSUME ScalesInv, NEW half, LoadProjection(half)
  PROVE  ScalesInv'
  <1>1. layer \in ExpertLayers /\ layer' = layer /\ stage = "loading" /\ stage' = "loading" /\ arrived' = arrived \union {half}
      BY DEF ScalesInv, LoadProjection
  <1>2. ASSUME arrived' = Halves(layer)
        PROVE  AsLoaded'
    <2>1. /\ w13' = LoadedRows(layer) /\ w13Scale' = LoadedRows(layer) /\ w2' = [i \in 1 .. layer.inner |-> i - 1]
          /\ scale2' = [e \in Locals |-> [h \in {"gate", "up"} |-> TensorScale(e, h)]]
        BY <1>2 DEF LoadProjection
    <2> QED
        BY <1>1, <2>1 DEF AsLoaded, Columns, LoadedScales, Locals, TensorScale, Global
  <1>3. Complete' => AsLoaded'
      BY <1>1, <1>2 DEF Complete
  <1>4. ScalesCancel'
      BY <1>1 DEF ScalesCancel
  <1> QED
      BY <1>1, <1>3, <1>4 DEF ScalesInv

LEMMA OtherStepsKeepScales ==
  ASSUME ScalesInv, RefuseFp4 \/ Forward \/ UpdateWeights
  PROVE  ScalesInv'
  <1>1. layer \in ExpertLayers /\ layer' = layer /\ gscale' = gscale
      BY DEF ScalesInv, RefuseFp4, Forward, UpdateWeights
  <1>2. ~ Complete'
    <2>1. CASE RefuseFp4 \/ Forward
        BY <2>1 DEF Complete, RefuseFp4, Forward
    <2>2. CASE UpdateWeights
        BY <1>1, <2>2 DEF Complete, UpdateWeights, Halves
    <2> QED
        BY <2>1, <2>2
  <1>3. stage' \in {"ready", "done"} => stage \in {"ready", "done"}
      BY DEF RefuseFp4, Forward, UpdateWeights
  <1>4. ScalesCancel'
      BY <1>1, <1>3 DEF ScalesInv, ScalesCancel, Locals, Global, TensorScale
  <1> QED
      BY <1>1, <1>2, <1>4 DEF ScalesInv

LEMMA ExpertStepKeepsScales == OneAlphaSuffices /\ ScalesInv /\ ExpertNext => ScalesInv'
  BY ProcessFp4Scales, ProcessMarlinScales, ProcessLm20Scales, ProcessFp8Scales, LoadProjectionKeeps,
     OtherStepsKeepScales DEF ExpertNext

\* Until an expert layer is picked there is none.
ExpertScales ==
    /\ part # "experts" => ExpertsIdle
    /\ part = "experts" => ScalesInv

LEMMA ExpertScalesInitially == LoadInit => ExpertScales
  BY DEF LoadInit, ExpertScales

LEMMA PickedExperts ==
  ASSUME ExpertsIdle, PickExperts
  PROVE  /\ layer' \in ExpertLayers /\ stage' = "loading" /\ arrived' = {} /\ part' = "experts"
         /\ gscale' = Unset /\ deinterleaved' = FALSE /\ updates' = 0 /\ result' = Unset
  BY DEF PickExperts, ExpertsIdle, expertVars

LEMMA ExpertScalesStep == OneAlphaSuffices /\ ExpertScales /\ [LoadNext]_loadVars => ExpertScales'
  <1> SUFFICES ASSUME OneAlphaSuffices, ExpertScales, [LoadNext]_loadVars
               PROVE  ExpertScales'
      OBVIOUS
  <1>1. CASE PickExperts
    <2>1. part = "config" /\ ExpertsIdle
        BY <1>1 DEF PickExperts, ExpertScales
    <2>2. layer' \in ExpertLayers /\ stage' = "loading" /\ arrived' = {} /\ part' = "experts" /\ gscale' = Unset
        BY <1>1, <2>1, PickedExperts
    <2>3. ~ Complete'
        BY <2>2 DEF Complete, Halves
    <2>4. ScalesCancel'
        BY <2>2 DEF ScalesCancel
    <2> QED
        BY <2>2, <2>3, <2>4 DEF ExpertScales, ScalesInv
  <1>2. CASE part = "experts" /\ ExpertNext /\ UNCHANGED <<part, quantVars, denseVars>>
      BY <1>2, ExpertStepKeepsScales DEF ExpertScales
  <1>3. CASE UNCHANGED <<part, expertVars>>
    <2>1. CASE part # "experts"
        BY <1>3, <2>1 DEF ExpertScales, ExpertsIdle, expertVars
    <2>2. CASE part = "experts"
      <3>1. layer' \in ExpertLayers /\ AsLoaded' = AsLoaded /\ Complete' = Complete /\ ScalesCancel' = ScalesCancel
          BY <1>3, <2>2 DEF ExpertScales, ScalesInv, expertVars, AsLoaded, LoadedScales, Complete, ScalesCancel, Locals,
             TensorScale, Global
      <3> QED
          BY <1>3, <2>2, <3>1 DEF ExpertScales, ScalesInv
    <2> QED
        BY <2>1, <2>2
  <1>4. CASE PickLinear
    <2>1. part = "config" /\ part' = "linear" /\ UNCHANGED expertVars
        BY <1>4 DEF PickLinear
    <2> QED
        BY <2>1 DEF ExpertScales, ExpertsIdle, expertVars
  <1>5. \/ PickLinear \/ PickExperts \/ UNCHANGED <<part, expertVars>>
        \/ part = "experts" /\ ExpertNext /\ UNCHANGED <<part, quantVars, denseVars>>
      BY DEF LoadNext, loadVars
  <1> QED
      BY <1>1, <1>2, <1>3, <1>4, <1>5

\* What the activation of an expert layer is divided by is multiplied back, with the
\* tensor scale of the same expert and half, whatever the backend and the rank, and again
\* after every update (process_weights_after_loading).  OneAlphaSuffices leaves out what
\* the code warns of (2114-2115): two tensor scales on a backend that has one alpha, where
\* the gate's scale is used for up.
THEOREM ExpertScalesCancel ==
  ASSUME OneAlphaSuffices
  PROVE  LoadSpec => []ScalesCancel
  <1>1. ExpertScales => ScalesCancel
      BY DEF ExpertScales, ScalesInv, ScalesCancel, ExpertsIdle
  <1>2. ExpertScales /\ [LoadNext]_loadVars => ExpertScales'
      BY ExpertScalesStep
  <1> QED
      BY <1>1, <1>2, ExpertScalesInitially, PTL DEF LoadSpec

-----------------------------------------------------------------------------
(* The order of an expert layer's rows.                                    *)

\* Every layer reaches its kernel in the kernel's order.
OrderIsKept == \A l \in ExpertLayers : HalvesInOrder(l)

Computed ==
    [i \in Channels |->
       [rows |-> [h \in Halves(layer) |-> w13[KernelRow(h, i)]],
        scales |-> [h \in Halves(layer) |-> w13Scale[KernelRow(h, i)]],
        down |-> w2[i + 1]]]

OrderInv ==
    /\ layer \in ExpertLayers /\ updates \in Nat
    /\ Complete => AsLoaded
    /\ layer.interleaved /\ stage = "loading" => ~ deinterleaved
    /\ stage \in {"ready", "done"} => Served(layer, w13, w2) /\ w13Scale = w13
    /\ result # Unset => stage = "done" /\ result = Computed

LEMMA PadNothing ==
  ASSUME NEW x, NEW n \in Nat, x = [k \in 1 .. n |-> x[k]]
  PROVE  Pad(x, 0) = x
  <1> DEFINE S == {x[k] : k \in 1 .. n}
  <1>1. x \in Seq(S)
    <2>1. x \in [1 .. n -> S]
        OBVIOUS
    <2> QED
        BY <2>1 DEF Seq
  <1>2. [i \in 1 .. 0 |-> Padding] = << >>
      OBVIOUS
  <1> HIDE DEF S
  <1> QED
      BY <1>1, <1>2, ConcatEmptySeq DEF Pad

LEMMA SequencesAreFunctions ==
  ASSUME NEW S, NEW x, x \in Seq(S)
  PROVE  Len(x) \in Nat /\ x = [k \in 1 .. Len(x) |-> x[k]]
  <1>1. Len(x) \in Nat /\ x \in [1 .. Len(x) -> S]
      BY LenProperties
  <1> QED
      BY <1>1

LEMMA RoundsUp ==
  ASSUME NEW x \in Nat, NEW m \in Nat \ {0}
  PROVE  /\ RoundUpTo(x, m) - x \in Nat
         /\ RoundUpTo(x, m) = ((x + m - 1) \div m) * m /\ (x + m - 1) \div m \in Nat
  <1> DEFINE a == x + m - 1  q == a \div m
  <1>1. a \in Nat /\ m \in Nat \ {0}
      OBVIOUS
  <1>2. q \in Nat /\ q * m <= a /\ a < q * m + m
      BY <1>1, Division
  <1>3. RoundUpTo(x, m) = q * m
      BY DEF RoundUpTo
  <1> HIDE DEF q
  <1>4. q * m \in Nat
      BY <1>2
  <1>5. q * m - x \in Nat
    <2> DEFINE y == q * m
    <2>1. y \in Nat /\ a < y + m
        BY <1>2, <1>4
    <2> HIDE DEF y
    <2>2. y - x \in Nat
        BY <2>1
    <2> QED
        BY <2>2 DEF y
  <1> QED
      BY <1>2, <1>3, <1>5 DEF q

\* A width that needs no padding is a number of whole chunks.
LEMMA WholeChunks ==
  ASSUME NEW n \in Nat, RoundUpTo(2 * n, SwizzleRows) = 2 * n
  PROVE  n % Chunk = 0
  <1>1. Chunk \in Nat \ {0} /\ SwizzleRows = 2 * Chunk /\ SwizzleRows \in Nat \ {0} /\ 2 * n \in Nat
      BY ExpertAssumption
  <1> DEFINE q == (2 * n + SwizzleRows - 1) \div SwizzleRows
  <1>2. q \in Nat /\ 2 * n = q * SwizzleRows
      BY <1>1, RoundsUp
  <1> HIDE DEF q
  <1>3. n = q * Chunk + 0 /\ 0 \in 0 .. Chunk - 1
      BY <1>1, <1>2
  <1>4. (q * Chunk + 0) % Chunk = 0
      BY <1>1, <1>2, <1>3, Divided
  <1> QED
      BY <1>3, <1>4

\* A layer that has one half, with any padding of its rows and columns.
LEMMA SingleLayer ==
  ASSUME layer \in ExpertLayers, ~ layer.gated, NEW rows, OneHalf(rows, layer.inner)
  PROVE  /\ Served(layer, rows, Columns(layer))
         /\ \A p \in Nat : Served(layer, Pad(rows, p), Pad(Columns(layer), p))
  <1>1. layer.inner \in Nat
      BY LayersAre
  <1>2. \A p \in Nat : Served(layer, Pad(rows, p), Pad(Columns(layer), p))
      BY <1>1, SingleIsServed
  <1>3. Pad(rows, 0) = rows
    <2>1. rows \in Seq(RowSet)
        BY DEF OneHalf
    <2> QED
        BY <2>1, SequencesAreFunctions, PadNothing
  <1>4. Pad(Columns(layer), 0) = Columns(layer)
    <2> DEFINE c == Columns(layer)
    <2>1. c = [k \in 1 .. layer.inner |-> c[k]]
        BY DEF Columns
    <2> HIDE DEF c
    <2>2. Pad(c, 0) = c
        BY <1>1, <2>1, PadNothing
    <2> QED
        BY <2>2 DEF c
  <1>5. Served(layer, Pad(rows, 0), Pad(Columns(layer), 0))
      BY <1>2
  <1> QED
      BY <1>2, <1>3, <1>4, <1>5

\* The halves of a gated layer, put in order.
LEMMA OrderedHalves ==
  ASSUME OrderIsKept, OrderInv, Complete, layer.gated, layer.method = "fp4"
  PROVE  /\ TwoHalves(layer, Ordered(w13), TakesFirst(layer), layer.inner)
         /\ layer.interleaved => layer.backend # "cutedsl_v2"
  <1>1. layer \in ExpertLayers /\ layer.inner \in Nat /\ stage = "loading" /\ w13 = LoadedRows(layer)
      BY LayersAre DEF OrderInv, Complete, AsLoaded
  <1>2. CASE layer.interleaved
    <2>1. ~ deinterleaved /\ (KernelUpFirst(layer) => layer.backend = "flashinfer_trtllm")
        BY <1>1, <1>2 DEF OrderInv, OrderIsKept, HalvesInOrder
    <2>2. Ordered(w13) = DeinterleaveW13(w13, Trtllm)
        BY <1>2, <2>1 DEF Ordered, MustDeinterleave
    <2>3. Alternating(layer, w13, layer.inner)
        BY <1>1, <1>2, LoadedAlternating
    <2>4. Trtllm \in BOOLEAN /\ TakesFirst(layer) = IF Trtllm THEN "up" ELSE "gate"
        BY <2>1 DEF Trtllm, TakesFirst, KernelUpFirst
    <2>5. layer.backend # "cutedsl_v2"
        BY <2>1 DEF KernelUpFirst
    <2> QED
        BY <1>1, <2>2, <2>3, <2>4, <2>5, DeinterleavedHalves
  <1>3. CASE ~ layer.interleaved
    <2>1. Ordered(w13) = w13
        BY <1>3 DEF Ordered, MustDeinterleave
    <2>2. TwoHalves(layer, w13, PutsFirst(layer), layer.inner)
        BY <1>1, <1>3, LoadedHalves
    <2>3. PutsFirst(layer) = TakesFirst(layer)
        BY <1>1, <1>3 DEF PutsFirst, TakesFirst, OrderIsKept, HalvesInOrder
    <2> QED
        BY <1>3, <2>1, <2>2, <2>3
  <1> QED
      BY <1>2, <1>3

LEMMA ProcessFp4Order == OrderIsKept /\ OrderInv /\ ProcessFp4 => Served(layer, w13', w2') /\ w13Scale' = w13'
  <1> SUFFICES ASSUME OrderIsKept, OrderInv, ProcessFp4
               PROVE  Served(layer, w13', w2') /\ w13Scale' = w13'
      OBVIOUS
  <1> DEFINE n == layer.inner  x == KernelOrder(w13)  p == SwizzlePad
  <1>1. /\ layer \in ExpertLayers /\ n \in Nat /\ layer.gated \in BOOLEAN /\ layer.method = "fp4"
        /\ AsLoaded /\ Complete /\ w13Scale = w13
        /\ w13' = Pad(x, p) /\ w13Scale' = Pad(KernelOrder(w13Scale), p) /\ w2' = Pad(Columns(layer), p)
        /\ layer.gated => p = 0
      BY LayersAre DEF OrderInv, ProcessFp4, AsLoaded
  <1>2. w13Scale' = w13'
      BY <1>1
  <1>3. CASE ~ layer.gated
    <2>1. ~ layer.interleaved
        BY <1>1, <1>3, LayersAre
    <2>2. x = w13
        BY <1>3, <2>1 DEF KernelOrder, CuteDslV2, Ordered, MustDeinterleave
    <2>3. OneHalf(w13, n)
        BY <1>1, <1>3, LoadedSingle DEF AsLoaded
    <2>4. p \in Nat
      <3>1. Len(w13) \in Nat /\ SwizzleRows \in Nat \ {0}
          BY <1>1, <2>3, ExpertAssumption DEF OneHalf
      <3>2. RoundUpTo(Len(w13), SwizzleRows) - Len(w13) \in Nat
          BY <3>1, RoundsUp
      <3> QED
          BY <3>2 DEF SwizzlePad
    <2>5. Served(layer, Pad(w13, p), Pad(Columns(layer), p))
        BY <1>1, <1>3, <2>3, <2>4, SingleLayer
    <2> QED
        BY <1>1, <1>2, <2>2, <2>5
  <1>4. CASE layer.gated
    <2> DEFINE y == Ordered(w13)  f == TakesFirst(layer)
    <2>1. TwoHalves(layer, y, f, n) /\ (layer.interleaved => layer.backend # "cutedsl_v2")
        BY <1>1, <1>4, OrderedHalves
    <2>2. p = 0
        BY <1>1, <1>4
    <2>3. Pad(Columns(layer), 0) = Columns(layer)
      <3> DEFINE c == Columns(layer)
      <3>1. c = [k \in 1 .. n |-> c[k]]
          BY DEF Columns
      <3> HIDE DEF c, n
      <3>2. Pad(c, 0) = c
          BY <1>1, <3>1, PadNothing
      <3> QED
          BY <3>2 DEF c
    <2>4. CASE layer.backend # "cutedsl_v2"
      <3>1. x = y
          BY <2>4 DEF KernelOrder, CuteDslV2
      <3>2. Served(layer, y, Columns(layer))
          BY <1>1, <1>4, <2>1, <2>4, HalvesAreServed
      <3>3. Pad(y, 0) = y
        <4>1. y \in Seq(RowSet)
            BY <2>1 DEF TwoHalves
        <4> HIDE DEF y
        <4> QED
            BY <4>1, SequencesAreFunctions, PadNothing
      <3> HIDE DEF x, y, p
      <3> QED
          BY <1>1, <1>2, <2>2, <2>3, <3>1, <3>2, <3>3
    <2>5. CASE layer.backend = "cutedsl_v2"
      <3>1. x = InterleaveW13Halves(y)
          BY <1>4, <2>5 DEF KernelOrder, CuteDslV2
      <3>2. n % Chunk = 0
        <4>1. ~ layer.interleaved
            BY <2>1, <2>5
        <4>2. Len(w13) = 2 * n
            BY <1>1, <1>4, <4>1, LoadedLength
        <4>3. SwizzleRows \in Nat \ {0} /\ 2 * n \in Nat
            BY <1>1, ExpertAssumption
        <4>4. RoundUpTo(2 * n, SwizzleRows) - 2 * n = 0 /\ RoundUpTo(2 * n, SwizzleRows) - 2 * n \in Nat
            BY <2>2, <2>5, <4>2, <4>3, RoundsUp DEF SwizzlePad, Trtllm
        <4>5. RoundUpTo(2 * n, SwizzleRows) \in Int
          <5> DEFINE q == (2 * n + SwizzleRows - 1) \div SwizzleRows
          <5>1. q \in Nat /\ RoundUpTo(2 * n, SwizzleRows) = q * SwizzleRows
              BY <4>3, RoundsUp
          <5> HIDE DEF q
          <5> QED
              BY <4>3, <5>1
        <4>6. RoundUpTo(2 * n, SwizzleRows) = 2 * n
            BY <4>3, <4>4, <4>5
        <4> QED
            BY <1>1, <4>6, WholeChunks
      <3>3. Served(layer, InterleaveW13Halves(y), Columns(layer))
          BY <1>1, <1>4, <2>1, <2>5, <3>2, ChunksAreServed
      <3>4. Pad(x, 0) = x
        <4>1. DOMAIN y = 1 .. 2 * n /\ 2 * n \in Nat
            BY <1>1, <2>1 DEF TwoHalves
        <4> DEFINE z == InterleaveW13Halves(y)
        <4> HIDE DEF y, n
        <4>2. z = [k \in 1 .. 2 * n |-> z[k]]
            BY <4>1 DEF InterleaveW13Halves
        <4> HIDE DEF z
        <4>3. Pad(z, 0) = z
            BY <4>1, <4>2, PadNothing
        <4> QED
            BY <3>1, <4>3 DEF z
      <3> HIDE DEF x, y, p
      <3> QED
          BY <1>1, <1>2, <2>2, <2>3, <3>1, <3>3, <3>4
    <2> QED
        BY <2>4, <2>5
  <1> QED
      BY <1>1, <1>3, <1>4

LEMMA ProcessMarlinOrder ==
  OrderIsKept /\ OrderInv /\ ProcessMarlinExperts => Served(layer, w13', w2') /\ w13Scale' = w13'
  <1> SUFFICES ASSUME OrderIsKept, OrderInv, ProcessMarlinExperts
               PROVE  Served(layer, w13', w2') /\ w13Scale' = w13'
      OBVIOUS
  <1>1. /\ layer \in ExpertLayers /\ layer.inner \in Nat /\ layer.gated \in BOOLEAN
        /\ layer.method = "fp4" /\ layer.backend = "marlin"
        /\ AsLoaded /\ Complete /\ w13' = Ordered(w13) /\ w13Scale' = w13' /\ w2' = Columns(layer)
      BY LayersAre DEF OrderInv, ProcessMarlinExperts, AsLoaded
  <1>2. CASE layer.gated
      BY <1>1, <1>2, OrderedHalves, HalvesAreServed
  <1>3. CASE ~ layer.gated
    <2>1. Ordered(w13) = w13
        BY <1>1, <1>3, LayersAre DEF Ordered, MustDeinterleave
    <2>2. OneHalf(w13, layer.inner)
        BY <1>1, <1>3, LoadedSingle DEF AsLoaded
    <2> QED
        BY <1>1, <1>3, <2>1, <2>2, SingleLayer
  <1> QED
      BY <1>1, <1>2, <1>3

LEMMA ProcessLm20Order == OrderIsKept /\ OrderInv /\ ProcessLm20 => Served(layer, w13', w2') /\ w13Scale' = w13'
  <1> SUFFICES ASSUME OrderIsKept, OrderInv, ProcessLm20
               PROVE  Served(layer, w13', w2') /\ w13Scale' = w13'
      OBVIOUS
  <1>1. /\ layer \in ExpertLayers /\ layer.inner \in Nat /\ layer.gated \in BOOLEAN
        /\ layer.method = "lm20" /\ layer.backend = "triton" /\ ~ layer.interleaved
        /\ AsLoaded /\ w13' = w13 /\ w13Scale' = w13 /\ w2' = Columns(layer)
      BY LayersAre DEF OrderInv, ProcessLm20, AsLoaded
  <1>2. CASE layer.gated
    <2>1. PutsFirst(layer) = TakesFirst(layer)
        BY <1>1, <1>2 DEF PutsFirst, TakesFirst, OrderIsKept, HalvesInOrder
    <2> QED
        BY <1>1, <1>2, <2>1, LoadedLength, HalvesAreServed
  <1>3. CASE ~ layer.gated
      BY <1>1, <1>3, LoadedLength, SingleLayer
  <1> QED
      BY <1>1, <1>2, <1>3

\* The requantized rows are the loaded ones, all by one scale.
LEMMA RequantizedRows ==
  ASSUME layer \in ExpertLayers, AsLoaded, layer.method = "fp8", layer.gated => HalvesInOrder(layer)
  PROVE  /\ Requantized \in Seq(RowSet) /\ Len(Requantized) = Len(w13)
         /\ layer.gated =>
              /\ Len(w13) = 2 * layer.inner
              /\ \A i \in 0 .. layer.inner - 1 :
                   /\ IsRow(Requantized[i + 1], PutsFirst(layer), i)
                   /\ IsRow(Requantized[layer.inner + i + 1], Other(PutsFirst(layer)), i)
         /\ ~ layer.gated => OneHalf(Requantized, layer.inner)
  <1> DEFINE n == layer.inner  m == Len(w13)  s == Requantized
             b == Max({ShardScale(layer, h) : h \in Halves(layer)})  f == PutsFirst(layer)
  <1>1. /\ n \in Nat \ {0} /\ ~ layer.interleaved /\ layer.gated \in BOOLEAN
        /\ layer.gated => m = 2 * n /\ TwoHalves(layer, w13, f, n)
        /\ ~ layer.gated => m = n /\ OneHalf(w13, n)
    <2>1. n \in Nat \ {0} /\ ~ layer.interleaved /\ layer.gated \in BOOLEAN
        BY LayersAre
    <2> QED
        BY <2>1, LoadedLength
  <1>2. w13 \in Seq(RowSet) /\ m \in Nat /\ DOMAIN w13 = 1 .. m
      BY <1>1, LenProperties DEF TwoHalves, OneHalf
  <1>3. b = 2
    <2>1. \/ {ShardScale(layer, h) : h \in Halves(layer)} = {1, 2}
          \/ {ShardScale(layer, h) : h \in Halves(layer)} = {2}
      <3>1. layer.twoScales => layer.gated
          BY LayersAre
      <3>2. CASE layer.twoScales
          BY <3>1, <3>2 DEF ShardScale, Halves
      <3>3. CASE ~ layer.twoScales
          BY <3>3 DEF ShardScale, Halves
      <3> QED
          BY <3>2, <3>3
    <2>2. Max({1, 2}) = 2 /\ Max({2}) = 2
        BY DEF Max
    <2> QED
        BY <2>1, <2>2
  <1>10. layer.gated => /\ ShardScale(layer, f) = ShardScale(layer, "gate")
                        /\ ShardScale(layer, Other(f)) = ShardScale(layer, "up")
    <2>1. CASE layer.gated /\ LoadedUpFirst(layer)
      <3>1. ~ layer.twoScales
          BY <1>1, <2>1 DEF HalvesInOrder
      <3> QED
          BY <3>1 DEF ShardScale
    <2>2. CASE ~ LoadedUpFirst(layer)
        BY <2>2 DEF PutsFirst, Other
    <2> QED
        BY <2>1, <2>2
  <1>4. ASSUME NEW k \in 1 .. m
        PROVE  w13[k].by = ShardScale(layer, ShardAt(k)) /\ w13[k] \in RowSet
    <2>1. w13[k] \in RowSet
        BY <1>2, ElementOfSeq
    <2>2. CASE layer.gated /\ k <= n
      <3>1. k - 1 \in 0 .. n - 1 /\ (k - 1) + 1 = k
          BY <1>1, <2>2
      <3>2. w13[k] = Row(f, k - 1, ShardScale(layer, f))
          BY <1>1, <2>2, <3>1 DEF TwoHalves
      <3>3. ShardScale(layer, f) = ShardScale(layer, "gate")
          BY <2>2, <1>10
      <3> QED
          BY <2>1, <2>2, <3>2, <3>3 DEF ShardAt, Row
    <2>3. CASE layer.gated /\ ~ (k <= n)
      <3>1. k - n - 1 \in 0 .. n - 1 /\ n + (k - n - 1) + 1 = k
          BY <1>1, <2>3
      <3>2. w13[k] = Row(Other(f), k - n - 1, ShardScale(layer, Other(f)))
          BY <1>1, <2>3, <3>1 DEF TwoHalves
      <3>3. ShardScale(layer, Other(f)) = ShardScale(layer, "up")
          BY <2>3, <1>10
      <3> QED
          BY <2>1, <2>3, <3>2, <3>3 DEF ShardAt, Row
    <2>4. CASE ~ layer.gated
      <3>1. k - 1 \in 0 .. n - 1 /\ (k - 1) + 1 = k
          BY <1>1, <2>4
      <3>2. w13[k] = Row("up", k - 1, 2)
          BY <1>1, <2>4, <3>1 DEF OneHalf
      <3> QED
          BY <2>1, <2>4, <3>2 DEF ShardAt, ShardScale, Row
    <2> QED
        BY <1>1, <2>2, <2>3, <2>4
  <1>5. s = [k \in 1 .. m |-> [w13[k] EXCEPT !.by = 2]]
    <2>1. s = [k \in 1 .. m |-> IF w13[k].by = ShardScale(layer, ShardAt(k)) THEN [w13[k] EXCEPT !.by = b]
                                ELSE Padding]
        BY <1>2 DEF Requantized
    <2> HIDE DEF s, b
    <2> QED
        BY <1>3, <1>4, <2>1
  <1> HIDE DEF s
  <1>6. \A k \in 1 .. m : s[k] \in RowSet /\ s[k].half = w13[k].half /\ s[k].i = w13[k].i /\ s[k].by = 2
    <2>1. \A x \in RowSet : LET y == [x EXCEPT !.by = 2] IN
             y \in RowSet /\ y.half = x.half /\ y.i = x.i /\ y.by = 2
        BY DEF RowSet
    <2> QED
        BY <1>4, <1>5, <2>1
  <1>7. s \in Seq(RowSet) /\ Len(s) = m
    <2>1. s \in [1 .. m -> RowSet]
        BY <1>5, <1>6
    <2> HIDE DEF m
    <2> QED
        BY <1>2, <2>1 DEF Seq
  <1>8. ASSUME layer.gated, NEW i \in 0 .. n - 1
        PROVE  IsRow(s[i + 1], f, i) /\ IsRow(s[n + i + 1], Other(f), i)
    <2>1. i + 1 \in 1 .. m /\ n + i + 1 \in 1 .. m
        BY <1>1, <1>8
    <2>2. /\ w13[i + 1] = Row(f, i, ShardScale(layer, f))
          /\ w13[n + i + 1] = Row(Other(f), i, ShardScale(layer, Other(f)))
        BY <1>1, <1>8 DEF TwoHalves
    <2> QED
        BY <1>6, <2>1, <2>2 DEF IsRow, Row
  <1>9. ASSUME ~ layer.gated, NEW i \in 0 .. n - 1
        PROVE  s[i + 1] = Row("up", i, 2)
    <2>1. i + 1 \in 1 .. m
        BY <1>1, <1>9
    <2>2. w13[i + 1] = Row("up", i, 2)
        BY <1>1, <1>9 DEF OneHalf
    <2> QED
        BY <1>6, <2>1, <2>2 DEF RowSet, Row
  <1> QED
      BY <1>1, <1>7, <1>8, <1>9 DEF OneHalf, s

\* Each half padded on its own.
LEMMA PaddedHalvesAre ==
  ASSUME layer.gated, layer.inner \in Nat, NEW s, s \in Seq(RowSet), Len(s) = 2 * layer.inner, HalfPad \in Nat,
         NEW f,
         \A i \in 0 .. layer.inner - 1 : IsRow(s[i + 1], f, i) /\ IsRow(s[layer.inner + i + 1], Other(f), i)
  PROVE  PaddedHalvesOf(PaddedHalves(s), f, layer.inner, HalfPad)
  <1> DEFINE n == layer.inner  p == HalfPad  S == RowSet \union {Padding}
             a == SubSeq(s, 1, n)  c == SubSeq(s, n + 1, 2 * n)  pa == Pad(a, p)  pc == Pad(c, p)
  <1>1. n \in Nat /\ p \in Nat
      OBVIOUS
  <1>2. /\ a \in Seq(RowSet) /\ Len(a) = n /\ \A k \in 1 .. n : a[k] = s[k]
        /\ c \in Seq(RowSet) /\ Len(c) = n /\ \A k \in 1 .. n : c[k] = s[n + k]
    <2> HIDE DEF n
    <2>1. a \in Seq(RowSet) /\ Len(a) = n /\ \A k \in 1 .. n : a[k] = s[k]
      <3>1. 1 \in 1 .. Len(s) + 1 /\ n \in 0 .. Len(s) /\ Len(s) = 2 * n
          BY <1>1 DEF n
      <3> QED
          BY <1>1, <3>1
    <2>2. c \in Seq(RowSet) /\ Len(c) = n /\ \A k \in 1 .. n : c[k] = s[n + k]
      <3>1. n + 1 \in 1 .. Len(s) + 1 /\ 2 * n \in 0 .. Len(s) /\ Len(s) = 2 * n
          BY <1>1 DEF n
      <3> QED
          BY <1>1, <3>1
    <2> QED
        BY <2>1, <2>2
  <1> HIDE DEF a, c
  <1>3. /\ pa \in Seq(S) /\ Len(pa) = n + p /\ \A k \in 1 .. n + p : pa[k] = IF k <= n THEN a[k] ELSE Padding
        /\ pc \in Seq(S) /\ Len(pc) = n + p /\ \A k \in 1 .. n + p : pc[k] = IF k <= n THEN c[k] ELSE Padding
    <2> HIDE DEF n, p
    <2>1. a \in Seq(RowSet) /\ Len(a) = n /\ c \in Seq(RowSet) /\ Len(c) = n
        BY <1>2
    <2>2. /\ pa \in Seq(S) /\ Len(pa) = Len(a) + p
          /\ \A k \in 1 .. Len(a) + p : pa[k] = IF k <= Len(a) THEN a[k] ELSE Padding
        BY <1>1, <2>1, PaddedIs
    <2>3. /\ pc \in Seq(S) /\ Len(pc) = Len(c) + p
          /\ \A k \in 1 .. Len(c) + p : pc[k] = IF k <= Len(c) THEN c[k] ELSE Padding
        BY <1>1, <2>1, PaddedIs
    <2> HIDE DEF pa, pc
    <2> QED
        BY <2>1, <2>2, <2>3
  <1> HIDE DEF pa, pc, p
  <1>4. /\ Len(pa \o pc) = 2 * (n + p)
        /\ \A k \in 1 .. 2 * (n + p) : (pa \o pc)[k] = IF k <= n + p THEN pa[k] ELSE pc[k - (n + p)]
    <2>1. /\ Len(pa \o pc) = Len(pa) + Len(pc)
          /\ \A k \in 1 .. Len(pa) + Len(pc) : (pa \o pc)[k] = IF k <= Len(pa) THEN pa[k] ELSE pc[k - Len(pa)]
        BY <1>3, ConcatProperties
    <2>2. Len(pa) + Len(pc) = 2 * (n + p) /\ Len(pa) = n + p
        BY <1>1, <1>3
    <2> HIDE DEF n
    <2> QED
        BY <2>1, <2>2
  <1>5. PaddedHalves(s) = pa \o pc
      BY DEF PaddedHalves, pa, pc, a, c, p
  <1>6. ASSUME NEW i \in 0 .. n + p - 1
        PROVE  IF i < n THEN IsRow((pa \o pc)[i + 1], f, i) /\ IsRow((pa \o pc)[n + p + i + 1], Other(f), i)
                        ELSE (pa \o pc)[i + 1] = Padding /\ (pa \o pc)[n + p + i + 1] = Padding
    <2>1. /\ i + 1 \in 1 .. 2 * (n + p) /\ i + 1 <= n + p /\ i + 1 \in 1 .. n + p
          /\ n + p + i + 1 \in 1 .. 2 * (n + p) /\ ~ (n + p + i + 1 <= n + p) /\ (n + p + i + 1) - (n + p) = i + 1
          /\ (i + 1 <= n <=> i < n)
      <3> HIDE DEF n
      <3> QED
          BY <1>1
    <2>2. (pa \o pc)[i + 1] = pa[i + 1] /\ (pa \o pc)[n + p + i + 1] = pc[i + 1]
        BY <1>4, <2>1
    <2>3. CASE i < n
      <3>1. i \in 0 .. n - 1 /\ i + 1 \in 1 .. n /\ n + (i + 1) = n + i + 1
          BY <1>1, <2>3
      <3>2. a[i + 1] = s[i + 1] /\ c[i + 1] = s[n + (i + 1)]
          BY <1>2, <3>1
      <3>3. pa[i + 1] = a[i + 1] /\ pc[i + 1] = c[i + 1]
          BY <1>3, <2>1, <2>3
      <3>4. pa[i + 1] = s[i + 1] /\ pc[i + 1] = s[n + i + 1]
          BY <3>1, <3>2, <3>3
      <3> QED
          BY <2>2, <2>3, <3>1, <3>4
    <2>4. CASE ~ (i < n)
        BY <1>3, <2>1, <2>2, <2>4
    <2> QED
        BY <2>3, <2>4
  <1> QED
      BY <1>4, <1>5, <1>6 DEF PaddedHalvesOf, p

LEMMA ProcessFp8Order == OrderIsKept /\ OrderInv /\ ProcessFp8Experts => Served(layer, w13', w2') /\ w13Scale' = w13'
  <1> SUFFICES ASSUME OrderIsKept, OrderInv, ProcessFp8Experts
               PROVE  Served(layer, w13', w2') /\ w13Scale' = w13'
      OBVIOUS
  <1> DEFINE n == layer.inner  s == Requantized  p == HalfPad  f == TakesFirst(layer)
  <1>1. /\ layer \in ExpertLayers /\ n \in Nat /\ layer.gated \in BOOLEAN
        /\ layer.method = "fp8" /\ layer.backend \in {"triton", "flashinfer_cutlass"}
        /\ AsLoaded /\ w13Scale' = w13'
        /\ w13' = IF layer.backend = "flashinfer_cutlass" THEN PaddedHalves(s) ELSE s
        /\ w2' = IF layer.backend = "flashinfer_cutlass" THEN Pad(Columns(layer), p) ELSE Columns(layer)
      BY LayersAre DEF OrderInv, ProcessFp8Experts, AsLoaded
  <1>2. p \in Nat
      BY <1>1, RoundsUp, ExpertAssumption DEF HalfPad
  <1>3. /\ s \in Seq(RowSet) /\ Len(s) = Len(w13)
        /\ layer.gated => /\ Len(w13) = 2 * n
                          /\ \A i \in 0 .. n - 1 : IsRow(s[i + 1], f, i) /\ IsRow(s[n + i + 1], Other(f), i)
        /\ ~ layer.gated => OneHalf(s, n)
    <2>1. HalvesInOrder(layer)
        BY <1>1 DEF OrderIsKept
    <2>2. layer.gated => f = PutsFirst(layer)
        BY <1>1, <2>1, LayersAre DEF PutsFirst, TakesFirst, HalvesInOrder
    <2> QED
        BY <1>1, <2>1, <2>2, RequantizedRows
  <1> HIDE DEF s
  <1>5. CASE ~ layer.gated
    <2>1. PaddedHalves(s) = Pad(s, p)
        BY <1>5 DEF PaddedHalves
    <2> HIDE DEF p
    <2> QED
        BY <1>1, <1>2, <1>3, <1>5, <2>1, SingleLayer
  <1>6. CASE layer.gated /\ layer.backend = "flashinfer_cutlass"
    <2>1. PaddedHalvesOf(PaddedHalves(s), f, n, p)
        BY <1>1, <1>2, <1>3, <1>6, PaddedHalvesAre
    <2>2. PaddedColumns(layer, Pad(Columns(layer), p), p)
        BY <1>1, <1>2, ColumnsAreColumns
    <2> DEFINE x == PaddedHalves(s)  c == Pad(Columns(layer), p)
    <2>3. w13' = x /\ w2' = c
        BY <1>1, <1>6
    <2> HIDE DEF x, c, p
    <2>4. layer.backend # "cutedsl_v2"
        BY <1>6
    <2>5. Served(layer, x, c)
        BY <1>1, <1>2, <1>6, <2>1, <2>2, <2>4, PaddedHalvesAreServed DEF x, c
    <2> QED
        BY <1>1, <2>3, <2>5
  <1>7. CASE layer.gated /\ layer.backend = "triton"
    <2>1. PaddedHalvesOf(s, f, n, 0)
      <3>1. Len(s) = 2 * (n + 0)
          BY <1>1, <1>3, <1>7
      <3>2. ASSUME NEW i \in 0 .. n + 0 - 1
            PROVE  i < n /\ IsRow(s[i + 1], f, i) /\ IsRow(s[n + 0 + i + 1], Other(f), i)
        <4>1. i \in 0 .. n - 1 /\ n + 0 + i + 1 = n + i + 1 /\ i < n
            BY <1>1
        <4> QED
            BY <1>3, <1>7, <4>1
      <3> QED
          BY <3>1, <3>2 DEF PaddedHalvesOf
    <2>2. PaddedColumns(layer, Columns(layer), 0)
        BY <1>1, ColumnsAreColumns
    <2>3. w13' = s /\ w2' = Columns(layer) /\ layer.backend # "cutedsl_v2"
        BY <1>1, <1>7
    <2>4. Served(layer, s, Columns(layer))
        BY <1>1, <1>7, <2>1, <2>2, <2>3, PaddedHalvesAreServed
    <2> QED
        BY <1>1, <2>3, <2>4
  <1> QED
      BY <1>1, <1>5, <1>6, <1>7

LEMMA ProcessedKeepsOrder ==
  ASSUME OrderInv, layer' = layer, updates' = updates, result' = result, stage = "loading", stage' = "ready",
         Served(layer, w13', w2'), w13Scale' = w13'
  PROVE  OrderInv'
  <1>1. result' = Unset
      BY DEF OrderInv
  <1> QED
      BY <1>1 DEF OrderInv, Complete

LEMMA LoadProjectionKeepsOrder ==
  ASSUME OrderInv, NEW half, LoadProjection(half)
  PROVE  OrderInv'
  <1>1. /\ layer' = layer /\ stage = "loading" /\ stage' = "loading" /\ updates' = updates
        /\ deinterleaved' = deinterleaved /\ result' = result /\ result = Unset
      BY DEF OrderInv, LoadProjection
  <1>2. ASSUME arrived' = Halves(layer)
        PROVE  AsLoaded'
    <2>1. /\ w13' = LoadedRows(layer) /\ w13Scale' = LoadedRows(layer) /\ w2' = [i \in 1 .. layer.inner |-> i - 1]
          /\ scale2' = [e \in Locals |-> [h \in {"gate", "up"} |-> TensorScale(e, h)]]
        BY <1>2 DEF LoadProjection
    <2> QED
        BY <1>1, <2>1 DEF AsLoaded, Columns, LoadedScales, Locals, TensorScale, Global
  <1>3. Complete' => AsLoaded'
      BY <1>1, <1>2 DEF Complete
  <1> QED
      BY <1>1, <1>3 DEF OrderInv

LEMMA ForwardKeepsOrder == OrderInv /\ Forward => OrderInv'
  <1> SUFFICES ASSUME OrderInv, Forward
               PROVE  OrderInv'
      OBVIOUS
  <1>1. /\ layer' = layer /\ w13' = w13 /\ w13Scale' = w13Scale /\ w2' = w2 /\ updates' = updates
        /\ stage = "ready" /\ stage' = "done" /\ result' = Computed
      BY DEF Forward, Computed
  <1>2. Computed' = Computed
      BY <1>1 DEF Computed, Channels, Halves, KernelRow, CuteDslV2, KernelUpFirst
  <1> QED
      BY <1>1, <1>2 DEF OrderInv, Complete

LEMMA UpdateKeepsOrder == OrderIsKept /\ OrderInv /\ UpdateWeights => OrderInv'
  <1> SUFFICES ASSUME OrderIsKept, OrderInv, UpdateWeights
               PROVE  OrderInv'
      OBVIOUS
  <1>1. /\ layer \in ExpertLayers /\ layer' = layer /\ updates \in Nat /\ updates < layer.updates /\ updates' = updates + 1
        /\ stage' = "loading" /\ arrived' = {} /\ result' = Unset
      BY DEF OrderInv, UpdateWeights
  <1>2. ~ layer.interleaved
    <2>1. layer.interleaved => layer.gated
        BY <1>1, LayersAre
    <2>2. layer.gated /\ layer.interleaved => layer.updates = 0
        BY <1>1 DEF OrderIsKept, HalvesInOrder
    <2> QED
        BY <1>1, <2>1, <2>2
  <1>3. ~ Complete'
      BY <1>1 DEF Complete, Halves
  <1> QED
      BY <1>1, <1>2, <1>3 DEF OrderInv

LEMMA RefuseKeepsOrder == OrderInv /\ RefuseFp4 => OrderInv'
  BY DEF OrderInv, RefuseFp4, Complete

LEMMA ExpertStepKeepsOrder == OrderIsKept /\ OrderInv /\ ExpertNext => OrderInv'
  <1> SUFFICES ASSUME OrderIsKept, OrderInv, ExpertNext
               PROVE  OrderInv'
      OBVIOUS
  <1>1. CASE ProcessFp4
    <2>1. layer' = layer /\ updates' = updates /\ result' = result /\ stage = "loading" /\ stage' = "ready"
        BY <1>1 DEF ProcessFp4, Complete
    <2> QED
        BY <1>1, <2>1, ProcessFp4Order, ProcessedKeepsOrder
  <1>2. CASE ProcessMarlinExperts
    <2>1. layer' = layer /\ updates' = updates /\ result' = result /\ stage = "loading" /\ stage' = "ready"
        BY <1>2 DEF ProcessMarlinExperts, Complete
    <2> QED
        BY <1>2, <2>1, ProcessMarlinOrder, ProcessedKeepsOrder
  <1>3. CASE ProcessLm20
    <2>1. layer' = layer /\ updates' = updates /\ result' = result /\ stage = "loading" /\ stage' = "ready"
        BY <1>3 DEF ProcessLm20, Complete
    <2> QED
        BY <1>3, <2>1, ProcessLm20Order, ProcessedKeepsOrder
  <1>4. CASE ProcessFp8Experts
    <2>1. layer' = layer /\ updates' = updates /\ result' = result /\ stage = "loading" /\ stage' = "ready"
        BY <1>4 DEF ProcessFp8Experts, Complete
    <2> QED
        BY <1>4, <2>1, ProcessFp8Order, ProcessedKeepsOrder
  <1> QED
      BY <1>1, <1>2, <1>3, <1>4, LoadProjectionKeepsOrder, ForwardKeepsOrder, UpdateKeepsOrder, RefuseKeepsOrder
      DEF ExpertNext

\* What the kernel computes from a layer that is served.
LEMMA ServedStaysTogether == OrderInv => ChannelsStayTogether
  <1> SUFFICES ASSUME OrderInv, result # Unset
               PROVE  ChannelsStayTogether
      BY DEF ChannelsStayTogether
  <1> DEFINE l == layer  n == Len(w13)  w == Width(l, n)
             Own(i, c) == /\ result[i].down = c
                          /\ \A h \in Halves(l) :
                               /\ result[i].rows[h] # Padding
                               /\ result[i].rows[h].half = h /\ result[i].rows[h].i = c
                               /\ result[i].scales[h] = result[i].rows[h]
             None0(i) == result[i].down = Padding /\ \A h \in Halves(l) : result[i].rows[h] = Padding
  <1>1. /\ l \in ExpertLayers /\ l.inner \in Nat /\ result = Computed
        /\ Served(l, w13, w2) /\ w13Scale = w13 /\ l.gated \in BOOLEAN
      BY LayersAre DEF OrderInv
  <1>2. Channels = 0 .. w - 1 /\ w \in Nat /\ l.inner <= w
      BY <1>1 DEF Channels, Width, Served
  <1>3. \A h, i : KernelRow(h, i) = TakenRow(l, n, h, i)
      BY DEF KernelRow, TakenRow, TakesFirst, CuteDslV2
  <1>4. ASSUME NEW i \in Channels
        PROVE  /\ result[i].down = IF i < l.inner THEN i ELSE Padding
               /\ \A h \in Halves(l) :
                    /\ result[i].scales[h] = result[i].rows[h]
                    /\ i < l.inner => /\ result[i].rows[h] \in RowSet
                                      /\ result[i].rows[h].half = h /\ result[i].rows[h].i = i
                    /\ ~ (i < l.inner) => result[i].rows[h] = Padding
    <2>1. /\ result[i].down = w2[i + 1]
          /\ \A h \in Halves(l) : /\ result[i].rows[h] = w13[TakenRow(l, n, h, i)]
                                  /\ result[i].scales[h] = result[i].rows[h]
        BY <1>1, <1>3 DEF Computed
    <2>2. i \in 0 .. w - 1
        BY <1>2
    <2> HIDE DEF n, w
    <2>3. /\ w2[i + 1] = IF i < l.inner THEN i ELSE Padding
          /\ \A h \in Halves(l) :
               /\ i < l.inner => /\ w13[TakenRow(l, n, h, i)] \in RowSet
                                 /\ w13[TakenRow(l, n, h, i)].half = h
                                 /\ w13[TakenRow(l, n, h, i)].i = i
               /\ ~ (i < l.inner) => w13[TakenRow(l, n, h, i)] = Padding
        BY <1>1, <2>2 DEF Served, n, w
    <2> QED
        BY <2>1, <2>3
  <1>5. Padding \notin RowSet
      BY ExpertAssumption DEF RowSet
  <1>6. ASSUME NEW i \in Channels
        PROVE  /\ i < l.inner => Own(i, i)
               /\ ~ (i < l.inner) => None0(i)
      BY <1>4, <1>5
  <1>7. \E h : h \in Halves(l)
      BY DEF Halves
  <1>8. ASSUME NEW c \in 0 .. l.inner - 1, NEW i \in Channels, Own(i, c)
        PROVE  i = c
    <2>1. PICK h : h \in Halves(l)
        BY <1>7
    <2>2. i < l.inner
        BY <1>4, <1>8, <2>1
    <2> QED
        BY <1>4, <1>8, <2>2
  <1>9. ASSUME NEW c \in 0 .. l.inner - 1
        PROVE  Cardinality({i \in Channels : Own(i, c)}) = 1
    <2>1. c \in Channels /\ c < l.inner
        BY <1>1, <1>2
    <2>2. Own(c, c)
        BY <1>6, <2>1
    <2>3. \A i \in Channels : Own(i, c) => i = c
        BY <1>8
    <2> HIDE DEF Own
    <2>4. {i \in Channels : Own(i, c)} = {c}
        BY <2>1, <2>2, <2>3
    <2> QED
        BY <2>4, FS_Singleton
  <1>10. \A i \in Channels : None0(i) \/ \E c \in 0 .. l.inner - 1 : Own(i, c)
    <2> SUFFICES ASSUME NEW i \in Channels
                 PROVE  None0(i) \/ \E c \in 0 .. l.inner - 1 : Own(i, c)
        OBVIOUS
    <2>1. i \in Nat
        BY <1>2
    <2>2. i < l.inner => i \in 0 .. l.inner - 1
        BY <1>1, <2>1
    <2> HIDE DEF Own, None0
    <2> QED
        BY <1>6, <2>2
  <1> QED
      BY <1>9, <1>10 DEF ChannelsStayTogether

\* Until an expert layer is picked there is none.
ExpertRows ==
    /\ part # "experts" => ExpertsIdle
    /\ part = "experts" => OrderInv

LEMMA ExpertRowsStep == OrderIsKept /\ ExpertRows /\ [LoadNext]_loadVars => ExpertRows'
  <1> SUFFICES ASSUME OrderIsKept, ExpertRows, [LoadNext]_loadVars
               PROVE  ExpertRows'
      OBVIOUS
  <1>1. CASE PickExperts
    <2>1. part = "config" /\ ExpertsIdle
        BY <1>1 DEF PickExperts, ExpertRows
    <2>2. /\ layer' \in ExpertLayers /\ stage' = "loading" /\ arrived' = {} /\ part' = "experts"
          /\ deinterleaved' = FALSE /\ updates' = 0 /\ result' = Unset
        BY <1>1, <2>1, PickedExperts
    <2>3. ~ Complete'
        BY <2>2 DEF Complete, Halves
    <2> QED
        BY <2>2, <2>3 DEF ExpertRows, OrderInv
  <1>2. CASE part = "experts" /\ ExpertNext /\ UNCHANGED <<part, quantVars, denseVars>>
      BY <1>2, ExpertStepKeepsOrder DEF ExpertRows
  <1>3. CASE UNCHANGED <<part, expertVars>>
    <2>1. CASE part # "experts"
        BY <1>3, <2>1 DEF ExpertRows, ExpertsIdle, expertVars
    <2>2. CASE part = "experts"
      <3>1. UNCHANGED expertVars /\ part' = part
          BY <1>3
      <3>2. AsLoaded' = AsLoaded /\ Complete' = Complete
          BY <3>1 DEF expertVars, AsLoaded, LoadedScales, Complete, Locals, TensorScale, Global
      <3>3. Computed' = Computed
          BY <3>1 DEF expertVars, Computed, Channels, Halves, KernelRow, CuteDslV2, KernelUpFirst
      <3>4. layer' = layer /\ updates' = updates /\ deinterleaved' = deinterleaved /\ stage' = stage
            /\ w13' = w13 /\ w2' = w2 /\ w13Scale' = w13Scale /\ result' = result
          BY <3>1 DEF expertVars
      <3>5. OrderInv'
          BY <2>2, <3>2, <3>3, <3>4 DEF ExpertRows, OrderInv
      <3> QED
          BY <2>2, <3>1, <3>5 DEF ExpertRows
    <2> QED
        BY <2>1, <2>2
  <1>4. CASE PickLinear
    <2>1. part = "config" /\ part' = "linear" /\ UNCHANGED expertVars
        BY <1>4 DEF PickLinear
    <2> QED
        BY <2>1 DEF ExpertRows, ExpertsIdle, expertVars
  <1>5. \/ PickLinear \/ PickExperts \/ UNCHANGED <<part, expertVars>>
        \/ part = "experts" /\ ExpertNext /\ UNCHANGED <<part, quantVars, denseVars>>
      BY DEF LoadNext, loadVars
  <1> QED
      BY <1>1, <1>2, <1>3, <1>4, <1>5

\* Gate row, up row and w2 column of a channel meet in the kernel, each row with its own
\* block scales, whatever the backend's order of the halves, its chunks and its padding.
\* OrderIsKept leaves out the layers whose halves do not reach the kernel in its order:
\* loaded in another than the kernel's, interleaved for a kernel that takes up first and
\* is not TRT-LLM's, or interleaved and loaded again (HalvesInOrder).
THEOREM ExpertChannelsStayTogether ==
  ASSUME OrderIsKept
  PROVE  LoadSpec => []ChannelsStayTogether
  <1>1. LoadInit => ExpertRows
      BY DEF LoadInit, ExpertRows
  <1>2. ExpertRows /\ [LoadNext]_loadVars => ExpertRows'
      BY ExpertRowsStep
  <1>3. ExpertRows => ChannelsStayTogether
      BY ServedStaysTogether DEF ExpertRows, ChannelsStayTogether, ExpertsIdle
  <1> QED
      BY <1>1, <1>2, <1>3, PTL DEF LoadSpec

-----------------------------------------------------------------------------
(* The projections of a linear layer.                                      *)

\* A set of naturals has a least element.
LEMMA LeastElement ==
  ASSUME NEW T, T \subseteq Nat, T # {}
  PROVE  \E x \in T : \A y \in T : x <= y
  <1> DEFINE R == {ss \in Nat \X Nat : ss[1] < ss[2]}
  <1>1. IsWellFoundedOn(R, Nat)
      BY NatLessThanWellFounded DEF OpToRel
  <1>2. \E x \in T : \A y \in T : ~ (<<y, x>> \in R)
    <2> HIDE DEF R
    <2> QED
        BY <1>1, WFMin
  <1>3. \A x, y \in T : ~ (<<y, x>> \in R) => x <= y
      OBVIOUS
  <1>4. QED
      BY <1>2, <1>3

\* Induction up to n, over a set.
LEMMA Climb ==
  ASSUME NEW n \in Nat, NEW S, 0 \in S, \A i \in 0 .. n - 1 : i \in S => i + 1 \in S
  PROVE  \A i \in 0 .. n : i \in S
  <1> DEFINE T == {i \in 0 .. n : i \notin S}
  <1> SUFFICES ASSUME T # {} PROVE FALSE
      OBVIOUS
  <1>1. PICK x \in T : \A y \in T : x <= y
    <2>1. T \subseteq Nat
        OBVIOUS
    <2> HIDE DEF T
    <2> QED
        BY <2>1, LeastElement
  <1>2. x \in 1 .. n
      OBVIOUS
  <1>3. x - 1 \in 0 .. n - 1 /\ x - 1 \notin T
      BY <1>1, <1>2
  <1>4. QED
      BY <1>2, <1>3

\* t[i] is the sum of the first i of n counts.
IsSums(t, c, n) ==
  /\ t \in [0 .. n -> Nat]
  /\ t[0] = 0
  /\ \A i \in 1 .. n : t[i] = t[i - 1] + c[i]

LEMMA SumsAreSums ==
  ASSUME NEW n \in Nat, NEW c, c \in [1 .. n -> Nat], Len(c) = n
  PROVE  IsSums(Offsets(c), c, n)
  <1> DEFINE Is(t, k) == t = [i \in 0 .. k |-> IF i = 0 THEN 0 ELSE t[i - 1] + c[i]]
             S == {k \in 0 .. n : \E t \in [0 .. k -> Nat] : Is(t, k)}
  <1>1. 0 \in S
    <2> DEFINE t == [i \in 0 .. 0 |-> 0]
    <2>1. t \in [0 .. 0 -> Nat] /\ Is(t, 0)
        OBVIOUS
    <2> HIDE DEF t, Is
    <2> QED
        BY <2>1
  <1>2. ASSUME NEW k \in 0 .. n - 1, k \in S PROVE k + 1 \in S
    <2>1. PICK t \in [0 .. k -> Nat] : Is(t, k)
        BY <1>2
    <2> DEFINE u == [i \in 0 .. k + 1 |-> IF i = k + 1 THEN t[k] + c[k + 1] ELSE t[i]]
    <2>a. ASSUME NEW i \in 0 .. k + 1 PROVE (IF i = k + 1 THEN t[k] + c[k + 1] ELSE t[i]) \in Nat
      <3>1. t[k] \in Nat /\ c[k + 1] \in Nat
          OBVIOUS
      <3>2. i # k + 1 => i \in 0 .. k
          OBVIOUS
      <3> QED
          BY <3>1, <3>2
    <2>2. u \in [0 .. k + 1 -> Nat]
        BY <2>a
    <2>3. ASSUME NEW i \in 0 .. k + 1
          PROVE  u[i] = IF i = 0 THEN 0 ELSE u[i - 1] + c[i]
      <3>1. CASE i = k + 1
          BY <3>1
      <3>2. CASE i \in 0 .. k
        <4>1. t[i] = IF i = 0 THEN 0 ELSE t[i - 1] + c[i]
            BY <2>1, <3>2
        <4> QED
            BY <3>2, <4>1
      <3> QED
          BY <3>1, <3>2
    <2>4. Is(u, k + 1)
      <3> HIDE DEF u
      <3>1. u = [i \in 0 .. k + 1 |-> u[i]]
          BY <2>2
      <3> QED
          BY <3>1, <2>3
    <2>5. \E t2 \in [0 .. k + 1 -> Nat] : Is(t2, k + 1)
      <3> HIDE DEF u, Is
      <3> QED
          BY <2>2, <2>4
    <2>6. k + 1 \in 0 .. n
        OBVIOUS
    <2> HIDE DEF Is
    <2> QED
        BY <2>5, <2>6
  <1>3. n \in S
    <2> HIDE DEF S
    <2>1. \A i \in 0 .. n : i \in S
        BY <1>1, <1>2, Climb
    <2> QED
        BY <2>1
  <1>4. PICK f \in [0 .. n -> Nat] : Is(f, n)
      BY <1>3
  <1>5. Offsets(c) = CHOOSE t : Is(t, n)
      BY DEF Offsets
  <1>6. Is(Offsets(c), n)
    <2> HIDE DEF Is
    <2> QED
        BY <1>4, <1>5
  <1> DEFINE s == Offsets(c)
  <1>7. s = [i \in 0 .. n |-> IF i = 0 THEN 0 ELSE s[i - 1] + c[i]]
      BY <1>6
  <1> HIDE DEF s
  <1>8. s[0] = 0 /\ \A i \in 1 .. n : s[i] = s[i - 1] + c[i]
      BY <1>7
  <1>9. \A i \in 0 .. n : s[i] \in Nat
    <2> DEFINE N == {i \in 0 .. n : s[i] \in Nat}
    <2>1. 0 \in N /\ \A i \in 0 .. n - 1 : i \in N => i + 1 \in N
      <3>1. \A i \in 0 .. n - 1 : i + 1 \in 1 .. n /\ s[i + 1] = s[i] + c[i + 1] /\ c[i + 1] \in Nat
          BY <1>8
      <3>2. 0 \in N
          BY <1>8
      <3>3. ASSUME NEW i \in 0 .. n - 1, i \in N PROVE i + 1 \in N
        <4>1. i + 1 \in 0 .. n /\ s[i + 1] = s[i] + c[i + 1] /\ c[i + 1] \in Nat
            BY <3>1
        <4>2. s[i] \in Nat
            BY <3>3
        <4>3. s[i + 1] \in Nat
            BY <4>1, <4>2
        <4> QED
            BY <4>1, <4>3
      <3> HIDE DEF N
      <3> QED
          BY <3>2, <3>3
    <2> HIDE DEF N
    <2>2. \A i \in 0 .. n : i \in N
        BY <2>1, Climb
    <2> QED
        BY <2>2 DEF N
  <1>10. s \in [0 .. n -> Nat]
      BY <1>7, <1>9
  <1> QED
      BY <1>8, <1>10 DEF IsSums, s


\* Every row below the sum is in one of the parts.
LEMMA RowsHaveParts ==
  ASSUME NEW n \in Nat, NEW c, c \in [1 .. n -> Nat], NEW t, IsSums(t, c, n), NEW r \in 0 .. t[n] - 1
  PROVE  \E i \in 1 .. n : t[i - 1] <= r /\ r < t[i]
  <1> DEFINE S == {k \in 0 .. n : t[k] <= r}
  <1> SUFFICES ASSUME \A i \in 1 .. n : ~ (t[i - 1] <= r /\ r < t[i])
               PROVE  FALSE
      OBVIOUS
  <1>1. \A i \in 0 .. n : t[i] \in Nat
      BY DEF IsSums
  <1>2. t[n] \in Nat /\ r \in Nat /\ r < t[n]
      BY <1>1
  <1>3. 0 \in S
      BY <1>2 DEF IsSums
  <1>4. ASSUME NEW k \in 0 .. n - 1, k \in S PROVE k + 1 \in S
    <2>1. k + 1 \in 1 .. n /\ (k + 1) - 1 = k /\ k + 1 \in 0 .. n
        OBVIOUS
    <2>2. t[k] <= r /\ t[k + 1] \in Nat
        BY <1>1, <1>4, <2>1
    <2>3. ~ (r < t[k + 1])
        BY <2>1, <2>2
    <2> QED
        BY <1>2, <2>1, <2>2, <2>3
  <1>5. n \in S
    <2> HIDE DEF S
    <2>1. \A k \in 0 .. n : k \in S
        BY <1>3, <1>4, Climb
    <2> QED
        BY <2>1
  <1> QED
      BY <1>2, <1>5

RowsOf(l) == Offsets(l.parts)[Len(l.parts)]

LEMMA LinearsAre ==
  ASSUME NEW l \in Linears
  PROVE  /\ RowsOf(l) \in Nat \ {0} /\ l.k \in Nat \ {0}
         /\ l.method \in {"fp8", "fp4a16", "fp4"}
         /\ \A r \in 0 .. RowsOf(l) - 1 :
              \E i \in DOMAIN l.parts : Offsets(l.parts)[i - 1] <= r /\ r < Offsets(l.parts)[i]
  <1> DEFINE c == l.parts  n == Len(l.parts)
  <1>1. c \in Seq(Nat \ {0}) /\ c # << >> /\ l.k \in Nat \ {0} /\ l.method \in {"fp8", "fp4a16", "fp4"}
      BY DenseAssumption
  <1>2. n \in Nat \ {0} /\ DOMAIN c = 1 .. n /\ c \in [1 .. n -> Nat \ {0}]
      BY <1>1, LenProperties, EmptySeq
  <1> HIDE DEF c, n
  <1>3. c \in [1 .. n -> Nat] /\ Len(c) = n
      BY <1>2 DEF c, n
  <1>4. IsSums(Offsets(c), c, n)
      BY <1>2, <1>3, SumsAreSums
  <1>5. Offsets(c)[n] \in Nat \ {0}
    <2>1. n - 1 \in 0 .. n /\ n \in 1 .. n
        BY <1>2
    <2>2. Offsets(c)[n - 1] \in Nat /\ Offsets(c)[n] = Offsets(c)[n - 1] + c[n] /\ c[n] \in Nat \ {0}
        BY <1>2, <1>4, <2>1 DEF IsSums
    <2> QED
        BY <2>2
  <1>6. \A r \in 0 .. Offsets(c)[n] - 1 : \E i \in 1 .. n : Offsets(c)[i - 1] <= r /\ r < Offsets(c)[i]
      BY <1>2, <1>3, <1>4, RowsHaveParts
  <1> QED
      BY <1>1, <1>2, <1>5, <1>6 DEF RowsOf, c, n

-----------------------------------------------------------------------------
(* The matrices of a linear layer.                                         *)

\* Every row's own cells, and behind them padding up to column n.
Holds(m, rows, k) == \A r \in 0 .. rows - 1, c \in 0 .. k - 1 : m[<<r, c>>] = <<r, c>>
HasColumns(m, rows, k, n) ==
    /\ \E h \in Nat \ {0} : DOMAIN m = (0 .. h - 1) \X (0 .. n - 1)
    /\ \A r \in 0 .. rows - 1, c \in 0 .. n - 1 : ~ (c < k) => m[<<r, c>>] = Zero

LEMMA RoundedUp ==
  ASSUME NEW x \in Nat \ {0}, NEW m \in Nat \ {0}
  PROVE  RoundUp(x, m) \in Nat \ {0} /\ x <= RoundUp(x, m)
  <1>1. x + m - 1 \in Nat
      OBVIOUS
  <1>2. ((x + m - 1) \div m) * m <= x + m - 1 /\ x + m - 1 < ((x + m - 1) \div m) * m + m
        /\ (x + m - 1) \div m \in Nat
      BY <1>1, Division
  <1> DEFINE y == (x + m - 1) \div m  z == y * m
  <1>3. z \in Nat /\ z <= x + m - 1 /\ x + m - 1 < z + m
      BY <1>2
  <1> HIDE DEF y, z
  <1>4. z \in Nat \ {0} /\ x <= z
      BY <1>3
  <1> QED
      BY <1>4 DEF RoundUp, y, z

LEMMA RoundedUpTo ==
  ASSUME NEW x \in Nat \ {0}
  PROVE  \A m \in {2, 4, 8} : RoundUp(x, m) \in Nat \ {0} /\ x <= RoundUp(x, m)
  <1> TAKE m \in {2, 4, 8}
  <1>1. m \in Nat \ {0}
      OBVIOUS
  <1> QED
      BY ONLY <1>1, x \in Nat \ {0}, RoundedUp

LEMMA MatrixHolds ==
  ASSUME NEW rows \in Nat \ {0}, NEW k \in Nat \ {0}
  PROVE  Holds(Matrix(rows, k), rows, k) /\ HasColumns(Matrix(rows, k), rows, k, k)
  BY DEF Holds, HasColumns, Matrix

LEMMA PaddedHolds ==
  ASSUME NEW rows \in Nat \ {0}, NEW k \in Nat \ {0}, NEW h \in Nat, NEW n \in Nat, rows <= h, k <= n
  PROVE  LET m == Padded(Matrix(rows, k), h, n)
         IN  Holds(m, rows, k) /\ HasColumns(m, rows, k, n)
  <1> DEFINE a == Matrix(rows, k)  m == Padded(a, h, n)
  <1>1. /\ DOMAIN a = (0 .. rows - 1) \X (0 .. k - 1)
        /\ \A r \in 0 .. rows - 1, c \in 0 .. k - 1 : a[<<r, c>>] = <<r, c>>
      BY DEF Matrix
  <1> HIDE DEF a
  <1>2. /\ DOMAIN m = (0 .. h - 1) \X (0 .. n - 1)
        /\ \A r \in 0 .. h - 1, c \in 0 .. n - 1 :
             m[<<r, c>>] = IF <<r, c>> \in DOMAIN a THEN a[<<r, c>>] ELSE Zero
      BY DEF Padded
  <1> HIDE DEF m
  <1>3. \A r \in 0 .. rows - 1, c \in 0 .. n - 1 :
          r \in 0 .. h - 1 /\ (<<r, c>> \in DOMAIN a <=> c < k) /\ (c < k => c \in 0 .. k - 1)
    <2> TAKE r \in 0 .. rows - 1, c \in 0 .. n - 1
    <2>1. r \in 0 .. h - 1 /\ (c \in 0 .. k - 1 <=> c < k)
        OBVIOUS
    <2>2. <<r, c>> \in DOMAIN a <=> c \in 0 .. k - 1
        BY ONLY <1>1, r \in 0 .. rows - 1
    <2> QED
        BY ONLY <2>1, <2>2
  <1>4. \A c \in 0 .. k - 1 : c \in 0 .. n - 1 /\ c < k
      OBVIOUS
  <1>5. Holds(m, rows, k)
    <2> SUFFICES ASSUME NEW r \in 0 .. rows - 1, NEW c \in 0 .. k - 1
                 PROVE  m[<<r, c>>] = <<r, c>>
        BY DEF Holds
    <2>1. c \in 0 .. n - 1 /\ c < k
        BY <1>4
    <2>2. r \in 0 .. h - 1 /\ <<r, c>> \in DOMAIN a
        BY <1>3, <2>1
    <2> QED
        BY ONLY <1>1, <1>2, <2>1, <2>2, r \in 0 .. rows - 1, c \in 0 .. k - 1
  <1>6. HasColumns(m, rows, k, n)
    <2>1. h \in Nat \ {0}
        OBVIOUS
    <2>2. \E g \in Nat \ {0} : DOMAIN m = (0 .. g - 1) \X (0 .. n - 1)
        BY <1>2, <2>1
    <2>3. ASSUME NEW r \in 0 .. rows - 1, NEW c \in 0 .. n - 1, ~ (c < k)
          PROVE  m[<<r, c>>] = Zero
      <3>1. r \in 0 .. h - 1 /\ <<r, c>> \notin DOMAIN a
          BY <1>3, <2>3
      <3> QED
          BY ONLY <1>2, <3>1, c \in 0 .. n - 1
    <2> QED
        BY <2>2, <2>3 DEF HasColumns
  <1> QED
      BY <1>5, <1>6 DEF m, a

LEMMA ColumnsAreCounted ==
  ASSUME NEW m, NEW rows, NEW k, NEW n \in Nat \ {0}, HasColumns(m, rows, k, n)
  PROVE  NumCols(m) = n
  <1>1. PICK h \in Nat \ {0} : DOMAIN m = (0 .. h - 1) \X (0 .. n - 1)
      BY DEF HasColumns
  <1> DEFINE S == {x[2] : x \in DOMAIN m}
  <1>2. S = 0 .. n - 1
    <2>1. \A c \in 0 .. n - 1 : <<0, c>> \in DOMAIN m
        BY <1>1
    <2>2. ASSUME NEW c \in 0 .. n - 1 PROVE c \in S
      <3>1. <<0, c>> \in DOMAIN m /\ <<0, c>>[2] = c
          BY <2>1
      <3> QED
          BY ONLY <3>1
    <2>3. \A x \in DOMAIN m : x[2] \in 0 .. n - 1
        BY <1>1
    <2> QED
        BY <2>2, <2>3
  <1>3. Max(0 .. n - 1) = n - 1
    <2>1. n - 1 \in 0 .. n - 1 /\ \A y \in 0 .. n - 1 : n - 1 >= y
        OBVIOUS
    <2>2. \A x \in 0 .. n - 1 : (\A y \in 0 .. n - 1 : x >= y) => x = n - 1
        OBVIOUS
    <2> QED
        BY <2>1, <2>2 DEF Max
  <1> HIDE DEF S
  <1>4. Max(S) + 1 = n
      BY <1>2, <1>3
  <1> QED
      BY <1>4 DEF NumCols, S

\* What is left of the products of a row once those with padding are gone.
OwnProducts(l, r) == {Product(c, <<r, c>>, IF l.method = "fp8" THEN Zero ELSE <<r, c>>) : c \in 0 .. l.k - 1}
Summed(set) == {p \in set : Zero \notin {p.x, p.w}}

\* n products of row r, with padding behind the layer's columns.
ProductsOf(n, X, W, B) == {Product(X[c], W[c], B[c]) : c \in 0 .. n - 1}
PaddedProductsAre(l, r, n, X, W, B) ==
    \A c \in 0 .. n - 1 :
       /\ c < l.k => X[c] = c /\ W[c] = <<r, c>> /\ B[c] = IF l.method = "fp8" THEN Zero ELSE <<r, c>>
       /\ ~ (c < l.k) => X[c] = Zero

LEMMA PaddedProducts ==
  ASSUME NEW l, l.k \in Nat \ {0}, NEW n \in Nat, l.k <= n, NEW r \in Nat, NEW X, NEW W, NEW B, PaddedProductsAre(l, r, n, X, W, B)
  PROVE  Summed(ProductsOf(n, X, W, B)) = OwnProducts(l, r)
  <1> DEFINE b(c) == IF l.method = "fp8" THEN Zero ELSE <<r, c>>
             P(c) == Product(X[c], W[c], B[c])
             Q(c) == Product(c, <<r, c>>, b(c))
             k == l.k
  <1>1. \A c \in 0 .. n - 1 : P(c).x = X[c] /\ P(c).w = W[c]
      BY DEF Product
  <1>2. \A c \in 0 .. k - 1 : c \in 0 .. n - 1 /\ P(c) = Q(c) /\ Zero \notin {P(c).x, P(c).w}
    <2> TAKE c \in 0 .. k - 1
    <2>1. c \in 0 .. n - 1 /\ c < k
        OBVIOUS
    <2>2. X[c] = c /\ W[c] = <<r, c>> /\ B[c] = b(c)
        BY <2>1 DEF PaddedProductsAre
    <2>3. c # Zero /\ <<r, c>> # Zero
        BY <2>1, DenseAssumption
    <2> QED
        BY <1>1, <2>1, <2>2, <2>3
  <1>3. \A c \in 0 .. n - 1 : Zero \notin {P(c).x, P(c).w} => c \in 0 .. k - 1
    <2> TAKE c \in 0 .. n - 1
    <2>1. ~ (c < k) => Zero \in {P(c).x, P(c).w}
        BY <1>1 DEF PaddedProductsAre
    <2>2. c < k => c \in 0 .. k - 1
        OBVIOUS
    <2> QED
        BY <2>1, <2>2
  <1> HIDE DEF P, Q, k
  <1>4. Summed({P(c) : c \in 0 .. n - 1}) = {Q(c) : c \in 0 .. k - 1}
      BY <1>2, <1>3 DEF Summed
  <1> QED
      BY <1>4 DEF OwnProducts, ProductsOf, P, Q, k

-----------------------------------------------------------------------------
(* What a linear layer is, step by step.                                   *)

\* The rows the fused kernel reads are the two halves'.
ChunksHold(m, rows, k) ==
    /\ rows = 2 * (rows \div 2)
    /\ \A i \in 0 .. rows \div 2 - 1, c \in 0 .. k - 1 :
         m[<<GateRow(i), c>>] = <<i, c>> /\ m[<<UpRow(i), c>>] = <<i + rows \div 2, c>>

PackHolds(l, p) ==
    /\ l.method # "fp8" /\ p.scale.swizzles = 1
    /\ ChunksHold(p.weight, RowsOf(l), l.k) /\ ChunksHold(p.scale.cells, RowsOf(l), l.k)

WeightHolds(l, w, a) ==
    /\ Holds(w.cells, RowsOf(l), l.k)
    /\ \E n \in Nat \ {0} : l.k <= n /\ HasColumns(w.cells, RowsOf(l), l.k, n)
    /\ w.by = [r \in 0 .. RowsOf(l) - 1 |-> a]

ScaleHolds(l, s) ==
    IF l.method = "fp8" THEN s = Absent ELSE s.swizzles = 1 /\ Holds(s.cells, RowsOf(l), l.k)

Prepared(l, w, a, s, p, size) ==
    WeightHolds(l, w, a) /\ ScaleHolds(l, s) /\ (p # Absent => PackHolds(l, p)) /\ size = RowsOf(l)

SumsAreOwn(l, o) ==
    DOMAIN o = 0 .. RowsOf(l) - 1 /\ \A r \in 0 .. RowsOf(l) - 1 : Summed(o[r]) = OwnProducts(l, r)

DenseInv ==
    /\ linear \in Linears
    /\ step = "loading" => scale = Absent /\ pack = Absent
    /\ step \in {"processed", "applied"} => Prepared(linear, weight, alpha, scale, pack, outputSize)
    /\ step = "applied" => SumsAreOwn(linear, out)

\* The projections of a layer that is not fp8 share their tensor scale: the code takes
\* the largest and requantizes nothing.
ProjectionsShareScales ==
    \A l \in Linears : l.method # "fp8" => \A i, j \in DOMAIN l.scales : l.scales[i] = l.scales[j]

LEMMA ScalesAreShared ==
  ASSUME linear \in Linears, ProjectionsShareScales, linear.method # "fp8"
  PROVE  \A r \in 0 .. Rows - 1 : linear.scales[PartOf(r)] = MaxScale
  <1> DEFINE c == linear.parts  g == linear.scales
  <1>1. c \in Seq(Nat \ {0}) /\ c # << >> /\ g \in Seq(Nat) /\ Len(g) = Len(c)
      BY DenseAssumption
  <1>2. DOMAIN g = DOMAIN c /\ 1 \in DOMAIN g /\ g[1] \in Nat
      BY <1>1, LenProperties, EmptySeq, ElementOfSeq
  <1>3. \A i \in DOMAIN g : g[i] = g[1]
      BY <1>2 DEF ProjectionsShareScales
  <1> HIDE DEF c, g
  <1>4. ToSet(g) = {g[1]}
      BY <1>2, <1>3 DEF ToSet
  <1>5. Max({g[1]}) = g[1]
      BY <1>2 DEF Max
  <1>6. MaxScale = g[1]
      BY <1>4, <1>5 DEF MaxScale, g
  <1>7. ASSUME NEW r \in 0 .. Rows - 1
        PROVE  PartOf(r) \in DOMAIN c
    <2>1. \E i \in DOMAIN c : Offsets(c)[i - 1] <= r /\ r < Offsets(c)[i]
        BY LinearsAre DEF Rows, RowsOf, c
    <2> QED
        BY <2>1 DEF PartOf, c
  <1> QED
      BY <1>2, <1>3, <1>6, <1>7 DEF g

\* The row of the loaded weight that the chunks put where the kernel looks.
LEMMA ChunkRows ==
  ASSUME NEW q \in Nat, NEW i \in 0 .. 4 * q - 1
  PROVE  LET a == i \div 4  b == i % 4
         IN  /\ a \in 0 .. q - 1 /\ b \in 0 .. 3 /\ i = 4 * a + b
             /\ (8 * a + b) \div 4 = 2 * a /\ (8 * a + b) \div 8 = a /\ (8 * a + b) % 4 = b
             /\ (8 * a + b + 4) \div 4 = 2 * a + 1 /\ (8 * a + b + 4) \div 8 = a /\ (8 * a + b + 4) % 4 = b
             /\ (2 * a) % 2 = 0 /\ (2 * a + 1) % 2 = 1
  OBVIOUS

LEMMA ChunksAreFound ==
  ASSUME Rows \in Nat \ {0}, Rows % 8 = 0, NEW i \in 0 .. Rows \div 2 - 1
  PROVE  /\ UpRow(i) \in 0 .. Rows - 1 /\ GateRow(i) \in 0 .. Rows - 1
         /\ InterleavedRow(UpRow(i)) = i + Rows \div 2
         /\ InterleavedRow(GateRow(i)) = i
         /\ Rows = 2 * (Rows \div 2)
  <1> DEFINE n == Rows  h == n \div 2  q == n \div 8
             a == i \div 4  b == i % 4  u == 8 * a + b  g == 8 * a + b + 4
  <1>1. q \in Nat /\ n = 8 * q
      OBVIOUS
  <1>2. h = 4 * q /\ n = 2 * h
    <2> HIDE DEF n, q
    <2> QED
        BY <1>1
  <1>3. i \in 0 .. 4 * q - 1
      BY <1>2
  <1>4. /\ a \in 0 .. q - 1 /\ b \in 0 .. 3 /\ i = 4 * a + b
        /\ u \div 4 = 2 * a /\ u \div 8 = a /\ u % 4 = b
        /\ g \div 4 = 2 * a + 1 /\ g \div 8 = a /\ g % 4 = b
        /\ (2 * a) % 2 = 0 /\ (2 * a + 1) % 2 = 1
    <2> HIDE DEF q
    <2> QED
        BY <1>1, <1>3, ChunkRows
  <1>5. UpRow(i) = u /\ GateRow(i) = g
    <2>1. a \in Nat /\ b \in Nat
        BY <1>1, <1>4
    <2>2. UpRow(i) = a * 8 + b /\ GateRow(i) = a * 8 + b + 4
        BY DEF UpRow, GateRow
    <2> HIDE DEF a, b
    <2> QED
        BY <2>1, <2>2
  <1>6. u \in 0 .. n - 1 /\ g \in 0 .. n - 1
    <2> HIDE DEF a, b, q, n
    <2> QED
        BY <1>1, <1>4
  <1>7. InterleavedRow(u) = FromCat(((u \div 4) % 2) * h + (u \div 8) * 4 + (u % 4))
      BY DEF InterleavedRow
  <1>8. InterleavedRow(g) = FromCat(((g \div 4) % 2) * h + (g \div 8) * 4 + (g % 4))
      BY DEF InterleavedRow
  <1>9. FromCat(i) = i + h /\ FromCat(h + i) = i
    <2>1. \A r : FromCat(r) = IF r < h THEN r + h ELSE r - h
        BY DEF FromCat
    <2>2. h \in Nat /\ i \in 0 .. h - 1
        BY <1>1, <1>2
    <2> HIDE DEF h
    <2> QED
        BY <2>1, <2>2
  <1>10. /\ ((u \div 4) % 2) * h + (u \div 8) * 4 + (u % 4) = i
         /\ ((g \div 4) % 2) * h + (g \div 8) * 4 + (g % 4) = h + i
    <2>1. h \in Nat /\ a \in Nat /\ b \in Nat
        BY <1>1, <1>2, <1>4
    <2>2. (u \div 4) % 2 = 0 /\ (g \div 4) % 2 = 1 /\ u \div 8 = a /\ g \div 8 = a /\ u % 4 = b /\ g % 4 = b
        BY <1>4
    <2> HIDE DEF h, a, b, u, g
    <2>3. 0 * h + a * 4 + b = i /\ 1 * h + a * 4 + b = h + i
        BY <1>4, <2>1
    <2> QED
        BY <2>2, <2>3
  <1> HIDE DEF u, g, h
  <1>11. InterleavedRow(u) = i + h /\ InterleavedRow(g) = i
      BY <1>7, <1>8, <1>9, <1>10
  <1> QED
      BY <1>2, <1>5, <1>6, <1>11 DEF h

LEMMA PermutedHolds ==
  ASSUME NEW m, NEW k \in Nat \ {0}, Rows \in Nat \ {0}, Rows % 8 = 0, Holds(m, Rows, k),
         DOMAIN m = (0 .. Rows - 1) \X (0 .. k - 1)
  PROVE  ChunksHold(Permuted(m, InterleavedRow), Rows, k)
  <1> DEFINE n == Rows  h == Rows \div 2  z == Permuted(m, InterleavedRow)
  <1>1. \A p \in 0 .. n - 1, c \in 0 .. k - 1 : z[<<p, c>>] = m[<<InterleavedRow(p), c>>]
    <2> TAKE p \in 0 .. n - 1, c \in 0 .. k - 1
    <2>1. <<p, c>> \in DOMAIN m /\ <<p, c>>[1] = p /\ <<p, c>>[2] = c
        OBVIOUS
    <2> QED
        BY <2>1 DEF Permuted
  <1>2. \A i \in 0 .. h - 1 : i \in 0 .. n - 1 /\ i + h \in 0 .. n - 1
      OBVIOUS
  <1> HIDE DEF z
  <1>3. ASSUME NEW i \in 0 .. h - 1, NEW c \in 0 .. k - 1
        PROVE  z[<<GateRow(i), c>>] = <<i, c>> /\ z[<<UpRow(i), c>>] = <<i + h, c>>
    <2>1. /\ UpRow(i) \in 0 .. n - 1 /\ GateRow(i) \in 0 .. n - 1
          /\ InterleavedRow(UpRow(i)) = i + h /\ InterleavedRow(GateRow(i)) = i
        BY ChunksAreFound
    <2>2. z[<<GateRow(i), c>>] = m[<<i, c>>] /\ z[<<UpRow(i), c>>] = m[<<i + h, c>>]
        BY <1>1, <2>1
    <2>3. m[<<i, c>>] = <<i, c>> /\ m[<<i + h, c>>] = <<i + h, c>>
        BY <1>2 DEF Holds
    <2> QED
        BY <2>2, <2>3
  <1>4. 0 \in 0 .. h - 1
      OBVIOUS
  <1>5. n = 2 * h
      BY <1>4, ChunksAreFound
  <1> QED
      BY <1>3, <1>5 DEF ChunksHold, z

LEMMA RowsAreRowsOf == Rows = RowsOf(linear)
  BY DEF Rows, RowsOf

\* A weight as loaded is quantized by the one scale its projections share.
LEMMA LoadedHolds ==
  ASSUME linear \in Linears, ProjectionsShareScales, linear.method # "fp8"
  PROVE  Loaded.cells = Matrix(Rows, linear.k) /\ Loaded.by = [r \in 0 .. Rows - 1 |-> MaxScale]
  BY ScalesAreShared DEF Loaded

LEMMA WeightIsHeld ==
  ASSUME NEW l \in Linears, NEW a, NEW w, NEW n \in Nat \ {0}, l.k <= n,
         Holds(w.cells, RowsOf(l), l.k), HasColumns(w.cells, RowsOf(l), l.k, n),
         w.by = [r \in 0 .. RowsOf(l) - 1 |-> a]
  PROVE  WeightHolds(l, w, a)
  BY DEF WeightHolds

LEMMA ProcessFp8Prepares ==
  DenseInv /\ ProcessFp8 => Prepared(linear, weight', alpha', scale', pack', outputSize')
  <1> SUFFICES ASSUME DenseInv, ProcessFp8
               PROVE  Prepared(linear, weight', alpha', scale', pack', outputSize')
      OBVIOUS
  <1> DEFINE l == linear  n == RowsOf(l)
  <1>1. l \in Linears /\ n \in Nat \ {0} /\ l.k \in Nat \ {0} /\ Rows = n /\ l.method = "fp8"
      BY LinearsAre, RowsAreRowsOf DEF DenseInv, ProcessFp8
  <1>2. scale' = Absent /\ pack' = Absent /\ outputSize' = n /\ alpha' = MaxScale
      BY <1>1 DEF DenseInv, ProcessFp8, Ready
  <1>3. weight'.cells = Matrix(n, l.k) /\ weight'.by = [r \in 0 .. n - 1 |-> MaxScale]
      BY <1>1 DEF ProcessFp8, Loaded
  <1>4. Holds(weight'.cells, n, l.k) /\ HasColumns(weight'.cells, n, l.k, l.k) /\ l.k <= l.k
      BY <1>1, <1>3, MatrixHolds
  <1>5. WeightHolds(l, weight', alpha')
      BY <1>1, <1>2, <1>3, <1>4, WeightIsHeld
  <1> QED
      BY <1>1, <1>2, <1>5 DEF Prepared, ScaleHolds

LEMMA ProcessMarlinPrepares ==
  ASSUME ProjectionsShareScales
  PROVE  DenseInv /\ ProcessMarlin => Prepared(linear, weight', alpha', scale', pack', outputSize')
  <1> SUFFICES ASSUME DenseInv, ProcessMarlin
               PROVE  Prepared(linear, weight', alpha', scale', pack', outputSize')
      OBVIOUS
  <1> DEFINE l == linear  n == RowsOf(l)
  <1>1. l \in Linears /\ n \in Nat \ {0} /\ l.k \in Nat \ {0} /\ Rows = n /\ l.method # "fp8"
      BY LinearsAre, RowsAreRowsOf DEF DenseInv, ProcessMarlin
  <1>2. /\ pack' = Absent /\ outputSize' = n /\ alpha' = MaxScale /\ weight' = Loaded
        /\ scale' = [cells |-> Matrix(n, l.k), swizzles |-> 1]
      BY <1>1 DEF DenseInv, ProcessMarlin, Ready
  <1>3. weight'.cells = Matrix(n, l.k) /\ weight'.by = [r \in 0 .. n - 1 |-> MaxScale]
      BY <1>1, <1>2, LoadedHolds
  <1>4. Holds(Matrix(n, l.k), n, l.k) /\ HasColumns(Matrix(n, l.k), n, l.k, l.k) /\ l.k <= l.k
      BY <1>1, MatrixHolds
  <1>5. WeightHolds(l, weight', alpha')
      BY <1>1, <1>2, <1>3, <1>4, WeightIsHeld
  <1>6. ScaleHolds(l, scale')
      BY <1>1, <1>2, <1>4 DEF ScaleHolds
  <1> QED
      BY <1>2, <1>5, <1>6 DEF Prepared

LEMMA ProcessTrtllmPrepares ==
  ASSUME ProjectionsShareScales
  PROVE  DenseInv /\ ProcessTrtllm => Prepared(linear, weight', alpha', scale', pack', outputSize')
  <1> SUFFICES ASSUME DenseInv, ProcessTrtllm
               PROVE  Prepared(linear, weight', alpha', scale', pack', outputSize')
      OBVIOUS
  <1> DEFINE l == linear  n == RowsOf(l)  h == RoundUp(Rows, 8)  c == RoundUp(l.k, 4)
             m == Padded(Matrix(n, l.k), h, c)
  <1>1. l \in Linears /\ n \in Nat \ {0} /\ l.k \in Nat \ {0} /\ Rows = n /\ l.method # "fp8"
      BY LinearsAre, RowsAreRowsOf DEF DenseInv, ProcessTrtllm
  <1>2. /\ pack' = Absent /\ outputSize' = n /\ alpha' = MaxScale
        /\ weight' = [Loaded EXCEPT !.cells = Padded(@, h, c)]
        /\ scale' = [cells |-> m, swizzles |-> 1]
      BY <1>1 DEF DenseInv, ProcessTrtllm, Ready, TrtllmCols
  <1>3. h \in Nat \ {0} /\ n <= h /\ c \in Nat \ {0} /\ l.k <= c
      BY <1>1, RoundedUpTo
  <1>4. weight'.cells = m /\ weight'.by = [r \in 0 .. n - 1 |-> MaxScale]
    <2>1. Loaded.cells = Matrix(n, l.k) /\ Loaded.by = [r \in 0 .. n - 1 |-> MaxScale]
        BY <1>1, LoadedHolds
    <2>2. weight'.cells = Padded(Loaded.cells, h, c) /\ weight'.by = Loaded.by
        BY <1>2 DEF Loaded
    <2> QED
        BY <2>1, <2>2
  <1> HIDE DEF h, c
  <1>5. Holds(m, n, l.k) /\ HasColumns(m, n, l.k, c)
      BY <1>1, <1>3, PaddedHolds
  <1> HIDE DEF m
  <1>6. WeightHolds(l, weight', alpha')
      BY <1>1, <1>2, <1>3, <1>4, <1>5, WeightIsHeld
  <1>7. ScaleHolds(l, scale')
      BY <1>1, <1>2, <1>5 DEF ScaleHolds
  <1> QED
      BY <1>2, <1>6, <1>7 DEF Prepared

LEMMA ProcessCutlassPrepares ==
  ASSUME ProjectionsShareScales
  PROVE  DenseInv /\ ProcessCutlass => Prepared(linear, weight', alpha', scale', pack', outputSize')
  <1> SUFFICES ASSUME DenseInv, ProcessCutlass
               PROVE  Prepared(linear, weight', alpha', scale', pack', outputSize')
      OBVIOUS
  <1> DEFINE l == linear  n == RowsOf(l)  h == RoundUp(Rows, 2)  c == RoundUp(l.k, 2)
             h8 == RoundUp(Rows, 8)  c4 == RoundUp(l.k, 4)
             m == Matrix(n, l.k)  w == WeightCells  s == ScaleCells
  <1>1. l \in Linears /\ n \in Nat \ {0} /\ l.k \in Nat \ {0} /\ Rows = n /\ l.method # "fp8"
      BY LinearsAre, RowsAreRowsOf DEF DenseInv, ProcessCutlass
  <1>2. /\ outputSize' = n /\ alpha' = MaxScale
        /\ weight' = [Loaded EXCEPT !.cells = w]
        /\ scale' = SwizzledScale
        /\ l.swiglu => SwigluFits
        /\ pack' = IF l.swiglu
                   THEN [weight |-> Permuted(w, InterleavedRow),
                         scale |-> Swizzled(RawScale, Permuted(m, InterleavedRow))]
                   ELSE Absent
      BY <1>1 DEF ProcessCutlass, Ready, RawScaleSnapshot, RawScale
  <1>3. /\ h \in Nat \ {0} /\ n <= h /\ c \in Nat \ {0} /\ l.k <= c
        /\ h8 \in Nat \ {0} /\ n <= h8 /\ c4 \in Nat \ {0} /\ l.k <= c4
      BY <1>1, RoundedUpTo
  <1>4. weight'.cells = w /\ weight'.by = [r \in 0 .. n - 1 |-> MaxScale]
    <2>1. Loaded.by = [r \in 0 .. n - 1 |-> MaxScale]
        BY <1>1, LoadedHolds
    <2>2. weight'.cells = w /\ weight'.by = Loaded.by
        BY <1>2 DEF Loaded
    <2> QED
        BY <2>1, <2>2
  <1>5. scale'.cells = s /\ scale'.swizzles = 1
      BY <1>2 DEF SwizzledScale, Swizzled, RawScale
  <1>6. w = Padded(m, h, c) /\ s = Padded(m, h8, c4)
      BY <1>1 DEF WeightCells, ScaleCells
  <1> HIDE DEF h, c, h8, c4
  <1>7. Holds(w, n, l.k) /\ HasColumns(w, n, l.k, c) /\ Holds(s, n, l.k)
      BY <1>1, <1>3, <1>6, PaddedHolds
  <1> HIDE DEF w, s
  <1>8. WeightHolds(l, weight', alpha')
      BY <1>1, <1>2, <1>3, <1>4, <1>7, WeightIsHeld
  <1>9. ScaleHolds(l, scale')
      BY <1>1, <1>5, <1>7 DEF ScaleHolds
  <1>10. ASSUME pack' # Absent PROVE PackHolds(l, pack')
    <2>1. /\ pack'.weight = Permuted(w, InterleavedRow) /\ pack'.scale.cells = Permuted(m, InterleavedRow)
          /\ pack'.scale.swizzles = 1
        BY <1>2, <1>10 DEF Swizzled, RawScale
    <2>2. n % 8 = 0 /\ h = n /\ c = l.k
        BY <1>1, <1>2, <1>10 DEF SwigluFits, h, c
    <2>3. DOMAIN m = (0 .. n - 1) \X (0 .. l.k - 1) /\ DOMAIN w = (0 .. n - 1) \X (0 .. l.k - 1)
        BY <1>6, <2>2 DEF Matrix, Padded
    <2>4. Holds(m, n, l.k)
        BY <1>1, MatrixHolds
    <2> HIDE DEF m
    <2>5. ChunksHold(Permuted(w, InterleavedRow), n, l.k)
        BY <1>1, <1>7, <2>2, <2>3, PermutedHolds
    <2>6. ChunksHold(Permuted(m, InterleavedRow), n, l.k)
        BY <1>1, <2>2, <2>3, <2>4, PermutedHolds
    <2> QED
        BY <1>1, <2>1, <2>5, <2>6 DEF PackHolds
  <1> QED
      BY <1>2, <1>8, <1>9, <1>10 DEF Prepared

\* What the GEMM sums.
LEMMA ApplySums == DenseInv /\ Apply => SumsAreOwn(linear, out')
  <1> SUFFICES ASSUME DenseInv, Apply
               PROVE  SumsAreOwn(linear, out')
      OBVIOUS
  <1> DEFINE l == linear  n == RowsOf(l)
  <1>1. l \in Linears /\ n \in Nat \ {0} /\ l.k \in Nat \ {0}
      BY LinearsAre DEF DenseInv
  <1>2. /\ WeightHolds(l, weight, alpha) /\ ScaleHolds(l, scale) /\ outputSize = n
        /\ out' = [r \in 0 .. n - 1 |-> Gemm(r)]
      BY DEF DenseInv, Prepared, Apply
  <1>3. PICK w \in Nat \ {0} : l.k <= w /\ HasColumns(weight.cells, n, l.k, w)
      BY <1>2 DEF WeightHolds
  <1>4. NumCols(weight.cells) = w
      BY <1>3, ColumnsAreCounted
  <1>5. ASSUME NEW r \in 0 .. n - 1
        PROVE  Summed(Gemm(r)) = OwnProducts(l, r)
    <2> DEFINE X == [c \in 0 .. w - 1 |-> Activation(c)]
               W == [c \in 0 .. w - 1 |-> weight.cells[<<r, c>>]]
               B == [c \in 0 .. w - 1 |-> Blocks(r, c)]
    <2>1. Gemm(r) = ProductsOf(w, X, W, B)
        BY <1>4 DEF Gemm, ProductsOf
    <2>2. ASSUME NEW c \in 0 .. w - 1
          PROVE  /\ c < l.k => X[c] = c /\ W[c] = <<r, c>> /\ B[c] = IF l.method = "fp8" THEN Zero ELSE <<r, c>>
                 /\ ~ (c < l.k) => X[c] = Zero
      <3>1. X[c] = IF c < l.k THEN c ELSE Zero
          BY DEF Activation
      <3>2. B[c] = IF l.method = "fp8" THEN Zero ELSE scale.cells[<<r, c>>]
          BY DEF Blocks
      <3>3. c < l.k => c \in 0 .. l.k - 1
          BY <1>1
      <3>4. c < l.k => W[c] = <<r, c>>
          BY <1>2, <3>3 DEF WeightHolds, Holds
      <3>5. c < l.k /\ l.method # "fp8" => scale.cells[<<r, c>>] = <<r, c>>
          BY <1>2, <3>3 DEF ScaleHolds, Holds
      <3> QED
          BY <3>1, <3>2, <3>4, <3>5
    <2>3. r \in Nat /\ w \in Nat /\ l.k <= w
        BY <1>1, <1>3
    <2> HIDE DEF X, W, B, l
    <2>4. PaddedProductsAre(l, r, w, X, W, B)
        BY <2>2 DEF PaddedProductsAre
    <2>5. Summed(ProductsOf(w, X, W, B)) = OwnProducts(l, r)
        BY <1>1, <2>3, <2>4, PaddedProducts
    <2> QED
        BY <2>1, <2>5
  <1> QED
      BY <1>2, <1>5 DEF SumsAreOwn

\* What the fused kernel sums.
LEMMA ApplyFusedSums == DenseInv /\ ApplyFused => SumsAreOwn(linear, out')
  <1> SUFFICES ASSUME DenseInv, ApplyFused
               PROVE  SumsAreOwn(linear, out')
      OBVIOUS
  <1> DEFINE l == linear  n == RowsOf(l)  h == n \div 2
  <1>1. l \in Linears /\ n \in Nat \ {0} /\ l.k \in Nat \ {0} /\ Rows = n
      BY LinearsAre, RowsAreRowsOf DEF DenseInv
  <1>2. PackHolds(l, pack)
      BY DEF DenseInv, Prepared, ApplyFused
  <1>3. out' = [r \in 0 .. n - 1 |-> IF r < h THEN PackGemm(GateRow(r)) ELSE PackGemm(UpRow(r - h))]
      BY <1>1 DEF ApplyFused
  <1>4. l.method # "fp8" /\ n = 2 * h
      BY <1>2 DEF PackHolds, ChunksHold
  <1>5. \A i \in 0 .. h - 1, c \in 0 .. l.k - 1 :
          /\ pack.weight[<<GateRow(i), c>>] = <<i, c>> /\ pack.weight[<<UpRow(i), c>>] = <<i + h, c>>
          /\ pack.scale.cells[<<GateRow(i), c>>] = <<i, c>> /\ pack.scale.cells[<<UpRow(i), c>>] = <<i + h, c>>
      BY <1>2 DEF PackHolds, ChunksHold
  <1>6. h \in Nat /\ \A r \in 0 .. n - 1 : IF r < h THEN r \in 0 .. h - 1 ELSE r - h \in 0 .. h - 1 /\ (r - h) + h = r
    <2>1. h \in Nat
        BY <1>1
    <2> HIDE DEF h, n
    <2> QED
        BY <1>1, <1>4, <2>1
  <1> HIDE DEF h
  <1>7. ASSUME NEW r \in 0 .. n - 1
        PROVE  Summed(out'[r]) = OwnProducts(l, r)
    <2>1. PICK p : /\ out'[r] = PackGemm(p)
                   /\ \A c \in 0 .. l.k - 1 : pack.weight[<<p, c>>] = <<r, c>> /\ pack.scale.cells[<<p, c>>] = <<r, c>>
      <3>1. CASE r < h
        <4>1. r \in 0 .. h - 1 /\ out'[r] = PackGemm(GateRow(r))
            BY <1>3, <1>6, <3>1
        <4> QED
            BY <1>5, <4>1
      <3>2. CASE ~ (r < h)
        <4>1. r - h \in 0 .. h - 1 /\ (r - h) + h = r /\ out'[r] = PackGemm(UpRow(r - h))
            BY <1>3, <1>6, <3>2
        <4>2. \A c \in 0 .. l.k - 1 : /\ pack.weight[<<UpRow(r - h), c>>] = <<(r - h) + h, c>>
                                     /\ pack.scale.cells[<<UpRow(r - h), c>>] = <<(r - h) + h, c>>
            BY <1>5, <4>1
        <4>3. \A c \in 0 .. l.k - 1 : /\ pack.weight[<<UpRow(r - h), c>>] = <<r, c>>
                                     /\ pack.scale.cells[<<UpRow(r - h), c>>] = <<r, c>>
            BY <4>1, <4>2
        <4> QED
            BY <4>1, <4>3
      <3> QED
          BY <3>1, <3>2
    <2> DEFINE X == [c \in 0 .. l.k - 1 |-> c]
               W == [c \in 0 .. l.k - 1 |-> pack.weight[<<p, c>>]]
               B == [c \in 0 .. l.k - 1 |-> pack.scale.cells[<<p, c>>]]
    <2>2. out'[r] = ProductsOf(l.k, X, W, B)
        BY <2>1 DEF PackGemm, ProductsOf
    <2>3. \A c \in 0 .. l.k - 1 :
            /\ c < l.k => X[c] = c /\ W[c] = <<r, c>> /\ B[c] = IF l.method = "fp8" THEN Zero ELSE <<r, c>>
            /\ ~ (c < l.k) => X[c] = Zero
      <3> TAKE c \in 0 .. l.k - 1
      <3>1. c < l.k
          BY <1>1
      <3> QED
          BY <1>4, <2>1, <3>1
    <2>4. r \in Nat /\ l.k \in Nat /\ l.k <= l.k
        BY <1>1
    <2> HIDE DEF X, W, B, l
    <2>5. PaddedProductsAre(l, r, l.k, X, W, B)
        BY <2>3 DEF PaddedProductsAre
    <2>6. Summed(ProductsOf(l.k, X, W, B)) = OwnProducts(l, r)
        BY <1>1, <2>4, <2>5, PaddedProducts
    <2> QED
        BY <2>2, <2>6
  <1>8. DOMAIN out' = 0 .. n - 1
      BY <1>3
  <1> QED
      BY <1>7, <1>8 DEF SumsAreOwn

LEMMA DenseStep == ProjectionsShareScales /\ DenseInv /\ DenseNext => DenseInv'
  <1> SUFFICES ASSUME ProjectionsShareScales, DenseInv, DenseNext
               PROVE  DenseInv'
      OBVIOUS
  <1>1. CASE \E i \in 1 .. 3 : LoadPart(i)
      BY <1>1 DEF LoadPart, DenseInv
  <1>2. CASE ProcessFp8 \/ ProcessMarlin \/ ProcessTrtllm \/ ProcessCutlass
    <2>1. linear' = linear /\ step' = "processed"
        BY <1>2 DEF ProcessFp8, ProcessMarlin, ProcessTrtllm, ProcessCutlass
    <2>2. Prepared(linear, weight', alpha', scale', pack', outputSize')
        BY <1>2, ProcessFp8Prepares, ProcessMarlinPrepares, ProcessTrtllmPrepares, ProcessCutlassPrepares
    <2> QED
        BY <2>1, <2>2 DEF DenseInv
  <1>3. CASE RefuseSwiglu
      BY <1>3 DEF RefuseSwiglu, DenseInv
  <1>4. CASE Apply \/ ApplyFused
    <2>1. /\ UNCHANGED <<linear, weight, scale, pack, outputSize, alpha>>
          /\ step = "processed" /\ step' = "applied"
        BY <1>4 DEF Apply, ApplyFused
    <2>2. SumsAreOwn(linear, out')
        BY <1>4, ApplySums, ApplyFusedSums
    <2>3. Prepared(linear, weight, alpha, scale, pack, outputSize)
        BY <2>1 DEF DenseInv
    <2> QED
        BY <2>1, <2>2, <2>3 DEF DenseInv
  <1> QED
      BY <1>1, <1>2, <1>3, <1>4 DEF DenseNext

LEMMA DenseInvRows == DenseInv => RowsUseTheirOwnScales
  <1> SUFFICES ASSUME DenseInv, step = "applied"
               PROVE  RowsUseTheirOwnScales
      BY DEF RowsUseTheirOwnScales
  <1> DEFINE l == linear  n == RowsOf(l)
  <1>1. /\ WeightHolds(l, weight, alpha) /\ ScaleHolds(l, scale) /\ (pack # Absent => PackHolds(l, pack))
        /\ SumsAreOwn(l, out) /\ Rows = n
      BY RowsAreRowsOf DEF DenseInv, Prepared
  <1>2. DOMAIN out = 0 .. Rows - 1 /\ \A r \in DOMAIN out : Summed(out[r]) = OwnProducts(l, r)
      BY <1>1 DEF SumsAreOwn
  <1>3. \A r \in DOMAIN weight.by : weight.by[r] = alpha
      BY <1>1 DEF WeightHolds
  <1>4. (scale # Absent => scale.swizzles = 1) /\ (pack # Absent => pack.scale.swizzles = 1)
      BY <1>1 DEF ScaleHolds, PackHolds
  <1> QED
      BY <1>2, <1>3, <1>4 DEF RowsUseTheirOwnScales, Summed, OwnProducts

\* Until a linear layer is picked there is none.
LinearRows ==
    /\ part # "linear" => DenseIdle
    /\ part = "linear" => DenseInv

LEMMA LinearRowsStep == ProjectionsShareScales /\ LinearRows /\ [LoadNext]_loadVars => LinearRows'
  <1> SUFFICES ASSUME ProjectionsShareScales, LinearRows, [LoadNext]_loadVars
               PROVE  LinearRows'
      OBVIOUS
  <1>1. CASE PickLinear
    <2>1. part = "config" /\ DenseIdle
        BY <1>1 DEF PickLinear, LinearRows
    <2>2. linear' \in Linears /\ step' = "loading" /\ part' = "linear" /\ scale' = Absent /\ pack' = Absent
        BY <1>1, <2>1 DEF PickLinear, DenseIdle
    <2> QED
        BY <2>2 DEF LinearRows, DenseInv
  <1>2. CASE part = "linear" /\ DenseNext /\ UNCHANGED <<part, quantVars, expertVars>>
      BY <1>2, DenseStep DEF LinearRows
  <1>3. CASE UNCHANGED <<part, denseVars>>
      BY <1>3 DEF LinearRows, DenseIdle, DenseInv, denseVars
  <1>4. CASE PickExperts
    <2>1. part = "config" /\ part' = "experts" /\ UNCHANGED denseVars
        BY <1>4 DEF PickExperts
    <2> QED
        BY <2>1 DEF LinearRows, DenseIdle, denseVars
  <1>5. \/ PickLinear \/ PickExperts \/ UNCHANGED <<part, denseVars>>
        \/ part = "linear" /\ DenseNext /\ UNCHANGED <<part, quantVars, expertVars>>
      BY DEF LoadNext, loadVars
  <1> QED
      BY <1>1, <1>2, <1>3, <1>4, <1>5

\* Every output row of a linear layer sums its own weights, each with its own activation
\* and block scale, swizzled once, and the tensor scale it is quantized by: whatever the
\* backend padded and interleaved, for any widths and any number of fused projections.
THEOREM LinearRowsUseTheirOwnScales ==
  ASSUME ProjectionsShareScales
  PROVE  LoadSpec => []RowsUseTheirOwnScales
  <1>1. LoadInit => LinearRows
      BY DEF LoadInit, LinearRows
  <1>2. LinearRows /\ [LoadNext]_loadVars => LinearRows'
      BY LinearRowsStep
  <1>3. LinearRows => RowsUseTheirOwnScales
      BY DenseInvRows DEF LinearRows, RowsUseTheirOwnScales, DenseIdle
  <1> QED
      BY <1>1, <1>2, <1>3, PTL DEF LoadSpec
-----------------------------------------------------------------------------
(* What a description is parsed to.                                        *)

\* The block sizes a description gives, anywhere.
SizesGiven(d) ==
    ({d.top.group, d.quantization.group} \cup ToSet(d.top.groups)) \ {None}

\* A description tells what is stored: the algorithm of its kind, its exclusions; the KV
\* cache format, by its scheme or its field, if it is one of the two known ones; every
\* block size it gives is the checkpoint's, and where none is given it is the default.  A
\* contradictory one gives two.
DescriptionsAreTrue ==
    \A c \in Checkpoints :
        LET d == c.description
            s == Section(d)
        IN  /\ s.exclude = c.exclude
            /\ s.scheme # None =>
                  \A format \in {"FP8", "NVFP4"} : s.scheme.of = format <=> c.kv = format
            /\ s.kv \notin {None, "auto"} => s.kv = c.kv
            /\ c.kv \in {"FP8", "NVFP4"} => s.kv = c.kv \/ (IsFlat(d) /\ s.scheme # None)
            /\ c.contradictory => c.class = "fp4" /\ d.method # "fp8" /\ ~IsFlat(d) /\ \E g, h \in SizesGiven(d) : g # h
            /\ ~c.contradictory =>
                  /\ c.class = "fp8" => s.algo = "FP8"
                  /\ c.class = "fp4" =>
                        /\ s.algo \in SerializedAlgos \cup {"FP8"}
                        /\ c.group # None /\ SizesGiven(d) \subseteq {c.group}
                        /\ ~IsFlat(d) => SizesGiven(d) # {}
                        /\ IsFlat(d) /\ s.group = None /\ (s.groups = << >> \/ Head(s.groups) = None) =>
                              s.algo # "FP8" /\ c.group = 16
                  /\ c.class = "mixed" =>
                        /\ s.algo = "MIXED_PRECISION" /\ s.layers # << >> /\ c.group # None
                        /\ \A i \in DOMAIN s.layers :
                              s.layers[i].algo \in Fp4Algos =>
                                 s.layers[i].group = c.group \/ (s.layers[i].group = None /\ c.group = 16)
                        /\ (\A i \in DOMAIN s.layers : s.layers[i].algo \notin Fp4Algos) => c.group = 16

LEMMA ListingIs ==
  ASSUME NEW s \in Listings, NEW i \in DOMAIN s
  PROVE  s[i] \in Listing /\ DOMAIN s \subseteq Nat
  BY DEF Listings

LEMMA SectionIs ==
  ASSUME NEW c \in Checkpoints
  PROVE  Section(c.description) \in Sections /\ c.description.top \in Sections /\ c.description.quantization \in Sections
  BY QuantAssumption DEF Section

\* One size given anywhere is the common one; two different ones have none in common.
LEMMA CommonIs ==
  ASSUME NEW d, NEW g, SizesGiven(d) \subseteq {g}, SizesGiven(d) # {}
  PROVE  CommonGroupSize(d) = g
  BY DEF CommonGroupSize, SizesGiven

LEMMA NoneInCommon ==
  ASSUME NEW d, NEW g \in SizesGiven(d), NEW h \in SizesGiven(d), g # h
  PROVE  CommonGroupSize(d) = None
  BY DEF CommonGroupSize, SizesGiven

\* What a parser makes of the KV cache's description: the stored format, or nothing.
ReadAs(c, kv, overlooked) ==
    /\ kv \in KvFormats
    /\ kv = c.kv \/ (kv \in {None, "auto"} /\ (c.kv \notin {"FP8", "NVFP4"} \/ overlooked))
OverlookedIn(c) ==
    LET d  == c.description
        of == Section(d).scheme.of
    IN  CASE c.class = "fp8"   -> HasName(d) \/ (HasDict(d) /\ of # "FP8")
          [] c.class = "fp4"   -> HasDict(d) /\ of # "FP8"
          [] c.class = "mixed" -> HasName(d)

LEMMA SchemeIsTheCheckpoints ==
  ASSUME DescriptionsAreTrue, NEW c \in Checkpoints, Section(c.description).scheme # None
  PROVE  LET of == Section(c.description).scheme.of
         IN  /\ of \in {"FP8", "NVFP4", "INT8"}
             /\ of = "FP8" <=> c.kv = "FP8"
             /\ of = "NVFP4" <=> c.kv = "NVFP4"
  <1> DEFINE s == Section(c.description)
  <1>1. s \in Sections
      BY SectionIs
  <1>2. s.scheme \in Schemes
      BY <1>1 DEF Sections
  <1>3. s.scheme.of \in {"FP8", "NVFP4", "INT8"}
      BY <1>2 DEF Schemes
  <1>4. \A format \in {"FP8", "NVFP4"} : s.scheme.of = format <=> c.kv = format
      BY DEF DescriptionsAreTrue
  <1> QED
      BY <1>3, <1>4

\* Without a scheme that its class reads, the field is taken.
LEMMA FieldIsTheCheckpoints ==
  ASSUME DescriptionsAreTrue, NEW c \in Checkpoints, NEW default \in {None, "auto"},
         NEW overlooked, IsFlat(c.description) /\ Section(c.description).scheme # None => overlooked
  PROVE  ReadAs(c, Field(c.description, default), overlooked)
  <1> DEFINE s == Section(c.description)
             field == Field(c.description, default)
  <1>1. s.kv \in KvFormats
      BY SectionIs DEF Sections
  <1>2. /\ s.kv \notin {None, "auto"} => s.kv = c.kv
        /\ c.kv \in {"FP8", "NVFP4"} => s.kv = c.kv \/ (IsFlat(c.description) /\ s.scheme # None)
      BY DEF DescriptionsAreTrue
  <1>3. field = IF s.kv = None THEN default ELSE s.kv
      BY DEF Field
  <1>4. {None, "auto"} \subseteq KvFormats
      BY DEF KvFormats
  <1>5. None \notin {"FP8", "NVFP4"}
      BY QuantAssumption
  <1> HIDE DEF s, field
  <1>6. field \in KvFormats
      BY <1>1, <1>3, <1>4
  <1>7. field = c.kv \/ (field \in {None, "auto"} /\ (c.kv \notin {"FP8", "NVFP4"} \/ overlooked))
    <2>1. CASE s.kv \in {None, "auto"}
      <3>1. field \in {None, "auto"}
          BY <1>3, <2>1
      <3>2. c.kv \in {"FP8", "NVFP4"} => overlooked
          BY <1>2, <1>5, <2>1 DEF s
      <3> QED
          BY <3>1, <3>2
    <2>2. CASE s.kv \notin {None, "auto"}
        BY <1>2, <1>3, <2>2
    <2> QED
        BY <2>1, <2>2
  <1> QED
      BY <1>6, <1>7 DEF ReadAs, field

\* A scheme is read as what it is, or as nothing if it is not known.
LEMMA KnownIsTheCheckpoints ==
  ASSUME DescriptionsAreTrue, NEW c \in Checkpoints, Section(c.description).scheme # None,
         NEW formats \in SUBSET {"FP8", "NVFP4"}, NEW default \in {None, "auto"},
         NEW overlooked, Section(c.description).scheme.of \in {"FP8", "NVFP4"} \ formats => overlooked
  PROVE  ReadAs(c, Known(Section(c.description).scheme.of, formats, default), overlooked)
  <1> DEFINE of == Section(c.description).scheme.of
             kv == Known(of, formats, default)
  <1>1. /\ of \in {"FP8", "NVFP4", "INT8"}
        /\ of = "FP8" <=> c.kv = "FP8"
        /\ of = "NVFP4" <=> c.kv = "NVFP4"
      BY SchemeIsTheCheckpoints
  <1>2. of \in {"FP8", "NVFP4"} \ formats => overlooked
      OBVIOUS
  <1> HIDE DEF of
  <1>3. CASE of \in formats
    <2>1. kv = of /\ of \in {"FP8", "NVFP4"}
        BY <1>3 DEF Known
    <2>2. kv = c.kv /\ kv \in KvFormats
        BY <1>1, <2>1 DEF KvFormats
    <2> QED
        BY <2>2 DEF ReadAs, of
  <1>4. CASE of \notin formats
    <2>1. kv = default /\ kv \in KvFormats
        BY <1>4 DEF Known, KvFormats
    <2>2. c.kv \notin {"FP8", "NVFP4"} \/ overlooked
        BY <1>1, <1>2, <1>4
    <2> QED
        BY <2>1, <2>2 DEF ReadAs, of
  <1> QED
      BY <1>3, <1>4

LEMMA KvFp8IsTheCheckpoints ==
  ASSUME DescriptionsAreTrue, NEW c \in Checkpoints, c.class = "fp8"
  PROVE  ReadAs(c, KvFp8(c.description), OverlookedIn(c))
  <1>1. CASE HasDict(c.description)
    <2>1. Section(c.description).scheme # None
        BY <1>1 DEF HasDict
    <2>2. Section(c.description).scheme.of \in {"FP8", "NVFP4"} \ {"FP8"} => OverlookedIn(c)
        BY <1>1 DEF OverlookedIn
    <2>3. ReadAs(c, Known(Section(c.description).scheme.of, {"FP8"}, None), OverlookedIn(c))
        BY <2>1, <2>2, KnownIsTheCheckpoints
    <2> QED
        BY <1>1, <2>3 DEF KvFp8
  <1>2. CASE ~HasDict(c.description)
    <2>1. IsFlat(c.description) /\ Section(c.description).scheme # None => OverlookedIn(c)
        BY <1>2 DEF OverlookedIn, HasDict, HasName
    <2>2. ReadAs(c, Field(c.description, None), OverlookedIn(c))
        BY <2>1, FieldIsTheCheckpoints
    <2> QED
        BY <1>2, <2>2 DEF KvFp8
  <1> QED
      BY <1>1, <1>2

LEMMA KvFp4IsTheCheckpoints ==
  ASSUME DescriptionsAreTrue, NEW c \in Checkpoints, c.class = "fp4"
  PROVE  ReadAs(c, KvFp4(c.description), OverlookedIn(c))
  <1>1. CASE HasDict(c.description)
    <2>1. Section(c.description).scheme # None
        BY <1>1 DEF HasDict
    <2>2. Section(c.description).scheme.of \in {"FP8", "NVFP4"} \ {"FP8"} => OverlookedIn(c)
        BY <1>1 DEF OverlookedIn
    <2>3. ReadAs(c, Known(Section(c.description).scheme.of, {"FP8"}, "auto"), OverlookedIn(c))
        BY <2>1, <2>2, KnownIsTheCheckpoints
    <2>4. ~HasName(c.description)
        BY <1>1 DEF HasDict, HasName
    <2> QED
        BY <1>1, <2>3, <2>4 DEF KvFp4
  <1>2. CASE ~HasDict(c.description) /\ HasName(c.description)
    <2>1. Section(c.description).scheme # None
        BY <1>2 DEF HasName
    <2>2. ReadAs(c, Known(Section(c.description).scheme.of, {"FP8", "NVFP4"}, "auto"), OverlookedIn(c))
        BY <2>1, KnownIsTheCheckpoints
    <2> QED
        BY <1>2, <2>2 DEF KvFp4
  <1>3. CASE ~HasDict(c.description) /\ ~HasName(c.description)
    <2>1. ~ (IsFlat(c.description) /\ Section(c.description).scheme # None)
        BY <1>3 DEF HasDict, HasName
    <2>2. ReadAs(c, Field(c.description, "auto"), OverlookedIn(c))
        BY <2>1, FieldIsTheCheckpoints
    <2> QED
        BY <1>3, <2>2 DEF KvFp4
  <1> QED
      BY <1>1, <1>2, <1>3

LEMMA KvMixedIsTheCheckpoints ==
  ASSUME DescriptionsAreTrue, NEW c \in Checkpoints, c.class = "mixed"
  PROVE  ReadAs(c, KvMixed(c.description), OverlookedIn(c))
  <1>1. CASE HasDict(c.description)
    <2>1. Section(c.description).scheme # None
        BY <1>1 DEF HasDict
    <2>2. ReadAs(c, Known(Section(c.description).scheme.of, {"FP8", "NVFP4"}, "auto"), OverlookedIn(c))
        BY <2>1, KnownIsTheCheckpoints
    <2> QED
        BY <1>1, <2>2 DEF KvMixed
  <1>2. CASE ~HasDict(c.description)
    <2>1. IsFlat(c.description) /\ Section(c.description).scheme # None => OverlookedIn(c)
        BY <1>2 DEF OverlookedIn, HasDict, HasName
    <2>2. ReadAs(c, Field(c.description, None), OverlookedIn(c))
        BY <2>1, FieldIsTheCheckpoints
    <2> QED
        BY <1>2, <2>2 DEF KvMixed
  <1> QED
      BY <1>1, <1>2

\* What a parsed configuration says of its checkpoint.
Understood(g, c) ==
    /\ g \in Configs
    /\ ReadAs(c, g.kv, OverlookedIn(c))
    /\ g.class # "fp8" => g.group = c.group
    /\ g.exclude = c.exclude

LEMMA ConfigIs ==
  ASSUME DescriptionsAreTrue, NEW c \in Checkpoints, NEW class \in {"fp8", "fp4", "mixed"},
         NEW kv, ReadAs(c, kv, OverlookedIn(c)),
         NEW group \in Nat \cup {None}, class # "fp8" => group = c.group
  PROVE  Understood(Config(class, c.description, kv, group), c)
  <1> DEFINE s == Section(c.description)
             serialized == s.algo # "FP8" \/ class = "fp8"
  <1>1. s \in Sections /\ s.exclude = c.exclude
      BY SectionIs DEF DescriptionsAreTrue
  <1>2. kv \in KvFormats
      BY DEF ReadAs
  <1>3. s.exclude \in SUBSET Patterns /\ s.layers \in Listings
      BY <1>1 DEF Sections
  <1>4. Config(class, c.description, kv, group) =
          [class |-> class, serialized |-> serialized, kv |-> kv, group |-> group,
           exclude |-> s.exclude, layers |-> s.layers]
      BY DEF Config
  <1>5. serialized \in BOOLEAN
      OBVIOUS
  <1> HIDE DEF s, serialized
  <1>6. Understood([class |-> class, serialized |-> serialized, kv |-> kv, group |-> group,
                    exclude |-> s.exclude, layers |-> s.layers], c)
      BY <1>1, <1>2, <1>3, <1>5 DEF Understood, Configs
  <1> QED
      BY <1>4, <1>6

LEMMA Fp8IsUnderstood ==
  ASSUME DescriptionsAreTrue, NEW c \in Checkpoints, c.class = "fp8"
  PROVE  Understood(ParseFp8(c.description), c)
  <1>1. Section(c.description).algo = "FP8"
      BY DEF DescriptionsAreTrue
  <1>2. ReadAs(c, KvFp8(c.description), OverlookedIn(c))
      BY KvFp8IsTheCheckpoints
  <1>3. Understood(Config("fp8", c.description, KvFp8(c.description), None), c)
      BY <1>2, ConfigIs
  <1> QED
      BY <1>1, <1>3 DEF ParseFp8

LEMMA Fp4IsUnderstood ==
  ASSUME DescriptionsAreTrue, NEW c \in Checkpoints, c.class = "fp4"
  PROVE  IF c.contradictory THEN ParseFp4(c.description) = Refused
                            ELSE \/ ParseFp4(c.description) = Online
                                 \/ Understood(ParseFp4(c.description), c)
  <1> DEFINE d == c.description
             s == Section(d)
             group == IF IsFlat(d) THEN FlatGroup(s) ELSE CommonGroupSize(d)
  <1>1. s \in Sections /\ d.top \in Sections /\ d.quantization \in Sections
      BY SectionIs
  <1>2. CASE c.contradictory
    <2>1. d.method # "fp8" /\ ~IsFlat(d) /\ \E g, h \in SizesGiven(d) : g # h
        BY <1>2 DEF DescriptionsAreTrue
    <2>2. CommonGroupSize(d) = None
        BY <2>1, NoneInCommon
    <2> QED
        BY <1>2, <2>1, <2>2 DEF ParseFp4
  <1>3. CASE ~c.contradictory
    <2>1. /\ s.algo \in SerializedAlgos \cup {"FP8"} /\ c.group # None /\ SizesGiven(d) \subseteq {c.group}
          /\ ~IsFlat(d) => SizesGiven(d) # {}
          /\ IsFlat(d) /\ s.group = None /\ (s.groups = << >> \/ Head(s.groups) = None) =>
                s.algo # "FP8" /\ c.group = 16
        BY <1>3 DEF DescriptionsAreTrue
    <2>2. group = c.group /\ group \in Nat \cup {None}
      <3>1. CASE ~IsFlat(d)
        <4>1. CommonGroupSize(d) = c.group
            BY <2>1, <3>1, CommonIs
        <4>2. d.top.group \in Nat \cup {None} /\ d.quantization.group \in Nat \cup {None} /\ ToSet(d.top.groups) \subseteq Nat \cup {None}
            BY <1>1 DEF Sections, ToSet
        <4>3. c.group \in SizesGiven(d)
            BY <2>1, <3>1
        <4> QED
            BY <3>1, <4>1, <4>2, <4>3 DEF SizesGiven
      <3>2. CASE IsFlat(d)
        <4>1. s = d.top
            BY <3>2 DEF Section, IsFlat
        <4>2. s.group # None => s.group = c.group
            BY <2>1, <4>1 DEF SizesGiven
        <4>3. s.groups \in Seq(Nat \cup {None}) /\ s.group \in Nat \cup {None}
            BY <1>1 DEF Sections
        <4>4. s.groups # << >> /\ Head(s.groups) # None => Head(s.groups) = c.group
          <5> HIDE DEF s
          <5>1. SUFFICES ASSUME s.groups # << >>, Head(s.groups) # None PROVE Head(s.groups) = c.group
              OBVIOUS
          <5>2. Head(s.groups) = s.groups[1] /\ 1 \in DOMAIN s.groups
              BY <4>3, <5>1
          <5>3. s.groups[1] \in ToSet(s.groups)
              BY <5>2 DEF ToSet
          <5> QED
              BY <2>1, <4>1, <5>1, <5>2, <5>3 DEF SizesGiven
        <4>5. FlatGroup(s) = c.group /\ c.group \in Nat \cup {None}
          <5> HIDE DEF s
          <5>1. CASE s.group # None
              BY <4>2, <4>3, <5>1 DEF FlatGroup
          <5>2. CASE s.group = None /\ s.groups # << >> /\ Head(s.groups) # None
            <6>1. Head(s.groups) \in Nat \cup {None}
                BY <4>3, <5>2
            <6> QED
                BY <4>4, <5>2, <6>1 DEF FlatGroup
          <5>3. CASE s.group = None /\ ~ (s.groups # << >> /\ Head(s.groups) # None)
            <6>1. c.group = 16 /\ s.algo \in SerializedAlgos
                BY <2>1, <3>2, <5>3 DEF s
            <6>2. FlatGroup(s) = IF s.algo \in SerializedAlgos THEN 16 ELSE None
                BY <5>3 DEF FlatGroup
            <6> QED
                BY <2>1, <6>1, <6>2
          <5> QED
              BY <5>1, <5>2, <5>3
        <4> QED
            BY <3>2, <4>5
      <3> QED
          BY <3>1, <3>2
    <2>3. CASE d.method = "fp8"
        BY <1>3, <2>3 DEF ParseFp4
    <2>4. CASE d.method # "fp8"
      <3>1. ParseFp4(d) = Config("fp4", d, KvFp4(d), group)
          BY <2>1, <2>2, <2>4 DEF ParseFp4
      <3>2. ReadAs(c, KvFp4(c.description), OverlookedIn(c))
          BY KvFp4IsTheCheckpoints
      <3> HIDE DEF group
      <3>3. Understood(Config("fp4", c.description, KvFp4(c.description), group), c)
          BY <2>2, <3>2, ConfigIs
      <3> QED
          BY <1>3, <3>1, <3>3
    <2> QED
        BY <2>3, <2>4
  <1> QED
      BY <1>2, <1>3

LEMMA MixedIsUnderstood ==
  ASSUME DescriptionsAreTrue, NEW c \in Checkpoints, c.class = "mixed"
  PROVE  Understood(ParseMixed(c.description), c)
  <1> DEFINE d == c.description
             layers == Section(d).layers
             fp4 == {i \in DOMAIN layers : layers[i].algo \in Fp4Algos}
             group == IF fp4 = {} \/ layers[Min(fp4)].group = None THEN 16 ELSE layers[Min(fp4)].group
  <1>1. ~ c.contradictory
      BY DEF DescriptionsAreTrue
  <1>2. /\ Section(d).algo = "MIXED_PRECISION" /\ layers # << >> /\ c.group # None
        /\ \A i \in DOMAIN layers :
              layers[i].algo \in Fp4Algos =>
                  layers[i].group = c.group \/ (layers[i].group = None /\ c.group = 16)
        /\ (\A i \in DOMAIN layers : layers[i].algo \notin Fp4Algos) => c.group = 16
      BY <1>1 DEF DescriptionsAreTrue
  <1>3. layers \in Listings
      BY SectionIs DEF Sections
  <1>4. group = c.group /\ group \in Nat \cup {None}
    <2> HIDE DEF layers
    <2>1. CASE fp4 = {}
        BY <1>2, <2>1
    <2>2. CASE fp4 # {}
      <3>1. fp4 \subseteq Nat
          BY <1>3, ListingIs
      <3>2. \E x \in fp4 : \A y \in fp4 : x <= y
          BY <2>2, <3>1, LeastElement
      <3>3. Min(fp4) \in fp4
        <4> HIDE DEF fp4
        <4> QED
            BY <3>2 DEF Min
      <3>4. layers[Min(fp4)].group \in Nat \cup {None}
        <4>1. Min(fp4) \in DOMAIN layers
            BY <3>3
        <4>2. layers[Min(fp4)] \in Listing
            BY <1>3, <4>1, ListingIs
        <4> QED
            BY <4>2 DEF Listing
      <3>5. layers[Min(fp4)].group = c.group \/ (layers[Min(fp4)].group = None /\ c.group = 16)
          BY <1>2, <3>3
      <3>6. group = IF layers[Min(fp4)].group = None THEN 16 ELSE layers[Min(fp4)].group
          BY <2>2
      <3> HIDE DEF group, fp4
      <3> QED
          BY <1>2, <3>4, <3>5, <3>6
    <2> QED
        BY <2>1, <2>2
  <1>5. ParseMixed(d) = Config("mixed", d, KvMixed(d), group)
      BY <1>2 DEF ParseMixed
  <1>6. ReadAs(c, KvMixed(c.description), OverlookedIn(c))
      BY KvMixedIsTheCheckpoints
  <1> HIDE DEF group
  <1>7. Understood(Config("mixed", c.description, KvMixed(c.description), group), c)
      BY <1>4, <1>6, ConfigIs
  <1> QED
      BY <1>5, <1>7

\* The mapper renames names, and leaves a configuration a configuration.
LEMMA RenamedIs ==
  ASSUME NEW n \in Names
  PROVE  Renamed(n) \in Names /\ Variants(n) \subseteq Names
  <1>1. \A m \in Nat : After(n, m) \in Names
    <2> TAKE m \in Nat
    <2>1. After(n, m) = [i \in 1 .. Len(n) - m |-> n[i + m]]
        BY DEF After, Names
    <2>2. \A i \in 1 .. Len(n) - m : n[i + m] \in STRING
        BY DEF Names
    <2>3. CASE m >= Len(n)
        BY <2>3 DEF After, Names
    <2>4. CASE m < Len(n)
        BY <2>4 DEF After, Names
    <2> QED
        BY <2>3, <2>4 DEF Names
  <1>2. Len(HfPrefix) \in Nat /\ Len(LanguageModel) \in Nat
      BY QuantAssumption DEF Names, LanguageModel
  <1>3. ModelPrefix \o After(n, Len(HfPrefix)) \in Names
      BY <1>1, <1>2, QuantAssumption DEF Names
  <1> QED
      BY <1>1, <1>2, <1>3 DEF Renamed, Replaced, Variants

\* The configuration while the layers are given their methods.
ConfigInv ==
    IF part = "config"
    THEN /\ checkpoint \in Checkpoints /\ config \in Configs \cup {None, Refused, Online}
         /\ DescriptionIsUnderstood
    ELSE config = None

LEMMA ParseUnderstands == DescriptionsAreTrue /\ ConfigInv /\ part = "config" /\ Parse /\ UNCHANGED part => ConfigInv'
  <1>1. SUFFICES ASSUME DescriptionsAreTrue, ConfigInv, part = "config", Parse, UNCHANGED part
                 PROVE  ConfigInv'
      OBVIOUS
  <1>2. checkpoint \in Checkpoints /\ checkpoint' = checkpoint /\ mapped' = mapped
      BY <1>1 DEF ConfigInv, Parse
  <1>3. checkpoint.class \in {"fp8", "fp4", "mixed"}
      BY <1>2, QuantAssumption
  <1>4. IF checkpoint.contradictory THEN config' = Refused
                                    ELSE config' = Online \/ Understood(config', checkpoint)
    <2>1. CASE checkpoint.class = "fp8"
      <3>1. config' = ParseFp8(checkpoint.description)
          BY <1>1, <2>1 DEF Parse
      <3>2. ~ checkpoint.contradictory
          BY <1>1, <1>2, <2>1 DEF DescriptionsAreTrue
      <3> QED
          BY <1>1, <1>2, <2>1, <3>1, <3>2, Fp8IsUnderstood
    <2>2. CASE checkpoint.class = "fp4"
      <3>1. config' = ParseFp4(checkpoint.description)
          BY <1>1, <2>2 DEF Parse
      <3> QED
          BY <1>1, <1>2, <2>2, <3>1, Fp4IsUnderstood
    <2>3. CASE checkpoint.class = "mixed"
      <3>1. config' = ParseMixed(checkpoint.description)
          BY <1>1, <2>3 DEF Parse
      <3>2. ~ checkpoint.contradictory
          BY <1>1, <1>2, <2>3 DEF DescriptionsAreTrue
      <3> QED
          BY <1>1, <1>2, <2>3, <3>1, <3>2, MixedIsUnderstood
    <2> QED
        BY <1>3, <2>1, <2>2, <2>3
  <1>5. config' \in Configs \cup {None, Refused, Online}
      BY <1>4 DEF Understood
  <1>6. DescriptionIsUnderstood'
    <2>1. CASE config' \in {Refused, Online}
      <3>1. config' = Refused => checkpoint'.contradictory
          BY <1>2, <1>4, QuantAssumption DEF Understood
      <3> QED
          BY <2>1, <3>1 DEF DescriptionIsUnderstood
    <2>2. CASE Understood(config', checkpoint)
      <3>1. config' # Refused
          BY <2>2, QuantAssumption DEF Understood
      <3>2. OverlookedIn(checkpoint) = Overlooked'
          BY <1>2 DEF OverlookedIn, Overlooked
      <3>3. /\ \/ config'.kv = checkpoint'.kv
               \/ config'.kv \in {None, "auto"} /\ (checkpoint'.kv \notin {"FP8", "NVFP4"} \/ Overlooked')
            /\ config'.class # "fp8" => config'.group = checkpoint'.group
            /\ config'.exclude = checkpoint'.exclude
          BY <1>2, <2>2, <3>2 DEF Understood, ReadAs
      <3> QED
          BY <3>1, <3>3 DEF DescriptionIsUnderstood
    <2> QED
        BY <1>4, <2>1, <2>2
  <1> QED
      BY <1>1, <1>2, <1>5, <1>6 DEF ConfigInv

LEMMA MapperUnderstands == ConfigInv /\ part = "config" /\ ApplyWeightNameMapper /\ UNCHANGED part => ConfigInv'
  <1>1. SUFFICES ASSUME ConfigInv, part = "config", ApplyWeightNameMapper, UNCHANGED part
                 PROVE  ConfigInv'
      OBVIOUS
  <1>2. checkpoint \in Checkpoints /\ checkpoint' = checkpoint /\ mapped' = TRUE /\ config \in Configs
      BY <1>1 DEF ConfigInv, ApplyWeightNameMapper, Parsed
  <1> DEFINE exclude == MappedExclude(config.exclude)
             layers == MappedLayers(config.layers)
  <1>3. config' = [config EXCEPT !.exclude = exclude, !.layers = layers]
      BY <1>1 DEF ApplyWeightNameMapper
  <1>4. config.exclude \in SUBSET Patterns /\ config.layers \in Listings
      BY <1>2 DEF Configs
  <1>5. exclude \in SUBSET Patterns
    <2>1. ASSUME NEW p \in Patterns
          PROVE  {[p EXCEPT !.text = t] : t \in IF p.lead THEN {p.text} ELSE Variants(Renamed(p.text))} \subseteq Patterns
      <3>1. p.text \in Names
          BY DEF Patterns
      <3>2. Renamed(p.text) \in Names
          BY <3>1, RenamedIs
      <3>3. Variants(Renamed(p.text)) \subseteq Names
          BY <3>2, RenamedIs
      <3>4. \A t \in Names : [p EXCEPT !.text = t] \in Patterns
          BY DEF Patterns
      <3> QED
          BY <3>1, <3>3, <3>4
    <2> QED
        BY <1>4, <2>1 DEF MappedExclude
  <1>6. layers \in Listings
    <2>1. \A i \in DOMAIN config.layers : [config.layers[i] EXCEPT !.name = Renamed(@)] \in Listing
      <3> TAKE i \in DOMAIN config.layers
      <3>1. config.layers[i] \in Listing
          BY <1>4, ListingIs
      <3>2. Renamed(config.layers[i].name) \in Names
          BY <3>1, RenamedIs DEF Listing
      <3> QED
          BY <3>1, <3>2 DEF Listing
    <2>2. DOMAIN config.layers = 1 .. Len(config.layers) /\ Len(config.layers) \in Nat
        BY <1>4 DEF Listings
    <2> QED
        BY <2>1, <2>2 DEF Listings, MappedLayers
  <1> HIDE DEF exclude, layers
  <1>7. /\ config' \in Configs /\ config'.kv = config.kv /\ config'.group = config.group /\ config'.class = config.class
      BY <1>2, <1>3, <1>5, <1>6 DEF Configs
  <1>8. DescriptionIsUnderstood'
    <2>1. config \notin {None, Refused, Online} /\ config' \notin {None, Refused, Online}
        BY <1>2, <1>7, QuantAssumption
    <2>2. Overlooked' = Overlooked
        BY <1>2 DEF Overlooked
    <2> QED
        BY <1>1, <1>2, <1>7, <2>1, <2>2 DEF ConfigInv, DescriptionIsUnderstood
  <1> QED
      BY <1>1, <1>2, <1>7, <1>8 DEF ConfigInv

LEMMA ConfigStep == DescriptionsAreTrue /\ ConfigInv /\ [LoadNext]_loadVars => ConfigInv'
  <1>1. SUFFICES ASSUME DescriptionsAreTrue, ConfigInv, [LoadNext]_loadVars
                 PROVE  ConfigInv'
      OBVIOUS
  <1>2. CASE PickLinear
      BY <1>2 DEF PickLinear, LeaveConfiguration, ConfigInv
  <1>3. CASE PickExperts
      BY <1>3 DEF PickExperts, LeaveConfiguration, ConfigInv
  <1>4. CASE part = "config" /\ QuantNext /\ UNCHANGED <<part, denseVars, expertVars>>
    <2>1. CASE Parse
        BY <1>1, <1>4, <2>1, ParseUnderstands
    <2>2. CASE ApplyWeightNameMapper
        BY <1>1, <1>4, <2>2, MapperUnderstands
    <2>3. CASE GetQuantMethod
        BY <1>1, <1>4, <2>3 DEF GetQuantMethod, ConfigInv, DescriptionIsUnderstood, Overlooked
    <2> QED
        BY <1>4, <2>1, <2>2, <2>3 DEF QuantNext
  <1>5. CASE part = "linear" /\ DenseNext /\ UNCHANGED <<part, quantVars, expertVars>>
      BY <1>1, <1>5 DEF ConfigInv, quantVars
  <1>6. CASE part = "experts" /\ ExpertNext /\ UNCHANGED <<part, quantVars, denseVars>>
      BY <1>1, <1>6 DEF ConfigInv, quantVars
  <1>7. CASE UNCHANGED loadVars
      BY <1>1, <1>7 DEF ConfigInv, DescriptionIsUnderstood, Overlooked, loadVars, quantVars
  <1> QED
      BY <1>1, <1>2, <1>3, <1>4, <1>5, <1>6, <1>7 DEF LoadNext

\* A configuration says what its checkpoint stores, in whichever form it is described and
\* of whichever kind it is (the three from_config of modelopt_quant.py), also after the
\* mapper renamed its patterns: the block size, the exclusions, and the KV cache format,
\* which is left open only if it is neither FP8 nor NVFP4 or given in a form that the class
\* does not read; only a description that gives two block sizes is refused.
THEOREM ConfigurationsAreUnderstood ==
  ASSUME DescriptionsAreTrue
  PROVE  LoadSpec => []DescriptionIsUnderstood
  <1>1. LoadInit => ConfigInv
      BY DEF LoadInit, QuantInit, ConfigInv, DescriptionIsUnderstood
  <1>2. ConfigInv /\ [LoadNext]_loadVars => ConfigInv'
      BY ConfigStep
  <1>3. ConfigInv => DescriptionIsUnderstood
      BY DEF ConfigInv, DescriptionIsUnderstood
  <1> QED
      BY <1>1, <1>2, <1>3, PTL DEF LoadSpec
=============================================================================
