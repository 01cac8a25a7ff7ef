--------------------------- MODULE MoeForwardProofs ---------------------------
(***************************************************************************)
(* The mixture of experts, for any sizes, tiles, calls and routings: the   *)
(* blocks that routes are padded to and the grouped order of the programs  *)
(* give every stored cell one program, every route's tile has one, a loop  *)
(* over K multiplies every k once, and so each launch leaves what the next *)
(* one reads, up to the sum over the routes of a token.                    *)
(***************************************************************************)
EXTENDS MoeForward, FiniteSetTheorems, WellFoundedInduction, TLAPS

-----------------------------------------------------------------------------
(* Arithmetic.                                                             *)

LEMMA Divided ==
  ASSUME NEW d \in Nat \ {0}, NEW i \in Nat, NEW o \in 0 .. d - 1
  PROVE  (i * d + o) \div d = i /\ (i * d + o) % d = o
  OBVIOUS

LEMMA Division ==
  ASSUME NEW d \in Nat \ {0}, NEW a \in Nat
  PROVE  /\ a \div d \in Nat /\ a % d \in 0 .. d - 1 /\ a = (a \div d) * d + (a % d)
         /\ (a \div d) * d <= a /\ a < (a \div d) * d + d
  OBVIOUS

LEMMA Times ==
  ASSUME NEW a \in Nat, NEW b \in Nat, NEW m \in Nat, a <= b
  PROVE  a * m <= b * m /\ a * m \in Nat /\ b * m \in Nat
  OBVIOUS

LEMMA TimesIsAssociative ==
  ASSUME NEW a \in Nat, NEW b \in Nat, NEW c \in Nat
  PROVE  a * (b * c) = (a * b) * c /\ a * b \in Nat
  OBVIOUS

LEMMA NextTimes ==
  ASSUME NEW a \in Nat, NEW m \in Nat
  PROVE  (a + 1) * m = a * m + m
  OBVIOUS

\* Numbers of different tiles differ.
LEMMA Tiled ==
  ASSUME NEW m \in Nat \ {0}, NEW a \in Nat, NEW x \in a * m .. (a + 1) * m - 1
  PROVE  x \div m = a
  <1> DEFINE z == a * m  o == x - z
  <1>1. z \in Nat /\ (a + 1) * m = z + m
      BY Times, NextTimes
  <1>2. o \in 0 .. m - 1 /\ x = z + o
    <2>1. x \in z .. z + m - 1
        BY <1>1
    <2> HIDE DEF z
    <2> QED
        BY <1>1, <2>1
  <1> HIDE DEF o
  <1> QED
      BY <1>2, Divided DEF z

LEMMA CeilingIs ==
  ASSUME NEW a \in Nat, NEW m \in Nat \ {0}
  PROVE  /\ CeilDiv(a, m) \in Nat /\ a <= CeilDiv(a, m) * m
         /\ CeilDiv(a, m) * m <= a + m - 1
         /\ a = 0 => CeilDiv(a, m) * m = 0
  <1> DEFINE q == (a + m - 1) \div m  z == q * m
  <1>1. a + m - 1 \in Nat
      OBVIOUS
  <1>2. q \in Nat /\ z <= a + m - 1 /\ a + m - 1 < z + m
      BY <1>1, Division
  <1>3. z \in Nat
      BY <1>2, Times
  <1>4. a = 0 => q = 0
    <2>1. a = 0 => a + m - 1 = 0 * m + (m - 1) /\ m - 1 \in 0 .. m - 1
        OBVIOUS
    <2>2. (0 * m + (m - 1)) \div m = 0
        BY Divided
    <2> QED
        BY <2>1, <2>2
  <1>5. CeilDiv(a, m) = q
      BY DEF CeilDiv
  <1> HIDE DEF q
  <1>6. q = 0 => z = 0
      OBVIOUS
  <1> HIDE DEF z
  <1>7. a <= z
      BY <1>2, <1>3
  <1> QED
      BY <1>2, <1>4, <1>5, <1>6, <1>7 DEF z

-----------------------------------------------------------------------------
(* The grouped order gives every tile of C one program.                    *)

\* Program p is the x-th of the q-th group of at most g rows of tiles.
InGroup(p, mb, nb, g, q, x) ==
    LET h == Least(mb - q * g, g)
    IN  /\ h \in 1 .. g
        /\ PidM(p, mb, nb, g) \in 0 .. mb - 1
        /\ PidM(p, mb, nb, g) \div g = q
        /\ PidM(p, mb, nb, g) = q * g + (x % h)
        /\ PidN(p, mb, nb, g) = x \div h
        /\ p = q * (g * nb) + x

LEMMA ProgramsAreGrouped ==
  ASSUME NEW mb \in Nat, NEW nb \in Nat \ {0}, NEW g \in Nat \ {0}, NEW p \in 0 .. mb * nb - 1
  PROVE  \E q \in Nat, x \in Nat : InGroup(p, mb, nb, g, q, x)
  <1> DEFINE w == g * nb  q == p \div w  x == p % w  z == q * g  h == GroupHeight(p, mb, nb, g)
  <1>1. w \in Nat \ {0} /\ p \in Nat /\ p < mb * nb
      OBVIOUS
  <1>2. q \in Nat /\ x \in Nat /\ p = q * w + x /\ q * w <= p
    <2> HIDE DEF w
    <2>1. p \div w \in Nat /\ p % w \in 0 .. w - 1 /\ p = (p \div w) * w + (p % w) /\ (p \div w) * w <= p
        BY <1>1, Division
    <2> QED
        BY <2>1
  <1>3. z \in Nat /\ q * w = z * nb
    <2> HIDE DEF q
    <2> QED
        BY <1>2, TimesIsAssociative
  <1>4. h = Least(mb - z, g)
      BY DEF GroupHeight
  <1>5. PidM(p, mb, nb, g) = z + (x % h) /\ PidN(p, mb, nb, g) = x \div h
      BY DEF PidM, PidN
  <1> HIDE DEF w, q, x, h
  <1>6. z < mb
    <2>1. z * nb < mb * nb
      <3> DEFINE s == z * nb  t == mb * nb  u == q * w
      <3>1. s \in Nat /\ t \in Nat /\ u = s /\ u <= p /\ p < t
          BY <1>1, <1>2, <1>3
      <3> HIDE DEF s, t, u
      <3>2. s < t
          BY <1>1, <3>1
      <3> QED
          BY <3>2 DEF s, t
    <2>2. ASSUME mb <= z PROVE FALSE
      <3>1. mb * nb <= z * nb /\ mb * nb \in Nat /\ z * nb \in Nat
          BY <1>3, <2>2, Times
      <3> QED
          BY <2>1, <3>1
    <2> QED
        BY <1>3, <2>2
  <1>7. h \in 1 .. g /\ h <= mb - z
    <2> HIDE DEF z
    <2> QED
        BY <1>3, <1>4, <1>6 DEF Least
  <1>8. x % h \in 0 .. h - 1
      BY <1>2, <1>7, Division
  <1>9. z + (x % h) \in 0 .. mb - 1
    <2> HIDE DEF z
    <2> QED
        BY <1>3, <1>7, <1>8
  <1>10. (z + (x % h)) \div g = q
    <2>1. x % h \in 0 .. g - 1
        BY <1>7, <1>8
    <2> QED
        BY <1>2, <2>1, Divided
  <1>11. InGroup(p, mb, nb, g, q, x)
      BY <1>2, <1>4, <1>5, <1>7, <1>9, <1>10 DEF InGroup, w
  <1> QED
      BY <1>2, <1>11

LEMMA OneProgramATile ==
  ASSUME NEW mb \in Nat, NEW nb \in Nat \ {0}, NEW g \in Nat \ {0},
         NEW p \in 0 .. mb * nb - 1, NEW o \in 0 .. mb * nb - 1,
         PidM(p, mb, nb, g) = PidM(o, mb, nb, g), PidN(p, mb, nb, g) = PidN(o, mb, nb, g)
  PROVE  p = o
  <1>1. PICK q \in Nat, x \in Nat : InGroup(p, mb, nb, g, q, x)
      BY ProgramsAreGrouped
  <1>2. PICK r \in Nat, y \in Nat : InGroup(o, mb, nb, g, r, y)
      BY ProgramsAreGrouped
  <1>3. q = r
      BY <1>1, <1>2 DEF InGroup
  <1> DEFINE h == Least(mb - q * g, g)
  <1>4. h \in Nat \ {0} /\ x \div h = y \div h
    <2>1. h \in 1 .. g /\ x \div h = PidN(p, mb, nb, g)
        BY <1>1 DEF InGroup
    <2>2. y \div h = PidN(o, mb, nb, g)
        BY <1>2, <1>3 DEF InGroup
    <2> HIDE DEF h
    <2>3. h \in Nat \ {0}
        BY ONLY <2>1, g \in Nat \ {0}
    <2> QED
        BY <2>1, <2>2, <2>3
  <1>5. q * g + (x % h) = q * g + (y % h)
      BY <1>1, <1>2, <1>3 DEF InGroup
  <1> HIDE DEF h
  <1>6. x % h \in Nat /\ y % h \in Nat /\ x = (x \div h) * h + (x % h) /\ y = (y \div h) * h + (y % h)
      BY ONLY <1>4, Division, x \in Nat, y \in Nat
  <1>7. x % h = y % h
    <2> DEFINE z == q * g  u == x % h  v == y % h
    <2>1. z \in Nat
        BY TimesIsAssociative
    <2>2. u \in Nat /\ v \in Nat /\ z + u = z + v
        BY <1>5, <1>6
    <2> HIDE DEF z, u, v
    <2>3. u = v
        BY <2>1, <2>2
    <2> QED
        BY <2>3 DEF u, v
  <1>8. x = y
      BY <1>4, <1>6, <1>7
  <1> QED
      BY <1>1, <1>2, <1>3, <1>8 DEF InGroup

-----------------------------------------------------------------------------
(* Induction.                                                              *)

\* A set of naturals has a least element.
LEMMA LeastElement ==
  ASSUME NEW T, T \subseteq Nat, T # {}
  PROVE  \E x \in T : \A y \in T : x <= y
  <1> DEFINE R == {ss \in Nat \X Nat : ss[1] < ss[2]}
  <1>1. IsWellFoundedOn(R, Nat)
      BY NatLessThanWellFounded DEF OpToRel
  <1>2. \E x \in T : \A y \in T : ~ (<<y, x>> \in R)
    <2> HIDE DEF R
    <2> QED
        BY <1>1, WFMin
  <1>3. \A x, y \in T : ~ (<<y, x>> \in R) => x <= y
      OBVIOUS
  <1>4. QED
      BY <1>2, <1>3

\* Induction up to n, over a set.
LEMMA Climb ==
  ASSUME NEW n \in Nat, NEW S, 0 \in S, \A i \in 0 .. n - 1 : i \in S => i + 1 \in S
  PROVE  \A i \in 0 .. n : i \in S
  <1> DEFINE T == {i \in 0 .. n : i \notin S}
  <1> SUFFICES ASSUME T # {} PROVE FALSE
      OBVIOUS
  <1>1. PICK x \in T : \A y \in T : x <= y
    <2>1. T \subseteq Nat
        OBVIOUS
    <2> HIDE DEF T
    <2> QED
        BY <2>1, LeastElement
  <1>2. x \in 1 .. n
      OBVIOUS
  <1>3. x - 1 \in 0 .. n - 1 /\ x - 1 \notin T
      BY <1>1, <1>2
  <1>4. QED
      BY <1>2, <1>3


-----------------------------------------------------------------------------
(* The routes in blocks.                                                   *)

LEMMA RoutesAre ==
  ASSUME NEW c \in Calls
  PROVE  /\ Topk(c) \in Nat \ {0} /\ Tokens * Topk(c) \in Nat \ {0}
         /\ IsFiniteSet(Routes(c)) /\ Cardinality(Routes(c)) = Tokens * Topk(c)
         /\ Routes(c) \subseteq Nat
         /\ \A r \in Routes(c) : r < Tokens * Topk(c) /\ Slot(c, r) \in -1 .. Experts - 1
  <1>1. c.k \in Nat \ {0} /\ c.shared \in Nat /\ Tokens \in Nat \ {0}
      BY MoeAssumption
  <1>2. Topk(c) \in Nat \ {0}
      BY <1>1 DEF Topk
  <1> DEFINE n == Tokens * Topk(c)
  <1>3. n \in Nat \ {0}
    <2> HIDE DEF Topk
    <2> QED
        BY <1>1, <1>2
  <1>4. Routes(c) = 0 .. n - 1
      BY DEF Routes
  <1>5. \A r \in Routes(c) : Slot(c, r) \in -1 .. Experts - 1
      BY MoeAssumption
  <1> HIDE DEF n
  <1>6. IsFiniteSet(0 .. n - 1) /\ Cardinality(0 .. n - 1) = n
    <2>1. IsFiniteSet(0 .. n - 1) /\ Cardinality(0 .. n - 1) = IF 0 > n - 1 THEN 0 ELSE n - 1 - 0 + 1
      <3>1. 0 \in Int /\ n - 1 \in Int
          BY <1>3
      <3> QED
          BY <3>1, FS_Interval
    <2> QED
        BY <1>3, <2>1
  <1>7. \A r \in 0 .. n - 1 : r \in Nat /\ r < n
      BY <1>3
  <1> QED
      BY <1>2, <1>3, <1>4, <1>5, <1>6, <1>7 DEF n

LEMMA BucketsAre ==
  ASSUME NEW c \in Calls, NEW e, NEW bm \in Nat \ {0}
  PROVE  /\ IsFiniteSet(Bucket(c, e)) /\ Cardinality(Bucket(c, e)) \in Nat
         /\ BlocksOf(c, e, bm) \in Nat
         /\ Cardinality(Bucket(c, e)) <= BlocksOf(c, e, bm) * bm
         /\ BlocksOf(c, e, bm) * bm <= Cardinality(Bucket(c, e)) + bm - 1
         /\ Cardinality(Bucket(c, e)) = 0 => BlocksOf(c, e, bm) * bm = 0
  <1>1. Bucket(c, e) \subseteq Routes(c)
      BY DEF Bucket
  <1>2. IsFiniteSet(Bucket(c, e)) /\ Cardinality(Bucket(c, e)) \in Nat
      BY <1>1, RoutesAre, FS_Subset, FS_CardinalityType
  <1> QED
      BY <1>2, CeilingIs DEF BlocksOf

\* t[i] is the number of blocks of the first i slots, the remote routes' first.
IsBlocks(t, c, bm) ==
    /\ t[0] = 0
    /\ \A i \in 0 .. Experts + 1 : t[i] \in Nat
    /\ \A i \in 0 .. Experts : t[i + 1] = t[i] + BlocksOf(c, i - 1, bm)

LEMMA BlocksAreSums ==
  ASSUME NEW c \in Calls, NEW bm \in Nat \ {0}
  PROVE  IsBlocks(BlocksBefore(c, bm), c, bm)
  <1> DEFINE n == Experts + 1
             B(i) == BlocksOf(c, i - 2, bm)
             Is(t, k) == t = [i \in 0 .. k |-> IF i = 0 THEN 0 ELSE t[i - 1] + B(i)]
             S == {k \in 0 .. n : \E t \in [0 .. k -> Nat] : Is(t, k)}
  <1>0. n \in Nat /\ \A i : B(i) \in Nat
      BY MoeAssumption, BucketsAre
  <1> HIDE DEF n, B
  <1>1. 0 \in S
    <2> DEFINE t == [i \in 0 .. 0 |-> 0]
    <2>1. t \in [0 .. 0 -> Nat] /\ Is(t, 0)
        OBVIOUS
    <2> HIDE DEF t, Is
    <2> QED
        BY <1>0, <2>1
  <1>2. ASSUME NEW k \in 0 .. n - 1, k \in S PROVE k + 1 \in S
    <2>1. PICK t \in [0 .. k -> Nat] : Is(t, k)
        BY <1>2
    <2> DEFINE u == [i \in 0 .. k + 1 |-> IF i = k + 1 THEN t[k] + B(k + 1) ELSE t[i]]
    <2>k. k \in Nat
        BY <1>0
    <2>a. ASSUME NEW i \in 0 .. k + 1 PROVE (IF i = k + 1 THEN t[k] + B(k + 1) ELSE t[i]) \in Nat
      <3>1. t[k] \in Nat /\ B(k + 1) \in Nat
          BY <1>0, <2>k
      <3>2. i # k + 1 => i \in 0 .. k
          BY <2>k
      <3> QED
          BY <3>1, <3>2
    <2>2. u \in [0 .. k + 1 -> Nat]
        BY <2>a
    <2>3. ASSUME NEW i \in 0 .. k + 1
          PROVE  u[i] = IF i = 0 THEN 0 ELSE u[i - 1] + B(i)
      <3>1. CASE i = k + 1
        <4>1. i # 0 /\ i - 1 = k /\ k \in 0 .. k + 1 /\ k # k + 1
            BY <2>k, <3>1
        <4> QED
            BY <3>1, <4>1
      <3>2. CASE i \in 0 .. k
        <4>1. t[i] = IF i = 0 THEN 0 ELSE t[i - 1] + B(i)
            BY <2>1, <3>2
        <4>2. i # k + 1 /\ i \in 0 .. k + 1 /\ (i # 0 => i - 1 \in 0 .. k + 1 /\ i - 1 # k + 1)
            BY <2>k, <3>2
        <4> QED
            BY <4>1, <4>2
      <3> QED
          BY <2>k, <3>1, <3>2
    <2>4. Is(u, k + 1)
      <3> HIDE DEF u
      <3>1. u = [i \in 0 .. k + 1 |-> u[i]]
          BY <2>2
      <3> QED
          BY <3>1, <2>3
    <2>5. \E t2 \in [0 .. k + 1 -> Nat] : Is(t2, k + 1)
      <3> HIDE DEF u, Is
      <3> QED
          BY <2>2, <2>4
    <2>6. k + 1 \in 0 .. n
        BY <1>0
    <2> HIDE DEF Is
    <2> QED
        BY <2>5, <2>6
  <1>3. n \in S
    <2> HIDE DEF S
    <2>1. \A i \in 0 .. n : i \in S
        BY <1>0, <1>1, <1>2, Climb
    <2> QED
        BY <1>0, <2>1
  <1>4. PICK f \in [0 .. n -> Nat] : Is(f, n)
      BY <1>3
  <1> DEFINE s == BlocksBefore(c, bm)
  <1>5. s = CHOOSE t : Is(t, n)
      BY DEF BlocksBefore, B, n
  <1>6. Is(s, n)
    <2> HIDE DEF Is, s
    <2> QED
        BY <1>4, <1>5
  <1> HIDE DEF s
  <1>7. s[0] = 0
      BY <1>0, <1>6
  <1>8. \A i \in 0 .. n - 1 : s[i + 1] = s[i] + B(i + 1)
    <2> TAKE i \in 0 .. n - 1
    <2>1. i + 1 \in 0 .. n /\ i + 1 # 0 /\ (i + 1) - 1 = i
        BY <1>0
    <2> QED
        BY <1>6, <2>1
  <1>9. \A i \in 0 .. n : s[i] \in Nat
    <2> DEFINE N == {i \in 0 .. n : s[i] \in Nat}
    <2>1. 0 \in N
        BY <1>0, <1>7
    <2>2. ASSUME NEW i \in 0 .. n - 1, i \in N PROVE i + 1 \in N
      <3>1. i + 1 \in 0 .. n /\ s[i + 1] = s[i] + B(i + 1) /\ s[i] \in Nat
          BY <1>0, <1>8, <2>2
      <3> QED
          BY <1>0, <3>1
    <2> HIDE DEF N
    <2>3. \A i \in 0 .. n : i \in N
        BY <1>0, <2>1, <2>2, Climb
    <2> QED
        BY <2>3 DEF N
  <1>10. \A i \in 0 .. Experts : s[i + 1] = s[i] + BlocksOf(c, i - 1, bm)
    <2> TAKE i \in 0 .. Experts
    <2>1. i \in 0 .. n - 1 /\ (i + 1) - 2 = i - 1
        BY MoeAssumption DEF n
    <2> QED
        BY <1>8, <2>1 DEF B
  <1> QED
      BY <1>7, <1>9, <1>10 DEF IsBlocks, n, s

\* The routes of the first i slots, the remote ones first.
Before(c, i) == {r \in Routes(c) : Slot(c, r) < i - 1}

LEMMA BeforeGrows ==
  ASSUME NEW c \in Calls, NEW i \in 0 .. Experts + 1
  PROVE  /\ Cardinality(Before(c, i)) \in Nat
         /\ Cardinality(Before(c, i)) <= Tokens * Topk(c)
         /\ i = 0 => Cardinality(Before(c, i)) = 0
         /\ Cardinality(Before(c, i + 1)) = Cardinality(Before(c, i)) + Cardinality(Bucket(c, i - 1))
  <1> DEFINE A == Before(c, i)  B == Bucket(c, i - 1)  D == Before(c, i + 1)
  <1>0. i \in Int /\ \A r \in Routes(c) : Slot(c, r) \in Int /\ Slot(c, r) >= -1
    <2>1. Experts \in Nat /\ \A r \in Routes(c) : Slot(c, r) \in -1 .. Experts - 1
        BY MoeAssumption
    <2> QED
        BY <2>1
  <1>1. A \subseteq Routes(c) /\ B \subseteq Routes(c)
      BY DEF Before, Bucket
  <1>2. D = A \cup B
    <2>1. \A r \in Routes(c) : Slot(c, r) < (i + 1) - 1 <=> Slot(c, r) < i - 1 \/ Slot(c, r) = i - 1
        BY <1>0
    <2> QED
        BY <2>1 DEF Before, Bucket
  <1>3. A \cap B = {}
    <2>1. \A r \in Routes(c) : ~ (Slot(c, r) < i - 1 /\ Slot(c, r) = i - 1)
        BY <1>0
    <2> QED
        BY <2>1 DEF Before, Bucket
  <1>4. i = 0 => A = {}
    <2>1. i = 0 => \A r \in Routes(c) : ~ (Slot(c, r) < i - 1)
        BY <1>0
    <2> QED
        BY <2>1 DEF Before
  <1>5. IsFiniteSet(A) /\ IsFiniteSet(B) /\ Cardinality(A) <= Cardinality(Routes(c))
      BY <1>1, RoutesAre, FS_Subset
  <1>6. Cardinality(A) \in Nat /\ Cardinality(B) \in Nat
      BY <1>5, FS_CardinalityType
  <1>7. Cardinality(D) = Cardinality(A) + Cardinality(B)
    <2>1. Cardinality(A \cup B) = Cardinality(A) + Cardinality(B) - Cardinality(A \cap B)
        BY <1>5, FS_Union
    <2>2. Cardinality(A \cap B) = 0
        BY <1>3, FS_EmptySet
    <2> HIDE DEF A, B, D
    <2> QED
        BY <1>2, <1>6, <2>1, <2>2
  <1>8. i = 0 => Cardinality(A) = 0
      BY <1>4, FS_EmptySet
  <1>9. QED
      BY <1>5, <1>6, <1>7, <1>8, RoutesAre

\* The blocks of the first i slots hold their routes and at most bm - 1 places of
\* padding for each of k slots that have one.
IsPadded(c, bm, i, k) ==
    /\ k <= i /\ k <= Cardinality(Before(c, i))
    /\ BlocksBefore(c, bm)[i] * bm <= Cardinality(Before(c, i)) + k * (bm - 1)

LEMMA PaddingIsBounded ==
  ASSUME NEW c \in Calls, NEW bm \in Nat \ {0}, NEW i \in 0 .. Experts + 1
  PROVE  \E k \in Nat : IsPadded(c, bm, i, k)
  <1> DEFINE n == Experts + 1
             S == {j \in 0 .. n : \E k \in Nat : IsPadded(c, bm, j, k)}
  <1>0. n \in Nat /\ IsBlocks(BlocksBefore(c, bm), c, bm)
      BY MoeAssumption, BlocksAreSums
  <1>1. 0 \in S
    <2> DEFINE b == BlocksBefore(c, bm)[0]  m == Cardinality(Before(c, 0))
    <2>1. b = 0
        BY <1>0 DEF IsBlocks
    <2>2. m = 0
        BY <1>0, BeforeGrows DEF n
    <2> HIDE DEF b, m
    <2>3. 0 <= 0 /\ 0 <= m /\ b * bm <= m + 0 * (bm - 1)
        BY <2>1, <2>2
    <2>4. IsPadded(c, bm, 0, 0)
        BY <2>3 DEF IsPadded, b, m
    <2> QED
        BY <1>0, <2>4
  <1>2. ASSUME NEW j \in 0 .. n - 1, j \in S PROVE j + 1 \in S
    <2> DEFINE b == BlocksBefore(c, bm)[j]  d == BlocksOf(c, j - 1, bm)
               m == Cardinality(Before(c, j))  u == Cardinality(Bucket(c, j - 1))
    <2>1. PICK k \in Nat : IsPadded(c, bm, j, k)
        BY <1>2
    <2>2. j \in 0 .. Experts /\ j \in 0 .. Experts + 1 /\ j \in Nat /\ j + 1 \in 0 .. n
        BY <1>0, MoeAssumption
    <2>3. b \in Nat /\ BlocksBefore(c, bm)[j + 1] = b + d
        BY <1>0, <2>2 DEF IsBlocks
    <2>4. d \in Nat /\ u \in Nat /\ d * bm <= u + bm - 1 /\ (u = 0 => d * bm = 0)
        BY BucketsAre
    <2>5. m \in Nat /\ Cardinality(Before(c, j + 1)) = m + u
        BY <2>2, BeforeGrows
    <2>6. k <= j /\ k <= m /\ b * bm <= m + k * (bm - 1)
        BY <2>1 DEF IsPadded
    <2> HIDE DEF b, d, m, u
    <2>7. (b + d) * bm = b * bm + d * bm /\ (k + 1) * (bm - 1) = k * (bm - 1) + (bm - 1)
      <3>1. (b + d) * bm = b * bm + d * bm
          BY <2>3, <2>4
      <3>2. (k + 1) * (bm - 1) = k * (bm - 1) + (bm - 1)
          BY NextTimes
      <3> QED
          BY <3>1, <3>2
    <2> DEFINE x == b * bm  y == d * bm  z == k * (bm - 1)
    <2>8. x \in Nat /\ y \in Nat /\ z \in Nat
        BY <2>3, <2>4, Times
    <2>9. CASE u = 0
      <3>1. k <= j + 1 /\ k <= m + u /\ (b + d) * bm <= m + u + z
        <4> HIDE DEF x, y, z
        <4>1. y = 0 /\ x <= m + z /\ (b + d) * bm = x + y
            BY <2>4, <2>6, <2>7, <2>9 DEF x, y, z
        <4> QED
            BY <2>2, <2>4, <2>5, <2>6, <2>8, <2>9, <4>1
      <3>2. IsPadded(c, bm, j + 1, k)
          BY <2>3, <2>5, <3>1 DEF IsPadded
      <3> QED
          BY <2>2, <3>2
    <2>10. CASE u # 0
      <3>1. k + 1 <= j + 1 /\ k + 1 <= m + u /\ (b + d) * bm <= m + u + (k + 1) * (bm - 1)
        <4> DEFINE v == (b + d) * bm  w == (k + 1) * (bm - 1)
        <4>1. v = x + y /\ w = z + (bm - 1) /\ y <= u + bm - 1 /\ x <= m + z
            BY <2>4, <2>6, <2>7
        <4> HIDE DEF v, w, x, y, z
        <4>2. k + 1 <= j + 1 /\ k + 1 <= m + u /\ v <= m + u + w
            BY <2>2, <2>4, <2>5, <2>6, <2>8, <2>10, <4>1
        <4> QED
            BY <4>2 DEF v, w
      <3>2. IsPadded(c, bm, j + 1, k + 1)
          BY <2>3, <2>5, <3>1 DEF IsPadded
      <3> QED
          BY <2>2, <3>2
    <2> QED
        BY <2>9, <2>10
  <1> HIDE DEF S
  <1>3. \A j \in 0 .. n : j \in S
      BY <1>0, <1>1, <1>2, Climb
  <1> QED
      BY <1>3 DEF S, n

\* Every route has a place below the rows that the alignment allocates.
LEMMA PositionsFit ==
  ASSUME NEW c \in Calls, NEW bm \in Nat \ {0}, NEW r \in Routes(c)
  PROVE  PositionOf(c, r, bm) \in 0 .. Tokens * Topk(c) + Least(Tokens * Topk(c), Experts + 1) * (bm - 1) - 1
  <1> DEFINE n == Tokens * Topk(c)  s == Slot(c, r)  x == Experts + 1
             b == BlocksBefore(c, bm)[s + 1]  d == BlocksOf(c, s, bm)
             u == Cardinality(Bucket(c, s))
             Q == {q \in Bucket(c, s) : q < r}  a == Cardinality(Q)
             e == BlocksBefore(c, bm)[s + 2]  h == Least(n, x)
  <1>1. n \in Nat \ {0} /\ s \in -1 .. Experts - 1 /\ Experts \in Nat /\ r \in Nat
      BY RoutesAre, MoeAssumption
  <1>2. s + 1 \in 0 .. Experts /\ s + 1 \in 0 .. Experts + 1 /\ (s + 1) - 1 = s /\ (s + 1) + 1 = s + 2 /\ s + 2 \in 0 .. Experts + 1
      BY <1>1
  <1>3. b \in Nat /\ e = b + d
    <2> HIDE DEF s
    <2>1. BlocksBefore(c, bm)[s + 1] \in Nat
        BY <1>2, BlocksAreSums DEF IsBlocks
    <2>2. BlocksBefore(c, bm)[(s + 1) + 1] = BlocksBefore(c, bm)[s + 1] + BlocksOf(c, (s + 1) - 1, bm)
        BY <1>2, BlocksAreSums DEF IsBlocks
    <2> QED
        BY <1>2, <2>1, <2>2
  <1>4. d \in Nat /\ u \in Nat /\ u <= d * bm /\ IsFiniteSet(Bucket(c, s))
      BY BucketsAre
  <1>5. a \in Nat /\ a < u
    <2>1. Q \subseteq Bucket(c, s) /\ r \in Bucket(c, s) /\ r \notin Q
        BY <1>1 DEF Bucket
    <2>2. IsFiniteSet(Q) /\ a \in Nat
        BY <1>4, <2>1, FS_Subset, FS_CardinalityType
    <2>3. a <= u /\ (a = u => Q = Bucket(c, s))
      <3> HIDE DEF Q
      <3> QED
          BY <1>4, <2>1, FS_Subset
    <2> HIDE DEF a, u, Q
    <2> QED
        BY <1>4, <2>1, <2>2, <2>3
  <1>6. PICK k \in Nat : IsPadded(c, bm, s + 2, k)
      BY <1>2, PaddingIsBounded
  <1> DEFINE m == Cardinality(Before(c, s + 2))
  <1>7. m \in Nat /\ m <= n
      BY <1>2, BeforeGrows
  <1>8. k <= s + 2 /\ k <= m /\ e * bm <= m + k * (bm - 1)
      BY <1>6 DEF IsPadded
  <1>9. k <= h /\ h \in Nat
    <2> HIDE DEF n, m, s
    <2> QED
        BY <1>1, <1>7, <1>8 DEF Least
  <1>10. PositionOf(c, r, bm) = b * bm + a
      BY DEF PositionOf, FirstBlock
  <1> HIDE DEF n, m, s, a, b, d, e, u, h
  <1>11. e * bm = b * bm + d * bm
      BY <1>3, <1>4
  <1> DEFINE v == e * bm  y == b * bm  z == d * bm  i == k * (bm - 1)  j == h * (bm - 1)
  <1>12. v = y + z /\ y \in Nat /\ z \in Nat /\ i \in Nat /\ j \in Nat /\ i <= j
      BY <1>3, <1>4, <1>9, <1>11, Times
  <1>13. v <= m + i /\ u <= z
      BY <1>4, <1>8
  <1> HIDE DEF v, y, z, i, j
  <1>14. y + a \in 0 .. n + j - 1
      BY <1>1, <1>4, <1>5, <1>7, <1>12, <1>13
  <1> QED
      BY <1>10, <1>14 DEF n, x, h, y, j

LEMMA AlignmentIs ==
  ASSUME NEW c \in Calls, NEW bm \in Nat \ {0}
  PROVE  /\ Align(c, bm).rows = Tokens * Topk(c) + Least(Tokens * Topk(c), Experts + 1) * (bm - 1)
         /\ Align(c, bm).blocks \in Nat
         /\ \A p \in 0 .. Align(c, bm).blocks * bm - 1 :
               Align(c, bm).sorted[p] < Tokens * Topk(c) =>
                   /\ Align(c, bm).sorted[p] \in Routes(c)
                   /\ PositionOf(c, Align(c, bm).sorted[p], bm) = p
                   /\ p \in 0 .. Align(c, bm).rows - 1
  <1> DEFINE n == Tokens * Topk(c)  h == Least(n, Experts + 1)  rows == n + h * (bm - 1)
             blocks == CeilDiv(rows, bm)
             At(p) == IF \E r \in Routes(c) : PositionOf(c, r, bm) = p
                          THEN CHOOSE r \in Routes(c) : PositionOf(c, r, bm) = p
                          ELSE n
  <1>1. /\ Align(c, bm).rows = rows /\ Align(c, bm).blocks = blocks
        /\ Align(c, bm).sorted = [p \in 0 .. blocks * bm - 1 |-> At(p)]
      BY DEF Align
  <1>2. n \in Nat \ {0}
      BY RoutesAre
  <1>3. h * (bm - 1) \in Nat
    <2>1. h \in Nat
      <3> HIDE DEF n
      <3> QED
          BY <1>2, MoeAssumption DEF Least
    <2> HIDE DEF n, h
    <2> QED
        BY <2>1, Times
  <1>8. blocks \in Nat
    <2> DEFINE w == h * (bm - 1)
    <2>1. rows = n + w /\ w \in Nat
        BY <1>3
    <2> HIDE DEF n, w, rows
    <2>2. rows \in Nat
        BY <1>2, <2>1
    <2> HIDE DEF blocks
    <2> QED
        BY <2>2, CeilingIs DEF blocks
  <1>4. ASSUME NEW p \in 0 .. blocks * bm - 1, At(p) < n
        PROVE  At(p) \in Routes(c) /\ PositionOf(c, At(p), bm) = p /\ p \in 0 .. rows - 1
    <2>1. \E r \in Routes(c) : PositionOf(c, r, bm) = p
      <3>1. CASE ~ \E r \in Routes(c) : PositionOf(c, r, bm) = p
        <4>1. At(p) = n
            BY <3>1
        <4> HIDE DEF n, At
        <4> QED
            BY <1>2, <1>4, <4>1
      <3> QED
          BY <3>1
    <2>2. At(p) \in Routes(c) /\ PositionOf(c, At(p), bm) = p
        BY <2>1
    <2> HIDE DEF At
    <2> DEFINE w == h * (bm - 1)
    <2>3. PositionOf(c, At(p), bm) \in 0 .. n + w - 1
        BY <2>2, PositionsFit
    <2>4. rows = n + w /\ w \in Nat
        BY <1>3
    <2>5. p \in 0 .. n + w - 1
        BY <2>2, <2>3
    <2> HIDE DEF n, rows, w, At
    <2>6. n + w - 1 = rows - 1
        BY <1>2, <2>4
    <2>7. p \in 0 .. rows - 1
        BY <2>5, <2>6
    <2> QED
        BY <2>2, <2>7
  <1> HIDE DEF n, rows, blocks, At
  <1>5. \A p \in 0 .. blocks * bm - 1 : Align(c, bm).sorted[p] = At(p)
      BY <1>1
  <1>6. \A p \in 0 .. blocks * bm - 1 : At(p) < n =>
            At(p) \in Routes(c) /\ PositionOf(c, At(p), bm) = p /\ p \in 0 .. rows - 1
      BY <1>4
  <1>7. \A p \in 0 .. blocks * bm - 1 : Align(c, bm).sorted[p] < n =>
            /\ Align(c, bm).sorted[p] \in Routes(c)
            /\ PositionOf(c, Align(c, bm).sorted[p], bm) = p /\ p \in 0 .. rows - 1
      BY <1>5, <1>6
  <1> QED
      BY <1>1, <1>8, <1>7 DEF n, rows, h

-----------------------------------------------------------------------------
(* The launches.                                                           *)

\* A block of rows, and tiles and groups of both launches.
IsTiles(t) ==
    /\ t.m \in {16, 64}
    /\ t.up.n \in {64, 128, 256} /\ t.up.group \in {1, 8}
    /\ t.down.n \in {64, 128, 256} /\ t.down.group \in {1, 8}

LEMMA BaseTilesAre ==
  ASSUME NEW rows \in Nat
  PROVE  BaseTiles(rows) \in
            {[m |-> 16, up |-> Tile(64, 256, 1), down |-> Tile(64, 64, 1)],
             [m |-> 16, up |-> Tile(64, 256, 1), down |-> Tile(64, 128, 1)],
             [m |-> 16, up |-> Tile(64, 256, 8), down |-> Tile(128, 256, 1)],
             [m |-> 64, up |-> Tile(256, 256, 8), down |-> Tile(256, 64, 8)],
             [m |-> 64, up |-> Tile(256, 64, 8), down |-> Tile(256, 64, 8)]}
  BY SMTT(30) DEF BaseTiles

LEMMA TilesAre ==
  ASSUME NEW rows \in Nat, NEW up, NEW down
  PROVE  IsTiles(Fp2Configs(rows, up, down, FALSE))
  <1> DEFINE b == BaseTiles(rows)  x == FitStep(b.up.k, up)  y == FitStep(b.down.k, down)
             Fit(a) == [a EXCEPT !.up.k = x, !.down.k = y]
  <1>1. Fp2Configs(rows, up, down, FALSE) = Fit(b)
      BY DEF Fp2Configs
  <1>2. b \in {[m |-> 16, up |-> Tile(64, 256, 1), down |-> Tile(64, 64, 1)],
               [m |-> 16, up |-> Tile(64, 256, 1), down |-> Tile(64, 128, 1)],
               [m |-> 16, up |-> Tile(64, 256, 8), down |-> Tile(128, 256, 1)],
               [m |-> 64, up |-> Tile(256, 256, 8), down |-> Tile(256, 64, 8)],
               [m |-> 64, up |-> Tile(256, 64, 8), down |-> Tile(256, 64, 8)]}
      BY BaseTilesAre
  <1> HIDE DEF b, x, y
  <1>3. IsTiles(Fit([m |-> 16, up |-> Tile(64, 256, 1), down |-> Tile(64, 64, 1)]))
      BY DEF Tile, IsTiles
  <1>4. IsTiles(Fit([m |-> 16, up |-> Tile(64, 256, 1), down |-> Tile(64, 128, 1)]))
      BY DEF Tile, IsTiles
  <1>5. IsTiles(Fit([m |-> 16, up |-> Tile(64, 256, 8), down |-> Tile(128, 256, 1)]))
      BY DEF Tile, IsTiles
  <1>6. IsTiles(Fit([m |-> 64, up |-> Tile(256, 256, 8), down |-> Tile(256, 64, 8)]))
      BY DEF Tile, IsTiles
  <1>7. IsTiles(Fit([m |-> 64, up |-> Tile(256, 64, 8), down |-> Tile(256, 64, 8)]))
      BY DEF Tile, IsTiles
  <1>8. IsTiles(Fit(b))
    <2> HIDE DEF Fit
    <2> QED
        BY <1>2, <1>3, <1>4, <1>5, <1>6, <1>7
  <1> QED
      BY <1>1, <1>8

\* What the addresses of a launch rest on.
IsLaunch(l) ==
    l.bm \in Nat \ {0} /\ l.bn \in Nat \ {0} /\ l.group \in Nat \ {0} /\ l.n \in Nat \ {0}

LEMMA LaunchesAre ==
  ASSUME NEW c \in Calls
  PROVE  /\ IsLaunch(UpLaunch(c)) /\ IsLaunch(DownLaunch(c))
         /\ UpLaunch(c).bm = DownLaunch(c).bm
         /\ UpLaunch(c).n = 2 * Inner /\ DownLaunch(c).n = Hidden
         /\ UpLaunch(c).fused = c.fused /\ DownLaunch(c).fused = FALSE
         /\ UpLaunch(c).sorted = Sorted(c) /\ DownLaunch(c).sorted = FALSE
         /\ UpLaunch(c).adds = FALSE /\ DownLaunch(c).adds = UseAllReduce(c)
  <1> DEFINE t == Fp2Tiles(c)
  <1>1. t.m \in Nat \ {0} /\ t.up.group \in Nat \ {0} /\ t.down.group \in Nat \ {0}
            /\ TileColumns(t.up) \in Nat \ {0} /\ TileColumns(t.down) \in Nat \ {0}
    <2>1. IsTiles(t)
        BY RoutesAre, TilesAre DEF Fp2Tiles
    <2> HIDE DEF t
    <2>2. t.m \in Nat \ {0} /\ t.up.group \in Nat \ {0} /\ t.down.group \in Nat \ {0}
        BY <2>1 DEF IsTiles
    <2>3. ASSUME NEW n \in {64, 128, 256} PROVE n \div Unit \in Nat \ {0}
      <3>1. Unit \in Nat \ {0} /\ Unit <= 64
          BY MoeAssumption
      <3>2. n \div Unit \in Nat /\ n < (n \div Unit) * Unit + Unit /\ n >= 64
          BY <3>1, Division
      <3>3. n \div Unit = 0 => (n \div Unit) * Unit = 0
          BY <3>1
      <3> DEFINE q == n \div Unit  z == q * Unit
      <3> HIDE DEF q, z
      <3>4. q \in Nat /\ n < z + Unit /\ (q = 0 => z = 0)
          BY <3>2, <3>3 DEF q, z
      <3>5. q \in Nat \ {0}
          BY <3>1, <3>2, <3>4
      <3> QED
          BY <3>5 DEF q
    <2>4. t.up.n \in {64, 128, 256} /\ t.down.n \in {64, 128, 256}
        BY <2>1 DEF IsTiles
    <2> QED
        BY <2>2, <2>3, <2>4 DEF TileColumns
  <1>2. {Inner, Hidden, BlockM, UpN, DownN, Group} \subseteq Nat \ {0}
      BY MoeAssumption
  <1> HIDE DEF t
  <1>3. /\ UpLaunch(c).bm = (IF c.kind = "fp2" THEN t.m ELSE BlockM)
        /\ UpLaunch(c).bn = (IF c.kind = "fp2" THEN TileColumns(t.up) ELSE UpN)
        /\ UpLaunch(c).group = (IF c.kind = "fp2" THEN t.up.group ELSE Group)
        /\ UpLaunch(c).n = 2 * Inner /\ UpLaunch(c).fused = c.fused
        /\ UpLaunch(c).sorted = Sorted(c) /\ UpLaunch(c).adds = FALSE
      BY DEF UpLaunch, t
  <1>4. /\ DownLaunch(c).bm = (IF c.kind = "fp2" THEN t.m ELSE BlockM)
        /\ DownLaunch(c).bn = (IF c.kind = "fp2" THEN TileColumns(t.down) ELSE DownN)
        /\ DownLaunch(c).group = (IF c.kind = "fp2" THEN t.down.group ELSE Group)
        /\ DownLaunch(c).n = Hidden /\ DownLaunch(c).fused = FALSE
        /\ DownLaunch(c).sorted = FALSE /\ DownLaunch(c).adds = UseAllReduce(c)
      BY DEF DownLaunch, t
  <1>5. IsLaunch(UpLaunch(c))
      BY <1>1, <1>2, <1>3 DEF IsLaunch
  <1>6. IsLaunch(DownLaunch(c))
      BY <1>1, <1>2, <1>4 DEF IsLaunch
  <1> QED
      BY <1>3, <1>4, <1>5, <1>6

-----------------------------------------------------------------------------
(* The programs of a launch.                                               *)

\* What a launch of this call finds: its routes aligned to its blocks, and no zeros
\* of remote experts in a buffer that is added to or in sorted order.
Launches(l) ==
    /\ call \in Calls /\ IsLaunch(l)
    /\ route = Align(call, l.bm)
    /\ call.filter => ~l.adds /\ ~l.sorted
    /\ ~ (l.adds /\ l.sorted)

\* A program that stores is one of a tile of blocks and columns, and its rows are the
\* places of different routes.
IsProgram(l, prog, m, n) ==
    /\ m \in Nat /\ n \in Nat
    /\ prog.columns \subseteq n * l.bn .. (n + 1) * l.bn - 1
    /\ prog.columns \subseteq 0 .. l.n - 1
    /\ prog.filtered => call.filter
    /\ \A p \in prog.rows :
          /\ p \in m * l.bm .. (m + 1) * l.bm - 1
          /\ p \in 0 .. route.rows - 1
          /\ route.sorted[p] \in Routes(call)
          /\ PositionOf(call, route.sorted[p], l.bm) = p

LEMMA LaunchHasTiles ==
  ASSUME NEW l, Launches(l)
  PROVE  /\ route.blocks \in Nat /\ NBlocks(l) \in Nat \ {0} /\ l.group \in Nat \ {0}
         /\ l.bm \in Nat \ {0} /\ call \in Calls
  <1> DEFINE mb == route.blocks  nb == NBlocks(l)  g == l.group  bm == l.bm
  <1>1. mb \in Nat /\ g \in Nat \ {0} /\ bm \in Nat \ {0} /\ l.bn \in Nat \ {0} /\ l.n \in Nat \ {0} /\ call \in Calls
      BY AlignmentIs DEF Launches, IsLaunch
  <1>2. nb \in Nat \ {0}
    <2> DEFINE q == CeilDiv(l.n, l.bn)
    <2>1. q \in Nat /\ l.n <= q * l.bn
        BY <1>1, CeilingIs
    <2>2. q = 0 => q * l.bn = 0
        BY <1>1
    <2> DEFINE z == q * l.bn
    <2> HIDE DEF q, z
    <2>3. q \in Nat /\ l.n <= z /\ (q = 0 => z = 0)
        BY <2>1, <2>2 DEF z
    <2>4. q \in Nat \ {0}
        BY <1>1, <2>3
    <2> QED
        BY <2>4 DEF q, NBlocks
  <1> QED
      BY <1>1, <1>2

LEMMA ProgramsAre ==
  ASSUME NEW l, Launches(l), NEW pid \in 0 .. route.blocks * NBlocks(l) - 1
  PROVE  /\ PidM(pid, route.blocks, NBlocks(l), l.group) \in Nat
         /\ PidN(pid, route.blocks, NBlocks(l), l.group) \in Nat
         /\ IsProgram(l, Program(l, pid), PidM(pid, route.blocks, NBlocks(l), l.group),
                      PidN(pid, route.blocks, NBlocks(l), l.group))
  <1> DEFINE mb == route.blocks  nb == NBlocks(l)  g == l.group  bm == l.bm
             m == PidM(pid, mb, nb, g)  n == PidN(pid, mb, nb, g)  prog == Program(l, pid)
  <1>1. mb \in Nat /\ nb \in Nat \ {0} /\ g \in Nat \ {0} /\ bm \in Nat \ {0} /\ call \in Calls
      BY LaunchHasTiles
  <1>3. m \in 0 .. mb - 1 /\ n \in Nat
    <2> HIDE DEF mb, nb, g
    <2>1. pid \in 0 .. mb * nb - 1
        BY DEF mb, nb
    <2>2. PICK q \in Nat, x \in Nat : InGroup(pid, mb, nb, g, q, x)
        BY <1>1, <2>1, ProgramsAreGrouped
    <2> DEFINE h == Least(mb - q * g, g)
    <2>3. h \in 1 .. g /\ PidM(pid, mb, nb, g) \in 0 .. mb - 1 /\ PidN(pid, mb, nb, g) = x \div h
        BY <2>2 DEF InGroup
    <2> HIDE DEF h
    <2>4. h \in Nat \ {0}
        BY <1>1, <2>3
    <2>5. x \div h \in Nat
        BY <2>4, Division
    <2> QED
        BY <2>3, <2>5
  <1>4. prog.columns \subseteq n * l.bn .. (n + 1) * l.bn - 1 /\ prog.columns \subseteq 0 .. l.n - 1
      BY DEF Program, Columns
  <1>5. prog.filtered => call.filter
      BY DEF Program
  <1>6. ASSUME NEW p \in prog.rows
        PROVE  /\ p \in m * bm .. (m + 1) * bm - 1 /\ p \in 0 .. route.rows - 1
               /\ route.sorted[p] \in Routes(call) /\ PositionOf(call, route.sorted[p], bm) = p
    <2>1. p \in m * bm .. (m + 1) * bm - 1 /\ route.sorted[p] < Tokens * Topk(call)
        BY DEF Program, RouteCount
    <2> HIDE DEF m, mb, bm, prog
    <2>2. p \in 0 .. mb * bm - 1
      <3>1. m \in Nat /\ m + 1 \in Nat /\ m + 1 <= mb
          BY <1>1, <1>3
      <3>2. m * bm \in Nat /\ (m + 1) * bm <= mb * bm /\ (m + 1) * bm \in Nat /\ mb * bm \in Nat
          BY <1>1, <3>1, Times
      <3> DEFINE x == m * bm  y == (m + 1) * bm  z == mb * bm
      <3>3. p \in x .. y - 1 /\ x \in Nat /\ y \in Nat /\ z \in Nat /\ y <= z
          BY <2>1, <3>2
      <3> HIDE DEF x, y, z
      <3>4. p \in 0 .. z - 1
          BY <3>3
      <3> QED
          BY <3>4 DEF z
    <2>3. route = Align(call, bm)
        BY DEF Launches, bm
    <2>4. p \in 0 .. Align(call, bm).blocks * bm - 1
        BY <2>2, <2>3 DEF mb
    <2>5. Align(call, bm).sorted[p] < Tokens * Topk(call)
        BY <2>1, <2>3
    <2>6. /\ Align(call, bm).sorted[p] \in Routes(call)
          /\ PositionOf(call, Align(call, bm).sorted[p], bm) = p
          /\ p \in 0 .. Align(call, bm).rows - 1
        BY <1>1, <2>4, <2>5, AlignmentIs
    <2> QED
        BY <2>1, <2>3, <2>6
  <1>7. m \in Nat
      BY <1>1, <1>3
  <1> HIDE DEF m, n, prog
  <1>8. IsProgram(l, prog, m, n)
      BY <1>3, <1>4, <1>5, <1>6, <1>7 DEF IsProgram, bm
  <1> QED
      BY <1>3, <1>7, <1>8 DEF m, n, prog, mb, nb, g

\* Two programs of a launch differ in block or in columns.
LEMMA ProgramsDiffer ==
  ASSUME NEW l, Launches(l), NEW prog \in Programs(l), NEW other \in Programs(l) \ {prog}
  PROVE  \E m \in Nat, n \in Nat, i \in Nat, j \in Nat :
            /\ IsProgram(l, prog, m, n) /\ IsProgram(l, other, i, j)
            /\ m # i \/ n # j
  <1> DEFINE mb == route.blocks  nb == NBlocks(l)  g == l.group
  <1>1. PICK p \in 0 .. mb * nb - 1 : prog = Program(l, p)
      BY DEF Programs
  <1>2. PICK o \in 0 .. mb * nb - 1 : other = Program(l, o)
      BY DEF Programs
  <1> DEFINE m == PidM(p, mb, nb, g)  n == PidN(p, mb, nb, g)
             i == PidM(o, mb, nb, g)  j == PidN(o, mb, nb, g)
  <1>3. m \in Nat /\ n \in Nat /\ IsProgram(l, prog, m, n)
      BY <1>1, ProgramsAre
  <1>4. i \in Nat /\ j \in Nat /\ IsProgram(l, other, i, j)
      BY <1>2, ProgramsAre
  <1>5. p # o
      BY <1>1, <1>2
  <1>6. mb \in Nat /\ nb \in Nat \ {0} /\ g \in Nat \ {0}
      BY LaunchHasTiles
  <1>7. m # i \/ n # j
    <2> HIDE DEF mb, nb, g
    <2> QED
        BY <1>5, <1>6, OneProgramATile
  <1> HIDE DEF m, n, i, j
  <1> QED
      BY <1>3, <1>4, <1>7

\* The row of C that a program stores position p to.
RowOf(l, prog, p) == IF prog.filtered THEN route.sorted[p] ELSE TargetRow(l, p)

LEMMA StoresAre ==
  ASSUME NEW l, NEW prog, NEW s \in Stores(l, prog)
  PROVE  /\ s[3] \in prog.rows /\ s[2] \in StoredColumns(l, prog.columns)
         /\ s[1] = RowOf(l, prog, s[3])
  <1>1. CASE prog.filtered /\ l.fused
      BY <1>1 DEF Stores
  <1>2. CASE prog.filtered /\ ~l.fused
    <2>1. s \in {<<ZeroRow(p), j, p>> : p \in prog.rows, j \in prog.columns}
        BY <1>2 DEF Stores
    <2>2. PICK p \in prog.rows, j \in prog.columns : s = <<ZeroRow(p), j, p>>
        BY <2>1
    <2>3. s[1] = ZeroRow(p) /\ s[2] = j /\ s[3] = p
        BY <2>2
    <2> QED
        BY <1>2, <2>3 DEF StoredColumns, RowOf, ZeroRow
  <1>3. CASE ~prog.filtered
    <2>1. s \in {<<TargetRow(l, p), j, p>> : p \in prog.rows, j \in StoredColumns(l, prog.columns)}
        BY <1>3 DEF Stores
    <2>2. PICK p \in prog.rows, j \in StoredColumns(l, prog.columns) : s = <<TargetRow(l, p), j, p>>
        BY <2>1
    <2>3. s[1] = TargetRow(l, p) /\ s[2] = j /\ s[3] = p
        BY <2>2
    <2> QED
        BY <1>3, <2>3 DEF RowOf
  <1> QED
      BY <1>1, <1>2, <1>3

LEMMA CellsDiffer ==
  ASSUME NEW l, Launches(l), NEW prog \in Programs(l), NEW other \in Programs(l) \ {prog},
         NEW s \in Stores(l, prog), NEW t \in Stores(l, other), s[1] = t[1], s[2] = t[2]
  PROVE  l.adds /\ ~prog.filtered /\ ~other.filtered
  <1>1. PICK m \in Nat, n \in Nat, i \in Nat, j \in Nat :
           /\ IsProgram(l, prog, m, n) /\ IsProgram(l, other, i, j)
           /\ m # i \/ n # j
      BY ProgramsDiffer
  <1>2. /\ s[3] \in prog.rows /\ s[2] \in StoredColumns(l, prog.columns)
        /\ s[1] = RowOf(l, prog, s[3])
        /\ t[3] \in other.rows /\ s[2] \in StoredColumns(l, other.columns)
        /\ s[1] = RowOf(l, other, t[3])
      BY StoresAre
  <1>3. l.bm \in Nat \ {0} /\ l.bn \in Nat \ {0}
      BY DEF Launches, IsLaunch
  <1>4. n = j
    <2>1. \E x : x \in prog.columns /\ x \in other.columns
        BY <1>2 DEF StoredColumns
    <2>2. PICK x : x \in n * l.bn .. (n + 1) * l.bn - 1 /\ x \in j * l.bn .. (j + 1) * l.bn - 1
        BY <1>1, <2>1 DEF IsProgram
    <2>3. x \div l.bn = n /\ x \div l.bn = j
        BY <1>3, <2>2, Tiled
    <2> QED
        BY <2>3
  <1>5. m # i
      BY <1>1, <1>4
  <1> DEFINE p == s[3]  q == t[3]
  <1>6. p # q
    <2>1. p \in m * l.bm .. (m + 1) * l.bm - 1 /\ q \in i * l.bm .. (i + 1) * l.bm - 1
        BY <1>1, <1>2 DEF IsProgram
    <2> HIDE DEF p, q
    <2>2. p \div l.bm = m /\ q \div l.bm = i
        BY <1>3, <2>1, Tiled
    <2> QED
        BY <1>5, <2>2
  <1>7. route.sorted[p] # route.sorted[q]
    <2>1. PositionOf(call, route.sorted[p], l.bm) = p /\ PositionOf(call, route.sorted[q], l.bm) = q
        BY <1>1, <1>2 DEF IsProgram
    <2> QED
        BY <1>6, <2>1
  <1>8. prog.filtered \/ other.filtered => ~l.adds /\ ~l.sorted
      BY <1>1 DEF IsProgram, Launches
  <1>9. l.adds
    <2> SUFFICES ASSUME ~l.adds PROVE FALSE
        OBVIOUS
    <2>1. CASE l.sorted
      <3>1. RowOf(l, prog, p) = p /\ RowOf(l, other, q) = q
          BY <1>8, <2>1 DEF RowOf, TargetRow
      <3> QED
          BY <1>2, <1>6, <3>1
    <2>2. CASE ~l.sorted
      <3>1. RowOf(l, prog, p) = route.sorted[p] /\ RowOf(l, other, q) = route.sorted[q]
          BY <2>2 DEF RowOf, TargetRow
      <3> QED
          BY <1>2, <1>7, <3>1
    <2> QED
        BY <2>1, <2>2
  <1> QED
      BY <1>8, <1>9

-----------------------------------------------------------------------------
(* The sequence.                                                           *)

\* The calls whose filtered programs store no zeros where others add or in sorted order.
NoRemoteZeros == \A c \in Calls : c.filter => ~UseAllReduce(c) /\ ~Sorted(c)

LEMMA WrittenKeepsItsCells ==
  ASSUME NEW stored, NEW buffer, NEW f \in Written(stored, buffer)
  PROVE  DOMAIN f = DOMAIN buffer
  BY DEF Written, AnyOf

LEMMA AddedKeepsItsCells ==
  ASSUME NEW stored, NEW buffer, NEW f \in Added(stored, buffer)
  PROVE  DOMAIN f = DOMAIN buffer
  BY DEF Added, AnyOf

\* What each phase has allocated, for the alignment of the call to the blocks of its launches.
MoeInv ==
    /\ call \in Calls
    /\ phase \in {"prepare", "allocate", "up", "activate", "down", "combine", "done"}
    /\ scale \in {0, 1} /\ (phase # "done" => scale = 0)
    /\ phase # "prepare" => route = Align(call, UpLaunch(call).bm)
    /\ phase \in {"up", "activate"} =>
          DOMAIN c1 = CacheRows \X (0 .. IF call.fused THEN Inner - 1 ELSE 2 * Inner - 1)
    /\ phase = "down" => /\ DOMAIN c2 = CacheRows \X (0 .. Inner - 1)
                         /\ DOMAIN c3 = Routes(call) \X (0 .. Hidden - 1)
    /\ phase \in {"up", "activate", "down", "combine", "done"} => DOMAIN out = OutCells

LEMMA MoeInvInitially == MoeInit => MoeInv
  BY DEF MoeInit, MoeInv

LEMMA MoeInvKept == MoeInv /\ [MoeNext]_moeVars => MoeInv'
  <1> SUFFICES ASSUME MoeInv, [MoeNext]_moeVars PROVE MoeInv'
      OBVIOUS
  <1> USE DEF OutCells, CacheRows, RouteCount
  <1>1. CASE Prepare
      BY <1>1 DEF Prepare, MoeInv
  <1>2. CASE Allocate
      BY <1>2 DEF Allocate, MoeInv, Fill
  <1>3. CASE UpGemm
    <2> DEFINE s == StoredBy(UpLaunch(call), UpValue)
    <2>1. phase = "up" /\ c1' \in Written(s, c1) /\ phase' = "activate"
              /\ UNCHANGED <<call, route, c2, c3, out, scale>>
        BY <1>3 DEF UpGemm
    <2> HIDE DEF s
    <2>2. DOMAIN c1' = DOMAIN c1
        BY <2>1, WrittenKeepsItsCells
    <2> QED
        BY <2>1, <2>2 DEF MoeInv
  <1>4. CASE Activate
      BY <1>4 DEF Activate, MoeInv, Fill
  <1>5. CASE DownGemm
    <2> DEFINE s == StoredBy(DownLaunch(call), DownValue)
    <2>1. /\ phase = "down" /\ phase' = "combine" /\ UNCHANGED <<call, route, c1, scale>>
          /\ \/ out' \in Added(s, out)
             \/ out' = out
             \/ out' \in Written(Direct(s), out)
        BY <1>5 DEF DownGemm
    <2> HIDE DEF s
    <2>2. DOMAIN out' = DOMAIN out
        BY <2>1, WrittenKeepsItsCells, AddedKeepsItsCells
    <2> QED
        BY <2>1, <2>2 DEF MoeInv
  <1>6. CASE Combine
      BY <1>6 DEF Combine, MoeInv
  <1>7. CASE UNCHANGED moeVars
      BY <1>7 DEF moeVars, MoeInv
  <1> QED
      BY <1>1, <1>2, <1>3, <1>4, <1>5, <1>6, <1>7 DEF MoeNext

LEMMA UpLaunches ==
  ASSUME NoRemoteZeros, MoeInv, phase = "up"
  PROVE  Launches(UpLaunch(call))
  BY LaunchesAre DEF MoeInv, NoRemoteZeros, Launches

LEMMA DownLaunches ==
  ASSUME NoRemoteZeros, MoeInv, phase = "down"
  PROVE  Launches(DownLaunch(call))
  BY LaunchesAre DEF MoeInv, NoRemoteZeros, Launches

\* Every store of a launch is inside the buffer that the phase stores to.
LEMMA UpStoresFit ==
  ASSUME NoRemoteZeros, MoeInv, phase = "up",
         NEW prog \in Programs(UpLaunch(call)), NEW s \in Stores(UpLaunch(call), prog)
  PROVE  <<s[1], s[2]>> \in DOMAIN c1
  <1> DEFINE l == UpLaunch(call)
  <1>1. Launches(l) /\ call \in Calls
      BY UpLaunches DEF MoeInv
  <1>2. PICK m \in Nat, n \in Nat : IsProgram(l, prog, m, n)
      BY <1>1, ProgramsAre DEF Programs
  <1>3. s[3] \in prog.rows /\ s[2] \in StoredColumns(l, prog.columns) /\ s[1] = RowOf(l, prog, s[3])
      BY StoresAre
  <1>4. l.n = 2 * Inner /\ l.fused = call.fused /\ l.sorted = Sorted(call) /\ l.adds = FALSE /\ Inner \in Nat \ {0}
      BY <1>1, LaunchesAre, MoeAssumption
  <1>5. s[3] \in 0 .. route.rows - 1 /\ route.sorted[s[3]] \in Routes(call)
      BY <1>2, <1>3 DEF IsProgram
  <1>6. s[2] \in 0 .. IF call.fused THEN Inner - 1 ELSE 2 * Inner - 1
    <2>1. prog.columns \subseteq 0 .. 2 * Inner - 1
        BY <1>2, <1>4 DEF IsProgram
    <2> HIDE DEF l
    <2> QED
        BY <1>3, <1>4, <2>1 DEF StoredColumns
  <1>7. s[1] \in CacheRows
    <2>1. prog.filtered => ~Sorted(call)
        BY <1>1, <1>2 DEF IsProgram, NoRemoteZeros
    <2> HIDE DEF l
    <2> QED
        BY <1>3, <1>4, <1>5, <2>1 DEF RowOf, TargetRow, CacheRows, Routes, RouteCount
  <1>8. DOMAIN c1 = CacheRows \X (0 .. IF call.fused THEN Inner - 1 ELSE 2 * Inner - 1)
      BY DEF MoeInv
  <1> QED
      BY <1>6, <1>7, <1>8

LEMMA DownStoresFit ==
  ASSUME NoRemoteZeros, MoeInv, phase = "down",
         NEW prog \in Programs(DownLaunch(call)), NEW s \in Stores(DownLaunch(call), prog)
  PROVE  <<s[1], s[2]>> \in IF ~UseAllReduce(call) /\ UseIntermediate THEN DOMAIN c3 ELSE DOMAIN out
  <1> DEFINE l == DownLaunch(call)
  <1>1. Launches(l) /\ call \in Calls
      BY DownLaunches DEF MoeInv
  <1>2. PICK m \in Nat, n \in Nat : IsProgram(l, prog, m, n)
      BY <1>1, ProgramsAre DEF Programs
  <1>3. s[3] \in prog.rows /\ s[2] \in StoredColumns(l, prog.columns) /\ s[1] = RowOf(l, prog, s[3])
      BY StoresAre
  <1>4. l.n = Hidden /\ l.fused = FALSE /\ l.sorted = FALSE /\ l.adds = UseAllReduce(call)
      BY <1>1, LaunchesAre
  <1> DEFINE r == route.sorted[s[3]]
  <1>5. r \in Routes(call)
      BY <1>2, <1>3 DEF IsProgram
  <1>6. s[2] \in 0 .. Hidden - 1
    <2>1. prog.columns \subseteq 0 .. Hidden - 1
        BY <1>2, <1>4 DEF IsProgram
    <2> HIDE DEF l
    <2> QED
        BY <1>3, <1>4, <2>1 DEF StoredColumns
  <1>7. s[1] = IF UseAllReduce(call) THEN TokenOf(r) ELSE r
    <2>1. prog.filtered => ~UseAllReduce(call)
        BY <1>1, <1>2 DEF IsProgram, NoRemoteZeros
    <2> HIDE DEF l
    <2> QED
        BY <1>3, <1>4, <2>1 DEF RowOf, TargetRow
  <1> HIDE DEF r, l
  <1>8. DOMAIN c3 = Routes(call) \X (0 .. Hidden - 1) /\ DOMAIN out = OutCells
      BY DEF MoeInv
  <1>9. CASE ~UseAllReduce(call) /\ UseIntermediate
      BY <1>5, <1>6, <1>7, <1>8, <1>9
  <1>10. CASE UseAllReduce(call)
    <2>1. TokenOf(r) \in 0 .. Tokens - 1
      <3>1. Topk(call) \in Nat \ {0} /\ Tokens \in Nat \ {0} /\ r \in 0 .. Tokens * Topk(call) - 1
          BY <1>1, <1>5, RoutesAre, MoeAssumption DEF Routes
      <3> HIDE DEF Topk
      <3> DEFINE k == Topk(call)  q == r \div k
      <3>2. r \in Nat /\ k \in Nat \ {0} /\ r < Tokens * k
          BY <3>1
      <3>3. q \in Nat /\ q * k <= r
          BY <3>2, Division
      <3> HIDE DEF k, q
      <3>4. ASSUME Tokens <= q PROVE FALSE
        <4>1. Tokens * k <= q * k /\ Tokens * k \in Nat /\ q * k \in Nat
            BY <3>1, <3>2, <3>3, <3>4, Times
        <4> DEFINE x == Tokens * k  y == q * k
        <4>2. x <= y /\ x \in Nat /\ y \in Nat /\ y <= r /\ r < x
            BY <3>2, <3>3, <4>1
        <4> HIDE DEF x, y
        <4> QED
            BY <3>2, <4>2
      <3>5. q \in 0 .. Tokens - 1
          BY <3>1, <3>3, <3>4
      <3> QED
          BY <3>5 DEF TokenOf, q, k
    <2>2. ~call.noCombine
        BY <1>10 DEF UseAllReduce
    <2> QED
        BY <1>6, <1>7, <1>8, <1>10, <2>1, <2>2 DEF OutCells
  <1>11. CASE ~UseAllReduce(call) /\ ~UseIntermediate
    <2>1. CASE call.noCombine
        BY <1>5, <1>6, <1>7, <1>8, <1>11, <2>1 DEF OutCells
    <2>2. CASE ~call.noCombine
      <3>1. Topk(call) = 1
          BY <1>11, <2>2 DEF UseIntermediate
      <3>2. Tokens * 1 = Tokens
          BY MoeAssumption
      <3>3. r \in 0 .. Tokens - 1
          BY <1>5, <3>1, <3>2 DEF Routes
      <3> QED
          BY <1>6, <1>7, <1>8, <1>11, <2>2, <3>3 DEF OutCells
    <2> QED
        BY <2>1, <2>2
  <1> QED
      BY <1>9, <1>10, <1>11

\* The cells of the programs of one launch are in its buffer and their own, but for sums.
CellsOf(l, prog) == {<<s[1], s[2]>> : s \in Stores(l, prog)}

Owned(l, buffer) ==
    \A prog \in Programs(l) :
        /\ CellsOf(l, prog) \subseteq buffer
        /\ \A other \in Programs(l) \ {prog} :
              \/ CellsOf(l, prog) \cap CellsOf(l, other) = {}
              \/ (l.adds /\ ~prog.filtered) /\ (l.adds /\ ~other.filtered)

LEMMA LaunchOwnsItsCells ==
  ASSUME NEW l, Launches(l), NEW buffer,
         \A prog \in Programs(l) : \A s \in Stores(l, prog) : <<s[1], s[2]>> \in buffer
  PROVE  Owned(l, buffer)
  <1> SUFFICES ASSUME NEW prog \in Programs(l), NEW other \in Programs(l) \ {prog},
                      NEW x \in CellsOf(l, prog), x \in CellsOf(l, other)
               PROVE  l.adds /\ ~prog.filtered /\ ~other.filtered
      BY DEF Owned, CellsOf
  <1>1. PICK s \in Stores(l, prog) : x = <<s[1], s[2]>>
      BY DEF CellsOf
  <1>2. PICK t \in Stores(l, other) : x = <<t[1], t[2]>>
      BY DEF CellsOf
  <1>3. s[1] = t[1] /\ s[2] = t[2]
      BY <1>1, <1>2
  <1> QED
      BY <1>3, CellsDiffer

LEMMA MoeInvOwns == ASSUME NoRemoteZeros, MoeInv PROVE StoresAreOwned
  <1>1. CASE phase = "up"
    <2>1. Launches(UpLaunch(call))
        BY <1>1, UpLaunches
    <2>2. \A prog \in Programs(UpLaunch(call)) : \A s \in Stores(UpLaunch(call), prog) :
             <<s[1], s[2]>> \in DOMAIN c1
        BY <1>1, UpStoresFit
    <2>3. Owned(UpLaunch(call), DOMAIN c1)
        BY <2>1, <2>2, LaunchOwnsItsCells
    <2> QED
        BY <1>1, <2>3 DEF StoresAreOwned, Owned, CellsOf
  <1>2. CASE phase = "down"
    <2> DEFINE buffer == IF ~UseAllReduce(call) /\ UseIntermediate THEN DOMAIN c3 ELSE DOMAIN out
    <2>1. Launches(DownLaunch(call))
        BY <1>2, DownLaunches
    <2>2. \A prog \in Programs(DownLaunch(call)) : \A s \in Stores(DownLaunch(call), prog) :
             <<s[1], s[2]>> \in buffer
        BY <1>2, DownStoresFit
    <2>3. Owned(DownLaunch(call), buffer)
      <3> HIDE DEF buffer
      <3> QED
          BY <2>1, <2>2, LaunchOwnsItsCells
    <2> QED
        BY <1>2, <2>3 DEF StoresAreOwned, Owned, CellsOf
  <1>3. CASE phase \notin {"up", "down"}
      BY <1>3 DEF StoresAreOwned
  <1> QED
      BY <1>1, <1>2, <1>3

(* No program of a launch stores outside its buffer, and none to a cell    *)
(* that another stores to unless both add to it, for every size, tile,     *)
(* kind and routing, where filtered experts meet neither the added output  *)
(* nor the sorted buffer (with those, the zeros of remote experts go to    *)
(* cells of other routes).                                                 *)
THEOREM CellsHaveOneProgram == ASSUME NoRemoteZeros PROVE MoeSpec => []StoresAreOwned
  <1>1. MoeSpec => []MoeInv
      BY MoeInvInitially, MoeInvKept, PTL DEF MoeSpec
  <1> QED
      BY <1>1, MoeInvOwns, PTL

(* Each phase finds the buffers that an earlier one allocated, of the sizes  *)
(* it addresses.                                                           *)
THEOREM BuffersHaveTheirSizes == MoeSpec => []MoeTypeOK
  <1>1. MoeInv => MoeTypeOK
      BY MoeAssumption DEF MoeInv, MoeTypeOK
  <1> QED
      BY <1>1, MoeInvInitially, MoeInvKept, PTL DEF MoeSpec

-----------------------------------------------------------------------------
(* The loops over K.                                                       *)

\* The loop visits lane <<step, offset>> for k = step * bk + offset.
IsLoop(dot, k, bk, g) ==
    /\ DOMAIN dot = Lanes(k, bk)
    /\ \A x \in Lanes(k, bk) :
          LET i == x[1] * bk + x[2]
          IN  dot[x] = IF i < k THEN <<i, i, i \div g>> ELSE Masked

LEMMA LanesAre ==
  ASSUME NEW k \in Nat \ {0}, NEW bk \in Nat \ {0}
  PROVE  /\ \A x \in Lanes(k, bk) :
               /\ x[1] \in Nat /\ x[2] \in 0 .. bk - 1 /\ x = <<x[1], x[2]>>
               /\ x[1] * bk + x[2] \in Nat
               /\ x[1] + 1 <= CeilDiv(k, bk)
         /\ \A i \in 0 .. k - 1 : <<i \div bk, i % bk>> \in Lanes(k, bk) /\ (i \div bk) * bk + (i % bk) = i
         /\ \A x \in Lanes(k, bk) : x = <<(x[1] * bk + x[2]) \div bk, (x[1] * bk + x[2]) % bk>>
  <1> DEFINE q == CeilDiv(k, bk)
  <1>1. q \in Nat /\ k <= q * bk
      BY CeilingIs
  <1>2. Lanes(k, bk) = (0 .. q - 1) \X (0 .. bk - 1)
      BY DEF Lanes
  <1> HIDE DEF q
  <1>3. ASSUME NEW x \in Lanes(k, bk)
        PROVE  /\ x[1] \in Nat /\ x[2] \in 0 .. bk - 1 /\ x = <<x[1], x[2]>>
               /\ x[1] * bk + x[2] \in Nat /\ x[1] + 1 <= q
               /\ x = <<(x[1] * bk + x[2]) \div bk, (x[1] * bk + x[2]) % bk>>
    <2>1. x[1] \in 0 .. q - 1 /\ x[2] \in 0 .. bk - 1 /\ x = <<x[1], x[2]>>
        BY <1>2
    <2>2. x[1] \in Nat /\ x[2] \in Nat /\ x[1] + 1 <= q
        BY <1>1, <2>1
    <2>3. x[1] * bk \in Nat
        BY <2>2, Times
    <2>4. x[1] * bk + x[2] \in Nat
      <3> DEFINE z == x[1] * bk
      <3>1. z \in Nat
          BY <2>3
      <3> HIDE DEF z
      <3>2. z + x[2] \in Nat
          BY <2>2, <3>1
      <3> QED
          BY <3>2 DEF z
    <2>5. (x[1] * bk + x[2]) \div bk = x[1] /\ (x[1] * bk + x[2]) % bk = x[2]
        BY <2>1, <2>2, Divided
    <2> QED
        BY <2>1, <2>2, <2>4, <2>5
  <1>4. ASSUME NEW i \in 0 .. k - 1
        PROVE  <<i \div bk, i % bk>> \in Lanes(k, bk) /\ (i \div bk) * bk + (i % bk) = i
    <2> DEFINE a == i \div bk
    <2>0. i \in Nat
        OBVIOUS
    <2>1. i \in Nat /\ a \in Nat /\ i % bk \in 0 .. bk - 1 /\ i = a * bk + (i % bk) /\ a * bk <= i
        BY <2>0, Division
    <2> HIDE DEF a
    <2>2. ASSUME q <= a PROVE FALSE
      <3>1. q * bk <= a * bk /\ q * bk \in Nat /\ a * bk \in Nat
          BY <1>1, <2>1, <2>2, Times
      <3> DEFINE y == q * bk  z == a * bk
      <3>2. y <= z /\ y \in Nat /\ z \in Nat /\ z <= i /\ k <= y /\ i \in 0 .. k - 1
          BY <1>1, <2>1, <3>1
      <3> HIDE DEF y, z
      <3> QED
          BY <3>2
    <2>3. a \in 0 .. q - 1
        BY <1>1, <2>1, <2>2
    <2> QED
        BY <1>2, <2>1, <2>3 DEF a
  <1> QED
      BY <1>3, <1>4 DEF q

LEMMA LoopsAreExact ==
  ASSUME NEW k \in Nat \ {0}, NEW bk \in Nat \ {0}, NEW g \in Nat \ {0}, NEW dot, IsLoop(dot, k, bk, g)
  PROVE  ExactDot(dot, k, g)
  <1> DEFINE N(x) == x[1] * bk + x[2]
  <1>1. \A i \in 0 .. k - 1 : i \in Nat /\ i \div g \in Nat /\ i < k
    <2>1. \A i \in 0 .. k - 1 : i \in Nat /\ i < k
        OBVIOUS
    <2> QED
        BY <2>1, Division
  <1>2. Masked \notin Nat \X Nat \X Nat
      BY MoeAssumption
  <1>3. \A x \in Lanes(k, bk) : N(x) \in Nat /\ x = <<N(x) \div bk, N(x) % bk>>
      BY LanesAre
  <1>4. DOMAIN dot = Lanes(k, bk)
      BY DEF IsLoop
  <1>5. \A x \in Lanes(k, bk) : dot[x] = IF N(x) < k THEN <<N(x), N(x), N(x) \div g>> ELSE Masked
      BY DEF IsLoop
  <1>6. \A i \in 0 .. k - 1 : <<i \div bk, i % bk>> \in Lanes(k, bk) /\ N(<<i \div bk, i % bk>>) = i
      BY LanesAre
  <1> HIDE DEF N
  <1>7. ASSUME NEW i \in 0 .. k - 1
        PROVE  Cardinality({x \in DOMAIN dot : dot[x] = <<i, i, i \div g>>}) = 1
    <2> DEFINE y == <<i \div bk, i % bk>>
    <2>1. dot[y] = <<i, i, i \div g>> /\ y \in DOMAIN dot
        BY <1>1, <1>4, <1>5, <1>6
    <2>2. ASSUME NEW x \in DOMAIN dot, dot[x] = <<i, i, i \div g>> PROVE x = y
      <3>1. <<i, i, i \div g>> # Masked
          BY <1>1, <1>2
      <3>2. <<N(x), N(x), N(x) \div g>> = <<i, i, i \div g>>
          BY <1>4, <1>5, <2>2, <3>1
      <3>3. N(x) = i
          BY <3>2
      <3> QED
          BY <1>3, <1>4, <3>3
    <2>3. {x \in DOMAIN dot : dot[x] = <<i, i, i \div g>>} = {y}
        BY <2>1, <2>2
    <2> QED
        BY <2>3, FS_Singleton
  <1>8. ASSUME NEW x \in DOMAIN dot, dot[x] # Masked PROVE dot[x][1] \in 0 .. k - 1
    <2>1. N(x) \in Nat /\ N(x) < k /\ dot[x] = <<N(x), N(x), N(x) \div g>>
        BY <1>3, <1>4, <1>5, <1>8
    <2>2. dot[x][1] = N(x)
        BY <2>1
    <2> QED
        BY <2>1, <2>2
  <1> QED
      BY <1>7, <1>8 DEF ExactDot

\* A lane beyond K is one whose offset is past what is left of K.
LEMMA LanesWithin ==
  ASSUME NEW k \in Nat \ {0}, NEW bk \in Nat \ {0}, NEW x \in Lanes(k, bk)
  PROVE  x[2] < k - x[1] * bk <=> x[1] * bk + x[2] < k
  <1> DEFINE z == x[1] * bk
  <1>1. x[1] \in Nat /\ x[2] \in Nat
      BY LanesAre
  <1>2. z \in Nat
      BY <1>1, Times
  <1> HIDE DEF z
  <1>3. x[2] < k - z <=> z + x[2] < k
      BY <1>1, <1>2
  <1> QED
      BY <1>3 DEF z

\* Every lane is within a K that the step divides.
LEMMA WholeSteps ==
  ASSUME NEW k \in Nat \ {0}, NEW bk \in Nat \ {0}, NEW m \in Nat, k = m * bk, NEW x \in Lanes(k, bk)
  PROVE  x[1] * bk + x[2] < k
  <1>1. x[1] \in Nat /\ x[2] \in 0 .. bk - 1 /\ x[1] + 1 <= CeilDiv(k, bk)
      BY LanesAre
  <1>2. CeilDiv(k, bk) = m
    <2>1. k + bk - 1 = m * bk + (bk - 1) /\ bk - 1 \in 0 .. bk - 1
      <3> DEFINE z == m * bk
      <3>1. z \in Nat /\ k = z
          BY Times
      <3> HIDE DEF z
      <3>2. k + bk - 1 = z + (bk - 1) /\ bk - 1 \in 0 .. bk - 1
          BY <3>1
      <3> QED
          BY <3>2 DEF z
    <2>2. (m * bk + (bk - 1)) \div bk = m
        BY <2>1, Divided
    <2> QED
        BY <2>1, <2>2 DEF CeilDiv
  <1>3. (x[1] + 1) * bk <= m * bk /\ (x[1] + 1) * bk = x[1] * bk + bk /\ x[1] * bk \in Nat
      BY <1>1, <1>2, Times, NextTimes
  <1> DEFINE y == x[1] * bk  z == m * bk
  <1>4. y + bk <= z /\ y \in Nat /\ k = z
      BY <1>3
  <1> HIDE DEF y, z
  <1>5. y + x[2] < k
      BY <1>1, <1>4
  <1> QED
      BY <1>5 DEF y

LEMMA DenseLoopIsExact ==
  ASSUME NEW k \in Nat \ {0}, NEW bk \in Nat \ {0}, NEW g \in Nat \ {0}, NEW m \in Nat, g = m * bk \/ k <= g
  PROVE  ExactDot(DenseDot(k, bk, g), k, g)
  <1> DEFINE dot == DenseDot(k, bk, g)
  <1>1. DOMAIN dot = Lanes(k, bk)
      BY DEF DenseDot
  <1>2. ASSUME NEW x \in Lanes(k, bk)
        PROVE  LET i == x[1] * bk + x[2] IN dot[x] = IF i < k THEN <<i, i, i \div g>> ELSE Masked
    <2> DEFINE i == x[1] * bk + x[2]
    <2>1. x[1] \in Nat /\ x[2] \in 0 .. bk - 1 /\ i \in Nat
        BY LanesAre
    <2>2. (k % bk = 0 \/ x[2] < k - x[1] * bk) <=> i < k
      <3>1. CASE k % bk = 0
        <4>1. k \div bk \in Nat /\ k = (k \div bk) * bk
          <5> DEFINE z == (k \div bk) * bk
          <5>1. k \in Nat /\ k \div bk \in Nat /\ k = z + (k % bk)
              BY Division
          <5>2. z \in Nat
              BY <5>1, Times
          <5> HIDE DEF z
          <5>3. k = z
              BY <3>1, <5>1, <5>2
          <5> QED
              BY <5>1, <5>3 DEF z
        <4>2. i < k
            BY <4>1, WholeSteps
        <4> QED
            BY <3>1, <4>2
      <3>2. CASE k % bk # 0
          BY <3>2, LanesWithin
      <3> QED
          BY <3>1, <3>2
    <2>3. i < k => (x[1] * bk) \div g = i \div g
      <3>1. CASE k <= g
        <4> DEFINE z == x[1] * bk
        <4>1. z \in Nat
            BY <2>1, Times
        <4>2. i = z + x[2]
            OBVIOUS
        <4> HIDE DEF z, i
        <4>3. i < k => z \in 0 .. g - 1 /\ i \in 0 .. g - 1
            BY <2>1, <3>1, <4>1, <4>2
        <4>4. \A y \in 0 .. g - 1 : y \div g = 0
          <5> TAKE y \in 0 .. g - 1
          <5>1. (0 * g + y) \div g = 0
              BY Divided
          <5>2. 0 * g + y = y
              OBVIOUS
          <5> QED
              BY <5>1, <5>2
        <4>5. i < k => z \div g = i \div g
            BY <4>3, <4>4
        <4> QED
            BY <4>5 DEF z
      <3>2. CASE g = m * bk
        <4>1. m \in Nat \ {0}
            BY <3>2
        <4> DEFINE a == x[1] \div m  b == x[1] % m
        <4>2. a \in Nat /\ b \in 0 .. m - 1 /\ x[1] = a * m + b
            BY <2>1, <4>1, Division
        <4> HIDE DEF a, b
        <4>3. x[1] * bk = a * g + b * bk
          <5>1. (a * m + b) * bk = (a * m) * bk + b * bk
              BY <4>1, <4>2
          <5>2. (a * m) * bk = a * (m * bk)
              BY <4>1, <4>2, TimesIsAssociative
          <5> QED
              BY <3>2, <4>2, <5>1, <5>2
        <4>4. (b + 1) * bk <= m * bk /\ (b + 1) * bk = b * bk + bk /\ b * bk \in Nat
            BY <4>1, <4>2, Times, NextTimes
        <4> DEFINE v == b * bk  w == a * g
        <4>5. v \in 0 .. g - 1 /\ v + x[2] \in 0 .. g - 1
          <5>1. v \in Nat /\ v + bk <= g
              BY <3>2, <4>4
          <5> HIDE DEF v
          <5> QED
              BY <2>1, <5>1
        <4>6. (a * g + v) \div g = a /\ (a * g + (v + x[2])) \div g = a
          <5> HIDE DEF v
          <5> QED
              BY <4>2, <4>5, Divided
        <4>7. w \in Nat
            BY <4>2, Times
        <4>8. x[1] * bk = w + v
            BY <4>3
        <4>9. i = w + (v + x[2])
          <5> HIDE DEF v, w
          <5> QED
              BY <2>1, <4>5, <4>7, <4>8
        <4> QED
            BY <4>6, <4>8, <4>9
      <3> QED
          BY <3>1, <3>2
    <2>4. dot[x] = IF k % bk = 0 \/ x[2] < k - x[1] * bk THEN <<i, i, (x[1] * bk) \div g>> ELSE Masked
        BY DEF DenseDot
    <2> HIDE DEF i, dot
    <2>5. dot[x] = IF i < k THEN <<i, i, i \div g>> ELSE Masked
        BY <2>2, <2>3, <2>4
    <2> QED
        BY <2>5 DEF i
  <1>3. IsLoop(dot, k, bk, g)
    <2> HIDE DEF dot
    <2> QED
        BY <1>1, <1>2 DEF IsLoop
  <1> QED
      BY <1>3, LoopsAreExact

LEMMA PackedLoopIsExact ==
  ASSUME NEW k \in Nat \ {0}, NEW h \in Nat \ {0}, NEW bk, bk = 2 * h, NEW g \in Nat \ {0}
  PROVE  ExactDot(PackedDot(k, bk, g, 2), k, g)
  <1> DEFINE dot == PackedDot(k, bk, g, 2)
  <1>0. bk \in Nat \ {0} /\ bk \div 2 = h
      OBVIOUS
  <1>1. DOMAIN dot = Lanes(k, bk)
      BY DEF PackedDot
  <1>2. ASSUME NEW x \in Lanes(k, bk)
        PROVE  LET i == x[1] * bk + x[2] IN dot[x] = IF i < k THEN <<i, i, i \div g>> ELSE Masked
    <2> DEFINE i == x[1] * bk + x[2]
    <2>1. x[1] \in Nat /\ x[2] \in 0 .. bk - 1 /\ i \in Nat
        BY <1>0, LanesAre
    <2>2. x[2] < k - x[1] * bk <=> i < k
        BY <1>0, LanesWithin
    <2>3. (x[1] * (bk \div 2) + x[2] \div 2) * 2 + (x[2] % 2) = i
      <3> DEFINE u == x[1] * h
      <3>1. u \in Nat /\ x[1] * bk = 2 * u
        <4>1. x[1] * (2 * h) = (x[1] * 2) * h /\ (2 * x[1]) * h = 2 * (x[1] * h) /\ x[1] * 2 = 2 * x[1]
            BY <2>1, TimesIsAssociative
        <4> QED
            BY <2>1, <4>1, Times
      <3> HIDE DEF u
      <3>2. x[2] \div 2 \in Nat /\ x[2] % 2 \in Nat /\ x[2] = (x[2] \div 2) * 2 + (x[2] % 2)
          BY <1>0, <2>1
      <3>3. (u + x[2] \div 2) * 2 + (x[2] % 2) = 2 * u + x[2]
          BY <3>1, <3>2
      <3> QED
          BY <1>0, <3>1, <3>3 DEF u
    <2>4. x[2] + bk * x[1] = i
      <3>1. bk * x[1] = x[1] * bk /\ x[1] * bk \in Nat
          BY <1>0, <2>1
      <3> DEFINE z == x[1] * bk
      <3> HIDE DEF z
      <3>2. z \in Nat /\ bk * x[1] = z
          BY <3>1 DEF z
      <3>3. x[2] + z = z + x[2]
          BY <1>0, <2>1, <3>2
      <3> QED
          BY <3>2, <3>3 DEF z
    <2>5. dot[x] = IF x[2] < k - x[1] * bk
                   THEN <<i, (x[1] * (bk \div 2) + x[2] \div 2) * 2 + (x[2] % 2), (x[2] + bk * x[1]) \div g>>
                   ELSE Masked
        BY DEF PackedDot
    <2> HIDE DEF dot, i
    <2>6. dot[x] = IF i < k THEN <<i, i, i \div g>> ELSE Masked
        BY <2>2, <2>3, <2>4, <2>5
    <2> QED
        BY <2>6 DEF i
  <1>3. IsLoop(dot, k, bk, g)
    <2> HIDE DEF dot
    <2> QED
        BY <1>1, <1>2 DEF IsLoop
  <1> QED
      BY <1>0, <1>3, LoopsAreExact

LEMMA Fp2LoopIsExact ==
  ASSUME NEW k \in Nat \ {0}, NEW h \in Nat \ {0}, NEW bk, bk = 16 * h, NEW m \in Nat, k = m * bk
  PROVE  ExactDot(Fp2Dot(k, bk), k, 16)
  <1> DEFINE dot == Fp2Dot(k, bk)
  <1>0. bk \in Nat \ {0} /\ bk \div 4 = 4 * h /\ bk \div 16 = h
      OBVIOUS
  <1>1. DOMAIN dot = Lanes(k, bk)
      BY DEF Fp2Dot
  <1>2. ASSUME NEW x \in Lanes(k, bk)
        PROVE  LET i == x[1] * bk + x[2] IN dot[x] = IF i < k THEN <<i, i, i \div 16>> ELSE Masked
    <2>1. x[1] \in Nat /\ x[2] \in 0 .. bk - 1 /\ x[1] * bk + x[2] \in Nat
      <3>1. bk \in Nat \ {0}
          BY <1>0
      <3> QED
          BY ONLY k \in Nat \ {0}, <3>1, x \in Lanes(k, bk), LanesAre
    <2> DEFINE i == x[1] * bk + x[2]  j == x[2] \div 4  c == x[2] % 4  u == x[1] * h
    <2>2. i < k
        BY <1>0, WholeSteps
    <2>3. u \in Nat /\ x[1] * bk = 16 * u /\ x[1] * (bk \div 4) = 4 * u /\ x[1] * (bk \div 16) = u
      <3>1. \A n \in Nat : x[1] * (n * h) = n * (x[1] * h)
        <4> TAKE n \in Nat
        <4>1. x[1] * (n * h) = (x[1] * n) * h /\ (n * x[1]) * h = n * (x[1] * h) /\ x[1] * n = n * x[1]
            BY <2>1, TimesIsAssociative
        <4> QED
            BY <4>1
      <3>2. x[1] * (16 * h) = 16 * u /\ x[1] * (4 * h) = 4 * u /\ u \in Nat
          BY <2>1, <3>1, Times
      <3> QED
          BY <1>0, <3>2
    <2>4. x[2] \in Nat
        BY <1>0, <2>1
    <2>5. j \in Nat /\ c \in Nat /\ x[2] = 4 * j + c
        BY <2>4
    <2>6. dot[x] = <<x[1] * bk + 4 * j + c, 4 * (x[1] * (bk \div 4) + j) + c, x[1] * (bk \div 16) + j \div 4>>
        BY DEF Fp2Dot
    <2>7. i = 16 * u + x[2]
        BY <2>3
    <2>8. j \div 4 = x[2] \div 16
        BY <2>4
    <2> HIDE DEF u, i, j, c, dot
    <2>9. x[1] * bk + 4 * j + c = i /\ 4 * (x[1] * (bk \div 4) + j) + c = i
      <3>1. 16 * u + 4 * j + c = i /\ 4 * (4 * u + j) + c = i
          BY <2>3, <2>4, <2>5, <2>7
      <3> QED
          BY <2>3, <3>1
    <2>10. u + x[2] \div 16 = i \div 16
        BY <2>3, <2>4, <2>7
    <2>11. dot[x] = <<i, i, i \div 16>>
        BY <2>3, <2>6, <2>8, <2>9, <2>10
    <2> QED
        BY <2>2, <2>11 DEF i
  <1>3. IsLoop(dot, k, bk, 16)
    <2> HIDE DEF dot
    <2> QED
        BY <1>1, <1>2 DEF IsLoop
  <1> QED
      BY <1>0, <1>3, LoopsAreExact

LEMMA FitStepIs ==
  ASSUME NEW bk \in {64, 128, 256}, NEW n \in Nat \ {0}
  PROVE  \E h \in Nat \ {0}, m \in Nat : FitStep(bk, 16 * n) = 16 * h /\ 16 * n = m * (16 * h)
  <1> DEFINE k == 16 * n  H == Halvings(bk)
             Ok(b) == k % b = 0 \/ b = 16
             Best(b) == Ok(b) /\ \A d \in H : Ok(d) => d <= b
             s == FitStep(bk, k)
  <1>1. H = IF bk = 64 THEN {64, 32, 16} ELSE IF bk = 128 THEN {128, 64, 32, 16} ELSE {256, 128, 64, 32, 16}
    <2>1. CASE bk = 64
        BY <2>1 DEF Halvings
    <2>2. CASE bk = 128
        BY <2>2 DEF Halvings
    <2>3. CASE bk = 256
        BY <2>3 DEF Halvings
    <2> QED
        BY <2>1, <2>2, <2>3
  <1>2. s = CHOOSE b \in H : Best(b)
      BY DEF FitStep
  <1>3. Ok(16)
      OBVIOUS
  <1> HIDE DEF H, Ok
  <1>4. \E b \in H : Best(b)
    <2>1. CASE Ok(256) /\ bk = 256
        BY <1>1, <2>1
    <2>2. CASE Ok(128) /\ 128 \in H /\ (256 \in H => ~Ok(256))
        BY <1>1, <2>2
    <2>3. CASE Ok(64) /\ (128 \in H => ~Ok(128)) /\ (256 \in H => ~Ok(256))
        BY <1>1, <2>3
    <2>4. CASE Ok(32) /\ ~Ok(64) /\ (128 \in H => ~Ok(128)) /\ (256 \in H => ~Ok(256))
        BY <1>1, <2>4
    <2>5. CASE ~Ok(32) /\ ~Ok(64) /\ (128 \in H => ~Ok(128)) /\ (256 \in H => ~Ok(256))
        BY <1>1, <1>3, <2>5
    <2> QED
        BY <1>1, <2>1, <2>2, <2>3, <2>4, <2>5
  <1>5. s \in H /\ Ok(s)
    <2> HIDE DEF s
    <2> QED
        BY <1>2, <1>4
  <1> HIDE DEF s
  <1>6. s \in {16, 32, 64, 128, 256}
      BY <1>1, <1>5
  <1>7. \E h \in Nat \ {0} : s = 16 * h
    <2>1. 16 = 16 * 1 /\ 32 = 16 * 2 /\ 64 = 16 * 4 /\ 128 = 16 * 8 /\ 256 = 16 * 16
        OBVIOUS
    <2> QED
        BY <1>6, <2>1
  <1>8. \E m \in Nat : k = m * s
    <2>1. CASE s = 16
      <3>1. k = n * s
          BY <2>1
      <3> QED
          BY <3>1
    <2>2. CASE k % s = 0
      <3>1. s \in Nat \ {0} /\ k \in Nat
          BY <1>6
      <3> DEFINE z == (k \div s) * s
      <3>2. k \div s \in Nat /\ k = z + (k % s)
        <4> HIDE DEF k
        <4> QED
            BY <3>1, Division
      <3>3. z \in Nat
          BY <3>1, <3>2, Times
      <3> HIDE DEF z
      <3>4. k = z
          BY <2>2, <3>2, <3>3
      <3> QED
          BY <3>2, <3>4 DEF z
    <2> QED
        BY <1>5, <2>1, <2>2 DEF Ok
  <1>9. PICK h \in Nat \ {0} : s = 16 * h
      BY <1>7
  <1>10. PICK m \in Nat : k = m * s
      BY <1>8
  <1> QED
      BY <1>9, <1>10 DEF s

\* The steps of both loops of the two-bit path are fitted.
IsFitted(step, k) == \E bk \in {64, 128, 256} : step = FitStep(bk, k)

LEMMA StepsAreFitted ==
  ASSUME NEW rows \in Nat, NEW up, NEW down
  PROVE  /\ IsFitted(Fp2Configs(rows, up, down, FALSE).up.k, up)
         /\ IsFitted(Fp2Configs(rows, up, down, FALSE).down.k, down)
  <1> DEFINE b == BaseTiles(rows)  x == FitStep(b.up.k, up)  y == FitStep(b.down.k, down)
             Fit(a) == [a EXCEPT !.up.k = x, !.down.k = y]
             Has(t) == t.up.k = x /\ t.down.k = y
  <1>1. Fp2Configs(rows, up, down, FALSE) = Fit(b)
      BY DEF Fp2Configs
  <1>2. b \in {[m |-> 16, up |-> Tile(64, 256, 1), down |-> Tile(64, 64, 1)],
               [m |-> 16, up |-> Tile(64, 256, 1), down |-> Tile(64, 128, 1)],
               [m |-> 16, up |-> Tile(64, 256, 8), down |-> Tile(128, 256, 1)],
               [m |-> 64, up |-> Tile(256, 256, 8), down |-> Tile(256, 64, 8)],
               [m |-> 64, up |-> Tile(256, 64, 8), down |-> Tile(256, 64, 8)]}
      BY BaseTilesAre
  <1>3. b.up.k \in {64, 128, 256} /\ b.down.k \in {64, 128, 256}
    <2> HIDE DEF b
    <2> QED
        BY <1>2 DEF Tile
  <1> HIDE DEF b, x, y
  <1>4. Has(Fit([m |-> 16, up |-> Tile(64, 256, 1), down |-> Tile(64, 64, 1)]))
      BY DEF Tile
  <1>5. Has(Fit([m |-> 16, up |-> Tile(64, 256, 1), down |-> Tile(64, 128, 1)]))
      BY DEF Tile
  <1>6. Has(Fit([m |-> 16, up |-> Tile(64, 256, 8), down |-> Tile(128, 256, 1)]))
      BY DEF Tile
  <1>7. Has(Fit([m |-> 64, up |-> Tile(256, 256, 8), down |-> Tile(256, 64, 8)]))
      BY DEF Tile
  <1>8. Has(Fit([m |-> 64, up |-> Tile(256, 64, 8), down |-> Tile(256, 64, 8)]))
      BY DEF Tile
  <1>9. Has(Fit(b))
    <2> HIDE DEF Fit, Has
    <2> QED
        BY <1>2, <1>4, <1>5, <1>6, <1>7, <1>8
  <1>10. Fp2Configs(rows, up, down, FALSE).up.k = x /\ Fp2Configs(rows, up, down, FALSE).down.k = y
    <2> HIDE DEF Fit
    <2> QED
        BY <1>1, <1>9
  <1>11. IsFitted(x, up) /\ IsFitted(y, down)
      BY <1>3 DEF x, y, IsFitted
  <1> QED
      BY <1>10, <1>11

\* What the loops need of the sizes: whole groups of two-bit codes, whole bytes of 4-bit
\* ones, and an fp8 step inside one scale group.
StepsFit ==
    \A c \in Calls :
        /\ c.kind = "fp2"  => \E m \in Nat : Unit = 16 * m
        /\ c.kind = "int4" => \E h \in Nat : StepK = 2 * h
        /\ c.kind = "fp8"  => \E m \in Nat : QuantGroup = m * StepK

LEMMA DotsAreExact ==
  ASSUME StepsFit, NEW c \in Calls
  PROVE  UpLaunch(c).exact /\ DownLaunch(c).exact
  <1>0. c.kind \in {"bf16", "fp8", "int4", "fp2"} /\ {Inner, Hidden, Unit, StepK, QuantGroup} \subseteq Nat \ {0}
      BY MoeAssumption
  <1>1. ASSUME NEW n \in Nat \ {0} PROVE n * Unit \in Nat \ {0}
      BY <1>0
  <1>2. ASSUME c.kind # "fp2", NEW k \in Nat \ {0} PROVE DotIsExact(c, k, StepK)
    <2>1. CASE c.kind = "bf16"
      <3>1. ExactDot(DenseDot(k, StepK, k), k, k)
        <4>1. 0 \in Nat /\ k <= k /\ StepK \in Nat \ {0}
            BY <1>0
        <4> QED
            BY <4>1, DenseLoopIsExact
      <3> QED
          BY <2>1, <3>1 DEF DotIsExact
    <2>2. CASE c.kind = "fp8"
      <3>1. ExactDot(DenseDot(k, StepK, QuantGroup), k, QuantGroup)
          BY <1>0, <2>2, DenseLoopIsExact DEF StepsFit
      <3> QED
          BY <2>2, <3>1 DEF DotIsExact
    <2>3. CASE c.kind = "int4"
      <3>1. PICK h \in Nat : StepK = 2 * h
          BY <2>3 DEF StepsFit
      <3>2. h \in Nat \ {0}
          BY <1>0, <3>1
      <3>3. ExactDot(PackedDot(k, StepK, QuantGroup, 2), k, QuantGroup)
          BY <1>0, <3>1, <3>2, PackedLoopIsExact
      <3> QED
          BY <2>3, <3>3 DEF DotIsExact
    <2> QED
        BY <1>0, <1>2, <2>1, <2>2, <2>3
  <1>3. ASSUME c.kind = "fp2", NEW n \in Nat \ {0}, NEW s, IsFitted(s, n * Unit)
        PROVE  DotIsExact(c, n * Unit, s)
    <2>0. PICK bk \in {64, 128, 256} : s = FitStep(bk, n * Unit)
        BY <1>3 DEF IsFitted
    <2>1. PICK m \in Nat : Unit = 16 * m
        BY <1>3 DEF StepsFit
    <2>2. m \in Nat \ {0}
        BY <1>0, <2>1
    <2> DEFINE u == n * m
    <2>3. u \in Nat \ {0} /\ n * Unit = 16 * u
      <3>1. n * (16 * m) = (n * 16) * m /\ (16 * n) * m = 16 * (n * m) /\ n * 16 = 16 * n
          BY <2>2, TimesIsAssociative
      <3>2. n * m \in Nat \ {0}
          BY <2>2
      <3> QED
          BY <2>1, <3>1, <3>2
    <2> HIDE DEF u
    <2>4. PICK h \in Nat \ {0}, q \in Nat : FitStep(bk, 16 * u) = 16 * h /\ 16 * u = q * (16 * h)
        BY <2>3, FitStepIs
    <2>5. 16 * u \in Nat \ {0}
        BY <2>3
    <2>6. ExactDot(Fp2Dot(16 * u, 16 * h), 16 * u, 16)
        BY <2>4, <2>5, Fp2LoopIsExact
    <2> QED
        BY <1>3, <2>0, <2>3, <2>4, <2>6 DEF DotIsExact
  <1> DEFINE t == Fp2Tiles(c)
  <1>4. IsFitted(t.up.k, Hidden * Unit) /\ IsFitted(t.down.k, Inner * Unit)
      BY RoutesAre, StepsAreFitted DEF Fp2Tiles
  <1> HIDE DEF t
  <1>5. /\ UpLaunch(c).exact = DotIsExact(c, Hidden * Unit, IF c.kind = "fp2" THEN t.up.k ELSE StepK)
        /\ DownLaunch(c).exact = DotIsExact(c, Inner * Unit, IF c.kind = "fp2" THEN t.down.k ELSE StepK)
      BY DEF UpLaunch, DownLaunch, t
  <1>6. CASE c.kind = "fp2"
      BY <1>0, <1>3, <1>4, <1>5, <1>6
  <1>7. CASE c.kind # "fp2"
      BY <1>0, <1>1, <1>2, <1>5, <1>7
  <1> QED
      BY <1>6, <1>7

-----------------------------------------------------------------------------
(* Every route has its place, in a block of its expert.                    *)

LEMMA BlocksGrow ==
  ASSUME NEW c \in Calls, NEW bm \in Nat \ {0},
         NEW i \in 0 .. Experts + 1, NEW j \in 0 .. Experts + 1, i <= j
  PROVE  BlocksBefore(c, bm)[i] <= BlocksBefore(c, bm)[j]
  <1> DEFINE b == BlocksBefore(c, bm)  n == Experts + 1 - i
             S == {d \in 0 .. n : b[i] <= b[i + d]}
  <1>0. Experts \in Nat /\ i \in Nat /\ j \in Nat /\ n \in Nat /\ j - i \in 0 .. n /\ i + (j - i) = j
      BY MoeAssumption
  <1>1. /\ \A d \in 0 .. Experts + 1 : b[d] \in Nat
        /\ \A d \in 0 .. Experts : b[d + 1] = b[d] + BlocksOf(c, d - 1, bm)
      BY BlocksAreSums DEF IsBlocks
  <1> HIDE DEF b
  <1>2. 0 \in S
      BY <1>0, <1>1
  <1>3. ASSUME NEW d \in 0 .. n - 1, d \in S PROVE d + 1 \in S
    <2>1. i + d \in 0 .. Experts /\ i + (d + 1) = (i + d) + 1 /\ d + 1 \in 0 .. n
        BY <1>0
    <2>2. b[(i + d) + 1] = b[i + d] + BlocksOf(c, (i + d) - 1, bm) /\ BlocksOf(c, (i + d) - 1, bm) \in Nat
        BY <1>1, <2>1, BucketsAre
    <2>3. b[i + d] \in Nat /\ b[i] \in Nat /\ b[i] <= b[i + d]
      <3>1. i + d \in 0 .. Experts + 1
          BY <1>0, <2>1
      <3> QED
          BY <1>1, <1>3, <3>1
    <2>4. b[i] <= b[i + (d + 1)]
        BY <2>1, <2>2, <2>3
    <2> QED
        BY <2>1, <2>4
  <1>4. \A d \in 0 .. n : d \in S
    <2> HIDE DEF S, n
    <2> QED
        BY <1>0, <1>2, <1>3, Climb
  <1>5. j - i \in S
      BY <1>0, <1>4
  <1> QED
      BY <1>0, <1>5 DEF b

\* Block b is one of those of slot e.
HasBlock(c, bm, e, b) ==
    FirstBlock(c, e, bm) <= b /\ b < FirstBlock(c, e, bm) + BlocksOf(c, e, bm)

LEMMA SlotsHaveBlocks ==
  ASSUME NEW c \in Calls, NEW bm \in Nat \ {0}, NEW e \in -1 .. Experts - 1
  PROVE  /\ FirstBlock(c, e, bm) = BlocksBefore(c, bm)[e + 1] /\ FirstBlock(c, e, bm) \in Nat
         /\ FirstBlock(c, e, bm) + BlocksOf(c, e, bm) = BlocksBefore(c, bm)[e + 2]
         /\ FirstBlock(c, e, bm) + BlocksOf(c, e, bm) <= FirstBlock(c, Experts, bm)
         /\ FirstBlock(c, Experts, bm) \in Nat
         /\ e + 1 \in 0 .. Experts + 1 /\ e + 2 \in 0 .. Experts + 1
  <1>0. Experts \in Nat /\ e + 1 \in 0 .. Experts /\ (e + 1) + 1 = e + 2 /\ (e + 1) - 1 = e
            /\ e + 1 \in 0 .. Experts + 1 /\ e + 2 \in 0 .. Experts + 1 /\ e + 2 <= Experts + 1
            /\ Experts + 1 \in 0 .. Experts + 1
      BY MoeAssumption
  <1>1. /\ \A d \in 0 .. Experts + 1 : BlocksBefore(c, bm)[d] \in Nat
        /\ \A d \in 0 .. Experts : BlocksBefore(c, bm)[d + 1] = BlocksBefore(c, bm)[d] + BlocksOf(c, d - 1, bm)
      BY BlocksAreSums DEF IsBlocks
  <1>2. BlocksBefore(c, bm)[(e + 1) + 1] = BlocksBefore(c, bm)[e + 1] + BlocksOf(c, (e + 1) - 1, bm)
      BY <1>0, <1>1
  <1>3. BlocksBefore(c, bm)[e + 2] <= BlocksBefore(c, bm)[Experts + 1]
      BY <1>0, BlocksGrow
  <1> QED
      BY <1>0, <1>1, <1>2, <1>3 DEF FirstBlock

LEMMA BlocksHaveOneSlot ==
  ASSUME NEW c \in Calls, NEW bm \in Nat \ {0}, NEW b \in Nat,
         NEW e \in -1 .. Experts - 1, HasBlock(c, bm, e, b),
         NEW d \in -1 .. Experts - 1, HasBlock(c, bm, d, b)
  PROVE  e = d
  <1>1. \A x, y \in -1 .. Experts - 1 : HasBlock(c, bm, x, b) /\ HasBlock(c, bm, y, b) => ~ (x < y)
    <2> SUFFICES ASSUME NEW x \in -1 .. Experts - 1, NEW y \in -1 .. Experts - 1,
                        HasBlock(c, bm, x, b), HasBlock(c, bm, y, b), x < y
                 PROVE  FALSE
        OBVIOUS
    <2>1. x + 2 \in 0 .. Experts + 1 /\ y + 1 \in 0 .. Experts + 1
        BY SlotsHaveBlocks
    <2>2. x + 2 <= y + 1
        OBVIOUS
    <2>3. BlocksBefore(c, bm)[x + 2] <= BlocksBefore(c, bm)[y + 1]
        BY <2>1, <2>2, BlocksGrow
    <2>4. b < BlocksBefore(c, bm)[x + 2] /\ BlocksBefore(c, bm)[y + 1] <= b
        BY SlotsHaveBlocks DEF HasBlock
    <2>5. BlocksBefore(c, bm)[x + 2] \in Nat /\ BlocksBefore(c, bm)[y + 1] \in Nat
        BY <2>1, BlocksAreSums DEF IsBlocks
    <2> QED
        BY <2>3, <2>4, <2>5
  <1> QED
      BY <1>1

\* How many routes of its bucket come before a route.
RankOf(c, r) == Cardinality({q \in Bucket(c, Slot(c, r)) : q < r})

LEMMA RanksAre ==
  ASSUME NEW c \in Calls, NEW r \in Routes(c)
  PROVE  /\ RankOf(c, r) \in Nat /\ RankOf(c, r) < Cardinality(Bucket(c, Slot(c, r)))
         /\ \A q \in Routes(c) : Slot(c, q) = Slot(c, r) /\ q < r => RankOf(c, q) < RankOf(c, r)
  <1> DEFINE B == Bucket(c, Slot(c, r))  Q(x) == {q \in B : q < x}
  <1>0. \A x \in Routes(c) : x \in Nat
      BY RoutesAre
  <1>1. IsFiniteSet(B) /\ B \subseteq Nat /\ r \in B
      BY <1>0, BucketsAre, 1 \in Nat \ {0} DEF Bucket
  <1>2. \A x : IsFiniteSet(Q(x)) /\ Cardinality(Q(x)) \in Nat
      BY <1>1, FS_Subset, FS_CardinalityType
  <1>3. Cardinality(Q(r)) < Cardinality(B)
    <2>1. Q(r) \subseteq B /\ r \notin Q(r) /\ Cardinality(B) \in Nat
        BY <1>0, <1>1, FS_CardinalityType
    <2>2. Cardinality(Q(r)) <= Cardinality(B) /\ (Cardinality(Q(r)) = Cardinality(B) => Q(r) = B)
      <3> HIDE DEF Q, B
      <3> QED
          BY <1>1, <2>1, FS_Subset
    <2> HIDE DEF Q, B
    <2> QED
        BY <1>1, <1>2, <2>1, <2>2
  <1>4. ASSUME NEW q \in Routes(c), Slot(c, q) = Slot(c, r), q < r
        PROVE  Cardinality(Q(q)) < Cardinality(Q(r))
    <2>1. q \in B
        BY <1>4 DEF Bucket
    <2>2. Q(q) \subseteq Q(r) /\ q \in Q(r) /\ q \notin Q(q)
        BY <1>0, <1>1, <1>4, <2>1
    <2>3. Cardinality(Q(q)) <= Cardinality(Q(r)) /\ (Cardinality(Q(q)) = Cardinality(Q(r)) => Q(q) = Q(r))
      <3> HIDE DEF Q, B
      <3> QED
          BY <1>2, <2>2, FS_Subset
    <2> HIDE DEF Q, B
    <2> QED
        BY <1>2, <2>2, <2>3
  <1>5. RankOf(c, r) = Cardinality(Q(r)) /\ \A q \in Routes(c) : Slot(c, q) = Slot(c, r) => RankOf(c, q) = Cardinality(Q(q))
      BY DEF RankOf
  <1> HIDE DEF Q
  <1> QED
      BY <1>2, <1>3, <1>4, <1>5

\* The quotients of the numbers between two multiples.
LEMMA QuotientIsBetween ==
  ASSUME NEW m \in Nat \ {0}, NEW a \in Nat, NEW b \in Nat, NEW x \in Nat, a * m <= x, x < b * m
  PROVE  x \div m \in Nat /\ a <= x \div m /\ x \div m < b
  <1> DEFINE q == x \div m
  <1>1. q \in Nat /\ q * m <= x /\ x < q * m + m
      BY Division
  <1>2. (q + 1) * m = q * m + m
      BY <1>1, NextTimes
  <1> HIDE DEF q
  <1>3. ASSUME b <= q PROVE FALSE
    <2> DEFINE y == b * m  z == q * m
    <2>1. y <= z /\ y \in Nat /\ z \in Nat
        BY <1>1, <1>3, Times
    <2>2. z <= x /\ x < y
        BY <1>1
    <2> HIDE DEF y, z
    <2> QED
        BY <2>1, <2>2
  <1>4. ASSUME q + 1 <= a PROVE FALSE
    <2> DEFINE y == (q + 1) * m  z == a * m  w == q * m
    <2>1. y <= z /\ y \in Nat /\ z \in Nat
        BY <1>1, <1>4, Times
    <2>2. z <= x /\ x < w + m /\ y = w + m
        BY <1>1, <1>2
    <2> HIDE DEF y, z, w
    <2> QED
        BY <2>1, <2>2
  <1>5. a <= q /\ q < b
      BY <1>1, <1>3, <1>4
  <1> QED
      BY <1>1, <1>5 DEF q

LEMMA PositionsAreInBlocks ==
  ASSUME NEW c \in Calls, NEW bm \in Nat \ {0}, NEW r \in Routes(c)
  PROVE  /\ PositionOf(c, r, bm) \in Nat /\ PositionOf(c, r, bm) \div bm \in Nat
         /\ PositionOf(c, r, bm) = FirstBlock(c, Slot(c, r), bm) * bm + RankOf(c, r)
         /\ HasBlock(c, bm, Slot(c, r), PositionOf(c, r, bm) \div bm)
  <1> DEFINE s == Slot(c, r)  f == FirstBlock(c, s, bm)  d == BlocksOf(c, s, bm)
             a == RankOf(c, r)  u == Cardinality(Bucket(c, s))  x == f * bm  y == d * bm  z == (f + d) * bm
             p == PositionOf(c, r, bm)
  <1>1. s \in -1 .. Experts - 1 /\ a \in Nat /\ a < u
      BY RoutesAre, RanksAre
  <1>2. f \in Nat /\ d \in Nat /\ u \in Nat /\ u <= y
    <2> HIDE DEF s
    <2> QED
        BY <1>1, SlotsHaveBlocks, BucketsAre
  <1>3. p = x + a
      BY DEF PositionOf, RankOf
  <1> HIDE DEF s, f, d, a, u, p
  <1>4. z = x + y /\ x \in Nat /\ y \in Nat
    <2>1. (f + d) * bm = f * bm + d * bm
        BY <1>2
    <2> QED
        BY <1>2, <2>1, Times
  <1>5. p \in Nat /\ x <= p /\ p < z
    <2> HIDE DEF x, y, z
    <2> QED
        BY <1>1, <1>2, <1>3, <1>4
  <1>6. f + d \in Nat
      BY <1>2
  <1>7. p \div bm \in Nat /\ f <= p \div bm /\ p \div bm < f + d
      BY <1>2, <1>5, <1>6, QuotientIsBetween
  <1> QED
      BY <1>3, <1>5, <1>7 DEF HasBlock, p, x, f, d, s, a

LEMMA PositionsDiffer ==
  ASSUME NEW c \in Calls, NEW bm \in Nat \ {0}, NEW r \in Routes(c), NEW q \in Routes(c),
         PositionOf(c, r, bm) = PositionOf(c, q, bm)
  PROVE  r = q
  <1>1. Slot(c, r) = Slot(c, q)
    <2> DEFINE b == PositionOf(c, r, bm) \div bm
    <2>1. b \in Nat /\ HasBlock(c, bm, Slot(c, r), b) /\ HasBlock(c, bm, Slot(c, q), b)
        BY PositionsAreInBlocks
    <2>2. Slot(c, r) \in -1 .. Experts - 1 /\ Slot(c, q) \in -1 .. Experts - 1
        BY RoutesAre
    <2> HIDE DEF b
    <2> QED
        BY <2>1, <2>2, BlocksHaveOneSlot
  <1>2. RankOf(c, r) = RankOf(c, q)
    <2> DEFINE x == FirstBlock(c, Slot(c, r), bm) * bm  i == RankOf(c, r)  j == RankOf(c, q)
    <2>1. x + i = x + j
        BY <1>1, PositionsAreInBlocks
    <2>2. i \in Nat /\ j \in Nat
        BY RanksAre
    <2>3. x \in Nat
      <3>1. Slot(c, r) \in -1 .. Experts - 1
          BY RoutesAre
      <3>2. FirstBlock(c, Slot(c, r), bm) \in Nat
          BY <3>1, SlotsHaveBlocks
      <3> QED
          BY <3>2, Times
    <2> HIDE DEF x, i, j
    <2>4. i = j
        BY <2>1, <2>2, <2>3
    <2> QED
        BY <2>4 DEF i, j
  <1>3. ~ (r < q) /\ ~ (q < r)
    <2>1. r < q => RankOf(c, r) < RankOf(c, q)
        BY <1>1, RanksAre
    <2>2. q < r => RankOf(c, q) < RankOf(c, r)
        BY <1>1, RanksAre
    <2>3. RankOf(c, r) \in Nat
        BY RanksAre
    <2> QED
        BY <1>2, <2>1, <2>2, <2>3
  <1>4. r \in Nat /\ q \in Nat
      BY RoutesAre
  <1> QED
      BY <1>3, <1>4

\* The places of the routes and the blocks of their experts, as Align returns them.
LEMMA AlignmentPlaces ==
  ASSUME NEW c \in Calls, NEW bm \in Nat \ {0}, NEW r \in Routes(c)
  PROVE  /\ PositionOf(c, r, bm) \in 0 .. Align(c, bm).blocks * bm - 1
         /\ Align(c, bm).sorted[PositionOf(c, r, bm)] = r
         /\ PositionOf(c, r, bm) \div bm \in 0 .. Align(c, bm).blocks - 1
         /\ PositionOf(c, r, bm) \div bm < Align(c, bm).used
         /\ Align(c, bm).expert[PositionOf(c, r, bm) \div bm] = Slot(c, r)
  <1> DEFINE n == Tokens * Topk(c)  h == Least(n, Experts + 1)  w == h * (bm - 1)  rows == n + w
             blocks == CeilDiv(rows, bm)  used == FirstBlock(c, Experts, bm)
             p == PositionOf(c, r, bm)  b == p \div bm
             At(x) == IF \E q \in Routes(c) : PositionOf(c, q, bm) = x
                          THEN CHOOSE q \in Routes(c) : PositionOf(c, q, bm) = x
                          ELSE n
             Holds(x) == IF x < used
                          THEN CHOOSE e \in -1 .. Experts - 1 : HasBlock(c, bm, e, x)
                          ELSE -1
  <1>1. /\ Align(c, bm).blocks = blocks /\ Align(c, bm).used = used
        /\ Align(c, bm).sorted = [x \in 0 .. blocks * bm - 1 |-> At(x)]
        /\ Align(c, bm).expert = [x \in 0 .. blocks - 1 |-> Holds(x)]
      BY DEF Align, HasBlock
  <1>2. n \in Nat \ {0} /\ w \in Nat /\ rows \in Nat
    <2>1. n \in Nat \ {0}
        BY RoutesAre
    <2> HIDE DEF n
    <2>2. h \in Nat
        BY <2>1, MoeAssumption DEF Least
    <2> HIDE DEF h
    <2>3. w \in Nat
        BY <2>2, Times
    <2> HIDE DEF w
    <2> QED
        BY <2>1, <2>3
  <1>3. p \in 0 .. rows - 1
    <2>1. PositionOf(c, r, bm) \in 0 .. n + w - 1
        BY PositionsFit
    <2>2. rows = n + w
        OBVIOUS
    <2> HIDE DEF rows, n, w
    <2> QED
        BY <1>2, <2>1, <2>2
  <1>4. blocks \in Nat /\ rows <= blocks * bm
    <2> HIDE DEF rows
    <2> QED
        BY <1>2, CeilingIs
  <1>5. At(p) = r
    <2>1. \A q \in Routes(c) : PositionOf(c, q, bm) = p => q = r
        BY PositionsDiffer
    <2> QED
        BY <2>1
  <1>6. b \in Nat /\ HasBlock(c, bm, Slot(c, r), b) /\ Slot(c, r) \in -1 .. Experts - 1
      BY PositionsAreInBlocks, RoutesAre
  <1>7. b < used
    <2>1. b < FirstBlock(c, Slot(c, r), bm) + BlocksOf(c, Slot(c, r), bm)
        BY <1>6 DEF HasBlock
    <2>2. /\ FirstBlock(c, Slot(c, r), bm) + BlocksOf(c, Slot(c, r), bm) <= used
          /\ used \in Nat
          /\ FirstBlock(c, Slot(c, r), bm) + BlocksOf(c, Slot(c, r), bm) \in Nat
      <3>1. BlocksOf(c, Slot(c, r), bm) \in Nat
          BY BucketsAre
      <3>2. Slot(c, r) \in -1 .. Experts - 1
          BY <1>6
      <3>3. FirstBlock(c, Slot(c, r), bm) \in Nat /\ used \in Nat
            /\ FirstBlock(c, Slot(c, r), bm) + BlocksOf(c, Slot(c, r), bm) <= used
          BY <3>2, SlotsHaveBlocks
      <3> QED
          BY <3>1, <3>3
    <2> HIDE DEF b, used
    <2> QED
        BY <1>6, <2>1, <2>2
  <1>8. Holds(b) = Slot(c, r)
    <2>1. \A e \in -1 .. Experts - 1 : HasBlock(c, bm, e, b) => e = Slot(c, r)
        BY <1>6, BlocksHaveOneSlot
    <2> HIDE DEF b, used
    <2> QED
        BY <1>6, <1>7, <2>1
  <1> HIDE DEF At, Holds, used, rows
  <1>9. p \in 0 .. blocks * bm - 1
    <2> DEFINE z == blocks * bm
    <2>1. z \in Nat /\ rows <= z
        BY <1>4, Times
    <2> HIDE DEF z, p
    <2>2. p \in 0 .. z - 1
        BY <1>2, <1>3, <2>1
    <2> QED
        BY <2>2 DEF z
  <1>10. b \in 0 .. blocks - 1
    <2>1. p \in Nat /\ 0 * bm <= p /\ p < blocks * bm
      <3> DEFINE z == blocks * bm
      <3>1. z \in Nat /\ p \in 0 .. z - 1
          BY <1>4, <1>9, Times
      <3> HIDE DEF z, p
      <3>2. p \in Nat /\ p < z
          BY <3>1
      <3> QED
          BY <3>2 DEF z
    <2> HIDE DEF p, blocks
    <2>2. p \div bm < blocks /\ p \div bm \in Nat
        BY <1>4, <2>1, QuotientIsBetween, 0 \in Nat
    <2> QED
        BY <1>4, <2>2
  <1> HIDE DEF blocks, b, p
  <1>11. Align(c, bm).sorted[p] = r /\ Align(c, bm).expert[b] = Slot(c, r)
      BY <1>1, <1>5, <1>8, <1>9, <1>10
  <1> QED
      BY <1>1, <1>7, <1>9, <1>10, <1>11 DEF b, p

\* Some program computes tile <<m, n>>.
HasProgram(mb, nb, g, m, n) ==
    \E p \in 0 .. mb * nb - 1 : PidM(p, mb, nb, g) = m /\ PidN(p, mb, nb, g) = n

LEMMA TilesHavePrograms ==
  ASSUME NEW mb \in Nat, NEW nb \in Nat \ {0}, NEW g \in Nat \ {0}, NEW m \in 0 .. mb - 1, NEW n \in 0 .. nb - 1
  PROVE  HasProgram(mb, nb, g, m, n)
  <1> DEFINE q == m \div g  z == q * g  o == m % g  h == Least(mb - z, g)
             w == g * nb  a == n * h  x == a + o  p == q * w + x
  <1>1. m \in Nat /\ n \in Nat /\ w \in Nat \ {0} /\ mb \in Nat \ {0}
      OBVIOUS
  <1>2. q \in Nat /\ o \in 0 .. g - 1 /\ m = z + o /\ z \in Nat
    <2>1. m \div g \in Nat /\ m % g \in 0 .. g - 1 /\ m = (m \div g) * g + (m % g)
        BY <1>1, Division
    <2>2. z \in Nat
        BY <2>1, Times
    <2> QED
        BY <2>1, <2>2
  <1> HIDE DEF q, o
  <1>3. h \in 1 .. g /\ h <= mb - z /\ o \in 0 .. h - 1 /\ h \in Nat \ {0}
    <2> HIDE DEF z
    <2> QED
        BY <1>1, <1>2 DEF Least
  <1>4. a \in Nat /\ a + h <= nb * h /\ nb * h <= nb * g
    <2> HIDE DEF h
    <2>1. n + 1 \in Nat /\ n + 1 <= nb /\ nb \in Nat /\ h \in Nat /\ (n + 1) * h = n * h + h
        BY <1>1, <1>3, NextTimes
    <2>2. (n + 1) * h <= nb * h
        BY <2>1, Times
    <2>3. h * nb <= g * nb /\ h * nb = nb * h /\ g * nb = nb * g
        BY <1>3, Times
    <2> QED
        BY <1>1, <2>1, <2>2, <2>3, Times
  <1>5. x \in Nat /\ x < w /\ x < nb * h
    <2> DEFINE b == nb * h
    <2>1. b \in Nat /\ a + h <= b /\ b <= w /\ nb * g = g * nb
        BY <1>3, <1>4, Times
    <2> HIDE DEF a, b, w, h
    <2>2. x \in Nat /\ x < w /\ x < b
        BY <1>1, <1>2, <1>3, <1>4, <2>1
    <2> QED
        BY <2>2 DEF b
  <1>6. p \div w = q /\ p % w = x
    <2> HIDE DEF w, x
    <2>1. x \in 0 .. w - 1
        BY <1>1, <1>5
    <2> QED
        BY <1>1, <1>2, <2>1, Divided
  <1>7. x \div h = n /\ x % h = o
    <2> HIDE DEF h
    <2> QED
        BY <1>1, <1>2, <1>3, Divided
  <1>8. PidM(p, mb, nb, g) = m /\ PidN(p, mb, nb, g) = n
    <2>1. GroupHeight(p, mb, nb, g) = h
        BY <1>6 DEF GroupHeight
    <2> HIDE DEF h, x, p
    <2>2. PidM(p, mb, nb, g) = q * g + o
        BY <1>6, <1>7, <2>1 DEF PidM, w
    <2>3. PidN(p, mb, nb, g) = n
        BY <1>6, <1>7, <2>1 DEF PidN, w
    <2> QED
        BY <1>2, <2>2, <2>3
  <1>9. p \in 0 .. mb * nb - 1
    <2>1. q * w = z * nb
        BY <1>2, TimesIsAssociative
    <2>2. (z + h) * nb = z * nb + h * nb /\ h * nb = nb * h
      <3> HIDE DEF z, h
      <3> QED
          BY <1>2, <1>3
    <2>3. (z + h) * nb <= mb * nb /\ mb * nb \in Nat /\ (z + h) * nb \in Nat
      <3> HIDE DEF z, h
      <3>1. z + h \in Nat /\ z + h <= mb
          BY <1>1, <1>2, <1>3
      <3> QED
          BY <3>1, Times
    <2> DEFINE b == nb * h  d == z * nb  e == mb * nb  f == (z + h) * nb
    <2>4. d \in Nat /\ b \in Nat
        BY <1>2, <1>3, Times
    <2>5. p = d + x /\ f = d + b /\ f <= e /\ e \in Nat /\ f \in Nat /\ x < b
        BY <1>5, <2>1, <2>2, <2>3
    <2> HIDE DEF b, d, e, f, p, x
    <2>6. p \in 0 .. e - 1
        BY <1>5, <2>4, <2>5
    <2> QED
        BY <2>6 DEF e
  <1> HIDE DEF p
  <1> QED
      BY <1>8, <1>9 DEF HasProgram

\* A program computes the routes of one expert, and writes zeros for remote ones.
LEMMA ProgramsServe ==
  ASSUME NEW l, Launches(l), NEW prog \in Programs(l), NEW p \in prog.rows
  PROVE  /\ route.sorted[p] \in Routes(call) /\ PositionOf(call, route.sorted[p], l.bm) = p
         /\ prog.expert = Slot(call, route.sorted[p])
         /\ prog.filtered = (call.filter /\ Slot(call, route.sorted[p]) = -1)
  <1>1. PICK pid \in 0 .. route.blocks * NBlocks(l) - 1 : prog = Program(l, pid)
      BY DEF Programs
  <1> DEFINE m == PidM(pid, route.blocks, NBlocks(l), l.group)
             n == PidN(pid, route.blocks, NBlocks(l), l.group)
             r == route.sorted[p]
  <1>2. m \in Nat /\ IsProgram(l, prog, m, n)
      BY <1>1, ProgramsAre
  <1>3. prog.expert = route.expert[m] /\ prog.filtered = (call.filter /\ route.expert[m] = -1)
      BY <1>1 DEF Program
  <1>4. l.bm \in Nat \ {0} /\ call \in Calls /\ route = Align(call, l.bm)
      BY DEF Launches, IsLaunch
  <1> HIDE DEF m, n
  <1>5. r \in Routes(call) /\ PositionOf(call, r, l.bm) = p /\ p \in m * l.bm .. (m + 1) * l.bm - 1
      BY <1>2 DEF IsProgram
  <1>6. p \div l.bm = m
      BY <1>2, <1>4, <1>5, Tiled
  <1> HIDE DEF r
  <1>7. Align(call, l.bm).expert[PositionOf(call, r, l.bm) \div l.bm] = Slot(call, r)
      BY <1>4, <1>5, AlignmentPlaces
  <1> QED
      BY <1>3, <1>4, <1>5, <1>6, <1>7 DEF r

\* Every route has a program for each of its columns.
LEMMA RoutesHavePrograms ==
  ASSUME NEW l, Launches(l), NEW r \in Routes(call), NEW j \in 0 .. l.n - 1
  PROVE  \E prog \in Programs(l) :
            /\ PositionOf(call, r, l.bm) \in prog.rows
            /\ route.sorted[PositionOf(call, r, l.bm)] = r /\ j \in prog.columns
  <1> DEFINE mb == route.blocks  nb == NBlocks(l)  g == l.group  bm == l.bm  bn == l.bn
             p == PositionOf(call, r, bm)  m == p \div bm  n == j \div bn
  <1>1. mb \in Nat /\ nb \in Nat \ {0} /\ g \in Nat \ {0} /\ bm \in Nat \ {0} /\ call \in Calls
      BY LaunchHasTiles
  <1>2. bn \in Nat \ {0} /\ l.n \in Nat \ {0} /\ route = Align(call, bm)
      BY DEF Launches, IsLaunch
  <1>3. /\ p \in Nat /\ route.sorted[p] = r /\ m \in 0 .. mb - 1 /\ m < route.used
    <2>1. p \in Nat
        BY <1>1, PositionsAreInBlocks
    <2> QED
        BY <1>1, <1>2, <2>1, AlignmentPlaces
  <1>4. r < RouteCount
      BY <1>1, RoutesAre DEF RouteCount
  <1>5. p \in m * bm .. (m + 1) * bm - 1
    <2> HIDE DEF p, bm
    <2>1. m \in Nat /\ m * bm <= p /\ p < m * bm + bm /\ (m + 1) * bm = m * bm + bm
        BY <1>1, <1>3, Division, NextTimes
    <2> DEFINE x == m * bm  y == (m + 1) * bm
    <2>2. x \in Nat /\ y = x + bm /\ x <= p /\ p < x + bm
        BY <1>1, <2>1, Times
    <2> HIDE DEF x, y, m
    <2>3. p \in x .. y - 1
        BY <1>1, <1>3, <2>2
    <2> QED
        BY <2>3 DEF x, y
  <1>6. n \in 0 .. nb - 1 /\ j \in n * bn .. (n + 1) * bn - 1
    <2>1. j \in Nat /\ j < l.n
        BY <1>2
    <2>2. n \in Nat /\ n * bn <= j /\ j < n * bn + bn /\ (n + 1) * bn = n * bn + bn
      <3> HIDE DEF bn
      <3>1. j \div bn \in Nat
          BY <1>2, <2>1, Division
      <3> QED
          BY <1>2, <2>1, <3>1, Division, NextTimes
    <2>3. nb = CeilDiv(l.n, bn)
        BY DEF NBlocks
    <2> HIDE DEF n, nb, bn
    <2>4. l.n <= nb * bn
        BY <1>2, <2>3, CeilingIs
    <2>5. n < nb
      <3> SUFFICES ASSUME nb <= n PROVE FALSE
          BY <1>1, <2>2
      <3> DEFINE x == nb * bn  y == n * bn
      <3>1. x <= y /\ x \in Nat /\ y \in Nat
          BY <1>1, <1>2, <2>2, Times
      <3>2. l.n <= x /\ y <= j
          BY <2>2, <2>4
      <3> HIDE DEF x, y
      <3> QED
          BY <1>2, <2>1, <3>1, <3>2
    <2> DEFINE x == n * bn  y == (n + 1) * bn
    <2>6. x \in Nat /\ y = x + bn /\ x <= j /\ j < x + bn
        BY <1>2, <2>2, Times
    <2> HIDE DEF x, y
    <2>7. j \in x .. y - 1
        BY <1>2, <2>1, <2>6
    <2> QED
        BY <1>1, <2>2, <2>5, <2>7 DEF x, y
  <1> HIDE DEF m, n
  <1>7. PICK pid \in 0 .. mb * nb - 1 : PidM(pid, mb, nb, g) = m /\ PidN(pid, mb, nb, g) = n
    <2> HIDE DEF mb, nb, g
    <2>1. m \in 0 .. mb - 1 /\ n \in 0 .. nb - 1
        BY <1>3, <1>6
    <2>2. HasProgram(mb, nb, g, m, n)
        BY <1>1, <2>1, TilesHavePrograms
    <2> QED
        BY <2>2 DEF HasProgram
  <1> DEFINE prog == Program(l, pid)
  <1>8. /\ prog.active = (m < route.used) /\ prog.columns = (n * bn .. (n + 1) * bn - 1) \cap (0 .. l.n - 1)
        /\ prog.rows = {x \in m * bm .. (m + 1) * bm - 1 : route.sorted[x] < RouteCount}
      BY <1>7 DEF Program, Columns
  <1>9. prog \in Programs(l)
      BY <1>3, <1>7, <1>8 DEF Programs
  <1> HIDE DEF prog, p, bm, bn
  <1>10. p \in prog.rows /\ j \in prog.columns
      BY <1>3, <1>4, <1>5, <1>6, <1>8
  <1> QED
      BY <1>3, <1>9, <1>10 DEF p, bm

\* The row of C of a route.
RowIn(l, r) ==
    CASE l.adds -> TokenOf(r)
      [] ~l.adds /\ l.sorted -> PositionOf(call, r, l.bm)
      [] OTHER -> r

\* The columns of C, half as many when the epilogue applies the activation.
Width(l) == IF l.fused THEN {j \in 0 .. Inner - 1 : 2 * j \in 0 .. l.n - 1} ELSE 0 .. l.n - 1

\* Store s of a program is that of route r.
IsStoreOf(l, prog, s, r) ==
    /\ r \in Routes(call) /\ r = route.sorted[s[3]] /\ s[3] = PositionOf(call, r, l.bm)
    /\ s[1] = RowIn(l, r) /\ s[2] \in Width(l)
    /\ prog.expert = Slot(call, r) /\ prog.filtered = (call.filter /\ Slot(call, r) = -1)

LEMMA StoresAreOfRoutes ==
  ASSUME NEW l, Launches(l), NEW prog \in Programs(l), NEW s \in Stores(l, prog)
  PROVE  IsStoreOf(l, prog, s, route.sorted[s[3]])
  <1> DEFINE r == route.sorted[s[3]]
  <1>1. s[3] \in prog.rows /\ s[2] \in StoredColumns(l, prog.columns) /\ s[1] = RowOf(l, prog, s[3])
      BY StoresAre
  <1>2. /\ r \in Routes(call) /\ s[3] = PositionOf(call, r, l.bm) /\ prog.expert = Slot(call, r)
        /\ prog.filtered = (call.filter /\ Slot(call, r) = -1)
      BY <1>1, ProgramsServe
  <1>3. s[1] = RowIn(l, r)
    <2>1. ~ (l.adds /\ l.sorted) /\ (prog.filtered => ~l.adds /\ ~l.sorted)
        BY <1>2 DEF Launches
    <2> DEFINE p == s[3]
    <2> HIDE DEF r
    <2>5. TargetRow(l, p) = IF l.adds THEN TokenOf(r) ELSE IF l.sorted THEN p ELSE r
        BY <2>1 DEF TargetRow, r
    <2>6. RowIn(l, r) = IF l.adds THEN TokenOf(r) ELSE IF l.sorted THEN PositionOf(call, r, l.bm) ELSE r
        BY DEF RowIn
    <2>7. s[1] = IF prog.filtered THEN r ELSE TargetRow(l, p)
        BY <1>1 DEF RowOf, r
    <2> HIDE DEF p
    <2>2. CASE l.adds
        BY <2>1, <2>2, <2>5, <2>6, <2>7
    <2>3. CASE ~l.adds /\ l.sorted
        BY <1>2, <2>1, <2>3, <2>5, <2>6, <2>7 DEF p
    <2>4. CASE ~l.adds /\ ~l.sorted
        BY <2>1, <2>4, <2>5, <2>6, <2>7
    <2> QED
        BY <2>2, <2>3, <2>4
  <1>4. s[2] \in Width(l)
    <2>1. prog.columns \subseteq 0 .. l.n - 1
        BY ProgramsAre DEF Programs, IsProgram
    <2> QED
        BY <1>1, <2>1 DEF StoredColumns, Width
  <1> QED
      BY <1>2, <1>3, <1>4 DEF IsStoreOf

\* Every route is stored, but for a remote one by an epilogue that applies the activation.
LEMMA RoutesAreStored ==
  ASSUME NEW l, Launches(l), NEW r \in Routes(call), NEW j \in Width(l),
         ~ (l.fused /\ call.filter /\ Slot(call, r) = -1)
  PROVE  \E prog \in Programs(l) : \E s \in Stores(l, prog) :
            s[1] = RowIn(l, r) /\ s[2] = j /\ route.sorted[s[3]] = r
  <1> DEFINE p == PositionOf(call, r, l.bm)  i == IF l.fused THEN 2 * j ELSE j
             row(prog) == IF prog.filtered THEN ZeroRow(p) ELSE TargetRow(l, p)
  <1>1. i \in 0 .. l.n - 1
      BY DEF Width
  <1> HIDE DEF i
  <1>2. PICK prog \in Programs(l) : p \in prog.rows /\ route.sorted[p] = r /\ i \in prog.columns
      BY <1>1, RoutesHavePrograms
  <1> HIDE DEF p
  <1>3. prog.filtered = (call.filter /\ Slot(call, r) = -1)
      BY <1>2, ProgramsServe
  <1>4. j \in StoredColumns(l, prog.columns)
      BY <1>2 DEF StoredColumns, Width, i
  <1> DEFINE s == <<row(prog), j, p>>
  <1>5. s \in Stores(l, prog)
    <2>1. CASE prog.filtered
      <3>1. ~l.fused /\ j \in prog.columns
          BY <1>3, <1>4, <2>1 DEF StoredColumns
      <3> QED
          BY <1>2, <2>1, <3>1 DEF Stores
    <2>2. CASE ~prog.filtered
        BY <1>2, <1>4, <2>2 DEF Stores
    <2> QED
        BY <2>1, <2>2
  <1>6. s[1] = row(prog) /\ s[2] = j /\ s[3] = p
      OBVIOUS
  <1> HIDE DEF s, row
  <1>7. IsStoreOf(l, prog, s, r)
      BY <1>2, <1>5, <1>6, StoresAreOfRoutes
  <1> QED
      BY <1>2, <1>5, <1>6, <1>7 DEF IsStoreOf
-----------------------------------------------------------------------------
(* What the stores of a launch leave in its buffer.                        *)

LEMMA AnyOfIs ==
  ASSUME NEW options, NEW f \in AnyOf(options), NEW x \in DOMAIN options, options[x] # {}
  PROVE  f[x] \in options[x]
  <1> DEFINE contested == {y \in DOMAIN options : Cardinality(options[y]) > 1}
             picks == {g \in [contested -> UNION {options[y] : y \in contested}] :
                          \A y \in contested : g[y] \in options[y]}
  <1>1. PICK g \in picks : f = [y \in DOMAIN options |->
                                   IF y \in contested THEN g[y] ELSE CHOOSE v \in options[y] : TRUE]
      BY DEF AnyOf
  <1>2. x \in contested => g[x] \in options[x]
      BY <1>1
  <1> HIDE DEF contested, picks
  <1>3. f[x] = IF x \in contested THEN g[x] ELSE CHOOSE v \in options[x] : TRUE
      BY <1>1
  <1>4. (CHOOSE v \in options[x] : TRUE) \in options[x]
    <2>1. \E v \in options[x] : TRUE
        OBVIOUS
    <2> QED
        BY <2>1
  <1> QED
      BY <1>2, <1>3, <1>4

LEMMA WrittenIs ==
  ASSUME NEW stored, NEW buffer, NEW f \in Written(stored, buffer), NEW x \in DOMAIN buffer
  PROVE  \/ f[x] = buffer[x] /\ \A t \in stored : t.cell # x
         \/ \E t \in stored : t.cell = x /\ f[x] = t.value
  <1> DEFINE V(y) == {s.value : s \in {t \in stored : t.cell = y}}
             values == [y \in DOMAIN buffer |-> V(y)]
             options == [y \in DOMAIN buffer |-> IF values[y] = {} THEN {buffer[y]} ELSE values[y]]
  <1>1. f \in AnyOf(options)
      BY DEF Written
  <1>2. DOMAIN options = DOMAIN buffer /\ options[x] = IF V(x) = {} THEN {buffer[x]} ELSE V(x)
      OBVIOUS
  <1> HIDE DEF options
  <1>3. f[x] \in options[x]
    <2>1. options[x] # {}
        BY <1>2
    <2> QED
        BY <1>1, <1>2, <2>1, AnyOfIs
  <1> QED
      BY <1>2, <1>3

LEMMA AddedIs ==
  ASSUME NEW stored, NEW buffer, NEW f \in Added(stored, buffer), NEW x \in DOMAIN buffer,
         \A t \in stored : t.cell = x => t.value # Zero
  PROVE  f[x] = buffer[x] (+) SetToBag({t.value : t \in {s \in stored : s.cell = x}})
  <1> DEFINE V(y) == {s.value : s \in {t \in stored : t.cell = y}}
             values == [y \in DOMAIN buffer |-> V(y)]
             O(y) == LET terms == values[y] \ {Zero}
                     IN  IF Zero \in values[y] THEN {SetToBag(k) : k \in SUBSET terms}
                                               ELSE {buffer[y] (+) SetToBag(terms)}
             options == [y \in DOMAIN buffer |-> O(y)]
  <1>1. f \in AnyOf(options)
      BY DEF Added
  <1>2. Zero \notin V(x) /\ V(x) \ {Zero} = V(x) /\ values[x] = V(x)
      OBVIOUS
  <1>3. O(x) = {buffer[x] (+) SetToBag(V(x))}
    <2> HIDE DEF V, values
    <2> QED
        BY <1>2
  <1> HIDE DEF O
  <1>4. DOMAIN options = DOMAIN buffer /\ options[x] = O(x)
      OBVIOUS
  <1> HIDE DEF options
  <1>5. f[x] \in options[x]
      BY <1>1, <1>3, <1>4, AnyOfIs
  <1> QED
      BY <1>3, <1>4, <1>5

-----------------------------------------------------------------------------
(* What a route contributes.                                               *)

\* The calls of which the result is the mixture: no zeros of remote experts meet sums or
\* sorted rows, and there are none without the filter; one route is scaled where it is
\* summed; gate and up are read as they are stored; every rank has one shared expert.
Handled ==
    /\ NoRemoteZeros /\ StepsFit
    /\ \A c \in Calls :
          /\ ~c.filter => \A r \in Routes(c) : Slot(c, r) # -1
          /\ Topk(c) = 1 /\ c.scaled /\ ~c.noCombine => c.hooks
          /\ c.alpha /\ c.core => c.pairs
          /\ c.deepep => c.shared = 1

LEMMA ExactIs ==
  ASSUME StepsFit, NEW c \in Calls
  PROVE  UpLaunch(c).exact = TRUE /\ DownLaunch(c).exact = TRUE
  <1>1. \A dot, k, g : ExactDot(dot, k, g) \in BOOLEAN
      BY DEF ExactDot
  <1>2. \A k, step : DotIsExact(c, k, step) \in BOOLEAN
    <2>1. c.kind \in {"bf16", "fp8", "int4", "fp2"}
        BY MoeAssumption
    <2> QED
        BY <1>1, <2>1 DEF DotIsExact
  <1>3. UpLaunch(c).exact \in BOOLEAN /\ DownLaunch(c).exact \in BOOLEAN
      BY <1>2 DEF UpLaunch, DownLaunch
  <1>4. UpLaunch(c).exact /\ DownLaunch(c).exact
      BY DotsAreExact
  <1> QED
      BY <1>3, <1>4

LEMMA TokensAre ==
  ASSUME call \in Calls, NEW r \in Routes(call)
  PROVE  /\ TokenOf(r) \in 0 .. Tokens - 1 /\ TokenOf(r) \in Nat
         /\ r % Topk(call) \in 0 .. Topk(call) - 1
         /\ r = TokenOf(r) * Topk(call) + (r % Topk(call))
  <1> DEFINE k == Topk(call)  q == r \div k
  <1>1. k \in Nat \ {0} /\ Tokens \in Nat \ {0} /\ r \in Nat /\ r < Tokens * k
      BY RoutesAre, MoeAssumption
  <1> HIDE DEF k
  <1>2. q \in Nat /\ 0 * k <= r /\ q < Tokens /\ r % k \in 0 .. k - 1 /\ r = q * k + (r % k)
    <2>1. 0 * k <= r /\ Tokens \in Nat /\ 0 \in Nat
        BY <1>1
    <2>2. r \div k \in Nat /\ r \div k < Tokens
        BY <1>1, <2>1, QuotientIsBetween
    <2>3. r % k \in 0 .. k - 1 /\ r = (r \div k) * k + (r % k)
        BY <1>1, Division
    <2> QED
        BY <2>1, <2>2, <2>3
  <1> HIDE DEF q
  <1>3. q \in 0 .. Tokens - 1
      BY <1>1, <1>2
  <1> QED
      BY <1>2, <1>3 DEF TokenOf, k, q

\* The slot of a local route holds the weights of its own expert; that of a remote one is -1.
LEMMA ExpertsAreOwn ==
  ASSUME Handled, call \in Calls, NEW r \in Routes(call)
  PROVE  /\ Slot(call, r) # -1 => /\ ExpertAt(Slot(call, r)) = OwnExpert(r)
                                  /\ OwnExpert(r) \in {"routed", "shared"} \X Nat
         /\ Slot(call, r) = -1 => OwnExpert(r)[2] = -1
  <1> DEFINE i == r % Topk(call)  e == Routed(call, r)  s == Slot(call, r)  h == call.shared  k == call.k
  <1>1. /\ i \in Nat /\ i < k + h /\ h \in 0 .. Experts /\ k \in Nat \ {0} /\ s \in -1 .. Experts - 1
        /\ i < k => e \in -1 .. Experts - h - 1
        /\ Experts \in Nat \ {0} /\ PerRank \in Nat \ {0} /\ SharedRank \in Nat
    <2>1. i \in 0 .. Topk(call) - 1 /\ Topk(call) = k + h
      <3>1. i \in 0 .. Topk(call) - 1
          BY TokensAre
      <3>2. Topk(call) = k + h
          BY DEF Topk
      <3> QED
          BY <3>1, <3>2
    <2>2. h \in 0 .. Experts /\ k \in Nat \ {0} /\ s \in -1 .. Experts - 1
            /\ (i < k => e \in -1 .. Experts - h - 1)
        BY MoeAssumption
    <2>3. Experts \in Nat \ {0} /\ PerRank \in Nat \ {0} /\ SharedRank \in Nat
        BY MoeAssumption
    <2> HIDE DEF i, e, s, h, k
    <2> QED
        BY <2>1, <2>2, <2>3
  <1>2. OwnExpert(r) = IF i < k THEN <<"routed", e>> ELSE <<"shared", i - k>>
      BY DEF OwnExpert
  <1>3. s = IF i < k THEN Remapped(call, e) ELSE SharedBase(call) + i - k
      BY DEF Slot
  <1>4. CASE ~call.deepep
    <2>1. /\ Remapped(call, e) = e /\ SharedBase(call) = Experts - h
          /\ ExpertAt(s) = LET rank == s \div Experts
                               x    == s % Experts
                           IN  IF x < Experts - h THEN <<"routed", rank * (Experts - h) + x>>
                                                  ELSE <<"shared", x - (Experts - h)>>
        BY <1>4 DEF Remapped, SharedBase, ExpertAt
    <2>2. s # -1 => s \div Experts = 0 /\ s % Experts = s
      <3> HIDE DEF s
      <3> QED
          BY <1>1
    <2>3. 0 * (Experts - h) = 0
        BY <1>1
    <2> HIDE DEF i, e, s, h, k
    <2>4. CASE i < k
      <3>1. s = e
          BY <1>3, <2>1, <2>4
      <3>2. s # -1 => ExpertAt(s) = <<"routed", s>> /\ s \in Nat
          BY <1>1, <2>1, <2>2, <2>3, <2>4, <3>1
      <3> QED
          BY <1>2, <2>4, <3>1, <3>2 DEF s
    <2>5. CASE ~ (i < k)
      <3>1. s = Experts - h + i - k
          BY <1>3, <2>1, <2>5
      <3>2. s # -1 /\ i - k \in Nat /\ ~ (s < Experts - h) /\ s - (Experts - h) = i - k
          BY <1>1, <2>5, <3>1
      <3>3. ExpertAt(s) = <<"shared", i - k>>
        <4>1. s % Experts = s
            BY <2>2, <3>2
        <4> QED
            BY <2>1, <3>2, <4>1
      <3> QED
          BY <1>2, <2>5, <3>2, <3>3 DEF s
    <2> QED
        BY <2>4, <2>5
  <1>5. CASE call.deepep
    <2>0. h = 1
        BY <1>5 DEF Handled
    <2> DEFINE w == PerRank + 1
    <2>1. /\ Remapped(call, e) = e + e \div PerRank /\ SharedBase(call) = SharedRank * w + PerRank
          /\ ExpertAt(s) = LET rank == s \div w
                               x    == s % w
                           IN  IF x < w - 1 THEN <<"routed", rank * (w - 1) + x>>
                                            ELSE <<"shared", x - (w - 1)>>
        BY <1>5, <2>0 DEF Remapped, SharedBase, ExpertAt
    <2>2. w \in Nat \ {0} /\ w - 1 = PerRank
        BY <1>1
    <2> HIDE DEF i, e, s, h, k
    <2>4. CASE i < k
      <3>1. s = e + e \div PerRank /\ e \in Int
          BY <1>1, <1>3, <2>1, <2>4
      <3>2. e # -1
        <4> SUFFICES ASSUME e = -1 PROVE FALSE
            OBVIOUS
        <4>1. (-1) \div PerRank = -1
            BY <1>1
        <4> QED
            BY <1>1, <3>1, <4>1
      <3>3. e \in Nat
          BY <1>1, <2>4, <3>2
      <3> DEFINE q == e \div PerRank  o == e % PerRank
      <3>4. q \in Nat /\ o \in 0 .. PerRank - 1 /\ e = q * PerRank + o
          BY <1>1, <3>3, Division
      <3>5. s = q * w + o /\ q * w \in Nat
        <4>1. q * w = q * PerRank + q /\ q * PerRank \in Nat
          <5> HIDE DEF q
          <5> QED
              BY <1>1, <3>4
        <4> HIDE DEF o
        <4> DEFINE y == q * w  z == q * PerRank
        <4>2. y = z + q /\ z \in Nat /\ e = z + o /\ s = e + q
            BY <3>1, <3>4, <4>1
        <4> HIDE DEF w, y, z, q
        <4>3. s = y + o /\ y \in Nat
            BY <1>1, <3>4, <4>2
        <4> QED
            BY <4>3 DEF y
      <3> HIDE DEF q, o
      <3>6. s \div w = q /\ s % w = o
        <4>1. o \in 0 .. w - 1
            BY <1>1, <3>4
        <4> HIDE DEF w
        <4> QED
            BY <2>2, <3>4, <3>5, <4>1, Divided
      <3>7. ExpertAt(s) = <<"routed", q * PerRank + o>>
        <4>1. o < w - 1
            BY <2>2, <1>1, <3>4
        <4> HIDE DEF w
        <4> QED
            BY <2>1, <2>2, <3>6, <4>1
      <3>8. s # -1
        <4> DEFINE y == q * w
        <4> HIDE DEF y
        <4>1. s = y + o /\ y \in Nat
            BY <3>5 DEF y
        <4> QED
            BY <1>1, <3>4, <4>1
      <3> QED
          BY <1>2, <2>4, <3>3, <3>4, <3>7, <3>8 DEF s
    <2>5. CASE ~ (i < k)
      <3>1. i - k = 0 /\ SharedRank * w \in Nat
        <4>1. i - k = 0
            BY <1>1, <2>0, <2>5
        <4> HIDE DEF w
        <4> QED
            BY <1>1, <2>2, <4>1, Times
      <3>2. s = SharedRank * w + PerRank
        <4> DEFINE y == SharedRank * w
        <4>1. s = y + PerRank + i - k /\ y \in Nat
            BY <1>3, <2>1, <2>5, <3>1
        <4> HIDE DEF y
        <4>2. s = y + PerRank
            BY <1>1, <3>1, <4>1
        <4> QED
            BY <4>2 DEF y
      <3>3. s \div w = SharedRank /\ s % w = PerRank
        <4>1. PerRank \in 0 .. w - 1
            BY <1>1
        <4> HIDE DEF w
        <4> QED
            BY <1>1, <2>2, <3>2, <4>1, Divided
      <3>4. ExpertAt(s) = <<"shared", 0>>
        <4>1. ~ (PerRank < w - 1) /\ PerRank - (w - 1) = 0
            BY <1>1
        <4> HIDE DEF w
        <4> QED
            BY <2>1, <3>3, <4>1
      <3>5. s # -1
        <4> DEFINE y == SharedRank * w
        <4>1. s = y + PerRank /\ y \in Nat
            BY <3>1, <3>2
        <4> HIDE DEF y
        <4> QED
            BY <1>1, <4>1
      <3> QED
          BY <1>2, <2>5, <3>1, <3>4, <3>5 DEF s
    <2> QED
        BY <2>4, <2>5
  <1> QED
      BY <1>4, <1>5
\* The cell of the up-GEMM for a row of w13, and the activation, of route r.
UpRecord(r, row) ==
    [token |-> TokenOf(r), expert |-> OwnExpert(r), row |-> row,
     weights |-> IF call.onInput THEN {r} ELSE {}, exact |-> TRUE]
ActTerm(r, i) == [gate |-> UpRecord(r, <<"gate", i>>), up |-> UpRecord(r, <<"up", i>>)]

LEMMA RecordsAreCells ==
  ASSUME Handled, call \in Calls, NEW r \in Routes(call), Slot(call, r) # -1,
         NEW row \in {"gate", "up"} \X Nat
  PROVE  UpRecord(r, row) \in UpCells
  <1>1. TokenOf(r) \in Nat /\ OwnExpert(r) \in {"routed", "shared"} \X Int /\ r \in Nat
    <2>1. OwnExpert(r) \in {"routed", "shared"} \X Nat
        BY ExpertsAreOwn
    <2> QED
        BY <2>1, TokensAre, RoutesAre
  <1>2. (IF call.onInput THEN {r} ELSE {}) \in SUBSET Nat
      BY <1>1
  <1> QED
      BY <1>1, <1>2 DEF UpRecord, UpCells

LEMMA ActOfCells ==
  ASSUME NEW g \in UpCells, NEW u \in UpCells
  PROVE  Act(g, u) = [gate |-> g, up |-> u]
  <1>1. Zero \notin UpCells /\ Empty \notin UpCells
      BY MoeAssumption
  <1>2. ~ (Empty \in {g, u}) /\ ~ (Zero \in {g, u})
      BY <1>1
  <1> QED
      BY <1>2 DEF Act

LEMMA RowsOfWeights ==
  ASSUME NEW i \in 0 .. Inner - 1
  PROVE  /\ call.pairs => WeightRow(2 * i) = <<"gate", i>> /\ WeightRow(2 * i + 1) = <<"up", i>>
         /\ ~call.pairs => WeightRow(i) = <<"gate", i>> /\ WeightRow(Inner + i) = <<"up", i>>
  <1>0. Inner \in Nat \ {0} /\ i \in Nat
      BY MoeAssumption
  <1>1. (2 * i) % 2 = 0 /\ (2 * i) \div 2 = i /\ (2 * i + 1) % 2 = 1 /\ (2 * i + 1) \div 2 = i
      BY <1>0
  <1>2. i < Inner /\ ~ (Inner + i < Inner)
      BY <1>0
  <1>3. i % Inner = i /\ (Inner + i) % Inner = i
    <2>1. (0 * Inner + i) % Inner = i /\ (1 * Inner + i) % Inner = i
      <3>1. 0 \in Nat /\ 1 \in Nat
          OBVIOUS
      <3> QED
          BY <1>0, <3>1, Divided
    <2>2. 0 * Inner + i = i /\ 1 * Inner + i = Inner + i
        BY <1>0
    <2> QED
        BY <2>1, <2>2
  <1>4. ~ (1 = 0)
      OBVIOUS
  <1> QED
      BY <1>1, <1>2, <1>3, <1>4 DEF WeightRow

\* The row of the first two buffers of a route, and what the up-GEMM leaves in its columns.
UpRow(r) == RowIn(UpLaunch(call), r)
UpResult(r, j) ==
    IF call.fused THEN Act(UpRecord(r, WeightRow(2 * j)), UpRecord(r, WeightRow(2 * j + 1)))
                  ELSE UpRecord(r, WeightRow(j))

\* A store of a local route by the up-GEMM.
LEMMA UpStores ==
  ASSUME Handled, call \in Calls, Launches(UpLaunch(call)), NEW prog \in Programs(UpLaunch(call)),
         NEW s \in Stores(UpLaunch(call), prog), NEW r, r = route.sorted[s[3]], Slot(call, r) # -1
  PROVE  UpValue(UpLaunch(call), prog, s) = UpResult(r, s[2])
  <1> DEFINE l == UpLaunch(call)
  <1>1. r \in Routes(call) /\ prog.expert = Slot(call, r) /\ ~prog.filtered
    <2>1. IsStoreOf(l, prog, s, r)
        BY StoresAreOfRoutes
    <2> QED
        BY <2>1 DEF IsStoreOf
  <1>2. ExpertAt(prog.expert) = OwnExpert(r)
      BY <1>1, ExpertsAreOwn
  <1>3. l.exact = TRUE /\ l.weighted = call.onInput /\ l.fused = call.fused
    <2>1. l.weighted = call.onInput /\ l.fused = call.fused
        BY DEF UpLaunch
    <2> QED
        BY <2>1, ExactIs DEF Handled
  <1> HIDE DEF l
  <1>4. \A n : UpCell(l, prog, s[3], n) = UpRecord(r, WeightRow(n))
      BY <1>2, <1>3 DEF UpCell, UpRecord, Weights
  <1>5. UpValue(l, prog, s) = IF call.fused THEN Act(UpCell(l, prog, s[3], 2 * s[2]), UpCell(l, prog, s[3], 2 * s[2] + 1))
                                            ELSE UpCell(l, prog, s[3], s[2])
      BY <1>1, <1>3 DEF UpValue
  <1> QED
      BY <1>4, <1>5 DEF UpResult, l

\* Routes have rows of their own where nothing is added.
LEMMA RowsDiffer ==
  ASSUME NEW l, Launches(l), ~l.adds, NEW r \in Routes(call), NEW q \in Routes(call), RowIn(l, r) = RowIn(l, q)
  PROVE  r = q
  <1>1. call \in Calls /\ l.bm \in Nat \ {0}
      BY DEF Launches, IsLaunch
  <1>2. \A x : RowIn(l, x) = IF l.sorted THEN PositionOf(call, x, l.bm) ELSE x
      BY DEF RowIn
  <1>3. CASE l.sorted
    <2>1. PositionOf(call, r, l.bm) = PositionOf(call, q, l.bm)
        BY <1>2, <1>3
    <2> QED
        BY <1>1, <2>1, PositionsDiffer
  <1>4. CASE ~l.sorted
      BY <1>2, <1>4
  <1> QED
      BY <1>3, <1>4

LEMMA UpIsOwn ==
  ASSUME Handled, MoeInv, phase = "up", UpGemm,
         NEW r \in Routes(call), Slot(call, r) # -1, NEW j \in Width(UpLaunch(call))
  PROVE  c1'[<<UpRow(r), j>>] = UpResult(r, j)
  <1> DEFINE l == UpLaunch(call)  stored == StoredBy(l, UpValue)  x == <<RowIn(l, r), j>>
  <1>1. call \in Calls /\ Launches(l) /\ c1' \in Written(stored, c1)
      BY UpLaunches DEF MoeInv, UpGemm, Handled
  <1>2. l.adds = FALSE
      BY <1>1, LaunchesAre
  <1>3. \A t \in stored : \E prog \in Programs(l) : \E s \in Stores(l, prog) :
            t.cell = <<s[1], s[2]>> /\ t.value = UpValue(l, prog, s)
      BY DEF StoredBy
  <1>4. \A prog \in Programs(l) : \A s \in Stores(l, prog) :
            [cell |-> <<s[1], s[2]>>, value |-> UpValue(l, prog, s)] \in stored
    <2> HIDE DEF l
    <2> TAKE prog \in Programs(l)
    <2> DEFINE F(p) == {[cell |-> <<s[1], s[2]>>, value |-> UpValue(l, p, s)] : s \in Stores(l, p)}
    <2>1. F(prog) \subseteq stored
      <3>1. stored = UNION {F(p) : p \in Programs(l)}
          BY DEF StoredBy
      <3> HIDE DEF F, stored
      <3> QED
          BY <3>1
    <2> QED
        BY <2>1
  <1>5. PICK prog \in Programs(l) : \E s \in Stores(l, prog) :
            s[1] = RowIn(l, r) /\ s[2] = j /\ route.sorted[s[3]] = r
      BY <1>1, RoutesAreStored
  <1>6. PICK s \in Stores(l, prog) : s[1] = RowIn(l, r) /\ s[2] = j /\ route.sorted[s[3]] = r
      BY <1>5
  <1>7. x \in DOMAIN c1
    <2>1. <<s[1], s[2]>> \in DOMAIN c1
        BY UpStoresFit DEF Handled
    <2> QED
        BY <1>6, <2>1
  <1>8. \E t \in stored : t.cell = x
    <2> DEFINE t == [cell |-> <<s[1], s[2]>>, value |-> UpValue(l, prog, s)]
    <2>1. t \in stored /\ t.cell = x
        BY <1>4, <1>6
    <2> HIDE DEF t, stored, x
    <2> QED
        BY <2>1
  <1> HIDE DEF stored, x
  <1>9. PICK t \in stored : t.cell = x /\ c1'[x] = t.value
      BY <1>1, <1>7, <1>8, WrittenIs
  <1>10. PICK p2 \in Programs(l) : \E s2 \in Stores(l, p2) :
            t.cell = <<s2[1], s2[2]>> /\ t.value = UpValue(l, p2, s2)
      BY <1>3
  <1>11. PICK s2 \in Stores(l, p2) : t.cell = <<s2[1], s2[2]>> /\ t.value = UpValue(l, p2, s2)
      BY <1>10
  <1>12. s2[1] = RowIn(l, r) /\ s2[2] = j
      BY <1>9, <1>11 DEF x
  <1> DEFINE q == route.sorted[s2[3]]
  <1>13. q \in Routes(call) /\ s2[1] = RowIn(l, q)
    <2>1. IsStoreOf(l, p2, s2, q)
        BY <1>1, StoresAreOfRoutes
    <2> QED
        BY <2>1 DEF IsStoreOf
  <1>14. q = r
    <2> HIDE DEF l, q
    <2> QED
        BY <1>1, <1>2, <1>12, <1>13, RowsDiffer
  <1>15. UpValue(l, p2, s2) = UpResult(r, s2[2])
      BY <1>1, <1>14, UpStores
  <1> QED
      BY <1>9, <1>11, <1>12, <1>15 DEF x, UpRow
\* What the buffers hold for the local routes after the up-GEMM and after the activation.
UpHolds ==
    \A r \in Routes(call) : Slot(call, r) # -1 =>
        \A j \in Width(UpLaunch(call)) : c1[<<UpRow(r), j>>] = UpResult(r, j)
ActHolds ==
    \A r \in Routes(call) : Slot(call, r) # -1 =>
        \A i \in 0 .. Inner - 1 : c2[<<UpRow(r), i>>] = ActTerm(r, i)

LEMMA UpRowsAre ==
  ASSUME call \in Calls, NEW r \in Routes(call), route = Align(call, UpLaunch(call).bm)
  PROVE  /\ UpRow(r) = IF Sorted(call) THEN PositionOf(call, r, UpLaunch(call).bm) ELSE r
         /\ UpRow(r) \in CacheRows
  <1> DEFINE l == UpLaunch(call)  bm == l.bm
  <1>1. l.adds = FALSE /\ l.sorted = Sorted(call) /\ bm \in Nat \ {0}
      BY LaunchesAre DEF IsLaunch
  <1> HIDE DEF l
  <1>2. UpRow(r) = IF Sorted(call) THEN PositionOf(call, r, bm) ELSE r
      BY <1>1 DEF UpRow, RowIn, l
  <1>3. PositionOf(call, r, bm) \in 0 .. route.rows - 1
    <2> DEFINE n == Tokens * Topk(call)  w == Least(Tokens * Topk(call), Experts + 1) * (bm - 1)
    <2>1. PositionOf(call, r, bm) \in 0 .. n + w - 1
        BY <1>1, PositionsFit
    <2>2. route.rows = n + w
        BY <1>1, AlignmentIs DEF l
    <2>3. n \in Nat \ {0}
        BY RoutesAre
    <2>4. w \in Nat
      <3> DEFINE h == Least(n, Experts + 1)
      <3> HIDE DEF n
      <3>1. h \in Nat
          BY <2>3, MoeAssumption DEF Least
      <3> HIDE DEF h
      <3>2. h * (bm - 1) \in Nat
          BY <1>1, <3>1, Times
      <3> QED
          BY <3>2 DEF h, n
    <2> HIDE DEF n, w, bm
    <2> QED
        BY <2>1, <2>2, <2>3, <2>4
  <1>4. r \in 0 .. RouteCount - 1
      BY DEF RouteCount, Routes
  <1> QED
      BY <1>2, <1>3, <1>4 DEF CacheRows, l

LEMMA WidthOfUp ==
  ASSUME call \in Calls
  PROVE  Width(UpLaunch(call)) = IF call.fused THEN 0 .. Inner - 1 ELSE 0 .. 2 * Inner - 1
  <1>1. UpLaunch(call).n = 2 * Inner /\ UpLaunch(call).fused = call.fused /\ Inner \in Nat
      BY LaunchesAre, MoeAssumption
  <1>2. \A j \in 0 .. Inner - 1 : 2 * j \in 0 .. 2 * Inner - 1
      BY <1>1
  <1> QED
      BY <1>1, <1>2 DEF Width

LEMMA ActIsOwn ==
  ASSUME Handled, MoeInv, phase = "activate", UpHolds, Activate,
         NEW r \in Routes(call), Slot(call, r) # -1, NEW i \in 0 .. Inner - 1
  PROVE  c2'[<<UpRow(r), i>>] = ActTerm(r, i)
  <1> DEFINE row == UpRow(r)
  <1>1. call \in Calls /\ route = Align(call, UpLaunch(call).bm)
      BY DEF MoeInv
  <1>2. row \in CacheRows /\ row = IF Sorted(call) THEN PositionOf(call, r, UpLaunch(call).bm) ELSE r
      BY <1>1, UpRowsAre
  <1>3. c2' = [x \in CacheRows \X (0 .. Inner - 1) |-> Activated(x[1], x[2])]
      BY DEF Activate
  <1>4. \A j \in Width(UpLaunch(call)) : c1[<<row, j>>] = UpResult(r, j)
      BY DEF UpHolds
  <1> HIDE DEF row
  <1>5. c2'[<<row, i>>] = Activated(row, i)
      BY <1>2, <1>3
  <1>6. \A w \in {"gate", "up"} : UpRecord(r, <<w, i>>) \in UpCells
    <2> TAKE w \in {"gate", "up"}
    <2>1. <<w, i>> \in {"gate", "up"} \X Nat
        BY MoeAssumption
    <2> QED
        BY <1>1, <2>1, RecordsAreCells
  <1>7. Act(UpRecord(r, <<"gate", i>>), UpRecord(r, <<"up", i>>)) = ActTerm(r, i)
    <2>1. UpRecord(r, <<"gate", i>>) \in UpCells /\ UpRecord(r, <<"up", i>>) \in UpCells
        BY <1>6
    <2> QED
        BY <2>1, ActOfCells DEF ActTerm
  <1>8. /\ i \in 0 .. Inner - 1 /\ 2 * i \in 0 .. 2 * Inner - 1 /\ 2 * i + 1 \in 0 .. 2 * Inner - 1
        /\ i \in 0 .. 2 * Inner - 1 /\ Inner + i \in 0 .. 2 * Inner - 1
      BY MoeAssumption
  <1>9. /\ call.fused => call.pairs
        /\ call.pairs => call.fused \/ call.alpha
        /\ call.alpha /\ call.core => call.pairs
        /\ call.filter => ~Sorted(call)
    <2>1. Accepted(call)
        BY <1>1, MoeAssumption
    <2> QED
        BY <1>1, <2>1 DEF Accepted, Handled, NoRemoteZeros
  <1>10. CASE call.fused
    <2>1. i \in Width(UpLaunch(call))
        BY <1>1, <1>8, <1>10, WidthOfUp
    <2>2. c1[<<row, i>>] = Act(UpRecord(r, WeightRow(2 * i)), UpRecord(r, WeightRow(2 * i + 1)))
        BY <1>4, <1>10, <2>1 DEF UpResult
    <2>3. WeightRow(2 * i) = <<"gate", i>> /\ WeightRow(2 * i + 1) = <<"up", i>>
        BY <1>9, <1>10, RowsOfWeights
    <2>4. Activated(row, i) = c1[<<row, i>>]
        BY <1>10 DEF Activated
    <2> QED
        BY <1>5, <1>7, <2>2, <2>3, <2>4 DEF row
  <1>11. CASE ~call.fused
    <2>1. \A j \in 0 .. 2 * Inner - 1 : c1[<<row, j>>] = UpRecord(r, WeightRow(j))
        BY <1>1, <1>4, <1>11, WidthOfUp DEF UpResult
    <2>2. ~Skipped(row)
      <3> SUFFICES ASSUME call.filter PROVE RowExpert(row) # -1
          BY DEF Skipped
      <3> QED
          BY <1>2, <1>9 DEF RowExpert
    <2>3. CASE AdjacentPairs
      <3>1. Activated(row, i) = Act(c1[<<row, 2 * i>>], c1[<<row, 2 * i + 1>>])
          BY <1>11, <2>2, <2>3 DEF Activated
      <3>2. call.pairs
          BY <1>9, <2>3 DEF AdjacentPairs
      <3> QED
          BY <1>5, <1>7, <1>8, <2>1, <3>1, <3>2, RowsOfWeights DEF row
    <2>4. CASE ~AdjacentPairs
      <3>1. Activated(row, i) = Act(c1[<<row, i>>], c1[<<row, Inner + i>>])
          BY <1>11, <2>2, <2>4 DEF Activated
      <3>2. ~call.pairs
          BY <1>9, <1>11, <2>4 DEF AdjacentPairs
      <3> QED
          BY <1>5, <1>7, <1>8, <2>1, <3>1, <3>2, RowsOfWeights DEF row
    <2> QED
        BY <2>3, <2>4
  <1> QED
      BY <1>10, <1>11

\* The term of a route in a column, a zero where the route is remote.
RouteValue(r, j) == IF Slot(call, r) # -1 THEN RouteTerm(r, j) ELSE Zero

LEMMA RouteTermIs ==
  ASSUME NEW r, NEW j
  PROVE  RouteTerm(r, j) =
            [in |-> [i \in 0 .. Inner - 1 |-> ActTerm(r, i)], expert |-> OwnExpert(r), column |-> j,
             weights |-> IF call.onInput \/ call.noCombine THEN {} ELSE {r}, exact |-> TRUE]
  BY DEF RouteTerm, ActTerm, UpRecord

LEMMA RouteTermsAreTerms ==
  ASSUME Handled, call \in Calls, NEW r \in Routes(call), Slot(call, r) # -1, NEW j \in Nat
  PROVE  RouteTerm(r, j) \in Terms /\ RouteTerm(r, j) # Zero /\ RouteTerm(r, j) # Empty
  <1> DEFINE f == [i \in 0 .. Inner - 1 |-> ActTerm(r, i)]
             w == IF call.onInput \/ call.noCombine THEN {} ELSE {r}
             t == [in |-> f, expert |-> OwnExpert(r), column |-> j, weights |-> w, exact |-> TRUE]
  <1>1. ASSUME NEW i \in 0 .. Inner - 1 PROVE ActTerm(r, i) \in [gate : UpCells, up : UpCells]
    <2>1. <<"gate", i>> \in {"gate", "up"} \X Nat /\ <<"up", i>> \in {"gate", "up"} \X Nat
        BY MoeAssumption
    <2>2. UpRecord(r, <<"gate", i>>) \in UpCells /\ UpRecord(r, <<"up", i>>) \in UpCells
        BY <2>1, RecordsAreCells
    <2> QED
        BY <2>2 DEF ActTerm
  <1>2. f \in [0 .. Inner - 1 -> [gate : UpCells, up : UpCells]]
      BY <1>1
  <1>3. OwnExpert(r) \in {"routed", "shared"} \X Int /\ w \in SUBSET Nat
    <2>1. OwnExpert(r) \in {"routed", "shared"} \X Nat
        BY ExpertsAreOwn
    <2>2. r \in Nat
        BY RoutesAre
    <2> QED
        BY <2>1, <2>2
  <1> HIDE DEF f, w
  <1>4. t \in Terms
      BY <1>2, <1>3 DEF Terms
  <1>5. RouteTerm(r, j) = t
      BY RouteTermIs DEF f, w
  <1>6. Zero \notin Terms /\ Empty \notin Terms
      BY MoeAssumption
  <1> QED
      BY <1>4, <1>5, <1>6

\* The down-GEMM stores a route's value.
LEMMA DownStores ==
  ASSUME Handled, MoeInv, phase = "down", ActHolds, NEW prog \in Programs(DownLaunch(call)),
         NEW s \in Stores(DownLaunch(call), prog), NEW r, r = route.sorted[s[3]]
  PROVE  DownValue(DownLaunch(call), prog, s) = RouteValue(r, s[2])
  <1> DEFINE l == DownLaunch(call)
  <1>1. call \in Calls /\ route = Align(call, UpLaunch(call).bm) /\ Launches(l)
      BY DownLaunches DEF MoeInv, Handled
  <1>2. /\ r \in Routes(call) /\ prog.expert = Slot(call, r) /\ s[3] = PositionOf(call, r, l.bm)
        /\ prog.filtered = (call.filter /\ Slot(call, r) = -1)
    <2>1. IsStoreOf(l, prog, s, r)
        BY <1>1, StoresAreOfRoutes
    <2> QED
        BY <2>1 DEF IsStoreOf
  <1>3. UpLaunch(call).bm = l.bm
      BY <1>1, LaunchesAre
  <1>4. CASE Slot(call, r) = -1
    <2>1. call.filter
        BY <1>1, <1>2, <1>4 DEF Handled
    <2> QED
        BY <1>2, <1>4, <2>1 DEF DownValue, RouteValue
  <1>5. CASE Slot(call, r) # -1
    <2>1. ExpertAt(prog.expert) = OwnExpert(r)
        BY <1>1, <1>2, <1>5, ExpertsAreOwn
    <2>2. l.exact = TRUE /\ l.weighted = (~call.onInput /\ ~call.noCombine)
      <3>1. l.weighted = (~call.onInput /\ ~call.noCombine)
          BY DEF DownLaunch, MulRoutedWeight
      <3> QED
          BY <1>1, <3>1, ExactIs DEF Handled
    <2> DEFINE x == IF Sorted(call) THEN s[3] ELSE route.sorted[s[3]]
    <2>3. x = UpRow(r)
        BY <1>1, <1>2, <1>3, UpRowsAre
    <2>4. [i \in 0 .. Inner - 1 |-> c2[<<x, i>>]] = [i \in 0 .. Inner - 1 |-> ActTerm(r, i)]
      <3> HIDE DEF x
      <3>1. \A i \in 0 .. Inner - 1 : c2[<<UpRow(r), i>>] = ActTerm(r, i)
          BY <1>2, <1>5 DEF ActHolds
      <3> QED
          BY <2>3, <3>1
    <2> DEFINE g == [i \in 0 .. Inner - 1 |-> c2[<<x, i>>]]
               h == [i \in 0 .. Inner - 1 |-> ActTerm(r, i)]
    <2>5. ~prog.filtered
        BY <1>2, <1>5
    <2>6. DownValue(l, prog, s) =
             [in |-> g, expert |-> ExpertAt(prog.expert), column |-> s[2],
              weights |-> Weights(l, r), exact |-> l.exact]
        BY <2>5 DEF DownValue
    <2>7. Weights(l, r) = IF call.onInput \/ call.noCombine THEN {} ELSE {r}
        BY <2>2 DEF Weights
    <2>8. RouteTerm(r, s[2]) =
             [in |-> h, expert |-> OwnExpert(r), column |-> s[2],
              weights |-> IF call.onInput \/ call.noCombine THEN {} ELSE {r}, exact |-> TRUE]
        BY RouteTermIs
    <2> HIDE DEF g, h, l
    <2>9. g = h
        BY <2>4 DEF g, h
    <2> QED
        BY <1>5, <2>1, <2>2, <2>6, <2>7, <2>8, <2>9 DEF RouteValue, l
  <1> QED
      BY <1>4, <1>5
-----------------------------------------------------------------------------
(* What the down-GEMM leaves.                                              *)

DownStored == StoredBy(DownLaunch(call), DownValue)
DownRow(r) == IF UseAllReduce(call) THEN TokenOf(r) ELSE r
Entry(r, j) == [cell |-> <<DownRow(r), j>>, value |-> RouteValue(r, j)]

LEMMA DownStoredIs ==
  ASSUME Handled, MoeInv, phase = "down", ActHolds
  PROVE  /\ \A t \in DownStored : \E r \in Routes(call) : \E j \in 0 .. Hidden - 1 : t = Entry(r, j)
         /\ \A r \in Routes(call) : \A j \in 0 .. Hidden - 1 : Entry(r, j) \in DownStored
  <1> DEFINE l == DownLaunch(call)
             F(p) == {[cell |-> <<s[1], s[2]>>, value |-> DownValue(l, p, s)] : s \in Stores(l, p)}
  <1>1. call \in Calls /\ Launches(l)
      BY DownLaunches DEF MoeInv, Handled
  <1>2. l.n = Hidden /\ l.fused = FALSE /\ l.sorted = FALSE /\ l.adds = UseAllReduce(call)
      BY <1>1, LaunchesAre
  <1>3. DownStored = UNION {F(p) : p \in Programs(l)}
      BY DEF DownStored, StoredBy
  <1>4. ASSUME NEW prog \in Programs(l), NEW s \in Stores(l, prog)
        PROVE  /\ IsStoreOf(l, prog, s, route.sorted[s[3]])
               /\ DownValue(l, prog, s) = RouteValue(route.sorted[s[3]], s[2])
      BY <1>1, StoresAreOfRoutes, DownStores
  <1> HIDE DEF l
  <1>5. Width(l) = 0 .. Hidden - 1 /\ \A r : RowIn(l, r) = DownRow(r)
    <2>1. \A r : RowIn(l, r) = IF l.adds THEN TokenOf(r) ELSE r
        BY <1>2 DEF RowIn
    <2> QED
        BY <1>2, <2>1 DEF Width, DownRow
  <1>6. ASSUME NEW prog \in Programs(l), NEW s \in Stores(l, prog)
        PROVE  /\ [cell |-> <<s[1], s[2]>>, value |-> DownValue(l, prog, s)] = Entry(route.sorted[s[3]], s[2])
               /\ route.sorted[s[3]] \in Routes(call) /\ s[2] \in 0 .. Hidden - 1
    <2> DEFINE r == route.sorted[s[3]]
    <2>1. r \in Routes(call) /\ s[1] = RowIn(l, r) /\ s[2] \in Width(l)
        BY <1>4 DEF IsStoreOf
    <2> QED
        BY <1>4, <1>5, <2>1 DEF Entry
  <1>7. ASSUME NEW t \in DownStored
        PROVE  \E r \in Routes(call) : \E j \in 0 .. Hidden - 1 : t = Entry(r, j)
    <2>1. PICK p \in Programs(l) : t \in F(p)
      <3> HIDE DEF F
      <3> QED
          BY <1>3
    <2>2. PICK s \in Stores(l, p) : t = [cell |-> <<s[1], s[2]>>, value |-> DownValue(l, p, s)]
        BY <2>1
    <2> HIDE DEF F
    <2> QED
        BY <1>6, <2>2
  <1>8. ASSUME NEW r \in Routes(call), NEW j \in 0 .. Hidden - 1
        PROVE  Entry(r, j) \in DownStored
    <2>1. PICK p \in Programs(l) : \E s \in Stores(l, p) :
              s[1] = RowIn(l, r) /\ s[2] = j /\ route.sorted[s[3]] = r
      <3>1. j \in Width(l) /\ ~l.fused
          BY <1>2, <1>5
      <3> QED
          BY <1>1, <3>1, RoutesAreStored
    <2>2. PICK s \in Stores(l, p) : s[2] = j /\ route.sorted[s[3]] = r
        BY <2>1
    <2>3. Entry(r, j) \in F(p)
      <3>1. Entry(r, j) = [cell |-> <<s[1], s[2]>>, value |-> DownValue(l, p, s)]
          BY <1>6, <2>2
      <3> QED
          BY <3>1
    <2> HIDE DEF F
    <2> QED
        BY <1>3, <2>3
  <1> QED
      BY <1>7, <1>8

LEMMA NothingAdded ==
  ASSUME NEW S PROVE SetToBag(S) (+) EmptyBag = SetToBag(S) /\ EmptyBag (+) SetToBag(S) = SetToBag(S)
  BY DEF SetToBag, EmptyBag, (+)

LEMMA OneAdded ==
  ASSUME NEW S, NEW e, e \notin S
  PROVE  SetToBag(S) (+) SetToBag({e}) = SetToBag(S \cup {e})
  BY DEF SetToBag, (+)

LEMMA EmptyIs == SetToBag({}) = EmptyBag
  BY DEF SetToBag, EmptyBag

\* What the result holds in cell x.
TermsOf(x) ==
    {RouteTerm(r, x[2]) : r \in {q \in Routes(call) :
        /\ x[1] = IF call.noCombine THEN q ELSE TokenOf(q)
        /\ OwnExpert(q)[2] # -1}}
Mixture(x) == SetToBag(TermsOf(x))

LEMMA LocalIs ==
  ASSUME Handled, call \in Calls, NEW r \in Routes(call)
  PROVE  OwnExpert(r)[2] # -1 <=> Slot(call, r) # -1
  <1>1. OwnExpert(r) \in {"routed", "shared"} \X Nat => OwnExpert(r)[2] # -1
    <2>1. \A p \in {"routed", "shared"} \X Nat : p[2] \in Nat
        OBVIOUS
    <2>2. OwnExpert(r) \in {"routed", "shared"} \X Nat => OwnExpert(r)[2] \in Nat
        BY <2>1
    <2> QED
        BY <2>2
  <1> QED
      BY <1>1, ExpertsAreOwn

LEMMA AddedIsTheMixture ==
  ASSUME Handled, MoeInv, phase = "down", ActHolds, DownGemm, UseAllReduce(call),
         out = Fill(OutCells, EmptyBag), NEW x \in OutCells
  PROVE  out'[x] = Mixture(x)
  <1>1. call \in Calls /\ ~call.noCombine /\ ~call.filter
      BY DEF MoeInv, UseAllReduce, Handled, NoRemoteZeros
  <1>2. out' \in Added(DownStored, out)
      BY DEF DownGemm, DownStored
  <1>3. x \in DOMAIN out /\ out[x] = EmptyBag
      BY DEF Fill
  <1>4. x = <<x[1], x[2]>> /\ x[2] \in 0 .. Hidden - 1
      BY DEF OutCells
  <1>5. \A r \in Routes(call) : Slot(call, r) # -1
      BY <1>1 DEF Handled
  <1>6. \A r \in Routes(call) : \A j \in 0 .. Hidden - 1 :
           /\ Entry(r, j).cell = <<TokenOf(r), j>> /\ Entry(r, j).value = RouteTerm(r, j)
           /\ RouteTerm(r, j) # Zero
    <2> TAKE r \in Routes(call)
    <2> TAKE j \in 0 .. Hidden - 1
    <2>1. j \in Nat
        BY MoeAssumption
    <2> QED
        BY <1>1, <1>5, <2>1, RouteTermsAreTerms DEF Entry, DownRow, RouteValue
  <1>7. \A t \in DownStored : t.value # Zero
      BY <1>6, DownStoredIs
  <1>8. {t.value : t \in {s \in DownStored : s.cell = x}} = TermsOf(x)
    <2> DEFINE V == {t.value : t \in {s \in DownStored : s.cell = x}}
    <2>0. TermsOf(x) = {RouteTerm(r, x[2]) : r \in {q \in Routes(call) : x[1] = TokenOf(q)}}
      <3>1. \A q \in Routes(call) : OwnExpert(q)[2] # -1
          BY <1>1, <1>5, LocalIs
      <3> QED
          BY <1>1, <3>1 DEF TermsOf
    <2>1. ASSUME NEW v \in V PROVE v \in TermsOf(x)
      <3>1. PICK t \in DownStored : t.cell = x /\ t.value = v
          OBVIOUS
      <3> HIDE DEF V
      <3>2. PICK r \in Routes(call) : \E j \in 0 .. Hidden - 1 : t = Entry(r, j)
          BY DownStoredIs
      <3>3. PICK j \in 0 .. Hidden - 1 : t = Entry(r, j)
          BY <3>2
      <3>4. <<TokenOf(r), j>> = x /\ v = RouteTerm(r, j)
          BY <1>6, <3>1, <3>3
      <3>5. x[1] = TokenOf(r) /\ x[2] = j
          BY <3>4
      <3> QED
          BY <2>0, <3>4, <3>5
    <2>2. ASSUME NEW v \in TermsOf(x) PROVE v \in V
      <3>1. PICK r \in Routes(call) : x[1] = TokenOf(r) /\ v = RouteTerm(r, x[2])
          BY <2>0
      <3>2. Entry(r, x[2]) \in DownStored
          BY <1>4, DownStoredIs
      <3>3. Entry(r, x[2]).cell = x /\ Entry(r, x[2]).value = v
          BY <1>4, <1>6, <3>1
      <3> QED
          BY <3>2, <3>3
    <2> QED
        BY <2>1, <2>2
  <1>9. out'[x] = out[x] (+) SetToBag(TermsOf(x))
      BY <1>2, <1>3, <1>7, <1>8, AddedIs
  <1> QED
      BY <1>3, <1>9, NothingAdded DEF Mixture

\* Stores of one value leave it.
LEMMA OneValueIsLeft ==
  ASSUME NEW stored, NEW buffer, NEW f \in Written(stored, buffer), NEW x \in DOMAIN buffer, NEW v,
         \E t \in stored : t.cell = x, \A t \in stored : t.cell = x => t.value = v
  PROVE  f[x] = v
  BY WrittenIs

LEMMA TermsAreLeft ==
  ASSUME Handled, MoeInv, phase = "down", ActHolds, DownGemm, ~UseAllReduce(call), UseIntermediate,
         NEW r \in Routes(call), NEW j \in 0 .. Hidden - 1
  PROVE  c3'[<<r, j>>] = RouteValue(r, j)
  <1> DEFINE x == <<r, j>>
  <1>1. c3' \in Written(DownStored, c3)
      BY DEF DownGemm, DownStored
  <1>2. x \in DOMAIN c3
      BY DEF MoeInv
  <1>3. \A q \in Routes(call) : \A i \in 0 .. Hidden - 1 :
           Entry(q, i).cell = <<q, i>> /\ Entry(q, i).value = RouteValue(q, i)
      BY DEF Entry, DownRow
  <1>4. Entry(r, j) \in DownStored /\ Entry(r, j).cell = x
      BY <1>3, DownStoredIs
  <1>5. ASSUME NEW t \in DownStored, t.cell = x PROVE t.value = RouteValue(r, j)
    <2>1. PICK q \in Routes(call) : \E i \in 0 .. Hidden - 1 : t = Entry(q, i)
        BY DownStoredIs
    <2>2. PICK i \in 0 .. Hidden - 1 : t = Entry(q, i)
        BY <2>1
    <2>3. <<q, i>> = <<r, j>> /\ t.value = RouteValue(q, i)
        BY <1>3, <1>5, <2>2
    <2> QED
        BY <2>3
  <1> HIDE DEF x
  <1>6. c3'[x] = RouteValue(r, j)
      BY <1>1, <1>2, <1>4, <1>5, OneValueIsLeft
  <1> QED
      BY <1>6 DEF x

LEMMA DirectIsTheMixture ==
  ASSUME Handled, MoeInv, phase = "down", ActHolds, DownGemm, ~UseAllReduce(call), ~UseIntermediate,
         NEW x \in OutCells
  PROVE  out'[x] = Mixture(x)
  <1> DEFINE r == x[1]  j == x[2]  direct == Direct(DownStored)
  <1>1. call \in Calls /\ out' \in Written(direct, out) /\ x \in DOMAIN out
      BY DEF MoeInv, DownGemm, DownStored
  <1>2. /\ x = <<r, j>> /\ j \in 0 .. Hidden - 1 /\ j \in Nat /\ r \in Routes(call)
        /\ \A q \in Routes(call) : (IF call.noCombine THEN q ELSE TokenOf(q)) = q
    <2>1. x = <<r, j>> /\ j \in 0 .. Hidden - 1 /\ r \in IF call.noCombine THEN Routes(call) ELSE 0 .. Tokens - 1
        BY DEF OutCells
    <2>2. ~call.noCombine => Topk(call) = 1
        BY DEF UseIntermediate
    <2>3. Tokens * 1 = Tokens /\ \A q \in Nat : q \div 1 = q
        BY MoeAssumption
    <2>4. ~call.noCombine => Routes(call) = 0 .. Tokens - 1
        BY <2>2, <2>3 DEF Routes
    <2>5. \A q \in Routes(call) : q \in Nat
        BY <1>1, RoutesAre
    <2>6. ~call.noCombine => \A q \in Routes(call) : TokenOf(q) = q
        BY <2>2, <2>3, <2>5 DEF TokenOf
    <2> QED
        BY <2>1, <2>4, <2>6, MoeAssumption
  <1> HIDE DEF r, j
  <1>3. \A q \in Routes(call) : \A i \in 0 .. Hidden - 1 :
           /\ Entry(q, i).cell = <<q, i>> /\ Entry(q, i).value = RouteValue(q, i)
           /\ [Entry(q, i) EXCEPT !.value = AsSum(@)] = [cell |-> <<q, i>>, value |-> AsSum(RouteValue(q, i))]
      BY DEF Entry, DownRow
  <1>4. \E t \in direct : t.cell = x
    <2>1. Entry(r, j) \in DownStored
        BY <1>2, DownStoredIs
    <2> DEFINE t == [Entry(r, j) EXCEPT !.value = AsSum(@)]
    <2>2. t \in direct
        BY <2>1 DEF Direct
    <2>3. t.cell = x
        BY <1>2, <1>3
    <2> HIDE DEF t, direct
    <2> QED
        BY <2>2, <2>3
  <1>5. ASSUME NEW t \in direct, t.cell = x PROVE t.value = AsSum(RouteValue(r, j))
    <2>1. PICK s \in DownStored : t = [s EXCEPT !.value = AsSum(@)]
        BY DEF Direct
    <2>2. PICK q \in Routes(call) : \E i \in 0 .. Hidden - 1 : s = Entry(q, i)
        BY DownStoredIs
    <2>3. PICK i \in 0 .. Hidden - 1 : s = Entry(q, i)
        BY <2>2
    <2>4. t = [cell |-> <<q, i>>, value |-> AsSum(RouteValue(q, i))]
        BY <1>3, <2>1, <2>3
    <2>5. q = r /\ i = j
        BY <1>2, <1>5, <2>4
    <2> QED
        BY <2>4, <2>5
  <1> HIDE DEF direct
  <1>6. out'[x] = AsSum(RouteValue(r, j))
      BY <1>1, <1>4, <1>5, OneValueIsLeft
  <1>7. TermsOf(x) = IF Slot(call, r) # -1 THEN {RouteTerm(r, j)} ELSE {}
    <2>1. \A q \in Routes(call) : x[1] = (IF call.noCombine THEN q ELSE TokenOf(q)) <=> q = r
        BY <1>2 DEF r
    <2>2. OwnExpert(r)[2] # -1 <=> Slot(call, r) # -1
        BY <1>1, <1>2, LocalIs
    <2>3. {q \in Routes(call) : /\ x[1] = IF call.noCombine THEN q ELSE TokenOf(q)
                                /\ OwnExpert(q)[2] # -1}
             = IF Slot(call, r) # -1 THEN {r} ELSE {}
        BY <1>2, <2>1, <2>2
    <2> QED
        BY <2>3 DEF TermsOf, j
  <1>8. CASE Slot(call, r) # -1
    <2>1. RouteTerm(r, j) # Zero /\ RouteTerm(r, j) # Empty
        BY <1>1, <1>2, <1>8, RouteTermsAreTerms
    <2>2. AsSum(RouteValue(r, j)) = SetToBag({RouteTerm(r, j)})
        BY <1>8, <2>1 DEF AsSum, RouteValue
    <2> QED
        BY <1>6, <1>7, <1>8, <2>2 DEF Mixture
  <1>9. CASE Slot(call, r) = -1
    <2>1. AsSum(RouteValue(r, j)) = EmptyBag
        BY <1>9, MoeAssumption DEF AsSum, RouteValue
    <2> QED
        BY <1>6, <1>7, <1>9, <2>1, EmptyIs DEF Mixture
  <1> QED
      BY <1>8, <1>9
-----------------------------------------------------------------------------
(* The sum over the routes of a token.                                     *)

\* Terms of different routes differ: their weights name the route.
LEMMA RouteTermsDiffer ==
  ASSUME ~call.noCombine, NEW r, NEW q, NEW j, RouteTerm(r, j) = RouteTerm(q, j)
  PROVE  r = q
  <1> DEFINE f(x) == [i \in 0 .. Inner - 1 |-> ActTerm(x, i)]
             w(x) == IF call.onInput \/ call.noCombine THEN {} ELSE {x}
             t(x) == [in |-> f(x), expert |-> OwnExpert(x), column |-> j, weights |-> w(x), exact |-> TRUE]
  <1>1. t(r) = t(q)
      BY RouteTermIs
  <1>2. \A x : t(x).in = f(x) /\ t(x).weights = w(x)
      OBVIOUS
  <1> HIDE DEF t
  <1>3. f(r) = f(q) /\ w(r) = w(q)
      BY <1>1, <1>2
  <1>4. CASE ~call.onInput
      BY <1>3, <1>4
  <1>5. CASE call.onInput
    <2>1. 0 \in 0 .. Inner - 1
        BY MoeAssumption
    <2>2. f(r)[0] = ActTerm(r, 0) /\ f(q)[0] = ActTerm(q, 0)
        BY <2>1
    <2>3. ActTerm(r, 0).gate.weights = {r} /\ ActTerm(q, 0).gate.weights = {q}
        BY <1>5 DEF ActTerm, UpRecord
    <2> HIDE DEF f
    <2>5. ActTerm(r, 0) = ActTerm(q, 0)
        BY <1>3, <2>2
    <2>4. {r} = {q}
        BY <2>3, <2>5
    <2> QED
        BY <2>4
  <1> QED
      BY <1>4, <1>5

\* The first i routes of a token, and the terms of those that are local.
FirstRoutes(t, i) ==
    {q \in Routes(call) : t * Topk(call) <= q /\ q < t * Topk(call) + i /\ Slot(call, q) # -1}
FirstTerms(t, i, j) == {RouteTerm(q, j) : q \in FirstRoutes(t, i)}

LEMMA RoutesOfToken ==
  ASSUME Handled, call \in Calls, ~call.noCombine, NEW t \in 0 .. Tokens - 1, NEW j
  PROVE  /\ FirstTerms(t, 0, j) = {}
         /\ FirstTerms(t, Topk(call), j) = TermsOf(<<t, j>>)
         /\ \A i \in 0 .. Topk(call) - 1 :
              /\ t * Topk(call) + i \in Routes(call)
              /\ FirstTerms(t, i + 1, j) =
                    IF Slot(call, t * Topk(call) + i) # -1
                    THEN FirstTerms(t, i, j) \cup {RouteTerm(t * Topk(call) + i, j)}
                    ELSE FirstTerms(t, i, j)
              /\ RouteTerm(t * Topk(call) + i, j) \notin FirstTerms(t, i, j)
  <1> DEFINE k == Topk(call)  b == t * k  n == Tokens * k
  <1>1. /\ k \in Nat \ {0} /\ t \in Nat /\ b \in Nat /\ n \in Nat /\ b + k <= n
        /\ Routes(call) = 0 .. n - 1
    <2>1. k \in Nat \ {0} /\ n \in Nat \ {0} /\ Tokens \in Nat \ {0}
        BY RoutesAre, MoeAssumption
    <2>2. Routes(call) = 0 .. n - 1
        BY DEF Routes
    <2>3. t \in Nat /\ t + 1 \in Nat /\ t + 1 <= Tokens
        BY <2>1
    <2> HIDE DEF k
    <2>4. (t + 1) * k <= Tokens * k /\ (t + 1) * k = t * k + k /\ t * k \in Nat
        BY <2>1, <2>3, Times, NextTimes
    <2> QED
        BY <2>1, <2>2, <2>3, <2>4
  <1>2. \A i : FirstRoutes(t, i) = {q \in Routes(call) : b <= q /\ q < b + i /\ Slot(call, q) # -1}
      BY DEF FirstRoutes
  <1>3. \A q \in Routes(call) : TokenOf(q) = t <=> b <= q /\ q < b + k
    <2> TAKE q \in Routes(call)
    <2>1. q \in Nat
        BY RoutesAre
    <2>2. TokenOf(q) = q \div k
        BY DEF TokenOf
    <2> HIDE DEF k
    <2>3. q \div k \in Nat /\ (q \div k) * k <= q /\ q < (q \div k) * k + k
        BY <1>1, <2>1, Division
    <2>4. b <= q /\ q < b + k => q \div k = t
      <3> SUFFICES ASSUME b <= q, q < b + k PROVE q \div k = t
          OBVIOUS
      <3>1. (t + 1) * k = b + k
          BY <1>1, NextTimes
      <3> DEFINE e == (t + 1) * k
      <3>2. q \in b .. e - 1
        <4> HIDE DEF e, b
        <4> QED
            BY <1>1, <2>1, <3>1 DEF e
      <3> QED
          BY <1>1, <3>2, Tiled
    <2> QED
        BY <2>2, <2>3, <2>4
  <1> HIDE DEF b, n
  <1>4. FirstRoutes(t, 0) = {}
    <2>1. \A q \in Routes(call) : ~ (b <= q /\ q < b + 0)
        BY <1>1
    <2> QED
        BY <1>2, <2>1
  <1>5. FirstTerms(t, k, j) = TermsOf(<<t, j>>)
    <2>1. \A q \in Routes(call) : /\ t = (IF call.noCombine THEN q ELSE TokenOf(q)) <=> b <= q /\ q < b + k
                                  /\ OwnExpert(q)[2] # -1 <=> Slot(call, q) # -1
        BY <1>3, LocalIs
    <2>2. {q \in Routes(call) : /\ t = IF call.noCombine THEN q ELSE TokenOf(q)
                                /\ OwnExpert(q)[2] # -1} = FirstRoutes(t, k)
        BY <1>2, <2>1
    <2>3. <<t, j>>[1] = t /\ <<t, j>>[2] = j
        OBVIOUS
    <2> QED
        BY <2>2, <2>3 DEF FirstTerms, TermsOf
  <1>6. ASSUME NEW i \in 0 .. k - 1
        PROVE  /\ b + i \in Routes(call)
               /\ FirstTerms(t, i + 1, j) = IF Slot(call, b + i) # -1
                                            THEN FirstTerms(t, i, j) \cup {RouteTerm(b + i, j)}
                                            ELSE FirstTerms(t, i, j)
               /\ RouteTerm(b + i, j) \notin FirstTerms(t, i, j)
    <2>0. i \in Nat /\ i < k
        BY <1>1
    <2> HIDE DEF k
    <2>1. b + i \in Routes(call)
        BY <1>1, <2>0
    <2>2. \A q \in Routes(call) : b <= q /\ q < b + (i + 1) <=> (b <= q /\ q < b + i) \/ q = b + i
        BY <1>1, <2>0
    <2>3. FirstRoutes(t, i + 1) = IF Slot(call, b + i) # -1 THEN FirstRoutes(t, i) \cup {b + i} ELSE FirstRoutes(t, i)
        BY <1>2, <2>1, <2>2
    <2>4. b + i \notin FirstRoutes(t, i)
        BY <1>1, <1>2, <2>0
    <2>5. RouteTerm(b + i, j) \notin FirstTerms(t, i, j)
        BY <2>4, RouteTermsDiffer DEF FirstTerms
    <2> QED
        BY <2>1, <2>3, <2>5 DEF FirstTerms
  <1>7. FirstTerms(t, 0, j) = {}
      BY <1>4 DEF FirstTerms
  <1> QED
      BY <1>5, <1>6, <1>7 DEF b, k

LEMMA SumIsTheMixture ==
  ASSUME Handled, call \in Calls, ~call.noCombine, NEW t \in 0 .. Tokens - 1, NEW j \in 0 .. Hidden - 1,
         \A r \in Routes(call) : c3[<<r, j>>] = RouteValue(r, j)
  PROVE  RouteSum(t, j) = Mixture(<<t, j>>)
  <1> DEFINE k == Topk(call)  term(i) == c3[<<t * Topk(call) + i, j>>]
             Is(s) == s = [i \in 0 .. k |-> IF i = 0 THEN EmptyBag ELSE s[i - 1] (+) AsSum(term(i - 1))]
             sum == CHOOSE s : Is(s)
             B(i) == SetToBag(FirstTerms(t, i, j))
             g == [i \in 0 .. k |-> B(i)]
  <1>1. k \in Nat \ {0} /\ j \in Nat
      BY RoutesAre, MoeAssumption
  <1>2. RouteSum(t, j) = IF \E i \in 0 .. k - 1 : term(i) = Empty THEN Empty ELSE sum[k]
      BY DEF RouteSum
  <1>3. ASSUME NEW i \in 0 .. k - 1
        PROVE  term(i) # Empty /\ B(i + 1) = B(i) (+) AsSum(term(i))
    <2> DEFINE r == t * Topk(call) + i  T == FirstTerms(t, i, j)
    <2>1. /\ r \in Routes(call) /\ RouteTerm(r, j) \notin T
          /\ FirstTerms(t, i + 1, j) = IF Slot(call, r) # -1 THEN T \cup {RouteTerm(r, j)} ELSE T
        BY RoutesOfToken
    <2>2. term(i) = RouteValue(r, j)
        BY <2>1
    <2> HIDE DEF r, T
    <2>3. CASE Slot(call, r) # -1
      <3>1. RouteTerm(r, j) # Zero /\ RouteTerm(r, j) # Empty /\ term(i) = RouteTerm(r, j)
          BY <1>1, <2>1, <2>2, <2>3, RouteTermsAreTerms DEF RouteValue
      <3>2. AsSum(term(i)) = SetToBag({RouteTerm(r, j)})
        <4> HIDE DEF term
        <4> QED
            BY <3>1 DEF AsSum
      <3>3. SetToBag(T) (+) SetToBag({RouteTerm(r, j)}) = SetToBag(T \cup {RouteTerm(r, j)})
          BY <2>1, OneAdded
      <3>4. B(i + 1) = SetToBag(T \cup {RouteTerm(r, j)}) /\ B(i) = SetToBag(T)
          BY <2>1, <2>3 DEF T
      <3> QED
          BY <3>1, <3>2, <3>3, <3>4
    <2>4. CASE Slot(call, r) = -1
      <3>1. term(i) = Zero /\ Zero # Empty
          BY <2>2, <2>4, MoeAssumption DEF RouteValue
      <3>2. AsSum(term(i)) = EmptyBag
        <4> HIDE DEF term
        <4> QED
            BY <3>1 DEF AsSum
      <3>3. B(i + 1) = SetToBag(T) /\ B(i) = SetToBag(T)
          BY <2>1, <2>4 DEF T
      <3> QED
          BY <3>1, <3>2, <3>3, NothingAdded
    <2> QED
        BY <2>3, <2>4
  <1>4. B(0) = EmptyBag
      BY RoutesOfToken, EmptyIs
  <1>5. B(k) = Mixture(<<t, j>>)
      BY RoutesOfToken DEF Mixture
  <1> HIDE DEF term, B, k
  <1>6. Is(g)
    <2>1. ASSUME NEW i \in 0 .. k
          PROVE  g[i] = IF i = 0 THEN EmptyBag ELSE g[i - 1] (+) AsSum(term(i - 1))
      <3>1. CASE i = 0
          BY <1>4, <3>1
      <3>2. CASE i # 0
        <4>1. i - 1 \in 0 .. k - 1 /\ i - 1 \in 0 .. k /\ (i - 1) + 1 = i
            BY <1>1, <3>2
        <4>2. B((i - 1) + 1) = B(i - 1) (+) AsSum(term(i - 1))
            BY <1>3, <4>1
        <4> QED
            BY <3>2, <4>1, <4>2
      <3> QED
          BY <3>1, <3>2
    <2>2. g = [i \in 0 .. k |-> g[i]]
        OBVIOUS
    <2> HIDE DEF g
    <2> QED
        BY <2>1, <2>2
  <1>7. Is(sum)
    <2> HIDE DEF Is, g
    <2> QED
        BY <1>6
  <1> HIDE DEF sum, g
  <1>8. sum[k] = B(k)
    <2> DEFINE S == {i \in 0 .. k : sum[i] = B(i)}
    <2>1. 0 \in S
        BY <1>1, <1>4, <1>7
    <2>2. ASSUME NEW i \in 0 .. k - 1, i \in S PROVE i + 1 \in S
      <3>1. i + 1 \in 0 .. k /\ i + 1 # 0 /\ (i + 1) - 1 = i
          BY <1>1
      <3>2. sum[i + 1] = sum[i] (+) AsSum(term(i))
          BY <1>7, <3>1
      <3> QED
          BY <1>3, <2>2, <3>1, <3>2
    <2> HIDE DEF S
    <2>3. \A i \in 0 .. k : i \in S
        BY <1>1, <2>1, <2>2, Climb
    <2> QED
        BY <1>1, <2>3 DEF S
  <1> QED
      BY <1>2, <1>3, <1>5, <1>8

-----------------------------------------------------------------------------
(* The sequence computes the mixture.                                      *)

\* What the buffers of each phase hold.
MixInv ==
    /\ MoeInv
    /\ phase = "activate" => UpHolds
    /\ phase = "down" => ActHolds /\ (UseAllReduce(call) => out = Fill(OutCells, EmptyBag))
    /\ phase = "combine" =>
          IF ~UseAllReduce(call) /\ UseIntermediate
          THEN \A r \in Routes(call) : \A j \in 0 .. Hidden - 1 : c3[<<r, j>>] = RouteValue(r, j)
          ELSE \A x \in OutCells : out[x] = Mixture(x)
    /\ phase = "done" =>
          /\ \A x \in OutCells : out[x] = Mixture(x)
          /\ scale = IF call.scaled /\ ~call.noCombine THEN 1 ELSE 0
\* All of this is about the call alone, once it is aligned.
LEMMA SameCall ==
  ASSUME call' = call
  PROVE  /\ OutCells' = OutCells /\ UseIntermediate' = UseIntermediate
         /\ \A x : Mixture(x)' = Mixture(x)
         /\ \A r, j : /\ UpRow(r)' = UpRow(r) /\ UpResult(r, j)' = UpResult(r, j)
                      /\ ActTerm(r, j)' = ActTerm(r, j) /\ RouteValue(r, j)' = RouteValue(r, j)
  <1>1. OutCells' = OutCells /\ UseIntermediate' = UseIntermediate
      BY DEF OutCells, UseIntermediate
  <1>2. \A r : TokenOf(r)' = TokenOf(r) /\ OwnExpert(r)' = OwnExpert(r)
      BY DEF TokenOf, OwnExpert
  <1>3. \A r, row : UpRecord(r, row)' = UpRecord(r, row)
      BY <1>2 DEF UpRecord
  <1>4. \A r, i : ActTerm(r, i)' = ActTerm(r, i)
      BY <1>3 DEF ActTerm
  <1>5. \A r, j : RouteTerm(r, j)' = RouteTerm(r, j)
      BY <1>2 DEF RouteTerm
  <1>6. \A r, j : RouteValue(r, j)' = RouteValue(r, j)
      BY <1>5 DEF RouteValue
  <1>7. \A x : Mixture(x)' = Mixture(x)
      BY <1>2, <1>5 DEF Mixture, TermsOf
  <1>8. \A r : UpRow(r)' = UpRow(r)
      BY <1>2 DEF UpRow, RowIn
  <1>9. \A n : WeightRow(n)' = WeightRow(n)
      BY DEF WeightRow
  <1>10. \A r, j : UpResult(r, j)' = UpResult(r, j)
    <2>1. \A g, u : Act(g, u)' = Act(g, u)
        BY DEF Act
    <2> QED
        BY <1>3, <1>9, <2>1 DEF UpResult
  <1> QED
      BY <1>1, <1>4, <1>6, <1>7, <1>8, <1>10
LEMMA MixInvInitially == MoeInit => MixInv
  <1> SUFFICES ASSUME MoeInit PROVE MixInv
      OBVIOUS
  <1>1. MoeInv /\ phase = "prepare"
      BY MoeInvInitially DEF MoeInit
  <1> QED
      BY <1>1 DEF MixInv

LEMMA MixInvKept == ASSUME Handled PROVE MixInv /\ [MoeNext]_moeVars => MixInv'
  <1> SUFFICES ASSUME MixInv, [MoeNext]_moeVars PROVE MixInv'
      OBVIOUS
  <1>0. MoeInv /\ MoeInv' /\ call \in Calls
      BY MoeInvKept DEF MixInv, MoeInv
  <1>1. CASE Prepare
    <2>1. phase' = "allocate"
        BY <1>1 DEF Prepare
    <2> QED
        BY <1>0, <2>1 DEF MixInv
  <1>2. CASE Allocate
    <2>1. phase' = "up"
        BY <1>2 DEF Allocate
    <2> QED
        BY <1>0, <2>1 DEF MixInv
  <1>3. CASE UpGemm
    <2>1. phase = "up" /\ phase' = "activate" /\ call' = call
        BY <1>3 DEF UpGemm
    <2>2. \A r \in Routes(call) : Slot(call, r) # -1 =>
             \A j \in Width(UpLaunch(call)) : c1'[<<UpRow(r), j>>] = UpResult(r, j)
        BY <1>0, <1>3, <2>1, UpIsOwn
    <2>3. UpHolds'
        BY <2>1, <2>2, SameCall DEF UpHolds
    <2> QED
        BY <1>0, <2>1, <2>3 DEF MixInv
  <1>4. CASE Activate
    <2>1. phase = "activate" /\ phase' = "down" /\ call' = call /\ UpHolds
            /\ out' = IF UseAllReduce(call) THEN Fill(OutCells, EmptyBag) ELSE out
        BY <1>4 DEF Activate, MixInv
    <2>2. \A r \in Routes(call) : Slot(call, r) # -1 =>
             \A i \in 0 .. Inner - 1 : c2'[<<UpRow(r), i>>] = ActTerm(r, i)
        BY <1>0, <1>4, <2>1, ActIsOwn
    <2>3. ActHolds'
        BY <2>1, <2>2, SameCall DEF ActHolds
    <2>4. (UseAllReduce(call) => out = Fill(OutCells, EmptyBag))'
        BY <2>1, SameCall DEF Fill
    <2> QED
        BY <1>0, <2>1, <2>3, <2>4 DEF MixInv
  <1>5. CASE DownGemm
    <2>1. phase = "down" /\ phase' = "combine" /\ call' = call /\ ActHolds
            /\ (UseAllReduce(call) => out = Fill(OutCells, EmptyBag))
        BY <1>5 DEF DownGemm, MixInv
    <2>2. CASE ~UseAllReduce(call) /\ UseIntermediate
      <3>1. \A r \in Routes(call) : \A j \in 0 .. Hidden - 1 : c3'[<<r, j>>] = RouteValue(r, j)
          BY <1>0, <1>5, <2>1, <2>2, TermsAreLeft
      <3>2. (\A r \in Routes(call) : \A j \in 0 .. Hidden - 1 : c3[<<r, j>>] = RouteValue(r, j))'
          BY <2>1, <3>1, SameCall
      <3>3. (~UseAllReduce(call) /\ UseIntermediate)'
          BY <2>1, <2>2, SameCall
      <3> QED
          BY <1>0, <2>1, <3>2, <3>3 DEF MixInv
    <2>3. CASE ~ (~UseAllReduce(call) /\ UseIntermediate)
      <3>1. \A x \in OutCells : out'[x] = Mixture(x)
          BY <1>0, <1>5, <2>1, <2>3, AddedIsTheMixture, DirectIsTheMixture
      <3>2. (\A x \in OutCells : out[x] = Mixture(x))'
          BY <2>1, <3>1, SameCall
      <3>3. ~ (~UseAllReduce(call) /\ UseIntermediate)'
          BY <2>1, <2>3, SameCall
      <3> QED
          BY <1>0, <2>1, <3>2, <3>3 DEF MixInv
    <2> QED
        BY <2>2, <2>3
  <1>6. CASE Combine
    <2>1. phase = "combine" /\ phase' = "done" /\ call' = call /\ scale = 0 /\ DOMAIN out = OutCells
        BY <1>0, <1>6 DEF Combine, MoeInv
    <2>2. /\ ~UseAllReduce(call) /\ UseIntermediate =>
                \A r \in Routes(call) : \A j \in 0 .. Hidden - 1 : c3[<<r, j>>] = RouteValue(r, j)
          /\ ~ (~UseAllReduce(call) /\ UseIntermediate) => \A x \in OutCells : out[x] = Mixture(x)
        BY <2>1 DEF MixInv
    <2>3. /\ \A x \in OutCells : out'[x] = Mixture(x)
          /\ scale' = IF call.scaled /\ ~call.noCombine THEN 1 ELSE 0
      <3>1. CASE call.noCombine
        <4>1. out' = out /\ scale' = scale
            BY <1>6, <3>1 DEF Combine
        <4>2. ~UseIntermediate
            BY <3>1 DEF UseIntermediate
        <4> QED
            BY <2>1, <2>2, <3>1, <4>1, <4>2
      <3>2. CASE ~call.noCombine /\ UseAllReduce(call)
        <4>1. out' = out /\ scale' = IF call.scaled THEN scale + 1 ELSE scale
            BY <1>6, <3>2 DEF Combine
        <4> QED
            BY <2>1, <2>2, <3>2, <4>1
      <3>3. CASE ~call.noCombine /\ ~UseAllReduce(call) /\ Topk(call) = 1 /\ ~call.scaled /\ ~UseIntermediate
        <4>1. out' = out /\ scale' = scale
            BY <1>6, <3>3 DEF Combine
        <4> QED
            BY <2>1, <2>2, <3>3, <4>1
      <3>4. CASE ~call.noCombine /\ ~UseAllReduce(call) /\ ~ (Topk(call) = 1 /\ ~call.scaled /\ ~UseIntermediate)
        <4>1. out' = [x \in OutCells |-> RouteSum(x[1], x[2])] /\ scale' = IF call.scaled THEN scale + 1 ELSE scale
            BY <1>6, <2>1, <3>4 DEF Combine
        <4>2. UseIntermediate
          <5>1. Topk(call) = 1 /\ call.scaled => call.hooks
              BY <1>0, <3>4 DEF Handled
          <5> QED
              BY <3>4, <5>1 DEF UseIntermediate
        <4>3. ASSUME NEW x \in OutCells PROVE RouteSum(x[1], x[2]) = Mixture(x)
          <5>1. x = <<x[1], x[2]>> /\ x[1] \in 0 .. Tokens - 1 /\ x[2] \in 0 .. Hidden - 1
              BY <3>4 DEF OutCells
          <5>2. \A r \in Routes(call) : c3[<<r, x[2]>>] = RouteValue(r, x[2])
              BY <2>2, <3>4, <4>2, <5>1
          <5>3. RouteSum(x[1], x[2]) = Mixture(<<x[1], x[2]>>)
              BY <1>0, <3>4, <5>1, <5>2, SumIsTheMixture
          <5> QED
              BY <5>1, <5>3
        <4> QED
            BY <2>1, <3>4, <4>1, <4>3
      <3> QED
          BY <3>1, <3>2, <3>3, <3>4
    <2>4. (\A x \in OutCells : out[x] = Mixture(x))'
        BY <2>1, <2>3, SameCall
    <2> QED
        BY <1>0, <2>1, <2>3, <2>4 DEF MixInv
  <1>7. CASE UNCHANGED moeVars
    <2>1. call' = call /\ phase' = phase /\ c1' = c1 /\ c2' = c2 /\ c3' = c3 /\ out' = out /\ scale' = scale
        BY <1>7 DEF moeVars
    <2>2. UpHolds => UpHolds'
        BY <2>1, SameCall DEF UpHolds
    <2>3. ActHolds => ActHolds'
        BY <2>1, SameCall DEF ActHolds
    <2>4. (\A x \in OutCells : out[x] = Mixture(x)) => (\A x \in OutCells : out[x] = Mixture(x))'
        BY <2>1, SameCall
    <2>5. (\A r \in Routes(call) : \A j \in 0 .. Hidden - 1 : c3[<<r, j>>] = RouteValue(r, j))
             => (\A r \in Routes(call) : \A j \in 0 .. Hidden - 1 : c3[<<r, j>>] = RouteValue(r, j))'
        BY <2>1, SameCall
    <2>6. (UseAllReduce(call) => out = Fill(OutCells, EmptyBag)) => (UseAllReduce(call) => out = Fill(OutCells, EmptyBag))'
        BY <2>1, SameCall DEF Fill
    <2>7. (~UseAllReduce(call) /\ UseIntermediate)' = (~UseAllReduce(call) /\ UseIntermediate)
        BY <2>1, SameCall
    <2> QED
        BY <1>0, <2>1, <2>2, <2>3, <2>4, <2>5, <2>6, <2>7 DEF MixInv
  <1> QED
      BY <1>1, <1>2, <1>3, <1>4, <1>5, <1>6, <1>7 DEF MoeNext

(* For every size, tile, kind and routing, a handled call returns the      *)
(* mixture: each route's term computed by its own expert from its own      *)
(* token, every k multiplied once with its own scale, weighted once,       *)
(* summed over the local routes of the token and scaled once.              *)
THEOREM ForwardComputesTheMixture == ASSUME Handled PROVE MoeSpec => []OutputIsTheMixture
  <1>1. MoeSpec => []MixInv
      BY MixInvInitially, MixInvKept, PTL DEF MoeSpec
  <1>2. MixInv => OutputIsTheMixture
    <2> SUFFICES ASSUME MixInv, phase = "done"
                 PROVE  /\ scale = IF call.scaled /\ ~call.noCombine THEN 1 ELSE 0
                        /\ \A x \in DOMAIN out : out[x] = Mixture(x)
        BY DEF OutputIsTheMixture, Mixture, TermsOf
    <2>1. DOMAIN out = OutCells
        BY DEF MixInv, MoeInv
    <2> QED
        BY <2>1 DEF MixInv
  <1> QED
      BY <1>1, <1>2, PTL
=============================================================================
