------------------------- MODULE QsaCompressionProofs -------------------------
(***************************************************************************)
(* Proofs about the compressed keys and the pending ring: every block a    *)
(* request can see is of its own tokens, the tokens that wait are intact,  *)
(* and no block of the radix tree is written again, for every ratio, page, *)
(* widened ring, draft window, batch, padding and number of requests.      *)
(***************************************************************************)
EXTENDS QsaCompression, FiniteSetTheorems, SequenceTheorems, WellFoundedInduction, TLAPS

-----------------------------------------------------------------------------
(* Least numbers and sums.                                                 *)

\* A set of naturals has a least element.
LEMMA LeastElement ==
  ASSUME NEW T, T \subseteq Nat, T # {}
  PROVE  \E x \in T : \A y \in T : x <= y
  <1> DEFINE R == {ss \in Nat \X Nat : ss[1] < ss[2]}
  <1>1. IsWellFoundedOn(R, Nat)
      BY NatLessThanWellFounded DEF OpToRel
  <1>2. \E x \in T : \A y \in T : ~ (<<y, x>> \in R)
    <2> HIDE DEF R
    <2> QED
        BY <1>1, WFMin
  <1>3. \A x, y \in T : ~ (<<y, x>> \in R) => x <= y
      OBVIOUS
  <1>4. QED
      BY <1>2, <1>3

\* Induction up to n, over a set.
LEMMA Climb ==
  ASSUME NEW n \in Nat, NEW S, 0 \in S, \A i \in 0 .. n - 1 : i \in S => i + 1 \in S
  PROVE  \A i \in 0 .. n : i \in S
  <1> DEFINE T == {i \in 0 .. n : i \notin S}
  <1> SUFFICES ASSUME T # {} PROVE FALSE
      OBVIOUS
  <1>1. PICK x \in T : \A y \in T : x <= y
    <2>1. T \subseteq Nat
        OBVIOUS
    <2> HIDE DEF T
    <2> QED
        BY <2>1, LeastElement
  <1>2. x \in 1 .. n
      OBVIOUS
  <1>3. x - 1 \in 0 .. n - 1 /\ x - 1 \notin T
      BY <1>1, <1>2
  <1>4. QED
      BY <1>2, <1>3

\* t[i] is the sum of the first i of n counts.
IsSums(t, c, n) ==
  /\ t \in [0 .. n -> Nat]
  /\ t[0] = 0
  /\ \A i \in 1 .. n : t[i] = t[i - 1] + c[i]

LEMMA SumsAreSums ==
  ASSUME NEW n \in Nat, NEW c, c \in [1 .. n -> Nat], Len(c) = n
  PROVE  IsSums(CumulativeSum(c), c, n)
  <1> DEFINE Is(t, k) == t = [i \in 0 .. k |-> IF i = 0 THEN 0 ELSE t[i - 1] + c[i]]
             S == {k \in 0 .. n : \E t \in [0 .. k -> Nat] : Is(t, k)}
  <1>1. 0 \in S
    <2> DEFINE t == [i \in 0 .. 0 |-> 0]
    <2>1. t \in [0 .. 0 -> Nat] /\ Is(t, 0)
        OBVIOUS
    <2> HIDE DEF t, Is
    <2> QED
        BY <2>1
  <1>2. ASSUME NEW k \in 0 .. n - 1, k \in S PROVE k + 1 \in S
    <2>1. PICK t \in [0 .. k -> Nat] : Is(t, k)
        BY <1>2
    <2> DEFINE u == [i \in 0 .. k + 1 |-> IF i = k + 1 THEN t[k] + c[k + 1] ELSE t[i]]
    <2>a. ASSUME NEW i \in 0 .. k + 1 PROVE (IF i = k + 1 THEN t[k] + c[k + 1] ELSE t[i]) \in Nat
      <3>1. t[k] \in Nat /\ c[k + 1] \in Nat
          OBVIOUS
      <3>2. i # k + 1 => i \in 0 .. k
          OBVIOUS
      <3> QED
          BY <3>1, <3>2
    <2>2. u \in [0 .. k + 1 -> Nat]
        BY <2>a
    <2>3. ASSUME NEW i \in 0 .. k + 1
          PROVE  u[i] = IF i = 0 THEN 0 ELSE u[i - 1] + c[i]
      <3>1. CASE i = k + 1
          BY <3>1
      <3>2. CASE i \in 0 .. k
        <4>1. t[i] = IF i = 0 THEN 0 ELSE t[i - 1] + c[i]
            BY <2>1, <3>2
        <4> QED
            BY <3>2, <4>1
      <3> QED
          BY <3>1, <3>2
    <2>4. Is(u, k + 1)
      <3> HIDE DEF u
      <3>1. u = [i \in 0 .. k + 1 |-> u[i]]
          BY <2>2
      <3> QED
          BY <3>1, <2>3
    <2>5. \E t2 \in [0 .. k + 1 -> Nat] : Is(t2, k + 1)
      <3> HIDE DEF u, Is
      <3> QED
          BY <2>2, <2>4
    <2>6. k + 1 \in 0 .. n
        OBVIOUS
    <2> HIDE DEF Is
    <2> QED
        BY <2>5, <2>6
  <1>3. n \in S
    <2> HIDE DEF S
    <2>1. \A i \in 0 .. n : i \in S
        BY <1>1, <1>2, Climb
    <2> QED
        BY <2>1
  <1>4. PICK f \in [0 .. n -> Nat] : Is(f, n)
      BY <1>3
  <1>5. CumulativeSum(c) = CHOOSE t : Is(t, n)
      BY DEF CumulativeSum
  <1>6. Is(CumulativeSum(c), n)
    <2> HIDE DEF Is
    <2> QED
        BY <1>4, <1>5
  <1> DEFINE s == CumulativeSum(c)
  <1>7. s = [i \in 0 .. n |-> IF i = 0 THEN 0 ELSE s[i - 1] + c[i]]
      BY <1>6
  <1> HIDE DEF s
  <1>8. s[0] = 0 /\ \A i \in 1 .. n : s[i] = s[i - 1] + c[i]
      BY <1>7
  <1>9. \A i \in 0 .. n : s[i] \in Nat
    <2> DEFINE N == {i \in 0 .. n : s[i] \in Nat}
    <2>1. 0 \in N /\ \A i \in 0 .. n - 1 : i \in N => i + 1 \in N
      <3>1. \A i \in 0 .. n - 1 : i + 1 \in 1 .. n /\ s[i + 1] = s[i] + c[i + 1] /\ c[i + 1] \in Nat
          BY <1>8
      <3>2. 0 \in N
          BY <1>8
      <3>3. ASSUME NEW i \in 0 .. n - 1, i \in N PROVE i + 1 \in N
        <4>1. i + 1 \in 0 .. n /\ s[i + 1] = s[i] + c[i + 1] /\ c[i + 1] \in Nat
            BY <3>1
        <4>2. s[i] \in Nat
            BY <3>3
        <4>3. s[i + 1] \in Nat
            BY <4>1, <4>2
        <4> QED
            BY <4>1, <4>3
      <3> HIDE DEF N
      <3> QED
          BY <3>2, <3>3
    <2> HIDE DEF N
    <2>2. \A i \in 0 .. n : i \in N
        BY <2>1, Climb
    <2> QED
        BY <2>2 DEF N
  <1>10. s \in [0 .. n -> Nat]
      BY <1>7, <1>9
  <1> QED
      BY <1>8, <1>10 DEF IsSums, s

LEMMA SumsRise ==
  ASSUME NEW n \in Nat, NEW t, NEW c, c \in [1 .. n -> Nat], IsSums(t, c, n),
         NEW i \in 0 .. n, NEW j \in i .. n
  PROVE  t[i] <= t[j]
  <1> DEFINE S == {k \in 0 .. n : k <= i \/ t[i] <= t[k]}
  <1>1. \A k \in 0 .. n - 1 : t[k] \in Nat /\ t[k + 1] = t[k] + c[k + 1] /\ c[k + 1] \in Nat
    <2>1. \A k \in 0 .. n - 1 : k + 1 \in 1 .. n /\ (k + 1) - 1 = k
        OBVIOUS
    <2> QED
        BY <2>1 DEF IsSums
  <1>2. t[i] \in Nat
      BY DEF IsSums
  <1>3. 0 \in S
      OBVIOUS
  <1>4. ASSUME NEW k \in 0 .. n - 1, k \in S PROVE k + 1 \in S
    <2>1. CASE k = i
        BY <1>1, <1>2, <2>1
    <2>2. CASE k # i
        BY <1>1, <1>2, <1>4, <2>2
    <2> QED
        BY <2>1, <2>2
  <1>5. j \in S
    <2> HIDE DEF S
    <2>1. \A k \in 0 .. n : k \in S
        BY <1>3, <1>4, Climb
    <2> QED
        BY <2>1
  <1> QED
      BY <1>5, <1>2

\* Every packed place has an owner.
LEMMA OwnerExists ==
  ASSUME NEW n \in Nat, NEW t, NEW c, IsSums(t, c, n), NEW e \in Nat, e < t[n]
  PROVE  \E r \in 1 .. n : t[r - 1] <= e /\ e < t[r]
  <1> DEFINE T == {k \in 0 .. n : e < t[k]}
  <1>1. T \subseteq Nat /\ T # {}
      OBVIOUS
  <1>2. PICK r \in T : \A k \in T : r <= k
    <2> HIDE DEF T
    <2> QED
        BY <1>1, LeastElement
  <1>3. r # 0
      BY DEF IsSums
  <1>4. r \in 1 .. n /\ r - 1 \in 0 .. n /\ r - 1 \notin T
      BY <1>2, <1>3
  <1>5. t[r - 1] \in Nat
      BY <1>4 DEF IsSums
  <1> QED
      BY <1>4, <1>5

LEMMA OwnerIs ==
  ASSUME NEW n \in Nat, NEW t, NEW c, c \in [1 .. n -> Nat], IsSums(t, c, n),
         NEW e \in Nat, NEW r \in 1 .. n, t[r - 1] <= e, e < t[r]
  PROVE  OwnerOf(t, e) = r
  <1>1. \A k \in 0 .. n : t[k] \in Nat
      BY DEF IsSums
  <1>2. \A k \in 1 .. n : k <= r - 1 => t[k] <= t[r - 1]
    <2> SUFFICES ASSUME NEW k \in 1 .. n, k <= r - 1 PROVE t[k] <= t[r - 1]
        OBVIOUS
    <2>1. k \in 0 .. n /\ r - 1 \in k .. n
        OBVIOUS
    <2> DEFINE j == r - 1
    <2>2. j \in k .. n
        BY <2>1
    <2> HIDE DEF j
    <2>3. t[k] <= t[j]
        BY <2>1, <2>2, SumsRise
    <2> QED
        BY <2>3 DEF j
  <1>3. \A k \in 1 .. n : k >= r => t[r] <= t[k]
    <2> SUFFICES ASSUME NEW k \in 1 .. n, k >= r PROVE t[r] <= t[k]
        OBVIOUS
    <2>1. r \in 0 .. n /\ k \in r .. n
        OBVIOUS
    <2> QED
        BY <2>1, SumsRise
  <1>4. r - 1 \in 0 .. n
      OBVIOUS
  <1>5. \A k \in 1 .. n : t[k] <= e <=> k <= r - 1
    <2> SUFFICES ASSUME NEW k \in 1 .. n PROVE t[k] <= e <=> k <= r - 1
        OBVIOUS
    <2> DEFINE x == t[k]  y == t[r - 1]  z == t[r]
    <2>1. k \in 0 .. n /\ r \in 0 .. n
        OBVIOUS
    <2>2. x \in Nat /\ y \in Nat /\ z \in Nat /\ y <= e /\ e < z
        BY <1>1, <1>4, <2>1
    <2>3. (k <= r - 1 => x <= y) /\ (k >= r => z <= x)
        BY <1>2, <1>3
    <2>4. k \in Nat /\ r \in Nat
        OBVIOUS
    <2> HIDE DEF x, y, z
    <2>5. x <= e <=> k <= r - 1
        BY ONLY e \in Nat, <2>2, <2>3, <2>4
    <2> QED
        BY <2>5 DEF x
  <1>6. DOMAIN t \ {0} = 1 .. n
    <2>1. DOMAIN t = 0 .. n
        BY DEF IsSums
    <2>2. (0 .. n) \ {0} = 1 .. n
        OBVIOUS
    <2> QED
        BY <2>1, <2>2
  <1>7. {k \in DOMAIN t \ {0} : t[k] <= e} = 1 .. r - 1
      BY <1>5, <1>6
  <1>8. Cardinality(1 .. r - 1) = r - 1
    <2>1. r - 1 \in Int /\ 1 \in Int
        OBVIOUS
    <2>2. Cardinality(1 .. (r - 1)) = IF 1 > r - 1 THEN 0 ELSE (r - 1) - 1 + 1
        BY <2>1, FS_Interval
    <2> QED
        BY <2>2
  <1>9. OwnerOf(t, e) = Cardinality(1 .. r - 1) + 1
      BY <1>7 DEF OwnerOf
  <1> QED
      BY <1>8, <1>9

-----------------------------------------------------------------------------
(* Write plans.                                                            *)

Place(tables, r, b) == tables[r][b * Ratio + 1] \div Ratio

Counts(starts, ends, n) ==
  [r \in 1 .. n |-> IF ends[r] > starts[r] THEN ends[r] - starts[r] ELSE 0]

\* The plan writes the blocks starts[r] .. ends[r] - 1 of each row r, once and at
\* their places; what else it holds goes to slot 0.
Serves(plan, n, tables, starts, ends) ==
  /\ \A e \in DOMAIN plan : plan[e].loc # 0 =>
       /\ plan[e].row \in 1 .. n
       /\ plan[e].block \in starts[plan[e].row] .. ends[plan[e].row] - 1
       /\ plan[e].loc = Place(tables, plan[e].row, plan[e].block)
       /\ plan[e] # Inert
  /\ \A r \in 1 .. n : \A b \in starts[r] .. ends[r] - 1 :
       \E e \in DOMAIN plan : plan[e].row = r /\ plan[e].block = b /\ plan[e].loc = Place(tables, r, b)
  /\ \A e, f \in DOMAIN plan :
       plan[e].row = plan[f].row /\ plan[e].block = plan[f].block
         /\ plan[e].loc # 0 /\ plan[f].loc # 0 => e = f

\* The packed plan serves when it has room for all blocks.
LEMMA WritePlanServes ==
  ASSUME NEW n \in Nat, NEW starts, NEW ends, NEW tables, NEW capacity \in Nat,
         starts \in [1 .. n -> Nat], ends \in [1 .. n -> Nat], Len(ends) = n,
         CumulativeSum(Counts(starts, ends, n))[n] <= capacity
  PROVE  /\ Serves(WritePlan(tables, starts, ends, capacity), n, tables, starts, ends)
         /\ DOMAIN WritePlan(tables, starts, ends, capacity) = 1 .. capacity
  <1> DEFINE c == Counts(starts, ends, n)
             t == CumulativeSum(c)
             plan == WritePlan(tables, starts, ends, capacity)
             Entry(e) == [row |-> OwnerOf(t, e),
                          block |-> starts[OwnerOf(t, e)] + e - t[OwnerOf(t, e) - 1],
                          loc |-> tables[OwnerOf(t, e)][(starts[OwnerOf(t, e)] + e - t[OwnerOf(t, e) - 1]) * Ratio + 1] \div Ratio]
  <1>1. /\ c \in [1 .. n -> Nat] /\ Len(c) = n
        /\ \A r \in 1 .. n : c[r] = IF ends[r] > starts[r] THEN ends[r] - starts[r] ELSE 0
    <2>1. \A r \in 1 .. n : starts[r] \in Nat /\ ends[r] \in Nat
        OBVIOUS
    <2> QED
        BY <2>1 DEF Counts
  <1>2. IsSums(t, c, n)
    <2> HIDE DEF c
    <2> QED
        BY <1>1, SumsAreSums
  <1>3. plan = [e \in 1 .. capacity |-> IF e - 1 < t[n] THEN Entry(e - 1) ELSE Inert]
    <2>1. DOMAIN ends = 1 .. n
        OBVIOUS
    <2>2. c = [r \in DOMAIN ends |-> IF ends[r] > starts[r] THEN ends[r] - starts[r] ELSE 0]
        BY <2>1 DEF Counts
    <2> QED
        BY <2>2 DEF WritePlan
  <1> HIDE DEF c, t, plan
  <1>4. \A r \in 0 .. n : t[r] \in Nat
      BY <1>2 DEF IsSums
  <1>5. ASSUME NEW e \in 1 .. capacity, e - 1 < t[n]
        PROVE  \E r \in 1 .. n : \E b \in starts[r] .. ends[r] - 1 :
                 /\ plan[e] = [row |-> r, block |-> b, loc |-> Place(tables, r, b)]
                 /\ e - 1 = t[r - 1] + b - starts[r]
    <2>1. e - 1 \in Nat
        OBVIOUS
    <2>2. PICK r \in 1 .. n : t[r - 1] <= e - 1 /\ e - 1 < t[r]
        BY <2>1, <1>5, <1>2, OwnerExists
    <2>3. OwnerOf(t, e - 1) = r
        BY <2>1, <2>2, <1>1, <1>2, OwnerIs
    <2> DEFINE b == starts[r] + (e - 1) - t[r - 1]
    <2>4. t[r] = t[r - 1] + c[r] /\ t[r - 1] \in Nat /\ t[r] \in Nat
      <3>1. r - 1 \in 0 .. n
          OBVIOUS
      <3> QED
          BY <3>1, <1>2 DEF IsSums
    <2>5. starts[r] \in Nat /\ ends[r] \in Nat
        OBVIOUS
    <2>6. b \in starts[r] .. ends[r] - 1 /\ e - 1 = t[r - 1] + b - starts[r]
      <3>1. c[r] = IF ends[r] > starts[r] THEN ends[r] - starts[r] ELSE 0
          BY <1>1
      <3>2. c[r] # 0
          BY <2>1, <2>2, <2>4
      <3>3. c[r] = ends[r] - starts[r]
          BY <3>1, <3>2
      <3> DEFINE x == starts[r]  y == ends[r]  v == t[r - 1]  w == t[r]  q == e - 1
      <3>4. x \in Nat /\ y \in Nat /\ v \in Nat /\ w \in Nat /\ q \in Nat
          BY <2>1, <2>4, <2>5
      <3>5. v <= q /\ q < w /\ w = v + (y - x)
          BY <2>2, <2>4, <3>3
      <3>6. b = x + q - v
          OBVIOUS
      <3> HIDE DEF x, y, v, w, q, b
      <3>7. b \in x .. y - 1 /\ q = v + b - x
          BY ONLY <3>4, <3>5, <3>6
      <3> QED
          BY <3>7 DEF x, y, v, q
    <2>7. plan[e] = [row |-> r, block |-> b, loc |-> Place(tables, r, b)]
      <3>1. plan[e] = Entry(e - 1)
          BY <1>3, <1>5
      <3> QED
          BY <3>1, <2>3 DEF Place
    <2> HIDE DEF b
    <2> QED
        BY <2>6, <2>7
  <1>6. ASSUME NEW e \in 1 .. capacity, plan[e].loc # 0
        PROVE  e - 1 < t[n]
    <2> SUFFICES ASSUME ~ (e - 1 < t[n]) PROVE FALSE
        OBVIOUS
    <2>1. plan[e] = Inert
        BY <1>3
    <2> QED
        BY <2>1, <1>6 DEF Inert
  <1>7. DOMAIN plan = 1 .. capacity
      BY <1>3
  <1>8. ASSUME NEW e \in DOMAIN plan, plan[e].loc # 0
        PROVE  /\ plan[e].row \in 1 .. n
               /\ plan[e].block \in starts[plan[e].row] .. ends[plan[e].row] - 1
               /\ plan[e].loc = Place(tables, plan[e].row, plan[e].block)
               /\ plan[e] # Inert
               /\ e - 1 = t[plan[e].row - 1] + plan[e].block - starts[plan[e].row]
    <2>a. PICK r \in 1 .. n : \E b \in starts[r] .. ends[r] - 1 :
            /\ plan[e] = [row |-> r, block |-> b, loc |-> Place(tables, r, b)]
            /\ e - 1 = t[r - 1] + b - starts[r]
        BY <1>5, <1>6, <1>7, <1>8
    <2>1. PICK b \in starts[r] .. ends[r] - 1 :
            /\ plan[e] = [row |-> r, block |-> b, loc |-> Place(tables, r, b)]
            /\ e - 1 = t[r - 1] + b - starts[r]
        BY <2>a
    <2>2. plan[e].row = r /\ plan[e].block = b /\ plan[e].loc = Place(tables, r, b)
        BY <2>1
    <2>3. plan[e] # Inert
        BY <1>8 DEF Inert
    <2> QED
        BY <2>1, <2>2, <2>3
  <1>9. ASSUME NEW r \in 1 .. n, NEW b \in starts[r] .. ends[r] - 1
        PROVE  \E e \in DOMAIN plan :
                 plan[e].row = r /\ plan[e].block = b /\ plan[e].loc = Place(tables, r, b)
    <2>1. starts[r] \in Nat /\ ends[r] \in Nat
        OBVIOUS
    <2>2. t[r] = t[r - 1] + c[r] /\ t[r - 1] \in Nat /\ t[r] \in Nat /\ t[n] \in Nat
      <3>1. r - 1 \in 0 .. n
          OBVIOUS
      <3> QED
          BY <3>1, <1>2 DEF IsSums
    <2>3. t[r] <= t[n]
      <3>1. r \in 0 .. n /\ n \in r .. n
          OBVIOUS
      <3> HIDE DEF t, c
      <3> QED
          BY <1>1, <1>2, <3>1, SumsRise
    <2> DEFINE d == t[r - 1] + b - starts[r]
    <2>4. c[r] = ends[r] - starts[r]
        BY <1>1, <2>1
    <2>5. d \in Nat /\ t[r - 1] <= d /\ d < t[r] /\ d < t[n] /\ d + 1 \in 1 .. capacity
      <3>1. t[n] <= capacity
          BY DEF t, c
      <3>2. \A x, y, v, w, z \in Nat :
              b \in x .. y - 1 /\ w = v + (y - x) /\ w <= z /\ z <= capacity
                => /\ v + b - x \in Nat /\ v <= v + b - x /\ v + b - x < w
                   /\ v + b - x < z /\ v + b - x + 1 \in 1 .. capacity
          OBVIOUS
      <3> QED
          BY <2>1, <2>2, <2>3, <2>4, <3>1, <3>2
    <2>6. OwnerOf(t, d) = r
      <3> HIDE DEF d
      <3> QED
          BY <2>5, <1>1, <1>2, OwnerIs
    <2>7. starts[r] + d - t[r - 1] = b
      <3> DEFINE x == starts[r]  y == t[r - 1]
      <3>1. x \in Nat /\ y \in Nat /\ b \in Int
          BY <2>1, <2>2
      <3>2. d = y + b - x
          OBVIOUS
      <3> HIDE DEF x, y, d
      <3>3. x + d - y = b
          BY ONLY <3>1, <3>2
      <3> QED
          BY <3>3 DEF x, y
    <2>8. plan[d + 1] = Entry(d)
      <3>1. (d + 1) - 1 = d
          BY <2>5
      <3> HIDE DEF d, Entry
      <3> QED
          BY <1>3, <2>5, <3>1
    <2>9. plan[d + 1].row = r /\ plan[d + 1].block = b /\ plan[d + 1].loc = Place(tables, r, b)
      <3> HIDE DEF d
      <3> QED
          BY <2>6, <2>7, <2>8 DEF Place
    <2> HIDE DEF d
    <2> QED
        BY <2>5, <2>9, <1>7
  <1>10. \A e, f \in DOMAIN plan :
           plan[e].row = plan[f].row /\ plan[e].block = plan[f].block
             /\ plan[e].loc # 0 /\ plan[f].loc # 0 => e = f
    <2> SUFFICES ASSUME NEW e \in DOMAIN plan, NEW f \in DOMAIN plan,
                        plan[e].row = plan[f].row, plan[e].block = plan[f].block,
                        plan[e].loc # 0, plan[f].loc # 0
                 PROVE  e = f
        OBVIOUS
    <2>1. e - 1 = f - 1
        BY <1>8
    <2> QED
        BY <2>1, <1>7
  <1> QED
      BY <1>7, <1>8, <1>9, <1>10 DEF Serves, plan

\* What a forward's plan must do to the compressed keys: `work` holds the pairs of
\* a row and a block to write, `place` their slots.
Covers(plan, work, place) ==
  /\ \A e \in DOMAIN plan : plan[e].loc # 0 =>
       /\ <<plan[e].row, plan[e].block>> \in work
       /\ plan[e].loc = place[<<plan[e].row, plan[e].block>>]
       /\ plan[e] # Inert
  /\ \A w \in work : \E e \in DOMAIN plan :
       <<plan[e].row, plan[e].block>> = w /\ plan[e].loc = place[w]
  /\ \A e, f \in DOMAIN plan :
       <<plan[e].row, plan[e].block>> = <<plan[f].row, plan[f].block>>
         /\ plan[e].loc # 0 /\ plan[f].loc # 0 => e = f

Between(starts, ends, n) == {w \in (1 .. n) \X Nat : w[2] \in starts[w[1]] .. ends[w[1]] - 1}

LEMMA ServesCovers ==
  ASSUME NEW n \in Nat, NEW starts, NEW ends, NEW tables, NEW plan, NEW place,
         starts \in [1 .. n -> Nat], ends \in [1 .. n -> Nat],
         Serves(plan, n, tables, starts, ends),
         \A w \in Between(starts, ends, n) : place[w] = Place(tables, w[1], w[2])
  PROVE  Covers(plan, Between(starts, ends, n), place)
  <1> DEFINE work == Between(starts, ends, n)
  <1>1. \A r \in 1 .. n : \A b : b \in starts[r] .. ends[r] - 1 <=> <<r, b>> \in work
    <2>1. \A r \in 1 .. n : starts[r] \in Nat
        OBVIOUS
    <2>2. \A r \in 1 .. n : \A b : b \in starts[r] .. ends[r] - 1 => b \in Nat
        BY <2>1
    <2> QED
        BY <2>2 DEF Between
  <1>2. \A w \in work : /\ w[1] \in 1 .. n /\ w[2] \in starts[w[1]] .. ends[w[1]] - 1
                        /\ w = <<w[1], w[2]>>
      BY DEF Between
  <1>3. \A w \in work : place[w] = Place(tables, w[1], w[2])
      OBVIOUS
  <1> HIDE DEF work
  <1>4. ASSUME NEW e \in DOMAIN plan, plan[e].loc # 0
        PROVE  /\ <<plan[e].row, plan[e].block>> \in work
               /\ plan[e].loc = place[<<plan[e].row, plan[e].block>>]
               /\ plan[e] # Inert
    <2> DEFINE w == <<plan[e].row, plan[e].block>>
    <2>1. /\ plan[e].row \in 1 .. n
          /\ plan[e].block \in starts[plan[e].row] .. ends[plan[e].row] - 1
          /\ plan[e].loc = Place(tables, plan[e].row, plan[e].block)
          /\ plan[e] # Inert
        BY <1>4 DEF Serves
    <2>2. w \in work
        BY <2>1, <1>1
    <2>3. place[w] = Place(tables, plan[e].row, plan[e].block)
        BY <2>2, <1>3
    <2> QED
        BY <2>1, <2>2, <2>3
  <1>5. ASSUME NEW w \in work
        PROVE  \E e \in DOMAIN plan :
                 <<plan[e].row, plan[e].block>> = w /\ plan[e].loc = place[w]
    <2>1. PICK e \in DOMAIN plan : /\ plan[e].row = w[1] /\ plan[e].block = w[2]
                                   /\ plan[e].loc = Place(tables, w[1], w[2])
        BY <1>2 DEF Serves
    <2>2. <<plan[e].row, plan[e].block>> = w /\ plan[e].loc = place[w]
        BY <2>1, <1>2, <1>3
    <2> QED
        BY <2>2
  <1>6. \A e, f \in DOMAIN plan :
          <<plan[e].row, plan[e].block>> = <<plan[f].row, plan[f].block>>
            /\ plan[e].loc # 0 /\ plan[f].loc # 0 => e = f
      BY DEF Serves
  <1> QED
      BY <1>4, <1>5, <1>6 DEF Covers, work

\* The effect of a plan: each block to write goes to its slot, nothing else changes.
Lands(plan, work, place, w) ==
  /\ Covers(plan, work, place) /\ \A u, v \in work : place[u] = place[v] => u = v
  /\ w \in work /\ place[w] \in Slots /\ place[w] # 0

HoldsEntry(plan, blocks, place, w) ==
  \E e \in DOMAIN plan :
    /\ plan[e].row = w[1] /\ plan[e].block = w[2] /\ plan[e].loc = place[w]
    /\ plan[e] # Inert
    /\ Written(plan, blocks)[place[w]] = blocks[e]

LEMMA WrittenThere ==
  ASSUME NEW plan, NEW work, NEW place, NEW blocks, NEW w, Lands(plan, work, place, w)
  PROVE  HoldsEntry(plan, blocks, place, w)
  <1>0. /\ Covers(plan, work, place) /\ \A u, v \in work : place[u] = place[v] => u = v
        /\ w \in work /\ place[w] \in Slots /\ place[w] # 0
      BY DEF Lands
  <1> USE <1>0
  <1>1. PICK e \in DOMAIN plan :
          <<plan[e].row, plan[e].block>> = w /\ plan[e].loc = place[w]
      BY DEF Covers
  <1> DEFINE writers == {f \in DOMAIN plan : place[w] # 0 /\ plan[f].loc = place[w]}
  <1>2. ASSUME NEW f \in DOMAIN plan, plan[f].loc = place[w] PROVE f = e
    <2>1. /\ <<plan[f].row, plan[f].block>> \in work
          /\ plan[f].loc = place[<<plan[f].row, plan[f].block>>]
        BY <1>2 DEF Covers
    <2>2. <<plan[f].row, plan[f].block>> = w
        BY <2>1, <1>2
    <2> QED
        BY <1>1, <1>2, <2>2 DEF Covers
  <1>3. writers = {e}
      BY <1>1, <1>2
  <1>4. Cardinality(writers) = 1
      BY <1>3, FS_Singleton
  <1>5. Written(plan, blocks)[place[w]] = blocks[e]
    <2>1. Written(plan, blocks)[place[w]] =
            IF writers = {} THEN comp[place[w]]
            ELSE IF Cardinality(writers) > 1 THEN [j \in Offsets |-> Junk]
            ELSE blocks[CHOOSE f \in writers : TRUE]
        BY DEF Written
    <2>2. (CHOOSE f \in writers : TRUE) = e /\ writers # {}
        BY <1>3
    <2> HIDE DEF writers
    <2>3. ~ (Cardinality(writers) > 1)
        BY <1>4
    <2> QED
        BY <2>1, <2>2, <2>3
  <1>6. plan[e].row = w[1] /\ plan[e].block = w[2] /\ plan[e] # Inert
      BY <1>1 DEF Covers
  <1> QED
      BY <1>1, <1>5, <1>6 DEF HoldsEntry

LEMMA WrittenElsewhere ==
  ASSUME NEW plan, NEW work, NEW place, NEW blocks, Covers(plan, work, place),
         NEW s \in Slots, \A w \in work : place[w] # s
  PROVE  Written(plan, blocks)[s] = comp[s]
  <1>1. ASSUME NEW e \in DOMAIN plan, s # 0, plan[e].loc = s PROVE FALSE
    <2>1. /\ <<plan[e].row, plan[e].block>> \in work
          /\ plan[e].loc = place[<<plan[e].row, plan[e].block>>]
        BY <1>1 DEF Covers
    <2> QED
        BY <1>1, <2>1
  <1>2. {e \in DOMAIN plan : s # 0 /\ plan[e].loc = s} = {}
      BY <1>1
  <1> QED
      BY <1>2 DEF Written

-----------------------------------------------------------------------------
(* Blocks, pages and slots.                                                *)

\* Blocks of a page.
PerPage == Page \div Ratio

\* The slot of block b of a request with pages pg.
SlotAt(pg, b) == pg[b \div PerPage + 1] * PerPage + (b % PerPage)

LEMMA Divided ==
  ASSUME NEW d \in Nat \ {0}, NEW i \in Nat, NEW o \in 0 .. d - 1
  PROVE  (i * d + o) \div d = i /\ (i * d + o) % d = o
  OBVIOUS

LEMMA Division ==
  ASSUME NEW d \in Nat \ {0}, NEW a \in Nat
  PROVE  /\ a \div d \in Nat /\ a % d \in 0 .. d - 1 /\ a = (a \div d) * d + (a % d)
         /\ (a \div d) * d <= a /\ a < (a \div d) * d + d
  OBVIOUS

LEMMA WholeBlocks == PerPage \in Nat \ {0} /\ Page = PerPage * Ratio
  <1>1. Ratio \in Nat \ {0} /\ Page \in Nat \ {0} /\ Page % Ratio = 0
      BY RatioAssumption, PageAssumption
  <1>2. Page = (Page \div Ratio) * Ratio + (Page % Ratio) /\ Page \div Ratio \in Nat
      BY <1>1, Division
  <1> QED
      BY <1>1, <1>2 DEF PerPage

LEMMA Spread ==
  ASSUME NEW i \in Nat, NEW k \in Nat, NEW c \in Nat, NEW d \in Nat
  PROVE  (i * k + c) * d = i * (k * d) + c * d
  OBVIOUS

\* c blocks and o tokens, of a page that has k of the blocks.
LEMMA InPage ==
  ASSUME NEW k \in Nat \ {0}, NEW d \in Nat \ {0}, NEW c \in 0 .. k - 1, NEW o \in 0 .. d - 1
  PROVE  c * d + o \in 0 .. (k * d) - 1
  <1>1. c + 1 <= k /\ c \in Nat /\ c * d \in Nat /\ k * d \in Nat
      OBVIOUS
  <1>2. (c + 1) * d <= k * d
    <2>1. \A x, y, z \in Nat : x <= y => x * z <= y * z
        OBVIOUS
    <2> QED
        BY <1>1, <2>1
  <1>3. (c + 1) * d = c * d + d
      BY <1>1
  <1> QED
      BY <1>1, <1>2, <1>3

\* A block lies in its page: its tokens' raw slots agree on the page and, divided
\* by the ratio, on the slot, whichever token the block is addressed by.
LEMMA TableSlot ==
  ASSUME NEW pg, pg \in Seq(1 .. Pages), NEW b \in Nat, b < Len(pg) * PerPage,
         NEW o \in Offsets
  PROVE  /\ b * Ratio + o + 1 \in 1 .. Len(pg) * Page
         /\ Table(pg)[b * Ratio + o + 1] \div Ratio = SlotAt(pg, b)
  <1> DEFINE k == PerPage  i == b \div k  c == b % k
  <1>1. k \in Nat \ {0} /\ Ratio \in Nat \ {0} /\ Page = k * Ratio /\ Len(pg) \in Nat
      BY WholeBlocks, RatioAssumption
  <1>2. i \in Nat /\ c \in 0 .. k - 1 /\ b = i * k + c
      BY <1>1, Division
  <1>3. o \in 0 .. Ratio - 1
      BY DEF Offsets
  <1> HIDE DEF k, i, c
  <1> DEFINE x == c * Ratio + o
  <1>4. x \in 0 .. Page - 1
      BY <1>1, <1>2, <1>3, InPage
  <1>5. b * Ratio + o = i * Page + x
    <2>1. b * Ratio = i * (k * Ratio) + c * Ratio
        BY <1>1, <1>2, Spread
    <2> QED
        BY <2>1, <1>1, <1>2, <1>3
  <1>6. (b * Ratio + o) \div Page = i /\ (b * Ratio + o) % Page = x
    <2>1. Page \in Nat \ {0}
        BY PageAssumption
    <2> HIDE DEF x
    <2> QED
        BY <1>2, <1>4, <1>5, <2>1, Divided
  <1>7. i < Len(pg)
    <2> SUFFICES ASSUME i >= Len(pg) PROVE FALSE
        BY <1>1, <1>2
    <2>1. Len(pg) * k <= i * k
      <3>1. \A l, m, n \in Nat : l <= m => l * n <= m * n
          OBVIOUS
      <3> QED
          BY <1>1, <1>2, <3>1
    <2>2. b < Len(pg) * k
        BY DEF k
    <2> QED
        BY <1>1, <1>2, <2>1, <2>2
  <1>8. b * Ratio + o + 1 \in 1 .. Len(pg) * Page
    <2>1. Page \in Nat \ {0} /\ b * Ratio \in Nat
        BY PageAssumption, <1>1
    <2>2. (i + 1) * Page <= Len(pg) * Page
      <3>1. \A l, m, n \in Nat : l <= m => l * n <= m * n
          OBVIOUS
      <3> QED
          BY <1>1, <1>2, <1>7, <2>1, <3>1
    <2>3. (i + 1) * Page = i * Page + Page /\ i * Page \in Nat /\ Len(pg) * Page \in Nat
        BY <1>1, <1>2, <2>1
    <2> HIDE DEF x
    <2> QED
        BY <1>3, <1>4, <1>5, <2>1, <2>2, <2>3
  <1>9. Table(pg)[b * Ratio + o + 1] = pg[i + 1] * Page + x
    <2>1. (b * Ratio + o + 1) - 1 = b * Ratio + o
        BY <1>1, <1>3
    <2> HIDE DEF x
    <2> QED
        BY <1>6, <1>8, <2>1 DEF Table
  <1>10. pg[i + 1] \in Nat
      BY <1>1, <1>2, <1>7, PageAssumption
  <1>11. pg[i + 1] * Page + x = (pg[i + 1] * k + c) * Ratio + o
    <2>1. (pg[i + 1] * k + c) * Ratio = pg[i + 1] * (k * Ratio) + c * Ratio
        BY <1>1, <1>2, <1>10, Spread
    <2> QED
        BY <2>1, <1>1, <1>2, <1>3, <1>10
  <1>12. SlotAt(pg, b) = pg[i + 1] * k + c /\ SlotAt(pg, b) \in Nat
    <2>1. SlotAt(pg, b) = pg[i + 1] * k + c
        BY DEF SlotAt, k, i, c
    <2>2. pg[i + 1] * k \in Nat
        BY <1>1, <1>10
    <2> QED
        BY <1>1, <1>2, <2>1, <2>2
  <1> HIDE DEF x
  <1> DEFINE y == SlotAt(pg, b)
  <1>13. y \in Nat /\ Table(pg)[b * Ratio + o + 1] = y * Ratio + o
      BY <1>9, <1>11, <1>12
  <1> HIDE DEF y
  <1>14. Table(pg)[b * Ratio + o + 1] \div Ratio = y
      BY <1>1, <1>3, <1>13, Divided
  <1> QED
      BY <1>8, <1>14 DEF y

\* The slot of a block tells its page and its place there, and is never slot 0.
LEMMA SlotOfBlock ==
  ASSUME NEW pg, pg \in Seq(1 .. Pages), NEW b \in Nat, b < Len(pg) * PerPage
  PROVE  /\ b \div PerPage + 1 \in DOMAIN pg
         /\ SlotAt(pg, b) \in Slots /\ SlotAt(pg, b) # 0
         /\ SlotAt(pg, b) \div PerPage = pg[b \div PerPage + 1]
         /\ SlotAt(pg, b) % PerPage = b % PerPage
  <1> DEFINE k == PerPage  i == b \div k  c == b % k
  <1>1. k \in Nat \ {0} /\ Page = k * Ratio /\ Len(pg) \in Nat /\ Pages \in Nat
        /\ Ratio \in Nat \ {0}
      BY WholeBlocks, PageAssumption, RatioAssumption
  <1>2. i \in Nat /\ c \in 0 .. k - 1 /\ b = i * k + c
      BY <1>1, Division
  <1>a. b < Len(pg) * k /\ SlotAt(pg, b) = pg[i + 1] * k + c
      BY DEF SlotAt
  <1>3. \A l, m, n \in Nat : l <= m => l * n <= m * n
      OBVIOUS
  <1> SUFFICES /\ i + 1 \in DOMAIN pg
               /\ SlotAt(pg, b) \in Slots /\ SlotAt(pg, b) # 0
               /\ SlotAt(pg, b) \div k = pg[i + 1] /\ SlotAt(pg, b) % k = c
      OBVIOUS
  <1> HIDE DEF k, i, c
  <1>4. i < Len(pg)
    <2> SUFFICES ASSUME i >= Len(pg) PROVE FALSE
        BY <1>1, <1>2
    <2>1. Len(pg) * k <= i * k
        BY <1>1, <1>2, <1>3
    <2> QED
        BY <1>1, <1>2, <1>a, <2>1
  <1>5. i + 1 \in DOMAIN pg /\ pg[i + 1] \in 1 .. Pages
      BY <1>1, <1>2, <1>4
  <1> DEFINE p == pg[i + 1]
  <1>6. p \in 1 .. Pages /\ p \in Nat /\ SlotAt(pg, b) = p * k + c
      BY <1>1, <1>5, <1>a
  <1> HIDE DEF p
  <1>7. SlotAt(pg, b) \div k = p /\ SlotAt(pg, b) % k = c
    <2>1. k \in Nat \ {0} /\ c \in 0 .. k - 1
        BY <1>1, <1>2
    <2>2. (p * k + c) \div k = p /\ (p * k + c) % k = c
        BY ONLY <1>6, <2>1, Divided
    <2> QED
        BY <1>6, <2>2
  <1>8. SlotAt(pg, b) # 0 /\ SlotAt(pg, b) \in Nat
    <2>1. 1 * k <= p * k /\ p * k \in Nat
        BY <1>1, <1>3, <1>6
    <2> QED
        BY <1>1, <1>2, <1>6, <2>1
  <1>9. SlotAt(pg, b) <= ((Pages + 1) * Page) \div Ratio - 1
    <2>1. ((Pages + 1) * Page) = ((Pages + 1) * k) * Ratio
        BY <1>1
    <2>2. ((Pages + 1) * k) \in Nat
        BY <1>1
    <2>3. (((Pages + 1) * k) * Ratio + 0) \div Ratio = (Pages + 1) * k
        BY <1>1, <2>2, Divided
    <2>4. ((Pages + 1) * Page) \div Ratio = (Pages + 1) * k
        BY <2>1, <2>2, <2>3, <1>1
    <2>5. p * k <= Pages * k /\ p * k \in Nat /\ Pages * k \in Nat
        BY <1>1, <1>3, <1>6
    <2>6. (Pages + 1) * k = Pages * k + k
        BY <1>1
    <2>7. SlotAt(pg, b) <= Pages * k + k - 1
      <3> DEFINE x == p * k  y == Pages * k
      <3>1. x \in Nat /\ y \in Nat /\ x <= y /\ k \in Nat /\ c \in 0 .. k - 1 /\ SlotAt(pg, b) = x + c
          BY <1>1, <1>2, <1>6, <2>5
      <3> HIDE DEF x, y
      <3>2. x + c <= y + k - 1
          BY ONLY <3>1
      <3> QED
          BY <3>1, <3>2 DEF y
    <2>8. Pages * k + k - 1 = ((Pages + 1) * Page) \div Ratio - 1
      <3>1. k \in Nat /\ Pages * k \in Nat
          BY <1>1, <2>5
      <3> QED
          BY ONLY <2>4, <2>6, <3>1
    <2> QED
        BY <2>7, <2>8
  <1>10. SlotAt(pg, b) \in Slots
    <2>1. ((Pages + 1) * Page) \div Ratio - 1 \in Int
        BY <1>1
    <2> QED
        BY <1>8, <1>9, <2>1 DEF Slots
  <1> QED
      BY <1>5, <1>7, <1>8, <1>10 DEF p

\* The page of a slot.
LEMMA PageOfSlot ==
  ASSUME NEW s \in Nat
  PROVE  (s * Ratio) \div Page = s \div PerPage
  <1> DEFINE k == PerPage  i == s \div k  c == s % k
  <1>1. k \in Nat \ {0} /\ Ratio \in Nat \ {0} /\ Page = k * Ratio /\ Page \in Nat \ {0}
      BY WholeBlocks, RatioAssumption, PageAssumption
  <1>2. i \in Nat /\ c \in 0 .. k - 1 /\ s = i * k + c
      BY <1>1, Division
  <1> SUFFICES (s * Ratio) \div Page = i
      OBVIOUS
  <1> HIDE DEF k, i, c
  <1>3. s * Ratio = i * Page + c * Ratio
      BY <1>1, <1>2, Spread
  <1>4. c * Ratio \in 0 .. Page - 1
    <2>1. c * Ratio + 0 \in 0 .. (k * Ratio) - 1 /\ c * Ratio \in Nat
        BY <1>1, <1>2, InPage
    <2> QED
        BY <2>1, <1>1
  <1> QED
      BY <1>1, <1>2, <1>3, <1>4, Divided

-----------------------------------------------------------------------------
(* Pages, requests and the radix tree: who may read which page, as facts   *)
(* about texts tx, page lists pg and a tree tr.                            *)

HasPrefix(t, k) == Len(k) <= Len(t) /\ \A x \in 1 .. Len(k) : t[x] = k[x]

Nodes == [page : 1 .. Pages, key : Seq(Nat)]

Shape(tx, pg, tr) ==
  /\ \A r \in Req : /\ tx[r] \in Seq(Nat) /\ pg[r] \in Seq(1 .. Pages)
                    /\ Len(tx[r]) <= Len(pg[r]) * Page
  /\ \A n \in tr : n \in Nodes /\ \E m \in Nat \ {0} : Len(n.key) = m * Page

\* A request's pages differ, and a page of two requests is in the tree.
PagesDiffer(pg, tr) ==
  /\ \A r \in Req : \A i, j \in DOMAIN pg[r] : pg[r][i] = pg[r][j] => i = j
  /\ \A r, s \in Req : \A i \in DOMAIN pg[r] : \A j \in DOMAIN pg[s] :
       r # s /\ pg[r][i] = pg[s][j] => \E n \in tr : n.page = pg[r][i]

\* A page of the tree that a request has stands where its key ends, and the key
\* is a prefix of the request's text.
KeysArePrefixes(tx, pg, tr) ==
  \A r \in Req : \A i \in DOMAIN pg[r], n \in tr :
    n.page = pg[r][i] => Len(n.key) = i * Page /\ HasPrefix(tx[r], n.key)

\* One key per page, and every shorter prefix of a key has a page.
TreeIsClosed(tr) ==
  /\ \A n, m \in tr : n.page = m.page => n = m
  /\ \A n \in tr : \A i \in Nat \ {0} : i * Page <= Len(n.key) =>
       \E m \in tr : Len(m.key) = i * Page /\ HasPrefix(n.key, m.key)

Apart(tx, pg, tr) == PagesDiffer(pg, tr) /\ KeysArePrefixes(tx, pg, tr) /\ TreeIsClosed(tr)

LEMMA PrefixOf ==
  ASSUME NEW t, t \in Seq(Nat), NEW l \in 0 .. Len(t)
  PROVE  /\ SubSeq(t, 1, l) \in Seq(Nat) /\ Len(SubSeq(t, 1, l)) = l
         /\ HasPrefix(t, SubSeq(t, 1, l))
  <1>1. Len(t) \in Nat /\ \A i \in 1 .. Len(t) : t[i] \in Nat
      OBVIOUS
  <1>2. \A i \in 1 .. l : t[i] \in Nat
      BY <1>1
  <1>3. l \in Int /\ 1 \in Int
      BY <1>1
  <1>4. /\ SubSeq(t, 1, l) \in Seq(Nat)
        /\ Len(SubSeq(t, 1, l)) = IF 1 <= l THEN l - 1 + 1 ELSE 0
        /\ \A i \in 1 .. l - 1 + 1 : SubSeq(t, 1, l)[i] = t[1 + i - 1]
      BY <1>2, <1>3, SubSeqProperties
  <1>5. Len(SubSeq(t, 1, l)) = l
      BY <1>1, <1>4
  <1>6. \A i \in 1 .. l : SubSeq(t, 1, l)[i] = t[i]
    <2>1. \A i \in 1 .. l : i \in 1 .. l - 1 + 1 /\ 1 + i - 1 = i
        BY <1>1
    <2> QED
        BY <1>4, <2>1
  <1> QED
      BY <1>1, <1>4, <1>5, <1>6 DEF HasPrefix

LEMMA PrefixIs ==
  ASSUME NEW t, t \in Seq(Nat), NEW k, k \in Seq(Nat), HasPrefix(t, k)
  PROVE  k = SubSeq(t, 1, Len(k))
  <1> DEFINE s == SubSeq(t, 1, Len(k))
  <1>1. Len(k) \in 0 .. Len(t)
      BY DEF HasPrefix
  <1>2. s \in Seq(Nat) /\ Len(s) = Len(k) /\ HasPrefix(t, s)
      BY <1>1, PrefixOf
  <1>3. \A i \in 1 .. Len(k) : k[i] = s[i]
      BY <1>2 DEF HasPrefix
  <1> HIDE DEF s
  <1>4. k = s
      BY <1>2, <1>3, SeqEqual
  <1> QED
      BY <1>4 DEF s

\* Prefixes of one text of the same length are the same.
LEMMA SamePrefix ==
  ASSUME NEW t, t \in Seq(Nat), NEW k, k \in Seq(Nat), NEW l, l \in Seq(Nat),
         HasPrefix(t, k), HasPrefix(t, l), Len(k) = Len(l)
  PROVE  k = l
  BY PrefixIs

LEMMA PrefixWithin ==
  ASSUME NEW t, t \in Seq(Nat), NEW k, k \in Seq(Nat), NEW l, l \in Seq(Nat),
         HasPrefix(t, k), HasPrefix(t, l), Len(l) <= Len(k)
  PROVE  HasPrefix(k, l)
  <1>1. Len(l) \in Nat /\ Len(k) \in Nat
      OBVIOUS
  <1> QED
      BY <1>1 DEF HasPrefix

LEMMA PrefixThrough ==
  ASSUME NEW t, t \in Seq(Nat), NEW k, k \in Seq(Nat), NEW l, l \in Seq(Nat),
         HasPrefix(t, k), HasPrefix(k, l)
  PROVE  HasPrefix(t, l)
  <1>1. Len(l) \in Nat /\ Len(k) \in Nat /\ Len(t) \in Nat
      OBVIOUS
  <1> QED
      BY <1>1 DEF HasPrefix

\* A whole page of the text is one of the request's pages.
LEMMA PageOfText ==
  ASSUME NEW tx, NEW pg, NEW tr, Shape(tx, pg, tr), NEW r \in Req, NEW i \in Nat \ {0}
  PROVE  /\ i \in 1 .. Len(tx[r]) \div Page <=> i * Page <= Len(tx[r])
         /\ i * Page <= Len(tx[r]) => i \in DOMAIN pg[r] /\ i * Page \in 0 .. Len(tx[r])
  <1>1. Page \in Nat \ {0}
      BY PageAssumption
  <1>2. /\ Len(tx[r]) \in Nat /\ Len(pg[r]) \in Nat /\ Len(tx[r]) <= Len(pg[r]) * Page
        /\ DOMAIN pg[r] = 1 .. Len(pg[r])
      BY DEF Shape
  <1> DEFINE l == Len(tx[r])  q == l \div Page  m == Len(pg[r])
  <1>3. q \in Nat /\ q * Page <= l /\ l < q * Page + Page
      BY <1>1, <1>2, Division
  <1>4. \A a, b \in Nat : a <= b => a * Page <= b * Page
    <2>1. \A a, b, c \in Nat : a <= b => a * c <= b * c
        OBVIOUS
    <2> QED
        BY <1>1, <2>1
  <1>5. i <= q <=> i * Page <= l
    <2>1. i * Page \in Nat /\ q * Page \in Nat /\ (q + 1) * Page = q * Page + Page
      <3>1. \A x \in Nat : x * Page \in Nat /\ (x + 1) * Page = x * Page + Page
          BY <1>1
      <3> HIDE DEF q
      <3> QED
          BY <1>3, <3>1
    <2>2. CASE i <= q
        BY <1>2, <1>3, <1>4, <2>1, <2>2
    <2>3. CASE i > q
      <3>1. q + 1 <= i /\ q + 1 \in Nat
          BY <1>3, <2>3
      <3>2. (q + 1) * Page <= i * Page
          BY <1>4, <3>1
      <3> HIDE DEF l, q, m
      <3> QED
          BY <1>1, <1>2, <1>3, <2>1, <2>3, <3>2 DEF l
    <2> QED
        BY <1>3, <2>2, <2>3
  <1>6. i * Page <= l => i <= m
    <2> SUFFICES ASSUME i * Page <= l, i > m PROVE FALSE
        BY <1>2
    <2>1. m + 1 <= i /\ m + 1 \in Nat /\ (m + 1) * Page = m * Page + Page
        BY <1>1, <1>2
    <2>2. (m + 1) * Page <= i * Page
        BY <1>4, <2>1
    <2>3. m * Page \in Nat /\ i * Page \in Nat
        BY <1>1, <1>2
    <2> HIDE DEF l, m
    <2> QED
        BY <1>1, <1>2, <2>1, <2>2, <2>3 DEF l, m
  <1>7. i * Page \in Nat
      BY <1>1
  <1> HIDE DEF q, m
  <1> QED
      BY <1>2, <1>3, <1>5, <1>6, <1>7 DEF q, m

\* A node of the tree on a request's page is what the request would publish there.
Node(tx, pg, r, i) == [page |-> pg[r][i], key |-> SubSeq(tx[r], 1, i * Page)]

LEMMA NodeMeans ==
  ASSUME NEW tx, NEW pg, NEW tr, Shape(tx, pg, tr), NEW r \in Req, NEW i \in Nat \ {0},
         i * Page <= Len(tx[r]), NEW n, n = Node(tx, pg, r, i)
  PROVE  /\ i \in DOMAIN pg[r] /\ n \in Nodes /\ n.page = pg[r][i]
         /\ Len(n.key) = i * Page /\ HasPrefix(tx[r], n.key)
  <1>1. i \in DOMAIN pg[r] /\ i * Page \in 0 .. Len(tx[r])
      BY PageOfText
  <1>2. tx[r] \in Seq(Nat) /\ pg[r] \in Seq(1 .. Pages)
      BY DEF Shape
  <1>3. /\ SubSeq(tx[r], 1, i * Page) \in Seq(Nat)
        /\ Len(SubSeq(tx[r], 1, i * Page)) = i * Page
        /\ HasPrefix(tx[r], SubSeq(tx[r], 1, i * Page))
      BY <1>1, <1>2, PrefixOf
  <1>4. pg[r][i] \in 1 .. Pages
    <2>1. i \in 1 .. Len(pg[r])
        BY <1>1, <1>2
    <2> QED
        BY <1>2, <2>1, ElementOfSeq
  <1>5. n.page = pg[r][i] /\ n.key = SubSeq(tx[r], 1, i * Page)
      BY DEF Node
  <1>6. n \in Nodes
      BY <1>3, <1>4 DEF Node, Nodes
  <1> QED
      BY <1>1, <1>3, <1>5, <1>6

LEMMA NodeIs ==
  ASSUME NEW tx, NEW pg, NEW tr, Shape(tx, pg, tr), KeysArePrefixes(tx, pg, tr),
         NEW r \in Req, NEW i \in DOMAIN pg[r], NEW n \in tr, n.page = pg[r][i]
  PROVE  i \in Nat \ {0} /\ i * Page <= Len(tx[r]) /\ n = Node(tx, pg, r, i)
  <1>1. Len(n.key) = i * Page /\ HasPrefix(tx[r], n.key)
      BY DEF KeysArePrefixes
  <1>2. n \in Nodes /\ tx[r] \in Seq(Nat) /\ n.key \in Seq(Nat) /\ pg[r] \in Seq(1 .. Pages)
      BY DEF Shape, Nodes
  <1>3. n.key = SubSeq(tx[r], 1, i * Page)
      BY <1>1, <1>2, PrefixIs
  <1>4. n = [page |-> n.page, key |-> n.key]
      BY <1>2 DEF Nodes
  <1>5. i \in Nat \ {0}
      BY <1>2
  <1> QED
      BY <1>1, <1>3, <1>4, <1>5 DEF Node, HasPrefix

\* What a set of requests publishes.
PublishedBy(tx, pg, rs) ==
  {Node(tx, pg, w[1], w[2]) : w \in {v \in rs \X (Nat \ {0}) : v[2] * Page <= Len(tx[v[1]])}}

LEMMA PublishedIs ==
  ASSUME NEW tx, NEW pg, NEW tr, Shape(tx, pg, tr), NEW r \in Req
  PROVE  Published(pg[r], tx[r]) = PublishedBy(tx, pg, {r})
  <1> DEFINE l == Len(tx[r]) \div Page
  <1>1. \A i \in Nat \ {0} : i \in 1 .. l <=> i * Page <= Len(tx[r])
      BY PageOfText
  <1>2. l \in Nat
    <2>1. Len(tx[r]) \in Nat /\ Page \in Nat \ {0}
        BY PageAssumption DEF Shape
    <2> QED
        BY <2>1, Division
  <1>3. Published(pg[r], tx[r]) = {Node(tx, pg, r, i) : i \in 1 .. l}
      BY DEF Published, Node
  <1> HIDE DEF l
  <1>4. 1 .. l \subseteq Nat \ {0}
      BY <1>2
  <1>5. ASSUME NEW n PROVE n \in Published(pg[r], tx[r]) <=> n \in PublishedBy(tx, pg, {r})
    <2>1. ASSUME n \in Published(pg[r], tx[r]) PROVE n \in PublishedBy(tx, pg, {r})
      <3>1. PICK i \in 1 .. l : n = Node(tx, pg, r, i)
          BY <1>3, <2>1
      <3> DEFINE w == <<r, i>>
      <3>2. w \in {r} \X (Nat \ {0}) /\ w[2] * Page <= Len(tx[w[1]]) /\ n = Node(tx, pg, w[1], w[2])
          BY <1>1, <1>4, <3>1
      <3> HIDE DEF w
      <3> QED
          BY <3>2 DEF PublishedBy
    <2>2. ASSUME n \in PublishedBy(tx, pg, {r}) PROVE n \in Published(pg[r], tx[r])
      <3>1. PICK w \in {r} \X (Nat \ {0}) : w[2] * Page <= Len(tx[w[1]]) /\ n = Node(tx, pg, w[1], w[2])
          BY <2>2 DEF PublishedBy
      <3>2. w[1] = r /\ w[2] \in 1 .. l
          BY <1>1, <3>1
      <3> QED
          BY <1>3, <3>1, <3>2
    <2> QED
        BY <2>1, <2>2
  <1> QED
      BY <1>5

LEMMA PublishedOne ==
  ASSUME NEW tx, NEW pg, NEW rs, rs \subseteq Req,
         NEW n \in PublishedBy(tx, pg, rs)
  PROVE  \E r \in rs : \E i \in Nat \ {0} : i * Page <= Len(tx[r]) /\ n = Node(tx, pg, r, i)
  BY DEF PublishedBy

LEMMA PublishKeeps ==
  ASSUME NEW tx, NEW pg, NEW tr, NEW rs, rs \subseteq Req,
         Shape(tx, pg, tr), Apart(tx, pg, tr)
  PROVE  Shape(tx, pg, tr \cup PublishedBy(tx, pg, rs)) /\ Apart(tx, pg, tr \cup PublishedBy(tx, pg, rs))
  <1> DEFINE new == tr \cup PublishedBy(tx, pg, rs)
  <1>1. ASSUME NEW n \in new, n \notin tr
        PROVE  \E r \in rs : \E i \in Nat \ {0} :
                 /\ i * Page <= Len(tx[r]) /\ n = Node(tx, pg, r, i)
                 /\ i \in DOMAIN pg[r] /\ n \in Nodes /\ n.page = pg[r][i]
                 /\ Len(n.key) = i * Page /\ HasPrefix(tx[r], n.key)
    <2>1. PICK r \in rs : \E i \in Nat \ {0} : i * Page <= Len(tx[r]) /\ n = Node(tx, pg, r, i)
        BY <1>1, PublishedOne
    <2>2. PICK i \in Nat \ {0} : i * Page <= Len(tx[r]) /\ n = Node(tx, pg, r, i)
        BY <2>1
    <2>3. /\ i \in DOMAIN pg[r] /\ n \in Nodes /\ n.page = pg[r][i]
          /\ Len(n.key) = i * Page /\ HasPrefix(tx[r], n.key)
      <3>1. r \in Req
          OBVIOUS
      <3> QED
          BY <2>2, <3>1, NodeMeans
    <2> QED
        BY <2>2, <2>3
  <1>2. tr \subseteq new
      OBVIOUS
  <1>3. \A r \in rs : \A i \in Nat \ {0} : i * Page <= Len(tx[r]) => Node(tx, pg, r, i) \in new
    <2> SUFFICES ASSUME NEW r \in rs, NEW i \in Nat \ {0}, i * Page <= Len(tx[r])
                 PROVE  Node(tx, pg, r, i) \in PublishedBy(tx, pg, rs)
        OBVIOUS
    <2> DEFINE w == <<r, i>>
    <2>1. w \in rs \X (Nat \ {0}) /\ w[2] * Page <= Len(tx[w[1]])
          /\ Node(tx, pg, r, i) = Node(tx, pg, w[1], w[2])
        OBVIOUS
    <2> HIDE DEF w
    <2> QED
        BY <2>1 DEF PublishedBy
  <1> HIDE DEF new
  <1>4. Shape(tx, pg, new)
    <2>1. ASSUME NEW n \in new PROVE n \in Nodes /\ \E m \in Nat \ {0} : Len(n.key) = m * Page
      <3>1. CASE n \in tr
          BY <3>1 DEF Shape
      <3>2. CASE n \notin tr
          BY <3>2, <1>1
      <3> QED
          BY <3>1, <3>2
    <2> QED
        BY <2>1 DEF Shape
  <1>5. PagesDiffer(pg, new)
      BY <1>2 DEF Apart, PagesDiffer
  \* A node on a page some other request has was in the tree before.
  <1>6. ASSUME NEW n \in new, NEW s \in Req, NEW j \in DOMAIN pg[s], n.page = pg[s][j]
        PROVE  n \in tr \/ (s \in rs /\ j \in Nat \ {0} /\ j * Page <= Len(tx[s]) /\ n = Node(tx, pg, s, j))
    <2> SUFFICES ASSUME n \notin tr
                 PROVE s \in rs /\ j \in Nat \ {0} /\ j * Page <= Len(tx[s]) /\ n = Node(tx, pg, s, j)
        OBVIOUS
    <2>1. PICK r \in rs : \E i \in Nat \ {0} :
                 /\ i * Page <= Len(tx[r]) /\ n = Node(tx, pg, r, i)
                 /\ i \in DOMAIN pg[r] /\ n.page = pg[r][i]
        BY <1>1
    <2>2. PICK i \in Nat \ {0} : /\ i * Page <= Len(tx[r]) /\ n = Node(tx, pg, r, i)
                                 /\ i \in DOMAIN pg[r] /\ n.page = pg[r][i]
        BY <2>1
    <2>3. r \in Req
        OBVIOUS
    <2>4. CASE s = r
      <3>1. i = j
          BY <1>6, <2>2, <2>3, <2>4 DEF Apart, PagesDiffer
      <3> QED
          BY <2>2, <2>4, <3>1
    <2>5. CASE s # r
      <3>1. PICK m \in tr : m.page = pg[r][i]
          BY <1>6, <2>2, <2>3, <2>5 DEF Apart, PagesDiffer
      <3>2. m = Node(tx, pg, r, i)
          BY <2>2, <2>3, <3>1, NodeIs DEF Apart
      <3> QED
          BY <2>2, <3>1, <3>2
    <2> QED
        BY <2>4, <2>5
  <1>7. KeysArePrefixes(tx, pg, new)
    <2> SUFFICES ASSUME NEW s \in Req, NEW j \in DOMAIN pg[s], NEW n \in new, n.page = pg[s][j]
                 PROVE  Len(n.key) = j * Page /\ HasPrefix(tx[s], n.key)
        BY DEF KeysArePrefixes
    <2>1. CASE n \in tr
        BY <2>1 DEF Apart, KeysArePrefixes
    <2>2. CASE n \notin tr
      <3>1. j \in Nat \ {0} /\ j * Page <= Len(tx[s]) /\ n = Node(tx, pg, s, j)
          BY <1>6, <2>2
      <3> QED
          BY <3>1, NodeMeans
    <2> QED
        BY <2>1, <2>2
  <1>8. ASSUME NEW n \in new, NEW m \in new, n.page = m.page, m \notin tr PROVE n = m
    <2>1. PICK r \in rs : \E i \in Nat \ {0} :
                 /\ i * Page <= Len(tx[r]) /\ m = Node(tx, pg, r, i)
                 /\ i \in DOMAIN pg[r] /\ m.page = pg[r][i]
        BY <1>1, <1>8
    <2>2. PICK i \in Nat \ {0} : /\ i * Page <= Len(tx[r]) /\ m = Node(tx, pg, r, i)
                                 /\ i \in DOMAIN pg[r] /\ m.page = pg[r][i]
        BY <2>1
    <2>3. r \in Req /\ n.page = pg[r][i]
        BY <1>8, <2>2
    <2>4. CASE n \in tr
        BY <2>2, <2>3, <2>4, NodeIs DEF Apart
    <2>5. CASE n \notin tr
        BY <1>6, <2>2, <2>3, <2>5
    <2> QED
        BY <2>4, <2>5
  <1>9. \A n, m \in new : n.page = m.page => n = m
    <2> SUFFICES ASSUME NEW n \in new, NEW m \in new, n.page = m.page PROVE n = m
        OBVIOUS
    <2>1. CASE m \notin tr
        BY <1>8, <2>1
    <2>2. CASE n \notin tr
        BY <1>8, <2>2
    <2>3. CASE m \in tr /\ n \in tr
        BY <2>3 DEF Apart, TreeIsClosed
    <2> QED
        BY <2>1, <2>2, <2>3
  <1>10. ASSUME NEW n \in new, NEW j \in Nat \ {0}, j * Page <= Len(n.key)
         PROVE  \E m \in new : Len(m.key) = j * Page /\ HasPrefix(n.key, m.key)
    <2>1. CASE n \in tr
        BY <1>2, <1>10, <2>1 DEF Apart, TreeIsClosed
    <2>2. CASE n \notin tr
      <3>1. PICK r \in rs : \E i \in Nat \ {0} :
                   /\ i * Page <= Len(tx[r]) /\ n \in Nodes
                   /\ Len(n.key) = i * Page /\ HasPrefix(tx[r], n.key)
          BY <1>1, <2>2
      <3>2. r \in Req /\ tx[r] \in Seq(Nat) /\ n.key \in Seq(Nat) /\ HasPrefix(tx[r], n.key)
            /\ Len(n.key) <= Len(tx[r])
          BY <3>1 DEF Shape, Nodes, HasPrefix
      <3>3. j * Page <= Len(tx[r])
        <4>1. j * Page \in Nat /\ Len(n.key) \in Nat /\ Len(tx[r]) \in Nat
            BY <3>2, PageAssumption
        <4> QED
            BY <1>10, <3>2, <4>1
      <3> DEFINE m == Node(tx, pg, r, j)
      <3>4. m \in new
          BY <1>3, <3>3
      <3>5. m \in Nodes /\ Len(m.key) = j * Page /\ HasPrefix(tx[r], m.key)
          BY <3>2, <3>3, NodeMeans
      <3> HIDE DEF m
      <3>6. m.key \in Seq(Nat)
          BY <3>5 DEF Nodes
      <3>7. HasPrefix(n.key, m.key)
          BY <1>10, <3>2, <3>5, <3>6, PrefixWithin
      <3> QED
          BY <3>4, <3>5, <3>7
    <2> QED
        BY <2>1, <2>2
  <1>11. TreeIsClosed(new)
      BY <1>9, <1>10 DEF TreeIsClosed
  <1> QED
      BY <1>4, <1>5, <1>7, <1>11 DEF Apart, new

-----------------------------------------------------------------------------
(* The blocks a request sees and the blocks of the tree.                   *)

Visible(tx, pg, cp) ==
  \A r \in Req : \A b \in Nat :
    (b + 1) * Ratio <= Len(tx[r]) => cp[SlotAt(pg[r], b)] = BlockOf(tx[r], b)

TreeBlocks(tr, cp) ==
  \A n \in tr : \A m \in Nat \ {0} : \A c \in 0 .. PerPage - 1 :
    Len(n.key) = m * Page =>
      cp[n.page * PerPage + c] = BlockOf(n.key, (m - 1) * PerPage + c)

Content(tx, pg, tr, cp) == Visible(tx, pg, cp) /\ TreeBlocks(tr, cp)

LEMMA Monotone == \A x, y, z \in Nat : x <= y => x * z <= y * z
  OBVIOUS

LEMMA SameNumber ==
  ASSUME NEW x \in Nat, NEW y \in Nat, x * Page = y * Page
  PROVE  x = y
  <1>1. ASSUME NEW u \in Nat, NEW v \in Nat, NEW d \in Nat \ {0}, u < v PROVE u * d # v * d
    <2>1. (u + 1) * d <= v * d
        BY <1>1, Monotone
    <2>2. (u + 1) * d = u * d + d /\ u * d \in Nat /\ v * d \in Nat
        OBVIOUS
    <2> QED
        BY <2>1, <2>2
  <1>2. Page \in Nat \ {0}
      BY PageAssumption
  <1>3. ~ (x < y) /\ ~ (y < x)
      BY <1>1, <1>2
  <1> QED
      BY <1>3

\* A block ends within a number of pages when it begins in one of them.
LEMMA BlockEnds ==
  ASSUME NEW b \in Nat, NEW m \in Nat
  PROVE  /\ (b + 1) * Ratio \in Nat /\ (b + 1) * Ratio = b * Ratio + Ratio
         /\ b < m * PerPage <=> (b + 1) * Ratio <= m * Page
  <1>1. PerPage \in Nat \ {0} /\ Ratio \in Nat \ {0} /\ Page = PerPage * Ratio
      BY WholeBlocks, RatioAssumption
  <1> DEFINE k == PerPage
  <1>2. m * Page = (m * k) * Ratio /\ m * k \in Nat /\ (m * k) * Ratio \in Nat
      BY <1>1
  <1>3. (b + 1) * Ratio \in Nat /\ (b + 1) * Ratio = b * Ratio + Ratio /\ b * Ratio \in Nat
      BY <1>1
  <1>4. b + 1 <= m * k => (b + 1) * Ratio <= (m * k) * Ratio
      BY <1>1, <1>2, Monotone
  <1>5. m * k <= b => (m * k) * Ratio <= b * Ratio
      BY <1>1, <1>2, Monotone
  <1> DEFINE x == m * k  y == (m * k) * Ratio  u == (b + 1) * Ratio  v == b * Ratio
  <1>6. x \in Nat /\ y \in Nat /\ u \in Nat /\ v \in Nat /\ u = v + Ratio
      BY <1>2, <1>3
  <1>7. (b + 1 <= x => u <= y) /\ (x <= b => y <= v)
      BY <1>4, <1>5
  <1>8. b < x <=> u <= y
    <2> HIDE DEF x, y, u, v
    <2> QED
        BY <1>1, <1>6, <1>7
  <1> QED
      BY <1>2, <1>3, <1>8

\* The page a block lies in ends after the block.
LEMMA BlockWithinPage ==
  ASSUME NEW b \in Nat
  PROVE  /\ b \div PerPage + 1 \in Nat \ {0}
         /\ (b + 1) * Ratio <= (b \div PerPage + 1) * Page
  <1>1. PerPage \in Nat \ {0}
      BY WholeBlocks
  <1> DEFINE i == b \div PerPage
  <1>2. i \in Nat /\ b < i * PerPage + PerPage
      BY <1>1, Division
  <1> HIDE DEF i
  <1>3. (i + 1) * PerPage = i * PerPage + PerPage
      BY <1>1, <1>2
  <1>4. (b + 1) * Ratio <= (i + 1) * Page
    <2>1. i + 1 \in Nat /\ b < (i + 1) * PerPage
        BY <1>2, <1>3
    <2> QED
        BY <2>1, BlockEnds
  <1> QED
      BY <1>2, <1>4 DEF i

LEMMA BlockOfPrefix ==
  ASSUME NEW t, t \in Seq(Nat), NEW k, k \in Seq(Nat), HasPrefix(t, k),
         NEW b \in Nat, (b + 1) * Ratio <= Len(k)
  PROVE  BlockOf(t, b) = BlockOf(k, b)
  <1>1. ASSUME NEW j \in Offsets PROVE t[b * Ratio + j + 1] = k[b * Ratio + j + 1]
    <2>1. Ratio \in Nat \ {0} /\ b * Ratio \in Nat /\ (b + 1) * Ratio = b * Ratio + Ratio
        BY RatioAssumption
    <2>2. j \in 0 .. Ratio - 1 /\ Len(k) \in Nat
        BY DEF Offsets
    <2> DEFINE x == b * Ratio
    <2>3. x \in Nat /\ x + Ratio <= Len(k)
        BY <2>1
    <2> HIDE DEF x
    <2>4. x + j + 1 \in 1 .. Len(k)
        BY <2>1, <2>2, <2>3
    <2> QED
        BY <2>4 DEF HasPrefix, x
  <1> QED
      BY <1>1 DEF BlockOf

\* A finished block has a slot.
LEMMA FinishedHasSlot ==
  ASSUME NEW tx, NEW pg, NEW tr, Shape(tx, pg, tr), NEW r \in Req, NEW b \in Nat,
         (b + 1) * Ratio <= Len(tx[r])
  PROVE  b < Len(pg[r]) * PerPage
  <1>1. /\ Len(tx[r]) \in Nat /\ Len(pg[r]) \in Nat /\ Len(tx[r]) <= Len(pg[r]) * Page
      BY DEF Shape
  <1>2. (b + 1) * Ratio \in Nat /\ Len(pg[r]) * Page \in Nat
    <2>1. Page \in Nat
        BY PageAssumption
    <2>2. Len(pg[r]) * Page \in Nat
        BY <1>1, <2>1
    <2>3. (b + 1) * Ratio \in Nat
        BY <1>1, BlockEnds
    <2> QED
        BY <2>2, <2>3
  <1>3. (b + 1) * Ratio <= Len(pg[r]) * Page
      BY <1>1, <1>2
  <1> QED
      BY <1>1, <1>3, BlockEnds

\* A slot of a block that is not finished belongs to that block alone.
LEMMA UnfinishedIsAlone ==
  ASSUME NEW tx, NEW pg, NEW tr, Shape(tx, pg, tr), Apart(tx, pg, tr),
         NEW r \in Req, NEW b \in Nat, b < Len(pg[r]) * PerPage, (b + 1) * Ratio > Len(tx[r])
  PROVE  /\ \A n \in tr : n.page # SlotAt(pg[r], b) \div PerPage
         /\ \A q \in Req : \A c \in Nat :
              c < Len(pg[q]) * PerPage /\ SlotAt(pg[q], c) = SlotAt(pg[r], b) => q = r /\ c = b
  <1> DEFINE k == PerPage  i == b \div k + 1
  <1>1. \A q \in Req : pg[q] \in Seq(1 .. Pages) /\ tx[q] \in Seq(Nat)
      BY DEF Shape
  <1>2. \A q \in Req : \A c \in Nat : c < Len(pg[q]) * k =>
          /\ c \div k + 1 \in DOMAIN pg[q]
          /\ SlotAt(pg[q], c) \div k = pg[q][c \div k + 1]
          /\ SlotAt(pg[q], c) % k = c % k
      BY <1>1, SlotOfBlock
  <1>3. i \in DOMAIN pg[r] /\ SlotAt(pg[r], b) \div k = pg[r][i] /\ SlotAt(pg[r], b) % k = b % k
      BY <1>2
  <1>4. i \in Nat \ {0} /\ (b + 1) * Ratio <= i * Page
      BY BlockWithinPage
  <1>5. ASSUME NEW n \in tr, n.page = pg[r][i] PROVE FALSE
    <2>1. Len(n.key) = i * Page /\ HasPrefix(tx[r], n.key)
        BY <1>3, <1>5 DEF Apart, KeysArePrefixes
    <2>2. i * Page <= Len(tx[r])
        BY <2>1 DEF HasPrefix
    <2>3. i * Page \in Nat /\ (b + 1) * Ratio \in Nat /\ Len(tx[r]) \in Nat
      <3>1. Page \in Nat /\ Ratio \in Nat
          BY PageAssumption, RatioAssumption
      <3> HIDE DEF i
      <3>2. i * Page \in Nat
          BY <1>4, <3>1
      <3>3. (b + 1) * Ratio \in Nat
          BY <3>1
      <3> QED
          BY <1>1, <3>2, <3>3
    <2> HIDE DEF i
    <2> QED
        BY <1>4, <2>2, <2>3
  <1>6. ASSUME NEW q \in Req, NEW c \in Nat, c < Len(pg[q]) * k, SlotAt(pg[q], c) = SlotAt(pg[r], b)
        PROVE  q = r /\ c = b
    <2>1. c \div k + 1 \in DOMAIN pg[q] /\ pg[q][c \div k + 1] = pg[r][i] /\ c % k = b % k
        BY <1>2, <1>3, <1>6
    <2>2. q = r
      <3> SUFFICES ASSUME q # r PROVE FALSE
          OBVIOUS
      <3>1. \E n \in tr : n.page = pg[r][i]
          BY <1>3, <2>1 DEF Apart, PagesDiffer
      <3> QED
          BY <1>5, <3>1
    <2>3. c \div k + 1 = i
        BY <1>3, <2>1, <2>2 DEF Apart, PagesDiffer
    <2>4. c = b
      <3>1. k \in Nat \ {0}
          BY WholeBlocks
      <3> HIDE DEF k
      <3>2. c = (c \div k) * k + (c % k) /\ b = (b \div k) * k + (b % k)
            /\ c \div k \in Nat /\ b \div k \in Nat
          BY <3>1, Division
      <3>3. c \div k = b \div k
          BY <2>3, <3>2 DEF i
      <3> QED
          BY <3>2, <3>3, <2>1
    <2> QED
        BY <2>2, <2>4
  <1> QED
      BY <1>3, <1>5, <1>6

-----------------------------------------------------------------------------
(* What a forward does to the compressed keys.                             *)

\* The blocks a request may still write.
Unfinished(tx, pg) ==
  {w \in Req \X Nat : w[2] < Len(pg[w[1]]) * PerPage /\ (w[2] + 1) * Ratio > Len(tx[w[1]])}

\* Nothing but the slots of unfinished blocks is written.
WritesUnfinished(tx, pg, cp, cp2) ==
  \E work \in SUBSET Unfinished(tx, pg) :
    \A s \in Slots : (\A w \in work : SlotAt(pg[w[1]], w[2]) # s) => cp2[s] = cp[s]

\* The blocks the new tokens complete are compressed.
Completes(tx, tx2, pg, cp2) ==
  \A r \in Req : \A b \in Nat :
    (b + 1) * Ratio \in Len(tx[r]) + 1 .. Len(tx2[r]) =>
      cp2[SlotAt(pg[r], b)] = BlockOf(tx2[r], b)

\* The slots of a page's blocks.
LEMMA SlotsOfPage ==
  ASSUME NEW p \in 1 .. Pages, NEW c \in 0 .. PerPage - 1
  PROVE  /\ p * PerPage + c \in Slots
         /\ (p * PerPage + c) \div PerPage = p /\ (p * PerPage + c) % PerPage = c
  <1> DEFINE pg == <<p>>
  <1>1. PerPage \in Nat \ {0} /\ Pages \in Nat
      BY WholeBlocks, PageAssumption
  <1>2. pg \in Seq(1 .. Pages) /\ Len(pg) = 1 /\ pg[1] = p
      OBVIOUS
  <1> HIDE DEF pg
  <1>3. c \in Nat /\ c < Len(pg) * PerPage /\ c \div PerPage = 0 /\ c % PerPage = c
    <2>1. (0 * PerPage + c) \div PerPage = 0 /\ (0 * PerPage + c) % PerPage = c
        BY <1>1, Divided
    <2>2. 0 * PerPage + c = c /\ c < 1 * PerPage
        BY <1>1
    <2> QED
        BY <1>1, <1>2, <2>1, <2>2
  <1>4. SlotAt(pg, c) = p * PerPage + c
      BY <1>2, <1>3 DEF SlotAt
  <1>5. SlotAt(pg, c) \in Slots
      BY <1>2, <1>3, SlotOfBlock
  <1>6. (p * PerPage + c) \div PerPage = p /\ (p * PerPage + c) % PerPage = c
      BY <1>1, Divided
  <1> QED
      BY <1>4, <1>5, <1>6

LEMMA WritesSpareTheTree ==
  ASSUME NEW tx, NEW pg, NEW tr, Shape(tx, pg, tr), Apart(tx, pg, tr),
         NEW cp, NEW cp2, WritesUnfinished(tx, pg, cp, cp2),
         NEW n \in tr, NEW s \in Slots, s \div PerPage = n.page
  PROVE  cp2[s] = cp[s]
  <1>1. PICK work \in SUBSET Unfinished(tx, pg) :
          \A t \in Slots : (\A w \in work : SlotAt(pg[w[1]], w[2]) # t) => cp2[t] = cp[t]
      BY DEF WritesUnfinished
  <1>2. ASSUME NEW w \in work, SlotAt(pg[w[1]], w[2]) = s PROVE FALSE
    <2>1. /\ w[1] \in Req /\ w[2] \in Nat /\ w[2] < Len(pg[w[1]]) * PerPage
          /\ (w[2] + 1) * Ratio > Len(tx[w[1]])
        BY <1>1 DEF Unfinished
    <2>2. n.page # SlotAt(pg[w[1]], w[2]) \div PerPage
        BY <2>1, UnfinishedIsAlone
    <2> QED
        BY <1>2, <2>2
  <1> QED
      BY <1>1, <1>2

LEMMA WritesKeepContent ==
  ASSUME NEW tx, NEW pg, NEW tr, NEW cp, NEW tx2, NEW cp2,
         Shape(tx, pg, tr), Apart(tx, pg, tr), Content(tx, pg, tr, cp), Shape(tx2, pg, tr),
         \A r \in Req : HasPrefix(tx2[r], tx[r]),
         WritesUnfinished(tx, pg, cp, cp2), Completes(tx, tx2, pg, cp2)
  PROVE  Content(tx2, pg, tr, cp2)
  <1>1. PICK work \in SUBSET Unfinished(tx, pg) :
          \A t \in Slots : (\A w \in work : SlotAt(pg[w[1]], w[2]) # t) => cp2[t] = cp[t]
      BY DEF WritesUnfinished
  <1>2. ASSUME NEW r \in Req, NEW b \in Nat, (b + 1) * Ratio <= Len(tx2[r])
        PROVE  cp2[SlotAt(pg[r], b)] = BlockOf(tx2[r], b)
    <2>1. tx[r] \in Seq(Nat) /\ tx2[r] \in Seq(Nat) /\ pg[r] \in Seq(1 .. Pages)
        BY DEF Shape
    <2>2. (b + 1) * Ratio \in Nat
        BY BlockEnds
    <2>3. CASE (b + 1) * Ratio <= Len(tx[r])
      <3>1. b < Len(pg[r]) * PerPage
          BY <2>3, FinishedHasSlot
      <3>2. SlotAt(pg[r], b) \in Slots
          BY <2>1, <3>1, SlotOfBlock
      <3>3. ASSUME NEW w \in work, SlotAt(pg[w[1]], w[2]) = SlotAt(pg[r], b) PROVE FALSE
        <4>1. /\ w[1] \in Req /\ w[2] \in Nat /\ w[2] < Len(pg[w[1]]) * PerPage
              /\ (w[2] + 1) * Ratio > Len(tx[w[1]])
            BY <1>1 DEF Unfinished
        <4>2. r = w[1] /\ b = w[2]
            BY <3>1, <3>3, <4>1, UnfinishedIsAlone
        <4>3. Len(tx[r]) \in Nat
            BY <2>1
        <4> QED
            BY <2>2, <2>3, <4>1, <4>2, <4>3
      <3>4. cp2[SlotAt(pg[r], b)] = cp[SlotAt(pg[r], b)]
          BY <1>1, <3>2, <3>3
      <3>5. cp[SlotAt(pg[r], b)] = BlockOf(tx[r], b)
          BY <2>3 DEF Content, Visible
      <3>6. BlockOf(tx2[r], b) = BlockOf(tx[r], b)
          BY <2>1, <2>3, BlockOfPrefix
      <3> QED
          BY <3>4, <3>5, <3>6
    <2>4. CASE (b + 1) * Ratio > Len(tx[r])
      <3>1. Len(tx[r]) \in Nat /\ Len(tx2[r]) \in Nat
          BY <2>1
      <3>2. (b + 1) * Ratio \in Len(tx[r]) + 1 .. Len(tx2[r])
          BY <1>2, <2>2, <2>4, <3>1
      <3> QED
          BY <3>2 DEF Completes
    <2> QED
      <3>1. Len(tx[r]) \in Nat
          BY <2>1
      <3> QED
          BY <2>2, <2>3, <2>4, <3>1
  <1>3. ASSUME NEW n \in tr, NEW m \in Nat \ {0}, NEW c \in 0 .. PerPage - 1, Len(n.key) = m * Page
        PROVE  cp2[n.page * PerPage + c] = BlockOf(n.key, (m - 1) * PerPage + c)
    <2>1. n.page \in 1 .. Pages
        BY DEF Shape, Nodes
    <2> DEFINE s == n.page * PerPage + c
    <2>2. s \in Slots /\ s \div PerPage = n.page
        BY <2>1, SlotsOfPage
    <2>3. cp[s] = BlockOf(n.key, (m - 1) * PerPage + c)
        BY <1>3 DEF Content, TreeBlocks
    <2> HIDE DEF s
    <2>4. cp2[s] = cp[s]
        BY <2>2, WritesSpareTheTree
    <2> QED
        BY <2>3, <2>4 DEF s
  <1> QED
      BY <1>2, <1>3 DEF Content, Visible, TreeBlocks

\* The page and the place of the block that is the c-th of page m.
LEMMA BlockOfPage ==
  ASSUME NEW m \in Nat \ {0}, NEW c \in 0 .. PerPage - 1, NEW b, b = (m - 1) * PerPage + c
  PROVE  /\ b \in Nat /\ b \div PerPage + 1 = m /\ b % PerPage = c
         /\ (b + 1) * Ratio <= m * Page
  <1>1. PerPage \in Nat \ {0} /\ m - 1 \in Nat
      BY WholeBlocks
  <1>2. b \in Nat
    <2>1. (m - 1) * PerPage \in Nat
        BY <1>1
    <2> QED
        BY <1>1, <2>1
  <1>3. b \div PerPage = m - 1 /\ b % PerPage = c
      BY <1>1, Divided
  <1>4. b \div PerPage + 1 = m
      BY <1>3
  <1> QED
      BY <1>2, <1>3, <1>4, BlockWithinPage

\* Publishing only names blocks that are there.
LEMMA PublishKeepsContent ==
  ASSUME NEW tx, NEW pg, NEW tr, NEW cp, NEW rs, rs \subseteq Req,
         Shape(tx, pg, tr), Content(tx, pg, tr, cp)
  PROVE  Content(tx, pg, tr \cup PublishedBy(tx, pg, rs), cp)
  <1> SUFFICES ASSUME NEW n \in PublishedBy(tx, pg, rs), NEW m \in Nat \ {0},
                      NEW c \in 0 .. PerPage - 1, Len(n.key) = m * Page
               PROVE  cp[n.page * PerPage + c] = BlockOf(n.key, (m - 1) * PerPage + c)
      BY DEF Content, TreeBlocks
  <1>1. PICK r \in rs : \E i \in Nat \ {0} : i * Page <= Len(tx[r]) /\ n = Node(tx, pg, r, i)
      BY PublishedOne
  <1>2. PICK i \in Nat \ {0} : i * Page <= Len(tx[r]) /\ n = Node(tx, pg, r, i)
      BY <1>1
  <1>3. r \in Req
      OBVIOUS
  <1>4. /\ i \in DOMAIN pg[r] /\ n \in Nodes /\ n.page = pg[r][i]
        /\ Len(n.key) = i * Page /\ HasPrefix(tx[r], n.key)
      BY <1>2, <1>3, NodeMeans
  <1>5. i = m
    <2> QED
        BY <1>4, SameNumber
  <1> DEFINE b == (m - 1) * PerPage + c
  <1>6. b \in Nat /\ b \div PerPage + 1 = m /\ b % PerPage = c /\ (b + 1) * Ratio <= m * Page
      BY BlockOfPage
  <1> HIDE DEF b
  <1>7. SlotAt(pg[r], b) = n.page * PerPage + c
      BY <1>4, <1>5, <1>6 DEF SlotAt
  <1>8. tx[r] \in Seq(Nat) /\ n.key \in Seq(Nat)
      BY <1>3, <1>4 DEF Shape, Nodes
  <1>9. (b + 1) * Ratio <= Len(tx[r])
    <2>1. (b + 1) * Ratio \in Nat
        BY <1>6, BlockEnds
    <2>2. Len(tx[r]) \in Nat /\ Len(n.key) \in Nat
        BY <1>8
    <2>3. Len(n.key) <= Len(tx[r])
        BY <1>4 DEF HasPrefix
    <2> QED
        BY <1>6, <2>1, <2>2, <2>3, <1>4, <1>5
  <1>10. cp[SlotAt(pg[r], b)] = BlockOf(tx[r], b)
      BY <1>3, <1>6, <1>9 DEF Content, Visible
  <1>11. BlockOf(tx[r], b) = BlockOf(n.key, b)
      BY <1>4, <1>6, <1>8, BlockOfPrefix
  <1> QED
      BY <1>7, <1>10, <1>11 DEF b

-----------------------------------------------------------------------------
(* What the scheduler, the allocator and the tree do to pages.             *)

LEMMA GrowKeeps ==
  ASSUME NEW tx, NEW pg, NEW tr, NEW tx2, Shape(tx, pg, tr), Apart(tx, pg, tr),
         \A r \in Req : tx2[r] \in Seq(Nat) /\ HasPrefix(tx2[r], tx[r])
                        /\ Len(tx2[r]) <= Len(pg[r]) * Page
  PROVE  Shape(tx2, pg, tr) /\ Apart(tx2, pg, tr)
  <1>1. Shape(tx2, pg, tr)
      BY DEF Shape
  <1>2. KeysArePrefixes(tx2, pg, tr)
    <2> SUFFICES ASSUME NEW r \in Req, NEW i \in DOMAIN pg[r], NEW n \in tr, n.page = pg[r][i]
                 PROVE  Len(n.key) = i * Page /\ HasPrefix(tx2[r], n.key)
        BY DEF KeysArePrefixes
    <2>1. Len(n.key) = i * Page /\ HasPrefix(tx[r], n.key)
        BY DEF Apart, KeysArePrefixes
    <2>2. tx[r] \in Seq(Nat) /\ tx2[r] \in Seq(Nat) /\ n.key \in Seq(Nat)
        BY DEF Shape, Nodes
    <2> QED
        BY <2>1, <2>2, PrefixThrough
  <1> QED
      BY <1>1, <1>2 DEF Apart

\* A page no request and no key has is given to request r.
IsGrant(pg, pg2, tr, r, g) ==
  /\ r \in Req /\ g \in 1 .. Pages
  /\ \A n \in tr : n.page # g
  /\ \A q \in Req : \A i \in DOMAIN pg[q] : pg[q][i] # g
  /\ pg \in [Req -> Seq(1 .. Pages)] /\ pg2 = [pg EXCEPT ![r] = Append(@, g)]

LEMMA AllocateKeeps ==
  ASSUME NEW tx, NEW pg, NEW tr, NEW cp, Shape(tx, pg, tr), Apart(tx, pg, tr),
         NEW r, NEW g, NEW pg2, IsGrant(pg, pg2, tr, r, g)
  PROVE  /\ Shape(tx, pg2, tr) /\ Apart(tx, pg2, tr)
         /\ Content(tx, pg, tr, cp) => Content(tx, pg2, tr, cp)
  <1>0. /\ r \in Req /\ g \in 1 .. Pages
        /\ \A n \in tr : n.page # g
        /\ \A q \in Req : \A i \in DOMAIN pg[q] : pg[q][i] # g
        /\ pg \in [Req -> Seq(1 .. Pages)] /\ pg2 = [pg EXCEPT ![r] = Append(@, g)]
      BY DEF IsGrant
  <1> USE <1>0
  <1> DEFINE l(q) == Len(pg[q])
  <1>1. ASSUME NEW q \in Req
        PROVE  /\ pg2[q] \in Seq(1 .. Pages) /\ Len(pg[q]) <= Len(pg2[q])
               /\ pg[q] \in Seq(1 .. Pages) /\ Len(pg[q]) \in Nat /\ Len(pg2[q]) \in Nat
               /\ \A i \in DOMAIN pg[q] : i \in DOMAIN pg2[q] /\ pg2[q][i] = pg[q][i]
               /\ \A i \in DOMAIN pg2[q] : i \in DOMAIN pg[q] \/ (q = r /\ i = l(q) + 1 /\ pg2[q][i] = g)
    <2>1. CASE q = r
      <3>1. pg2[q] = Append(pg[q], g) /\ pg[q] \in Seq(1 .. Pages)
          BY <2>1
      <3>2. /\ Append(pg[q], g) \in Seq(1 .. Pages) /\ Len(Append(pg[q], g)) = Len(pg[q]) + 1
            /\ \A i \in 1 .. Len(pg[q]) : Append(pg[q], g)[i] = pg[q][i]
            /\ Append(pg[q], g)[Len(pg[q]) + 1] = g
          BY <3>1
      <3> QED
          BY <2>1, <3>1, <3>2
    <2>2. CASE q # r
        BY <2>2
    <2> QED
        BY <2>1, <2>2
  <1> HIDE DEF l
  <1>2. Shape(tx, pg2, tr)
    <2>1. ASSUME NEW q \in Req PROVE Len(tx[q]) <= Len(pg2[q]) * Page
      <3>1. Len(pg[q]) * Page <= Len(pg2[q]) * Page /\ Len(tx[q]) <= Len(pg[q]) * Page
        <4>1. Page \in Nat
            BY PageAssumption
        <4> QED
            BY <1>1, <4>1, Monotone DEF Shape
      <3>2. Len(pg[q]) * Page \in Nat /\ Len(pg2[q]) * Page \in Nat /\ Len(tx[q]) \in Nat
        <4>1. Page \in Nat /\ tx[q] \in Seq(Nat)
            BY PageAssumption DEF Shape
        <4> QED
            BY <1>1, <4>1
      <3> QED
          BY <3>1, <3>2
    <2> QED
        BY <1>1, <2>1 DEF Shape
  <1>3. PagesDiffer(pg2, tr)
    <2>1. ASSUME NEW q \in Req, NEW i \in DOMAIN pg2[q], NEW j \in DOMAIN pg2[q], pg2[q][i] = pg2[q][j]
          PROVE  i = j
      <3>1. CASE i \in DOMAIN pg[q] /\ j \in DOMAIN pg[q]
          BY <1>1, <2>1, <3>1 DEF Apart, PagesDiffer
      <3>2. CASE i \notin DOMAIN pg[q]
          BY <1>1, <2>1, <3>2
      <3>3. CASE j \notin DOMAIN pg[q]
          BY <1>1, <2>1, <3>3
      <3> QED
          BY <3>1, <3>2, <3>3
    <2>2. ASSUME NEW q \in Req, NEW s \in Req, NEW i \in DOMAIN pg2[q], NEW j \in DOMAIN pg2[s],
                 q # s, pg2[q][i] = pg2[s][j]
          PROVE  \E n \in tr : n.page = pg2[q][i]
      <3>1. CASE i \in DOMAIN pg[q] /\ j \in DOMAIN pg[s]
        <4>1. pg2[q][i] = pg[q][i] /\ pg2[s][j] = pg[s][j]
            BY <1>1, <3>1
        <4>2. pg[q][i] = pg[s][j]
            BY <2>2, <4>1
        <4>3. PagesDiffer(pg, tr)
            BY DEF Apart
        <4>4. \E n \in tr : n.page = pg[q][i]
            BY <2>2, <3>1, <4>2, <4>3 DEF PagesDiffer
        <4> QED
            BY <4>1, <4>4
      <3>2. CASE i \notin DOMAIN pg[q]
        <4>1. q = r /\ pg2[q][i] = g
            BY <1>1, <3>2
        <4>2. j \in DOMAIN pg[s]
            BY <1>1, <2>2, <4>1
        <4>3. pg2[s][j] = pg[s][j] /\ pg[s][j] # g
            BY <1>1, <4>2
        <4> QED
            BY <2>2, <4>1, <4>3
      <3>3. CASE j \notin DOMAIN pg[s]
        <4>1. s = r /\ pg2[s][j] = g
            BY <1>1, <3>3
        <4>2. i \in DOMAIN pg[q]
            BY <1>1, <2>2, <4>1
        <4>3. pg2[q][i] = pg[q][i] /\ pg[q][i] # g
            BY <1>1, <4>2
        <4> QED
            BY <2>2, <4>1, <4>3
      <3> QED
          BY <3>1, <3>2, <3>3
    <2>3. \A q \in Req : \A i, j \in DOMAIN pg2[q] : pg2[q][i] = pg2[q][j] => i = j
        BY ONLY <2>1
    <2>4. \A q, s \in Req : \A i \in DOMAIN pg2[q] : \A j \in DOMAIN pg2[s] :
            q # s /\ pg2[q][i] = pg2[s][j] => \E n \in tr : n.page = pg2[q][i]
        BY ONLY <2>2
    <2> QED
        BY ONLY <2>3, <2>4 DEF PagesDiffer
  <1>4. KeysArePrefixes(tx, pg2, tr)
    <2> SUFFICES ASSUME NEW q \in Req, NEW i \in DOMAIN pg2[q], NEW n \in tr, n.page = pg2[q][i]
                 PROVE  Len(n.key) = i * Page /\ HasPrefix(tx[q], n.key)
        BY DEF KeysArePrefixes
    <2>1. i \in DOMAIN pg[q]
        BY <1>1
    <2> QED
        BY <1>1, <2>1 DEF Apart, KeysArePrefixes
  <1>5. ASSUME Content(tx, pg, tr, cp) PROVE Content(tx, pg2, tr, cp)
    <2> SUFFICES ASSUME NEW q \in Req, NEW b \in Nat, (b + 1) * Ratio <= Len(tx[q])
                 PROVE  SlotAt(pg2[q], b) = SlotAt(pg[q], b)
        BY <1>5 DEF Content, Visible
    <2>1. b < Len(pg[q]) * PerPage
        BY FinishedHasSlot
    <2>2. b \div PerPage + 1 \in DOMAIN pg[q]
        BY <1>1, <2>1, SlotOfBlock
    <2> QED
        BY <1>1, <2>2 DEF SlotAt
  <1> QED
      BY <1>2, <1>3, <1>4, <1>5 DEF Apart

\* The pages of a prefix of the tree.
PagesFor(tr, key) ==
  [i \in 1 .. Len(key) \div Page |-> (CHOOSE n \in tr : n.key = SubSeq(key, 1, i * Page)).page]

\* Its pages are those of keys of the tree.
LEMMA PagesForMeans ==
  ASSUME NEW tx, NEW pg, NEW tr, Shape(tx, pg, tr), Apart(tx, pg, tr),
         NEW key, key \in {<<>>} \cup {n.key : n \in tr}
  PROVE  /\ key \in Seq(Nat) /\ PagesFor(tr, key) \in Seq(1 .. Pages)
         /\ Len(key) = Len(PagesFor(tr, key)) * Page
         /\ \A i \in DOMAIN PagesFor(tr, key) : \E n \in tr :
              n.page = PagesFor(tr, key)[i] /\ Len(n.key) = i * Page /\ HasPrefix(key, n.key)
  <1> DEFINE l == Len(key) \div Page
  <1>1. Page \in Nat \ {0}
      BY PageAssumption
  <1>2. key \in Seq(Nat) /\ \E m \in Nat : Len(key) = m * Page
    <2>1. CASE key = <<>>
      <3>1. Len(key) = 0 * Page /\ key \in Seq(Nat)
          BY <1>1, <2>1
      <3> QED
          BY <3>1
    <2>2. CASE key \in {n.key : n \in tr}
      <3>1. PICK n \in tr : key = n.key
          BY <2>2
      <3> QED
          BY <3>1 DEF Shape, Nodes
    <2> QED
        BY <2>1, <2>2
  <1>3. l \in Nat /\ Len(key) = l * Page
    <2>1. PICK m \in Nat : Len(key) = m * Page
        BY <1>2
    <2>2. (m * Page + 0) \div Page = m
        BY <1>1, Divided
    <2>3. m * Page + 0 = m * Page
        BY <1>1
    <2> QED
        BY <2>1, <2>2, <2>3
  <1> HIDE DEF l
  <1>4. ASSUME NEW i \in 1 .. l
        PROVE  \E n \in tr : /\ n = (CHOOSE m \in tr : m.key = SubSeq(key, 1, i * Page))
                             /\ n.page \in 1 .. Pages
                             /\ Len(n.key) = i * Page /\ HasPrefix(key, n.key)
    <2>1. i \in Nat \ {0} /\ i * Page <= Len(key) /\ i * Page \in Nat
      <3>1. i <= l /\ i \in Nat \ {0}
          BY <1>3
      <3>2. i * Page <= l * Page /\ i * Page \in Nat
          BY <1>1, <1>3, <3>1, Monotone
      <3> QED
          BY <1>3, <3>1, <3>2
    <2>2. i * Page \in 0 .. Len(key)
        BY <1>2, <2>1
    <2>3. PICK m \in tr : key = m.key
      <3>1. key # <<>>
        <4> SUFFICES ASSUME key = <<>> PROVE FALSE
            OBVIOUS
        <4>1. Len(key) = 0
            OBVIOUS
        <4>2. i * Page # 0
            BY <1>1, <2>1
        <4> QED
            BY <2>1, <4>1, <4>2
      <3> QED
          BY <3>1
    <2>4. PICK n \in tr : Len(n.key) = i * Page /\ HasPrefix(key, n.key)
        BY <2>1, <2>3 DEF Apart, TreeIsClosed
    <2>5. n.key \in Seq(Nat)
        BY DEF Shape, Nodes
    <2>6. n.key = SubSeq(key, 1, i * Page)
        BY <1>2, <2>4, <2>5, PrefixIs
    <2> DEFINE c == CHOOSE m2 \in tr : m2.key = SubSeq(key, 1, i * Page)
    <2>7. c \in tr /\ c.key = SubSeq(key, 1, i * Page)
        BY <2>6
    <2> HIDE DEF c
    <2>8. c.page \in 1 .. Pages /\ Len(c.key) = i * Page /\ HasPrefix(key, c.key)
        BY <2>4, <2>6, <2>7 DEF Shape, Nodes
    <2> QED
        BY <2>7, <2>8 DEF c
  <1> DEFINE p == PagesFor(tr, key)
  <1>5. p = [i \in 1 .. l |-> (CHOOSE n \in tr : n.key = SubSeq(key, 1, i * Page)).page]
      BY DEF PagesFor, l
  <1> HIDE DEF p
  <1>6. \A i \in 1 .. l : p[i] \in 1 .. Pages /\ \E n \in tr :
              n.page = p[i] /\ Len(n.key) = i * Page /\ HasPrefix(key, n.key)
    <2> SUFFICES ASSUME NEW i \in 1 .. l
                 PROVE  p[i] \in 1 .. Pages /\ \E n \in tr :
                          n.page = p[i] /\ Len(n.key) = i * Page /\ HasPrefix(key, n.key)
        OBVIOUS
    <2>1. PICK n \in tr : /\ n = (CHOOSE m \in tr : m.key = SubSeq(key, 1, i * Page))
                             /\ n.page \in 1 .. Pages
                             /\ Len(n.key) = i * Page /\ HasPrefix(key, n.key)
        BY <1>4
    <2>2. p[i] = n.page
        BY <1>5, <2>1
    <2> QED
        BY <2>1, <2>2
  <1>7. p \in Seq(1 .. Pages) /\ Len(p) = l /\ DOMAIN p = 1 .. l
    <2>1. p = [i \in 1 .. l |-> p[i]]
        BY <1>5
    <2>2. p \in [1 .. l -> 1 .. Pages]
        BY <1>6, <2>1
    <2>3. p \in Seq(1 .. Pages)
        BY <1>3, <2>2, SeqDef
    <2>4. DOMAIN p = 1 .. l
        BY <2>1
    <2>5. Len(p) = l
        BY <1>3, <2>3, <2>4, LenProperties
    <2> QED
        BY <2>3, <2>4, <2>5
  <1> QED
      BY <1>2, <1>3, <1>6, <1>7 DEF p

\* A request starts on the pages of a prefix of the tree.
LEMMA AdoptKeeps ==
  ASSUME NEW tx, NEW pg, NEW tr, NEW cp, Shape(tx, pg, tr), Apart(tx, pg, tr),
         NEW r \in Req, NEW key, key \in {<<>>} \cup {n.key : n \in tr},
         NEW tx2, \A q \in Req : tx2[q] = IF q = r THEN key ELSE tx[q],
         NEW pg2, \A q \in Req : pg2[q] = IF q = r THEN PagesFor(tr, key) ELSE pg[q]
  PROVE  /\ Shape(tx2, pg2, tr) /\ Apart(tx2, pg2, tr)
         /\ Content(tx, pg, tr, cp) => Content(tx2, pg2, tr, cp)
  <1> DEFINE p == PagesFor(tr, key)
  <1>1. /\ key \in Seq(Nat) /\ p \in Seq(1 .. Pages) /\ Len(key) = Len(p) * Page
        /\ \A i \in DOMAIN p : \E n \in tr :
             n.page = p[i] /\ Len(n.key) = i * Page /\ HasPrefix(key, n.key)
      BY PagesForMeans
  <1> HIDE DEF p
  <1>2. tx2[r] = key /\ pg2[r] = p /\ \A q \in Req : q # r => tx2[q] = tx[q] /\ pg2[q] = pg[q]
      BY DEF p
  <1>a. \A n, m \in tr : n.page = m.page => n = m
      BY DEF Apart, TreeIsClosed
  <1>3. Shape(tx2, pg2, tr)
    <2>1. ASSUME NEW q \in Req
          PROVE  /\ tx2[q] \in Seq(Nat) /\ pg2[q] \in Seq(1 .. Pages)
                 /\ Len(tx2[q]) <= Len(pg2[q]) * Page
      <3>1. CASE q = r
        <4>1. Len(key) \in Nat
            BY <1>1
        <4>2. Len(key) <= Len(p) * Page
          <5> DEFINE x == Len(key)  y == Len(p) * Page
          <5>1. x \in Nat /\ x = y
              BY <1>1, <4>1
          <5> HIDE DEF x, y
          <5>2. x <= y
              BY <5>1
          <5> QED
              BY <5>2 DEF x, y
        <4> QED
            BY <1>1, <1>2, <3>1, <4>2
      <3>2. CASE q # r
          BY <1>2, <3>2 DEF Shape
      <3> QED
          BY <3>1, <3>2
    <2> QED
        BY <2>1 DEF Shape
  <1>4. PagesDiffer(pg2, tr)
    <2>1. ASSUME NEW q \in Req, NEW i \in DOMAIN pg2[q], NEW j \in DOMAIN pg2[q], pg2[q][i] = pg2[q][j]
          PROVE  i = j
      <3>1. CASE q = r
        <4>0. i \in DOMAIN p /\ j \in DOMAIN p /\ p[i] = p[j]
            BY <1>2, <2>1, <3>1
        <4>1. PICK n \in tr : n.page = p[i] /\ Len(n.key) = i * Page
            BY <1>1, <4>0
        <4>2. PICK m \in tr : m.page = p[j] /\ Len(m.key) = j * Page
            BY <1>1, <4>0
        <4>3. n = m
            BY <1>a, <4>0, <4>1, <4>2
        <4>4. i * Page = j * Page /\ i \in Nat /\ j \in Nat
            BY <1>1, <4>0, <4>1, <4>2, <4>3
        <4> QED
            BY <4>4, SameNumber
      <3>2. CASE q # r
          BY <1>2, <2>1, <3>2 DEF Apart, PagesDiffer
      <3> QED
          BY <3>1, <3>2
    <2>2. ASSUME NEW q \in Req, NEW s \in Req, NEW i \in DOMAIN pg2[q], NEW j \in DOMAIN pg2[s],
                 q # s, pg2[q][i] = pg2[s][j]
          PROVE  \E n \in tr : n.page = pg2[q][i]
      <3>1. CASE q = r
          BY <1>1, <1>2, <3>1
      <3>2. CASE s = r
        <4>1. \E n \in tr : n.page = pg2[s][j]
            BY <1>1, <1>2, <3>2
        <4> QED
            BY <2>2, <4>1
      <3>3. CASE q # r /\ s # r
        <4>1. pg2[q] = pg[q] /\ pg2[s] = pg[s]
            BY <1>2, <3>3
        <4>2. i \in DOMAIN pg[q] /\ j \in DOMAIN pg[s] /\ pg[q][i] = pg[s][j]
            BY <2>2, <4>1
        <4>3. PagesDiffer(pg, tr)
            BY DEF Apart
        <4>4. \E n \in tr : n.page = pg[q][i]
            BY <2>2, <4>2, <4>3 DEF PagesDiffer
        <4> QED
            BY <4>1, <4>4
      <3> QED
          BY <3>1, <3>2, <3>3
    <2>3. \A q \in Req : \A i, j \in DOMAIN pg2[q] : pg2[q][i] = pg2[q][j] => i = j
        BY ONLY <2>1
    <2>4. \A q, s \in Req : \A i \in DOMAIN pg2[q] : \A j \in DOMAIN pg2[s] :
            q # s /\ pg2[q][i] = pg2[s][j] => \E n \in tr : n.page = pg2[q][i]
        BY ONLY <2>2
    <2> QED
        BY ONLY <2>3, <2>4 DEF PagesDiffer
  <1>5. KeysArePrefixes(tx2, pg2, tr)
    <2> SUFFICES ASSUME NEW q \in Req, NEW i \in DOMAIN pg2[q], NEW n \in tr, n.page = pg2[q][i]
                 PROVE  Len(n.key) = i * Page /\ HasPrefix(tx2[q], n.key)
        BY DEF KeysArePrefixes
    <2>1. CASE q = r
      <3>1. i \in DOMAIN p /\ n.page = p[i]
          BY <1>2, <2>1
      <3>2. PICK m \in tr : m.page = p[i] /\ Len(m.key) = i * Page /\ HasPrefix(key, m.key)
          BY <1>1, <3>1
      <3>3. n = m
          BY <1>a, <3>1, <3>2
      <3> QED
          BY <1>2, <2>1, <3>2, <3>3
    <2>2. CASE q # r
        BY <1>2, <2>2 DEF Apart, KeysArePrefixes
    <2> QED
        BY <2>1, <2>2
  <1>6. ASSUME Content(tx, pg, tr, cp) PROVE Content(tx2, pg2, tr, cp)
    <2> SUFFICES ASSUME NEW q \in Req, NEW b \in Nat, (b + 1) * Ratio <= Len(tx2[q])
                 PROVE  cp[SlotAt(pg2[q], b)] = BlockOf(tx2[q], b)
        BY <1>6 DEF Content, Visible
    <2>1. CASE q = r
      <3> DEFINE i == b \div PerPage + 1  c == b % PerPage
      <3>0. (b + 1) * Ratio <= Len(tx2[r])
          BY <2>1
      <3>1. b < Len(pg2[r]) * PerPage
          BY <1>3, <3>0, FinishedHasSlot
      <3>2. i \in DOMAIN p
        <4>1. pg2[r] \in Seq(1 .. Pages)
            BY <1>1, <1>2
        <4>2. i \in DOMAIN pg2[r]
            BY <3>1, <4>1, SlotOfBlock
        <4> QED
            BY <1>2, <4>2
      <3>3. PICK n \in tr : n.page = p[i] /\ Len(n.key) = i * Page /\ HasPrefix(key, n.key)
          BY <1>1, <3>2
      <3>4. i \in Nat \ {0} /\ (b + 1) * Ratio <= i * Page
          BY BlockWithinPage
      <3>5. c \in 0 .. PerPage - 1 /\ (i - 1) * PerPage + c = b
        <4>1. PerPage \in Nat \ {0}
            BY WholeBlocks
        <4>2. b \div PerPage \in Nat /\ c \in 0 .. PerPage - 1 /\ b = (b \div PerPage) * PerPage + c
            BY <4>1, Division
        <4>3. i - 1 = b \div PerPage
            BY <4>2
        <4> HIDE DEF c, i
        <4> QED
            BY <4>2, <4>3
      <3>6. SlotAt(pg2[r], b) = n.page * PerPage + c
          BY <1>2, <3>3 DEF SlotAt
      <3> HIDE DEF i, c
      <3>7. cp[n.page * PerPage + c] = BlockOf(n.key, (i - 1) * PerPage + c)
          BY <1>6, <3>3, <3>4, <3>5 DEF Content, TreeBlocks
      <3>8. n.key \in Seq(Nat)
          BY DEF Shape, Nodes
      <3>9. BlockOf(key, b) = BlockOf(n.key, b)
          BY <1>1, <3>3, <3>4, <3>8, BlockOfPrefix
      <3> QED
          BY <1>2, <2>1, <3>5, <3>6, <3>7, <3>9
    <2>2. CASE q # r
        BY <1>2, <1>6, <2>2 DEF Content, Visible
    <2> QED
        BY <2>1, <2>2
  <1> QED
      BY <1>3, <1>4, <1>5, <1>6 DEF Apart

\* A node nothing needs leaves the tree.
LEMMA EvictKeeps ==
  ASSUME NEW tx, NEW pg, NEW tr, NEW cp, Shape(tx, pg, tr), Apart(tx, pg, tr), NEW n \in tr,
         \A r \in Req : \A i \in DOMAIN pg[r] : pg[r][i] # n.page,
         \A m \in tr : Len(m.key) > Len(n.key) => SubSeq(m.key, 1, Len(n.key)) # n.key
  PROVE  /\ Shape(tx, pg, tr \ {n}) /\ Apart(tx, pg, tr \ {n})
         /\ Content(tx, pg, tr, cp) => Content(tx, pg, tr \ {n}, cp)
  <1>1. Shape(tx, pg, tr \ {n})
      BY DEF Shape
  <1>2. PagesDiffer(pg, tr \ {n})
    <2>1. \A q \in Req : \A i, j \in DOMAIN pg[q] : pg[q][i] = pg[q][j] => i = j
        BY DEF Apart, PagesDiffer
    <2>2. ASSUME NEW q \in Req, NEW s \in Req, NEW i \in DOMAIN pg[q], NEW j \in DOMAIN pg[s],
                 q # s, pg[q][i] = pg[s][j]
          PROVE  \E m \in tr \ {n} : m.page = pg[q][i]
      <3>1. PICK m \in tr : m.page = pg[q][i]
          BY <2>2 DEF Apart, PagesDiffer
      <3> QED
          BY <3>1
    <2>3. \A q, s \in Req : \A i \in DOMAIN pg[q] : \A j \in DOMAIN pg[s] :
            q # s /\ pg[q][i] = pg[s][j] => \E m \in tr \ {n} : m.page = pg[q][i]
        BY ONLY <2>2
    <2> QED
        BY ONLY <2>1, <2>3 DEF PagesDiffer
  <1>3. KeysArePrefixes(tx, pg, tr \ {n})
      BY DEF Apart, KeysArePrefixes
  <1>4. TreeIsClosed(tr \ {n})
    <2>1. ASSUME NEW k \in tr \ {n}, NEW i \in Nat \ {0}, i * Page <= Len(k.key)
          PROVE  \E m \in tr \ {n} : Len(m.key) = i * Page /\ HasPrefix(k.key, m.key)
      <3>1. PICK m \in tr : Len(m.key) = i * Page /\ HasPrefix(k.key, m.key)
          BY <2>1 DEF Apart, TreeIsClosed
      <3>2. CASE m # n
          BY <3>1, <3>2
      <3>3. CASE m = n
        <4>1. k.key \in Seq(Nat) /\ n.key \in Seq(Nat)
            BY DEF Shape, Nodes
        <4>2. n.key = SubSeq(k.key, 1, Len(n.key))
            BY <3>1, <3>3, <4>1, PrefixIs
        <4>3. Len(k.key) = Len(n.key)
          <5>1. Len(k.key) \in Nat /\ Len(n.key) \in Nat /\ Len(n.key) <= Len(k.key)
              BY <3>1, <3>3, <4>1 DEF HasPrefix
          <5>2. ~ (Len(k.key) > Len(n.key))
              BY <4>2
          <5> QED
              BY <5>1, <5>2
        <4>4. HasPrefix(k.key, k.key)
          <5>1. Len(k.key) \in Nat
              BY <4>1
          <5> QED
              BY <5>1 DEF HasPrefix
        <4> QED
            BY <3>1, <3>3, <4>3, <4>4
      <3> QED
          BY <3>2, <3>3
    <2>2. \A k, m \in tr \ {n} : k.page = m.page => k = m
        BY DEF Apart, TreeIsClosed
    <2> QED
        BY <2>1, <2>2 DEF TreeIsClosed
  <1>5. Content(tx, pg, tr, cp) => Content(tx, pg, tr \ {n}, cp)
      BY DEF Content, TreeBlocks
  <1> QED
      BY <1>1, <1>2, <1>3, <1>4, <1>5 DEF Apart

\* A finished request has no text and no pages.
LEMMA DropKeeps ==
  ASSUME NEW tx, NEW pg, NEW tr, NEW cp, Shape(tx, pg, tr), Apart(tx, pg, tr),
         NEW r \in Req,
         NEW tx2, \A q \in Req : tx2[q] = IF q = r THEN <<>> ELSE tx[q],
         NEW pg2, \A q \in Req : pg2[q] = IF q = r THEN <<>> ELSE pg[q]
  PROVE  /\ Shape(tx2, pg2, tr) /\ Apart(tx2, pg2, tr)
         /\ Content(tx, pg, tr, cp) => Content(tx2, pg2, tr, cp)
  <1>1. PagesFor(tr, <<>>) = <<>>
    <2>1. Len(<<>>) \div Page = 0
      <3>1. Page \in Nat \ {0} /\ Len(<<>>) = 0
          BY PageAssumption
      <3>2. (0 * Page + 0) \div Page = 0 /\ 0 * Page + 0 = 0
          BY <3>1, Divided
      <3> QED
          BY <3>1, <3>2
    <2>2. 1 .. 0 = {}
        OBVIOUS
    <2> QED
        BY <2>1, <2>2 DEF PagesFor
  <1> DEFINE key == <<>>
  <1>2. key \in {<<>>} \cup {n.key : n \in tr}
      OBVIOUS
  <1>3. /\ \A q \in Req : tx2[q] = IF q = r THEN key ELSE tx[q]
        /\ \A q \in Req : pg2[q] = IF q = r THEN PagesFor(tr, key) ELSE pg[q]
      BY <1>1
  <1> HIDE DEF key
  <1> QED
      BY <1>2, <1>3, AdoptKeeps

-----------------------------------------------------------------------------
(* Packed rows.                                                            *)

\* n sequences of elements of S, of the lengths c with the sums t.
IsRagged(seqs, S, c, t, n) ==
  /\ Len(seqs) = n /\ c \in [1 .. n -> Nat] /\ IsSums(t, c, n)
  /\ \A i \in 1 .. n : seqs[i] \in Seq(S) /\ Len(seqs[i]) = c[i]

IsPacked(cat, seqs, S, c, t, n) ==
  /\ cat \in Seq(S) /\ Len(cat) = t[n]
  /\ \A i \in 1 .. n : \A k \in 1 .. c[i] : cat[t[i - 1] + k] = seqs[i][k]

LEMMA ConcatIs ==
  ASSUME NEW n \in Nat, NEW S, NEW seqs, NEW c, NEW t, IsRagged(seqs, S, c, t, n)
  PROVE  IsPacked(Concat(seqs), seqs, S, c, t, n)
  <1>0. /\ Len(seqs) = n /\ c \in [1 .. n -> Nat] /\ IsSums(t, c, n)
        /\ \A i \in 1 .. n : seqs[i] \in Seq(S) /\ Len(seqs[i]) = c[i]
      BY DEF IsRagged
  <1> DEFINE Is(f, k) == f = [i \in 0 .. k |-> IF i = 0 THEN <<>> ELSE f[i - 1] \o seqs[i]]
             T == {k \in 0 .. n : \E f \in [0 .. k -> Seq(S)] : Is(f, k)}
  <1>1. 0 \in T
    <2> DEFINE f == [i \in 0 .. 0 |-> <<>>]
    <2>1. f \in [0 .. 0 -> Seq(S)] /\ Is(f, 0)
        OBVIOUS
    <2> HIDE DEF f, Is
    <2> QED
        BY <2>1
  <1>2. ASSUME NEW k \in 0 .. n - 1, k \in T PROVE k + 1 \in T
    <2>1. PICK f \in [0 .. k -> Seq(S)] : Is(f, k)
        BY <1>2
    <2> DEFINE u == [i \in 0 .. k + 1 |-> IF i = k + 1 THEN f[k] \o seqs[k + 1] ELSE f[i]]
    <2>2. u \in [0 .. k + 1 -> Seq(S)]
      <3>1. f[k] \in Seq(S) /\ seqs[k + 1] \in Seq(S)
          BY <1>0
      <3>2. f[k] \o seqs[k + 1] \in Seq(S)
          BY <3>1, ConcatProperties
      <3>3. \A i \in 0 .. k + 1 : i # k + 1 => f[i] \in Seq(S)
          OBVIOUS
      <3> QED
          BY <3>2, <3>3
    <2>3. ASSUME NEW i \in 0 .. k + 1
          PROVE  u[i] = IF i = 0 THEN <<>> ELSE u[i - 1] \o seqs[i]
      <3>1. CASE i = k + 1
        <4>1. u[k + 1] = f[k] \o seqs[k + 1] /\ u[k] = f[k] /\ k + 1 # 0 /\ (k + 1) - 1 = k
            OBVIOUS
        <4> HIDE DEF u, Is
        <4> QED
            BY <3>1, <4>1
      <3>2. CASE i \in 0 .. k
        <4>1. f[i] = IF i = 0 THEN <<>> ELSE f[i - 1] \o seqs[i]
            BY <2>1, <3>2
        <4>2. u[i] = f[i] /\ (i # 0 => u[i - 1] = f[i - 1])
            BY <3>2
        <4> HIDE DEF u, Is
        <4> QED
            BY <4>1, <4>2
      <3> QED
          BY <3>1, <3>2
    <2>4. Is(u, k + 1)
      <3> HIDE DEF u
      <3>1. u = [i \in 0 .. k + 1 |-> u[i]]
          BY <2>2
      <3> QED
          BY <3>1, <2>3
    <2>5. \E t2 \in [0 .. k + 1 -> Seq(S)] : Is(t2, k + 1)
      <3> HIDE DEF u, Is
      <3> QED
          BY <2>2, <2>4
    <2>6. k + 1 \in 0 .. n
        OBVIOUS
    <2> HIDE DEF Is
    <2> QED
        BY <2>5, <2>6
  <1>3. n \in T
    <2> HIDE DEF T
    <2>1. \A i \in 0 .. n : i \in T
        BY <1>1, <1>2, Climb
    <2> QED
        BY <2>1
  <1>4. PICK g \in [0 .. n -> Seq(S)] : Is(g, n)
      BY <1>3
  <1> DEFINE f == CHOOSE f : Is(f, n)
  <1>5. Concat(seqs) = f[n]
      BY <1>0 DEF Concat
  <1>6. Is(f, n)
    <2> HIDE DEF Is
    <2> QED
        BY <1>4
  <1>7. f = [i \in 0 .. n |-> IF i = 0 THEN <<>> ELSE f[i - 1] \o seqs[i]]
      BY <1>6
  <1> HIDE DEF f, Is
  <1>8. f[0] = <<>> /\ \A i \in 1 .. n : f[i] = f[i - 1] \o seqs[i]
    <2>1. \A i \in 0 .. n : f[i] = IF i = 0 THEN <<>> ELSE f[i - 1] \o seqs[i]
        BY <1>7, Zenon
    <2>2. 0 \in 0 .. n /\ \A i \in 1 .. n : i \in 0 .. n /\ i # 0
        OBVIOUS
    <2> QED
        BY <2>1, <2>2, Zenon
  <1> DEFINE Good(j) == /\ f[j] \in Seq(S) /\ Len(f[j]) = t[j]
                        /\ \A i \in 1 .. j : \A k \in 1 .. c[i] : f[j][t[i - 1] + k] = seqs[i][k]
             G == {j \in 0 .. n : Good(j)}
  <1>9. 0 \in G
    <2>1. f[0] \in Seq(S) /\ Len(f[0]) = 0 /\ t[0] = 0
        BY <1>0, <1>8 DEF IsSums
    <2> QED
        BY <2>1
  <1>10. ASSUME NEW j \in 0 .. n - 1, j \in G PROVE j + 1 \in G
    <2>1. Good(j)
        BY <1>10
    <2>2. j + 1 \in 1 .. n /\ (j + 1) - 1 = j /\ j \in 0 .. n
        OBVIOUS
    <2>3. f[j + 1] = f[j] \o seqs[j + 1] /\ f[j] \in Seq(S) /\ seqs[j + 1] \in Seq(S)
        BY <1>0, <1>8, <2>1, <2>2
    <2>4. /\ t[j + 1] = t[j] + c[j + 1] /\ t[j] \in Nat /\ c[j + 1] \in Nat
          /\ Len(f[j]) = t[j] /\ Len(seqs[j + 1]) = c[j + 1]
        BY <1>0, <2>1, <2>2 DEF IsSums
    <2>5. /\ f[j + 1] \in Seq(S) /\ Len(f[j + 1]) = t[j + 1]
          /\ \A i \in 1 .. t[j] + c[j + 1] :
               f[j + 1][i] = IF i <= t[j] THEN f[j][i] ELSE seqs[j + 1][i - t[j]]
      <3> DEFINE s1 == f[j]  s2 == seqs[j + 1]
      <3>1. s1 \in Seq(S) /\ s2 \in Seq(S) /\ f[j + 1] = s1 \o s2
          BY <2>3
      <3>2. Len(s1) = t[j] /\ Len(s2) = c[j + 1]
          BY <2>4
      <3> HIDE DEF s1, s2
      <3>3. /\ s1 \o s2 \in Seq(S) /\ Len(s1 \o s2) = Len(s1) + Len(s2)
            /\ \A i \in 1 .. Len(s1) + Len(s2) : (s1 \o s2)[i] =
                  IF i <= Len(s1) THEN s1[i] ELSE s2[i - Len(s1)]
          BY <3>1, ConcatProperties
      <3>4. /\ f[j + 1] \in Seq(S) /\ Len(f[j + 1]) = t[j] + c[j + 1]
            /\ \A i \in 1 .. t[j] + c[j + 1] : f[j + 1][i] =
                  IF i <= t[j] THEN s1[i] ELSE s2[i - t[j]]
          BY <3>1, <3>2, <3>3
      <3> QED
          BY <3>4, <2>4 DEF s1, s2
    <2>6. ASSUME NEW i \in 1 .. j + 1, NEW k \in 1 .. c[i]
          PROVE  f[j + 1][t[i - 1] + k] = seqs[i][k]
      <3>1. CASE i = j + 1
        <4>0. k \in 1 .. c[j + 1] /\ k \in Nat \ {0} /\ k <= c[j + 1]
            BY <2>4, <3>1
        <4> DEFINE x == t[j]  y == c[j + 1]
        <4>a. x \in Nat /\ y \in Nat /\ k \in Nat \ {0} /\ k <= y
            BY <2>4, <4>0
        <4> HIDE DEF x, y
        <4>b. x + k \in 1 .. x + y /\ ~ (x + k <= x) /\ (x + k) - x = k
            BY ONLY <4>a
        <4>1. t[j] + k \in 1 .. t[j] + c[j + 1] /\ ~ (t[j] + k <= t[j]) /\ (t[j] + k) - t[j] = k
            BY <4>b DEF x, y
        <4>2. f[j + 1][t[j] + k] = seqs[j + 1][k]
            BY <2>5, <4>1
        <4> QED
            BY <2>2, <3>1, <4>2
      <3>2. CASE i # j + 1
        <4>1. i \in 1 .. j /\ i \in 1 .. n /\ i - 1 \in 0 .. n /\ i \in 0 .. n /\ j \in i .. n
            BY <3>2
        <4>2. f[j][t[i - 1] + k] = seqs[i][k]
            BY <2>1, <4>1
        <4>3. t[i] <= t[j]
            BY <1>0, <4>1, SumsRise
        <4>4. t[i - 1] \in Nat /\ t[i] = t[i - 1] + c[i] /\ c[i] \in Nat
            BY <1>0, <4>1 DEF IsSums
        <4> DEFINE x == t[i - 1]  y == c[i]  z == t[i]  v == t[j]  w == c[j + 1]
        <4>a. /\ x \in Nat /\ y \in Nat /\ v \in Nat /\ w \in Nat /\ z = x + y /\ z <= v
              /\ k \in 1 .. y
            BY <2>4, <4>3, <4>4
        <4> HIDE DEF x, y, z, v, w
        <4>b. x + k \in 1 .. v + w /\ x + k <= v
            BY ONLY <4>a
        <4>5. t[i - 1] + k \in 1 .. t[j] + c[j + 1] /\ t[i - 1] + k <= t[j]
            BY <4>b DEF x, v, w
        <4> QED
            BY <2>5, <4>2, <4>5
      <3> QED
          BY <3>1, <3>2
    <2>7. Good(j + 1)
        BY <2>5, <2>6
    <2> HIDE DEF Good
    <2> QED
        BY <2>2, <2>7
  <1>11. Good(n)
    <2> HIDE DEF G
    <2>1. \A j \in 0 .. n : j \in G
        BY <1>9, <1>10, Climb
    <2>2. n \in G
        BY <2>1
    <2> USE DEF G
    <2> HIDE DEF Good
    <2> QED
        BY <2>2
  <1> QED
      BY <1>5, <1>11 DEF IsPacked

\* Each packed place is one row's.
LEMMA PlaceInRow ==
  ASSUME NEW n \in Nat, NEW c, c \in [1 .. n -> Nat], NEW t, IsSums(t, c, n), NEW k \in 1 .. t[n]
  PROVE  \E i \in 1 .. n : \E d \in 1 .. c[i] : k = t[i - 1] + d
  <1>1. n \in 0 .. n
      OBVIOUS
  <1>2. t[n] \in Nat
      BY <1>1 DEF IsSums
  <1> DEFINE e == k - 1
  <1>3. e \in Nat /\ e < t[n] /\ k = e + 1
      BY <1>2
  <1> HIDE DEF e
  <1>4. PICK i \in 1 .. n : t[i - 1] <= e /\ e < t[i]
      BY <1>3, OwnerExists
  <1>5. t[i] = t[i - 1] + c[i] /\ t[i - 1] \in Nat /\ c[i] \in Nat
    <2>1. i - 1 \in 0 .. n
        OBVIOUS
    <2> QED
        BY <2>1 DEF IsSums
  <1> DEFINE d == k - t[i - 1]
  <1>6. d \in 1 .. c[i] /\ k = t[i - 1] + d
      BY <1>3, <1>4, <1>5
  <1> HIDE DEF d
  <1> QED
      BY <1>6

LEMMA UniformSums ==
  ASSUME NEW n \in Nat, NEW w \in Nat, NEW c, c = [i \in 1 .. n |-> w], NEW t, IsSums(t, c, n)
  PROVE  \A i \in 0 .. n : t[i] = i * w
  <1> DEFINE T == {i \in 0 .. n : t[i] = i * w}
  <1>1. 0 \in T
      BY DEF IsSums
  <1>2. ASSUME NEW i \in 0 .. n - 1, i \in T PROVE i + 1 \in T
    <2>1. i + 1 \in 1 .. n /\ (i + 1) - 1 = i
        OBVIOUS
    <2>2. t[i + 1] = t[i] + w
        BY <2>1 DEF IsSums
    <2>3. (i + 1) * w = i * w + w
        OBVIOUS
    <2> QED
        BY <1>2, <2>1, <2>2, <2>3
  <1> HIDE DEF T
  <1>3. \A i \in 0 .. n : i \in T
      BY <1>1, <1>2, Climb
  <1> QED
      BY <1>3 DEF T

\* Sums of counts bounded by another sequence's elements.
LEMMA SumsWithin ==
  ASSUME NEW n \in Nat, NEW c, c \in [1 .. n -> Nat], NEW t, IsSums(t, c, n),
         NEW c2, c2 \in [1 .. n -> Nat], NEW t2, IsSums(t2, c2, n), NEW f \in Nat,
         \A i \in 1 .. n : c[i] * f <= c2[i]
  PROVE  t[n] * f <= t2[n]
  <1> DEFINE T == {i \in 0 .. n : t[i] * f <= t2[i]}
  <1>1. 0 \in T
      BY DEF IsSums
  <1>2. ASSUME NEW i \in 0 .. n - 1, i \in T PROVE i + 1 \in T
    <2>1. i + 1 \in 1 .. n /\ (i + 1) - 1 = i /\ i \in 0 .. n
        OBVIOUS
    <2>2. t[i + 1] = t[i] + c[i + 1] /\ t2[i + 1] = t2[i] + c2[i + 1]
          /\ t[i] \in Nat /\ t2[i] \in Nat /\ c[i + 1] \in Nat /\ c2[i + 1] \in Nat
        BY <2>1 DEF IsSums
    <2>3. (t[i] + c[i + 1]) * f = t[i] * f + c[i + 1] * f
          /\ t[i] * f \in Nat /\ c[i + 1] * f \in Nat
      <3> DEFINE x == t[i]  y == c[i + 1]
      <3>1. x \in Nat /\ y \in Nat
          BY <2>2
      <3> HIDE DEF x, y
      <3>2. (x + y) * f = x * f + y * f /\ x * f \in Nat /\ y * f \in Nat
          BY ONLY <3>1, f \in Nat
      <3> QED
          BY <3>2 DEF x, y
    <2>4. t[i] * f <= t2[i] /\ c[i + 1] * f <= c2[i + 1]
        BY <1>2, <2>1
    <2>5. t[i + 1] * f = (t[i] + c[i + 1]) * f
        BY <2>2
    <2> DEFINE x == t[i] * f  y == c[i + 1] * f  v == t2[i]  w == c2[i + 1]
    <2>6. x \in Nat /\ y \in Nat /\ v \in Nat /\ w \in Nat /\ x <= v /\ y <= w
          /\ t[i + 1] * f = x + y /\ t2[i + 1] = v + w
        BY <2>2, <2>3, <2>4, <2>5
    <2>7. t[i + 1] * f <= t2[i + 1]
      <3> HIDE DEF x, y, v, w
      <3>1. x + y <= v + w
          BY ONLY <2>6
      <3> QED
          BY ONLY <2>6, <3>1
    <2> QED
        BY <2>1, <2>7
  <1> HIDE DEF T
  <1>3. \A i \in 0 .. n : i \in T
      BY <1>1, <1>2, Climb
  <1> QED
      BY <1>3 DEF T

-----------------------------------------------------------------------------
(* The rows of a decode or verification and the ring.                      *)

LEMMA StrideIs == Stride \in Nat \ {0} /\ Ratio <= Stride
  <1>1. Ratio \in Nat \ {0} /\ RingWindow \in Nat
      BY RatioAssumption, PageAssumption
  <1> QED
      BY <1>1 DEF Stride

\* Row d of the i-th request of a batch.
Row(batch, kept, i, d) ==
  [req |-> batch[i], pos |-> Len(text[batch[i]]) + d - 1,
   cell |-> <<Len(text[batch[i]]) + d - 1, IF d <= kept[i] THEN id[batch[i]] ELSE 0>>]

IsRows(rows, batch, n, width, kept) ==
  /\ DOMAIN rows = 1 .. n * width
  /\ Len(rows) = n * width
  /\ \E S : rows \in Seq(S)
  /\ \A i \in 1 .. n : \A d \in 1 .. width :
       /\ (i - 1) * width + d \in 1 .. n * width
       /\ rows[(i - 1) * width + d] = Row(batch, kept, i, d)
  /\ \A k \in 1 .. n * width : \E i \in 1 .. n : \E d \in 1 .. width : k = (i - 1) * width + d

LEMMA PagedRowsAre ==
  ASSUME NEW n \in Nat, NEW batch, DOMAIN batch = 1 .. n, Len(batch) = n,
         NEW width \in Nat, NEW kept
  PROVE  IsRows(PagedRows(batch, width, kept), batch, n, width, kept)
  <1> DEFINE seqs == [i \in 1 .. n |-> [d \in 1 .. width |-> Row(batch, kept, i, d)]]
             S == {Row(batch, kept, w[1], w[2]) : w \in (1 .. n) \X (1 .. width)}
             c == [i \in 1 .. n |-> width]
             t == CumulativeSum(c)
             rows == PagedRows(batch, width, kept)
  <1>1. rows = Concat(seqs)
      BY DEF PagedRows, Row
  <1>2. c \in [1 .. n -> Nat] /\ Len(c) = n
      OBVIOUS
  <1>3. IsSums(t, c, n)
    <2> HIDE DEF c
    <2> QED
        BY <1>2, SumsAreSums
  <1>4. \A i \in 0 .. n : t[i] = i * width
    <2>1. c = [i \in 1 .. n |-> width]
        OBVIOUS
    <2> HIDE DEF c, t, rows, seqs, S
    <2> QED
        BY ONLY n \in Nat, width \in Nat, <1>3, <2>1, UniformSums
  <1>5. Len(seqs) = n
      OBVIOUS
  <1>6. ASSUME NEW i \in 1 .. n
        PROVE  /\ seqs[i] \in Seq(S) /\ Len(seqs[i]) = c[i] /\ c[i] = width
               /\ \A d \in 1 .. width : seqs[i][d] = Row(batch, kept, i, d)
    <2>1. seqs[i] = [d \in 1 .. width |-> Row(batch, kept, i, d)] /\ c[i] = width
        OBVIOUS
    <2>2. \A d \in 1 .. width : Row(batch, kept, i, d) \in S
      <3> SUFFICES ASSUME NEW d \in 1 .. width PROVE Row(batch, kept, i, d) \in S
          OBVIOUS
      <3> DEFINE w == <<i, d>>
      <3>1. w \in (1 .. n) \X (1 .. width) /\ Row(batch, kept, i, d) = Row(batch, kept, w[1], w[2])
          OBVIOUS
      <3> HIDE DEF w
      <3> QED
          BY <3>1
    <2> HIDE DEF seqs, S, c
    <2>3. seqs[i] \in [1 .. width -> S]
        BY <2>1, <2>2
    <2>4. seqs[i] \in Seq(S)
        BY <2>3, SeqDef
    <2>5. DOMAIN seqs[i] = 1 .. width
        BY <2>1
    <2>6. Len(seqs[i]) = width
        BY <2>4, <2>5, LenProperties
    <2> QED
        BY <2>1, <2>4, <2>6
  <1> HIDE DEF seqs, S, c, t, rows
  <1>7. /\ Concat(seqs) \in Seq(S) /\ Len(Concat(seqs)) = t[n]
        /\ \A i \in 1 .. n : \A k \in 1 .. c[i] : Concat(seqs)[t[i - 1] + k] = seqs[i][k]
    <2>1. \A i \in 1 .. n : seqs[i] \in Seq(S) /\ Len(seqs[i]) = c[i]
        BY <1>6
    <2>2. c \in [1 .. n -> Nat]
        BY <1>2
    <2> QED
      <3>1. IsRagged(seqs, S, c, t, n)
          BY <2>1, <2>2, <1>3, <1>5 DEF IsRagged
      <3>2. IsPacked(Concat(seqs), seqs, S, c, t, n)
          BY ONLY <3>1, n \in Nat, ConcatIs
      <3> QED
          BY <3>2 DEF IsPacked
  <1>8. t[n] = n * width /\ \A i \in 1 .. n : t[i - 1] = (i - 1) * width
    <2>1. n \in 0 .. n /\ \A i \in 1 .. n : i - 1 \in 0 .. n
        OBVIOUS
    <2> QED
        BY <1>4, <2>1
  <1>9. Len(rows) = n * width /\ DOMAIN rows = 1 .. n * width /\ rows \in Seq(S)
    <2>1. rows \in Seq(S) /\ Len(rows) = n * width
        BY <1>1, <1>7, <1>8
    <2> QED
        BY <2>1, LenProperties
  <1>10. ASSUME NEW i \in 1 .. n, NEW d \in 1 .. width
         PROVE  /\ (i - 1) * width + d \in 1 .. n * width
                /\ rows[(i - 1) * width + d] = Row(batch, kept, i, d)
    <2>1. i * width <= n * width /\ (i - 1) * width + width = i * width
          /\ (i - 1) * width \in Nat /\ n * width \in Nat
      <3>1. i \in Nat /\ i - 1 \in Nat /\ i <= n /\ i = (i - 1) + 1
          OBVIOUS
      <3>2. i * width <= n * width
          BY <3>1, Monotone
      <3>3. \A x \in Nat : (x + 1) * width = x * width + width /\ x * width \in Nat
          OBVIOUS
      <3> QED
          BY <3>1, <3>2, <3>3
    <2> DEFINE x == (i - 1) * width  y == n * width  z == i * width
    <2>2. x \in Nat /\ y \in Nat /\ z <= y /\ z = x + width
        BY <2>1
    <2> HIDE DEF x, y, z
    <2>3. x + d \in 1 .. y
        BY <2>2
    <2>4. rows[(i - 1) * width + d] = seqs[i][d]
      <3>1. c[i] = width /\ t[i - 1] = (i - 1) * width
          BY <1>6, <1>8
      <3>2. Concat(seqs)[t[i - 1] + d] = seqs[i][d]
          BY <1>7, <3>1
      <3> QED
          BY <1>1, <3>1, <3>2
    <2> QED
        BY <1>6, <2>3, <2>4 DEF x, y
  <1>11. ASSUME NEW k \in 1 .. n * width
         PROVE  \E i \in 1 .. n : \E d \in 1 .. width : k = (i - 1) * width + d
    <2>0. k \in 1 .. t[n] /\ c \in [1 .. n -> Nat]
        BY <1>2, <1>8
    <2>1. PICK i \in 1 .. n : \E d \in 1 .. c[i] : k = t[i - 1] + d
        BY <2>0, <1>3, PlaceInRow
    <2>2. PICK d \in 1 .. c[i] : k = t[i - 1] + d
        BY <2>1
    <2> QED
        BY <1>6, <1>8, <2>2
  <1> QED
      BY <1>9, <1>10, <1>11 DEF IsRows, rows

\* Positions nearer than the ring's width have cells of their own.
LEMMA OneCell ==
  ASSUME NEW s \in Nat \ {0}, NEW x \in Nat, NEW y \in Nat, x % s = y % s, x <= y, y - x < s
  PROVE  x = y
  <1> DEFINE a == x \div s  b == y \div s  c == x % s
  <1>1. a \in Nat /\ b \in Nat /\ c \in Nat /\ x = a * s + c /\ y = b * s + c
    <2>1. x \div s \in Nat /\ x % s \in 0 .. s - 1 /\ x = (x \div s) * s + (x % s)
        BY ONLY x \in Nat, s \in Nat \ {0}, Division, Zenon
    <2>2. y \div s \in Nat /\ y = (y \div s) * s + (y % s)
        BY ONLY y \in Nat, s \in Nat \ {0}, Division, Zenon
    <2>3. x % s \in Nat
        BY <2>1
    <2> QED
        BY <2>1, <2>2, <2>3, Zenon
  <1> HIDE DEF a, b, c
  <1>2. ASSUME a < b PROVE FALSE
    <2>1. (a + 1) * s <= b * s
        BY <1>1, <1>2, Monotone
    <2>2. (a + 1) * s = a * s + s /\ a * s \in Nat /\ b * s \in Nat
        BY <1>1
    <2> QED
        BY <1>1, <2>1, <2>2
  <1>3. ASSUME b < a PROVE FALSE
    <2>1. (b + 1) * s <= a * s
        BY <1>1, <1>3, Monotone
    <2>2. (b + 1) * s = b * s + s /\ a * s \in Nat /\ b * s \in Nat
        BY <1>1
    <2> QED
        BY <1>1, <2>1, <2>2
  <1> QED
      BY <1>1, <1>2, <1>3

\* The tail of a text is less than a block.
LEMMA TailIsShort ==
  ASSUME NEW l \in Nat
  PROVE  (l \div Ratio) * Ratio \in Nat /\ (l \div Ratio) * Ratio <= l /\ l < (l \div Ratio) * Ratio + Ratio
  <1>1. Ratio \in Nat \ {0}
      BY RatioAssumption
  <1> DEFINE a == l \div Ratio
  <1>2. a \in Nat /\ a * Ratio <= l /\ l < a * Ratio + Ratio
      BY <1>1, Division
  <1> HIDE DEF a
  <1>3. a * Ratio \in Nat
      BY <1>1, <1>2
  <1> QED
      BY <1>2, <1>3 DEF a

\* Position q of request r, batch row i: of its unfinished block or of the new tokens
\* whose rows are among the first m.
IsPosition(batch, n, width, kept, i, r, l, q, m) ==
  /\ \A j, k \in 1 .. n : batch[j] = batch[k] => j = k
  /\ width + Ratio <= Stride + 1
  /\ i \in 1 .. n /\ r = batch[i] /\ l \in Nat /\ l = Len(text[r]) /\ kept[i] \in 1 .. width
  /\ q \in Nat /\ (l \div Ratio) * Ratio <= q /\ q < l + kept[i]
  /\ m \in 0 .. n * width
  /\ q >= l => (i - 1) * width + (q - l + 1) <= m
  /\ q < l => ring[r][q % Stride] = <<q, text[r][q + 1]>>

\* The ring's cell of a position of the unfinished block, once its token is stored.
LEMMA RingCell ==
  ASSUME NEW n \in Nat, NEW batch, NEW width \in Nat \ {0}, NEW kept, NEW rows,
         IsRows(rows, batch, n, width, kept),
         NEW i, NEW r, NEW l, NEW q, NEW m, IsPosition(batch, n, width, kept, i, r, l, q, m)
  PROVE  StoredCell(rows, m, r, q % Stride) = <<q, IF q < l THEN text[r][q + 1] ELSE id[r]>>
  <1>0. /\ \A j, k \in 1 .. n : batch[j] = batch[k] => j = k
        /\ width + Ratio <= Stride + 1
        /\ i \in 1 .. n /\ r = batch[i] /\ l \in Nat /\ l = Len(text[r]) /\ kept[i] \in 1 .. width
        /\ q \in Nat /\ (l \div Ratio) * Ratio <= q /\ q < l + kept[i]
        /\ m \in 0 .. n * width
        /\ q >= l => (i - 1) * width + (q - l + 1) <= m
        /\ q < l => ring[r][q % Stride] = <<q, text[r][q + 1]>>
      BY DEF IsPosition
  <1> USE <1>0
  <1> DEFINE here == {k \in 1 .. m : rows[k].req = r /\ rows[k].pos % Stride = q % Stride}
  <1>1. Stride \in Nat \ {0} /\ Ratio \in Nat \ {0, 1}
      BY StrideIs, RatioAssumption
  <1>2. n * width \in Nat
      OBVIOUS
  <1>3. ASSUME NEW k \in here
        PROVE  q >= l /\ k = (i - 1) * width + (q - l + 1)
    <2>1. k \in 1 .. n * width
        BY <1>2
    <2>2. PICK i2 \in 1 .. n : \E d2 \in 1 .. width : k = (i2 - 1) * width + d2
        BY <2>1 DEF IsRows
    <2>3. PICK d2 \in 1 .. width : k = (i2 - 1) * width + d2
        BY <2>2
    <2>4. rows[k] = Row(batch, kept, i2, d2)
        BY <2>3 DEF IsRows
    <2>5. batch[i2] = r
        BY <1>3, <2>4 DEF Row
    <2>6. i2 = i
        BY <2>5
    <2>7. rows[k].pos = l + d2 - 1 /\ rows[k].pos % Stride = q % Stride
        BY <1>3, <2>4, <2>6 DEF Row
    <2> DEFINE x == l + d2 - 1
    <2>8. x \in Nat /\ x % Stride = q % Stride
      <3>1. x \in Nat
        <4>1. l \in Nat /\ d2 \in 1 .. width /\ width \in Nat
            OBVIOUS
        <4> QED
            BY ONLY <4>1
      <3>2. rows[k].pos = x
          BY <2>7
      <3> QED
          BY <2>7, <3>1, <3>2
    <2>9. l < q + Ratio
      <3> DEFINE y == (l \div Ratio) * Ratio
      <3>1. y \in Nat /\ l < y + Ratio /\ y <= q
          BY TailIsShort
      <3> HIDE DEF y
      <3> QED
          BY <1>1, <3>1
    <2>10. x = q
      <3>1. CASE x <= q
        <4>1. q - x < Stride
          <5> DEFINE w == kept[i]
          <5>1. w \in 1 .. width /\ q < l + w /\ width + Ratio <= Stride + 1 /\ d2 \in 1 .. width
                /\ x = l + d2 - 1
              OBVIOUS
          <5> HIDE DEF w, x
          <5> QED
              BY ONLY <1>1, <3>1, <5>1, l \in Nat, q \in Nat, width \in Nat \ {0}
        <4> HIDE DEF x
        <4> QED
            BY <1>1, <2>8, <3>1, <4>1, OneCell
      <3>2. CASE q <= x
        <4>1. x - q < Stride
            BY <1>1, <2>9, <3>2
        <4> HIDE DEF x
        <4>2. q % Stride = x % Stride
            BY <2>8
        <4> QED
            BY <1>1, <2>8, <3>2, <4>1, <4>2, OneCell
      <3> HIDE DEF x
      <3> QED
          BY <2>8, <3>1, <3>2
    <2>11. q >= l /\ d2 = q - l + 1
        BY <2>10
    <2> QED
        BY <2>3, <2>6, <2>11
  <1>4. CASE q < l
    <2>1. here = {}
      <3> SUFFICES ASSUME NEW k \in here PROVE FALSE
          OBVIOUS
      <3>1. q >= l
          BY <1>3
      <3> QED
          BY <1>4, <3>1
    <2> HIDE DEF here
    <2>2. StoredCell(rows, m, r, q % Stride) = ring[r][q % Stride]
        BY <2>1 DEF StoredCell, here
    <2> QED
        BY <1>4, <2>2
  <1>5. CASE q >= l
    <2> DEFINE d == q - l + 1  k == (i - 1) * width + d
    <2>1. d \in 1 .. width /\ d <= kept[i]
      <3> DEFINE w == kept[i]
      <3>1. w \in 1 .. width /\ q < l + w
          OBVIOUS
      <3> HIDE DEF w
      <3>2. d \in 1 .. width /\ d <= w
          BY ONLY <3>1, <1>5, l \in Nat, q \in Nat, width \in Nat \ {0}
      <3> QED
          BY <3>2 DEF w
    <2>2. k \in 1 .. n * width /\ rows[k] = Row(batch, kept, i, d)
      <3> HIDE DEF d
      <3> QED
          BY <2>1 DEF IsRows
    <2>3. k \in 1 .. m
      <3>1. k <= m /\ m \in Nat
          BY <1>2, <1>5
      <3> HIDE DEF k
      <3> QED
          BY <1>2, <2>2, <3>1
    <2>4. rows[k].req = r /\ rows[k].pos = q /\ rows[k].cell = <<q, id[r]>>
      <3>1. l + d - 1 = q
          OBVIOUS
      <3>2. rows[k] = Row(batch, kept, i, d) /\ d <= kept[i]
          BY <2>1, <2>2
      <3> HIDE DEF d, k
      <3>3. Row(batch, kept, i, d) = [req |-> r, pos |-> q, cell |-> <<q, id[r]>>]
          BY <3>1, <3>2 DEF Row
      <3> QED
          BY <3>2, <3>3
    <2> HIDE DEF k, d
    <2>5. k \in here
        BY <2>3, <2>4
    <2>6. \A j \in here : j = k
        BY <1>3 DEF k, d
    <2> HIDE DEF here
    <2>7. StoredCell(rows, m, r, q % Stride) = rows[CHOOSE j \in here : \A j2 \in here : j2 <= j].cell
        BY <2>5 DEF StoredCell, here
    <2>8. (CHOOSE j \in here : \A j2 \in here : j2 <= j) = k
      <3>1. \A j2 \in here : j2 <= k
        <4>1. k \in Nat
            BY <2>3
        <4> QED
            BY <2>6, <4>1
      <3> QED
          BY <2>5, <2>6, <3>1
    <2>9. StoredCell(rows, m, r, q % Stride) = <<q, id[r]>>
        BY <2>4, <2>7, <2>8
    <2>10. ~ (q < l)
        BY <1>5
    <2> QED
        BY <2>9, <2>10
  <1> QED
      BY <1>4, <1>5

\* The ring of a request that is not in the batch.
LEMMA RingElsewhere ==
  ASSUME NEW n \in Nat, NEW batch, NEW width \in Nat, NEW kept, NEW rows,
         IsRows(rows, batch, n, width, kept),
         NEW r, \A i \in 1 .. n : batch[i] # r, NEW x
  PROVE  StoredCell(rows, n * width, r, x) = ring[r][x]
  <1> DEFINE here == {k \in 1 .. n * width : rows[k].req = r /\ rows[k].pos % Stride = x}
  <1>1. ASSUME NEW k \in here PROVE FALSE
    <2>1. PICK i \in 1 .. n : \E d \in 1 .. width : k = (i - 1) * width + d
        BY DEF IsRows
    <2>2. PICK d \in 1 .. width : k = (i - 1) * width + d
        BY <2>1
    <2>3. rows[k] = Row(batch, kept, i, d)
        BY <2>2 DEF IsRows
    <2>4. rows[k].req = batch[i] /\ rows[k].req = r
        BY <1>1, <2>3 DEF Row
    <2> QED
        BY <2>4
  <1>2. here = {}
      BY <1>1
  <1> HIDE DEF here
  <1> QED
      BY <1>2 DEF StoredCell, here

-----------------------------------------------------------------------------
(* The plans of the three forwards.                                        *)

\* The blocks that rows of these lengths complete with their last token.
Completed(lengths, n) == {w \in (1 .. n) \X Nat : (w[2] + 1) * Ratio = lengths[w[1]]}

LEMMA LastBlock ==
  ASSUME NEW l \in Nat \ {0}
  PROVE  /\ l \div Ratio \in Nat
         /\ l % Ratio = 0 => l \div Ratio - 1 \in Nat /\ (l - 1) \div Ratio = l \div Ratio - 1
         /\ \A b \in Nat : (b + 1) * Ratio = l <=> l % Ratio = 0 /\ b = l \div Ratio - 1
  <1> DEFINE a == l \div Ratio  c == l % Ratio
  <1>1. Ratio \in Nat \ {0, 1}
      BY RatioAssumption
  <1>2. a \in Nat /\ c \in 0 .. Ratio - 1 /\ l = a * Ratio + c
      BY <1>1, Division
  <1>3. ASSUME NEW b \in Nat, (b + 1) * Ratio = l PROVE c = 0 /\ b = a - 1
    <2>1. ((b + 1) * Ratio + 0) \div Ratio = b + 1 /\ ((b + 1) * Ratio + 0) % Ratio = 0
        BY <1>1, Divided
    <2>2. (b + 1) * Ratio + 0 = l
        BY <1>3
    <2>3. a = b + 1 /\ c = 0
        BY <2>1, <2>2
    <2> HIDE DEF a, c
    <2> QED
        BY <2>3
  <1>4. ASSUME c = 0
        PROVE  a - 1 \in Nat /\ (l - 1) \div Ratio = a - 1 /\ ((a - 1) + 1) * Ratio = l
    <2> HIDE DEF a, c
    <2>1. a # 0
      <3> SUFFICES ASSUME a = 0 PROVE FALSE
          OBVIOUS
      <3>1. 0 * Ratio = 0
          BY <1>1
      <3> QED
          BY <1>2, <1>4, <3>1
    <2>2. a - 1 \in Nat /\ (a - 1) + 1 = a
        BY <1>2, <2>1
    <2> DEFINE b == a - 1
    <2>3. b \in Nat /\ (b + 1) * Ratio = l
      <3>1. b \in Nat /\ b + 1 = a
          BY <2>2
      <3>2. a * Ratio = l
        <4>1. a * Ratio \in Nat
            BY <1>1, <1>2
        <4> QED
            BY <1>2, <1>4, <4>1
      <3> HIDE DEF b
      <3> QED
          BY <3>1, <3>2
    <2> HIDE DEF b
    <2>4. (b + 1) * Ratio = b * Ratio + Ratio /\ b * Ratio \in Nat
        BY <1>1, <2>3
    <2>5. l - 1 = b * Ratio + (Ratio - 1)
        BY <1>1, <2>3, <2>4
    <2>6. (b * Ratio + (Ratio - 1)) \div Ratio = b
      <3>1. Ratio - 1 \in 0 .. Ratio - 1
          BY <1>1
      <3> QED
          BY <1>1, <2>3, <3>1, Divided
    <2> QED
        BY <2>2, <2>3, <2>5, <2>6 DEF b
  <1>5. a \in Nat
      BY <1>2
  <1> HIDE DEF a, c
  <1>6. \A b \in Nat : (b + 1) * Ratio = l <=> c = 0 /\ b = a - 1
      BY <1>3, <1>4
  <1> QED
      BY <1>4, <1>5, <1>6 DEF a, c

LEMMA PagedPlanCovers ==
  ASSUME NEW n \in Nat, NEW lengths, lengths \in [1 .. n -> Nat \ {0}], Len(lengths) = n,
         NEW tables, NEW place,
         \A w \in Completed(lengths, n) : place[w] = Place(tables, w[1], w[2])
  PROVE  Covers(PagedPlan(tables, lengths), Completed(lengths, n), place)
  <1> DEFINE ends == [r \in 1 .. n |-> lengths[r] \div Ratio]
             starts == [r \in 1 .. n |-> IF lengths[r] % Ratio = 0 THEN ends[r] - 1 ELSE ends[r]]
             c == Counts(starts, ends, n)
             t == CumulativeSum(c)
             c1 == [r \in 1 .. n |-> 1]
             t1 == CumulativeSum(c1)
  <1>1. \A r \in 1 .. n : lengths[r] \in Nat \ {0}
      OBVIOUS
  <1>2. ASSUME NEW r \in 1 .. n
        PROVE  /\ ends[r] = lengths[r] \div Ratio /\ ends[r] \in Nat /\ starts[r] \in Nat
               /\ starts[r] = IF lengths[r] % Ratio = 0 THEN ends[r] - 1 ELSE ends[r]
    <2>1. /\ ends[r] = lengths[r] \div Ratio
          /\ starts[r] = IF lengths[r] % Ratio = 0 THEN ends[r] - 1 ELSE ends[r]
        OBVIOUS
    <2>2. /\ lengths[r] \div Ratio \in Nat
          /\ lengths[r] % Ratio = 0 => lengths[r] \div Ratio - 1 \in Nat
        BY <1>1, LastBlock
    <2> HIDE DEF ends, starts
    <2> QED
        BY <2>1, <2>2
  <1>3. ends \in [1 .. n -> Nat] /\ starts \in [1 .. n -> Nat] /\ Len(ends) = n
    <2>1. ends = [r \in 1 .. n |-> ends[r]] /\ starts = [r \in 1 .. n |-> starts[r]]
        OBVIOUS
    <2>2. Len(ends) = n
        OBVIOUS
    <2> HIDE DEF ends, starts
    <2> QED
        BY <1>2, <2>1, <2>2
  <1>4. PagedPlan(tables, lengths) = WritePlan(tables, starts, ends, n)
    <2>1. DOMAIN lengths = 1 .. n
        OBVIOUS
    <2> QED
        BY <2>1 DEF PagedPlan
  <1> HIDE DEF ends, starts
  <1>5. /\ c \in [1 .. n -> Nat] /\ Len(c) = n
        /\ \A r \in 1 .. n : c[r] * 1 <= c1[r]
    <2>1. ASSUME NEW r \in 1 .. n
          PROVE  (IF ends[r] > starts[r] THEN ends[r] - starts[r] ELSE 0) \in 0 .. 1
        BY <1>2
    <2> QED
        BY <2>1 DEF Counts
  <1>6. c1 \in [1 .. n -> Nat] /\ Len(c1) = n
      OBVIOUS
  <1>7. IsSums(t, c, n) /\ IsSums(t1, c1, n)
    <2> HIDE DEF c, c1
    <2> QED
        BY <1>5, <1>6, SumsAreSums
  <1>8. t1[n] = n
    <2>1. \A i \in 0 .. n : t1[i] = i * 1
      <3>1. c1 = [r \in 1 .. n |-> 1]
          OBVIOUS
      <3> HIDE DEF c1, t1
      <3> QED
          BY <1>7, <3>1, UniformSums
    <2> HIDE DEF t1
    <2> QED
        BY <2>1
  <1>9. t[n] <= n
    <2> HIDE DEF c, c1, t, t1
    <2>1. t[n] * 1 <= t1[n]
        BY <1>5, <1>6, <1>7, SumsWithin
    <2>2. t[n] \in Nat
        BY <1>7 DEF IsSums
    <2> QED
        BY <1>8, <2>1, <2>2
  <1>10. Serves(PagedPlan(tables, lengths), n, tables, starts, ends)
    <2>1. CumulativeSum(Counts(starts, ends, n))[n] <= n
        BY <1>9 DEF t, c
    <2>2. Serves(WritePlan(tables, starts, ends, n), n, tables, starts, ends)
        BY ONLY <1>3, <2>1, n \in Nat, WritePlanServes
    <2> QED
        BY <1>4, <2>2
  <1>11. Between(starts, ends, n) = Completed(lengths, n)
    <2>1. ASSUME NEW r \in 1 .. n, NEW b \in Nat
          PROVE  b \in starts[r] .. ends[r] - 1 <=> (b + 1) * Ratio = lengths[r]
      <3>1. (b + 1) * Ratio = lengths[r] <=> lengths[r] % Ratio = 0 /\ b = lengths[r] \div Ratio - 1
          BY <1>1, LastBlock
      <3>2. b \in starts[r] .. ends[r] - 1 <=> lengths[r] % Ratio = 0 /\ b = ends[r] - 1
          BY <1>2
      <3> QED
          BY <1>2, <3>1, <3>2
    <2> QED
        BY <2>1 DEF Between, Completed
  <1>12. \A w \in Between(starts, ends, n) : place[w] = Place(tables, w[1], w[2])
      BY <1>11
  <1>13. Covers(PagedPlan(tables, lengths), Between(starts, ends, n), place)
      BY <1>3, <1>10, <1>12, ServesCovers
  <1> QED
      BY <1>11, <1>13

LEMMA ReplayPlanCovers ==
  ASSUME NEW n \in Nat, NEW lengths, lengths \in [1 .. n -> Nat \ {0}],
         NEW tables, NEW place,
         \A w \in Completed(lengths, n) : place[w] = tables[w[1]][lengths[w[1]]] \div Ratio
  PROVE  Covers(ReplayPlan(tables, lengths), Completed(lengths, n), place)
  <1> DEFINE plan == ReplayPlan(tables, lengths)
  <1>1. \A r \in 1 .. n : lengths[r] \in Nat \ {0}
      OBVIOUS
  <1>2. DOMAIN plan = 1 .. n
      BY DEF ReplayPlan
  <1>3. ASSUME NEW r \in 1 .. n
        PROVE  /\ plan[r].row = r /\ plan[r].block = (lengths[r] - 1) \div Ratio
               /\ plan[r].loc = IF lengths[r] % Ratio = 0 THEN tables[r][lengths[r]] \div Ratio ELSE 0
      BY DEF ReplayPlan
  <1> HIDE DEF plan
  <1>4. ASSUME NEW r \in 1 .. n, lengths[r] % Ratio = 0
        PROVE  <<r, plan[r].block>> \in Completed(lengths, n) /\ plan[r].loc = place[<<r, plan[r].block>>]
    <2> DEFINE b == plan[r].block
    <2>1. b = lengths[r] \div Ratio - 1 /\ b \in Nat /\ (b + 1) * Ratio = lengths[r]
      <3> DEFINE l == lengths[r]
      <3>1. l \in Nat \ {0} /\ l % Ratio = 0 /\ b = (l - 1) \div Ratio
          BY <1>1, <1>3, <1>4
      <3> HIDE DEF l, b
      <3>2. b = l \div Ratio - 1 /\ b \in Nat
          BY <3>1, LastBlock
      <3>3. (b + 1) * Ratio = l
          BY <3>1, <3>2, LastBlock
      <3> QED
          BY <3>2, <3>3 DEF l
    <2> HIDE DEF b
    <2> DEFINE w == <<r, b>>
    <2>2. w \in Completed(lengths, n) /\ w[1] = r
        BY <2>1 DEF Completed
    <2> HIDE DEF w
    <2>3. place[w] = tables[r][lengths[r]] \div Ratio
        BY <2>2
    <2> QED
        BY <1>3, <1>4, <2>2, <2>3 DEF w, b
  <1>5. ASSUME NEW r \in 1 .. n, plan[r].loc # 0
        PROVE  lengths[r] % Ratio = 0 /\ plan[r] # Inert
      BY <1>3, <1>5 DEF Inert
  <1>6. ASSUME NEW w \in Completed(lengths, n)
        PROVE  w[1] \in 1 .. n /\ <<plan[w[1]].row, plan[w[1]].block>> = w /\ plan[w[1]].loc = place[w]
    <2>1. w[1] \in 1 .. n /\ w[2] \in Nat /\ w = <<w[1], w[2]>> /\ (w[2] + 1) * Ratio = lengths[w[1]]
        BY DEF Completed
    <2>2. lengths[w[1]] % Ratio = 0 /\ w[2] = lengths[w[1]] \div Ratio - 1
          /\ (lengths[w[1]] - 1) \div Ratio = lengths[w[1]] \div Ratio - 1
        BY <1>1, <2>1, LastBlock
    <2>3. plan[w[1]].row = w[1] /\ plan[w[1]].block = w[2]
        BY <1>3, <2>1, <2>2
    <2>4. plan[w[1]].loc = place[<<w[1], plan[w[1]].block>>]
        BY <1>4, <2>1, <2>2
    <2> QED
        BY <2>1, <2>3, <2>4
  <1>7. \A e \in DOMAIN plan : plan[e].loc # 0 =>
          /\ <<plan[e].row, plan[e].block>> \in Completed(lengths, n)
          /\ plan[e].loc = place[<<plan[e].row, plan[e].block>>]
          /\ plan[e] # Inert
    <2> SUFFICES ASSUME NEW e \in 1 .. n, plan[e].loc # 0
                 PROVE  /\ <<plan[e].row, plan[e].block>> \in Completed(lengths, n)
                        /\ plan[e].loc = place[<<plan[e].row, plan[e].block>>]
                        /\ plan[e] # Inert
        BY <1>2
    <2>1. lengths[e] % Ratio = 0 /\ plan[e] # Inert
        BY <1>5
    <2>2. plan[e].row = e
        BY <1>3
    <2> QED
        BY <1>4, <2>1, <2>2
  <1>8. \A w \in Completed(lengths, n) : \E e \in DOMAIN plan :
          <<plan[e].row, plan[e].block>> = w /\ plan[e].loc = place[w]
      BY <1>2, <1>6
  <1>9. \A e, f \in DOMAIN plan :
          <<plan[e].row, plan[e].block>> = <<plan[f].row, plan[f].block>>
            /\ plan[e].loc # 0 /\ plan[f].loc # 0 => e = f
    <2> SUFFICES ASSUME NEW e \in 1 .. n, NEW f \in 1 .. n,
                        <<plan[e].row, plan[e].block>> = <<plan[f].row, plan[f].block>>
                 PROVE  e = f
        BY <1>2
    <2>1. plan[e].row = plan[f].row
        OBVIOUS
    <2> QED
        BY <1>3, <2>1
  <1> QED
      BY <1>7, <1>8, <1>9 DEF Covers, plan

-----------------------------------------------------------------------------
(* Decode and verification.                                                *)

Types ==
  /\ served \in Nat
  /\ phase \in [Req -> {"free", "prefill", "decode"}]
  /\ id \in [Req -> Nat]
  /\ text \in [Req -> Seq(Nat)]
  /\ pages \in [Req -> Seq(1 .. Pages)]

\* n different requests.
IsBatch(batch, n, rs) ==
  /\ batch \in [1 .. n -> rs] /\ Len(batch) = n
  /\ \A i, j \in 1 .. n : batch[i] = batch[j] => i = j

LEMMA BatchIs ==
  ASSUME NEW rs, rs \subseteq Req, NEW batch, batch \in Batches(rs)
  PROVE  \E n \in Nat \ {0} : IsBatch(batch, n, rs)
  <1>1. PICK members \in (SUBSET rs) \ {{}} : batch \in Orders(members)
      BY DEF Batches
  <1> DEFINE n == Cardinality(members)
  <1>2. IsFiniteSet(members)
      BY <1>1, PageAssumption, FS_Subset
  <1>3. batch \in [1 .. n -> rs]
      BY <1>1 DEF Orders
  <1>4. n \in Nat \ {0}
    <2>1. n \in Nat
        BY <1>2, FS_CardinalityType
    <2>2. n # 0
        BY <1>1, <1>2, FS_EmptySet
    <2> QED
        BY <2>1, <2>2
  <1> HIDE DEF n
  <1>5. \A i, j \in DOMAIN batch : batch[i] = batch[j] => i = j
    <2>1. DOMAIN batch \subseteq Nat
        BY <1>3, <1>4
    <2>2. \A i, j \in DOMAIN batch : i < j => batch[i] # batch[j]
        BY <1>1 DEF Orders
    <2> QED
        BY <2>1, <2>2
  <1>6. DOMAIN batch = 1 .. n
      BY <1>3
  <1>7. Len(batch) = n
    <2>1. batch \in Seq(rs)
        BY <1>3, <1>4, SeqDef
    <2> QED
        BY <1>4, <1>6, <2>1, LenProperties
  <1> QED
      BY <1>3, <1>4, <1>5, <1>6, <1>7 DEF IsBatch

\* k tokens of request x.
Tokens(k, x) == [j \in 1 .. k |-> x]

\* A text and k more tokens of request x.
IsLonger(u, t, k, x) ==
  /\ u \in Seq(Nat) /\ Len(u) = Len(t) + k /\ HasPrefix(u, t)
  /\ \A p \in Len(t) + 1 .. Len(t) + k : u[p] = x

LEMMA Lengthened ==
  ASSUME NEW t, t \in Seq(Nat), NEW k \in Nat, NEW x \in Nat
  PROVE  IsLonger(t \o Tokens(k, x), t, k, x)
  <1> DEFINE v == [j \in 1 .. k |-> x]
             u == t \o Tokens(k, x)
  <1>1. v \in [1 .. k -> Nat] /\ DOMAIN v = 1 .. k /\ \A j \in 1 .. k : v[j] = x
      OBVIOUS
  <1> HIDE DEF v
  <1>2. v \in Seq(Nat) /\ Len(v) = k
    <2>1. v \in Seq(Nat)
        BY <1>1, SeqDef
    <2> QED
        BY <1>1, <2>1, LenProperties
  <1>3. /\ t \o v \in Seq(Nat) /\ Len(t \o v) = Len(t) + Len(v)
        /\ \A i \in 1 .. Len(t) + Len(v) : (t \o v)[i] =
             IF i <= Len(t) THEN t[i] ELSE v[i - Len(t)]
      BY <1>2, ConcatProperties
  <1>4. u = t \o v
      BY DEF v, Tokens
  <1> HIDE DEF u
  <1>5. Len(t) \in Nat
      OBVIOUS
  <1> DEFINE l == Len(t)
  <1>6. /\ l \in Nat /\ u \in Seq(Nat) /\ Len(u) = l + k
        /\ \A i \in 1 .. l + k : u[i] = IF i <= l THEN t[i] ELSE v[i - l]
      BY <1>2, <1>3, <1>4, <1>5
  <1> HIDE DEF l
  <1>7. \A i \in 1 .. l : u[i] = t[i]
      BY <1>6
  <1>8. \A p \in l + 1 .. l + k : u[p] = x
    <2> SUFFICES ASSUME NEW p \in l + 1 .. l + k PROVE u[p] = x
        OBVIOUS
    <2>1. p \in 1 .. l + k /\ ~ (p <= l) /\ p - l \in 1 .. k
        BY <1>6
    <2> QED
        BY <1>1, <1>6, <2>1
  <1>9. l <= Len(u)
      BY <1>6
  <1> QED
      BY <1>6, <1>7, <1>8, <1>9 DEF l, u, HasPrefix, IsLonger

AllRows(batch, width, kept, padding) ==
  PagedRows(batch, width, kept) \o [k \in 1 .. padding |-> PaddingRow(batch)]

Tables(rows) == [k \in DOMAIN rows |-> Table(pages[rows[k].req])]

Lengths(rows) == [k \in DOMAIN rows |-> rows[k].pos + 1]

PlanOf(rows, graph) ==
  IF graph THEN ReplayPlan(Tables(rows), Lengths(rows)) ELSE PagedPlan(Tables(rows), Lengths(rows))

StoredRows(real, k) == IF StoreFirst \/ k > Len(real) THEN Len(real) ELSE k

MembersOf(real, rows, entry) ==
  [j \in Offsets |->
     StoredCell(real, StoredRows(real, entry.row), rows[entry.row].req,
                (entry.block * Ratio + j) % Stride)]

NewText(batch, kept) ==
  [r \in Req |-> IF \E i \in DOMAIN batch : batch[i] = r
                THEN text[r] \o Tokens(kept[CHOOSE i \in DOMAIN batch : batch[i] = r], id[r])
                ELSE text[r]]

NewRing(real) == [r \in Req |-> [x \in 0 .. Stride - 1 |-> StoredCell(real, Len(real), r, x)]]

\* What a decode or verification does, in these words.
LEMMA PagedForwardIs ==
  ASSUME NEW batch, NEW width, NEW kept, NEW padding, NEW graph,
         PagedForward(batch, width, kept, padding, graph)
  PROVE  LET real == PagedRows(batch, width, kept)
             rows == AllRows(batch, width, kept, padding)
             plan == PlanOf(rows, graph)
         IN  /\ \A i \in DOMAIN batch : Len(text[batch[i]]) + width <= Len(pages[batch[i]]) * Page
             /\ comp' = Written(plan, [e \in DOMAIN plan |-> MembersOf(real, rows, plan[e])])
             /\ ring' = NewRing(real)
             /\ text' = NewText(batch, kept)
             /\ served' = served /\ phase' = phase /\ id' = id /\ pages' = pages /\ tree' = tree
  BY DEF PagedForward, NewText, NewRing, Tokens, AllRows, Tables, Lengths, PlanOf, StoredRows, MembersOf

\* The rows, padding included.
IsAllRows(rows, batch, n, width, kept, padding) ==
  /\ Len(rows) = n * width + padding
  /\ DOMAIN rows = 1 .. n * width + padding
  /\ \A i \in 1 .. n : \A d \in 1 .. width :
       /\ (i - 1) * width + d \in 1 .. n * width
       /\ rows[(i - 1) * width + d] = Row(batch, kept, i, d)
  /\ \A k \in 1 .. n * width + padding :
       \/ k \in 1 .. n * width /\ \E i \in 1 .. n : \E d \in 1 .. width : k = (i - 1) * width + d
       \/ rows[k] = PaddingRow(batch)

LEMMA AllRowsAre ==
  ASSUME NEW n \in Nat, NEW batch, DOMAIN batch = 1 .. n, Len(batch) = n,
         NEW width \in Nat, NEW kept, NEW padding \in Nat
  PROVE  IsAllRows(AllRows(batch, width, kept, padding), batch, n, width, kept, padding)
  <1> DEFINE real == PagedRows(batch, width, kept)
             pad == [k \in 1 .. padding |-> PaddingRow(batch)]
             l == n * width
             rows == AllRows(batch, width, kept, padding)
  <1>1. IsRows(real, batch, n, width, kept)
      BY PagedRowsAre
  <1>2. l \in Nat
      OBVIOUS
  <1>3. rows = real \o pad
      BY DEF AllRows
  <1>4. /\ \A k \in 1 .. padding : pad[k] = PaddingRow(batch)
        /\ pad \in [1 .. padding -> {PaddingRow(batch)}] /\ DOMAIN pad = 1 .. padding
      OBVIOUS
  <1>5. Len(real) = l /\ \E S : real \in Seq(S)
      BY <1>1 DEF IsRows
  <1> HIDE DEF real, pad, rows
  <1>6. PICK S : real \in Seq(S)
      BY <1>5
  <1> DEFINE P == {PaddingRow(batch)}
             U == S \cup P
  <1>7. pad \in Seq(P) /\ Len(pad) = padding
    <2> HIDE DEF P
    <2>1. pad \in [1 .. padding -> P]
        BY <1>4 DEF P
    <2>2. pad \in Seq(P)
        BY <2>1, SeqDef
    <2> QED
        BY <1>4, <2>2, LenProperties
  <1>8. real \in Seq(U) /\ pad \in Seq(U)
    <2>1. S \subseteq U /\ P \subseteq U
        OBVIOUS
    <2> HIDE DEF P, U
    <2> QED
        BY <1>6, <1>7, <2>1, SeqMonotonic
  <1> HIDE DEF P, U
  <1>9. /\ rows \in Seq(U) /\ Len(rows) = l + padding
        /\ \A k \in 1 .. l + padding : rows[k] = IF k <= l THEN real[k] ELSE pad[k - l]
    <2>1. /\ real \o pad \in Seq(U) /\ Len(real \o pad) = Len(real) + Len(pad)
          /\ \A k \in 1 .. Len(real) + Len(pad) : (real \o pad)[k] =
               IF k <= Len(real) THEN real[k] ELSE pad[k - Len(real)]
        BY <1>8, ConcatProperties
    <2> QED
        BY <1>3, <1>5, <1>7, <2>1
  <1>10. DOMAIN rows = 1 .. l + padding
      BY <1>9, LenProperties
  <1>11. ASSUME NEW i \in 1 .. n, NEW d \in 1 .. width
         PROVE  /\ (i - 1) * width + d \in 1 .. l
                /\ rows[(i - 1) * width + d] = Row(batch, kept, i, d)
    <2> DEFINE k == (i - 1) * width + d
    <2>1. k \in 1 .. l /\ real[k] = Row(batch, kept, i, d)
        BY <1>1 DEF IsRows
    <2> HIDE DEF k, l
    <2>2. k \in 1 .. l + padding /\ k <= l
        BY <1>2, <2>1
    <2> QED
        BY <1>9, <2>1, <2>2 DEF k
  <1>12. ASSUME NEW k \in 1 .. l + padding
         PROVE  \/ k \in 1 .. l /\ \E i \in 1 .. n : \E d \in 1 .. width : k = (i - 1) * width + d
                \/ rows[k] = PaddingRow(batch)
    <2>1. CASE k <= l
      <3>1. k \in 1 .. l
        <4> HIDE DEF l
        <4> QED
            BY <1>2, <2>1
      <3> QED
          BY <1>1, <3>1 DEF IsRows
    <2>2. CASE ~ (k <= l)
      <3> HIDE DEF l
      <3>1. k - l \in 1 .. padding
          BY <1>2, <2>2
      <3> QED
          BY <1>4, <1>9, <2>2, <3>1
    <2> QED
        BY <2>1, <2>2
  <1> QED
      BY <1>9, <1>10, <1>11, <1>12 DEF IsAllRows, rows

\* Request r has k new tokens.
Grown(r, k) == IsLonger(text'[r], text[r], k, id[r])

LEMMA NewTextIs ==
  ASSUME Types, NEW n \in Nat, NEW batch, IsBatch(batch, n, Req),
         NEW kept, \A i \in 1 .. n : kept[i] \in Nat, text' = NewText(batch, kept)
  PROVE  /\ \A i \in 1 .. n : Grown(batch[i], kept[i])
         /\ \A r \in Req : (\A i \in 1 .. n : batch[i] # r) => text'[r] = text[r]
         /\ text' \in [Req -> Seq(Nat)]
  <1>1. DOMAIN batch = 1 .. n /\ \A i \in 1 .. n : batch[i] \in Req
      BY DEF IsBatch
  <1> DEFINE RowOf(r) == CHOOSE i \in DOMAIN batch : batch[i] = r
  <1>2. ASSUME NEW r \in Req
        PROVE  text'[r] = IF \E i \in DOMAIN batch : batch[i] = r
                          THEN text[r] \o Tokens(kept[RowOf(r)], id[r]) ELSE text[r]
      BY DEF NewText
  <1>3. text' = [r \in Req |-> text'[r]]
      BY DEF NewText
  <1>4. ASSUME NEW i \in 1 .. n PROVE Grown(batch[i], kept[i])
    <2> DEFINE r == batch[i]
    <2>1. r \in Req /\ \E j \in DOMAIN batch : batch[j] = r
        BY <1>1
    <2>2. RowOf(r) = i
        BY <1>1 DEF IsBatch
    <2> HIDE DEF RowOf, r
    <2>3. text'[r] = text[r] \o Tokens(kept[i], id[r])
        BY <1>2, <2>1, <2>2
    <2>4. text[r] \in Seq(Nat) /\ kept[i] \in Nat /\ id[r] \in Nat
        BY <2>1 DEF Types
    <2>5. IsLonger(text[r] \o Tokens(kept[i], id[r]), text[r], kept[i], id[r])
        BY ONLY <2>4, Lengthened
    <2> QED
        BY <2>3, <2>5 DEF Grown, r
  <1> HIDE DEF RowOf
  <1>5. ASSUME NEW r \in Req, \A i \in 1 .. n : batch[i] # r PROVE text'[r] = text[r]
      BY <1>1, <1>2, <1>5
  <1>6. \A r \in Req : text'[r] \in Seq(Nat)
    <2> SUFFICES ASSUME NEW r \in Req PROVE text'[r] \in Seq(Nat)
        OBVIOUS
    <2>1. CASE \E i \in 1 .. n : batch[i] = r
        BY <1>4, <2>1 DEF Grown, IsLonger
    <2>2. CASE \A i \in 1 .. n : batch[i] # r
        BY <1>5, <2>2 DEF Types
    <2> QED
        BY <2>1, <2>2
  <1> QED
      BY <1>3, <1>4, <1>5, <1>6

LEMMA PagedText ==
  ASSUME Types, NEW n \in Nat, NEW batch, IsBatch(batch, n, Req), NEW width \in Nat,
         NEW kept, \A i \in 1 .. n : kept[i] \in 1 .. width,
         NEW padding \in Nat, NEW graph, PagedForward(batch, width, kept, padding, graph)
  PROVE  /\ \A i \in 1 .. n : /\ Grown(batch[i], kept[i])
                              /\ Len(text[batch[i]]) + width <= Len(pages[batch[i]]) * Page
         /\ \A r \in Req : (\A i \in 1 .. n : batch[i] # r) => text'[r] = text[r]
         /\ text' \in [Req -> Seq(Nat)]
  <1>1. DOMAIN batch = 1 .. n /\ \A i \in 1 .. n : batch[i] \in Req
      BY DEF IsBatch
  <1>2. \A i \in 1 .. n : Len(text[batch[i]]) + width <= Len(pages[batch[i]]) * Page
      BY <1>1, PagedForwardIs
  <1>3. text' = NewText(batch, kept)
      BY PagedForwardIs
  <1>4. ASSUME NEW i \in 1 .. n PROVE Grown(batch[i], kept[i])
      BY <1>3, NewTextIs
  <1>5. ASSUME NEW r \in Req, \A i \in 1 .. n : batch[i] # r PROVE text'[r] = text[r]
      BY <1>3, <1>5, NewTextIs
  <1>6. text' \in [Req -> Seq(Nat)]
      BY <1>3, NewTextIs
  <1> QED
      BY <1>2, <1>4, <1>5, <1>6

HasRoom(batch, n, width) ==
  \A i \in 1 .. n : Len(text[batch[i]]) + width <= Len(pages[batch[i]]) * Page

\* The blocks a decode or verification writes: each is the block that a row of
\* some request ends, beyond the request's text.
EndsBlock(rows, batch, n, width, kept, w) ==
  \E i \in 1 .. n : \E d \in 1 .. width :
    /\ w[1] = (i - 1) * width + d /\ w[1] \in 1 .. n * width /\ w[2] \in Nat
    /\ rows[w[1]] = Row(batch, kept, i, d) /\ rows[w[1]].req = batch[i]
    /\ batch[i] \in Req /\ Len(text[batch[i]]) \in Nat
    /\ Lengths(rows)[w[1]] = Len(text[batch[i]]) + d
    /\ (w[2] + 1) * Ratio = Len(text[batch[i]]) + d
    /\ w[2] < Len(pages[batch[i]]) * PerPage

LEMMA PagedWork ==
  ASSUME Types, NEW n \in Nat \ {0}, NEW batch, IsBatch(batch, n, Req), NEW width \in Nat,
         HasRoom(batch, n, width),
         NEW kept, NEW padding \in Nat, NEW rows,
         IsAllRows(rows, batch, n, width, kept, padding),
         NEW w \in Completed(Lengths(rows), n * width + padding)
  PROVE  EndsBlock(rows, batch, n, width, kept, w)
  <1>1. /\ DOMAIN rows = 1 .. n * width + padding
        /\ w[1] \in 1 .. n * width + padding /\ w[2] \in Nat
        /\ (w[2] + 1) * Ratio = Lengths(rows)[w[1]]
      BY DEF Completed, IsAllRows
  <1>2. Lengths(rows)[w[1]] = rows[w[1]].pos + 1
      BY <1>1 DEF Lengths
  <1>3. rows[w[1]] # PaddingRow(batch)
    <2> SUFFICES ASSUME rows[w[1]] = PaddingRow(batch) PROVE FALSE
        OBVIOUS
    <2>1. (w[2] + 1) * Ratio = 1
        BY <1>1, <1>2 DEF PaddingRow
    <2>2. (w[2] + 1) * Ratio = w[2] * Ratio + Ratio /\ w[2] * Ratio \in Nat /\ Ratio \in Nat \ {0, 1}
        BY <1>1, RatioAssumption
    <2> QED
        BY <2>1, <2>2
  <1>4. w[1] \in 1 .. n * width /\ \E i \in 1 .. n : \E d \in 1 .. width : w[1] = (i - 1) * width + d
      BY <1>1, <1>3 DEF IsAllRows
  <1>5. PICK i \in 1 .. n : \E d \in 1 .. width : w[1] = (i - 1) * width + d
      BY <1>4
  <1>6. PICK d \in 1 .. width : w[1] = (i - 1) * width + d
      BY <1>5
  <1>7. rows[w[1]] = Row(batch, kept, i, d)
      BY <1>6 DEF IsAllRows
  <1> DEFINE r == batch[i]
  <1>8. r \in Req
      BY DEF IsBatch
  <1>9. text[r] \in Seq(Nat) /\ pages[r] \in Seq(1 .. Pages)
      BY <1>8 DEF Types
  <1>10. Len(text[r]) \in Nat /\ Len(pages[r]) \in Nat
      BY <1>9
  <1>11. Lengths(rows)[w[1]] = Len(text[r]) + d
    <2>1. rows[w[1]].pos = Len(text[r]) + d - 1
        BY <1>7 DEF Row
    <2> HIDE DEF r
    <2> QED
        BY <1>2, <1>10, <2>1
  <1>12. w[2] < Len(pages[r]) * PerPage
    <2>1. Len(text[r]) + d <= Len(pages[r]) * Page
      <3>1. Len(text[r]) + width <= Len(pages[r]) * Page
          BY DEF HasRoom
      <3>2. Len(pages[r]) * Page \in Nat
        <4>1. Page \in Nat
            BY PageAssumption
        <4> HIDE DEF r
        <4> QED
            BY <1>10, <4>1
      <3> DEFINE x == Len(text[r])  y == Len(pages[r]) * Page
      <3>3. x \in Nat /\ y \in Nat /\ x + width <= y
          BY <1>10, <3>1, <3>2
      <3> HIDE DEF x, y
      <3>4. x + d <= y
          BY <3>3
      <3> QED
          BY <3>4 DEF x, y
    <2>2. (w[2] + 1) * Ratio <= Len(pages[r]) * Page
        BY <1>1, <1>11, <2>1
    <2> HIDE DEF r
    <2> QED
        BY <1>1, <1>10, <2>2, BlockEnds
  <1>13. rows[w[1]].req = r
      BY <1>7 DEF Row
  <1> HIDE DEF r
  <1>14. (w[2] + 1) * Ratio = Len(text[r]) + d
      BY <1>1, <1>11
  <1> QED
      BY <1>1, <1>4, <1>6, <1>7, <1>8, <1>10, <1>11, <1>12, <1>13, <1>14 DEF r, EndsBlock

PagedPlace(rows, work) == [w \in work |-> SlotAt(pages[rows[w[1]].req], w[2])]

LEMMA PagedCovers ==
  ASSUME Types, NEW n \in Nat \ {0}, NEW batch, IsBatch(batch, n, Req), NEW width \in Nat,
         HasRoom(batch, n, width),
         NEW kept, NEW padding \in Nat, NEW rows,
         IsAllRows(rows, batch, n, width, kept, padding), NEW graph \in BOOLEAN,
         NEW work, work = Completed(Lengths(rows), n * width + padding)
  PROVE  Covers(PlanOf(rows, graph), work, PagedPlace(rows, work))
  <1> DEFINE m == n * width + padding
             lengths == Lengths(rows)
             tables == Tables(rows)
             place == PagedPlace(rows, work)
  <1>1. m \in Nat /\ DOMAIN rows = 1 .. m
    <2>1. n * width \in Nat
        OBVIOUS
    <2> QED
        BY <2>1 DEF IsAllRows
  <1>2. lengths = [k \in 1 .. m |-> rows[k].pos + 1] /\ tables = [k \in 1 .. m |-> Table(pages[rows[k].req])]
      BY <1>1 DEF Lengths, Tables
  <1>3. ASSUME NEW k \in 1 .. m PROVE rows[k].pos \in Nat
    <2>1. CASE rows[k] = PaddingRow(batch)
        BY <2>1 DEF PaddingRow
    <2>2. CASE rows[k] # PaddingRow(batch)
      <3>1. PICK i \in 1 .. n : \E d \in 1 .. width : k = (i - 1) * width + d
          BY <2>2 DEF IsAllRows
      <3>2. PICK d \in 1 .. width : k = (i - 1) * width + d
          BY <3>1
      <3>3. rows[k] = Row(batch, kept, i, d)
          BY <3>2 DEF IsAllRows
      <3>4. rows[k].pos = Len(text[batch[i]]) + d - 1
          BY <3>3 DEF Row
      <3>5. Len(text[batch[i]]) \in Nat
        <4>1. text[batch[i]] \in Seq(Nat)
            BY DEF IsBatch, Types
        <4> QED
            BY <4>1
      <3> QED
          BY <3>4, <3>5
    <2> QED
        BY <2>1, <2>2
  <1>4. lengths \in [1 .. m -> Nat \ {0}] /\ Len(lengths) = m
    <2>1. \A k \in 1 .. m : rows[k].pos + 1 \in Nat \ {0}
        BY <1>3
    <2> HIDE DEF m, lengths
    <2>2. lengths \in [1 .. m -> Nat \ {0}] /\ DOMAIN lengths = 1 .. m
        BY <1>2, <2>1
    <2>3. lengths \in Seq(Nat \ {0})
        BY <1>1, <2>2, SeqDef
    <2>4. Len(lengths) = m
        BY <1>1, <2>2, <2>3, LenProperties
    <2> QED
        BY <2>2, <2>4
  <1>5. ASSUME NEW w \in work
        PROVE  /\ place[w] = Place(tables, w[1], w[2])
               /\ place[w] = tables[w[1]][lengths[w[1]]] \div Ratio
    <2>0. w \in Completed(Lengths(rows), n * width + padding)
        OBVIOUS
    <2>a. EndsBlock(rows, batch, n, width, kept, w)
        BY <2>0, PagedWork
    <2>1. PICK i \in 1 .. n : \E d \in 1 .. width :
            /\ w[2] \in Nat /\ rows[w[1]].req = batch[i] /\ batch[i] \in Req
            /\ lengths[w[1]] = Len(text[batch[i]]) + d
            /\ (w[2] + 1) * Ratio = Len(text[batch[i]]) + d
            /\ w[2] < Len(pages[batch[i]]) * PerPage
        BY <2>a DEF EndsBlock
    <2> DEFINE b == w[2]  pg == pages[batch[i]]
    <2>2. b \in Nat /\ b < Len(pg) * PerPage /\ lengths[w[1]] = (b + 1) * Ratio /\ pg \in Seq(1 .. Pages)
        BY <2>1 DEF Types
    <2>3. w[1] \in 1 .. m
        BY DEF Completed
    <2>4. tables[w[1]] = Table(pg)
        BY <1>2, <2>1, <2>3
    <2>5. place[w] = SlotAt(pg, b)
        BY <2>1 DEF PagedPlace
    <2> HIDE DEF b, pg, place, tables, lengths
    <2>6. 0 \in Offsets /\ Ratio - 1 \in Offsets
        BY RatioAssumption DEF Offsets
    <2>7. b * Ratio + 0 + 1 = b * Ratio + 1 /\ b * Ratio + (Ratio - 1) + 1 = (b + 1) * Ratio
      <3>1. Ratio \in Nat /\ b * Ratio \in Nat /\ (b + 1) * Ratio = b * Ratio + Ratio
          BY <2>2, RatioAssumption
      <3> QED
          BY <3>1
    <2>8. Table(pg)[b * Ratio + 0 + 1] \div Ratio = SlotAt(pg, b)
        BY <2>2, <2>6, TableSlot
    <2>9. Table(pg)[b * Ratio + (Ratio - 1) + 1] \div Ratio = SlotAt(pg, b)
        BY <2>2, <2>6, TableSlot
    <2>10. Place(tables, w[1], b) = SlotAt(pg, b)
        BY <2>4, <2>7, <2>8 DEF Place
    <2>11. tables[w[1]][lengths[w[1]]] \div Ratio = SlotAt(pg, b)
        BY <2>2, <2>4, <2>7, <2>9
    <2> QED
        BY <2>5, <2>10, <2>11 DEF b
  <1> HIDE DEF m, lengths, tables, place
  <1>6. work = Completed(lengths, m)
      BY DEF m, lengths
  <1>7. CASE graph
    <2>1. Covers(ReplayPlan(tables, lengths), Completed(lengths, m), place)
      <3>1. \A w \in Completed(lengths, m) : place[w] = tables[w[1]][lengths[w[1]]] \div Ratio
          BY <1>5, <1>6
      <3> QED
          BY <1>1, <1>4, <3>1, ReplayPlanCovers
    <2> QED
        BY <1>6, <1>7, <2>1 DEF PlanOf, tables, lengths, place
  <1>8. CASE ~ graph
    <2>1. Covers(PagedPlan(tables, lengths), Completed(lengths, m), place)
      <3>1. \A w \in Completed(lengths, m) : place[w] = Place(tables, w[1], w[2])
          BY <1>5, <1>6
      <3> QED
          BY <1>1, <1>4, <3>1, PagedPlanCovers
    <2> QED
        BY <1>6, <1>8, <2>1 DEF PlanOf, tables, lengths, place
  <1> QED
      BY <1>7, <1>8

\* Two blocks it writes have two slots.
OwnPlaces(rows, work, place) ==
  /\ \A v, w \in work : place[v] = place[w] => v = w
  /\ \A w \in work : /\ <<rows[w[1]].req, w[2]>> \in Unfinished(text, pages)
                     /\ place[w] = SlotAt(pages[rows[w[1]].req], w[2])
                     /\ place[w] \in Slots /\ place[w] # 0

LEMMA PagedApart ==
  ASSUME Types, Shape(text, pages, tree), Apart(text, pages, tree),
         NEW n \in Nat \ {0}, NEW batch, IsBatch(batch, n, Req), NEW width \in Nat,
         HasRoom(batch, n, width),
         NEW kept, NEW padding \in Nat, NEW rows,
         IsAllRows(rows, batch, n, width, kept, padding),
         NEW work, work = Completed(Lengths(rows), n * width + padding),
         NEW place, place = PagedPlace(rows, work)
  PROVE  OwnPlaces(rows, work, place)
  <1>1. ASSUME NEW w \in work
        PROVE  \E i \in 1 .. n : \E d \in 1 .. width :
                 /\ w = <<(i - 1) * width + d, w[2]>> /\ w[2] \in Nat
                 /\ rows[w[1]].req = batch[i] /\ batch[i] \in Req
                 /\ Len(text[batch[i]]) \in Nat
                 /\ (w[2] + 1) * Ratio = Len(text[batch[i]]) + d
                 /\ w[2] < Len(pages[batch[i]]) * PerPage
                 /\ (w[2] + 1) * Ratio > Len(text[batch[i]])
                 /\ place[w] = SlotAt(pages[batch[i]], w[2])
    <2>0. w \in Completed(Lengths(rows), n * width + padding)
        OBVIOUS
    <2>a. EndsBlock(rows, batch, n, width, kept, w)
        BY <2>0, PagedWork
    <2>1. PICK i \in 1 .. n : \E d \in 1 .. width :
           /\ w[1] = (i - 1) * width + d /\ w[1] \in 1 .. n * width /\ w[2] \in Nat
           /\ rows[w[1]] = Row(batch, kept, i, d) /\ rows[w[1]].req = batch[i]
           /\ batch[i] \in Req /\ Len(text[batch[i]]) \in Nat
           /\ Lengths(rows)[w[1]] = Len(text[batch[i]]) + d
           /\ (w[2] + 1) * Ratio = Len(text[batch[i]]) + d
           /\ w[2] < Len(pages[batch[i]]) * PerPage
        BY <2>a DEF EndsBlock
    <2>2. PICK d \in 1 .. width :
           /\ w[1] = (i - 1) * width + d /\ w[2] \in Nat
           /\ rows[w[1]].req = batch[i]
           /\ batch[i] \in Req /\ Len(text[batch[i]]) \in Nat
           /\ (w[2] + 1) * Ratio = Len(text[batch[i]]) + d
           /\ w[2] < Len(pages[batch[i]]) * PerPage
        BY <2>1
    <2>3. w = <<w[1], w[2]>>
        BY DEF Completed
    <2>4. (w[2] + 1) * Ratio > Len(text[batch[i]])
        BY <2>2
    <2>5. place[w] = SlotAt(pages[batch[i]], w[2])
        BY <2>2 DEF PagedPlace
    <2> QED
        BY <2>2, <2>3, <2>4, <2>5
  <1>2. \A w \in work : /\ <<rows[w[1]].req, w[2]>> \in Unfinished(text, pages)
                        /\ place[w] = SlotAt(pages[rows[w[1]].req], w[2])
                        /\ place[w] \in Slots /\ place[w] # 0
    <2> SUFFICES ASSUME NEW w \in work
                 PROVE  /\ <<rows[w[1]].req, w[2]>> \in Unfinished(text, pages)
                        /\ place[w] = SlotAt(pages[rows[w[1]].req], w[2])
                        /\ place[w] \in Slots /\ place[w] # 0
        OBVIOUS
    <2>1. PICK r \in Req : /\ rows[w[1]].req = r /\ w[2] \in Nat
                           /\ w[2] < Len(pages[r]) * PerPage
                           /\ (w[2] + 1) * Ratio > Len(text[r])
                           /\ place[w] = SlotAt(pages[r], w[2])
        BY <1>1
    <2> DEFINE u == <<r, w[2]>>
    <2>2. u \in Req \X Nat /\ u[1] = r /\ u[2] = w[2]
        BY <2>1
    <2> HIDE DEF u
    <2>3. u \in Unfinished(text, pages)
        BY <2>1, <2>2 DEF Unfinished
    <2>4. pages[r] \in Seq(1 .. Pages)
        BY DEF Types
    <2>5. SlotAt(pages[r], w[2]) \in Slots /\ SlotAt(pages[r], w[2]) # 0
        BY <2>1, <2>4, SlotOfBlock
    <2> QED
        BY <2>1, <2>3, <2>5 DEF u
  <1>3. \A v, w \in work : place[v] = place[w] => v = w
    <2> SUFFICES ASSUME NEW v \in work, NEW w \in work, place[v] = place[w] PROVE v = w
        OBVIOUS
    <2>1. PICK i \in 1 .. n : \E d \in 1 .. width :
                 /\ w = <<(i - 1) * width + d, w[2]>> /\ w[2] \in Nat
                 /\ rows[w[1]].req = batch[i] /\ batch[i] \in Req
                 /\ Len(text[batch[i]]) \in Nat
                 /\ (w[2] + 1) * Ratio = Len(text[batch[i]]) + d
                 /\ w[2] < Len(pages[batch[i]]) * PerPage
                 /\ (w[2] + 1) * Ratio > Len(text[batch[i]])
                 /\ place[w] = SlotAt(pages[batch[i]], w[2])
        BY <1>1
    <2>2. PICK d \in 1 .. width :
                 /\ w = <<(i - 1) * width + d, w[2]>> /\ w[2] \in Nat
                 /\ batch[i] \in Req
                 /\ Len(text[batch[i]]) \in Nat
                 /\ (w[2] + 1) * Ratio = Len(text[batch[i]]) + d
                 /\ w[2] < Len(pages[batch[i]]) * PerPage
                 /\ (w[2] + 1) * Ratio > Len(text[batch[i]])
                 /\ place[w] = SlotAt(pages[batch[i]], w[2])
        BY <2>1
    <2>3. PICK j \in 1 .. n : \E e \in 1 .. width :
                 /\ v = <<(j - 1) * width + e, v[2]>> /\ v[2] \in Nat
                 /\ rows[v[1]].req = batch[j] /\ batch[j] \in Req
                 /\ Len(text[batch[j]]) \in Nat
                 /\ (v[2] + 1) * Ratio = Len(text[batch[j]]) + e
                 /\ v[2] < Len(pages[batch[j]]) * PerPage
                 /\ (v[2] + 1) * Ratio > Len(text[batch[j]])
                 /\ place[v] = SlotAt(pages[batch[j]], v[2])
        BY <1>1
    <2>4. PICK e \in 1 .. width :
                 /\ v = <<(j - 1) * width + e, v[2]>> /\ v[2] \in Nat
                 /\ batch[j] \in Req
                 /\ (v[2] + 1) * Ratio = Len(text[batch[j]]) + e
                 /\ v[2] < Len(pages[batch[j]]) * PerPage
                 /\ place[v] = SlotAt(pages[batch[j]], v[2])
        BY <2>3
    <2>5. batch[j] = batch[i] /\ v[2] = w[2]
      <3> DEFINE q == batch[i]  c == w[2]  r == batch[j]  b == v[2]
      <3>1. q \in Req /\ c \in Nat /\ c < Len(pages[q]) * PerPage /\ (c + 1) * Ratio > Len(text[q])
          BY <2>2
      <3>2. r \in Req /\ b \in Nat /\ b < Len(pages[r]) * PerPage
          BY <2>4
      <3>3. SlotAt(pages[r], b) = SlotAt(pages[q], c)
          BY <2>2, <2>4
      <3> HIDE DEF q, c, r, b
      <3>4. r = q /\ b = c
          BY <3>1, <3>2, <3>3, UnfinishedIsAlone
      <3> QED
          BY <3>4 DEF q, c, r, b
    <2>6. j = i
        BY <2>5 DEF IsBatch
    <2>7. e = d
      <3> DEFINE l == Len(text[batch[i]])
      <3>1. l + e = l + d /\ l \in Nat
          BY <2>2, <2>4, <2>5
      <3> HIDE DEF l
      <3> QED
          BY <3>1
    <2> QED
        BY <2>2, <2>4, <2>5, <2>6, <2>7
  <1> QED
      BY <1>2, <1>3 DEF OwnPlaces

LEMMA PagedWrites ==
  ASSUME Types, Shape(text, pages, tree), Apart(text, pages, tree),
         NEW n \in Nat \ {0}, NEW batch, IsBatch(batch, n, Req), NEW width \in Nat,
         NEW kept, \A i \in 1 .. n : kept[i] \in 1 .. width,
         NEW padding \in Nat, NEW graph \in BOOLEAN,
         PagedForward(batch, width, kept, padding, graph)
  PROVE  WritesUnfinished(text, pages, comp, comp')
  <1> DEFINE real == PagedRows(batch, width, kept)
             rows == AllRows(batch, width, kept, padding)
             plan == PlanOf(rows, graph)
             work == Completed(Lengths(rows), n * width + padding)
             place == PagedPlace(rows, work)
             blocks == [e \in DOMAIN plan |-> MembersOf(real, rows, plan[e])]
  <1>1. comp' = Written(plan, blocks)
      BY PagedForwardIs
  <1>2. HasRoom(batch, n, width)
      BY PagedText DEF HasRoom
  <1>3. DOMAIN batch = 1 .. n /\ Len(batch) = n
      BY DEF IsBatch
  <1>4. IsAllRows(rows, batch, n, width, kept, padding)
      BY <1>3, AllRowsAre
  <1> HIDE DEF rows, plan, blocks, real
  <1>5. Covers(plan, work, place)
    <2> HIDE DEF work
    <2> QED
        BY <1>2, <1>4, PagedCovers DEF plan, work
  <1> DEFINE Req1(w) == rows[w[1]].req
             mine == {<<rows[w[1]].req, w[2]>> : w \in work}
  <1>6. \A w \in work : /\ <<rows[w[1]].req, w[2]>> \in Unfinished(text, pages)
                        /\ place[w] = SlotAt(pages[rows[w[1]].req], w[2])
    <2>1. OwnPlaces(rows, work, place)
        BY <1>2, <1>4, PagedApart
    <2> HIDE DEF work, place
    <2> QED
        BY <2>1 DEF OwnPlaces
  <1> HIDE DEF work, place
  <1>7. mine \in SUBSET Unfinished(text, pages)
      BY <1>6
  <1>8. ASSUME NEW s \in Slots, \A u \in mine : SlotAt(pages[u[1]], u[2]) # s
        PROVE  comp'[s] = comp[s]
    <2>1. \A w \in work : place[w] # s
      <3> SUFFICES ASSUME NEW w \in work PROVE place[w] # s
          OBVIOUS
      <3> DEFINE u == <<rows[w[1]].req, w[2]>>
      <3>1. u \in mine /\ u[1] = rows[w[1]].req /\ u[2] = w[2]
          OBVIOUS
      <3> HIDE DEF u, mine
      <3> QED
          BY <1>6, <1>8, <3>1
    <2>2. Written(plan, blocks)[s] = comp[s]
        BY <1>5, <2>1, WrittenElsewhere
    <2> QED
        BY <1>1, <2>2
  <1> HIDE DEF mine
  <1> QED
      BY <1>7, <1>8 DEF WritesUnfinished

\* The tokens of request r's unfinished block are in its ring.
Pending(r) ==
  \A p \in (Len(text[r]) \div Ratio) * Ratio .. Len(text[r]) - 1 :
    ring[r][p % Stride] = <<p, text[r][p + 1]>>

LEMMA DivisionRises ==
  ASSUME NEW x \in Nat, NEW y \in Nat, x <= y
  PROVE  x \div Ratio <= y \div Ratio /\ (x \div Ratio) * Ratio <= (y \div Ratio) * Ratio
  <1>1. Ratio \in Nat \ {0}
      BY RatioAssumption
  <1> DEFINE a == x \div Ratio  b == y \div Ratio
  <1>2. a \in Nat /\ b \in Nat /\ a * Ratio <= x /\ y < b * Ratio + Ratio
      BY <1>1, Division
  <1> HIDE DEF a, b
  <1>3. a <= b
    <2> SUFFICES ASSUME b < a PROVE FALSE
        BY <1>2
    <2>1. (b + 1) * Ratio <= a * Ratio
        BY <1>1, <1>2, Monotone
    <2>2. (b + 1) * Ratio = b * Ratio + Ratio /\ b * Ratio \in Nat /\ a * Ratio \in Nat
        BY <1>1, <1>2
    <2> QED
        BY <1>1, <1>2, <2>1, <2>2
  <1>4. a * Ratio <= b * Ratio
      BY <1>1, <1>2, <1>3, Monotone
  <1> QED
      BY <1>3, <1>4 DEF a, b

\* The same position, of a request whose tail is in the ring.
InReach(batch, n, width, kept, i, r, q, m) ==
  /\ i \in 1 .. n /\ r = batch[i] /\ Pending(r) /\ Grown(r, kept[i])
  /\ q \in Nat /\ (Len(text[r]) \div Ratio) * Ratio <= q /\ q < Len(text[r]) + kept[i]
  /\ m \in 0 .. n * width
  /\ q >= Len(text[r]) => (i - 1) * width + (q - Len(text[r]) + 1) <= m

\* Any position of the old unfinished block or of the new tokens, in the ring
\* after the rows up to its own are stored.
InRing(real, m, r, q) == StoredCell(real, m, r, q % Stride) = <<q, text'[r][q + 1]>>

LEMMA PagedCell ==
  ASSUME Types, NEW n \in Nat \ {0}, NEW batch, IsBatch(batch, n, Req), NEW width \in Nat \ {0},
         width + Ratio <= Stride + 1,
         NEW kept, \A i \in 1 .. n : kept[i] \in 1 .. width,
         NEW real, IsRows(real, batch, n, width, kept),
         NEW i, NEW r, NEW q, NEW m, InReach(batch, n, width, kept, i, r, q, m)
  PROVE  InRing(real, m, r, q)
  <1>0. /\ i \in 1 .. n /\ r = batch[i] /\ Pending(r) /\ Grown(r, kept[i])
        /\ q \in Nat /\ (Len(text[r]) \div Ratio) * Ratio <= q /\ q < Len(text[r]) + kept[i]
        /\ m \in 0 .. n * width
        /\ q >= Len(text[r]) => (i - 1) * width + (q - Len(text[r]) + 1) <= m
      BY DEF InReach
  <1> USE <1>0
  <1>1. r \in Req /\ text[r] \in Seq(Nat) /\ Len(text[r]) \in Nat
      BY DEF IsBatch, Types
  <1>2. \A j, k \in 1 .. n : batch[j] = batch[k] => j = k
      BY DEF IsBatch
  <1>3. kept[i] \in 1 .. width
      OBVIOUS
  <1> DEFINE l == Len(text[r])
  <1>4. l \in Nat /\ l = Len(text[r])
      BY <1>1
  <1>5. (l \div Ratio) * Ratio <= q /\ q < l + kept[i]
        /\ (q >= l => (i - 1) * width + (q - l + 1) <= m)
      OBVIOUS
  <1>6. q < l => ring[r][q % Stride] = <<q, text[r][q + 1]>>
    <2> SUFFICES ASSUME q < l PROVE ring[r][q % Stride] = <<q, text[r][q + 1]>>
        OBVIOUS
    <2>1. q \in (l \div Ratio) * Ratio .. l - 1
      <3>1. (l \div Ratio) * Ratio \in Nat
          BY <1>4, TailIsShort
      <3> HIDE DEF l
      <3> QED
          BY <1>4, <1>5, <3>1
    <2> QED
        BY <2>1 DEF Pending
  <1> HIDE DEF l
  <1>a. IsPosition(batch, n, width, kept, i, r, l, q, m)
      BY <1>2, <1>3, <1>4, <1>5, <1>6 DEF IsPosition
  <1>7. StoredCell(real, m, r, q % Stride) = <<q, IF q < l THEN text[r][q + 1] ELSE id[r]>>
      BY <1>a, RingCell
  <1>8. CASE q < l
    <2>1. q + 1 \in 1 .. l
        BY <1>4, <1>8
    <2>2. text'[r][q + 1] = text[r][q + 1]
        BY <1>4, <2>1 DEF Grown, IsLonger, HasPrefix
    <2> QED
        BY <1>7, <1>8, <2>2 DEF InRing
  <1>9. CASE ~ (q < l)
    <2>1. q + 1 \in l + 1 .. l + kept[i]
        BY <1>3, <1>4, <1>5, <1>9
    <2>2. text'[r][q + 1] = id[r]
        BY <1>4, <2>1 DEF Grown, IsLonger
    <2> QED
        BY <1>7, <1>9, <2>2 DEF InRing
  <1> QED
      BY <1>8, <1>9

LEMMA PagedTail ==
  ASSUME Types, NEW n \in Nat \ {0}, NEW batch, IsBatch(batch, n, Req), NEW width \in Nat \ {0},
         width + Ratio <= Stride + 1,
         NEW kept, \A i \in 1 .. n : kept[i] \in 1 .. width,
         NEW padding \in Nat, NEW graph, PagedForward(batch, width, kept, padding, graph),
         NEW r \in Req, Pending(r)
  PROVE  Pending(r)'
  <1> DEFINE real == PagedRows(batch, width, kept)
  <1>1. DOMAIN batch = 1 .. n /\ Len(batch) = n
      BY DEF IsBatch
  <1>2. IsRows(real, batch, n, width, kept)
      BY <1>1, PagedRowsAre
  <1>3. ring' = NewRing(real)
      BY PagedForwardIs
  <1> HIDE DEF real
  <1>4. Len(real) = n * width
      BY <1>2 DEF IsRows
  <1>5. ASSUME NEW p \in Nat PROVE ring'[r][p % Stride] = StoredCell(real, n * width, r, p % Stride)
    <2>1. p % Stride \in 0 .. Stride - 1
        BY StrideIs, Division
    <2> QED
        BY <1>3, <1>4, <2>1 DEF NewRing
  <1> SUFFICES ASSUME NEW p \in (Len(text'[r]) \div Ratio) * Ratio .. Len(text'[r]) - 1
               PROVE  ring'[r][p % Stride] = <<p, text'[r][p + 1]>>
      BY DEF Pending
  <1>6. text[r] \in Seq(Nat) /\ text'[r] \in Seq(Nat)
    <2>1. text' \in [Req -> Seq(Nat)]
        BY PagedText
    <2> QED
        BY <2>1 DEF Types
  <1>7. Len(text[r]) \in Nat /\ Len(text'[r]) \in Nat
      BY <1>6
  <1>8. (Len(text'[r]) \div Ratio) * Ratio \in Nat /\ (Len(text[r]) \div Ratio) * Ratio \in Nat
      BY <1>7, TailIsShort
  <1>9. p \in Nat /\ (Len(text'[r]) \div Ratio) * Ratio <= p /\ p < Len(text'[r])
      BY <1>7, <1>8
  <1>10. CASE \E i \in 1 .. n : batch[i] = r
    <2>1. PICK i \in 1 .. n : batch[i] = r
        BY <1>10
    <2>2. Grown(r, kept[i])
        BY <2>1, PagedText
    <2>3. Len(text'[r]) = Len(text[r]) + kept[i] /\ kept[i] \in Nat
        BY <2>2 DEF Grown, IsLonger
    <2>4. (Len(text[r]) \div Ratio) * Ratio <= p
      <3> DEFINE l == Len(text[r])  l2 == Len(text'[r])
      <3>1. l \in Nat /\ l2 \in Nat /\ l <= l2
          BY <1>7, <2>3
      <3> HIDE DEF l, l2
      <3>2. (l \div Ratio) * Ratio <= (l2 \div Ratio) * Ratio
          BY <3>1, DivisionRises
      <3>3. (l \div Ratio) * Ratio \in Nat /\ (l2 \div Ratio) * Ratio \in Nat
          BY <3>1, TailIsShort
      <3>4. (l2 \div Ratio) * Ratio <= p
          BY <1>9 DEF l2
      <3> DEFINE x == (l \div Ratio) * Ratio  y == (l2 \div Ratio) * Ratio
      <3>5. x \in Nat /\ y \in Nat /\ x <= y /\ y <= p
          BY <3>2, <3>3, <3>4
      <3> HIDE DEF x, y
      <3>6. x <= p
          BY <1>9, <3>5
      <3> QED
          BY <3>6 DEF x, l
    <2>5. n * width \in 0 .. n * width
      <3>1. n * width \in Nat
          OBVIOUS
      <3> QED
          BY <3>1
    <2>6. p >= Len(text[r]) => (i - 1) * width + (p - Len(text[r]) + 1) <= n * width
      <3> SUFFICES ASSUME p >= Len(text[r])
                   PROVE  (i - 1) * width + (p - Len(text[r]) + 1) <= n * width
          OBVIOUS
      <3> DEFINE d == p - Len(text[r]) + 1
      <3>1. d \in 1 .. width
        <4> DEFINE l == Len(text[r])  k == kept[i]
        <4>1. l \in Nat /\ k \in 1 .. width /\ p < l + k /\ p >= l
            BY <1>7, <1>9, <2>3
        <4> HIDE DEF l, k
        <4>2. p - l + 1 \in 1 .. width
            BY <1>9, <4>1
        <4> QED
            BY <4>2 DEF l
      <3> HIDE DEF d
      <3>2. (i - 1) * width + d \in 1 .. n * width
          BY <1>2, <3>1 DEF IsRows
      <3> DEFINE x == (i - 1) * width + d  y == n * width
      <3>3. y \in Nat /\ x \in 1 .. y
          BY <3>2
      <3> HIDE DEF x, y
      <3>4. x <= y
          BY <3>3
      <3> QED
          BY <3>4 DEF x, y, d
    <2>7. p < Len(text[r]) + kept[i]
        BY <1>9, <2>3
    <2>a. InReach(batch, n, width, kept, i, r, p, n * width)
        BY <1>9, <2>1, <2>2, <2>4, <2>5, <2>6, <2>7 DEF InReach
    <2>8. StoredCell(real, n * width, r, p % Stride) = <<p, text'[r][p + 1]>>
      <3>1. InRing(real, n * width, r, p)
          BY <1>2, <2>a, PagedCell
      <3> QED
          BY <3>1 DEF InRing
    <2> QED
        BY <1>5, <1>9, <2>8
  <1>11. CASE \A i \in 1 .. n : batch[i] # r
    <2>1. text'[r] = text[r]
        BY <1>11, PagedText
    <2>2. StoredCell(real, n * width, r, p % Stride) = ring[r][p % Stride]
        BY <1>2, <1>11, RingElsewhere
    <2>3. p \in (Len(text[r]) \div Ratio) * Ratio .. Len(text[r]) - 1
        BY <2>1
    <2>4. ring[r][p % Stride] = <<p, text[r][p + 1]>>
        BY <2>3 DEF Pending
    <2> QED
        BY <1>5, <1>9, <2>1, <2>2, <2>4
  <1> QED
      BY <1>10, <1>11

\* A block is the last one of a text or beyond, if it ends after the text.
LEMMA BlockInTail ==
  ASSUME NEW l \in Nat, NEW b \in Nat, (b + 1) * Ratio > l
  PROVE  (l \div Ratio) * Ratio <= b * Ratio
  <1>1. Ratio \in Nat \ {0}
      BY RatioAssumption
  <1> DEFINE a == l \div Ratio
  <1>2. a \in Nat /\ a * Ratio <= l
      BY <1>1, Division
  <1> HIDE DEF a
  <1>3. a <= b
    <2> SUFFICES ASSUME b < a PROVE FALSE
        BY <1>2
    <2>1. (b + 1) * Ratio <= a * Ratio
        BY <1>1, <1>2, Monotone
    <2>2. (b + 1) * Ratio \in Nat /\ a * Ratio \in Nat
        BY <1>1, <1>2
    <2> QED
        BY <1>2, <2>1, <2>2
  <1>4. a * Ratio <= b * Ratio
      BY <1>1, <1>2, <1>3, Monotone
  <1> QED
      BY <1>4 DEF a

\* The d-th row of request r, batch row i, ends block b.
Ends(batch, n, width, kept, r, b, i, d) ==
  /\ i \in 1 .. n /\ batch[i] = r /\ b \in Nat /\ Grown(r, kept[i])
  /\ d \in 1 .. kept[i] /\ d \in 1 .. width /\ (b + 1) * Ratio = Len(text[r]) + d

\* The cells of block b, completed by row k, the d-th of request r: each is in the
\* ring when the forward compresses them.
LEMMA PagedMembers ==
  ASSUME Types, NEW n \in Nat \ {0}, NEW batch, IsBatch(batch, n, Req), NEW width \in Nat \ {0},
         width + Ratio <= Stride + 1,
         NEW kept, \A i \in 1 .. n : kept[i] \in 1 .. width,
         NEW real, IsRows(real, batch, n, width, kept),
         NEW i, NEW r, NEW d, NEW b, Ends(batch, n, width, kept, r, b, i, d), Pending(r),
         NEW j \in Offsets
  PROVE  StoredCell(real, StoredRows(real, (i - 1) * width + d), r, (b * Ratio + j) % Stride)
           = <<b * Ratio + j, text'[r][b * Ratio + j + 1]>>
  <1>0. /\ i \in 1 .. n /\ r = batch[i] /\ b \in Nat /\ Grown(r, kept[i])
        /\ d \in 1 .. kept[i] /\ (b + 1) * Ratio = Len(text[r]) + d
      BY DEF Ends
  <1> USE <1>0
  <1> DEFINE k == (i - 1) * width + d
  <1>1. r \in Req /\ text[r] \in Seq(Nat) /\ Len(text[r]) \in Nat
      BY DEF IsBatch, Types
  <1> DEFINE l == Len(text[r])  x == b * Ratio  q == x + j  w == kept[i]  N == n * width
             m == StoredRows(real, k)  o == (i - 1) * width
  <1>2. l \in Nat /\ Ratio \in Nat /\ x \in Nat /\ j \in 0 .. Ratio - 1 /\ w \in 1 .. width /\ N \in Nat
      BY <1>1, RatioAssumption DEF Offsets
  <1>3. (b + 1) * Ratio = x + Ratio /\ x + Ratio = l + d
      BY <1>1, BlockEnds
  <1>4. (l \div Ratio) * Ratio <= x
    <2>1. (b + 1) * Ratio > l
      <3>1. d \in Nat /\ d >= 1
          BY <1>2
      <3> HIDE DEF l, x
      <3> QED
          BY <1>2, <1>3, <3>1
    <2> HIDE DEF l
    <2> QED
        BY <1>2, <2>1, BlockInTail
  <1>5. (l \div Ratio) * Ratio \in Nat
      BY <1>2, TailIsShort
  <1>6. k \in 1 .. N
    <2>1. d \in 1 .. width
        BY <1>2
    <2>2. (i - 1) * width + d \in 1 .. n * width
        BY <2>1 DEF IsRows
    <2> QED
        BY <2>2
  <1>7. m \in k .. N
      BY <1>6 DEF StoredRows, IsRows
  <1>8. o \in Int /\ k = o + d /\ d \in Int
      BY <1>2
  <1> HIDE DEF l, x, N, m, o, k
  <1>9. q \in Nat /\ x <= q /\ q < x + Ratio
      BY <1>2
  <1> HIDE DEF q
  <1>10. q < l + w
    <2>1. d \in Nat /\ d <= w
        BY <1>2
    <2> HIDE DEF w
    <2> QED
        BY <1>2, <1>3, <1>9, <2>1
  <1>11. (l \div Ratio) * Ratio <= q
    <2> DEFINE y == (l \div Ratio) * Ratio
    <2>1. y \in Nat /\ y <= x
        BY <1>4, <1>5
    <2> HIDE DEF y
    <2>2. y <= q
        BY <1>2, <1>9, <2>1
    <2> QED
        BY <2>2 DEF y
  <1>12. q >= l => o + (q - l + 1) <= m
    <2>1. q - l + 1 <= d
        BY <1>2, <1>3, <1>9
    <2> QED
        BY <1>2, <1>6, <1>7, <1>8, <1>9, <2>1
  <1>13. m \in 0 .. N
      BY <1>2, <1>6, <1>7
  <1>14. InReach(batch, n, width, kept, i, r, q, m)
      BY <1>9, <1>10, <1>11, <1>12, <1>13 DEF InReach, o, l, N
  <1>15. InRing(real, m, r, q)
      BY <1>14, PagedCell
  <1> QED
      BY <1>15 DEF InRing, q, x, m, k

LEMMA PagedEnds ==
  ASSUME Types, NEW n \in Nat \ {0}, NEW batch, IsBatch(batch, n, Req), NEW width \in Nat \ {0},
         NEW kept, \A i \in 1 .. n : kept[i] \in 1 .. width,
         NEW padding \in Nat, NEW graph, PagedForward(batch, width, kept, padding, graph),
         NEW r \in Req, NEW b \in Nat, (b + 1) * Ratio \in Len(text[r]) + 1 .. Len(text'[r])
  PROVE  \E i \in 1 .. n : \E d \in 1 .. width : Ends(batch, n, width, kept, r, b, i, d)
  <1> DEFINE l == Len(text[r])  x == (b + 1) * Ratio  d == x - l
  <1>1. l \in Nat
      BY DEF Types
  <1>2. x \in Nat /\ x \in l + 1 .. Len(text'[r])
      BY RatioAssumption
  <1>3. \E i \in 1 .. n : batch[i] = r
    <2> SUFFICES ASSUME \A i \in 1 .. n : batch[i] # r PROVE FALSE
        OBVIOUS
    <2>1. text'[r] = text[r]
        BY PagedText
    <2>2. x \in l + 1 .. l
        BY <1>2, <2>1
    <2> HIDE DEF x, l
    <2> QED
        BY <1>1, <1>2, <2>2
  <1>4. PICK i \in 1 .. n : batch[i] = r
      BY <1>3
  <1>5. Grown(r, kept[i])
      BY <1>4, PagedText
  <1>6. Len(text'[r]) = l + kept[i]
      BY <1>5 DEF Grown, IsLonger
  <1> DEFINE w == kept[i]
  <1>7. w \in 1 .. width /\ x \in l + 1 .. l + w
      BY <1>2, <1>6
  <1> HIDE DEF x, l, w
  <1>8. d \in 1 .. w /\ d \in 1 .. width /\ x = l + d
      BY <1>1, <1>2, <1>7
  <1> HIDE DEF d
  <1>9. Ends(batch, n, width, kept, r, b, i, d)
      BY <1>4, <1>5, <1>8 DEF Ends, l, x, w
  <1> QED
      BY <1>8, <1>9

LEMMA PagedCompletes ==
  ASSUME Types, Shape(text, pages, tree), Apart(text, pages, tree),
         NEW n \in Nat \ {0}, NEW batch, IsBatch(batch, n, Req), NEW width \in Nat \ {0},
         width + Ratio <= Stride + 1,
         NEW kept, \A i \in 1 .. n : kept[i] \in 1 .. width,
         NEW padding \in Nat, NEW graph \in BOOLEAN,
         PagedForward(batch, width, kept, padding, graph),
         \A i \in 1 .. n : Pending(batch[i])
  PROVE  Completes(text, text', pages, comp')
  <1> DEFINE real == PagedRows(batch, width, kept)
             rows == AllRows(batch, width, kept, padding)
             plan == PlanOf(rows, graph)
             work == Completed(Lengths(rows), n * width + padding)
             place == PagedPlace(rows, work)
             blocks == [e \in DOMAIN plan |-> MembersOf(real, rows, plan[e])]
  <1>1. comp' = Written(plan, blocks)
      BY PagedForwardIs
  <1>2. HasRoom(batch, n, width)
      BY PagedText DEF HasRoom
  <1>3. DOMAIN batch = 1 .. n /\ Len(batch) = n
      BY DEF IsBatch
  <1>4. IsAllRows(rows, batch, n, width, kept, padding)
      BY <1>3, AllRowsAre
  <1>5. IsRows(real, batch, n, width, kept)
      BY <1>3, PagedRowsAre
  <1> HIDE DEF rows, plan, real
  <1>6. Covers(plan, work, place)
    <2> HIDE DEF work
    <2> QED
        BY <1>2, <1>4, PagedCovers DEF plan, work
  <1>7. /\ \A v, w \in work : place[v] = place[w] => v = w
        /\ \A w \in work : /\ place[w] = SlotAt(pages[rows[w[1]].req], w[2])
                           /\ place[w] \in Slots /\ place[w] # 0
    <2>1. OwnPlaces(rows, work, place)
        BY <1>2, <1>4, PagedApart
    <2> HIDE DEF work, place
    <2> QED
        BY <2>1 DEF OwnPlaces
  <1> SUFFICES ASSUME NEW r \in Req, NEW b \in Nat,
                      (b + 1) * Ratio \in Len(text[r]) + 1 .. Len(text'[r])
               PROVE  comp'[SlotAt(pages[r], b)] = BlockOf(text'[r], b)
      BY DEF Completes
  <1>8. PICK i \in 1 .. n : \E d \in 1 .. width : Ends(batch, n, width, kept, r, b, i, d)
      BY PagedEnds
  <1>9. PICK d \in 1 .. width : Ends(batch, n, width, kept, r, b, i, d)
      BY <1>8
  <1>10. /\ batch[i] = r /\ Grown(r, kept[i]) /\ d \in 1 .. kept[i]
         /\ (b + 1) * Ratio = Len(text[r]) + d
      BY <1>9 DEF Ends
  <1> DEFINE k == (i - 1) * width + d  w == <<k, b>>
  <1>11. k \in 1 .. n * width /\ rows[k] = Row(batch, kept, i, d)
      BY <1>4 DEF IsAllRows
  <1>12. k \in 1 .. n * width + padding /\ k \in DOMAIN rows
    <2> DEFINE N == n * width
    <2>1. N \in Nat /\ k \in 1 .. N
        BY <1>11
    <2> HIDE DEF N, k
    <2>2. k \in 1 .. N + padding
        BY <2>1
    <2> QED
        BY <1>4, <2>2 DEF N, IsAllRows
  <1>13. rows[k].req = r /\ rows[k].pos + 1 = Len(text[r]) + d
    <2>1. Len(text[r]) \in Nat
        BY DEF Types
    <2> HIDE DEF k
    <2> QED
        BY <1>10, <1>11, <2>1 DEF Row
  <1> HIDE DEF k
  <1>14. w \in work /\ w[1] = k /\ w[2] = b
    <2>1. w \in (1 .. n * width + padding) \X Nat /\ w[1] = k /\ w[2] = b
        BY <1>12
    <2>2. Lengths(rows)[k] = Len(text[r]) + d
        BY <1>12, <1>13 DEF Lengths
    <2> HIDE DEF w
    <2> QED
        BY <1>10, <2>1, <2>2 DEF Completed
  <1>15. place[w] = SlotAt(pages[r], b) /\ place[w] \in Slots /\ place[w] # 0
      BY <1>7, <1>13, <1>14
  <1> HIDE DEF w, work, place, blocks
  <1>16. PICK e \in DOMAIN plan :
            /\ plan[e].row = w[1] /\ plan[e].block = w[2]
            /\ Written(plan, blocks)[place[w]] = blocks[e]
    <2>1. Lands(plan, work, place, w)
        BY <1>6, <1>7, <1>14, <1>15 DEF Lands
    <2>2. HoldsEntry(plan, blocks, place, w)
        BY <2>1, WrittenThere
    <2> QED
        BY <2>2 DEF HoldsEntry
  <1>17. blocks[e] = [j \in Offsets |->
                        StoredCell(real, StoredRows(real, k), r, (b * Ratio + j) % Stride)]
      BY <1>13, <1>14, <1>16 DEF blocks, MembersOf
  <1>18. ASSUME NEW j \in Offsets
         PROVE  StoredCell(real, StoredRows(real, k), r, (b * Ratio + j) % Stride)
                  = <<b * Ratio + j, text'[r][b * Ratio + j + 1]>>
    <2>1. Pending(r)
        BY <1>10
    <2> QED
        BY <1>5, <1>9, <2>1, PagedMembers DEF k
  <1>19. blocks[e] = BlockOf(text'[r], b)
      BY <1>17, <1>18 DEF BlockOf
  <1> QED
      BY <1>1, <1>15, <1>16, <1>19

-----------------------------------------------------------------------------
\* A prefill.  Its blocks are those between the old and the new length of a row.
ExtendStarts(lengths, chunks, n) == [r \in 1 .. n |-> (lengths[r] - chunks[r]) \div Ratio]

ExtendEnds(lengths, n) == [r \in 1 .. n |-> lengths[r] \div Ratio]

ChunkWork(lengths, chunks, n) == Between(ExtendStarts(lengths, chunks, n), ExtendEnds(lengths, n), n)

\* The rows' chunks start on a block.
AreChunks(lengths, chunks, n) ==
  /\ lengths \in [1 .. n -> Nat] /\ chunks \in [1 .. n -> Nat]
  /\ Len(lengths) = n /\ Len(chunks) = n
  /\ \A i \in 1 .. n : chunks[i] <= lengths[i] /\ (lengths[i] - chunks[i]) % Ratio = 0

LEMMA ChunkBlocks ==
  ASSUME NEW o \in Nat, NEW c \in Nat, o % Ratio = 0
  PROVE  /\ o \div Ratio \in Nat /\ (o \div Ratio) * Ratio = o
         /\ (o + c) \div Ratio \in Nat /\ ((o + c) \div Ratio) * Ratio <= o + c
         /\ o + c < ((o + c) \div Ratio) * Ratio + Ratio
  <1>1. Ratio \in Nat \ {0}
      BY RatioAssumption
  <1>2. o \div Ratio \in Nat /\ o = (o \div Ratio) * Ratio + (o % Ratio)
      BY <1>1, Division
  <1> DEFINE n == o + c
  <1>3. n \in Nat
      OBVIOUS
  <1>4. n \div Ratio \in Nat /\ (n \div Ratio) * Ratio <= n /\ n < (n \div Ratio) * Ratio + Ratio
    <2> HIDE DEF n
    <2> QED
        BY <1>1, <1>3, Division
  <1> DEFINE a == o \div Ratio
  <1>5. a \in Nat /\ o = a * Ratio + 0
      BY <1>2
  <1> HIDE DEF a
  <1>6. a * Ratio = o
      BY <1>1, <1>5
  <1> QED
      BY <1>2, <1>4, <1>6 DEF n, a

LEMMA ExtendTypes ==
  ASSUME NEW n \in Nat, NEW lengths, NEW chunks, AreChunks(lengths, chunks, n)
  PROVE  /\ ExtendStarts(lengths, chunks, n) \in [1 .. n -> Nat]
         /\ ExtendEnds(lengths, n) \in [1 .. n -> Nat]
         /\ \A i \in 1 .. n :
              /\ ExtendStarts(lengths, chunks, n)[i] * Ratio = lengths[i] - chunks[i]
              /\ ExtendEnds(lengths, n)[i] * Ratio <= lengths[i]
              /\ lengths[i] < ExtendEnds(lengths, n)[i] * Ratio + Ratio
  <1>1. ASSUME NEW i \in 1 .. n
        PROVE  /\ (lengths[i] - chunks[i]) \div Ratio \in Nat /\ lengths[i] \div Ratio \in Nat
               /\ ((lengths[i] - chunks[i]) \div Ratio) * Ratio = lengths[i] - chunks[i]
               /\ (lengths[i] \div Ratio) * Ratio <= lengths[i]
               /\ lengths[i] < (lengths[i] \div Ratio) * Ratio + Ratio
    <2> DEFINE l == lengths[i]  c == chunks[i]  o == l - c
    <2>1. l \in Nat /\ c \in Nat /\ c <= l /\ o % Ratio = 0
        BY DEF AreChunks
    <2> HIDE DEF l, c
    <2>2. o \in Nat /\ o + c = l
        BY <2>1
    <2> HIDE DEF o
    <2>3. /\ o \div Ratio \in Nat /\ (o \div Ratio) * Ratio = o
          /\ (o + c) \div Ratio \in Nat /\ ((o + c) \div Ratio) * Ratio <= o + c
          /\ o + c < ((o + c) \div Ratio) * Ratio + Ratio
        BY <2>1, <2>2, ChunkBlocks
    <2> QED
        BY <2>2, <2>3 DEF o, l, c
  <1> QED
      BY <1>1 DEF ExtendStarts, ExtendEnds

\* There is an entry for each block.
LEMMA ExtendFits ==
  ASSUME NEW n \in Nat, NEW lengths, NEW chunks, AreChunks(lengths, chunks, n)
  PROVE  /\ CumulativeSum(Counts(ExtendStarts(lengths, chunks, n), ExtendEnds(lengths, n), n))[n]
              <= CumulativeSum(chunks)[n] \div Ratio + n
         /\ CumulativeSum(chunks)[n] \div Ratio + n \in Nat
  <1> DEFINE s == ExtendStarts(lengths, chunks, n)  f == ExtendEnds(lengths, n)
             c == Counts(s, f, n)  t == CumulativeSum(c)  u == CumulativeSum(chunks)
  <1>1. /\ s \in [1 .. n -> Nat] /\ f \in [1 .. n -> Nat]
        /\ \A i \in 1 .. n : s[i] * Ratio = lengths[i] - chunks[i] /\ f[i] * Ratio <= lengths[i]
      BY ExtendTypes
  <1> HIDE DEF s, f
  <1>2. c \in [1 .. n -> Nat]
      BY <1>1 DEF Counts
  <1>3. Len(c) = n
    <2>1. c \in Seq(Nat)
        BY <1>2, SeqDef
    <2>2. DOMAIN c = 1 .. n
        BY <1>2
    <2> HIDE DEF c
    <2> QED
        BY <2>1, <2>2, LenProperties
  <1>4. chunks \in [1 .. n -> Nat] /\ Len(chunks) = n /\ lengths \in [1 .. n -> Nat]
      BY DEF AreChunks
  <1>5. ASSUME NEW i \in 1 .. n PROVE c[i] * Ratio <= chunks[i]
    <2> DEFINE x == s[i]  y == f[i]  k == chunks[i]  l == lengths[i]
    <2>1. x \in Nat /\ y \in Nat /\ k \in Nat /\ l \in Nat /\ Ratio \in Nat
          /\ x * Ratio = l - k /\ y * Ratio <= l
        BY <1>1, <1>4, RatioAssumption
    <2>2. c[i] = IF y > x THEN y - x ELSE 0
        BY DEF Counts
    <2> HIDE DEF x, y, k, l, c
    <2>3. CASE y > x
      <3>1. (y - x) * Ratio = y * Ratio - x * Ratio /\ y * Ratio \in Nat /\ x * Ratio \in Nat
          BY <2>1
      <3> DEFINE a == y * Ratio  b == x * Ratio
      <3>2. a \in Nat /\ b \in Nat /\ b = l - k /\ a <= l
          BY <2>1, <3>1
      <3>3. (y - x) * Ratio = a - b
          BY <3>1
      <3> HIDE DEF a, b
      <3>4. a - b <= k
          BY <2>1, <3>2
      <3> QED
          BY <2>2, <2>3, <3>3, <3>4 DEF k
    <2>4. CASE ~ (y > x)
      <3>1. 0 * Ratio = 0
          BY <2>1
      <3> QED
          BY <2>1, <2>2, <2>4, <3>1 DEF k
    <2> QED
        BY <2>3, <2>4
  <1> HIDE DEF c
  <1>6. IsSums(t, c, n) /\ IsSums(u, chunks, n)
      BY <1>2, <1>3, <1>4, SumsAreSums
  <1> HIDE DEF t, u
  <1>7. t[n] * Ratio <= u[n] /\ t[n] \in Nat /\ u[n] \in Nat
    <2>1. Ratio \in Nat
        BY RatioAssumption
    <2>2. t[n] * Ratio <= u[n]
        BY <1>2, <1>4, <1>5, <1>6, <2>1, SumsWithin
    <2>3. t[n] \in Nat /\ u[n] \in Nat
        BY <1>6 DEF IsSums
    <2> QED
        BY <2>2, <2>3
  <1> DEFINE x == t[n]  y == u[n]  d == y \div Ratio
  <1>8. Ratio \in Nat \ {0} /\ x \in Nat /\ y \in Nat /\ x * Ratio <= y
      BY <1>7, RatioAssumption
  <1> HIDE DEF x, y
  <1>9. d \in Nat /\ y < d * Ratio + Ratio
      BY <1>8, Division
  <1> HIDE DEF d
  <1>10. x <= d
    <2> SUFFICES ASSUME d < x PROVE FALSE
        BY <1>8, <1>9
    <2>1. (d + 1) * Ratio <= x * Ratio
        BY <1>8, <1>9, Monotone
    <2>2. (d + 1) * Ratio = d * Ratio + Ratio /\ d * Ratio \in Nat /\ x * Ratio \in Nat
        BY <1>8, <1>9
    <2> QED
        BY <1>8, <1>9, <2>1, <2>2
  <1>11. x <= d + n /\ d + n \in Nat
      BY <1>8, <1>9, <1>10
  <1> QED
      BY <1>11 DEF x, y, d, t, u, c, s, f

LEMMA ExtendPlanCovers ==
  ASSUME NEW n \in Nat, NEW lengths, NEW chunks, AreChunks(lengths, chunks, n),
         NEW tables, NEW place,
         \A w \in ChunkWork(lengths, chunks, n) : place[w] = Place(tables, w[1], w[2])
  PROVE  Covers(ExtendPlan(tables, lengths, chunks), ChunkWork(lengths, chunks, n), place)
  <1> DEFINE s == ExtendStarts(lengths, chunks, n)  f == ExtendEnds(lengths, n)
             cap == CumulativeSum(chunks)[n] \div Ratio + n
             plan == WritePlan(tables, s, f, cap)
  <1>1. /\ s \in [1 .. n -> Nat] /\ f \in [1 .. n -> Nat]
      BY ExtendTypes
  <1>2. DOMAIN lengths = 1 .. n /\ Len(lengths) = n /\ Len(chunks) = n
      BY DEF AreChunks
  <1>3. ExtendPlan(tables, lengths, chunks) = plan
      BY <1>2 DEF ExtendPlan, ExtendStarts, ExtendEnds
  <1>4. CumulativeSum(Counts(s, f, n))[n] <= cap /\ cap \in Nat
      BY ExtendFits
  <1>5. \A w \in Between(s, f, n) : place[w] = Place(tables, w[1], w[2])
      BY DEF ChunkWork
  <1> HIDE DEF s, f, cap
  <1>6. Len(f) = n
    <2>1. f \in Seq(Nat)
        BY <1>1, SeqDef
    <2>2. DOMAIN f = 1 .. n
        BY <1>1
    <2> QED
        BY <2>1, <2>2, LenProperties
  <1>7. Serves(plan, n, tables, s, f)
      BY <1>1, <1>4, <1>6, WritePlanServes
  <1> HIDE DEF plan
  <1>8. Covers(plan, Between(s, f, n), place)
      BY <1>1, <1>5, <1>7, ServesCovers
  <1> QED
      BY <1>3, <1>8 DEF ChunkWork, s, f

RowIn(batch, r) == CHOOSE i \in DOMAIN batch : batch[i] = r

IsIn(batch, r) == \E i \in DOMAIN batch : batch[i] = r

GrownTexts(batch, chunks) == [i \in DOMAIN batch |-> text[batch[i]] \o Tokens(chunks[i], id[batch[i]])]

GrownLengths(batch, chunks) == [i \in DOMAIN batch |-> Len(GrownTexts(batch, chunks)[i])]

RowTables(batch) == [i \in DOMAIN batch |-> Table(pages[batch[i]])]

PlanOfExtend(batch, chunks) ==
  ExtendPlan(RowTables(batch), GrownLengths(batch, chunks), chunks)

Chunk(r, c) == [k \in 1 .. c |-> <<Len(text[r]) + k - 1, id[r]>>]

ChunksOf(batch, chunks) == [i \in DOMAIN batch |-> Chunk(batch[i], chunks[i])]

ChunkBlock(batch, chunks, entry) ==
  [j \in Offsets |->
     Concat(ChunksOf(batch, chunks))[MemberRow(entry, GrownLengths(batch, chunks), chunks) + j + 1]]

BlocksOfExtend(batch, chunks) ==
  [e \in DOMAIN PlanOfExtend(batch, chunks) |->
     ChunkBlock(batch, chunks, PlanOfExtend(batch, chunks)[e])]

LeftOf(l, m) == {p \in l .. m - 1 : p >= (m \div Ratio) * Ratio}

LeftIn(batch, chunks, i) == LeftOf(Len(text[batch[i]]), GrownLengths(batch, chunks)[i])

RingOfExtend(batch, chunks) ==
  [r \in Req |-> [x \in 0 .. Stride - 1 |->
     IF IsIn(batch, r) /\ \E p \in LeftIn(batch, chunks, RowIn(batch, r)) : p % Stride = x
     THEN <<CHOOSE p \in LeftIn(batch, chunks, RowIn(batch, r)) : p % Stride = x, id[r]>>
     ELSE ring[r][x]]]

PhaseOfExtend(batch, last) ==
  [r \in Req |-> IF IsIn(batch, r) /\ last[RowIn(batch, r)] THEN "decode" ELSE phase[r]]

TextOfExtend(batch, chunks) ==
  [r \in Req |-> IF IsIn(batch, r) THEN GrownTexts(batch, chunks)[RowIn(batch, r)] ELSE text[r]]

TreeOfExtend(batch, chunks) ==
  tree \union UNION {Published(pages[batch[i]], GrownTexts(batch, chunks)[i]) : i \in DOMAIN batch}

\* The requests' lengths and their room.
MayExtend(batch, chunks, last) ==
  \A i \in DOMAIN batch :
    /\ Len(text[batch[i]]) % Ratio = 0
    /\ Len(text[batch[i]]) + chunks[i] <= Len(pages[batch[i]]) * Page
    /\ last[i] \/ (Len(text[batch[i]]) + chunks[i]) % Page = 0

LEMMA ExtendIs ==
  ASSUME NEW batch, NEW chunks, NEW last, Extend(batch, chunks, last)
  PROVE  /\ MayExtend(batch, chunks, last)
         /\ comp' = Written(PlanOfExtend(batch, chunks), BlocksOfExtend(batch, chunks))
         /\ ring' = RingOfExtend(batch, chunks)
         /\ text' = TextOfExtend(batch, chunks)
         /\ phase' = PhaseOfExtend(batch, last)
         /\ tree' = TreeOfExtend(batch, chunks)
         /\ served' = served /\ id' = id /\ pages' = pages
  BY DEF Extend, MayExtend, PlanOfExtend, BlocksOfExtend, ChunkBlock, ChunksOf, Chunk, RingOfExtend, LeftIn,
         LeftOf, IsIn, RowIn, TextOfExtend, PhaseOfExtend, TreeOfExtend, GrownTexts, GrownLengths,
         RowTables, Tokens

\* What holds of each row of the batch.
ExtendRow(batch, chunks, i) ==
  /\ batch[i] \in Req /\ chunks[i] \in Nat \ {0}
  /\ text[batch[i]] \in Seq(Nat) /\ Len(text[batch[i]]) \in Nat
  /\ Len(text[batch[i]]) % Ratio = 0
  /\ Len(text[batch[i]]) + chunks[i] <= Len(pages[batch[i]]) * Page
  /\ Grown(batch[i], chunks[i]) /\ Len(text'[batch[i]]) = Len(text[batch[i]]) + chunks[i]
  /\ GrownTexts(batch, chunks)[i] = text'[batch[i]]
  /\ GrownLengths(batch, chunks)[i] = Len(text[batch[i]]) + chunks[i]

LEMMA ExtendText ==
  ASSUME Types, NEW n \in Nat \ {0}, NEW batch, IsBatch(batch, n, Req),
         NEW chunks, \A i \in 1 .. n : chunks[i] \in Nat \ {0},
         NEW last, Extend(batch, chunks, last)
  PROVE  /\ \A i \in 1 .. n : ExtendRow(batch, chunks, i)
         /\ \A r \in Req : (\A i \in 1 .. n : batch[i] # r) => text'[r] = text[r]
         /\ text' \in [Req -> Seq(Nat)]
  <1>1. DOMAIN batch = 1 .. n /\ \A i \in 1 .. n : batch[i] \in Req
      BY DEF IsBatch
  <1>2. text' = TextOfExtend(batch, chunks) /\ MayExtend(batch, chunks, last)
      BY ExtendIs
  <1>3. \A i, j \in 1 .. n : batch[i] = batch[j] => i = j
      BY DEF IsBatch
  <1>4. text' = NewText(batch, chunks)
    <2>1. ASSUME NEW r \in Req, IsIn(batch, r)
          PROVE  GrownTexts(batch, chunks)[RowIn(batch, r)]
                   = text[r] \o Tokens(chunks[RowIn(batch, r)], id[r])
      <3>1. RowIn(batch, r) \in DOMAIN batch /\ batch[RowIn(batch, r)] = r
          BY <2>1 DEF IsIn, RowIn
      <3> QED
          BY <3>1 DEF GrownTexts
    <2>2. TextOfExtend(batch, chunks) = NewText(batch, chunks)
        BY <2>1 DEF TextOfExtend, NewText, IsIn, RowIn
    <2> QED
        BY <1>2, <2>2
  <1>5. \A i \in 1 .. n : chunks[i] \in Nat
      OBVIOUS
  <1>6. /\ \A i \in 1 .. n : Grown(batch[i], chunks[i])
        /\ \A r \in Req : (\A i \in 1 .. n : batch[i] # r) => text'[r] = text[r]
        /\ text' \in [Req -> Seq(Nat)]
      BY <1>4, <1>5, NewTextIs
  <1>7. ASSUME NEW i \in 1 .. n PROVE ExtendRow(batch, chunks, i)
    <2> DEFINE r == batch[i]
    <2>1. r \in Req /\ IsIn(batch, r)
        BY <1>1 DEF IsIn
    <2>2. RowIn(batch, r) = i
        BY <1>1, <1>3 DEF RowIn
    <2>3. text'[r] = GrownTexts(batch, chunks)[i]
        BY <1>2, <2>1, <2>2 DEF TextOfExtend
    <2>4. Len(text'[r]) = Len(text[r]) + chunks[i]
        BY <1>6 DEF Grown, IsLonger
    <2>5. GrownLengths(batch, chunks)[i] = Len(text[r]) + chunks[i]
        BY <1>1, <2>3, <2>4 DEF GrownLengths
    <2>6. text[r] \in Seq(Nat) /\ Len(text[r]) \in Nat
        BY <2>1 DEF Types
    <2>7. /\ Len(text[r]) % Ratio = 0
          /\ Len(text[r]) + chunks[i] <= Len(pages[r]) * Page
        BY <1>1, <1>2 DEF MayExtend
    <2>8. Grown(r, chunks[i])
        BY <1>6
    <2> QED
        BY <2>1, <2>3, <2>4, <2>5, <2>6, <2>7, <2>8 DEF ExtendRow
  <1> QED
      BY <1>6, <1>7

AreRows(batch, chunks, n) == \A i \in 1 .. n : ExtendRow(batch, chunks, i)

LEMMA GrownAreChunks ==
  ASSUME NEW n \in Nat \ {0}, NEW batch, IsBatch(batch, n, Req), NEW chunks,
         chunks \in [1 .. n -> Nat \ {0}], AreRows(batch, chunks, n)
  PROVE  AreChunks(GrownLengths(batch, chunks), chunks, n)
  <1> DEFINE lengths == GrownLengths(batch, chunks)
  <1>1. DOMAIN lengths = 1 .. n
      BY DEF GrownLengths, IsBatch
  <1>2. ASSUME NEW i \in 1 .. n
        PROVE  lengths[i] \in Nat /\ chunks[i] <= lengths[i] /\ (lengths[i] - chunks[i]) % Ratio = 0
    <2> DEFINE o == Len(text[batch[i]])  c == chunks[i]
    <2>1. o \in Nat /\ c \in Nat /\ o % Ratio = 0 /\ lengths[i] = o + c
        BY DEF AreRows, ExtendRow
    <2> HIDE DEF o
    <2>2. (o + c) - c = o /\ o + c \in Nat /\ c <= o + c
        BY <2>1
    <2> QED
        BY <2>1, <2>2
  <1>3. lengths \in [1 .. n -> Nat]
    <2>1. lengths = [i \in 1 .. n |-> lengths[i]]
        BY <1>1 DEF GrownLengths, IsBatch
    <2> HIDE DEF lengths
    <2> QED
        BY <1>2, <2>1
  <1>4. chunks \in [1 .. n -> Nat] /\ chunks \in Seq(Nat) /\ DOMAIN chunks = 1 .. n
      BY SeqDef
  <1>5. lengths \in Seq(Nat)
    <2> HIDE DEF lengths
    <2> QED
      BY <1>3, SeqDef
  <1>6. Len(lengths) = n /\ Len(chunks) = n
    <2> HIDE DEF lengths
    <2> QED
        BY <1>1, <1>4, <1>5, LenProperties
  <1> QED
      BY <1>2, <1>3, <1>4, <1>6 DEF AreChunks

\* Block w[2] of row w[1] is of its chunk.
InChunk(batch, chunks, n, w) ==
  \E i \in 1 .. n : \E b \in Nat : \E r \in Req :
    /\ w = <<i, b>> /\ r = batch[i] /\ Len(text[r]) <= b * Ratio
    /\ (b + 1) * Ratio <= Len(text[r]) + chunks[i]
    /\ (b + 1) * Ratio > Len(text[r]) /\ b < Len(pages[r]) * PerPage

LEMMA WorkInChunk ==
  ASSUME Types, NEW n \in Nat \ {0}, NEW batch, IsBatch(batch, n, Req), NEW chunks,
         chunks \in [1 .. n -> Nat \ {0}], AreRows(batch, chunks, n),
         NEW w \in ChunkWork(GrownLengths(batch, chunks), chunks, n)
  PROVE  InChunk(batch, chunks, n, w)
  <1> DEFINE lengths == GrownLengths(batch, chunks)
             s == ExtendStarts(lengths, chunks, n)  f == ExtendEnds(lengths, n)
  <1>1. AreChunks(lengths, chunks, n)
      BY GrownAreChunks
  <1> HIDE DEF lengths
  <1>2. /\ s \in [1 .. n -> Nat] /\ f \in [1 .. n -> Nat]
        /\ \A i \in 1 .. n :
             /\ s[i] * Ratio = lengths[i] - chunks[i]
             /\ f[i] * Ratio <= lengths[i]
             /\ lengths[i] < f[i] * Ratio + Ratio
      BY <1>1, ExtendTypes
  <1> HIDE DEF s, f
  <1>3. w \in (1 .. n) \X Nat /\ w[2] \in s[w[1]] .. f[w[1]] - 1
      BY DEF ChunkWork, Between, s, f, lengths
  <1> DEFINE i == w[1]  b == w[2]  r == batch[i]
  <1>4. i \in 1 .. n /\ b \in Nat /\ w = <<i, b>> /\ r \in Req
      BY <1>3 DEF IsBatch
  <1>5. /\ Len(text[r]) \in Nat /\ lengths[i] = Len(text[r]) + chunks[i]
        /\ Len(text[r]) + chunks[i] <= Len(pages[r]) * Page
      BY <1>4 DEF AreRows, ExtendRow, lengths
  <1> DEFINE l == Len(text[r])  c == chunks[i]  x == s[i]  y == f[i]  m == Len(pages[r])
  <1>6. l \in Nat /\ c \in Nat /\ x \in Nat /\ y \in Nat /\ m \in Nat /\ b \in x .. y - 1
      BY <1>2, <1>3, <1>4, <1>5 DEF Types
  <1>7. x * Ratio = (l + c) - c /\ y * Ratio <= l + c /\ l + c <= m * Page
      BY <1>2, <1>4, <1>5
  <1> HIDE DEF i, b, r, l, c, x, y, m
  <1>8. Ratio \in Nat \ {0} /\ x * Ratio \in Nat /\ y * Ratio \in Nat /\ b * Ratio \in Nat
        /\ m * Page \in Nat
      BY <1>4, <1>6, RatioAssumption, PageAssumption
  <1>9. (b + 1) * Ratio \in Nat /\ (b + 1) * Ratio = b * Ratio + Ratio
        /\ (b < m * PerPage <=> (b + 1) * Ratio <= m * Page)
      BY <1>4, <1>6, BlockEnds
  <1>10. x * Ratio <= b * Ratio
      BY <1>4, <1>6, <1>8, Monotone
  <1>11. (b + 1) * Ratio <= y * Ratio
    <2>1. b + 1 <= y /\ b + 1 \in Nat
        BY <1>4, <1>6
    <2> QED
        BY <1>6, <1>8, <2>1, Monotone
  <1> DEFINE xr == x * Ratio  yr == y * Ratio  br == b * Ratio  er == (b + 1) * Ratio  mp == m * Page
  <1>12. /\ xr \in Nat /\ yr \in Nat /\ br \in Nat /\ er \in Nat /\ mp \in Nat
         /\ er = br + Ratio /\ xr <= br /\ er <= yr /\ xr = (l + c) - c /\ yr <= l + c /\ l + c <= mp
      BY <1>7, <1>8, <1>9, <1>10, <1>11
  <1> HIDE DEF xr, yr, br, er, mp
  <1>13. l <= br /\ er <= l + c /\ er > l /\ er <= mp
      BY <1>6, <1>8, <1>12
  <1>14. b < m * PerPage
      BY <1>9, <1>13 DEF er, mp
  <1> QED
      BY <1>4, <1>13, <1>14 DEF InChunk, br, er, l, c, m, r

\* Every block that the chunk completes is such a block.
LEMMA ChunkInWork ==
  ASSUME Types, NEW n \in Nat \ {0}, NEW batch, IsBatch(batch, n, Req), NEW chunks,
         chunks \in [1 .. n -> Nat \ {0}], AreRows(batch, chunks, n),
         NEW i \in 1 .. n, NEW b \in Nat,
         (b + 1) * Ratio \in Len(text[batch[i]]) + 1 .. Len(text[batch[i]]) + chunks[i]
  PROVE  <<i, b>> \in ChunkWork(GrownLengths(batch, chunks), chunks, n)
  <1> DEFINE lengths == GrownLengths(batch, chunks)
             s == ExtendStarts(lengths, chunks, n)  f == ExtendEnds(lengths, n)
  <1>1. AreChunks(lengths, chunks, n)
      BY GrownAreChunks
  <1> HIDE DEF lengths
  <1>2. /\ s \in [1 .. n -> Nat] /\ f \in [1 .. n -> Nat]
        /\ s[i] * Ratio = lengths[i] - chunks[i]
        /\ f[i] * Ratio <= lengths[i]
        /\ lengths[i] < f[i] * Ratio + Ratio
    <2>1. /\ s \in [1 .. n -> Nat] /\ f \in [1 .. n -> Nat]
          /\ \A j \in 1 .. n :
               /\ s[j] * Ratio = lengths[j] - chunks[j]
               /\ f[j] * Ratio <= lengths[j]
               /\ lengths[j] < f[j] * Ratio + Ratio
        BY <1>1, ExtendTypes
    <2> HIDE DEF s, f
    <2> QED
        BY <2>1
  <1> HIDE DEF s, f
  <1> DEFINE l == Len(text[batch[i]])  c == chunks[i]  x == s[i]  y == f[i]
             e == b + 1  er == e * Ratio
  <1>3. l \in Nat /\ lengths[i] = l + c /\ c \in Nat
      BY DEF AreRows, ExtendRow, lengths
  <1>4. /\ x \in Nat /\ y \in Nat /\ x * Ratio = (l + c) - c /\ y * Ratio <= l + c
        /\ l + c < y * Ratio + Ratio /\ e \in Nat
      BY <1>2, <1>3
  <1>5. er \in l + 1 .. l + c
      OBVIOUS
  <1> HIDE DEF l, c, x, y, e
  <1>6. Ratio \in Nat \ {0} /\ x * Ratio \in Nat /\ y * Ratio \in Nat /\ er \in Nat
      BY <1>4, RatioAssumption
  <1>7. x <= b
    <2> SUFFICES ASSUME e <= x PROVE FALSE
        BY <1>4 DEF e
    <2>1. e * Ratio <= x * Ratio
        BY <1>4, <1>6, Monotone
    <2> DEFINE xr == x * Ratio
    <2>2. xr \in Nat /\ xr = (l + c) - c /\ er <= xr
        BY <1>4, <1>6, <2>1
    <2> HIDE DEF xr, er
    <2> QED
        BY <1>3, <1>5, <1>6, <2>2
  <1>8. e <= y
    <2> SUFFICES ASSUME y < e PROVE FALSE
        BY <1>4
    <2>1. (y + 1) * Ratio <= e * Ratio
      <3>1. y + 1 <= e /\ y + 1 \in Nat
          BY <1>4
      <3> QED
          BY <1>4, <1>6, <3>1, Monotone
    <2>2. (y + 1) * Ratio = y * Ratio + Ratio
        BY <1>4, <1>6
    <2> DEFINE yr == y * Ratio
    <2>3. yr \in Nat /\ l + c < yr + Ratio /\ yr + Ratio <= er
        BY <1>4, <1>6, <2>1, <2>2
    <2> HIDE DEF yr, er
    <2> QED
        BY <1>3, <1>5, <1>6, <2>3
  <1>9. b \in x .. y - 1
      BY <1>4, <1>7, <1>8 DEF e
  <1> QED
      BY <1>9 DEF ChunkWork, Between, x, y, s, f, lengths

ChunkPlace(batch, work) == [w \in work |-> SlotAt(pages[batch[w[1]]], w[2])]

OwnChunks(batch, work, place) ==
  /\ \A v, w \in work : place[v] = place[w] => v = w
  /\ \A w \in work : /\ <<batch[w[1]], w[2]>> \in Unfinished(text, pages)
                     /\ place[w] = SlotAt(pages[batch[w[1]]], w[2])
                     /\ place[w] \in Slots /\ place[w] # 0

LEMMA ExtendCovers ==
  ASSUME Types, NEW n \in Nat \ {0}, NEW batch, IsBatch(batch, n, Req), NEW chunks,
         chunks \in [1 .. n -> Nat \ {0}], AreRows(batch, chunks, n),
         NEW work, work = ChunkWork(GrownLengths(batch, chunks), chunks, n)
  PROVE  Covers(PlanOfExtend(batch, chunks), work, ChunkPlace(batch, work))
  <1> DEFINE tables == RowTables(batch)  place == ChunkPlace(batch, work)
             lengths == GrownLengths(batch, chunks)
  <1>1. AreChunks(lengths, chunks, n)
      BY GrownAreChunks
  <1>2. \A w \in work : place[w] = Place(tables, w[1], w[2])
    <2> SUFFICES ASSUME NEW w \in work PROVE place[w] = Place(tables, w[1], w[2])
        OBVIOUS
    <2>1. InChunk(batch, chunks, n, w)
        BY WorkInChunk
    <2>2. PICK i \in 1 .. n : \E b \in Nat : \E r \in Req :
             w = <<i, b>> /\ r = batch[i] /\ b < Len(pages[r]) * PerPage
        BY <2>1 DEF InChunk
    <2>3. PICK b \in Nat : \E r \in Req :
             w = <<i, b>> /\ r = batch[i] /\ b < Len(pages[r]) * PerPage
        BY <2>2
    <2>4. PICK r \in Req : w = <<i, b>> /\ r = batch[i] /\ b < Len(pages[r]) * PerPage
        BY <2>3
    <2> DEFINE pg == pages[r]
    <2>5. pg \in Seq(1 .. Pages) /\ b < Len(pg) * PerPage /\ w[1] = i /\ w[2] = b
        BY <2>4 DEF Types
    <2>6. tables[i] = Table(pg)
        BY <2>4 DEF RowTables, IsBatch
    <2>7. place[w] = SlotAt(pg, b)
        BY <2>4, <2>5 DEF ChunkPlace
    <2> HIDE DEF pg, tables, place
    <2>8. 0 \in Offsets
        BY RatioAssumption DEF Offsets
    <2>9. b * Ratio + 0 + 1 = b * Ratio + 1
      <3>1. Ratio \in Nat /\ b * Ratio \in Nat
          BY RatioAssumption
      <3> QED
          BY <3>1
    <2>10. Table(pg)[b * Ratio + 0 + 1] \div Ratio = SlotAt(pg, b)
        BY <2>5, <2>8, TableSlot
    <2> QED
        BY <2>5, <2>6, <2>7, <2>9, <2>10 DEF Place
  <1> HIDE DEF tables, place, lengths
  <1>3. Covers(ExtendPlan(tables, lengths, chunks), ChunkWork(lengths, chunks, n), place)
    <2>1. \A w \in ChunkWork(lengths, chunks, n) : place[w] = Place(tables, w[1], w[2])
        BY <1>2 DEF lengths
    <2> QED
        BY <1>1, <2>1, ExtendPlanCovers
  <1> QED
      BY <1>3 DEF PlanOfExtend, tables, lengths, place

LEMMA ExtendApart ==
  ASSUME Types, Shape(text, pages, tree), Apart(text, pages, tree),
         NEW n \in Nat \ {0}, NEW batch, IsBatch(batch, n, Req), NEW chunks,
         chunks \in [1 .. n -> Nat \ {0}], AreRows(batch, chunks, n),
         NEW work, work = ChunkWork(GrownLengths(batch, chunks), chunks, n)
  PROVE  OwnChunks(batch, work, ChunkPlace(batch, work))
  <1> DEFINE place == ChunkPlace(batch, work)
  <1>1. ASSUME NEW w \in work
        PROVE  \E i \in 1 .. n : \E b \in Nat : \E r \in Req :
                 /\ w = <<i, b>> /\ r = batch[i] /\ b < Len(pages[r]) * PerPage
                 /\ (b + 1) * Ratio > Len(text[r]) /\ place[w] = SlotAt(pages[r], b)
                 /\ w[1] = i /\ w[2] = b
    <2>1. InChunk(batch, chunks, n, w)
        BY WorkInChunk
    <2>2. place[w] = SlotAt(pages[batch[w[1]]], w[2])
        BY DEF ChunkPlace
    <2> HIDE DEF place
    <2>3. PICK i \in 1 .. n : \E b \in Nat : \E r \in Req :
             /\ w = <<i, b>> /\ r = batch[i] /\ (b + 1) * Ratio > Len(text[r])
             /\ b < Len(pages[r]) * PerPage
        BY <2>1 DEF InChunk
    <2>4. PICK b \in Nat : \E r \in Req :
             /\ w = <<i, b>> /\ r = batch[i] /\ (b + 1) * Ratio > Len(text[r])
             /\ b < Len(pages[r]) * PerPage
        BY <2>3
    <2>5. PICK r \in Req :
             /\ w = <<i, b>> /\ r = batch[i] /\ (b + 1) * Ratio > Len(text[r])
             /\ b < Len(pages[r]) * PerPage
        BY <2>4
    <2>6. w[1] = i /\ w[2] = b
        BY <2>5
    <2>7. place[w] = SlotAt(pages[r], b)
        BY <2>2, <2>5, <2>6
    <2> QED
        BY <2>5, <2>6, <2>7
  <1> HIDE DEF place
  <1>2. ASSUME NEW w \in work
        PROVE  /\ <<batch[w[1]], w[2]>> \in Unfinished(text, pages)
               /\ place[w] = SlotAt(pages[batch[w[1]]], w[2])
               /\ place[w] \in Slots /\ place[w] # 0
    <2>1. PICK i \in 1 .. n : \E b \in Nat : \E r \in Req :
                 /\ w = <<i, b>> /\ r = batch[i] /\ b < Len(pages[r]) * PerPage
                 /\ (b + 1) * Ratio > Len(text[r]) /\ place[w] = SlotAt(pages[r], b)
                 /\ w[1] = i /\ w[2] = b
        BY <1>1
    <2>2. PICK b \in Nat : \E r \in Req :
                 /\ r = batch[i] /\ b < Len(pages[r]) * PerPage
                 /\ (b + 1) * Ratio > Len(text[r]) /\ place[w] = SlotAt(pages[r], b)
                 /\ w[1] = i /\ w[2] = b
        BY <2>1
    <2>3. PICK r \in Req :
                 /\ r = batch[i] /\ b < Len(pages[r]) * PerPage
                 /\ (b + 1) * Ratio > Len(text[r]) /\ place[w] = SlotAt(pages[r], b)
                 /\ w[1] = i /\ w[2] = b
        BY <2>2
    <2> DEFINE u == <<r, b>>
    <2>4. u \in Req \X Nat /\ u[1] = r /\ u[2] = b
        OBVIOUS
    <2> HIDE DEF u
    <2>5. u \in Unfinished(text, pages)
        BY <2>3, <2>4 DEF Unfinished
    <2>6. pages[r] \in Seq(1 .. Pages)
        BY DEF Types
    <2>7. SlotAt(pages[r], b) \in Slots /\ SlotAt(pages[r], b) # 0
        BY <2>3, <2>6, SlotOfBlock
    <2> QED
        BY <2>3, <2>5, <2>7 DEF u
  <1>3. ASSUME NEW v \in work, NEW w \in work, place[v] = place[w] PROVE v = w
    <2>1. PICK i \in 1 .. n : \E b \in Nat : \E r \in Req :
                 /\ v = <<i, b>> /\ r = batch[i] /\ b < Len(pages[r]) * PerPage
                 /\ place[v] = SlotAt(pages[r], b)
        BY <1>1
    <2>2. PICK b \in Nat : \E r \in Req :
                 /\ v = <<i, b>> /\ r = batch[i] /\ b < Len(pages[r]) * PerPage
                 /\ place[v] = SlotAt(pages[r], b)
        BY <2>1
    <2>3. PICK r \in Req :
                 /\ v = <<i, b>> /\ r = batch[i] /\ b < Len(pages[r]) * PerPage
                 /\ place[v] = SlotAt(pages[r], b)
        BY <2>2
    <2>4. PICK j \in 1 .. n : \E c \in Nat : \E q \in Req :
                 /\ w = <<j, c>> /\ q = batch[j] /\ c < Len(pages[q]) * PerPage
                 /\ (c + 1) * Ratio > Len(text[q]) /\ place[w] = SlotAt(pages[q], c)
        BY <1>1
    <2>5. PICK c \in Nat : \E q \in Req :
                 /\ w = <<j, c>> /\ q = batch[j] /\ c < Len(pages[q]) * PerPage
                 /\ (c + 1) * Ratio > Len(text[q]) /\ place[w] = SlotAt(pages[q], c)
        BY <2>4
    <2>6. PICK q \in Req :
                 /\ w = <<j, c>> /\ q = batch[j] /\ c < Len(pages[q]) * PerPage
                 /\ (c + 1) * Ratio > Len(text[q]) /\ place[w] = SlotAt(pages[q], c)
        BY <2>5
    <2>7. SlotAt(pages[r], b) = SlotAt(pages[q], c)
        BY <1>3, <2>3, <2>6
    <2>8. r = q /\ b = c
      <3>1. q \in Req /\ c \in Nat /\ c < Len(pages[q]) * PerPage /\ (c + 1) * Ratio > Len(text[q])
          BY <2>6
      <3>2. r \in Req /\ b \in Nat /\ b < Len(pages[r]) * PerPage
          BY <2>3
      <3> QED
          BY ONLY Shape(text, pages, tree), Apart(text, pages, tree),
                  <3>1, <3>2, <2>7, UnfinishedIsAlone
    <2>9. i = j
        BY <2>3, <2>6, <2>8 DEF IsBatch
    <2> QED
        BY <2>3, <2>6, <2>8, <2>9
  <1> QED
      BY <1>2, <1>3 DEF OwnChunks, place

ArePacked(batch, chunks, n, t, cat) ==
  /\ IsSums(t, chunks, n)
  /\ \A i \in 1 .. n : \A k \in 1 .. chunks[i] :
       cat[t[i - 1] + k] = <<Len(text[batch[i]]) + k - 1, id[batch[i]]>>

\* The chunks' cells, packed.
LEMMA ChunksArePacked ==
  ASSUME Types, NEW n \in Nat \ {0}, NEW batch, IsBatch(batch, n, Req), NEW chunks,
         chunks \in [1 .. n -> Nat \ {0}], AreRows(batch, chunks, n)
  PROVE  ArePacked(batch, chunks, n, CumulativeSum(chunks), Concat(ChunksOf(batch, chunks)))
  <1> DEFINE seqs == ChunksOf(batch, chunks)  t == CumulativeSum(chunks)  S == Nat \X Nat
  <1>1. chunks \in [1 .. n -> Nat] /\ Len(chunks) = n
    <2>1. AreChunks(GrownLengths(batch, chunks), chunks, n)
        BY GrownAreChunks
    <2> QED
        BY <2>1 DEF AreChunks
  <1>2. IsSums(t, chunks, n)
      BY <1>1, SumsAreSums
  <1>3. ASSUME NEW i \in 1 .. n
        PROVE  /\ seqs[i] = Chunk(batch[i], chunks[i])
               /\ seqs[i] \in Seq(S) /\ Len(seqs[i]) = chunks[i]
    <2> DEFINE r == batch[i]  c == chunks[i]  u == Chunk(r, c)
    <2>1. seqs[i] = u
        BY DEF ChunksOf, IsBatch
    <2>2. c \in Nat /\ Len(text[r]) \in Nat /\ id[r] \in Nat
        BY <1>1 DEF AreRows, ExtendRow, Types
    <2>3. \A k \in 1 .. c : <<Len(text[r]) + k - 1, id[r]>> \in S
      <3> SUFFICES ASSUME NEW k \in 1 .. c PROVE Len(text[r]) + k - 1 \in Nat
          BY <2>2
      <3> DEFINE l == Len(text[r])
      <3>1. l \in Nat
          BY <2>2
      <3> HIDE DEF l, c
      <3>2. l + k - 1 \in Nat
          BY <2>2, <3>1
      <3> QED
          BY <3>2 DEF l
    <2> HIDE DEF S, c, r
    <2>4. u \in [1 .. c -> S] /\ DOMAIN u = 1 .. c
        BY <2>3 DEF Chunk
    <2>5. u \in Seq(S)
        BY <2>2, <2>4, SeqDef
    <2> HIDE DEF u
    <2>6. Len(u) = c
        BY <2>2, <2>4, <2>5, LenProperties
    <2> QED
        BY <2>1, <2>5, <2>6 DEF u, r, c
  <1>4. Len(seqs) = n
    <2>1. DOMAIN seqs = 1 .. n
        BY DEF ChunksOf, IsBatch
    <2>2. seqs = [i \in 1 .. n |-> seqs[i]]
        BY DEF ChunksOf, IsBatch
    <2> HIDE DEF seqs, S
    <2>3. seqs \in [1 .. n -> Seq(S)]
        BY <1>3, <2>2
    <2>4. seqs \in Seq(Seq(S))
        BY <2>3, SeqDef
    <2> QED
        BY <2>1, <2>4, LenProperties
  <1> HIDE DEF S, t
  <1>5. IsRagged(seqs, S, chunks, t, n)
    <2> HIDE DEF seqs
    <2> QED
        BY <1>1, <1>2, <1>3, <1>4 DEF IsRagged
  <1>6. IsPacked(Concat(seqs), seqs, S, chunks, t, n)
    <2> HIDE DEF seqs
    <2> QED
        BY <1>5, ConcatIs
  <1> HIDE DEF seqs
  <1>7. ASSUME NEW i \in 1 .. n, NEW k \in 1 .. chunks[i]
        PROVE  Concat(seqs)[t[i - 1] + k] = <<Len(text[batch[i]]) + k - 1, id[batch[i]]>>
    <2>1. Concat(seqs)[t[i - 1] + k] = seqs[i][k]
        BY <1>6 DEF IsPacked
    <2>2. seqs[i][k] = <<Len(text[batch[i]]) + k - 1, id[batch[i]]>>
        BY <1>3 DEF Chunk
    <2> QED
        BY <2>1, <2>2
  <1> QED
      BY <1>2, <1>7 DEF ArePacked, seqs, t

\* The entry of a block of row i's chunk.
IsEntryOf(batch, chunks, n, i, b, r, entry) ==
  /\ i \in 1 .. n /\ b \in Nat /\ r \in Req /\ r = batch[i]
  /\ Len(text[r]) <= b * Ratio /\ (b + 1) * Ratio <= Len(text[r]) + chunks[i]
  /\ entry.row = i /\ entry.block = b /\ entry # Inert

\* The entry of such a block finds its tokens in the packed chunks.
LEMMA ExtendMembers ==
  ASSUME Types, NEW n \in Nat \ {0}, NEW batch, IsBatch(batch, n, Req), NEW chunks,
         chunks \in [1 .. n -> Nat \ {0}], AreRows(batch, chunks, n),
         NEW i, NEW b, NEW r, NEW entry, IsEntryOf(batch, chunks, n, i, b, r, entry)
  PROVE  ChunkBlock(batch, chunks, entry) = BlockOf(text'[r], b)
  <1>0. /\ i \in 1 .. n /\ b \in Nat /\ r \in Req /\ r = batch[i]
        /\ Len(text[r]) <= b * Ratio /\ (b + 1) * Ratio <= Len(text[r]) + chunks[i]
        /\ entry.row = i /\ entry.block = b /\ entry # Inert
      BY DEF IsEntryOf
  <1> USE <1>0
  <1> DEFINE t == CumulativeSum(chunks)  cat == Concat(ChunksOf(batch, chunks))
  <1>1. /\ IsSums(t, chunks, n)
        /\ \A i2 \in 1 .. n : \A k \in 1 .. chunks[i2] :
             cat[t[i2 - 1] + k] = <<Len(text[batch[i2]]) + k - 1, id[batch[i2]]>>
    <2>1. ArePacked(batch, chunks, n, t, cat)
        BY ChunksArePacked
    <2> HIDE DEF t, cat
    <2> QED
        BY <2>1 DEF ArePacked
  <1> HIDE DEF t, cat
  <1> DEFINE o == Len(text[r])  c == chunks[i]  x == b * Ratio
  <1>2. o \in Nat /\ c \in Nat /\ GrownLengths(batch, chunks)[i] = o + c /\ Grown(r, c)
      BY DEF AreRows, ExtendRow
  <1>3. t[i - 1] \in Nat
      BY <1>1 DEF IsSums
  <1>4. Ratio \in Nat \ {0} /\ x \in Nat /\ (b + 1) * Ratio = x + Ratio
      BY RatioAssumption, BlockEnds
  <1>5. MemberRow(entry, GrownLengths(batch, chunks), chunks) = t[i - 1] + x - ((o + c) - c)
      BY <1>2 DEF MemberRow, t
  <1>6. o <= x /\ x + Ratio <= o + c
      BY <1>4
  <1>7. \A k \in 1 .. c : cat[t[i - 1] + k] = <<o + k - 1, id[r]>>
      BY <1>1
  <1> HIDE DEF o, c, x
  <1>8. ASSUME NEW j \in Offsets
        PROVE  cat[MemberRow(entry, GrownLengths(batch, chunks), chunks) + j + 1]
                 = <<x + j, text'[r][x + j + 1]>>
    <2> DEFINE k == x - o + j + 1  y == t[i - 1]
    <2>1. y \in Nat /\ j \in 0 .. Ratio - 1
        BY <1>3 DEF Offsets
    <2>2. MemberRow(entry, GrownLengths(batch, chunks), chunks) = y + x - ((o + c) - c)
        BY <1>5
    <2>3. cat[y + k] = <<o + k - 1, id[r]>>
      <3>1. k \in 1 .. c
          BY <1>2, <1>4, <1>6, <2>1
      <3> HIDE DEF k
      <3> QED
          BY <1>7, <3>1
    <2> HIDE DEF y
    <2>4. (y + x - ((o + c) - c)) + j + 1 = y + k /\ o + k - 1 = x + j
      <3>1. (o + c) - c = o
          BY <1>2
      <3> QED
          BY <1>2, <1>4, <2>1, <3>1
    <2>5. x + j + 1 \in o + 1 .. o + c
        BY <1>2, <1>4, <1>6, <2>1
    <2>6. text'[r][x + j + 1] = id[r]
      <3> DEFINE p == x + j + 1
      <3>1. p \in o + 1 .. o + c
          BY <2>5
      <3> HIDE DEF p
      <3>2. text'[r][p] = id[r]
          BY <1>2, <3>1 DEF Grown, IsLonger, o
      <3> QED
          BY <3>2 DEF p
    <2> HIDE DEF k
    <2> QED
        BY <2>2, <2>3, <2>4, <2>6
  <1>9. ChunkBlock(batch, chunks, entry)
          = [j \in Offsets |-> cat[MemberRow(entry, GrownLengths(batch, chunks), chunks) + j + 1]]
      BY DEF ChunkBlock, cat
  <1>10. BlockOf(text'[r], b) = [j \in Offsets |-> <<x + j, text'[r][x + j + 1]>>]
      BY DEF BlockOf, x
  <1> QED
      BY <1>8, <1>9, <1>10

LEMMA ExtendWrites ==
  ASSUME Types, Shape(text, pages, tree), Apart(text, pages, tree),
         NEW n \in Nat \ {0}, NEW batch, IsBatch(batch, n, Req), NEW chunks,
         chunks \in [1 .. n -> Nat \ {0}], AreRows(batch, chunks, n),
         comp' = Written(PlanOfExtend(batch, chunks), BlocksOfExtend(batch, chunks))
  PROVE  WritesUnfinished(text, pages, comp, comp')
  <1> DEFINE plan == PlanOfExtend(batch, chunks)  blocks == BlocksOfExtend(batch, chunks)
             work == ChunkWork(GrownLengths(batch, chunks), chunks, n)
             place == ChunkPlace(batch, work)
             mine == {<<batch[w[1]], w[2]>> : w \in work}
  <1>1. Covers(plan, work, place)
      BY ExtendCovers
  <1>2. OwnChunks(batch, work, place)
      BY ExtendApart
  <1>3. comp' = Written(plan, blocks)
      OBVIOUS
  <1> HIDE DEF plan, blocks, work, place
  <1>4. mine \in SUBSET Unfinished(text, pages)
      BY <1>2 DEF OwnChunks
  <1>5. ASSUME NEW s \in Slots, \A u \in mine : SlotAt(pages[u[1]], u[2]) # s
        PROVE  comp'[s] = comp[s]
    <2>1. \A w \in work : place[w] # s
      <3> SUFFICES ASSUME NEW w \in work PROVE place[w] # s
          OBVIOUS
      <3> DEFINE u == <<batch[w[1]], w[2]>>
      <3>1. u \in mine /\ u[1] = batch[w[1]] /\ u[2] = w[2]
          OBVIOUS
      <3>2. place[w] = SlotAt(pages[batch[w[1]]], w[2])
          BY <1>2 DEF OwnChunks
      <3> HIDE DEF u, mine
      <3> QED
          BY <1>5, <3>1, <3>2
    <2>2. Written(plan, blocks)[s] = comp[s]
        BY <1>1, <2>1, WrittenElsewhere
    <2> QED
        BY <1>3, <2>2
  <1> HIDE DEF mine
  <1> QED
      BY <1>4, <1>5 DEF WritesUnfinished

LEMMA ExtendCompletes ==
  ASSUME Types, Shape(text, pages, tree), Apart(text, pages, tree),
         NEW n \in Nat \ {0}, NEW batch, IsBatch(batch, n, Req), NEW chunks,
         chunks \in [1 .. n -> Nat \ {0}], AreRows(batch, chunks, n),
         comp' = Written(PlanOfExtend(batch, chunks), BlocksOfExtend(batch, chunks)),
         \A r \in Req : (\A i \in 1 .. n : batch[i] # r) => text'[r] = text[r]
  PROVE  Completes(text, text', pages, comp')
  <1> DEFINE plan == PlanOfExtend(batch, chunks)  blocks == BlocksOfExtend(batch, chunks)
             work == ChunkWork(GrownLengths(batch, chunks), chunks, n)
             place == ChunkPlace(batch, work)
  <1>1. Covers(plan, work, place)
      BY ExtendCovers
  <1>2. OwnChunks(batch, work, place)
      BY ExtendApart
  <1>3. comp' = Written(plan, blocks)
      OBVIOUS
  <1> SUFFICES ASSUME NEW r \in Req, NEW b \in Nat,
                      (b + 1) * Ratio \in Len(text[r]) + 1 .. Len(text'[r])
               PROVE  comp'[SlotAt(pages[r], b)] = BlockOf(text'[r], b)
      BY DEF Completes
  <1> DEFINE l == Len(text[r])  er == (b + 1) * Ratio
  <1>4. l \in Nat /\ er \in Nat
      BY RatioAssumption DEF Types
  <1>5. PICK i \in 1 .. n : batch[i] = r
    <2> SUFFICES ASSUME \A i \in 1 .. n : batch[i] # r PROVE FALSE
        OBVIOUS
    <2>1. er \in l + 1 .. l
        OBVIOUS
    <2> HIDE DEF l, er
    <2> QED
        BY <1>4, <2>1
  <1>6. /\ Len(text'[r]) = l + chunks[i] /\ chunks[i] \in Nat
      BY <1>5 DEF AreRows, ExtendRow
  <1>7. er \in l + 1 .. l + chunks[i]
      BY <1>6
  <1> DEFINE w == <<i, b>>
  <1>8. w \in work /\ w[1] = i /\ w[2] = b
    <2>1. (b + 1) * Ratio \in Len(text[batch[i]]) + 1 .. Len(text[batch[i]]) + chunks[i]
        BY <1>5, <1>7
    <2>2. w \in work
        BY <2>1, ChunkInWork
    <2> QED
        BY <2>2
  <1>9. InChunk(batch, chunks, n, w)
    <2> HIDE DEF w
    <2> QED
        BY <1>8, WorkInChunk
  <1>10. l <= b * Ratio /\ er <= l + chunks[i]
    <2>1. PICK i2 \in 1 .. n : \E b2 \in Nat : \E r2 \in Req :
            w = <<i2, b2>> /\ r2 = batch[i2] /\ Len(text[r2]) <= b2 * Ratio
        BY <1>9 DEF InChunk
    <2>2. i2 = i /\ l <= b * Ratio
        BY <1>5, <2>1
    <2> HIDE DEF er, l
    <2>3. er <= l + chunks[i]
        BY <1>4, <1>6, <1>7
    <2> QED
        BY <2>2, <2>3
  <1> HIDE DEF plan, blocks, work, place, w
  <1>11. place[w] = SlotAt(pages[r], b) /\ place[w] \in Slots /\ place[w] # 0
      BY <1>2, <1>5, <1>8 DEF OwnChunks
  <1>12. Lands(plan, work, place, w)
      BY <1>1, <1>2, <1>8, <1>11 DEF Lands, OwnChunks
  <1>13. HoldsEntry(plan, blocks, place, w)
      BY <1>12, WrittenThere
  <1>14. PICK e \in DOMAIN plan :
            /\ plan[e].row = i /\ plan[e].block = b /\ plan[e] # Inert
            /\ Written(plan, blocks)[place[w]] = blocks[e]
      BY <1>8, <1>13 DEF HoldsEntry
  <1>15. blocks[e] = ChunkBlock(batch, chunks, plan[e])
      BY DEF blocks, BlocksOfExtend, plan
  <1>16. ChunkBlock(batch, chunks, plan[e]) = BlockOf(text'[r], b)
    <2> DEFINE entry == plan[e]
    <2>1. entry.row = i /\ entry.block = b /\ entry # Inert
        BY <1>14
    <2>2. Len(text[r]) <= b * Ratio /\ (b + 1) * Ratio <= Len(text[r]) + chunks[i] /\ r = batch[i]
        BY <1>5, <1>10
    <2> HIDE DEF entry
    <2>a. IsEntryOf(batch, chunks, n, i, b, r, entry)
        BY <2>1, <2>2 DEF IsEntryOf
    <2>3. ChunkBlock(batch, chunks, entry) = BlockOf(text'[r], b)
        BY <2>a, ExtendMembers
    <2> QED
        BY <2>3 DEF entry
  <1> QED
      BY <1>3, <1>11, <1>14, <1>15, <1>16

\* The tail of a prompt's last chunk is in the ring.
LEMMA LeftInRing ==
  ASSUME NEW l \in Nat, NEW m \in Nat, l <= m, l % Ratio = 0,
         NEW p \in (m \div Ratio) * Ratio .. m - 1
  PROVE  /\ p \in LeftOf(l, m) /\ p \in l .. m - 1
         /\ \A q \in LeftOf(l, m) : q % Stride = p % Stride => q = p
  <1> DEFINE x == (l \div Ratio) * Ratio  y == (m \div Ratio) * Ratio
  <1>1. x <= y
      BY DivisionRises
  <1>2. x = l
    <2>1. l \div Ratio \in Nat /\ l = (l \div Ratio) * Ratio + (l % Ratio)
        BY RatioAssumption, Division
    <2>2. x \in Nat
        BY TailIsShort
    <2>3. l = x + 0
        BY <2>1
    <2> HIDE DEF x
    <2> QED
        BY <2>2, <2>3
  <1>3. y \in Nat /\ y <= m /\ m < y + Ratio
      BY TailIsShort
  <1>4. LeftOf(l, m) = {q \in l .. m - 1 : q >= y}
      BY DEF LeftOf
  <1> HIDE DEF x, y
  <1>5. p \in Nat /\ p \in y .. m - 1
      BY <1>3 DEF y
  <1>6. p \in l .. m - 1 /\ p >= y
      BY <1>1, <1>2, <1>3, <1>5
  <1>7. Stride \in Nat \ {0} /\ Ratio \in Nat /\ Ratio <= Stride
      BY StrideIs, RatioAssumption
  <1>8. ASSUME NEW q \in LeftOf(l, m), q % Stride = p % Stride PROVE q = p
    <2>1. q \in Nat /\ q \in y .. m - 1
        BY <1>3, <1>4
    <2>2. CASE q <= p
      <3>1. p - q < Stride
          BY <1>3, <1>5, <1>7, <2>1
      <3> QED
          BY <1>5, <1>7, <1>8, <2>1, <2>2, <3>1, OneCell
    <2>3. CASE p <= q
      <3>1. q - p < Stride /\ p % Stride = q % Stride
          BY <1>3, <1>5, <1>7, <1>8, <2>1
      <3> QED
          BY <1>5, <1>7, <2>1, <2>3, <3>1, OneCell
    <2> QED
        BY <1>5, <2>1, <2>2, <2>3
  <1> QED
      BY <1>4, <1>6, <1>8

LEMMA ExtendPending ==
  ASSUME Types, NEW n \in Nat \ {0}, NEW batch, IsBatch(batch, n, Req), NEW chunks,
         chunks \in [1 .. n -> Nat \ {0}], AreRows(batch, chunks, n),
         ring' = RingOfExtend(batch, chunks),
         \A r \in Req : (\A i \in 1 .. n : batch[i] # r) => text'[r] = text[r],
         NEW r \in Req, IsIn(batch, r) \/ Pending(r)
  PROVE  Pending(r)'
  <1>1. DOMAIN batch = 1 .. n /\ \A i, j \in 1 .. n : batch[i] = batch[j] => i = j
      BY DEF IsBatch
  <1>2. CASE ~ IsIn(batch, r)
    <2>1. text'[r] = text[r]
        BY <1>1, <1>2 DEF IsIn
    <2>2. \A x \in 0 .. Stride - 1 : ring'[r][x] = ring[r][x]
        BY <1>2 DEF RingOfExtend
    <2> SUFFICES ASSUME NEW p \in (Len(text[r]) \div Ratio) * Ratio .. Len(text[r]) - 1
                 PROVE  ring'[r][p % Stride] = <<p, text[r][p + 1]>>
        BY <2>1 DEF Pending
    <2>3. p \in Nat
      <3>1. Len(text[r]) \in Nat
          BY DEF Types
      <3>2. (Len(text[r]) \div Ratio) * Ratio \in Nat
          BY <3>1, TailIsShort
      <3> QED
          BY <3>1, <3>2
    <2>4. p % Stride \in 0 .. Stride - 1
        BY <2>3, StrideIs, Division
    <2> QED
        BY <1>2, <2>2, <2>4 DEF Pending
  <1>3. CASE IsIn(batch, r)
    <2> DEFINE i == RowIn(batch, r)
    <2>1. i \in 1 .. n /\ batch[i] = r
        BY <1>1, <1>3 DEF IsIn, RowIn
    <2> HIDE DEF i
    <2> DEFINE l == Len(text[r])  c == chunks[i]  m == l + c
    <2>2. /\ l \in Nat /\ c \in Nat /\ l % Ratio = 0 /\ Grown(r, c)
          /\ Len(text'[r]) = m /\ GrownLengths(batch, chunks)[i] = m
        BY <2>1 DEF AreRows, ExtendRow
    <2>3. LeftIn(batch, chunks, i) = LeftOf(l, m)
        BY <2>1, <2>2 DEF LeftIn
    <2> HIDE DEF l, c
    <2>4. m \in Nat /\ l <= m
        BY <2>2
    <2> HIDE DEF m
    <2> SUFFICES ASSUME NEW p \in (m \div Ratio) * Ratio .. m - 1
                 PROVE  ring'[r][p % Stride] = <<p, text'[r][p + 1]>>
        BY <2>2 DEF Pending
    <2>5. /\ p \in LeftOf(l, m) /\ p \in l .. m - 1
          /\ \A q \in LeftOf(l, m) : q % Stride = p % Stride => q = p
        BY <2>2, <2>4, LeftInRing
    <2>6. p \in Nat /\ p + 1 \in l + 1 .. l + c
        BY <2>2, <2>5 DEF m
    <2>7. text'[r][p + 1] = id[r]
      <3> DEFINE z == p + 1
      <3>1. z \in l + 1 .. l + c
          BY <2>6
      <3> HIDE DEF z
      <3>2. text'[r][z] = id[r]
          BY <2>2, <3>1 DEF Grown, IsLonger, l
      <3> QED
          BY <3>2 DEF z
    <2>8. p % Stride \in 0 .. Stride - 1
        BY <2>6, StrideIs, Division
    <2> DEFINE x == p % Stride
    <2>9. x \in 0 .. Stride - 1 /\ p % Stride = x
        BY <2>8
    <2>10. /\ p \in LeftOf(l, m) /\ p % Stride = x
           /\ \A q \in LeftOf(l, m) : q % Stride = x => q = p
        BY <2>5
    <2> HIDE DEF x
    <2>11. (CHOOSE q \in LeftOf(l, m) : q % Stride = x) = p
        BY <2>10
    <2>12. ring'[r][x] = <<CHOOSE q \in LeftOf(l, m) : q % Stride = x, id[r]>>
        BY <1>3, <2>3, <2>9, <2>10 DEF RingOfExtend, i
    <2> QED
        BY <2>7, <2>9, <2>11, <2>12
  <1> QED
      BY <1>2, <1>3

\* The pages it publishes are those of its requests' new texts.
LEMMA ExtendTree ==
  ASSUME NEW n \in Nat \ {0}, NEW batch, IsBatch(batch, n, Req), NEW chunks,
         AreRows(batch, chunks, n), Shape(text', pages, tree),
         tree' = TreeOfExtend(batch, chunks)
  PROVE  \E rs \in SUBSET Req : tree' = tree \cup PublishedBy(text', pages, rs)
  <1> DEFINE rs == {batch[i] : i \in 1 .. n}
  <1>1. DOMAIN batch = 1 .. n /\ rs \in SUBSET Req
      BY DEF IsBatch
  <1>2. ASSUME NEW i \in 1 .. n
        PROVE  Published(pages[batch[i]], GrownTexts(batch, chunks)[i])
                 = PublishedBy(text', pages, {batch[i]})
    <2>1. batch[i] \in Req /\ GrownTexts(batch, chunks)[i] = text'[batch[i]]
        BY DEF AreRows, ExtendRow
    <2> QED
        BY <2>1, PublishedIs
  <1>3. UNION {Published(pages[batch[i]], GrownTexts(batch, chunks)[i]) : i \in DOMAIN batch}
          = UNION {PublishedBy(text', pages, {r}) : r \in rs}
      BY <1>1, <1>2
  <1>4. UNION {PublishedBy(text', pages, {r}) : r \in rs} = PublishedBy(text', pages, rs)
    <2> DEFINE P(q) == {v \in q \X (Nat \ {0}) : v[2] * Page <= Len(text'[v[1]])}
    <2> HIDE DEF rs
    <2>1. ASSUME NEW r \in rs, NEW x \in PublishedBy(text', pages, {r})
          PROVE  x \in PublishedBy(text', pages, rs)
      <3>1. PICK w \in P({r}) : x = Node(text', pages, w[1], w[2])
          BY <2>1 DEF PublishedBy
      <3>2. w \in P(rs)
          OBVIOUS
      <3> HIDE DEF P
      <3> QED
          BY <3>1, <3>2 DEF PublishedBy, P
    <2>2. ASSUME NEW x \in PublishedBy(text', pages, rs)
          PROVE  \E r \in rs : x \in PublishedBy(text', pages, {r})
      <3>1. PICK w \in P(rs) : x = Node(text', pages, w[1], w[2])
          BY <2>2 DEF PublishedBy
      <3>2. w[1] \in rs /\ w \in P({w[1]})
          OBVIOUS
      <3> HIDE DEF P
      <3> QED
          BY <3>1, <3>2 DEF PublishedBy, P
    <2> QED
        BY <2>1, <2>2
  <1>5. tree' = tree \cup PublishedBy(text', pages, rs)
      BY <1>3, <1>4 DEF TreeOfExtend
  <1> QED
      BY <1>1, <1>5

-----------------------------------------------------------------------------
\* The pages' ownership, and what is where.
PageInv == Types /\ Shape(text, pages, tree) /\ Apart(text, pages, tree)

ContentInv ==
  /\ Content(text, pages, tree, comp)
  /\ \A r \in Req : phase[r] = "decode" => Pending(r)

\* What a decode or verification of n rows keeps.
PagedStep(batch, n, width) ==
  /\ PageInv' /\ WritesUnfinished(text, pages, comp, comp') /\ tree' = tree
  /\ width + Ratio <= Stride + 1 /\ ContentInv /\ (\A i \in 1 .. n : phase[batch[i]] = "decode")
       => ContentInv'

LEMMA PagedKeeps ==
  ASSUME PageInv, NEW n \in Nat \ {0}, NEW batch, IsBatch(batch, n, Req), NEW width \in Nat \ {0},
         NEW kept, \A i \in 1 .. n : kept[i] \in 1 .. width,
         NEW padding \in Nat, NEW graph \in BOOLEAN,
         PagedForward(batch, width, kept, padding, graph)
  PROVE  PagedStep(batch, n, width)
  <1>1. Types /\ Shape(text, pages, tree) /\ Apart(text, pages, tree)
      BY DEF PageInv
  <1>2. served' = served /\ phase' = phase /\ id' = id /\ pages' = pages /\ tree' = tree
      BY PagedForwardIs
  <1>3. /\ \A i \in 1 .. n : /\ Grown(batch[i], kept[i])
                             /\ Len(text[batch[i]]) + width <= Len(pages[batch[i]]) * Page
        /\ \A r \in Req : (\A i \in 1 .. n : batch[i] # r) => text'[r] = text[r]
        /\ text' \in [Req -> Seq(Nat)]
      BY <1>1, PagedText
  <1>4. ASSUME NEW r \in Req
        PROVE  /\ text'[r] \in Seq(Nat) /\ HasPrefix(text'[r], text[r])
               /\ Len(text'[r]) <= Len(pages[r]) * Page
    <2>1. text'[r] \in Seq(Nat) /\ Len(text[r]) \in Nat
        BY <1>1, <1>3 DEF Types
    <2>2. CASE \A i \in 1 .. n : batch[i] # r
      <3>1. text'[r] = text[r]
          BY <1>3, <2>2
      <3>2. Len(text[r]) <= Len(pages[r]) * Page
          BY <1>1 DEF Shape
      <3> QED
          BY <2>1, <3>1, <3>2 DEF HasPrefix
    <2>3. CASE \E i \in 1 .. n : batch[i] = r
      <3>1. PICK i \in 1 .. n : batch[i] = r
          BY <2>3
      <3>2. HasPrefix(text'[r], text[r]) /\ Len(text'[r]) = Len(text[r]) + kept[i]
          BY <1>3, <3>1 DEF Grown, IsLonger
      <3> DEFINE l == Len(text[r])  k == kept[i]  m == Len(pages[r]) * Page
      <3>3. l \in Nat /\ k \in 1 .. width /\ l + width <= m /\ m \in Nat
        <4>1. Len(pages[r]) \in Nat /\ Page \in Nat
            BY <1>1, PageAssumption DEF Types
        <4>2. m \in Nat
            BY <4>1
        <4>3. l + width <= m
            BY <1>3, <3>1
        <4>4. k \in 1 .. width
            OBVIOUS
        <4> QED
            BY <2>1, <4>2, <4>3, <4>4
      <3>4. Len(text'[r]) = l + k
          BY <3>2
      <3> HIDE DEF l, k, m
      <3>5. l + k <= m
          BY <3>3
      <3> QED
          BY <2>1, <3>2, <3>4, <3>5 DEF m
    <2> QED
        BY <2>2, <2>3
  <1>5. Shape(text', pages, tree) /\ Apart(text', pages, tree)
      BY <1>1, <1>4, GrowKeeps
  <1>6. PageInv'
    <2>1. Types'
        BY <1>1, <1>2, <1>3 DEF Types
    <2>2. Shape(text', pages', tree') /\ Apart(text', pages', tree')
        BY <1>2, <1>5
    <2> QED
        BY <2>1, <2>2 DEF PageInv
  <1>7. WritesUnfinished(text, pages, comp, comp')
      BY <1>1, PagedWrites
  <1>8. ASSUME width + Ratio <= Stride + 1, ContentInv, \A i \in 1 .. n : phase[batch[i]] = "decode"
        PROVE  ContentInv'
    <2>1. \A i \in 1 .. n : Pending(batch[i])
        BY <1>8 DEF ContentInv, IsBatch
    <2>2. Completes(text, text', pages, comp')
        BY <1>1, <1>8, <2>1, PagedCompletes
    <2>3. Content(text, pages, tree, comp)
        BY <1>8 DEF ContentInv
    <2>4. Content(text', pages, tree, comp')
      <3>1. \A r \in Req : HasPrefix(text'[r], text[r])
          BY <1>4
      <3> QED
          BY <1>1, <1>5, <1>7, <2>2, <2>3, <3>1, WritesKeepContent
    <2>5. ASSUME NEW r \in Req, phase'[r] = "decode" PROVE Pending(r)'
      <3>1. Pending(r)
          BY <1>2, <1>8, <2>5 DEF ContentInv
      <3> QED
          BY <1>1, <1>8, <3>1, PagedTail
    <2>6. Content(text', pages', tree', comp')
        BY <1>2, <2>4
    <2> QED
        BY <2>5, <2>6 DEF ContentInv
  <1> QED
      BY <1>2, <1>6, <1>7, <1>8 DEF PagedStep

LEMMA ExtendKeeps ==
  ASSUME PageInv, NEW n \in Nat \ {0}, NEW batch, IsBatch(batch, n, Req),
         NEW chunks, chunks \in [1 .. n -> Nat \ {0}], NEW last, Extend(batch, chunks, last)
  PROVE  /\ PageInv' /\ WritesUnfinished(text, pages, comp, comp')
         /\ ContentInv => ContentInv'
  <1>1. Types /\ Shape(text, pages, tree) /\ Apart(text, pages, tree)
      BY DEF PageInv
  <1>2. /\ comp' = Written(PlanOfExtend(batch, chunks), BlocksOfExtend(batch, chunks))
        /\ ring' = RingOfExtend(batch, chunks)
        /\ phase' = PhaseOfExtend(batch, last)
        /\ tree' = TreeOfExtend(batch, chunks)
        /\ served' = served /\ id' = id /\ pages' = pages
      BY ExtendIs
  <1>3. /\ \A i \in 1 .. n : ExtendRow(batch, chunks, i)
        /\ \A r \in Req : (\A i \in 1 .. n : batch[i] # r) => text'[r] = text[r]
        /\ text' \in [Req -> Seq(Nat)]
    <2>1. \A i \in 1 .. n : chunks[i] \in Nat \ {0}
        OBVIOUS
    <2> QED
        BY <1>1, <2>1, ExtendText
  <1>4. AreRows(batch, chunks, n)
      BY <1>3 DEF AreRows
  <1>5. ASSUME NEW r \in Req
        PROVE  /\ text'[r] \in Seq(Nat) /\ HasPrefix(text'[r], text[r])
               /\ Len(text'[r]) <= Len(pages[r]) * Page
    <2>1. text'[r] \in Seq(Nat) /\ Len(text[r]) \in Nat
        BY <1>1, <1>3 DEF Types
    <2>2. CASE \A i \in 1 .. n : batch[i] # r
      <3>1. text'[r] = text[r]
          BY <1>3, <2>2
      <3>2. Len(text[r]) <= Len(pages[r]) * Page
          BY <1>1 DEF Shape
      <3> QED
          BY <2>1, <3>1, <3>2 DEF HasPrefix
    <2>3. CASE \E i \in 1 .. n : batch[i] = r
      <3>1. PICK i \in 1 .. n : batch[i] = r
          BY <2>3
      <3>2. HasPrefix(text'[r], text[r]) /\ Len(text'[r]) = Len(text[r]) + chunks[i]
            /\ Len(text[r]) + chunks[i] <= Len(pages[r]) * Page
          BY <1>3, <3>1 DEF ExtendRow, Grown, IsLonger
      <3> QED
          BY <2>1, <3>2
    <2> QED
        BY <2>2, <2>3
  <1>6. Shape(text', pages, tree) /\ Apart(text', pages, tree)
      BY <1>1, <1>5, GrowKeeps
  <1>7. PICK rs \in SUBSET Req : tree' = tree \cup PublishedBy(text', pages, rs)
      BY <1>2, <1>4, <1>6, ExtendTree
  <1>8. PageInv'
    <2>1. phase' \in [Req -> {"free", "prefill", "decode"}]
        BY <1>1, <1>2 DEF Types, PhaseOfExtend
    <2>2. Types'
        BY <1>1, <1>2, <1>3, <2>1 DEF Types
    <2>3. Shape(text', pages, tree') /\ Apart(text', pages, tree')
        BY <1>6, <1>7, PublishKeeps
    <2>4. Shape(text', pages', tree') /\ Apart(text', pages', tree')
        BY <1>2, <2>3
    <2> QED
        BY <2>2, <2>4 DEF PageInv
  <1>9. WritesUnfinished(text, pages, comp, comp')
      BY <1>1, <1>2, <1>4, ExtendWrites
  <1>10. ASSUME ContentInv PROVE ContentInv'
    <2>1. Completes(text, text', pages, comp')
        BY <1>1, <1>2, <1>3, <1>4, ExtendCompletes
    <2>2. Content(text, pages, tree, comp)
        BY <1>10 DEF ContentInv
    <2>3. Content(text', pages, tree, comp')
      <3>1. \A r \in Req : HasPrefix(text'[r], text[r])
          BY <1>5
      <3> QED
          BY <1>1, <1>6, <1>9, <2>1, <2>2, <3>1, WritesKeepContent
    <2>4. Content(text', pages', tree', comp')
      <3>1. Content(text', pages, tree', comp')
          BY <1>6, <1>7, <2>3, PublishKeepsContent
      <3> QED
          BY <1>2, <3>1
    <2>5. ASSUME NEW r \in Req, phase'[r] = "decode" PROVE Pending(r)'
      <3>1. IsIn(batch, r) \/ Pending(r)
          BY <1>2, <1>10, <2>5 DEF PhaseOfExtend, ContentInv
      <3> QED
          BY <1>1, <1>2, <1>3, <1>4, <3>1, ExtendPending
    <2> QED
        BY <2>4, <2>5 DEF ContentInv
  <1> QED
      BY <1>8, <1>9, <1>10

\* The scheduler's steps: they write no block.
LEMMA StartKeeps ==
  ASSUME PageInv, NEW r \in Req, Start(r)
  PROVE  PageInv' /\ comp' = comp /\ (ContentInv => ContentInv')
  <1>1. Types /\ Shape(text, pages, tree) /\ Apart(text, pages, tree)
      BY DEF PageInv
  <1>2. PICK key \in {<<>>} \union {n.key : n \in tree} :
          /\ text' = [text EXCEPT ![r] = key]
          /\ pages' = [pages EXCEPT ![r] = PagesFor(tree, key)]
      BY DEF Start, PagesFor
  <1>3. /\ phase[r] = "free" /\ served' = served + 1
        /\ phase' = [phase EXCEPT ![r] = "prefill"] /\ id' = [id EXCEPT ![r] = served + 1]
        /\ ring' = ring /\ comp' = comp /\ tree' = tree
      BY DEF Start
  <1>4. key \in Seq(Nat) /\ PagesFor(tree, key) \in Seq(1 .. Pages)
      BY <1>1, PagesForMeans
  <1>5. \A q \in Req : /\ text'[q] = IF q = r THEN key ELSE text[q]
                       /\ pages'[q] = IF q = r THEN PagesFor(tree, key) ELSE pages[q]
      BY <1>1, <1>2 DEF Types
  <1>6. Types'
    <2>1. text' \in [Req -> Seq(Nat)]
        BY <1>1, <1>2, <1>4 DEF Types
    <2>2. pages' \in [Req -> Seq(1 .. Pages)]
        BY <1>1, <1>2, <1>4 DEF Types
    <2>3. phase' \in [Req -> {"free", "prefill", "decode"}]
        BY <1>1, <1>3 DEF Types
    <2>4. served' \in Nat /\ id' \in [Req -> Nat]
        BY <1>1, <1>3 DEF Types
    <2> QED
        BY <2>1, <2>2, <2>3, <2>4 DEF Types
  <1>7. /\ Shape(text', pages', tree) /\ Apart(text', pages', tree)
        /\ Content(text, pages, tree, comp) => Content(text', pages', tree, comp)
      BY <1>1, <1>5, AdoptKeeps
  <1>8. PageInv'
    <2>1. Shape(text', pages', tree') /\ Apart(text', pages', tree')
        BY <1>3, <1>7
    <2> QED
        BY <1>6, <2>1 DEF PageInv
  <1>9. ASSUME ContentInv PROVE ContentInv'
    <2>1. Content(text', pages', tree', comp')
        BY <1>3, <1>7, <1>9 DEF ContentInv
    <2>2. ASSUME NEW q \in Req, phase'[q] = "decode" PROVE Pending(q)'
      <3>1. q # r /\ phase[q] = "decode"
          BY <1>1, <1>3, <2>2 DEF Types
      <3>2. Pending(q) /\ text'[q] = text[q]
          BY <1>5, <1>9, <3>1 DEF ContentInv
      <3> QED
          BY <1>3, <3>2 DEF Pending
    <2> QED
        BY <2>1, <2>2 DEF ContentInv
  <1> QED
      BY <1>3, <1>8, <1>9

LEMMA AllocateStep ==
  ASSUME PageInv, NEW r \in Req, Allocate(r)
  PROVE  PageInv' /\ comp' = comp /\ (ContentInv => ContentInv')
  <1>1. Types /\ Shape(text, pages, tree) /\ Apart(text, pages, tree)
      BY DEF PageInv
  <1> DEFINE g == CHOOSE g \in Free : \A h \in Free : g <= h
  <1>2. /\ Free # {} /\ pages' = [pages EXCEPT ![r] = Append(@, g)]
        /\ served' = served /\ phase' = phase /\ id' = id /\ text' = text
        /\ ring' = ring /\ comp' = comp /\ tree' = tree
      BY DEF Allocate
  <1>3. g \in Free
    <2>1. Free \subseteq Nat
        BY PageAssumption DEF Free
    <2>2. \E x \in Free : \A y \in Free : x <= y
        BY <1>2, <2>1, LeastElement
    <2> QED
        BY <2>2
  <1> HIDE DEF g
  <1>4. /\ g \in 1 .. Pages /\ \A n \in tree : n.page # g
        /\ \A q \in Req : \A i \in DOMAIN pages[q] : pages[q][i] # g
    <2>1. g \in 1 .. Pages /\ g \notin TreePages /\ \A q \in Req : g \notin PagesOf(q)
        BY <1>3 DEF Free
    <2> QED
        BY <2>1 DEF TreePages, PagesOf
  <1>5. pages \in [Req -> Seq(1 .. Pages)]
      BY <1>1 DEF Types
  <1>6. /\ Shape(text, pages', tree) /\ Apart(text, pages', tree)
        /\ Content(text, pages, tree, comp) => Content(text, pages', tree, comp)
    <2>1. IsGrant(pages, pages', tree, r, g)
        BY <1>2, <1>4, <1>5 DEF IsGrant
    <2> QED
        BY <1>1, <2>1, AllocateKeeps
  <1>7. pages' \in [Req -> Seq(1 .. Pages)]
    <2>1. Append(pages[r], g) \in Seq(1 .. Pages)
        BY <1>4, <1>5
    <2> QED
        BY <1>2, <1>5, <2>1
  <1>8. PageInv'
    <2>1. Types'
        BY <1>1, <1>2, <1>7 DEF Types
    <2>2. Shape(text', pages', tree') /\ Apart(text', pages', tree')
        BY <1>2, <1>6
    <2> QED
        BY <2>1, <2>2 DEF PageInv
  <1>9. ASSUME ContentInv PROVE ContentInv'
    <2>1. Content(text', pages', tree', comp')
        BY <1>2, <1>6, <1>9 DEF ContentInv
    <2>2. \A q \in Req : phase'[q] = "decode" => Pending(q)'
        BY <1>2, <1>9 DEF ContentInv, Pending
    <2> QED
        BY <2>1, <2>2 DEF ContentInv
  <1> QED
      BY <1>2, <1>8, <1>9

LEMMA FinishKeeps ==
  ASSUME PageInv, NEW r \in Req, Finish(r)
  PROVE  PageInv' /\ comp' = comp /\ (ContentInv => ContentInv')
  <1>1. Types /\ Shape(text, pages, tree) /\ Apart(text, pages, tree)
      BY DEF PageInv
  <1>2. /\ phase' = [phase EXCEPT ![r] = "free"]
        /\ tree' = tree \union Published(pages[r], text[r])
        /\ text' = [text EXCEPT ![r] = <<>>]
        /\ pages' = [pages EXCEPT ![r] = <<>>]
        /\ served' = served /\ id' = id /\ ring' = ring /\ comp' = comp
      BY DEF Finish
  <1>3. tree' = tree \cup PublishedBy(text, pages, {r})
      BY <1>1, <1>2, PublishedIs
  <1>4. {r} \subseteq Req
      OBVIOUS
  <1>5. Shape(text, pages, tree') /\ Apart(text, pages, tree')
      BY <1>1, <1>3, <1>4, PublishKeeps
  <1>6. Content(text, pages, tree, comp) => Content(text, pages, tree', comp)
      BY <1>1, <1>3, <1>4, PublishKeepsContent
  <1>7. \A q \in Req : /\ text'[q] = IF q = r THEN <<>> ELSE text[q]
                       /\ pages'[q] = IF q = r THEN <<>> ELSE pages[q]
      BY <1>1, <1>2 DEF Types
  <1>8. /\ Shape(text', pages', tree') /\ Apart(text', pages', tree')
        /\ Content(text, pages, tree', comp) => Content(text', pages', tree', comp)
      BY <1>5, <1>7, DropKeeps
  <1>9. PageInv'
    <2>1. text' \in [Req -> Seq(Nat)] /\ pages' \in [Req -> Seq(1 .. Pages)]
      <3>1. <<>> \in Seq(Nat) /\ <<>> \in Seq(1 .. Pages)
          OBVIOUS
      <3> QED
          BY <1>1, <1>2, <3>1 DEF Types
    <2>2. phase' \in [Req -> {"free", "prefill", "decode"}]
        BY <1>1, <1>2 DEF Types
    <2>3. Types'
        BY <1>1, <1>2, <2>1, <2>2 DEF Types
    <2> QED
        BY <1>8, <2>3 DEF PageInv
  <1>10. ASSUME ContentInv PROVE ContentInv'
    <2>1. Content(text', pages', tree', comp')
        BY <1>2, <1>6, <1>8, <1>10 DEF ContentInv
    <2>2. ASSUME NEW q \in Req, phase'[q] = "decode" PROVE Pending(q)'
      <3>1. q # r /\ phase[q] = "decode"
          BY <1>1, <1>2, <2>2 DEF Types
      <3>2. Pending(q) /\ text'[q] = text[q]
          BY <1>7, <1>10, <3>1 DEF ContentInv
      <3> QED
          BY <1>2, <3>2 DEF Pending
    <2> QED
        BY <2>1, <2>2 DEF ContentInv
  <1> QED
      BY <1>2, <1>9, <1>10

LEMMA EvictStep ==
  ASSUME PageInv, NEW n \in tree, Evict(n)
  PROVE  PageInv' /\ comp' = comp /\ (ContentInv => ContentInv')
  <1>1. Types /\ Shape(text, pages, tree) /\ Apart(text, pages, tree)
      BY DEF PageInv
  <1>2. /\ \A r \in Req : n.page \notin PagesOf(r)
        /\ \A m \in tree : Len(m.key) > Len(n.key) => SubSeq(m.key, 1, Len(n.key)) # n.key
        /\ tree' = tree \ {n}
        /\ served' = served /\ phase' = phase /\ id' = id /\ text' = text /\ pages' = pages
        /\ ring' = ring /\ comp' = comp
      BY DEF Evict
  <1>3. \A r \in Req : \A i \in DOMAIN pages[r] : pages[r][i] # n.page
      BY <1>2 DEF PagesOf
  <1>4. /\ Shape(text, pages, tree \ {n}) /\ Apart(text, pages, tree \ {n})
        /\ Content(text, pages, tree, comp) => Content(text, pages, tree \ {n}, comp)
      BY <1>1, <1>2, <1>3, EvictKeeps
  <1>5. PageInv'
    <2>1. Types'
        BY <1>1, <1>2 DEF Types
    <2>2. Shape(text', pages', tree') /\ Apart(text', pages', tree')
        BY <1>2, <1>4
    <2> QED
        BY <2>1, <2>2 DEF PageInv
  <1>6. ASSUME ContentInv PROVE ContentInv'
    <2>1. Content(text', pages', tree', comp')
        BY <1>2, <1>4, <1>6 DEF ContentInv
    <2>2. \A q \in Req : phase'[q] = "decode" => Pending(q)'
        BY <1>2, <1>6 DEF ContentInv, Pending
    <2> QED
        BY <2>1, <2>2 DEF ContentInv
  <1> QED
      BY <1>2, <1>5, <1>6

-----------------------------------------------------------------------------
\* One step of the whole.
Step(keeps) ==
  PageInv' /\ (comp' = comp \/ WritesUnfinished(text, pages, comp, comp'))
    /\ (keeps /\ ContentInv => ContentInv')

LEMMA ExtendBatch ==
  ASSUME PageInv, NEW batch \in Batches(InPhase("prefill")),
         NEW chunks \in [DOMAIN batch -> 1 .. MaxLen], NEW last \in [DOMAIN batch -> BOOLEAN],
         Extend(batch, chunks, last)
  PROVE  Step(TRUE)
  <1>1. InPhase("prefill") \subseteq Req
      BY DEF InPhase
  <1>2. PICK n \in Nat \ {0} : IsBatch(batch, n, InPhase("prefill"))
      BY <1>1, BatchIs
  <1>3. IsBatch(batch, n, Req) /\ DOMAIN batch = 1 .. n
      BY <1>1, <1>2 DEF IsBatch
  <1>4. chunks \in [1 .. n -> Nat \ {0}]
    <2>1. 1 .. MaxLen \subseteq Nat \ {0}
        BY PageAssumption
    <2> QED
        BY <1>3, <2>1
  <1>5. /\ PageInv' /\ WritesUnfinished(text, pages, comp, comp')
        /\ ContentInv => ContentInv'
      BY <1>3, <1>4, ExtendKeeps
  <1> QED
      BY <1>5 DEF Step

LEMMA PagedBatch ==
  ASSUME PageInv, NEW batch \in Batches(InPhase("decode")), NEW padding \in 0 .. MaxPadding,
         NEW graph \in BOOLEAN, NEW width \in Nat \ {0}, NEW kept \in [DOMAIN batch -> 1 .. width],
         PagedForward(batch, width, kept, padding, graph)
  PROVE  Step(width + Ratio <= Stride + 1) /\ tree' = tree
  <1>1. InPhase("decode") \subseteq Req
      BY DEF InPhase
  <1>2. PICK n \in Nat \ {0} : IsBatch(batch, n, InPhase("decode"))
      BY <1>1, BatchIs
  <1>3. IsBatch(batch, n, Req) /\ DOMAIN batch = 1 .. n
      BY <1>1, <1>2 DEF IsBatch
  <1>4. (\A i \in 1 .. n : kept[i] \in 1 .. width) /\ padding \in Nat
      BY <1>3, PageAssumption
  <1>5. \A i \in 1 .. n : phase[batch[i]] = "decode"
      BY <1>2 DEF IsBatch, InPhase
  <1>6. PagedStep(batch, n, width)
      BY <1>3, <1>4, PagedKeeps
  <1> QED
      BY <1>5, <1>6 DEF Step, PagedStep

\* There is no verification, or the ring is widened: what the width check takes for granted
\* when it accepts a window of Ratio drafts on a ring of Ratio cells.
WindowFits == DraftTokens = 1 \/ Stride > Ratio

\* The width check then leaves room for the tail and the window.
LEMMA WidthIs ==
  ASSUME WindowFits, DraftTokens <= DraftLimit
  PROVE  DraftTokens + Ratio <= Stride + 1
  <1>1. Stride \in Nat \ {0} /\ Ratio \in Nat /\ Ratio <= Stride /\ DraftTokens \in Nat
      BY StrideIs, RatioAssumption, PageAssumption
  <1>0. Stride > Ratio \/ DraftTokens = 1
      BY DEF WindowFits
  <1>2. CASE Stride > Ratio
    <2>1. DraftLimit = Stride - Ratio
        BY <1>2 DEF DraftLimit
    <2> DEFINE s == Stride  f == DraftLimit
    <2>2. s \in Nat /\ f = s - Ratio /\ DraftTokens <= f /\ Ratio <= s
        BY <1>1, <2>1
    <2> HIDE DEF s, f
    <2>3. DraftTokens + Ratio <= s + 1
        BY <1>1, <2>2
    <2> QED
        BY <2>3 DEF s
  <1>3. CASE DraftTokens = 1
      BY <1>1, <1>3
  <1> QED
      BY <1>0, <1>2, <1>3

\* Every step keeps the pages apart; it keeps the contents where the window fits.
LEMMA NextSteps ==
  ASSUME PageInv, [QsaNext]_qsaVars
  PROVE  Step(WindowFits)
  <1> DEFINE K == WindowFits
  <1>1. CASE UNCHANGED qsaVars
    <2>1. Types' /\ Shape(text', pages', tree') /\ Apart(text', pages', tree')
        BY <1>1 DEF qsaVars, PageInv, Types
    <2>2. ContentInv => ContentInv'
        BY <1>1 DEF qsaVars, ContentInv, Pending
    <2>3. comp' = comp
        BY <1>1 DEF qsaVars
    <2> HIDE DEF K
    <2> QED
        BY <2>1, <2>2, <2>3 DEF PageInv, Step
  <1>2. ASSUME NEW batch \in Batches(InPhase("prefill")),
               NEW chunks \in [DOMAIN batch -> 1 .. MaxLen], NEW last \in [DOMAIN batch -> BOOLEAN],
               Extend(batch, chunks, last)
        PROVE  Step(K)
    <2>1. Step(TRUE)
        BY <1>2, ExtendBatch
    <2> HIDE DEF K
    <2> QED
        BY <2>1 DEF Step
  <1>3. ASSUME NEW batch \in Batches(InPhase("decode")), NEW padding \in 0 .. MaxPadding,
               NEW graph \in BOOLEAN, Decode(batch, padding, graph)
        PROVE  Step(K)
    <2> DEFINE kept == [i \in DOMAIN batch |-> 1]
    <2>1. PagedForward(batch, 1, kept, padding, graph)
        BY <1>3 DEF Decode
    <2>2. kept \in [DOMAIN batch -> 1 .. 1]
        OBVIOUS
    <2>3. 1 + Ratio <= Stride + 1
      <3>1. Stride \in Nat \ {0} /\ Ratio \in Nat /\ Ratio <= Stride
          BY StrideIs, RatioAssumption
      <3> DEFINE s == Stride
      <3>2. s \in Nat /\ Ratio <= s
          BY <3>1
      <3> HIDE DEF s
      <3>3. 1 + Ratio <= s + 1
          BY <3>1, <3>2
      <3> QED
          BY <3>3 DEF s
    <2> HIDE DEF kept
    <2>4. 1 \in Nat \ {0}
        OBVIOUS
    <2>5. Step(1 + Ratio <= Stride + 1)
        BY <2>1, <2>2, <2>4, PagedBatch
    <2> HIDE DEF K
    <2> QED
        BY <2>3, <2>5 DEF Step
  <1>4. ASSUME NEW batch \in Batches(InPhase("decode")), NEW padding \in 0 .. MaxPadding,
               NEW graph \in BOOLEAN, NEW kept \in [DOMAIN batch -> 1 .. DraftTokens],
               Verify(batch, kept, padding, graph)
        PROVE  Step(K)
    <2>1. PagedForward(batch, DraftTokens, kept, padding, graph) /\ DraftTokens <= DraftLimit
        BY <1>4 DEF Verify
    <2>2. DraftTokens \in Nat \ {0}
        BY PageAssumption
    <2>3. Step(DraftTokens + Ratio <= Stride + 1)
        BY <2>1, <2>2, PagedBatch
    <2>4. K => DraftTokens + Ratio <= Stride + 1
        BY <2>1, WidthIs
    <2> HIDE DEF K
    <2> QED
        BY <2>3, <2>4 DEF Step
  <1>5. ASSUME NEW r \in Req, Start(r) \/ Allocate(r) \/ Finish(r) PROVE Step(K)
    <2>1. PageInv' /\ comp' = comp /\ (ContentInv => ContentInv')
        BY <1>5, StartKeeps, AllocateStep, FinishKeeps
    <2> HIDE DEF K
    <2> QED
        BY <2>1 DEF Step
  <1>6. ASSUME NEW n \in tree, Evict(n) PROVE Step(K)
    <2>1. PageInv' /\ comp' = comp /\ (ContentInv => ContentInv')
        BY <1>6, EvictStep
    <2> HIDE DEF K
    <2> QED
        BY <2>1 DEF Step
  <1> HIDE DEF K
  <1> SUFFICES Step(K)
      BY DEF K
  <1>7. CASE QsaNext
    <2>1. CASE \E batch \in Batches(InPhase("prefill")) :
            \E chunks \in [DOMAIN batch -> 1 .. MaxLen], last \in [DOMAIN batch -> BOOLEAN] :
              Extend(batch, chunks, last)
        BY <1>2, <2>1
    <2>2. CASE \E batch \in Batches(InPhase("decode")), padding \in 0 .. MaxPadding :
            \E graph \in BOOLEAN :
              \/ Decode(batch, padding, graph)
              \/ \E kept \in [DOMAIN batch -> 1 .. DraftTokens] :
                   Verify(batch, kept, padding, graph)
      <3>1. PICK batch \in Batches(InPhase("decode")), padding \in 0 .. MaxPadding :
            \E graph \in BOOLEAN :
              \/ Decode(batch, padding, graph)
              \/ \E kept \in [DOMAIN batch -> 1 .. DraftTokens] :
                   Verify(batch, kept, padding, graph)
          BY <2>2
      <3>2. PICK graph \in BOOLEAN :
              \/ Decode(batch, padding, graph)
              \/ \E kept \in [DOMAIN batch -> 1 .. DraftTokens] :
                   Verify(batch, kept, padding, graph)
          BY <3>1
      <3>3. CASE Decode(batch, padding, graph)
          BY <1>3, <3>3
      <3>4. CASE \E kept \in [DOMAIN batch -> 1 .. DraftTokens] :
                   Verify(batch, kept, padding, graph)
          BY <1>4, <3>4
      <3> QED
          BY <3>2, <3>3, <3>4
    <2>3. CASE \E r \in Req : Start(r) \/ Allocate(r) \/ Finish(r)
        BY <1>5, <2>3
    <2>4. CASE \E n \in tree : Evict(n)
        BY <1>6, <2>4
    <2> QED
        BY <1>7, <2>1, <2>2, <2>3, <2>4 DEF QsaNext
  <1> QED
      BY <1>1, <1>7 DEF K

LEMMA InitHolds == QsaInit => PageInv /\ ContentInv
  <1> SUFFICES ASSUME QsaInit PROVE PageInv /\ ContentInv
      OBVIOUS
  <1>1. \A r \in Req : text[r] = <<>> /\ pages[r] = <<>> /\ phase[r] = "free"
      BY DEF QsaInit
  <1>2. tree = {}
      BY DEF QsaInit
  <1>3. Types
    <2>1. <<>> \in Seq(Nat) /\ <<>> \in Seq(1 .. Pages)
        OBVIOUS
    <2> QED
        BY <2>1 DEF QsaInit, Types
  <1>4. Shape(text, pages, tree)
    <2>1. <<>> \in Seq(Nat) /\ <<>> \in Seq(1 .. Pages) /\ Len(<<>>) <= Len(<<>>) * Page
        BY PageAssumption
    <2> QED
        BY <1>1, <1>2, <2>1 DEF Shape
  <1>5. Apart(text, pages, tree)
      BY <1>1, <1>2 DEF Apart, PagesDiffer, KeysArePrefixes, TreeIsClosed
  <1>6. Content(text, pages, tree, comp)
    <2>1. ASSUME NEW r \in Req, NEW b \in Nat PROVE ~ ((b + 1) * Ratio <= Len(text[r]))
      <3>1. b * Ratio \in Nat /\ (b + 1) * Ratio = b * Ratio + Ratio /\ Ratio \in Nat \ {0}
          BY RatioAssumption
      <3>2. Len(text[r]) = 0
          BY <1>1
      <3> DEFINE x == b * Ratio
      <3>3. x \in Nat
          BY <3>1
      <3> HIDE DEF x
      <3>4. ~ (x + Ratio <= 0)
          BY <3>1, <3>3
      <3> QED
          BY <3>1, <3>2, <3>4 DEF x
    <2>2. Visible(text, pages, comp)
        BY <2>1 DEF Visible
    <2> QED
        BY <1>2, <2>2 DEF Content, TreeBlocks
  <1>7. \A r \in Req : phase[r] = "decode" => Pending(r)
      BY <1>1
  <1> QED
      BY <1>3, <1>4, <1>5, <1>6, <1>7 DEF PageInv, ContentInv

\* Two requests share a page only through the radix tree, and there it holds the
\* same prefix for both (PageInv: the allocator, the prefix match of a new request
\* and eviction, as the backend relies on them), for every window.
THEOREM PagesStayApart == QsaSpec => []PageInv
  <1>1. QsaInit => PageInv
      BY InitHolds
  <1>2. PageInv /\ [QsaNext]_qsaVars => PageInv'
      BY NextSteps DEF Step
  <1> QED
      BY <1>1, <1>2, PTL DEF QsaSpec

\* No forward writes a compressed block of a page that is in the radix tree, whatever
\* the window, the padding and the plan: the write plans of _qsa_build_write_plan
\* and of the graph replay name only blocks that end after their request's text.
THEOREM SharedBlocksAreNeverWritten == QsaSpec => SharedBlocksStay
  <1>1. PageInv /\ [QsaNext]_qsaVars =>
          [\A n \in tree \intersect tree' :
             \A s \in {s \in Slots : (s * Ratio) \div Page = n.page} : comp'[s] = comp[s]]_qsaVars
    <2> SUFFICES ASSUME PageInv, [QsaNext]_qsaVars
                 PROVE  \A n \in tree \intersect tree' :
                          \A s \in {s \in Slots : (s * Ratio) \div Page = n.page} : comp'[s] = comp[s]
        OBVIOUS
    <2>1. comp' = comp \/ WritesUnfinished(text, pages, comp, comp')
        BY NextSteps DEF Step
    <2> SUFFICES ASSUME NEW n \in tree, NEW s \in Slots, (s * Ratio) \div Page = n.page
                 PROVE  comp'[s] = comp[s]
        OBVIOUS
    <2>2. s \in Nat
        BY DEF Slots
    <2>3. s \div PerPage = n.page
        BY <2>2, PageOfSlot
    <2>4. CASE WritesUnfinished(text, pages, comp, comp')
        BY <2>3, <2>4, WritesSpareTheTree DEF PageInv
    <2> QED
        BY <2>1, <2>4
  <1> QED
      BY <1>1, PagesStayApart, PTL DEF QsaSpec, SharedBlocksStay

\* Where the window fits the ring, the compressed keys and the ring hold what the
\* requests' tokens say.
THEOREM ContentsStay ==
  ASSUME WindowFits
  PROVE  QsaSpec => [](PageInv /\ ContentInv)
  <1> DEFINE Inv == PageInv /\ ContentInv
  <1>1. QsaInit => Inv
      BY InitHolds
  <1>2. Inv /\ [QsaNext]_qsaVars => Inv'
      BY NextSteps DEF Step
  <1> HIDE DEF Inv
  <1>3. QsaSpec => []Inv
      BY <1>1, <1>2, PTL DEF QsaSpec
  <1> QED
      BY <1>3 DEF Inv

\* A request sees only compressed blocks of its own tokens, in any batch, after any
\* rejected drafts, page reuse and prefix sharing (_qsa_write_plan and the
\* compressed lengths of the decode view), where the window fits.
THEOREM VisibleBlocksAreExact ==
  ASSUME WindowFits
  PROVE  QsaSpec => []VisibleBlocksAreOwn
  <1>1. PageInv /\ ContentInv => VisibleBlocksAreOwn
    <2> SUFFICES ASSUME PageInv, ContentInv, NEW r \in Req, NEW b \in 0 .. Len(text[r]) \div Ratio - 1
                 PROVE  comp[Table(pages[r])[b * Ratio + 1] \div Ratio] = BlockOf(text[r], b)
        BY DEF VisibleBlocksAreOwn
    <2> DEFINE l == Len(text[r])  e == l \div Ratio  pg == pages[r]
    <2>1. l \in Nat /\ pg \in Seq(1 .. Pages) /\ Shape(text, pages, tree)
          /\ Visible(text, pages, comp)
        BY DEF PageInv, ContentInv, Content, Types
    <2> HIDE DEF l
    <2>2. e \in Nat /\ e * Ratio <= l
        BY <2>1, RatioAssumption, Division
    <2>3. b \in 0 .. e - 1
        BY DEF l
    <2> HIDE DEF e
    <2>4. b \in Nat /\ b + 1 <= e
        BY <2>2, <2>3
    <2>5. (b + 1) * Ratio <= l
      <3>1. (b + 1) * Ratio <= e * Ratio /\ (b + 1) * Ratio \in Nat /\ e * Ratio \in Nat
        <4>1. Ratio \in Nat /\ b + 1 \in Nat
            BY <2>4, RatioAssumption
        <4>2. (b + 1) * Ratio <= e * Ratio
            BY <2>2, <2>4, <4>1, Monotone
        <4> QED
            BY <2>2, <4>1, <4>2
      <3> QED
          BY <2>1, <2>2, <3>1
    <2>6. b < Len(pg) * PerPage
        BY <2>1, <2>4, <2>5, FinishedHasSlot DEF l
    <2>7. comp[SlotAt(pg, b)] = BlockOf(text[r], b)
        BY <2>1, <2>4, <2>5 DEF Visible, l
    <2> HIDE DEF pg
    <2>8. 0 \in Offsets
        BY RatioAssumption DEF Offsets
    <2>9. Table(pg)[b * Ratio + 0 + 1] \div Ratio = SlotAt(pg, b)
        BY <2>1, <2>4, <2>6, <2>8, TableSlot
    <2>10. b * Ratio + 0 + 1 = b * Ratio + 1
      <3>1. Ratio \in Nat /\ b * Ratio \in Nat
          BY <2>4, RatioAssumption
      <3> QED
          BY <3>1
    <2> QED
        BY <2>7, <2>9, <2>10 DEF pg
  <1> QED
      BY <1>1, ContentsStay, PTL

\* The tokens of a decoding request's unfinished block are in its ring, whatever was
\* verified and rejected (_require_chain_speculation), where the window fits.
THEOREM PendingTailStays ==
  ASSUME WindowFits
  PROVE  QsaSpec => []PendingTailIsIntact
  <1>1. PageInv /\ ContentInv => PendingTailIsIntact
      BY DEF ContentInv, PendingTailIsIntact, InPhase, Pending
  <1> QED
      BY <1>1, ContentsStay, PTL
=============================================================================
