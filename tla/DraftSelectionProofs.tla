------------------------- MODULE DraftSelectionProofs -------------------------
(***************************************************************************)
(* The shared selection for any number of requests, pool rows, draft steps *)
(* and padded rows: a draft step reads its own request's selection, and a  *)
(* replay is laid out from the lengths that were staged for it.  The       *)
(* invariant follows a selection along the stream: from the operation that *)
(* stores it to the draft that looks it up, with nothing in between that   *)
(* concerns its request or its pool row.                                   *)
(***************************************************************************)
EXTENDS DraftSelection, Integers, FiniteSetTheorems, SequenceTheorems, WellFoundedInduction, TLAPS

-----------------------------------------------------------------------------
(* Least numbers and sums.                                                 *)

\* A set of naturals has a least element.
LEMMA LeastElement ==
  ASSUME NEW T, T \subseteq Nat, T # {}
  PROVE  \E x \in T : \A y \in T : x <= y
  <1> DEFINE R == {ss \in Nat \X Nat : ss[1] < ss[2]}
  <1>1. IsWellFoundedOn(R, Nat)
      BY NatLessThanWellFounded DEF OpToRel
  <1>2. \E x \in T : \A y \in T : ~ (<<y, x>> \in R)
    <2> HIDE DEF R
    <2> QED
        BY <1>1, WFMin
  <1>3. \A x, y \in T : ~ (<<y, x>> \in R) => x <= y
      OBVIOUS
  <1>4. QED
      BY <1>2, <1>3

\* Induction up to n, over a set.
LEMMA Climb ==
  ASSUME NEW n \in Nat, NEW S, 0 \in S, \A i \in 0 .. n - 1 : i \in S => i + 1 \in S
  PROVE  \A i \in 0 .. n : i \in S
  <1> DEFINE T == {i \in 0 .. n : i \notin S}
  <1> SUFFICES ASSUME T # {} PROVE FALSE
      OBVIOUS
  <1>1. PICK x \in T : \A y \in T : x <= y
    <2>1. T \subseteq Nat
        OBVIOUS
    <2> HIDE DEF T
    <2> QED
        BY <2>1, LeastElement
  <1>2. x \in 1 .. n
      OBVIOUS
  <1>3. x - 1 \in 0 .. n - 1 /\ x - 1 \notin T
      BY <1>1, <1>2
  <1>4. QED
      BY <1>2, <1>3

\* t[i] is the sum of the first i of n counts.
IsSums(t, c, n) ==
  /\ t \in [0 .. n -> Nat]
  /\ t[0] = 0
  /\ \A i \in 1 .. n : t[i] = t[i - 1] + c[i]

LEMMA SumsAreSums ==
  ASSUME NEW n \in Nat, NEW c, c \in [1 .. n -> Nat], Len(c) = n
  PROVE  IsSums(CumSum(c), c, n)
  <1> DEFINE Is(t, k) == t = [i \in 0 .. k |-> IF i = 0 THEN 0 ELSE t[i - 1] + c[i]]
             S == {k \in 0 .. n : \E t \in [0 .. k -> Nat] : Is(t, k)}
  <1>1. 0 \in S
    <2> DEFINE t == [i \in 0 .. 0 |-> 0]
    <2>1. t \in [0 .. 0 -> Nat] /\ Is(t, 0)
        OBVIOUS
    <2> HIDE DEF t, Is
    <2> QED
        BY <2>1
  <1>2. ASSUME NEW k \in 0 .. n - 1, k \in S PROVE k + 1 \in S
    <2>1. PICK t \in [0 .. k -> Nat] : Is(t, k)
        BY <1>2
    <2> DEFINE u == [i \in 0 .. k + 1 |-> IF i = k + 1 THEN t[k] + c[k + 1] ELSE t[i]]
    <2>a. ASSUME NEW i \in 0 .. k + 1 PROVE (IF i = k + 1 THEN t[k] + c[k + 1] ELSE t[i]) \in Nat
      <3>1. t[k] \in Nat /\ c[k + 1] \in Nat
          OBVIOUS
      <3>2. i # k + 1 => i \in 0 .. k
          OBVIOUS
      <3> QED
          BY <3>1, <3>2
    <2>2. u \in [0 .. k + 1 -> Nat]
        BY <2>a
    <2>3. ASSUME NEW i \in 0 .. k + 1
          PROVE  u[i] = IF i = 0 THEN 0 ELSE u[i - 1] + c[i]
      <3>1. CASE i = k + 1
          BY <3>1
      <3>2. CASE i \in 0 .. k
        <4>1. t[i] = IF i = 0 THEN 0 ELSE t[i - 1] + c[i]
            BY <2>1, <3>2
        <4> QED
            BY <3>2, <4>1
      <3> QED
          BY <3>1, <3>2
    <2>4. Is(u, k + 1)
      <3> HIDE DEF u
      <3>1. u = [i \in 0 .. k + 1 |-> u[i]]
          BY <2>2
      <3> QED
          BY <3>1, <2>3
    <2>5. \E t2 \in [0 .. k + 1 -> Nat] : Is(t2, k + 1)
      <3> HIDE DEF u, Is
      <3> QED
          BY <2>2, <2>4
    <2>6. k + 1 \in 0 .. n
        OBVIOUS
    <2> HIDE DEF Is
    <2> QED
        BY <2>5, <2>6
  <1>3. n \in S
    <2> HIDE DEF S
    <2>1. \A i \in 0 .. n : i \in S
        BY <1>1, <1>2, Climb
    <2> QED
        BY <2>1
  <1>4. PICK f \in [0 .. n -> Nat] : Is(f, n)
      BY <1>3
  <1>5. CumSum(c) = CHOOSE t : Is(t, n)
      BY DEF CumSum
  <1>6. Is(CumSum(c), n)
    <2> HIDE DEF Is
    <2> QED
        BY <1>4, <1>5
  <1> DEFINE s == CumSum(c)
  <1>7. s = [i \in 0 .. n |-> IF i = 0 THEN 0 ELSE s[i - 1] + c[i]]
      BY <1>6
  <1> HIDE DEF s
  <1>8. s[0] = 0 /\ \A i \in 1 .. n : s[i] = s[i - 1] + c[i]
      BY <1>7
  <1>9. \A i \in 0 .. n : s[i] \in Nat
    <2> DEFINE N == {i \in 0 .. n : s[i] \in Nat}
    <2>1. 0 \in N /\ \A i \in 0 .. n - 1 : i \in N => i + 1 \in N
      <3>1. \A i \in 0 .. n - 1 : i + 1 \in 1 .. n /\ s[i + 1] = s[i] + c[i + 1] /\ c[i + 1] \in Nat
          BY <1>8
      <3>2. 0 \in N
          BY <1>8
      <3>3. ASSUME NEW i \in 0 .. n - 1, i \in N PROVE i + 1 \in N
        <4>1. i + 1 \in 0 .. n /\ s[i + 1] = s[i] + c[i + 1] /\ c[i + 1] \in Nat
            BY <3>1
        <4>2. s[i] \in Nat
            BY <3>3
        <4>3. s[i + 1] \in Nat
            BY <4>1, <4>2
        <4> QED
            BY <4>1, <4>3
      <3> HIDE DEF N
      <3> QED
          BY <3>2, <3>3
    <2> HIDE DEF N
    <2>2. \A i \in 0 .. n : i \in N
        BY <2>1, Climb
    <2> QED
        BY <2>2 DEF N
  <1>10. s \in [0 .. n -> Nat]
      BY <1>7, <1>9
  <1> QED
      BY <1>8, <1>10 DEF IsSums, s

LEMMA SumsRise ==
  ASSUME NEW n \in Nat, NEW t, NEW c, c \in [1 .. n -> Nat], IsSums(t, c, n),
         NEW i \in 0 .. n, NEW j \in i .. n
  PROVE  t[i] <= t[j]
  <1> DEFINE S == {k \in 0 .. n : k <= i \/ t[i] <= t[k]}
  <1>1. \A k \in 0 .. n - 1 : t[k] \in Nat /\ t[k + 1] = t[k] + c[k + 1] /\ c[k + 1] \in Nat
    <2>1. \A k \in 0 .. n - 1 : k + 1 \in 1 .. n /\ (k + 1) - 1 = k
        OBVIOUS
    <2> QED
        BY <2>1 DEF IsSums
  <1>2. t[i] \in Nat
      BY DEF IsSums
  <1>3. 0 \in S
      OBVIOUS
  <1>4. ASSUME NEW k \in 0 .. n - 1, k \in S PROVE k + 1 \in S
    <2>1. CASE k = i
        BY <1>1, <1>2, <2>1
    <2>2. CASE k # i
        BY <1>1, <1>2, <1>4, <2>2
    <2> QED
        BY <2>1, <2>2
  <1>5. j \in S
    <2> HIDE DEF S
    <2>1. \A k \in 0 .. n : k \in S
        BY <1>3, <1>4, Climb
    <2> QED
        BY <2>1
  <1> QED
      BY <1>5, <1>2

-----------------------------------------------------------------------------
(* Sequences put one after another.                                        *)

\* n sequences of elements of S, of the lengths c with the sums t.
IsRagged(seqs, S, c, t, n) ==
  /\ Len(seqs) = n /\ c \in [1 .. n -> Nat] /\ IsSums(t, c, n)
  /\ \A i \in 1 .. n : seqs[i] \in Seq(S) /\ Len(seqs[i]) = c[i]

IsPacked(cat, seqs, S, c, t, n) ==
  /\ cat \in Seq(S) /\ Len(cat) = t[n]
  /\ \A i \in 1 .. n : \A k \in 1 .. c[i] : cat[t[i - 1] + k] = seqs[i][k]

AreSeqs(seqs, S, n) == Len(seqs) = n /\ \A i \in 1 .. n : seqs[i] \in Seq(S)

ArePartials(f, seqs, n) ==
  FlattenSeq(seqs) = f[n] /\ f[1] = seqs[1] /\ \A i \in 2 .. n : f[i] = f[i - 1] \o seqs[i]

\* The partial concatenations of a nonempty sequence of sequences.
LEMMA FlattenUnfolds ==
  ASSUME NEW n \in Nat \ {0}, NEW S, NEW seqs, AreSeqs(seqs, S, n)
  PROVE  \E f : ArePartials(f, seqs, n)
  <1>0. Len(seqs) = n /\ \A i \in 1 .. n : seqs[i] \in Seq(S)
      BY DEF AreSeqs
  <1> USE <1>0
  <1> DEFINE Is(f, k) == f = [i \in 1 .. k |-> IF i = 1 THEN seqs[i] ELSE f[i - 1] \o seqs[i]]
             T == {k \in 0 .. n - 1 : \E f \in [1 .. k + 1 -> Seq(S)] : Is(f, k + 1)}
  <1>1. 0 \in T
    <2> DEFINE f == [i \in 1 .. 1 |-> seqs[1]]
    <2>1. f \in [1 .. 0 + 1 -> Seq(S)] /\ Is(f, 0 + 1)
        OBVIOUS
    <2> HIDE DEF f, Is
    <2> QED
        BY <2>1
  <1>2. ASSUME NEW k \in 0 .. (n - 1) - 1, k \in T PROVE k + 1 \in T
    <2>1. PICK f \in [1 .. k + 1 -> Seq(S)] : Is(f, k + 1)
        BY <1>2
    <2> DEFINE m == k + 2
               u == [i \in 1 .. m |-> IF i = m THEN f[k + 1] \o seqs[m] ELSE f[i]]
    <2>a. m \in 2 .. n /\ k + 1 \in 1 .. n /\ m = (k + 1) + 1 /\ m - 1 = k + 1
        OBVIOUS
    <2>2. u \in [1 .. m -> Seq(S)]
      <3>1. f[k + 1] \in Seq(S) /\ seqs[m] \in Seq(S)
          OBVIOUS
      <3>2. f[k + 1] \o seqs[m] \in Seq(S)
          BY <3>1, ConcatProperties
      <3>3. \A i \in 1 .. m : i # m => f[i] \in Seq(S)
          OBVIOUS
      <3> QED
          BY <3>2, <3>3
    <2>b. \A i \in 1 .. m : u[i] = IF i = m THEN f[k + 1] \o seqs[m] ELSE f[i]
      <3> HIDE DEF m, Is
      <3> QED
          OBVIOUS
    <2>3. ASSUME NEW i \in 1 .. m
          PROVE  u[i] = IF i = 1 THEN seqs[i] ELSE u[i - 1] \o seqs[i]
      <3>1. CASE i = m
        <4>0. m \in 1 .. m /\ k + 1 \in 1 .. m /\ k + 1 # m /\ m # 1
            BY <2>a
        <4>1. u[m] = f[k + 1] \o seqs[m] /\ u[k + 1] = f[k + 1]
          <5> HIDE DEF m, Is, u
          <5> QED
              BY <4>0, <2>b
        <4> HIDE DEF u, Is, m
        <4>2. i # 1 /\ i - 1 = k + 1
            BY <3>1, <2>a
        <4> QED
            BY <3>1, <4>1, <4>2
      <3>2. CASE i \in 1 .. k + 1
        <4>1. f[i] = IF i = 1 THEN seqs[i] ELSE f[i - 1] \o seqs[i]
            BY <2>1, <3>2
        <4>0. i \in 1 .. m /\ i # m /\ (i # 1 => i - 1 \in 1 .. m /\ i - 1 # m)
            BY <2>a, <3>2
        <4>2. u[i] = f[i] /\ (i # 1 => u[i - 1] = f[i - 1])
          <5> HIDE DEF m, Is, u
          <5> QED
              BY <4>0, <2>b
        <4> HIDE DEF u, Is
        <4> QED
            BY <4>1, <4>2
      <3> QED
          BY <3>1, <3>2
    <2>4. Is(u, m)
      <3> HIDE DEF u
      <3>1. u = [i \in 1 .. m |-> u[i]]
          BY <2>2
      <3> QED
          BY <3>1, <2>3
    <2>5. \E u2 \in [1 .. m -> Seq(S)] : Is(u2, m)
      <3> HIDE DEF u, Is
      <3> QED
          BY <2>2, <2>4
    <2>6. k + 1 \in 0 .. n - 1
        OBVIOUS
    <2> HIDE DEF Is
    <2> QED
        BY <2>5, <2>6, <2>a
  <1>3. n - 1 \in T
    <2> HIDE DEF T
    <2>1. n - 1 \in Nat
        OBVIOUS
    <2>2. \A i \in 0 .. (n - 1) - 1 : i \in T => i + 1 \in T
        BY <1>2
    <2>3. \A i \in 0 .. n - 1 : i \in T
        BY ONLY <1>1, <2>1, <2>2, Climb
    <2>4. n - 1 \in 0 .. n - 1
        OBVIOUS
    <2> QED
        BY <2>3, <2>4
  <1>4. PICK g \in [1 .. n -> Seq(S)] : Is(g, n)
    <2>1. (n - 1) + 1 = n
        OBVIOUS
    <2>2. \E g \in [1 .. (n - 1) + 1 -> Seq(S)] : Is(g, (n - 1) + 1)
        BY <1>3
    <2> HIDE DEF Is
    <2> QED
        BY <2>1, <2>2
  <1> DEFINE f == CHOOSE f : Is(f, n)
  <1>5. FlattenSeq(seqs) = f[n]
      BY DEF FlattenSeq
  <1>6. Is(f, n)
    <2> HIDE DEF Is
    <2> QED
        BY <1>4
  <1>7. f = [i \in 1 .. n |-> IF i = 1 THEN seqs[i] ELSE f[i - 1] \o seqs[i]]
      BY <1>6
  <1> HIDE DEF f, Is
  <1>8. \A i \in 1 .. n : f[i] = IF i = 1 THEN seqs[i] ELSE f[i - 1] \o seqs[i]
      BY <1>7, Zenon
  <1>9. 1 \in 1 .. n /\ \A i \in 2 .. n : i \in 1 .. n /\ i # 1
      OBVIOUS
  <1>10. f[1] = seqs[1] /\ \A i \in 2 .. n : f[i] = f[i - 1] \o seqs[i]
      BY <1>8, <1>9, Zenon
  <1>11. ArePartials(f, seqs, n)
      BY <1>5, <1>10 DEF ArePartials
  <1> QED
      BY <1>11

LEMMA FlattenIs ==
  ASSUME NEW n \in Nat \ {0}, NEW S, NEW seqs, NEW c, NEW t, IsRagged(seqs, S, c, t, n)
  PROVE  IsPacked(FlattenSeq(seqs), seqs, S, c, t, n)
  <1>0. /\ Len(seqs) = n /\ c \in [1 .. n -> Nat] /\ IsSums(t, c, n)
        /\ \A i \in 1 .. n : seqs[i] \in Seq(S) /\ Len(seqs[i]) = c[i]
      BY DEF IsRagged
  <1>b. PICK g : ArePartials(g, seqs, n)
    <2>1. AreSeqs(seqs, S, n)
        BY <1>0 DEF AreSeqs
    <2> QED
        BY <2>1, FlattenUnfolds
  <1>a. /\ FlattenSeq(seqs) = g[n] /\ g[1] = seqs[1]
        /\ \A i \in 2 .. n : g[i] = g[i - 1] \o seqs[i]
      BY <1>b DEF ArePartials
  <1> DEFINE f == [i \in 0 .. n |-> IF i = 0 THEN <<>> ELSE g[i]]
  <1>5. FlattenSeq(seqs) = f[n]
      BY <1>a
  <1>8. f[0] = <<>> /\ \A i \in 1 .. n : f[i] = f[i - 1] \o seqs[i]
    <2>1. f[0] = <<>> /\ f[1] = seqs[1]
        BY <1>a
    <2>2. seqs[1] \in Seq(S) /\ <<>> \o seqs[1] = seqs[1]
      <3>1. seqs[1] \in Seq(S)
          BY <1>0
      <3> QED
          BY <3>1, ConcatEmptySeq
    <2>3. ASSUME NEW i \in 2 .. n PROVE f[i] = f[i - 1] \o seqs[i]
      <3>1. f[i] = g[i] /\ f[i - 1] = g[i - 1]
          OBVIOUS
      <3> HIDE DEF f
      <3> QED
          BY <1>a, <3>1
    <2>4. \A i \in 1 .. n : i = 1 \/ i \in 2 .. n
        OBVIOUS
    <2> HIDE DEF f
    <2>5. f[1] = f[1 - 1] \o seqs[1]
      <3>1. f[1 - 1] = <<>>
        <4>1. 1 - 1 = 0
            OBVIOUS
        <4> QED
            BY <2>1, <4>1
      <3> QED
          BY <2>1, <2>2, <3>1
    <2> QED
        BY <2>1, <2>3, <2>4, <2>5
  <1> HIDE DEF f
  <1> DEFINE Good(j) == /\ f[j] \in Seq(S) /\ Len(f[j]) = t[j]
                        /\ \A i \in 1 .. j : \A k \in 1 .. c[i] : f[j][t[i - 1] + k] = seqs[i][k]
             G == {j \in 0 .. n : Good(j)}
  <1>9. 0 \in G
    <2>1. f[0] \in Seq(S) /\ Len(f[0]) = 0 /\ t[0] = 0
        BY <1>0, <1>8 DEF IsSums
    <2> QED
        BY <2>1
  <1>10. ASSUME NEW j \in 0 .. n - 1, j \in G PROVE j + 1 \in G
    <2>1. Good(j)
        BY <1>10
    <2>2. j + 1 \in 1 .. n /\ (j + 1) - 1 = j /\ j \in 0 .. n
        OBVIOUS
    <2>3. f[j + 1] = f[j] \o seqs[j + 1] /\ f[j] \in Seq(S) /\ seqs[j + 1] \in Seq(S)
        BY <1>0, <1>8, <2>1, <2>2
    <2>4. /\ t[j + 1] = t[j] + c[j + 1] /\ t[j] \in Nat /\ c[j + 1] \in Nat
          /\ Len(f[j]) = t[j] /\ Len(seqs[j + 1]) = c[j + 1]
        BY <1>0, <2>1, <2>2 DEF IsSums
    <2>5. /\ f[j + 1] \in Seq(S) /\ Len(f[j + 1]) = t[j + 1]
          /\ \A i \in 1 .. t[j] + c[j + 1] :
               f[j + 1][i] = IF i <= t[j] THEN f[j][i] ELSE seqs[j + 1][i - t[j]]
      <3> DEFINE s1 == f[j]  s2 == seqs[j + 1]
      <3>1. s1 \in Seq(S) /\ s2 \in Seq(S) /\ f[j + 1] = s1 \o s2
          BY <2>3
      <3>2. Len(s1) = t[j] /\ Len(s2) = c[j + 1]
          BY <2>4
      <3> HIDE DEF s1, s2
      <3>3. /\ s1 \o s2 \in Seq(S) /\ Len(s1 \o s2) = Len(s1) + Len(s2)
            /\ \A i \in 1 .. Len(s1) + Len(s2) : (s1 \o s2)[i] =
                  IF i <= Len(s1) THEN s1[i] ELSE s2[i - Len(s1)]
          BY <3>1, ConcatProperties
      <3>4. /\ f[j + 1] \in Seq(S) /\ Len(f[j + 1]) = t[j] + c[j + 1]
            /\ \A i \in 1 .. t[j] + c[j + 1] : f[j + 1][i] =
                  IF i <= t[j] THEN s1[i] ELSE s2[i - t[j]]
          BY <3>1, <3>2, <3>3
      <3> QED
          BY <3>4, <2>4 DEF s1, s2
    <2>6. ASSUME NEW i \in 1 .. j + 1, NEW k \in 1 .. c[i]
          PROVE  f[j + 1][t[i - 1] + k] = seqs[i][k]
      <3>1. CASE i = j + 1
        <4>0. k \in 1 .. c[j + 1] /\ k \in Nat \ {0} /\ k <= c[j + 1]
            BY <2>4, <3>1
        <4> DEFINE x == t[j]  y == c[j + 1]
        <4>a. x \in Nat /\ y \in Nat /\ k \in Nat \ {0} /\ k <= y
            BY <2>4, <4>0
        <4> HIDE DEF x, y
        <4>b. x + k \in 1 .. x + y /\ ~ (x + k <= x) /\ (x + k) - x = k
            BY ONLY <4>a
        <4>1. t[j] + k \in 1 .. t[j] + c[j + 1] /\ ~ (t[j] + k <= t[j]) /\ (t[j] + k) - t[j] = k
            BY <4>b DEF x, y
        <4>2. f[j + 1][t[j] + k] = seqs[j + 1][k]
            BY <2>5, <4>1
        <4> QED
            BY <2>2, <3>1, <4>2
      <3>2. CASE i # j + 1
        <4>1. i \in 1 .. j /\ i \in 1 .. n /\ i - 1 \in 0 .. n /\ i \in 0 .. n /\ j \in i .. n
            BY <3>2
        <4>2. f[j][t[i - 1] + k] = seqs[i][k]
            BY <2>1, <4>1
        <4>3. t[i] <= t[j]
            BY <1>0, <4>1, SumsRise
        <4>4. t[i - 1] \in Nat /\ t[i] = t[i - 1] + c[i] /\ c[i] \in Nat
            BY <1>0, <4>1 DEF IsSums
        <4> DEFINE x == t[i - 1]  y == c[i]  z == t[i]  v == t[j]  w == c[j + 1]
        <4>a. /\ x \in Nat /\ y \in Nat /\ v \in Nat /\ w \in Nat /\ z = x + y /\ z <= v
              /\ k \in 1 .. y
            BY <2>4, <4>3, <4>4
        <4> HIDE DEF x, y, z, v, w
        <4>b. x + k \in 1 .. v + w /\ x + k <= v
            BY ONLY <4>a
        <4>5. t[i - 1] + k \in 1 .. t[j] + c[j + 1] /\ t[i - 1] + k <= t[j]
            BY <4>b DEF x, v, w
        <4> QED
            BY <2>5, <4>2, <4>5
      <3> QED
          BY <3>1, <3>2
    <2>7. Good(j + 1)
        BY <2>5, <2>6
    <2> HIDE DEF Good
    <2> QED
        BY <2>2, <2>7
  <1>11. Good(n)
    <2> HIDE DEF G
    <2>1. \A j \in 0 .. n : j \in G
        BY <1>9, <1>10, Climb
    <2>2. n \in G
        BY <2>1
    <2> USE DEF G
    <2> HIDE DEF Good
    <2> QED
        BY <2>2
  <1> QED
      BY <1>5, <1>11 DEF IsPacked

-----------------------------------------------------------------------------
(* The invariant.                                                          *)

\* Operations of the stream.
Prefills == [kind : {"prefill"}, batch : Seq(Requests), chunks : Seq(Nat), pool : Seq(1 .. Rows)]
Parts == {"draft", "verify", "copy", "layout", "layoutOwn", "extend"}
Iterations == [kind : Parts, batch : Seq(Requests), pool : Seq(1 .. Rows), lens : Seq(Nat), half : 0 .. 1]
Ops == Prefills \union Iterations

\* The rows of an operation are different requests in different pool rows, the first
\* of the rows a replay has.
IsOp(op) ==
    /\ op.batch # <<>> /\ Len(op.pool) = Len(op.batch)
    /\ \A i, j \in 1 .. Len(op.batch) :
         op.batch[i] = op.batch[j] \/ op.pool[i] = op.pool[j] => i = j
    /\ op.kind = "prefill" =>
         Len(op.chunks) = Len(op.batch) /\ \A i \in 1 .. Len(op.batch) : op.chunks[i] \in 1 .. MaxPrompt
    /\ op.kind # "prefill" =>
         /\ Len(op.lens) \in Len(op.batch) .. Rows
         /\ \A i \in 1 .. Len(op.batch) : op.lens[i] = Block

Ends == {"prefill", "extend"}
Starts == {"prefill", "draft"}

\* The operation after one within an iteration.
Continues(op, next) ==
    /\ next.batch = op.batch /\ next.pool = op.pool /\ next.lens = op.lens /\ next.half = op.half
    /\ \/ op.kind = "draft"  /\ next.kind = "verify"
       \/ op.kind = "verify" /\ next.kind \in {"copy", "layoutOwn"}
       \/ op.kind = "copy"   /\ next.kind = "layout"
       \/ op.kind \in {"layout", "layoutOwn"} /\ next.kind = "extend"

\* A stream of whole forwards, but for what has been run of the first.
Chained(ops) ==
    /\ ops \in Seq(Ops)
    /\ \A j \in 1 .. Len(ops) : IsOp(ops[j])
    /\ \A j \in 1 .. Len(ops) : ops[j].kind \notin Ends =>
         j + 1 \in 1 .. Len(ops) /\ Continues(ops[j], ops[j + 1])
    /\ \A j \in 1 .. Len(ops) - 1 : ops[j].kind \in Ends => ops[j + 1].kind \in Starts

HostTypes ==
    /\ row \in [Requests -> 0 .. Rows]
    /\ stage \in [Requests -> {"new", "prefill", "running", "gone"}]
    /\ pins \in [0 .. 1 -> [1 .. Rows -> Nat]] /\ pinIdx \in 0 .. 1

Selections == [of : Requests \union {"nobody"}, upto : Nat]

DeviceTypes ==
    /\ length \in [Requests -> Nat] /\ accepted \in [Requests -> Nat]
    /\ staged \in [1 .. Rows -> Nat]
    /\ stored \in [1 .. Rows -> Selections]

\* A request has a pool row of its own from its first prefill to its end.
RowsInv ==
    /\ \A r \in Requests : row[r] # 0 <=> stage[r] \in {"prefill", "running"}
    /\ \A q, r \in Requests : row[q] = row[r] /\ row[r] # 0 => q = r

\* Lengths that are still to be copied are in their half: the last copy's is the half
\* not filled next, the one before it has the other.
Copies(ops) == {j \in 1 .. Len(ops) : ops[j].kind = "copy"}
Pinned(ops, pin, idx) ==
    /\ \A j \in Copies(ops) : \A i \in 1 .. Len(ops[j].lens) : pin[ops[j].half][i] = ops[j].lens[i]
    /\ \A j \in Copies(ops) :
         ops[j].half # idx \/ \E k \in Copies(ops) : j < k /\ ops[k].half # idx

PinsInv == Pinned(stream, pins, pinIdx)

\* The row of the layout that the i-th request's anchor is.
AnchorAt(op, i, lay, acc) ==
    LET k == FrontTokens + acc[op.batch[i]] + CumSum(op.lens)[i] - op.lens[i]
    IN  IF k < 1 THEN 1 ELSE Lower(k, Len(lay))

\* What the operations of an iteration find when it is their turn.
HeadInv ==
    stream # <<>> =>
      LET op == Head(stream) IN
      /\ op.kind = "layout" => \A i \in 1 .. Len(op.lens) : staged[i] = op.lens[i]
      /\ \A i \in 1 .. Len(op.batch) :
           LET r == op.batch[i] IN
           /\ op.kind = "verify" => length[r] >= 1
           /\ op.kind \in {"copy", "layout", "layoutOwn", "extend"} =>
                accepted[r] \in 1 .. Window /\ length[r] >= accepted[r] + 1
           /\ op.kind = "extend" => layout[AnchorAt(op, i, layout, accepted)] = Selection(r, length[r])

\* An operation concerns a request or its pool row; one stores its selection there.
Touches(op, r, p) == \E i \in 1 .. Len(op.batch) : op.batch[i] = r \/ op.pool[i] = p
Delivers(op, r, p) ==
    op.kind \in Ends /\ \E i \in 1 .. Len(op.batch) : op.batch[i] = r /\ op.pool[i] = p

Current(sel, len, r, p) == sel[p] = Selection(r, len[r]) /\ len[r] >= 1

\* Before operation j the pool row p holds the selection of r, or the last operation
\* that concerns either will have put it there.
Ready(ops, sel, len, j, r, p) ==
    \/ Current(sel, len, r, p) /\ \A k \in 1 .. j - 1 : ~Touches(ops[k], r, p)
    \/ \E k \in 1 .. j - 1 :
         Delivers(ops[k], r, p) /\ \A m \in k + 1 .. j - 1 : ~Touches(ops[m], r, p)

\* Every draft of ops, and the next one of each live request, will find its selection.
AllReady(ops, sel, len, rw, live) ==
    /\ \A j \in 1 .. Len(ops) : ops[j].kind = "draft" =>
         \A i \in 1 .. Len(ops[j].batch) : Ready(ops, sel, len, j, ops[j].batch[i], ops[j].pool[i])
    /\ \A r \in live : Ready(ops, sel, len, Len(ops) + 1, r, rw[r])

ReadyInv == AllReady(stream, stored, length, row, Running)

DraftInv ==
    /\ Chained(stream) /\ HostTypes /\ DeviceTypes /\ RowsInv /\ PinsInv /\ HeadInv /\ ReadyInv

-----------------------------------------------------------------------------
(* Streams: the rest of one, and one with a forward put behind it.         *)

Rest(ops, rest) ==
    /\ Len(ops) \in Nat \ {0} /\ Len(rest) = Len(ops) - 1
    /\ \A j \in 1 .. Len(rest) : j + 1 \in 1 .. Len(ops) /\ rest[j] = ops[j + 1]

LEMMA TailIsRest ==
  ASSUME NEW S, NEW ops, ops \in Seq(S), ops # <<>>
  PROVE  Tail(ops) \in Seq(S) /\ Rest(ops, Tail(ops)) /\ Head(ops) = ops[1] /\ Head(ops) \in S
  <1>1. /\ Head(ops) \in S /\ Tail(ops) \in Seq(S) /\ Len(Tail(ops)) = Len(ops) - 1
        /\ \A i \in 1 .. Len(Tail(ops)) : Tail(ops)[i] = ops[i + 1]
      BY HeadTailProperties
  <1>2. Len(ops) \in Nat \ {0}
      BY EmptySeq
  <1>3. Head(ops) = ops[1]
      BY <1>2
  <1> QED
      BY <1>1, <1>2, <1>3 DEF Rest

LEMMA ChainedRest ==
  ASSUME NEW ops, Chained(ops), ops # <<>>
  PROVE  Chained(Tail(ops))
  <1> DEFINE rest == Tail(ops)
  <1>0. ops \in Seq(Ops)
      BY DEF Chained
  <1>1. rest \in Seq(Ops) /\ Rest(ops, rest)
      BY <1>0, TailIsRest
  <1> HIDE DEF rest
  <1>2. ASSUME NEW j \in 1 .. Len(rest)
        PROVE  /\ j + 1 \in 1 .. Len(ops) /\ rest[j] = ops[j + 1]
               /\ (j + 1) + 1 \in 1 .. Len(ops) => j + 1 \in 1 .. Len(rest) /\ rest[j + 1] = ops[(j + 1) + 1]
               /\ j \in 1 .. Len(rest) - 1 => j + 1 \in 1 .. Len(ops) - 1
      BY <1>1 DEF Rest
  <1>3. \A j \in 1 .. Len(rest) : IsOp(rest[j])
      BY <1>2 DEF Chained
  <1>4. ASSUME NEW j \in 1 .. Len(rest), rest[j].kind \notin Ends
        PROVE  j + 1 \in 1 .. Len(rest) /\ Continues(rest[j], rest[j + 1])
    <2>1. (j + 1) + 1 \in 1 .. Len(ops) /\ Continues(ops[j + 1], ops[(j + 1) + 1])
        BY <1>2, <1>4 DEF Chained
    <2> QED
        BY <1>2, <2>1
  <1>5. ASSUME NEW j \in 1 .. Len(rest) - 1, rest[j].kind \in Ends
        PROVE  rest[j + 1].kind \in Starts
    <2>1. Len(rest) \in Nat /\ Len(ops) \in Nat
        BY <1>1 DEF Rest
    <2>2. j \in 1 .. Len(rest) /\ j + 1 \in 1 .. Len(rest)
        BY <2>1
    <2>3. j + 1 \in 1 .. Len(ops) - 1 /\ ops[j + 1].kind \in Ends /\ rest[j + 1] = ops[(j + 1) + 1]
        BY <1>2, <1>5, <2>2
    <2> QED
        BY <2>3 DEF Chained
  <1>6. Chained(rest)
      BY <1>1, <1>3, <1>4, <1>5 DEF Chained
  <1> QED
      BY <1>6 DEF rest

\* cat is ops with blk behind it.
Joined(cat, ops, blk) ==
    /\ Len(ops) \in Nat /\ Len(blk) \in Nat \ {0} /\ Len(cat) = Len(ops) + Len(blk)
    /\ \A j \in 1 .. Len(ops) : cat[j] = ops[j]
    /\ \A j \in 1 .. Len(blk) : cat[Len(ops) + j] = blk[j]

LEMMA ConcatJoins ==
  ASSUME NEW S, NEW ops, ops \in Seq(S), NEW blk, blk \in Seq(S), blk # <<>>
  PROVE  ops \o blk \in Seq(S) /\ Joined(ops \o blk, ops, blk)
  <1>1. /\ ops \o blk \in Seq(S) /\ Len(ops \o blk) = Len(ops) + Len(blk)
        /\ \A i \in 1 .. Len(ops) + Len(blk) :
             (ops \o blk)[i] = IF i <= Len(ops) THEN ops[i] ELSE blk[i - Len(ops)]
      BY ConcatProperties
  <1>2. Len(ops) \in Nat /\ Len(blk) \in Nat \ {0}
      BY EmptySeq
  <1> DEFINE cat == ops \o blk  m == Len(ops)  n == Len(blk)
  <1>a. /\ m \in Nat /\ n \in Nat \ {0} /\ Len(cat) = m + n
        /\ \A i \in 1 .. m + n : cat[i] = IF i <= m THEN ops[i] ELSE blk[i - m]
      BY <1>1, <1>2
  <1> HIDE DEF cat, m, n
  <1>3. \A j \in 1 .. m : cat[j] = ops[j]
      BY <1>a
  <1>4. ASSUME NEW j \in 1 .. n PROVE cat[m + j] = blk[j]
    <2>1. m + j \in 1 .. m + n /\ ~ (m + j <= m) /\ (m + j) - m = j
        BY <1>a
    <2> QED
        BY <1>a, <2>1
  <1> QED
      BY <1>1, <1>2, <1>3, <1>4, <1>a DEF Joined, cat, m, n

\* A whole forward that starts as forwards do goes behind a stream.
LEMMA ChainedJoin ==
  ASSUME NEW ops, Chained(ops), NEW blk, Chained(blk), blk # <<>>, blk[1].kind \in Starts
  PROVE  Chained(ops \o blk)
  <1> DEFINE cat == ops \o blk  m == Len(ops)  n == Len(blk)
  <1>0. ops \in Seq(Ops) /\ blk \in Seq(Ops)
      BY DEF Chained
  <1>1. cat \in Seq(Ops) /\ Joined(cat, ops, blk)
      BY <1>0, ConcatJoins
  <1> HIDE DEF cat
  <1>2. /\ m \in Nat /\ n \in Nat \ {0} /\ Len(cat) = m + n
        /\ \A j \in 1 .. m : cat[j] = ops[j]
        /\ \A j \in 1 .. n : cat[m + j] = blk[j]
      BY <1>1 DEF Joined
  <1>c. /\ \A j \in 1 .. m : IsOp(ops[j])
        /\ \A j \in 1 .. m : ops[j].kind \notin Ends => j + 1 \in 1 .. m /\ Continues(ops[j], ops[j + 1])
        /\ \A j \in 1 .. m - 1 : ops[j].kind \in Ends => ops[j + 1].kind \in Starts
        /\ \A j \in 1 .. n : IsOp(blk[j])
        /\ \A j \in 1 .. n : blk[j].kind \notin Ends => j + 1 \in 1 .. n /\ Continues(blk[j], blk[j + 1])
        /\ \A j \in 1 .. n - 1 : blk[j].kind \in Ends => blk[j + 1].kind \in Starts
      BY DEF Chained
  <1> HIDE DEF m, n
  <1>3. ASSUME NEW j \in 1 .. m + n
        PROVE  \/ j \in 1 .. m
               \/ j \notin 1 .. m /\ j - m \in 1 .. n /\ j = m + (j - m) /\ j + 1 = m + ((j - m) + 1)
      BY <1>2
  <1>4. ASSUME NEW j \in 1 .. m + n PROVE IsOp(cat[j])
    <2>1. CASE j \in 1 .. m
        BY <1>2, <1>c, <2>1
    <2>2. CASE j \notin 1 .. m
      <3> DEFINE i == j - m
      <3>0. i \in 1 .. n /\ j = m + i
          BY <1>3, <2>2
      <3> HIDE DEF i
      <3> QED
          BY <1>2, <1>c, <3>0
    <2> QED
        BY <2>1, <2>2
  <1>5. ASSUME NEW j \in 1 .. m + n, cat[j].kind \notin Ends
        PROVE  j + 1 \in 1 .. m + n /\ Continues(cat[j], cat[j + 1])
    <2>1. CASE j \in 1 .. m
      <3>1. j + 1 \in 1 .. m /\ Continues(ops[j], ops[j + 1])
          BY <1>2, <1>5, <1>c, <2>1
      <3>2. j + 1 \in 1 .. m + n
          BY <1>2, <3>1
      <3> QED
          BY <1>2, <2>1, <3>1, <3>2
    <2>2. CASE j \notin 1 .. m
      <3> DEFINE i == j - m
      <3>0. i \in 1 .. n /\ j = m + i /\ j + 1 = m + (i + 1)
          BY <1>3, <2>2
      <3> HIDE DEF i
      <3>1. i + 1 \in 1 .. n /\ Continues(blk[i], blk[i + 1])
          BY <1>2, <1>5, <1>c, <3>0
      <3>2. m + (i + 1) \in 1 .. m + n
          BY <1>2, <3>1
      <3>3. cat[j] = blk[i] /\ cat[j + 1] = blk[i + 1]
          BY <1>2, <3>0, <3>1
      <3> QED
          BY <3>0, <3>1, <3>2, <3>3
    <2> QED
        BY <2>1, <2>2
  <1>6. ASSUME NEW j \in 1 .. (m + n) - 1, cat[j].kind \in Ends
        PROVE  cat[j + 1].kind \in Starts
    <2>1. CASE j \in 1 .. m - 1
      <3>1. j \in 1 .. m /\ j + 1 \in 1 .. m
          BY <1>2, <2>1
      <3> QED
          BY <1>2, <1>6, <1>c, <2>1, <3>1
    <2>2. CASE j = m
      <3>1. cat[m + 1] = blk[1]
          BY <1>2
      <3> QED
          BY <2>2, <3>1
    <2>3. CASE j > m
      <3> DEFINE i == j - m
      <3>0. i \in 1 .. n - 1 /\ i \in 1 .. n /\ i + 1 \in 1 .. n /\ j = m + i /\ j + 1 = m + (i + 1)
          BY <1>2, <2>3
      <3> HIDE DEF i
      <3>1. cat[j] = blk[i] /\ cat[j + 1] = blk[i + 1]
          BY <1>2, <3>0
      <3> QED
          BY <1>6, <1>c, <3>0, <3>1
    <2> QED
        BY <1>2, <2>1, <2>2, <2>3
  <1>7. Chained(cat)
      BY <1>1, <1>2, <1>4, <1>5, <1>6 DEF Chained
  <1> QED
      BY <1>7 DEF cat

\* Two positions of a set of at most one are one.
LEMMA FewerThanTwo ==
  ASSUME NEW T, IsFiniteSet(T), Cardinality(T) < 2, NEW a \in T, NEW b \in T
  PROVE  a = b
  <1>1. Cardinality(T) \in Nat
      BY FS_CardinalityType
  <1>2. Cardinality(T) # 0
      BY FS_EmptySet
  <1>3. Cardinality(T) = 1
      BY <1>1, <1>2
  <1>4. PICK x : T = {x}
      BY <1>3, FS_Singleton
  <1> QED
      BY <1>4

\* Each copy is followed by the end of its own forward: two copies, two forwards.
LEMMA OneCopy ==
  ASSUME NEW ops, Chained(ops),
         Cardinality({n \in DOMAIN ops : ops[n].kind \in {"prefill", "extend"}}) < 2,
         NEW j \in Copies(ops), NEW k \in Copies(ops)
  PROVE  j = k
  <1> DEFINE T == {n \in DOMAIN ops : ops[n].kind \in {"prefill", "extend"}}
  <1>1. ops \in Seq(Ops)
      BY DEF Chained
  <1>2. Len(ops) \in Nat /\ DOMAIN ops = 1 .. Len(ops)
      BY <1>1, LenProperties
  <1>3. IsFiniteSet(T)
    <2>1. IsFiniteSet(1 .. Len(ops))
        BY <1>2, FS_Interval
    <2> QED
        BY <1>2, <2>1, FS_Subset
  <1>4. ASSUME NEW i \in Copies(ops) PROVE i + 2 \in T /\ i \in Nat
    <2>1. i \in 1 .. Len(ops) /\ ops[i].kind = "copy"
        BY DEF Copies
    <2>2. i + 1 \in 1 .. Len(ops) /\ ops[i + 1].kind = "layout"
        BY <2>1 DEF Chained, Continues, Ends
    <2>3. (i + 1) + 1 \in 1 .. Len(ops) /\ ops[(i + 1) + 1].kind = "extend"
        BY <2>2 DEF Chained, Continues, Ends
    <2>4. (i + 1) + 1 = i + 2 /\ i \in Nat
        BY <2>1, <1>2
    <2> QED
        BY <1>2, <2>3, <2>4
  <1> HIDE DEF T
  <1>5. j + 2 = k + 2
      BY <1>3, <1>4, FewerThanTwo DEF T
  <1> QED
      BY <1>4, <1>5

\* What a step of the device that runs op may and must do to the stored selections.
StepKeeps(op, sel, len, sel2, len2) ==
    \A r \in Requests : \A p \in 1 .. Rows :
        /\ ~Touches(op, r, p) => sel2[p] = sel[p] /\ len2[r] = len[r]
        /\ Delivers(op, r, p) => Current(sel2, len2, r, p)

LEMMA ReadyAfter ==
  ASSUME NEW ops, NEW rest, Rest(ops, rest), NEW sel, NEW len, NEW sel2, NEW len2,
         StepKeeps(ops[1], sel, len, sel2, len2),
         NEW j \in 1 .. Len(rest) + 1, NEW r \in Requests, NEW p \in 1 .. Rows,
         Ready(ops, sel, len, j + 1, r, p)
  PROVE  Ready(rest, sel2, len2, j, r, p)
  <1>0. /\ Len(ops) \in Nat \ {0} /\ Len(rest) = Len(ops) - 1
        /\ \A i \in 1 .. Len(rest) : rest[i] = ops[i + 1]
      BY DEF Rest
  <1>1. /\ ~Touches(ops[1], r, p) => sel2[p] = sel[p] /\ len2[r] = len[r]
        /\ Delivers(ops[1], r, p) => Current(sel2, len2, r, p)
      BY DEF StepKeeps
  <1>2. \A i \in 1 .. j - 1 : i + 1 \in 1 .. (j + 1) - 1 /\ i \in 1 .. Len(rest) /\ rest[i] = ops[i + 1]
      BY <1>0
  <1>3. CASE Current(sel, len, r, p) /\ \A k \in 1 .. (j + 1) - 1 : ~Touches(ops[k], r, p)
    <2>1. 1 \in 1 .. (j + 1) - 1
        BY <1>0
    <2>2. ~Touches(ops[1], r, p)
        BY <1>3, <2>1
    <2>3. Current(sel2, len2, r, p)
        BY <1>1, <1>3, <2>2 DEF Current
    <2>4. \A k \in 1 .. j - 1 : ~Touches(rest[k], r, p)
        BY <1>2, <1>3
    <2> QED
        BY <2>3, <2>4 DEF Ready
  <1>4. ASSUME NEW k \in 1 .. (j + 1) - 1, Delivers(ops[k], r, p),
               \A m \in k + 1 .. (j + 1) - 1 : ~Touches(ops[m], r, p)
        PROVE  Ready(rest, sel2, len2, j, r, p)
    <2>0. \A i \in 1 .. j - 1 : i + 1 \in k + 1 .. (j + 1) - 1 \/ i < k
        BY <1>0
    <2>1. CASE k = 1
      <3>1. Current(sel2, len2, r, p)
          BY <1>1, <1>4, <2>1
      <3>2. \A i \in 1 .. j - 1 : ~Touches(rest[i], r, p)
          BY <1>2, <1>4, <2>0, <2>1
      <3> QED
          BY <3>1, <3>2 DEF Ready
    <2>2. CASE k # 1
      <3> DEFINE i == k - 1
      <3>1. i \in 1 .. j - 1 /\ i + 1 = k
          BY <1>0, <2>2
      <3>2. \A m \in i + 1 .. j - 1 : m \in 1 .. j - 1 /\ m + 1 \in k + 1 .. (j + 1) - 1
          BY <1>0, <2>2
      <3> HIDE DEF i
      <3>3. Delivers(rest[i], r, p)
          BY <1>2, <1>4, <3>1
      <3>4. \A m \in i + 1 .. j - 1 : ~Touches(rest[m], r, p)
          BY <1>2, <1>4, <3>2
      <3> QED
          BY <3>1, <3>3, <3>4 DEF Ready
    <2> QED
        BY <2>1, <2>2
  <1> QED
      BY <1>3, <1>4 DEF Ready

\* The device's step keeps every draft's selection on its way.
LEMMA AllReadyAfter ==
  ASSUME NEW ops, Chained(ops), ops # <<>>, NEW sel, NEW len, NEW sel2, NEW len2,
         StepKeeps(Head(ops), sel, len, sel2, len2),
         NEW rw, NEW live \in SUBSET Requests, \A r \in live : rw[r] \in 1 .. Rows,
         AllReady(ops, sel, len, rw, live)
  PROVE  AllReady(Tail(ops), sel2, len2, rw, live)
  <1> DEFINE rest == Tail(ops)
  <1>0. ops \in Seq(Ops)
      BY DEF Chained
  <1>1. rest \in Seq(Ops) /\ Rest(ops, rest) /\ Head(ops) = ops[1]
      BY <1>0, TailIsRest
  <1> HIDE DEF rest
  <1>2. StepKeeps(ops[1], sel, len, sel2, len2)
      BY <1>1
  <1>3. /\ Len(ops) \in Nat \ {0} /\ Len(rest) = Len(ops) - 1
        /\ \A j \in 1 .. Len(rest) : j + 1 \in 1 .. Len(ops) /\ rest[j] = ops[j + 1]
      BY <1>1 DEF Rest
  <1>4. ASSUME NEW j \in 1 .. Len(rest), rest[j].kind = "draft", NEW i \in 1 .. Len(rest[j].batch)
        PROVE  Ready(rest, sel2, len2, j, rest[j].batch[i], rest[j].pool[i])
    <2>1. Ready(ops, sel, len, j + 1, rest[j].batch[i], rest[j].pool[i])
        BY <1>3, <1>4 DEF AllReady
    <2>2. rest[j].batch[i] \in Requests /\ rest[j].pool[i] \in 1 .. Rows
      <3>1. rest[j] \in Ops /\ IsOp(rest[j])
          BY <1>0, <1>3, ElementOfSeq DEF Chained
      <3>2. rest[j].batch \in Seq(Requests) /\ rest[j].pool \in Seq(1 .. Rows)
          BY <3>1 DEF Ops, Prefills, Iterations
      <3>3. Len(rest[j].pool) = Len(rest[j].batch)
          BY <3>1 DEF IsOp
      <3> QED
          BY <3>2, <3>3, ElementOfSeq
    <2>3. j \in 1 .. Len(rest) + 1
        BY <1>3
    <2> QED
        BY <1>1, <1>2, <2>1, <2>2, <2>3, ReadyAfter
  <1>5. ASSUME NEW r \in live PROVE Ready(rest, sel2, len2, Len(rest) + 1, r, rw[r])
    <2>1. Ready(ops, sel, len, Len(ops) + 1, r, rw[r]) /\ r \in Requests /\ rw[r] \in 1 .. Rows
        BY DEF AllReady
    <2>2. Len(ops) + 1 = (Len(rest) + 1) + 1 /\ Len(rest) + 1 \in 1 .. Len(rest) + 1
        BY <1>3
    <2>3. Ready(ops, sel, len, (Len(rest) + 1) + 1, r, rw[r])
        BY <2>1, <2>2
    <2> QED
        BY <1>1, <1>2, <2>1, <2>2, <2>3, ReadyAfter
  <1>6. AllReady(rest, sel2, len2, rw, live)
      BY <1>4, <1>5 DEF AllReady
  <1> QED
      BY <1>6 DEF rest

\* A forward behind the stream changes nothing for what is before it.
LEMMA ReadyJoin ==
  ASSUME NEW cat, NEW ops, NEW blk, Joined(cat, ops, blk), NEW sel, NEW len, NEW r, NEW p,
         NEW j \in 1 .. Len(ops) + 1
  PROVE  Ready(cat, sel, len, j, r, p) <=> Ready(ops, sel, len, j, r, p)
  <1>0. Len(ops) \in Nat /\ \A k \in 1 .. Len(ops) : cat[k] = ops[k]
      BY DEF Joined
  <1>1. \A k \in 1 .. j - 1 : cat[k] = ops[k]
      BY <1>0
  <1>2. (\A k \in 1 .. j - 1 : ~Touches(cat[k], r, p)) <=> (\A k \in 1 .. j - 1 : ~Touches(ops[k], r, p))
      BY <1>1
  <1>3. ASSUME NEW k \in 1 .. j - 1
        PROVE  /\ Delivers(cat[k], r, p) <=> Delivers(ops[k], r, p)
               /\ (\A m \in k + 1 .. j - 1 : ~Touches(cat[m], r, p))
                    <=> (\A m \in k + 1 .. j - 1 : ~Touches(ops[m], r, p))
    <2>1. \A m \in k + 1 .. j - 1 : m \in 1 .. j - 1
        BY <1>0
    <2> QED
        BY <1>1, <2>1
  <1>4. (\E k \in 1 .. j - 1 : Delivers(cat[k], r, p) /\ \A m \in k + 1 .. j - 1 : ~Touches(cat[m], r, p))
          <=> (\E k \in 1 .. j - 1 : Delivers(ops[k], r, p) /\ \A m \in k + 1 .. j - 1 : ~Touches(ops[m], r, p))
      BY <1>3
  <1> QED
      BY <1>2, <1>4 DEF Ready

\* Behind a forward of one operation: it delivers, or does not concern the row.
LEMMA ReadyPastOne ==
  ASSUME NEW cat, NEW ops, NEW blk, Joined(cat, ops, blk), Len(blk) = 1,
         NEW sel, NEW len, NEW r, NEW p,
         Delivers(blk[1], r, p) \/ (~Touches(blk[1], r, p) /\ Ready(ops, sel, len, Len(ops) + 1, r, p))
  PROVE  Ready(cat, sel, len, Len(cat) + 1, r, p)
  <1> DEFINE m == Len(ops)
  <1>0. m \in Nat /\ Len(cat) = m + 1 /\ cat[m + 1] = blk[1] /\ \A k \in 1 .. m : cat[k] = ops[k]
      BY DEF Joined
  <1>a. Delivers(blk[1], r, p) \/ (~Touches(blk[1], r, p) /\ Ready(ops, sel, len, m + 1, r, p))
      OBVIOUS
  <1> HIDE DEF m
  <1>1. \A k \in 1 .. (m + 2) - 1 : k \in 1 .. m \/ k = m + 1
      BY <1>0
  <1>2. CASE Delivers(blk[1], r, p)
    <2>1. m + 1 \in 1 .. (m + 2) - 1 /\ \A i \in (m + 1) + 1 .. (m + 2) - 1 : FALSE
        BY <1>0
    <2>2. Delivers(cat[m + 1], r, p)
        BY <1>0, <1>2
    <2>3. Ready(cat, sel, len, m + 2, r, p)
        BY <2>1, <2>2 DEF Ready
    <2>4. Len(cat) + 1 = m + 2
        BY <1>0
    <2> QED
        BY <2>3, <2>4
  <1>3. CASE ~Touches(blk[1], r, p) /\ Ready(ops, sel, len, m + 1, r, p)
    <2>0. ~Touches(cat[m + 1], r, p) /\ (m + 1) - 1 = m /\ Len(cat) + 1 = m + 2
        BY <1>0, <1>3
    <2>1. CASE Current(sel, len, r, p) /\ \A k \in 1 .. (m + 1) - 1 : ~Touches(ops[k], r, p)
      <3>1. \A k \in 1 .. (m + 2) - 1 : ~Touches(cat[k], r, p)
          BY <1>0, <1>1, <2>0, <2>1
      <3>2. Ready(cat, sel, len, m + 2, r, p)
          BY <2>1, <3>1 DEF Ready
      <3> QED
          BY <2>0, <3>2
    <2>2. ASSUME NEW k \in 1 .. (m + 1) - 1, Delivers(ops[k], r, p),
                 \A i \in k + 1 .. (m + 1) - 1 : ~Touches(ops[i], r, p)
          PROVE  Ready(cat, sel, len, Len(cat) + 1, r, p)
      <3>1. k \in 1 .. (m + 2) - 1 /\ k \in 1 .. m
          BY <1>0
      <3>2. \A i \in k + 1 .. (m + 2) - 1 : (i \in k + 1 .. (m + 1) - 1 /\ i \in 1 .. m) \/ i = m + 1
          BY <1>0
      <3>3. \A i \in k + 1 .. (m + 2) - 1 : ~Touches(cat[i], r, p)
          BY <1>0, <2>0, <2>2, <3>2
      <3>4. Delivers(cat[k], r, p)
          BY <1>0, <2>2, <3>1
      <3>5. Ready(cat, sel, len, m + 2, r, p)
          BY <3>1, <3>3, <3>4 DEF Ready
      <3> QED
          BY <2>0, <3>5
    <2> QED
        BY <1>3, <2>1, <2>2 DEF Ready
  <1> QED
      BY <1>a, <1>2, <1>3

\* Behind a forward whose last operation delivers.
LEMMA ReadyPastEnd ==
  ASSUME NEW cat, NEW ops, NEW blk, Joined(cat, ops, blk),
         NEW sel, NEW len, NEW r, NEW p, Delivers(blk[Len(blk)], r, p)
  PROVE  Ready(cat, sel, len, Len(cat) + 1, r, p)
  <1> DEFINE m == Len(cat)
  <1>1. m \in Nat \ {0} /\ cat[m] = blk[Len(blk)]
      BY DEF Joined
  <1> HIDE DEF m
  <1>2. m \in 1 .. (m + 1) - 1 /\ \A i \in m + 1 .. (m + 1) - 1 : FALSE
      BY <1>1
  <1>3. Ready(cat, sel, len, m + 1, r, p)
      BY <1>1, <1>2 DEF Ready
  <1> QED
      BY <1>3 DEF m

-----------------------------------------------------------------------------
(* Steps of the device.                                                    *)

\* The requests and pool rows of an operation.
Members(op) ==
    /\ Len(op.batch) \in Nat \ {0} /\ DOMAIN op.batch = 1 .. Len(op.batch)
    /\ \A i \in 1 .. Len(op.batch) : op.batch[i] \in Requests /\ op.pool[i] \in 1 .. Rows
    /\ \A i, j \in 1 .. Len(op.batch) :
         op.batch[i] = op.batch[j] \/ op.pool[i] = op.pool[j] => i = j

LEMMA OpHasMembers ==
  ASSUME NEW op, op \in Ops, IsOp(op)
  PROVE  Members(op)
  <1>1. op.batch \in Seq(Requests) /\ op.pool \in Seq(1 .. Rows)
      BY DEF Ops, Prefills, Iterations
  <1>2. op.batch # <<>> /\ Len(op.pool) = Len(op.batch)
      BY DEF IsOp
  <1>3. Len(op.batch) \in Nat \ {0}
      BY <1>1, <1>2, EmptySeq
  <1>4. DOMAIN op.batch = 1 .. Len(op.batch)
      BY <1>1, LenProperties
  <1>5. \A i \in 1 .. Len(op.batch) : op.batch[i] \in Requests /\ op.pool[i] \in 1 .. Rows
      BY <1>1, <1>2, ElementOfSeq
  <1>6. \A i, j \in 1 .. Len(op.batch) :
           op.batch[i] = op.batch[j] \/ op.pool[i] = op.pool[j] => i = j
      BY DEF IsOp
  <1> QED
      BY <1>3, <1>4, <1>5, <1>6 DEF Members

LEMMA HeadIsOp ==
  ASSUME NEW ops, Chained(ops), ops # <<>>
  PROVE  Head(ops) = ops[1] /\ 1 \in 1 .. Len(ops) /\ Head(ops) \in Ops /\ IsOp(Head(ops)) /\ Members(Head(ops))
  <1>1. ops \in Seq(Ops)
      BY DEF Chained
  <1>2. Head(ops) = ops[1] /\ Head(ops) \in Ops /\ Len(ops) \in Nat \ {0}
      BY <1>1, TailIsRest DEF Rest
  <1>3. 1 \in 1 .. Len(ops)
      BY <1>2
  <1>4. IsOp(Head(ops))
      BY <1>2, <1>3 DEF Chained
  <1> QED
      BY <1>2, <1>3, <1>4, OpHasMembers

\* What comes after the head.
LEMMA Follows ==
  ASSUME NEW ops, Chained(ops), ops # <<>>, Tail(ops) # <<>>
  PROVE  IF Head(ops).kind \in Ends THEN Head(Tail(ops)).kind \in Starts
                                    ELSE Continues(Head(ops), Head(Tail(ops)))
  <1> DEFINE rest == Tail(ops)
  <1>1. ops \in Seq(Ops)
      BY DEF Chained
  <1>2. rest \in Seq(Ops) /\ Rest(ops, rest) /\ Head(ops) = ops[1]
      BY <1>1, TailIsRest
  <1>3. Len(rest) \in Nat \ {0} /\ Head(rest) = rest[1]
      BY <1>2, TailIsRest DEF Rest
  <1>4. Head(rest) = ops[1 + 1] /\ 1 \in 1 .. Len(ops) - 1 /\ 1 \in 1 .. Len(ops)
    <2> HIDE DEF rest
    <2>1. 1 \in 1 .. Len(rest) /\ Len(ops) - 1 = Len(rest) /\ Len(ops) \in Nat
        BY <1>2, <1>3 DEF Rest
    <2> QED
        BY <1>2, <1>3, <2>1 DEF Rest
  <1> QED
      BY <1>2, <1>4 DEF Chained

LEMMA PinnedRest ==
  ASSUME NEW ops, NEW rest, Rest(ops, rest), NEW pin, NEW idx, Pinned(ops, pin, idx)
  PROVE  Pinned(rest, pin, idx)
  <1>1. \A j \in Copies(rest) : j + 1 \in Copies(ops) /\ rest[j] = ops[j + 1]
      BY DEF Copies, Rest
  <1>2. \A j \in Copies(rest) : \A i \in 1 .. Len(rest[j].lens) : pin[rest[j].half][i] = rest[j].lens[i]
      BY <1>1 DEF Pinned
  <1>3. ASSUME NEW j \in Copies(rest), rest[j].half = idx
        PROVE  \E k \in Copies(rest) : j < k /\ rest[k].half # idx
    <2>1. PICK k \in Copies(ops) : j + 1 < k /\ ops[k].half # idx
        BY <1>1, <1>3 DEF Pinned
    <2>2. j \in Nat /\ k \in 1 .. Len(ops) /\ ops[k].kind = "copy" /\ Len(ops) \in Nat /\ Len(rest) = Len(ops) - 1
        BY DEF Copies, Rest
    <2>3. k - 1 \in 1 .. Len(rest) /\ (k - 1) + 1 = k /\ j < k - 1
        BY <2>1, <2>2
    <2>4. rest[k - 1] = ops[k]
        BY <2>3 DEF Rest
    <2>5. k - 1 \in Copies(rest)
        BY <2>2, <2>3, <2>4 DEF Copies
    <2> QED
        BY <2>1, <2>3, <2>4, <2>5
  <1> QED
      BY <1>2, <1>3 DEF Pinned

\* A step that runs the head of the stream.
LEMMA DeviceStep ==
  ASSUME DraftInv, stream # <<>>, stream' = Tail(stream), UNCHANGED hostVars,
         StepKeeps(Head(stream), stored, length, stored', length'), DeviceTypes', HeadInv'
  PROVE  DraftInv'
  <1>0. Chained(stream)
      BY DEF DraftInv
  <1>1. Chained(stream')
      BY <1>0, ChainedRest
  <1>2. HostTypes' /\ RowsInv'
      BY DEF DraftInv, HostTypes, RowsInv, hostVars
  <1>3. PinsInv'
    <2>1. Rest(stream, Tail(stream))
        BY <1>0, TailIsRest DEF Chained
    <2>2. Pinned(Tail(stream), pins, pinIdx)
        BY <2>1, PinnedRest DEF DraftInv, PinsInv
    <2> QED
        BY <2>2 DEF PinsInv, hostVars
  <1>4. ReadyInv'
    <2>1. Running \in SUBSET Requests /\ \A r \in Running : row[r] \in 1 .. Rows
        BY DEF Running, DraftInv, HostTypes, RowsInv
    <2>2. AllReady(stream, stored, length, row, Running)
        BY DEF DraftInv, ReadyInv
    <2>3. AllReady(Tail(stream), stored', length', row, Running)
        BY <1>0, <2>1, <2>2, AllReadyAfter
    <2>4. row' = row /\ Running' = Running
        BY DEF hostVars, Running
    <2> QED
        BY <2>3, <2>4 DEF ReadyInv
  <1> QED
      BY <1>1, <1>2, <1>3, <1>4 DEF DraftInv

\* After a whole forward the next one starts.
LEMMA NextForward ==
  ASSUME DraftInv, stream # <<>>, stream' = Tail(stream), Head(stream).kind \in Ends
  PROVE  HeadInv'
  <1>1. Chained(stream)
      BY DEF DraftInv
  <1>2. stream' # <<>> => Head(stream').kind \in Starts
      BY <1>1, Follows
  <1> QED
      BY <1>2 DEF HeadInv, Starts

\* At its turn a draft finds the selection of each of its requests.
LEMMA DraftFinds ==
  ASSUME DraftInv, stream # <<>>, Head(stream).kind = "draft", NEW i \in 1 .. Len(Head(stream).batch)
  PROVE  Current(stored, length, Head(stream).batch[i], Head(stream).pool[i])
  <1>1. Head(stream) = stream[1] /\ 1 \in 1 .. Len(stream)
      BY HeadIsOp DEF DraftInv
  <1>2. Ready(stream, stored, length, 1, stream[1].batch[i], stream[1].pool[i])
      BY <1>1 DEF DraftInv, ReadyInv, AllReady
  <1>3. \A k \in 1 .. 1 - 1 : FALSE
      OBVIOUS
  <1> QED
      BY <1>1, <1>2, <1>3 DEF Ready

LEMMA RunDraftKeeps == DraftInv /\ RunDraft => DraftInv'
  <1> SUFFICES ASSUME DraftInv, RunDraft PROVE DraftInv'
      OBVIOUS
  <1> DEFINE op == Head(stream)
  <1>1. /\ stream # <<>> /\ op.kind = "draft" /\ stream' = Tail(stream)
        /\ UNCHANGED hostVars /\ UNCHANGED <<length, accepted, staged, layout, stored>>
      BY DEF RunDraft, Run, deviceVars
  <1>2. StepKeeps(op, stored, length, stored', length')
      BY <1>1 DEF StepKeeps, Delivers, Ends
  <1>3. DeviceTypes'
      BY <1>1 DEF DraftInv, DeviceTypes
  <1>4. HeadInv'
    <2>1. ASSUME stream' # <<>>
          PROVE  Head(stream').kind = "verify" /\ Head(stream').batch = op.batch
      <3>1. Continues(op, Head(stream'))
          BY <1>1, <2>1, Follows DEF DraftInv, Ends
      <3> QED
          BY <1>1, <3>1 DEF Continues
    <2>2. \A i \in 1 .. Len(op.batch) : length[op.batch[i]] >= 1
        BY <1>1, DraftFinds DEF Current
    <2> HIDE DEF op
    <2> QED
        BY <1>1, <2>1, <2>2 DEF HeadInv
  <1> QED
      BY <1>1, <1>2, <1>3, <1>4, DeviceStep

LEMMA RunVerifyKeeps == DraftInv /\ RunVerify => DraftInv'
  <1> SUFFICES ASSUME DraftInv, RunVerify PROVE DraftInv'
      OBVIOUS
  <1> DEFINE op == Head(stream)
             members == {op.batch[i] : i \in DOMAIN op.batch}
  <1>1. /\ stream # <<>> /\ op.kind = "verify" /\ stream' = Tail(stream)
        /\ UNCHANGED hostVars /\ UNCHANGED <<staged, layout, stored>>
      BY DEF RunVerify, Run
  <1>2. PICK n \in [members -> 1 .. Window] :
          /\ accepted' = [r \in Requests |-> IF r \in members THEN n[r] ELSE accepted[r]]
          /\ length' = [r \in Requests |-> IF r \in members THEN length[r] + n[r] ELSE length[r]]
      BY DEF RunVerify
  <1>3. Members(op)
      BY <1>1, HeadIsOp DEF DraftInv
  <1>4. members = {op.batch[i] : i \in 1 .. Len(op.batch)} /\ members \subseteq Requests
      BY <1>3 DEF Members
  <1>5. /\ length \in [Requests -> Nat] /\ accepted \in [Requests -> Nat]
        /\ \A i \in 1 .. Len(op.batch) : length[op.batch[i]] >= 1
      BY <1>1 DEF DraftInv, DeviceTypes, HeadInv
  <1> DEFINE K == op.kind
  <1> HIDE DEF members
  <1>6. Window \in Nat /\ \A r \in members : n[r] \in 1 .. Window /\ n[r] \in Nat
      BY DraftAssumption DEF DraftAssumption
  <1>7. StepKeeps(op, stored, length, stored', length')
    <2>1. ASSUME NEW r \in Requests, NEW p \in 1 .. Rows, ~Touches(op, r, p)
          PROVE  stored'[p] = stored[p] /\ length'[r] = length[r]
      <3>1. r \notin members
          BY <1>4, <2>1 DEF Touches
      <3> QED
          BY <1>1, <1>2, <3>1
    <2> HIDE DEF op
    <2>2. \A r \in Requests : \A p \in 1 .. Rows : ~Delivers(op, r, p)
        BY <1>1 DEF Delivers, Ends
    <2> QED
        BY <2>1, <2>2 DEF StepKeeps
  <1>8. DeviceTypes'
    <2>1. accepted' \in [Requests -> Nat]
        BY <1>2, <1>5, <1>6
    <2>2. length' \in [Requests -> Nat]
        BY <1>2, <1>5, <1>6
    <2> QED
        BY <1>1, <2>1, <2>2 DEF DraftInv, DeviceTypes
  <1>9. HeadInv'
    <2>1. ASSUME stream' # <<>>
          PROVE  Head(stream').kind \in {"copy", "layoutOwn"} /\ Head(stream').batch = op.batch
      <3>1. Continues(op, Head(stream'))
          BY <1>1, <2>1, Follows DEF DraftInv, Ends
      <3> QED
          BY <1>1, <3>1 DEF Continues
    <2>2. ASSUME NEW i \in 1 .. Len(op.batch)
          PROVE  /\ accepted'[op.batch[i]] \in 1 .. Window
                 /\ length'[op.batch[i]] >= accepted'[op.batch[i]] + 1
      <3> DEFINE r == op.batch[i]
      <3>1. r \in members /\ r \in Requests /\ length[r] >= 1 /\ length[r] \in Nat
          BY <1>4, <1>5
      <3> HIDE DEF r
      <3>2. accepted'[r] = n[r] /\ length'[r] = length[r] + n[r]
          BY <1>2, <3>1
      <3>3. accepted'[r] \in 1 .. Window /\ length'[r] >= accepted'[r] + 1
          BY <1>6, <3>1, <3>2
      <3> QED
          BY <3>3 DEF r
    <2> HIDE DEF op
    <2> QED
        BY <1>1, <2>1, <2>2 DEF HeadInv
  <1> QED
      BY <1>1, <1>7, <1>8, <1>9, DeviceStep

LEMMA RunCopyKeeps == DraftInv /\ RunCopy => DraftInv'
  <1> SUFFICES ASSUME DraftInv, RunCopy PROVE DraftInv'
      OBVIOUS
  <1> DEFINE op == Head(stream)
  <1>1. /\ stream # <<>> /\ op.kind = "copy" /\ stream' = Tail(stream)
        /\ UNCHANGED hostVars /\ UNCHANGED <<length, accepted, layout, stored>>
        /\ staged' = [i \in DOMAIN staged |->
                        IF i \in DOMAIN op.lens THEN pins[op.half][i] ELSE staged[i]]
      BY DEF RunCopy, Run
  <1>2. /\ op = stream[1] /\ 1 \in 1 .. Len(stream) /\ op \in Ops /\ IsOp(op)
      BY <1>1, HeadIsOp DEF DraftInv
  <1>3. /\ op.lens \in Seq(Nat) /\ op.half \in 0 .. 1 /\ Len(op.lens) <= Rows
        /\ DOMAIN op.lens = 1 .. Len(op.lens) /\ Len(op.lens) \in Nat /\ Rows \in Nat
    <2>1. op.lens \in Seq(Nat) /\ op.half \in 0 .. 1
        BY <1>1, <1>2 DEF Ops, Prefills, Iterations
    <2>2. Len(op.lens) \in Len(op.batch) .. Rows
        BY <1>1, <1>2 DEF IsOp
    <2>3. DOMAIN op.lens = 1 .. Len(op.lens) /\ Len(op.lens) \in Nat
        BY <2>1, LenProperties
    <2>4. Rows \in Nat
        BY DraftAssumption DEF DraftAssumption
    <2> QED
        BY <2>1, <2>2, <2>3, <2>4
  <1>4. staged \in [1 .. Rows -> Nat] /\ pins \in [0 .. 1 -> [1 .. Rows -> Nat]]
      BY DEF DraftInv, DeviceTypes, HostTypes
  <1>5. \A i \in 1 .. Len(op.lens) : pins[op.half][i] = op.lens[i]
    <2>1. 1 \in Copies(stream)
        BY <1>1, <1>2 DEF Copies
    <2> QED
        BY <1>2, <2>1 DEF DraftInv, PinsInv, Pinned
  <1>6. staged' \in [1 .. Rows -> Nat] /\ \A i \in 1 .. Len(op.lens) : staged'[i] = op.lens[i]
    <2> HIDE DEF op
    <2>0. pins[op.half] \in [1 .. Rows -> Nat]
        BY <1>3, <1>4
    <2>1. staged' = [i \in 1 .. Rows |-> IF i \in 1 .. Len(op.lens) THEN pins[op.half][i] ELSE staged[i]]
        BY <1>1, <1>3, <1>4
    <2>2. \A i \in 1 .. Len(op.lens) : i \in 1 .. Rows
        BY <1>3
    <2> QED
        BY <1>4, <1>5, <2>0, <2>1, <2>2
  <1>7. StepKeeps(op, stored, length, stored', length')
      BY <1>1 DEF StepKeeps, Delivers, Ends
  <1>8. DeviceTypes'
      BY <1>1, <1>6 DEF DraftInv, DeviceTypes
  <1>9. HeadInv'
    <2>1. ASSUME stream' # <<>>
          PROVE  /\ Head(stream').kind = "layout" /\ Head(stream').batch = op.batch
                 /\ Head(stream').lens = op.lens
      <3>1. Continues(op, Head(stream'))
          BY <1>1, <2>1, Follows DEF DraftInv, Ends
      <3> QED
          BY <1>1, <3>1 DEF Continues
    <2>2. \A i \in 1 .. Len(op.batch) :
            accepted[op.batch[i]] \in 1 .. Window /\ length[op.batch[i]] >= accepted[op.batch[i]] + 1
        BY <1>1 DEF DraftInv, HeadInv
    <2> HIDE DEF op
    <2> QED
        BY <1>1, <1>6, <2>1, <2>2 DEF HeadInv
  <1> QED
      BY <1>1, <1>7, <1>8, <1>9, DeviceStep

\* Products.
LEMMA ProductIsNat == ASSUME NEW a \in Nat, NEW b \in Nat PROVE a * b \in Nat
  OBVIOUS

LEMMA MultiplesRise ==
  ASSUME NEW a \in Nat, NEW b \in Nat, NEW c \in Nat, a <= b
  PROVE  a * c <= b * c
  <1>1. b = a + (b - a) /\ b - a \in Nat
      OBVIOUS
  <1>2. b * c = a * c + (b - a) * c
      BY <1>1
  <1>3. (b - a) * c \in Nat /\ a * c \in Nat
      BY <1>1
  <1> QED
      BY <1>2, <1>3

\* t[i] is the sum of the first i of m blocks of B.
BlockSums(t, B, m) ==
    /\ IsSums([i \in 0 .. m |-> t[i]], [i \in 1 .. m |-> B], m)
    /\ \A i \in 0 .. m : t[i] = i * B

\* The sums of the lengths of a replay: whole blocks up to the last real request.
LEMMA BlocksAddUp ==
  ASSUME NEW n \in Nat, NEW m \in 0 .. n, NEW B \in Nat, NEW t, NEW c, c \in [1 .. n -> Nat], IsSums(t, c, n),
         \A i \in 1 .. m : c[i] = B
  PROVE  BlockSums(t, B, m)
  <1>1. /\ t \in [0 .. n -> Nat] /\ t[0] = 0
        /\ \A i \in 1 .. m : t[i] = t[i - 1] + B
      BY DEF IsSums
  <1>2. IsSums([i \in 0 .. m |-> t[i]], [i \in 1 .. m |-> B], m)
    <2>1. \A i \in 1 .. m : i - 1 \in 0 .. m /\ i \in 0 .. m
        OBVIOUS
    <2>2. 0 \in 0 .. m /\ \A i \in 0 .. m : i \in 0 .. n
        OBVIOUS
    <2> QED
        BY <1>1, <2>1, <2>2 DEF IsSums
  <1> DEFINE S == {i \in 0 .. m : t[i] = i * B}
  <1>3. 0 \in S
      BY <1>1
  <1>4. ASSUME NEW i \in 0 .. m - 1, i \in S PROVE i + 1 \in S
    <2>1. i + 1 \in 1 .. m /\ (i + 1) - 1 = i /\ i + 1 \in 0 .. m /\ i \in Nat
        OBVIOUS
    <2>2. t[i + 1] = i * B + B
        BY <1>1, <1>4, <2>1
    <2>3. (i + 1) * B = i * B + B
        BY <2>1
    <2> QED
        BY <2>1, <2>2, <2>3
  <1>5. \A i \in 0 .. m : i \in S
    <2> HIDE DEF S
    <2>1. m \in Nat
        OBVIOUS
    <2> QED
        BY <1>3, <1>4, <2>1, Climb
  <1> QED
      BY <1>2, <1>5 DEF BlockSums

\* The lengths of an operation of an iteration.
Blocks(op) ==
    /\ Len(op.lens) \in Nat /\ Len(op.lens) >= Len(op.batch)
    /\ op.lens \in [1 .. Len(op.lens) -> Nat] /\ DOMAIN op.lens = 1 .. Len(op.lens)
    /\ \A i \in 1 .. Len(op.batch) : op.lens[i] = Block

LEMMA OpHasBlocks ==
  ASSUME NEW op, op \in Ops, IsOp(op), op.kind # "prefill"
  PROVE  Blocks(op)
  <1>1. op.lens \in Seq(Nat)
      BY DEF Ops, Prefills, Iterations
  <1>2. Len(op.lens) \in Nat /\ op.lens \in [1 .. Len(op.lens) -> Nat] /\ DOMAIN op.lens = 1 .. Len(op.lens)
      BY <1>1, LenProperties
  <1>3. Len(op.batch) \in Nat
      BY OpHasMembers DEF Members
  <1>4. Len(op.lens) \in Len(op.batch) .. Rows /\ \A i \in 1 .. Len(op.batch) : op.lens[i] = Block
      BY DEF IsOp
  <1>5. Rows \in Nat
      BY DraftAssumption DEF DraftAssumption
  <1> QED
      BY <1>2, <1>3, <1>4, <1>5 DEF Blocks

LEMMA BlockIsSome == Block \in Nat \ {0} /\ Window \in Nat \ {0} /\ FrontTokens \in 0 .. 1 /\ Block = FrontTokens + Window
  BY DraftAssumption DEF DraftAssumption, Block

\* The sums of an operation's lengths.
LEMMA LensAddUp ==
  ASSUME NEW op, Members(op), Blocks(op)
  PROVE  BlockSums(CumSum(op.lens), Block, Len(op.batch))
  <1> DEFINE t == CumSum(op.lens)  m == Len(op.lens)  n == Len(op.batch)
  <1>1. /\ m \in Nat /\ n \in Nat /\ m >= n /\ op.lens \in [1 .. m -> Nat]
        /\ \A i \in 1 .. n : op.lens[i] = Block
      BY DEF Members, Blocks
  <1> HIDE DEF n
  <1>2. IsSums(t, op.lens, m)
      BY <1>1, SumsAreSums
  <1> HIDE DEF t, m
  <1>3. n \in 0 .. m /\ Block \in Nat
      BY <1>1, BlockIsSome
  <1> DEFINE c == op.lens  B == Block
  <1>a. /\ c \in [1 .. m -> Nat] /\ IsSums(t, c, m) /\ m \in Nat /\ n \in 0 .. m /\ B \in Nat
        /\ \A i \in 1 .. n : c[i] = B
      BY <1>1, <1>2, <1>3
  <1> HIDE DEF c, B
  <1>b. BlockSums(t, B, n)
      BY ONLY <1>a, BlocksAddUp
  <1> QED
      BY <1>b DEF t, n, B

\* The row of an anchor: within its request's block, within the layout.
LEMMA AnchorIsWithin ==
  ASSUME NEW op, Members(op), Blocks(op), NEW lay, NEW acc, Len(lay) = Len(op.lens) * Block,
         NEW i \in 1 .. Len(op.batch), acc[op.batch[i]] \in 1 .. Window
  PROVE  /\ AnchorAt(op, i, lay, acc) = (i - 1) * Block + (FrontTokens + acc[op.batch[i]])
         /\ FrontTokens + acc[op.batch[i]] \in 1 .. Block
  <1> DEFINE t == CumSum(op.lens)  n == Len(op.batch)  a == acc[op.batch[i]]  x == (i - 1) * Block
  <1>1. \A k \in 0 .. n : t[k] = k * Block
      BY LensAddUp DEF BlockSums
  <1>2. /\ n \in Nat /\ Len(op.lens) \in Nat /\ Len(op.lens) >= n /\ op.lens[i] = Block /\ i \in DOMAIN op.batch
      BY DEF Members, Blocks
  <1>3. i \in 0 .. n /\ i - 1 \in Nat /\ i \in Nat /\ i <= n /\ i <= Len(op.lens)
      BY <1>2
  <1>4. i * Block = x + Block /\ x \in Nat
      BY <1>3, BlockIsSome
  <1>5. i * Block <= Len(op.lens) * Block
      BY <1>2, <1>3, BlockIsSome, MultiplesRise
  <1>6. FrontTokens + a \in 1 .. Block
      BY BlockIsSome
  <1> DEFINE L == Len(lay)  ti == t[i]  B == Block  F == FrontTokens
  <1>7. L \in Nat
    <2>1. Len(op.lens) * Block \in Nat
        BY <1>2, BlockIsSome, ProductIsNat
    <2> QED
        BY <2>1
  <1>b. ti = i * Block /\ Len(op.lens) * Block = L
      BY <1>1, <1>3
  <1>8. ti = x + B /\ x + B <= L /\ a \in Nat /\ F \in Nat /\ B \in Nat /\ F + a \in 1 .. B
    <2>1. ti = x + B /\ x + B <= L
      <3> HIDE DEF ti, x, L
      <3> QED
          BY <1>4, <1>5, <1>b
    <2>2. a \in Nat /\ F \in Nat /\ B \in Nat /\ F + a \in 1 .. B
        BY <1>6, BlockIsSome
    <2> QED
        BY <2>1, <2>2
  <1>9. AnchorAt(op, i, lay, acc) = IF F + a + ti - B < 1 THEN 1
                                     ELSE IF F + a + ti - B < L THEN F + a + ti - B ELSE L
    <2>1. op.lens[i] = B
        BY <1>2
    <2> HIDE DEF x, B, F, L, n
    <2> QED
        BY <1>2, <2>1 DEF AnchorAt, Lower, L, F
  <1> HIDE DEF t, n, a, x, L, ti, B, F
  <1>10. F + a + ti - B = x + (F + a) /\ x + (F + a) \in 1 .. L
      BY ONLY <1>4, <1>7, <1>8
  <1>11. AnchorAt(op, i, lay, acc) = x + (F + a)
      BY <1>7, <1>9, <1>10
  <1> QED
      BY <1>6, <1>11 DEF a, x, F

\* The row of a block that holds the last accepted token.
LEMMA LastAcceptedRow ==
  ASSUME NEW len \in Nat, NEW acc \in 1 .. Window, len >= acc + 1, NEW j \in 1 .. Block
  PROVE  LET seqLen == len - acc + Window
             upto == Lower(Monus(seqLen, Block) + j, seqLen)
         IN  upto \in Nat /\ (j = FrontTokens + acc => upto = len)
  BY BlockIsSome DEF Lower, Monus

\* The rows that a draft extend is laid out in, at the place of an anchor.
LEMMA RowsAreLaidOut ==
  ASSUME NEW op, Members(op), Blocks(op), NEW lens,
         \A i \in 1 .. Len(op.batch) : lens[i] = Block,
         \A i \in 1 .. Len(op.batch) :
            /\ length[op.batch[i]] \in Nat /\ accepted[op.batch[i]] \in 1 .. Window
            /\ length[op.batch[i]] >= accepted[op.batch[i]] + 1,
         NEW k \in 1 .. Len(op.batch)
  PROVE  /\ Len(RowsOf(op, lens)) = Len(op.lens) * Block
         /\ RowsOf(op, lens)[(k - 1) * Block + (FrontTokens + accepted[op.batch[k]])]
              = Selection(op.batch[k], length[op.batch[k]])
  <1> DEFINE n == Len(op.batch)
             SeqLen(i) == length[op.batch[i]] - accepted[op.batch[i]] + Window
             RowBlock(i) == [j \in 1 .. lens[i] |->
                              Selection(op.batch[i], Lower(Monus(SeqLen(i), lens[i]) + j, SeqLen(i)))]
             seqs == [i \in DOMAIN op.batch |-> RowBlock(i)]
             packed == FlattenSeq(seqs)
             capacity == Len(op.lens) * Block
             rows == [x \in 1 .. capacity |-> IF x <= Len(packed) THEN packed[x] ELSE Selection(op.batch[1], 1)]
             c == [i \in 1 .. n |-> Block]
             ends == CumSum(op.lens)
             t == [i \in 0 .. n |-> ends[i]]
             at == (k - 1) * Block
             j0 == FrontTokens + accepted[op.batch[k]]
  <1>1. RowsOf(op, lens) = rows
      BY DEF RowsOf
  <1>2. n \in Nat \ {0} /\ DOMAIN op.batch = 1 .. n /\ \A i \in 1 .. n : op.batch[i] \in Requests
      BY DEF Members
  <1>3. Block \in Nat /\ Len(op.lens) \in Nat /\ n <= Len(op.lens)
      BY BlockIsSome DEF Blocks
  <1>4. capacity \in Nat
      BY <1>3, ProductIsNat
  <1>5. ASSUME NEW i \in 1 .. n
        PROVE  /\ seqs[i] \in Seq(Selections) /\ Len(seqs[i]) = Block
               /\ \A j \in 1 .. Block : seqs[i][j] =
                    Selection(op.batch[i], Lower(Monus(SeqLen(i), Block) + j, SeqLen(i)))
    <2> DEFINE V(j) == Selection(op.batch[i], Lower(Monus(SeqLen(i), Block) + j, SeqLen(i)))
    <2>1. seqs[i] = [j \in 1 .. Block |-> V(j)]
        BY <1>2
    <2>2. \A j \in 1 .. Block : V(j) \in Selections
      <3>1. \A j \in 1 .. Block : Lower(Monus(SeqLen(i), Block) + j, SeqLen(i)) \in Nat
          BY LastAcceptedRow
      <3> HIDE DEF SeqLen
      <3> QED
          BY <1>2, <3>1 DEF Selection, Selections
    <2> HIDE DEF V, seqs
    <2> QED
        BY <1>3, <2>1, <2>2 DEF V
  <1>6. /\ ends \in [0 .. Len(op.lens) -> Nat]
        /\ IsSums(t, c, n) /\ \A i \in 0 .. n : t[i] = i * Block
    <2>1. BlockSums(ends, Block, n)
        BY LensAddUp
    <2>2. op.lens \in [1 .. Len(op.lens) -> Nat]
        BY DEF Blocks
    <2>3. ends \in [0 .. Len(op.lens) -> Nat]
        BY <1>3, <2>2, SumsAreSums DEF IsSums
    <2> HIDE DEF ends
    <2> QED
        BY <2>1, <2>3 DEF BlockSums
  <1>7. Len(seqs) = n /\ c \in [1 .. n -> Nat] /\ \A i \in 1 .. n : c[i] = Block
    <2> HIDE DEF RowBlock
    <2> QED
        BY <1>2, <1>3
  <1>8. IsPacked(packed, seqs, Selections, c, t, n)
    <2>1. IsRagged(seqs, Selections, c, t, n)
      <3> HIDE DEF seqs, c, t, n
      <3> QED
          BY <1>5, <1>6, <1>7 DEF IsRagged
    <2> HIDE DEF seqs, c, t, n
    <2> QED
        BY <1>2, <2>1, FlattenIs
  <1> HIDE DEF seqs, t, ends
  <1>9. /\ Len(packed) = n * Block
        /\ \A i \in 1 .. n : \A j \in 1 .. Block : packed[(i - 1) * Block + j] = seqs[i][j]
    <2>1. /\ Len(packed) = t[n]
          /\ \A i \in 1 .. n : \A j \in 1 .. c[i] : packed[t[i - 1] + j] = seqs[i][j]
        BY <1>8 DEF IsPacked
    <2>2. n \in 0 .. n /\ \A i \in 1 .. n : i - 1 \in 0 .. n
        BY <1>2
    <2>3. t[n] = n * Block
        BY <1>6, <2>2
    <2> HIDE DEF c, packed
    <2>4. ASSUME NEW i \in 1 .. n, NEW j \in 1 .. Block PROVE packed[(i - 1) * Block + j] = seqs[i][j]
      <3>1. t[i - 1] = (i - 1) * Block /\ c[i] = Block
          BY <1>6, <1>7, <2>2
      <3>2. packed[t[i - 1] + j] = seqs[i][j]
          BY <2>1, <3>1
      <3> QED
          BY <3>1, <3>2
    <2> QED
        BY <2>1, <2>3, <2>4
  <1>10. k \in 1 .. n /\ j0 \in 1 .. Block /\ accepted[op.batch[k]] \in 1 .. Window
      BY BlockIsSome
  <1>11. seqs[k][j0] = Selection(op.batch[k], length[op.batch[k]])
    <2>1. Lower(Monus(SeqLen(k), Block) + j0, SeqLen(k)) = length[op.batch[k]]
        BY <1>10, LastAcceptedRow
    <2> HIDE DEF SeqLen, j0
    <2> QED
        BY <1>5, <1>10, <2>1
  <1>12. at + j0 \in 1 .. capacity /\ at + j0 <= Len(packed)
    <2>1. k * Block <= n * Block /\ n * Block <= capacity
      <3>1. k \in Nat /\ k <= n /\ n \in Nat /\ Block \in Nat /\ Len(op.lens) \in Nat
          BY <1>2, <1>3, <1>10
      <3> HIDE DEF n
      <3>2. k * Block <= n * Block
          BY <3>1, MultiplesRise
      <3>3. n * Block <= Len(op.lens) * Block
          BY <1>3, <3>1, MultiplesRise
      <3> QED
          BY <3>2, <3>3
    <2>2. k * Block = at + Block /\ at \in Nat /\ n * Block \in Nat
        BY <1>2, <1>3, <1>10
    <2> DEFINE kB == k * Block  nB == n * Block  B == Block
    <2>3. /\ kB <= nB /\ nB <= capacity /\ kB = at + B /\ at \in Nat /\ nB \in Nat /\ capacity \in Nat
          /\ B \in Nat /\ j0 \in 1 .. B /\ Len(packed) = nB
        BY <1>3, <1>4, <1>9, <1>10, <2>1, <2>2
    <2> HIDE DEF at, j0, capacity, kB, nB, B, packed
    <2> QED
        BY ONLY <2>3
  <1>13. packed[at + j0] = seqs[k][j0]
      BY <1>9, <1>10
  <1> HIDE DEF packed, capacity, at, j0
  <1>14. Len(rows) = capacity /\ rows[at + j0] = packed[at + j0]
      BY <1>4, <1>12
  <1> QED
      BY <1>1, <1>11, <1>13, <1>14 DEF capacity, at, j0

LEMMA RunLayoutKeeps == DraftInv /\ RunLayout => DraftInv'
  <1> SUFFICES ASSUME DraftInv, RunLayout PROVE DraftInv'
      OBVIOUS
  <1> DEFINE op == Head(stream)
  <1>1. /\ stream # <<>> /\ op.kind \in {"layout", "layoutOwn"} /\ stream' = Tail(stream)
        /\ UNCHANGED hostVars /\ UNCHANGED <<length, accepted, staged, stored>>
        /\ layout' = RowsOf(op, IF op.kind = "layout" THEN staged ELSE op.lens)
      BY DEF RunLayout, Run
  <1>2. op \in Ops /\ IsOp(op) /\ Members(op)
      BY <1>1, HeadIsOp DEF DraftInv
  <1>3. Blocks(op)
      BY <1>1, <1>2, OpHasBlocks
  <1> DEFINE lens == IF op.kind = "layout" THEN staged ELSE op.lens
  <1>4. \A i \in 1 .. Len(op.batch) : lens[i] = Block
    <2>1. CASE op.kind = "layout"
      <3>1. \A i \in 1 .. Len(op.lens) : staged[i] = op.lens[i]
          BY <1>1, <2>1 DEF DraftInv, HeadInv
      <3>2. \A i \in 1 .. Len(op.batch) : i \in 1 .. Len(op.lens) /\ op.lens[i] = Block
          BY <1>2, <1>3 DEF Members, Blocks
      <3> QED
          BY <2>1, <3>1, <3>2
    <2>2. CASE op.kind # "layout"
        BY <1>3, <2>2 DEF Blocks
    <2> QED
        BY <2>1, <2>2
  <1>5. \A i \in 1 .. Len(op.batch) :
            /\ length[op.batch[i]] \in Nat /\ accepted[op.batch[i]] \in 1 .. Window
            /\ length[op.batch[i]] >= accepted[op.batch[i]] + 1
      BY <1>1, <1>2 DEF DraftInv, DeviceTypes, HeadInv, Members
  <1>6. StepKeeps(op, stored, length, stored', length')
      BY <1>1 DEF StepKeeps, Delivers, Ends
  <1>7. DeviceTypes'
      BY <1>1 DEF DraftInv, DeviceTypes
  <1>8. ASSUME NEW i \in 1 .. Len(op.batch)
        PROVE  layout'[AnchorAt(op, i, layout', accepted')] = Selection(op.batch[i], length'[op.batch[i]])
    <2> HIDE DEF op, lens
    <2>1. /\ Len(RowsOf(op, lens)) = Len(op.lens) * Block
          /\ RowsOf(op, lens)[(i - 1) * Block + (FrontTokens + accepted[op.batch[i]])]
               = Selection(op.batch[i], length[op.batch[i]])
        BY <1>2, <1>3, <1>4, <1>5, RowsAreLaidOut
    <2>2. layout' = RowsOf(op, lens)
        BY <1>1 DEF lens
    <2>3. Len(layout') = Len(op.lens) * Block /\ accepted'[op.batch[i]] \in 1 .. Window
        BY <1>1, <1>5, <2>1, <2>2
    <2>4. AnchorAt(op, i, layout', accepted') = (i - 1) * Block + (FrontTokens + accepted'[op.batch[i]])
        BY <1>2, <1>3, <2>3, AnchorIsWithin
    <2> QED
        BY <1>1, <2>1, <2>2, <2>4
  <1>9. HeadInv'
    <2>1. ASSUME stream' # <<>>
          PROVE  Head(stream').kind = "extend" /\ Head(stream').batch = op.batch /\ Head(stream').lens = op.lens
      <3>1. Continues(op, Head(stream'))
          BY <1>1, <2>1, Follows DEF DraftInv, Ends
      <3> QED
          BY <1>1, <3>1 DEF Continues
    <2> DEFINE next == Head(stream')
    <2>2. ASSUME stream' # <<>>, NEW i \in 1 .. Len(op.batch)
          PROVE  AnchorAt(next, i, layout', accepted') = AnchorAt(op, i, layout', accepted')
        BY <2>1, <2>2 DEF AnchorAt
    <2>3. /\ \A i \in 1 .. Len(op.batch) :
            accepted'[op.batch[i]] \in 1 .. Window /\ length'[op.batch[i]] >= accepted'[op.batch[i]] + 1
        BY <1>1, <1>5
    <2> HIDE DEF op
    <2> QED
        BY <1>8, <2>1, <2>2, <2>3 DEF HeadInv
  <1> QED
      BY <1>1, <1>6, <1>7, <1>9, DeviceStep

LEMMA RunExtendKeeps == DraftInv /\ RunExtend => DraftInv'
  <1> SUFFICES ASSUME DraftInv, RunExtend PROVE DraftInv'
      OBVIOUS
  <1> DEFINE op == Head(stream)
             kept == {i \in DOMAIN op.batch : op.lens[i] > 0 /\ op.pool[i] > 0}
  <1>1. /\ stream # <<>> /\ op.kind = "extend" /\ stream' = Tail(stream)
        /\ UNCHANGED hostVars /\ UNCHANGED <<length, accepted, staged>>
        /\ stored' = [p \in DOMAIN stored |->
             IF \E i \in kept : op.pool[i] = p
             THEN layout[AnchorRows(op)[CHOOSE i \in kept : op.pool[i] = p]] ELSE stored[p]]
      BY DEF RunExtend, Run
  <1>2. op \in Ops /\ IsOp(op) /\ Members(op)
      BY <1>1, HeadIsOp DEF DraftInv
  <1>3. Blocks(op)
      BY <1>1, <1>2, OpHasBlocks
  <1>4. kept = 1 .. Len(op.batch)
    <2>1. \A i \in 1 .. Len(op.batch) : op.lens[i] > 0 /\ op.pool[i] > 0
        BY <1>2, <1>3, BlockIsSome DEF Members, Blocks
    <2> HIDE DEF op
    <2> QED
        BY <1>2, <2>1 DEF Members
  <1>5. ASSUME NEW i \in 1 .. Len(op.batch)
        PROVE  /\ layout[AnchorRows(op)[i]] = Selection(op.batch[i], length[op.batch[i]])
               /\ length[op.batch[i]] \in Nat /\ length[op.batch[i]] >= 1
    <2>1. layout[AnchorAt(op, i, layout, accepted)] = Selection(op.batch[i], length[op.batch[i]])
        BY <1>1 DEF DraftInv, HeadInv
    <2>2. AnchorRows(op)[i] = AnchorAt(op, i, layout, accepted)
      <3> HIDE DEF op
      <3>1. i \in DOMAIN op.batch
          BY <1>2 DEF Members
      <3> QED
          BY <3>1 DEF AnchorRows, AnchorAt
    <2>3. length[op.batch[i]] \in Nat
        BY <1>2 DEF Members, DraftInv, DeviceTypes
    <2>4. accepted[op.batch[i]] \in 1 .. Window /\ length[op.batch[i]] >= accepted[op.batch[i]] + 1
        BY <1>1 DEF DraftInv, HeadInv
    <2>5. Window \in Nat
        BY BlockIsSome
    <2> HIDE DEF op
    <2> QED
        BY <2>1, <2>2, <2>3, <2>4, <2>5
  <1>6. DOMAIN stored = 1 .. Rows /\ stored \in [1 .. Rows -> Selections]
      BY DEF DraftInv, DeviceTypes
  <1>7. ASSUME NEW i \in 1 .. Len(op.batch)
        PROVE  stored'[op.pool[i]] = Selection(op.batch[i], length[op.batch[i]])
    <2> DEFINE p == op.pool[i]
               chosen == CHOOSE x \in kept : op.pool[x] = p
    <2>1. p \in 1 .. Rows
        BY <1>2 DEF Members
    <2>2. chosen \in 1 .. Len(op.batch) /\ op.pool[chosen] = p
        BY <1>4
    <2>3. chosen = i
      <3> HIDE DEF chosen, op
      <3> QED
          BY <1>2, <2>2 DEF Members
    <2>4. stored'[p] = layout[AnchorRows(op)[chosen]]
      <3> HIDE DEF op, chosen
      <3>1. \E x \in kept : op.pool[x] = p
          BY <1>4
      <3>2. stored'[p] = layout[AnchorRows(op)[CHOOSE x \in kept : op.pool[x] = p]]
        <4> HIDE DEF kept, p
        <4> QED
            BY <1>1, <1>6, <2>1, <3>1
      <3> QED
          BY <3>2 DEF chosen
    <2> HIDE DEF chosen
    <2> QED
        BY <1>5, <2>3, <2>4
  <1>8. ASSUME NEW p \in 1 .. Rows, \A i \in 1 .. Len(op.batch) : op.pool[i] # p
        PROVE  stored'[p] = stored[p]
    <2> HIDE DEF op
    <2> QED
        BY <1>1, <1>4, <1>6, <1>8
  <1> HIDE DEF kept
  <1>9. StepKeeps(op, stored, length, stored', length')
    <2> HIDE DEF op
    <2>1. \A r \in Requests : \A p \in 1 .. Rows :
            ~Touches(op, r, p) => stored'[p] = stored[p] /\ length'[r] = length[r]
        BY <1>1, <1>8 DEF Touches
    <2>2. ASSUME NEW r \in Requests, NEW p \in 1 .. Rows, Delivers(op, r, p)
          PROVE  Current(stored', length', r, p)
      <3>1. PICK i \in 1 .. Len(op.batch) : op.batch[i] = r /\ op.pool[i] = p
          BY <2>2 DEF Delivers
      <3> QED
          BY <1>1, <1>5, <1>7, <3>1 DEF Current
    <2> QED
        BY <2>1, <2>2 DEF StepKeeps
  <1>10. DeviceTypes'
    <2> HIDE DEF op
    <2>1. ASSUME NEW p \in 1 .. Rows PROVE stored'[p] \in Selections
      <3>1. CASE \A i \in 1 .. Len(op.batch) : op.pool[i] # p
          BY <1>6, <1>8, <3>1
      <3>2. ASSUME NEW i \in 1 .. Len(op.batch), op.pool[i] = p PROVE stored'[p] \in Selections
        <4>1. op.batch[i] \in Requests
            BY <1>2 DEF Members
        <4>2. Selection(op.batch[i], length[op.batch[i]]) \in Selections
            BY <1>5, <4>1 DEF Selection, Selections
        <4>3. stored'[op.pool[i]] = Selection(op.batch[i], length[op.batch[i]])
            BY <1>7
        <4> QED
            BY <3>2, <4>2, <4>3
      <3> QED
          BY <3>1, <3>2
    <2>2. stored' \in [1 .. Rows -> Selections]
        BY <1>1, <1>6, <2>1
    <2> QED
        BY <1>1, <2>2 DEF DraftInv, DeviceTypes
  <1>11. HeadInv'
      BY <1>1, NextForward DEF Ends
  <1> QED
      BY <1>1, <1>9, <1>10, <1>11, DeviceStep

\* The k-th of the things in n parts is the j-th of part a.
IsPart(t, c, n, k, a, j) == a \in 1 .. n /\ j \in 1 .. c[a] /\ k = t[a - 1] + j

\* A position among n parts is in one of them, and in no other.
LEMMA PartsAreApart ==
  ASSUME NEW n \in Nat, NEW t, NEW c, c \in [1 .. n -> Nat], IsSums(t, c, n),
         NEW m, NEW a, NEW b, NEW j, NEW k, IsPart(t, c, n, m, a, j), IsPart(t, c, n, m, b, k)
  PROVE  a = b /\ j = k
  <1>0. /\ a \in 1 .. n /\ b \in 1 .. n /\ j \in 1 .. c[a] /\ k \in 1 .. c[b]
        /\ t[a - 1] + j = t[b - 1] + k
      BY DEF IsPart
  <1>1. ASSUME NEW x \in 1 .. n, NEW y \in 1 .. n, x < y PROVE t[x - 1] + c[x] <= t[y - 1]
    <2>1. x \in 0 .. n /\ y - 1 \in x .. n
        BY <1>1
    <2>2. t[x] <= t[y - 1]
        BY <2>1, SumsRise
    <2> QED
        BY <2>2 DEF IsSums
  <1>2. /\ t[a - 1] \in Nat /\ t[b - 1] \in Nat /\ c[a] \in Nat /\ c[b] \in Nat
    <2>1. a - 1 \in 0 .. n /\ b - 1 \in 0 .. n
        BY <1>0
    <2> QED
        BY <1>0, <2>1 DEF IsSums
  <1> DEFINE ta == t[a - 1]  tb == t[b - 1]  ca == c[a]  cb == c[b]
  <1>3. /\ ta \in Nat /\ tb \in Nat /\ ca \in Nat /\ cb \in Nat
        /\ j \in 1 .. ca /\ k \in 1 .. cb /\ ta + j = tb + k
      BY <1>0, <1>2
  <1>4. (a < b => ta + ca <= tb) /\ (b < a => tb + cb <= ta)
      BY <1>0, <1>1
  <1>5. a = b => ta = tb
      OBVIOUS
  <1>6. a \in Nat /\ b \in Nat
      BY <1>0
  <1> HIDE DEF ta, tb, ca, cb
  <1>7. ~ (a < b) /\ ~ (b < a)
      BY ONLY <1>3, <1>4
  <1>8. a = b
      BY ONLY <1>6, <1>7
  <1> QED
      BY <1>3, <1>5, <1>8

LEMMA PartsCover ==
  ASSUME NEW n \in Nat, NEW t, NEW c, c \in [1 .. n -> Nat], IsSums(t, c, n), NEW k \in 1 .. t[n]
  PROVE  \E a : \E j : IsPart(t, c, n, k, a, j)
  <1> DEFINE T == {i \in 0 .. n : t[i] >= k}
  <1>1. /\ \A i \in 0 .. n : t[i] \in Nat
        /\ t[0] = 0 /\ \A i \in 1 .. n : t[i] = t[i - 1] + c[i] /\ c[i] \in Nat
      BY DEF IsSums
  <1>2. n \in T
      BY <1>1
  <1>3. PICK a \in T : \A y \in T : a <= y
    <2>1. T \subseteq Nat /\ T # {}
        BY <1>2
    <2> HIDE DEF T
    <2> QED
        BY <2>1, LeastElement
  <1>4. a \in 0 .. n /\ t[a] >= k /\ a # 0
      BY <1>1
  <1>5. a \in 1 .. n /\ a - 1 \in 0 .. n /\ a - 1 \notin T
      BY <1>3, <1>4
  <1>6. t[a - 1] < k /\ k <= t[a - 1] + c[a]
      BY <1>1, <1>4, <1>5
  <1> DEFINE j == k - t[a - 1]
  <1>7. j \in 1 .. c[a] /\ k = t[a - 1] + j
      BY <1>1, <1>5, <1>6
  <1>8. IsPart(t, c, n, k, a, j)
      BY <1>5, <1>7 DEF IsPart
  <1> QED
      BY <1>8

\* The chunks of a prefill.
Chunks(op) ==
    /\ op.chunks \in [1 .. Len(op.batch) -> Nat] /\ Len(op.chunks) = Len(op.batch)
    /\ \A i \in 1 .. Len(op.batch) : op.chunks[i] \in 1 .. MaxPrompt

LEMMA OpHasChunks ==
  ASSUME NEW op, op \in Ops, IsOp(op), op.kind = "prefill"
  PROVE  Chunks(op)
  <1>1. op.chunks \in Seq(Nat)
      BY DEF Ops, Prefills, Iterations, Parts
  <1>2. Len(op.chunks) = Len(op.batch) /\ \A i \in 1 .. Len(op.batch) : op.chunks[i] \in 1 .. MaxPrompt
      BY DEF IsOp
  <1> QED
      BY <1>1, <1>2, LenProperties DEF Chunks

\* The request and the place in its chunk of row k of a prefill, and the rows after which
\* the request changes, as RunPrefill has them.
RowOf(op, k) ==
    CHOOSE x \in {x \in (DOMAIN op.batch) \X (1 .. MaxPrompt) : x[2] <= op.chunks[x[1]]} :
        CumSum(op.chunks)[x[1] - 1] + x[2] = k
LastRows(op) ==
    LET total == CumSum(op.chunks)[Len(op.chunks)]
    IN  {k \in 1 .. total : k = total \/ op.pool[RowOf(op, k)[1]] # op.pool[RowOf(op, k + 1)[1]]}

\* The last row of the i-th request is the only one that is kept for its pool row.
LEMMA OneLastRow ==
  ASSUME NEW op, Members(op), Chunks(op), NEW i \in 1 .. Len(op.batch), NEW k
  PROVE  /\ (k \in LastRows(op) /\ op.pool[RowOf(op, k)[1]] = op.pool[i])
               <=> k = CumSum(op.chunks)[i]
         /\ RowOf(op, CumSum(op.chunks)[i]) = <<i, op.chunks[i]>>
         /\ k \in LastRows(op) => RowOf(op, k)[1] \in 1 .. Len(op.batch)
  <1> DEFINE n == Len(op.batch)  c == op.chunks  t == CumSum(c)
             rows == {x \in (DOMAIN op.batch) \X (1 .. MaxPrompt) : x[2] <= op.chunks[x[1]]}
             At(m) == RowOf(op, m)
  <1>1. /\ n \in Nat \ {0} /\ DOMAIN op.batch = 1 .. n
        /\ \A a, b \in 1 .. n : op.pool[a] = op.pool[b] => a = b
      BY DEF Members
  <1>2. c \in [1 .. n -> Nat] /\ Len(c) = n /\ \A a \in 1 .. n : c[a] \in 1 .. MaxPrompt
      BY DEF Chunks
  <1> HIDE DEF n, c
  <1>3. IsSums(t, c, n)
      BY <1>1, <1>2, SumsAreSums
  <1> HIDE DEF t
  <1>4. \A m : At(m) = CHOOSE x \in rows : t[x[1] - 1] + x[2] = m
      BY DEF RowOf, t, c
  <1>5. rows = {x \in (1 .. n) \X (1 .. MaxPrompt) : x[2] <= c[x[1]]}
      BY <1>1 DEF c
  <1>6. LastRows(op) = {m \in 1 .. t[n] : m = t[n] \/ op.pool[At(m)[1]] # op.pool[At(m + 1)[1]]}
      BY <1>2 DEF LastRows, t, c
  <1> HIDE DEF rows, At
  <1>7. ASSUME NEW a \in 1 .. n, NEW j \in 1 .. c[a] PROVE At(t[a - 1] + j) = <<a, j>>
    <2>1. <<a, j>> \in rows
      <3>1. c[a] \in 1 .. MaxPrompt /\ MaxPrompt \in Nat
          BY <1>2, DraftAssumption DEF DraftAssumption
      <3>2. j \in 1 .. MaxPrompt /\ j <= c[a]
          BY <3>1
      <3> QED
          BY <1>5, <3>2
    <2> DEFINE x == At(t[a - 1] + j)
    <2>2. x \in rows /\ t[x[1] - 1] + x[2] = t[a - 1] + j
        BY <1>4, <2>1
    <2> HIDE DEF x
    <2>3. x[1] \in 1 .. n /\ x[2] \in 1 .. c[x[1]] /\ x = <<x[1], x[2]>>
        BY <1>2, <1>5, <2>2
    <2> DEFINE b == x[1]  l == x[2]
    <2>a. b \in 1 .. n /\ l \in 1 .. c[b] /\ t[b - 1] + l = t[a - 1] + j /\ n \in Nat
        BY <1>1, <2>2, <2>3
    <2> HIDE DEF b, l
    <2> DEFINE m == t[a - 1] + j
    <2>c. IsPart(t, c, n, m, a, j) /\ IsPart(t, c, n, m, b, l)
        BY <2>a DEF IsPart
    <2> HIDE DEF m
    <2>b. b = a /\ l = j
        BY <1>2, <1>3, <2>a, <2>c, PartsAreApart
    <2>4. x[1] = a /\ x[2] = j
        BY <2>b DEF b, l
    <2> QED
        BY <2>3, <2>4 DEF x
  <1>8. /\ \A a \in 0 .. n : t[a] \in Nat
        /\ \A a \in 1 .. n : t[a] = t[a - 1] + c[a] /\ c[a] \in Nat \ {0} /\ a - 1 \in 0 .. n
    <2>1. /\ \A a \in 0 .. n : t[a] \in Nat
          /\ \A a \in 1 .. n : t[a] = t[a - 1] + c[a]
        BY <1>3 DEF IsSums
    <2>2. \A a \in 1 .. n : c[a] \in Nat \ {0}
        BY <1>2
    <2>3. \A a \in 1 .. n : a - 1 \in 0 .. n
        BY <1>1
    <2> QED
        BY <2>1, <2>2, <2>3
  <1>9. i \in 1 .. n /\ i \in 0 .. n
      BY DEF n
  <1>10. ASSUME NEW a \in 1 .. n PROVE t[a] \in 1 .. t[n] /\ (a # n => t[a] < t[n]) /\ At(t[a])[1] = a
    <2>1. a \in 0 .. n /\ n \in a .. n
        BY <1>1
    <2>2. t[a] <= t[n]
        BY <1>1, <1>2, <1>3, <2>1, SumsRise
    <2>3. a # n => t[a] < t[n]
      <3> SUFFICES ASSUME a # n PROVE t[a] < t[n]
          OBVIOUS
      <3>1. a + 1 \in 1 .. n /\ a + 1 \in 0 .. n /\ n \in a + 1 .. n /\ (a + 1) - 1 = a
          BY <1>1
      <3>2. t[a + 1] <= t[n]
          BY <1>1, <1>2, <1>3, <3>1, SumsRise
      <3>3. t[a + 1] = t[a] + c[a + 1] /\ c[a + 1] \in Nat \ {0} /\ t[a] \in Nat /\ t[n] \in Nat
          BY <1>1, <1>8, <2>1, <3>1
      <3> QED
          BY <3>2, <3>3
    <2>4. At(t[a - 1] + c[a]) = <<a, c[a]>>
      <3>1. c[a] \in 1 .. c[a]
          BY <1>8
      <3> QED
          BY <1>7, <3>1
    <2>5. t[a] \in Nat \ {0} /\ t[n] \in Nat
      <3>1. t[a] = t[a - 1] + c[a] /\ c[a] \in Nat \ {0} /\ t[a - 1] \in Nat
          BY <1>8
      <3>2. t[a] \in Nat \ {0}
          BY <3>1
      <3>3. n \in 0 .. n
          BY <1>1
      <3> QED
          BY <1>8, <3>2, <3>3
    <2> QED
        BY <1>8, <2>2, <2>3, <2>4, <2>5
  <1>11. ASSUME k = t[i] PROVE k \in LastRows(op) /\ op.pool[At(k)[1]] = op.pool[i]
    <2>1. k \in 1 .. t[n] /\ At(k)[1] = i
        BY <1>9, <1>10, <1>11
    <2>2. CASE i = n
        BY <1>6, <1>11, <2>1, <2>2
    <2>3. CASE i # n
      <3>1. i + 1 \in 1 .. n /\ (i + 1) - 1 = i
          BY <1>1, <1>9, <2>3
      <3>2. At(t[i] + 1) = <<i + 1, 1>>
        <4>1. 1 \in 1 .. c[i + 1]
            BY <1>8, <3>1
        <4> QED
            BY <1>7, <3>1, <4>1
      <3>3. At(k + 1)[1] = i + 1
          BY <1>11, <3>2
      <3>4. op.pool[i] # op.pool[i + 1]
          BY <1>1, <1>9, <3>1
      <3> QED
          BY <1>6, <2>1, <3>3, <3>4
    <2> QED
        BY <2>2, <2>3
  <1>13. At(t[i]) = <<i, c[i]>>
    <2>1. c[i] \in 1 .. c[i] /\ t[i] = t[i - 1] + c[i]
        BY <1>8, <1>9
    <2> QED
        BY <1>7, <1>9, <2>1
  <1>14. ASSUME k \in LastRows(op)
         PROVE  /\ k \in 1 .. t[n] /\ (k = t[n] \/ op.pool[At(k)[1]] # op.pool[At(k + 1)[1]])
                /\ \E a : \E j : IsPart(t, c, n, k, a, j) /\ At(k) = <<a, j>>
    <2>1. k \in 1 .. t[n] /\ (k = t[n] \/ op.pool[At(k)[1]] # op.pool[At(k + 1)[1]])
        BY <1>6, <1>14
    <2>0. n \in Nat
        BY <1>1
    <2>a. \E a : \E j : IsPart(t, c, n, k, a, j)
        BY <1>2, <1>3, <2>0, <2>1, PartsCover
    <2>2. PICK a, j : IsPart(t, c, n, k, a, j)
        BY <2>a
    <2>3. At(k) = <<a, j>>
        BY <1>7, <2>2 DEF IsPart
    <2> QED
        BY <2>1, <2>2, <2>3
  <1>15. ASSUME k \in LastRows(op) PROVE At(k)[1] \in 1 .. n
      BY <1>14, <1>15 DEF IsPart
  <1>12. ASSUME k \in LastRows(op), op.pool[At(k)[1]] = op.pool[i] PROVE k = t[i]
    <2>1. k \in 1 .. t[n] /\ (k = t[n] \/ op.pool[At(k)[1]] # op.pool[At(k + 1)[1]])
        BY <1>12, <1>14
    <2>2. PICK a, j : IsPart(t, c, n, k, a, j) /\ At(k) = <<a, j>>
        BY <1>12, <1>14
    <2>3. a \in 1 .. n /\ j \in 1 .. c[a] /\ k = t[a - 1] + j
        BY <2>2 DEF IsPart
    <2>4. At(k) = <<a, j>>
        BY <2>2
    <2>5. a = i
        BY <1>1, <1>9, <1>12, <2>4, <2>3
    <2>6. t[a] = t[a - 1] + c[a] /\ t[a - 1] \in Nat /\ c[a] \in Nat
        BY <1>8, <2>3
    <2>7. ASSUME j # c[a] PROVE FALSE
      <3>1. j + 1 \in 1 .. c[a] /\ k + 1 = t[a - 1] + (j + 1) /\ k < t[a]
        <4> DEFINE x == t[a - 1]  y == c[a]  z == t[a]
        <4>1. z = x + y /\ x \in Nat /\ y \in Nat /\ j \in 1 .. y /\ j # y /\ k = x + j
            BY <2>3, <2>6, <2>7
        <4> HIDE DEF x, y, z
        <4>2. j + 1 \in 1 .. y /\ k + 1 = x + (j + 1) /\ k < z
            BY ONLY <4>1
        <4> QED
            BY <4>2 DEF x, y, z
      <3>2. At(k + 1) = <<a, j + 1>>
          BY <1>7, <2>3, <3>1
      <3>3. k # t[n]
        <4>1. t[a] \in 1 .. t[n]
            BY <1>10, <2>3
        <4>2. t[n] \in Nat /\ k \in Nat
            BY <1>1, <1>8, <2>1
        <4> QED
            BY <3>1, <4>1, <4>2
      <3> QED
          BY <2>1, <2>4, <3>2, <3>3
    <2> QED
        BY <2>3, <2>5, <2>6, <2>7
  <1> QED
      BY <1>11, <1>12, <1>13, <1>15 DEF t, c, n, At

LEMMA RunPrefillKeeps == DraftInv /\ RunPrefill => DraftInv'
  <1> SUFFICES ASSUME DraftInv, RunPrefill PROVE DraftInv'
      OBVIOUS
  <1> DEFINE op == Head(stream)
             ends == CumSum(op.chunks)
             RowAt(k) == Selection(op.batch[RowOf(op, k)[1]],
                                   length[op.batch[RowOf(op, k)[1]]] + RowOf(op, k)[2])
             B == op.batch  C == op.chunks  n == Len(B)  P == op.pool
  <1>1. /\ stream # <<>> /\ op.kind = "prefill" /\ stream' = Tail(stream)
        /\ UNCHANGED hostVars /\ UNCHANGED <<accepted, staged, layout>>
        /\ length' = [r \in Requests |->
             IF \E i \in DOMAIN B : B[i] = r
             THEN length[r] + C[CHOOSE i \in DOMAIN B : B[i] = r] ELSE length[r]]
      BY DEF RunPrefill, Run
  <1>2. stored' = [p \in DOMAIN stored |->
             IF \E k \in LastRows(op) : P[RowOf(op, k)[1]] = p
             THEN RowAt(CHOOSE k \in LastRows(op) : P[RowOf(op, k)[1]] = p) ELSE stored[p]]
      BY DEF RunPrefill, LastRows, RowOf
  <1>3. op \in Ops /\ IsOp(op) /\ Members(op)
      BY <1>1, HeadIsOp DEF DraftInv
  <1>4. Chunks(op)
      BY <1>1, <1>3, OpHasChunks
  <1>5. /\ DOMAIN stored = 1 .. Rows /\ stored \in [1 .. Rows -> Selections]
        /\ length \in [Requests -> Nat]
      BY DEF DraftInv, DeviceTypes
  <1>6. /\ DOMAIN B = 1 .. n /\ \A i \in 1 .. n : B[i] \in Requests /\ P[i] \in 1 .. Rows
        /\ \A i, j \in 1 .. n : B[i] = B[j] \/ P[i] = P[j] => i = j
        /\ \A i \in 1 .. n : C[i] \in Nat \ {0}
    <2>1. \A i \in 1 .. n : C[i] \in Nat \ {0}
        BY <1>4, DraftAssumption DEF Chunks, DraftAssumption
    <2> QED
        BY <1>3, <2>1 DEF Members
  <1>7. \A k : \A i \in 1 .. n :
          /\ (k \in LastRows(op) /\ P[RowOf(op, k)[1]] = P[i]) <=> k = ends[i]
          /\ RowOf(op, ends[i]) = <<i, C[i]>>
          /\ k \in LastRows(op) => RowOf(op, k)[1] \in 1 .. n
    <2> HIDE DEF op
    <2> QED
        BY <1>3, <1>4, OneLastRow
  <1>8. ASSUME NEW i \in 1 .. n
        PROVE  length'[B[i]] = length[B[i]] + C[i] /\ length'[B[i]] \in Nat \ {0}
    <2> DEFINE r == B[i]  chosen == CHOOSE x \in DOMAIN B : B[x] = r
    <2> HIDE DEF op, B, n
    <2>1. chosen \in 1 .. n /\ B[chosen] = r
        BY <1>6
    <2>2. chosen = i
      <3> HIDE DEF chosen
      <3> QED
          BY <1>6, <2>1
    <2>3. r \in Requests /\ \E x \in DOMAIN B : B[x] = r
        BY <1>6
    <2>4. length'[r] = length[r] + C[chosen]
      <3> HIDE DEF r, C
      <3> QED
          BY <1>1, <2>3 DEF chosen
    <2>5. length[r] \in Nat /\ C[i] \in Nat \ {0}
        BY <1>5, <1>6, <2>3
    <2> HIDE DEF chosen
    <2> QED
        BY <2>2, <2>4, <2>5
  <1>9. ASSUME NEW r \in Requests, \A i \in 1 .. n : B[i] # r PROVE length'[r] = length[r]
    <2> HIDE DEF op, B, n
    <2> QED
        BY <1>1, <1>6, <1>9
  <1>10. ASSUME NEW i \in 1 .. n PROVE stored'[P[i]] = Selection(B[i], length'[B[i]])
    <2> DEFINE p == P[i]
               chosen == CHOOSE k \in LastRows(op) : P[RowOf(op, k)[1]] = p
    <2>1. p \in 1 .. Rows
        BY <1>6
    <2>2. ends[i] \in LastRows(op) /\ P[RowOf(op, ends[i])[1]] = p
        BY <1>7
    <2>3. chosen \in LastRows(op) /\ P[RowOf(op, chosen)[1]] = p
        BY <2>2
    <2>4. chosen = ends[i]
      <3> HIDE DEF chosen, ends, op, P, n
      <3> QED
          BY <1>7, <2>3 DEF p
    <2>5. stored'[p] = RowAt(chosen)
      <3>1. \E k \in LastRows(op) : P[RowOf(op, k)[1]] = p
          BY <2>2
      <3> HIDE DEF RowAt, op, P, p, chosen
      <3>2. stored'[p] = RowAt(CHOOSE k \in LastRows(op) : P[RowOf(op, k)[1]] = p)
          BY <1>2, <1>5, <2>1, <3>1
      <3> QED
          BY <3>2 DEF chosen
    <2>6. RowAt(ends[i]) = Selection(B[i], length[B[i]] + C[i])
      <3>1. RowOf(op, ends[i]) = <<i, C[i]>>
          BY <1>7
      <3>2. RowOf(op, ends[i])[1] = i /\ RowOf(op, ends[i])[2] = C[i]
          BY <3>1
      <3> HIDE DEF ends
      <3> QED
          BY <3>2
    <2> HIDE DEF RowAt, chosen, ends
    <2> QED
        BY <1>8, <2>4, <2>5, <2>6
  <1>11. ASSUME NEW p \in 1 .. Rows, \A i \in 1 .. n : P[i] # p PROVE stored'[p] = stored[p]
    <2>1. ~ \E k \in LastRows(op) : P[RowOf(op, k)[1]] = p
      <3>1. 1 \in 1 .. n
          BY <1>3 DEF Members
      <3>2. \A k \in LastRows(op) : RowOf(op, k)[1] \in 1 .. n
          BY <1>7, <3>1
      <3> HIDE DEF op, n
      <3> QED
          BY <1>11, <3>2
    <2> HIDE DEF RowAt, op, P
    <2> QED
        BY <1>2, <1>5, <2>1
  <1> HIDE DEF RowAt, ends
  <1>12. StepKeeps(op, stored, length, stored', length')
    <2> HIDE DEF op
    <2>1. \A r \in Requests : \A p \in 1 .. Rows :
            ~Touches(op, r, p) => stored'[p] = stored[p] /\ length'[r] = length[r]
        BY <1>9, <1>11 DEF Touches
    <2>2. ASSUME NEW r \in Requests, NEW p \in 1 .. Rows, Delivers(op, r, p)
          PROVE  Current(stored', length', r, p)
      <3>1. PICK i \in 1 .. n : B[i] = r /\ P[i] = p
          BY <2>2 DEF Delivers
      <3>2. stored'[p] = Selection(r, length'[r]) /\ length'[r] \in Nat \ {0}
          BY <1>8, <1>10, <3>1
      <3> QED
          BY <3>2 DEF Current
    <2> QED
        BY <2>1, <2>2 DEF StepKeeps
  <1>13. DeviceTypes'
    <2> HIDE DEF op, B, P, C, n
    <2>0. DOMAIN length' = Requests /\ DOMAIN stored' = 1 .. Rows
          /\ length' = [r \in Requests |-> length'[r]] /\ stored' = [p \in 1 .. Rows |-> stored'[p]]
        BY <1>1, <1>2, <1>5
    <2>1. ASSUME NEW r \in Requests PROVE length'[r] \in Nat
      <3>1. CASE \A i \in 1 .. n : B[i] # r
          BY <1>5, <1>9, <3>1
      <3>2. CASE \E i \in 1 .. n : B[i] = r
          BY <1>8, <3>2
      <3> QED
          BY <3>1, <3>2
    <2>2. ASSUME NEW p \in 1 .. Rows PROVE stored'[p] \in Selections
      <3>1. CASE \A i \in 1 .. n : P[i] # p
          BY <1>5, <1>11, <3>1
      <3>2. ASSUME NEW i \in 1 .. n, P[i] = p PROVE stored'[p] \in Selections
        <4>1. B[i] \in Requests /\ length'[B[i]] \in Nat
            BY <1>6, <1>8
        <4>2. Selection(B[i], length'[B[i]]) \in Selections
            BY <4>1 DEF Selection, Selections
        <4>3. stored'[P[i]] = Selection(B[i], length'[B[i]])
            BY <1>10
        <4> QED
            BY <3>2, <4>2, <4>3
      <3> QED
          BY <3>1, <3>2
    <2>3. length' \in [Requests -> Nat]
        BY <2>0, <2>1
    <2>4. stored' \in [1 .. Rows -> Selections]
        BY <2>0, <2>2
    <2> QED
        BY <1>1, <2>3, <2>4 DEF DraftInv, DeviceTypes
  <1>14. HeadInv'
      BY <1>1, NextForward DEF Ends
  <1> QED
      BY <1>1, <1>12, <1>13, <1>14, DeviceStep

-----------------------------------------------------------------------------
(* Steps of the host.                                                      *)

\* What the head finds does not change while the device does nothing.
LEMMA HeadStays ==
  ASSUME HeadInv, UNCHANGED <<length, accepted, staged, layout>>,
         stream # <<>> => stream' # <<>> /\ Head(stream') = Head(stream),
         stream = <<>> => (stream' # <<>> => Head(stream').kind \in Starts)
  PROVE  HeadInv'
  <1>1. CASE stream # <<>>
      BY <1>1 DEF HeadInv
  <1>2. CASE stream = <<>>
      BY <1>2 DEF HeadInv, Starts
  <1> QED
      BY <1>1, <1>2

LEMMA JoinedHead ==
  ASSUME NEW S, NEW ops, ops \in Seq(S), NEW blk, blk \in Seq(S), blk # <<>>
  PROVE  /\ ops \o blk # <<>>
         /\ ops # <<>> => Head(ops \o blk) = Head(ops)
         /\ ops = <<>> => Head(ops \o blk) = blk[1]
  <1> DEFINE cat == ops \o blk
  <1>1. cat \in Seq(S) /\ Joined(cat, ops, blk)
      BY ConcatJoins
  <1> HIDE DEF cat
  <1>2. Len(cat) \in Nat \ {0} /\ Len(blk) \in Nat \ {0}
      BY <1>1 DEF Joined
  <1>3. cat # <<>> /\ Head(cat) = cat[1]
      BY <1>1, <1>2, TailIsRest
  <1>4. ops # <<>> => Head(ops) = ops[1] /\ 1 \in 1 .. Len(ops)
      BY TailIsRest DEF Rest
  <1>5. ops = <<>> => Len(ops) = 0
      OBVIOUS
  <1>6. ops # <<>> => cat[1] = ops[1]
      BY <1>1, <1>4 DEF Joined
  <1>7. ops = <<>> => cat[1] = blk[1]
    <2>1. \A j \in 1 .. Len(blk) : cat[Len(ops) + j] = blk[j]
        BY <1>1 DEF Joined
    <2>2. 1 \in 1 .. Len(blk)
        BY <1>2
    <2>3. cat[Len(ops) + 1] = blk[1]
        BY <2>1, <2>2
    <2>4. ops = <<>> => Len(ops) + 1 = 1
        BY <1>5
    <2> QED
        BY <2>3, <2>4
  <1> QED
      BY <1>3, <1>4, <1>6, <1>7 DEF cat

\* A batch of a prefill or of an iteration: different requests, at least one.
LEMMA BatchIsProper ==
  ASSUME NEW s, s \subseteq Requests, s # {}, NEW batch, batch \in SetToSeqs(s)
  PROVE  /\ batch \in Seq(Requests) /\ batch # <<>> /\ Len(batch) \in Nat \ {0} /\ DOMAIN batch = 1 .. Len(batch)
         /\ \A i \in 1 .. Len(batch) : batch[i] \in s
         /\ \A i, j \in 1 .. Len(batch) : batch[i] = batch[j] => i = j
  <1>1. IsFiniteSet(s)
      BY DraftAssumption, FS_Subset DEF DraftAssumption
  <1>2. Cardinality(s) \in Nat \ {0}
      BY <1>1, FS_CardinalityType, FS_EmptySet
  <1> DEFINE n == Cardinality(s)
  <1>3. batch \in [1 .. n -> s] /\ \A i, j \in 1 .. n : i # j => batch[i] # batch[j]
      BY DEF SetToSeqs
  <1> HIDE DEF n
  <1>4. n \in Nat \ {0}
      BY <1>2 DEF n
  <1>5. batch \in Seq(Requests) /\ Len(batch) = n /\ DOMAIN batch = 1 .. n /\ batch # <<>>
      BY <1>3, <1>4
  <1> QED
      BY <1>3, <1>4, <1>5

LEMMA FinishRequestKeeps == DraftInv /\ (\E r \in Requests : FinishRequest(r)) => DraftInv'
  <1> SUFFICES ASSUME DraftInv, NEW r \in Requests, FinishRequest(r) PROVE DraftInv'
      OBVIOUS
  <1>1. /\ stage[r] = "running" /\ stage' = [stage EXCEPT ![r] = "gone"] /\ row' = [row EXCEPT ![r] = 0]
        /\ UNCHANGED <<pins, pinIdx, stream>> /\ UNCHANGED <<length, accepted, staged, layout, stored>>
      BY DEF FinishRequest, deviceVars
  <1>2. HostTypes'
      BY <1>1, DraftAssumption DEF DraftInv, HostTypes, DraftAssumption
  <1>3. DeviceTypes' /\ Chained(stream') /\ PinsInv' /\ HeadInv'
      BY <1>1 DEF DraftInv, DeviceTypes, PinsInv, HeadInv
  <1>4. \A q \in Requests : /\ q # r => row'[q] = row[q] /\ stage'[q] = stage[q]
                            /\ q = r => row'[q] = 0 /\ stage'[q] = "gone"
      BY <1>1 DEF DraftInv, HostTypes
  <1>5. RowsInv'
      BY <1>4 DEF DraftInv, RowsInv
  <1>6. ReadyInv'
    <2>1. \A q \in Running' : q \in Running /\ row'[q] = row[q]
        BY <1>4 DEF Running
    <2>2. AllReady(stream, stored, length, row', Running')
        BY <2>1 DEF DraftInv, ReadyInv, AllReady
    <2> QED
        BY <1>1, <2>2 DEF ReadyInv
  <1> QED
      BY <1>2, <1>3, <1>5, <1>6 DEF DraftInv

LEMMA PrefillKeeps ==
  ASSUME DraftInv, NEW s, s \subseteq Requests, s # {}, NEW batch, batch \in SetToSeqs(s),
         NEW chunks \in [DOMAIN batch -> 1 .. MaxPrompt], NEW done \in SUBSET {batch[i] : i \in DOMAIN batch},
         Prefill(batch, chunks, done)
  PROVE  DraftInv'
  <1> DEFINE n == Len(batch)
             joining == {i \in DOMAIN batch : stage[batch[i]] = "new"}
             used == {row[r] : r \in Requests}
             op == [kind |-> "prefill", batch |-> batch, chunks |-> chunks,
                    pool |-> [i \in DOMAIN batch |-> row'[batch[i]]]]
  <1>1. /\ \A i \in DOMAIN batch : stage[batch[i]] \in {"new", "prefill"}
        /\ stage' = [r \in Requests |->
             IF \E i \in DOMAIN batch : batch[i] = r
             THEN IF r \in done THEN "running" ELSE "prefill" ELSE stage[r]]
        /\ stream' = Append(stream, op)
        /\ UNCHANGED <<pins, pinIdx>> /\ UNCHANGED <<length, accepted, staged, layout, stored>>
      BY DEF Prefill, deviceVars
  <1>2. PICK given \in [joining -> (1 .. Rows) \ used] :
         /\ \A i, j \in joining : given[i] = given[j] => i = j
         /\ row' = [r \in Requests |->
              IF \E i \in joining : batch[i] = r
              THEN given[CHOOSE i \in joining : batch[i] = r] ELSE row[r]]
      BY DEF Prefill
  <1> HIDE DEF op, used
  <1>3. /\ batch \in Seq(Requests) /\ batch # <<>> /\ n \in Nat \ {0} /\ DOMAIN batch = 1 .. n
        /\ \A i \in 1 .. n : batch[i] \in Requests
        /\ \A i, j \in 1 .. n : batch[i] = batch[j] => i = j
      BY BatchIsProper
  <1>t. /\ row \in [Requests -> 0 .. Rows] /\ stage \in [Requests -> {"new", "prefill", "running", "gone"}]
        /\ pins \in [0 .. 1 -> [1 .. Rows -> Nat]] /\ pinIdx \in 0 .. 1
      BY DEF DraftInv, HostTypes
  <1>r. /\ \A r \in Requests : row[r] # 0 <=> stage[r] \in {"prefill", "running"}
        /\ \A q, r \in Requests : row[q] = row[r] /\ row[r] # 0 => q = r
      BY DEF DraftInv, RowsInv
  <1> HIDE DEF n
  <1>4. ASSUME NEW i \in joining
        PROVE  row'[batch[i]] = given[i] /\ given[i] \in 1 .. Rows /\ given[i] \notin used
    <2> DEFINE chosen == CHOOSE x \in joining : batch[x] = batch[i]
    <2>1. chosen \in joining /\ batch[chosen] = batch[i]
        OBVIOUS
    <2>2. chosen = i
      <3> HIDE DEF chosen
      <3> QED
          BY <1>3, <2>1
    <2>3. batch[i] \in Requests
        BY <1>3
    <2>4. row'[batch[i]] = given[chosen]
        BY <1>2, <2>3
    <2> HIDE DEF chosen, joining
    <2> QED
        BY <1>2, <2>2, <2>4
  <1>5. ASSUME NEW r \in Requests, \A i \in joining : batch[i] # r PROVE row'[r] = row[r]
    <2> HIDE DEF joining
    <2> QED
        BY <1>2, <1>5
  <1>6. ASSUME NEW r \in Requests
        PROVE  \/ \E i \in joining : batch[i] = r /\ stage[r] = "new" /\ row'[r] = given[i]
               \/ (\A i \in joining : batch[i] # r) /\ row'[r] = row[r]
      BY <1>4, <1>5
  <1>7. HostTypes'
    <2>1. \A r \in Requests : row'[r] \in 0 .. Rows
        BY <1>4, <1>6, <1>t
    <2>2. row' = [r \in Requests |-> row'[r]]
        BY <1>2
    <2>3. row' \in [Requests -> 0 .. Rows]
        BY <2>1, <2>2
    <2>4. stage' \in [Requests -> {"new", "prefill", "running", "gone"}]
        BY <1>1, <1>t
    <2> QED
        BY <1>1, <1>t, <2>3, <2>4 DEF HostTypes
  <1>8. \A r \in Requests :
          stage'[r] = IF \E i \in 1 .. n : batch[i] = r
                      THEN IF r \in done THEN "running" ELSE "prefill" ELSE stage[r]
      BY <1>1, <1>3
  <1>9. RowsInv'
    <2>1. ASSUME NEW r \in Requests PROVE row'[r] # 0 <=> stage'[r] \in {"prefill", "running"}
      <3>1. CASE \E i \in joining : batch[i] = r
        <4>1. PICK i \in joining : batch[i] = r
            BY <3>1
        <4>2. row'[r] \in 1 .. Rows /\ i \in 1 .. n
            BY <1>3, <1>4, <4>1
        <4> QED
            BY <1>8, <4>1, <4>2
      <3>2. CASE \A i \in joining : batch[i] # r
        <4>1. row'[r] = row[r]
            BY <1>5, <3>2
        <4>2. CASE \E i \in 1 .. n : batch[i] = r
          <5>1. stage[r] = "prefill"
              BY <1>1, <1>3, <3>2, <4>2
          <5> QED
              BY <1>8, <1>r, <4>1, <4>2, <5>1
        <4>3. CASE ~ \E i \in 1 .. n : batch[i] = r
            BY <1>8, <1>r, <4>1, <4>3
        <4> QED
            BY <4>2, <4>3
      <3> QED
          BY <3>1, <3>2
    <2>2. ASSUME NEW q \in Requests, NEW r \in Requests, row'[q] = row'[r], row'[r] # 0 PROVE q = r
      <3>1. \A x \in Requests : row[x] \in used
          BY DEF used
      <3> HIDE DEF joining
      <3>2. CASE \A i \in joining : batch[i] # q /\ batch[i] # r
          BY <1>5, <1>r, <2>2, <3>2
      <3>3. CASE \E i \in joining : batch[i] = q
        <4>1. PICK i \in joining : batch[i] = q
            BY <3>3
        <4>2. row'[q] = given[i] /\ given[i] \notin used
            BY <1>4, <4>1
        <4>3. PICK j \in joining : batch[j] = r /\ row'[r] = given[j]
            BY <1>4, <1>6, <2>2, <3>1, <4>2
        <4> QED
            BY <1>2, <2>2, <4>1, <4>2, <4>3
      <3>4. CASE \E i \in joining : batch[i] = r
        <4>1. PICK i \in joining : batch[i] = r
            BY <3>4
        <4>2. row'[r] = given[i] /\ given[i] \notin used
            BY <1>4, <4>1
        <4>3. PICK j \in joining : batch[j] = q /\ row'[q] = given[j]
            BY <1>4, <1>6, <2>2, <3>1, <4>2
        <4> QED
            BY <1>2, <2>2, <4>1, <4>2, <4>3
      <3> QED
          BY <3>2, <3>3, <3>4
    <2> QED
        BY <2>1, <2>2 DEF RowsInv
  <1>10. /\ \A i \in 1 .. n : stage'[batch[i]] \in {"running", "prefill"}
         /\ \A i \in 1 .. n : row'[batch[i]] \in 1 .. Rows
    <2>1. \A i \in 1 .. n : stage'[batch[i]] \in {"running", "prefill"}
        BY <1>3, <1>8
    <2>2. \A i \in 1 .. n : row'[batch[i]] # 0
        BY <1>3, <1>9, <2>1 DEF RowsInv
    <2> QED
        BY <1>3, <1>7, <2>1, <2>2 DEF HostTypes
  <1>11. op \in Ops /\ IsOp(op) /\ op.kind = "prefill" /\ op.batch = batch
         /\ \A i \in 1 .. n : op.pool[i] = row'[batch[i]]
    <2>1. op.pool \in Seq(1 .. Rows) /\ Len(op.pool) = n /\ \A i \in 1 .. n : op.pool[i] = row'[batch[i]]
      <3> DEFINE pool == [i \in 1 .. n |-> row'[batch[i]]]
      <3>1. op.pool = pool
          BY <1>3 DEF op
      <3>2. pool \in Seq(1 .. Rows) /\ Len(pool) = n
          BY <1>3, <1>10
      <3> QED
          BY <3>1, <3>2
    <2>2. op.chunks \in Seq(Nat) /\ Len(op.chunks) = n /\ \A i \in 1 .. n : op.chunks[i] \in 1 .. MaxPrompt
      <3>1. op.chunks = chunks /\ chunks \in [1 .. n -> 1 .. MaxPrompt]
          BY <1>3 DEF op
      <3>2. \A i \in 1 .. n : chunks[i] \in 1 .. MaxPrompt
          BY <3>1
      <3>3. chunks \in [1 .. n -> Nat]
          BY <3>1, DraftAssumption DEF DraftAssumption
      <3> QED
          BY <1>3, <3>1, <3>2, <3>3
    <2>3. op.kind = "prefill" /\ op.batch = batch
        BY DEF op
    <2>4. op \in Prefills
        BY <1>3, <2>1, <2>2 DEF op, Prefills
    <2>5. \A i, j \in 1 .. n : op.batch[i] = op.batch[j] \/ op.pool[i] = op.pool[j] => i = j
      <3>1. \A i, j \in 1 .. n : row'[batch[i]] = row'[batch[j]] => i = j
        <4>1. \A q, r \in Requests : row'[q] = row'[r] /\ row'[r] # 0 => q = r
            BY <1>9 DEF RowsInv
        <4>2. \A i \in 1 .. n : row'[batch[i]] # 0
            BY <1>10
        <4> QED
            BY <1>3, <4>1, <4>2
      <3> QED
          BY <1>3, <2>1, <2>3, <3>1
    <2> QED
        BY <1>3, <2>1, <2>2, <2>3, <2>4, <2>5 DEF Ops, IsOp, n
  <1> DEFINE blk == <<op>>
  <1>12. /\ blk \in Seq(Ops) /\ blk # <<>> /\ Len(blk) = 1 /\ blk[1] = op
         /\ stream \in Seq(Ops) /\ stream' = stream \o blk
    <2>1. stream \in Seq(Ops)
        BY DEF DraftInv, Chained
    <2>2. Append(stream, op) = stream \o <<op>>
        BY <1>11, <2>1, AppendIsConcat
    <2> QED
        BY <1>1, <1>11, <2>1, <2>2
  <1> HIDE DEF blk
  <1>13. Chained(stream')
    <2>1. Chained(blk)
      <3>1. \A j \in 1 .. Len(blk) : j = 1
          BY <1>12
      <3>2. \A j \in 1 .. Len(blk) - 1 : FALSE
          BY <1>12
      <3> QED
          BY <1>11, <1>12, <3>1, <3>2 DEF Chained, Ends
    <2>2. blk[1].kind \in Starts /\ Chained(stream)
        BY <1>11, <1>12 DEF Starts, DraftInv
    <2> QED
        BY <1>12, <2>1, <2>2, ChainedJoin
  <1>14. Joined(stream', stream, blk)
      BY <1>12, ConcatJoins
  <1>15. PinsInv'
    <2>1. Copies(stream') = Copies(stream)
      <3>1. ASSUME NEW j \in 1 .. Len(stream') PROVE j \in 1 .. Len(stream) \/ stream'[j] = op
        <4>1. Len(stream) \in Nat /\ Len(stream') = Len(stream) + 1 /\ stream'[Len(stream) + 1] = op
            BY <1>12, <1>14 DEF Joined
        <4>2. j \in 1 .. Len(stream) \/ j = Len(stream) + 1
            BY <4>1
        <4> QED
            BY <4>1, <4>2
      <3>2. \A j \in 1 .. Len(stream) : j \in 1 .. Len(stream') /\ stream'[j] = stream[j]
          BY <1>12, <1>14 DEF Joined
      <3> QED
          BY <1>11, <3>1, <3>2 DEF Copies
    <2>2. \A j \in Copies(stream) : stream'[j] = stream[j]
        BY <1>14 DEF Joined, Copies
    <2>3. Pinned(stream', pins, pinIdx)
        BY <2>1, <2>2 DEF DraftInv, PinsInv, Pinned
    <2> QED
        BY <1>1, <2>3 DEF PinsInv
  <1>16. HeadInv'
    <2>1. /\ stream' # <<>> /\ (stream # <<>> => Head(stream') = Head(stream))
          /\ (stream = <<>> => Head(stream') = op)
        BY <1>12, JoinedHead
    <2>2. op.kind \in Starts
        BY <1>11 DEF Starts
    <2> QED
        BY <1>1, <2>1, <2>2, HeadStays DEF DraftInv
  <1>17. ReadyInv'
    <2>0. /\ Len(stream) \in Nat /\ Len(stream') = Len(stream) + 1 /\ stream'[Len(stream) + 1] = op
          /\ \A j \in 1 .. Len(stream) : stream'[j] = stream[j]
        BY <1>12, <1>14 DEF Joined
    <2>1. ASSUME NEW j \in 1 .. Len(stream'), stream'[j].kind = "draft", NEW i \in 1 .. Len(stream'[j].batch)
          PROVE  Ready(stream', stored, length, j, stream'[j].batch[i], stream'[j].pool[i])
      <3>1. j \in 1 .. Len(stream)
        <4>1. j \in 1 .. Len(stream) \/ j = Len(stream) + 1
            BY <2>0
        <4>2. op.kind # "draft"
            BY <1>11
        <4> QED
            BY <2>0, <2>1, <4>1, <4>2
      <3>2. stream'[j] = stream[j] /\ j \in 1 .. Len(stream) + 1
          BY <2>0, <3>1
      <3>3. Ready(stream, stored, length, j, stream'[j].batch[i], stream'[j].pool[i])
          BY <2>1, <3>1, <3>2 DEF DraftInv, ReadyInv, AllReady
      <3> QED
          BY <1>14, <3>2, <3>3, ReadyJoin
    <2>2. ASSUME NEW r \in Running' PROVE Ready(stream', stored, length, Len(stream') + 1, r, row'[r])
      <3>0. r \in Requests /\ stage'[r] = "running"
          BY DEF Running
      <3>1. CASE \E i \in 1 .. n : batch[i] = r
        <4>1. Delivers(op, r, row'[r])
            BY <1>11, <3>1 DEF Delivers, Ends, n
        <4> QED
            BY <1>12, <1>14, <4>1, ReadyPastOne
      <3>2. CASE ~ \E i \in 1 .. n : batch[i] = r
        <4>1. stage[r] = "running"
            BY <1>8, <3>0, <3>2
        <4>2. row'[r] = row[r]
          <5>1. \A i \in joining : batch[i] # r
              BY <1>3, <3>2
          <5> QED
              BY <1>5, <3>0, <5>1
        <4>3. Ready(stream, stored, length, Len(stream) + 1, r, row'[r])
            BY <3>0, <4>1, <4>2 DEF DraftInv, ReadyInv, AllReady, Running
        <4>4. ~ Touches(op, r, row'[r])
          <5>1. \A i \in 1 .. n : row'[batch[i]] # row'[r]
            <6>1. \A q \in Requests : row'[q] = row'[r] /\ row'[r] # 0 => q = r
                BY <1>9, <3>0 DEF RowsInv
            <6>2. row'[r] # 0
                BY <1>9, <3>0 DEF RowsInv
            <6> QED
                BY <1>3, <3>2, <6>1, <6>2
          <5> QED
              BY <1>11, <3>2, <5>1 DEF Touches, n
        <4> QED
            BY <1>12, <1>14, <4>3, <4>4, ReadyPastOne
      <3> QED
          BY <3>1, <3>2
    <2>3. AllReady(stream', stored, length, row', Running')
        BY <2>1, <2>2 DEF AllReady
    <2> QED
        BY <1>1, <2>3 DEF ReadyInv
  <1>18. DeviceTypes'
      BY <1>1 DEF DraftInv, DeviceTypes
  <1> QED
      BY <1>7, <1>9, <1>13, <1>15, <1>16, <1>17, <1>18 DEF DraftInv

\* An iteration's operations, for one batch: a draft first, the extend last, and the
\* lengths copied, if at all, in the third place.
IterationOf(blk, batch, pool, lens, half) ==
    /\ Chained(blk) /\ Len(blk) \in 4 .. 5
    /\ blk[1].kind = "draft" /\ blk[Len(blk)].kind = "extend"
    /\ \A j \in 1 .. Len(blk) :
         /\ blk[j].batch = batch /\ blk[j].pool = pool /\ blk[j].lens = lens /\ blk[j].half = half
         /\ blk[j].kind = "draft" => j = 1
         /\ blk[j].kind = "copy" <=> j = 3 /\ Len(blk) = 5

Part(kind, batch, pool, lens, half) ==
    [kind |-> kind, batch |-> batch, pool |-> pool, lens |-> lens, half |-> half]

LEMMA PartIsOp ==
  ASSUME NEW batch, batch \in Seq(Requests), batch # <<>>, NEW pool, pool \in Seq(1 .. Rows), Len(pool) = Len(batch),
         \A i, j \in 1 .. Len(batch) : batch[i] = batch[j] \/ pool[i] = pool[j] => i = j,
         NEW lens, lens \in Seq(Nat), Len(lens) \in Len(batch) .. Rows, \A i \in 1 .. Len(batch) : lens[i] = Block,
         NEW half \in 0 .. 1, NEW kind \in Parts
  PROVE  Part(kind, batch, pool, lens, half) \in Ops /\ IsOp(Part(kind, batch, pool, lens, half))
  <1> DEFINE op == Part(kind, batch, pool, lens, half)
  <1>1. op \in Iterations
      BY DEF Part, Iterations
  <1>2. op.kind = kind /\ op.batch = batch /\ op.pool = pool /\ op.lens = lens
      BY DEF Part
  <1> HIDE DEF op
  <1>3. kind # "prefill"
      BY DEF Parts
  <1>4. IsOp(op)
      BY <1>2, <1>3 DEF IsOp
  <1> QED
      BY <1>1, <1>4 DEF Ops, op

LEMMA OwnLengths ==
  ASSUME NEW batch, NEW pool, NEW lens, NEW half,
         \A kind \in Parts : Part(kind, batch, pool, lens, half) \in Ops /\ IsOp(Part(kind, batch, pool, lens, half))
  PROVE  LET P(kind) == Part(kind, batch, pool, lens, half)
         IN  IterationOf(<<P("draft"), P("verify"), P("layoutOwn"), P("extend")>>, batch, pool, lens, half)
  <1> DEFINE P(kind) == Part(kind, batch, pool, lens, half)
             o1 == P("draft")  o2 == P("verify")  o3 == P("layoutOwn")  o4 == P("extend")
             blk == <<o1, o2, o3, o4>>
  <1>1. /\ o1 \in Ops /\ o2 \in Ops /\ o3 \in Ops /\ o4 \in Ops
        /\ IsOp(o1) /\ IsOp(o2) /\ IsOp(o3) /\ IsOp(o4)
      BY DEF Parts
  <1>2. /\ o1.kind = "draft" /\ o2.kind = "verify" /\ o3.kind = "layoutOwn" /\ o4.kind = "extend"
        /\ o1.batch = batch /\ o1.pool = pool /\ o1.lens = lens /\ o1.half = half
        /\ o2.batch = batch /\ o2.pool = pool /\ o2.lens = lens /\ o2.half = half
        /\ o3.batch = batch /\ o3.pool = pool /\ o3.lens = lens /\ o3.half = half
        /\ o4.batch = batch /\ o4.pool = pool /\ o4.lens = lens /\ o4.half = half
      BY DEF Part
  <1> HIDE DEF o1, o2, o3, o4
  <1>3. /\ Len(blk) = 4 /\ blk[1] = o1 /\ blk[2] = o2 /\ blk[3] = o3 /\ blk[4] = o4 /\ blk \in Seq(Ops)
      BY <1>1
  <1> HIDE DEF blk
  <1>4. \A j \in 1 .. 4 : j = 1 \/ j = 2 \/ j = 3 \/ j = 4
      OBVIOUS
  <1>5. Chained(blk)
    <2>1. \A j \in 1 .. 4 : IsOp(blk[j])
        BY <1>1, <1>3, <1>4
    <2>2. Continues(o1, o2) /\ Continues(o2, o3) /\ Continues(o3, o4)
        BY <1>2 DEF Continues
    <2>3. \A j \in 1 .. 4 : blk[j].kind \notin Ends => j \in 1 .. 3
        BY <1>2, <1>3, <1>4 DEF Ends
    <2>4. \A j \in 1 .. 3 : j + 1 \in 1 .. 4 /\ Continues(blk[j], blk[j + 1])
      <3>1. \A j \in 1 .. 3 : (j = 1 /\ j + 1 = 2) \/ (j = 2 /\ j + 1 = 3) \/ (j = 3 /\ j + 1 = 4)
          OBVIOUS
      <3> QED
          BY <1>3, <2>2, <3>1
    <2>5. \A j \in 1 .. 4 - 1 : blk[j].kind \notin Ends
      <3>1. \A j \in 1 .. 4 - 1 : j = 1 \/ j = 2 \/ j = 3
          OBVIOUS
      <3> QED
          BY <1>2, <1>3, <3>1 DEF Ends
    <2> QED
        BY <1>3, <2>1, <2>3, <2>4, <2>5 DEF Chained
  <1>6. \A j \in 1 .. 4 :
         /\ blk[j].batch = batch /\ blk[j].pool = pool /\ blk[j].lens = lens /\ blk[j].half = half
         /\ blk[j].kind = "draft" => j = 1
         /\ blk[j].kind # "copy"
      BY <1>2, <1>3, <1>4
  <1>7. IterationOf(blk, batch, pool, lens, half)
      BY <1>2, <1>3, <1>5, <1>6 DEF IterationOf
  <1> QED
      BY <1>7 DEF blk, o1, o2, o3, o4

LEMMA StagedLengths ==
  ASSUME NEW batch, NEW pool, NEW lens, NEW half,
         \A kind \in Parts : Part(kind, batch, pool, lens, half) \in Ops /\ IsOp(Part(kind, batch, pool, lens, half))
  PROVE  LET P(kind) == Part(kind, batch, pool, lens, half)
         IN  IterationOf(<<P("draft"), P("verify"), P("copy"), P("layout"), P("extend")>>, batch, pool, lens, half)
  <1> DEFINE P(kind) == Part(kind, batch, pool, lens, half)
             o1 == P("draft")  o2 == P("verify")  o3 == P("copy")  o4 == P("layout")  o5 == P("extend")
             blk == <<o1, o2, o3, o4, o5>>
  <1>1. /\ o1 \in Ops /\ o2 \in Ops /\ o3 \in Ops /\ o4 \in Ops /\ o5 \in Ops
        /\ IsOp(o1) /\ IsOp(o2) /\ IsOp(o3) /\ IsOp(o4) /\ IsOp(o5)
      BY DEF Parts
  <1>2. /\ o1.kind = "draft" /\ o2.kind = "verify" /\ o3.kind = "copy" /\ o4.kind = "layout" /\ o5.kind = "extend"
        /\ o1.batch = batch /\ o1.pool = pool /\ o1.lens = lens /\ o1.half = half
        /\ o2.batch = batch /\ o2.pool = pool /\ o2.lens = lens /\ o2.half = half
        /\ o3.batch = batch /\ o3.pool = pool /\ o3.lens = lens /\ o3.half = half
        /\ o4.batch = batch /\ o4.pool = pool /\ o4.lens = lens /\ o4.half = half
        /\ o5.batch = batch /\ o5.pool = pool /\ o5.lens = lens /\ o5.half = half
      BY DEF Part
  <1> HIDE DEF o1, o2, o3, o4, o5
  <1>3. /\ Len(blk) = 5 /\ blk[1] = o1 /\ blk[2] = o2 /\ blk[3] = o3 /\ blk[4] = o4 /\ blk[5] = o5 /\ blk \in Seq(Ops)
      BY <1>1
  <1> HIDE DEF blk
  <1>4. \A j \in 1 .. 5 : j = 1 \/ j = 2 \/ j = 3 \/ j = 4 \/ j = 5
      OBVIOUS
  <1>5. Chained(blk)
    <2>1. \A j \in 1 .. 5 : IsOp(blk[j])
        BY <1>1, <1>3, <1>4
    <2>2. Continues(o1, o2) /\ Continues(o2, o3) /\ Continues(o3, o4) /\ Continues(o4, o5)
        BY <1>2 DEF Continues
    <2>3. \A j \in 1 .. 5 : blk[j].kind \notin Ends => j \in 1 .. 4
        BY <1>2, <1>3, <1>4 DEF Ends
    <2>4. \A j \in 1 .. 4 : j + 1 \in 1 .. 5 /\ Continues(blk[j], blk[j + 1])
      <3>1. \A j \in 1 .. 4 : (j = 1 /\ j + 1 = 2) \/ (j = 2 /\ j + 1 = 3) \/ (j = 3 /\ j + 1 = 4) \/ (j = 4 /\ j + 1 = 5)
          OBVIOUS
      <3> QED
          BY <1>3, <2>2, <3>1
    <2>5. \A j \in 1 .. 5 - 1 : blk[j].kind \notin Ends
      <3>1. \A j \in 1 .. 5 - 1 : j = 1 \/ j = 2 \/ j = 3 \/ j = 4
          OBVIOUS
      <3> QED
          BY <1>2, <1>3, <3>1 DEF Ends
    <2> QED
        BY <1>3, <2>1, <2>3, <2>4, <2>5 DEF Chained
  <1>6. \A j \in 1 .. 5 :
         /\ blk[j].batch = batch /\ blk[j].pool = pool /\ blk[j].lens = lens /\ blk[j].half = half
         /\ blk[j].kind = "draft" => j = 1
         /\ blk[j].kind = "copy" <=> j = 3
      BY <1>2, <1>3, <1>4
  <1>7. IterationOf(blk, batch, pool, lens, half)
      BY <1>2, <1>3, <1>5, <1>6 DEF IterationOf
  <1> QED
      BY <1>7 DEF blk, o1, o2, o3, o4, o5

\* The lengths of an iteration are put where the one before it did not put its own.
LEMMA PinnedAlternates ==
  ASSUME NEW ops, Chained(ops), Cardinality({n \in DOMAIN ops : ops[n].kind \in {"prefill", "extend"}}) < 2,
         NEW blk, NEW cat, Joined(cat, ops, blk), Len(blk) = 5,
         NEW pin, NEW pin2, NEW idx \in 0 .. 1, Pinned(ops, pin, idx), pin2[1 - idx] = pin[1 - idx],
         \A j \in 1 .. Len(ops) : ops[j].kind = "copy" => ops[j].half \in 0 .. 1,
         NEW batch, NEW pool, NEW lens, IterationOf(blk, batch, pool, lens, idx),
         \A i \in 1 .. Len(lens) : pin2[idx][i] = lens[i]
  PROVE  Pinned(cat, pin2, 1 - idx)
  <1> DEFINE m == Len(ops)
  <1>1. /\ m \in Nat /\ Len(cat) = m + 5 /\ \A j \in 1 .. m : cat[j] = ops[j]
        /\ \A j \in 1 .. 5 : cat[m + j] = blk[j]
      BY DEF Joined
  <1>2. /\ \A j \in 1 .. 5 : blk[j].kind = "copy" <=> j = 3
        /\ blk[3].lens = lens /\ blk[3].half = idx
      BY DEF IterationOf
  <1> HIDE DEF m
  <1>3. m + 3 \in Copies(cat) /\ cat[m + 3] = blk[3]
      BY <1>1, <1>2 DEF Copies
  <1>4. ASSUME NEW j \in Copies(cat) PROVE j = m + 3 \/ (j \in Copies(ops) /\ cat[j] = ops[j] /\ j < m + 3)
    <2>1. CASE j \in 1 .. m
        BY <1>1, <2>1 DEF Copies, m
    <2>2. CASE j \notin 1 .. m
      <3>1. j - m \in 1 .. 5 /\ j = m + (j - m)
          BY <1>1, <2>2 DEF Copies
      <3>2. cat[j] = blk[j - m]
          BY <1>1, <3>1
      <3>3. j - m = 3
          BY <1>2, <3>1, <3>2 DEF Copies
      <3> QED
          BY <3>1, <3>3
    <2> QED
        BY <2>1, <2>2
  <1>5. ASSUME NEW j \in Copies(ops) PROVE ops[j].half = 1 - idx
    <2>1. \A k \in Copies(ops) : k = j
        BY OneCopy
    <2>2. j \in Nat /\ ops[j].half \in 0 .. 1
        BY DEF Copies
    <2>3. ops[j].half # idx
        BY <2>1, <2>2 DEF Pinned
    <2> QED
        BY <2>2, <2>3
  <1>6. ASSUME NEW j \in Copies(cat), NEW i \in 1 .. Len(cat[j].lens) PROVE pin2[cat[j].half][i] = cat[j].lens[i]
    <2>1. CASE j = m + 3
        BY <1>2, <1>3, <2>1
    <2>2. CASE j \in Copies(ops) /\ cat[j] = ops[j]
        BY <1>5, <2>2 DEF Pinned
    <2> QED
        BY <1>4, <2>1, <2>2
  <1>7. ASSUME NEW j \in Copies(cat)
        PROVE  cat[j].half # 1 - idx \/ \E k \in Copies(cat) : j < k /\ cat[k].half # 1 - idx
    <2>1. cat[m + 3].half # 1 - idx
        BY <1>2, <1>3
    <2> QED
        BY <1>3, <1>4, <2>1
  <1> QED
      BY <1>6, <1>7 DEF Pinned

\* No lengths to copy: what was pinned stays.
LEMMA PinnedStays ==
  ASSUME NEW ops, NEW blk, NEW cat, Joined(cat, ops, blk), NEW pin, NEW idx, Pinned(ops, pin, idx),
         \A j \in 1 .. Len(blk) : blk[j].kind # "copy"
  PROVE  Pinned(cat, pin, idx)
  <1> DEFINE m == Len(ops)  n == Len(blk)
  <1>1. /\ m \in Nat /\ n \in Nat /\ Len(cat) = m + n /\ \A j \in 1 .. m : cat[j] = ops[j]
        /\ \A j \in 1 .. n : cat[m + j] = blk[j]
      BY DEF Joined
  <1>a. \A j \in 1 .. n : blk[j].kind # "copy"
      OBVIOUS
  <1> HIDE DEF m, n
  <1>2. ASSUME NEW j \in 1 .. m + n PROVE j \in 1 .. m \/ (j \notin 1 .. m /\ cat[j].kind # "copy")
    <2>1. CASE j \notin 1 .. m
      <3>1. j - m \in 1 .. n /\ j = m + (j - m)
          BY <1>1, <2>1
      <3>2. cat[j] = blk[j - m]
          BY <1>1, <3>1
      <3> QED
          BY <1>a, <2>1, <3>1, <3>2
    <2> QED
        BY <2>1
  <1>3. \A j \in 1 .. m : j \in 1 .. m + n
      BY <1>1
  <1>4. Copies(cat) = Copies(ops) /\ \A j \in Copies(ops) : cat[j] = ops[j]
      BY <1>1, <1>2, <1>3 DEF Copies, m
  <1> QED
      BY <1>4 DEF Pinned

LEMMA IterationKeeps ==
  ASSUME DraftInv, NEW blk, NEW batch, NEW pool, NEW lens, NEW half, IterationOf(blk, batch, pool, lens, half),
         stream' = stream \o blk, UNCHANGED <<row, stage>>, UNCHANGED <<length, accepted, staged, layout, stored>>,
         DOMAIN batch = 1 .. Len(batch), {batch[i] : i \in DOMAIN batch} = Running,
         \A i \in 1 .. Len(batch) : pool[i] = row[batch[i]],
         HostTypes', PinsInv'
  PROVE  DraftInv'
  <1>1. Chained(stream) /\ stream \in Seq(Ops) /\ Chained(blk) /\ blk \in Seq(Ops) /\ blk # <<>>
        /\ Len(blk) \in 4 .. 5 /\ blk[1].kind = "draft" /\ blk[Len(blk)].kind = "extend"
        /\ \A j \in 1 .. Len(blk) :
             /\ blk[j].batch = batch /\ blk[j].pool = pool
             /\ blk[j].kind = "draft" => j = 1
    <2>1. Chained(blk) /\ Len(blk) \in 4 .. 5
        BY DEF IterationOf
    <2>2. blk # <<>>
        BY <2>1
    <2> QED
        BY <2>1, <2>2 DEF DraftInv, IterationOf, Chained
  <1>2. Chained(stream')
      BY <1>1, ChainedJoin DEF Starts
  <1>3. Joined(stream', stream, blk)
      BY <1>1, ConcatJoins
  <1>4. RowsInv' /\ DeviceTypes'
      BY DEF DraftInv, RowsInv, DeviceTypes
  <1>5. HeadInv'
    <2>1. /\ stream' # <<>> /\ (stream # <<>> => Head(stream') = Head(stream))
          /\ (stream = <<>> => Head(stream') = blk[1])
        BY <1>1, JoinedHead
    <2>2. blk[1].kind \in Starts
        BY <1>1 DEF Starts
    <2> QED
        BY <2>1, <2>2, HeadStays DEF DraftInv
  <1>6. AllReady(stream, stored, length, row, Running)
      BY DEF DraftInv, ReadyInv
  <1> DEFINE m == Len(stream)  n == Len(blk)  cat == stream'
  <1>7. /\ m \in Nat /\ n \in 4 .. 5 /\ Len(cat) = m + n /\ \A j \in 1 .. m : cat[j] = stream[j]
        /\ \A j \in 1 .. n : cat[m + j] = blk[j]
      BY <1>1, <1>3 DEF Joined
  <1>8. \A i \in 1 .. Len(batch) : batch[i] \in Running
      OBVIOUS
  <1>9. ASSUME NEW j \in 1 .. Len(cat), cat[j].kind = "draft", NEW i \in 1 .. Len(cat[j].batch)
        PROVE  Ready(cat, stored, length, j, cat[j].batch[i], cat[j].pool[i])
    <2> HIDE DEF cat, m, n
    <2>1. CASE j \in 1 .. m
      <3>1. j \in 1 .. Len(stream) + 1 /\ j \in 1 .. Len(stream)
          BY <1>7, <2>1 DEF m
      <3>2. Ready(stream, stored, length, j, cat[j].batch[i], cat[j].pool[i])
          BY <1>6, <1>7, <1>9, <2>1, <3>1 DEF AllReady
      <3>3. Joined(cat, stream, blk)
          BY <1>3 DEF cat
      <3> QED
          BY <3>1, <3>2, <3>3, ReadyJoin
    <2>2. CASE j \notin 1 .. m
      <3> DEFINE k == j - m
      <3>1. k \in 1 .. n /\ j = m + k
          BY <1>7, <2>2
      <3> HIDE DEF k
      <3>2. cat[j] = blk[k]
          BY <1>7, <3>1
      <3>3. k = 1 /\ cat[j].batch = batch /\ cat[j].pool = pool
          BY <1>1, <1>9, <3>1, <3>2 DEF n
      <3>4. Ready(stream, stored, length, Len(stream) + 1, batch[i], pool[i])
          BY <1>6, <1>8, <1>9, <3>3 DEF AllReady
      <3>5. Joined(cat, stream, blk) /\ j = Len(stream) + 1 /\ Len(stream) + 1 \in 1 .. Len(stream) + 1
          BY <1>3, <1>7, <3>1, <3>3 DEF cat, m
      <3>6. Ready(cat, stored, length, Len(stream) + 1, batch[i], pool[i])
          BY <3>4, <3>5, ReadyJoin
      <3> QED
          BY <3>3, <3>5, <3>6
    <2> QED
        BY <2>1, <2>2
  <1>10. ASSUME NEW r \in Running PROVE Ready(cat, stored, length, Len(cat) + 1, r, row[r])
    <2>1. PICK i \in 1 .. Len(batch) : batch[i] = r
        OBVIOUS
    <2>2. n \in 1 .. n /\ blk[n].batch = batch /\ blk[n].pool = pool /\ blk[n].kind = "extend"
      <3>1. \A k \in 4 .. 5 : k \in 1 .. k
          OBVIOUS
      <3>2. n \in 1 .. n
          BY <1>7, <3>1
      <3> QED
          BY <1>1, <3>2
    <2>3. Delivers(blk[n], r, row[r])
        BY <2>1, <2>2 DEF Delivers, Ends
    <2> QED
        BY <1>3, <2>3, ReadyPastEnd
  <1>11. ReadyInv'
    <2>1. AllReady(cat, stored, length, row, Running)
        BY <1>9, <1>10 DEF AllReady
    <2>2. Running' = Running
        BY DEF Running
    <2> QED
        BY <2>1, <2>2 DEF ReadyInv
  <1> QED
      BY <1>2, <1>4, <1>5, <1>11 DEF DraftInv

LEMMA IterateKeeps ==
  ASSUME DraftInv, NEW batch, batch \in SetToSeqs(Running), NEW padLen, padLen \in {0, Block},
         NEW device \in BOOLEAN, NEW size \in Len(batch) .. Rows, Iterate(batch, size, padLen, device)
  PROVE  DraftInv'
  <1> DEFINE lens == [i \in 1 .. size |-> IF i \in DOMAIN batch THEN Block ELSE padLen]
             pool == PoolRows(batch)
             P(kind) == Part(kind, batch, pool, lens, pinIdx)
             own == <<P("draft"), P("verify"), P("layoutOwn"), P("extend")>>
             host == <<P("draft"), P("verify"), P("copy"), P("layout"), P("extend")>>
  <1>1. /\ Forwards < HostAhead /\ batch # <<>> /\ {batch[i] : i \in DOMAIN batch} = Running
        /\ UNCHANGED <<row, stage>> /\ UNCHANGED <<length, accepted, staged, layout, stored>>
      BY DEF Iterate, deviceVars
  <1>2. /\ device => UNCHANGED <<pins, pinIdx>> /\ stream' = stream \o own
        /\ ~device => StageExtendLens(lens) /\ stream' = stream \o host
      BY DEF Iterate, Part
  <1>3. Running # {} /\ Running \subseteq Requests
    <2>1. Running \subseteq Requests
        BY DEF Running
    <2>2. ASSUME Running = {} PROVE FALSE
      <3>1. Cardinality({}) = 0
          BY FS_EmptySet
      <3>2. batch \in [1 .. 0 -> {}]
          BY <2>2, <3>1 DEF SetToSeqs
      <3>3. batch = <<>>
          BY <3>2
      <3> QED
          BY <1>1, <3>3
    <2> QED
        BY <2>1, <2>2
  <1>4. /\ batch \in Seq(Requests) /\ Len(batch) \in Nat \ {0} /\ DOMAIN batch = 1 .. Len(batch)
        /\ \A i \in 1 .. Len(batch) : batch[i] \in Running
        /\ \A i, j \in 1 .. Len(batch) : batch[i] = batch[j] => i = j
      BY <1>3, BatchIsProper
  <1>5. /\ pool \in Seq(1 .. Rows) /\ Len(pool) = Len(batch)
        /\ \A i \in 1 .. Len(batch) : pool[i] = row[batch[i]]
        /\ \A i, j \in 1 .. Len(batch) : batch[i] = batch[j] \/ pool[i] = pool[j] => i = j
    <2>1. pool = [i \in 1 .. Len(batch) |-> row[batch[i]]]
        BY <1>4 DEF PoolRows
    <2>2. \A i \in 1 .. Len(batch) : batch[i] \in Requests /\ row[batch[i]] # 0 /\ row[batch[i]] \in 1 .. Rows
        BY <1>4 DEF DraftInv, RowsInv, HostTypes, Running
    <2> HIDE DEF pool
    <2>3. pool \in Seq(1 .. Rows) /\ Len(pool) = Len(batch) /\ \A i \in 1 .. Len(batch) : pool[i] = row[batch[i]]
        BY <1>4, <2>1, <2>2
    <2>4. \A q, r \in Requests : row[q] = row[r] /\ row[r] # 0 => q = r
        BY DEF DraftInv, RowsInv
    <2>5. \A i, j \in 1 .. Len(batch) : pool[i] = pool[j] => i = j
        BY <1>4, <2>2, <2>3, <2>4
    <2> QED
        BY <1>4, <2>3, <2>5
  <1>6. /\ lens \in Seq(Nat) /\ Len(lens) = size /\ DOMAIN lens = 1 .. size /\ size \in Nat
        /\ Len(lens) \in Len(batch) .. Rows /\ Rows \in Nat
        /\ \A i \in 1 .. size : lens[i] \in Nat /\ i \in 1 .. Rows
        /\ \A i \in 1 .. Len(batch) : lens[i] = Block
    <2>1. size \in Nat /\ Rows \in Nat /\ size >= Len(batch) /\ size <= Rows
        BY <1>4, DraftAssumption DEF DraftAssumption
    <2>2. \A i \in 1 .. size : (IF i \in DOMAIN batch THEN Block ELSE padLen) \in Nat
        BY BlockIsSome
    <2>3. lens \in Seq(Nat) /\ Len(lens) = size /\ DOMAIN lens = 1 .. size
        BY <2>1, <2>2
    <2>4. \A i \in 1 .. Len(batch) : i \in 1 .. size
        BY <1>4, <2>1
    <2>5. \A i \in 1 .. Len(batch) : lens[i] = Block
        BY <1>4, <2>4
    <2>6. \A i \in 1 .. size : lens[i] \in Nat /\ i \in 1 .. Rows
        BY <2>1, <2>2
    <2> HIDE DEF lens
    <2> QED
        BY <1>4, <2>1, <2>3, <2>5, <2>6
  <1> HIDE DEF lens, pool
  <1>7. pinIdx \in 0 .. 1 /\ pins \in [0 .. 1 -> [1 .. Rows -> Nat]] /\ HostTypes
      BY DEF DraftInv, HostTypes
  <1>8. \A kind \in Parts : P(kind) \in Ops /\ IsOp(P(kind))
      BY <1>1, <1>4, <1>5, <1>6, <1>7, PartIsOp
  <1>9. IterationOf(own, batch, pool, lens, pinIdx) /\ IterationOf(host, batch, pool, lens, pinIdx)
      BY <1>8, OwnLengths, StagedLengths
  <1> HIDE DEF P
  <1>10. own \in Seq(Ops) /\ own # <<>> /\ Len(own) = 4 /\ host \in Seq(Ops) /\ host # <<>> /\ Len(host) = 5
    <2>1. own \in Seq(Ops) /\ host \in Seq(Ops)
        BY <1>9 DEF IterationOf, Chained
    <2> QED
        BY <2>1
  <1> HIDE DEF own, host
  <1>11. Chained(stream) /\ stream \in Seq(Ops) /\ Pinned(stream, pins, pinIdx)
      BY DEF DraftInv, Chained, PinsInv
  <1>12. CASE device
    <2>1. UNCHANGED <<pins, pinIdx>> /\ stream' = stream \o own
        BY <1>2, <1>12
    <2>2. HostTypes'
        BY <1>1, <1>7, <2>1 DEF HostTypes
    <2>3. PinsInv'
      <3>1. Joined(stream', stream, own)
          BY <1>10, <1>11, <2>1, ConcatJoins
      <3>2. \A j \in 1 .. Len(own) : own[j].kind # "copy"
          BY <1>9, <1>10 DEF IterationOf
      <3>3. Pinned(stream', pins, pinIdx)
          BY <1>11, <3>1, <3>2, PinnedStays
      <3> QED
          BY <2>1, <3>3 DEF PinsInv
    <2> QED
        BY <1>1, <1>4, <1>5, <1>9, <2>1, <2>2, <2>3, IterationKeeps
  <1>13. CASE ~device
    <2>1. stream' = stream \o host /\ pinIdx' = 1 - pinIdx
          /\ pins' = [pins EXCEPT ![pinIdx] =
                        [i \in DOMAIN pins[pinIdx] |-> IF i \in DOMAIN lens THEN lens[i] ELSE pins[pinIdx][i]]]
        BY <1>2, <1>13 DEF StageExtendLens
    <2> DEFINE half == [i \in 1 .. Rows |-> IF i \in 1 .. size THEN lens[i] ELSE pins[pinIdx][i]]
    <2>2. half \in [1 .. Rows -> Nat] /\ \A i \in 1 .. size : half[i] = lens[i]
      <3>1. pins[pinIdx] \in [1 .. Rows -> Nat]
          BY <1>7
      <3> QED
          BY <1>6, <3>1
    <2>3. pins' = [pins EXCEPT ![pinIdx] = half]
      <3>1. DOMAIN pins[pinIdx] = 1 .. Rows
          BY <1>7
      <3> QED
          BY <1>6, <2>1, <3>1
    <2> HIDE DEF half
    <2>4. pins' \in [0 .. 1 -> [1 .. Rows -> Nat]] /\ pins'[pinIdx] = half /\ pins'[1 - pinIdx] = pins[1 - pinIdx]
          /\ pinIdx' \in 0 .. 1
      <3>1. 1 - pinIdx \in 0 .. 1 /\ 1 - pinIdx # pinIdx
          BY <1>7
      <3> QED
          BY <1>7, <2>1, <2>2, <2>3, <3>1
    <2>5. HostTypes'
        BY <1>1, <1>7, <2>4 DEF HostTypes
    <2>6. PinsInv'
      <3>1. Joined(stream', stream, host)
          BY <1>10, <1>11, <2>1, ConcatJoins
      <3>2. Cardinality({n \in DOMAIN stream : stream[n].kind \in {"prefill", "extend"}}) < 2
        <4> DEFINE T == {n \in DOMAIN stream : stream[n].kind \in {"prefill", "extend"}}
        <4>1. DOMAIN stream = 1 .. Len(stream) /\ Len(stream) \in Nat
            BY <1>11, LenProperties
        <4>2. IsFiniteSet(1 .. Len(stream))
            BY <4>1, FS_Interval
        <4>3. IsFiniteSet(T)
            BY <4>1, <4>2, FS_Subset
        <4>4. Cardinality(T) \in Nat
            BY <4>3, FS_CardinalityType
        <4>5. Cardinality(T) < HostAhead
            BY <1>1 DEF Forwards
        <4> HIDE DEF T
        <4>6. Cardinality(T) < 2
            BY <4>4, <4>5, DraftAssumption DEF DraftAssumption
        <4> QED
            BY <4>6 DEF T
      <3>3. \A j \in 1 .. Len(stream) : stream[j].kind = "copy" => stream[j].half \in 0 .. 1
        <4>1. \A j \in 1 .. Len(stream) : stream[j] \in Ops
            BY <1>11, ElementOfSeq
        <4> QED
            BY <4>1 DEF Ops, Prefills, Iterations
      <3>4. \A i \in 1 .. Len(lens) : pins'[pinIdx][i] = lens[i]
          BY <1>6, <2>2, <2>4
      <3>5. Pinned(stream', pins', 1 - pinIdx)
          BY <1>7, <1>9, <1>10, <1>11, <2>4, <3>1, <3>2, <3>3, <3>4, PinnedAlternates
      <3> QED
          BY <2>1, <3>5 DEF PinsInv
    <2> QED
        BY <1>1, <1>4, <1>5, <1>9, <2>1, <2>5, <2>6, IterationKeeps
  <1> QED
      BY <1>12, <1>13

LEMMA DraftInitially == DraftInit => DraftInv
  <1> SUFFICES ASSUME DraftInit PROVE DraftInv
      OBVIOUS
  <1> USE DEF DraftInit
  <1>1. Rows \in Nat
      BY DraftAssumption DEF DraftAssumption
  <1>2. stream = <<>> /\ Len(stream) = 0 /\ stream \in Seq(Ops)
      BY EmptySeq
  <1>3. \A j \in 1 .. Len(stream) : FALSE
      BY <1>2
  <1>4. Chained(stream)
    <2>1. \A j \in 1 .. Len(stream) - 1 : FALSE
        BY <1>2
    <2> QED
        BY <1>2, <1>3, <2>1 DEF Chained
  <1>5. HostTypes
      BY <1>1 DEF HostTypes
  <1>6. DeviceTypes
    <2>1. Nothing \in Selections
        BY DEF Nothing, Selection, Selections
    <2> QED
        BY <1>1, <2>1 DEF DeviceTypes
  <1>7. RowsInv
      BY DEF RowsInv
  <1>8. PinsInv
      BY <1>3 DEF PinsInv, Pinned, Copies
  <1>9. HeadInv
      BY <1>2 DEF HeadInv
  <1>10. ReadyInv
      BY <1>3 DEF ReadyInv, AllReady, Running
  <1> QED
      BY <1>4, <1>5, <1>6, <1>7, <1>8, <1>9, <1>10 DEF DraftInv

LEMMA DraftStepKeeps == DraftInv /\ [DraftNext]_draftVars => DraftInv'
  <1> SUFFICES ASSUME DraftInv, [DraftNext]_draftVars PROVE DraftInv'
      OBVIOUS
  <1>1. ASSUME NEW batch \in UNION {SetToSeqs(s) : s \in (SUBSET Requests) \ {{}}},
               NEW chunks \in [DOMAIN batch -> 1 .. MaxPrompt],
               NEW done \in SUBSET {batch[i] : i \in DOMAIN batch}, Prefill(batch, chunks, done)
        PROVE  DraftInv'
    <2>1. PICK s \in (SUBSET Requests) \ {{}} : batch \in SetToSeqs(s)
        OBVIOUS
    <2> QED
        BY <1>1, <2>1, PrefillKeeps
  <1>2. ASSUME NEW batch \in SetToSeqs(Running), NEW padLen \in {0, Block}, NEW device \in BOOLEAN,
               NEW size \in Len(batch) .. Rows, Iterate(batch, size, padLen, device)
        PROVE  DraftInv'
      BY <1>2, IterateKeeps
  <1>3. CASE \E r \in Requests : FinishRequest(r)
      BY <1>3, FinishRequestKeeps
  <1>4. CASE RunPrefill
      BY <1>4, RunPrefillKeeps
  <1>5. CASE RunDraft
      BY <1>5, RunDraftKeeps
  <1>6. CASE RunVerify
      BY <1>6, RunVerifyKeeps
  <1>7. CASE RunCopy
      BY <1>7, RunCopyKeeps
  <1>8. CASE RunLayout
      BY <1>8, RunLayoutKeeps
  <1>9. CASE RunExtend
      BY <1>9, RunExtendKeeps
  <1>10. CASE UNCHANGED draftVars
    <2>1. /\ UNCHANGED <<stream, row, stage, pins, pinIdx>>
          /\ UNCHANGED <<length, accepted, staged, layout, stored>>
        BY <1>10 DEF draftVars, hostVars, deviceVars
    <2>2. Chained(stream') /\ HostTypes' /\ DeviceTypes' /\ RowsInv' /\ PinsInv'
        BY <2>1 DEF DraftInv, HostTypes, DeviceTypes, RowsInv, PinsInv
    <2>3. HeadInv'
        BY <2>1, HeadStays DEF DraftInv
    <2>4. ReadyInv'
      <3>1. Running' = Running
          BY <2>1 DEF Running
      <3> QED
          BY <2>1, <3>1 DEF DraftInv, ReadyInv
    <2> QED
        BY <2>2, <2>3, <2>4 DEF DraftInv
  <1> QED
      BY <1>1, <1>2, <1>3, <1>4, <1>5, <1>6, <1>7, <1>8, <1>9, <1>10 DEF DraftNext

\* The inductive invariant: the stream is a sequence of whole forwards, each running
\* request has a pool row of its own, lengths on their way are pinned, and the last
\* operation before a draft that concerns its request or row stores its selection.
THEOREM DraftStreamIsReady == DraftSpec => []DraftInv
  <1>1. DraftInit => DraftInv
      BY DraftInitially
  <1>2. DraftInv /\ [DraftNext]_draftVars => DraftInv'
      BY DraftStepKeeps
  <1> QED
      BY <1>1, <1>2, PTL DEF DraftSpec

\* For every number of requests, pool rows, draft steps and padded rows, every order and
\* size of the batches and every count of accepted drafts: a draft step's selection is its
\* own request's, of its accepted tokens, and its tail has every later position up to it.
THEOREM DraftsSeeTheirPrefix == DraftSpec => []DraftSeesItsPrefix
  <1>1. DraftInv => DraftSeesItsPrefix
    <2> SUFFICES ASSUME DraftInv, stream # <<>>, Head(stream).kind = "draft",
                        NEW i \in DOMAIN Head(stream).batch, NEW step \in 0 .. NumSteps - 2
                 PROVE  LET r == Head(stream).batch[i]
                            position == length[r] + step
                            keys == Lookup(Head(stream).pool[i], position)
                        IN  /\ keys.frozen.of = r
                            /\ keys.frozen.upto <= length[r]
                            /\ keys.tail = keys.frozen.upto .. position
        BY DEF DraftSeesItsPrefix
    <2> DEFINE r == Head(stream).batch[i]  p == Head(stream).pool[i]  len == length[r]
               keys == Lookup(p, len + step)
    <2>1. i \in 1 .. Len(Head(stream).batch) /\ r \in Requests
        BY HeadIsOp DEF DraftInv, Members
    <2>2. Current(stored, length, r, p)
        BY <2>1, DraftFinds
    <2>3. stored[p] = [of |-> r, upto |-> len]
        BY <2>2 DEF Current, Selection
    <2>4. len \in Nat
        BY <2>1 DEF DraftInv, DeviceTypes
    <2>5. stored[p].of = r /\ stored[p].upto = len
        BY <2>3
    <2> HIDE DEF r, p, len
    <2>6. keys.frozen = stored[p] /\ keys.tail = {m \in {len + j : j \in 0 .. Monus(TailWidth, 1)} :
                                                    TailWidth > 0 /\ m <= len + step}
        BY <2>5 DEF Lookup
    <2> HIDE DEF keys
    <2>7. TailWidth \in Nat /\ TailWidth >= NumSteps - 1 /\ NumSteps \in Nat
        BY DraftAssumption DEF DraftAssumption
    <2>8. TailWidth > 0 /\ Monus(TailWidth, 1) \in Nat /\ step <= Monus(TailWidth, 1) /\ step \in Nat
        BY <2>7 DEF Monus
    <2>9. {m \in {len + j : j \in 0 .. Monus(TailWidth, 1)} : TailWidth > 0 /\ m <= len + step} = len .. len + step
      <3> DEFINE w == Monus(TailWidth, 1)
                 T == {m \in {len + j : j \in 0 .. w} : TailWidth > 0 /\ m <= len + step}
      <3>1. w \in Nat /\ step \in 0 .. w /\ TailWidth > 0
          BY <2>8
      <3> HIDE DEF w
      <3>2. ASSUME NEW m \in T PROVE m \in len .. len + step
        <4>1. PICK j \in 0 .. w : m = len + j
            OBVIOUS
        <4> QED
            BY <2>4, <2>8, <3>1, <4>1
      <3>3. ASSUME NEW m \in len .. len + step PROVE m \in T
        <4>1. m - len \in 0 .. w /\ m = len + (m - len)
            BY <2>4, <2>8, <3>1
        <4> QED
            BY <2>4, <2>8, <3>1, <4>1
      <3> HIDE DEF T
      <3>4. T = len .. len + step
          BY <3>2, <3>3
      <3> QED
          BY <3>4 DEF T, w
    <2>10. keys.frozen.of = r /\ keys.frozen.upto <= len /\ keys.tail = keys.frozen.upto .. len + step
        BY <2>4, <2>5, <2>6, <2>9
    <2> QED
        BY <2>10 DEF keys, r, p, len
  <1> QED
      BY <1>1, DraftStreamIsReady, PTL

\* For every count of replays the host enqueues and every order in which host and device
\* go on: a replay's layout finds the lengths that were staged for it.
THEOREM ReplaysReadTheirLengths == DraftSpec => []ReplayReadsItsLengths
  <1>1. DraftInv => ReplayReadsItsLengths
    <2> SUFFICES ASSUME DraftInv, stream # <<>>, Head(stream).kind = "layout",
                        NEW i \in DOMAIN Head(stream).lens
                 PROVE  staged[i] = Head(stream).lens[i]
        BY DEF ReplayReadsItsLengths
    <2>1. Head(stream) \in Ops /\ IsOp(Head(stream))
        BY HeadIsOp DEF DraftInv
    <2>2. Blocks(Head(stream))
        BY <2>1, OpHasBlocks
    <2>3. i \in 1 .. Len(Head(stream).lens)
        BY <2>2 DEF Blocks
    <2> QED
        BY <2>3 DEF DraftInv, HeadInv
  <1> QED
      BY <1>1, DraftStreamIsReady, PTL
=============================================================================
