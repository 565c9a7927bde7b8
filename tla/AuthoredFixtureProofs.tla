------------------------- MODULE AuthoredFixtureProofs -------------------------
(***************************************************************************)
(* Proofs about AuthoredFixture, for any configurations, scenes, draws,    *)
(* offset and image.                                                       *)
(***************************************************************************)
EXTENDS AuthoredFixture, FiniteSetTheorems, SequenceTheorems, WellFoundedInduction, TLAPS

-----------------------------------------------------------------------------
(* Induction over the natural numbers, on sets of numbers                  *)

\* A set of numbers that is not empty has a least member.
LEMMA LeastNatural ==
  ASSUME NEW S \in SUBSET Nat, S # {}
  PROVE  \E m \in S : \A n \in S : m <= n
<1>1. PICK x \in S : \A y \in S : <<y, x>> \notin OpToRel(<, Nat)
  BY NatLessThanWellFounded, WFMin
<1>2. \A y \in S : ~(y < x)
  BY <1>1 DEF OpToRel
<1> QED BY <1>2

\* A set that holds 0, and the successor of each of its members up to N, holds
\* every number up to N.
LEMMA CountingUp ==
  ASSUME NEW N \in Nat, NEW S, 0 \in S, \A n \in 0..(N - 1) : n \in S => n + 1 \in S
  PROVE  \A n \in 0..N : n \in S
<1> SUFFICES ASSUME NEW k \in 0..N, k \notin S PROVE FALSE
  OBVIOUS
<1>0. (0..N) \ S \in SUBSET Nat /\ (0..N) \ S # {}
  OBVIOUS
<1>1. PICK m \in (0..N) \ S : \A n \in (0..N) \ S : m <= n
  BY <1>0, LeastNatural
<1>2. m - 1 \in 0..(N - 1) /\ m - 1 \notin (0..N) \ S
  BY <1>1
<1> QED BY <1>1, <1>2

-----------------------------------------------------------------------------
(* Sorting                                                                 *)

\* R is a strict total order of T.
Orders(R, T) ==
  /\ \A x \in T : <<x, x>> \notin R
  /\ \A x, y \in T : x = y \/ <<x, y>> \in R \/ <<y, x>> \in R
  /\ \A x, y, z \in T : <<x, y>> \in R /\ <<y, z>> \in R => <<x, z>> \in R

Below(R, T, x) == { y \in T : <<y, x>> \in R }

LEMMA CountingTo ==
  ASSUME NEW n \in Nat
  PROVE  IsFiniteSet(1..n) /\ Cardinality(1..n) = n
<1>1. 1 \in Int /\ n \in Int
  OBVIOUS
<1>2. IsFiniteSet(1..n) /\ Cardinality(1..n) = IF 1 > n THEN 0 ELSE n - 1 + 1
  BY <1>1, FS_Interval
<1> QED BY <1>2

LEMMA BelowSize ==
  ASSUME NEW T, IsFiniteSet(T), NEW R, Orders(R, T), NEW x \in T
  PROVE  /\ IsFiniteSet(Below(R, T, x)) /\ Cardinality(Below(R, T, x)) \in Nat
         /\ Cardinality(Below(R, T, x)) < Cardinality(T)
<1>1. Below(R, T, x) \in SUBSET (T \ {x})
  BY DEF Below, Orders
<1>2. /\ IsFiniteSet(T \ {x}) /\ Cardinality(T \ {x}) = Cardinality(T) - 1
      /\ Cardinality(T) \in Nat
  BY FS_RemoveElement, FS_CardinalityType
<1>3. /\ IsFiniteSet(Below(R, T, x))
      /\ Cardinality(Below(R, T, x)) <= Cardinality(T \ {x})
  BY <1>1, <1>2, FS_Subset
<1>4. Cardinality(Below(R, T, x)) \in Nat
  BY <1>3, FS_CardinalityType
<1> QED BY <1>2, <1>3, <1>4

LEMMA BelowGrows ==
  ASSUME NEW T, IsFiniteSet(T), NEW R, Orders(R, T), NEW x \in T, NEW y \in T, <<x, y>> \in R
  PROVE  Cardinality(Below(R, T, x)) < Cardinality(Below(R, T, y))
<1> DEFINE A == Below(R, T, x)
           B == Below(R, T, y)
<1>1. x \in B /\ A \subseteq B \ {x}
  BY DEF Below, Orders
<1>2. IsFiniteSet(B) /\ Cardinality(A) \in Nat /\ Cardinality(B) \in Nat
  BY BelowSize
<1> HIDE DEF A, B
<1>3. IsFiniteSet(B \ {x}) /\ Cardinality(B \ {x}) = Cardinality(B) - 1
  BY <1>1, <1>2, FS_RemoveElement
<1>4. Cardinality(A) <= Cardinality(B \ {x})
  BY <1>1, <1>3, FS_Subset
<1> QED BY <1>2, <1>3, <1>4 DEF A, B

\* q lists T in the order of R.
Ascending(q, n, R, T) == /\ q \in [1..n -> T]
                         /\ \A i, j \in 1..n : q[i] = q[j] => i = j
                         /\ \A x \in T : \E i \in 1..n : q[i] = x
                         /\ \A i, j \in 1..n : i < j => <<q[i], q[j]>> \in R

\* Every rank is taken.
LEMMA RankTaken ==
  ASSUME NEW T, IsFiniteSet(T), NEW R, Orders(R, T)
  PROVE  \A i \in 1..Cardinality(T) : \E x \in T : Cardinality(Below(R, T, x)) = i - 1
<1> DEFINE n == Cardinality(T)
           rank == [x \in T |-> 1 + Cardinality(Below(R, T, x))]
<1>1. n \in Nat /\ \A x \in T : Cardinality(Below(R, T, x)) \in Nat /\ Cardinality(Below(R, T, x)) < n
  BY BelowSize, FS_CardinalityType
<1>2. rank \in [T -> 1..n] /\ \A x \in T : rank[x] = 1 + Cardinality(Below(R, T, x))
  <2> HIDE DEF n
  <2>1. \A x \in T : 1 + Cardinality(Below(R, T, x)) \in 1..n
    BY <1>1
  <2> QED BY <2>1
<1> HIDE DEF rank
<1>3. \A x, y \in T : <<x, y>> \in R => rank[x] < rank[y]
  <2> SUFFICES ASSUME NEW x \in T, NEW y \in T, <<x, y>> \in R PROVE rank[x] < rank[y]
    OBVIOUS
  <2>1. Cardinality(Below(R, T, x)) < Cardinality(Below(R, T, y))
    BY BelowGrows
  <2> HIDE DEF n
  <2> QED BY <1>1, <1>2, <2>1
<1>4. ASSUME NEW x \in T, NEW y \in T, rank[x] = rank[y], x # y PROVE FALSE
  <2>1. <<x, y>> \in R \/ <<y, x>> \in R
    BY <1>4 DEF Orders
  <2>2. rank[x] < rank[y] \/ rank[y] < rank[x]
    BY <1>3, <2>1
  <2>3. rank[x] \in Nat /\ rank[y] \in Nat
    BY <1>1, <1>2
  <2> QED BY <1>4, <2>2, <2>3
<1>5. rank \in Surjection(T, 1..n)
  <2>1. rank \in Injection(T, 1..n)
    BY <1>2, <1>4 DEF Injection, IsInjective
  <2>2. IsFiniteSet(1..n) /\ Cardinality(1..n) = Cardinality(T)
    BY <1>1, CountingTo
  <2> HIDE DEF n
  <2> QED BY <2>1, <2>2, FS_Injection
<1>6. \A i \in 1..n : \E x \in T : rank[x] = i
  BY <1>5 DEF Surjection
<1>7. ASSUME NEW i \in 1..n PROVE \E x \in T : Cardinality(Below(R, T, x)) = i - 1
  <2>1. PICK x \in T : rank[x] = i
    BY <1>6
  <2>2. Cardinality(Below(R, T, x)) = i - 1
    BY <1>1, <1>2, <2>1
  <2> QED BY <2>2
<1> QED BY <1>7

\* What has the ranks one by one lists a finite set in its order.
LEMMA RankedAscends ==
  ASSUME NEW T, IsFiniteSet(T), NEW R, Orders(R, T),
         NEW n, n = Cardinality(T), NEW q \in [1..n -> T],
         \A i \in 1..n : Cardinality(Below(R, T, q[i])) = i - 1
  PROVE  Ascending(q, n, R, T)
<1>1. n \in Nat /\ \A x \in T : Cardinality(Below(R, T, x)) \in Nat /\ Cardinality(Below(R, T, x)) < n
  BY BelowSize, FS_CardinalityType
<1>2. \A x, y \in T : <<x, y>> \in R => Cardinality(Below(R, T, x)) < Cardinality(Below(R, T, y))
  BY BelowGrows
<1>3. ASSUME NEW x \in T, NEW y \in T, Cardinality(Below(R, T, x)) = Cardinality(Below(R, T, y))
      PROVE x = y
  <2>1. x = y \/ <<x, y>> \in R \/ <<y, x>> \in R
    BY DEF Orders
  <2> QED BY <1>1, <1>2, <1>3, <2>1
<1>4. ASSUME NEW i \in 1..n, NEW j \in 1..n, i < j PROVE <<q[i], q[j]>> \in R
  <2>1. q[i] \in T /\ q[j] \in T /\ Cardinality(Below(R, T, q[i])) = i - 1
        /\ Cardinality(Below(R, T, q[j])) = j - 1
    OBVIOUS
  <2>2. <<q[j], q[i]>> \notin R /\ q[i] # q[j]
    BY <1>1, <1>2, <1>4, <2>1
  <2> QED BY <2>1, <2>2 DEF Orders
<1>5. ASSUME NEW x \in T PROVE \E i \in 1..n : q[i] = x
  <2>1. PICK i \in 1..n : i = 1 + Cardinality(Below(R, T, x))
    BY <1>1
  <2>2. q[i] \in T /\ Cardinality(Below(R, T, q[i])) = Cardinality(Below(R, T, x))
    BY <1>1, <2>1
  <2> QED BY <1>3, <2>2
<1>6. \A i, j \in 1..n : q[i] = q[j] => i = j
  <2> SUFFICES ASSUME NEW i \in 1..n, NEW j \in 1..n, q[i] = q[j] PROVE i = j
    OBVIOUS
  <2>1. i - 1 = j - 1
    OBVIOUS
  <2> QED BY <1>1, <2>1
<1> QED BY <1>4, <1>5, <1>6 DEF Ascending

-----------------------------------------------------------------------------
(* The visible points                                                      *)

SeenPlaces(c, f) == { i \in DOMAIN Scene(f) : Seen(c.hidden, Scene(f)[i]) # Unseen }
Less(T) == { p \in T \X T : p[1] < p[2] }
Many(c, f) == Cardinality(SeenPlaces(c, f))

VisibleOf(c, f) == Listing(SeenPlaces(c, f), LAMBDA i, j : i < j)
CountOf(c, f) ==
  IF f \in Training THEN (c.fraction[1] * Len(VisibleOf(c, f))) \div c.fraction[2] ELSE 0

LEMMA SceneIs ==
  ASSUME NEW f \in Frames
  PROVE  /\ Len(Scene(f)) \in Nat /\ DOMAIN Scene(f) = 1..Len(Scene(f))
         /\ \A i \in DOMAIN Scene(f) : Scene(f)[i] \in ToSet(Scene(f))
  BY SceneAssumption DEF ToSet

LEMMA SeenIs ==
  ASSUME NEW c, NEW f \in Frames
  PROVE  /\ IsFiniteSet(SeenPlaces(c, f)) /\ Many(c, f) \in Nat
         /\ SeenPlaces(c, f) \subseteq 1..Len(Scene(f))
<1>1. SeenPlaces(c, f) \subseteq 1..Len(Scene(f)) /\ Len(Scene(f)) \in Nat
  BY SceneIs DEF SeenPlaces
<1>2. IsFiniteSet(1..Len(Scene(f)))
  BY <1>1, CountingTo
<1>3. IsFiniteSet(SeenPlaces(c, f))
  BY <1>1, <1>2, FS_Subset
<1> QED BY <1>1, <1>3, FS_CardinalityType DEF Many

LEMMA LessOrders ==
  ASSUME NEW T \in SUBSET Int
  PROVE  Orders(Less(T), T) /\ \A x \in T : Below(Less(T), T, x) = { y \in T : y < x }
  BY DEF Orders, Less, Below

\* The visible points are listed in the order of the scene.
LEMMA VisibleIs ==
  ASSUME NEW c, NEW f \in Frames
  PROVE  Ascending(VisibleOf(c, f), Many(c, f), Less(SeenPlaces(c, f)), SeenPlaces(c, f))
<1> DEFINE T == SeenPlaces(c, f)
           R == Less(T)
           n == Many(c, f)
           q == VisibleOf(c, f)
<1>1. /\ IsFiniteSet(T) /\ n \in Nat /\ T \subseteq Int /\ n = Cardinality(T)
      /\ Orders(R, T) /\ \A x \in T : Below(R, T, x) = { y \in T : y < x }
  BY SeenIs, LessOrders DEF Many
<1>2. \A i \in 1..n : \E x \in T : Cardinality(Below(R, T, x)) = i - 1
  BY <1>1, RankTaken
<1>3. q = [i \in 1..n |-> CHOOSE k \in T : Cardinality({ y \in T : y < k }) = i - 1]
  BY DEF VisibleOf, Listing, Many, SeenPlaces
<1> HIDE DEF T, R, n, q
<1>4. ASSUME NEW i \in 1..n PROVE q[i] \in T /\ Cardinality(Below(R, T, q[i])) = i - 1
  <2>1. \E x \in T : Cardinality({ y \in T : y < x }) = i - 1
    BY <1>1, <1>2
  <2>2. q[i] = CHOOSE k \in T : Cardinality({ y \in T : y < k }) = i - 1
    BY <1>3
  <2>3. q[i] \in T /\ Cardinality({ y \in T : y < q[i] }) = i - 1
    BY <2>1, <2>2
  <2> QED BY <1>1, <2>3
<1>5. q \in [1..n -> T]
  BY <1>3, <1>4
<1>6. Ascending(q, n, R, T)
  BY <1>1, <1>4, <1>5, RankedAscends
<1> QED BY <1>6 DEF T, R, n, q

LEMMA VisibleSeq ==
  ASSUME NEW c, NEW f \in Frames
  PROVE  /\ Many(c, f) \in Nat /\ Len(VisibleOf(c, f)) = Many(c, f)
         /\ DOMAIN VisibleOf(c, f) = 1..Many(c, f)
         /\ \A i \in 1..Many(c, f) : VisibleOf(c, f)[i] \in SeenPlaces(c, f)
         /\ \A i, j \in 1..Many(c, f) : VisibleOf(c, f)[i] = VisibleOf(c, f)[j] => i = j
         /\ \A p \in SeenPlaces(c, f) : \E i \in 1..Many(c, f) : VisibleOf(c, f)[i] = p
<1>1. Ascending(VisibleOf(c, f), Many(c, f), Less(SeenPlaces(c, f)), SeenPlaces(c, f))
  BY VisibleIs
<1>2. Many(c, f) \in Nat
  BY SeenIs
<1> QED BY <1>1, <1>2 DEF Ascending

LEMMA NowIs ==
  ASSUME NEW f \in Frames
  PROVE  Visible(f) = VisibleOf(config, f) /\ OutlierCount(f) = CountOf(config, f)
<1>1. Visible(f) = VisibleOf(config, f)
  BY DEF Visible, VisibleOf, SeenPlaces
<1> QED BY <1>1 DEF OutlierCount, CountOf

-----------------------------------------------------------------------------
(* The corruption of a frame                                               *)

Shift(O, i) == IF i \in O THEN Offset ELSE Zero
CleanAt(c, f, i) == Seen(c.hidden, Scene(f)[VisibleOf(c, f)[i]])
SourceAt(c, f, i) == SourceIndex(VisibleOf(c, f)[i])
NoiseAt(c, f, O, T, i) == Plus(T[i].at, Minus(Plus(CleanAt(c, f, i), Shift(O, i))))
PixelAt(c, f, O, i) == [frame |-> f, source |-> SourceAt(c, f, i), at |-> CleanAt(c, f, i),
                        training_outlier |-> i \in O]
Target == [source : Int, at : Vectors]
Pixel == [frame : Frames, source : Int, at : Vectors, training_outlier : BOOLEAN]

\* The first k targets of a frame.
Recorded(c, f, T, k) ==
  /\ T \in Seq(Target) /\ Len(T) = k
  /\ \A i \in 1..k : T[i].source = SourceAt(c, f, i) /\ InImage(T[i].at)

\* Their noise comes in pairs that cancel.
Paired(c, f, O, T, k) ==
  \A i \in 1..k :
    /\ NoiseAt(c, f, O, T, i) \in Vectors
    /\ i % 2 = 0 => NoiseAt(c, f, O, T, i) = Minus(NoiseAt(c, f, O, T, i - 1))
    /\ i % 2 = 1 /\ i = Many(c, f) => NoiseAt(c, f, O, T, i) = Zero
    /\ c.noise = 0 => NoiseAt(c, f, O, T, i) = Zero

Chosen(c, f, O) == O \in SUBSET (1..Many(c, f)) /\ Cardinality(O) = CountOf(c, f)

\* After k turns of the inner loop: the targets T and the oracle pixels P.
Corrupted(c, f, O, T, P, k) ==
  /\ Chosen(c, f, O) /\ Recorded(c, f, T, k) /\ Paired(c, f, O, T, k)
  /\ P = { PixelAt(c, f, O, i) : i \in 1..k }

LEMMA Nought ==
  ASSUME NEW x \in Int, x <= 0, x >= 0
  PROVE  -x = 0
  OBVIOUS

LEMMA VectorsAdd ==
  ASSUME NEW p \in Vectors, NEW q \in Vectors, NEW r \in Vectors
  PROVE  /\ Plus(p, q) \in Vectors /\ Minus(p) \in Vectors /\ Zero \in Vectors
         /\ Minus(Zero) = Zero /\ Plus(p, Minus(p)) = Zero /\ Plus(p, Zero) = p
         /\ Plus(Zero, p) = p
         /\ Plus(Plus(Plus(p, q), r), Minus(Plus(p, r))) = q
<1>1. /\ p[1] \in Int /\ p[2] \in Int /\ q[1] \in Int /\ q[2] \in Int
      /\ r[1] \in Int /\ r[2] \in Int /\ p = <<p[1], p[2]>> /\ q = <<q[1], q[2]>>
  BY DEF Vectors
<1>2. Plus(p, q) \in Vectors /\ Minus(p) \in Vectors /\ Zero \in Vectors
  BY <1>1 DEF Vectors, Plus, Minus, Zero
<1>3. Minus(Zero) = Zero
  <2>1. /\ Zero[1] \in Int /\ Zero[1] <= 0 /\ Zero[1] >= 0
        /\ Zero[2] \in Int /\ Zero[2] <= 0 /\ Zero[2] >= 0
    BY DEF Zero
  <2>2. -Zero[1] = 0 /\ -Zero[2] = 0
    BY <2>1, Nought
  <2>3. <<-Zero[1], -Zero[2]>> = <<0, 0>>
    BY <2>2
  <2> QED BY <2>3 DEF Minus, Zero
<1>4. Plus(p, Minus(p)) = Zero
  BY <1>1 DEF Plus, Minus, Zero
<1>5. Plus(p, Zero) = p
  BY <1>1 DEF Plus, Zero
<1>6. Plus(Zero, p) = p
  BY <1>1 DEF Plus, Zero
<1>7. Plus(Plus(Plus(p, q), r), Minus(Plus(p, r))) = q
  BY <1>1 DEF Plus, Minus
<1> QED BY <1>2, <1>3, <1>4, <1>5, <1>6, <1>7

LEMMA CleanIs ==
  ASSUME NEW c \in Configs, NEW f \in Frames, NEW i \in 1..Many(c, f)
  PROVE  /\ CleanAt(c, f, i) \in Vectors /\ InImage(CleanAt(c, f, i))
         /\ VisibleOf(c, f)[i] \in 1..Len(Scene(f)) /\ SourceAt(c, f, i) \in Int
<1>1. VisibleOf(c, f)[i] \in SeenPlaces(c, f) /\ SeenPlaces(c, f) \subseteq 1..Len(Scene(f))
  BY VisibleSeq, SeenIs
<1>2. /\ Scene(f)[VisibleOf(c, f)[i]] \in ToSet(Scene(f))
      /\ Seen(c.hidden, Scene(f)[VisibleOf(c, f)[i]]) # Unseen
  BY <1>1, SceneIs DEF SeenPlaces
<1>3. CleanAt(c, f, i) \in Vectors /\ InImage(CleanAt(c, f, i))
  BY <1>2, SceneAssumption DEF CleanAt
<1>4. SourceAt(c, f, i) \in Int
  BY <1>1, SceneIs DEF SourceAt, SourceIndex
<1> QED BY <1>1, <1>3, <1>4

\* The noise that NoiseOf allows after k targets.
Allowed(c, f, O, T, k, n) ==
  /\ n \in Vectors
  /\ (k + 1) % 2 = 0 => n = Minus(NoiseAt(c, f, O, T, k))
  /\ (k + 1) % 2 = 1 /\ k + 1 = Many(c, f) => n = Zero
  /\ c.noise = 0 => n = Zero

LEMMA OneMore ==
  ASSUME NEW c \in Configs, NEW f \in Frames, NEW O, NEW T, NEW P, NEW k \in Nat,
         k < Many(c, f), Corrupted(c, f, O, T, P, k), NEW n, Allowed(c, f, O, T, k, n),
         NEW e, e = [source |-> SourceAt(c, f, k + 1),
                     at |-> Plus(Plus(CleanAt(c, f, k + 1), n), Shift(O, k + 1))],
         InImage(e.at)
  PROVE  /\ Corrupted(c, f, O, Append(T, e), P \cup {PixelAt(c, f, O, k + 1)}, k + 1)
         /\ NoiseAt(c, f, O, Append(T, e), k + 1) = n
<1> DEFINE T2 == Append(T, e)
<1>1. /\ k + 1 \in 1..Many(c, f) /\ T \in Seq(Target) /\ Len(T) = k /\ Many(c, f) \in Nat
      /\ CleanAt(c, f, k + 1) \in Vectors /\ SourceAt(c, f, k + 1) \in Int
      /\ Shift(O, k + 1) \in Vectors /\ n \in Vectors
  <2>1. k + 1 \in 1..Many(c, f) /\ Many(c, f) \in Nat
    BY VisibleSeq
  <2>2. Zero \in Vectors
    BY DEF Zero, Vectors
  <2> QED BY <2>1, <2>2, CleanIs, SceneAssumption DEF Corrupted, Recorded, Shift, Allowed
<1>2. e.at \in Vectors /\ e \in Target
  BY <1>1, VectorsAdd DEF Target
<1>3. /\ T2 \in Seq(Target) /\ Len(T2) = k + 1 /\ T2[k + 1] = e
      /\ \A i \in 1..k : T2[i] = T[i]
  BY <1>1, <1>2
<1> HIDE DEF T2
<1>4. /\ \A i \in 1..k : NoiseAt(c, f, O, T2, i) = NoiseAt(c, f, O, T, i)
      /\ NoiseAt(c, f, O, T2, k + 1) = n
  <2>1. \A i \in 1..k : NoiseAt(c, f, O, T2, i) = NoiseAt(c, f, O, T, i)
    BY <1>3 DEF NoiseAt
  <2>2. NoiseAt(c, f, O, T2, k + 1)
          = Plus(e.at, Minus(Plus(CleanAt(c, f, k + 1), Shift(O, k + 1))))
    BY <1>3 DEF NoiseAt
  <2>3. e.at = Plus(Plus(CleanAt(c, f, k + 1), n), Shift(O, k + 1))
    OBVIOUS
  <2>4. NoiseAt(c, f, O, T2, k + 1) = n
    BY <1>1, <2>2, <2>3, VectorsAdd
  <2> QED BY <2>1, <2>4
<1>5. Recorded(c, f, T2, k + 1)
  <2> SUFFICES ASSUME NEW i \in 1..(k + 1)
               PROVE T2[i].source = SourceAt(c, f, i) /\ InImage(T2[i].at)
    BY <1>3 DEF Recorded
  <2>1. CASE i \in 1..k
    BY <1>3, <2>1 DEF Corrupted, Recorded
  <2>2. CASE i = k + 1
    BY <1>3, <2>2
  <2> QED BY <2>1, <2>2
<1>6. Paired(c, f, O, T2, k + 1)
  <2> SUFFICES ASSUME NEW i \in 1..(k + 1)
               PROVE  /\ NoiseAt(c, f, O, T2, i) \in Vectors
                      /\ i % 2 = 0 => NoiseAt(c, f, O, T2, i) = Minus(NoiseAt(c, f, O, T2, i - 1))
                      /\ i % 2 = 1 /\ i = Many(c, f) => NoiseAt(c, f, O, T2, i) = Zero
                      /\ c.noise = 0 => NoiseAt(c, f, O, T2, i) = Zero
    BY DEF Paired
  <2>1. CASE i \in 1..k
    <3>1. i % 2 = 0 => i - 1 \in 1..k
      BY <2>1
    <3> QED BY <1>4, <2>1, <3>1 DEF Corrupted, Paired
  <2>2. CASE i = k + 1
    <3>1. i % 2 = 0 => k \in 1..k /\ k = i - 1
      BY <2>2
    <3> QED BY <1>4, <2>2, <3>1 DEF Allowed
  <2> QED BY <2>1, <2>2
<1>7. P \cup {PixelAt(c, f, O, k + 1)} = { PixelAt(c, f, O, i) : i \in 1..(k + 1) }
  <2>1. 1..(k + 1) = (1..k) \cup {k + 1}
    OBVIOUS
  <2>2. P = { PixelAt(c, f, O, i) : i \in 1..k }
    BY DEF Corrupted
  <2> QED BY <2>1, <2>2
<1> QED BY <1>4, <1>5, <1>6, <1>7 DEF Corrupted, T2

-----------------------------------------------------------------------------
(* The generator                                                           *)

Point == [source : Int, point : UNION { ToSet(Scene(f)) : f \in Frames }]
Entry == [frame : Frames, scene : SUBSET UNION { ToSet(Scene(f)) : f \in Frames },
          points : Seq(Point), observations : Seq(Target), input : Nat, visible : Nat,
          outlier_count : Nat, noise_sum : Vectors]

PointsOf(f) == [i \in DOMAIN Scene(f) |-> [source |-> SourceIndex(i), point |-> Scene(f)[i]]]
PixelsOf(P, f) == { p \in ToSet(P) : p.frame = f }

\* No two oracle pixels are of one source index of one frame.
Listed(P) ==
  /\ P \in Seq(Pixel)
  /\ \A i, j \in 1..Len(P) : i # j => P[i].frame # P[j].frame \/ P[i].source # P[j].source

Described(c, f, T, e) ==
  /\ e.frame = f /\ e.scene = ToSet(Scene(f)) /\ e.points = PointsOf(f) /\ e.observations = T
  /\ e.input = Len(PointsOf(f)) /\ e.visible = Many(c, f) /\ e.outlier_count = CountOf(c, f)

\* A frame whose files are written.
FrameDone(c, f, points, observations, entries, P) ==
  /\ Many(c, f) > 0
  /\ points[f + 1] = PointsOf(f)
  /\ Described(c, f, observations[f + 1], entries[f + 1])
  /\ \E O : Corrupted(c, f, O, observations[f + 1], PixelsOf(P, f), Many(c, f))

Filed(points, observations, entries, n) ==
  /\ points \in Seq(Seq(Point)) /\ Len(points) = n
  /\ observations \in Seq(Seq(Target)) /\ Len(observations) = n
  /\ entries \in Seq(Entry) /\ Len(entries) = n

\* Q is P with one more pixel e, of frame f.
Extended(P, e, Q, f) ==
  /\ Listed(Q) /\ PixelsOf(Q, f) = PixelsOf(P, f) \cup {e}
  /\ \A g \in Frames \ {f} : PixelsOf(Q, g) = PixelsOf(P, g)
  /\ Len(Q) = Len(P) + 1 /\ \A i \in 1..Len(P) : Q[i] = P[i]
  /\ Q[Len(P) + 1].frame = f

LEMMA AnotherPixel ==
  ASSUME NEW c \in Configs, NEW f \in Frames, NEW O, NEW P, Listed(P), NEW k \in Nat,
         k < Many(c, f), PixelsOf(P, f) = { PixelAt(c, f, O, i) : i \in 1..k },
         NEW e, e = PixelAt(c, f, O, k + 1)
  PROVE  Extended(P, e, Append(P, e), f)
<1> DEFINE Q == Append(P, e)
<1>1. /\ k + 1 \in 1..Many(c, f) /\ P \in Seq(Pixel) /\ e.frame = f
      /\ e.source = SourceAt(c, f, k + 1)
  BY VisibleSeq DEF Listed, PixelAt
<1>2. e \in Pixel
  BY <1>1, CleanIs DEF PixelAt, Pixel
<1>3. /\ Q \in Seq(Pixel) /\ Len(Q) = Len(P) + 1 /\ Len(P) \in Nat /\ Q[Len(P) + 1] = e
      /\ \A i \in 1..Len(P) : Q[i] = P[i]
  BY <1>1, <1>2
<1> HIDE DEF Q
<1>4. ASSUME NEW i \in 1..Len(P), P[i].frame = f PROVE P[i].source # e.source
  <2>1. P[i] \in PixelsOf(P, f)
    BY <1>1, <1>4 DEF PixelsOf, ToSet
  <2>2. PICK j \in 1..k : P[i] = PixelAt(c, f, O, j)
    BY <2>1
  <2>3. P[i].source = SourceAt(c, f, j)
    BY <2>2 DEF PixelAt
  <2>4. j \in 1..Many(c, f) /\ j # k + 1 /\ VisibleOf(c, f)[j] # VisibleOf(c, f)[k + 1]
    BY <1>1, VisibleSeq
  <2>5. VisibleOf(c, f)[j] \in Int /\ VisibleOf(c, f)[k + 1] \in Int
    BY <1>1, <2>4, CleanIs, SceneIs
  <2> QED BY <1>1, <2>3, <2>4, <2>5 DEF SourceAt, SourceIndex
<1>5. Listed(Q)
  <2> SUFFICES ASSUME NEW i \in 1..(Len(P) + 1), NEW j \in 1..(Len(P) + 1), i # j
               PROVE  Q[i].frame # Q[j].frame \/ Q[i].source # Q[j].source
    BY <1>3 DEF Listed
  <2>1. CASE i \in 1..Len(P) /\ j \in 1..Len(P)
    BY <1>3, <2>1 DEF Listed
  <2>2. CASE i = Len(P) + 1 /\ j \in 1..Len(P)
    BY <1>1, <1>3, <1>4, <2>2
  <2>3. CASE j = Len(P) + 1 /\ i \in 1..Len(P)
    BY <1>1, <1>3, <1>4, <2>3
  <2> QED BY <1>3, <2>1, <2>2, <2>3
<1>6. ToSet(Q) = ToSet(P) \cup {e}
  <2>1. ToSet(Q) = { Q[i] : i \in 1..(Len(P) + 1) } /\ ToSet(P) = { P[i] : i \in 1..Len(P) }
    BY <1>1, <1>3 DEF ToSet
  <2>2. 1..(Len(P) + 1) = (1..Len(P)) \cup {Len(P) + 1}
    BY <1>3
  <2> QED BY <1>3, <2>1, <2>2
<1>7. PixelsOf(Q, f) = PixelsOf(P, f) \cup {e}
  BY <1>1, <1>6 DEF PixelsOf
<1>8. \A g \in Frames \ {f} : PixelsOf(Q, g) = PixelsOf(P, g)
  BY <1>1, <1>6 DEF PixelsOf
<1> QED BY <1>1, <1>3, <1>5, <1>7, <1>8 DEF Q, Extended

\* n frames are finished.
Written(c, n, F, P) ==
  /\ F = [points |-> F.points, observations |-> F.observations, manifest |-> F.manifest,
          oracle |-> None]
  /\ Filed(F.points, F.observations, F.manifest, n) /\ Listed(P)
  /\ \A f \in 0..(n - 1) : FrameDone(c, f, F.points, F.observations, F.manifest, P)
UpTo(P, n) == \A i \in 1..Len(P) : P[i].frame < n

\* The inner loop is at point k of frame f.
Turn(c, f, O, k, n, s, T, P) ==
  /\ k \in 1..(Many(c, f) + 1) /\ s \in Vectors
  /\ Corrupted(c, f, O, T, PixelsOf(P, f), k - 1)
  /\ k > 1 => n = NoiseAt(c, f, O, T, k - 1)

Generating ==
  /\ phase = "frame" =>
       frame \in 0..3 /\ Written(config, frame, files, pixels) /\ UpTo(pixels, frame)
  /\ phase = "target" =>
       /\ frame \in Frames /\ Written(config, frame, files, pixels) /\ UpTo(pixels, frame + 1)
       /\ Turn(config, frame, outliers, next, noise, sum, targets, pixels)

LEMMA Begun ==
  ASSUME config \in Configs, Generating, BeginFrame
  PROVE  Generating'
<1>1. /\ phase = "frame" /\ frame \in Frames /\ phase' = "target" /\ next' = 1 /\ sum' = Zero
      /\ targets' = <<>>
      /\ UNCHANGED <<config, frame, pixels, files>>
      /\ outliers' \in { s \in SUBSET DOMAIN Visible(frame) : Cardinality(s) = OutlierCount(frame) }
  BY DEF BeginFrame
<1>2. Written(config, frame, files, pixels) /\ UpTo(pixels, frame)
  BY <1>1 DEF Generating
<1>3. pixels \in Seq(Pixel) /\ Len(pixels) \in Nat /\ \A i \in 1..Len(pixels) : pixels[i].frame \in Int
  <2>1. pixels \in Seq(Pixel)
    BY <1>2 DEF Written, Listed
  <2>2. Len(pixels) \in Nat /\ \A i \in 1..Len(pixels) : pixels[i] \in Pixel
    BY <2>1
  <2>3. \A q \in Pixel : q.frame \in Int
    BY DEF Pixel, Frames
  <2> QED BY <2>1, <2>2, <2>3
<1>4. PixelsOf(pixels, frame) = {}
  <2>1. ASSUME NEW p \in ToSet(pixels), p.frame = frame PROVE FALSE
    <3>1. PICK i \in 1..Len(pixels) : p = pixels[i]
      BY <1>3 DEF ToSet
    <3>2. pixels[i].frame < frame
      BY <1>2 DEF UpTo
    <3> QED BY <1>1, <2>1, <3>1, <3>2 DEF Frames
  <2> QED BY <2>1 DEF PixelsOf
<1>5. Chosen(config, frame, outliers')
  <2>1. Visible(frame) = VisibleOf(config, frame) /\ OutlierCount(frame) = CountOf(config, frame)
    BY <1>1, NowIs
  <2>2. DOMAIN VisibleOf(config, frame) = 1..Many(config, frame)
    BY <1>1, VisibleSeq
  <2> QED BY <1>1, <2>1, <2>2 DEF Chosen
<1>6. Corrupted(config, frame, outliers', <<>>, PixelsOf(pixels, frame), 0)
  <2>1. Recorded(config, frame, <<>>, 0)
    BY DEF Recorded
  <2>2. Paired(config, frame, outliers', <<>>, 0)
    BY DEF Paired
  <2>3. {} = { PixelAt(config, frame, outliers', i) : i \in 1..0 }
    OBVIOUS
  <2> QED BY <1>4, <1>5, <2>1, <2>2, <2>3 DEF Corrupted
<1>7. Turn(config, frame, outliers', 1, noise', Zero, <<>>, pixels)
  <2>1. Many(config, frame) \in Nat /\ Zero \in Vectors
    BY <1>1, VisibleSeq DEF Zero, Vectors
  <2>2. 1 \in 1..(Many(config, frame) + 1) /\ 1 - 1 = 0 /\ ~(1 > 1)
    BY <2>1
  <2> QED BY <1>6, <2>1, <2>2 DEF Turn
<1>8. UpTo(pixels, frame + 1)
  BY <1>1, <1>2, <1>3 DEF UpTo, Frames
<1>9. /\ config' = config /\ frame' = frame /\ pixels' = pixels /\ files' = files
      /\ phase' = "target" /\ next' = 1 /\ sum' = Zero /\ targets' = <<>>
  BY <1>1
<1> QED BY <1>1, <1>2, <1>7, <1>8, <1>9 DEF Generating

LEMMA NoiseAllowed ==
  ASSUME config \in Configs, frame \in Frames,
         Turn(config, frame, outliers, next, noise, sum, targets, pixels),
         next <= Many(config, frame), NEW n \in NoiseOf(next)
  PROVE  Allowed(config, frame, outliers, targets, next - 1, n)
<1>1. /\ next \in 1..Many(config, frame) /\ Many(config, frame) \in Nat
      /\ Len(Visible(frame)) = Many(config, frame)
  BY NowIs, VisibleSeq DEF Turn
<1>2. /\ Draws(config.noise) \subseteq Vectors
      /\ config.noise = 0 => Draws(config.noise) = {Zero}
  BY ConfigAssumption
<1>3. Zero \in Vectors
  BY DEF Zero, Vectors
<1>4. CASE next % 2 = 0
  <2>1. n = Minus(noise) /\ next > 1 /\ next - 1 \in 1..(next - 1)
    BY <1>1, <1>4 DEF NoiseOf
  <2>2. noise = NoiseAt(config, frame, outliers, targets, next - 1)
    BY <2>1 DEF Turn
  <2>3. noise \in Vectors /\ (config.noise = 0 => noise = Zero)
    BY <2>1, <2>2 DEF Turn, Corrupted, Paired
  <2>4. n \in Vectors /\ (config.noise = 0 => n = Zero)
    BY <2>1, <2>3, VectorsAdd
  <2>5. (next - 1) + 1 = next /\ ~(next % 2 = 1)
    BY <1>1, <1>4
  <2> QED BY <2>1, <2>2, <2>4, <2>5 DEF Allowed
<1>5. CASE next % 2 # 0
  <2>1. n \in IF next = Len(Visible(frame)) THEN {Zero} ELSE Draws(config.noise)
    BY <1>5 DEF NoiseOf
  <2>2. (next - 1) + 1 = next
    BY <1>1
  <2>3. n \in Vectors /\ (config.noise = 0 => n = Zero) /\ (next = Many(config, frame) => n = Zero)
    BY <1>1, <1>2, <1>3, <2>1
  <2> QED BY <1>5, <2>2, <2>3 DEF Allowed
<1> QED BY <1>4, <1>5

LEMMA Added ==
  ASSUME config \in Configs, Generating, AddTarget
  PROVE  Generating'
<1>1. /\ phase = "target" /\ next \in DOMAIN Visible(frame) /\ frame \in Frames
      /\ Written(config, frame, files, pixels) /\ UpTo(pixels, frame + 1)
      /\ Turn(config, frame, outliers, next, noise, sum, targets, pixels)
  BY DEF AddTarget, Generating
<1> DEFINE f == frame
           e(n) == [source |-> SourceAt(config, frame, next),
                    at |-> Plus(Plus(CleanAt(config, frame, next), n), Shift(outliers, next))]
           p == PixelAt(config, frame, outliers, next)
<1>2. Visible(frame) = VisibleOf(config, frame) /\ Many(config, frame) \in Nat
      /\ next \in 1..Many(config, frame)
  BY <1>1, NowIs, VisibleSeq
<1>3. PICK n \in NoiseOf(next) :
        IF ~InImage(e(n).at) THEN Stop("malformed")
        ELSE /\ targets' = Append(targets, e(n))
             /\ pixels' = Append(pixels, p)
             /\ noise' = n /\ sum' = Plus(sum, n) /\ next' = next + 1
             /\ UNCHANGED <<config, phase, frame, outliers, files, made, read, outcome>>
  BY <1>2 DEF AddTarget, SourceAt, CleanAt, PixelAt, Shift
<1>4. CASE ~InImage(e(n).at)
  <2>1. phase' = "done"
    BY <1>3, <1>4 DEF Stop
  <2> QED BY <2>1 DEF Generating
<1>5. CASE InImage(e(n).at)
  <2>1. /\ targets' = Append(targets, e(n)) /\ pixels' = Append(pixels, p)
        /\ noise' = n /\ sum' = Plus(sum, n) /\ next' = next + 1
        /\ config' = config /\ phase' = phase /\ frame' = frame /\ outliers' = outliers
        /\ files' = files
    BY <1>3, <1>5
  <2>2. /\ Allowed(config, frame, outliers, targets, next - 1, n)
        /\ Corrupted(config, frame, outliers, targets, PixelsOf(pixels, frame), next - 1)
        /\ sum \in Vectors /\ n \in Vectors
    BY <1>1, <1>2, NoiseAllowed DEF Turn, Allowed
  <2>3. next - 1 \in Nat /\ (next - 1) + 1 = next /\ next - 1 < Many(config, frame)
    BY <1>2
  <2> HIDE DEF p
  <2>4. /\ Corrupted(config, frame, outliers, targets', PixelsOf(pixels, frame) \cup {p}, next)
        /\ NoiseAt(config, frame, outliers, targets', next) = n
    <3>1. p = PixelAt(config, frame, outliers, (next - 1) + 1)
      BY <2>3 DEF p
    <3>2. e(n) = [source |-> SourceAt(config, frame, (next - 1) + 1),
                  at |-> Plus(Plus(CleanAt(config, frame, (next - 1) + 1), n),
                              Shift(outliers, (next - 1) + 1))]
      BY <2>3
    <3> DEFINE g == e(n)
               k == next - 1
    <3>3. InImage(g.at) /\ targets' = Append(targets, g)
      BY <1>5, <2>1
    <3>4. g = [source |-> SourceAt(config, frame, k + 1),
               at |-> Plus(Plus(CleanAt(config, frame, k + 1), n), Shift(outliers, k + 1))]
          /\ k \in Nat /\ k < Many(config, frame) /\ k + 1 = next
          /\ Corrupted(config, frame, outliers, targets, PixelsOf(pixels, frame), k)
          /\ Allowed(config, frame, outliers, targets, k, n)
          /\ p = PixelAt(config, frame, outliers, k + 1)
      BY <2>2, <2>3, <3>1, <3>2
    <3> HIDE DEF g, k
    <3>5. /\ Corrupted(config, frame, outliers, Append(targets, g),
                       PixelsOf(pixels, frame) \cup {PixelAt(config, frame, outliers, k + 1)}, k + 1)
          /\ NoiseAt(config, frame, outliers, Append(targets, g), k + 1) = n
      BY <1>1, <3>3, <3>4, OneMore
    <3> QED BY <3>3, <3>4, <3>5
  <2>5. /\ Listed(pixels') /\ PixelsOf(pixels', frame) = PixelsOf(pixels, frame) \cup {p}
        /\ \A g \in Frames \ {frame} : PixelsOf(pixels', g) = PixelsOf(pixels, g)
        /\ Len(pixels') = Len(pixels) + 1 /\ \A i \in 1..Len(pixels) : pixels'[i] = pixels[i]
        /\ pixels'[Len(pixels) + 1].frame = frame
    <3> DEFINE k == next - 1
    <3>1. /\ k \in Nat /\ k < Many(config, frame) /\ Listed(pixels)
          /\ p = PixelAt(config, frame, outliers, k + 1)
          /\ PixelsOf(pixels, frame) = { PixelAt(config, frame, outliers, i) : i \in 1..k }
      BY <1>1, <2>2, <2>3 DEF p, Corrupted, Written
    <3> HIDE DEF k
    <3>2. Extended(pixels, p, Append(pixels, p), frame)
      BY <1>1, <3>1, AnotherPixel
    <3> QED BY <2>1, <3>2 DEF Extended
  <2>6. Written(config, frame, files, pixels')
    <3>1. ASSUME NEW g \in 0..(frame - 1)
          PROVE  FrameDone(config, g, files.points, files.observations, files.manifest, pixels')
      <4>1. g \in Frames \ {frame}
        BY <1>1 DEF Frames
      <4>2. PixelsOf(pixels', g) = PixelsOf(pixels, g)
        BY <2>5, <4>1
      <4>3. FrameDone(config, g, files.points, files.observations, files.manifest, pixels)
        BY <1>1 DEF Written
      <4> QED BY <4>2, <4>3 DEF FrameDone
    <3> QED BY <1>1, <2>5, <3>1 DEF Written
  <2>7. UpTo(pixels', frame + 1)
    <3> SUFFICES ASSUME NEW i \in 1..(Len(pixels) + 1) PROVE pixels'[i].frame < frame + 1
      BY <2>5 DEF UpTo
    <3>1. Len(pixels) \in Nat /\ frame \in Int
      BY <1>1 DEF Written, Listed, Frames
    <3>2. CASE i \in 1..Len(pixels)
      BY <1>1, <2>5, <3>2 DEF UpTo
    <3>3. CASE i = Len(pixels) + 1
      BY <2>5, <3>1, <3>3
    <3> QED BY <3>1, <3>2, <3>3
  <2>8. Turn(config, frame, outliers, next + 1, n, Plus(sum, n), targets', pixels')
    <3>1. next + 1 \in 1..(Many(config, frame) + 1) /\ (next + 1) - 1 = next
      BY <1>2
    <3>2. Plus(sum, n) \in Vectors
      BY <2>2, VectorsAdd
    <3> QED BY <2>4, <2>5, <3>1, <3>2 DEF Turn
  <2> QED BY <1>1, <2>1, <2>6, <2>7, <2>8 DEF Generating
<1> QED BY <1>4, <1>5

LEMMA PointsAre ==
  ASSUME NEW f \in Frames
  PROVE  /\ PointsOf(f) \in Seq(Point) /\ Len(PointsOf(f)) = Len(Scene(f)) /\ Len(Scene(f)) \in Nat
         /\ \A i \in 1..Len(Scene(f)) :
              PointsOf(f)[i] = [source |-> SourceIndex(i), point |-> Scene(f)[i]]
<1>1. /\ Len(Scene(f)) \in Nat /\ DOMAIN Scene(f) = 1..Len(Scene(f))
      /\ \A i \in DOMAIN Scene(f) : Scene(f)[i] \in ToSet(Scene(f))
  BY SceneIs
<1> DEFINE n == Len(Scene(f))
<1>2. ASSUME NEW i \in 1..n PROVE [source |-> SourceIndex(i), point |-> Scene(f)[i]] \in Point
  <2>1. SourceIndex(i) \in Int
    BY <1>1 DEF SourceIndex
  <2>2. Scene(f)[i] \in UNION { ToSet(Scene(g)) : g \in Frames }
    BY <1>1
  <2> QED BY <2>1, <2>2 DEF Point
<1>3. PointsOf(f) = [i \in 1..n |-> [source |-> SourceIndex(i), point |-> Scene(f)[i]]]
  BY <1>1 DEF PointsOf
<1> HIDE DEF n
<1>4. n \in Nat
  BY <1>1 DEF n
<1>5. /\ PointsOf(f) \in [1..n -> Point]
      /\ \A i \in 1..n : PointsOf(f)[i] = [source |-> SourceIndex(i), point |-> Scene(f)[i]]
  BY <1>2, <1>3
<1>6. PointsOf(f) \in Seq(Point) /\ Len(PointsOf(f)) = n
  BY <1>4, <1>5
<1> QED BY <1>4, <1>5, <1>6 DEF n

LEMMA FilesReplaced ==
  ASSUME NEW F, NEW p, NEW o, NEW m, NEW x,
         F = [points |-> p, observations |-> o, manifest |-> m, oracle |-> x],
         NEW A, NEW B, NEW M
  PROVE  [F EXCEPT !.points = A, !.observations = B, !.manifest = M]
           = [points |-> A, observations |-> B, manifest |-> M, oracle |-> x]
<1> DEFINE G == [F EXCEPT !.points = A]
           H == [G EXCEPT !.observations = B]
<1>1. G = [points |-> A, observations |-> o, manifest |-> m, oracle |-> x]
  OBVIOUS
<1>2. [F EXCEPT !.points = A, !.observations = B, !.manifest = M] = [H EXCEPT !.manifest = M]
  OBVIOUS
<1> HIDE DEF G
<1>3. H = [points |-> A, observations |-> B, manifest |-> m, oracle |-> x]
  BY <1>1
<1> HIDE DEF H
<1>4. [H EXCEPT !.manifest = M] = [points |-> A, observations |-> B, manifest |-> M, oracle |-> x]
  BY <1>3
<1> QED BY <1>2, <1>4

LEMMA Ended ==
  ASSUME config \in Configs, Generating, EndFrame
  PROVE  Generating'
<1>1. /\ phase = "target" /\ next \notin DOMAIN Visible(frame) /\ frame \in Frames
      /\ Written(config, frame, files, pixels) /\ UpTo(pixels, frame + 1)
      /\ Turn(config, frame, outliers, next, noise, sum, targets, pixels)
  BY DEF EndFrame, Generating
<1>2. CASE targets = <<>>
  <2>1. phase' = "done"
    BY <1>2 DEF EndFrame, Stop
  <2> QED BY <2>1 DEF Generating
<1>3. CASE targets # <<>>
  <2> DEFINE f == frame
             n == Many(config, frame)
             e == [frame |-> frame, scene |-> ToSet(Scene(frame)),
                   points |-> PointsOf(frame), observations |-> targets,
                   input |-> Len(PointsOf(frame)), visible |-> Len(Visible(frame)),
                   outlier_count |-> OutlierCount(frame), noise_sum |-> sum]
             A == Append(files.points, PointsOf(frame))
             B == Append(files.observations, targets)
             M == Append(files.manifest, e)
  <2>1. /\ files' = [files EXCEPT !.points = A, !.observations = B, !.manifest = M]
        /\ frame' = frame + 1 /\ phase' = "frame" /\ config' = config /\ pixels' = pixels
    BY <1>3 DEF EndFrame, PointsOf
  <2>2. n \in Nat /\ next = n + 1 /\ Len(Visible(frame)) = n /\ OutlierCount(frame) = CountOf(config, frame)
    <3>1. n \in Nat /\ DOMAIN Visible(frame) = 1..n /\ Len(Visible(frame)) = n
          /\ OutlierCount(frame) = CountOf(config, frame)
      BY <1>1, NowIs, VisibleSeq
    <3>2. next \in 1..(n + 1)
      BY <1>1 DEF Turn
    <3> QED BY <1>1, <3>1, <3>2
  <2>3. Corrupted(config, frame, outliers, targets, PixelsOf(pixels, frame), n) /\ sum \in Vectors
    <3>1. next - 1 = n
      BY <2>2
    <3> QED BY <1>1, <3>1 DEF Turn
  <2>4. targets \in Seq(Target) /\ Len(targets) = n /\ n > 0
    <3>1. targets \in Seq(Target) /\ Len(targets) = n
      BY <2>3 DEF Corrupted, Recorded
    <3> QED BY <1>3, <2>2, <3>1
  <2>5. CountOf(config, frame) \in Nat
    <3>1. outliers \in SUBSET (1..n) /\ Cardinality(outliers) = CountOf(config, frame)
      BY <2>3 DEF Corrupted, Chosen
    <3>2. IsFiniteSet(1..n)
      BY <2>2, CountingTo
    <3>3. IsFiniteSet(outliers)
      BY <3>1, <3>2, FS_Subset
    <3> QED BY <3>1, <3>3, FS_CardinalityType
  <2>6. Described(config, frame, targets, e)
    BY <2>2 DEF Described
  <2>7. e \in Entry
    <3>1. ToSet(Scene(frame)) \in SUBSET UNION { ToSet(Scene(g)) : g \in Frames }
      BY <1>1
    <3>2. PointsOf(frame) \in Seq(Point) /\ Len(PointsOf(frame)) \in Nat
      BY <1>1, PointsAre
    <3> QED BY <1>1, <2>2, <2>3, <2>4, <2>5, <3>1, <3>2 DEF Entry
  <2> HIDE DEF e, n
  <2>8. /\ files.points \in Seq(Seq(Point)) /\ Len(files.points) = frame
        /\ files.observations \in Seq(Seq(Target)) /\ Len(files.observations) = frame
        /\ files.manifest \in Seq(Entry) /\ Len(files.manifest) = frame
        /\ files = [points |-> files.points, observations |-> files.observations,
                    manifest |-> files.manifest, oracle |-> None]
        /\ frame \in Nat
    BY <1>1 DEF Written, Filed, Frames
  <2>9. /\ A \in Seq(Seq(Point)) /\ Len(A) = frame + 1 /\ A[frame + 1] = PointsOf(frame)
        /\ \A i \in 1..frame : A[i] = files.points[i]
    BY <1>1, <2>8, PointsAre
  <2>10. /\ B \in Seq(Seq(Target)) /\ Len(B) = frame + 1 /\ B[frame + 1] = targets
         /\ \A i \in 1..frame : B[i] = files.observations[i]
    BY <2>4, <2>8
  <2>11. /\ M \in Seq(Entry) /\ Len(M) = frame + 1 /\ M[frame + 1] = e
         /\ \A i \in 1..frame : M[i] = files.manifest[i]
    BY <2>7, <2>8
  <2> HIDE DEF A, B, M
  <2>12. files' = [points |-> A, observations |-> B, manifest |-> M, oracle |-> None]
    <3> DEFINE F == files
               p == files.points
               o == files.observations
               m == files.manifest
    <3>1. F = [points |-> p, observations |-> o, manifest |-> m, oracle |-> None]
          /\ files' = [F EXCEPT !.points = A, !.observations = B, !.manifest = M]
      BY <2>1, <2>8
    <3> HIDE DEF F, p, o, m
    <3> QED BY <3>1, FilesReplaced
  <2>13. ASSUME NEW g \in 0..frame PROVE FrameDone(config, g, A, B, M, pixels)
    <3>1. CASE g = frame
      <4>1. \E O : Corrupted(config, frame, O, B[frame + 1], PixelsOf(pixels, frame), n)
        BY <2>3, <2>10
      <4> QED BY <2>4, <2>6, <2>9, <2>10, <2>11, <3>1, <4>1 DEF FrameDone, n
    <3>2. CASE g \in 0..(frame - 1)
      <4>1. g + 1 \in 1..frame
        BY <2>8, <3>2
      <4>2. A[g + 1] = files.points[g + 1] /\ B[g + 1] = files.observations[g + 1]
            /\ M[g + 1] = files.manifest[g + 1]
        BY <2>9, <2>10, <2>11, <4>1
      <4>3. FrameDone(config, g, files.points, files.observations, files.manifest, pixels)
        BY <1>1, <3>2 DEF Written
      <4> QED BY <4>2, <4>3 DEF FrameDone
    <3> QED BY <2>8, <3>1, <3>2
  <2>14. Written(config, frame + 1, files', pixels)
    <3>1. 0..((frame + 1) - 1) = 0..frame
      BY <2>8
    <3>2. /\ files'.points = A /\ files'.observations = B /\ files'.manifest = M
          /\ files' = [points |-> files'.points, observations |-> files'.observations,
                       manifest |-> files'.manifest, oracle |-> None]
      BY <2>12
    <3>3. Filed(A, B, M, frame + 1)
      BY <2>9, <2>10, <2>11 DEF Filed
    <3>4. Listed(pixels)
      BY <1>1 DEF Written
    <3> QED BY <2>13, <3>1, <3>2, <3>3, <3>4 DEF Written
  <2>15. frame + 1 \in 0..3
    BY <1>1 DEF Frames
  <2> QED BY <1>1, <2>1, <2>14, <2>15 DEF Generating
<1> QED BY <1>2, <1>3

\* A published fixture m.
Published(c, m) ==
  LET M == m.manifest.frames
      P == m.oracle.body.pixels IN
  /\ m = [points |-> m.points, observations |-> m.observations, manifest |-> m.manifest,
          oracle |-> m.oracle]
  /\ m.manifest = [frames |-> M, identity |-> M]
  /\ m.oracle = [body |-> [fixture |-> M, hidden |-> c.hidden, pixels |-> P],
                 identity |-> [fixture |-> M, hidden |-> c.hidden, pixels |-> P]]
  /\ Filed(m.points, m.observations, M, 3) /\ Listed(P)
  /\ \A f \in Frames : FrameDone(c, f, m.points, m.observations, M, P)

LEMMA PublishedRight ==
  ASSUME config \in Configs, Generating, Publish
  PROVE  Published(config', made') /\ files' = made' /\ Generating'
<1>1. /\ phase = "frame" /\ frame \notin Frames /\ frame \in 0..3
      /\ Written(config, frame, files, pixels)
  BY DEF Publish, Generating
<1>2. frame = 3 /\ 0..(frame - 1) = Frames
  BY <1>1 DEF Frames
<1> DEFINE B == [fixture |-> files.manifest, hidden |-> config.hidden, pixels |-> pixels]
<1>3. /\ files' = [files EXCEPT !.manifest = [frames |-> @, identity |-> @],
                                !.oracle = [body |-> B, identity |-> B]]
      /\ made' = files' /\ phase' = "edit" /\ config' = config
  BY DEF Publish
<1>4. files = [points |-> files.points, observations |-> files.observations,
               manifest |-> files.manifest, oracle |-> None]
  BY <1>1 DEF Written
<1>5. files' = [points |-> files.points, observations |-> files.observations,
                manifest |-> [frames |-> files.manifest, identity |-> files.manifest],
                oracle |-> [body |-> B, identity |-> B]]
  BY <1>3, <1>4
<1>6. /\ made'.manifest = [frames |-> files.manifest, identity |-> files.manifest]
      /\ made'.oracle = [body |-> B, identity |-> B]
      /\ made'.points = files.points /\ made'.observations = files.observations
  BY <1>3, <1>5
<1>7. made'.manifest.frames = files.manifest /\ made'.oracle.body.pixels = pixels
  BY <1>6
<1>8. Filed(files.points, files.observations, files.manifest, 3) /\ Listed(pixels)
      /\ \A f \in Frames : FrameDone(config, f, files.points, files.observations, files.manifest, pixels)
  BY <1>1, <1>2 DEF Written
<1>9. made' = [points |-> made'.points, observations |-> made'.observations,
               manifest |-> made'.manifest, oracle |-> made'.oracle]
  BY <1>3, <1>5
<1>10. Published(config, made')
  BY <1>6, <1>7, <1>8, <1>9 DEF Published
<1> QED BY <1>3, <1>10 DEF Generating

-----------------------------------------------------------------------------
(* Sums                                                                    *)

\* g adds up v from its front.
Sums(g, v) == /\ g[0] = Zero
              /\ \A k \in 1..Len(v) : g[k] = Plus(g[k - 1], v[k])

LEMMA TotalIs ==
  ASSUME NEW v, Len(v) \in Nat, NEW X, NEW g \in [0..Len(v) -> X], Sums(g, v)
  PROVE  Total(v) = g[Len(v)]
<1> DEFINE n == Len(v)
           Step(s) == [k \in 0..n |-> IF k = 0 THEN Zero ELSE Plus(s[k - 1], v[k])]
           h == CHOOSE s : s = Step(s)
<1>1. g = Step(g)
  <2>1. \A k \in 0..n : g[k] = IF k = 0 THEN Zero ELSE Plus(g[k - 1], v[k])
    BY DEF Sums
  <2> HIDE DEF n
  <2> QED BY <2>1 DEF n
<1>2. h = Step(h)
  <2> HIDE DEF Step
  <2> QED BY <1>1
<1>3. Total(v) = h[n]
  BY DEF Total
<1> HIDE DEF h
<1>4. h[0] = Zero /\ \A k \in 1..n : h[k] = Plus(h[k - 1], v[k])
  <2>1. n \in Nat
    OBVIOUS
  <2> HIDE DEF n
  <2> QED BY <1>2, <2>1
<1>5. g[n] = h[n]
  <2> DEFINE S == { k \in 0..n : g[k] = h[k] }
  <2>1. 0 \in S
    BY <1>4 DEF Sums
  <2>2. ASSUME NEW k \in 0..(n - 1), k \in S PROVE k + 1 \in S
    <3>1. k + 1 \in 1..n /\ (k + 1) - 1 = k /\ k + 1 \in 0..n
      OBVIOUS
    <3>2. g[k + 1] = Plus(g[k], v[k + 1]) /\ h[k + 1] = Plus(h[k], v[k + 1])
      BY <1>4, <3>1 DEF Sums
    <3> QED BY <2>2, <3>1, <3>2
  <2>3. n \in S
    <3> HIDE DEF S
    <3>1. n \in Nat /\ \A k \in 0..(n - 1) : k \in S => k + 1 \in S
      BY <2>2
    <3> HIDE DEF n
    <3>2. \A k \in 0..n : k \in S
      BY <2>1, <3>1, CountingUp
    <3> QED BY <3>1, <3>2
  <2> QED BY <2>3
<1> QED BY <1>3, <1>5

\* How many outliers the first k points have.
Outlying(O, k) == Cardinality(O \cap (1..k))

LEMMA OutlyingStep ==
  ASSUME NEW n \in Nat, NEW O \in SUBSET (1..n), NEW k \in 1..n
  PROVE  /\ Outlying(O, k) \in Nat /\ Outlying(O, k - 1) \in Nat
         /\ k \in O => Outlying(O, k) = Outlying(O, k - 1) + 1
         /\ k \notin O => Outlying(O, k) = Outlying(O, k - 1)
<1> DEFINE A == O \cap (1..(k - 1))
           B == O \cap (1..k)
<1>1. IsFiniteSet(1..n) /\ A \subseteq 1..n /\ B \subseteq 1..n
  BY CountingTo
<1>2. IsFiniteSet(A) /\ IsFiniteSet(B)
  BY <1>1, FS_Subset
<1>3. Cardinality(A) \in Nat /\ Cardinality(B) \in Nat
  BY <1>2, FS_CardinalityType
<1>4. 1..k = (1..(k - 1)) \cup {k} /\ k \notin 1..(k - 1)
  OBVIOUS
<1>5. k \in O => B = A \cup {k} /\ k \notin A
  BY <1>4
<1>6. k \notin O => B = A
  BY <1>4
<1> HIDE DEF A, B
<1>7. k \in O => Cardinality(B) = Cardinality(A) + 1
  BY <1>2, <1>5, FS_AddElement
<1> QED BY <1>3, <1>6, <1>7 DEF Outlying, A, B

LEMMA OutlyingEnds ==
  ASSUME NEW n \in Nat, NEW O \in SUBSET (1..n)
  PROVE  Outlying(O, 0) = 0 /\ Outlying(O, n) = Cardinality(O)
<1>1. O \cap (1..0) = {} /\ O \cap (1..n) = O
  <2>1. 1..0 = {} /\ O \subseteq 1..n
    OBVIOUS
  <2> QED BY <2>1, Zenon
<1> QED BY <1>1, FS_EmptySet DEF Outlying

Scaled(m) == <<m * Offset[1], m * Offset[2]>>

LEMMA ScaledStep ==
  ASSUME NEW m \in Nat
  PROVE  /\ Scaled(m) \in Vectors /\ Scaled(m + 1) = Plus(Scaled(m), Offset) /\ Scaled(0) = Zero
<1>1. Offset \in Vectors
  BY SceneAssumption
<1>2. Offset[1] \in Int /\ Offset[2] \in Int
  BY <1>1 DEF Vectors
<1> DEFINE a == Offset[1]
           b == Offset[2]
<1>3. a \in Int /\ b \in Int /\ m * a \in Int /\ m * b \in Int
  BY <1>2
<1>4. Scaled(m) = <<m * a, m * b>> /\ Scaled(m + 1) = <<(m + 1) * a, (m + 1) * b>>
      /\ Scaled(0) = <<0 * a, 0 * b>> /\ Plus(Scaled(m), Offset) = <<m * a + a, m * b + b>>
  BY DEF Scaled, Plus
<1> HIDE DEF a, b
<1>5. (m + 1) * a = m * a + a /\ (m + 1) * b = m * b + b /\ 0 * a = 0 /\ 0 * b = 0
  BY <1>3
<1> QED BY <1>3, <1>4, <1>5 DEF Vectors, Zero

LEMMA VectorsCancel ==
  ASSUME NEW p \in Vectors, NEW q \in Vectors, NEW r \in Vectors
  PROVE  /\ Plus(Plus(p, q), Plus(Minus(p), r)) = Plus(Zero, Plus(q, r))
         /\ Plus(Plus(Zero, q), Plus(p, r)) = Plus(p, Plus(q, r))
         /\ Plus(q, Minus(p)) = Plus(Plus(q, Minus(Plus(p, r))), r)
<1>1. /\ p[1] \in Int /\ p[2] \in Int /\ q[1] \in Int /\ q[2] \in Int
      /\ r[1] \in Int /\ r[2] \in Int /\ p = <<p[1], p[2]>> /\ q = <<q[1], q[2]>>
  BY DEF Vectors
<1>2. Plus(Plus(p, q), Plus(Minus(p), r)) = Plus(Zero, Plus(q, r))
  BY <1>1 DEF Plus, Minus, Zero
<1>3. Plus(Plus(Zero, q), Plus(p, r)) = Plus(p, Plus(q, r))
  BY <1>1 DEF Plus, Zero
<1>4. Plus(q, Minus(p)) = Plus(Plus(q, Minus(Plus(p, r))), r)
  BY <1>1 DEF Plus, Minus
<1> QED BY <1>2, <1>3, <1>4

\* The noise of a frame cancels: what is left is the offset of its outliers.
LEMMA NoiseCancels ==
  ASSUME NEW c \in Configs, NEW f \in Frames, NEW O, NEW T, NEW n, n = Many(c, f),
         Chosen(c, f, O), Paired(c, f, O, T, n),
         NEW v, Len(v) = n,
         \A k \in 1..n : v[k] = Plus(NoiseAt(c, f, O, T, k), Shift(O, k))
  PROVE  Total(v) = Scaled(Cardinality(O))
<1> DEFINE N(k) == NoiseAt(c, f, O, T, k)
           Left(k) == IF k % 2 = 0 THEN Zero ELSE N(k)
           g == [k \in 0..n |-> Plus(Left(k), Scaled(Outlying(O, k)))]
<1>1. n \in Nat /\ O \in SUBSET (1..n) /\ Zero \in Vectors /\ Offset \in Vectors
  BY VisibleSeq, SceneAssumption DEF Chosen, Zero, Vectors
<1>2. \A k \in 0..n : Outlying(O, k) \in Nat
  <2>1. ASSUME NEW k \in 0..n PROVE Outlying(O, k) \in Nat
    <3>1. CASE k = 0
      BY <1>1, <3>1, OutlyingEnds
    <3>2. CASE k \in 1..n
      BY <1>1, <3>2, OutlyingStep
    <3> QED BY <1>1, <3>1, <3>2
  <2> QED BY <2>1
<1>3. \A k \in 1..n : /\ N(k) \in Vectors
                      /\ k % 2 = 0 => N(k) = Minus(N(k - 1))
                      /\ k % 2 = 1 /\ k = n => N(k) = Zero
  BY DEF Paired
<1> HIDE DEF N
<1>4. \A k \in 0..n : Left(k) \in Vectors /\ Scaled(Outlying(O, k)) \in Vectors
  <2>1. ASSUME NEW k \in 0..n PROVE Left(k) \in Vectors
    <3>1. k % 2 # 0 => k \in 1..n
      BY <1>1
    <3> QED BY <1>1, <1>3, <3>1
  <2>2. \A k \in 0..n : Scaled(Outlying(O, k)) \in Vectors
    BY <1>2, ScaledStep
  <2> QED BY <2>1, <2>2
<1>5. g \in [0..n -> Vectors]
  <2>1. \A k \in 0..n : Plus(Left(k), Scaled(Outlying(O, k))) \in Vectors
    BY <1>4, VectorsAdd
  <2> QED BY <2>1
<1>6. g[0] = Zero
  <2>1. Left(0) = Zero /\ Outlying(O, 0) = 0
    BY <1>1, OutlyingEnds
  <2>2. Scaled(0) = Zero
    BY ScaledStep
  <2>3. g[0] = Plus(Zero, Zero)
    BY <1>1, <2>1, <2>2
  <2> QED BY <1>1, <2>3, VectorsAdd
<1>7. ASSUME NEW k \in 1..n PROVE g[k] = Plus(g[k - 1], v[k])
  <2> DEFINE s == Scaled(Outlying(O, k - 1))
             t == Scaled(Outlying(O, k))
  <2>1. k \in 0..n /\ k - 1 \in 0..n
    BY <1>1
  <2>2. g[k] = Plus(Left(k), t) /\ g[k - 1] = Plus(Left(k - 1), s)
        /\ v[k] = Plus(N(k), Shift(O, k))
    BY <2>1 DEF N
  <2>3. /\ s \in Vectors /\ t \in Vectors /\ Left(k) \in Vectors /\ Left(k - 1) \in Vectors
        /\ N(k) \in Vectors /\ Shift(O, k) \in Vectors
    BY <1>1, <1>3, <1>4, <2>1 DEF Shift
  <2>4. t = Plus(s, Shift(O, k))
    <3>1. CASE k \in O
      <4>1. Outlying(O, k) = Outlying(O, k - 1) + 1 /\ Outlying(O, k - 1) \in Nat
        BY <1>1, <3>1, OutlyingStep
      <4>2. t = Plus(s, Offset)
        BY <4>1, ScaledStep
      <4> QED BY <3>1, <4>2 DEF Shift
    <3>2. CASE k \notin O
      <4>1. t = s
        BY <1>1, <3>2, OutlyingStep
      <4>2. Plus(s, Zero) = s
        BY <2>3, VectorsAdd
      <4> QED BY <3>2, <4>1, <4>2 DEF Shift
    <3> QED BY <3>1, <3>2
  <2> HIDE DEF s, t
  <2>5. CASE k % 2 = 0
    <3>1. (k - 1) % 2 # 0 /\ k - 1 \in 1..n
      BY <1>1, <2>5
    <3>2. Left(k) = Zero /\ Left(k - 1) = N(k - 1) /\ N(k) = Minus(N(k - 1)) /\ N(k - 1) \in Vectors
      BY <1>3, <2>5, <3>1
    <3>3. g[k] = Plus(Zero, Plus(s, Shift(O, k)))
      BY <2>2, <2>4, <3>2
    <3>4. Plus(g[k - 1], v[k]) = Plus(Plus(N(k - 1), s), Plus(Minus(N(k - 1)), Shift(O, k)))
      BY <2>2, <3>2
    <3> HIDE DEF g
    <3> QED BY <2>3, <3>2, <3>3, <3>4, VectorsCancel
  <2>6. CASE k % 2 # 0
    <3>1. (k - 1) % 2 = 0
      BY <1>1, <2>6
    <3>2. Left(k) = N(k) /\ Left(k - 1) = Zero
      BY <2>6, <3>1
    <3>3. g[k] = Plus(N(k), Plus(s, Shift(O, k)))
      BY <2>2, <2>4, <3>2
    <3>4. Plus(g[k - 1], v[k]) = Plus(Plus(Zero, s), Plus(N(k), Shift(O, k)))
      BY <2>2, <3>2
    <3> HIDE DEF g
    <3> QED BY <2>3, <3>3, <3>4, VectorsCancel
  <2> QED BY <2>5, <2>6
<1>8. g[n] = Scaled(Cardinality(O))
  <2>1. Left(n) = Zero
    <3>1. CASE n % 2 = 0
      BY <3>1
    <3>2. CASE n % 2 # 0
      <4>1. n \in 1..n /\ n % 2 = 1
        BY <1>1, <3>2
      <4> QED BY <1>3, <3>2, <4>1
    <3> QED BY <3>1, <3>2
  <2>2. Outlying(O, n) = Cardinality(O) /\ n \in 0..n
    BY <1>1, OutlyingEnds
  <2>3. g[n] = Plus(Zero, Scaled(Cardinality(O))) /\ Scaled(Cardinality(O)) \in Vectors
    BY <1>4, <2>1, <2>2
  <2> QED BY <2>3, VectorsAdd
<1> HIDE DEF g
<1>9. Sums(g, v)
  BY <1>6, <1>7 DEF Sums
<1> QED BY <1>1, <1>5, <1>8, <1>9, TotalIs

-----------------------------------------------------------------------------
(* What a fixture declares                                                 *)

\* The clause of CorruptionIsDeclared about frame f of the fixture m.
Declared(c, m, f) ==
  LET info == m.manifest.frames[f + 1]
      observed == m.observations[f + 1]
      clean == { p \in ToSet(m.oracle.body.pixels) : p.frame = f }
      CleanPixel(source) == CHOOSE p \in clean : p.source = source
      off(i) == Plus(observed[i].at, Minus(CleanPixel(observed[i].source).at))
      seen == { i \in DOMAIN Scene(f) : Seen(c.hidden, Scene(f)[i]) # Unseen }
      labelled == { p \in clean : p.training_outlier } IN
  /\ clean = { [frame |-> f, source |-> SourceIndex(i), at |-> Seen(c.hidden, Scene(f)[i]),
                training_outlier |-> \E p \in labelled : p.source = SourceIndex(i)] : i \in seen }
  /\ Sources(observed) = { SourceIndex(i) : i \in seen }
  /\ Len(observed) = Cardinality(seen)
  /\ Cardinality(labelled) = info.outlier_count
  /\ IF f = 2 THEN labelled = {}
     ELSE /\ Cardinality(labelled) * c.fraction[2] <= c.fraction[1] * Cardinality(seen)
          /\ (Cardinality(labelled) + 1) * c.fraction[2] > c.fraction[1] * Cardinality(seen)
  /\ Total([i \in DOMAIN observed |-> off(i)])
       = <<Cardinality(labelled) * Offset[1], Cardinality(labelled) * Offset[2]>>
  /\ c.noise = 0 =>
       \A i \in DOMAIN observed :
         off(i) = IF CleanPixel(observed[i].source).training_outlier THEN Offset ELSE Zero

\* floor: the greatest count that is at most the fraction.
LEMMA FloorIs ==
  ASSUME NEW x \in Int, NEW d \in Nat \ {0}
  PROVE  /\ (x \div d) * d <= x /\ x < ((x \div d) + 1) * d
  OBVIOUS

LEMMA SourcesDiffer ==
  ASSUME NEW c \in Configs, NEW f \in Frames,
         NEW i \in 1..Many(c, f), NEW j \in 1..Many(c, f), SourceAt(c, f, i) = SourceAt(c, f, j)
  PROVE  i = j
<1>1. VisibleOf(c, f)[i] \in 1..Len(Scene(f)) /\ VisibleOf(c, f)[j] \in 1..Len(Scene(f))
  BY CleanIs
<1>2. Len(Scene(f)) \in Nat
  BY SceneIs
<1>3. VisibleOf(c, f)[i] = VisibleOf(c, f)[j]
  BY <1>1, <1>2 DEF SourceAt, SourceIndex
<1> QED BY <1>3, VisibleSeq

\* The pixels of a frame, by source index and by label.
Keyed(c, f, O, clean) ==
  /\ \A i \in 1..Many(c, f) :
       (CHOOSE p \in clean : p.source = SourceAt(c, f, i)) = PixelAt(c, f, O, i)
  /\ IsFiniteSet(clean) /\ Cardinality(clean) = Many(c, f)
  /\ Cardinality({ p \in clean : p.training_outlier }) = Cardinality(O)
  /\ \A i \in 1..Many(c, f) :
       (\E p \in { p \in clean : p.training_outlier } : p.source = SourceAt(c, f, i)) <=> i \in O

LEMMA PixelsAre ==
  ASSUME NEW c \in Configs, NEW f \in Frames, NEW O, Chosen(c, f, O),
         NEW clean, clean = { PixelAt(c, f, O, i) : i \in 1..Many(c, f) }
  PROVE  Keyed(c, f, O, clean)
<1> DEFINE n == Many(c, f)
           labelled == { p \in clean : p.training_outlier }
           h == [i \in 1..n |-> PixelAt(c, f, O, i)]
<1>1. n \in Nat /\ O \in SUBSET (1..n)
  BY VisibleSeq DEF Chosen
<1>2. \A i \in 1..n : /\ PixelAt(c, f, O, i).source = SourceAt(c, f, i)
                      /\ PixelAt(c, f, O, i).training_outlier = (i \in O)
                      /\ PixelAt(c, f, O, i) \in clean
  BY DEF PixelAt
<1>3. \A p \in clean : \E i \in 1..n : p = PixelAt(c, f, O, i)
  OBVIOUS
<1>4. \A i, j \in 1..n : SourceAt(c, f, i) = SourceAt(c, f, j) => i = j
  BY SourcesDiffer
<1>5. ASSUME NEW i \in 1..n, NEW p \in clean, p.source = SourceAt(c, f, i)
      PROVE  p = PixelAt(c, f, O, i)
  <2>1. PICK j \in 1..n : p = PixelAt(c, f, O, j)
    BY <1>3
  <2>2. SourceAt(c, f, j) = SourceAt(c, f, i)
    BY <1>2, <1>5, <2>1
  <2> QED BY <1>4, <2>1, <2>2
<1>6. ASSUME NEW i \in 1..n
      PROVE  (CHOOSE p \in clean : p.source = SourceAt(c, f, i)) = PixelAt(c, f, O, i)
  <2>1. \E p \in clean : p.source = SourceAt(c, f, i)
    BY <1>2
  <2>2. PICK q : q = CHOOSE p \in clean : p.source = SourceAt(c, f, i)
    OBVIOUS
  <2>3. q \in clean /\ q.source = SourceAt(c, f, i)
    BY <2>1, <2>2
  <2> QED BY <1>5, <2>2, <2>3
<1>7. h \in Bijection(1..n, clean)
  <2>1. h \in [1..n -> clean] /\ \A i \in 1..n : h[i] = PixelAt(c, f, O, i)
    BY <1>2
  <2> HIDE DEF h
  <2>2. ASSUME NEW i \in 1..n, NEW j \in 1..n, h[i] = h[j] PROVE i = j
    <3>1. PixelAt(c, f, O, i) = PixelAt(c, f, O, j)
      BY <2>1, <2>2
    <3>2. SourceAt(c, f, i) = SourceAt(c, f, j)
      BY <1>2, <3>1
    <3> QED BY <1>4, <3>2
  <2>3. \A p \in clean : \E i \in 1..n : h[i] = p
    BY <1>3, <2>1
  <2> QED BY <2>1, <2>2, <2>3 DEF Bijection, Injection, Surjection, IsInjective
<1> HIDE DEF h
<1>8. IsFiniteSet(clean) /\ Cardinality(clean) = n
  <2>1. ExistsBijection(1..n, clean)
    BY <1>7 DEF ExistsBijection
  <2> HIDE DEF n
  <2> QED BY <1>1, <2>1, FS_NatBijection, FS_CountingElements
<1>9. ASSUME NEW i \in 1..n
      PROVE  (\E p \in labelled : p.source = SourceAt(c, f, i)) <=> i \in O
  <2>1. ASSUME NEW p \in labelled, p.source = SourceAt(c, f, i) PROVE i \in O
    <3>1. p \in clean /\ p.training_outlier
      OBVIOUS
    <3>2. p = PixelAt(c, f, O, i)
      BY <1>5, <2>1, <3>1
    <3>3. p.training_outlier = (i \in O)
      BY <1>2, <3>2
    <3> QED BY <3>1, <3>3
  <2>2. ASSUME i \in O PROVE \E p \in labelled : p.source = SourceAt(c, f, i)
    <3>1. PixelAt(c, f, O, i) \in labelled
      BY <1>2, <2>2
    <3> QED BY <1>2, <3>1
  <2> QED BY <2>1, <2>2
<1>10. Cardinality(labelled) = Cardinality(O)
  <2> DEFINE g == [i \in O |-> PixelAt(c, f, O, i)]
  <2>1. ASSUME NEW i \in O PROVE PixelAt(c, f, O, i) \in labelled
    BY <1>1, <1>2
  <2>2. ASSUME NEW p \in labelled PROVE \E i \in O : PixelAt(c, f, O, i) = p
    <3>1. p \in clean /\ p.training_outlier
      OBVIOUS
    <3>2. PICK i \in 1..n : p = PixelAt(c, f, O, i)
      BY <1>3, <3>1
    <3>3. p.training_outlier = (i \in O)
      BY <1>2, <3>2
    <3> QED BY <3>1, <3>2, <3>3
  <2>3. \A i, j \in O : PixelAt(c, f, O, i) = PixelAt(c, f, O, j) => i = j
    BY <1>1, <1>2, <1>4
  <2> HIDE DEF labelled
  <2>4. g \in [O -> labelled] /\ \A i \in O : g[i] = PixelAt(c, f, O, i)
    BY <2>1
  <2> HIDE DEF g
  <2>5. g \in Bijection(O, labelled)
    BY <2>2, <2>3, <2>4 DEF Bijection, Injection, Surjection, IsInjective
  <2>6. IsFiniteSet(O)
    BY <1>1, CountingTo, FS_Subset
  <2>7. ExistsBijection(O, labelled)
    BY <2>5 DEF ExistsBijection
  <2> QED BY <2>6, <2>7, FS_Bijection
<1> QED BY <1>6, <1>8, <1>9, <1>10 DEF Keyed

LEMMA SameTruth ==
  ASSUME NEW A \in BOOLEAN, NEW B \in BOOLEAN, A <=> B
  PROVE  A = B
  OBVIOUS

LEMMA DoneIsDeclared ==
  ASSUME NEW c \in Configs, NEW m, NEW f \in Frames,
         FrameDone(c, f, m.points, m.observations, m.manifest.frames, m.oracle.body.pixels)
  PROVE  Declared(c, m, f)
<1> DEFINE n == Many(c, f)
           info == m.manifest.frames[f + 1]
           observed == m.observations[f + 1]
           clean == { p \in ToSet(m.oracle.body.pixels) : p.frame = f }
           CleanPixel(source) == CHOOSE p \in clean : p.source = source
           off(i) == Plus(observed[i].at, Minus(CleanPixel(observed[i].source).at))
           seen == { i \in DOMAIN Scene(f) : Seen(c.hidden, Scene(f)[i]) # Unseen }
           labelled == { p \in clean : p.training_outlier }
           v == [i \in DOMAIN observed |-> off(i)]
<1>1. n \in Nat /\ n = Cardinality(seen) /\ clean = PixelsOf(m.oracle.body.pixels, f)
      /\ seen = SeenPlaces(c, f)
  <2>1. n \in Nat
    BY VisibleSeq
  <2>2. seen = SeenPlaces(c, f)
    BY DEF SeenPlaces
  <2>3. n = Cardinality(seen)
    BY <2>2 DEF Many
  <2>4. clean = PixelsOf(m.oracle.body.pixels, f)
    BY DEF PixelsOf
  <2> QED BY <2>1, <2>2, <2>3, <2>4
<1>2. PICK O : Corrupted(c, f, O, observed, clean, n)
  BY <1>1 DEF FrameDone
<1>3. /\ Chosen(c, f, O) /\ Recorded(c, f, observed, n) /\ Paired(c, f, O, observed, n)
      /\ clean = { PixelAt(c, f, O, i) : i \in 1..n }
  BY <1>2 DEF Corrupted
<1>4. info.outlier_count = CountOf(c, f)
  BY DEF FrameDone, Described
<1> HIDE DEF clean, observed, info, seen
<1>5. /\ \A i \in 1..n : CleanPixel(SourceAt(c, f, i)) = PixelAt(c, f, O, i)
      /\ IsFiniteSet(clean) /\ Cardinality(labelled) = Cardinality(O)
      /\ \A i \in 1..n : (\E p \in labelled : p.source = SourceAt(c, f, i)) <=> i \in O
  <2>1. Chosen(c, f, O) /\ clean = { PixelAt(c, f, O, i) : i \in 1..Many(c, f) }
    BY <1>3
  <2>2. Keyed(c, f, O, clean)
    BY <2>1, PixelsAre
  <2> QED BY <2>2, Zenon DEF Keyed
<1> HIDE DEF CleanPixel, labelled
<1>6. O \in SUBSET (1..n) /\ Cardinality(O) = CountOf(c, f) /\ IsFiniteSet(O)
  <2>1. O \in SUBSET (1..n) /\ Cardinality(O) = CountOf(c, f)
    BY <1>3 DEF Chosen
  <2>2. IsFiniteSet(1..n)
    BY <1>1, CountingTo
  <2> QED BY <2>1, <2>2, FS_Subset
<1>7. /\ observed \in Seq(Target) /\ Len(observed) = n /\ DOMAIN observed = 1..n
      /\ \A i \in 1..n : observed[i] \in Target /\ observed[i].source = SourceAt(c, f, i)
  <2>1. /\ observed \in Seq(Target) /\ Len(observed) = n
        /\ \A i \in 1..n : observed[i].source = SourceAt(c, f, i)
    BY <1>3 DEF Recorded
  <2> QED BY <1>1, <2>1
<1>8. ASSUME NEW i \in 1..n
      PROVE  /\ off(i) = Plus(NoiseAt(c, f, O, observed, i), Shift(O, i))
             /\ CleanPixel(observed[i].source).training_outlier = (i \in O)
  <2>1. CleanPixel(observed[i].source) = PixelAt(c, f, O, i)
    BY <1>5, <1>7
  <2>2. /\ CleanPixel(observed[i].source).at = CleanAt(c, f, i)
        /\ CleanPixel(observed[i].source).training_outlier = (i \in O)
    BY <2>1 DEF PixelAt
  <2>3. /\ observed[i].at \in Vectors /\ CleanAt(c, f, i) \in Vectors /\ Shift(O, i) \in Vectors
    BY <1>7, CleanIs, SceneAssumption DEF Target, Shift, Zero, Vectors
  <2>4. off(i) = Plus(observed[i].at, Minus(CleanAt(c, f, i)))
    BY <2>2
  <2>5. Plus(observed[i].at, Minus(CleanAt(c, f, i)))
          = Plus(NoiseAt(c, f, O, observed, i), Shift(O, i))
    BY <2>3, VectorsCancel DEF NoiseAt
  <2> QED BY <2>2, <2>4, <2>5
<1>9. clean = { [frame |-> f, source |-> SourceIndex(i), at |-> Seen(c.hidden, Scene(f)[i]),
                 training_outlier |-> \E p \in labelled : p.source = SourceIndex(i)] : i \in seen }
  <2> DEFINE D(i) == [frame |-> f, source |-> SourceIndex(i), at |-> Seen(c.hidden, Scene(f)[i]),
                      training_outlier |-> \E p \in labelled : p.source = SourceIndex(i)]
  <2>1. ASSUME NEW i \in 1..n PROVE PixelAt(c, f, O, i) = D(VisibleOf(c, f)[i])
    <3> DEFINE A == \E p \in labelled : p.source = SourceIndex(VisibleOf(c, f)[i])
               B == i \in O
    <3>1. A <=> B
      BY <1>5 DEF SourceAt
    <3>2. A \in BOOLEAN /\ B \in BOOLEAN
      OBVIOUS
    <3>3. /\ PixelAt(c, f, O, i) = [frame |-> f, source |-> SourceIndex(VisibleOf(c, f)[i]),
                                    at |-> Seen(c.hidden, Scene(f)[VisibleOf(c, f)[i]]),
                                    training_outlier |-> B]
          /\ D(VisibleOf(c, f)[i]) = [frame |-> f, source |-> SourceIndex(VisibleOf(c, f)[i]),
                                      at |-> Seen(c.hidden, Scene(f)[VisibleOf(c, f)[i]]),
                                      training_outlier |-> A]
      BY Zenon DEF PixelAt, SourceAt, CleanAt
    <3> HIDE DEF A, B, D
    <3>4. A = B
      BY <3>1, <3>2, SameTruth
    <3> QED BY <3>3, <3>4
  <2>2. \A i \in 1..n : VisibleOf(c, f)[i] \in seen
    BY <1>1, VisibleSeq
  <2>3. \A k \in seen : \E i \in 1..n : VisibleOf(c, f)[i] = k
    BY <1>1, VisibleSeq
  <2> HIDE DEF D, n
  <2>4. { PixelAt(c, f, O, i) : i \in 1..n } = { D(k) : k \in seen }
    BY <2>1, <2>2, <2>3
  <2> QED BY <1>3, <2>4 DEF D
<1>10. Sources(observed) = { SourceIndex(i) : i \in seen }
  <2>1. Sources(observed) = { SourceAt(c, f, i) : i \in 1..n }
    BY <1>7 DEF Sources
  <2>2. \A i \in 1..n : VisibleOf(c, f)[i] \in seen
    BY <1>1, VisibleSeq
  <2>3. \A k \in seen : \E i \in 1..n : VisibleOf(c, f)[i] = k
    BY <1>1, VisibleSeq
  <2> HIDE DEF n
  <2> QED BY <2>1, <2>2, <2>3 DEF SourceAt
<1>11. IF f = 2 THEN labelled = {}
       ELSE /\ Cardinality(labelled) * c.fraction[2] <= c.fraction[1] * Cardinality(seen)
            /\ (Cardinality(labelled) + 1) * c.fraction[2] > c.fraction[1] * Cardinality(seen)
  <2>1. CASE f = 2
    <3>1. Cardinality(labelled) = 0
      BY <1>5, <1>6, <2>1 DEF CountOf, Training
    <3>2. IsFiniteSet(labelled)
      BY <1>5, FS_Subset DEF labelled
    <3> QED BY <2>1, <3>1, <3>2, FS_EmptySet
  <2>2. CASE f # 2
    <3>1. f \in Training
      BY <2>2 DEF Frames, Training
    <3>2. c.fraction \in Nat \X (Nat \ {0})
      BY ConfigAssumption
    <3>3. c.fraction[1] \in Int /\ c.fraction[2] \in Nat \ {0} /\ c.fraction[1] * n \in Int
      BY <1>1, <3>2
    <3>4. Len(VisibleOf(c, f)) = n
      BY VisibleSeq
    <3>5. Cardinality(labelled) = (c.fraction[1] * n) \div c.fraction[2]
      BY <1>5, <1>6, <3>1, <3>4 DEF CountOf
    <3> DEFINE x == c.fraction[1] * n
               d == c.fraction[2]
    <3>6. (x \div d) * d <= x /\ x < ((x \div d) + 1) * d
      <4> HIDE DEF x, d
      <4> QED BY <3>3, FloorIs DEF x, d
    <3>7. ((x \div d) + 1) * d > x
      <4>1. (x \div d) \in Int
        BY <3>3
      <4> QED BY <3>3, <3>6, <4>1
    <3> QED BY <1>1, <2>2, <3>5, <3>6, <3>7
  <2> QED BY <2>1, <2>2
<1>12. Total(v) = <<Cardinality(labelled) * Offset[1], Cardinality(labelled) * Offset[2]>>
  <2>1. Len(v) = n /\ \A i \in 1..n : v[i] = off(i)
    BY <1>1, <1>7
  <2> HIDE DEF v
  <2>2. \A k \in 1..n : v[k] = Plus(NoiseAt(c, f, O, observed, k), Shift(O, k))
    BY <1>8, <2>1
  <2>3. Total(v) = Scaled(Cardinality(O))
    BY <1>3, <2>1, <2>2, NoiseCancels
  <2> QED BY <1>5, <2>3 DEF Scaled
<1>13. c.noise = 0 =>
         \A i \in DOMAIN observed :
           off(i) = IF CleanPixel(observed[i].source).training_outlier THEN Offset ELSE Zero
  <2> SUFFICES ASSUME c.noise = 0, NEW i \in 1..n
               PROVE  off(i) = IF CleanPixel(observed[i].source).training_outlier THEN Offset ELSE Zero
    BY <1>7
  <2>1. NoiseAt(c, f, O, observed, i) = Zero
    BY <1>3 DEF Paired
  <2>2. Shift(O, i) \in Vectors
    BY SceneAssumption DEF Shift, Zero, Vectors
  <2>3. off(i) = Shift(O, i)
    BY <1>8, <2>1, <2>2, VectorsAdd
  <2> QED BY <1>8, <2>3 DEF Shift
<1>14. Len(observed) = Cardinality(seen) /\ Cardinality(labelled) = info.outlier_count
  BY <1>1, <1>4, <1>5, <1>6, <1>7
<1> QED BY <1>9, <1>10, <1>11, <1>12, <1>13, <1>14
        DEF Declared, clean, observed, info, seen, CleanPixel, labelled

LEMMA PublishedIsDeclared ==
  ASSUME config \in Configs, made # None => Published(config, made)
  PROVE  CorruptionIsDeclared
<1>1. ASSUME made # None, NEW f \in Frames PROVE Declared(config, made, f)
  <2>1. FrameDone(config, f, made.points, made.observations, made.manifest.frames,
                  made.oracle.body.pixels)
    BY <1>1 DEF Published
  <2> QED BY <2>1, DoneIsDeclared
<1> QED BY <1>1 DEF CorruptionIsDeclared, Declared

-----------------------------------------------------------------------------
(* The canonical order of records                                          *)

\* Record k of a comes before record l.
Ahead(a, k, l) ==
  a[k].source < a[l].source \/ (a[k].source = a[l].source /\ k < l)

Sourced(S) == \A x \in S : x.source \in Int
Rising(a) == \A i, j \in 1..Len(a) : i < j => a[i].source < a[j].source
Shuffled(a, b) == Len(a) = Len(b) /\ ToSet(a) = ToSet(b)
BySource(a) == { p \in (1..Len(a)) \X (1..Len(a)) :
                   Ahead(a, p[1], p[2]) }

Sorts(a) ==
  /\ Orders(BySource(a), 1..Len(a))
  /\ \A k \in 1..Len(a) :
       Below(BySource(a), 1..Len(a), k)
         = { l \in 1..Len(a) : Ahead(a, l, k) }

LEMMA BySourceOrders ==
  ASSUME NEW S, Sourced(S), NEW a \in Seq(S)
  PROVE  Sorts(a)
<1> DEFINE n == Len(a)
           T == 1..n
           s == [i \in T |-> a[i].source]
           R == BySource(a)
<1>1. n \in Nat /\ \A i \in T : a[i] \in S
  OBVIOUS
<1>2. \A i \in T : s[i] = a[i].source /\ s[i] \in Int
  BY <1>1 DEF Sourced
<1> HIDE DEF s
<1>3. \A i, j \in T : <<i, j>> \in R <=> (s[i] < s[j] \/ (s[i] = s[j] /\ i < j))
  BY <1>2 DEF BySource, Ahead
<1> HIDE DEF R
<1>4. \A i \in T : i \in Int
  BY <1>1
<1> HIDE DEF T
<1>5. \A x \in T : <<x, x>> \notin R
  BY <1>2, <1>3, <1>4
<1>6. ASSUME NEW x \in T, NEW y \in T PROVE x = y \/ <<x, y>> \in R \/ <<y, x>> \in R
  <2>1. x = y \/ (s[x] < s[y] \/ (s[x] = s[y] /\ x < y)) \/ (s[y] < s[x] \/ (s[y] = s[x] /\ y < x))
    BY <1>2, <1>4
  <2> QED BY <1>3, <2>1
<1>7. ASSUME NEW x \in T, NEW y \in T, NEW z \in T, <<x, y>> \in R, <<y, z>> \in R
      PROVE  <<x, z>> \in R
  <2>1. s[x] < s[y] \/ (s[x] = s[y] /\ x < y)
    BY <1>3, <1>7
  <2>2. s[y] < s[z] \/ (s[y] = s[z] /\ y < z)
    BY <1>3, <1>7
  <2>3. s[x] < s[z] \/ (s[x] = s[z] /\ x < z)
    BY <1>2, <1>4, <2>1, <2>2
  <2> QED BY <1>3, <2>3
<1>8. ASSUME NEW k \in T PROVE Below(R, T, k) = { l \in T : Ahead(a, l, k) }
  <2>1. \A l \in T : <<l, k>> \in R <=> (a[l].source < a[k].source \/ (a[l].source = a[k].source /\ l < k))
    BY <1>2, <1>3
  <2> QED BY <2>1 DEF Below, Ahead
<1>9. Orders(R, T)
  BY <1>5, <1>6, <1>7 DEF Orders
<1> QED BY <1>8, <1>9 DEF T, R, Sorts

\* The places of the records in that order, as std::sort leaves them.
PlacesInOrder(a) ==
  [i \in 1..Cardinality(DOMAIN a) |->
     CHOOSE k \in DOMAIN a :
       Cardinality({ l \in DOMAIN a : Ahead(a, l, k) }) = i - 1]

LEMMA CanonicalIs ==
  ASSUME NEW S, Sourced(S), NEW a \in Seq(S)
  PROVE  /\ Canonical(a) \in Seq(S) /\ Len(Canonical(a)) = Len(a)
         /\ \E q : /\ Ascending(q, Len(a), BySource(a), 1..Len(a))
                   /\ \A i \in 1..Len(a) : Canonical(a)[i] = a[q[i]]
<1> DEFINE n == Len(a)
           T == 1..n
           R == BySource(a)
           q == PlacesInOrder(a)
<1>1. n \in Nat /\ DOMAIN a = 1..n /\ (\A i \in 1..n : a[i] \in S)
      /\ IsFiniteSet(T) /\ Cardinality(T) = n
  BY CountingTo
<1>2. Orders(R, T) /\ \A k \in T : Below(R, T, k) = { l \in T : Ahead(a, l, k) }
  BY BySourceOrders DEF Sorts
<1>3. \A i \in 1..n : \E x \in T : Cardinality(Below(R, T, x)) = i - 1
  BY <1>1, <1>2, RankTaken
<1> DEFINE C(k) == Cardinality({ l \in T : Ahead(a, l, k) })
<1>4. q = [i \in 1..n |-> CHOOSE k \in T : C(k) = i - 1]
  BY <1>1 DEF PlacesInOrder
<1>5. \A k \in T : C(k) = Cardinality(Below(R, T, k))
  BY <1>2
<1>6. Canonical(a) = [i \in 1..n |-> a[q[i]]]
  <2>1. Canonical(a) = [i \in DOMAIN a |-> a[q[i]]]
    BY DEF Canonical, Listing, PlacesInOrder, Ahead
  <2> QED BY <1>1, <2>1
<1> HIDE DEF q, R, C
<1>7. ASSUME NEW i \in 1..n PROVE q[i] \in T /\ Cardinality(Below(R, T, q[i])) = i - 1
  <2>1. \E x \in T : C(x) = i - 1
    BY <1>3, <1>5
  <2>2. q[i] = CHOOSE k \in T : C(k) = i - 1
    BY <1>4
  <2>3. q[i] \in T /\ C(q[i]) = i - 1
    BY <2>1, <2>2
  <2> QED BY <1>5, <2>3
<1>8. q \in [1..n -> T]
  BY <1>4, <1>7
<1>9. Ascending(q, n, R, T)
  BY <1>1, <1>2, <1>7, <1>8, RankedAscends
<1>10. /\ Canonical(a) \in Seq(S) /\ Len(Canonical(a)) = n
       /\ \A i \in 1..n : Canonical(a)[i] = a[q[i]]
  <2>1. \A i \in 1..n : a[q[i]] \in S
    BY <1>1, <1>8
  <2>2. Canonical(a) \in [1..n -> S]
    BY <1>6, <2>1
  <2> QED BY <1>1, <1>6, <2>2
<1> QED BY <1>9, <1>10 DEF R

LEMMA CanonicalShuffles ==
  ASSUME NEW S, Sourced(S), NEW a \in Seq(S)
  PROVE  Shuffled(Canonical(a), a)
<1>1. PICK q : /\ Ascending(q, Len(a), BySource(a), 1..Len(a))
               /\ \A i \in 1..Len(a) : Canonical(a)[i] = a[q[i]]
  BY CanonicalIs
<1>2. Canonical(a) \in Seq(S) /\ Len(Canonical(a)) = Len(a) /\ Len(a) \in Nat
  BY CanonicalIs
<1>3. /\ \A i \in 1..Len(a) : q[i] \in 1..Len(a)
      /\ \A x \in 1..Len(a) : \E i \in 1..Len(a) : q[i] = x
  BY <1>1 DEF Ascending
<1>4. ToSet(Canonical(a)) = { Canonical(a)[i] : i \in 1..Len(a) } /\ ToSet(a) = { a[i] : i \in 1..Len(a) }
  BY <1>2 DEF ToSet
<1> DEFINE n == Len(a)
           C == Canonical(a)
<1> HIDE DEF n, C
<1>5. { C[i] : i \in 1..n } = { a[i] : i \in 1..n }
  <2>1. \A i \in 1..n : C[i] = a[q[i]] /\ q[i] \in 1..n
    BY <1>1, <1>3 DEF n, C
  <2>2. \A x \in 1..n : \E i \in 1..n : q[i] = x
    BY <1>3 DEF n
  <2>3. \A x \in 1..n : \E i \in 1..n : C[i] = a[x]
    BY <2>1, <2>2
  <2>4. \A i \in 1..n : \E x \in 1..n : C[i] = a[x]
    BY <2>1
  <2>5. ASSUME NEW y \in { C[i] : i \in 1..n } PROVE y \in { a[i] : i \in 1..n }
    <3>1. PICK i \in 1..n : y = C[i]
      OBVIOUS
    <3>2. PICK x \in 1..n : C[i] = a[x]
      BY <2>4
    <3> QED BY <3>1, <3>2
  <2>6. ASSUME NEW y \in { a[i] : i \in 1..n } PROVE y \in { C[i] : i \in 1..n }
    <3>1. PICK x \in 1..n : y = a[x]
      OBVIOUS
    <3>2. PICK i \in 1..n : C[i] = a[x]
      BY <2>3
    <3> QED BY <3>1, <3>2
  <2> QED BY <2>5, <2>6
<1> QED BY <1>2, <1>4, <1>5 DEF Shuffled, n, C

\* Records whose sources differ are put in the order of their sources.
LEMMA CanonicalRises ==
  ASSUME NEW S, Sourced(S), NEW a \in Seq(S),
         \A i, j \in 1..Len(a) : a[i].source = a[j].source => i = j
  PROVE  Rising(Canonical(a))
<1>1. PICK q : /\ Ascending(q, Len(a), BySource(a), 1..Len(a))
               /\ \A i \in 1..Len(a) : Canonical(a)[i] = a[q[i]]
  BY CanonicalIs
<1>2. Len(Canonical(a)) = Len(a) /\ Len(a) \in Nat
  BY CanonicalIs
<1>3. ASSUME NEW i \in 1..Len(a), NEW j \in 1..Len(a), i < j PROVE a[q[i]].source < a[q[j]].source
  <2>1. <<q[i], q[j]>> \in BySource(a) /\ q[i] \in 1..Len(a) /\ q[j] \in 1..Len(a) /\ q[i] # q[j]
    <3>1. /\ \A k \in 1..Len(a) : q[k] \in 1..Len(a)
          /\ \A k, l \in 1..Len(a) : q[k] = q[l] => k = l
          /\ \A k, l \in 1..Len(a) : k < l => <<q[k], q[l]>> \in BySource(a)
      BY <1>1 DEF Ascending
    <3>2. i # j
      BY <1>2, <1>3
    <3> QED BY <1>3, <3>1, <3>2
  <2>2. a[q[i]].source # a[q[j]].source
    BY <2>1
  <2> QED BY <2>1, <2>2 DEF BySource, Ahead
<1> QED BY <1>1, <1>2, <1>3 DEF Rising

\* There is one way to put records in the order of their sources.
LEMMA RisingIsUnique ==
  ASSUME NEW S, Sourced(S), NEW a \in Seq(S), NEW b \in Seq(S), Rising(a), Rising(b), Shuffled(a, b)
  PROVE  a = b
<1> DEFINE n == Len(a)
           D == { i \in 1..n : a[i] # b[i] }
<1>1. /\ n \in Nat /\ Len(b) = n /\ DOMAIN a = 1..n /\ DOMAIN b = 1..n
      /\ \A i \in 1..n : a[i] \in S /\ b[i] \in S
  BY DEF Shuffled
<1>2. \A i \in 1..n : a[i].source \in Int /\ b[i].source \in Int
  BY <1>1 DEF Sourced
<1>3. /\ \A i, j \in 1..n : i < j => a[i].source < a[j].source
      /\ \A i, j \in 1..n : i < j => b[i].source < b[j].source
  BY <1>1 DEF Rising
<1>4. /\ \A i \in 1..n : \E j \in 1..n : a[i] = b[j]
      /\ \A i \in 1..n : \E j \in 1..n : b[i] = a[j]
  BY <1>1 DEF Shuffled, ToSet
<1>5. ASSUME D # {} PROVE FALSE
  <2>1. D \in SUBSET Nat
    BY <1>1
  <2>2. PICK k \in D : \A l \in D : k <= l
    BY <1>5, <2>1, LeastNatural
  <2>3. k \in 1..n /\ a[k] # b[k] /\ \A i \in 1..n : i < k => a[i] = b[i]
    BY <2>1, <2>2
  <2>4. PICK i \in 1..n : a[k] = b[i]
    BY <1>4, <2>3
  <2>5. PICK j \in 1..n : b[k] = a[j]
    BY <1>4, <2>3
  <2>6. i > k
    BY <1>1, <1>2, <1>3, <2>3, <2>4
  <2>7. j > k
    BY <1>1, <1>2, <1>3, <2>3, <2>5
  <2>8. b[k].source < b[i].source /\ a[k].source < a[j].source
    BY <1>3, <2>3, <2>6, <2>7
  <2> QED BY <1>2, <2>3, <2>4, <2>5, <2>8
<1>6. \A i \in 1..n : a[i] = b[i]
  BY <1>5
<1> QED BY <1>1, <1>6

\* A shuffled listing of different records lists them once.
LEMMA ShuffledOnce ==
  ASSUME NEW S, Sourced(S), NEW a \in Seq(S), NEW b \in Seq(S), Rising(b), Shuffled(a, b)
  PROVE  \A i, j \in 1..Len(a) : a[i].source = a[j].source => i = j
<1> DEFINE n == Len(b)
           V == ToSet(b)
<1>1. n \in Nat /\ Len(a) = n /\ ToSet(a) = V /\ V = { b[i] : i \in 1..n }
      /\ V = { a[i] : i \in 1..n } /\ \A i \in 1..n : b[i] \in S
  <2>1. n \in Nat /\ Len(a) = n /\ ToSet(a) = V /\ \A i \in 1..n : b[i] \in S
    BY DEF Shuffled
  <2>2. DOMAIN a = 1..n /\ DOMAIN b = 1..n
    BY <2>1
  <2>3. V = { b[i] : i \in 1..n } /\ ToSet(a) = { a[i] : i \in 1..n }
    BY <2>2 DEF ToSet
  <2> QED BY <2>1, <2>3
<1>2. \A i, j \in 1..n : b[i].source = b[j].source => i = j
  <2>1. \A i \in 1..n : b[i].source \in Int
    BY <1>1 DEF Sourced
  <2>2. \A i, j \in 1..n : i < j => b[i].source < b[j].source
    BY DEF Rising
  <2> QED BY <1>1, <2>1, <2>2
<1> HIDE DEF V
<1> DEFINE g == [i \in 1..n |-> b[i]]
           h == [i \in 1..n |-> a[i]]
<1>3. IsFiniteSet(1..n) /\ Cardinality(1..n) = n
  BY <1>1, CountingTo
<1>4. IsFiniteSet(V) /\ Cardinality(V) = n
  <2>1. g \in [1..n -> V] /\ (\A i \in 1..n : g[i] = b[i]) /\ \A x \in V : \E i \in 1..n : b[i] = x
    BY <1>1
  <2> HIDE DEF g, n
  <2>2. g \in Bijection(1..n, V)
    BY <1>2, <2>1 DEF Bijection, Injection, Surjection, IsInjective
  <2>3. ExistsBijection(1..n, V)
    BY <2>2 DEF ExistsBijection
  <2> QED BY <1>3, <2>3, FS_Bijection
<1>5. h \in Injection(1..n, V)
  <2>1. h \in [1..n -> V] /\ (\A i \in 1..n : h[i] = a[i]) /\ \A x \in V : \E i \in 1..n : a[i] = x
    BY <1>1
  <2> HIDE DEF h, n
  <2>2. h \in Surjection(1..n, V)
    BY <2>1 DEF Surjection
  <2> QED BY <1>3, <1>4, <2>2, FS_Surjection
<1>6. \A i, j \in 1..n : a[i] = a[j] => i = j
  <2>1. \A i \in 1..n : h[i] = a[i]
    OBVIOUS
  <2> HIDE DEF h, n
  <2> QED BY <1>5, <2>1 DEF Injection, IsInjective
<1>7. ASSUME NEW i \in 1..n, NEW j \in 1..n, a[i].source = a[j].source PROVE i = j
  <2>1. a[i] \in V /\ a[j] \in V
    BY <1>1
  <2>2. PICK k \in 1..n : a[i] = b[k]
    BY <1>1, <2>1
  <2>3. PICK l \in 1..n : a[j] = b[l]
    BY <1>1, <2>1
  <2>4. k = l
    BY <1>2, <1>7, <2>2, <2>3
  <2> QED BY <1>6, <2>2, <2>3, <2>4
<1> QED BY <1>1, <1>7

LEMMA CanonicalMatches ==
  ASSUME NEW S, Sourced(S), NEW a \in Seq(S), NEW b \in Seq(S), Rising(b)
  PROVE  Canonical(a) = b <=> Shuffled(a, b)
<1>1. Shuffled(Canonical(a), a) /\ Canonical(a) \in Seq(S)
  BY CanonicalShuffles, CanonicalIs
<1>2. ASSUME Canonical(a) = b PROVE Shuffled(a, b)
  BY <1>1, <1>2 DEF Shuffled
<1>3. ASSUME Shuffled(a, b) PROVE Canonical(a) = b
  <2>1. \A i, j \in 1..Len(a) : a[i].source = a[j].source => i = j
    BY <1>3, ShuffledOnce
  <2>2. Rising(Canonical(a))
    BY <2>1, CanonicalRises
  <2>3. Shuffled(Canonical(a), b)
    BY <1>1, <1>3 DEF Shuffled
  <2> QED BY <1>1, <2>2, <2>3, RisingIsUnique
<1> QED BY <1>2, <1>3

-----------------------------------------------------------------------------
(* A published fixture under the checks of the loaders                     *)

LEMMA RecordsAreSourced == Sourced(Point) /\ Sourced(Target)
  BY DEF Sourced, Point, Target

LEMMA PointsRise ==
  ASSUME NEW f \in Frames
  PROVE  Rising(PointsOf(f))
<1>1. /\ Len(PointsOf(f)) = Len(Scene(f)) /\ Len(Scene(f)) \in Nat
      /\ \A i \in 1..Len(Scene(f)) : PointsOf(f)[i].source = SourceIndex(i)
  <2>1. ASSUME NEW i \in 1..Len(Scene(f)) PROVE PointsOf(f)[i].source = SourceIndex(i)
    <3>1. PointsOf(f)[i] = [source |-> SourceIndex(i), point |-> Scene(f)[i]]
      BY PointsAre
    <3> QED BY <3>1
  <2> QED BY <2>1, PointsAre
<1>2. \A i, j \in 1..Len(Scene(f)) : i < j => SourceIndex(i) < SourceIndex(j)
  BY <1>1 DEF SourceIndex
<1> QED BY <1>1, <1>2 DEF Rising

LEMMA TargetsRise ==
  ASSUME NEW c \in Configs, NEW f \in Frames, NEW T, Recorded(c, f, T, Many(c, f))
  PROVE  Rising(T)
<1> DEFINE n == Many(c, f)
           v == VisibleOf(c, f)
<1>1. n \in Nat /\ Len(T) = n /\ \A i \in 1..n : T[i].source = SourceAt(c, f, i)
  BY VisibleSeq DEF Recorded
<1>2. \A i \in 1..n : v[i] \in 1..Len(Scene(f)) /\ Len(Scene(f)) \in Nat
  BY CleanIs, SceneIs
<1>3. \A i, j \in 1..n : i < j => <<v[i], v[j]>> \in Less(SeenPlaces(c, f))
  BY VisibleIs DEF Ascending
<1>4. \A i, j \in 1..n : i < j => v[i] < v[j]
  BY <1>3 DEF Less
<1>5. \A i \in 1..n : T[i].source = 11 + 3 * (v[i] - 1)
  BY <1>1 DEF SourceAt, SourceIndex
<1> HIDE DEF v, n
<1>6. ASSUME NEW i \in 1..n, NEW j \in 1..n, i < j PROVE T[i].source < T[j].source
  <2>1. v[i] < v[j] /\ v[i] \in Int /\ v[j] \in Int
    BY <1>2, <1>4, <1>6
  <2>2. 11 + 3 * (v[i] - 1) < 11 + 3 * (v[j] - 1)
    BY <2>1
  <2> QED BY <1>5, <2>2
<1> QED BY <1>1, <1>6 DEF Rising

\* What the generator wrote of frame f.
Wrote(c, m, f) ==
  LET info == m.manifest.frames[f + 1]
      T == m.observations[f + 1] IN
  /\ m.points[f + 1] = PointsOf(f) /\ PointsOf(f) \in Seq(Point) /\ Rising(PointsOf(f))
  /\ T \in Seq(Target) /\ Rising(T) /\ Len(T) = Many(c, f) /\ Many(c, f) > 0
  /\ Len(PointsOf(f)) > 0
  /\ Recorded(c, f, T, Many(c, f)) /\ Described(c, f, T, info)
  /\ info.outlier_count \in Nat /\ info.outlier_count <= info.visible
  /\ \E O : Corrupted(c, f, O, T, PixelsOf(m.oracle.body.pixels, f), Many(c, f))

LEMMA PublishedWrote ==
  ASSUME NEW c \in Configs, NEW m, Published(c, m), NEW f \in Frames
  PROVE  Wrote(c, m, f)
<1> DEFINE n == Many(c, f)
           T == m.observations[f + 1]
           info == m.manifest.frames[f + 1]
           P == PixelsOf(m.oracle.body.pixels, f)
<1>1. FrameDone(c, f, m.points, m.observations, m.manifest.frames, m.oracle.body.pixels)
  BY DEF Published
<1>2. n > 0 /\ m.points[f + 1] = PointsOf(f) /\ Described(c, f, T, info)
  BY <1>1 DEF FrameDone
<1>3. PICK O : Corrupted(c, f, O, T, P, n)
  BY <1>1 DEF FrameDone
<1>4. Recorded(c, f, T, n) /\ Chosen(c, f, O)
  BY <1>3 DEF Corrupted
<1>5. T \in Seq(Target) /\ Len(T) = n /\ Rising(T)
  BY <1>4, TargetsRise DEF Recorded
<1>6. /\ PointsOf(f) \in Seq(Point) /\ Rising(PointsOf(f)) /\ Len(PointsOf(f)) = Len(Scene(f))
      /\ Len(Scene(f)) \in Nat
  BY PointsAre, PointsRise
<1>7. n \in Nat
  BY VisibleSeq
<1>8. Len(PointsOf(f)) > 0
  <2>1. 1 \in 1..n
    BY <1>2, <1>7
  <2>2. VisibleOf(c, f)[1] \in 1..Len(Scene(f))
    BY <2>1, CleanIs
  <2> QED BY <1>6, <2>2
<1>9. info.outlier_count \in Nat /\ info.outlier_count <= info.visible
  <2>1. O \in SUBSET (1..n) /\ Cardinality(O) = CountOf(c, f)
    BY <1>4 DEF Chosen
  <2>2. IsFiniteSet(1..n) /\ Cardinality(1..n) = n
    BY <1>7, CountingTo
  <2>3. IsFiniteSet(O) /\ Cardinality(O) <= n
    BY <2>1, <2>2, FS_Subset
  <2>4. Cardinality(O) \in Nat
    BY <2>3, FS_CardinalityType
  <2>5. info.outlier_count = CountOf(c, f) /\ info.visible = n
    BY <1>2 DEF Described
  <2> QED BY <2>1, <2>3, <2>4, <2>5
<1>10. \E Q : Corrupted(c, f, Q, T, P, n)
  BY <1>3
<1> QED BY <1>2, <1>4, <1>5, <1>6, <1>8, <1>9, <1>10 DEF Wrote

\* Source indices that differ are as many as their records.
LEMMA SourcesCount ==
  ASSUME NEW S, Sourced(S), NEW a \in Seq(S), Rising(a)
  PROVE  Cardinality(Sources(a)) = Len(a)
<1> DEFINE n == Len(a)
           h == [i \in 1..n |-> a[i].source]
           Q == Sources(a)
<1>1. n \in Nat /\ DOMAIN a = 1..n /\ (\A i \in 1..n : a[i].source \in Int)
      /\ \A i, j \in 1..n : i < j => a[i].source < a[j].source
  BY DEF Sourced, Rising
<1>2. Q = { a[i].source : i \in 1..n }
  BY <1>1 DEF Sources
<1>3. IsFiniteSet(1..n) /\ Cardinality(1..n) = n
  BY <1>1, CountingTo
<1>4. h \in [1..n -> Q] /\ (\A i \in 1..n : h[i] = a[i].source)
      /\ \A x \in Q : \E i \in 1..n : a[i].source = x
  BY <1>2
<1>5. \A i, j \in 1..n : a[i].source = a[j].source => i = j
  BY <1>1
<1> HIDE DEF h, n, Q
<1>6. h \in Bijection(1..n, Q)
  BY <1>4, <1>5 DEF Bijection, Injection, Surjection, IsInjective
<1>7. ExistsBijection(1..n, Q)
  BY <1>6 DEF ExistsBijection
<1> QED BY <1>3, <1>7, FS_Bijection DEF n, Q

\* The manifest is accepted exactly when it is the one that was written.
LEMMA ManifestAccepted ==
  ASSUME config \in Configs, Published(config, made),
         files.manifest = [frames |-> files.manifest.frames, identity |-> made.manifest.identity]
  PROVE  ManifestGood <=> files.manifest = made.manifest
<1>1. made.manifest = [frames |-> made.manifest.frames, identity |-> made.manifest.frames]
  BY DEF Published
<1>2. files.manifest.identity = made.manifest.frames
  BY <1>1
<1>3. ASSUME ManifestGood PROVE files.manifest = made.manifest
  <2>1. files.manifest.frames = made.manifest.frames
    BY <1>2, <1>3 DEF ManifestGood
  <2> QED BY <1>1, <2>1
<1>4. ASSUME files.manifest = made.manifest PROVE ManifestGood
  <2> DEFINE M == made.manifest.frames
  <2>1. M \in Seq(Entry) /\ Len(M) = 3
    BY DEF Published, Filed
  <2>2. DOMAIN M = 1..3
    BY <2>1
  <2>3. ASSUME NEW i \in 1..3
        PROVE M[i].frame = i - 1 /\ M[i].outlier_count <= M[i].visible
    <3>1. i - 1 \in Frames /\ (i - 1) + 1 = i
      BY DEF Frames
    <3>2. Wrote(config, made, i - 1)
      BY <3>1, PublishedWrote
    <3> QED BY <3>1, <3>2 DEF Wrote, Described
  <2>4. files.manifest.frames = M /\ files.manifest.identity = M
    BY <1>2, <1>4
  <2> HIDE DEF M
  <2>5. \A i, j \in 1..3 : i # j => M[i].frame # M[j].frame
    BY <2>3
  <2> QED BY <2>2, <2>3, <2>4, <2>5 DEF ManifestGood
<1> QED BY <1>3, <1>4

LEMMA SplitAccepted ==
  ASSUME config \in Configs, Published(config, made), files.manifest = made.manifest
  PROVE  SplitGood
<1> DEFINE M == made.manifest.frames
<1>1. M \in Seq(Entry) /\ Len(M) = 3
  BY DEF Published, Filed
<1>2. DOMAIN M = 1..3
  BY <1>1
<1>3. ASSUME NEW i \in 1..3 PROVE M[i].scene = ToSet(Scene(i - 1)) /\ i - 1 \in Frames
  <2>1. i - 1 \in Frames /\ (i - 1) + 1 = i
    BY DEF Frames
  <2>2. Wrote(config, made, i - 1)
    BY <2>1, PublishedWrote
  <2> QED BY <2>1, <2>2 DEF Wrote, Described
<1>4. ASSUME NEW i \in 1..3, NEW j \in 1..3, i # j PROVE M[i].scene # M[j].scene
  <2>1. i - 1 # j - 1
    BY <1>4
  <2> QED BY <1>3, <2>1, SceneAssumption
<1> QED BY <1>2, <1>4 DEF SplitGood

\* The files of frame f hold what was written, in any order.
Intact(F, m, f) ==
  /\ Shuffled(F.points[f + 1], m.points[f + 1])
  /\ Shuffled(F.observations[f + 1], m.observations[f + 1])

\* A frame is accepted exactly when its files hold what was written.
LEMMA FrameAccepted ==
  ASSUME config \in Configs, Published(config, made), files.manifest = made.manifest,
         NEW f \in Frames, files.points[f + 1] \in Seq(Point),
         files.observations[f + 1] \in Seq(Target)
  PROVE  FrameGood(f) <=> Intact(files, made, f)
<1> DEFINE info == made.manifest.frames[f + 1]
           A == files.points[f + 1]
           B == files.observations[f + 1]
           Y == PointsOf(f)
           T == made.observations[f + 1]
           n == Many(config, f)
<1>1. Wrote(config, made, f)
  BY PublishedWrote
<1>2. /\ made.points[f + 1] = Y /\ Y \in Seq(Point) /\ Rising(Y)
      /\ T \in Seq(Target) /\ Rising(T) /\ Len(T) = n /\ n > 0 /\ Len(Y) > 0
      /\ Recorded(config, f, T, n)
  BY <1>1 DEF Wrote
<1>3. /\ info.scene = ToSet(Scene(f)) /\ info.points = Y /\ info.observations = T
      /\ info.input = Len(Y) /\ info.visible = n
  BY <1>1 DEF Wrote, Described
<1>4. (Canonical(A) = Y <=> Shuffled(A, Y)) /\ (Canonical(B) = T <=> Shuffled(B, T))
  BY <1>2, RecordsAreSourced, CanonicalMatches
<1>5. files.manifest.frames[f + 1] = info
  OBVIOUS
<1>6. ASSUME FrameGood(f) PROVE Intact(files, made, f)
  <2>1. Canonical(A) = Y /\ Canonical(B) = T
    BY <1>3, <1>5, <1>6 DEF FrameGood
  <2> QED BY <1>2, <1>4, <2>1 DEF Intact
<1>7. ASSUME Intact(files, made, f) PROVE FrameGood(f)
  <2>1. Canonical(A) = Y /\ Canonical(B) = T
    BY <1>2, <1>4, <1>7 DEF Intact
  <2>2. Y # <<>> /\ T # <<>>
    BY <1>2
  <2>3. Cardinality(Sources(Y)) = Len(Y) /\ Cardinality(Sources(T)) = Len(T)
    BY <1>2, RecordsAreSourced, SourcesCount
  <2>4. /\ Len(Y) = Len(Scene(f)) /\ Len(Scene(f)) \in Nat /\ DOMAIN Scene(f) = 1..Len(Scene(f))
        /\ DOMAIN Y = 1..Len(Scene(f))
        /\ \A i \in 1..Len(Scene(f)) : Y[i].source = SourceIndex(i) /\ Y[i].point = Scene(f)[i]
    <3>1. ASSUME NEW i \in 1..Len(Scene(f)) PROVE Y[i].source = SourceIndex(i) /\ Y[i].point = Scene(f)[i]
      <4>1. Y[i] = [source |-> SourceIndex(i), point |-> Scene(f)[i]]
        BY PointsAre
      <4> HIDE DEF Y
      <4> QED BY <4>1
    <3>2. DOMAIN Y = 1..Len(Y)
      BY <1>2
    <3> QED BY <3>1, <3>2, PointsAre, SceneIs
  <2>5. { Y[i].point : i \in DOMAIN Y } = ToSet(Scene(f))
    <3>1. ToSet(Scene(f)) = { Scene(f)[i] : i \in 1..Len(Scene(f)) }
      BY <2>4 DEF ToSet
    <3> HIDE DEF Y
    <3> QED BY <2>4, <3>1
  <2>6. DOMAIN T = 1..n
    BY <1>2
  <2>7. Sources(T) \subseteq Sources(Y)
    <3>1. ASSUME NEW k \in 1..n PROVE T[k].source \in Sources(Y)
      <4>1. T[k].source = SourceIndex(VisibleOf(config, f)[k])
        BY <1>2 DEF Recorded, SourceAt
      <4>2. VisibleOf(config, f)[k] \in 1..Len(Scene(f))
        BY CleanIs
      <4> HIDE DEF Y, T
      <4>3. Y[VisibleOf(config, f)[k]].source = T[k].source
        BY <2>4, <4>1, <4>2
      <4> QED BY <2>4, <4>2, <4>3 DEF Sources
    <3> HIDE DEF T, Y, n
    <3> QED BY <2>6, <3>1 DEF Sources
  <2>8. \A i \in DOMAIN T : InImage(T[i].at)
    BY <1>2, <2>6 DEF Recorded
  <2> HIDE DEF A, B, Y, T, n, info
  <2> QED BY <1>2, <1>3, <1>5, <2>1, <2>2, <2>3, <2>5, <2>7, <2>8 DEF FrameGood, A, B
<1> QED BY <1>6, <1>7

\* What loadExtrinsicObservationFrames makes of an intact frame.
Reading(c, f, T) ==
  [k \in 1..Many(c, f) |-> [source |-> T[k].source, at |-> T[k].at,
                            point |-> Scene(f)[VisibleOf(c, f)[k]]]]

LEMMA IntactIsRead ==
  ASSUME config \in Configs, Published(config, made), NEW f \in Frames,
         files.points[f + 1] \in Seq(Point), files.observations[f + 1] \in Seq(Target),
         Intact(files, made, f)
  PROVE  FrameRead(f) = Reading(config, f, made.observations[f + 1])
<1> DEFINE A == files.points[f + 1]
           B == files.observations[f + 1]
           Y == PointsOf(f)
           T == made.observations[f + 1]
           n == Many(config, f)
           v == VisibleOf(config, f)
<1>1. Wrote(config, made, f)
  BY PublishedWrote
<1>2. /\ made.points[f + 1] = Y /\ Y \in Seq(Point) /\ Rising(Y)
      /\ T \in Seq(Target) /\ Rising(T) /\ Len(T) = n /\ Recorded(config, f, T, n)
  BY <1>1 DEF Wrote
<1>3. Canonical(B) = T
  BY <1>2, RecordsAreSourced, CanonicalMatches DEF Intact
<1>4. ToSet(A) = { Y[i] : i \in 1..Len(Scene(f)) }
  <2>1. ToSet(A) = ToSet(Y) /\ Len(Y) = Len(Scene(f)) /\ DOMAIN Y = 1..Len(Y)
    BY <1>2, PointsAre DEF Intact, Shuffled
  <2> HIDE DEF Y, A
  <2> QED BY <2>1 DEF ToSet
<1>5. /\ Len(Scene(f)) \in Nat
      /\ \A i \in 1..Len(Scene(f)) : Y[i].source = SourceIndex(i) /\ Y[i].point = Scene(f)[i]
  <2>1. ASSUME NEW i \in 1..Len(Scene(f))
        PROVE  Y[i].source = SourceIndex(i) /\ Y[i].point = Scene(f)[i]
    <3>1. Y[i] = [source |-> SourceIndex(i), point |-> Scene(f)[i]]
      BY PointsAre
    <3> HIDE DEF Y
    <3> QED BY <3>1
  <2> QED BY <2>1, PointsAre
<1> HIDE DEF Y, A
<1>6. ASSUME NEW k \in 1..n
      PROVE  (CHOOSE p \in ToSet(A) : p.source = T[k].source).point = Scene(f)[v[k]]
  <2>1. v[k] \in 1..Len(Scene(f)) /\ T[k].source = SourceIndex(v[k])
    BY <1>2, CleanIs DEF Recorded, SourceAt
  <2>2. Y[v[k]] \in ToSet(A) /\ Y[v[k]].source = T[k].source
    BY <1>4, <1>5, <2>1
  <2>3. PICK q : q = CHOOSE p \in ToSet(A) : p.source = T[k].source
    OBVIOUS
  <2>4. q \in ToSet(A) /\ q.source = T[k].source
    BY <2>2, <2>3
  <2>5. PICK i \in 1..Len(Scene(f)) : q = Y[i]
    BY <1>4, <2>4
  <2>6. q.source = SourceIndex(i) /\ q.point = Scene(f)[i]
    BY <1>5, <2>5
  <2>7. SourceIndex(i) = SourceIndex(v[k])
    BY <2>1, <2>4, <2>6
  <2>8. i = v[k]
    BY <1>5, <2>1, <2>7 DEF SourceIndex
  <2> QED BY <2>3, <2>6, <2>8
<1>7. DOMAIN T = 1..n
  BY <1>2
<1>8. FrameRead(f) = [k \in DOMAIN T |->
        [source |-> T[k].source, at |-> T[k].at,
         point |-> (CHOOSE p \in ToSet(A) : p.source = T[k].source).point]]
  BY <1>3 DEF FrameRead, A
<1> HIDE DEF T, v, n
<1>9. FrameRead(f) = [k \in 1..n |-> [source |-> T[k].source, at |-> T[k].at,
                                      point |-> Scene(f)[v[k]]]]
  BY <1>6, <1>7, <1>8
<1> QED BY <1>9 DEF Reading, T, v, n

\* Oracle pixels are counted by their places as well.
LEMMA CountedByPlace ==
  ASSUME NEW P, Listed(P), NEW X, X \subseteq ToSet(P)
  PROVE  Cardinality({ i \in 1..Len(P) : P[i] \in X }) = Cardinality(X)
<1> DEFINE D == { i \in 1..Len(P) : P[i] \in X }
           h == [i \in D |-> P[i]]
<1>1. Len(P) \in Nat /\ DOMAIN P = 1..Len(P)
  BY DEF Listed
<1>2. D \subseteq 1..Len(P) /\ \A i \in D : P[i] \in X
  OBVIOUS
<1>3. IsFiniteSet(D)
  BY <1>1, <1>2, CountingTo, FS_Subset
<1>4. \A x \in X : \E i \in D : P[i] = x
  BY <1>1 DEF ToSet
<1>5. \A i, j \in 1..Len(P) : P[i] = P[j] => i = j
  BY DEF Listed
<1> HIDE DEF D
<1>6. h \in [D -> X] /\ \A i \in D : h[i] = P[i]
  BY <1>2
<1> HIDE DEF h
<1>7. \A i, j \in D : h[i] = h[j] => i = j
  BY <1>2, <1>5, <1>6
<1>8. h \in Bijection(D, X)
  BY <1>4, <1>6, <1>7 DEF Bijection, Injection, Surjection, IsInjective
<1>9. ExistsBijection(D, X)
  BY <1>8 DEF ExistsBijection
<1> QED BY <1>3, <1>9, FS_Bijection DEF D

LEMMA OracleAccepted ==
  ASSUME config \in Configs, Published(config, made), files.manifest = made.manifest,
         files.oracle = [body |-> files.oracle.body, identity |-> made.oracle.identity]
  PROVE  OracleGood <=> files.oracle = made.oracle
<1> DEFINE P == made.oracle.body.pixels
           M == made.manifest.frames
<1>1. /\ made.manifest = [frames |-> M, identity |-> M]
      /\ made.oracle = [body |-> [fixture |-> M, hidden |-> config.hidden, pixels |-> P],
                        identity |-> [fixture |-> M, hidden |-> config.hidden, pixels |-> P]]
      /\ Listed(P)
  BY DEF Published
<1>2. made.oracle.identity = made.oracle.body /\ made.oracle.body.fixture = M
      /\ made.manifest.identity = M
  <2> HIDE DEF P, M
  <2> QED BY <1>1
<1>3. made.oracle = [body |-> made.oracle.body, identity |-> made.oracle.body]
  <2> DEFINE X == [fixture |-> M, hidden |-> config.hidden, pixels |-> P]
  <2>1. made.oracle = [body |-> X, identity |-> X]
    BY <1>1
  <2> HIDE DEF X
  <2>2. made.oracle.body = X
    BY <2>1
  <2> QED BY <2>1, <2>2
<1>4. ASSUME OracleGood PROVE files.oracle = made.oracle
  <2>1. files.oracle.identity = files.oracle.body
    BY <1>4 DEF OracleGood
  <2>2. files.oracle.identity = made.oracle.identity
    OBVIOUS
  <2>3. files.oracle.body = made.oracle.body
    BY <1>2, <2>1, <2>2
  <2>4. files.oracle = [body |-> made.oracle.body, identity |-> made.oracle.body]
    BY <1>2, <2>3
  <2> QED BY <1>3, <2>4
<1>5. ASSUME files.oracle = made.oracle PROVE OracleGood
  <2>1. Len(P) \in Nat /\ DOMAIN P = 1..Len(P) /\ P \in Seq(Pixel)
    BY <1>1 DEF Listed
  <2>2. \A i \in 1..Len(P) : P[i] \in Pixel /\ P[i].frame \in Frames
    <3>1. \A i \in 1..Len(P) : P[i] \in Pixel
      BY <2>1
    <3>2. \A p \in Pixel : p.frame \in Frames
      BY DEF Pixel
    <3> QED BY <3>1, <3>2
  <2>3. ASSUME NEW f \in Frames, NEW i \in 1..Len(P), P[i].frame = f PROVE InImage(P[i].at)
    <3>1. PICK O : Corrupted(config, f, O, made.observations[f + 1], PixelsOf(P, f), Many(config, f))
      BY PublishedWrote DEF Wrote
    <3>2. P[i] \in PixelsOf(P, f)
      BY <2>1, <2>3 DEF PixelsOf, ToSet
    <3>3. PICK k \in 1..Many(config, f) : P[i] = PixelAt(config, f, O, k)
      BY <3>1, <3>2 DEF Corrupted
    <3>4. P[i].at = CleanAt(config, f, k)
      BY <3>3 DEF PixelAt
    <3> QED BY <3>4, CleanIs
  <2>4. ASSUME NEW f \in Frames
        PROVE  /\ Cardinality({ i \in 1..Len(P) : P[i].frame = f }) = M[f + 1].visible
               /\ Cardinality({ i \in { i \in 1..Len(P) : P[i].frame = f } : P[i].training_outlier })
                    = M[f + 1].outlier_count
    <3> DEFINE X == PixelsOf(P, f)
               L == { p \in X : p.training_outlier }
    <3>1. PICK O : Corrupted(config, f, O, made.observations[f + 1], X, Many(config, f))
      BY PublishedWrote DEF Wrote
    <3>2. Chosen(config, f, O) /\ X = { PixelAt(config, f, O, i) : i \in 1..Many(config, f) }
      BY <3>1 DEF Corrupted
    <3>3. Keyed(config, f, O, X)
      <4> HIDE DEF X
      <4> QED BY <3>2, PixelsAre
    <3>4. Cardinality(X) = Many(config, f) /\ Cardinality(L) = Cardinality(O)
      BY <3>3 DEF Keyed
    <3>5. Cardinality(O) = CountOf(config, f)
      BY <3>2 DEF Chosen
    <3>6. M[f + 1].visible = Many(config, f) /\ M[f + 1].outlier_count = CountOf(config, f)
      BY PublishedWrote DEF Wrote, Described
    <3>7. X \subseteq ToSet(P) /\ L \subseteq ToSet(P)
      BY DEF PixelsOf
    <3>8. /\ Cardinality({ i \in 1..Len(P) : P[i] \in X }) = Cardinality(X)
          /\ Cardinality({ i \in 1..Len(P) : P[i] \in L }) = Cardinality(L)
      <4> HIDE DEF X, L
      <4> QED BY <1>1, <3>7, CountedByPlace
    <3>9. \A i \in 1..Len(P) : P[i] \in ToSet(P)
      BY <2>1 DEF ToSet
    <3>10. { i \in 1..Len(P) : P[i] \in X } = { i \in 1..Len(P) : P[i].frame = f }
      BY <3>9 DEF PixelsOf
    <3>11. { i \in 1..Len(P) : P[i] \in L }
             = { i \in { i \in 1..Len(P) : P[i].frame = f } : P[i].training_outlier }
      BY <3>9 DEF PixelsOf
    <3> HIDE DEF P, M, X, L
    <3> QED BY <3>4, <3>5, <3>6, <3>8, <3>10, <3>11
  <2>5. /\ files.oracle.body.pixels = P /\ files.oracle.identity = files.oracle.body
        /\ files.oracle.body.fixture = files.manifest.identity /\ files.manifest.frames = M
    BY <1>2, <1>5
  <2>6. \A i \in 1..Len(P) : InImage(P[i].at)
    BY <2>2, <2>3
  <2>7. \A i, j \in 1..Len(P) : i # j => P[i].frame # P[j].frame \/ P[i].source # P[j].source
    BY <1>1 DEF Listed
  <2> HIDE DEF P, M
  <2>8. \A i, j \in DOMAIN files.oracle.body.pixels :
          /\ InImage(files.oracle.body.pixels[i].at)
          /\ i # j => \/ files.oracle.body.pixels[i].frame # files.oracle.body.pixels[j].frame
                      \/ files.oracle.body.pixels[i].source # files.oracle.body.pixels[j].source
    BY <2>1, <2>5, <2>6, <2>7
  <2>9. \A f \in Frames :
          /\ Cardinality({ i \in DOMAIN P : P[i].frame = f }) = files.manifest.frames[f + 1].visible
          /\ Cardinality({ i \in { i \in DOMAIN P : P[i].frame = f } : P[i].training_outlier })
               = files.manifest.frames[f + 1].outlier_count
    BY <2>1, <2>4, <2>5
  <2> QED BY <2>5, <2>8, <2>9 DEF OracleGood
<1> QED BY <1>4, <1>5

LEMMA CleanPixelFound ==
  ASSUME config \in Configs, Published(config, made), files.oracle = made.oracle,
         NEW f \in Frames, NEW k \in 1..Many(config, f)
  PROVE  LET source == made.observations[f + 1][k].source
         IN /\ CleanOf(f, source) # {}
            /\ (CHOOSE p \in CleanOf(f, source) : TRUE).at = CleanAt(config, f, k)
<1> DEFINE P == made.oracle.body.pixels
           T == made.observations[f + 1]
           n == Many(config, f)
           X == CleanOf(f, T[k].source)
<1>1. PICK O : Corrupted(config, f, O, T, PixelsOf(P, f), n)
  BY PublishedWrote DEF Wrote
<1>2. /\ PixelsOf(P, f) = { PixelAt(config, f, O, i) : i \in 1..n }
      /\ T[k].source = SourceAt(config, f, k)
  BY <1>1 DEF Corrupted, Recorded
<1>3. X = { p \in PixelsOf(P, f) : p.source = SourceAt(config, f, k) }
  BY <1>2 DEF CleanOf, PixelsOf
<1>4. \A i \in 1..n : PixelAt(config, f, O, i).source = SourceAt(config, f, i)
                      /\ PixelAt(config, f, O, i).at = CleanAt(config, f, i)
  BY DEF PixelAt
<1> HIDE DEF X, T, P
<1>5. PixelAt(config, f, O, k) \in X
  BY <1>2, <1>3, <1>4
<1>6. ASSUME NEW p \in X PROVE p = PixelAt(config, f, O, k)
  <2>1. PICK i \in 1..n : p = PixelAt(config, f, O, i)
    BY <1>2, <1>3
  <2>2. SourceAt(config, f, i) = SourceAt(config, f, k)
    BY <1>3, <1>4, <2>1
  <2>3. i = k
    BY <2>2, SourcesDiffer
  <2> QED BY <2>1, <2>3
<1>7. (CHOOSE p \in X : TRUE) = PixelAt(config, f, O, k)
  BY <1>5, <1>6
<1> QED BY <1>4, <1>5, <1>7 DEF X, T

-----------------------------------------------------------------------------
(* An edited fixture                                                       *)

LEMMA EditsStay ==
  ASSUME NEW S, NEW a \in Seq(S), Len(a) > 0,
         \A x \in S : [x EXCEPT !.source = @ + 1] \in S,
         NEW e \in Edits(a)
  PROVE  e \in Seq(S)
<1>1. Len(a) \in Nat /\ \A i \in 1..Len(a) : a[i] \in S
  OBVIOUS
<1>2. CASE e = Reverse(a)
  BY <1>1, <1>2 DEF Reverse
<1>3. CASE e = Front(a)
  BY <1>1, <1>3 DEF Front
<1>4. CASE e = Append(a, Head(a))
  BY <1>1, <1>4
<1>5. CASE e = [a EXCEPT ![1].source = @ + 1]
  <2>1. [a[1] EXCEPT !.source = @ + 1] \in S
    BY <1>1
  <2> DEFINE y == [a[1] EXCEPT !.source = @ + 1]
  <2>2. e = [a EXCEPT ![1] = y]
    BY <1>5
  <2> HIDE DEF y
  <2> QED BY <1>1, <2>1, <2>2 DEF y
<1> QED BY <1>2, <1>3, <1>4, <1>5 DEF Edits

LEMMA RecordsKeepTheirKind ==
  /\ \A x \in Point : [x EXCEPT !.source = @ + 1] \in Point
  /\ \A x \in Target : [x EXCEPT !.source = @ + 1] \in Target
  BY DEF Point, Target

\* Three files of records of S.
Three(X, S) == DOMAIN X = 1..3 /\ \A i \in 1..3 : X[i] \in Seq(S)

LEMMA OneReplaced ==
  ASSUME NEW S, NEW X, Three(X, S), NEW i \in 1..3, NEW e \in Seq(S)
  PROVE  Three([X EXCEPT ![i] = e], S)
<1> DEFINE Y == [X EXCEPT ![i] = e]
           Q == Seq(S)
<1>1. DOMAIN X = 1..3 /\ (\A j \in 1..3 : X[j] \in Q) /\ e \in Q
  BY DEF Three
<1> HIDE DEF Q
<1>2. DOMAIN Y = 1..3 /\ \A j \in 1..3 : Y[j] \in Q
  BY <1>1
<1> QED BY <1>2 DEF Three, Q

LEMMA TwoExchanged ==
  ASSUME NEW S, NEW X, Three(X, S)
  PROVE  Three(<<X[2], X[1], X[3]>>, S)
<1>1. X[1] \in Seq(S) /\ X[2] \in Seq(S) /\ X[3] \in Seq(S)
  BY DEF Three
<1> QED BY <1>1 DEF Three

\* What one edit can make of the fixture m: no identity follows it.
Edited(m, F) ==
  /\ Three(F.points, Point) /\ Three(F.observations, Target)
  /\ F.manifest = [frames |-> F.manifest.frames, identity |-> m.manifest.identity]
  /\ F.oracle = [body |-> F.oracle.body, identity |-> m.oracle.identity]

LEMMA EditedInOneFile ==
  ASSUME NEW m, NEW p, NEW o, NEW a, NEW b,
         m = [points |-> p, observations |-> o, manifest |-> a, oracle |-> b],
         Edited(m, m), NEW F, NEW X, NEW kind \in {"points", "observations", "manifest", "oracle"},
         F = [m EXCEPT ![kind] = X],
         kind = "points" => Three(X, Point),
         kind = "observations" => Three(X, Target),
         kind = "manifest" => X = [frames |-> X.frames, identity |-> a.identity],
         kind = "oracle" => X = [body |-> X.body, identity |-> b.identity]
  PROVE  Edited(m, F)
<1>1. m.points = p /\ m.observations = o /\ m.manifest = a /\ m.oracle = b
  OBVIOUS
<1>2. /\ Three(p, Point) /\ Three(o, Target)
      /\ a = [frames |-> a.frames, identity |-> a.identity]
      /\ b = [body |-> b.body, identity |-> b.identity]
  BY <1>1 DEF Edited
<1>3. CASE kind = "points"
  <2>1. F.points = X /\ F.observations = o /\ F.manifest = a /\ F.oracle = b
    BY <1>3
  <2> QED BY <1>1, <1>2, <1>3, <2>1 DEF Edited
<1>4. CASE kind = "observations"
  <2>1. F.points = p /\ F.observations = X /\ F.manifest = a /\ F.oracle = b
    BY <1>4
  <2> QED BY <1>1, <1>2, <1>4, <2>1 DEF Edited
<1>5. CASE kind = "manifest"
  <2>1. F.points = p /\ F.observations = o /\ F.manifest = X /\ F.oracle = b
    BY <1>5
  <2> QED BY <1>1, <1>2, <1>5, <2>1 DEF Edited
<1>6. CASE kind = "oracle"
  <2>1. F.points = p /\ F.observations = o /\ F.manifest = a /\ F.oracle = X
    BY <1>6
  <2> QED BY <1>1, <1>2, <1>6, <2>1 DEF Edited
<1> QED BY <1>3, <1>4, <1>5, <1>6

LEMMA MadeIsEdited ==
  ASSUME NEW c \in Configs, NEW m, Published(c, m)
  PROVE  /\ Edited(m, m)
         /\ \A i \in 1..3 : Len(m.points[i]) > 0 /\ Len(m.observations[i]) > 0
<1>1. /\ m.points \in Seq(Seq(Point)) /\ Len(m.points) = 3
      /\ m.observations \in Seq(Seq(Target)) /\ Len(m.observations) = 3
  BY DEF Published, Filed
<1>2. ASSUME NEW S, NEW X \in Seq(Seq(S)), Len(X) = 3
      PROVE  Three(X, S)
  <2> DEFINE Q == Seq(S)
  <2>1. X \in Seq(Q)
    BY <1>2
  <2> HIDE DEF Q
  <2>2. DOMAIN X = 1..Len(X) /\ \A i \in 1..Len(X) : X[i] \in Q
    BY <2>1
  <2> QED BY <1>2, <2>2 DEF Three, Q
<1>3. Three(m.points, Point) /\ Three(m.observations, Target)
  BY <1>1, <1>2
<1> DEFINE M == m.manifest.frames
           X == [fixture |-> M, hidden |-> c.hidden, pixels |-> m.oracle.body.pixels]
<1>4. m.manifest = [frames |-> M, identity |-> M] /\ m.oracle = [body |-> X, identity |-> X]
  BY DEF Published
<1> HIDE DEF X, M
<1>5. m.manifest.identity = M /\ m.oracle.identity = X /\ m.oracle.body = X /\ m.manifest.frames = M
  BY <1>4
<1>6. /\ m.manifest = [frames |-> m.manifest.frames, identity |-> m.manifest.identity]
      /\ m.oracle = [body |-> m.oracle.body, identity |-> m.oracle.identity]
  BY <1>4, <1>5
<1>7. ASSUME NEW i \in 1..3 PROVE Len(m.points[i]) > 0 /\ Len(m.observations[i]) > 0
  <2>1. i - 1 \in Frames /\ (i - 1) + 1 = i
    BY DEF Frames
  <2>2. Wrote(c, m, i - 1)
    BY <2>1, PublishedWrote
  <2> QED BY <2>1, <2>2 DEF Wrote
<1> QED BY <1>3, <1>6, <1>7 DEF Edited

LEMMA EditIsOne ==
  ASSUME config \in Configs, Published(config, made), files = made, Edit
  PROVE  Edited(made, files')
<1> DEFINE m == made
           p == made.points
           o == made.observations
           a == made.manifest
           b == made.oracle
<1>1. m = [points |-> p, observations |-> o, manifest |-> a, oracle |-> b]
  BY DEF Published
<1>2. Edited(m, m) /\ \A i \in 1..3 : Len(p[i]) > 0 /\ Len(o[i]) > 0
  BY MadeIsEdited
<1>3. /\ Three(p, Point) /\ Three(o, Target)
      /\ a = [frames |-> a.frames, identity |-> a.identity]
      /\ b = [body |-> b.body, identity |-> b.identity]
  BY <1>2 DEF Edited
<1>4. \/ files' = m
      \/ \E i \in 1..3 : \E e \in Edits(p[i]) : files' = [m EXCEPT !.points[i] = e]
      \/ \E i \in 1..3 : \E e \in Edits(o[i]) : files' = [m EXCEPT !.observations[i] = e]
      \/ files' = [m EXCEPT !.observations = <<@[2], @[1], @[3]>>]
      \/ \E e \in Edits(b.body.pixels) : files' = [m EXCEPT !.oracle.body.pixels = e]
      \/ files' = [m EXCEPT !.oracle.body.pixels[1].training_outlier = ~@]
      \/ files' = [m EXCEPT !.manifest.frames[1].outlier_count = @ + 1]
  <2> DEFINE Spoiled(i) == { [files EXCEPT !.points[i] = e] : e \in Edits(files.points[i]) }
             Moved(i) == { [files EXCEPT !.observations[i] = e] : e \in Edits(files.observations[i]) }
             Swapped == [files EXCEPT !.observations = <<@[2], @[1], @[3]>>]
             Painted == { [files EXCEPT !.oracle.body.pixels = e] : e \in Edits(files.oracle.body.pixels) }
             Relabelled == [files EXCEPT !.oracle.body.pixels[1].training_outlier = ~@]
             Recounted == [files EXCEPT !.manifest.frames[1].outlier_count = @ + 1]
             A == UNION { Spoiled(i) : i \in 1..3 }
             B == UNION { Moved(i) : i \in 1..3 }
  <2>1. files' \in {files} \cup A \cup B \cup {Swapped} \cup Painted \cup {Relabelled} \cup {Recounted}
    BY DEF Edit
  <2> HIDE DEF Spoiled, Moved, Swapped, Painted, Relabelled, Recounted
  <2>2. \/ files' = files \/ (\E i \in 1..3 : files' \in Spoiled(i))
        \/ (\E i \in 1..3 : files' \in Moved(i)) \/ files' = Swapped
        \/ files' \in Painted \/ files' = Relabelled \/ files' = Recounted
    <3>1. files' \in A => \E i \in 1..3 : files' \in Spoiled(i)
      BY Zenon
    <3>2. files' \in B => \E i \in 1..3 : files' \in Moved(i)
      BY Zenon
    <3> HIDE DEF A, B
    <3>3. \/ files' = files \/ files' \in A \/ files' \in B \/ files' = Swapped
          \/ files' \in Painted \/ files' = Relabelled \/ files' = Recounted
      BY <2>1, Zenon
    <3> QED BY <3>1, <3>2, <3>3, Zenon
  <2> USE DEF Spoiled, Moved, Swapped, Painted, Relabelled, Recounted
  <2>3. \A i : files' \in Spoiled(i) =>
          \E e \in Edits(files.points[i]) : files' = [files EXCEPT !.points[i] = e]
    OBVIOUS
  <2>4. \A i : files' \in Moved(i) =>
          \E e \in Edits(files.observations[i]) : files' = [files EXCEPT !.observations[i] = e]
    OBVIOUS
  <2>5. files' \in Painted =>
          \E e \in Edits(files.oracle.body.pixels) : files' = [files EXCEPT !.oracle.body.pixels = e]
    OBVIOUS
  <2> QED BY <2>2, <2>3, <2>4, <2>5
<1> HIDE DEF m, p, o, a, b
<1>5. /\ m.points = p /\ m.observations = o /\ m.manifest = a /\ m.oracle = b
  BY <1>1
<1> SUFFICES Edited(m, files')
  BY DEF m
<1>6. CASE files' = m
  BY <1>2, <1>6
<1>7. ASSUME NEW i \in 1..3, NEW e \in Edits(p[i]), files' = [m EXCEPT !.points[i] = e]
      PROVE  Edited(m, files')
  <2> DEFINE X == [p EXCEPT ![i] = e]
  <2>1. files' = [m EXCEPT !["points"] = X]
    BY <1>5, <1>7
  <2>2. e \in Seq(Point)
    BY <1>2, <1>3, EditsStay, RecordsKeepTheirKind DEF Three
  <2>3. Three(X, Point)
    BY <1>3, <2>2, OneReplaced
  <2> HIDE DEF X
  <2> QED BY <1>1, <1>2, <2>1, <2>3, EditedInOneFile
<1>8. ASSUME NEW i \in 1..3, NEW e \in Edits(o[i]), files' = [m EXCEPT !.observations[i] = e]
      PROVE  Edited(m, files')
  <2> DEFINE X == [o EXCEPT ![i] = e]
  <2>1. files' = [m EXCEPT !["observations"] = X]
    BY <1>5, <1>8
  <2>2. e \in Seq(Target)
    BY <1>2, <1>3, EditsStay, RecordsKeepTheirKind DEF Three
  <2>3. Three(X, Target)
    BY <1>3, <2>2, OneReplaced
  <2> HIDE DEF X
  <2> QED BY <1>1, <1>2, <2>1, <2>3, EditedInOneFile
<1>9. CASE files' = [m EXCEPT !.observations = <<@[2], @[1], @[3]>>]
  <2> DEFINE X == <<o[2], o[1], o[3]>>
  <2>1. files' = [m EXCEPT !["observations"] = X]
    BY <1>5, <1>9
  <2>2. Three(X, Target)
    BY <1>3, TwoExchanged
  <2> HIDE DEF X
  <2> QED BY <1>1, <1>2, <2>1, <2>2, EditedInOneFile
<1>10. ASSUME NEW e, files' = [m EXCEPT !.oracle.body.pixels = e]
       PROVE  Edited(m, files')
  <2> DEFINE B == [b.body EXCEPT !.pixels = e]
             X == [b EXCEPT !.body = B]
  <2>1. files' = [m EXCEPT !["oracle"] = X]
    BY <1>5, <1>10
  <2> HIDE DEF B
  <2>2. X = [body |-> X.body, identity |-> b.identity]
    BY <1>3
  <2> HIDE DEF X
  <2> QED BY <1>1, <1>2, <2>1, <2>2, EditedInOneFile
<1>11. CASE files' = [m EXCEPT !.oracle.body.pixels[1].training_outlier = ~@]
  <2> DEFINE e == [b.body.pixels EXCEPT ![1].training_outlier = ~@]
  <2>1. files' = [m EXCEPT !.oracle.body.pixels = e]
    BY <1>5, <1>11
  <2> QED BY <1>10, <2>1
<1>12. CASE files' = [m EXCEPT !.manifest.frames[1].outlier_count = @ + 1]
  <2> DEFINE M == [a.frames EXCEPT ![1].outlier_count = @ + 1]
             X == [a EXCEPT !.frames = M]
  <2>1. files' = [m EXCEPT !["manifest"] = X]
    BY <1>5, <1>12
  <2> HIDE DEF M
  <2>2. X = [frames |-> X.frames, identity |-> a.identity]
    BY <1>3
  <2> HIDE DEF X
  <2> QED BY <1>1, <1>2, <2>1, <2>2, EditedInOneFile
<1> QED BY <1>4, <1>6, <1>7, <1>8, <1>9, <1>10, <1>11, <1>12

-----------------------------------------------------------------------------
(* The loaders                                                             *)

Loading == {"manifest", "split", "training", "oracle", "held_out", "clean"}

\* The frames that have been read, when n are intact.
Entries(c, m, n) == [i \in 1..n |-> <<i - 1, Reading(c, i - 1, m.observations[i])>>]

Harmless(F, m) ==
  /\ F.manifest = m.manifest /\ F.oracle = m.oracle
  /\ \A f \in Frames : Intact(F, m, f)

\* What the loaders hand on.
Handed(c, m) ==
  [i \in 1..3 |->
     <<i - 1, [k \in 1..Many(c, i - 1) |->
                 [source |-> m.observations[i][k].source, point |-> Scene(i - 1)[VisibleOf(c, i - 1)[k]],
                  at |-> m.observations[i][k].at, clean |-> CleanAt(c, i - 1, k)]]>>]

\* What the loaders know at each phase.
Known ==
  /\ phase \in {"edit"} \cup Loading => Published(config, made)
  /\ phase = "edit" => files = made
  /\ phase \in Loading => Edited(made, files)
  /\ phase \in Loading \ {"manifest"} => files.manifest = made.manifest
  /\ phase \in {"oracle", "held_out", "clean"} =>
       Intact(files, made, 0) /\ Intact(files, made, 1)
  /\ phase \in {"held_out", "clean"} => files.oracle = made.oracle
  /\ phase = "clean" => Intact(files, made, 2)
  /\ read = CASE phase = "clean" -> Entries(config, made, 3)
              [] phase \in {"oracle", "held_out"} -> Entries(config, made, 2)
              [] phase = "done" -> read
              [] OTHER -> <<>>

Verdict ==
  /\ outcome = "refused" => ~Harmless(files, made)
  /\ outcome = "accepted" => Harmless(files, made) /\ read = Handed(config, made)

IInv ==
  /\ config \in Configs
  /\ phase \in {"frame", "target", "edit", "done"} \cup Loading
  /\ outcome \in {"running", "malformed", "refused", "accepted"}
  /\ outcome = "running" <=> phase # "done"
  /\ Generating
  /\ made # None => Published(config, made)
  /\ outcome = "accepted" => Published(config, made)
  /\ Known /\ Verdict

LEMMA FilesRead ==
  ASSUME IInv, phase \in Loading, NEW f \in Frames
  PROVE  files.points[f + 1] \in Seq(Point) /\ files.observations[f + 1] \in Seq(Target)
<1>1. Edited(made, files) /\ f + 1 \in 1..3
  BY DEF IInv, Known, Frames
<1> QED BY <1>1 DEF Edited, Three

\* A step that only stops.
LEMMA Stopped ==
  ASSUME IInv, NEW how \in {"malformed", "refused"}, Stop(how),
         how = "refused" => ~Harmless(files, made)
  PROVE  IInv'
<1>1. /\ outcome' = how /\ phase' = "done"
      /\ config' = config /\ made' = made /\ files' = files /\ read' = read
  BY DEF Stop
<1>2. Generating'
  BY <1>1 DEF Generating
<1>3. Known'
  BY <1>1 DEF Known, Loading
<1>4. Verdict'
  BY <1>1 DEF Verdict
<1> QED BY <1>1, <1>2, <1>3, <1>4 DEF IInv

LEMMA ManifestRead ==
  ASSUME IInv, ReadManifest
  PROVE  IInv'
<1>1. phase = "manifest" /\ read' = read
  BY DEF ReadManifest, Check
<1>2. config \in Configs /\ Published(config, made) /\ Edited(made, files) /\ read = <<>>
  BY <1>1 DEF IInv, Known, Loading
<1>3. ManifestGood <=> files.manifest = made.manifest
  BY <1>2, ManifestAccepted DEF Edited
<1>4. CASE ManifestGood
  <2>1. /\ phase' = "split" /\ config' = config /\ made' = made /\ files' = files /\ outcome' = outcome
    BY <1>4 DEF ReadManifest, Check
  <2>2. Generating'
    BY <2>1 DEF Generating
  <2>3. Known'
    BY <1>1, <1>2, <1>3, <1>4, <2>1 DEF Known, Loading
  <2>4. outcome = "running"
    BY <1>1 DEF IInv
  <2>5. Verdict'
    BY <2>1, <2>4 DEF Verdict
  <2> QED BY <1>1, <2>1, <2>2, <2>3, <2>4, <2>5 DEF IInv, Loading
<1>5. CASE ~ManifestGood
  <2>1. Stop("refused")
    BY <1>5 DEF ReadManifest, Check
  <2> QED BY <1>3, <1>5, <2>1, Stopped DEF Harmless
<1> QED BY <1>4, <1>5

LEMMA SplitChecked ==
  ASSUME IInv, CheckSplit
  PROVE  IInv'
<1>1. phase = "split" /\ read' = read
  BY DEF CheckSplit, Check
<1>2. /\ config \in Configs /\ Published(config, made) /\ Edited(made, files) /\ read = <<>>
      /\ files.manifest = made.manifest
  BY <1>1 DEF IInv, Known, Loading
<1>3. SplitGood
  BY <1>2, SplitAccepted
<1>4. /\ phase' = "training" /\ config' = config /\ made' = made /\ files' = files
      /\ outcome' = outcome
  BY <1>3 DEF CheckSplit, Check
<1>5. Generating'
  BY <1>4 DEF Generating
<1>6. Known'
  BY <1>1, <1>2, <1>4 DEF Known, Loading
<1>7. outcome = "running"
  BY <1>1 DEF IInv
<1>8. Verdict'
  BY <1>4, <1>7 DEF Verdict
<1> QED BY <1>1, <1>4, <1>5, <1>6, <1>7, <1>8 DEF IInv, Loading

LEMMA OracleRead ==
  ASSUME IInv, ReadOracle
  PROVE  IInv'
<1>1. phase = "oracle" /\ read' = read
  BY DEF ReadOracle, Check
<1>2. /\ config \in Configs /\ Published(config, made) /\ Edited(made, files)
      /\ files.manifest = made.manifest /\ Intact(files, made, 0) /\ Intact(files, made, 1)
      /\ read = Entries(config, made, 2)
  BY <1>1 DEF IInv, Known, Loading
<1>3. OracleGood <=> files.oracle = made.oracle
  BY <1>2, OracleAccepted DEF Edited
<1>4. CASE OracleGood
  <2>1. /\ phase' = "held_out" /\ config' = config /\ made' = made /\ files' = files
        /\ outcome' = outcome
    BY <1>4 DEF ReadOracle, Check
  <2>2. Generating'
    BY <2>1 DEF Generating
  <2>3. Known'
    BY <1>1, <1>2, <1>3, <1>4, <2>1 DEF Known, Loading
  <2>4. outcome = "running"
    BY <1>1 DEF IInv
  <2>5. Verdict'
    BY <2>1, <2>4 DEF Verdict
  <2> QED BY <1>1, <2>1, <2>2, <2>3, <2>4, <2>5 DEF IInv, Loading
<1>5. CASE ~OracleGood
  <2>1. Stop("refused")
    BY <1>5 DEF ReadOracle, Check
  <2> QED BY <1>3, <1>5, <2>1, Stopped DEF Harmless
<1> QED BY <1>4, <1>5

LEMMA PairListed ==
  ASSUME NEW A
  PROVE  [i \in 1..2 |-> A[i]] = <<A[1], A[2]>>
<1> DEFINE X == [i \in 1..2 |-> A[i]]
           Y == <<A[1], A[2]>>
<1>1. DOMAIN X = 1..2 /\ DOMAIN Y = 1..2 /\ X[1] = Y[1] /\ X[2] = Y[2]
  OBVIOUS
<1>2. X = [i \in 1..2 |-> X[i]] /\ Y = [i \in 1..2 |-> Y[i]]
  OBVIOUS
<1> HIDE DEF X, Y
<1>3. \A i \in 1..2 : X[i] = Y[i]
  BY <1>1
<1>4. X = Y
  BY <1>2, <1>3
<1> QED BY <1>4 DEF X, Y

LEMMA TripleListed ==
  ASSUME NEW A
  PROVE  [i \in 1..3 |-> A[i]] = <<A[1], A[2], A[3]>>
<1> DEFINE X == [i \in 1..3 |-> A[i]]
           Y == <<A[1], A[2], A[3]>>
<1>1. DOMAIN X = 1..3 /\ DOMAIN Y = 1..3 /\ X[1] = Y[1] /\ X[2] = Y[2] /\ X[3] = Y[3]
  OBVIOUS
<1>2. X = [i \in 1..3 |-> X[i]] /\ Y = [i \in 1..3 |-> Y[i]]
  OBVIOUS
<1> HIDE DEF X, Y
<1>3. \A i \in 1..3 : X[i] = Y[i]
  BY <1>1
<1>4. X = Y
  BY <1>2, <1>3
<1> QED BY <1>4 DEF X, Y

LEMMA OneMoreListed ==
  ASSUME NEW a, NEW b, NEW x
  PROVE  <<a, b>> \o <<x>> = <<a, b, x>>
<1> DEFINE U == {a, b, x}
           P == <<a, b>>
           R == <<x>>
           C == P \o R
<1>1. P \in Seq(U) /\ Len(P) = 2 /\ P[1] = a /\ P[2] = b
  OBVIOUS
<1>2. R \in Seq(U) /\ Len(R) = 1 /\ R[1] = x
  OBVIOUS
<1> HIDE DEF P, R, U
<1>3. C \in Seq(U) /\ Len(C) = 3 /\ C[1] = a /\ C[2] = b /\ C[3] = x
  <2>1. /\ C \in Seq(U) /\ Len(C) = Len(P) + Len(R)
        /\ \A i \in 1..(Len(P) + Len(R)) : C[i] = IF i <= Len(P) THEN P[i] ELSE R[i - Len(P)]
    BY <1>1, <1>2, ConcatProperties
  <2> HIDE DEF C
  <2> QED BY <1>1, <1>2, <2>1
<1> HIDE DEF C
<1>4. C = [i \in 1..3 |-> C[i]]
  BY <1>3
<1>5. C = <<C[1], C[2], C[3]>>
  BY <1>4, TripleListed
<1> QED BY <1>3, <1>5 DEF C, P, R

LEMMA TrainingRead ==
  ASSUME IInv, ReadTraining
  PROVE  IInv'
<1> DEFINE fs == <<0, 1>>
<1>1. /\ phase = "training"
      /\ Check("training", \A i \in DOMAIN fs : FrameGood(fs[i]), "oracle")
      /\ read' = IF outcome' = "refused" THEN read
                 ELSE read \o [i \in DOMAIN fs |-> <<fs[i], FrameRead(fs[i])>>]
  BY DEF ReadTraining, ReadFrames, Check
<1>2. /\ config \in Configs /\ Published(config, made) /\ Edited(made, files) /\ read = <<>>
      /\ files.manifest = made.manifest /\ outcome = "running"
  BY <1>1 DEF IInv, Known, Loading
<1>3. ASSUME NEW f \in Frames
      PROVE  /\ FrameGood(f) <=> Intact(files, made, f)
             /\ Intact(files, made, f) => FrameRead(f) = Reading(config, f, made.observations[f + 1])
  <2>1. files.points[f + 1] \in Seq(Point) /\ files.observations[f + 1] \in Seq(Target)
    BY <1>1, FilesRead DEF Loading
  <2> QED BY <1>2, <2>1, FrameAccepted, IntactIsRead
<1>4. DOMAIN fs = 1..2 /\ fs[1] = 0 /\ fs[2] = 1 /\ 0 \in Frames /\ 1 \in Frames
  BY DEF Frames
<1>5. (\A i \in DOMAIN fs : FrameGood(fs[i])) <=> FrameGood(0) /\ FrameGood(1)
  <2> HIDE DEF fs
  <2> QED BY <1>4
<1>6. CASE FrameGood(0) /\ FrameGood(1)
  <2>1. /\ phase' = "oracle" /\ config' = config /\ made' = made /\ files' = files
        /\ outcome' = outcome
    BY <1>1, <1>5, <1>6 DEF Check
  <2>2. Generating'
    BY <2>1 DEF Generating
  <2>3. read' = Entries(config, made, 2)
    <3>1. read' = <<>> \o [i \in DOMAIN fs |-> <<fs[i], FrameRead(fs[i])>>]
      BY <1>1, <1>2, <2>1
    <3> DEFINE Q == [i \in DOMAIN fs |-> <<fs[i], FrameRead(fs[i])>>]
    <3> HIDE DEF fs
    <3>2. Q = [i \in 1..2 |-> <<fs[i], FrameRead(fs[i])>>]
      BY <1>4
    <3>3. Q = Entries(config, made, 2)
      <4>1. \A i \in 1..2 : fs[i] = i - 1
        BY <1>4
      <4>2. ASSUME NEW i \in 1..2 PROVE FrameRead(fs[i]) = Reading(config, i - 1, made.observations[i])
        <5>1. i - 1 \in Frames /\ (i - 1) + 1 = i /\ FrameGood(i - 1)
          BY <1>4, <1>6 DEF Frames
        <5> QED BY <1>3, <4>1, <5>1
      <4> QED BY <3>2, <4>1, <4>2 DEF Entries
    <3>4. <<>> \o Q = Q
      <4>1. Q \in Seq({ Q[i] : i \in 1..2 })
        BY <3>2
      <4> HIDE DEF Q
      <4> QED BY <4>1
    <3> QED BY <3>1, <3>3, <3>4
  <2>4. Intact(files, made, 0) /\ Intact(files, made, 1)
    BY <1>3, <1>4, <1>6
  <2>5. Known'
    BY <1>1, <1>2, <2>1, <2>3, <2>4 DEF Known, Loading
  <2>6. Verdict'
    BY <1>2, <2>1 DEF Verdict
  <2> QED BY <1>1, <1>2, <2>1, <2>2, <2>5, <2>6 DEF IInv, Loading
<1>7. CASE ~(FrameGood(0) /\ FrameGood(1))
  <2>1. Stop("refused")
    BY <1>1, <1>5, <1>7 DEF Check
  <2>2. ~Harmless(files, made)
    BY <1>3, <1>4, <1>7 DEF Harmless
  <2> QED BY <2>1, <2>2, Stopped
<1> QED BY <1>6, <1>7

LEMMA HeldOutRead ==
  ASSUME IInv, ReadHeldOut
  PROVE  IInv'
<1> DEFINE fs == <<2>>
<1>1. /\ phase = "held_out"
      /\ Check("held_out", \A i \in DOMAIN fs : FrameGood(fs[i]), "clean")
      /\ read' = IF outcome' = "refused" THEN read
                 ELSE read \o [i \in DOMAIN fs |-> <<fs[i], FrameRead(fs[i])>>]
  BY DEF ReadHeldOut, ReadFrames, Check
<1>2. /\ config \in Configs /\ Published(config, made) /\ Edited(made, files)
      /\ read = Entries(config, made, 2)
      /\ files.manifest = made.manifest /\ outcome = "running" /\ files.oracle = made.oracle
      /\ Intact(files, made, 0) /\ Intact(files, made, 1)
  BY <1>1 DEF IInv, Known, Loading
<1>3. ASSUME NEW f \in Frames
      PROVE  /\ FrameGood(f) <=> Intact(files, made, f)
             /\ Intact(files, made, f) => FrameRead(f) = Reading(config, f, made.observations[f + 1])
  <2>1. files.points[f + 1] \in Seq(Point) /\ files.observations[f + 1] \in Seq(Target)
    BY <1>1, FilesRead DEF Loading
  <2> QED BY <1>2, <2>1, FrameAccepted, IntactIsRead
<1>4. DOMAIN fs = 1..1 /\ fs[1] = 2 /\ 2 \in Frames
  BY DEF Frames
<1>5. (\A i \in DOMAIN fs : FrameGood(fs[i])) <=> FrameGood(2)
  <2> HIDE DEF fs
  <2> QED BY <1>4
<1>6. CASE FrameGood(2)
  <2>1. /\ phase' = "clean" /\ config' = config /\ made' = made /\ files' = files
        /\ outcome' = outcome
    BY <1>1, <1>5, <1>6 DEF Check
  <2>2. Generating'
    BY <2>1 DEF Generating
  <2>3. Intact(files, made, 2)
    BY <1>3, <1>4, <1>6
  <2>4. read' = Entries(config, made, 3)
    <3> DEFINE A == Entries(config, made, 2)
               Q == [i \in DOMAIN fs |-> <<fs[i], FrameRead(fs[i])>>]
               B == Entries(config, made, 3)
               x == <<2, Reading(config, 2, made.observations[3])>>
    <3>1. read' = A \o Q
      BY <1>1, <1>2, <2>1
    <3>2. FrameRead(2) = Reading(config, 2, made.observations[3])
      <4>1. 2 + 1 = 3
        OBVIOUS
      <4> QED BY <1>3, <1>4, <2>3, <4>1
    <3>3. Q = <<x>>
      <4>1. FrameRead(fs[1]) = Reading(config, 2, made.observations[3])
        BY <1>4, <3>2
      <4> HIDE DEF fs
      <4>2. Q = [i \in 1..1 |-> <<fs[i], FrameRead(fs[i])>>]
        BY <1>4
      <4> QED BY <1>4, <4>1, <4>2
    <3>4. A = [i \in 1..2 |-> <<i - 1, Reading(config, i - 1, made.observations[i])>>]
      BY DEF Entries
    <3>5. B = [i \in 1..3 |-> <<i - 1, Reading(config, i - 1, made.observations[i])>>]
      BY DEF Entries
    <3>6. DOMAIN A = 1..2 /\ DOMAIN B = 1..3 /\ A[1] = B[1] /\ A[2] = B[2] /\ B[3] = x
      BY <3>4, <3>5
    <3>7. A = <<B[1], B[2]>> /\ B = <<B[1], B[2], B[3]>>
      <4>1. A = [i \in 1..2 |-> A[i]] /\ B = [i \in 1..3 |-> B[i]]
        BY <3>4, <3>5
      <4> HIDE DEF A, B
      <4>2. [i \in 1..2 |-> A[i]] = <<A[1], A[2]>> /\ [i \in 1..3 |-> B[i]] = <<B[1], B[2], B[3]>>
        BY PairListed, TripleListed
      <4> QED BY <3>6, <4>1, <4>2
    <3> HIDE DEF A, B, Q, x
    <3>8. <<B[1], B[2]>> \o <<x>> = <<B[1], B[2], x>>
      BY OneMoreListed
    <3>9. A \o Q = B
      BY <3>3, <3>6, <3>7, <3>8
    <3> QED BY <3>1, <3>9 DEF B
  <2>5. Known'
    BY <1>1, <1>2, <2>1, <2>3, <2>4 DEF Known, Loading
  <2>6. Verdict'
    BY <1>2, <2>1 DEF Verdict
  <2> QED BY <1>1, <1>2, <2>1, <2>2, <2>5, <2>6 DEF IInv, Loading
<1>7. CASE ~FrameGood(2)
  <2>1. Stop("refused")
    BY <1>1, <1>5, <1>7 DEF Check
  <2>2. ~Harmless(files, made)
    BY <1>3, <1>4, <1>7 DEF Harmless
  <2> QED BY <2>1, <2>2, Stopped
<1> QED BY <1>6, <1>7

LEMMA CleanAdded ==
  ASSUME IInv, Clean
  PROVE  IInv'
<1> DEFINE n(i) == Many(config, i - 1)
           T(i) == made.observations[i]
           R(i) == Reading(config, i - 1, T(i))
           Found(f, s) == (CHOOSE p \in CleanOf(f, s) : TRUE).at
<1>1. phase = "clean"
  BY DEF Clean
<1>2. /\ config \in Configs /\ Published(config, made)
      /\ files.manifest = made.manifest /\ files.oracle = made.oracle
      /\ Intact(files, made, 0) /\ Intact(files, made, 1) /\ Intact(files, made, 2)
      /\ read = Entries(config, made, 3)
  BY <1>1 DEF IInv, Known, Loading
<1>3. DOMAIN read = 1..3 /\ \A i \in 1..3 : read[i] = <<i - 1, R(i)>>
  <2> HIDE DEF T
  <2>1. read = [i \in 1..3 |-> <<i - 1, R(i)>>]
    BY <1>2 DEF Entries, T
  <2> HIDE DEF R
  <2> QED BY <2>1
<1>4. \A i \in 1..3 : read[i][1] = i - 1 /\ read[i][2] = R(i)
  <2> HIDE DEF R
  <2> QED BY <1>3
<1>5. ASSUME NEW i \in 1..3
      PROVE  /\ DOMAIN R(i) = 1..n(i)
             /\ \A k \in 1..n(i) :
                  /\ R(i)[k].source = T(i)[k].source /\ R(i)[k].at = T(i)[k].at
                  /\ R(i)[k].point = Scene(i - 1)[VisibleOf(config, i - 1)[k]]
  <2>1. R(i) = [k \in 1..n(i) |-> [source |-> T(i)[k].source, at |-> T(i)[k].at,
                                   point |-> Scene(i - 1)[VisibleOf(config, i - 1)[k]]]]
    BY DEF Reading
  <2> HIDE DEF R, T, n
  <2>2. DOMAIN R(i) = 1..n(i)
    BY <2>1
  <2>3. ASSUME NEW k \in 1..n(i)
        PROVE  /\ R(i)[k].source = T(i)[k].source /\ R(i)[k].at = T(i)[k].at
               /\ R(i)[k].point = Scene(i - 1)[VisibleOf(config, i - 1)[k]]
    <3>1. R(i)[k] = [source |-> T(i)[k].source, at |-> T(i)[k].at,
                     point |-> Scene(i - 1)[VisibleOf(config, i - 1)[k]]]
      BY <2>1
    <3> QED BY <3>1
  <2> QED BY <2>2, <2>3
<1>6. ASSUME NEW i \in 1..3, NEW k \in 1..n(i)
      PROVE  /\ CleanOf(i - 1, T(i)[k].source) # {}
             /\ Found(i - 1, T(i)[k].source) = CleanAt(config, i - 1, k)
  <2>1. i - 1 \in Frames /\ (i - 1) + 1 = i
    BY DEF Frames
  <2> QED BY <1>2, <2>1, CleanPixelFound
<1>7. \A i \in DOMAIN read : \A k \in DOMAIN read[i][2] :
        CleanOf(read[i][1], read[i][2][k].source) # {}
  <2> HIDE DEF R, T, n
  <2>1. ASSUME NEW i \in 1..3, NEW k \in DOMAIN read[i][2]
        PROVE  CleanOf(read[i][1], read[i][2][k].source) # {}
    <3>1. read[i][2] = R(i) /\ read[i][1] = i - 1 /\ k \in 1..n(i)
      BY <1>4, <1>5, <2>1
    <3>2. read[i][2][k].source = T(i)[k].source
      BY <1>5, <3>1
    <3> QED BY <1>6, <3>1, <3>2
  <2> QED BY <1>3, <2>1
<1>8. /\ read' = [i \in DOMAIN read |->
           <<read[i][1],
             [k \in DOMAIN read[i][2] |->
                [source |-> read[i][2][k].source, point |-> read[i][2][k].point,
                 at |-> read[i][2][k].at,
                 clean |-> Found(read[i][1], read[i][2][k].source)]]>>]
      /\ outcome' = "accepted" /\ phase' = "done"
      /\ config' = config /\ files' = files /\ made' = made
  BY <1>7 DEF Clean
<1>9. read' = Handed(config, made)
  <2> DEFINE L(i) == [k \in DOMAIN read[i][2] |->
                        [source |-> read[i][2][k].source, point |-> read[i][2][k].point,
                         at |-> read[i][2][k].at,
                         clean |-> Found(read[i][1], read[i][2][k].source)]]
             H(i) == [k \in 1..n(i) |->
                        [source |-> T(i)[k].source,
                         point |-> Scene(i - 1)[VisibleOf(config, i - 1)[k]],
                         at |-> T(i)[k].at, clean |-> CleanAt(config, i - 1, k)]]
  <2> HIDE DEF R, Found
  <2>1. ASSUME NEW i \in 1..3 PROVE L(i) = H(i)
    <3> HIDE DEF T, n
    <3>1. DOMAIN read[i][2] = 1..n(i)
      BY <1>4, <1>5
    <3>2. \A k \in 1..n(i) :
            /\ read[i][2][k].source = T(i)[k].source /\ read[i][2][k].at = T(i)[k].at
            /\ read[i][2][k].point = Scene(i - 1)[VisibleOf(config, i - 1)[k]]
            /\ Found(read[i][1], read[i][2][k].source) = CleanAt(config, i - 1, k)
      BY <1>4, <1>5, <1>6
    <3> QED BY <3>1, <3>2
  <2>2. Handed(config, made) = [i \in 1..3 |-> <<i - 1, H(i)>>]
    BY DEF Handed
  <2>3. read' = [i \in DOMAIN read |-> <<read[i][1], L(i)>>]
    BY <1>8
  <2> HIDE DEF L, H
  <2> QED BY <1>3, <1>4, <2>1, <2>2, <2>3
<1>10. Harmless(files, made)
  <2>1. Frames = {0, 1, 2}
    BY DEF Frames
  <2> QED BY <1>2, <2>1 DEF Harmless
<1>11. Generating'
  BY <1>8 DEF Generating
<1>12. Known'
  BY <1>8 DEF Known, Loading
<1>13. Verdict'
  BY <1>8, <1>9, <1>10 DEF Verdict
<1> QED BY <1>2, <1>8, <1>11, <1>12, <1>13 DEF IInv

LEMMA GeneratorKeeps ==
  ASSUME IInv, BeginFrame \/ AddTarget \/ EndFrame
  PROVE  IInv'
<1>1. config \in Configs /\ Generating /\ phase \in {"frame", "target"} /\ outcome = "running"
  BY DEF IInv, BeginFrame, AddTarget, EndFrame
<1>2. config' = config /\ made' = made /\ read' = read
  BY DEF BeginFrame, AddTarget, EndFrame, Stop
<1>3. \/ phase' \in {"frame", "target"} /\ outcome' = "running"
      \/ phase' = "done" /\ outcome' = "malformed"
  BY <1>1 DEF BeginFrame, AddTarget, EndFrame, Stop
<1>4. Generating'
  BY <1>1, Begun, Added, Ended
<1>5. Known'
  BY <1>1, <1>2, <1>3 DEF IInv, Known, Loading
<1>6. Verdict'
  BY <1>3 DEF Verdict
<1> QED BY <1>1, <1>2, <1>3, <1>4, <1>5, <1>6 DEF IInv

LEMMA PublishKeeps ==
  ASSUME IInv, Publish
  PROVE  IInv'
<1>1. config \in Configs /\ Generating /\ phase = "frame" /\ outcome = "running"
  BY DEF IInv, Publish
<1>2. phase' = "edit" /\ config' = config /\ outcome' = outcome /\ read' = read
  BY DEF Publish
<1>3. Published(config', made') /\ files' = made' /\ Generating'
  BY <1>1, PublishedRight
<1>4. read = <<>>
  BY <1>1 DEF IInv, Known, Loading
<1>5. Known'
  BY <1>2, <1>3, <1>4 DEF Known, Loading
<1>6. Verdict'
  BY <1>1, <1>2 DEF Verdict
<1> QED BY <1>1, <1>2, <1>3, <1>5, <1>6 DEF IInv

LEMMA EditKeeps ==
  ASSUME IInv, Edit
  PROVE  IInv'
<1>1. config \in Configs /\ phase = "edit" /\ outcome = "running"
  BY DEF IInv, Edit
<1>2. /\ phase' = "manifest" /\ config' = config /\ outcome' = outcome /\ read' = read
      /\ made' = made
  BY DEF Edit
<1>3. Published(config, made) /\ files = made /\ read = <<>>
  BY <1>1 DEF IInv, Known, Loading
<1>4. Edited(made, files')
  BY <1>1, <1>3, EditIsOne
<1>5. Generating'
  BY <1>2 DEF Generating
<1>6. Known'
  BY <1>2, <1>3, <1>4 DEF Known, Loading
<1>7. Verdict'
  BY <1>1, <1>2 DEF Verdict
<1> QED BY <1>1, <1>2, <1>3, <1>5, <1>6, <1>7 DEF IInv, Loading

LEMMA Begins ==
  ASSUME Init
  PROVE  IInv
<1>1. /\ config \in Configs /\ phase = "frame" /\ frame = 0 /\ pixels = <<>> /\ made = None
      /\ files = [points |-> <<>>, observations |-> <<>>, manifest |-> <<>>, oracle |-> None]
      /\ read = <<>> /\ outcome = "running"
  BY DEF Init
<1>2. Generating
  <2>1. /\ files.points = <<>> /\ files.observations = <<>> /\ files.manifest = <<>>
        /\ files = [points |-> files.points, observations |-> files.observations,
                    manifest |-> files.manifest, oracle |-> None]
    BY <1>1
  <2>2. Filed(files.points, files.observations, files.manifest, 0)
    BY <2>1 DEF Filed
  <2>3. Listed(pixels) /\ UpTo(pixels, 0)
    BY <1>1 DEF Listed, UpTo
  <2>4. \A f \in 0..(0 - 1) :
          FrameDone(config, f, files.points, files.observations, files.manifest, pixels)
    OBVIOUS
  <2>5. Written(config, 0, files, pixels)
    BY <2>1, <2>2, <2>3, <2>4 DEF Written
  <2> QED BY <1>1, <2>3, <2>5 DEF Generating
<1>3. Known
  BY <1>1 DEF Known, Loading
<1>4. Verdict
  BY <1>1 DEF Verdict
<1> QED BY <1>1, <1>2, <1>3, <1>4 DEF IInv

\* The invariant holds of every reachable state.
THEOREM Invariance == Spec => []IInv
<1>1. Init => IInv
  BY Begins
<1>2. ASSUME IInv, [Next]_vars PROVE IInv'
  <2>1. CASE BeginFrame \/ AddTarget \/ EndFrame
    BY <1>2, <2>1, GeneratorKeeps
  <2>2. CASE Publish
    BY <1>2, <2>2, PublishKeeps
  <2>3. CASE Edit
    BY <1>2, <2>3, EditKeeps
  <2>4. CASE ReadManifest
    BY <1>2, <2>4, ManifestRead
  <2>5. CASE CheckSplit
    BY <1>2, <2>5, SplitChecked
  <2>6. CASE ReadTraining
    BY <1>2, <2>6, TrainingRead
  <2>7. CASE ReadOracle
    BY <1>2, <2>7, OracleRead
  <2>8. CASE ReadHeldOut
    BY <1>2, <2>8, HeldOutRead
  <2>9. CASE Clean
    BY <1>2, <2>9, CleanAdded
  <2>10. CASE UNCHANGED vars
    <3>1. Generating' /\ Known' /\ Verdict'
      BY <1>2, <2>10 DEF IInv, vars, Generating, Known, Verdict
    <3> QED BY <1>2, <2>10, <3>1 DEF IInv, vars
  <2> QED BY <1>2, <2>1, <2>2, <2>3, <2>4, <2>5, <2>6, <2>7, <2>8, <2>9, <2>10 DEF Next
<1> QED BY <1>1, <1>2, PTL DEF Spec

\* What every published fixture declares is what was done to it: whatever the
\* scenes, the hidden transform, the noise and the fraction of outliers, its
\* targets, labels, counts and clean pixels are those of the visible points, and
\* all noise of a frame cancels (generateExtrinsicFixture).
THEOREM CorruptionDeclared == Spec => []CorruptionIsDeclared
<1>1. IInv => CorruptionIsDeclared
  BY PublishedIsDeclared DEF IInv
<1> QED BY <1>1, Invariance, PTL

\* The loaders refuse no published fixture whose records are at most in another
\* order, accept no other, and hand on every target with its own point and its
\* own clean pixel (loadExtrinsicFixture to cleanExtrinsicObservations).
THEOREM LoadFaithful == Spec => []LoadIsFaithful
<1>1. ASSUME IInv PROVE LoadIsFaithful
  <2> DEFINE harmless == /\ files.manifest = made.manifest /\ files.oracle = made.oracle
                         /\ \A i \in 1..3 : /\ Shuffled(files.points[i], made.points[i])
                                            /\ Shuffled(files.observations[i], made.observations[i])
             Found(i, s) == CHOOSE p \in DOMAIN Scene(i - 1) : SourceIndex(p) = s
             given == [i \in 1..3 |->
               <<i - 1, [k \in DOMAIN made.observations[i] |->
                   [source |-> made.observations[i][k].source, at |-> made.observations[i][k].at,
                    point |-> Scene(i - 1)[Found(i, made.observations[i][k].source)],
                    clean |-> Seen(config.hidden,
                                   Scene(i - 1)[Found(i, made.observations[i][k].source)])]]>>]
  <2>1. harmless <=> Harmless(files, made)
    <3>1. ASSUME harmless, NEW f \in Frames PROVE Intact(files, made, f)
      <4>1. f + 1 \in 1..3
        BY DEF Frames
      <4> QED BY <3>1, <4>1 DEF Intact
    <3>2. ASSUME Harmless(files, made), NEW i \in 1..3
          PROVE  /\ Shuffled(files.points[i], made.points[i])
                 /\ Shuffled(files.observations[i], made.observations[i])
      <4>1. i - 1 \in Frames /\ (i - 1) + 1 = i
        BY DEF Frames
      <4>2. Intact(files, made, i - 1)
        BY <3>2, <4>1 DEF Harmless
      <4> QED BY <4>1, <4>2 DEF Intact
    <3> QED BY <3>1, <3>2 DEF Harmless
  <2>2. ASSUME Published(config, made) PROVE given = Handed(config, made)
    <3> DEFINE T(i) == made.observations[i]
               n(i) == Many(config, i - 1)
               v(i) == VisibleOf(config, i - 1)
               G(i) == [k \in DOMAIN T(i) |->
                          [source |-> T(i)[k].source, at |-> T(i)[k].at,
                           point |-> Scene(i - 1)[Found(i, T(i)[k].source)],
                           clean |-> Seen(config.hidden, Scene(i - 1)[Found(i, T(i)[k].source)])]]
               H(i) == [k \in 1..n(i) |->
                          [source |-> T(i)[k].source, point |-> Scene(i - 1)[v(i)[k]],
                           at |-> T(i)[k].at, clean |-> CleanAt(config, i - 1, k)]]
    <3>1. given = [i \in 1..3 |-> <<i - 1, G(i)>>]
      OBVIOUS
    <3>2. Handed(config, made) = [i \in 1..3 |-> <<i - 1, H(i)>>]
      BY DEF Handed
    <3>3. ASSUME NEW i \in 1..3 PROVE G(i) = H(i)
      <4>1. i - 1 \in Frames /\ (i - 1) + 1 = i
        BY DEF Frames
      <4>2. Wrote(config, made, i - 1) /\ config \in Configs
        BY <1>1, <2>2, <4>1, PublishedWrote DEF IInv
      <4>3. T(i) \in Seq(Target) /\ Len(T(i)) = n(i) /\ Recorded(config, i - 1, T(i), n(i))
        BY <4>1, <4>2 DEF Wrote
      <4>4. DOMAIN T(i) = 1..n(i)
        BY <4>3
      <4>5. ASSUME NEW k \in 1..n(i) PROVE Found(i, T(i)[k].source) = v(i)[k]
        <5>1. v(i)[k] \in 1..Len(Scene(i - 1)) /\ T(i)[k].source = SourceIndex(v(i)[k])
          BY <4>1, <4>2, <4>3, CleanIs DEF Recorded, SourceAt
        <5>2. DOMAIN Scene(i - 1) = 1..Len(Scene(i - 1)) /\ Len(Scene(i - 1)) \in Nat
          BY <4>1, SceneIs
        <5>3. PICK p : p = Found(i, T(i)[k].source)
          OBVIOUS
        <5> HIDE DEF v, T
        <5>4. p \in DOMAIN Scene(i - 1) /\ SourceIndex(p) = T(i)[k].source
          BY <5>1, <5>2, <5>3
        <5>5. p = v(i)[k]
          BY <5>1, <5>2, <5>4 DEF SourceIndex
        <5> QED BY <5>3, <5>5
      <4>6. \A k \in 1..n(i) : CleanAt(config, i - 1, k) = Seen(config.hidden, Scene(i - 1)[v(i)[k]])
        BY DEF CleanAt
      <4> HIDE DEF T, n, v, Found
      <4> QED BY <4>4, <4>5, <4>6
    <3> HIDE DEF given, G, H
    <3> QED BY <3>1, <3>2, <3>3
  <2>3. outcome = "refused" => ~harmless
    BY <1>1, <2>1 DEF IInv, Verdict
  <2>4. outcome = "accepted" => harmless /\ read = given
    BY <1>1, <2>1, <2>2 DEF IInv, Verdict
  <2> QED BY <2>3, <2>4 DEF LoadIsFaithful, Shuffled
<1> QED BY <1>1, Invariance, PTL

===============================================================================
