------------------------------ MODULE ReportProofs ------------------------------
(***************************************************************************)
(* Proofs about what is reported: of one recovery (RecoveryMetrics), for   *)
(* any observation frames, corrections, projection, grid and loss, and of  *)
(* a campaign of such recoveries (Campaign), for every list of cases,      *)
(* every outcome of their runs and every stage that was left behind.       *)
(***************************************************************************)
EXTENDS RecoveryMetrics, Campaign, FiniteSetTheorems, SequenceTheorems, WellFoundedInduction, TLAPS


-----------------------------------------------------------------------------
(* Induction over the natural numbers, on sets of numbers                  *)

\* A set of numbers that is not empty has a least member.
LEMMA LeastNatural ==
  ASSUME NEW S \in SUBSET Nat, S # {}
  PROVE  \E m \in S : \A n \in S : m <= n
<1>1. PICK x \in S : \A y \in S : <<y, x>> \notin OpToRel(<, Nat)
  BY NatLessThanWellFounded, WFMin
<1>2. \A y \in S : ~(y < x)
  BY <1>1 DEF OpToRel
<1> QED BY <1>2

\* A set that holds 0, and the successor of each of its members up to N, holds
\* every number up to N.
LEMMA CountingUp ==
  ASSUME NEW N \in Nat, NEW S, 0 \in S, \A n \in 0..(N - 1) : n \in S => n + 1 \in S
  PROVE  \A n \in 0..N : n \in S
<1> SUFFICES ASSUME NEW k \in 0..N, k \notin S PROVE FALSE
  OBVIOUS
<1>0. (0..N) \ S \in SUBSET Nat /\ (0..N) \ S # {}
  OBVIOUS
<1>1. PICK m \in (0..N) \ S : \A n \in (0..N) \ S : m <= n
  BY <1>0, LeastNatural
<1>2. m - 1 \in 0..(N - 1) /\ m - 1 \notin (0..N) \ S
  BY <1>1
<1> QED BY <1>1, <1>2

-----------------------------------------------------------------------------
(* Sorting                                                                 *)

\* R is a strict total order of T.
Orders(R, T) ==
  /\ \A x \in T : <<x, x>> \notin R
  /\ \A x, y \in T : x = y \/ <<x, y>> \in R \/ <<y, x>> \in R
  /\ \A x, y, z \in T : <<x, y>> \in R /\ <<y, z>> \in R => <<x, z>> \in R

\* What R puts before x.
Below(R, T, x) == { y \in T : <<y, x>> \in R }

\* The numbers from 1 to n are n.
LEMMA CountingTo ==
  ASSUME NEW n \in Nat
  PROVE  IsFiniteSet(1..n) /\ Cardinality(1..n) = n
<1>1. 1 \in Int /\ n \in Int
  OBVIOUS
<1>2. IsFiniteSet(1..n) /\ Cardinality(1..n) = IF 1 > n THEN 0 ELSE n - 1 + 1
  BY <1>1, FS_Interval
<1> QED BY <1>2

\* Less comes before an element than there is.
LEMMA BelowSize ==
  ASSUME NEW T, IsFiniteSet(T), NEW R, Orders(R, T), NEW x \in T
  PROVE  /\ IsFiniteSet(Below(R, T, x)) /\ Cardinality(Below(R, T, x)) \in Nat
         /\ Cardinality(Below(R, T, x)) < Cardinality(T)
<1>1. Below(R, T, x) \in SUBSET (T \ {x})
  BY DEF Below, Orders
<1>2. /\ IsFiniteSet(T \ {x}) /\ Cardinality(T \ {x}) = Cardinality(T) - 1
      /\ Cardinality(T) \in Nat
  BY FS_RemoveElement, FS_CardinalityType
<1>3. /\ IsFiniteSet(Below(R, T, x))
      /\ Cardinality(Below(R, T, x)) <= Cardinality(T \ {x})
  BY <1>1, <1>2, FS_Subset
<1>4. Cardinality(Below(R, T, x)) \in Nat
  BY <1>3, FS_CardinalityType
<1> QED BY <1>2, <1>3, <1>4

\* More comes before a later element.
LEMMA BelowGrows ==
  ASSUME NEW T, IsFiniteSet(T), NEW R, Orders(R, T), NEW x \in T, NEW y \in T, <<x, y>> \in R
  PROVE  Cardinality(Below(R, T, x)) < Cardinality(Below(R, T, y))
<1> DEFINE A == Below(R, T, x)
           B == Below(R, T, y)
<1>1. x \in B /\ A \subseteq B \ {x}
  BY DEF Below, Orders
<1>2. IsFiniteSet(B) /\ Cardinality(A) \in Nat /\ Cardinality(B) \in Nat
  BY BelowSize
<1> HIDE DEF A, B
<1>3. IsFiniteSet(B \ {x}) /\ Cardinality(B \ {x}) = Cardinality(B) - 1
  BY <1>1, <1>2, FS_RemoveElement
<1>4. Cardinality(A) <= Cardinality(B \ {x})
  BY <1>1, <1>3, FS_Subset
<1> QED BY <1>2, <1>3, <1>4 DEF A, B

\* q lists T in the order of R.
Ascending(q, n, R, T) == /\ q \in [1..n -> T]
                         /\ \A i, j \in 1..n : q[i] = q[j] => i = j
                         /\ \A x \in T : \E i \in 1..n : q[i] = x
                         /\ \A i, j \in 1..n : i < j => <<q[i], q[j]>> \in R

\* Every rank is taken.
LEMMA RankTaken ==
  ASSUME NEW T, IsFiniteSet(T), NEW R, Orders(R, T)
  PROVE  \A i \in 1..Cardinality(T) : \E x \in T : Cardinality(Below(R, T, x)) = i - 1
<1> DEFINE n == Cardinality(T)
           rank == [x \in T |-> 1 + Cardinality(Below(R, T, x))]
<1>1. n \in Nat /\ \A x \in T : Cardinality(Below(R, T, x)) \in Nat /\ Cardinality(Below(R, T, x)) < n
  BY BelowSize, FS_CardinalityType
<1>2. rank \in [T -> 1..n] /\ \A x \in T : rank[x] = 1 + Cardinality(Below(R, T, x))
  <2> HIDE DEF n
  <2>1. \A x \in T : 1 + Cardinality(Below(R, T, x)) \in 1..n
    BY <1>1
  <2> QED BY <2>1
<1> HIDE DEF rank
<1>3. \A x, y \in T : <<x, y>> \in R => rank[x] < rank[y]
  <2> SUFFICES ASSUME NEW x \in T, NEW y \in T, <<x, y>> \in R PROVE rank[x] < rank[y]
    OBVIOUS
  <2>1. Cardinality(Below(R, T, x)) < Cardinality(Below(R, T, y))
    BY BelowGrows
  <2> HIDE DEF n
  <2> QED BY <1>1, <1>2, <2>1
<1>4. ASSUME NEW x \in T, NEW y \in T, rank[x] = rank[y], x # y PROVE FALSE
  <2>1. <<x, y>> \in R \/ <<y, x>> \in R
    BY <1>4 DEF Orders
  <2>2. rank[x] < rank[y] \/ rank[y] < rank[x]
    BY <1>3, <2>1
  <2>3. rank[x] \in Nat /\ rank[y] \in Nat
    BY <1>1, <1>2
  <2> QED BY <1>4, <2>2, <2>3
<1>5. rank \in Surjection(T, 1..n)
  <2>1. rank \in Injection(T, 1..n)
    BY <1>2, <1>4 DEF Injection, IsInjective
  <2>2. IsFiniteSet(1..n) /\ Cardinality(1..n) = Cardinality(T)
    BY <1>1, CountingTo
  <2> HIDE DEF n
  <2> QED BY <2>1, <2>2, FS_Injection
<1>6. \A i \in 1..n : \E x \in T : rank[x] = i
  BY <1>5 DEF Surjection
<1>7. ASSUME NEW i \in 1..n PROVE \E x \in T : Cardinality(Below(R, T, x)) = i - 1
  <2>1. PICK x \in T : rank[x] = i
    BY <1>6
  <2>2. Cardinality(Below(R, T, x)) = i - 1
    BY <1>1, <1>2, <2>1
  <2> QED BY <2>2
<1> QED BY <1>7

\* What has the ranks one by one lists a finite set in its order.
LEMMA RankedAscends ==
  ASSUME NEW T, IsFiniteSet(T), NEW R, Orders(R, T),
         NEW n, n = Cardinality(T), NEW q \in [1..n -> T],
         \A i \in 1..n : Cardinality(Below(R, T, q[i])) = i - 1
  PROVE  Ascending(q, n, R, T)
<1>1. n \in Nat /\ \A x \in T : Cardinality(Below(R, T, x)) \in Nat /\ Cardinality(Below(R, T, x)) < n
  BY BelowSize, FS_CardinalityType
<1>2. \A x, y \in T : <<x, y>> \in R => Cardinality(Below(R, T, x)) < Cardinality(Below(R, T, y))
  BY BelowGrows
<1>3. ASSUME NEW x \in T, NEW y \in T, Cardinality(Below(R, T, x)) = Cardinality(Below(R, T, y))
      PROVE x = y
  <2>1. x = y \/ <<x, y>> \in R \/ <<y, x>> \in R
    BY DEF Orders
  <2> QED BY <1>1, <1>2, <1>3, <2>1
<1>4. ASSUME NEW i \in 1..n, NEW j \in 1..n, i < j PROVE <<q[i], q[j]>> \in R
  <2>1. q[i] \in T /\ q[j] \in T /\ Cardinality(Below(R, T, q[i])) = i - 1
        /\ Cardinality(Below(R, T, q[j])) = j - 1
    OBVIOUS
  <2>2. <<q[j], q[i]>> \notin R /\ q[i] # q[j]
    BY <1>1, <1>2, <1>4, <2>1
  <2> QED BY <2>1, <2>2 DEF Orders
<1>5. ASSUME NEW x \in T PROVE \E i \in 1..n : q[i] = x
  <2>1. PICK i \in 1..n : i = 1 + Cardinality(Below(R, T, x))
    BY <1>1
  <2>2. q[i] \in T /\ Cardinality(Below(R, T, q[i])) = Cardinality(Below(R, T, x))
    BY <1>1, <2>1
  <2> QED BY <1>3, <2>2
<1>6. \A i, j \in 1..n : q[i] = q[j] => i = j
  <2> SUFFICES ASSUME NEW i \in 1..n, NEW j \in 1..n, q[i] = q[j] PROVE i = j
    OBVIOUS
  <2>1. i - 1 = j - 1
    OBVIOUS
  <2> QED BY <1>1, <2>1
<1> QED BY <1>4, <1>5, <1>6 DEF Ascending

-----------------------------------------------------------------------------
(* Sums                                                                    *)

\* The member that a sum of the community modules takes first.
Chosen(T) == CHOOSE x \in T : TRUE

\* f gives the sum of g over every member of D, a set of sets.
Adds(f, g, D) ==
  f = [T \in D |-> IF T = {} THEN 0 ELSE g[Chosen(T)] + f[T \ {Chosen(T)}]]

\* A sum is the value, at its set, of a function that adds up on all subsets.
LEMMA SumIs ==
  ASSUME NEW g, NEW S
  PROVE  SumFunctionOnSet(g, S) = (CHOOSE f : Adds(f, g, SUBSET S))[S]
BY DEF SumFunctionOnSet, FoldFunctionOnSet, MapThenFoldSet, Adds, Chosen

\* The parts of S with at most n members.
Parts(S, n) == { T \in SUBSET S : Cardinality(T) <= n }

\* A part of a finite set is finite and no larger.
LEMMA PartSize ==
  ASSUME NEW S, IsFiniteSet(S), NEW T \in SUBSET S
  PROVE  /\ IsFiniteSet(T) /\ Cardinality(T) \in Nat /\ Cardinality(S) \in Nat
         /\ Cardinality(T) <= Cardinality(S)
         /\ T = {} <=> Cardinality(T) = 0
BY FS_Subset, FS_CardinalityType, FS_EmptySet

\* What is left without the chosen member has one member less.
LEMMA PartIs ==
  ASSUME NEW S, IsFiniteSet(S), NEW T \in SUBSET S, T # {}
  PROVE  /\ Chosen(T) \in T /\ T \ {Chosen(T)} \in SUBSET S
         /\ Cardinality(T \ {Chosen(T)}) = Cardinality(T) - 1
<1>1. IsFiniteSet(T) /\ Chosen(T) \in T
  BY PartSize DEF Chosen
<1> QED BY <1>1, FS_RemoveElement

\* Of some parts of a finite set one is the least.
LEMMA LeastPart ==
  ASSUME NEW S, NEW B, IsFiniteSet(S), B \subseteq SUBSET S, B # {}
  PROVE  \E T \in B : \A x \in T : T \ {x} \notin B
<1> DEFINE Sizes == { Cardinality(T) : T \in B }
<1>1. ASSUME NEW T \in B PROVE T \in SUBSET S /\ IsFiniteSet(T) /\ Cardinality(T) \in Nat
  <2>1. T \in SUBSET S
    OBVIOUS
  <2> QED BY <2>1, PartSize
<1>2. Sizes \in SUBSET Nat /\ Sizes # {}
  BY <1>1
<1>3. PICK m \in Sizes : \A n \in Sizes : m <= n
  <2> HIDE DEF Sizes
  <2> QED BY <1>2, LeastNatural
<1>4. PICK T \in B : Cardinality(T) = m
  OBVIOUS
<1>5. ASSUME NEW x \in T, T \ {x} \in B PROVE FALSE
  <2>1. Cardinality(T \ {x}) = m - 1 /\ m \in Nat
    BY <1>1, <1>4, FS_RemoveElement
  <2>2. m <= Cardinality(T \ {x})
    BY <1>3, <1>5
  <2> QED BY <2>1, <2>2
<1> QED BY <1>5

\* There is such a function.
LEMMA SumsExist ==
  ASSUME NEW g, NEW S, IsFiniteSet(S)
  PROVE  \E f : Adds(f, g, SUBSET S)
<1> DEFINE N == Cardinality(S)
           Good == { n \in 0..N : \E f : Adds(f, g, Parts(S, n)) }
<1>1. N \in Nat
  BY FS_CardinalityType
<1>2. 0 \in Good
  <2> DEFINE f == [T \in Parts(S, 0) |-> 0]
  <2>1. ASSUME NEW T \in Parts(S, 0) PROVE T = {}
    <3>1. T \in SUBSET S /\ Cardinality(T) <= 0
      BY DEF Parts
    <3> QED BY <3>1, PartSize
  <2>2. Adds(f, g, Parts(S, 0))
    BY <2>1 DEF Adds
  <2> HIDE DEF f, N
  <2>3. \E u : Adds(u, g, Parts(S, 0))
    BY <2>2
  <2>4. 0 \in 0..N
    BY <1>1
  <2> QED BY <2>3, <2>4
<1>3. ASSUME NEW n \in 0..(N - 1), n \in Good PROVE n + 1 \in Good
  <2>1. PICK f : Adds(f, g, Parts(S, n))
    BY <1>3
  <2> DEFINE h == [T \in Parts(S, n + 1) |->
                     IF T = {} THEN 0 ELSE g[Chosen(T)] + f[T \ {Chosen(T)}]]
  <2> HIDE DEF N
  <2>2. n \in Nat /\ n + 1 \in 0..N
    BY <1>1
  <2>3. \A T \in Parts(S, n) : T \in Parts(S, n + 1) /\ f[T] = h[T]
    <3> SUFFICES ASSUME NEW T \in Parts(S, n) PROVE T \in Parts(S, n + 1) /\ f[T] = h[T]
      OBVIOUS
    <3>1. T \in Parts(S, n + 1)
      <4>1. T \in SUBSET S /\ Cardinality(T) <= n
        BY DEF Parts
      <4>2. Cardinality(T) \in Nat
        BY <4>1, PartSize
      <4> QED BY <2>2, <4>1, <4>2 DEF Parts
    <3>2. f[T] = IF T = {} THEN 0 ELSE g[Chosen(T)] + f[T \ {Chosen(T)}]
      BY <2>1 DEF Adds
    <3>3. h[T] = IF T = {} THEN 0 ELSE g[Chosen(T)] + f[T \ {Chosen(T)}]
      BY <3>1
    <3> HIDE DEF h
    <3> QED BY <3>1, <3>2, <3>3
  <2>4. ASSUME NEW T \in Parts(S, n + 1), T # {} PROVE T \ {Chosen(T)} \in Parts(S, n)
    <3>1. T \in SUBSET S /\ Cardinality(T) <= n + 1
      BY DEF Parts
    <3>2. Cardinality(T) \in Nat /\ Cardinality(T \ {Chosen(T)}) = Cardinality(T) - 1
      BY <2>4, <3>1, PartSize, PartIs
    <3> QED BY <2>2, <3>1, <3>2 DEF Parts
  <2>5. h = [T \in Parts(S, n + 1) |-> IF T = {} THEN 0 ELSE g[Chosen(T)] + h[T \ {Chosen(T)}]]
    <3> HIDE DEF h
    <3>1. \A T \in Parts(S, n + 1) : T # {} => f[T \ {Chosen(T)}] = h[T \ {Chosen(T)}]
      BY <2>3, <2>4
    <3> QED BY <3>1 DEF h
  <2>6. Adds(h, g, Parts(S, n + 1))
    <3> HIDE DEF h
    <3> QED BY <2>5 DEF Adds
  <2> QED BY <2>2, <2>6
<1>4. N \in Good
  <2> HIDE DEF Good, N
  <2>1. N \in 0..N
    BY <1>1
  <2> QED BY <1>1, <1>2, <1>3, <2>1, CountingUp
<1>5. Parts(S, N) = SUBSET S
  BY PartSize DEF Parts
<1>6. \E f : Adds(f, g, Parts(S, N))
  BY <1>4
<1> HIDE DEF N, Good
<1> QED BY <1>5, <1>6

\* And they agree where both are defined.
LEMMA SumsAgree ==
  ASSUME NEW g, NEW S, NEW V, NEW f, NEW h, IsFiniteSet(S), V \subseteq S,
         Adds(f, g, SUBSET S), Adds(h, g, SUBSET V)
  PROVE  f[V] = h[V]
<1> DEFINE Bad == { T \in SUBSET V : f[T] # h[T] }
<1> SUFFICES ASSUME Bad # {} PROVE FALSE
  OBVIOUS
<1>1. PICK T \in Bad : \A x \in T : T \ {x} \notin Bad
  <2>1. Bad \subseteq SUBSET S
    OBVIOUS
  <2> HIDE DEF Bad
  <2> QED BY <2>1, LeastPart
<1>2. T # {}
  <2>1. CASE T = {}
    <3>1. f[T] = 0 /\ h[T] = 0
      BY <2>1 DEF Adds
    <3> QED BY <3>1
  <2> QED BY <2>1
<1> DEFINE W == T \ {Chosen(T)}
<1>3. T \in SUBSET V /\ T \in SUBSET S /\ W \in SUBSET V /\ Chosen(T) \in T
  BY <1>2 DEF Chosen
<1>4. f[W] = h[W]
  BY <1>1, <1>3
<1>5. f[T] = g[Chosen(T)] + f[W] /\ h[T] = g[Chosen(T)] + h[W]
  BY <1>2, <1>3 DEF Adds
<1> QED BY <1>4, <1>5

\* A sum takes what it chooses from the set first.
LEMMA SumTakesChosen ==
  ASSUME NEW g, NEW S, IsFiniteSet(S)
  PROVE  SumFunctionOnSet(g, S) =
           IF S = {} THEN 0 ELSE g[Chosen(S)] + SumFunctionOnSet(g, S \ {Chosen(S)})
<1>0. PICK V : V = S \ {Chosen(S)}
  OBVIOUS
<1>1. IsFiniteSet(V) /\ V \subseteq S
  BY <1>0, FS_Subset
<1>2. ASSUME NEW T, IsFiniteSet(T)
      PROVE  \E f : Adds(f, g, SUBSET T) /\ SumFunctionOnSet(g, T) = f[T]
  BY <1>2, SumsExist, SumIs
<1>3. PICK f : Adds(f, g, SUBSET S) /\ SumFunctionOnSet(g, S) = f[S]
  BY <1>2
<1>4. PICK h : Adds(h, g, SUBSET V) /\ SumFunctionOnSet(g, V) = h[V]
  BY <1>1, <1>2
<1>5. f[S] = IF S = {} THEN 0 ELSE g[Chosen(S)] + f[V]
  BY <1>0, <1>3 DEF Adds
<1>6. f[V] = h[V]
  <2>1. Adds(f, g, SUBSET S) /\ Adds(h, g, SUBSET V)
    BY <1>3, <1>4
  <2> QED BY <1>1, <2>1, SumsAgree
<1> QED BY <1>0, <1>3, <1>4, <1>5, <1>6

\* The sum over nothing is zero.
LEMMA SumOfNone == ASSUME NEW g PROVE SumFunctionOnSet(g, {}) = 0
BY SumTakesChosen, FS_EmptySet

\* A sum of integers is an integer.
LEMMA SumType ==
  ASSUME NEW g, NEW S, IsFiniteSet(S), \A x \in S : g[x] \in Int
  PROVE  SumFunctionOnSet(g, S) \in Int
<1> DEFINE Bad == { T \in SUBSET S : SumFunctionOnSet(g, T) \notin Int }
<1>1. ASSUME Bad # {} PROVE FALSE
  <2>1. PICK T \in Bad : \A x \in T : T \ {x} \notin Bad
    <3>1. Bad \subseteq SUBSET S
      OBVIOUS
    <3> HIDE DEF Bad
    <3> QED BY <1>1, <3>1, LeastPart
  <2>2. T \in SUBSET S /\ IsFiniteSet(T)
    <3>1. T \in SUBSET S
      OBVIOUS
    <3> QED BY <3>1, PartSize
  <2>3. T # {}
    BY <2>1, SumOfNone
  <2>4. PICK c : c = Chosen(T)
    OBVIOUS
  <2>5. c \in T /\ SumFunctionOnSet(g, T) = g[c] + SumFunctionOnSet(g, T \ {c})
    <3>1. c \in T
      BY <2>3, <2>4 DEF Chosen
    <3>2. SumFunctionOnSet(g, T) = g[Chosen(T)] + SumFunctionOnSet(g, T \ {Chosen(T)})
      BY <2>2, <2>3, SumTakesChosen
    <3> QED BY <2>4, <3>1, <3>2
  <2>6. SumFunctionOnSet(g, T \ {c}) \in Int
    BY <2>1, <2>2, <2>5
  <2>7. g[c] \in Int
    BY <2>2, <2>5
  <2> QED BY <2>1, <2>5, <2>6, <2>7
<1>2. S \notin Bad
  <2> HIDE DEF Bad
  <2> QED BY <1>1
<1> QED BY <1>2

\* It is the same sum whichever member is taken first.
LEMMA SumTakesAny ==
  ASSUME NEW g, NEW S, NEW x, IsFiniteSet(S), \A y \in S : g[y] \in Int, x \in S
  PROVE  SumFunctionOnSet(g, S) = g[x] + SumFunctionOnSet(g, S \ {x})
<1> DEFINE Total(T) == SumFunctionOnSet(g, T)
           Bad == { T \in SUBSET S : \E y \in T : Total(T) # g[y] + Total(T \ {y}) }
<1>0. ASSUME NEW T \in SUBSET S
      PROVE  /\ IsFiniteSet(T) /\ Total(T) \in Int
             /\ T # {} => \E c \in T : Total(T) = g[c] + Total(T \ {c})
  <2>1. IsFiniteSet(T) /\ \A y \in T : g[y] \in Int
    BY PartSize
  <2>2. Total(T) \in Int
    BY <2>1, SumType
  <2>3. ASSUME T # {} PROVE \E c \in T : Total(T) = g[c] + Total(T \ {c})
    <3>1. PICK c : c = Chosen(T)
      OBVIOUS
    <3>2. c \in T
      BY <2>3, <3>1 DEF Chosen
    <3>3. Total(T) = g[c] + Total(T \ {c})
      BY <2>1, <2>3, <3>1, SumTakesChosen
    <3> QED BY <3>2, <3>3
  <2> QED BY <2>1, <2>2, <2>3
<1>1. ASSUME Bad # {} PROVE FALSE
  <2>1. PICK T \in Bad : \A y \in T : T \ {y} \notin Bad
    <3>1. Bad \subseteq SUBSET S
      OBVIOUS
    <3> HIDE DEF Bad
    <3> QED BY <1>1, <3>1, LeastPart
  <2> HIDE DEF Total
  <2>2. PICK y \in T : Total(T) # g[y] + Total(T \ {y})
    BY <2>1
  <2>3. T \in SUBSET S
    BY <2>1
  <2>4. PICK c \in T : Total(T) = g[c] + Total(T \ {c})
    BY <1>0, <2>2, <2>3
  <2>5. c # y
    BY <2>2, <2>4
  <2>6. PICK W : W = (T \ {c}) \ {y}
    OBVIOUS
  <2>7. W = (T \ {y}) \ {c} /\ W \in SUBSET S /\ y \in T \ {c} /\ c \in T \ {y}
    BY <2>3, <2>5, <2>6
  <2>8. Total(T \ {c}) = g[y] + Total(W)
    <3>1. T \ {c} \notin Bad /\ T \ {c} \in SUBSET S
      BY <2>1, <2>3
    <3> QED BY <2>6, <2>7, <3>1
  <2>9. Total(T \ {y}) = g[c] + Total(W)
    <3>1. T \ {y} \notin Bad /\ T \ {y} \in SUBSET S
      BY <2>1, <2>3
    <3> QED BY <2>7, <3>1
  <2>10. g[c] \in Int /\ g[y] \in Int /\ Total(W) \in Int
    BY <1>0, <2>3, <2>7
  <2> QED BY <2>2, <2>4, <2>8, <2>9, <2>10
<1>2. S \notin Bad
  <2> HIDE DEF Bad
  <2> QED BY <1>1
<1> QED BY <1>2

\* A further element adds its value to the sum.
LEMMA SumAdds ==
  ASSUME NEW g, NEW S, NEW x, IsFiniteSet(S), \A y \in S \cup {x} : g[y] \in Int, x \notin S
  PROVE  SumFunctionOnSet(g, S \cup {x}) = g[x] + SumFunctionOnSet(g, S)
<1>1. PICK T : T = S \cup {x}
  OBVIOUS
<1>2. IsFiniteSet(T) /\ x \in T /\ T \ {x} = S /\ \A y \in T : g[y] \in Int
  BY <1>1, FS_AddElement
<1> QED BY <1>1, <1>2, SumTakesAny

\* Only the values on the set matter, and not what its members are called.
LEMMA SumRenamed ==
  ASSUME NEW g, NEW h, NEW A, NEW f, IsFiniteSet(A),
         \A x \in A : h[x] = g[f[x]] /\ h[x] \in Int,
         \A x, y \in A : f[x] = f[y] => x = y
  PROVE  SumFunctionOnSet(h, A) = SumFunctionOnSet(g, { f[x] : x \in A })
<1> DEFINE Image(T) == { f[x] : x \in T }
           Bad == { T \in SUBSET A : SumFunctionOnSet(h, T) # SumFunctionOnSet(g, Image(T)) }
<1>1. ASSUME Bad # {} PROVE FALSE
  <2>1. PICK T \in Bad : \A x \in T : T \ {x} \notin Bad
    <3>1. Bad \subseteq SUBSET A
      OBVIOUS
    <3> HIDE DEF Bad
    <3> QED BY <1>1, <3>1, LeastPart
  <2>2. T \in SUBSET A
    OBVIOUS
  <2>3. IsFiniteSet(T) /\ IsFiniteSet(Image(T))
    <3>1. IsFiniteSet(T)
      BY <2>2, PartSize
    <3>2. PICK onto : onto = [x \in T |-> f[x]]
      OBVIOUS
    <3>3. onto \in Surjection(T, Image(T))
      BY <3>2 DEF Surjection
    <3> HIDE DEF Image
    <3> QED BY <3>1, <3>3, FS_Surjection
  <2>4. T # {}
    <3>1. ASSUME T = {} PROVE FALSE
      <4>1. Image(T) = {}
        BY <3>1
      <4> HIDE DEF Image
      <4> QED BY <2>1, <3>1, <4>1, SumOfNone
    <3> QED BY <3>1
  <2>5. PICK x \in T : TRUE
    BY <2>4
  <2>6. Image(T \ {x}) = Image(T) \ {f[x]} /\ f[x] \in Image(T)
    BY <2>2, <2>5
  <2>7. \A y \in Image(T) : g[y] \in Int
    BY <2>2
  <2>8. T \ {x} \notin Bad /\ T \ {x} \in SUBSET A
    BY <2>1, <2>2, <2>5
  <2>9. SumFunctionOnSet(h, T \ {x}) = SumFunctionOnSet(g, Image(T \ {x}))
    BY <2>8
  <2> HIDE DEF Image
  <2>10. SumFunctionOnSet(h, T) = h[x] + SumFunctionOnSet(h, T \ {x})
    <3>1. IsFiniteSet(T) /\ (\A y \in T : h[y] \in Int) /\ x \in T
      BY <2>2, <2>3, <2>5
    <3> HIDE DEF Bad
    <3> QED BY <3>1, SumTakesAny
  <2>11. SumFunctionOnSet(g, Image(T)) = g[f[x]] + SumFunctionOnSet(g, Image(T) \ {f[x]})
    <3>1. PICK V, y : V = Image(T) /\ y = f[x]
      OBVIOUS
    <3>2. IsFiniteSet(V) /\ (\A z \in V : g[z] \in Int) /\ y \in V
      BY <2>3, <2>6, <2>7, <3>1
    <3>3. SumFunctionOnSet(g, V) = g[y] + SumFunctionOnSet(g, V \ {y})
      BY <3>2, SumTakesAny
    <3> QED BY <3>1, <3>3
  <2> QED BY <2>1, <2>2, <2>5, <2>6, <2>9, <2>10, <2>11
<1>2. A \notin Bad
  <2> HIDE DEF Bad
  <2> QED BY <1>1
<1> QED BY <1>2

\* Functions that agree on a set have the same sum over it.
LEMMA SumSame ==
  ASSUME NEW g, NEW h, NEW S, IsFiniteSet(S), \A x \in S : h[x] = g[x] /\ h[x] \in Int
  PROVE  SumFunctionOnSet(h, S) = SumFunctionOnSet(g, S)
<1>1. PICK f : f = [x \in S |-> x]
  OBVIOUS
<1>2. /\ \A x \in S : h[x] = g[f[x]] /\ h[x] \in Int
      /\ \A x, y \in S : f[x] = f[y] => x = y
      /\ { f[x] : x \in S } = S
  BY <1>1
<1>3. SumFunctionOnSet(h, S) = SumFunctionOnSet(g, { f[x] : x \in S })
  BY <1>2, SumRenamed
<1> QED BY <1>2, <1>3

\* The classes of a finite set add up to it.
CountsClasses(n, D, st) ==
  \A k \in DOMAIN n : n[k] = Cardinality({ i \in D : st[i] = k })

\* The sizes of the classes of a finite set add up to its size.
LEMMA SumOfClasses ==
  ASSUME NEW D, NEW K, NEW st, NEW n, IsFiniteSet(D), IsFiniteSet(K), \A i \in D : st[i] \in K,
         DOMAIN n = K, CountsClasses(n, D, st)
  PROVE  SumFunction(n) = Cardinality(D)
<1> DEFINE In(Q) == { i \in D : st[i] \in Q }
           Bad == { Q \in SUBSET K : SumFunctionOnSet(n, Q) # Cardinality(In(Q)) }
<1>0. ASSUME NEW Q \in SUBSET K
      PROVE  IsFiniteSet(In(Q)) /\ IsFiniteSet(Q) /\ \A k \in Q : n[k] \in Int
  <2>1. IsFiniteSet(In(Q)) /\ IsFiniteSet(Q)
    BY FS_Subset
  <2>2. ASSUME NEW k \in Q PROVE n[k] \in Int
    <3>1. IsFiniteSet({ i \in D : st[i] = k }) /\ k \in K
      BY FS_Subset
    <3> QED BY <3>1, FS_CardinalityType DEF CountsClasses
  <2> QED BY <2>1, <2>2
<1>1. ASSUME Bad # {} PROVE FALSE
  <2>1. PICK Q \in Bad : \A k \in Q : Q \ {k} \notin Bad
    <3>1. Bad \subseteq SUBSET K
      OBVIOUS
    <3> HIDE DEF Bad
    <3> QED BY <1>1, <3>1, LeastPart
  <2>2. Q \in SUBSET K
    OBVIOUS
  <2>3. Q # {}
    <3>1. ASSUME Q = {} PROVE FALSE
      <4>1. In(Q) = {}
        BY <3>1
      <4> HIDE DEF In
      <4> QED BY <2>1, <3>1, <4>1, SumOfNone, FS_EmptySet
    <3> QED BY <3>1
  <2>4. PICK k \in Q : TRUE
    BY <2>3
  <2> DEFINE C == { i \in D : st[i] = k }
             V == Q \ {k}
  <2>5. In(V) \cap C = {} /\ In(V) \cup C = In(Q) /\ V \in SUBSET K
    BY <2>2, <2>4
  <2>6. IsFiniteSet(C) /\ Cardinality(C) \in Nat
    BY FS_Subset, FS_CardinalityType
  <2>7. n[k] = Cardinality(C)
    BY <2>2, <2>4 DEF CountsClasses
  <2>8. SumFunctionOnSet(n, V) = Cardinality(In(V))
    BY <2>1, <2>4, <2>5
  <2> HIDE DEF In, C
  <2>9. Cardinality(In(Q)) = Cardinality(In(V)) + Cardinality(C)
    <3>1. IsFiniteSet(In(V)) /\ Cardinality(In(V)) \in Nat
      BY <1>0, <2>5, FS_CardinalityType
    <3>2. Cardinality(In(V) \cup C) = Cardinality(In(V)) + Cardinality(C) - Cardinality(In(V) \cap C)
      BY <2>6, <3>1, FS_Union
    <3>3. Cardinality(In(V) \cap C) = 0
      BY <2>5, FS_EmptySet
    <3>4. In(Q) = In(V) \cup C
      BY <2>5
    <3> QED BY <2>6, <3>1, <3>2, <3>3, <3>4
  <2>10. SumFunctionOnSet(n, Q) = n[k] + SumFunctionOnSet(n, V)
    <3>1. IsFiniteSet(Q) /\ (\A y \in Q : n[y] \in Int) /\ k \in Q
      BY <1>0, <2>2, <2>4
    <3>2. SumFunctionOnSet(n, Q) = n[k] + SumFunctionOnSet(n, Q \ {k})
      <4> HIDE DEF Bad, V
      <4> QED BY <3>1, SumTakesAny
    <3> QED BY <3>2
  <2>11. Cardinality(In(V)) \in Nat
    BY <1>0, <2>5, FS_CardinalityType
  <2> HIDE DEF V
  <2> QED BY <2>1, <2>6, <2>7, <2>8, <2>9, <2>10, <2>11
<1>2. K \notin Bad
  <2> HIDE DEF Bad
  <2> QED BY <1>1
<1>3. In(K) = D
  OBVIOUS
<1>4. SumFunction(n) = SumFunctionOnSet(n, K)
  BY DEF SumFunction
<1> QED BY <1>2, <1>3, <1>4

-----------------------------------------------------------------------------
(* Listings                                                                *)

\* f names every member of T once.
Lists(f, n, T) == /\ f \in [1..n -> T]
                  /\ \A i, j \in 1..n : f[i] = f[j] => i = j
                  /\ \A x \in T : \E i \in 1..n : f[i] = x

\* The first k elements that f names.
Leading(f, k) == { f[i] : i \in 1..k }

\* A set is counted by its places in a listing.
LEMMA ListingCounts ==
  ASSUME NEW T, NEW n \in Nat, NEW f, Lists(f, n, T), NEW P, P \subseteq T
  PROVE  Cardinality({ i \in 1..n : f[i] \in P }) = Cardinality(P)
<1> DEFINE S == { i \in 1..n : f[i] \in P }
           g == [i \in S |-> f[i]]
<1>1. IsFiniteSet(1..n) /\ S \in SUBSET (1..n)
  BY CountingTo
<1>2. IsFiniteSet(S)
  BY <1>1, FS_Subset
<1>3. g \in [S -> P] /\ \A i \in S : g[i] = f[i] /\ i \in 1..n
  OBVIOUS
<1>4. \A x \in P : \E i \in S : f[i] = x
  BY DEF Lists
<1> HIDE DEF S, g
<1>5. g \in Bijection(S, P)
  BY <1>3, <1>4 DEF Bijection, Injection, Surjection, IsInjective, Lists
<1>6. ExistsBijection(S, P)
  BY <1>5 DEF ExistsBijection
<1> QED BY <1>2, <1>6, FS_Bijection DEF S

\* What is listed is as many as the places.
LEMMA ListedSize ==
  ASSUME NEW T, NEW n \in Nat, NEW f, Lists(f, n, T)
  PROVE  IsFiniteSet(T) /\ Cardinality(T) = n
<1>1. f \in Bijection(1..n, T)
  BY DEF Bijection, Injection, Surjection, IsInjective, Lists
<1>2. ExistsBijection(1..n, T)
  BY <1>1 DEF ExistsBijection
<1>3. IsFiniteSet(T)
  BY <1>2, FS_NatBijection
<1> QED BY <1>2, <1>3, FS_CountingElements

\* The first places of a listing, and what one more of them adds.
LEMMA LeadingEnds ==
  ASSUME NEW T, NEW n \in Nat, NEW f, Lists(f, n, T)
  PROVE  /\ Leading(f, 0) = {} /\ Leading(f, n) = T
         /\ \A k \in 0..n : Leading(f, k) \subseteq T
<1>1. Leading(f, 0) = {}
  BY DEF Leading
<1>2. Leading(f, n) = T
  BY DEF Leading, Lists
<1>4. \A k \in 0..n : Leading(f, k) \subseteq T
  BY DEF Leading, Lists
<1> QED BY <1>1, <1>2, <1>4

\* The next place adds an element that was not there.
LEMMA LeadingStep ==
  ASSUME NEW T, NEW n \in Nat, NEW f, NEW k \in 1..n, Lists(f, n, T)
  PROVE  f[k] \in T /\ f[k] \notin Leading(f, k - 1) /\ Leading(f, k) = Leading(f, k - 1) \cup {f[k]}
<1>1. \A i \in 1..(k - 1) : i \in 1..n /\ i # k
  OBVIOUS
<1>2. 1..k = (1..(k - 1)) \cup {k}
  OBVIOUS
<1>3. f[k] \notin Leading(f, k - 1)
  BY <1>1 DEF Leading, Lists
<1>4. Leading(f, k) = Leading(f, k - 1) \cup {f[k]}
  BY <1>2 DEF Leading
<1> QED BY <1>3, <1>4 DEF Lists

\* A listing goes on with something new.
LEMMA ListingGoesOn ==
  ASSUME NEW T, NEW n \in Nat, NEW f, Lists(f, n, T), NEW x, x \notin T
  PROVE  Lists([i \in 1..(n + 1) |-> IF i = n + 1 THEN x ELSE f[i]], n + 1, T \cup {x})
<1> DEFINE g == [i \in 1..(n + 1) |-> IF i = n + 1 THEN x ELSE f[i]]
<1>1. \A i \in 1..(n + 1) : i \in 1..n \/ i = n + 1
  OBVIOUS
<1>2. /\ \A i \in 1..n : i \in 1..(n + 1) /\ g[i] = f[i] /\ f[i] \in T
      /\ n + 1 \in 1..(n + 1) /\ g[n + 1] = x
  BY DEF Lists
<1>3. g \in [1..(n + 1) -> T \cup {x}]
  BY <1>1, <1>2
<1> HIDE DEF g
<1>4. \A i, j \in 1..(n + 1) : g[i] = g[j] => i = j
  BY <1>1, <1>2 DEF Lists
<1>5. \A y \in T \cup {x} : \E i \in 1..(n + 1) : g[i] = y
  BY <1>2 DEF Lists
<1> QED BY <1>3, <1>4, <1>5 DEF g, Lists

-----------------------------------------------------------------------------
(* Records                                                                 *)

\* Every record that could be.
RecordSet == [frame : Nat, source : Nat, point : Points, target : Int, weight : Int]

\* The records are finitely many, and well-formed.
LEMMA RecordsType ==
  ASSUME frames \in Inputs
  PROVE  Records \subseteq RecordSet /\ IsFiniteSet(Records)
<1> DEFINE Of(f) == { [frame |-> f.frame, source |-> r.source, point |-> r.point,
                       target |-> r.target, weight |-> r.weight] : r \in ToSet(f.observations) }
           Observation == [source : Nat, point : Points, target : Int, weight : Int]
           Frame == [frame : Nat, observations : Seq(Observation)]
<1>1. frames \in Seq(Frame)
  BY InputsAssumption
<1>2. ASSUME NEW X, NEW q \in Seq(X) PROVE ToSet(q) \subseteq X /\ IsFiniteSet(ToSet(q))
  <2>1. Len(q) \in Nat /\ q \in [1..Len(q) -> X] /\ DOMAIN q = 1..Len(q)
    OBVIOUS
  <2>2. ToSet(q) = { q[i] : i \in DOMAIN q }
    BY DEF ToSet
  <2>3. q \in Surjection(1..Len(q), ToSet(q))
    BY <2>1, <2>2 DEF Surjection
  <2>4. IsFiniteSet(1..Len(q))
    BY <2>1, CountingTo
  <2>5. IsFiniteSet(ToSet(q))
    BY <2>3, <2>4, FS_Surjection
  <2> QED BY <2>1, <2>2, <2>5
<1>3. IsFiniteSet(ToSet(frames)) /\ ToSet(frames) \subseteq Frame
  <2> HIDE DEF Frame
  <2> QED BY <1>1, <1>2
<1>4. ASSUME NEW f \in ToSet(frames) PROVE IsFiniteSet(Of(f)) /\ Of(f) \subseteq RecordSet
  <2>1. f.frame \in Nat /\ f.observations \in Seq(Observation)
    BY <1>3
  <2>2. IsFiniteSet(ToSet(f.observations)) /\ ToSet(f.observations) \subseteq Observation
    <3> HIDE DEF Observation
    <3> QED BY <1>2, <2>1
  <2>3. PICK onto : onto = [r \in ToSet(f.observations) |->
                              [frame |-> f.frame, source |-> r.source, point |-> r.point,
                               target |-> r.target, weight |-> r.weight]]
    OBVIOUS
  <2>4. onto \in Surjection(ToSet(f.observations), Of(f))
    BY <2>3 DEF Surjection
  <2>5. IsFiniteSet(Of(f))
    <3> HIDE DEF Of
    <3> QED BY <2>2, <2>4, FS_Surjection
  <2>6. Of(f) \subseteq RecordSet
    BY <2>1, <2>2 DEF RecordSet
  <2> QED BY <2>5, <2>6
<1>5. PICK Parts1 : Parts1 = { Of(f) : f \in ToSet(frames) }
  OBVIOUS
<1>6. Records = UNION Parts1
  BY <1>5 DEF Records
<1>7. IsFiniteSet(Parts1)
  <2>1. PICK onto : onto = [f \in ToSet(frames) |-> Of(f)]
    OBVIOUS
  <2> HIDE DEF Of
  <2>2. onto \in Surjection(ToSet(frames), Parts1)
    BY <1>5, <2>1 DEF Surjection
  <2> QED BY <1>3, <2>2, FS_Surjection
<1>8. \A T \in Parts1 : IsFiniteSet(T) /\ T \subseteq RecordSet
  <2> HIDE DEF Of
  <2> QED BY <1>4, <1>5
<1>9. IsFiniteSet(UNION Parts1)
  BY <1>7, <1>8, FS_UNION
<1> QED BY <1>6, <1>8, <1>9

\* What a correction makes of a record.
LEMMA SightType ==
  ASSUME NEW c \in Corrections, NEW r \in RecordSet
  PROVE  /\ Seen(c, r.point).status \in Statuses /\ Residual(c, r) \in Nat
         /\ Sees(c, r) \in BOOLEAN
<1>1. r.point \in Points /\ r.target \in Int
  BY DEF RecordSet
<1>2. Seen(c, r.point) \in [status : Statuses, at : Int]
  BY <1>1, SeenAssumption
<1>3. Seen(c, r.point).status \in Statuses /\ Seen(c, r.point).at \in Int
  BY <1>2
<1> QED BY <1>1, <1>3 DEF Residual, Distance, Sees

\* The k-th record of the i-th frame of the input.
RecordAt(i, k) ==
  LET r == frames[i].observations[k] IN
  [frame |-> frames[i].frame, source |-> r.source, point |-> r.point,
   target |-> r.target, weight |-> r.weight]

\* Every record has its place in the input.
LEMMA RecordsAre ==
  ASSUME NEW x
  PROVE  x \in Records <=>
           \E i \in DOMAIN frames : \E k \in DOMAIN frames[i].observations : x = RecordAt(i, k)
BY DEF Records, ToSet, RecordAt

\* The frames that prepareObservations accepts have records with keys of their own.
LEMMA UsableRecords ==
  ASSUME frames \in Inputs, ~Unusable
  PROVE  /\ Records # {}
         /\ \A r, s \in Records : r.frame = s.frame /\ r.source = s.source => r = s
<1> DEFINE Observation == [source : Nat, point : Points, target : Int, weight : Int]
           Frame == [frame : Nat, observations : Seq(Observation)]
<1>1. frames \in Seq(Frame)
  BY InputsAssumption
<1>2. /\ frames # <<>>
      /\ \A i, j \in DOMAIN frames : frames[i].frame = frames[j].frame => i = j
      /\ \A i \in DOMAIN frames : \A k, l \in DOMAIN frames[i].observations :
           frames[i].observations[k].source = frames[i].observations[l].source => k = l
      /\ \A i \in DOMAIN frames : \E k \in DOMAIN frames[i].observations : TRUE
  BY DEF Unusable
<1>3. 1 \in DOMAIN frames
  BY <1>1, <1>2
<1>4. PICK k \in DOMAIN frames[1].observations : TRUE
  BY <1>2, <1>3
<1>5. Records # {}
  BY <1>3, RecordsAre
<1>6. ASSUME NEW r \in Records, NEW s \in Records, r.frame = s.frame, r.source = s.source
      PROVE  r = s
  <2>1. PICK i \in DOMAIN frames : \E k1 \in DOMAIN frames[i].observations : r = RecordAt(i, k1)
    BY RecordsAre
  <2>2. PICK m \in DOMAIN frames[i].observations : r = RecordAt(i, m)
    BY <2>1
  <2>3. PICK j \in DOMAIN frames : \E k1 \in DOMAIN frames[j].observations : s = RecordAt(j, k1)
    BY RecordsAre
  <2>4. PICK l \in DOMAIN frames[j].observations : s = RecordAt(j, l)
    BY <2>3
  <2>5. i = j
    BY <1>2, <1>6, <2>2, <2>4 DEF RecordAt
  <2>6. m = l
    BY <1>2, <1>6, <2>2, <2>4, <2>5 DEF RecordAt
  <2> QED BY <2>2, <2>4, <2>5, <2>6
<1> QED BY <1>5, <1>6

\* Frames and records are listed by their keys, whatever order they came in.
LEMMA FlattenedLists ==
  ASSUME frames \in Inputs, ~Unusable
  PROVE  /\ Len(Flattened) \in Nat /\ Lists(Flattened, Len(Flattened), Records)
         /\ DOMAIN Flattened = 1..Len(Flattened)
         /\ \A i, j \in 1..Len(Flattened) : i < j => Earlier(Flattened[i], Flattened[j])
<1> DEFINE T == Records
           R == { p \in T \X T : Earlier(p[1], p[2]) }
           n == Cardinality(T)
<1>1. IsFiniteSet(T) /\ T \subseteq RecordSet /\ n \in Nat
  BY RecordsType, FS_CardinalityType
<1>2. \A r, s \in T : <<r, s>> \in R <=> Earlier(r, s)
  OBVIOUS
<1>3. \A r \in T : r.frame \in Nat /\ r.source \in Nat
  BY <1>1 DEF RecordSet
<1>4. Orders(R, T)
  <2>1. \A r, s \in T : r.frame = s.frame /\ r.source = s.source => r = s
    BY UsableRecords
  <2> HIDE DEF R, T
  <2>2. \A x \in T : <<x, x>> \notin R
    BY <1>2, <1>3 DEF Earlier
  <2>3. \A x, y \in T : x = y \/ <<x, y>> \in R \/ <<y, x>> \in R
    <3> SUFFICES ASSUME NEW x \in T, NEW y \in T, x # y PROVE Earlier(x, y) \/ Earlier(y, x)
      BY <1>2
    <3>1. x.frame # y.frame \/ x.source # y.source
      BY <2>1
    <3> QED BY <1>3, <3>1 DEF Earlier
  <2>4. \A x, y, z \in T : <<x, y>> \in R /\ <<y, z>> \in R => <<x, z>> \in R
    BY <1>2, <1>3 DEF Earlier
  <2> QED BY <2>2, <2>3, <2>4 DEF Orders
<1>5. \A r \in T : Below(R, T, r) = { s \in T : Earlier(s, r) }
  BY DEF Below
<1> DEFINE q == Flattened
<1>6. q = [i \in 1..n |-> CHOOSE r \in T : Cardinality(Below(R, T, r)) = i - 1]
  <2>1. \A i \in 1..n : (CHOOSE r \in T : Cardinality(Below(R, T, r)) = i - 1)
                        = CHOOSE r \in T : Cardinality({ s \in T : Earlier(s, r) }) = i - 1
    BY <1>5
  <2> QED BY <2>1 DEF Flattened
<1> HIDE DEF q, R, T
<1>7. \A i \in 1..n : \E r \in T : Cardinality(Below(R, T, r)) = i - 1
  BY <1>1, <1>4, RankTaken
<1>8. q \in [1..n -> T] /\ \A i \in 1..n : Cardinality(Below(R, T, q[i])) = i - 1
  BY <1>6, <1>7
<1>9. Ascending(q, n, R, T)
  BY <1>1, <1>4, <1>8, RankedAscends
<1>10. Len(q) = n /\ DOMAIN q = 1..n
  BY <1>1, <1>8
<1>11. Lists(q, n, T)
  BY <1>9 DEF Ascending, Lists
<1>12. \A i, j \in 1..n : i < j => Earlier(q[i], q[j])
  BY <1>2, <1>8, <1>9 DEF Ascending
<1> QED BY <1>1, <1>10, <1>11, <1>12 DEF q, T

-----------------------------------------------------------------------------
(* Nearest ranks                                                           *)

\* The rank of Percentile, among n.
Clamp(rank, n) == IF rank < 1 THEN 1 ELSE IF rank > n THEN n ELSE rank
RankOf(n, percent) == Clamp((percent * n + 99) \div 100, n)

\* k is the first of n places that a share of percent reaches.
Reaches(k, n, percent) == k \in 1..n /\ 100 * k >= percent * n /\ 100 * (k - 1) < percent * n

\* The rank is the first place that its share reaches.
LEMMA RankOfIs ==
  ASSUME NEW n \in Nat \ {0}, NEW percent \in {50, 95}
  PROVE  Reaches(RankOf(n, percent), n, percent)
<1>1. CASE percent = 50
  BY <1>1 DEF RankOf, Clamp, Reaches
<1>2. CASE percent = 95
  BY <1>2 DEF RankOf, Clamp, Reaches
<1> QED BY <1>1, <1>2

\* The value that nearestRank takes is that of one of the errors: enough of them do
\* not exceed it, and too few are less.
IsPercentile(value, errors, n, percent) ==
  \E k \in 1..n :
    /\ value = errors[k]
    /\ 100 * Cardinality({ i \in 1..n : errors[i] <= errors[k] }) >= percent * n
    /\ 100 * Cardinality({ i \in 1..n : errors[i] < errors[k] }) < percent * n

\* A percentile is the nearest rank of the errors.
LEMMA PercentileIs ==
  ASSUME NEW n \in Nat \ {0}, NEW errors \in [1..n -> Nat], NEW percent \in {50, 95}
  PROVE  IsPercentile(Percentile(errors, percent), errors, n, percent)
<1> DEFINE T == 1..n
           Before(k, l) == errors[k] < errors[l] \/ (errors[k] = errors[l] /\ k < l)
           R == { p \in T \X T : Before(p[1], p[2]) }
           rank == RankOf(n, percent)
<1>1. rank \in 1..n /\ 100 * rank >= percent * n /\ 100 * (rank - 1) < percent * n
  <2>1. Reaches(rank, n, percent)
    BY RankOfIs
  <2> HIDE DEF rank
  <2> QED BY <2>1 DEF Reaches
<1>2. IsFiniteSet(T) /\ Cardinality(T) = n
  BY CountingTo
<1>3. \A k, l \in T : <<k, l>> \in R <=> Before(k, l)
  OBVIOUS
<1>4. \A k \in T : errors[k] \in Nat /\ k \in Nat
  OBVIOUS
<1>5. Orders(R, T)
  <2> HIDE DEF R, T
  <2>1. \A x \in T : <<x, x>> \notin R
    BY <1>3, <1>4
  <2>2. ASSUME NEW x \in T, NEW y \in T, x # y PROVE <<x, y>> \in R \/ <<y, x>> \in R
    <3>1. x < y \/ y < x
      BY <1>4, <2>2
    <3> QED BY <1>3, <1>4, <3>1
  <2>3. \A x, y, z \in T : <<x, y>> \in R /\ <<y, z>> \in R => <<x, z>> \in R
    BY <1>3, <1>4
  <2> QED BY <2>1, <2>2, <2>3 DEF Orders
<1>6. DOMAIN errors = T /\ Len(errors) = n
  OBVIOUS
<1>7. \A k \in T : Below(R, T, k) = { l \in DOMAIN errors : Before(l, k) }
  BY <1>6 DEF Below
<1> DEFINE Takes(k) == Cardinality({ l \in DOMAIN errors : Before(l, k) }) = rank - 1
           k0 == CHOOSE k \in DOMAIN errors : Takes(k)
<1>8. Percentile(errors, percent) = errors[k0]
  <2>1. Sorted(errors)[rank] = errors[k0]
    BY <1>1, <1>6 DEF Sorted
  <2>2. Percentile(errors, percent) = Sorted(errors)[rank]
    BY <1>6 DEF Percentile, RankOf, Clamp
  <2> QED BY <2>1, <2>2
<1>9. \E k \in T : Cardinality(Below(R, T, k)) = rank - 1
  <2> HIDE DEF R, T, rank
  <2>1. \A i \in 1..Cardinality(T) : \E k \in T : Cardinality(Below(R, T, k)) = i - 1
    <3>1. PICK V, Q : V = T /\ Q = R
      OBVIOUS
    <3>2. IsFiniteSet(V) /\ Orders(Q, V)
      BY <1>2, <1>5, <3>1
    <3>3. \A i \in 1..Cardinality(V) : \E k \in V : Cardinality(Below(Q, V, k)) = i - 1
      BY <3>2, RankTaken
    <3> QED BY <3>1, <3>3
  <2>2. rank \in 1..Cardinality(T)
    BY <1>1, <1>2
  <2> QED BY <2>1, <2>2
<1>10. k0 \in T /\ Cardinality(Below(R, T, k0)) = rank - 1
  <2>1. \A k \in T : Takes(k) <=> Cardinality(Below(R, T, k)) = rank - 1
    BY <1>7
  <2>2. \E k \in DOMAIN errors : Takes(k)
    <3> HIDE DEF R, Takes
    <3> QED BY <1>6, <1>9, <2>1
  <2>3. k0 \in DOMAIN errors /\ Takes(k0)
    <3> HIDE DEF Takes
    <3> QED BY <2>2
  <2> HIDE DEF k0, Takes, R
  <2> QED BY <1>6, <2>1, <2>3
<1> HIDE DEF k0
<1> DEFINE B == Below(R, T, k0)
           AtMost == { i \in 1..n : errors[i] <= errors[k0] }
           Less == { i \in 1..n : errors[i] < errors[k0] }
<1>11. IsFiniteSet(B) /\ k0 \notin B /\ Cardinality(B) = rank - 1
  <2>1. IsFiniteSet(B)
    <3> HIDE DEF R, T
    <3> QED BY <1>2, <1>5, <1>10, BelowSize
  <2>2. k0 \notin B
    BY <1>5, <1>10 DEF Below, Orders
  <2> QED BY <1>10, <2>1, <2>2
<1>12. B \cup {k0} \subseteq AtMost /\ Less \subseteq B
  <2>1. k0 \in 1..n /\ errors[k0] \in Nat
    BY <1>10
  <2>2. \A i \in B : i \in 1..n /\ Before(i, k0)
    BY <1>3, <1>10 DEF Below
  <2>3. \A i \in B : errors[i] <= errors[k0]
    BY <1>4, <2>1, <2>2
  <2>4. Less \subseteq B
    BY <1>3, <1>10 DEF Below
  <2> HIDE DEF B
  <2> QED BY <2>1, <2>2, <2>3, <2>4
<1>13. IsFiniteSet(AtMost) /\ IsFiniteSet(Less)
  BY <1>2, FS_Subset
<1> HIDE DEF B, AtMost, Less, rank
<1>14. Cardinality(AtMost) >= rank
  <2>1. IsFiniteSet(B \cup {k0}) /\ Cardinality(B \cup {k0}) = Cardinality(B) + 1
    BY <1>11, FS_AddElement
  <2>2. Cardinality(B \cup {k0}) <= Cardinality(AtMost)
    BY <1>12, <1>13, FS_Subset
  <2>3. Cardinality(B \cup {k0}) = rank
    BY <1>1, <1>11, <2>1
  <2> QED BY <2>2, <2>3
<1>15. Cardinality(Less) <= rank - 1
  BY <1>11, <1>12, FS_Subset
<1>16. Cardinality(AtMost) \in Nat /\ Cardinality(Less) \in Nat
  BY <1>13, FS_CardinalityType
<1>17. /\ 100 * Cardinality(AtMost) >= percent * n
       /\ 100 * Cardinality(Less) < percent * n
  <2>1. percent * n \in Nat /\ rank \in Nat
    BY <1>1
  <2> QED BY <1>1, <1>14, <1>15, <1>16, <2>1
<1> QED BY <1>8, <1>10, <1>17 DEF AtMost, Less, IsPercentile

-----------------------------------------------------------------------------
(* The errors of a set of records                                          *)

\* errors are those of the members of P, in some order.
ErrorsOf(errors, c, P) ==
  \E f \in [1..Len(errors) -> P] :
     Lists(f, Len(errors), P) /\ \A k \in 1..Len(errors) : errors[k] = Residual(c, f[k])

\* A percentile of the errors of records is a nearest rank of the records.
LEMMA RankIsOfRecords ==
  ASSUME NEW c \in Corrections, NEW P, P \subseteq RecordSet,
         NEW errors \in Seq(Int), errors # <<>>, ErrorsOf(errors, c, P), NEW percent \in {50, 95}
  PROVE  P # {} /\ IsRank(<<Percentile(errors, percent)>>, c, P, percent)
<1> DEFINE n == Len(errors)
<1>1. n \in Nat \ {0} /\ DOMAIN errors = 1..n /\ errors \in [1..n -> Int]
  BY EmptySeq
<1>2. PICK f : Lists(f, n, P) /\ \A k \in 1..n : errors[k] = Residual(c, f[k])
  BY DEF ErrorsOf
<1> HIDE DEF n
<1>3. \A r \in P : Residual(c, r) \in Nat
  BY SightType
<1>4. \A k \in 1..n : f[k] \in P
  BY <1>2 DEF Lists
<1>5. errors \in [1..n -> Nat]
  BY <1>1, <1>2, <1>3, <1>4
<1>6. PICK k \in 1..n :
           /\ Percentile(errors, percent) = errors[k]
           /\ 100 * Cardinality({ i \in 1..n : errors[i] <= errors[k] }) >= percent * n
           /\ 100 * Cardinality({ i \in 1..n : errors[i] < errors[k] }) < percent * n
  <2>1. IsPercentile(Percentile(errors, percent), errors, n, percent)
    BY <1>1, <1>5, PercentileIs
  <2> QED BY <2>1 DEF IsPercentile
<1> DEFINE r == f[k]
           A == { s \in P : Residual(c, s) <= Residual(c, r) }
           B == { s \in P : Residual(c, s) < Residual(c, r) }
<1>7. r \in P /\ P # {} /\ Percentile(errors, percent) = Residual(c, r)
  BY <1>2, <1>4, <1>6
<1>8. /\ { i \in 1..n : errors[i] <= errors[k] } = { i \in 1..n : f[i] \in A }
      /\ { i \in 1..n : errors[i] < errors[k] } = { i \in 1..n : f[i] \in B }
  BY <1>2, <1>4
<1>9. A \subseteq P /\ B \subseteq P /\ n \in Nat
  BY <1>1
<1> HIDE DEF A, B, r
<1>10. /\ Cardinality({ i \in 1..n : f[i] \in A }) = Cardinality(A)
       /\ Cardinality({ i \in 1..n : f[i] \in B }) = Cardinality(B)
       /\ Cardinality(P) = n
  <2>1. Lists(f, n, P)
    BY <1>2
  <2>2. Cardinality(P) = n
    BY <1>9, <2>1, ListedSize
  <2> QED BY <1>9, <2>1, <2>2, ListingCounts
<1>11. /\ 100 * Cardinality(A) >= percent * Cardinality(P)
       /\ 100 * Cardinality(B) < percent * Cardinality(P)
  BY <1>6, <1>8, <1>10
<1> QED BY <1>7, <1>11 DEF IsRank, A, B

\* No errors, no records.
LEMMA NoErrors ==
  ASSUME NEW c, NEW P, ErrorsOf(<<>>, c, P) PROVE P = {}
<1>1. PICK f : Lists(f, 0, P)
  BY DEF ErrorsOf
<1> QED BY <1>1 DEF Lists

\* The mean square does not depend on the order either.
LEMMA SquaresAreOfRecords ==
  ASSUME NEW c \in Corrections, NEW P, P \subseteq RecordSet,
         NEW errors \in Seq(Int), ErrorsOf(errors, c, P)
  PROVE  /\ SumFunction([k \in DOMAIN errors |-> errors[k] * errors[k]])
              = SumFunction([r \in P |-> Residual(c, r) * Residual(c, r)])
         /\ Len(errors) = Cardinality(P)
<1> DEFINE n == Len(errors)
           h == [k \in DOMAIN errors |-> errors[k] * errors[k]]
           g == [r \in P |-> Residual(c, r) * Residual(c, r)]
<1>1. n \in Nat /\ DOMAIN errors = 1..n /\ errors \in [1..n -> Int]
  OBVIOUS
<1>2. PICK f : Lists(f, n, P) /\ \A k \in 1..n : errors[k] = Residual(c, f[k])
  BY DEF ErrorsOf
<1> HIDE DEF n
<1>3. \A k \in 1..n : f[k] \in P
  BY <1>2 DEF Lists
<1>4. \A k \in 1..n : h[k] = g[f[k]] /\ h[k] \in Int
  <2> SUFFICES ASSUME NEW k \in 1..n PROVE h[k] = g[f[k]] /\ h[k] \in Int
    OBVIOUS
  <2>1. errors[k] \in Int /\ errors[k] = Residual(c, f[k]) /\ f[k] \in P
    BY <1>1, <1>2, <1>3
  <2>2. h[k] = errors[k] * errors[k] /\ g[f[k]] = Residual(c, f[k]) * Residual(c, f[k])
    BY <1>1, <2>1
  <2> HIDE DEF h, g
  <2> QED BY <2>1, <2>2
<1>5. /\ \A x, y \in 1..n : f[x] = f[y] => x = y
      /\ { f[x] : x \in 1..n } = P
  BY <1>2, <1>3 DEF Lists
<1>6. IsFiniteSet(1..n)
  BY <1>1, CountingTo
<1>7. DOMAIN h = 1..n /\ DOMAIN g = P
  BY <1>1
<1> HIDE DEF h, g
<1>8. SumFunctionOnSet(h, 1..n) = SumFunctionOnSet(g, { f[x] : x \in 1..n })
  <2>1. PICK A : A = 1..n
    OBVIOUS
  <2>2. /\ IsFiniteSet(A) /\ \A x \in A : h[x] = g[f[x]] /\ h[x] \in Int
        /\ \A x, y \in A : f[x] = f[y] => x = y
    BY <1>4, <1>5, <1>6, <2>1
  <2>3. SumFunctionOnSet(h, A) = SumFunctionOnSet(g, { f[x] : x \in A })
    BY <2>2, SumRenamed
  <2> QED BY <2>1, <2>3
<1>9. SumFunction(h) = SumFunction(g)
  BY <1>5, <1>7, <1>8 DEF SumFunction
<1>10. Cardinality(P) = n
  BY <1>1, <1>2, ListedSize
<1> QED BY <1>9, <1>10 DEF h, g, n

-----------------------------------------------------------------------------
(* A table                                                                 *)

\* The values that metrics and a table can take.
Metrics ==
  [counts : [Statuses -> Int], zero_weight : Int, common_visible : Int, errors : Seq(Int),
   median : Seq(Int), p95 : Seq(Int), rmse : Seq(Int)]
Tables(ids) ==
  [pooled : Metrics, frames : [ids -> Metrics],
   residuals : Seq([frame : Nat, source : Nat, predicted : BOOLEAN])]

\* Parts of a set of records.
FrameSet(T) == { r.frame : r \in T }
\* The parts of a set of records that the metrics count.
OfFrame(f, S) == { r \in S : r.frame = f }
Masked(S) == { r \in S : r.weight = 0 }
SeenIn(c, S) == { r \in S : Sees(c, r) }
WithStatus(c, S, s) == { r \in S : Seen(c, r.point).status = s }

\* The counts are those of S.
CountsOf(metrics, c, S) ==
  \A s \in Statuses : metrics.counts[s] = Cardinality(WithStatus(c, S, s))

\* What the loop of transformMetrics has gathered of the records in S.
Gathered(metrics, c, S) ==
  /\ metrics \in Metrics
  /\ metrics.zero_weight = Cardinality(Masked(S))
  /\ ErrorsOf(metrics.errors, c, SeenIn(c, S))
  /\ metrics.common_visible = 0
  /\ metrics.median = <<>> /\ metrics.p95 = <<>> /\ metrics.rmse = <<>>

\* What summarize makes of them.
RmseOf(metrics, c, P) ==
  metrics.rmse = IF P = {} THEN <<>>
                 ELSE <<SumFunction([r \in P |-> Residual(c, r) * Residual(c, r)]), Cardinality(P)>>

\* U are the common records that were marked.
Summed(metrics, c, S, U) ==
  /\ metrics \in Metrics
  /\ CountsOf(metrics, c, S)
  /\ metrics.zero_weight = Cardinality(Masked(S))
  /\ metrics.common_visible = Cardinality(U)
  /\ IsRank(metrics.median, c, SeenIn(c, S), 50)
  /\ IsRank(metrics.p95, c, SeenIn(c, S), 95)
  /\ RmseOf(metrics, c, SeenIn(c, S))

\* The residuals of the first k places of a listing q.
ResidualsOf(residuals, q, c, k) ==
  /\ Len(residuals) = k
  /\ \A i \in 1..k : residuals[i] = [frame |-> q[i].frame, source |-> q[i].source,
                                     predicted |-> Sees(c, q[i])]

\* A table over records T in the order of q: when k of them have been added, and
\* when it is finished and the common ones in U are marked.
Filling(table, q, T, c, k) ==
  /\ table \in Tables(FrameSet(T))
  /\ Gathered(table.pooled, c, Leading(q, k)) /\ CountsOf(table.pooled, c, T)
  /\ \A f \in FrameSet(T) : /\ Gathered(table.frames[f], c, OfFrame(f, Leading(q, k)))
                            /\ CountsOf(table.frames[f], c, OfFrame(f, Leading(q, k)))
  /\ ResidualsOf(table.residuals, q, c, k)
\* A finished table about the records T, which q lists, with U marked as common.
Filled(table, q, T, c, U) ==
  /\ table \in Tables(FrameSet(T))
  /\ Summed(table.pooled, c, T, U)
  /\ \A f \in FrameSet(T) : Summed(table.frames[f], c, OfFrame(f, T), OfFrame(f, U))
  /\ ResidualsOf(table.residuals, q, c, Len(q))

\* The error of a further record.
LEMMA ErrorsGoOn ==
  ASSUME NEW c, NEW P, NEW errors \in Seq(Int), ErrorsOf(errors, c, P),
         NEW r, r \notin P, Residual(c, r) \in Int
  PROVE  /\ errors \o <<Residual(c, r)>> \in Seq(Int)
         /\ ErrorsOf(errors \o <<Residual(c, r)>>, c, P \cup {r})
<1> DEFINE n == Len(errors)
           more == errors \o <<Residual(c, r)>>
<1>1. /\ n \in Nat /\ more \in Seq(Int) /\ Len(more) = n + 1
      /\ \A k \in 1..n : more[k] = errors[k]
      /\ more[n + 1] = Residual(c, r)
  OBVIOUS
<1>2. PICK f : Lists(f, n, P) /\ \A k \in 1..n : errors[k] = Residual(c, f[k])
  BY DEF ErrorsOf
<1> HIDE DEF n, more
<1>3. PICK g : g = [i \in 1..(n + 1) |-> IF i = n + 1 THEN r ELSE f[i]]
  OBVIOUS
<1>4. Lists(g, n + 1, P \cup {r})
  BY <1>1, <1>2, <1>3, ListingGoesOn
<1>5. \A k \in 1..(n + 1) : more[k] = Residual(c, g[k])
  BY <1>1, <1>2, <1>3
<1>6. g \in [1..(n + 1) -> P \cup {r}]
  BY <1>4 DEF Lists
<1>7. ErrorsOf(more, c, P \cup {r})
  BY <1>1, <1>4, <1>5, <1>6 DEF ErrorsOf
<1> QED BY <1>1, <1>7 DEF more

\* No records, no errors.
LEMMA ErrorsOfNone == ASSUME NEW c PROVE ErrorsOf(<<>>, c, {})
<1>1. PICK f : f = <<>>
  OBVIOUS
<1>2. Len(<<>>) = 0 /\ 1..0 = {}
  OBVIOUS
<1>3. f \in [1..0 -> {}]
  BY <1>1, <1>2
<1>4. Lists(f, 0, {})
  BY <1>2, <1>3 DEF Lists
<1> QED BY <1>2, <1>3, <1>4 DEF ErrorsOf

\* The parts grow with the set.
LEMMA PartsGrow ==
  ASSUME NEW S, NEW r, NEW c
  PROVE  /\ Masked(S \cup {r}) = IF r.weight = 0 THEN Masked(S) \cup {r} ELSE Masked(S)
         /\ SeenIn(c, S \cup {r}) = IF Sees(c, r) THEN SeenIn(c, S) \cup {r} ELSE SeenIn(c, S)
         /\ \A f : OfFrame(f, S \cup {r}) = IF r.frame = f THEN OfFrame(f, S) \cup {r}
                                            ELSE OfFrame(f, S)
BY DEF Masked, SeenIn, OfFrame

\* The parts of a finite set of records are finite.
LEMMA PartsAre ==
  ASSUME NEW S, NEW c, IsFiniteSet(S)
  PROVE  /\ Masked(S) \subseteq S /\ IsFiniteSet(Masked(S))
         /\ SeenIn(c, S) \subseteq S /\ IsFiniteSet(SeenIn(c, S))
         /\ \A f : OfFrame(f, S) \subseteq S /\ IsFiniteSet(OfFrame(f, S))
         /\ \A s : WithStatus(c, S, s) \subseteq S /\ IsFiniteSet(WithStatus(c, S, s))
<1>1. \A V \in SUBSET S : IsFiniteSet(V)
  BY FS_Subset
<1>2. /\ Masked(S) \in SUBSET S /\ SeenIn(c, S) \in SUBSET S
      /\ \A f : OfFrame(f, S) \in SUBSET S
      /\ \A s : WithStatus(c, S, s) \in SUBSET S
  BY DEF Masked, SeenIn, OfFrame, WithStatus
<1> QED BY <1>1, <1>2

\* What Counted changes of the metrics, and what it leaves.
LEMMA CountedIs ==
  ASSUME NEW metrics \in Metrics, NEW c \in Corrections, NEW r \in RecordSet
  PROVE  LET n == Counted(metrics, c, r) IN
         /\ n \in Metrics /\ n.counts = metrics.counts
         /\ n.zero_weight = metrics.zero_weight + (IF r.weight = 0 THEN 1 ELSE 0)
         /\ n.errors = IF Sees(c, r) THEN metrics.errors \o <<Residual(c, r)>> ELSE metrics.errors
         /\ n.common_visible = metrics.common_visible
         /\ n.median = metrics.median /\ n.p95 = metrics.p95 /\ n.rmse = metrics.rmse
<1>1. Residual(c, r) \in Int
  BY SightType
<1>2. metrics.errors \in Seq(Int) /\ metrics.zero_weight \in Int
  BY DEF Metrics
<1> DEFINE errors == metrics.errors \o (IF Sees(c, r) THEN <<Residual(c, r)>> ELSE <<>>)
           zero == metrics.zero_weight + (IF r.weight = 0 THEN 1 ELSE 0)
<1>3. errors = IF Sees(c, r) THEN metrics.errors \o <<Residual(c, r)>> ELSE metrics.errors
  <2>1. metrics.errors \o <<>> = metrics.errors
    BY <1>2, ConcatEmptySeq
  <2> QED BY <2>1
<1>4. errors \in Seq(Int) /\ zero \in Int
  BY <1>1, <1>2
<1>5. Counted(metrics, c, r) = [metrics EXCEPT !.zero_weight = zero, !.errors = errors]
  BY DEF Counted
<1> HIDE DEF errors, zero
<1>6. PICK n : n = [metrics EXCEPT !.zero_weight = zero, !.errors = errors]
  OBVIOUS
<1>7. /\ n \in Metrics /\ n.counts = metrics.counts /\ n.zero_weight = zero /\ n.errors = errors
      /\ n.common_visible = metrics.common_visible
      /\ n.median = metrics.median /\ n.p95 = metrics.p95 /\ n.rmse = metrics.rmse
  BY <1>4, <1>6 DEF Metrics
<1> QED BY <1>3, <1>5, <1>6, <1>7 DEF zero

\* Counted gathers one record more.
LEMMA CountedGathers ==
  ASSUME NEW metrics, NEW c \in Corrections, NEW S, NEW r \in RecordSet, IsFiniteSet(S),
         Gathered(metrics, c, S), r \notin S
  PROVE  /\ Gathered(Counted(metrics, c, r), c, S \cup {r})
         /\ Counted(metrics, c, r).counts = metrics.counts
<1>1. PICK n : n = Counted(metrics, c, r)
  OBVIOUS
<1>2. /\ metrics \in Metrics /\ ErrorsOf(metrics.errors, c, SeenIn(c, S))
      /\ metrics.errors \in Seq(Int) /\ metrics.zero_weight = Cardinality(Masked(S))
  BY DEF Gathered, Metrics
<1>3. /\ n \in Metrics /\ n.counts = metrics.counts
      /\ n.zero_weight = metrics.zero_weight + (IF r.weight = 0 THEN 1 ELSE 0)
      /\ n.errors = IF Sees(c, r) THEN metrics.errors \o <<Residual(c, r)>> ELSE metrics.errors
      /\ n.common_visible = metrics.common_visible
      /\ n.median = metrics.median /\ n.p95 = metrics.p95 /\ n.rmse = metrics.rmse
  BY <1>1, <1>2, CountedIs
<1>4. IsFiniteSet(Masked(S)) /\ r \notin Masked(S) /\ r \notin SeenIn(c, S)
  BY PartsAre
<1>5. n.zero_weight = Cardinality(Masked(S \cup {r}))
  <2>1. Masked(S \cup {r}) = IF r.weight = 0 THEN Masked(S) \cup {r} ELSE Masked(S)
    BY PartsGrow
  <2>2. Cardinality(Masked(S) \cup {r}) = Cardinality(Masked(S)) + 1 /\ Cardinality(Masked(S)) \in Nat
    BY <1>4, FS_AddElement, FS_CardinalityType
  <2> QED BY <1>2, <1>3, <2>1, <2>2
<1>6. ErrorsOf(n.errors, c, SeenIn(c, S \cup {r}))
  <2>1. SeenIn(c, S \cup {r}) = IF Sees(c, r) THEN SeenIn(c, S) \cup {r} ELSE SeenIn(c, S)
    BY PartsGrow
  <2>2. Residual(c, r) \in Int
    BY SightType
  <2>3. CASE Sees(c, r)
    <3>1. ErrorsOf(metrics.errors \o <<Residual(c, r)>>, c, SeenIn(c, S) \cup {r})
      BY <1>2, <1>4, <2>2, ErrorsGoOn
    <3> QED BY <1>3, <2>1, <2>3, <3>1
  <2>4. CASE ~Sees(c, r)
    BY <1>2, <1>3, <2>1, <2>4
  <2> QED BY <2>3, <2>4
<1> QED BY <1>1, <1>3, <1>5, <1>6 DEF Gathered

\* The summary of what was gathered from S is about S.
LEMMA SummaryIs ==
  ASSUME NEW metrics, NEW c \in Corrections, NEW S, S \subseteq RecordSet, IsFiniteSet(S),
         Gathered(metrics, c, S), CountsOf(metrics, c, S)
  PROVE  Summed(Summary(metrics), c, S, {})
<1> DEFINE P == SeenIn(c, S)
<1>1. /\ metrics \in Metrics /\ ErrorsOf(metrics.errors, c, P) /\ metrics.errors \in Seq(Int)
      /\ metrics.zero_weight = Cardinality(Masked(S)) /\ metrics.common_visible = 0
      /\ metrics.median = <<>> /\ metrics.p95 = <<>> /\ metrics.rmse = <<>>
  BY DEF Gathered, Metrics
<1>2. P \subseteq RecordSet /\ Cardinality({}) = 0
  BY PartsAre, FS_EmptySet
<1>3. CASE metrics.errors = <<>>
  <2>1. Summary(metrics) = metrics
    BY <1>3 DEF Summary
  <2>2. P = {}
    BY <1>1, <1>3, NoErrors
  <2>3. IsRank(metrics.median, c, P, 50) /\ IsRank(metrics.p95, c, P, 95) /\ RmseOf(metrics, c, P)
    BY <1>1, <2>2 DEF IsRank, RmseOf
  <2> QED BY <1>1, <1>2, <2>1, <2>3 DEF Summed
<1>4. CASE metrics.errors # <<>>
  <2> DEFINE squares ==
               SumFunction([k \in DOMAIN metrics.errors |-> metrics.errors[k] * metrics.errors[k]])
             median == <<Percentile(metrics.errors, 50)>>
             p95 == <<Percentile(metrics.errors, 95)>>
             rmse == <<squares, Len(metrics.errors)>>
             n == [metrics EXCEPT !.median = median, !.p95 = p95, !.rmse = rmse]
  <2>1. Summary(metrics) = n
    BY <1>4 DEF Summary
  <2>2. P # {} /\ IsRank(median, c, P, 50) /\ IsRank(p95, c, P, 95)
    <3> HIDE DEF P
    <3> QED BY <1>1, <1>2, <1>4, RankIsOfRecords
  <2>3. /\ squares = SumFunction([r \in P |-> Residual(c, r) * Residual(c, r)])
        /\ Len(metrics.errors) = Cardinality(P)
    <3> HIDE DEF P
    <3> QED BY <1>1, <1>2, SquaresAreOfRecords
  <2>4. median \in Seq(Int) /\ p95 \in Seq(Int)
    <3>1. \A r \in P : Residual(c, r) \in Int
      BY <1>2, SightType
    <3>2. ASSUME NEW value, NEW percent, P # {}, IsRank(value, c, P, percent) PROVE value \in Seq(Int)
      <4>1. PICK r \in P : value = <<Residual(c, r)>>
        BY <3>2 DEF IsRank
      <4> QED BY <3>1, <4>1
    <3> HIDE DEF P, median, p95
    <3> QED BY <2>2, <3>2
  <2>5. rmse \in Seq(Int)
    <3>1. squares \in Int
      <4>1. DOMAIN metrics.errors = 1..Len(metrics.errors) /\ Len(metrics.errors) \in Nat
        BY <1>1
      <4>2. PICK h : h = [k \in DOMAIN metrics.errors |-> metrics.errors[k] * metrics.errors[k]]
        OBVIOUS
      <4>3. IsFiniteSet(DOMAIN h) /\ \A k \in DOMAIN h : h[k] \in Int
        BY <1>1, <4>1, <4>2, CountingTo
      <4>4. SumFunctionOnSet(h, DOMAIN h) \in Int
        BY <4>3, SumType
      <4> QED BY <4>2, <4>4 DEF SumFunction
    <3>2. Len(metrics.errors) \in Int
      BY <1>1
    <3> HIDE DEF squares
    <3> QED BY <3>1, <3>2
  <2> HIDE DEF median, p95
  <2>6. /\ n \in Metrics /\ n.counts = metrics.counts /\ n.zero_weight = metrics.zero_weight
        /\ n.common_visible = metrics.common_visible
        /\ n.median = median /\ n.p95 = p95 /\ n.rmse = rmse
    <3> HIDE DEF rmse
    <3> QED BY <1>1, <2>4, <2>5 DEF Metrics
  <2> HIDE DEF n
  <2>7. RmseOf(n, c, P)
    BY <2>2, <2>3, <2>6 DEF RmseOf
  <2>8. CountsOf(n, c, S)
    BY <2>6 DEF CountsOf
  <2> QED BY <1>1, <1>2, <2>1, <2>2, <2>6, <2>7, <2>8 DEF Summed
<1> QED BY <1>3, <1>4

\* q lists the records T, of which there are some.
Listed(q, T) ==
  /\ Len(q) \in Nat /\ DOMAIN q = 1..Len(q) /\ Lists(q, Len(q), T)
  /\ T \subseteq RecordSet /\ IsFiniteSet(T)

\* The records listed so far, and those of a frame among them, are finitely many.
LEMMA LeadingParts ==
  ASSUME NEW q, NEW T, Listed(q, T), NEW k \in 0..Len(q)
  PROVE  /\ Leading(q, k) \subseteq RecordSet /\ IsFiniteSet(Leading(q, k))
         /\ Leading(q, k) \subseteq T
         /\ \A f : /\ OfFrame(f, Leading(q, k)) \subseteq RecordSet
                   /\ IsFiniteSet(OfFrame(f, Leading(q, k)))
<1>1. Leading(q, k) \subseteq T
  BY LeadingEnds DEF Listed
<1>2. IsFiniteSet(Leading(q, k)) /\ Leading(q, k) \subseteq RecordSet
  BY <1>1, FS_Subset DEF Listed
<1> QED BY <1>1, <1>2, PartsAre

\* A table begins with the counts of the whole cloud in the pool, and none elsewhere.
LEMMA NewTableIs ==
  ASSUME NEW T, Listed(prepared, T), NEW c \in Corrections
  PROVE  Filling(NewTable(c), prepared, T, c, 0)
<1>1. /\ Len(prepared) \in Nat /\ DOMAIN prepared = 1..Len(prepared)
      /\ Lists(prepared, Len(prepared), T) /\ T \subseteq RecordSet
  BY DEF Listed
<1>2. FrameIds = FrameSet(T)
  BY <1>1 DEF FrameIds, FrameSet, Lists
<1>3. \A s \in Statuses : Cloud(c)[s] = Cardinality(WithStatus(c, T, s)) /\ Cloud(c)[s] \in Int
  <2> SUFFICES ASSUME NEW s \in Statuses
               PROVE Cloud(c)[s] = Cardinality(WithStatus(c, T, s)) /\ Cloud(c)[s] \in Int
    OBVIOUS
  <2>1. WithStatus(c, T, s) \subseteq T /\ IsFiniteSet(WithStatus(c, T, s))
    BY PartsAre DEF Listed
  <2>2. Cardinality({ i \in 1..Len(prepared) : prepared[i] \in WithStatus(c, T, s) })
          = Cardinality(WithStatus(c, T, s))
    BY <1>1, <2>1, ListingCounts
  <2>3. { i \in 1..Len(prepared) : prepared[i] \in WithStatus(c, T, s) }
          = { i \in DOMAIN prepared : Seen(c, prepared[i].point).status = s }
    BY <1>1 DEF WithStatus, Lists
  <2>4. Cloud(c)[s] = Cardinality(WithStatus(c, T, s))
    BY <2>2, <2>3 DEF Cloud
  <2> QED BY <2>1, <2>4, FS_CardinalityType
<1>4. Cloud(c) \in [Statuses -> Int]
  BY <1>3 DEF Cloud
<1>5. /\ NoMetrics \in Metrics /\ NoMetrics.zero_weight = 0 /\ NoMetrics.errors = <<>>
      /\ NoMetrics.common_visible = 0 /\ NoMetrics.median = <<>> /\ NoMetrics.p95 = <<>>
      /\ NoMetrics.rmse = <<>> /\ \A s \in Statuses : NoMetrics.counts[s] = 0
  BY DEF NoMetrics, Metrics
<1> DEFINE pool == [NoMetrics EXCEPT !.counts = Cloud(c)]
<1>6. /\ pool \in Metrics /\ pool.zero_weight = 0 /\ pool.errors = <<>>
      /\ pool.common_visible = 0 /\ pool.median = <<>> /\ pool.p95 = <<>>
      /\ pool.rmse = <<>> /\ pool.counts = Cloud(c)
  BY <1>4, <1>5 DEF Metrics
<1>7. /\ Leading(prepared, 0) = {} /\ Cardinality({}) = 0
      /\ Masked({}) = {} /\ SeenIn(c, {}) = {}
      /\ \A f : OfFrame(f, {}) = {}
      /\ \A s : WithStatus(c, {}, s) = {}
  BY FS_EmptySet DEF Leading, Masked, SeenIn, OfFrame, WithStatus
<1> HIDE DEF pool
<1>8. Gathered(pool, c, {}) /\ CountsOf(pool, c, T)
  BY <1>3, <1>6, <1>7, ErrorsOfNone DEF Gathered, CountsOf
<1>9. Gathered(NoMetrics, c, {}) /\ CountsOf(NoMetrics, c, {})
  BY <1>5, <1>7, ErrorsOfNone DEF Gathered, CountsOf
<1> DEFINE byframe == [f \in FrameIds |-> NoMetrics]
<1>10. NewTable(c) = [pooled |-> pool, frames |-> byframe, residuals |-> <<>>]
  BY DEF NewTable, pool
<1>11. byframe \in [FrameSet(T) -> Metrics] /\ \A f \in FrameSet(T) : byframe[f] = NoMetrics
  BY <1>2, <1>5
<1> HIDE DEF byframe
<1>12. NewTable(c) \in Tables(FrameSet(T))
  BY <1>6, <1>10, <1>11 DEF Tables
<1>13. ResidualsOf(<<>>, prepared, c, 0)
  BY DEF ResidualsOf
<1>14. PICK new : new = NewTable(c)
  OBVIOUS
<1>15. new.pooled = pool /\ new.frames = byframe /\ new.residuals = <<>>
  BY <1>10, <1>14
<1>16. \A f \in FrameSet(T) : /\ Gathered(new.frames[f], c, OfFrame(f, Leading(prepared, 0)))
                              /\ CountsOf(new.frames[f], c, OfFrame(f, Leading(prepared, 0)))
  BY <1>7, <1>9, <1>11, <1>15
<1>17. Gathered(new.pooled, c, Leading(prepared, 0)) /\ CountsOf(new.pooled, c, T)
  BY <1>7, <1>8, <1>15
<1> QED BY <1>12, <1>13, <1>14, <1>15, <1>16, <1>17 DEF Filling

\* A turn of the loop adds a record to the pool and to its frame.
LEMMA WithResidualIs ==
  ASSUME NEW q, NEW T, Listed(q, T), NEW c \in Corrections, NEW table, NEW k \in 1..Len(q),
         Filling(table, q, T, c, k - 1)
  PROVE  Filling(WithResidual(table, c, q[k]), q, T, c, k)
<1> DEFINE r == q[k]
           S == Leading(q, k - 1)
<1>1. /\ Len(q) \in Nat /\ Lists(q, Len(q), T) /\ T \subseteq RecordSet /\ k - 1 \in 0..Len(q)
      /\ k \in Nat
  BY DEF Listed
<1>2. r \in T /\ r \notin S /\ Leading(q, k) = S \cup {r} /\ r \in RecordSet
  <2>1. r \in T /\ r \notin S /\ Leading(q, k) = S \cup {r}
    BY <1>1, LeadingStep
  <2> QED BY <1>1, <2>1
<1>3. IsFiniteSet(S) /\ \A f : IsFiniteSet(OfFrame(f, S)) /\ r \notin OfFrame(f, S)
  BY <1>1, <1>2, LeadingParts, PartsAre
<1>4. /\ table \in Tables(FrameSet(T)) /\ Gathered(table.pooled, c, S) /\ CountsOf(table.pooled, c, T)
      /\ \A f \in FrameSet(T) : Gathered(table.frames[f], c, OfFrame(f, S))
                                /\ CountsOf(table.frames[f], c, OfFrame(f, S))
      /\ ResidualsOf(table.residuals, q, c, k - 1)
  BY DEF Filling
<1>5. /\ table.frames \in [FrameSet(T) -> Metrics]
      /\ table.residuals \in Seq([frame : Nat, source : Nat, predicted : BOOLEAN])
      /\ r.frame \in FrameSet(T) /\ r.frame \in Nat /\ r.source \in Nat /\ Sees(c, r) \in BOOLEAN
      /\ Seen(c, r.point).status \in Statuses
  BY <1>2, <1>4, SightType DEF Tables, FrameSet, RecordSet
<1> HIDE DEF r, S
<1> DEFINE pool == Counted(table.pooled, c, r)
           one == Counted(table.frames[r.frame], c, r)
           st == Seen(c, r.point).status
           own == [one EXCEPT !.counts[st] = @ + 1]
           byframe == [table.frames EXCEPT ![r.frame] = own]
           new == [frame |-> r.frame, source |-> r.source, predicted |-> Sees(c, r)]
<1>6. WithResidual(table, c, r) = [pooled |-> pool, frames |-> byframe,
                                   residuals |-> Append(table.residuals, new)]
  BY DEF WithResidual
<1>7. Gathered(pool, c, S \cup {r}) /\ CountsOf(pool, c, T)
  <2>1. Gathered(pool, c, S \cup {r}) /\ pool.counts = table.pooled.counts
    BY <1>2, <1>3, <1>4, CountedGathers
  <2> HIDE DEF pool
  <2> QED BY <1>4, <2>1 DEF CountsOf
<1>8. Gathered(one, c, OfFrame(r.frame, S) \cup {r}) /\ one.counts = table.frames[r.frame].counts
      /\ one \in Metrics
  <2>1. Gathered(table.frames[r.frame], c, OfFrame(r.frame, S))
    BY <1>4, <1>5
  <2>2. Gathered(one, c, OfFrame(r.frame, S) \cup {r}) /\ one.counts = table.frames[r.frame].counts
    BY <1>2, <1>3, <2>1, CountedGathers
  <2> HIDE DEF one
  <2> QED BY <2>2 DEF Gathered
<1> HIDE DEF pool, one
<1>9. /\ own \in Metrics /\ own.counts = [one.counts EXCEPT ![st] = @ + 1]
      /\ own.zero_weight = one.zero_weight /\ own.errors = one.errors
      /\ own.common_visible = one.common_visible
      /\ own.median = one.median /\ own.p95 = one.p95 /\ own.rmse = one.rmse
  <2>1. one.counts \in [Statuses -> Int] /\ st \in Statuses
    BY <1>5, <1>8 DEF Metrics
  <2>2. [one.counts EXCEPT ![st] = @ + 1] \in [Statuses -> Int]
    BY <2>1
  <2>3. own = [one EXCEPT !.counts = [one.counts EXCEPT ![st] = @ + 1]]
    BY <1>8 DEF Metrics
  <2> HIDE DEF own
  <2>4. PICK counts : counts = [one.counts EXCEPT ![st] = @ + 1]
    OBVIOUS
  <2> HIDE DEF st
  <2>5. own = [one EXCEPT !.counts = counts] /\ counts \in [Statuses -> Int]
    BY <2>2, <2>3, <2>4
  <2> QED BY <1>8, <2>4, <2>5 DEF Metrics
<1>10. Gathered(own, c, OfFrame(r.frame, S) \cup {r})
  <2> HIDE DEF own
  <2> QED BY <1>8, <1>9 DEF Gathered
<1>11. CountsOf(own, c, OfFrame(r.frame, S) \cup {r})
  <2> SUFFICES ASSUME NEW s \in Statuses
               PROVE  own.counts[s] = Cardinality(WithStatus(c, OfFrame(r.frame, S) \cup {r}, s))
    BY DEF CountsOf
  <2>1. one.counts[s] = Cardinality(WithStatus(c, OfFrame(r.frame, S), s)) /\ s \in DOMAIN one.counts
    BY <1>4, <1>5, <1>8 DEF CountsOf, Metrics
  <2>2. WithStatus(c, OfFrame(r.frame, S) \cup {r}, s) =
          IF st = s THEN WithStatus(c, OfFrame(r.frame, S), s) \cup {r}
          ELSE WithStatus(c, OfFrame(r.frame, S), s)
    <3>1. PICK V, x : V = OfFrame(r.frame, S) /\ x = r
      OBVIOUS
    <3>2. WithStatus(c, V \cup {x}, s) =
            IF Seen(c, x.point).status = s THEN WithStatus(c, V, s) \cup {x} ELSE WithStatus(c, V, s)
      BY DEF WithStatus
    <3> QED BY <3>1, <3>2
  <2>3. /\ IsFiniteSet(WithStatus(c, OfFrame(r.frame, S), s))
        /\ r \notin WithStatus(c, OfFrame(r.frame, S), s)
    BY <1>3, PartsAre
  <2>4. Cardinality(WithStatus(c, OfFrame(r.frame, S), s) \cup {r})
          = Cardinality(WithStatus(c, OfFrame(r.frame, S), s)) + 1
    BY <2>3, FS_AddElement
  <2>5. own.counts[s] = IF st = s THEN one.counts[s] + 1 ELSE one.counts[s]
    <3> HIDE DEF own
    <3> QED BY <1>9, <2>1
  <2> HIDE DEF own, st
  <2> QED BY <2>1, <2>2, <2>4, <2>5
<1> HIDE DEF own, st
<1>12. /\ byframe \in [FrameSet(T) -> Metrics]
       /\ \A f \in FrameSet(T) : byframe[f] = IF f = r.frame THEN own ELSE table.frames[f]
  BY <1>5, <1>9
<1> HIDE DEF byframe
<1>13. ASSUME NEW f \in FrameSet(T)
       PROVE  /\ Gathered(byframe[f], c, OfFrame(f, S \cup {r}))
              /\ CountsOf(byframe[f], c, OfFrame(f, S \cup {r}))
  <2>1. OfFrame(f, S \cup {r}) = IF r.frame = f THEN OfFrame(f, S) \cup {r} ELSE OfFrame(f, S)
    BY PartsGrow
  <2>2. CASE f = r.frame
    BY <1>10, <1>11, <1>12, <2>1, <2>2
  <2>3. CASE f # r.frame
    BY <1>4, <1>12, <2>1, <2>3
  <2> QED BY <2>2, <2>3
<1>14. /\ Append(table.residuals, new) \in Seq([frame : Nat, source : Nat, predicted : BOOLEAN])
       /\ ResidualsOf(Append(table.residuals, new), q, c, k)
  <2>1. new \in [frame : Nat, source : Nat, predicted : BOOLEAN]
    BY <1>5
  <2>2. Len(table.residuals) = k - 1
    BY <1>4 DEF ResidualsOf
  <2>3. PICK X : X = [frame : Nat, source : Nat, predicted : BOOLEAN]
    OBVIOUS
  <2>4. table.residuals \in Seq(X) /\ new \in X
    BY <1>5, <2>1, <2>3
  <2>5. PICK e, rs : e = new /\ rs = table.residuals
    OBVIOUS
  <2>6. /\ Append(rs, e) \in Seq(X) /\ Len(Append(rs, e)) = k
        /\ \A i \in 1..(k - 1) : Append(rs, e)[i] = rs[i]
        /\ Append(rs, e)[k] = e
    BY <1>1, <2>2, <2>4, <2>5
  <2>7. \A i \in 1..k : i \in 1..(k - 1) \/ i = k
    BY <1>1
  <2>8. ResidualsOf(Append(rs, e), q, c, k)
    BY <1>4, <2>5, <2>6, <2>7 DEF ResidualsOf, r
  <2> QED BY <2>3, <2>5, <2>6, <2>8
<1> HIDE DEF new
<1>15. WithResidual(table, c, r) \in Tables(FrameSet(T))
  BY <1>6, <1>7, <1>12, <1>14 DEF Tables, Gathered
<1>16. PICK next1 : next1 = WithResidual(table, c, r)
  OBVIOUS
<1>17. next1.pooled = pool /\ next1.frames = byframe
       /\ next1.residuals = Append(table.residuals, new)
  BY <1>6, <1>16
<1>18. Filling(next1, q, T, c, k)
  BY <1>2, <1>7, <1>13, <1>14, <1>15, <1>16, <1>17 DEF Filling
<1> QED BY <1>16, <1>18 DEF r

\* The pool and the frames are summarised.
Closed(table, ids) ==
  [table EXCEPT !.pooled = Summary(@), !.frames = [f \in ids |-> Summary(table.frames[f])]]

\* A table filled to its end and summarised is finished.
LEMMA ClosedIs ==
  ASSUME NEW q, NEW T, Listed(q, T), NEW c \in Corrections, NEW table,
         Filling(table, q, T, c, Len(q))
  PROVE  Filled(Closed(table, FrameSet(T)), q, T, c, {})
<1>1. /\ Len(q) \in Nat /\ Lists(q, Len(q), T) /\ T \subseteq RecordSet /\ IsFiniteSet(T)
  BY DEF Listed
<1>2. Leading(q, Len(q)) = T
  BY <1>1, LeadingEnds
<1>3. /\ table \in Tables(FrameSet(T)) /\ Gathered(table.pooled, c, T) /\ CountsOf(table.pooled, c, T)
      /\ \A f \in FrameSet(T) : Gathered(table.frames[f], c, OfFrame(f, T))
                                /\ CountsOf(table.frames[f], c, OfFrame(f, T))
      /\ ResidualsOf(table.residuals, q, c, Len(q))
  BY <1>2 DEF Filling
<1> DEFINE pool == Summary(table.pooled)
           byframe == [f \in FrameSet(T) |-> Summary(table.frames[f])]
<1>4. Summed(pool, c, T, {})
  BY <1>1, <1>3, SummaryIs
<1>5. \A f : OfFrame(f, {}) = {}
  BY DEF OfFrame
<1>6. ASSUME NEW f \in FrameSet(T) PROVE Summed(Summary(table.frames[f]), c, OfFrame(f, T), {})
  <2>1. OfFrame(f, T) \subseteq RecordSet /\ IsFiniteSet(OfFrame(f, T))
    BY <1>1, PartsAre
  <2> QED BY <1>3, <2>1, SummaryIs
<1>7. pool \in Metrics /\ \A f \in FrameSet(T) : Summary(table.frames[f]) \in Metrics
  BY <1>4, <1>6 DEF Summed
<1>8. /\ byframe \in [FrameSet(T) -> Metrics]
      /\ \A f \in FrameSet(T) : byframe[f] = Summary(table.frames[f])
  BY <1>7
<1> HIDE DEF pool, byframe
<1>9. PICK new : new = [table EXCEPT !.pooled = pool, !.frames = byframe]
  OBVIOUS
<1>10. /\ new \in Tables(FrameSet(T)) /\ new.pooled = pool /\ new.frames = byframe
       /\ new.residuals = table.residuals
  BY <1>3, <1>7, <1>8, <1>9 DEF Tables
<1>11. Closed(table, FrameSet(T)) = new
  BY <1>3, <1>9 DEF Closed, pool, byframe, Tables
<1> QED BY <1>3, <1>4, <1>5, <1>6, <1>8, <1>10, <1>11 DEF Filled

\* The last loop marks a record in the pool and in its frame.
MarkedTable(table, f, one) ==
  [table EXCEPT !.pooled.common_visible = @ + one, !.frames[f].common_visible = @ + one]

\* One more common record, or none.
LEMMA MarkedMetrics ==
  ASSUME NEW metrics, NEW c, NEW S, NEW U, NEW r, NEW one \in {0, 1}, IsFiniteSet(U), r \notin U,
         Summed(metrics, c, S, U)
  PROVE  Summed([metrics EXCEPT !.common_visible = @ + one], c, S, IF one = 1 THEN U \cup {r} ELSE U)
<1>1. metrics \in Metrics /\ metrics.common_visible = Cardinality(U) /\ Cardinality(U) \in Nat
  BY FS_CardinalityType DEF Summed
<1>2. PICK n : n = [metrics EXCEPT !.common_visible = @ + one]
  OBVIOUS
<1>3. /\ n \in Metrics /\ n.counts = metrics.counts /\ n.zero_weight = metrics.zero_weight
      /\ n.common_visible = metrics.common_visible + one
      /\ n.median = metrics.median /\ n.p95 = metrics.p95 /\ n.rmse = metrics.rmse
  <2>1. PICK v : v = metrics.common_visible + one
    OBVIOUS
  <2>2. v \in Int /\ n = [metrics EXCEPT !.common_visible = v]
    BY <1>1, <1>2, <2>1
  <2> QED BY <1>1, <2>1, <2>2 DEF Metrics
<1>4. Cardinality(U \cup {r}) = Cardinality(U) + 1
  BY FS_AddElement
<1>5. n.common_visible = Cardinality(IF one = 1 THEN U \cup {r} ELSE U)
  BY <1>1, <1>3, <1>4
<1>6. CountsOf(n, c, S) /\ RmseOf(n, c, SeenIn(c, S))
  BY <1>3 DEF Summed, CountsOf, RmseOf
<1> QED BY <1>2, <1>3, <1>5, <1>6 DEF Summed

\* The same, in the pooled metrics and in those of its frame.
LEMMA MarkedTableIs ==
  ASSUME NEW q, NEW T, Listed(q, T), NEW c, NEW table, NEW U, U \subseteq T, NEW r \in T, r \notin U,
         NEW one \in {0, 1}, Filled(table, q, T, c, U)
  PROVE  Filled(MarkedTable(table, r.frame, one), q, T, c, IF one = 1 THEN U \cup {r} ELSE U)
<1> DEFINE V == IF one = 1 THEN U \cup {r} ELSE U
           pool == [table.pooled EXCEPT !.common_visible = @ + one]
           own == [table.frames[r.frame] EXCEPT !.common_visible = @ + one]
           byframe == [table.frames EXCEPT ![r.frame] = own]
<1>1. /\ table \in Tables(FrameSet(T)) /\ Summed(table.pooled, c, T, U)
      /\ \A f \in FrameSet(T) : Summed(table.frames[f], c, OfFrame(f, T), OfFrame(f, U))
      /\ ResidualsOf(table.residuals, q, c, Len(q))
  BY DEF Filled
<1>2. IsFiniteSet(U) /\ \A f : IsFiniteSet(OfFrame(f, U)) /\ r \notin OfFrame(f, U)
  <2>1. IsFiniteSet(U)
    BY FS_Subset DEF Listed
  <2> QED BY <2>1, PartsAre
<1>3. r.frame \in FrameSet(T) /\ table.frames \in [FrameSet(T) -> Metrics]
  BY <1>1 DEF FrameSet, Tables
<1>4. Summed(pool, c, T, V)
  BY <1>1, <1>2, MarkedMetrics
<1>5. Summed(own, c, OfFrame(r.frame, T),
             IF one = 1 THEN OfFrame(r.frame, U) \cup {r} ELSE OfFrame(r.frame, U))
  BY <1>1, <1>2, <1>3, MarkedMetrics
<1>6. \A f : OfFrame(f, V) = IF one = 1 /\ r.frame = f THEN OfFrame(f, U) \cup {r} ELSE OfFrame(f, U)
  <2>1. \A f : OfFrame(f, U \cup {r}) = IF r.frame = f THEN OfFrame(f, U) \cup {r} ELSE OfFrame(f, U)
    BY PartsGrow
  <2> QED BY <2>1
<1>7. MarkedTable(table, r.frame, one) = [table EXCEPT !.pooled = pool, !.frames = byframe]
  BY <1>1, <1>3 DEF MarkedTable, Tables
<1>8. pool \in Metrics /\ own \in Metrics
  BY <1>4, <1>5 DEF Summed
<1> HIDE DEF V, pool, own
<1>9. /\ byframe \in [FrameSet(T) -> Metrics]
      /\ \A f \in FrameSet(T) : byframe[f] = IF f = r.frame THEN own ELSE table.frames[f]
  BY <1>3, <1>8
<1> HIDE DEF byframe
<1>10. PICK new : new = [table EXCEPT !.pooled = pool, !.frames = byframe]
  OBVIOUS
<1>11. /\ new \in Tables(FrameSet(T)) /\ new.pooled = pool /\ new.frames = byframe
       /\ new.residuals = table.residuals
  BY <1>1, <1>8, <1>9, <1>10 DEF Tables
<1>12. ASSUME NEW f \in FrameSet(T) PROVE Summed(byframe[f], c, OfFrame(f, T), OfFrame(f, V))
  <2>1. CASE f = r.frame
    BY <1>5, <1>6, <1>9, <2>1
  <2>2. CASE f # r.frame
    BY <1>1, <1>6, <1>9, <2>2
  <2> QED BY <2>1, <2>2
<1> QED BY <1>1, <1>4, <1>7, <1>10, <1>11, <1>12 DEF Filled, V

-----------------------------------------------------------------------------
(* An evaluation                                                           *)

\* The statuses are five.
LEMMA StatusesAreFinite == IsFiniteSet(Statuses)
<1>1. ASSUME NEW V, NEW x, IsFiniteSet(V) PROVE IsFiniteSet(V \cup {x})
  BY <1>1, FS_AddElement
<1>2. IsFiniteSet({})
  BY FS_EmptySet
<1>3. IsFiniteSet({} \cup {"visible"})
  BY <1>1, <1>2
<1>4. IsFiniteSet(({} \cup {"visible"}) \cup {"non_finite_input"})
  BY <1>1, <1>3
<1>5. IsFiniteSet((({} \cup {"visible"}) \cup {"non_finite_input"}) \cup {"behind_or_too_near"})
  BY <1>1, <1>4
<1>6. IsFiniteSet(((({} \cup {"visible"}) \cup {"non_finite_input"}) \cup {"behind_or_too_near"})
                   \cup {"non_positive_homogeneous_depth"})
  BY <1>1, <1>5
<1>7. IsFiniteSet((((({} \cup {"visible"}) \cup {"non_finite_input"}) \cup {"behind_or_too_near"})
                   \cup {"non_positive_homogeneous_depth"}) \cup {"outside_image"})
  BY <1>1, <1>6
<1>8. Statuses = (((({} \cup {"visible"}) \cup {"non_finite_input"}) \cup {"behind_or_too_near"})
                   \cup {"non_positive_homogeneous_depth"}) \cup {"outside_image"}
  BY DEF Statuses
<1> QED BY <1>7, <1>8

\* The counts of a cloud are those of all its records.
LEMMA CloudAddsUp ==
  ASSUME NEW T, Listed(prepared, T), NEW c \in Corrections
  PROVE  SumFunction(Cloud(c)) = Len(prepared)
<1> DEFINE D == DOMAIN prepared
           st == [i \in D |-> Seen(c, prepared[i].point).status]
           n == Cloud(c)
<1>1. D = 1..Len(prepared) /\ Len(prepared) \in Nat /\ \A i \in D : prepared[i] \in RecordSet
  BY DEF Listed, Lists
<1>2. IsFiniteSet(D) /\ Cardinality(D) = Len(prepared)
  BY <1>1, CountingTo
<1>3. \A i \in D : st[i] \in Statuses
  BY <1>1, SightType
<1>4. DOMAIN n = Statuses /\ CountsClasses(n, D, st)
  <2>1. /\ DOMAIN n = Statuses
        /\ \A s \in Statuses :
             n[s] = Cardinality({ i \in D : Seen(c, prepared[i].point).status = s })
    BY DEF Cloud
  <2>2. \A s \in Statuses : { i \in D : Seen(c, prepared[i].point).status = s } = { i \in D : st[i] = s }
    OBVIOUS
  <2> HIDE DEF n, st, D
  <2> QED BY <2>1, <2>2 DEF CountsClasses
<1> HIDE DEF n, st, D
<1>5. SumFunction(n) = Cardinality(D)
  BY <1>2, <1>3, <1>4, StatusesAreFinite, SumOfClasses
<1> QED BY <1>2, <1>5 DEF n

\* The loss of a residual is an integer.
LEMMA LossType ==
  ASSUME loss \in {"squared_l2", "huber"}, NEW r \in Nat
  PROVE  RadialLoss(r) \in Int
<1>1. Delta \in Nat /\ 2 * r * r \in Int /\ r * r \in Int
  BY NumberAssumption
<1>2. Delta * (2 * r - Delta) \in Int
  BY <1>1
<1> QED BY <1>1, <1>2 DEF RadialLoss

\* The checks of the writer on a row.
AccountsFor(row) ==
  /\ row.positive_weight + row.zero_weight = SumFunction(row.counts)
  /\ row.positive_weight_visible + row.positive_weight_invalid = row.positive_weight
  /\ row.loss_sum # <<>> <=> row.positive_weight_invalid = 0 /\ ~row.numeric_failure

\* A loss is that of all records that count, each of them seen.
LossOf(row, c, T) ==
  LET active == { r \in T : r.weight > 0 } IN
  row.loss_sum # <<>> =>
    /\ \A r \in active : Sees(c, r)
    /\ row.loss_sum = <<SumFunction([r \in active |-> r.weight * RadialLoss(Residual(c, r))])>>

\* A row accounts for every record, and its loss is the weighted loss of those records.
LEMMA EvaluationIs ==
  ASSUME NEW T, Listed(prepared, T), NEW c \in Corrections, loss \in {"squared_l2", "huber"}
  PROVE  AccountsFor(Evaluation(c)) /\ LossOf(Evaluation(c), c, T)
<1> DEFINE D == DOMAIN prepared
           A == Active
           V == Visible(c)
           C == Contribution(c)
           finite == { i \in V \cap A : C[i] <= Largest }
           sum == SumFunctionOnSet(C, finite)
           failure == finite # V \cap A \/ sum > Largest
           active == { r \in T : r.weight > 0 }
           g == [r \in active |-> r.weight * RadialLoss(Residual(c, r))]
           row == Evaluation(c)
<1>1. /\ D = 1..Len(prepared) /\ Len(prepared) \in Nat
      /\ \A i \in D : prepared[i] \in RecordSet /\ prepared[i] \in T
  BY DEF Listed, Lists
<1>2. A \subseteq D /\ A \cap V \subseteq A /\ A \ V \subseteq A
  BY DEF Active
<1>3. IsFiniteSet(D) /\ Cardinality(D) = Len(prepared)
  BY <1>1, CountingTo
<1>4. row = [counts |-> Cloud(c), numeric_failure |-> failure,
             zero_weight |-> Len(prepared) - Cardinality(A), positive_weight |-> Cardinality(A),
             positive_weight_visible |-> Cardinality(A \cap V),
             positive_weight_invalid |-> Cardinality(A \ V),
             loss_sum |-> IF A \subseteq V /\ ~failure THEN <<sum>> ELSE <<>>]
  BY DEF Evaluation
<1>5. failure \in BOOLEAN /\ <<sum>> # <<>>
  OBVIOUS
<1> HIDE DEF row, failure, sum
<1>6. /\ row.counts = Cloud(c) /\ row.numeric_failure = failure
      /\ row.zero_weight = Len(prepared) - Cardinality(A) /\ row.positive_weight = Cardinality(A)
      /\ row.positive_weight_visible = Cardinality(A \cap V)
      /\ row.positive_weight_invalid = Cardinality(A \ V)
      /\ row.loss_sum = IF A \subseteq V /\ ~failure THEN <<sum>> ELSE <<>>
  BY <1>4
<1> HIDE DEF A, V, C, D, finite
<1>7. IsFiniteSet(A) /\ IsFiniteSet(A \cap V) /\ IsFiniteSet(A \ V)
  BY <1>2, <1>3, FS_Subset
<1>8. /\ Cardinality(A) \in Nat /\ Cardinality(A \cap V) \in Nat /\ Cardinality(A \ V) \in Nat
      /\ Cardinality(A \cap V) + Cardinality(A \ V) = Cardinality(A)
  <2>1. Cardinality(A) \in Nat /\ Cardinality(A \cap V) \in Nat /\ Cardinality(A \ V) \in Nat
    BY <1>7, FS_CardinalityType
  <2>2. PICK X, Y : X = A \cap V /\ Y = A \ V
    OBVIOUS
  <2>3. IsFiniteSet(X) /\ IsFiniteSet(Y) /\ X \cap Y = {} /\ X \cup Y = A
    BY <1>7, <2>2
  <2>4. Cardinality(X \cup Y) = Cardinality(X) + Cardinality(Y) - Cardinality(X \cap Y)
    BY <2>3, FS_Union
  <2>5. Cardinality({}) = 0
    BY FS_EmptySet
  <2>6. Cardinality(X \cap Y) = 0 /\ Cardinality(X \cup Y) = Cardinality(A)
    BY <2>3, <2>5
  <2>7. Cardinality(A) = Cardinality(X) + Cardinality(Y) - 0
    BY <2>4, <2>6
  <2>8. Cardinality(X) \in Nat /\ Cardinality(Y) \in Nat /\ Cardinality(A) \in Nat
    BY <2>1, <2>2
  <2>9. Cardinality(X) + Cardinality(Y) = Cardinality(A)
    BY <2>7, <2>8
  <2> QED BY <2>1, <2>2, <2>9
<1>9. A \subseteq V <=> Cardinality(A \ V) = 0
  <2>1. Cardinality(A \ V) = 0 <=> A \ V = {}
    BY <1>7, FS_EmptySet
  <2> QED BY <2>1
<1>10. AccountsFor(row)
  <2>1. row.positive_weight + row.zero_weight = SumFunction(row.counts)
    BY <1>1, <1>6, <1>8, CloudAddsUp
  <2>2. row.positive_weight_visible + row.positive_weight_invalid = row.positive_weight
    BY <1>6, <1>8
  <2>3. row.loss_sum # <<>> <=> row.positive_weight_invalid = 0 /\ ~row.numeric_failure
    BY <1>5, <1>6, <1>9
  <2> QED BY <2>1, <2>2, <2>3 DEF AccountsFor
<1>11. ASSUME row.loss_sum # <<>>
       PROVE  /\ \A r \in active : Sees(c, r)
              /\ row.loss_sum = <<SumFunction(g)>>
  <2>1. A \subseteq V /\ ~failure /\ row.loss_sum = <<sum>>
    BY <1>6, <1>11
  <2>2. finite = A /\ sum = SumFunctionOnSet(C, A)
    BY <2>1 DEF failure, sum
  <2>3. \A r \in active : \E i \in A : r = prepared[i]
    BY <1>1 DEF A, Active, Listed, Lists
  <2>4. \A r \in active : Sees(c, r)
    BY <2>1, <2>3 DEF V, Visible
  <2>5. \A i \in A : prepared[i] \in active /\ i \in D
    BY <1>1, <1>2 DEF A, Active
  <2>6. { prepared[i] : i \in A } = active
    <3> HIDE DEF active
    <3> QED BY <2>3, <2>5
  <2>7. \A i, j \in A : prepared[i] = prepared[j] => i = j
    BY <1>1, <1>2 DEF Listed, Lists
  <2>8. \A i \in A : C[i] = g[prepared[i]] /\ C[i] \in Int
    <3> SUFFICES ASSUME NEW i \in A PROVE C[i] = g[prepared[i]] /\ C[i] \in Int
      OBVIOUS
    <3>1. prepared[i] \in RecordSet /\ prepared[i] \in active /\ i \in D
      BY <1>1, <2>5
    <3>2. PICK r : r = prepared[i]
      OBVIOUS
    <3>3. r.weight \in Int /\ RadialLoss(Residual(c, r)) \in Int
      <4>1. Residual(c, r) \in Nat
        BY <3>1, <3>2, SightType
      <4>2. RadialLoss(Residual(c, r)) \in Int
        BY <4>1, LossType
      <4> QED BY <3>1, <3>2, <4>2 DEF RecordSet
    <3>4. C[i] = r.weight * RadialLoss(Residual(c, r))
      BY <3>1, <3>2 DEF C, Contribution, D
    <3>5. g[r] = r.weight * RadialLoss(Residual(c, r))
      BY <3>1, <3>2
    <3>6. r.weight * RadialLoss(Residual(c, r)) \in Int
      BY <3>3
    <3> HIDE DEF g
    <3> QED BY <3>2, <3>4, <3>5, <3>6
  <2>9. DOMAIN g = active
    OBVIOUS
  <2> HIDE DEF g, active
  <2>10. PICK f : f = prepared
    OBVIOUS
  <2>11. SumFunctionOnSet(C, A) = SumFunctionOnSet(g, { f[i] : i \in A })
    <3>1. /\ \A i \in A : C[i] = g[f[i]] /\ C[i] \in Int
          /\ \A i, j \in A : f[i] = f[j] => i = j
      BY <2>7, <2>8, <2>10
    <3> QED BY <1>7, <3>1, SumRenamed
  <2>12. sum = SumFunction(g)
    BY <2>2, <2>6, <2>9, <2>10, <2>11 DEF SumFunction
  <2> QED BY <2>1, <2>4, <2>12
<1> QED BY <1>10, <1>11 DEF LossOf, row

-----------------------------------------------------------------------------
(* The invariant                                                           *)

\* The models of the comparison.
ModelSet == {"nominal", "oracle"} \cup (IF best = <<>> THEN {} ELSE {"recovered"})

\* The models that may still have to be tabulated, the current one first.
Pendings ==
  IF best = <<>> THEN {<<"nominal", "oracle">>, <<"oracle">>}
  ELSE {<<"nominal", "oracle", "recovered">>, <<"oracle", "recovered">>, <<"recovered">>}

\* The records of S that every model sees.
CommonIn(S) == { r \in S : \A m \in ModelSet : Sees(CorrectionOf(m), r) }

\* The projections that a table costs.
Work ==
  [m \in ModelSet |-> Cardinality(Records)
                      + Cardinality({ r \in Records : ~Sees(CorrectionOf(m), r) })]

\* The input stays, and there is a report only at the end.
Stages ==
  /\ frames \in Inputs /\ loss \in {"squared_l2", "huber"}
  /\ phase \in {"prepare", "search", "table", "mark", "done"}
  /\ phase = "done" => outcome \in {"refused", "complete"}
  /\ phase # "done" => outcome = "running"

\* The run is in one of these phases, or has reached its report.
Past(phases) == phase \in phases \/ outcome = "complete"

\* The records are listed in the order of their keys.
Prepared ==
  /\ phase = "prepare" => candidates = <<>> /\ evaluated = 0
  /\ phase \in {"prepare", "search"} =>
       best = <<>> /\ next = 1 /\ tables = <<>> /\ compared = 0
  /\ Past({"search", "table", "mark"}) =>
       /\ Listed(prepared, Records) /\ Records # {}
       /\ \A i, j \in 1..Len(prepared) : i < j => Earlier(prepared[i], prepared[j])

\* The rows are those of the first corrections of the grid.
Searched ==
  Past({"search", "table", "mark"}) =>
    /\ Len(candidates) \in 0..Len(Grid)
    /\ candidates = [i \in 1..Len(candidates) |-> Evaluation(Grid[i])]
    /\ evaluated = Len(candidates) * Len(prepared)

\* What is recovered has a row with a loss.
Settled ==
  Past({"table", "mark"}) =>
    /\ Len(candidates) = Len(Grid)
    /\ best = <<>> \/ \E i \in 1..Len(Grid) : best = <<Grid[i]>> /\ candidates[i].loss_sum # <<>>

\* The tables of the models before the current one are finished.
Tabulated ==
  phase = "table" =>
    LET finished == ModelSet \ ToSet(models) IN
    /\ models \in Pendings /\ next \in 1..(Len(prepared) + 1)
    /\ DOMAIN tables = finished \cup (IF next = 1 THEN {} ELSE {Head(models)})
    /\ \A m \in finished : Filled(tables[m], prepared, Records, CorrectionOf(m), {})
    /\ next > 1 =>
         Filling(tables[Head(models)], prepared, Records, CorrectionOf(Head(models)), next - 1)
    /\ compared = SumFunctionOnSet(Work, finished)

\* And in the end those of all models are, their common records marked.
Marked ==
  Past({"mark"}) =>
    /\ next \in 1..(Len(prepared) + 1)
    /\ outcome = "complete" => next = Len(prepared) + 1
    /\ DOMAIN tables = ModelSet
    /\ \A m \in ModelSet : Filled(tables[m], prepared, Records, CorrectionOf(m),
                                  CommonIn(Leading(prepared, next - 1)))
    /\ compared = SumFunctionOnSet(Work, ModelSet)

\* The inductive invariant.
IInv == Stages /\ Prepared /\ Searched /\ Settled /\ Tabulated /\ Marked

\* Nothing but the tables and their accounts changes once there is an estimate.
LEMMA Kept ==
  ASSUME UNCHANGED <<frames, loss, prepared>>
  PROVE  /\ Records' = Records
         /\ \A c : Evaluation(c)' = Evaluation(c)
         /\ best' = best => /\ ModelSet' = ModelSet /\ Pendings' = Pendings /\ Work' = Work
                            /\ \A m : CorrectionOf(m)' = CorrectionOf(m)
                            /\ \A S : CommonIn(S)' = CommonIn(S)
<1>1. Records' = Records
  BY DEF Records
<1>2. \A c : Evaluation(c)' = Evaluation(c)
  BY DEF Evaluation, Cloud, Active, Visible, Contribution, RadialLoss
<1>3. ASSUME best' = best
      PROVE  /\ ModelSet' = ModelSet /\ Pendings' = Pendings /\ Work' = Work
             /\ \A m : CorrectionOf(m)' = CorrectionOf(m)
             /\ \A S : CommonIn(S)' = CommonIn(S)
  <2>1. ModelSet' = ModelSet /\ Pendings' = Pendings
    BY <1>3 DEF ModelSet, Pendings
  <2>2. \A m : CorrectionOf(m)' = CorrectionOf(m)
    BY <1>3 DEF CorrectionOf
  <2>3. Work' = Work
    BY <1>1, <2>1, <2>2 DEF Work
  <2>4. \A S : CommonIn(S)' = CommonIn(S)
    BY <2>1, <2>2 DEF CommonIn
  <2> QED BY <2>1, <2>2, <2>3, <2>4
<1> QED BY <1>1, <1>2, <1>3

\* Every model has a correction.
LEMMA ModelsKnown ==
  ASSUME best = <<>> \/ \E i \in 1..Len(Grid) : best = <<Grid[i]>>
  PROVE  \A m \in ModelSet : CorrectionOf(m) \in Corrections
<1>1. \A i \in 1..Len(Grid) : Grid[i] \in Corrections
  BY GridAssumption
<1>2. Nominal \in Corrections /\ Hidden \in Corrections
  BY DEF Corrections
<1>3. CASE best = <<>>
  BY <1>2, <1>3 DEF ModelSet, CorrectionOf
<1>4. ASSUME NEW i \in 1..Len(Grid), best = <<Grid[i]>>
      PROVE  \A m \in ModelSet : CorrectionOf(m) \in Corrections
  <2>1. best[1] \in Corrections /\ best # <<>>
    BY <1>1, <1>4
  <2> QED BY <1>2, <2>1 DEF ModelSet, CorrectionOf
<1> QED BY <1>3, <1>4

\* The current model is unfinished, and ending it leaves the others pending.
LEMMA PendingIs ==
  ASSUME models \in Pendings
  PROVE  LET finished == ModelSet \ ToSet(models) IN
         /\ Head(models) \in ModelSet /\ Head(models) \notin finished
         /\ Len(models) = 1 => finished \cup {Head(models)} = ModelSet
         /\ Len(models) # 1 => /\ Tail(models) \in Pendings
                               /\ ModelSet \ ToSet(Tail(models)) = finished \cup {Head(models)}
<1>1. CASE models = <<"nominal", "oracle">> /\ best = <<>>
  <2>1. Head(models) = "nominal" /\ Tail(models) = <<"oracle">> /\ Len(models) = 2
    BY <1>1
  <2>2. ToSet(models) = {"nominal", "oracle"} /\ ToSet(Tail(models)) = {"oracle"}
    BY <1>1, <2>1 DEF ToSet
  <2> QED BY <1>1, <2>1, <2>2 DEF Pendings, ModelSet
<1>2. CASE models = <<"oracle">> /\ best = <<>>
  <2>1. Head(models) = "oracle" /\ Len(models) = 1
    BY <1>2
  <2>2. ToSet(models) = {"oracle"}
    BY <1>2, <2>1 DEF ToSet
  <2> QED BY <1>2, <2>1, <2>2 DEF Pendings, ModelSet
<1>3. CASE models = <<"nominal", "oracle", "recovered">> /\ best # <<>>
  <2>1. Head(models) = "nominal" /\ Tail(models) = <<"oracle", "recovered">> /\ Len(models) = 3
    BY <1>3
  <2>2. ToSet(models) = {"nominal", "oracle", "recovered"} /\ ToSet(Tail(models)) = {"oracle", "recovered"}
    BY <1>3, <2>1 DEF ToSet
  <2> QED BY <1>3, <2>1, <2>2 DEF Pendings, ModelSet
<1>4. CASE models = <<"oracle", "recovered">> /\ best # <<>>
  <2>1. Head(models) = "oracle" /\ Tail(models) = <<"recovered">> /\ Len(models) = 2
    BY <1>4
  <2>2. ToSet(models) = {"oracle", "recovered"} /\ ToSet(Tail(models)) = {"recovered"}
    BY <1>4, <2>1 DEF ToSet
  <2> QED BY <1>4, <2>1, <2>2 DEF Pendings, ModelSet
<1>5. CASE models = <<"recovered">> /\ best # <<>>
  <2>1. Head(models) = "recovered" /\ Len(models) = 1
    BY <1>5
  <2>2. ToSet(models) = {"recovered"}
    BY <1>5, <2>1 DEF ToSet
  <2> QED BY <1>5, <2>1, <2>2 DEF Pendings, ModelSet
<1> QED BY <1>1, <1>2, <1>3, <1>4, <1>5 DEF Pendings

-----------------------------------------------------------------------------
(* The steps                                                               *)

\* Before the first step.
LEMMA InitHolds == Init => IInv
BY DEF Init, IInv, Stages, Prepared, Searched, Settled, Tabulated, Marked, Past

\* A step that changes nothing.
LEMMA StutterHolds ==
  ASSUME IInv, UNCHANGED vars PROVE IInv'
<1>1. UNCHANGED <<frames, loss, prepared>> /\ best' = best
  BY DEF vars
<1>2. /\ Records' = Records /\ ModelSet' = ModelSet /\ Pendings' = Pendings /\ Work' = Work
      /\ \A c : Evaluation(c)' = Evaluation(c)
      /\ \A m : CorrectionOf(m)' = CorrectionOf(m)
      /\ \A S : CommonIn(S)' = CommonIn(S)
  BY <1>1, Kept
<1>3. Stages' /\ Prepared'
  BY <1>2 DEF vars, IInv, Stages, Prepared, Past
<1>4. Searched' /\ Settled'
  BY <1>2 DEF vars, IInv, Searched, Settled, Past
<1>5. Tabulated'
  BY <1>2 DEF vars, IInv, Tabulated, Past
<1>6. Marked'
  BY <1>2 DEF vars, IInv, Marked, Past
<1> QED BY <1>3, <1>4, <1>5, <1>6 DEF IInv

\* The records of a usable input are listed by their keys.
LEMMA PrepareHolds ==
  ASSUME IInv, Prepare PROVE IInv'
<1>0. /\ phase = "prepare" /\ candidates = <<>> /\ evaluated = 0 /\ best = <<>> /\ next = 1
      /\ tables = <<>> /\ compared = 0 /\ frames \in Inputs /\ outcome = "running"
      /\ UNCHANGED <<frames, loss, candidates, evaluated, best, models, next, tables, compared>>
  BY DEF IInv, Stages, Prepared, Prepare
<1>1. CASE Unusable
  <2>1. phase' = "done" /\ outcome' = "refused"
    BY <1>1 DEF Prepare
  <2> QED BY <1>0, <2>1 DEF IInv, Stages, Prepared, Searched, Settled, Tabulated, Marked, Past
<1>2. CASE ~Unusable
  <2>1. phase' = "search" /\ outcome' = "running" /\ prepared' = Flattened
    BY <1>0, <1>2 DEF Prepare
  <2>2. Records' = Records
    BY <1>0 DEF Records
  <2>3. /\ Listed(Flattened, Records) /\ Records # {}
        /\ \A i, j \in 1..Len(Flattened) : i < j => Earlier(Flattened[i], Flattened[j])
    BY <1>0, <1>2, FlattenedLists, RecordsType, UsableRecords DEF Listed
  <2>4. Stages' /\ Prepared'
    <3>1. /\ Listed(prepared', Records') /\ Records' # {}
          /\ \A i, j \in 1..Len(prepared') : i < j => Earlier(prepared'[i], prepared'[j])
      BY <2>1, <2>2, <2>3
    <3> QED BY <1>0, <2>1, <3>1 DEF IInv, Stages, Prepared, Past
  <2>5. Searched'
    <3>1. candidates' = <<>> /\ evaluated' = 0 /\ Len(candidates') = 0 /\ 1..0 = {}
      BY <1>0
    <3>2. Len(Grid) \in Nat /\ Len(prepared') \in Nat
      BY <2>1, <2>3, GridAssumption DEF Listed
    <3>3. candidates' = [i \in 1..Len(candidates') |-> Evaluation(Grid[i])']
      BY <3>1
    <3> QED BY <3>1, <3>2, <3>3 DEF Searched
  <2> QED BY <2>1, <2>4, <2>5 DEF IInv, Settled, Tabulated, Marked, Past
<1> QED BY <1>1, <1>2

\* One row more.
LEMMA EvaluateHolds ==
  ASSUME IInv, Evaluate PROVE IInv'
<1>0. /\ phase = "search" /\ outcome = "running" /\ Len(candidates) < Len(Grid)
      /\ candidates' = Append(candidates, Evaluation(Grid[Len(candidates) + 1]))
      /\ evaluated' = evaluated + Len(prepared)
      /\ UNCHANGED <<frames, loss, phase, prepared, best, models, next, tables, compared, outcome>>
  BY DEF IInv, Stages, Evaluate
<1>1. Records' = Records /\ \A c : Evaluation(c)' = Evaluation(c)
  BY <1>0, Kept
<1>2. /\ Listed(prepared, Records) /\ Len(candidates) \in 0..Len(Grid)
      /\ candidates = [i \in 1..Len(candidates) |-> Evaluation(Grid[i])]
      /\ evaluated = Len(candidates) * Len(prepared)
  BY <1>0 DEF IInv, Prepared, Searched, Past
<1>3. Stages' /\ Prepared'
  BY <1>0, <1>1 DEF IInv, Stages, Prepared, Past
<1>4. Searched'
  <2> DEFINE n == Len(candidates)
             e == Evaluation(Grid[n + 1])
             X == { Evaluation(Grid[i]) : i \in 1..(n + 1) }
  <2>1. n \in Nat /\ Len(Grid) \in Nat /\ n + 1 \in 0..Len(Grid) /\ Len(prepared) \in Nat
    BY <1>0, <1>2, GridAssumption DEF Listed
  <2>2. candidates \in Seq(X) /\ e \in X
    <3>1. \A i \in 1..n : Evaluation(Grid[i]) \in X
      BY <2>1
    <3>2. candidates \in [1..n -> X]
      <4> HIDE DEF X
      <4> QED BY <1>2, <3>1
    <3>3. candidates \in Seq(X)
      <4> HIDE DEF X, n
      <4> QED BY <2>1, <3>2
    <3> QED BY <2>1, <3>3
  <2>3. \A i \in 1..n : candidates[i] = Evaluation(Grid[i])
    <3> HIDE DEF n
    <3> QED BY <1>2 DEF n
  <2> HIDE DEF X, e
  <2>4. /\ Append(candidates, e) \in Seq(X) /\ Len(Append(candidates, e)) = n + 1
        /\ \A i \in 1..n : Append(candidates, e)[i] = candidates[i]
        /\ Append(candidates, e)[n + 1] = e
    BY <2>2
  <2> HIDE DEF n
  <2>5. \A i \in 1..(n + 1) : i \in 1..n \/ i = n + 1
    BY <2>1
  <2>6. \A i \in 1..(n + 1) : Append(candidates, e)[i] = Evaluation(Grid[i])
    BY <2>3, <2>4, <2>5 DEF e
  <2>7. Append(candidates, e) = [i \in 1..(n + 1) |-> Evaluation(Grid[i])]
    <3>1. PICK q : q = Append(candidates, e)
      OBVIOUS
    <3>2. q \in [1..(n + 1) -> X]
      <4>1. q \in Seq(X) /\ Len(q) = n + 1
        BY <2>4, <3>1
      <4>2. q \in [1..Len(q) -> X]
        BY <4>1, LenProperties
      <4> QED BY <4>1, <4>2
    <3> QED BY <2>6, <3>1, <3>2
  <2>8. candidates' = Append(candidates, e)
    BY <1>0 DEF e, n
  <2>9. Len(candidates') = n + 1 /\ candidates' = [i \in 1..Len(candidates') |-> Evaluation(Grid[i])']
    BY <1>1, <2>4, <2>7, <2>8
  <2>10. evaluated' = (n + 1) * Len(prepared')
    <3>1. (n + 1) * Len(prepared) = n * Len(prepared) + Len(prepared)
      BY <2>1
    <3> QED BY <1>0, <1>2, <3>1 DEF n
  <2> QED BY <2>1, <2>9, <2>10 DEF Searched
<1> QED BY <1>0, <1>3, <1>4 DEF IInv, Settled, Tabulated, Marked, Past

\* A recovered correction is that of a row with a loss; no table is begun.
LEMMA SettleHolds ==
  ASSUME IInv, Settle PROVE IInv'
<1>0. /\ phase = "search" /\ outcome = "running" /\ Len(candidates) = Len(Grid) /\ phase' = "table"
      /\ models' = <<"nominal", "oracle">> \o (IF best' = <<>> THEN <<>> ELSE <<"recovered">>)
      /\ UNCHANGED <<frames, loss, prepared, candidates, evaluated, next, tables, compared, outcome>>
  BY DEF IInv, Stages, Settle
<1>1. Records' = Records /\ \A c : Evaluation(c)' = Evaluation(c)
  BY <1>0, Kept
<1>2. /\ Listed(prepared, Records) /\ Len(candidates) \in Nat
      /\ candidates = [i \in 1..Len(candidates) |-> Evaluation(Grid[i])]
      /\ next = 1 /\ tables = <<>> /\ compared = 0
  BY <1>0 DEF IInv, Prepared, Searched, Past
<1>3. Stages' /\ Prepared'
  BY <1>0, <1>1 DEF IInv, Stages, Prepared, Past
<1>4. Searched'
  BY <1>0, <1>1 DEF IInv, Searched, Past
<1>5. Settled'
  <2>1. DOMAIN candidates = 1..Len(Grid)
    BY <1>0, <1>2
  <2>2. best' = <<>> \/ \E i \in DOMAIN candidates : candidates[i].loss_sum # <<>> /\ best' = <<Grid[i]>>
    BY DEF Settle
  <2> QED BY <1>0, <2>1, <2>2 DEF Settled
<1>6. Tabulated'
  <2>1. models' = IF best' = <<>> THEN <<"nominal", "oracle">> ELSE <<"nominal", "oracle", "recovered">>
    BY <1>0
  <2>2. ToSet(models') = ModelSet'
    BY <2>1 DEF ToSet, ModelSet
  <2>3. models' \in Pendings'
    BY <2>1 DEF Pendings
  <2>4. next' = 1 /\ next' \in 1..(Len(prepared') + 1) /\ ~(next' > 1)
    BY <1>0, <1>2 DEF Listed
  <2>5. DOMAIN tables' = {} /\ compared' = 0
    BY <1>0, <1>2
  <2>6. PICK finished : finished = ModelSet' \ ToSet(models')
    OBVIOUS
  <2>7. finished = {}
    BY <2>2, <2>6
  <2>8. compared' = SumFunctionOnSet(Work', finished)
    BY <2>5, <2>7, SumOfNone
  <2>9. DOMAIN tables' = finished \cup (IF next' = 1 THEN {} ELSE {Head(models')})
    BY <2>4, <2>5, <2>7
  <2>10. \A m \in finished : Filled(tables'[m], prepared', Records', CorrectionOf(m)', {})
    BY <2>7
  <2> QED BY <2>3, <2>4, <2>6, <2>8, <2>9, <2>10 DEF Tabulated
<1> QED BY <1>0, <1>3, <1>4, <1>5, <1>6 DEF IInv, Marked, Past

\* The table of the current model is filled with one record more.
LEMMA AddResidualHolds ==
  ASSUME IInv, AddResidual PROVE IInv'
<1> DEFINE model == Head(models)
           c == CorrectionOf(model)
           T == Records
           L == Len(prepared)
           finished == ModelSet \ ToSet(models)
           table == IF next = 1 THEN NewTable(c) ELSE tables[model]
           new == WithResidual(table, c, prepared[next])
<1>0. /\ phase = "table" /\ outcome = "running" /\ next \in DOMAIN prepared /\ next' = next + 1
      /\ tables' = [m \in DOMAIN tables \cup {model} |-> IF m = model THEN new ELSE tables[m]]
      /\ UNCHANGED <<frames, loss, phase, prepared, candidates, evaluated, best, models, compared, outcome>>
  BY DEF IInv, Stages, AddResidual
<1>1. /\ Records' = Records /\ ModelSet' = ModelSet /\ Pendings' = Pendings /\ Work' = Work
      /\ \A d : Evaluation(d)' = Evaluation(d)
      /\ \A m : CorrectionOf(m)' = CorrectionOf(m)
  BY <1>0, Kept
<1>2. /\ Listed(prepared, T) /\ L \in Nat /\ DOMAIN prepared = 1..L
      /\ best = <<>> \/ \E i \in 1..Len(Grid) : best = <<Grid[i]>>
  BY <1>0 DEF IInv, Prepared, Settled, Past, Listed
<1>3. /\ models \in Pendings /\ next \in 1..(L + 1)
      /\ DOMAIN tables = finished \cup (IF next = 1 THEN {} ELSE {model})
      /\ \A m \in finished : Filled(tables[m], prepared, T, CorrectionOf(m), {})
      /\ next > 1 => Filling(tables[model], prepared, T, c, next - 1)
      /\ compared = SumFunctionOnSet(Work, finished)
  BY <1>0 DEF IInv, Tabulated
<1>4. model \in ModelSet /\ model \notin finished
  BY <1>3, PendingIs
<1>5. c \in Corrections
  BY <1>2, <1>4, ModelsKnown
<1>6. next \in 1..L /\ next \in Nat /\ next' \in 1..(L + 1) /\ next' > 1 /\ next' # 1 /\ next' - 1 = next
  BY <1>0, <1>2
<1>7. Filling(table, prepared, T, c, next - 1)
  <2>1. CASE next = 1
    <3>1. Filling(NewTable(c), prepared, T, c, 0)
      <4> HIDE DEF T, c
      <4> QED BY <1>2, <1>5, NewTableIs
    <3> QED BY <2>1, <3>1
  <2>2. CASE next # 1
    <3>1. next > 1
      BY <1>6, <2>2
    <3> QED BY <1>3, <2>2, <3>1
  <2> QED BY <2>1, <2>2
<1>8. Filling(new, prepared, T, c, next)
  <2> HIDE DEF table, T, c
  <2> QED BY <1>2, <1>5, <1>6, <1>7, WithResidualIs
<1> HIDE DEF new, finished, T, L
<1>9. /\ DOMAIN tables' = finished \cup {model} /\ tables'[model] = new
      /\ \A m \in finished : tables'[m] = tables[m]
  <2>1. DOMAIN tables \cup {model} = finished \cup {model}
    BY <1>3
  <2> QED BY <1>0, <1>4, <2>1
<1>10. finished = ModelSet' \ ToSet(models')
  BY <1>0, <1>1 DEF finished
<1>11. models' \in Pendings' /\ next' \in 1..(Len(prepared') + 1) /\ model = Head(models')
  BY <1>0, <1>1, <1>3, <1>6 DEF L
<1>12. DOMAIN tables' = finished \cup (IF next' = 1 THEN {} ELSE {Head(models')})
  BY <1>6, <1>9, <1>11
<1>13. \A m \in finished : Filled(tables'[m], prepared', Records', CorrectionOf(m)', {})
  BY <1>0, <1>1, <1>3, <1>9 DEF T
<1>14. Filling(tables'[Head(models')], prepared', Records', CorrectionOf(Head(models))', next' - 1)
  BY <1>0, <1>1, <1>6, <1>8, <1>9, <1>11 DEF T
<1>15. compared' = SumFunctionOnSet(Work', finished)
  BY <1>0, <1>1, <1>3
<1>16. Tabulated'
  <2> HIDE DEF model, c
  <2> QED BY <1>10, <1>11, <1>12, <1>13, <1>14, <1>15 DEF Tabulated
<1>17. Stages' /\ Prepared' /\ Searched' /\ Settled'
  BY <1>0, <1>1 DEF IInv, Stages, Prepared, Searched, Settled, Past
<1> QED BY <1>0, <1>16, <1>17 DEF IInv, Marked, Past

\* What is projected for a table: every record, and those that it does not show once more.
LEMMA CostIs ==
  ASSUME Listed(prepared, Records), NEW m \in ModelSet, CorrectionOf(m) \in Corrections
  PROVE  Work[m] = Len(prepared) + Invisible(CorrectionOf(m)) /\ Work[m] \in Int
<1> DEFINE c == CorrectionOf(m)
           T == Records
           V == { r \in T : Sees(c, r) }
           H == { r \in T : ~Sees(c, r) }
<1>1. /\ IsFiniteSet(T) /\ Len(prepared) \in Nat /\ DOMAIN prepared = 1..Len(prepared)
      /\ Lists(prepared, Len(prepared), T)
  BY DEF Listed
<1>2. Cardinality(T) = Len(prepared)
  <2> HIDE DEF T
  <2> QED BY <1>1, ListedSize
<1>3. Cloud(c)["visible"] = Cardinality(V)
  <2>1. Cloud(c)["visible"] =
          Cardinality({ i \in DOMAIN prepared : Seen(c, prepared[i].point).status = "visible" })
    BY DEF Cloud, Statuses
  <2>2. { i \in DOMAIN prepared : Seen(c, prepared[i].point).status = "visible" }
          = { i \in 1..Len(prepared) : prepared[i] \in V }
    BY <1>1 DEF Sees, Lists
  <2>3. V \subseteq T
    OBVIOUS
  <2> HIDE DEF V, T
  <2>4. Cardinality({ i \in 1..Len(prepared) : prepared[i] \in V }) = Cardinality(V)
    BY <1>1, <2>3, ListingCounts
  <2> QED BY <2>1, <2>2, <2>4
<1>4. V \cap H = {} /\ V \cup H = T /\ V \in SUBSET T /\ H \in SUBSET T
  OBVIOUS
<1>5. Work[m] = Cardinality(T) + Cardinality(H)
  BY DEF Work
<1> HIDE DEF V, H, T
<1>6. IsFiniteSet(V) /\ IsFiniteSet(H) /\ Cardinality(V) \in Nat /\ Cardinality(H) \in Nat
  BY <1>1, <1>4, FS_Subset, FS_CardinalityType
<1>7. Cardinality(V) + Cardinality(H) = Len(prepared)
  <2>1. Cardinality(V \cup H) = Cardinality(V) + Cardinality(H) - Cardinality(V \cap H)
    BY <1>6, FS_Union
  <2>2. Cardinality(V \cap H) = 0 /\ Cardinality(V \cup H) = Len(prepared)
    BY <1>2, <1>4, FS_EmptySet
  <2>3. Len(prepared) = Cardinality(V) + Cardinality(H) - 0
    BY <2>1, <2>2
  <2> QED BY <1>1, <1>6, <2>3
<1>8. Invisible(c) = Len(prepared) - Cardinality(V)
  BY <1>3 DEF Invisible
<1> QED BY <1>1, <1>2, <1>5, <1>6, <1>7, <1>8

\* The current table is finished, and its work is accounted for.
LEMMA EndTableHolds ==
  ASSUME IInv, EndTable PROVE IInv'
<1> DEFINE model == Head(models)
           c == CorrectionOf(model)
           T == Records
           L == Len(prepared)
           finished == ModelSet \ ToSet(models)
           new == Closed(tables[model], FrameSet(T))
<1>0. /\ phase = "table" /\ outcome = "running" /\ next \notin DOMAIN prepared /\ next' = 1
      /\ tables' = [tables EXCEPT ![model].pooled = Summary(@),
                      ![model].frames = [f \in FrameIds |-> Summary(tables[model].frames[f])]]
      /\ compared' = compared + L + Invisible(c)
      /\ models' = Tail(models) /\ phase' = IF Len(models) = 1 THEN "mark" ELSE "table"
      /\ UNCHANGED <<frames, loss, prepared, candidates, evaluated, best, outcome>>
  BY DEF IInv, Stages, EndTable
<1>1. /\ Records' = Records /\ ModelSet' = ModelSet /\ Pendings' = Pendings /\ Work' = Work
      /\ \A d : Evaluation(d)' = Evaluation(d)
      /\ \A m : CorrectionOf(m)' = CorrectionOf(m)
      /\ \A S : CommonIn(S)' = CommonIn(S)
  BY <1>0, Kept
<1>2. /\ Listed(prepared, T) /\ L \in Nat /\ DOMAIN prepared = 1..L /\ T # {}
      /\ Lists(prepared, L, T)
      /\ best = <<>> \/ \E i \in 1..Len(Grid) : best = <<Grid[i]>>
  BY <1>0 DEF IInv, Prepared, Settled, Past, Listed
<1>3. /\ models \in Pendings /\ next \in 1..(L + 1)
      /\ DOMAIN tables = finished \cup (IF next = 1 THEN {} ELSE {model})
      /\ \A m \in finished : Filled(tables[m], prepared, T, CorrectionOf(m), {})
      /\ next > 1 => Filling(tables[model], prepared, T, c, next - 1)
      /\ compared = SumFunctionOnSet(Work, finished)
  BY <1>0 DEF IInv, Tabulated
<1>4. model \in ModelSet /\ model \notin finished /\ \A m \in ModelSet : CorrectionOf(m) \in Corrections
  BY <1>2, <1>3, PendingIs, ModelsKnown
<1>5. L # 0
  BY <1>2 DEF Lists
<1>6. next = L + 1 /\ next > 1 /\ next - 1 = L /\ next # 1
  BY <1>0, <1>2, <1>3, <1>5
<1>7. FrameIds = FrameSet(T)
  BY <1>2 DEF FrameIds, FrameSet, Lists
<1>8. Filled(new, prepared, T, c, {})
  <2>1. Filling(tables[model], prepared, T, c, L)
    BY <1>3, <1>6
  <2>2. c \in Corrections
    BY <1>4
  <2> HIDE DEF T, c, model
  <2> QED BY <1>2, <2>1, <2>2, ClosedIs
<1>9. /\ DOMAIN tables' = finished \cup {model} /\ tables'[model] = new
      /\ \A m \in finished : tables'[m] = tables[m]
  <2> DEFINE half == [tables EXCEPT ![model].pooled = Summary(@)]
             g == [f \in FrameSet(T) |-> Summary(tables[model].frames[f])]
  <2>1. DOMAIN tables = finished \cup {model}
    BY <1>3, <1>6
  <2>2. tables' = [tables EXCEPT ![model].pooled = Summary(@), ![model].frames = g]
    BY <1>0, <1>7
  <2> HIDE DEF g, finished, T, c
  <2>3. new = [tables[model] EXCEPT !.pooled = Summary(@), !.frames = g]
    BY DEF Closed, g
  <2> HIDE DEF new, model
  <2> QED BY <1>4, <2>1, <2>2, <2>3
<1> HIDE DEF new, T, L
<1>10. compared' = SumFunctionOnSet(Work, finished \cup {model})
  <2>1. Work[model] = L + Invisible(c) /\ \A m \in ModelSet : Work[m] \in Int
    BY <1>2, <1>4, CostIs DEF L, T
  <2>2. IsFiniteSet(finished) /\ \A y \in finished \cup {model} : Work[y] \in Int
    <3>1. IsFiniteSet(ModelSet)
      <4>1. IsFiniteSet({"nominal", "oracle"}) /\ IsFiniteSet({"nominal", "oracle"} \cup {"recovered"})
        <5>1. IsFiniteSet({})
          BY FS_EmptySet
        <5>2. IsFiniteSet({} \cup {"nominal"})
          BY <5>1, FS_AddElement
        <5>3. IsFiniteSet(({} \cup {"nominal"}) \cup {"oracle"})
          BY <5>2, FS_AddElement
        <5>4. ({} \cup {"nominal"}) \cup {"oracle"} = {"nominal", "oracle"}
          OBVIOUS
        <5>5. IsFiniteSet({"nominal", "oracle"})
          BY <5>3, <5>4
        <5> QED BY <5>5, FS_AddElement
      <4>2. ModelSet = {"nominal", "oracle"} \/ ModelSet = {"nominal", "oracle"} \cup {"recovered"}
        BY DEF ModelSet
      <4> QED BY <4>1, <4>2
    <3>2. finished \in SUBSET ModelSet
      OBVIOUS
    <3>3. IsFiniteSet(finished)
      BY <3>1, <3>2, FS_Subset
    <3> QED BY <1>4, <2>1, <3>2, <3>3
  <2> HIDE DEF finished
  <2>3. SumFunctionOnSet(Work, finished \cup {model}) = Work[model] + SumFunctionOnSet(Work, finished)
    <3>1. PICK g, V, x : g = Work /\ V = finished /\ x = model
      OBVIOUS
    <3>2. IsFiniteSet(V) /\ (\A y \in V \cup {x} : g[y] \in Int) /\ x \notin V
      BY <1>4, <2>2, <3>1
    <3>3. SumFunctionOnSet(g, V \cup {x}) = g[x] + SumFunctionOnSet(g, V)
      BY <3>2, SumAdds
    <3> QED BY <3>1, <3>3
  <2>4. SumFunctionOnSet(Work, finished) \in Int
    BY <2>2, SumType
  <2>5. compared' = (compared + L) + Invisible(c)
    BY <1>0 DEF L
  <2>6. Work[model] \in Int /\ L \in Int
    BY <1>2, <1>4, <2>1 DEF L
  <2>7. Invisible(c) \in Int
    <3>1. Listed(prepared, Records) /\ CorrectionOf(model) \in Corrections
      BY <1>2, <1>4 DEF T
    <3>2. Cloud(c)["visible"] =
            Cardinality({ i \in DOMAIN prepared : Seen(c, prepared[i].point).status = "visible" })
      BY DEF Cloud, Statuses
    <3>3. PICK D : D = { i \in DOMAIN prepared : Seen(c, prepared[i].point).status = "visible" }
      OBVIOUS
    <3>4. D \in SUBSET (1..Len(prepared)) /\ IsFiniteSet(1..Len(prepared)) /\ Len(prepared) \in Nat
      BY <1>2, <3>3, CountingTo DEF L
    <3>5. Cardinality(D) \in Nat
      BY <3>4, FS_Subset, FS_CardinalityType
    <3> QED BY <3>2, <3>3, <3>4, <3>5 DEF Invisible
  <2> QED BY <1>3, <2>1, <2>3, <2>4, <2>5, <2>6, <2>7
<1>11. \A m \in finished \cup {model} : Filled(tables'[m], prepared', Records', CorrectionOf(m)', {})
  <2> HIDE DEF finished
  <2> QED BY <1>0, <1>1, <1>3, <1>8, <1>9 DEF T
<1>12. Stages' /\ Prepared' /\ Searched' /\ Settled'
  <2>1. phase' \in {"mark", "table"}
    BY <1>0
  <2> QED BY <1>0, <1>1, <2>1 DEF IInv, Stages, Prepared, Searched, Settled, Past
<1>13. next' \in 1..(Len(prepared') + 1) /\ next' = 1 /\ ~(next' > 1) /\ next' - 1 = 0
  BY <1>0, <1>2 DEF L
<1>14. CASE Len(models) = 1
  <2>1. finished \cup {model} = ModelSet
    BY <1>3, <1>14, PendingIs
  <2>2. phase' = "mark" /\ outcome' = "running"
    BY <1>0, <1>14
  <2>3. CommonIn(Leading(prepared, next - 1))' = {}
    <3>1. Leading(prepared', next' - 1) = {}
      BY <1>13 DEF Leading
    <3> QED BY <3>1 DEF CommonIn
  <2> HIDE DEF finished
  <2>4. \A m \in ModelSet' : Filled(tables'[m], prepared', Records', CorrectionOf(m)',
                                    CommonIn(Leading(prepared, next - 1))')
    BY <1>1, <1>11, <2>1, <2>3
  <2>5. DOMAIN tables' = ModelSet' /\ compared' = SumFunctionOnSet(Work', ModelSet')
    BY <1>1, <1>9, <1>10, <2>1
  <2>6. Marked'
    BY <1>13, <2>2, <2>4, <2>5 DEF Marked
  <2> QED BY <1>12, <2>2, <2>6 DEF IInv, Tabulated
<1>15. CASE Len(models) # 1
  <2>1. models' \in Pendings' /\ ModelSet' \ ToSet(models') = finished \cup {model}
    BY <1>0, <1>1, <1>3, <1>15, PendingIs
  <2>2. phase' = "table" /\ outcome' = "running"
    BY <1>0, <1>15
  <2>3. PICK more : more = finished \cup {model}
    OBVIOUS
  <2> HIDE DEF finished, model, c
  <2>4. /\ more = ModelSet' \ ToSet(models')
        /\ DOMAIN tables' = more \cup (IF next' = 1 THEN {} ELSE {Head(models')})
        /\ \A m \in more : Filled(tables'[m], prepared', Records', CorrectionOf(m)', {})
        /\ compared' = SumFunctionOnSet(Work', more)
    BY <1>1, <1>9, <1>10, <1>11, <1>13, <2>1, <2>3
  <2>5. Tabulated'
    BY <1>13, <2>1, <2>4 DEF Tabulated
  <2> QED BY <1>12, <2>2, <2>5 DEF IInv, Marked, Past
<1> QED BY <1>14, <1>15

\* A residual is that of the record at its place.
LEMMA ResidualAt ==
  ASSUME NEW rs, NEW q, NEW c, NEW n, NEW i \in 1..n, ResidualsOf(rs, q, c, n)
  PROVE  rs[i].frame = q[i].frame /\ rs[i].source = q[i].source /\ rs[i].predicted = Sees(c, q[i])
<1>1. rs[i] = [frame |-> q[i].frame, source |-> q[i].source, predicted |-> Sees(c, q[i])]
  BY DEF ResidualsOf
<1> QED BY <1>1

\* A record that all models see is common in all tables.
LEMMA MarkHolds ==
  ASSUME IInv, Mark PROVE IInv'
<1> DEFINE T == Records
           L == Len(prepared)
           U == CommonIn(Leading(prepared, next - 1))
           V == CommonIn(Leading(prepared, next))
           r == prepared[next]
           one == IF \A m \in DOMAIN tables : tables[m].residuals[next].predicted THEN 1 ELSE 0
<1>0. /\ phase = "mark" /\ outcome = "running" /\ next \in DOMAIN prepared /\ next' = next + 1
      /\ tables' = [m \in DOMAIN tables |->
           [tables[m] EXCEPT !.pooled.common_visible = @ + one,
                             !.frames[prepared[next].frame].common_visible = @ + one]]
      /\ UNCHANGED <<frames, loss, phase, prepared, candidates, evaluated, best, models, compared, outcome>>
  BY DEF IInv, Stages, Mark, Marks
<1>1. /\ Records' = Records /\ ModelSet' = ModelSet /\ Work' = Work
      /\ \A d : Evaluation(d)' = Evaluation(d)
      /\ \A m : CorrectionOf(m)' = CorrectionOf(m)
      /\ \A S : CommonIn(S)' = CommonIn(S)
  BY <1>0, Kept
<1>2. /\ Listed(prepared, T) /\ L \in Nat /\ DOMAIN prepared = 1..L /\ Lists(prepared, L, T)
  BY <1>0 DEF IInv, Prepared, Past, Listed
<1>3. /\ next \in 1..(L + 1) /\ DOMAIN tables = ModelSet
      /\ \A m \in ModelSet : Filled(tables[m], prepared, T, CorrectionOf(m), U)
      /\ compared = SumFunctionOnSet(Work, ModelSet)
  BY <1>0 DEF IInv, Marked, Past
<1>4. next \in 1..L /\ next \in Nat /\ next - 1 \in 0..L /\ next' \in 1..(L + 1) /\ next' - 1 = next
  <2>1. next \in 1..L /\ L \in Nat /\ next' = next + 1
    BY <1>0, <1>2
  <2> HIDE DEF L
  <2>2. next \in Nat /\ next - 1 \in 0..L /\ next + 1 \in 1..(L + 1) /\ (next + 1) - 1 = next
    BY <2>1
  <2> QED BY <2>1, <2>2
<1>5. /\ r \in T /\ r \notin Leading(prepared, next - 1)
      /\ Leading(prepared, next) = Leading(prepared, next - 1) \cup {r}
  <2>1. PICK q, X, k, n : q = prepared /\ X = T /\ k = next /\ n = L
    OBVIOUS
  <2>2. n \in Nat /\ Lists(q, n, X) /\ k \in 1..n
    BY <1>2, <1>4, <2>1
  <2>3. q[k] \in X /\ q[k] \notin Leading(q, k - 1) /\ Leading(q, k) = Leading(q, k - 1) \cup {q[k]}
    BY <2>2, LeadingStep
  <2> QED BY <2>1, <2>3
<1>6. U \subseteq T /\ r \notin U
  <2>1. Leading(prepared, next - 1) \subseteq T
    <3> HIDE DEF T
    <3> QED BY <1>2, <1>4, LeadingParts
  <2> QED BY <1>5, <2>1 DEF CommonIn
<1>7. one = 1 <=> \A m \in ModelSet : Sees(CorrectionOf(m), r)
  <2>1. \A m \in ModelSet : tables[m].residuals[next].predicted = Sees(CorrectionOf(m), r)
    <3> SUFFICES ASSUME NEW m \in ModelSet
                 PROVE  tables[m].residuals[next].predicted = Sees(CorrectionOf(m), r)
      OBVIOUS
    <3>1. ResidualsOf(tables[m].residuals, prepared, CorrectionOf(m), L)
      BY <1>3 DEF Filled
    <3>2. PICK rs, q, c, n, i : rs = tables[m].residuals /\ q = prepared /\ c = CorrectionOf(m)
                                /\ n = L /\ i = next
      OBVIOUS
    <3>3. rs[i].predicted = Sees(c, q[i])
      <4>1. i \in 1..n /\ ResidualsOf(rs, q, c, n)
        BY <1>4, <3>1, <3>2
      <4> QED BY <4>1, ResidualAt
    <3> QED BY <3>2, <3>3
  <2> QED BY <1>3, <2>1
<1>8. V = IF one = 1 THEN U \cup {r} ELSE U
  <2> HIDE DEF one
  <2> QED BY <1>5, <1>7 DEF CommonIn
<1>9. one \in {0, 1}
  OBVIOUS
<1> HIDE DEF one, U, V, T, L
<1>10. \A m \in ModelSet : tables'[m] = MarkedTable(tables[m], r.frame, one)
  BY <1>0, <1>3 DEF MarkedTable
<1>11. \A m \in ModelSet : Filled(tables'[m], prepared, T, CorrectionOf(m), V)
  <2> SUFFICES ASSUME NEW m \in ModelSet PROVE Filled(tables'[m], prepared, T, CorrectionOf(m), V)
    OBVIOUS
  <2>1. Filled(tables[m], prepared, T, CorrectionOf(m), U)
    BY <1>3
  <2>2. PICK x : x = r
    OBVIOUS
  <2>3. x \in T /\ x \notin U
    BY <1>5, <1>6, <2>2
  <2>4. Filled(MarkedTable(tables[m], x.frame, one), prepared, T, CorrectionOf(m),
               IF one = 1 THEN U \cup {x} ELSE U)
    BY <1>2, <1>6, <1>9, <2>1, <2>3, MarkedTableIs
  <2> QED BY <1>8, <1>10, <2>2, <2>4
<1>12. CommonIn(Leading(prepared, next - 1))' = V
  <2>1. Leading(prepared', next' - 1) = Leading(prepared, next)
    BY <1>0, <1>4
  <2> QED BY <1>1, <2>1 DEF CommonIn, V
<1>13. Marked'
  <2>1. \A m \in ModelSet' : Filled(tables'[m], prepared', Records', CorrectionOf(m)',
                                    CommonIn(Leading(prepared, next - 1))')
    BY <1>0, <1>1, <1>11, <1>12 DEF T
  <2>2. DOMAIN tables' = ModelSet' /\ compared' = SumFunctionOnSet(Work', ModelSet')
        /\ next' \in 1..(Len(prepared') + 1) /\ outcome' = "running"
    BY <1>0, <1>1, <1>3, <1>4 DEF L
  <2> QED BY <2>1, <2>2 DEF Marked
<1>14. Stages' /\ Prepared' /\ Searched' /\ Settled'
  BY <1>0, <1>1 DEF IInv, Stages, Prepared, Searched, Settled, Past
<1> QED BY <1>0, <1>13, <1>14 DEF IInv, Tabulated

\* The writer's accounting holds of what it is given.
LEMMA AccountingHolds ==
  ASSUME IInv, phase = "mark" PROVE Accounted
<1>1. /\ loss \in {"squared_l2", "huber"} /\ Listed(prepared, Records)
      /\ Len(candidates) \in 0..Len(Grid) /\ Len(candidates) = Len(Grid)
      /\ candidates = [i \in 1..Len(candidates) |-> Evaluation(Grid[i])]
      /\ evaluated = Len(candidates) * Len(prepared)
      /\ \A m \in ModelSet : Filled(tables[m], prepared, Records, CorrectionOf(m),
                                    CommonIn(Leading(prepared, next - 1)))
  BY DEF IInv, Stages, Prepared, Searched, Settled, Marked, Past
<1>2. Len(tables["nominal"].residuals) = Len(prepared)
  <2>1. "nominal" \in ModelSet
    BY DEF ModelSet
  <2>2. ResidualsOf(tables["nominal"].residuals, prepared, CorrectionOf("nominal"), Len(prepared))
    BY <1>1, <2>1 DEF Filled
  <2> QED BY <2>2 DEF ResidualsOf
<1>3. ASSUME NEW i \in DOMAIN candidates PROVE AccountsFor(candidates[i])
  <2>1. i \in 1..Len(Grid) /\ candidates[i] = Evaluation(Grid[i])
    BY <1>1
  <2>2. Grid[i] \in Corrections
    BY <2>1, GridAssumption
  <2>3. PICK T, c : T = Records /\ c = Grid[i]
    OBVIOUS
  <2>4. AccountsFor(Evaluation(c))
    BY <1>1, <2>2, <2>3, EvaluationIs
  <2> QED BY <2>1, <2>3, <2>4
<1> QED BY <1>1, <1>2, <1>3 DEF Accounted, AccountsFor

\* The writer finds nothing amiss.
LEMMA WriteHolds ==
  ASSUME IInv, Write PROVE IInv'
<1>0. /\ phase = "mark" /\ next \notin DOMAIN prepared /\ phase' = "done"
      /\ UNCHANGED <<frames, loss, prepared, candidates, evaluated, best, models, next, tables, compared>>
  BY DEF Write
<1>1. outcome' = "complete"
  BY <1>0, AccountingHolds DEF Write
<1>2. /\ Records' = Records /\ ModelSet' = ModelSet /\ Work' = Work
      /\ \A d : Evaluation(d)' = Evaluation(d)
      /\ \A m : CorrectionOf(m)' = CorrectionOf(m)
      /\ \A S : CommonIn(S)' = CommonIn(S)
  BY <1>0, Kept
<1>3. next = Len(prepared) + 1
  BY <1>0 DEF IInv, Prepared, Marked, Past, Listed
<1>4. Stages' /\ Prepared' /\ Searched' /\ Settled'
  BY <1>0, <1>1, <1>2 DEF IInv, Stages, Prepared, Searched, Settled, Past
<1>5. Marked'
  BY <1>0, <1>1, <1>2, <1>3 DEF IInv, Marked, Past
<1> QED BY <1>0, <1>4, <1>5 DEF IInv, Tabulated

\* Every step keeps the invariant.
LEMMA StepHolds == ASSUME IInv, [Next]_vars PROVE IInv'
BY PrepareHolds, EvaluateHolds, SettleHolds, AddResidualHolds, EndTableHolds, MarkHolds, WriteHolds,
   StutterHolds DEF Next

-----------------------------------------------------------------------------
(* What the invariant says of a report                                     *)

\* Finished metrics describe their records.
LEMMA SummedDescribes ==
  ASSUME DOMAIN tables = ModelSet, NEW metrics, NEW c, NEW S, NEW U, U = CommonIn(S),
         Summed(metrics, c, S, U)
  PROVE  Describes(metrics, c, S)
<1>1. U = { r \in S : \A m \in DOMAIN tables : Sees(CorrectionOf(m), r) }
  BY DEF CommonIn
<1>2. SeenIn(c, S) = { r \in S : Sees(c, r) } /\ Masked(S) = { r \in S : r.weight = 0 }
      /\ \A s \in Statuses : WithStatus(c, S, s) = { r \in S : Seen(c, r.point).status = s }
  BY DEF SeenIn, Masked, WithStatus
<1>3. \A s \in Statuses :
        metrics.counts[s] = Cardinality({ r \in S : Seen(c, r.point).status = s })
  BY <1>2 DEF Summed, CountsOf
<1>4. metrics.zero_weight = Cardinality({ r \in S : r.weight = 0 })
  BY <1>2 DEF Summed
<1>5. metrics.common_visible =
        Cardinality({ r \in S : \A m \in DOMAIN tables : Sees(CorrectionOf(m), r) })
  BY <1>1 DEF Summed
<1>6. PICK P : P = { r \in S : Sees(c, r) }
  OBVIOUS
<1>7. IsRank(metrics.median, c, P, 50) /\ IsRank(metrics.p95, c, P, 95) /\ RmseOf(metrics, c, P)
  BY <1>2, <1>6 DEF Summed
<1>8. metrics.rmse = IF P = {} THEN <<>>
                     ELSE <<SumFunction([r \in P |-> Residual(c, r) * Residual(c, r)]), Cardinality(P)>>
  BY <1>7 DEF RmseOf
<1> QED BY <1>3, <1>4, <1>5, <1>6, <1>7, <1>8 DEF Describes

\* A finished table is about the retained records.
LEMMA FilledIsTable ==
  ASSUME DOMAIN tables = ModelSet, Listed(prepared, Records),
         \A i, j \in 1..Len(prepared) : i < j => Earlier(prepared[i], prepared[j]),
         NEW table, NEW c, Filled(table, prepared, Records, c, CommonIn(Records))
  PROVE  IsTableOf(table, c)
<1>1. /\ Summed(table.pooled, c, Records, CommonIn(Records))
      /\ \A f \in FrameSet(Records) :
           Summed(table.frames[f], c, OfFrame(f, Records), OfFrame(f, CommonIn(Records)))
      /\ ResidualsOf(table.residuals, prepared, c, Len(prepared))
      /\ DOMAIN table.frames = FrameSet(Records)
      /\ DOMAIN table.residuals = 1..Len(table.residuals)
  BY DEF Filled, Tables
<1>2. Describes(table.pooled, c, Records)
  BY <1>1, SummedDescribes
<1>3. ASSUME NEW f \in FrameSet(Records)
      PROVE  Describes(table.frames[f], c, { r \in Records : r.frame = f })
  <2>1. OfFrame(f, CommonIn(Records)) = CommonIn(OfFrame(f, Records))
    BY DEF OfFrame, CommonIn
  <2>2. Describes(table.frames[f], c, OfFrame(f, Records))
    BY <1>1, <2>1, SummedDescribes
  <2> QED BY <2>2 DEF OfFrame
<1>4. ASSUME NEW i \in DOMAIN table.residuals, NEW j \in DOMAIN table.residuals, i < j
      PROVE  Earlier(table.residuals[i], table.residuals[j])
  <2>1. i \in 1..Len(prepared) /\ j \in 1..Len(prepared)
    BY <1>1 DEF ResidualsOf
  <2>2. /\ table.residuals[i].frame = prepared[i].frame /\ table.residuals[i].source = prepared[i].source
        /\ table.residuals[j].frame = prepared[j].frame /\ table.residuals[j].source = prepared[j].source
    <3>1. PICK rs, q, n : rs = table.residuals /\ q = prepared /\ n = Len(prepared)
      OBVIOUS
    <3>2. ResidualsOf(rs, q, c, n) /\ i \in 1..n /\ j \in 1..n
      BY <1>1, <2>1, <3>1
    <3>3. rs[i].frame = q[i].frame /\ rs[i].source = q[i].source
          /\ rs[j].frame = q[j].frame /\ rs[j].source = q[j].source
      BY <3>2, ResidualAt
    <3> QED BY <3>1, <3>3
  <2>3. Earlier(prepared[i], prepared[j])
    BY <1>4, <2>1
  <2> QED BY <2>2, <2>3 DEF Earlier
<1> QED BY <1>1, <1>2, <1>3, <1>4 DEF IsTableOf, FrameSet

\* The invariant says what a report must say.
LEMMA InvariantReports == IInv => ReportAddsUp
<1> SUFFICES ASSUME IInv PROVE ReportAddsUp
  OBVIOUS
<1>1. outcome # "failed"
  BY DEF IInv, Stages
<1>2. ASSUME outcome = "complete"
      PROVE
       /\ DOMAIN tables = ModelSet
       /\ \A m \in DOMAIN tables : IsTableOf(tables[m], CorrectionOf(m))
       /\ compared = SumFunctionOnSet(Work, ModelSet)
       /\ best # <<>> =>
            /\ LossOf(candidates[CHOOSE i \in DOMAIN Grid : Grid[i] = best[1]], best[1], Records)
            /\ candidates[CHOOSE i \in DOMAIN Grid : Grid[i] = best[1]].loss_sum # <<>>
  <2>1. /\ loss \in {"squared_l2", "huber"} /\ Listed(prepared, Records)
        /\ \A i, j \in 1..Len(prepared) : i < j => Earlier(prepared[i], prepared[j])
        /\ Len(candidates) = Len(Grid) /\ candidates = [i \in 1..Len(candidates) |-> Evaluation(Grid[i])]
        /\ best = <<>> \/ \E i \in 1..Len(Grid) : best = <<Grid[i]>> /\ candidates[i].loss_sum # <<>>
        /\ next = Len(prepared) + 1 /\ DOMAIN tables = ModelSet
        /\ \A m \in ModelSet : Filled(tables[m], prepared, Records, CorrectionOf(m),
                                      CommonIn(Leading(prepared, next - 1)))
        /\ compared = SumFunctionOnSet(Work, ModelSet)
    BY <1>2 DEF IInv, Stages, Prepared, Searched, Settled, Marked, Past
  <2>2. Leading(prepared, next - 1) = Records
    <3>1. Len(prepared) \in Nat /\ Lists(prepared, Len(prepared), Records) /\ next - 1 = Len(prepared)
      BY <2>1 DEF Listed
    <3>2. PICK q, X, n : q = prepared /\ X = Records /\ n = Len(prepared)
      OBVIOUS
    <3>3. n \in Nat /\ Lists(q, n, X)
      BY <3>1, <3>2
    <3>4. Leading(q, n) = X
      BY <3>3, LeadingEnds
    <3> QED BY <3>1, <3>2, <3>4
  <2>3. \A m \in DOMAIN tables : IsTableOf(tables[m], CorrectionOf(m))
    BY <2>1, <2>2, FilledIsTable
  <2>4. ASSUME best # <<>>
        PROVE  LossOf(candidates[CHOOSE i \in DOMAIN Grid : Grid[i] = best[1]], best[1], Records)
               /\ candidates[CHOOSE i \in DOMAIN Grid : Grid[i] = best[1]].loss_sum # <<>>
    <3>1. DOMAIN Grid = 1..Len(Grid) /\ \A i \in 1..Len(Grid) : Grid[i] \in Corrections
      BY GridAssumption
    <3>2. PICK k \in 1..Len(Grid) : best = <<Grid[k]>> /\ candidates[k].loss_sum # <<>>
      BY <2>1, <2>4
    <3>3. PICK i : i = CHOOSE j \in DOMAIN Grid : Grid[j] = best[1]
      OBVIOUS
    <3>4. i \in DOMAIN Grid /\ Grid[i] = best[1]
      BY <3>1, <3>2, <3>3
    <3>5. candidates[i] = Evaluation(best[1]) /\ candidates[k] = Evaluation(best[1])
      BY <2>1, <3>1, <3>2, <3>4
    <3>6. PICK T, c : T = Records /\ c = best[1]
      OBVIOUS
    <3>7. LossOf(Evaluation(c), c, T)
      BY <2>1, <3>1, <3>4, <3>6, EvaluationIs
    <3> QED BY <3>2, <3>3, <3>5, <3>6, <3>7
  <2> QED BY <2>1, <2>3, <2>4
<1>3. ASSUME outcome = "complete"
      PROVE  compared = SumFunction([m \in DOMAIN tables |->
               Cardinality(Records) + Cardinality({ r \in Records : ~Sees(CorrectionOf(m), r) })])
  <2>1. PICK w : w = Work
    OBVIOUS
  <2>2. DOMAIN w = ModelSet /\ SumFunction(w) = SumFunctionOnSet(w, ModelSet)
    BY <2>1 DEF Work, SumFunction
  <2>3. w = [m \in DOMAIN tables |->
               Cardinality(Records) + Cardinality({ r \in Records : ~Sees(CorrectionOf(m), r) })]
    BY <1>2, <1>3, <2>1 DEF Work
  <2> QED BY <1>2, <1>3, <2>1, <2>2, <2>3
<1> QED BY <1>1, <1>2, <1>3 DEF ReportAddsUp, ModelSet, LossOf

\* A report never fails the writer's accounting, and what it says is about the
\* records it was made from.
THEOREM ReportsAddUp == Spec => []ReportAddsUp
<1>1. Spec => []IInv
  <2>1. Init => IInv
    BY InitHolds
  <2>2. IInv /\ [Next]_vars => IInv'
    BY StepHolds
  <2> QED BY <2>1, <2>2, PTL DEF Spec
<1> QED BY <1>1, InvariantReports, PTL

-----------------------------------------------------------------------------
(***************************************************************************)
(* A campaign.  The invariant says what the accumulators of the loop stand *)
(* for in terms of the rows written so far; the verdict of the published   *)
(* campaign is what is left of it when the loop has seen every case.       *)
(***************************************************************************)

NoiseRows == { i \in DOMAIN rows : Cases[i].expected = "noise" }
ValuedRows == { i \in NoiseRows : rows[i].found.rmse # Nothing }
ValuedSamples == { i \in DOMAIN samples : samples[i] # Nothing }

\* What the stage holds is this campaign's, and the case at hand has its fixture.
StageIsOwn ==
  pc \in {"fixture", "run", "summary"} =>
    /\ \A i \in Numbers : stage[Cases[i].dataset] \in {Nothing, Cases[i].config}
    /\ pc = "run" => stage[Dataset] = Cases[at].config

\* Every row so far is that of its case.
RowsAreOwn ==
  /\ rows \in Seq([number : Numbers, gate : BOOLEAN, found : Findings, identity : Configs])
  /\ \A i \in DOMAIN rows :
       /\ rows[i].number = i /\ rows[i].identity = Cases[i].config
       /\ rows[i].gate = CaseGate(Cases[i].expected, rows[i].found)

\* The paired values are those of their rows, once these are there.
PairIsOwn ==
  /\ at > L2Case => /\ l2 = [error |-> rows[L2Case].found.error, rmse |-> rows[L2Case].found.rmse]
                    /\ shared = rows[L2Case].identity
  /\ at > HuberCase => huber = [error |-> rows[HuberCase].found.error,
                                rmse |-> rows[HuberCase].found.rmse]

\* The accumulated verdict is about the rows so far, and at the end about the pair.
VerdictSoFar ==
  /\ pc \in {"claim", "fixture", "run"} => required = (\A i \in DOMAIN rows : rows[i].gate)
  /\ pc = "summary" => /\ at = Len(Cases) + 1
                          /\ required = ((\A i \in DOMAIN rows : rows[i].gate) /\ Robust)

\* Every noise row has left a sample, and a valued row a valued one.
SamplesSoFar ==
  /\ samples \in Seq(Int \cup {Nothing})
  /\ Len(samples) = Cardinality(NoiseRows)
  /\ Cardinality(ValuedSamples) = Cardinality(ValuedRows)

\* Nothing is published, and nothing decided, before the end.
Undecided == pc # "done" => published = {} /\ exit = Nothing

\* What is published is what the variables still say.
PublishedSoFar ==
  \A p \in published :
    /\ p.cases = rows /\ at = Len(Cases) + 1
    /\ p.required_gates_passed = ((\A i \in DOMAIN rows : rows[i].gate) /\ Robust)
    /\ p.required_robustness_gate = Robust
    /\ p.requested = Len(samples) /\ p.samples = Cardinality(ValuedSamples)
    /\ p.same_fixture_identity = shared
ExitSoFar ==
  /\ exit = 0 <=> \E p \in published : p.required_gates_passed
  /\ exit = 4 <=> \E p \in published : ~p.required_gates_passed

CampaignInv == /\ TypeOK /\ StageIsOwn /\ RowsAreOwn /\ PairIsOwn /\ VerdictSoFar
       /\ SamplesSoFar /\ Undecided /\ PublishedSoFar /\ ExitSoFar

-----------------------------------------------------------------------------
(* The two readings of the gates agree                                     *)

\* The gate of the code is the gate of the specification.
LEMMA GateDeserved ==
  ASSUME NEW i \in Numbers, NEW o \in Findings
  PROVE  CaseGate(Cases[i].expected, o) = Deserves(i, o)
<1>1. Cases[i].expected \in {"recovery", "bound", "invalid", "diagnostic",
                             "offgrid", "noise", "paired"}
  <2> DEFINE Kinds == {"recovery", "bound", "invalid", "diagnostic", "offgrid", "noise", "paired"}
             Case == [dataset : Datasets, config : Configs, expected : Kinds]
  <2>1. Cases \in Seq(Case) BY CasesAssumption
  <2>2. Cases[i] \in Case
    <3> HIDE DEF Case
    <3> QED BY <2>1 DEF Numbers
  <2> QED BY <2>2
<1>2. o.status \in {"grid_complete", "bound_limited", "refinement_limited", "no_valid_candidate"}
      /\ o.available \in BOOLEAN /\ o.poor \in BOOLEAN /\ o.parameter \in BOOLEAN
      /\ o.full \in BOOLEAN /\ o.heldout \in BOOLEAN /\ o.replay \in BOOLEAN
  BY DEF Findings
<1> QED BY <1>1, <1>2 DEF CaseGate, Deserves, Passed

\* The comparison of the paired values is the one of their rows.
LEMMA RobustIsHuberWins ==
  ASSUME PairIsOwn, at > L2Case, at > HuberCase
  PROVE  Robust <=> HuberWins(rows[HuberCase].found, rows[L2Case].found)
BY DEF PairIsOwn, Robust, HuberWins

-----------------------------------------------------------------------------
(* The invariant                                                           *)

LEMMA CampaignInitially == CampaignInit => CampaignInv
<1> SUFFICES ASSUME CampaignInit PROVE CampaignInv OBVIOUS
<1>1. TypeOK BY CasesAssumption DEF CampaignInit, TypeOK, Numbers
<1>2. StageIsOwn /\ PairIsOwn /\ VerdictSoFar /\ RowsAreOwn
  BY CasesAssumption DEF CampaignInit, StageIsOwn, PairIsOwn, VerdictSoFar, RowsAreOwn, Numbers
<1>3. SamplesSoFar
  <2>1. NoiseRows = {} /\ ValuedRows = {} /\ ValuedSamples = {}
    BY DEF CampaignInit, NoiseRows, ValuedRows, ValuedSamples
  <2> QED BY <2>1, FS_EmptySet DEF CampaignInit, SamplesSoFar
<1>4. Undecided /\ PublishedSoFar /\ ExitSoFar
  BY NothingAssumption DEF CampaignInit, Undecided, PublishedSoFar, ExitSoFar
<1> QED BY <1>1, <1>2, <1>3, <1>4 DEF CampaignInv

\* A step that adds no row, takes no sample and publishes nothing keeps what is
\* said of them.
LEMMA RowsStay ==
  ASSUME CampaignInv, UNCHANGED <<at, rows, samples, l2, huber, shared, published>>
  PROVE  RowsAreOwn' /\ PairIsOwn' /\ SamplesSoFar' /\ PublishedSoFar'
<1>1. RowsAreOwn' /\ PairIsOwn' BY DEF CampaignInv, RowsAreOwn, PairIsOwn
<1>2. SamplesSoFar'
  BY DEF CampaignInv, SamplesSoFar, NoiseRows, ValuedRows, ValuedSamples
<1>3. PublishedSoFar'
  BY DEF CampaignInv, PublishedSoFar, ValuedSamples, Robust
<1> QED BY <1>1, <1>2, <1>3

LEMMA ClaimKeeps == CampaignInv /\ Claim => CampaignInv'
<1> SUFFICES ASSUME CampaignInv, Claim PROVE CampaignInv' OBVIOUS
<1> USE DEF Claim, Claims
<1>1. TypeOK' BY CasesAssumption DEF CampaignInv, TypeOK, Numbers
<1>2. StageIsOwn'
  <2>1. pc' \in {"fixture", "done"}
    OBVIOUS
  <2>2. ASSUME pc' = "fixture" PROVE stage' = [d \in Datasets |-> Nothing]
    BY <2>2
  <2>3. \A i \in Numbers : Cases[i].dataset \in Datasets
    BY DEF Datasets
  <2> QED BY <2>1, <2>2, <2>3 DEF StageIsOwn
<1>3. VerdictSoFar' BY DEF CampaignInv, VerdictSoFar
<1>4. Undecided' /\ ExitSoFar' BY NothingAssumption DEF CampaignInv, Undecided, ExitSoFar
<1> QED BY <1>1, <1>2, <1>3, <1>4, RowsStay DEF CampaignInv

LEMMA PrepareFixtureKeeps == CampaignInv /\ PrepareFixture => CampaignInv'
<1> SUFFICES ASSUME CampaignInv, PrepareFixture PROVE CampaignInv' OBVIOUS
<1> USE DEF PrepareFixture
<1>0. /\ Cases[at].config \in Configs /\ Dataset \in Datasets
      /\ stage \in [Datasets -> Configs \cup {Nothing}]
  BY DEF CampaignInv, TypeOK, Numbers, Configs, Datasets, Dataset
<1>1. TypeOK' BY <1>0 DEF CampaignInv, TypeOK
<1>2. StageIsOwn'
  <2>1. ASSUME NEW i \in Numbers
        PROVE  stage'[Cases[i].dataset] \in {Nothing, Cases[i].config}
    <3>1. stage[Cases[i].dataset] \in {Nothing, Cases[i].config} /\ Cases[i].dataset \in Datasets
      BY DEF CampaignInv, StageIsOwn, Datasets
    <3>2. CASE Cases[i].dataset = Dataset
      BY <3>1, <3>2, <1>0, CasesAssumption DEF Dataset
    <3>3. CASE Cases[i].dataset # Dataset BY <3>1, <3>3, <1>0
    <3> QED BY <3>2, <3>3
  <2>2. stage'[Dataset] = Cases[at].config
    BY <1>0, NothingAssumption DEF CampaignInv, StageIsOwn, Dataset, Numbers
  <2> QED BY <2>1, <2>2 DEF StageIsOwn, Dataset
<1>3. VerdictSoFar' BY DEF CampaignInv, VerdictSoFar
<1>4. Undecided' /\ ExitSoFar' BY DEF CampaignInv, Undecided, ExitSoFar
<1> QED BY <1>1, <1>2, <1>3, <1>4, RowsStay DEF CampaignInv

LEMMA SummariseKeeps == CampaignInv /\ Summarise => CampaignInv'
<1> SUFFICES ASSUME CampaignInv, Summarise PROVE CampaignInv' OBVIOUS
<1> USE DEF Summarise
<1>0. at = Len(Cases) + 1
  BY CasesAssumption DEF CampaignInv, TypeOK, Numbers
<1>1. TypeOK' BY DEF CampaignInv, TypeOK, Robust
<1>2. StageIsOwn' BY DEF CampaignInv, StageIsOwn, Dataset
<1>3. VerdictSoFar' BY <1>0 DEF CampaignInv, VerdictSoFar, Robust
<1>4. Undecided' /\ ExitSoFar' BY DEF CampaignInv, Undecided, ExitSoFar
<1> QED BY <1>1, <1>2, <1>3, <1>4, RowsStay DEF CampaignInv

LEMMA FailKeeps == CampaignInv /\ Fail => CampaignInv'
<1> SUFFICES ASSUME CampaignInv, Fail PROVE CampaignInv' OBVIOUS
<1> USE DEF Fail
<1>1. TypeOK' BY DEF CampaignInv, TypeOK
<1>2. StageIsOwn' /\ VerdictSoFar' BY DEF StageIsOwn, VerdictSoFar
<1>4. Undecided' /\ ExitSoFar' BY DEF CampaignInv, Undecided, ExitSoFar
<1> QED BY <1>1, <1>2, <1>4, RowsStay DEF CampaignInv

LEMMA PublishKeeps == CampaignInv /\ Publish => CampaignInv'
<1> SUFFICES ASSUME CampaignInv, Publish PROVE CampaignInv' OBVIOUS
<1> USE DEF Publish
<1>1. TypeOK' BY DEF CampaignInv, TypeOK
<1>2. StageIsOwn' /\ VerdictSoFar' /\ Undecided' BY DEF StageIsOwn, VerdictSoFar, Undecided
<1>3. RowsAreOwn' /\ PairIsOwn' BY DEF CampaignInv, RowsAreOwn, PairIsOwn
<1>4. SamplesSoFar' BY DEF CampaignInv, SamplesSoFar, NoiseRows, ValuedRows, ValuedSamples
<1>5. PublishedSoFar'
  <2>1. at = Len(Cases) + 1 /\ required = ((\A i \in DOMAIN rows : rows[i].gate) /\ Robust)
    BY DEF CampaignInv, VerdictSoFar
  <2>2. ValuedSamples' = ValuedSamples /\ Robust' = Robust BY DEF ValuedSamples, Robust
  <2> QED BY <2>1, <2>2 DEF PublishedSoFar, ValuedSamples
<1>6. ExitSoFar'
  <2>1. required \in BOOLEAN BY DEF CampaignInv, TypeOK
  <2>2. \A p \in published' : p.required_gates_passed = required OBVIOUS
  <2>3. published' # {} OBVIOUS
  <2> QED BY <2>1, <2>2, <2>3 DEF ExitSoFar
<1> QED BY <1>1, <1>2, <1>3, <1>4, <1>5, <1>6 DEF CampaignInv

\* The row that RunCase adds, the samples it takes and what it keeps of a pair.
LEMMA RunCaseKeeps == CampaignInv /\ RunCase => CampaignInv'
<1> SUFFICES ASSUME CampaignInv, RunCase PROVE CampaignInv' OBVIOUS
<1> PICK o \in Outcomes(at) :
      LET gate == CaseGate(Cases[at].expected, o)
          pair == [error |-> o.error, rmse |-> o.rmse] IN
      /\ rows' = Append(rows, [number |-> at, gate |-> gate, found |-> o,
                               identity |-> stage[Dataset]])
      /\ required' = (required /\ gate /\ (at = HuberCase => stage[Dataset] = shared))
      /\ samples' = (IF Cases[at].expected = "noise" THEN Append(samples, o.rmse) ELSE samples)
      /\ l2' = (IF at = L2Case THEN pair ELSE l2)
      /\ shared' = (IF at = L2Case THEN stage[Dataset] ELSE shared)
      /\ huber' = (IF at = HuberCase THEN pair ELSE huber)
  BY DEF RunCase
<1> DEFINE gate == CaseGate(Cases[at].expected, o)
           row == [number |-> at, gate |-> gate, found |-> o, identity |-> Cases[at].config]
           Row == [number : Numbers, gate : BOOLEAN, found : Findings, identity : Configs]
<1>1. /\ pc = "run" /\ at' = at + 1 /\ pc' = "fixture"
      /\ UNCHANGED <<stage, published, exit>>
  BY DEF RunCase
<1>2. /\ at \in Numbers /\ at \in Nat /\ Len(rows) = at - 1 /\ Numbers = 1..Len(Cases)
      /\ Len(Cases) \in Nat /\ o \in Findings /\ gate \in BOOLEAN
  BY <1>1, CasesAssumption, OutcomesAssumption DEF CampaignInv, TypeOK, Numbers, CaseGate
<1>3. /\ stage[Dataset] = Cases[at].config /\ Cases[at].config \in Configs
      /\ published = {} /\ exit = Nothing
  BY <1>1, <1>2 DEF CampaignInv, StageIsOwn, Configs, Undecided
<1>4. row \in Row BY <1>2, <1>3
<1>5. /\ rows \in Seq(Row) /\ rows' = Append(rows, row)
  BY <1>3 DEF CampaignInv, RowsAreOwn
<1> HIDE DEF Row
<1>6. /\ rows' \in Seq(Row) /\ DOMAIN rows = 1..at - 1 /\ DOMAIN rows' = 1..at
      /\ \A i \in DOMAIN rows : rows'[i] = rows[i]
      /\ rows'[at] = row
  BY <1>2, <1>4, <1>5
<1> HIDE DEF gate
<1>7. /\ row.number = at /\ row.gate = gate /\ row.found = o /\ row.identity = Cases[at].config
  OBVIOUS
<1> HIDE DEF row
<1>8. TypeOK'
  <2>1. \A i \in DOMAIN rows' : rows'[i].identity \in Configs
    BY <1>2, <1>3, <1>6, <1>7 DEF CampaignInv, TypeOK
  <2>2. Len(rows') = at' - 1 BY <1>1, <1>2, <1>5
  <2>3. required' \in BOOLEAN BY <1>2 DEF CampaignInv, TypeOK
  <2>4. at' \in Nat /\ 1 <= at' /\ at' <= Len(Cases) + 1 BY <1>1, <1>2
  <2> QED BY <1>1, <2>1, <2>2, <2>3, <2>4 DEF CampaignInv, TypeOK
<1>9. StageIsOwn' BY <1>1 DEF CampaignInv, StageIsOwn
<1>10. RowsAreOwn'
  <2>1. \A i \in DOMAIN rows' :
          /\ rows'[i].number = i /\ rows'[i].identity = Cases[i].config
          /\ rows'[i].gate = CaseGate(Cases[i].expected, rows'[i].found)
    BY <1>2, <1>6, <1>7 DEF CampaignInv, RowsAreOwn, gate
  <2> QED BY <1>6, <2>1 DEF RowsAreOwn, Row
<1>11. PairIsOwn'
  <2>1. L2Case \in 1..Len(Cases) /\ HuberCase \in 1..Len(Cases) /\ L2Case < HuberCase
    BY CasesAssumption, <1>2
  <2>2. ASSUME at' > L2Case
        PROVE  /\ l2' = [error |-> rows'[L2Case].found.error, rmse |-> rows'[L2Case].found.rmse]
               /\ shared' = rows'[L2Case].identity
    <3>1. CASE at = L2Case BY <3>1, <1>3, <1>6, <1>7
    <3>2. CASE at # L2Case
      BY <3>2, <2>1, <2>2, <1>1, <1>2, <1>6 DEF CampaignInv, PairIsOwn
    <3> QED BY <3>1, <3>2
  <2>3. ASSUME at' > HuberCase
        PROVE  huber' = [error |-> rows'[HuberCase].found.error, rmse |-> rows'[HuberCase].found.rmse]
    <3>1. CASE at = HuberCase BY <3>1, <1>6, <1>7
    <3>2. CASE at # HuberCase
      BY <3>2, <2>1, <2>3, <1>1, <1>2, <1>6 DEF CampaignInv, PairIsOwn
    <3> QED BY <3>1, <3>2
  <2> QED BY <2>2, <2>3 DEF PairIsOwn
<1>12. VerdictSoFar'
  <2>1. required = (\A i \in DOMAIN rows : rows[i].gate) BY <1>1 DEF CampaignInv, VerdictSoFar
  <2>2. at = HuberCase => stage[Dataset] = shared
    <3> HAVE at = HuberCase
    <3>1. L2Case \in 1..Len(Cases) /\ at > L2Case /\ Cases[L2Case].config = Cases[at].config
      BY CasesAssumption, <1>2
    <3>2. shared = rows[L2Case].identity BY <3>1 DEF CampaignInv, PairIsOwn
    <3>3. rows[L2Case].identity = Cases[L2Case].config
      <4>1. L2Case \in DOMAIN rows BY <3>1, <1>2, <1>6
      <4> QED BY <4>1 DEF CampaignInv, RowsAreOwn
    <3> QED BY <3>1, <3>2, <3>3, <1>3
  <2>3. required' = (required /\ gate) BY <1>2, <2>2 DEF gate, CampaignInv, TypeOK
  <2>4. (\A i \in DOMAIN rows' : rows'[i].gate) <=> (\A i \in DOMAIN rows : rows[i].gate) /\ gate
    <3>1. DOMAIN rows' = DOMAIN rows \cup {at}
      BY <1>2, <1>6
    <3>2. rows'[at].gate = gate /\ \A i \in DOMAIN rows : rows'[i].gate = rows[i].gate
      BY <1>6, <1>7
    <3> QED BY <3>1, <3>2
  <2> QED BY <1>1, <2>1, <2>3, <2>4 DEF VerdictSoFar
<1>13. SamplesSoFar'
  <2> DEFINE valued == o.rmse # Nothing
             noisy == Cases[at].expected = "noise"
  <2>1. IsFiniteSet(NoiseRows) /\ IsFiniteSet(ValuedRows) /\ IsFiniteSet(ValuedSamples)
    <3>1. samples \in Seq(Int \cup {Nothing}) BY DEF CampaignInv, SamplesSoFar
    <3>2. at - 1 \in Int /\ Len(samples) \in Int BY <1>2, <3>1
    <3>3. IsFiniteSet(1..at - 1) /\ IsFiniteSet(1..Len(samples)) BY <3>2, FS_Interval
    <3>4. /\ NoiseRows \subseteq 1..at - 1 /\ ValuedRows \subseteq 1..at - 1
          /\ ValuedSamples \subseteq 1..Len(samples)
      BY <1>6, <3>1 DEF NoiseRows, ValuedRows, ValuedSamples
    <3> QED BY <3>3, <3>4, FS_Subset
  <2>2. at \notin NoiseRows /\ at \notin ValuedRows /\ Len(samples) + 1 \notin ValuedSamples
    BY <1>2, <1>6 DEF CampaignInv, SamplesSoFar, NoiseRows, ValuedRows, ValuedSamples
  <2>3. NoiseRows' = (IF noisy THEN NoiseRows \cup {at} ELSE NoiseRows)
    BY <1>2, <1>6 DEF NoiseRows
  <2>4. ValuedRows' = (IF noisy /\ valued THEN ValuedRows \cup {at} ELSE ValuedRows)
    BY <1>2, <1>6, <1>7, <2>3 DEF ValuedRows, NoiseRows
  <2>5. samples \in Seq(Int \cup {Nothing}) /\ Len(samples) \in Nat BY DEF CampaignInv, SamplesSoFar
  <2>6. CASE noisy
    <3>1. samples' = Append(samples, o.rmse) /\ o.rmse \in Int \cup {Nothing}
      BY <2>6, <1>2 DEF Findings
    <3>2. samples' \in Seq(Int \cup {Nothing}) /\ Len(samples') = Len(samples) + 1
      BY <2>5, <3>1
    <3>3. ValuedSamples' = (IF valued THEN ValuedSamples \cup {Len(samples) + 1} ELSE ValuedSamples)
      BY <2>5, <3>1 DEF ValuedSamples
    <3>4. Cardinality(NoiseRows') = Cardinality(NoiseRows) + 1
      BY <2>1, <2>2, <2>3, <2>6, FS_AddElement
    <3>5. Cardinality(ValuedSamples') = Cardinality(ValuedRows')
      <4>1. Cardinality(ValuedSamples) = Cardinality(ValuedRows) BY DEF CampaignInv, SamplesSoFar
      <4>2. CASE valued
        <5>1. /\ ValuedSamples' = ValuedSamples \cup {Len(samples) + 1}
              /\ ValuedRows' = ValuedRows \cup {at}
          BY <2>4, <2>6, <3>3, <4>2
        <5>2. /\ Cardinality(ValuedSamples \cup {Len(samples) + 1}) = Cardinality(ValuedSamples) + 1
              /\ Cardinality(ValuedRows \cup {at}) = Cardinality(ValuedRows) + 1
          BY <2>1, <2>2, FS_AddElement
        <5> QED BY <5>1, <5>2, <4>1
      <4>3. CASE ~valued BY <2>4, <2>6, <3>3, <4>1, <4>3
      <4> QED BY <4>2, <4>3
    <3> QED BY <3>2, <3>4, <3>5 DEF CampaignInv, SamplesSoFar
  <2>7. CASE ~noisy
    <3>1. samples' = samples /\ NoiseRows' = NoiseRows /\ ValuedRows' = ValuedRows
      BY <2>3, <2>4, <2>7
    <3>2. ValuedSamples' = ValuedSamples BY <3>1 DEF ValuedSamples
    <3> QED BY <3>1, <3>2 DEF CampaignInv, SamplesSoFar
  <2> QED BY <2>6, <2>7
<1>14. Undecided' /\ PublishedSoFar' /\ ExitSoFar'
  BY <1>1, <1>3, NothingAssumption DEF Undecided, PublishedSoFar, ExitSoFar
<1> QED BY <1>8, <1>9, <1>10, <1>11, <1>12, <1>13, <1>14 DEF CampaignInv

LEMMA StutterKeeps == CampaignInv /\ UNCHANGED campaign => CampaignInv'
<1> SUFFICES ASSUME CampaignInv, UNCHANGED campaign PROVE CampaignInv' OBVIOUS
<1> USE DEF campaign
<1>1. TypeOK' /\ StageIsOwn' BY DEF CampaignInv, TypeOK, StageIsOwn, Dataset
<1>2. VerdictSoFar' BY DEF CampaignInv, VerdictSoFar, Robust
<1>3. Undecided' /\ ExitSoFar' BY DEF CampaignInv, Undecided, ExitSoFar
<1> QED BY <1>1, <1>2, <1>3, RowsStay DEF CampaignInv

\* Every step of main keeps the invariant.
THEOREM CampaignInvariance == CampaignSpec => []CampaignInv
<1>1. CampaignInv /\ [CampaignNext]_campaign => CampaignInv'
  BY ClaimKeeps, PrepareFixtureKeeps, RunCaseKeeps, SummariseKeeps, PublishKeeps, FailKeeps,
     StutterKeeps DEF CampaignNext
<1> QED BY CampaignInitially, <1>1, PTL DEF CampaignSpec

-----------------------------------------------------------------------------
(* The properties                                                          *)

\* The variables have their types, for every list of cases.
THEOREM CampaignTypes == CampaignSpec => []TypeOK
<1>1. CampaignInv => TypeOK BY DEF CampaignInv
<1> QED BY <1>1, CampaignInvariance, PTL

\* A published campaign says of every case, and of the campaign, what the gates
\* of the specification say; the exit status says the same
\* (run_extrinsic_campaign, the loop of main and what follows it).
THEOREM CampaignVerdict == CampaignSpec => []VerdictIsTheGates
<1>1. CampaignInv => VerdictIsTheGates
  <2> SUFFICES ASSUME CampaignInv PROVE VerdictIsTheGates OBVIOUS
  <2>1. exit = 0 <=> \E p \in published : p.required_gates_passed BY DEF CampaignInv, ExitSoFar
  <2>2. exit = 4 <=> \E p \in published : ~p.required_gates_passed BY DEF CampaignInv, ExitSoFar
  <2>3. ASSUME NEW p \in published
        PROVE  LET found(i) == p.cases[i].found
                   noise == { i \in Numbers : Cases[i].expected = "noise" } IN
               /\ DOMAIN p.cases = Numbers
               /\ \A i \in Numbers : p.cases[i].number = i /\ p.cases[i].gate = Deserves(i, found(i))
               /\ p.required_robustness_gate = HuberWins(found(HuberCase), found(L2Case))
               /\ p.required_gates_passed = /\ \A i \in Numbers : Deserves(i, found(i))
                                            /\ HuberWins(found(HuberCase), found(L2Case))
               /\ p.requested = Cardinality(noise)
               /\ p.samples = Cardinality({ i \in noise : found(i).rmse # Nothing })
    <3>1. /\ p.cases = rows /\ at = Len(Cases) + 1
          /\ p.required_gates_passed = ((\A i \in DOMAIN rows : rows[i].gate) /\ Robust)
          /\ p.required_robustness_gate = Robust
          /\ p.requested = Len(samples) /\ p.samples = Cardinality(ValuedSamples)
      BY DEF CampaignInv, PublishedSoFar
    <3>2. Numbers = 1..Len(Cases) /\ Len(Cases) \in Nat BY CasesAssumption DEF Numbers
    <3>3. DOMAIN rows = Numbers
      BY <3>1, <3>2 DEF CampaignInv, TypeOK, RowsAreOwn
    <3>4. \A i \in Numbers : /\ rows[i].number = i /\ rows[i].found \in Findings
                             /\ rows[i].gate = CaseGate(Cases[i].expected, rows[i].found)
      <4> DEFINE Row == [number : Numbers, gate : BOOLEAN, found : Findings, identity : Configs]
      <4>1. rows \in Seq(Row) BY DEF CampaignInv, RowsAreOwn
      <4> SUFFICES ASSUME NEW i \in Numbers
                   PROVE  /\ rows[i].number = i /\ rows[i].found \in Findings
                          /\ rows[i].gate = CaseGate(Cases[i].expected, rows[i].found)
        OBVIOUS
      <4>2. rows[i] \in Row
        <5> HIDE DEF Row
        <5> QED BY <4>1, <3>3
      <4>3. rows[i].found \in Findings BY <4>2
      <4>4. rows[i].number = i /\ rows[i].gate = CaseGate(Cases[i].expected, rows[i].found)
        BY <3>3 DEF CampaignInv, RowsAreOwn
      <4> QED BY <4>3, <4>4
    <3>5. \A i \in Numbers : rows[i].gate = Deserves(i, rows[i].found)
      BY <3>4, GateDeserved
    <3>6. Robust = HuberWins(rows[HuberCase].found, rows[L2Case].found)
      <4>1. at > L2Case /\ at > HuberCase BY <3>1, <3>2, CasesAssumption
      <4>2. Robust <=> HuberWins(rows[HuberCase].found, rows[L2Case].found)
        BY <4>1, RobustIsHuberWins DEF CampaignInv
      <4> QED BY <4>2 DEF Robust, HuberWins
    <3>7. /\ NoiseRows = { i \in Numbers : Cases[i].expected = "noise" }
          /\ ValuedRows = { i \in NoiseRows : rows[i].found.rmse # Nothing }
      BY <3>3 DEF NoiseRows, ValuedRows
    <3>8. p.requested = Cardinality(NoiseRows) /\ p.samples = Cardinality(ValuedRows)
      BY <3>1 DEF CampaignInv, SamplesSoFar
    <3> HIDE DEF CampaignInv
    <3>9. (\A i \in DOMAIN rows : rows[i].gate) <=> \A i \in Numbers : Deserves(i, rows[i].found)
      BY <3>3, <3>5
    <3>10. p.required_gates_passed = ((\A i \in Numbers : Deserves(i, rows[i].found))
                                      /\ HuberWins(rows[HuberCase].found, rows[L2Case].found))
      BY <3>1, <3>6, <3>9
    <3> QED BY <3>1, <3>3, <3>4, <3>5, <3>6, <3>7, <3>8, <3>10
  <2> QED BY <2>1, <2>2, <2>3 DEF VerdictIsTheGates
<1> QED BY <1>1, CampaignInvariance, PTL

\* No row is about a fixture that is not its case's own, whatever was left in the
\* stage (CampaignStage, the test for the data set).
THEOREM CampaignFixtures == CampaignSpec => []OwnFixture
<1>1. CampaignInv => OwnFixture
  <2> SUFFICES ASSUME CampaignInv PROVE OwnFixture OBVIOUS
  <2>1. \A i \in DOMAIN rows : rows[i].identity = Cases[i].config BY DEF CampaignInv, RowsAreOwn
  <2>2. ASSUME NEW p \in published
        PROVE  \A i \in {L2Case, HuberCase} : p.same_fixture_identity = rows[i].identity
    <3>1. at = Len(Cases) + 1 /\ p.same_fixture_identity = shared BY DEF CampaignInv, PublishedSoFar
    <3>2. L2Case \in 1..Len(Cases) /\ HuberCase \in 1..Len(Cases) /\ Len(Cases) \in Nat
          /\ Cases[L2Case].config = Cases[HuberCase].config
      BY CasesAssumption DEF Numbers
    <3>3. shared = rows[L2Case].identity BY <3>1, <3>2 DEF CampaignInv, PairIsOwn
    <3>4. DOMAIN rows = 1..Len(Cases) BY <3>1, <3>2 DEF CampaignInv, TypeOK, RowsAreOwn
    <3> QED BY <2>1, <3>1, <3>2, <3>3, <3>4
  <2> QED BY <2>1, <2>2 DEF OwnFixture
<1> QED BY <1>1, CampaignInvariance, PTL

=============================================================================
