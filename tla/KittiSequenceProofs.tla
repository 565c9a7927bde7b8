------------------------- MODULE KittiSequenceProofs -------------------------
(***************************************************************************)
(* Proofs about KittiSequence, for every calibration file, directory,      *)
(* timestamp file, order of enumeration and requested frame.               *)
(***************************************************************************)
EXTENDS KittiSequence, FiniteSetTheorems, WellFoundedInduction, TLAPS

-----------------------------------------------------------------------------
(* Sequences and finite sets                                               *)

LEMMA HeadAndTail ==
  ASSUME NEW S, NEW q \in Seq(S), q # <<>>
  PROVE  /\ Len(q) \in Nat \ {0} /\ DOMAIN q = 1..Len(q)
         /\ Head(q) = q[1] /\ Head(q) \in S
         /\ Tail(q) \in Seq(S) /\ Len(Tail(q)) = Len(q) - 1
         /\ DOMAIN Tail(q) = 1..(Len(q) - 1)
         /\ \A i \in 1..(Len(q) - 1) : Tail(q)[i] = q[i + 1]
OBVIOUS

LEMMA AppendedOne ==
  ASSUME NEW S, NEW b \in Seq(S), NEW x \in S
  PROVE  /\ Append(b, x) \in Seq(S)
         /\ Len(b) \in Nat /\ DOMAIN b = 1..Len(b)
         /\ Len(Append(b, x)) = Len(b) + 1
         /\ DOMAIN Append(b, x) = DOMAIN b \union {Len(b) + 1}
         /\ Append(b, x)[Len(b) + 1] = x
         /\ \A i \in DOMAIN b : Append(b, x)[i] = b[i]
         /\ ToSet(Append(b, x)) = ToSet(b) \union {x}
<1> DEFINE a == Append(b, x)
<1>1. /\ a \in Seq(S) /\ Len(b) \in Nat /\ DOMAIN b = 1..Len(b) /\ Len(a) = Len(b) + 1
      /\ DOMAIN a = 1..(Len(b) + 1) /\ a[Len(b) + 1] = x /\ \A i \in 1..Len(b) : a[i] = b[i]
  OBVIOUS
<1>2. DOMAIN a = DOMAIN b \union {Len(b) + 1}
  <2> DEFINE n == Len(b)
  <2>1. n \in Nat /\ DOMAIN a = 1..(n + 1) /\ DOMAIN b = 1..n
    BY <1>1
  <2> HIDE DEF n, a
  <2>2. DOMAIN a = DOMAIN b \union {n + 1}
    BY <2>1
  <2> QED BY <2>2 DEF n
<1> HIDE DEF a
<1>3. ToSet(a) = ToSet(b) \union {x}
  BY <1>1, <1>2 DEF ToSet
<1> QED BY <1>1, <1>2, <1>3 DEF a

LEMMA MoreThanOne ==
  ASSUME NEW S, IsFiniteSet(S)
  PROVE  Cardinality(S) > 1 <=> \E x, y \in S : x # y
<1>1. Cardinality(S) \in Nat
  BY FS_CardinalityType
<1>2. ASSUME NEW x \in S, NEW y \in S, x # y PROVE Cardinality(S) > 1
  <2>1. {x, y} \in SUBSET S /\ IsFiniteSet({x}) /\ Cardinality({x}) = 1
    BY FS_Singleton
  <2>2. Cardinality({x} \union {y}) = 1 + 1
    BY <1>2, <2>1, FS_AddElement
  <2>3. {x} \union {y} = {x, y}
    OBVIOUS
  <2>4. Cardinality({x, y}) <= Cardinality(S)
    BY <2>1, FS_Subset
  <2>5. Cardinality({x, y}) = 2
    BY <2>2, <2>3
  <2> HIDE DEF ToSet
  <2> QED BY <1>1, <2>4, <2>5
<1>3. ASSUME \A x, y \in S : x = y PROVE Cardinality(S) <= 1
  <2>1. CASE S = {}
    BY <2>1, FS_EmptySet
  <2>2. CASE S # {}
    <3>1. PICK x : S = {x}
      BY <1>3, <2>2
    <3> QED BY <3>1, FS_Singleton
  <2> QED BY <2>1, <2>2
<1> QED BY <1>1, <1>2, <1>3

LEMMA LeastNatural ==
  ASSUME NEW S \in SUBSET Nat, S # {}
  PROVE  Min(S) \in S /\ \A n \in S : Min(S) <= n
<1>1. PICK x \in S : \A y \in S : <<y, x>> \notin OpToRel(<, Nat)
  BY NatLessThanWellFounded, WFMin
<1>2. \A y \in S : ~(y < x)
  BY <1>1 DEF OpToRel
<1>3. \A y \in S : x <= y
  BY <1>2
<1> QED BY <1>3 DEF Min

-----------------------------------------------------------------------------
(* Ranks: how many members of a finite set have a smaller key               *)

Below(T, key, x) == { y \in T : key[y] < key[x] }
Increasing(f, n, T, key) ==
  /\ f \in [1..n -> T]
  /\ \A x \in T : \E i \in 1..n : f[i] = x
  /\ \A i, j \in 1..n : i < j => key[f[i]] < key[f[j]]

LEMMA BelowSize ==
  ASSUME NEW T, IsFiniteSet(T), NEW key \in [T -> Nat], NEW x \in T
  PROVE  /\ IsFiniteSet(Below(T, key, x))
         /\ Cardinality(Below(T, key, x)) \in 0..(Cardinality(T) - 1)
         /\ Cardinality(T) \in Nat
<1>1. Below(T, key, x) \in SUBSET (T \ {x})
  BY DEF Below
<1>2. /\ IsFiniteSet(T \ {x}) /\ Cardinality(T \ {x}) = Cardinality(T) - 1
      /\ Cardinality(T) \in Nat
  BY FS_RemoveElement, FS_CardinalityType
<1>3. /\ IsFiniteSet(Below(T, key, x))
      /\ Cardinality(Below(T, key, x)) <= Cardinality(T \ {x})
  BY <1>1, <1>2, FS_Subset
<1>4. Cardinality(Below(T, key, x)) \in Nat
  BY <1>3, FS_CardinalityType
<1> QED BY <1>2, <1>3, <1>4

LEMMA BelowGrows ==
  ASSUME NEW T, IsFiniteSet(T), NEW key \in [T -> Nat], NEW x \in T, NEW y \in T, key[x] < key[y]
  PROVE  Cardinality(Below(T, key, x)) < Cardinality(Below(T, key, y))
<1> DEFINE A == Below(T, key, x)
           B == Below(T, key, y)
<1>1. \A z \in T : key[z] \in Nat
  OBVIOUS
<1>2. x \in B /\ A \subseteq B \ {x}
  BY <1>1 DEF Below
<1>3. IsFiniteSet(B) /\ Cardinality(A) \in Nat /\ Cardinality(B) \in Nat
  BY BelowSize
<1> HIDE DEF A, B
<1>4. IsFiniteSet(B \ {x}) /\ Cardinality(B \ {x}) = Cardinality(B) - 1
  BY <1>2, <1>3, FS_RemoveElement
<1>5. Cardinality(A) <= Cardinality(B \ {x})
  BY <1>2, <1>4, FS_Subset
<1> QED BY <1>3, <1>4, <1>5 DEF A, B

\* A finite set whose members have different keys can be put in order.
LEMMA OrderExists ==
  ASSUME NEW T, IsFiniteSet(T), NEW key \in [T -> Nat], \A x, y \in T : key[x] = key[y] => x = y
  PROVE  \E f : Increasing(f, Cardinality(T), T, key)
<1> DEFINE n == Cardinality(T)
           rank == [x \in T |-> 1 + Cardinality(Below(T, key, x))]
<1>1. n \in Nat /\ \A x \in T : Cardinality(Below(T, key, x)) \in 0..(n - 1)
  BY BelowSize, FS_CardinalityType
<1>2. rank \in [T -> 1..n]
  <2> HIDE DEF n
  <2> QED BY <1>1
<1>3. \A x, y \in T : key[x] < key[y] => rank[x] < rank[y]
  <2> SUFFICES ASSUME NEW x \in T, NEW y \in T, key[x] < key[y] PROVE rank[x] < rank[y]
    OBVIOUS
  <2>1. Cardinality(Below(T, key, x)) < Cardinality(Below(T, key, y))
    BY BelowGrows
  <2> HIDE DEF n
  <2> QED BY <1>1, <2>1
<1>4. \A x, y \in T : key[x] < key[y] \/ key[y] < key[x] \/ key[x] = key[y]
  <2>1. \A x \in T : key[x] \in Nat
    OBVIOUS
  <2> QED BY <2>1
<1>5. \A x \in T : rank[x] \in Nat
  <2> HIDE DEF n, rank
  <2> QED BY <1>1, <1>2
<1> HIDE DEF rank
<1>6. \A x, y \in T : rank[x] = rank[y] => x = y
  <2> SUFFICES ASSUME NEW x \in T, NEW y \in T, rank[x] = rank[y] PROVE x = y
    OBVIOUS
  <2>1. rank[x] \in Nat /\ rank[y] \in Nat
    BY <1>5
  <2>2. ~(key[x] < key[y]) /\ ~(key[y] < key[x])
    BY <1>3, <2>1
  <2> QED BY <1>4, <2>2
<1>7. rank \in Surjection(T, 1..n)
  <2> HIDE DEF n
  <2>1. rank \in Injection(T, 1..n)
    BY <1>2, <1>6 DEF Injection, IsInjective
  <2>2. IsFiniteSet(1..n) /\ Cardinality(1..n) = n
    <3>1. 0 \in Int /\ 1 \in Int /\ n \in Int
      BY <1>1
    <3>2. IsFiniteSet(1..n) /\ Cardinality(1..n) = IF 1 > n THEN 0 ELSE n - 1 + 1
      BY <3>1, FS_Interval
    <3> QED BY <1>1, <3>2
  <2>3. Cardinality(T) = Cardinality(1..n)
    BY <2>2 DEF n
  <2> QED BY <2>1, <2>2, <2>3, FS_Injection
<1>8. \A i \in 1..n : \E x \in T : rank[x] = i
  BY <1>7 DEF Surjection
<1> DEFINE f == [i \in 1..n |-> CHOOSE x \in T : rank[x] = i]
<1>9. \A i \in 1..n : f[i] \in T /\ rank[f[i]] = i
  BY <1>8
<1>10. f \in [1..n -> T]
  <2> HIDE DEF n
  <2>1. \A i \in 1..n : (CHOOSE x \in T : rank[x] = i) \in T
    BY <1>8
  <2> QED BY <2>1
<1> HIDE DEF f
<1>11. ASSUME NEW x \in T PROVE \E i \in 1..n : f[i] = x
  <2>1. rank[x] \in 1..n
    BY <1>2
  <2>2. f[rank[x]] = x
    BY <1>6, <1>9, <2>1
  <2> QED BY <2>1, <2>2
<1>12. ASSUME NEW i \in 1..n, NEW j \in 1..n, i < j PROVE key[f[i]] < key[f[j]]
  <2>1. f[i] \in T /\ f[j] \in T /\ rank[f[i]] = i /\ rank[f[j]] = j
    BY <1>9
  <2>2. ~(key[f[j]] < key[f[i]])
    BY <1>3, <1>12, <2>1
  <2>3. key[f[i]] # key[f[j]]
    <3>1. f[i] # f[j]
      BY <1>12, <2>1
    <3> QED BY <2>1, <3>1
  <2> QED BY <1>4, <2>1, <2>2, <2>3
<1>13. Increasing(f, n, T, key)
  <2> HIDE DEF n
  <2> QED BY <1>10, <1>11, <1>12 DEF Increasing
<1> QED BY <1>13

\* In order, the member at i has i - 1 members below it.
LEMMA RankInOrder ==
  ASSUME NEW T, IsFiniteSet(T), NEW key \in [T -> Nat], NEW n \in Nat, NEW f,
         Increasing(f, n, T, key), NEW k \in 1..n
  PROVE  1 + Cardinality(Below(T, key, f[k])) = k
<1> DEFINE g == [i \in 1..(k - 1) |-> f[i]]
           B == Below(T, key, f[k])
<1>1. /\ \A i \in 1..n : f[i] \in T /\ key[f[i]] \in Nat
      /\ \A i, j \in 1..n : i < j => key[f[i]] < key[f[j]]
      /\ \A x \in T : \E i \in 1..n : f[i] = x
  BY DEF Increasing
<1>2. \A i \in 1..n : key[f[i]] < key[f[k]] => i \in 1..(k - 1)
  BY <1>1
<1>3. \A i \in 1..(k - 1) : i \in 1..n /\ i < k /\ g[i] = f[i]
  OBVIOUS
<1>4. B = { x \in T : key[x] < key[f[k]] }
  BY DEF Below
<1> HIDE DEF g, B
<1>5. \A i \in 1..(k - 1) : g[i] \in B
  BY <1>1, <1>3, <1>4
<1>6. \A x \in B : \E i \in 1..(k - 1) : g[i] = x
  <2> SUFFICES ASSUME NEW x \in B PROVE \E i \in 1..(k - 1) : g[i] = x
    OBVIOUS
  <2>1. PICK i \in 1..n : f[i] = x
    BY <1>1, <1>4
  <2>2. i \in 1..(k - 1)
    BY <1>2, <1>4, <2>1
  <2> QED BY <1>3, <2>1, <2>2
<1>7. \A i, j \in 1..(k - 1) : g[i] = g[j] => i = j
  <2> SUFFICES ASSUME NEW i \in 1..(k - 1), NEW j \in 1..(k - 1), i < j PROVE g[i] # g[j]
    OBVIOUS
  <2>1. key[f[i]] < key[f[j]] /\ key[f[i]] \in Nat
    BY <1>1, <1>3
  <2> QED BY <1>3, <2>1
<1>8. g \in Bijection(1..(k - 1), B)
  <2>1. g \in [1..(k - 1) -> B]
    BY <1>5 DEF g
  <2> QED BY <1>6, <1>7, <2>1 DEF Bijection, Injection, Surjection, IsInjective
<1>9. ExistsBijection(1..(k - 1), B)
  BY <1>8 DEF ExistsBijection
<1>10. Cardinality(B) = k - 1
  <2>1. k - 1 \in Nat
    OBVIOUS
  <2> QED BY <1>9, <2>1, FS_CountingElements
<1>11. 1 + Cardinality(B) = k
  BY <1>10
<1> QED BY <1>11 DEF B

-----------------------------------------------------------------------------
(* What the pure parts of the loaders do                                    *)

\* Sequences of files whose names parse to different numbers.
Distinct(b) == \A i, j \in DOMAIN b : Number(b[i]) = Number(b[j]) => i = j
Ascending(r) == \A i, j \in DOMAIN r : i < j => Number(r[i]) < Number(r[j])

LEMMA DistinctSize ==
  ASSUME NEW S, NEW b \in Seq(S), Distinct(b)
  PROVE  IsFiniteSet(ToSet(b)) /\ Cardinality(ToSet(b)) = Len(b)
<1>1. Len(b) \in Nat /\ DOMAIN b = 1..Len(b)
  OBVIOUS
<1> DEFINE n == Len(b)
<1>2. b \in [1..n -> ToSet(b)]
  <2>1. b = [i \in 1..n |-> b[i]]
    OBVIOUS
  <2>2. \A i \in 1..n : b[i] \in ToSet(b)
    BY DEF ToSet
  <2> HIDE DEF n
  <2> QED BY <2>1, <2>2
<1>3. \A i, j \in 1..n : b[i] = b[j] => i = j
  BY <1>1 DEF Distinct
<1>4. \A x \in ToSet(b) : \E i \in 1..n : b[i] = x
  BY <1>1 DEF ToSet
<1>5. n \in Nat
  BY <1>1
<1> HIDE DEF n
<1>6. b \in Bijection(1..n, ToSet(b))
  BY <1>2, <1>3, <1>4 DEF Bijection, Injection, Surjection, IsInjective
<1>7. ExistsBijection(1..n, ToSet(b))
  BY <1>6 DEF ExistsBijection
<1>8. Cardinality(ToSet(b)) = n
  BY <1>5, <1>7, FS_CountingElements
<1>9. IsFiniteSet(ToSet(b))
  BY <1>5, <1>7, FS_NatBijection
<1> QED BY <1>8, <1>9 DEF n

\* A std::map of the files enumerates them in ascending order, each of them once.
LEMMA InOrderSorts ==
  ASSUME NEW S, NEW b \in Seq(S), Distinct(b), \A e \in ToSet(b) : Number(e) \in Nat
  PROVE  /\ InOrder(b) \in Seq(ToSet(b))
         /\ Len(InOrder(b)) = Len(b)
         /\ ToSet(InOrder(b)) = ToSet(b)
         /\ Ascending(InOrder(b))
<1> DEFINE T == ToSet(b)
           n == Cardinality(T)
           key == [e \in T |-> Number(e)]
           Fits(f) == \A i, j \in DOMAIN f : i < j => Number(f[i]) < Number(f[j])
           r == InOrder(b)
<1>1. IsFiniteSet(T) /\ n = Len(b) /\ n \in Nat
  BY DistinctSize
<1>2. key \in [T -> Nat] /\ \A x, y \in T : key[x] = key[y] => x = y
  <2>1. \A x, y \in T : Number(x) = Number(y) => x = y
    BY DEF ToSet, Distinct
  <2> HIDE DEF T
  <2> QED BY <2>1 DEF T
<1>3. PICK f : Increasing(f, n, T, key)
  <2> HIDE DEF key, T
  <2> QED BY <1>1, <1>2, OrderExists
<1>4. f \in SetToSeqs(T) /\ Fits(f)
  <2> HIDE DEF T, n
  <2>1. f \in [1..n -> T] /\ DOMAIN f = 1..n
    BY <1>3 DEF Increasing
  <2>2. \A i, j \in 1..n : i < j => Number(f[i]) < Number(f[j])
    BY <1>3, <2>1 DEF Increasing
  <2>3. \A i \in 1..n : Number(f[i]) \in Nat
    BY <2>1 DEF T
  <2>4. \A i, j \in 1..n : i # j => f[i] # f[j]
    <3> SUFFICES ASSUME NEW i \in 1..n, NEW j \in 1..n, i < j PROVE f[i] # f[j]
      BY <1>1
    <3> QED BY <2>2, <2>3
  <2>5. f \in { g \in [1..n -> T] : \A i, j \in 1..n : i # j => g[i] # g[j] }
    BY <2>1, <2>4
  <2> QED BY <2>1, <2>2, <2>5 DEF SetToSeqs, n
<1>5. r \in SetToSeqs(T) /\ Fits(r)
  <2> HIDE DEF T, Fits
  <2>1. r = CHOOSE g \in SetToSeqs(T) : Fits(g)
    BY DEF InOrder, T, Fits
  <2> HIDE DEF r
  <2> QED BY <1>4, <2>1
<1> HIDE DEF r
<1>6. r \in [1..n -> T] /\ \A i, j \in 1..n : i # j => r[i] # r[j]
  <2> HIDE DEF T
  <2> QED BY <1>5 DEF SetToSeqs
<1>7. r \in Injection(1..n, T)
  <2> HIDE DEF n, T
  <2> QED BY <1>6 DEF Injection, IsInjective
<1>8. r \in Surjection(1..n, T)
  <2>1. Cardinality(1..n) = n
    <3> HIDE DEF n
    <3>1. 1 \in Int /\ n \in Int
      BY <1>1
    <3>2. Cardinality(1..n) = IF 1 > n THEN 0 ELSE n - 1 + 1
      BY <3>1, FS_Interval
    <3> QED BY <1>1, <3>2
  <2> HIDE DEF T
  <2>2. Cardinality(1..n) = Cardinality(T)
    BY <2>1
  <2> HIDE DEF n
  <2> QED BY <1>1, <1>7, <2>2, FS_Injection
<1>9. r \in Seq(T) /\ Len(r) = n /\ DOMAIN r = 1..n
  <2> HIDE DEF n, T
  <2> QED BY <1>1, <1>6
<1>10. ToSet(r) = T
  <2> HIDE DEF n, T
  <2>1. \A x \in T : \E i \in 1..n : r[i] = x
    BY <1>8 DEF Surjection
  <2> QED BY <1>6, <1>9, <2>1 DEF ToSet
<1> QED BY <1>1, <1>5, <1>9, <1>10 DEF Ascending, r

\* A listing of a directory names each of its entries once.
LEMMA ListingIsComplete ==
  ASSUME NEW d, IsFiniteSet(d), NEW q \in SetToSeqs(d)
  PROVE  /\ q \in Seq(d) /\ ToSet(q) = d
         /\ \A i, j \in DOMAIN q : q[i] = q[j] => i = j
<1> DEFINE n == Cardinality(d)
<1>1. n \in Nat
  BY FS_CardinalityType
<1>2. q \in [1..n -> d] /\ \A i, j \in 1..n : i # j => q[i] # q[j]
  BY DEF SetToSeqs
<1>3. Cardinality(1..n) = n
  <2> HIDE DEF n
  <2>1. 1 \in Int /\ n \in Int
    BY <1>1
  <2>2. Cardinality(1..n) = IF 1 > n THEN 0 ELSE n - 1 + 1
    BY <2>1, FS_Interval
  <2> QED BY <1>1, <2>2
<1>4. q \in Surjection(1..n, d)
  <2>1. Cardinality(1..n) = Cardinality(d)
    BY <1>3
  <2> HIDE DEF n
  <2>2. q \in Injection(1..n, d)
    BY <1>2 DEF Injection, IsInjective
  <2> QED BY <2>1, <2>2, FS_Injection
<1> HIDE DEF n
<1>5. \A x \in d : \E i \in 1..n : q[i] = x
  BY <1>4 DEF Surjection
<1> QED BY <1>1, <1>2, <1>5 DEF ToSet

-----------------------------------------------------------------------------
(* Reading a file                                                           *)

\* q is what is left of c after n lines.
Remains(q, c, n) == /\ n \in Nat /\ Len(c) = n + Len(q)
                    /\ \A i \in 1..Len(q) : q[i] = c[n + i]

LEMMA NothingRead ==
  ASSUME NEW S, NEW c \in Seq(S)
  PROVE  Remains(c, c, 0)
BY DEF Remains

LEMMA OneLineRead ==
  ASSUME NEW S, NEW c \in Seq(S), NEW q \in Seq(S), NEW n, Remains(q, c, n), q # <<>>
  PROVE  /\ Remains(Tail(q), c, n + 1)
         /\ n + 1 \in DOMAIN c /\ Head(q) = c[n + 1]
         /\ 1..(n + 1) \subseteq DOMAIN c
         /\ 1..(n + 1) = (1..n) \union {n + 1}
<1>1. /\ Len(q) \in Nat \ {0} /\ Head(q) = q[1] /\ Len(Tail(q)) = Len(q) - 1
      /\ \A i \in 1..(Len(q) - 1) : Tail(q)[i] = q[i + 1]
  BY HeadAndTail
<1>2. Len(c) \in Nat /\ DOMAIN c = 1..Len(c)
  OBVIOUS
<1>3. n \in Nat /\ Len(c) = n + Len(q) /\ \A i \in 1..Len(q) : q[i] = c[n + i]
  BY DEF Remains
<1> DEFINE l == Len(q)  m == Len(c)  k == Len(Tail(q))  t == Tail(q)
<1> HIDE DEF l, m, k, t
<1>4. /\ l \in Nat \ {0} /\ m \in Nat /\ k = l - 1 /\ m = n + l /\ n \in Nat
      /\ \A i \in 1..(l - 1) : t[i] = q[i + 1]
      /\ \A i \in 1..l : q[i] = c[n + i]
  BY <1>1, <1>2, <1>3 DEF l, m, k, t
<1>5. m = (n + 1) + k /\ n + 1 \in 1..m /\ q[1] = c[n + 1]
  BY <1>4
<1>6. ASSUME NEW i \in 1..k PROVE t[i] = c[(n + 1) + i]
  <2>1. i + 1 \in 1..l /\ i \in 1..(l - 1) /\ n + (i + 1) = (n + 1) + i
    BY <1>4
  <2> QED BY <1>4, <2>1
<1>7. Remains(t, c, n + 1)
  BY <1>4, <1>5, <1>6 DEF Remains, m, k, t
<1>8. 1..(n + 1) \subseteq 1..m /\ 1..(n + 1) = (1..n) \union {n + 1}
  BY <1>4
<1> QED BY <1>1, <1>2, <1>5, <1>7, <1>8 DEF m, t

LEMMA AllRead ==
  ASSUME NEW S, NEW c \in Seq(S), NEW n, Remains(<<>>, c, n)
  PROVE  n = Len(c) /\ DOMAIN c = 1..n /\ n \in Nat
<1>1. Len(<<>>) = 0 /\ Len(c) \in Nat /\ DOMAIN c = 1..Len(c)
  OBVIOUS
<1> DEFINE z == Len(<<>>)  m == Len(c)
<1> HIDE DEF z, m
<1>2. n \in Nat /\ m = n + z /\ z = 0
  BY <1>1 DEF Remains, z, m
<1>3. n = m
  BY <1>2
<1> QED BY <1>1, <1>2, <1>3 DEF m

-----------------------------------------------------------------------------
(* The calibration files                                                    *)

\* What has been kept of the first n lines: the required ones, each key once.
KeptLines(f, c, n, b) ==
  /\ b \in Seq(CalibrationLines)
  /\ \A i \in 1..n : c[i].key \in Required[f] => c[i].found \notin Unparsable /\ c[i] \in ToSet(b)
  /\ \A x \in ToSet(b) : \E i \in 1..n : c[i] = x /\ c[i].key \in Required[f]
  /\ \A i, j \in 1..n : c[i].key \in Required[f] /\ c[i].key = c[j].key => i = j

CalibrationRead(f, c, r) ==
  /\ c \in Seq(CalibrationLines)
  /\ CalibrationDefects(f, c) = {}
  /\ r = { c[i] : i \in { i \in DOMAIN c : c[i].key \in Required[f] } }

LEMMA CalibrationDefectsAre ==
  ASSUME NEW f, NEW c \in Seq(CalibrationLines), NEW x
  PROVE  x \in CalibrationDefects(f, c) <=>
           \/ x = "missing_key" /\ \E k \in Required[f] : \A i \in DOMAIN c : c[i].key # k
           \/ x = "duplicate_key" /\ \E i, j \in DOMAIN c : /\ i # j /\ c[i].key = c[j].key
                                                            /\ c[i].key \in Required[f]
           \/ x \in Unparsable /\ \E i \in DOMAIN c : c[i].key \in Required[f] /\ c[i].found = x
<1> DEFINE Of(key) == { i \in DOMAIN c : c[i].key = key }
<1>1. ASSUME NEW key PROVE Cardinality(Of(key)) > 1 <=> \E i, j \in Of(key) : i # j
  <2>1. DOMAIN c = 1..Len(c) /\ Len(c) \in Nat
    OBVIOUS
  <2>2. IsFiniteSet(1..Len(c))
    <3> DEFINE m == Len(c)
    <3>1. 1 \in Int /\ m \in Int
      BY <2>1
    <3> HIDE DEF m
    <3>2. IsFiniteSet(1..m)
      BY <3>1, FS_Interval
    <3> QED BY <3>2 DEF m
  <2>3. Of(key) \in SUBSET (1..Len(c))
    BY <2>1
  <2>4. IsFiniteSet(Of(key))
    <3> HIDE DEF Of
    <3> QED BY <2>2, <2>3, FS_Subset
  <2> HIDE DEF Of
  <2> QED BY <2>4, MoreThanOne
<1>2. x \in CalibrationDefects(f, c) <=>
        \/ x = "missing_key" /\ \E k \in Required[f] : Of(k) = {}
        \/ x = "duplicate_key" /\ \E k \in Required[f] : Cardinality(Of(k)) > 1
        \/ x \in Unparsable /\ \E i \in DOMAIN c : c[i].key \in Required[f] /\ c[i].found = x
  BY DEF CalibrationDefects
<1>3. \A k : Cardinality(Of(k)) > 1 <=> \E i, j \in DOMAIN c : i # j /\ c[i].key = k /\ c[j].key = k
  <2> SUFFICES ASSUME NEW k
               PROVE  Cardinality(Of(k)) > 1
                        <=> \E i, j \in DOMAIN c : i # j /\ c[i].key = k /\ c[j].key = k
    OBVIOUS
  <2>1. (\E i, j \in Of(k) : i # j)
          <=> \E i, j \in DOMAIN c : i # j /\ c[i].key = k /\ c[j].key = k
    OBVIOUS
  <2> HIDE DEF Of
  <2> QED BY <1>1, <2>1
<1>4. \A k : Of(k) = {} <=> \A i \in DOMAIN c : c[i].key # k
  OBVIOUS
<1> HIDE DEF Of
<1> QED BY <1>2, <1>3, <1>4

\* One line: it is passed over, kept, or refused for what is wrong with the file.
LEMMA CalibrationLine ==
  ASSUME NEW f, NEW c \in Seq(CalibrationLines), NEW q \in Seq(CalibrationLines), q # <<>>,
         NEW n, Remains(q, c, n), NEW b, KeptLines(f, c, n, b)
  PROVE  LET line == Head(q)
             twice == \E i \in DOMAIN b : b[i].key = line.key
         IN  /\ line.key \notin Required[f] => KeptLines(f, c, n + 1, b)
             /\ line.key \in Required[f] /\ twice => "duplicate_key" \in CalibrationDefects(f, c)
             /\ line.key \in Required[f] /\ line.found \in Unparsable
                  => line.found \in CalibrationDefects(f, c)
             /\ line.key \in Required[f] /\ ~twice /\ line.found \notin Unparsable
                  => KeptLines(f, c, n + 1, Append(b, line))
<1> DEFINE line == Head(q)
           twice == \E i \in DOMAIN b : b[i].key = line.key
<1>1. /\ n + 1 \in DOMAIN c /\ line = c[n + 1] /\ 1..(n + 1) \subseteq DOMAIN c
      /\ 1..(n + 1) = (1..n) \union {n + 1} /\ n \in Nat
  BY OneLineRead DEF Remains
<1>2. line \in CalibrationLines /\ b \in Seq(CalibrationLines)
  BY HeadAndTail DEF KeptLines
<1> HIDE DEF line
<1>3. twice <=> \E j \in 1..n : c[j].key \in Required[f] /\ c[j].key = line.key
                                /\ c[j] \in ToSet(b)
  <2>1. twice <=> \E x \in ToSet(b) : x.key = line.key
    BY DEF ToSet
  <2>2. \A x : x \in ToSet(b) <=> \E j \in 1..n : /\ c[j] = x /\ c[j].key \in Required[f]
                                                /\ c[j] \in ToSet(b)
    BY DEF KeptLines
  <2> HIDE DEF twice
  <2> QED BY <2>1, <2>2
<1> HIDE DEF twice
<1>4. ASSUME line.key \notin Required[f] PROVE KeptLines(f, c, n + 1, b)
  <2>1. \A i \in 1..(n + 1) : c[i].key \in Required[f] => i \in 1..n
    BY <1>1, <1>4
  <2>2. 1..n \subseteq 1..(n + 1)
    BY <1>1
  <2> QED BY <2>1, <2>2 DEF KeptLines
<1>5. ASSUME line.key \in Required[f], twice PROVE "duplicate_key" \in CalibrationDefects(f, c)
  <2>1. PICK j \in 1..n : c[j].key \in Required[f] /\ c[j].key = line.key
    BY <1>3, <1>5
  <2>2. j \in DOMAIN c /\ j # n + 1
    BY <1>1
  <2> QED BY <1>1, <2>1, <2>2, CalibrationDefectsAre
<1>6. ASSUME line.key \in Required[f], line.found \in Unparsable
      PROVE  line.found \in CalibrationDefects(f, c)
  BY <1>1, <1>6, CalibrationDefectsAre
<1>7. ASSUME line.key \in Required[f], ~twice, line.found \notin Unparsable
      PROVE  KeptLines(f, c, n + 1, Append(b, line))
  <2> DEFINE a == Append(b, line)
  <2>1. a \in Seq(CalibrationLines) /\ ToSet(a) = ToSet(b) \union {line}
    BY <1>2, AppendedOne
  <2> HIDE DEF a
  <2>2. \A i \in 1..n : c[i].key \in Required[f] => c[i].key # line.key
    BY <1>3, <1>7 DEF KeptLines
  <2>3. \A i \in 1..(n + 1) :
          c[i].key \in Required[f] => c[i].found \notin Unparsable /\ c[i] \in ToSet(a)
    BY <1>1, <1>7, <2>1 DEF KeptLines
  <2>4. \A x \in ToSet(a) : \E i \in 1..(n + 1) : c[i] = x /\ c[i].key \in Required[f]
    BY <1>1, <1>7, <2>1 DEF KeptLines
  <2>5. \A i, j \in 1..(n + 1) : c[i].key \in Required[f] /\ c[i].key = c[j].key => i = j
    BY <1>1, <2>2 DEF KeptLines
  <2> QED BY <2>1, <2>3, <2>4, <2>5 DEF KeptLines, a
<1> QED BY <1>4, <1>5, <1>6, <1>7 DEF line, twice

LEMMA CalibrationEnd ==
  ASSUME NEW f, NEW c \in Seq(CalibrationLines), NEW n, Remains(<<>>, c, n),
         NEW b, KeptLines(f, c, n, b)
  PROVE  IF Required[f] \subseteq { line.key : line \in ToSet(b) }
         THEN CalibrationRead(f, c, ToSet(b))
         ELSE "missing_key" \in CalibrationDefects(f, c)
<1>1. DOMAIN c = 1..n
  BY AllRead
<1>2. ToSet(b) = { c[i] : i \in { i \in DOMAIN c : c[i].key \in Required[f] } }
  BY <1>1 DEF KeptLines
<1>3. CASE Required[f] \subseteq { line.key : line \in ToSet(b) }
  <2>1. \A k \in Required[f] : \E i \in DOMAIN c : c[i].key = k
    BY <1>2, <1>3
  <2>2. ASSUME NEW x, x \in CalibrationDefects(f, c) PROVE FALSE
    <3>1. /\ \A i \in DOMAIN c : c[i].key \in Required[f] => c[i].found \notin Unparsable
          /\ \A i, j \in DOMAIN c : c[i].key \in Required[f] /\ c[i].key = c[j].key => i = j
      BY <1>1 DEF KeptLines
    <3>2. \/ \E k \in Required[f] : \A i \in DOMAIN c : c[i].key # k
          \/ \E i, j \in DOMAIN c : i # j /\ c[i].key = c[j].key /\ c[i].key \in Required[f]
          \/ x \in Unparsable /\ \E i \in DOMAIN c : c[i].key \in Required[f] /\ c[i].found = x
      BY <2>2, CalibrationDefectsAre
    <3> QED BY <2>1, <3>1, <3>2
  <2> QED BY <1>2, <1>3, <2>2 DEF CalibrationRead
<1>4. CASE ~(Required[f] \subseteq { line.key : line \in ToSet(b) })
  <2>1. PICK k \in Required[f] : k \notin { line.key : line \in ToSet(b) }
    BY <1>4
  <2>2. \A i \in DOMAIN c : c[i].key # k
    BY <1>2, <2>1
  <2> QED BY <1>4, <2>2, CalibrationDefectsAre
<1> QED BY <1>3, <1>4

-----------------------------------------------------------------------------
(* The directories                                                          *)

Listed(q) == \A i, j \in DOMAIN q : q[i] = q[j] => i = j

\* What directory_iterator has still to visit, and what the map holds.
Enumerated(s, d, q, b) ==
  /\ q \in Seq(d) /\ Listed(q) /\ b \in Seq(d)
  /\ ToSet(q) \intersect ToSet(b) = {}
  /\ \A e \in d : Counts(e, s) => e \in ToSet(q) \union ToSet(b)
  /\ \A e \in ToSet(b) : Counts(e, s) /\ Number(e) \in Nat
  /\ Distinct(b) /\ Len(b) <= MaximumFrames

DirectoryRead(s, d, r) ==
  /\ DirectoryDefects(s, d) = {}
  /\ IsFiniteSet(Files(s, d)) /\ \A e \in Files(s, d) : Number(e) \in Nat
  /\ r \in Seq(Files(s, d)) /\ ToSet(r) = Files(s, d) /\ Len(r) = Cardinality(Files(s, d))
  /\ Ascending(r)

LEMMA DirectoryDefectsAre ==
  ASSUME NEW s, NEW d, NEW x
  PROVE  x \in DirectoryDefects(s, d) <=>
           \/ x = "invalid_layout" /\ Files(s, d) = {}
           \/ x = "limit_exceeded" /\ Cardinality(Files(s, d)) > MaximumFrames
           \/ /\ x = "invalid_frame_file"
              /\ \/ \E e \in Files(s, d) : Number(e) = NotNumeric
                 \/ \E e, f \in Files(s, d) : e # f /\ Number(e) = Number(f)
<1> DEFINE files == Files(s, d)
           many == Cardinality(files) > MaximumFrames
           bad == \/ \E e \in files : Number(e) = NotNumeric
                  \/ \E e, f \in files : e # f /\ Number(e) = Number(f)
<1>1. DirectoryDefects(s, d) =
        (IF files = {} THEN {"invalid_layout"} ELSE {})
          \union (IF many THEN {"limit_exceeded"} ELSE {})
          \union (IF bad THEN {"invalid_frame_file"} ELSE {})
  BY DEF DirectoryDefects
<1>2. ASSUME NEW p \in BOOLEAN, NEW u PROVE x \in (IF p THEN {u} ELSE {}) <=> x = u /\ p
  OBVIOUS
<1> DEFINE empty == files = {}
           A == IF empty THEN {"invalid_layout"} ELSE {}
           B == IF many THEN {"limit_exceeded"} ELSE {}
           C == IF bad THEN {"invalid_frame_file"} ELSE {}
<1>3. empty \in BOOLEAN /\ many \in BOOLEAN /\ bad \in BOOLEAN
  OBVIOUS
<1>4. /\ x \in A <=> x = "invalid_layout" /\ empty
      /\ x \in B <=> x = "limit_exceeded" /\ many
      /\ x \in C <=> x = "invalid_frame_file" /\ bad
  <2> HIDE DEF empty, many, bad
  <2> QED BY <1>2, <1>3
<1>5. x \in DirectoryDefects(s, d) <=> x \in A \/ x \in B \/ x \in C
  <2>1. DirectoryDefects(s, d) = A \union B \union C
    BY <1>1
  <2> HIDE DEF A, B, C
  <2> QED BY <2>1
<1> HIDE DEF A, B, C
<1>6. x \in DirectoryDefects(s, d)
        <=> \/ x = "invalid_layout" /\ empty
            \/ x = "limit_exceeded" /\ many
            \/ x = "invalid_frame_file" /\ bad
  <2> HIDE DEF empty, many, bad
  <2> QED BY <1>4, <1>5
<1> QED BY <1>6, Zenon

LEMMA TailOfListing ==
  ASSUME NEW d, NEW q \in Seq(d), q # <<>>, Listed(q)
  PROVE  /\ Tail(q) \in Seq(d) /\ Listed(Tail(q)) /\ Head(q) \in d
         /\ ToSet(q) = ToSet(Tail(q)) \union {Head(q)}
         /\ Head(q) \notin ToSet(Tail(q))
<1> DEFINE t == Tail(q)  n == Len(q)
<1>1. /\ n \in Nat \ {0} /\ DOMAIN q = 1..n /\ Head(q) = q[1] /\ Head(q) \in d
      /\ t \in Seq(d) /\ DOMAIN t = 1..(n - 1)
      /\ \A i \in 1..(n - 1) : t[i] = q[i + 1]
  BY HeadAndTail
<1> HIDE DEF t, n
<1>2. \A i \in 1..(n - 1) : i + 1 \in 1..n /\ i + 1 # 1
  BY <1>1
<1>3. \A i \in 1..n : i = 1 \/ (i - 1 \in 1..(n - 1) /\ i = (i - 1) + 1)
  BY <1>1
<1>4. 1 \in 1..n
  BY <1>1
<1>5. Listed(t)
  <2> SUFFICES ASSUME NEW i \in 1..(n - 1), NEW j \in 1..(n - 1), t[i] = t[j] PROVE i = j
    BY <1>1 DEF Listed
  <2>1. i + 1 = j + 1
    BY <1>1, <1>2 DEF Listed
  <2> QED BY <2>1
<1>6. Head(q) \notin ToSet(t)
  BY <1>1, <1>2, <1>4 DEF Listed, ToSet
<1>7. ToSet(q) = ToSet(t) \union {Head(q)}
  <2>1. ASSUME NEW i \in 1..n PROVE q[i] \in ToSet(t) \union {Head(q)}
    <3>1. CASE i = 1
      BY <1>1, <3>1
    <3>2. CASE i # 1
      <4>1. i - 1 \in 1..(n - 1) /\ t[i - 1] = q[i]
        BY <1>1, <1>3, <3>2
      <4> QED BY <1>1, <4>1 DEF ToSet
    <3> QED BY <3>1, <3>2
  <2>2. ASSUME NEW i \in 1..(n - 1) PROVE t[i] \in ToSet(q)
    BY <1>1, <1>2 DEF ToSet
  <2>3. Head(q) \in ToSet(q)
    BY <1>1, <1>4 DEF ToSet
  <2> QED BY <1>1, <2>1, <2>2, <2>3 DEF ToSet
<1> QED BY <1>1, <1>5, <1>6, <1>7 DEF t

\* One entry: it is passed over, kept, or refused for what is wrong with the directory.
LEMMA DirectoryEntry ==
  ASSUME NEW s, NEW d, IsFiniteSet(d), \A e \in d : Number(e) \in Nat \union {NotNumeric},
         NEW q, q # <<>>, NEW b, Enumerated(s, d, q, b)
  PROVE  LET entry == Head(q)
             taken == \E i \in DOMAIN b : Number(b[i]) = Number(entry)
         IN  /\ ~Counts(entry, s) => Enumerated(s, d, Tail(q), b)
             /\ Counts(entry, s) /\ Len(b) >= MaximumFrames
                  => "limit_exceeded" \in DirectoryDefects(s, d)
             /\ Counts(entry, s) /\ (Number(entry) = NotNumeric \/ taken)
                  => "invalid_frame_file" \in DirectoryDefects(s, d)
             /\ Counts(entry, s) /\ ~(Len(b) >= MaximumFrames)
                  /\ ~(Number(entry) = NotNumeric \/ taken)
                  => Enumerated(s, d, Tail(q), Append(b, entry))
<1> DEFINE entry == Head(q)
           t == Tail(q)
           taken == \E i \in DOMAIN b : Number(b[i]) = Number(entry)
<1>1. /\ q \in Seq(d) /\ Listed(q) /\ b \in Seq(d) /\ ToSet(q) \intersect ToSet(b) = {}
      /\ \A e \in d : Counts(e, s) => e \in ToSet(q) \union ToSet(b)
      /\ \A e \in ToSet(b) : Counts(e, s) /\ Number(e) \in Nat
      /\ Distinct(b) /\ Len(b) <= MaximumFrames
  BY DEF Enumerated
<1>2. /\ t \in Seq(d) /\ Listed(t) /\ entry \in d /\ ToSet(q) = ToSet(t) \union {entry}
      /\ entry \notin ToSet(t)
  BY <1>1, TailOfListing
<1>3. entry \notin ToSet(b) /\ ToSet(t) \intersect ToSet(b) = {}
  BY <1>1, <1>2
<1>4. taken <=> \E e \in ToSet(b) : Number(e) = Number(entry)
  BY DEF ToSet
<1>5. ToSet(b) \subseteq Files(s, d)
  BY <1>1 DEF Files, ToSet
<1>6. Len(b) \in Nat /\ MaximumFrames \in Nat
  BY <1>1, LimitsAssumption
<1> HIDE DEF entry, t, taken
<1>7. ASSUME ~Counts(entry, s) PROVE Enumerated(s, d, t, b)
  BY <1>1, <1>2, <1>3, <1>7 DEF Enumerated
<1>8. ASSUME Counts(entry, s), Len(b) >= MaximumFrames
      PROVE  "limit_exceeded" \in DirectoryDefects(s, d)
  <2>1. IsFiniteSet(ToSet(b)) /\ Cardinality(ToSet(b)) = Len(b)
    BY <1>1, DistinctSize
  <2>2. IsFiniteSet(ToSet(b) \union {entry}) /\ Cardinality(ToSet(b) \union {entry}) = Len(b) + 1
    BY <1>3, <2>1, FS_AddElement
  <2>3. ToSet(b) \union {entry} \in SUBSET Files(s, d)
    BY <1>2, <1>5, <1>8 DEF Files
  <2>4. IsFiniteSet(Files(s, d))
    <3>1. Files(s, d) \in SUBSET d
      BY DEF Files
    <3> QED BY <3>1, FS_Subset
  <2>5. Cardinality(ToSet(b) \union {entry}) <= Cardinality(Files(s, d))
    BY <2>3, <2>4, FS_Subset
  <2>6. Cardinality(Files(s, d)) \in Nat
    BY <2>4, FS_CardinalityType
  <2> DEFINE l == Len(b)  k == Cardinality(Files(s, d))
  <2>7. l + 1 <= k /\ l >= MaximumFrames /\ l \in Nat /\ k \in Nat
    BY <1>6, <1>8, <2>2, <2>5, <2>6
  <2>8. k > MaximumFrames
    <3> HIDE DEF l, k
    <3> QED BY <1>6, <2>7
  <2> QED BY <2>8, DirectoryDefectsAre
<1>9. ASSUME Counts(entry, s), Number(entry) = NotNumeric \/ taken
      PROVE  "invalid_frame_file" \in DirectoryDefects(s, d)
  <2>1. entry \in Files(s, d)
    BY <1>2, <1>9 DEF Files
  <2>2. \/ \E e \in Files(s, d) : Number(e) = NotNumeric
        \/ \E e, f \in Files(s, d) : e # f /\ Number(e) = Number(f)
    BY <1>3, <1>4, <1>5, <1>9, <2>1
  <2> QED BY <2>2, DirectoryDefectsAre
<1>10. ASSUME Counts(entry, s), ~(Len(b) >= MaximumFrames), Number(entry) # NotNumeric, ~taken
       PROVE  Enumerated(s, d, t, Append(b, entry))
  <2> DEFINE a == Append(b, entry)
  <2>1. /\ a \in Seq(d) /\ ToSet(a) = ToSet(b) \union {entry}
        /\ DOMAIN a = DOMAIN b \union {Len(b) + 1} /\ DOMAIN b = 1..Len(b)
        /\ a[Len(b) + 1] = entry /\ \A i \in DOMAIN b : a[i] = b[i]
        /\ Len(a) = Len(b) + 1
    BY <1>1, <1>2, AppendedOne
  <2> HIDE DEF a
  <2>2. Number(entry) \in Nat
    BY <1>2, <1>10
  <2>3. Distinct(a)
    BY <1>1, <1>10, <2>1 DEF Distinct, taken
  <2>4. Len(a) <= MaximumFrames
    <3> DEFINE l == Len(b)
    <3>1. l \in Nat /\ ~(l >= MaximumFrames) /\ Len(a) = l + 1
      BY <1>6, <1>10, <2>1
    <3>2. l + 1 <= MaximumFrames
      <4> HIDE DEF l
      <4> QED BY <1>6, <3>1
    <3> QED BY <3>1, <3>2
  <2>5. ToSet(t) \intersect ToSet(a) = {}
    BY <1>2, <1>3, <2>1
  <2>6. \A e \in d : Counts(e, s) => e \in ToSet(t) \union ToSet(a)
    BY <1>1, <1>2, <2>1
  <2>7. \A e \in ToSet(a) : Counts(e, s) /\ Number(e) \in Nat
    BY <1>1, <1>10, <2>1, <2>2
  <2> QED BY <1>2, <2>1, <2>3, <2>4, <2>5, <2>6, <2>7 DEF Enumerated, a
<1> QED BY <1>7, <1>8, <1>9, <1>10 DEF entry, t, taken

LEMMA DirectoryEnd ==
  ASSUME NEW s, NEW d, IsFiniteSet(d), NEW b, Enumerated(s, d, <<>>, b)
  PROVE  IF b = <<>> THEN "invalid_layout" \in DirectoryDefects(s, d)
         ELSE DirectoryRead(s, d, InOrder(b))
<1>1. /\ b \in Seq(d) /\ \A e \in d : Counts(e, s) => e \in ToSet(<<>>) \union ToSet(b)
      /\ \A e \in ToSet(b) : Counts(e, s) /\ Number(e) \in Nat
      /\ Distinct(b) /\ Len(b) <= MaximumFrames
  BY DEF Enumerated
<1>2. ToSet(<<>>) = {} /\ ToSet(b) \subseteq d
  BY <1>1 DEF ToSet
<1>3. ToSet(b) = Files(s, d)
  BY <1>1, <1>2 DEF Files
<1>4. IsFiniteSet(ToSet(b)) /\ Cardinality(ToSet(b)) = Len(b)
  BY <1>1, DistinctSize
<1>5. CASE b = <<>>
  <2>1. Files(s, d) = {}
    BY <1>2, <1>3, <1>5
  <2> QED BY <1>5, <2>1, DirectoryDefectsAre
<1>6. CASE b # <<>>
  <2> DEFINE r == InOrder(b)
  <2>1. r \in Seq(ToSet(b)) /\ Len(r) = Len(b) /\ ToSet(r) = ToSet(b) /\ Ascending(r)
    BY <1>1, InOrderSorts
  <2> HIDE DEF r
  <2>2. Files(s, d) # {}
    <3>1. 1 \in DOMAIN b
      BY <1>1, <1>6, HeadAndTail
    <3> QED BY <1>3, <3>1 DEF ToSet
  <2>3. ~(Cardinality(Files(s, d)) > MaximumFrames)
    <3>1. Len(b) \in Nat /\ MaximumFrames \in Nat /\ Cardinality(Files(s, d)) = Len(b)
      BY <1>1, <1>3, <1>4, LimitsAssumption
    <3> QED BY <1>1, <3>1
  <2>4. \A e \in Files(s, d) : Number(e) \in Nat
    BY <1>1, <1>3
  <2>5. \A e, f \in Files(s, d) : Number(e) = Number(f) => e = f
    BY <1>1, <1>3 DEF Distinct, ToSet
  <2>6. DirectoryDefects(s, d) = {}
    <3>1. \A x : x \notin DirectoryDefects(s, d)
      BY <2>2, <2>3, <2>4, <2>5, DirectoryDefectsAre, NamesAssumption
    <3> QED BY <3>1
  <2>7. DirectoryRead(s, d, r)
    BY <1>3, <1>4, <2>1, <2>4, <2>6 DEF DirectoryRead
  <2> QED BY <1>6, <2>7 DEF r
<1> QED BY <1>5, <1>6

-----------------------------------------------------------------------------
(* The timestamp files                                                      *)

Width == -Half .. Half - 1
Near(c) == ToSet(c) \ {Malformed} \subseteq Width

\* What has been kept of the first n lines: all of them, and their counts increase.
TimestampsKept(c, n, b) ==
  /\ b \in Seq(Int) /\ n = Len(b) /\ n <= MaximumTimestamps
  /\ \A i \in 1..n : c[i] # Malformed /\ b[i] = c[i]
  /\ \A i, j \in 1..n : i < j => Nanos(b[i]) < Nanos(b[j])

TimestampsRead(c, r) ==
  /\ c \in Seq(CivilTimes) /\ r \in Seq(Int) /\ r # <<>>
  /\ Len(r) = Len(c) /\ Len(r) <= MaximumTimestamps
  /\ \A i \in DOMAIN r : c[i] # Malformed /\ r[i] = c[i]
  /\ \A i, j \in DOMAIN r : i < j => Nanos(r[i]) < Nanos(r[j])

LEMMA SmallRemainder ==
  ASSUME NEW m \in Nat, m > 0, NEW a \in 0..(m - 1)
  PROVE  a % m = a
OBVIOUS

LEMMA NanosOfNear ==
  ASSUME NEW x \in Width
  PROVE  x \in Int /\ Nanos(x) = x
<1> DEFINE m == 2 * Half
           a == x + Half
<1>1. Half \in Nat /\ Half > 0
  BY LimitsAssumption
<1>2. x \in Int /\ -Half <= x /\ x <= Half - 1
  BY <1>1 DEF Width
<1>3. m \in Nat /\ m > 0 /\ a \in 0..(m - 1) /\ a - Half = x
  BY <1>1, <1>2
<1> HIDE DEF m, a
<1>4. a % m = a
  BY <1>3, SmallRemainder
<1>5. Nanos(x) = (a % m) - Half
  BY DEF Nanos, a, m
<1> QED BY <1>2, <1>3, <1>4, <1>5

LEMMA NanosIsInt ==
  ASSUME NEW x \in Int
  PROVE  Nanos(x) \in Int
<1> DEFINE m == 2 * Half
           a == x + Half
<1>1. Half \in Nat /\ Half > 0
  BY LimitsAssumption
<1>2. m \in Nat /\ m > 0 /\ a \in Int
  BY <1>1
<1> HIDE DEF m, a
<1>3. a % m \in Int
  BY <1>2
<1>4. Nanos(x) = (a % m) - Half
  BY DEF Nanos, a, m
<1> QED BY <1>1, <1>3, <1>4

LEMMA TimestampDefectsAre ==
  ASSUME NEW c \in Seq(CivilTimes), NEW x
  PROVE  x \in TimestampDefects(c)
           <=> \/ x = "limit_exceeded" /\ Len(c) > MaximumTimestamps
               \/ /\ x = "invalid_timestamp"
                  /\ \/ c = <<>> \/ \E i \in DOMAIN c : c[i] = Malformed
                     \/ \E i, j \in DOMAIN c : /\ i < j /\ c[i] # Malformed /\ c[j] # Malformed
                                               /\ c[j] <= c[i]
<1> DEFINE many == Len(c) > MaximumTimestamps
           spoilt == Malformed \in ToSet(c)
           bad == \/ c = <<>> \/ spoilt
                  \/ \E i, j \in DOMAIN c : /\ i < j /\ c[i] # Malformed /\ c[j] # Malformed
                                            /\ c[j] <= c[i]
           A == IF many THEN {"limit_exceeded"} ELSE {}
           B == IF bad THEN {"invalid_timestamp"} ELSE {}
<1>1. TimestampDefects(c) = A \union B
  BY DEF TimestampDefects
<1>2. ASSUME NEW p \in BOOLEAN, NEW u PROVE x \in (IF p THEN {u} ELSE {}) <=> x = u /\ p
  OBVIOUS
<1>3. many \in BOOLEAN /\ bad \in BOOLEAN
  OBVIOUS
<1>4. /\ x \in A <=> x = "limit_exceeded" /\ many
      /\ x \in B <=> x = "invalid_timestamp" /\ bad
  <2> HIDE DEF many, bad
  <2> QED BY <1>2, <1>3
<1>5. x \in TimestampDefects(c) <=> x \in A \/ x \in B
  <2> HIDE DEF A, B
  <2> QED BY <1>1
<1>6. spoilt <=> \E i \in DOMAIN c : c[i] = Malformed
  BY DEF ToSet
<1> HIDE DEF A, B
<1>7. x \in TimestampDefects(c)
        <=> \/ x = "limit_exceeded" /\ many
            \/ x = "invalid_timestamp" /\ bad
  <2> HIDE DEF many, bad
  <2> QED BY <1>4, <1>5
<1> HIDE DEF spoilt
<1> QED BY <1>6, <1>7, Zenon

LEMMA TimestampLine ==
  ASSUME NEW c \in Seq(CivilTimes), NEW q \in Seq(CivilTimes), q # <<>>,
         NEW n, Remains(q, c, n), NEW b, TimestampsKept(c, n, b)
  PROVE  LET time == Head(q)
             late == b # <<>> /\ Nanos(time) <= Nanos(Last(b))
         IN  /\ Len(b) >= MaximumTimestamps => "limit_exceeded" \in TimestampDefects(c)
             /\ time = Malformed => "invalid_timestamp" \in TimestampDefects(c)
             /\ time # Malformed /\ late /\ Near(c) => "invalid_timestamp" \in TimestampDefects(c)
             /\ ~(Len(b) >= MaximumTimestamps) /\ time # Malformed /\ ~late
                  => TimestampsKept(c, n + 1, Append(b, time))
<1> DEFINE time == Head(q)
           late == b # <<>> /\ Nanos(time) <= Nanos(Last(b))
           m == Len(c)
<1>1. /\ n + 1 \in DOMAIN c /\ time = c[n + 1] /\ n \in Nat
      /\ 1..(n + 1) \subseteq DOMAIN c /\ 1..(n + 1) = (1..n) \union {n + 1}
  BY OneLineRead DEF Remains
<1>2. /\ b \in Seq(Int) /\ n = Len(b) /\ n <= MaximumTimestamps
      /\ \A i \in 1..n : c[i] # Malformed /\ b[i] = c[i]
      /\ \A i, j \in 1..n : i < j => Nanos(b[i]) < Nanos(b[j])
  BY DEF TimestampsKept
<1>3. DOMAIN c = 1..m /\ m \in Nat /\ MaximumTimestamps \in Nat
  BY LimitsAssumption
<1>4. time # Malformed => time \in Int
  BY HeadAndTail DEF CivilTimes
<1>5. b # <<>> => n \in 1..n /\ Last(b) = b[n]
  BY <1>2, HeadAndTail DEF Last
<1> HIDE DEF time, m
<1>6. ASSUME Len(b) >= MaximumTimestamps PROVE "limit_exceeded" \in TimestampDefects(c)
  <2>1. m > MaximumTimestamps
    BY <1>1, <1>2, <1>3, <1>6
  <2> QED BY <2>1, TimestampDefectsAre DEF m
<1>7. ASSUME time = Malformed PROVE "invalid_timestamp" \in TimestampDefects(c)
  BY <1>1, <1>7, TimestampDefectsAre
<1>8. ASSUME time # Malformed, late, Near(c) PROVE "invalid_timestamp" \in TimestampDefects(c)
  <2>1. n \in 1..n /\ Nanos(time) <= Nanos(b[n])
    BY <1>5, <1>8
  <2>2. n \in DOMAIN c /\ n < n + 1 /\ c[n] # Malformed /\ b[n] = c[n]
    BY <1>1, <1>2, <2>1
  <2>3. time \in Width /\ c[n] \in Width
    BY <1>1, <1>8, <2>2 DEF Near, ToSet
  <2>4. c[n + 1] <= c[n]
    <3>1. Nanos(time) = time /\ Nanos(c[n]) = c[n]
      BY <2>3, NanosOfNear
    <3> QED BY <1>1, <2>1, <2>2, <3>1
  <2> QED BY <1>1, <1>8, <2>2, <2>4, TimestampDefectsAre
<1>9. ASSUME ~(Len(b) >= MaximumTimestamps), time # Malformed, ~late
      PROVE  TimestampsKept(c, n + 1, Append(b, time))
  <2> DEFINE a == Append(b, time)
  <2>1. /\ a \in Seq(Int) /\ Len(a) = n + 1 /\ a[n + 1] = time
        /\ \A i \in 1..n : a[i] = b[i]
    <3>1. DOMAIN b = 1..Len(b)
      BY <1>2
    <3> HIDE DEF late
    <3> QED BY <1>2, <1>4, <1>9, <3>1, AppendedOne
  <2> HIDE DEF a
  <2>2. n + 1 <= MaximumTimestamps
    BY <1>1, <1>2, <1>3, <1>9
  <2>3. \A i \in 1..(n + 1) : c[i] # Malformed /\ a[i] = c[i]
    BY <1>1, <1>2, <1>9, <2>1
  <2>4. ASSUME NEW i \in 1..n PROVE Nanos(b[i]) < Nanos(time)
    <3>1. b # <<>>
      BY <1>2, <2>4
    <3>2. n \in 1..n /\ ~(Nanos(time) <= Nanos(b[n]))
      BY <1>5, <1>9, <3>1
    <3>3. Nanos(time) \in Int /\ Nanos(b[n]) \in Int /\ Nanos(b[i]) \in Int
      <4>1. b[n] \in Int /\ b[i] \in Int
        BY <1>2, <2>4, <3>2
      <4> QED BY <1>4, <1>9, <4>1, NanosIsInt
    <3>4. Nanos(b[n]) < Nanos(time)
      BY <3>2, <3>3
    <3>5. i = n \/ Nanos(b[i]) < Nanos(b[n])
      BY <1>1, <1>2, <2>4, <3>2
    <3> QED BY <3>3, <3>4, <3>5
  <2>5. ASSUME NEW i \in 1..(n + 1), NEW j \in 1..(n + 1), i < j
        PROVE  Nanos(a[i]) < Nanos(a[j])
    <3>1. i \in 1..n /\ (j \in 1..n \/ j = n + 1)
      BY <1>1, <2>5
    <3> QED BY <1>2, <2>1, <2>4, <2>5, <3>1
  <2> QED BY <2>1, <2>2, <2>3, <2>5 DEF TimestampsKept, a
<1> QED BY <1>6, <1>7, <1>8, <1>9 DEF time

LEMMA TimestampEnd ==
  ASSUME NEW c \in Seq(CivilTimes), NEW n, Remains(<<>>, c, n), NEW b, TimestampsKept(c, n, b)
  PROVE  IF b = <<>> THEN "invalid_timestamp" \in TimestampDefects(c)
         ELSE TimestampsRead(c, b)
<1>1. n = Len(c) /\ DOMAIN c = 1..n
  BY AllRead
<1>2. b \in Seq(Int) /\ n = Len(b) /\ DOMAIN b = 1..n
  BY DEF TimestampsKept
<1>3. CASE b = <<>>
  <2>1. c = <<>>
    BY <1>1, <1>2, <1>3
  <2> QED BY <1>3, <2>1, TimestampDefectsAre
<1>4. CASE b # <<>>
  BY <1>1, <1>2, <1>4 DEF TimestampsKept, TimestampsRead
<1> QED BY <1>3, <1>4

\* Times that are near and were accepted have nothing wrong with them.
LEMMA TimestampsClean ==
  ASSUME NEW c, NEW r, TimestampsRead(c, r), Near(c)
  PROVE  /\ TimestampDefects(c) = {}
         /\ \A i \in DOMAIN r : r[i] \in Width /\ Nanos(r[i]) = r[i]
         /\ \A i, j \in DOMAIN r : i < j => r[i] < r[j]
<1>1. /\ c \in Seq(CivilTimes) /\ r \in Seq(Int) /\ r # <<>>
      /\ Len(r) = Len(c) /\ Len(r) <= MaximumTimestamps
      /\ \A i \in DOMAIN r : c[i] # Malformed /\ r[i] = c[i]
      /\ \A i, j \in DOMAIN r : i < j => Nanos(r[i]) < Nanos(r[j])
  BY DEF TimestampsRead
<1>2. DOMAIN r = DOMAIN c /\ c # <<>> /\ Len(r) \in Nat /\ MaximumTimestamps \in Nat
  BY <1>1, LimitsAssumption
<1>3. ASSUME NEW i \in DOMAIN r PROVE r[i] \in Width /\ Nanos(r[i]) = r[i] /\ r[i] \in Int
  <2>1. r[i] \in Width
    BY <1>1, <1>2, <1>3 DEF Near, ToSet
  <2> QED BY <2>1, NanosOfNear
<1>4. \A i, j \in DOMAIN r : i < j => r[i] < r[j]
  BY <1>1, <1>3
<1>5. ASSUME NEW x, x \in TimestampDefects(c) PROVE FALSE
  <2>1. ~(Len(c) > MaximumTimestamps)
    <3> DEFINE l == Len(c)
    <3>1. l \in Nat /\ l <= MaximumTimestamps
      BY <1>1, <1>2
    <3> HIDE DEF l
    <3>2. ~(l > MaximumTimestamps)
      BY <1>2, <3>1
    <3> QED BY <3>2 DEF l
  <2>2. \A i, j \in DOMAIN c : i < j => ~(c[j] <= c[i])
    BY <1>1, <1>2, <1>3, <1>4
  <2> QED BY <1>1, <1>2, <1>5, <2>1, <2>2, TimestampDefectsAre
<1> QED BY <1>3, <1>4, <1>5

-----------------------------------------------------------------------------
(* Pairing by rank, and looking a frame up                                  *)

Rank(files, entry) == 1 + Cardinality({ e \in files : Number(e) < Number(entry) })

\* The frames of a stream with their times: files in ascending order, line by line.
Timed(s, d, c, r) ==
  /\ Len(c) = Cardinality(Files(s, d)) /\ DOMAIN r = 1..Len(c) /\ Len(r) = Len(c)
  /\ \A i \in 1..Len(c) : /\ r[i].entry \in Files(s, d) /\ r[i].time = c[i]
                          /\ Rank(Files(s, d), r[i].entry) = i
  /\ \A e \in Files(s, d) : \E i \in 1..Len(c) : r[i].entry = e
  /\ \A i, j \in 1..Len(c) : i < j => Number(r[i].entry) < Number(r[j].entry)

Found(s, d, c, r) ==
  /\ r.entry \in Files(s, d) /\ Number(r.entry) = request
  /\ Len(c) = Cardinality(Files(s, d))
  /\ r.time = c[Rank(Files(s, d), r.entry)] /\ Rank(Files(s, d), r.entry) \in DOMAIN c

LEMMA AttachedByRank ==
  ASSUME NEW s, NEW d, NEW frames, DirectoryRead(s, d, frames),
         NEW c, NEW lines, TimestampsRead(c, lines)
  PROVE  /\ Len(frames) = Len(lines) <=> Len(c) = Cardinality(Files(s, d))
         /\ Len(frames) = Len(lines) =>
              Timed(s, d, c, [i \in DOMAIN frames |-> [entry |-> frames[i], time |-> lines[i]]])
<1> DEFINE F == Files(s, d)
           n == Len(frames)
           r == [i \in DOMAIN frames |-> [entry |-> frames[i], time |-> lines[i]]]
           key == [e \in F |-> Number(e)]
<1>1. /\ IsFiniteSet(F) /\ \A e \in F : Number(e) \in Nat
      /\ frames \in Seq(F) /\ ToSet(frames) = F /\ n = Cardinality(F)
      /\ \A i, j \in DOMAIN frames : i < j => Number(frames[i]) < Number(frames[j])
  BY DEF DirectoryRead, Ascending
<1>2. /\ Len(lines) = Len(c) /\ lines \in Seq(Int) /\ \A i \in DOMAIN lines : lines[i] = c[i]
  BY DEF TimestampsRead
<1>3. DOMAIN frames = 1..n /\ n \in Nat /\ \A i \in 1..n : frames[i] \in F
  BY <1>1
<1>4. DOMAIN lines = 1..Len(lines)
  BY <1>2
<1> HIDE DEF F
<1>5. ASSUME n = Len(lines) PROVE Timed(s, d, c, r)
  <2> HIDE DEF n
  <2>1. /\ DOMAIN r = 1..n /\ n = Len(c) /\ Len(r) = n
        /\ \A i \in 1..n : r[i].entry = frames[i] /\ r[i].time = c[i]
    <3>1. Len([i \in 1..n |-> [entry |-> frames[i], time |-> lines[i]]]) = n
      BY <1>3
    <3> QED BY <1>2, <1>3, <1>4, <1>5, <3>1
  <2> HIDE DEF r
  <2>2. \A x \in F : \E i \in 1..n : frames[i] = x
    BY <1>1, <1>3 DEF ToSet
  <2>3. key \in [F -> Nat]
    BY <1>1
  <2>4. \A e \in F : key[e] = Number(e)
    OBVIOUS
  <2> HIDE DEF key
  <2>5. Increasing(frames, n, F, key)
    <3>1. frames \in [1..n -> F]
      BY <1>1, <1>3
    <3> QED BY <1>1, <1>3, <2>2, <2>4, <3>1 DEF Increasing
  <2>6. ASSUME NEW i \in 1..n PROVE Rank(F, frames[i]) = i
    <3>1. 1 + Cardinality(Below(F, key, frames[i])) = i
      BY <1>1, <1>3, <2>3, <2>5, RankInOrder
    <3>2. Below(F, key, frames[i]) = { e \in F : Number(e) < Number(frames[i]) }
      BY <1>3, <2>4 DEF Below
    <3> QED BY <3>1, <3>2 DEF Rank
  <2>7. /\ Len(c) = n /\ n = Cardinality(F) /\ DOMAIN r = 1..n /\ Len(r) = n
        /\ \A i \in 1..n : r[i].entry \in F /\ r[i].time = c[i] /\ Rank(F, r[i].entry) = i
    BY <1>1, <1>3, <2>1, <2>6
  <2>8. \A e \in F : \E i \in 1..n : r[i].entry = e
    BY <2>1, <2>2
  <2>9. \A i, j \in 1..n : i < j => Number(r[i].entry) < Number(r[j].entry)
    BY <1>1, <1>3, <2>1
  <2> QED BY <2>7, <2>8, <2>9 DEF Timed, F
<1> QED BY <1>1, <1>2, <1>5 DEF F

LEMMA FindFrame ==
  ASSUME NEW s, NEW d, \A e \in Files(s, d) : Number(e) \in Nat, request \in Nat,
         NEW c \in Seq(CivilTimes), NEW timed, Timed(s, d, c, timed), Len(timed) = Len(c)
  PROVE  LET match == SelectInSeq(timed, LAMBDA t : Number(t.entry) >= request) IN
         IF match = 0 THEN \A e \in Files(s, d) : Number(e) # request
         ELSE IF Number(timed[match].entry) # request
              THEN \A e \in Files(s, d) : Number(e) # request
              ELSE Found(s, d, c, timed[match])
<1> DEFINE n == Len(c)
           I == { i \in 1..n : Number(timed[i].entry) >= request }
           match == SelectInSeq(timed, LAMBDA t : Number(t.entry) >= request)
<1>1. n \in Nat /\ DOMAIN c = 1..n
  OBVIOUS
<1>2. match = IF I # {} THEN Min(I) ELSE 0
  BY DEF SelectInSeq
<1>3. /\ \A i \in 1..n : /\ timed[i].entry \in Files(s, d) /\ timed[i].time = c[i]
                         /\ Rank(Files(s, d), timed[i].entry) = i
      /\ \A e \in Files(s, d) : \E i \in 1..n : timed[i].entry = e
      /\ \A i, j \in 1..n : i < j => Number(timed[i].entry) < Number(timed[j].entry)
      /\ n = Cardinality(Files(s, d))
  BY DEF Timed
<1> HIDE DEF match, n
<1>4. I \in SUBSET Nat
  BY <1>1
<1>5. \A i \in 1..n : Number(timed[i].entry) \in Nat
  BY <1>3
<1>6. CASE I = {}
  <2>1. match = 0
    BY <1>2, <1>6
  <2>2. \A e \in Files(s, d) : Number(e) # request
    BY <1>3, <1>5, <1>6
  <2> QED BY <2>1, <2>2 DEF match
<1>7. CASE I # {}
  <2>1. match = Min(I)
    BY <1>2, <1>7
  <2>2. match \in I /\ \A i \in I : match <= i
    <3> HIDE DEF I
    <3> QED BY <1>4, <1>7, <2>1, LeastNatural
  <2>3. match \in 1..n /\ match # 0
    BY <1>1, <2>2
  <2>4. CASE Number(timed[match].entry) # request
    <3> SUFFICES ASSUME NEW e \in Files(s, d), Number(e) = request PROVE FALSE
      BY <2>3, <2>4 DEF match
    <3>1. PICK i \in 1..n : timed[i].entry = e
      BY <1>3
    <3>2. i \in I /\ match <= i
      BY <1>5, <2>2, <3>1
    <3>3. i # match
      BY <2>4, <3>1
    <3>4. Number(timed[match].entry) < Number(timed[i].entry)
      BY <1>1, <1>3, <2>3, <3>2, <3>3
    <3> QED BY <1>5, <2>2, <2>3, <3>1, <3>4
  <2>5. CASE Number(timed[match].entry) = request
    <3>1. Found(s, d, c, timed[match])
      <4> DEFINE k == match
      <4>1. /\ timed[k].entry \in Files(s, d) /\ timed[k].time = c[k]
            /\ Rank(Files(s, d), timed[k].entry) = k
        BY <1>3, <2>3
      <4> HIDE DEF k
      <4>2. k \in DOMAIN c /\ Number(timed[k].entry) = request
        BY <1>1, <2>3, <2>5 DEF k
      <4>3. Len(c) = Cardinality(Files(s, d))
        BY <1>3 DEF n
      <4>4. Found(s, d, c, timed[k])
        BY <4>1, <4>2, <4>3 DEF Found
      <4> QED BY <4>4 DEF k
    <3> QED BY <2>3, <2>5, <3>1 DEF match
  <2> QED BY <2>4, <2>5
<1> QED BY <1>6, <1>7

\* What the step of a name needs to be behind it, of the data and of the result.
LEMMA DirectoryClean ==
  ASSUME NEW s, NEW d, NEW r, DirectoryRead(s, d, r)
  PROVE  \A e, f \in Files(s, d) : Number(e) = Number(f) => e = f
BY DirectoryDefectsAre DEF DirectoryRead

-----------------------------------------------------------------------------
(* The steps of run()                                                       *)

LEMMA ScriptIs ==
  /\ Len(Script) = 13 /\ DOMAIN Script = 1..13
  /\ Script[1] = <<"calibration", "velo">> /\ Script[2] = <<"calibration", "camera">>
  /\ Script[3] = <<"assemble", "both">> /\ Script[4] = <<"drive", "name">>
  /\ Script[5] = <<"directory", "image">> /\ Script[6] = <<"directory", "lidar">>
  /\ Script[7] = <<"timestamps", "image">> /\ Script[8] = <<"timestamps", "lidar">>
  /\ Script[9] = <<"attach", "image">> /\ Script[10] = <<"attach", "lidar">>
  /\ Script[11] = <<"find", "image">> /\ Script[12] = <<"find", "lidar">>
  /\ Script[13] = <<"picture", "image">>
BY DEF Script

\* The places of the steps of a kind.
LEMMA PlacesOf ==
  ASSUME NEW n \in 1..13
  PROVE  /\ Script[n][1] = "calibration" <=> n \in {1, 2}
         /\ Script[n][1] = "assemble" <=> n = 3
         /\ Script[n][1] = "drive" <=> n = 4
         /\ Script[n][1] = "directory" <=> n \in {5, 6}
         /\ Script[n][1] = "timestamps" <=> n \in {7, 8}
         /\ Script[n][1] = "attach" <=> n \in {9, 10}
         /\ Script[n][1] = "find" <=> n \in {11, 12}
         /\ Script[n][1] = "picture" <=> n = 13
         /\ Script[n][2] \in {"camera", "lidar"} <=> n \in {2, 6, 8, 10, 12}
<1>1. \/ n = 1 \/ n = 2 \/ n = 3 \/ n = 4 \/ n = 5 \/ n = 6 \/ n = 7
      \/ n = 8 \/ n = 9 \/ n = 10 \/ n = 11 \/ n = 12 \/ n = 13
  OBVIOUS
<1> QED BY <1>1, ScriptIs

LEMMA StepsAreDistinct ==
  /\ \A n \in 1..13 : Script[n] \in Steps
  /\ \A m, n \in 1..13 : Script[m] = Script[n] => m = n
<1>1. Steps = { Script[n] : n \in 1..13 }
  BY ScriptIs DEF Steps, ToSet
<1>2. ASSUME NEW m \in 1..13, NEW n \in 1..13, Script[m] = Script[n] PROVE m = n
  <2>1. /\ m \in {1, 2} <=> n \in {1, 2}
        /\ m = 3 <=> n = 3
        /\ m = 4 <=> n = 4
        /\ m \in {5, 6} <=> n \in {5, 6}
        /\ m \in {7, 8} <=> n \in {7, 8}
        /\ m \in {9, 10} <=> n \in {9, 10}
        /\ m \in {11, 12} <=> n \in {11, 12}
        /\ m = 13 <=> n = 13
        /\ m \in {2, 6, 8, 10, 12} <=> n \in {2, 6, 8, 10, 12}
    BY <1>2, PlacesOf
  <2> QED BY <2>1
<1> QED BY <1>1, <1>2

\* What holds of a step that is left behind, and of the value it returned.
Finished(s, value) ==
  /\ s[1] \in {"calibration", "directory", "timestamps"} => content[s] \in Contents(s) \ {None}
  /\ s[1] = "calibration" => CalibrationRead(s[2], content[s], value)
  /\ s[1] = "assemble" =>
       \A f \in {"velo", "camera"} : \A i \in DOMAIN content[<<"calibration", f>>] :
         content[<<"calibration", f>>][i].key \in Required[f]
           => content[<<"calibration", f>>][i].found # "unfit"
  /\ s[1] = "drive" => basename
  /\ s[1] = "directory" => DirectoryRead(s[2], content[s], value)
  /\ s[1] = "timestamps" => TimestampsRead(content[s], value)
  /\ s[1] = "attach" =>
       Timed(s[2], content[<<"directory", s[2]>>], content[<<"timestamps", s[2]>>], value)
  /\ s[1] = "find" =>
       Found(s[2], content[<<"directory", s[2]>>], content[<<"timestamps", s[2]>>], value)
  /\ s[1] = "picture" =>
       \A e \in Candidates("image"), f \in Candidates("lidar") :
         Number(e) = request /\ Number(f) = request =>
           /\ Picture(e) = "fine"
           /\ value.signed_sync_delta
                = Nanos(Nanos(Lines("lidar")[RankIn("lidar", f)])
                        - Nanos(Lines("image")[RankIn("image", e)]))

\* What holds of the file that is being read, and of what has been kept of it.
Opened ==
  /\ Step[1] \in {"calibration", "directory", "timestamps"}
  /\ content[Step] \in Contents(Step) \ {None}
  /\ Step[1] = "calibration" =>
       /\ rest \in Seq(CalibrationLines)
       /\ \E n \in Nat : Remains(rest, content[Step], n) /\ KeptLines(Subject, content[Step], n, built)
  /\ Step[1] = "directory" => Enumerated(Subject, content[Step], rest, built)
  /\ Step[1] = "timestamps" =>
       /\ rest \in Seq(CivilTimes)
       /\ \E n \in Nat : Remains(rest, content[Step], n) /\ TimestampsKept(content[Step], n, built)

Codes == Unparsable \union
  {"file_open", "invalid_layout", "invalid_frame_file", "limit_exceeded",
   "invalid_timestamp", "duplicate_key", "missing_key", "invalid_calibration"}

Behind(n) == n < at \/ outcome = "loaded"

IInv ==
  /\ request \in Nat /\ basename \in BOOLEAN /\ at \in 1..13
  /\ DOMAIN content = Steps /\ DOMAIN result = Steps
  /\ outcome = "loaded" => at = 13
  /\ \A n \in 1..13 : IF Behind(n) THEN Finished(Script[n], result[Script[n]])
                      ELSE result[Script[n]] = None
  /\ outcome = "loading" => IF rest = None THEN built = <<>> ELSE Opened
  /\ outcome \notin {"loading", "loaded"} =>
       outcome \in Codes /\ (TimesAreNear => outcome \in Defects(Step))

LEMMA Framing ==
  ASSUME NEW n \in 1..13, NEW value, request' = request, basename' = basename,
         \A m \in 1..n : content'[Script[m]] = content[Script[m]],
         Finished(Script[n], value)
  PROVE  Finished(Script[n], value)'
<1>1. CASE n \in {1, 2, 5, 6, 7, 8}
  <2>1. content'[Script[n]] = content[Script[n]]
    OBVIOUS
  <2>2. Script[n][1] \notin {"assemble", "drive", "attach", "find", "picture"}
    BY <1>1, PlacesOf
  <2> QED BY <2>1, <2>2 DEF Finished
<1>2. CASE n = 3
  <2>1. \A f \in {"velo", "camera"} :
          content'[<<"calibration", f>>] = content[<<"calibration", f>>]
    <3>1. /\ content'[Script[1]] = content[Script[1]]
          /\ content'[Script[2]] = content[Script[2]]
      BY <1>2
    <3> QED BY <3>1, ScriptIs
  <2>2. Script[n] = <<"assemble", "both">>
    BY <1>2, ScriptIs
  <2> QED BY <2>1, <2>2 DEF Finished
<1>3. CASE n = 4
  <2>1. Script[n] = <<"drive", "name">>
    BY <1>3, ScriptIs
  <2> QED BY <2>1 DEF Finished
<1>4. CASE n \in {9, 10, 11, 12, 13}
  <2>1. \A s \in Streams : /\ content'[<<"directory", s>>] = content[<<"directory", s>>]
                           /\ content'[<<"timestamps", s>>] = content[<<"timestamps", s>>]
    <3>1. /\ content'[Script[5]] = content[Script[5]] /\ content'[Script[6]] = content[Script[6]]
          /\ content'[Script[7]] = content[Script[7]] /\ content'[Script[8]] = content[Script[8]]
      BY <1>4
    <3> QED BY <3>1, ScriptIs DEF Streams
  <2>2. CASE n # 13
    <3>1. Script[n][2] \in Streams /\ Script[n][1] \in {"attach", "find"}
      BY <1>4, <2>2, ScriptIs DEF Streams
    <3> DEFINE s == Script[n][2]
    <3>2. /\ content'[<<"directory", s>>] = content[<<"directory", s>>]
          /\ content'[<<"timestamps", s>>] = content[<<"timestamps", s>>]
      BY <2>1, <3>1
    <3> QED BY <3>1, <3>2 DEF Finished, Found
  <2>3. CASE n = 13
    <3>1. Script[n] = <<"picture", "image">>
      BY <2>3, ScriptIs
    <3>2. \A s \in Streams : Candidates(s)' = Candidates(s) /\ Lines(s)' = Lines(s)
      BY <2>1 DEF Candidates, Lines
    <3>3. \A s \in Streams : \A e : RankIn(s, e)' = RankIn(s, e)
      BY <3>2 DEF RankIn
    <3>4. "image" \in Streams /\ "lidar" \in Streams
      BY DEF Streams
    <3> QED BY <3>1, <3>2, <3>3, <3>4 DEF Finished
  <2> QED BY <2>2, <2>3
<1> QED BY <1>1, <1>2, <1>3, <1>4

\* A step returns a value that fits it, and the next one begins.
LEMMA Returning ==
  ASSUME IInv, outcome = "loading", NEW value, Finished(Step, value), Return(value)
  PROVE  IInv'
<1>1. /\ request' = request /\ basename' = basename /\ content' = content
      /\ result' = [result EXCEPT ![Step] = value] /\ rest' = None /\ built' = <<>>
      /\ IF at = 13 THEN outcome' = "loaded" /\ at' = at
                    ELSE at' = at + 1 /\ outcome' = outcome
  BY ScriptIs DEF Return
<1>2. /\ request \in Nat /\ basename \in BOOLEAN /\ at \in 1..13
      /\ DOMAIN content = Steps /\ DOMAIN result = Steps
      /\ \A n \in 1..13 : IF Behind(n) THEN Finished(Script[n], result[Script[n]])
                          ELSE result[Script[n]] = None
  BY DEF IInv
<1>3. /\ Step = Script[at] /\ Step \in Steps
      /\ \A n \in 1..13 : n # at => Script[n] # Step
  BY <1>2, StepsAreDistinct DEF Step
<1>4. /\ DOMAIN result' = Steps /\ result'[Step] = value
      /\ \A n \in 1..13 : n # at => result'[Script[n]] = result[Script[n]]
  BY <1>1, <1>2, <1>3, StepsAreDistinct
<1>5. \A n \in 1..13 : /\ Behind(n)' <=> n <= at
                       /\ Behind(n) <=> n < at
  BY <1>1, <1>2 DEF Behind
<1>6. ASSUME NEW n \in 1..13, n <= at PROVE Finished(Script[n], result[Script[n]])'
  <2>1. PICK v : v = result'[Script[n]]
    OBVIOUS
  <2>2. Finished(Script[n], v)
    <3>1. CASE n = at
      BY <1>3, <1>4, <2>1, <3>1
    <3>2. CASE n # at
      <4>1. Behind(n) /\ v = result[Script[n]]
        BY <1>2, <1>4, <1>5, <1>6, <2>1, <3>2
      <4> QED BY <1>2, <4>1
    <3> QED BY <3>1, <3>2
  <2>3. Finished(Script[n], v)'
    BY <1>1, <2>2, Framing
  <2> QED BY <2>1, <2>3
<1>7. ASSUME NEW n \in 1..13, ~(n <= at) PROVE result'[Script[n]] = None
  <2>1. n # at /\ ~Behind(n)
    BY <1>2, <1>5, <1>7
  <2> QED BY <1>2, <1>4, <2>1
<1>8. /\ at' \in 1..13 /\ outcome' \in {"loading", "loaded"}
      /\ outcome' = "loaded" => at' = 13
  BY <1>1, <1>2
<1>9. \A n \in 1..13 : IF Behind(n)' THEN Finished(Script[n], result[Script[n]])'
                       ELSE result'[Script[n]] = None
  BY <1>5, <1>6, <1>7
<1> QED BY <1>1, <1>2, <1>4, <1>8, <1>9 DEF IInv

\* A refusal names a defect of the data of its step.
LEMMA Stopping ==
  ASSUME IInv, outcome = "loading", UNCHANGED <<request, basename, at, result>>,
         DOMAIN content' = Steps, \A s \in Steps : s # Step => content'[s] = content[s],
         outcome' \in Codes, TimesAreNear => (outcome \in Defects(Step))'
  PROVE  IInv'
<1>1. /\ request \in Nat /\ basename \in BOOLEAN /\ at \in 1..13
      /\ DOMAIN content = Steps /\ DOMAIN result = Steps
      /\ \A n \in 1..13 : IF Behind(n) THEN Finished(Script[n], result[Script[n]])
                          ELSE result[Script[n]] = None
  BY DEF IInv
<1>2. outcome' \notin {"loading", "loaded"}
  BY DEF Codes, Unparsable
<1>3. \A n \in 1..13 : (Behind(n)' <=> Behind(n)) /\ (Behind(n) <=> n < at)
  BY <1>2 DEF Behind
<1>4. ASSUME NEW n \in 1..13, Behind(n) PROVE Finished(Script[n], result[Script[n]])'
  <2>1. PICK v : v = result[Script[n]]
    OBVIOUS
  <2>2. \A m \in 1..n : content'[Script[m]] = content[Script[m]]
    <3> SUFFICES ASSUME NEW m \in 1..n PROVE content'[Script[m]] = content[Script[m]]
      OBVIOUS
    <3>1. m \in 1..13 /\ m # at
      BY <1>1, <1>3, <1>4
    <3> QED BY <1>1, <3>1, StepsAreDistinct DEF Step
  <2>3. Finished(Script[n], v)'
    BY <1>1, <1>4, <2>1, <2>2, Framing
  <2> QED BY <2>1, <2>3
<1>5. \A n \in 1..13 : IF Behind(n)' THEN Finished(Script[n], result[Script[n]])'
                       ELSE result'[Script[n]] = None
  BY <1>1, <1>3, <1>4
<1> QED BY <1>1, <1>2, <1>5 DEF IInv

LEMMA Refusing ==
  ASSUME IInv, outcome = "loading", NEW code \in Codes, Refuse(code),
         TimesAreNear => code \in Defects(Step)
  PROVE  IInv'
<1>1. /\ outcome' = code /\ request' = request /\ basename' = basename /\ at' = at
      /\ content' = content /\ result' = result
  BY DEF Refuse
<1>2. Defects(Step)' = Defects(Step)
  BY <1>1 DEF Defects, FileDefects, Candidates, Lines, Step
<1>3. DOMAIN content = Steps
  BY DEF IInv
<1> QED BY <1>1, <1>2, <1>3, Stopping

\* A file is opened, or one of its lines is dealt with.
LEMMA Advancing ==
  ASSUME IInv, outcome = "loading", UNCHANGED <<request, basename, at, result, outcome>>,
         DOMAIN content' = Steps, \A s \in Steps : s # Step => content'[s] = content[s],
         rest' # None, Opened'
  PROVE  IInv'
<1>1. /\ request \in Nat /\ basename \in BOOLEAN /\ at \in 1..13
      /\ DOMAIN content = Steps /\ DOMAIN result = Steps
      /\ \A n \in 1..13 : IF Behind(n) THEN Finished(Script[n], result[Script[n]])
                          ELSE result[Script[n]] = None
  BY DEF IInv
<1>2. \A n \in 1..13 : (Behind(n)' <=> Behind(n)) /\ (Behind(n) <=> n < at)
  BY DEF Behind
<1>3. ASSUME NEW n \in 1..13, Behind(n) PROVE Finished(Script[n], result[Script[n]])'
  <2>1. PICK v : v = result[Script[n]]
    OBVIOUS
  <2>2. \A m \in 1..n : content'[Script[m]] = content[Script[m]]
    <3> SUFFICES ASSUME NEW m \in 1..n PROVE content'[Script[m]] = content[Script[m]]
      OBVIOUS
    <3>1. m \in 1..13 /\ m # at
      BY <1>1, <1>2, <1>3
    <3> QED BY <1>1, <3>1, StepsAreDistinct DEF Step
  <2>3. Finished(Script[n], v)'
    BY <1>1, <1>3, <2>1, <2>2, Framing
  <2> QED BY <2>1, <2>3
<1>4. \A n \in 1..13 : IF Behind(n)' THEN Finished(Script[n], result[Script[n]])'
                       ELSE result'[Script[n]] = None
  BY <1>1, <1>2, <1>3
<1> QED BY <1>1, <1>4 DEF IInv

-----------------------------------------------------------------------------
(* The actions                                                              *)

\* What the steps that open something may be given.
LEMMA ContentsAre ==
  ASSUME IInv
  PROVE  /\ Step[1] = "calibration" =>
              /\ Step = <<"calibration", Subject>>
              /\ \A c \in Contents(Step) \ {None} : c \in Seq(CalibrationLines)
         /\ Step[1] = "directory" =>
              /\ Step = <<"directory", Subject>> /\ Subject \in Streams
              /\ \A d \in Contents(Step) \ {None} :
                   /\ IsFiniteSet(d) /\ None \notin Seq(d)
                   /\ \A e \in d : Number(e) \in Nat \union {NotNumeric}
         /\ Step[1] = "timestamps" =>
              /\ Step = <<"timestamps", Subject>> /\ Subject \in Streams
              /\ \A c \in Contents(Step) \ {None} : c \in Seq(CivilTimes)
<1>1. at \in 1..13 /\ Step = Script[at]
  BY DEF IInv, Step
<1>2. ASSUME Step[1] = "calibration"
      PROVE  \E f \in {"velo", "camera"} : Step = <<"calibration", f>>
  <2>1. at \in {1, 2}
    BY <1>1, <1>2, PlacesOf
  <2> QED BY <1>1, <2>1, ScriptIs
<1>3. ASSUME Step[1] = "directory" PROVE \E s \in Streams : Step = <<"directory", s>>
  <2>1. at \in {5, 6}
    BY <1>1, <1>3, PlacesOf
  <2> QED BY <1>1, <2>1, ScriptIs DEF Streams
<1>4. ASSUME Step[1] = "timestamps" PROVE \E s \in Streams : Step = <<"timestamps", s>>
  <2>1. at \in {7, 8}
    BY <1>1, <1>4, PlacesOf
  <2> QED BY <1>1, <2>1, ScriptIs DEF Streams
<1>5. Subject = Step[2]
  BY DEF Subject
<1>6. Step[1] = "calibration" =>
        /\ Step = <<"calibration", Subject>>
        /\ \A c \in Contents(Step) \ {None} : c \in Seq(CalibrationLines)
  BY <1>2, <1>5, ContentsAssumption
<1>7. Step[1] = "directory" =>
        /\ Step = <<"directory", Subject>> /\ Subject \in Streams
        /\ \A d \in Contents(Step) \ {None} :
             /\ IsFiniteSet(d) /\ None \notin Seq(d)
             /\ \A e \in d : Number(e) \in Nat \union {NotNumeric}
  <2> SUFFICES ASSUME Step[1] = "directory"
               PROVE  /\ Step = <<"directory", Subject>> /\ Subject \in Streams
                      /\ \A d \in Contents(Step) \ {None} :
                           /\ IsFiniteSet(d) /\ None \notin Seq(d)
                           /\ \A e \in d : Number(e) \in Nat \union {NotNumeric}
    OBVIOUS
  <2>1. PICK s \in Streams : Step = <<"directory", s>>
    BY <1>3
  <2>2. \A d \in Contents(<<"directory", s>>) :
          d = None \/ (/\ IsFiniteSet(d) /\ None \notin Seq(d)
                       /\ \A e \in d : Number(e) \in Nat \union {NotNumeric})
    BY ContentsAssumption
  <2> QED BY <1>5, <2>1, <2>2
<1>8. Step[1] = "timestamps" =>
        /\ Step = <<"timestamps", Subject>> /\ Subject \in Streams
        /\ \A c \in Contents(Step) \ {None} : c \in Seq(CivilTimes)
  <2> SUFFICES ASSUME Step[1] = "timestamps"
               PROVE  /\ Step = <<"timestamps", Subject>> /\ Subject \in Streams
                      /\ \A c \in Contents(Step) \ {None} : c \in Seq(CivilTimes)
    OBVIOUS
  <2>1. PICK s \in Streams : Step = <<"timestamps", s>>
    BY <1>4
  <2>2. \A c \in Contents(<<"timestamps", s>>) : c = None \/ c \in Seq(CivilTimes)
    BY ContentsAssumption
  <2> QED BY <1>5, <2>1, <2>2
<1> QED BY <1>6, <1>7, <1>8

\* The data of a step are at fault for what is wrong with its file.
LEMMA FileAtFault ==
  ASSUME Step[1] \in {"calibration", "directory", "timestamps"}, content[Step] # None
  PROVE  /\ Step[1] = "calibration" => Defects(Step) = CalibrationDefects(Subject, content[Step])
         /\ Step[1] = "directory" => Defects(Step) = DirectoryDefects(Subject, content[Step])
         /\ Step[1] = "timestamps" => Defects(Step) = TimestampDefects(content[Step])
BY DEF Defects, FileDefects, Subject

LEMMA NoneIsNoReading ==
  /\ None # <<>> /\ None \notin Seq(CalibrationLines) /\ None \notin Seq(CivilTimes)
<1>1. <<>> \in Seq(CivilTimes)
  OBVIOUS
<1> QED BY <1>1, NamesAssumption

LEMMA OpenKeeps ==
  ASSUME IInv, Open
  PROVE  IInv'
<1>1. PICK kind \in {"calibration", "directory", "timestamps"} : Doing(kind)
  BY DEF Open
<1>2. outcome = "loading" /\ Step[1] \in {"calibration", "directory", "timestamps"}
  BY <1>1 DEF Doing
<1>3. /\ rest = None /\ built = <<>> /\ at \in 1..13 /\ DOMAIN content = Steps
      /\ UNCHANGED <<request, basename, at, built, result>> /\ Step \in Steps
  BY <1>2, StepsAreDistinct DEF Open, IInv, Step
<1>4. PICK c \in Contents(Step) :
        /\ content' = [content EXCEPT ![Step] = c]
        /\ IF c = None
           THEN /\ outcome' = (IF Step[1] = "directory" THEN "invalid_layout" ELSE "file_open")
                /\ rest' = rest
           ELSE /\ rest' \in (IF Step[1] = "directory" THEN SetToSeqs(c) ELSE {c})
                /\ outcome' = outcome
  BY DEF Open
<1>5. /\ DOMAIN content' = Steps /\ content'[Step] = c /\ Step' = Step /\ Subject' = Subject
      /\ \A s \in Steps : s # Step => content'[s] = content[s]
  BY <1>3, <1>4 DEF Step, Subject
<1>6. CASE c = None
  <2>1. outcome' = IF Step[1] = "directory" THEN "invalid_layout" ELSE "file_open"
    BY <1>4, <1>6
  <2>2. outcome' \in Codes
    BY <2>1 DEF Codes
  <2>3. (outcome \in Defects(Step))'
    <3>1. FileDefects(Step)' = {IF Step[1] = "directory" THEN "invalid_layout" ELSE "file_open"}
      BY <1>5, <1>6 DEF FileDefects
    <3>2. Defects(Step)' = FileDefects(Step)'
      BY <1>2, <1>5 DEF Defects
    <3> QED BY <2>1, <3>1, <3>2
  <2> QED BY <1>2, <1>3, <1>5, <2>2, <2>3, Stopping
<1>7. CASE c # None
  <2>1. outcome' = outcome /\ rest' \in (IF Step[1] = "directory" THEN SetToSeqs(c) ELSE {c})
    BY <1>4, <1>7
  <2>2. c \in Contents(Step) \ {None} /\ content'[Step] = c
    BY <1>5, <1>7
  <2>3. rest' # None /\ Opened'
    <3>1. CASE Step[1] = "calibration"
      <4>1. c \in Seq(CalibrationLines) /\ rest' = c
        BY <2>1, <2>2, <3>1, ContentsAre
      <4>2. Remains(c, c, 0) /\ KeptLines(Subject, c, 0, <<>>)
        BY <4>1, NothingRead DEF KeptLines, ToSet
      <4> QED BY <1>2, <1>3, <1>5, <2>2, <3>1, <4>1, <4>2, NoneIsNoReading DEF Opened
    <3>2. CASE Step[1] = "directory"
      <4>1. /\ IsFiniteSet(c) /\ None \notin Seq(c) /\ rest' \in SetToSeqs(c)
        BY <2>1, <2>2, <3>2, ContentsAre
      <4>2. PICK q : q = rest'
        OBVIOUS
      <4>3. q \in Seq(c) /\ ToSet(q) = c /\ Listed(q)
        BY <4>1, <4>2, ListingIsComplete DEF Listed
      <4>4. Enumerated(Subject, c, q, <<>>)
        <5>1. <<>> \in Seq(c) /\ ToSet(<<>>) = {} /\ Len(<<>>) <= MaximumFrames /\ Distinct(<<>>)
          BY LimitsAssumption DEF ToSet, Distinct
        <5> QED BY <4>3, <5>1 DEF Enumerated
      <4> QED BY <1>2, <1>3, <1>5, <2>2, <3>2, <4>1, <4>2, <4>3, <4>4 DEF Opened
    <3>3. CASE Step[1] = "timestamps"
      <4>1. c \in Seq(CivilTimes) /\ rest' = c
        BY <2>1, <2>2, <3>3, ContentsAre
      <4>2. Remains(c, c, 0) /\ TimestampsKept(c, 0, <<>>)
        BY <4>1, NothingRead, LimitsAssumption DEF TimestampsKept
      <4> QED BY <1>2, <1>3, <1>5, <2>2, <3>3, <4>1, <4>2, NoneIsNoReading DEF Opened
    <3> QED BY <1>2, <3>1, <3>2, <3>3
  <2> QED BY <1>2, <1>3, <1>5, <2>1, <2>3, Advancing
<1> QED BY <1>6, <1>7

\* What is known of the file whose next line is read, or whose end is reached.
LEMMA BeingRead ==
  ASSUME IInv, NEW kind \in {"calibration", "directory", "timestamps"},
         Doing(kind), rest # None
  PROVE  /\ outcome = "loading" /\ Step[1] = kind /\ Opened
         /\ DOMAIN content = Steps /\ Step \in Steps
         /\ content[Step] \in Contents(Step) \ {None} /\ content[Step] # None
BY StepsAreDistinct DEF IInv, Doing, Opened, Step

LEMMA ReadCalibrationLineKeeps ==
  ASSUME IInv, ReadCalibrationLine
  PROVE  IInv'
<1> DEFINE line == Head(rest)
           c == content[Step]
           twice == \E i \in DOMAIN built : built[i].key = line.key
<1>1. /\ Doing("calibration") /\ rest # None /\ rest # <<>>
  BY DEF ReadCalibrationLine, Reading
<1>2. IF line.key \notin Required[Subject] THEN Skip
      ELSE IF twice THEN Refuse("duplicate_key")
      ELSE IF line.found \in Unparsable THEN Refuse(line.found)
      ELSE Keep(line)
  BY DEF ReadCalibrationLine
<1>3. /\ outcome = "loading" /\ Step[1] = "calibration" /\ Opened
      /\ DOMAIN content = Steps /\ Step \in Steps
      /\ c \in Contents(Step) \ {None} /\ c # None
  BY <1>1, BeingRead
<1>4. c \in Seq(CalibrationLines) /\ rest \in Seq(CalibrationLines)
  BY <1>3, ContentsAre DEF Opened
<1>5. PICK n \in Nat : Remains(rest, c, n) /\ KeptLines(Subject, c, n, built)
  BY <1>3 DEF Opened
<1>6. /\ line.key \notin Required[Subject] => KeptLines(Subject, c, n + 1, built)
      /\ line.key \in Required[Subject] /\ twice
           => "duplicate_key" \in CalibrationDefects(Subject, c)
      /\ line.key \in Required[Subject] /\ line.found \in Unparsable
           => line.found \in CalibrationDefects(Subject, c)
      /\ line.key \in Required[Subject] /\ ~twice /\ line.found \notin Unparsable
           => KeptLines(Subject, c, n + 1, Append(built, line))
  BY <1>1, <1>4, <1>5, CalibrationLine
<1>7. Tail(rest) \in Seq(CalibrationLines) /\ Remains(Tail(rest), c, n + 1) /\ n + 1 \in Nat
  BY <1>1, <1>4, <1>5, HeadAndTail, OneLineRead
<1>8. Defects(Step) = CalibrationDefects(Subject, c)
  BY <1>3, FileAtFault
<1> HIDE DEF twice, line, c
<1>9. CASE line.key \notin Required[Subject]
  <2>1. rest' = Tail(rest) /\ UNCHANGED <<request, basename, at, content, built, result, outcome>>
    BY <1>2, <1>9 DEF Skip
  <2>2. rest' # None /\ Opened'
    BY <1>3, <1>6, <1>7, <1>9, <2>1, NoneIsNoReading DEF Opened, Step, Subject, c
  <2> QED BY <1>3, <2>1, <2>2, Advancing
<1>10. CASE line.key \in Required[Subject] /\ twice
  BY <1>2, <1>3, <1>6, <1>8, <1>10, Refusing DEF Codes
<1>11. CASE line.key \in Required[Subject] /\ ~twice /\ line.found \in Unparsable
  BY <1>2, <1>3, <1>6, <1>8, <1>11, Refusing DEF Codes
<1>12. CASE line.key \in Required[Subject] /\ ~twice /\ line.found \notin Unparsable
  <2>1. /\ rest' = Tail(rest) /\ built' = Append(built, line)
        /\ UNCHANGED <<request, basename, at, content, result, outcome>>
    BY <1>2, <1>12 DEF Keep
  <2>2. rest' # None /\ Opened'
    BY <1>3, <1>6, <1>7, <1>12, <2>1, NoneIsNoReading DEF Opened, Step, Subject, c
  <2> QED BY <1>3, <2>1, <2>2, Advancing
<1> QED BY <1>9, <1>10, <1>11, <1>12

LEMMA EndCalibrationKeeps ==
  ASSUME IInv, EndCalibration
  PROVE  IInv'
<1> DEFINE c == content[Step]
           all == Required[Subject] \subseteq { line.key : line \in ToSet(built) }
<1>1. Doing("calibration") /\ rest = <<>> /\ rest # None
  BY NoneIsNoReading DEF EndCalibration, Ended
<1>2. IF all THEN Return(ToSet(built)) ELSE Refuse("missing_key")
  BY DEF EndCalibration
<1>3. /\ outcome = "loading" /\ Step[1] = "calibration" /\ Opened
      /\ c \in Contents(Step) \ {None} /\ c # None
  BY <1>1, BeingRead
<1>4. c \in Seq(CalibrationLines)
  BY <1>3, ContentsAre
<1>5. PICK n \in Nat : Remains(rest, c, n) /\ KeptLines(Subject, c, n, built)
  BY <1>3 DEF Opened
<1>6. IF all THEN CalibrationRead(Subject, c, ToSet(built))
             ELSE "missing_key" \in CalibrationDefects(Subject, c)
  BY <1>1, <1>4, <1>5, CalibrationEnd
<1> HIDE DEF all
<1>7. CASE all
  <2>1. PICK v : v = ToSet(built)
    OBVIOUS
  <2>2. Finished(Step, v)
    BY <1>3, <1>6, <1>7, <2>1 DEF Finished, Subject
  <2> QED BY <1>2, <1>3, <1>7, <2>1, <2>2, Returning
<1>8. CASE ~all
  BY <1>2, <1>3, <1>6, <1>8, FileAtFault, Refusing DEF Codes
<1> QED BY <1>7, <1>8

LEMMA AssembleKeeps ==
  ASSUME IInv, Assemble
  PROVE  IInv'
<1> DEFINE lines == UNION { result[<<"calibration", f>>] : f \in {"velo", "camera"} }
           Unfit(f) == \E i \in DOMAIN content[<<"calibration", f>>] :
                         /\ content[<<"calibration", f>>][i].key \in Required[f]
                         /\ content[<<"calibration", f>>][i].found = "unfit"
<1>1. outcome = "loading" /\ Step[1] = "assemble"
  BY DEF Assemble, Doing
<1>2. IF \E line \in lines : line.found = "unfit" THEN Refuse("invalid_calibration")
      ELSE Return(lines)
  BY DEF Assemble
<1>3. at = 3 /\ Step = <<"assemble", "both">>
  BY <1>1, PlacesOf, ScriptIs DEF IInv, Step
<1>4. ASSUME NEW f \in {"velo", "camera"}
      PROVE  LET c == content[<<"calibration", f>>] IN
             result[<<"calibration", f>>]
               = { c[i] : i \in { i \in DOMAIN c : c[i].key \in Required[f] } }
  <2>1. PICK m \in 1..2 : Script[m] = <<"calibration", f>>
    BY ScriptIs
  <2>2. Behind(m) /\ m \in 1..13
    BY <1>3 DEF Behind
  <2>3. Finished(<<"calibration", f>>, result[<<"calibration", f>>])
    BY <2>1, <2>2 DEF IInv
  <2>4. CalibrationRead(f, content[<<"calibration", f>>], result[<<"calibration", f>>])
    BY <2>3 DEF Finished
  <2> QED BY <2>4 DEF CalibrationRead
<1>5. (\E line \in lines : line.found = "unfit") <=> \E f \in {"velo", "camera"} : Unfit(f)
  BY <1>4
<1>6. CASE \E line \in lines : line.found = "unfit"
  <2>1. "invalid_calibration" \in Defects(Step)
    BY <1>3, <1>5, <1>6 DEF Defects
  <2> HIDE DEF lines, Unfit
  <2> QED BY <1>1, <1>2, <1>6, <2>1, Refusing DEF Codes
<1>7. CASE ~\E line \in lines : line.found = "unfit"
  <2>1. \A f \in {"velo", "camera"} : ~Unfit(f)
    BY <1>5, <1>7
  <2>2. PICK v : v = lines
    OBVIOUS
  <2>3. Finished(Step, v)
    BY <1>3, <2>1 DEF Finished
  <2> HIDE DEF lines, Unfit
  <2> QED BY <1>1, <1>2, <1>7, <2>2, <2>3, Returning
<1> QED BY <1>6, <1>7

LEMMA CheckDriveKeeps ==
  ASSUME IInv, CheckDrive
  PROVE  IInv'
<1>1. outcome = "loading" /\ Step[1] = "drive"
  BY DEF CheckDrive, Doing
<1>2. at = 4 /\ Step = <<"drive", "name">>
  BY <1>1, PlacesOf, ScriptIs DEF IInv, Step
<1>3. CASE basename
  <2>1. PICK v : v = basename
    OBVIOUS
  <2>2. Finished(Step, v)
    BY <1>2, <1>3 DEF Finished
  <2> QED BY <1>1, <1>3, <2>1, <2>2, Returning DEF CheckDrive
<1>4. CASE ~basename
  <2>1. "invalid_layout" \in Defects(Step)
    BY <1>2, <1>4 DEF Defects
  <2> QED BY <1>1, <1>4, <2>1, Refusing DEF CheckDrive, Codes
<1> QED BY <1>3, <1>4

LEMMA VisitEntryKeeps ==
  ASSUME IInv, VisitEntry
  PROVE  IInv'
<1> DEFINE entry == Head(rest)
           d == content[Step]
           full == Len(built) >= MaximumFrames
           taken == \E i \in DOMAIN built : Number(built[i]) = Number(entry)
           bad == Number(entry) = NotNumeric \/ taken
<1>1. Doing("directory") /\ rest # None /\ rest # <<>>
  BY DEF VisitEntry, Reading
<1>2. IF ~Counts(entry, Subject) THEN Skip
      ELSE IF full THEN Refuse("limit_exceeded")
      ELSE IF bad THEN Refuse("invalid_frame_file")
      ELSE Keep(entry)
  BY DEF VisitEntry
<1>3. /\ outcome = "loading" /\ Step[1] = "directory" /\ Opened
      /\ DOMAIN content = Steps /\ Step \in Steps
      /\ d \in Contents(Step) \ {None} /\ d # None
  BY <1>1, BeingRead
<1>4. /\ IsFiniteSet(d) /\ None \notin Seq(d)
      /\ \A e \in d : Number(e) \in Nat \union {NotNumeric}
  BY <1>3, ContentsAre
<1>5. Enumerated(Subject, d, rest, built)
  BY <1>3 DEF Opened
<1>6. /\ ~Counts(entry, Subject) => Enumerated(Subject, d, Tail(rest), built)
      /\ Counts(entry, Subject) /\ full => "limit_exceeded" \in DirectoryDefects(Subject, d)
      /\ Counts(entry, Subject) /\ bad => "invalid_frame_file" \in DirectoryDefects(Subject, d)
      /\ Counts(entry, Subject) /\ ~full /\ ~bad
           => Enumerated(Subject, d, Tail(rest), Append(built, entry))
  BY <1>1, <1>4, <1>5, DirectoryEntry
<1>7. Tail(rest) # None
  <2>1. rest \in Seq(d)
    BY <1>5 DEF Enumerated
  <2> HIDE DEF d
  <2>2. Tail(rest) \in Seq(d)
    BY <1>1, <2>1
  <2> QED BY <1>4, <2>2
<1>8. Defects(Step) = DirectoryDefects(Subject, d)
  BY <1>3, FileAtFault
<1> HIDE DEF entry, d, full, bad
<1>9. CASE ~Counts(entry, Subject)
  <2>1. rest' = Tail(rest) /\ UNCHANGED <<request, basename, at, content, built, result, outcome>>
    BY <1>2, <1>9 DEF Skip
  <2>2. rest' # None /\ Opened'
    BY <1>3, <1>6, <1>7, <1>9, <2>1 DEF Opened, Step, Subject, d
  <2> QED BY <1>3, <2>1, <2>2, Advancing
<1>10. CASE Counts(entry, Subject) /\ full
  BY <1>2, <1>3, <1>6, <1>8, <1>10, Refusing DEF Codes
<1>11. CASE Counts(entry, Subject) /\ ~full /\ bad
  BY <1>2, <1>3, <1>6, <1>8, <1>11, Refusing DEF Codes
<1>12. CASE Counts(entry, Subject) /\ ~full /\ ~bad
  <2>1. /\ rest' = Tail(rest) /\ built' = Append(built, entry)
        /\ UNCHANGED <<request, basename, at, content, result, outcome>>
    BY <1>2, <1>12 DEF Keep
  <2>2. rest' # None /\ Opened'
    BY <1>3, <1>6, <1>7, <1>12, <2>1 DEF Opened, Step, Subject, d
  <2> QED BY <1>3, <2>1, <2>2, Advancing
<1> QED BY <1>9, <1>10, <1>11, <1>12

LEMMA EndEnumerationKeeps ==
  ASSUME IInv, EndEnumeration
  PROVE  IInv'
<1> DEFINE d == content[Step]
<1>1. Doing("directory") /\ rest = <<>> /\ rest # None
  BY NoneIsNoReading DEF EndEnumeration, Ended
<1>2. IF built = <<>> THEN Refuse("invalid_layout") ELSE Return(InOrder(built))
  BY DEF EndEnumeration
<1>3. /\ outcome = "loading" /\ Step[1] = "directory" /\ Opened
      /\ d \in Contents(Step) \ {None} /\ d # None
  BY <1>1, BeingRead
<1>4. IsFiniteSet(d) /\ Enumerated(Subject, d, <<>>, built)
  BY <1>1, <1>3, ContentsAre DEF Opened
<1>5. IF built = <<>> THEN "invalid_layout" \in DirectoryDefects(Subject, d)
      ELSE DirectoryRead(Subject, d, InOrder(built))
  BY <1>4, DirectoryEnd
<1>6. CASE built # <<>>
  <2>1. PICK v : v = InOrder(built)
    OBVIOUS
  <2>2. Finished(Step, v)
    BY <1>3, <1>5, <1>6, <2>1 DEF Finished, Subject
  <2> QED BY <1>2, <1>3, <1>6, <2>1, <2>2, Returning
<1>7. CASE built = <<>>
  BY <1>2, <1>3, <1>5, <1>7, FileAtFault, Refusing DEF Codes
<1> QED BY <1>6, <1>7

\* A stream's timestamps lie within the width when all do.
LEMMA NearLines ==
  ASSUME TimesAreNear, NEW s \in Streams, NEW c \in Contents(<<"timestamps", s>>) \ {None}
  PROVE  Near(c)
<1> DEFINE All == { ToSet(e) : e \in Contents(<<"timestamps", s>>) \ {None} }
<1>1. (UNION All) \ {Malformed} \subseteq -Half .. Half - 1
  BY Zenon DEF TimesAreNear
<1>2. ToSet(c) \in All
  BY Zenon
<1> HIDE DEF All
<1>3. ToSet(c) \subseteq UNION All
  BY <1>2
<1>4. ToSet(c) \ {Malformed} \subseteq -Half .. Half - 1
  BY <1>1, <1>3
<1> QED BY <1>4 DEF Near, Width

LEMMA ReadTimestampKeeps ==
  ASSUME IInv, ReadTimestamp
  PROVE  IInv'
<1> DEFINE time == Head(rest)
           c == content[Step]
           full == Len(built) >= MaximumTimestamps
           late == built # <<>> /\ Nanos(time) <= Nanos(Last(built))
<1>1. Doing("timestamps") /\ rest # None /\ rest # <<>>
  BY DEF ReadTimestamp, Reading
<1>2. IF full THEN Refuse("limit_exceeded")
      ELSE IF time = Malformed THEN Refuse("invalid_timestamp")
      ELSE IF late THEN Refuse("invalid_timestamp")
      ELSE Keep(time)
  BY DEF ReadTimestamp
<1>3. /\ outcome = "loading" /\ Step[1] = "timestamps" /\ Opened
      /\ DOMAIN content = Steps /\ Step \in Steps
      /\ c \in Contents(Step) \ {None} /\ c # None
  BY <1>1, BeingRead
<1>4. /\ c \in Seq(CivilTimes) /\ rest \in Seq(CivilTimes)
      /\ Step = <<"timestamps", Subject>> /\ Subject \in Streams
  BY <1>3, ContentsAre DEF Opened
<1>5. PICK n \in Nat : Remains(rest, c, n) /\ TimestampsKept(c, n, built)
  BY <1>3 DEF Opened
<1>6. /\ full => "limit_exceeded" \in TimestampDefects(c)
      /\ time = Malformed => "invalid_timestamp" \in TimestampDefects(c)
      /\ time # Malformed /\ late /\ Near(c) => "invalid_timestamp" \in TimestampDefects(c)
      /\ ~full /\ time # Malformed /\ ~late => TimestampsKept(c, n + 1, Append(built, time))
  BY <1>1, <1>4, <1>5, TimestampLine
<1>7. Tail(rest) \in Seq(CivilTimes) /\ Remains(Tail(rest), c, n + 1) /\ n + 1 \in Nat
  BY <1>1, <1>4, <1>5, HeadAndTail, OneLineRead
<1>8. Defects(Step) = TimestampDefects(c)
  BY <1>3, FileAtFault
<1>9. TimesAreNear => Near(c)
  BY <1>3, <1>4, NearLines
<1> HIDE DEF time, c, full, late
<1>10. CASE full
  BY <1>2, <1>3, <1>6, <1>8, <1>10, Refusing DEF Codes
<1>11. CASE ~full /\ time = Malformed
  BY <1>2, <1>3, <1>6, <1>8, <1>11, Refusing DEF Codes
<1>12. CASE ~full /\ time # Malformed /\ late
  BY <1>2, <1>3, <1>6, <1>8, <1>9, <1>12, Refusing DEF Codes
<1>13. CASE ~full /\ time # Malformed /\ ~late
  <2>1. /\ rest' = Tail(rest) /\ built' = Append(built, time)
        /\ UNCHANGED <<request, basename, at, content, result, outcome>>
    BY <1>2, <1>13 DEF Keep
  <2>2. rest' # None /\ Opened'
    BY <1>3, <1>6, <1>7, <1>13, <2>1, NoneIsNoReading DEF Opened, Step, Subject, c
  <2> QED BY <1>3, <2>1, <2>2, Advancing
<1> QED BY <1>10, <1>11, <1>12, <1>13

LEMMA EndTimestampsKeeps ==
  ASSUME IInv, EndTimestamps
  PROVE  IInv'
<1> DEFINE c == content[Step]
<1>1. Doing("timestamps") /\ rest = <<>> /\ rest # None
  BY NoneIsNoReading DEF EndTimestamps, Ended
<1>2. IF built = <<>> THEN Refuse("invalid_timestamp") ELSE Return(built)
  BY DEF EndTimestamps
<1>3. /\ outcome = "loading" /\ Step[1] = "timestamps" /\ Opened
      /\ c \in Contents(Step) \ {None} /\ c # None
  BY <1>1, BeingRead
<1>4. c \in Seq(CivilTimes)
  BY <1>3, ContentsAre
<1>5. PICK n \in Nat : Remains(rest, c, n) /\ TimestampsKept(c, n, built)
  BY <1>3 DEF Opened
<1>6. IF built = <<>> THEN "invalid_timestamp" \in TimestampDefects(c)
      ELSE TimestampsRead(c, built)
  BY <1>1, <1>4, <1>5, TimestampEnd
<1>7. CASE built # <<>>
  <2>1. PICK v : v = built
    OBVIOUS
  <2>2. Finished(Step, v)
    BY <1>3, <1>6, <1>7, <2>1 DEF Finished, Subject
  <2> QED BY <1>2, <1>3, <1>7, <2>1, <2>2, Returning
<1>8. CASE built = <<>>
  BY <1>2, <1>3, <1>6, <1>8, FileAtFault, Refusing DEF Codes
<1> QED BY <1>7, <1>8

\* Once the timestamps of both streams are read, what the later steps stand on.
LEMMA LayoutRead ==
  ASSUME IInv, at >= 9, NEW s \in Streams
  PROVE  LET d == content[<<"directory", s>>]
             c == content[<<"timestamps", s>>]
         IN  /\ DirectoryRead(s, d, result[<<"directory", s>>])
             /\ TimestampsRead(c, result[<<"timestamps", s>>])
             /\ c \in Contents(<<"timestamps", s>>) \ {None}
             /\ at >= 11 => Timed(s, d, c, result[<<"attach", s>>])
             /\ at >= 13 => Found(s, d, c, result[<<"find", s>>])
<1>1. PICK k \in {0, 1} : /\ Script[5 + k] = <<"directory", s>> /\ Script[7 + k] = <<"timestamps", s>>
                          /\ Script[9 + k] = <<"attach", s>> /\ Script[11 + k] = <<"find", s>>
  <2>1. CASE s = "image"
    <3>1. /\ 5 + 0 = 5 /\ 7 + 0 = 7 /\ 9 + 0 = 9 /\ 11 + 0 = 11
      OBVIOUS
    <3> QED BY <2>1, <3>1, ScriptIs
  <2>2. CASE s = "lidar"
    <3>1. /\ 5 + 1 = 6 /\ 7 + 1 = 8 /\ 9 + 1 = 10 /\ 11 + 1 = 12
      OBVIOUS
    <3> QED BY <2>2, <3>1, ScriptIs
  <2> QED BY <2>1, <2>2 DEF Streams
<1>2. \A n \in 1..13 : n < at => Finished(Script[n], result[Script[n]])
  BY DEF IInv, Behind
<1>3. at \in 1..13
  BY DEF IInv
<1>4. /\ Finished(<<"directory", s>>, result[<<"directory", s>>])
      /\ Finished(<<"timestamps", s>>, result[<<"timestamps", s>>])
  <2>1. 5 + k \in 1..13 /\ 5 + k < at /\ 7 + k \in 1..13 /\ 7 + k < at
    BY <1>3
  <2> QED BY <1>1, <1>2, <2>1
<1>5. at >= 11 => Finished(<<"attach", s>>, result[<<"attach", s>>])
  <2>1. at >= 11 => 9 + k \in 1..13 /\ 9 + k < at
    BY <1>3
  <2> QED BY <1>1, <1>2, <2>1
<1>6. at >= 13 => Finished(<<"find", s>>, result[<<"find", s>>])
  <2>1. at >= 13 => 11 + k \in 1..13 /\ 11 + k < at
    BY <1>3
  <2> QED BY <1>1, <1>2, <2>1
<1>7. at >= 11 => Timed(s, content[<<"directory", s>>], content[<<"timestamps", s>>],
                        result[<<"attach", s>>])
  BY <1>5 DEF Finished
<1>8. at >= 13 => Found(s, content[<<"directory", s>>], content[<<"timestamps", s>>],
                        result[<<"find", s>>])
  BY <1>6 DEF Finished
<1>9. /\ DirectoryRead(s, content[<<"directory", s>>], result[<<"directory", s>>])
      /\ TimestampsRead(content[<<"timestamps", s>>], result[<<"timestamps", s>>])
      /\ content[<<"timestamps", s>>] \in Contents(<<"timestamps", s>>) \ {None}
  BY <1>4 DEF Finished
<1> QED BY <1>7, <1>8, <1>9

LEMMA AttachKeeps ==
  ASSUME IInv, Attach
  PROVE  IInv'
<1> DEFINE s == Subject
           d == content[<<"directory", s>>]
           c == content[<<"timestamps", s>>]
           frames == result[<<"directory", s>>]
           lines == result[<<"timestamps", s>>]
           timed == [i \in DOMAIN frames |-> [entry |-> frames[i], time |-> lines[i]]]
<1>1. outcome = "loading" /\ Step[1] = "attach" /\ s = Step[2]
  BY DEF Attach, Doing, Subject
<1>2. IF Len(frames) # Len(lines) THEN Refuse("invalid_layout") ELSE Return(timed)
  BY DEF Attach
<1>3. at \in {9, 10} /\ s \in Streams
  BY <1>1, PlacesOf, ScriptIs DEF IInv, Step, Streams
<1>4. DirectoryRead(s, d, frames) /\ TimestampsRead(c, lines)
  <2>1. at >= 9
    BY <1>3
  <2> QED BY <1>3, <2>1, LayoutRead
<1>5. /\ Len(frames) = Len(lines) <=> Len(c) = Cardinality(Files(s, d))
      /\ Len(frames) = Len(lines) => Timed(s, d, c, timed)
  BY <1>4, AttachedByRank
<1>6. Candidates(s) = Files(s, d) /\ Lines(s) = c
  BY DEF Candidates, Lines
<1> HIDE DEF s, frames, lines, timed
<1>7. CASE Len(frames) = Len(lines)
  <2>1. PICK v : v = timed
    OBVIOUS
  <2>2. Finished(Step, v)
    BY <1>1, <1>5, <1>7, <2>1 DEF Finished
  <2> QED BY <1>1, <1>2, <1>7, <2>1, <2>2, Returning
<1>8. CASE Len(frames) # Len(lines)
  <2> HIDE DEF d, c
  <2>1. Len(Lines(s)) # Cardinality(Candidates(s))
    BY <1>5, <1>6, <1>8
  <2>2. "invalid_layout" \in Defects(Step)
    BY <1>1, <2>1 DEF Defects
  <2> QED BY <1>1, <1>2, <1>8, <2>2, Refusing DEF Codes
<1> QED BY <1>7, <1>8

LEMMA FindKeeps ==
  ASSUME IInv, Find
  PROVE  IInv'
<1> DEFINE s == Subject
           d == content[<<"directory", s>>]
           c == content[<<"timestamps", s>>]
           timed == result[<<"attach", s>>]
           match == SelectInSeq(timed, LAMBDA t : Number(t.entry) >= request)
           missing == \A e \in Files(s, d) : Number(e) # request
<1>1. outcome = "loading" /\ Step[1] = "find" /\ s = Step[2]
  BY DEF Find, Doing, Subject
<1>2. IF match = 0 THEN Refuse("invalid_layout")
      ELSE IF Number(timed[match].entry) # request THEN Refuse("invalid_layout")
      ELSE Return(timed[match])
  BY DEF Find
<1>3. at \in {11, 12} /\ s \in Streams
  BY <1>1, PlacesOf, ScriptIs DEF IInv, Step, Streams
<1>4. /\ DirectoryRead(s, d, result[<<"directory", s>>])
      /\ TimestampsRead(c, result[<<"timestamps", s>>]) /\ Timed(s, d, c, timed)
  <2>1. at >= 9 /\ at >= 11
    BY <1>3
  <2> QED BY <1>3, <2>1, LayoutRead
<1>5. /\ \A e \in Files(s, d) : Number(e) \in Nat
      /\ c \in Seq(CivilTimes) /\ request \in Nat
  BY <1>4 DEF DirectoryRead, TimestampsRead, IInv
<1>6. Len(timed) = Len(c)
  BY <1>4 DEF Timed
<1>7. IF match = 0 THEN missing
      ELSE IF Number(timed[match].entry) # request THEN missing
      ELSE Found(s, d, c, timed[match])
  BY <1>4, <1>5, <1>6, FindFrame
<1>8. missing => "invalid_layout" \in Defects(Step)
  <2>1. Candidates(s) = Files(s, d)
    BY DEF Candidates
  <2> QED BY <1>1, <2>1 DEF Defects
<1> HIDE DEF s, timed, match, missing
<1>9. CASE match = 0 \/ Number(timed[match].entry) # request
  BY <1>1, <1>2, <1>7, <1>8, <1>9, Refusing DEF Codes
<1>10. CASE ~(match = 0 \/ Number(timed[match].entry) # request)
  <2>1. PICK v : v = timed[match]
    OBVIOUS
  <2>2. Finished(Step, v)
    BY <1>1, <1>7, <1>10, <2>1 DEF Finished
  <2> QED BY <1>1, <1>2, <1>10, <2>1, <2>2, Returning
<1> QED BY <1>9, <1>10

LEMMA LoadPictureKeeps ==
  ASSUME IInv, LoadPicture
  PROVE  IInv'
<1> DEFINE D(s) == content[<<"directory", s>>]
           C(s) == content[<<"timestamps", s>>]
           chosen(s) == result[<<"find", s>>]
           code == Picture(chosen("image").entry)
           delta == Nanos(Nanos(chosen("lidar").time) - Nanos(chosen("image").time))
<1>1. outcome = "loading" /\ Step[1] = "picture"
  BY DEF LoadPicture, Doing
<1>2. IF code # "fine" THEN Refuse(code) ELSE Return([signed_sync_delta |-> delta])
  BY DEF LoadPicture
<1>3. at = 13 /\ Step = <<"picture", "image">>
  BY <1>1, PlacesOf, ScriptIs DEF IInv, Step
<1>4. ASSUME NEW s \in Streams
      PROVE  /\ DirectoryRead(s, D(s), result[<<"directory", s>>])
             /\ Found(s, D(s), C(s), chosen(s))
  <2>1. at >= 9 /\ at >= 13
    BY <1>3
  <2> QED BY <1>4, <2>1, LayoutRead
<1>5. "image" \in Streams /\ "lidar" \in Streams
  BY DEF Streams
<1>6. ASSUME NEW s \in Streams, NEW e \in Candidates(s), Number(e) = request
      PROVE  e = chosen(s).entry /\ chosen(s).time = Lines(s)[RankIn(s, e)]
  <2>1. /\ chosen(s).entry \in Files(s, D(s)) /\ Number(chosen(s).entry) = request
        /\ chosen(s).time = C(s)[Rank(Files(s, D(s)), chosen(s).entry)]
    BY <1>4 DEF Found
  <2>2. Candidates(s) = Files(s, D(s)) /\ Lines(s) = C(s)
    BY DEF Candidates, Lines
  <2>3. e = chosen(s).entry
    BY <1>4, <1>6, <2>1, <2>2, DirectoryClean
  <2>4. RankIn(s, e) = Rank(Files(s, D(s)), e)
    BY <2>2 DEF RankIn, Rank
  <2> QED BY <2>1, <2>2, <2>3, <2>4
<1>7. /\ chosen("image").entry \in Candidates("image")
      /\ Number(chosen("image").entry) = request
  BY <1>4, <1>5 DEF Found, Candidates
<1>8. \A e \in Candidates("image"), f \in Candidates("lidar") :
        Number(e) = request /\ Number(f) = request =>
          /\ Picture(e) = code
          /\ delta = Nanos(Nanos(Lines("lidar")[RankIn("lidar", f)])
                           - Nanos(Lines("image")[RankIn("image", e)]))
  BY <1>5, <1>6
<1>9. code \in {"fine", "invalid_frame_file", "limit_exceeded"}
  <2>1. at \in 1..13 /\ 5 < at /\ 5 \in 1..13
    BY <1>3
  <2>2. Finished(Script[5], result[Script[5]])
    BY <2>1 DEF IInv, Behind
  <2>3. D("image") \in Contents(<<"directory", "image">>) \ {None}
    BY <2>2, ScriptIs DEF Finished
  <2>4. \A e \in D("image") : Picture(e) \in {"fine", "invalid_frame_file", "limit_exceeded"}
    BY <1>5, <2>3, ContentsAssumption
  <2>5. chosen("image").entry \in D("image")
    BY <1>7 DEF Candidates, Files
  <2> QED BY <2>4, <2>5
<1>10. CASE code = "fine"
  <2>1. PICK v : v = [signed_sync_delta |-> delta]
    OBVIOUS
  <2>2. v.signed_sync_delta = delta
    BY <2>1
  <2> HIDE DEF delta, code
  <2>3. Finished(Step, v)
    BY <1>3, <1>8, <1>10, <2>2 DEF Finished
  <2> QED BY <1>1, <1>2, <1>10, <2>1, <2>3, Returning
<1>11. CASE code # "fine"
  <2>1. code \in Defects(Step)
    <3>1. Defects(Step) = { Picture(e) : e \in { e \in Candidates("image") : Number(e) = request } }
                          \ {"fine"}
      BY <1>3 DEF Defects
    <3> QED BY <1>7, <1>11, <3>1
  <2>2. code \in Codes
    BY <1>9, <1>11 DEF Codes
  <2> HIDE DEF code
  <2> QED BY <1>1, <1>2, <1>11, <2>1, <2>2, Refusing
<1> QED BY <1>10, <1>11

-----------------------------------------------------------------------------
(* The theorems                                                             *)

LEMMA InitHolds == Init => IInv
<1> SUFFICES ASSUME Init PROVE IInv
  OBVIOUS
<1>1. /\ request \in Nat /\ basename \in BOOLEAN /\ at = 1 /\ at \in 1..13
      /\ DOMAIN content = Steps /\ DOMAIN result = Steps
      /\ rest = None /\ built = <<>> /\ outcome = "loading"
  BY NamesAssumption DEF Init
<1>2. \A n \in 1..13 : ~Behind(n) /\ result[Script[n]] = None
  <2>1. \A n \in 1..13 : ~Behind(n)
    BY <1>1 DEF Behind
  <2>2. \A s \in Steps : result[s] = None
    BY DEF Init
  <2> QED BY <2>1, <2>2, StepsAreDistinct
<1> QED BY <1>1, <1>2 DEF IInv

LEMMA NextHolds == IInv /\ [Next]_vars => IInv'
<1> SUFFICES ASSUME IInv, [Next]_vars PROVE IInv'
  OBVIOUS
<1>1. CASE UNCHANGED vars
  <2>1. /\ request' = request /\ basename' = basename /\ at' = at /\ content' = content
        /\ rest' = rest /\ built' = built /\ result' = result /\ outcome' = outcome
    BY <1>1 DEF vars
  <2>2. Defects(Step)' = Defects(Step)
    BY <2>1 DEF Defects, FileDefects, Candidates, Lines, Step
  <2>3. Opened' <=> Opened
    BY <2>1 DEF Opened, Step, Subject
  <2>4. \A n \in 1..13 : Behind(n)' <=> Behind(n)
    BY <2>1 DEF Behind
  <2>5. ASSUME NEW n \in 1..13, Behind(n) PROVE Finished(Script[n], result[Script[n]])'
    <3>1. PICK v : v = result[Script[n]]
      OBVIOUS
    <3>2. Finished(Script[n], v)
      BY <2>5, <3>1 DEF IInv
    <3>3. Finished(Script[n], v)'
      BY <2>1, <3>2, Framing
    <3> QED BY <2>1, <3>1, <3>3
  <2>6. \A n \in 1..13 : IF Behind(n)' THEN Finished(Script[n], result[Script[n]])'
                         ELSE result'[Script[n]] = None
    BY <2>1, <2>4, <2>5 DEF IInv
  <2> QED BY <2>1, <2>2, <2>3, <2>6 DEF IInv
<1>2. CASE Next
  BY <1>2, OpenKeeps, ReadCalibrationLineKeeps, EndCalibrationKeeps, AssembleKeeps,
     CheckDriveKeeps, VisitEntryKeeps, EndEnumerationKeeps, ReadTimestampKeeps,
     EndTimestampsKeeps, AttachKeeps, FindKeeps, LoadPictureKeeps DEF Next
<1> QED BY <1>1, <1>2

\* What is behind, being read and refused, in every reachable state of a load.
THEOREM Invariance == Spec => []IInv
BY InitHolds, NextHolds, PTL DEF Spec

\* The place of each step, and whether it is behind.
LEMMA StepBehind ==
  ASSUME IInv, NEW s \in Steps, result[s] # None \/ outcome = "loaded"
  PROVE  Finished(s, result[s])
<1>1. PICK n \in 1..13 : s = Script[n]
  BY ScriptIs DEF Steps, ToSet
<1>2. Behind(n)
  BY <1>1 DEF IInv, Behind
<1> QED BY <1>1, <1>2 DEF IInv

LEMMA StreamSteps ==
  ASSUME NEW s \in Streams
  PROVE  /\ <<"directory", s>> \in Steps /\ <<"timestamps", s>> \in Steps
         /\ <<"find", s>> \in Steps
BY ScriptIs, StepsAreDistinct DEF Streams

\* A finished directory is a sequence of files of the stream's own extension
\* whose names are numbers, a finished timestamp file one of times, and a
\* refusal is one of the codes that the loaders throw.
THEOREM TypeHolds == Spec => []TypeOK
<1>1. ASSUME IInv PROVE TypeOK
  <2>1. at \in DOMAIN Script
    BY <1>1, ScriptIs DEF IInv
  <2>2. ASSUME NEW s \in Streams, result[<<"directory", s>>] # None
        PROVE  result[<<"directory", s>>] \in Seq({ e \in Candidates(s) : Number(e) \in Nat })
    <3>1. Finished(<<"directory", s>>, result[<<"directory", s>>])
      BY <1>1, <2>2, StepBehind, StreamSteps
    <3>2. DirectoryRead(s, content[<<"directory", s>>], result[<<"directory", s>>])
      BY <3>1 DEF Finished
    <3>3. /\ result[<<"directory", s>>] \in Seq(Candidates(s))
          /\ \A e \in Candidates(s) : Number(e) \in Nat
      BY <3>2 DEF DirectoryRead, Candidates
    <3>4. Candidates(s) = { e \in Candidates(s) : Number(e) \in Nat }
      BY <3>3
    <3> QED BY <3>3, <3>4
  <2>3. ASSUME NEW s \in Streams, result[<<"timestamps", s>>] # None
        PROVE  result[<<"timestamps", s>>] \in Seq(Int)
    <3>1. Finished(<<"timestamps", s>>, result[<<"timestamps", s>>])
      BY <1>1, <2>3, StepBehind, StreamSteps
    <3> QED BY <3>1 DEF Finished, TimestampsRead
  <2>4. outcome \in Codes \union {"loading", "loaded"}
    BY <1>1 DEF IInv
  <2> QED BY <2>1, <2>2, <2>3, <2>4 DEF TypeOK, Codes
<1> QED BY <1>1, Invariance, PTL

\* With civil times near the epoch, the lines that were accepted stand in the
\* order of their times (the comparison is one of counts of nanoseconds, which
\* far from the epoch the width of an int64 does not keep in that order).
THEOREM TimesIncrease ==
  ASSUME TimesAreNear
  PROVE  Spec => []AcceptedTimesIncrease
<1>1. ASSUME IInv PROVE AcceptedTimesIncrease
  <2> SUFFICES ASSUME NEW s \in Streams, result[<<"timestamps", s>>] # None
               PROVE  LET lines == result[<<"timestamps", s>>] IN
                      \A i, j \in DOMAIN lines : i < j => lines[i] < lines[j]
    BY DEF AcceptedTimesIncrease
  <2>1. Finished(<<"timestamps", s>>, result[<<"timestamps", s>>])
    BY <1>1, StepBehind, StreamSteps
  <2>2. /\ TimestampsRead(content[<<"timestamps", s>>], result[<<"timestamps", s>>])
        /\ content[<<"timestamps", s>>] \in Contents(<<"timestamps", s>>) \ {None}
    BY <2>1 DEF Finished
  <2> QED BY <2>2, NearLines, TimestampsClean
<1> QED BY <1>1, Invariance, PTL

\* Whatever order the directories are listed in, a loaded run is about the file
\* of each stream that has the number asked for and about the line of that
\* file's rank, and reports the difference of the two lines.
THEOREM SelectionHolds ==
  ASSUME TimesAreNear
  PROVE  Spec => []SelectionIsByRank
<1>1. ASSUME IInv PROVE SelectionIsByRank
  <2> SUFFICES ASSUME outcome = "loaded"
               PROVE  LET chosen == [s \in Streams |-> result[<<"find", s>>]] IN
                      /\ \A s \in Streams :
                           /\ chosen[s].entry \in Candidates(s) /\ Number(chosen[s].entry) = request
                           /\ Len(Lines(s)) = Cardinality(Candidates(s))
                           /\ chosen[s].time = Lines(s)[RankIn(s, chosen[s].entry)]
                      /\ result[<<"picture", "image">>].signed_sync_delta
                           = chosen["lidar"].time - chosen["image"].time
    BY DEF SelectionIsByRank
  <2> DEFINE found(s) == result[<<"find", s>>]
             delta == result[<<"picture", "image">>].signed_sync_delta
  <2>1. ASSUME NEW s \in Streams
        PROVE  /\ found(s).entry \in Candidates(s) /\ Number(found(s).entry) = request
               /\ Len(Lines(s)) = Cardinality(Candidates(s))
               /\ found(s).time = Lines(s)[RankIn(s, found(s).entry)]
               /\ RankIn(s, found(s).entry) \in DOMAIN Lines(s)
    <3>1. Finished(<<"find", s>>, result[<<"find", s>>])
      BY <1>1, StepBehind, StreamSteps
    <3>2. Found(s, content[<<"directory", s>>], content[<<"timestamps", s>>], found(s))
      BY <3>1 DEF Finished
    <3> QED BY <3>2 DEF Found, Candidates, Lines, RankIn, Rank
  <2>2. "image" \in Streams /\ "lidar" \in Streams
    BY DEF Streams
  <2>3. delta = Nanos(Nanos(found("lidar").time) - Nanos(found("image").time))
    <3>1. Finished(<<"picture", "image">>, result[<<"picture", "image">>])
      <4>1. <<"picture", "image">> \in Steps
        BY ScriptIs, StepsAreDistinct
      <4> QED BY <1>1, <4>1, StepBehind
    <3>2. \A e \in Candidates("image"), f \in Candidates("lidar") :
            Number(e) = request /\ Number(f) = request =>
              delta = Nanos(Nanos(Lines("lidar")[RankIn("lidar", f)])
                            - Nanos(Lines("image")[RankIn("image", e)]))
      BY <3>1 DEF Finished
    <3> HIDE DEF found, delta
    <3> QED BY <2>1, <2>2, <3>2
  <2> DEFINE Read(s) == UNION { ToSet(c) : c \in Contents(<<"timestamps", s>>) \ {None} }
  <2>4. ASSUME NEW s \in Streams
        PROVE  found(s).time \in Read(s) \ {Malformed} /\ found(s).time \in Width
    <3> DEFINE c == Lines(s)
               All == { ToSet(e) : e \in Contents(<<"timestamps", s>>) \ {None} }
    <3>1. Finished(<<"timestamps", s>>, result[<<"timestamps", s>>])
      BY <1>1, StepBehind, StreamSteps
    <3>2. /\ c \in Contents(<<"timestamps", s>>) \ {None}
          /\ TimestampsRead(c, result[<<"timestamps", s>>])
      BY <3>1 DEF Finished, Lines
    <3>3. Near(c) /\ \A i \in DOMAIN c : c[i] # Malformed
      <4>1. Near(c)
        BY <3>2, NearLines
      <4>2. \A i \in DOMAIN c : c[i] # Malformed
        <5> DEFINE r == result[<<"timestamps", s>>]
        <5>1. /\ c \in Seq(CivilTimes) /\ r \in Seq(Int) /\ Len(r) = Len(c)
              /\ \A i \in DOMAIN r : c[i] # Malformed
          BY <3>2 DEF TimestampsRead
        <5> HIDE DEF r, c
        <5>2. DOMAIN r = DOMAIN c
          BY <5>1
        <5> QED BY <5>1, <5>2
      <4> QED BY <4>1, <4>2
    <3>4. ToSet(c) \in All
      BY <3>2, Zenon
    <3> HIDE DEF All, c, found
    <3>5. found(s).time \in ToSet(c) /\ found(s).time # Malformed
      BY <2>1, <3>3 DEF ToSet, c
    <3>6. found(s).time \in (UNION All) \ {Malformed}
      BY <3>4, <3>5
    <3> QED BY <3>3, <3>5, <3>6 DEF Near, All
  <2>5. found("lidar").time - found("image").time \in Width
    <3>1. \A t \in Read("image") \ {Malformed}, u \in Read("lidar") \ {Malformed} :
            u - t \in -Half .. Half - 1
      BY Zenon DEF TimesAreNear
    <3>2. /\ found("image").time \in Read("image") \ {Malformed}
          /\ found("lidar").time \in Read("lidar") \ {Malformed}
      BY <2>2, <2>4
    <3> HIDE DEF found, Read
    <3> QED BY <3>1, <3>2 DEF Width
  <2>6. delta = found("lidar").time - found("image").time
    <3>1. found("lidar").time \in Width /\ found("image").time \in Width
      BY <2>2, <2>4
    <3> HIDE DEF found, delta
    <3> QED BY <2>3, <2>5, <3>1, NanosOfNear
  <2> QED BY <2>1, <2>2, <2>6
<1> QED BY <1>1, Invariance, PTL

\* No step is left behind with something wrong in the data it stands on.
LEMMA BehindIsClean ==
  ASSUME TimesAreNear, IInv, NEW n \in 1..13, Behind(n)
  PROVE  Defects(Script[n]) = {}
<1> DEFINE s == Script[n]
<1>1. ASSUME NEW m \in 1..n PROVE Finished(Script[m], result[Script[m]])
  <2>1. m \in 1..13 /\ Behind(m)
    BY DEF IInv, Behind
  <2> QED BY <2>1 DEF IInv
<1>2. Finished(s, result[s])
  BY <1>1
<1>3. CASE n \in {1, 2, 5, 6, 7, 8}
  <2>1. s[1] \in {"calibration", "directory", "timestamps"} /\ content[s] \in Contents(s) \ {None}
    <3>1. s[1] \in {"calibration", "directory", "timestamps"}
      BY <1>3, PlacesOf
    <3> QED BY <1>2, <3>1 DEF Finished
  <2>2. FileDefects(s) = {}
    <3>1. CASE s[1] = "calibration"
      BY <1>2, <2>1, <3>1 DEF Finished, FileDefects, CalibrationRead
    <3>2. CASE s[1] = "directory"
      BY <1>2, <2>1, <3>2 DEF Finished, FileDefects, DirectoryRead
    <3>3. CASE s[1] = "timestamps"
      <4>1. TimestampsRead(content[s], result[s])
        BY <1>2, <3>3 DEF Finished
      <4>2. \E t \in Streams : s = <<"timestamps", t>>
        <5>1. n \in {7, 8}
          BY <3>3, PlacesOf
        <5> QED BY <5>1, ScriptIs DEF Streams
      <4>3. TimestampDefects(content[s]) = {}
        BY <2>1, <4>1, <4>2, NearLines, TimestampsClean
      <4> QED BY <2>1, <3>3, <4>3 DEF FileDefects
    <3> QED BY <2>1, <3>1, <3>2, <3>3
  <2> QED BY <2>1, <2>2 DEF Defects
<1>4. CASE n = 3
  <2>1. s = <<"assemble", "both">>
    BY <1>4, ScriptIs
  <2> DEFINE Unfit(f) == \E i \in DOMAIN content[<<"calibration", f>>] :
                           /\ content[<<"calibration", f>>][i].key \in Required[f]
                           /\ content[<<"calibration", f>>][i].found = "unfit"
  <2>2. \A f \in {"velo", "camera"} : ~Unfit(f)
    BY <1>2, <2>1 DEF Finished
  <2>3. Defects(s) = { "invalid_calibration" : f \in { f \in {"velo", "camera"} : Unfit(f) } }
    BY <2>1 DEF Defects
  <2> HIDE DEF Unfit
  <2> QED BY <2>2, <2>3
<1>5. CASE n = 4
  <2>1. s = <<"drive", "name">>
    BY <1>5, ScriptIs
  <2> QED BY <1>2, <2>1 DEF Finished, Defects
<1>6. CASE n \in {9, 10, 11, 12}
  <2>1. s[1] \in {"attach", "find"} /\ s[2] \in Streams
    BY <1>6, ScriptIs DEF Streams
  <2>2. Candidates(s[2]) = Files(s[2], content[<<"directory", s[2]>>])
    BY DEF Candidates
  <2>3. CASE s[1] = "attach"
    <3>1. Timed(s[2], content[<<"directory", s[2]>>], content[<<"timestamps", s[2]>>], result[s])
      BY <1>2, <2>3 DEF Finished
    <3>2. Len(Lines(s[2])) = Cardinality(Candidates(s[2]))
      BY <2>2, <3>1 DEF Timed, Lines
    <3> QED BY <2>3, <3>2 DEF Defects
  <2>4. CASE s[1] = "find"
    <3>1. Found(s[2], content[<<"directory", s[2]>>], content[<<"timestamps", s[2]>>], result[s])
      BY <1>2, <2>4 DEF Finished
    <3>2. \E e \in Candidates(s[2]) : Number(e) = request
      BY <2>2, <3>1 DEF Found
    <3> QED BY <2>4, <3>2 DEF Defects
  <2> QED BY <2>1, <2>3, <2>4
<1>7. CASE n = 13
  <2>1. s = <<"picture", "image">>
    BY <1>7, ScriptIs
  <2>2. PICK f \in Candidates("lidar") : Number(f) = request
    <3>1. Finished(Script[12], result[Script[12]])
      BY <1>1, <1>7
    <3>2. Finished(<<"find", "lidar">>, result[<<"find", "lidar">>])
      BY <3>1, ScriptIs
    <3>3. Found("lidar", content[<<"directory", "lidar">>], content[<<"timestamps", "lidar">>],
                result[<<"find", "lidar">>])
      BY <3>2 DEF Finished
    <3> QED BY <3>3 DEF Found, Candidates
  <2>3. \A e \in Candidates("image") : Number(e) = request => Picture(e) = "fine"
    BY <1>2, <2>1, <2>2 DEF Finished
  <2> QED BY <2>1, <2>3 DEF Defects
<1> QED BY <1>3, <1>4, <1>5, <1>6, <1>7

\* A step is left behind only when nothing is wrong with the data it stands on,
\* and a refusal names something that is wrong with them.
THEOREM TruthHolds ==
  ASSUME TimesAreNear
  PROVE  Spec => []RefusalsTellTheTruth
<1>1. ASSUME IInv PROVE RefusalsTellTheTruth
  <2>1. at \in 1..13 /\ (outcome = "loaded" => at = 13)
    BY <1>1 DEF IInv
  <2>2. ASSUME NEW n \in 1..(at - 1) PROVE Defects(Script[n]) = {}
    <3>1. n \in 1..13 /\ Behind(n)
      BY <2>1 DEF Behind
    <3> QED BY <1>1, <3>1, BehindIsClean
  <2>3. ASSUME outcome = "loaded" PROVE Defects(Step) = {}
    <3>1. Behind(at)
      BY <2>3 DEF Behind
    <3> QED BY <1>1, <2>1, <3>1, BehindIsClean DEF Step
  <2>4. outcome \notin {"loading", "loaded"} => outcome \in Defects(Step)
    BY <1>1 DEF IInv
  <2> QED BY <2>2, <2>3, <2>4 DEF RefusalsTellTheTruth
<1> QED BY <1>1, Invariance, PTL

=============================================================================
