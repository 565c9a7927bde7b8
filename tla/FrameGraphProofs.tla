-------------------------- MODULE FrameGraphProofs --------------------------
(***************************************************************************)
(* Proofs about FrameGraph, for every finite set of frames, every group of  *)
(* transforms and every sequence of offered edges.                         *)
(***************************************************************************)
EXTENDS FrameGraph, Integers, FiniteSetTheorems, WellFoundedInduction, TLAPS

-----------------------------------------------------------------------------
(* Induction and recursion over the natural numbers, on sets of numbers     *)

\* A set of numbers that is not empty has a least member.
LEMMA LeastNatural ==
  ASSUME NEW S \in SUBSET Nat, S # {}
  PROVE  \E m \in S : \A n \in S : m <= n
<1>1. PICK x \in S : \A y \in S : <<y, x>> \notin OpToRel(<, Nat)
  BY NatLessThanWellFounded, WFMin
<1>2. \A y \in S : ~(y < x)
  BY <1>1 DEF OpToRel
<1> QED BY <1>2

\* A set that holds 0, and the successor of each of its members up to N, holds
\* every number up to N.
LEMMA CountingUp ==
  ASSUME NEW N \in Nat, NEW S, 0 \in S, \A n \in 0..(N - 1) : n \in S => n + 1 \in S
  PROVE  \A n \in 0..N : n \in S
<1> SUFFICES ASSUME NEW k \in 0..N, k \notin S PROVE FALSE
  OBVIOUS
<1>0. (0..N) \ S \in SUBSET Nat /\ (0..N) \ S # {}
  OBVIOUS
<1>1. PICK m \in (0..N) \ S : \A n \in (0..N) \ S : m <= n
  BY <1>0, LeastNatural
<1>2. m - 1 \in 0..(N - 1) /\ m - 1 \notin (0..N) \ S
  BY <1>1
<1> QED BY <1>1, <1>2

\* f is defined step by step: its value at 0 is a, that at k is G of the one before.
Steps(f, a, N, G) == f[0] = a /\ \A k \in 1..N : f[k] = G[<<f[k - 1], k>>]

\* There is such a function.
LEMMA Stepwise ==
  ASSUME NEW X, NEW a \in X, NEW N \in Nat, NEW G \in [X \X (1..N) -> X]
  PROVE  \E f \in [0..N -> X] : Steps(f, a, N, G)
<1> DEFINE Good(f, n) == f[0] = a /\ \A k \in 1..n : f[k] = G[<<f[k - 1], k>>]
           S == { n \in 0..N : \E f \in [0..n -> X] : Good(f, n) }
<1>1. 0 \in S
  <2>1. [k \in 0..0 |-> a] \in [0..0 -> X] /\ Good([k \in 0..0 |-> a], 0)
    OBVIOUS
  <2>2. \E f \in [0..0 -> X] : Good(f, 0)
    <3> HIDE DEF Good
    <3> QED BY <2>1
  <2> QED BY <2>2
<1>2. ASSUME NEW n \in 0..(N - 1), n \in S PROVE n + 1 \in S
  <2>1. PICK f \in [0..n -> X] : Good(f, n)
    BY <1>2
  <2> DEFINE last == G[<<f[n], n + 1>>]
             g == [k \in 0..(n + 1) |-> IF k <= n THEN f[k] ELSE last]
  <2>2. last \in X
    OBVIOUS
  <2>3. g \in [0..(n + 1) -> X]
    BY <2>2
  <2>4. g[0] = a
    BY <2>1
  <2>5. ASSUME NEW k \in 1..(n + 1) PROVE g[k] = G[<<g[k - 1], k>>]
    <3>1. g[k - 1] = f[k - 1]
      OBVIOUS
    <3>2. CASE k <= n
      BY <2>1, <3>1, <3>2
    <3>3. CASE k = n + 1
      <4>1. g[n + 1] = last /\ g[n] = f[n] /\ k - 1 = n
        BY <3>3
      <4> HIDE DEF g
      <4> QED BY <3>3, <4>1
    <3> QED BY <3>2, <3>3
  <2>6. Good(g, n + 1)
    BY <2>4, <2>5
  <2>7. \E h \in [0..(n + 1) -> X] : Good(h, n + 1)
    <3> HIDE DEF Good, g
    <3> QED BY <2>3, <2>6
  <2> QED BY <2>7
<1>3. N \in S
  <2> HIDE DEF S
  <2>1. \A n \in 0..(N - 1) : n \in S => n + 1 \in S
    BY <1>2
  <2>2. \A n \in 0..N : n \in S
    BY <1>1, <2>1, CountingUp
  <2> QED BY <2>2
<1> QED BY <1>3 DEF Steps

-----------------------------------------------------------------------------
(* Connected parts                                                          *)

LEMMA EdgeType ==
  ASSUME NEW es \in Seq(Edges), NEW i \in DOMAIN es
  PROVE  es[i].target \in Frames /\ es[i].source \in Frames /\ es[i].transform \in Rigid
<1>1. es[i] \in Edges
  OBVIOUS
<1> QED BY <1>1, GroupAssumption DEF Edges

\* Tied picks the least set of frames that holds f and that no edge leaves: there
\* is one, the intersection of all such sets.
LEMMA TiedIsLeast ==
  ASSUME NEW es \in Seq(Edges), NEW f \in Frames
  PROVE  /\ Tied(es, f) \in SUBSET Frames
         /\ f \in Tied(es, f)
         /\ Closed(es, Tied(es, f))
         /\ \A R \in SUBSET Frames : f \in R /\ Closed(es, R) => Tied(es, f) \subseteq R
<1> DEFINE Least(S) == /\ f \in S /\ Closed(es, S)
                       /\ \A R \in SUBSET Frames : f \in R /\ Closed(es, R) => S \subseteq R
           Meet == { g \in Frames : \A R \in SUBSET Frames : f \in R /\ Closed(es, R) => g \in R }
<1>1. Closed(es, Meet)
  <2> SUFFICES ASSUME NEW i \in DOMAIN es
               PROVE  es[i].target \in Meet <=> es[i].source \in Meet
    BY DEF Closed
  <2>1. es[i].target \in Frames /\ es[i].source \in Frames
    BY EdgeType
  <2>2. \A R \in SUBSET Frames : Closed(es, R) => (es[i].target \in R <=> es[i].source \in R)
    BY DEF Closed
  <2> QED BY <2>1, <2>2
<1>2. Meet \in SUBSET Frames /\ Least(Meet)
  BY <1>1
<1>3. \E S \in SUBSET Frames : Least(S)
  <2> HIDE DEF Least, Meet
  <2> QED BY <1>2
<1>4. Tied(es, f) = CHOOSE S \in SUBSET Frames : Least(S)
  BY DEF Tied
<1>5. Tied(es, f) \in SUBSET Frames /\ Least(Tied(es, f))
  <2> HIDE DEF Least
  <2> QED BY <1>3, <1>4
<1> QED BY <1>5

\* The parts are disjoint: a frame tied to f is tied to the same frames as f.
LEMMA SamePart ==
  ASSUME NEW es \in Seq(Edges), NEW f \in Frames, NEW g \in Tied(es, f)
  PROVE  g \in Frames /\ Tied(es, g) = Tied(es, f)
<1>1. g \in Frames
  BY TiedIsLeast
<1>2. Tied(es, g) \subseteq Tied(es, f)
  BY <1>1, TiedIsLeast
<1>3. f \in Tied(es, g)
  <2> SUFFICES ASSUME f \notin Tied(es, g) PROVE FALSE
    OBVIOUS
  <2> DEFINE Rest == Tied(es, f) \ Tied(es, g)
  <2>1. Closed(es, Rest)
    <3>1. Closed(es, Tied(es, f)) /\ Closed(es, Tied(es, g))
      BY <1>1, TiedIsLeast
    <3> QED BY <3>1 DEF Closed
  <2>2. Rest \in SUBSET Frames /\ f \in Rest
    BY TiedIsLeast
  <2>3. Tied(es, f) \subseteq Rest
    <3> HIDE DEF Rest
    <3> QED BY <2>1, <2>2, TiedIsLeast
  <2>4. g \in Tied(es, g)
    BY <1>1, TiedIsLeast
  <2> QED BY <2>3, <2>4
<1>4. Tied(es, f) \subseteq Tied(es, g)
  BY <1>1, <1>3, TiedIsLeast
<1> QED BY <1>1, <1>2, <1>4

-----------------------------------------------------------------------------
(* The breadth-first search                                                 *)

\* The searches that a lookup can be in: every queued frame has been visited.
PartialMaps == UNION { [D -> Rigid] : D \in SUBSET Frames }
Pending(s) == { s.frontier[i] : i \in DOMAIN s.frontier }
Searches == { s \in [frontier : Seq(Frames), visited : PartialMaps] :
                Pending(s) \subseteq DOMAIN s.visited }

\* What is visited is tied to the source, by the transform of every placement.
Sound(es, source, s) ==
  /\ s \in Searches
  /\ source \in DOMAIN s.visited
  /\ DOMAIN s.visited \subseteq Tied(es, source)
  /\ \A p \in Placements(es) : \A g \in DOMAIN s.visited :
       s.visited[g] = Compose(p[g], Invert(p[source]))

\* From s to t only frames were added, each to the queue as well.
Grown(s, t) ==
  /\ DOMAIN s.visited \subseteq DOMAIN t.visited
  /\ Pending(s) \subseteq Pending(t)
  /\ DOMAIN t.visited \subseteq DOMAIN s.visited \union Pending(t)
  /\ Cardinality(DOMAIN t.visited) + Len(s.frontier)
       = Cardinality(DOMAIN s.visited) + Len(t.frontier)

\* The frames that edge e leads to from f are visited.
Seen(e, f, s) == Touches(e, f) => Neighbor(e, f) \in DOMAIN s.visited

LEMMA PartialMapType ==
  ASSUME NEW v
  PROVE  v \in PartialMaps <=> /\ DOMAIN v \in SUBSET Frames
                               /\ v \in [DOMAIN v -> Rigid]
<1>1. ASSUME v \in PartialMaps PROVE DOMAIN v \in SUBSET Frames /\ v \in [DOMAIN v -> Rigid]
  <2>1. PICK D \in SUBSET Frames : v \in [D -> Rigid]
    BY <1>1 DEF PartialMaps
  <2> QED BY <2>1
<1>2. ASSUME DOMAIN v \in SUBSET Frames, v \in [DOMAIN v -> Rigid] PROVE v \in PartialMaps
  BY <1>2 DEF PartialMaps
<1> QED BY <1>1, <1>2

\* Going along an edge, in either direction, multiplies every placement by Crossing.
LEMMA CrossingMoves ==
  ASSUME NEW es \in Seq(Edges), NEW j \in DOMAIN es, NEW f \in Frames, Touches(es[j], f)
  PROVE  /\ Neighbor(es[j], f) \in Frames
         /\ Crossing(es[j], f) \in Rigid
         /\ \A p \in Placements(es) : p[Neighbor(es[j], f)] = Compose(Crossing(es[j], f), p[f])
<1> DEFINE e == es[j]
<1>1. e.target \in Frames /\ e.source \in Frames /\ e.transform \in Rigid
  BY EdgeType
<1>2. Neighbor(e, f) \in Frames /\ Crossing(e, f) \in Rigid
  BY <1>1, GroupAssumption DEF Neighbor, Crossing
<1>3. ASSUME NEW p \in Placements(es) PROVE p[Neighbor(e, f)] = Compose(Crossing(e, f), p[f])
  <2>1. p \in [Frames -> Rigid] /\ p[e.target] = Compose(e.transform, p[e.source])
    BY DEF Placements
  <2>2. CASE e.source = f
    BY <2>1, <2>2 DEF Neighbor, Crossing
  <2>3. CASE e.source # f
    <3>1. e.target = f
      BY <2>3 DEF Touches
    <3> DEFINE q == p[e.source]
    <3>2. q \in Rigid
      BY <1>1, <2>1
    <3>3. Compose(Invert(e.transform), Compose(e.transform, q)) = q
      <4> HIDE DEF q, e
      <4>1. Compose(Invert(e.transform), Compose(e.transform, q))
              = Compose(Compose(Invert(e.transform), e.transform), q)
        BY <1>1, <3>2, GroupAssumption
      <4> QED BY <1>1, <3>2, <4>1, GroupAssumption
    <3> QED BY <2>1, <2>3, <3>1, <3>3 DEF Neighbor, Crossing
  <2> QED BY <2>2, <2>3
<1> QED BY <1>2, <1>3

\* One edge: the search stays sound, only grows, and has seen the edge.
LEMMA FollowStep ==
  ASSUME NEW es \in Seq(Edges), NEW source \in Frames, NEW j \in DOMAIN es,
         NEW s, Sound(es, source, s), NEW f \in DOMAIN s.visited
  PROVE  LET t == Follow(s, es[j], f)
         IN  /\ Sound(es, source, t)
             /\ Grown(s, t)
             /\ Seen(es[j], f, t)
<1> DEFINE e == es[j]
           n == Neighbor(e, f)
           t == Follow(s, e, f)
<1>1. /\ s.frontier \in Seq(Frames) /\ Pending(s) \subseteq DOMAIN s.visited
      /\ DOMAIN s.visited \in SUBSET Frames /\ s.visited \in [DOMAIN s.visited -> Rigid]
      /\ f \in Frames
  BY PartialMapType DEF Sound, Searches
<1>2. CASE ~Touches(e, f) \/ n \in DOMAIN s.visited
  <2>1. t = s
    BY <1>2 DEF Follow
  <2>2. Grown(s, s)
    BY <1>1, FS_Subset, FS_CardinalityType, FramesAreFinite DEF Grown
  <2> QED BY <1>2, <2>1, <2>2 DEF Seen
<1>3. CASE Touches(e, f) /\ n \notin DOMAIN s.visited
  <2>1. /\ t.frontier = Append(s.frontier, n)
        /\ t.visited = Extend(s.visited, e, f)
        /\ t = [frontier |-> Append(s.frontier, n), visited |-> Extend(s.visited, e, f)]
    BY <1>3 DEF Follow
  <2>2. n \in Frames /\ Crossing(e, f) \in Rigid
    BY <1>1, <1>3, CrossingMoves
  <2>3. /\ DOMAIN t.visited = DOMAIN s.visited \union {n}
        /\ t.visited[n] = Compose(Crossing(e, f), s.visited[f])
        /\ \A g \in DOMAIN s.visited : t.visited[g] = s.visited[g]
    BY <1>3, <2>1 DEF Extend
  <2>4. t.visited \in PartialMaps
    <3>1. Compose(Crossing(e, f), s.visited[f]) \in Rigid
      BY <1>1, <2>2, GroupAssumption
    <3>2. t.visited \in [DOMAIN s.visited \union {n} -> Rigid]
      BY <1>1, <1>3, <2>1, <3>1 DEF Extend
    <3>3. DOMAIN s.visited \union {n} \in SUBSET Frames
      BY <1>1, <2>2
    <3> HIDE DEF n, t, e
    <3> QED BY <3>2, <3>3 DEF PartialMaps
  <2>5. Pending(t) = Pending(s) \union {n} /\ Len(t.frontier) = Len(s.frontier) + 1
    <3> HIDE DEF n, t, e
    <3>1. /\ Len(t.frontier) = Len(s.frontier) + 1
          /\ DOMAIN t.frontier = DOMAIN s.frontier \union {Len(s.frontier) + 1}
          /\ t.frontier[Len(s.frontier) + 1] = n
          /\ \A i \in DOMAIN s.frontier : t.frontier[i] = s.frontier[i]
      BY <1>1, <2>1, <2>2
    <3> QED BY <3>1 DEF Pending
  <2>6. t \in Searches
    <3>1. t.frontier \in Seq(Frames)
      BY <1>1, <2>1, <2>2
    <3> QED BY <1>1, <2>1, <2>3, <2>4, <2>5, <3>1 DEF Searches
  <2>7. n \in Tied(es, source)
    <3>1. f \in Tied(es, source) /\ Closed(es, Tied(es, source))
      BY TiedIsLeast DEF Sound
    <3> QED BY <1>3, <3>1 DEF Closed, Touches, Neighbor
  <2>8. ASSUME NEW p \in Placements(es), NEW g \in DOMAIN t.visited
        PROVE  t.visited[g] = Compose(p[g], Invert(p[source]))
    <3>1. CASE g \in DOMAIN s.visited
      BY <2>3, <3>1 DEF Sound
    <3>2. CASE g = n
      <4>1. p \in [Frames -> Rigid] /\ p[n] = Compose(Crossing(e, f), p[f])
        BY <1>1, <1>3, CrossingMoves DEF Placements
      <4>2. s.visited[f] = Compose(p[f], Invert(p[source]))
        BY DEF Sound
      <4> DEFINE c == Crossing(e, f)
                 back == Invert(p[source])
      <4>3. c \in Rigid /\ p[f] \in Rigid /\ back \in Rigid
        BY <1>1, <2>2, <4>1, GroupAssumption
      <4>4. Compose(c, Compose(p[f], back)) = Compose(Compose(c, p[f]), back)
        <5> HIDE DEF c, back
        <5> QED BY <4>3, GroupAssumption
      <4> QED BY <2>3, <3>2, <4>1, <4>2, <4>4
    <3> QED BY <2>3, <3>1, <3>2
  <2>9. Sound(es, source, t)
    <3> HIDE DEF n, t, e
    <3> QED BY <2>3, <2>6, <2>7, <2>8 DEF Sound
  <2>10. Cardinality(DOMAIN t.visited) = Cardinality(DOMAIN s.visited) + 1
    <3>1. IsFiniteSet(DOMAIN s.visited) /\ Cardinality(DOMAIN s.visited) \in Nat
      BY <1>1, FS_Subset, FS_CardinalityType, FramesAreFinite
    <3>2. Cardinality(DOMAIN s.visited \union {n}) = Cardinality(DOMAIN s.visited) + 1
      <4> DEFINE D == DOMAIN s.visited
      <4>1. IsFiniteSet(D) /\ n \notin D
        BY <1>3, <3>1
      <4>2. Cardinality(D \union {n}) = Cardinality(D) + 1
        <5> HIDE DEF D, n
        <5> QED BY <4>1, FS_AddElement
      <4> QED BY <4>2
    <3> QED BY <2>3, <3>2
  <2>11. Grown(s, t)
    <3>1. Cardinality(DOMAIN s.visited) \in Nat
      BY <1>1, FS_Subset, FS_CardinalityType, FramesAreFinite
    <3> HIDE DEF n, t, e
    <3> DEFINE C(x) == Cardinality(DOMAIN x.visited)
               L(x) == Len(x.frontier)
    <3>2. L(s) \in Nat /\ C(s) \in Nat /\ L(t) = L(s) + 1 /\ C(t) = C(s) + 1
      BY <1>1, <2>5, <2>10, <3>1
    <3>3. C(t) + L(s) = C(s) + L(t)
      <4> HIDE DEF C, L
      <4> QED BY <3>2
    <3> QED BY <2>3, <2>5, <3>3 DEF Grown
  <2> QED BY <2>3, <2>9, <2>11 DEF Seen
<1> QED BY <1>2, <1>3

LEMMA SearchSize ==
  ASSUME NEW s \in Searches
  PROVE  Cardinality(DOMAIN s.visited) \in Nat /\ Len(s.frontier) \in Nat
<1>1. DOMAIN s.visited \in SUBSET Frames /\ s.frontier \in Seq(Frames)
  BY PartialMapType DEF Searches
<1>2. IsFiniteSet(DOMAIN s.visited)
  BY <1>1, FS_Subset, FramesAreFinite
<1> QED BY <1>1, <1>2, FS_CardinalityType

LEMMA GrownTwice ==
  ASSUME NEW s \in Searches, NEW t \in Searches, NEW u \in Searches, Grown(s, t), Grown(t, u)
  PROVE  Grown(s, u)
<1> DEFINE C(x) == Cardinality(DOMAIN x.visited)
           L(x) == Len(x.frontier)
<1>1. C(s) \in Nat /\ C(t) \in Nat /\ C(u) \in Nat /\ L(s) \in Nat /\ L(t) \in Nat /\ L(u) \in Nat
  BY SearchSize
<1>2. C(t) + L(s) = C(s) + L(t) /\ C(u) + L(t) = C(t) + L(u)
  BY DEF Grown
<1>3. C(u) + L(s) = C(s) + L(u)
  <2> HIDE DEF C, L
  <2> QED BY <1>1, <1>2
<1> QED BY <1>3 DEF Grown

\* A turn of the search, with the front of the queue taken off.
Popped(s) == [frontier |-> Tail(s.frontier), visited |-> s.visited]

\* The frame that is looked at is pending no more; nothing else is lost.
LEMMA PoppedStep ==
  ASSUME NEW es \in Seq(Edges), NEW source \in Frames,
         NEW s, Sound(es, source, s), s.frontier # <<>>
  PROVE  /\ Sound(es, source, Popped(s))
         /\ Head(s.frontier) \in DOMAIN s.visited
         /\ Pending(s) = Pending(Popped(s)) \union {Head(s.frontier)}
         /\ Len(s.frontier) = Len(Popped(s).frontier) + 1
<1> DEFINE q == s.frontier
<1>1. q \in Seq(Frames) /\ Pending(s) \subseteq DOMAIN s.visited /\ s \in Searches
  BY DEF Sound, Searches
<1>2. Popped(s).frontier = Tail(q) /\ Popped(s).visited = s.visited
  BY DEF Popped
<1>3. /\ Tail(q) \in Seq(Frames) /\ Len(q) = Len(Tail(q)) + 1 /\ Len(q) \in Nat \ {0}
      /\ DOMAIN q = 1..Len(q) /\ DOMAIN Tail(q) = 1..(Len(q) - 1)
      /\ Head(q) = q[1] /\ \A i \in 1..(Len(q) - 1) : Tail(q)[i] = q[i + 1]
  BY <1>1
<1>4. { q[i] : i \in DOMAIN q } = { Tail(q)[i] : i \in DOMAIN Tail(q) } \union {Head(q)}
  <2>1. ASSUME NEW i \in DOMAIN q
        PROVE  q[i] = Head(q) \/ \E k \in DOMAIN Tail(q) : Tail(q)[k] = q[i]
    <3>1. CASE i = 1
      BY <1>3, <3>1
    <3>2. CASE i # 1
      <4>1. i - 1 \in DOMAIN Tail(q) /\ Tail(q)[i - 1] = q[i]
        BY <1>3, <3>2
      <4> QED BY <4>1
    <3> QED BY <3>1, <3>2
  <2>2. ASSUME NEW k \in DOMAIN Tail(q) PROVE \E i \in DOMAIN q : q[i] = Tail(q)[k]
    <3>1. k + 1 \in DOMAIN q /\ q[k + 1] = Tail(q)[k]
      BY <1>3
    <3> QED BY <3>1
  <2>3. \E i \in DOMAIN q : q[i] = Head(q)
    BY <1>3
  <2> HIDE DEF q
  <2> QED BY <2>1, <2>2, <2>3
<1>5. Pending(s) = Pending(Popped(s)) \union {Head(q)}
  BY <1>2, <1>4 DEF Pending
<1>6. Popped(s) \in Searches
  <2>1. Pending(Popped(s)) \subseteq DOMAIN s.visited /\ s.visited \in PartialMaps
    BY <1>1, <1>5 DEF Searches
  <2> QED BY <1>2, <1>3, <2>1 DEF Searches, Popped
<1> QED BY <1>1, <1>2, <1>3, <1>5, <1>6 DEF Sound

LEMMA TurnStep ==
  ASSUME NEW es \in Seq(Edges), NEW source \in Frames,
         NEW s, Sound(es, source, s), s.frontier # <<>>
  PROVE  LET t == Turn(es, s)
         IN  /\ Sound(es, source, t)
             /\ Grown(Popped(s), t)
             /\ \A j \in DOMAIN es : Seen(es[j], Head(s.frontier), t)
<1> DEFINE f == Head(s.frontier)
           N == Len(es)
           X == { x \in Searches : Sound(es, source, x) /\ f \in DOMAIN x.visited }
           G == [p \in X \X (1..N) |-> Follow(p[1], es[p[2]], f)]
           looked == CHOOSE g : g = [k \in 0..N |-> IF k = 0 THEN Popped(s)
                                                    ELSE Follow(g[k - 1], es[k], f)]
<1>1. Popped(s) \in X
  BY PoppedStep DEF Sound, Popped
<1>2. N \in Nat /\ DOMAIN es = 1..N
  OBVIOUS
<1>3. ASSUME NEW x \in X, NEW j \in 1..N
      PROVE  Follow(x, es[j], f) \in X /\ Grown(x, Follow(x, es[j], f))
             /\ Seen(es[j], f, Follow(x, es[j], f))
  <2>1. j \in DOMAIN es /\ Sound(es, source, x) /\ f \in DOMAIN x.visited
    BY <1>2
  <2> DEFINE y == Follow(x, es[j], f)
  <2>2. Sound(es, source, y) /\ Grown(x, y) /\ Seen(es[j], f, y)
    BY <2>1, FollowStep
  <2>3. y \in X
    <3> HIDE DEF y, f
    <3> QED BY <2>1, <2>2 DEF Sound, Grown
  <2> HIDE DEF X, f
  <2> QED BY <2>2, <2>3
<1>4. looked = [k \in 0..N |-> IF k = 0 THEN Popped(s) ELSE Follow(looked[k - 1], es[k], f)]
  <2>1. G \in [X \X (1..N) -> X]
    <3> HIDE DEF X, N, f
    <3> QED BY <1>3
  <2>2. PICK g \in [0..N -> X] : Steps(g, Popped(s), N, G)
    <3> HIDE DEF X, N, G
    <3> QED BY <1>1, <1>2, <2>1, Stepwise
  <2>3. \A k \in 1..N : G[<<g[k - 1], k>>] = Follow(g[k - 1], es[k], f)
    <3> HIDE DEF X, f
    <3> QED BY <1>2
  <2>4. g = [k \in 0..N |-> IF k = 0 THEN Popped(s) ELSE Follow(g[k - 1], es[k], f)]
    <3>1. \A k \in 0..N : g[k] = IF k = 0 THEN Popped(s) ELSE Follow(g[k - 1], es[k], f)
      <4> HIDE DEF X, G, f, N
      <4>1. \A k \in 1..N : g[k] = Follow(g[k - 1], es[k], f)
        BY <2>2, <2>3 DEF Steps
      <4>2. g[0] = Popped(s)
        BY <2>2 DEF Steps
      <4> QED BY <1>2, <4>1, <4>2
    <3> HIDE DEF X, G, f, N
    <3> QED BY <3>1
  <2> HIDE DEF X, G, f, N
  <2> QED BY <2>4
<1> DEFINE S == { k \in 0..N : /\ looked[k] \in X
                               /\ Grown(Popped(s), looked[k])
                               /\ \A j \in 1..k : Seen(es[j], f, looked[k]) }
<1>5. 0 \in S
  <2>1. looked[0] = Popped(s)
    <3> HIDE DEF looked, N
    <3> QED BY <1>2, <1>4
  <2>2. Grown(Popped(s), Popped(s))
    <3>1. Popped(s) \in Searches
      BY <1>1
    <3> QED BY <3>1, SearchSize DEF Grown
  <2> HIDE DEF looked, X, f
  <2> QED BY <1>1, <1>2, <2>1, <2>2
<1>6. ASSUME NEW k \in 0..(N - 1), k \in S PROVE k + 1 \in S
  <2>1. k + 1 \in 1..N /\ k \in 0..N
    BY <1>2
  <2>2. looked[k + 1] = Follow(looked[k], es[k + 1], f)
    <3> HIDE DEF looked, N, f, S
    <3> QED BY <1>2, <1>4, <2>1
  <2>3. looked[k] \in X /\ Grown(Popped(s), looked[k]) /\ \A j \in 1..k : Seen(es[j], f, looked[k])
    BY <1>6
  <2> HIDE DEF looked, N, f
  <2>4. looked[k + 1] \in X /\ Grown(looked[k], looked[k + 1]) /\ Seen(es[k + 1], f, looked[k + 1])
    <3> HIDE DEF X
    <3> QED BY <1>3, <2>1, <2>2, <2>3
  <2>5. Grown(Popped(s), looked[k + 1])
    BY <1>1, <2>3, <2>4, GrownTwice
  <2>6. ASSUME NEW j \in 1..(k + 1) PROVE Seen(es[j], f, looked[k + 1])
    <3>1. CASE j = k + 1
      BY <2>4, <3>1
    <3>2. CASE j \in 1..k
      BY <2>3, <2>4, <3>2 DEF Seen, Grown
    <3> QED BY <3>1, <3>2, <2>1
  <2> QED BY <2>1, <2>4, <2>5, <2>6
<1>7. N \in S
  <2> HIDE DEF S, N
  <2>1. \A n \in 0..(N - 1) : n \in S => n + 1 \in S
    BY <1>6
  <2>2. \A n \in 0..N : n \in S
    BY <1>2, <1>5, <2>1, CountingUp
  <2> QED BY <1>2, <2>2
<1>8. Turn(es, s) = looked[N]
  BY DEF Turn, Popped
<1> QED
  <2>1. looked[N] \in X /\ Grown(Popped(s), looked[N]) /\ \A j \in 1..N : Seen(es[j], f, looked[N])
    BY <1>7
  <2>2. \A j \in DOMAIN es : Seen(es[j], f, looked[N])
    BY <1>2, <2>1
  <2>3. Sound(es, source, looked[N])
    BY <2>1
  <2> HIDE DEF looked, N, X
  <2> QED BY <1>8, <2>1, <2>2, <2>3

\* Every visited frame that is not pending has had all its edges looked at.
Explored(es, s) ==
  \A g \in DOMAIN s.visited \ Pending(s) : \A j \in DOMAIN es : Seen(es[j], g, s)

LEMMA TurnExplores ==
  ASSUME NEW es \in Seq(Edges), NEW source \in Frames,
         NEW s, Sound(es, source, s), s.frontier # <<>>, Explored(es, s)
  PROVE  LET t == Turn(es, s)
         IN  /\ Explored(es, t)
             /\ Cardinality(DOMAIN t.visited) + Len(s.frontier)
                  = Cardinality(DOMAIN s.visited) + Len(t.frontier) + 1
<1> DEFINE t == Turn(es, s)
           f == Head(s.frontier)
<1>1. /\ Sound(es, source, t) /\ Grown(Popped(s), t)
      /\ \A j \in DOMAIN es : Seen(es[j], f, t)
  BY TurnStep
<1>2. /\ Pending(s) = Pending(Popped(s)) \union {f}
      /\ Len(s.frontier) = Len(Popped(s).frontier) + 1
      /\ Popped(s).visited = s.visited /\ Popped(s) \in Searches /\ t \in Searches
  <2>1. /\ Pending(s) = Pending(Popped(s)) \union {f}
        /\ Len(s.frontier) = Len(Popped(s).frontier) + 1
        /\ Sound(es, source, Popped(s))
    BY PoppedStep
  <2>2. Popped(s).visited = s.visited
    BY DEF Popped
  <2> HIDE DEF t, f
  <2> QED BY <1>1, <2>1, <2>2 DEF Sound
<1> HIDE DEF t, f
<1>3. Explored(es, t)
  <2> SUFFICES ASSUME NEW g \in DOMAIN t.visited, g \notin Pending(t), NEW j \in DOMAIN es
               PROVE  Seen(es[j], g, t)
    BY DEF Explored
  <2>1. g \in DOMAIN s.visited /\ g \notin Pending(Popped(s))
    BY <1>1, <1>2 DEF Grown
  <2>2. CASE g = f
    BY <1>1, <2>2
  <2>3. CASE g # f
    <3>1. Seen(es[j], g, s)
      BY <1>2, <2>1, <2>3 DEF Explored
    <3> QED BY <1>1, <1>2, <3>1 DEF Seen, Grown
  <2> QED BY <2>2, <2>3
<1>4. Cardinality(DOMAIN t.visited) + Len(s.frontier)
        = Cardinality(DOMAIN s.visited) + Len(t.frontier) + 1
  <2>1. Cardinality(DOMAIN t.visited) + Len(Popped(s).frontier)
          = Cardinality(DOMAIN s.visited) + Len(t.frontier)
    BY <1>1, <1>2 DEF Grown
  <2>2. Cardinality(DOMAIN t.visited) \in Nat /\ Len(t.frontier) \in Nat
    BY <1>2, SearchSize
  <2>3. Cardinality(DOMAIN s.visited) \in Nat /\ Len(Popped(s).frontier) \in Nat
    BY <1>2, SearchSize
  <2> QED BY <1>2, <2>1, <2>2, <2>3
<1> QED BY <1>3, <1>4 DEF t

\* The search starts sound, with its source as the one pending frame.
LEMMA StartedIsSound ==
  ASSUME NEW es \in Seq(Edges), NEW source \in Frames
  PROVE  /\ Sound(es, source, Started(source))
         /\ Explored(es, Started(source))
         /\ Cardinality(DOMAIN Started(source).visited) = 1
         /\ Len(Started(source).frontier) = 1
<1> DEFINE s == Started(source)
<1>1. /\ s.frontier = <<source>> /\ s.visited = [f \in {source} |-> One]
      /\ s = [frontier |-> <<source>>, visited |-> [f \in {source} |-> One]]
  BY DEF Started
<1>2. Pending(s) = {source}
  BY <1>1 DEF Pending
<1>3. s.visited \in PartialMaps
  BY <1>1, PartialMapType, GroupAssumption
<1>4. s \in Searches
  BY <1>1, <1>2, <1>3 DEF Searches
<1>5. source \in Tied(es, source)
  BY TiedIsLeast
<1>6. ASSUME NEW p \in Placements(es) PROVE One = Compose(p[source], Invert(p[source]))
  BY GroupAssumption DEF Placements
<1> HIDE DEF s
<1>7. Sound(es, source, s)
  BY <1>1, <1>4, <1>5, <1>6 DEF Sound
<1>8. Cardinality(DOMAIN s.visited) = 1 /\ Len(s.frontier) = 1
  BY <1>1, FS_Singleton
<1> QED BY <1>1, <1>2, <1>7, <1>8 DEF Explored, s

\* lookup's search visits exactly the frames tied to the source, each with the
\* transform that every placement of the frames gives it.
LEMMA ReachedIsTied ==
  ASSUME NEW es \in Seq(Edges), NEW source \in Frames
  PROVE  LET v == Reached(es, source)
         IN  /\ DOMAIN v = Tied(es, source)
             /\ \A f \in Tied(es, source) : v[f] \in Rigid
             /\ \A p \in Placements(es) : \A f \in Tied(es, source) :
                  v[f] = Compose(p[f], Invert(p[source]))
<1> DEFINE N == Cardinality(Frames)
           X == { x \in Searches : Sound(es, source, x) }
           Advance(x) == IF x.frontier = <<>> THEN x ELSE Turn(es, x)
           G == [p \in X \X (1..N) |-> Advance(p[1])]
           after == CHOOSE g : g = [n \in 0..N |->
                      IF n = 0 THEN Started(source)
                      ELSE IF g[n - 1].frontier = <<>> THEN g[n - 1] ELSE Turn(es, g[n - 1])]
<1>1. N \in Nat
  BY FS_CardinalityType, FramesAreFinite
<1>2. Started(source) \in X
  BY StartedIsSound DEF Sound
<1>3. ASSUME NEW x \in X PROVE Advance(x) \in X
  BY TurnStep DEF Sound
<1>4. after = [n \in 0..N |-> IF n = 0 THEN Started(source) ELSE Advance(after[n - 1])]
  <2>1. G \in [X \X (1..N) -> X]
    <3> HIDE DEF X, N, Advance
    <3> QED BY <1>3
  <2>2. PICK g \in [0..N -> X] : Steps(g, Started(source), N, G)
    <3> HIDE DEF X, N, G
    <3> QED BY <1>1, <1>2, <2>1, Stepwise
  <2>3. \A n \in 1..N : G[<<g[n - 1], n>>] = Advance(g[n - 1])
    <3> HIDE DEF X, N, Advance
    <3> QED BY <1>1
  <2>4. \A n \in 0..N : g[n] = IF n = 0 THEN Started(source) ELSE Advance(g[n - 1])
    <3> HIDE DEF X, G, Advance, N
    <3>1. \A n \in 1..N : g[n] = Advance(g[n - 1])
      BY <2>2, <2>3 DEF Steps
    <3>2. g[0] = Started(source)
      BY <2>2 DEF Steps
    <3> QED BY <1>1, <3>1, <3>2
  <2>5. g = [n \in 0..N |-> IF n = 0 THEN Started(source) ELSE Advance(g[n - 1])]
    <3> HIDE DEF X, G, Advance, N
    <3> QED BY <2>4
  <2> HIDE DEF X, G, N
  <2> QED BY <2>5
<1> DEFINE C(x) == Cardinality(DOMAIN x.visited)
           L(x) == Len(x.frontier)
           S == { n \in 0..N : /\ after[n] \in X /\ Explored(es, after[n])
                               /\ after[n].frontier = <<>>
                                  \/ C(after[n]) = n + L(after[n]) }
<1>5. 0 \in S
  <2>1. after[0] = Started(source)
    <3> HIDE DEF after, N, Advance
    <3> QED BY <1>1, <1>4
  <2>2. C(Started(source)) = 0 + L(Started(source))
    <3>1. C(Started(source)) = 1 /\ L(Started(source)) = 1
      BY StartedIsSound
    <3> HIDE DEF C, L
    <3> QED BY <3>1
  <2>3. Explored(es, Started(source))
    BY StartedIsSound
  <2> HIDE DEF after, X, C, L, N
  <2> QED BY <1>1, <1>2, <2>1, <2>2, <2>3
<1>6. ASSUME NEW n \in 0..(N - 1), n \in S PROVE n + 1 \in S
  <2> DEFINE x == after[n]
             y == after[n + 1]
  <2>1. n + 1 \in 1..N /\ n \in 0..N
    BY <1>1
  <2>2. y = Advance(x)
    <3> HIDE DEF after, N, S, Advance
    <3> QED BY <1>1, <1>4, <2>1
  <2>3. /\ x \in X /\ Explored(es, x)
        /\ x.frontier = <<>> \/ C(x) = n + L(x)
    BY <1>6
  <2> HIDE DEF x, y, N, after
  <2>4. y \in X
    <3> HIDE DEF X, Advance
    <3> QED BY <1>3, <2>2, <2>3
  <2>5. Explored(es, y) /\ (y.frontier = <<>> \/ C(y) = n + 1 + L(y))
    <3>1. CASE x.frontier = <<>>
      BY <2>2, <2>3, <3>1
    <3>2. CASE x.frontier # <<>>
      <4>1. y = Turn(es, x) /\ Sound(es, source, x)
        BY <2>2, <2>3, <3>2
      <4>2. Explored(es, y) /\ C(y) + L(x) = C(x) + L(y) + 1
        BY <2>3, <3>2, <4>1, TurnExplores
      <4>3. C(x) \in Nat /\ C(y) \in Nat /\ L(x) \in Nat /\ L(y) \in Nat
        BY <2>3, <2>4, SearchSize
      <4>4. n \in Nat
        BY <2>1
      <4>5. C(x) = n + L(x)
        BY <2>3, <3>2
      <4>6. C(y) = n + 1 + L(y)
        <5> DEFINE c == C(x)  d == C(y)  k == L(x)  l == L(y)
        <5>1. d + k = c + l + 1
          BY <4>2
        <5>2. c = n + k /\ c \in Nat /\ d \in Nat /\ k \in Nat /\ l \in Nat
          BY <4>3, <4>5
        <5>3. d = n + 1 + l
          <6> HIDE DEF c, d, k, l
          <6> QED BY <4>4, <5>1, <5>2
        <5> QED BY <5>3
      <4> QED BY <4>2, <4>6
    <3> QED BY <3>1, <3>2
  <2> QED BY <2>1, <2>4, <2>5 DEF y
<1>7. N \in S
  <2> HIDE DEF S, N
  <2>1. \A n \in 0..(N - 1) : n \in S => n + 1 \in S
    BY <1>6
  <2>2. \A n \in 0..N : n \in S
    BY <1>1, <1>5, <2>1, CountingUp
  <2> QED BY <1>1, <2>2
<1> DEFINE last == after[N]
<1>8. Reached(es, source) = last.visited
  BY DEF Reached
<1>9. /\ last \in Searches /\ Sound(es, source, last) /\ Explored(es, last)
      /\ last.frontier = <<>> \/ C(last) = N + L(last)
  BY <1>7
<1> HIDE DEF last
<1>10. last.frontier = <<>>
  <2>1. C(last) <= N
    <3>1. DOMAIN last.visited \in SUBSET Frames
      BY <1>9, PartialMapType DEF Searches
    <3> QED BY <3>1, FS_Subset, FramesAreFinite
  <2>2. C(last) \in Nat /\ last.frontier \in Seq(Frames)
    BY <1>9, SearchSize DEF Searches
  <2> HIDE DEF C, N
  <2> QED BY <1>1, <1>9, <2>1, <2>2
<1>11. DOMAIN last.visited = Tied(es, source)
  <2> DEFINE D == DOMAIN last.visited
  <2>1. Pending(last) = {}
    BY <1>10 DEF Pending
  <2>2. Closed(es, D)
    <3> SUFFICES ASSUME NEW i \in DOMAIN es PROVE es[i].target \in D <=> es[i].source \in D
      BY DEF Closed
    <3>1. \A g \in D : Seen(es[i], g, last)
      BY <1>9, <2>1 DEF Explored
    <3> HIDE DEF D
    <3> QED BY <3>1 DEF Seen, Touches, Neighbor, D
  <2>3. D \in SUBSET Frames /\ source \in D
    BY <1>9, PartialMapType DEF Searches, Sound
  <2>4. Tied(es, source) \subseteq D
    <3> HIDE DEF D
    <3> QED BY <2>2, <2>3, TiedIsLeast
  <2> QED BY <1>9, <2>4 DEF Sound
<1>12. last.visited \in [Tied(es, source) -> Rigid]
  BY <1>9, <1>11, PartialMapType DEF Searches
<1> QED BY <1>8, <1>9, <1>11, <1>12 DEF Sound

-----------------------------------------------------------------------------
(* The table of lookups                                                     *)

LEMMA PlacementType ==
  ASSUME NEW es \in Seq(Edges), NEW p \in Placements(es), NEW f \in Frames
  PROVE  p[f] \in Rigid /\ Invert(p[f]) \in Rigid
<1>1. p[f] \in Rigid
  BY DEF Placements
<1> QED BY <1>1, GroupAssumption

\* Between two placed frames.
Between(p, a, b) == Compose(p[a], Invert(p[b]))

LEMMA BetweenComposes ==
  ASSUME NEW es \in Seq(Edges), NEW p \in Placements(es),
         NEW a \in Frames, NEW b \in Frames, NEW c \in Frames
  PROVE  /\ Between(p, a, b) \in Rigid /\ Between(p, a, b) # None
         /\ Between(p, a, a) = One
         /\ Between(p, a, c) = Compose(Between(p, a, b), Between(p, b, c))
         /\ Between(p, b, a) = Invert(Between(p, a, b))
         /\ \A t \in Rigid : Between(p, a, b) = t <=> p[a] = Compose(t, p[b])
<1> DEFINE x == p[a]  y == p[b]  z == p[c]
<1>1. x \in Rigid /\ y \in Rigid /\ z \in Rigid
  BY PlacementType
<1>2. Invert(x) \in Rigid /\ Invert(y) \in Rigid /\ Invert(z) \in Rigid
  BY <1>1, GroupAssumption
<1> HIDE DEF x, y, z
<1>3. Compose(x, Invert(y)) \in Rigid /\ Compose(y, Invert(x)) \in Rigid
      /\ Compose(y, Invert(z)) \in Rigid
  BY <1>1, <1>2, GroupAssumption
<1>4. ASSUME NEW u \in Rigid, NEW v \in Rigid, NEW w \in Rigid
      PROVE  Compose(Compose(u, Invert(v)), Compose(v, w)) = Compose(u, w)
  <2>1. Invert(v) \in Rigid /\ Compose(v, w) \in Rigid
    BY GroupAssumption
  <2>2. Compose(Compose(u, Invert(v)), Compose(v, w))
          = Compose(u, Compose(Invert(v), Compose(v, w)))
    BY <2>1, GroupAssumption
  <2>3. Compose(Invert(v), Compose(v, w)) = Compose(Compose(Invert(v), v), w)
    BY <2>1, GroupAssumption
  <2>4. Compose(Compose(Invert(v), v), w) = w
    BY GroupAssumption
  <2> QED BY <2>2, <2>3, <2>4
<1>5. Compose(Compose(x, Invert(y)), Compose(y, Invert(z))) = Compose(x, Invert(z))
  BY <1>1, <1>2, <1>4
<1>6. ASSUME NEW u \in Rigid, NEW v \in Rigid, Compose(u, v) = One PROVE v = Invert(u)
  <2>1. Invert(u) \in Rigid
    BY GroupAssumption
  <2>2. Compose(Invert(u), Compose(u, v)) = Compose(Compose(Invert(u), u), v)
    BY <2>1, GroupAssumption
  <2>3. Compose(Compose(Invert(u), u), v) = v /\ Compose(Invert(u), One) = Invert(u)
    BY <2>1, GroupAssumption
  <2> QED BY <1>6, <2>2, <2>3
<1>7. Compose(Compose(x, Invert(y)), Compose(y, Invert(x))) = One
  <2>1. Compose(Compose(x, Invert(y)), Compose(y, Invert(x))) = Compose(x, Invert(x))
    BY <1>1, <1>2, <1>4
  <2> QED BY <1>1, <2>1, GroupAssumption
<1>8. Compose(y, Invert(x)) = Invert(Compose(x, Invert(y)))
  BY <1>3, <1>6, <1>7
<1>9. ASSUME NEW t \in Rigid PROVE Compose(x, Invert(y)) = t <=> x = Compose(t, y)
  <2>1. Compose(Compose(x, Invert(y)), y) = x
    <3>1. Compose(Compose(x, Invert(y)), y) = Compose(x, Compose(Invert(y), y))
      BY <1>1, <1>2, GroupAssumption
    <3> QED BY <1>1, <3>1, GroupAssumption
  <2>2. Compose(Compose(t, y), Invert(y)) = t
    <3>1. Compose(Compose(t, y), Invert(y)) = Compose(t, Compose(y, Invert(y)))
      BY <1>1, <1>2, GroupAssumption
    <3> QED BY <1>1, <3>1, GroupAssumption
  <2> QED BY <2>1, <2>2
<1>10. Compose(x, Invert(x)) = One
  BY <1>1, GroupAssumption
<1>11. Compose(x, Invert(y)) # None
  BY <1>3, GroupAssumption
<1> QED BY <1>3, <1>5, <1>8, <1>9, <1>10, <1>11 DEF Between, x, y, z

\* The table of a graph that some placement fits.
LEMMA TableOfPlacement ==
  ASSUME NEW es \in Seq(Edges), NEW p \in Placements(es), NEW a \in Frames, NEW b \in Frames
  PROVE  /\ Table(es)[a, b] = IF a \in Tied(es, b) THEN Between(p, a, b) ELSE None
         /\ Lookup(es, a, b) = IF a \in Tied(es, b) THEN Between(p, a, b) ELSE None
<1> DEFINE v == Reached(es, b)
<1>1. /\ DOMAIN v = Tied(es, b)
      /\ \A f \in Tied(es, b) : v[f] = Between(p, f, b)
  BY ReachedIsTied DEF Between
<1>2. Table(es)[a, b] = IF a \in DOMAIN v THEN v[a] ELSE None
  <2> DEFINE V == [s \in Frames |-> Reached(es, s)]
             T == [pair \in Frames \X Frames |->
                    IF pair[1] \in DOMAIN V[pair[2]] THEN V[pair[2]][pair[1]] ELSE None]
  <2>1. V[b] = v
    OBVIOUS
  <2>2. T[a, b] = IF a \in DOMAIN V[b] THEN V[b][a] ELSE None
    <3> HIDE DEF V
    <3> QED OBVIOUS
  <2>3. Table(es) = T
    BY DEF Table
  <2> HIDE DEF V, T, v
  <2> QED BY <2>1, <2>2, <2>3
<1>3. Lookup(es, a, b) = IF a = b THEN One ELSE IF a \in DOMAIN v THEN v[a] ELSE None
  BY DEF Lookup
<1>4. b \in Tied(es, b) /\ Between(p, b, b) = One
  BY TiedIsLeast, BetweenComposes
<1> HIDE DEF v
<1> QED BY <1>1, <1>2, <1>3, <1>4

-----------------------------------------------------------------------------
(* An accepted edge                                                         *)

LEMMA Appended ==
  ASSUME NEW es \in Seq(Edges), NEW e \in Edges
  PROVE  /\ Append(es, e) \in Seq(Edges)
         /\ e.target \in Frames /\ e.source \in Frames /\ e.transform \in Rigid
         /\ \A S : Closed(Append(es, e), S) <=>
                     Closed(es, S) /\ (e.target \in S <=> e.source \in S)
         /\ \A p : p \in Placements(Append(es, e)) <=>
                     p \in Placements(es) /\ p[e.target] = Compose(e.transform, p[e.source])
         /\ Len(Append(es, e)) = Len(es) + 1
<1> DEFINE fs == Append(es, e)
           N == Len(es)
<1>1. fs \in Seq(Edges) /\ Len(fs) = N + 1 /\ N \in Nat
  OBVIOUS
<1>2. /\ DOMAIN es = 1..N /\ DOMAIN fs = 1..(N + 1) /\ fs[N + 1] = e
      /\ \A i \in 1..N : fs[i] = es[i]
  OBVIOUS
<1>3. DOMAIN fs = DOMAIN es \union {N + 1}
  <2> HIDE DEF N
  <2> QED BY <1>1, <1>2
<1>4. e.target \in Frames /\ e.source \in Frames /\ e.transform \in Rigid
  BY GroupAssumption DEF Edges
<1> HIDE DEF fs, N
<1>5. ASSUME NEW S
      PROVE  Closed(fs, S) <=> Closed(es, S) /\ (e.target \in S <=> e.source \in S)
  BY <1>2, <1>3 DEF Closed
<1>6. ASSUME NEW p
      PROVE  p \in Placements(fs) <=>
               p \in Placements(es) /\ p[e.target] = Compose(e.transform, p[e.source])
  BY <1>2, <1>3 DEF Placements
<1> QED BY <1>1, <1>4, <1>5, <1>6 DEF fs, N

\* An edge between two parts joins them and leaves every other part as it was.
LEMMA JoinedParts ==
  ASSUME NEW es \in Seq(Edges), NEW e \in Edges, NEW f \in Frames
  PROVE  Tied(Append(es, e), f) =
           LET joined == Tied(es, e.target) \union Tied(es, e.source)
           IN  IF f \in joined THEN joined ELSE Tied(es, f)
<1> DEFINE A == Tied(es, e.target)
           B == Tied(es, e.source)
           fs == Append(es, e)
           R == IF f \in A \union B THEN A \union B ELSE Tied(es, f)
<1>1. /\ fs \in Seq(Edges) /\ e.target \in Frames /\ e.source \in Frames
      /\ \A S : Closed(fs, S) <=> Closed(es, S) /\ (e.target \in S <=> e.source \in S)
  BY Appended
<1>2. /\ A \in SUBSET Frames /\ e.target \in A /\ Closed(es, A)
      /\ B \in SUBSET Frames /\ e.source \in B /\ Closed(es, B)
      /\ Tied(es, f) \in SUBSET Frames /\ f \in Tied(es, f) /\ Closed(es, Tied(es, f))
  BY <1>1, TiedIsLeast
<1>3. R \in SUBSET Frames /\ f \in R
  BY <1>2
<1>4. Closed(fs, R)
  <2>1. Closed(es, A \union B)
    BY <1>2 DEF Closed
  <2>2. CASE f \in A \union B
    BY <1>1, <1>2, <2>1, <2>2
  <2>3. CASE f \notin A \union B
    <3>1. ASSUME NEW g \in {e.target, e.source}, g \in Tied(es, f) PROVE FALSE
      <4>1. Tied(es, g) = Tied(es, f)
        BY <3>1, SamePart
      <4> QED BY <1>2, <2>3, <4>1
    <3> QED BY <1>1, <1>2, <2>3, <3>1
  <2> QED BY <2>2, <2>3
<1>5. Tied(fs, f) \subseteq R
  <2> HIDE DEF R, fs
  <2> QED BY <1>1, <1>3, <1>4, TiedIsLeast
<1> DEFINE T == Tied(fs, f)
<1>6. T \in SUBSET Frames /\ f \in T /\ Closed(fs, T)
  BY <1>1, TiedIsLeast
<1>7. Closed(es, T) /\ (e.target \in T <=> e.source \in T)
  BY <1>1, <1>6
<1>8. ASSUME NEW g \in T PROVE Tied(es, g) \subseteq T
  <2> HIDE DEF T
  <2> QED BY <1>6, <1>7, TiedIsLeast
<1>9. R \subseteq T
  <2>1. CASE f \in A \union B
    <3>1. e.target \in T \/ e.source \in T
      <4>1. CASE f \in A
        BY <1>1, <1>2, <1>6, <1>8, <4>1, SamePart
      <4>2. CASE f \in B
        BY <1>1, <1>2, <1>6, <1>8, <4>2, SamePart
      <4> QED BY <2>1, <4>1, <4>2
    <3> HIDE DEF T
    <3> QED BY <1>7, <1>8, <2>1, <3>1
  <2>2. CASE f \notin A \union B
    BY <1>6, <1>8, <2>2
  <2> QED BY <2>1, <2>2
<1> QED BY <1>5, <1>9

\* The parts of a graph.
Parts(es) == { Tied(es, f) : f \in Frames }

LEMMA PartsAreFinite ==
  ASSUME NEW es \in Seq(Edges)
  PROVE  IsFiniteSet(Parts(es)) /\ Cardinality(Parts(es)) \in Nat
<1>1. Parts(es) \in SUBSET (SUBSET Frames)
  BY TiedIsLeast DEF Parts
<1>2. IsFiniteSet(SUBSET Frames)
  BY FS_SUBSET, FramesAreFinite
<1> HIDE DEF Parts
<1>3. IsFiniteSet(Parts(es))
  BY <1>1, <1>2, FS_Subset
<1> QED BY <1>3, FS_CardinalityType

\* Before the first edge every frame is a part of its own.
LEMMA PartsOfNothing == Cardinality(Parts(<<>>)) = Cardinality(Frames)
<1>1. ASSUME NEW f \in Frames PROVE Tied(<<>>, f) = {f}
  <2>1. <<>> \in Seq(Edges) /\ Closed(<<>>, {f})
    BY DEF Closed
  <2>2. f \in Tied(<<>>, f) /\ Tied(<<>>, f) \subseteq {f}
    BY <2>1, TiedIsLeast
  <2> QED BY <2>2
<1> DEFINE single == [f \in Frames |-> {f}]
<1>2. Parts(<<>>) = { {f} : f \in Frames }
  BY <1>1 DEF Parts
<1>3. single \in Bijection(Frames, Parts(<<>>))
  <2>1. single \in [Frames -> Parts(<<>>)]
    BY <1>2
  <2>2. \A f, g \in Frames : single[f] = single[g] => f = g
    OBVIOUS
  <2>3. \A P \in Parts(<<>>) : \E f \in Frames : single[f] = P
    BY <1>2
  <2> HIDE DEF single
  <2> QED BY <2>1, <2>2, <2>3 DEF Bijection, Injection, Surjection, IsInjective
<1>4. ExistsBijection(Frames, Parts(<<>>))
  BY <1>3 DEF ExistsBijection
<1> QED BY <1>4, FS_Bijection, FramesAreFinite

\* An edge between two parts leaves one part less.
LEMMA OnePartLess ==
  ASSUME NEW es \in Seq(Edges), NEW e \in Edges, e.target \notin Tied(es, e.source)
  PROVE  Cardinality(Parts(es)) = Cardinality(Parts(Append(es, e))) + 1
<1> DEFINE A == Tied(es, e.target)
           B == Tied(es, e.source)
           U == A \union B
           P == Parts(es)
<1>1. e.target \in Frames /\ e.source \in Frames
  BY Appended
<1>2. A \in P /\ B \in P /\ e.target \in A /\ e.source \in B
  BY <1>1, TiedIsLeast DEF Parts
<1>3. A # B
  BY <1>2
<1>4. \A f \in Frames : f \in Tied(es, f) /\ (f \in A => Tied(es, f) = A)
                                          /\ (f \in B => Tied(es, f) = B)
  BY <1>1, TiedIsLeast, SamePart
<1>5. U \notin P
  <2> SUFFICES ASSUME NEW f \in Frames, Tied(es, f) = U PROVE FALSE
    BY DEF Parts
  <2>1. f \in A \/ f \in B
    BY <1>4
  <2>2. U = A \/ U = B
    BY <1>4, <2>1
  <2>3. e.source \in A \/ e.target \in B
    BY <1>2, <2>2
  <2> QED BY <1>1, <1>3, <1>4, <2>3
<1>6. Parts(Append(es, e)) = (P \ {A, B}) \union {U}
  <2>1. \A f \in Frames : Tied(Append(es, e), f) = IF f \in U THEN U ELSE Tied(es, f)
    BY JoinedParts
  <2>2. \A f \in Frames : f \in U <=> Tied(es, f) \in {A, B}
    BY <1>4
  <2>3. \E f \in Frames : f \in U
    BY <1>1, <1>2
  <2> HIDE DEF A, B, U
  <2> QED BY <2>1, <2>2, <2>3 DEF Parts
<1>7. Cardinality((P \ {A, B}) \union {U}) = Cardinality(P) - 1
  <2>1. IsFiniteSet(P) /\ Cardinality(P) \in Nat
    BY PartsAreFinite
  <2> HIDE DEF A, B, U, P
  <2>2. IsFiniteSet(P \ {A}) /\ Cardinality(P \ {A}) = Cardinality(P) - 1
    BY <1>2, <2>1, FS_RemoveElement
  <2>3. IsFiniteSet((P \ {A}) \ {B}) /\ Cardinality((P \ {A}) \ {B}) = Cardinality(P) - 1 - 1
    <3>1. B \in P \ {A}
      BY <1>2, <1>3
    <3> QED BY <2>2, <3>1, FS_RemoveElement
  <2>4. (P \ {A}) \ {B} = P \ {A, B}
    OBVIOUS
  <2>5. U \notin P \ {A, B}
    BY <1>5
  <2>6. Cardinality((P \ {A, B}) \union {U}) = Cardinality(P \ {A, B}) + 1
    BY <2>3, <2>4, <2>5, FS_AddElement
  <2> DEFINE c == Cardinality(P)
             d == Cardinality(P \ {A, B})
  <2>7. c \in Nat /\ d = c - 1 - 1 /\ Cardinality((P \ {A, B}) \union {U}) = d + 1
    BY <2>1, <2>3, <2>4, <2>6
  <2>8. d + 1 = c - 1
    <3> HIDE DEF c, d
    <3> QED BY <2>7
  <2> QED BY <2>7, <2>8
<1>8. Cardinality(P) \in Nat
  BY PartsAreFinite
<1> HIDE DEF P, A, B, U
<1> QED BY <1>6, <1>7, <1>8 DEF P

\* Frames that were placed can be placed again after an edge between two parts: the
\* part of its target is moved as a whole.
LEMMA PlacedAgain ==
  ASSUME NEW es \in Seq(Edges), NEW e \in Edges, e.target \notin Tied(es, e.source),
         NEW p \in Placements(es)
  PROVE  \E q : q \in Placements(Append(es, e))
<1> DEFINE A == Tied(es, e.target)
           x == p[e.target]
           y == Compose(e.transform, p[e.source])
           move == Compose(Invert(x), y)
           q == [f \in Frames |-> IF f \in A THEN Compose(p[f], move) ELSE p[f]]
<1>1. e.target \in Frames /\ e.source \in Frames /\ e.transform \in Rigid
  BY Appended
<1>2. x \in Rigid /\ p[e.source] \in Rigid /\ Invert(x) \in Rigid
  BY <1>1, PlacementType
<1>3. y \in Rigid
  BY <1>1, <1>2, GroupAssumption
<1>4. move \in Rigid
  <2> HIDE DEF x, y
  <2> QED BY <1>2, <1>3, GroupAssumption
<1>5. Closed(es, A) /\ e.target \in A /\ e.source \notin A
  <2>1. Closed(es, A) /\ e.target \in A
    BY <1>1, TiedIsLeast
  <2>2. e.source \in Tied(es, e.source)
    BY <1>1, TiedIsLeast
  <2>3. ASSUME e.source \in A PROVE FALSE
    <3>1. Tied(es, e.source) = A
      BY <1>1, <2>3, SamePart
    <3> QED BY <2>1, <3>1
  <2> QED BY <2>1, <2>3
<1>6. q \in [Frames -> Rigid]
  <2>1. ASSUME NEW f \in Frames PROVE p[f] \in Rigid /\ Compose(p[f], move) \in Rigid
    <3>1. p[f] \in Rigid
      BY PlacementType
    <3> HIDE DEF move
    <3> QED BY <1>4, <3>1, GroupAssumption
  <2> HIDE DEF move, A
  <2> QED BY <2>1
<1>7. q \in Placements(es)
  <2> SUFFICES ASSUME NEW i \in DOMAIN es
               PROVE  q[es[i].target] = Compose(es[i].transform, q[es[i].source])
    BY <1>6 DEF Placements
  <2> DEFINE t == es[i].target  s == es[i].source  w == es[i].transform
  <2>1. t \in Frames /\ s \in Frames /\ w \in Rigid
    BY EdgeType
  <2>2. p[t] = Compose(w, p[s])
    BY DEF Placements
  <2>3. t \in A <=> s \in A
    BY <1>5 DEF Closed
  <2>4. p[s] \in Rigid
    BY <2>1, PlacementType
  <2>5. Compose(Compose(w, p[s]), move) = Compose(w, Compose(p[s], move))
    <3> HIDE DEF move, s, w
    <3> QED BY <1>4, <2>1, <2>4, GroupAssumption
  <2> HIDE DEF t, s, w, move, A
  <2>6. q[t] = Compose(w, q[s])
    BY <2>1, <2>2, <2>3, <2>5
  <2> QED BY <2>6 DEF t, s, w
<1>8. q[e.target] = Compose(e.transform, q[e.source])
  <2>1. q[e.target] = Compose(x, move) /\ q[e.source] = p[e.source]
    <3> HIDE DEF move, A
    <3> QED BY <1>1, <1>5
  <2>2. Compose(x, Compose(Invert(x), y)) = y
    <3> HIDE DEF x, y
    <3>1. Compose(x, Compose(Invert(x), y)) = Compose(Compose(x, Invert(x)), y)
      BY <1>2, <1>3, GroupAssumption
    <3> QED BY <1>2, <1>3, <3>1, GroupAssumption
  <2> HIDE DEF q, A
  <2> QED BY <2>1, <2>2
<1>9. q \in Placements(Append(es, e))
  <2> HIDE DEF q
  <2> QED BY <1>7, <1>8, Appended
<1> QED
  <2> HIDE DEF q
  <2> QED BY <1>9

-----------------------------------------------------------------------------
(* The graph                                                                *)

\* The inductive invariant: the edges are well formed, form a forest, and the
\* frames can be placed so that every edge fits.
IInv == /\ edges \in Seq(Edges)
        /\ Forest
        /\ Placements(edges) # {}

\* addTransform accepts exactly the edges between two parts.
LEMMA AcceptedEdges ==
  ASSUME NEW e \in Edges, IInv, e.target # e.source
  PROVE  Refusal(e) = "added" <=> e.target \notin Tied(edges, e.source)
<1>1. edges \in Seq(Edges) /\ e.target \in Frames /\ e.source \in Frames
  BY Appended DEF IInv
<1>2. PICK p \in Placements(edges) : TRUE
  BY DEF IInv
<1>3. Lookup(edges, e.target, e.source)
        = IF e.target \in Tied(edges, e.source) THEN Between(p, e.target, e.source) ELSE None
  BY <1>1, TableOfPlacement
<1>4. Between(p, e.target, e.source) # None
  BY <1>1, BetweenComposes
<1>5. ASSUME NEW i \in DOMAIN edges,
             edges[i].target = e.target, edges[i].source = e.source
      PROVE  e.target \in Tied(edges, e.source)
  BY <1>1, <1>5, TiedIsLeast DEF Closed
<1> QED BY <1>3, <1>4, <1>5 DEF Refusal

LEMMA InitIInv == Init => IInv
<1> SUFFICES ASSUME Init PROVE IInv
  OBVIOUS
<1>1. edges = <<>> /\ <<>> \in Seq(Edges) /\ Len(<<>>) = 0
  BY DEF Init
<1>2. Forest
  <2>1. Cardinality(Frames) \in Nat
    BY FS_CardinalityType, FramesAreFinite
  <2>2. Cardinality(Parts(<<>>)) = Cardinality(Frames)
    BY PartsOfNothing
  <2>3. 0 + Cardinality(Parts(<<>>)) = Cardinality(Frames)
    BY <2>1, <2>2
  <2> QED BY <1>1, <2>3 DEF Forest, Parts
<1>3. [f \in Frames |-> One] \in Placements(edges)
  BY <1>1, GroupAssumption DEF Placements
<1> QED BY <1>1, <1>2, <1>3 DEF IInv

LEMMA NextIInv == IInv /\ [Next]_edges => IInv'
<1> SUFFICES ASSUME IInv, [Next]_edges PROVE IInv'
  OBVIOUS
<1>1. CASE UNCHANGED edges
  BY <1>1 DEF IInv, Forest
<1>2. ASSUME NEW e \in Edges, AddTransform(e) PROVE IInv'
  <2>1. CASE Refusal(e) # "added"
    BY <1>2, <2>1 DEF AddTransform, IInv, Forest
  <2>2. CASE Refusal(e) = "added"
    <3>1. edges' = Append(edges, e) /\ edges \in Seq(Edges)
      BY <1>2, <2>2 DEF AddTransform, IInv
    <3>2. e.target # e.source
      BY <2>2 DEF Refusal
    <3>3. e.target \notin Tied(edges, e.source)
      BY <2>2, <3>2, AcceptedEdges
    <3>4. edges' \in Seq(Edges) /\ Len(edges') = Len(edges) + 1 /\ Len(edges) \in Nat
      BY <3>1, Appended
    <3>5. Len(edges') + Cardinality(Parts(edges')) = Cardinality(Frames)
      <4> DEFINE c == Cardinality(Parts(edges))
                 d == Cardinality(Parts(Append(edges, e)))
                 l == Len(edges)
      <4>1. c = d + 1
        BY <3>1, <3>3, OnePartLess
      <4>2. d \in Nat /\ l \in Nat
        BY <3>1, <3>4, PartsAreFinite
      <4>3. l + c = Cardinality(Frames)
        BY DEF IInv, Forest, Parts
      <4>4. (l + 1) + d = l + c
        <5> HIDE DEF l, c, d
        <5> QED BY <4>1, <4>2
      <4> QED BY <3>1, <3>4, <4>3, <4>4
    <3>6. Placements(edges') # {}
      BY <3>1, <3>3, PlacedAgain DEF IInv
    <3> QED BY <3>4, <3>5, <3>6 DEF IInv, Forest, Parts
  <2> QED BY <2>1, <2>2
<1> QED BY <1>1, <1>2 DEF Next

\* The sequence of accepted edges never closes a cycle, and there is always a way to
\* place all the frames that fits every edge.
THEOREM Invariance == Spec => []IInv
<1> QED BY InitIInv, NextIInv, PTL DEF Spec

\* The graph stays a forest, whatever is offered to addTransform.
THEOREM ForestHolds == Spec => []Forest
<1>1. IInv => Forest
  BY DEF IInv
<1> QED BY <1>1, Invariance, PTL

\* lookup answers exactly for connected frames, repeats every stored edge, and its
\* answers compose, whatever path its search takes.
THEOREM LookupIsRight == Spec => []LookupComposes
<1>1. IInv => LookupComposes
  <2> SUFFICES ASSUME IInv PROVE LookupComposes
    OBVIOUS
  <2>1. edges \in Seq(Edges)
    BY DEF IInv
  <2>2. PICK p \in Placements(edges) : TRUE
    BY DEF IInv
  <2> DEFINE T == Table(edges)
  <2>3. \A a, b \in Frames :
          T[a, b] = IF a \in Tied(edges, b) THEN Between(p, a, b) ELSE None
    BY <2>1, TableOfPlacement
  <2>4. \A a, b, c \in Frames :
          /\ Between(p, a, b) # None
          /\ Between(p, a, c) = Compose(Between(p, a, b), Between(p, b, c))
          /\ Between(p, b, a) = Invert(Between(p, a, b))
    BY <2>1, BetweenComposes
  <2>5. \A a, b \in Frames : a \in Tied(edges, b) => Tied(edges, a) = Tied(edges, b)
    BY <2>1, SamePart
  <2>6. \A a \in Frames : a \in Tied(edges, a)
    BY <2>1, TiedIsLeast
  <2>7. ASSUME NEW i \in DOMAIN edges
        PROVE  T[edges[i].target, edges[i].source] = edges[i].transform
    <3> DEFINE t == edges[i].target  s == edges[i].source  w == edges[i].transform
    <3>1. t \in Frames /\ s \in Frames /\ w \in Rigid
      BY <2>1, EdgeType
    <3>2. t \in Tied(edges, s)
      BY <2>1, <3>1, TiedIsLeast DEF Closed
    <3>3. p[t] = Compose(w, p[s])
      BY DEF Placements
    <3>4. Between(p, t, s) = w
      <4> HIDE DEF t, s, w
      <4> QED BY <2>1, <3>1, <3>3, BetweenComposes
    <3> HIDE DEF t, s, w, T
    <3>5. T[t, s] = w
      BY <2>3, <3>1, <3>2, <3>4
    <3> QED BY <3>5 DEF t, s, w
  <2> HIDE DEF T
  <2>8. \A a, b \in Frames : T[a, b] = None <=> a \notin Tied(edges, b)
    BY <2>3, <2>4
  <2>9. \A a, b, c \in Frames :
          T[a, b] # None /\ T[b, c] # None => T[a, c] = Compose(T[a, b], T[b, c])
    <3> SUFFICES ASSUME NEW a \in Frames, NEW b \in Frames, NEW c \in Frames,
                        T[a, b] # None, T[b, c] # None
                 PROVE  T[a, c] = Compose(T[a, b], T[b, c])
      OBVIOUS
    <3>1. a \in Tied(edges, b) /\ T[a, b] = Between(p, a, b)
      BY <2>3
    <3>2. b \in Tied(edges, c) /\ T[b, c] = Between(p, b, c)
      BY <2>3
    <3>3. T[a, c] = Between(p, a, c)
      BY <2>3, <2>5, <3>1, <3>2
    <3>4. Between(p, a, c) = Compose(Between(p, a, b), Between(p, b, c))
      BY <2>4
    <3> QED BY <3>1, <3>2, <3>3, <3>4
  <2>10. \A a, b \in Frames : T[a, b] # None => T[b, a] = Invert(T[a, b])
    <3> SUFFICES ASSUME NEW a \in Frames, NEW b \in Frames, T[a, b] # None
                 PROVE  T[b, a] = Invert(T[a, b])
      OBVIOUS
    <3>1. a \in Tied(edges, b) /\ T[a, b] = Between(p, a, b)
      BY <2>3
    <3>2. T[b, a] = Between(p, b, a)
      BY <2>3, <2>5, <2>6, <3>1
    <3>3. Between(p, b, a) = Invert(Between(p, a, b))
      BY <2>4
    <3> QED BY <3>1, <3>2, <3>3
  <2> QED BY <2>7, <2>8, <2>9, <2>10 DEF LookupComposes, T
<1> QED BY <1>1, Invariance, PTL

\* The error codes tell the truth: an edge is accepted exactly when it ties frames
\* that were apart, redundant when every placement fits it, inconsistent when none does.
THEOREM RefusalsAreRight == Spec => []RefusalsTellTheTruth
<1>1. IInv => RefusalsTellTheTruth
  <2> SUFFICES ASSUME IInv, NEW e \in Edges, e.target # e.source
               PROVE  LET fitting == { p \in Placements(edges) :
                                         p[e.target] = Compose(e.transform, p[e.source]) }
                      IN  /\ Refusal(e) = "added" <=> e.target \notin Tied(edges, e.source)
                          /\ Refusal(e) = "redundant_edge" => fitting = Placements(edges)
                          /\ Refusal(e) = "inconsistent_edge" => fitting = {}
    BY DEF RefusalsTellTheTruth
  <2>1. /\ edges \in Seq(Edges) /\ e.target \in Frames /\ e.source \in Frames
        /\ e.transform \in Rigid
    BY Appended DEF IInv
  <2>2. Refusal(e) = "added" <=> e.target \notin Tied(edges, e.source)
    BY AcceptedEdges
  <2> DEFINE found == Lookup(edges, e.target, e.source)
  <2>3. ASSUME found # None, NEW p \in Placements(edges)
        PROVE  found = e.transform <=> p[e.target] = Compose(e.transform, p[e.source])
    <3>1. found = Between(p, e.target, e.source)
      BY <2>1, <2>3, TableOfPlacement
    <3> HIDE DEF found
    <3> QED BY <2>1, <3>1, BetweenComposes
  <2>4. /\ Refusal(e) = "redundant_edge" => found # None /\ found = e.transform
        /\ Refusal(e) = "inconsistent_edge" => found # None /\ found # e.transform
    BY DEF Refusal
  <2> HIDE DEF found
  <2> QED BY <2>2, <2>3, <2>4
<1> QED BY <1>1, Invariance, PTL

\* What a lookup has answered once, every later lookup answers.
THEOREM AnswersNeverChange == Spec => AnswersStand
<1> DEFINE Kept == \A a, b \in Frames : Table(edges)[a, b] # None
                                          => Table(edges')[a, b] = Table(edges)[a, b]
<1>1. IInv /\ IInv' /\ [Next]_edges => [edges' # edges => Kept]_edges
  <2> SUFFICES ASSUME IInv, IInv', NEW e \in Edges, AddTransform(e), edges' # edges,
                      NEW a \in Frames, NEW b \in Frames, Table(edges)[a, b] # None
               PROVE  Table(edges')[a, b] = Table(edges)[a, b]
    BY DEF Next
  <2>1. edges' = Append(edges, e) /\ edges \in Seq(Edges) /\ edges' \in Seq(Edges)
    BY DEF AddTransform, IInv
  <2>2. PICK q \in Placements(edges') : TRUE
    BY DEF IInv
  <2>3. q \in Placements(edges)
    BY <2>1, Appended
  <2>4. a \in Tied(edges, b) /\ Table(edges)[a, b] = Between(q, a, b)
    BY <2>1, <2>3, TableOfPlacement
  <2>5. a \in Tied(edges', b)
    <3>1. Closed(edges, Tied(edges', b)) /\ b \in Tied(edges', b)
          /\ Tied(edges', b) \in SUBSET Frames
      BY <2>1, Appended, TiedIsLeast
    <3> QED BY <2>1, <2>4, <3>1, TiedIsLeast
  <2>6. Table(edges')[a, b] = Between(q, a, b)
    BY <2>1, <2>5, TableOfPlacement
  <2> QED BY <2>4, <2>6
<1>2. AnswersStand <=> [][edges' # edges => Kept]_edges
  BY DEF AnswersStand
<1> QED BY <1>1, <1>2, Invariance, PTL DEF Spec

=============================================================================
