-------------------------- MODULE GridSearchProofs --------------------------
(***************************************************************************)
(* Proofs about GridSearch for every grid, loss table and budget.          *)
(***************************************************************************)
EXTENDS GridSearch, FiniteSetTheorems, TLAPS

-----------------------------------------------------------------------------
(* Arithmetic of the grid                                                  *)

\* A coarse index within the span gives a tick within the axis.
LEMMA CoarseFits ==
  ASSUME NEW n \in Nat, NEW s \in Nat, NEW i \in 0..n
  PROVE  i * s \in 0..(n * s)
<1>1. PICK d \in Nat : n = i + d
  <2>1. n - i \in Nat /\ n = i + (n - i)
    OBVIOUS
  <2> QED BY <2>1
<1>2. n * s = i * s + d * s
  BY <1>1
<1>3. i * s \in Nat /\ d * s \in Nat
  BY <1>1, <1>2
<1> QED
  BY <1>2, <1>3

\* Two ticks of an axis differ in the correction they stand for.
LEMMA StepsSeparate ==
  ASSUME NEW m \in Int, NEW s \in Nat \ {0}, NEW a \in Nat, NEW b \in Nat, a < b
  PROVE  m + a * s < m + b * s
<1>1. PICK d \in Nat : b = a + d /\ d >= 1
  <2>1. b - a \in Nat /\ b = a + (b - a) /\ b - a >= 1
    OBVIOUS
  <2> QED BY <2>1
<1>2. b * s = a * s + d * s
  BY <1>1
<1>3. PICK e \in Nat : d = e + 1
  <2>1. d - 1 \in Nat /\ d = (d - 1) + 1
    BY <1>1
  <2> QED BY <2>1
<1>4. d * s = e * s + s /\ e * s \in Nat
  BY <1>3
<1>5. a * s \in Nat /\ b * s \in Nat /\ d * s \in Nat
  OBVIOUS
<1> QED
  BY <1>2, <1>4, <1>5

-----------------------------------------------------------------------------
(* The order of candidates                                                 *)

Ranks == Nat \X Nat \X Nat \X Int \X Int

\* Precedes on tuples, written out.
LEMMA PrecedesExpanded ==
  ASSUME NEW a \in Ranks, NEW b \in Ranks
  PROVE  Precedes(a, b) <=>
           \/ a[1] < b[1]
           \/ a[1] = b[1] /\ a[2] < b[2]
           \/ a[1] = b[1] /\ a[2] = b[2] /\ a[3] < b[3]
           \/ a[1] = b[1] /\ a[2] = b[2] /\ a[3] = b[3] /\ a[4] < b[4]
           \/ a[1] = b[1] /\ a[2] = b[2] /\ a[3] = b[3] /\ a[4] = b[4] /\ a[5] < b[5]
  BY DEF Precedes, Ranks

\* The order is transitive, never holds both ways, and compares any two tuples
\* that differ in the corrections.
LEMMA PrecedesStrict ==
  ASSUME NEW a \in Ranks, NEW b \in Ranks, NEW c \in Ranks
  PROVE  /\ Precedes(a, b) /\ Precedes(b, c) => Precedes(a, c)
         /\ ~(Precedes(a, b) /\ Precedes(b, a))
         /\ a[4] # b[4] \/ a[5] # b[5] => Precedes(a, b) \/ Precedes(b, a)
<1>1. /\ a[1] \in Int /\ a[2] \in Int /\ a[3] \in Int /\ a[4] \in Int /\ a[5] \in Int
      /\ b[1] \in Int /\ b[2] \in Int /\ b[3] \in Int /\ b[4] \in Int /\ b[5] \in Int
      /\ c[1] \in Int /\ c[2] \in Int /\ c[3] \in Int /\ c[4] \in Int /\ c[5] \in Int
  BY DEF Ranks
<1> QED
  BY <1>1, PrecedesExpanded

-----------------------------------------------------------------------------
(* Type correctness                                                        *)

\* The parts of a request.
LEMMA RequestParts ==
  ASSUME IsRequest(request)
  PROVE  /\ request.yaw.span \in Nat \ {0} /\ request.yaw.stride \in Nat \ {0}
         /\ request.tx.span \in Nat \ {0} /\ request.tx.stride \in Nat \ {0}
         /\ request.yaw.minimum \in Int /\ request.yaw.step \in Nat \ {0}
         /\ request.tx.minimum \in Int /\ request.tx.step \in Nat \ {0}
         /\ request.observations \in Nat
         /\ LastTick(request.yaw) \in Nat /\ LastTick(request.tx) \in Nat
         /\ \A t \in Ticks : HasLoss(t) => Loss(t) \in Nat
         /\ \A t \in Ticks : t[1] \in Nat /\ t[2] \in Nat /\ t = <<t[1], t[2]>>
<1>1. /\ request.yaw.span \in Nat \ {0} /\ request.yaw.stride \in Nat \ {0}
      /\ request.tx.span \in Nat \ {0} /\ request.tx.stride \in Nat \ {0}
      /\ request.yaw.minimum \in Int /\ request.yaw.step \in Nat \ {0}
      /\ request.tx.minimum \in Int /\ request.tx.step \in Nat \ {0}
      /\ request.observations \in Nat
  BY DEF IsRequest, Axes
<1>2. LastTick(request.yaw) \in Nat /\ LastTick(request.tx) \in Nat
  BY <1>1 DEF LastTick
<1>3. \A t \in Ticks : HasLoss(t) => Loss(t) \in Nat
  BY DEF IsRequest, HasLoss, Loss, Ticks
<1>4. \A t \in Ticks : t[1] \in Nat /\ t[2] \in Nat /\ t = <<t[1], t[2]>>
  BY <1>2 DEF Ticks, TicksOf
<1> QED
  BY <1>1, <1>2, <1>3, <1>4

\* Where the loop variables are: inside the coarse grid, or inside the window
\* around the coarse optimum.
CursorInside ==
  /\ phase = "preflight" => cursor = <<0, 0>>
  /\ phase = "coarse" => cursor \in (0..request.yaw.span) \X (0..request.tx.span)
  /\ phase = "fine" => center \in Ticks /\ best \in Ticks /\ cursor \in Window(center)
  /\ phase \in {"settle", "diagnose"} => center \in Ticks /\ best \in Ticks
TypeInv == TypeOK /\ CursorInside

\* The window around a tick lies on the grid and holds the tick.
LEMMA WindowOnGrid ==
  ASSUME IsRequest(request), NEW c \in Ticks
  PROVE  /\ Window(c) \subseteq Ticks
         /\ c \in Window(c)
         /\ Low(request.yaw, c[1]) \in Nat /\ Low(request.tx, c[2]) \in Nat
         /\ High(request.yaw, c[1]) \in Nat /\ High(request.tx, c[2]) \in Nat
         /\ Low(request.yaw, c[1]) <= c[1] /\ c[1] <= High(request.yaw, c[1])
         /\ Low(request.tx, c[2]) <= c[2] /\ c[2] <= High(request.tx, c[2])
         /\ High(request.yaw, c[1]) <= LastTick(request.yaw)
         /\ High(request.tx, c[2]) <= LastTick(request.tx)
<1>1. /\ c[1] \in 0..LastTick(request.yaw) /\ c[2] \in 0..LastTick(request.tx)
      /\ c = <<c[1], c[2]>>
  BY DEF Ticks, TicksOf
<1>2. /\ Low(request.yaw, c[1]) \in Nat /\ Low(request.yaw, c[1]) <= c[1]
      /\ High(request.yaw, c[1]) \in Nat /\ c[1] <= High(request.yaw, c[1])
      /\ High(request.yaw, c[1]) <= LastTick(request.yaw)
  BY <1>1, RequestParts DEF Low, High
<1>3. /\ Low(request.tx, c[2]) \in Nat /\ Low(request.tx, c[2]) <= c[2]
      /\ High(request.tx, c[2]) \in Nat /\ c[2] <= High(request.tx, c[2])
      /\ High(request.tx, c[2]) <= LastTick(request.tx)
  BY <1>1, RequestParts DEF Low, High
<1> QED
  BY <1>1, <1>2, <1>3, RequestParts DEF Window, Ticks, TicksOf

\* A coarse candidate is a tick of the grid.
LEMMA CoarseOnGrid ==
  ASSUME IsRequest(request), NEW i \in 0..request.yaw.span, NEW j \in 0..request.tx.span
  PROVE  CoarseTick(i, j) \in Ticks
<1>1. i * request.yaw.stride \in 0..LastTick(request.yaw)
  BY CoarseFits, RequestParts DEF LastTick
<1>2. j * request.tx.stride \in 0..LastTick(request.tx)
  BY CoarseFits, RequestParts DEF LastTick
<1> QED
  BY <1>1, <1>2 DEF CoarseTick, Ticks, TicksOf

\* What one attempt does to the types.
LEMMA AttemptTypes ==
  ASSUME TypeOK, NEW t \in Ticks, Attempt(t)
  PROVE  /\ evaluated' \in Nat
         /\ best' \in Ticks \union {NoTick}
         /\ best \in Ticks => best' \in Ticks
  BY RequestParts DEF Attempt, TypeOK

\* At most two neighbours on an axis.
LEMMA SidesFinite ==
  ASSUME NEW t
  PROVE  Cardinality(YawSides(t)) \in Nat /\ Cardinality(TxSides(t)) \in Nat
<1>0. ASSUME NEW a, NEW b
      PROVE  IsFiniteSet({a, b})
  <2>1. IsFiniteSet({} \cup {a})
    BY FS_EmptySet, FS_AddElement
  <2>2. IsFiniteSet(({} \cup {a}) \cup {b})
    BY <2>1, FS_AddElement
  <2>3. ({} \cup {a}) \cup {b} = {a, b}
    OBVIOUS
  <2> QED
    BY <2>2, <2>3
<1>1. IsFiniteSet({YawBelow(t), YawAbove(t)}) /\ IsFiniteSet({TxBelow(t), TxAbove(t)})
  BY <1>0
<1>2. IsFiniteSet(YawSides(t)) /\ IsFiniteSet(TxSides(t))
  BY <1>1, FS_Intersection DEF YawSides, TxSides
<1> QED
  BY <1>2, FS_CardinalityType

\* The types hold at start,
LEMMA TypeInvInit == Init => TypeInv
<1> SUFFICES ASSUME Init PROVE TypeInv
  OBVIOUS
<1>1. IsRequest(request)
  BY SearchesAssumption DEF Init
<1>2. TypeOK
  BY <1>1 DEF Init, TypeOK, Phases, Statuses, NoProbe
<1>3. CursorInside
  BY DEF Init, CursorInside
<1> QED
  BY <1>2, <1>3 DEF TypeInv

\* and every step keeps them.
LEMMA TypeInvStep == TypeInv /\ [Next]_vars => TypeInv'
<1> SUFFICES ASSUME TypeInv, [Next]_vars PROVE TypeInv'
  OBVIOUS
<1> USE DEF TypeInv
<1>0. IsRequest(request)
  BY DEF TypeOK
<1>1. CASE Preflight
  BY <1>0, <1>1, RequestParts DEF Preflight, TypeOK, CursorInside, Phases, Ticks, Window
<1>2. CASE CoarseVisit
  <2> DEFINE t == CoarseTick(cursor[1], cursor[2])
  <2>1. cursor[1] \in 0..request.yaw.span /\ cursor[2] \in 0..request.tx.span
    BY <1>2 DEF CoarseVisit, CursorInside
  <2>2. t \in Ticks
    BY <1>0, <2>1, CoarseOnGrid
  <2>3. request' = request /\ Ticks' = Ticks
    BY <1>2 DEF CoarseVisit, Ticks
  <2>4. /\ evaluated' \in Nat /\ best' \in Ticks \union {NoTick}
    BY <1>2, <2>2, AttemptTypes DEF CoarseVisit
  <2>5. coarse' \subseteq Ticks
    BY <1>2, <2>2 DEF CoarseVisit, TypeOK
  <2>6. cursor' \in Nat \X Nat /\ phase' \in {"coarse", "lay_window"}
    BY <1>0, <1>2, <2>1, RequestParts DEF CoarseVisit
  <2>7. phase' = "coarse" => cursor' \in (0..request.yaw.span) \X (0..request.tx.span)
    BY <1>0, <1>2, <2>1, RequestParts DEF CoarseVisit
  <2>8. TypeOK'
    BY <1>2, <2>3, <2>4, <2>5, <2>6 DEF CoarseVisit, TypeOK, Phases
  <2> QED
    BY <2>3, <2>6, <2>7, <2>8 DEF CursorInside
<1>3. CASE LayWindow
  <2>1. request' = request /\ Ticks' = Ticks
    BY <1>3 DEF LayWindow, Ticks
  <2>2. CASE best = NoTick
    BY <1>3, <2>1, <2>2 DEF LayWindow, TypeOK, CursorInside, Phases
  <2>3. CASE best # NoTick
    <3>1. best \in Ticks
      BY <2>3 DEF TypeOK
    <3>2. /\ phase' = "fine" /\ center' = best
          /\ cursor' = <<Low(request.yaw, best[1]), Low(request.tx, best[2])>>
          /\ UNCHANGED <<request, coarse, fine, best, evaluated, status, probe>>
      BY <1>3, <2>3 DEF LayWindow
    <3>3. cursor' \in Window(best) /\ cursor' \in Nat \X Nat
      BY <1>0, <3>1, <3>2, WindowOnGrid DEF Window
    <3>4. Window(center)' = Window(best)
      BY <3>2 DEF Window
    <3> QED
      BY <2>1, <3>1, <3>2, <3>3, <3>4 DEF TypeOK, CursorInside, Phases
  <2> QED
    BY <2>2, <2>3
<1>4. CASE FineVisit
  <2>1. request' = request /\ Ticks' = Ticks /\ center' = center /\ center \in Ticks
    BY <1>4 DEF FineVisit, Ticks, CursorInside
  <2>2. cursor \in Window(center) /\ cursor \in Ticks
    BY <1>0, <1>4, <2>1, WindowOnGrid DEF FineVisit, CursorInside
  <2>3. /\ evaluated' \in Nat /\ best' \in Ticks \union {NoTick}
    BY <1>4, <2>2, AttemptTypes DEF FineVisit
  <2>4. fine' \subseteq Ticks
    BY <1>4, <2>2 DEF FineVisit, TypeOK
  <2>5. Window(center)' = Window(center)
    BY <2>1 DEF Window
  <2>6. /\ cursor' \in Nat \X Nat /\ phase' \in {"fine", "settle"}
        /\ phase' = "fine" => cursor' \in Window(center)
    BY <1>0, <1>4, <2>1, <2>2, WindowOnGrid DEF FineVisit, Window
  <2>7. best' \in Ticks
    BY <1>4, <2>2, AttemptTypes DEF FineVisit, CursorInside
  <2> QED
    BY <1>4, <2>1, <2>3, <2>4, <2>5, <2>6, <2>7 DEF FineVisit, TypeOK, CursorInside, Phases
<1>5. CASE Settle
  BY <1>5 DEF Settle, StatusOf, TypeOK, CursorInside, Phases, Statuses, Ticks
<1>6. CASE Diagnose
  <2>1. Cardinality(YawSides(best)) \in Nat /\ Cardinality(TxSides(best)) \in Nat
    BY SidesFinite
  <2>2. probe' \in [available : BOOLEAN, oneSided : BOOLEAN, poor : BOOLEAN, points : Nat]
    BY <1>0, <1>6, <2>1, RequestParts DEF Diagnose
  <2> QED
    BY <1>6, <2>2 DEF Diagnose, TypeOK, CursorInside, Phases, Ticks
<1>7. CASE UNCHANGED vars
  BY <1>7 DEF vars, TypeOK, CursorInside, Ticks, Window
<1> QED
  BY <1>1, <1>2, <1>3, <1>4, <1>5, <1>6, <1>7 DEF Next

\* Every variable keeps its type, and the loops stay on the grid: no tick off
\* the grid is ever evaluated (searchExtrinsicCorrection).
THEOREM TypeCorrect == Spec => []TypeOK
<1>1. Spec => []TypeInv
  BY TypeInvInit, TypeInvStep, PTL DEF Spec
<1> QED
  BY <1>1, PTL DEF TypeInv

-----------------------------------------------------------------------------
(* The best candidate                                                      *)

\* Rank is a tuple of numbers for a candidate that has a loss.
LEMMA RankTyped ==
  ASSUME IsRequest(request), NEW t \in Ticks, HasLoss(t)
  PROVE  /\ Rank(t) \in Ranks
         /\ Rank(t)[4] = Yaw(t) /\ Rank(t)[5] = Tx(t)
<1>1. Loss(t) \in Nat
  BY RequestParts
<1>2. t[1] * request.yaw.step \in Int /\ t[2] * request.tx.step \in Int
  BY RequestParts
<1>3. Yaw(t) \in Int /\ Tx(t) \in Int
  BY <1>2, RequestParts DEF Yaw, Tx
<1>4. Size(Yaw(t)) \in Nat /\ Size(Tx(t)) \in Nat
  BY <1>3 DEF Size
<1> QED
  BY <1>1, <1>3, <1>4 DEF Rank, Ranks

\* Two ticks stand for two corrections.
LEMMA CorrectionsDiffer ==
  ASSUME IsRequest(request), NEW s \in Ticks, NEW t \in Ticks, s # t
  PROVE  Yaw(s) # Yaw(t) \/ Tx(s) # Tx(t)
<1>1. /\ s[1] \in Nat /\ s[2] \in Nat /\ t[1] \in Nat /\ t[2] \in Nat
      /\ s = <<s[1], s[2]>> /\ t = <<t[1], t[2]>>
  BY RequestParts
<1>2. /\ request.yaw.step \in Nat \ {0} /\ request.tx.step \in Nat \ {0}
      /\ request.yaw.minimum \in Int /\ request.tx.minimum \in Int
  BY RequestParts
<1>3. s[1] # t[1] \/ s[2] # t[2]
  BY <1>1
<1>4. ASSUME NEW m \in Int, NEW d \in Nat \ {0}, NEW a \in Nat, NEW b \in Nat, a # b
      PROVE  m + a * d # m + b * d
  <2>1. a * d \in Int /\ b * d \in Int
    OBVIOUS
  <2>2. CASE a < b
    <3>1. m + a * d < m + b * d
      BY <2>2, StepsSeparate
    <3> QED BY <2>1, <3>1
  <2>3. CASE b < a
    <3>1. m + b * d < m + a * d
      BY <2>3, StepsSeparate
    <3> QED BY <2>1, <3>1
  <2> QED
    BY <1>4, <2>2, <2>3
<1>5. CASE s[1] # t[1]
  BY <1>1, <1>2, <1>4, <1>5 DEF Yaw
<1>6. CASE s[2] # t[2]
  BY <1>1, <1>2, <1>4, <1>6 DEF Tx
<1> QED
  BY <1>3, <1>5, <1>6

\* Better is a strict order on the candidates of a request, total on those with
\* a loss.
LEMMA BetterStrict ==
  ASSUME IsRequest(request), NEW r \in Ticks, NEW s \in Ticks, NEW t \in Ticks
  PROVE  /\ Better(r, s) /\ Better(s, t) => Better(r, t)
         /\ ~(Better(r, s) /\ Better(s, r))
         /\ HasLoss(r) /\ r # s /\ ~Better(s, r) => Better(r, s)
<1>1. Better(r, s) /\ Better(s, t) => Better(r, t)
  BY RankTyped, PrecedesStrict DEF Better
<1>2. ~(Better(r, s) /\ Better(s, r))
  BY RankTyped, PrecedesStrict DEF Better
<1>3. HasLoss(r) /\ r # s /\ ~Better(s, r) => Better(r, s)
  BY RankTyped, PrecedesStrict, CorrectionsDiffer DEF Better
<1> QED
  BY <1>1, <1>2, <1>3

\* An attempt keeps best_key the best of what was visited, the new row included.
LEMMA AttemptKeepsBest ==
  ASSUME TypeOK, BestOfVisited, NEW t \in Ticks, Attempt(t), UNCHANGED request,
         Visited' = Visited \union {t}
  PROVE  BestOfVisited'
<1>0. IsRequest(request) /\ Visited \subseteq Ticks
  BY DEF TypeOK, Visited
<1>1. \A r, s : HasLoss(r)' = HasLoss(r) /\ Better(r, s)' = Better(r, s)
  BY DEF HasLoss, Better, Loss, Rank, Yaw, Tx
<1>2. ASSUME NEW s \in Ticks
      PROVE  ~Better(s, s)
  BY <1>0, BetterStrict
<1>n. NoTick \notin Ticks
  BY <1>0, RequestParts, NoTickAssumption
<1>3. CASE HasLoss(t) /\ (best = NoTick \/ Better(t, best))
  <2>1. best' = t
    BY <1>3 DEF Attempt
  <2>2. ASSUME NEW s \in Visited \union {t}, HasLoss(s)
        PROVE  ~Better(s, t)
    <3>1. CASE s = t
      BY <1>2, <3>1
    <3>2. CASE s \in Visited
      <4>1. best # NoTick /\ best \in Ticks /\ ~Better(s, best)
        BY <1>0, <2>2, <3>2 DEF BestOfVisited, TypeOK
      <4>2. s \in Ticks /\ Better(t, best)
        BY <1>0, <1>3, <3>2, <4>1
      <4> QED
        BY <1>0, <4>1, <4>2, BetterStrict
    <3> QED
      BY <3>1, <3>2
  <2>3. t # NoTick
    BY <1>n
  <2> QED
    BY <1>1, <1>3, <2>1, <2>2, <2>3 DEF BestOfVisited
<1>4. CASE ~(HasLoss(t) /\ (best = NoTick \/ Better(t, best)))
  <2>1. best' = best
    BY <1>4 DEF Attempt
  <2>2. HasLoss(t) => best # NoTick /\ ~Better(t, best)
    BY <1>4
  <2> QED
    BY <1>1, <2>1, <2>2 DEF BestOfVisited
<1> QED
  BY <1>3, <1>4

-----------------------------------------------------------------------------
(* What the two loop nests have visited                                    *)

Past(i, j) == i < cursor[1] \/ (i = cursor[1] /\ j < cursor[2])

\* The coarse rows are those before the loop variables, then all of them.
CoarseSwept ==
  /\ coarse \subseteq CoarseTicks
  /\ phase \in {"preflight", "refused"} => coarse = {}
  /\ phase = "coarse" =>
       \A i \in 0..request.yaw.span, j \in 0..request.tx.span :
         Past(i, j) => CoarseTick(i, j) \in coarse
  /\ phase \in {"lay_window", "fine", "settle", "diagnose", "done"} => coarse = CoarseTicks

\* b is the best candidate of S.
BestOf(b, S) == /\ b \in S /\ HasLoss(b)
                /\ \A t \in S : HasLoss(t) => ~Better(t, b)

\* The window is laid around the coarse optimum and swept from its low corner;
\* the best candidate never leaves it.
WindowSwept ==
  /\ phase \in {"preflight", "refused", "coarse", "lay_window"} => fine = {}
  /\ phase = "fine" =>
       /\ BestOf(center, CoarseTicks)
       /\ best \in Window(center) /\ fine \subseteq Window(center)
       /\ \A t \in Window(center) : Past(t[1], t[2]) => t \in fine
  /\ phase \in {"settle", "diagnose", "done"} /\ best # NoTick =>
       /\ BestOf(center, CoarseTicks) /\ center \in Ticks
       /\ best \in Window(center) /\ fine = Window(center)
  /\ phase = "done" /\ best = NoTick => \A t \in CoarseTicks : ~HasLoss(t)
  /\ phase \in {"diagnose", "done"} /\ best # NoTick => status = StatusOf(best, center)

IInv == TypeInv /\ BestOfVisited /\ CoarseSwept /\ WindowSwept

\* The coarse grid lies on the fine one.
LEMMA CoarseTicksOnGrid == IsRequest(request) => CoarseTicks \subseteq Ticks
  BY CoarseOnGrid DEF CoarseTicks

\* A candidate of S that no other one of S beats is the reference answer for S.
LEMMA LeastIsUnique ==
  ASSUME IsRequest(request), NEW S \in SUBSET Ticks, NEW b, BestOf(b, S)
  PROVE  Least(S) = b
<1>0. b \in S /\ HasLoss(b) /\ \A t \in S : HasLoss(t) => ~Better(t, b)
  BY DEF BestOf
<1>1. \A t \in S \ {b} : Better(b, t)
  <2> SUFFICES ASSUME NEW t \in S \ {b} PROVE Better(b, t)
    OBVIOUS
  <2>1. ~Better(t, b)
    BY <1>0 DEF Better
  <2> QED
    BY <1>0, <2>1, BetterStrict
<1>2. ASSUME NEW c \in S, HasLoss(c), \A t \in S \ {c} : Better(c, t)
      PROVE  c = b
  <2> SUFFICES ASSUME c # b PROVE FALSE
    OBVIOUS
  <2>1. Better(c, b)
    BY <1>0, <1>2
  <2> QED
    BY <1>0, <1>2, <2>1
<1>3. \E t \in S : HasLoss(t)
  BY <1>0
<1>4. LET P(x) == HasLoss(x) /\ \A t \in S \ {x} : Better(x, t)
      IN (CHOOSE x \in S : P(x)) = b
  BY <1>0, <1>1, <1>2
<1> QED
  BY <1>3, <1>4 DEF Least

\* Definitions that read nothing but the request keep their values with it.
LEMMA RequestDecides ==
  ASSUME UNCHANGED request
  PROVE  /\ Ticks' = Ticks /\ CoarseTicks' = CoarseTicks
         /\ \A i, j : CoarseTick(i, j)' = CoarseTick(i, j)
         /\ \A c : Window(c)' = Window(c)
         /\ \A s, t : Better(s, t)' = Better(s, t)
         /\ \A t : HasLoss(t)' = HasLoss(t)
         /\ \A b, S : BestOf(b, S)' = BestOf(b, S)
<1>1. \A s, t : Better(s, t)' = Better(s, t)
  BY DEF Better, HasLoss, Loss, Rank, Yaw, Tx
<1>2. \A t : HasLoss(t)' = HasLoss(t)
  BY DEF HasLoss, Loss
<1>3. CoarseTicks' = CoarseTicks
  BY DEF CoarseTicks, CoarseTick
<1>4. \A b, S : BestOf(b, S)' = BestOf(b, S)
  BY <1>1, <1>2 DEF BestOf
<1>5. /\ \A i, j : CoarseTick(i, j)' = CoarseTick(i, j)
      /\ \A c : Window(c)' = Window(c)
      /\ Ticks' = Ticks
  BY DEF CoarseTick, Window, Ticks
<1> QED
  BY <1>1, <1>2, <1>3, <1>4, <1>5

\* The invariant holds at start.
LEMMA IInvInit == Init => IInv
<1> SUFFICES ASSUME Init PROVE IInv
  OBVIOUS
<1>1. TypeInv
  BY TypeInvInit
<1>2. BestOfVisited
  BY DEF Init, BestOfVisited, Visited
<1>3. CoarseSwept /\ WindowSwept
  BY DEF Init, CoarseSwept, WindowSwept
<1> QED
  BY <1>1, <1>2, <1>3 DEF IInv

\* A turn of the coarse loops.
LEMMA CoarseVisitStep == IInv /\ CoarseVisit => IInv'
<1> SUFFICES ASSUME IInv, CoarseVisit PROVE IInv'
  OBVIOUS
<1> DEFINE t == CoarseTick(cursor[1], cursor[2])
<1>0. /\ IsRequest(request) /\ UNCHANGED request /\ phase = "coarse"
      /\ cursor[1] \in 0..request.yaw.span /\ cursor[2] \in 0..request.tx.span
      /\ fine' = fine /\ fine = {} /\ coarse' = coarse \union {t}
  BY DEF IInv, TypeInv, TypeOK, CursorInside, CoarseVisit, WindowSwept
<1>1. TypeInv'
  BY TypeInvStep DEF IInv, Next
<1>2. t \in Ticks /\ t \in CoarseTicks
  BY <1>0, CoarseOnGrid DEF CoarseTicks
<1>3. BestOfVisited'
  <2>1. Visited' = Visited \union {t}
    BY <1>0 DEF Visited
  <2> QED
    BY <1>0, <1>2, <2>1, AttemptKeepsBest DEF IInv, TypeInv, CoarseVisit
<1>4. \A i \in 0..request.yaw.span, j \in 0..request.tx.span :
        Past(i, j) \/ <<i, j>> = <<cursor[1], cursor[2]>> => CoarseTick(i, j) \in coarse'
  BY <1>0 DEF IInv, CoarseSwept
<1>5. CASE cursor[2] < request.tx.span
  <2>1. cursor' = <<cursor[1], cursor[2] + 1>> /\ phase' = "coarse"
    BY <1>0, <1>5, RequestParts DEF CoarseVisit
  <2>2. \A i \in 0..request.yaw.span, j \in 0..request.tx.span :
          Past(i, j)' => CoarseTick(i, j) \in coarse'
    BY <1>0, <1>4, <2>1, RequestParts DEF Past
  <2> QED
    BY <1>0, <1>1, <1>2, <1>3, <2>1, <2>2, RequestDecides
       DEF IInv, CoarseSwept, WindowSwept
<1>6. CASE cursor[2] = request.tx.span /\ cursor[1] < request.yaw.span
  <2>1. cursor' = <<cursor[1] + 1, 0>> /\ phase' = "coarse"
    BY <1>0, <1>6, RequestParts DEF CoarseVisit
  <2>2. \A i \in 0..request.yaw.span, j \in 0..request.tx.span :
          Past(i, j)' => CoarseTick(i, j) \in coarse'
    BY <1>0, <1>4, <1>6, <2>1, RequestParts DEF Past
  <2> QED
    BY <1>0, <1>1, <1>2, <1>3, <2>1, <2>2, RequestDecides
       DEF IInv, CoarseSwept, WindowSwept
<1>7. CASE cursor[2] = request.tx.span /\ cursor[1] = request.yaw.span
  <2>1. phase' = "lay_window"
    BY <1>0, <1>7, RequestParts DEF CoarseVisit
  <2>2. \A i \in 0..request.yaw.span, j \in 0..request.tx.span :
          CoarseTick(i, j) \in coarse'
    BY <1>0, <1>4, <1>7, RequestParts DEF Past
  <2>3. coarse' = CoarseTicks
    BY <1>0, <1>2, <2>2 DEF IInv, CoarseSwept, CoarseTicks
  <2> QED
    BY <1>0, <1>1, <1>3, <2>1, <2>3, RequestDecides DEF IInv, CoarseSwept, WindowSwept
<1> QED
  BY <1>0, <1>5, <1>6, <1>7, RequestParts

\* The steps outside the loops.
LEMMA LayWindowStep == IInv /\ LayWindow => IInv'
<1> SUFFICES ASSUME IInv, LayWindow PROVE IInv'
  OBVIOUS
<1>0. /\ IsRequest(request) /\ phase = "lay_window" /\ fine = {} /\ coarse = CoarseTicks
      /\ UNCHANGED <<request, coarse, fine, best>>
  BY DEF IInv, TypeInv, TypeOK, LayWindow, CoarseSwept, WindowSwept
<1>1. TypeInv'
  BY TypeInvStep DEF IInv, Next
<1>2. BestOfVisited'
  BY <1>0, RequestDecides DEF IInv, BestOfVisited, Visited
<1>3. CASE best = NoTick
  <2>1. phase' = "done" /\ \A t \in CoarseTicks : ~HasLoss(t)
    BY <1>0, <1>3 DEF LayWindow, IInv, BestOfVisited, Visited
  <2> QED
    BY <1>0, <1>1, <1>2, <1>3, <2>1, RequestDecides DEF IInv, CoarseSwept, WindowSwept
<1>4. CASE best # NoTick
  <2>1. /\ phase' = "fine" /\ center' = best
        /\ cursor' = <<Low(request.yaw, best[1]), Low(request.tx, best[2])>>
    BY <1>0, <1>4 DEF LayWindow
  <2>2. best \in Ticks /\ BestOf(best, CoarseTicks)
    BY <1>0, <1>4 DEF IInv, TypeInv, TypeOK, BestOfVisited, Visited, BestOf
  <2>3. best \in Window(best)
    BY <1>0, <2>2, WindowOnGrid
  <2>4. \A t \in Window(best) : ~Past(t[1], t[2])'
    BY <1>0, <2>1, <2>2, WindowOnGrid DEF Window, Past
  <2> QED
    BY <1>0, <1>1, <1>2, <2>1, <2>2, <2>3, <2>4, RequestDecides
       DEF IInv, CoarseSwept, WindowSwept
<1> QED
  BY <1>3, <1>4

\* A turn of the loops over the window.
LEMMA FineVisitStep == IInv /\ FineVisit => IInv'
<1> SUFFICES ASSUME IInv, FineVisit PROVE IInv'
  OBVIOUS
<1>0. /\ IsRequest(request) /\ phase = "fine" /\ UNCHANGED <<request, coarse, center>>
      /\ center \in Ticks /\ best \in Ticks /\ cursor \in Window(center)
      /\ fine' = fine \union {cursor} /\ coarse = CoarseTicks
      /\ best \in Window(center) /\ fine \subseteq Window(center) /\ BestOf(center, CoarseTicks)
      /\ \A t \in Window(center) : Past(t[1], t[2]) => t \in fine
  BY DEF IInv, TypeInv, TypeOK, CursorInside, FineVisit, CoarseSwept, WindowSwept
<1>1. TypeInv'
  BY TypeInvStep DEF IInv, Next
<1>2. cursor \in Ticks
  BY <1>0, WindowOnGrid
<1>3. BestOfVisited'
  <2>1. Visited' = Visited \union {cursor}
    BY <1>0 DEF Visited
  <2> QED
    BY <1>0, <1>2, <2>1, AttemptKeepsBest DEF IInv, TypeInv, FineVisit
<1>4. best' \in Window(center) /\ best' # NoTick
  <2>1. NoTick \notin Ticks
    BY <1>0, RequestParts, NoTickAssumption
  <2> QED
    BY <1>0, <1>2, <2>1 DEF FineVisit, Attempt
<1>5. \A t \in Window(center) : Past(t[1], t[2]) \/ t = cursor => t \in fine'
  BY <1>0
<1>6. /\ \A t \in Window(center) :
           /\ t = <<t[1], t[2]>> /\ t[1] \in Nat /\ t[2] \in Nat
           /\ t[1] <= High(request.yaw, center[1])
           /\ Low(request.tx, center[2]) <= t[2] /\ t[2] <= High(request.tx, center[2])
      /\ cursor = <<cursor[1], cursor[2]>> /\ cursor[1] \in Nat /\ cursor[2] \in Nat
      /\ cursor[1] <= High(request.yaw, center[1]) /\ cursor[2] <= High(request.tx, center[2])
      /\ High(request.yaw, center[1]) \in Nat /\ High(request.tx, center[2]) \in Nat
      /\ Low(request.tx, center[2]) \in Nat
  BY <1>0, WindowOnGrid DEF Window
<1>7. CASE cursor[2] < High(request.tx, center[2])
  <2>1. cursor' = <<cursor[1], cursor[2] + 1>> /\ phase' = "fine"
    BY <1>0, <1>6, <1>7 DEF FineVisit
  <2>2. \A t \in Window(center) : Past(t[1], t[2])' => t \in fine'
    BY <1>5, <1>6, <2>1 DEF Past
  <2> QED
    BY <1>0, <1>1, <1>3, <1>4, <2>1, <2>2, RequestDecides DEF IInv, CoarseSwept, WindowSwept
<1>8. CASE cursor[2] = High(request.tx, center[2]) /\ cursor[1] < High(request.yaw, center[1])
  <2>1. cursor' = <<cursor[1] + 1, Low(request.tx, center[2])>> /\ phase' = "fine"
    BY <1>0, <1>6, <1>8 DEF FineVisit
  <2>2. \A t \in Window(center) : Past(t[1], t[2])' => t \in fine'
    BY <1>5, <1>6, <1>8, <2>1 DEF Past
  <2> QED
    BY <1>0, <1>1, <1>3, <1>4, <2>1, <2>2, RequestDecides DEF IInv, CoarseSwept, WindowSwept
<1>9. CASE cursor[2] = High(request.tx, center[2]) /\ cursor[1] = High(request.yaw, center[1])
  <2>1. phase' = "settle"
    BY <1>0, <1>6, <1>9 DEF FineVisit
  <2>2. fine' = Window(center)
    BY <1>0, <1>5, <1>6, <1>9 DEF Past
  <2> QED
    BY <1>0, <1>1, <1>3, <1>4, <2>1, <2>2, RequestDecides DEF IInv, CoarseSwept, WindowSwept
<1> QED
  BY <1>6, <1>7, <1>8, <1>9

\* Every step keeps the invariant.
LEMMA IInvStep == IInv /\ [Next]_vars => IInv'
<1> SUFFICES ASSUME IInv, [Next]_vars PROVE IInv'
  OBVIOUS
<1>0. TypeInv'
  BY TypeInvStep DEF IInv
<1>1. CASE Preflight
  <2>1. /\ UNCHANGED <<request, cursor, coarse, fine, best, center, status>>
        /\ phase = "preflight" /\ phase' \in {"refused", "coarse"} /\ cursor = <<0, 0>>
        /\ IsRequest(request)
    BY <1>1 DEF Preflight, IInv, TypeInv, TypeOK, CursorInside
  <2>2. BestOfVisited'
    BY <2>1, RequestDecides DEF IInv, BestOfVisited, Visited
  <2>3. \A i \in 0..request.yaw.span, j \in 0..request.tx.span : ~Past(i, j)'
    BY <2>1, RequestParts DEF Past
  <2> QED
    BY <1>0, <2>1, <2>2, <2>3, RequestDecides DEF IInv, CoarseSwept, WindowSwept
<1>2. CASE CoarseVisit
  BY <1>2, CoarseVisitStep
<1>3. CASE LayWindow
  BY <1>3, LayWindowStep
<1>4. CASE FineVisit
  BY <1>4, FineVisitStep
<1>5. CASE Settle
  <2>1. /\ UNCHANGED <<request, coarse, fine, best, center>>
        /\ phase = "settle" /\ phase' = "diagnose" /\ status' = StatusOf(best, center)
    BY <1>5 DEF Settle
  <2>2. BestOfVisited'
    BY <2>1, RequestDecides DEF IInv, BestOfVisited, Visited
  <2>3. StatusOf(best, center)' = StatusOf(best, center)
    BY <2>1 DEF StatusOf, OnBound, OnWindowEdge
  <2> QED
    BY <1>0, <2>1, <2>2, <2>3, RequestDecides DEF IInv, CoarseSwept, WindowSwept
<1>6. CASE Diagnose
  <2>1. /\ UNCHANGED <<request, coarse, fine, best, center, status>>
        /\ phase = "diagnose" /\ phase' = "done" /\ best # NoTick
    BY <1>6, RequestParts, NoTickAssumption DEF Diagnose, IInv, TypeInv, TypeOK, CursorInside
  <2>2. BestOfVisited'
    BY <2>1, RequestDecides DEF IInv, BestOfVisited, Visited
  <2>3. StatusOf(best, center)' = StatusOf(best, center)
    BY <2>1 DEF StatusOf, OnBound, OnWindowEdge
  <2> QED
    BY <1>0, <2>1, <2>2, <2>3, RequestDecides DEF IInv, CoarseSwept, WindowSwept
<1>7. CASE UNCHANGED vars
  <2>1. UNCHANGED <<request, phase, cursor, coarse, fine, best, center, status>>
    BY <1>7 DEF vars
  <2>2. BestOfVisited'
    BY <2>1, RequestDecides DEF IInv, BestOfVisited, Visited
  <2>3. /\ StatusOf(best, center)' = StatusOf(best, center)
        /\ \A i, j : Past(i, j)' = Past(i, j)
    BY <2>1 DEF StatusOf, OnBound, OnWindowEdge, Past
  <2> QED
    BY <1>0, <2>1, <2>2, <2>3, RequestDecides DEF IInv, CoarseSwept, WindowSwept
<1> QED
  BY <1>1, <1>2, <1>3, <1>4, <1>5, <1>6, <1>7 DEF Next

\* The four neighbours on the axes are among the eight.
LEMMA AroundHolds ==
  ASSUME NEW t, t = <<t[1], t[2]>>, t[1] \in Nat, t[2] \in Nat
  PROVE  /\ <<t[1] - 1, t[2]>> \in Around(t) /\ <<t[1] + 1, t[2]>> \in Around(t)
         /\ <<t[1], t[2] - 1>> \in Around(t) /\ <<t[1], t[2] + 1>> \in Around(t)
<1>1. <<t[1] + (-1), t[2] + 0>> \in Around(t) /\ <<t[1] + 1, t[2] + 0>> \in Around(t)
  BY DEF Around
<1>2. <<t[1] + 0, t[2] + (-1)>> \in Around(t) /\ <<t[1] + 0, t[2] + 1>> \in Around(t)
  BY DEF Around
<1> QED
  BY <1>1, <1>2

\* The invariant always holds.
LEMMA IInvAlways == Spec => []IInv
  BY IInvInit, IInvStep, PTL DEF Spec

-----------------------------------------------------------------------------
(* The theorems                                                            *)

\* At every moment of the search best_key is the best row visited so far
\* (attempt, betterExtrinsicCandidate).
THEOREM BestSoFar == Spec => []BestOfVisited
<1>1. IInv => BestOfVisited
  BY DEF IInv
<1> QED
  BY <1>1, IInvAlways, PTL

\* The answer is the least candidate of the coarse grid and of the window around
\* the coarse optimum, for every grid and every loss table.
THEOREM AnswerCorrect == Spec => []AnswerIsReferenceOptimum
<1>1. IInv => AnswerIsReferenceOptimum
  <2> SUFFICES ASSUME IInv, phase = "done" PROVE best = Optimum
    BY DEF AnswerIsReferenceOptimum
  <2>0. IsRequest(request) /\ CoarseTicks \subseteq Ticks /\ NoTick \notin Ticks
    BY CoarseTicksOnGrid, RequestParts, NoTickAssumption DEF IInv, TypeInv, TypeOK
  <2>1. CASE best = NoTick
    <3>1. \A t \in CoarseTicks : ~HasLoss(t)
      BY <2>1 DEF IInv, WindowSwept
    <3> QED
      BY <2>1, <3>1 DEF Optimum, CoarseOptimum, Least
  <2>2. CASE best # NoTick
    <3>1. /\ BestOf(center, CoarseTicks) /\ center \in Ticks
          /\ Visited = CoarseTicks \union Window(center)
      BY <2>2 DEF IInv, CoarseSwept, WindowSwept, Visited
    <3>2. CoarseOptimum = center
      BY <2>0, <3>1, LeastIsUnique DEF CoarseOptimum
    <3>3. BestOf(best, CoarseTicks \union Window(center))
      BY <2>2, <3>1 DEF IInv, BestOfVisited, BestOf
    <3>4. CoarseTicks \union Window(center) \subseteq Ticks
      BY <2>0, <3>1, WindowOnGrid
    <3>5. Least(CoarseTicks \union Window(center)) = best
      BY <2>0, <3>3, <3>4, LeastIsUnique
    <3> QED
      BY <2>0, <3>1, <3>2, <3>5 DEF Optimum
  <2> QED
    BY <2>1, <2>2
<1> QED
  BY <1>1, IInvAlways, PTL

\* grid_complete is claimed only for a strict local optimum of the fine grid, and
\* the two other statuses name what was not searched.
THEOREM StatusHonest == Spec => []StatusTellsWhatWasSearched
<1>1. IInv => StatusTellsWhatWasSearched
  <2> SUFFICES ASSUME IInv, phase \in {"diagnose", "done"}, best # NoTick
               PROVE  /\ status = "grid_complete" =>
                           \A t \in Around(best) : t \in fine /\ Better(best, t)
                      /\ status = "refinement_limited" =>
                           Around(best) \subseteq Ticks /\ ~(Around(best) \subseteq fine)
                      /\ status = "bound_limited" => ~(Around(best) \subseteq Ticks)
    BY DEF StatusTellsWhatWasSearched
  <2> DEFINE yl == Low(request.yaw, center[1])
             yh == High(request.yaw, center[1])
             xl == Low(request.tx, center[2])
             xh == High(request.tx, center[2])
  <2>0. /\ IsRequest(request) /\ center \in Ticks /\ best \in Window(center)
        /\ fine = Window(center) /\ status = StatusOf(best, center)
    BY DEF IInv, TypeInv, TypeOK, WindowSwept
  <2>1. /\ yl \in Nat /\ yh \in Nat /\ xl \in Nat /\ xh \in Nat
        /\ yh <= LastTick(request.yaw) /\ xh <= LastTick(request.tx)
        /\ LastTick(request.yaw) \in Nat /\ LastTick(request.tx) \in Nat
        /\ Window(center) \subseteq Ticks /\ best \in Ticks
    BY <2>0, WindowOnGrid, RequestParts
  <2>2. /\ best = <<best[1], best[2]>> /\ best[1] \in Nat /\ best[2] \in Nat
        /\ yl <= best[1] /\ best[1] <= yh /\ xl <= best[2] /\ best[2] <= xh
    BY <2>0, <2>1 DEF Window
  <2>3. ASSUME status = "grid_complete", NEW t \in Around(best)
        PROVE  t \in fine /\ Better(best, t)
    <3>1. yl < best[1] /\ best[1] < yh /\ xl < best[2] /\ best[2] < xh
      BY <2>0, <2>1, <2>2, <2>3 DEF StatusOf, OnBound, OnWindowEdge
    <3>2. PICK dy \in -1..1, dx \in -1..1 : t = <<best[1] + dy, best[2] + dx>>
      BY <2>3 DEF Around
    <3>3. t \in fine /\ t # best
      BY <2>0, <2>1, <2>2, <2>3, <3>1, <3>2 DEF Window, Around
    <3>4. HasLoss(best) /\ ~Better(t, best)
      BY <3>3 DEF IInv, BestOfVisited, Visited, Better
    <3> QED
      BY <2>0, <2>1, <3>3, <3>4, BetterStrict
  <2>4. ASSUME status = "refinement_limited"
        PROVE  Around(best) \subseteq Ticks /\ ~(Around(best) \subseteq fine)
    <3>1. /\ 0 < best[1] /\ best[1] < LastTick(request.yaw)
          /\ 0 < best[2] /\ best[2] < LastTick(request.tx)
          /\ best[1] = yl \/ best[1] = yh \/ best[2] = xl \/ best[2] = xh
      BY <2>0, <2>1, <2>2, <2>4 DEF StatusOf, OnBound, OnWindowEdge
    <3>2. Around(best) \subseteq Ticks
      BY <2>1, <2>2, <3>1 DEF Around, Ticks, TicksOf
    <3>3. /\ <<best[1] - 1, best[2]>> \in Around(best)
          /\ <<best[1] + 1, best[2]>> \in Around(best)
          /\ <<best[1], best[2] - 1>> \in Around(best)
          /\ <<best[1], best[2] + 1>> \in Around(best)
      BY <2>2, AroundHolds
    <3>4. \/ <<best[1] - 1, best[2]>> \notin fine
          \/ <<best[1] + 1, best[2]>> \notin fine
          \/ <<best[1], best[2] - 1>> \notin fine
          \/ <<best[1], best[2] + 1>> \notin fine
      BY <2>0, <2>1, <2>2, <3>1 DEF Window
    <3> QED
      BY <3>2, <3>3, <3>4
  <2>5. ASSUME status = "bound_limited"
        PROVE  ~(Around(best) \subseteq Ticks)
    <3>1. \/ best[1] = 0 \/ best[1] = LastTick(request.yaw)
          \/ best[2] = 0 \/ best[2] = LastTick(request.tx)
      BY <2>0, <2>5 DEF StatusOf, OnBound, OnWindowEdge
    <3>2. /\ <<best[1] - 1, best[2]>> \in Around(best)
          /\ <<best[1] + 1, best[2]>> \in Around(best)
          /\ <<best[1], best[2] - 1>> \in Around(best)
          /\ <<best[1], best[2] + 1>> \in Around(best)
      BY <2>2, AroundHolds
    <3> QED
      BY <2>1, <2>2, <3>1, <3>2 DEF Ticks, TicksOf
  <2> QED
    BY <2>3, <2>4, <2>5
<1> QED
  BY <1>1, IInvAlways, PTL

-----------------------------------------------------------------------------
(* What the search costs: the rows visited are counted against the bound   *)
(* of the preflight, and the passes of the diagnosis against what the      *)
(* cache has saved by then.                                                *)

LEMMA ProductMonotonic ==
  ASSUME NEW a \in Nat, NEW b \in Nat, NEW c \in Nat, NEW d \in Nat, a <= b, c <= d
  PROVE  a * c <= b * d
<1>1. PICK e \in Nat : b = a + e
  <2>1. b - a \in Nat /\ b = a + (b - a)
    OBVIOUS
  <2> QED BY <2>1
<1>2. PICK f \in Nat : d = c + f
  <2>1. d - c \in Nat /\ d = c + (d - c)
    OBVIOUS
  <2> QED BY <2>1
<1>3. b * d = a * c + a * f + e * c + e * f
  BY <1>1, <1>2
<1>4. a * c \in Nat /\ a * f \in Nat /\ e * c \in Nat /\ e * f \in Nat
  BY <1>1, <1>2
<1> QED BY <1>3, <1>4

\* Factors that pass a test by division pass the one by multiplication.
LEMMA QuotientBounds ==
  ASSUME NEW m \in Nat, NEW a \in Nat \ {0}, NEW o \in Nat, o <= m \div a
  PROVE  o * a <= m
<1>1. m \div a \in Nat /\ (m \div a) * a <= m
  BY Z3
<1>2. o * a <= (m \div a) * a
  BY <1>1, ProductMonotonic
<1>3. o * a \in Nat /\ (m \div a) * a \in Nat
  BY <1>1
<1> QED BY <1>1, <1>2, <1>3

LEMMA PairHasTwo ==
  ASSUME NEW a, NEW b
  PROVE  /\ IsFiniteSet({a, b}) /\ Cardinality({a, b}) \in Nat /\ Cardinality({a, b}) <= 2
         /\ a # b => Cardinality({a, b}) = 2
<1>1. IsFiniteSet({a}) /\ Cardinality({a}) = 1
  BY FS_Singleton
<1>2. /\ IsFiniteSet({a} \cup {b})
      /\ Cardinality({a} \cup {b}) = IF b \in {a} THEN 1 ELSE 2
  BY <1>1, FS_AddElement
<1>3. {a} \cup {b} = {a, b}
  OBVIOUS
<1> QED BY <1>2, <1>3

-----------------------------------------------------------------------------
(* The sizes of the grid and of the window                                 *)

LEMMA CoarseSize ==
  ASSUME IsRequest(request)
  PROVE  /\ IsFiniteSet(CoarseTicks) /\ Cardinality(CoarseTicks) \in Nat
         /\ Cardinality(CoarseTicks) <= (request.yaw.span + 1) * (request.tx.span + 1)
<1> DEFINE Y == request.yaw.span
           X == request.tx.span
           Box == (0..Y) \X (0..X)
<1>1. Y \in Nat /\ X \in Nat
  BY RequestParts
<1>2. IsFiniteSet(Box) /\ Cardinality(Box) = (Y + 1) * (X + 1)
  <2> DEFINE S == 0..Y
             T == 0..X
             m == Y + 1
             n == X + 1
  <2>1. IsFiniteSet(S) /\ Cardinality(S) = m /\ IsFiniteSet(T) /\ Cardinality(T) = n
    <3>1. ASSUME NEW a \in Int, NEW b \in Nat, a = 0
          PROVE  IsFiniteSet(a..b) /\ Cardinality(a..b) = b + 1
      BY <3>1, FS_Interval
    <3>2. ASSUME NEW b \in Nat
          PROVE  IsFiniteSet(0..b) /\ Cardinality(0..b) = b + 1
      <4>1. 0 \in Int
        OBVIOUS
      <4> QED BY <4>1, <3>1
    <3> QED BY <1>1, <3>2
  <2>2. IsFiniteSet(S \X T) /\ Cardinality(S \X T) = m * n
    <3> HIDE DEF S, T, m, n
    <3> QED BY <2>1, FS_Product
  <2> QED BY <2>2
<1>3. [p \in Box |-> CoarseTick(p[1], p[2])] \in Surjection(Box, CoarseTicks)
  <2> DEFINE F == [p \in Box |-> CoarseTick(p[1], p[2])]
  <2>1. ASSUME NEW p \in Box PROVE F[p] \in CoarseTicks
    BY DEF CoarseTicks
  <2>2. F \in [Box -> CoarseTicks]
    BY <2>1
  <2>3. ASSUME NEW t \in CoarseTicks PROVE \E p \in Box : F[p] = t
    <3>1. PICK i \in 0..Y, j \in 0..X : t = CoarseTick(i, j)
      BY DEF CoarseTicks
    <3>2. <<i, j>> \in Box /\ F[<<i, j>>] = t
      BY <3>1
    <3> QED BY <3>2
  <2> HIDE DEF F, Box
  <2>4. F \in Surjection(Box, CoarseTicks)
    BY <2>2, <2>3 DEF Surjection
  <2> QED BY <2>4 DEF F
<1>4. IsFiniteSet(CoarseTicks) /\ Cardinality(CoarseTicks) <= Cardinality(Box)
  BY <1>2, <1>3, FS_Surjection
<1> QED BY <1>2, <1>4, FS_CardinalityType

\* A side of the window is no longer than the preflight takes it to be.
LEMMA WindowSide ==
  ASSUME NEW axis \in Axes, NEW t \in 0..LastTick(axis)
  PROVE  /\ Low(axis, t) \in Nat /\ High(axis, t) \in Nat /\ WindowWidth(axis) \in Nat \ {0}
         /\ Low(axis, t) <= High(axis, t)
         /\ High(axis, t) - Low(axis, t) + 1 <= WindowWidth(axis)
<1>1. axis.stride \in Nat \ {0} /\ axis.span \in Nat
  BY DEF Axes
<1>2. LastTick(axis) \in Nat
  BY <1>1 DEF LastTick
<1> QED BY <1>1, <1>2 DEF Low, High, WindowWidth

LEMMA WindowSize ==
  ASSUME IsRequest(request), NEW c \in Ticks
  PROVE  /\ IsFiniteSet(Window(c)) /\ Cardinality(Window(c)) \in Nat
         /\ Cardinality(Window(c)) <= WindowWidth(request.yaw) * WindowWidth(request.tx)
<1> DEFINE yl == Low(request.yaw, c[1])
           yh == High(request.yaw, c[1])
           xl == Low(request.tx, c[2])
           xh == High(request.tx, c[2])
<1>1. /\ request.yaw \in Axes /\ request.tx \in Axes
      /\ c[1] \in 0..LastTick(request.yaw) /\ c[2] \in 0..LastTick(request.tx)
  BY DEF IsRequest, Ticks, TicksOf
<1>2. /\ yl \in Nat /\ yh \in Nat /\ yl <= yh /\ yh - yl + 1 <= WindowWidth(request.yaw)
      /\ xl \in Nat /\ xh \in Nat /\ xl <= xh /\ xh - xl + 1 <= WindowWidth(request.tx)
      /\ WindowWidth(request.yaw) \in Nat /\ WindowWidth(request.tx) \in Nat
  BY <1>1, WindowSide
<1>3. Window(c) = (yl..yh) \X (xl..xh)
  BY DEF Window
<1>4. IsFiniteSet(Window(c)) /\ Cardinality(Window(c)) = (yh - yl + 1) * (xh - xl + 1)
  <2> DEFINE S == yl..yh
             T == xl..xh
             m == yh - yl + 1
             n == xh - xl + 1
  <2>1. IsFiniteSet(S) /\ Cardinality(S) = m
    BY <1>2, FS_Interval
  <2>2. IsFiniteSet(T) /\ Cardinality(T) = n
    BY <1>2, FS_Interval
  <2>3. IsFiniteSet(S \X T) /\ Cardinality(S \X T) = m * n
    <3> HIDE DEF S, T, m, n
    <3> QED BY <2>1, <2>2, FS_Product
  <2> QED BY <1>3, <2>3
<1> HIDE DEF yl, yh, xl, xh
<1>5. yh - yl + 1 \in Nat /\ xh - xl + 1 \in Nat
  BY <1>2
<1>6. (yh - yl + 1) * (xh - xl + 1) <= WindowWidth(request.yaw) * WindowWidth(request.tx)
  BY <1>2, <1>5, ProductMonotonic
<1> QED BY <1>4, <1>6, FS_CardinalityType

\* A coarse step to one side at least stays on the axis and in the window.
LEMMA CoarseNeighbour ==
  ASSUME NEW axis \in Axes, NEW i \in 0..axis.span
  PROVE  \E k \in 0..axis.span : /\ k * axis.stride # i * axis.stride
                                 /\ \A l \in {i, k} : l * axis.stride \in
                                      Low(axis, i * axis.stride)..High(axis, i * axis.stride)
<1> DEFINE n == axis.span
           s == axis.stride
           last == n * s
           t == i * s
<1>1. n \in Nat \ {0} /\ s \in Nat \ {0} /\ i \in Nat /\ i <= n
  BY DEF Axes
<1>2. t \in 0..last /\ last \in Nat /\ LastTick(axis) = last
  BY <1>1, CoarseFits DEF LastTick
<1>3. CASE i < n
  <2>1. (i + 1) * s = t + s /\ (i + 1) * s \in 0..last
    BY <1>1, <1>3, CoarseFits
  <2>2. i + 1 \in 0..n
    BY <1>1, <1>3
  <2> HIDE DEF n, s, last, t
  <2>3. t + s # t /\ \A x \in {t, t + s} : x \in Low(axis, t)..High(axis, t)
    BY <1>1, <1>2, <2>1 DEF Low, High, s
  <2> QED BY <2>1, <2>2, <2>3 DEF n, s, t
<1>4. CASE i = n
  <2>1. PICK k \in 0..n : i = k + 1
    <3>1. i - 1 \in 0..n /\ i = (i - 1) + 1
      BY <1>1, <1>4
    <3> QED BY <3>1
  <2>2. k * s \in Nat /\ t = k * s + s
    <3>1. k \in Nat /\ s \in Nat /\ t = (k + 1) * s
      BY <1>1, <2>1
    <3> HIDE DEF s, t
    <3>2. k * s \in Nat /\ (k + 1) * s = k * s + s
      BY <3>1
    <3> QED BY <3>1, <3>2
  <2> DEFINE u == k * s
  <2> HIDE DEF n, s, last, t, u
  <2>3. u # t /\ \A x \in {t, u} : x \in Low(axis, t)..High(axis, t)
    BY <1>1, <1>2, <2>2 DEF Low, High, s, u
  <2> QED BY <2>1, <2>3 DEF n, s, t, u
<1> QED BY <1>1, <1>3, <1>4

\* The window visits at least four coarse candidates again.
LEMMA FourAgain ==
  ASSUME IsRequest(request), NEW c \in CoarseTicks
  PROVE  /\ IsFiniteSet(CoarseTicks \cap Window(c))
         /\ 4 <= Cardinality(CoarseTicks \cap Window(c))
<1>1. PICK i \in 0..request.yaw.span, j \in 0..request.tx.span : c = CoarseTick(i, j)
  BY DEF CoarseTicks
<1>2. request.yaw \in Axes /\ request.tx \in Axes
  BY DEF IsRequest
<1> DEFINE y == i * request.yaw.stride
           x == j * request.tx.stride
<1>3. PICK k \in 0..request.yaw.span :
        /\ k * request.yaw.stride # y
        /\ \A l \in {i, k} : l * request.yaw.stride \in Low(request.yaw, y)..High(request.yaw, y)
  BY <1>1, <1>2, CoarseNeighbour
<1>4. PICK m \in 0..request.tx.span :
        /\ m * request.tx.stride # x
        /\ \A l \in {j, m} : l * request.tx.stride \in Low(request.tx, x)..High(request.tx, x)
  BY <1>1, <1>2, CoarseNeighbour
<1> DEFINE Rows == {y, k * request.yaw.stride}
           Columns == {x, m * request.tx.stride}
<1>5. /\ Window(c) = (Low(request.yaw, y)..High(request.yaw, y))
                       \X (Low(request.tx, x)..High(request.tx, x))
  BY <1>1 DEF Window, CoarseTick
<1>6. Rows \X Columns \subseteq Window(c)
  BY <1>3, <1>4, <1>5
<1>7. Rows \X Columns \subseteq CoarseTicks
  BY <1>1, <1>3, <1>4 DEF CoarseTicks, CoarseTick
<1>8. /\ IsFiniteSet(Rows) /\ Cardinality(Rows) = 2
      /\ IsFiniteSet(Columns) /\ Cardinality(Columns) = 2
  BY <1>3, <1>4, PairHasTwo
<1>9. IsFiniteSet(Rows \X Columns) /\ Cardinality(Rows \X Columns) = 4
  <2> HIDE DEF Rows, Columns
  <2>1. Cardinality(Rows \X Columns) = 2 * 2 /\ IsFiniteSet(Rows \X Columns)
    BY <1>8, FS_Product
  <2> QED BY <2>1
<1>10. IsFiniteSet(CoarseTicks \cap Window(c))
  BY CoarseSize, FS_Intersection
<1> HIDE DEF Rows, Columns
<1>11. Rows \X Columns \subseteq CoarseTicks \cap Window(c)
  BY <1>6, <1>7
<1>12. Cardinality(Rows \X Columns) <= Cardinality(CoarseTicks \cap Window(c))
  BY <1>10, <1>11, FS_Subset
<1> QED BY <1>9, <1>10, <1>12

-----------------------------------------------------------------------------
(* The invariant                                                           *)

\* Every visited row was projected once, within the budget; what was visited again
\* lies in a window around a coarse candidate.
Spent ==
  /\ IsFiniteSet(Visited)
  /\ evaluated = request.observations * Cardinality(Visited)
  /\ phase \notin {"preflight", "refused"} => ~OverBudget(request)
  /\ fine # {} => center \in CoarseTicks /\ fine \subseteq Window(center)

\* The probe is of the answer, and there is none before the diagnosis.
OneSidedOn(ys, xs) == \/ ~Blind(ys) /\ ~TwoSided(ys)
                      \/ ~Blind(ys) /\ ~Blind(xs) /\ ~TwoSided(xs)
Passes(ys, xs) == 1 + Cardinality(ys) + (IF Blind(ys) THEN 0 ELSE Cardinality(xs))
Diagnosed ==
  /\ phase # "done" \/ best = NoTick => probe = NoProbe
  /\ phase = "done" /\ best # NoTick =>
       /\ probe.points = Passes(YawSides(best), TxSides(best)) * request.observations
       /\ probe.oneSided => OneSidedOn(YawSides(best), TxSides(best))

BInv == Spent /\ Diagnosed

LEMMA BInvInit == Init => BInv
<1> SUFFICES ASSUME Init PROVE BInv
  OBVIOUS
<1>1. Visited = {} /\ Cardinality({}) = 0 /\ IsFiniteSet({})
  BY FS_EmptySet DEF Init, Visited
<1>2. request.observations \in Nat
  BY SearchesAssumption, RequestParts DEF Init
<1>3. request.observations * 0 = 0
  BY <1>2
<1> QED BY <1>1, <1>3 DEF Init, BInv, Spent, Diagnosed

\* A row that is new costs one pass, one that is there costs nothing.
LEMMA AttemptCounts ==
  ASSUME IsRequest(request), IsFiniteSet(Visited),
         evaluated = request.observations * Cardinality(Visited),
         NEW t, Attempt(t), UNCHANGED request, Visited' = Visited \cup {t}
  PROVE  IsFiniteSet(Visited)' /\ (evaluated = request.observations * Cardinality(Visited))'
<1>1. /\ IsFiniteSet(Visited \cup {t})
      /\ Cardinality(Visited \cup {t}) =
           IF t \in Visited THEN Cardinality(Visited) ELSE Cardinality(Visited) + 1
  BY FS_AddElement
<1>2. Cardinality(Visited) \in Nat /\ request.observations \in Nat
  BY RequestParts, FS_CardinalityType
<1>3. evaluated' = IF t \in Visited THEN evaluated ELSE evaluated + request.observations
  BY DEF Attempt
<1>4. request.observations * (Cardinality(Visited) + 1)
        = request.observations * Cardinality(Visited) + request.observations
  BY <1>2
<1> QED BY <1>1, <1>3, <1>4

LEMMA SpentStep == IInv /\ Spent /\ [Next]_vars => Spent'
<1> SUFFICES ASSUME IInv, Spent, [Next]_vars PROVE Spent'
  OBVIOUS
<1>0. IsRequest(request)
  BY DEF IInv, TypeInv, TypeOK
<1>1. CASE Preflight
  <2>1. /\ UNCHANGED <<request, coarse, fine, center, evaluated>>
        /\ phase' \notin {"preflight", "refused"} => ~OverBudget(request)
    BY <1>1 DEF Preflight
  <2>2. OverBudget(request)' = OverBudget(request) /\ Visited' = Visited
        /\ CoarseTicks' = CoarseTicks /\ Window(center)' = Window(center)
    BY <2>1 DEF OverBudget, MaximumAttempts, WindowWidth, LastTick, Visited, CoarseTicks,
                CoarseTick, Window, Low, High
  <2> QED BY <2>1, <2>2 DEF Spent
<1>2. CASE CoarseVisit
  <2> DEFINE t == CoarseTick(cursor[1], cursor[2])
  <2>1. /\ phase = "coarse" /\ UNCHANGED <<request, center, fine>> /\ Attempt(t)
        /\ coarse' = coarse \cup {t} /\ fine = {}
    BY <1>2 DEF CoarseVisit, IInv, WindowSwept
  <2>2. Visited' = Visited \cup {t}
    BY <2>1 DEF Visited
  <2>3. ~OverBudget(request)'
    BY <2>1 DEF Spent, OverBudget, MaximumAttempts, WindowWidth, LastTick
  <2>4. IsFiniteSet(Visited)' /\ (evaluated = request.observations * Cardinality(Visited))'
    BY <1>0, <2>1, <2>2, AttemptCounts DEF Spent
  <2> QED BY <2>1, <2>3, <2>4 DEF Spent
<1>3. CASE FineVisit
  <2>1. /\ phase = "fine" /\ UNCHANGED <<request, coarse, center>> /\ Attempt(cursor)
        /\ fine' = fine \cup {cursor} /\ cursor \in Window(center)
        /\ fine \subseteq Window(center) /\ center \in CoarseTicks
    BY <1>3 DEF FineVisit, IInv, TypeInv, CursorInside, WindowSwept, BestOf
  <2>2. Visited' = Visited \cup {cursor}
    BY <2>1 DEF Visited
  <2>3. ~OverBudget(request)'
    BY <2>1 DEF Spent, OverBudget, MaximumAttempts, WindowWidth, LastTick
  <2>4. IsFiniteSet(Visited)' /\ (evaluated = request.observations * Cardinality(Visited))'
    BY <1>0, <2>1, <2>2, AttemptCounts DEF Spent
  <2>5. CoarseTicks' = CoarseTicks /\ Window(center)' = Window(center)
    BY <2>1 DEF CoarseTicks, CoarseTick, Window, Low, High, LastTick
  <2> QED BY <2>1, <2>3, <2>4, <2>5 DEF Spent
<1>4. CASE LayWindow \/ Settle \/ Diagnose \/ UNCHANGED vars
  <2>1. /\ UNCHANGED <<request, coarse, fine, evaluated>>
        /\ phase' \notin {"preflight", "refused"} => phase \notin {"preflight", "refused"}
        /\ fine # {} => center' = center
    BY <1>4 DEF LayWindow, Settle, Diagnose, vars, IInv, WindowSwept
  <2>2. OverBudget(request)' = OverBudget(request) /\ Visited' = Visited
        /\ CoarseTicks' = CoarseTicks
    BY <2>1 DEF OverBudget, MaximumAttempts, WindowWidth, LastTick, Visited, CoarseTicks, CoarseTick
  <2>3. fine # {} => Window(center)' = Window(center)
    BY <2>1 DEF Window, Low, High, LastTick
  <2> QED BY <2>1, <2>2, <2>3 DEF Spent
<1> QED BY <1>1, <1>2, <1>3, <1>4 DEF Next

\* The sides of a candidate depend on the request and on nothing else.
LEMMA SidesStay ==
  ASSUME UNCHANGED <<request, best>>
  PROVE  /\ YawSides(best)' = YawSides(best) /\ TxSides(best)' = TxSides(best)
         /\ \A S : Blind(S)' = Blind(S) /\ TwoSided(S)' = TwoSided(S)
<1>1. \A t : Pixels(t)' = Pixels(t)
  BY DEF Pixels, Ticks, Loss
<1>2. \A S : Blind(S)' = Blind(S) /\ TwoSided(S)' = TwoSided(S)
  BY <1>1 DEF Blind, TwoSided
<1> QED BY <1>2 DEF YawSides, TxSides, YawBelow, YawAbove, TxBelow, TxAbove, Ticks

LEMMA DiagnosedStep == IInv /\ Diagnosed /\ [Next]_vars => Diagnosed'
<1> SUFFICES ASSUME IInv, Diagnosed, [Next]_vars PROVE Diagnosed'
  OBVIOUS
<1> DEFINE ys == YawSides(best)
           xs == TxSides(best)
<1>1. CASE Preflight \/ CoarseVisit \/ FineVisit \/ Settle
  <2>1. phase # "done" /\ phase' # "done" /\ probe' = probe
    BY <1>1 DEF Preflight, CoarseVisit, FineVisit, Settle
  <2> QED BY <2>1 DEF Diagnosed, NoProbe
<1>2. CASE LayWindow
  <2>1. phase # "done" /\ probe' = probe /\ best' = best /\ (phase' = "done" => best = NoTick)
    BY <1>2 DEF LayWindow
  <2> QED BY <2>1 DEF Diagnosed, NoProbe
<1>3. CASE Diagnose
  <2>1. UNCHANGED <<request, best>> /\ phase' = "done" /\ best # NoTick
    BY <1>3, NoTickAssumption, RequestParts DEF Diagnose, IInv, TypeInv, TypeOK, CursorInside,
       Ticks, TicksOf
  <2>2. probe'.points = Passes(ys, xs) * request.observations
        /\ probe'.oneSided = OneSidedOn(ys, xs)
    BY <1>3 DEF Diagnose, Passes, OneSidedOn
  <2>3. /\ YawSides(best)' = ys /\ TxSides(best)' = xs
        /\ Passes(YawSides(best), TxSides(best))' = Passes(ys, xs)
        /\ OneSidedOn(YawSides(best), TxSides(best))' = OneSidedOn(ys, xs)
    BY <2>1, SidesStay DEF Passes, OneSidedOn
  <2> QED BY <2>1, <2>2, <2>3 DEF Diagnosed
<1>4. CASE UNCHANGED vars
  <2>1. UNCHANGED <<request, best, phase, probe>>
    BY <1>4 DEF vars
  <2>2. /\ Passes(YawSides(best), TxSides(best))' = Passes(ys, xs)
        /\ OneSidedOn(YawSides(best), TxSides(best))' = OneSidedOn(ys, xs)
    BY <2>1, SidesStay DEF Passes, OneSidedOn
  <2> QED BY <2>1, <2>2 DEF Diagnosed, NoProbe
<1> QED BY <1>1, <1>2, <1>3, <1>4 DEF Next

LEMMA BInvAlways == Spec => []BInv
<1>1. IInv /\ BInv /\ [Next]_vars => BInv'
  BY SpentStep, DiagnosedStep DEF BInv
<1> QED BY <1>1, BInvInit, IInvAlways, PTL DEF Spec

-----------------------------------------------------------------------------
(* The theorems                                                            *)

\* The rows visited stay below the preflight's bound, by four once the window is
\* being visited.
LEMMA VisitsCounted ==
  ASSUME IInv, Spent
  PROVE  /\ Cardinality(Visited) \in Nat /\ MaximumAttempts(request) \in Nat \ {0}
         /\ Cardinality(Visited) <= MaximumAttempts(request)
         /\ fine # {} => Cardinality(Visited) + 4 <= MaximumAttempts(request)
<1> DEFINE C == (request.yaw.span + 1) * (request.tx.span + 1)
           W == WindowWidth(request.yaw) * WindowWidth(request.tx)
<1>0. IsRequest(request) /\ coarse \subseteq CoarseTicks
  BY DEF IInv, TypeInv, TypeOK, CoarseSwept
<1>1. C \in Nat \ {0}
  <2>1. ASSUME NEW a \in Nat, NEW b \in Nat PROVE (a + 1) * (b + 1) \in Nat \ {0}
    <3>1. (a + 1) * (b + 1) = a * b + a + b + 1 /\ a * b \in Nat
      OBVIOUS
    <3> QED BY <3>1
  <2> QED BY <1>0, <2>1, RequestParts
<1>2. W \in Nat
  <2>1. WindowWidth(request.yaw) \in Nat /\ WindowWidth(request.tx) \in Nat
    BY <1>0, RequestParts DEF WindowWidth
  <2> QED BY <2>1
<1>3. MaximumAttempts(request) = C + W
  BY DEF MaximumAttempts
<1>4. /\ IsFiniteSet(CoarseTicks) /\ Cardinality(CoarseTicks) \in Nat
      /\ Cardinality(CoarseTicks) <= C
  BY <1>0, CoarseSize
<1>5. IsFiniteSet(Visited) /\ Cardinality(Visited) \in Nat
  BY FS_CardinalityType DEF Spent
<1> HIDE DEF C, W
<1>6. CASE fine = {}
  <2>1. Visited \subseteq CoarseTicks
    BY <1>0, <1>6 DEF Visited
  <2>2. Cardinality(Visited) <= Cardinality(CoarseTicks)
    BY <1>4, <2>1, FS_Subset
  <2> QED BY <1>1, <1>2, <1>3, <1>4, <1>5, <1>6, <2>2
<1>7. CASE fine # {}
  <2> DEFINE B == Window(center)
  <2>1. center \in CoarseTicks /\ center \in Ticks /\ fine \subseteq B
    BY <1>0, <1>7, CoarseTicksOnGrid DEF Spent
  <2>2. IsFiniteSet(B) /\ Cardinality(B) \in Nat /\ Cardinality(B) <= W
    BY <1>0, <2>1, WindowSize DEF W
  <2>3. 4 <= Cardinality(CoarseTicks \cap B) /\ Cardinality(CoarseTicks \cap B) \in Nat
    BY <1>0, <2>1, FourAgain, FS_CardinalityType
  <2> HIDE DEF B
  <2>4. /\ IsFiniteSet(CoarseTicks \cup B)
        /\ Cardinality(CoarseTicks \cup B) =
             Cardinality(CoarseTicks) + Cardinality(B) - Cardinality(CoarseTicks \cap B)
    BY <1>4, <2>2, FS_Union
  <2>5. Visited \subseteq CoarseTicks \cup B
    BY <1>0, <2>1 DEF Visited
  <2>6. Cardinality(Visited) <= Cardinality(CoarseTicks \cup B)
    BY <2>4, <2>5, FS_Subset
  <2>7. Cardinality(CoarseTicks \cup B) + 4 <= C + W /\ Cardinality(CoarseTicks \cup B) \in Int
    BY <1>1, <1>2, <1>4, <2>2, <2>3, <2>4
  <2> QED BY <1>1, <1>2, <1>3, <1>5, <2>6, <2>7
<1> QED BY <1>6, <1>7

\* What the preflight decides: as many passes as there are attempts at the most fit.
LEMMA BudgetCovers ==
  ASSUME IsRequest(request), ~OverBudget(request), MaximumAttempts(request) \in Nat \ {0}
  PROVE  /\ MaximumAttempts(request) <= request.maxCandidates
         /\ request.observations * MaximumAttempts(request) <= request.maxProjections
<1>1. /\ request.observations \in Nat /\ request.maxProjections \in Nat
      /\ request.maxCandidates \in Nat
  BY DEF IsRequest
<1>2. MaximumAttempts(request) <= request.maxCandidates
  BY <1>1 DEF OverBudget
<1>3. request.observations <= request.maxProjections \div MaximumAttempts(request)
  <2>1. request.maxProjections \div MaximumAttempts(request) \in Int
    BY <1>1
  <2>2. ~(request.observations > request.maxProjections \div MaximumAttempts(request))
    BY DEF OverBudget
  <2> QED BY <1>1, <2>1, <2>2
<1> QED BY <1>1, <1>2, <1>3, QuotientBounds

\* Neither configured limit is passed at any moment, for every grid and budget: the
\* preflight's bound covers what the cache leaves to project (attempt, the budget
\* checks of searchExtrinsicCorrection).
THEOREM BudgetKept == Spec => []VisitsWithinBudget
<1>1. IInv /\ BInv => VisitsWithinBudget
  <2> SUFFICES ASSUME IInv, Spent PROVE VisitsWithinBudget
    BY DEF BInv
  <2> DEFINE V == Cardinality(Visited)
             M == MaximumAttempts(request)
  <2>1. V \in Nat /\ M \in Nat \ {0} /\ V <= M
    BY VisitsCounted
  <2>2. ASSUME Visited # {}
        PROVE  V <= request.maxCandidates /\ evaluated <= request.maxProjections
    <3>1. phase \notin {"preflight", "refused"} /\ IsRequest(request)
      BY <2>2 DEF IInv, TypeInv, TypeOK, CoarseSwept, WindowSwept, Visited
    <3>2. M <= request.maxCandidates /\ request.observations * M <= request.maxProjections
      BY <2>1, <3>1, BudgetCovers DEF Spent
    <3>3. request.observations \in Nat /\ request.maxCandidates \in Nat
          /\ request.maxProjections \in Nat
      BY <3>1 DEF IsRequest
    <3> HIDE DEF V, M
    <3>4. request.observations * V <= request.observations * M
      BY <2>1, <3>3, ProductMonotonic
    <3>5. request.observations * V \in Nat /\ request.observations * M \in Nat
      BY <2>1, <3>3
    <3>6. evaluated = request.observations * V
      BY DEF Spent, V
    <3> QED BY <2>1, <3>2, <3>3, <3>4, <3>5, <3>6
  <2>3. evaluated = request.observations * V
    BY DEF Spent
  <2> QED BY <2>2, <2>3 DEF VisitsWithinBudget
<1> QED BY <1>1, IInvAlways, BInvAlways, PTL

\* The diagnosis, which no budget covers, passes the limit by one pass over the
\* observations at the most (diagnoseIdentifiability after the search).
THEOREM DiagnosisBounded == Spec => []DiagnosisOverrunsByOnePass
<1>1. IInv /\ BInv => DiagnosisOverrunsByOnePass
  <2> SUFFICES ASSUME IInv, Spent, Diagnosed, probe.points > 0
               PROVE  evaluated + probe.points <= request.maxProjections + request.observations
    BY DEF BInv, DiagnosisOverrunsByOnePass
  <2> DEFINE V == Cardinality(Visited)
             M == MaximumAttempts(request)
             o == request.observations
             ys == YawSides(best)
             xs == TxSides(best)
  <2>1. phase = "done" /\ best # NoTick
    BY DEF Diagnosed, NoProbe
  <2>2. IsRequest(request) /\ best \in Ticks /\ center \in Ticks /\ fine = Window(center)
    BY <2>1 DEF IInv, TypeInv, TypeOK, WindowSwept
  <2>3. fine # {}
    BY <2>2, WindowOnGrid
  <2>4. V \in Nat /\ M \in Nat \ {0} /\ V + 4 <= M
    BY <2>3, VisitsCounted
  <2>5. o * M <= request.maxProjections
    BY <2>1, <2>2, <2>4, BudgetCovers DEF Spent
  <2>6. Passes(ys, xs) \in Nat /\ Passes(ys, xs) <= 5
    <3>1. Cardinality(ys) \in Nat /\ Cardinality(ys) <= 2
      <4>1. /\ IsFiniteSet({YawBelow(best), YawAbove(best)})
            /\ Cardinality({YawBelow(best), YawAbove(best)}) \in Nat
            /\ Cardinality({YawBelow(best), YawAbove(best)}) <= 2
        BY PairHasTwo
      <4>2. ys \subseteq {YawBelow(best), YawAbove(best)}
        BY DEF YawSides
      <4>3. Cardinality(ys) <= Cardinality({YawBelow(best), YawAbove(best)})
        BY <4>1, <4>2, FS_Subset
      <4> QED BY <4>1, <4>3, SidesFinite
    <3>2. Cardinality(xs) \in Nat /\ Cardinality(xs) <= 2
      <4>1. /\ IsFiniteSet({TxBelow(best), TxAbove(best)})
            /\ Cardinality({TxBelow(best), TxAbove(best)}) \in Nat
            /\ Cardinality({TxBelow(best), TxAbove(best)}) <= 2
        BY PairHasTwo
      <4>2. xs \subseteq {TxBelow(best), TxAbove(best)}
        BY DEF TxSides
      <4>3. Cardinality(xs) <= Cardinality({TxBelow(best), TxAbove(best)})
        BY <4>1, <4>2, FS_Subset
      <4> QED BY <4>1, <4>3, SidesFinite
    <3> HIDE DEF ys, xs
    <3> QED BY <3>1, <3>2 DEF Passes
  <2>7. probe.points = Passes(ys, xs) * o /\ evaluated = o * V
    BY <2>1 DEF Diagnosed, Spent
  <2>8. o \in Nat /\ request.maxProjections \in Nat
    BY <2>2 DEF IsRequest
  <2> HIDE DEF V, M, o, ys, xs
  <2>9. Passes(ys, xs) * o <= 5 * o /\ Passes(ys, xs) * o \in Nat
    BY <2>6, <2>8, ProductMonotonic
  <2>10. o * (V + 4) <= o * M /\ o * (V + 4) = o * V + 4 * o /\ o * V \in Nat /\ o * M \in Nat
    <3>1. V + 4 \in Nat
      BY <2>4
    <3> QED BY <2>4, <2>8, <3>1, ProductMonotonic
  <2>11. evaluated + probe.points <= request.maxProjections + o
    BY <2>5, <2>7, <2>8, <2>9, <2>10
  <2> QED BY <2>11 DEF o
<1> QED BY <1>1, IInvAlways, BInvAlways, PTL

\* After grid_complete a one-sided difference is due to the observations: a neighbour
\* of the answer hides one of them (perturbation of the diagnosis).
THEOREM OneSidedExplained == Spec => []OneSidedMeansHiddenNeighbour
<1>1. IInv /\ BInv /\ StatusTellsWhatWasSearched => OneSidedMeansHiddenNeighbour
  <2> SUFFICES ASSUME IInv, Diagnosed, StatusTellsWhatWasSearched,
                      phase = "done", status = "grid_complete", probe.oneSided
               PROVE  \E t \in YawSides(best) \cup TxSides(best) : Loss(t) = Invalid
    BY DEF BInv, OneSidedMeansHiddenNeighbour
  <2>1. best # NoTick
    BY DEF Diagnosed, NoProbe
  <2>2. /\ fine \subseteq Ticks /\ best \in Ticks /\ Around(best) \subseteq fine
    BY <2>1 DEF IInv, TypeInv, TypeOK, StatusTellsWhatWasSearched
  <2>3. /\ best = <<best[1], best[2]>> /\ best[1] \in Nat /\ best[2] \in Nat
    BY <2>2 DEF Ticks, TicksOf
  <2>4. /\ YawBelow(best) \in Ticks /\ YawAbove(best) \in Ticks
        /\ TxBelow(best) \in Ticks /\ TxAbove(best) \in Ticks
    BY <2>2, <2>3, AroundHolds DEF YawBelow, YawAbove, TxBelow, TxAbove
  <2>5. /\ YawSides(best) = {YawBelow(best), YawAbove(best)}
        /\ TxSides(best) = {TxBelow(best), TxAbove(best)}
    BY <2>4 DEF YawSides, TxSides
  <2>6. YawBelow(best) # YawAbove(best) /\ TxBelow(best) # TxAbove(best)
    BY <2>3 DEF YawBelow, YawAbove, TxBelow, TxAbove
  <2>7. Cardinality(YawSides(best)) = 2 /\ Cardinality(TxSides(best)) = 2
    <3>1. /\ Cardinality({YawBelow(best), YawAbove(best)}) = 2
          /\ Cardinality({TxBelow(best), TxAbove(best)}) = 2
      BY <2>6, PairHasTwo
    <3> QED BY <2>5, <3>1
  <2>8. \E t \in YawSides(best) \cup TxSides(best) : ~Pixels(t)
    BY <2>1, <2>7 DEF Diagnosed, OneSidedOn, TwoSided
  <2> QED BY <2>4, <2>5, <2>8 DEF Pixels
<1> QED BY <1>1, IInvAlways, BInvAlways, StatusHonest, PTL
=============================================================================
