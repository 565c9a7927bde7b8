----------------------------- MODULE GridSearch -----------------------------
(***************************************************************************)
(* searchExtrinsicCorrection: the deterministic coarse-to-fine search for  *)
(* a yaw and a camera-x translation.  Candidates are pairs of integer      *)
(* ticks.  The search refuses a request its budgets do not cover, visits   *)
(* the coarse grid, then every tick of a window of one coarse step around  *)
(* the best coarse candidate, keeps the best candidate under a strict      *)
(* order, says how far that answer can be trusted and finally perturbs it  *)
(* by one fine step on each axis to diagnose identifiability.              *)
(*                                                                         *)
(* What the observations make of a candidate is data: request.loss.        *)
(***************************************************************************)
EXTENDS Integers, FiniteSets

CONSTANTS
  Searches,        \* the requests: two axes, the observations and the limits
  Invalid,         \* an active observation is not visible: no loss, no pixels
  NumericFailure,  \* all are visible but the loss is not finite
  NoTick           \* no candidate

LastTick(axis) == axis.span * axis.stride
TicksOf(r) == (0..LastTick(r.yaw)) \X (0..LastTick(r.tx))

\* What validateAxis and validateLoss leave: spans and strides of at least one
\* step.  Corrections are integers in a unit fine enough for the instance.
Axes == [span : Nat \ {0}, stride : Nat \ {0}, minimum : Int, step : Nat \ {0}]
IsRequest(r) ==
  /\ r.yaw \in Axes /\ r.tx \in Axes
  /\ r.observations \in Nat \ {0}
  /\ r.maxCandidates \in Nat /\ r.maxProjections \in Nat
  /\ r.prepared \in BOOLEAN
  /\ r.loss \in [TicksOf(r) -> Nat \union {Invalid, NumericFailure}]

ASSUME SearchesAssumption == \A r \in Searches : IsRequest(r)
ASSUME MarkersAssumption ==
  Invalid \notin Nat /\ NumericFailure \notin Nat /\ Invalid # NumericFailure
ASSUME NoTickAssumption == NoTick \notin Nat \X Nat

VARIABLES
  request,     \* the request of this search
  phase,       \* where the search is
  cursor,      \* the loop variables of the grid being visited
  coarse,      \* rows visited with the coarse flag
  fine,        \* rows visited with the fine flag
  best,        \* best_key
  center,      \* best_key when the window was laid
  evaluated,   \* points_evaluated
  status,      \* RecoverySearchStatus
  probe        \* RecoveryIdentifiability

vars == <<request, phase, cursor, coarse, fine, best, center, evaluated, status, probe>>

-----------------------------------------------------------------------------
(* Candidates and their order                                              *)

Ticks == TicksOf(request)
Visited == coarse \union fine
Yaw(t) == request.yaw.minimum + t[1] * request.yaw.step
Tx(t) == request.tx.minimum + t[2] * request.tx.step
Loss(t) == request.loss[t]
HasLoss(t) == Loss(t) \notin {Invalid, NumericFailure}
Size(n) == IF n < 0 THEN -n ELSE n

\* The tuple that betterExtrinsicCandidate compares.
Rank(t) == <<Loss(t), Size(Yaw(t)), Size(Tx(t)), Yaw(t), Tx(t)>>
Precedes(a, b) == \E i \in 1..5 : a[i] < b[i] /\ \A j \in 1..5 : j < i => a[j] = b[j]

Better(s, t) ==
  HasLoss(s) /\ (HasLoss(t) => Precedes(Rank(s), Rank(t)))

CoarseTick(i, j) == <<i * request.yaw.stride, j * request.tx.stride>>
CoarseTicks == { CoarseTick(i, j) : i \in 0..request.yaw.span, j \in 0..request.tx.span }

\* Mutant: the window is not clipped at the lower bound.
LowUnclipped(axis, t) == t - axis.stride

Low(axis, t) == IF t < axis.stride THEN 0 ELSE t - axis.stride
High(axis, t) == IF LastTick(axis) < t + axis.stride THEN LastTick(axis) ELSE t + axis.stride
Window(c) == (Low(request.yaw, c[1])..High(request.yaw, c[1]))
               \X (Low(request.tx, c[2])..High(request.tx, c[2]))

-----------------------------------------------------------------------------
(* The budget, decided before anything is allocated                        *)

\* Mutant: the window of 2 * stride steps is taken to have as many ticks.
WindowWidthOffByOne(axis) ==
  IF LastTick(axis) < 2 * axis.stride THEN LastTick(axis) ELSE 2 * axis.stride

WindowWidth(axis) ==
  IF LastTick(axis) < 2 * axis.stride THEN LastTick(axis) + 1 ELSE 2 * axis.stride + 1

MaximumAttempts(r) ==
  (r.yaw.span + 1) * (r.tx.span + 1) + WindowWidth(r.yaw) * WindowWidth(r.tx)

\* The first test is what the loop over the frames adds up to.
OverBudget(r) ==
  \/ r.observations > r.maxProjections
  \/ MaximumAttempts(r) > r.maxCandidates
  \/ r.observations > r.maxProjections \div MaximumAttempts(r)

-----------------------------------------------------------------------------
(* The search                                                              *)

\* A candidate is poorly identifiable until a diagnosis says otherwise.
NoProbe == [available |-> FALSE, oneSided |-> FALSE, poor |-> TRUE, points |-> 0]

Init ==
  /\ request \in Searches
  /\ phase = "preflight"
  /\ cursor = <<0, 0>>
  /\ coarse = {} /\ fine = {}
  /\ best = NoTick /\ center = NoTick
  /\ evaluated = 0
  /\ status = "no_valid_candidate"
  /\ probe = NoProbe

\* prepareObservations rejects duplicates and empty frames once the budget is
\* known to cover them.
Preflight ==
  /\ phase = "preflight"
  /\ phase' = IF OverBudget(request) \/ ~request.prepared THEN "refused" ELSE "coarse"
  /\ UNCHANGED <<request, cursor, coarse, fine, best, center, evaluated, status, probe>>

\* Mutant: a row that is already there is projected again.
AttemptUncached(t) ==
  /\ evaluated' = evaluated + request.observations
  /\ best' = IF HasLoss(t) /\ (best = NoTick \/ Better(t, best)) THEN t ELSE best

\* Mutant: only the loss is compared, so that the visiting order breaks ties.
AttemptByLossOnly(t) ==
  /\ evaluated' = IF t \in Visited THEN evaluated ELSE evaluated + request.observations
  /\ best' = IF HasLoss(t) /\ (best = NoTick \/ Loss(t) < Loss(best)) THEN t ELSE best

\* Mutant: a candidate without a loss may become the first best one.
AttemptAnyRow(t) ==
  /\ evaluated' = IF t \in Visited THEN evaluated ELSE evaluated + request.observations
  /\ best' = IF best = NoTick \/ Better(t, best) THEN t ELSE best

\* The lambda attempt: a row is evaluated once and then found again.
Attempt(t) ==
  /\ evaluated' = IF t \in Visited THEN evaluated ELSE evaluated + request.observations
  /\ best' = IF HasLoss(t) /\ (best = NoTick \/ Better(t, best)) THEN t ELSE best

\* One turn of the coarse loops; cursor counts coarse steps.
CoarseVisit ==
  /\ phase = "coarse"
  /\ LET t == CoarseTick(cursor[1], cursor[2]) IN
       /\ Attempt(t)
       /\ coarse' = coarse \union {t}
  /\ \/ /\ cursor[2] < request.tx.span
        /\ cursor' = <<cursor[1], cursor[2] + 1>>
        /\ UNCHANGED phase
     \/ /\ cursor[2] = request.tx.span
        /\ cursor' = <<cursor[1] + 1, 0>>
        /\ phase' = IF cursor[1] < request.yaw.span THEN "coarse" ELSE "lay_window"
  /\ UNCHANGED <<request, fine, center, status, probe>>

\* Mutant: a grid without a valid candidate is not looked at.
LayWindowIfAny ==
  /\ phase = "lay_window"
  /\ best # NoTick
  /\ phase' = "fine"
  /\ center' = best
  /\ cursor' = <<Low(request.yaw, best[1]), Low(request.tx, best[2])>>
  /\ UNCHANGED <<request, coarse, fine, best, evaluated, status, probe>>

\* if (best_key.has_value()): the window around the coarse optimum.
LayWindow ==
  /\ phase = "lay_window"
  /\ \/ /\ best = NoTick
        /\ phase' = "done"
        /\ UNCHANGED <<center, cursor>>
     \/ /\ best # NoTick
        /\ phase' = "fine"
        /\ center' = best
        /\ cursor' = <<Low(request.yaw, best[1]), Low(request.tx, best[2])>>
  /\ UNCHANGED <<request, coarse, fine, best, evaluated, status, probe>>

\* One turn of the loops over the window; cursor is a tick.
FineVisit ==
  /\ phase = "fine"
  /\ Attempt(cursor)
  /\ fine' = fine \union {cursor}
  /\ \/ /\ cursor[2] < High(request.tx, center[2])
        /\ cursor' = <<cursor[1], cursor[2] + 1>>
        /\ UNCHANGED phase
     \/ /\ cursor[2] = High(request.tx, center[2])
        /\ cursor' = <<cursor[1] + 1, Low(request.tx, center[2])>>
        /\ phase' = IF cursor[1] < High(request.yaw, center[1]) THEN "fine" ELSE "settle"
  /\ UNCHANGED <<request, coarse, center, status, probe>>

OnBound(axis, t) == t \in {0, LastTick(axis)}
OnWindowEdge(axis, t, c) == ~OnBound(axis, t) /\ t \in {Low(axis, c), High(axis, c)}

\* Mutant: the edge of the window is not looked at on the second axis.
StatusOfYawEdgeOnly(t, c) ==
  IF OnBound(request.yaw, t[1]) \/ OnBound(request.tx, t[2]) THEN "bound_limited"
  ELSE IF OnWindowEdge(request.yaw, t[1], c[1]) THEN "refinement_limited"
  ELSE "grid_complete"

\* The global bound takes precedence over the edge of the window.
StatusOf(t, c) ==
  IF OnBound(request.yaw, t[1]) \/ OnBound(request.tx, t[2]) THEN "bound_limited"
  ELSE IF OnWindowEdge(request.yaw, t[1], c[1]) \/ OnWindowEdge(request.tx, t[2], c[2])
  THEN "refinement_limited"
  ELSE "grid_complete"

Settle ==
  /\ phase = "settle"
  /\ status' = StatusOf(best, center)
  /\ phase' = "diagnose"
  /\ UNCHANGED <<request, cursor, coarse, fine, best, center, evaluated, probe>>

-----------------------------------------------------------------------------
(* The local diagnosis of the best candidate                               *)

\* Mutant: a neighbour whose loss is not finite is taken to have no pixels.
PixelsNeedLoss(t) == t \in Ticks /\ HasLoss(t)

Pixels(t) == t \in Ticks /\ Loss(t) # Invalid
YawBelow(t) == <<t[1] - 1, t[2]>>
YawAbove(t) == <<t[1] + 1, t[2]>>
TxBelow(t) == <<t[1], t[2] - 1>>
TxAbove(t) == <<t[1], t[2] + 1>>
YawSides(t) == {YawBelow(t), YawAbove(t)} \intersect Ticks
TxSides(t) == {TxBelow(t), TxAbove(t)} \intersect Ticks
Blind(sides) == \A t \in sides : ~Pixels(t)
TwoSided(sides) == Cardinality(sides) = 2 /\ \A t \in sides : Pixels(t)

\* The candidate itself, then each axis in turn, as long as one of its two
\* neighbours keeps every active point visible.  The rank and the condition of
\* the Jacobian are data.  A diagnosis that gives up leaves poor as it was.
Diagnose ==
  /\ phase = "diagnose"
  /\ \E finite, degenerate \in BOOLEAN :
       LET ys == YawSides(best)
           xs == TxSides(best)
           passes == 1 + Cardinality(ys) + (IF Blind(ys) THEN 0 ELSE Cardinality(xs))
           measured == ~Blind(ys) /\ ~Blind(xs) /\ finite
       IN probe' = [available |-> measured,
                    oneSided |-> \/ ~Blind(ys) /\ ~TwoSided(ys)
                                 \/ ~Blind(ys) /\ ~Blind(xs) /\ ~TwoSided(xs),
                    poor |-> measured => degenerate,
                    points |-> passes * request.observations]
  /\ phase' = "done"
  /\ UNCHANGED <<request, cursor, coarse, fine, best, center, evaluated, status>>

Next == Preflight \/ CoarseVisit \/ LayWindow \/ FineVisit \/ Settle \/ Diagnose

Spec == Init /\ [][Next]_vars
\* One thread runs the loops to their end.
FairSpec == Spec /\ WF_vars(Next)

-----------------------------------------------------------------------------
(* Properties                                                              *)

Phases == {"preflight", "refused", "coarse", "lay_window", "fine", "settle", "diagnose", "done"}
Statuses == {"no_valid_candidate", "bound_limited", "refinement_limited", "grid_complete"}

TypeOK ==
  /\ IsRequest(request)
  /\ phase \in Phases
  /\ cursor \in Nat \X Nat
  /\ coarse \subseteq Ticks
  /\ fine \subseteq Ticks
  /\ best \in Ticks \union {NoTick}
  /\ center \in Ticks \union {NoTick}
  /\ evaluated \in Nat
  /\ status \in Statuses
  /\ probe \in [available : BOOLEAN, oneSided : BOOLEAN, poor : BOOLEAN, points : Nat]

\* What the search promises, without loops, cache or running best: the least
\* candidate of the coarse grid, then the least of the grid and the window
\* around that one.
Least(S) ==
  IF \E t \in S : HasLoss(t)
  THEN CHOOSE t \in S : HasLoss(t) /\ \A s \in S \ {t} : Better(t, s)
  ELSE NoTick
CoarseOptimum == Least(CoarseTicks)
Optimum == IF CoarseOptimum = NoTick THEN NoTick
           ELSE Least(CoarseTicks \union Window(CoarseOptimum))

\* The answer is the reference one, whatever order the loops visit, which rows
\* they find again and where ties fall (attempt and the two loop nests).
AnswerIsReferenceOptimum ==
  phase = "done" => best = Optimum

\* At every moment no visited candidate is better than best_key, and best_key is
\* unset only while no visited candidate has a loss.
BestOfVisited ==
  /\ \A t \in Visited : HasLoss(t) => best # NoTick /\ ~Better(t, best)
  /\ best # NoTick => best \in Visited /\ HasLoss(best)

\* grid_complete is said only when all eight neighbours of the answer were tried
\* in the window and lost to it: the answer is a strict local optimum of the fine
\* grid.  refinement_limited means that a neighbour on the grid was left out of
\* the window, bound_limited that a neighbour is off the grid.
Around(t) == { <<t[1] + dy, t[2] + dx>> : dy \in -1..1, dx \in -1..1 } \ {t}
StatusTellsWhatWasSearched ==
  phase \in {"diagnose", "done"} /\ best # NoTick =>
    /\ status = "grid_complete" => \A t \in Around(best) : t \in fine /\ Better(best, t)
    /\ status = "refinement_limited" => Around(best) \subseteq Ticks /\ ~(Around(best) \subseteq fine)
    /\ status = "bound_limited" => ~(Around(best) \subseteq Ticks)

\* Cached rows cost nothing twice, and the preflight bound, which ignores the
\* cache, covers the search: neither configured limit is passed at any moment.
VisitsWithinBudget ==
  /\ evaluated = request.observations * Cardinality(Visited)
  /\ Visited # {} => /\ Cardinality(Visited) <= request.maxCandidates
                     /\ evaluated <= request.maxProjections

\* The diagnosis is not in the budget: it can pass the limit, but by one pass
\* over the observations at the most (four of its five passes always fit in the
\* coarse corners that the window visits again).
DiagnosisOverrunsByOnePass ==
  probe.points > 0 =>
    evaluated + probe.points <= request.maxProjections + request.observations

\* A one-sided difference after grid_complete is the observations' doing, never
\* the grid's: a neighbour on the axis hides an active point.
OneSidedMeansHiddenNeighbour ==
  phase = "done" /\ status = "grid_complete" /\ probe.oneSided =>
    \E t \in YawSides(best) \union TxSides(best) : Loss(t) = Invalid

\* The search ends, also on a grid without any valid candidate.
SearchEnds == <>(phase \in {"done", "refused"})

=============================================================================
