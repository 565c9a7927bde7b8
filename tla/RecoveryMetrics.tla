---------------------------- MODULE RecoveryMetrics ----------------------------
(***************************************************************************)
(* The numbers of a recovery report: prepareObservations, the evaluation   *)
(* of every candidate, the residual tables of the nominal, the oracle and  *)
(* the recovered correction, pooled and per frame, and the accounting that *)
(* the report writer checks before it publishes.  Which candidates the     *)
(* search visits and which of equals it prefers is GridSearch; how files   *)
(* reach a run is RecoveryRun and AuthoredFixture.                         *)
(*                                                                         *)
(* A pixel is an integer on a line, a loss is twice the code's, and a      *)
(* number above Largest is infinite.  An optional value is a sequence of   *)
(* at most one element; indices start at 1.                                *)
(***************************************************************************)
EXTENDS Integers, FiniteSets, SequencesExt

CONSTANTS
  Inputs,           \* sequences of [frame, observations], as the loader hands them on
  Grid,             \* the corrections that the search visits, in its order
  Nominal, Hidden,  \* no correction, and the one of the oracle
  Seen(_, _),       \* Seen(correction, point): [status, at] of its projection
  Width, Delta,     \* the image, and the Huber delta
  Largest

Statuses == {"visible", "non_finite_input", "behind_or_too_near",
             "non_positive_homogeneous_depth", "outside_image"}
Corrections == ToSet(Grid) \cup {Nominal, Hidden}
Points == UNION { UNION { { r.point : r \in ToSet(f.observations) } : f \in ToSet(fs) } : fs \in Inputs }

ASSUME NumberAssumption == Width \in Nat \ {0} /\ Delta \in Nat \ {0} /\ Largest \in Nat
ASSUME GridAssumption == Grid \in Seq(Corrections)
ASSUME InputsAssumption ==
  \A fs \in Inputs :
    fs \in Seq([frame : Nat,
                observations : Seq([source : Nat, point : Points, target : Int, weight : Int])])
ASSUME SeenAssumption ==
  \A c \in Corrections, p \in Points : Seen(c, p) \in [status : Statuses, at : Int]

VARIABLES
  frames,      \* the observation frames
  loss,        \* RecoveryLoss
  phase,       \* prepare, search, table, mark, write, done
  prepared,    \* PreparedObservations
  candidates,  \* the evaluations so far, by the place of their correction in Grid
  evaluated,   \* points_evaluated of the search
  best,        \* at most one correction
  models,      \* the tables still to fill
  next,        \* the record the loop is at
  tables,      \* RecoveryTransformMetrics by model
  compared,    \* points_evaluated of the comparison
  outcome      \* "running", "refused", "failed" (by the writer) or "complete"

vars == <<frames, loss, phase, prepared, candidates, evaluated, best, models, next, tables,
          compared, outcome>>

Distance(a, b) == IF a < b THEN b - a ELSE a - b
Sees(c, r) == Seen(c, r.point).status = "visible"
\* The radial residual of a record that a correction sees.
Residual(c, r) == Distance(r.target, Seen(c, r.point).at)

-----------------------------------------------------------------------------
(* prepareObservations                                                     *)

\* The records, each with the frame it belongs to.
Records ==
  UNION { { [frame |-> f.frame, source |-> r.source, point |-> r.point,
             target |-> r.target, weight |-> r.weight] : r \in ToSet(f.observations) } :
          f \in ToSet(frames) }

\* Frames are sorted by id, and the records of each by source index.
Earlier(r, s) == r.frame < s.frame \/ (r.frame = s.frame /\ r.source < s.source)

Flattened ==
  [i \in 1..Cardinality(Records) |->
     CHOOSE r \in Records : Cardinality({ s \in Records : Earlier(s, r) }) = i - 1]

Unusable ==
  \/ frames = <<>>
  \/ \E i, j \in DOMAIN frames : i # j /\ frames[i].frame = frames[j].frame
  \/ \E i \in DOMAIN frames :
       LET obs == frames[i].observations IN
       \/ \E k, l \in DOMAIN obs : k # l /\ obs[k].source = obs[l].source
       \/ \E k \in DOMAIN obs : obs[k].target < 0 \/ obs[k].target >= Width \/ obs[k].weight < 0
       \/ \A k \in DOMAIN obs : obs[k].weight = 0
  \/ SumFunction([i \in DOMAIN Flattened |-> Flattened[i].weight]) > Largest

Init ==
  /\ frames \in Inputs /\ loss \in {"squared_l2", "huber"}
  /\ phase = "prepare" /\ prepared = <<>>
  /\ candidates = <<>> /\ evaluated = 0 /\ best = <<>>
  /\ models = <<>> /\ next = 1 /\ tables = <<>> /\ compared = 0
  /\ outcome = "running"

Prepare ==
  /\ phase = "prepare"
  /\ IF Unusable
     THEN outcome' = "refused" /\ phase' = "done" /\ UNCHANGED prepared
     ELSE prepared' = Flattened /\ phase' = "search" /\ UNCHANGED outcome
  /\ UNCHANGED <<frames, loss, candidates, evaluated, best, models, next, tables, compared>>

-----------------------------------------------------------------------------
(* The search                                                              *)

\* ProjectionCounts of all records under a correction.
Cloud(c) ==
  [s \in Statuses |-> Cardinality({ i \in DOMAIN prepared : Seen(c, prepared[i].point).status = s })]

RadialLoss(r) ==
  IF loss = "squared_l2" THEN 2 * r * r
  ELSE IF r <= Delta THEN r * r ELSE Delta * (2 * r - Delta)

Active == { i \in DOMAIN prepared : prepared[i].weight > 0 }
Visible(c) == { i \in DOMAIN prepared : Sees(c, prepared[i]) }
Contribution(c) ==
  [i \in DOMAIN prepared |-> prepared[i].weight * RadialLoss(Residual(c, prepared[i]))]

\* evaluatePrepared
Evaluation(c) ==
  LET finite == { i \in Visible(c) \cap Active : Contribution(c)[i] <= Largest }
      sum == SumFunctionOnSet(Contribution(c), finite)
      failure == finite # Visible(c) \cap Active \/ sum > Largest IN
  [counts |-> Cloud(c), numeric_failure |-> failure,
   zero_weight |-> Len(prepared) - Cardinality(Active), positive_weight |-> Cardinality(Active),
   positive_weight_visible |-> Cardinality(Active \cap Visible(c)),
   positive_weight_invalid |-> Cardinality(Active \ Visible(c)),
   loss_sum |-> IF Active \subseteq Visible(c) /\ ~failure THEN <<sum>> ELSE <<>>]

Evaluate ==
  /\ phase = "search" /\ Len(candidates) < Len(Grid)
  /\ candidates' = Append(candidates, Evaluation(Grid[Len(candidates) + 1]))
  /\ evaluated' = evaluated + Len(prepared)
  /\ UNCHANGED <<frames, loss, phase, prepared, best, models, next, tables, compared, outcome>>

NoMetrics ==
  [counts |-> [s \in Statuses |-> 0], zero_weight |-> 0, common_visible |-> 0,
   errors |-> <<>>, median |-> <<>>, p95 |-> <<>>, rmse |-> <<>>]
FrameIds == { prepared[i].frame : i \in DOMAIN prepared }
CorrectionOf(model) ==
  CASE model = "nominal" -> Nominal [] model = "oracle" -> Hidden [] model = "recovered" -> best[1]
Invisible(c) == Len(prepared) - Cloud(c)["visible"]

\* The estimate is frozen, and its comparison with the other two begins.
Settle ==
  /\ phase = "search" /\ Len(candidates) = Len(Grid)
  /\ LET valid == { i \in DOMAIN candidates : candidates[i].loss_sum # <<>> } IN
     \/ valid = {} /\ best' = <<>>
     \/ \E i \in valid : /\ \A j \in valid : candidates[i].loss_sum[1] <= candidates[j].loss_sum[1]
                         /\ best' = <<Grid[i]>>
  /\ models' = <<"nominal", "oracle">> \o (IF best' = <<>> THEN <<>> ELSE <<"recovered">>)
  /\ phase' = "table"
  /\ UNCHANGED <<frames, loss, prepared, candidates, evaluated, next, tables, compared, outcome>>

-----------------------------------------------------------------------------
(* compareExtrinsicCorrections                                             *)

NewTable(c) ==
  [pooled |-> [NoMetrics EXCEPT !.counts = Cloud(c)],
   frames |-> [f \in FrameIds |-> NoMetrics], residuals |-> <<>>]

\* What a record adds to the metrics of its frame and to the pooled ones.
Counted(metrics, c, r) ==
  [metrics EXCEPT !.zero_weight = @ + (IF r.weight = 0 THEN 1 ELSE 0),
                  !.errors = @ \o (IF Sees(c, r) THEN <<Residual(c, r)>> ELSE <<>>)]

\* One turn of the loop of transformMetrics: a residual, its frame and the pool.
WithResidual(table, c, r) ==
  LET own == Counted(table.frames[r.frame], c, r) IN
  [pooled |-> Counted(table.pooled, c, r),
   frames |-> [table.frames EXCEPT
                 ![r.frame] = [own EXCEPT !.counts[Seen(c, r.point).status] = @ + 1]],
   residuals |-> Append(table.residuals,
                        [frame |-> r.frame, source |-> r.source, predicted |-> Sees(c, r)])]

AddResidual ==
  /\ phase = "table" /\ next \in DOMAIN prepared
  /\ LET model == Head(models)
         c == CorrectionOf(model)
         table == IF next = 1 THEN NewTable(c) ELSE tables[model] IN
     tables' = [m \in DOMAIN tables \cup {model} |->
                  IF m = model THEN WithResidual(table, c, prepared[next]) ELSE tables[m]]
  /\ next' = next + 1
  /\ UNCHANGED <<frames, loss, phase, prepared, candidates, evaluated, best, models, compared, outcome>>

\* The sorted errors: which of equal ones comes first makes no difference.
Sorted(errors) ==
  LET Before(k, l) == errors[k] < errors[l] \/ (errors[k] = errors[l] /\ k < l) IN
  [i \in DOMAIN errors |->
     errors[CHOOSE k \in DOMAIN errors : Cardinality({ l \in DOMAIN errors : Before(l, k) }) = i - 1]]

\* The rank ceil(percent * size) of the sorted errors, clamped.
Percentile(errors, percent) ==
  LET rank == (percent * Len(errors) + 99) \div 100 IN
  Sorted(errors)[IF rank < 1 THEN 1 ELSE IF rank > Len(errors) THEN Len(errors) ELSE rank]

\* The mean of the squares is kept as a fraction.
Summary(metrics) ==
  IF metrics.errors = <<>> THEN metrics
  ELSE [metrics EXCEPT
         !.median = <<Percentile(metrics.errors, 50)>>, !.p95 = <<Percentile(metrics.errors, 95)>>,
         !.rmse = <<SumFunction([k \in DOMAIN metrics.errors |-> metrics.errors[k] * metrics.errors[k]]),
                    Len(metrics.errors)>>]

EndTable ==
  /\ phase = "table" /\ next \notin DOMAIN prepared
  /\ LET model == Head(models) IN
     /\ tables' = [tables EXCEPT
          ![model].pooled = Summary(@),
          ![model].frames = [f \in FrameIds |-> Summary(tables[model].frames[f])]]
     /\ compared' = compared + Len(prepared) + Invisible(CorrectionOf(model))
  /\ models' = Tail(models) /\ next' = 1
  /\ phase' = IF Len(models) = 1 THEN "mark" ELSE "table"
  /\ UNCHANGED <<frames, loss, prepared, candidates, evaluated, best, outcome>>

\* One turn of the last loop: a record that every one of these models sees.
Marks(ms) ==
  /\ phase = "mark" /\ next \in DOMAIN prepared
  /\ LET one == IF \A m \in ms : tables[m].residuals[next].predicted THEN 1 ELSE 0 IN
     tables' = [m \in DOMAIN tables |->
       [tables[m] EXCEPT !.pooled.common_visible = @ + one,
                         !.frames[prepared[next].frame].common_visible = @ + one]]
  /\ next' = next + 1
  /\ UNCHANGED <<frames, loss, phase, prepared, candidates, evaluated, best, models, compared, outcome>>

\* Mutant: a record that the recovered correction hides still counts as common.
MarkWithoutRecovered == Marks({"nominal", "oracle"})

Mark == Marks(DOMAIN tables)

\* The checks of writeExtrinsicRecoveryArtifacts on these numbers.
Accounted ==
  /\ evaluated = Len(candidates) * Len(tables["nominal"].residuals)
  /\ \A i \in DOMAIN candidates :
       LET row == candidates[i] IN
       /\ row.positive_weight + row.zero_weight = SumFunction(row.counts)
       /\ row.positive_weight_visible + row.positive_weight_invalid = row.positive_weight
       /\ row.loss_sum # <<>> <=> row.positive_weight_invalid = 0 /\ ~row.numeric_failure

Write ==
  /\ phase = "mark" /\ next \notin DOMAIN prepared
  /\ outcome' = IF Accounted THEN "complete" ELSE "failed"
  /\ phase' = "done"
  /\ UNCHANGED <<frames, loss, prepared, candidates, evaluated, best, models, next, tables, compared>>

Next == Prepare \/ Evaluate \/ Settle \/ AddResidual \/ EndTable \/ Mark \/ Write

Spec == Init /\ [][Next]_vars

-----------------------------------------------------------------------------
(* Properties                                                              *)

\* value is a nearest rank of the errors of records S under a correction.
IsRank(value, c, S, percent) ==
  IF S = {} THEN value = <<>>
  ELSE \E r \in S :
         LET Share(T) == 100 * Cardinality(T) IN
         /\ value = <<Residual(c, r)>>
         /\ Share({ s \in S : Residual(c, s) <= Residual(c, r) }) >= percent * Cardinality(S)
         /\ Share({ s \in S : Residual(c, s) < Residual(c, r) }) < percent * Cardinality(S)

\* These metrics are those of records S under a correction.
Describes(metrics, c, S) ==
  LET seen == { r \in S : Sees(c, r) } IN
  /\ \A s \in Statuses :
       metrics.counts[s] = Cardinality({ r \in S : Seen(c, r.point).status = s })
  /\ metrics.zero_weight = Cardinality({ r \in S : r.weight = 0 })
  /\ metrics.common_visible =
       Cardinality({ r \in S : \A m \in DOMAIN tables : Sees(CorrectionOf(m), r) })
  /\ IsRank(metrics.median, c, seen, 50)
  /\ IsRank(metrics.p95, c, seen, 95)
  /\ metrics.rmse = IF seen = {} THEN <<>>
                    ELSE <<SumFunction([r \in seen |-> Residual(c, r) * Residual(c, r)]),
                           Cardinality(seen)>>

\* A table is about the retained records, pooled and per frame, in their order.
IsTableOf(table, c) ==
  /\ Describes(table.pooled, c, Records)
  /\ DOMAIN table.frames = { r.frame : r \in Records }
  /\ \A f \in DOMAIN table.frames : Describes(table.frames[f], c, { r \in Records : r.frame = f })
  /\ \A i, j \in DOMAIN table.residuals : i < j => Earlier(table.residuals[i], table.residuals[j])

\* A report never fails the writer's accounting, and its tables are about the
\* retained records, in whatever order they came: for every model the counts,
\* pooled and per frame, are those of the records with each status, zero weights
\* included; median and p95 are nearest ranks and rmse the mean square of the visible
\* errors; the common set of all tables is what nominal, oracle and recovered all see;
\* residuals are in the order of their keys; what is counted as evaluated is every
\* record once for each model and once more where it is invisible; and the loss of the
\* winning row is that of the recovered table's own errors
\* (compareExtrinsicCorrections, searchExtrinsicCorrection, the report writer).
ReportAddsUp ==
  /\ outcome # "failed"
  /\ outcome = "complete" =>
       /\ DOMAIN tables = {"nominal", "oracle"} \cup (IF best = <<>> THEN {} ELSE {"recovered"})
       /\ \A m \in DOMAIN tables : IsTableOf(tables[m], CorrectionOf(m))
       /\ compared =
            SumFunction([m \in DOMAIN tables |->
              Cardinality(Records) + Cardinality({ r \in Records : ~Sees(CorrectionOf(m), r) })])
       /\ best # <<>> =>
            LET row == candidates[CHOOSE i \in DOMAIN Grid : Grid[i] = best[1]]
                active == { r \in Records : r.weight > 0 } IN
            /\ \A r \in active : Sees(best[1], r)
            /\ row.loss_sum =
                 <<SumFunction([r \in active |-> r.weight * RadialLoss(Residual(best[1], r))])>>

=============================================================================
