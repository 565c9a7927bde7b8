---------------------------- MODULE ProjectionRun ----------------------------
(***************************************************************************)
(* One run of project_kitti or analyze_calibration: a LiDAR file is read,  *)
(* its points are projected through the calibration and through every      *)
(* perturbation of it (view 0 is the calibration), each perturbed view is  *)
(* compared with view 0, the views are drawn with a z-buffer, and a report *)
(* is written.  How the report reaches its directory is StagedPublication. *)
(*                                                                         *)
(* A record is NonFinite or a point; the transform and the projection      *)
(* matrix are constants, so that a pixel is the exact ratio of what they   *)
(* yield.  Indices start at 1.                                             *)
(***************************************************************************)
EXTENDS Integers, FiniteSets, SequencesExt

CONSTANTS
  Files,                 \* the point files that a run may meet
  NonFinite,             \* a record, or a transformed point, with a NaN or an infinity
  Panels,                \* the number of perturbations (8 in the code)
  Moved(_, _),           \* Moved(view, point) in the camera frame of a view
  Depth(_),              \* camera-forward depth of a camera-frame point
  Homogeneous(_),        \* P times a camera-frame point: <<x, y, w>>
  ZMin, Width, Height    \* z_min_m and the size of the image

ASSUME ImageAssumption == Width \in Nat \ {0} /\ Height \in Nat \ {0} /\ ZMin \in Nat \ {0}
ASSUME PanelsAssumption == Panels \in Nat \ {0}
ASSUME FilesAssumption == \A f \in Files : f \in Seq(ToSet(f))
ASSUME CameraAssumption ==
  \A f \in Files : \A r \in ToSet(f) \ {NonFinite} : \A v \in 0..Panels :
    Moved(v, r) # NonFinite => /\ Depth(Moved(v, r)) \in Int
                               /\ Homogeneous(Moved(v, r)) \in Int \X Int \X Int

VARIABLES
  file,       \* the records of the LiDAR file
  readable,   \* whether calibration, layout, timestamps and image load
  last,       \* the last view: 0 for project_kitti, Panels for analyze_calibration
  phase,      \* where run() is: decode, project, compare, draw, write, or done
  view,       \* the view that the current loop works on
  next,       \* the index that the current loop looks at
  points,     \* lidar.points
  dropped,    \* lidar.non_finite_points
  counts,     \* ProjectionCounts of each view, by status
  visible,    \* visible_points of each view
  metrics,    \* ProjectionDisplacementMetrics of each perturbed view
  winner,     \* winner_indices of each view's overlay, 0 for kNoWinner
  overlay,    \* the counters of each view's OverlayResult
  exit        \* the exit status, "running" before

vars == <<file, readable, last, phase, view, next, points, dropped, counts, visible,
          metrics, winner, overlay, exit>>

Views == 0..Panels
Raster == (0..Width - 1) \X (0..Height - 1)
Statuses == {"visible", "non_finite_input", "behind_or_too_near",
             "non_positive_homogeneous_depth", "outside_image"}

-----------------------------------------------------------------------------
(* The pure parts                                                          *)

\* RectifiedProjection::project, with the check of projectPointCloud before it.
Status(c) ==
  IF c = NonFinite THEN "non_finite_input"
  ELSE IF Depth(c) <= ZMin THEN "behind_or_too_near"
  ELSE LET h == Homogeneous(c) IN
       IF h[3] <= 0 THEN "non_positive_homogeneous_depth"
       ELSE IF h[1] < 0 \/ h[2] < 0 \/ h[1] >= Width * h[3] \/ h[2] >= Height * h[3]
            THEN "outside_image"
       ELSE "visible"

Smaller(a, b) == IF a < b THEN a ELSE b

\* The raster cell of a visible point: each coordinate by lround, then clamped.
Cell(p) ==
  LET Rounded(num, size) == Smaller((2 * num + p.at[3]) \div (2 * p.at[3]), size - 1)
  IN <<Rounded(p.at[1], Width), Rounded(p.at[2], Height)>>

\* The contract of renderDepthOverlay for its points.
Drawable(p) == /\ p.depth > 0 /\ p.at[1] >= 0 /\ p.at[2] >= 0
               /\ p.at[1] < Width * p.at[3] /\ p.at[2] < Height * p.at[3]

Sources(ps) == { p.source : p \in ToSet(ps) }
WithSource(ps, s) == CHOOSE p \in ToSet(ps) : p.source = s

\* The square of the distance between two pixels, as a fraction.
Displacement(p, q) ==
  LET Off(i) == p.at[i] * q.at[3] - q.at[i] * p.at[3]
  IN <<Off(1) * Off(1) + Off(2) * Off(2), p.at[3] * p.at[3] * q.at[3] * q.at[3]>>
AtMost(d, e) == d[1] * e[2] <= e[1] * d[2]

\* std::sort, and the order in which a std::map is walked.
Sorted(S, Before(_, _)) ==
  CHOOSE f \in SetToSeqs(S) : \A i, j \in DOMAIN f : i < j => Before(f[i], f[j])

\* The places of ds by their values, equal ones in the order of their places.
ByValue(ds) ==
  Sorted(DOMAIN ds, LAMBDA i, j : AtMost(ds[i], ds[j]) /\ (AtMost(ds[j], ds[i]) => i < j))
Clamped(rank, size) == IF rank < 1 THEN 1 ELSE Smaller(rank, size)

\* Mutant: the rank is rounded down.
NearestRankBelow(ds, percent) ==
  ds[ByValue(ds)[Clamped((percent * Len(ds)) \div 100, Len(ds))]]

\* nearestRank: sort, take rank ceil(percent * size), clamped to 1..size.
NearestRank(ds, percent) ==
  ds[ByValue(ds)[Clamped((percent * Len(ds) + 99) \div 100, Len(ds))]]

-----------------------------------------------------------------------------
(* The steps of run()                                                      *)

NoCounts == [s \in Statuses |-> 0]

Init ==
  /\ file \in Files /\ readable \in BOOLEAN /\ last \in {0, Panels}
  /\ phase = "decode" /\ view = 0 /\ next = 1
  /\ points = <<>> /\ dropped = 0
  /\ counts = [v \in Views |-> NoCounts]
  /\ visible = [v \in Views |-> <<>>]
  /\ metrics = <<>>
  /\ winner = [v \in Views |-> [c \in Raster |-> 0]]
  /\ overlay = <<>>
  /\ exit = "running"

\* An exception: main reports it and nothing is written.
Leave(status) == exit' = status /\ phase' = "done"

\* One turn of the loop of loadVelodyneFrame: a record that is not finite is left
\* out of points and counted.
DecodeRecord ==
  /\ phase = "decode" /\ readable /\ next <= Len(file)
  /\ IF file[next] = NonFinite THEN dropped' = dropped + 1 /\ UNCHANGED points
     ELSE points' = Append(points, file[next]) /\ UNCHANGED dropped
  /\ next' = next + 1
  /\ UNCHANGED <<file, readable, last, phase, view, counts, visible, metrics, winner,
                 overlay, exit>>

\* Mutant: a file without a finite point is accepted.
DecodeAnyFile ==
  /\ phase = "decode" /\ (readable => next > Len(file))
  /\ IF ~readable \/ file = <<>> THEN Leave("input") /\ UNCHANGED next
     ELSE phase' = "project" /\ next' = 1 /\ UNCHANGED exit
  /\ UNCHANGED <<file, readable, last, view, points, dropped, counts, visible, metrics,
                 winner, overlay>>

\* The end of loading: a file without a finite record is refused, as is anything
\* that does not load.
Decode ==
  /\ phase = "decode" /\ (readable => next > Len(file))
  /\ IF ~readable \/ points = <<>> THEN Leave("input") /\ UNCHANGED next
     ELSE phase' = "project" /\ next' = 1 /\ UNCHANGED exit
  /\ UNCHANGED <<file, readable, last, view, points, dropped, counts, visible, metrics,
                 winner, overlay>>

\* One turn of the loop of projectPointCloud.
ProjectPoint ==
  /\ phase = "project" /\ next <= Len(points)
  /\ LET c == Moved(view, points[next])
         s == Status(c)
     IN /\ counts' = [counts EXCEPT ![view][s] = @ + 1]
        /\ visible' = IF s # "visible" THEN visible
                      ELSE [visible EXCEPT ![view] =
                              Append(@, [source |-> next, at |-> Homogeneous(c),
                                         depth |-> Depth(c)])]
  /\ next' = next + 1
  /\ UNCHANGED <<file, readable, last, phase, view, points, dropped, metrics, winner,
                 overlay, exit>>

\* After the loop of a view: the calibration itself has nothing to be compared with.
ProjectEnd ==
  /\ phase = "project" /\ next > Len(points)
  /\ next' = 1
  /\ IF view > 0 THEN phase' = "compare" /\ UNCHANGED view
     ELSE IF last > 0 THEN view' = 1 /\ UNCHANGED phase
     ELSE phase' = "draw" /\ UNCHANGED view
  /\ UNCHANGED <<file, readable, last, points, dropped, counts, visible, metrics, winner,
                 overlay, exit>>

\* indexBySource refuses two points with one source.  Its test that a point is
\* finite and in front of the camera is left out: a visible point always is.
Indexable(ps) == Cardinality(Sources(ps)) = Len(ps)

\* Mutant: the points that appeared are those of the view, not only the new ones.
ComparisonOfAll(v) ==
  LET common == Sources(visible[0]) \intersect Sources(visible[v])
      order == Sorted(common, LAMBDA s, t : s < t)
      moves == [i \in DOMAIN order |-> Displacement(WithSource(visible[v], order[i]),
                                                    WithSource(visible[0], order[i]))]
  IN [common |-> Cardinality(common),
      disappeared |-> Cardinality(Sources(visible[0]) \ common),
      appeared |-> Cardinality(Sources(visible[v])),
      median |-> NearestRank(moves, 50), p95 |-> NearestRank(moves, 95)]

\* compareProjectedPoints(baseline, view v), for views that share a point.
Comparison(v) ==
  LET common == Sources(visible[0]) \intersect Sources(visible[v])
      order == Sorted(common, LAMBDA s, t : s < t)
      moves == [i \in DOMAIN order |-> Displacement(WithSource(visible[v], order[i]),
                                                    WithSource(visible[0], order[i]))]
  IN [common |-> Cardinality(common),
      disappeared |-> Cardinality(Sources(visible[0]) \ common),
      appeared |-> Cardinality(Sources(visible[v]) \ common),
      median |-> NearestRank(moves, 50), p95 |-> NearestRank(moves, 95)]

\* A view that shares no point with the calibration ends the whole run.
Compare ==
  /\ phase = "compare"
  /\ IF \/ ~Indexable(visible[0]) \/ ~Indexable(visible[view])
        \/ Sources(visible[0]) \intersect Sources(visible[view]) = {}
     THEN Leave("processing") /\ UNCHANGED <<view, metrics>>
     ELSE /\ metrics' = Append(metrics, Comparison(view))
          /\ IF view < last THEN phase' = "project" /\ view' = view + 1
             ELSE phase' = "draw" /\ view' = 0
          /\ UNCHANGED exit
  /\ UNCHANGED <<file, readable, last, next, points, dropped, counts, visible, winner, overlay>>

\* Mutant: of two equally deep points, the later one is kept.
WinsOrTies(p, held) == held = 0 \/ p.depth <= visible[view][held].depth

\* Whether p is nearer than what the z-buffer holds; infinity where it has no winner.
Wins(p, held) == held = 0 \/ p.depth < visible[view][held].depth

\* One turn of the first loop of renderDepthOverlay.
DrawPoint ==
  /\ phase = "draw" /\ next <= Len(visible[view])
  /\ LET p == visible[view][next] IN
     IF ~Drawable(p) THEN Leave("processing") /\ UNCHANGED <<winner, next>>
     ELSE /\ winner' = IF Wins(p, winner[view][Cell(p)])
                       THEN [winner EXCEPT ![view][Cell(p)] = next] ELSE winner
          /\ next' = next + 1
          /\ UNCHANGED <<phase, exit>>
  /\ UNCHANGED <<file, readable, last, view, points, dropped, counts, visible, metrics, overlay>>

\* Mutant: the panel's overlay is drawn from the calibration's points.
OverlayOfBaseline ==
  LET rendered == Cardinality({ c \in Raster : winner[view][c] # 0 })
  IN [projected |-> Len(visible[0]), rendered |-> rendered,
      occluded |-> Len(visible[0]) - rendered]

\* The second loop counts the cells that have a winner.
OverlayOfView ==
  LET rendered == Cardinality({ c \in Raster : winner[view][c] # 0 })
  IN [projected |-> Len(visible[view]), rendered |-> rendered,
      occluded |-> Len(visible[view]) - rendered]

\* After the points of a view: count, and go on to the next view or to the report.
DrawEnd ==
  /\ phase = "draw" /\ next > Len(visible[view])
  /\ overlay' = Append(overlay, OverlayOfView)
  /\ next' = 1
  /\ IF view < last THEN view' = view + 1 /\ UNCHANGED phase
     ELSE phase' = "write" /\ UNCHANGED view
  /\ UNCHANGED <<file, readable, last, points, dropped, counts, visible, metrics, winner, exit>>

Total(v) == counts[v]["visible"] + counts[v]["non_finite_input"]
            + counts[v]["behind_or_too_near"] + counts[v]["non_positive_homogeneous_depth"]
            + counts[v]["outside_image"]

\* What the artifact writers refuse before they touch the file system: tallies of
\* a view that do not add up,
TallyRefused(v) ==
  LET o == overlay[v + 1] IN
  \/ Total(v) # Len(points) \/ o.projected # counts[v]["visible"]
  \/ o.rendered > o.projected \/ o.occluded # o.projected - o.rendered

\* and a perturbed view with nothing in common or its percentiles out of order.
MetricsRefused(v) == metrics[v].common = 0 \/ ~AtMost(metrics[v].median, metrics[v].p95)

Refused == (\E v \in 0..last : TallyRefused(v)) \/ (\E v \in 1..last : MetricsRefused(v))

Write ==
  /\ phase = "write"
  /\ Leave(IF Refused THEN "output" ELSE "success")
  /\ UNCHANGED <<file, readable, last, view, next, points, dropped, counts, visible, metrics,
                 winner, overlay>>

\* Staging or publication fails.
WriteFails ==
  /\ phase = "write"
  /\ Leave("output")
  /\ UNCHANGED <<file, readable, last, view, next, points, dropped, counts, visible, metrics,
                 winner, overlay>>

Next == \/ DecodeRecord \/ Decode \/ ProjectPoint \/ ProjectEnd \/ Compare
        \/ DrawPoint \/ DrawEnd \/ Write \/ WriteFails

Spec == Init /\ [][Next]_vars

-----------------------------------------------------------------------------
(* Properties                                                              *)

\* What the loops tally the writers accept: neither the accounting of a view and its
\* overlay nor the metrics of a panel is ever a reason to refuse a finished run.
WriterAccepts == phase = "write" => ~Refused

\* compareProjectedPoints loses no point: those that the calibration shows stay or
\* disappear, those that the view shows stayed or appeared.
OverlapIsConserved ==
  \A v \in DOMAIN metrics :
    /\ metrics[v].common + metrics[v].disappeared = counts[0]["visible"]
    /\ metrics[v].common + metrics[v].appeared = counts[v]["visible"]

\* The published percentiles are nearest ranks: the least displacement of a common
\* point that the stated share of the common points does not exceed, for the median
\* and for p95, whatever their number and with ties among them.
IsPercentile(value, percent, v) ==
  LET common == Sources(visible[0]) \intersect Sources(visible[v])
      D == [s \in common |-> Displacement(WithSource(visible[v], s), WithSource(visible[0], s))]
      Enough(d) == 100 * Cardinality({ s \in common : AtMost(D[s], d) })
                     >= percent * Cardinality(common)
  IN /\ value \in { D[s] : s \in common }
     /\ Enough(value)
     /\ \A s \in common : Enough(D[s]) => AtMost(value, D[s])
PercentilesAreNearestRank ==
  \A v \in DOMAIN metrics : /\ IsPercentile(metrics[v].median, 50, v)
                            /\ IsPercentile(metrics[v].p95, 95, v)

\* A finished overlay shows in every cell the nearest of all points that fall into
\* it, the earliest of them when several are equally near, and nothing elsewhere:
\* the order of the points decides between ties only.
NearestWins ==
  \A v \in 0..(Len(overlay) - 1) : \A c \in Raster :
    LET hits == { i \in DOMAIN visible[v] : Cell(visible[v][i]) = c }
        w == winner[v][c]
    IN IF hits = {} THEN w = 0
       ELSE /\ w \in hits
            /\ \A i \in hits \ {w} : \/ visible[v][w].depth < visible[v][i].depth
                                     \/ visible[v][w].depth = visible[v][i].depth /\ w < i

\* The exit status tells what the file and the calibration were, judged by the
\* records of the file themselves: input for a file that cannot be used,
\* processing exactly when a perturbation leaves no record in sight of both it and
\* the calibration, and a success has tallied every finite record in every view.
InSight(v, s) ==
  { i \in DOMAIN file : file[i] # NonFinite /\ Status(Moved(v, file[i])) = s }
Usable == readable /\ \E i \in DOMAIN file : file[i] # NonFinite
OutcomeTellsWhy ==
  phase = "done" =>
    /\ exit = "input" <=> ~Usable
    /\ exit = "processing" <=>
         Usable /\ \E v \in 1..last : InSight(0, "visible") \intersect InSight(v, "visible") = {}
    /\ exit = "success" =>
         /\ Len(overlay) = last + 1 /\ Len(metrics) = last
         /\ \A v \in 0..last, s \in Statuses : counts[v][s] = Cardinality(InSight(v, s))

=============================================================================
