# Formal models of sensor-fusion-replay-cpp

TLA+ models of the offline camera-LiDAR tools under `src/`, the TLC runs that check
them and the TLAPS proofs about them. Every definition is translated from the C++
source; `PROJECT.json` maps each one to the lines it stands for.

## 1. The system

All programs are single-threaded command-line tools. Nothing is shared in memory
between them: they meet in the file system, where one tool writes the directory
another one reads, and two tools may be given the same output path.

| Component | State it keeps | Operations | What makes it correct |
| --- | --- | --- | --- |
| Staged publication (`projection_artifact`, `sensitivity_artifact`, `extrinsic_recovery_artifact`, `extrinsic_fixture`, `generate_synthetic_kitti`, `run_extrinsic_campaign`, `benchmark_projection`) | the destination, its sibling `<destination>.tmp`, the RAII guard | check, claim, write files, remove old, rename, clean up | one owner of the stage; readers never see half a run as a new one; nothing is removed unasked |
| Grid search (`extrinsic_recovery.cpp`) | row cache, running best, counters | coarse loops, window, fine loops, status, local diagnosis | the answer is the optimum of what the search defines, within the budgets, and the status is honest |
| Recovery run (`recovery_workflow.hpp`, `estimate_extrinsics.cpp`) | what was read so far, the frozen search result | load fixture, fit, replay, open oracle and held-out data, load images, publish | numbers of one report come from one fixture; the search is blind to held-out data; exit code and report agree |
| Authored fixture (`extrinsic_fixture.cpp`) | a directory of JSON and PNG files; while generating: outliers, the pending noise vector, its sum | generate and replace; load manifest, frames, oracle, images with identity checks | the declared corruption is the one applied; a reader notices every replacement and edit that changes its numbers |
| Residual metrics and report accounting (`extrinsic_recovery.cpp`, the recovery writer) | prepared records, candidate rows, three residual tables | prepare, evaluate, tabulate, mark the common set, re-check | every counter of a report agrees with the records and with the other counters |
| Frame graph, rigid transforms | edges in insertion order | `addTransform`, `lookup` | a forest; lookups compose; refusals say why |
| Projection, overlay, sensitivity (`point_cloud_projection`, `projection`, `overlay`, `calibration_sensitivity`, both applications) | counters, visible points, z-buffer, overlap metrics | decode, project, compare, draw, write | every record in one bucket, nearest point wins, overlap conserved, exit status says why |
| KITTI input (`kitti_io`, `kitti_calibration`, `timestamp`) | none | enumerate frames, attach timestamps, parse calibration | frames and timestamps are paired by rank; ids are unique; time increases |
| Campaign (`run_extrinsic_campaign.cpp`) | gate verdicts of the cases A to E | generate or reuse a fixture per case, run, judge, aggregate | no case is dropped; the robustness comparison is on one fixture |
| Benchmark (`benchmark_projection.cpp`) | samples | warm-up, measure, validate counts, report | every iteration is accounted for |
| Build, scripts, data, docs | - | - | - |

Interaction: the campaign calls the fixture generator, the recovery workflow and the
recovery writer; `estimate_extrinsics` calls the last two on a fixture that another
process may replace meanwhile; both projection applications call their artifact
writer with tallies that it checks again; every writer ends in staged publication.

What is hard to test here: two writers between check and claim, killed writers and
their orphaned stages, failures between removal and rename, a fixture replaced
while it is being read file by file, tie-breaking and cached rows of the search at
grid and window borders, budgets decided before the loops run, long sequences of
accepted edges, boundary rounding and ties in the z-buffer, directories listed in any
order, timestamps beyond the range of 64-bit nanoseconds, noise that must cancel for an
odd number of points, counters filled by three loops that must agree, gates accumulated
over a campaign. `PROJECT.json` lists
each at its line, with the property that would catch it or the reason why none does.

## 2. Modules

`StagedPublication` composes all seven writers of one output path and implements
`RunStore`. The other modules are separate: what crosses their borders is named in
their headers and is data there.

### RunStore, StagedPublication

`RunStore` is the abstract promise to a reader of an output path: it shows nothing or
one whole run, each run is shown at most once, and an old run is withdrawn before the
next appears or exchanged for it in one step.

`StagedPublication` has one process per writer. `pc[w]` is its position in its
`write...` function; `dest` and `stage` are the two directory entries with the set of
files in them; `failing` are the writers unwinding an exception. Each program has its
own check (`ProjectionRefuses` ... `BenchmarkRefuses`), since they differ: two look for
a nonempty directory, three for their schema name in the old report, one for any
entry, one for a file. The benchmark claims before it checks (`LateCheck`). The
removal is entry by entry (`RemoveEntry`, `RemoveRoot`), as `remove_all` is. `Cleanup`
may leave part of the stage because the destructor ignores its error code. `Crash`
runs no guard, `DiscardStage` is the user. `raced` and `shown` are history variables
used by properties only. Validation of a request and creation of parent directories
are `Fail` steps before the claim.

### GridSearch

`searchExtrinsicCorrection` on integer ticks: `Preflight` (budgets, then
`prepareObservations`), `CoarseVisit` and `FineVisit` (one turn of a loop nest with
`attempt`), `LayWindow`, `Settle` (status), `Diagnose`. `request` is the validated
configuration with the loss of every tick as data (`Invalid` for a hidden active
point, `NumericFailure` for arithmetic that is not finite); `coarse` and `fine` are
the flags of the cached rows, `evaluated` is `points_evaluated`. Candidate order is
the tuple of `betterExtrinsicCandidate` on exact corrections.

### RecoveryRun

`estimate_extrinsics` step by step against a fixture directory whose files carry the
version they belong to. `BeginReplace`, `RemoveFile`, `Install` are the publication of
`generateExtrinsicFixture` as a reader sees it. Every opened file is compared as the
code compares it: training and held-out data with the identities in the manifest, the
oracle with the fixture's identity, images with nothing but their size. `Fit` yields
any result that `searchExtrinsicCorrection` can return. A reader of one file sees it
whole or fails: the loaders check the checksum of what they parsed, so a file caught
half removed is an `End(3)` step.

### FrameGraph

`addTransform` and `lookup` with the queue of the breadth-first search; transforms are
elements of any group, so that order and inversion matter and nothing is rounded. The
checks that refuse an edge are in source order.

### ProjectionRun

One run of `analyze_calibration` (`last = Panels`) or `project_kitti` (`last = 0`), loop by
loop: `DecodeRecord` keeps the finite records, `ProjectPoint` is one turn of
`projectPointCloud`, `Compare` is `compareProjectedPoints`, `DrawPoint` one turn of the
z-buffer loop, `DrawEnd` the pass that counts winners, `Write` the re-validation and
publication. Pixels are exact fractions of what the matrix yields, so that bounds,
`lround` and the clamp at the last row and column are what the code computes, without
floating-point error. The transforms of the views are constants.

### KittiSequence

The loading half of the same two applications, as a script of thirteen steps (`Script`)
in the order of `run()`: two calibration files, `Assemble`, the drive name, two
directories, two timestamp files, `Attach` and `Find` per stream, `LoadPicture`. `Open`
chooses what a file holds when it is opened, and for a directory also the order in
which the iterator lists it; `ReadCalibrationLine`, `VisitEntry` and `ReadTimestamp` are one
turn of the three reading loops. `Refuse` carries the code of the `IoError`. `Nanos` is the
64-bit arithmetic of `parseKittiTimestamp`, with civil times in units of which `2 * Half`
make a wrap. What a number's digits are is data (`Number`, `found`).

### AuthoredFixture

`generateExtrinsicFixture` frame by frame and point by point: `BeginFrame` draws the
outliers, `AddTarget` is one turn of the loop over the visible points with its noise,
offset, target and oracle pixel, `EndFrame` and `Publish` write files and identities. Then
`Edit` changes at most one file, and `ReadManifest`, `CheckSplit`, `ReadTraining`, `ReadOracle`,
`ReadHeldOut` and `Clean` are the loaders in the order of `composeRecoveryRun` with all their
comparisons. A fingerprint is the content it was taken of. It complements `RecoveryRun`,
where whole fixtures are exchanged while a run reads and no file is edited.

### RecoveryMetrics

`prepareObservations` (sorting, refusals), `evaluatePrepared` per candidate with masks and
overflow (`Evaluation`, collected in `candidates`), `transformMetrics` record by record for the
nominal, the oracle and the recovered correction (`AddResidual` with `Counted` and
`WithResidual`, then `EndTable` with `Summary`), the loop that marks the common set (`Mark`)
and the accounting of the report writer (`Write`). The two sorts of `prepareObservations`
are said by their result: `Flattened` holds at place i the record that i - 1 others precede
(`Earlier`: by frame, then by source index), and `Sorted` says the same of the errors. Pixels
are on a line, so that distances and losses are exact integers; what exceeds `Largest` is
infinite. Which of several equal candidates wins is `GridSearch`.

### Campaign

`main` of `run_extrinsic_campaign`: `Claim` the stage, for each case `PrepareFixture` (only
when its data set is not there) and `RunCase` (run, report, gate, row, robustness data),
`Summarise`, `Publish`, and `Fail` for any exception. What a run finds is any of `Outcomes`,
the fields `main` and `assessExtrinsicRecovery` look at; a fixture is its configuration.
`CampaignInit` may find the stage of a killed campaign. The specification is `CampaignSpec`:
its names do not meet those of `RecoveryMetrics`, because `ReportProofs` extends both.

The `MC...` modules give the constants values; the `...Proofs` modules hold theorems.
`ReportProofs` holds those of `RecoveryMetrics` and `Campaign`.
Definitions marked "Mutant" are plausible faults of the definition after them; no
specification uses them, and each property is known to fail under one of them.

## 3. Runs

| Run | Question | Bounds and why they are enough |
| --- | --- | --- |
| `store` | two processes of any of the seven programs, any options, any content found at start | two writers and two files: ownership and removal are pairwise, and the files of a run matter only as none, some, all. The theorems hold for any number |
| `store_live` | does every writer end | an early-checking and a late-checking program |
| `store_race` | is an existing run refused without `--overwrite` | expected violation, see section 6 |
| `grid_search` | loops, cache, ties, budgets, status, diagnosis | three grids of at most 25 ticks, with clipped and unclipped windows, strides 1 and 2, all tables that are flat but for two ticks; budgets just below and at the need |
| `recovery_run` | replacement during a run, and does the run end | two training frames and a held-out one, two fixtures whose held-out frame and points are equal, two replacements, each of which may stop half way, so that the directory may go there and back |
| `frame_graph` | all sequences of edges over four frames | four frames give paths of three edges, branches, and frames left apart; two transforms that do not commute. The theorems hold for any graph |
| `projection_run` | all files of up to three records of nine kinds, three perturbations | every bucket, a tie, a clamped half pixel, points that appear and disappear, a perturbation that hides everything; the median of one to three values. A p95 below the maximum needs twenty values and is left to the theorem, which holds for any number |
| `kitti_sequence` | all loading paths | up to four entries of an image directory out of seven (two with one number, one not numeric, one directory, one of another extension, gaps), eight calibration files, timestamp files of up to four lines; limits of three frames and lines so that they are met |
| `timestamp_wrap` | do accepted civil times increase | expected violation, see section 6 |
| `campaign` | verdict, rows, fixtures | eight cases, each expectation at least once and the paired ones on one data set; every outcome that decides a gate, single missing conditions for the first; leftovers of a killed campaign. The theorems hold for any list of cases |
| `authored_fixture` | corruption and its declaration; edits | three frames of three or four points of which two to four are visible, fractions 0, 1/2, 3/5 and 1, two draws per level, and an offset that leaves the image for some points; every file reordered, shortened, lengthened or changed. The theorems hold for any scenes and draws |
| `recovery_metrics` | do all counters of a report agree | one or two records in one frame and one in the other, of ten kinds: hidden by some corrections, by all but one, masked, heavy enough to overflow, off the image; both losses; frames out of order, and in order with one record each. The theorem holds for any number of frames, records and candidates |

`CHECK_DEADLOCK FALSE` is set because all programs stop. In the runs with symmetry the
symmetric set (writers, frames) is never ordered nor chosen from by name, and no
liveness is checked with it.

Fairness. `FairSpec` of `StagedPublication` is weak fairness of each writer's own steps,
that of `RecoveryRun` of the run's, that of `GridSearch` of its single thread: the
operating system schedules a running process, and none of them waits for another.
Failures, crashes, the user and the replacing generator have no fairness.

## 4. Proofs

Proved with TLAPS for every value of the constants under the named assumptions of the
modules:

- `StagedPublicationProofs`: the type invariant, all six safety properties of the
  `store` run and the refinement of `RunStore`. The invariant `IInv` adds to the properties
  what each position knows: only the benchmark holds an unchecked stage and it never
  removes (`Paths`), the stage is complete before the removal (`StageComplete`), what the
  check accepted still describes the destination unless somebody published in the
  window (`CheckStands`), and such a publication has already displaced what was found at
  start (`RacedAfterPrior`). `OnlyRacedContentRemovedUnasked` is not inductive without
  `CheckStands`: a check is made long before the removal relies on it. The refinement
  also needs `StoreInv` (a run is shown by a writer that is done writing, once).
- `GridSearchProofs`: types, `BestOfVisited`, `AnswerIsReferenceOptimum` and
  `StatusTellsWhatWasSearched`. `CoarseSwept` and `WindowSwept` say which rows the loop
  variables have passed; that the candidate order is a strict total order on the grid
  (`BetterStrict`) and that the window holds every fine tick around the coarse optimum
  carry the rest. The same module proves `VisitsWithinBudget`, `DiagnosisOverrunsByOnePass` and
  `OneSidedMeansHiddenNeighbour`. `Spent` says that every visited row was projected once and
  that what the second loops visit lies in a window around a coarse candidate; the rows
  are then counted as the coarse grid and the window less what they share, and they
  share four candidates at least (`FourAgain`: a neighbour on each axis one coarse step
  away). `Diagnosed` says of which candidate the probe is.
- `RecoveryRunProofs`: types, `OneFixtureReported`, `ExitCodeTellsReport` and
  `SearchBlindToHeldOut`. `Opened` says what has been opened at each position, `Matched`
  that each opened file says what the manifest said it would. They rest on
  `ManifestAssumption`: two fixtures with one manifest are one fixture, that is, the
  identities in it do not collide.
- `ReportProofs`, one recovery: `ReportAddsUp`, for any observation frames, grid, corrections,
  projection and loss. Assumed is what the types of the code say: records carry integers
  and points, a projection has one of five statuses and a pixel (`InputsAssumption`,
  `SeenAssumption`), and image, delta and limit are positive. `ReportAddsUp` speaks of the
  finished report only, so that `IInv` has to say what each loop has done so far: the
  prepared records list the retained ones once each, in the order of their keys
  (`Prepared`); the candidate rows are the evaluations of the first corrections of the grid
  (`Searched`); what is recovered has a row with a loss (`Settled`); the tables of the models
  behind the current one are `Filled`, the current one is `Filling` with the records up to
  `next`, and `compared` is what the finished ones cost (`Tabulated`); in the end the common
  set of every table is that of the records marked so far (`Marked`). A count over places of
  the list is a count of records because the list names each record once
  (`ListingCounts`). The accounting of the writer (`AccountingHolds`) is that every record is
  active or masked, seen or not, and has one of five statuses (`SumOfClasses`). Sums are the
  folds of the community modules, which take some element first: `SumsExist`, `SumsAgree` and
  `SumTakesAny` show by least counterexamples that it does not matter which, and `SumAdds`
  follows. That a percentile is a nearest rank of the records rests on `RankTaken` and
  `RankOfIs`.
- `ReportProofs`, a campaign: types, `VerdictIsTheGates` and `OwnFixture`, for every list of
  cases in which a data set has one configuration. `CampaignInv` says that every row up to
  `at` carries the gate its finding deserves, that `required` is their conjunction with the
  identity of the pair, that the remembered pairs are those of their rows, and that each
  fixture in the stage is of its data set's configuration; the verdict follows only from all
  of them.
- `ProjectionRunProofs`: `OverlapIsConserved`, `NearestWins`, `OutcomeTellsWhy`,
  `PercentilesAreNearestRank` and `WriterAccepts`. The invariant follows the loops: which
  records have become points (`Decoded`), that a view holds the visible ones of the points
  projected so far, in order, with its tallies (`Holds`), which views were compared
  (`Compared`), and that of the points drawn so far the nearest owns its cell (`Nearest`). A
  percentile is proved by counting: in a sorted listing the first k places are k members,
  and what is at place k exceeds none but the members before it (`Ranked`). It rests on
  `CameraAssumption` (a transform of a finite record is refused or has an integer depth and
  homogeneous pixel), on at least one perturbation and on an image that has pixels.
- `FrameGraphProofs`: `Forest`, `LookupComposes`, `RefusalsTellTheTruth` and the action property
  `AnswersStand`, for any finite set of frames and any group of transforms (the group laws
  are the assumption). A turn of the search keeps it sound (`FollowStep`, `TurnStep`: what
  was visited has the transform that every placement of the frames gives it) and looks at all
  edges of one more frame (`TurnExplores`), so that it ends with exactly the frames
  tied to its source (`ReachedIsTied`). `IInv` is `Forest` and that the frames can be
  placed so that every edge fits: without a placement the answers of two paths need not agree.
  An accepted edge joins two parts (`OnePartLess`), one of which is moved (`PlacedAgain`).
- `KittiSequenceProofs`: types, and under `TimesAreNear` `SelectionIsByRank`, `RefusalsTellTheTruth`
  and `AcceptedTimesIncrease`. `TimesAreNear` says that neither a time nor a difference of
  two leaves the width of an int64, as for all times within 146 years of the epoch;
  `timestamp_wrap` shows why it is needed. `IInv` carries what each finished step has
  established (`Finished`) and what has been kept of the file being read (`Opened`); that
  sorted numbers are taken by rank is a count of smaller members.
- `AuthoredFixtureProofs`: `CorruptionIsDeclared` and `LoadIsFaithful`, for any scenes, hidden
  transforms, draws, fractions and image. `Generating` says what the two loops have written:
  after k points the targets are the first k visible places moved by their noise and
  offset, each even one with the noise of its predecessor taken back (`Paired`), and the
  oracle pixels are those places with their labels. `NoiseCancels` adds the pairs up, also
  for an odd number of points. For the loaders, the canonical order of a file of records
  equals a rising listing exactly when the file shuffles it (`CanonicalMatches`); from this
  `FrameAccepted`, `ManifestAccepted` and `OracleAccepted` say that each check passes exactly for
  what was published, and `Known` carries from loader to loader what has been checked.
  Assumed: a point that is seen has its pixel in the image, scenes differ, a noise level
  of zero draws nothing; fingerprints do not collide, as in the model.

The temporal theorems combine initial, step and implication lemmas. Induction over data
is done with sets of natural numbers that have a least member (`LeastNatural`,
`CountingUp`), and sorted sequences are described by counting what is smaller, so that no
induction theorem is instantiated. Every invariant and action property that a passing run
checks, and the refinement, is stated by a theorem. Only model-checked: liveness
(`EveryWriterEnds`, `SearchEnds`, `RunEnds`), which this prover does not reach; it is checked
under the fairness of section 3.

## 5. Not modelled

- Floating point: tolerances of `RigidTransform`, the 1e-15 of the diagnosis, rounding of
  tick positions, residual sums, singular values. Models are exact; the hazards list
  says where that matters.
- Parsing, formatting, JSON layout, PNG and panel drawing, colours, timing figures.
- The authored geometry and the random generator: scenes, draws and ranks of
  `AuthoredFixture` are arbitrary. The thresholds of the acceptance gates: their verdicts
  are data of `Campaign` and `RecoveryRun`.
- Loss of data by the operating system: the code calls no fsync and promises none.
- Argument parsing, plots, overlays of the recovery report, the ranges over the noise
  cases of a campaign, the synthetic KITTI scene.
- The benchmark's iterations: a fixed count of equal passes over one input whose results
  are compared for equality; its measurements are wall-clock times.

## 6. Findings

`store_race`: the recovery writer looks for an existing run (lines 392-402 of
`extrinsic_recovery_artifact.cpp`) before it claims its stage (403), and removes what is at
the destination (656-658) without asking again. A run published in between by
another writer with the same run id, stage freed, is removed although nobody passed
`--overwrite`; `spec.md:496` and `docs/extrinsic_recovery.md:33` say existing runs are refused.
Five other writers share the order; the benchmark checks after its claim, and
`LateCheckIsNeverStale` shows that this is enough. `OnlyRacedContentRemovedUnasked` and
`PriorFilesSurvive` are what remains true of the others.

`timestamp_wrap`: `parseKittiTimestamp` accepts every four-digit year and casts days to 64-bit
nanoseconds (`timestamp.cpp:57`). Outside 1677 to 2262 the product overflows; builds without
a sanitizer wrap. `loadKittiTimestamps` compares the results only, so that a file with
2262-04-12 before 2262-04-11 loads as increasing, against `spec.md:284` ("Equal or decreasing
timestamps are errors"). Within the range `RefusalsTellTheTruth` of `kitti_sequence` shows
that no equal or decreasing line is accepted.

## 7. Plan

The modules were written in this order: `StagedPublication` with `RunStore`, `GridSearch`,
`RecoveryRun`, `FrameGraph`, `ProjectionRun`, `KittiSequence`, `Campaign`, `AuthoredFixture`,
`RecoveryMetrics`, each with its runs first and its proofs after them.

What could come next, in the order of its use: the benchmark's accounting of iterations, the
ranges over the noise cases of a campaign, and the tolerances of `RigidTransform` as intervals,
which would make the two floating-point hazards that no property covers checkable.

## 8. Commands

`tlc -workers 2 -config MCGridSearch.cfg MCGridSearch.tla` (module and configuration of each
run are in `PROJECT.json`) and `tlapm GridSearchProofs.tla`.
