----------------------------- MODULE RecoveryRun -----------------------------
(***************************************************************************)
(* One run of estimate_extrinsics (composeRecoveryRun and what main makes   *)
(* of it) while generate_extrinsic_fixture --overwrite replaces the fixture *)
(* it reads.  The fixture is a directory of files, opened one after the     *)
(* other by path: each open may find the old fixture, the new one, or       *)
(* nothing.  The run reads the manifest and the training data, searches     *)
(* twice, only then opens the oracle and the held-out data, and publishes.  *)
(***************************************************************************)
EXTENDS Naturals, Sequences, Functions

CONSTANTS
  Versions,          \* the fixtures that the directory may hold in turn
  Training,          \* --train-frames, in order
  Held,              \* --validation-frames, in order
  ContentOf(_, _),   \* ContentOf(f, v): what file f of fixture v says
  MaxReplacements,   \* bound on the replacements of the fixture
  Missing,           \* no such file
  NotYet             \* not read, not decided

Frames == Range(Training) \union Range(Held)

Manifest == <<"manifest", 0>>
Oracle == <<"oracle", 0>>
Points(f) == <<"points", f>>
Observations(f) == <<"observations", f>>
Image(f) == <<"image", f>>
DataOf(fs) == { Points(f) : f \in fs } \union { Observations(f) : f \in fs }
Files == {Manifest, Oracle} \union DataOf(Frames) \union { Image(f) : f \in Frames }

\* validateExtrinsicSplit: two training frames and a held-out one at least, apart.
ASSUME FramesAssumption ==
  /\ Training \in Seq(Nat) /\ Len(Training) >= 2
  /\ Held \in Seq(Nat) /\ Len(Held) >= 1
  /\ Range(Training) \intersect Range(Held) = {}
ASSUME ReplacementsAssumption == MaxReplacements \in Nat
ASSUME MarkersAssumption ==
  /\ Missing \notin Versions /\ NotYet \notin Versions /\ NotYet \notin BOOLEAN
  /\ Missing # NotYet
\* Two fixtures have the same manifest only if they are the same: it carries the
\* seed, the parameters and the identities of all points and observations, which
\* the hidden parameters of the oracle decide.
ASSUME ManifestAssumption ==
  \A v, w \in Versions : ContentOf(Manifest, v) = ContentOf(Manifest, w) => v = w

VARIABLES
  dir,         \* dir[f]: the fixture that file f belongs to, or Missing
  generator,   \* the replacing program: "idle", "removing"
  incoming,    \* the fixture it has staged
  replaced,    \* how many replacements were begun
  pc,          \* where the run is
  next,        \* which file of the current list is opened next
  read,        \* read[f]: the fixture that f was read from
  search,      \* the search result, frozen by the first fit
  passed,      \* acceptance.passed of the published report
  exit         \* the exit code

fixture == <<dir, generator, incoming, replaced>>
run == <<pc, next, read, search, passed, exit>>
vars == <<dir, generator, incoming, replaced, pc, next, read, search, passed, exit>>

Statuses == {"no_valid_candidate", "bound_limited", "refinement_limited", "grid_complete"}
Results == [status : Statuses, available : BOOLEAN, poor : BOOLEAN]

\* diagnose runs only for a best candidate, and only an available diagnosis
\* takes back the default that the answer is poorly identifiable.
Possible(r) == /\ r.available => r.status # "no_valid_candidate"
               /\ ~r.available => r.poor

Init ==
  /\ \E v \in Versions : dir = [f \in Files |-> v]
  /\ generator = "idle" /\ incoming = NotYet /\ replaced = 0
  /\ pc = "manifest" /\ next = 1
  /\ read = [f \in Files |-> NotYet]
  /\ search = NotYet /\ passed = NotYet /\ exit = NotYet

-----------------------------------------------------------------------------
(* The fixture is replaced: removed entry by entry, then renamed into place *)

BeginReplace ==
  /\ generator = "idle" /\ replaced < MaxReplacements
  /\ \E v \in Versions : incoming' = v
  /\ generator' = "removing"
  /\ replaced' = replaced + 1
  /\ UNCHANGED <<dir, run>>

\* frames/, and in it a folder for each frame.
Folders == { {Points(i), Observations(i), Image(i)} : i \in Frames }
             \union { Files \ {Manifest, Oracle} }
HalfRemoved(folder) == \E f, g \in folder : dir[f] = Missing /\ dir[g] # Missing

\* remove_all: entries in any order, a folder begun is emptied first.
RemoveFile ==
  /\ generator = "removing"
  /\ \E f \in Files :
       /\ dir[f] # Missing
       /\ \A folder \in Folders : HalfRemoved(folder) => f \in folder
       /\ dir' = [dir EXCEPT ![f] = Missing]
  /\ UNCHANGED <<generator, incoming, replaced, run>>

Install ==
  /\ generator = "removing"
  /\ \A f \in Files : dir[f] = Missing
  /\ dir' = [f \in Files |-> incoming]
  /\ generator' = "idle" /\ incoming' = NotYet
  /\ UNCHANGED <<replaced, run>>

-----------------------------------------------------------------------------
(* The run                                                                 *)

End(code) == pc' = "ended" /\ exit' = code
GoOn(to) == pc' = to /\ next' = 1 /\ UNCHANGED exit
Take(f) == read' = [read EXCEPT ![f] = dir[f]]
Same(f) == dir[f] # Missing /\ ContentOf(f, dir[f]) = ContentOf(f, read[Manifest])

\* loadExtrinsicFixture: the manifest carries its own checksum, so that it is
\* read whole or refused.  Illegal arguments and an illegal split end here too.
ReadManifest ==
  /\ pc = "manifest"
  /\ \/ End(2) /\ UNCHANGED <<next, read>>
     \/ End(3) /\ UNCHANGED <<next, read>>
     \/ dir[Manifest] # Missing /\ Take(Manifest) /\ GoOn("training")
  /\ UNCHANGED <<fixture, search, passed>>

\* The i-th file opened for a list of frames.
DataFile(frames, i) ==
  IF i % 2 = 1 THEN Points(frames[(i + 1) \div 2]) ELSE Observations(frames[i \div 2])

\* loadExtrinsicObservationFrames: points and observations of each frame, both
\* compared with the identities in the manifest.  A missing file, a file over a
\* limit and a read error end the run just as a mismatch does.
ReadData(frames, here, after) ==
  LET f == DataFile(frames, next)
  IN /\ pc = here
     /\ \/ End(3) /\ UNCHANGED <<next, read>>
        \/ /\ Same(f) /\ Take(f)
           /\ IF next < 2 * Len(frames)
              THEN next' = next + 1 /\ UNCHANGED <<pc, exit>>
              ELSE GoOn(after)
     /\ UNCHANGED <<fixture, search, passed>>

\* Mutant: all selected frames are loaded at once.
ReadAllFrames == ReadData(Training \o Held, "training", "fit")

ReadTraining == ReadData(Training, "training", "fit")
ReadHeldOut == ReadData(Held, "held_out", "images")

\* fit: a refused configuration ends the run, a result is frozen.
Fit ==
  /\ pc = "fit"
  /\ \/ End(2) /\ UNCHANGED <<next, search>>
     \/ \E r \in Results : Possible(r) /\ search' = r /\ GoOn("refit")
  /\ UNCHANGED <<fixture, read, passed>>

\* The replay: the same pure function of the same values, compared only.
Refit ==
  /\ pc = "refit"
  /\ GoOn("oracle")
  /\ UNCHANGED <<fixture, read, search, passed>>

\* Mutant: the oracle is not asked which fixture it belongs to.
ReadAnyOracle ==
  /\ pc = "oracle"
  /\ \/ End(3) /\ UNCHANGED <<next, read>>
     \/ dir[Oracle] # Missing /\ Take(Oracle) /\ GoOn("held_out")
  /\ UNCHANGED <<fixture, search, passed>>

\* loadExtrinsicOracle: it names the identity of the fixture it belongs to.
ReadOracle ==
  /\ pc = "oracle"
  /\ LET own == dir[Oracle] # Missing /\
                ContentOf(Manifest, dir[Oracle]) = ContentOf(Manifest, read[Manifest])
     IN \/ End(3) /\ UNCHANGED <<next, read>>
        \/ own /\ Take(Oracle) /\ GoOn("held_out")
  /\ UNCHANGED <<fixture, search, passed>>

\* Mutant: a file that is not there is waited for.
ReadImageWhenThere ==
  /\ pc = "images"
  /\ LET frames == Training \o Held
         f == Image(frames[next])
     IN /\ dir[f] # Missing /\ Take(f)
        /\ IF next < Len(frames)
           THEN next' = next + 1 /\ UNCHANGED <<pc, exit>>
           ELSE GoOn("publish")
  /\ UNCHANGED <<fixture, search, passed>>

\* Mutant: an image that could not be opened is taken for an empty one.
ReadImageUnchecked ==
  /\ pc = "images"
  /\ LET frames == Training \o Held
         f == Image(frames[next])
     IN /\ Take(f)
        /\ IF next < Len(frames)
           THEN next' = next + 1 /\ UNCHANGED <<pc, exit>>
           ELSE GoOn("publish")
  /\ UNCHANGED <<fixture, search, passed>>

\* loadExtrinsicFixtureImage, training frames first: nothing but the size of an
\* image is known to the manifest.
ReadImage ==
  /\ pc = "images"
  /\ LET frames == Training \o Held
         f == Image(frames[next])
     IN \/ End(3) /\ UNCHANGED <<next, read>>
        \/ /\ dir[f] # Missing /\ Take(f)
           /\ IF next < Len(frames)
              THEN next' = next + 1 /\ UNCHANGED <<pc, exit>>
              ELSE GoOn("publish")
  /\ UNCHANGED <<fixture, search, passed>>

SearchGate(r) == r.status = "grid_complete" /\ r.available /\ ~r.poor
ExitCode(r) == IF SearchGate(r) THEN 0 ELSE 4

\* Mutant: the search gate is left out of the verdict.
AcceptsOnMetrics(r, metrics) == r.status # "no_valid_candidate" /\ metrics

\* assessExtrinsicRecovery: without a best candidate nothing passes; the
\* parameter, coverage and held-out gates are data.
Accepts(r, metrics) == r.status # "no_valid_candidate" /\ metrics /\ SearchGate(r)

\* writeExtrinsicRecoveryArtifacts publishes or throws; the exit code is that of
\* the search, not of the acceptance.  (main maps a GeometryError to 4 as well;
\* none leaves the steps above: the fit and the loads convert theirs, and the
\* comparison is given what they have validated.)
Publish ==
  /\ pc = "publish"
  /\ \/ End(5) /\ UNCHANGED passed
     \/ \E metrics \in BOOLEAN :
          passed' = Accepts(search, metrics) /\ End(ExitCode(search))
  /\ UNCHANGED <<fixture, next, read, search>>

RunStep ==
  \/ ReadManifest \/ ReadTraining \/ Fit \/ Refit \/ ReadOracle \/ ReadHeldOut
  \/ ReadImage \/ Publish

Next == RunStep \/ BeginReplace \/ RemoveFile \/ Install

Spec == Init /\ [][Next]_vars
\* The run is scheduled; nothing forces a replacement to begin or to go on.
FairSpec == Spec /\ WF_vars(RunStep)

-----------------------------------------------------------------------------
(* Properties                                                              *)

Lists == {"training", "held_out", "images"}
TypeOK ==
  /\ dir \in [Files -> Versions \union {Missing}]
  /\ generator \in {"idle", "removing"}
  /\ incoming \in Versions \union {NotYet}
  /\ replaced \in 0..MaxReplacements
  /\ pc \in {"manifest", "fit", "refit", "oracle", "publish", "ended"} \union Lists
  /\ next \in Nat \ {0}
  /\ read \in [Files -> Versions \union {NotYet}]
  /\ search \in Results \union {NotYet}
  /\ passed \in BOOLEAN \union {NotYet}
  /\ exit \in {0, 2, 3, 4, 5, NotYet}

Published == passed # NotYet
Numbers == DataOf(Frames) \union {Oracle}

\* All numbers of a published report come from one fixture, the one its manifest
\* identity names, whatever was replaced between two reads: training data,
\* oracle and held-out data are what that fixture says (the identity checks of
\* loadExtrinsicObservationFrames and loadExtrinsicOracle).
OneFixtureReported ==
  Published => \A f \in Numbers :
    read[f] # NotYet /\ ContentOf(f, read[f]) = ContentOf(f, read[Manifest])

\* The search is decided before the oracle or any held-out file is opened and
\* never changes afterwards ("freeze before oracle/held out").
SearchBlindToHeldOut ==
  [][search' # search =>
       /\ search = NotYet
       /\ \A f \in DataOf(Range(Held)) \union {Oracle} : read'[f] = NotYet]_vars

\* The exit code and the report agree: 0 and 4 come with a report, 2, 3 and 5
\* without one, and a run that exits 4 never passed its acceptance.
ExitCodeTellsReport ==
  exit # NotYet =>
    /\ Published <=> exit \in {0, 4}
    /\ exit = 0 => search.status = "grid_complete" /\ search.available /\ ~search.poor
    /\ Published /\ passed => exit = 0

\* Every run ends, whatever becomes of the fixture.
RunEnds == <>(pc = "ended")

=============================================================================
