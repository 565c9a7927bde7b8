------------------------- MODULE StagedPublication -------------------------
(***************************************************************************)
(* The writers of this repository that publish to one output path.  Each   *)
(* is a process of its own (there is no lock between processes): it checks *)
(* the destination, claims the sibling directory <destination>.tmp by      *)
(* creating it exclusively, writes its files there, removes what is at the *)
(* destination and renames the stage into place.  An RAII guard removes    *)
(* the stage when an exception unwinds the writer; a killed process leaves *)
(* it behind.  The benchmark claims first and checks afterwards, and       *)
(* renames one file over another instead of replacing a directory.         *)
(*                                                                         *)
(* A check is one step: each code path reads the destination once or       *)
(* refuses on a later read, and a read that fails is a Fail step.          *)
(***************************************************************************)
EXTENDS Naturals

CONSTANTS
  Writers,     \* the processes that were given this destination
  Programs,    \* the programs they may be
  Prior,       \* whoever left the files found at start
  Nobody,      \* no run
  LastFile     \* files of a run directory are 1..LastFile, in writing order

ASSUME WritersAssumption == Prior \notin Writers /\ Nobody \notin Writers \union {Prior}
ASSUME ProgramsAssumption == Programs \subseteq {"projection", "sensitivity", "recovery",
                                                "campaign", "fixture", "kitti", "benchmark"}
ASSUME LastFileAssumption == LastFile \in Nat /\ LastFile >= 2

VARIABLES
  kind,        \* kind[r]: the program that made run r; "other" is none of ours
  overwrite,   \* overwrite[w]: w was started with --overwrite
  pc,          \* pc[w]: where process w is
  failing,     \* writers unwinding an exception: their guard is about to run
  dest,        \* what is at the destination path
  stage,       \* what is at <destination>.tmp
  raced,       \* history: writers that were between their check and their claim
               \* while another one published
  shown        \* history: runs that were visible as a whole

options == <<kind, overwrite>>
vars == <<kind, overwrite, pc, failing, dest, stage, raced, shown>>

-----------------------------------------------------------------------------
(* Programs, files and directory entries                                   *)

Owners == Writers \union {Prior}

\* One report file for the benchmark, a directory of files for the others.
FilesOf(k) == IF k = "benchmark" THEN {1} ELSE 1..LastFile
FormOf(k) == IF k = "benchmark" THEN "file" ELSE "dir"

\* The file that carries the schema name later --overwrite checks look for:
\* report.json and campaign.json are written last, fixture.json before the oracle.
Marker(k) == IF k = "fixture" THEN LastFile - 1 ELSE LastFile

Absent == [form |-> "absent", run |-> Nobody, files |-> {}]
Entry(f, r, fs) == [form |-> f, run |-> r, files |-> fs]
Entries == [form : {"absent", "file", "dir"}, run : Owners \union {Nobody},
            files : SUBSET (1..LastFile)]

Exists(e) == e.form # "absent"
Whole(e) == /\ Exists(e)
            /\ e.form = FormOf(kind[e.run])
            /\ e.files = FilesOf(kind[e.run])
CarriesSchema(e, k) == e.form = "dir" /\ e.files # {} /\ kind[e.run] = k /\ Marker(k) \in e.files

-----------------------------------------------------------------------------
(* The checks that decide whether a writer may start, one per program      *)

ProjectionRefuses(over, e) ==
  \/ e.form = "file"
  \/ e.form = "dir" /\ e.files # {} /\ ~over

SensitivityRefuses(over, e) ==
  \/ e.form = "file"
  \/ e.form = "dir" /\ e.files # {} /\ ~over

\* Mutant: the schema of the old run is not looked at.
RecoveryRefusesUnlessOverwrite(over, e) == Exists(e) /\ e.files # {} /\ ~over

\* An empty regular file counts as empty here, as an empty directory does.
RecoveryRefuses(over, e) ==
  Exists(e) /\ e.files # {} /\ (~over \/ ~CarriesSchema(e, "recovery"))

CampaignRefuses(over, e) ==
  Exists(e) /\ e.files # {} /\ (~over \/ ~CarriesSchema(e, "campaign"))

FixtureRefuses(over, e) ==
  \/ Exists(e) /\ (e.form # "dir" \/ ~over)
  \/ Exists(e) /\ e.files # {} /\ ~CarriesSchema(e, "fixture")

\* Mutant: the option is not asked for when a directory is there.
KittiRefusesFilesOnly(over, e) == Exists(e) /\ e.form # "dir"

KittiRefuses(over, e) ==
  Exists(e) /\ (~over \/ e.form # "dir")

BenchmarkRefuses(over, e) ==
  Exists(e) /\ (e.form = "dir" \/ ~over)

Refuses(k, over, e) ==
  \/ k = "projection" /\ ProjectionRefuses(over, e)
  \/ k = "sensitivity" /\ SensitivityRefuses(over, e)
  \/ k = "recovery" /\ RecoveryRefuses(over, e)
  \/ k = "campaign" /\ CampaignRefuses(over, e)
  \/ k = "fixture" /\ FixtureRefuses(over, e)
  \/ k = "kitti" /\ KittiRefuses(over, e)
  \/ k = "benchmark" /\ BenchmarkRefuses(over, e)

-----------------------------------------------------------------------------
(* The steps of one writer                                                 *)

Ended == {"published", "refused", "failed", "crashed"}
Holding == {"claimed", "writing", "removing", "renaming", "cleaning"}
PCs == {"start", "checked"} \union Holding \union Ended

Goto(w, to) == pc' = [pc EXCEPT ![w] = to]

\* At start the path holds nothing, an empty entry, or the files of a run of one
\* of the programs or of something else; the sibling path is free or taken.
Init ==
  /\ kind \in [Owners -> Programs \union {"other"}]
  /\ \A w \in Writers : kind[w] \in Programs
  /\ overwrite \in [Writers -> BOOLEAN]
  /\ pc = [w \in Writers |-> "start"]
  /\ failing = {}
  /\ dest \in {Absent} \union
        { Entry(IF kind[Prior] = "benchmark" THEN "file" ELSE "dir", Prior, fs) :
            fs \in {{}, FilesOf(kind[Prior])} }
  /\ stage \in {Absent, Entry("dir", Prior, {1})}
  /\ raced = {}
  /\ shown = IF Whole(dest) THEN {dest.run} ELSE {}

\* Every program but the benchmark looks at the destination before it owns
\* anything.
Precheck(w) ==
  /\ pc[w] = "start"
  /\ kind[w] # "benchmark"
  /\ Goto(w, IF Refuses(kind[w], overwrite[w], dest) THEN "refused" ELSE "checked")
  /\ UNCHANGED <<options, failing, dest, stage, raced, shown>>

\* Mutant: a directory that is already there is taken over (create_directories
\* in place of create_directory).
ClaimAnyway(w) ==
  /\ pc[w] = IF kind[w] = "benchmark" THEN "start" ELSE "checked"
  /\ stage' = Entry("dir", w, {})
  /\ Goto(w, IF kind[w] = "benchmark" THEN "claimed" ELSE "writing")
  /\ UNCHANGED <<options, failing, dest, raced, shown>>

\* Mutant: a taken stage is waited for.
ClaimWhenFree(w) ==
  /\ pc[w] = IF kind[w] = "benchmark" THEN "start" ELSE "checked"
  /\ ~Exists(stage)
  /\ stage' = Entry("dir", w, {})
  /\ Goto(w, IF kind[w] = "benchmark" THEN "claimed" ELSE "writing")
  /\ UNCHANGED <<options, failing, dest, raced, shown>>

\* create_directory succeeds for exactly one process; the guard is only
\* constructed then.
Claim(w) ==
  /\ pc[w] = IF kind[w] = "benchmark" THEN "start" ELSE "checked"
  /\ IF Exists(stage)
     THEN Goto(w, "refused") /\ UNCHANGED stage
     ELSE /\ stage' = Entry("dir", w, {})
          /\ Goto(w, IF kind[w] = "benchmark" THEN "claimed" ELSE "writing")
  /\ UNCHANGED <<options, failing, dest, raced, shown>>

\* The benchmark's check, made while it owns the stage.
LateCheck(w) ==
  /\ pc[w] = "claimed"
  /\ IF Refuses(kind[w], overwrite[w], dest)
     THEN Goto(w, "cleaning") /\ failing' = failing \union {w}
     ELSE Goto(w, "writing") /\ UNCHANGED failing
  /\ UNCHANGED <<options, dest, stage, raced, shown>>

\* Mutant: one file more than the request was validated for.
WriteFileTooMany(w) ==
  /\ pc[w] = "writing"
  /\ \E f \in 1..LastFile + 1 : stage' = [stage EXCEPT !.files = @ \union {f}]
  /\ UNCHANGED <<options, pc, failing, dest, raced, shown>>

WriteFile(w) ==
  /\ pc[w] = "writing"
  /\ \E f \in FilesOf(kind[w]) \ stage.files :
       /\ \A g \in FilesOf(kind[w]) : g < f => g \in stage.files
       /\ stage' = [stage EXCEPT !.files = @ \union {f}]
  /\ UNCHANGED <<options, pc, failing, dest, raced, shown>>

\* Mutant: publication starts before the last file is closed.
BeginPublishEarly(w) ==
  /\ pc[w] = "writing"
  /\ stage.files # {}
  /\ Goto(w, IF Exists(dest) /\ kind[w] # "benchmark" THEN "removing" ELSE "renaming")
  /\ UNCHANGED <<options, failing, dest, stage, raced, shown>>

\* All files are closed: if (exists(final)) remove_all(final).
BeginPublish(w) ==
  /\ pc[w] = "writing"
  /\ stage.files = FilesOf(kind[w])
  /\ Goto(w, IF Exists(dest) /\ kind[w] # "benchmark" THEN "removing" ELSE "renaming")
  /\ UNCHANGED <<options, failing, dest, stage, raced, shown>>

\* remove_all deletes the entries of a directory one by one, in no set order,
RemoveEntry(w) ==
  /\ pc[w] = "removing"
  /\ dest.form = "dir"
  /\ \E f \in dest.files : dest' = [dest EXCEPT !.files = @ \ {f}]
  /\ UNCHANGED <<options, pc, failing, stage, raced, shown>>

\* and the directory itself at the end; a regular file is unlinked at once.
RemoveRoot(w) ==
  /\ pc[w] = "removing"
  /\ dest.form = "file" \/ dest.files = {}
  /\ dest' = Absent
  /\ Goto(w, "renaming")
  /\ UNCHANGED <<options, failing, stage, raced, shown>>

\* rename(2): a directory replaces nothing or an empty directory, a file
\* replaces nothing or a file.
RenameAllowed(w) ==
  \/ dest.form = "absent"
  \/ kind[w] # "benchmark" /\ dest.form = "dir" /\ dest.files = {}
  \/ kind[w] = "benchmark" /\ dest.form = "file"

\* The stage becomes the destination and the guard is disarmed; the benchmark
\* renames the file out of its stage, whose guard always runs.
Rename(w) ==
  /\ pc[w] = "renaming"
  /\ RenameAllowed(w)
  /\ dest' = Entry(FormOf(kind[w]), stage.run, stage.files)
  /\ IF kind[w] = "benchmark"
     THEN stage' = [stage EXCEPT !.files = {}] /\ Goto(w, "cleaning")
     ELSE stage' = Absent /\ Goto(w, "published")
  /\ raced' = raced \union { v \in Writers : pc[v] = "checked" }
  /\ shown' = shown \union {w}
  /\ UNCHANGED <<options, failing>>

\* An exception: before the claim there is nothing to undo, after it the guard
\* runs.  A disk error can strike anywhere before the rename.
Fail(w) ==
  \/ /\ pc[w] \in {"start", "checked"}
     /\ Goto(w, "failed")
     /\ UNCHANGED <<options, failing, dest, stage, raced, shown>>
  \/ /\ pc[w] \in {"claimed", "writing", "removing", "renaming"}
     /\ Goto(w, "cleaning")
     /\ failing' = failing \union {w}
     /\ UNCHANGED <<options, dest, stage, raced, shown>>

\* The guard's destructor: remove_all(stage) with an error code it ignores, so
\* that some of the stage may stay.
Cleanup(w) ==
  /\ pc[w] = "cleaning"
  /\ \/ stage' = Absent
     \/ \E left \in SUBSET stage.files : stage' = [stage EXCEPT !.files = left]
  /\ Goto(w, IF w \in failing THEN "failed" ELSE "published")
  /\ failing' = failing \ {w}
  /\ UNCHANGED <<options, dest, raced, shown>>

\* The process is killed: no guard runs.
Crash(w) ==
  /\ pc[w] \notin Ended
  /\ Goto(w, "crashed")
  /\ failing' = failing \ {w}
  /\ UNCHANGED <<options, dest, stage, raced, shown>>

\* Nothing in the programs removes a stage they did not claim: the user does,
\* once its owner is gone.
Orphaned == Exists(stage) /\ (stage.run \in Writers => pc[stage.run] \in Ended)

DiscardStage ==
  /\ Orphaned
  /\ stage' = Absent
  /\ UNCHANGED <<options, pc, failing, dest, raced, shown>>

Progress(w) ==
  \/ Precheck(w) \/ Claim(w) \/ LateCheck(w) \/ WriteFile(w) \/ BeginPublish(w)
  \/ RemoveEntry(w) \/ RemoveRoot(w) \/ Rename(w) \/ Cleanup(w)

Next ==
  \/ \E w \in Writers : Progress(w) \/ Fail(w) \/ Crash(w)
  \/ DiscardStage

\* A running process is scheduled; nothing forces failures, crashes or the user.
Fairness == \A w \in Writers : WF_vars(Progress(w))

Spec == Init /\ [][Next]_vars
FairSpec == Spec /\ Fairness

-----------------------------------------------------------------------------
(* Properties                                                              *)

TypeOK ==
  /\ kind \in [Owners -> Programs \union {"other"}]
  /\ \A w \in Writers : kind[w] \in Programs
  /\ overwrite \in [Writers -> BOOLEAN]
  /\ pc \in [Writers -> PCs]
  /\ failing \subseteq Writers
  /\ dest \in Entries
  /\ stage \in Entries
  /\ raced \subseteq Writers
  /\ shown \subseteq Owners

\* A writer that believes it owns the stage does: the stage is there, it is its
\* own, and so no two writers are between claim and publication at once
\* (create_directory before the guard takes ownership).
StageOwned ==
  \A w \in Writers : pc[w] \in Holding => Exists(stage) /\ stage.run = w

\* A reader finds either the files of a run that a writer finished before its
\* rename, or what a removal left of such a run: new files never appear at the
\* destination one by one.
WholeRunsAppear ==
  [][dest'.files \subseteq dest.files \/ (dest'.run \in Writers /\ Whole(dest)')]_dest

\* A writer removes only what its check accepted: without --overwrite nothing
\* that had files, and, for the programs that look for their schema, nothing
\* that is not theirs; the exception is content published in the window between
\* that check and the claim of the stage.
OnlyRacedContentRemovedUnasked ==
  \A w \in Writers :
    pc[w] = "removing" /\ dest.files # {} /\ w \notin raced =>
      /\ overwrite[w]
      /\ kind[w] \in {"recovery", "campaign", "fixture"} => kind[dest.run] = kind[w]

\* A stage left by a killed or failed writer, or by anyone else, is touched by
\* no writer: only the user removes it.
ForeignStagePreserved ==
  [][Orphaned => stage' = stage \/ DiscardStage]_vars

\* Without --overwrite anywhere, the files found at start are still there.
\* This is the part of "existing runs are refused" that survives the race.
PriorFilesSurvive ==
  [][(\A w \in Writers : ~overwrite[w]) /\ dest.run = Prior /\ dest.files # {}
       => dest' = dest]_dest

\* The benchmark checks while it owns the stage, so that it never replaces a
\* report without --overwrite, whoever else runs.
LateCheckIsNeverStale ==
  \A w \in Writers :
    pc[w] \in {"writing", "renaming"} /\ kind[w] = "benchmark" /\ ~overwrite[w] =>
      ~Exists(dest)

\* The destination as RunStore sees it.
VisibleRun == IF Whole(dest) THEN dest.run ELSE Nobody
Store == INSTANCE RunStore
           WITH Runs <- Writers, Nothing <- Nobody, visible <- VisibleRun
ImplementsRunStore == Store!StoreSpec

\* Every process ends: a taken stage or destination is a refusal, never a wait.
EveryWriterEnds == \A w \in Writers : <>(pc[w] \in Ended)

\* What spec.md section 9 and README promise of every run writer: an existing
\* run is lost only to a writer started with --overwrite.
ExistingRunsRefusedWithoutOverwrite ==
  \A w \in Writers : pc[w] = "removing" /\ Whole(dest) => overwrite[w]

=============================================================================
