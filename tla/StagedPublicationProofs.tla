---------------------- MODULE StagedPublicationProofs ----------------------
(***************************************************************************)
(* Proofs about StagedPublication for any number of writers and files.     *)
(* The inductive invariant IInv adds to the properties what each program   *)
(* point knows: which programs reach it, that the stage is complete before *)
(* the removal starts, and what the check of the destination still says.   *)
(***************************************************************************)
EXTENDS StagedPublication, TLAPS

\* Only the benchmark claims before it checks, and it never removes.
Paths ==
  \A w \in Writers :
    /\ pc[w] = "claimed" => kind[w] = "benchmark"
    /\ pc[w] \in {"checked", "removing"} => kind[w] # "benchmark"

\* Publication starts with every file of the run closed.
StageComplete ==
  \A w \in Writers :
    pc[w] \in {"removing", "renaming"} => stage.files = FilesOf(kind[w])

\* What a check accepted still describes the destination, unless another run
\* was published in the window.
Accepts(w) ==
  dest.files # {} =>
    /\ overwrite[w]
    /\ kind[w] \in {"recovery", "campaign", "fixture"} => kind[dest.run] = kind[w]

CheckStands ==
  \A w \in Writers :
    /\ kind[w] # "benchmark"
    /\ pc[w] \in {"checked", "writing", "removing"}
    /\ w \notin raced
    => Accepts(w)

\* Once a run was published in somebody's window, the files found at start are
\* gone for good.
RacedAfterPrior == raced # {} => dest.run # Prior

\* What is absent has no files.
AbsentIsEmpty == ~Exists(dest) => dest.files = {}

IInv ==
  /\ TypeOK
  /\ Paths
  /\ StageOwned
  /\ StageComplete
  /\ CheckStands
  /\ RacedAfterPrior
  /\ AbsentIsEmpty
  /\ LateCheckIsNeverStale

-----------------------------------------------------------------------------

\* Every program writes at least one file, and no file past the last.
LEMMA FilesOfSubset ==
  ASSUME NEW k
  PROVE  FilesOf(k) \in SUBSET (1..LastFile) /\ FilesOf(k) # {}
  BY LastFileAssumption DEF FilesOf

\* A writer is a process of one of the programs.
LEMMA ProgramsAreOwned ==
  ASSUME TypeOK, NEW w \in Writers
  PROVE  kind[w] \in Programs /\ w \in Owners /\ w # Nobody /\ w # Prior
  BY WritersAssumption DEF TypeOK, Owners

\* The types hold at start.
LEMMA TypeInit == Init => TypeOK
<1> USE DEF PCs, Ended, Holding, Owners
<1>1. Init => TypeOK
  <2> SUFFICES ASSUME Init PROVE TypeOK
    OBVIOUS
  <2>1. Absent \in Entries
    BY DEF Absent, Entries
  <2>2. \A f \in {"file", "dir"}, fs \in SUBSET (1..LastFile) : Entry(f, Prior, fs) \in Entries
    BY DEF Entry, Entries
  <2>3. dest \in Entries
    <3>1. {} \in SUBSET (1..LastFile) /\ FilesOf(kind[Prior]) \in SUBSET (1..LastFile)
      BY FilesOfSubset
    <3>2. CASE dest = Absent
      BY <3>2, <2>1
    <3>3. CASE dest # Absent
      BY <3>1, <3>3, <2>2 DEF Init
    <3> QED BY <3>2, <3>3
  <2>4. stage \in Entries
    BY <2>1, <2>2, LastFileAssumption DEF Init
  <2>5. shown \subseteq Owners
    <3>1. Absent.form = "absent"
      BY DEF Absent
    <3>2. dest # Absent => dest.run = Prior
      BY DEF Init, Entry
    <3> QED BY <3>1, <3>2 DEF Init, Whole, Exists
  <2> QED BY <2>3, <2>4, <2>5 DEF Init, TypeOK
<1> QED BY <1>1

\* Every step of every program keeps them.
LEMMA TypeStep == ASSUME TypeOK, [Next]_vars PROVE TypeOK'
<1> USE DEF PCs, Ended, Holding, Owners
<1> USE DEF TypeOK, Goto, options
<1>0. Absent \in Entries
  BY DEF Absent, Entries
<1>1. ASSUME NEW w \in Writers, Precheck(w) PROVE TypeOK'
  BY <1>1 DEF Precheck
<1>2. ASSUME NEW w \in Writers, Claim(w) PROVE TypeOK'
  <2>1. Entry("dir", w, {}) \in Entries
    BY DEF Entry, Entries
  <2>2. stage' \in Entries
    BY <1>2, <2>1 DEF Claim
  <2>3. pc' \in [Writers -> PCs]
    BY <1>2 DEF Claim
  <2> QED BY <1>2, <2>2, <2>3 DEF Claim
<1>3. ASSUME NEW w \in Writers, LateCheck(w) PROVE TypeOK'
  BY <1>3 DEF LateCheck
<1>4. ASSUME NEW w \in Writers, WriteFile(w) PROVE TypeOK'
  <2>1. PICK f \in FilesOf(kind[w]) : stage' = [stage EXCEPT !.files = @ \union {f}]
    BY <1>4 DEF WriteFile
  <2>2. f \in 1..LastFile
    BY FilesOfSubset
  <2>3. stage' \in Entries
    BY <2>1, <2>2 DEF Entries
  <2> QED BY <1>4, <2>3 DEF WriteFile
<1>5. ASSUME NEW w \in Writers, BeginPublish(w) PROVE TypeOK'
  BY <1>5 DEF BeginPublish
<1>6. ASSUME NEW w \in Writers, RemoveEntry(w) PROVE TypeOK'
  <2>1. dest' \in Entries
    BY <1>6 DEF RemoveEntry, Entries
  <2> QED BY <1>6, <2>1 DEF RemoveEntry
<1>7. ASSUME NEW w \in Writers, RemoveRoot(w) PROVE TypeOK'
  BY <1>7, <1>0 DEF RemoveRoot
<1>8. ASSUME NEW w \in Writers, Rename(w) PROVE TypeOK'
  <2>1. dest' \in Entries
    BY <1>8 DEF Rename, Entry, Entries, FormOf
  <2>2. stage' \in Entries
    <3>1. [stage EXCEPT !.files = {}] \in Entries
      BY DEF Entries
    <3> QED BY <1>8, <1>0, <3>1 DEF Rename
  <2>3. pc' \in [Writers -> PCs]
    BY <1>8 DEF Rename
  <2> QED BY <1>8, <2>1, <2>2, <2>3 DEF Rename
<1>9. ASSUME NEW w \in Writers, Fail(w) PROVE TypeOK'
  BY <1>9 DEF Fail
<1>10. ASSUME NEW w \in Writers, Cleanup(w) PROVE TypeOK'
  <2>1. stage' \in Entries
    <3>1. \A left \in SUBSET stage.files : [stage EXCEPT !.files = left] \in Entries
      BY DEF Entries
    <3> QED BY <1>10, <1>0, <3>1 DEF Cleanup
  <2> QED BY <1>10, <2>1 DEF Cleanup
<1>11. ASSUME NEW w \in Writers, Crash(w) PROVE TypeOK'
  BY <1>11 DEF Crash
<1>12. CASE DiscardStage
  BY <1>12, <1>0 DEF DiscardStage
<1>13. CASE UNCHANGED vars
  BY <1>13 DEF vars
<1> QED
  BY <1>1, <1>2, <1>3, <1>4, <1>5, <1>6, <1>7, <1>8, <1>9, <1>10, <1>11, <1>12, <1>13
     DEF Next, Progress

\* The types of all variables are kept by every step of every program.
THEOREM TypeCorrect == Spec => []TypeOK
  BY TypeInit, TypeStep, PTL DEF Spec

-----------------------------------------------------------------------------
(* The inductive step of the rest of IInv                                  *)

\* create_directory gives the stage to one process at a time, so that the
\* holders of the stage are one.
LEMMA OneHolder ==
  ASSUME TypeOK, StageOwned, NEW v \in Writers, NEW w \in Writers,
         pc[v] \in Holding, pc[w] \in Holding
  PROVE  v = w
  BY DEF StageOwned

\* A step is one writer's step, the user's, or none.
LEMMA StepCases ==
  ASSUME [Next]_vars
  PROVE  \/ \E w \in Writers :
              \/ Precheck(w) \/ Claim(w) \/ LateCheck(w) \/ WriteFile(w) \/ BeginPublish(w)
              \/ RemoveEntry(w) \/ RemoveRoot(w) \/ Rename(w) \/ Fail(w) \/ Cleanup(w)
              \/ Crash(w)
         \/ DiscardStage
         \/ UNCHANGED vars
  BY DEF Next, Progress

\* The invariant holds at start: nobody has passed a check or claimed anything.
LEMMA IInvInit == Init => IInv
<1> SUFFICES ASSUME Init PROVE IInv
  OBVIOUS
<1>1. TypeOK
  BY TypeInit
<1>2. \A w \in Writers : pc[w] = "start" /\ w \notin raced
  BY DEF Init
<1>3. dest = Absent \/ dest.form \in {"file", "dir"}
  BY DEF Init, Entry
<1>4. AbsentIsEmpty
  BY <1>3 DEF AbsentIsEmpty, Absent, Exists
<1>5. raced = {}
  BY DEF Init
<1> QED
  BY <1>1, <1>2, <1>4, <1>5
     DEF IInv, Paths, StageOwned, StageComplete, CheckStands, RacedAfterPrior,
         LateCheckIsNeverStale, Holding

\* Each program point is reached by the programs Paths names only.
LEMMA PathsStep == ASSUME TypeOK, Paths, [Next]_vars PROVE Paths'
<1> USE DEF Paths, TypeOK, Goto, options, Ended
<1>1. ASSUME NEW w \in Writers,
             Precheck(w) \/ Claim(w) \/ LateCheck(w) \/ WriteFile(w) \/ BeginPublish(w)
      PROVE  Paths'
  BY <1>1 DEF Precheck, Claim, LateCheck, WriteFile, BeginPublish
<1>2. ASSUME NEW w \in Writers,
             RemoveEntry(w) \/ RemoveRoot(w) \/ Rename(w)
      PROVE  Paths'
  BY <1>2 DEF RemoveEntry, RemoveRoot, Rename
<1>3. ASSUME NEW w \in Writers, Fail(w) \/ Cleanup(w) \/ Crash(w) PROVE Paths'
  BY <1>3 DEF Fail, Cleanup, Crash
<1>4. CASE DiscardStage \/ UNCHANGED vars
  BY <1>4 DEF DiscardStage, vars
<1> QED BY <1>1, <1>2, <1>3, <1>4, StepCases

\* Ownership of the stage passes only through a successful create_directory.
LEMMA StageOwnedStep == ASSUME TypeOK, Paths, StageOwned, [Next]_vars PROVE StageOwned'
<1> USE DEF TypeOK, Goto, options, Ended, Holding
<1>1. ASSUME NEW w \in Writers, Precheck(w) \/ LateCheck(w) \/ BeginPublish(w)
      PROVE  StageOwned'
  BY <1>1 DEF Precheck, LateCheck, BeginPublish, StageOwned
<1>2. ASSUME NEW w \in Writers, Claim(w) PROVE StageOwned'
  <2>1. CASE Exists(stage)
    BY <1>2, <2>1 DEF Claim, StageOwned
  <2>2. CASE ~Exists(stage)
    <3>1. \A v \in Writers : pc[v] \notin Holding
      BY <2>2 DEF StageOwned
    <3>2. stage' = Entry("dir", w, {})
      BY <1>2, <2>2 DEF Claim
    <3>3. Exists(stage)' /\ stage'.run = w
      BY <3>2 DEF Entry, Exists
    <3> QED BY <1>2, <3>1, <3>3 DEF Claim, StageOwned
  <2> QED BY <2>1, <2>2
<1>3. ASSUME NEW w \in Writers, WriteFile(w) PROVE StageOwned'
  <2>1. stage'.form = stage.form /\ stage'.run = stage.run
    BY <1>3 DEF WriteFile, Entries
  <2> QED BY <1>3, <2>1 DEF WriteFile, StageOwned, Exists
<1>4. ASSUME NEW w \in Writers, RemoveEntry(w) \/ RemoveRoot(w) PROVE StageOwned'
  BY <1>4 DEF RemoveEntry, RemoveRoot, StageOwned
<1>5. ASSUME NEW w \in Writers, Rename(w) PROVE StageOwned'
  <2>1. \A v \in Writers \ {w} : pc[v] \notin Holding
    BY <1>5, OneHolder DEF Rename
  <2>2. kind[w] = "benchmark" => stage'.form = stage.form /\ stage'.run = stage.run
    BY <1>5 DEF Rename, Entries
  <2>3. Exists(stage) /\ stage.run = w
    BY <1>5 DEF Rename, StageOwned
  <2> QED BY <1>5, <2>1, <2>2, <2>3 DEF Rename, StageOwned, Exists
<1>6. ASSUME NEW w \in Writers, Fail(w) \/ Crash(w) PROVE StageOwned'
  BY <1>6 DEF Fail, Crash, StageOwned
<1>7. ASSUME NEW w \in Writers, Cleanup(w) PROVE StageOwned'
  <2>1. \A v \in Writers \ {w} : pc[v] \notin Holding
    BY <1>7, OneHolder DEF Cleanup
  <2> QED BY <1>7, <2>1 DEF Cleanup, StageOwned
<1>8. CASE DiscardStage
  <2>1. \A v \in Writers : pc[v] \notin Holding
    BY <1>8 DEF DiscardStage, Orphaned, StageOwned
  <2> QED BY <1>8, <2>1 DEF DiscardStage, StageOwned
<1>9. CASE UNCHANGED vars
  BY <1>9 DEF vars, StageOwned
<1> QED BY <1>1, <1>2, <1>3, <1>4, <1>5, <1>6, <1>7, <1>8, <1>9, StepCases

\* From the start of the removal on, nobody writes to the stage.
LEMMA StageCompleteStep ==
  ASSUME TypeOK, StageOwned, StageComplete, [Next]_vars
  PROVE  StageComplete'
<1> USE DEF TypeOK, Goto, options, Ended
<1>1. ASSUME NEW w \in Writers, Precheck(w) \/ LateCheck(w) \/ BeginPublish(w)
      PROVE  StageComplete'
  BY <1>1 DEF Precheck, LateCheck, BeginPublish, StageComplete
<1>2. ASSUME NEW w \in Writers, Claim(w) PROVE StageComplete'
  <2>1. ~Exists(stage) => \A v \in Writers : pc[v] \notin Holding
    BY DEF StageOwned
  <2> QED BY <1>2, <2>1 DEF Claim, StageComplete, Holding
<1>3. ASSUME NEW w \in Writers, WriteFile(w) \/ Cleanup(w) PROVE StageComplete'
  <2>1. \A v \in Writers \ {w} : pc[v] \notin Holding
    BY <1>3, OneHolder DEF WriteFile, Cleanup, Holding
  <2> QED BY <1>3, <2>1 DEF WriteFile, Cleanup, StageComplete, Holding
<1>4. ASSUME NEW w \in Writers, RemoveEntry(w) \/ RemoveRoot(w) PROVE StageComplete'
  BY <1>4 DEF RemoveEntry, RemoveRoot, StageComplete
<1>5. ASSUME NEW w \in Writers, Rename(w) PROVE StageComplete'
  <2>1. \A v \in Writers \ {w} : pc[v] \notin Holding
    BY <1>5, OneHolder DEF Rename, Holding
  <2> QED BY <1>5, <2>1 DEF Rename, StageComplete, Holding
<1>6. ASSUME NEW w \in Writers, Fail(w) \/ Crash(w) PROVE StageComplete'
  BY <1>6 DEF Fail, Crash, StageComplete
<1>7. CASE DiscardStage
  <2>1. \A v \in Writers : pc[v] \notin Holding
    BY <1>7 DEF DiscardStage, Orphaned, StageOwned, Holding
  <2> QED BY <1>7, <2>1 DEF DiscardStage, StageComplete, Holding
<1>8. CASE UNCHANGED vars
  BY <1>8 DEF vars, StageComplete
<1> QED BY <1>1, <1>2, <1>3, <1>4, <1>5, <1>6, <1>7, <1>8, StepCases

\* What a check that does not refuse has established, program by program.
LEMMA AcceptedDestination ==
  ASSUME TypeOK, AbsentIsEmpty, NEW w \in Writers, kind[w] # "benchmark",
         ~Refuses(kind[w], overwrite[w], dest)
  PROVE  Accepts(w)
<1> SUFFICES ASSUME dest.files # {} PROVE Accepts(w)
  BY DEF Accepts
<1>1. dest.form \in {"file", "dir"}
  BY DEF TypeOK, Entries, AbsentIsEmpty, Exists
<1>2. kind[w] \in {"projection", "sensitivity", "recovery", "campaign", "fixture", "kitti"}
  BY ProgramsAssumption DEF TypeOK
<1>3. CASE kind[w] \in {"projection", "sensitivity"}
  BY <1>1, <1>3 DEF Accepts, Refuses, ProjectionRefuses, SensitivityRefuses
<1>4. CASE kind[w] \in {"recovery", "campaign"}
  BY <1>1, <1>4
     DEF Accepts, Refuses, RecoveryRefuses, CampaignRefuses, CarriesSchema, Exists
<1>5. CASE kind[w] = "fixture"
  BY <1>1, <1>5 DEF Accepts, Refuses, FixtureRefuses, CarriesSchema, Exists
<1>6. CASE kind[w] = "kitti"
  BY <1>1, <1>6 DEF Accepts, Refuses, KittiRefuses, Exists
<1> QED BY <1>2, <1>3, <1>4, <1>5, <1>6

\* The destination changes under a writer's check only by a publication, which
\* puts the writer into raced if it has not claimed, and which nobody can make
\* once it has.
LEMMA CheckStandsStep ==
  ASSUME TypeOK, Paths, StageOwned, CheckStands, AbsentIsEmpty, [Next]_vars
  PROVE  CheckStands'
<1> USE DEF TypeOK, Goto, options, Ended
<1>1. ASSUME NEW w \in Writers, Precheck(w) PROVE CheckStands'
  <2>1. ~Refuses(kind[w], overwrite[w], dest) => Accepts(w)
    BY <1>1, AcceptedDestination DEF Precheck
  <2>2. \A v \in Writers : Accepts(v)' <=> Accepts(v)
    BY <1>1 DEF Precheck, Accepts
  <2>3. pc'[w] = "refused" \/ (pc'[w] = "checked" /\ ~Refuses(kind[w], overwrite[w], dest))
    BY <1>1 DEF Precheck
  <2>4. \A v \in Writers \ {w} : pc'[v] = pc[v]
    BY <1>1 DEF Precheck
  <2>5. raced' = raced /\ kind' = kind
    BY <1>1 DEF Precheck
  <2> QED BY <2>1, <2>2, <2>3, <2>4, <2>5 DEF CheckStands
<1>2. ASSUME NEW w \in Writers,
             Claim(w) \/ LateCheck(w) \/ WriteFile(w) \/ BeginPublish(w)
      PROVE  CheckStands'
  <2>1. \A v \in Writers : Accepts(v)' <=> Accepts(v)
    BY <1>2 DEF Claim, LateCheck, WriteFile, BeginPublish, Accepts
  <2>2. raced' = raced /\ kind' = kind
    BY <1>2 DEF Claim, LateCheck, WriteFile, BeginPublish
  <2>3. \A v \in Writers :
          pc'[v] \in {"checked", "writing", "removing"} /\ kind[v] # "benchmark" =>
            pc[v] \in {"checked", "writing", "removing"}
    BY <1>2 DEF Claim, LateCheck, WriteFile, BeginPublish, Paths
  <2> QED BY <2>1, <2>2, <2>3 DEF CheckStands
<1>3. ASSUME NEW w \in Writers, RemoveEntry(w) \/ RemoveRoot(w) PROVE CheckStands'
  <2>1. \A v \in Writers : Accepts(v) => Accepts(v)'
    <3>1. dest'.files # {} => dest.files # {} /\ dest'.run = dest.run
      BY <1>3 DEF RemoveEntry, RemoveRoot, Entries, Absent
    <3>2. kind' = kind /\ overwrite' = overwrite
      BY <1>3 DEF RemoveEntry, RemoveRoot
    <3> QED BY <3>1, <3>2 DEF Accepts
  <2>2. raced' = raced /\ kind' = kind
    BY <1>3 DEF RemoveEntry, RemoveRoot
  <2>3. \A v \in Writers : pc'[v] \in {"checked", "writing", "removing"} =>
                             pc[v] \in {"checked", "writing", "removing"}
    BY <1>3 DEF RemoveEntry, RemoveRoot
  <2> QED BY <2>1, <2>2, <2>3 DEF CheckStands
<1>4. ASSUME NEW w \in Writers, Rename(w) PROVE CheckStands'
  <2>1. \A v \in Writers \ {w} : pc[v] \notin Holding
    BY <1>4, OneHolder DEF Rename, Holding
  <2>2. pc'[w] \notin {"checked", "writing", "removing"}
    BY <1>4 DEF Rename
  <2>3. \A v \in Writers \ {w} : pc[v] = "checked" => v \in raced'
    BY <1>4 DEF Rename
  <2>4. \A v \in Writers \ {w} : pc'[v] = pc[v]
    BY <1>4 DEF Rename
  <2> QED BY <2>1, <2>2, <2>3, <2>4 DEF CheckStands, Holding
<1>5. ASSUME NEW w \in Writers, Fail(w) \/ Cleanup(w) \/ Crash(w) PROVE CheckStands'
  <2>1. \A v \in Writers : Accepts(v)' <=> Accepts(v)
    BY <1>5 DEF Fail, Cleanup, Crash, Accepts
  <2> QED BY <1>5, <2>1 DEF Fail, Cleanup, Crash, CheckStands
<1>6. CASE DiscardStage \/ UNCHANGED vars
  <2>1. \A v \in Writers : Accepts(v)' <=> Accepts(v)
    BY <1>6 DEF DiscardStage, vars, Accepts
  <2> QED BY <1>6, <2>1 DEF DiscardStage, vars, CheckStands
<1> QED BY <1>1, <1>2, <1>3, <1>4, <1>5, <1>6, StepCases

\* A publication leaves a run of a writer at the destination, and nothing ever
\* brings the old files back.
LEMMA DestinationStep ==
  ASSUME TypeOK, StageOwned, RacedAfterPrior, AbsentIsEmpty, [Next]_vars
  PROVE  RacedAfterPrior' /\ AbsentIsEmpty'
<1> USE DEF TypeOK, Goto, options, Ended
<1>1. ASSUME NEW w \in Writers,
             \/ Precheck(w) \/ Claim(w) \/ LateCheck(w) \/ WriteFile(w) \/ BeginPublish(w)
             \/ Fail(w) \/ Cleanup(w) \/ Crash(w)
      PROVE  RacedAfterPrior' /\ AbsentIsEmpty'
  <2>1. dest' = dest /\ raced' = raced
    BY <1>1
       DEF Precheck, Claim, LateCheck, WriteFile, BeginPublish, Fail, Cleanup, Crash
  <2> QED BY <2>1 DEF RacedAfterPrior, AbsentIsEmpty, Exists
<1>2. ASSUME NEW w \in Writers, RemoveEntry(w) PROVE RacedAfterPrior' /\ AbsentIsEmpty'
  BY <1>2 DEF RemoveEntry, RacedAfterPrior, AbsentIsEmpty, Exists, Entries
<1>3. ASSUME NEW w \in Writers, RemoveRoot(w) PROVE RacedAfterPrior' /\ AbsentIsEmpty'
  BY <1>3, WritersAssumption
     DEF RemoveRoot, RacedAfterPrior, AbsentIsEmpty, Exists, Absent
<1>4. ASSUME NEW w \in Writers, Rename(w) PROVE RacedAfterPrior' /\ AbsentIsEmpty'
  <2>1. stage.run = w
    BY <1>4 DEF Rename, StageOwned, Holding
  <2>2. dest'.run = w /\ dest'.form \in {"file", "dir"}
    BY <1>4, <2>1 DEF Rename, Entry, FormOf
  <2> QED BY <2>2, WritersAssumption DEF RacedAfterPrior, AbsentIsEmpty, Exists
<1>5. CASE DiscardStage \/ UNCHANGED vars
  BY <1>5 DEF DiscardStage, vars, RacedAfterPrior, AbsentIsEmpty, Exists
<1> QED BY <1>1, <1>2, <1>3, <1>4, <1>5, StepCases

\* The benchmark owns the stage when it checks, so nobody else can publish
\* before it does.
LEMMA LateCheckStep ==
  ASSUME TypeOK, Paths, StageOwned, LateCheckIsNeverStale, [Next]_vars
  PROVE  LateCheckIsNeverStale'
<1> USE DEF TypeOK, Goto, options, Ended
<1>1. ASSUME NEW w \in Writers,
             \/ Precheck(w) \/ Claim(w) \/ WriteFile(w) \/ BeginPublish(w)
             \/ Fail(w) \/ Cleanup(w) \/ Crash(w)
      PROVE  LateCheckIsNeverStale'
  <2>1. dest' = dest /\ kind' = kind /\ overwrite' = overwrite
    BY <1>1 DEF Precheck, Claim, WriteFile, BeginPublish, Fail, Cleanup, Crash
  <2>2. \A v \in Writers : pc'[v] \in {"writing", "renaming"} /\ kind[v] = "benchmark" =>
                             pc[v] \in {"writing", "renaming"}
    BY <1>1 DEF Precheck, Claim, WriteFile, BeginPublish, Fail, Cleanup, Crash
  <2> QED BY <2>1, <2>2 DEF LateCheckIsNeverStale, Exists
<1>2. ASSUME NEW w \in Writers, LateCheck(w) PROVE LateCheckIsNeverStale'
  <2>1. kind[w] = "benchmark" /\ ~overwrite[w] /\ pc'[w] = "writing" => ~Exists(dest)
    BY <1>2 DEF LateCheck, Refuses, BenchmarkRefuses
  <2> QED BY <1>2, <2>1 DEF LateCheck, LateCheckIsNeverStale, Exists
<1>3. ASSUME NEW w \in Writers, RemoveEntry(w) \/ RemoveRoot(w) \/ Rename(w)
      PROVE  LateCheckIsNeverStale'
  <2>1. \A v \in Writers \ {w} : pc[v] \notin Holding
    BY <1>3, OneHolder DEF RemoveEntry, RemoveRoot, Rename, Holding
  <2>2. \A v \in Writers \ {w} : pc'[v] = pc[v]
    BY <1>3 DEF RemoveEntry, RemoveRoot, Rename
  <2>3. kind[w] # "benchmark" \/ pc'[w] \notin {"writing", "renaming"}
    BY <1>3 DEF RemoveEntry, RemoveRoot, Rename, Paths
  <2>4. kind' = kind
    BY <1>3 DEF RemoveEntry, RemoveRoot, Rename
  <2> QED BY <2>1, <2>2, <2>3, <2>4 DEF LateCheckIsNeverStale, Holding
<1>4. CASE DiscardStage \/ UNCHANGED vars
  BY <1>4 DEF DiscardStage, vars, LateCheckIsNeverStale, Exists
<1> QED BY <1>1, <1>2, <1>3, <1>4, StepCases

\* Every step keeps the invariant, conjunct by conjunct.
LEMMA IInvStep == ASSUME IInv, [Next]_vars PROVE IInv'
  BY TypeStep, PathsStep, StageOwnedStep, StageCompleteStep, CheckStandsStep,
     DestinationStep, LateCheckStep
     DEF IInv

\* The invariant always holds.
LEMMA IInvAlways == Spec => []IInv
  BY IInvInit, IInvStep, PTL DEF Spec

-----------------------------------------------------------------------------
(* The results                                                             *)

\* At most one writer is between its claim and the end of its publication, and
\* the stage it fills, renames or cleans up is its own.
THEOREM OwnershipOfStage == Spec => []StageOwned
<1>1. IInv => StageOwned
  BY DEF IInv
<1> QED BY <1>1, IInvAlways, PTL

\* Whatever a writer removes at the destination its own check accepted, unless
\* it arrived between that check and the claim.
THEOREM RemovalWasAsked == Spec => []OnlyRacedContentRemovedUnasked
<1>1. IInv => OnlyRacedContentRemovedUnasked
  BY DEF IInv, CheckStands, Paths, Accepts, OnlyRacedContentRemovedUnasked
<1> QED BY <1>1, IInvAlways, PTL

\* Checking after the claim is enough: the benchmark replaces nothing unasked.
THEOREM LateCheckIsEnough == Spec => []LateCheckIsNeverStale
<1>1. IInv => LateCheckIsNeverStale
  BY DEF IInv
<1> QED BY <1>1, IInvAlways, PTL

\* New files reach the destination only by the rename of a complete stage.
THEOREM RunsAppearWhole == Spec => WholeRunsAppear
<1> DEFINE Appears == dest'.files \subseteq dest.files \/ (dest'.run \in Writers /\ Whole(dest)')
<1>1. IInv /\ [Next]_vars => [Appears]_dest
  <2> SUFFICES ASSUME IInv, [Next]_vars PROVE [Appears]_dest
    OBVIOUS
  <2> USE DEF IInv, TypeOK, Goto, options
  <2>1. ASSUME NEW w \in Writers,
               \/ Precheck(w) \/ Claim(w) \/ LateCheck(w) \/ WriteFile(w) \/ BeginPublish(w)
               \/ Fail(w) \/ Cleanup(w) \/ Crash(w)
        PROVE  dest' = dest
    BY <2>1
       DEF Precheck, Claim, LateCheck, WriteFile, BeginPublish, Fail, Cleanup, Crash
  <2>2. ASSUME NEW w \in Writers, RemoveEntry(w) \/ RemoveRoot(w) PROVE Appears
    BY <2>2 DEF RemoveEntry, RemoveRoot, Entries, Absent
  <2>3. ASSUME NEW w \in Writers, Rename(w) PROVE Appears
    <3>1. stage.run = w /\ stage.files = FilesOf(kind[w])
      BY <2>3 DEF Rename, StageOwned, StageComplete, Holding
    <3>2. dest' = Entry(FormOf(kind[w]), w, FilesOf(kind[w])) /\ kind' = kind
      BY <2>3, <3>1 DEF Rename
    <3>3. FormOf(kind[w]) # "absent"
      BY DEF FormOf
    <3> QED BY <3>2, <3>3 DEF Whole, Exists, Entry
  <2>4. CASE DiscardStage \/ UNCHANGED vars
    BY <2>4 DEF DiscardStage, vars
  <2> QED BY <2>1, <2>2, <2>3, <2>4, StepCases
<1> QED BY <1>1, IInvAlways, PTL DEF Spec, WholeRunsAppear

\* Nobody but the user touches a stage whose owner is gone.
THEOREM OrphansStay == Spec => ForeignStagePreserved
<1> DEFINE Stays == Orphaned => stage' = stage \/ DiscardStage
<1>1. IInv /\ [Next]_vars => [Stays]_vars
  <2> SUFFICES ASSUME IInv, [Next]_vars PROVE [Stays]_vars
    OBVIOUS
  <2> USE DEF IInv, TypeOK, Goto, options
  <2> SUFFICES ASSUME Orphaned PROVE [Stays]_vars
    OBVIOUS
  <2>1. \A w \in Writers : pc[w] \notin Holding
    BY DEF StageOwned, Orphaned, Holding, Ended
  <2>2. ASSUME NEW w \in Writers,
               \/ Precheck(w) \/ Claim(w) \/ LateCheck(w) \/ WriteFile(w) \/ BeginPublish(w)
               \/ RemoveEntry(w) \/ RemoveRoot(w) \/ Rename(w) \/ Fail(w) \/ Cleanup(w)
               \/ Crash(w)
        PROVE  stage' = stage
    BY <2>1, <2>2
       DEF Precheck, Claim, LateCheck, WriteFile, BeginPublish, RemoveEntry, RemoveRoot,
           Rename, Fail, Cleanup, Crash, Orphaned, Holding
  <2> QED BY <2>2, StepCases
<1> QED BY <1>1, IInvAlways, PTL DEF Spec, ForeignStagePreserved

\* Without --overwrite anywhere no writer accepts a destination with files in
\* it, and those found at start therefore stay.
THEOREM PriorSurvives == Spec => PriorFilesSurvive
<1> DEFINE Untouched == (\A w \in Writers : ~overwrite[w]) /\ dest.run = Prior /\ dest.files # {}
                          => dest' = dest
<1>1. IInv /\ [Next]_vars => [Untouched]_dest
  <2> SUFFICES ASSUME IInv, [Next]_vars PROVE [Untouched]_dest
    OBVIOUS
  <2> USE DEF IInv, TypeOK, Goto, options
  <2> SUFFICES ASSUME \A w \in Writers : ~overwrite[w], dest.run = Prior, dest.files # {}
               PROVE  dest' = dest
    OBVIOUS
  <2>1. raced = {}
    BY DEF RacedAfterPrior
  <2>2. Exists(dest)
    BY DEF AbsentIsEmpty
  <2>3. \A w \in Writers : pc[w] # "removing"
    BY <2>1 DEF CheckStands, Accepts, Paths
  <2>4. ASSUME NEW w \in Writers PROVE ~Rename(w)
    <3>1. kind[w] = "benchmark" => pc[w] # "renaming"
      BY <2>2 DEF LateCheckIsNeverStale
    <3>2. kind[w] # "benchmark" => ~RenameAllowed(w)
      BY <2>2 DEF RenameAllowed, Exists
    <3> QED BY <3>1, <3>2 DEF Rename
  <2>5. ASSUME NEW w \in Writers,
               \/ Precheck(w) \/ Claim(w) \/ LateCheck(w) \/ WriteFile(w) \/ BeginPublish(w)
               \/ Fail(w) \/ Cleanup(w) \/ Crash(w)
        PROVE  dest' = dest
    BY <2>5
       DEF Precheck, Claim, LateCheck, WriteFile, BeginPublish, Fail, Cleanup, Crash
  <2>6. CASE DiscardStage \/ UNCHANGED vars
    BY <2>6 DEF DiscardStage, vars
  <2>7. ASSUME NEW w \in Writers PROVE ~RemoveEntry(w) /\ ~RemoveRoot(w)
    BY <2>3 DEF RemoveEntry, RemoveRoot
  <2> QED BY <2>4, <2>5, <2>6, <2>7, StepCases
<1> QED BY <1>1, IInvAlways, PTL DEF Spec, PriorFilesSurvive

-----------------------------------------------------------------------------
(* The refinement of RunStore                                              *)

\* What the refinement mapping needs besides IInv: a run is shown once, by a
\* writer that is done writing, and what lies at the destination is part of it.
StoreInv ==
  /\ \A w \in Writers \cap shown : pc[w] \in {"cleaning"} \union Ended
  /\ Exists(dest) => dest.run \in Owners /\ dest.files \subseteq FilesOf(kind[dest.run])

\* At start the destination holds a run from before or none.
LEMMA StoreInvInit == Init => StoreInv
<1> SUFFICES ASSUME Init PROVE StoreInv
  OBVIOUS
<1>1. dest = Absent \/ (dest.run = Prior /\ dest.files \in {{}, FilesOf(kind[Prior])})
  BY DEF Init, Entry
<1>2. shown \subseteq {Prior}
  BY <1>1 DEF Init, Whole, Exists, Absent
<1> QED BY <1>1, <1>2, WritersAssumption DEF StoreInv, Exists, Absent, Owners

\* A run is shown only by the rename of its own writer.
LEMMA StoreInvStep == ASSUME IInv, StoreInv, [Next]_vars PROVE StoreInv'
<1> USE DEF IInv, TypeOK, Goto, options, Ended
<1>1. ASSUME NEW w \in Writers,
             \/ Precheck(w) \/ Claim(w) \/ LateCheck(w) \/ WriteFile(w) \/ BeginPublish(w)
             \/ Fail(w) \/ Cleanup(w) \/ Crash(w)
      PROVE  StoreInv'
  <2>1. dest' = dest /\ shown' = shown /\ kind' = kind
    BY <1>1
       DEF Precheck, Claim, LateCheck, WriteFile, BeginPublish, Fail, Cleanup, Crash
  <2>2. \A v \in Writers \cap shown : pc'[v] \in {"cleaning"} \union Ended
    BY <1>1
       DEF Precheck, Claim, LateCheck, WriteFile, BeginPublish, Fail, Cleanup, Crash, StoreInv
  <2> QED BY <2>1, <2>2 DEF StoreInv, Exists
<1>2. ASSUME NEW w \in Writers, RemoveEntry(w) PROVE StoreInv'
  BY <1>2 DEF RemoveEntry, StoreInv, Exists, Entries
<1>3. ASSUME NEW w \in Writers, RemoveRoot(w) PROVE StoreInv'
  BY <1>3 DEF RemoveRoot, StoreInv, Exists, Absent
<1>4. ASSUME NEW w \in Writers, Rename(w) PROVE StoreInv'
  <2>1. stage.run = w /\ stage.files = FilesOf(kind[w])
    BY <1>4 DEF Rename, StageOwned, StageComplete, Holding
  <2>2. dest'.run = w /\ dest'.files = FilesOf(kind[w]) /\ kind' = kind
    BY <1>4, <2>1 DEF Rename, Entry
  <2>3. pc'[w] \in {"cleaning", "published"} /\ \A v \in Writers \ {w} : pc'[v] = pc[v]
    BY <1>4 DEF Rename
  <2>4. shown' = shown \union {w}
    BY <1>4 DEF Rename
  <2> QED BY <2>2, <2>3, <2>4 DEF StoreInv, Owners
<1>5. CASE DiscardStage \/ UNCHANGED vars
  BY <1>5 DEF DiscardStage, vars, StoreInv, Exists
<1> QED BY <1>1, <1>2, <1>3, <1>4, <1>5, StepCases

\* The initial states map to those of RunStore.
LEMMA MapsInit == Init => Store!StoreInit
<1> SUFFICES ASSUME Init PROVE Store!StoreInit
  OBVIOUS
<1>1. dest # Absent => dest.run = Prior
  BY DEF Init, Entry
<1>2. ~Whole(Absent)
  BY DEF Whole, Exists, Absent
<1>3. VisibleRun \in {Nobody, Prior}
  BY <1>1, <1>2 DEF VisibleRun
<1>4. shown = {VisibleRun} \ {Nobody}
  BY <1>1, <1>2, WritersAssumption DEF Init, VisibleRun
<1> QED BY <1>3, <1>4 DEF Store!StoreInit

\* Every step maps to a withdrawal, a publication, an exchange or a stutter.
LEMMA MapsStep ==
  ASSUME IInv, StoreInv, [Next]_vars
  PROVE  [Store!StoreNext]_(Store!storeVars)
<1> USE DEF IInv, TypeOK, Goto, options, Ended
<1>1. ASSUME NEW w \in Writers,
             \/ Precheck(w) \/ Claim(w) \/ LateCheck(w) \/ WriteFile(w) \/ BeginPublish(w)
             \/ Fail(w) \/ Cleanup(w) \/ Crash(w)
      PROVE  VisibleRun' = VisibleRun /\ shown' = shown
  <2>1. dest' = dest /\ shown' = shown /\ kind' = kind
    BY <1>1
       DEF Precheck, Claim, LateCheck, WriteFile, BeginPublish, Fail, Cleanup, Crash
  <2> QED BY <2>1 DEF VisibleRun, Whole, Exists
<1>2. ASSUME NEW w \in Writers, RemoveEntry(w)
      PROVE  Store!Withdraw \/ (VisibleRun' = VisibleRun /\ shown' = shown)
  <2>1. PICK f \in dest.files : dest' = [dest EXCEPT !.files = @ \ {f}]
    BY <1>2 DEF RemoveEntry
  <2>2. dest'.run = dest.run /\ dest'.form = dest.form /\ f \notin dest'.files /\ kind' = kind
        /\ shown' = shown
    BY <1>2, <2>1 DEF RemoveEntry, Entries
  <2>3. f \in FilesOf(kind[dest.run])
    BY <2>1 DEF StoreInv, AbsentIsEmpty
  <2>4. ~Whole(dest)'
    BY <2>2, <2>3 DEF Whole
  <2>5. VisibleRun' = Nobody
    BY <2>4 DEF VisibleRun
  <2> QED BY <2>2, <2>5 DEF Store!Withdraw
<1>3. ASSUME NEW w \in Writers, RemoveRoot(w)
      PROVE  Store!Withdraw \/ (VisibleRun' = VisibleRun /\ shown' = shown)
  <2>1. VisibleRun' = Nobody /\ shown' = shown
    BY <1>3 DEF RemoveRoot, VisibleRun, Whole, Exists, Absent
  <2> QED BY <2>1 DEF Store!Withdraw
<1>4. ASSUME NEW w \in Writers, Rename(w) PROVE Store!Publish(w) \/ Store!Exchange(w)
  <2>1. stage.run = w /\ stage.files = FilesOf(kind[w])
    BY <1>4 DEF Rename, StageOwned, StageComplete, Holding
  <2>2. dest' = Entry(FormOf(kind[w]), w, FilesOf(kind[w])) /\ kind' = kind
    BY <1>4, <2>1 DEF Rename
  <2>3. FormOf(kind[w]) # "absent"
    BY DEF FormOf
  <2>4. VisibleRun' = w
    BY <2>2, <2>3 DEF VisibleRun, Whole, Exists, Entry
  <2>5. w \notin shown /\ shown' = shown \union {w}
    BY <1>4 DEF Rename, StoreInv
  <2> QED BY <2>4, <2>5 DEF Store!Publish, Store!Exchange
<1>5. CASE DiscardStage \/ UNCHANGED vars
  <2>1. dest' = dest /\ shown' = shown /\ kind' = kind
    BY <1>5 DEF DiscardStage, vars
  <2>2. VisibleRun' = VisibleRun
    BY <2>1 DEF VisibleRun, Whole, Exists
  <2> QED BY <2>1, <2>2 DEF Store!storeVars
<1> QED
  BY <1>1, <1>2, <1>3, <1>4, <1>5, StepCases DEF Store!StoreNext, Store!storeVars

\* Readers of a destination see what RunStore allows: whole runs, each of them
\* once, with the old one withdrawn first.
THEOREM Refinement == Spec => ImplementsRunStore
<1>1. Spec => []StoreInv
  BY StoreInvInit, StoreInvStep, IInvAlways, PTL DEF Spec
<1> QED
  BY <1>1, MapsInit, MapsStep, IInvAlways, PTL DEF Spec, ImplementsRunStore, Store!StoreSpec

=============================================================================
