-------------------------- MODULE RecoveryRunProofs --------------------------
(***************************************************************************)
(* Proofs about RecoveryRun for any frames, any set of fixtures and any    *)
(* number of replacements.                                                 *)
(***************************************************************************)
EXTENDS RecoveryRun, SequenceTheorems, TLAPS

\* Every file of a list of frames has a place in the order of opening.
LEMMA EveryFileListed ==
  ASSUME NEW S, NEW fs \in Seq(S), NEW k \in 1..Len(fs)
  PROVE  /\ DataFile(fs, 2 * k - 1) = Points(fs[k])
         /\ DataFile(fs, 2 * k) = Observations(fs[k])
         /\ 2 * k - 1 \in 1..(2 * Len(fs)) /\ 2 * k \in 1..(2 * Len(fs))
<1>1. k \in Nat /\ Len(fs) \in Nat /\ 1 <= k /\ k <= Len(fs)
  OBVIOUS
<1>2. (2 * k - 1) % 2 = 1 /\ (2 * k) % 2 = 0
  BY <1>1
<1>3. ((2 * k - 1) + 1) \div 2 = k /\ (2 * k) \div 2 = k
  BY <1>1
<1> QED
  BY <1>1, <1>2, <1>3 DEF DataFile

-----------------------------------------------------------------------------
(* Files                                                                   *)

\* The files opened by a list of frames are its data files; its length bounds
\* their number.
LEMMA DataFilesOf ==
  ASSUME NEW S, NEW fs \in Seq(S)
  PROVE  /\ \A i \in 1..(2 * Len(fs)) : DataFile(fs, i) \in DataOf(Range(fs))
         /\ \A f \in DataOf(Range(fs)) : \E i \in 1..(2 * Len(fs)) : f = DataFile(fs, i)
<1>0. \A k \in 1..Len(fs) : fs[k] \in Range(fs)
  BY DEF Range
<1>1. ASSUME NEW i \in 1..(2 * Len(fs))
      PROVE  DataFile(fs, i) \in DataOf(Range(fs))
  <2>1. CASE i % 2 = 1
    <3>1. (i + 1) \div 2 \in 1..Len(fs)
      BY <2>1
    <3> QED
      BY <1>0, <2>1, <3>1 DEF DataFile, DataOf
  <2>2. CASE i % 2 # 1
    <3>1. i \div 2 \in 1..Len(fs)
      BY <2>2
    <3> QED
      BY <1>0, <2>2, <3>1 DEF DataFile, DataOf
  <2> QED
    BY <2>1, <2>2
<1>2. ASSUME NEW f \in DataOf(Range(fs))
      PROVE  \E i \in 1..(2 * Len(fs)) : f = DataFile(fs, i)
  <2>1. PICK k \in 1..Len(fs) : f = Points(fs[k]) \/ f = Observations(fs[k])
    BY DEF DataOf, Range
  <2> QED
    BY <2>1, EveryFileListed
<1> QED
  BY <1>1, <1>2

\* The manifest, the oracle, the images and the data of the two lists are
\* different files of the fixture.
LEMMA FilesDiffer ==
  /\ Manifest \in Files /\ Oracle \in Files /\ Manifest # Oracle
  /\ DataOf(Range(Training)) \subseteq Files /\ DataOf(Range(Held)) \subseteq Files
  /\ Manifest \notin DataOf(Frames) /\ Oracle \notin DataOf(Frames)
  /\ DataOf(Range(Training)) \intersect DataOf(Range(Held)) = {}
  /\ DataOf(Frames) = DataOf(Range(Training)) \union DataOf(Range(Held))
  /\ \A i \in 1..Len(Training \o Held) :
       LET f == Image((Training \o Held)[i])
       IN f \in Files /\ f # Manifest /\ f # Oracle /\ f \notin DataOf(Frames)
<1>1. /\ Manifest \in Files /\ Oracle \in Files /\ Manifest # Oracle
      /\ Manifest \notin DataOf(Frames) /\ Oracle \notin DataOf(Frames)
  BY DEF Manifest, Oracle, Files, DataOf, Points, Observations
<1>2. DataOf(Frames) = DataOf(Range(Training)) \union DataOf(Range(Held))
  BY DEF DataOf, Frames
<1>3. DataOf(Range(Training)) \intersect DataOf(Range(Held)) = {}
  BY FramesAssumption DEF DataOf, Points, Observations
<1>4. ASSUME NEW i \in 1..Len(Training \o Held)
      PROVE  /\ Image((Training \o Held)[i]) \in Files
             /\ Image((Training \o Held)[i]) # Manifest /\ Image((Training \o Held)[i]) # Oracle
             /\ Image((Training \o Held)[i]) \notin DataOf(Frames)
  <2>1. (Training \o Held)[i] \in Frames
    <3>1. /\ Len(Training \o Held) = Len(Training) + Len(Held)
          /\ (Training \o Held)[i] = IF i <= Len(Training) THEN Training[i]
                                     ELSE Held[i - Len(Training)]
      BY FramesAssumption, ConcatProperties
    <3>2. CASE i <= Len(Training)
      BY <3>1, <3>2, FramesAssumption DEF Frames, Range
    <3>3. CASE ~(i <= Len(Training))
      <4>1. i - Len(Training) \in 1..Len(Held)
        BY <3>1, <3>3, FramesAssumption
      <4> QED
        BY <3>1, <3>3, <4>1, FramesAssumption DEF Frames, Range
    <3> QED
      BY <3>2, <3>3
  <2> QED
    BY <2>1 DEF Files, Image, Manifest, Oracle, DataOf, Points, Observations
<1> QED
  BY <1>1, <1>2, <1>3, <1>4 DEF Files

-----------------------------------------------------------------------------
(* The invariant                                                           *)

Before == {"manifest", "training", "fit"}
HeldFiles == DataOf(Range(Held))

\* What the run has opened at each place.
Opened ==
  /\ pc = "manifest" => \A f \in Files : read[f] = NotYet
  /\ pc \notin {"manifest", "ended"} => read[Manifest] \in Versions
  /\ pc \in Before => /\ search = NotYet
                      /\ \A f \in HeldFiles \union {Oracle} : read[f] = NotYet
  /\ pc \in {"refit", "oracle", "held_out", "images", "publish"} => search \in Results
  /\ pc = "training" => /\ next <= 2 * Len(Training)
                        /\ \A i \in 1..(next - 1) : read[DataFile(Training, i)] # NotYet
  /\ pc \in {"fit", "refit", "oracle", "held_out", "images", "publish"} \/ Published =>
       \A f \in DataOf(Range(Training)) : read[f] # NotYet
  /\ pc \in {"held_out", "images", "publish"} \/ Published => read[Oracle] # NotYet
  /\ pc = "held_out" => /\ next <= 2 * Len(Held)
                        /\ \A i \in 1..(next - 1) : read[DataFile(Held, i)] # NotYet
  /\ pc \in {"images", "publish"} \/ Published => \A f \in HeldFiles : read[f] # NotYet
  /\ pc = "images" => next <= Len(Training \o Held)
  /\ pc # "ended" => passed = NotYet /\ exit = NotYet

\* What was opened says what the manifest said it would.
Matched ==
  \A f \in Numbers : read[f] # NotYet =>
    /\ read[Manifest] # NotYet
    /\ ContentOf(f, read[f]) = ContentOf(f, read[Manifest])

Staged == generator = "removing" => incoming \in Versions

IInv == TypeOK /\ Staged /\ Opened /\ Matched /\ ExitCodeTellsReport

\* Nothing has been opened at start.
LEMMA IInvInit == Init => IInv
<1> SUFFICES ASSUME Init PROVE IInv
  OBVIOUS
<1>1. TypeOK
  BY ReplacementsAssumption DEF Init, TypeOK, Lists
<1>2. Opened
  BY FilesDiffer DEF Init, Opened, Before, HeldFiles, Published
<1>3. Matched
  BY FilesDiffer DEF Init, Matched, Numbers
<1>4. ExitCodeTellsReport
  BY DEF Init, ExitCodeTellsReport
<1>5. Staged
  BY DEF Init, Staged
<1> QED
  BY <1>1, <1>2, <1>3, <1>4, <1>5 DEF IInv

\* Replacing the fixture does not touch the run.
LEMMA ReplaceStep == IInv /\ (BeginReplace \/ RemoveFile \/ Install) => IInv'
<1> SUFFICES ASSUME IInv, BeginReplace \/ RemoveFile \/ Install PROVE IInv'
  OBVIOUS
<1>1. UNCHANGED <<pc, next, read, search, passed, exit>>
  BY DEF BeginReplace, RemoveFile, Install, run
<1>2. TypeOK'
  <2>1. dir' \in [Files -> Versions \union {Missing}]
    <3>1. CASE BeginReplace
      BY <3>1 DEF BeginReplace, IInv, TypeOK
    <3>2. CASE RemoveFile
      BY <3>2 DEF RemoveFile, IInv, TypeOK
    <3>3. CASE Install
      BY <3>3 DEF Install, IInv, Staged
    <3> QED
      BY <3>1, <3>2, <3>3
  <2>2. generator' \in {"idle", "removing"} /\ incoming' \in Versions \union {NotYet}
    BY DEF BeginReplace, RemoveFile, Install, IInv, TypeOK
  <2>3. replaced' \in 0..MaxReplacements
    BY ReplacementsAssumption DEF BeginReplace, RemoveFile, Install, IInv, TypeOK
  <2> QED
    BY <1>1, <2>1, <2>2, <2>3 DEF IInv, TypeOK
<1>3. Staged'
  BY DEF BeginReplace, RemoveFile, Install, IInv, Staged
<1> QED
  BY <1>1, <1>2, <1>3 DEF IInv, Opened, Matched, ExitCodeTellsReport, Published

\* Taking a file that says what the manifest said keeps the types and Matched.
LEMMA TakeData ==
  ASSUME IInv, NEW f \in DataOf(Frames), Same(f), Take(f), read[Manifest] \in Versions
  PROVE  /\ read' \in [Files -> Versions \union {NotYet}]
         /\ read'[f] # NotYet
         /\ \A g \in Files \ {f} : read'[g] = read[g]
         /\ Matched'
<1>1. f \in Files /\ f # Manifest /\ Manifest \in Files /\ Numbers \subseteq Files
  BY FilesDiffer DEF Numbers
<1>2. dir[f] \in Versions /\ read'[f] = dir[f]
  BY <1>1 DEF Same, Take, IInv, TypeOK
<1>3. \A g \in Files \ {f} : read'[g] = read[g]
  BY <1>1 DEF Take, IInv, TypeOK
<1>4. read' \in [Files -> Versions \union {NotYet}]
  BY <1>1, <1>2 DEF Take, IInv, TypeOK
<1>5. Matched'
  BY <1>1, <1>2, <1>3, MarkersAssumption DEF Matched, Same, IInv
<1> QED
  BY <1>2, <1>3, <1>4, <1>5, MarkersAssumption

\* A step that ends the run without a report.
LEMMA EndStep ==
  ASSUME IInv, pc # "ended", NEW c \in {2, 3, 5}, End(c), next' \in Nat \ {0},
         UNCHANGED <<fixture, read, search, passed>>
  PROVE  IInv'
<1>1. pc' = "ended" /\ exit' = c /\ passed' = NotYet
  BY DEF End, IInv, Opened
<1>2. TypeOK' /\ Staged'
  BY <1>1 DEF IInv, TypeOK, Staged, Lists, fixture
<1>3. ~Published' /\ ExitCodeTellsReport'
  BY <1>1, MarkersAssumption DEF Published, ExitCodeTellsReport
<1>4. Opened'
  BY <1>1, <1>3 DEF Opened, Before, IInv
<1>5. Matched'
  BY DEF IInv, Matched
<1> QED
  BY <1>2, <1>3, <1>4, <1>5 DEF IInv

\* Opening a file of the training list.
LEMMA TrainingStep == IInv /\ ReadTraining => IInv'
<1> SUFFICES ASSUME IInv, ReadTraining PROVE IInv'
  OBVIOUS
<1> DEFINE f == DataFile(Training, next)
<1>0. /\ pc = "training" /\ UNCHANGED <<fixture, search, passed>>
      /\ next \in 1..(2 * Len(Training)) /\ read[Manifest] \in Versions
      /\ search = NotYet /\ passed = NotYet /\ exit = NotYet
      /\ \A g \in HeldFiles \union {Oracle} : read[g] = NotYet
      /\ \A i \in 1..(next - 1) : read[DataFile(Training, i)] # NotYet
  BY FramesAssumption DEF ReadTraining, ReadData, IInv, TypeOK, Opened, Before
<1>1. CASE End(3) /\ UNCHANGED <<next, read>>
  BY <1>0, <1>1, EndStep DEF IInv, TypeOK
<1>2. CASE ~(End(3) /\ UNCHANGED <<next, read>>)
  <2>1. /\ Same(f) /\ Take(f) /\ UNCHANGED exit
        /\ \/ next < 2 * Len(Training) /\ next' = next + 1 /\ UNCHANGED pc
           \/ next = 2 * Len(Training) /\ pc' = "fit" /\ next' = 1
    BY <1>0, <1>2 DEF ReadTraining, ReadData, GoOn
  <2>2. f \in DataOf(Range(Training)) /\ f \in DataOf(Frames)
    BY <1>0, FramesAssumption, DataFilesOf, FilesDiffer
  <2>3. /\ read' \in [Files -> Versions \union {NotYet}] /\ read'[f] # NotYet
        /\ \A g \in Files \ {f} : read'[g] = read[g]
        /\ Matched'
    BY <1>0, <2>1, <2>2, TakeData
  <2>4. TypeOK' /\ Staged' /\ ~Published' /\ ExitCodeTellsReport'
    BY <1>0, <2>1, <2>3, MarkersAssumption
       DEF IInv, TypeOK, Staged, Lists, fixture, Published, ExitCodeTellsReport
  <2>5. /\ read'[Manifest] = read[Manifest]
        /\ \A g \in HeldFiles \union {Oracle} : read'[g] = NotYet
    BY <1>0, <2>2, <2>3, FilesDiffer DEF HeldFiles
  <2>6. \A i \in 1..next : read'[DataFile(Training, i)] # NotYet
    <3> SUFFICES ASSUME NEW i \in 1..next PROVE read'[DataFile(Training, i)] # NotYet
      OBVIOUS
    <3>1. Len(Training) \in Nat /\ next \in Nat /\ i \in Nat /\ 1 <= i /\ i <= next
      BY <1>0, FramesAssumption
    <3>2. i \in 1..(2 * Len(Training))
      BY <1>0, <3>1
    <3>3. DataFile(Training, i) \in Files
      BY <3>2, FramesAssumption, DataFilesOf, FilesDiffer
    <3>4. i = next \/ i \in 1..(next - 1)
      BY <3>1
    <3> QED
      BY <1>0, <2>3, <3>3, <3>4
  <2>7. next = 2 * Len(Training) => \A g \in DataOf(Range(Training)) : read'[g] # NotYet
    BY <2>6, FramesAssumption, DataFilesOf
  <2>8. Opened'
    BY <1>0, <2>1, <2>4, <2>5, <2>6, <2>7, FramesAssumption DEF Opened, Before
  <2> QED
    BY <2>3, <2>4, <2>8 DEF IInv
<1> QED
  BY <1>1, <1>2

\* Opening a file of the held-out list.
LEMMA HeldOutStep == IInv /\ ReadHeldOut => IInv'
<1> SUFFICES ASSUME IInv, ReadHeldOut PROVE IInv'
  OBVIOUS
<1> DEFINE f == DataFile(Held, next)
<1>0. /\ pc = "held_out" /\ UNCHANGED <<fixture, search, passed>>
      /\ next \in 1..(2 * Len(Held)) /\ read[Manifest] \in Versions
      /\ search \in Results /\ passed = NotYet /\ exit = NotYet /\ read[Oracle] # NotYet
      /\ \A g \in DataOf(Range(Training)) : read[g] # NotYet
      /\ \A i \in 1..(next - 1) : read[DataFile(Held, i)] # NotYet
  BY FramesAssumption DEF ReadHeldOut, ReadData, IInv, TypeOK, Opened
<1>1. CASE End(3) /\ UNCHANGED <<next, read>>
  BY <1>0, <1>1, EndStep DEF IInv, TypeOK
<1>2. CASE ~(End(3) /\ UNCHANGED <<next, read>>)
  <2>1. /\ Same(f) /\ Take(f) /\ UNCHANGED exit
        /\ \/ next < 2 * Len(Held) /\ next' = next + 1 /\ UNCHANGED pc
           \/ next = 2 * Len(Held) /\ pc' = "images" /\ next' = 1
    BY <1>0, <1>2 DEF ReadHeldOut, ReadData, GoOn
  <2>2. f \in HeldFiles /\ f \in DataOf(Frames)
    BY <1>0, FramesAssumption, DataFilesOf, FilesDiffer DEF HeldFiles
  <2>3. /\ read' \in [Files -> Versions \union {NotYet}] /\ read'[f] # NotYet
        /\ \A g \in Files \ {f} : read'[g] = read[g]
        /\ Matched'
    BY <1>0, <2>1, <2>2, TakeData
  <2>4. TypeOK' /\ Staged' /\ ~Published' /\ ExitCodeTellsReport'
    BY <1>0, <2>1, <2>3, MarkersAssumption
       DEF IInv, TypeOK, Staged, Lists, fixture, Published, ExitCodeTellsReport
  <2>5. /\ read'[Manifest] = read[Manifest] /\ read'[Oracle] # NotYet
        /\ \A g \in DataOf(Range(Training)) : read'[g] # NotYet
    BY <1>0, <2>2, <2>3, FilesDiffer
  <2>6. \A i \in 1..next : read'[DataFile(Held, i)] # NotYet
    <3> SUFFICES ASSUME NEW i \in 1..next PROVE read'[DataFile(Held, i)] # NotYet
      OBVIOUS
    <3>1. Len(Held) \in Nat /\ next \in Nat /\ i \in Nat /\ 1 <= i /\ i <= next
      BY <1>0, FramesAssumption
    <3>2. i \in 1..(2 * Len(Held))
      BY <1>0, <3>1
    <3>3. DataFile(Held, i) \in Files
      BY <3>2, FramesAssumption, DataFilesOf, FilesDiffer
    <3>4. i = next \/ i \in 1..(next - 1)
      BY <3>1
    <3> QED
      BY <1>0, <2>3, <3>3, <3>4
  <2>7. next = 2 * Len(Held) => \A g \in HeldFiles : read'[g] # NotYet
    BY <2>6, FramesAssumption, DataFilesOf DEF HeldFiles
  <2>n. Len(Training \o Held) >= 1
    BY FramesAssumption, ConcatProperties
  <2>8. Opened'
    BY <1>0, <2>1, <2>4, <2>5, <2>6, <2>7, <2>n, FramesAssumption DEF Opened, Before
  <2> QED
    BY <2>3, <2>4, <2>8 DEF IInv
<1> QED
  BY <1>1, <1>2

\* Opening an image touches no file the report's numbers come from.
LEMMA ImageStep == IInv /\ ReadImage => IInv'
<1> SUFFICES ASSUME IInv, ReadImage PROVE IInv'
  OBVIOUS
<1> DEFINE f == Image((Training \o Held)[next])
<1>0. /\ pc = "images" /\ UNCHANGED <<fixture, search, passed>>
      /\ next \in 1..Len(Training \o Held) /\ read[Manifest] \in Versions
      /\ search \in Results /\ passed = NotYet /\ exit = NotYet
  BY FramesAssumption, ConcatProperties DEF ReadImage, IInv, TypeOK, Opened
<1>1. CASE End(3) /\ UNCHANGED <<next, read>>
  BY <1>0, <1>1, EndStep DEF IInv, TypeOK
<1>2. CASE ~(End(3) /\ UNCHANGED <<next, read>>)
  <2>1. /\ dir[f] # Missing /\ Take(f) /\ UNCHANGED exit
        /\ \/ next < Len(Training \o Held) /\ next' = next + 1 /\ UNCHANGED pc
           \/ next = Len(Training \o Held) /\ pc' = "publish" /\ next' = 1
    BY <1>0, <1>2 DEF ReadImage, GoOn
  <2>2. f \in Files /\ f # Manifest /\ f # Oracle /\ f \notin DataOf(Frames)
    BY <1>0, FilesDiffer
  <2>3. /\ read' \in [Files -> Versions \union {NotYet}]
        /\ \A g \in Files \ {f} : read'[g] = read[g]
    BY <2>1, <2>2 DEF Take, IInv, TypeOK
  <2>4. TypeOK' /\ Staged' /\ ~Published' /\ ExitCodeTellsReport'
    BY <1>0, <2>1, <2>3, MarkersAssumption
       DEF IInv, TypeOK, Staged, Lists, fixture, Published, ExitCodeTellsReport
  <2>5. \A g \in {Manifest, Oracle} \union DataOf(Frames) : read'[g] = read[g]
    BY <2>2, <2>3, FilesDiffer
  <2>6. Matched'
    BY <2>5 DEF Matched, Numbers, IInv
  <2>7. Opened'
    BY <1>0, <2>1, <2>4, <2>5, FilesDiffer DEF Opened, Before, HeldFiles, IInv
  <2> QED
    BY <2>4, <2>6, <2>7 DEF IInv
<1> QED
  BY <1>1, <1>2

\* Reading the manifest decides which fixture the run is about.
LEMMA ManifestStep == IInv /\ ReadManifest => IInv'
<1> SUFFICES ASSUME IInv, ReadManifest PROVE IInv'
  OBVIOUS
<1>0. /\ pc = "manifest" /\ UNCHANGED <<fixture, search, passed>>
      /\ search = NotYet /\ passed = NotYet /\ exit = NotYet
      /\ \A f \in Files : read[f] = NotYet
  BY DEF ReadManifest, IInv, Opened, Before
<1>1. CASE (End(2) \/ End(3)) /\ UNCHANGED <<next, read>>
  BY <1>0, <1>1, EndStep DEF IInv, TypeOK
<1>2. CASE dir[Manifest] # Missing /\ Take(Manifest) /\ GoOn("training")
  <2>1. /\ read' \in [Files -> Versions \union {NotYet}] /\ read'[Manifest] \in Versions
        /\ \A g \in Files \ {Manifest} : read'[g] = NotYet
    BY <1>0, <1>2, FilesDiffer DEF Take, IInv, TypeOK
  <2>2. pc' = "training" /\ next' = 1 /\ UNCHANGED exit
    BY <1>2 DEF GoOn
  <2>3. TypeOK' /\ Staged' /\ ~Published' /\ ExitCodeTellsReport'
    BY <1>0, <2>1, <2>2, MarkersAssumption
       DEF IInv, TypeOK, Staged, Lists, fixture, Published, ExitCodeTellsReport
  <2>4. \A g \in Numbers : read'[g] = NotYet
    BY <2>1, FilesDiffer DEF Numbers
  <2>5. Matched'
    BY <2>4 DEF Matched, Numbers
  <2>6. \A g \in HeldFiles \union {Oracle} : read'[g] = NotYet
    BY <2>4, FilesDiffer DEF Numbers, HeldFiles
  <2>7. Len(Training) \in Nat /\ Len(Training) >= 1
    BY FramesAssumption
  <2>8. Opened'
    BY <1>0, <2>1, <2>2, <2>3, <2>6, <2>7 DEF Opened, Before
  <2> QED
    BY <2>3, <2>5, <2>8 DEF IInv
<1> QED
  BY <1>1, <1>2 DEF ReadManifest

\* The fit decides the search, the replay nothing.
LEMMA FitStep == IInv /\ (Fit \/ Refit) => IInv'
<1> SUFFICES ASSUME IInv, Fit \/ Refit PROVE IInv'
  OBVIOUS
<1>0. /\ pc \in {"fit", "refit"} /\ UNCHANGED <<fixture, read, passed>>
      /\ read[Manifest] \in Versions /\ passed = NotYet /\ exit = NotYet
      /\ \A f \in DataOf(Range(Training)) : read[f] # NotYet
  BY DEF Fit, Refit, IInv, Opened
<1>1. CASE pc = "fit" /\ End(2) /\ UNCHANGED <<next, search>>
  BY <1>0, <1>1, EndStep DEF IInv, TypeOK
<1>2. CASE /\ pc' \in {"refit", "oracle"} /\ next' = 1 /\ UNCHANGED exit
           /\ search' \in Results
  <2>1. TypeOK' /\ Staged' /\ ~Published' /\ ExitCodeTellsReport'
    BY <1>0, <1>2, MarkersAssumption
       DEF IInv, TypeOK, Staged, Lists, fixture, Published, ExitCodeTellsReport
  <2>2. Matched'
    BY <1>0 DEF IInv, Matched
  <2>3. Opened'
    BY <1>0, <1>2, <2>1 DEF Opened, Before
  <2> QED
    BY <2>1, <2>2, <2>3 DEF IInv
<1> QED
  BY <1>0, <1>1, <1>2 DEF Fit, Refit, GoOn, IInv, Opened

\* The oracle of another fixture is refused: equal manifests, equal fixtures.
LEMMA OracleStep == IInv /\ ReadOracle => IInv'
<1> SUFFICES ASSUME IInv, ReadOracle PROVE IInv'
  OBVIOUS
<1>0. /\ pc = "oracle" /\ UNCHANGED <<fixture, search, passed>>
      /\ read[Manifest] \in Versions /\ search \in Results
      /\ passed = NotYet /\ exit = NotYet
      /\ \A f \in DataOf(Range(Training)) : read[f] # NotYet
  BY DEF ReadOracle, IInv, Opened
<1>1. CASE End(3) /\ UNCHANGED <<next, read>>
  BY <1>0, <1>1, EndStep DEF IInv, TypeOK
<1>2. CASE ~(End(3) /\ UNCHANGED <<next, read>>)
  <2>1. /\ dir[Oracle] \in Versions /\ Take(Oracle) /\ GoOn("held_out")
        /\ ContentOf(Manifest, dir[Oracle]) = ContentOf(Manifest, read[Manifest])
    BY <1>2, FilesDiffer DEF ReadOracle, IInv, TypeOK
  <2>2. dir[Oracle] = read[Manifest]
    BY <1>0, <2>1, ManifestAssumption
  <2>3. /\ read' \in [Files -> Versions \union {NotYet}]
        /\ read'[Oracle] = read[Manifest] /\ read'[Manifest] = read[Manifest]
        /\ \A g \in Files \ {Oracle} : read'[g] = read[g]
    BY <2>1, <2>2, FilesDiffer DEF Take, IInv, TypeOK
  <2>4. pc' = "held_out" /\ next' = 1 /\ UNCHANGED exit
    BY <2>1 DEF GoOn
  <2>5. TypeOK' /\ Staged' /\ ~Published' /\ ExitCodeTellsReport'
    BY <1>0, <2>3, <2>4, MarkersAssumption
       DEF IInv, TypeOK, Staged, Lists, fixture, Published, ExitCodeTellsReport
  <2>6. \A g \in DataOf(Frames) : read'[g] = read[g]
    BY <2>3, FilesDiffer
  <2>7. Matched'
    BY <1>0, <2>3, <2>6, MarkersAssumption DEF Matched, Numbers, IInv
  <2>8. \A f \in DataOf(Range(Training)) : read'[f] # NotYet
    BY <1>0, <2>6, FilesDiffer
  <2>9. Len(Held) \in Nat /\ Len(Held) >= 1
    BY FramesAssumption
  <2>10. read'[Oracle] # NotYet
    BY <1>0, <2>3, MarkersAssumption
  <2>11. Opened'
    BY <1>0, <2>3, <2>4, <2>5, <2>8, <2>9, <2>10 DEF Opened, Before
  <2> QED
    BY <2>5, <2>7, <2>11 DEF IInv
<1> QED
  BY <1>1, <1>2

\* Publishing takes the exit code from the search gate, which acceptance implies.
LEMMA PublishStep == IInv /\ Publish => IInv'
<1> SUFFICES ASSUME IInv, Publish PROVE IInv'
  OBVIOUS
<1>0. /\ pc = "publish" /\ UNCHANGED <<fixture, next, read, search>>
      /\ search \in Results /\ passed = NotYet /\ exit = NotYet
      /\ \A f \in DataOf(Range(Training)) \union HeldFiles \union {Oracle} : read[f] # NotYet
  BY DEF Publish, IInv, Opened
<1>1. CASE End(5) /\ UNCHANGED passed
  BY <1>0, <1>1, EndStep DEF IInv, TypeOK
<1>2. ASSUME NEW metrics \in BOOLEAN,
             passed' = Accepts(search, metrics), End(ExitCode(search))
      PROVE  IInv'
  <2>1. /\ pc' = "ended" /\ exit' = ExitCode(search) /\ exit' \in {0, 4}
        /\ passed' \in BOOLEAN
    BY <1>0, <1>2 DEF End, ExitCode, Accepts, SearchGate, Results
  <2>2. TypeOK' /\ Staged'
    BY <1>0, <2>1 DEF IInv, TypeOK, Staged, Lists, fixture
  <2>3. Matched'
    BY <1>0 DEF IInv, Matched
  <2>4. Opened'
    BY <1>0, <2>1 DEF Opened, Before
  <2>5. ExitCodeTellsReport'
    <3>1. passed' => SearchGate(search)
      BY <1>2 DEF Accepts
    <3>2. exit' = 0 <=> SearchGate(search)
      BY <2>1 DEF ExitCode
    <3>3. Published'
      BY <2>1, MarkersAssumption DEF Published
    <3> QED
      BY <1>0, <2>1, <3>1, <3>2, <3>3 DEF ExitCodeTellsReport, SearchGate
  <2> QED
    BY <2>2, <2>3, <2>4, <2>5 DEF IInv
<1> QED
  BY <1>1, <1>2 DEF Publish

\* Every step of the run, of the replacing program, and none.
LEMMA IInvStep == IInv /\ [Next]_vars => IInv'
<1> SUFFICES ASSUME IInv, [Next]_vars PROVE IInv'
  OBVIOUS
<1>1. CASE UNCHANGED vars
  BY <1>1 DEF vars, IInv, TypeOK, Staged, Opened, Matched, ExitCodeTellsReport, Published
<1>2. CASE Next
  BY <1>2, ReplaceStep, ManifestStep, TrainingStep, FitStep, OracleStep, HeldOutStep,
     ImageStep, PublishStep DEF Next, RunStep
<1> QED
  BY <1>1, <1>2

\* The invariant is one.
LEMMA IInvAlways == Spec => []IInv
  BY IInvInit, IInvStep, PTL DEF Spec

-----------------------------------------------------------------------------
(* The results                                                             *)

\* Type correctness: the run only ever holds files that were there to open,
\* and its exit code is one of those the program documents.
THEOREM TypeCorrect == Spec => []TypeOK
  BY IInvAlways, PTL DEF IInv

\* All numbers of a published report come from the fixture its manifest names,
\* however many replacements fall between two of the run's reads.
THEOREM OneFixture == Spec => []OneFixtureReported
<1>1. IInv => OneFixtureReported
  <2> SUFFICES ASSUME IInv, Published, NEW f \in Numbers
               PROVE  read[f] # NotYet /\ ContentOf(f, read[f]) = ContentOf(f, read[Manifest])
    BY DEF OneFixtureReported
  <2>1. read[f] # NotYet
    BY FilesDiffer DEF IInv, Opened, HeldFiles, Numbers
  <2> QED
    BY <2>1 DEF IInv, Matched
<1> QED
  BY <1>1, IInvAlways, PTL

\* The exit code tells whether there is a report, and no accepted report comes
\* with a failing exit code.
THEOREM ExitCodes == Spec => []ExitCodeTellsReport
  BY IInvAlways, PTL DEF IInv

\* The search is decided once, before the oracle and any held-out file is opened.
THEOREM SearchBlind == Spec => SearchBlindToHeldOut
<1>1. IInv /\ [Next]_vars =>
        [search' # search =>
           /\ search = NotYet
           /\ \A f \in DataOf(Range(Held)) \union {Oracle} : read'[f] = NotYet]_vars
  <2> SUFFICES ASSUME IInv, Next, search' # search
               PROVE  /\ search = NotYet
                      /\ \A f \in DataOf(Range(Held)) \union {Oracle} : read'[f] = NotYet
    BY DEF vars
  <2>1. Fit
    BY DEF Next, RunStep, BeginReplace, RemoveFile, Install, ReadManifest, ReadTraining,
       ReadHeldOut, ReadData, Refit, ReadOracle, ReadImage, Publish, run
  <2> QED
    BY <2>1 DEF Fit, IInv, Opened, Before, HeldFiles, End, GoOn
<1> QED
  BY <1>1, IInvAlways, PTL DEF Spec, SearchBlindToHeldOut

=============================================================================
