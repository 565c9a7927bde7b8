---------------------------- MODULE AuthoredFixture ----------------------------
(***************************************************************************)
(* What generateExtrinsicFixture puts into a fixture, and what the loaders *)
(* of the recovery run make of it.  The generator projects the authored    *)
(* points of three frames through the hidden transform, draws outliers and *)
(* paired noise, and describes the corruption in fixture.json and          *)
(* oracle.json; then at most one file is edited, and manifest, split,      *)
(* training frames, oracle and held-out frame are read, in the order of    *)
(* composeRecoveryRun.  How a fixture is published and replaced under a    *)
(* run is StagedPublication and RecoveryRun.                               *)
(*                                                                         *)
(* Pixels are integer vectors, a fingerprint is the content it is taken of *)
(* (its collisions are not modelled), draws are arbitrary.                 *)
(***************************************************************************)
EXTENDS Integers, FiniteSets, SequencesExt

CONSTANTS
  Configs,       \* [hidden, noise, fraction]: fraction is <<numerator, denominator>>
  Scene(_),      \* authoredPoints of a frame
  Seen(_, _),    \* Seen(hidden, point): its pixel, or Unseen
  Unseen,
  Draws(_),      \* the vectors that two draws may give at a noise level
  Offset,        \* (+40, -30) in the code
  Width, Height,
  None           \* nothing yet

ASSUME ImageAssumption == Width \in Nat \ {0} /\ Height \in Nat \ {0}

VARIABLES
  config,      \* ExtrinsicFixtureConfig
  phase,       \* frame, target, edit, manifest, split, training, oracle, held_out, clean, done
  frame,       \* the frame that the generator's loop is at
  outliers,    \* the ranks of its outliers among the visible points
  next,        \* the visible point the inner loop is at
  noise,       \* the noise of the last target
  sum,         \* noise_sum
  targets,     \* the observations of the frame so far
  pixels,      \* oracle_pixels
  files,       \* the files written so far, and what is on the disk later
  made,        \* the fixture as it was published
  read,        \* the observation frames that were read, then with clean pixels
  outcome      \* "running", "malformed", "refused" by a loader, or "accepted"

vars == <<config, phase, frame, outliers, next, noise, sum, targets, pixels, files, made, read, outcome>>

Frames == 0..2
Training == 0..1
Zero == <<0, 0>>
Plus(p, q) == <<p[1] + q[1], p[2] + q[2]>>
Minus(p) == <<-p[1], -p[2]>>
InImage(p) == p[1] >= 0 /\ p[1] < Width /\ p[2] >= 0 /\ p[2] < Height
Vectors == Int \X Int

\* The generator refuses other fractions; a level of zero draws nothing.
ASSUME ConfigAssumption ==
  \A c \in Configs : /\ c.fraction \in Nat \X (Nat \ {0}) /\ c.fraction[1] <= c.fraction[2]
                     /\ Draws(c.noise) \subseteq Vectors
                     /\ c.noise = 0 => Draws(c.noise) = {Zero}

\* The three scenes are different sets of points; a point that is seen has its pixel
\* in the image.
ASSUME SceneAssumption ==
  /\ Offset \in Vectors
  /\ \A f \in Frames : Scene(f) \in Seq(ToSet(Scene(f)))
  /\ \A f, g \in Frames : f # g => ToSet(Scene(f)) # ToSet(Scene(g))
  /\ \A c \in Configs, f \in Frames : \A p \in ToSet(Scene(f)) :
       Seen(c.hidden, p) # Unseen =>
         Seen(c.hidden, p) \in Vectors /\ InImage(Seen(c.hidden, p))

\* std::sort: the members of S in the order of Before.
Listing(S, Before(_, _)) ==
  [i \in 1..Cardinality(S) |->
     CHOOSE k \in S : Cardinality({ l \in S : Before(l, k) }) = i - 1]

-----------------------------------------------------------------------------
(* The generator                                                           *)

\* projected.visible_points: the places of the visible points, in their order.
Visible(f) ==
  Listing({ i \in DOMAIN Scene(f) : Seen(config.hidden, Scene(f)[i]) # Unseen },
          LAMBDA i, j : i < j)

\* Places start at 1 here.
SourceIndex(i) == 11 + 3 * (i - 1)

OutlierCount(f) ==
  IF f \in Training THEN (config.fraction[1] * Len(Visible(f))) \div config.fraction[2] ELSE 0

\* Mutant: the last point of an odd number keeps its draw.
NoiseOfUnpaired(n) == IF n % 2 = 1 THEN Draws(config.noise) ELSE {Minus(noise)}

\* Every second vector takes back the one before; one without a partner is zero.
NoiseOf(n) ==
  IF n % 2 = 0 THEN {Minus(noise)}
  ELSE IF n = Len(Visible(frame)) THEN {Zero} ELSE Draws(config.noise)

Init ==
  /\ config \in Configs
  /\ phase = "frame" /\ frame = 0
  /\ outliers = {} /\ next = 1 /\ noise = Zero /\ sum = Zero
  /\ targets = <<>> /\ pixels = <<>>
  /\ files = [points |-> <<>>, observations |-> <<>>, manifest |-> <<>>, oracle |-> None]
  /\ made = None /\ read = <<>> /\ outcome = "running"

Stop(how) ==
  /\ outcome' = how /\ phase' = "done"
  /\ UNCHANGED <<config, frame, outliers, next, noise, sum, targets, pixels, files, made, read>>

\* The smallest of arbitrary ranks are any set of their number.
BeginFrame ==
  /\ phase = "frame" /\ frame \in Frames
  /\ outliers' \in { s \in SUBSET DOMAIN Visible(frame) : Cardinality(s) = OutlierCount(frame) }
  /\ next' = 1 /\ noise' = Zero /\ sum' = Zero /\ targets' = <<>>
  /\ phase' = "target"
  /\ UNCHANGED <<config, frame, pixels, files, made, read, outcome>>

\* One visible point: its noise, its offset when it is an outlier, its records.
AddTarget ==
  /\ phase = "target" /\ next \in DOMAIN Visible(frame)
  /\ LET place == Visible(frame)[next]
         clean == Seen(config.hidden, Scene(frame)[place]) IN
     \E n \in NoiseOf(next) :
       LET observed == Plus(Plus(clean, n), IF next \in outliers THEN Offset ELSE Zero) IN
       IF ~InImage(observed) THEN Stop("malformed")
       ELSE /\ targets' = Append(targets, [source |-> SourceIndex(place), at |-> observed])
            /\ pixels' = Append(pixels, [frame |-> frame, source |-> SourceIndex(place), at |-> clean,
                                         training_outlier |-> next \in outliers])
            /\ noise' = n /\ sum' = Plus(sum, n) /\ next' = next + 1
            /\ UNCHANGED <<config, phase, frame, outliers, files, made, read, outcome>>

\* The frame's files and its entry of the manifest.
EndFrame ==
  /\ phase = "target" /\ next \notin DOMAIN Visible(frame)
  /\ IF targets = <<>> THEN Stop("malformed")
     ELSE LET points == [i \in DOMAIN Scene(frame) |->
                           [source |-> SourceIndex(i), point |-> Scene(frame)[i]]] IN
          /\ files' = [files EXCEPT
               !.points = Append(@, points),
               !.observations = Append(@, targets),
               !.manifest = Append(@,
                 [frame |-> frame, scene |-> ToSet(Scene(frame)),
                  points |-> points, observations |-> targets,
                  input |-> Len(points), visible |-> Len(Visible(frame)),
                  outlier_count |-> OutlierCount(frame), noise_sum |-> sum])]
          /\ frame' = frame + 1 /\ phase' = "frame"
          /\ UNCHANGED <<config, outliers, next, noise, sum, targets, pixels, made, read, outcome>>

\* fixture.json with its identity, oracle.json with both, and the rename.
Publish ==
  /\ phase = "frame" /\ frame \notin Frames
  /\ LET body == [fixture |-> files.manifest, hidden |-> config.hidden, pixels |-> pixels] IN
     files' = [files EXCEPT !.manifest = [frames |-> @, identity |-> @],
                            !.oracle = [body |-> body, identity |-> body]]
  /\ made' = files'
  /\ phase' = "edit"
  /\ UNCHANGED <<config, frame, outliers, next, noise, sum, targets, pixels, read, outcome>>

\* What becomes of a file of records: another order, or other records.
Edits(records) ==
  {Reverse(records), Front(records), Append(records, Head(records)),
   [records EXCEPT ![1].source = @ + 1]}

\* Somebody edits one file, or none; an identity is never brought up to date.
Edit ==
  /\ phase = "edit" /\ phase' = "manifest"
  /\ files' \in {files}
       \cup (UNION { { [files EXCEPT !.points[i] = e] : e \in Edits(files.points[i]) } : i \in 1..3 })
       \cup (UNION { { [files EXCEPT !.observations[i] = e] : e \in Edits(files.observations[i]) }
                     : i \in 1..3 })
       \cup {[files EXCEPT !.observations = <<@[2], @[1], @[3]>>]}
       \cup { [files EXCEPT !.oracle.body.pixels = e] : e \in Edits(files.oracle.body.pixels) }
       \cup {[files EXCEPT !.oracle.body.pixels[1].training_outlier = ~@]}
       \cup {[files EXCEPT !.manifest.frames[1].outlier_count = @ + 1]}
  /\ UNCHANGED <<config, frame, outliers, next, noise, sum, targets, pixels, made, read, outcome>>

-----------------------------------------------------------------------------
(* The loaders                                                             *)

Check(when, good, then) ==
  /\ phase = when
  /\ IF good
     THEN phase' = then /\ UNCHANGED <<config, frame, outliers, next, noise, sum, targets, pixels,
                                       files, made, outcome>>
     ELSE Stop("refused")

ManifestGood ==
  /\ files.manifest.identity = files.manifest.frames
  /\ \A i, j \in DOMAIN files.manifest.frames :
       i # j => files.manifest.frames[i].frame # files.manifest.frames[j].frame
  /\ \A i \in DOMAIN files.manifest.frames :
       files.manifest.frames[i].outlier_count <= files.manifest.frames[i].visible

\* loadExtrinsicFixture
ReadManifest == Check("manifest", ManifestGood, "split") /\ UNCHANGED read

\* validateExtrinsicSplit, for 0,1 / 2.
SplitGood ==
  \A i, j \in DOMAIN files.manifest.frames :
    i # j => files.manifest.frames[i].scene # files.manifest.frames[j].scene
CheckSplit == Check("split", SplitGood, "training") /\ UNCHANGED read

\* Mutant: the identities are taken of the files as they are.
AsFound(records) == records

\* The canonical order of records.
Canonical(records) ==
  LET Before(k, l) == \/ records[k].source < records[l].source
                      \/ records[k].source = records[l].source /\ k < l
      order == Listing(DOMAIN records, Before)
  IN [i \in DOMAIN records |-> records[order[i]]]

Sources(records) == { records[i].source : i \in DOMAIN records }

\* loadExtrinsicObservationFrames: identities, counts, keys and the join, then
\* validateExtrinsicObservations.
FrameGood(f) ==
  LET info == files.manifest.frames[f + 1]
      points == Canonical(files.points[f + 1])
      observed == Canonical(files.observations[f + 1]) IN
  /\ points # <<>> /\ observed # <<>>
  /\ points = info.points /\ observed = info.observations
  /\ Len(points) = info.input /\ Len(observed) = info.visible
  /\ Cardinality(Sources(points)) = Len(points)
  /\ { points[i].point : i \in DOMAIN points } = info.scene
  /\ Sources(observed) \subseteq Sources(points)
  /\ Cardinality(Sources(observed)) = Len(observed)
  /\ \A i \in DOMAIN observed : InImage(observed[i].at)
FrameRead(f) ==
  LET points == files.points[f + 1]
      observed == Canonical(files.observations[f + 1]) IN
  [i \in DOMAIN observed |->
     [source |-> observed[i].source, at |-> observed[i].at,
      point |-> (CHOOSE p \in ToSet(points) : p.source = observed[i].source).point]]
ReadFrames(when, frames, then) ==
  /\ Check(when, \A i \in DOMAIN frames : FrameGood(frames[i]), then)
  /\ read' = IF outcome' = "refused" THEN read
             ELSE read \o [i \in DOMAIN frames |-> <<frames[i], FrameRead(frames[i])>>]
ReadTraining == ReadFrames("training", <<0, 1>>, "oracle")
ReadHeldOut == ReadFrames("held_out", <<2>>, "clean")

\* loadExtrinsicOracle
OracleGood ==
  LET oracle == files.oracle.body
      Of(f) == { i \in DOMAIN oracle.pixels : oracle.pixels[i].frame = f } IN
  /\ files.oracle.identity = oracle /\ oracle.fixture = files.manifest.identity
  /\ \A i, j \in DOMAIN oracle.pixels :
       /\ InImage(oracle.pixels[i].at)
       /\ i # j => \/ oracle.pixels[i].frame # oracle.pixels[j].frame
                   \/ oracle.pixels[i].source # oracle.pixels[j].source
  /\ \A f \in Frames :
       /\ Cardinality(Of(f)) = files.manifest.frames[f + 1].visible
       /\ Cardinality({ i \in Of(f) : oracle.pixels[i].training_outlier })
            = files.manifest.frames[f + 1].outlier_count
ReadOracle == Check("oracle", OracleGood, "held_out") /\ UNCHANGED read

\* cleanExtrinsicObservations, of the training and of the held-out frames.
CleanOf(f, source) ==
  { p \in ToSet(files.oracle.body.pixels) : p.frame = f /\ p.source = source }
Clean ==
  /\ phase = "clean"
  /\ IF \A i \in DOMAIN read : \A k \in DOMAIN read[i][2] :
          CleanOf(read[i][1], read[i][2][k].source) # {}
     THEN /\ read' = [i \in DOMAIN read |->
                <<read[i][1],
                  [k \in DOMAIN read[i][2] |->
                     [source |-> read[i][2][k].source, point |-> read[i][2][k].point,
                      at |-> read[i][2][k].at,
                      clean |-> (CHOOSE p \in CleanOf(read[i][1], read[i][2][k].source) : TRUE).at]]>>]
          /\ outcome' = "accepted" /\ phase' = "done"
          /\ UNCHANGED <<config, frame, outliers, next, noise, sum, targets, pixels, files, made>>
     ELSE Stop("refused")

Next ==
  \/ BeginFrame \/ AddTarget \/ EndFrame \/ Publish \/ Edit
  \/ ReadManifest \/ CheckSplit \/ ReadTraining \/ ReadOracle \/ ReadHeldOut \/ Clean

Spec == Init /\ [][Next]_vars

-----------------------------------------------------------------------------
(* Properties                                                              *)

Total(vectors) ==
  LET sums[k \in 0..Len(vectors)] == IF k = 0 THEN Zero ELSE Plus(sums[k - 1], vectors[k])
  IN sums[Len(vectors)]

\* What a published fixture declares is what was done to it: each visible point
\* has one target and one clean pixel under its own source index; the training
\* frames have floor(fraction * visible) labelled outliers, the held-out frame
\* none; all noise of a frame adds up to nothing, so that the targets of a frame
\* are off by exactly the offset of its outliers; and without noise nothing but
\* the labelled targets is off (generateExtrinsicFixture).
CorruptionIsDeclared ==
  made # None =>
    \A f \in Frames :
      LET info == made.manifest.frames[f + 1]
          observed == made.observations[f + 1]
          clean == { p \in ToSet(made.oracle.body.pixels) : p.frame = f }
          CleanPixel(source) == CHOOSE p \in clean : p.source = source
          off(i) == Plus(observed[i].at, Minus(CleanPixel(observed[i].source).at))
          seen == { i \in DOMAIN Scene(f) : Seen(config.hidden, Scene(f)[i]) # Unseen }
          labelled == { p \in clean : p.training_outlier } IN
      /\ clean = { [frame |-> f, source |-> SourceIndex(i), at |-> Seen(config.hidden, Scene(f)[i]),
                    training_outlier |-> \E p \in labelled : p.source = SourceIndex(i)] : i \in seen }
      /\ Sources(observed) = { SourceIndex(i) : i \in seen }
      /\ Len(observed) = Cardinality(seen)
      /\ Cardinality(labelled) = info.outlier_count
      /\ IF f = 2 THEN labelled = {}
         ELSE /\ Cardinality(labelled) * config.fraction[2] <= config.fraction[1] * Cardinality(seen)
              /\ (Cardinality(labelled) + 1) * config.fraction[2] > config.fraction[1] * Cardinality(seen)
      /\ Total([i \in DOMAIN observed |-> off(i)])
           = <<Cardinality(labelled) * Offset[1], Cardinality(labelled) * Offset[2]>>
      /\ config.noise = 0 =>
           \A i \in DOMAIN observed :
             off(i) = IF CleanPixel(observed[i].source).training_outlier THEN Offset ELSE Zero

\* The loaders take every fixture the generator publishes, and take an edited
\* one only when nothing but the order of records in a point or observation file
\* has changed; what they hand on is what was generated: every target with its
\* own point and its own clean pixel, by source index (loadExtrinsicFixture to
\* cleanExtrinsicObservations).
LoadIsFaithful ==
  LET Shuffled(a, b) == Len(a) = Len(b) /\ ToSet(a) = ToSet(b)
      harmless == /\ files.manifest = made.manifest /\ files.oracle = made.oracle
                  /\ \A i \in 1..3 : /\ Shuffled(files.points[i], made.points[i])
                                     /\ Shuffled(files.observations[i], made.observations[i]) IN
  /\ outcome = "refused" => ~harmless
  /\ outcome = "accepted" =>
       /\ harmless
       /\ read = [i \in 1..3 |->
            <<i - 1, [k \in DOMAIN made.observations[i] |->
                LET target == made.observations[i][k]
                    place == CHOOSE p \in DOMAIN Scene(i - 1) : SourceIndex(p) = target.source
                IN [source |-> target.source, at |-> target.at, point |-> Scene(i - 1)[place],
                    clean |-> Seen(config.hidden, Scene(i - 1)[place])]]>>]

=============================================================================
