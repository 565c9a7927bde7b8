----------------------------- MODULE KittiSequence -----------------------------
(***************************************************************************)
(* How project_kitti and analyze_calibration come to the one image, the    *)
(* one point file and the two timestamps that a run is about: the two      *)
(* calibration files are parsed and assembled, the two data directories    *)
(* are enumerated in whatever order the file system has, the two timestamp *)
(* files are read line by line, frames and lines are paired by rank, and   *)
(* the frame asked for is looked up.  What happens to the two files then   *)
(* is ProjectionRun.                                                       *)
(*                                                                         *)
(* A file is chosen when it is opened, and content keeps what was chosen.  *)
(* A calibration line is its key and what parseValues finds in the rest; a *)
(* timestamp line is its civil time, in units of which an int64 count of   *)
(* nanoseconds holds -Half..Half-1, or Malformed.                          *)
(***************************************************************************)
EXTENDS Integers, FiniteSets, SequencesExt

CONSTANTS
  None,                  \* no such file; no file is open; nothing yet
  Malformed,             \* a line that parseKittiTimestamp refuses
  NotNumeric,            \* the number of a name that parseFrameId refuses
  Regular(_),            \* whether a directory entry is a regular file
  Extension(_),          \* the extension of its name
  Number(_),             \* the number its stem parses to
  Picture(_),            \* what loadBgrImage finds in an entry: "fine" or its refusal
  Contents(_),           \* the contents that the file or directory of a step may have
  Requests,              \* the values of --frame
  Half,                  \* 2^63, in the units of the civil times
  MaximumFrames,         \* kMaximumFrameCount
  MaximumTimestamps      \* kMaximumTimestampCount

ASSUME LimitsAssumption ==
  Half \in Nat \ {0} /\ MaximumFrames \in Nat \ {0} /\ MaximumTimestamps \in Nat \ {0}

\* What parseValues finds in a line, and what the two reading loops are given.
Unparsable == {"malformed_line", "non_finite_value", "wrong_value_count"}
CalibrationLines == [key : STRING, found : Unparsable \cup {"ok", "unfit"}]
CivilTimes == Int \cup {Malformed}
Streams == {"image", "lidar"}

ASSUME NamesAssumption ==
  /\ Requests \subseteq Nat /\ NotNumeric \notin Nat /\ Malformed \notin Int
  /\ None \notin Seq(CalibrationLines) /\ None \notin Seq(CivilTimes)
ASSUME ContentsAssumption ==
  /\ \A f \in {"velo", "camera"} : \A c \in Contents(<<"calibration", f>>) :
       c = None \/ c \in Seq(CalibrationLines)
  /\ \A s \in Streams :
       /\ \A d \in Contents(<<"directory", s>>) :
            \/ d = None
            \/ /\ IsFiniteSet(d) /\ None \notin Seq(d)
               /\ \A e \in d : /\ Number(e) \in Nat \cup {NotNumeric}
                              /\ Picture(e) \in {"fine", "invalid_frame_file", "limit_exceeded"}
       /\ \A c \in Contents(<<"timestamps", s>>) : c = None \/ c \in Seq(CivilTimes)

VARIABLES
  request,    \* the frame asked for
  basename,   \* whether --drive is one basename that ends in _sync
  at,         \* the step that run() is at
  content,    \* what each file and directory was found to hold
  rest,       \* what is left to read of the open one, or None
  built,      \* what the reading loop has kept so far
  result,     \* what each step returned
  outcome     \* "loading", "loaded", or the code of the IoError

vars == <<request, basename, at, content, rest, built, result, outcome>>

Required == [velo |-> {"R", "T"}, camera |-> {"P_rect_02", "R_rect_00", "S_rect_02"}]
Wanted == [image |-> "png", lidar |-> "bin"]

\* The order of run(), loadKittiCalibration and loadKittiSequenceLayout.
Script ==
  << <<"calibration", "velo">>, <<"calibration", "camera">>, <<"assemble", "both">>,
     <<"drive", "name">>,
     <<"directory", "image">>, <<"directory", "lidar">>,
     <<"timestamps", "image">>, <<"timestamps", "lidar">>,
     <<"attach", "image">>, <<"attach", "lidar">>,
     <<"find", "image">>, <<"find", "lidar">>, <<"picture", "image">> >>

Steps == ToSet(Script)
Step == Script[at]
Subject == Step[2]
Doing(kind) == outcome = "loading" /\ Step[1] = kind

-----------------------------------------------------------------------------
(* The pure parts                                                          *)

Counts(entry, stream) == Regular(entry) /\ Extension(entry) = Wanted[stream]

\* SensorTimestamp::civilTime: the count of nanoseconds, as int64 arithmetic leaves it.
Nanos(time) == ((time + Half) % (2 * Half)) - Half

\* std::map's order of its keys.
InOrder(entries) ==
  CHOOSE f \in SetToSeqs(ToSet(entries)) :
    \A i, j \in DOMAIN f : i < j => Number(f[i]) < Number(f[j])

-----------------------------------------------------------------------------
(* The steps of run()                                                      *)

Init ==
  /\ request \in Requests /\ basename \in BOOLEAN
  /\ at = 1
  /\ content = [s \in Steps |-> None]
  /\ rest = None /\ built = <<>>
  /\ result = [s \in Steps |-> None]
  /\ outcome = "loading"

\* A throw: nothing is written, and main ends with the status for input errors.
Refuse(code) ==
  outcome' = code /\ UNCHANGED <<request, basename, at, content, rest, built, result>>

Skip == rest' = Tail(rest) /\ UNCHANGED <<request, basename, at, content, built, result, outcome>>

Keep(item) ==
  /\ rest' = Tail(rest) /\ built' = Append(built, item)
  /\ UNCHANGED <<request, basename, at, content, result, outcome>>

\* A step returns, and the next one begins.
Return(value) ==
  /\ result' = [result EXCEPT ![Step] = value]
  /\ rest' = None /\ built' = <<>>
  /\ IF at = Len(Script) THEN outcome' = "loaded" /\ at' = at ELSE at' = at + 1 /\ outcome' = outcome
  /\ UNCHANGED <<request, basename, content>>

\* is_directory, or the stream's is_open; a directory is listed in any order.
Open ==
  /\ \E kind \in {"calibration", "directory", "timestamps"} : Doing(kind)
  /\ rest = None
  /\ \E c \in Contents(Step) :
       /\ content' = [content EXCEPT ![Step] = c]
       /\ IF c = None
          THEN /\ outcome' = (IF Step[1] = "directory" THEN "invalid_layout" ELSE "file_open")
               /\ rest' = rest
          ELSE /\ rest' \in (IF Step[1] = "directory" THEN SetToSeqs(c) ELSE {c})
               /\ outcome' = outcome
  /\ UNCHANGED <<request, basename, at, built, result>>

Reading(kind) == Doing(kind) /\ rest # None /\ rest # <<>>
Ended(kind) == Doing(kind) /\ rest = <<>>

\* One line: other keys are passed over, a second line of a key is refused unread.
ReadCalibrationLine ==
  /\ Reading("calibration")
  /\ LET line == Head(rest) IN
     IF line.key \notin Required[Subject] THEN Skip
     ELSE IF \E i \in DOMAIN built : built[i].key = line.key THEN Refuse("duplicate_key")
     ELSE IF line.found \in Unparsable THEN Refuse(line.found)
     ELSE Keep(line)

EndCalibration ==
  /\ Ended("calibration")
  /\ IF Required[Subject] \subseteq { line.key : line \in ToSet(built) }
     THEN Return(ToSet(built)) ELSE Refuse("missing_key")

\* RigidTransform's constructor and positiveImageDimension.
Assemble ==
  /\ Doing("assemble")
  /\ LET lines == UNION { result[<<"calibration", f>>] : f \in {"velo", "camera"} } IN
     IF \E line \in lines : line.found = "unfit" THEN Refuse("invalid_calibration")
     ELSE Return(lines)

CheckDrive ==
  Doing("drive") /\ IF basename THEN Return(basename) ELSE Refuse("invalid_layout")

\* Mutant: the extension of a file does not matter.
VisitAnyFile ==
  /\ Reading("directory")
  /\ LET entry == Head(rest) IN
     IF ~Regular(entry) THEN Skip
     ELSE IF Len(built) >= MaximumFrames THEN Refuse("limit_exceeded")
     ELSE IF \/ Number(entry) = NotNumeric
             \/ \E i \in DOMAIN built : Number(built[i]) = Number(entry)
          THEN Refuse("invalid_frame_file")
     ELSE Keep(entry)

\* One entry of the directory iterator; the limit is looked at before the name.
VisitEntry ==
  /\ Reading("directory")
  /\ LET entry == Head(rest) IN
     IF ~Counts(entry, Subject) THEN Skip
     ELSE IF Len(built) >= MaximumFrames THEN Refuse("limit_exceeded")
     ELSE IF \/ Number(entry) = NotNumeric
             \/ \E i \in DOMAIN built : Number(built[i]) = Number(entry)
          THEN Refuse("invalid_frame_file")
     ELSE Keep(entry)

\* Mutant: the frames stay in the order of the directory.
EndUnsorted ==
  /\ Ended("directory")
  /\ IF built = <<>> THEN Refuse("invalid_layout") ELSE Return(built)

EndEnumeration ==
  /\ Ended("directory")
  /\ IF built = <<>> THEN Refuse("invalid_layout") ELSE Return(InOrder(built))

\* Mutant: an equal time is let through.
ReadEqualTimes ==
  /\ Reading("timestamps")
  /\ IF Len(built) >= MaximumTimestamps THEN Refuse("limit_exceeded")
     ELSE IF Head(rest) = Malformed THEN Refuse("invalid_timestamp")
     ELSE IF built # <<>> /\ Nanos(Head(rest)) < Nanos(Last(built)) THEN Refuse("invalid_timestamp")
     ELSE Keep(Head(rest))

\* One line of a timestamp file.
ReadTimestamp ==
  /\ Reading("timestamps")
  /\ IF Len(built) >= MaximumTimestamps THEN Refuse("limit_exceeded")
     ELSE IF Head(rest) = Malformed THEN Refuse("invalid_timestamp")
     ELSE IF built # <<>> /\ Nanos(Head(rest)) <= Nanos(Last(built)) THEN Refuse("invalid_timestamp")
     ELSE Keep(Head(rest))

EndTimestamps ==
  Ended("timestamps") /\ IF built = <<>> THEN Refuse("invalid_timestamp") ELSE Return(built)

\* attachTimestamps: the frame of a rank gets the line of that rank.
Attach ==
  /\ Doing("attach")
  /\ LET frames == result[<<"directory", Subject>>]
         lines  == result[<<"timestamps", Subject>>] IN
     IF Len(frames) # Len(lines) THEN Refuse("invalid_layout")
     ELSE Return([i \in DOMAIN frames |-> [entry |-> frames[i], time |-> lines[i]]])

\* findFrame: the first frame not below the request, if it is the request.
Find ==
  /\ Doing("find")
  /\ LET timed == result[<<"attach", Subject>>]
         match == SelectInSeq(timed, LAMBDA t : Number(t.entry) >= request) IN
     IF match = 0 THEN Refuse("invalid_layout")
     ELSE IF Number(timed[match].entry) # request THEN Refuse("invalid_layout")
     ELSE Return(timed[match])

\* loadBgrImage, of the one image that was found; the run reports the signed
\* difference of the two times.
LoadPicture ==
  /\ Doing("picture")
  /\ LET image == result[<<"find", "image">>]
         lidar == result[<<"find", "lidar">>] IN
     IF Picture(image.entry) # "fine" THEN Refuse(Picture(image.entry))
     ELSE Return([signed_sync_delta |-> Nanos(Nanos(lidar.time) - Nanos(image.time))])

Next ==
  \/ Open \/ ReadCalibrationLine \/ EndCalibration \/ Assemble \/ CheckDrive
  \/ VisitEntry \/ EndEnumeration \/ ReadTimestamp \/ EndTimestamps
  \/ Attach \/ Find \/ LoadPicture

Spec == Init /\ [][Next]_vars

-----------------------------------------------------------------------------
(* Properties                                                              *)

\* Civil times for which no count of nanoseconds, and no difference of two of them,
\* leaves the width of an int64, as when all lie within 146 years of the epoch.
TimesAreNear ==
  LET Read(s) == UNION { ToSet(c) : c \in Contents(<<"timestamps", s>>) \ {None} }
      Times(s) == Read(s) \ {Malformed}
      Width == -Half .. Half - 1
  IN /\ \A s \in Streams : Times(s) \subseteq Width
     /\ \A t \in Times("image"), u \in Times("lidar") : u - t \in Width

Files(stream, d) == { e \in d : Counts(e, stream) }
Candidates(stream) == Files(stream, content[<<"directory", stream>>])
Lines(stream) == content[<<"timestamps", stream>>]
RankIn(stream, entry) == 1 + Cardinality({ e \in Candidates(stream) : Number(e) < Number(entry) })

\* The variables have their types: a finished directory is a sequence of files
\* of the stream's own extension, a finished timestamp file one of times
\* (enumerateNumericFrameFiles, loadKittiTimestamps).
TypeOK ==
  /\ at \in DOMAIN Script
  /\ \A s \in Streams :
       /\ result[<<"directory", s>>] # None =>
            result[<<"directory", s>>] \in Seq({ e \in Candidates(s) : Number(e) \in Nat })
       /\ result[<<"timestamps", s>>] # None => result[<<"timestamps", s>>] \in Seq(Int)
  /\ outcome \in Unparsable \cup
       {"loading", "loaded", "file_open", "invalid_layout", "invalid_frame_file",
        "limit_exceeded", "invalid_timestamp", "duplicate_key", "missing_key",
        "invalid_calibration"}

\* Whatever order a directory is listed in, and whatever gaps its numbers have,
\* a loaded run is about the file of each stream that has the number asked for
\* and about the timestamp line of that file's rank among the stream's files;
\* the delta it reports is between those two lines
\* (enumerateNumericFrameFiles, attachTimestamps, findFrame).
SelectionIsByRank ==
  outcome = "loaded" =>
    LET chosen == [s \in Streams |-> result[<<"find", s>>]] IN
    /\ \A s \in Streams :
         /\ chosen[s].entry \in Candidates(s) /\ Number(chosen[s].entry) = request
         /\ Len(Lines(s)) = Cardinality(Candidates(s))
         /\ chosen[s].time = Lines(s)[RankIn(s, chosen[s].entry)]
    /\ result[<<"picture", "image">>].signed_sync_delta
         = chosen["lidar"].time - chosen["image"].time

\* What is wrong with the data that a step reads, told from the data alone.
CalibrationDefects(file, c) ==
  LET Of(key) == { i \in DOMAIN c : c[i].key = key }
  IN { "missing_key" : k \in { k \in Required[file] : Of(k) = {} } }
     \cup { "duplicate_key" : k \in { k \in Required[file] : Cardinality(Of(k)) > 1 } }
     \cup ({ c[i].found : i \in { i \in DOMAIN c : c[i].key \in Required[file] } } \cap Unparsable)
DirectoryDefects(stream, d) ==
  LET files == Files(stream, d) IN
  (IF files = {} THEN {"invalid_layout"} ELSE {})
    \cup (IF Cardinality(files) > MaximumFrames THEN {"limit_exceeded"} ELSE {})
    \cup (IF \/ \E e \in files : Number(e) = NotNumeric
             \/ \E e, f \in files : e # f /\ Number(e) = Number(f)
          THEN {"invalid_frame_file"} ELSE {})
TimestampDefects(c) ==
  (IF Len(c) > MaximumTimestamps THEN {"limit_exceeded"} ELSE {})
    \cup (IF \/ c = <<>> \/ Malformed \in ToSet(c)
             \/ \E i, j \in DOMAIN c : i < j /\ c[i] # Malformed /\ c[j] # Malformed /\ c[j] <= c[i]
          THEN {"invalid_timestamp"} ELSE {})
FileDefects(s) ==
  CASE content[s] = None -> {IF s[1] = "directory" THEN "invalid_layout" ELSE "file_open"}
    [] content[s] # None /\ s[1] = "calibration" -> CalibrationDefects(s[2], content[s])
    [] content[s] # None /\ s[1] = "directory"   -> DirectoryDefects(s[2], content[s])
    [] content[s] # None /\ s[1] = "timestamps"  -> TimestampDefects(content[s])
Defects(s) ==
  CASE s[1] \in {"calibration", "directory", "timestamps"} -> FileDefects(s)
    [] s[1] = "assemble" ->
         { "invalid_calibration" : f \in { f \in {"velo", "camera"} :
             \E i \in DOMAIN content[<<"calibration", f>>] :
               /\ content[<<"calibration", f>>][i].key \in Required[f]
               /\ content[<<"calibration", f>>][i].found = "unfit" } }
    [] s[1] = "drive"  -> IF basename THEN {} ELSE {"invalid_layout"}
    [] s[1] = "attach" -> IF Len(Lines(s[2])) = Cardinality(Candidates(s[2]))
                          THEN {} ELSE {"invalid_layout"}
    [] s[1] = "find"   -> IF \E e \in Candidates(s[2]) : Number(e) = request
                          THEN {} ELSE {"invalid_layout"}
    [] s[1] = "picture" -> { Picture(e) : e \in { e \in Candidates("image") : Number(e) = request } }
                           \ {"fine"}

\* A step is left behind only when nothing is wrong with the data it read, and
\* a refusal names something that is wrong with the data of its own step:
\* nothing malformed, doubled, missing or out of order is passed over, and no
\* good data set is refused (every throw of the three loaders).
RefusalsTellTheTruth ==
  /\ \A i \in 1..at - 1 : Defects(Script[i]) = {}
  /\ outcome = "loaded" => Defects(Step) = {}
  /\ outcome \notin {"loading", "loaded"} => outcome \in Defects(Step)

\* The civil times of the lines a loaded run accepted increase along each
\* stream: no line of an earlier moment stands after one of a later moment
\* (loadKittiTimestamps compares the counts of nanoseconds).
AcceptedTimesIncrease ==
  \A s \in Streams :
    LET lines == result[<<"timestamps", s>>]
    IN lines # None => \A i, j \in DOMAIN lines : i < j => lines[i] < lines[j]

=============================================================================
