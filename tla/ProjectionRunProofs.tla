------------------------- MODULE ProjectionRunProofs -------------------------
(***************************************************************************)
(* Proofs about ProjectionRun, for every set of files, every transform and *)
(* matrix, any number of perturbations and any image.  The invariant says  *)
(* what the loops have done so far: which records of the file became       *)
(* points, what the views hold of the points projected so far, what was    *)
(* compared and what was drawn.                                            *)
(***************************************************************************)
EXTENDS ProjectionRun, FiniteSetTheorems, SequenceTheorems, TLAPS

FiniteRecords == (UNION { ToSet(f) : f \in Files }) \ {NonFinite}
Phases == {"decode", "project", "compare", "draw", "write", "done"}
Shown == { [source |-> k, at |-> h, depth |-> d] : k \in Nat, h \in Int \X Int \X Int, d \in Int }

TypeInv ==
  /\ file \in Files /\ file \in Seq(FiniteRecords \cup {NonFinite})
  /\ readable \in BOOLEAN /\ last \in {0, Panels}
  /\ phase \in Phases /\ view \in 0..last /\ next \in Nat \ {0}
  /\ points \in Seq(FiniteRecords)
  /\ counts \in [Views -> [Statuses -> Nat]]
  /\ visible \in [Views -> Seq(Shown)]
  /\ winner \in [Views -> [Raster -> Nat]]

\* The points that have a status in a view, among the first n; and the records that
\* have it among the first m of the file.
Having(v, s, n) == { k \in 1..n : Status(Moved(v, points[k])) = s }
Recorded(v, s, m) ==
  { i \in 1..m : file[i] # NonFinite /\ Status(Moved(v, file[i])) = s }

\* What has been read of the file, and that the points stand for its finite records.
Read == IF phase = "decode" THEN next - 1 ELSE Len(file)
Decoded ==
  /\ phase = "decode" => next - 1 <= Len(file) /\ view = 0 /\ (readable \/ next = 1)
  /\ phase \notin {"decode", "done"} => readable /\ points # <<>>
  /\ readable =>
       /\ points = <<>> <=> \A i \in 1..Read : file[i] = NonFinite
       /\ \A v \in Views, s \in Statuses :
            Cardinality(Having(v, s, Len(points))) = Cardinality(Recorded(v, s, Read))
       /\ \A v \in Views :
            Having(0, "visible", Len(points)) \cap Having(v, "visible", Len(points)) = {} <=>
            Recorded(0, "visible", Read) \cap Recorded(v, "visible", Read) = {}

\* A view that nothing was projected for.
Fresh(v) == visible[v] = <<>> /\ counts[v] = NoCounts

\* A view holds the visible ones of the first n points, in order, each with its tally.
Holds(v, n) ==
  /\ \A i \in 1..Len(visible[v]) :
       LET p == visible[v][i] c == Moved(v, points[p.source]) IN
       /\ p.source \in 1..n /\ Status(c) = "visible"
       /\ p.at = Homogeneous(c) /\ p.depth = Depth(c)
  /\ \A i, j \in 1..Len(visible[v]) : i < j => visible[v][i].source < visible[v][j].source
  /\ Having(v, "visible", n) \subseteq { visible[v][i].source : i \in 1..Len(visible[v]) }
  /\ \A s \in Statuses : counts[v][s] = Cardinality(Having(v, s, n))
  /\ counts[v]["visible"] = Len(visible[v])
  /\ Total(v) = n

Projected ==
  /\ phase = "project" => next - 1 <= Len(points)
  /\ phase = "compare" => next = 1
  /\ \A v \in 0..last :
       /\ phase = "decode" \/ (phase \in {"project", "compare"} /\ v > view) => Fresh(v)
       /\ phase = "project" /\ v = view => Holds(v, next - 1)
       /\ phase \in {"draw", "write"} \/ (phase = "project" /\ v < view)
          \/ (phase = "compare" /\ v <= view) => Holds(v, Len(points))

Meets(v) == Having(0, "visible", Len(points)) \cap Having(v, "visible", Len(points)) # {}

\* The panels before the current one were compared, and share a point.
Compared ==
  /\ metrics \in Seq(ToSet(metrics))
  /\ phase = "decode" => metrics = <<>>
  /\ phase = "project" => Len(metrics) = IF view = 0 THEN 0 ELSE view - 1
  /\ phase = "compare" => view > 0 /\ Len(metrics) = view - 1
  /\ phase \in {"draw", "write"} => Len(metrics) = last
  /\ phase # "done" => \A v \in 1..Len(metrics) : Meets(v)
  /\ \A v \in 1..Len(metrics) : metrics[v].common # 0

\* Of the first n points of a view, the nearest one owns the cell.
Nearest(v, c, n) ==
  LET hits == { i \in 1..n : Cell(visible[v][i]) = c }
      w == winner[v][c]
  IN IF hits = {} THEN w = 0
     ELSE /\ w \in hits
          /\ \A i \in hits \ {w} : \/ visible[v][w].depth < visible[v][i].depth
                                   \/ visible[v][w].depth = visible[v][i].depth /\ w < i

\* The overlay of the view being drawn shows the points drawn so far, later ones nothing;
Drawing ==
  /\ phase \in {"decode", "project", "compare"} => overlay = <<>>
  /\ phase = "draw" => /\ Len(overlay) = view /\ next - 1 <= Len(visible[view])
                       /\ \A c \in Raster : Nearest(view, c, next - 1)
  /\ phase = "write" => Len(overlay) = last + 1
  /\ phase # "done" => \A v \in Views : v > view \/ phase \notin {"draw", "write"} =>
                         \A c \in Raster : winner[v][c] = 0

\* a finished one is right, and so are its counters.
Overlays == [projected : Nat, rendered : Nat, occluded : Int]
Finished(v) ==
  /\ overlay[v + 1].projected = Len(visible[v])
  /\ overlay[v + 1].rendered <= overlay[v + 1].projected
  /\ overlay[v + 1].occluded = overlay[v + 1].projected - overlay[v + 1].rendered
  /\ \A c \in Raster : Nearest(v, c, Len(visible[v]))

Drawn == /\ overlay \in Seq(Overlays) /\ Len(overlay) <= last + 1
         /\ Drawing
         /\ \A v \in 0..(Len(overlay) - 1) : Finished(v)

\* The exit status is still open, or it says why the run ended.
Ended == (phase # "done" => exit = "running") /\ OutcomeTellsWhy

\* The percentiles of every panel are ranks of its displacements, and in order.
Ranked == \A v \in DOMAIN metrics : /\ IsPercentile(metrics[v].median, 50, v)
                                    /\ IsPercentile(metrics[v].p95, 95, v)
                                    /\ AtMost(metrics[v].median, metrics[v].p95)

IInv == /\ TypeInv /\ Decoded /\ Projected /\ Compared /\ OverlapIsConserved /\ Ranked
        /\ Drawn /\ Ended

\* Of what the writers refuse, all but the order of the two percentiles.
TalliesAccepted ==
  phase = "write" => /\ \A v \in 0..last : ~TallyRefused(v)
                     /\ \A v \in 1..last : metrics[v].common # 0

-----------------------------------------------------------------------------
(* Types                                                                   *)

\* What the camera makes of a finite record is a number, unless it is refused.
LEMMA Located ==
  ASSUME NEW v \in Views, NEW r \in FiniteRecords, Moved(v, r) # NonFinite
  PROVE  Depth(Moved(v, r)) \in Int /\ Homogeneous(Moved(v, r)) \in Int \X Int \X Int
BY CameraAssumption DEF FiniteRecords, Views

LEMMA TypesInitially == Init => TypeInv
<1> SUFFICES ASSUME Init PROVE TypeInv
  OBVIOUS
<1>1. file \in Seq(FiniteRecords \cup {NonFinite})
  <2>1. file \in Seq(ToSet(file)) /\ file \in Files
    BY FilesAssumption DEF Init
  <2>2. ToSet(file) \subseteq FiniteRecords \cup {NonFinite}
    BY <2>1 DEF FiniteRecords
  <2> QED BY <2>1, <2>2, SeqMonotonic
<1>2. counts \in [Views -> [Statuses -> Nat]]
  BY DEF Init, NoCounts
<1>3. visible \in [Views -> Seq(Shown)]
  BY EmptySeq DEF Init
<1>4. winner \in [Views -> [Raster -> Nat]]
  BY DEF Init
<1> QED BY <1>1, <1>2, <1>3, <1>4, PanelsAssumption DEF Init, TypeInv, Phases

LEMMA TypesPreserved == TypeInv /\ [Next]_vars => TypeInv'
<1> SUFFICES ASSUME TypeInv, [Next]_vars PROVE TypeInv'
  OBVIOUS
<1> USE DEF TypeInv
<1>1. CASE DecodeRecord
  <2>1. file[next] \in FiniteRecords \cup {NonFinite}
    BY <1>1, ElementOfSeq DEF DecodeRecord
  <2>2. points' \in Seq(FiniteRecords)
    <3>1. CASE file[next] = NonFinite
      BY <1>1, <3>1 DEF DecodeRecord
    <3>2. CASE file[next] # NonFinite
      <4>1. file[next] \in FiniteRecords /\ points' = Append(points, file[next])
        BY <1>1, <2>1, <3>2 DEF DecodeRecord
      <4> QED BY <4>1, AppendProperties
    <3> QED BY <3>1, <3>2
  <2> QED BY <1>1, <2>2 DEF DecodeRecord
<1>2. CASE Decode
  BY <1>2 DEF Decode, Leave, Phases
<1>3. CASE ProjectPoint
  <2> DEFINE c == Moved(view, points[next])
  <2>1. points[next] \in FiniteRecords /\ view \in Views
    BY <1>3, ElementOfSeq, PanelsAssumption DEF ProjectPoint, Views
  <2>2. Status(c) \in Statuses
    BY DEF Status, Statuses
  <2>3. counts' \in [Views -> [Statuses -> Nat]]
    BY <1>3, <2>1, <2>2 DEF ProjectPoint
  <2>4. visible' \in [Views -> Seq(Shown)]
    <3>1. CASE Status(c) # "visible"
      BY <1>3, <3>1 DEF ProjectPoint
    <3>2. CASE Status(c) = "visible"
      <4> DEFINE p == [source |-> next, at |-> Homogeneous(c), depth |-> Depth(c)]
      <4>1. p \in Shown
        BY <2>1, <3>2, Located DEF Status, Shown
      <4>2. visible' = [visible EXCEPT ![view] = Append(visible[view], p)]
        BY <1>3, <3>2 DEF ProjectPoint
      <4>3. Append(visible[view], p) \in Seq(Shown)
        BY <2>1, <4>1, AppendProperties
      <4> QED BY <4>2, <4>3, <2>1
    <3> QED BY <3>1, <3>2
  <2> QED BY <1>3, <2>3, <2>4 DEF ProjectPoint
<1>4. CASE ProjectEnd
  BY <1>4, PanelsAssumption DEF ProjectEnd, Phases
<1>5. CASE Compare
  BY <1>5, PanelsAssumption DEF Compare, Leave, Phases
<1>6. CASE DrawPoint
  <2>1. winner' \in [Views -> [Raster -> Nat]]
    <3> DEFINE c == Cell(visible[view][next])
    <3>1. view \in Views
      BY PanelsAssumption DEF Views
    <3>2. winner' \in {winner, [winner EXCEPT ![view][c] = next]}
      BY <1>6 DEF DrawPoint
    <3>3. [winner[view] EXCEPT ![c] = next] \in [Raster -> Nat]
      BY <3>1
    <3> QED BY <3>1, <3>2, <3>3
  <2> QED BY <1>6, <2>1 DEF DrawPoint, Leave, Phases
<1>7. CASE DrawEnd
  BY <1>7, PanelsAssumption DEF DrawEnd, Phases
<1>8. CASE Write \/ WriteFails
  BY <1>8 DEF Write, WriteFails, Leave, Phases
<1>9. CASE UNCHANGED vars
  BY <1>9 DEF vars
<1> QED BY <1>1, <1>2, <1>3, <1>4, <1>5, <1>6, <1>7, <1>8, <1>9 DEF Next

-----------------------------------------------------------------------------
(* Decoding                                                                *)

LEMMA HavingIsFinite ==
  ASSUME NEW v, NEW s, NEW n \in Nat
  PROVE  IsFiniteSet(Having(v, s, n)) /\ Cardinality(Having(v, s, n)) \in Nat
<1>1. IsFiniteSet(1..n)
  BY FS_Interval
<1>2. Having(v, s, n) \subseteq 1..n
  BY DEF Having
<1>3. IsFiniteSet(Having(v, s, n))
  BY <1>1, <1>2, FS_Subset
<1> QED BY <1>3, FS_CardinalityType

LEMMA RecordedIsFinite ==
  ASSUME NEW v, NEW s, NEW m \in Nat
  PROVE  IsFiniteSet(Recorded(v, s, m)) /\ Cardinality(Recorded(v, s, m)) \in Nat
<1>1. IsFiniteSet(1..m)
  BY FS_Interval
<1>2. Recorded(v, s, m) \subseteq 1..m
  BY DEF Recorded
<1>3. IsFiniteSet(Recorded(v, s, m))
  BY <1>1, <1>2, FS_Subset
<1> QED BY <1>3, FS_CardinalityType

\* A point that is appended joins those of its status, and no others.
LEMMA PointJoins ==
  ASSUME NEW v, NEW s, points \in Seq(FiniteRecords), NEW r \in FiniteRecords,
         points' = Append(points, r)
  PROVE  LET n == Len(points) IN
         Having(v, s, Len(points))' =
           Having(v, s, n) \cup (IF Status(Moved(v, r)) = s THEN {n + 1} ELSE {})
<1> DEFINE n == Len(points)
<1>1. n \in Nat /\ \A k \in 1..n : points'[k] = points[k]
  BY AppendProperties, LenProperties
<1>2. points'[n + 1] = r /\ Len(points') = n + 1
  BY AppendProperties
<1>3. 1..(n + 1) = 1..n \cup {n + 1}
  BY <1>1
<1>4. Having(v, s, Len(points))' = { k \in 1..(n + 1) : Status(Moved(v, points'[k])) = s }
  BY <1>2 DEF Having
<1>5. CASE Status(Moved(v, r)) = s
  BY <1>1, <1>2, <1>3, <1>4, <1>5 DEF Having
<1>6. CASE Status(Moved(v, r)) # s
  BY <1>1, <1>2, <1>3, <1>4, <1>6 DEF Having
<1> QED BY <1>5, <1>6

LEMMA RecordJoins ==
  ASSUME NEW v, NEW s, Read \in Nat, Read' = Read + 1, file' = file
  PROVE  LET m == Read IN
         Recorded(v, s, Read)' = Recorded(v, s, m) \cup
           (IF file[m + 1] # NonFinite /\ Status(Moved(v, file[m + 1])) = s THEN {m + 1} ELSE {})
<1> DEFINE m == Read
<1>1. 1..(m + 1) = 1..m \cup {m + 1}
  OBVIOUS
<1>2. Recorded(v, s, Read)' = { i \in 1..(m + 1) : file[i] # NonFinite /\ Status(Moved(v, file[i])) = s }
  BY DEF Recorded
<1> HIDE DEF m
<1>3. CASE file[m + 1] # NonFinite /\ Status(Moved(v, file[m + 1])) = s
  BY <1>1, <1>2, <1>3 DEF Recorded, m
<1>4. CASE ~(file[m + 1] # NonFinite /\ Status(Moved(v, file[m + 1])) = s)
  BY <1>1, <1>2, <1>4 DEF Recorded, m
<1> QED BY <1>3, <1>4

LEMMA RecordedStays ==
  ASSUME NEW v, NEW s, NEW m, file' = file
  PROVE  Recorded(v, s, m)' = Recorded(v, s, m)
BY DEF Recorded

LEMMA HavingStays ==
  ASSUME NEW v, NEW s, NEW n, points' = points
  PROVE  Having(v, s, n)' = Having(v, s, n)
BY DEF Having

LEMMA DecodedInitially == Init => Decoded
<1> SUFFICES ASSUME Init PROVE Decoded
  OBVIOUS
<1>1. Read = 0 /\ points = <<>> /\ Len(points) = 0
  BY DEF Init, Read
<1>2. \A v, s : Having(v, s, 0) = {} /\ Recorded(v, s, 0) = {}
  BY DEF Having, Recorded
<1>3. Len(file) \in Nat
  BY TypesInitially DEF TypeInv
<1>4. \A v, s : Having(v, s, Len(points)) = {} /\ Recorded(v, s, Read) = {}
  BY <1>1, <1>2
<1>5. \A i \in 1..Read : file[i] = NonFinite
  BY <1>1
<1>6. phase = "decode" => next - 1 <= Len(file) /\ view = 0 /\ (readable \/ next = 1)
  BY <1>3 DEF Init
<1>7. phase = "decode"
  BY DEF Init
<1> QED BY <1>1, <1>4, <1>5, <1>6, <1>7 DEF Decoded

\* What Decoded says of the points stays while nothing is read.
LEMMA DecodedStays ==
  ASSUME Decoded, UNCHANGED <<file, readable, points>>, Read' = Read,
         phase' = "decode" => next' - 1 <= Len(file) /\ view' = 0 /\ (readable \/ next' = 1),
         phase' \notin {"decode", "done"} => readable /\ points # <<>>
  PROVE  Decoded'
<1>1. \A v, s : /\ Having(v, s, Len(points))' = Having(v, s, Len(points))
                /\ Recorded(v, s, Read)' = Recorded(v, s, Read)
  BY HavingStays, RecordedStays
<1>2. \A i \in 1..Read : file'[i] = file[i]
  OBVIOUS
<1> QED BY <1>1, <1>2 DEF Decoded

\* The clauses of Decoded for a file that is being read.
LEMMA DecodedWhileReading ==
  ASSUME phase' = "decode", readable', next' - 1 <= Len(file'), view' = 0,
         points' = <<>> <=> \A i \in 1..Read' : file'[i] = NonFinite,
         \A v \in Views, s \in Statuses :
           Cardinality(Having(v, s, Len(points))') = Cardinality(Recorded(v, s, Read)'),
         \A v \in Views :
           Having(0, "visible", Len(points))' \cap Having(v, "visible", Len(points))' = {} <=>
           Recorded(0, "visible", Read)' \cap Recorded(v, "visible", Read)' = {}
  PROVE  Decoded'
BY DEF Decoded

LEMMA DecodeRecordDecodes == TypeInv /\ Decoded /\ DecodeRecord => Decoded'
<1> SUFFICES ASSUME TypeInv, Decoded, DecodeRecord PROVE Decoded'
  OBVIOUS
<1> DEFINE m == next - 1
           n == Len(points)
           r == file[next]
<1>1. /\ m \in Nat /\ next = m + 1 /\ m + 1 \in 1..Len(file) /\ n \in Nat /\ Len(file) \in Nat
      /\ readable /\ readable' = readable /\ file' = file /\ view' = view /\ view = 0
      /\ phase = "decode" /\ phase' = "decode" /\ next' = m + 2
  BY DEF TypeInv, Decoded, DecodeRecord
<1>2. Read = m /\ Read' = m + 1
  BY <1>1 DEF Read
<1>3. /\ points = <<>> <=> \A i \in 1..m : file[i] = NonFinite
      /\ \A v \in Views, s \in Statuses :
           Cardinality(Having(v, s, n)) = Cardinality(Recorded(v, s, m))
      /\ \A v \in Views :
           Having(0, "visible", n) \cap Having(v, "visible", n) = {} <=>
           Recorded(0, "visible", m) \cap Recorded(v, "visible", m) = {}
  BY <1>1, <1>2 DEF Decoded
<1>4. CASE r = NonFinite
  <2>1. points' = points
    BY <1>4 DEF DecodeRecord
  <2>2. \A v, s : Having(v, s, Len(points))' = Having(v, s, n)
    BY <2>1, HavingStays
  <2>4. \A v, s : Recorded(v, s, Read)' = Recorded(v, s, m)
    <3> SUFFICES ASSUME NEW v, NEW s PROVE Recorded(v, s, Read)' = Recorded(v, s, m)
      OBVIOUS
    <3>1. /\ Read \in Nat /\ Read' = Read + 1 /\ file' = file
          /\ file[Read + 1] = NonFinite /\ Read = m
      BY <1>1, <1>2, <1>4
    <3>2. Recorded(v, s, Read)' = Recorded(v, s, Read) \cup {}
      BY <3>1, RecordJoins
    <3> QED BY <3>1, <3>2
  <2>5. points' = <<>> <=> \A i \in 1..(m + 1) : file'[i] = NonFinite
    BY <1>1, <1>3, <1>4, <2>1
  <2>6. \A v \in Views, s \in Statuses :
          Cardinality(Having(v, s, Len(points))') = Cardinality(Recorded(v, s, Read)')
    BY <1>3, <2>1, <2>2, <2>4
  <2>7. \A v \in Views :
          Having(0, "visible", Len(points))' \cap Having(v, "visible", Len(points))' = {} <=>
          Recorded(0, "visible", Read)' \cap Recorded(v, "visible", Read)' = {}
    BY <1>3, <2>1, <2>2, <2>4
  <2>8. /\ phase' = "decode" /\ readable' /\ next' - 1 <= Len(file') /\ view' = 0
        /\ points' = <<>> <=> \A i \in 1..Read' : file'[i] = NonFinite
    BY <1>1, <1>2, <2>5
  <2> QED BY <2>6, <2>7, <2>8, DecodedWhileReading
<1>5. CASE r # NonFinite
  <2>1. r \in FiniteRecords /\ points' = Append(points, r) /\ points \in Seq(FiniteRecords)
    <3>1. r \in FiniteRecords \cup {NonFinite}
      BY <1>1, ElementOfSeq DEF TypeInv
    <3> QED BY <3>1, <1>5 DEF DecodeRecord, TypeInv
  <2> DEFINE Hit(v, s) == Status(Moved(v, r)) = s
  <2>2. \A v, s : Having(v, s, Len(points))' = Having(v, s, n) \cup (IF Hit(v, s) THEN {n + 1} ELSE {})
    BY <2>1, PointJoins
  <2>3. \A v, s : Recorded(v, s, Read)' = Recorded(v, s, m) \cup (IF Hit(v, s) THEN {m + 1} ELSE {})
    BY <1>1, <1>2, <1>5, RecordJoins
  <2> HIDE DEF Hit
  <2>4. \A v, s : n + 1 \notin Having(v, s, n) /\ m + 1 \notin Recorded(v, s, m)
    BY <1>1 DEF Having, Recorded
  <2>5. ASSUME NEW v \in Views, NEW s \in Statuses
        PROVE  Cardinality(Having(v, s, Len(points))') = Cardinality(Recorded(v, s, Read)')
    <3>1. CASE Hit(v, s)
      <4>1. Cardinality(Having(v, s, n) \cup {n + 1}) = Cardinality(Having(v, s, n)) + 1
        BY <1>1, <2>4, HavingIsFinite, FS_AddElement
      <4>2. Cardinality(Recorded(v, s, m) \cup {m + 1}) = Cardinality(Recorded(v, s, m)) + 1
        BY <1>1, <2>4, RecordedIsFinite, FS_AddElement
      <4> QED BY <1>3, <2>2, <2>3, <3>1, <4>1, <4>2
    <3>2. CASE ~Hit(v, s)
      <4>1. Having(v, s, Len(points))' = Having(v, s, n) /\ Recorded(v, s, Read)' = Recorded(v, s, m)
        BY <2>2, <2>3, <3>2
      <4> QED BY <1>3, <4>1
    <3> QED BY <3>1, <3>2
  <2>6. ASSUME NEW v \in Views
        PROVE  Having(0, "visible", Len(points))' \cap Having(v, "visible", Len(points))' = {} <=>
               Recorded(0, "visible", Read)' \cap Recorded(v, "visible", Read)' = {}
    <3>1. CASE Hit(0, "visible") /\ Hit(v, "visible")
      BY <2>2, <2>3, <3>1
    <3>2. CASE ~(Hit(0, "visible") /\ Hit(v, "visible"))
      <4>1. Having(0, "visible", Len(points))' \cap Having(v, "visible", Len(points))'
              = Having(0, "visible", n) \cap Having(v, "visible", n)
        BY <2>2, <2>4, <3>2
      <4>2. Recorded(0, "visible", Read)' \cap Recorded(v, "visible", Read)'
              = Recorded(0, "visible", m) \cap Recorded(v, "visible", m)
        BY <2>3, <2>4, <3>2
      <4> QED BY <1>3, <4>1, <4>2
    <3> QED BY <3>1, <3>2
  <2>7. points' # <<>> /\ ~(\A i \in 1..(m + 1) : file'[i] = NonFinite)
    BY <1>1, <1>5, <2>1, AppendProperties
  <2>8. /\ phase' = "decode" /\ readable' /\ next' - 1 <= Len(file') /\ view' = 0
        /\ points' = <<>> <=> \A i \in 1..Read' : file'[i] = NonFinite
    BY <1>1, <1>2, <2>7
  <2> QED BY <2>5, <2>6, <2>8, DecodedWhileReading
<1> QED BY <1>4, <1>5

LEMMA DecodedPreserved == TypeInv /\ Decoded /\ [Next]_vars => Decoded'
<1> SUFFICES ASSUME TypeInv, Decoded, [Next]_vars PROVE Decoded'
  OBVIOUS
<1>1. CASE DecodeRecord
  BY <1>1, DecodeRecordDecodes
<1>2. CASE Decode
  <2>1. readable => next = Len(file) + 1 /\ Len(file) \in Nat
    BY <1>2 DEF Decode, Decoded, TypeInv
  <2>2. CASE readable
    <3>1. Read' = Read
      BY <1>2, <2>1, <2>2 DEF Decode, Leave, Read
    <3> QED BY <1>2, <2>2, <3>1, DecodedStays DEF Decode, Leave
  <2>3. CASE ~readable
    BY <1>2, <2>3 DEF Decode, Leave, Decoded
  <2> QED BY <2>2, <2>3
<1>3. CASE ProjectPoint
  <2>1. Read' = Read
    BY <1>3 DEF ProjectPoint, Read
  <2> QED BY <1>3, <2>1, DecodedStays DEF ProjectPoint, Decoded
<1>4. CASE ProjectEnd
  <2>1. Read' = Read
    BY <1>4 DEF ProjectEnd, Read
  <2> QED BY <1>4, <2>1, DecodedStays DEF ProjectEnd, Decoded
<1>5. CASE Compare
  <2>1. Read' = Read
    BY <1>5 DEF Compare, Leave, Read
  <2> QED BY <1>5, <2>1, DecodedStays DEF Compare, Leave, Decoded
<1>6. CASE DrawPoint
  <2>1. Read' = Read
    BY <1>6 DEF DrawPoint, Leave, Read
  <2> QED BY <1>6, <2>1, DecodedStays DEF DrawPoint, Leave, Decoded
<1>7. CASE DrawEnd
  <2>1. Read' = Read
    BY <1>7 DEF DrawEnd, Read
  <2> QED BY <1>7, <2>1, DecodedStays DEF DrawEnd, Decoded
<1>8. CASE Write \/ WriteFails
  <2>1. Read' = Read
    BY <1>8 DEF Write, WriteFails, Leave, Read
  <2> QED BY <1>8, <2>1, DecodedStays DEF Write, WriteFails, Leave, Decoded
<1>9. CASE UNCHANGED vars
  <2>1. Read' = Read
    BY <1>9 DEF vars, Read
  <2> QED BY <1>9, <2>1, DecodedStays DEF vars, Decoded
<1> QED BY <1>1, <1>2, <1>3, <1>4, <1>5, <1>6, <1>7, <1>8, <1>9 DEF Next

-----------------------------------------------------------------------------
(* Projection                                                              *)

LEMMA FreshHolds ==
  ASSUME NEW v \in Views, Fresh(v)
  PROVE  Holds(v, 0)
<1>1. \A s : Having(v, s, 0) = {}
  BY DEF Having
<1>2. \A s \in Statuses : counts[v][s] = 0
  BY DEF Fresh, NoCounts
<1>3. Len(visible[v]) = 0
  BY DEF Fresh
<1>4. Total(v) = 0
  BY <1>2 DEF Total, Statuses
<1>5. \A s \in Statuses : counts[v][s] = Cardinality(Having(v, s, 0))
  BY <1>1, <1>2, FS_EmptySet
<1>6. Having(v, "visible", 0) \subseteq { visible[v][i].source : i \in 1..Len(visible[v]) }
  BY <1>1
<1>7. counts[v]["visible"] = 0
  BY <1>2 DEF Statuses
<1> QED BY <1>3, <1>4, <1>5, <1>6, <1>7 DEF Holds

LEMMA HoldsStays ==
  ASSUME NEW v, NEW n, points' = points, visible'[v] = visible[v], counts'[v] = counts[v]
  PROVE  Holds(v, n)' <=> Holds(v, n)
<1>1. \A s : Having(v, s, n)' = Having(v, s, n)
  BY HavingStays
<1>2. Total(v)' = Total(v)
  BY DEF Total
<1> QED BY <1>1, <1>2 DEF Holds

LEMMA ProjectedInitially == Init => Projected
BY PanelsAssumption DEF Init, Projected, Fresh, Views

\* One turn of the loop: the next point falls into exactly one bucket, and if it is
\* visible it is the last of the visible points.
LEMMA PointIsHeld ==
  ASSUME TypeInv, Projected, ProjectPoint
  PROVE  Holds(view, next - 1)'
<1> DEFINE n == next - 1
           c == Moved(view, points[next])
           s0 == Status(c)
           V == visible[view]
           W == visible'[view]
           p == [source |-> next, at |-> Homogeneous(c), depth |-> Depth(c)]
<1>1. /\ n \in Nat /\ next = n + 1 /\ next \in 1..Len(points) /\ view \in Views
      /\ points' = points /\ view' = view /\ next' = next + 1
      /\ V \in Seq(Shown) /\ Len(V) \in Nat /\ counts[view] \in [Statuses -> Nat]
      /\ Holds(view, n)
  <2>1. next \in Nat \ {0} /\ view \in Views /\ view \in 0..last /\ Len(points) \in Nat
    BY PanelsAssumption DEF TypeInv, ProjectPoint, Views
  <2>2. phase = "project" /\ next <= Len(points) /\ points' = points /\ view' = view
        /\ next' = next + 1
    BY DEF ProjectPoint
  <2>3. V \in Seq(Shown) /\ Len(V) \in Nat /\ counts[view] \in [Statuses -> Nat]
    BY <2>1 DEF TypeInv
  <2>4. Holds(view, n)
    BY <2>1, <2>2 DEF Projected
  <2> QED BY <2>1, <2>2, <2>3, <2>4
<1>2. s0 \in Statuses
  BY DEF Status, Statuses
<1>3. counts'[view] = [counts[view] EXCEPT ![s0] = @ + 1]
  BY <1>1 DEF ProjectPoint, TypeInv
<1>4. \A s : /\ n + 1 \notin Having(view, s, n)
             /\ Having(view, s, n + 1) = Having(view, s, n) \cup (IF s = s0 THEN {n + 1} ELSE {})
  <2>1. 1..(n + 1) = 1..n \cup {n + 1}
    BY <1>1
  <2>2. ASSUME NEW s, s = s0
        PROVE  Having(view, s, n + 1) = Having(view, s, n) \cup {n + 1}
    BY <1>1, <2>1, <2>2 DEF Having
  <2>3. ASSUME NEW s, s # s0
        PROVE  Having(view, s, n + 1) = Having(view, s, n)
    BY <1>1, <2>1, <2>3 DEF Having
  <2>4. \A s : n + 1 \notin Having(view, s, n)
    BY <1>1 DEF Having
  <2> QED BY <2>2, <2>3, <2>4
<1>5. \A s \in Statuses : counts'[view][s] = Cardinality(Having(view, s, n + 1))
  <2>1. \A s \in Statuses : counts[view][s] = Cardinality(Having(view, s, n))
    BY <1>1 DEF Holds
  <2>2. Cardinality(Having(view, s0, n) \cup {n + 1}) = Cardinality(Having(view, s0, n)) + 1
    BY <1>1, <1>4, HavingIsFinite, FS_AddElement
  <2>3. ASSUME NEW s \in Statuses
        PROVE  counts'[view][s] = Cardinality(Having(view, s, n + 1))
    <3>1. CASE s = s0
      BY <1>1, <1>2, <1>3, <1>4, <2>1, <2>2, <3>1
    <3>2. CASE s # s0
      <4>1. Having(view, s, n + 1) = Having(view, s, n)
        BY <1>4, <3>2
      <4> QED BY <1>1, <1>3, <2>1, <3>2, <4>1
    <3> QED BY <3>1, <3>2
  <2> QED BY <2>3
<1>6. counts'[view]["visible"] + counts'[view]["non_finite_input"]
        + counts'[view]["behind_or_too_near"] + counts'[view]["non_positive_homogeneous_depth"]
        + counts'[view]["outside_image"] = n + 1
  <2>1. Total(view) = n
    BY <1>1 DEF Holds
  <2>2. \A s \in Statuses : /\ counts[view][s] \in Nat
          /\ counts'[view][s] = IF s = s0 THEN counts[view][s] + 1 ELSE counts[view][s]
    BY <1>1, <1>3
  <2> HIDE DEF s0
  <2> QED BY <1>2, <2>1, <2>2 DEF Total, Statuses
<1>7. /\ \A i \in 1..Len(V) :
           LET q == V[i] IN
           /\ q.source \in 1..n /\ Status(Moved(view, points[q.source])) = "visible"
           /\ q.at = Homogeneous(Moved(view, points[q.source]))
           /\ q.depth = Depth(Moved(view, points[q.source]))
      /\ \A i, j \in 1..Len(V) : i < j => V[i].source < V[j].source
      /\ Having(view, "visible", n) \subseteq { V[i].source : i \in 1..Len(V) }
      /\ counts[view]["visible"] = Len(V)
  BY <1>1 DEF Holds
\* It is enough to show what Holds says after the step.
<1>8. ASSUME \A i \in 1..Len(W) :
               LET q == W[i] IN
               /\ q.source \in 1..(n + 1) /\ Status(Moved(view, points[q.source])) = "visible"
               /\ q.at = Homogeneous(Moved(view, points[q.source]))
               /\ q.depth = Depth(Moved(view, points[q.source])),
             \A i, j \in 1..Len(W) : i < j => W[i].source < W[j].source,
             Having(view, "visible", n + 1) \subseteq { W[i].source : i \in 1..Len(W) },
             counts'[view]["visible"] = Len(W)
      PROVE  Holds(view, next - 1)'
  <2>1. next' - 1 = n + 1
    BY <1>1
  <2>2. \A s : Having(view, s, next - 1)' = Having(view, s, n + 1)
    BY <1>1, <2>1 DEF Having
  <2>3. Total(view)' = n + 1
    BY <1>1, <1>6 DEF Total
  <2>4. \A s \in Statuses : (counts[view][s])' = Cardinality(Having(view, s, next - 1)')
    BY <1>1, <1>5, <2>2
  <2>5. Having(view, "visible", next - 1)' \subseteq { W[i].source : i \in 1..Len(W) }
    BY <1>8, <2>2
  <2>6. \A i \in 1..Len(visible'[view]) :
          LET q == visible'[view][i] IN
          /\ q.source \in 1..(next' - 1) /\ Status(Moved(view, points'[q.source])) = "visible"
          /\ q.at = Homogeneous(Moved(view, points'[q.source]))
          /\ q.depth = Depth(Moved(view, points'[q.source]))
    BY <1>1, <1>8, <2>1
  <2>7. \A i, j \in 1..Len(visible'[view]) :
          i < j => visible'[view][i].source < visible'[view][j].source
    BY <1>8
  <2>8. view' = view /\ counts'[view]["visible"] = Len(visible'[view])
    BY <1>1, <1>8
  <2>9. Total(view)' = next' - 1
    BY <2>1, <2>3
  <2> QED BY <2>4, <2>5, <2>6, <2>7, <2>8, <2>9 DEF Holds
<1> HIDE DEF V, W
<1>9. CASE s0 # "visible"
  <2>1. W = V
    BY <1>1, <1>9 DEF ProjectPoint, V, W
  <2>2. Having(view, "visible", n + 1) = Having(view, "visible", n)
    BY <1>4, <1>9
  <2>3. counts'[view]["visible"] = Len(W)
    BY <1>1, <1>3, <1>7, <1>9, <2>1 DEF Statuses
  <2>4. \A i \in 1..Len(W) : W[i].source \in 1..(n + 1)
    BY <1>1, <1>7, <2>1
  <2> QED BY <1>7, <1>8, <2>1, <2>2, <2>3, <2>4
<1>10. CASE s0 = "visible"
  <2>1. p \in Shown
    <3>1. points[next] \in FiniteRecords
      BY <1>1, ElementOfSeq DEF TypeInv
    <3> QED BY <1>1, <1>10, <3>1, Located DEF Status, Shown
  <2>2. W = Append(V, p)
    BY <1>1, <1>10 DEF ProjectPoint, TypeInv, V, W
  <2>3. /\ Len(W) = Len(V) + 1 /\ W[Len(V) + 1] = p
        /\ \A i \in 1..Len(V) : W[i] = V[i]
    BY <1>1, <2>1, <2>2, AppendProperties
  <2>4. 1..Len(W) = 1..Len(V) \cup {Len(V) + 1}
    BY <1>1, <2>3
  <2>5. \A i \in 1..Len(W) : LET q == W[i] IN
          /\ q.source \in 1..(n + 1) /\ Status(Moved(view, points[q.source])) = "visible"
          /\ q.at = Homogeneous(Moved(view, points[q.source]))
          /\ q.depth = Depth(Moved(view, points[q.source]))
    <3>1. ASSUME NEW i \in 1..Len(V)
          PROVE  LET q == W[i] IN
          /\ q.source \in 1..(n + 1) /\ Status(Moved(view, points[q.source])) = "visible"
          /\ q.at = Homogeneous(Moved(view, points[q.source]))
          /\ q.depth = Depth(Moved(view, points[q.source]))
      BY <1>1, <1>7, <2>3
    <3>2. LET q == p IN
          /\ q.source \in 1..(n + 1) /\ Status(Moved(view, points[q.source])) = "visible"
          /\ q.at = Homogeneous(Moved(view, points[q.source]))
          /\ q.depth = Depth(Moved(view, points[q.source]))
      BY <1>1, <1>10
    <3> QED BY <2>3, <2>4, <3>1, <3>2
  <2>9. p.source = n + 1 /\ n \in Nat /\ Len(V) \in Nat
    BY <1>1
  <2> HIDE DEF p, n
  <2>6. \A i, j \in 1..Len(W) : i < j => W[i].source < W[j].source
    <3>2. \A i \in 1..Len(V) : V[i].source \in 1..n
      BY <1>7
    <3>3. \A i \in 1..Len(V) : V[i].source < p.source
      BY <2>9, <3>2
    <3>4. \A i, j \in 1..Len(V) : i < j => V[i].source < V[j].source
      BY <1>7
    <3>5. ASSUME NEW i \in 1..Len(W), NEW j \in 1..Len(W), i < j
          PROVE  W[i].source < W[j].source
      <4>1. i \in 1..Len(V) /\ j \in 1..(Len(V) + 1) /\ W[i] = V[i]
        BY <2>3, <2>9, <3>5
      <4>2. CASE j \in 1..Len(V)
        BY <2>3, <3>4, <3>5, <4>1, <4>2
      <4>3. CASE j = Len(V) + 1
        BY <2>3, <3>3, <4>1, <4>3
      <4> QED BY <2>9, <4>1, <4>2, <4>3
    <3> QED BY <3>5
  <2>7. Having(view, "visible", n + 1) \subseteq { W[i].source : i \in 1..Len(W) }
    <3>3. Having(view, "visible", n + 1) = Having(view, "visible", n) \cup {n + 1}
      BY <1>4, <1>10
    <3> QED BY <1>7, <2>3, <2>4, <2>9, <3>3
  <2>8. counts'[view]["visible"] = Len(W)
    BY <1>1, <1>3, <1>7, <1>10, <2>3, <2>9 DEF Statuses
  <2> QED BY <1>8, <2>5, <2>6, <2>7, <2>8
<1> QED BY <1>9, <1>10

\* The views are as before where the points and the loop's place in them are.
LEMMA ProjectedStays ==
  ASSUME Projected, UNCHANGED <<points, visible, counts, last>>,
         \/ UNCHANGED <<phase, view, next>>
         \/ phase' = "done"
         \/ phase \in {"draw", "write"} /\ phase' \in {"draw", "write"}
  PROVE  Projected'
<1>1. \A v \in 0..last : /\ Fresh(v)' <=> Fresh(v)
                         /\ Holds(v, Len(points))' <=> Holds(v, Len(points))
  BY HoldsStays DEF Fresh
<1>2. CASE UNCHANGED <<phase, view, next>>
  <2>1. \A v \in 0..last : Holds(v, next - 1)' <=> Holds(v, next - 1)
    BY <1>2, HoldsStays
  <2> QED BY <1>1, <1>2, <2>1 DEF Projected
<1>3. CASE phase' = "done"
  BY <1>3 DEF Projected
<1>4. CASE phase \in {"draw", "write"} /\ phase' \in {"draw", "write"}
  BY <1>1, <1>4 DEF Projected
<1> QED BY <1>2, <1>3, <1>4

LEMMA ProjectedPreserved == TypeInv /\ Decoded /\ Projected /\ [Next]_vars => Projected'
<1> SUFFICES ASSUME TypeInv, Decoded, Projected, [Next]_vars PROVE Projected'
  OBVIOUS
<1>0. /\ view \in 0..last /\ last \in Nat /\ 0..last \subseteq Views
      /\ Len(points) \in Nat /\ next \in Nat \ {0}
  BY PanelsAssumption DEF TypeInv, Views
<1>1. CASE DecodeRecord
  <2>1. \A v \in 0..last : Fresh(v)' <=> Fresh(v)
    BY <1>1 DEF DecodeRecord, Fresh
  <2> QED BY <1>1, <2>1 DEF DecodeRecord, Projected
<1>2. CASE Decode
  <2>1. CASE phase' = "done"
    BY <2>1 DEF Projected
  <2>2. CASE phase' # "done"
    <3>1. /\ phase = "decode" /\ phase' = "project" /\ next' = 1 /\ view = 0
          /\ UNCHANGED <<points, visible, counts, last, view>>
      BY <1>2, <2>2 DEF Decode, Leave, Decoded
    <3>2. \A v \in 0..last : Fresh(v) /\ Fresh(v)'
      BY <3>1 DEF Projected, Fresh
    <3>3. Holds(0, 0)
      BY <1>0, <3>2, FreshHolds
    <3>4. Holds(0, 0)'
      BY <3>1, <3>3, HoldsStays
    <3> QED BY <1>0, <3>1, <3>2, <3>4 DEF Projected
  <2> QED BY <2>1, <2>2
<1>3. CASE ProjectPoint
  <2>1. /\ phase = "project" /\ phase' = "project" /\ next <= Len(points) /\ next' = next + 1
        /\ UNCHANGED <<points, view, last>>
        /\ \A v \in 0..last : v # view => visible'[v] = visible[v] /\ counts'[v] = counts[v]
    BY <1>3 DEF ProjectPoint, TypeInv
  <2>2. Holds(view, next - 1)'
    BY <1>3, PointIsHeld
  <2>3. \A v \in 0..last : v # view => (Fresh(v)' <=> Fresh(v))
    BY <2>1 DEF Fresh
  <2>4. \A v \in 0..last : v # view => (Holds(v, Len(points))' <=> Holds(v, Len(points)))
    BY <2>1, HoldsStays
  <2> QED BY <1>0, <2>1, <2>2, <2>3, <2>4 DEF Projected
<1>4. CASE ProjectEnd
  <2>1. /\ phase = "project" /\ next - 1 = Len(points) /\ next' = 1
        /\ UNCHANGED <<points, visible, counts, last>>
    BY <1>0, <1>4 DEF ProjectEnd, Projected
  <2>2. /\ \A v \in 0..view : Holds(v, Len(points))
        /\ \A v \in 0..last : v > view => Fresh(v)
    BY <1>0, <2>1 DEF Projected
  <2>3. /\ \A v \in 0..view : Holds(v, Len(points))'
        /\ \A v \in 0..last : v > view => Fresh(v)'
    BY <2>1, <2>2, HoldsStays DEF Fresh
  <2>4. CASE view > 0
    BY <1>0, <1>4, <2>1, <2>3, <2>4 DEF ProjectEnd, Projected
  <2>5. CASE view = 0 /\ last > 0
    <3>1. Holds(1, 0)
      BY <1>0, <2>2, <2>5, FreshHolds
    <3>2. Holds(1, 0)'
      BY <2>1, <3>1, HoldsStays
    <3> QED BY <1>0, <1>4, <2>1, <2>3, <2>5, <3>2 DEF ProjectEnd, Projected
  <2>6. CASE view = 0 /\ last = 0
    BY <1>0, <1>4, <2>1, <2>3, <2>6 DEF ProjectEnd, Projected
  <2> QED BY <1>0, <2>4, <2>5, <2>6
<1>5. CASE Compare
  <2>1. CASE phase' = "done"
    BY <2>1 DEF Projected
  <2>2. CASE phase' # "done"
    <3>1. /\ phase = "compare" /\ next = 1
          /\ UNCHANGED <<points, visible, counts, last, next>>
          /\ \/ view < last /\ phase' = "project" /\ view' = view + 1
             \/ view >= last /\ phase' = "draw" /\ view' = 0
      BY <1>0, <1>5, <2>2 DEF Compare, Leave, Projected
    <3>2. /\ \A v \in 0..view : Holds(v, Len(points))
          /\ \A v \in 0..last : v > view => Fresh(v)
      BY <1>0, <3>1 DEF Projected
    <3>3. /\ \A v \in 0..view : Holds(v, Len(points))'
          /\ \A v \in 0..last : v > view => Fresh(v)'
      BY <3>1, <3>2, HoldsStays DEF Fresh
    <3>4. CASE view < last
      <4>1. PICK w \in 0..last : w = view + 1 /\ Holds(w, 0)
        BY <1>0, <3>2, <3>4, FreshHolds
      <4>2. view' = w /\ Holds(w, 0)'
        BY <1>0, <3>1, <3>4, <4>1, HoldsStays
      <4> QED BY <1>0, <3>1, <3>3, <3>4, <4>2 DEF Projected
    <3>5. CASE view >= last
      BY <1>0, <3>1, <3>3, <3>5 DEF Projected
    <3> QED BY <1>0, <3>4, <3>5
  <2> QED BY <2>1, <2>2
<1>6. CASE DrawPoint
  BY <1>6, ProjectedStays DEF DrawPoint, Leave
<1>7. CASE DrawEnd
  BY <1>7, ProjectedStays DEF DrawEnd
<1>8. CASE Write \/ WriteFails
  BY <1>8, ProjectedStays DEF Write, WriteFails, Leave
<1>9. CASE UNCHANGED vars
  BY <1>9, ProjectedStays DEF vars
<1> QED BY <1>1, <1>2, <1>3, <1>4, <1>5, <1>6, <1>7, <1>8, <1>9 DEF Next

-----------------------------------------------------------------------------
(* Sorting                                                                 *)

\* R is a strict total order of T.
Orders(R, T) ==
  /\ \A x \in T : <<x, x>> \notin R
  /\ \A x, y \in T : x = y \/ <<x, y>> \in R \/ <<y, x>> \in R
  /\ \A x, y, z \in T : <<x, y>> \in R /\ <<y, z>> \in R => <<x, z>> \in R

Below(R, T, x) == { y \in T : <<y, x>> \in R }

LEMMA CountingTo ==
  ASSUME NEW n \in Nat
  PROVE  IsFiniteSet(1..n) /\ Cardinality(1..n) = n
<1>1. 1 \in Int /\ n \in Int
  OBVIOUS
<1>2. IsFiniteSet(1..n) /\ Cardinality(1..n) = IF 1 > n THEN 0 ELSE n - 1 + 1
  BY <1>1, FS_Interval
<1> QED BY <1>2

LEMMA BelowSize ==
  ASSUME NEW T, IsFiniteSet(T), NEW R, Orders(R, T), NEW x \in T
  PROVE  /\ IsFiniteSet(Below(R, T, x)) /\ Cardinality(Below(R, T, x)) \in Nat
         /\ Cardinality(Below(R, T, x)) < Cardinality(T)
<1>1. Below(R, T, x) \in SUBSET (T \ {x})
  BY DEF Below, Orders
<1>2. /\ IsFiniteSet(T \ {x}) /\ Cardinality(T \ {x}) = Cardinality(T) - 1
      /\ Cardinality(T) \in Nat
  BY FS_RemoveElement, FS_CardinalityType
<1>3. /\ IsFiniteSet(Below(R, T, x))
      /\ Cardinality(Below(R, T, x)) <= Cardinality(T \ {x})
  BY <1>1, <1>2, FS_Subset
<1>4. Cardinality(Below(R, T, x)) \in Nat
  BY <1>3, FS_CardinalityType
<1> QED BY <1>2, <1>3, <1>4

LEMMA BelowGrows ==
  ASSUME NEW T, IsFiniteSet(T), NEW R, Orders(R, T), NEW x \in T, NEW y \in T, <<x, y>> \in R
  PROVE  Cardinality(Below(R, T, x)) < Cardinality(Below(R, T, y))
<1> DEFINE A == Below(R, T, x)
           B == Below(R, T, y)
<1>1. x \in B /\ A \subseteq B \ {x}
  BY DEF Below, Orders
<1>2. IsFiniteSet(B) /\ Cardinality(A) \in Nat /\ Cardinality(B) \in Nat
  BY BelowSize
<1> HIDE DEF A, B
<1>3. IsFiniteSet(B \ {x}) /\ Cardinality(B \ {x}) = Cardinality(B) - 1
  BY <1>1, <1>2, FS_RemoveElement
<1>4. Cardinality(A) <= Cardinality(B \ {x})
  BY <1>1, <1>3, FS_Subset
<1> QED BY <1>2, <1>3, <1>4 DEF A, B

\* A finite set with a strict total order can be written down in that order.
LEMMA OrderedListing ==
  ASSUME NEW T, IsFiniteSet(T), NEW R, Orders(R, T)
  PROVE  \E f \in SetToSeqs(T) : \A i, j \in DOMAIN f : i < j => <<f[i], f[j]>> \in R
<1> DEFINE n == Cardinality(T)
           rank == [x \in T |-> 1 + Cardinality(Below(R, T, x))]
<1>1. n \in Nat /\ \A x \in T : Cardinality(Below(R, T, x)) \in Nat /\ Cardinality(Below(R, T, x)) < n
  BY BelowSize, FS_CardinalityType
<1>2. rank \in [T -> 1..n] /\ \A x \in T : rank[x] \in Nat
  <2> HIDE DEF n
  <2>1. \A x \in T : 1 + Cardinality(Below(R, T, x)) \in 1..n
    BY <1>1
  <2>2. rank \in [T -> 1..n]
    BY <2>1
  <2> HIDE DEF rank
  <2> QED BY <1>1, <2>2
<1>3. \A x, y \in T : <<x, y>> \in R => rank[x] < rank[y]
  <2> SUFFICES ASSUME NEW x \in T, NEW y \in T, <<x, y>> \in R PROVE rank[x] < rank[y]
    OBVIOUS
  <2>1. Cardinality(Below(R, T, x)) < Cardinality(Below(R, T, y))
    BY BelowGrows
  <2> HIDE DEF n
  <2> QED BY <1>1, <2>1
<1> HIDE DEF rank
<1>4. ASSUME NEW x \in T, NEW y \in T, rank[x] = rank[y], x # y PROVE FALSE
  <2>1. <<x, y>> \in R \/ <<y, x>> \in R
    BY <1>4 DEF Orders
  <2>2. rank[x] < rank[y] \/ rank[y] < rank[x]
    BY <1>3, <2>1
  <2>3. rank[x] \in Nat /\ rank[y] \in Nat
    BY <1>2
  <2> QED BY <1>4, <2>2, <2>3
<1>5. rank \in Surjection(T, 1..n)
  <2>1. rank \in Injection(T, 1..n)
    BY <1>2, <1>4 DEF Injection, IsInjective
  <2>2. IsFiniteSet(1..n) /\ Cardinality(1..n) = Cardinality(T)
    BY <1>1, CountingTo
  <2> HIDE DEF n
  <2> QED BY <2>1, <2>2, FS_Injection
<1>6. \A i \in 1..n : \E x \in T : rank[x] = i
  BY <1>5 DEF Surjection
<1> DEFINE f == [i \in 1..n |-> CHOOSE x \in T : rank[x] = i]
<1>7. /\ f \in [1..n -> T]
      /\ \A i \in 1..n : f[i] \in T /\ rank[f[i]] = i
  BY <1>6
<1> HIDE DEF f
<1>8. ASSUME NEW i \in 1..n, NEW j \in 1..n, i < j PROVE <<f[i], f[j]>> \in R
  <2>1. f[i] \in T /\ f[j] \in T /\ rank[f[i]] = i /\ rank[f[j]] = j
    BY <1>7
  <2>2. <<f[j], f[i]>> \notin R
    BY <1>3, <1>8, <2>1
  <2> QED BY <1>8, <2>1, <2>2 DEF Orders
<1>9. \A i, j \in 1..n : i # j => f[i] # f[j]
  BY <1>7
<1>10. f \in SetToSeqs(T)
  BY <1>7, <1>9 DEF SetToSeqs
<1>11. DOMAIN f = 1..n
  BY <1>7
<1> QED BY <1>8, <1>10, <1>11

\* A listing of a finite set names each of its members once.
LEMMA ListingIsBijective ==
  ASSUME NEW T, IsFiniteSet(T), NEW f \in SetToSeqs(T)
  PROVE  /\ f \in [1..Cardinality(T) -> T] /\ f \in Seq(T)
         /\ Len(f) = Cardinality(T) /\ DOMAIN f = 1..Cardinality(T)
         /\ \A i, j \in 1..Cardinality(T) : f[i] = f[j] => i = j
         /\ \A x \in T : \E i \in 1..Cardinality(T) : f[i] = x
<1> DEFINE n == Cardinality(T)
<1>1. n \in Nat
  BY FS_CardinalityType
<1>2. f \in [1..n -> T] /\ \A i, j \in 1..n : i # j => f[i] # f[j]
  BY DEF SetToSeqs
<1>3. f \in Surjection(1..n, T)
  <2>1. IsFiniteSet(1..n) /\ Cardinality(1..n) = Cardinality(T)
    BY <1>1, CountingTo
  <2>2. f \in Injection(1..n, T)
    BY <1>2 DEF Injection, IsInjective
  <2> HIDE DEF n
  <2> QED BY <2>1, <2>2, FS_Injection
<1> HIDE DEF n
<1>4. \A x \in T : \E i \in 1..n : f[i] = x
  BY <1>3 DEF Surjection
<1>5. f \in Seq(T) /\ Len(f) = n /\ DOMAIN f = 1..n
  BY <1>1, <1>2
<1> QED BY <1>2, <1>4, <1>5 DEF n

\* The first k places of an injective listing have k members.
Leading(f, k) == { f[i] : i \in 1..k }

LEMMA FirstOnes ==
  ASSUME NEW T, NEW n \in Nat, NEW f \in [1..n -> T],
         \A i, j \in 1..n : f[i] = f[j] => i = j, NEW k \in 0..n
  PROVE  IsFiniteSet(Leading(f, k)) /\ Cardinality(Leading(f, k)) = k
<1> DEFINE S == { f[i] : i \in 1..k }
           g == [i \in 1..k |-> f[i]]
<1>1. k \in Nat /\ 1..k \subseteq 1..n
  OBVIOUS
<1>2. g \in Bijection(1..k, S)
  <2>1. g \in [1..k -> S] /\ \A i \in 1..k : g[i] = f[i]
    OBVIOUS
  <2>2. \A x \in S : \E i \in 1..k : f[i] = x
    OBVIOUS
  <2> HIDE DEF g, S
  <2> QED BY <1>1, <2>1, <2>2 DEF Bijection, Injection, Surjection, IsInjective
<1> HIDE DEF g, S
<1>3. ExistsBijection(1..k, S)
  BY <1>2 DEF ExistsBijection
<1>4. IsFiniteSet(S)
  BY <1>1, <1>3, FS_NatBijection
<1>5. Cardinality(S) = k
  BY <1>1, <1>3, FS_CountingElements
<1> QED BY <1>4, <1>5 DEF S, Leading

\* f rearranges 1..n.
Rearranges(f, n) == /\ f \in [1..n -> 1..n]
                    /\ \A i, j \in 1..n : f[i] = f[j] => i = j
                    /\ \A i \in 1..n : \E j \in 1..n : f[j] = i

LEMMA FrontOfPlaces ==
  ASSUME NEW n \in Nat \ {0}, NEW f, Rearranges(f, n), NEW k \in 0..n
  PROVE  IsFiniteSet(Leading(f, k)) /\ Cardinality(Leading(f, k)) = k
<1> DEFINE T == 1..n
<1>1. f \in [1..n -> T] /\ n \in Nat /\ \A i, j \in 1..n : f[i] = f[j] => i = j
  BY DEF Rearranges
<1> HIDE DEF T
<1> QED BY <1>1, FirstOnes

-----------------------------------------------------------------------------
(* Displacements are compared as fractions                                  *)

Fractions == Nat \X (Nat \ {0})

LEMMA TimesKeepsOrder ==
  ASSUME NEW p \in Nat, NEW q \in Nat, NEW r \in Nat, p <= q
  PROVE  p * r <= q * r
<1>1. q = p + (q - p) /\ q - p \in Nat
  OBVIOUS
<1>2. (p + (q - p)) * r = p * r + (q - p) * r
  OBVIOUS
<1>3. (q - p) * r \in Nat /\ p * r \in Nat
  BY <1>1
<1> QED BY <1>1, <1>2, <1>3

LEMMA TimesCancels ==
  ASSUME NEW p \in Nat, NEW q \in Nat, NEW r \in Nat \ {0}, p * r <= q * r
  PROVE  p <= q
<1> SUFFICES ASSUME q < p PROVE FALSE
  OBVIOUS
<1>1. (q + 1) * r <= p * r
  BY TimesKeepsOrder
<1>2. (q + 1) * r = q * r + r /\ q * r \in Nat /\ p * r \in Nat
  OBVIOUS
<1> QED BY <1>1, <1>2

LEMMA AtMostIsTotal ==
  ASSUME NEW d \in Fractions, NEW e \in Fractions
  PROVE  AtMost(d, e) \/ AtMost(e, d)
<1>1. d[1] * e[2] \in Nat /\ e[1] * d[2] \in Nat
  BY DEF Fractions
<1> QED BY <1>1 DEF AtMost

LEMMA AtMostIsTransitive ==
  ASSUME NEW d \in Fractions, NEW e \in Fractions, NEW f \in Fractions,
         AtMost(d, e), AtMost(e, f)
  PROVE  AtMost(d, f)
<1>1. PICK a \in Nat, x \in Nat \ {0} : d = <<a, x>>
  BY DEF Fractions
<1>2. PICK b \in Nat, y \in Nat \ {0} : e = <<b, y>>
  BY DEF Fractions
<1>3. PICK c \in Nat, z \in Nat \ {0} : f = <<c, z>>
  BY DEF Fractions
<1>4. a * y <= b * x /\ b * z <= c * y
  BY <1>1, <1>2, <1>3 DEF AtMost
<1>5. /\ a * y \in Nat /\ b * x \in Nat /\ b * z \in Nat /\ c * y \in Nat
      /\ a * z \in Nat /\ c * x \in Nat
  OBVIOUS
<1>6. (a * y) * z <= (b * x) * z
  BY <1>4, <1>5, TimesKeepsOrder
<1>7. (b * z) * x <= (c * y) * x
  BY <1>4, <1>5, TimesKeepsOrder
<1>8. (a * y) * z = (a * z) * y /\ (b * x) * z = (b * z) * x /\ (c * y) * x = (c * x) * y
  OBVIOUS
<1>9. (a * z) * y <= (c * x) * y
  <2>1. (a * y) * z \in Nat /\ (b * z) * x \in Nat /\ (c * y) * x \in Nat
    BY <1>5
  <2> QED BY <1>6, <1>7, <1>8, <2>1
<1>10. a * z <= c * x
  BY <1>5, <1>9, TimesCancels
<1> QED BY <1>1, <1>3, <1>10 DEF AtMost

LEMMA DisplacementIsFraction ==
  ASSUME NEW p, NEW q, p.at \in Int \X Int \X Int, q.at \in Int \X Int \X Int,
         p.at[3] > 0, q.at[3] > 0
  PROVE  Displacement(p, q) \in Fractions
<1> DEFINE u == p.at[1] * q.at[3] - q.at[1] * p.at[3]
           v == p.at[2] * q.at[3] - q.at[2] * p.at[3]
           m == p.at[3]
           n == q.at[3]
<1>1. u \in Int /\ v \in Int /\ m \in Nat \ {0} /\ n \in Nat \ {0}
  OBVIOUS
<1>2. Displacement(p, q) = <<u * u + v * v, m * m * n * n>>
  BY DEF Displacement
<1> HIDE DEF u, v, m, n
<1>3. \A i \in Int : i * i \in Nat
  OBVIOUS
<1>4. u * u + v * v \in Nat
  BY <1>1, <1>3
<1>5. \A i, j \in Nat \ {0} : i * j \in Nat \ {0}
  OBVIOUS
<1>6. m * m * n * n \in Nat \ {0}
  BY <1>1, <1>5
<1> QED BY <1>2, <1>4, <1>6 DEF Fractions

-----------------------------------------------------------------------------
(* Nearest ranks                                                            *)

\* The places of a sequence of displacements that a value reaches.
Reached(ds, n, d) == { i \in 1..n : AtMost(ds[i], d) }

LEMMA ReachedIsFinite ==
  ASSUME NEW ds, NEW n \in Nat, NEW d
  PROVE  IsFiniteSet(Reached(ds, n, d)) /\ Cardinality(Reached(ds, n, d)) \in Nat
<1>1. IsFiniteSet(1..n) /\ Reached(ds, n, d) \in SUBSET (1..n)
  BY CountingTo DEF Reached
<1>2. IsFiniteSet(Reached(ds, n, d))
  BY <1>1, FS_Subset
<1> QED BY <1>2, FS_CardinalityType

Ascends(f, ds, n) == \A i, j \in 1..n : i <= j => AtMost(ds[f[i]], ds[f[j]])

LEMMA ByValueIs ==
  ASSUME NEW n \in Nat, NEW ds \in [1..n -> Fractions]
  PROVE  Rearranges(ByValue(ds), n) /\ Ascends(ByValue(ds), ds, n)
<1> DEFINE Before(i, j) == AtMost(ds[i], ds[j]) /\ (AtMost(ds[j], ds[i]) => i < j)
           R == { p \in (1..n) \X (1..n) : Before(p[1], p[2]) }
           S == 1..n
<1>1. /\ \A i, j \in S : AtMost(ds[i], ds[j]) \/ AtMost(ds[j], ds[i])
      /\ \A i, j, k \in S : AtMost(ds[i], ds[j]) /\ AtMost(ds[j], ds[k]) => AtMost(ds[i], ds[k])
      /\ \A i \in S : AtMost(ds[i], ds[i])
  <2>1. \A i \in S : ds[i] \in Fractions
    OBVIOUS
  <2> QED BY <2>1, AtMostIsTotal, AtMostIsTransitive
<1>2. \A i, j \in S : <<i, j>> \in R <=> Before(i, j)
  OBVIOUS
<1>3. Orders(R, S)
  <2> HIDE DEF R
  <2>1. \A i \in S : <<i, i>> \notin R
    BY <1>1, <1>2
  <2>2. \A i, j \in S : i = j \/ <<i, j>> \in R \/ <<j, i>> \in R
    <3> SUFFICES ASSUME NEW i \in S, NEW j \in S, i # j
                 PROVE  Before(i, j) \/ Before(j, i)
      BY <1>2
    <3>1. i < j \/ j < i
      OBVIOUS
    <3> QED BY <1>1, <3>1
  <2>3. ASSUME NEW i \in S, NEW j \in S, NEW k \in S, <<i, j>> \in R, <<j, k>> \in R
        PROVE  <<i, k>> \in R
    <3>1. Before(i, j) /\ Before(j, k)
      BY <1>2, <2>3
    <3>2. AtMost(ds[i], ds[k])
      BY <1>1, <3>1
    <3>3. AtMost(ds[k], ds[i]) => AtMost(ds[j], ds[i]) /\ AtMost(ds[k], ds[j])
      BY <1>1, <3>1
    <3>4. AtMost(ds[k], ds[i]) => i < j /\ j < k
      BY <3>1, <3>3
    <3>5. i < j /\ j < k => i < k
      OBVIOUS
    <3> QED BY <1>2, <3>2, <3>4, <3>5
  <2> QED BY <2>1, <2>2, <2>3 DEF Orders
<1>4. IsFiniteSet(S) /\ Cardinality(S) = n
  BY CountingTo
<1>5. \E f \in SetToSeqs(S) : \A i, j \in DOMAIN f : i < j => <<f[i], f[j]>> \in R
  <2> HIDE DEF R, S
  <2> QED BY <1>3, <1>4, OrderedListing
<1>6. \E f \in SetToSeqs(S) : \A i, j \in DOMAIN f : i < j => Before(f[i], f[j])
  <2>1. PICK f \in SetToSeqs(S) : \A i, j \in DOMAIN f : i < j => <<f[i], f[j]>> \in R
    BY <1>5
  <2>2. f \in [S -> S] /\ DOMAIN f = S
    BY <1>4, ListingIsBijective
  <2> HIDE DEF R, Before
  <2> QED BY <1>2, <2>1, <2>2
<1> DEFINE g == ByValue(ds)
<1>7. DOMAIN ds = S
  OBVIOUS
<1>8. g = CHOOSE f \in SetToSeqs(S) : \A i, j \in DOMAIN f : i < j => Before(f[i], f[j])
  BY <1>7 DEF ByValue, Sorted
<1> HIDE DEF g
<1>9. g \in SetToSeqs(S) /\ \A i, j \in DOMAIN g : i < j => Before(g[i], g[j])
  <2> HIDE DEF Before
  <2> QED BY <1>6, <1>8
<1>10. /\ g \in [S -> S] /\ DOMAIN g = S
       /\ \A i, j \in S : g[i] = g[j] => i = j
       /\ \A i \in S : \E j \in S : g[j] = i
  <2>1. g \in SetToSeqs(S)
    BY <1>9
  <2> HIDE DEF S, Before
  <2>2. /\ g \in [1..Cardinality(S) -> S] /\ DOMAIN g = 1..Cardinality(S)
        /\ \A i, j \in 1..Cardinality(S) : g[i] = g[j] => i = j
        /\ \A x \in S : \E i \in 1..Cardinality(S) : g[i] = x
    BY <1>4, <2>1, ListingIsBijective
  <2>3. 1..Cardinality(S) = S
    BY <1>4 DEF S
  <2> QED BY <2>2, <2>3
<1>11. ASSUME NEW i \in S, NEW j \in S, i <= j PROVE AtMost(ds[g[i]], ds[g[j]])
  <2>1. CASE i = j
    BY <1>1, <1>10, <2>1
  <2>2. CASE i < j
    BY <1>9, <1>10, <2>2
  <2> QED BY <1>11, <2>1, <2>2
<1> QED BY <1>10, <1>11 DEF g, Rearranges, Ascends

\* The rank is the least that reaches the share of n.
RankOf(n, percent) == Clamped((percent * n + 99) \div 100, n)

IsRank(k, n, percent) ==
  k \in 1..n /\ 100 * k >= percent * n /\ 100 * (k - 1) < percent * n

LEMMA RankIs ==
  ASSUME NEW n \in Nat \ {0}, NEW percent \in {50, 95}
  PROVE  IsRank(RankOf(n, percent), n, percent)
<1>1. CASE percent = 50
  BY <1>1 DEF IsRank, RankOf, Clamped, Smaller
<1>2. CASE percent = 95
  BY <1>2 DEF IsRank, RankOf, Clamped, Smaller
<1> QED BY <1>1, <1>2

LEMMA RanksAreInOrder ==
  ASSUME NEW n \in Nat \ {0}
  PROVE  RankOf(n, 50) <= RankOf(n, 95)
BY DEF RankOf, Clamped, Smaller

\* nearestRank returns one of the values, that enough of them do not exceed, and the
\* least such.
IsNearestRank(value, percent, ds, n) ==
  /\ \E i \in 1..n : value = ds[i]
  /\ 100 * Cardinality(Reached(ds, n, value)) >= percent * n
  /\ \A j \in 1..n : 100 * Cardinality(Reached(ds, n, ds[j])) >= percent * n
                      => AtMost(value, ds[j])

LEMMA NearestRankIs ==
  ASSUME NEW n \in Nat \ {0}, NEW ds \in [1..n -> Fractions], NEW percent \in {50, 95}
  PROVE  IsNearestRank(NearestRank(ds, percent), percent, ds, n)
<1> DEFINE f == ByValue(ds)
           k == RankOf(n, percent)
           value == NearestRank(ds, percent)
<1>1. k \in 1..n /\ 100 * k >= percent * n /\ 100 * (k - 1) < percent * n
  <2>1. IsRank(k, n, percent)
    BY RankIs
  <2> HIDE DEF k
  <2> QED BY <2>1 DEF IsRank
<1>0. n \in Nat /\ Rearranges(f, n) /\ Ascends(f, ds, n)
  <2>1. n \in Nat
    OBVIOUS
  <2> QED BY <2>1, ByValueIs
<1>2. /\ f \in [1..n -> 1..n]
      /\ \A i \in 1..n : \E j \in 1..n : f[j] = i
      /\ \A i, j \in 1..n : i <= j => AtMost(ds[f[i]], ds[f[j]])
  <2> HIDE DEF f
  <2> QED BY <1>0 DEF Rearranges, Ascends
<1>9. ASSUME NEW m \in 0..n PROVE IsFiniteSet(Leading(f, m)) /\ Cardinality(Leading(f, m)) = m
  <2> HIDE DEF f
  <2> QED BY <1>0, FrontOfPlaces
<1>3. value = ds[f[k]]
  <2>1. Len(ds) = n
    OBVIOUS
  <2> QED BY <2>1 DEF NearestRank, RankOf
<1> HIDE DEF f, k, value
<1>4. k \in 1..n /\ f[k] \in 1..n
  <2>1. k \in 1..n
    BY <1>1
  <2> QED BY <1>2, <2>1
<1>5. 100 * Cardinality(Reached(ds, n, value)) >= percent * n
  <2> DEFINE S == Leading(f, k)
  <2>1. k \in 0..n /\ k \in Nat
    BY <1>4
  <2>2. IsFiniteSet(S) /\ Cardinality(S) = k
    BY <1>9, <2>1
  <2>3. S \in SUBSET Reached(ds, n, value)
    <3> SUFFICES ASSUME NEW i \in 1..k PROVE f[i] \in 1..n /\ AtMost(ds[f[i]], value)
      BY DEF Reached, Leading
    <3>1. i \in 1..n /\ i <= k
      BY <1>4
    <3>2. f[i] \in 1..n
      BY <1>2, <3>1
    <3>3. AtMost(ds[f[i]], ds[f[k]])
      BY <1>2, <1>4, <3>1
    <3> QED BY <1>3, <3>2, <3>3
  <2>4. IsFiniteSet(Reached(ds, n, value)) /\ Cardinality(Reached(ds, n, value)) \in Nat
    BY ReachedIsFinite
  <2> HIDE DEF S
  <2>5. Cardinality(S) <= Cardinality(Reached(ds, n, value))
    BY <2>3, <2>4, FS_Subset
  <2>6. percent * n \in Nat
    OBVIOUS
  <2> QED BY <1>1, <2>1, <2>2, <2>4, <2>5, <2>6
<1>6. ASSUME NEW j \in 1..n, 100 * Cardinality(Reached(ds, n, ds[j])) >= percent * n,
             ~AtMost(value, ds[j])
      PROVE  FALSE
  <2> DEFINE S == Leading(f, k - 1)
  <2>1. k - 1 \in 0..n /\ k - 1 \in Nat
    BY <1>4
  <2>2. IsFiniteSet(S) /\ Cardinality(S) = k - 1
    BY <1>9, <2>1
  <2>3. Reached(ds, n, ds[j]) \in SUBSET S
    <3> SUFFICES ASSUME NEW p \in 1..n, AtMost(ds[p], ds[j]) PROVE p \in S
      BY DEF Reached
    <3>1. PICK i \in 1..n : f[i] = p
      BY <1>2
    <3>2. ASSUME k <= i PROVE FALSE
      <4>1. AtMost(value, ds[p])
        BY <1>4, <1>2, <1>3, <3>1, <3>2
      <4>2. value \in Fractions /\ ds[p] \in Fractions /\ ds[j] \in Fractions
        BY <1>3, <1>4
      <4> QED BY <1>6, <4>1, <4>2, AtMostIsTransitive
    <3>3. i \in 1..(k - 1)
      BY <1>4, <3>2
    <3> QED BY <3>1, <3>3 DEF Leading
  <2>4. Cardinality(Reached(ds, n, ds[j])) \in Nat
    BY ReachedIsFinite
  <2> HIDE DEF S
  <2>5. Cardinality(Reached(ds, n, ds[j])) <= Cardinality(S)
    BY <2>2, <2>3, FS_Subset
  <2>6. percent * n \in Nat
    OBVIOUS
  <2> QED BY <1>1, <1>6, <2>1, <2>2, <2>4, <2>5, <2>6
<1> QED BY <1>3, <1>4, <1>5, <1>6 DEF value, IsNearestRank

LEMMA MedianIsAtMostP95 ==
  ASSUME NEW n \in Nat \ {0}, NEW ds \in [1..n -> Fractions]
  PROVE  AtMost(NearestRank(ds, 50), NearestRank(ds, 95))
<1> DEFINE f == ByValue(ds)
           k == RankOf(n, 50)
           l == RankOf(n, 95)
<1>1. k \in 1..n /\ l \in 1..n /\ k <= l
  BY RankIs, RanksAreInOrder DEF IsRank
<1>2. \A i, j \in 1..n : i <= j => AtMost(ds[f[i]], ds[f[j]])
  <2>1. n \in Nat
    OBVIOUS
  <2>2. Ascends(f, ds, n)
    BY <2>1, ByValueIs
  <2> QED BY <2>2 DEF Ascends
<1>3. Len(ds) = n
  OBVIOUS
<1>4. NearestRank(ds, 50) = ds[f[k]] /\ NearestRank(ds, 95) = ds[f[l]]
  BY <1>3 DEF NearestRank, RankOf
<1> HIDE DEF f, k, l
<1> QED BY <1>1, <1>2, <1>4

\* A listing of T counts the members of a part of T.
Lists(f, n, T) == /\ f \in [1..n -> T]
                  /\ \A i, j \in 1..n : f[i] = f[j] => i = j
                  /\ \A x \in T : \E i \in 1..n : f[i] = x

LEMMA ListingCounts ==
  ASSUME NEW T, NEW n \in Nat, NEW f, Lists(f, n, T), NEW P \in SUBSET T
  PROVE  Cardinality({ i \in 1..n : f[i] \in P }) = Cardinality(P)
<1> DEFINE S == { i \in 1..n : f[i] \in P }
           g == [i \in S |-> f[i]]
<1>1. IsFiniteSet(1..n) /\ S \in SUBSET (1..n)
  BY CountingTo
<1>2. IsFiniteSet(S)
  BY <1>1, FS_Subset
<1>3. g \in [S -> P] /\ \A i \in S : g[i] = f[i] /\ i \in 1..n
  OBVIOUS
<1>4. \A x \in P : \E i \in S : f[i] = x
  BY DEF Lists
<1> HIDE DEF S, g
<1>5. g \in Bijection(S, P)
  BY <1>3, <1>4 DEF Bijection, Injection, Surjection, IsInjective, Lists
<1>6. ExistsBijection(S, P)
  BY <1>5 DEF ExistsBijection
<1> QED BY <1>2, <1>6, FS_Bijection DEF S

-----------------------------------------------------------------------------
(* Comparison                                                              *)

LEMMA AppendAny ==
  ASSUME NEW q, q \in Seq(ToSet(q)), NEW e
  PROVE  /\ Append(q, e) \in Seq(ToSet(Append(q, e)))
         /\ Len(q) \in Nat /\ Len(Append(q, e)) = Len(q) + 1
         /\ DOMAIN q = 1..Len(q) /\ DOMAIN Append(q, e) = 1..(Len(q) + 1)
         /\ \A i \in 1..Len(q) : Append(q, e)[i] = q[i]
         /\ Append(q, e)[Len(q) + 1] = e
<1> DEFINE S == ToSet(q) \cup {e}
           r == Append(q, e)
<1>1. q \in Seq(S)
  BY SeqMonotonic
<1>2. /\ r \in Seq(S) /\ Len(r) = Len(q) + 1 /\ Len(q) \in Nat
      /\ DOMAIN q = 1..Len(q) /\ DOMAIN r = 1..Len(r)
      /\ \A i \in 1..Len(q) : r[i] = q[i]
      /\ r[Len(q) + 1] = e
  BY <1>1, AppendProperties, LenProperties
<1>3. S \subseteq ToSet(r)
  <2>1. \A i \in DOMAIN q : q[i] \in ToSet(r)
    BY <1>2 DEF ToSet
  <2>2. e \in ToSet(r)
    BY <1>2 DEF ToSet
  <2> QED BY <2>1, <2>2 DEF ToSet
<1>4. r \in Seq(ToSet(r))
  BY <1>2, <1>3, SeqMonotonic
<1> HIDE DEF r
<1> QED BY <1>2, <1>4 DEF r

\* The points of a view are known by their sources: no two share one.
LEMMA SourcesOfView ==
  ASSUME TypeInv, NEW v \in Views, NEW n \in Nat, Holds(v, n)
  PROVE  /\ Sources(visible[v]) = Having(v, "visible", n)
         /\ IsFiniteSet(Sources(visible[v]))
         /\ Cardinality(Sources(visible[v])) = counts[v]["visible"]
         /\ Indexable(visible[v])
<1>1. visible[v] \in Seq(Shown)
  BY DEF TypeInv
<1>2. ToSet(visible[v]) = { visible[v][i] : i \in 1..Len(visible[v]) }
  BY <1>1, LenProperties DEF ToSet
<1>3. Sources(visible[v]) = { visible[v][i].source : i \in 1..Len(visible[v]) }
  BY <1>2 DEF Sources
<1>4. \A i \in 1..Len(visible[v]) : visible[v][i].source \in Having(v, "visible", n)
  BY DEF Holds, Having
<1>5. Sources(visible[v]) = Having(v, "visible", n)
  BY <1>3, <1>4 DEF Holds
<1>6. /\ counts[v]["visible"] = Cardinality(Having(v, "visible", n))
      /\ counts[v]["visible"] = Len(visible[v])
  BY DEF Holds, Statuses
<1> QED BY <1>5, <1>6, HavingIsFinite DEF Indexable

LEMMA ComparisonConserves ==
  ASSUME NEW v, IsFiniteSet(Sources(visible[0])), IsFiniteSet(Sources(visible[v]))
  PROVE  /\ Comparison(v).common \in Nat
         /\ Sources(visible[0]) \cap Sources(visible[v]) # {} => Comparison(v).common # 0
         /\ Comparison(v).common + Comparison(v).disappeared = Cardinality(Sources(visible[0]))
         /\ Comparison(v).common + Comparison(v).appeared = Cardinality(Sources(visible[v]))
<1> DEFINE A == Sources(visible[0])
           B == Sources(visible[v])
           C == A \cap B
<1>1. /\ Comparison(v).common = Cardinality(C)
      /\ Comparison(v).disappeared = Cardinality(A \ C)
      /\ Comparison(v).appeared = Cardinality(B \ C)
  BY DEF Comparison
<1>2. Cardinality(A) \in Nat /\ Cardinality(B) \in Nat
  BY FS_CardinalityType
<1>3. IsFiniteSet(C) /\ Cardinality(C) \in Nat
  BY FS_Intersection, FS_CardinalityType
<1>4. A \cap C = C /\ B \cap C = C
  OBVIOUS
<1>5. Cardinality(A \ C) = Cardinality(A) - Cardinality(A \cap C)
  BY FS_Difference
<1>6. Cardinality(B \ C) = Cardinality(B) - Cardinality(B \cap C)
  BY FS_Difference
<1>7. /\ Cardinality(A \ C) = Cardinality(A) - Cardinality(C)
      /\ Cardinality(B \ C) = Cardinality(B) - Cardinality(C)
  BY <1>4, <1>5, <1>6
<1>8. C # {} => Cardinality(C) # 0
  BY <1>3, FS_EmptySet
<1> HIDE DEF A, B, C
<1> QED BY <1>1, <1>2, <1>3, <1>7, <1>8 DEF A, B, C

LEMMA ComparedInitially == Init => Compared /\ OverlapIsConserved
<1> SUFFICES ASSUME Init PROVE Compared /\ OverlapIsConserved
  OBVIOUS
<1>1. metrics = <<>> /\ Len(metrics) = 0 /\ DOMAIN metrics = {} /\ phase = "decode"
  BY DEF Init
<1>2. metrics \in Seq(ToSet(metrics))
  BY <1>1, EmptySeq
<1> QED BY <1>1, <1>2 DEF Compared, OverlapIsConserved

LEMMA ComparedStays ==
  ASSUME Compared, UNCHANGED <<metrics, last>>,
         phase' # "done" => \/ metrics = <<>>
                            \/ phase # "done" /\ UNCHANGED points,
         phase' = "decode" => metrics = <<>>,
         phase' = "project" => Len(metrics) = IF view' = 0 THEN 0 ELSE view' - 1,
         phase' = "compare" => view' > 0 /\ Len(metrics) = view' - 1,
         phase' \in {"draw", "write"} => Len(metrics) = last
  PROVE  Compared'
<1>1. points' = points => \A v : Meets(v)' <=> Meets(v)
  BY HavingStays DEF Meets
<1>2. metrics = <<>> => Len(metrics) = 0
  OBVIOUS
<1> QED BY <1>1, <1>2 DEF Compared

LEMMA ComparedPreserved ==
  TypeInv /\ Decoded /\ Projected /\ Compared /\ OverlapIsConserved /\ [Next]_vars
    => Compared' /\ OverlapIsConserved'
<1> SUFFICES ASSUME TypeInv, Decoded, Projected, Compared, OverlapIsConserved, [Next]_vars
             PROVE  Compared' /\ OverlapIsConserved'
  OBVIOUS
<1>0. /\ view \in 0..last /\ last \in Nat /\ 0..last \subseteq Views /\ Len(points) \in Nat
      /\ metrics \in Seq(ToSet(metrics)) /\ Len(metrics) \in Nat /\ DOMAIN metrics = 1..Len(metrics)
  <2>1. metrics \in Seq(ToSet(metrics))
    BY DEF Compared
  <2> QED BY <2>1, LenProperties, PanelsAssumption DEF TypeInv, Views
<1>1. CASE DecodeRecord
  <2>1. metrics = <<>>
    BY <1>1 DEF Compared, DecodeRecord
  <2> QED BY <1>1, <2>1, ComparedStays DEF DecodeRecord, OverlapIsConserved
<1>2. CASE Decode
  <2>1. metrics = <<>> /\ Len(metrics) = 0 /\ view = 0
    BY <1>2 DEF Compared, Decode, Decoded
  <2> QED BY <1>2, <2>1, ComparedStays DEF Decode, Leave, OverlapIsConserved
<1>3. CASE ProjectPoint
  <2>1. /\ phase = "project" /\ view \in Views
        /\ \A v \in Views : v # view => counts'[v] = counts[v]
    BY <1>0, <1>3 DEF ProjectPoint, TypeInv
  <2>2. Len(metrics) = IF view = 0 THEN 0 ELSE view - 1
    BY <2>1 DEF Compared
  <2>3. Compared'
    BY <1>3, <2>1, <2>2, ComparedStays DEF ProjectPoint
  <2>4. ASSUME NEW v \in 1..Len(metrics)
        PROVE  counts'[v] = counts[v] /\ counts'[0] = counts[0]
    BY <1>0, <2>1, <2>2 DEF Views
  <2> QED BY <1>0, <1>3, <2>3, <2>4 DEF ProjectPoint, OverlapIsConserved
<1>4. CASE ProjectEnd
  <2>1. /\ phase = "project" /\ UNCHANGED <<metrics, last, points, counts>>
        /\ Len(metrics) = IF view = 0 THEN 0 ELSE view - 1
        /\ \/ view > 0 /\ phase' = "compare" /\ view' = view
           \/ view = 0 /\ last > 0 /\ phase' = "project" /\ view' = 1
           \/ view = 0 /\ last = 0 /\ phase' = "draw" /\ view' = view
    BY <1>0, <1>4 DEF ProjectEnd, Compared
  <2>2. Compared'
    BY <1>0, <2>1, ComparedStays
  <2> QED BY <2>1, <2>2 DEF OverlapIsConserved
<1>5. CASE Compare
  <2>1. CASE phase' = "done"
    <3>1. UNCHANGED <<metrics, last, counts>>
      BY <1>5, <2>1 DEF Compare, Leave
    <3> QED BY <2>1, <3>1, ComparedStays DEF OverlapIsConserved
  <2>2. CASE phase' # "done"
    <3>1. /\ phase = "compare" /\ UNCHANGED <<points, visible, counts, last>>
          /\ metrics' = Append(metrics, Comparison(view))
          /\ Sources(visible[0]) \cap Sources(visible[view]) # {}
          /\ \/ view < last /\ phase' = "project" /\ view' = view + 1
             \/ view = last /\ phase' = "draw" /\ view' = 0
      BY <1>0, <1>5, <2>2 DEF Compare, Leave
    <3>2. view > 0 /\ Len(metrics) = view - 1
      BY <3>1 DEF Compared
    <3>3. Holds(0, Len(points)) /\ Holds(view, Len(points)) /\ 0 \in Views /\ view \in Views
      BY <1>0, <3>1, <3>2 DEF Projected
    <3>4. Meets(view)
      BY <1>0, <3>1, <3>3, SourcesOfView DEF Meets
    <3>5. /\ metrics' \in Seq(ToSet(metrics')) /\ Len(metrics') = view
          /\ DOMAIN metrics' = 1..view
          /\ \A v \in 1..(view - 1) : metrics'[v] = metrics[v]
          /\ metrics'[view] = Comparison(view)
      BY <1>0, <3>1, <3>2, AppendAny
    <3>6. \A v \in 1..view : Meets(v)
      BY <1>0, <3>1, <3>2, <3>4 DEF Compared
    <3>7. \A v \in 1..view : Meets(v)'
      BY <3>1, <3>6, HavingStays DEF Meets
    <3>8. Compared'
      <4>1. Comparison(view).common # 0
        BY <1>0, <3>1, <3>3, SourcesOfView, ComparisonConserves
      <4>2. \A v \in 1..view : metrics'[v].common # 0
        BY <1>0, <3>2, <3>5, <4>1 DEF Compared
      <4> QED BY <1>0, <3>1, <3>2, <3>5, <3>7, <4>2 DEF Compared
    <3>9. ASSUME NEW v \in 1..view
          PROVE  /\ metrics'[v].common + metrics'[v].disappeared = counts[0]["visible"]
                 /\ metrics'[v].common + metrics'[v].appeared = counts[v]["visible"]
      <4>1. CASE v = view
        BY <1>0, <3>3, <3>5, <4>1, SourcesOfView, ComparisonConserves
      <4>2. CASE v # view
        BY <1>0, <3>2, <3>5, <4>2 DEF OverlapIsConserved
      <4> QED BY <4>1, <4>2
    <3> QED BY <3>1, <3>5, <3>8, <3>9 DEF OverlapIsConserved
  <2> QED BY <2>1, <2>2
<1>6. CASE DrawPoint
  BY <1>6, ComparedStays DEF DrawPoint, Leave, OverlapIsConserved, Compared
<1>7. CASE DrawEnd
  BY <1>7, ComparedStays DEF DrawEnd, OverlapIsConserved, Compared
<1>8. CASE Write \/ WriteFails
  BY <1>8, ComparedStays DEF Write, WriteFails, Leave, OverlapIsConserved
<1>9. CASE UNCHANGED vars
  BY <1>9, ComparedStays DEF vars, OverlapIsConserved, Compared
<1> QED BY <1>1, <1>2, <1>3, <1>4, <1>5, <1>6, <1>7, <1>8, <1>9 DEF Next

-----------------------------------------------------------------------------
(* Percentiles                                                              *)

Members(C, D, d) == { s \in C : AtMost(D[s], d) }

IsPercentileOf(value, percent, C, D) ==
  /\ \E s \in C : value = D[s]
  /\ 100 * Cardinality(Members(C, D, value)) >= percent * Cardinality(C)
  /\ \A s \in C : 100 * Cardinality(Members(C, D, D[s])) >= percent * Cardinality(C)
                   => AtMost(value, D[s])

\* A listing of the common points transfers the ranks of its places to the points.
LEMMA PercentileByRank ==
  ASSUME NEW C, IsFiniteSet(C), C # {}, NEW D \in [C -> Fractions], NEW f \in SetToSeqs(C),
         NEW percent \in {50, 95}
  PROVE  LET ds == [i \in DOMAIN f |-> D[f[i]]]
         IN /\ IsPercentileOf(NearestRank(ds, percent), percent, C, D)
            /\ AtMost(NearestRank(ds, 50), NearestRank(ds, 95))
<1> DEFINE n == Cardinality(C)
           ds == [i \in DOMAIN f |-> D[f[i]]]
           value == NearestRank(ds, percent)
<1>1. n \in Nat \ {0}
  BY FS_CardinalityType, FS_EmptySet
<1>2. /\ f \in [1..n -> C] /\ DOMAIN f = 1..n
      /\ \A i, j \in 1..n : f[i] = f[j] => i = j
      /\ \A x \in C : \E i \in 1..n : f[i] = x
  BY ListingIsBijective
<1> HIDE DEF n
<1>3. ds \in [1..n -> Fractions] /\ \A i \in 1..n : ds[i] = D[f[i]]
  BY <1>2
<1> HIDE DEF ds
<1>4. ASSUME NEW d
      PROVE  Cardinality(Reached(ds, n, d)) = Cardinality(Members(C, D, d))
  <2> DEFINE P == Members(C, D, d)
  <2>1. P \in SUBSET C
    BY DEF Members
  <2>2. Reached(ds, n, d) = { i \in 1..n : f[i] \in P }
    BY <1>2, <1>3 DEF Reached, Members
  <2> HIDE DEF P
  <2>3. Cardinality({ i \in 1..n : f[i] \in P }) = Cardinality(P)
    <3>1. n \in Nat /\ Lists(f, n, C)
      BY <1>1, <1>2 DEF Lists
    <3> QED BY <2>1, <3>1, ListingCounts
  <2> QED BY <2>2, <2>3 DEF P
<1>5. /\ \E i \in 1..n : value = ds[i]
      /\ 100 * Cardinality(Reached(ds, n, value)) >= percent * n
      /\ \A j \in 1..n : 100 * Cardinality(Reached(ds, n, ds[j])) >= percent * n
                          => AtMost(value, ds[j])
  <2>1. IsNearestRank(value, percent, ds, n)
    BY <1>1, <1>3, NearestRankIs
  <2> HIDE DEF value
  <2> QED BY <2>1 DEF IsNearestRank
<1> HIDE DEF value
<1>6. \E s \in C : value = D[s]
  <2>1. PICK i \in 1..n : value = ds[i]
    BY <1>5
  <2> QED BY <1>2, <1>3, <2>1
<1>7. 100 * Cardinality(Members(C, D, value)) >= percent * n
  BY <1>4, <1>5
<1>8. ASSUME NEW s \in C, 100 * Cardinality(Members(C, D, D[s])) >= percent * n
      PROVE  AtMost(value, D[s])
  <2>1. PICK j \in 1..n : f[j] = s
    BY <1>2
  <2>2. ds[j] = D[s]
    BY <1>3, <2>1
  <2> QED BY <1>4, <1>5, <1>8, <2>2
<1>9. AtMost(NearestRank(ds, 50), NearestRank(ds, 95))
  BY <1>1, <1>3, MedianIsAtMostP95
<1> QED BY <1>6, <1>7, <1>8, <1>9 DEF IsPercentileOf, n, ds, value

\* A set of naturals can be walked as a std::map is.
LEMMA KeysInOrder ==
  ASSUME NEW C \in SUBSET Nat, IsFiniteSet(C)
  PROVE  Sorted(C, LAMBDA s, t : s < t) \in SetToSeqs(C)
<1> DEFINE R == { p \in C \X C : p[1] < p[2] }
<1>1. \A s, t \in C : <<s, t>> \in R <=> s < t
  OBVIOUS
<1> HIDE DEF R
<1>2. Orders(R, C)
  BY <1>1 DEF Orders
<1>3. PICK f \in SetToSeqs(C) : \A i, j \in DOMAIN f : i < j => <<f[i], f[j]>> \in R
  BY <1>2, OrderedListing
<1>4. f \in [1..Cardinality(C) -> C] /\ DOMAIN f = 1..Cardinality(C)
  BY ListingIsBijective
<1>5. \A i, j \in DOMAIN f : i < j => f[i] < f[j]
  BY <1>1, <1>3, <1>4
<1> QED BY <1>5 DEF Sorted

\* A point that is shown lies before the camera.
LEMMA ShownBefore ==
  ASSUME TypeInv, NEW v \in Views, Holds(v, Len(points)), NEW s \in Sources(visible[v])
  PROVE  /\ WithSource(visible[v], s).at \in Int \X Int \X Int
         /\ WithSource(visible[v], s).at[3] > 0
<1> DEFINE p == WithSource(visible[v], s)
<1>1. visible[v] \in Seq(Shown) /\ points \in Seq(FiniteRecords)
  BY DEF TypeInv
<1>2. ToSet(visible[v]) = { visible[v][i] : i \in 1..Len(visible[v]) }
  BY <1>1, LenProperties DEF ToSet
<1>3. p \in ToSet(visible[v])
  BY DEF Sources, WithSource
<1> HIDE DEF p
<1>4. PICK i \in 1..Len(visible[v]) : p = visible[v][i]
  BY <1>2, <1>3
<1>5. p \in Shown
  BY <1>1, <1>4, ElementOfSeq
<1>6. /\ p.source \in 1..Len(points) /\ Status(Moved(v, points[p.source])) = "visible"
      /\ p.at = Homogeneous(Moved(v, points[p.source]))
  BY <1>4 DEF Holds
<1>7. ~(p.at[3] <= 0)
  BY <1>6 DEF Status
<1>8. p.at \in Int \X Int \X Int
  BY <1>5 DEF Shown
<1>9. p.at[3] \in Int
  BY <1>8
<1> QED BY <1>7, <1>8, <1>9 DEF p

\* compareProjectedPoints reports percentiles.
LEMMA ComparisonRanks ==
  ASSUME TypeInv, 0 \in Views, NEW v \in Views, Len(points) \in Nat,
         Holds(0, Len(points)), Holds(v, Len(points)),
         Sources(visible[0]) \cap Sources(visible[v]) # {}
  PROVE  /\ IsPercentile(Comparison(v).median, 50, v)
         /\ IsPercentile(Comparison(v).p95, 95, v)
         /\ AtMost(Comparison(v).median, Comparison(v).p95)
<1> DEFINE C == Sources(visible[0]) \cap Sources(visible[v])
           order == Sorted(C, LAMBDA s, t : s < t)
           At(s) == Displacement(WithSource(visible[v], s), WithSource(visible[0], s))
           D == [s \in C |-> At(s)]
           ds == [i \in DOMAIN order |-> D[order[i]]]
           moves == [i \in DOMAIN order |-> At(order[i])]
<1>1. /\ Sources(visible[0]) = Having(0, "visible", Len(points))
      /\ IsFiniteSet(Sources(visible[0]))
  BY SourcesOfView
<1>2. IsFiniteSet(C) /\ C \in SUBSET Nat
  <2>1. Sources(visible[0]) \subseteq Nat
    BY <1>1 DEF Having
  <2> QED BY <1>1, <2>1, FS_Intersection
<1>3. \A s \in C : At(s) \in Fractions
  <2> SUFFICES ASSUME NEW s \in C PROVE At(s) \in Fractions
    OBVIOUS
  <2> QED BY ShownBefore, DisplacementIsFraction
<1>4. order \in SetToSeqs(C)
  <2> HIDE DEF C
  <2> QED BY <1>2, KeysInOrder
<1>5. DOMAIN order = 1..Cardinality(C) /\ order \in [1..Cardinality(C) -> C]
  <2> HIDE DEF C, order
  <2> QED BY <1>2, <1>4, ListingIsBijective
<1>6. Comparison(v).median = NearestRank(moves, 50) /\ Comparison(v).p95 = NearestRank(moves, 95)
  BY DEF Comparison
<1>7. moves = ds
  <2> HIDE DEF C, order, At
  <2> QED BY <1>5
<1>8. D \in [C -> Fractions]
  <2> HIDE DEF C, At
  <2> QED BY <1>3
<1>9. /\ IsPercentileOf(NearestRank(ds, 50), 50, C, D)
      /\ IsPercentileOf(NearestRank(ds, 95), 95, C, D)
      /\ AtMost(NearestRank(ds, 50), NearestRank(ds, 95))
  <2>1. C # {}
    OBVIOUS
  <2> HIDE DEF C, order, D
  <2>2. /\ IsPercentileOf(NearestRank(ds, 50), 50, C, D)
        /\ AtMost(NearestRank(ds, 50), NearestRank(ds, 95))
    BY <1>2, <1>4, <1>8, <2>1, PercentileByRank
  <2>3. IsPercentileOf(NearestRank(ds, 95), 95, C, D)
    BY <1>2, <1>4, <1>8, <2>1, PercentileByRank
  <2> QED BY <2>2, <2>3
<1>10. ASSUME NEW value, NEW percent, IsPercentileOf(value, percent, C, D)
       PROVE  IsPercentile(value, percent, v)
  BY <1>10 DEF IsPercentileOf, IsPercentile, Members
<1> HIDE DEF C, D, ds, moves
<1> QED BY <1>6, <1>7, <1>9, <1>10

LEMMA RankedStays ==
  ASSUME Ranked, metrics' = metrics,
         \A v \in DOMAIN metrics : visible'[0] = visible[0] /\ visible'[v] = visible[v]
  PROVE  Ranked'
<1> SUFFICES ASSUME NEW v \in DOMAIN metrics
             PROVE  /\ IsPercentile(metrics[v].median, 50, v)'
                    /\ IsPercentile(metrics[v].p95, 95, v)'
                    /\ AtMost(metrics'[v].median, metrics'[v].p95)
  BY DEF Ranked
<1>1. ASSUME NEW value, NEW percent, IsPercentile(value, percent, v)
      PROVE  IsPercentile(value, percent, v)'
  <2>1. visible'[0] = visible[0] /\ visible'[v] = visible[v]
    OBVIOUS
  <2> QED BY <1>1, <2>1 DEF IsPercentile
<1> QED BY <1>1 DEF Ranked

LEMMA RankedPreserved ==
  TypeInv /\ Projected /\ Compared /\ Ranked /\ [Next]_vars => Ranked'
<1> SUFFICES ASSUME TypeInv, Projected, Compared, Ranked, [Next]_vars PROVE Ranked'
  OBVIOUS
<1>0. /\ view \in 0..last /\ last \in Nat /\ 0..last \subseteq Views /\ Len(points) \in Nat
      /\ metrics \in Seq(ToSet(metrics)) /\ Len(metrics) \in Nat /\ DOMAIN metrics = 1..Len(metrics)
  <2>1. metrics \in Seq(ToSet(metrics))
    BY DEF Compared
  <2> QED BY <2>1, LenProperties, PanelsAssumption DEF TypeInv, Views
<1>1. CASE ProjectPoint
  <2>1. /\ phase = "project" /\ view \in Views /\ metrics' = metrics
        /\ \A v \in Views : v # view => visible'[v] = visible[v]
    BY <1>0, <1>1 DEF ProjectPoint, TypeInv
  <2>2. Len(metrics) = IF view = 0 THEN 0 ELSE view - 1
    BY <2>1 DEF Compared
  <2>3. ASSUME NEW v \in 1..Len(metrics)
        PROVE  visible'[v] = visible[v] /\ visible'[0] = visible[0]
    BY <1>0, <2>1, <2>2 DEF Views
  <2> QED BY <1>0, <2>1, <2>3, RankedStays
<1>2. CASE Compare
  <2>1. CASE phase' = "done"
    BY <1>2, <2>1, RankedStays DEF Compare, Leave
  <2>2. CASE phase' # "done"
    <3>1. /\ phase = "compare" /\ visible' = visible
          /\ metrics' = Append(metrics, Comparison(view))
          /\ Sources(visible[0]) \cap Sources(visible[view]) # {}
      BY <1>0, <1>2, <2>2 DEF Compare, Leave
    <3>2. view > 0 /\ Len(metrics) = view - 1
      BY <3>1 DEF Compared
    <3>3. Holds(0, Len(points)) /\ Holds(view, Len(points)) /\ 0 \in Views /\ view \in Views
      BY <1>0, <3>1, <3>2 DEF Projected
    <3>4. /\ IsPercentile(Comparison(view).median, 50, view)
          /\ IsPercentile(Comparison(view).p95, 95, view)
          /\ AtMost(Comparison(view).median, Comparison(view).p95)
      BY <1>0, <3>1, <3>3, ComparisonRanks
    <3>5. /\ DOMAIN metrics' = 1..view
          /\ \A v \in 1..(view - 1) : metrics'[v] = metrics[v]
          /\ metrics'[view] = Comparison(view)
      BY <1>0, <3>1, <3>2, AppendAny
    <3>6. ASSUME NEW v \in 1..view
          PROVE  /\ IsPercentile(metrics'[v].median, 50, v)
                 /\ IsPercentile(metrics'[v].p95, 95, v)
                 /\ AtMost(metrics'[v].median, metrics'[v].p95)
      <4>1. CASE v = view
        BY <3>4, <3>5, <4>1
      <4>2. CASE v # view
        <5>1. v \in DOMAIN metrics /\ metrics'[v] = metrics[v]
          BY <1>0, <3>2, <3>5, <4>2
        <5> QED BY <5>1 DEF Ranked
      <4> QED BY <4>1, <4>2
    <3>7. ASSUME NEW v \in 1..view
          PROVE  /\ IsPercentile(metrics[v].median, 50, v)'
                 /\ IsPercentile(metrics[v].p95, 95, v)'
                 /\ AtMost(metrics[v].median, metrics[v].p95)'
      <4>1. PICK m, p : m = metrics'[v].median /\ p = metrics'[v].p95
        OBVIOUS
      <4>2. IsPercentile(m, 50, v) /\ IsPercentile(p, 95, v) /\ AtMost(m, p)
        BY <3>6, <4>1
      <4>3. IsPercentile(m, 50, v)' /\ IsPercentile(p, 95, v)'
        <5>1. visible' = visible /\ IsPercentile(m, 50, v) /\ IsPercentile(p, 95, v)
          BY <3>1, <4>2
        <5>2. IsPercentile(m, 50, v)'
          BY <5>1 DEF IsPercentile
        <5>3. IsPercentile(p, 95, v)'
          BY <5>1 DEF IsPercentile
        <5> QED BY <5>2, <5>3
      <4>4. AtMost(metrics[v].median, metrics[v].p95)'
        BY <4>1, <4>2
      <4>5. IsPercentile(metrics[v].median, 50, v)'
        BY <4>1, <4>3
      <4>6. IsPercentile(metrics[v].p95, 95, v)'
        BY <4>1, <4>3
      <4> QED BY <4>4, <4>5, <4>6
    <3> QED BY <3>5, <3>7 DEF Ranked
  <2> QED BY <2>1, <2>2
<1>3. CASE UNCHANGED <<metrics, visible>>
  BY <1>3, RankedStays
<1> QED BY <1>1, <1>2, <1>3
        DEF Next, vars, DecodeRecord, Decode, ProjectEnd, DrawPoint, DrawEnd, Write, WriteFails

-----------------------------------------------------------------------------
(* Drawing                                                                 *)

LEMMA NearestStays ==
  ASSUME NEW v, NEW c, NEW n, visible'[v] = visible[v], winner'[v][c] = winner[v][c]
  PROVE  Nearest(v, c, n)' <=> Nearest(v, c, n)
BY DEF Nearest

LEMMA NothingNearest ==
  ASSUME NEW v, NEW c, winner[v][c] = 0
  PROVE  Nearest(v, c, 0)
BY DEF Nearest

\* A point that is drawn takes its cell from all that are farther.
LEMMA PointIsDrawn ==
  ASSUME TypeInv, Drawn, DrawPoint, phase' # "done", NEW c \in Raster
  PROVE  Nearest(view, c, next - 1)'
<1> DEFINE n == next - 1
           V == visible[view]
           w == winner[view][c]
           w1 == winner'[view][c]
           Hits(k) == { i \in 1..k : Cell(V[i]) = c }
<1>1. /\ n \in Nat /\ next = n + 1 /\ next' = n + 2 /\ n + 1 \in 1..Len(V) /\ Len(V) \in Nat
      /\ view \in Views /\ view' = view /\ visible' = visible
      /\ winner' = IF Wins(V[n + 1], winner[view][Cell(V[n + 1])])
                   THEN [winner EXCEPT ![view][Cell(V[n + 1])] = n + 1] ELSE winner
      /\ phase = "draw"
  <2>1. view \in Views /\ next \in Nat \ {0} /\ phase = "draw" /\ next <= Len(V)
    <3>1. phase = "draw" /\ next <= Len(V)
      BY DEF DrawPoint
    <3>2. view \in Views /\ next \in Nat \ {0}
      BY PanelsAssumption DEF TypeInv, Views
    <3> QED BY <3>1, <3>2
  <2>2. V \in Seq(Shown) /\ Len(V) \in Nat
    BY <2>1 DEF TypeInv
  <2>3. Drawable(V[next])
    BY DEF DrawPoint, Leave
  <2>4. /\ next' = next + 1 /\ view' = view /\ visible' = visible
        /\ winner' = IF Wins(V[next], winner[view][Cell(V[next])])
                     THEN [winner EXCEPT ![view][Cell(V[next])] = next] ELSE winner
    BY <2>3 DEF DrawPoint
  <2>5. next = n + 1 /\ n \in Nat
    BY <2>1
  <2> HIDE DEF n, V
  <2> QED BY <2>1, <2>2, <2>4, <2>5
<1>2. \A i \in 1..Len(V) : V[i].depth \in Int
  <2>1. V \in Seq(Shown)
    BY <1>1 DEF TypeInv
  <2>2. \A i \in 1..Len(V) : V[i] \in Shown
    BY <2>1, ElementOfSeq
  <2> QED BY <2>2 DEF Shown
<1>3. w1 = IF Cell(V[n + 1]) = c /\ Wins(V[n + 1], w) THEN n + 1 ELSE w
  <2>1. winner \in [Views -> [Raster -> Nat]]
    BY DEF TypeInv
  <2>2. CASE Cell(V[n + 1]) = c
    BY <1>1, <2>1, <2>2
  <2>3. CASE Cell(V[n + 1]) # c
    BY <1>1, <2>1, <2>3
  <2> QED BY <2>2, <2>3
<1>4. IF Hits(n) = {} THEN w = 0
      ELSE /\ w \in Hits(n)
           /\ \A i \in Hits(n) \ {w} : \/ V[w].depth < V[i].depth
                                       \/ V[w].depth = V[i].depth /\ w < i
  BY <1>1 DEF Drawn, Drawing, Nearest
<1>5. Hits(n + 1) = Hits(n) \cup (IF Cell(V[n + 1]) = c THEN {n + 1} ELSE {})
  <2>1. 1..(n + 1) = 1..n \cup {n + 1}
    BY <1>1
  <2> HIDE DEF V
  <2> QED BY <2>1
<1>6. Hits(n) \subseteq 1..n /\ n + 1 \notin Hits(n)
  BY <1>1
<1>7. w = 0 <=> Hits(n) = {}
  BY <1>1, <1>4, <1>6
<1>8. Wins(V[n + 1], w) <=> (w = 0 \/ V[n + 1].depth < V[w].depth)
  BY DEF Wins
<1>9. IF Hits(n + 1) = {} THEN w1 = 0
      ELSE /\ w1 \in Hits(n + 1)
           /\ \A i \in Hits(n + 1) \ {w1} : \/ V[w1].depth < V[i].depth
                                            \/ V[w1].depth = V[i].depth /\ w1 < i
  <2> HIDE DEF V, w, w1, Hits, n
  <2>1. CASE Cell(V[n + 1]) # c
    BY <1>3, <1>4, <1>5, <2>1
  <2>2. CASE Cell(V[n + 1]) = c /\ w = 0
    BY <1>3, <1>5, <1>7, <1>8, <2>2
  <2>3. CASE Cell(V[n + 1]) = c /\ w # 0 /\ V[n + 1].depth < V[w].depth
    <3>1. w1 = n + 1 /\ Hits(n + 1) = Hits(n) \cup {n + 1}
      BY <1>3, <1>5, <1>8, <2>3
    <3>2. w \in Hits(n) /\ w \in 1..Len(V)
      BY <1>1, <1>4, <1>6, <1>7, <2>3
    <3>3. \A i \in Hits(n) : i \in 1..Len(V) /\ V[n + 1].depth < V[i].depth
      <4> TAKE i \in Hits(n)
      <4>1. i \in 1..Len(V)
        BY <1>1, <1>6
      <4>2. V[i].depth \in Int /\ V[w].depth \in Int /\ V[n + 1].depth \in Int
        BY <1>1, <1>2, <3>2, <4>1
      <4>3. i = w \/ V[w].depth < V[i].depth \/ V[w].depth = V[i].depth
        BY <1>4
      <4> QED BY <2>3, <4>1, <4>2, <4>3
    <3> QED BY <3>1, <3>3
  <2>4. CASE Cell(V[n + 1]) = c /\ w # 0 /\ ~(V[n + 1].depth < V[w].depth)
    <3>1. w1 = w /\ Hits(n + 1) = Hits(n) \cup {n + 1}
      BY <1>3, <1>5, <1>8, <2>4
    <3>2. w \in Hits(n) /\ w \in 1..n /\ w \in 1..Len(V)
      BY <1>1, <1>4, <1>6, <1>7, <2>4
    <3>3. V[w].depth < V[n + 1].depth \/ (V[w].depth = V[n + 1].depth /\ w < n + 1)
      BY <1>1, <1>2, <2>4, <3>2
    <3> QED BY <1>4, <1>7, <2>4, <3>1, <3>2, <3>3
  <2> QED BY <2>1, <2>2, <2>3, <2>4
<1>10. next' - 1 = n + 1 /\ visible'[view] = V
  BY <1>1
<1>11. { i \in 1..(next' - 1) : Cell(visible'[view'][i]) = c } = Hits(n + 1)
  BY <1>1, <1>10
<1>12. view' = view /\ visible'[view'] = V /\ winner'[view'][c] = w1
  BY <1>1
<1> HIDE DEF n, V, w1, Hits
<1> QED BY <1>9, <1>11, <1>12 DEF Nearest

\* Every cell that has a winner has one of its own.
LEMMA RenderedBound ==
  ASSUME NEW v, NEW m \in Nat, \A c \in Raster : Nearest(v, c, m)
  PROVE  LET rendered == { c \in Raster : winner[v][c] # 0 } IN
         Cardinality(rendered) \in Nat /\ Cardinality(rendered) <= m
<1> DEFINE rendered == { c \in Raster : winner[v][c] # 0 }
           CellOf(i) == Cell(visible[v][i])
           images == { CellOf(i) : i \in 1..m }
<1>1. rendered \subseteq images
  BY DEF Nearest
<1>2. IsFiniteSet(1..m) /\ Cardinality(1..m) = m
  BY FS_Interval
<1>3. IsFiniteSet(images) /\ Cardinality(images) <= Cardinality(1..m)
  <2>1. [i \in 1..m |-> CellOf(i)] \in Surjection(1..m, images)
    BY DEF Surjection
  <2> QED BY <1>2, <2>1, FS_Surjection
<1>4. IsFiniteSet(rendered) /\ Cardinality(rendered) <= Cardinality(images)
  BY <1>1, <1>3, FS_Subset
<1>5. Cardinality(rendered) \in Nat /\ Cardinality(images) \in Nat
  BY <1>3, <1>4, FS_CardinalityType
<1> QED BY <1>2, <1>3, <1>4, <1>5

LEMMA DrawnInitially == Init => Drawn
<1> SUFFICES ASSUME Init PROVE Drawn
  OBVIOUS
<1>1. /\ overlay = <<>> /\ Len(overlay) = 0 /\ phase = "decode" /\ last + 1 >= 0
      /\ 0..(Len(overlay) - 1) = {}
  BY PanelsAssumption DEF Init
<1>2. overlay \in Seq(Overlays)
  BY <1>1, EmptySeq
<1>3. \A v \in Views : \A c \in Raster : winner[v][c] = 0
  BY DEF Init
<1> QED BY <1>1, <1>2, <1>3 DEF Drawn, Drawing

\* Before the first overlay nothing is drawn.
LEMMA BlankStays ==
  ASSUME TypeInv, Drawn, UNCHANGED <<overlay, winner, last>>,
         phase \in {"decode", "project", "compare"},
         phase' # "write", phase' = "draw" => view' = 0 /\ next' = 1,
         phase' = "draw" => visible' = visible
  PROVE  Drawn'
<1>1. /\ overlay = <<>> /\ Len(overlay) = 0 /\ 0..(Len(overlay) - 1) = {} /\ 0 \in Views
      /\ \A v \in Views : \A c \in Raster : winner[v][c] = 0
  BY PanelsAssumption DEF Drawn, Drawing, Views
<1>2. \A c \in Raster : Nearest(0, c, 0)
  BY <1>1, NothingNearest
<1>3. phase' = "draw" => \A c \in Raster : Nearest(0, c, 0)'
  BY <1>2, NearestStays
<1>4. Len(visible[0]) \in Nat
  BY <1>1 DEF TypeInv
<1>5. phase' = "draw" => \A c \in Raster : Nearest(view, c, next - 1)'
  <2> HAVE phase' = "draw"
  <2>1. view' = 0 /\ next' - 1 = 0
    OBVIOUS
  <2> QED BY <1>3, <2>1
<1> QED BY <1>1, <1>4, <1>5 DEF Drawn, Drawing

\* After the last one, or after an exception, what is drawn stays.
LEMMA FinishedStays ==
  ASSUME NEW v, overlay'[v + 1] = overlay[v + 1], visible'[v] = visible[v],
         \A c \in Raster : winner'[v][c] = winner[v][c], Finished(v)
  PROVE  Finished(v)'
<1>1. \A c \in Raster : Nearest(v, c, Len(visible[v]))
  BY DEF Finished
<1>2. \A c \in Raster : Nearest(v, c, Len(visible[v]))'
  BY <1>1, NearestStays
<1> QED BY <1>2 DEF Finished

LEMMA AllStays ==
  ASSUME Drawn, UNCHANGED <<overlay, winner, visible, last>>,
         phase' = "done" \/ UNCHANGED <<phase, view, next>>
  PROVE  Drawn'
<1>1. \A v \in 0..(Len(overlay) - 1) : Finished(v)'
  BY FinishedStays DEF Drawn
<1>2. Drawing'
  <2>1. CASE phase' = "done"
    BY <2>1 DEF Drawing
  <2>2. CASE UNCHANGED <<phase, view, next>>
    <3>1. \A c : Nearest(view, c, next - 1)' <=> Nearest(view, c, next - 1)
      BY <2>2 DEF Nearest
    <3> QED BY <2>2, <3>1 DEF Drawn, Drawing
  <2> QED BY <2>1, <2>2
<1> QED BY <1>1, <1>2 DEF Drawn

LEMMA DrawPointDraws == TypeInv /\ Drawn /\ DrawPoint => Drawn'
<1> SUFFICES ASSUME TypeInv, Drawn, DrawPoint PROVE Drawn'
  OBVIOUS
<1>1. CASE phase' = "done"
  BY <1>1, AllStays DEF DrawPoint, Leave
<1>2. CASE phase' # "done"
  <2>1. \A c \in Raster : Nearest(view, c, next - 1)'
    BY <1>2, PointIsDrawn
  <2>2. /\ phase = "draw" /\ phase' = phase /\ next' = next + 1 /\ next <= Len(visible[view])
        /\ next \in Nat \ {0} /\ view \in Views /\ view \in Nat
        /\ UNCHANGED <<view, visible, last, overlay>>
    BY <1>2, PanelsAssumption DEF DrawPoint, Leave, TypeInv, Views
  <2>3. \A v \in Views : v # view => winner'[v] = winner[v]
    BY <2>2 DEF DrawPoint, Leave, TypeInv
  <2>4. Len(overlay) = view
    BY <2>2 DEF Drawn, Drawing
  <2>5. \A v \in 0..(view - 1) : v \in Views /\ v # view
    BY <2>2, PanelsAssumption DEF Views
  <2>6. \A v \in 0..(Len(overlay) - 1) : Finished(v)'
    BY <2>2, <2>3, <2>4, <2>5, FinishedStays DEF Drawn
  <2>7. \A v \in Views : v > view => v # view /\ \A c \in Raster : winner[v][c] = 0
    BY <2>2, PanelsAssumption DEF Drawn, Drawing, Views
  <2>8. \A v \in Views : v > view => \A c \in Raster : winner'[v][c] = 0
    BY <2>3, <2>7
  <2>9. Len(visible[view]) \in Nat /\ next' - 1 <= Len(visible[view])
    BY <2>2 DEF TypeInv
  <2>10. Drawing'
    BY <2>1, <2>2, <2>4, <2>8, <2>9 DEF Drawing
  <2> QED BY <2>2, <2>6, <2>10 DEF Drawn
<1> QED BY <1>1, <1>2

LEMMA DrawEndDraws == TypeInv /\ Drawn /\ DrawEnd => Drawn'
<1> SUFFICES ASSUME TypeInv, Drawn, DrawEnd PROVE Drawn'
  OBVIOUS
<1> DEFINE m == Len(visible[view])
<1>1. /\ phase = "draw" /\ view \in Views /\ view \in 0..last /\ last \in Nat /\ m \in Nat
      /\ next - 1 = m /\ next' = 1 /\ Len(overlay) = view /\ overlay \in Seq(Overlays)
      /\ UNCHANGED <<visible, winner, last>> /\ overlay' = Append(overlay, OverlayOfView)
      /\ 0..last \subseteq Views
  <2>1. /\ phase = "draw" /\ view \in Views /\ view \in 0..last /\ last \in Nat /\ 0..last \subseteq Views
        /\ next \in Nat \ {0} /\ next > m
    BY PanelsAssumption DEF TypeInv, DrawEnd, Views
  <2>2. m \in Nat
    BY <2>1 DEF TypeInv
  <2>3. next - 1 <= m /\ Len(overlay) = view /\ overlay \in Seq(Overlays)
    BY <2>1 DEF Drawn, Drawing
  <2> HIDE DEF m
  <2> QED BY <2>1, <2>2, <2>3 DEF DrawEnd
<1>2. \A c \in Raster : Nearest(view, c, m)
  BY <1>1 DEF Drawn, Drawing
<1>3. /\ OverlayOfView \in Overlays /\ OverlayOfView.projected = m
      /\ OverlayOfView.rendered <= OverlayOfView.projected
      /\ OverlayOfView.occluded = OverlayOfView.projected - OverlayOfView.rendered
  <2> DEFINE rendered == Cardinality({ c \in Raster : winner[view][c] # 0 })
  <2>1. rendered \in Nat /\ rendered <= m
    BY <1>1, <1>2, RenderedBound
  <2>2. OverlayOfView = [projected |-> m, rendered |-> rendered, occluded |-> m - rendered]
    BY DEF OverlayOfView
  <2> HIDE DEF rendered, m
  <2> QED BY <1>1, <2>1, <2>2 DEF Overlays
<1>4. /\ overlay' \in Seq(Overlays) /\ Len(overlay') = view + 1
      /\ \A i \in 1..view : overlay'[i] = overlay[i]
      /\ overlay'[view + 1] = OverlayOfView
  BY <1>1, <1>3, AppendProperties
<1>5. ASSUME NEW v \in 0..view
      PROVE  Finished(v)'
  <2>1. CASE v = view
    <3>1. v \in Nat /\ \A c \in Raster : Nearest(v, c, Len(visible[v]))
      BY <1>1, <1>2, <2>1
    <3>2. \A c \in Raster : Nearest(v, c, Len(visible[v]))'
      BY <1>1, <3>1, NearestStays
    <3> QED BY <1>1, <1>3, <1>4, <2>1, <3>2 DEF Finished
  <2>2. CASE v # view
    <3>1. v \in 0..(Len(overlay) - 1) /\ overlay'[v + 1] = overlay[v + 1]
      BY <1>1, <1>4, <2>2
    <3> QED BY <1>1, <3>1, FinishedStays DEF Drawn
  <2> QED BY <2>1, <2>2
<1>6. \A v \in 0..(Len(overlay') - 1) : Finished(v)'
  BY <1>1, <1>4, <1>5
<1>7. \A v \in Views : v > view => \A c \in Raster : winner[v][c] = 0
  BY <1>1 DEF Drawn, Drawing
<1>8. Drawing'
  <2>1. CASE view < last
    <3>1. phase' = "draw" /\ view' = view + 1 /\ view + 1 \in Views
      BY <1>1, <2>1 DEF DrawEnd
    <3>2. PICK u \in Views : u = view + 1 /\ u > view
      BY <1>1, <3>1
    <3>3. \A c \in Raster : Nearest(u, c, 0)
      BY <1>1, <1>7, <3>2, NothingNearest
    <3>4. \A c \in Raster : Nearest(u, c, 0)'
      BY <1>1, <3>3, NearestStays
    <3>5. view' = u /\ next' - 1 = 0
      BY <1>1, <3>1, <3>2
    <3>6. \A c \in Raster : Nearest(view, c, next - 1)'
      BY <3>4, <3>5
    <3>7. Len(visible[u]) \in Nat
      BY DEF TypeInv
    <3>8. \A v \in Views : v > u => v > view
      BY <1>1, <3>2, PanelsAssumption DEF Views
    <3>9. \A v \in Views : v > u => \A c \in Raster : winner'[v][c] = 0
      BY <1>1, <1>7, <3>8
    <3>10. Len(overlay') = u /\ 0 <= Len(visible[u]) /\ visible' = visible
      BY <1>1, <1>4, <3>2, <3>7
    <3> QED BY <3>1, <3>5, <3>6, <3>9, <3>10 DEF Drawing
  <2>2. CASE view >= last
    <3>1. phase' = "write" /\ view' = view /\ view = last
      BY <1>1, <2>2 DEF DrawEnd
    <3> QED BY <1>1, <1>4, <1>7, <3>1 DEF Drawing
  <2> QED BY <1>1, <2>1, <2>2
<1> QED BY <1>1, <1>4, <1>6, <1>8 DEF Drawn

LEMMA DrawnPreserved == TypeInv /\ Decoded /\ Projected /\ Drawn /\ [Next]_vars => Drawn'
<1> SUFFICES ASSUME TypeInv, Decoded, Projected, Drawn, [Next]_vars PROVE Drawn'
  OBVIOUS
<1>1. CASE DecodeRecord
  BY <1>1, BlankStays DEF DecodeRecord
<1>2. CASE Decode
  BY <1>2, BlankStays DEF Decode, Leave
<1>3. CASE ProjectPoint
  BY <1>3, BlankStays DEF ProjectPoint
<1>4. CASE ProjectEnd
  BY <1>4, BlankStays, PanelsAssumption DEF ProjectEnd, TypeInv
<1>5. CASE Compare
  BY <1>5, BlankStays DEF Compare, Leave, Projected
<1>6. CASE DrawPoint
  BY <1>6, DrawPointDraws
<1>7. CASE DrawEnd
  BY <1>7, DrawEndDraws
<1>8. CASE Write \/ WriteFails
  BY <1>8, AllStays DEF Write, WriteFails, Leave
<1>9. CASE UNCHANGED vars
  BY <1>9, AllStays DEF vars
<1> QED BY <1>1, <1>2, <1>3, <1>4, <1>5, <1>6, <1>7, <1>8, <1>9 DEF Next

-----------------------------------------------------------------------------
(* Exit status                                                             *)

LEMMA InSightIsRecorded ==
  ASSUME TypeInv
  PROVE  /\ DOMAIN file = 1..Len(file)
         /\ \A v, s : InSight(v, s) = Recorded(v, s, Len(file))
<1>1. DOMAIN file = 1..Len(file)
  BY LenProperties DEF TypeInv
<1> QED BY <1>1 DEF InSight, Recorded

\* What the run has decoded, told by the file.
LEMMA JudgedByTheFile ==
  ASSUME TypeInv, Decoded, phase \notin {"decode", "done"}
  PROVE  /\ Usable
         /\ \A v \in Views : Meets(v) <=> InSight(0, "visible") \cap InSight(v, "visible") # {}
         /\ \A v \in Views, s \in Statuses :
              Cardinality(Having(v, s, Len(points))) = Cardinality(InSight(v, s))
<1>1. Read = Len(file)
  BY DEF Read
<1>2. readable /\ points # <<>>
  BY DEF Decoded
<1>3. Usable
  BY <1>1, <1>2, InSightIsRecorded DEF Decoded, Usable
<1>4. \A v \in Views : Meets(v) <=> InSight(0, "visible") \cap InSight(v, "visible") # {}
  BY <1>1, <1>2, InSightIsRecorded DEF Decoded, Meets
<1>5. \A v \in Views, s \in Statuses :
        Cardinality(Having(v, s, Len(points))) = Cardinality(InSight(v, s))
  BY <1>1, <1>2, InSightIsRecorded DEF Decoded
<1> QED BY <1>3, <1>4, <1>5

\* renderDepthOverlay never meets a point that it refuses.
LEMMA VisibleIsDrawable ==
  ASSUME TypeInv, NEW v \in Views, NEW i \in 1..Len(visible[v]), Holds(v, Len(points))
  PROVE  Drawable(visible[v][i])
<1> DEFINE p == visible[v][i]
           c == Moved(v, points[p.source])
<1>1. /\ p.source \in 1..Len(points) /\ Status(c) = "visible"
      /\ p.at = Homogeneous(c) /\ p.depth = Depth(c)
  BY DEF Holds
<1>2. points[p.source] \in FiniteRecords
  BY <1>1, ElementOfSeq DEF TypeInv
<1>3. c # NonFinite
  BY <1>1 DEF Status
<1>4. Depth(c) \in Int /\ Homogeneous(c) \in Int \X Int \X Int
  BY <1>2, <1>3, Located
<1> DEFINE h == Homogeneous(c)
<1>5. /\ ~(Depth(c) <= ZMin) /\ ~(h[3] <= 0)
      /\ ~(h[1] < 0 \/ h[2] < 0 \/ h[1] >= Width * h[3] \/ h[2] >= Height * h[3])
  BY <1>1 DEF Status
<1>6. h[1] \in Int /\ h[2] \in Int /\ h[3] \in Int
  BY <1>4
<1> HIDE DEF h, c, p
<1>7. Depth(c) > 0 /\ h[1] >= 0 /\ h[2] >= 0
  <2>1. Depth(c) \in Int /\ ZMin \in Nat /\ ~(Depth(c) <= ZMin)
    BY <1>4, <1>5, ImageAssumption
  <2> QED BY <1>5, <1>6, <2>1
<1>8. Width * h[3] \in Int /\ Height * h[3] \in Int
  BY <1>6, ImageAssumption
<1>9. h[1] < Width * h[3] /\ h[2] < Height * h[3]
  BY <1>5, <1>6, <1>8
<1> QED BY <1>1, <1>7, <1>9 DEF Drawable, h, p

LEMMA EndedPreserved ==
  TypeInv /\ Decoded /\ Projected /\ Compared /\ Drawn /\ Ended /\ [Next]_vars => Ended'
<1> SUFFICES ASSUME TypeInv, Decoded, Projected, Compared, Drawn, Ended, [Next]_vars
             PROVE  Ended'
  OBVIOUS
<1>0. /\ view \in 0..last /\ last \in Nat /\ 0..last \subseteq Views /\ 0 \in Views
      /\ Len(points) \in Nat /\ Len(file) \in Nat
  BY PanelsAssumption DEF TypeInv, Views
<1>1. CASE phase' # "done" /\ phase # "done"
  <2>1. exit' = exit
    BY <1>1 DEF Next, vars, DecodeRecord, Decode, ProjectPoint, ProjectEnd, Compare, DrawPoint,
                DrawEnd, Write, WriteFails, Leave
  <2> QED BY <1>1, <2>1 DEF Ended, OutcomeTellsWhy
<1>2. CASE phase = "done"
  <2>1. UNCHANGED vars
    BY <1>2 DEF Next, DecodeRecord, Decode, ProjectPoint, ProjectEnd, Compare, DrawPoint,
                DrawEnd, Write, WriteFails
  <2> QED BY <2>1 DEF vars, Ended, OutcomeTellsWhy, Usable, InSight
<1>3. CASE phase # "done" /\ phase' = "done"
  <2>1. UNCHANGED <<file, readable, last, overlay, metrics, counts>>
    BY <1>3 DEF Next, vars, DecodeRecord, Decode, ProjectPoint, ProjectEnd, Compare, DrawPoint,
                DrawEnd, Write, WriteFails, Leave
  <2>2. (Usable' <=> Usable) /\ \A v, s : InSight(v, s)' = InSight(v, s)
    BY <2>1 DEF Usable, InSight
  <2>3. CASE Decode
    <3>1. phase = "decode" /\ exit' = "input" /\ (~readable \/ points = <<>>)
      BY <1>3, <2>3 DEF Decode, Leave
    <3>2. readable => Read = Len(file)
      <4> HAVE readable
      <4>1. next > Len(file) /\ next - 1 <= Len(file) /\ next \in Nat
        BY <2>3, <3>1 DEF Decode, Decoded, TypeInv
      <4> QED BY <1>0, <3>1, <4>1 DEF Read
    <3>3. ~Usable
      BY <3>1, <3>2, InSightIsRecorded DEF Decoded, Usable
    <3> QED BY <1>3, <2>2, <3>1, <3>3 DEF Ended, OutcomeTellsWhy
  <2>4. CASE Compare
    <3>1. /\ phase = "compare" /\ exit' = "processing"
          /\ \/ ~Indexable(visible[0]) \/ ~Indexable(visible[view])
             \/ Sources(visible[0]) \cap Sources(visible[view]) = {}
      BY <1>3, <2>4 DEF Compare, Leave
    <3>2. Holds(0, Len(points)) /\ Holds(view, Len(points)) /\ view \in 1..last
      BY <1>0, <3>1 DEF Projected, Compared
    <3>3. ~Meets(view)
      BY <1>0, <3>1, <3>2, SourcesOfView DEF Meets
    <3>4. Usable /\ InSight(0, "visible") \cap InSight(view, "visible") = {}
      BY <1>0, <3>1, <3>2, <3>3, JudgedByTheFile
    <3>5. \E v \in 1..last : InSight(0, "visible") \cap InSight(v, "visible") = {}
      BY <3>2, <3>4
    <3> QED BY <1>3, <2>1, <2>2, <3>1, <3>4, <3>5 DEF Ended, OutcomeTellsWhy
  <2>5. CASE DrawPoint
    <3>1. phase = "draw" /\ next \in 1..Len(visible[view]) /\ Holds(view, Len(points))
      BY <1>0, <2>5 DEF DrawPoint, Projected, TypeInv
    <3>2. Drawable(visible[view][next])
      BY <1>0, <3>1, VisibleIsDrawable
    <3> QED BY <1>3, <2>5, <3>1, <3>2 DEF DrawPoint
  <2>6. CASE Write \/ WriteFails
    <3>1. phase = "write" /\ exit' \in {"output", "success"}
      BY <2>6 DEF Write, WriteFails, Leave
    <3>2. /\ Usable
          /\ \A v \in 1..last : InSight(0, "visible") \cap InSight(v, "visible") # {}
      BY <1>0, <3>1, JudgedByTheFile DEF Compared
    <3>3. \A v \in 0..last, s \in Statuses : counts[v][s] = Cardinality(InSight(v, s))
      BY <1>0, <3>1, JudgedByTheFile DEF Projected, Holds
    <3>4. Len(overlay) = last + 1 /\ Len(metrics) = last
      BY <3>1 DEF Drawn, Drawing, Compared
    <3> QED BY <1>3, <2>1, <2>2, <3>1, <3>2, <3>3, <3>4 DEF Ended, OutcomeTellsWhy
  <2> QED BY <1>3, <2>3, <2>4, <2>5, <2>6
          DEF Next, vars, DecodeRecord, ProjectPoint, ProjectEnd, DrawEnd
<1> QED BY <1>1, <1>2, <1>3

-----------------------------------------------------------------------------
(* Theorems                                                                *)

LEMMA Initially == Init => IInv
<1>1. Init => Ended /\ Ranked
  BY DEF Init, Ended, OutcomeTellsWhy, Ranked
<1> QED BY <1>1, TypesInitially, DecodedInitially, ProjectedInitially, ComparedInitially,
           DrawnInitially DEF IInv

LEMMA Inductive == IInv /\ [Next]_vars => IInv'
BY TypesPreserved, DecodedPreserved, ProjectedPreserved, ComparedPreserved, RankedPreserved,
   DrawnPreserved, EndedPreserved DEF IInv

LEMMA Invariance == Spec => []IInv
BY Initially, Inductive, PTL DEF Spec

\* The loops lose and repeat no point: every common, disappeared and appeared point
\* of a panel is one of the points that the two views counted as visible
\* (compareProjectedPoints), for every file, transform and matrix.
THEOREM OverlapConserved == Spec => []OverlapIsConserved
<1>1. IInv => OverlapIsConserved
  BY DEF IInv
<1> QED BY <1>1, Invariance, PTL

\* The z-buffer of renderDepthOverlay leaves in every cell the nearest point, the
\* earliest of equals, for every file, transform, matrix and size of the image.
THEOREM NearestPointWins == Spec => []NearestWins
<1>1. IInv => NearestWins
  <2> SUFFICES ASSUME IInv, NEW v \in 0..(Len(overlay) - 1), NEW c \in Raster
               PROVE  LET hits == { i \in DOMAIN visible[v] : Cell(visible[v][i]) = c }
                          w == winner[v][c]
                      IN IF hits = {} THEN w = 0
                         ELSE /\ w \in hits
                              /\ \A i \in hits \ {w} :
                                   \/ visible[v][w].depth < visible[v][i].depth
                                   \/ visible[v][w].depth = visible[v][i].depth /\ w < i
    BY DEF NearestWins
  <2>1. v \in Views
    BY PanelsAssumption DEF IInv, TypeInv, Drawn, Views
  <2>2. DOMAIN visible[v] = 1..Len(visible[v])
    BY <2>1, LenProperties DEF IInv, TypeInv
  <2>3. Nearest(v, c, Len(visible[v]))
    BY DEF IInv, Drawn, Finished
  <2> QED BY <2>2, <2>3 DEF Nearest
<1> QED BY <1>1, Invariance, PTL

\* Exit status and tallies of a finished run are those of the records of the file
\* (the run() of project_kitti and analyze_calibration), whatever the file and
\* however many perturbations.
THEOREM OutcomeCorrect == Spec => []OutcomeTellsWhy
<1>1. IInv => OutcomeTellsWhy
  BY DEF IInv, Ended
<1> QED BY <1>1, Invariance, PTL

\* The accounting that the artifact writers repeat never refuses what the loops
\* tallied, for every file, transform, matrix and image.
THEOREM AccountingAccepted == Spec => []TalliesAccepted
<1>1. IInv => TalliesAccepted
  <2> SUFFICES ASSUME IInv, phase = "write"
               PROVE  /\ \A v \in 0..last : ~TallyRefused(v)
                      /\ \A v \in 1..last : metrics[v].common # 0
    BY DEF TalliesAccepted
  <2>1. ASSUME NEW v \in 0..last
        PROVE  ~TallyRefused(v)
    <3>1. Total(v) = Len(points) /\ counts[v]["visible"] = Len(visible[v])
      BY DEF IInv, Projected, Holds
    <3>2. v \in 0..(Len(overlay) - 1)
      BY PanelsAssumption DEF IInv, TypeInv, Drawn, Drawing
    <3>3. Finished(v) /\ overlay[v + 1] \in Overlays
      BY <3>2, ElementOfSeq DEF IInv, Drawn
    <3> QED BY <3>1, <3>3 DEF Finished, TallyRefused, Overlays
  <2>2. \A v \in 1..last : metrics[v].common # 0
    BY DEF IInv, Compared
  <2> QED BY <2>1, <2>2
<1> QED BY <1>1, Invariance, PTL

\* nearestRank gives compareProjectedPoints the least displacement that half, and 95
\* of a hundred, of the common points do not exceed, for any number of them and any
\* ties.
THEOREM PercentilesRight == Spec => []PercentilesAreNearestRank
<1>1. IInv => PercentilesAreNearestRank
  BY DEF IInv, Ranked, PercentilesAreNearestRank
<1> QED BY <1>1, Invariance, PTL

\* Neither the accounting nor the metrics that the loops leave behind is ever a
\* reason for the artifact writers to refuse a finished run.
THEOREM WriterNeverRefuses == Spec => []WriterAccepts
<1>1. IInv /\ TalliesAccepted => WriterAccepts
  <2> SUFFICES ASSUME IInv, TalliesAccepted, phase = "write" PROVE ~Refused
    BY DEF WriterAccepts
  <2>1. metrics \in Seq(ToSet(metrics)) /\ Len(metrics) = last
    BY DEF IInv, Compared
  <2>2. DOMAIN metrics = 1..last
    BY <2>1, LenProperties
  <2>3. \A v \in 1..last : AtMost(metrics[v].median, metrics[v].p95)
    BY <2>2 DEF IInv, Ranked
  <2> QED BY <2>3 DEF TalliesAccepted, Refused, MetricsRefused
<1> QED BY <1>1, Invariance, AccountingAccepted, PTL
=============================================================================
