----------------------------- MODULE FrameGraph -----------------------------
(***************************************************************************)
(* sfr::geometry::FrameGraph: rigid transforms between named frames, stored *)
(* in insertion order and looked up by a breadth-first search that follows *)
(* an edge in either direction.  Transforms are the elements of a group    *)
(* that need not commute; two agree when they are equal (the 1e-9 of       *)
(* transformsAgree only chooses between two refusals).                     *)
(***************************************************************************)
EXTENDS Naturals, FiniteSets, Sequences

CONSTANTS
  Frames,          \* the frame names that callers use
  Rigid,           \* the rigid transforms
  Offered,         \* those that callers add
  One,             \* RigidTransform::Identity
  Compose(_, _),   \* Compose(T_target_middle, T_middle_source)
  Invert(_),       \* T.inverse()
  None             \* std::nullopt

ASSUME GroupAssumption ==
  /\ One \in Rigid /\ None \notin Rigid /\ Offered \subseteq Rigid
  /\ \A a \in Rigid : /\ Invert(a) \in Rigid
                      /\ Compose(a, One) = a /\ Compose(One, a) = a
                      /\ Compose(a, Invert(a)) = One /\ Compose(Invert(a), a) = One
  /\ \A a, b, c \in Rigid : /\ Compose(a, b) \in Rigid
                            /\ Compose(a, Compose(b, c)) = Compose(Compose(a, b), c)
ASSUME FramesAreFinite == IsFiniteSet(Frames)

VARIABLE edges    \* edges_, in insertion order

Edges == [target : Frames, source : Frames, transform : Offered]

-----------------------------------------------------------------------------
(* lookup                                                                  *)

\* The frame that edge e leads to from frame f, and the transform on that way.
Touches(e, f) == f \in {e.source, e.target}
Neighbor(e, f) == IF e.source = f THEN e.target ELSE e.source
Crossing(e, f) == IF e.source = f THEN e.transform ELSE Invert(e.transform)

\* Mutant: the new edge is applied before the path that leads to it.
ExtendReversed(visited, e, f) ==
  [g \in DOMAIN visited \union {Neighbor(e, f)} |->
     IF g \in DOMAIN visited THEN visited[g] ELSE Compose(visited[f], Crossing(e, f))]

\* T_visited_source after edge e was followed from frame f.
Extend(visited, e, f) ==
  [g \in DOMAIN visited \union {Neighbor(e, f)} |->
     IF g \in DOMAIN visited THEN visited[g] ELSE Compose(Crossing(e, f), visited[f])]

\* The loop body for one edge, seen from the frame taken off the queue.
Follow(s, e, current) ==
  IF ~Touches(e, current) \/ Neighbor(e, current) \in DOMAIN s.visited THEN s
  ELSE [frontier |-> Append(s.frontier, Neighbor(e, current)),
        visited |-> Extend(s.visited, e, current)]

\* One turn of the outer loop: the front of the queue looks at every edge.
Turn(es, search) ==
  LET current == Head(search.frontier)
      looked[k \in 0..Len(es)] ==
        IF k = 0 THEN [frontier |-> Tail(search.frontier), visited |-> search.visited]
        ELSE Follow(looked[k - 1], es[k], current)
  IN looked[Len(es)]

Started(source) == [frontier |-> <<source>>, visited |-> [f \in {source} |-> One]]

\* The search after n turns.  The code returns as soon as the target is visited;
\* what it was visited with does not change afterwards.
Reached(es, source) ==
  LET after[n \in 0..Cardinality(Frames)] ==
        IF n = 0 THEN Started(source)
        ELSE IF after[n - 1].frontier = <<>> THEN after[n - 1] ELSE Turn(es, after[n - 1])
  IN after[Cardinality(Frames)].visited

Lookup(es, target, source) ==
  LET visited == Reached(es, source)
  IN IF target = source THEN One
     ELSE IF target \in DOMAIN visited THEN visited[target] ELSE None

-----------------------------------------------------------------------------
(* addTransform                                                            *)

\* Mutant: only the same directed edge is refused.
RefusalOfDuplicates(e) ==
  IF e.target = e.source THEN "redundant_edge"
  ELSE IF \E i \in DOMAIN edges : edges[i].target = e.target /\ edges[i].source = e.source
  THEN "duplicate_edge"
  ELSE IF Lookup(edges, e.target, e.source) \notin {None, e.transform} THEN "inconsistent_edge"
  ELSE "added"

\* Mutant: the path is not compared, so that any new pair of frames is accepted.
RefusalWithoutPath(e) ==
  IF e.target = e.source THEN "redundant_edge"
  ELSE IF \E i \in DOMAIN edges : {edges[i].target, edges[i].source} = {e.target, e.source}
  THEN "duplicate_edge"
  ELSE "added"

\* Mutant: the path is looked up from the target to the source.
RefusalOnWayBack(e) ==
  LET existing == Lookup(edges, e.source, e.target) IN
  IF e.target = e.source THEN "redundant_edge"
  ELSE IF \E i \in DOMAIN edges : edges[i].target = e.target /\ edges[i].source = e.source
  THEN "duplicate_edge"
  ELSE IF existing = None THEN "added"
  ELSE IF existing = e.transform THEN "redundant_edge" ELSE "inconsistent_edge"

\* The checks of addTransform in their order; "added" when none refuses.
Refusal(e) ==
  LET existing == Lookup(edges, e.target, e.source) IN
  IF e.target = e.source THEN "redundant_edge"
  ELSE IF \E i \in DOMAIN edges : edges[i].target = e.target /\ edges[i].source = e.source
  THEN "duplicate_edge"
  ELSE IF existing = None THEN "added"
  ELSE IF existing = e.transform THEN "redundant_edge" ELSE "inconsistent_edge"

Init == edges = <<>>

\* A refusal is an exception that leaves the graph as it was.
AddTransform(e) ==
  edges' = IF Refusal(e) = "added" THEN Append(edges, e) ELSE edges

Next == \E e \in Edges : AddTransform(e)

Spec == Init /\ [][Next]_edges

-----------------------------------------------------------------------------
(* Properties                                                              *)

\* Reference: the frames that a set of edges ties to f, grown until it is closed.
Closed(es, S) == \A i \in DOMAIN es : es[i].target \in S <=> es[i].source \in S
Tied(es, f) ==
  CHOOSE S \in SUBSET Frames :
    /\ f \in S /\ Closed(es, S)
    /\ \A R \in SUBSET Frames : f \in R /\ Closed(es, R) => S \subseteq R

\* The graph stays a forest, whatever is offered to it: there is one edge less
\* than frames in every connected part (addTransform refuses whatever closes a
\* path, consistent or not).
Forest == Len(edges) + Cardinality({ Tied(edges, f) : f \in Frames }) = Cardinality(Frames)

\* Every lookup of a graph, as a function of target and source.
Table(es) ==
  LET visited == [s \in Frames |-> Reached(es, s)]
  IN [pair \in Frames \X Frames |->
        IF pair[1] \in DOMAIN visited[pair[2]] THEN visited[pair[2]][pair[1]] ELSE None]

\* lookup answers exactly for connected frames, repeats every stored edge, and
\* its answers compose: through any third frame, and back by the inverse.
LookupComposes ==
  LET T == Table(edges) IN
  /\ \A i \in DOMAIN edges : T[edges[i].target, edges[i].source] = edges[i].transform
  /\ \A a, b \in Frames : T[a, b] = None <=> a \notin Tied(edges, b)
  /\ \A a, b, c \in Frames :
       T[a, b] # None /\ T[b, c] # None => T[a, c] = Compose(T[a, b], T[b, c])
  /\ \A a, b \in Frames : T[a, b] # None => T[b, a] = Invert(T[a, b])

\* The error codes tell the truth about the scene: an edge is accepted exactly
\* when it ties frames that were apart, and a path is called redundant when every
\* placement of the frames that fits the graph fits the edge, inconsistent when
\* none does (a repeated directed edge is a duplicate in both cases).
Placements(es) == { p \in [Frames -> Rigid] :
  \A i \in DOMAIN es : p[es[i].target] = Compose(es[i].transform, p[es[i].source]) }
RefusalsTellTheTruth ==
  LET placements == Placements(edges) IN
  \A e \in Edges : e.target # e.source =>
    LET fitting == { p \in placements : p[e.target] = Compose(e.transform, p[e.source]) } IN
    /\ Refusal(e) = "added" <=> e.target \notin Tied(edges, e.source)
    /\ Refusal(e) = "redundant_edge" => fitting = placements
    /\ Refusal(e) = "inconsistent_edge" => fitting = {}

\* What a lookup has answered once, every later lookup answers: an accepted edge
\* never changes the transform between frames that were already connected.
AnswersStand ==
  [][edges' # edges =>
       LET before == Table(edges)
           after == Table(edges')
       IN \A a, b \in Frames : before[a, b] # None => after[a, b] = before[a, b]]_edges

=============================================================================
