---------------------------- MODULE MCGridSearch ----------------------------
(* Searches on three grids of at most 25 ticks.  A loss table is flat but   *)
(* for at most two ticks, so that ties, equal minima, gaps and single wells *)
(* fall at every place of the coarse grid, the window and their edges.      *)
EXTENDS GridSearch

Axis(n, s, lo) == [span |-> n, stride |-> s, minimum |-> lo, step |-> 2]

\* The grids, with the candidates that each may need (34 = 3 * 3 + 5 * 5, ...).
MCGrids ==
  { [yaw |-> Axis(2, 2, -4), tx |-> Axis(2, 2, -3), needed |-> 34],
    [yaw |-> Axis(1, 2, -2), tx |-> Axis(1, 2, -2), needed |-> 13],
    [yaw |-> Axis(3, 2, -5), tx |-> Axis(1, 1, 0), needed |-> 18] }

Request(g, table, candidates, projections, ok) ==
  [yaw |-> g.yaw, tx |-> g.tx, observations |-> 2, prepared |-> ok,
   maxCandidates |-> candidates, maxProjections |-> projections, loss |-> table]

\* On the large grid the flat part always has a loss and the first of the two
\* values is the least or none; a loss that is not finite differs from an invalid
\* one in the diagnosis only, and the small grids are enough for it.
Large(g) == g.needed > 20
Tables(g) ==
  LET T == (0..LastTick(g.yaw)) \X (0..LastTick(g.tx)) IN
  { [t \in T |-> IF t = a THEN u ELSE IF t = b THEN v ELSE flat] :
      a \in T, b \in T,
      u \in IF Large(g) THEN {0, Invalid} ELSE {0, Invalid, NumericFailure},
      v \in IF Large(g) THEN {0, 1, Invalid} ELSE {0, 1, Invalid, NumericFailure},
      flat \in IF Large(g) THEN {2} ELSE {2, Invalid} }

\* Every table with the least budget that suffices, and one table with budgets
\* around it.
MCSearches ==
  UNION { { Request(g, table, g.needed, 2 * g.needed, TRUE) : table \in Tables(g) } : g \in MCGrids }
  \union
  UNION { { Request(g, [t \in (0..LastTick(g.yaw)) \X (0..LastTick(g.tx)) |-> 2], c, p, ok) :
              c \in {g.needed - 5, g.needed - 1, g.needed},
              p \in {2 * g.needed - 10, 2 * g.needed - 1, 2 * g.needed},
              ok \in BOOLEAN } : g \in MCGrids }

=============================================================================
