--------------------------- MODULE MCProjectionRun ---------------------------
(* A row of two pixels.  The camera looks along z, two units behind its image, *)
(* so that a point at depth 3 is drawn at x and one at depth 4 at x / 2.       *)
EXTENDS ProjectionRun

CONSTANT MaxRecords   \* bound: the number of records in a file

\* Too near; on the image plane; two pixels; two equal depths and a half pixel in
\* the clamped column and row; one outside to the left, one to the right.
MCRecords == {NonFinite, <<0, 0, 1>>, <<0, 0, 2>>, <<0, 0, 3>>, <<1, 0, 3>>,
              <<1, 0, 4>>, <<3, 1, 4>>, <<-1, 0, 3>>, <<2, 0, 3>>}
MCFiles == UNION { [1..n -> MCRecords] : n \in 0..MaxRecords }

\* View 1: a yaw, rounded to the grid; views 2 and 3: translations along x.
MCMoved(v, p) == CASE v = 0 -> p
                   [] v = 1 -> <<p[1] + p[3] \div 4, p[2], p[3]>>
                   [] v = 2 -> <<p[1] - 1, p[2], p[3]>>
                   [] v = 3 -> <<p[1] + 1, p[2], p[3]>>
MCDepth(c) == c[3]
MCHomogeneous(c) == <<c[1], c[2], c[3] - 2>>

=============================================================================
