CONSTANTS
  Files <- MCFiles
  NonFinite = NonFinite
  Panels = 3
  Moved <- MCMoved
  Depth <- MCDepth
  Homogeneous <- MCHomogeneous
  ZMin = 1
  Width = 2
  Height = 1
  MaxRecords = 3
SPECIFICATION Spec
INVARIANTS
  WriterAccepts
  OverlapIsConserved
  PercentilesAreNearestRank
  NearestWins
  OutcomeTellsWhy
CHECK_DEADLOCK FALSE
