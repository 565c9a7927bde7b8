CONSTANTS
  Writers = {w1, w2}
  Prior = prior
  Nobody = nobody
  LastFile = 2
  Programs = {"projection", "sensitivity", "recovery", "campaign", "fixture", "kitti", "benchmark"}
SPECIFICATION Spec
SYMMETRY MCSymmetry
INVARIANTS
  TypeOK
  StageOwned
  OnlyRacedContentRemovedUnasked
  LateCheckIsNeverStale
PROPERTIES
  WholeRunsAppear
  ForeignStagePreserved
  PriorFilesSurvive
  ImplementsRunStore
CHECK_DEADLOCK FALSE
