CONSTANTS
  Frames = {lidar, vehicle, camera, world}
  Rigid <- MCRigid
  Offered <- MCOffered
  One <- MCOne
  Compose <- MCCompose
  Invert <- MCInvert
  None = None
SPECIFICATION Spec
SYMMETRY MCSymmetry
INVARIANTS
  Forest
  LookupComposes
  RefusalsTellTheTruth
PROPERTIES
  AnswersStand
CHECK_DEADLOCK FALSE
