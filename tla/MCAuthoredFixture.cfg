CONSTANTS
  Configs <- MCConfigs
  Scene <- MCScene
  Seen <- MCSeen
  Draws <- MCDraws
  Offset <- MCOffset
  Unseen = Unseen
  None = None
  Width = 8
  Height = 8
SPECIFICATION Spec
INVARIANTS
  CorruptionIsDeclared
  LoadIsFaithful
\* A fixture is refused or loaded in the end.
CHECK_DEADLOCK FALSE
