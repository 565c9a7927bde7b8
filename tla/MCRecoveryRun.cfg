CONSTANTS
  Versions <- MCVersions
  Training <- MCTraining
  Held <- MCHeld
  ContentOf <- MCContentOf
  MaxReplacements = 2
  Missing = Missing
  NotYet = NotYet
SPECIFICATION FairSpec
INVARIANTS
  TypeOK
  OneFixtureReported
  ExitCodeTellsReport
PROPERTIES
  SearchBlindToHeldOut
  RunEnds
CHECK_DEADLOCK FALSE
