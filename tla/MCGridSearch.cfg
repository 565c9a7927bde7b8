CONSTANTS
  Searches <- MCSearches
  Invalid = Invalid
  NumericFailure = NumericFailure
  NoTick = NoTick
SPECIFICATION FairSpec
INVARIANTS
  TypeOK
  AnswerIsReferenceOptimum
  BestOfVisited
  StatusTellsWhatWasSearched
  VisitsWithinBudget
  DiagnosisOverrunsByOnePass
  OneSidedMeansHiddenNeighbour
PROPERTIES
  SearchEnds
CHECK_DEADLOCK FALSE
