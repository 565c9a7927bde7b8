CONSTANTS
  Cases <- MCCases
  L2Case = 4
  HuberCase = 5
  Outcomes <- MCOutcomes
  Leftovers <- MCLeftovers
  Nothing = Nothing
SPECIFICATION CampaignSpec
INVARIANTS
  TypeOK
  VerdictIsTheGates
  OwnFixture
\* A campaign ends.
CHECK_DEADLOCK FALSE
