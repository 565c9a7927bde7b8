CONSTANTS
  Inputs <- MCInputs
  Grid <- MCGrid
  Seen <- MCSeen
  Nominal = 0
  Hidden = 2
  Width = 8
  Delta = 2
  Largest = 200
SPECIFICATION Spec
INVARIANTS
  ReportAddsUp
\* A report is refused or complete in the end.
CHECK_DEADLOCK FALSE
