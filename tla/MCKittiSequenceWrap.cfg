CONSTANTS
  None = None
  Malformed = Malformed
  NotNumeric = NotNumeric
  Regular <- MCRegular
  Extension <- MCExtension
  Number <- MCNumber
  Picture <- MCPicture
  Contents <- MCContents
  Requests = {0, 9, 10}
  Half = 8
  MaximumFrames = 3
  MaximumTimestamps = 3
  MCTimes = "far"
SPECIFICATION Spec
INVARIANTS
  AcceptedTimesIncrease
\* A load ends, with the layout or with a refusal.
CHECK_DEADLOCK FALSE
