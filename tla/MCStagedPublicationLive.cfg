CONSTANTS
  Writers = {w1, w2}
  Prior = prior
  Nobody = nobody
  LastFile = 2
  Programs = {"fixture", "benchmark"}
SPECIFICATION FairSpec
PROPERTIES
  EveryWriterEnds
CHECK_DEADLOCK FALSE
