CONSTANTS
  Writers = {w1, w2}
  Prior = prior
  Nobody = nobody
  LastFile = 2
  Programs = {"recovery"}
SPECIFICATION Spec
INVARIANTS
  ExistingRunsRefusedWithoutOverwrite
CHECK_DEADLOCK FALSE
