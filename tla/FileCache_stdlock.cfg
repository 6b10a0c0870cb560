CONSTANTS
  Writers = {1, 2}
  Keys = {k1}
  Kinds = {"put", "remove"}
  MaxWrites = 3
  MaxFlushes = 3
  MaxCrashes = 0
  FaultKinds = {}
  MaxFaults = 0
  SplitTryLock = TRUE
  NoWriter = NoWriter
SPECIFICATION Spec
INVARIANTS LiveWritesSurvive
CHECK_DEADLOCK FALSE
