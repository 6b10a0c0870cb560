CONSTANTS
  Writers = {1, 2}
  Keys = {k1}
  Kinds = {"put", "remove"}
  MaxWrites = 3
  MaxFlushes = 2
  MaxCrashes = 1
  FaultKinds = {}
  MaxFaults = 0
  SplitTryLock = FALSE
  NoWriter = NoWriter
SPECIFICATION Spec
INVARIANTS AckedWritesSurvive
CHECK_DEADLOCK FALSE
