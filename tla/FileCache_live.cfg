CONSTANTS
  Writers = {1, 2}
  Keys = {k1}
  Kinds = {"put", "remove"}
  MaxWrites = 2
  MaxFlushes = 2
  MaxCrashes = 1
  FaultKinds = {"append", "load", "read", "replace", "remove"}
  MaxFaults = 1
  SplitTryLock = TRUE
  NoWriter = NoWriter
SPECIFICATION FairSpec
PROPERTIES FlushEnds
CHECK_DEADLOCK FALSE
