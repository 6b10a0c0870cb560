CONSTANTS
  Writers = {1, 2}
  Keys = {k1}
  Kinds = {"put"}
  MaxWrites = 3
  MaxFlushes = 2
  MaxCrashes = 0
  FaultKinds = {}
  MaxFaults = 0
  SplitTryLock = FALSE
  NoWriter = NoWriter
SPECIFICATION Spec
PROPERTIES OpenSeesDisk
CHECK_DEADLOCK FALSE
