CONSTANTS
  Writers = {1, 2}
  Keys = {k1, k2}
  Kinds = {"put", "remove", "ephemeral"}
  MaxWrites = 3
  MaxFlushes = 3
  MaxCrashes = 0
  FaultKinds = {}
  MaxFaults = 0
  SplitTryLock = FALSE
  NoWriter = NoWriter
SPECIFICATION Spec
INVARIANTS TypeOK AckedWritesSurvive OwnSequenceHonoured OwnOrderCommitted
CHECK_DEADLOCK FALSE
