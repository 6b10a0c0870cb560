CONSTANTS
  Writers = {1,2}
  Keys = {k1}
  Kinds = {"put"}
  MaxWrites = 3
  MaxFlushes = 3
  MaxCrashes = 1
  FaultKinds = {"append", "load", "read", "replace", "remove"}
  MaxFaults = 2
  SplitTryLock = FALSE
  NoWriter = NoWriter
SPECIFICATION Spec
INVARIANTS OnlyTornTailLoses SidecarVouchedFor DeadReclaimed NothingLeftAround
PROPERTIES OnlyOwnerReapsLive
CHECK_DEADLOCK FALSE
