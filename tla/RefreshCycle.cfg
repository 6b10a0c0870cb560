CONSTANTS
  StalePercent = 60
  JitterPercent = 25
  Grace = 2
  MaxMillis = 10
  DrawRange = 2
  Keys = {1, 2, 3}
  Ttl = 4
  ChunkSize = 2
  InEffect <- MCInEffect
  Hash <- MCHash
  MaxTime = 6
SPECIFICATION Spec
INVARIANTS TypeOK ServedSurvivesPrune TopUpFree NormalRecordPersists
PROPERTIES MostUrgentFirst
