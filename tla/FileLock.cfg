CONSTANTS
  Procs = {p1, p2}
  Inodes = {i1, i2, i3}
  Retries = 2
  MaxCrashes = 2
  NoInode = NoInode
  NoProc = NoProc
SPECIFICATION FairSpec
INVARIANTS TypeOK
PROPERTIES ImplementsMutex NoWedge
