SPECIFICATION FairSpec
CONSTANTS
  Jobs = {j1, j2}
  TTL = 2
  MaxHold = 4
  MaxStalls = 1
CHECK_DEADLOCK FALSE
INVARIANTS
  TypeOK
  ExclusionWithinTTL
  NoLostUpdate
PROPERTIES
  ReleaseKeepsOthersLock
  LockIsFreed
