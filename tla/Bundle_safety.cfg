SPECIFICATION Spec
CONSTANTS
  s1 = s1
  s2 = s2
  s3 = s3
  a = a
  b = b
  c = c
  Sols <- MCSols
  EpochOf <- MCEpochOf
  PowOf <- MCPowOf
  DryRun = FALSE
  Size = 2
  Ahead = 1
  EpochBlocks = 2
  MaxHead = 2
  MaxForeign = 0
INVARIANTS
  TypeOK
  BroadcastIsMarked
  NoncesAreARun
PROPERTIES
  PendingNotLost
  KeepsPromise
CHECK_DEADLOCK FALSE
