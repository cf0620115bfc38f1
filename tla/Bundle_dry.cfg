SPECIFICATION Spec
CONSTANTS
  s1 = s1
  s2 = s2
  s3 = s3
  a = a
  b = b
  c = c
  Sols <- PairSols
  EpochOf <- PairEpochOf
  PowOf <- PairPowOf
  DryRun = TRUE
  Size = 2
  Ahead = 1
  EpochBlocks = 2
  MaxHead = 1
  MaxForeign = 0
INVARIANTS
  DryRunNeverBroadcasts
CHECK_DEADLOCK FALSE
