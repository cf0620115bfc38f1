SPECIFICATION FairSpec
CONSTANTS
  s1 = s1
  s2 = s2
  s3 = s3
  a = a
  b = b
  c = c
  Sols <- MCSols
  EpochOf <- CapEpochOf
  PowOf <- CapPowOf
  Concurrency = 2
  MaxPendingPerEpoch = 1
  MaxForeign = 0
INVARIANTS
  EpochCapBound
PROPERTIES
  EverySolutionDecided
  MinedLeavesPending
  ShutdownEnds
CHECK_DEADLOCK FALSE
