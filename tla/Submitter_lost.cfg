SPECIFICATION Spec
CONSTANTS
  s1 = s1
  s2 = s2
  s3 = s3
  a = a
  b = b
  c = c
  Sols <- PairSols
  EpochOf <- PairEpochOf
  PowOf <- PairPowOf
  Concurrency = 2
  MaxPendingPerEpoch = 2
  MaxForeign = 0
PROPERTIES
  PendingNotLost
CHECK_DEADLOCK FALSE
