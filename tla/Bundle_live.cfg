SPECIFICATION FairSpec
CONSTANTS
  s1 = s1
  s2 = s2
  s3 = s3
  a = a
  b = b
  c = c
  Sols <- PairSols
  EpochOf <- PairEpochOf
  PowOf <- PairPowOf
  DryRun = FALSE
  Size = 1
  Ahead = 1
  EpochBlocks = 2
  MaxHead = 2
  MaxForeign = 1
INVARIANTS
  NoncesAreARun
PROPERTIES
  BufferIsFlushed
  KeepsPromise
CHECK_DEADLOCK FALSE
