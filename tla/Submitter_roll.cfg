SPECIFICATION Spec
CONSTANTS
  s1 = s1
  s2 = s2
  s3 = s3
  a = a
  b = b
  c = c
  Sols <- MCSols
  EpochOf <- RollEpochOf
  PowOf <- RollPowOf
  Concurrency = 2
  MaxPendingPerEpoch = 2
  MaxForeign = 1
INVARIANTS
  TypeOK
  NoDoubleSubmit
  NoGap
  NonceUnique
  CountsAreReal
PROPERTIES
  KeepsPromise
CHECK_DEADLOCK FALSE
