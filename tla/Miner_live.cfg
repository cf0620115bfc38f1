SPECIFICATION FairSpec
CONSTANTS
  w1 = w1
  w2 = w2
  x = x
  y = y
  Workers = {w1}
  Pows <- OnePow
  Work <- OneWork
  Diffs = {1, 2}
  EpochBlocks = 2
  MaxBlock = 3
  MaxHits = 2
  MaxJobs = 3
  Lag = 0
PROPERTIES
  FarmFollowsChain
CHECK_DEADLOCK FALSE
