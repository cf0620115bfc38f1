SPECIFICATION Spec
CONSTANTS
  w1 = w1
  w2 = w2
  x = x
  y = y
  Workers <- MCWorkers
  Pows <- MCPows
  Work <- MCWork
  Diffs = {1, 2}
  EpochBlocks = 2
  MaxBlock = 3
  MaxHits = 1
  MaxJobs = 3
  Lag = 1
INVARIANTS
  TypeOK
  GenerationIsSound
  JobsAgree
  JobIsOfOneBlock
  SolutionIsProof
SYMMETRY MCSymmetry
CHECK_DEADLOCK FALSE
