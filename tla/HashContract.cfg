SPECIFICATION Spec
CONSTANTS
  m1 = m1
  m2 = m2
  Miners <- MCMiners
  Nonces <- MCNonces
  Digest <- MCDigest
  GenesisCap = 2
  GenesisUnit = 1
  GenesisPrice = 1
  MaxUnitsPerTx = 2
  MiningSupply = 13
  BaseReward = 4
  EraMints = 3
  EpochBlocks = 2
  AdjustmentInterval = 2
  TargetBlocksPerMint = 1
  MaxMintsPerBlock = 2
  SeedDelay = 2
  MaxWord = 31
  StartDifficulty = 3
  MaxHeight = 6
  MaxEth = 1
  MaxGift = 1
INVARIANTS
  TypeOK
  SupplyIsCapped
  MintsAreLimited
  RetargetsOnTime
  ProofIsAccepted
PROPERTIES
  DifficultyMovesSlowly
  KeepsLedger
CHECK_DEADLOCK FALSE
