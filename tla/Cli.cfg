SPECIFICATION Spec
CONSTANTS
    main = main
    p1 = p1
    u0 = u0
    u1 = u1
    k1 = k1
    a1 = a1
    dead = dead
    zero = zero
    chal = chal
    None = None
    Empty = Empty
    Malformed = Malformed
    Raises = Raises
    All = All
    Defaults <- MCDefaults
    Files <- MCFiles
    Invocations <- MCInvocations
    Placeholder = dead
    SelftestChallenge = chal
    SelftestTarget = 1096
    SelftestWindow = 4
    BenchChallenge = zero
    WarmUp = 5
    Sizes <- MCSizes
    Limb = 8
    Challenges <- MCChallenges
    Digest <- MCDigest
    RandomBases <- MCBases
    Durations = {1, 2}
    MinBatch = 2
    MaxBatch = 3
    FirstBatch = 3
    DefaultLocalSize = 2
    DefaultTargetMs = 2
    MaxResults = 4
    Main = main
    Pool <- MCPool
    Steady <- MCSteady
    London <- MCSteady
    BaseFee <- MCFee
    OpenAt = 1
    Priority = 2
    Multiplier = 3
    MaxFeeCap = 13
    SkipAbove = 4
    MaxHeight = 2
INVARIANTS
    CliTypeOK
    FullPass
    PriceIsCapped
    FoundAreHits
    SelftestPasses
    Precedence
    MinesForItsSigner
PROPERTIES
    ChainIsFollowed
    MiningStarts
CHECK_DEADLOCK FALSE
