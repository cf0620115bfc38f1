SPECIFICATION Spec
CONSTANTS
    main = main
    p1 = p1
    u0 = u0
    u1 = u1
    Main = main
    Pool <- MCPool
    Steady <- MCSteady
    London <- MCLondon
    BaseFee <- MCFee
    OpenAt = 1
    Priority = 2
    Multiplier = 3
    MaxFeeCap = 13
    SkipAbove = 4
    MaxHeight = 2
INVARIANTS
    HardCap
CHECK_DEADLOCK FALSE
