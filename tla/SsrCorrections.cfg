CONSTANTS
    s1 = s1
    s2 = s2
    None = None
    Satellites <- TwoSatellites
    UdiNumEpochs = 2
    Risen <- Rising
    Precise <- WithGap
    OutputARClocks = TRUE
    RtsLag = 4
    Week = 8
    MaxAge = 4
    MaxDelay = 2
    MaxEpoch = 5
    MaxExcess = 1
    MaxKept = 1
    Issues <- MayLack
SPECIFICATION Spec
INVARIANTS TypeOK PartsAreRecent EveryoneServed DecodedAsPublished
PROPERTY ImplementsService
CHECK_DEADLOCK FALSE
