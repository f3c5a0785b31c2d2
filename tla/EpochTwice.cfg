CONSTANTS
    Streams <- Jittering
    TicksPerSecond = 5
    EpochInterval = 5
    StartEpoch = 5
    EndEpoch = 0
    MaxEpochs = 0
    MaxPasses = 2
    MaxExcess = 0
    Horizon = 32
SPECIFICATION Spec
INVARIANT EachStationOnce
CHECK_DEADLOCK FALSE
