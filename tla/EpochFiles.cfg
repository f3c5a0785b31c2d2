CONSTANTS
    Streams <- DenseFiles
    TicksPerSecond = 4
    EpochInterval = 4
    StartEpoch = 0
    EndEpoch = 0
    MaxEpochs = 0
    MaxPasses = 2
    MaxExcess = 1
    Horizon = 32
SPECIFICATION FairSpec
INVARIANTS TypeOK AllProcessed EachStationOnce
PROPERTY Terminates
CHECK_DEADLOCK FALSE
