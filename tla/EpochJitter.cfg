CONSTANTS
    Streams <- Jittering
    TicksPerSecond = 5
    EpochInterval = 5
    StartEpoch = 0
    EndEpoch = 15
    MaxEpochs = 3
    MaxPasses = 2
    MaxExcess = 1
    Horizon = 32
SPECIFICATION Spec
INVARIANTS StationsOnTime ObsInOrder NoneOverlooked StopsOnTime
CHECK_DEADLOCK FALSE
