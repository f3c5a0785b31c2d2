CONSTANTS
    Stream <- AllBytes
    Frames <- AllFrames
    Preamble <- PreambleByte
    SimulateRealTime = TRUE
    SuperLimit = 1000
    ChunkSizes = {2, 5}
    MaxLost = 1
SPECIFICATION FairSpec
INVARIANTS TypeOK DecodedInOrder NoFrameSkipped EpochsWhole EpochsApart
PROPERTY AllIsParsed
CHECK_DEADLOCK FALSE
