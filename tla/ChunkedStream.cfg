CONSTANTS
    Payloads <- SixMessages
    Stream <- StreamOfChunks
    EndOfChunk <- EndsOfChunks
    Uninitialised = {0, 13}
    MaxReconnects = 2
SPECIFICATION Spec
INVARIANTS TypeOK EveryChunkDelivered
CHECK_DEADLOCK FALSE
