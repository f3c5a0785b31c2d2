CONSTANTS
    Payloads <- FourMessages
    Stream <- StreamOfChunks
    EndOfChunk <- EndsOfChunks
    Uninitialised = {0, 13}
    MaxReconnects = 1
SPECIFICATION Spec
INVARIANT DeliveredInOrder
CHECK_DEADLOCK FALSE
