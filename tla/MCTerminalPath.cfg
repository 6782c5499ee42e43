SPECIFICATION TerminalSpec
CONSTANTS
    Modes = {TRUE, FALSE}
    RingSize = 2
    QueueCap = 2
    BufferCap = 2
    ReadSize = 2
    ChunkCap = 1
    MaxFrame = 2
    MaxPrinted = 3
    MaxChunk = 2
INVARIANTS RingKeepsTail PathInv
PROPERTIES FeedKept FlatBridgeDelivers
CHECK_DEADLOCK FALSE
