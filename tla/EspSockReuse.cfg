SPECIFICATION FairSpec
CONSTANTS
    Conn = {c0}
    NoFd = none
    QLEN = 2
    ACCLEN = 2
    Sizes = {1, 2}
    MaxInc = 3
    MaxChunk = 2
    ChunkLen = 2
    MaxSend = 1
CHECK_DEADLOCK FALSE
INVARIANTS InOrder OwnBytes EachAcceptedOnce NoLeak
