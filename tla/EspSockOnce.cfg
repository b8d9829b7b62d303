SPECIFICATION FairSpec
CONSTANTS
    Conn = {c0, c1}
    NoFd = none
    QLEN = 1
    ACCLEN = 2
    Sizes = {1, 3}
    MaxInc = 1
    MaxChunk = 2
    ChunkLen = 2
    MaxSend = 1
CHECK_DEADLOCK FALSE
INVARIANTS OnlyReadAheadLost
PROPERTIES ImplementsStream LineComesFree
