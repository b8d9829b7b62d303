SPECIFICATION FairSpec
CONSTANTS
    WAIT_TICKS = 4
    Short = 1
    Chunk = {3, 5}
    MaxByte = 3
    MaxFault = 2
INVARIANTS Listening SentWhole SentTrue LossBounded
PROPERTY SendEnds
