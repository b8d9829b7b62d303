SPECIFICATION FairSpec
CONSTANTS
    WAIT_TICKS = 4
    Short = 1
    Chunk = {5}
    MaxByte = 0
    MaxFault = 0
INVARIANT AnyLength
