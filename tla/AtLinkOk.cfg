SPECIFICATION FairSpec
CONSTANTS
    MaxCmd = 1
    MaxChunk = 1
    MaxTrouble = 1
CHECK_DEADLOCK FALSE
PROPERTY OkBeforeSend
