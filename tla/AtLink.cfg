SPECIFICATION FairSpec
CONSTANTS
    MaxCmd = 4
    MaxChunk = 2
    MaxTrouble = 2
CHECK_DEADLOCK FALSE
INVARIANTS LineOwner ResultMatch OneBehind SendReliable
PROPERTIES CommandEnds
