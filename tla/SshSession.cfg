SPECIFICATION Spec
CONSTANTS
    MaxIgnore = 1
    MaxData = 1
    MayLeave = TRUE
    MayBreak = TRUE
CHECK_DEADLOCK FALSE
INVARIANTS ClientOpens StuckOnlyAlone NoShortcut HashedKexinit
PROPERTY GoodbyeEnds
