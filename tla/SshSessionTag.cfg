SPECIFICATION Spec
CONSTANTS
    MaxIgnore = 0
    MaxData = 0
    MayLeave = TRUE
    MayBreak = FALSE
CHECK_DEADLOCK FALSE
INVARIANT TagVerified
