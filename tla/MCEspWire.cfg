SPECIFICATION WSpec
CONSTANTS
    OP_MAXLEN = 32
    BUFF_MAXLEN = 2048
    ID_MAX = 5
    Junk = {".", "_"}
    Say <- MCSay
    Typed <- MCTyped
    QLEN = 1
    MaxSaid = 3
    MaxDamage = 1
CHECK_DEADLOCK FALSE
INVARIANTS Framing PromptReal DamageLocal
