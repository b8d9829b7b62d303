SPECIFICATION MCSpec
CONSTANTS
    OP_MAXLEN = 9
    BUFF_MAXLEN = 2
    ID_MAX = 2
    Junk = {"?"}
    Bytes = {"+", "I", "P", "D", "comma", "0", "2", ":", "lf", ">"}
    Free = 4
    Filler = "I"
INVARIANTS LineOwner PayloadBound RecvBound
PROPERTY Recovers
