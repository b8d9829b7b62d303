SPECIFICATION Spec
CONSTANTS
    CHUNK = 5
    Lens = {0, 1, 2, 3, 4, 5, 6, 7, 8, 9, 10}
    MaxPkt = 4
    HDR = 3
    MINPKT = 2
    Name = {f}
    Absent = absent
    Addr = {a1, a2}
    Ops = {"open", "close", "read", "write", "opendir", "readdir", "remove", "stat", "realpath", "init", "other", "short"}
    Offs = {2}
    Dlens = {2, 7}
    MaxLight = 1
    MaxSession = 2
    MaxFault = 1
    DirWrites = TRUE
SYMMETRY AddrSymmetry
CHECK_DEADLOCK FALSE
INVARIANTS Aligned Bounded Pieces FilesExact ContinueOwn HandlesLive OneReply
PROPERTY DSpec
