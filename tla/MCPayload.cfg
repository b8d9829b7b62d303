SPECIFICATION Spec
CONSTANTS
    BASE = 3
    STRMAX = 20
    Junk = junk
    Items <- MCItems
    MaxItems = 3
    PeerBytes = {0, 2}
    MaxPeer = 9
CHECK_DEADLOCK FALSE
INVARIANTS FieldInside Faithful StringSound
