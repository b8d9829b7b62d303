---------------------------- MODULE MCEspParser ----------------------------
(* EspParser fed with every sequence of bytes from a small set.             *)
EXTENDS EspParser

CONSTANTS
    Bytes,     \* the bytes that arrive
    Free,      \* bound: operation codes are arbitrary up to this length ...
    Filler     \* ... and go on with this letter only

Arrives(c) == c \in Letter => Len(msg_op) < Free \/ c = Filler

MCNext == (\E c \in Bytes : Arrives(c) /\ ParseChar(c)) \/ ConsumeReady
MCSpec == Init /\ [][MCNext]_parserVars
=============================================================================
