----------------------------- MODULE ByteStream -----------------------------
(***************************************************************************)
(* What the socket layer promises its caller: for each connection, the     *)
(* bytes come out in the order the peer sent them, from the first one on,   *)
(* each once, and nothing else does.  A byte is named by its position.     *)
(***************************************************************************)
EXTENDS Naturals, Sequences

CONSTANT Conn   \* connections

VARIABLES
    sent,   \* number of bytes the peer of each connection has sent
    read    \* positions of the bytes handed to its reader, in order

vars == <<sent, read>>

Init == sent = [c \in Conn |-> 0] /\ read = [c \in Conn |-> <<>>]

Sends(c) ==
    /\ \E n \in sent[c]..sent'[c] : sent' = [sent EXCEPT ![c] = n]
    /\ UNCHANGED read

Reads(c) ==
    /\ \E n \in (Len(read[c]) + 1)..sent[c] :
          read' = [read EXCEPT ![c] = [p \in 1..n |-> p]]
    /\ UNCHANGED sent

Next == \E c \in Conn : Sends(c) \/ Reads(c)
Spec == Init /\ [][Next]_vars
=============================================================================
