---------------------------- MODULE SftpDispatch ----------------------------
(***************************************************************************)
(* Cutting the SFTP byte stream into packets, and large packets into       *)
(* chunks: sftp_dispatch (User/ssh/sftp_parse.c).                          *)
(*                                                                         *)
(* The client's stream is a sequence of packets, each a length field of    *)
(* four bytes and as many bytes as it says.  A byte is named by its packet *)
(* and its position in it.  A packet of at most CHUNK bytes is handed to   *)
(* sftp_dispatch_spkt whole.  Of a larger one the first CHUNK bytes are,   *)
(* and the rest goes to continue_write in pieces of at most CHUNK bytes.   *)
(***************************************************************************)
EXTENDS Naturals, Sequences

CONSTANTS
    CHUNK,    \* SFTP_CHUNK (400 in the code)
    Lens,     \* lengths the client gives its packets
    MaxPkt    \* bound: packets

ASSUME DispatchAssumption ==
    CHUNK \in Nat \ {0} /\ Lens \subseteq Nat /\ MaxPkt \in Nat

VARIABLES
    pkt,          \* client: number of the packet being received
    plen,         \* client: its length
    pos,          \* client: how many of its bytes have been received
    dpch_state,
    dpch_len,
    dpch_cnt,
    chnldat,      \* bytes collected since the last call
    calls         \* history: calls made for this packet

stream   == <<pkt, plen, pos>>
dispatch == <<dpch_state, dpch_len, dpch_cnt, chnldat, calls>>
dvars    == <<stream, dispatch>>

-----------------------------------------------------------------------------
LENLEN == 4

(* Bytes a+1 to b of the packet being received. *)
Cells(a, b) == [i \in 1..(b - a) |-> <<pkt, a + i>>]

(* ntohl of the length field; anything else is a length of one. *)
Decode(bytes) == IF bytes = Cells(0, LENLEN) THEN plen ELSE 1

DInit ==
    /\ pkt = 0 /\ plen = 0 /\ pos = LENLEN
    /\ dpch_state = "LEN" /\ dpch_len = LENLEN /\ dpch_cnt = 0
    /\ chnldat = <<>> /\ calls = <<>>

(* sftp_parser_init, at the start of a session. *)
Reset ==
    /\ dpch_state' = "LEN" /\ dpch_len' = LENLEN /\ dpch_cnt' = 0
    /\ chnldat' = <<>>

(* A new session drops the stream wherever it was, and goes on with the     *)
(* packet after p.                                                          *)
StreamRestarts(p) == pkt' = p /\ plen' = 0 /\ pos' = LENLEN /\ calls' = <<>>

NextPacket(k) ==
    /\ pos = LENLEN + plen
    /\ pkt' = pkt + 1 /\ plen' = k /\ pos' = 0 /\ calls' = <<>>
    /\ UNCHANGED <<dpch_state, dpch_len, dpch_cnt, chnldat>>

(* The next byte of the packet; got is what chnldat holds with it.          *)
Receive == pos < LENLEN + plen /\ pos' = pos + 1 /\ UNCHANGED <<pkt, plen>>
got   == Append(chnldat, <<pkt, pos + 1>>)
count == dpch_cnt + 1

LengthByte ==
    /\ Receive /\ dpch_state = "LEN" /\ count < LENLEN
    /\ chnldat' = got /\ dpch_cnt' = count
    /\ UNCHANGED <<dpch_state, dpch_len, calls>>

CountAfterLength     == 0

LengthDone ==
    /\ Receive /\ dpch_state = "LEN" /\ count = LENLEN
    /\ dpch_len' = Decode(got)
    /\ chnldat' = <<>> /\ dpch_cnt' = CountAfterLength
    /\ dpch_state' = IF dpch_len' # 0 THEN "REG" ELSE "LEN"
    /\ UNCHANGED calls

ChunkFullLate == count % CHUNK = 1 /\ count > CHUNK /\ count < dpch_len  \* mutant
ChunkFull == count % CHUNK = 0 /\ count < dpch_len
PacketEndLate == count > dpch_len                         \* mutant
PacketEnd == count >= dpch_len

Collect ==
    /\ Receive /\ dpch_state = "REG" /\ ~ChunkFull /\ ~PacketEnd
    /\ chnldat' = got /\ dpch_cnt' = count
    /\ UNCHANGED <<dpch_state, dpch_len, calls>>

Hand(kind) == calls' = Append(calls, [kind |-> kind, data |-> got]) /\ chnldat' = <<>>

(* A full chunk with more of the packet to come. *)
HandChunk(kind) ==
    /\ Receive /\ dpch_state = "REG" /\ ChunkFull
    /\ kind = IF count = CHUNK THEN "spkt" ELSE "continue"
    /\ Hand(kind) /\ dpch_cnt' = count
    /\ UNCHANGED <<dpch_state, dpch_len>>

LastKindLoose == IF count > CHUNK + 1 THEN "continue" ELSE "spkt"  \* mutant
LastKind == IF count > CHUNK THEN "continue" ELSE "spkt"

HandLast(kind) ==
    /\ Receive /\ dpch_state = "REG" /\ PacketEnd
    /\ kind = LastKind
    /\ Hand(kind)
    /\ dpch_cnt' = 0 /\ dpch_len' = LENLEN /\ dpch_state' = "LEN"

Handed(kind) == HandChunk(kind) \/ HandLast(kind)

DNext ==
    \/ \E k \in Lens : pkt < MaxPkt /\ NextPacket(k)
    \/ \E p \in pkt..MaxPkt : StreamRestarts(p) /\ Reset
    \/ LengthByte \/ LengthDone \/ Collect
    \/ Handed("spkt") \/ Handed("continue")

DSpec == DInit /\ [][DNext]_dvars

-----------------------------------------------------------------------------
DTypeOK ==
    /\ pkt \in Nat /\ plen \in Nat /\ pos \in 0..(LENLEN + plen)
    /\ dpch_state \in {"LEN", "REG"} /\ dpch_len \in Nat
    /\ dpch_cnt \in Nat /\ (dpch_state = "LEN" => dpch_cnt < LENLEN)
    /\ chnldat \in Seq(Nat \X Nat)
    /\ calls \in Seq([kind : {"spkt", "continue"}, data : Seq(Nat \X Nat)])

(* The dispatcher and the client agree where packets begin and end: the     *)
(* length field is read from the first four bytes of a packet, and the      *)
(* state returns to it exactly with the packet's last byte                  *)
(* (sftp_parse.c:132-155, 171-182).                                         *)
Aligned ==
    /\ dpch_state = "LEN" => pos = dpch_cnt \/ (dpch_cnt = 0 /\ pos = LENLEN + plen)
    /\ dpch_state = "REG" => /\ dpch_len = plen /\ pos = LENLEN + dpch_cnt
                             /\ dpch_cnt < plen

(* No call gets more than CHUNK bytes: what is collected fits the heap      *)
(* that the chunking is there to spare (readme.md:25).                      *)
Bounded == Len(chnldat) < IF dpch_state = "LEN" THEN LENLEN ELSE CHUNK

(* The calls made for a packet are its bytes cut in pieces: in order, none  *)
(* left out, none twice, the first to sftp_dispatch_spkt and the others to  *)
(* continue_write; with the packet complete, all of it has been handed over *)
(* (sftp_parse.c:157-183).                                                  *)
PieceStart(k) == LENLEN + (k - 1) * CHUNK
PieceEnd(k)   == IF LENLEN + k * CHUNK < LENLEN + plen THEN LENLEN + k * CHUNK ELSE LENLEN + plen
Pieces ==
    /\ \A k \in 1..Len(calls) :
          /\ calls[k].data = Cells(PieceStart(k), PieceEnd(k))
          /\ calls[k].kind = IF k = 1 THEN "spkt" ELSE "continue"
    /\ (pkt > 0 /\ pos = LENLEN + plen) => plen <= Len(calls) * CHUNK
=============================================================================
