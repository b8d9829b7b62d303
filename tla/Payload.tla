------------------------------ MODULE Payload ------------------------------
(***************************************************************************)
(* The fields of an SSH message: payload_encode builds them into a string,  *)
(* payload_decode takes them apart (User/ssh/packet.c), a step per field.   *)
(* A message is one of the program's own, as it would come back in a plain  *)
(* or a sealed packet, or any bytes a peer sends.  A byte has BASE values,  *)
(* so that a u32 wraps at BASE^4.                                           *)
(***************************************************************************)
EXTENDS Vstr, SshPacket

CONSTANTS
    BASE,      \* values of a byte, 256
    Items,     \* the fields of which messages are built
    MaxItems,  \* bound: fields of a message
    PeerBytes, \* bytes a peer sends
    MaxPeer    \* bound: bytes of a peer's message

ASSUME PayloadAssumption ==
    /\ BASE \in Nat \ {0, 1} /\ MaxPeer \in Nat /\ MaxItems \in Nat
    /\ PeerBytes \subseteq 0..(BASE - 1) /\ PeerBytes # {}
    /\ Items \subseteq [kind : {"u8", "u32"}, val : Nat] \cup [kind : {"string"}, val : Seq(Nat)]
    \* in the code at most 35000, VO_STRMAX and 2^32
    /\ STRMAX >= 4
    /\ MaxPeer + STRMAX <= BASE * BASE * BASE * BASE
    /\ STRMAX + 12 + STRMAX <= BASE * BASE * BASE * BASE

VARIABLES
    phase,     \* "encode", "decode", "done", "path", or "failed": an assertion failed
    items,     \* the message, of the program's own
    str,       \* the string payload_encode builds, later a path
    data,      \* payload, the bytes from there to the end of what is known
    plen,      \* payload_len
    types,     \* the types payload_decode is given
    pos, out,  \* its position and its result
    touched    \* history: bytes of data that were read, from the first to the last

vars == <<phase, items, str, data, plen, types, pos, out, touched>>

-----------------------------------------------------------------------------
Kind == {"u8", "u32", "string"}
U32 == BASE * BASE * BASE * BASE
Width(kind) == IF kind = "u8" THEN 1 ELSE 4

BigEndianNot(n, w) == IF w = 1 THEN <<n>> ELSE              \* mutant
    <<n % BASE, (n \div BASE) % BASE, (n \div (BASE * BASE)) % BASE, n \div (BASE * BASE * BASE)>>
(* vbuff_iaddc, vbuff_iaddu32: the highest byte first.                      *)
BigEndian(n, w) == IF w = 1 THEN <<n>> ELSE
    <<n \div (BASE * BASE * BASE), (n \div (BASE * BASE)) % BASE, (n \div BASE) % BASE, n % BASE>>
(* ntohl of the bytes at a position.                                        *)
Number(b, w) == IF w = 1 THEN b[1] ELSE ((b[1] * BASE + b[2]) * BASE + b[3]) * BASE + b[4]

(* vbuff_iaddu32 adds byte by byte.                                         *)
AddNumber(s, n, w) ==
    LET b == BigEndian(n, w)
    IN  IF w = 1 THEN Add(s, b)
        ELSE Add(Add(Add(Add(s, <<b[1]>>), <<b[2]>>), <<b[3]>>), <<b[4]>>)

(* payload_encode, one field.                                               *)
Encoded(s, f) ==
    IF f.kind = "string" THEN Add(AddNumber(s, Len(f.val), 4), f.val)
                         ELSE AddNumber(s, f.val, Width(f.kind))

(* What a field is on the wire (RFC 4251, chapter 5).                       *)
Wire(f) == IF f.kind = "string" THEN BigEndian(Len(f.val), 4) \o f.val
                                ELSE BigEndian(f.val, Width(f.kind))
WireAll(fs) ==
    LET w[k \in 0..Len(fs)] == IF k = 0 THEN <<>> ELSE w[k - 1] \o Wire(fs[k]) IN w[Len(fs)]

SeqUpTo(S, n) == UNION {[1..k -> S] : k \in 0..n}

-----------------------------------------------------------------------------
Init ==
    /\ str = EmptyStr /\ pos = 0 /\ out = <<>> /\ touched = 0
    /\ \/ /\ phase = "encode" /\ items \in SeqUpTo(Items, MaxItems) /\ types = <<>>
          /\ data = <<>> /\ plen = 0
       \/ /\ phase = "decode" /\ items = <<>> /\ types \in SeqUpTo(Kind, MaxItems)
          /\ data \in SeqUpTo(PeerBytes, MaxPeer) /\ plen = Len(data)

Encode ==
    /\ phase = "encode" /\ Len(types) < Len(items)
    /\ LET f == items[Len(types) + 1]
       IN  str' = Encoded(str, f) /\ types' = Append(types, f.kind)
    /\ phase' = IF str'.ok THEN "encode" ELSE "failed"
    /\ UNCHANGED <<items, data, plen, pos, out, touched>>

(* The caller passes the payload of a plain packet.  Of a sealed one it     *)
(* passes the length of the whole packet, from its second byte on: the      *)
(* padding belongs to it, and a byte that was never received.               *)
Receive ==
    /\ phase = "encode" /\ Len(types) = Len(items) /\ phase' = "decode"
    /\ \/ data' = Content(str)
       \/ \E last \in PeerBytes :
            data' = Content(str) \o [k \in 1..PadLen(str.len, 16) |-> (k - 1) % BASE] \o <<last>>
    /\ plen' = Len(data')
    /\ UNCHANGED <<items, str, types, pos, out, touched>>

More == phase = "decode" /\ Len(out) < Len(types) /\ pos < plen
Due(kind) == types[Len(out) + 1] = kind
(* Behind the payload there is memory of some content.                      *)
Read(from, n) == [k \in 1..n |-> IF from + k <= Len(data) THEN data[from + k] ELSE 0]
Reach(to) == touched' = IF to > touched THEN to ELSE touched

Fail == phase' = "failed" /\ UNCHANGED <<pos, out>>

OverflowsLate(n) == (pos + n) % U32 > plen + 1             \* mutant
Overflows(n) == (pos + n) % U32 > plen

DecodeNumber(kind) ==
    /\ More /\ Due(kind)
    /\ LET w == Width(kind)
       IN  IF Overflows(w) THEN Fail /\ UNCHANGED touched
           ELSE /\ out' = Append(out, [kind |-> kind, val |-> Number(Read(pos, w), w)])
                /\ pos' = pos + w /\ Reach(pos + w) /\ UNCHANGED phase
    /\ UNCHANGED <<items, str, data, plen, types>>

LengthHere == Number(Read(pos, 4), 4)

(* The assertions of vbuff_iadd on a new string.                            *)
Fits(n) == n < STRMAX /\ Grow(n) < STRMAX

(* The length is checked in 32 bits, then by vbuff_iadd.                    *)
DecodeString ==
    /\ More /\ Due("string")
    /\ IF Overflows(4) THEN Fail /\ UNCHANGED touched
       ELSE IF Overflows(4 + LengthHere) \/ ~Fits(LengthHere)
       THEN Fail /\ Reach(pos + 4)
       ELSE /\ out' = Append(out, [kind |-> "string", val |-> Read(pos + 4, LengthHere)])
            /\ pos' = pos + 4 + LengthHere /\ Reach(pos') /\ UNCHANGED phase
    /\ UNCHANGED <<items, str, data, plen, types>>

Decoded ==
    /\ phase = "decode" /\ ~More /\ phase' = "done"
    /\ UNCHANGED <<items, str, data, plen, types, pos, out, touched>>

(* A field is made a C string for FatFS.                                    *)
Path ==
    /\ phase = "done" /\ phase' = "path"
    /\ \E k \in DOMAIN out :
         out[k].kind = "string" /\ str' = AddCstr(Add(EmptyStr, out[k].val), <<>>)
    /\ UNCHANGED <<items, data, plen, types, pos, out, touched>>

Next == Encode \/ Receive \/ (\E kind \in {"u8", "u32"} : DecodeNumber(kind)) \/ DecodeString
        \/ Decoded \/ Path
Spec == Init /\ [][Next]_vars
-----------------------------------------------------------------------------
(* payload_decode reads nothing outside the payload, whatever lengths the   *)
(* peer puts in it: neither the end of the payload is passed nor the wrap   *)
(* of the 32 bits the check is done in (packet.c:295-317).                  *)
FieldInside == touched <= Len(data)

(* What was decoded is what the bytes say, and a message that was built by  *)
(* payload_encode has its fields again, the padding of a sealed packet      *)
(* notwithstanding (packet.c:275-409).                                      *)
Faithful ==
    phase = "done" =>
        /\ WireAll(out) = SubSeq(data, 1, pos)
        /\ items # <<>> => out = items

(* The notes at vo.c:18-29: a string stays in its block, and one that was   *)
(* made a C string ends with a zero.                                        *)
StringSound ==
    /\ Sound(str)
    /\ phase = "path" /\ str.ok => str.data[str.len + 1] = 0
=============================================================================
