--------------------------- MODULE PayloadProofs ---------------------------
(***************************************************************************)
(* Proofs about Vstr and Payload: for every size of a byte, every limit of  *)
(* a string, every message and every number of fields; and, first,          *)
(* about the padding of SshPacket and its validation, for every payload     *)
(* length.  The first half keeps reading and strings in their bounds, the   *)
(* second shows that decoding gives back what was encoded.                  *)
(***************************************************************************)
EXTENDS Payload, SequenceTheorems, WellFoundedInduction, TLAPS

-----------------------------------------------------------------------------
(* Packets.                                                                 *)

(* The padding before it is stored in a byte. *)
LEMMA PadRange ==
    ASSUME NEW n \in Nat, NEW mac_len \in MacLens
    PROVE  PadLen(n, mac_len) \in 4..11
<1> DEFINE r == (1 + n + mac_len) % 8
<1>1. mac_len \in Nat
  BY DEF MacLens
<1>2. r \in 0..7
  BY <1>1
<1>3. PadLen(n, mac_len) = (IF 8 - r < 4 THEN 8 - r + 8 ELSE 8 - r) % 256
  BY DEF PadLen, SSH_DEFAULT_PACKET_ALIGN
<1> QED
  BY <1>2, <1>3

(* The assertion of payload2packet holds and the padding is legal, for a    *)
(* payload of any length (packet.c:416-429).                                *)
THEOREM Padding ==
    ASSUME NEW n \in Nat, NEW mac_len \in MacLens
    PROVE  /\ PadLen(n, mac_len) \in 4..11
           /\ (PacketLen(n, mac_len) + mac_len) % SSH_DEFAULT_PACKET_ALIGN = 0
<1> DEFINE s == 1 + n + mac_len
           r == s % 8
<1>1. s \in Nat
  BY DEF MacLens
<1>2. r \in 0..7
  BY <1>1
<1>3. PadLen(n, mac_len) = 8 - r \/ PadLen(n, mac_len) = 16 - r
  <2>1. PadLen(n, mac_len) = (IF 8 - r < 4 THEN 8 - r + 8 ELSE 8 - r) % 256
    BY DEF PadLen, SSH_DEFAULT_PACKET_ALIGN
  <2> QED
    BY <1>2, <2>1
<1>4. (s + (8 - r)) % 8 = 0 /\ (s + (16 - r)) % 8 = 0
  BY <1>1, SMT
<1>5. PacketLen(n, mac_len) + mac_len = s + PadLen(n, mac_len)
  BY PadRange, <1>1 DEF PacketLen, MacLens
<1> QED
  BY PadRange, <1>3, <1>4, <1>5 DEF SSH_DEFAULT_PACKET_ALIGN

(* A received packet that is accepted has room for its padding, so the      *)
(* payload length computed before the check did not wrap (packet.c:72-81).  *)
THEOREM AcceptedSound ==
    ASSUME NEW len \in Nat, NEW pad \in 0..255, Accepted(len, pad)
    PROVE  PayloadLength(len, pad) = len - pad - 1 /\ len - pad - 1 \in 0..(len - 5)
<1>1. len - pad - 1 \in 0..(len - 5) /\ len - pad - 1 < 35000
  BY DEF Accepted, SSH_MAX_PACKET_SIZE
<1>2. 35000 < 2^32
  BY SMT
<1> QED
  BY <1>1, <1>2 DEF PayloadLength

(* The receiver accepts what the sender builds, whatever the payload's      *)
(* length up to the limit, and recovers that length (packet.c:46-81 and     *)
(* 411-431).                                                                *)
THEOREM RoundTrip ==
    ASSUME NEW n \in Nat, NEW mac_len \in MacLens,
           PacketLen(n, mac_len) <= SSH_MAX_PACKET_SIZE
    PROVE  /\ Accepted(PacketLen(n, mac_len), PadLen(n, mac_len))
           /\ PayloadLength(PacketLen(n, mac_len), PadLen(n, mac_len)) = n
<1>1. PadLen(n, mac_len) \in 4..11 /\ PacketLen(n, mac_len) = 1 + n + PadLen(n, mac_len)
  BY PadRange DEF PacketLen
<1>2. Accepted(PacketLen(n, mac_len), PadLen(n, mac_len))
  BY <1>1 DEF Accepted
<1>3. PacketLen(n, mac_len) \in Nat /\ PadLen(n, mac_len) \in 0..255
  BY <1>1
<1>4. PayloadLength(PacketLen(n, mac_len), PadLen(n, mac_len))
        = PacketLen(n, mac_len) - PadLen(n, mac_len) - 1
  BY <1>2, <1>3, AcceptedSound
<1> QED
  BY <1>1, <1>2, <1>4

-----------------------------------------------------------------------------
(* Strings.  StrOK is Sound with what the proofs need besides: the bytes    *)
(* that count are numbers.                                                  *)

LEMMA FunSeq ==
    ASSUME NEW S, NEW n \in Nat, NEW f \in [1..n -> S] PROVE f \in Seq(S) /\ Len(f) = n
OBVIOUS

Block == Nat \cup {Junk}
Str == [len : Nat, reserved : Nat, data : Seq(Block), ok : BOOLEAN]
StrOK(s) ==
    /\ s \in Str /\ Len(s.data) = s.reserved
    /\ s.len <= s.reserved /\ s.reserved < STRMAX
    /\ \A k \in 1..s.len : s.data[k] \in Nat

LEMMA EmptyOK == StrOK(EmptyStr)
<1>1. <<>> \in Seq(Block) /\ Len(<<>>) = 0
    BY EmptySeq
<1>2. EmptyStr \in Str
    BY <1>1 DEF EmptyStr, Str
<1> QED BY <1>1, <1>2, VstrAssumption DEF StrOK, Str, EmptyStr

LEMMA FailedOK ==
    ASSUME NEW s, StrOK(s)
    PROVE  StrOK(Failed(s)) /\ Failed(s).ok = FALSE /\ Failed(s).len = s.len
<1>1. /\ Failed(s).ok = FALSE /\ Failed(s).len = s.len
      /\ Failed(s).reserved = s.reserved /\ Failed(s).data = s.data
      /\ Failed(s) \in Str
    BY DEF StrOK, Str, Failed, Str
<1> QED BY <1>1 DEF StrOK, Str

LEMMA Half == ASSUME NEW r \in Nat PROVE Grow(r) \in Nat /\ Grow(r) >= r
BY DEF Grow

LEMMA ReserveOK ==
    ASSUME NEW s, StrOK(s), NEW r \in Nat
    PROVE  /\ StrOK(Reserve(s, r))
           /\ Reserve(s, r).len = s.len
           /\ s.ok = TRUE /\ Reserve(s, r).ok = TRUE => r <= Reserve(s, r).reserved
<1>1. CASE s.ok = FALSE \/ r <= s.reserved
    BY <1>1 DEF Reserve, StrOK
<1>2. CASE s.ok = TRUE /\ r > s.reserved /\ Grow(r) >= STRMAX
    BY <1>2, FailedOK DEF Reserve, Failed, StrOK
<1>3. CASE s.ok = TRUE /\ r > s.reserved /\ ~(Grow(r) >= STRMAX)
  <2> DEFINE block == [k \in 1..Grow(r) |-> IF k <= s.len THEN s.data[k] ELSE Junk]
             t == [s EXCEPT !.reserved = Grow(r), !.data = block]
  <2>1. Reserve(s, r) = t
      BY <1>3 DEF Reserve, StrOK
  <2>2. Grow(r) \in Nat /\ Grow(r) >= r /\ Grow(r) < STRMAX
      BY <1>3, Half, VstrAssumption DEF StrOK, Str
  <2>3. \A k \in 1..Grow(r) : block[k] \in Block
      BY <2>2 DEF Block, StrOK
  <2>4. block \in Seq(Block) /\ Len(block) = Grow(r)
      BY <2>2, <2>3, IsASeq
  <2>5. /\ t.len = s.len /\ t.reserved = Grow(r) /\ t.data = block /\ t.ok = TRUE
        /\ t \in Str
      BY <1>3, <2>2, <2>4 DEF StrOK, Str
  <2>6. s.len \in Nat /\ s.len <= Grow(r) /\ \A k \in 1..s.len : block[k] \in Nat
      BY <1>3, <2>2 DEF StrOK, Str
  <2> HIDE DEF block, t
  <2>7. StrOK(t)
      BY <2>2, <2>4, <2>5, <2>6 DEF StrOK, Str
  <2> QED BY <2>1, <2>2, <2>5, <2>7
<1>4. \/ s.ok = FALSE \/ r <= s.reserved
      \/ s.ok = TRUE /\ r > s.reserved /\ Grow(r) >= STRMAX
      \/ s.ok = TRUE /\ r > s.reserved /\ ~(Grow(r) >= STRMAX)
  <2>1. s.ok \in BOOLEAN /\ s.reserved \in Nat
      BY DEF StrOK, Str
  <2> QED BY <2>1
<1> QED BY <1>1, <1>2, <1>3, <1>4

(* A copy that stays within the block.                                      *)
LEMMA WrittenOK ==
    ASSUME NEW s, StrOK(s), NEW b \in Seq(Nat), NEW n \in Nat,
           s.len + Len(b) <= s.reserved, n <= s.len + Len(b)
    PROVE  /\ StrOK([Written(s, s.len, b) EXCEPT !.len = n])
           /\ [Written(s, s.len, b) EXCEPT !.len = n].len = n
           /\ [Written(s, s.len, b) EXCEPT !.len = n].ok = s.ok
           /\ Len(b) = 1 => [Written(s, s.len, b) EXCEPT !.len = n].data[s.len + 1] = b[1]
<1> DEFINE d == [k \in 1..Size(s, s.len, b) |->
                    IF k > s.len /\ k <= s.len + Len(b) THEN b[k - s.len]
                    ELSE IF k <= Len(s.data) THEN s.data[k] ELSE Junk]
           t == [Written(s, s.len, b) EXCEPT !.len = n]
<1>0. s.len \in Nat /\ s.reserved \in Nat /\ Len(s.data) = s.reserved /\ s.data \in Seq(Block)
    BY DEF StrOK, Str
<1>1. Len(b) \in Nat /\ \A k \in 1..Len(b) : b[k] \in Nat
    BY LenProperties, ElementOfSeq
<1>2. Size(s, s.len, b) = s.reserved
    BY <1>0, <1>1 DEF Size
<1>3. \A k \in 1..s.reserved : s.data[k] \in Block
    BY <1>0, ElementOfSeq
<1>4. \A k \in 1..s.reserved : d[k] \in Block
    BY <1>0, <1>1, <1>2, <1>3 DEF Block
<1>5. d \in Seq(Block) /\ Len(d) = s.reserved
  <2>1. d = [k \in 1..s.reserved |-> d[k]]
      BY <1>2
  <2> HIDE DEF d
  <2>2. d \in [1..s.reserved -> Block]
      BY <1>4, <2>1
  <2> QED BY <1>0, <2>2, FunSeq
<1>6. \A k \in 1..(s.len + Len(b)) : d[k] \in Nat
    BY <1>1, <1>2 DEF StrOK, Str
<1>7. Len(b) = 1 => d[s.len + 1] = b[1]
    BY <1>0, <1>1, <1>2
<1>8. /\ t.len = n /\ t.reserved = s.reserved /\ t.data = d /\ t.ok = s.ok
      /\ t \in Str
    BY <1>5 DEF Written, StrOK, Str
<1> HIDE DEF d, t
<1>9. StrOK(t)
    BY <1>1, <1>5, <1>6, <1>8 DEF StrOK, Str
<1> QED BY <1>7, <1>8, <1>9 DEF t

LEMMA AddOK ==
    ASSUME NEW s, StrOK(s), NEW b \in Seq(Nat)
    PROVE  StrOK(Add(s, b))
<1>1. Len(b) \in Nat /\ s.len \in Nat /\ s.ok \in BOOLEAN /\ STRMAX \in Nat
    BY LenProperties, VstrAssumption DEF StrOK, Str
<1>2. CASE s.ok = FALSE \/ s.len + Len(b) >= STRMAX \/ s.len + Len(b) = 0
    BY <1>2, FailedOK DEF Add
<1>3. CASE s.ok = TRUE /\ ~(s.len + Len(b) >= STRMAX) /\ s.len + Len(b) # 0
  <2> DEFINE m == s.len + Len(b)
             r == Reserve(s, m)
  <2>0. m \in Nat
      BY <1>1
  <2>1. StrOK(r) /\ r.len = s.len /\ (r.ok = TRUE => m <= r.reserved)
    <3> HIDE DEF m
    <3> QED BY <1>3, <2>0, ReserveOK
  <2>2. Add(s, b) = IF r.ok THEN [Written(r, s.len, b) EXCEPT !.len = m] ELSE r
      BY <1>3 DEF Add, RoomFor
  <2>3. r.ok \in BOOLEAN
      BY <2>1 DEF StrOK, Str
  <2> HIDE DEF r
  <2>4. CASE r.ok = TRUE
    <3>0. r.len + Len(b) <= r.reserved /\ m <= r.len + Len(b)
        BY <1>1, <2>1, <2>4
    <3> HIDE DEF m
    <3>1. StrOK([Written(r, r.len, b) EXCEPT !.len = m])
        BY <2>0, <2>1, <3>0, WrittenOK
    <3> QED BY <2>1, <2>2, <2>4, <3>1
  <2> QED BY <2>1, <2>2, <2>3, <2>4
<1> QED BY <1>1, <1>2, <1>3

(* vstr_iaddpc with an empty string: a zero behind what is there.           *)
LEMMA AddCstrOK ==
    ASSUME NEW s, StrOK(s)
    PROVE  /\ StrOK(AddCstr(s, <<>>))
           /\ AddCstr(s, <<>>).ok = TRUE =>
                AddCstr(s, <<>>).data[AddCstr(s, <<>>).len + 1] = 0
<1>1. s.len \in Nat /\ s.ok \in BOOLEAN /\ STRMAX \in Nat
    BY VstrAssumption DEF StrOK, Str
<1> DEFINE z == <<0>>
<1>2. z \in Seq(Nat) /\ Len(z) = 1 /\ z[1] = 0 /\ Append(<<>>, 0) = z
      /\ Len(<<>>) = 0
    OBVIOUS
<1> HIDE DEF z
<1>3. CASE s.ok = FALSE \/ s.len + 1 >= STRMAX
  <2>1. AddCstr(s, <<>>) = Failed(s)
      BY <1>1, <1>2, <1>3 DEF AddCstr
  <2> QED BY <2>1, FailedOK
<1>4. CASE s.ok = TRUE /\ ~(s.len + 1 >= STRMAX)
  <2> DEFINE m == s.len + 1
             n == s.len
             r == Reserve(s, m)
             t == [Written(r, r.len, z) EXCEPT !.len = n]
  <2>0. m \in Nat /\ n \in Nat
      BY <1>1
  <2>1. StrOK(r) /\ r.len = s.len /\ (r.ok = TRUE => m <= r.reserved)
    <3> HIDE DEF m
    <3> QED BY <1>4, <2>0, ReserveOK
  <2>2. AddCstr(s, <<>>) = IF r.ok THEN t ELSE r
    <3>1. AddCstr(s, <<>>) =
            IF r.ok THEN [Written(r, s.len, z) EXCEPT !.len = s.len] ELSE r
        BY <1>1, <1>2, <1>4 DEF AddCstr
    <3> QED BY <2>1, <3>1
  <2>3. r.ok \in BOOLEAN
      BY <2>1 DEF StrOK, Str
  <2> HIDE DEF r
  <2>4. CASE r.ok = TRUE
    <3>0. r.len + Len(z) <= r.reserved /\ n <= r.len + Len(z)
        BY <1>1, <1>2, <2>1, <2>4
    <3>1. StrOK(t) /\ t.len = n /\ t.data[r.len + 1] = z[1]
      <4> HIDE DEF n, m
      <4>1. StrOK(t)
          BY <1>2, <2>0, <2>1, <3>0, WrittenOK
      <4>2. t.len = n
          BY <1>2, <2>0, <2>1, <3>0, WrittenOK
      <4>3. t.data[r.len + 1] = z[1]
          BY <1>2, <2>0, <2>1, <3>0, WrittenOK
      <4> QED BY <4>1, <4>2, <4>3
    <3>2. t.data[t.len + 1] = 0
        BY <1>2, <2>1, <3>1
    <3> HIDE DEF t
    <3> QED BY <2>2, <2>4, <3>1, <3>2
  <2>5. CASE r.ok = FALSE
    BY <2>1, <2>2, <2>5
  <2> QED BY <2>3, <2>4, <2>5
<1> QED BY <1>1, <1>3, <1>4

-----------------------------------------------------------------------------
(* Numbers.                                                                 *)

LEMMA Product == ASSUME NEW a \in Nat, NEW b \in Nat PROVE a * b \in Nat
OBVIOUS

LEMMA DivMod ==
    ASSUME NEW n \in Nat, NEW d \in Nat \ {0}
    PROVE  n \div d \in Nat /\ n % d \in Nat
OBVIOUS

LEMMA SmallMod == ASSUME NEW m \in Nat, NEW a \in Nat, a < m PROVE a % m = a
OBVIOUS

LEMMA Powers ==
    /\ BASE \in Nat \ {0} /\ BASE * BASE \in Nat \ {0}
    /\ BASE * BASE * BASE \in Nat \ {0} /\ U32 \in Nat \ {0}
<1>1. BASE \in Nat \ {0}
    BY PayloadAssumption
<1>2. \A a, b \in Nat \ {0} : a * b \in Nat \ {0}
    OBVIOUS
<1> QED BY <1>1, <1>2 DEF U32

LEMMA BigEndianNat ==
    ASSUME NEW n \in Nat
    PROVE  /\ BigEndian(n, 1) = <<n>>
           /\ \A k \in 1..4 : <<BigEndian(n, 4)[k]>> \in Seq(Nat)
<1> DEFINE b1 == BASE
           b2 == BASE * BASE
           b3 == BASE * BASE * BASE
<1>1. b1 \in Nat \ {0} /\ b2 \in Nat \ {0} /\ b3 \in Nat \ {0}
    BY Powers
<1>2. BigEndian(n, 4) = <<n \div b3, (n \div b2) % b1, (n \div b1) % b1, n % b1>>
    BY DEF BigEndian
<1> HIDE DEF b1, b2, b3
<1>3. n \div b3 \in Nat /\ (n \div b2) % b1 \in Nat /\ (n \div b1) % b1 \in Nat /\ n % b1 \in Nat
    BY <1>1, DivMod
<1>4. \A k \in 1..4 : BigEndian(n, 4)[k] \in Nat
    BY <1>2, <1>3
<1> QED BY <1>4 DEF BigEndian

LEMMA AddNumberOK ==
    ASSUME NEW s, StrOK(s), NEW n \in Nat, NEW w \in {1, 4}
    PROVE  StrOK(AddNumber(s, n, w))
<1>1. CASE w = 1
  <2>1. AddNumber(s, n, w) = Add(s, <<n>>)
      BY <1>1, BigEndianNat DEF AddNumber
  <2>2. <<n>> \in Seq(Nat)
      OBVIOUS
  <2> QED BY <2>1, <2>2, AddOK
<1>2. CASE w = 4
  <2> DEFINE b == BigEndian(n, 4)
             s1 == Add(s, <<b[1]>>)
             s2 == Add(s1, <<b[2]>>)
             s3 == Add(s2, <<b[3]>>)
  <2>1. AddNumber(s, n, w) = Add(s3, <<b[4]>>)
      BY <1>2 DEF AddNumber
  <2>2. <<b[1]>> \in Seq(Nat) /\ <<b[2]>> \in Seq(Nat) /\ <<b[3]>> \in Seq(Nat) /\ <<b[4]>> \in Seq(Nat)
      BY BigEndianNat
  <2>3. StrOK(s1)
      BY <2>2, AddOK
  <2>4. StrOK(s2)
      BY <2>2, <2>3, AddOK
  <2>5. StrOK(s3)
      BY <2>2, <2>4, AddOK
  <2> QED BY <2>1, <2>2, <2>5, AddOK
<1> QED BY <1>1, <1>2

Field == [kind : {"u8", "u32"}, val : Nat] \cup [kind : {"string"}, val : Seq(Nat)]

LEMMA EncodedOK ==
    ASSUME NEW s, StrOK(s), NEW f \in Field
    PROVE  StrOK(Encoded(s, f))
<1>1. CASE f.kind = "string"
  <2>1. f.val \in Seq(Nat) /\ Len(f.val) \in Nat
      BY <1>1 DEF Field
  <2>2. Encoded(s, f) = Add(AddNumber(s, Len(f.val), 4), f.val)
      BY <1>1 DEF Encoded
  <2> QED BY <2>1, <2>2, AddNumberOK, AddOK
<1>2. CASE f.kind # "string"
  <2>1. f.val \in Nat /\ Width(f.kind) \in {1, 4}
      BY <1>2 DEF Field, Width
  <2>2. Encoded(s, f) = AddNumber(s, f.val, Width(f.kind))
      BY <1>2 DEF Encoded
  <2> QED BY <2>1, <2>2, AddNumberOK
<1> QED BY <1>1, <1>2

-----------------------------------------------------------------------------
(* The specification.                                                       *)

TypeInv ==
    /\ phase \in {"encode", "decode", "done", "path", "failed"}
    /\ items \in Seq(Items) /\ types \in Seq(Kind) /\ out \in Seq(Field)
    /\ data \in Seq(Nat) /\ plen = Len(data) /\ plen + STRMAX <= U32
    /\ pos \in Nat /\ touched \in Nat

Terminated == phase = "path" /\ str.ok = TRUE => str.data[str.len + 1] = 0

Untouched == phase = "encode" => touched = 0

IInv == TypeInv /\ StrOK(str) /\ Terminated /\ Untouched /\ FieldInside

LEMMA UpToSeq ==
    ASSUME NEW S, NEW n, NEW s \in SeqUpTo(S, n), n \in Nat
    PROVE  s \in Seq(S) /\ Len(s) \in 0..n
<1>1. PICK k \in 0..n : s \in [1..k -> S]
    BY DEF SeqUpTo
<1> QED BY <1>1, FunSeq

LEMMA ContentOK ==
    ASSUME NEW s, StrOK(s)
    PROVE  Content(s) \in Seq(Nat) /\ Len(Content(s)) = s.len
<1>1. s.len \in Nat /\ s.data \in Seq(Block) /\ Len(s.data) = s.reserved
      /\ s.reserved \in Nat /\ s.len <= s.reserved /\ \A k \in 1..s.len : s.data[k] \in Nat
    BY DEF StrOK, Str
<1>2. Content(s) = [k \in 1..s.len |-> s.data[k]]
    BY <1>1 DEF Content
<1>3. Content(s) \in [1..s.len -> Nat]
    BY <1>1, <1>2
<1> QED BY <1>1, <1>3, FunSeq

LEMMA InitOK == Init => IInv
<1> SUFFICES ASSUME Init PROVE IInv
    OBVIOUS
<1>1. STRMAX \in Nat /\ U32 \in Nat /\ MaxItems \in Nat /\ MaxPeer \in Nat
      /\ MaxPeer + STRMAX <= U32 /\ PeerBytes \subseteq Nat
    BY VstrAssumption, PayloadAssumption, Powers DEF U32
<1>2. \A S : <<>> \in Seq(S) /\ Len(<<>>) = 0
    BY EmptySeq
<1>3. StrOK(str)
    BY EmptyOK DEF Init
<1>4. CASE phase = "encode"
  <2>1. items \in Seq(Items)
      BY <1>1, <1>4, UpToSeq DEF Init
  <2>2. types = <<>> /\ data = <<>> /\ plen = 0 /\ pos = 0 /\ out = <<>> /\ touched = 0
      BY <1>4 DEF Init
  <2> QED BY <1>1, <1>2, <1>3, <1>4, <2>1, <2>2 DEF IInv, TypeInv, Terminated, Untouched, FieldInside
<1>5. CASE phase = "decode"
  <2>1. types \in Seq(Kind)
      BY <1>1, <1>5, UpToSeq DEF Init
  <2>2. data \in Seq(PeerBytes) /\ Len(data) \in 0..MaxPeer
      BY <1>1, <1>5, UpToSeq DEF Init
  <2>3. data \in Seq(Nat)
      BY <1>1, <2>2, SeqMonotonic
  <2>4. items = <<>> /\ plen = Len(data) /\ pos = 0 /\ out = <<>> /\ touched = 0
      BY <1>5 DEF Init
  <2> QED BY <1>1, <1>2, <1>3, <1>5, <2>1, <2>2, <2>3, <2>4
           DEF IInv, TypeInv, Terminated, Untouched, FieldInside
<1> QED BY <1>4, <1>5 DEF Init

LEMMA EncodeOK == ASSUME IInv, Encode PROVE IInv'
<1> DEFINE f == items[Len(types) + 1]
<1>1. Len(types) \in Nat /\ Len(items) \in Nat /\ items \in Seq(Items) /\ Len(types) < Len(items)
    BY LenProperties DEF IInv, TypeInv, Encode
<1>2. f \in Items
    BY <1>1, ElementOfSeq
<1>3. f \in Field /\ f.kind \in Kind
    BY <1>2, PayloadAssumption DEF Field, Kind
<1>4. str' = Encoded(str, f) /\ types' = Append(types, f.kind)
    BY DEF Encode
<1>5. phase' \in {"encode", "failed"}
    BY DEF Encode
<1> HIDE DEF f
<1>6. StrOK(str')
    BY <1>3, <1>4, EncodedOK DEF IInv
<1>7. types' \in Seq(Kind)
    BY <1>3, <1>4, AppendProperties DEF IInv, TypeInv
<1>8. UNCHANGED <<items, data, plen, pos, out, touched>>
    BY DEF Encode
<1>9. TypeInv'
    BY <1>5, <1>7, <1>8 DEF IInv, TypeInv
<1>10. Terminated'
    BY <1>5 DEF Terminated
<1>11. FieldInside'
    BY <1>8 DEF IInv, FieldInside
<1>12. Untouched'
    BY <1>8 DEF IInv, Untouched, Encode
<1> QED BY <1>6, <1>9, <1>10, <1>11, <1>12 DEF IInv

LEMMA ReceiveOK == ASSUME IInv, Receive PROVE IInv'
<1>1. Content(str) \in Seq(Nat) /\ Len(Content(str)) = str.len /\ str.len \in Nat /\ str.len < STRMAX
    BY ContentOK, VstrAssumption DEF IInv, StrOK, Str
<1>2. UNCHANGED <<items, str, types, pos, out, touched>> /\ phase' = "decode" /\ plen' = Len(data')
    BY DEF Receive
<1>3. STRMAX + 12 + STRMAX <= U32 /\ U32 \in Nat /\ STRMAX \in Nat
    BY VstrAssumption, PayloadAssumption, Powers DEF U32
<1>4. data' \in Seq(Nat) /\ Len(data') \in Nat /\ Len(data') <= str.len + 12
  <2>1. CASE data' = Content(str)
      BY <1>1, <2>1
  <2>2. CASE \E last \in PeerBytes :
          data' = Content(str) \o [k \in 1..PadLen(str.len, 16) |-> (k - 1) % BASE] \o <<last>>
    <3> DEFINE n == PadLen(str.len, 16)
               pad == [k \in 1..n |-> (k - 1) % BASE]
    <3>1. PICK last \in PeerBytes : data' = Content(str) \o pad \o <<last>>
        BY <2>2
    <3>2. n \in 4..11
        BY <1>1, PadRange DEF MacLens
    <3>3. pad \in Seq(Nat) /\ Len(pad) = n
      <4> HIDE DEF n
      <4>1. \A k \in 1..n : (k - 1) % BASE \in Nat
          BY <3>2, DivMod, Powers
      <4>2. pad \in [1..n -> Nat] /\ n \in Nat
          BY <3>2, <4>1
      <4> HIDE DEF pad
      <4> QED BY <4>2, FunSeq
    <3>4. <<last>> \in Seq(Nat) /\ Len(<<last>>) = 1
      <4>1. last \in Nat
          BY PayloadAssumption
      <4> QED BY <4>1
    <3> HIDE DEF n, pad
    <3>5. Content(str) \o pad \in Seq(Nat) /\ Len(Content(str) \o pad) = str.len + n
        BY <1>1, <3>3, ConcatProperties
    <3>6. data' \in Seq(Nat) /\ Len(data') = str.len + n + 1
        BY <3>1, <3>4, <3>5, ConcatProperties
    <3> QED BY <1>1, <3>2, <3>6
  <2> QED BY <2>1, <2>2 DEF Receive
<1>5. touched = 0
    BY DEF IInv, Untouched, Receive
<1>6. TypeInv'
    BY <1>1, <1>2, <1>3, <1>4 DEF IInv, TypeInv
<1>7. StrOK(str') /\ Terminated' /\ Untouched'
    BY <1>2 DEF IInv, Terminated, Untouched
<1>8. FieldInside'
    BY <1>2, <1>4, <1>5 DEF FieldInside
<1> QED BY <1>6, <1>7, <1>8 DEF IInv

LEMMA ReadOK ==
    ASSUME IInv, NEW from \in Nat, NEW n \in Nat
    PROVE  Read(from, n) \in Seq(Nat) /\ \A k \in 1..n : Read(from, n)[k] \in Nat
<1>1. Len(data) \in Nat /\ \A k \in 1..Len(data) : data[k] \in Nat
    BY LenProperties, ElementOfSeq DEF IInv, TypeInv
<1>2. Read(from, n) \in [1..n -> Nat]
    BY <1>1 DEF Read
<1> QED BY <1>2, FunSeq

LEMMA NumberNat ==
    ASSUME NEW b, NEW w \in {1, 4}, \A k \in 1..w : b[k] \in Nat
    PROVE  Number(b, w) \in Nat
<1>1. CASE w = 1
    BY <1>1 DEF Number
<1>2. CASE w = 4
  <2>1. b[1] \in Nat /\ b[2] \in Nat /\ b[3] \in Nat /\ b[4] \in Nat /\ BASE \in Nat
      BY <1>2, Powers
  <2>2. \A x, y \in Nat : x * BASE + y \in Nat
      BY <2>1, Product
  <2>3. Number(b, w) = ((b[1] * BASE + b[2]) * BASE + b[3]) * BASE + b[4]
      BY <1>2 DEF Number
  <2>4. b[1] * BASE + b[2] \in Nat
      BY <2>1, <2>2
  <2>5. (b[1] * BASE + b[2]) * BASE + b[3] \in Nat
      BY <2>1, <2>2, <2>4
  <2> QED BY <2>1, <2>2, <2>3, <2>5
<1> QED BY <1>1, <1>2

(* A check in 32 bits is right for what is less than VO_STRMAX behind the   *)
(* end of the payload.                                                      *)
LEMMA CheckExact ==
    ASSUME IInv, NEW n \in Nat, pos + n < plen + STRMAX, ~Overflows(n)
    PROVE  pos + n <= Len(data)
<1>1. pos \in Nat /\ plen \in Nat /\ plen = Len(data) /\ plen + STRMAX <= U32
    BY LenProperties DEF IInv, TypeInv
<1>2. STRMAX \in Nat /\ U32 \in Nat
    BY VstrAssumption, Powers
<1>3. pos + n \in Nat /\ pos + n < U32
    BY <1>1, <1>2
<1>4. (pos + n) % U32 = pos + n
    BY <1>2, <1>3, SmallMod
<1> QED BY <1>1, <1>3, <1>4 DEF Overflows

(* What a step of decoding has to show.                                     *)
LEMMA DecodeOK ==
    ASSUME IInv, UNCHANGED <<items, str, data, plen, types>>,
           phase' \in {"decode", "done", "failed"},
           pos' \in Nat, out' \in Seq(Field), touched' \in Nat, touched' <= Len(data)
    PROVE  IInv'
<1>1. TypeInv'
    BY DEF IInv, TypeInv
<1>2. StrOK(str') /\ Terminated' /\ Untouched'
    BY DEF IInv, Terminated, Untouched
<1>3. FieldInside'
    BY DEF FieldInside
<1> QED BY <1>1, <1>2, <1>3 DEF IInv

LEMMA ReachOK ==
    ASSUME IInv, NEW to \in Nat, to <= Len(data), Reach(to)
    PROVE  touched' \in Nat /\ touched' <= Len(data)
BY DEF IInv, TypeInv, FieldInside, Reach

LEMMA DecodeNumberOK ==
    ASSUME IInv, NEW kind \in {"u8", "u32"}, DecodeNumber(kind) PROVE IInv'
<1> DEFINE w == Width(kind)
<1>1. w \in {1, 4}
    BY DEF Width
<1>2. UNCHANGED <<items, str, data, plen, types>> /\ phase = "decode" /\ pos < plen
    BY DEF DecodeNumber, More
<1>3. pos \in Nat /\ touched \in Nat /\ touched <= Len(data) /\ out \in Seq(Field)
      /\ plen \in Nat /\ plen = Len(data)
    BY LenProperties DEF IInv, TypeInv, FieldInside
<1>4. CASE Overflows(w) /\ Fail /\ UNCHANGED touched
    BY <1>2, <1>3, <1>4, DecodeOK DEF Fail
<1>5. CASE /\ ~Overflows(w)
           /\ out' = Append(out, [kind |-> kind, val |-> Number(Read(pos, w), w)])
           /\ pos' = pos + w /\ Reach(pos + w) /\ UNCHANGED phase
  <2> HIDE DEF w
  <2>1. pos + w < plen + STRMAX /\ w \in Nat /\ pos + w \in Nat
      BY <1>1, <1>2, <1>3, VstrAssumption, PayloadAssumption
  <2>2. pos + w <= Len(data)
      BY <1>5, <2>1, CheckExact
  <2>3. touched' \in Nat /\ touched' <= Len(data)
      BY <1>5, <2>1, <2>2, ReachOK
  <2>4. Number(Read(pos, w), w) \in Nat
      BY <1>1, <1>3, <2>1, ReadOK, NumberNat
  <2>5. [kind |-> kind, val |-> Number(Read(pos, w), w)] \in Field
      BY <2>4 DEF Field
  <2>6. out' \in Seq(Field)
      BY <1>3, <1>5, <2>5, AppendProperties
  <2>7. pos' \in Nat /\ phase' = "decode"
      BY <1>2, <1>5, <2>1
  <2> QED BY <1>2, <2>3, <2>6, <2>7, DecodeOK
<1> QED BY <1>4, <1>5 DEF DecodeNumber

LEMMA DecodeStringOK == ASSUME IInv, DecodeString PROVE IInv'
<1> DEFINE n == LengthHere
<1>1. UNCHANGED <<items, str, data, plen, types>> /\ phase = "decode" /\ pos < plen
    BY DEF DecodeString, More
<1>2. pos \in Nat /\ touched \in Nat /\ touched <= Len(data) /\ out \in Seq(Field)
      /\ plen \in Nat /\ plen = Len(data)
    BY LenProperties DEF IInv, TypeInv, FieldInside
<1>3. n \in Nat
    BY <1>2, ReadOK, NumberNat DEF LengthHere
<1>4. STRMAX \in Nat /\ STRMAX >= 4 /\ 4 \in Nat /\ pos + 4 \in Nat
    BY <1>2, VstrAssumption, PayloadAssumption
<1>5. ~Overflows(4) => pos + 4 <= Len(data)
  <2>1. pos + 4 < plen + STRMAX
      BY <1>1, <1>2, <1>4
  <2> QED BY <1>4, <2>1, CheckExact
<1>6. CASE Overflows(4) /\ Fail /\ UNCHANGED touched
    BY <1>1, <1>2, <1>6, DecodeOK DEF Fail
<1>7. CASE ~Overflows(4) /\ Fail /\ Reach(pos + 4)
  <2>1. touched' \in Nat /\ touched' <= Len(data)
      BY <1>4, <1>5, <1>7, ReachOK
  <2> QED BY <1>1, <1>2, <1>7, <2>1, DecodeOK DEF Fail
<1>8. CASE /\ ~Overflows(4) /\ ~Overflows(4 + n) /\ Fits(n)
           /\ out' = Append(out, [kind |-> "string", val |-> Read(pos + 4, n)])
           /\ pos' = pos + 4 + n /\ Reach(pos') /\ UNCHANGED phase
  <2> HIDE DEF n
  <2>1. pos + (4 + n) < plen + STRMAX /\ 4 + n \in Nat
      BY <1>2, <1>3, <1>4, <1>5, <1>8 DEF Fits
  <2>2. pos + (4 + n) <= Len(data)
      BY <1>8, <2>1, CheckExact
  <2>3. pos' \in Nat /\ pos' <= Len(data) /\ phase' = "decode"
      BY <1>1, <1>2, <1>3, <1>8, <2>2
  <2>4. touched' \in Nat /\ touched' <= Len(data)
      BY <1>8, <2>3, ReachOK
  <2>5. Read(pos + 4, n) \in Seq(Nat)
      BY <1>3, <1>4, ReadOK
  <2>6. [kind |-> "string", val |-> Read(pos + 4, n)] \in Field
      BY <2>5 DEF Field
  <2>7. out' \in Seq(Field)
      BY <1>2, <1>8, <2>6, AppendProperties
  <2> QED BY <1>1, <2>3, <2>4, <2>7, DecodeOK
<1> QED BY <1>6, <1>7, <1>8 DEF DecodeString

LEMMA DecodedOK == ASSUME IInv, Decoded PROVE IInv'
<1>1. /\ UNCHANGED <<items, str, data, plen, types>> /\ phase' = "done"
      /\ pos' = pos /\ out' = out /\ touched' = touched
    BY DEF Decoded
<1>2. pos \in Nat /\ touched \in Nat /\ touched <= Len(data) /\ out \in Seq(Field)
    BY DEF IInv, TypeInv, FieldInside
<1> QED BY <1>1, <1>2, DecodeOK

LEMMA PathOK == ASSUME IInv, Path PROVE IInv'
<1>1. PICK k \in DOMAIN out :
        out[k].kind = "string" /\ str' = AddCstr(Add(EmptyStr, out[k].val), <<>>)
    BY DEF Path
<1>2. UNCHANGED <<items, data, plen, types, pos, out, touched>> /\ phase' = "path"
    BY DEF Path
<1>3. out[k].val \in Seq(Nat)
  <2>1. k \in 1..Len(out) /\ out \in Seq(Field)
      BY LenProperties DEF IInv, TypeInv
  <2>2. out[k] \in Field
      BY <2>1, ElementOfSeq
  <2> QED BY <1>1, <2>2 DEF Field
<1>4. StrOK(Add(EmptyStr, out[k].val))
    BY <1>3, EmptyOK, AddOK
<1>5. StrOK(str') /\ (str'.ok = TRUE => str'.data[str'.len + 1] = 0)
    BY <1>1, <1>4, AddCstrOK
<1>6. Terminated'
    BY <1>5 DEF Terminated
<1>7. TypeInv' /\ Untouched' /\ FieldInside'
    BY <1>2 DEF IInv, TypeInv, Untouched, FieldInside
<1> QED BY <1>5, <1>6, <1>7 DEF IInv

LEMMA StepOK == IInv /\ [Next]_vars => IInv'
<1> SUFFICES ASSUME IInv, [Next]_vars PROVE IInv'
    OBVIOUS
<1>1. CASE Encode
    BY <1>1, EncodeOK
<1>2. CASE Receive
    BY <1>2, ReceiveOK
<1>3. CASE \E kind \in {"u8", "u32"} : DecodeNumber(kind)
    BY <1>3, DecodeNumberOK
<1>4. CASE DecodeString
    BY <1>4, DecodeStringOK
<1>5. CASE Decoded
    BY <1>5, DecodedOK
<1>6. CASE Path
    BY <1>6, PathOK
<1>7. CASE UNCHANGED vars
    BY <1>7 DEF vars, IInv, TypeInv, Terminated, Untouched, FieldInside
<1> QED BY <1>1, <1>2, <1>3, <1>4, <1>5, <1>6, <1>7 DEF Next

(* The inductive invariant, of which the two theorems below are parts.      *)
THEOREM Invariant == Spec => []IInv
BY InitOK, StepOK, PTL DEF Spec

(* Whatever lengths a peer puts in a message, payload_decode reads nothing  *)
(* outside its payload: the assertion of vbuff_iadd on the new string comes *)
(* before a sum of 32 bits can have wrapped (packet.c:295-317, vo.c:124).   *)
THEOREM ReadsInside == Spec => []FieldInside
<1>1. IInv => FieldInside
    BY DEF IInv
<1> QED BY <1>1, Invariant, PTL

(* Strings stay in their blocks, their blocks below VO_STRMAX, and a path   *)
(* given to FatFS ends with a zero (vo.c:18-131).                           *)
THEOREM StringsSound == Spec => []StringSound
<1>1. IInv => StringSound
  <2> SUFFICES ASSUME IInv PROVE StringSound
      OBVIOUS
  <2>1. Sound(str)
      BY DEF IInv, StrOK, Str, Sound
  <2>2. str.ok \in BOOLEAN
      BY DEF IInv, StrOK, Str
  <2> QED BY <2>1, <2>2 DEF IInv, Terminated, StringSound
<1> QED BY <1>1, Invariant, PTL

-----------------------------------------------------------------------------
(* What WireAll computes.  Its recursive function exists and is determined  *)
(* by the fields it has read.                                               *)

LEMMA Least == ASSUME NEW T \in SUBSET Nat, T # {} PROVE \E x \in T : \A y \in T : x <= y
<1> DEFINE R == OpToRel(<, Nat)
<1>1. \A a, b \in Nat : <<a, b>> \in R <=> a < b
    BY DEF OpToRel
<1>2. IsWellFoundedOn(R, Nat)
    BY NatLessThanWellFounded, Zenon
<1> HIDE DEF R
<1>3. PICK x \in T : \A y \in T : ~ (<<y, x>> \in R)
    BY <1>2, WFMin
<1>4. ASSUME NEW y \in T PROVE x <= y
  <2>1. x \in Nat /\ y \in Nat
      OBVIOUS
  <2>2. ~(y < x)
      BY <1>1, <1>3, <2>1
  <2> QED BY <2>1, <2>2
<1> QED BY <1>4

Recur(w, fs, n) == w = [k \in 0..n |-> IF k = 0 THEN <<>> ELSE w[k - 1] \o Wire(fs[k])]

LEMMA RecurStep ==
    ASSUME NEW w, NEW fs, NEW n \in Nat, Recur(w, fs, n)
    PROVE  /\ w[0] = <<>> /\ \A k \in 1..n : w[k] = w[k - 1] \o Wire(fs[k])
<1>1. \A k \in 0..n : w[k] = IF k = 0 THEN <<>> ELSE w[k - 1] \o Wire(fs[k])
    BY DEF Recur
<1>2. 0 \in 0..n /\ \A k \in 1..n : k \in 0..n /\ k # 0
    OBVIOUS
<1>3. w[0] = <<>>
    BY <1>1, <1>2
<1>4. \A k \in 1..n : w[k] = w[k - 1] \o Wire(fs[k])
    BY <1>1, <1>2
<1> QED BY <1>3, <1>4

LEMMA RecurExists ==
    ASSUME NEW fs, NEW n \in Nat PROVE \E w : Recur(w, fs, n)
<1> DEFINE T == {m \in Nat : ~\E w : Recur(w, fs, m)}
<1>1. SUFFICES ASSUME T # {} PROVE FALSE
    OBVIOUS
<1>2. PICK m \in T : \A y \in T : m <= y
    BY <1>1, Least
<1>3. CASE m = 0
  <2> DEFINE v == [k \in 0..m |-> <<>>]
  <2>1. Recur(v, fs, m)
      BY <1>3 DEF Recur
  <2> QED BY <2>1
<1>4. CASE m # 0
  <2>1. m \in Nat /\ m - 1 \in Nat /\ m - 1 \notin T
      BY <1>2, <1>4
  <2>2. PICK w : Recur(w, fs, m - 1)
      BY <2>1
  <2>3. w[0] = <<>> /\ \A k \in 1..(m - 1) : w[k] = w[k - 1] \o Wire(fs[k])
      BY <2>1, <2>2, RecurStep
  <2> DEFINE v == [k \in 0..m |-> IF k < m THEN w[k] ELSE w[m - 1] \o Wire(fs[m])]
  <2>4. \A k \in 0..m : v[k] = IF k = 0 THEN <<>> ELSE v[k - 1] \o Wire(fs[k])
    <3> SUFFICES ASSUME NEW k \in 0..m
                 PROVE  v[k] = IF k = 0 THEN <<>> ELSE v[k - 1] \o Wire(fs[k])
        OBVIOUS
    <3>1. CASE k = 0
        BY <3>1, <1>4, <2>1, <2>3
    <3>2. CASE k # 0 /\ k < m
      <4>1. k \in 1..(m - 1) /\ k - 1 \in 0..m /\ k - 1 < m
          BY <3>2, <2>1
      <4>2. v[k] = w[k] /\ v[k - 1] = w[k - 1]
          BY <3>2, <4>1
      <4> HIDE DEF v
      <4> QED BY <3>2, <4>1, <4>2, <2>3
    <3>3. CASE k = m
      <4>1. m - 1 \in 0..m /\ m - 1 < m /\ ~(m < m) /\ m \in 0..m
          BY <2>1
      <4>2. v[k] = w[m - 1] \o Wire(fs[m]) /\ v[m - 1] = w[m - 1]
          BY <3>3, <4>1
      <4> HIDE DEF v
      <4> QED BY <3>3, <4>2, <1>4
    <3> QED BY <3>1, <3>2, <3>3, <2>1
  <2>5. v = [k \in 0..m |-> v[k]]
      OBVIOUS
  <2> HIDE DEF v
  <2>6. Recur(v, fs, m)
      BY <2>4, <2>5 DEF Recur
  <2> QED BY <2>6
<1> QED BY <1>3, <1>4

LEMMA RecurAgrees ==
    ASSUME NEW w, NEW fs, NEW n \in Nat, Recur(w, fs, n),
           NEW v, NEW es, NEW m \in Nat, Recur(v, es, m),
           n <= m, \A k \in 1..n : fs[k] = es[k]
    PROVE  \A k \in 0..n : w[k] = v[k]
<1> DEFINE T == {k \in 0..n : w[k] # v[k]}
<1>1. SUFFICES ASSUME T # {} PROVE FALSE
    OBVIOUS
<1>2. T \in SUBSET Nat
    OBVIOUS
<1>3. PICK k \in T : \A y \in T : k <= y
    BY <1>1, <1>2, Least
<1>4. /\ w[0] = <<>> /\ \A i \in 1..n : w[i] = w[i - 1] \o Wire(fs[i])
      /\ v[0] = <<>> /\ \A i \in 1..m : v[i] = v[i - 1] \o Wire(es[i])
    BY RecurStep
<1>5. k \in 1..n /\ k \in 1..m /\ k - 1 \in 0..n /\ k - 1 \notin T /\ w[k] # v[k]
    BY <1>3, <1>4
<1> QED BY <1>4, <1>5

LEMMA WireAllIs ==
    ASSUME NEW fs, Len(fs) \in Nat
    PROVE  \E w : Recur(w, fs, Len(fs)) /\ WireAll(fs) = w[Len(fs)]
<1> DEFINE W == CHOOSE w : Recur(w, fs, Len(fs))
<1>1. Recur(W, fs, Len(fs))
    BY RecurExists
<1>2. WireAll(fs) = W[Len(fs)]
    BY DEF WireAll, Recur
<1> QED BY <1>1, <1>2

LEMMA WireNone == WireAll(<<>>) = <<>>
<1>1. Len(<<>>) = 0
    BY EmptySeq
<1>2. PICK w : Recur(w, <<>>, 0) /\ WireAll(<<>>) = w[0]
    BY <1>1, WireAllIs
<1> QED BY <1>2, RecurStep

LEMMA WireOneMore ==
    ASSUME NEW S, NEW fs \in Seq(S), NEW f \in S
    PROVE  WireAll(Append(fs, f)) = WireAll(fs) \o Wire(f)
<1> DEFINE es == Append(fs, f)
           n == Len(fs)
<1>1. n \in Nat /\ Len(es) = n + 1 /\ es[n + 1] = f /\ \A k \in 1..n : fs[k] = es[k]
    BY LenProperties, AppendProperties
<1> HIDE DEF es
<1>2. PICK w : Recur(w, fs, n) /\ WireAll(fs) = w[n]
    BY <1>1, WireAllIs
<1> HIDE DEF n
<1>3. PICK v : Recur(v, es, n + 1) /\ WireAll(es) = v[n + 1]
    BY <1>1, WireAllIs
<1>4. \A k \in 0..n : w[k] = v[k]
    BY <1>1, <1>2, <1>3, RecurAgrees
<1>5. v[n + 1] = v[(n + 1) - 1] \o Wire(es[n + 1])
  <2>1. n + 1 \in Nat /\ n + 1 \in 1..(n + 1)
      BY <1>1
  <2>2. \A k \in 1..(n + 1) : v[k] = v[k - 1] \o Wire(es[k])
      BY <1>3, <2>1, RecurStep
  <2> QED BY <2>1, <2>2
<1>6. w[n] = v[n] /\ (n + 1) - 1 = n
    BY <1>1, <1>4
<1> QED BY <1>1, <1>2, <1>3, <1>5, <1>6 DEF es


(* Numbers there and back.                                                  *)
LEMMA Quotient ==
    ASSUME NEW n \in Nat, NEW d \in Nat \ {0}
    PROVE  n \div d \in Nat /\ n % d \in 0..(d - 1) /\ n = (n \div d) * d + (n % d)
<1>1. n \div d \in Nat /\ n % d \in 0..(d - 1)
    OBVIOUS
<1>2. n = d * (n \div d) + (n % d)
    OBVIOUS
<1>3. d * (n \div d) = (n \div d) * d
    BY <1>1
<1> QED BY <1>1, <1>2, <1>3

LEMMA OneQuotient ==
    ASSUME NEW d \in Nat \ {0}, NEW q \in Nat, NEW r \in 0..(d - 1),
           NEW Q \in Nat, NEW R \in 0..(d - 1), q * d + r = Q * d + R
    PROVE  q = Q /\ r = R
<1>0. \A a, b \in Nat : a < b => a * d + d <= b * d
  <2> SUFFICES ASSUME NEW a \in Nat, NEW b \in Nat, a < b PROVE a * d + d <= b * d
      OBVIOUS
  <2>1. PICK c \in Nat : b = a + 1 + c
    <3>1. b - a - 1 \in Nat /\ b = a + 1 + (b - a - 1)
        OBVIOUS
    <3> QED BY <3>1
  <2>2. (a + 1 + c) * d = a * d + d + c * d /\ c * d \in Nat
      OBVIOUS
  <2>3. a * d \in Nat
      OBVIOUS
  <2> QED BY <2>1, <2>2, <2>3
<1>1. q * d \in Nat /\ Q * d \in Nat
    BY Product
<1>2. ~(q < Q)
    BY <1>0, <1>1
<1>3. ~(Q < q)
    BY <1>0, <1>1
<1>4. q = Q
    BY <1>2, <1>3
<1> QED BY <1>4, <1>1

LEMMA Divided ==
    ASSUME NEW d \in Nat \ {0}, NEW q \in Nat, NEW r \in 0..(d - 1)
    PROVE  q * d + r \in Nat /\ (q * d + r) \div d = q /\ (q * d + r) % d = r
<1>1. q * d + r \in Nat
    BY Product
<1> DEFINE n == q * d + r
<1>2. n \in Nat /\ n = q * d + r
    BY <1>1
<1> HIDE DEF n
<1>3. n \div d \in Nat /\ n % d \in 0..(d - 1) /\ n = (n \div d) * d + (n % d)
    BY <1>2, Quotient
<1>4. q = n \div d /\ r = n % d
    BY <1>2, <1>3, OneQuotient
<1> QED BY <1>1, <1>4 DEF n

LEMMA DividedTwice ==
    ASSUME NEW n \in Nat, NEW a \in Nat \ {0}, NEW b \in Nat \ {0}
    PROVE  n \div (a * b) = (n \div a) \div b
<1> DEFINE p == n \div a
           q == p \div b
           r == n % a
           s == p % b
<1>1. p \in Nat /\ r \in 0..(a - 1) /\ n = p * a + r
    BY Quotient
<1> HIDE DEF p, r
<1>2. q \in Nat /\ s \in 0..(b - 1) /\ p = q * b + s
    BY <1>1, Quotient
<1> HIDE DEF q, s
<1>3. n = q * (a * b) + (s * a + r)
  <2>1. (q * b + s) * a = q * (a * b) + s * a
      BY <1>2
  <2> QED BY <2>1, <1>1, <1>2
<1>4. a * b \in Nat \ {0} /\ s * a + r \in 0..(a * b - 1)
  <2>1. a * b \in Nat \ {0}
      OBVIOUS
  <2>2. s * a \in Nat /\ s * a + a <= a * b
    <3>1. PICK c \in Nat : b = s + 1 + c
      <4>1. b - s - 1 \in Nat /\ b = s + 1 + (b - s - 1)
          BY <1>2
      <4> QED BY <4>1
    <3>2. a * (s + 1 + c) = s * a + a + c * a /\ c * a \in Nat /\ s * a \in Nat
        BY <1>2
    <3> QED BY <3>1, <3>2
  <2> QED BY <2>1, <2>2, <1>1
<1> DEFINE m == a * b
           t == s * a + r
<1>5. m \in Nat \ {0} /\ t \in 0..(m - 1) /\ n = q * m + t
    BY <1>3, <1>4
<1> HIDE DEF m, t
<1>6. (q * m + t) \div m = q
    BY <1>2, <1>5, Divided
<1> QED BY <1>5, <1>6 DEF m, p, q

LEMMA BigEndianDigits ==
    ASSUME NEW n \in Nat, NEW q1, NEW q2, NEW q3,
           q1 = n \div BASE, q2 = q1 \div BASE, q3 = q2 \div BASE
    PROVE  BigEndian(n, 4) = <<q3, q2 % BASE, q1 % BASE, n % BASE>>
<1>1. BASE \in Nat \ {0} /\ BASE * BASE \in Nat \ {0}
    BY Powers
<1>2. q2 = n \div (BASE * BASE)
    BY <1>1, DividedTwice
<1>3. q3 = n \div (BASE * BASE * BASE)
    BY <1>1, <1>2, DividedTwice
<1> QED BY <1>2, <1>3 DEF BigEndian

LEMMA NumberBack == ASSUME NEW n \in Nat PROVE Number(BigEndian(n, 4), 4) = n
<1> DEFINE q1 == n \div BASE
           q2 == q1 \div BASE
           q3 == q2 \div BASE
<1>1. BASE \in Nat \ {0}
    BY Powers
<1>2. q1 \in Nat /\ n = q1 * BASE + (n % BASE)
    BY <1>1, Quotient
<1>3. BigEndian(n, 4) = <<q3, q2 % BASE, q1 % BASE, n % BASE>>
    BY BigEndianDigits
<1> HIDE DEF q1
<1>4. q2 \in Nat /\ q1 = q2 * BASE + (q1 % BASE)
    BY <1>1, <1>2, Quotient
<1> HIDE DEF q2
<1>5. q3 \in Nat /\ q2 = q3 * BASE + (q2 % BASE)
    BY <1>1, <1>4, Quotient
<1> HIDE DEF q3
<1> DEFINE r2 == q2 % BASE
           r1 == q1 % BASE
           r0 == n % BASE
           b == BigEndian(n, 4)
<1>6. b[1] = q3 /\ b[2] = r2 /\ b[3] = r1 /\ b[4] = r0
    BY <1>3
<1>7. n = q1 * BASE + r0 /\ q1 = q2 * BASE + r1 /\ q2 = q3 * BASE + r2
    BY <1>2, <1>4, <1>5
<1> HIDE DEF r0, r1, r2
<1>8. Number(b, 4) = ((b[1] * BASE + b[2]) * BASE + b[3]) * BASE + b[4]
    BY DEF Number
<1> HIDE DEF b
<1>9. Number(b, 4) = n
    BY <1>6, <1>7, <1>8
<1> QED BY <1>9 DEF b

LEMMA DigitsBack ==
    ASSUME NEW b1 \in Nat, NEW b2 \in 0..(BASE - 1), NEW b3 \in 0..(BASE - 1), NEW b4 \in 0..(BASE - 1)
    PROVE  BigEndian(((b1 * BASE + b2) * BASE + b3) * BASE + b4, 4) = <<b1, b2, b3, b4>>
<1> DEFINE x2 == b1 * BASE + b2
           x3 == x2 * BASE + b3
           n == x3 * BASE + b4
<1>1. BASE \in Nat \ {0}
    BY Powers
<1>2. x2 \in Nat /\ x2 \div BASE = b1 /\ x2 % BASE = b2
    BY <1>1, Divided
<1> HIDE DEF x2
<1>3. x3 \in Nat /\ x3 \div BASE = x2 /\ x3 % BASE = b3
    BY <1>1, <1>2, Divided
<1> HIDE DEF x3
<1>4. n \in Nat /\ n \div BASE = x3 /\ n % BASE = b4
    BY <1>1, <1>3, Divided
<1> HIDE DEF n
<1>5. BigEndian(n, 4) = <<b1, x2 % BASE, x3 % BASE, n % BASE>>
    BY <1>2, <1>3, <1>4, BigEndianDigits
<1> QED BY <1>2, <1>3, <1>4, <1>5 DEF n, x3, x2

-----------------------------------------------------------------------------
(* What is added to a string comes behind what it held.                     *)

LEMMA Concat ==
    ASSUME NEW s \in Seq(Nat), NEW t \in Seq(Nat)
    PROVE  /\ s \o t \in Seq(Nat) /\ Len(s \o t) = Len(s) + Len(t)
           /\ \A i \in 1..Len(s) : (s \o t)[i] = s[i]
           /\ \A i \in 1..Len(t) : (s \o t)[Len(s) + i] = t[i]
           /\ \A u \in Seq(Nat) : (s \o t) \o u = s \o (t \o u)
<1>1. Len(s) \in Nat /\ Len(t) \in Nat
    BY LenProperties
<1>2. /\ s \o t \in Seq(Nat) /\ Len(s \o t) = Len(s) + Len(t)
      /\ \A i \in 1..(Len(s) + Len(t)) : (s \o t)[i] = IF i <= Len(s) THEN s[i] ELSE t[i - Len(s)]
    BY ConcatProperties
<1>3. ASSUME NEW u \in Seq(Nat) PROVE (s \o t) \o u = s \o (t \o u)
    BY ConcatAssociative
<1> QED BY <1>1, <1>2, <1>3

LEMMA Assoc == \A s, t, u \in Seq(Nat) : (s \o t) \o u = s \o (t \o u)
BY Concat

LEMMA ReserveKeeps ==
    ASSUME NEW s, StrOK(s), NEW r \in Nat
    PROVE  /\ Reserve(s, r).ok = TRUE => s.ok = TRUE
           /\ \A k \in 1..s.len : Reserve(s, r).data[k] = s.data[k]
<1>0. s.ok \in BOOLEAN /\ s.len \in Nat /\ s.len <= s.reserved /\ s.reserved \in Nat
    BY DEF StrOK, Str
<1>1. CASE s.ok = FALSE \/ r <= s.reserved
    BY <1>1 DEF Reserve
<1>2. CASE s.ok = TRUE /\ r > s.reserved /\ Grow(r) >= STRMAX
    BY <1>2, FailedOK DEF Reserve, Failed, StrOK, Str
<1>3. CASE s.ok = TRUE /\ r > s.reserved /\ ~(Grow(r) >= STRMAX)
  <2> DEFINE block == [k \in 1..Grow(r) |-> IF k <= s.len THEN s.data[k] ELSE Junk]
             t == [s EXCEPT !.reserved = Grow(r), !.data = block]
  <2>1. Reserve(s, r) = t
      BY <1>3 DEF Reserve, StrOK
  <2>2. t.data = block
      BY DEF StrOK, Str
  <2>3. Grow(r) \in Nat /\ s.len <= Grow(r)
      BY <1>0, <1>3, Half
  <2>4. \A k \in 1..s.len : block[k] = s.data[k]
      BY <1>0, <2>3
  <2> QED BY <1>3, <2>1, <2>2, <2>4
<1>4. \/ s.ok = FALSE \/ r <= s.reserved
      \/ s.ok = TRUE /\ r > s.reserved /\ Grow(r) >= STRMAX
      \/ s.ok = TRUE /\ r > s.reserved /\ ~(Grow(r) >= STRMAX)
    BY <1>0
<1> QED BY <1>1, <1>2, <1>3, <1>4

LEMMA ContentIs ==
    ASSUME NEW s, StrOK(s)
    PROVE  \A k \in 1..s.len : Content(s)[k] = s.data[k]
BY DEF Content, StrOK, Str

LEMMA NoContent == Content(EmptyStr) = <<>>
BY SubSeqEmpty DEF Content, EmptyStr

LEMMA Added ==
    ASSUME NEW s, StrOK(s), NEW b \in Seq(Nat), Add(s, b).ok = TRUE
    PROVE  s.ok = TRUE /\ Content(Add(s, b)) = Content(s) \o b
<1> DEFINE m == s.len + Len(b)
           t == Add(s, b)
<1>1. Len(b) \in Nat /\ s.len \in Nat /\ s.ok \in BOOLEAN /\ STRMAX \in Nat /\ m \in Nat
    BY LenProperties, VstrAssumption DEF StrOK, Str
<1>2. s.ok = TRUE /\ ~(m >= STRMAX)
  <2>1. CASE s.ok = FALSE \/ m >= STRMAX
    <3>1. t = Failed(s)
        BY <2>1 DEF Add
    <3> QED BY <3>1, FailedOK
  <2> QED BY <1>1, <2>1
<1>3. StrOK(t)
    BY AddOK
<1>4. Content(s) \in Seq(Nat) /\ Len(Content(s)) = s.len
      /\ Content(t) \in Seq(Nat) /\ Len(Content(t)) = t.len
    BY <1>3, ContentOK
<1>5. CASE m = 0
  <2>1. t = s /\ Len(b) = 0
      BY <1>1, <1>2, <1>5 DEF Add
  <2>2. b = <<>>
      BY <2>1, EmptySeq
  <2> QED BY <1>2, <1>4, <2>1, <2>2, ConcatEmptySeq
<1>6. CASE m # 0
  <2> DEFINE r == Reserve(s, m)
             d == [k \in 1..Size(r, s.len, b) |->
                    IF k > s.len /\ k <= s.len + Len(b) THEN b[k - s.len]
                    ELSE IF k <= Len(r.data) THEN r.data[k] ELSE Junk]
  <2>0. StrOK(r) /\ r.len = s.len /\ (r.ok = TRUE => m <= r.reserved)
        /\ \A k \in 1..s.len : r.data[k] = s.data[k]
    <3> HIDE DEF m
    <3> QED BY <1>1, <1>2, ReserveOK, ReserveKeeps
  <2>1. t = IF r.ok THEN [Written(r, s.len, b) EXCEPT !.len = m] ELSE r
      BY <1>2, <1>6 DEF Add, RoomFor
  <2>2. r.ok = TRUE
    <3>1. r.ok \in BOOLEAN
        BY <2>0 DEF StrOK, Str
    <3> QED BY <2>1, <3>1
  <2> HIDE DEF r
  <2>3. t.len = m /\ t.data = d
      BY <2>0, <2>1, <2>2 DEF Written, StrOK, Str
  <2>4. m <= r.reserved /\ Len(r.data) = r.reserved /\ r.reserved \in Nat
      BY <2>0, <2>2 DEF StrOK, Str
  <2>5. Size(r, s.len, b) = r.reserved
      BY <1>1, <2>4 DEF Size
  <2>6. \A k \in 1..m : d[k] = IF k <= s.len THEN s.data[k] ELSE b[k - s.len]
      BY <1>1, <2>0, <2>4, <2>5
  <2> HIDE DEF d
  <2>7. \A k \in 1..m : Content(t)[k] = IF k <= s.len THEN Content(s)[k] ELSE b[k - s.len]
    <3> SUFFICES ASSUME NEW k \in 1..m
                 PROVE  Content(t)[k] = IF k <= s.len THEN Content(s)[k] ELSE b[k - s.len]
        OBVIOUS
    <3>1. Content(t)[k] = d[k]
        BY <1>3, <2>3, ContentIs
    <3>2. k <= s.len => Content(s)[k] = s.data[k]
        BY <1>1, ContentIs
    <3> QED BY <2>6, <3>1, <3>2
  <2> HIDE DEF t
  <2> DEFINE c == Content(s)
             e == Content(t)
  <2>8. /\ c \o b \in Seq(Nat) /\ Len(c \o b) = m
        /\ \A k \in 1..s.len : (c \o b)[k] = c[k]
        /\ \A k \in 1..Len(b) : (c \o b)[s.len + k] = b[k]
    <3>1. c \in Seq(Nat) /\ Len(c) = s.len
        BY <1>4
    <3> HIDE DEF c
    <3>2. /\ c \o b \in Seq(Nat) /\ Len(c \o b) = s.len + Len(b)
          /\ \A k \in 1..s.len : (c \o b)[k] = c[k]
          /\ \A k \in 1..Len(b) : (c \o b)[s.len + k] = b[k]
      <4>1. /\ c \o b \in Seq(Nat) /\ Len(c \o b) = Len(c) + Len(b)
            /\ \A k \in 1..Len(c) : (c \o b)[k] = c[k]
            /\ \A k \in 1..Len(b) : (c \o b)[Len(c) + k] = b[k]
          BY <3>1, Concat, Zenon
      <4> QED BY <3>1, <4>1
    <3> QED BY <3>2
  <2>9. e \in Seq(Nat) /\ Len(e) = m /\ \A k \in 1..m : e[k] = (c \o b)[k]
    <3>1. e \in Seq(Nat) /\ Len(e) = m
        BY <1>4, <2>3
    <3>2. ASSUME NEW k \in 1..m PROVE e[k] = (c \o b)[k]
      <4>1. CASE k <= s.len
          BY <1>1, <2>7, <2>8, <4>1
      <4>2. CASE k > s.len
        <5>1. k - s.len \in 1..Len(b) /\ s.len + (k - s.len) = k
            BY <1>1, <4>2
        <5>2. e[k] = b[k - s.len]
            BY <1>1, <2>7, <4>2
        <5> QED BY <2>8, <5>1, <5>2
      <4> QED
        <5>1. k <= s.len \/ k > s.len
            BY <1>1
        <5> QED BY <4>1, <4>2, <5>1
    <3> QED BY <3>1, <3>2
  <2> HIDE DEF c, e, m
  <2>10. e = c \o b
      BY <2>8, <2>9, SeqEqual
  <2> QED BY <1>2, <2>10 DEF c, e, t
<1> QED BY <1>5, <1>6

LEMMA Elements == \A b \in Seq(Nat) :
    /\ \A k \in 1..Len(b) : b[k] \in Nat
    /\ Len(b) = 4 => b[1] \in Nat /\ b[2] \in Nat /\ b[3] \in Nat /\ b[4] \in Nat
<1> SUFFICES ASSUME NEW b \in Seq(Nat)
             PROVE /\ \A k \in 1..Len(b) : b[k] \in Nat
                   /\ Len(b) = 4 => b[1] \in Nat /\ b[2] \in Nat /\ b[3] \in Nat /\ b[4] \in Nat
    OBVIOUS
<1>1. \A k \in 1..Len(b) : b[k] \in Nat
    BY ElementOfSeq
<1> QED BY <1>1

LEMMA BigEndianSeq ==
    ASSUME NEW n \in Nat, NEW w \in {1, 4}
    PROVE  BigEndian(n, w) \in Seq(Nat) /\ Len(BigEndian(n, w)) = w
<1>1. CASE w = 1
  <2>1. <<n>> \in Seq(Nat) /\ Len(<<n>>) = 1
      OBVIOUS
  <2>2. BigEndian(n, w) = <<n>>
      BY <1>1 DEF BigEndian
  <2> QED BY <1>1, <2>1, <2>2
<1>2. CASE w = 4
  <2> DEFINE b == BigEndian(n, 4)
  <2>1. b = <<b[1], b[2], b[3], b[4]>>
      BY DEF BigEndian
  <2>2. \A x : <<x>> \in Seq(Nat) => x \in Nat
    <3> SUFFICES ASSUME NEW x, <<x>> \in Seq(Nat) PROVE x \in Nat
        OBVIOUS
    <3>1. Len(<<x>>) = 1 /\ <<x>>[1] = x
        OBVIOUS
    <3> QED BY <3>1, ElementOfSeq
  <2>3. b[1] \in Nat /\ b[2] \in Nat /\ b[3] \in Nat /\ b[4] \in Nat
      BY <2>2, BigEndianNat
  <2> HIDE DEF b
  <2>4. \A x1, x2, x3, x4 \in Nat :
            <<x1, x2, x3, x4>> \in Seq(Nat) /\ Len(<<x1, x2, x3, x4>>) = 4
      OBVIOUS
  <2>5. b \in Seq(Nat) /\ Len(b) = 4
    <3> DEFINE t == <<b[1], b[2], b[3], b[4]>>
    <3>1. t \in Seq(Nat) /\ Len(t) = 4
        BY <2>3, <2>4
    <3>2. b = t
        BY <2>1
    <3> HIDE DEF t
    <3> QED BY <3>1, <3>2
  <2> QED BY <1>2, <2>5 DEF b
<1> QED BY <1>1, <1>2

Cat(s, t) == s \o t

LEMMA CatOK ==
    ASSUME NEW s \in Seq(Nat), NEW t \in Seq(Nat)
    PROVE  /\ Cat(s, t) \in Seq(Nat) /\ Len(Cat(s, t)) = Len(s) + Len(t)
           /\ \A i \in 1..Len(s) : Cat(s, t)[i] = s[i]
           /\ \A i \in 1..Len(t) : Cat(s, t)[Len(s) + i] = t[i]
           /\ \A u \in Seq(Nat) : Cat(Cat(s, t), u) = Cat(s, Cat(t, u))
BY Concat, Zenon DEF Cat

Four(b, t1, t2, t3, t4) ==
    /\ Len(b) = 4 /\ Len(t1) = 1 /\ Len(t2) = 1 /\ Len(t3) = 1 /\ Len(t4) = 1
    /\ t1[1] = b[1] /\ t2[1] = b[2] /\ t3[1] = b[3] /\ t4[1] = b[4]

LEMMA Joined ==
    ASSUME NEW b \in Seq(Nat),
           NEW t1 \in Seq(Nat), NEW t2 \in Seq(Nat), NEW t3 \in Seq(Nat), NEW t4 \in Seq(Nat),
           Four(b, t1, t2, t3, t4)
    PROVE  Cat(t1, Cat(t2, Cat(t3, t4))) = b
<1> USE DEF Four
<1> DEFINE u == Cat(t3, t4)
           v == Cat(t2, u)
           w == Cat(t1, v)
           After(x, s, t) == /\ x \in Seq(Nat) /\ Len(x) = Len(s) + Len(t)
                             /\ \A i \in 1..Len(s) : x[i] = s[i]
                             /\ \A i \in 1..Len(t) : x[Len(s) + i] = t[i]
<1>0. \A s, t \in Seq(Nat) : After(Cat(s, t), s, t)
    BY CatOK
<1>1. u \in Seq(Nat) /\ Len(u) = 2 /\ u[1] = b[3] /\ u[2] = b[4]
  <2>1. After(u, t3, t4)
      BY <1>0, Zenon
  <2> HIDE DEF u
  <2> QED BY <2>1
<1> HIDE DEF u
<1>2. v \in Seq(Nat) /\ Len(v) = 3 /\ v[1] = b[2] /\ v[2] = b[3] /\ v[3] = b[4]
  <2>1. After(v, t2, u)
      BY <1>0, <1>1, Zenon
  <2> HIDE DEF v
  <2>2. v \in Seq(Nat) /\ Len(v) = 1 + 2 /\ v[1] = t2[1] /\ v[1 + 1] = u[1] /\ v[1 + 2] = u[2]
      BY <1>1, <2>1
  <2> QED BY <1>1, <2>2
<1> HIDE DEF v
<1>3. w \in Seq(Nat) /\ Len(w) = 4 /\ w[1] = b[1] /\ w[2] = b[2] /\ w[3] = b[3] /\ w[4] = b[4]
  <2>1. After(w, t1, v)
      BY <1>0, <1>2, Zenon
  <2> HIDE DEF w
  <2>2. w \in Seq(Nat) /\ Len(w) = 1 + 3 /\ w[1] = t1[1]
        /\ w[1 + 1] = v[1] /\ w[1 + 2] = v[2] /\ w[1 + 3] = v[3]
      BY <1>2, <2>1
  <2> QED BY <1>2, <2>2
<1> HIDE DEF w
<1>4. w = b
  <2>1. \A i \in 1..4 : w[i] = b[i]
      BY <1>3
  <2> QED BY <1>3, <2>1, SeqEqual
<1> QED BY <1>4 DEF u, v, w

LEMMA FourMore ==
    ASSUME NEW c \in Seq(Nat), NEW b \in Seq(Nat), Len(b) = 4
    PROVE  (((c \o <<b[1]>>) \o <<b[2]>>) \o <<b[3]>>) \o <<b[4]>> = c \o b
<1>1. <<b[1]>> \in Seq(Nat) /\ <<b[2]>> \in Seq(Nat) /\ <<b[3]>> \in Seq(Nat) /\ <<b[4]>> \in Seq(Nat)
  <2>1. b[1] \in Nat /\ b[2] \in Nat /\ b[3] \in Nat /\ b[4] \in Nat
      BY Elements
  <2> QED BY <2>1
<1>2. PICK t1 \in Seq(Nat), t2 \in Seq(Nat), t3 \in Seq(Nat), t4 \in Seq(Nat) :
        t1 = <<b[1]>> /\ t2 = <<b[2]>> /\ t3 = <<b[3]>> /\ t4 = <<b[4]>>
    BY <1>1, Zenon
<1>3. Four(b, t1, t2, t3, t4)
    BY <1>2 DEF Four
<1>4. Cat(t1, Cat(t2, Cat(t3, t4))) = b
    BY <1>3, Joined
<1>5. Cat(t3, t4) \in Seq(Nat) /\ Cat(c, t1) \in Seq(Nat)
    BY CatOK
<1>6. Cat(t2, Cat(t3, t4)) \in Seq(Nat) /\ Cat(Cat(c, t1), t2) \in Seq(Nat)
    BY <1>5, CatOK
<1>7. Cat(Cat(Cat(Cat(c, t1), t2), t3), t4) = Cat(Cat(Cat(c, t1), t2), Cat(t3, t4))
    BY <1>6, CatOK
<1>8. Cat(Cat(Cat(c, t1), t2), Cat(t3, t4)) = Cat(Cat(c, t1), Cat(t2, Cat(t3, t4)))
    BY <1>5, CatOK
<1>9. Cat(Cat(c, t1), Cat(t2, Cat(t3, t4))) = Cat(c, Cat(t1, Cat(t2, Cat(t3, t4))))
    BY <1>6, CatOK
<1>10. Cat(Cat(Cat(Cat(c, t1), t2), t3), t4) = Cat(c, b)
    BY <1>4, <1>7, <1>8, <1>9
<1> QED BY <1>2, <1>10, Zenon DEF Cat

LEMMA NumberAdded ==
    ASSUME NEW s, StrOK(s), NEW n \in Nat, NEW w \in {1, 4}, AddNumber(s, n, w).ok = TRUE
    PROVE  s.ok = TRUE /\ Content(AddNumber(s, n, w)) = Content(s) \o BigEndian(n, w)
<1>1. CASE w = 1
  <2>1. AddNumber(s, n, w) = Add(s, <<n>>) /\ BigEndian(n, w) = <<n>>
      BY <1>1, BigEndianNat DEF AddNumber
  <2>2. <<n>> \in Seq(Nat)
      OBVIOUS
  <2> QED BY <2>1, <2>2, Added
<1>2. CASE w = 4
  <2> DEFINE b == BigEndian(n, 4)
             s1 == Add(s, <<b[1]>>)
             s2 == Add(s1, <<b[2]>>)
             s3 == Add(s2, <<b[3]>>)
             s4 == Add(s3, <<b[4]>>)
             c == Content(s)
  <2>1. AddNumber(s, n, w) = s4
      BY <1>2 DEF AddNumber
  <2>2. <<b[1]>> \in Seq(Nat) /\ <<b[2]>> \in Seq(Nat) /\ <<b[3]>> \in Seq(Nat) /\ <<b[4]>> \in Seq(Nat)
      BY BigEndianNat
  <2>3. StrOK(s1)
      BY <2>2, AddOK
  <2>4. StrOK(s2)
      BY <2>2, <2>3, AddOK
  <2>5. StrOK(s3)
      BY <2>2, <2>4, AddOK
  <2>6. s3.ok = TRUE /\ Content(s4) = Content(s3) \o <<b[4]>>
      BY <2>1, <2>2, <2>5, Added
  <2>7. s2.ok = TRUE /\ Content(s3) = Content(s2) \o <<b[3]>>
      BY <2>6, <2>2, <2>4, Added
  <2>8. s1.ok = TRUE /\ Content(s2) = Content(s1) \o <<b[2]>>
      BY <2>7, <2>2, <2>3, Added
  <2>9. s.ok = TRUE /\ Content(s1) = c \o <<b[1]>>
      BY <2>8, <2>2, Added
  <2>10. c \in Seq(Nat)
      BY ContentOK
  <2>11. Content(s4) = (((c \o <<b[1]>>) \o <<b[2]>>) \o <<b[3]>>) \o <<b[4]>>
      BY <2>6, <2>7, <2>8, <2>9
  <2>12. b \in Seq(Nat) /\ Len(b) = 4
      BY BigEndianSeq
  <2> HIDE DEF b, c
  <2>13. (((c \o <<b[1]>>) \o <<b[2]>>) \o <<b[3]>>) \o <<b[4]>> = c \o b
      BY <2>10, <2>12, FourMore, Zenon
  <2>14. Content(s4) = c \o b
      BY <2>11, <2>13, Zenon
  <2> QED BY <1>2, <2>1, <2>9, <2>14 DEF b, c
<1> QED BY <1>1, <1>2

LEMMA EncodedAdds ==
    ASSUME NEW s, StrOK(s), NEW f \in Field, Encoded(s, f).ok = TRUE
    PROVE  s.ok = TRUE /\ Content(Encoded(s, f)) = Content(s) \o Wire(f)
<1>1. CASE f.kind = "string"
  <2> DEFINE t == AddNumber(s, Len(f.val), 4)
             c == Content(s)
  <2>1. f.val \in Seq(Nat) /\ Len(f.val) \in Nat
      BY <1>1 DEF Field
  <2>2. Encoded(s, f) = Add(t, f.val) /\ Wire(f) = BigEndian(Len(f.val), 4) \o f.val
      BY <1>1 DEF Encoded, Wire
  <2>3. StrOK(t)
      BY <2>1, AddNumberOK
  <2> HIDE DEF t
  <2>4. t.ok = TRUE /\ Content(Encoded(s, f)) = Content(t) \o f.val
      BY <2>1, <2>2, <2>3, Added
  <2>5. s.ok = TRUE /\ Content(t) = c \o BigEndian(Len(f.val), 4)
      BY <2>1, <2>4, NumberAdded DEF t
  <2>6. c \in Seq(Nat) /\ BigEndian(Len(f.val), 4) \in Seq(Nat)
      BY <2>1, ContentOK, BigEndianSeq
  <2> HIDE DEF c
  <2> DEFINE d == BigEndian(Len(f.val), 4)
             v == f.val
  <2>7. d \in Seq(Nat) /\ v \in Seq(Nat)
      BY <2>1, <2>6
  <2> HIDE DEF d, v
  <2>8. (c \o d) \o v = c \o (d \o v)
      BY <2>6, <2>7, Assoc, Zenon
  <2> QED BY <2>2, <2>4, <2>5, <2>8 DEF c, d, v
<1>2. CASE f.kind # "string"
  <2>1. f.val \in Nat /\ Width(f.kind) \in {1, 4}
      BY <1>2 DEF Field, Width
  <2>2. Encoded(s, f) = AddNumber(s, f.val, Width(f.kind)) /\ Wire(f) = BigEndian(f.val, Width(f.kind))
      BY <1>2 DEF Encoded, Wire
  <2> QED BY <2>1, <2>2, NumberAdded
<1> QED BY <1>1, <1>2

-----------------------------------------------------------------------------
(* Where a field's bytes are.                                               *)

LEMMA WireNumber ==
    ASSUME NEW f \in Field, f.kind # "string"
    PROVE  /\ f.val \in Nat /\ f.kind \in {"u8", "u32"}
           /\ Wire(f) = BigEndian(f.val, Width(f.kind)) /\ Width(f.kind) \in {1, 4}
           /\ Wire(f) \in Seq(Nat) /\ Len(Wire(f)) = Width(f.kind)
<1>1. f.val \in Nat /\ f.kind \in {"u8", "u32"} /\ Width(f.kind) \in {1, 4}
    BY DEF Field, Width
<1>2. Wire(f) = BigEndian(f.val, Width(f.kind))
    BY DEF Wire
<1> QED BY <1>1, <1>2, BigEndianSeq

LEMMA WireString ==
    ASSUME NEW f \in Field, f.kind = "string"
    PROVE  /\ f.val \in Seq(Nat) /\ Len(f.val) \in Nat
           /\ Wire(f) \in Seq(Nat) /\ Len(Wire(f)) = 4 + Len(f.val)
           /\ \A i \in 1..4 : Wire(f)[i] = BigEndian(Len(f.val), 4)[i]
           /\ \A i \in 1..Len(f.val) : Wire(f)[4 + i] = f.val[i]
<1>1. f.val \in Seq(Nat) /\ Len(f.val) \in Nat
    BY DEF Field
<1>2. Wire(f) = Cat(BigEndian(Len(f.val), 4), f.val)
    BY DEF Wire, Cat
<1>3. BigEndian(Len(f.val), 4) \in Seq(Nat) /\ Len(BigEndian(Len(f.val), 4)) = 4
    BY <1>1, BigEndianSeq
<1> DEFINE b == BigEndian(Len(f.val), 4)
           v == f.val
           c == Cat(b, v)
<1>4. /\ c \in Seq(Nat) /\ Len(c) = Len(b) + Len(v)
      /\ \A i \in 1..Len(b) : c[i] = b[i]
      /\ \A i \in 1..Len(v) : c[Len(b) + i] = v[i]
  <2>1. b \in Seq(Nat) /\ v \in Seq(Nat)
      BY <1>1, <1>3
  <2> QED BY <2>1, CatOK, Zenon
<1>5. Len(b) = 4 /\ Wire(f) = c
    BY <1>2, <1>3
<1> HIDE DEF b, c
<1>6. /\ c \in Seq(Nat) /\ Len(c) = 4 + Len(v) /\ \A i \in 1..4 : c[i] = b[i]
      /\ \A i \in 1..Len(v) : c[4 + i] = v[i]
    BY <1>4, <1>5
<1> QED BY <1>1, <1>5, <1>6 DEF b

LEMMA WireSeq ==
    ASSUME NEW f \in Field
    PROVE  Wire(f) \in Seq(Nat) /\ Len(Wire(f)) \in Nat /\ Len(Wire(f)) >= 1
<1>1. CASE f.kind = "string"
    BY <1>1, WireString
<1>2. CASE f.kind # "string"
    BY <1>2, WireNumber
<1> QED BY <1>1, <1>2

LEMMA RecurSeq ==
    ASSUME NEW fs \in Seq(Field), NEW w, Recur(w, fs, Len(fs))
    PROVE  /\ \A k \in 0..Len(fs) : w[k] \in Seq(Nat)
           /\ \A k \in 1..Len(fs) : w[k] = Cat(w[k - 1], Wire(fs[k]))
<1> DEFINE n == Len(fs)
<1>0. n \in Nat
    BY LenProperties
<1>1. /\ w[0] = <<>> /\ \A k \in 1..n : w[k] = Cat(w[k - 1], Wire(fs[k]))
    BY <1>0, RecurStep DEF Cat
<1> DEFINE T == {k \in 0..n : w[k] \notin Seq(Nat)}
<1>2. ASSUME T # {} PROVE FALSE
  <2>1. T \in SUBSET Nat
      BY <1>0
  <2>2. PICK k \in T : \A y \in T : k <= y
      BY <1>2, <2>1, Least
  <2>3. <<>> \in Seq(Nat)
      BY EmptySeq
  <2>4. k \in 1..n /\ k - 1 \in 0..n /\ w[k - 1] \in Seq(Nat)
    <3>1. k # 0 /\ k \in 0..n
        BY <1>1, <2>2, <2>3
    <3>2. k \in 1..n /\ k - 1 \in 0..n /\ k - 1 < k
        BY <1>0, <3>1
    <3>3. k - 1 \notin T
        BY <1>0, <2>2, <3>2
    <3> QED BY <3>2, <3>3
  <2>5. fs[k] \in Field
      BY <2>4, ElementOfSeq
  <2>6. Cat(w[k - 1], Wire(fs[k])) \in Seq(Nat)
      BY <2>4, <2>5, WireSeq, CatOK
  <2> QED BY <1>1, <2>2, <2>4, <2>6
<1> QED BY <1>1, <1>2

LEMMA WireAllSeq ==
    ASSUME NEW fs \in Seq(Field)
    PROVE  WireAll(fs) \in Seq(Nat) /\ Len(WireAll(fs)) \in Nat
<1>0. Len(fs) \in Nat /\ Len(fs) \in 0..Len(fs)
    BY LenProperties
<1>1. PICK w : Recur(w, fs, Len(fs)) /\ WireAll(fs) = w[Len(fs)]
    BY <1>0, WireAllIs
<1>2. WireAll(fs) \in Seq(Nat)
    BY <1>0, <1>1, RecurSeq
<1> QED BY <1>2, LenProperties

LEMMA RecurFront ==
    ASSUME NEW fs \in Seq(Field), NEW w, Recur(w, fs, Len(fs)), NEW k \in 0..Len(fs)
    PROVE  \E r \in Seq(Nat) : w[Len(fs)] = Cat(w[k], r)
<1> DEFINE n == Len(fs)
           T == {j \in k..n : ~\E r \in Seq(Nat) : w[j] = Cat(w[k], r)}
<1>0. n \in Nat /\ k \in Nat
    BY LenProperties
<1>1. /\ \A j \in 0..n : w[j] \in Seq(Nat)
      /\ \A j \in 1..n : w[j] = Cat(w[j - 1], Wire(fs[j]))
    BY RecurSeq
<1>2. ASSUME T # {} PROVE FALSE
  <2>1. T \in SUBSET Nat
      BY <1>0
  <2>2. PICK j \in T : \A y \in T : j <= y
      BY <1>2, <2>1, Least
  <2>3. j # k
    <3>1. <<>> \in Seq(Nat) /\ w[k] \o <<>> = w[k]
        BY <1>1, EmptySeq, ConcatEmptySeq
    <3>2. \E r \in Seq(Nat) : w[k] = Cat(w[k], r)
        BY <3>1, Zenon DEF Cat
    <3> QED BY <2>2, <3>2
  <2>4. j \in 1..n /\ j - 1 \in k..n /\ j - 1 \notin T
      BY <1>0, <2>2, <2>3
  <2>5. PICK r \in Seq(Nat) : w[j - 1] = Cat(w[k], r)
      BY <2>4
  <2>6. Wire(fs[j]) \in Seq(Nat) /\ w[k] \in Seq(Nat)
      BY <1>0, <1>1, <2>4, ElementOfSeq, WireSeq
  <2>7. Cat(r, Wire(fs[j])) \in Seq(Nat) /\ Cat(Cat(w[k], r), Wire(fs[j])) = Cat(w[k], Cat(r, Wire(fs[j])))
    <3>1. \A s, t, u \in Seq(Nat) : Cat(s, t) \in Seq(Nat) /\ Cat(Cat(s, t), u) = Cat(s, Cat(t, u))
        BY CatOK
    <3> QED BY <2>6, <3>1, Zenon
  <2>8. w[j] = Cat(w[k], Cat(r, Wire(fs[j])))
      BY <1>1, <2>4, <2>5, <2>7
  <2> QED BY <2>2, <2>7, <2>8
<1>3. n \in k..n
    BY <1>0
<1> QED BY <1>2, <1>3

LEMMA Fronted ==
    ASSUME NEW S, NEW fs \in Seq(S), NEW k \in 0..Len(fs)
    PROVE  /\ SubSeq(fs, 1, k) \in Seq(S) /\ Len(SubSeq(fs, 1, k)) = k
           /\ \A i \in 1..k : SubSeq(fs, 1, k)[i] = fs[i]
<1>1. Len(fs) \in Nat
    BY LenProperties
<1>2. \A i \in 1..k : fs[i] \in S
    BY <1>1, ElementOfSeq
<1>3. /\ SubSeq(fs, 1, k) \in Seq(S) /\ Len(SubSeq(fs, 1, k)) = IF 1 <= k THEN k - 1 + 1 ELSE 0
      /\ \A i \in 1..(k - 1 + 1) : SubSeq(fs, 1, k)[i] = fs[1 + i - 1]
    BY <1>1, <1>2, SubSeqProperties
<1> QED BY <1>1, <1>3

LEMMA FrontMore ==
    ASSUME NEW S, NEW fs \in Seq(S), NEW k \in 1..Len(fs)
    PROVE  SubSeq(fs, 1, k) = Append(SubSeq(fs, 1, k - 1), fs[k])
<1> DEFINE g == SubSeq(fs, 1, k - 1)
           h == SubSeq(fs, 1, k)
           e == fs[k]
<1>1. Len(fs) \in Nat /\ e \in S /\ k - 1 \in 0..Len(fs) /\ k \in 0..Len(fs) /\ k \in 1..k
    BY LenProperties, ElementOfSeq
<1>2. g \in Seq(S) /\ Len(g) = k - 1 /\ \A i \in 1..(k - 1) : g[i] = fs[i]
    BY <1>1, Fronted
<1>3. h \in Seq(S) /\ Len(h) = k /\ \A i \in 1..k : h[i] = fs[i]
    BY <1>1, Fronted
<1> HIDE DEF g, h
<1>4. /\ Append(g, e) \in Seq(S) /\ Len(Append(g, e)) = k
      /\ \A i \in 1..(k - 1) : Append(g, e)[i] = g[i]
      /\ Append(g, e)[k] = e
  <2> HIDE DEF e
  <2>1. /\ Append(g, e) \in Seq(S) /\ Len(Append(g, e)) = Len(g) + 1
        /\ \A i \in 1..Len(g) : Append(g, e)[i] = g[i]
        /\ Append(g, e)[Len(g) + 1] = e
      BY <1>1, <1>2, AppendProperties
  <2> QED BY <1>1, <1>2, <2>1
<1>5. \A i \in 1..k : h[i] = Append(g, e)[i]
  <2> SUFFICES ASSUME NEW i \in 1..k PROVE h[i] = Append(g, e)[i]
      OBVIOUS
  <2>1. CASE i = k
      BY <1>3, <1>4, <2>1
  <2>2. CASE i # k
    <3>1. i \in 1..(k - 1)
        BY <1>1, <2>2
    <3> QED BY <1>2, <1>3, <1>4, <3>1
  <2> QED BY <2>1, <2>2
<1>6. h = Append(g, e)
    BY <1>3, <1>4, <1>5, SeqEqual
<1> QED BY <1>6 DEF g, h

LEMMA Located ==
    ASSUME NEW fs \in Seq(Field), NEW k \in 1..Len(fs), NEW rest \in Seq(Nat),
           NEW d, d = Cat(WireAll(fs), rest),
           NEW p, p = Len(WireAll(SubSeq(fs, 1, k - 1)))
    PROVE  /\ p \in Nat /\ p + Len(Wire(fs[k])) <= Len(d)
           /\ \A i \in 1..Len(Wire(fs[k])) : d[p + i] = Wire(fs[k])[i]
<1> DEFINE n == Len(fs)
           es == SubSeq(fs, 1, k - 1)
           f == Wire(fs[k])
<1>0. n \in Nat /\ n \in 0..n /\ k \in 0..n /\ k - 1 \in 0..n /\ k - 1 \in Nat /\ k - 1 <= n
    BY LenProperties
<1>1. es \in Seq(Field) /\ Len(es) = k - 1 /\ \A i \in 1..(k - 1) : es[i] = fs[i]
    BY <1>0, Fronted
<1> HIDE DEF es
<1>2. PICK w : Recur(w, fs, n) /\ WireAll(fs) = w[n]
    BY <1>0, WireAllIs
<1>3. PICK v : Recur(v, es, k - 1) /\ WireAll(es) = v[k - 1]
    BY <1>0, <1>1, WireAllIs
<1>4. \A i \in 0..(k - 1) : v[i] = w[i]
  <2>1. PICK j \in Nat : j = k - 1
      BY <1>0
  <2>2. Recur(v, es, j) /\ j <= n /\ \A i \in 1..j : es[i] = fs[i]
      BY <1>0, <1>1, <1>3, <2>1
  <2> HIDE DEF n
  <2>3. \A i \in 0..j : v[i] = w[i]
      BY <1>0, <1>2, <2>2, RecurAgrees
  <2> QED BY <2>1, <2>3
<1>5. WireAll(es) = w[k - 1]
    BY <1>0, <1>3, <1>4
<1>6. /\ \A j \in 0..n : w[j] \in Seq(Nat)
      /\ \A j \in 1..n : w[j] = Cat(w[j - 1], Wire(fs[j]))
    BY <1>2, RecurSeq
<1>7. PICK r \in Seq(Nat) : w[n] = Cat(w[k], r)
    BY <1>0, <1>2, RecurFront
<1> DEFINE a == w[k - 1]
           ab == Cat(a, f)
           abr == Cat(ab, r)
<1>8. a \in Seq(Nat) /\ f \in Seq(Nat)
    BY <1>0, <1>6, ElementOfSeq, WireSeq
<1>9. d = Cat(abr, rest) /\ p = Len(a)
    BY <1>2, <1>5, <1>6, <1>7 DEF es
<1> DEFINE After(x, s, t) == /\ x \in Seq(Nat) /\ Len(x) = Len(s) + Len(t)
                             /\ \A i \in 1..Len(s) : x[i] = s[i]
                             /\ \A i \in 1..Len(t) : x[Len(s) + i] = t[i]
<1>10. \A s, t \in Seq(Nat) : After(Cat(s, t), s, t)
    BY CatOK
<1> HIDE DEF a, f
<1>11. After(ab, a, f)
    BY <1>8, <1>10, Zenon
<1> HIDE DEF ab
<1>12. ab \in Seq(Nat)
    BY <1>11
<1>13. After(abr, ab, r)
    BY <1>10, <1>12, Zenon
<1> HIDE DEF abr
<1>14. abr \in Seq(Nat)
    BY <1>13
<1>15. After(d, abr, rest)
  <2>1. After(Cat(abr, rest), abr, rest)
      BY <1>10, <1>14, Zenon
  <2> HIDE DEF After
  <2> QED BY <1>9, <2>1, Zenon
<1>16. Len(a) \in Nat /\ Len(f) \in Nat /\ Len(r) \in Nat /\ Len(rest) \in Nat
    BY <1>8, LenProperties
<1>17. Len(ab) = Len(a) + Len(f) /\ Len(abr) = Len(ab) + Len(r) /\ Len(d) = Len(abr) + Len(rest)
    BY <1>11, <1>13, <1>15
<1>18. ASSUME NEW i \in 1..Len(f) PROVE d[p + i] = f[i]
  <2>1. /\ p + i \in 1..Len(ab) /\ p + i \in 1..Len(abr)
      BY <1>9, <1>16, <1>17
  <2>2. ab[p + i] = f[i]
      BY <1>9, <1>11
  <2>3. abr[p + i] = ab[p + i]
      BY <1>13, <2>1
  <2>4. d[p + i] = abr[p + i]
      BY <1>15, <2>1
  <2> QED BY <2>2, <2>3, <2>4
<1> QED BY <1>9, <1>16, <1>17, <1>18 DEF f

-----------------------------------------------------------------------------
(* Decoding follows encoding.                                               *)

(* While a message is built, the string holds its first fields.             *)
Encoding ==
    phase = "encode" =>
        /\ out = <<>> /\ pos = 0 /\ str.ok = TRUE
        /\ Len(types) <= Len(items) /\ \A k \in 1..Len(types) : types[k] = items[k].kind
        /\ Content(str) = WireAll(SubSeq(items, 1, Len(types)))

Decoding == phase \in {"decode", "done"}

(* What was taken is what the bytes before the position say.                *)
Taken == Decoding => pos <= Len(data) /\ WireAll(out) = SubSeq(data, 1, pos)

(* Of a message of the program's own its first fields were taken, of its    *)
(* bytes and what follows them.                                             *)
Own ==
    Decoding /\ items # <<>> =>
        /\ Len(types) = Len(items) /\ \A k \in 1..Len(types) : types[k] = items[k].kind
        /\ Len(out) <= Len(items) /\ out = SubSeq(items, 1, Len(out))
        /\ \E rest \in Seq(Nat) : data = Cat(WireAll(items), rest)
        /\ phase = "done" => Len(out) = Len(items)

(* A peer's message is made of bytes.                                       *)
Peer == Decoding /\ items = <<>> => types = <<>> \/ data \in Seq(0..(BASE - 1))

FInv == IInv /\ Encoding /\ Taken /\ Own /\ Peer

LEMMA ReadIs ==
    ASSUME IInv, NEW from \in Nat, NEW n \in Nat, from + n <= Len(data)
    PROVE  /\ Read(from, n) \in Seq(Nat) /\ Len(Read(from, n)) = n
           /\ \A i \in 1..n : Read(from, n)[i] = data[from + i]
<1>1. Len(data) \in Nat /\ \A k \in 1..Len(data) : data[k] \in Nat
    BY LenProperties, ElementOfSeq DEF IInv, TypeInv
<1>2. Read(from, n) \in [1..n -> Nat] /\ \A i \in 1..n : Read(from, n)[i] = data[from + i]
    BY <1>1 DEF Read
<1> QED BY <1>2, FunSeq

LEMMA NumberSame ==
    ASSUME NEW b, NEW c, NEW w \in {1, 4}, \A i \in 1..w : b[i] = c[i]
    PROVE  Number(b, w) = Number(c, w)
<1>1. CASE w = 1
    BY <1>1 DEF Number
<1>2. CASE w = 4
  <2>1. b[1] = c[1] /\ b[2] = c[2] /\ b[3] = c[3] /\ b[4] = c[4]
      BY <1>2
  <2> QED BY <1>2, <2>1 DEF Number
<1> QED BY <1>1, <1>2

LEMMA NumberWritten ==
    ASSUME NEW n \in Nat, NEW w \in {1, 4} PROVE Number(BigEndian(n, w), w) = n
<1>1. CASE w = 1
    BY <1>1, BigEndianNat DEF Number
<1>2. CASE w = 4
    BY <1>2, NumberBack
<1> QED BY <1>1, <1>2

LEMMA NumberRead ==
    ASSUME NEW b, NEW w \in {1, 4}, \A i \in 1..w : b[i] \in 0..(BASE - 1)
    PROVE  \A i \in 1..w : BigEndian(Number(b, w), w)[i] = b[i]
<1>1. CASE w = 1
    BY <1>1 DEF Number, BigEndian
<1>2. CASE w = 4
  <2>1. b[1] \in 0..(BASE - 1) /\ b[2] \in 0..(BASE - 1) /\ b[3] \in 0..(BASE - 1) /\ b[4] \in 0..(BASE - 1)
      BY <1>2
  <2>2. b[1] \in Nat
      BY <2>1, Powers
  <2>3. Number(b, w) = ((b[1] * BASE + b[2]) * BASE + b[3]) * BASE + b[4]
      BY <1>2 DEF Number
  <2>4. BigEndian(Number(b, w), 4) = <<b[1], b[2], b[3], b[4]>>
    <3>1. BigEndian(((b[1] * BASE + b[2]) * BASE + b[3]) * BASE + b[4], 4) = <<b[1], b[2], b[3], b[4]>>
        BY <2>1, <2>2, DigitsBack, Zenon
    <3> QED BY <2>3, <3>1
  <2> QED BY <1>2, <2>4
<1> QED BY <1>1, <1>2

LEMMA TakenMore ==
    ASSUME IInv, Taken, phase = "decode", NEW g \in Field, out' = Append(out, g),
           pos' = pos + Len(Wire(g)), pos' <= Len(data), data' = data,
           \A i \in 1..Len(Wire(g)) : data[pos + i] = Wire(g)[i]
    PROVE  Taken'
<1> DEFINE a == WireAll(out)
           f == Wire(g)
           e == SubSeq(data, 1, pos')
<1>1. out \in Seq(Field) /\ data \in Seq(Nat) /\ pos \in Nat /\ Len(data) \in Nat
    BY LenProperties DEF IInv, TypeInv
<1>2. f \in Seq(Nat) /\ Len(f) \in Nat /\ a \in Seq(Nat)
    BY <1>1, WireSeq, WireAllSeq
<1>3. WireAll(out') = Cat(a, f)
    BY <1>1, WireOneMore DEF Cat
<1>4. a = SubSeq(data, 1, pos) /\ pos <= Len(data)
    BY DEF Taken, Decoding
<1>5. Len(a) = pos /\ \A i \in 1..pos : a[i] = data[i]
    BY <1>1, <1>4, Fronted
<1>6. pos' \in 0..Len(data)
    BY <1>1, <1>2
<1>7. e \in Seq(Nat) /\ Len(e) = pos' /\ \A i \in 1..pos' : e[i] = data[i]
    BY <1>1, <1>6, Fronted
<1> HIDE DEF a, f, e
<1>8. /\ Cat(a, f) \in Seq(Nat) /\ Len(Cat(a, f)) = Len(a) + Len(f)
      /\ \A i \in 1..Len(a) : Cat(a, f)[i] = a[i]
      /\ \A i \in 1..Len(f) : Cat(a, f)[Len(a) + i] = f[i]
    BY <1>2, CatOK, Zenon
<1>9. pos' = pos + Len(f) /\ \A i \in 1..Len(f) : data[pos + i] = f[i]
    BY DEF f
<1>10. \A i \in 1..pos' : Cat(a, f)[i] = e[i]
  <2> SUFFICES ASSUME NEW i \in 1..pos' PROVE Cat(a, f)[i] = e[i]
      OBVIOUS
  <2>1. CASE i <= pos
    <3>1. i \in 1..pos /\ i \in 1..Len(a)
        BY <1>1, <1>5, <1>6, <2>1
    <3>2. Cat(a, f)[i] = a[i]
        BY <1>8, <3>1
    <3> QED BY <1>5, <1>7, <3>1, <3>2
  <2>2. CASE i > pos
    <3>1. i - pos \in 1..Len(f) /\ pos + (i - pos) = i
        BY <1>1, <1>2, <1>6, <1>9, <2>2
    <3>2. Cat(a, f)[pos + (i - pos)] = f[i - pos]
        BY <1>5, <1>8, <3>1
    <3> QED BY <1>7, <1>9, <3>1, <3>2
  <2> QED BY <1>1, <1>6, <2>1, <2>2
<1>11. Cat(a, f) = e
    BY <1>5, <1>7, <1>8, <1>9, <1>10, SeqEqual
<1> QED BY <1>3, <1>11 DEF Taken, e

(* The next field of a message of the program's own is where decoding is.   *)
LEMMA OwnNext ==
    ASSUME IInv, Taken, Own, phase = "decode", items # <<>>, Len(out) < Len(types),
           NEW f, f = items[Len(out) + 1]
    PROVE  /\ f \in Field /\ f.kind = types[Len(out) + 1]
           /\ pos + Len(Wire(f)) <= Len(data)
           /\ \A i \in 1..Len(Wire(f)) : data[pos + i] = Wire(f)[i]
           /\ SubSeq(items, 1, Len(out) + 1) = Append(out, f)
<1> DEFINE k == Len(out) + 1
<1>1. items \in Seq(Items) /\ Items \subseteq Field /\ data \in Seq(Nat) /\ pos \in Nat
      /\ out \in Seq(Field) /\ Len(out) \in Nat /\ Len(items) \in Nat /\ Len(data) \in Nat
  <2>1. Items \subseteq Field
      BY PayloadAssumption DEF Field
  <2> QED BY <2>1, LenProperties DEF IInv, TypeInv
<1>2. items \in Seq(Field)
    BY <1>1, SeqMonotonic
<1>3. /\ Len(types) = Len(items) /\ \A j \in 1..Len(types) : types[j] = items[j].kind
      /\ out = SubSeq(items, 1, Len(out))
      /\ \E rest \in Seq(Nat) : data = Cat(WireAll(items), rest)
    BY DEF Own, Decoding
<1>4. k \in 1..Len(items) /\ k - 1 = Len(out)
    BY <1>1, <1>3
<1>5. f \in Field /\ f.kind = types[k]
    BY <1>2, <1>3, <1>4, ElementOfSeq
<1>6. PICK rest \in Seq(Nat) : data = Cat(WireAll(items), rest)
    BY <1>3
<1>7. Len(WireAll(SubSeq(items, 1, k - 1))) = pos
  <2>1. WireAll(out) = SubSeq(data, 1, pos) /\ pos \in 0..Len(data)
      BY <1>1 DEF Taken, Decoding
  <2>2. Len(SubSeq(data, 1, pos)) = pos
      BY <1>1, <2>1, Fronted
  <2>3. SubSeq(items, 1, k - 1) = out
      BY <1>3, <1>4
  <2> QED BY <2>1, <2>2, <2>3
<1>8. SubSeq(items, 1, k) = Append(out, f)
  <2>1. SubSeq(items, 1, k) = Append(SubSeq(items, 1, k - 1), items[k])
      BY <1>2, <1>4, FrontMore
  <2> QED BY <1>3, <1>4, <2>1
<1> HIDE DEF k
<1>9. pos + Len(Wire(items[k])) <= Len(data)
      /\ \A i \in 1..Len(Wire(items[k])) : data[pos + i] = Wire(items[k])[i]
    BY <1>2, <1>4, <1>6, <1>7, Located
<1>10. f = items[k]
    BY DEF k
<1> QED BY <1>5, <1>8, <1>9, <1>10 DEF k

LEMMA OwnMore ==
    ASSUME IInv, Own, phase = "decode", phase' = "decode", Len(out) < Len(types),
           UNCHANGED <<items, data, types>>,
           items # <<>> => out' = SubSeq(items, 1, Len(out) + 1)
    PROVE  Own'
<1> SUFFICES ASSUME items # <<>> PROVE Own'
    BY DEF Own
<1>1. /\ Len(types) = Len(items) /\ \A j \in 1..Len(types) : types[j] = items[j].kind
      /\ \E rest \in Seq(Nat) : data = Cat(WireAll(items), rest)
    BY DEF Own, Decoding
<1>2. items \in Seq(Items) /\ Len(out) \in Nat /\ Len(items) \in Nat
    BY LenProperties DEF IInv, TypeInv
<1>3. Len(out) + 1 \in 0..Len(items) /\ out' = SubSeq(items, 1, Len(out) + 1)
    BY <1>1, <1>2
<1>4. Len(out') = Len(out) + 1
    BY <1>2, <1>3, Fronted
<1>5. Len(out') <= Len(items) /\ out' = SubSeq(items, 1, Len(out'))
    BY <1>2, <1>3, <1>4
<1> QED BY <1>1, <1>5 DEF Own


LEMMA EncodingInit == Init => Encoding /\ Taken /\ Own /\ Peer
<1> SUFFICES ASSUME Init PROVE Encoding /\ Taken /\ Own /\ Peer
    OBVIOUS
<1>1. str = EmptyStr /\ pos = 0 /\ out = <<>> /\ Len(<<>>) = 0
    BY EmptySeq DEF Init
<1>2. EmptyStr.ok = TRUE
    BY DEF EmptyStr
<1>3. \A s : SubSeq(s, 1, 0) = <<>>
    BY SubSeqEmpty
<1>4. CASE phase = "encode" /\ items \in SeqUpTo(Items, MaxItems) /\ types = <<>>
  <2>1. items \in Seq(Items)
      BY <1>4, UpToSeq, PayloadAssumption
  <2>2. Len(items) \in Nat
      BY <2>1, LenProperties
  <2>3. Content(str) = WireAll(SubSeq(items, 1, Len(types)))
    <3>1. Content(str) = <<>>
        BY <1>1, NoContent
    <3>2. SubSeq(items, 1, Len(types)) = <<>>
        BY <1>1, <1>3, <1>4
    <3> QED BY <3>1, <3>2, WireNone
  <2> QED BY <1>1, <1>2, <1>4, <2>2, <2>3 DEF Encoding, Taken, Own, Peer, Decoding
<1>5. CASE phase = "decode" /\ items = <<>> /\ data \in SeqUpTo(PeerBytes, MaxPeer)
  <2>1. data \in Seq(PeerBytes) /\ Len(data) \in Nat
      BY <1>5, UpToSeq, PayloadAssumption
  <2>2. data \in Seq(0..(BASE - 1))
      BY <2>1, PayloadAssumption, SeqMonotonic
  <2>3. WireAll(out) = SubSeq(data, 1, pos)
      BY <1>1, <1>3, WireNone
  <2> QED BY <1>1, <1>5, <2>1, <2>2, <2>3 DEF Encoding, Taken, Own, Peer
<1> QED BY <1>4, <1>5 DEF Init

LEMMA EncodeFaithful == ASSUME FInv, Encode PROVE (Encoding /\ Taken /\ Own /\ Peer)'
<1> DEFINE k == Len(types) + 1
           f == items[k]
<1>1. items \in Seq(Items) /\ Items \subseteq Field /\ Len(items) \in Nat
      /\ types \in Seq(Kind) /\ Len(types) \in Nat /\ StrOK(str)
  <2>1. Items \subseteq Field
      BY PayloadAssumption DEF Field
  <2> QED BY <2>1, LenProperties DEF FInv, IInv, TypeInv
<1>2. items \in Seq(Field)
    BY <1>1, SeqMonotonic
<1>3. k \in 1..Len(items) /\ k - 1 = Len(types)
    BY <1>1 DEF Encode
<1>4. f \in Field /\ f.kind \in Kind
  <2>1. f \in Field
      BY <1>2, <1>3, ElementOfSeq
  <2> QED BY <2>1 DEF Field, Kind
<1>5. str' = Encoded(str, f) /\ types' = Append(types, f.kind)
      /\ phase' = (IF str'.ok THEN "encode" ELSE "failed")
      /\ UNCHANGED <<items, data, plen, pos, out, touched>>
    BY DEF Encode
<1>6. /\ out = <<>> /\ pos = 0 /\ str.ok = TRUE
      /\ \A j \in 1..Len(types) : types[j] = items[j].kind
      /\ Content(str) = WireAll(SubSeq(items, 1, k - 1))
    BY <1>3 DEF FInv, Encoding, Encode
<1>7. Taken' /\ Own' /\ Peer'
    BY <1>5 DEF Taken, Own, Peer, Decoding
<1>8. ASSUME phase' = "encode" PROVE Encoding'
  <2>1. str'.ok = TRUE
    <3>1. StrOK(str')
        BY <1>1, <1>4, <1>5, EncodedOK
    <3>2. str'.ok \in BOOLEAN
        BY <3>1 DEF StrOK, Str
    <3> QED BY <1>5, <1>8, <3>2
  <2>2. Content(str') = Content(str) \o Wire(f)
      BY <1>1, <1>4, <1>5, <2>1, EncodedAdds
  <2>3. SubSeq(items, 1, k - 1) \in Seq(Field)
      BY <1>2, <1>3, Fronted
  <2>4. WireAll(Append(SubSeq(items, 1, k - 1), f)) = WireAll(SubSeq(items, 1, k - 1)) \o Wire(f)
      BY <1>4, <2>3, WireOneMore
  <2>5. SubSeq(items, 1, k) = Append(SubSeq(items, 1, k - 1), f)
      BY <1>2, <1>3, FrontMore
  <2>6. Content(str') = WireAll(SubSeq(items, 1, k))
    <3> HIDE DEF k, f
    <3>1. Content(str) = WireAll(SubSeq(items, 1, k - 1))
        BY <1>6
    <3> QED BY <2>2, <2>4, <2>5, <3>1, Zenon
  <2>7. Len(types') = k /\ \A j \in 1..k : types'[j] = items[j].kind
    <3>1. Len(types') = Len(types) + 1 /\ types'[Len(types) + 1] = f.kind
          /\ \A j \in 1..Len(types) : types'[j] = types[j]
        BY <1>1, <1>4, <1>5, AppendProperties
    <3>2. \A j \in 1..k : j \in 1..Len(types) \/ j = k
        BY <1>1
    <3> QED BY <1>6, <3>1, <3>2
  <2> QED BY <1>3, <1>5, <1>6, <2>1, <2>6, <2>7 DEF Encoding
<1> QED BY <1>7, <1>8 DEF Encoding

LEMMA ReceiveFaithful == ASSUME FInv, Receive PROVE (Encoding /\ Taken /\ Own /\ Peer)'
<1> DEFINE c == Content(str)
<1>1. /\ items \in Seq(Items) /\ types \in Seq(Kind) /\ Len(items) \in Nat /\ c \in Seq(Nat)
    BY LenProperties, ContentOK DEF FInv, IInv, TypeInv
<1>2. /\ phase = "encode" /\ phase' = "decode" /\ Len(types) = Len(items)
      /\ UNCHANGED <<items, str, types, pos, out, touched>>
    BY DEF Receive
<1>3. /\ out = <<>> /\ pos = 0 /\ \A j \in 1..Len(types) : types[j] = items[j].kind
      /\ c = WireAll(SubSeq(items, 1, Len(types)))
    BY <1>2 DEF FInv, Encoding
<1>4. c = WireAll(items)
  <2>1. SubSeq(items, 1, Len(items)) = items
      BY <1>1, SubSeqFull
  <2> QED BY <1>2, <1>3, <2>1
<1>5. IInv'
    BY ReceiveOK DEF FInv
<1>6. \E rest \in Seq(Nat) : data' = c \o rest
  <2>1. CASE data' = c
    <3>1. c \o <<>> = c /\ <<>> \in Seq(Nat)
        BY <1>1, ConcatEmptySeq, EmptySeq
    <3> QED BY <2>1, <3>1
  <2>2. CASE \E last \in PeerBytes :
          data' = c \o [k \in 1..PadLen(str.len, 16) |-> (k - 1) % BASE] \o <<last>>
    <3> DEFINE n == PadLen(str.len, 16)
               pad == [k \in 1..n |-> (k - 1) % BASE]
    <3>1. PICK last \in PeerBytes : data' = (c \o pad) \o <<last>>
        BY <2>2
    <3>2. n \in 4..11
      <4>1. str.len \in Nat
          BY DEF FInv, IInv, StrOK, Str
      <4> QED BY <4>1, PadRange DEF MacLens
    <3>3. pad \in Seq(Nat)
      <4> HIDE DEF n
      <4>1. \A k \in 1..n : (k - 1) % BASE \in Nat
          BY <3>2, DivMod, Powers
      <4>2. pad \in [1..n -> Nat] /\ n \in Nat
          BY <3>2, <4>1
      <4> HIDE DEF pad
      <4> QED BY <4>2, FunSeq
    <3>4. <<last>> \in Seq(Nat)
      <4>1. last \in Nat
          BY PayloadAssumption
      <4> QED BY <4>1
    <3> HIDE DEF n, pad, c
    <3>5. pad \o <<last>> \in Seq(Nat) /\ (c \o pad) \o <<last>> = c \o (pad \o <<last>>)
        BY <1>1, <3>3, <3>4, Concat, Zenon
    <3> QED BY <3>1, <3>5, Zenon
  <2> QED BY <2>1, <2>2 DEF Receive
<1>7. Own'
  <2>1. \E rest \in Seq(Nat) : data' = Cat(WireAll(items), rest)
      BY <1>4, <1>6 DEF Cat
  <2>2. Len(out) = 0 /\ out = SubSeq(items, 1, 0)
      BY <1>3, EmptySeq, SubSeqEmpty
  <2> QED BY <1>1, <1>2, <1>3, <2>1, <2>2 DEF Own
<1>8. Taken'
  <2>1. WireAll(out') = SubSeq(data', 1, 0)
    <3>1. SubSeq(data', 1, 0) = <<>>
        BY SubSeqEmpty
    <3>2. out' = <<>>
        BY <1>2, <1>3
    <3> QED BY <3>1, <3>2, WireNone
  <2>2. Len(data') \in Nat
      BY <1>5, LenProperties DEF IInv, TypeInv
  <2> QED BY <1>2, <1>3, <2>1, <2>2 DEF Taken
<1>9. Peer'
  <2>1. items = <<>> => types = <<>>
      BY <1>1, <1>2, EmptySeq
  <2> QED BY <1>2, <2>1 DEF Peer
<1> QED BY <1>2, <1>7, <1>8, <1>9 DEF Encoding


(* The bytes of a peer's message that are before its end.                   *)
LEMMA PeerBytesRead ==
    ASSUME IInv, Peer, phase = "decode", items = <<>>, Len(out) < Len(types), pos < plen
    PROVE  \A i \in 1..(Len(data) - pos) : data[pos + i] \in 0..(BASE - 1)
<1>1. types # <<>>
  <2>1. Len(<<>>) = 0 /\ Len(out) \in Nat
      BY EmptySeq, LenProperties DEF IInv, TypeInv
  <2> QED BY <2>1
<1>2. data \in Seq(0..(BASE - 1)) /\ pos \in Nat /\ Len(data) \in Nat
    BY <1>1, LenProperties DEF Peer, Decoding, IInv, TypeInv
<1>3. \A j \in 1..Len(data) : data[j] \in 0..(BASE - 1)
    BY <1>2, ElementOfSeq
<1> QED BY <1>2, <1>3

(* A step that does not take a field.                                       *)
LEMMA NothingTaken ==
    ASSUME FInv, phase = "decode", phase' = "failed" PROVE (Encoding /\ Taken /\ Own /\ Peer)'
BY DEF Encoding, Taken, Own, Peer, Decoding

(* A step that takes one.                                                   *)
LEMMA OneTaken ==
    ASSUME FInv, phase = "decode", phase' = "decode", Len(out) < Len(types),
           UNCHANGED <<items, data, types>>,
           NEW g \in Field, out' = Append(out, g),
           pos' = pos + Len(Wire(g)), pos' <= Len(data),
           \A i \in 1..Len(Wire(g)) : data[pos + i] = Wire(g)[i],
           items # <<>> => g = items[Len(out) + 1]
    PROVE  (Encoding /\ Taken /\ Own /\ Peer)'
<1>1. IInv /\ Taken /\ Own /\ Peer
    BY DEF FInv
<1>2. Taken'
    BY <1>1, TakenMore
<1>3. items # <<>> => out' = SubSeq(items, 1, Len(out) + 1)
    BY <1>1, OwnNext
<1>4. Own'
    BY <1>1, <1>3, OwnMore
<1>5. Peer'
    BY <1>1 DEF Peer, Decoding
<1> QED BY <1>2, <1>4, <1>5 DEF Encoding

LEMMA DecodeNumberFaithful ==
    ASSUME FInv, NEW kind \in {"u8", "u32"}, DecodeNumber(kind)
    PROVE  (Encoding /\ Taken /\ Own /\ Peer)'
<1> DEFINE w == Width(kind)
           b == Read(pos, w)
           g == [kind |-> kind, val |-> Number(b, w)]
<1>1. w \in {1, 4}
    BY DEF Width
<1>2. UNCHANGED <<items, str, data, plen, types>> /\ phase = "decode" /\ pos < plen
      /\ Len(out) < Len(types) /\ types[Len(out) + 1] = kind
    BY DEF DecodeNumber, More, Due
<1>3. IInv /\ Taken /\ Own /\ Peer /\ pos \in Nat /\ plen \in Nat /\ plen = Len(data)
    BY LenProperties DEF FInv, IInv, TypeInv
<1>4. CASE Fail
    BY <1>2, <1>4, NothingTaken DEF Fail
<1>5. CASE /\ ~Overflows(w)
           /\ out' = Append(out, g)
           /\ pos' = pos + w /\ UNCHANGED phase
  <2> HIDE DEF w, b, g
  <2>1. pos + w < plen + STRMAX /\ w \in Nat /\ pos + w \in Nat
      BY <1>1, <1>2, <1>3, VstrAssumption, PayloadAssumption
  <2>2. pos + w <= Len(data)
      BY <1>3, <1>5, <2>1, CheckExact
  <2>3. b \in Seq(Nat) /\ Len(b) = w /\ \A i \in 1..w : b[i] = data[pos + i]
      BY <1>3, <2>1, <2>2, ReadIs DEF b
  <2>4. \A i \in 1..w : b[i] \in Nat
      BY <2>3, ElementOfSeq
  <2>5. Number(b, w) \in Nat
      BY <1>1, <2>4, NumberNat
  <2>6. g \in Field /\ g.kind = kind /\ g.val = Number(b, w) /\ g.kind # "string"
      BY <2>5 DEF Field, g
  <2>7. Wire(g) = BigEndian(Number(b, w), w) /\ Len(Wire(g)) = w
      BY <2>6, WireNumber DEF w
  <2>8. ASSUME items # <<>>
        PROVE  g = items[Len(out) + 1] /\ \A i \in 1..w : Wire(g)[i] = b[i]
    <3> DEFINE f == items[Len(out) + 1]
    <3>1. f \in Field /\ f.kind = kind /\ \A i \in 1..Len(Wire(f)) : data[pos + i] = Wire(f)[i]
        BY <1>2, <1>3, <2>8, OwnNext
    <3> HIDE DEF f
    <3>2. f.val \in Nat /\ Wire(f) = BigEndian(f.val, w) /\ Len(Wire(f)) = w
        BY <3>1, WireNumber DEF w
    <3>3. \A i \in 1..w : b[i] = BigEndian(f.val, w)[i]
        BY <2>3, <3>1, <3>2
    <3>4. Number(b, w) = Number(BigEndian(f.val, w), w)
        BY <1>1, <3>3, NumberSame
    <3>5. Number(b, w) = f.val
        BY <1>1, <3>2, <3>4, NumberWritten
    <3>6. f = [kind |-> f.kind, val |-> f.val]
        BY <3>1 DEF Field
    <3>7. g = f
        BY <3>1, <3>5, <3>6 DEF g
    <3> QED BY <2>7, <3>3, <3>5, <3>7 DEF f
  <2>9. ASSUME items = <<>> PROVE \A i \in 1..w : Wire(g)[i] = b[i]
    <3>1. \A i \in 1..(Len(data) - pos) : data[pos + i] \in 0..(BASE - 1)
        BY <1>2, <1>3, <2>9, PeerBytesRead
    <3>2. \A i \in 1..w : i \in 1..(Len(data) - pos)
        BY <1>3, <2>1, <2>2
    <3>3. \A i \in 1..w : b[i] \in 0..(BASE - 1)
        BY <2>3, <3>1, <3>2
    <3>4. \A i \in 1..w : BigEndian(Number(b, w), w)[i] = b[i]
        BY <1>1, <3>3, NumberRead
    <3> QED BY <2>7, <3>4
  <2>10. \A i \in 1..Len(Wire(g)) : data[pos + i] = Wire(g)[i]
      BY <2>3, <2>7, <2>8, <2>9
  <2>11. pos' = pos + Len(Wire(g)) /\ pos' <= Len(data) /\ phase' = "decode"
      BY <1>2, <1>5, <2>2, <2>7
  <2> QED BY <1>2, <1>5, <2>6, <2>8, <2>10, <2>11, OneTaken
<1> QED BY <1>4, <1>5 DEF DecodeNumber

LEMMA DecodeStringFaithful == ASSUME FInv, DecodeString PROVE (Encoding /\ Taken /\ Own /\ Peer)'
<1> DEFINE n == LengthHere
           b == Read(pos, 4)
           v == Read(pos + 4, n)
           g == [kind |-> "string", val |-> v]
<1>1. UNCHANGED <<items, str, data, plen, types>> /\ phase = "decode" /\ pos < plen
      /\ Len(out) < Len(types) /\ types[Len(out) + 1] = "string"
    BY DEF DecodeString, More, Due
<1>2. IInv /\ Taken /\ Own /\ Peer /\ pos \in Nat /\ plen \in Nat /\ plen = Len(data)
    BY LenProperties DEF FInv, IInv, TypeInv
<1>3. STRMAX \in Nat /\ STRMAX >= 4 /\ 4 \in Nat /\ pos + 4 \in Nat
    BY <1>2, VstrAssumption, PayloadAssumption
<1>4. n \in Nat
    BY <1>2, ReadOK, NumberNat DEF LengthHere
<1>5. CASE Fail
    BY <1>1, <1>5, NothingTaken DEF Fail
<1>6. CASE /\ ~Overflows(4) /\ ~Overflows(4 + n) /\ Fits(n)
           /\ out' = Append(out, g)
           /\ pos' = pos + 4 + n /\ UNCHANGED phase
  <2>0. n = Number(b, 4)
      BY DEF LengthHere
  <2> HIDE DEF n, b, v, g
  <2>1. pos + 4 <= Len(data)
    <3>1. pos + 4 < plen + STRMAX
        BY <1>1, <1>2, <1>3
    <3> QED BY <1>2, <1>3, <1>6, <3>1, CheckExact
  <2>2. pos + (4 + n) <= Len(data) /\ (pos + 4) + n <= Len(data)
    <3>1. pos + (4 + n) < plen + STRMAX /\ 4 + n \in Nat
        BY <1>2, <1>3, <1>4, <1>6, <2>1 DEF Fits
    <3>2. pos + (4 + n) <= Len(data)
        BY <1>2, <1>6, <3>1, CheckExact
    <3> QED BY <1>2, <1>4, <3>2
  <2>3. b \in Seq(Nat) /\ Len(b) = 4 /\ \A i \in 1..4 : b[i] = data[pos + i]
      BY <1>2, <1>3, <2>1, ReadIs DEF b
  <2>4. v \in Seq(Nat) /\ Len(v) = n /\ \A i \in 1..n : v[i] = data[(pos + 4) + i]
      BY <1>2, <1>3, <1>4, <2>2, ReadIs DEF v
  <2>5. g \in Field /\ g.kind = "string" /\ g.val = v
      BY <2>4 DEF Field, g
  <2>6. /\ Len(Wire(g)) = 4 + n
        /\ \A i \in 1..4 : Wire(g)[i] = BigEndian(n, 4)[i]
        /\ \A i \in 1..n : Wire(g)[4 + i] = v[i]
      BY <2>4, <2>5, WireString
  <2>7. ASSUME items # <<>>
        PROVE  g = items[Len(out) + 1] /\ \A i \in 1..4 : BigEndian(n, 4)[i] = b[i]
    <3> DEFINE f == items[Len(out) + 1]
    <3>1. f \in Field /\ f.kind = "string" /\ \A i \in 1..Len(Wire(f)) : data[pos + i] = Wire(f)[i]
        BY <1>1, <1>2, <2>7, OwnNext
    <3> HIDE DEF f
    <3> DEFINE fv == f.val
               m == Len(fv)
    <3>2. /\ fv \in Seq(Nat) /\ m \in Nat /\ Len(Wire(f)) = 4 + m
          /\ \A i \in 1..4 : Wire(f)[i] = BigEndian(m, 4)[i]
          /\ \A i \in 1..m : Wire(f)[4 + i] = fv[i]
        BY <3>1, WireString
    <3>3. \A i \in 1..4 : b[i] = BigEndian(m, 4)[i]
      <4>1. \A i \in 1..4 : i \in 1..Len(Wire(f))
          BY <3>2
      <4> HIDE DEF m, fv
      <4> QED BY <2>3, <3>1, <3>2, <4>1
    <3>4. Number(b, 4) = Number(BigEndian(m, 4), 4)
        BY <3>3, NumberSame
    <3>5. n = m
        BY <2>0, <3>2, <3>4, NumberBack
    <3>6. \A i \in 1..n : v[i] = fv[i]
      <4> SUFFICES ASSUME NEW i \in 1..n PROVE v[i] = fv[i]
          OBVIOUS
      <4>1. 4 + i \in 1..Len(Wire(f)) /\ i \in 1..m /\ pos + (4 + i) = (pos + 4) + i
          BY <1>2, <1>4, <3>2, <3>5
      <4>2. data[pos + (4 + i)] = Wire(f)[4 + i]
          BY <3>1, <4>1
      <4> HIDE DEF m, fv
      <4> QED BY <2>4, <3>2, <4>1, <4>2
    <3>7. v = fv
      <4> HIDE DEF fv
      <4> QED BY <2>4, <3>2, <3>5, <3>6, SeqEqual
    <3>8. f = [kind |-> f.kind, val |-> f.val]
        BY <3>1 DEF Field
    <3>9. g = f
        BY <3>1, <3>7, <3>8 DEF g
    <3> QED BY <3>3, <3>5, <3>9 DEF f
  <2>8. ASSUME items = <<>> PROVE \A i \in 1..4 : BigEndian(n, 4)[i] = b[i]
    <3>1. \A i \in 1..(Len(data) - pos) : data[pos + i] \in 0..(BASE - 1)
        BY <1>1, <1>2, <2>8, PeerBytesRead
    <3>2. \A i \in 1..4 : i \in 1..(Len(data) - pos)
        BY <1>2, <2>1
    <3>3. \A i \in 1..4 : b[i] \in 0..(BASE - 1)
        BY <2>3, <3>1, <3>2
    <3>4. \A i \in 1..4 : BigEndian(Number(b, 4), 4)[i] = b[i]
        BY <3>3, NumberRead
    <3> QED BY <2>0, <3>4
  <2>9. \A i \in 1..Len(Wire(g)) : data[pos + i] = Wire(g)[i]
    <3> SUFFICES ASSUME NEW i \in 1..(4 + n) PROVE data[pos + i] = Wire(g)[i]
        BY <2>6
    <3>1. CASE i <= 4
      <4>1. i \in 1..4
          BY <1>4, <3>1
      <4> QED BY <2>3, <2>6, <2>7, <2>8, <4>1
    <3>2. CASE i > 4
      <4>1. i - 4 \in 1..n /\ 4 + (i - 4) = i /\ (pos + 4) + (i - 4) = pos + i
          BY <1>2, <1>4, <3>2
      <4>2. Wire(g)[4 + (i - 4)] = v[i - 4] /\ v[i - 4] = data[(pos + 4) + (i - 4)]
          BY <2>4, <2>6, <4>1
      <4> QED BY <4>1, <4>2
    <3> QED BY <1>4, <3>1, <3>2
  <2>10. pos' = pos + Len(Wire(g)) /\ pos' <= Len(data) /\ phase' = "decode"
      BY <1>1, <1>2, <1>4, <1>6, <2>2, <2>6
  <2> QED BY <1>1, <1>6, <2>5, <2>7, <2>9, <2>10, OneTaken
<1> QED BY <1>5, <1>6 DEF DecodeString

LEMMA DecodedFaithful == ASSUME FInv, Decoded PROVE (Encoding /\ Taken /\ Own /\ Peer)'
<1>1. /\ UNCHANGED <<items, str, data, plen, types>> /\ phase = "decode" /\ phase' = "done"
      /\ pos' = pos /\ out' = out /\ ~More
    BY DEF Decoded
<1>2. IInv /\ Taken /\ Own /\ Peer /\ pos \in Nat /\ plen = Len(data) /\ Len(data) \in Nat
      /\ Len(out) \in Nat /\ Len(items) \in Nat
    BY LenProperties DEF FInv, IInv, TypeInv
<1>3. ASSUME items # <<>> PROVE Len(out) = Len(items)
  <2>1. Len(types) = Len(items) /\ Len(out) <= Len(items)
      BY <1>1, <1>3 DEF FInv, Own, Decoding
  <2>2. ASSUME Len(out) < Len(types) PROVE FALSE
    <3> DEFINE f == items[Len(out) + 1]
    <3>1. f \in Field /\ pos + Len(Wire(f)) <= Len(data)
        BY <1>1, <1>2, <1>3, <2>2, OwnNext
    <3>2. Len(Wire(f)) \in Nat /\ Len(Wire(f)) >= 1
        BY <3>1, WireSeq
    <3> HIDE DEF f
    <3>3. pos < plen
        BY <1>2, <3>1, <3>2
    <3> QED BY <1>1, <2>2, <3>3 DEF More
  <2> QED BY <1>2, <2>1, <2>2
<1>4. Own'
    BY <1>1, <1>2, <1>3 DEF Own, Decoding
<1>5. Taken' /\ Peer' /\ Encoding'
    BY <1>1, <1>2 DEF Taken, Peer, Encoding, Decoding
<1> QED BY <1>4, <1>5

LEMMA FaithfulStep == FInv /\ [Next]_vars => FInv'
<1> SUFFICES ASSUME FInv, [Next]_vars PROVE FInv'
    OBVIOUS
<1>0. IInv'
    BY StepOK DEF FInv
<1>1. CASE Encode
    BY <1>0, <1>1, EncodeFaithful DEF FInv
<1>2. CASE Receive
    BY <1>0, <1>2, ReceiveFaithful DEF FInv
<1>3. CASE \E kind \in {"u8", "u32"} : DecodeNumber(kind)
    BY <1>0, <1>3, DecodeNumberFaithful DEF FInv
<1>4. CASE DecodeString
    BY <1>0, <1>4, DecodeStringFaithful DEF FInv
<1>5. CASE Decoded
    BY <1>0, <1>5, DecodedFaithful DEF FInv
<1>6. CASE Path
  <2>1. phase' = "path"
      BY <1>6 DEF Path
  <2> QED BY <1>0, <2>1 DEF FInv, Encoding, Taken, Own, Peer, Decoding
<1>7. CASE UNCHANGED vars
  <2>1. Encoding' /\ Taken' /\ Own' /\ Peer'
      BY <1>7 DEF vars, FInv, Encoding, Taken, Own, Peer, Decoding
  <2> QED BY <1>0, <2>1 DEF FInv
<1> QED BY <1>1, <1>2, <1>3, <1>4, <1>5, <1>6, <1>7 DEF Next

(* A message that payload_encode built and payload_decode took apart has    *)
(* its fields again, whatever they are and whatever padding follows them;   *)
(* and what was decoded of any peer's bytes is what those bytes say         *)
(* (packet.c:136-260, 275-409).                                             *)
THEOREM DecodesFaithfully == Spec => []Faithful
<1>1. Init => FInv
    BY InitOK, EncodingInit DEF FInv
<1>2. FInv => Faithful
  <2> SUFFICES ASSUME FInv, phase = "done" PROVE Faithful
      BY DEF Faithful
  <2>1. WireAll(out) = SubSeq(data, 1, pos)
      BY DEF FInv, Taken, Decoding
  <2>2. ASSUME items # <<>> PROVE out = items
    <3>1. out = SubSeq(items, 1, Len(out)) /\ Len(out) = Len(items)
        BY <2>2 DEF FInv, Own, Decoding
    <3>2. items \in Seq(Items)
        BY DEF FInv, IInv, TypeInv
    <3> QED BY <3>1, <3>2, SubSeqFull
  <2> QED BY <2>1, <2>2 DEF Faithful
<1> QED BY <1>1, <1>2, FaithfulStep, PTL DEF Spec
=============================================================================
