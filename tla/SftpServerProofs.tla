-------------------------- MODULE SftpServerProofs --------------------------
(***************************************************************************)
(* First the dispatcher (SftpDispatch): it stays aligned with the stream   *)
(* and hands over every packet exactly, for every chunk size, every set of *)
(* lengths and any number of packets and sessions.                         *)
(*                                                                         *)
(* Then the server: SftpServer implements SftpDispatch, so the SFTP        *)
(* commands, the files, the errors and the sessions leave the cutting of   *)
(* the stream alone; and the safety invariants of SftpServer, for every    *)
(* set of requests: what continue_write relies on, the handles, the        *)
(* answers and the files.                                                  *)
(***************************************************************************)
EXTENDS SftpServer, Integers, SequenceTheorems, TLAPS

(* What has been collected: in the length field its bytes so far, in the    *)
(* packet those after the last piece, so dpch_cnt is the pieces handed over *)
(* and the bytes collected.                                                 *)
Handled == Len(calls) * CHUNK
Collected ==
    /\ dpch_state = "LEN" => /\ chnldat = Cells(0, dpch_cnt)
                             /\ pos < LENLEN => calls = <<>>
    /\ dpch_state = "REG" => /\ dpch_cnt = Handled + Len(chnldat)
                             /\ chnldat = Cells(LENLEN + Handled, pos)

DInv == DTypeOK /\ Aligned /\ Bounded /\ Pieces /\ Collected

-----------------------------------------------------------------------------
(* The remainder the code tests is the number of bytes after the last       *)
(* multiple of CHUNK (sftp_parse.c:161).                                    *)
LEMMA ModUnique ==
    ASSUME NEW c \in Nat \ {0}, NEW q \in Nat, NEW r \in 0..(c - 1)
    PROVE  (q * c + r) % c = r
<1> DEFINE x == q * c + r
           d == x \div c
           m == x % c
<1>1. q * c \in Nat /\ x \in Nat
  BY SMT
<1>2. m \in 0..(c - 1) /\ d \in Int /\ x = c * d + m
  BY <1>1, SMT
<1>3. c * (d - q) = r - m
  BY <1>2, SMT
<1> HIDE DEF d, m
<1>4. d = q
  BY <1>2, <1>3, SMT
<1> QED
  BY <1>2, <1>4, SMT DEF m

(* One more multiple. *)
LEMMA NextMultiple ==
    ASSUME NEW c \in Nat \ {0}, NEW q \in Nat
    PROVE  /\ q * c \in Nat /\ (q + 1) * c = q * c + c
           /\ (q = 0 => q * c = 0) /\ (q # 0 => q * c >= c)
BY SMT

(* The piece that ends a packet or fills a chunk ends where it should. *)
LEMMA LastByte ==
    ASSUME NEW h \in Nat, NEW c \in Nat, NEW g \in 1..c, NEW p \in Nat, h + g <= p,
           g = c \/ h + g = p
    PROVE  (IF 4 + (h + c) < 4 + p THEN 4 + (h + c) ELSE 4 + p) = 4 + (h + g)
OBVIOUS

LEMMA FirstPiece ==
    ASSUME NEW h \in Nat, NEW c \in Nat, NEW g \in 1..c, h = 0 \/ h >= c
    PROVE  h + g > c <=> h # 0
OBVIOUS

LEMMA LastIndex ==
    ASSUME NEW m \in Nat, NEW k \in 1..(m + 1) PROVE k \in 1..m \/ k = m + 1
OBVIOUS

LEMMA CellsType ==
    ASSUME NEW a \in Nat, NEW b \in Nat, a <= b, pkt \in Nat
    PROVE  /\ Cells(a, b) \in Seq(Nat \X Nat) /\ Len(Cells(a, b)) = b - a
           /\ \A i \in 1..(b - a) : Cells(a, b)[i] = <<pkt, a + i>>
BY DEF Cells

LEMMA CellsAppend ==
    ASSUME NEW a \in Nat, NEW b \in Nat, a <= b, pkt \in Nat
    PROVE  Append(Cells(a, b), <<pkt, b + 1>>) = Cells(a, b + 1)
<1> DEFINE s == Cells(a, b)
           t == Cells(a, b + 1)
           e == <<pkt, b + 1>>
<1>1. /\ s \in Seq(Nat \X Nat) /\ Len(s) = b - a
      /\ \A i \in 1..(b - a) : s[i] = <<pkt, a + i>>
  BY CellsType
<1>2. b + 1 \in Nat /\ a <= b + 1
  OBVIOUS
<1>3. /\ t \in Seq(Nat \X Nat) /\ Len(t) = b + 1 - a
      /\ \A i \in 1..(b + 1 - a) : t[i] = <<pkt, a + i>>
  <2>1. \A c \in Nat : a <= c => /\ Cells(a, c) \in Seq(Nat \X Nat) /\ Len(Cells(a, c)) = c - a
                               /\ \A i \in 1..(c - a) : Cells(a, c)[i] = <<pkt, a + i>>
    BY CellsType
  <2>2. /\ Cells(a, b + 1) \in Seq(Nat \X Nat) /\ Len(Cells(a, b + 1)) = (b + 1) - a
        /\ \A i \in 1..((b + 1) - a) : Cells(a, b + 1)[i] = <<pkt, a + i>>
    BY <1>2, <2>1
  <2> QED
    BY <2>2
<1>4. e \in Nat \X Nat
  OBVIOUS
<1> HIDE DEF s, t
<1>5. /\ Append(s, e) \in Seq(Nat \X Nat) /\ Len(Append(s, e)) = Len(s) + 1
      /\ \A i \in 1..Len(s) : Append(s, e)[i] = s[i]
      /\ Append(s, e)[Len(s) + 1] = e
  BY <1>1, <1>4, AppendProperties
<1>6. ASSUME NEW i \in 1..Len(Append(s, e)) PROVE Append(s, e)[i] = t[i]
  <2>1. i \in 1..(b + 1 - a) /\ (i \in 1..(b - a) \/ i = b + 1 - a)
    BY <1>1, <1>5
  <2>2. t[i] = <<pkt, a + i>>
    BY <1>3, <2>1
  <2>3. CASE i \in 1..(b - a)
    BY <1>1, <1>5, <2>2, <2>3
  <2>4. CASE i = b + 1 - a
    <3>1. a + i = b + 1 /\ i = Len(s) + 1
      BY <1>1, <2>4
    <3> QED
      BY <1>5, <2>2, <3>1
  <2> QED
    BY <2>1, <2>3, <2>4
<1>7. Len(Append(s, e)) = Len(t)
  BY <1>1, <1>3, <1>5
<1>8. Append(s, e) = t
  BY <1>3, <1>5, <1>6, <1>7, SeqEqual
<1> QED
  BY <1>8 DEF s, t

LEMMA CellsEmpty == ASSUME NEW a \in Nat PROVE Cells(a, a) = <<>>
BY DEF Cells

-----------------------------------------------------------------------------
LEMMA Initially == DInit => DInv
<1> SUFFICES ASSUME DInit PROVE DInv
  OBVIOUS
<1>1. DTypeOK
  BY DEF DInit, DTypeOK, LENLEN
<1>2. Aligned /\ Bounded /\ Pieces
  BY DEF DInit, Aligned, Bounded, Pieces, LENLEN
<1>3. Collected
  BY CellsEmpty DEF DInit, Collected, LENLEN
<1> QED
  BY <1>1, <1>2, <1>3 DEF DInv

LEMMA KeepsNextPacket ==
    ASSUME DInv, NEW k \in Lens, NextPacket(k) PROVE DInv'
<1>1. k \in Nat /\ pkt \in Nat /\ plen \in Nat
  BY DispatchAssumption DEF DInv, DTypeOK
<1>2. dpch_state = "LEN" /\ dpch_cnt = 0
  BY <1>1 DEF DInv, DTypeOK, Aligned, NextPacket, LENLEN
<1>3. chnldat = <<>>
  BY <1>2, CellsEmpty DEF DInv, Collected
<1>4. DTypeOK'
  BY <1>1 DEF DInv, DTypeOK, NextPacket, LENLEN
<1>5. Aligned' /\ Bounded' /\ Pieces'
  BY <1>1, <1>2, <1>3 DEF NextPacket, Aligned, Bounded, Pieces, LENLEN
<1>6. Collected'
  BY <1>2, <1>3 DEF NextPacket, Collected, Cells
<1> QED
  BY <1>4, <1>5, <1>6 DEF DInv

LEMMA KeepsReset ==
    ASSUME DInv, NEW p \in pkt..MaxPkt, StreamRestarts(p), Reset PROVE DInv'
<1>1. p \in Nat
  BY DispatchAssumption DEF DInv, DTypeOK
<1>2. DTypeOK'
  BY <1>1 DEF DTypeOK, StreamRestarts, Reset, LENLEN
<1>3. Aligned' /\ Bounded' /\ Pieces'
  BY DispatchAssumption DEF StreamRestarts, Reset, Aligned, Bounded, Pieces, LENLEN
<1>4. Collected'
  BY DEF StreamRestarts, Reset, Collected, Cells, LENLEN
<1> QED
  BY <1>2, <1>3, <1>4 DEF DInv

(* While a length field is being read, the position in the packet is the    *)
(* dispatcher's count and nothing has been handed over.                     *)
LEMMA InLength ==
    ASSUME DInv, Receive, dpch_state = "LEN"
    PROVE  /\ pos = dpch_cnt /\ pos \in 0..3 /\ calls = <<>>
           /\ got = Cells(0, pos + 1)
<1>1. pos = dpch_cnt /\ pos \in 0..3
  BY DEF DInv, DTypeOK, Aligned, Receive, LENLEN
<1>2. pkt \in Nat /\ calls = <<>> /\ chnldat = Cells(0, pos)
  BY <1>1 DEF DInv, DTypeOK, Collected, LENLEN
<1>3. Append(Cells(0, pos), <<pkt, pos + 1>>) = Cells(0, pos + 1)
  <2>1. pos \in Nat /\ 0 <= pos
    BY <1>1
  <2> QED
    BY <1>2, <2>1, CellsAppend
<1> QED
  BY <1>1, <1>2, <1>3 DEF got

LEMMA KeepsLengthByte == ASSUME DInv, LengthByte PROVE DInv'
<1> USE DEF LENLEN
<1>1. Receive /\ dpch_state = "LEN"
  BY DEF LengthByte
<1>2. pos = dpch_cnt /\ pos \in 0..3 /\ calls = <<>> /\ got = Cells(0, pos + 1)
  BY <1>1, InLength
<1>3. pos' = pos + 1 /\ dpch_cnt' = pos + 1 /\ pos + 1 < 4 /\ chnldat' = Cells(0, pos + 1)
      /\ UNCHANGED <<pkt, plen, dpch_state, dpch_len, calls>>
  BY <1>2 DEF LengthByte, Receive, count
<1>4. chnldat' \in Seq(Nat \X Nat) /\ Len(chnldat') = pos + 1
  <2>1. Cells(0, pos + 1) \in Seq(Nat \X Nat) /\ Len(Cells(0, pos + 1)) = pos + 1 - 0
    <3>1. pos + 1 \in Nat /\ 0 <= pos + 1 /\ pkt \in Nat
      BY <1>2 DEF DInv, DTypeOK
    <3> QED
      BY <3>1, CellsType
  <2> QED
    BY <1>2, <1>3, <2>1
<1>5. DTypeOK'
  BY <1>1, <1>2, <1>3, <1>4 DEF DInv, DTypeOK
<1>6. Aligned' /\ Bounded' /\ Pieces'
  BY <1>1, <1>2, <1>3, <1>4 DEF DInv, DTypeOK, Aligned, Bounded, Pieces
<1>7. Collected'
  BY <1>1, <1>2, <1>3 DEF Collected, Cells
<1> QED
  BY <1>5, <1>6, <1>7 DEF DInv

LEMMA KeepsLengthDone == ASSUME DInv, LengthDone PROVE DInv'
<1> USE DEF LENLEN
<1>1. Receive /\ dpch_state = "LEN"
  BY DEF LengthDone
<1>2. pos = dpch_cnt /\ pos \in 0..3 /\ calls = <<>> /\ got = Cells(0, pos + 1)
  BY <1>1, InLength
<1>3. pos = 3 /\ got = Cells(0, LENLEN)
  BY <1>2 DEF LengthDone, count
<1>4. /\ pos' = 4 /\ dpch_len' = plen /\ chnldat' = <<>> /\ dpch_cnt' = 0
      /\ dpch_state' = (IF plen # 0 THEN "REG" ELSE "LEN")
      /\ UNCHANGED <<pkt, plen, calls>>
  BY <1>3 DEF LengthDone, Receive, Decode, CountAfterLength
<1>5. DTypeOK'
  BY <1>4 DEF DInv, DTypeOK
<1>6. Aligned' /\ Bounded' /\ Pieces'
  BY <1>2, <1>4, DispatchAssumption DEF DInv, DTypeOK, Aligned, Bounded, Pieces
<1>7. Collected'
  BY <1>2, <1>4, DispatchAssumption DEF Collected, Cells, Handled
<1> QED
  BY <1>5, <1>6, <1>7 DEF DInv

-----------------------------------------------------------------------------
(* Inside a packet: with the byte being received, what is collected starts  *)
(* where the last piece ended, is at most CHUNK bytes, and is a full chunk  *)
(* exactly when the remainder is zero.                                      *)
LEMMA InPacket ==
    ASSUME DInv, Receive, dpch_state = "REG"
    PROVE  /\ Len(calls) \in Nat /\ Handled \in Nat
           /\ got \in Seq(Nat \X Nat) /\ Len(got) \in 1..CHUNK
           /\ count = Handled + Len(got) /\ count <= plen /\ dpch_len = plen
           /\ pos' = LENLEN + count /\ pos = LENLEN + dpch_cnt
           /\ got = Cells(LENLEN + Handled, LENLEN + count)
           /\ count % CHUNK = 0 <=> Len(got) = CHUNK
<1> USE DEF LENLEN
<1>1. /\ CHUNK \in Nat \ {0} /\ Len(calls) \in Nat /\ Handled \in Nat
      /\ chnldat \in Seq(Nat \X Nat) /\ pkt \in Nat /\ plen \in Nat /\ dpch_cnt \in Nat
  BY DispatchAssumption, NextMultiple DEF DInv, DTypeOK, Handled
<1>2. /\ dpch_cnt = Handled + Len(chnldat) /\ Len(chnldat) \in 0..(CHUNK - 1)
      /\ pos = LENLEN + dpch_cnt /\ dpch_cnt < plen /\ dpch_len = plen
      /\ chnldat = Cells(LENLEN + Handled, pos)
  BY <1>1 DEF DInv, Collected, Bounded, Aligned
<1>3. got = Cells(LENLEN + Handled, pos + 1) /\ got \in Seq(Nat \X Nat)
      /\ Len(got) = Len(chnldat) + 1
  <2>1. LENLEN + Handled \in Nat /\ pos \in Nat /\ LENLEN + Handled <= pos
    BY <1>1, <1>2
  <2>2. Append(Cells(LENLEN + Handled, pos), <<pkt, pos + 1>>) = Cells(LENLEN + Handled, pos + 1)
    BY <1>1, <2>1, CellsAppend
  <2>3. <<pkt, pos + 1>> \in Nat \X Nat
    BY <1>1, <2>1
  <2>4. got = Append(Cells(LENLEN + Handled, pos), <<pkt, pos + 1>>)
    BY ONLY <1>2 DEF got
  <2>5. got = Append(chnldat, <<pkt, pos + 1>>)
    BY DEF got
  <2>6. got \in Seq(Nat \X Nat) /\ Len(got) = Len(chnldat) + 1
    BY ONLY <1>1, <2>3, <2>5, AppendProperties
  <2> QED
    BY ONLY <2>2, <2>4, <2>6
<1>4. count = Handled + Len(got) /\ Len(got) \in 1..CHUNK
  <2>1. dpch_cnt + 1 = Handled + Len(got) /\ Len(got) \in 1..CHUNK
    <3>1. CHUNK \in Nat \ {0} /\ Handled \in Nat /\ Len(chnldat) \in 0..(CHUNK - 1)
      BY <1>1, <1>2
    <3>2. dpch_cnt = Handled + Len(chnldat) /\ Len(got) = Len(chnldat) + 1
      BY <1>2, <1>3
    <3> QED
      BY ONLY <3>1, <3>2
  <2> QED
    BY <2>1 DEF count
<1>6. pos' = LENLEN + count /\ pos + 1 = LENLEN + count /\ count <= plen
  BY <1>1, <1>2 DEF count, Receive
<1>5. count % CHUNK = 0 <=> Len(got) = CHUNK
  <2>1. CASE Len(got) = CHUNK
    <3>1. count = (Len(calls) + 1) * CHUNK + 0
      BY <1>1, <1>4, <2>1, NextMultiple DEF Handled
    <3>2. Len(calls) + 1 \in Nat /\ 0 \in 0..(CHUNK - 1)
      BY <1>1
    <3>3. ((Len(calls) + 1) * CHUNK + 0) % CHUNK = 0
      BY <1>1, <3>2, ModUnique
    <3> QED
      BY <2>1, <3>1, <3>3
  <2>2. CASE Len(got) # CHUNK
    <3>1. Len(got) \in 0..(CHUNK - 1) /\ Len(got) # 0 /\ Len(got) \in 1..CHUNK
      BY <1>1, <1>4, <2>2
    <3>2. (Len(calls) * CHUNK + Len(got)) % CHUNK = Len(got)
      BY <1>1, <3>1, ModUnique
    <3> QED
      BY <1>4, <2>2, <3>1, <3>2 DEF Handled
  <2> QED
    BY <2>1, <2>2
<1> QED
  BY <1>1, <1>2, <1>3, <1>4, <1>6, <1>5

(* Which bytes a piece is depends on the packet alone. *)
LEMMA SamePieces ==
    ASSUME pkt' = pkt, plen' = plen
    PROVE  \A k : Cells(PieceStart(k), PieceEnd(k))' = Cells(PieceStart(k), PieceEnd(k))
BY DEF Cells, PieceStart, PieceEnd

LEMMA KeepsCollect == ASSUME DInv, Collect PROVE DInv'
<1> USE DEF LENLEN
<1>1. Receive /\ dpch_state = "REG"
  BY DEF Collect
<1>2. /\ Len(calls) \in Nat /\ Handled \in Nat
      /\ got \in Seq(Nat \X Nat) /\ Len(got) \in 1..CHUNK
      /\ count = Handled + Len(got) /\ count <= plen /\ dpch_len = plen
      /\ pos' = LENLEN + count /\ pos = LENLEN + dpch_cnt
      /\ got = Cells(LENLEN + Handled, LENLEN + count)
      /\ count % CHUNK = 0 <=> Len(got) = CHUNK
  BY <1>1, InPacket
<1>3. CHUNK \in Nat \ {0} /\ plen \in Nat /\ count \in Nat
  BY <1>2, DispatchAssumption DEF DInv, DTypeOK
<1>4. count < plen /\ Len(got) < CHUNK
  <2>1. /\ ~(count % CHUNK = 0 /\ count < dpch_len)
        /\ ~(count >= dpch_len)
    BY DEF Collect, ChunkFull, PacketEnd
  <2>2. dpch_len = plen /\ (count % CHUNK = 0 <=> Len(got) = CHUNK) /\ Len(got) \in 1..CHUNK
    BY <1>2
  <2>3. ~(count >= plen) /\ ~(Len(got) = CHUNK /\ count < plen)
    BY ONLY <2>1, <2>2
  <2> QED
    BY ONLY <1>3, <2>2, <2>3
<1>5. chnldat' = got /\ dpch_cnt' = count
      /\ UNCHANGED <<pkt, plen, dpch_state, dpch_len, calls>>
  BY DEF Collect, Receive
<1>6. DTypeOK'
  <2>1. pkt' \in Nat /\ plen' \in Nat /\ dpch_state' = "REG" /\ dpch_len' \in Nat
    BY <1>1, <1>3, <1>5 DEF DInv, DTypeOK
  <2>2. pos' \in 0..(LENLEN + plen')
    <3>1. PICK x, y, z : x = count /\ y = plen /\ z = pos'
      OBVIOUS
    <3>2. x \in Nat /\ y \in Nat /\ x <= y /\ z = 4 + x /\ plen' = y
      BY <1>2, <1>3, <1>5, <3>1
    <3>3. z \in 0..(4 + y)
      BY <3>2
    <3> QED
      BY <3>1, <3>2, <3>3
  <2>3. dpch_cnt' \in Nat /\ chnldat' \in Seq(Nat \X Nat)
    BY <1>2, <1>3, <1>5
  <2>4. calls' \in Seq([kind : {"spkt", "continue"}, data : Seq(Nat \X Nat)])
    BY <1>5 DEF DInv, DTypeOK
  <2> QED
    BY <2>1, <2>2, <2>3, <2>4 DEF DTypeOK
<1>7. Aligned' /\ Bounded'
  BY <1>1, <1>2, <1>3, <1>4, <1>5 DEF Aligned, Bounded
<1>8. Pieces'
  <2>1. \A k : Cells(PieceStart(k), PieceEnd(k))' = Cells(PieceStart(k), PieceEnd(k))
    BY <1>5, SamePieces
  <2>2. \A k \in 1..Len(calls) :
           /\ calls[k].data = Cells(PieceStart(k), PieceEnd(k))
           /\ calls[k].kind = IF k = 1 THEN "spkt" ELSE "continue"
    BY DEF DInv, Pieces
  <2>3. pos' # LENLEN + plen'
    BY <1>2, <1>3, <1>4, <1>5
  <2> QED
    BY <1>5, <2>1, <2>2, <2>3 DEF Pieces
<1>9. Collected'
  BY <1>1, <1>2, <1>5 DEF Collected, Handled, Cells
<1> QED
  BY <1>6, <1>7, <1>8, <1>9 DEF DInv

(* A call with what has been collected is the next piece, if it is a full   *)
(* chunk or reaches the end of the packet.                                  *)
LEMMA PieceHanded ==
    ASSUME DInv, Receive, dpch_state = "REG", NEW kind,
           Len(got) = CHUNK \/ count = plen,
           kind = IF calls = <<>> THEN "spkt" ELSE "continue",
           calls' = Append(calls, [kind |-> kind, data |-> got]),
           pkt' = pkt, plen' = plen
    PROVE  /\ calls' \in Seq([kind : {"spkt", "continue"}, data : Seq(Nat \X Nat)])
           /\ Len(calls') = Len(calls) + 1
           /\ \A k \in 1..Len(calls') :
                 /\ calls'[k].data = Cells(PieceStart(k), PieceEnd(k))'
                 /\ calls'[k].kind = IF k = 1 THEN "spkt" ELSE "continue"
<1> USE DEF LENLEN
<1>1. /\ Len(calls) \in Nat /\ Handled \in Nat
      /\ got \in Seq(Nat \X Nat) /\ Len(got) \in 1..CHUNK
      /\ count = Handled + Len(got) /\ count <= plen
      /\ got = Cells(LENLEN + Handled, LENLEN + count)
  BY InPacket
<1>2. /\ calls \in Seq([kind : {"spkt", "continue"}, data : Seq(Nat \X Nat)])
      /\ plen \in Nat /\ CHUNK \in Nat \ {0}
  BY DispatchAssumption DEF DInv, DTypeOK
<1>3. /\ calls' \in Seq([kind : {"spkt", "continue"}, data : Seq(Nat \X Nat)])
      /\ Len(calls') = Len(calls) + 1
  BY <1>1, <1>2
<1> DEFINE n == Len(calls) + 1
<1>4. n * CHUNK = Handled + CHUNK /\ (n - 1) * CHUNK = Handled
  BY <1>1, <1>2, NextMultiple DEF Handled
<1>5. PieceStart(n) = LENLEN + Handled
  BY <1>4 DEF PieceStart
<1>6. PieceEnd(n) = LENLEN + count
  <2>1. PieceEnd(n) = IF LENLEN + (Handled + CHUNK) < LENLEN + plen
                      THEN LENLEN + (Handled + CHUNK) ELSE LENLEN + plen
    BY <1>4 DEF PieceEnd
  <2>2. Len(got) = CHUNK \/ Handled + Len(got) = plen
    BY <1>1
  <2>3. Handled + Len(got) <= plen /\ CHUNK \in Nat
    BY <1>1, <1>2
  <2>4. PieceEnd(n) = LENLEN + (Handled + Len(got))
    <3>1. /\ Handled \in Nat /\ CHUNK \in Nat /\ Len(got) \in 1..CHUNK /\ plen \in Nat
          /\ Handled + Len(got) <= plen /\ (Len(got) = CHUNK \/ Handled + Len(got) = plen)
      BY <1>1, <1>2, <2>2
    <3>2. (IF 4 + (Handled + CHUNK) < 4 + plen THEN 4 + (Handled + CHUNK) ELSE 4 + plen)
            = 4 + (Handled + Len(got))
      BY ONLY <3>1, LastByte
    <3> QED
      BY ONLY <2>1, <3>2 DEF LENLEN
  <2> QED
    BY <1>1, <2>4
<1>7. \A k \in 1..Len(calls) :
         /\ calls[k].data = Cells(PieceStart(k), PieceEnd(k))
         /\ calls[k].kind = IF k = 1 THEN "spkt" ELSE "continue"
  BY DEF DInv, Pieces
<1>8. \A k : Cells(PieceStart(k), PieceEnd(k))' = Cells(PieceStart(k), PieceEnd(k))
  BY SamePieces
<1>9. calls'[n] = [kind |-> kind, data |-> got] /\ \A k \in 1..Len(calls) : calls'[k] = calls[k]
  BY <1>1, <1>2
<1>10. calls'[n].data = Cells(PieceStart(n), PieceEnd(n))
  BY <1>1, <1>5, <1>6, <1>9
<1>11. calls'[n].kind = IF n = 1 THEN "spkt" ELSE "continue"
  BY <1>1, <1>2, <1>9
<1>12. \A k \in 1..(Len(calls) + 1) : k \in 1..Len(calls) \/ k = n
  BY <1>1, LastIndex
<1> HIDE DEF n
<1> QED
  BY <1>3, <1>7, <1>8, <1>9, <1>10, <1>11, <1>12

LEMMA KeepsHandChunk == ASSUME DInv, NEW kind, HandChunk(kind) PROVE DInv'
<1> USE DEF LENLEN
<1>1. Receive /\ dpch_state = "REG"
  BY DEF HandChunk
<1>2. /\ Len(calls) \in Nat /\ Handled \in Nat
      /\ got \in Seq(Nat \X Nat) /\ Len(got) \in 1..CHUNK
      /\ count = Handled + Len(got) /\ count <= plen /\ dpch_len = plen
      /\ pos' = LENLEN + count /\ pos = LENLEN + dpch_cnt
      /\ got = Cells(LENLEN + Handled, LENLEN + count)
      /\ count % CHUNK = 0 <=> Len(got) = CHUNK
  BY <1>1, InPacket
<1>3. CHUNK \in Nat \ {0} /\ plen \in Nat /\ calls \in Seq([kind : {"spkt", "continue"}, data : Seq(Nat \X Nat)])
  BY DispatchAssumption DEF DInv, DTypeOK
<1>4. Len(got) = CHUNK /\ count < plen
  BY <1>2 DEF HandChunk, ChunkFull
<1>5. kind = IF calls = <<>> THEN "spkt" ELSE "continue"
  <2>1. count = CHUNK <=> Len(calls) = 0
    <3>1. PICK z, h, x : z = Len(calls) /\ h = Handled /\ x = count
      OBVIOUS
    <3>2. z \in Nat /\ h = z * CHUNK /\ x = h + CHUNK /\ CHUNK \in Nat \ {0}
      BY <1>2, <1>3, <1>4, <3>1 DEF Handled
    <3>3. h \in Nat /\ (z = 0 => h = 0) /\ (z # 0 => h >= CHUNK)
      BY <3>2, NextMultiple
    <3>4. x = CHUNK <=> z = 0
      BY <3>2, <3>3
    <3> QED
      BY <3>1, <3>4
  <2> QED
    BY <1>3, <2>1 DEF HandChunk
<1>6. /\ calls' = Append(calls, [kind |-> kind, data |-> got])
      /\ chnldat' = <<>> /\ dpch_cnt' = count
      /\ UNCHANGED <<pkt, plen, dpch_state, dpch_len>>
  BY DEF HandChunk, Hand, Receive
<1>7. /\ calls' \in Seq([kind : {"spkt", "continue"}, data : Seq(Nat \X Nat)])
      /\ Len(calls') = Len(calls) + 1
      /\ \A k \in 1..Len(calls') :
            /\ calls'[k].data = Cells(PieceStart(k), PieceEnd(k))'
            /\ calls'[k].kind = IF k = 1 THEN "spkt" ELSE "continue"
  BY <1>1, <1>4, <1>5, <1>6, PieceHanded
<1>8. Handled' = count
  BY <1>2, <1>3, <1>4, <1>7, NextMultiple DEF Handled
<1>13. count \in Nat /\ plen \in Nat
  BY <1>2, <1>3
<1>14. pkt \in Nat /\ dpch_len \in Nat
  BY DEF DInv, DTypeOK
<1>9. DTypeOK'
  <2>1. pos' \in 0..(LENLEN + plen')
    <3>1. PICK x, y, z : x = count /\ y = plen /\ z = pos'
      OBVIOUS
    <3>2. x \in Nat /\ y \in Nat /\ x <= y /\ z = 4 + x /\ plen' = y
      BY <1>2, <1>6, <1>13, <3>1
    <3>3. z \in 0..(4 + y)
      BY <3>2
    <3> QED
      BY <3>1, <3>2, <3>3
  <2>2. dpch_state' = "REG" /\ chnldat' \in Seq(Nat \X Nat)
    BY <1>1, <1>6
  <2>3. pkt' \in Nat /\ plen' \in Nat /\ dpch_len' \in Nat /\ dpch_cnt' \in Nat
    BY <1>6, <1>13, <1>14
  <2> QED
    BY <1>7, <2>1, <2>2, <2>3 DEF DTypeOK
<1>10. Aligned' /\ Bounded'
  <2>1. Len(chnldat') = 0 /\ 0 < CHUNK
    BY <1>3, <1>6
  <2>2. dpch_state' = "REG" /\ dpch_len' = plen' /\ pos' = LENLEN + dpch_cnt' /\ dpch_cnt' < plen'
    BY <1>1, <1>2, <1>4, <1>6
  <2> QED
    BY <2>1, <2>2 DEF Aligned, Bounded
<1>11. Pieces'
  <2>1. pos' # LENLEN + plen'
    BY <1>2, <1>4, <1>6, <1>13
  <2> QED
    BY <1>7, <2>1 DEF Pieces
<1>12. Collected'
  BY <1>1, <1>2, <1>6, <1>8, SMTT(40) DEF Collected, Cells
<1> QED
  BY <1>9, <1>10, <1>11, <1>12 DEF DInv

LEMMA KeepsHandLast == ASSUME DInv, NEW kind, HandLast(kind) PROVE DInv'
<1> USE DEF LENLEN
<1>1. Receive /\ dpch_state = "REG"
  BY DEF HandLast
<1>2. /\ Len(calls) \in Nat /\ Handled \in Nat
      /\ got \in Seq(Nat \X Nat) /\ Len(got) \in 1..CHUNK
      /\ count = Handled + Len(got) /\ count <= plen /\ dpch_len = plen
      /\ pos' = LENLEN + count /\ pos = LENLEN + dpch_cnt
      /\ got = Cells(LENLEN + Handled, LENLEN + count)
      /\ count % CHUNK = 0 <=> Len(got) = CHUNK
  BY <1>1, InPacket
<1>3. CHUNK \in Nat \ {0} /\ plen \in Nat /\ calls \in Seq([kind : {"spkt", "continue"}, data : Seq(Nat \X Nat)])
  BY DispatchAssumption DEF DInv, DTypeOK
<1>4. count = plen
  BY <1>2, <1>3 DEF HandLast, PacketEnd
<1>5. kind = IF calls = <<>> THEN "spkt" ELSE "continue"
  <2>1. (Len(calls) = 0 => Handled = 0) /\ (Len(calls) # 0 => Handled >= CHUNK)
    BY <1>2, <1>3, NextMultiple DEF Handled
  <2>2. Handled + Len(got) > CHUNK <=> Handled # 0
    <3>1. CHUNK \in Nat /\ Handled \in Nat /\ Len(got) \in 1..CHUNK /\ (Handled = 0 \/ Handled >= CHUNK)
      BY <1>2, <1>3, <2>1
    <3> QED
      BY ONLY <3>1, FirstPiece
  <2>3. count > CHUNK <=> Len(calls) # 0
    <3>1. count = Handled + Len(got) /\ CHUNK \in Nat \ {0}
      BY <1>2, <1>3
    <3> QED
      BY ONLY <2>1, <2>2, <3>1
  <2> QED
    BY <1>3, <2>3 DEF HandLast, LastKind
<1>6. /\ calls' = Append(calls, [kind |-> kind, data |-> got])
      /\ chnldat' = <<>> /\ dpch_cnt' = 0 /\ dpch_len' = LENLEN /\ dpch_state' = "LEN"
      /\ UNCHANGED <<pkt, plen>>
  BY DEF HandLast, Hand, Receive
<1>7. /\ calls' \in Seq([kind : {"spkt", "continue"}, data : Seq(Nat \X Nat)])
      /\ Len(calls') = Len(calls) + 1
      /\ \A k \in 1..Len(calls') :
            /\ calls'[k].data = Cells(PieceStart(k), PieceEnd(k))'
            /\ calls'[k].kind = IF k = 1 THEN "spkt" ELSE "continue"
  BY <1>1, <1>4, <1>5, <1>6, PieceHanded
<1>8. plen <= Len(calls') * CHUNK
  BY <1>2, <1>3, <1>4, <1>7, NextMultiple DEF Handled
<1>9. DTypeOK'
  <2>1. pkt' \in Nat /\ plen' \in Nat
    <3>1. pkt \in Nat
      BY DEF DInv, DTypeOK
    <3> QED
      BY ONLY <1>3, <1>6, <3>1
  <2>2. pos' \in 0..(LENLEN + plen')
    <3>1. pos' = LENLEN + plen /\ plen' = plen /\ plen \in Nat
      BY <1>2, <1>3, <1>4, <1>6
    <3> QED
      BY ONLY <3>1 DEF LENLEN
  <2>3. dpch_state' = "LEN" /\ dpch_len' \in Nat /\ dpch_cnt' = 0
    BY <1>6
  <2>4. chnldat' \in Seq(Nat \X Nat)
    BY <1>6
  <2> QED
    BY <1>7, <2>1, <2>2, <2>3, <2>4 DEF DTypeOK
<1>10. Aligned' /\ Bounded'
  <2>1. Len(chnldat') = 0
    BY <1>6
  <2>2. dpch_state' = "LEN" /\ dpch_cnt' = 0 /\ pos' = LENLEN + plen'
    BY <1>2, <1>4, <1>6
  <2> QED
    BY <2>1, <2>2 DEF Aligned, Bounded
<1>11. Pieces'
  BY <1>6, <1>7, <1>8 DEF Pieces
<1>12. Collected'
  BY <1>2, <1>3, <1>4, <1>6 DEF Collected, Cells
<1> QED
  BY <1>9, <1>10, <1>11, <1>12 DEF DInv

LEMMA KeepsStutter == ASSUME DInv, UNCHANGED dvars PROVE DInv'
BY DEF DInv, DTypeOK, Aligned, Bounded, Pieces, Collected, Handled, Cells,
       PieceStart, PieceEnd, dvars, stream, dispatch

LEMMA Inductive == ASSUME DInv, [DNext]_dvars PROVE DInv'
<1>1. CASE \E k \in Lens : pkt < MaxPkt /\ NextPacket(k)
  BY <1>1, KeepsNextPacket
<1>2. CASE \E p \in pkt..MaxPkt : StreamRestarts(p) /\ Reset
  BY <1>2, KeepsReset
<1>3. CASE LengthByte
  BY <1>3, KeepsLengthByte
<1>4. CASE LengthDone
  BY <1>4, KeepsLengthDone
<1>5. CASE Collect
  BY <1>5, KeepsCollect
<1>6. ASSUME NEW kind, Handed(kind) PROVE DInv'
  BY <1>6, KeepsHandChunk, KeepsHandLast DEF Handed
<1>7. CASE UNCHANGED dvars
  BY <1>7, KeepsStutter
<1> QED
  BY <1>1, <1>2, <1>3, <1>4, <1>5, <1>6, <1>7 DEF DNext

LEMMA Invariance == DSpec => []DInv
<1>1. DInit => DInv
  BY Initially
<1>2. DInv /\ [DNext]_dvars => DInv'
  BY Inductive
<1> QED
  BY <1>1, <1>2, PTL DEF DSpec

-----------------------------------------------------------------------------
(* The dispatcher never loses the packet boundaries of its stream           *)
(* (sftp_parse.c:132-182).                                                  *)
THEOREM StaysAligned == DSpec => []Aligned
<1>1. DInv => Aligned
  BY DEF DInv
<1> QED
  BY <1>1, Invariance, PTL

(* What is collected never exceeds a chunk (sftp_parse.c:157-161).          *)
THEOREM StaysBounded == DSpec => []Bounded
<1>1. DInv => Bounded
  BY DEF DInv
<1> QED
  BY <1>1, Invariance, PTL

(* Every packet is handed over byte for byte, first piece and continuations *)
(* each to its function (sftp_parse.c:161-179).                             *)
THEOREM HandsOverExactly == DSpec => []Pieces
<1>1. DInv => Pieces
  BY DEF DInv
<1> QED
  BY <1>1, Invariance, PTL

-----------------------------------------------------------------------------
(* The client's side of the stream: what is sent is a sequence of packets   *)
(* of the lengths DSpec allows, and no packet is received before it is sent. *)
Sent ==
    /\ \E S : requests \in Seq(S)
    /\ Len(requests) \in 0..MaxPkt /\ pkt \in 0..Len(requests)
    /\ \A k \in 1..Len(requests) : requests[k].len \in Lens

LEMMA LensHave ==
    /\ HDR \in Lens /\ MINPKT \in Lens /\ 0 \in Lens /\ MINPKT - 1 \in Lens
    /\ CHUNK + 1 \in Lens /\ \A d \in Dlens : HDR + d \in Lens
BY ServerAssumption

(* One step per kind of request.                                            *)
LEMMA RequestsLen == ASSUME NEW r \in Requests PROVE r.len \in Lens
<1>1. CASE r \in Opens
    BY <1>1, LensHave DEF Request, Opens
<1>2. CASE r \in Reads
    BY <1>2, LensHave DEF Request, Reads
<1>3. CASE r \in Writes
  <2>1. PICK h \in Writable, o \in Offs, d \in Dlens :
            r = Request("write", HDR + d, h, AnyName, FALSE, o, d)
      BY <1>3 DEF Request, Writes
  <2>2. r.len = HDR + d
      BY <2>1 DEF Request
  <2> QED BY <2>2, LensHave
<1>4. CASE r \in Removes
    BY <1>4, LensHave DEF Request, Removes, OnName
<1>5. CASE r \in PlainOnes
    BY <1>5, LensHave DEF Request, PlainOnes, Plain
<1>6. CASE r \in OnHandle("close") \/ r \in OnHandle("readdir")
    BY <1>6, LensHave DEF Request, OnHandle
<1>7. CASE r \in OnName("opendir") \/ r \in OnName("stat")
    BY <1>7, LensHave DEF Request, OnName
<1> QED BY <1>1, <1>2, <1>3, <1>4, <1>5, <1>6, <1>7 DEF Request, Requests

-----------------------------------------------------------------------------
LEMMA SentInit == Init => Sent
BY DispatchAssumption DEF Init, DInit, Sent

LEMMA SendStep == ASSUME Sent, ClientSends PROVE Sent'
<1>1. PICK r \in Requests : requests' = Append(requests, r)
    BY DEF ClientSends
<1>2. r.len \in Lens
    BY RequestsLen
<1>3. PICK S : requests \in Seq(S)
    BY DEF Sent
<1>4. requests \in Seq(S \cup {r}) /\ Len(requests) \in Nat
    BY <1>3, SeqMonotonic, LenProperties
<1>5. /\ requests' \in Seq(S \cup {r}) /\ Len(requests') = Len(requests) + 1
      /\ \A k \in 1..Len(requests) : requests'[k] = requests[k]
      /\ requests'[Len(requests) + 1] = r
    BY <1>1, <1>4, AppendProperties
<1>6. \A k \in 1..Len(requests') : requests'[k].len \in Lens
    BY <1>2, <1>4, <1>5 DEF Sent
<1>7. Len(requests') \in 0..MaxPkt /\ pkt' = pkt /\ pkt \in 0..Len(requests')
    BY <1>4, <1>5, DispatchAssumption DEF Sent, ClientSends, dvars, stream
<1> QED BY <1>5, <1>6, <1>7 DEF Sent

(* What leaves the client's requests and the number of the packet alone.    *)
LEMMA SameSent == ASSUME Sent, requests' = requests, pkt' = pkt PROVE Sent'
BY DEF Sent

LEMMA SentStep == ASSUME Sent, Next PROVE Sent'
<1>1. CASE ClientSends
    BY <1>1, SendStep
<1>2. CASE StreamNext
  <2>1. requests' = requests /\ pkt' = pkt + 1 /\ pkt < Len(requests)
      BY <1>2 DEF StreamNext, NextPacket, client
  <2> QED BY <2>1, DispatchAssumption DEF Sent
<1>3. CASE LengthBytes
  <2>1. requests' = requests /\ pkt' = pkt
      BY <1>3 DEF LengthBytes, LengthByte, LengthDone, Receive, client
  <2> QED BY <2>1, SameSent
<1>4. CASE CollectByte
  <2>1. requests' = requests /\ pkt' = pkt
      BY <1>4 DEF CollectByte, Collect, Receive, client
  <2> QED BY <2>1, SameSent
<1>5. CASE CallByte
  <2>1. requests' = requests /\ (Handed("spkt") \/ Handed("continue"))
      BY <1>5 DEF CallByte, SpktByte, ContinueByte
  <2>2. pkt' = pkt
      BY <2>1 DEF Handed, HandChunk, HandLast, Receive
  <2> QED BY <2>1, <2>2, SameSent
<1>6. CASE CloseMessage
  <2>1. requests' = requests /\ pkt' = pkt
      BY <1>6 DEF CloseMessage, dvars, stream, client
  <2> QED BY <2>1, SameSent
<1>7. CASE EndSession
  <2>1. requests' = requests /\ pkt' = Len(requests)
      BY <1>7 DEF EndSession, StreamRestarts
  <2> QED BY <2>1, DispatchAssumption DEF Sent
<1> QED BY <1>1, <1>2, <1>3, <1>4, <1>5, <1>6, <1>7 DEF Next

LEMMA SentAlways == Spec => []Sent
<1>1. Sent /\ UNCHANGED vars => Sent'
    BY SameSent DEF vars, dvars, stream, client
<1> QED BY <1>1, SentInit, SentStep, PTL DEF Spec

-----------------------------------------------------------------------------
(* Each step of the server is one of the dispatcher, or leaves it alone.    *)
LEMMA DispatchStep == ASSUME Sent, Next PROVE DNext \/ UNCHANGED dvars
<1>1. CASE ClientSends
    BY <1>1 DEF ClientSends
<1>2. CASE StreamNext
  <2>1. pkt + 1 \in 1..Len(requests) /\ pkt < MaxPkt /\ NextPacket(requests[pkt + 1].len)
      BY <1>2, DispatchAssumption DEF StreamNext, Sent
  <2>2. requests[pkt + 1].len \in Lens
      BY <2>1 DEF Sent
  <2> QED BY <2>1, <2>2 DEF DNext
<1>3. CASE LengthBytes
    BY <1>3 DEF LengthBytes, DNext
<1>4. CASE CollectByte
    BY <1>4 DEF CollectByte, DNext
<1>5. CASE CallByte
    BY <1>5 DEF CallByte, SpktByte, ContinueByte, DNext
<1>6. CASE CloseMessage
    BY <1>6 DEF CloseMessage
<1>7. CASE EndSession
  <2>1. StreamRestarts(Len(requests)) /\ Reset
      BY <1>7 DEF EndSession, NewSession
  <2>2. Len(requests) \in pkt..MaxPkt
      BY DispatchAssumption DEF Sent
  <2> QED BY <2>1, <2>2 DEF DNext
<1> QED BY <1>1, <1>2, <1>3, <1>4, <1>5, <1>6, <1>7 DEF Next

(* Every behaviour of the server is one of SftpDispatch, so what is proved  *)
(* of the cutting holds with the commands, FatFS errors and new sessions in *)
(* place (sftp_parse.c:126-187).                                            *)
THEOREM Implements == Spec => DSpec
<1>1. Init => DInit
    BY DEF Init
<1>2. Sent /\ [Next]_vars => [DNext]_dvars
  <2>1. UNCHANGED vars => UNCHANGED dvars
      BY DEF vars
  <2> QED BY <2>1, DispatchStep
<1> QED BY <1>1, <1>2, SentAlways, PTL DEF Spec, DSpec

(* The server's commands are given exactly the bytes of their packets.      *)
THEOREM ServerPieces == Spec => []Pieces
BY Implements, HandsOverExactly, PTL

-----------------------------------------------------------------------------
(* The requests.  A packet that is not handed over whole is a WRITE, or one *)
(* the server does not know.                                                *)
Handles   == [addr : Addr, dir : BOOLEAN]
HandleOps == {"read", "write", "close", "readdir"}
NameOps   == {"open", "remove", "stat", "opendir"}
OtherOps  == {"realpath", "init", "other", "short"}
Sound(r) ==
    /\ r.op \in HandleOps \cup NameOps \cup OtherOps /\ r.len \in Nat
    /\ r.op \in HandleOps => r.h \in Handles
    /\ r.op \in NameOps => r.name \in Name
    /\ r.op = "open" => r.writes \in BOOLEAN
    /\ r.op = "write" => r.offs \in Nat /\ r.dlen \in Nat /\ r.len = HDR + r.dlen
    /\ r.op \notin {"write", "other"} => r.len <= CHUNK
    /\ r.op # "short" => r.len # 0
WellFormed == held \subseteq Handles /\ \A k \in 1..Len(requests) : Sound(requests[k])

LEMMA Sizes ==
    /\ CHUNK \in Nat \ {0} /\ HDR \in Nat \ {0} /\ HDR <= CHUNK
    /\ MINPKT \in Nat \ {0} /\ MINPKT <= HDR /\ MINPKT - 1 \in Nat
    /\ Offs \subseteq Nat /\ Dlens \subseteq Nat
<1>1. MINPKT - 1 \in Nat
    BY LensHave, DispatchAssumption
<1> QED BY <1>1, ServerAssumption, DispatchAssumption

LEMMA RequestSound == ASSUME held \subseteq Handles, NEW r \in Requests PROVE Sound(r)
<1> USE Sizes DEF Sound, HandleOps, NameOps, OtherOps
<1>1. CASE r \in Opens
    BY <1>1 DEF Request, Opens
<1>2. CASE r \in Reads
    BY <1>2 DEF Request, Reads
<1>3. CASE r \in Writes
  <2>1. PICK h \in Writable, o \in Offs, d \in Dlens :
            r = Request("write", HDR + d, h, AnyName, FALSE, o, d)
      BY <1>3 DEF Request, Writes
  <2>2. h \in Handles /\ d \in Nat /\ o \in Nat
      BY DEF Writable
  <2>3. /\ r.op = "write" /\ r.len = HDR + d /\ r.h = h /\ r.offs = o /\ r.dlen = d
      BY <2>1 DEF Request
  <2> QED BY <2>2, <2>3
<1>4. CASE r \in Removes
    BY <1>4 DEF Request, Removes, OnName
<1>5. CASE r \in PlainOnes
    BY <1>5 DEF Request, PlainOnes, Plain
<1>6. CASE r \in OnHandle("close") \/ r \in OnHandle("readdir")
    BY <1>6 DEF Request, OnHandle
<1>7. CASE r \in OnName("opendir") \/ r \in OnName("stat")
    BY <1>7 DEF Request, OnName
<1> QED BY <1>1, <1>2, <1>3, <1>4, <1>5, <1>6, <1>7 DEF Requests

(* What sending a request does.                                             *)
LEMMA Sending ==
    ASSUME Sent, ClientSends
    PROVE  /\ Len(requests) \in Nat /\ Len(requests') = Len(requests) + 1
           /\ \A k \in 1..Len(requests) : requests'[k] = requests[k]
           /\ \E r \in Requests :
                 /\ requests'[Len(requests) + 1] = r
                 /\ held' = IF r.op = "close" THEN held \ {r.h} ELSE held
           /\ UNCHANGED <<dvars, session, server, fatfs, replies, history>>
<1>1. PICK r \in Requests : /\ requests' = Append(requests, r)
                            /\ held' = IF r.op = "close" THEN held \ {r.h} ELSE held
    BY DEF ClientSends
<1>2. PICK S : requests \in Seq(S)
    BY DEF Sent
<1>3. requests \in Seq(S \cup {r}) /\ Len(requests) \in Nat
    BY <1>2, SeqMonotonic, LenProperties
<1>4. /\ Len(requests') = Len(requests) + 1
      /\ \A k \in 1..Len(requests) : requests'[k] = requests[k]
      /\ requests'[Len(requests) + 1] = r
    BY <1>1, <1>3, AppendProperties
<1> QED BY <1>1, <1>3, <1>4 DEF ClientSends

(* A command gives out a handle or none.                                    *)
LEMMA Given ==
    ASSUME Spkt
    PROVE  held' = held \/ \E a \in Addr, d \in BOOLEAN : held' = held \cup {[addr |-> a, dir |-> d]}
<1>1. ASSUME NEW o, Allocate(o)
      PROVE  \E a \in Addr, d \in BOOLEAN : held' = held \cup {[addr |-> a, dir |-> d]}
    BY <1>1 DEF Allocate, FreeAddr
<1>2. CASE Open
    BY <1>1, <1>2 DEF Open
<1>3. CASE OpenDir
    BY <1>1, <1>3 DEF OpenDir
<1> QED BY <1>2, <1>3 DEF Spkt, KeepHeld, TooShort, Simple, Init_, Other, Stat, RealPath, Close,
           Read, ReadDir, WrongKind, Remove, Write, WriteDir

LEMMA WellFormedInit == ASSUME Init PROVE WellFormed
BY DEF Init, WellFormed

LEMMA WellFormedStep == ASSUME Sent, WellFormed, [Next]_vars PROVE WellFormed'
<1>1. CASE ClientSends
  <2>1. PICK r \in Requests : /\ requests'[Len(requests) + 1] = r
                              /\ held' = IF r.op = "close" THEN held \ {r.h} ELSE held
      BY <1>1, Sending
  <2>2. Sound(r)
      BY RequestSound DEF WellFormed
  <2>3. /\ Len(requests) \in Nat /\ Len(requests') = Len(requests) + 1
        /\ \A k \in 1..Len(requests) : requests'[k] = requests[k]
      BY <1>1, Sending
  <2>4. \A k \in 1..Len(requests') : k \in 1..Len(requests) \/ k = Len(requests) + 1
      BY <2>3
  <2>5. \A k \in 1..Len(requests') : Sound(requests'[k])
      BY <2>1, <2>2, <2>3, <2>4 DEF WellFormed
  <2> QED BY <2>1, <2>5 DEF WellFormed
<1>2. CASE CallByte
  <2>1. requests' = requests
      BY <1>2 DEF CallByte
  <2>2. CASE ContinueByte
    <3>1. held' = held
        BY <2>2 DEF ContinueByte, ContinueWrite, KeepHeld
    <3> QED BY <2>1, <3>1 DEF WellFormed
  <2>3. CASE Spkt
      BY <2>1, <2>3, Given DEF WellFormed, Handles
  <2> QED BY <1>2, <2>2, <2>3 DEF CallByte, SpktByte
<1>3. CASE EndSession
    BY <1>3 DEF EndSession, WellFormed
<1> QED BY <1>1, <1>2, <1>3 DEF Next, StreamNext, LengthBytes, CollectByte, CloseMessage, client, vars, WellFormed

-----------------------------------------------------------------------------
(* The packet being received.                                               *)
Current ==
    /\ first \in 0..Len(requests) /\ pkt \in first..Len(requests)
    /\ pkt > first => plen = req.len
    /\ pkt = first => plen = 0 /\ pos = LENLEN /\ calls = <<>> /\ dpch_state = "LEN"

LEMMA CurrentInit == ASSUME Init PROVE Current
BY DEF Init, DInit, Current

(* Bytes of a packet belong to one that has been sent.                      *)
LEMMA InRequest ==
    ASSUME DInv, Sent, WellFormed, Current, dpch_state = "REG"
    PROVE  /\ pkt \in 1..Len(requests) /\ first \in Nat /\ pkt \in Nat /\ pkt > first
           /\ plen = req.len /\ plen \in Nat \ {0} /\ Sound(req)
<1>1. first \in Nat /\ Len(requests) \in Nat /\ pkt \in Nat /\ pkt # first /\ dpch_cnt < plen /\ dpch_cnt \in Nat
    BY DEF Current, Sent, DInv, DTypeOK, Aligned
<1>2. pkt > first /\ pkt \in 1..Len(requests)
    BY <1>1 DEF Current
<1> QED BY <1>1, <1>2 DEF Current, WellFormed, Sound, req

(* A step that leaves the stream's packet alone.                            *)
LEMMA CurrentSame ==
    ASSUME Current, requests' = requests, first' = first, pkt' = pkt, plen' = plen,
           pkt = first => pos' = pos /\ calls' = calls /\ dpch_state' = dpch_state
    PROVE  Current'
BY DEF Current, req

LEMMA CurrentStep == ASSUME DInv, Sent, WellFormed, Current, [Next]_vars PROVE Current'
<1>0. Len(requests) \in Nat /\ first \in Nat /\ pkt \in Nat
    BY DEF Sent, Current
<1>1. CASE ClientSends
  <2>1. /\ Len(requests') = Len(requests) + 1
        /\ \A k \in 1..Len(requests) : requests'[k] = requests[k]
        /\ UNCHANGED <<dvars, first>>
      BY <1>1, Sending DEF history
  <2>2. UNCHANGED <<pkt, plen, pos, calls, dpch_state>>
      BY <2>1 DEF dvars, stream, dispatch
  <2>3. pkt > first => req' = req
      BY <1>0, <2>1, <2>2 DEF req, Current
  <2> QED BY <1>0, <2>1, <2>2, <2>3 DEF Current
<1>2. CASE StreamNext
  <2>1. /\ pkt < Len(requests) /\ pkt' = pkt + 1 /\ plen' = requests[pkt + 1].len
        /\ requests' = requests /\ first' = first
      BY <1>2 DEF StreamNext, NextPacket, client, history
  <2> QED BY <1>0, <2>1 DEF Current, req
<1>3. CASE LengthBytes
  <2>1. /\ requests' = requests /\ first' = first /\ pkt' = pkt /\ plen' = plen /\ calls' = calls
        /\ pos < LENLEN + plen /\ dpch_state = "LEN"
      BY <1>3 DEF LengthBytes, LengthByte, LengthDone, Receive, client, history
  <2>2. pkt # first
      BY <2>1 DEF Current, LENLEN
  <2> QED BY <2>1, <2>2, CurrentSame
<1>4. CASE CollectByte
  <2>1. /\ requests' = requests /\ first' = first /\ pkt' = pkt /\ plen' = plen
        /\ dpch_state = "REG"
      BY <1>4 DEF CollectByte, Collect, Receive, client, history
  <2> QED BY <2>1, InRequest, CurrentSame
<1>5. CASE CallByte
  <2>1. /\ requests' = requests /\ first' = first /\ pkt' = pkt /\ plen' = plen
        /\ dpch_state = "REG"
      BY <1>5 DEF CallByte, SpktByte, ContinueByte, Handed, HandChunk, HandLast, Receive
  <2> QED BY <2>1, InRequest, CurrentSame
<1>6. CASE CloseMessage
    BY <1>6, CurrentSame DEF CloseMessage, client, history, dvars, stream, dispatch
<1>7. CASE EndSession
  <2>1. /\ requests' = requests /\ first' = Len(requests) /\ pkt' = Len(requests)
        /\ plen' = 0 /\ pos' = LENLEN /\ calls' = <<>> /\ dpch_state' = "LEN"
      BY <1>7 DEF EndSession, StreamRestarts, NewSession, Reset
  <2> QED BY <1>0, <2>1 DEF Current
<1>8. CASE UNCHANGED vars
    BY <1>8, CurrentSame DEF vars, client, history, dvars, stream, dispatch
<1> QED BY <1>1, <1>2, <1>3, <1>4, <1>5, <1>6, <1>7, <1>8 DEF Next

-----------------------------------------------------------------------------
(* Calls.  A packet's first piece goes to sftp_dispatch_spkt, the others to *)
(* continue_write, and a packet of any length has been handed over before   *)
(* the next one begins.                                                     *)
LEMMA CallKinds ==
    ASSUME DInv, NEW kind, Handed(kind)
    PROVE  /\ dpch_state = "REG" /\ Receive /\ calls' # <<>>
           /\ UNCHANGED <<pkt, plen>>
           /\ kind = "spkt" <=> calls = <<>>
           /\ dpch_state' = "REG" => count < dpch_len /\ ChunkFull /\ dpch_cnt' = count
           /\ dpch_state' # "REG" => PacketEnd /\ dpch_state' = "LEN"
<1>1. DInv'
    BY KeepsHandChunk, KeepsHandLast DEF Handed
<1>2. calls' = Append(calls, [kind |-> kind, data |-> got])
    BY DEF Handed, HandChunk, HandLast, Hand
<1>3. calls \in Seq([kind : {"spkt", "continue"}, data : Seq(Nat \X Nat)])
    BY DEF DInv, DTypeOK
<1>4. Len(calls) \in Nat /\ Len(calls') = Len(calls) + 1 /\ calls'[Len(calls) + 1].kind = kind
    BY <1>2, <1>3
<1>5. kind = IF Len(calls) + 1 = 1 THEN "spkt" ELSE "continue"
    BY <1>1, <1>4 DEF DInv, Pieces
<1>6. calls = <<>> <=> Len(calls) = 0
    BY <1>3
<1>7. calls' # <<>>
    BY <1>4
<1> QED BY <1>4, <1>5, <1>6, <1>7 DEF Handed, HandChunk, HandLast, ChunkFull, Receive

LEMMA FullyCalled ==
    ASSUME DInv, Sent, WellFormed, Current, pos = LENLEN + plen, pkt > first, calls = <<>>
    PROVE  req.op = "short"
<1>1. pkt \in 1..Len(requests) /\ pkt \in Nat /\ pkt > 0
    BY DEF Current, Sent
<1>2. plen \in Nat /\ CHUNK \in Nat /\ Len(calls) = 0
    BY DispatchAssumption DEF DInv, DTypeOK
<1>3. plen <= 0 * CHUNK
    BY <1>1, <1>2 DEF DInv, Pieces
<1>4. 0 * CHUNK = 0
    BY <1>2
<1>5. plen = 0
    BY <1>2, <1>3, <1>4
<1>6. Sound(req) /\ req.len = 0
    BY <1>1, <1>5 DEF Current, WellFormed, req
<1> QED BY <1>6 DEF Sound

LEMMA LengthFirst ==
    ASSUME DInv, LengthBytes PROVE calls = <<>> /\ UNCHANGED <<pkt, plen, calls>> /\ dpch_state = "LEN" /\ pos < LENLEN + plen
<1>1. /\ Receive /\ dpch_state = "LEN" /\ UNCHANGED <<pkt, plen, calls>>
    BY DEF LengthBytes, LengthByte, LengthDone, Receive
<1>2. pos < LENLEN
    BY <1>1 DEF Receive, DInv, DTypeOK, Aligned, LENLEN
<1> QED BY <1>1, <1>2 DEF DInv, Collected, Receive

-----------------------------------------------------------------------------
(* Handles and the objects they name.                                       *)
FileObjs == [kind : {"file"}, name : Name, writes : BOOLEAN, fptr : Nat, err : BOOLEAN]
DirObjs  == [kind : {"dir"}, done : BOOLEAN]
Obj      == FileObjs \cup DirObjs \cup {Free}

Alike(x, y) ==
    /\ x.kind = y.kind /\ (x = Free <=> y = Free)
    /\ x.kind = "file" => x.name = y.name /\ x.writes = y.writes

(* The requests that have still to be looked at, the packet in pieces       *)
(* included, and those of them that will free an object.                    *)
Closing == {k \in Pending : requests[k].op = "close"}
Alive   == Pending \cup (IF dpch_state = "REG" THEN {pkt} ELSE {})

Genuine == \A k \in Closing : requests[k].h = Handle(requests[k].h.addr)
ClosedOnce ==
    /\ \A j, k \in Closing : requests[j].h.addr = requests[k].h.addr => j = k
    /\ \A k \in Closing, h \in held : h.addr # requests[k].h.addr
Backed ==
    \A k \in Alive : requests[k].op \in HandleOps =>
        requests[k].h \in held \/ \E j \in Closing : j >= k /\ requests[j].h = requests[k].h
ObjTyped  == objects \in [Addr -> Obj] /\ lost \subseteq Addr
HandleInv == ObjTyped /\ Genuine /\ ClosedOnce /\ Backed /\ HandlesLive

LEMMA KindsApart ==
    /\ Free \notin FileObjs /\ Free \notin DirObjs /\ Free.kind = "free"
    /\ \A o \in Obj : o.kind \in {"file", "dir", "free"}
    /\ \A o \in Obj : (o.kind = "file" <=> o \in FileObjs) /\ (o.kind = "dir" <=> o \in DirObjs)
    /\ \A o \in Obj : o.kind = "free" <=> o = Free
BY DEF Free, FileObjs, DirObjs, Obj

LEMMA IsOpen ==
    ASSUME NEW a
    PROVE  a \in OpenAddr <=> (\E h \in held : h.addr = a) \/ (\E k \in Closing : requests[k].h.addr = a)
BY DEF OpenAddr, Closing

(* The handle of the request being served names an object of its kind.      *)
LEMMA ServedHandle ==
    ASSUME DInv, Sent, WellFormed, Current, HandleInv, dpch_state = "REG", req.op \in HandleOps
    PROVE  /\ req.h \in Handles /\ req.h.addr \in Addr
           /\ req.h = Handle(req.h.addr) /\ req.h.addr \in OpenAddr
           /\ objects[req.h.addr] \in FileObjs \cup DirObjs
           /\ req.h.dir <=> objects[req.h.addr].kind = "dir"
<1>1. Sound(req) /\ pkt \in Alive
    BY InRequest DEF Alive
<1>2. req.h \in Handles /\ req.h.addr \in Addr
    BY <1>1 DEF Sound, Handles
<1>3. req.h \in held \/ \E j \in Closing : requests[j].h = req.h
    BY <1>1 DEF HandleInv, Backed, req
<1>4. req.h = Handle(req.h.addr)
    BY <1>3 DEF HandleInv, HandlesLive, Genuine
<1>5. req.h.addr \in OpenAddr
    BY <1>3, IsOpen
<1>6. objects[req.h.addr] \in Obj /\ objects[req.h.addr] # Free
    BY <1>2, <1>5 DEF HandleInv, HandlesLive, ObjTyped
<1>7. req.h.dir = (objects[req.h.addr].kind = "dir")
    BY <1>4 DEF Handle
<1> QED BY <1>2, <1>4, <1>5, <1>6, <1>7 DEF Obj

LEMMA HandlesInit == ASSUME Init PROVE HandleInv
<1>1. Pending = {} /\ Alive = {} /\ Closing = {}
    BY DEF Init, DInit, Pending, Alive, Closing
<1>2. OpenAddr = {} /\ lost = {} /\ held = {}
    BY <1>1 DEF OpenAddr, Init
<1>3. ObjTyped /\ {a \in Addr : objects[a] # Free} = {}
    BY DEF Init, ObjTyped, Obj
<1> QED BY <1>1, <1>2, <1>3 DEF HandleInv, Genuine, ClosedOnce, Backed, HandlesLive

(* A step that changes no handle and no object's kind.                      *)
LEMMA HandlesKept ==
    ASSUME HandleInv, ObjTyped', requests' = requests, held' = held, lost' = lost,
           \A a \in Addr : Alike(objects[a], objects'[a]),
           Closing' = Closing, Alive' \subseteq Alive,
           held \subseteq Handles, \A k \in Closing : requests[k].h.addr \in Addr
    PROVE  HandleInv'
<1>1. \A a \in Addr : Handle(a)' = Handle(a)
    BY DEF Handle, Alike
<1>2. OpenAddr' = OpenAddr
    BY DEF OpenAddr, Closing
<1>3. {a \in Addr : objects'[a] # Free} = {a \in Addr : objects[a] # Free}
    BY DEF Alike
<1>4. HandlesLive'
    BY <1>1, <1>2, <1>3 DEF HandleInv, HandlesLive, Handles
<1>5. Genuine'
    BY <1>1 DEF HandleInv, Genuine
<1>6. ClosedOnce' /\ Backed'
    BY DEF HandleInv, ClosedOnce, Backed
<1> QED BY <1>4, <1>5, <1>6 DEF HandleInv

LEMMA RequestHeld == ASSUME NEW r \in Requests, r.op \in HandleOps PROVE r.h \in held
<1> USE DEF HandleOps
<1>1. CASE r \in Opens
    BY <1>1 DEF Request, Opens
<1>2. CASE r \in Reads
    BY <1>2 DEF Request, Reads
<1>3. CASE r \in Writes
  <2>1. PICK h \in Writable, o \in Offs, d \in Dlens :
            r = Request("write", HDR + d, h, AnyName, FALSE, o, d)
      BY <1>3 DEF Request, Writes
  <2> QED BY <2>1 DEF Request, Writable
<1>4. CASE r \in Removes
    BY <1>4 DEF Request, Removes, OnName
<1>5. CASE r \in PlainOnes
    BY <1>5 DEF Request, PlainOnes, Plain
<1>6. CASE r \in OnHandle("close") \/ r \in OnHandle("readdir")
    BY <1>6 DEF Request, OnHandle
<1>7. CASE r \in OnName("opendir") \/ r \in OnName("stat")
    BY <1>7 DEF Request, OnName
<1> QED BY <1>1, <1>2, <1>3, <1>4, <1>5, <1>6, <1>7 DEF Requests

LEMMA PendingTypes ==
    ASSUME Sent, WellFormed, Current
    PROVE  /\ first \in Nat /\ pkt \in Nat /\ Len(requests) \in Nat
           /\ \A k \in Pending : k \in 1..Len(requests) /\ k \in Nat /\ Sound(requests[k])
           /\ \A k \in Closing : k \in Pending /\ requests[k].h \in Handles /\ requests[k].h.addr \in Addr
           /\ \A h \in held : h \in Handles /\ h.addr \in Addr
<1>1. first \in Nat /\ pkt \in Nat /\ Len(requests) \in Nat
    BY DEF Sent, Current
<1>2. \A k \in Pending : k \in 1..Len(requests) /\ k \in Nat /\ Sound(requests[k])
    BY <1>1 DEF Pending, WellFormed
<1>3. \A k \in Closing : k \in Pending /\ requests[k].h \in Handles
    BY <1>2 DEF Closing, Sound, HandleOps
<1>4. \A h \in held : h \in Handles
    BY DEF WellFormed
<1> QED BY <1>1, <1>2, <1>3, <1>4 DEF Handles

(* The client sends: what it gives up with a CLOSE is about to be closed.    *)
LEMMA HandlesSend == ASSUME DInv, Sent, WellFormed, Current, HandleInv, ClientSends PROVE HandleInv'
<1> DEFINE n == Len(requests) + 1
<1>1. PICK r \in Requests : /\ requests'[n] = r
                            /\ held' = IF r.op = "close" THEN held \ {r.h} ELSE held
    BY Sending
<1>2. /\ Len(requests) \in Nat /\ Len(requests') = n
      /\ \A k \in 1..Len(requests) : requests'[k] = requests[k]
      /\ UNCHANGED <<dvars, first, objects, lost>>
    BY Sending DEF fatfs, history
<1>3. UNCHANGED <<pkt, calls, dpch_state>>
    BY <1>2 DEF dvars, stream, dispatch
<1>4. first \in 0..Len(requests) /\ pkt \in 0..Len(requests) /\ pkt >= first
    BY <1>2 DEF Current
<1> HIDE DEF n
<1>5. n \in Nat /\ n > pkt /\ n > first /\ \A k \in 1..Len(requests) : k < n /\ k # n /\ k \in Nat
    BY <1>2, <1>4 DEF n
<1>6. \A k : k \in (first + 1)..n <=> k \in (first + 1)..Len(requests) \/ k = n
    BY <1>2, <1>4 DEF n
<1>7. \A k \in Pending : k \in 1..Len(requests) /\ requests'[k] = requests[k] /\ k < n
    BY <1>2, <1>5, PendingTypes
<1>8. Pending' = Pending \cup {n}
    BY <1>2, <1>3, <1>5, <1>6 DEF Pending
<1>9. Closing' = IF r.op = "close" THEN Closing \cup {n} ELSE Closing
    BY <1>1, <1>7, <1>8 DEF Closing
<1>10. Alive' = Alive \cup {n}
    BY <1>3, <1>8 DEF Alive
<1>11. \A k \in Alive : requests'[k] = requests[k]
  <2>1. dpch_state = "REG" => pkt \in 1..Len(requests)
      BY InRequest
  <2> QED BY <1>2, <1>7, <2>1 DEF Alive
<1>12. r.op \in HandleOps => r.h \in held
    BY RequestHeld
<1>13. \A a \in Addr : Handle(a)' = Handle(a)
    BY <1>2 DEF Handle
<1>14. CASE r.op = "close"
  <2>1. r.h \in held /\ held' = held \ {r.h} /\ requests'[n].h = r.h
      BY <1>1, <1>12, <1>14 DEF HandleOps
  <2>2. \A h \in held : h.addr = r.h.addr => h = r.h
      BY <2>1 DEF HandleInv, HandlesLive
  <2>3. Closing' = Closing \cup {n} /\ n \notin Closing /\ \A k \in Closing : requests'[k] = requests[k] /\ k \in Pending
      BY <1>7, <1>9, <1>14 DEF Closing
  <2>4. OpenAddr' = OpenAddr
    <3>1. \A a : a \in OpenAddr' <=>
            (\E h \in held' : h.addr = a) \/ (\E k \in Closing' : requests'[k].h.addr = a)
        BY DEF OpenAddr, Closing
    <3>2. \A a : a \in OpenAddr' <=> a \in OpenAddr
        BY <2>1, <2>3, <3>1, IsOpen
    <3> QED BY <3>2
  <2>5. HandlesLive'
      BY <1>2, <1>13, <2>1, <2>4, PendingTypes DEF HandleInv, HandlesLive
  <2>6. Genuine'
      BY <1>13, <2>1, <2>3, PendingTypes DEF HandleInv, HandlesLive, Genuine
  <2>7. ClosedOnce'
      BY <2>1, <2>2, <2>3 DEF HandleInv, ClosedOnce
  <2>8. Backed'
    <3> SUFFICES ASSUME NEW k \in Alive', requests'[k].op \in HandleOps
                 PROVE  requests'[k].h \in held' \/ \E j \in Closing' : j >= k /\ requests'[j].h = requests'[k].h
        BY DEF Backed
    <3>1. CASE k = n
        BY <1>5, <2>3, <3>1
    <3>2. CASE k \in Alive
      <4>1. requests'[k] = requests[k] /\ k \in Nat /\ k <= n
        <5>1. dpch_state = "REG" => pkt \in 1..Len(requests)
            BY InRequest
        <5> QED BY <1>5, <1>7, <1>11, <3>2, <5>1, PendingTypes DEF Alive
      <4>2. requests[k].h \in held \/ \E j \in Closing : j >= k /\ requests[j].h = requests[k].h
          BY <3>2, <4>1 DEF HandleInv, Backed
      <4>3. requests[k].h = r.h => n \in Closing' /\ n >= k /\ requests'[n].h = requests'[k].h
          BY <1>5, <2>1, <2>3, <4>1
      <4> QED BY <2>1, <2>3, <4>1, <4>2, <4>3
    <3> QED BY <1>10, <3>1, <3>2
  <2>9. ObjTyped'
      BY <1>2 DEF HandleInv, ObjTyped
  <2> QED BY <2>5, <2>6, <2>7, <2>8, <2>9 DEF HandleInv
<1>15. CASE r.op # "close"
  <2>1. held' = held /\ Closing' = Closing
      BY <1>1, <1>9, <1>15
  <2>2. \A k \in Closing : requests'[k] = requests[k]
      BY <1>7 DEF Closing
  <2>3. OpenAddr' = OpenAddr
      BY <2>1, <2>2 DEF OpenAddr, Closing
  <2>4. HandlesLive'
      BY <1>2, <1>13, <2>1, <2>3, PendingTypes DEF HandleInv, HandlesLive
  <2>5. Genuine' /\ ClosedOnce'
      BY <1>13, <2>1, <2>2, PendingTypes DEF HandleInv, Genuine, ClosedOnce
  <2>6. Backed'
      BY <1>1, <1>10, <1>11, <1>12, <2>1, <2>2 DEF HandleInv, Backed
  <2>7. ObjTyped'
      BY <1>2 DEF HandleInv, ObjTyped
  <2> QED BY <2>4, <2>5, <2>6, <2>7 DEF HandleInv
<1> QED BY <1>14, <1>15

-----------------------------------------------------------------------------
(* What continue_write relies on: a packet of more than a chunk begins with *)
(* last_cmd_write cleared, which only its own first piece sets again, and   *)
(* from then on last_offs keeps up with the bytes handed over.              *)
Resumes ==
    (dpch_state = "REG" /\ plen > CHUNK) =>
        /\ last_cmd_write => calls # <<>>
        /\ calls # <<>> => (last_cmd_write <=> req.op = "write")
        /\ last_cmd_write => last_fp = req.h.addr /\ last_offs = req.offs + (Handled - HDR)

LEMMA CommandServer ==
    ASSUME Spkt
    PROVE  IF req.op = "write" THEN Remember ELSE UNCHANGED <<last_cmd_write, last_fp, last_offs>>
BY DEF Spkt, TooShort, Init_, Other, Stat, Simple, RealPath, Open, OpenDir, Close, Read, ReadDir,
       WrongKind, NotA, Remove, Write, WriteDir, KeepServer, server

(* A piece that is not the last is a chunk.                                 *)
LEMMA ChunkHanded ==
    ASSUME DInv, NEW kind, Handed(kind), dpch_state' = "REG"
    PROVE  /\ Len(got) = CHUNK /\ count < plen /\ count = Handled + CHUNK
           /\ Handled \in Nat /\ Handled' = Handled + CHUNK /\ plen \in Nat
           /\ calls = <<>> => Handled = 0
           /\ calls # <<>> => Handled >= CHUNK
<1>1. Receive /\ dpch_state = "REG" /\ count < dpch_len /\ ChunkFull
    BY CallKinds
<1>2. /\ Len(calls) \in Nat /\ Handled \in Nat /\ Len(got) \in 1..CHUNK
      /\ count = Handled + Len(got) /\ dpch_len = plen
      /\ count % CHUNK = 0 <=> Len(got) = CHUNK
    BY <1>1, InPacket
<1>3. /\ calls \in Seq([kind : {"spkt", "continue"}, data : Seq(Nat \X Nat)])
      /\ CHUNK \in Nat \ {0} /\ plen \in Nat
    BY DispatchAssumption DEF DInv, DTypeOK
<1>4. Len(calls') = Len(calls) + 1
    BY <1>3 DEF Handed, HandChunk, HandLast, Hand
<1>5. Handled' = Handled + CHUNK
    BY <1>2, <1>3, <1>4, NextMultiple DEF Handled
<1>6. Len(calls) = 0 <=> calls = <<>>
    BY <1>3
<1>7. (Len(calls) = 0 => Handled = 0) /\ (Len(calls) # 0 => Handled >= CHUNK)
    BY <1>2, <1>3, NextMultiple DEF Handled
<1> QED BY <1>1, <1>2, <1>3, <1>5, <1>6, <1>7 DEF ChunkFull

LEMMA ResumesInit == ASSUME Init PROVE Resumes
BY DEF Init, DInit, Resumes

LEMMA ResumesFirst ==
    ASSUME DInv, Sent, WellFormed, Current, Resumes, SpktByte, requests' = requests PROVE Resumes'
<1> SUFFICES ASSUME dpch_state' = "REG", plen' > CHUNK
             PROVE  /\ calls' # <<>>
                    /\ last_cmd_write' <=> req.op = "write"
                    /\ last_cmd_write' => /\ last_fp' = req.h.addr
                                          /\ last_offs' = req.offs + (Handled' - HDR)
  <2>1. req' = req
      BY CallKinds DEF SpktByte, req
  <2> QED BY <2>1 DEF Resumes
<1>1. /\ dpch_state = "REG" /\ calls' # <<>> /\ calls = <<>> /\ plen' = plen
    BY CallKinds DEF SpktByte
<1>2. /\ Len(got) = CHUNK /\ Handled = 0 /\ Handled' = CHUNK
    BY <1>1, ChunkHanded, DispatchAssumption DEF SpktByte
<1>3. ~last_cmd_write
    BY <1>1 DEF Resumes
<1>4. Sound(req) /\ plen = req.len
    BY <1>1, InRequest
<1>5. CASE req.op = "write"
  <2>1. Remember
      BY <1>5, CommandServer DEF SpktByte
  <2>2. /\ req.dlen \in Nat /\ req.offs \in Nat /\ plen = HDR + req.dlen
      BY <1>4, <1>5 DEF Sound
  <2>3. Trimmed
      BY <1>1, <1>2, <2>2 DEF Trimmed
  <2>4. got \in Seq(Nat \X Nat)
      BY <1>1, CallKinds, InPacket DEF SpktByte
  <2>5. Len(DataOf(got)) = CHUNK - HDR
      BY <1>2, <2>4, Sizes, SubSeqProperties DEF DataOf
  <2>6. last_cmd_write' = TRUE /\ last_fp' = req.h.addr /\ last_offs' = req.offs + (CHUNK - HDR)
      BY <2>1, <2>3, <2>5 DEF Remember, OffsetAfter
  <2> QED BY <1>1, <1>2, <1>5, <2>6
<1>6. CASE req.op # "write"
  <2>1. last_cmd_write' = last_cmd_write
      BY <1>6, CommandServer DEF SpktByte
  <2> QED BY <1>1, <1>3, <1>6, <2>1
<1> QED BY <1>5, <1>6

LEMMA ResumesNext ==
    ASSUME DInv, Sent, WellFormed, Current, Resumes, ContinueByte, requests' = requests PROVE Resumes'
<1> SUFFICES ASSUME dpch_state' = "REG", plen' > CHUNK PROVE Resumes'
    BY DEF Resumes
<1>1. /\ dpch_state = "REG" /\ calls' # <<>> /\ calls # <<>> /\ plen' = plen
    BY CallKinds DEF ContinueByte
<1>2. req' = req
    BY CallKinds DEF ContinueByte, req
<1>3. /\ Len(got) = CHUNK /\ Handled \in Nat /\ Handled' = Handled + CHUNK
    BY ChunkHanded DEF ContinueByte
<1>4. last_cmd_write' = last_cmd_write /\ last_fp' = last_fp
    BY DEF ContinueByte, ContinueWrite
<1>5. /\ last_cmd_write <=> req.op = "write"
      /\ last_cmd_write => last_fp = req.h.addr /\ last_offs = req.offs + (Handled - HDR)
    BY <1>1 DEF Resumes
<1>6. last_cmd_write => last_offs' = last_offs + CHUNK
    BY <1>3 DEF ContinueByte, ContinueWrite
<1>7. last_cmd_write => last_offs' = req.offs + (Handled' - HDR)
  <2>1. Sound(req)
      BY <1>1, InRequest
  <2>2. last_cmd_write => req.offs \in Nat
      BY <1>5, <2>1 DEF Sound
  <2>3. CHUNK \in Nat /\ HDR \in Nat
      BY Sizes
  <2>4. \A o, h \in Nat : (o + (h - HDR)) + CHUNK = o + ((h + CHUNK) - HDR)
      BY <2>3
  <2> QED BY <1>3, <1>5, <1>6, <2>2, <2>4
<1> QED BY <1>1, <1>2, <1>4, <1>5, <1>7 DEF Resumes

LEMMA ResumesStep == ASSUME DInv, Sent, WellFormed, Current, Resumes, [Next]_vars PROVE Resumes'
<1>1. CASE ClientSends
  <2>1. UNCHANGED <<dvars, server>> /\ \A k \in 1..Len(requests) : requests'[k] = requests[k]
      BY <1>1, Sending
  <2>2. UNCHANGED <<pkt, plen, calls, dpch_state, last_cmd_write, last_fp, last_offs>>
      BY <2>1 DEF dvars, stream, dispatch, server
  <2>3. Handled' = Handled
      BY <2>2 DEF Handled
  <2>4. dpch_state = "REG" => req' = req
      BY <2>1, <2>2, InRequest DEF req
  <2> QED BY <2>2, <2>3, <2>4 DEF Resumes
<1>2. CASE StreamNext
  <2>1. pos = LENLEN + plen /\ dpch_state' = dpch_state
      BY <1>2 DEF StreamNext, NextPacket
  <2>2. dpch_state # "REG"
      BY <2>1 DEF DInv, DTypeOK, Aligned, LENLEN
  <2> QED BY <2>1, <2>2 DEF Resumes
<1>3. CASE LengthBytes
  <2>1. SUFFICES ASSUME dpch_state' = "REG", plen' > CHUNK PROVE ~last_cmd_write' /\ calls' = <<>>
      BY DEF Resumes
  <2>2. LengthDone /\ last_cmd_write' = Forget(dpch_len') /\ calls' = <<>>
      BY <1>3, <2>1, LengthFirst DEF LengthBytes, LengthByte
  <2>3. dpch_len' = plen'
    <3>1. DInv'
        BY <2>2, KeepsLengthDone
    <3> QED BY <2>1, <3>1 DEF DInv, Aligned
  <2>4. plen' \in Nat /\ CHUNK \in Nat
      BY <2>2, DispatchAssumption DEF LengthDone, Receive, DInv, DTypeOK
  <2>5. ~(dpch_len' <= CHUNK)
      BY <2>1, <2>3, <2>4
  <2>6. ~Forget(dpch_len')
      BY <2>5 DEF Forget
  <2> QED BY <2>2, <2>6
<1>4. CASE CollectByte
  <2>1. UNCHANGED <<pkt, plen, calls, dpch_state, last_cmd_write, last_fp, last_offs, requests>>
      BY <1>4 DEF CollectByte, Collect, Receive, server, client
  <2>2. Handled' = Handled /\ req' = req
      BY <2>1 DEF Handled, req
  <2> QED BY <2>1, <2>2 DEF Resumes
<1>5. CASE CallByte
    BY <1>5, ResumesFirst, ResumesNext DEF CallByte
<1>6. CASE CloseMessage \/ UNCHANGED vars
  <2>1. UNCHANGED <<pkt, plen, calls, dpch_state, last_cmd_write, last_fp, last_offs, requests>>
      BY <1>6 DEF CloseMessage, vars, dvars, stream, dispatch, server, client
  <2>2. Handled' = Handled /\ req' = req
      BY <2>1 DEF Handled, req
  <2> QED BY <2>1, <2>2 DEF Resumes
<1>7. CASE EndSession
    BY <1>7 DEF EndSession, NewSession, Reset, Resumes
<1> QED BY <1>1, <1>2, <1>3, <1>4, <1>5, <1>6, <1>7 DEF Next

LEMMA ResumesOwn == ASSUME DInv, Sent, WellFormed, Current, Resumes PROVE ContinueOwn
<1> SUFFICES ASSUME last_cmd_write, dpch_state = "REG", dpch_cnt >= CHUNK
             PROVE  /\ req.op = "write" /\ last_fp = req.h.addr
                    /\ last_offs = req.offs + (dpch_cnt - Len(chnldat)) - HDR
    BY DEF ContinueOwn
<1>1. /\ dpch_cnt = Handled + Len(chnldat) /\ dpch_cnt < plen
      /\ dpch_cnt \in Nat /\ plen \in Nat /\ chnldat \in Seq(Nat \X Nat) /\ calls \in Seq([kind : {"spkt", "continue"}, data : Seq(Nat \X Nat)])
    BY DEF DInv, DTypeOK, Collected, Aligned
<1>2. plen > CHUNK /\ CHUNK \in Nat /\ HDR \in Nat
    BY <1>1, Sizes
<1>3. req.op = "write" /\ last_fp = req.h.addr /\ last_offs = req.offs + (Handled - HDR)
    BY <1>2 DEF Resumes
<1>4. req.offs \in Nat
    BY <1>3, InRequest DEF Sound
<1>5. Len(chnldat) \in Nat /\ Handled \in Nat
    BY <1>1, <1>2, NextMultiple, LenProperties, Sizes DEF Handled
<1>6. dpch_cnt - Len(chnldat) = Handled
    BY <1>1, <1>5
<1>7. \A o, h \in Nat : o + (h - HDR) = (o + h) - HDR
    BY <1>2
<1> QED BY <1>3, <1>4, <1>5, <1>6, <1>7

-----------------------------------------------------------------------------
(* The bytes a WRITE brings with its first piece, and with the later ones.  *)
LEMMA DataType ==
    ASSUME DInv, Receive, dpch_state = "REG", Len(got) >= HDR
    PROVE  /\ DataOf(got) \in Seq(Nat \X Nat) /\ Len(DataOf(got)) = Len(got) - HDR
           /\ Len(got) \in Nat
           /\ \A i \in 1..(Len(got) - HDR) : DataOf(got)[i] = got[HDR + i]
<1>1. got \in Seq(Nat \X Nat) /\ Len(got) \in Nat /\ HDR \in Nat
    BY InPacket, Sizes
<1>2. /\ HDR + 1 \in 1..(Len(got) + 1) /\ Len(got) \in (HDR + 1 - 1)..Len(got)
    BY <1>1
<1>3. /\ DataOf(got) \in Seq(Nat \X Nat)
      /\ Len(DataOf(got)) = Len(got) - (HDR + 1) + 1
      /\ \A i \in 1..(Len(got) - (HDR + 1) + 1) : DataOf(got)[i] = got[(HDR + 1) + i - 1]
    BY <1>1, <1>2, SubSeqProperties DEF DataOf
<1>4. \A h, n \in Nat : n - (h + 1) + 1 = n - h /\ \A k \in 1..(n - h) : (h + 1) + k - 1 = h + k
    OBVIOUS
<1>5. Len(got) - (HDR + 1) + 1 = Len(got) - HDR /\ \A k \in 1..(Len(got) - HDR) : (HDR + 1) + k - 1 = HDR + k
    BY <1>1, <1>4
<1> HIDE DEF DataOf
<1> QED BY <1>1, <1>3, <1>5

LEMMA HeaderIn ==
    ASSUME DInv, Sent, WellFormed, Current, NEW kind, Handed(kind), calls = <<>>, req.op = "write"
    PROVE  Len(got) >= HDR
<1>1. Receive /\ dpch_state = "REG" /\ dpch_state' \in {"REG", "LEN"} /\ (dpch_state' = "LEN" => PacketEnd)
    BY CallKinds
<1>2. CASE dpch_state' = "REG"
    BY <1>2, ChunkHanded, Sizes
<1>3. CASE dpch_state' = "LEN"
  <2>1. count = Handled + Len(got) /\ count >= plen /\ Len(got) \in Nat
      BY <1>1, <1>3, InPacket DEF PacketEnd
  <2>2. Handled = 0
      BY Sizes DEF Handled
  <2>3. plen = HDR + req.dlen /\ req.dlen \in Nat
      BY <1>1, InRequest DEF Sound
  <2> QED BY <2>1, <2>2, <2>3, Sizes
<1> QED BY <1>1, <1>2, <1>3

LEMMA Continuing ==
    ASSUME DInv, Sent, WellFormed, Current, Resumes, ContinueByte
    PROVE  /\ dpch_state = "REG" /\ Receive /\ calls # <<>> /\ plen > CHUNK /\ Handled \in Nat /\ Handled >= CHUNK
           /\ last_cmd_write <=> req.op = "write"
           /\ last_cmd_write => /\ last_fp = req.h.addr /\ last_offs = req.offs + (Handled - HDR)
                                /\ last_offs \in Nat
<1>1. dpch_state = "REG" /\ Receive /\ calls # <<>>
    BY CallKinds DEF ContinueByte
<1>2. /\ calls \in Seq([kind : {"spkt", "continue"}, data : Seq(Nat \X Nat)])
      /\ Len(calls) \in Nat /\ Len(calls) # 0
    BY <1>1 DEF DInv, DTypeOK
<1>3. Handled \in Nat /\ Handled >= CHUNK
    BY <1>2, NextMultiple, Sizes DEF Handled
<1>4. Len(got) \in 1..CHUNK /\ count = Handled + Len(got) /\ count <= plen /\ plen \in Nat
    BY <1>1, InPacket DEF DInv, DTypeOK
<1>5. plen > CHUNK
    BY <1>3, <1>4, Sizes
<1>6. req.op = "write" => req.offs \in Nat
    BY <1>1, InRequest DEF Sound
<1> QED BY <1>1, <1>3, <1>5, <1>6, Sizes DEF Resumes

(* What most commands do: no handle comes or goes, and an object changes,   *)
(* if at all, in its position or its error.                                 *)
Tame == /\ ObjTyped' /\ held' = held /\ lost' = lost
        /\ \A a \in Addr : Alike(objects[a], objects'[a])

LEMMA TameNone == ASSUME ObjTyped, UNCHANGED <<objects, held, lost>> PROVE Tame
BY DEF Tame, ObjTyped, Alike

LEMMA TameOne ==
    ASSUME ObjTyped, NEW a \in Addr, NEW o \in Obj, objects' = [objects EXCEPT ![a] = o],
           Alike(objects[a], o), held' = held, lost' = lost
    PROVE  Tame
<1>1. objects' \in [Addr -> Obj] /\ \A b \in Addr : objects'[b] = IF b = a THEN o ELSE objects[b]
    BY DEF ObjTyped
<1>2. \A b \in Addr : Alike(objects[b], objects'[b])
    BY <1>1 DEF Alike
<1> QED BY <1>1, <1>2 DEF Tame, ObjTyped

LEMMA TameSeek ==
    ASSUME ObjTyped, NEW a \in Addr, objects[a] \in FileObjs, NEW offs, NEW data, NEW ok,
           offs \in Nat, Len(data) \in Nat,
           SeekWrite(a, offs, data, ok), held' = held, lost' = lost
    PROVE  Tame
<1>1. PICK n : n = offs + Len(data)
    OBVIOUS
<1>2. PICK moved : moved = [objects[a] EXCEPT !.fptr = n]
    OBVIOUS
<1>3. PICK faulty : faulty = [objects[a] EXCEPT !.err = TRUE]
    OBVIOUS
<1>4. n \in Nat
    BY <1>1
<1>5. moved \in FileObjs /\ faulty \in FileObjs /\ moved.name = objects[a].name /\ moved.writes = objects[a].writes
      /\ faulty.name = objects[a].name /\ faulty.writes = objects[a].writes
    BY <1>2, <1>3, <1>4 DEF FileObjs
<1>6. Alike(objects[a], moved) /\ Alike(objects[a], faulty) /\ moved \in Obj /\ faulty \in Obj
    BY <1>5, KindsApart DEF Alike, Obj
<1>7. \/ objects' = objects \/ objects' = [objects EXCEPT ![a] = moved]
      \/ objects' = [objects EXCEPT ![a] = faulty]
    BY <1>1, <1>2, <1>3 DEF SeekWrite, fatfs
<1> QED BY <1>6, <1>7, TameNone, TameOne

(* The commands that neither allocate nor free.                             *)
LEMMA TameSpkt ==
    ASSUME DInv, Sent, WellFormed, Current, HandleInv, dpch_state = "REG", Receive,
           req.op = "write" => Len(got) >= HDR,
           TooShort \/ Init_ \/ Other \/ Stat \/ RealPath \/ Read \/ ReadDir \/ WrongKind
           \/ Remove \/ Write \/ WriteDir
    PROVE  Tame
<1>1. ObjTyped
    BY DEF HandleInv
<1>2. req.op \in HandleOps => req.h.addr \in Addr /\ objects[req.h.addr] \in FileObjs \cup DirObjs
    BY ServedHandle
<1>3. CASE TooShort \/ Init_ \/ Other \/ Stat \/ RealPath \/ WrongKind \/ Remove
    BY <1>1, <1>3, TameNone DEF TooShort, Init_, Other, Stat, Simple, RealPath, WrongKind, Remove,
       NoFs, KeepHeld, fatfs
<1>4. CASE Read
  <2>1. req.h.addr \in Addr /\ objects[req.h.addr] \in FileObjs
    <3>1. req.op \in HandleOps /\ objects[req.h.addr].kind = "file"
        BY <1>4 DEF Read, NotA, HandleOps
    <3> QED BY <1>2, <3>1 DEF DirObjs
  <2>2. PICK a \in Addr : a = req.h.addr
      BY <2>1
  <2>3. PICK faulty : faulty = [objects[a] EXCEPT !.err = TRUE]
      OBVIOUS
  <2>4. /\ faulty \in FileObjs /\ faulty.name = objects[a].name /\ faulty.writes = objects[a].writes
      BY <2>1, <2>2, <2>3 DEF FileObjs
  <2>5. faulty \in Obj /\ Alike(objects[a], faulty)
      BY <2>1, <2>2, <2>4, KindsApart DEF Alike, Obj
  <2>6. objects' = objects \/ objects' = [objects EXCEPT ![a] = faulty]
      BY <1>4, <2>2, <2>3 DEF Read, NoFs, fatfs
  <2>7. held' = held /\ lost' = lost
      BY <1>4 DEF Read, KeepHeld
  <2> QED BY <1>1, <2>5, <2>6, <2>7, TameNone, TameOne
<1>5. CASE ReadDir
  <2>1. req.h.addr \in Addr /\ objects[req.h.addr] \in DirObjs
    <3>1. req.op \in HandleOps /\ objects[req.h.addr].kind = "dir"
        BY <1>5 DEF ReadDir, NotA, HandleOps
    <3> QED BY <1>2, <3>1 DEF FileObjs
  <2>2. PICK a \in Addr : a = req.h.addr
      BY <2>1
  <2>3. PICK o : o = [objects[a] EXCEPT !.done = TRUE]
      OBVIOUS
  <2>4. o \in DirObjs
      BY <2>1, <2>2, <2>3 DEF DirObjs
  <2>5. o \in Obj /\ Alike(objects[a], o)
      BY <2>1, <2>2, <2>4, KindsApart DEF Alike, Obj
  <2>6. objects' = [objects EXCEPT ![a] = o] /\ held' = held /\ lost' = lost
      BY <1>5, <2>2, <2>3 DEF ReadDir, KeepHeld
  <2> QED BY <1>1, <2>5, <2>6, TameOne
<1>6. CASE WriteDir
  <2>1. req.h.addr \in Addr /\ objects[req.h.addr] \in DirObjs
    <3>1. req.op \in HandleOps /\ objects[req.h.addr].kind # "file"
        BY <1>6 DEF WriteDir, NotA, HandleOps
    <3> QED BY <1>2, <3>1 DEF FileObjs
  <2>2. PICK a \in Addr : a = req.h.addr
      BY <2>1
  <2>3. PICK d \in BOOLEAN : objects' = [objects EXCEPT ![a].done = d]
      BY <1>6, <2>2 DEF WriteDir
  <2>4. PICK o : o = [objects[a] EXCEPT !.done = d]
      OBVIOUS
  <2>5. o \in DirObjs
      BY <2>1, <2>2, <2>4 DEF DirObjs
  <2>6. o \in Obj /\ Alike(objects[a], o)
      BY <2>1, <2>2, <2>5, KindsApart DEF Alike, Obj
  <2>7. objects' = [objects EXCEPT ![a] = o] /\ held' = held /\ lost' = lost
      BY <1>6, <2>3, <2>4 DEF WriteDir, KeepHeld
  <2> QED BY <1>1, <2>6, <2>7, TameOne
<1>7. CASE Write
  <2>1. req.op = "write" /\ objects[req.h.addr].kind = "file"
      BY <1>7 DEF Write, NotA
  <2>2. req.h.addr \in Addr /\ objects[req.h.addr] \in FileObjs
      BY <1>2, <2>1 DEF DirObjs, HandleOps
  <2>3. req.offs \in Nat
      BY <2>1, InRequest DEF Sound
  <2>4. Len(DataOf(got)) \in Nat
      BY <2>1, DataType, Sizes
  <2>5. PICK ok \in BOOLEAN : SeekWrite(req.h.addr, req.offs, DataOf(got), ok)
      BY <1>7 DEF Write
  <2>6. PICK a \in Addr : a = req.h.addr
      BY <2>2
  <2>7. PICK offs : offs = req.offs
      OBVIOUS
  <2>8. PICK data : data = DataOf(got)
      OBVIOUS
  <2>9. held' = held /\ lost' = lost
      BY <1>7 DEF Write, KeepHeld
  <2> QED BY <1>1, <2>2, <2>3, <2>4, <2>5, <2>6, <2>7, <2>8, <2>9, TameSeek
<1> QED BY <1>3, <1>4, <1>5, <1>6, <1>7

LEMMA TameContinue ==
    ASSUME DInv, Sent, WellFormed, Current, HandleInv, Resumes, ContinueByte
    PROVE  Tame
<1>1. ObjTyped /\ held' = held /\ lost' = lost
    BY DEF HandleInv, ContinueByte, ContinueWrite, KeepHeld
<1>2. CASE ~last_cmd_write \/ objects[last_fp].kind # "file"
    BY <1>1, <1>2, TameNone DEF ContinueByte, ContinueWrite, NoFs, fatfs
<1>3. CASE last_cmd_write /\ objects[last_fp].kind = "file"
  <2>1. /\ req.op = "write" /\ last_fp = req.h.addr /\ last_offs = req.offs + (Handled - HDR)
        /\ dpch_state = "REG" /\ Receive
      BY <1>3, Continuing
  <2>2. last_fp \in Addr /\ objects[last_fp] \in FileObjs /\ last_offs \in Nat
      BY <1>3, <2>1, Continuing, ServedHandle DEF HandleOps, DirObjs
  <2>3. Len(got) \in Nat
      BY <2>1, InPacket
  <2>4. PICK ok \in BOOLEAN : SeekWrite(last_fp, last_offs, got, ok)
      BY <1>3 DEF ContinueByte, ContinueWrite
  <2>5. PICK a \in Addr : a = last_fp
      BY <2>2
  <2>6. PICK offs : offs = last_offs
      OBVIOUS
  <2>7. PICK data : data = got
      OBVIOUS
  <2> QED BY <1>1, <2>2, <2>3, <2>4, <2>5, <2>6, <2>7, TameSeek
<1> QED BY <1>2, <1>3

(* A call takes the packet out of those not looked at; what is not a CLOSE  *)
(* leaves what is about to be closed.                                       *)
LEMMA CallPending ==
    ASSUME DInv, Sent, WellFormed, Current, NEW kind, Handed(kind), requests' = requests, first' = first
    PROVE  /\ Alive' \subseteq Alive
           /\ Closing' = Closing \ {pkt}
           /\ (kind = "continue" \/ req.op # "close") => Closing' = Closing
<1>1. /\ dpch_state = "REG" /\ calls' # <<>> /\ pkt' = pkt /\ (kind = "spkt" <=> calls = <<>>)
    BY CallKinds
<1>2. pkt \in Nat /\ pkt \in Alive
    BY <1>1, InRequest DEF Alive
<1>3. Pending' = Pending \ {pkt}
    BY <1>1, <1>2, PendingTypes DEF Pending
<1>4. Alive' \subseteq Alive
    BY <1>1, <1>2, <1>3 DEF Alive
<1>5. Closing' = Closing \ {pkt}
    BY <1>3 DEF Closing
<1>6. (kind = "continue" \/ req.op # "close") => pkt \notin Closing
    BY <1>1, <1>2 DEF Closing, Pending, req
<1> QED BY <1>4, <1>5, <1>6

LEMMA HandlesTame ==
    ASSUME Sent, WellFormed, Current, HandleInv, Tame, requests' = requests,
           Closing' = Closing, Alive' \subseteq Alive
    PROVE  HandleInv'
<1>1. held \subseteq Handles /\ \A k \in Closing : requests[k].h.addr \in Addr
    BY PendingTypes DEF WellFormed
<1> QED BY <1>1, HandlesKept DEF Tame

(* malloc gives an address nobody has a handle of.                          *)
LEMMA HandlesGrow ==
    ASSUME Sent, WellFormed, Current, HandleInv, NEW o \in FileObjs \cup DirObjs, Allocate(o),
           requests' = requests, lost' = lost, Closing' = Closing, Alive' \subseteq Alive
    PROVE  HandleInv'
<1>1. PICK a \in Addr : /\ objects[a] = Free /\ objects' = [objects EXCEPT ![a] = o]
                        /\ held' = held \cup {[addr |-> a, dir |-> o.kind = "dir"]}
    BY DEF Allocate, FreeAddr
<1>2. PICK h : h = [addr |-> a, dir |-> o.kind = "dir"]
    OBVIOUS
<1>3. h.addr = a /\ held' = held \cup {h}
    BY <1>1, <1>2
<1>4. /\ objects' \in [Addr -> Obj] /\ objects'[a] = o /\ o # Free
      /\ \A b \in Addr : b # a => objects'[b] = objects[b]
    BY <1>1, KindsApart DEF HandleInv, ObjTyped, Obj
<1>5. a \notin OpenAddr /\ a \notin lost
    BY <1>1 DEF HandleInv, HandlesLive
<1>6. OpenAddr \subseteq Addr
    BY DEF HandleInv, HandlesLive
<1>7. /\ \A g \in held : g.addr \in OpenAddr
      /\ \A k \in Closing : requests[k].h.addr \in OpenAddr
    BY IsOpen
<1>8. \A b \in OpenAddr : Handle(b)' = Handle(b)
    BY <1>4, <1>5, <1>6 DEF Handle
<1>9. Handle(a)' = h
    BY <1>2, <1>4 DEF Handle
<1>10. OpenAddr' = OpenAddr \cup {a}
  <2>1. \A b : b \in OpenAddr' <=>
          (\E g \in held' : g.addr = b) \/ (\E k \in Closing' : requests'[k].h.addr = b)
      BY DEF OpenAddr, Closing
  <2>2. \A b : b \in OpenAddr' <=> b \in OpenAddr \/ b = a
      BY <1>3, <2>1, IsOpen
  <2> QED BY <2>2
<1>11. HandlesLive'
  <2>1. {b \in Addr : objects'[b] # Free} = {b \in Addr : objects[b] # Free} \cup {a}
      BY <1>4
  <2>2. {b \in Addr : objects'[b] # Free} = OpenAddr' \cup lost'
      BY <1>10, <2>1 DEF HandleInv, HandlesLive
  <2>3. OpenAddr' \cap lost' = {}
      BY <1>5, <1>10 DEF HandleInv, HandlesLive
  <2>4. \A g \in held' : g = Handle(g.addr)'
      BY <1>3, <1>7, <1>8, <1>9 DEF HandleInv, HandlesLive
  <2> QED BY <2>2, <2>3, <2>4 DEF HandlesLive
<1>12. Genuine'
    BY <1>7, <1>8 DEF HandleInv, Genuine
<1>13. ClosedOnce'
    BY <1>3, <1>5, <1>7 DEF HandleInv, ClosedOnce
<1>14. Backed'
    BY <1>3 DEF HandleInv, Backed
<1>15. ObjTyped'
    BY <1>4 DEF HandleInv, ObjTyped
<1> QED BY <1>11, <1>12, <1>13, <1>14, <1>15 DEF HandleInv

(* A CLOSE: the object is freed, or lost if f_close refuses it.              *)
LEMMA HandlesGone ==
    ASSUME DInv, Sent, WellFormed, Current, HandleInv, SpktByte, Close,
           requests' = requests, first' = first
    PROVE  HandleInv'
<1>1. /\ dpch_state = "REG" /\ calls' # <<>> /\ calls = <<>> /\ UNCHANGED <<pkt, plen>>
      /\ dpch_state' \in {"REG", "LEN"} /\ req.op = "close" /\ held' = held
    BY CallKinds DEF SpktByte, Close
<1>2. pkt \in 1..Len(requests) /\ pkt \in Nat /\ pkt > first /\ first \in Nat /\ Sound(req) /\ plen = req.len
    BY <1>1, InRequest
<1>3. pkt \in Closing
    BY <1>1, <1>2, PendingTypes DEF Closing, Pending, req
<1>4. dpch_state' = "LEN"
  <2>1. plen <= CHUNK
      BY <1>1, <1>2 DEF Sound
  <2>2. dpch_state' = "REG" => Handled = 0 /\ CHUNK < plen
    <3>1. ASSUME dpch_state' = "REG"
          PROVE  Handled = 0 /\ count < plen /\ count = Handled + CHUNK
        BY <1>1, <3>1, ChunkHanded DEF SpktByte
    <3> QED BY <3>1, Sizes
  <2>3. plen \in Nat /\ CHUNK \in Nat
      BY Sizes DEF DInv, DTypeOK
  <2> QED BY <1>1, <2>1, <2>2, <2>3
<1>5. Closing' = Closing \ {pkt}
    BY <1>1, CallPending DEF SpktByte
<1>6. \A k \in Alive' : k \in Alive /\ k \in Nat /\ k > pkt
    BY <1>1, <1>2, <1>4, PendingTypes DEF Alive, Pending
<1>7. PICK a : a = req.h.addr
    OBVIOUS
<1>8. /\ a \in Addr /\ a \in OpenAddr /\ a \notin lost /\ requests[pkt].h.addr = a
    BY <1>1, <1>7, ServedHandle DEF HandleOps, HandleInv, HandlesLive, req
<1>9. /\ \A k \in Closing' : k \in Closing /\ requests[k].h.addr # a /\ requests[k].h.addr \in OpenAddr
      /\ \A h \in held : h.addr # a /\ h.addr \in OpenAddr
    BY <1>3, <1>5, <1>8, IsOpen DEF HandleInv, ClosedOnce
<1>10. OpenAddr' = OpenAddr \ {a}
  <2>1. \A b : b \in OpenAddr' <=>
          (\E g \in held : g.addr = b) \/ (\E k \in Closing' : requests[k].h.addr = b)
      BY <1>1 DEF OpenAddr, Closing
  <2>2. \A b : b \in OpenAddr' <=> b \in OpenAddr /\ b # a
      BY <1>5, <1>8, <1>9, <2>1, IsOpen
  <2> QED BY <2>2
<1>11. ClosedOnce'
    BY <1>1, <1>9 DEF HandleInv, ClosedOnce
<1>12. Backed'
  <2> SUFFICES ASSUME NEW k \in Alive', requests[k].op \in HandleOps
               PROVE  requests[k].h \in held \/ \E j \in Closing' : j >= k /\ requests[j].h = requests[k].h
      BY <1>1 DEF Backed
  <2>1. k \in Alive /\ k \in Nat /\ k > pkt
      BY <1>6
  <2>2. CASE requests[k].h \in held
      BY <2>2
  <2>3. CASE \E j \in Closing : j >= k /\ requests[j].h = requests[k].h
    <3>1. PICK j \in Closing : j >= k /\ requests[j].h = requests[k].h
        BY <2>3
    <3>2. j # pkt
        BY <1>2, <2>1, <3>1
    <3> QED BY <1>5, <3>1, <3>2
  <2> QED BY <2>1, <2>2, <2>3 DEF HandleInv, Backed
<1>13. CASE objects' = ClosedAddr(a) /\ lost' = lost
  <2>1. objects' \in [Addr -> Obj] /\ \A b \in Addr : objects'[b] = IF b = a THEN Free ELSE objects[b]
      BY <1>8, <1>13 DEF HandleInv, ObjTyped, Obj, ClosedAddr
  <2>2. {b \in Addr : objects'[b] # Free} = {b \in Addr : objects[b] # Free} \ {a}
      BY <2>1
  <2>3. {b \in Addr : objects'[b] # Free} = OpenAddr' \cup lost' /\ OpenAddr' \cap lost' = {}
      BY <1>8, <1>10, <1>13, <2>2 DEF HandleInv, HandlesLive
  <2>4. OpenAddr \subseteq Addr
      BY DEF HandleInv, HandlesLive
  <2>5. \A b \in OpenAddr : b # a => Handle(b)' = Handle(b)
      BY <2>1, <2>4 DEF Handle
  <2>6. HandlesLive' /\ Genuine'
      BY <1>1, <1>9, <2>3, <2>5 DEF HandleInv, HandlesLive, Genuine
  <2> QED BY <1>11, <1>12, <1>13, <2>1, <2>6 DEF HandleInv, ObjTyped
<1>14. CASE objects' = objects /\ lost' = lost \cup {a}
  <2>1. OpenAddr' \cup lost' = OpenAddr \cup lost /\ OpenAddr' \cap lost' = {}
      BY <1>8, <1>10, <1>14 DEF HandleInv, HandlesLive
  <2>2. \A b : Handle(b)' = Handle(b)
      BY <1>14 DEF Handle
  <2>3. HandlesLive' /\ Genuine'
      BY <1>1, <1>9, <1>14, <2>1, <2>2 DEF HandleInv, HandlesLive, Genuine
  <2>4. ObjTyped'
      BY <1>8, <1>14 DEF HandleInv, ObjTyped
  <2> QED BY <1>11, <1>12, <2>3, <2>4 DEF HandleInv
<1> QED BY <1>7, <1>13, <1>14 DEF Close

LEMMA HandlesSpkt ==
    ASSUME DInv, Sent, WellFormed, Current, HandleInv, SpktByte, requests' = requests, first' = first
    PROVE  HandleInv'
<1>1. dpch_state = "REG" /\ Receive /\ calls = <<>> /\ Handed("spkt")
    BY CallKinds DEF SpktByte
<1>2. Sound(req) /\ ObjTyped
    BY <1>1, InRequest DEF HandleInv
<1>3. CASE Close
    BY <1>3, HandlesGone
<1>4. ASSUME ~Close PROVE Closing' = Closing /\ Alive' \subseteq Alive
  <2>1. req.op # "close"
      BY <1>4 DEF SpktByte, Spkt, TooShort, Init_, Other, Stat, Simple, RealPath, Open, OpenDir,
         Read, ReadDir, WrongKind, NotA, Remove, Write, WriteDir
  <2> QED BY <1>1, <2>1, CallPending
<1>5. CASE Open /\ ~Close
  <2>1. req.op = "open" /\ lost' = lost
      BY <1>5 DEF Open
  <2>2. PICK o : o = FilObj(req.name, req.writes)
      OBVIOUS
  <2>3. o \in FileObjs \cup DirObjs
      BY <1>2, <2>1, <2>2 DEF Sound, NameOps, FilObj, FileObjs
  <2>4. Allocate(o) \/ (objects' = objects /\ held' = held)
      BY <1>5, <2>2 DEF Open, NoFs, fatfs
  <2> QED BY <1>2, <1>4, <1>5, <2>1, <2>3, <2>4, HandlesGrow, HandlesTame, TameNone
<1>6. CASE OpenDir /\ ~Close
  <2>1. lost' = lost
      BY <1>6 DEF OpenDir
  <2>2. PICK o : o = DirObj
      OBVIOUS
  <2>3. o \in FileObjs \cup DirObjs
      BY <2>2 DEF DirObj, DirObjs
  <2>4. Allocate(o) \/ (objects' = objects /\ held' = held)
      BY <1>6, <2>2 DEF OpenDir, NoFs, fatfs
  <2> QED BY <1>2, <1>4, <1>6, <2>1, <2>3, <2>4, HandlesGrow, HandlesTame, TameNone
<1>7. CASE ~Close /\ (TooShort \/ Init_ \/ Other \/ Stat \/ RealPath \/ Read \/ ReadDir \/ WrongKind
                      \/ Remove \/ Write \/ WriteDir)
  <2>1. req.op = "write" => Len(got) >= HDR
      BY <1>1, HeaderIn
  <2>2. Tame
      BY <1>1, <1>7, <2>1, TameSpkt
  <2> QED BY <1>4, <1>7, <2>2, HandlesTame
<1> QED BY <1>3, <1>5, <1>6, <1>7 DEF SpktByte, Spkt

LEMMA HandlesStep ==
    ASSUME DInv, Sent, WellFormed, Current, Resumes, HandleInv, [Next]_vars PROVE HandleInv'
<1>0. ObjTyped /\ first \in Nat /\ pkt \in Nat /\ Len(requests) \in Nat
    BY PendingTypes DEF HandleInv
<1>1. CASE ClientSends
    BY <1>1, HandlesSend
<1>2. CASE StreamNext
  <2>1. /\ pos = LENLEN + plen /\ pkt < Len(requests) /\ pkt' = pkt + 1 /\ calls' = <<>>
        /\ dpch_state' = dpch_state /\ UNCHANGED <<requests, first, held, objects, lost>>
      BY <1>2 DEF StreamNext, NextPacket, client, fatfs, history
  <2>2. dpch_state # "REG"
      BY <2>1 DEF DInv, DTypeOK, Aligned, LENLEN
  <2>3. Pending' = Pending \ {pkt}
      BY <1>0, <2>1, PendingTypes DEF Pending
  <2>4. pkt \in Pending => req.op = "short"
      BY <1>0, <2>1, FullyCalled DEF Pending
  <2>5. Closing' = Closing /\ Alive' \subseteq Alive
      BY <2>1, <2>2, <2>3, <2>4 DEF Closing, Alive, req
  <2> QED BY <1>0, <2>1, <2>5, TameNone, HandlesTame
<1>3. CASE LengthBytes
  <2>1. /\ calls = <<>> /\ UNCHANGED <<pkt, plen, calls, requests, first, held, objects, lost>>
        /\ dpch_state = "LEN" /\ pos < LENLEN + plen
      BY <1>3, LengthFirst DEF LengthBytes, client, fatfs, history
  <2>2. pkt \in Pending
    <3>1. pkt # first
        BY <2>1 DEF Current, LENLEN
    <3> QED BY <1>0, <2>1, <3>1 DEF Pending, Current
  <2>3. Closing' = Closing /\ Alive' \subseteq Alive
      BY <2>1, <2>2 DEF Closing, Pending, Alive
  <2> QED BY <1>0, <2>1, <2>3, TameNone, HandlesTame
<1>4. CASE CollectByte \/ CloseMessage \/ UNCHANGED vars
  <2>1. UNCHANGED <<pkt, calls, dpch_state, requests, first, held, objects, lost>>
      BY <1>4 DEF CollectByte, Collect, Receive, CloseMessage, vars, dvars, stream, dispatch, client, fatfs, history
  <2>2. Closing' = Closing /\ Alive' = Alive
      BY <2>1 DEF Closing, Pending, Alive
  <2> QED BY <1>0, <2>1, <2>2, TameNone, HandlesTame
<1>5. CASE CallByte
  <2>1. requests' = requests /\ first' = first
      BY <1>5 DEF CallByte
  <2>2. CASE SpktByte
      BY <2>1, <2>2, HandlesSpkt
  <2>3. CASE ContinueByte
    <3>1. Closing' = Closing /\ Alive' \subseteq Alive
        BY <2>1, <2>3, CallPending DEF ContinueByte
    <3> QED BY <2>1, <2>3, <3>1, TameContinue, HandlesTame
  <2> QED BY <1>5, <2>2, <2>3 DEF CallByte
<1>6. CASE EndSession
  <2>1. /\ lost' = lost \cup OpenAddr /\ held' = {} /\ objects' = objects
        /\ first' = Len(requests) /\ requests' = requests /\ dpch_state' = "LEN"
      BY <1>6 DEF EndSession, NewSession, Reset, fatfs
  <2>2. Pending' = {}
      BY <1>0, <2>1 DEF Pending
  <2>3. Closing' = {} /\ Alive' = {}
      BY <2>1, <2>2 DEF Closing, Alive
  <2>4. OpenAddr' = {}
      BY <2>1, <2>2 DEF OpenAddr
  <2>5. OpenAddr \subseteq Addr
      BY DEF HandleInv, HandlesLive
  <2>6. HandlesLive'
      BY <2>1, <2>4 DEF HandleInv, HandlesLive
  <2> QED BY <2>1, <2>3, <2>5, <2>6 DEF HandleInv, ObjTyped, Genuine, ClosedOnce, Backed
<1> QED BY <1>1, <1>2, <1>3, <1>4, <1>5, <1>6 DEF Next

-----------------------------------------------------------------------------
(* The answers.  A request is owed one from the call that looks at it.      *)
What == {"version", "unsupported", "failure", "attrs", "name", "handle", "ok", "data", "eof", "no_such_file"}
Reps == [id : Nat, what : What]
ReplyInv == replies \in Seq(Reps) /\ OneReply

LEMMA ReplyInit == ASSUME Init PROVE ReplyInv
<1>1. pkt = 0 /\ calls = <<>> /\ first = 0 /\ replies = <<>>
    BY DEF Init, DInit
<1>2. Dispatched = 0 - 1 /\ Owed = {}
    BY <1>1 DEF Dispatched, Owed
<1> QED BY <1>1, <1>2 DEF ReplyInv, OneReply

(* What a command answers.                                                  *)
One == \E w \in What : replies' = Append(replies, [id |-> pkt, what |-> w])

LEMMA CommandAnswers ==
    ASSUME Spkt
    PROVE  \/ req.op = "short" /\ replies' = replies
           \/ req.op = "realpath" /\ replies' = replies
           \/ req.op # "short" /\ One
           \/ WriteDir
<1>1. ASSUME NEW w \in What, Reply(w) PROVE One
    BY <1>1 DEF Reply, One
<1> USE <1>1 DEF What
<1>2. CASE TooShort
    BY <1>2 DEF TooShort
<1>3. CASE Init_ \/ Other
    BY <1>3 DEF Init_, Other, Simple
<1>4. CASE Stat
    BY <1>4 DEF Stat, Simple
<1>5. CASE RealPath
    BY <1>5 DEF RealPath, Simple
<1>6. CASE Open
    BY <1>6 DEF Open
<1>7. CASE OpenDir
    BY <1>7 DEF OpenDir
<1>8. CASE Close
    BY <1>8 DEF Close
<1>9. CASE Read
    BY <1>9 DEF Read
<1>10. CASE ReadDir
    BY <1>10 DEF ReadDir
<1>11. CASE WrongKind
    BY <1>11 DEF WrongKind, NotA
<1>12. CASE Remove
    BY <1>12 DEF Remove
<1>13. CASE Write
    BY <1>13 DEF Write
<1> QED BY <1>2, <1>3, <1>4, <1>5, <1>6, <1>7, <1>8, <1>9, <1>10, <1>11, <1>12, <1>13 DEF Spkt

(* So much for each request: one answer, or for those not settled up to two. *)
Added(n) ==
    /\ replies' \in Seq(Reps) /\ Len(replies') = Len(replies) + n
    /\ \A i \in 1..Len(replies) : replies'[i] = replies[i]
    /\ \A i \in (Len(replies) + 1)..Len(replies') : replies'[i].id = pkt

LEMMA AnswersAdded ==
    ASSUME DInv, Sent, WellFormed, Current, HandleInv, SpktByte, replies \in Seq(Reps)
    PROVE  \E n \in 0..2 : /\ Added(n) /\ (req.op = "short" => n = 0)
                           /\ (req.op # "short" /\ Settled(pkt)) => n = 1
<1>1. dpch_state = "REG" /\ pkt \in Nat /\ Len(replies) \in Nat
    BY CallKinds, InRequest DEF SpktByte
<1>2. CASE replies' = replies /\ req.op \in {"short", "realpath"}
  <2>1. Added(0)
      BY <1>1, <1>2 DEF Added
  <2>2. req.op # "short" => ~Settled(pkt)
      BY <1>2 DEF Settled, req
  <2> QED BY <2>1, <2>2
<1>3. CASE req.op # "short" /\ One
  <2>1. PICK r \in Reps : r.id = pkt /\ replies' = Append(replies, r)
      BY <1>1, <1>3 DEF One, Reps
  <2>2. Added(1)
      BY <1>1, <2>1 DEF Added
  <2> QED BY <1>3, <2>2
<1>4. CASE WriteDir
  <2>1. req.op = "write" /\ objects[req.h.addr].kind # "file"
      BY <1>4 DEF WriteDir, NotA
  <2>2. req.h.dir
      BY <1>1, <2>1, ServedHandle DEF HandleOps, FileObjs, DirObjs
  <2>3. ~Settled(pkt)
      BY <2>1, <2>2 DEF Settled, req
  <2>4. PICK r \in Reps, s \in Reps : r.id = pkt /\ s.id = pkt /\ replies' = replies \o <<r, s>>
      BY <1>1, <1>4 DEF WriteDir, Reps, What
  <2>5. Added(2)
      BY <1>1, <2>4 DEF Added
  <2> QED BY <2>1, <2>3, <2>5
<1> QED BY <1>2, <1>3, <1>4, CommandAnswers DEF SpktByte

LEMMA ReplyCommand ==
    ASSUME DInv, Sent, WellFormed, Current, HandleInv, ReplyInv, SpktByte,
           requests' = requests, first' = first
    PROVE  ReplyInv'
<1>1. /\ dpch_state = "REG" /\ calls' # <<>> /\ calls = <<>> /\ pkt' = pkt
    BY CallKinds DEF SpktByte
<1>2. pkt \in Nat /\ first \in Nat /\ pkt > first
    BY <1>1, InRequest
<1>3. \A k : Settled(k)' <=> Settled(k)
    BY DEF Settled
<1>4. Dispatched = pkt - 1 /\ Dispatched' = pkt
    BY <1>1 DEF Dispatched
<1>5. \A k : k \in (first + 1)..pkt <=> k \in (first + 1)..(pkt - 1) \/ k = pkt
    BY <1>2
<1>6. Owed' = Owed \cup (IF req.op = "short" THEN {} ELSE {pkt})
    BY <1>4, <1>5 DEF Owed, req
<1>7. \A k \in Owed : k \in Nat /\ k < pkt
    BY <1>2, <1>4 DEF Owed
<1>8. PICK n \in 0..2 : /\ Added(n) /\ (req.op = "short" => n = 0)
                        /\ (req.op # "short" /\ Settled(pkt)) => n = 1
    BY AnswersAdded DEF ReplyInv
<1>9. replies \in Seq(Reps) /\ Len(replies) \in Nat
    BY DEF ReplyInv
<1>10. \A i \in 1..Len(replies') : i \in 1..Len(replies) \/ i \in (Len(replies) + 1)..Len(replies')
    BY <1>9
<1>11. \A i \in 1..Len(replies) : replies'[i].id = replies[i].id /\ replies[i].id \in Owed
    BY <1>8 DEF Added, ReplyInv, OneReply
<1>12. \A i \in (Len(replies) + 1)..Len(replies') : replies'[i].id = pkt /\ req.op # "short"
    BY <1>8, <1>9 DEF Added
<1>13. \A i \in 1..Len(replies') : replies'[i].id \in Owed'
    BY <1>6, <1>10, <1>11, <1>12
<1>14. \A i, j \in 1..Len(replies') : i < j =>
          \/ replies'[i].id < replies'[j].id
          \/ replies'[i].id = replies'[j].id /\ ~Settled(replies'[i].id)
  <2> SUFFICES ASSUME NEW i \in 1..Len(replies'), NEW j \in 1..Len(replies'), i < j
               PROVE  \/ replies'[i].id < replies'[j].id
                      \/ replies'[i].id = replies'[j].id /\ ~Settled(replies'[i].id)
      OBVIOUS
  <2>1. CASE j \in 1..Len(replies)
    <3>1. i \in 1..Len(replies)
        BY <1>9, <2>1
    <3> QED BY <1>11, <2>1, <3>1 DEF ReplyInv, OneReply
  <2>2. CASE i \in 1..Len(replies) /\ j \in (Len(replies) + 1)..Len(replies')
      BY <1>2, <1>7, <1>11, <1>12, <2>2
  <2>3. CASE i \in (Len(replies) + 1)..Len(replies') /\ j \in (Len(replies) + 1)..Len(replies')
    <3>1. replies'[i].id = pkt /\ replies'[j].id = pkt /\ req.op # "short"
        BY <1>12, <2>3
    <3>2. n # 1
        BY <1>8, <1>9, <2>3 DEF Added
    <3> QED BY <1>8, <3>1, <3>2
  <2> QED BY <1>10, <2>1, <2>2, <2>3
<1>15. \A k \in Owed' : Settled(k) => \E i \in 1..Len(replies') : replies'[i].id = k
  <2> SUFFICES ASSUME NEW k \in Owed', Settled(k) PROVE \E i \in 1..Len(replies') : replies'[i].id = k
      OBVIOUS
  <2>1. CASE k \in Owed
    <3>1. PICK i \in 1..Len(replies) : replies[i].id = k
        BY <2>1 DEF ReplyInv, OneReply
    <3>2. i \in 1..Len(replies')
        BY <1>8, <1>9 DEF Added
    <3> QED BY <1>11, <3>1, <3>2
  <2>2. CASE k = pkt /\ req.op # "short"
    <3>1. n = 1
        BY <1>8, <2>2
    <3>2. Len(replies) + 1 \in (Len(replies) + 1)..Len(replies') /\ Len(replies) + 1 \in 1..Len(replies')
        BY <1>8, <1>9, <3>1 DEF Added
    <3> QED BY <1>12, <2>2, <3>2
  <2> QED BY <1>6, <2>1, <2>2
<1>16. replies' \in Seq(Reps)
    BY <1>8 DEF Added
<1> QED BY <1>3, <1>13, <1>14, <1>15, <1>16 DEF ReplyInv, OneReply

(* A step that looks at no request.                                         *)
LEMMA ReplySame ==
    ASSUME ReplyInv, replies' = replies, Owed' = Owed, \A k \in Owed : requests'[k] = requests[k]
    PROVE  ReplyInv'
<1>1. \A k \in Owed : Settled(k)' <=> Settled(k)
    BY DEF Settled
<1> QED BY <1>1 DEF ReplyInv, OneReply

LEMMA ReplyStep ==
    ASSUME DInv, Sent, WellFormed, Current, HandleInv, ReplyInv, [Next]_vars PROVE ReplyInv'
<1>0. first \in Nat /\ pkt \in Nat /\ Len(requests) \in Nat /\ pkt <= Len(requests) /\ first <= pkt
    BY PendingTypes DEF Current
<1>1. CASE ClientSends
  <2>1. UNCHANGED <<pkt, calls, first, replies>> /\ \A k \in 1..Len(requests) : requests'[k] = requests[k]
      BY <1>1, Sending DEF dvars, stream, dispatch, history
  <2>2. Dispatched' = Dispatched /\ \A k \in (first + 1)..Dispatched : k \in 1..Len(requests)
      BY <1>0, <2>1 DEF Dispatched
  <2>3. Owed' = Owed /\ \A k \in Owed : requests'[k] = requests[k]
      BY <2>1, <2>2 DEF Owed
  <2> QED BY <2>1, <2>3, ReplySame
<1>2. CASE StreamNext
  <2>1. /\ pos = LENLEN + plen /\ pkt' = pkt + 1 /\ calls' = <<>>
        /\ UNCHANGED <<requests, first, replies>>
      BY <1>2 DEF StreamNext, NextPacket, client, history
  <2>2. Dispatched' = pkt
      BY <1>0, <2>1 DEF Dispatched
  <2>3. CASE calls # <<>>
      BY <2>1, <2>2, <2>3, ReplySame DEF Dispatched, Owed
  <2>4. CASE calls = <<>>
    <3>1. pkt > first => req.op = "short"
        BY <2>1, <2>4, FullyCalled
    <3>2. Dispatched = pkt - 1 /\ \A k : k \in (first + 1)..pkt <=> k \in (first + 1)..(pkt - 1) \/ (k = pkt /\ pkt > first)
        BY <1>0, <2>4 DEF Dispatched
    <3>3. Owed' = Owed
        BY <2>1, <2>2, <3>1, <3>2 DEF Owed, req
    <3> QED BY <2>1, <3>3, ReplySame
  <2> QED BY <2>3, <2>4
<1>3. CASE LengthBytes \/ CollectByte \/ CloseMessage \/ UNCHANGED vars
  <2>1. UNCHANGED <<pkt, calls, requests, first, replies>>
      BY <1>3 DEF LengthBytes, LengthByte, LengthDone, CollectByte, Collect, Receive, CloseMessage, vars,
         dvars, stream, dispatch, client, history
  <2>2. Owed' = Owed
      BY <2>1 DEF Owed, Dispatched
  <2> QED BY <2>1, <2>2, ReplySame
<1>4. CASE CallByte
  <2>1. requests' = requests /\ first' = first
      BY <1>4 DEF CallByte
  <2>2. CASE ContinueByte
    <3>1. calls # <<>> /\ calls' # <<>> /\ pkt' = pkt /\ replies' = replies
        BY <2>2, CallKinds DEF ContinueByte, ContinueWrite
    <3>2. Owed' = Owed
        BY <2>1, <3>1 DEF Owed, Dispatched
    <3> QED BY <2>1, <3>1, <3>2, ReplySame
  <2> QED BY <1>4, <2>1, <2>2, ReplyCommand DEF CallByte
<1>5. CASE EndSession
  <2>1. replies' = <<>> /\ first' = Len(requests) /\ pkt' = Len(requests) /\ calls' = <<>>
      BY <1>5 DEF EndSession, StreamRestarts
  <2>2. Dispatched' = Len(requests) - 1
      BY <2>1 DEF Dispatched
  <2>3. Owed' = {}
      BY <1>0, <2>1, <2>2 DEF Owed
  <2> QED BY <2>1, <2>3 DEF ReplyInv, OneReply
<1> QED BY <1>1, <1>2, <1>3, <1>4, <1>5 DEF Next

-----------------------------------------------------------------------------
(* Writing to a file.                                                       *)
LEMMA WriteAtIs ==
    ASSUME NEW s \in Seq(Cell), NEW o \in Nat, NEW d \in Seq(Cell)
    PROVE  /\ WriteAt(s, o, d) \in Seq(Cell)
           /\ Len(WriteAt(s, o, d)) = IF o + Len(d) > Len(s) THEN o + Len(d) ELSE Len(s)
           /\ \A i \in 1..Len(WriteAt(s, o, d)) : WriteAt(s, o, d)[i] =
                 IF o < i /\ i <= o + Len(d) THEN d[i - o] ELSE IF i <= Len(s) THEN s[i] ELSE "gap"
<1>1. Len(s) \in Nat /\ Len(d) \in Nat
    OBVIOUS
<1>2. PICK n : n = IF o + Len(d) > Len(s) THEN o + Len(d) ELSE Len(s)
    OBVIOUS
<1>3. n \in Nat /\ n >= Len(s) /\ n >= o + Len(d)
    BY <1>1, <1>2
<1>4. PICK e : e = [i \in 1..n |-> IF i <= Len(s) THEN s[i] ELSE "gap"]
    OBVIOUS
<1>5. Extended(s, o + Len(d)) = e
    BY <1>2, <1>4 DEF Extended
<1>6. DOMAIN e = 1..n /\ \A i \in 1..n : e[i] = IF i <= Len(s) THEN s[i] ELSE "gap"
    BY <1>4
<1>7. PICK w : w = [i \in 1..n |-> IF i \in (o + 1)..(o + Len(d)) THEN d[i - o] ELSE e[i]]
    OBVIOUS
<1>8. WriteAt(s, o, d) = w
    BY <1>5, <1>6, <1>7 DEF WriteAt
<1>9. \A i \in 1..n : w[i] = IF o < i /\ i <= o + Len(d) THEN d[i - o] ELSE IF i <= Len(s) THEN s[i] ELSE "gap"
    BY <1>1, <1>3, <1>6, <1>7
<1>10. \A i \in 1..n : w[i] \in Cell
  <2> SUFFICES ASSUME NEW i \in 1..n PROVE w[i] \in Cell
      OBVIOUS
  <2>1. CASE o < i /\ i <= o + Len(d)
    <3>1. i - o \in 1..Len(d)
        BY <1>1, <1>3, <2>1
    <3> QED BY <1>9, <2>1, <3>1
  <2>2. CASE ~(o < i /\ i <= o + Len(d)) /\ i <= Len(s)
    <3>1. i \in 1..Len(s)
        BY <1>1, <1>3, <2>2
    <3> QED BY <1>9, <2>2, <3>1
  <2>3. CASE ~(o < i /\ i <= o + Len(d)) /\ ~(i <= Len(s))
      BY <1>9, <2>3 DEF Cell
  <2> QED BY <2>1, <2>2, <2>3
<1>11. w \in Seq(Cell) /\ Len(w) = n
    BY <1>3, <1>7, <1>10
<1> QED BY <1>2, <1>8, <1>9, <1>11

(* What a file w is that had been s before d was written at o up to n.     *)
Laid(w, s, o, d, n) ==
    /\ w \in Seq(Cell) /\ Len(w) = IF n > Len(s) THEN n ELSE Len(s)
    /\ \A i \in 1..Len(w) : w[i] =
          IF o < i /\ i <= n THEN d[i - o] ELSE IF i <= Len(s) THEN s[i] ELSE "gap"

LEMMA WriteAtEnd ==
    ASSUME NEW s \in Seq(Cell), NEW o \in Nat, NEW d \in Seq(Cell), NEW n \in Nat, n = o + Len(d),
           NEW w, w = WriteAt(s, o, d)
    PROVE  Laid(w, s, o, d, n)
BY WriteAtIs DEF Laid

(* The bytes of a packet written in pieces are in the file as if written at *)
(* once.                                                                    *)
LEMMA WriteAtTwice ==
    ASSUME NEW s \in Seq(Cell), NEW o \in Nat, NEW a \in Nat, NEW b \in Nat, NEW c \in Nat,
           a <= b, b <= c, pkt \in Nat
    PROVE  WriteAt(WriteAt(s, o, Cells(a, b)), o + (b - a), Cells(b, c)) = WriteAt(s, o, Cells(a, c))
<1>1. PICK d : d = Cells(a, b)
    OBVIOUS
<1>2. PICK e : e = Cells(b, c)
    OBVIOUS
<1>3. PICK g : g = Cells(a, c)
    OBVIOUS
<1>4. Nat \X Nat \subseteq Cell
    BY DEF Cell
<1>5. /\ d \in Seq(Cell) /\ Len(d) = b - a /\ \A i \in 1..(b - a) : d[i] = <<pkt, a + i>>
      /\ e \in Seq(Cell) /\ Len(e) = c - b /\ \A i \in 1..(c - b) : e[i] = <<pkt, b + i>>
      /\ g \in Seq(Cell) /\ Len(g) = c - a /\ \A i \in 1..(c - a) : g[i] = <<pkt, a + i>>
  <2>1. a <= c
      OBVIOUS
  <2>2. /\ d \in Seq(Nat \X Nat) /\ Len(d) = b - a /\ \A i \in 1..(b - a) : d[i] = <<pkt, a + i>>
      BY <1>1, CellsType
  <2>3. /\ e \in Seq(Nat \X Nat) /\ Len(e) = c - b /\ \A i \in 1..(c - b) : e[i] = <<pkt, b + i>>
      BY <1>2, CellsType
  <2>4. /\ g \in Seq(Nat \X Nat) /\ Len(g) = c - a /\ \A i \in 1..(c - a) : g[i] = <<pkt, a + i>>
      BY <1>3, <2>1, CellsType
  <2> QED BY <1>4, <2>2, <2>3, <2>4, SeqMonotonic
<1>6. PICK t : t = WriteAt(s, o, d)
    OBVIOUS
<1>7. PICK p : p = o + (b - a)
    OBVIOUS
<1>8. p \in Nat /\ p + (c - b) = o + (c - a) /\ p >= o
    BY <1>7
<1>9. PICK u : u = WriteAt(t, p, e)
    OBVIOUS
<1>10. PICK v : v = WriteAt(s, o, g)
    OBVIOUS
<1>11. PICK q : q = o + (c - a)
    OBVIOUS
<1>12. q \in Nat /\ p = o + Len(d) /\ q = p + Len(e) /\ q = o + Len(g) /\ q >= p
    BY <1>5, <1>7, <1>8, <1>11
<1>13. Laid(t, s, o, d, p) /\ t \in Seq(Cell)
  <2>1. Laid(t, s, o, d, p)
      BY <1>5, <1>6, <1>8, <1>12, WriteAtEnd
  <2> QED BY <2>1 DEF Laid
<1>14. Laid(u, t, p, e, q)
    BY <1>5, <1>8, <1>9, <1>12, <1>13, WriteAtEnd
<1>15. Laid(v, s, o, g, q)
    BY <1>5, <1>10, <1>12, WriteAtEnd
<1>16. Len(s) \in Nat /\ Len(u) = Len(v) /\ Len(u) \in Nat /\ Len(t) \in Nat
    BY <1>8, <1>12, <1>13, <1>14, <1>15 DEF Laid
<1>17. \A i \in 1..Len(u) : u[i] = v[i]
  <2> SUFFICES ASSUME NEW i \in 1..Len(u) PROVE u[i] = v[i]
      OBVIOUS
  <2>1. CASE p < i /\ i <= q
    <3>1. i - p \in 1..(c - b) /\ i - o \in 1..(c - a) /\ b + (i - p) = a + (i - o)
        BY <1>7, <1>8, <1>11, <1>12, <1>16, <2>1
    <3>2. u[i] = <<pkt, b + (i - p)>>
        BY <1>5, <1>14, <2>1, <3>1 DEF Laid
    <3>3. o < i /\ i <= q
        BY <1>8, <1>12, <1>16, <2>1
    <3>4. v[i] = <<pkt, a + (i - o)>>
        BY <1>5, <1>15, <1>16, <3>1, <3>3 DEF Laid
    <3> QED BY <3>1, <3>2, <3>4
  <2>2. CASE o < i /\ i <= p
    <3>1. /\ i - o \in 1..(b - a) /\ i - o \in 1..(c - a) /\ i \in 1..Len(t) /\ i <= Len(t)
          /\ ~(p < i) /\ o < i /\ i <= q
        BY <1>7, <1>8, <1>11, <1>12, <1>13, <1>16, <2>2 DEF Laid
    <3>2. u[i] = t[i]
        BY <1>14, <3>1 DEF Laid
    <3>3. t[i] = d[i - o]
        BY <1>13, <2>2, <3>1 DEF Laid
    <3>4. v[i] = g[i - o]
        BY <1>15, <1>16, <3>1 DEF Laid
    <3> QED BY <1>5, <3>1, <3>2, <3>3, <3>4
  <2>3. CASE ~(o < i /\ i <= q)
    <3>1. ~(p < i /\ i <= q) /\ ~(o < i /\ i <= p) /\ i <= Len(t) /\ i \in 1..Len(t)
        BY <1>8, <1>12, <1>14, <1>13, <1>16, <2>3 DEF Laid
    <3>2. u[i] = IF i <= Len(s) THEN s[i] ELSE "gap"
        BY <1>13, <1>14, <3>1 DEF Laid
    <3>3. v[i] = IF i <= Len(s) THEN s[i] ELSE "gap"
        BY <1>15, <1>16, <2>3 DEF Laid
    <3> QED BY <3>2, <3>3
  <2> QED BY <1>8, <1>12, <1>16, <2>1, <2>2, <2>3
<1>18. u = v
    BY <1>14, <1>15, <1>16, <1>17, SeqEqual DEF Laid
<1> QED BY <1>1, <1>2, <1>3, <1>6, <1>7, <1>9, <1>10, <1>18

-----------------------------------------------------------------------------
(* The files.  While a WRITE is being received in pieces, its file is what  *)
(* it was with the bytes handed over so far; every other file is what the   *)
(* requests completed make of it.                                           *)
DiskTyped == disk \in [Name -> Seq(Cell) \cup {Absent}] /\ DOMAIN expect = Name /\ hurt \subseteq Name

Present == \A a \in Addr : objects[a].kind = "file" => disk[objects[a].name] \in Seq(Cell)
Faulty  == \A a \in Addr : objects[a].kind = "file" /\ objects[a].err => objects[a].name \in hurt

(* What is to be removed is not open, and will not be opened before.        *)
Removals ==
    \A k \in Pending : requests[k].op = "remove" =>
        /\ \A a \in Addr : objects[a].kind = "file" => objects[a].name # requests[k].name
        /\ \A j \in Pending : j < k /\ requests[j].op = "open" => requests[j].name # requests[k].name

InPieces == dpch_state = "REG" /\ calls # <<>> /\ req.op = "write"
WritesTo(a, f) == objects[a].kind = "file" /\ objects[a].writes /\ objects[a].name = f
SoFar(f) ==
    /\ expect[f] \in Seq(Cell)
    /\ disk[f] = WriteAt(expect[f], req.offs, Cells(LENLEN + HDR, LENLEN + Handled))
Content(f) == IF InPieces /\ WritesTo(req.h.addr, f) THEN SoFar(f) ELSE disk[f] = expect[f]
Contents == \A f \in Name \ hurt : Content(f)
FileInv  == DiskTyped /\ Present /\ Faulty /\ Removals /\ Contents

LEMMA FilesInit == ASSUME Init PROVE FileInv
<1>1. Pending = {}
    BY DEF Init, DInit, Pending
<1>2. disk = [f \in Name |-> Absent] /\ expect = disk /\ hurt = {} /\ dpch_state = "LEN"
    BY DEF Init, DInit
<1>3. \A a \in Addr : objects[a] = Free
    BY DEF Init
<1>4. ~InPieces
    BY <1>2 DEF InPieces
<1> QED BY <1>1, <1>2, <1>3, <1>4, KindsApart DEF FileInv, DiskTyped, Present, Faulty, Removals, Contents, Content

(* The first piece of a WRITE brings the bytes after its header.            *)
LEMMA FirstData ==
    ASSUME DInv, Sent, WellFormed, Current, NEW kind, Handed(kind), calls = <<>>, req.op = "write"
    PROVE  /\ DataOf(got) = Cells(LENLEN + HDR, LENLEN + count)
           /\ DataOf(got) \in Seq(Nat \X Nat) /\ count \in Nat /\ count >= HDR /\ pkt \in Nat
<1>1. Receive /\ dpch_state = "REG" /\ Len(got) >= HDR
    BY CallKinds, HeaderIn
<1>2. Len(calls) = 0
    BY <1>1
<1>3. Handled = 0
    BY <1>2, NextMultiple, Sizes DEF Handled
<1>4. /\ got = Cells(LENLEN + Handled, LENLEN + count) /\ count = Handled + Len(got)
      /\ Len(got) \in Nat /\ pkt \in Nat /\ HDR \in Nat /\ LENLEN \in Nat
    BY <1>1, InPacket, InRequest, Sizes DEF LENLEN
<1>5. got = Cells(LENLEN, LENLEN + count) /\ count = Len(got)
    BY <1>3, <1>4
<1>6. \A i \in 1..count : got[i] = <<pkt, LENLEN + i>>
  <2>1. LENLEN <= LENLEN + count /\ LENLEN + count \in Nat /\ (LENLEN + count) - LENLEN = count
      BY <1>4, <1>5
  <2>2. \A i \in 1..((LENLEN + count) - LENLEN) : Cells(LENLEN, LENLEN + count)[i] = <<pkt, LENLEN + i>>
      BY <1>4, <2>1, CellsType
  <2> QED BY <1>5, <2>1, <2>2
<1>7. /\ Cells(LENLEN + HDR, LENLEN + count) \in Seq(Nat \X Nat)
      /\ Len(Cells(LENLEN + HDR, LENLEN + count)) = count - HDR
      /\ \A i \in 1..(count - HDR) : Cells(LENLEN + HDR, LENLEN + count)[i] = <<pkt, (LENLEN + HDR) + i>>
  <2>1. /\ LENLEN + HDR <= LENLEN + count /\ LENLEN + count \in Nat /\ LENLEN + HDR \in Nat
        /\ (LENLEN + count) - (LENLEN + HDR) = count - HDR
      BY <1>1, <1>4, <1>5
  <2>2. PICK p, q : p = LENLEN + HDR /\ q = LENLEN + count
      OBVIOUS
  <2>3. p \in Nat /\ q \in Nat /\ p <= q /\ pkt \in Nat
      BY <1>4, <2>1, <2>2
  <2>4. /\ Cells(p, q) \in Seq(Nat \X Nat) /\ Len(Cells(p, q)) = q - p
        /\ \A i \in 1..(q - p) : Cells(p, q)[i] = <<pkt, p + i>>
      BY <2>3, CellsType
  <2>5. q - p = count - HDR
      BY <2>1, <2>2
  <2> QED BY <2>2, <2>4, <2>5
<1>8. /\ DataOf(got) \in Seq(Nat \X Nat) /\ Len(DataOf(got)) = count - HDR
      /\ \A i \in 1..(count - HDR) : DataOf(got)[i] = got[HDR + i]
    BY <1>1, <1>5, DataType
<1>9. \A i \in 1..(count - HDR) : HDR + i \in 1..count /\ LENLEN + (HDR + i) = (LENLEN + HDR) + i
    BY <1>1, <1>4, <1>5
<1>10. \A i \in 1..(count - HDR) : DataOf(got)[i] = Cells(LENLEN + HDR, LENLEN + count)[i]
    BY <1>6, <1>7, <1>8, <1>9
<1>11. DataOf(got) = Cells(LENLEN + HDR, LENLEN + count)
    BY <1>7, <1>8, <1>10, SeqEqual
<1> QED BY <1>1, <1>4, <1>5, <1>8, <1>11

(* What a step may do to the objects and the files: an open file stays the  *)
(* same file, and an error hurts it.                                        *)
Moves ==
    /\ hurt \subseteq hurt' /\ hurt' \subseteq Name
    /\ \A a \in Addr : objects'[a].kind = "file" =>
          /\ objects[a].kind = "file" /\ objects'[a].name = objects[a].name
          /\ objects'[a].writes = objects[a].writes
          /\ objects'[a].err => objects[a].err \/ objects[a].name \in hurt'

LEMMA MovesNone ==
    ASSUME ObjTyped, DiskTyped, objects' = objects, hurt \subseteq hurt', hurt' \subseteq Name PROVE Moves
BY DEF Moves

LEMMA MovesOne ==
    ASSUME ObjTyped, DiskTyped, NEW a \in Addr, NEW o \in Obj, objects' = [objects EXCEPT ![a] = o],
           hurt \subseteq hurt', hurt' \subseteq Name,
           o.kind = "file" => /\ objects[a].kind = "file" /\ o.name = objects[a].name
                              /\ o.writes = objects[a].writes
                              /\ o.err => objects[a].err \/ objects[a].name \in hurt'
    PROVE  Moves
<1>1. \A b \in Addr : objects'[b] = IF b = a THEN o ELSE objects[b]
    BY DEF ObjTyped
<1> QED BY <1>1 DEF Moves

LEMMA MovesKeep ==
    ASSUME ObjTyped, FileInv, Moves, requests' = requests, Pending' \subseteq Pending,
           \A f \in Name : disk'[f] = disk[f] \/ disk'[f] \in Seq(Cell)
                           \/ \A a \in Addr : objects[a].kind = "file" => objects[a].name # f
    PROVE  Present' /\ Faulty' /\ Removals'
<1>1. \A a \in Addr : objects[a].kind = "file" => objects[a].name \in Name
    BY DEF ObjTyped, Obj, FileObjs, DirObjs, Free
<1>2. Present'
    BY <1>1 DEF FileInv, Present, Moves
<1>3. Faulty'
    BY DEF FileInv, Faulty, Moves
<1>4. Removals'
    BY DEF FileInv, Removals, Moves
<1> QED BY <1>2, <1>3, <1>4

(* f_lseek and f_write.                                                     *)
LEMMA Sought ==
    ASSUME ObjTyped, FileInv, NEW a \in Addr, objects[a] \in FileObjs, NEW offs \in Nat,
           NEW data \in Seq(Nat \X Nat), NEW ok, SeekWrite(a, offs, data, ok)
    PROVE  /\ Moves /\ objects[a].name \in Name /\ disk[objects[a].name] \in Seq(Cell)
           /\ disk' \in [Name -> Seq(Cell) \cup {Absent}] /\ disk'[objects[a].name] \in Seq(Cell)
           /\ \A f \in Name : f # objects[a].name => disk'[f] = disk[f]
           /\ objects'[a].kind = "file"
           /\ \/ objects[a].writes /\ disk'[objects[a].name] = WriteAt(disk[objects[a].name], offs, data)
              \/ disk' = disk /\ (~objects[a].writes \/ objects[a].name \in hurt')
<1>1. PICK n : n = offs + Len(data)
    OBVIOUS
<1>2. PICK moved : moved = [objects[a] EXCEPT !.fptr = n]
    OBVIOUS
<1>3. PICK faulty : faulty = [objects[a] EXCEPT !.err = TRUE]
    OBVIOUS
<1>4. PICK f : f = objects[a].name
    OBVIOUS
<1>5. f \in Name /\ objects[a].kind = "file" /\ n \in Nat
    BY <1>1, <1>4 DEF FileObjs
<1>6. /\ moved \in FileObjs /\ moved.name = f /\ moved.writes = objects[a].writes
      /\ moved.err = objects[a].err
      /\ faulty \in FileObjs /\ faulty.name = f /\ faulty.writes = objects[a].writes
    BY <1>2, <1>3, <1>4, <1>5 DEF FileObjs
<1>7. disk[f] \in Seq(Cell) /\ DiskTyped /\ hurt \subseteq Name /\ disk \in [Name -> Seq(Cell) \cup {Absent}]
    BY <1>4, <1>5 DEF FileInv, Present, DiskTyped
<1>8. PICK w : w = WriteAt(disk[f], offs, data)
    OBVIOUS
<1>9. w \in Seq(Cell)
  <2>1. Nat \X Nat \subseteq Cell
      BY DEF Cell
  <2>2. data \in Seq(Cell)
      BY <2>1, SeqMonotonic
  <2>3. PICK s \in Seq(Cell) : s = disk[f]
      BY <1>7
  <2> QED BY <1>8, <2>2, <2>3, WriteAtIs
<1>10. objects' \in {objects, [objects EXCEPT ![a] = moved], [objects EXCEPT ![a] = faulty]} => objects'[a].kind = "file"
    BY <1>5, <1>6 DEF ObjTyped, FileObjs
<1>11. CASE /\ objects[a].writes /\ disk' = [disk EXCEPT ![f] = w] /\ hurt' = hurt
            /\ objects' = [objects EXCEPT ![a] = moved]
  <2>1. disk' \in [Name -> Seq(Cell) \cup {Absent}] /\ disk'[f] = w /\ \A g \in Name : g # f => disk'[g] = disk[g]
      BY <1>5, <1>7, <1>9, <1>11
  <2>2. Moves
      BY <1>4, <1>5, <1>6, <1>7, <1>11, MovesOne DEF Obj
  <2> QED BY <1>4, <1>5, <1>7, <1>8, <1>9, <1>11, <1>10, <2>1, <2>2
<1>12. CASE ~objects[a].writes /\ disk' = disk /\ hurt' = hurt /\ objects' = objects
    BY <1>4, <1>5, <1>7, <1>12, <1>10, MovesNone
<1>13. CASE disk' = disk /\ hurt' = hurt \cup {f} /\ objects' = [objects EXCEPT ![a] = faulty]
  <2>1. Moves
      BY <1>4, <1>5, <1>6, <1>7, <1>13, MovesOne DEF Obj
  <2> QED BY <1>4, <1>5, <1>7, <1>13, <1>10, <2>1
<1>14. CASE objects[a].err /\ disk' = disk /\ hurt' = hurt /\ objects' = objects
  <2>1. f \in hurt
      BY <1>4, <1>5, <1>14 DEF FileInv, Faulty
  <2> QED BY <1>4, <1>5, <1>7, <1>14, <1>10, <2>1, MovesNone
<1> QED BY <1>1, <1>2, <1>3, <1>4, <1>8, <1>11, <1>12, <1>13, <1>14 DEF SeekWrite, Works, Fails, fatfs

(* A call is still inside the packet, or has ended it; what it makes of the *)
(* WRITE it belongs to.                                                     *)
LEMMA CallEnds ==
    ASSUME DInv, Sent, WellFormed, Current, NEW kind, Handed(kind), requests' = requests
    PROVE  /\ dpch_state = "REG" /\ pkt' = pkt /\ req' = req /\ plen' = plen /\ calls' # <<>>
           /\ count \in Nat /\ plen \in Nat /\ count <= plen
           /\ PacketEnd => count = plen
           /\ InPieces' => ~PacketEnd /\ Handled' = count /\ req.op = "write" /\ plen > CHUNK
           /\ ~PacketEnd => dpch_state' = "REG"
<1>1. /\ dpch_state = "REG" /\ Receive /\ calls' # <<>> /\ pkt' = pkt /\ plen' = plen
      /\ dpch_state' = "REG" => count < dpch_len
      /\ ~PacketEnd => dpch_state' = "REG"
    BY CallKinds
<1>2. req' = req
    BY <1>1 DEF req
<1>3. count <= plen /\ dpch_len = plen /\ plen \in Nat /\ count \in Nat /\ Handled \in Nat
      /\ count = Handled + Len(got) /\ Len(got) \in Nat
    BY <1>1, InPacket DEF DInv, DTypeOK
<1>4. PacketEnd => count = plen
    BY <1>3 DEF PacketEnd
<1>5. ASSUME InPieces'
      PROVE  ~PacketEnd /\ Handled' = count /\ req.op = "write" /\ plen > CHUNK
  <2>1. dpch_state' = "REG" /\ req.op = "write"
      BY <1>2, <1>5 DEF InPieces
  <2>2. ~PacketEnd
      BY <1>1, <1>3, <2>1 DEF PacketEnd
  <2>3. count = Handled + CHUNK /\ Handled' = Handled + CHUNK /\ count < plen
      BY <2>1, ChunkHanded
  <2>4. plen > CHUNK
      BY <1>3, <2>3, Sizes
  <2> QED BY <2>1, <2>2, <2>3, <2>4
<1> QED BY <1>1, <1>2, <1>3, <1>4, <1>5

(* One piece of a WRITE to a file, whichever: it goes on where the last one *)
(* ended, and with the last the file is what the request says.              *)
LEMMA PieceWritten ==
    ASSUME DInv, Sent, WellFormed, Current, HandleInv, FileInv, NEW kind, Handed(kind),
           requests' = requests, Expected, req.op = "write", ~req.h.dir,
           NEW offs \in Nat, NEW data \in Seq(Nat \X Nat), NEW ok, SeekWrite(req.h.addr, offs, data, ok),
           Pending' \subseteq Pending,
           \A s \in Seq(Cell) :
              \/ calls = <<>> /\ WriteAt(s, offs, data) = WriteAt(s, req.offs, Cells(LENLEN + HDR, LENLEN + count))
              \/ calls # <<>> /\ WriteAt(WriteAt(s, req.offs, Cells(LENLEN + HDR, LENLEN + Handled)), offs, data)
                                   = WriteAt(s, req.offs, Cells(LENLEN + HDR, LENLEN + count))
    PROVE  FileInv'
<1>1. /\ dpch_state = "REG" /\ pkt' = pkt /\ req' = req /\ plen' = plen /\ calls' # <<>>
      /\ PacketEnd => count = plen
      /\ InPieces' => ~PacketEnd /\ Handled' = count
    BY CallEnds
<1>2. PICK a \in Addr : a = req.h.addr /\ objects[a] \in FileObjs /\ objects[a].kind = "file"
    BY <1>1, ServedHandle DEF HandleOps, DirObjs, FileObjs
<1>3. PICK f : f = objects[a].name
    OBVIOUS
<1>4. ObjTyped
    BY DEF HandleInv
<1>5. /\ Moves /\ f \in Name /\ disk[f] \in Seq(Cell)
      /\ disk' \in [Name -> Seq(Cell) \cup {Absent}] /\ disk'[f] \in Seq(Cell)
      /\ \A g \in Name : g # f => disk'[g] = disk[g]
      /\ objects'[a].kind = "file"
      /\ \/ objects[a].writes /\ disk'[f] = WriteAt(disk[f], offs, data)
         \/ disk' = disk /\ (~objects[a].writes \/ f \in hurt')
    BY <1>2, <1>3, <1>4, Sought
<1>6. PICK whole : whole = WriteAt(expect[f], req.offs, Cells(LENLEN + HDR, LENLEN + plen))
    OBVIOUS
<1>7. expect' = IF PacketEnd /\ objects[a].writes THEN [expect EXCEPT ![f] = whole] ELSE expect
    BY <1>2, <1>3, <1>6 DEF Expected, Written
<1>8. DOMAIN expect = Name /\ hurt \subseteq hurt' /\ hurt' \subseteq Name
    BY <1>5 DEF FileInv, DiskTyped, Moves
<1>9. DiskTyped'
    BY <1>5, <1>7, <1>8 DEF DiskTyped
<1>10. Present' /\ Faulty' /\ Removals'
    BY <1>4, <1>5, MovesKeep
<1>11. \A g \in Name : g # f => ~WritesTo(a, g) /\ ~WritesTo(a, g)' /\ expect'[g] = expect[g]
    BY <1>3, <1>5, <1>7, <1>8 DEF WritesTo, Moves
<1>12. \A g \in Name \ hurt' : g # f => disk'[g] = expect'[g]
    BY <1>2, <1>5, <1>8, <1>11 DEF FileInv, Contents, Content
<1>13. CASE f \in hurt'
  <2>1. \A g \in Name \ hurt' : Content(g)'
      BY <1>1, <1>2, <1>11, <1>12, <1>13 DEF Content
  <2> QED BY <1>9, <1>10, <2>1 DEF FileInv, Contents
<1>14. CASE f \notin hurt' /\ ~objects[a].writes
  <2>1. ~WritesTo(a, f) /\ ~WritesTo(a, f)'
      BY <1>2, <1>5, <1>14 DEF WritesTo, Moves
  <2>2. disk[f] = expect[f]
      BY <1>2, <1>5, <1>8, <1>14, <2>1 DEF FileInv, Contents, Content
  <2>3. disk'[f] = expect'[f]
      BY <1>5, <1>7, <1>14, <2>2
  <2>4. \A g \in Name \ hurt' : Content(g)'
      BY <1>1, <1>2, <1>11, <1>12, <2>1, <2>3 DEF Content
  <2> QED BY <1>9, <1>10, <2>4 DEF FileInv, Contents
<1>15. CASE f \notin hurt' /\ objects[a].writes
  <2>1. disk'[f] = WriteAt(disk[f], offs, data) /\ WritesTo(a, f) /\ f \in Name \ hurt
      BY <1>2, <1>3, <1>5, <1>8, <1>15 DEF WritesTo
  <2>2. /\ expect[f] \in Seq(Cell)
        /\ disk'[f] = WriteAt(expect[f], req.offs, Cells(LENLEN + HDR, LENLEN + count))
    <3>1. Content(f)
        BY <2>1 DEF FileInv, Contents
    <3>2. CASE calls = <<>>
      <4>1. disk[f] = expect[f]
          BY <1>2, <3>1, <3>2 DEF Content, InPieces
      <4> QED BY <1>5, <2>1, <3>2, <4>1
    <3>3. CASE calls # <<>>
      <4>1. /\ expect[f] \in Seq(Cell)
            /\ disk[f] = WriteAt(expect[f], req.offs, Cells(LENLEN + HDR, LENLEN + Handled))
          BY <1>1, <1>2, <2>1, <3>1, <3>3 DEF Content, SoFar, InPieces
      <4> QED BY <2>1, <3>3, <4>1
    <3> QED BY <3>2, <3>3
  <2>3. CASE PacketEnd
    <3>1. count = plen /\ ~InPieces'
        BY <1>1, <2>3
    <3>2. expect'[f] = whole
        BY <1>5, <1>7, <1>8, <1>15, <2>3
    <3>3. disk'[f] = expect'[f]
        BY <1>6, <2>2, <3>1, <3>2
    <3>4. \A g \in Name \ hurt' : Content(g)'
        BY <1>12, <3>1, <3>3 DEF Content
    <3> QED BY <1>9, <1>10, <3>4 DEF FileInv, Contents
  <2>4. CASE ~PacketEnd
    <3>1. expect' = expect
        BY <1>7, <2>4
    <3>2. CASE InPieces'
      <4>1. Handled' = count
          BY <1>1, <3>2
      <4>2. Cells(LENLEN + HDR, LENLEN + Handled)' = Cells(LENLEN + HDR, LENLEN + count)
          BY <1>1, <4>1 DEF Cells
      <4>3. SoFar(f)'
          BY <1>1, <2>2, <3>1, <4>2 DEF SoFar, WriteAt, Extended
      <4>4. Content(f)'
          BY <1>1, <1>2, <1>5, <2>1, <3>2, <4>3 DEF Content, WritesTo, Moves
      <4>5. \A g \in Name \ hurt' : g # f => Content(g)'
          BY <1>1, <1>2, <1>11, <1>12 DEF Content
      <4> QED BY <1>9, <1>10, <4>4, <4>5 DEF FileInv, Contents
    <3>3. CASE ~InPieces'
      <4>1. dpch_state' = "REG"
          BY <2>4, CallEnds
      <4> QED BY <1>1, <3>3, <4>1 DEF InPieces
    <3> QED BY <3>2, <3>3
  <2> QED BY <2>3, <2>4
<1> QED BY <1>13, <1>14, <1>15

LEMMA FilesWrite ==
    ASSUME DInv, Sent, WellFormed, Current, HandleInv, FileInv, SpktByte, Write, Expected,
           requests' = requests, Pending' \subseteq Pending
    PROVE  FileInv'
<1>1. Handed("spkt") /\ calls = <<>> /\ dpch_state = "REG" /\ req.op = "write" /\ objects[req.h.addr].kind = "file"
    BY CallKinds DEF SpktByte, Write, NotA
<1>2. ~req.h.dir
    BY <1>1, ServedHandle DEF HandleOps
<1>3. req.offs \in Nat
    BY <1>1, InRequest DEF Sound
<1>4. DataOf(got) = Cells(LENLEN + HDR, LENLEN + count) /\ DataOf(got) \in Seq(Nat \X Nat)
    BY <1>1, FirstData
<1>5. PICK ok \in BOOLEAN : SeekWrite(req.h.addr, req.offs, DataOf(got), ok)
    BY DEF Write
<1>6. PICK offs \in Nat : offs = req.offs
    BY <1>3
<1>7. PICK data \in Seq(Nat \X Nat) : data = DataOf(got)
    BY <1>4
<1>8. SeekWrite(req.h.addr, offs, data, ok)
    BY <1>5, <1>6, <1>7
<1>9. \A s \in Seq(Cell) : WriteAt(s, offs, data) = WriteAt(s, req.offs, Cells(LENLEN + HDR, LENLEN + count))
    BY <1>4, <1>6, <1>7
<1> QED BY <1>1, <1>2, <1>8, <1>9, PieceWritten

LEMMA FilesContinued ==
    ASSUME DInv, Sent, WellFormed, Current, Resumes, HandleInv, FileInv, ContinueByte, Expected,
           requests' = requests, Pending' \subseteq Pending,
           last_cmd_write, objects[last_fp].kind = "file"
    PROVE  FileInv'
<1>1. /\ dpch_state = "REG" /\ Receive /\ calls # <<>> /\ Handled \in Nat /\ Handled >= CHUNK
      /\ req.op = "write" /\ last_fp = req.h.addr /\ last_offs = req.offs + (Handled - HDR)
      /\ last_offs \in Nat /\ Handed("continue")
    BY Continuing DEF ContinueByte
<1>2. ~req.h.dir
    BY <1>1, ServedHandle DEF HandleOps
<1>3. Sound(req) /\ pkt \in Nat /\ HDR \in Nat /\ HDR <= Handled
    BY <1>1, InRequest, Sizes
<1>4. req.offs \in Nat
    BY <1>1, <1>3 DEF Sound
<1>5. /\ got \in Seq(Nat \X Nat) /\ got = Cells(LENLEN + Handled, LENLEN + count)
      /\ count \in Nat /\ Handled <= count
  <2>1. /\ got \in Seq(Nat \X Nat) /\ got = Cells(LENLEN + Handled, LENLEN + count)
        /\ count = Handled + Len(got) /\ Len(got) \in 1..CHUNK
      BY <1>1, InPacket
  <2> QED BY <1>1, <2>1, Sizes
<1>6. PICK ok \in BOOLEAN : SeekWrite(last_fp, last_offs, got, ok)
    BY DEF ContinueByte, ContinueWrite
<1>7. PICK offs \in Nat : offs = last_offs
    BY <1>1
<1>8. PICK data \in Seq(Nat \X Nat) : data = got
    BY <1>5
<1>9. PICK o \in Nat : o = req.offs
    BY <1>4
<1>10. PICK a \in Nat : a = LENLEN + HDR
    BY <1>3 DEF LENLEN
<1>11. PICK b \in Nat : b = LENLEN + Handled
    BY <1>1 DEF LENLEN
<1>12. PICK c \in Nat : c = LENLEN + count
    BY <1>5 DEF LENLEN
<1>13. a <= b /\ b <= c /\ offs = o + (b - a)
    BY <1>1, <1>3, <1>5, <1>7, <1>9, <1>10, <1>11, <1>12 DEF LENLEN
<1>14. \A s \in Seq(Cell) : WriteAt(WriteAt(s, o, Cells(a, b)), o + (b - a), Cells(b, c)) = WriteAt(s, o, Cells(a, c))
    BY <1>3, <1>13, WriteAtTwice
<1>15. data = Cells(b, c)
    BY <1>5, <1>8, <1>11, <1>12
<1>16. \A s \in Seq(Cell) : WriteAt(WriteAt(s, req.offs, Cells(LENLEN + HDR, LENLEN + Handled)), offs, data)
                              = WriteAt(s, req.offs, Cells(LENLEN + HDR, LENLEN + count))
    BY <1>9, <1>10, <1>11, <1>12, <1>13, <1>14, <1>15
<1>17. SeekWrite(req.h.addr, offs, data, ok)
    BY <1>1, <1>6, <1>7, <1>8
<1> QED BY <1>1, <1>2, <1>16, <1>17, PieceWritten

(* A command, or a piece, that writes no file.                              *)
LEMMA FilesQuiet ==
    ASSUME DInv, Sent, WellFormed, Current, HandleInv, FileInv, NEW kind, Handed(kind), Expected,
           requests' = requests, Pending' \subseteq Pending, Moves, disk' = disk,
           kind = "spkt" => req.op \notin {"open", "remove"},
           req.op = "write" => objects[req.h.addr].kind # "file"
    PROVE  FileInv'
<1>1. dpch_state = "REG" /\ req' = req /\ (kind = "spkt" <=> calls = <<>>)
    BY CallEnds, CallKinds
<1>2. req.op = "write" => req.h.addr \in Addr /\ req.h.dir
    BY <1>1, ServedHandle DEF HandleOps, FileObjs, DirObjs
<1>3. expect' = expect
    BY <1>1, <1>2 DEF Expected
<1>4. \A f \in Name \ hurt : disk[f] = expect[f]
    BY DEF FileInv, Contents, Content, InPieces, WritesTo
<1>5. InPieces' => \A f : ~WritesTo(req.h.addr, f)'
    BY <1>1, <1>2 DEF InPieces, WritesTo, Moves
<1>6. \A f \in Name \ hurt' : Content(f)'
    BY <1>3, <1>4, <1>5 DEF Content, Moves
<1>7. DiskTyped'
    BY <1>3 DEF FileInv, DiskTyped, Moves
<1>8. Present' /\ Faulty' /\ Removals'
    BY MovesKeep DEF HandleInv
<1> QED BY <1>6, <1>7, <1>8 DEF FileInv, Contents

(* OPEN and REMOVE take effect when they are looked at.                     *)
LEMMA FilesNamed ==
    ASSUME DInv, Sent, WellFormed, Current, FileInv, SpktByte, Expected, requests' = requests,
           req.op \in {"open", "remove"}, disk' \in [Name -> Seq(Cell) \cup {Absent}],
           \A f \in Name : f # req.name => disk'[f] = disk[f], hurt \subseteq hurt', hurt' \subseteq Name
    PROVE  DiskTyped' /\ Contents'
<1>1. calls = <<>> /\ req' = req
    BY CallEnds, CallKinds DEF SpktByte
<1>2. DOMAIN expect = Name
    BY DEF FileInv, DiskTyped
<1>3. expect' = [expect EXCEPT ![req.name] = disk'[req.name]]
    BY <1>1 DEF Expected
<1>4. \A f \in Name \ hurt : disk[f] = expect[f]
    BY <1>1 DEF FileInv, Contents, Content, InPieces
<1>5. \A f \in Name \ hurt' : disk'[f] = expect'[f]
    BY <1>2, <1>3, <1>4
<1>6. ~InPieces'
    BY <1>1 DEF InPieces
<1>7. DiskTyped'
    BY <1>2, <1>3 DEF DiskTyped
<1> QED BY <1>5, <1>6, <1>7 DEF Contents, Content

LEMMA FilesOpened ==
    ASSUME DInv, Sent, WellFormed, Current, HandleInv, FileInv, SpktByte, Open, Expected,
           requests' = requests, Pending' \subseteq Pending
    PROVE  FileInv'
<1>1. dpch_state = "REG" /\ calls = <<>> /\ req.op = "open" /\ Sound(req)
    BY CallKinds, InRequest DEF SpktByte, Open
<1>2. req.name \in Name /\ req.writes \in BOOLEAN
    BY <1>1 DEF Sound, NameOps
<1>3. PICK f \in Name : f = req.name
    BY <1>2
<1>4. ObjTyped /\ DiskTyped
    BY DEF HandleInv, FileInv
<1>5. CASE objects' = objects /\ disk' = disk /\ hurt' \in {hurt, hurt \cup {f}}
  <2>1. Moves /\ hurt \subseteq hurt' /\ hurt' \subseteq Name
      BY <1>4, <1>5, MovesNone DEF DiskTyped
  <2>2. DiskTyped' /\ Contents'
      BY <1>1, <1>4, <1>5, <2>1, FilesNamed DEF DiskTyped
  <2>3. Present' /\ Faulty' /\ Removals'
      BY <1>4, <1>5, <2>1, MovesKeep
  <2> QED BY <2>2, <2>3 DEF FileInv
<1>6. CASE /\ req.writes \/ disk[f] # Absent
           /\ Allocate(FilObj(f, req.writes)) /\ hurt' = hurt
           /\ disk' = IF req.writes THEN [disk EXCEPT ![f] = <<>>] ELSE disk
  <2>1. /\ disk' \in [Name -> Seq(Cell) \cup {Absent}] /\ disk'[f] \in Seq(Cell)
        /\ \A g \in Name : g # f => disk'[g] = disk[g]
      BY <1>4, <1>6 DEF DiskTyped
  <2>2. PICK o : o = FilObj(f, req.writes)
      OBVIOUS
  <2>3. o.kind = "file" /\ o.name = f /\ ~o.err
      BY <2>2 DEF FilObj
  <2>4. PICK a \in Addr : objects' = [objects EXCEPT ![a] = o]
      BY <1>6, <2>2 DEF Allocate, FreeAddr
  <2>5. \A b \in Addr : objects'[b] = IF b = a THEN o ELSE objects[b]
      BY <1>4, <2>4 DEF ObjTyped
  <2>6. \A b \in Addr : objects[b].kind = "file" => objects[b].name \in Name
      BY <1>4 DEF ObjTyped, Obj, FileObjs, DirObjs, Free
  <2>7. Present'
      BY <2>1, <2>3, <2>5, <2>6 DEF FileInv, Present
  <2>8. Faulty'
      BY <1>6, <2>3, <2>5 DEF FileInv, Faulty
  <2>9. \A k \in Pending' : k \in Pending /\ pkt < k
    <3>1. calls' # <<>> /\ pkt' = pkt /\ pkt \in Nat
        BY CallKinds, InRequest DEF SpktByte
    <3> QED BY <3>1, PendingTypes DEF Pending
  <2>10. pkt \in Pending
      BY <1>1, InRequest, PendingTypes DEF Pending
  <2>11. Removals'
      BY <1>1, <1>3, <2>3, <2>5, <2>9, <2>10 DEF FileInv, Removals, req
  <2>12. DiskTyped' /\ Contents'
      BY <1>1, <1>3, <1>4, <1>6, <2>1, FilesNamed DEF DiskTyped
  <2> QED BY <2>7, <2>8, <2>11, <2>12 DEF FileInv
<1> QED BY <1>3, <1>5, <1>6 DEF Open, Works, Fails, NoFs, fatfs

LEMMA FilesRemoved ==
    ASSUME DInv, Sent, WellFormed, Current, HandleInv, FileInv, SpktByte, Remove, Expected,
           requests' = requests, Pending' \subseteq Pending
    PROVE  FileInv'
<1>1. dpch_state = "REG" /\ calls = <<>> /\ req.op = "remove" /\ Sound(req)
    BY CallKinds, InRequest DEF SpktByte, Remove
<1>2. PICK f \in Name : f = req.name
    BY <1>1 DEF Sound, NameOps
<1>3. ObjTyped /\ DiskTyped
    BY DEF HandleInv, FileInv
<1>4. objects' = objects /\ hurt' \in {hurt, hurt \cup {f}} /\ disk' \in {disk, [disk EXCEPT ![f] = Absent]}
    BY <1>2 DEF Remove, Works, Fails
<1>5. Moves /\ hurt \subseteq hurt' /\ hurt' \subseteq Name
    BY <1>3, <1>4, MovesNone DEF DiskTyped
<1>6. disk' \in [Name -> Seq(Cell) \cup {Absent}] /\ \A g \in Name : g # f => disk'[g] = disk[g]
    BY <1>3, <1>4 DEF DiskTyped
<1>7. DiskTyped' /\ Contents'
    BY <1>1, <1>2, <1>5, <1>6, FilesNamed
<1>8. pkt \in Pending
    BY <1>1, InRequest, PendingTypes DEF Pending
<1>9. \A a \in Addr : objects[a].kind = "file" => objects[a].name # f
    BY <1>1, <1>2, <1>8 DEF FileInv, Removals, req
<1>10. Present' /\ Faulty' /\ Removals'
    BY <1>3, <1>5, <1>6, <1>9, MovesKeep
<1> QED BY <1>7, <1>10 DEF FileInv

(* The commands that leave the files' content alone.                        *)
LEMMA OtherMoves ==
    ASSUME DInv, Sent, WellFormed, Current, HandleInv, FileInv, dpch_state = "REG",
           TooShort \/ Init_ \/ Other \/ Stat \/ RealPath \/ OpenDir \/ Close \/ Read \/ ReadDir
           \/ WrongKind \/ WriteDir
    PROVE  /\ Moves /\ disk' = disk /\ req.op \notin {"open", "remove"}
           /\ req.op = "write" => objects[req.h.addr].kind # "file"
<1>1. ObjTyped /\ DiskTyped
    BY DEF HandleInv, FileInv
<1>2. req.op \in HandleOps => /\ req.h.addr \in Addr /\ objects[req.h.addr] \in FileObjs \cup DirObjs
                              /\ req.h.dir <=> objects[req.h.addr].kind = "dir"
    BY ServedHandle
<1>3. /\ disk' = disk /\ req.op \notin {"open", "remove"}
      /\ req.op = "write" => objects[req.h.addr].kind # "file"
    BY DEF TooShort, Init_, Other, Stat, Simple, RealPath, OpenDir, Close, Read, ReadDir, WrongKind,
           WriteDir, NotA, NoFs, fatfs
<1>4. CASE TooShort \/ Init_ \/ Other \/ Stat \/ RealPath \/ WrongKind
  <2>1. objects' = objects /\ hurt' = hurt
      BY <1>4 DEF TooShort, Init_, Other, Stat, Simple, RealPath, WrongKind, NoFs, fatfs, Works, Fails
  <2> QED BY <1>1, <1>3, <2>1, MovesNone DEF DiskTyped
<1>5. CASE OpenDir
  <2>1. hurt' = hurt /\ (objects' = objects \/ \E a \in Addr : objects' = [objects EXCEPT ![a] = DirObj])
      BY <1>5 DEF OpenDir, NoFs, fatfs, Works, Fails, Allocate, FreeAddr
  <2>2. PICK o : o = DirObj
      OBVIOUS
  <2>3. o \in Obj /\ o.kind # "file"
      BY <2>2 DEF DirObj, DirObjs, Obj
  <2> QED BY <1>1, <1>3, <2>1, <2>2, <2>3, MovesNone, MovesOne DEF DiskTyped
<1>6. CASE Close
  <2>1. PICK a \in Addr : a = req.h.addr /\ objects[a] \in FileObjs \cup DirObjs
                          /\ (req.h.dir <=> objects[a].kind = "dir")
      BY <1>2, <1>6 DEF Close, HandleOps
  <2>2. \/ objects' = [objects EXCEPT ![a] = Free] /\ hurt' = hurt
        \/ objects' = objects /\ hurt' = hurt \cup (IF req.h.dir THEN {} ELSE {objects[a].name})
      BY <1>6, <2>1 DEF Close, ClosedAddr, Works, Fails
  <2>3. ~req.h.dir => objects[a].name \in Name
      BY <2>1 DEF FileObjs, DirObjs
  <2>4. hurt \subseteq hurt' /\ hurt' \subseteq Name
      BY <1>1, <2>2, <2>3 DEF DiskTyped
  <2>5. PICK o : o = Free
      OBVIOUS
  <2>6. o \in Obj /\ o.kind # "file"
      BY <2>5 DEF Free, Obj
  <2> QED BY <1>1, <1>3, <2>2, <2>4, <2>5, <2>6, MovesNone, MovesOne
<1>7. CASE Read
  <2>1. PICK a \in Addr : a = req.h.addr /\ objects[a] \in FileObjs
    <3>1. req.op \in HandleOps /\ objects[req.h.addr].kind = "file"
        BY <1>7 DEF Read, NotA, HandleOps
    <3> QED BY <1>2, <3>1 DEF DirObjs
  <2>2. PICK o : o = [objects[a] EXCEPT !.err = TRUE]
      OBVIOUS
  <2>3. /\ o \in Obj /\ o.name = objects[a].name /\ o.writes = objects[a].writes
        /\ objects[a].kind = "file" /\ objects[a].name \in Name
      BY <2>1, <2>2 DEF Obj, FileObjs
  <2>4. \/ objects' = objects /\ hurt' = hurt
        \/ objects' = [objects EXCEPT ![a] = o] /\ hurt' = hurt \cup {objects[a].name}
      BY <1>7, <2>1, <2>2 DEF Read, NoFs, fatfs, Works, Fails
  <2> QED BY <1>1, <1>3, <2>3, <2>4, MovesNone, MovesOne DEF DiskTyped
<1>8. CASE ReadDir \/ WriteDir
  <2>1. PICK a \in Addr : a = req.h.addr /\ objects[a] \in DirObjs
    <3>1. req.op \in HandleOps /\ objects[req.h.addr].kind # "file"
        BY <1>8 DEF ReadDir, WriteDir, NotA, HandleOps
    <3> QED BY <1>2, <3>1 DEF FileObjs
  <2>2. PICK d \in BOOLEAN : objects' = [objects EXCEPT ![a].done = d] /\ hurt' = hurt
      BY <1>8, <2>1 DEF ReadDir, WriteDir, Works
  <2>3. PICK o : o = [objects[a] EXCEPT !.done = d]
      OBVIOUS
  <2>4. o \in Obj /\ o.kind # "file"
      BY <2>1, <2>3 DEF Obj, DirObjs
  <2> QED BY <1>1, <1>3, <2>2, <2>3, <2>4, MovesOne DEF DiskTyped
<1> QED BY <1>4, <1>5, <1>6, <1>7, <1>8, <1>3

LEMMA RemoveClosed == ASSUME NEW r \in Requests, r.op = "remove" PROVE Closed(r.name)
<1>1. CASE r \in Opens
    BY <1>1 DEF Request, Opens
<1>2. CASE r \in Reads
    BY <1>2 DEF Request, Reads
<1>3. CASE r \in Writes
  <2>1. PICK h \in Writable, o \in Offs, d \in Dlens :
            r = Request("write", HDR + d, h, AnyName, FALSE, o, d)
      BY <1>3 DEF Request, Writes
  <2> QED BY <2>1 DEF Request
<1>4. CASE r \in Removes
    BY <1>4 DEF Removes
<1>5. CASE r \in PlainOnes
    BY <1>5 DEF Request, PlainOnes, Plain
<1>6. CASE r \in OnHandle("close") \/ r \in OnHandle("readdir")
    BY <1>6 DEF Request, OnHandle
<1>7. CASE r \in OnName("opendir") \/ r \in OnName("stat")
    BY <1>7 DEF Request, OnName
<1> QED BY <1>1, <1>2, <1>3, <1>4, <1>5, <1>6, <1>7 DEF Requests

(* The client removes no file that is open or that it is opening.           *)
LEMMA FilesSend == ASSUME DInv, Sent, WellFormed, Current, FileInv, ClientSends PROVE FileInv'
<1> DEFINE n == Len(requests) + 1
<1>1. PICK r \in Requests : requests'[n] = r
    BY Sending
<1>2. /\ Len(requests) \in Nat /\ Len(requests') = n
      /\ \A k \in 1..Len(requests) : requests'[k] = requests[k]
      /\ UNCHANGED <<dvars, first, objects, disk, expect, hurt>>
    BY Sending DEF fatfs, history
<1>3. UNCHANGED <<pkt, calls, dpch_state>>
    BY <1>2 DEF dvars, stream, dispatch
<1> HIDE DEF n
<1>4. \A k \in Pending : k \in 1..Len(requests) /\ requests'[k] = requests[k] /\ k < n /\ k \in Nat
    BY <1>2, PendingTypes DEF n
<1>5. \A k \in Pending' : k \in Pending \/ k = n
    BY <1>2, <1>3, PendingTypes DEF Pending, n
<1>6. dpch_state = "REG" => req' = req
    BY <1>2, <1>3, InRequest DEF req
<1>7. Handled' = Handled /\ (InPieces' <=> InPieces)
    BY <1>3, <1>6 DEF Handled, InPieces
<1>8. \A a, f : WritesTo(a, f)' <=> WritesTo(a, f)
    BY <1>2 DEF WritesTo
<1>9. ASSUME NEW f \in Name, InPieces PROVE SoFar(f)' <=> SoFar(f)
  <2>1. req' = req
      BY <1>6, <1>9 DEF InPieces
  <2>2. Cells(LENLEN + HDR, LENLEN + Handled)' = Cells(LENLEN + HDR, LENLEN + Handled)
      BY <1>3, <1>7 DEF Cells
  <2> QED BY <1>2, <2>1, <2>2 DEF SoFar, WriteAt, Extended
<1>10. Contents'
  <2>1. ASSUME NEW f \in Name \ hurt PROVE Content(f)'
    <3>1. CASE InPieces
      <4>1. req' = req
          BY <1>6, <3>1 DEF InPieces
      <4> QED BY <1>2, <1>7, <1>8, <1>9, <3>1, <4>1 DEF Content, FileInv, Contents
    <3>2. CASE ~InPieces
        BY <1>2, <1>7, <3>2 DEF Content, FileInv, Contents
    <3> QED BY <3>1, <3>2
  <2> QED BY <1>2, <2>1 DEF Contents
<1>11. Removals'
  <2> SUFFICES ASSUME NEW k \in Pending', requests'[k].op = "remove"
               PROVE  /\ \A a \in Addr : objects[a].kind = "file" => objects[a].name # requests'[k].name
                      /\ \A j \in Pending' : j < k /\ requests'[j].op = "open" => requests'[j].name # requests'[k].name
      BY <1>2 DEF Removals
  <2>1. CASE k \in Pending
    <3>1. \A j \in Pending' : j < k => j \in Pending
        BY <1>2, <1>4, <1>5, <2>1 DEF n
    <3> QED BY <1>4, <2>1, <3>1 DEF FileInv, Removals
  <2>2. CASE k = n
    <3>1. Closed(r.name) /\ requests'[k].name = r.name
        BY <1>1, <2>2, RemoveClosed
    <3>2. \A j \in Pending' : j < k => j \in Pending
        BY <1>2, <1>5, <2>2 DEF n
    <3> QED BY <1>4, <3>1, <3>2 DEF Closed
  <2> QED BY <1>5, <2>1, <2>2
<1>12. DiskTyped' /\ Present' /\ Faulty'
    BY <1>2 DEF FileInv, DiskTyped, Present, Faulty
<1> QED BY <1>10, <1>11, <1>12 DEF FileInv

(* A step that touches no file and ends no piece.                           *)
LEMMA FilesSame ==
    ASSUME FileInv, UNCHANGED <<objects, disk, expect, requests>>, Pending' \subseteq Pending,
           hurt \subseteq hurt', hurt' \subseteq Name,
           InPieces' => InPieces /\ pkt' = pkt /\ calls' = calls,
           \A f \in Name \ hurt' : InPieces /\ WritesTo(req.h.addr, f) => InPieces'
    PROVE  FileInv'
<1>1. \A a, f : WritesTo(a, f)' <=> WritesTo(a, f)
    BY DEF WritesTo
<1>2. Contents'
  <2> SUFFICES ASSUME NEW f \in Name \ hurt' PROVE Content(f)'
      BY DEF Contents
  <2>1. Content(f)
      BY DEF FileInv, Contents
  <2>2. CASE InPieces'
    <3>1. req' = req /\ InPieces
        BY <2>2 DEF req
    <3>2. Cells(LENLEN + HDR, LENLEN + Handled)' = Cells(LENLEN + HDR, LENLEN + Handled)
        BY <2>2 DEF Cells, Handled
    <3>3. SoFar(f) => SoFar(f)'
        BY <3>1, <3>2 DEF SoFar, WriteAt, Extended
    <3> QED BY <1>1, <2>1, <2>2, <3>1, <3>3 DEF Content
  <2>3. CASE ~InPieces'
      BY <2>1, <2>3 DEF Content
  <2> QED BY <2>2, <2>3
<1>3. DiskTyped' /\ Present' /\ Faulty' /\ Removals'
    BY DEF FileInv, DiskTyped, Present, Faulty, Removals
<1> QED BY <1>2, <1>3 DEF FileInv

LEMMA FilesStep ==
    ASSUME DInv, Sent, WellFormed, Current, Resumes, HandleInv, FileInv, [Next]_vars PROVE FileInv'
<1>0. ObjTyped /\ hurt \subseteq Name /\ first \in Nat /\ pkt \in Nat /\ Len(requests) \in Nat
    BY PendingTypes DEF HandleInv, FileInv, DiskTyped
<1>1. CASE ClientSends
    BY <1>1, FilesSend
<1>2. CASE StreamNext
  <2>1. /\ pos = LENLEN + plen /\ pkt' = pkt + 1 /\ calls' = <<>> /\ dpch_state' = dpch_state
        /\ UNCHANGED <<requests, first, objects, disk, expect, hurt>>
      BY <1>2 DEF StreamNext, NextPacket, client, fatfs, history
  <2>2. dpch_state # "REG"
      BY <2>1 DEF DInv, DTypeOK, Aligned, LENLEN
  <2>3. ~InPieces /\ ~InPieces'
      BY <2>1, <2>2 DEF InPieces
  <2>4. Pending' \subseteq Pending
      BY <1>0, <2>1, PendingTypes DEF Pending
  <2> QED BY <1>0, <2>1, <2>3, <2>4, FilesSame
<1>3. CASE LengthBytes
  <2>1. /\ calls = <<>> /\ UNCHANGED <<pkt, calls, requests, first, objects, disk, expect, hurt>>
      BY <1>3, LengthFirst DEF LengthBytes, client, fatfs, history
  <2>2. ~InPieces /\ ~InPieces' /\ Pending' = Pending
      BY <2>1 DEF InPieces, Pending
  <2> QED BY <1>0, <2>1, <2>2, FilesSame
<1>4. CASE CollectByte \/ CloseMessage \/ UNCHANGED vars
  <2>1. UNCHANGED <<pkt, calls, dpch_state, requests, first, objects, disk, expect, hurt>>
      BY <1>4 DEF CollectByte, Collect, Receive, CloseMessage, vars, dvars, stream, dispatch, client, fatfs, history
  <2>2. (InPieces' <=> InPieces) /\ Pending' = Pending
      BY <2>1 DEF InPieces, Pending, req
  <2> QED BY <1>0, <2>1, <2>2, FilesSame
<1>5. CASE CallByte
  <2>1. requests' = requests /\ first' = first /\ Expected
      BY <1>5 DEF CallByte
  <2>2. ASSUME NEW kind, Handed(kind) PROVE Pending' \subseteq Pending
    <3>1. calls' # <<>> /\ pkt' = pkt
        BY <2>2, CallKinds
    <3> QED BY <2>1, <3>1 DEF Pending
  <2>3. CASE SpktByte
    <3>1. Handed("spkt") /\ dpch_state = "REG" /\ Pending' \subseteq Pending
        BY <2>2, <2>3, CallKinds DEF SpktByte
    <3>2. CASE Open
        BY <2>1, <2>3, <3>1, <3>2, FilesOpened
    <3>3. CASE Remove
        BY <2>1, <2>3, <3>1, <3>3, FilesRemoved
    <3>4. CASE Write
        BY <2>1, <2>3, <3>1, <3>4, FilesWrite
    <3>5. CASE TooShort \/ Init_ \/ Other \/ Stat \/ RealPath \/ OpenDir \/ Close \/ Read \/ ReadDir
               \/ WrongKind \/ WriteDir
      <4>1. /\ Moves /\ disk' = disk /\ req.op \notin {"open", "remove"}
            /\ req.op = "write" => objects[req.h.addr].kind # "file"
          BY <3>1, <3>5, OtherMoves
      <4> QED BY <2>1, <3>1, <4>1, FilesQuiet
    <3> QED BY <2>3, <3>2, <3>3, <3>4, <3>5 DEF SpktByte, Spkt
  <2>4. CASE ContinueByte
    <3>1. Handed("continue") /\ Pending' \subseteq Pending
        BY <2>2, <2>4 DEF ContinueByte
    <3>2. CASE last_cmd_write /\ objects[last_fp].kind = "file"
        BY <2>1, <2>4, <3>1, <3>2, FilesContinued
    <3>3. CASE ~(last_cmd_write /\ objects[last_fp].kind = "file")
      <4>1. objects' = objects /\ disk' = disk /\ hurt' = hurt
          BY <2>4, <3>3 DEF ContinueByte, ContinueWrite, NoFs, fatfs, Works
      <4>2. Moves
          BY <1>0, <4>1, MovesNone DEF FileInv
      <4>3. req.op = "write" => objects[req.h.addr].kind # "file"
          BY <2>4, <3>3, Continuing
      <4> QED BY <2>1, <3>1, <4>1, <4>2, <4>3, FilesQuiet
    <3> QED BY <3>2, <3>3
  <2> QED BY <1>5, <2>3, <2>4 DEF CallByte
<1>6. CASE EndSession
  <2>1. /\ UNCHANGED <<objects, disk, expect, requests>> /\ hurt' = hurt \cup OpenNames
        /\ first' = Len(requests) /\ dpch_state' = "LEN"
      BY <1>6 DEF EndSession, NewSession, Reset, fatfs
  <2>2. Pending' = {} /\ ~InPieces'
      BY <1>0, <2>1 DEF Pending, InPieces
  <2>3. OpenNames \subseteq Name
    <3>1. OpenAddr \subseteq Addr
        BY DEF HandleInv, HandlesLive
    <3>2. \A a \in Addr : objects[a].kind = "file" => objects[a].name \in Name
        BY <1>0 DEF ObjTyped, Obj, FileObjs, DirObjs, Free
    <3> QED BY <3>1, <3>2 DEF OpenNames
  <2>4. \A f : InPieces /\ WritesTo(req.h.addr, f) => f \in OpenNames
    <3>1. InPieces => req.h.addr \in OpenAddr
        BY ServedHandle DEF InPieces, HandleOps
    <3> QED BY <3>1 DEF WritesTo, OpenNames
  <2> QED BY <1>0, <2>1, <2>2, <2>3, <2>4, FilesSame
<1> QED BY <1>1, <1>2, <1>3, <1>4, <1>5, <1>6 DEF Next

LEMMA FilesBetween == ASSUME DInv, FileInv PROVE FilesExact
<1>1. pos = LENLEN + plen => ~InPieces
    BY DEF DInv, DTypeOK, Aligned, InPieces, LENLEN
<1> QED BY <1>1 DEF FileInv, Contents, Content, FilesExact

-----------------------------------------------------------------------------
SInv == DInv /\ Sent /\ WellFormed /\ Current /\ Resumes /\ HandleInv /\ ReplyInv /\ FileInv

LEMMA SInvAlways == Spec => []SInv
<1>1. Init => SInv
    BY Initially, SentInit, WellFormedInit, CurrentInit, ResumesInit, HandlesInit, ReplyInit, FilesInit
       DEF Init, SInv
<1>2. ASSUME SInv, [Next]_vars PROVE SInv'
  <2>1. DInv /\ Sent /\ WellFormed /\ Current /\ Resumes /\ HandleInv /\ ReplyInv /\ FileInv
      BY <1>2 DEF SInv
  <2>2. Sent'
    <3>1. CASE Next
        BY <2>1, <3>1, SentStep
    <3>2. CASE UNCHANGED vars
        BY <2>1, <3>2, SameSent DEF vars, dvars, stream, client
    <3> QED BY <1>2, <3>1, <3>2
  <2>3. DInv'
    <3>1. CASE Next
      <4>1. [DNext]_dvars
          BY <2>1, <3>1, DispatchStep
      <4> QED BY <2>1, <4>1, Inductive
    <3>2. CASE UNCHANGED vars
        BY <2>1, <3>2, KeepsStutter DEF vars
    <3> QED BY <1>2, <3>1, <3>2
  <2>4. WellFormed' /\ Current' /\ Resumes'
      BY <1>2, <2>1, WellFormedStep, CurrentStep, ResumesStep
  <2>5. HandleInv' /\ ReplyInv' /\ FileInv'
      BY <1>2, <2>1, HandlesStep, ReplyStep, FilesStep
  <2> QED BY <2>2, <2>3, <2>4, <2>5 DEF SInv
<1> QED BY <1>1, <1>2, PTL DEF Spec

(* The bytes after the first piece of a WRITE go to the file and the offset *)
(* of that WRITE: a packet of more than SFTP_CHUNK bytes begins with        *)
(* last_cmd_write cleared, so what an earlier one left behind is never used *)
(* (sftp_parse.c:146, 410-416, 718-743).                                    *)
THEOREM ContinuesOwn == Spec => []ContinueOwn
<1>1. SInv => ContinueOwn
    BY ResumesOwn DEF SInv
<1> QED BY <1>1, SInvAlways, PTL

(* No handle in use names an object that was freed or given out again, and  *)
(* nothing is leaked but what f_close refused or a session left behind      *)
(* (sftp_parse.c:274-326, acpt_loop.c:103).                                 *)
THEOREM HandlesSound == Spec => []HandlesLive
<1>1. SInv => HandlesLive
    BY DEF SInv, HandleInv
<1> QED BY <1>1, SInvAlways, PTL

(* Every request is answered once and in order, whatever it asks, whether   *)
(* it fails, and into however many pieces it was cut (sftp_parse.c:212-743).*)
THEOREM AnswersOnce == Spec => []OneReply
<1>1. SInv => OneReply
    BY DEF SInv, ReplyInv
<1> QED BY <1>1, SInvAlways, PTL

(* Between two packets a file without a FatFS error holds what the WRITEs   *)
(* to it say, for every length, chunk size and offset (sftp_parse.c:393-449,*)
(* 718-743).                                                                *)
THEOREM FilesHold == Spec => []FilesExact
<1>1. SInv => FilesExact
    BY FilesBetween DEF SInv
<1> QED BY <1>1, SInvAlways, PTL
=============================================================================
