--------------------------- MODULE EspSockProofs ---------------------------
(***************************************************************************)
(* What EspSock's runs show of a few reconnections holds for any number of *)
(* connection ids, incarnations, payloads and sizes.                       *)
(***************************************************************************)
EXTENDS EspSock, SequenceTheorems, WellFoundedInduction, TLAPS

(* The sshd task serves a connection that was made.                         *)
Current  == <<fd, session>>
Serves   == pc # "accept" => fd \in Conn /\ session \in 1..MaxInc
Typed    == TypeOK /\ Serves

-----------------------------------------------------------------------------
(* The line: the report being parsed, then those still to be parsed.        *)
Line == 0..Len(rx)

LEMMA LineTypes ==
    ASSUME TypeOK
    PROVE  /\ Len(rx) \in Nat
           /\ \A p \in Line : OnLine(p) \in Reports \cup {NoMsg}
           /\ \A p \in Line : OnLine(p).id \in Conn \cup {NoFd}
           /\ NoMsg.t = "none" /\ NoMsg.id = NoFd
           /\ \A m \in Reports : m.id \in Conn /\ m.t # "none"
<1>1. rx \in Seq(Reports) /\ Len(rx) \in Nat /\ pmsg \in Reports \cup {NoMsg}
    BY LenProperties DEF TypeOK
<1>2. \A p \in 1..Len(rx) : rx[p] \in Reports
    BY <1>1, ElementOfSeq
<1>3. \A p \in Line : OnLine(p) \in Reports \cup {NoMsg}
    BY <1>1, <1>2 DEF Line, OnLine
<1>4. NoMsg.t = "none" /\ NoMsg.id = NoFd
    BY DEF NoMsg, Report
<1>5. \A m \in Reports : m.id \in Conn /\ m.t # "none"
    BY DEF Reports, Pieces
<1> QED BY <1>1, <1>3, <1>4, <1>5

(* A new report comes last.                                                 *)
LEMMA LineGrows ==
    ASSUME TypeOK, NEW m \in Reports, rx' = Append(rx, m), pmsg' = pmsg
    PROVE  /\ Len(rx') = Len(rx) + 1 /\ Len(rx) \in Nat
           /\ rx' \in Seq(Reports)
           /\ \A p \in Line : OnLine(p)' = OnLine(p)
           /\ \A p : p = Len(rx) + 1 => OnLine(p)' = m
<1>1. /\ rx \in Seq(Reports) /\ Len(rx) \in Nat
    BY LenProperties DEF TypeOK
<1>2. /\ rx' \in Seq(Reports) /\ Len(rx') = Len(rx) + 1
      /\ \A p \in 1..Len(rx) : rx'[p] = rx[p]
      /\ rx'[Len(rx) + 1] = m
    BY <1>1, AppendProperties
<1> QED BY <1>1, <1>2 DEF Line, OnLine

(* The counters of incarnations.                                            *)
LEMMA CountTypes ==
    ASSUME TypeOK
    PROVE  /\ MaxInc \in Nat /\ link \in [Conn -> 0..MaxInc] /\ inc \in [Conn -> 0..MaxInc]
           /\ session \in 0..MaxInc
           /\ \A i \in Conn : link[i] \in Nat /\ inc[i] \in Nat
           /\ \A i \in Conn : inc[i] < MaxInc => inc[i] + 1 \in 1..MaxInc
           /\ \A i \in Conn : link[i] # 0 => link[i] \in 1..MaxInc
<1>1. /\ MaxInc \in Nat /\ link \in [Conn -> 0..MaxInc] /\ inc \in [Conn -> 0..MaxInc]
      /\ session \in 0..MaxInc
    BY SockAssumption DEF TypeOK
<1> QED BY <1>1

LEMMA ConnectCounts ==
    ASSUME TypeOK, NEW i \in Conn, Connect(i)
    PROVE  inc[i] + 1 \in 1..MaxInc /\ inc[i] \in Nat /\ link[i] = 0 /\ inc \in [Conn -> 0..MaxInc]
BY CountTypes DEF Connect

LEMMA EndsCounts ==
    ASSUME TypeOK, NEW i \in Conn, LinkEnds(i) PROVE link[i] \in 1..MaxInc
BY CountTypes DEF LinkEnds

(* What is announced is a connection that was made.                         *)
LEMMA AnnounceType ==
    ASSUME TypeOK, Announce
    PROVE  /\ pmsg \in Reports /\ <<pmsg.id, pmsg.inc>> \in Made
           /\ preacc \in Seq(Made) /\ preacc' = Append(preacc, <<pmsg.id, pmsg.inc>>)
<1>1. pmsg \in Reports \cup {NoMsg} /\ pmsg.t = "announce"
      /\ preacc \in Seq(Made) /\ preacc' = Append(preacc, <<pmsg.id, pmsg.inc>>)
    BY DEF Announce, TypeOK
<1>2. pmsg \in Reports
    BY <1>1 DEF NoMsg, Report
<1> QED BY <1>1, <1>2 DEF Reports, Pieces, Made

(* The parser takes up the next one.                                        *)
LEMMA LineMoves ==
    ASSUME TypeOK, ParserBegin
    PROVE  /\ Len(rx) \in Nat \ {0} /\ Len(rx') = Len(rx) - 1
           /\ rx' \in Seq(Reports) /\ pmsg' \in Reports
           /\ OnLine(0) = NoMsg
           /\ \A p \in Line' : p + 1 \in Line /\ OnLine(p)' = OnLine(p + 1)
           /\ \A p \in Line : p # 0 => p - 1 \in Line' /\ OnLine(p - 1)' = OnLine(p)
<1>1. /\ rx \in Seq(Reports) /\ rx # <<>> /\ Len(rx) \in Nat \ {0}
    BY LenProperties, EmptySeq DEF TypeOK, ParserBegin
<1>2. /\ Head(rx) \in Reports /\ Tail(rx) \in Seq(Reports) /\ Len(Tail(rx)) = Len(rx) - 1
      /\ \A p \in 1..Len(Tail(rx)) : Tail(rx)[p] = rx[p + 1]
    BY <1>1, HeadTailProperties
<1>3. Head(rx) = rx[1]
    BY <1>1
<1>4. pmsg = NoMsg /\ pmsg' = Head(rx) /\ rx' = Tail(rx)
    BY DEF ParserBegin
<1>5. \A p \in Line' : p + 1 \in Line /\ OnLine(p)' = OnLine(p + 1)
    BY <1>1, <1>2, <1>3, <1>4 DEF Line, OnLine
<1>6. \A p \in Line : p # 0 => p - 1 \in Line' /\ OnLine(p - 1)' = OnLine(p)
    BY <1>1, <1>2, <1>3, <1>4 DEF Line, OnLine
<1> QED BY <1>1, <1>2, <1>4, <1>5, <1>6 DEF OnLine

(* The parser is done with it, or announces it.                             *)
LEMMA LineHead ==
    ASSUME TypeOK, rx' = rx
    PROVE  /\ Line' = Line /\ OnLine(0)' = pmsg' /\ OnLine(0) = pmsg /\ 0 \in Line
           /\ \A p \in Line : p # 0 => OnLine(p)' = OnLine(p)
BY LineTypes DEF Line, OnLine

LEMMA LineSame ==
    ASSUME rx' = rx, pmsg' = pmsg
    PROVE  Line' = Line /\ \A p \in Line : OnLine(p)' = OnLine(p)
BY DEF Line, OnLine

-----------------------------------------------------------------------------
(* Types.                                                                   *)

LEMMA PayloadType ==
    ASSUME NEW m \in Pieces
    PROVE  /\ Payload(m) \in Seq(Bytes) /\ Len(Payload(m)) = ChunkLen
           /\ \A j \in 1..ChunkLen : Payload(m)[j] = Byte(m.inc, Extent(m.n - 1) + j)
<1>1. m.n - 1 \in Nat /\ m.inc \in 1..MaxInc /\ ChunkLen \in Nat
    BY SockAssumption DEF Pieces
<1>2. Extent(m.n - 1) \in Nat
    BY <1>1 DEF Extent
<1>3. \A j \in 1..ChunkLen : Byte(m.inc, Extent(m.n - 1) + j) \in Bytes
    BY <1>1, <1>2 DEF Byte, Bytes
<1>4. Payload(m) \in [1..ChunkLen -> Bytes]
    BY <1>3 DEF Payload
<1>5. Payload(m) \in Seq(Bytes)
    BY <1>1, <1>4, SeqDef
<1> QED BY <1>1, <1>4, <1>5, LenProperties DEF Payload

LEMMA TypeInit == Init => Typed
<1> SUFFICES ASSUME Init PROVE Typed
    OBVIOUS
<1>1. pmsg \in Reports \cup {NoMsg} /\ rx \in Seq(Reports)
    BY DEF Init
<1>2. Len(<<>>) = 0 /\ \A S : <<>> \in Seq(S)
    OBVIOUS
<1>3. /\ \A i \in Conn : Len(conn_recv[i]) <= QLEN
      /\ conn_recv \in [Conn -> Seq(Pieces)] /\ recv_buff \in [Conn -> Seq(Bytes)]
      /\ read \in [Made -> Seq(Bytes)]
    BY <1>2, SockAssumption DEF Init
<1>4. preacc \in Seq(Made) /\ Len(preacc) <= ACCLEN
    BY <1>2, SockAssumption DEF Init
<1> QED BY <1>1, <1>2, <1>3, <1>4, SockAssumption DEF Init, TypeOK, Typed, Serves

LEMMA ConnectType == ASSUME Typed, NEW i \in Conn, Connect(i) PROVE Typed'
<1>1. inc[i] + 1 \in 1..MaxInc
    BY SockAssumption DEF Connect, Typed, TypeOK
<1>2. Report("connect", i, inc[i] + 1, 0) \in Reports
    BY <1>1 DEF Report, Reports
<1>3. rx' \in Seq(Reports)
    BY <1>2 DEF Connect, Typed, TypeOK
<1>4. <<i, inc[i] + 1>> \in Made
    BY <1>1 DEF Made
<1>5. connects' \in Seq(Made)
    BY <1>4 DEF Connect, Typed, TypeOK
<1>6. inc' \in [Conn -> 0..MaxInc] /\ link' \in [Conn -> 0..MaxInc]
    BY <1>1 DEF Connect, Typed, TypeOK
<1>7. excuse' \subseteq {"retaken", "leftover"}
    BY DEF Connect, Excuses, Typed, TypeOK
<1> QED BY <1>3, <1>5, <1>6, <1>7 DEF Connect, Typed, TypeOK, Serves, parserVars, taskVars

LEMMA PeerSendsType == ASSUME Typed, NEW i \in Conn, PeerSends(i) PROVE Typed'
<1> DEFINE c == <<i, link[i]>>
<1>1. link[i] \in 1..MaxInc
    BY DEF PeerSends, Typed, TypeOK
<1>2. c \in Made
    BY <1>1 DEF Made
<1>3. /\ chunks[c] < MaxChunk /\ chunks' = [chunks EXCEPT ![c] = chunks[c] + 1]
      /\ rx' = Append(rx, Report("recv", i, link[i], chunks[c] + 1))
    BY DEF PeerSends
<1> HIDE DEF c
<1>4. chunks \in [Made -> 0..MaxChunk]
    BY DEF Typed, TypeOK
<1>5. chunks[c] + 1 \in 1..MaxChunk
    BY <1>2, <1>3, <1>4, SockAssumption
<1>6. Report("recv", i, link[i], chunks[c] + 1) \in Reports
    BY <1>1, <1>5 DEF Report, Reports, Pieces
<1>7. rx' \in Seq(Reports)
    BY <1>3, <1>6, AppendProperties DEF Typed, TypeOK
<1>8. chunks' \in [Made -> 0..MaxChunk]
    BY <1>2, <1>3, <1>4, <1>5, SockAssumption
<1> QED BY <1>7, <1>8 DEF PeerSends, Typed, TypeOK, Serves, parserVars, taskVars, connectVars

LEMMA LinkEndsType ==
    ASSUME Typed, NEW i \in Conn, LinkEnds(i)
    PROVE  rx' \in Seq(Reports) /\ link' \in [Conn -> 0..MaxInc]
<1>1. link[i] \in 1..MaxInc
    BY SockAssumption DEF LinkEnds, Typed, TypeOK
<1>2. Report("closed", i, link[i], 0) \in Reports
    BY <1>1 DEF Report, Reports
<1>3. rx' \in Seq(Reports)
    BY <1>2, AppendProperties DEF LinkEnds, Typed, TypeOK
<1> QED BY <1>3, SockAssumption DEF LinkEnds, Typed, TypeOK

LEMMA PeerClosesType == ASSUME Typed, NEW i \in Conn, PeerCloses(i) PROVE Typed'
BY LinkEndsType DEF PeerCloses, Typed, TypeOK, Serves, parserVars, taskVars, connectVars

LEMMA PieceType == ASSUME NEW m \in Reports, m.t = "recv" PROVE m \in Pieces
BY DEF Reports, Pieces

LEMMA ParserType == ASSUME Typed, Parser PROVE Typed'
<1> USE DEF Typed
<1>1. CASE ParserBegin
  <2>1. rx' \in Seq(Reports) /\ pmsg' \in Reports /\ pmsg' = Head(rx)
      BY <1>1, LineMoves DEF ParserBegin
  <2>2. pmsg'.t = "recv" => pmsg' \in Pieces
      BY <2>1, PieceType
  <2>3. alive' \subseteq Pieces
      BY <1>1, <2>1, <2>2 DEF ParserBegin, TypeOK
  <2> QED BY <1>1, <2>1, <2>3 DEF TypeOK, Serves, ParserBegin, modemVars, taskVars, connectVars
<1>2. CASE DispatchAccepted
  <2>1. pmsg \in Reports /\ pmsg.id \in Conn /\ pmsg.t = "connect"
      BY <1>2 DEF DispatchAccepted, TypeOK, NoMsg, Report, Reports, Pieces
  <2>2. conn_recv' = conn_recv \/ conn_recv' = [conn_recv EXCEPT ![pmsg.id] = <<>>]
      BY <1>2 DEF DispatchAccepted, Emptied
  <2>3. conn_recv' \in [Conn -> Seq(Pieces)] /\ \A i \in Conn : Len(conn_recv'[i]) <= QLEN
    <3>1. CASE conn_recv' = conn_recv
        BY <3>1 DEF TypeOK
    <3>2. CASE conn_recv' = [conn_recv EXCEPT ![pmsg.id] = <<>>]
        BY <2>1, <3>2, SockAssumption DEF TypeOK
    <3> QED BY <2>2, <3>1, <3>2
  <2>4. conn_state' \in [Conn -> BOOLEAN]
      BY <1>2, <2>1 DEF DispatchAccepted, TypeOK
  <2>5. pmsg' \in Reports \cup {NoMsg}
      BY <1>2, <2>1 DEF DispatchAccepted, Reports, Pieces
  <2> QED BY <1>2, <2>3, <2>4, <2>5 DEF TypeOK, Serves, DispatchAccepted, modemVars, taskVars, connectVars
<1>3. CASE Announce
  <2>1. pmsg \in Reports /\ <<pmsg.id, pmsg.inc>> \in Made
      BY <1>3 DEF Announce, TypeOK, NoMsg, Report, Reports, Pieces, Made
  <2>2. preacc' \in Seq(Made) /\ Len(preacc') <= ACCLEN
      BY <1>3, <2>1, AppendProperties, SockAssumption, LenProperties DEF Announce, TypeOK
  <2> QED BY <1>3, <2>2 DEF TypeOK, Serves, Announce, modemVars, taskVars, connectVars
<1>4. CASE DispatchClosed
    BY <1>4 DEF TypeOK, Serves, DispatchClosed, modemVars, taskVars, connectVars
<1>5. CASE DispatchRecv
  <2>1. pmsg \in Pieces /\ pmsg.id \in Conn
      BY <1>5, PieceType DEF DispatchRecv, TypeOK, NoMsg, Report, Pieces
  <2>2. /\ conn_recv' = [conn_recv EXCEPT ![pmsg.id] = Append(conn_recv[pmsg.id], pmsg)]
        /\ Len(conn_recv[pmsg.id]) < QLEN
      BY <1>5 DEF DispatchRecv, QueueHasRoom
  <2>3. /\ Append(conn_recv[pmsg.id], pmsg) \in Seq(Pieces)
        /\ Len(Append(conn_recv[pmsg.id], pmsg)) <= QLEN
      BY <2>1, <2>2, AppendProperties, LenProperties, SockAssumption DEF TypeOK
  <2>4. conn_recv' \in [Conn -> Seq(Pieces)] /\ \A i \in Conn : Len(conn_recv'[i]) <= QLEN
      BY <2>1, <2>2, <2>3 DEF TypeOK
  <2> QED BY <1>5, <2>4 DEF TypeOK, Serves, DispatchRecv, modemVars, taskVars, connectVars
<1> QED BY <1>1, <1>2, <1>3, <1>4, <1>5 DEF Parser

LEMMA AcceptType == ASSUME Typed, Accept PROVE Typed'
<1>1. /\ preacc \in Seq(Made) /\ preacc # <<>> /\ Len(preacc) \in Nat
      /\ Head(preacc) \in Made /\ Tail(preacc) \in Seq(Made) /\ Len(Tail(preacc)) <= ACCLEN
    BY HeadTailProperties, LenProperties, SockAssumption DEF Accept, Typed, TypeOK
<1>2. fd' \in Conn /\ session' \in 1..MaxInc
    BY <1>1 DEF Accept, Made
<1>3. accepted' \in Seq(Made)
    BY <1>1, AppendProperties DEF Accept, Typed, TypeOK
<1>4. /\ preacc' \in Seq(Made) /\ Len(preacc') <= ACCLEN
      /\ session' \in 0..MaxInc /\ pc' = "serve" /\ result' = "none"
    BY <1>1, <1>2, SockAssumption DEF Accept
<1> QED BY <1>2, <1>3, <1>4 DEF Accept, Typed, TypeOK, Serves, modemVars, connectVars

(* What is handed out of recv_buff, and what stays.                         *)
LEMMA HandOutType ==
    ASSUME Typed, pc # "accept", NEW n \in 0..Len(recv_buff[fd]), HandOut(n)
    PROVE  /\ read' \in [Made -> Seq(Bytes)] /\ Current \in Made
           /\ read' = [read EXCEPT ![Current] = read'[Current]]
           /\ Len(read'[Current]) = Len(read[Current]) + n
           /\ \A a \in 1..Len(read[Current]) : read'[Current][a] = read[Current][a]
           /\ \A a \in 1..n : read'[Current][Len(read[Current]) + a] = recv_buff[fd][a]
           /\ Len(read[Current]) \in Nat /\ Len(recv_buff[fd]) \in Nat
<1> DEFINE old == read[Current]   buff == recv_buff[fd]   out == SubSeq(buff, 1, n)
<1>1. Current \in Made /\ old \in Seq(Bytes) /\ buff \in Seq(Bytes)
    BY DEF Typed, TypeOK, Serves, Current, Made
<1>2. read' = [read EXCEPT ![Current] = old \o out]
    BY DEF HandOut, Current
<1>3. read \in [Made -> Seq(Bytes)]
    BY DEF Typed, TypeOK
<1> HIDE DEF old, buff
<1>4. Len(old) \in Nat /\ Len(buff) \in Nat /\ n \in 0..Len(buff)
    BY <1>1, LenProperties DEF buff
<1>5. out \in Seq(Bytes) /\ Len(out) = n /\ \A a \in 1..n : out[a] = buff[a]
    BY <1>1, <1>4, SubSeqProperties, ElementOfSeq
<1> HIDE DEF out
<1>6. /\ old \o out \in Seq(Bytes) /\ Len(old \o out) = Len(old) + n
      /\ \A a \in 1..Len(old) : (old \o out)[a] = old[a]
      /\ \A a \in 1..n : (old \o out)[Len(old) + a] = out[a]
  <2>1. /\ old \o out \in Seq(Bytes) /\ Len(old \o out) = Len(old) + Len(out)
        /\ \A a \in 1..(Len(old) + Len(out)) : (old \o out)[a] =
              IF a <= Len(old) THEN old[a] ELSE out[a - Len(old)]
      BY <1>1, <1>5, ConcatProperties
  <2> QED BY <1>4, <1>5, <2>1
<1>7. read' \in [Made -> Seq(Bytes)] /\ read'[Current] = old \o out
    BY <1>1, <1>2, <1>3, <1>6
<1> QED BY <1>1, <1>2, <1>4, <1>5, <1>6, <1>7 DEF old, buff

LEMMA RestType ==
    ASSUME NEW q \in Seq(Bytes), need \in 0..Len(q)
    PROVE  /\ Rest(q) \in Seq(Bytes) /\ Len(Rest(q)) = Len(q) - need /\ Len(q) \in Nat
           /\ \A j \in 1..(Len(q) - need) : Rest(q)[j] = q[need + j]
<1>1. Len(q) \in Nat /\ \A j \in 1..Len(q) : q[j] \in Bytes
    BY LenProperties, ElementOfSeq
<1> QED BY <1>1, SubSeqProperties DEF Rest

LEMMA SshdType == ASSUME Typed, Sshd PROVE Typed'
<1>0. pc # "accept" => fd \in Conn /\ recv_buff[fd] \in Seq(Bytes) /\ Len(recv_buff[fd]) \in Nat
    BY LenProperties DEF Typed, TypeOK, Serves
<1>1. CASE Accept
    BY <1>1, AcceptType
<1>2. ASSUME NEW n \in Sizes, RecvStart(n) PROVE Typed'
    BY <1>2, SockAssumption DEF RecvStart, Typed, TypeOK, Serves, modemVars, parserVars, connectVars
<1>3. CASE RecvEnough
  <2>1. need \in 0..Len(recv_buff[fd]) /\ pc # "accept" /\ fd \in Conn
      BY <1>0, <1>3 DEF RecvEnough, Typed, TypeOK
  <2>2. read' \in [Made -> Seq(Bytes)]
      BY <1>3, <2>1, HandOutType DEF RecvEnough
  <2>3. recv_buff' \in [Conn -> Seq(Bytes)]
      BY <1>0, <1>3, <2>1, RestType DEF RecvEnough, Typed, TypeOK
  <2> QED BY <1>3, <2>2, <2>3 DEF RecvEnough, Typed, TypeOK, Serves, modemVars, parserVars, connectVars
<1>4. CASE RecvMore
  <2>1. Len(recv_buff[fd]) \in 0..Len(recv_buff[fd]) /\ pc # "accept"
      BY <1>0, <1>4 DEF RecvMore
  <2>2. read' \in [Made -> Seq(Bytes)]
      BY <1>4, <2>1, HandOutType DEF RecvMore
  <2>3. need' \in Nat
      BY <1>0, <1>4 DEF RecvMore, Typed, TypeOK
  <2> QED BY <1>4, <2>2, <2>3 DEF RecvMore, Typed, TypeOK, Serves, modemVars, parserVars, connectVars
<1>5. CASE RecvPop
  <2>1. /\ fd \in Conn /\ conn_recv[fd] \in Seq(Pieces) /\ conn_recv[fd] # <<>>
        /\ Len(conn_recv[fd]) <= QLEN
      BY <1>0, <1>5 DEF RecvPop, Typed, TypeOK
  <2>2. /\ Head(conn_recv[fd]) \in Pieces /\ Tail(conn_recv[fd]) \in Seq(Pieces)
        /\ Len(Tail(conn_recv[fd])) <= QLEN
      BY <2>1, HeadTailProperties, LenProperties, SockAssumption
  <2>3. conn_recv' \in [Conn -> Seq(Pieces)] /\ \A i \in Conn : Len(conn_recv'[i]) <= QLEN
      BY <1>5, <2>1, <2>2 DEF RecvPop, Typed, TypeOK
  <2>4. recv_buff' \in [Conn -> Seq(Bytes)]
      BY <1>5, <2>1, <2>2, PayloadType DEF RecvPop, Typed, TypeOK
  <2>5. alive' \subseteq Pieces
      BY <1>5 DEF RecvPop, Typed, TypeOK
  <2> QED BY <1>5, <2>3, <2>4, <2>5 DEF RecvPop, Typed, TypeOK, Serves, modemVars, parserVars, connectVars
<1>6. CASE SendStart
  <2>1. sends' \in 0..MaxSend /\ pc' \in {"serve", "send"} /\ pc = "serve"
      BY <1>6, SockAssumption DEF SendStart, Typed, TypeOK
  <2> QED BY <1>6, <2>1 DEF SendStart, Typed, TypeOK, Serves, modemVars, parserVars, connectVars
<1>7. CASE SendDone
    BY <1>7 DEF SendDone, Typed, TypeOK, Serves, modemVars, parserVars, connectVars
<1>8. CASE CloseStart
  <2>1. CASE IsConn(fd)
    <3>1. /\ conn_recv' = [conn_recv EXCEPT ![fd] = <<>>] /\ recv_buff' = [recv_buff EXCEPT ![fd] = <<>>]
          /\ alive' \subseteq alive /\ pc' = "close" /\ fd \in Conn
        BY <1>0, <1>8, <2>1 DEF CloseStart, Emptied
    <3>2. conn_recv' \in [Conn -> Seq(Pieces)] /\ \A i \in Conn : Len(conn_recv'[i]) <= QLEN
        BY <3>1, SockAssumption DEF Typed, TypeOK
    <3>3. recv_buff' \in [Conn -> Seq(Bytes)]
        BY <3>1 DEF Typed, TypeOK
    <3> QED BY <1>8, <3>1, <3>2, <3>3 DEF CloseStart, Typed, TypeOK, Serves, modemVars, parserVars, connectVars
  <2>2. CASE ~IsConn(fd)
      BY <1>8, <2>2 DEF CloseStart, Typed, TypeOK, Serves, modemVars, parserVars, connectVars
  <2> QED BY <2>1, <2>2
<1>9. CASE CloseDone
  <2>1. fd \in Conn
      BY <1>0, <1>9 DEF CloseDone
  <2>2. rx' \in Seq(Reports) /\ link' \in [Conn -> 0..MaxInc]
      BY <1>9, <2>1, LinkEndsType DEF CloseDone, Typed, TypeOK
  <2> QED BY <1>9, <2>2 DEF CloseDone, Typed, TypeOK, Serves, parserVars, connectVars
<1> QED BY <1>1, <1>2, <1>3, <1>4, <1>5, <1>6, <1>7, <1>8, <1>9 DEF Sshd, Recv

LEMMA TypeStep == Typed /\ [Next]_vars => Typed'
<1> SUFFICES ASSUME Typed, [Next]_vars PROVE Typed'
    OBVIOUS
<1>1. ASSUME NEW i \in Conn, Connect(i) \/ PeerSends(i) \/ PeerCloses(i) PROVE Typed'
    BY <1>1, ConnectType, PeerSendsType, PeerClosesType
<1>2. CASE UNCHANGED vars
    BY <1>2 DEF Typed, TypeOK, Serves, vars, modemVars, parserVars, taskVars, connectVars
<1> QED BY <1>1, <1>2, ParserType, SshdType DEF Next, Modem

(* Every variable keeps its type; above all no queue grows beyond its depth  *)
(* (parser.c:406 and 419 block on a full one).                              *)
THEOREM TypeCorrect == Spec => []TypeOK
<1>1. Typed => TypeOK
    BY DEF Typed
<1> QED BY <1>1, TypeInit, TypeStep, PTL DEF Spec

-----------------------------------------------------------------------------
(* The reports about an id alternate: it is connected between a connect and  *)
(* the next closed, for the parser as far as it has read, for the modem at   *)
(* the end of the line.                                                     *)
About(p, i) == OnLine(p).id = i /\ OnLine(p).t \in {"connect", "recv", "closed"}

FirstFits(i) == \A p \in Line :
    (About(p, i) /\ \A q \in Line : q < p => ~About(q, i)) =>
        (OnLine(p).t = "connect" <=> ~conn_state[i])
LastFits(i) == \A p \in Line :
    (About(p, i) /\ \A q \in Line : p < q => ~About(q, i)) =>
        (OnLine(p).t = "closed" <=> link[i] = 0)
QuietFits(i) == (\A p \in Line : ~About(p, i)) => (conn_state[i] <=> link[i] # 0)
NextFits(i) == \A p, q \in Line :
    (p < q /\ About(p, i) /\ About(q, i) /\ \A r \in Line : p < r /\ r < q => ~About(r, i)) =>
        (OnLine(p).t = "closed" <=> OnLine(q).t = "connect")
Alternation == \A i \in Conn : FirstFits(i) /\ LastFits(i) /\ QuietFits(i) /\ NextFits(i)

LEMMA AltInit == Init => Alternation
<1> SUFFICES ASSUME Init, NEW i \in Conn
             PROVE  FirstFits(i) /\ LastFits(i) /\ QuietFits(i) /\ NextFits(i)
    BY DEF Alternation
<1>1. \A p \in Line : p = 0 /\ ~About(p, i)
    BY DEF Init, About, Line, OnLine, NoMsg, Report
<1>2. ~conn_state[i] /\ link[i] = 0
    BY DEF Init
<1> QED BY <1>1, <1>2 DEF FirstFits, LastFits, QuietFits, NextFits

LEMMA AltGrows ==
    ASSUME TypeOK, Alternation, NEW m \in Reports, m.t # "announce", rx' = Append(rx, m),
           pmsg' = pmsg, conn_state' = conn_state,
           \A i \in Conn : i # m.id => link'[i] = link[i],
           link[m.id] = 0 <=> m.t = "connect", link'[m.id] = 0 <=> m.t = "closed"
    PROVE  Alternation'
<1> DEFINE new == Len(rx) + 1
<1>1. /\ Len(rx) \in Nat /\ Line' = 0..new /\ Line = 0..(new - 1) /\ new \in Nat
      /\ \A p \in Line : OnLine(p)' = OnLine(p)
      /\ \A p : p = new => OnLine(p)' = m
    BY LineGrows DEF Line
<1> HIDE DEF new
<1>2. m.id \in Conn /\ m.t \in {"connect", "recv", "closed"}
    BY DEF Reports, Pieces
<1> SUFFICES ASSUME NEW i \in Conn
             PROVE  FirstFits(i)' /\ LastFits(i)' /\ QuietFits(i)' /\ NextFits(i)'
    BY DEF Alternation
<1>3. \A p \in Line : About(p, i)' <=> About(p, i)
    BY <1>1 DEF About
<1>4. \A p : p = new => (About(p, i)' <=> i = m.id)
    BY <1>1, <1>2 DEF About
<1>5. FirstFits(i) /\ LastFits(i) /\ QuietFits(i) /\ NextFits(i)
    BY DEF Alternation
<1>6. CASE i # m.id
  <2>1. FirstFits(i)'
      BY <1>1, <1>3, <1>4, <1>5, <1>6 DEF FirstFits
  <2>2. LastFits(i)'
      BY <1>1, <1>3, <1>4, <1>5, <1>6 DEF LastFits
  <2>3. QuietFits(i)'
      BY <1>1, <1>3, <1>4, <1>5, <1>6 DEF QuietFits
  <2>4. NextFits(i)'
      BY <1>1, <1>3, <1>4, <1>5, <1>6 DEF NextFits
  <2> QED BY <2>1, <2>2, <2>3, <2>4
<1>7. CASE i = m.id
  <2>1. FirstFits(i)'
      BY <1>1, <1>3, <1>4, <1>5, <1>7 DEF FirstFits, QuietFits
  <2>2. LastFits(i)'
      BY <1>1, <1>3, <1>4, <1>5, <1>7 DEF LastFits
  <2>3. QuietFits(i)'
      BY <1>1, <1>3, <1>4, <1>5, <1>7 DEF QuietFits
  <2>4. NextFits(i)'
      BY <1>1, <1>3, <1>4, <1>5, <1>7 DEF NextFits, LastFits
  <2> QED BY <2>1, <2>2, <2>3, <2>4
<1> QED BY <1>6, <1>7

LEMMA AltMoves == ASSUME TypeOK, Alternation, ParserBegin PROVE Alternation'
<1>1. /\ Len(rx) \in Nat /\ Line = 0..Len(rx) /\ Line' = 0..(Len(rx) - 1)
      /\ \A p \in Line' : p + 1 \in Line /\ OnLine(p)' = OnLine(p + 1)
      /\ \A p \in Line : p # 0 => p - 1 \in Line' /\ OnLine(p - 1)' = OnLine(p)
      /\ OnLine(0) = NoMsg
    BY LineMoves DEF Line
<1>2. conn_state' = conn_state /\ link' = link
    BY DEF ParserBegin, modemVars
<1> SUFFICES ASSUME NEW i \in Conn
             PROVE  FirstFits(i)' /\ LastFits(i)' /\ QuietFits(i)' /\ NextFits(i)'
    BY DEF Alternation
<1>3. /\ ~About(0, i)
      /\ \A p \in Line' : About(p, i)' <=> About(p + 1, i)
      /\ \A p \in Line : p # 0 => (About(p, i) <=> About(p - 1, i)')
    BY <1>1 DEF About, NoMsg, Report
<1>4. FirstFits(i) /\ LastFits(i) /\ QuietFits(i) /\ NextFits(i)
    BY DEF Alternation
<1>5. FirstFits(i)'
  <2> SUFFICES ASSUME NEW p \in Line', About(p, i)', \A q \in Line' : q < p => ~About(q, i)'
               PROVE  OnLine(p)'.t = "connect" <=> ~conn_state[i]'
      BY DEF FirstFits
  <2>1. p + 1 \in Line /\ About(p + 1, i) /\ p \in Nat
      BY <1>1, <1>3
  <2>2. ASSUME NEW q \in Line, q < p + 1 PROVE ~About(q, i)
      BY <1>1, <1>3, <2>1, <2>2
  <2> QED BY <1>1, <1>2, <1>4, <2>1, <2>2 DEF FirstFits
<1>6. LastFits(i)'
  <2> SUFFICES ASSUME NEW p \in Line', About(p, i)', \A q \in Line' : p < q => ~About(q, i)'
               PROVE  OnLine(p)'.t = "closed" <=> link[i]' = 0
      BY DEF LastFits
  <2>1. p + 1 \in Line /\ About(p + 1, i) /\ p \in Nat
      BY <1>1, <1>3
  <2>2. ASSUME NEW q \in Line, p + 1 < q PROVE ~About(q, i)
      BY <1>1, <1>3, <2>1, <2>2
  <2> QED BY <1>1, <1>2, <1>4, <2>1, <2>2 DEF LastFits
<1>7. QuietFits(i)'
  <2> SUFFICES ASSUME \A p \in Line' : ~About(p, i)' PROVE conn_state[i]' <=> link[i]' # 0
      BY DEF QuietFits
  <2>1. \A p \in Line : ~About(p, i)
      BY <1>1, <1>3
  <2> QED BY <1>2, <1>4, <2>1 DEF QuietFits
<1>8. NextFits(i)'
  <2> SUFFICES ASSUME NEW p \in Line', NEW q \in Line', p < q, About(p, i)', About(q, i)',
                      \A r \in Line' : p < r /\ r < q => ~About(r, i)'
               PROVE  OnLine(p)'.t = "closed" <=> OnLine(q)'.t = "connect"
      BY DEF NextFits
  <2>1. /\ p + 1 \in Line /\ About(p + 1, i) /\ p \in Nat
        /\ q + 1 \in Line /\ About(q + 1, i) /\ q \in Nat
      BY <1>1, <1>3
  <2>2. ASSUME NEW r \in Line, p + 1 < r, r < q + 1 PROVE ~About(r, i)
      BY <1>1, <1>3, <2>1, <2>2
  <2> QED BY <1>1, <1>4, <2>1, <2>2 DEF NextFits
<1> QED BY <1>5, <1>6, <1>7, <1>8

(* The report that is dispatched is the first about its id, and conn_state   *)
(* becomes what the next one expects.                                       *)
LEMMA AltHead ==
    ASSUME TypeOK, Alternation, rx' = rx, link' = link,
           pmsg'.t \notin {"connect", "recv", "closed"},
           \A i \in Conn : conn_state'[i] =
              (IF About(0, i) THEN pmsg.t # "closed" ELSE conn_state[i])
    PROVE  Alternation'
<1>1. /\ Len(rx) \in Nat /\ Line = 0..Len(rx) /\ Line' = Line /\ OnLine(0) = pmsg
      /\ \A p \in Line : p # 0 => OnLine(p)' = OnLine(p)
      /\ OnLine(0)' = pmsg'
    BY LineHead, LineTypes DEF Line
<1> SUFFICES ASSUME NEW i \in Conn
             PROVE  FirstFits(i)' /\ LastFits(i)' /\ QuietFits(i)' /\ NextFits(i)'
    BY DEF Alternation
<1>2. /\ ~About(0, i)'
      /\ \A p \in Line : p # 0 => (About(p, i)' <=> About(p, i))
    BY <1>1 DEF About
<1>3. FirstFits(i) /\ LastFits(i) /\ QuietFits(i) /\ NextFits(i)
    BY DEF Alternation
<1>4. LastFits(i)' /\ NextFits(i)'
    BY <1>1, <1>2, <1>3 DEF LastFits, NextFits
<1>5. FirstFits(i)' /\ QuietFits(i)'
  <2>1. CASE ~About(0, i)
      BY <1>1, <1>2, <1>3, <2>1 DEF FirstFits, QuietFits
  <2>2. CASE About(0, i)
    <3>1. conn_state'[i] = (OnLine(0).t # "closed")
        BY <1>1, <2>2
    <3>2. FirstFits(i)'
      <4> SUFFICES ASSUME NEW p \in Line, About(p, i)', \A q \in Line : q < p => ~About(q, i)'
                   PROVE  OnLine(p)'.t = "connect" <=> ~conn_state[i]'
          BY <1>1 DEF FirstFits
      <4>1. p # 0 /\ 0 < p /\ 0 \in Line /\ About(p, i)
          BY <1>1, <1>2
      <4>2. \A r \in Line : 0 < r /\ r < p => ~About(r, i)
          BY <1>1, <1>2
      <4>3. OnLine(0).t = "closed" <=> OnLine(p).t = "connect"
          BY <1>3, <2>2, <4>1, <4>2 DEF NextFits
      <4> QED BY <1>1, <3>1, <4>1, <4>3
    <3>3. QuietFits(i)'
      <4> SUFFICES ASSUME \A p \in Line : ~About(p, i)' PROVE conn_state[i]' <=> link[i]' # 0
          BY <1>1 DEF QuietFits
      <4>1. OnLine(0).t = "closed" <=> link[i] = 0
          BY <1>1, <1>2, <1>3, <2>2 DEF LastFits
      <4> QED BY <3>1, <4>1
    <3> QED BY <3>2, <3>3
  <2> QED BY <2>1, <2>2
<1> QED BY <1>4, <1>5

LEMMA AltKeeps ==
    ASSUME TypeOK, Alternation, rx' = rx, pmsg' = pmsg, link' = link, conn_state' = conn_state
    PROVE  Alternation'
<1>1. Line' = Line /\ \A p \in Line : OnLine(p)' = OnLine(p)
    BY LineSame
<1> QED BY <1>1 DEF Alternation, FirstFits, LastFits, QuietFits, NextFits, About

LEMMA AltLinkEnds ==
    ASSUME Typed, Alternation, NEW i \in Conn, LinkEnds(i), pmsg' = pmsg, conn_state' = conn_state
    PROVE  Alternation'
<1> DEFINE m == Report("closed", i, link[i], 0)
<1>1. link[i] \in 1..MaxInc /\ link[i] # 0
    BY SockAssumption DEF LinkEnds, Typed, TypeOK
<1>2. m \in Reports /\ m.id = i /\ m.t = "closed"
    BY <1>1 DEF Report, Reports
<1>3. rx' = Append(rx, m) /\ link' = [link EXCEPT ![i] = 0] /\ link \in [Conn -> 0..MaxInc]
    BY DEF LinkEnds, Typed, TypeOK
<1> HIDE DEF m
<1> QED BY <1>1, <1>2, <1>3, AltGrows DEF Typed

(* A connection is announced when its id is not connected: what atc_dispatch *)
(* ignores never comes.                                                     *)
LEMMA HeadFits ==
    ASSUME Typed, Alternation, pmsg # NoMsg
    PROVE  /\ pmsg \in Reports /\ pmsg.id \in Conn
           /\ pmsg.t = "connect" => ~conn_state[pmsg.id]
           /\ pmsg.t \in {"recv", "closed"} => conn_state[pmsg.id]
<1>1. pmsg \in Reports /\ pmsg.id \in Conn
    BY DEF Typed, TypeOK, Reports, Pieces
<1>2. 0 \in Line /\ OnLine(0) = pmsg /\ \A q \in Line : ~(q < 0)
    BY LineTypes DEF Line, OnLine, Typed
<1>3. pmsg.t \in {"connect", "recv", "closed"} => (pmsg.t = "connect" <=> ~conn_state[pmsg.id])
    BY <1>1, <1>2 DEF Alternation, FirstFits, About
<1> QED BY <1>1, <1>3

LEMMA AltStep == ASSUME Typed, Alternation, [Next]_vars PROVE Alternation'
<1> USE DEF Typed
<1>1. ASSUME NEW i \in Conn, Connect(i) PROVE Alternation'
  <2> DEFINE m == Report("connect", i, inc[i] + 1, 0)
  <2>1. inc[i] + 1 \in 1..MaxInc /\ link[i] = 0
      BY <1>1, ConnectCounts
  <2>2. m \in Reports /\ m.id = i /\ m.t = "connect"
      BY <2>1 DEF Report, Reports
  <2>3. /\ rx' = Append(rx, m) /\ link' = [link EXCEPT ![i] = inc[i] + 1]
        /\ pmsg' = pmsg /\ conn_state' = conn_state /\ link \in [Conn -> 0..MaxInc]
      BY <1>1 DEF Connect, TypeOK, parserVars
  <2> HIDE DEF m
  <2> QED BY <2>1, <2>2, <2>3, AltGrows
<1>2. ASSUME NEW i \in Conn, PeerSends(i) PROVE Alternation'
  <2>1. PICK m : m = Report("recv", i, link[i], chunks[<<i, link[i]>>] + 1)
      OBVIOUS
  <2>2. rx' = Append(rx, m) /\ pmsg' = pmsg /\ conn_state' = conn_state /\ link' = link /\ link[i] # 0
      BY <1>2, <2>1 DEF PeerSends, parserVars
  <2>3. link[i] \in 1..MaxInc /\ chunks[<<i, link[i]>>] + 1 \in 1..MaxChunk
    <3>1. link[i] \in 1..MaxInc /\ <<i, link[i]>> \in Made
        BY <2>2 DEF TypeOK, Made
    <3>2. chunks[<<i, link[i]>>] \in 0..MaxChunk /\ chunks[<<i, link[i]>>] < MaxChunk
        BY <1>2, <3>1 DEF PeerSends, TypeOK
    <3> QED BY <3>1, <3>2, SockAssumption
  <2>4. m \in Reports /\ m.id = i /\ m.t = "recv"
      BY <2>1, <2>3 DEF Report, Reports, Pieces
  <2> QED BY <2>2, <2>4, AltGrows
<1>3. ASSUME NEW i \in Conn, PeerCloses(i) PROVE Alternation'
    BY <1>3, AltLinkEnds DEF PeerCloses, parserVars
<1>4. CASE ParserBegin
    BY <1>4, AltMoves
<1>5. CASE DispatchAccepted
  <2>1. pmsg # NoMsg /\ pmsg.t = "connect"
      BY <1>5 DEF DispatchAccepted, NoMsg, Report
  <2>2. pmsg \in Reports /\ pmsg.id \in Conn /\ ~conn_state[pmsg.id]
      BY <2>1, HeadFits
  <2>3. /\ conn_state' = [conn_state EXCEPT ![pmsg.id] = TRUE] /\ pmsg' = [pmsg EXCEPT !.t = "announce"]
        /\ rx' = rx /\ link' = link
      BY <1>5, <2>2 DEF DispatchAccepted, modemVars
  <2>4. pmsg'.t = "announce"
      BY <2>2, <2>3 DEF Reports, Pieces
  <2>5. \A i \in Conn : conn_state'[i] = IF About(0, i) THEN pmsg.t # "closed" ELSE conn_state[i]
      BY <2>1, <2>2, <2>3 DEF TypeOK, About, OnLine
  <2> QED BY <2>3, <2>4, <2>5, AltHead
<1>6. CASE Announce
  <2>1. pmsg.t = "announce" /\ pmsg'.t = "none" /\ rx' = rx /\ link' = link /\ conn_state' = conn_state
      BY <1>6 DEF Announce, NoMsg, Report, modemVars
  <2>2. \A i \in Conn : ~About(0, i)
      BY <2>1 DEF About, OnLine
  <2> QED BY <2>1, <2>2, AltHead
<1>7. CASE DispatchClosed
  <2>1. pmsg # NoMsg /\ pmsg.t = "closed"
      BY <1>7 DEF DispatchClosed, NoMsg, Report
  <2>2. pmsg \in Reports /\ pmsg.id \in Conn
      BY <2>1, HeadFits
  <2>3. /\ conn_state' = [conn_state EXCEPT ![pmsg.id] = FALSE] /\ pmsg'.t = "none"
        /\ rx' = rx /\ link' = link
      BY <1>7, <2>2 DEF DispatchClosed, modemVars, NoMsg, Report
  <2>4. \A i \in Conn : conn_state'[i] = IF About(0, i) THEN pmsg.t # "closed" ELSE conn_state[i]
      BY <2>1, <2>2, <2>3 DEF TypeOK, About, OnLine
  <2> QED BY <2>3, <2>4, AltHead
<1>8. CASE DispatchRecv
  <2>1. pmsg # NoMsg /\ pmsg.t = "recv"
      BY <1>8 DEF DispatchRecv, NoMsg, Report
  <2>2. pmsg \in Reports /\ pmsg.id \in Conn /\ conn_state[pmsg.id]
      BY <2>1, HeadFits
  <2>3. conn_state' = conn_state /\ pmsg'.t = "none" /\ rx' = rx /\ link' = link
      BY <1>8, <2>2 DEF DispatchRecv, modemVars, NoMsg, Report
  <2>4. \A i \in Conn : conn_state'[i] = IF About(0, i) THEN pmsg.t # "closed" ELSE conn_state[i]
      BY <2>1, <2>2, <2>3 DEF TypeOK, About, OnLine
  <2> QED BY <2>3, <2>4, AltHead
<1>9. CASE CloseDone
  <2>1. fd \in Conn /\ pmsg' = pmsg /\ conn_state' = conn_state
      BY <1>9 DEF CloseDone, Serves, parserVars
  <2>2. CASE LinkEnds(fd)
      BY <2>1, <2>2, AltLinkEnds
  <2>3. CASE link' = link /\ rx' = rx
      BY <2>1, <2>3, AltKeeps
  <2> QED BY <1>9, <2>2, <2>3 DEF CloseDone
<1>10. CASE Accept \/ Recv \/ SendStart \/ SendDone \/ CloseStart \/ \E n \in Sizes : RecvStart(n)
  <2>1. rx' = rx /\ pmsg' = pmsg /\ link' = link /\ conn_state' = conn_state
      BY <1>10 DEF Accept, Recv, RecvEnough, RecvMore, RecvPop, SendStart, SendDone, CloseStart,
                   RecvStart, modemVars, parserVars
  <2> QED BY <2>1, AltKeeps
<1>11. CASE UNCHANGED vars
    BY <1>11, AltKeeps DEF vars, modemVars, parserVars
<1> QED BY <1>1, <1>2, <1>3, <1>4, <1>5, <1>6, <1>7, <1>8, <1>9, <1>10, <1>11
        DEF Next, Modem, Parser, Sshd

LEMMA AltAlways == Spec => [](Typed /\ Alternation)
BY TypeInit, TypeStep, AltInit, AltStep, PTL DEF Spec

-----------------------------------------------------------------------------
(* Incarnations: the modem numbers them, so no connection is made twice, and *)
(* nothing is about a connection that has not been made.                    *)
Numbered ==
    /\ \A i \in Conn : link[i] \in {0, inc[i]}
    /\ \A p \in Line, i \in Conn : OnLine(p).id = i => OnLine(p).inc <= inc[i]
    /\ \A k \in 1..Len(connects) : connects[k][2] <= inc[connects[k][1]]
    /\ \A j, k \in 1..Len(connects) : connects[j] = connects[k] => j = k

LEMMA NumberedInit == Init => Numbered
<1> SUFFICES ASSUME Init PROVE Numbered
    OBVIOUS
<1>1. \A p \in Line : p = 0 /\ OnLine(p) = NoMsg
    BY DEF Init, Line, OnLine
<1>2. \A i \in Conn : i # NoMsg.id
    BY SockAssumption DEF NoMsg, Report
<1>3. connects = <<>> /\ \A i \in Conn : link[i] = 0
    BY DEF Init
<1> QED BY <1>1, <1>2, <1>3 DEF Numbered

LEMMA NumberedGrows ==
    ASSUME Typed, Numbered, NEW i \in Conn, NEW m \in Reports, m.id = i, m.inc <= inc[i],
           rx' = Append(rx, m), pmsg' = pmsg, inc' = inc, connects' = connects,
           link' = link \/ link' = [link EXCEPT ![i] = 0]
    PROVE  Numbered'
<1> DEFINE new == Len(rx) + 1
<1>1. /\ Line' = Line \cup {new} /\ new \notin Line
      /\ \A p \in Line : OnLine(p)' = OnLine(p)
      /\ \A p : p = new => OnLine(p)' = m
    BY LineGrows DEF Line, Typed
<1>2. \A j \in Conn : link'[j] \in {0, inc[j]}
    BY DEF Numbered, Typed, TypeOK
<1> HIDE DEF new
<1> QED BY <1>1, <1>2 DEF Numbered

LEMMA NumberedSame ==
    ASSUME Typed, Numbered, inc' = inc, connects' = connects, link' = link,
           \A p \in Line' : \/ OnLine(p)'.id \notin Conn
                            \/ \E q \in Line : OnLine(p)'.id = OnLine(q).id /\ OnLine(p)'.inc = OnLine(q).inc
    PROVE  Numbered'
BY DEF Numbered

LEMMA NumberedStep == ASSUME Typed, Alternation, Numbered, [Next]_vars PROVE Numbered'
<1> USE DEF Typed
<1>1. ASSUME NEW i \in Conn, Connect(i) PROVE Numbered'
  <2> DEFINE m == Report("connect", i, inc[i] + 1, 0)   new == Len(rx) + 1
  <2>1. inc[i] + 1 \in 1..MaxInc /\ link[i] = 0 /\ inc \in [Conn -> 0..MaxInc]
      BY <1>1, ConnectCounts
  <2>2. m \in Reports /\ m.id = i /\ m.inc = inc[i] + 1
      BY <2>1 DEF Report, Reports
  <2>3. /\ rx' = Append(rx, m) /\ link' = [link EXCEPT ![i] = inc[i] + 1] /\ pmsg' = pmsg
        /\ inc' = [inc EXCEPT ![i] = @ + 1] /\ connects' = Append(connects, <<i, inc[i] + 1>>)
      BY <1>1 DEF Connect, parserVars
  <2> HIDE DEF m
  <2>4. /\ Line' = Line \cup {new}
        /\ \A p \in Line : OnLine(p)' = OnLine(p)
        /\ \A p : p = new => OnLine(p)' = m
      BY <2>2, <2>3, LineGrows DEF Line
  <2> HIDE DEF new
  <2>5. \A j \in Conn : inc[j] <= inc'[j] /\ inc[j] \in Nat /\ inc'[j] \in Nat
    <3> TAKE j \in Conn
    <3>1. inc[j] \in Nat
        BY <2>1, SockAssumption
    <3>2. inc'[j] = IF j = i THEN inc[j] + 1 ELSE inc[j]
        BY <2>1, <2>3
    <3> QED BY <3>1, <3>2
  <2>6. \A j \in Conn : link'[j] \in {0, inc'[j]}
      BY <2>1, <2>3 DEF Numbered, TypeOK
  <2>7. \A p \in Line', j \in Conn : OnLine(p)'.id = j => OnLine(p)'.inc <= inc'[j]
    <3> SUFFICES ASSUME NEW p \in Line', NEW j \in Conn, OnLine(p)'.id = j
                 PROVE  OnLine(p)'.inc <= inc'[j]
        OBVIOUS
    <3>1. CASE p \in Line
      <4>1. OnLine(p) \in Reports /\ OnLine(p)' = OnLine(p)
          BY <2>4, <3>1, LineTypes, SockAssumption
      <4>2. OnLine(p).inc \in Nat /\ OnLine(p).inc <= inc[j]
          BY <4>1, <3>1 DEF Numbered, Reports, Pieces
      <4> QED BY <2>1, <2>5, <4>1, <4>2
    <3>2. CASE p = new
        BY <2>1, <2>2, <2>3, <2>4, <3>2
    <3> QED BY <2>4, <3>1, <3>2
  <2>8. /\ connects \in Seq(Made) /\ Len(connects) \in Nat /\ <<i, inc[i] + 1>> \in Made
        /\ \A k \in 1..Len(connects) : connects[k] \in Made
      BY <2>1, LenProperties, ElementOfSeq DEF TypeOK, Made
  <2>9. /\ Len(connects') = Len(connects) + 1
        /\ \A k \in 1..Len(connects) : connects'[k] = connects[k]
        /\ connects'[Len(connects) + 1] = <<i, inc[i] + 1>>
      BY <2>3, <2>8, AppendProperties
  <2>10. \A k \in 1..Len(connects) :
            /\ connects[k][1] \in Conn /\ connects[k][2] \in Nat
            /\ connects[k][2] <= inc[connects[k][1]]
            /\ connects[k] = <<connects[k][1], connects[k][2]>>
      BY <2>8 DEF Numbered, Made
  <2>11. \A k \in 1..Len(connects') : connects'[k][2] <= inc'[connects'[k][1]]
    <3> SUFFICES ASSUME NEW k \in 1..Len(connects') PROVE connects'[k][2] <= inc'[connects'[k][1]]
        OBVIOUS
    <3>1. CASE k \in 1..Len(connects)
      <4>1. connects'[k] = connects[k] /\ inc[connects[k][1]] <= inc'[connects[k][1]]
          BY <2>5, <2>9, <2>10, <3>1
      <4> QED BY <2>1, <2>3, <2>5, <2>10, <3>1, <4>1
    <3>2. CASE k = Len(connects) + 1
        BY <2>1, <2>3, <2>9, <3>2
    <3> QED BY <2>8, <2>9, <3>1, <3>2
  <2>12. \A k \in 1..Len(connects) : connects[k] # <<i, inc[i] + 1>>
      BY <2>1, <2>10
  <2>13. \A j, k \in 1..Len(connects') : connects'[j] = connects'[k] => j = k
      BY <2>8, <2>9, <2>12 DEF Numbered
  <2> QED BY <2>6, <2>7, <2>11, <2>13 DEF Numbered
<1>2. ASSUME NEW i \in Conn, PeerSends(i) PROVE Numbered'
  <2>1. PICK m : m = Report("recv", i, link[i], chunks[<<i, link[i]>>] + 1)
      OBVIOUS
  <2>2. /\ rx' = Append(rx, m) /\ pmsg' = pmsg /\ link' = link /\ link[i] # 0
        /\ inc' = inc /\ connects' = connects
      BY <1>2, <2>1 DEF PeerSends, parserVars, connectVars
  <2>3. link[i] \in 1..MaxInc /\ chunks[<<i, link[i]>>] + 1 \in 1..MaxChunk
    <3>1. link[i] \in 1..MaxInc /\ <<i, link[i]>> \in Made
        BY <2>2 DEF TypeOK, Made
    <3>2. chunks[<<i, link[i]>>] \in 0..MaxChunk /\ chunks[<<i, link[i]>>] < MaxChunk
        BY <1>2, <3>1 DEF PeerSends, TypeOK
    <3> QED BY <3>1, <3>2, SockAssumption
  <2>4. m \in Reports /\ m.id = i /\ m.inc = link[i] /\ link[i] = inc[i]
      BY <2>1, <2>2, <2>3 DEF Report, Reports, Pieces, Numbered
  <2> QED BY <2>2, <2>3, <2>4, NumberedGrows
<1>3. ASSUME NEW i \in Conn, LinkEnds(i), pmsg' = pmsg, inc' = inc, connects' = connects
      PROVE  Numbered'
  <2> DEFINE m == Report("closed", i, link[i], 0)
  <2>1. link[i] \in 1..MaxInc /\ link[i] = inc[i]
      BY <1>3, SockAssumption DEF LinkEnds, TypeOK, Numbered
  <2>2. m \in Reports /\ m.id = i /\ m.inc <= inc[i]
      BY <2>1 DEF Report, Reports
  <2>3. rx' = Append(rx, m) /\ link' = [link EXCEPT ![i] = 0]
      BY <1>3 DEF LinkEnds
  <2> HIDE DEF m
  <2> QED BY <1>3, <2>2, <2>3, NumberedGrows
<1>4. ASSUME NEW i \in Conn, PeerCloses(i) PROVE Numbered'
    BY <1>3, <1>4 DEF PeerCloses, parserVars, connectVars
<1>5. CASE ParserBegin
  <2>1. inc' = inc /\ connects' = connects /\ link' = link
      BY <1>5 DEF ParserBegin, modemVars, connectVars
  <2>2. \A p \in Line' : p + 1 \in Line /\ OnLine(p)' = OnLine(p + 1)
      BY <1>5, LineMoves
  <2> QED BY <2>1, <2>2, NumberedSame
<1>6. CASE DispatchAccepted \/ Announce \/ DispatchClosed \/ DispatchRecv
  <2>1. inc' = inc /\ connects' = connects /\ link' = link /\ rx' = rx /\ pmsg # NoMsg
      BY <1>6 DEF DispatchAccepted, Announce, DispatchClosed, DispatchRecv, modemVars, connectVars,
                  NoMsg, Report
  <2>2. pmsg'.id \notin Conn \/ (pmsg'.id = pmsg.id /\ pmsg'.inc = pmsg.inc)
    <3>1. pmsg \in Reports
        BY <2>1, HeadFits
    <3>2. pmsg' = NoMsg \/ pmsg' = [pmsg EXCEPT !.t = "announce"]
        BY <1>6 DEF DispatchAccepted, Announce, DispatchClosed, DispatchRecv
    <3> QED BY <3>1, <3>2, SockAssumption DEF NoMsg, Report, Reports, Pieces
  <2>3. /\ Line' = Line /\ OnLine(0)' = pmsg' /\ OnLine(0) = pmsg /\ 0 \in Line
        /\ \A p \in Line : p # 0 => OnLine(p)' = OnLine(p)
      BY <2>1, LineHead
  <2> QED BY <2>1, <2>2, <2>3, NumberedSame
<1>7. CASE CloseDone
  <2>1. fd \in Conn /\ pmsg' = pmsg /\ inc' = inc /\ connects' = connects
      BY <1>7 DEF CloseDone, Serves, parserVars, connectVars
  <2>2. CASE LinkEnds(fd)
      BY <1>3, <2>1, <2>2
  <2>3. CASE link' = link /\ rx' = rx
      BY <2>1, <2>3, LineSame, NumberedSame
  <2> QED BY <1>7, <2>2, <2>3 DEF CloseDone
<1>8. CASE Accept \/ Recv \/ SendStart \/ SendDone \/ CloseStart \/ UNCHANGED vars
           \/ \E n \in Sizes : RecvStart(n)
  <2>1. rx' = rx /\ pmsg' = pmsg /\ link' = link /\ inc' = inc /\ connects' = connects
      BY <1>8 DEF Accept, Recv, RecvEnough, RecvMore, RecvPop, SendStart, SendDone, CloseStart,
                  RecvStart, modemVars, parserVars, connectVars, vars
  <2> QED BY <2>1, LineSame, NumberedSame
<1> QED BY <1>1, <1>2, <1>4, <1>5, <1>6, <1>7, <1>8 DEF Next, Modem, Parser, Sshd

-----------------------------------------------------------------------------
(* Each connection is accepted once.                                        *)
Later    == (Len(Announced) + 1)..Len(connects)
Comes(p) == OnLine(p).t \in {"connect", "announce"}

LEMMA Lengths ==
    ASSUME TypeOK
    PROVE  /\ Len(connects) \in Nat /\ Len(accepted) \in Nat /\ Len(preacc) \in Nat
           /\ Announced \in Seq(Made) /\ Len(Announced) = Len(accepted) + Len(preacc)
           /\ \A k \in 1..Len(accepted) : Announced[k] = accepted[k]
           /\ \A k \in 1..Len(preacc) : Announced[Len(accepted) + k] = preacc[k]
<1>1. /\ connects \in Seq(Made) /\ accepted \in Seq(Made) /\ preacc \in Seq(Made)
      /\ Len(connects) \in Nat /\ Len(accepted) \in Nat /\ Len(preacc) \in Nat
    BY LenProperties DEF TypeOK
<1>2. /\ Announced \in Seq(Made) /\ Len(Announced) = Len(accepted) + Len(preacc)
      /\ \A k \in 1..(Len(accepted) + Len(preacc)) : Announced[k] =
            IF k <= Len(accepted) THEN accepted[k] ELSE preacc[k - Len(accepted)]
    BY <1>1, ConcatProperties DEF Announced
<1>3. \A k \in 1..Len(accepted) : Announced[k] = accepted[k]
  <2>1. \A a, b \in Nat : \A k \in 1..a : k \in 1..(a + b) /\ k <= a
      OBVIOUS
  <2> QED BY <1>1, <1>2, <2>1
<1>4. \A k \in 1..Len(preacc) : Announced[Len(accepted) + k] = preacc[k]
  <2> TAKE k \in 1..Len(preacc)
  <2>1. /\ Len(accepted) + k \in 1..(Len(accepted) + Len(preacc))
        /\ ~(Len(accepted) + k <= Len(accepted)) /\ (Len(accepted) + k) - Len(accepted) = k
      BY <1>1
  <2> QED BY <1>2, <2>1
<1> QED BY <1>1, <1>2, <1>3, <1>4

LEMMA OnceInit == Init => EachAcceptedOnce
<1> SUFFICES ASSUME Init PROVE EachAcceptedOnce
    OBVIOUS
<1>1. Announced = <<>> /\ connects = <<>> /\ rx = <<>>
    BY DEF Init, Announced
<1>2. Len(Announced) = 0 /\ Len(connects) = 0 /\ Len(rx) = 0
    BY <1>1
<1>3. \A p \in 0..0 : OnLine(p).t = "none"
    BY DEF Init, OnLine, NoMsg, Report
<1> QED BY <1>2, <1>3 DEF EachAcceptedOnce

LEMMA OnceSame ==
    ASSUME Typed, EachAcceptedOnce, Announced' = Announced, connects' = connects,
           Line \subseteq Line',
           \A p \in Line : Comes(p)' <=> Comes(p),
           \A p \in Line : Comes(p) =>
               OnLine(p)'.id = OnLine(p).id /\ OnLine(p)'.inc = OnLine(p).inc,
           \A p \in Line' : p \notin Line => ~Comes(p)'
    PROVE  EachAcceptedOnce'
<1>1. \A p \in Line : \A c : Names(OnLine(p), c)' <=> Names(OnLine(p), c)
    BY DEF Names, Comes
<1>2. \A p \in Line' : \A c : Names(OnLine(p), c)' => p \in Line
    BY DEF Names, Comes
<1> QED BY <1>1, <1>2 DEF EachAcceptedOnce, Comes, Line

LEMMA OnceConnect ==
    ASSUME Typed, Numbered, EachAcceptedOnce, NEW i \in Conn, Connect(i)
    PROVE  EachAcceptedOnce'
<1> DEFINE c == <<i, inc[i] + 1>>   m == Report("connect", i, inc[i] + 1, 0)
           N == Len(connects)   L == Len(Announced)
<1>1. inc[i] + 1 \in 1..MaxInc /\ inc[i] \in Nat /\ c \in Made
    BY ConnectCounts DEF Typed, Made
<1>2. m \in Reports /\ m.id = i /\ m.inc = inc[i] + 1 /\ m.t = "connect"
    BY <1>1 DEF Report, Reports
<1>3. /\ rx' = Append(rx, m) /\ pmsg' = pmsg
      /\ connects' = Append(connects, c) /\ Announced' = Announced
    BY DEF Connect, parserVars, taskVars, Announced
<1>4. /\ Len(connects') = N + 1 /\ N \in Nat /\ L \in Nat /\ L <= N
      /\ \A k \in 1..N : connects'[k] = connects[k]
      /\ connects'[N + 1] = c
  <2>1. N \in Nat /\ L \in Nat /\ connects \in Seq(Made)
      BY Lengths, LenProperties DEF Typed, TypeOK
  <2>2. L <= N
      BY DEF EachAcceptedOnce
  <2> HIDE DEF c
  <2> QED BY <1>1, <1>3, <2>1, <2>2, AppendProperties
<1>5. \A k \in 1..N : connects[k] # c
  <2> TAKE k \in 1..N
  <2>1. connects[k][2] <= inc[connects[k][1]]
      BY DEF Numbered
  <2>2. c[1] = i /\ c[2] = inc[i] + 1
      OBVIOUS
  <2> HIDE DEF c
  <2> QED BY <1>1, <2>1, <2>2
<1>6. \A k : Names(m, k) <=> k = c
    BY <1>2 DEF Names
<1>7. /\ Len(rx') = Len(rx) + 1 /\ Len(rx) \in Nat
      /\ \A p \in 0..Len(rx) : OnLine(p)' = OnLine(p)
      /\ \A p : p = Len(rx) + 1 => OnLine(p)' = m
    BY <1>2, <1>3, LineGrows DEF Line, Typed
<1> HIDE DEF c, m, N, L
<1>8. \A p \in 0..Len(rx) : ~Names(OnLine(p), c)
  <2> SUFFICES ASSUME NEW p \in 0..Len(rx), Names(OnLine(p), c) PROVE FALSE
      OBVIOUS
  <2>1. PICK k \in (L + 1)..N : Names(OnLine(p), connects[k])
      BY DEF EachAcceptedOnce, Names, N, L
  <2>2. connects[k] = c
      BY <2>1 DEF Names
  <2> QED BY <1>4, <1>5, <2>2
<1> DEFINE later == (L + 1)..N   line == 0..Len(rx)
<1>9. /\ (L + 1)..(N + 1) = later \cup {N + 1} /\ 0..(Len(rx) + 1) = line \cup {Len(rx) + 1}
      /\ \A k \in later : k \in 1..N /\ k < N + 1 /\ k \in Nat
      /\ \A p \in line : p < Len(rx) + 1 /\ p \in Nat
    BY <1>4, <1>7
<1>10. \A k \in later : connects'[k] = connects[k]
    BY <1>4, <1>9
<1>11. /\ \A k \in later : \E p \in line : Names(OnLine(p), connects[k])
       /\ \A p \in line : OnLine(p).t \in {"connect", "announce"} =>
             \E k \in later : Names(OnLine(p), connects[k])
       /\ \A j, k \in later, p, q \in line :
             (Names(OnLine(p), connects[j]) /\ Names(OnLine(q), connects[k])) => (j < k <=> p < q)
       /\ \A k \in 1..L : connects[k] = Announced[k]
    BY DEF EachAcceptedOnce, N, L
<1>13. \A p \in line : OnLine(p)' = OnLine(p)
    BY <1>7
<1> HIDE DEF later, line
<1>14. \A k \in later \cup {N + 1} : \E p \in line \cup {Len(rx) + 1} :
          Names(OnLine(p)', connects'[k])
  <2>1. \A k \in later : \E p \in line : Names(OnLine(p)', connects'[k])
      BY <1>10, <1>11, <1>13
  <2>2. \A p : p = Len(rx) + 1 => Names(OnLine(p)', connects'[N + 1])
      BY <1>4, <1>6, <1>7
  <2> QED BY <2>1, <2>2
<1>15. \A p \in line \cup {Len(rx) + 1} : OnLine(p)'.t \in {"connect", "announce"} =>
          \E k \in later \cup {N + 1} : Names(OnLine(p)', connects'[k])
  <2>1. \A p \in line : OnLine(p)'.t \in {"connect", "announce"} =>
          \E k \in later : Names(OnLine(p)', connects'[k])
      BY <1>10, <1>11, <1>13
  <2>2. \A p : p = Len(rx) + 1 => Names(OnLine(p)', connects'[N + 1])
      BY <1>4, <1>6, <1>7
  <2> QED BY <2>1, <2>2
<1>16. ASSUME NEW j \in later \cup {N + 1}, NEW k \in later \cup {N + 1},
              NEW p \in line \cup {Len(rx) + 1}, NEW q \in line \cup {Len(rx) + 1},
              Names(OnLine(p)', connects'[j]), Names(OnLine(q)', connects'[k])
       PROVE  j < k <=> p < q
  <2>1. /\ j = N + 1 <=> p = Len(rx) + 1
        /\ k = N + 1 <=> q = Len(rx) + 1
    <3>1. ASSUME NEW n \in later \cup {N + 1}, NEW r \in line \cup {Len(rx) + 1},
                 Names(OnLine(r)', connects'[n])
          PROVE  n = N + 1 <=> r = Len(rx) + 1
      <4>1. CASE r = Len(rx) + 1
        <5>1. connects'[n] = c
            BY <1>6, <1>7, <3>1, <4>1
        <5>2. n \notin later
            BY <1>5, <1>9, <1>10, <5>1
        <5> QED BY <4>1, <5>2
      <4>2. CASE r \in line
        <5>1. Names(OnLine(r), connects'[n])
            BY <1>13, <3>1, <4>2
        <5>2. n # N + 1
            BY <1>4, <1>8, <4>2, <5>1 DEF line
        <5> QED BY <1>9, <4>2, <5>2
      <4> QED BY <4>1, <4>2
    <3> QED BY <1>16, <3>1
  <2>2. CASE j \in later /\ k \in later
    <3>1. p \in line /\ q \in line
        BY <1>9, <2>1, <2>2
    <3> QED BY <1>10, <1>11, <1>13, <1>16, <2>2, <3>1
  <2>3. CASE j = N + 1
      BY <1>4, <1>7, <1>9, <2>1, <2>3
  <2>4. CASE k = N + 1
      BY <1>4, <1>7, <1>9, <2>1, <2>4
  <2> QED BY <2>2, <2>3, <2>4
<1>17. \A k \in 1..L : connects'[k] = Announced[k]
    BY <1>4, <1>11
<1>18. /\ Len(Announced)' = L /\ L <= N + 1 /\ Len(connects)' = N + 1 /\ Len(rx)' = Len(rx) + 1
       /\ Announced' = Announced
    BY <1>3, <1>4, <1>7 DEF L
<1>19. Later' = later \cup {N + 1} /\ Line' = line \cup {Len(rx) + 1}
    BY <1>9, <1>18 DEF Later, Line
<1>20. \A k \in Later' : \E p \in Line' : Names(OnLine(p), connects[k])'
    BY <1>14, <1>19 DEF Names
<1>21. \A p \in Line' : Comes(p)' => \E k \in Later' : Names(OnLine(p), connects[k])'
    BY <1>15, <1>19 DEF Names, Comes
<1>22. ASSUME NEW j \in Later', NEW k \in Later', NEW p \in Line', NEW q \in Line',
              Names(OnLine(p), connects[j])', Names(OnLine(q), connects[k])'
       PROVE  j < k <=> p < q
    BY <1>16, <1>19, <1>22 DEF Names
<1>23. Len(Announced') <= Len(connects') /\ \A k \in 1..Len(Announced') : connects'[k] = Announced'[k]
    BY <1>17, <1>18
<1> QED BY <1>20, <1>21, <1>22, <1>23 DEF EachAcceptedOnce, Later, Line, Comes

LEMMA OnceMoves ==
    ASSUME Typed, EachAcceptedOnce, ParserBegin
    PROVE  EachAcceptedOnce'
<1>1. /\ Len(rx) \in Nat /\ Line = 0..Len(rx) /\ Line' = 0..(Len(rx) - 1)
      /\ \A p \in Line' : p + 1 \in Line /\ OnLine(p)' = OnLine(p + 1)
      /\ \A p \in Line : p # 0 => p - 1 \in Line' /\ OnLine(p - 1)' = OnLine(p)
      /\ ~Comes(0)
    BY LineMoves DEF Line, Typed, Comes, NoMsg, Report
<1>2. connects' = connects /\ Announced' = Announced
    BY DEF ParserBegin, connectVars, taskVars, Announced
<1>3. Later' = Later
    BY <1>2 DEF Later
<1>4. \A k \in Later' : \E p \in Line' : Names(OnLine(p), connects[k])'
  <2> TAKE k \in Later'
  <2>1. PICK p \in Line : Names(OnLine(p), connects[k])
      BY <1>3 DEF EachAcceptedOnce, Later, Line
  <2>2. p # 0
      BY <1>1, <2>1 DEF Names, Comes
  <2>3. p - 1 \in Line' /\ OnLine(p - 1)' = OnLine(p)
      BY <1>1, <2>2
  <2> QED BY <1>2, <2>1, <2>3 DEF Names
<1>5. \A p \in Line' : Comes(p)' => \E k \in Later' : Names(OnLine(p), connects[k])'
  <2> SUFFICES ASSUME NEW p \in Line', Comes(p)' PROVE \E k \in Later' : Names(OnLine(p), connects[k])'
      OBVIOUS
  <2>1. p + 1 \in Line /\ OnLine(p)' = OnLine(p + 1)
      BY <1>1
  <2>2. PICK k \in Later : Names(OnLine(p + 1), connects[k])
      BY <2>1 DEF EachAcceptedOnce, Later, Line, Comes
  <2> QED BY <1>2, <1>3, <2>1, <2>2 DEF Names
<1>6. ASSUME NEW j \in Later', NEW k \in Later', NEW p \in Line', NEW q \in Line',
             Names(OnLine(p), connects[j])', Names(OnLine(q), connects[k])'
      PROVE  j < k <=> p < q
  <2>1. p + 1 \in Line /\ OnLine(p)' = OnLine(p + 1) /\ q + 1 \in Line /\ OnLine(q)' = OnLine(q + 1)
      BY <1>1
  <2>2. Names(OnLine(p + 1), connects[j]) /\ Names(OnLine(q + 1), connects[k])
      BY <1>2, <1>6, <2>1 DEF Names
  <2>3. \A a, b \in Line : (Names(OnLine(a), connects[j]) /\ Names(OnLine(b), connects[k]))
                              => (j < k <=> a < b)
      BY <1>3 DEF EachAcceptedOnce, Later, Line
  <2>4. j < k <=> p + 1 < q + 1
      BY <2>1, <2>2, <2>3
  <2> QED BY <1>1, <2>1, <2>4
<1> QED BY <1>2, <1>3, <1>4, <1>5, <1>6 DEF EachAcceptedOnce, Later, Line, Comes

LEMMA OnceAnnounce ==
    ASSUME Typed, EachAcceptedOnce, Announce
    PROVE  EachAcceptedOnce'
<1> DEFINE L == Len(Announced)
<1>1. /\ Len(connects) \in Nat /\ L \in Nat /\ Announced \in Seq(Made) /\ preacc \in Seq(Made)
      /\ accepted \in Seq(Made)
    BY Lengths, LenProperties DEF Typed, TypeOK
<1>2. /\ Len(rx) \in Nat /\ Line = 0..Len(rx) /\ Line' = Line /\ OnLine(0) = pmsg /\ 0 \in Line
      /\ \A p \in Line : p # 0 => OnLine(p)' = OnLine(p)
      /\ OnLine(0)' = pmsg' /\ pmsg.t = "announce" /\ ~Comes(0)'
    BY LineHead, LineTypes DEF Line, Typed, Announce, modemVars, Comes, NoMsg, Report
<1>3. connects' = connects /\ preacc' = Append(preacc, <<pmsg.id, pmsg.inc>>) /\ accepted' = accepted
    BY DEF Announce, connectVars, taskVars
<1>4. PICK k \in Later : Names(pmsg, connects[k])
    BY <1>2 DEF EachAcceptedOnce, Later, Line
<1>5. k = L + 1
  <2>1. k \in Nat /\ L + 1 <= k /\ k <= Len(connects)
      BY <1>1, <1>4 DEF Later
  <2>2. ASSUME L + 1 < k PROVE FALSE
    <3>1. L + 1 \in Later
        BY <1>1, <2>1, <2>2 DEF Later
    <3>2. PICK p \in Line : Names(OnLine(p), connects[L + 1])
        BY <3>1 DEF EachAcceptedOnce, Later, Line
    <3>3. L + 1 < k <=> p < 0
        BY <1>2, <1>4, <3>1, <3>2 DEF EachAcceptedOnce, Later, Line
    <3> QED BY <1>2, <2>2, <3>2, <3>3
  <2> QED BY <1>1, <2>1, <2>2
<1> DEFINE c == connects[L + 1]
<1>6. c = <<pmsg.id, pmsg.inc>> /\ c \in Made /\ L + 1 <= Len(connects)
    BY <1>1, <1>4, <1>5, ElementOfSeq DEF Names, Later, Typed, TypeOK
<1>7. Announced' = Append(Announced, c)
  <2>1. preacc' = Append(preacc, c) /\ accepted' = accepted
      BY <1>3, <1>6
  <2> HIDE DEF c
  <2> QED BY <1>1, <1>6, <2>1 DEF Announced
<1>8. /\ Len(Announced') = L + 1
      /\ \A n \in 1..L : Announced'[n] = Announced[n]
      /\ Announced'[L + 1] = c
  <2> HIDE DEF c
  <2> QED BY <1>1, <1>6, <1>7, AppendProperties
<1>9. /\ \A n \in Later' : n \in Later /\ n # L + 1
      /\ L + 1 \in Later
    BY <1>1, <1>3, <1>6, <1>8 DEF Later
<1>10. \A n \in 1..Len(Announced') : connects[n] = Announced'[n]
  <2> SUFFICES ASSUME NEW n \in 1..Len(Announced') PROVE connects[n] = Announced'[n]
      OBVIOUS
  <2>1. n \in 1..L \/ n = L + 1
      BY <1>1, <1>8
  <2> QED BY <1>8, <2>1 DEF EachAcceptedOnce
<1>11. ASSUME NEW n \in Later, NEW p \in Line, Names(OnLine(p), connects[n])
       PROVE  p = 0 <=> n = L + 1
  <2>1. Names(OnLine(0), connects[L + 1])
      BY <1>2, <1>4, <1>5
  <2>2. (L + 1 < n <=> 0 < p) /\ (n < L + 1 <=> p < 0)
      BY <1>2, <1>9, <1>11, <2>1 DEF EachAcceptedOnce, Later, Line
  <2> QED BY <1>1, <1>2, <2>2 DEF Later
<1> HIDE DEF L, c
<1>12. \A n \in Later' : \E p \in Line' : Names(OnLine(p), connects[n])'
  <2> TAKE n \in Later'
  <2>1. PICK p \in Line : Names(OnLine(p), connects[n])
      BY <1>9 DEF EachAcceptedOnce, Later, Line
  <2>2. p # 0
      BY <1>9, <1>11, <2>1
  <2> QED BY <1>2, <1>3, <2>1, <2>2 DEF Names
<1>13. \A p \in Line' : Comes(p)' => \E n \in Later' : Names(OnLine(p), connects[n])'
  <2> SUFFICES ASSUME NEW p \in Line', Comes(p)' PROVE \E n \in Later' : Names(OnLine(p), connects[n])'
      OBVIOUS
  <2>1. p # 0 /\ p \in Line /\ OnLine(p)' = OnLine(p)
      BY <1>2
  <2>2. PICK n \in Later : Names(OnLine(p), connects[n])
      BY <2>1 DEF EachAcceptedOnce, Later, Line, Comes
  <2>3. n # L + 1
      BY <1>11, <2>1, <2>2
  <2>4. n \in Later'
      BY <1>1, <1>3, <1>8, <2>3 DEF Later, L
  <2> QED BY <1>3, <2>1, <2>2, <2>4 DEF Names
<1>14. ASSUME NEW j \in Later', NEW n \in Later', NEW p \in Line', NEW q \in Line',
              Names(OnLine(p), connects[j])', Names(OnLine(q), connects[n])'
       PROVE  j < n <=> p < q
  <2>1. p # 0 /\ q # 0
      BY <1>2, <1>14 DEF Names, Comes
  <2>2. Names(OnLine(p), connects[j]) /\ Names(OnLine(q), connects[n]) /\ p \in Line /\ q \in Line
      BY <1>2, <1>3, <1>14, <2>1 DEF Names
  <2> QED BY <1>9, <2>2 DEF EachAcceptedOnce, Later, Line
<1>15. Len(Announced') <= Len(connects')
    BY <1>3, <1>6, <1>8
<1> QED BY <1>3, <1>10, <1>12, <1>13, <1>14, <1>15, SMTT(30) DEF EachAcceptedOnce, Later, Line, Comes

LEMMA OnceAccept == ASSUME Typed, EachAcceptedOnce, Accept PROVE EachAcceptedOnce'
<1>1. /\ preacc \in Seq(Made) /\ preacc # <<>> /\ accepted \in Seq(Made)
    BY DEF Accept, Typed, TypeOK
<1>2. accepted' = Append(accepted, Head(preacc)) /\ preacc' = Tail(preacc)
    BY DEF Accept
<1>3. Announced' = Announced
    BY <1>1, <1>2 DEF Announced
<1>4. connects' = connects /\ rx' = rx /\ pmsg' = pmsg
    BY DEF Accept, connectVars
<1> QED BY <1>3, <1>4, LineSame, OnceSame DEF Comes

LEMMA OnceGrows ==
    ASSUME Typed, EachAcceptedOnce, NEW m \in Reports, m.t \in {"recv", "closed"},
           rx' = Append(rx, m), pmsg' = pmsg, Announced' = Announced, connects' = connects
    PROVE  EachAcceptedOnce'
<1>1. /\ Len(rx') = Len(rx) + 1 /\ Len(rx) \in Nat
      /\ \A p \in Line : OnLine(p)' = OnLine(p)
      /\ \A p : p = Len(rx) + 1 => OnLine(p)' = m
    BY LineGrows DEF Typed
<1>2. Line \subseteq Line' /\ \A p \in Line' : p \notin Line => p = Len(rx) + 1
    BY <1>1 DEF Line
<1>3. \A p \in Line' : p \notin Line => ~Comes(p)'
    BY <1>1, <1>2 DEF Comes
<1>4. \A p \in Line : Comes(p)' <=> Comes(p)
    BY <1>1 DEF Comes
<1> QED BY <1>1, <1>2, <1>3, <1>4, OnceSame

LEMMA OnceStep ==
    ASSUME Typed, Alternation, Numbered, EachAcceptedOnce, [Next]_vars PROVE EachAcceptedOnce'
<1> USE DEF Typed
<1>1. ASSUME NEW i \in Conn, PeerSends(i) PROVE EachAcceptedOnce'
  <2>1. PICK m : m = Report("recv", i, link[i], chunks[<<i, link[i]>>] + 1)
      OBVIOUS
  <2>2. /\ rx' = Append(rx, m) /\ pmsg' = pmsg /\ link[i] # 0
        /\ Announced' = Announced /\ connects' = connects
      BY <1>1, <2>1 DEF PeerSends, parserVars, connectVars, taskVars, Announced
  <2>3. m \in Reports /\ m.t = "recv"
    <3>1. link[i] \in 1..MaxInc /\ <<i, link[i]>> \in Made
        BY <2>2 DEF TypeOK, Made
    <3>2. chunks[<<i, link[i]>>] \in 0..MaxChunk /\ chunks[<<i, link[i]>>] < MaxChunk
        BY <1>1, <3>1 DEF PeerSends, TypeOK
    <3>3. chunks[<<i, link[i]>>] + 1 \in 1..MaxChunk
        BY <3>2, SockAssumption
    <3> QED BY <2>1, <3>1, <3>3 DEF Report, Reports, Pieces
  <2> QED BY <2>2, <2>3, OnceGrows
<1>2. ASSUME NEW i \in Conn, LinkEnds(i), pmsg' = pmsg, Announced' = Announced, connects' = connects
      PROVE  EachAcceptedOnce'
  <2> DEFINE m == Report("closed", i, link[i], 0)
  <2>1. link[i] \in 1..MaxInc
      BY <1>2, SockAssumption DEF LinkEnds, TypeOK
  <2>2. m \in Reports /\ m.t = "closed" /\ rx' = Append(rx, m)
      BY <1>2, <2>1 DEF Report, Reports, LinkEnds
  <2> HIDE DEF m
  <2> QED BY <1>2, <2>2, OnceGrows
<1>3. ASSUME NEW i \in Conn, PeerCloses(i) PROVE EachAcceptedOnce'
    BY <1>2, <1>3 DEF PeerCloses, parserVars, connectVars, taskVars, Announced
<1>4. CASE DispatchAccepted \/ DispatchClosed \/ DispatchRecv
  <2>1. connects' = connects /\ Announced' = Announced /\ rx' = rx /\ pmsg # NoMsg
      BY <1>4 DEF DispatchAccepted, DispatchClosed, DispatchRecv, modemVars, connectVars, taskVars,
                  Announced, NoMsg, Report
  <2>2. pmsg \in Reports /\ (pmsg.t = "connect" => ~conn_state[pmsg.id])
      BY <2>1, HeadFits
  <2>3. IF pmsg.t = "connect" THEN pmsg' = [pmsg EXCEPT !.t = "announce"]
        ELSE pmsg.t # "announce" /\ pmsg' = NoMsg
      BY <1>4, <2>2 DEF DispatchAccepted, DispatchClosed, DispatchRecv
  <2>4. /\ Line' = Line /\ OnLine(0)' = pmsg' /\ OnLine(0) = pmsg /\ 0 \in Line
        /\ \A p \in Line : p # 0 => OnLine(p)' = OnLine(p)
      BY <2>1, LineHead
  <2>5. /\ pmsg'.t \in {"connect", "announce"} <=> pmsg.t \in {"connect", "announce"}
        /\ pmsg.t \in {"connect", "announce"} => pmsg'.id = pmsg.id /\ pmsg'.inc = pmsg.inc
      BY <2>2, <2>3 DEF Reports, Pieces, NoMsg, Report
  <2>6. \A p \in Line : /\ Comes(p)' <=> Comes(p)
                        /\ Comes(p) => OnLine(p)'.id = OnLine(p).id /\ OnLine(p)'.inc = OnLine(p).inc
    <3> TAKE p \in Line
    <3>1. CASE p = 0
        BY <2>4, <2>5, <3>1 DEF Comes
    <3>2. CASE p # 0
        BY <2>4, <3>2 DEF Comes
    <3> QED BY <3>1, <3>2
  <2> QED BY <2>1, <2>4, <2>6, OnceSame
<1>5. CASE CloseDone
  <2>1. fd \in Conn /\ pmsg' = pmsg /\ Announced' = Announced /\ connects' = connects
      BY <1>5 DEF CloseDone, Serves, parserVars, connectVars, Announced
  <2>2. CASE LinkEnds(fd)
      BY <1>2, <2>1, <2>2
  <2>3. CASE link' = link /\ rx' = rx
      BY <2>1, <2>3, LineSame, OnceSame DEF Comes
  <2> QED BY <1>5, <2>2, <2>3 DEF CloseDone
<1>6. CASE Recv \/ SendStart \/ SendDone \/ CloseStart \/ UNCHANGED vars \/ \E n \in Sizes : RecvStart(n)
  <2>1. rx' = rx /\ pmsg' = pmsg /\ Announced' = Announced /\ connects' = connects
      BY <1>6 DEF Recv, RecvEnough, RecvMore, RecvPop, SendStart, SendDone, CloseStart, Announced,
                  RecvStart, modemVars, parserVars, connectVars, taskVars, vars
  <2> QED BY <2>1, LineSame, OnceSame DEF Comes
<1> QED BY <1>1, <1>3, <1>4, <1>5, <1>6, OnceConnect, OnceMoves, OnceAnnounce, OnceAccept
        DEF Next, Modem, Parser, Sshd

(* Each connection is accepted once, in the order they were made: what       *)
(* atc_dispatch announces on atc_conn_preacc is what sock_accept takes, and  *)
(* the second connect report of an id that is up, which it would ignore,    *)
(* never comes (parser.c:400-413, espsock.c:86-98).                         *)
THEOREM AcceptedOnce == Spec => []EachAcceptedOnce
<1>1. Init => Numbered /\ EachAcceptedOnce
    BY NumberedInit, OnceInit
<1>2. Typed /\ Alternation /\ Numbered /\ EachAcceptedOnce /\ [Next]_vars
        => (Numbered /\ EachAcceptedOnce)'
    BY NumberedStep, OnceStep
<1> QED BY <1>1, <1>2, TypeInit, TypeStep, AltInit, AltStep, PTL DEF Spec

-----------------------------------------------------------------------------
(* What most steps have in common: they take reports off the line or out of  *)
(* a queue, and bring none.                                                 *)
Stamped(p, i) == OnLine(p).id = i /\ OnLine(p).t \in {"connect", "recv"}
Piece(p, i)   == OnLine(p).id = i /\ OnLine(p).t = "recv"
QueueRange(i) == 1..Len(conn_recv[i])

LineFewer     == \E s \in {0, 1} : \A p \in Line' : OnLine(p)'.t \in {"connect", "recv"} =>
                    p + s \in Line /\ OnLine(p)' = OnLine(p + s)
QueueFewer(i) == \E s \in {0, 1} : \A k \in QueueRange(i)' :
                    k + s \in QueueRange(i) /\ conn_recv'[i][k] = conn_recv[i][k + s]
CountsKept    == inc' = inc /\ chunks' = chunks

LEMMA QueueTypes ==
    ASSUME TypeOK, NEW i \in Conn
    PROVE  /\ conn_recv[i] \in Seq(Pieces) /\ Len(conn_recv[i]) \in Nat
           /\ \A k \in QueueRange(i) : conn_recv[i][k] \in Pieces
BY LenProperties, ElementOfSeq DEF TypeOK, QueueRange

LEMMA QueueSame == ASSUME TypeOK, NEW i \in Conn, conn_recv'[i] = conn_recv[i] PROVE QueueFewer(i)
BY QueueTypes DEF QueueFewer, QueueRange

LEMMA QueueEmpty == ASSUME NEW i \in Conn, conn_recv'[i] = <<>> PROVE QueueFewer(i)
BY DEF QueueFewer, QueueRange

LEMMA LineFewerSame == ASSUME TypeOK, rx' = rx, pmsg' = pmsg PROVE LineFewer
BY LineSame, LineTypes DEF LineFewer, Line

LEMMA LineFewerHead == ASSUME TypeOK, rx' = rx, pmsg'.t \notin {"connect", "recv"} PROVE LineFewer
BY LineHead, LineTypes DEF LineFewer, Line

LEMMA LineFewerEnds ==
    ASSUME Typed, NEW i \in Conn, LinkEnds(i), pmsg' = pmsg PROVE LineFewer
<1> DEFINE m == Report("closed", i, link[i], 0)
<1>1. m \in Reports /\ m.t = "closed" /\ rx' = Append(rx, m)
    BY SockAssumption DEF LinkEnds, Typed, TypeOK, Report, Reports
<1> HIDE DEF m
<1>2. /\ Len(rx') = Len(rx) + 1 /\ Len(rx) \in Nat
      /\ \A p \in Line : OnLine(p)' = OnLine(p)
      /\ \A p : p = Len(rx) + 1 => OnLine(p)' = m
    BY <1>1, LineGrows DEF Typed
<1>3. \A p \in Line' : (p \in Line /\ p + 0 = p) \/ p = Len(rx) + 1
    BY <1>2 DEF Line
<1>4. \A p \in Line' : OnLine(p)'.t \in {"connect", "recv"} => p + 0 \in Line /\ OnLine(p)' = OnLine(p + 0)
    BY <1>1, <1>2, <1>3
<1> QED BY <1>4 DEF LineFewer

(* Connect and PeerSends bring a report, DispatchRecv moves one.            *)
LEMMA ParserFewer ==
    ASSUME Typed, Alternation, Parser
    PROVE  CountsKept /\ LineFewer /\ (~DispatchRecv => \A i \in Conn : QueueFewer(i))
<1> USE DEF Typed
<1>1. CASE ParserBegin
  <2>1. CountsKept /\ conn_recv' = conn_recv
      BY <1>1 DEF ParserBegin, CountsKept, modemVars
  <2>2. LineFewer
      BY <1>1, LineMoves DEF LineFewer
  <2> QED BY <2>1, <2>2, QueueSame
<1>2. CASE DispatchAccepted
  <2>1. pmsg # NoMsg /\ pmsg.t = "connect"
      BY <1>2 DEF DispatchAccepted, NoMsg, Report
  <2>2. pmsg \in Reports /\ pmsg.id \in Conn /\ ~conn_state[pmsg.id]
      BY <2>1, HeadFits
  <2>3. /\ CountsKept /\ rx' = rx /\ pmsg' = [pmsg EXCEPT !.t = "announce"]
        /\ conn_recv' = [conn_recv EXCEPT ![pmsg.id] = <<>>]
      BY <1>2, <2>2 DEF DispatchAccepted, CountsKept, modemVars, Emptied
  <2>4. pmsg'.t = "announce"
      BY <2>2, <2>3 DEF Reports, Pieces
  <2>5. \A i \in Conn : QueueFewer(i)
    <3> TAKE i \in Conn
    <3>1. conn_recv'[i] = conn_recv[i] \/ conn_recv'[i] = <<>>
        BY <2>2, <2>3 DEF TypeOK
    <3> QED BY <3>1, QueueSame, QueueEmpty
  <2> QED BY <2>3, <2>4, <2>5, LineFewerHead
<1>3. CASE Announce \/ DispatchClosed \/ DispatchRecv
  <2>1. /\ CountsKept /\ rx' = rx /\ pmsg'.t = "none"
        /\ ~DispatchRecv => conn_recv' = conn_recv
      BY <1>3 DEF Announce, DispatchClosed, DispatchRecv, CountsKept, modemVars, NoMsg, Report
  <2> QED BY <2>1, LineFewerHead, QueueSame
<1> QED BY <1>1, <1>2, <1>3 DEF Parser

LEMMA SshdFewer ==
    ASSUME Typed, Sshd PROVE CountsKept /\ LineFewer /\ \A i \in Conn : QueueFewer(i)
<1> USE DEF Typed
<1>1. CountsKept
    BY DEF Sshd, Accept, RecvStart, Recv, RecvEnough, RecvMore, RecvPop, SendStart, SendDone,
           CloseStart, CloseDone, CountsKept, modemVars
<1>2. LineFewer
  <2>1. CASE CloseDone
    <3>1. fd \in Conn /\ pmsg' = pmsg
        BY <2>1 DEF CloseDone, Serves, parserVars
    <3> QED BY <2>1, <3>1, LineFewerEnds, LineFewerSame DEF CloseDone
  <2>2. CASE ~CloseDone
    <3>1. rx' = rx /\ pmsg' = pmsg
        BY <2>2 DEF Sshd, Accept, RecvStart, Recv, RecvEnough, RecvMore, RecvPop, SendStart, SendDone,
                    CloseStart, parserVars
    <3> QED BY <3>1, LineFewerSame
  <2> QED BY <2>1, <2>2
<1>3. ASSUME NEW i \in Conn PROVE QueueFewer(i)
  <2>1. CASE RecvPop
    <3>1. /\ fd \in Conn /\ conn_recv[fd] \in Seq(Pieces) /\ conn_recv[fd] # <<>>
          /\ conn_recv' = [conn_recv EXCEPT ![fd] = Tail(conn_recv[fd])]
        BY <2>1 DEF RecvPop, TypeOK, Serves
    <3>2. CASE i # fd
        BY <3>1, <3>2, QueueSame DEF TypeOK
    <3>3. CASE i = fd
      <4>1. conn_recv'[i] = Tail(conn_recv[i])
          BY <3>1, <3>3 DEF TypeOK
      <4>2. /\ Len(conn_recv[i]) \in Nat \ {0} /\ Len(conn_recv'[i]) = Len(conn_recv[i]) - 1
            /\ \A k \in 1..Len(conn_recv'[i]) : conn_recv'[i][k] = conn_recv[i][k + 1]
        <5> DEFINE q == conn_recv[i]
        <5>1. q \in Seq(Pieces) /\ q # <<>>
            BY <3>1, <3>3
        <5> HIDE DEF q
        <5>2. Len(Tail(q)) = Len(q) - 1 /\ Len(q) \in Nat \ {0} /\ \A k \in 1..Len(Tail(q)) : Tail(q)[k] = q[k + 1]
            BY <5>1, HeadTailProperties, LenProperties, EmptySeq
        <5> QED BY <4>1, <5>2 DEF q
      <4> QED BY <4>2 DEF QueueFewer, QueueRange
    <3> QED BY <3>2, <3>3
  <2>2. CASE CloseStart
    <3>1. conn_recv'[i] = conn_recv[i] \/ conn_recv'[i] = <<>>
        BY <2>2 DEF CloseStart, Emptied, TypeOK
    <3> QED BY <3>1, QueueSame, QueueEmpty
  <2>3. CASE ~RecvPop /\ ~CloseStart
    <3>1. conn_recv' = conn_recv
        BY <2>3 DEF Sshd, Accept, RecvStart, Recv, RecvEnough, RecvMore, SendStart, SendDone, CloseDone
    <3> QED BY <3>1, QueueSame
  <2> QED BY <2>1, <2>2, <2>3
<1> QED BY <1>1, <1>2, <1>3

LEMMA ModemFewer ==
    ASSUME Typed, NEW i \in Conn, PeerCloses(i)
    PROVE  CountsKept /\ LineFewer /\ \A j \in Conn : QueueFewer(j)
BY LineFewerEnds, QueueSame DEF PeerCloses, LinkEnds, CountsKept, parserVars, Typed

(* A step is one of five kinds.                                             *)
LEMMA StepKinds ==
    ASSUME Typed, Alternation, [Next]_vars
    PROVE  \/ \E i \in Conn : Connect(i)
           \/ \E i \in Conn : PeerSends(i)
           \/ DispatchRecv /\ CountsKept /\ LineFewer
           \/ CountsKept /\ LineFewer /\ \A i \in Conn : QueueFewer(i)
<1>1. CASE UNCHANGED vars
    BY <1>1, LineFewerSame, QueueSame DEF CountsKept, vars, modemVars, parserVars, Typed
<1> QED BY <1>1, ParserFewer, SshdFewer, ModemFewer DEF Next, Modem

-----------------------------------------------------------------------------
(* Payloads of an id come in the order they were sent, on the line, in its   *)
(* queue and from one to the other; a connect report stands between those   *)
(* of two incarnations.                                                     *)
Ahead(m, o)  == m.inc < o.inc \/ (m.inc = o.inc /\ m.n < o.n)
SentPiece(m) == m.inc <= inc[m.id] /\ m.n <= chunks[<<m.id, m.inc>>]

LineOrdered(i)  == \A p, q \in Line : (p < q /\ Stamped(p, i) /\ Stamped(q, i)) => Ahead(OnLine(p), OnLine(q))
QueueOrdered(i) == \A k, l \in QueueRange(i) : k < l => Ahead(conn_recv[i][k], conn_recv[i][l])
QueueAhead(i)   == \A k \in QueueRange(i), p \in Line : Stamped(p, i) => Ahead(conn_recv[i][k], OnLine(p))
QueueSent(i)    == \A k \in QueueRange(i) : conn_recv[i][k].id = i /\ SentPiece(conn_recv[i][k])
LineSent(i)     == \A p \in Line : Piece(p, i) => SentPiece(OnLine(p))
PiecesOrdered   == \A i \in Conn : /\ LineOrdered(i) /\ QueueOrdered(i) /\ QueueAhead(i)
                                   /\ QueueSent(i) /\ LineSent(i)

LEMMA PiecesInit == Init => PiecesOrdered
<1> SUFFICES ASSUME Init, NEW i \in Conn
             PROVE  LineOrdered(i) /\ QueueOrdered(i) /\ QueueAhead(i) /\ QueueSent(i) /\ LineSent(i)
    BY DEF PiecesOrdered
<1>1. \A p \in Line : ~Stamped(p, i) /\ ~Piece(p, i)
    BY DEF Init, Stamped, Piece, Line, OnLine, NoMsg, Report
<1>2. QueueRange(i) = {}
    BY DEF Init, QueueRange
<1> QED BY <1>1, <1>2 DEF LineOrdered, QueueOrdered, QueueAhead, QueueSent, LineSent

LEMMA PiecesFewer ==
    ASSUME Typed, PiecesOrdered, CountsKept, LineFewer, NEW i \in Conn, QueueFewer(i)
    PROVE  (LineOrdered(i) /\ QueueOrdered(i) /\ QueueAhead(i) /\ QueueSent(i) /\ LineSent(i))'
<1>1. LineOrdered(i) /\ QueueOrdered(i) /\ QueueAhead(i) /\ QueueSent(i) /\ LineSent(i)
    BY DEF PiecesOrdered
<1>2. PICK s \in {0, 1} : \A p \in Line' : OnLine(p)'.t \in {"connect", "recv"} =>
            p + s \in Line /\ OnLine(p)' = OnLine(p + s)
    BY DEF LineFewer
<1>3. PICK d \in {0, 1} : \A k \in QueueRange(i)' :
            k + d \in QueueRange(i) /\ conn_recv'[i][k] = conn_recv[i][k + d]
    BY DEF QueueFewer
<1>4. \A m : SentPiece(m)' <=> SentPiece(m)
    BY DEF SentPiece, CountsKept
<1>5. /\ \A p \in Line' : Stamped(p, i)' => p + s \in Line /\ Stamped(p + s, i) /\ OnLine(p)' = OnLine(p + s)
      /\ \A p \in Line' : Piece(p, i)' => p + s \in Line /\ Piece(p + s, i) /\ OnLine(p)' = OnLine(p + s)
    BY <1>2 DEF Stamped, Piece
<1>6. /\ \A p, q \in Line' : p < q => p + s < q + s
      /\ \A k, l \in QueueRange(i)' : k < l => k + d < l + d
    BY DEF Line, QueueRange
<1>7. \A m, o : Ahead(m, o)' <=> Ahead(m, o)
    BY DEF Ahead
<1>8. LineOrdered(i)'
  <2> SUFFICES ASSUME NEW p \in Line', NEW q \in Line', p < q, Stamped(p, i)', Stamped(q, i)'
               PROVE  Ahead(OnLine(p), OnLine(q))'
      BY DEF LineOrdered
  <2>1. /\ p + s \in Line /\ Stamped(p + s, i) /\ OnLine(p)' = OnLine(p + s)
        /\ q + s \in Line /\ Stamped(q + s, i) /\ OnLine(q)' = OnLine(q + s) /\ p + s < q + s
      BY <1>5, <1>6
  <2>2. Ahead(OnLine(p + s), OnLine(q + s))
      BY <1>1, <2>1 DEF LineOrdered
  <2> QED BY <2>1, <2>2 DEF Ahead
<1>9. QueueOrdered(i)'
  <2> SUFFICES ASSUME NEW k \in QueueRange(i)', NEW l \in QueueRange(i)', k < l
               PROVE  Ahead(conn_recv'[i][k], conn_recv'[i][l])
      BY DEF QueueOrdered, Ahead
  <2> QED BY <1>1, <1>3, <1>6 DEF QueueOrdered
<1>10. QueueAhead(i)'
  <2> SUFFICES ASSUME NEW k \in QueueRange(i)', NEW p \in Line', Stamped(p, i)'
               PROVE  Ahead(conn_recv[i][k], OnLine(p))'
      BY DEF QueueAhead
  <2>1. p + s \in Line /\ Stamped(p + s, i) /\ OnLine(p)' = OnLine(p + s)
      BY <1>5
  <2>2. k + d \in QueueRange(i) /\ conn_recv'[i][k] = conn_recv[i][k + d]
      BY <1>3
  <2>3. Ahead(conn_recv[i][k + d], OnLine(p + s))
      BY <1>1, <2>1, <2>2 DEF QueueAhead
  <2> QED BY <2>1, <2>2, <2>3 DEF Ahead
<1>11. QueueSent(i)'
    BY <1>1, <1>3, <1>4 DEF QueueSent, SentPiece
<1>12. LineSent(i)'
  <2> SUFFICES ASSUME NEW p \in Line', Piece(p, i)' PROVE SentPiece(OnLine(p))'
      BY DEF LineSent
  <2>1. p + s \in Line /\ Piece(p + s, i) /\ OnLine(p)' = OnLine(p + s)
      BY <1>5
  <2>2. SentPiece(OnLine(p + s))
      BY <1>1, <2>1 DEF LineSent
  <2> QED BY <2>1, <2>2 DEF SentPiece, CountsKept
<1> QED BY <1>8, <1>9, <1>10, <1>11, <1>12

(* The counts grow, and a new report bears the latest.                       *)
LEMMA CountsGrow ==
    ASSUME Typed, Alternation, [Next]_vars
    PROVE  /\ \A i \in Conn : inc[i] <= inc'[i] /\ inc[i] \in 0..MaxInc /\ inc'[i] \in 0..MaxInc
           /\ \A c \in Made : chunks[c] <= chunks'[c] /\ chunks[c] \in 0..MaxChunk /\ chunks'[c] \in 0..MaxChunk
           /\ MaxInc \in Nat /\ MaxChunk \in Nat
<1>1. Typed' /\ MaxInc \in Nat /\ MaxChunk \in Nat
    BY TypeStep, SockAssumption
<1>2. /\ inc \in [Conn -> 0..MaxInc] /\ inc' \in [Conn -> 0..MaxInc]
      /\ chunks \in [Made -> 0..MaxChunk] /\ chunks' \in [Made -> 0..MaxChunk]
    BY <1>1 DEF Typed, TypeOK
<1>3. \A i \in Conn : inc[i] <= inc'[i]
  <2>1. ASSUME NEW i \in Conn, Connect(i), NEW j \in Conn PROVE inc[j] <= inc'[j]
    <3>1. inc'[j] = IF j = i THEN inc[j] + 1 ELSE inc[j]
        BY <1>2, <2>1 DEF Connect
    <3>2. inc[j] \in Nat
        BY <1>1, <1>2
    <3> QED BY <3>1, <3>2
  <2>2. CASE \E i \in Conn : PeerSends(i)
      BY <1>1, <1>2, <2>2 DEF PeerSends
  <2>3. CASE CountsKept
      BY <1>1, <1>2, <2>3 DEF CountsKept
  <2> QED BY <2>1, <2>2, <2>3, StepKinds
<1>4. \A c \in Made : chunks[c] <= chunks'[c]
  <2>1. ASSUME NEW i \in Conn, PeerSends(i), NEW c \in Made PROVE chunks[c] <= chunks'[c]
    <3> DEFINE e == <<i, link[i]>>
    <3>1. chunks' = [chunks EXCEPT ![e] = @ + 1]
        BY <2>1 DEF PeerSends
    <3> HIDE DEF e
    <3>2. chunks'[c] = IF c = e THEN chunks[c] + 1 ELSE chunks[c]
        BY <1>2, <3>1
    <3>3. chunks[c] \in Nat
        BY <1>1, <1>2
    <3> QED BY <3>2, <3>3
  <2>2. ASSUME NEW c \in Made, chunks' = chunks PROVE chunks[c] <= chunks'[c]
      BY <1>1, <1>2, <2>2
  <2> QED BY <2>1, <2>2, StepKinds DEF Connect, CountsKept
<1> QED BY <1>1, <1>2, <1>3, <1>4

LEMMA SentStays ==
    ASSUME Typed, Alternation, [Next]_vars, NEW m \in Pieces, SentPiece(m) PROVE SentPiece(m)'
<1>1. m.id \in Conn /\ <<m.id, m.inc>> \in Made /\ m.inc \in Nat /\ m.n \in Nat
    BY SockAssumption DEF Pieces, Made
<1>2. m.inc <= inc[m.id] /\ m.n <= chunks[<<m.id, m.inc>>]
    BY DEF SentPiece
<1> DEFINE c == <<m.id, m.inc>>
<1>3. m.inc <= inc'[m.id]
    BY <1>1, <1>2, CountsGrow
<1>4. m.n <= chunks'[c]
  <2>1. c \in Made /\ m.n <= chunks[c]
      BY <1>1, <1>2
  <2> HIDE DEF c
  <2> QED BY <1>1, <2>1, CountsGrow
<1> QED BY <1>3, <1>4 DEF SentPiece

LEMMA PiecesGrow ==
    ASSUME Typed, Alternation, PiecesOrdered, [Next]_vars,
           NEW m \in Reports, m.t \in {"connect", "recv"}, rx' = Append(rx, m), pmsg' = pmsg, conn_recv' = conn_recv,
           \A p \in Line : Stamped(p, m.id) => Ahead(OnLine(p), m),
           \A k \in QueueRange(m.id) : Ahead(conn_recv[m.id][k], m),
           m.t = "recv" => SentPiece(m)'
    PROVE  PiecesOrdered'
<1> DEFINE new == Len(rx) + 1
<1>1. /\ Line' = Line \cup {new} /\ new \notin Line /\ \A p \in Line : p < new /\ ~(new < p)
      /\ ~(new < new)
      /\ \A p \in Line : OnLine(p)' = OnLine(p)
      /\ \A p : p = new => OnLine(p)' = m
    BY LineGrows DEF Line, Typed
<1> HIDE DEF new
<1> SUFFICES ASSUME NEW i \in Conn
             PROVE  (LineOrdered(i) /\ QueueOrdered(i) /\ QueueAhead(i) /\ QueueSent(i) /\ LineSent(i))'
    BY DEF PiecesOrdered
<1>2. LineOrdered(i) /\ QueueOrdered(i) /\ QueueAhead(i) /\ QueueSent(i) /\ LineSent(i)
    BY DEF PiecesOrdered
<1>3. /\ \A p \in Line : Stamped(p, i)' <=> Stamped(p, i)
      /\ \A p \in Line : Piece(p, i)' <=> Piece(p, i)
      /\ \A p : p = new => (Stamped(p, i)' <=> i = m.id)
      /\ \A p : p = new => (Piece(p, i)' <=> i = m.id /\ m.t = "recv")
    BY <1>1 DEF Stamped, Piece
<1>4. QueueRange(i)' = QueueRange(i)
    BY DEF QueueRange
<1>5. \A p \in Line : OnLine(p) \in Reports \cup {NoMsg}
    BY LineTypes DEF Typed
<1>6. LineOrdered(i)'
  <2> SUFFICES ASSUME NEW p \in Line', NEW q \in Line', p < q, Stamped(p, i)', Stamped(q, i)'
               PROVE  Ahead(OnLine(p), OnLine(q))'
      BY DEF LineOrdered
  <2>1. p \in Line
      BY <1>1
  <2>2. CASE q \in Line
    <3>1. Ahead(OnLine(p), OnLine(q))
        BY <1>2, <1>3, <2>1, <2>2 DEF LineOrdered
    <3> QED BY <1>1, <2>1, <2>2, <3>1 DEF Ahead
  <2>3. CASE q = new
    <3>1. Ahead(OnLine(p), m)
        BY <1>3, <2>1, <2>3
    <3> QED BY <1>1, <2>1, <2>3, <3>1 DEF Ahead
  <2> QED BY <1>1, <2>2, <2>3
<1>7. QueueOrdered(i)'
    BY <1>2, <1>4 DEF QueueOrdered, Ahead
<1>8. QueueAhead(i)'
  <2> SUFFICES ASSUME NEW k \in QueueRange(i), NEW p \in Line', Stamped(p, i)'
               PROVE  Ahead(conn_recv[i][k], OnLine(p))'
      BY <1>4 DEF QueueAhead
  <2>1. CASE p \in Line
    <3>1. Ahead(conn_recv[i][k], OnLine(p))
        BY <1>2, <1>3, <2>1 DEF QueueAhead
    <3> QED BY <1>1, <2>1, <3>1 DEF Ahead
  <2>2. CASE p = new
    <3>1. Ahead(conn_recv[i][k], m)
        BY <1>3, <2>2
    <3> QED BY <1>1, <2>2, <3>1 DEF Ahead
  <2> QED BY <1>1, <2>1, <2>2
<1>9. QueueSent(i)'
  <2>1. \A k \in QueueRange(i) : conn_recv[i][k] \in Pieces
      BY QueueTypes DEF Typed
  <2>2. ASSUME NEW k \in QueueRange(i) PROVE SentPiece(conn_recv[i][k])'
    <3>1. PICK o \in Pieces : o = conn_recv[i][k]
        BY <2>1, <2>2
    <3>2. SentPiece(o)
        BY <1>2, <2>2, <3>1 DEF QueueSent
    <3>3. SentPiece(o)'
        BY <3>2, SentStays
    <3>4. o = conn_recv'[i][k]
        BY <3>1
    <3> QED BY <3>3, <3>4 DEF SentPiece
  <2> QED BY <1>2, <1>4, <2>2 DEF QueueSent
<1>10. LineSent(i)'
  <2> SUFFICES ASSUME NEW p \in Line', Piece(p, i)' PROVE SentPiece(OnLine(p))'
      BY DEF LineSent
  <2>1. CASE p = new
      BY <1>1, <1>3, <2>1 DEF SentPiece
  <2>2. CASE p \in Line
    <3>1. OnLine(p) \in Pieces /\ SentPiece(OnLine(p))
        BY <1>2, <1>3, <1>5, <2>2, PieceType DEF LineSent, Piece, NoMsg, Report
    <3>2. PICK o \in Pieces : o = OnLine(p)
        BY <3>1
    <3>3. SentPiece(o)'
        BY <3>1, <3>2, SentStays
    <3> QED BY <1>1, <2>2, <3>2, <3>3 DEF SentPiece
  <2> QED BY <1>1, <2>1, <2>2
<1> QED BY <1>6, <1>7, <1>8, <1>9, <1>10

LEMMA PiecesConnect ==
    ASSUME Typed, Alternation, Numbered, PiecesOrdered, NEW i \in Conn, Connect(i) PROVE PiecesOrdered'
<1> DEFINE m == Report("connect", i, inc[i] + 1, 0)
<1>1. inc[i] + 1 \in 1..MaxInc /\ inc[i] \in Nat
    BY ConnectCounts DEF Typed
<1>2. m \in Reports /\ m.t = "connect" /\ m.id = i /\ m.inc = inc[i] + 1
    BY <1>1 DEF Report, Reports
<1>3. rx' = Append(rx, m) /\ pmsg' = pmsg /\ conn_recv' = conn_recv
    BY DEF Connect, parserVars
<1> HIDE DEF m
<1>4. \A p \in Line : Stamped(p, i) => Ahead(OnLine(p), m)
  <2> SUFFICES ASSUME NEW p \in Line, Stamped(p, i) PROVE Ahead(OnLine(p), m)
      OBVIOUS
  <2>1. OnLine(p) \in Reports /\ OnLine(p).inc <= inc[i]
      BY LineTypes DEF Typed, Stamped, Numbered, NoMsg, Report
  <2>2. OnLine(p).inc \in Nat
      BY <2>1, SockAssumption DEF Reports, Pieces
  <2> QED BY <1>1, <1>2, <2>1, <2>2 DEF Ahead
<1>5. \A k \in QueueRange(i) : Ahead(conn_recv[i][k], m)
  <2> TAKE k \in QueueRange(i)
  <2>1. conn_recv[i][k] \in Pieces /\ conn_recv[i][k].inc <= inc[i]
      BY QueueTypes DEF Typed, PiecesOrdered, QueueSent, SentPiece
  <2>2. conn_recv[i][k].inc \in Nat
      BY <2>1, SockAssumption DEF Pieces
  <2> QED BY <1>1, <1>2, <2>1, <2>2 DEF Ahead
<1>6. [Next]_vars
    BY DEF Next, Modem
<1> QED BY <1>2, <1>3, <1>4, <1>5, <1>6, PiecesGrow

LEMMA PiecesSends ==
    ASSUME Typed, Alternation, Numbered, PiecesOrdered, NEW i \in Conn, PeerSends(i) PROVE PiecesOrdered'
<1> DEFINE c == <<i, inc[i]>>
<1>1. link[i] = inc[i] /\ inc[i] \in 1..MaxInc
    BY DEF PeerSends, Typed, TypeOK, Numbered
<1>2. c \in Made /\ c[1] = i /\ c[2] = inc[i] /\ chunks[c] < MaxChunk
    BY <1>1 DEF PeerSends, Made
<1>3. PICK m : m = Report("recv", i, inc[i], chunks[c] + 1)
    OBVIOUS
<1>4. rx' = Append(rx, m) /\ pmsg' = pmsg /\ conn_recv' = conn_recv /\ inc' = inc
      /\ chunks' = [chunks EXCEPT ![c] = chunks[c] + 1]
    BY <1>1, <1>3 DEF PeerSends, parserVars
<1>5. c = <<i, inc[i]>>
    OBVIOUS
<1> HIDE DEF c
<1>6. chunks[c] \in Nat /\ chunks[c] + 1 \in 1..MaxChunk /\ chunks'[c] = chunks[c] + 1 /\ inc[i] \in Nat
  <2>1. chunks \in [Made -> 0..MaxChunk]
      BY DEF Typed, TypeOK
  <2>2. chunks[c] \in 0..MaxChunk
      BY <1>2, <2>1
  <2> QED BY <1>1, <1>2, <1>4, <2>1, <2>2, SockAssumption
<1>7. m \in Reports /\ m.t = "recv" /\ m.id = i /\ m.inc = inc[i] /\ m.n = chunks[c] + 1
    BY <1>1, <1>3, <1>6 DEF Report, Reports, Pieces
<1>8. SentPiece(m)'
    BY <1>4, <1>5, <1>6, <1>7 DEF SentPiece
<1>9. \A o \in Pieces : (o.id = i /\ SentPiece(o)) => Ahead(o, m)
  <2> SUFFICES ASSUME NEW o \in Pieces, o.id = i, SentPiece(o) PROVE Ahead(o, m)
      OBVIOUS
  <2>1. o.inc \in Nat /\ o.n \in Nat /\ o.inc <= inc[i] /\ o.n <= chunks[<<i, o.inc>>]
      BY SockAssumption DEF Pieces, SentPiece
  <2>2. o.inc = inc[i] => o.n <= chunks[c]
      BY <1>5, <2>1
  <2> QED BY <1>6, <1>7, <2>1, <2>2 DEF Ahead
<1>10. \A p \in Line : Stamped(p, i) => Ahead(OnLine(p), m)
  <2> SUFFICES ASSUME NEW p \in Line, Stamped(p, i) PROVE Ahead(OnLine(p), m)
      OBVIOUS
  <2>1. OnLine(p) \in Reports /\ OnLine(p).inc <= inc[i] /\ OnLine(p).id = i
      BY LineTypes DEF Typed, Stamped, Numbered, NoMsg, Report
  <2>2. CASE OnLine(p).t = "recv"
    <3>1. OnLine(p) \in Pieces
        BY <2>1, <2>2, PieceType
    <3>2. SentPiece(OnLine(p))
        BY <2>1, <2>2 DEF PiecesOrdered, LineSent, Piece
    <3> QED BY <1>9, <2>1, <3>1, <3>2
  <2>3. CASE OnLine(p).t = "connect"
    <3>1. OnLine(p).n = 0 /\ OnLine(p).inc \in Nat
        BY <2>1, <2>3, SockAssumption DEF Reports, Pieces
    <3> QED BY <1>6, <1>7, <2>1, <3>1 DEF Ahead
  <2> QED BY <2>2, <2>3 DEF Stamped
<1>11. \A k \in QueueRange(i) : Ahead(conn_recv[i][k], m)
    BY <1>9, QueueTypes DEF Typed, PiecesOrdered, QueueSent
<1>12. [Next]_vars
    BY DEF Next, Modem
<1> QED BY <1>4, <1>7, <1>8, <1>10, <1>11, <1>12, PiecesGrow

LEMMA PiecesDispatch ==
    ASSUME Typed, Alternation, PiecesOrdered, DispatchRecv PROVE PiecesOrdered'
<1> USE DEF Typed
<1> DEFINE j == pmsg.id
<1>1. pmsg # NoMsg /\ pmsg.t = "recv"
    BY DEF DispatchRecv, NoMsg, Report
<1>2. pmsg \in Pieces /\ j \in Conn
    BY <1>1, HeadFits, PieceType
<1>3. /\ conn_recv' = [conn_recv EXCEPT ![j] = Append(conn_recv[j], pmsg)]
      /\ rx' = rx /\ pmsg' = NoMsg
    BY DEF DispatchRecv
<1>4. CountsKept /\ LineFewer
    BY ParserFewer DEF Parser
<1>5. /\ Line' = Line /\ ~Stamped(0, j)' /\ OnLine(0) = pmsg /\ 0 \in Line /\ Len(rx) \in Nat /\ Line = 0..Len(rx)
      /\ \A p \in Line : p # 0 => OnLine(p)' = OnLine(p)
    BY <1>3, LineHead, LineTypes DEF Stamped, Line, NoMsg, Report
<1>6. Piece(0, j) /\ Stamped(0, j)
    BY <1>1, <1>5 DEF Piece, Stamped
<1> SUFFICES ASSUME NEW i \in Conn
             PROVE  (LineOrdered(i) /\ QueueOrdered(i) /\ QueueAhead(i) /\ QueueSent(i) /\ LineSent(i))'
    BY DEF PiecesOrdered
<1>7. CASE i # j
  <2>1. conn_recv'[i] = conn_recv[i]
      BY <1>2, <1>3, <1>7 DEF TypeOK
  <2> QED BY <1>4, <2>1, QueueSame, PiecesFewer
<1>8. CASE i = j
  <2>1. LineOrdered(i) /\ QueueOrdered(i) /\ QueueAhead(i) /\ QueueSent(i) /\ LineSent(i)
      BY DEF PiecesOrdered
  <2> DEFINE q == conn_recv[i]
  <2>2. q \in Seq(Pieces) /\ conn_recv'[i] = Append(q, pmsg)
      BY <1>2, <1>3, <1>8 DEF TypeOK
  <2> HIDE DEF q
  <2>3. /\ Len(q) \in Nat /\ Len(conn_recv'[i]) = Len(q) + 1
        /\ \A k \in 1..Len(q) : conn_recv'[i][k] = q[k]
        /\ \A k : k = Len(q) + 1 => conn_recv'[i][k] = pmsg
      BY <1>2, <2>2, AppendProperties, LenProperties
  <2>4. /\ QueueRange(i)' = QueueRange(i) \cup {Len(q) + 1}
        /\ \A k \in QueueRange(i) : k < Len(q) + 1 /\ ~(Len(q) + 1 < k) /\ conn_recv'[i][k] = conn_recv[i][k]
        /\ ~(Len(q) + 1 < Len(q) + 1)
      BY <2>3 DEF QueueRange, q
  <2>5. \A m : SentPiece(m)' <=> SentPiece(m)
      BY <1>4 DEF SentPiece, CountsKept
  <2>6. \A p \in Line : /\ Stamped(p, i)' => p # 0 /\ 0 < p /\ Stamped(p, i) /\ OnLine(p)' = OnLine(p)
                        /\ Piece(p, i)' => Piece(p, i) /\ OnLine(p)' = OnLine(p)
    <3> TAKE p \in Line
    <3>1. CASE p = 0
      <4>1. OnLine(p)'.t = "none"
          BY <1>3, <3>1 DEF OnLine, NoMsg, Report
      <4> QED BY <4>1 DEF Stamped, Piece
    <3>2. CASE p # 0
        BY <1>5, <3>2 DEF Stamped, Piece
    <3> QED BY <3>1, <3>2
  <2>7. LineOrdered(i)'
    <3> SUFFICES ASSUME NEW p \in Line, NEW r \in Line, p < r, Stamped(p, i)', Stamped(r, i)'
                 PROVE  Ahead(OnLine(p), OnLine(r))'
        BY <1>5 DEF LineOrdered
    <3>1. Ahead(OnLine(p), OnLine(r))
        BY <2>1, <2>6 DEF LineOrdered
    <3> QED BY <2>6, <3>1 DEF Ahead
  <2>8. QueueOrdered(i)'
    <3>1. \A k \in QueueRange(i) : Ahead(conn_recv[i][k], pmsg)
        BY <1>5, <1>6, <1>8, <2>1 DEF QueueAhead
    <3>2. \A k, l \in QueueRange(i)' : k < l => Ahead(conn_recv'[i][k], conn_recv'[i][l])
      <4> SUFFICES ASSUME NEW k \in QueueRange(i)', NEW l \in QueueRange(i)', k < l
                   PROVE  Ahead(conn_recv'[i][k], conn_recv'[i][l])
          OBVIOUS
      <4>1. k \in QueueRange(i) /\ conn_recv'[i][k] = conn_recv[i][k]
          BY <2>4
      <4>2. CASE l \in QueueRange(i)
          BY <2>1, <2>4, <4>1, <4>2 DEF QueueOrdered
      <4>3. CASE l = Len(q) + 1
          BY <2>3, <3>1, <4>1, <4>3
      <4> QED BY <2>4, <4>2, <4>3
    <3> QED BY <3>2 DEF QueueOrdered, Ahead
  <2>9. QueueAhead(i)'
    <3> SUFFICES ASSUME NEW k \in QueueRange(i)', NEW p \in Line, Stamped(p, i)'
                 PROVE  Ahead(conn_recv'[i][k], OnLine(p)')
        BY <1>5 DEF QueueAhead, Ahead
    <3>1. 0 < p /\ Stamped(p, i) /\ OnLine(p)' = OnLine(p)
        BY <2>6
    <3>2. CASE k \in QueueRange(i)
        BY <2>1, <2>4, <3>1, <3>2 DEF QueueAhead
    <3>3. CASE k = Len(q) + 1
      <4>1. Ahead(OnLine(0), OnLine(p))
          BY <1>5, <1>6, <1>8, <2>1, <3>1 DEF LineOrdered
      <4> QED BY <1>5, <2>3, <3>1, <3>3, <4>1
    <3> QED BY <2>4, <3>2, <3>3
  <2>10. QueueSent(i)'
    <3>1. pmsg.id = i /\ SentPiece(pmsg)
        BY <1>5, <1>6, <1>8, <2>1 DEF LineSent
    <3>2. \A k \in QueueRange(i)' : conn_recv'[i][k].id = i /\ SentPiece(conn_recv'[i][k])
        BY <2>1, <2>3, <2>4, <3>1 DEF QueueSent
    <3> QED BY <1>4, <3>2 DEF QueueSent, SentPiece, CountsKept
  <2>11. LineSent(i)'
    <3> SUFFICES ASSUME NEW p \in Line, Piece(p, i)' PROVE SentPiece(OnLine(p))'
        BY <1>5 DEF LineSent
    <3>1. SentPiece(OnLine(p)) /\ OnLine(p)' = OnLine(p)
        BY <2>1, <2>6 DEF LineSent
    <3> QED BY <1>4, <3>1 DEF SentPiece, CountsKept
  <2> QED BY <2>7, <2>8, <2>9, <2>10, <2>11
<1> QED BY <1>7, <1>8

LEMMA PiecesStep ==
    ASSUME Typed, Alternation, Numbered, PiecesOrdered, [Next]_vars PROVE PiecesOrdered'
<1>1. CASE CountsKept /\ LineFewer /\ \A i \in Conn : QueueFewer(i)
    BY <1>1, PiecesFewer DEF PiecesOrdered
<1> QED BY <1>1, StepKinds, PiecesConnect, PiecesSends, PiecesDispatch

-----------------------------------------------------------------------------
(* What is allocated.                                                       *)
QueuedPiece(m) == \E i \in Conn : \E k \in QueueRange(i) : m = conn_recv[i][k]

LEMMA KeptIs == ASSUME NEW m PROVE m \in Kept <=> (m = pmsg /\ m.t = "recv") \/ QueuedPiece(m)
BY DEF Kept, Deleted, QueuedPiece, QueueRange

(* A payload dropped with its queue is of an incarnation before the one      *)
(* being announced.                                                         *)
LEMMA DroppedIsOld ==
    ASSUME Typed, Alternation, Numbered, PiecesOrdered, pmsg # NoMsg, pmsg.t = "connect",
           NEW k \in QueueRange(pmsg.id)
    PROVE  conn_recv[pmsg.id][k].id = pmsg.id /\ conn_recv[pmsg.id][k].inc < inc[pmsg.id]
<1> DEFINE i == pmsg.id   m == conn_recv[i][k]
<1>1. pmsg \in Reports /\ i \in Conn
    BY HeadFits
<1>2. m \in Pieces /\ m.id = i
    BY <1>1, QueueTypes DEF Typed, PiecesOrdered, QueueSent
<1>3. 0 \in Line /\ OnLine(0) = pmsg /\ Stamped(0, i)
    BY LineTypes DEF Line, OnLine, Stamped, Typed
<1>4. Ahead(m, pmsg) /\ pmsg.inc <= inc[i]
    BY <1>1, <1>3 DEF PiecesOrdered, QueueAhead, Numbered
<1>5. pmsg.n = 0 /\ pmsg.inc \in Nat /\ inc[i] \in Nat
  <2>1. pmsg.n = 0 /\ pmsg.inc \in 1..MaxInc
      BY <1>1 DEF Reports, Pieces
  <2> QED BY <1>1, <2>1, CountTypes DEF Typed
<1>6. m.inc \in Nat /\ m.n \in Nat
    BY <1>2, SockAssumption DEF Pieces
<1> QED BY <1>2, <1>4, <1>5, <1>6 DEF Ahead

LEMMA PiecesDistinct ==
    ASSUME Typed, PiecesOrdered
    PROVE  /\ \A i, j \in Conn : \A k \in QueueRange(i), l \in QueueRange(j) :
                 conn_recv[i][k] = conn_recv[j][l] => i = j /\ k = l
           /\ pmsg.t = "recv" => \A i \in Conn : \A k \in QueueRange(i) : conn_recv[i][k] # pmsg
<1>1. \A m \in Pieces : ~Ahead(m, m)
    BY SockAssumption DEF Ahead, Pieces
<1>2. ASSUME NEW i \in Conn, NEW j \in Conn, NEW k \in QueueRange(i), NEW l \in QueueRange(j),
             conn_recv[i][k] = conn_recv[j][l]
      PROVE  i = j /\ k = l
  <2>1. conn_recv[i][k] \in Pieces /\ conn_recv[i][k].id = i /\ conn_recv[j][l].id = j
      BY QueueTypes DEF Typed, PiecesOrdered, QueueSent
  <2>2. i = j
      BY <1>2, <2>1
  <2>3. ~(k < l) /\ ~(l < k)
      BY <1>1, <1>2, <2>1, <2>2 DEF PiecesOrdered, QueueOrdered
  <2> QED BY <2>2, <2>3 DEF QueueRange
<1>3. ASSUME pmsg.t = "recv", NEW i \in Conn, NEW k \in QueueRange(i), conn_recv[i][k] = pmsg
      PROVE  FALSE
  <2>1. conn_recv[i][k] \in Pieces /\ conn_recv[i][k].id = i
      BY QueueTypes DEF Typed, PiecesOrdered, QueueSent
  <2>2. 0 \in Line /\ OnLine(0) = pmsg
      BY LineTypes DEF Line, OnLine, Typed
  <2>3. Stamped(0, i)
      BY <1>3, <2>1, <2>2 DEF Stamped
  <2>4. Ahead(conn_recv[i][k], pmsg)
      BY <2>2, <2>3 DEF PiecesOrdered, QueueAhead
  <2> QED BY <1>1, <1>3, <2>1, <2>4
<1> QED BY <1>2, <1>3

(* NoLeak, without sets of sets.                                            *)
PmsgKept   == pmsg.t = "recv" => pmsg \in alive
QueuesKept == \A i \in Conn : \A k \in QueueRange(i) : conn_recv[i][k] \in alive
NoneLost   == \A m \in alive : (m = pmsg /\ pmsg.t = "recv") \/ QueuedPiece(m) \/ m.inc < inc[m.id]
LeakFree   == PmsgKept /\ QueuesKept /\ NoneLost

LEMMA LeakIs == NoLeak <=> LeakFree
<1>1. (\A m \in Kept : m \in alive) <=> PmsgKept /\ QueuesKept
    BY KeptIs DEF QueuedPiece, PmsgKept, QueuesKept
<1>2. (\A m \in alive \ Kept : m.inc < inc[m.id]) <=> NoneLost
    BY KeptIs DEF NoneLost
<1> QED BY <1>1, <1>2 DEF NoLeak, LeakFree

LEMMA LeakInit == Init => LeakFree
<1> SUFFICES ASSUME Init PROVE LeakFree
    OBVIOUS
<1>1. pmsg.t # "recv" /\ alive = {} /\ \A i \in Conn : QueueRange(i) = {}
    BY DEF Init, NoMsg, Report, QueueRange
<1> QED BY <1>1 DEF LeakFree, PmsgKept, QueuesKept, NoneLost

(* What leaves the queue of the id served is deleted, and nothing else is.   *)
LEMMA LeakStep ==
    ASSUME Typed, Alternation, Numbered, PiecesOrdered, LeakFree, [Next]_vars PROVE LeakFree'
<1> USE DEF Typed
<1>1. /\ pmsg.t = "recv" => pmsg \in alive
      /\ \A i \in Conn : \A k \in QueueRange(i) : conn_recv[i][k] \in alive
      /\ \A m \in alive : (m = pmsg /\ pmsg.t = "recv") \/ QueuedPiece(m) \/ m.inc < inc[m.id]
    BY DEF LeakFree, PmsgKept, QueuesKept, NoneLost
<1>2. \A m \in alive : m \in Pieces /\ m.id \in Conn /\ m.inc \in Nat
  <2> TAKE m \in alive
  <2>1. m \in Pieces
      BY DEF TypeOK
  <2> QED BY <2>1, SockAssumption DEF Pieces
<1>3. \A m \in alive : m.inc < inc[m.id] => m.inc < inc'[m.id]
  <2> SUFFICES ASSUME NEW m \in alive, m.inc < inc[m.id] PROVE m.inc < inc'[m.id]
      OBVIOUS
  <2>1. /\ inc[m.id] <= inc'[m.id] /\ inc[m.id] \in Nat /\ inc'[m.id] \in Nat
      BY <1>2, CountsGrow
  <2> QED BY <1>2, <2>1
<1>4. CASE alive' = alive /\ pmsg' = pmsg /\ conn_recv' = conn_recv
  <2>1. /\ \A i \in Conn : QueueRange(i)' = QueueRange(i)
        /\ \A m : QueuedPiece(m)' <=> QueuedPiece(m)
      BY <1>4 DEF QueuedPiece, QueueRange
  <2> QED BY <1>1, <1>3, <1>4, <2>1 DEF LeakFree, PmsgKept, QueuesKept, NoneLost
<1>5. CASE \E i \in Conn : Connect(i) \/ PeerSends(i) \/ PeerCloses(i)
    BY <1>4, <1>5 DEF Connect, PeerSends, PeerCloses, parserVars
<1>6. CASE ParserBegin
  <2>1. /\ pmsg.t = "none" /\ pmsg' = Head(rx) /\ conn_recv' = conn_recv /\ inc' = inc
        /\ alive' = IF pmsg'.t = "recv" THEN alive \cup {pmsg'} ELSE alive
      BY <1>6 DEF ParserBegin, NoMsg, Report, modemVars
  <2>2. \A m : QueuedPiece(m)' <=> QueuedPiece(m)
      BY <2>1 DEF QueuedPiece, QueueRange
  <2>3. \A i \in Conn : QueueRange(i)' = QueueRange(i)
      BY <2>1 DEF QueueRange
  <2> QED BY <1>1, <2>1, <2>2, <2>3 DEF LeakFree, PmsgKept, QueuesKept, NoneLost
<1>7. CASE DispatchAccepted
  <2>1. pmsg # NoMsg /\ pmsg.t = "connect"
      BY <1>7 DEF DispatchAccepted, NoMsg, Report
  <2>2. pmsg \in Reports /\ pmsg.id \in Conn /\ ~conn_state[pmsg.id]
      BY <2>1, HeadFits
  <2>3. /\ pmsg' = [pmsg EXCEPT !.t = "announce"] /\ alive' = alive /\ inc' = inc
        /\ conn_recv' = [conn_recv EXCEPT ![pmsg.id] = <<>>]
      BY <1>7, <2>2 DEF DispatchAccepted, modemVars, Emptied
  <2>4. pmsg'.t = "announce"
      BY <2>2, <2>3 DEF Reports, Pieces
  <2>5. \A i \in Conn : conn_recv'[i] = IF i = pmsg.id THEN <<>> ELSE conn_recv[i]
      BY <2>2, <2>3 DEF TypeOK
  <2>6. \A i \in Conn : QueueRange(i)' = IF i = pmsg.id THEN {} ELSE QueueRange(i)
      BY <2>5 DEF QueueRange
  <2>7. \A i \in Conn : \A k \in QueueRange(i)' : conn_recv'[i][k] \in alive
      BY <1>1, <2>5, <2>6
  <2>8. ASSUME NEW m \in alive PROVE QueuedPiece(m)' \/ m.inc < inc[m.id]
    <3>1. CASE QueuedPiece(m)
      <4>1. PICK i \in Conn : \E k \in QueueRange(i) : m = conn_recv[i][k]
          BY <3>1 DEF QueuedPiece
      <4> PICK k \in QueueRange(i) : m = conn_recv[i][k]
          BY <4>1
      <4>2. CASE i = pmsg.id
          BY <2>1, <4>2, DroppedIsOld
      <4>3. CASE i # pmsg.id
          BY <2>5, <2>6, <4>3 DEF QueuedPiece
      <4> QED BY <4>2, <4>3
    <3> QED BY <1>1, <2>1, <2>8, <3>1
  <2> QED BY <2>3, <2>4, <2>7, <2>8 DEF LeakFree, PmsgKept, QueuesKept, NoneLost
<1>8. CASE Announce \/ DispatchClosed
  <2>1. /\ pmsg.t # "recv" /\ pmsg'.t = "none" /\ conn_recv' = conn_recv /\ inc' = inc /\ alive' = alive
      BY <1>8 DEF Announce, DispatchClosed, NoMsg, Report, modemVars
  <2>2. \A m : QueuedPiece(m)' <=> QueuedPiece(m)
      BY <2>1 DEF QueuedPiece, QueueRange
  <2>3. \A i \in Conn : QueueRange(i)' = QueueRange(i)
      BY <2>1 DEF QueueRange
  <2> QED BY <1>1, <2>1, <2>2, <2>3 DEF LeakFree, PmsgKept, QueuesKept, NoneLost
<1>9. CASE DispatchRecv
  <2>1. pmsg # NoMsg /\ pmsg.t = "recv"
      BY <1>9 DEF DispatchRecv, NoMsg, Report
  <2>2. pmsg \in Pieces /\ pmsg.id \in Conn
      BY <2>1, HeadFits, PieceType
  <2>3. /\ conn_recv' = [conn_recv EXCEPT ![pmsg.id] = Append(conn_recv[pmsg.id], pmsg)]
        /\ pmsg'.t = "none" /\ inc' = inc /\ alive' = alive
      BY <1>9 DEF DispatchRecv, modemVars, NoMsg, Report
  <2>4. \A i \in Conn : /\ i # pmsg.id => conn_recv'[i] = conn_recv[i]
                        /\ i = pmsg.id => conn_recv'[i] = Append(conn_recv[i], pmsg)
      BY <2>2, <2>3 DEF TypeOK
  <2>5. \A i \in Conn : /\ \A k \in QueueRange(i) : k \in QueueRange(i)' /\ conn_recv'[i][k] = conn_recv[i][k]
                        /\ \A k \in QueueRange(i)' : k \in QueueRange(i) \/ conn_recv'[i][k] = pmsg
    <3> TAKE i \in Conn
    <3>1. CASE i # pmsg.id
        BY <2>4, <3>1 DEF QueueRange
    <3>2. CASE i = pmsg.id
      <4> DEFINE q == conn_recv[i]
      <4>1. q \in Seq(Pieces) /\ conn_recv'[i] = Append(q, pmsg)
          BY <2>4, <3>2 DEF TypeOK
      <4> HIDE DEF q
      <4>2. /\ Len(q) \in Nat /\ Len(conn_recv'[i]) = Len(q) + 1
            /\ \A k \in 1..Len(q) : conn_recv'[i][k] = q[k]
            /\ \A k : k = Len(q) + 1 => conn_recv'[i][k] = pmsg
          BY <2>2, <4>1, AppendProperties, LenProperties
      <4>3. QueueRange(i) = 1..Len(q) /\ QueueRange(i)' = 1..(Len(q) + 1)
          BY <4>2 DEF QueueRange, q
      <4>4. \A k \in 1..(Len(q) + 1) : k \in 1..Len(q) \/ k = Len(q) + 1
          BY <4>2
      <4> QED BY <4>2, <4>3, <4>4 DEF q
    <3> QED BY <3>1, <3>2
  <2>6. \A m : QueuedPiece(m) => QueuedPiece(m)'
      BY <2>5 DEF QueuedPiece
  <2>8. \A m : m = pmsg => QueuedPiece(m)'
    <3> DEFINE q == conn_recv[pmsg.id]
    <3>1. q \in Seq(Pieces) /\ \A i : i = pmsg.id => conn_recv'[i] = Append(q, pmsg)
        BY <2>2, <2>4 DEF TypeOK
    <3> HIDE DEF q
    <3>2. \A i : i = pmsg.id => /\ Len(q) + 1 \in 1..Len(conn_recv'[i])
                                /\ conn_recv'[i][Len(q) + 1] = pmsg
        BY <2>2, <3>1, AppendProperties, LenProperties
    <3> QED BY <2>2, <3>2 DEF QueuedPiece, QueueRange
  <2>9. \A i \in Conn : \A k \in QueueRange(i)' : conn_recv'[i][k] \in alive
      BY <1>1, <2>1, <2>5
  <2> QED BY <1>1, <2>3, <2>6, <2>8, <2>9 DEF LeakFree, PmsgKept, QueuesKept, NoneLost
<1>10. CASE RecvPop
  <2> DEFINE h == Head(conn_recv[fd])
  <2>1. /\ fd \in Conn /\ conn_recv[fd] \in Seq(Pieces) /\ conn_recv[fd] # <<>> /\ inc' = inc /\ pmsg' = pmsg
        /\ conn_recv' = [conn_recv EXCEPT ![fd] = Tail(conn_recv[fd])] /\ alive' = alive \ {h} /\ fd' = fd
      BY <1>10 DEF RecvPop, Serves, TypeOK, modemVars, parserVars
  <2>2. /\ h = conn_recv[fd][1] /\ Len(conn_recv[fd]) \in Nat \ {0}
        /\ Len(Tail(conn_recv[fd])) = Len(conn_recv[fd]) - 1
        /\ \A k \in 1..Len(Tail(conn_recv[fd])) : Tail(conn_recv[fd])[k] = conn_recv[fd][k + 1]
    <3> DEFINE q == conn_recv[fd]
    <3>1. q \in Seq(Pieces) /\ q # <<>>
        BY <2>1
    <3> HIDE DEF q
    <3>2. Len(Tail(q)) = Len(q) - 1 /\ Len(q) \in Nat \ {0} /\ \A k \in 1..Len(Tail(q)) : Tail(q)[k] = q[k + 1]
        BY <3>1, HeadTailProperties, LenProperties, EmptySeq
    <3>3. Head(q) = q[1]
        BY <3>1
    <3> QED BY <3>2, <3>3 DEF q
  <2> HIDE DEF h
  <2>3. \A i \in Conn : /\ i # fd => conn_recv'[i] = conn_recv[i] /\ QueueRange(i)' = QueueRange(i)
                        /\ i = fd => conn_recv'[i] = Tail(conn_recv[fd])
      BY <2>1 DEF TypeOK, QueueRange
  <2>4. \A i : i = fd => QueueRange(i)' = 1..(Len(conn_recv[fd]) - 1) /\ QueueRange(i) = 1..Len(conn_recv[fd])
      BY <2>1, <2>2, <2>3 DEF QueueRange
  <2>5. \A i \in Conn : \A k \in QueueRange(i)' :
            conn_recv'[i][k] # h /\ \E l \in QueueRange(i) : conn_recv'[i][k] = conn_recv[i][l]
    <3> TAKE i \in Conn
    <3> TAKE k \in QueueRange(i)'
    <3>1. CASE i # fd
        BY <2>1, <2>2, <2>3, <2>4, <3>1, PiecesDistinct
    <3>2. CASE i = fd
      <4>1. k \in 1..(Len(conn_recv[fd]) - 1) /\ conn_recv'[i] = Tail(conn_recv[fd])
          BY <2>3, <2>4, <3>2
      <4>2. k + 1 \in QueueRange(fd) /\ 1 \in QueueRange(fd) /\ k + 1 # 1
          BY <2>2, <2>4, <4>1
      <4>3. conn_recv'[i][k] = conn_recv[fd][k + 1]
          BY <2>2, <4>1
      <4>4. conn_recv[fd][k + 1] # h
          BY <2>1, <2>2, <4>2, PiecesDistinct
      <4> QED BY <3>2, <4>2, <4>3, <4>4
    <3> QED BY <3>1, <3>2
  <2>6. ASSUME NEW m, QueuedPiece(m), m # h PROVE QueuedPiece(m)'
    <3>1. PICK i \in Conn : \E k \in QueueRange(i) : m = conn_recv[i][k]
        BY <2>6 DEF QueuedPiece
    <3> PICK k \in QueueRange(i) : m = conn_recv[i][k]
        BY <3>1
    <3>2. CASE i # fd
        BY <2>3, <3>2 DEF QueuedPiece
    <3>3. CASE i = fd
      <4>1. k # 1
          BY <2>2, <2>6, <3>3
      <4>2. k - 1 \in 1..(Len(conn_recv[fd]) - 1) /\ (k - 1) + 1 = k
          BY <2>2, <2>4, <3>3, <4>1
      <4>3. k - 1 \in QueueRange(i)' /\ conn_recv'[i][k - 1] = m
          BY <2>2, <2>3, <2>4, <3>3, <4>2
      <4> QED BY <4>3 DEF QueuedPiece
    <3> QED BY <3>2, <3>3
  <2>7. pmsg.t = "recv" => pmsg # h
      BY <2>1, <2>2, <2>4, PiecesDistinct
  <2>8. ASSUME NEW i \in Conn, NEW k \in QueueRange(i)' PROVE conn_recv'[i][k] \in alive'
    <3>1. PICK l \in QueueRange(i) : conn_recv'[i][k] = conn_recv[i][l]
        BY <2>5
    <3>2. conn_recv[i][l] \in alive /\ conn_recv'[i][k] # h
        BY <1>1, <2>5
    <3>3. alive' = alive \ {h}
        BY <2>1
    <3> QED BY <3>1, <3>2, <3>3
  <2>9. \A m \in alive' : (m = pmsg /\ pmsg.t = "recv") \/ QueuedPiece(m)' \/ m.inc < inc[m.id]
      BY <1>1, <2>1, <2>6
  <2> QED BY <1>1, <2>1, <2>7, <2>8, <2>9 DEF LeakFree, PmsgKept, QueuesKept, NoneLost
<1>11. CASE CloseStart
  <2>1. CASE IsConn(fd)
    <3>1. /\ fd \in Conn /\ inc' = inc /\ pmsg' = pmsg
          /\ conn_recv' = [conn_recv EXCEPT ![fd] = <<>>] /\ alive' = alive \ Deleted(fd)
        BY <1>11, <2>1 DEF CloseStart, Serves, Emptied, modemVars, parserVars
    <3>2. \A i \in Conn : conn_recv'[i] = IF i = fd THEN <<>> ELSE conn_recv[i]
        BY <3>1 DEF TypeOK
    <3>3. \A i \in Conn : QueueRange(i)' = IF i = fd THEN {} ELSE QueueRange(i)
        BY <3>2 DEF QueueRange
    <3>4. \A m : m \in Deleted(fd) <=> \E k \in QueueRange(fd) : m = conn_recv[fd][k]
        BY DEF Deleted, QueueRange
    <3>5. \A i \in Conn : \A k \in QueueRange(i)' : conn_recv'[i][k] \in alive'
        BY <1>1, <3>1, <3>2, <3>3, <3>4, PiecesDistinct
    <3>6. \A m \in alive' : QueuedPiece(m) => QueuedPiece(m)'
        BY <3>1, <3>2, <3>3, <3>4 DEF QueuedPiece
    <3>7. pmsg.t = "recv" => pmsg \in alive'
        BY <1>1, <3>1, <3>4, PiecesDistinct
    <3>8. \A m \in alive' : (m = pmsg /\ pmsg.t = "recv") \/ QueuedPiece(m)' \/ m.inc < inc[m.id]
        BY <1>1, <3>1, <3>6
    <3> QED BY <3>1, <3>5, <3>7, <3>8 DEF LeakFree, PmsgKept, QueuesKept, NoneLost
  <2>2. CASE ~IsConn(fd)
      BY <1>4, <1>11, <2>2 DEF CloseStart, parserVars
  <2> QED BY <2>1, <2>2
<1>12. CASE Accept \/ RecvEnough \/ RecvMore \/ SendStart \/ SendDone \/ CloseDone \/ UNCHANGED vars
            \/ \E n \in Sizes : RecvStart(n)
    BY <1>4, <1>12 DEF Accept, RecvEnough, RecvMore, SendStart, SendDone, CloseDone,
                       RecvStart, parserVars, vars
<1> QED BY <1>5, <1>6, <1>7, <1>8, <1>9, <1>10, <1>11, <1>12 DEF Next, Modem, Parser, Sshd, Recv

(* No payload buffer is lost: sock_recv and sock_close delete what the       *)
(* parser queued, and what the xQueueReset at parser.c:405 drops belongs to  *)
(* a connection whose id has been taken again (espsock.c:176-208).           *)
THEOREM Leakless == Spec => []NoLeak
<1>1. Init => Numbered /\ PiecesOrdered /\ LeakFree
    BY NumberedInit, PiecesInit, LeakInit
<1>2. Typed /\ Alternation /\ Numbered /\ PiecesOrdered /\ LeakFree /\ [Next]_vars
        => (Numbered /\ PiecesOrdered /\ LeakFree)'
    BY NumberedStep, PiecesStep, LeakStep
<1>3. LeakFree => NoLeak
    BY LeakIs
<1> QED BY <1>1, <1>2, <1>3, TypeInit, TypeStep, AltInit, AltStep, PTL DEF Spec

-----------------------------------------------------------------------------
(* Bytes come in the order they were sent.                                  *)
LEMMA Extents ==
    /\ \A n \in Nat : Extent(n) \in Nat /\ Extent(n + 1) = Extent(n) + ChunkLen
    /\ Extent(0) = 0
    /\ \A n, m \in Nat : n <= m => Extent(n) <= Extent(m)
    /\ \A n, m \in Nat : n < m => Extent(n) + ChunkLen <= Extent(m)
<1>1. \A n \in Nat : Extent(n) \in Nat /\ Extent(n + 1) = Extent(n) + ChunkLen
    BY SockAssumption DEF Extent
<1>2. Extent(0) = 0
    BY SockAssumption DEF Extent
<1>3. ASSUME NEW n \in Nat, NEW m \in Nat, n <= m PROVE Extent(n) <= Extent(m)
  <2>1. PICK d \in Nat : m = n + d
      BY <1>3, m - n \in Nat
  <2>2. (n + d) * ChunkLen = n * ChunkLen + d * ChunkLen
      BY SockAssumption
  <2>3. n * ChunkLen \in Nat /\ d * ChunkLen \in Nat
      BY SockAssumption
  <2> QED BY <2>1, <2>2, <2>3 DEF Extent
<1>4. ASSUME NEW n \in Nat, NEW m \in Nat, n < m PROVE Extent(n) + ChunkLen <= Extent(m)
  <2>1. Extent(n + 1) <= Extent(m)
      BY <1>3, <1>4
  <2> QED BY <1>1, <2>1
<1> QED BY <1>1, <1>2, <1>3, <1>4

(* The byte was sent, and no payload still to come holds it or an earlier one. *)
BeforePiece(b, m) == b.inc < m.inc \/ (b.inc = m.inc /\ b.pos <= Extent(m.n - 1))
SentByte(b, i)    == b.inc <= inc[i] /\ b.pos <= Extent(chunks[<<i, b.inc>>])
BeforeQueue(b, i) == \A k \in QueueRange(i) : BeforePiece(b, conn_recv[i][k])
BeforeLine(b, i)  == \A p \in Line : Piece(p, i) => BeforePiece(b, OnLine(p))
Follows(b, i)     == SentByte(b, i) /\ BeforeQueue(b, i) /\ BeforeLine(b, i)

LEMMA SentByteStays ==
    ASSUME Typed, Alternation, [Next]_vars, NEW i \in Conn, NEW b \in Bytes, SentByte(b, i)
    PROVE  SentByte(b, i)'
<1> DEFINE c == <<i, b.inc>>
<1>1. b.inc \in Nat /\ b.pos \in Nat /\ c \in Made
    BY SockAssumption DEF Bytes, Made
<1>2. b.inc <= inc[i] /\ b.pos <= Extent(chunks[c])
    BY DEF SentByte
<1>3. b.inc <= inc'[i]
    BY <1>1, <1>2, CountsGrow
<1> HIDE DEF c
<1>4. chunks[c] \in Nat /\ chunks'[c] \in Nat /\ chunks[c] <= chunks'[c]
    BY <1>1, CountsGrow
<1>5. Extent(chunks[c]) \in Nat /\ Extent(chunks'[c]) \in Nat /\ Extent(chunks[c]) <= Extent(chunks'[c])
    BY <1>4, Extents
<1>6. b.pos <= Extent(chunks'[c])
    BY <1>1, <1>2, <1>5
<1> QED BY <1>3, <1>6 DEF SentByte, c, Extent

LEMMA FollowsStays ==
    ASSUME Typed, Alternation, Numbered, [Next]_vars,
           NEW i \in Conn, NEW b \in Bytes, Follows(b, i)
    PROVE  Follows(b, i)'
<1> USE DEF Typed
<1>1. SentByte(b, i)' /\ SentByte(b, i) /\ BeforeQueue(b, i) /\ BeforeLine(b, i)
    BY SentByteStays DEF Follows
<1>2. ASSUME LineFewer PROVE BeforeLine(b, i)'
  <2>1. PICK s \in {0, 1} : \A p \in Line' : OnLine(p)'.t \in {"connect", "recv"} =>
              p + s \in Line /\ OnLine(p)' = OnLine(p + s)
      BY <1>2 DEF LineFewer
  <2>2. ASSUME NEW p \in Line', Piece(p, i)' PROVE BeforePiece(b, OnLine(p)')
    <3>1. p + s \in Line /\ OnLine(p)' = OnLine(p + s)
        BY <2>1, <2>2 DEF Piece
    <3>2. Piece(p + s, i)
        BY <2>2, <3>1 DEF Piece
    <3> QED BY <1>1, <3>1, <3>2 DEF BeforeLine
  <2> QED BY <2>2 DEF BeforeLine, BeforePiece, Extent
<1>3. ASSUME QueueFewer(i) PROVE BeforeQueue(b, i)'
  <2>1. PICK s \in {0, 1} : \A k \in QueueRange(i)' :
              k + s \in QueueRange(i) /\ conn_recv'[i][k] = conn_recv[i][k + s]
      BY <1>3 DEF QueueFewer
  <2>2. \A k \in QueueRange(i)' : BeforePiece(b, conn_recv'[i][k])
      BY <1>1, <2>1 DEF BeforeQueue
  <2> QED BY <2>2 DEF BeforeQueue, BeforePiece, Extent
<1>4. CASE \E j \in Conn : Connect(j) \/ PeerSends(j)
  <2>1. QueueFewer(i)
      BY <1>4, QueueSame DEF Connect, PeerSends
  <2>2. ASSUME NEW m \in Reports, rx' = Append(rx, m), pmsg' = pmsg,
               (m.id = i /\ m.t = "recv") => BeforePiece(b, m)
        PROVE  BeforeLine(b, i)'
    <3> DEFINE new == Len(rx) + 1
    <3>1. /\ Line' = Line \cup {new}
          /\ \A p \in Line : OnLine(p)' = OnLine(p)
          /\ \A p : p = new => OnLine(p)' = m
        BY <2>2, LineGrows DEF Line
    <3> HIDE DEF new
    <3>2. ASSUME NEW p \in Line', Piece(p, i)' PROVE BeforePiece(b, OnLine(p)')
      <4>1. CASE p = new
          BY <2>2, <3>1, <3>2, <4>1 DEF Piece
      <4>2. CASE p \in Line
        <5>1. Piece(p, i) /\ OnLine(p)' = OnLine(p)
            BY <3>1, <3>2, <4>2 DEF Piece
        <5> QED BY <1>1, <4>2, <5>1 DEF BeforeLine
      <4> QED BY <3>1, <4>1, <4>2
    <3> QED BY <3>2 DEF BeforeLine, BeforePiece, Extent
  <2>3. ASSUME NEW j \in Conn, Connect(j) PROVE BeforeLine(b, i)'
    <3> DEFINE m == Report("connect", j, inc[j] + 1, 0)
    <3>1. inc[j] + 1 \in 1..MaxInc
        BY <2>3, ConnectCounts
    <3>2. m \in Reports /\ m.t = "connect" /\ rx' = Append(rx, m) /\ pmsg' = pmsg
        BY <2>3, <3>1 DEF Report, Reports, Connect, parserVars
    <3> HIDE DEF m
    <3> QED BY <2>2, <3>2
  <2>4. ASSUME NEW j \in Conn, PeerSends(j) PROVE BeforeLine(b, i)'
    <3> DEFINE c == <<j, inc[j]>>
    <3>1. link[j] = inc[j] /\ inc[j] \in 1..MaxInc
        BY <2>4, CountTypes DEF PeerSends, Numbered
    <3>2. c \in Made /\ c[1] = j /\ c[2] = inc[j] /\ chunks[c] < MaxChunk
        BY <2>4, <3>1 DEF PeerSends, Made
    <3>3. PICK m : m = Report("recv", j, inc[j], chunks[c] + 1)
        OBVIOUS
    <3>4. rx' = Append(rx, m) /\ pmsg' = pmsg
        BY <2>4, <3>1, <3>3 DEF PeerSends, parserVars
    <3>5. c = <<j, inc[j]>>
        OBVIOUS
    <3> HIDE DEF c
    <3>6. chunks[c] \in Nat /\ chunks[c] + 1 \in 1..MaxChunk /\ (chunks[c] + 1) - 1 = chunks[c]
      <4>1. chunks[c] \in 0..MaxChunk
          BY <3>2 DEF TypeOK
      <4> QED BY <3>2, <4>1, SockAssumption
    <3>7. m \in Reports /\ m.id = j /\ m.inc = inc[j] /\ m.n = chunks[c] + 1
        BY <3>1, <3>3, <3>6 DEF Report, Reports, Pieces
    <3>8. m.id = i => BeforePiece(b, m)
      <4> SUFFICES ASSUME j = i PROVE BeforePiece(b, m)
          BY <3>7
      <4>1. b.inc <= inc[i] /\ b.pos <= Extent(chunks[<<i, b.inc>>]) /\ b.inc \in Nat /\ inc[i] \in Nat
          BY <1>1, SockAssumption DEF SentByte, Bytes, TypeOK
      <4>2. b.inc = inc[i] => b.pos <= Extent(chunks[c])
          BY <3>5, <4>1
      <4> QED BY <3>6, <3>7, <4>1, <4>2 DEF BeforePiece
    <3> QED BY <2>2, <3>4, <3>7, <3>8
  <2> QED BY <1>1, <1>3, <1>4, <2>1, <2>3, <2>4 DEF Follows
<1>5. CASE DispatchRecv /\ CountsKept /\ LineFewer
  <2>1. pmsg # NoMsg /\ pmsg.t = "recv"
      BY <1>5 DEF DispatchRecv, NoMsg, Report
  <2>2. pmsg \in Pieces /\ pmsg.id \in Conn
      BY <2>1, HeadFits, PieceType
  <2>3. conn_recv' = [conn_recv EXCEPT ![pmsg.id] = Append(conn_recv[pmsg.id], pmsg)]
      BY <1>5 DEF DispatchRecv
  <2>4. CASE i # pmsg.id
    <3>1. conn_recv'[i] = conn_recv[i]
        BY <2>2, <2>3, <2>4 DEF TypeOK
    <3> QED BY <1>1, <1>2, <1>3, <1>5, <3>1, QueueSame DEF Follows
  <2>5. CASE i = pmsg.id
    <3> DEFINE q == conn_recv[i]
    <3>1. q \in Seq(Pieces) /\ conn_recv'[i] = Append(q, pmsg)
        BY <2>2, <2>3, <2>5 DEF TypeOK
    <3> HIDE DEF q
    <3>2. /\ Len(q) \in Nat /\ Len(conn_recv'[i]) = Len(q) + 1
          /\ \A k \in 1..Len(q) : conn_recv'[i][k] = q[k]
          /\ \A k : k = Len(q) + 1 => conn_recv'[i][k] = pmsg
        BY <2>2, <3>1, AppendProperties, LenProperties
    <3>3. BeforePiece(b, pmsg)
      <4>1. 0 \in Line /\ OnLine(0) = pmsg
          BY LineTypes DEF Line, OnLine
      <4> QED BY <1>1, <2>1, <2>5, <4>1 DEF BeforeLine, Piece
    <3>4. \A k \in QueueRange(i)' : BeforePiece(b, conn_recv'[i][k])
      <4> TAKE k \in QueueRange(i)'
      <4>1. k \in 1..Len(q) \/ k = Len(q) + 1
          BY <3>2 DEF QueueRange
      <4>2. CASE k \in 1..Len(q)
          BY <1>1, <3>2, <4>2 DEF BeforeQueue, QueueRange, q
      <4> QED BY <3>2, <3>3, <4>1, <4>2
    <3>5. BeforeQueue(b, i)'
        BY <3>4 DEF BeforeQueue, BeforePiece, Extent
    <3> QED BY <1>1, <1>2, <1>5, <3>5 DEF Follows
  <2> QED BY <2>4, <2>5
<1>6. CASE LineFewer /\ \A j \in Conn : QueueFewer(j)
    BY <1>1, <1>2, <1>3, <1>6 DEF Follows
<1> QED BY <1>4, <1>5, <1>6, StepKinds

BuffFollows == \A i \in Conn : \A a \in 1..Len(recv_buff[i]) : Follows(recv_buff[i][a], i)
BuffOrdered == \A i \in Conn : \A a, b \in 1..Len(recv_buff[i]) :
                  a < b => Sooner(recv_buff[i][a], recv_buff[i][b])
ReadFollows == pc # "accept" => \A a \in 1..Len(read[Current]) : Follows(read[Current][a], fd)
ReadSooner  == pc \notin {"accept", "pop"} =>
                  \A a \in 1..Len(read[Current]), b \in 1..Len(recv_buff[fd]) :
                      Sooner(read[Current][a], recv_buff[fd][b])
BytesOrdered == BuffFollows /\ BuffOrdered /\ ReadFollows /\ ReadSooner

Accepted(c)  == \E k \in 1..Len(accepted) : accepted[k] = c
ReadAccepted == /\ fd # NoFd => Accepted(Current)
                /\ \A c \in Made : read[c] # <<>> => Accepted(c)

LEMMA BytesInit == Init => BytesOrdered /\ ReadAccepted /\ InOrder
<1> SUFFICES ASSUME Init PROVE BytesOrdered /\ ReadAccepted /\ InOrder
    OBVIOUS
<1>1. /\ pc = "accept" /\ fd = NoFd /\ \A i \in Conn : recv_buff[i] = <<>>
      /\ \A c \in Made : read[c] = <<>>
    BY DEF Init
<1>2. (1..Len(<<>>)) = {}
    OBVIOUS
<1> QED BY <1>1, <1>2 DEF BytesOrdered, BuffFollows, BuffOrdered, ReadFollows, ReadSooner,
                          ReadAccepted, InOrder

LEMMA ByteTypes ==
    ASSUME Typed
    PROVE  /\ \A i \in Conn : /\ recv_buff[i] \in Seq(Bytes) /\ Len(recv_buff[i]) \in Nat
                              /\ \A a \in 1..Len(recv_buff[i]) : recv_buff[i][a] \in Bytes
           /\ \A c \in Made : /\ read[c] \in Seq(Bytes) /\ Len(read[c]) \in Nat
                              /\ \A a \in 1..Len(read[c]) : read[c][a] \in Bytes
           /\ pc # "accept" => Current \in Made /\ fd \in Conn
<1>1. \A i \in Conn : recv_buff[i] \in Seq(Bytes)
    BY DEF Typed, TypeOK
<1>2. \A c \in Made : read[c] \in Seq(Bytes)
    BY DEF Typed, TypeOK
<1>3. \A q \in Seq(Bytes) : Len(q) \in Nat /\ \A a \in 1..Len(q) : q[a] \in Bytes
    BY LenProperties, ElementOfSeq
<1> QED BY <1>1, <1>2, <1>3 DEF Typed, Serves, Current, Made

(* A connection that is accepted has not been accepted before: nothing of it *)
(* has been read.                                                           *)
LEMMA AcceptedNew ==
    ASSUME Typed, Numbered, EachAcceptedOnce, ReadAccepted, Accept
    PROVE  /\ Current' = Head(preacc) /\ Current' \in Made
           /\ read[Current'] = <<>>
<1> USE DEF Typed
<1>1. preacc \in Seq(Made) /\ preacc # <<>> /\ Len(preacc) \in Nat \ {0} /\ preacc[1] = Head(preacc)
    BY LenProperties, EmptySeq DEF Accept, TypeOK
<1>2. preacc[1] \in Made
    BY <1>1, ElementOfSeq
<1> DEFINE c == preacc[1]
<1>3. Current' = c
    BY <1>1, <1>2 DEF Accept, Current, Made
<1>4. ~Accepted(c)
  <2> SUFFICES ASSUME NEW k \in 1..Len(accepted), accepted[k] = c PROVE FALSE
      BY DEF Accepted
  <2> DEFINE l == Len(accepted) + 1
  <2>1. /\ Announced[k] = c /\ Announced[l] = c /\ k # l
        /\ k \in 1..Len(Announced) /\ l \in 1..Len(Announced)
    <3>1. /\ Len(accepted) \in Nat /\ Len(preacc) \in Nat /\ Len(connects) \in Nat
          /\ Len(Announced) = Len(accepted) + Len(preacc)
          /\ \A n \in 1..Len(accepted) : Announced[n] = accepted[n]
          /\ \A n \in 1..Len(preacc) : Announced[Len(accepted) + n] = preacc[n]
        BY Lengths
    <3>2. 1 \in 1..Len(preacc)
        BY <1>1
    <3> QED BY <1>1, <3>1, <3>2
  <2> HIDE DEF l
  <2>2. connects[k] = c /\ connects[l] = c /\ k \in 1..Len(connects) /\ l \in 1..Len(connects)
    <3>1. Len(Announced) <= Len(connects) /\ \A n \in 1..Len(Announced) : connects[n] = Announced[n]
        BY DEF EachAcceptedOnce
    <3>2. Len(connects) \in Nat /\ Len(Announced) \in Nat
        BY Lengths, LenProperties
    <3> QED BY <2>1, <3>1, <3>2
  <2> QED BY <2>1, <2>2 DEF Numbered
<1> QED BY <1>1, <1>2, <1>3, <1>4 DEF ReadAccepted

LEMMA ReadAcceptedStep ==
    ASSUME Typed, ReadAccepted, [Next]_vars PROVE ReadAccepted'
<1> USE DEF Typed
<1>1. CASE Accept
  <2>1. preacc \in Seq(Made) /\ preacc # <<>> /\ accepted \in Seq(Made) /\ Head(preacc) \in Made
      BY <1>1, HeadTailProperties DEF Accept, TypeOK
  <2>2. accepted' = Append(accepted, Head(preacc)) /\ read' = read /\ Current' = Head(preacc)
      BY <1>1, <2>1 DEF Accept, Current, Made
  <2>3. /\ Len(accepted) \in Nat /\ Len(accepted') = Len(accepted) + 1
        /\ \A k \in 1..Len(accepted) : accepted'[k] = accepted[k]
        /\ accepted'[Len(accepted) + 1] = Head(preacc)
      BY <2>1, <2>2, AppendProperties, LenProperties
  <2>4. \A c : Accepted(c) => Accepted(c)'
      BY <2>3 DEF Accepted
  <2>5. Len(accepted) + 1 \in 1..Len(accepted')
      BY <2>3
  <2>6. \E k \in 1..Len(accepted') : accepted'[k] = Current'
      BY <2>2, <2>3, <2>5
  <2> QED BY <2>2, <2>4, <2>6 DEF ReadAccepted, Accepted
<1>2. CASE RecvEnough \/ RecvMore
  <2>1. /\ fd # NoFd /\ Current' = Current /\ accepted' = accepted
        /\ \A c \in Made : c # Current => read'[c] = read[c]
      BY <1>2, SockAssumption DEF RecvEnough, RecvMore, HandOut, Current, TypeOK, Serves
  <2> QED BY <2>1 DEF ReadAccepted, Accepted
<1>3. CASE ~Accept /\ ~RecvEnough /\ ~RecvMore
  <2>1. accepted' = accepted /\ read' = read /\ Current' = Current /\ fd' = fd
      BY <1>3 DEF Next, Modem, Connect, PeerSends, PeerCloses, Parser, ParserBegin, DispatchAccepted,
                  Announce, DispatchClosed, DispatchRecv, Sshd, RecvStart, Recv, RecvPop, SendStart,
                  SendDone, CloseStart, CloseDone, vars, taskVars, Current
  <2> QED BY <2>1 DEF ReadAccepted, Accepted
<1> QED BY <1>1, <1>2, <1>3

(* A step that gives the sshd task no byte. *)
LEMMA BytesKeep ==
    ASSUME Typed, Alternation, Numbered, BytesOrdered, [Next]_vars,
           read' = read, Current' = Current, pc' # "accept" => pc # "accept",
           \A i \in Conn : recv_buff'[i] = recv_buff[i] \/ recv_buff'[i] = <<>>,
           pc' \notin {"accept", "pop"} => pc # "pop"
    PROVE  BytesOrdered'
<1>0. /\ BuffFollows /\ BuffOrdered /\ ReadFollows /\ ReadSooner
    BY DEF BytesOrdered
<1>1. (1..Len(<<>>)) = {} /\ fd' = fd /\ session' = session
    BY DEF Current
<1>2. BuffFollows'
    BY <1>0, <1>1, ByteTypes, FollowsStays DEF BuffFollows
<1>3. BuffOrdered'
    BY <1>0, <1>1 DEF BuffOrdered
<1>4. ReadFollows'
  <2> SUFFICES ASSUME pc' # "accept", NEW a \in 1..Len(read[Current])
               PROVE  Follows(read[Current][a], fd)'
      BY DEF ReadFollows
  <2>1. PICK b \in Bytes : b = read[Current][a]
      BY ByteTypes
  <2>2. PICK i \in Conn : i = fd
      BY ByteTypes
  <2>3. Follows(b, i)
      BY <1>0, <2>1, <2>2 DEF ReadFollows
  <2>4. Follows(b, i)'
      BY <2>3, FollowsStays
  <2>5. b = read'[Current'][a] /\ i = fd'
      BY <1>1, <2>1, <2>2
  <2> QED BY <2>4, <2>5 DEF Follows, SentByte, BeforeQueue, BeforeLine, QueueRange, Piece
<1>5. ReadSooner'
    BY <1>0, <1>1, ByteTypes DEF ReadSooner
<1> QED BY <1>2, <1>3, <1>4, <1>5 DEF BytesOrdered

(* A lemma about a byte of the line, the queue or a buffer, at a step, holds *)
(* for the byte itself.                                                     *)
LEMMA FollowsAgain ==
    ASSUME Typed, Alternation, Numbered, [Next]_vars, fd \in Conn, fd' = fd,
           NEW b \in Bytes, Follows(b, fd)
    PROVE  Follows(b, fd)'
<1>1. PICK i \in Conn : i = fd
    OBVIOUS
<1>2. Follows(b, i)'
    BY <1>1, FollowsStays
<1> QED BY <1>1, <1>2 DEF Follows, SentByte, BeforeQueue, BeforeLine, QueueRange, Piece

(* Bytes are handed out of recv_buff, which keeps a part that comes later.   *)
LEMMA BytesHandOut ==
    ASSUME Typed, Alternation, Numbered, BytesOrdered, InOrder, [Next]_vars,
           NEW n \in Nat, n <= Len(recv_buff[fd]), HandOut(n), pc \notin {"accept", "pop"}, Current' = Current
    PROVE  InOrder' /\ ReadFollows'
<1>1. /\ Current \in Made /\ fd \in Conn /\ fd' = fd
      /\ read[Current] \in Seq(Bytes) /\ recv_buff[fd] \in Seq(Bytes)
      /\ \A a \in 1..Len(read[Current]) : read[Current][a] \in Bytes
      /\ \A a \in 1..Len(recv_buff[fd]) : recv_buff[fd][a] \in Bytes
    BY ByteTypes DEF Current
<1>2. BuffFollows /\ BuffOrdered /\ ReadFollows /\ ReadSooner
    BY DEF BytesOrdered
<1>3. /\ read' = [read EXCEPT ![Current] = read'[Current]]
      /\ Len(read'[Current]) = Len(read[Current]) + n
      /\ \A a \in 1..Len(read[Current]) : read'[Current][a] = read[Current][a]
      /\ \A a \in 1..n : read'[Current][Len(read[Current]) + a] = recv_buff[fd][a]
      /\ Len(read[Current]) \in Nat /\ Len(recv_buff[fd]) \in Nat
  <2>1. n \in 0..Len(recv_buff[fd])
      BY <1>1, LenProperties
  <2> QED BY <2>1, HandOutType
<1> DEFINE L == Len(read[Current])   new == read'[Current]
<1>4. \A a \in 1..Len(new) : \/ a \in 1..L /\ new[a] = read[Current][a]
                             \/ /\ a > L /\ a - L \in 1..n /\ a - L \in 1..Len(recv_buff[fd])
                                /\ new[a] = recv_buff[fd][a - L]
  <2> TAKE a \in 1..Len(new)
  <2>1. CASE a <= L
      BY <1>3, <2>1
  <2>2. CASE a > L
    <3>1. a - L \in 1..n /\ L + (a - L) = a /\ a - L \in 1..Len(recv_buff[fd])
        BY <1>3, <2>2
    <3> QED BY <1>3, <2>2, <3>1
  <2> QED BY <1>3, <2>1, <2>2
<1>5. Len(new) \in Nat /\ L \in Nat
    BY <1>3
<1>6. \A a, b \in 1..Len(new) : a < b => Sooner(new[a], new[b])
  <2> SUFFICES ASSUME NEW a \in 1..Len(new), NEW b \in 1..Len(new), a < b PROVE Sooner(new[a], new[b])
      OBVIOUS
  <2> HIDE DEF new, L
  <2>1. CASE b \in 1..L
    <3>1. a \in 1..L
        BY <1>5, <2>1
    <3>2. new[a] = read[Current][a] /\ new[b] = read[Current][b]
        BY <1>4, <1>5, <2>1, <3>1
    <3>3. Sooner(read[Current][a], read[Current][b])
        BY <1>1, <2>1, <3>1 DEF InOrder, L
    <3> QED BY <3>2, <3>3
  <2>2. CASE b > L /\ a \in 1..L
    <3>1. new[a] = read[Current][a] /\ b - L \in 1..Len(recv_buff[fd]) /\ new[b] = recv_buff[fd][b - L]
        BY <1>4, <1>5, <2>2
    <3>2. Sooner(read[Current][a], recv_buff[fd][b - L])
        BY <1>2, <2>2, <3>1 DEF ReadSooner, L
    <3> QED BY <3>1, <3>2
  <2>3. CASE b > L /\ a > L
    <3>1. /\ a - L \in 1..Len(recv_buff[fd]) /\ new[a] = recv_buff[fd][a - L]
          /\ b - L \in 1..Len(recv_buff[fd]) /\ new[b] = recv_buff[fd][b - L]
        BY <1>4, <1>5, <2>3
    <3>2. a - L < b - L
        BY <1>5
    <3>3. Sooner(recv_buff[fd][a - L], recv_buff[fd][b - L])
        BY <1>1, <1>2, <3>1, <3>2 DEF BuffOrdered
    <3> QED BY <3>1, <3>3
  <2> QED BY <1>5, <2>1, <2>2, <2>3
<1>7. \A c \in Made : c # Current => read'[c] = read[c]
    BY <1>1, <1>3 DEF Typed, TypeOK
<1>8. InOrder'
    BY <1>6, <1>7 DEF InOrder
<1>9. \A a \in 1..Len(new) : new[a] \in Bytes /\ Follows(new[a], fd)
    BY <1>1, <1>2, <1>4 DEF BuffFollows, ReadFollows
<1>10. ReadFollows'
  <2> SUFFICES ASSUME NEW a \in 1..Len(new) PROVE Follows(read[Current][a], fd)'
      BY DEF ReadFollows
  <2>1. PICK b \in Bytes : b = new[a] /\ Follows(b, fd)
      BY <1>9
  <2>2. Follows(b, fd)'
      BY <1>1, <2>1, FollowsAgain
  <2> QED BY <2>1, <2>2
<1> QED BY <1>8, <1>10

(* The next payload comes after what was there.                             *)
LEMMA BytesPop ==
    ASSUME Typed, Alternation, Numbered, PiecesOrdered, BytesOrdered, RecvPop
    PROVE  BytesOrdered'
<1>0. PICK h : h = Head(conn_recv[fd])
    OBVIOUS
<1>1. /\ fd \in Conn /\ Current \in Made /\ conn_recv[fd] \in Seq(Pieces) /\ conn_recv[fd] # <<>>
      /\ Current' = Current /\ read' = read /\ fd' = fd /\ rx' = rx /\ pmsg' = pmsg
      /\ inc' = inc /\ chunks' = chunks /\ pc = "pop" /\ pc' = "recv"
      /\ recv_buff' = [recv_buff EXCEPT ![fd] = Payload(h)]
    BY <1>0, ByteTypes DEF RecvPop, Typed, TypeOK, Current, modemVars, parserVars
<1>2. /\ h = conn_recv[fd][1] /\ 1 \in QueueRange(fd) /\ h \in Pieces
      /\ Len(conn_recv[fd]) \in Nat \ {0}
    BY <1>0, <1>1, LenProperties, EmptySeq, ElementOfSeq DEF QueueRange
<1>3. [Next]_vars
    BY DEF Next, Sshd, Recv
<1>4. h.inc \in 1..MaxInc /\ h.n \in Nat \ {0} /\ h.inc \in Nat /\ h.n - 1 \in Nat
    BY <1>2, SockAssumption DEF Pieces
<1>5. /\ Payload(h) \in Seq(Bytes) /\ Len(Payload(h)) = ChunkLen
      /\ \A j \in 1..ChunkLen : Payload(h)[j] = Byte(h.inc, Extent(h.n - 1) + j)
    BY <1>2, PayloadType
<1>6. /\ Extent(h.n - 1) \in Nat /\ Extent(h.n) = Extent(h.n - 1) + ChunkLen /\ ChunkLen \in Nat
  <2>1. (h.n - 1) + 1 = h.n
      BY <1>4
  <2> QED BY <1>4, <2>1, Extents, SockAssumption
<1>7. \A j \in 1..ChunkLen : /\ Payload(h)[j] \in Bytes
                             /\ Payload(h)[j].inc = h.inc /\ Payload(h)[j].pos = Extent(h.n - 1) + j
  <2> TAKE j \in 1..ChunkLen
  <2>1. Payload(h)[j] = Byte(h.inc, Extent(h.n - 1) + j)
      BY <1>5
  <2>2. Extent(h.n - 1) + j \in Nat \ {0}
      BY <1>6
  <2> QED BY <1>4, <2>1, <2>2 DEF Byte, Bytes
<1>8. SentPiece(h) /\ h.id = fd
    BY <1>1, <1>2 DEF PiecesOrdered, QueueSent
<1>9. ASSUME NEW o \in Pieces, Ahead(h, o), NEW j \in 1..ChunkLen PROVE BeforePiece(Payload(h)[j], o)
  <2>1. o.n - 1 \in Nat /\ o.inc \in Nat /\ o.n \in Nat
      BY SockAssumption DEF Pieces
  <2>2. h.n < o.n => Extent(h.n) <= Extent(o.n - 1)
    <3>1. h.n < o.n => h.n <= o.n - 1
        BY <1>4, <2>1
    <3> QED BY <1>4, <2>1, <3>1, Extents
  <2>3. Extent(o.n - 1) \in Nat
      BY <2>1, Extents
  <2> QED BY <1>4, <1>6, <1>7, <1>9, <2>1, <2>2, <2>3 DEF Ahead, BeforePiece
<1>10. \A i \in Conn : recv_buff'[i] = IF i = fd THEN Payload(h) ELSE recv_buff[i]
    BY <1>1 DEF Typed, TypeOK
<1>11. BuffFollows /\ BuffOrdered /\ ReadFollows
    BY DEF BytesOrdered
<1>12. QueueOrdered(fd) /\ QueueAhead(fd) /\ LineSent(fd)
    BY <1>1 DEF PiecesOrdered
<1>13. ASSUME NEW j \in 1..ChunkLen PROVE SentByte(Payload(h)[j], fd)
  <2> DEFINE c == <<fd, h.inc>>
  <2>1. h.inc <= inc[fd] /\ h.n <= chunks[c] /\ c \in Made
      BY <1>1, <1>4, <1>8 DEF SentPiece, Made
  <2> HIDE DEF c
  <2>2. chunks[c] \in Nat
      BY <2>1, CountsGrow, <1>3
  <2>3. Extent(h.n) <= Extent(chunks[c]) /\ Extent(chunks[c]) \in Nat
      BY <1>4, <2>1, <2>2, Extents
  <2> QED BY <1>6, <1>7, <2>1, <2>3 DEF SentByte, c
<1>14. ASSUME NEW j \in 1..ChunkLen, NEW i \in Conn, i = fd PROVE Follows(Payload(h)[j], i)'
  <2>0. PICK b \in Bytes : b = Payload(h)[j]
      BY <1>7
  <2>1. SentByte(b, i)'
      BY <1>3, <1>13, <1>14, <2>0, SentByteStays
  <2>2. \A k \in QueueRange(i)' : k + 1 \in QueueRange(i) /\ conn_recv'[i][k] = conn_recv[i][k + 1]
    <3> DEFINE q == conn_recv[i]
    <3>1. q \in Seq(Pieces) /\ q # <<>> /\ conn_recv'[i] = Tail(q)
        BY <1>1, <1>14 DEF RecvPop, Typed, TypeOK
    <3> HIDE DEF q
    <3>2. /\ Len(Tail(q)) = Len(q) - 1 /\ Len(q) \in Nat \ {0}
          /\ \A k \in 1..Len(Tail(q)) : Tail(q)[k] = q[k + 1]
        BY <3>1, HeadTailProperties, LenProperties, EmptySeq
    <3>3. QueueRange(i)' = 1..(Len(q) - 1) /\ QueueRange(i) = 1..Len(q)
        BY <3>1, <3>2 DEF QueueRange, q
    <3> QED BY <3>1, <3>2, <3>3 DEF q
  <2>3. ASSUME NEW k \in QueueRange(i)' PROVE BeforePiece(b, conn_recv'[i][k])
    <3>1. k + 1 \in QueueRange(i) /\ conn_recv'[i][k] = conn_recv[i][k + 1] /\ k + 1 > 1
        BY <2>2 DEF QueueRange
    <3>2. conn_recv[i][k + 1] \in Pieces
        BY <3>1, QueueTypes DEF Typed
    <3>3. Ahead(h, conn_recv[i][k + 1])
        BY <1>2, <1>12, <1>14, <3>1 DEF QueueOrdered
    <3> QED BY <1>9, <2>0, <3>1, <3>2, <3>3
  <2>4. ASSUME NEW p \in Line', Piece(p, i)' PROVE BeforePiece(b, OnLine(p)')
    <3>1. p \in Line /\ OnLine(p)' = OnLine(p) /\ Piece(p, i) /\ Stamped(p, i)
        BY <1>1, <2>4, LineSame DEF Piece, Stamped
    <3>2. OnLine(p) \in Pieces
        BY <3>1, LineTypes, PieceType DEF Piece, NoMsg, Report, Typed
    <3>3. Ahead(h, OnLine(p))
        BY <1>2, <1>12, <1>14, <3>1 DEF QueueAhead
    <3> QED BY <1>9, <2>0, <3>1, <3>2, <3>3
  <2> QED BY <2>0, <2>1, <2>3, <2>4 DEF Follows, BeforeQueue, BeforeLine, BeforePiece, Extent
<1>15. BuffFollows'
  <2> SUFFICES ASSUME NEW i \in Conn, NEW a \in 1..Len(recv_buff'[i])
               PROVE  Follows(recv_buff[i][a], i)'
      BY DEF BuffFollows
  <2>1. CASE i # fd
      BY <1>3, <1>10, <1>11, <2>1, ByteTypes, FollowsStays DEF BuffFollows
  <2>2. CASE i = fd
      BY <1>5, <1>10, <1>14, <2>2
  <2> QED BY <2>1, <2>2
<1>16. BuffOrdered'
  <2> SUFFICES ASSUME NEW i \in Conn, NEW a \in 1..Len(recv_buff'[i]), NEW b \in 1..Len(recv_buff'[i]), a < b
               PROVE  Sooner(recv_buff'[i][a], recv_buff'[i][b])
      BY DEF BuffOrdered
  <2>1. CASE i # fd
      BY <1>10, <1>11, <2>1 DEF BuffOrdered
  <2>2. CASE i = fd
    <3>1. a \in 1..ChunkLen /\ b \in 1..ChunkLen /\ recv_buff'[i] = Payload(h)
        BY <1>5, <1>10, <2>2
    <3> QED BY <1>6, <1>7, <3>1 DEF Sooner
  <2> QED BY <2>1, <2>2
<1>17. ReadFollows'
  <2> SUFFICES ASSUME NEW a \in 1..Len(read[Current]) PROVE Follows(read[Current][a], fd)'
      BY <1>1 DEF ReadFollows
  <2>1. PICK b \in Bytes : b = read[Current][a]
      BY <1>1, ByteTypes
  <2>2. Follows(b, fd)
      BY <1>1, <1>11, <2>1 DEF ReadFollows
  <2>3. Follows(b, fd)'
      BY <1>1, <1>3, <2>2, FollowsAgain
  <2> QED BY <1>1, <2>1, <2>3
<1>18. ReadSooner'
  <2> SUFFICES ASSUME NEW a \in 1..Len(read[Current]), NEW j \in 1..ChunkLen
               PROVE  Sooner(read[Current][a], Payload(h)[j])
      BY <1>1, <1>5, <1>10 DEF ReadSooner
  <2>1. read[Current][a] \in Bytes /\ Follows(read[Current][a], fd)
      BY <1>1, <1>11, ByteTypes DEF ReadFollows
  <2>2. BeforePiece(read[Current][a], h)
      BY <1>2, <2>1 DEF Follows, BeforeQueue
  <2>3. read[Current][a].inc \in Nat /\ read[Current][a].pos \in Nat
      BY <2>1, SockAssumption DEF Bytes
  <2>4. Payload(h)[j].inc = h.inc /\ Payload(h)[j].pos = Extent(h.n - 1) + j
      BY <1>7
  <2>5. \A p, e \in Nat : p <= e => p < e + j
      OBVIOUS
  <2> QED BY <1>4, <1>6, <2>2, <2>3, <2>4, <2>5 DEF BeforePiece, Sooner
<1> QED BY <1>15, <1>16, <1>17, <1>18 DEF BytesOrdered

LEMMA BytesEnough ==
    ASSUME Typed, Alternation, Numbered, BytesOrdered, InOrder, RecvEnough
    PROVE  BytesOrdered' /\ InOrder'
<1>1. /\ fd \in Conn /\ Current \in Made /\ recv_buff[fd] \in Seq(Bytes) /\ pc = "recv" /\ pc' = "serve"
      /\ Current' = Current /\ fd' = fd /\ HandOut(need) /\ need \in Nat /\ need <= Len(recv_buff[fd])
      /\ recv_buff' = [recv_buff EXCEPT ![fd] = Rest(recv_buff[fd])]
    BY ByteTypes DEF RecvEnough, Typed, TypeOK, Current
<1>2. [Next]_vars
    BY DEF Next, Sshd, Recv
<1>3. InOrder' /\ ReadFollows'
    BY <1>1, <1>2, BytesHandOut
<1>4. BuffFollows /\ BuffOrdered /\ ReadSooner
    BY DEF BytesOrdered
<1>5. \A i \in Conn : recv_buff'[i] = IF i = fd THEN Rest(recv_buff[fd]) ELSE recv_buff[i]
    BY <1>1 DEF Typed, TypeOK
<1> DEFINE q == recv_buff[fd]   r == Rest(recv_buff[fd])
<1>6. /\ Len(r) = Len(q) - need /\ Len(q) \in Nat
      /\ \A j \in 1..(Len(q) - need) : r[j] = q[need + j]
  <2>1. need \in 0..Len(recv_buff[fd])
      BY <1>1, LenProperties
  <2> QED BY <1>1, <2>1, RestType
<1>7. \A j \in 1..Len(r) : need + j \in 1..Len(q) /\ r[j] = q[need + j]
    BY <1>1, <1>6
<1> HIDE DEF q, r
<1>8. BuffFollows'
  <2> SUFFICES ASSUME NEW i \in Conn, NEW a \in 1..Len(recv_buff'[i])
               PROVE  Follows(recv_buff[i][a], i)'
      BY DEF BuffFollows
  <2>1. PICK b \in Bytes : b = recv_buff'[i][a] /\ Follows(b, i)
    <3>1. \E l \in 1..Len(recv_buff[i]) : recv_buff'[i][a] = recv_buff[i][l]
      <4>1. CASE i = fd
          BY <1>5, <1>7, <4>1 DEF q, r
      <4>2. CASE i # fd
          BY <1>5, <4>2
      <4> QED BY <4>1, <4>2
    <3> QED BY <1>4, <3>1, ByteTypes DEF BuffFollows
  <2>2. Follows(b, i)'
      BY <1>2, <2>1, FollowsStays
  <2> QED BY <2>1, <2>2
<1>9. BuffOrdered'
  <2> SUFFICES ASSUME NEW i \in Conn, NEW a \in 1..Len(recv_buff'[i]), NEW b \in 1..Len(recv_buff'[i]), a < b
               PROVE  Sooner(recv_buff'[i][a], recv_buff'[i][b])
      BY DEF BuffOrdered
  <2>1. CASE i # fd
      BY <1>4, <1>5, <2>1 DEF BuffOrdered
  <2>2. CASE i = fd
    <3>1. recv_buff'[i] = r /\ a \in 1..Len(r) /\ b \in 1..Len(r) /\ q = recv_buff[i]
        BY <1>5, <2>2 DEF r, q
    <3>2. need + a \in 1..Len(q) /\ need + b \in 1..Len(q) /\ r[a] = q[need + a] /\ r[b] = q[need + b]
        BY <1>7, <3>1
    <3>3. need + a < need + b
        BY <1>1, <1>6, <3>1
    <3>4. Sooner(q[need + a], q[need + b])
        BY <1>4, <3>1, <3>2, <3>3 DEF BuffOrdered
    <3> QED BY <3>1, <3>2, <3>4
  <2> QED BY <2>1, <2>2
<1>10. ReadSooner'
  <2> SUFFICES ASSUME NEW a \in 1..Len(read'[Current]), NEW b \in 1..Len(r)
               PROVE  Sooner(read'[Current][a], r[b])
      BY <1>1, <1>5 DEF ReadSooner, r
  <2>1. /\ Len(read'[Current]) = Len(read[Current]) + need
        /\ \A j \in 1..Len(read[Current]) : read'[Current][j] = read[Current][j]
        /\ \A j \in 1..need : read'[Current][Len(read[Current]) + j] = q[j]
        /\ Len(read[Current]) \in Nat
    <3>1. need \in 0..Len(recv_buff[fd])
        BY <1>1, LenProperties
    <3> QED BY <1>1, <3>1, HandOutType DEF q
  <2>2. need + b \in 1..Len(q) /\ r[b] = q[need + b]
      BY <1>7
  <2>3. CASE a <= Len(read[Current])
    <3>1. read'[Current][a] = read[Current][a] /\ a \in 1..Len(read[Current])
        BY <2>1, <2>3
    <3> QED BY <1>1, <1>4, <2>2, <3>1 DEF ReadSooner, q
  <2>4. CASE a > Len(read[Current])
    <3> DEFINE j == a - Len(read[Current])
    <3>1. j \in 1..need /\ Len(read[Current]) + j = a /\ j \in 1..Len(q) /\ j < need + b
        BY <1>1, <1>6, <2>1, <2>2, <2>4 DEF q
    <3>2. read'[Current][a] = q[j]
        BY <2>1, <3>1
    <3>3. Sooner(q[j], q[need + b])
        BY <1>1, <1>4, <2>2, <3>1 DEF BuffOrdered, q
    <3> QED BY <2>2, <3>2, <3>3
  <2> QED BY <2>1, <2>3, <2>4
<1> QED BY <1>3, <1>8, <1>9, <1>10 DEF BytesOrdered

LEMMA BytesMore ==
    ASSUME Typed, Alternation, Numbered, BytesOrdered, InOrder, RecvMore
    PROVE  BytesOrdered' /\ InOrder'
<1>1. /\ fd \in Conn /\ Current \in Made /\ recv_buff[fd] \in Seq(Bytes) /\ pc = "recv" /\ pc' = "pop"
      /\ Current' = Current /\ HandOut(Len(recv_buff[fd])) /\ recv_buff' = recv_buff
    BY ByteTypes DEF RecvMore, Current
<1>2. [Next]_vars
    BY DEF Next, Sshd, Recv
<1>3. InOrder' /\ ReadFollows'
  <2>1. Len(recv_buff[fd]) \in Nat /\ Len(recv_buff[fd]) <= Len(recv_buff[fd])
      BY <1>1, LenProperties
  <2> QED BY <1>1, <1>2, <2>1, BytesHandOut
<1>4. BuffFollows'
    BY <1>1, <1>2, ByteTypes, FollowsStays DEF BytesOrdered, BuffFollows
<1>5. BuffOrdered'
    BY <1>1 DEF BytesOrdered, BuffOrdered
<1>6. ReadSooner'
    BY <1>1 DEF ReadSooner
<1> QED BY <1>3, <1>4, <1>5, <1>6 DEF BytesOrdered

LEMMA BytesAccept ==
    ASSUME Typed, Alternation, Numbered, EachAcceptedOnce, BytesOrdered, ReadAccepted, Accept
    PROVE  BytesOrdered'
<1>1. read[Current'] = <<>> /\ read' = read /\ recv_buff' = recv_buff
    BY AcceptedNew DEF Accept
<1>2. [Next]_vars
    BY DEF Next, Sshd
<1>3. (1..Len(<<>>)) = {}
    OBVIOUS
<1>4. BuffFollows'
    BY <1>1, <1>2, ByteTypes, FollowsStays DEF BytesOrdered, BuffFollows
<1>5. BuffOrdered'
    BY <1>1 DEF BytesOrdered, BuffOrdered
<1>6. ReadFollows' /\ ReadSooner'
    BY <1>1, <1>3 DEF ReadFollows, ReadSooner
<1> QED BY <1>4, <1>5, <1>6 DEF BytesOrdered

LEMMA BytesStep ==
    ASSUME Typed, Alternation, Numbered, EachAcceptedOnce, PiecesOrdered, BytesOrdered, ReadAccepted,
           InOrder, [Next]_vars
    PROVE  BytesOrdered' /\ InOrder'
<1>1. CASE ~Accept /\ ~Recv
  <2>1. /\ read' = read /\ Current' = Current
        /\ pc' # "accept" => pc # "accept"
        /\ pc' \notin {"accept", "pop"} => pc # "pop"
      BY <1>1 DEF Next, Modem, Connect, PeerSends, PeerCloses, Parser, ParserBegin, DispatchAccepted,
                  Announce, DispatchClosed, DispatchRecv, Sshd, RecvStart, SendStart,
                  SendDone, CloseStart, CloseDone, vars, taskVars, Current
  <2>2. \A i \in Conn : recv_buff'[i] = recv_buff[i] \/ recv_buff'[i] = <<>>
    <3>1. CASE CloseStart
        BY <3>1 DEF CloseStart, Typed, TypeOK
    <3>2. CASE ~CloseStart
      <4>1. recv_buff' = recv_buff
          BY <1>1, <3>2
             DEF Next, Modem, Connect, PeerSends, PeerCloses, Parser, ParserBegin, DispatchAccepted,
                 Announce, DispatchClosed, DispatchRecv, Sshd, RecvStart, SendStart,
                 SendDone, CloseDone, vars
      <4> QED BY <4>1
    <3> QED BY <3>1, <3>2
  <2>3. InOrder'
      BY <2>1 DEF InOrder
  <2> QED BY <2>1, <2>2, <2>3, BytesKeep
<1>2. CASE Accept
    BY <1>2, BytesAccept DEF InOrder, Accept
<1>3. CASE Recv
    BY <1>3, BytesEnough, BytesMore, BytesPop DEF Recv, InOrder, RecvPop
<1> QED BY <1>1, <1>2, <1>3

(* Bytes are read in the order they were sent, none twice, also when an id   *)
(* is taken again at the worst moment: sock_recv hands out recv_buff, and    *)
(* the part it keeps, before it takes the next payload (espsock.c:131-193).  *)
THEOREM ReadsInOrder == Spec => []InOrder
<1>1. Init => Numbered /\ EachAcceptedOnce /\ PiecesOrdered /\ BytesOrdered /\ ReadAccepted /\ InOrder
    BY NumberedInit, OnceInit, PiecesInit, BytesInit
<1>2. Typed /\ Alternation /\ Numbered /\ EachAcceptedOnce /\ PiecesOrdered /\ BytesOrdered /\ ReadAccepted
        /\ InOrder /\ [Next]_vars
        => (Numbered /\ EachAcceptedOnce /\ PiecesOrdered /\ BytesOrdered /\ ReadAccepted /\ InOrder)'
    BY NumberedStep, OnceStep, PiecesStep, BytesStep, ReadAcceptedStep
<1> QED BY <1>1, <1>2, TypeInit, TypeStep, AltInit, AltStep, PTL DEF Spec

-----------------------------------------------------------------------------
(* As long as no id is taken again too early, an id has one user at a time:  *)
(* its connection is on its way to the queue of sock_accept, or in it, or    *)
(* served.                                                                  *)
Coming(p, i)  == OnLine(p).id = i /\ Comes(p)
PreRange      == 1..Len(preacc)
Queued(k, i)  == preacc[k][1] = i
Serving(i)    == pc # "accept" /\ fd = i

LatestOnly(i)   == \A p \in Line : OnLine(p).id = i => OnLine(p).inc = inc[i]
OneComing(i)    == \A p, q \in Line : Coming(p, i) /\ Coming(q, i) => p = q
OneQueued(i)    == \A k, l \in PreRange : Queued(k, i) /\ Queued(l, i) => k = l
ComingAlone(i)  == \A p \in Line : Coming(p, i) => /\ ~Serving(i) /\ recv_buff[i] = <<>>
                                                   /\ \A k \in PreRange : ~Queued(k, i)
QueuedAlone(i)  == \A k \in PreRange : Queued(k, i) => /\ ~Serving(i) /\ recv_buff[i] = <<>>
                                                       /\ preacc[k] = <<i, inc[i]>>
ServesLatest(i) == Serving(i) => session = inc[i]
Single(i)       == /\ LatestOnly(i) /\ OneComing(i) /\ OneQueued(i)
                   /\ ComingAlone(i) /\ QueuedAlone(i) /\ ServesLatest(i)
Clean           == excuse = {}
OneUser         == Clean => \A i \in Conn : Single(i)

LEMMA CleanBefore == ASSUME Typed, [Next]_vars, Clean' PROVE Clean
<1>1. CASE \E i \in Conn : Connect(i)
    BY <1>1 DEF Connect, Clean
<1>2. CASE ~\E i \in Conn : Connect(i)
  <2>1. excuse' = excuse
      BY <1>2 DEF Next, Modem, PeerSends, PeerCloses, Parser, ParserBegin, DispatchAccepted,
                  Announce, DispatchClosed, DispatchRecv, Sshd, Accept, RecvStart, Recv, RecvEnough, RecvMore,
                  RecvPop, SendStart, SendDone, CloseStart, CloseDone, vars, connectVars
  <2> QED BY <2>1 DEF Clean
<1> QED BY <1>1, <1>2

LEMMA SingleInit == Init => OneUser
<1> SUFFICES ASSUME Init, NEW i \in Conn PROVE Single(i)
    BY Zenon DEF OneUser
<1>1. \A p \in Line : OnLine(p).id # i
    BY SockAssumption DEF Init, Line, OnLine, NoMsg, Report
<1>2. PreRange = {} /\ ~Serving(i)
    BY DEF Init, PreRange, Serving
<1> QED BY <1>1, <1>2 DEF Single, LatestOnly, OneComing, OneQueued, ComingAlone, QueuedAlone,
                          ServesLatest, Coming

(* Every step but Connect: a report was there, or is no connect and about the *)
(* latest incarnation.                                                      *)
LineFrom == \E s \in {0, 1} : \A p \in Line' : OnLine(p)'.id \in Conn =>
               \/ /\ p + s \in Line /\ OnLine(p + s).id = OnLine(p)'.id
                  /\ OnLine(p + s).inc = OnLine(p)'.inc /\ (Comes(p)' => Comes(p + s))
               \/ /\ ~Comes(p)' /\ OnLine(p)'.inc = inc[OnLine(p)'.id]

LEMMA LineFromGrows ==
    ASSUME Typed, NEW m \in Reports, m.t \in {"recv", "closed"}, m.inc = inc[m.id],
           rx' = Append(rx, m), pmsg' = pmsg
    PROVE  LineFrom
<1>1. /\ Len(rx') = Len(rx) + 1 /\ Len(rx) \in Nat
      /\ \A p \in Line : OnLine(p)' = OnLine(p)
      /\ \A p : p = Len(rx) + 1 => OnLine(p)' = m
    BY LineGrows DEF Typed
<1>2. \A p \in Line' : (p \in Line /\ p + 0 = p) \/ p = Len(rx) + 1
    BY <1>1 DEF Line
<1>3. \A p \in Line' : OnLine(p)'.id \in Conn =>
               \/ /\ p + 0 \in Line /\ OnLine(p + 0).id = OnLine(p)'.id
                  /\ OnLine(p + 0).inc = OnLine(p)'.inc /\ (Comes(p)' => Comes(p + 0))
               \/ /\ ~Comes(p)' /\ OnLine(p)'.inc = inc[OnLine(p)'.id]
  <2> TAKE p \in Line'
  <2>1. CASE p \in Line /\ p + 0 = p
      BY <1>1, <2>1 DEF Comes
  <2>2. CASE p = Len(rx) + 1
      BY <1>1, <2>2 DEF Comes
  <2> QED BY <1>2, <2>1, <2>2
<1> QED BY <1>3 DEF LineFrom

LEMMA LineFromSame == ASSUME Typed, rx' = rx, pmsg' = pmsg PROVE LineFrom
<1>1. Line' = Line /\ \A p \in Line : OnLine(p)' = OnLine(p) /\ p + 0 = p
    BY LineSame, LineTypes DEF Line, Typed
<1> QED BY <1>1 DEF LineFrom, Comes

LEMMA LineFromEnds ==
    ASSUME Typed, Numbered, NEW i \in Conn, LinkEnds(i), pmsg' = pmsg PROVE LineFrom
<1> DEFINE m == Report("closed", i, link[i], 0)
<1>1. link[i] \in 1..MaxInc /\ link[i] = inc[i]
    BY SockAssumption DEF LinkEnds, Typed, TypeOK, Numbered
<1>2. m \in Reports /\ m.t = "closed" /\ m.id = i /\ m.inc = inc[i] /\ rx' = Append(rx, m)
    BY <1>1 DEF Report, Reports, LinkEnds
<1> HIDE DEF m
<1> QED BY <1>2, LineFromGrows

(* The report a peer's payload makes. *)
LEMMA SendsReport ==
    ASSUME Typed, Numbered, NEW i \in Conn, PeerSends(i)
    PROVE  \E m \in Reports : /\ m.t = "recv" /\ m.id = i /\ m.inc = inc[i] /\ m.n = chunks[<<i, inc[i]>>] + 1
                              /\ rx' = Append(rx, m) /\ pmsg' = pmsg /\ link[i] = inc[i]
                              /\ <<i, inc[i]>> \in Made /\ inc' = inc
                              /\ chunks' = [chunks EXCEPT ![<<i, inc[i]>>] = chunks[<<i, inc[i]>>] + 1]
<1> DEFINE c == <<i, inc[i]>>
<1>1. link[i] = inc[i] /\ inc[i] \in 1..MaxInc
    BY DEF PeerSends, Typed, TypeOK, Numbered
<1>2. c \in Made /\ c[1] = i /\ c[2] = inc[i] /\ chunks[c] < MaxChunk
    BY <1>1 DEF PeerSends, Made
<1>3. PICK m : m = Report("recv", i, inc[i], chunks[c] + 1)
    OBVIOUS
<1>4. /\ rx' = Append(rx, m) /\ pmsg' = pmsg /\ inc' = inc
      /\ chunks' = [chunks EXCEPT ![c] = chunks[c] + 1]
    BY <1>1, <1>3 DEF PeerSends, parserVars
<1>5. chunks[c] + 1 \in 1..MaxChunk
  <2> HIDE DEF c
  <2>1. chunks[c] \in 0..MaxChunk
      BY <1>2 DEF Typed, TypeOK
  <2> QED BY <1>2, <2>1, SockAssumption
<1>6. m \in Reports /\ m.t = "recv" /\ m.id = i /\ m.inc = inc[i] /\ m.n = chunks[c] + 1
    BY <1>1, <1>3, <1>5 DEF Report, Reports, Pieces
<1> QED BY <1>1, <1>2, <1>4, <1>6

LEMMA LineFromStep ==
    ASSUME Typed, Alternation, Numbered, [Next]_vars, \A i \in Conn : ~Connect(i)
    PROVE  LineFrom /\ inc' = inc
<1> USE DEF Typed
<1>1. ASSUME NEW i \in Conn, PeerSends(i) PROVE LineFrom /\ inc' = inc
    BY <1>1, SendsReport, LineFromGrows
<1>2. ASSUME NEW i \in Conn, PeerCloses(i) PROVE LineFrom /\ inc' = inc
    BY <1>2, LineFromEnds DEF PeerCloses, parserVars
<1>3. CASE ParserBegin
  <2>1. \A p \in Line' : p + 1 \in Line /\ OnLine(p)' = OnLine(p + 1)
      BY <1>3, LineMoves
  <2> QED BY <1>3, <2>1 DEF LineFrom, Comes, ParserBegin, modemVars
<1>4. CASE DispatchAccepted \/ Announce \/ DispatchClosed \/ DispatchRecv
  <2>1. inc' = inc /\ rx' = rx /\ pmsg # NoMsg
      BY <1>4 DEF DispatchAccepted, Announce, DispatchClosed, DispatchRecv, modemVars, NoMsg, Report
  <2>2. pmsg \in Reports
      BY <2>1, HeadFits
  <2>3. pmsg' = NoMsg \/ (pmsg' = [pmsg EXCEPT !.t = "announce"] /\ pmsg.t = "connect")
    <3>1. CASE DispatchAccepted
        BY <3>1 DEF DispatchAccepted
    <3> QED BY <1>4, <3>1 DEF Announce, DispatchClosed, DispatchRecv
  <2>4. \/ pmsg'.id \notin Conn
        \/ pmsg'.id = pmsg.id /\ pmsg'.inc = pmsg.inc /\ pmsg.t = "connect"
    <3>1. CASE pmsg' = NoMsg
        BY <3>1, SockAssumption DEF NoMsg, Report
    <3>2. CASE pmsg' = [pmsg EXCEPT !.t = "announce"] /\ pmsg.t = "connect"
        BY <2>2, <3>2 DEF Reports, Pieces
    <3> QED BY <2>3, <3>1, <3>2
  <2>5. /\ Line' = Line /\ OnLine(0)' = pmsg' /\ OnLine(0) = pmsg
        /\ \A p \in Line : p # 0 => OnLine(p)' = OnLine(p)
        /\ \A p \in Line : p + 0 = p
      BY <2>1, LineHead, LineTypes DEF Line
  <2>6. \A p \in Line' : OnLine(p)'.id \in Conn =>
          /\ p + 0 \in Line /\ OnLine(p + 0).id = OnLine(p)'.id
          /\ OnLine(p + 0).inc = OnLine(p)'.inc /\ (Comes(p)' => Comes(p + 0))
    <3> TAKE p \in Line'
    <3>1. CASE p = 0
        BY <2>4, <2>5, <3>1 DEF Comes
    <3>2. CASE p # 0
        BY <2>5, <3>2 DEF Comes
    <3> QED BY <3>1, <3>2
  <2> QED BY <2>1, <2>6 DEF LineFrom
<1>5. CASE CloseDone
  <2>1. fd \in Conn /\ pmsg' = pmsg /\ inc' = inc
      BY <1>5 DEF CloseDone, Serves, parserVars
  <2> QED BY <1>5, <2>1, LineFromEnds, LineFromSame DEF CloseDone
<1>6. CASE Accept \/ Recv \/ SendStart \/ SendDone \/ CloseStart \/ UNCHANGED vars
           \/ \E n \in Sizes : RecvStart(n)
  <2>1. rx' = rx /\ pmsg' = pmsg /\ inc' = inc
      BY <1>6 DEF Accept, Recv, RecvEnough, RecvMore, RecvPop, SendStart, SendDone, CloseStart,
                  RecvStart, modemVars, parserVars, vars
  <2> QED BY <2>1, LineFromSame
<1> QED BY <1>1, <1>2, <1>3, <1>4, <1>5, <1>6 DEF Next, Modem, Parser, Sshd

LEMMA FromLine ==
    ASSUME Typed, LineFrom, inc' = inc, NEW i \in Conn, LatestOnly(i), OneComing(i)
    PROVE  /\ LatestOnly(i)' /\ OneComing(i)'
           /\ \A p \in Line' : Coming(p, i)' => \E q \in Line : Coming(q, i)
<1>1. PICK s \in {0, 1} : \A p \in Line' : OnLine(p)'.id \in Conn =>
               \/ /\ p + s \in Line /\ OnLine(p + s).id = OnLine(p)'.id
                  /\ OnLine(p + s).inc = OnLine(p)'.inc /\ (Comes(p)' => Comes(p + s))
               \/ /\ ~Comes(p)' /\ OnLine(p)'.inc = inc[OnLine(p)'.id]
    BY DEF LineFrom
<1>2. \A p \in Line' : Coming(p, i)' => p + s \in Line /\ Coming(p + s, i)
    BY <1>1 DEF Coming
<1>3. LatestOnly(i)'
    BY <1>1 DEF LatestOnly
<1>4. OneComing(i)'
  <2> SUFFICES ASSUME NEW p \in Line', NEW q \in Line', Coming(p, i)', Coming(q, i)' PROVE p = q
      BY DEF OneComing
  <2>1. p + s = q + s /\ p \in Int /\ q \in Int
      BY <1>2 DEF OneComing, Line
  <2> QED BY <2>1
<1> QED BY <1>2, <1>3, <1>4

LEMMA SingleKeep ==
    ASSUME Typed, LineFrom, inc' = inc, preacc' = preacc, NEW i \in Conn, Single(i),
           Serving(i)' => Serving(i) /\ session' = session,
           recv_buff'[i] = recv_buff[i] \/ recv_buff'[i] = <<>> \/ Serving(i)
    PROVE  Single(i)'
<1>1. PreRange' = PreRange /\ \A k : Queued(k, i)' <=> Queued(k, i)
    BY DEF PreRange, Queued
<1>2. /\ LatestOnly(i) /\ OneComing(i) /\ OneQueued(i)
      /\ ComingAlone(i) /\ QueuedAlone(i) /\ ServesLatest(i)
    BY DEF Single
<1>3. /\ LatestOnly(i)' /\ OneComing(i)'
      /\ \A p \in Line' : Coming(p, i)' => \E q \in Line : Coming(q, i)
    BY <1>2, FromLine
<1>4. OneQueued(i)'
    BY <1>1, <1>2 DEF OneQueued
<1>5. ComingAlone(i)'
    BY <1>1, <1>2, <1>3 DEF ComingAlone
<1>6. QueuedAlone(i)'
    BY <1>1, <1>2 DEF QueuedAlone
<1>7. ServesLatest(i)'
    BY <1>2 DEF ServesLatest
<1> QED BY <1>3, <1>4, <1>5, <1>6, <1>7 DEF Single

LEMMA SingleConnect ==
    ASSUME Typed, NEW j \in Conn, Connect(j), Clean', \A i \in Conn : Single(i), NEW i \in Conn
    PROVE  Single(i)'
<1>1. inc[j] + 1 \in 1..MaxInc /\ inc \in [Conn -> 0..MaxInc]
    BY ConnectCounts DEF Typed
<1>2. PICK m : m = Report("connect", j, inc[j] + 1, 0)
    OBVIOUS
<1>3. /\ m \in Reports /\ m.id = j /\ m.inc = inc[j] + 1 /\ m.t = "connect"
      /\ rx' = Append(rx, m) /\ pmsg' = pmsg /\ preacc' = preacc /\ recv_buff' = recv_buff
      /\ fd' = fd /\ pc' = pc /\ session' = session /\ inc' = [inc EXCEPT ![j] = inc[j] + 1]
    BY <1>1, <1>2 DEF Report, Reports, Connect, parserVars, taskVars
<1> DEFINE new == Len(rx) + 1
<1>4. /\ Line' = Line \cup {new} /\ new \notin Line
      /\ \A p \in Line : OnLine(p)' = OnLine(p)
      /\ \A p : p = new => OnLine(p)' = m
    BY <1>3, LineGrows DEF Line, Typed
<1> HIDE DEF new
<1>5. PreRange' = PreRange /\ (Serving(i)' <=> Serving(i)) /\ \A k : Queued(k, i)' <=> Queued(k, i)
    BY <1>3 DEF PreRange, Queued, Serving
<1>6. \A p \in Line : Coming(p, i)' <=> Coming(p, i)
    BY <1>4 DEF Coming, Comes
<1>7. /\ LatestOnly(i) /\ OneComing(i) /\ OneQueued(i)
      /\ ComingAlone(i) /\ QueuedAlone(i) /\ ServesLatest(i)
    BY DEF Single
<1>8. CASE i # j
  <2>1. inc'[i] = inc[i] /\ \A p : p = new => ~Coming(p, i)' /\ OnLine(p)'.id # i
      BY <1>1, <1>3, <1>4, <1>8 DEF Coming
  <2>2. LatestOnly(i)' /\ OneComing(i)'
      BY <1>4, <1>6, <1>7, <2>1 DEF LatestOnly, OneComing
  <2>3. OneQueued(i)' /\ ServesLatest(i)'
      BY <1>3, <1>5, <1>7, <2>1 DEF OneQueued, ServesLatest
  <2>4. ComingAlone(i)'
      BY <1>3, <1>4, <1>5, <1>6, <1>7, <2>1 DEF ComingAlone
  <2>5. QueuedAlone(i)'
      BY <1>3, <1>5, <1>7, <2>1 DEF QueuedAlone
  <2> QED BY <2>2, <2>3, <2>4, <2>5 DEF Single
<1>9. CASE i = j
  <2>1. ~InUse(i) /\ recv_buff[i] = <<>>
      BY <1>9 DEF Connect, Clean, Excuses
  <2>2. ~Serving(i) /\ \A k \in PreRange : ~Queued(k, i)
      BY <2>1 DEF InUse, Serving, PreRange, Queued
  <2>3. \A p \in Line : OnLine(p).id # i /\ ~Coming(p, i)
      BY <2>1, LineTypes DEF InUse, Line, OnLine, Coming, Typed
  <2>4. inc'[i] = inc[i] + 1
      BY <1>1, <1>3, <1>9
  <2>5. LatestOnly(i)' /\ OneComing(i)'
      BY <1>3, <1>4, <1>6, <1>9, <2>3, <2>4 DEF LatestOnly, OneComing
  <2>6. OneQueued(i)' /\ ComingAlone(i)' /\ QueuedAlone(i)' /\ ServesLatest(i)'
      BY <1>3, <1>5, <2>1, <2>2 DEF OneQueued, ComingAlone, QueuedAlone, ServesLatest
  <2> QED BY <2>5, <2>6 DEF Single
<1> QED BY <1>8, <1>9

LEMMA SingleAnnounce ==
    ASSUME Typed, LineFrom, inc' = inc, Announce, NEW i \in Conn, Single(i)
    PROVE  Single(i)'
<1>1. /\ LatestOnly(i) /\ OneComing(i) /\ OneQueued(i)
      /\ ComingAlone(i) /\ QueuedAlone(i) /\ ServesLatest(i)
    BY DEF Single
<1>2. /\ LatestOnly(i)' /\ OneComing(i)'
      /\ \A p \in Line' : Coming(p, i)' => \E q \in Line : Coming(q, i)
    BY <1>1, FromLine
<1>3. /\ pmsg.t = "announce" /\ pmsg' = NoMsg /\ rx' = rx /\ recv_buff' = recv_buff
      /\ preacc' = Append(preacc, <<pmsg.id, pmsg.inc>>) /\ preacc \in Seq(Made)
      /\ fd' = fd /\ pc' = pc /\ session' = session
    BY DEF Announce, Typed, TypeOK, taskVars
<1>4. pmsg \in Reports /\ <<pmsg.id, pmsg.inc>> \in Made
    BY AnnounceType DEF Typed
<1>5. /\ Len(preacc) \in Nat /\ Len(preacc') = Len(preacc) + 1
      /\ \A k \in 1..Len(preacc) : preacc'[k] = preacc[k]
      /\ preacc'[Len(preacc) + 1] = <<pmsg.id, pmsg.inc>>
    BY <1>3, <1>4, AppendProperties, LenProperties
<1> DEFINE new == Len(preacc) + 1
<1>6. /\ PreRange' = PreRange \cup {new} /\ new \notin PreRange
      /\ \A k \in PreRange : preacc'[k] = preacc[k] /\ (Queued(k, i)' <=> Queued(k, i))
      /\ \A k : k = new => preacc'[k] = <<pmsg.id, pmsg.inc>> /\ (Queued(k, i)' <=> i = pmsg.id)
    BY <1>5 DEF PreRange, Queued
<1> HIDE DEF new
<1>7. Serving(i)' <=> Serving(i)
    BY <1>3 DEF Serving
<1>8. 0 \in Line /\ OnLine(0) = pmsg /\ (Coming(0, i) <=> i = pmsg.id)
    BY <1>3, LineTypes DEF Line, OnLine, Coming, Comes, Typed
<1>9. OneQueued(i)'
    BY <1>1, <1>6, <1>8 DEF OneQueued, ComingAlone
<1>10. QueuedAlone(i)'
    BY <1>1, <1>3, <1>6, <1>7, <1>8 DEF QueuedAlone, ComingAlone, LatestOnly
<1>11. ServesLatest(i)'
    BY <1>1, <1>3, <1>7 DEF ServesLatest
<1>12. ComingAlone(i)'
  <2>1. CASE i # pmsg.id
      BY <1>1, <1>2, <1>3, <1>6, <1>7, <2>1 DEF ComingAlone
  <2>2. CASE i = pmsg.id
    <3>1. ASSUME NEW p \in Line', Coming(p, i)' PROVE FALSE
      <4>1. p # 0 /\ p \in Line /\ Coming(p, i)
          BY <1>3, <3>1, LineHead DEF Coming, Comes, NoMsg, Report, OnLine, Typed
      <4> QED BY <1>1, <1>8, <2>2, <4>1 DEF OneComing
    <3> QED BY <3>1 DEF ComingAlone
  <2> QED BY <2>1, <2>2
<1> QED BY <1>2, <1>9, <1>10, <1>11, <1>12 DEF Single

LEMMA SingleAccept ==
    ASSUME Typed, LineFrom, inc' = inc, Accept, NEW i \in Conn, Single(i)
    PROVE  Single(i)'
<1>1. /\ LatestOnly(i) /\ OneComing(i) /\ OneQueued(i)
      /\ ComingAlone(i) /\ QueuedAlone(i) /\ ServesLatest(i)
    BY DEF Single
<1>2. /\ LatestOnly(i)' /\ OneComing(i)'
      /\ \A p \in Line' : Coming(p, i)' => \E q \in Line : Coming(q, i)
    BY <1>1, FromLine
<1>3. /\ preacc \in Seq(Made) /\ preacc # <<>> /\ preacc' = Tail(preacc) /\ recv_buff' = recv_buff
      /\ fd' = Head(preacc)[1] /\ session' = Head(preacc)[2] /\ pc = "accept" /\ pc' = "serve"
    BY DEF Accept, Typed, TypeOK
<1>4. /\ Head(preacc) = preacc[1] /\ Len(preacc) \in Nat \ {0} /\ Len(preacc') = Len(preacc) - 1
      /\ \A k \in 1..Len(preacc') : preacc'[k] = preacc[k + 1]
    BY <1>3, HeadTailProperties, LenProperties, EmptySeq
<1>5. 1 \in PreRange /\ \A k \in PreRange' : /\ k + 1 \in PreRange /\ preacc'[k] = preacc[k + 1] /\ k + 1 # 1
                                             /\ Queued(k, i)' => Queued(k + 1, i)
    BY <1>4 DEF PreRange, Queued
<1>6. Serving(i)' <=> Queued(1, i)
    BY <1>3, <1>4 DEF Serving, Queued
<1>7. OneQueued(i)'
  <2> SUFFICES ASSUME NEW k \in PreRange', NEW l \in PreRange', Queued(k, i)', Queued(l, i)' PROVE k = l
      BY DEF OneQueued
  <2>1. k + 1 = l + 1 /\ k \in Int /\ l \in Int
      BY <1>1, <1>5 DEF OneQueued, PreRange
  <2> QED BY <2>1
<1>8. ComingAlone(i)'
    BY <1>1, <1>2, <1>3, <1>5, <1>6 DEF ComingAlone
<1>9. QueuedAlone(i)'
  <2> SUFFICES ASSUME NEW k \in PreRange', Queued(k, i)'
               PROVE  ~Serving(i)' /\ recv_buff'[i] = <<>> /\ preacc'[k] = <<i, inc'[i]>>
      BY DEF QueuedAlone
  <2>1. k + 1 \in PreRange /\ Queued(k + 1, i) /\ preacc'[k] = preacc[k + 1] /\ k + 1 # 1
      BY <1>5
  <2>2. ~Queued(1, i)
      BY <1>1, <1>5, <2>1 DEF OneQueued
  <2> QED BY <1>1, <1>3, <1>6, <2>1, <2>2 DEF QueuedAlone
<1>10. ServesLatest(i)'
    BY <1>1, <1>3, <1>4, <1>5, <1>6 DEF ServesLatest, QueuedAlone
<1> QED BY <1>2, <1>7, <1>8, <1>9, <1>10 DEF Single

LEMMA SingleStep ==
    ASSUME Typed, Alternation, Numbered, OneUser, [Next]_vars PROVE OneUser'
<1> SUFFICES ASSUME Clean', NEW i \in Conn PROVE Single(i)'
    BY DEF OneUser
<1>1. \A j \in Conn : Single(j)
    BY CleanBefore DEF OneUser
<1>2. CASE \E j \in Conn : Connect(j)
    BY <1>1, <1>2, SingleConnect
<1>3. CASE \A j \in Conn : ~Connect(j)
  <2>1. LineFrom /\ inc' = inc
      BY <1>3, LineFromStep
  <2>2. CASE Announce \/ Accept
      BY <1>1, <2>1, <2>2, SingleAnnounce, SingleAccept
  <2>3. CASE ~Announce /\ ~Accept
    <3>1. preacc' = preacc /\ session' = session /\ fd' = fd /\ (pc' # "accept" => pc # "accept")
        BY <1>3, <2>3 DEF Next, Modem, PeerSends, PeerCloses, Parser, ParserBegin, DispatchAccepted,
                  DispatchClosed, DispatchRecv, Sshd, RecvStart, Recv, RecvEnough, RecvMore,
                  RecvPop, SendStart, SendDone, CloseStart, CloseDone, vars, taskVars, parserVars
    <3>2. Serving(i)' => Serving(i)
        BY <3>1 DEF Serving
    <3>3. recv_buff'[i] = recv_buff[i] \/ Serving(i)
      <4>1. CASE RecvEnough \/ RecvPop \/ CloseStart
          BY <4>1 DEF RecvEnough, RecvPop, CloseStart, Serving, Typed, TypeOK
      <4>2. CASE ~(RecvEnough \/ RecvPop \/ CloseStart)
        <5>1. recv_buff' = recv_buff
            BY <1>3, <2>3, <4>2
               DEF Next, Modem, PeerSends, PeerCloses, Parser, ParserBegin, DispatchAccepted,
                   DispatchClosed, DispatchRecv, Sshd, RecvStart, Recv, RecvMore,
                   SendStart, SendDone, CloseDone, vars
        <5> QED BY <5>1
      <4> QED BY <4>1, <4>2
    <3> QED BY <1>1, <2>1, <3>1, <3>2, <3>3, SingleKeep
  <2> QED BY <2>2, <2>3
<1> QED BY <1>2, <1>3

-----------------------------------------------------------------------------
(* What the peer sent is, in this order, read, in recv_buff, queued and on   *)
(* the line.                                                                *)
NotYet == \A i \in Conn, k \in 1..MaxInc : k > inc[i] => chunks[<<i, k>>] = 0

LEMMA NotYetInit == Init => NotYet
BY DEF Init, NotYet, Made

LEMMA NotYetStep == ASSUME Typed, Alternation, Numbered, NotYet, [Next]_vars PROVE NotYet'
<1> SUFFICES ASSUME NEW i \in Conn, NEW k \in 1..MaxInc, k > inc'[i] PROVE chunks'[<<i, k>>] = 0
    BY DEF NotYet
<1> DEFINE c == <<i, k>>
<1>1. c \in Made /\ k > inc[i] /\ chunks \in [Made -> 0..MaxChunk]
  <2>1. inc[i] <= inc'[i] /\ inc[i] \in Nat /\ inc'[i] \in Nat
      BY CountsGrow
  <2>2. chunks \in [Made -> 0..MaxChunk]
      BY DEF Typed, TypeOK
  <2> QED BY <2>1, <2>2 DEF Made
<1>2. chunks[c] = 0
    BY <1>1 DEF NotYet
<1>3. CASE chunks' = chunks
    BY <1>2, <1>3
<1>4. ASSUME NEW j \in Conn, PeerSends(j) PROVE chunks'[c] = 0
  <2>1. chunks' = [chunks EXCEPT ![<<j, inc[j]>>] = chunks[<<j, inc[j]>>] + 1]
      BY <1>4, SendsReport
  <2>2. c # <<j, inc[j]>>
      BY <1>1, SockAssumption DEF Typed, TypeOK
  <2> HIDE DEF c
  <2> QED BY <1>1, <1>2, <2>1, <2>2
<1> QED BY <1>3, <1>4, StepKinds DEF Connect, CountsKept

PiecesSame(i) ==
    /\ \A p \in Line' : Piece(p, i)' => \E q \in Line : Piece(q, i) /\ OnLine(q) = OnLine(p)'
    /\ \A p \in Line : Piece(p, i) => \E q \in Line' : Piece(q, i)' /\ OnLine(q)' = OnLine(p)

LEMMA PiecesSameGrows ==
    ASSUME Typed, NEW i \in Conn, NEW m \in Reports, ~(m.t = "recv" /\ m.id = i),
           rx' = Append(rx, m), pmsg' = pmsg
    PROVE  PiecesSame(i)
<1> DEFINE new == Len(rx) + 1
<1>1. /\ Line' = Line \cup {new}
      /\ \A p \in Line : OnLine(p)' = OnLine(p)
      /\ \A p : p = new => OnLine(p)' = m
    BY LineGrows DEF Line, Typed
<1> HIDE DEF new
<1> QED BY <1>1 DEF PiecesSame, Piece

LEMMA PiecesSameHead ==
    ASSUME Typed, NEW i \in Conn, rx' = rx,
           pmsg' = pmsg \/ (~(pmsg.t = "recv" /\ pmsg.id = i) /\ pmsg'.t # "recv")
    PROVE  PiecesSame(i)
<1>1. CASE pmsg' = pmsg
    BY <1>1, LineSame DEF PiecesSame, Piece
<1>2. CASE ~(pmsg.t = "recv" /\ pmsg.id = i) /\ pmsg'.t # "recv"
  <2>1. /\ Line' = Line /\ OnLine(0)' = pmsg' /\ OnLine(0) = pmsg
        /\ \A p \in Line : p # 0 => OnLine(p)' = OnLine(p)
      BY LineHead DEF Typed
  <2>2. \A p \in Line : (Piece(p, i) \/ Piece(p, i)') => p # 0
      BY <1>2, <2>1 DEF Piece
  <2> QED BY <2>1, <2>2 DEF PiecesSame, Piece
<1> QED BY <1>1, <1>2

LEMMA PiecesSameStep ==
    ASSUME Typed, Alternation, Numbered, [Next]_vars, NEW i \in Conn,
           ~PeerSends(i), ~(DispatchRecv /\ pmsg.id = i)
    PROVE  PiecesSame(i)
<1> USE DEF Typed
<1>1. ASSUME NEW j \in Conn, Connect(j) PROVE PiecesSame(i)
  <2> DEFINE m == Report("connect", j, inc[j] + 1, 0)
  <2>1. inc[j] + 1 \in 1..MaxInc
      BY <1>1, ConnectCounts
  <2>2. m \in Reports /\ m.t = "connect" /\ rx' = Append(rx, m) /\ pmsg' = pmsg
      BY <1>1, <2>1 DEF Report, Reports, Connect, parserVars
  <2> HIDE DEF m
  <2> QED BY <2>2, PiecesSameGrows
<1>2. ASSUME NEW j \in Conn, PeerSends(j) PROVE PiecesSame(i)
    BY <1>2, SendsReport, PiecesSameGrows
<1>3. ASSUME NEW j \in Conn, LinkEnds(j), pmsg' = pmsg PROVE PiecesSame(i)
  <2> DEFINE m == Report("closed", j, link[j], 0)
  <2>1. link[j] \in 1..MaxInc
      BY <1>3, EndsCounts
  <2>2. m \in Reports /\ m.t = "closed" /\ rx' = Append(rx, m)
      BY <1>3, <2>1 DEF Report, Reports, LinkEnds
  <2> HIDE DEF m
  <2> QED BY <1>3, <2>2, PiecesSameGrows
<1>4. ASSUME NEW j \in Conn, PeerCloses(j) PROVE PiecesSame(i)
    BY <1>3, <1>4 DEF PeerCloses, parserVars
<1>5. CASE ParserBegin
  <2>1. /\ \A p \in Line' : p + 1 \in Line /\ OnLine(p)' = OnLine(p + 1)
        /\ \A p \in Line : p # 0 => p - 1 \in Line' /\ OnLine(p - 1)' = OnLine(p)
        /\ OnLine(0) = NoMsg
      BY <1>5, LineMoves
  <2>2. \A p \in Line' : Piece(p, i)' => Piece(p + 1, i)
      BY <2>1 DEF Piece
  <2>3. \A p \in Line : Piece(p, i) => p # 0 /\ Piece(p - 1, i)'
    <3> SUFFICES ASSUME NEW p \in Line, Piece(p, i) PROVE p # 0 /\ Piece(p - 1, i)'
        OBVIOUS
    <3>1. p # 0
        BY <2>1 DEF Piece, NoMsg, Report
    <3> QED BY <2>1, <3>1 DEF Piece
  <2> QED BY <2>1, <2>2, <2>3 DEF PiecesSame
<1>6. CASE DispatchAccepted
  <2>1. pmsg # NoMsg /\ pmsg.t = "connect" /\ rx' = rx
      BY <1>6 DEF DispatchAccepted, NoMsg, Report
  <2>2. pmsg \in Reports /\ ~conn_state[pmsg.id]
      BY <2>1, HeadFits
  <2>3. pmsg'.t = "announce"
      BY <1>6, <2>2 DEF DispatchAccepted, Reports, Pieces
  <2> QED BY <2>1, <2>3, PiecesSameHead
<1>7. CASE Announce \/ DispatchClosed \/ DispatchRecv
  <2>1. rx' = rx /\ pmsg'.t = "none" /\ (pmsg.t = "recv" => DispatchRecv)
      BY <1>7 DEF Announce, DispatchClosed, DispatchRecv, NoMsg, Report
  <2> QED BY <2>1, PiecesSameHead
<1>8. CASE CloseDone
  <2>1. fd \in Conn /\ pmsg' = pmsg
      BY <1>8 DEF CloseDone, Serves, parserVars
  <2> QED BY <1>3, <1>8, <2>1, PiecesSameHead DEF CloseDone
<1>9. CASE Accept \/ Recv \/ SendStart \/ SendDone \/ CloseStart \/ UNCHANGED vars
           \/ \E n \in Sizes : RecvStart(n)
  <2>1. rx' = rx /\ pmsg' = pmsg
      BY <1>9 DEF Accept, Recv, RecvEnough, RecvMore, RecvPop, SendStart, SendDone, CloseStart,
                  RecvStart, parserVars, vars
  <2> QED BY <2>1, PiecesSameHead
<1> QED BY <1>1, <1>2, <1>4, <1>5, <1>6, <1>7, <1>8, <1>9 DEF Next, Modem, Parser, Sshd

(* Of the latest incarnation the first d payloads have left the line.        *)
Latest(i)  == <<i, inc[i]>>
Left(i, d) ==
    /\ Latest(i) \in Made /\ d <= chunks[Latest(i)]
    /\ \A n \in (d + 1)..chunks[Latest(i)] : \E p \in Line : Piece(p, i) /\ OnLine(p).n = n
    /\ \A p \in Line : Piece(p, i) => OnLine(p).n > d
(* The first g have left the queue, too.                                    *)
Held(i, g) ==
    /\ \A k \in QueueRange(i) : conn_recv[i][k].inc = inc[i] /\ conn_recv[i][k].n = g + k
    /\ Left(i, g + Len(conn_recv[i]))

LEMMA LatestSame ==
    ASSUME Typed, Alternation, Numbered, [Next]_vars, NEW i \in Conn, ~Connect(i), ~PeerSends(i)
    PROVE  /\ inc'[i] = inc[i] /\ Latest(i)' = Latest(i)
           /\ Latest(i) \in Made => chunks'[Latest(i)] = chunks[Latest(i)]
<1>1. CASE CountsKept
    BY <1>1 DEF CountsKept, Latest
<1>2. ASSUME NEW j \in Conn, Connect(j) PROVE chunks' = chunks /\ inc'[i] = inc[i]
    BY <1>2 DEF Connect, Typed, TypeOK
<1>3. ASSUME NEW j \in Conn, PeerSends(j)
      PROVE  inc'[i] = inc[i] /\ (Latest(i) \in Made => chunks'[Latest(i)] = chunks[Latest(i)])
  <2>1. inc' = inc /\ chunks' = [chunks EXCEPT ![<<j, inc[j]>>] = chunks[<<j, inc[j]>>] + 1]
      BY <1>3, SendsReport
  <2>2. Latest(i) # <<j, inc[j]>>
      BY <1>3 DEF Latest
  <2>3. chunks \in [Made -> 0..MaxChunk]
      BY DEF Typed, TypeOK
  <2> QED BY <2>1, <2>2, <2>3
<1> QED BY <1>1, <1>2, <1>3, StepKinds DEF Latest

LEMMA LeftKeep ==
    ASSUME Typed, NEW i \in Conn, PiecesSame(i), Latest(i)' = Latest(i), chunks'[Latest(i)] = chunks[Latest(i)],
           NEW d, Left(i, d)
    PROVE  Left(i, d)'
<1>1. chunks'[Latest(i)'] = chunks[Latest(i)]
    OBVIOUS
<1>2. \A n \in (d + 1)..chunks[Latest(i)] : \E p \in Line' : Piece(p, i)' /\ OnLine(p)'.n = n
    BY DEF Left, PiecesSame
<1>3. \A p \in Line' : Piece(p, i)' => OnLine(p)'.n > d
    BY DEF Left, PiecesSame
<1> QED BY <1>1, <1>2, <1>3 DEF Left

LEMMA LeftSends ==
    ASSUME Typed, Numbered, NEW i \in Conn, PeerSends(i), NEW d \in Nat, Left(i, d)
    PROVE  Left(i, d)'
<1>1. PICK m \in Reports : /\ m.t = "recv" /\ m.id = i /\ m.inc = inc[i] /\ m.n = chunks[Latest(i)] + 1
                           /\ rx' = Append(rx, m) /\ pmsg' = pmsg
                           /\ Latest(i) \in Made /\ inc' = inc
                           /\ chunks' = [chunks EXCEPT ![Latest(i)] = chunks[Latest(i)] + 1]
    BY SendsReport DEF Latest
<1>2. Latest(i)' = Latest(i) /\ chunks'[Latest(i)] = chunks[Latest(i)] + 1 /\ chunks[Latest(i)] \in Nat
    BY <1>1, SockAssumption DEF Typed, TypeOK, Latest
<1> DEFINE new == Len(rx) + 1   N == chunks[Latest(i)]
<1>3. /\ Line' = Line \cup {new}
      /\ \A p \in Line : OnLine(p)' = OnLine(p)
      /\ \A p : p = new => OnLine(p)' = m
    BY <1>1, LineGrows DEF Line, Typed
<1> HIDE DEF new
<1>4. \A p \in Line : Piece(p, i)' <=> Piece(p, i)
    BY <1>3 DEF Piece
<1>5. \A p : p = new => Piece(p, i)'
    BY <1>1, <1>3 DEF Piece
<1>6. d <= N /\ N \in Nat
    BY <1>2 DEF Left
<1>7. \A n \in (d + 1)..(N + 1) : \E p \in Line' : Piece(p, i)' /\ OnLine(p)'.n = n
  <2> TAKE n \in (d + 1)..(N + 1)
  <2>1. CASE n = N + 1
      BY <1>1, <1>3, <1>5, <2>1
  <2>2. CASE n # N + 1
    <3>1. n \in (d + 1)..N
        BY <1>6, <2>2
    <3> QED BY <1>3, <1>4, <3>1 DEF Left
  <2> QED BY <2>1, <2>2
<1>8. \A p \in Line' : Piece(p, i)' => OnLine(p)'.n > d
  <2> SUFFICES ASSUME NEW p \in Line', Piece(p, i)' PROVE OnLine(p)'.n > d
      OBVIOUS
  <2>1. CASE p = new
      BY <1>1, <1>3, <1>6, <2>1
  <2>2. CASE p \in Line
      BY <1>3, <1>4, <2>2 DEF Left
  <2> QED BY <1>3, <2>1, <2>2
<1>9. Latest(i)' \in Made /\ d <= chunks'[Latest(i)'] /\ chunks'[Latest(i)'] = N + 1
    BY <1>1, <1>2, <1>6
<1> QED BY <1>7, <1>8, <1>9 DEF Left

(* The piece that is dispatched is the next.                                *)
LEMMA LeftDispatch ==
    ASSUME Typed, Alternation, PiecesOrdered, DispatchRecv, NEW i \in Conn, pmsg.id = i, LatestOnly(i),
           NEW d \in Nat, Left(i, d)
    PROVE  pmsg.inc = inc[i] /\ pmsg.n = d + 1 /\ Left(i, d + 1)'
<1>1. pmsg # NoMsg /\ pmsg.t = "recv" /\ pmsg' = NoMsg /\ rx' = rx /\ inc' = inc /\ chunks' = chunks
    BY DEF DispatchRecv, NoMsg, Report, modemVars
<1>2. pmsg \in Pieces
    BY <1>1, HeadFits, PieceType
<1>3. /\ Line' = Line /\ OnLine(0)' = pmsg' /\ OnLine(0) = pmsg /\ 0 \in Line
      /\ \A p \in Line : p # 0 => OnLine(p)' = OnLine(p)
      /\ \A p \in Line : p # 0 => 0 < p
    BY <1>1, LineHead, LineTypes DEF Typed, Line
<1>4. Piece(0, i) /\ Stamped(0, i) /\ pmsg.inc = inc[i]
    BY <1>1, <1>3 DEF Piece, Stamped, LatestOnly
<1> DEFINE N == chunks[Latest(i)]
<1>5. N \in Nat /\ pmsg.n \in Nat /\ pmsg.n <= N /\ pmsg.n > d
  <2>1. SentPiece(pmsg)
      BY <1>3, <1>4 DEF PiecesOrdered, LineSent
  <2>2. pmsg.n <= N
      BY <1>4, <2>1 DEF SentPiece, Latest
  <2>3. pmsg.n > d
      BY <1>3, <1>4 DEF Left
  <2>4. N \in Nat
      BY SockAssumption DEF Left, Typed, TypeOK
  <2> QED BY <1>2, <2>2, <2>3, <2>4, SockAssumption DEF Pieces
<1>6. ASSUME NEW p \in Line, p # 0, Piece(p, i) PROVE OnLine(p).n > pmsg.n /\ OnLine(p).n \in Nat
  <2>1. Ahead(pmsg, OnLine(p))
      BY <1>3, <1>4, <1>6 DEF PiecesOrdered, LineOrdered, Stamped, Piece
  <2>2. OnLine(p).inc = inc[i]
      BY <1>6 DEF LatestOnly, Piece
  <2>3. OnLine(p) \in Pieces
      BY <1>6, LineTypes, PieceType DEF Piece, NoMsg, Report, Typed
  <2>4. inc[i] \in Nat /\ OnLine(p).n \in Nat
      BY <2>3, SockAssumption DEF Pieces, Typed, TypeOK
  <2> QED BY <1>4, <1>5, <2>1, <2>2, <2>4 DEF Ahead
<1> HIDE DEF N
<1>7. pmsg.n = d + 1
  <2>1. d + 1 \in (d + 1)..N
      BY <1>5
  <2>2. PICK p \in Line : Piece(p, i) /\ OnLine(p).n = d + 1
      BY <2>1 DEF Left, N
  <2>3. CASE p = 0
      BY <1>3, <2>2, <2>3
  <2>4. CASE p # 0
      BY <1>5, <1>6, <2>2, <2>4
  <2> QED BY <2>3, <2>4
<1>8. \A p \in Line : Piece(p, i)' <=> p # 0 /\ Piece(p, i)
  <2> TAKE p \in Line
  <2>1. CASE p = 0
    <3>1. OnLine(p)'.t = "none"
        BY <1>1, <2>1 DEF OnLine, NoMsg, Report
    <3> QED BY <2>1, <3>1 DEF Piece
  <2>2. CASE p # 0
      BY <1>3, <2>2 DEF Piece
  <2> QED BY <2>1, <2>2
<1>9. Latest(i)' = Latest(i) /\ chunks'[Latest(i)'] = N
    BY <1>1 DEF Latest, N
<1>10. \A n \in ((d + 1) + 1)..N : \E p \in Line' : Piece(p, i)' /\ OnLine(p)'.n = n
  <2> TAKE n \in ((d + 1) + 1)..N
  <2>1. n \in (d + 1)..N /\ n # d + 1
      BY <1>5
  <2>2. PICK p \in Line : Piece(p, i) /\ OnLine(p).n = n
      BY <2>1 DEF Left, N
  <2>3. p # 0
      BY <1>3, <1>7, <2>1, <2>2
  <2> QED BY <1>3, <1>8, <2>2, <2>3
<1>11. \A p \in Line' : Piece(p, i)' => OnLine(p)'.n > d + 1
    BY <1>3, <1>6, <1>7, <1>8
<1>12. Latest(i) \in Made /\ d + 1 <= N
    BY <1>5, <1>7 DEF Left
<1> QED BY <1>4, <1>7, <1>9, <1>10, <1>11, <1>12 DEF Left

LEMMA LeftStays ==
    ASSUME Typed, Alternation, Numbered, [Next]_vars, NEW i \in Conn, ~Connect(i), ~(DispatchRecv /\ pmsg.id = i),
           NEW d \in Nat, Left(i, d)
    PROVE  Left(i, d)'
<1>1. CASE PeerSends(i)
    BY <1>1, LeftSends
<1>2. CASE ~PeerSends(i)
    BY <1>2, PiecesSameStep, LatestSame, LeftKeep DEF Left
<1> QED BY <1>1, <1>2

LEMMA HeldStays ==
    ASSUME Typed, Alternation, Numbered, PiecesOrdered, [Next]_vars, NEW i \in Conn, ~Connect(i), Single(i),
           conn_recv'[i] = conn_recv[i] \/ DispatchRecv, NEW g \in Nat, Held(i, g)
    PROVE  Held(i, g)'
<1> DEFINE q == conn_recv[i]
<1>1. q \in Seq(Pieces) /\ Len(q) \in Nat
    BY QueueTypes DEF Typed
<1>2. Left(i, g + Len(q)) /\ g + Len(q) \in Nat
    BY <1>1 DEF Held
<1>3. inc'[i] = inc[i]
    BY LatestSame, SendsReport
<1>4. CASE DispatchRecv /\ pmsg.id = i
  <2>1. PICK e \in Nat : e = g + Len(q)
      BY <1>1
  <2>2. Left(i, e)
      BY <1>2, <2>1
  <2>3. pmsg.inc = inc[i] /\ pmsg.n = e + 1 /\ Left(i, e + 1)'
      BY <1>4, <2>2, LeftDispatch DEF Single
  <2>4. conn_recv'[i] = Append(q, pmsg) /\ pmsg \in Pieces
    <3>1. pmsg # NoMsg /\ pmsg.t = "recv"
        BY <1>4 DEF DispatchRecv, NoMsg, Report
    <3> QED BY <1>4, <3>1, HeadFits, PieceType DEF DispatchRecv, Typed, TypeOK
  <2> HIDE DEF q
  <2>5. /\ Len(conn_recv'[i]) = Len(q) + 1
        /\ \A k \in 1..Len(q) : conn_recv'[i][k] = q[k]
        /\ \A k : k = Len(q) + 1 => conn_recv'[i][k] = pmsg
      BY <1>1, <2>4, AppendProperties
  <2>6. \A k \in 1..(Len(q) + 1) : conn_recv'[i][k].inc = inc[i] /\ conn_recv'[i][k].n = g + k
    <3> TAKE k \in 1..(Len(q) + 1)
    <3>1. CASE k \in 1..Len(q)
        BY <2>5, <3>1 DEF Held, QueueRange, q
    <3>2. CASE k = Len(q) + 1
        BY <1>1, <2>1, <2>3, <2>5, <3>2
    <3> QED BY <1>1, <3>1, <3>2
  <2>7. g + Len(conn_recv'[i]) = e + 1
      BY <1>1, <2>1, <2>5
  <2>8. Left(i, g + Len(conn_recv[i]))'
    <3>1. \A h : h = g + Len(conn_recv'[i]) => Left(i, h)'
        BY <2>3, <2>7
    <3> QED BY <2>3, <2>7 DEF Left
  <2> QED BY <1>3, <2>5, <2>6, <2>8 DEF Held, QueueRange
<1>5. CASE ~(DispatchRecv /\ pmsg.id = i)
  <2>1. conn_recv'[i] = conn_recv[i]
    <3>1. CASE DispatchRecv
        BY <1>5, <3>1 DEF DispatchRecv, Typed, TypeOK
    <3> QED BY <3>1
  <2>2. Left(i, g + Len(q))'
    <3>1. PICK e \in Nat : e = g + Len(q)
        BY <1>2
    <3>2. Left(i, e)'
        BY <1>2, <1>5, <3>1, LeftStays
    <3> QED BY <2>1, <3>1, <3>2 DEF Left
  <2> QED BY <1>3, <2>1, <2>2 DEF Held, QueueRange
<1> QED BY <1>4, <1>5
(* What comes was on the line before, unless the parser announces it now.    *)
LEMMA ComesFrom ==
    ASSUME Typed, Alternation, Numbered, [Next]_vars, NEW i \in Conn, ~Connect(i),
           NEW p \in Line', Coming(p, i)',
           ~(DispatchAccepted /\ pmsg.id = i) \/ OnLine(p)'.t = "connect"
    PROVE  \E q \in Line : OnLine(q) = OnLine(p)' /\ Coming(q, i)
<1> USE DEF Typed
<1>0. ASSUME NEW q \in Line, OnLine(q) = OnLine(p)' PROVE Coming(q, i)
    BY <1>0 DEF Coming, Comes
<1>1. ASSUME NEW m \in Reports, rx' = Append(rx, m), pmsg' = pmsg,
             m.id # i \/ m.t \notin {"connect", "announce"}
      PROVE  \E q \in Line : OnLine(q) = OnLine(p)'
  <2> DEFINE new == Len(rx) + 1
  <2>1. /\ Line' = Line \cup {new}
        /\ \A r \in Line : OnLine(r)' = OnLine(r)
        /\ \A r : r = new => OnLine(r)' = m
      BY <1>1, LineGrows DEF Line
  <2> HIDE DEF new
  <2>2. p # new
      BY <1>1, <2>1 DEF Coming, Comes
  <2> QED BY <2>1, <2>2
<1>2. ASSUME NEW j \in Conn, Connect(j) PROVE \E q \in Line : OnLine(q) = OnLine(p)'
  <2> DEFINE m == Report("connect", j, inc[j] + 1, 0)
  <2>1. inc[j] + 1 \in 1..MaxInc
      BY <1>2, ConnectCounts
  <2>2. m \in Reports /\ m.id # i /\ rx' = Append(rx, m) /\ pmsg' = pmsg
      BY <1>2, <2>1 DEF Report, Reports, Connect, parserVars
  <2> HIDE DEF m
  <2> QED BY <1>1, <2>2
<1>3. ASSUME NEW j \in Conn, PeerSends(j) PROVE \E q \in Line : OnLine(q) = OnLine(p)'
    BY <1>1, <1>3, SendsReport
<1>4. ASSUME NEW j \in Conn, LinkEnds(j), pmsg' = pmsg PROVE \E q \in Line : OnLine(q) = OnLine(p)'
  <2> DEFINE m == Report("closed", j, link[j], 0)
  <2>1. link[j] \in 1..MaxInc
      BY <1>4, EndsCounts
  <2>2. m \in Reports /\ m.t = "closed" /\ rx' = Append(rx, m)
      BY <1>4, <2>1 DEF Report, Reports, LinkEnds
  <2> HIDE DEF m
  <2> QED BY <1>1, <1>4, <2>2
<1>5. ASSUME NEW j \in Conn, PeerCloses(j) PROVE \E q \in Line : OnLine(q) = OnLine(p)'
    BY <1>4, <1>5 DEF PeerCloses, parserVars
<1>6. CASE ParserBegin
    BY <1>0, <1>6, LineMoves
<1>7. CASE DispatchAccepted \/ Announce \/ DispatchClosed \/ DispatchRecv
  <2>1. rx' = rx /\ pmsg # NoMsg
      BY <1>7 DEF DispatchAccepted, Announce, DispatchClosed, DispatchRecv, NoMsg, Report
  <2>2. pmsg \in Reports
      BY <2>1, HeadFits
  <2>3. ~(pmsg'.id = i /\ pmsg'.t = OnLine(p)'.t)
    <3>1. CASE pmsg' = NoMsg
        BY <3>1, SockAssumption DEF NoMsg, Report
    <3>2. CASE DispatchAccepted /\ pmsg' # NoMsg
      <4>1. pmsg'.id = pmsg.id /\ pmsg'.t = "announce"
          BY <2>2, <3>2 DEF DispatchAccepted, Reports, Pieces
      <4> QED BY <3>2, <4>1
    <3> QED BY <1>7, <3>1, <3>2 DEF Announce, DispatchClosed, DispatchRecv
  <2>4. p # 0
      BY <2>1, <2>3, LineHead DEF Coming
  <2> QED BY <1>0, <2>1, <2>4, LineHead
<1>8. CASE CloseDone
  <2>1. fd \in Conn /\ pmsg' = pmsg
      BY <1>8 DEF CloseDone, Serves, parserVars
  <2> QED BY <1>0, <1>4, <1>8, <2>1, LineSame DEF CloseDone
<1>9. CASE Accept \/ Recv \/ SendStart \/ SendDone \/ CloseStart \/ UNCHANGED vars
           \/ \E n \in Sizes : RecvStart(n)
  <2>1. rx' = rx /\ pmsg' = pmsg
      BY <1>9 DEF Accept, Recv, RecvEnough, RecvMore, RecvPop, SendStart, SendDone, CloseStart,
                  RecvStart, parserVars, vars
  <2> QED BY <1>0, <2>1, LineSame
<1> QED BY <1>0, <1>2, <1>3, <1>5, <1>6, <1>7, <1>8, <1>9 DEF Next, Modem, Parser, Sshd

(* Only the sshd task's own steps and the announcement take from the queue.  *)
LEMMA HeldStep ==
    ASSUME Typed, Alternation, Numbered, PiecesOrdered, [Next]_vars, NEW i \in Conn, Single(i), ~Connect(i),
           ~(DispatchAccepted /\ pmsg.id = i), ~((RecvPop \/ CloseStart) /\ fd = i),
           NEW g \in Nat, Held(i, g)
    PROVE  Held(i, g)'
<1>1. CASE DispatchAccepted
    BY <1>1, HeldStays DEF DispatchAccepted, Emptied, Typed, TypeOK
<1>2. CASE RecvPop \/ CloseStart
    BY <1>2, HeldStays DEF RecvPop, CloseStart, Emptied, Typed, TypeOK
<1>3. CASE ~DispatchAccepted /\ ~RecvPop /\ ~CloseStart /\ ~DispatchRecv
  <2>1. conn_recv' = conn_recv
      BY <1>3 DEF Next, Modem, Connect, PeerSends, PeerCloses, Parser, ParserBegin,
                  Announce, DispatchClosed, Sshd, Accept, RecvStart, Recv, RecvEnough, RecvMore,
                  SendStart, SendDone, CloseDone, vars
  <2> QED BY <2>1, HeldStays
<1>4. CASE DispatchRecv
    BY <1>4, HeldStays
<1> QED BY <1>1, <1>2, <1>3, <1>4

-----------------------------------------------------------------------------
(* A connection that comes has nothing read and, once it is announced, the  *)
(* queue is its own; the one served has read what left the queue, but for   *)
(* what recv_buff holds.                                                    *)
Got(i, g) ==
    IF pc = "pop" THEN Len(read[Current]) = Extent(g)
    ELSE /\ Len(read[Current]) + Len(recv_buff[i]) = Extent(g)
         /\ \A j \in 1..Len(recv_buff[i]) : recv_buff[i][j] = Byte(session, Len(read[Current]) + j)

ConnectHeld(i)  == \A p \in Line : Coming(p, i) /\ OnLine(p).t = "connect" => Left(i, 0)
AnnounceHeld(i) == \A p \in Line : Coming(p, i) /\ OnLine(p).t = "announce" => Held(i, 0)
QueuedHeld(i)   == \A k \in PreRange : Queued(k, i) => Held(i, 0)
ServedHeld(i)   == Serving(i) /\ pc # "close" => \E g \in Nat : Held(i, g) /\ Got(i, g)
KeepsUp(i)      == ConnectHeld(i) /\ AnnounceHeld(i) /\ QueuedHeld(i) /\ ServedHeld(i)
Chain           == Clean => \A i \in Conn : KeepsUp(i)

LEMMA ChainInit == Init => Chain
<1> SUFFICES ASSUME Init, NEW i \in Conn PROVE KeepsUp(i)
    BY Zenon DEF Chain
<1>1. \A p \in Line : ~Coming(p, i)
    BY SockAssumption DEF Init, Line, OnLine, NoMsg, Report, Coming
<1>2. PreRange = {} /\ ~Serving(i)
    BY DEF Init, PreRange, Serving
<1> QED BY <1>1, <1>2 DEF KeepsUp, ConnectHeld, AnnounceHeld, QueuedHeld, ServedHeld

LEMMA ConnectHeldStep ==
    ASSUME Typed, Alternation, Numbered, PiecesOrdered, [Next]_vars, NEW i \in Conn, ~Connect(i),
           Single(i), ConnectHeld(i)
    PROVE  ConnectHeld(i)'
<1> SUFFICES ASSUME NEW p \in Line', Coming(p, i)', OnLine(p)'.t = "connect" PROVE Left(i, 0)'
    BY DEF ConnectHeld
<1>1. PICK q \in Line : OnLine(q) = OnLine(p)' /\ Coming(q, i)
    BY ComesFrom
<1>2. Left(i, 0)
    BY <1>1 DEF ConnectHeld
<1>3. ~(DispatchRecv /\ pmsg.id = i)
  <2> SUFFICES ASSUME DispatchRecv, pmsg.id = i PROVE FALSE
      OBVIOUS
  <2>1. pmsg # NoMsg /\ pmsg.t = "recv"
      BY DEF DispatchRecv, NoMsg, Report
  <2>2. pmsg \in Pieces
      BY <2>1, HeadFits, PieceType
  <2>3. 0 \in Line /\ OnLine(0) = pmsg /\ q # 0 /\ 0 < q
      BY <1>1, <2>1, LineTypes DEF Line, OnLine, Typed
  <2>4. Ahead(pmsg, OnLine(q))
      BY <1>1, <2>1, <2>3 DEF PiecesOrdered, LineOrdered, Stamped, Coming
  <2>5. pmsg.inc = inc[i] /\ OnLine(q).inc = inc[i]
      BY <1>1, <2>3 DEF Single, LatestOnly, Coming
  <2>6. OnLine(q) \in Reports \cup {NoMsg} /\ OnLine(q).t = "connect"
      BY <1>1, LineTypes DEF Typed
  <2>7. OnLine(q).n = 0
      BY <2>6 DEF Reports, Pieces, NoMsg, Report
  <2>8. inc[i] \in Nat /\ pmsg.n \in Nat
      BY <2>2, SockAssumption DEF Pieces, Typed, TypeOK
  <2> QED BY <2>4, <2>5, <2>7, <2>8 DEF Ahead
<1> QED BY <1>2, <1>3, LeftStays

LEMMA AnnounceHeldStep ==
    ASSUME Typed, Alternation, Numbered, PiecesOrdered, [Next]_vars, NEW i \in Conn, ~Connect(i),
           Single(i), ConnectHeld(i), AnnounceHeld(i)
    PROVE  AnnounceHeld(i)'
<1> SUFFICES ASSUME NEW p \in Line', Coming(p, i)', OnLine(p)'.t = "announce" PROVE Held(i, 0)'
    BY DEF AnnounceHeld
<1>1. CASE DispatchAccepted /\ pmsg.id = i
  <2>1. pmsg # NoMsg /\ pmsg.t = "connect"
      BY <1>1 DEF DispatchAccepted, NoMsg, Report
  <2>2. 0 \in Line /\ OnLine(0) = pmsg /\ ~conn_state[pmsg.id]
      BY <2>1, HeadFits, LineTypes DEF Line, OnLine, Typed
  <2>3. Left(i, 0)
      BY <1>1, <2>1, <2>2 DEF ConnectHeld, Coming, Comes
  <2>4. ~DispatchRecv
      BY <2>1 DEF DispatchRecv
  <2>5. Left(i, 0)'
      BY <2>3, <2>4, LeftStays
  <2>6. conn_recv'[i] = <<>> /\ Len(<<>>) = 0 /\ 0 + 0 = 0 /\ (1..0) = {}
      BY <1>1, <2>2 DEF DispatchAccepted, Emptied, Typed, TypeOK
  <2>7. Left(i, 0 + Len(conn_recv[i]))'
      BY <2>5, <2>6 DEF Left
  <2> QED BY <2>6, <2>7 DEF Held, QueueRange
<1>2. CASE ~(DispatchAccepted /\ pmsg.id = i)
  <2>1. PICK q \in Line : OnLine(q) = OnLine(p)' /\ Coming(q, i)
      BY <1>2, ComesFrom
  <2>2. Held(i, 0) /\ ~Serving(i)
      BY <2>1 DEF AnnounceHeld, Single, ComingAlone
  <2>3. ~((RecvPop \/ CloseStart) /\ fd = i)
      BY <2>2 DEF Serving, RecvPop, CloseStart
  <2> QED BY <1>2, <2>2, <2>3, HeldStep
<1> QED BY <1>1, <1>2

(* What is queued at sock_accept was queued or has just been announced.      *)
LEMMA QueuedFrom ==
    ASSUME Typed, [Next]_vars, NEW i \in Conn, NEW k \in PreRange', Queued(k, i)'
    PROVE  (Announce /\ pmsg.id = i) \/ \E l \in PreRange : Queued(l, i)
<1>1. CASE Announce
  <2>1. /\ preacc \in Seq(Made) /\ <<pmsg.id, pmsg.inc>> \in Made
        /\ preacc' = Append(preacc, <<pmsg.id, pmsg.inc>>)
      BY <1>1, AnnounceType DEF Typed
  <2>2. /\ Len(preacc) \in Nat /\ Len(preacc') = Len(preacc) + 1
        /\ \A l \in 1..Len(preacc) : preacc'[l] = preacc[l]
        /\ preacc'[Len(preacc) + 1] = <<pmsg.id, pmsg.inc>>
      BY <2>1, AppendProperties, LenProperties
  <2> QED BY <1>1, <2>2 DEF PreRange, Queued
<1>2. CASE Accept
  <2>1. preacc \in Seq(Made) /\ preacc # <<>> /\ preacc' = Tail(preacc)
      BY <1>2 DEF Accept, Typed, TypeOK
  <2>2. /\ Len(preacc) \in Nat /\ Len(preacc') = Len(preacc) - 1
        /\ \A l \in 1..Len(preacc') : preacc'[l] = preacc[l + 1]
      BY <2>1, HeadTailProperties, LenProperties
  <2> QED BY <2>2 DEF PreRange, Queued
<1>3. CASE ~Announce /\ ~Accept
  <2>1. preacc' = preacc
      BY <1>3 DEF Next, Modem, Connect, PeerSends, PeerCloses, Parser, ParserBegin, DispatchAccepted,
                  DispatchClosed, DispatchRecv, Sshd, RecvStart, Recv, RecvEnough, RecvMore,
                  RecvPop, SendStart, SendDone, CloseStart, CloseDone, vars, parserVars
  <2> QED BY <2>1 DEF PreRange, Queued
<1> QED BY <1>1, <1>2, <1>3

LEMMA QueuedHeldStep ==
    ASSUME Typed, Alternation, Numbered, PiecesOrdered, [Next]_vars, NEW i \in Conn, ~Connect(i),
           Single(i), AnnounceHeld(i), QueuedHeld(i)
    PROVE  QueuedHeld(i)'
<1> SUFFICES ASSUME NEW k \in PreRange', Queued(k, i)' PROVE Held(i, 0)'
    BY DEF QueuedHeld
<1>1. CASE Announce /\ pmsg.id = i
  <2>1. 0 \in Line /\ OnLine(0) = pmsg /\ pmsg.t = "announce"
      BY <1>1, LineTypes DEF Line, OnLine, Typed, Announce
  <2>2. Held(i, 0) /\ ~DispatchAccepted /\ ~RecvPop /\ ~CloseStart
      BY <1>1, <2>1 DEF AnnounceHeld, Coming, Comes, DispatchAccepted, RecvPop, CloseStart,
                        Announce, parserVars, NoMsg, Report
  <2> QED BY <2>2, HeldStep
<1>2. ASSUME NEW l \in PreRange, Queued(l, i) PROVE Held(i, 0)'
  <2>1. Held(i, 0) /\ ~Serving(i)
      BY <1>2 DEF QueuedHeld, Single, QueuedAlone
  <2>2. ~((RecvPop \/ CloseStart) /\ fd = i)
      BY <2>1 DEF Serving, RecvPop, CloseStart
  <2>3. ~(DispatchAccepted /\ pmsg.id = i)
    <3>1. ~Coming(0, i)
        BY <1>2, LineTypes DEF Single, ComingAlone, Line, Typed
    <3> QED BY <3>1 DEF Coming, Comes, OnLine, DispatchAccepted
  <2> QED BY <2>1, <2>2, <2>3, HeldStep
<1> QED BY <1>1, <1>2, QueuedFrom
(* A new id on the line: nothing of it is anywhere.                         *)
LEMMA ChainConnect ==
    ASSUME Typed, NotYet, NEW i \in Conn, Connect(i), Clean'
    PROVE  KeepsUp(i)'
<1>1. inc[i] + 1 \in 1..MaxInc /\ inc \in [Conn -> 0..MaxInc]
    BY ConnectCounts DEF Typed
<1>2. PICK m : m = Report("connect", i, inc[i] + 1, 0)
    OBVIOUS
<1>3. /\ m \in Reports /\ m.id = i /\ m.t = "connect"
      /\ rx' = Append(rx, m) /\ pmsg' = pmsg /\ preacc' = preacc
      /\ fd' = fd /\ pc' = pc /\ inc'[i] = inc[i] + 1 /\ chunks' = chunks
    BY <1>1, <1>2 DEF Report, Reports, Connect, parserVars, taskVars
<1> DEFINE new == Len(rx) + 1
<1>4. /\ Line' = Line \cup {new}
      /\ \A p \in Line : OnLine(p)' = OnLine(p)
      /\ \A p : p = new => OnLine(p)' = m
    BY <1>3, LineGrows DEF Line, Typed
<1> HIDE DEF new
<1>5. ~InUse(i)
    BY DEF Connect, Clean, Excuses
<1>6. ~Serving(i)' /\ \A k \in PreRange' : ~Queued(k, i)'
    BY <1>3, <1>5 DEF InUse, Serving, PreRange, Queued
<1>7. \A p \in Line : OnLine(p)'.id # i
    BY <1>4, <1>5, LineTypes DEF InUse, Line, OnLine, Typed
<1>8. \A p \in Line' : ~Piece(p, i)' /\ ~(Coming(p, i)' /\ OnLine(p)'.t = "announce")
    BY <1>3, <1>4, <1>7 DEF Piece, Coming
<1>9. Latest(i)' \in Made /\ chunks'[Latest(i)'] = 0
  <2>1. inc[i] + 1 > inc[i]
      BY <1>1
  <2> QED BY <1>1, <1>3, <2>1 DEF NotYet, Latest, Made
<1>10. Left(i, 0)'
    BY <1>8, <1>9 DEF Left
<1> QED BY <1>6, <1>8, <1>10 DEF KeepsUp, ConnectHeld, AnnounceHeld, QueuedHeld, ServedHeld

LEMMA ServedAccept ==
    ASSUME Typed, Alternation, Numbered, EachAcceptedOnce, PiecesOrdered, ReadAccepted, Accept,
           NEW i \in Conn, Single(i), QueuedHeld(i)
    PROVE  ServedHeld(i)'
<1> SUFFICES ASSUME Serving(i)' PROVE \E g \in Nat : Held(i, g)' /\ Got(i, g)'
    BY DEF ServedHeld
<1>1. /\ preacc \in Seq(Made) /\ preacc # <<>> /\ fd' = Head(preacc)[1] /\ pc = "accept" /\ pc' = "serve"
      /\ read' = read /\ recv_buff' = recv_buff /\ pmsg' = pmsg
    BY DEF Accept, Typed, TypeOK
<1>2. Head(preacc) = preacc[1] /\ 1 \in PreRange
    BY <1>1, LenProperties, EmptySeq DEF PreRange
<1>3. Queued(1, i)
    BY <1>1, <1>2 DEF Serving, Queued
<1>4. recv_buff[i] = <<>> /\ Held(i, 0)
    BY <1>2, <1>3 DEF Single, QueuedAlone, QueuedHeld
<1>5. [Next]_vars /\ ~Connect(i) /\ ~DispatchAccepted /\ ~RecvPop /\ ~CloseStart
  <2>1. ~RecvPop /\ ~CloseStart
      BY <1>1 DEF RecvPop, CloseStart
  <2>2. ~Connect(i)
      BY <1>1 DEF Connect, taskVars
  <2>3. ~DispatchAccepted
      BY <1>1 DEF DispatchAccepted, taskVars
  <2> QED BY <2>1, <2>2, <2>3 DEF Next, Sshd
<1>6. Held(i, 0)'
    BY <1>4, <1>5, HeldStep
<1>7. read'[Current'] = <<>> /\ Len(<<>>) = 0 /\ (1..0) = {} /\ 0 + 0 = 0
    BY <1>1, AcceptedNew
<1>8. Got(i, 0)'
    BY <1>1, <1>4, <1>7, Extents DEF Got
<1> QED BY <1>6, <1>8

(* The bytes handed out move from recv_buff to what is read.                 *)
LEMMA GotOut ==
    ASSUME Typed, NEW n \in Nat, n <= Len(recv_buff[fd]), HandOut(n), pc = "recv", Current' = Current,
           NEW g \in Nat, Got(fd, g)
    PROVE  /\ fd \in Conn /\ Current \in Made
           /\ Len(read'[Current]) = Len(read[Current]) + n
           /\ Len(read[Current]) \in Nat /\ Len(recv_buff[fd]) \in Nat /\ recv_buff[fd] \in Seq(Bytes)
           /\ Len(read[Current]) + Len(recv_buff[fd]) = Extent(g)
           /\ \A j \in 1..Len(recv_buff[fd]) : recv_buff[fd][j] = Byte(session, Len(read[Current]) + j)
           /\ \A a \in 1..Len(read[Current]) : read'[Current][a] = read[Current][a]
           /\ \A a \in 1..n : read'[Current][Len(read[Current]) + a] = Byte(session, Len(read[Current]) + a)
           /\ \A c \in Made : c # Current => read'[c] = read[c]
<1>1. fd \in Conn /\ Current \in Made /\ recv_buff[fd] \in Seq(Bytes) /\ Len(recv_buff[fd]) \in Nat
    BY ByteTypes
<1>2. n \in 0..Len(recv_buff[fd])
    BY <1>1
<1>3. /\ read' = [read EXCEPT ![Current] = read'[Current]]
      /\ Len(read'[Current]) = Len(read[Current]) + n
      /\ \A a \in 1..Len(read[Current]) : read'[Current][a] = read[Current][a]
      /\ \A a \in 1..n : read'[Current][Len(read[Current]) + a] = recv_buff[fd][a]
      /\ Len(read[Current]) \in Nat
    BY <1>2, HandOutType
<1>4. /\ Len(read[Current]) + Len(recv_buff[fd]) = Extent(g)
      /\ \A j \in 1..Len(recv_buff[fd]) : recv_buff[fd][j] = Byte(session, Len(read[Current]) + j)
    BY DEF Got
<1>5. \A a \in 1..n : a \in 1..Len(recv_buff[fd])
    BY <1>1
<1>6. \A c \in Made : c # Current => read'[c] = read[c]
    BY <1>1, <1>3 DEF Typed, TypeOK
<1> QED BY <1>1, <1>3, <1>4, <1>5, <1>6

LEMMA GotEnough ==
    ASSUME Typed, RecvEnough, NEW i \in Conn, i = fd, NEW g \in Nat, Got(i, g) PROVE Got(i, g)'
<1>1. /\ fd' = fd /\ session' = session /\ Current' = Current /\ pc = "recv" /\ pc' = "serve"
      /\ need \in Nat /\ need <= Len(recv_buff[fd]) /\ HandOut(need)
      /\ recv_buff' = [recv_buff EXCEPT ![fd] = Rest(recv_buff[fd])]
    BY DEF RecvEnough, Current, Typed, TypeOK
<1>2. /\ fd \in Conn /\ Len(read'[Current]) = Len(read[Current]) + need
      /\ Len(read[Current]) \in Nat /\ Len(recv_buff[fd]) \in Nat /\ recv_buff[fd] \in Seq(Bytes)
      /\ Len(read[Current]) + Len(recv_buff[fd]) = Extent(g)
      /\ \A j \in 1..Len(recv_buff[fd]) : recv_buff[fd][j] = Byte(session, Len(read[Current]) + j)
    BY <1>1, GotOut
<1> DEFINE q == recv_buff[fd]   r == Rest(recv_buff[fd])   L == Len(read[Current])   M == Len(read'[Current])
<1>3. /\ Len(r) = Len(q) - need /\ \A j \in 1..(Len(q) - need) : r[j] = q[need + j]
  <2>1. need \in 0..Len(recv_buff[fd])
      BY <1>1, <1>2
  <2> QED BY <1>2, <2>1, RestType
<1>4. recv_buff'[fd] = r
    BY <1>1, <1>2 DEF Typed, TypeOK
<1>5. /\ need \in Nat /\ L \in Nat /\ Len(q) \in Nat /\ need <= Len(q) /\ M = L + need
      /\ L + Len(q) = Extent(g)
      /\ \A j \in 1..Len(q) : q[j] = Byte(session, L + j)
    BY <1>1, <1>2
<1> HIDE DEF q, r, L, M
<1>6. \A j \in 1..Len(r) : r[j] = Byte(session, M + j)
  <2> TAKE j \in 1..Len(r)
  <2>1. need + j \in 1..Len(q) /\ j \in 1..(Len(q) - need)
      BY <1>3, <1>5
  <2>2. L + (need + j) = M + j
      BY <1>5
  <2> QED BY <1>3, <1>5, <2>1, <2>2
<1>7. M + Len(r) = Extent(g)
    BY <1>3, <1>5
<1> QED BY <1>1, <1>4, <1>6, <1>7 DEF Got, M

LEMMA GotMore ==
    ASSUME Typed, RecvMore, NEW i \in Conn, i = fd, NEW g \in Nat, Got(i, g) PROVE Got(i, g)'
<1>1. /\ Current' = Current /\ pc = "recv" /\ pc' = "pop" /\ HandOut(Len(recv_buff[fd]))
    BY DEF RecvMore, Current
<1>2. Len(recv_buff[fd]) \in Nat /\ Len(recv_buff[fd]) <= Len(recv_buff[fd])
    BY <1>1, ByteTypes
<1>3. Len(read'[Current]) = Len(read[Current]) + Len(recv_buff[fd])
      /\ Len(read[Current]) + Len(recv_buff[fd]) = Extent(g)
    BY <1>1, <1>2, GotOut
<1> QED BY <1>1, <1>3 DEF Got

(* The next payload goes from the queue to recv_buff.                        *)
LEMMA HeldPop ==
    ASSUME Typed, Alternation, RecvPop, NEW i \in Conn, i = fd, Single(i),
           NEW g \in Nat, Held(i, g), Got(i, g)
    PROVE  Held(i, g + 1)' /\ Got(i, g + 1)'
<1>1. PICK h : h = Head(conn_recv[i])
    OBVIOUS
<1>2. /\ Current \in Made /\ conn_recv[i] \in Seq(Pieces) /\ conn_recv[i] # <<>>
      /\ Current' = Current /\ read' = read /\ fd' = fd /\ session' = session /\ rx' = rx /\ pmsg' = pmsg
      /\ inc' = inc /\ chunks' = chunks /\ pc = "pop" /\ pc' = "recv"
      /\ recv_buff' = [recv_buff EXCEPT ![i] = Payload(h)]
      /\ conn_recv'[i] = Tail(conn_recv[i])
    BY <1>1, ByteTypes DEF RecvPop, Typed, TypeOK, Current, modemVars, parserVars
<1>3. /\ h = conn_recv[i][1] /\ 1 \in QueueRange(i) /\ h \in Pieces
      /\ Len(conn_recv[i]) \in Nat \ {0} /\ Len(conn_recv'[i]) = Len(conn_recv[i]) - 1
      /\ \A k \in 1..Len(conn_recv'[i]) : conn_recv'[i][k] = conn_recv[i][k + 1]
    BY <1>1, <1>2, LenProperties, EmptySeq, ElementOfSeq, HeadTailProperties DEF QueueRange
<1>4. h.inc = inc[i] /\ h.n = g + 1 /\ session = inc[i]
    BY <1>2, <1>3 DEF Held, Single, ServesLatest, Serving
<1>5. \A k \in 1..Len(conn_recv'[i]) : conn_recv'[i][k].inc = inc[i] /\ conn_recv'[i][k].n = (g + 1) + k
  <2> TAKE k \in 1..Len(conn_recv'[i])
  <2>1. k + 1 \in QueueRange(i) /\ g + (k + 1) = (g + 1) + k
      BY <1>3 DEF QueueRange
  <2> QED BY <1>3, <2>1 DEF Held
<1>6. (g + 1) + Len(conn_recv'[i]) = g + Len(conn_recv[i])
  <2>1. \A a, b \in Nat : b = a - 1 => (g + 1) + b = g + a
      OBVIOUS
  <2>2. Len(conn_recv[i]) \in Nat /\ Len(conn_recv'[i]) \in Nat
      BY <1>3
  <2> QED BY <1>3, <2>1, <2>2
<1>7. Left(i, g + Len(conn_recv[i]))
    BY DEF Held
<1>8. Left(i, (g + 1) + Len(conn_recv[i]))'
    BY <1>2, <1>6, <1>7 DEF Left, Latest, Line, OnLine, Piece
<1>9. Held(i, g + 1)'
    BY <1>2, <1>5, <1>8 DEF Held, QueueRange
<1>10. /\ Len(Payload(h)) = ChunkLen
       /\ \A j \in 1..ChunkLen : Payload(h)[j] = Byte(h.inc, Extent(h.n - 1) + j)
    BY <1>3, PayloadType
<1>11. recv_buff'[i] = Payload(h) /\ h.n - 1 = g /\ Len(read[Current]) = Extent(g)
       /\ Extent(g + 1) = Extent(g) + ChunkLen
    BY <1>2, <1>4, Extents DEF Got, Typed, TypeOK
<1>12. Got(i, g + 1)'
    BY <1>2, <1>4, <1>10, <1>11 DEF Got
<1> QED BY <1>9, <1>12

LEMMA ServedStep ==
    ASSUME Typed, Alternation, Numbered, PiecesOrdered, [Next]_vars, ~Accept,
           NEW i \in Conn, ~Connect(i), Single(i), ServedHeld(i)
    PROVE  ServedHeld(i)'
<1> SUFFICES ASSUME Serving(i)', pc' # "close" PROVE \E g \in Nat : Held(i, g)' /\ Got(i, g)'
    BY DEF ServedHeld
<1>1. /\ Serving(i) /\ pc # "close" /\ fd' = fd /\ session' = session /\ ~CloseStart
  <2>1. ~CloseStart
      BY DEF CloseStart, Serving
  <2>2. fd' = fd /\ session' = session /\ (pc' \notin {"accept", "close"} => pc \notin {"accept", "close"})
      BY <2>1 DEF Next, Modem, Connect, PeerSends, PeerCloses, Parser, ParserBegin, DispatchAccepted,
                  Announce, DispatchClosed, DispatchRecv, Sshd, RecvStart, Recv, RecvEnough, RecvMore,
                  RecvPop, SendStart, SendDone, CloseDone, vars, taskVars
  <2> QED BY <2>1, <2>2 DEF Serving
<1>2. PICK g \in Nat : Held(i, g) /\ Got(i, g)
    BY <1>1 DEF ServedHeld
<1>3. i = fd /\ Current' = Current
    BY <1>1 DEF Serving, Current
<1>4. ~(DispatchAccepted /\ pmsg.id = i)
  <2>1. ~Coming(0, i)
      BY <1>1, LineTypes DEF Single, ComingAlone, Line, Typed
  <2> QED BY <2>1 DEF Coming, Comes, OnLine, DispatchAccepted
<1>5. CASE RecvPop
  <2>1. Held(i, g + 1)' /\ Got(i, g + 1)' /\ g + 1 \in Nat
      BY <1>2, <1>3, <1>5, HeldPop
  <2> QED BY <2>1
<1>6. CASE ~RecvPop
  <2>1. Held(i, g)'
      BY <1>1, <1>2, <1>4, <1>6, HeldStep
  <2>2. Got(i, g)'
    <3>1. CASE RecvEnough \/ RecvMore
        BY <1>2, <1>3, <3>1, GotEnough, GotMore
    <3>2. CASE ~RecvEnough /\ ~RecvMore
      <4>1. read' = read /\ recv_buff' = recv_buff /\ (pc' = "pop" <=> pc = "pop")
          BY <1>1, <1>6, <3>2
             DEF Next, Modem, Connect, PeerSends, PeerCloses, Parser, ParserBegin, DispatchAccepted,
                  Announce, DispatchClosed, DispatchRecv, Sshd, RecvStart, Recv,
                  SendStart, SendDone, CloseDone, vars, taskVars
      <4> QED BY <1>1, <1>2, <1>3, <4>1 DEF Got
    <3> QED BY <3>1, <3>2
  <2> QED BY <2>1, <2>2
<1> QED BY <1>5, <1>6

LEMMA ChainStep ==
    ASSUME Typed, Alternation, Numbered, EachAcceptedOnce, PiecesOrdered, ReadAccepted, OneUser, NotYet, Chain,
           [Next]_vars
    PROVE  Chain'
<1>1. ASSUME NEW i \in Conn, Clean' PROVE KeepsUp(i)'
  <2>1. Single(i) /\ KeepsUp(i)
      BY <1>1, CleanBefore DEF OneUser, Chain
  <2>2. CASE Connect(i)
      BY <1>1, <2>2, ChainConnect
  <2>3. CASE ~Connect(i)
    <3>1. ConnectHeld(i) /\ AnnounceHeld(i) /\ QueuedHeld(i) /\ ServedHeld(i)
        BY <2>1 DEF KeepsUp
    <3>2. ServedHeld(i)'
        BY <2>1, <2>3, <3>1, ServedAccept, ServedStep
    <3> QED BY <2>1, <2>3, <3>1, <3>2, ConnectHeldStep, AnnounceHeldStep, QueuedHeldStep DEF KeepsUp
  <2> QED BY <2>2, <2>3
<1> QED BY <1>1, Zenon DEF Chain

-----------------------------------------------------------------------------
(* What is read of a connection is what its peer sent, from the first byte.  *)
LEMMA OwnOut ==
    ASSUME Typed, NEW n \in Nat, n <= Len(recv_buff[fd]), HandOut(n), pc = "recv", Current' = Current,
           NEW g \in Nat, Got(fd, g), Own
    PROVE  Own'
<1>1. /\ Len(read'[Current]) = Len(read[Current]) + n /\ Len(read[Current]) \in Nat
      /\ \A a \in 1..Len(read[Current]) : read'[Current][a] = read[Current][a]
      /\ \A a \in 1..n : read'[Current][Len(read[Current]) + a] = Byte(session, Len(read[Current]) + a)
      /\ \A c \in Made : c # Current => read'[c] = read[c]
      /\ Current \in Made /\ Current[2] = session
    BY GotOut DEF Current
<1> SUFFICES ASSUME NEW c \in Made, NEW p \in 1..Len(read'[c]) PROVE read'[c][p] = Byte(c[2], p)
    BY DEF Own
<1>2. CASE c # Current
    BY <1>1, <1>2 DEF Own
<1>3. CASE c = Current
  <2> DEFINE L == Len(read[Current])
  <2>3. L \in Nat /\ p \in 1..(L + n)
      BY <1>1, <1>3
  <2> HIDE DEF L
  <2>1. CASE p <= L
    <3>1. p \in 1..L
        BY <2>1, <2>3
    <3> QED BY <1>1, <1>3, <3>1 DEF Own, L
  <2>2. CASE p > L
    <3>1. p - L \in 1..n /\ L + (p - L) = p
        BY <2>2, <2>3
    <3>2. read'[Current][L + (p - L)] = Byte(session, L + (p - L))
        BY <1>1, <3>1 DEF L
    <3> QED BY <1>1, <1>3, <3>1, <3>2
  <2> QED BY <2>1, <2>2, <2>3
<1> QED BY <1>2, <1>3

LEMMA OwnStep == ASSUME Typed, Chain, OwnBytes, [Next]_vars PROVE OwnBytes'
<1> SUFFICES ASSUME Clean' PROVE Own'
    BY DEF OwnBytes, Clean
<1>1. Clean /\ Own
    BY CleanBefore DEF OwnBytes, Clean
<1>2. CASE RecvEnough \/ RecvMore
  <2>1. /\ pc = "recv" /\ Current' = Current /\ fd \in Conn
        /\ Len(recv_buff[fd]) \in Nat /\ Len(recv_buff[fd]) <= Len(recv_buff[fd])
      BY <1>2, ByteTypes DEF RecvEnough, RecvMore, Current
  <2>2. \E n \in Nat : n <= Len(recv_buff[fd]) /\ HandOut(n)
      BY <1>2, <2>1 DEF RecvEnough, RecvMore, Typed, TypeOK
  <2>3. \E g \in Nat : Got(fd, g)
      BY <1>1, <2>1 DEF Chain, KeepsUp, ServedHeld, Serving
  <2> QED BY <1>1, <2>1, <2>2, <2>3, OwnOut
<1>3. CASE ~RecvEnough /\ ~RecvMore
  <2>1. read' = read
      BY <1>3 DEF Next, Modem, Connect, PeerSends, PeerCloses, Parser, ParserBegin, DispatchAccepted,
                  Announce, DispatchClosed, DispatchRecv, Sshd, Accept, RecvStart, Recv, RecvPop, SendStart,
                  SendDone, CloseStart, CloseDone, vars, taskVars
  <2> QED BY <1>1, <2>1 DEF Own
<1> QED BY <1>2, <1>3

LEMMA OwnInit == Init => OwnBytes
BY DEF Init, OwnBytes, Own

(* As long as no id is taken again too early, the bytes read of a connection *)
(* are the first ones its peer sent, none missing and none of another's      *)
(* (espsock.c:131-223, parser.c:400-420).                                   *)
THEOREM OwnBytesRead == Spec => []OwnBytes
<1>1. Init => /\ Numbered /\ EachAcceptedOnce /\ PiecesOrdered /\ ReadAccepted /\ OneUser /\ NotYet /\ Chain
              /\ OwnBytes
    BY NumberedInit, OnceInit, PiecesInit, BytesInit, SingleInit, NotYetInit, ChainInit, OwnInit
<1>2. Typed /\ Alternation /\ Numbered /\ EachAcceptedOnce /\ PiecesOrdered /\ ReadAccepted /\ OneUser /\ NotYet
        /\ Chain /\ OwnBytes /\ [Next]_vars
        => (Numbered /\ EachAcceptedOnce /\ PiecesOrdered /\ ReadAccepted /\ OneUser /\ NotYet /\ Chain
            /\ OwnBytes)'
    BY NumberedStep, OnceStep, PiecesStep, ReadAcceptedStep, SingleStep, NotYetStep, ChainStep, OwnStep
<1> QED BY <1>1, <1>2, TypeInit, TypeStep, AltInit, AltStep, PTL DEF Spec

-----------------------------------------------------------------------------
(* Once sock_recv has said ENOTCONN, the connection is over: its link is     *)
(* down, none of its reports is left on the line and none of its payloads   *)
(* in the queue, so that it has been read to the end of recv_buff.          *)
LEMMA Least == ASSUME NEW T \in SUBSET Nat, T # {} PROVE \E x \in T : \A y \in T : x <= y
<1> DEFINE R == OpToRel(<, Nat)
<1>1. \A a, b \in Nat : <<a, b>> \in R <=> a < b
    BY DEF OpToRel
<1>2. IsWellFoundedOn(R, Nat)
    BY NatLessThanWellFounded, Zenon
<1> HIDE DEF R
<1>3. PICK x \in T : \A y \in T : ~ (<<y, x>> \in R)
    BY <1>2, WFMin
<1>4. ASSUME NEW y \in T PROVE x <= y
  <2>1. x \in Nat /\ y \in Nat
      OBVIOUS
  <2>2. ~(y < x)
      BY <1>1, <1>3, <2>1
  <2> QED BY <2>1, <2>2
<1> QED BY <1>4

LEMMA FirstAbout ==
    ASSUME Typed, NEW i \in Conn, NEW p \in Line, About(p, i)
    PROVE  \E q \in Line : About(q, i) /\ \A r \in Line : r < q => ~About(r, i)
<1> DEFINE T == {q \in Line : About(q, i)}
<1>1. T \in SUBSET Nat /\ T # {}
    BY LineTypes DEF Line, Typed
<1>2. \A q \in T : q \in Line /\ q \in Nat /\ About(q, i)
    BY <1>1
<1>3. \A r \in Line : About(r, i) => r \in T
    OBVIOUS
<1> HIDE DEF T
<1>4. PICK q \in T : \A r \in T : q <= r
    BY <1>1, Least
<1> QED BY <1>2, <1>3, <1>4

(* An id of which nothing is on the line stays so unless its link is up.     *)
LEMMA ReportFrom ==
    ASSUME Typed, Alternation, Numbered, [Next]_vars, NEW i \in Conn, ~Connect(i), link[i] = 0,
           NEW p \in Line', OnLine(p)'.id = i
    PROVE  \E q \in Line : OnLine(q).id = i
<1> USE DEF Typed
<1>1. ASSUME NEW m \in Reports, rx' = Append(rx, m), pmsg' = pmsg, m.id # i
      PROVE  \E q \in Line : OnLine(q).id = i
  <2> DEFINE new == Len(rx) + 1
  <2>1. /\ Line' = Line \cup {new}
        /\ \A r \in Line : OnLine(r)' = OnLine(r)
        /\ \A r : r = new => OnLine(r)' = m
      BY <1>1, LineGrows DEF Line
  <2> HIDE DEF new
  <2> QED BY <1>1, <2>1
<1>2. ASSUME NEW j \in Conn, Connect(j) PROVE \E q \in Line : OnLine(q).id = i
  <2> DEFINE m == Report("connect", j, inc[j] + 1, 0)
  <2>1. inc[j] \in 0..MaxInc /\ inc[j] < MaxInc /\ inc[j] + 1 \in 1..MaxInc
    <3>1. inc[j] \in 0..MaxInc /\ inc[j] < MaxInc
        BY <1>2 DEF Connect, TypeOK
    <3> QED BY <3>1, SockAssumption
  <2>2. m \in Reports /\ m.id # i /\ rx' = Append(rx, m) /\ pmsg' = pmsg
      BY <1>2, <2>1 DEF Report, Reports, Connect, parserVars
  <2> HIDE DEF m
  <2> QED BY <1>1, <2>2
<1>3. ASSUME NEW j \in Conn, PeerSends(j) PROVE \E q \in Line : OnLine(q).id = i
  <2>1. j # i
      BY <1>3 DEF PeerSends
  <2> QED BY <1>1, <1>3, <2>1, SendsReport
<1>4. ASSUME NEW j \in Conn, LinkEnds(j), pmsg' = pmsg PROVE \E q \in Line : OnLine(q).id = i
  <2> DEFINE m == Report("closed", j, link[j], 0)
  <2>1. link[j] \in 1..MaxInc
      BY <1>4, SockAssumption DEF LinkEnds, TypeOK
  <2>2. m \in Reports /\ m.id # i /\ rx' = Append(rx, m)
      BY <1>4, <2>1 DEF Report, Reports, LinkEnds
  <2> HIDE DEF m
  <2> QED BY <1>1, <1>4, <2>2
<1>5. ASSUME NEW j \in Conn, PeerCloses(j) PROVE \E q \in Line : OnLine(q).id = i
    BY <1>4, <1>5 DEF PeerCloses, parserVars
<1>6. CASE ParserBegin
    BY <1>6, LineMoves
<1>7. CASE DispatchAccepted \/ Announce \/ DispatchClosed \/ DispatchRecv
  <2>1. rx' = rx /\ pmsg # NoMsg
      BY <1>7 DEF DispatchAccepted, Announce, DispatchClosed, DispatchRecv, NoMsg, Report
  <2>2. pmsg \in Reports
      BY <2>1, HeadFits
  <2>3. pmsg'.id = i => pmsg.id = i
    <3>1. CASE pmsg' = NoMsg
        BY <3>1, SockAssumption DEF NoMsg, Report
    <3>2. CASE DispatchAccepted /\ pmsg' # NoMsg
        BY <2>2, <3>2 DEF DispatchAccepted, Reports, Pieces
    <3> QED BY <1>7, <3>1, <3>2 DEF Announce, DispatchClosed, DispatchRecv
  <2>4. /\ Line' = Line /\ OnLine(0)' = pmsg' /\ OnLine(0) = pmsg
        /\ \A q \in Line : q # 0 => OnLine(q)' = OnLine(q)
      BY <2>1, LineHead
  <2>5. CASE p = 0
      BY <2>3, <2>4, <2>5
  <2>6. CASE p # 0
      BY <2>4, <2>6
  <2> QED BY <2>5, <2>6
<1>8. CASE CloseDone
  <2>1. fd \in Conn /\ pmsg' = pmsg
      BY <1>8 DEF CloseDone, Serves, parserVars
  <2> QED BY <1>4, <1>8, <2>1, LineSame DEF CloseDone
<1>9. CASE Accept \/ Recv \/ SendStart \/ SendDone \/ CloseStart \/ UNCHANGED vars
           \/ \E n \in Sizes : RecvStart(n)
  <2>1. rx' = rx /\ pmsg' = pmsg
      BY <1>9 DEF Accept, Recv, RecvEnough, RecvMore, RecvPop, SendStart, SendDone, CloseStart,
                  RecvStart, parserVars, vars
  <2> QED BY <2>1, LineSame
<1> QED BY <1>2, <1>3, <1>5, <1>6, <1>7, <1>8, <1>9 DEF Next, Modem, Parser, Sshd

Silent(i) == /\ ~conn_state[i] /\ conn_recv[i] = <<>> /\ link[i] = 0
             /\ \A p \in Line : OnLine(p).id # i
             /\ \A k \in PreRange : ~Queued(k, i)
Whole(i)  == Len(read[Current]) + Len(recv_buff[i]) = Extent(chunks[Current])
Drained   == result = "ENOTCONN" =>
                /\ fd \in Conn /\ session \in 1..MaxInc
                /\ Clean /\ inc[fd] = session => pc \in {"serve", "accept"} /\ Silent(fd) /\ Whole(fd)

LEMMA DrainedNow ==
    ASSUME Typed, Alternation, NEW i \in Conn, i = fd, pc = "serve", ~IsConn(i), Single(i), KeepsUp(i)
    PROVE  Silent(i) /\ Whole(i)
<1>1. ~conn_state[i] /\ conn_recv[i] = <<>> /\ Len(conn_recv[i]) = 0 /\ Serving(i) /\ pc # "close"
    BY DEF IsConn, Serving
<1>2. \A p \in Line : ~Coming(p, i)
    BY <1>1 DEF Single, ComingAlone
<1>3. \A p \in Line : ~About(p, i)
  <2> SUFFICES ASSUME NEW p \in Line, About(p, i) PROVE FALSE
      OBVIOUS
  <2>1. PICK q \in Line : About(q, i) /\ \A r \in Line : r < q => ~About(r, i)
      BY FirstAbout
  <2>2. OnLine(q).t = "connect"
      BY <1>1, <2>1 DEF Alternation, FirstFits
  <2> QED BY <1>2, <2>1, <2>2 DEF Coming, Comes, About
<1>4. link[i] = 0
    BY <1>1, <1>3 DEF Alternation, QuietFits
<1>5. \A p \in Line : OnLine(p).id # i
  <2> SUFFICES ASSUME NEW p \in Line, OnLine(p).id = i PROVE FALSE
      OBVIOUS
  <2>1. OnLine(p) \in Reports \cup {NoMsg} /\ OnLine(p) # NoMsg
      BY LineTypes, SockAssumption DEF Typed, NoMsg, Report
  <2>2. OnLine(p).t \in {"connect", "announce", "recv", "closed"}
      BY <2>1 DEF Reports, Pieces
  <2> QED BY <1>2, <1>3, <2>2 DEF Coming, Comes, About
<1>6. \A k \in PreRange : ~Queued(k, i)
    BY <1>1 DEF Single, QueuedAlone
<1>7. PICK g \in Nat : Held(i, g) /\ Got(i, g)
    BY <1>1 DEF KeepsUp, ServedHeld
<1>8. Left(i, g + Len(conn_recv[i])) /\ g + Len(conn_recv[i]) = g
    BY <1>1, <1>7 DEF Held
<1>9. Left(i, g)
    BY <1>8
<1>10. chunks[Latest(i)] \in Nat
    BY <1>9, SockAssumption DEF Left, Typed, TypeOK
<1>11. g = chunks[Latest(i)]
  <2>1. g <= chunks[Latest(i)]
      BY <1>9 DEF Left
  <2>2. ~(g + 1 \in (g + 1)..chunks[Latest(i)])
      BY <1>5, <1>9 DEF Left, Piece
  <2> QED BY <1>10, <2>1, <2>2
<1>12. Latest(i) = Current
    BY <1>1 DEF Single, ServesLatest, Latest, Current
<1>13. Whole(i)
    BY <1>7, <1>11, <1>12 DEF Got, Whole
<1> QED BY <1>1, <1>4, <1>5, <1>6, <1>13 DEF Silent

(* The session the sshd task serves is one of a connection that was made.    *)
LEMMA SessionMade ==
    ASSUME Typed, Numbered, EachAcceptedOnce, ReadAccepted, fd \in Conn
    PROVE  session <= inc[fd]
<1>1. PICK k \in 1..Len(accepted) : accepted[k] = Current
    BY SockAssumption DEF ReadAccepted, Accepted
<1>2. /\ Len(accepted) \in Nat /\ Len(preacc) \in Nat /\ Len(connects) \in Nat
      /\ Len(Announced) = Len(accepted) + Len(preacc)
      /\ \A n \in 1..Len(accepted) : Announced[n] = accepted[n]
    BY Lengths DEF Typed
<1>3. Len(Announced) <= Len(connects) /\ \A n \in 1..Len(Announced) : connects[n] = Announced[n]
    BY DEF EachAcceptedOnce
<1>4. k \in 1..Len(Announced) /\ k \in 1..Len(connects)
    BY <1>2, <1>3
<1>5. connects[k] = <<fd, session>>
    BY <1>1, <1>2, <1>3, <1>4 DEF Current
<1>6. connects[k][2] <= inc[connects[k][1]]
    BY <1>4 DEF Numbered
<1> QED BY <1>5, <1>6

LEMMA SilentStep ==
    ASSUME Typed, Alternation, Numbered, [Next]_vars, NEW i \in Conn, ~Connect(i), Silent(i),
           ~((RecvPop \/ CloseStart) /\ fd = i)
    PROVE  Silent(i)'
<1>1. ~conn_state[i] /\ conn_recv[i] = <<>> /\ link[i] = 0
    BY DEF Silent
<1>2. 0 \in Line /\ OnLine(0) = pmsg
    BY LineTypes DEF Line, OnLine, Typed
<1>3. pmsg.id # i
    BY <1>2 DEF Silent
<1>4. \A p \in Line' : OnLine(p)'.id # i
    BY <1>1, ReportFrom DEF Silent
<1>5. \A k \in PreRange' : ~Queued(k, i)'
    BY <1>3, QueuedFrom DEF Silent
<1>6. conn_state'[i] = conn_state[i]
  <2>1. CASE DispatchAccepted \/ DispatchClosed
      BY <1>3, <2>1 DEF DispatchAccepted, DispatchClosed, Typed, TypeOK
  <2>2. CASE ~DispatchAccepted /\ ~DispatchClosed
    <3>1. conn_state' = conn_state
        BY <2>2 DEF Next, Modem, Connect, PeerSends, PeerCloses, Parser, ParserBegin, Announce, DispatchRecv,
                    Sshd, Accept, RecvStart, Recv, RecvEnough, RecvMore, RecvPop, SendStart, SendDone,
                    CloseStart, CloseDone, vars, parserVars
    <3> QED BY <3>1
  <2> QED BY <2>1, <2>2
<1>7. conn_recv'[i] = conn_recv[i]
  <2>1. CASE DispatchAccepted \/ DispatchRecv \/ RecvPop \/ CloseStart
      BY <1>3, <2>1 DEF DispatchAccepted, DispatchRecv, RecvPop, CloseStart, Emptied, Typed, TypeOK
  <2>2. CASE ~(DispatchAccepted \/ DispatchRecv \/ RecvPop \/ CloseStart)
    <3>1. conn_recv' = conn_recv
        BY <2>2 DEF Next, Modem, Connect, PeerSends, PeerCloses, Parser, ParserBegin, Announce, DispatchClosed,
                    Sshd, Accept, RecvStart, Recv, RecvEnough, RecvMore, SendStart, SendDone,
                    CloseDone, vars
    <3> QED BY <3>1
  <2> QED BY <2>1, <2>2
<1>8. link'[i] = link[i]
  <2>1. ASSUME NEW j \in Conn, Connect(j) PROVE link'[i] = link[i]
      BY <2>1 DEF Connect, Typed, TypeOK
  <2>2. ASSUME NEW j, LinkEnds(j) PROVE link'[i] = link[i]
      BY <1>1, <2>2 DEF LinkEnds, Typed, TypeOK
  <2>3. CASE ~(\E j \in Conn : Connect(j) \/ PeerCloses(j)) /\ ~LinkEnds(fd)
    <3>1. link' = link
        BY <2>3 DEF Next, Modem, PeerSends, Parser, ParserBegin, DispatchAccepted, Announce, DispatchClosed,
                    DispatchRecv, Sshd, Accept, RecvStart, Recv, RecvEnough, RecvMore, RecvPop, SendStart,
                    SendDone, CloseStart, CloseDone, vars, modemVars
    <3> QED BY <3>1
  <2> QED BY <2>1, <2>2, <2>3 DEF PeerCloses
<1> QED BY <1>1, <1>4, <1>5, <1>6, <1>7, <1>8 DEF Silent

LEMMA DrainedStep ==
    ASSUME Typed, Alternation, Numbered, EachAcceptedOnce, ReadAccepted, OneUser, Chain, Drained, [Next]_vars
    PROVE  Drained'
<1>1. ASSUME NEW n \in Sizes, RecvStart(n) PROVE Drained'
  <2>1. /\ pc = "serve" /\ fd' = fd /\ session' = session /\ fd \in Conn /\ session \in 1..MaxInc
        /\ inc' = inc /\ excuse' = excuse
      BY <1>1 DEF RecvStart, modemVars, connectVars, Typed, Serves
  <2> SUFFICES ASSUME result' = "ENOTCONN", Clean', inc'[fd] = session
               PROVE  pc' \in {"serve", "accept"} /\ Silent(fd)' /\ Whole(fd)'
      BY <2>1 DEF Drained
  <2>2. Clean /\ inc[fd] = session
      BY <2>1 DEF Clean
  <2>3. ~IsConn(fd)
      BY <1>1, <2>2 DEF RecvStart, Drained, Silent, IsConn
  <2>4. Silent(fd) /\ Whole(fd)
      BY <2>1, <2>2, <2>3, DrainedNow DEF OneUser, Chain
  <2>5. pc' = pc /\ UNCHANGED <<modemVars, rx, parserVars, conn_recv, recv_buff, fd, session, read>>
      BY <1>1, <2>3 DEF RecvStart
  <2> QED BY <2>1, <2>4, <2>5 DEF Silent, Whole, Line, OnLine, PreRange, Queued, modemVars, parserVars, Current
<1>2. CASE \A n \in Sizes : ~RecvStart(n)
  <2> SUFFICES ASSUME result' = "ENOTCONN"
               PROVE  /\ fd' \in Conn /\ session' \in 1..MaxInc
                      /\ Clean' /\ inc'[fd'] = session' =>
                            pc' \in {"serve", "accept"} /\ Silent(fd)' /\ Whole(fd)'
      BY DEF Drained
  <2>1. /\ result = "ENOTCONN" /\ fd' = fd /\ session' = session /\ ~Accept /\ ~RecvEnough
    <3>1. ~Accept /\ ~RecvEnough
        BY DEF Accept, RecvEnough
    <3> QED BY <1>2, <3>1 DEF Next, Modem, Connect, PeerSends, PeerCloses, Parser, ParserBegin, DispatchAccepted,
                  Announce, DispatchClosed, DispatchRecv, Sshd, Recv, RecvMore, RecvPop, SendStart,
                  SendDone, CloseStart, CloseDone, vars, taskVars
  <2>2. fd \in Conn /\ session \in 1..MaxInc
      BY <2>1 DEF Drained
  <2> SUFFICES ASSUME Clean', inc'[fd] = session
               PROVE  pc' \in {"serve", "accept"} /\ Silent(fd)' /\ Whole(fd)'
      BY <2>1, <2>2
  <2>3. PICK i \in Conn : i = fd
      BY <2>2
  <2>4. ~Connect(i)
    <3>1. session <= inc[i] /\ inc[i] \in Nat /\ session \in Nat
        BY <2>2, <2>3, SessionMade, CountTypes DEF Typed
    <3>2. Connect(i) => inc'[i] = inc[i] + 1
        BY DEF Connect, Typed, TypeOK
    <3> QED BY <2>3, <3>1, <3>2
  <2>5. inc'[i] = inc[i] /\ Current' = Current
    <3>1. ~Connect(i) => inc'[i] = inc[i]
      <4>1. CASE ~PeerSends(i)
          BY <2>4, <4>1, LatestSame
      <4> QED BY <4>1, SendsReport
    <3> QED BY <2>1, <2>4, <3>1 DEF Current
  <2>6. pc \in {"serve", "accept"} /\ Silent(i) /\ Whole(i)
      BY <2>1, <2>3, <2>5, CleanBefore DEF Drained
  <2>7. ~IsConn(fd) /\ link[i] = 0
      BY <2>3, <2>6 DEF Silent, IsConn
  <2>8. pc' \in {"serve", "accept"} /\ read' = read /\ recv_buff' = recv_buff
      BY <1>2, <2>1, <2>6, <2>7
         DEF Next, Modem, Connect, PeerSends, PeerCloses, Parser, ParserBegin, DispatchAccepted,
             Announce, DispatchClosed, DispatchRecv, Sshd, Recv, RecvMore, RecvPop, SendStart,
             SendDone, CloseStart, CloseDone, vars, taskVars
  <2>9. conn_recv[i] = <<>> /\ ~RecvPop
      BY <2>6 DEF RecvPop, Silent
  <2>10. Silent(i)'
    <3>1. CASE CloseStart
      <4>1. UNCHANGED <<modemVars, rx, parserVars, conn_recv>>
          BY <2>7, <3>1 DEF CloseStart
      <4> QED BY <2>6, <4>1 DEF Silent, Line, OnLine, PreRange, Queued, modemVars, parserVars
    <3>2. CASE ~CloseStart
        BY <2>4, <2>6, <2>9, <3>2, SilentStep
    <3> QED BY <3>1, <3>2
  <2>11. chunks'[Current] = chunks[Current]
    <3>1. Current = Latest(i) /\ Latest(i) \in Made
        BY <2>1, <2>2, <2>3, <2>5 DEF Latest, Current, Made
    <3>2. ~PeerSends(i)
        BY <2>7 DEF PeerSends
    <3> QED BY <2>4, <3>1, <3>2, LatestSame
  <2>12. Whole(i)'
      BY <2>5, <2>6, <2>8, <2>11 DEF Whole
  <2>13. \A j : j = fd => (Silent(j)' => Silent(fd)') /\ (Whole(j)' => Whole(fd)')
      BY <2>1 DEF Silent, Whole, Queued, PreRange, Line
  <2> QED BY <2>3, <2>8, <2>10, <2>12, <2>13
<1> QED BY <1>1, <1>2

LEMMA DrainedInit == Init => Drained
BY DEF Init, Drained

LEMMA DrainedWhole == ASSUME Typed, Drained PROVE OnlyReadAheadLost
<1> SUFFICES ASSUME excuse = {}, result = "ENOTCONN", inc[fd] = session
             PROVE  Len(read[Current]) + Len(recv_buff[fd]) = Extent(chunks[Current])
    BY DEF OnlyReadAheadLost, Current
<1>1. Whole(fd)
    BY DEF Drained, Clean
<1> QED BY <1>1 DEF Whole

(* Whoever sees ENOTCONN has read everything the peer sent but for what was *)
(* read ahead: is_sock_conn looks at the queue as well as at conn_state,    *)
(* which the parser clears while payloads may still be queued, and looks    *)
(* past recv_buff (espsock.c:27-35 and 134, parser.c:409-413).              *)
THEOREM AllButReadAhead == Spec => []OnlyReadAheadLost
<1>1. Init => /\ Numbered /\ EachAcceptedOnce /\ PiecesOrdered /\ ReadAccepted /\ OneUser /\ NotYet /\ Chain
              /\ Drained
    BY NumberedInit, OnceInit, PiecesInit, BytesInit, SingleInit, NotYetInit, ChainInit, DrainedInit
<1>2. Typed /\ Alternation /\ Numbered /\ EachAcceptedOnce /\ PiecesOrdered /\ ReadAccepted /\ OneUser /\ NotYet
        /\ Chain /\ Drained /\ [Next]_vars
        => (Numbered /\ EachAcceptedOnce /\ PiecesOrdered /\ ReadAccepted /\ OneUser /\ NotYet /\ Chain
            /\ Drained)'
    BY NumberedStep, OnceStep, PiecesStep, ReadAcceptedStep, SingleStep, NotYetStep, ChainStep, DrainedStep
<1>3. Typed /\ Drained => OnlyReadAheadLost
    BY DrainedWhole
<1> QED BY <1>1, <1>2, <1>3, TypeInit, TypeStep, AltInit, AltStep, PTL DEF Spec

-----------------------------------------------------------------------------
(* Each connection is a ByteStream: handing out bytes is a read of it, a     *)
(* payload on the line a send, everything else nothing.                     *)
UpTo(n) == [p \in 1..n |-> p]

LEMMA UpToLength == ASSUME NEW n \in Nat PROVE Len(UpTo(n)) = n
<1>1. UpTo(n) \in [1..n -> Nat]
    BY DEF UpTo
<1>2. UpTo(n) \in Seq(Nat)
    BY <1>1, SeqDef
<1> QED BY <1>1, <1>2, LenProperties DEF UpTo

LEMMA ReadBytes ==
    ASSUME Typed, Own
    PROVE  readBytes = [c \in Made |-> UpTo(Len(read[c]))]
<1>1. ASSUME NEW c \in Made, NEW p \in 1..Len(read[c])
      PROVE  read[c][p].inc = c[2] /\ read[c][p].pos = p
  <2>1. read[c][p] = Byte(c[2], p)
      BY <1>1 DEF Own
  <2> QED BY <2>1 DEF Byte
<1>2. ASSUME NEW c \in Made
      PROVE  [p \in 1..Len(read[c]) |-> IF read[c][p].inc = c[2] THEN read[c][p].pos ELSE 0] = UpTo(Len(read[c]))
    BY <1>1 DEF UpTo
<1> QED BY <1>2 DEF readBytes

LEMMA StreamInit == Init => Stream!Init
<1> SUFFICES ASSUME Init PROVE Stream!Init
    OBVIOUS
<1>1. \A c \in Made : Extent(chunks[c]) = 0
    BY Extents DEF Init
<1>2. \A c \in Made : [p \in 1..Len(read[c]) |-> IF read[c][p].inc = c[2] THEN read[c][p].pos ELSE 0] = <<>>
    BY DEF Init
<1> QED BY <1>1, <1>2 DEF Stream!Init, sentBytes, readBytes

LEMMA StreamSends ==
    ASSUME Typed, Numbered, NEW i \in Conn, PeerSends(i) PROVE \E c \in Made : Stream!Sends(c)
<1>1. PICK c : c = <<i, inc[i]>>
    OBVIOUS
<1>2. c \in Made /\ chunks' = [chunks EXCEPT ![c] = chunks[c] + 1] /\ read' = read
  <2>1. read' = read
      BY DEF PeerSends, taskVars
  <2> QED BY <1>1, <2>1, SendsReport
<1>3. chunks[c] \in Nat /\ chunks \in [Made -> 0..MaxChunk]
    BY <1>2, SockAssumption DEF Typed, TypeOK
<1>4. /\ Extent(chunks[c]) \in Nat /\ Extent(chunks[c] + 1) \in Nat
      /\ Extent(chunks[c]) <= Extent(chunks[c] + 1)
    BY <1>3, Extents
<1>5. sentBytes[c] = Extent(chunks[c])
    BY <1>2 DEF sentBytes
<1>6. sentBytes' = [sentBytes EXCEPT ![c] = Extent(chunks[c] + 1)]
  <2>1. sentBytes' = [d \in Made |-> Extent(chunks'[d])]
      BY DEF sentBytes, Extent
  <2>2. \A d \in Made : chunks'[d] = IF d = c THEN chunks[c] + 1 ELSE chunks[d]
      BY <1>2, <1>3
  <2>3. \A d \in Made : Extent(chunks'[d]) = IF d = c THEN Extent(chunks[c] + 1) ELSE Extent(chunks[d])
      BY <2>2
  <2> QED BY <1>2, <2>1, <2>3 DEF sentBytes
<1>7. sentBytes'[c] = Extent(chunks[c] + 1)
    BY <1>2, <1>6 DEF sentBytes
<1>8. readBytes' = readBytes
    BY <1>2 DEF readBytes
<1>9. Extent(chunks[c] + 1) \in sentBytes[c]..sentBytes'[c]
    BY <1>4, <1>5, <1>7
<1>10. Stream!Sends(c)
    BY <1>6, <1>8, <1>9 DEF Stream!Sends
<1> QED BY <1>2, <1>10

LEMMA StreamReads ==
    ASSUME Typed, Own, Own', NEW n \in Nat, n <= Len(recv_buff[fd]), HandOut(n), pc = "recv", Current' = Current,
           Typed', chunks' = chunks, Single(fd), NEW g \in Nat, Held(fd, g), Got(fd, g)
    PROVE  (\E c \in Made : Stream!Reads(c)) \/ UNCHANGED <<sentBytes, readBytes>>
<1>1. /\ fd \in Conn /\ Current \in Made
      /\ Len(read'[Current]) = Len(read[Current]) + n
      /\ Len(read[Current]) \in Nat /\ Len(recv_buff[fd]) \in Nat
      /\ Len(read[Current]) + Len(recv_buff[fd]) = Extent(g)
      /\ \A c \in Made : c # Current => read'[c] = read[c]
    BY GotOut
<1>2. Current = Latest(fd)
    BY DEF Single, ServesLatest, Serving, Latest, Current
<1>3. g <= chunks[Current] /\ chunks[Current] \in Nat
  <2>1. chunks[Current] \in Nat
      BY <1>1, SockAssumption DEF Typed, TypeOK
  <2>2. g + Len(conn_recv[fd]) <= chunks[Current] /\ Len(conn_recv[fd]) \in Nat
      BY <1>1, <1>2, QueueTypes DEF Held, Left, Typed
  <2> QED BY <2>1, <2>2
<1>4. Extent(g) <= Extent(chunks[Current]) /\ Extent(g) \in Nat /\ Extent(chunks[Current]) \in Nat
    BY <1>3, Extents
<1>5. sentBytes' = sentBytes /\ sentBytes[Current] = Extent(chunks[Current])
    BY <1>1 DEF sentBytes, Extent
<1>6. readBytes = [c \in Made |-> UpTo(Len(read[c]))]
    BY ReadBytes
<1>7. readBytes' = [c \in Made |-> UpTo(Len(read'[c]))]
  <2>1. (Typed /\ Own => readBytes = [c \in Made |-> UpTo(Len(read[c]))])'
      BY ReadBytes, PTL
  <2> QED BY <2>1 DEF UpTo
<1>8. PICK m : m = Len(read[Current]) + n
    OBVIOUS
<1>9. readBytes' = [readBytes EXCEPT ![Current] = UpTo(m)]
  <2>1. \A c \in Made : UpTo(Len(read'[c])) = IF c = Current THEN UpTo(m) ELSE UpTo(Len(read[c]))
      BY <1>1, <1>8
  <2> QED BY <1>6, <1>7, <2>1
<1>10. Len(readBytes[Current]) = Len(read[Current])
    BY <1>1, <1>6, UpToLength
<1>11. CASE n = 0
  <2>1. m = Len(read[Current]) /\ readBytes[Current] = UpTo(m)
      BY <1>1, <1>6, <1>8, <1>11
  <2> QED BY <1>1, <1>5, <1>6, <1>9, <2>1
<1>12. CASE n # 0
  <2>1. m \in (Len(readBytes[Current]) + 1)..sentBytes[Current]
    <3>1. \A a, b, l, e \in Nat : n <= b /\ l + b = e /\ e <= a => l + n \in (l + 1)..a
        BY <1>12
    <3>2. Len(read[Current]) + n \in (Len(read[Current]) + 1)..Extent(chunks[Current])
        BY <1>1, <1>4, <3>1
    <3> QED BY <1>5, <1>8, <1>10, <3>2
  <2>2. Stream!Reads(Current)
      BY <1>5, <1>9, <2>1 DEF Stream!Reads, UpTo
  <2> QED BY <1>1, <2>2
<1> QED BY <1>11, <1>12

LEMMA StreamStep ==
    ASSUME Typed, Typed', Numbered, OneUser, Chain, Clean, OwnBytes, OwnBytes', Clean', [Next]_vars
    PROVE  [Stream!Next]_(Stream!vars)
<1>1. (\E c \in Made : Stream!Sends(c) \/ Stream!Reads(c)) \/ UNCHANGED <<sentBytes, readBytes>>
  <2>1. ASSUME NEW i \in Conn, PeerSends(i) PROVE \E c \in Made : Stream!Sends(c)
      BY <2>1, StreamSends
  <2>2. CASE RecvEnough \/ RecvMore
    <3>1. /\ pc = "recv" /\ Current' = Current /\ fd \in Conn /\ chunks' = chunks
          /\ Len(recv_buff[fd]) \in Nat /\ Len(recv_buff[fd]) <= Len(recv_buff[fd])
        BY <2>2, ByteTypes DEF RecvEnough, RecvMore, Current, modemVars
    <3>2. PICK n \in Nat : n <= Len(recv_buff[fd]) /\ HandOut(n)
        BY <2>2, <3>1 DEF RecvEnough, RecvMore, Typed, TypeOK
    <3>3. PICK g \in Nat : Held(fd, g) /\ Got(fd, g)
        BY <3>1 DEF Chain, KeepsUp, ServedHeld, Serving
    <3>4. Single(fd) /\ Own /\ Own'
        BY <3>1 DEF OneUser, OwnBytes, Clean
    <3> QED BY <3>1, <3>2, <3>3, <3>4, StreamReads
  <2>3. CASE ~RecvEnough /\ ~RecvMore /\ \A i \in Conn : ~PeerSends(i)
    <3>1. read' = read /\ chunks' = chunks
        BY <2>3 DEF Next, Modem, Connect, PeerCloses, Parser, ParserBegin, DispatchAccepted,
                  Announce, DispatchClosed, DispatchRecv, Sshd, Accept, RecvStart, Recv, RecvPop, SendStart,
                  SendDone, CloseStart, CloseDone, vars, taskVars, modemVars
    <3> QED BY <3>1 DEF sentBytes, readBytes
  <2> QED BY <2>1, <2>2, <2>3
<1> QED BY <1>1 DEF Stream!Next, Stream!vars

(* As long as no id is taken again too early, the socket layer is a           *)
(* ByteStream for every connection: parser.c:400-420 and sock_recv together  *)
(* only ever lengthen what is read, and by the bytes sent next.             *)
THEOREM StreamImplemented == Spec /\ []Clean => ImplementsStream
<1>1. Init => /\ Numbered /\ EachAcceptedOnce /\ PiecesOrdered /\ ReadAccepted /\ OneUser /\ NotYet /\ Chain
              /\ OwnBytes
    BY NumberedInit, OnceInit, PiecesInit, BytesInit, SingleInit, NotYetInit, ChainInit, OwnInit
<1>2. Typed /\ Alternation /\ Numbered /\ EachAcceptedOnce /\ PiecesOrdered /\ ReadAccepted /\ OneUser /\ NotYet
        /\ Chain /\ OwnBytes /\ [Next]_vars
        => (Numbered /\ EachAcceptedOnce /\ PiecesOrdered /\ ReadAccepted /\ OneUser /\ NotYet /\ Chain
            /\ OwnBytes)'
    BY NumberedStep, OnceStep, PiecesStep, ReadAcceptedStep, SingleStep, NotYetStep, ChainStep, OwnStep
<1>3. Typed /\ Typed' /\ Numbered /\ OneUser /\ Chain /\ Clean /\ OwnBytes /\ OwnBytes' /\ Clean' /\ [Next]_vars
        => [Stream!Next]_(Stream!vars)
    BY StreamStep
<1> QED BY <1>1, <1>2, <1>3, TypeInit, TypeStep, AltInit, AltStep, StreamInit, PTL DEF Spec, ImplementsStream, Stream!Spec

(* An id that is connected for the first time is in nobody's use.            *)
LEMMA CleanOnce ==
    ASSUME MaxInc <= 1, Typed, Numbered, EachAcceptedOnce, ReadAccepted, BytesOrdered, Clean, [Next]_vars
    PROVE  Clean'
<1>1. ASSUME NEW i \in Conn, Connect(i) PROVE Clean'
  <2>1. inc[i] = 0
      BY <1>1, ConnectCounts, SockAssumption DEF Typed
  <2>2. ~(fd = i /\ pc # "accept")
    <3> SUFFICES ASSUME fd = i, pc # "accept" PROVE FALSE
        OBVIOUS
    <3>1. session \in 1..MaxInc /\ session <= inc[fd]
        BY SessionMade DEF Typed, Serves
    <3> QED BY <2>1, <3>1, SockAssumption
  <2>3. \A p \in Line : OnLine(p).id # i
    <3> SUFFICES ASSUME NEW p \in Line, OnLine(p).id = i PROVE FALSE
        OBVIOUS
    <3>1. OnLine(p) \in Reports \cup {NoMsg} /\ OnLine(p) # NoMsg
        BY LineTypes, SockAssumption DEF Typed, NoMsg, Report
    <3>2. OnLine(p).inc \in 1..MaxInc /\ OnLine(p).inc <= inc[i]
        BY <3>1 DEF Reports, Pieces, Numbered
    <3> QED BY <2>1, <3>2, SockAssumption
  <2>4. pmsg.id # i /\ \A p \in 1..Len(rx) : rx[p].id # i
    <3>1. 0 \in Line /\ OnLine(0) = pmsg /\ \A p \in 1..Len(rx) : p \in Line /\ OnLine(p) = rx[p]
        BY LineTypes DEF Line, OnLine, Typed
    <3> QED BY <2>3, <3>1
  <2>5. \A k \in 1..Len(preacc) : preacc[k][1] # i
    <3> SUFFICES ASSUME NEW k \in 1..Len(preacc), preacc[k][1] = i PROVE FALSE
        OBVIOUS
    <3>1. /\ Len(accepted) \in Nat /\ Len(preacc) \in Nat /\ Len(connects) \in Nat
          /\ Len(Announced) = Len(accepted) + Len(preacc)
          /\ \A n \in 1..Len(preacc) : Announced[Len(accepted) + n] = preacc[n]
        BY Lengths DEF Typed
    <3>2. Len(Announced) <= Len(connects) /\ \A n \in 1..Len(Announced) : connects[n] = Announced[n]
        BY DEF EachAcceptedOnce
    <3>3. PICK l \in 1..Len(connects) : connects[l] = preacc[k]
      <4>1. Len(accepted) + k \in 1..Len(Announced) /\ Len(accepted) + k \in 1..Len(connects)
          BY <3>1, <3>2
      <4> QED BY <3>1, <3>2, <4>1
    <3>4. connects[l] \in Made /\ connects[l][2] <= inc[i]
        BY <3>3, ElementOfSeq DEF Numbered, Typed, TypeOK
    <3>5. connects[l][2] \in 1..MaxInc
        BY <3>4 DEF Made
    <3> QED BY <2>1, <3>4, <3>5, SockAssumption
  <2>6. recv_buff[i] = <<>>
    <3> SUFFICES ASSUME recv_buff[i] # <<>> PROVE FALSE
        OBVIOUS
    <3>1. recv_buff[i] \in Seq(Bytes) /\ Len(recv_buff[i]) \in Nat
        BY ByteTypes
    <3>2. 1 \in 1..Len(recv_buff[i])
        BY <3>1, EmptySeq
    <3>3. recv_buff[i][1] \in Bytes /\ recv_buff[i][1].inc <= inc[i]
        BY <3>2, ByteTypes DEF BytesOrdered, BuffFollows, Follows, SentByte
    <3> QED BY <2>1, <3>3, SockAssumption DEF Bytes
  <2> QED BY <1>1, <2>2, <2>4, <2>5, <2>6 DEF Connect, Excuses, InUse, Clean
<1>2. CASE ~\E i \in Conn : Connect(i)
  <2>1. excuse' = excuse
      BY <1>2 DEF Next, Modem, PeerSends, PeerCloses, Parser, ParserBegin, DispatchAccepted,
                  Announce, DispatchClosed, DispatchRecv, Sshd, Accept, RecvStart, Recv, RecvEnough, RecvMore,
                  RecvPop, SendStart, SendDone, CloseStart, CloseDone, vars, connectVars
  <2> QED BY <2>1 DEF Clean
<1> QED BY <1>1, <1>2

(* Ids that are connected once each are never taken again: the condition     *)
(* holds.                                                                   *)
THEOREM CleanAlways == ASSUME MaxInc <= 1 PROVE Spec => []Clean
<1>1. Init => Numbered /\ EachAcceptedOnce /\ PiecesOrdered /\ BytesOrdered /\ ReadAccepted /\ InOrder /\ Clean
    BY NumberedInit, OnceInit, PiecesInit, BytesInit DEF Init, Clean
<1>2. Typed /\ Alternation /\ Numbered /\ EachAcceptedOnce /\ PiecesOrdered /\ BytesOrdered /\ ReadAccepted
        /\ InOrder /\ Clean /\ [Next]_vars
        => (Numbered /\ EachAcceptedOnce /\ PiecesOrdered /\ BytesOrdered /\ ReadAccepted /\ InOrder /\ Clean)'
    BY NumberedStep, OnceStep, PiecesStep, BytesStep, ReadAcceptedStep, CleanOnce
<1> QED BY <1>1, <1>2, TypeInit, TypeStep, AltInit, AltStep, PTL DEF Spec

(* With every id connected once, as in the run, the socket layer is a        *)
(* ByteStream (espsock.c:131-193, parser.c:400-420).                        *)
THEOREM StreamOnce == ASSUME MaxInc <= 1 PROVE Spec => ImplementsStream
BY CleanAlways, StreamImplemented, PTL
=============================================================================
