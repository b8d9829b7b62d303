------------------------------ MODULE EspSock ------------------------------
(***************************************************************************)
(* The socket layer (User/esp/espsock.c) between the parser task and the   *)
(* sshd task (Task/tcp_sshd_task.c), with the connection part of           *)
(* atc_dispatch (User/esp/parser.c).                                       *)
(*                                                                         *)
(* The modem reports connections, payloads and closes of all connections   *)
(* on one line (rx).  The parser task dispatches them one by one and       *)
(* blocks when a queue is full.  The sshd task accepts a connection, reads *)
(* and writes it, closes it and accepts the next.  A report carries, for   *)
(* the properties only, the incarnation of the connection it is about; the *)
(* name of a payload is its number among that incarnation's, and of a byte *)
(* its position in that incarnation's stream.                              *)
(***************************************************************************)
EXTENDS Naturals, Sequences

CONSTANTS
    Conn,       \* connection ids (0..4 in the code)
    NoFd,       \* no connection
    QLEN,       \* depth of conn_recv[id] (20 in the code)
    ACCLEN,     \* depth of conn_preaccepted (20 in the code)
    Sizes,      \* sizes sock_recv is asked for
    MaxInc,     \* bound: incarnations of a connection id
    MaxChunk,   \* bound: payloads per incarnation
    ChunkLen,   \* bytes in a payload
    MaxSend     \* bound: sock_send calls

ASSUME SockAssumption ==
    /\ QLEN \in Nat \ {0} /\ ACCLEN \in Nat \ {0}
    /\ Sizes \subseteq Nat \ {0} /\ NoFd \notin Conn
    /\ MaxInc \in Nat /\ MaxChunk \in Nat /\ ChunkLen \in Nat \ {0} /\ MaxSend \in Nat

VARIABLES
    link,        \* modem: incarnation of each id that is connected, 0 if none
    inc,         \* modem: incarnations so far
    chunks,      \* modem: payloads of each connection so far
    rx,          \* reports on the line, not yet parsed
    pmsg,        \* report the parser is dispatching, or NoMsg
    conn_state,  \* parser: is the id connected
    preacc,      \* conn_preaccepted
    conn_recv,   \* queue of payloads per id
    recv_buff,   \* esk_recv_buff: bytes popped from the queue and not yet read
    pc,          \* where the sshd task is
    fd,          \* the connection it serves
    need,        \* bytes sock_recv still needs
    result,      \* how the last sock_recv ended
    session,     \* history: the incarnation the sshd task believes it serves
    read,        \* bytes put in the sshd task's buffer, per connection made
    accepted,    \* history: sessions accepted, in order
    connects,    \* history: connections made, in order
    excuse,      \* history: what an id that was taken again was still in use for
    alive,       \* history: payloads whose buffers are allocated and not deleted
    sends        \* history: sock_send calls

modemVars  == <<link, inc, chunks>>
parserVars == <<pmsg, conn_state, preacc>>
taskVars   == <<pc, fd, need, result, session, read, accepted, sends>>
connectVars == <<connects, excuse>>
vars == <<modemVars, rx, parserVars, conn_recv, recv_buff, taskVars, connectVars, alive>>

-----------------------------------------------------------------------------
(* Every connection that may be made: an id and its incarnation. *)
Made  == Conn \X (1..MaxInc)

Report(t, i, k, n) == [t |-> t, id |-> i, inc |-> k, n |-> n]
NoMsg == Report("none", NoFd, 0, 0)

Byte(k, p) == [inc |-> k, pos |-> p]
(* How many bytes the first n payloads of a connection have. *)
Extent(n)  == n * ChunkLen
Payload(m) == [j \in 1..ChunkLen |-> Byte(m.inc, Extent(m.n - 1) + j)]

Init ==
    /\ link = [i \in Conn |-> 0] /\ inc = [i \in Conn |-> 0]
    /\ chunks = [c \in Made |-> 0] /\ rx = <<>>
    /\ pmsg = NoMsg /\ conn_state = [i \in Conn |-> FALSE] /\ preacc = <<>>
    /\ conn_recv = [i \in Conn |-> <<>>] /\ recv_buff = [i \in Conn |-> <<>>]
    /\ pc = "accept" /\ fd = NoFd /\ need = 0 /\ result = "none"
    /\ session = 0 /\ read = [c \in Made |-> <<>>] /\ accepted = <<>>
    /\ connects = <<>> /\ excuse = {}
    /\ alive = {} /\ sends = 0

-----------------------------------------------------------------------------
(* The modem and the peers (external). *)

(* The server still deals with the id: serves it, is to accept it, or has   *)
(* reports about it to read.                                                *)
InUse(i) ==
    \/ fd = i /\ pc # "accept"
    \/ pmsg.id = i \/ \E p \in 1..Len(rx) : rx[p].id = i
    \/ \E k \in 1..Len(preacc) : preacc[k][1] = i

Excuses(i) == (IF InUse(i) THEN {"retaken"} ELSE {})
              \cup (IF recv_buff[i] = <<>> THEN {} ELSE {"leftover"})

Connect(i) ==
    /\ link[i] = 0 /\ inc[i] < MaxInc
    /\ excuse' = excuse \cup Excuses(i)
    /\ inc' = [inc EXCEPT ![i] = @ + 1] /\ link' = [link EXCEPT ![i] = inc[i] + 1]
    /\ rx' = Append(rx, Report("connect", i, inc[i] + 1, 0))
    /\ connects' = Append(connects, <<i, inc[i] + 1>>)
    /\ UNCHANGED <<chunks, parserVars, conn_recv, recv_buff, taskVars, alive>>

PeerSends(i) ==
    /\ link[i] # 0
    /\ LET c == <<i, link[i]>> IN
          /\ chunks[c] < MaxChunk
          /\ chunks' = [chunks EXCEPT ![c] = @ + 1]
          /\ rx' = Append(rx, Report("recv", i, link[i], chunks[c] + 1))
    /\ UNCHANGED <<link, inc, parserVars, conn_recv, recv_buff, taskVars, connectVars, alive>>

LinkEnds(i) ==
    /\ link[i] # 0 /\ link' = [link EXCEPT ![i] = 0]
    /\ rx' = Append(rx, Report("closed", i, link[i], 0))

PeerCloses(i) ==
    /\ LinkEnds(i)
    /\ UNCHANGED <<inc, chunks, parserVars, conn_recv, recv_buff, taskVars, connectVars, alive>>

-----------------------------------------------------------------------------
(* The parser task: atc_dispatch.  The payload's buffer exists from the     *)
(* moment the report is parsed.                                             *)

ParserBegin ==
    /\ pmsg = NoMsg /\ rx # <<>>
    /\ pmsg' = Head(rx) /\ rx' = Tail(rx)
    /\ alive' = IF Head(rx).t = "recv" THEN alive \cup {Head(rx)} ELSE alive
    /\ UNCHANGED <<modemVars, conn_state, preacc, conn_recv, recv_buff, taskVars, connectVars>>

(* xQueueReset, and the loop that drains a queue in sock_close. *)
EmptiedNot(i) == conn_recv                               \* mutant
Emptied(i)    == [conn_recv EXCEPT ![i] = <<>>]

(* An id already connected is ignored; otherwise its queue is emptied and   *)
(* the id announced, as soon as conn_preaccepted has room.                  *)
DispatchAccepted ==
    /\ pmsg.t = "connect"
    /\ IF conn_state[pmsg.id]
       THEN pmsg' = NoMsg /\ UNCHANGED <<conn_state, conn_recv>>
       ELSE /\ conn_state' = [conn_state EXCEPT ![pmsg.id] = TRUE]
            /\ conn_recv'  = Emptied(pmsg.id)
            /\ pmsg' = [pmsg EXCEPT !.t = "announce"]
    /\ UNCHANGED <<modemVars, rx, preacc, recv_buff, taskVars, connectVars, alive>>

Announce ==
    /\ pmsg.t = "announce" /\ Len(preacc) < ACCLEN
    /\ preacc' = Append(preacc, <<pmsg.id, pmsg.inc>>) /\ pmsg' = NoMsg
    /\ UNCHANGED <<modemVars, rx, conn_state, conn_recv, recv_buff, taskVars, connectVars, alive>>

DispatchClosedStale ==                                   \* mutant
    /\ pmsg.t = "closed" /\ pmsg' = NoMsg
    /\ UNCHANGED <<modemVars, rx, conn_state, preacc, conn_recv, recv_buff, taskVars, connectVars, alive>>

DispatchClosedWaits ==                                   \* mutant
    /\ pmsg.t = "closed" /\ conn_recv[pmsg.id] = <<>> /\ pmsg' = NoMsg
    /\ conn_state' = [conn_state EXCEPT ![pmsg.id] = FALSE]
    /\ UNCHANGED <<modemVars, rx, preacc, conn_recv, recv_buff, taskVars, connectVars, alive>>

DispatchClosed ==
    /\ pmsg.t = "closed" /\ pmsg' = NoMsg
    /\ conn_state' = [conn_state EXCEPT ![pmsg.id] = FALSE]
    /\ UNCHANGED <<modemVars, rx, preacc, conn_recv, recv_buff, taskVars, connectVars, alive>>

QueueHasRoom(i) == Len(conn_recv[i]) < QLEN

DispatchRecv ==
    /\ pmsg.t = "recv" /\ QueueHasRoom(pmsg.id) /\ pmsg' = NoMsg
    /\ conn_recv' = [conn_recv EXCEPT ![pmsg.id] = Append(@, pmsg)]
    /\ UNCHANGED <<modemVars, rx, conn_state, preacc, recv_buff, taskVars, connectVars, alive>>

-----------------------------------------------------------------------------
(* The sshd task. *)

(* is_sock_conn *)
IsConnByState(i) == conn_state[i]                        \* mutant
IsConn(i) == conn_state[i] \/ conn_recv[i] # <<>>

(* sock_accept, blocking *)
Accept ==
    /\ pc = "accept" /\ preacc # <<>>
    /\ fd' = Head(preacc)[1] /\ session' = Head(preacc)[2] /\ preacc' = Tail(preacc)
    /\ accepted' = Append(accepted, Head(preacc))
    /\ pc' = "serve" /\ result' = "none"
    /\ UNCHANGED <<modemVars, rx, pmsg, conn_state, conn_recv, recv_buff,
                   need, read, sends, connectVars, alive>>

(* sock_recv: the check, then rounds of "hand out, pop the next payload".   *)
RecvStart(n) ==
    /\ pc = "serve"
    /\ IF IsConn(fd) THEN pc' = "recv" /\ need' = n /\ UNCHANGED result
                     ELSE result' = "ENOTCONN" /\ UNCHANGED <<pc, need>>
    /\ UNCHANGED <<modemVars, rx, parserVars, conn_recv, recv_buff, fd,
                   session, read, accepted, sends, connectVars, alive>>

HandOut(n) ==
    read' = [read EXCEPT ![<<fd, session>>] = @ \o SubSeq(recv_buff[fd], 1, n)]

RestOverlap(q) == SubSeq(q, need, Len(q))                \* mutant
Rest(q)        == SubSeq(q, need + 1, Len(q))

RecvEnough ==
    /\ pc = "recv" /\ need <= Len(recv_buff[fd])
    /\ HandOut(need)
    /\ recv_buff' = [recv_buff EXCEPT ![fd] = Rest(@)]
    /\ result' = "received" /\ need' = 0 /\ pc' = "serve"
    /\ UNCHANGED <<modemVars, rx, parserVars, conn_recv, fd, session, accepted,
                   sends, connectVars, alive>>

(* recv_buff keeps the bytes it has just given away until the next payload  *)
(* arrives, which may be never.                                             *)
RecvMore ==
    /\ pc = "recv" /\ need > Len(recv_buff[fd])
    /\ HandOut(Len(recv_buff[fd]))
    /\ need' = need - Len(recv_buff[fd]) /\ pc' = "pop"
    /\ UNCHANGED <<modemVars, rx, parserVars, conn_recv, recv_buff, fd, result,
                   session, accepted, sends, connectVars, alive>>

RecvPop ==
    /\ pc = "pop" /\ conn_recv[fd] # <<>>
    /\ recv_buff' = [recv_buff EXCEPT ![fd] = Payload(Head(conn_recv[fd]))]
    /\ conn_recv' = [conn_recv EXCEPT ![fd] = Tail(@)]
    /\ alive' = alive \ {Head(conn_recv[fd])} /\ pc' = "recv"
    /\ UNCHANGED <<modemVars, rx, parserVars, fd, need, result, session,
                   read, accepted, sends, connectVars>>

(* sock_send: the data path is AtLink's; here it waits for the line.        *)
SendStart ==
    /\ pc = "serve" /\ sends < MaxSend /\ sends' = sends + 1
    /\ pc' = IF IsConn(fd) THEN "send" ELSE pc
    /\ UNCHANGED <<modemVars, rx, parserVars, conn_recv, recv_buff, fd, need,
                   result, session, read, accepted, connectVars, alive>>

(* atc_consume_cmd_ready: never while a report is being parsed.             *)
LineFree == pmsg = NoMsg

SendDone ==
    /\ pc = "send" /\ LineFree /\ pc' = "serve"
    /\ UNCHANGED <<modemVars, rx, parserVars, conn_recv, recv_buff, fd, need,
                   result, session, read, accepted, sends, connectVars, alive>>

(* vstr_delete of every payload taken from the queue. *)
DeletedNone(i)  == {}                                    \* mutant
Deleted(i)      == {conn_recv[i][k] : k \in 1..Len(conn_recv[i])}

(* sock_close: an id that is no longer connected is left as it is.          *)
CloseStart ==
    /\ pc = "serve"
    /\ IF IsConn(fd)
       THEN /\ pc' = "close"
            /\ alive' = alive \ Deleted(fd)
            /\ conn_recv' = Emptied(fd)
            /\ recv_buff' = [recv_buff EXCEPT ![fd] = <<>>]
       ELSE pc' = "accept" /\ UNCHANGED <<alive, conn_recv, recv_buff>>
    /\ UNCHANGED <<modemVars, rx, parserVars, fd, need, result, session,
                   read, accepted, sends, connectVars>>

(* AT+CIPCLOSE reaches the modem, which closes the link if it still is open. *)
CloseDone ==
    /\ pc = "close" /\ LineFree /\ pc' = "accept"
    /\ \/ LinkEnds(fd)
       \/ link[fd] = 0 /\ UNCHANGED <<link, rx>>
    /\ UNCHANGED <<inc, chunks, parserVars, conn_recv, recv_buff, fd, need,
                   result, session, read, accepted, sends, connectVars, alive>>

-----------------------------------------------------------------------------
Modem  == \E i \in Conn : Connect(i) \/ PeerSends(i) \/ PeerCloses(i)
Parser == ParserBegin \/ DispatchAccepted \/ Announce \/ DispatchClosed \/ DispatchRecv
Recv   == RecvEnough \/ RecvMore \/ RecvPop
Sshd   == Accept \/ (\E n \in Sizes : RecvStart(n)) \/ Recv
          \/ SendStart \/ SendDone \/ CloseStart \/ CloseDone

Next == Modem \/ Parser \/ Sshd
Spec == Init /\ [][Next]_vars

(* Both tasks run when they can; which socket call the sshd task makes next *)
(* is the SSH layer's choice.                                               *)
FairSpec == Spec /\ WF_vars(Parser) /\ WF_vars(Recv)
                 /\ WF_vars(SendDone) /\ WF_vars(CloseDone) /\ WF_vars(Accept)

-----------------------------------------------------------------------------
Bytes   == [inc : 1..MaxInc, pos : Nat \ {0}]
Pieces  == [t : {"recv"}, id : Conn, inc : 1..MaxInc, n : 1..MaxChunk]
Reports == Pieces \cup [t : {"connect", "announce", "closed"}, id : Conn, inc : 1..MaxInc, n : {0}]

TypeOK ==
    /\ link \in [Conn -> 0..MaxInc] /\ inc \in [Conn -> 0..MaxInc]
    /\ chunks \in [Made -> 0..MaxChunk]
    /\ rx \in Seq(Reports) /\ pmsg \in Reports \cup {NoMsg}
    /\ conn_state \in [Conn -> BOOLEAN]
    /\ preacc \in Seq(Made) /\ Len(preacc) <= ACCLEN
    /\ conn_recv \in [Conn -> Seq(Pieces)]
    /\ \A i \in Conn : Len(conn_recv[i]) <= QLEN
    /\ recv_buff \in [Conn -> Seq(Bytes)]
    /\ pc \in {"accept", "serve", "recv", "pop", "send", "close"}
    /\ fd \in Conn \cup {NoFd} /\ need \in Nat
    /\ result \in {"none", "received", "ENOTCONN"}
    /\ session \in 0..MaxInc /\ read \in [Made -> Seq(Bytes)]
    /\ accepted \in Seq(Made) /\ connects \in Seq(Made) /\ excuse \subseteq {"retaken", "leftover"}
    /\ alive \subseteq Pieces /\ sends \in 0..MaxSend

(* The bytes handed to the sshd task come in the order they were sent and   *)
(* none twice, over payload boundaries, partial reads and reconnections     *)
(* (espsock.c:148-193).                                                     *)
Sooner(x, y) == x.inc < y.inc \/ (x.inc = y.inc /\ x.pos < y.pos)
InOrder ==
    \A c \in Made : \A a, b \in 1..Len(read[c]) : a < b => Sooner(read[c][a], read[c][b])

(* The bytes read of a connection are exactly the first ones its peer sent: *)
(* none is missing and none belongs to another user of the id, though the   *)
(* queues and recv_buff are shared by all of them.  It holds as long as no  *)
(* id is taken again while the server still deals with its earlier user or  *)
(* recv_buff still holds bytes of it (espsock.c:131-223, parser.c:400-420).  *)
Own == \A c \in Made : \A p \in 1..Len(read[c]) : read[c][p] = Byte(c[2], p)
OwnBytes == excuse = {} => Own

(* Connections are accepted once each, in the order they were made: those   *)
(* accepted, then those in the queue of sock_accept, then, in their order   *)
(* on the line, those the parser has still to announce (parser.c:400-407,   *)
(* espsock.c:86-98).                                                        *)
OnLine(p)    == IF p = 0 THEN pmsg ELSE rx[p]
Names(m, c)  == m.t \in {"connect", "announce"} /\ c = <<m.id, m.inc>>
Announced    == accepted \o preacc
EachAcceptedOnce ==
    LET later == (Len(Announced) + 1)..Len(connects)
        line  == 0..Len(rx) IN
    /\ Len(Announced) <= Len(connects)
    /\ \A k \in 1..Len(Announced) : connects[k] = Announced[k]
    /\ \A k \in later : \E p \in line : Names(OnLine(p), connects[k])
    /\ \A p \in line : OnLine(p).t \in {"connect", "announce"} =>
          \E k \in later : Names(OnLine(p), connects[k])
    /\ \A j, k \in later, p, q \in line :
          (Names(OnLine(p), connects[j]) /\ Names(OnLine(q), connects[k])) => (j < k <=> p < q)

(* Whoever sees ENOTCONN has read every byte the peer sent before it        *)
(* closed, but for those read ahead into recv_buff: the check looks at the   *)
(* state and the queue alone, and refuses them (espsock.c:27-35 and 134,     *)
(* parser.c:410-412).  With the exception of OwnBytes.                       *)
OnlyReadAheadLost ==
    (excuse = {} /\ result = "ENOTCONN" /\ inc[fd] = session) =>
        Len(read[<<fd, session>>]) + Len(recv_buff[fd]) = Extent(chunks[<<fd, session>>])

(* The comment at parser.h:39 makes the receiver of a payload responsible   *)
(* for deleting it.  What is queued or about to be queued is allocated; any *)
(* other buffer belongs to a connection whose id has been taken again, when *)
(* xQueueReset drops what is queued (parser.c:405).                         *)
Kept   == {m \in {pmsg} : m.t = "recv"} \cup UNION {Deleted(i) : i \in Conn}
NoLeak == Kept \subseteq alive /\ \A m \in alive \ Kept : m.inc < inc[m.id]

(* A command waiting for the line gets it, or never will: the parser holds  *)
(* the line until the message it dispatches has a place in its queue        *)
(* (parser.c:406, 419), and the only reader of the queues is the task that  *)
(* waits for the line (exec.c:243-245).                                     *)
Waiting  == pc \in {"send", "close"}
QueueFull == \/ pmsg.t = "recv" /\ ~QueueHasRoom(pmsg.id)
             \/ pmsg.t = "announce" /\ Len(preacc) = ACCLEN
LineComesFree == Waiting ~> ~Waiting \/ [](Waiting /\ QueueFull)

-----------------------------------------------------------------------------
(* Each connection is a ByteStream, as long as OwnBytes holds. *)
sentBytes == [c \in Made |-> Extent(chunks[c])]
readBytes == [c \in Made |-> [p \in 1..Len(read[c]) |->
                 IF read[c][p].inc = c[2] THEN read[c][p].pos ELSE 0]]
Stream == INSTANCE ByteStream WITH Conn <- Made, sent <- sentBytes, read <- readBytes
ImplementsStream == Stream!Spec
=============================================================================
