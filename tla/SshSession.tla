----------------------------- MODULE SshSession -----------------------------
(***************************************************************************)
(* One SSH session of the server: sshd_acpt (User/ssh/acpt_loop.c) through *)
(* its stages (s1_kexinit.c, s2_ecdh_init.c, s3_userauth.c, s4_openchnl.c, *)
(* sftp_parse.c), over the packet layer (packet.c) and the socket layer    *)
(* (espsock.c, here as seen by one connection).                            *)
(*                                                                         *)
(* A packet is two reads, its length field and the rest: two halves, which *)
(* the modem may report in one payload or in two.  Ciphers are abstracted  *)
(* to the sequence number a packet was sealed with: opening it with any    *)
(* other number makes the tag differ, which is an assertion, and a failed  *)
(* assertion loops for ever (log.h): the stage "stuck".                    *)
(*                                                                         *)
(* The client (external) is well behaved: it sends the messages of the     *)
(* protocol in order, may insert SSH_MSG_IGNORE, may ask for what the      *)
(* server does not offer, and may go away at any moment.                   *)
(***************************************************************************)
EXTENDS Naturals, Integers, Sequences, SequencesExt

CONSTANTS
    MaxIgnore,   \* bound: SSH_MSG_IGNORE messages
    MaxData,     \* bound: CHANNEL_DATA and WINDOW_ADJUST messages
    MayLeave,    \* the client may close its connection before it is served
    MayBreak     \* the connection may break in the middle of a packet

ASSUME SessionAssumption ==
    MaxIgnore \in Nat /\ MaxData \in Nat /\ MayLeave \in BOOLEAN /\ MayBreak \in BOOLEAN

VARIABLES
    stage,      \* where sshd_acpt is
    part,       \* which half of a packet it reads next
    waiting,    \* it is blocked in sock_recv
    c2s, s2c,   \* sequence numbers of the context
    i_c,        \* the payload taken for the client's KEXINIT
    done,       \* the flag through which every stage reports
    res,        \* result of sshd_acpt
    net,        \* halves on their way to the server
    conn_recv,  \* payloads reported and not popped
    recv_buff,  \* halves popped and not read
    conn_state, \* the modem has not reported the close
    link,       \* the connection as the client sees it: "open" or "closed"
    step,       \* client: messages of its script sent
    csent,      \* client: packets sent
    cgot,       \* client: packets received
    reply,      \* packets on their way to the client
    spoiled,    \* history: the client could not open a packet
    accepted,   \* history: messages that took the server on
    ignores, datas,  \* history: messages of these kinds sent
    early,      \* history: an IGNORE was sent before the client's NEWKEYS
    over        \* history: the client has said that it is done

server == <<stage, part, waiting, c2s, s2c, i_c, done, res, accepted>>
socket == <<conn_recv, recv_buff, conn_state>>
client == <<link, step, csent, cgot, spoiled, ignores, datas, early, over>>
vars   == <<server, socket, client, net, reply>>

-----------------------------------------------------------------------------
PLAIN     == -1    \* an unencrypted reply carries no number
FIRST_SEQ_TWO == 2                                         \* mutant
FIRST_SEQ == 3     \* what send_ecdh_reply sets the numbers to

Packet(t, n) == [type |-> t, seq |-> n]
Half(p, h)   == [of |-> p, half |-> h]

PlainStage  == {"version", "kexinit", "ecdh_init", "newkeys"}
SealedStage == {"service", "userauth", "openchannel", "chnlreq", "sftp"}

Init ==
    /\ stage = "hello" /\ part = "hdr" /\ waiting = FALSE
    /\ c2s = 0 /\ s2c = 0 /\ i_c = "none" /\ done = 0 /\ res = 0 /\ accepted = <<>>
    /\ conn_recv = <<>> /\ recv_buff = <<>> /\ conn_state = TRUE
    /\ net = <<>> /\ reply = <<>>
    /\ link = "open" /\ step = 0 /\ csent = 0 /\ cgot = 0
    /\ spoiled = FALSE /\ ignores = 0 /\ datas = 0 /\ early = FALSE /\ over = FALSE

-----------------------------------------------------------------------------
(* The client (external). *)

Script == << {"VERSION"}, {"KEXINIT"}, {"ECDH_INIT"}, {"NEWKEYS"}, {"SERVICE_REQUEST"},
             {"USERAUTH_none", "USERAUTH_other"}, {"CHANNEL_OPEN"},
             {"SUBSYSTEM", "REQUEST_other"} >>
(* Packets the client has received before it sends each of them. *)
Needs  == <<0, 0, 1, 2, 2, 4, 5, 6>>
Sealed == step >= 4
Ready  == step = Len(Script) /\ cgot >= 6

(* Its version line is no packet, the others it counts from 0 on.           *)
Sent(t) == [type |-> t, seq |-> IF t = "VERSION" THEN -1 ELSE csent, sealed |-> Sealed]

Sends(t) ==
    /\ link = "open" /\ ~spoiled /\ ~over
    /\ IF t = "VERSION"
       THEN net' = net \o <<Half(Sent(t), "body")>> /\ UNCHANGED csent
       ELSE net' = net \o <<Half(Sent(t), "hdr"), Half(Sent(t), "body")>> /\ csent' = csent + 1
    /\ UNCHANGED <<server, socket, link, cgot, reply, spoiled>>

ClientSteps ==
    /\ step < Len(Script) /\ cgot >= Needs[step + 1]
    /\ \E t \in Script[step + 1] : Sends(t)
    /\ step' = step + 1 /\ UNCHANGED <<ignores, datas, early, over>>

ClientIgnores ==
    /\ step > 0 /\ ignores < MaxIgnore /\ ignores' = ignores + 1
    /\ early' = (early \/ ~Sealed)
    /\ Sends("IGNORE") /\ UNCHANGED <<step, datas, over>>

ClientData ==
    /\ Ready /\ datas < MaxData /\ datas' = datas + 1
    /\ \E t \in {"DATA", "WINDOW_ADJUST"} : Sends(t)
    /\ UNCHANGED <<step, ignores, early, over>>

ClientDone ==
    /\ Ready /\ over' = TRUE
    /\ \E t \in {"EOF", "CLOSE", "KEXINIT"} : Sends(t)
    /\ UNCHANGED <<step, ignores, early, datas>>

ClientReads ==
    /\ link = "open" /\ reply # <<>> /\ reply' = Tail(reply)
    /\ cgot' = cgot + 1
    /\ spoiled' = (spoiled \/ Head(reply).seq \notin {PLAIN, cgot})
    /\ UNCHANGED <<server, socket, net, link, step, csent, ignores, datas, early, over>>

ClientLeaves ==
    /\ MayLeave \/ over \/ spoiled \/ stage = "ended"
    /\ link = "open" /\ link' = "closed"
    /\ UNCHANGED <<server, socket, net, step, csent, cgot, reply, spoiled, ignores, datas, early, over>>

(* What was still on its way is lost. *)
LinkBreaks ==
    /\ MayBreak /\ link = "open" /\ link' = "closed"
    /\ \E k \in 0..Len(net) : net' = SubSeq(net, 1, k)
    /\ UNCHANGED <<server, socket, step, csent, cgot, reply, spoiled, ignores, datas, early, over>>

-----------------------------------------------------------------------------
(* The modem and the parser task, as EspSock has them. *)

ReportRecv ==
    /\ net # <<>>
    /\ \E k \in 1..Len(net) :
          /\ conn_recv' = Append(conn_recv, SubSeq(net, 1, k))
          /\ net' = SubSeq(net, k + 1, Len(net))
    /\ UNCHANGED <<server, recv_buff, conn_state, client, reply>>

ReportClosed ==
    /\ link = "closed" /\ net = <<>> /\ conn_state /\ conn_state' = FALSE
    /\ UNCHANGED <<server, conn_recv, recv_buff, client, net, reply>>

-----------------------------------------------------------------------------
(* sock_recv of one half.  Its check does not see recv_buff; once past it,  *)
(* the task waits without a timeout.                                        *)
IsConn    == conn_state \/ conn_recv # <<>>
Available == recv_buff # <<>> \/ conn_recv # <<>>
Buffered  == recv_buff \o (IF recv_buff = <<>> /\ conn_recv # <<>> THEN Head(conn_recv) ELSE <<>>)

Receives(p) ==
    /\ (waiting \/ IsConn) /\ Available
    /\ Head(Buffered).half = part /\ p = Head(Buffered).of
    /\ recv_buff' = Tail(Buffered)
    /\ conn_recv' = IF recv_buff = <<>> THEN Tail(conn_recv) ELSE conn_recv
    /\ waiting' = FALSE /\ UNCHANGED conn_state

Refused == ~waiting /\ ~IsConn /\ UNCHANGED <<socket, waiting>>

(* sftp_parse is entered only while the connection is up (acpt_loop.c:104). *)
MayRead == stage = "sftp" /\ part = "hdr" /\ ~waiting => conn_state

Blocks ==
    /\ stage \in PlainStage \cup SealedStage /\ MayRead
    /\ ~waiting /\ IsConn /\ ~Available /\ waiting' = TRUE
    /\ UNCHANGED <<stage, part, c2s, s2c, i_c, done, res, accepted, socket, client, net, reply>>

(* sock_send, after the packet it answers was read; its result is never     *)
(* looked at.                                                               *)
Say(ps) == reply' = IF IsConn' THEN reply \o ps ELSE reply
Silent  == reply' = reply

GoTo(s)  == stage' = s /\ res' = res
EndsWith(r) == stage' = "ended" /\ res' = r % 256          \* a uint8_t
Asserts  == stage' = "stuck" /\ res' = res
KeepSeq  == UNCHANGED <<c2s, s2c>>

(* All stages report through the one flag that sshd_acpt looks at after     *)
(* each of them; it still holds what the stage before left in it.           *)
Takes(p) == done' = 1 /\ accepted' = Append(accepted, p.type)
Fails    == done' = 0 /\ UNCHANGED accepted
Outcome(next, r) == IF done' # 0 THEN GoTo(next) ELSE EndsWith(r)

-----------------------------------------------------------------------------
(* exchange_version_header, send_kexinit *)

Hello ==
    /\ stage = "hello" /\ GoTo("version") /\ part' = "body" /\ KeepSeq /\ Silent
    /\ UNCHANGED <<waiting, i_c, done, accepted, socket, client, net>>

Version ==
    /\ stage = "version"
    /\ \/ /\ \E p \in {h.of : h \in Range(Buffered)} : Receives(p) /\ Takes(p)
          /\ part' = "hdr" /\ Say(<<Packet("KEXINIT", PLAIN)>>)
       \/ Refused /\ Fails /\ Silent /\ UNCHANGED part
    /\ Outcome("kexinit", -1)
    /\ KeepSeq /\ UNCHANGED <<i_c, client, net>>

(* recv_packet *)
PlainHeader ==
    /\ stage \in PlainStage \ {"version"} /\ part = "hdr"
    /\ \E p \in {h.of : h \in Range(Buffered)} : Receives(p)
    /\ part' = "body"
    /\ UNCHANGED <<stage, c2s, s2c, i_c, done, res, accepted, client, net, reply>>

PlainPacket(p) == part = "body" /\ Receives(p) /\ part' = "hdr"
NoPacket       == Refused /\ part' = "hdr"

StoredNone(p) == "none"                                    \* mutant
Stored(p)     == p.type

(* The one stage without an outcome: neither a refusal nor the type of the  *)
(* packet is looked at, though a payload of another form may fail an        *)
(* assertion of payload_decode.  The flag is cleared after it.              *)
Kexinit(p) ==
    /\ stage = "kexinit" /\ Silent /\ KeepSeq /\ done' = 0
    /\ \/ /\ PlainPacket(p) /\ i_c' = Stored(p) /\ accepted' = Append(accepted, p.type)
          /\ GoTo("ecdh_init") \/ (p.type # "KEXINIT" /\ Asserts)
       \/ NoPacket /\ GoTo("ecdh_init") /\ UNCHANGED <<i_c, accepted>>

(* consume_ecdh_init, then send_ecdh_reply and the server's half of         *)
(* exchange_msg_newkey.  Any string of 32 bytes is taken for the key.       *)
(* send_ecdh_reply sets the flag only when a length is wrong that is        *)
(* constant here: it runs on the success of consume_ecdh_init.              *)
EcdhInit(p) ==
    /\ stage = "ecdh_init" /\ UNCHANGED i_c
    /\ \/ /\ PlainPacket(p) /\ p.type \in {"ECDH_INIT", "IGNORE"} /\ Takes(p)
          /\ c2s' = FIRST_SEQ /\ s2c' = FIRST_SEQ /\ Outcome("newkeys", -2)
          /\ Say(<<Packet("ECDH_REPLY", PLAIN), Packet("NEWKEYS", PLAIN)>>)
       \/ /\ (PlainPacket(p) /\ p.type # "ECDH_INIT") \/ NoPacket
          /\ Fails /\ Outcome("newkeys", -2) /\ Silent /\ KeepSeq
       \/ /\ PlainPacket(p) /\ p.type # "ECDH_INIT"
          /\ Asserts /\ UNCHANGED <<done, accepted>> /\ Silent /\ KeepSeq

Newkeys(p) ==
    /\ stage = "newkeys" /\ Silent /\ KeepSeq /\ UNCHANGED i_c
    /\ \/ PlainPacket(p) /\ p.type = "NEWKEYS" /\ Takes(p)
       \/ ((PlainPacket(p) /\ p.type # "NEWKEYS") \/ NoPacket) /\ Fails
    /\ Outcome("service", -4)

(* Stands for the packet when none was received. *)
NoneSent == [type |-> "none", seq |-> -1, sealed |-> FALSE]

Plain == \E p \in {h.of : h \in Range(Buffered)} \cup {NoneSent} :
            Kexinit(p) \/ EcdhInit(p) \/ Newkeys(p)

-----------------------------------------------------------------------------
(* recv_packet_enc: the number is used up before anything is received, and  *)
(* the results of both sock_recv are ignored, so that a refusal leaves      *)
(* bytes whose tag cannot match.  A length opened with another number may   *)
(* fail its own assertion first; the tag fails at the latest.               *)
Opened(p) == p.sealed /\ p.seq = c2s - 1

SealedHeader ==
    /\ stage \in SealedStage /\ part = "hdr" /\ MayRead
    /\ \/ /\ \E p \in {h.of : h \in Range(Buffered)} : Receives(p)
          /\ part' = "body" /\ UNCHANGED stage
       \/ Refused /\ stage' = "stuck" /\ UNCHANGED part
    /\ c2s' = c2s + 1
    /\ UNCHANGED <<s2c, i_c, done, res, accepted, client, net, reply>>

SealedLost ==
    /\ stage \in SealedStage /\ part = "body"
    /\ \/ \E p \in {h.of : h \in Range(Buffered)} : Receives(p) /\ ~Opened(p)
       \/ Refused
    /\ stage' = "stuck"
    /\ UNCHANGED <<part, c2s, s2c, i_c, done, res, accepted, client, net, reply>>

SealedPacket(p) == part = "body" /\ Receives(p) /\ Opened(p) /\ part' = "hdr"

(* send_packet_enc *)
SealFixed(t) == Say(<<Packet(t, s2c)>>) /\ UNCHANGED s2c    \* mutant
Seal(t)      == Say(<<Packet(t, s2c)>>) /\ s2c' = s2c + 1
NoSeal       == Silent /\ UNCHANGED s2c

(* respond_auth_service, respond_userauth, consume_openchannel and          *)
(* respond_chnlreq: the expected message is answered, any other ends the    *)
(* session with the stage's own result.                                     *)
AnswerKeeps(p, here, want, answers, next, r) ==            \* mutant
    /\ stage = here /\ SealedPacket(p)
    /\ \/ p.type = want /\ Takes(p) /\ \E a \in answers : Seal(a)
       \/ p.type # want /\ UNCHANGED <<done, accepted>> /\ NoSeal
    /\ Outcome(next, r)
Answer(p, here, want, answers, next, r) ==
    /\ stage = here /\ SealedPacket(p)
    /\ \/ /\ p.type = want /\ Takes(p)
          /\ (\E a \in answers \ {"none"} : Seal(a)) \/ ("none" \in answers /\ NoSeal)
       \/ p.type # want /\ Fails /\ NoSeal
    /\ Outcome(next, r)

Service(p)     == Answer(p, "service", "SERVICE_REQUEST", {"SERVICE_ACCEPT"}, "userauth", -5)
Userauth(p)    == Answer(p, "userauth", "USERAUTH_none", {"USERAUTH_SUCCESS"}, "openchannel", -6)
OpenChannel(p) == Answer(p, "openchannel", "CHANNEL_OPEN", {"OPEN_CONFIRMATION"}, "chnlreq", -7)
(* A subsystem request may want no reply. *)
ChnlReq(p)     == Answer(p, "chnlreq", "SUBSYSTEM", {"CHANNEL_SUCCESS", "none"}, "sftp", -8)

(* sftp_parse.  DATA may be answered any number of times by the SFTP        *)
(* server; here at most once.                                               *)
ShouldCloseEof(p) == p.type \in {"CLOSE", "KEXINIT"}       \* mutant
ShouldClose(p)    == p.type \in {"EOF", "CLOSE", "KEXINIT"}

SftpParse(p) ==
    /\ stage = "sftp" /\ SealedPacket(p) /\ UNCHANGED <<done, accepted>>
    /\ IF ShouldClose(p) THEN EndsWith(0) /\ NoSeal
       ELSE /\ GoTo("sftp")
            /\ NoSeal \/ (p.type = "DATA" /\ Seal("DATA"))

SealedMessage ==
    /\ \E p \in {h.of : h \in Range(Buffered)} :
          Service(p) \/ Userauth(p) \/ OpenChannel(p) \/ ChnlReq(p) \/ SftpParse(p)
    /\ UNCHANGED <<c2s, i_c, client, net>>

(* The loop of sshd_acpt finds the connection gone. *)
LoopEnds ==
    /\ stage = "sftp" /\ part = "hdr" /\ ~MayRead /\ EndsWith(-9)
    /\ UNCHANGED <<part, waiting, c2s, s2c, i_c, done, accepted, socket, client, net, reply>>

-----------------------------------------------------------------------------
PlainMessage == Plain /\ UNCHANGED <<client, net>>
Server == \/ Hello \/ Version \/ PlainHeader \/ PlainMessage \/ SealedHeader
          \/ SealedLost \/ SealedMessage \/ LoopEnds \/ Blocks
Modem  == ReportRecv \/ ReportClosed
Client == \/ ClientSteps \/ ClientIgnores \/ ClientData \/ ClientDone
          \/ ClientReads \/ ClientLeaves \/ LinkBreaks

Next == Server \/ Modem \/ Client

(* The sshd task runs when it can, and the modem reports what arrives.      *)
Spec == Init /\ [][Next]_vars /\ WF_vars(Server) /\ WF_vars(Modem)
-----------------------------------------------------------------------------
Type     == (UNION {Script[k] : k \in 1..Len(Script)})
            \cup {"IGNORE", "DATA", "WINDOW_ADJUST", "EOF", "CLOSE"}
Lines    == [of : [type : Type, seq : Nat \cup {-1}, sealed : BOOLEAN], half : {"hdr", "body"}]

TypeOK ==
    /\ stage \in PlainStage \cup SealedStage \cup {"hello", "ended", "stuck"}
    /\ part \in {"hdr", "body"} /\ waiting \in BOOLEAN
    /\ c2s \in Nat /\ s2c \in Nat /\ i_c \in Type \cup {"none"} /\ res \in 0..255
    /\ done \in {0, 1} /\ accepted \in Seq(Type)
    /\ conn_recv \in Seq(Seq(Lines)) /\ recv_buff \in Seq(Lines) /\ net \in Seq(Lines)
    /\ conn_state \in BOOLEAN /\ link \in {"open", "closed"}
    /\ step \in 0..Len(Script) /\ csent \in Nat /\ cgot \in Nat
    /\ reply \in Seq([type : STRING, seq : Nat \cup {PLAIN}])
    /\ spoiled \in BOOLEAN /\ early \in BOOLEAN /\ over \in BOOLEAN
    /\ ignores \in 0..MaxIgnore /\ datas \in 0..MaxData

(* The numbers the server seals with are those its client opens with: the   *)
(* constant the numbers are set to counts the three packets sent in the     *)
(* clear, on every path through the stages on which sealing starts          *)
(* (s2_ecdh_init.c:174-175, packet.c:92-93 and 166-167).                    *)
ClientOpens == ~spoiled

(* While its client stays connected the server opens every packet: it gets  *)
(* stuck only if the connection went away, or if a packet that was not the  *)
(* expected one was parsed during the key exchange, where the type is not   *)
(* looked at (packet.c:121-143, s1_kexinit.c:77-107, s2_ecdh_init.c:31-68). *)
StuckOnlyAlone == stage = "stuck" => link = "closed" \/ early

(* Nothing is decrypted, let alone SFTP served, before the client has gone  *)
(* through every step that comes first: whatever was sent instead, in which *)
(* order and wherever the connection broke, the packets behind the reports  *)
(* of success are one each of the steps up to here, in order, all of them   *)
(* sent by the client in this session.  The flag through which the stages   *)
(* report is shared and never reset between them, one stage has no outcome  *)
(* and another takes any packet of the right form (acpt_loop.c:22-88).      *)
Order   == <<"VERSION", "KEXINIT", "ECDH_INIT", "NEWKEYS", "SERVICE_REQUEST",
             "USERAUTH_none", "CHANNEL_OPEN", "SUBSYSTEM">>
Reached == [service |-> 4, userauth |-> 5, openchannel |-> 6, chnlreq |-> 7, sftp |-> 8]

NoShortcut ==
    stage \in SealedStage =>
        accepted = SubSeq(Order, 1, Reached[stage]) /\ step >= Reached[stage]

(* The client's KEXINIT is what the hash is computed over whenever the keys *)
(* are used (s1_kexinit.c:91-92, ecdh_calc_hash in s2_ecdh_init.c).         *)
HashedKexinit == stage \in SealedStage => i_c = "KEXINIT"

(* A client that is done and stays until the server hangs up sees the       *)
(* session end (sftp_parse.c:93-111, acpt_loop.c:103-110).                  *)
GoodbyeEnds == over ~> stage = "ended" \/ link = "closed"

(* The assertion at packet.c:143: memcmp(tag, expected_tag, 16) == 0.       *)
TagVerified == stage # "stuck"
=============================================================================
