-------------------------- MODULE SshSessionProofs --------------------------
(***************************************************************************)
(* Proofs about SshSession, for any number of messages and of IGNOREs, a   *)
(* client that leaves and a connection that breaks at any moment.          *)
(***************************************************************************)
EXTENDS SshSession, SequenceTheorems, TLAPS

-----------------------------------------------------------------------------
(* Where each message leads, and what its stage reports.                    *)
LEMMA Answered ==
    ASSUME NEW p, NEW here, NEW want, NEW answers, NEW next, NEW r,
           Answer(p, here, want, answers, next, r)
    PROVE  /\ stage = here /\ SealedPacket(p)
           /\ \/ p.type = want /\ stage' = next /\ accepted' = Append(accepted, want)
              \/ stage' = "ended" /\ accepted' = accepted
<1>1. stage = here /\ SealedPacket(p) /\ Outcome(next, r)
    BY DEF Answer
<1>2. (p.type = want /\ Takes(p)) \/ Fails
    BY DEF Answer
<1>3. CASE p.type = want /\ Takes(p)
    BY <1>1, <1>3 DEF Takes, Outcome, GoTo
<1>4. CASE Fails
    BY <1>1, <1>4 DEF Fails, Outcome, EndsWith
<1> QED BY <1>2, <1>3, <1>4

LEMMA AfterSealed ==
    ASSUME NEW p, Service(p) \/ Userauth(p) \/ OpenChannel(p) \/ ChnlReq(p) \/ SftpParse(p)
    PROVE  /\ stage \in SealedStage /\ stage' \in SealedStage \cup {"ended"}
           /\ SealedPacket(p)
<1>1. CASE SftpParse(p)
    BY <1>1 DEF SftpParse, GoTo, EndsWith, SealedStage
<1>2. CASE Service(p)
    BY <1>2, Answered DEF Service, SealedStage
<1>3. CASE Userauth(p)
    BY <1>3, Answered DEF Userauth, SealedStage
<1>4. CASE OpenChannel(p)
    BY <1>4, Answered DEF OpenChannel, SealedStage
<1>5. CASE ChnlReq(p)
    BY <1>5, Answered DEF ChnlReq, SealedStage
<1> QED BY <1>1, <1>2, <1>3, <1>4, <1>5

LEMMA AfterEcdh ==
    ASSUME NEW p, EcdhInit(p)
    PROVE  /\ stage = "ecdh_init" /\ i_c' = i_c
           /\ \/ /\ PlainPacket(p) /\ stage' = "newkeys" /\ accepted' = Append(accepted, p.type)
                 /\ c2s' = FIRST_SEQ /\ s2c' = FIRST_SEQ
                 /\ Say(<<Packet("ECDH_REPLY", PLAIN), Packet("NEWKEYS", PLAIN)>>)
              \/ /\ PlainPacket(p) \/ NoPacket
                 /\ stage' = "ended" \/ (stage' = "stuck" /\ PlainPacket(p) /\ p.type # "ECDH_INIT")
                 /\ Silent /\ KeepSeq
<1>1. stage = "ecdh_init" /\ i_c' = i_c
    BY DEF EcdhInit
<1>2. CASE /\ PlainPacket(p) /\ Takes(p) /\ c2s' = FIRST_SEQ /\ s2c' = FIRST_SEQ
           /\ Outcome("newkeys", -2)
           /\ Say(<<Packet("ECDH_REPLY", PLAIN), Packet("NEWKEYS", PLAIN)>>)
    BY <1>1, <1>2 DEF Takes, Outcome, GoTo
<1>3. CASE /\ PlainPacket(p) \/ NoPacket
           /\ Fails /\ Outcome("newkeys", -2) /\ Silent /\ KeepSeq
    BY <1>1, <1>3 DEF Fails, Outcome, EndsWith
<1>4. CASE /\ PlainPacket(p) /\ p.type # "ECDH_INIT" /\ Asserts /\ Silent /\ KeepSeq
    BY <1>1, <1>4 DEF Asserts
<1> QED BY <1>2, <1>3, <1>4 DEF EcdhInit

LEMMA AfterNewkeys ==
    ASSUME NEW p, Newkeys(p)
    PROVE  /\ stage = "newkeys" /\ i_c' = i_c /\ Silent /\ KeepSeq
           /\ \/ /\ PlainPacket(p) /\ p.type = "NEWKEYS" /\ stage' = "service"
                 /\ accepted' = Append(accepted, "NEWKEYS")
              \/ (PlainPacket(p) \/ NoPacket) /\ stage' = "ended"
<1>1. stage = "newkeys" /\ i_c' = i_c /\ Silent /\ KeepSeq /\ Outcome("service", -4)
    BY DEF Newkeys
<1>2. CASE PlainPacket(p) /\ p.type = "NEWKEYS" /\ Takes(p)
    BY <1>1, <1>2 DEF Takes, Outcome, GoTo
<1>3. CASE ((PlainPacket(p) /\ p.type # "NEWKEYS") \/ NoPacket) /\ Fails
    BY <1>1, <1>3 DEF Fails, Outcome, EndsWith
<1> QED BY <1>2, <1>3 DEF Newkeys

LEMMA AfterVersion ==
    ASSUME Version
    PROVE  /\ stage = "version" /\ KeepSeq /\ i_c' = i_c /\ UNCHANGED <<client, net>>
           /\ \/ /\ \E p : Receives(p) /\ Takes(p)
                 /\ stage' = "kexinit" /\ part' = "hdr" /\ Say(<<Packet("KEXINIT", PLAIN)>>)
              \/ Refused /\ stage' = "ended" /\ accepted' = accepted /\ Silent /\ part' = part
<1>1. /\ stage = "version" /\ KeepSeq /\ i_c' = i_c /\ UNCHANGED <<client, net>>
      /\ Outcome("kexinit", -1)
    BY DEF Version
<1>2. CASE /\ \E p : Receives(p) /\ Takes(p)
           /\ part' = "hdr" /\ Say(<<Packet("KEXINIT", PLAIN)>>)
    BY <1>1, <1>2 DEF Takes, Outcome, GoTo
<1>3. CASE Refused /\ Fails /\ Silent /\ UNCHANGED part
    BY <1>1, <1>3 DEF Fails, Outcome, EndsWith
<1> QED BY <1>2, <1>3 DEF Version

LEMMA AfterPlain ==
    ASSUME NEW p, Kexinit(p) \/ EcdhInit(p) \/ Newkeys(p)
    PROVE  /\ PlainPacket(p) \/ NoPacket
           /\ stage \in {"kexinit", "ecdh_init", "newkeys"}
           /\ stage = "kexinit" => stage' \in {"ecdh_init", "stuck"}
           /\ stage = "ecdh_init" => stage' \in {"newkeys", "ended", "stuck"}
           /\ stage = "newkeys" => stage' \in {"service", "ended"}
           /\ stage' \in {"newkeys", "service"} => PlainPacket(p)
           /\ IF stage' = "newkeys" THEN c2s' = FIRST_SEQ ELSE c2s' = c2s
<1>1. CASE Kexinit(p)
    BY <1>1 DEF Kexinit, GoTo, Asserts, KeepSeq
<1>2. CASE EcdhInit(p)
    BY <1>2, AfterEcdh DEF KeepSeq
<1>3. CASE Newkeys(p)
    BY <1>3, AfterNewkeys DEF KeepSeq
<1> QED BY <1>1, <1>2, <1>3
-----------------------------------------------------------------------------
(* The numbers agree: a packet on its way has the number its client expects *)
(* when it reads it, and while the connection is up the server has sent     *)
(* exactly the packets it counts.                                           *)

ReplyType == {"KEXINIT", "ECDH_REPLY", "NEWKEYS", "SERVICE_ACCEPT", "USERAUTH_SUCCESS",
              "OPEN_CONFIRMATION", "CHANNEL_SUCCESS", "DATA"}
Replies == Seq([type : ReplyType, seq : Nat \cup {PLAIN}])
Total   == cgot + Len(reply)

Linked   == conn_state \in BOOLEAN /\ (~conn_state => net = <<>> /\ link = "closed")
Numbered ==
    /\ reply \in Replies /\ cgot \in Nat /\ s2c \in Nat /\ ~spoiled
    /\ \A k \in 1..Len(reply) : reply[k].seq \in {PLAIN, cgot + k - 1}
Counted ==
    IsConn =>
        /\ stage \in {"hello", "version"} => Total = 0
        /\ stage \in {"kexinit", "ecdh_init"} => Total = 1
        /\ stage = "newkeys" => Total = FIRST_SEQ /\ s2c = FIRST_SEQ
        /\ stage \in SealedStage => Total = s2c

IInv == Linked /\ Numbered /\ Counted

LEMMA ReceivesGone == ASSUME NEW p, Receives(p) PROVE (IsConn' => IsConn) /\ conn_state' = conn_state
BY DEF Receives, IsConn, Available

LEMMA RefusedGone == ASSUME Refused PROVE ~IsConn /\ ~IsConn' /\ conn_state' = conn_state
BY DEF Refused, IsConn, socket

LEMMA Said ==
    ASSUME Numbered, NEW ps \in Replies, Say(ps), IsConn' => IsConn,
           cgot' = cgot, spoiled' = spoiled, s2c' \in Nat,
           IsConn => \A k \in 1..Len(ps) : ps[k].seq \in {PLAIN, Total + k - 1}
    PROVE  Numbered' /\ (IsConn' => Total' = Total + Len(ps))
<1> DEFINE both == reply \o ps
<1> USE DEF Replies
<1>1. CASE ~IsConn'
    BY <1>1 DEF Say, Numbered
<1>2. CASE IsConn'
  <2>1. reply' = both /\ both \in Replies /\ Len(both) = Len(reply) + Len(ps)
      BY <1>2 DEF Say, Numbered
  <2>2. ASSUME NEW k \in 1..Len(both) PROVE both[k].seq \in {PLAIN, cgot + k - 1}
    <3>1. CASE k <= Len(reply)
      <4>1. both[k] = reply[k] /\ k \in 1..Len(reply)
          BY <3>1, <2>1 DEF Numbered
      <4> QED BY <4>1 DEF Numbered
    <3>2. CASE k > Len(reply)
      <4>1. both[k] = ps[k - Len(reply)] /\ k - Len(reply) \in 1..Len(ps)
          BY <3>2, <2>1 DEF Numbered
      <4>2. ps[k - Len(reply)].seq \in {PLAIN, Total + (k - Len(reply)) - 1}
          BY <4>1, <1>2
      <4>3. Total + (k - Len(reply)) - 1 = cgot + k - 1
          BY <2>1 DEF Total, Numbered
      <4> QED BY <4>1, <4>2, <4>3
    <3> QED BY <3>1, <3>2, <2>1 DEF Numbered
  <2> HIDE DEF both
  <2>3. Total' = Total + Len(ps)
      BY <2>1 DEF Total, Numbered
  <2> QED BY <2>1, <2>2, <2>3 DEF Numbered
<1> QED BY <1>1, <1>2

LEMMA SealsOne ==
    ASSUME IInv, NEW t \in ReplyType, Seal(t), IsConn' => IsConn, stage \in SealedStage,
           cgot' = cgot, spoiled' = spoiled
    PROVE  Numbered' /\ s2c' = s2c + 1 /\ (IsConn' => Total' = Total + 1 /\ Total = s2c)
<1> DEFINE ps == <<Packet(t, s2c)>>
<1>1. ps \in Replies /\ Len(ps) = 1 /\ ps[1].seq = s2c
    BY DEF Packet, Replies, IInv, Numbered
<1>2. IsConn => Total = s2c
    BY DEF IInv, Counted
<1>3. Say(ps) /\ s2c' = s2c + 1 /\ s2c \in Nat
    BY DEF Seal, IInv, Numbered
<1> HIDE DEF ps
<1>4. IsConn => \A k \in 1..Len(ps) : ps[k].seq \in {PLAIN, Total + k - 1}
    BY <1>1, <1>2, <1>3
<1>5. Numbered' /\ (IsConn' => Total' = Total + 1)
  <2>1. Numbered /\ s2c' \in Nat /\ ps \in Replies
      BY <1>1, <1>3 DEF IInv
  <2>2. Numbered' /\ (IsConn' => Total' = Total + Len(ps))
      BY <2>1, <1>3, <1>4, Said
  <2> QED BY <2>2, <1>1
<1> QED BY <1>2, <1>3, <1>5

LEMMA QuietNumbered ==
    ASSUME Numbered, reply' = reply, s2c' \in Nat, cgot' = cgot, spoiled' = spoiled
    PROVE  Numbered' /\ Total' = Total
BY DEF Numbered, Total

LEMMA SealedCounts ==
    ASSUME IInv, stage \in SealedStage, stage' \in SealedStage \cup {"ended"}, IsConn' => IsConn,
           cgot' = cgot, spoiled' = spoiled, (\E t \in ReplyType : Seal(t)) \/ NoSeal
    PROVE  Numbered' /\ Counted'
<1>1. CASE \E t \in ReplyType : Seal(t)
  <2>1. PICK t \in ReplyType : Seal(t)
      BY <1>1
  <2>2. Numbered' /\ s2c' = s2c + 1 /\ (IsConn' => Total' = Total + 1 /\ Total = s2c)
      BY <2>1, SealsOne
  <2> QED BY <2>2 DEF Counted, SealedStage
<1>2. CASE NoSeal
  <2>1. Numbered' /\ Total' = Total /\ s2c' = s2c
      BY <1>2, QuietNumbered DEF NoSeal, Silent, IInv, Numbered
  <2> QED BY <2>1 DEF IInv, Counted, SealedStage
<1> QED BY <1>1, <1>2

LEMMA SealedNumbers == ASSUME IInv, SealedMessage PROVE IInv'
<1>1. cgot' = cgot /\ spoiled' = spoiled /\ net' = net /\ link' = link
    BY DEF SealedMessage, client
<1>2. PICK p : Service(p) \/ Userauth(p) \/ OpenChannel(p) \/ ChnlReq(p) \/ SftpParse(p)
    BY DEF SealedMessage
<1>3. stage \in SealedStage /\ stage' \in SealedStage \cup {"ended"}
    BY <1>2, AfterSealed
<1>4. (IsConn' => IsConn) /\ conn_state' = conn_state
  <2>1. Receives(p)
      BY <1>2 DEF Service, Userauth, OpenChannel, ChnlReq, SftpParse, Answer, SealedPacket
  <2> QED BY <2>1, ReceivesGone
<1>5. (\E t \in ReplyType : Seal(t)) \/ NoSeal
  <2>1. \/ Seal("SERVICE_ACCEPT") \/ Seal("USERAUTH_SUCCESS") \/ Seal("OPEN_CONFIRMATION")
        \/ Seal("CHANNEL_SUCCESS") \/ Seal("DATA") \/ NoSeal
      BY <1>2 DEF Service, Userauth, OpenChannel, ChnlReq, SftpParse, Answer
  <2> QED BY <2>1 DEF ReplyType
<1>6. Numbered' /\ Counted'
    BY <1>1, <1>3, <1>4, <1>5, SealedCounts
<1> QED BY <1>1, <1>4, <1>6 DEF IInv, Linked

LEMMA PlainNumbers == ASSUME IInv, PlainMessage PROVE IInv'
<1>1. /\ cgot' = cgot /\ spoiled' = spoiled /\ net' = net /\ link' = link
      /\ \E p : Kexinit(p) \/ EcdhInit(p) \/ Newkeys(p)
    BY DEF PlainMessage, Plain, client
<1>2. PICK p : Kexinit(p) \/ EcdhInit(p) \/ Newkeys(p)
    BY <1>1
<1>3. (IsConn' => IsConn) /\ conn_state' = conn_state
    BY <1>2, ReceivesGone, RefusedGone DEF Kexinit, EcdhInit, Newkeys, PlainPacket, NoPacket
<1>4. CASE Kexinit(p)
  <2>1. stage = "kexinit" /\ stage' \in {"ecdh_init", "stuck"} /\ reply' = reply /\ s2c' = s2c
      BY <1>4 DEF Kexinit, GoTo, Asserts, Silent, KeepSeq
  <2>2. Numbered' /\ Total' = Total
      BY <1>1, <2>1, QuietNumbered DEF IInv, Numbered
  <2> QED BY <2>1, <2>2, <1>1, <1>3 DEF IInv, Linked, Counted, SealedStage
<1>5. CASE EcdhInit(p)
  <2> DEFINE ps == <<Packet("ECDH_REPLY", PLAIN), Packet("NEWKEYS", PLAIN)>>
  <2>1. stage = "ecdh_init" /\ \/ s2c' = FIRST_SEQ /\ stage' = "newkeys" /\ Say(ps)
                               \/ stage' \in {"ended", "stuck"} /\ reply' = reply /\ s2c' = s2c
      BY <1>5, AfterEcdh DEF Silent, KeepSeq
  <2>2. ps \in Replies /\ Len(ps) = 2 /\ ps[1].seq = PLAIN /\ ps[2].seq = PLAIN
      BY DEF Packet, Replies, ReplyType
  <2>3. FIRST_SEQ \in Nat /\ FIRST_SEQ = 3
      BY DEF FIRST_SEQ
  <2> HIDE DEF ps
  <2>4. CASE s2c' = FIRST_SEQ /\ stage' = "newkeys" /\ Say(ps)
    <3>1. \A k \in 1..Len(ps) : ps[k].seq \in {PLAIN, Total + k - 1}
        BY <2>2
    <3>2. Numbered' /\ (IsConn' => Total' = Total + Len(ps))
      <4>1. Numbered /\ s2c' \in Nat
          BY <2>3, <2>4 DEF IInv
      <4> QED BY <4>1, <3>1, <2>2, <2>4, <1>1, <1>3, Said
    <3>3. IsConn => Total = 1
        BY <2>1 DEF IInv, Counted
    <3>4. IsConn' => Total' = FIRST_SEQ /\ s2c' = FIRST_SEQ
        BY <3>2, <3>3, <2>2, <2>3, <2>4, <1>3
    <3> QED BY <3>2, <3>4, <2>4, <1>1, <1>3 DEF IInv, Linked, Counted, SealedStage
  <2>5. CASE stage' \in {"ended", "stuck"} /\ reply' = reply /\ s2c' = s2c
    <3>1. Numbered' /\ Total' = Total
        BY <1>1, <2>5, QuietNumbered DEF IInv, Numbered
    <3> QED BY <2>5, <3>1, <1>1, <1>3 DEF IInv, Linked, Counted, SealedStage
  <2> QED BY <2>1, <2>4, <2>5
<1>6. CASE Newkeys(p)
  <2>1. stage = "newkeys" /\ stage' \in {"service", "ended"} /\ reply' = reply /\ s2c' = s2c
      BY <1>6, AfterNewkeys DEF Silent, KeepSeq
  <2>2. Numbered' /\ Total' = Total
      BY <1>1, <2>1, QuietNumbered DEF IInv, Numbered
  <2>3. IsConn' => Total' = s2c'
      BY <2>1, <2>2, <1>3 DEF IInv, Counted
  <2> QED BY <2>1, <2>2, <2>3, <1>1, <1>3 DEF IInv, Linked, Counted, SealedStage
<1> QED BY <1>2, <1>4, <1>5, <1>6

LEMMA VersionNumbers == ASSUME IInv, Version PROVE IInv'
<1> DEFINE ps == <<Packet("KEXINIT", PLAIN)>>
<1>1. /\ stage = "version" /\ s2c' = s2c
      /\ cgot' = cgot /\ spoiled' = spoiled /\ net' = net /\ link' = link
    BY AfterVersion DEF KeepSeq, client
<1>2. (IsConn' => IsConn) /\ conn_state' = conn_state
    BY AfterVersion, ReceivesGone, RefusedGone
<1>3. ps \in Replies /\ Len(ps) = 1 /\ ps[1].seq = PLAIN
    BY DEF Packet, Replies, ReplyType
<1>4. (stage' = "kexinit" /\ Say(ps)) \/ (stage' = "ended" /\ reply' = reply)
    BY AfterVersion DEF Silent
<1> HIDE DEF ps
<1>5. CASE stage' = "kexinit" /\ Say(ps)
  <2>1. \A k \in 1..Len(ps) : ps[k].seq \in {PLAIN, Total + k - 1}
      BY <1>3
  <2>2. Numbered /\ s2c' \in Nat
      BY <1>1 DEF IInv, Numbered
  <2>3. Numbered' /\ (IsConn' => Total' = Total + Len(ps))
      BY <2>1, <2>2, <1>1, <1>2, <1>3, <1>5, Said
  <2>4. IsConn' => Total' = 1
      BY <2>3, <1>1, <1>2, <1>3 DEF IInv, Counted
  <2> QED BY <2>3, <2>4, <1>1, <1>2, <1>5 DEF IInv, Linked, Counted, SealedStage
<1>6. CASE stage' = "ended" /\ reply' = reply
  <2>1. Numbered' /\ Total' = Total
      BY <1>1, <1>6, QuietNumbered DEF IInv, Numbered
  <2> QED BY <2>1, <1>1, <1>2, <1>6 DEF IInv, Linked, Counted, SealedStage
<1> QED BY <1>4, <1>5, <1>6

LEMMA OtherNumbers ==
    ASSUME IInv, Hello \/ PlainHeader \/ SealedHeader \/ SealedLost \/ LoopEnds \/ Blocks
    PROVE  IInv'
<1>1. /\ reply' = reply /\ s2c' = s2c /\ cgot' = cgot /\ spoiled' = spoiled
      /\ net' = net /\ link' = link
    BY DEF Hello, PlainHeader, SealedHeader, SealedLost, LoopEnds, Blocks, Silent, KeepSeq, client
<1>2. (IsConn' => IsConn) /\ conn_state' = conn_state
  <2>1. CASE \E p : Receives(p)
      BY <2>1, ReceivesGone
  <2>2. CASE Refused
      BY <2>2, RefusedGone
  <2>3. CASE UNCHANGED socket
      BY <2>3 DEF socket, IsConn
  <2>4. (\E p : Receives(p)) \/ Refused \/ UNCHANGED socket
      BY DEF Hello, PlainHeader, SealedHeader, SealedLost, LoopEnds, Blocks
  <2> QED BY <2>1, <2>2, <2>3, <2>4
<1>3. stage' = stage \/ (stage = "hello" /\ stage' = "version") \/ stage' \in {"ended", "stuck"}
    BY DEF Hello, PlainHeader, SealedHeader, SealedLost, LoopEnds, Blocks, GoTo, EndsWith
<1>4. Numbered' /\ Total' = Total
    BY <1>1, QuietNumbered DEF IInv, Numbered
<1> QED BY <1>1, <1>2, <1>3, <1>4 DEF IInv, Linked, Counted, SealedStage

LEMMA ModemNumbers == ASSUME IInv, Modem PROVE IInv'
<1>1. /\ reply' = reply /\ s2c' = s2c /\ cgot' = cgot /\ spoiled' = spoiled
      /\ link' = link /\ stage' = stage
    BY DEF Modem, ReportRecv, ReportClosed, client, server
<1>2. Numbered' /\ Total' = Total
    BY <1>1, QuietNumbered DEF IInv, Numbered
<1>3. CASE ReportRecv
  <2>1. net # <<>> /\ conn_state' = conn_state
      BY <1>3 DEF ReportRecv
  <2>2. conn_state /\ IsConn
      BY <2>1 DEF IInv, Linked, IsConn
  <2> QED BY <2>1, <2>2, <1>1, <1>2 DEF IInv, Linked, Counted
<1>4. CASE ReportClosed
  <2>1. /\ link = "closed" /\ net = <<>> /\ net' = net /\ conn_state' = FALSE
        /\ conn_state /\ conn_recv' = conn_recv
      BY <1>4 DEF ReportClosed
  <2>2. IsConn' => IsConn
      BY <2>1 DEF IsConn
  <2> QED BY <2>1, <2>2, <1>1, <1>2 DEF IInv, Linked, Counted
<1> QED BY <1>3, <1>4 DEF Modem

LEMMA ReadNumbers == ASSUME IInv, ClientReads PROVE IInv'
<1>1. /\ reply # <<>> /\ reply' = Tail(reply) /\ cgot' = cgot + 1
      /\ s2c' = s2c /\ stage' = stage /\ net' = net /\ link' = link
      /\ conn_state' = conn_state /\ conn_recv' = conn_recv
    BY DEF ClientReads, server, socket
<1>2. /\ reply \in Replies /\ cgot \in Nat /\ s2c \in Nat
      /\ \A k \in 1..Len(reply) : reply[k].seq \in {PLAIN, cgot + k - 1}
    BY DEF IInv, Numbered
<1>3. reply' \in Replies /\ Len(reply') = Len(reply) - 1 /\ Len(reply) \in Nat \ {0}
    BY <1>1, <1>2 DEF Replies
<1>4. ~spoiled'
  <2>1. Head(reply) = reply[1] /\ 1 \in 1..Len(reply)
      BY <1>2, <1>3 DEF Replies
  <2>2. Head(reply).seq \in {PLAIN, cgot + 1 - 1} /\ cgot + 1 - 1 = cgot
      BY <2>1, <1>2
  <2> QED BY <2>2 DEF ClientReads, IInv, Numbered
<1>5. ASSUME NEW k \in 1..Len(reply') PROVE reply'[k].seq \in {PLAIN, cgot' + k - 1}
  <2>1. reply'[k] = reply[k + 1] /\ k + 1 \in 1..Len(reply)
      BY <1>1, <1>2, <1>3 DEF Replies
  <2>2. reply[k + 1].seq \in {PLAIN, cgot + (k + 1) - 1}
      BY <2>1, <1>2
  <2>3. cgot + (k + 1) - 1 = cgot' + k - 1
      BY <1>1, <1>2, <1>3
  <2> QED BY <2>1, <2>2, <2>3
<1>6. Numbered' /\ Total' = Total
  <2>1. cgot' \in Nat /\ s2c' \in Nat
      BY <1>1, <1>2
  <2>2. Numbered'
      BY <1>3, <1>4, <1>5, <2>1 DEF Numbered
  <2>3. Total' = Total
      BY <1>1, <1>2, <1>3 DEF Total
  <2> QED BY <2>2, <2>3
<1> QED BY <1>1, <1>6 DEF IInv, Linked, Counted, IsConn

LEMMA ClientNumbers == ASSUME IInv, Client PROVE IInv'
<1>1. CASE ClientReads
    BY <1>1, ReadNumbers
<1>2. CASE ~ClientReads
  <2>1. /\ reply' = reply /\ s2c' = s2c /\ cgot' = cgot /\ spoiled' = spoiled /\ stage' = stage
        /\ conn_state' = conn_state /\ conn_recv' = conn_recv /\ link = "open"
      BY <1>2 DEF Client, ClientSteps, ClientIgnores, ClientData, ClientDone, ClientLeaves,
                  LinkBreaks, Sends, server, socket
  <2>2. Numbered' /\ Total' = Total
      BY <2>1, QuietNumbered DEF IInv, Numbered
  <2>3. conn_state
      BY <2>1 DEF IInv, Linked
  <2> QED BY <2>1, <2>2, <2>3 DEF IInv, Linked, Counted, IsConn
<1> QED BY <1>1, <1>2

LEMMA NumbersStep == IInv /\ [Next]_vars => IInv'
<1> SUFFICES ASSUME IInv, [Next]_vars PROVE IInv'
    OBVIOUS
<1>1. CASE Server
    BY <1>1, VersionNumbers, PlainNumbers, SealedNumbers, OtherNumbers DEF Server
<1>2. CASE Modem
    BY <1>2, ModemNumbers
<1>3. CASE Client
    BY <1>3, ClientNumbers
<1>4. CASE UNCHANGED vars
    BY <1>4 DEF vars, server, socket, client, IInv, Linked, Numbered, Counted, Total, IsConn
<1> QED BY <1>1, <1>2, <1>3, <1>4 DEF Next

LEMMA NumbersInit == Init => IInv
<1> SUFFICES ASSUME Init PROVE IInv
    OBVIOUS
<1>1. /\ stage = "hello" /\ conn_state = TRUE /\ reply = <<>> /\ cgot = 0
      /\ s2c = 0 /\ spoiled = FALSE
    BY DEF Init
<1>2. reply \in Replies /\ Len(reply) = 0
    BY <1>1 DEF Replies
<1> QED BY <1>1, <1>2 DEF IInv, Linked, Numbered, Counted, Total, SealedStage

(* The client can open every packet the server seals, on every path through *)
(* the stages, however many IGNOREs it sends and wherever the connection    *)
(* breaks: the constant that the numbers are set to counts the packets sent *)
(* in the clear (s2_ecdh_init.c:174-175, packet.c:166-167).                 *)
THEOREM NumbersAgree == Spec => []ClientOpens
<1>1. IInv => ClientOpens
    BY DEF IInv, Numbered, ClientOpens
<1> QED BY <1>1, NumbersInit, NumbersStep, PTL DEF Spec
-----------------------------------------------------------------------------
(* The client's halves reach the server in the order they were sent, none   *)
(* missing.  A half is placed in the client's stream by the number of its   *)
(* packet.                                                                  *)

(* What is known of a packet of the client that is on its way: its type,    *)
(* as long as no IGNORE was sent before the keys; that such an IGNORE moves *)
(* NEWKEYS behind the place where the server looks for it; and that the     *)
(* client has come as far in its script.                                    *)
Fair(p) ==
    /\ ~early => IF p.sealed THEN p.seq > 2
                 ELSE p.seq < 3 /\ p.type = Order[p.seq + 2]
    /\ early /\ p.type = "NEWKEYS" => p.seq > 2
    /\ p.seq = -1 => p.type = "VERSION"
    /\ \A k \in 1..8 : p.type = Order[k] => step >= k
Proper == {h \in Lines : Fair(h.of)}

Index(h)  == 2 * h.of.seq + (IF h.half = "hdr" THEN 1 ELSE 2)

Placed(s, from) == \A k \in 1..Len(s) : Index(s[k]) = from + k - 1

(* Where the first k payloads of the queue end. *)
After(pos, buff, queue, k) ==
    IF k = 0 THEN pos + Len(buff) ELSE Index(queue[k][1]) + Len(queue[k])

Flows(S, pos, buff, queue, line) ==
    /\ buff \in Seq(S) /\ line \in Seq(S) /\ queue \in Seq(Seq(S) \ {<<>>})
    /\ Placed(buff, pos)
    /\ \A k \in 1..Len(queue) : Placed(queue[k], After(pos, buff, queue, k - 1))
    /\ Placed(line, After(pos, buff, queue, Len(queue)))

End(pos, buff, queue, line) == After(pos, buff, queue, Len(queue)) + Len(line)

(* The half that the server reads next, and the one that the client sends. *)
Reading == PlainStage \cup SealedStage \cup {"hello"}
Awaits  == IF stage = "kexinit" THEN 0
           ELSE IF stage = "ecdh_init" THEN 1
           ELSE IF stage = "newkeys" THEN 2
           ELSE IF part = "hdr" THEN c2s ELSE c2s - 1
Pos     == IF stage \in {"hello", "version"} THEN 0
           ELSE 2 * Awaits + (IF part = "hdr" THEN 1 ELSE 2)
SentEnd == IF step = 0 THEN 0 ELSE 2 * csent + 1

(* No read was refused: from then on every read is. *)
Served == waiting \/ IsConn

Scripted ==
    /\ step \in 0..Len(Script) /\ csent \in Nat /\ link \in {"open", "closed"}
    /\ early \in BOOLEAN /\ (early => step # 0)
    /\ step = 0 => csent = 0
    /\ step \in 1..3 => IF early THEN csent >= step ELSE csent = step - 1
    /\ step >= 4 => csent >= FIRST_SEQ
Reads ==
    /\ part \in {"hdr", "body"} /\ c2s \in Nat /\ waiting \in BOOLEAN
    /\ stage = "newkeys" => c2s = FIRST_SEQ
    /\ stage \in SealedStage => c2s >= (IF part = "hdr" THEN FIRST_SEQ ELSE FIRST_SEQ + 1)
Ordered ==
    Served /\ stage \in Reading =>
        /\ Flows(Proper, Pos, recv_buff, conn_recv, net)
        /\ link = "open" => End(Pos, recv_buff, conn_recv, net) = SentEnd
Hashed ==
    ~early => /\ stage \in SealedStage \cup {"newkeys"} => i_c = "KEXINIT"
              /\ stage = "ecdh_init" /\ Served => i_c = "KEXINIT"

(* No step is skipped.                                                      *)
Passed(n) == SubSeq(Order, 1, n)
Trail ==
    /\ stage \in {"hello", "version"} => accepted = Passed(0)
    /\ stage = "kexinit" => accepted = Passed(1)
    /\ stage = "ecdh_init" /\ Served /\ ~early => accepted = Passed(2)
    /\ stage = "newkeys" /\ ~early => accepted = Passed(3)
    /\ stage \in SealedStage =>
          ~early /\ accepted = Passed(Reached[stage]) /\ step >= Reached[stage]

OInv == Scripted /\ Reads /\ Ordered /\ Hashed /\ Trail /\ StuckOnlyAlone

LEMMA IndexInt == \A h \in Lines : Index(h) \in Int
BY DEF Lines, Index

LEMMA ProperHalf ==
    ASSUME NEW h \in Proper
    PROVE  h.of.type \in Type /\ h.of.seq \in Int /\ h.of.sealed \in BOOLEAN /\ Fair(h.of)
BY DEF Proper, Lines

(* More may be placed as the client goes on. *)
LEMMA SeqGrows ==
    ASSUME NEW S, NEW T, S \subseteq T, NEW s \in Seq(S) PROVE s \in Seq(T)
OBVIOUS

LEMMA FlowGrows ==
    ASSUME NEW S, NEW T, S \subseteq T, NEW pos, NEW b, NEW q, NEW l, Flows(S, pos, b, q, l)
    PROVE  Flows(T, pos, b, q, l)
<1>1. b \in Seq(T) /\ l \in Seq(T)
    BY SeqGrows DEF Flows
<1>2. q \in Seq(Seq(T) \ {<<>>})
  <2>1. Seq(S) \ {<<>>} \subseteq Seq(T) \ {<<>>}
      BY SeqGrows
  <2>2. q \in Seq(Seq(S) \ {<<>>})
      BY DEF Flows
  <2> QED BY ONLY <2>1, <2>2, SeqGrows
<1> QED BY <1>1, <1>2 DEF Flows

(* Taking the first payload of the queue, when nothing is left of the last. *)
LEMMA FlowPops ==
    ASSUME NEW S, S \subseteq Lines, NEW pos \in Int, NEW b, NEW q, NEW l, Flows(S, pos, b, q, l), b = <<>>, q # <<>>
    PROVE  /\ Flows(S, pos, Head(q), Tail(q), l)
           /\ End(pos, Head(q), Tail(q), l) = End(pos, b, q, l)
           /\ Head(q) # <<>>
<1> DEFINE Q == Seq(S) \ {<<>>}
<1>1. q \in Seq(Q) /\ l \in Seq(S) /\ Len(b) = 0 /\ Len(q) > 0
    BY DEF Flows
<1>2. Head(q) = q[1] /\ Head(q) \in Q
    BY <1>1
<1>3. Tail(q) \in Seq(Q) /\ Len(Tail(q)) = Len(q) - 1 /\ Len(q) \in Nat
    BY <1>1
<1>4. \A k \in 1..Len(Tail(q)) : Tail(q)[k] = q[k + 1]
    BY <1>1
<1>5. Placed(q[1], pos)
  <2>1. Placed(q[1], After(pos, b, q, 1 - 1))
      BY <1>1 DEF Flows
  <2> QED BY <2>1, <1>1 DEF After
<1>6. Index(q[1][1]) = pos
  <2>1. Len(q[1]) \in Nat /\ Len(q[1]) > 0
      BY <1>2
  <2> QED BY <2>1, <1>5 DEF Placed
<1>7. ASSUME NEW k \in 0..Len(Tail(q))
      PROVE  After(pos, Head(q), Tail(q), k) = After(pos, b, q, k + 1)
  <2>1. CASE k = 0
      BY <2>1, <1>2, <1>6 DEF After
  <2>2. CASE k # 0
    <3>1. Tail(q)[k] = q[k + 1] /\ k + 1 # 0
        BY <2>2, <1>3, <1>4
    <3> QED BY <3>1, <2>2 DEF After
  <2> QED BY <2>1, <2>2
<1>8. ASSUME NEW k \in 1..Len(Tail(q))
      PROVE  Placed(Tail(q)[k], After(pos, Head(q), Tail(q), k - 1))
  <2>1. k - 1 \in 0..Len(Tail(q)) /\ (k - 1) + 1 = k /\ k + 1 \in 1..Len(q) /\ (k + 1) - 1 = k
      BY <1>3
  <2>2. Placed(q[k + 1], After(pos, b, q, k))
      BY <2>1 DEF Flows
  <2> QED BY <2>1, <2>2, <1>4, <1>7
<1>9. After(pos, Head(q), Tail(q), Len(Tail(q))) = After(pos, b, q, Len(q))
  <2>1. Len(Tail(q)) \in 0..Len(Tail(q)) /\ Len(Tail(q)) + 1 = Len(q)
      BY <1>3
  <2> QED BY <2>1, <1>7
<1> QED BY <1>1, <1>2, <1>3, <1>5, <1>8, <1>9 DEF Flows, End

(* Reading one half of what is left of the last payload. *)
LEMMA FlowReads ==
    ASSUME NEW S, S \subseteq Lines, NEW pos \in Int, NEW b, NEW q, NEW l, Flows(S, pos, b, q, l), b # <<>>
    PROVE  /\ Head(b) \in S /\ Index(Head(b)) = pos
           /\ Flows(S, pos + 1, Tail(b), q, l)
           /\ End(pos + 1, Tail(b), q, l) = End(pos, b, q, l)
<1>1. b \in Seq(S) /\ Len(b) \in Nat /\ Len(b) > 0 /\ q \in Seq(Seq(S) \ {<<>>})
    BY DEF Flows
<1>2. Head(b) = b[1] /\ Head(b) \in S /\ Tail(b) \in Seq(S) /\ Len(Tail(b)) = Len(b) - 1
    BY <1>1
<1>3. Index(Head(b)) = pos
    BY <1>1, <1>2 DEF Flows, Placed
<1>4. Placed(Tail(b), pos + 1)
  <2> SUFFICES ASSUME NEW k \in 1..Len(Tail(b)) PROVE Index(Tail(b)[k]) = (pos + 1) + k - 1
      BY DEF Placed
  <2>1. Tail(b)[k] = b[k + 1] /\ k + 1 \in 1..Len(b)
      BY <1>1, <1>2
  <2>2. Index(b[k + 1]) = pos + (k + 1) - 1
      BY <2>1 DEF Flows, Placed
  <2> QED BY <2>1, <2>2
<1>5. \A k : After(pos + 1, Tail(b), q, k) = After(pos, b, q, k)
    BY <1>1, <1>2 DEF After
<1> QED BY <1>2, <1>3, <1>4, <1>5 DEF Flows, End

LEMMA AfterInt ==
    ASSUME NEW S, S \subseteq Lines, NEW pos \in Int, NEW b, NEW q, NEW l, Flows(S, pos, b, q, l), NEW k \in 0..Len(q)
    PROVE  After(pos, b, q, k) \in Int
<1>1. CASE k = 0
    BY <1>1 DEF After, Flows
<1>2. CASE k # 0
  <2>1. q[k] \in Seq(S) \ {<<>>}
      BY <1>2 DEF Flows
  <2>2. Len(q[k]) \in Nat /\ Index(q[k][1]) \in Int
      BY <2>1, IndexInt
  <2> QED BY <2>2, <1>2 DEF After
<1> QED BY <1>1, <1>2

(* The modem reports what is at the head of the line. *)
LEMMA FlowReports ==
    ASSUME NEW S, S \subseteq Lines, NEW pos \in Int, NEW b, NEW q, NEW l, Flows(S, pos, b, q, l), NEW k \in 1..Len(l)
    PROVE  LET q2 == Append(q, SubSeq(l, 1, k))
               l2 == SubSeq(l, k + 1, Len(l))
           IN  Flows(S, pos, b, q2, l2) /\ End(pos, b, q2, l2) = End(pos, b, q, l)
<1> DEFINE Q  == Seq(S) \ {<<>>}
           s  == SubSeq(l, 1, k)
           q2 == Append(q, s)
           l2 == SubSeq(l, k + 1, Len(l))
           a  == After(pos, b, q, Len(q))
<1>1. q \in Seq(Q) /\ l \in Seq(S) /\ Len(l) \in Nat /\ Len(q) \in Nat
    BY DEF Flows
<1>2. s \in Seq(S) /\ Len(s) = k /\ \A i \in 1..k : s[i] = l[i]
    BY <1>1
<1>3. l2 \in Seq(S) /\ Len(l2) = Len(l) - k /\ \A i \in 1..Len(l2) : l2[i] = l[k + i]
    BY <1>1
<1>4. a \in Int /\ Placed(l, a)
  <2>1. Len(q) \in 0..Len(q)
      BY <1>1
  <2>2. a \in Int
      BY <2>1, AfterInt
  <2> QED BY <2>2 DEF Flows
<1>5. s \in Q
  <2>1. Len(s) > 0 /\ Len(<<>>) = 0
      BY <1>2
  <2> QED BY <2>1, <1>2
<1> HIDE DEF Q, s, l2, a
<1>6. q2 \in Seq(Q) /\ Len(q2) = Len(q) + 1 /\ q2[Len(q) + 1] = s /\ \A i \in 1..Len(q) : q2[i] = q[i]
    BY <1>1, <1>5
<1>7. Placed(s, a) /\ Index(s[1]) = a
  <2>1. k \in Nat /\ k >= 1 /\ k <= Len(l)
      BY <1>1
  <2>2. \A i \in 1..k : Index(l[i]) = a + i - 1
      BY <2>1, <1>1, <1>4 DEF Placed
  <2>3. \A i \in 1..k : Index(s[i]) = a + i - 1
      BY <2>2, <1>2
  <2>4. Index(s[1]) = a
      BY <2>1, <2>3, <1>4
  <2> QED BY <2>3, <2>4, <1>2 DEF Placed
<1>8. Placed(l2, a + k)
  <2> SUFFICES ASSUME NEW i \in 1..Len(l2) PROVE Index(l2[i]) = (a + k) + i - 1
      BY DEF Placed
  <2>1. l2[i] = l[k + i] /\ k + i \in 1..Len(l)
      BY <1>1, <1>3
  <2>2. Index(l[k + i]) = a + (k + i) - 1
      BY <2>1, <1>4 DEF Placed
  <2> QED BY <2>1, <2>2, <1>4
<1> HIDE DEF q2
<1>9. ASSUME NEW i \in 0..Len(q) PROVE After(pos, b, q2, i) = After(pos, b, q, i)
    BY <1>1, <1>6 DEF After
<1>10. After(pos, b, q2, Len(q2)) = a + k
  <2>1. Len(q2) # 0 /\ q2[Len(q2)] = s
      BY <1>1, <1>6
  <2> QED BY <2>1, <1>2, <1>7 DEF After
<1>11. ASSUME NEW i \in 1..Len(q2) PROVE Placed(q2[i], After(pos, b, q2, i - 1))
  <2>1. CASE i \in 1..Len(q)
    <3>1. i - 1 \in 0..Len(q) /\ q2[i] = q[i]
        BY <2>1, <1>1, <1>6
    <3>2. Placed(q[i], After(pos, b, q, i - 1))
        BY <2>1 DEF Flows
    <3> QED BY <3>1, <3>2, <1>9
  <2>2. CASE i = Len(q) + 1
    <3>0. After(pos, b, q, Len(q)) = a
        BY DEF a
    <3>1. i - 1 = Len(q) /\ Len(q) \in 0..Len(q) /\ q2[i] = s
        BY <2>2, <1>1, <1>6
    <3> QED BY <3>0, <3>1, <1>7, <1>9
  <2> QED BY <2>1, <2>2, <1>1, <1>6
<1>12. End(pos, b, q2, l2) = End(pos, b, q, l)
    BY <1>1, <1>3, <1>4, <1>10 DEF End, a
<1>13. Flows(S, pos, b, q2, l2)
    BY <1>3, <1>6, <1>8, <1>10, <1>11 DEF Flows, Q
<1> QED BY <1>12, <1>13 DEF q2, l2, s

(* The connection breaks, and the rest of the line is lost. *)
LEMMA FlowBreaks ==
    ASSUME NEW S, S \subseteq Lines, NEW pos \in Int, NEW b, NEW q, NEW l, Flows(S, pos, b, q, l), NEW k \in 0..Len(l)
    PROVE  Flows(S, pos, b, q, SubSeq(l, 1, k))
<1> DEFINE s == SubSeq(l, 1, k)
           a == After(pos, b, q, Len(q))
<1>1. l \in Seq(S) /\ Len(l) \in Nat /\ Placed(l, a)
    BY DEF Flows
<1>2. s \in Seq(S) /\ Len(s) = k /\ \A i \in 1..k : s[i] = l[i]
    BY <1>1
<1> HIDE DEF s
<1>3. Placed(s, a)
    BY <1>1, <1>2 DEF Placed
<1> QED BY <1>2, <1>3 DEF Flows, s

(* The client sends. *)
LEMMA FlowSends ==
    ASSUME NEW S, S \subseteq Lines, NEW pos \in Int, NEW b, NEW q, NEW l, Flows(S, pos, b, q, l),
           NEW s \in Seq(S), Placed(s, End(pos, b, q, l))
    PROVE  Flows(S, pos, b, q, l \o s) /\ End(pos, b, q, l \o s) = End(pos, b, q, l) + Len(s)
<1> DEFINE both == l \o s
           a    == After(pos, b, q, Len(q))
<1>1. l \in Seq(S) /\ Len(l) \in Nat /\ Placed(l, a) /\ Len(q) \in Nat /\ Len(s) \in Nat
    BY DEF Flows
<1>2. a \in Int
  <2>1. Len(q) \in 0..Len(q)
      BY <1>1
  <2> QED BY <2>1, AfterInt
<1>3. both \in Seq(S) /\ Len(both) = Len(l) + Len(s)
    BY <1>1
<1>4. ASSUME NEW k \in 1..Len(both) PROVE Index(both[k]) = a + k - 1
  <2>1. CASE k <= Len(l)
    <3>1. both[k] = l[k] /\ k \in 1..Len(l)
        BY <2>1, <1>1, <1>3
    <3> QED BY <3>1, <1>1 DEF Placed
  <2>2. CASE k > Len(l)
    <3>0. k \in 1..(Len(l) + Len(s))
        BY <1>3
    <3>1. both[k] = s[k - Len(l)] /\ k - Len(l) \in 1..Len(s)
        BY <3>0, <2>2, <1>1
    <3>2. Index(s[k - Len(l)]) = (a + Len(l)) + (k - Len(l)) - 1
        BY <3>1 DEF Placed, End
    <3>3. (a + Len(l)) + (k - Len(l)) - 1 = a + k - 1
        BY <1>1, <1>2
    <3> QED BY <3>1, <3>2, <3>3
  <2> QED BY <2>1, <2>2, <1>1
<1> HIDE DEF both
<1>5. Placed(both, a)
    BY <1>4 DEF Placed
<1>6. Flows(S, pos, b, q, both)
    BY <1>3, <1>5 DEF Flows
<1>7. End(pos, b, q, both) = End(pos, b, q, l) + Len(s)
    BY <1>1, <1>2, <1>3 DEF End
<1> QED BY <1>6, <1>7 DEF both

LEMMA Received == ASSUME NEW p, Receives(p) PROVE Served /\ waiting' = FALSE
BY DEF Receives, Served

LEMMA ReadsStep == Reads /\ [Next]_vars => Reads'
<1> SUFFICES ASSUME Reads, [Next]_vars PROVE Reads'
    OBVIOUS
<1> USE DEF FIRST_SEQ
<1>0. /\ part \in {"hdr", "body"} /\ c2s \in Nat /\ waiting \in BOOLEAN
      /\ stage = "newkeys" => c2s = 3
      /\ stage \in SealedStage => c2s >= 3 /\ (part = "body" => c2s >= 4)
    BY DEF Reads
<1>a. \A s \in SealedStage : s \notin PlainStage \cup {"stuck", "ended"}
    BY DEF SealedStage, PlainStage
<1>b. ASSUME part' \in {"hdr", "body"}, c2s' \in Nat, waiting' \in BOOLEAN,
             stage' = "newkeys" => c2s' = 3,
             stage' \in SealedStage => c2s' >= 3 /\ (part' = "body" => c2s' >= 4)
      PROVE  Reads'
    BY <1>b DEF Reads
<1>1. CASE Hello
  <2>1. stage' = "version" /\ part' = "body" /\ c2s' = c2s /\ waiting' = waiting
      BY <1>1 DEF Hello, GoTo, KeepSeq
  <2> QED BY <2>1, <1>0, <1>a, <1>b DEF PlainStage
<1>2. CASE Version
  <2>1. /\ stage' \in {"kexinit", "ended"} /\ part' \in {"hdr", part}
        /\ c2s' = c2s /\ waiting' \in {FALSE, waiting}
      BY <1>2, AfterVersion DEF KeepSeq, Receives, Refused
  <2> QED BY <2>1, <1>0, <1>a, <1>b DEF PlainStage
<1>3. CASE PlainHeader \/ Blocks
  <2>1. CASE PlainHeader
    <3>1. /\ stage \in PlainStage /\ stage' = stage /\ part' = "body"
          /\ c2s' = c2s /\ waiting' = FALSE
        BY <2>1 DEF PlainHeader, Receives
    <3> QED BY <3>1, <1>0, <1>a, <1>b DEF PlainStage
  <2>2. CASE Blocks
      BY <2>2, <1>0, <1>b DEF Blocks
  <2> QED BY <1>3, <2>1, <2>2
<1>4. CASE PlainMessage
  <2>1. PICK p : Kexinit(p) \/ EcdhInit(p) \/ Newkeys(p)
      BY <1>4 DEF PlainMessage, Plain
  <2>2. part' = "hdr" /\ waiting' \in {FALSE, waiting}
      BY <2>1, AfterPlain DEF PlainPacket, NoPacket, Receives, Refused
  <2>3. /\ stage' \in {"ecdh_init", "stuck", "newkeys", "ended", "service"}
        /\ stage' = "service" => stage = "newkeys"
        /\ IF stage' = "newkeys" THEN c2s' = FIRST_SEQ ELSE c2s' = c2s
      BY <2>1, AfterPlain
  <2>4. c2s' \in Nat /\ (stage' = "newkeys" => c2s' = 3) /\ (stage' = "service" => c2s' = 3)
      BY <2>3, <1>0
  <2>5. stage' \in SealedStage => stage' = "service"
      BY <2>3 DEF SealedStage
  <2>6. stage' \in SealedStage => c2s' >= 3 /\ (part' = "body" => c2s' >= 4)
      BY <2>2, <2>4, <2>5
  <2>7. part' \in {"hdr", "body"} /\ waiting' \in BOOLEAN
      BY <2>2, <1>0
  <2> QED BY <2>4, <2>6, <2>7, <1>b
<1>5. CASE SealedHeader
  <2>1. /\ stage \in SealedStage /\ part = "hdr" /\ c2s' = c2s + 1 /\ waiting' \in {FALSE, waiting}
        /\ part' \in {part, "body"} /\ stage' \in {stage, "stuck"}
      BY <1>5 DEF SealedHeader, Receives, Refused
  <2>2. stage' # "newkeys" /\ waiting' \in BOOLEAN
      BY <2>1, <1>0, <1>a DEF PlainStage
  <2>3. c2s' \in Nat /\ c2s' >= 4 /\ part' \in {"hdr", "body"}
      BY <2>1, <1>0
  <2> QED BY <2>2, <2>3, <1>b
<1>6. CASE SealedLost \/ LoopEnds
  <2>1. /\ stage' \in {"stuck", "ended"} /\ part' = part /\ c2s' = c2s
        /\ waiting' \in {FALSE, waiting}
      BY <1>6 DEF SealedLost, LoopEnds, EndsWith, Receives, Refused
  <2> QED BY <2>1, <1>0, <1>a, <1>b DEF PlainStage
<1>7. CASE SealedMessage
  <2>1. PICK p : Service(p) \/ Userauth(p) \/ OpenChannel(p) \/ ChnlReq(p) \/ SftpParse(p)
      BY <1>7 DEF SealedMessage
  <2>2. part = "body" /\ part' = "hdr" /\ c2s' = c2s /\ waiting' = FALSE
      BY <1>7, <2>1, AfterSealed DEF SealedPacket, SealedMessage, Receives
  <2>3. stage \in SealedStage /\ stage' \in SealedStage \cup {"ended"}
      BY <2>1, AfterSealed
  <2> QED BY <2>2, <2>3, <1>0, <1>a, <1>b DEF PlainStage
<1>8. CASE Modem
    BY <1>0, <1>b, <1>8 DEF Modem, ReportRecv, ReportClosed, server
<1>9. CASE Client
    BY <1>0, <1>b, <1>9 DEF Client, ClientSteps, ClientIgnores, ClientData, ClientDone, Sends,
                ClientReads, ClientLeaves, LinkBreaks, server
<1>10. CASE UNCHANGED vars
    BY <1>0, <1>b, <1>10 DEF vars, server
<1> QED BY <1>1, <1>2, <1>3, <1>4, <1>5, <1>6, <1>7, <1>8, <1>9, <1>10 DEF Next, Server

LEMMA ScriptIs ==
    /\ Len(Script) = 8
    /\ Script[1] = {"VERSION"} /\ Script[2] = {"KEXINIT"}
    /\ Script[3] = {"ECDH_INIT"} /\ Script[4] = {"NEWKEYS"}
    /\ \A k \in 1..8 : Script[k] \subseteq Type
    /\ \A k \in 2..8 : "VERSION" \notin Script[k]
<1>1. Len(Script) = 8
    BY DEF Script
<1>2. \A k \in 1..8 : Script[k] \subseteq Type
    BY <1>1 DEF Type
<1>3. /\ Script[1] = {"VERSION"} /\ Script[2] = {"KEXINIT"}
      /\ Script[3] = {"ECDH_INIT"} /\ Script[4] = {"NEWKEYS"}
    BY DEF Script
<1>4. /\ "VERSION" \notin Script[5] /\ "VERSION" \notin Script[6]
      /\ "VERSION" \notin Script[7] /\ "VERSION" \notin Script[8]
    BY DEF Script
<1>5. \A k \in 2..8 : k \in {2, 3, 4, 5, 6, 7, 8}
    OBVIOUS
<1> QED BY <1>1, <1>2, <1>3, <1>4, <1>5

LEMMA TypeHas ==
    /\ "IGNORE" \in Type /\ "DATA" \in Type /\ "WINDOW_ADJUST" \in Type
    /\ "EOF" \in Type /\ "CLOSE" \in Type /\ "KEXINIT" \in Type
<1> DEFINE scripted == UNION {Script[k] : k \in 1..Len(Script)}
<1>1. Type = scripted \cup {"IGNORE", "DATA", "WINDOW_ADJUST", "EOF", "CLOSE"}
    BY DEF Type, scripted
<1> HIDE DEF scripted
<1> QED BY <1>1, ScriptIs

Steps == {"VERSION", "KEXINIT", "ECDH_INIT", "NEWKEYS", "SERVICE_REQUEST", "USERAUTH_none",
          "CHANNEL_OPEN", "SUBSYSTEM"}

LEMMA OrderIs ==
    /\ Order \in Seq(Steps) /\ Len(Order) = 8
    /\ Order[1] = "VERSION" /\ Order[2] = "KEXINIT" /\ Order[3] = "ECDH_INIT"
    /\ Order[4] = "NEWKEYS" /\ Order[5] = "SERVICE_REQUEST" /\ Order[6] = "USERAUTH_none"
    /\ Order[7] = "CHANNEL_OPEN" /\ Order[8] = "SUBSYSTEM"
<1>1. Order \in Seq(Steps) /\ Len(Order) = 8
    BY DEF Order, Steps
<1>2. /\ Order[1] = "VERSION" /\ Order[2] = "KEXINIT" /\ Order[3] = "ECDH_INIT"
      /\ Order[4] = "NEWKEYS"
    BY DEF Order
<1>3. /\ Order[5] = "SERVICE_REQUEST" /\ Order[6] = "USERAUTH_none"
      /\ Order[7] = "CHANNEL_OPEN" /\ Order[8] = "SUBSYSTEM"
    BY DEF Order
<1> QED BY <1>1, <1>2, <1>3

(* A type of the script is sent at its own step, and KEXINIT once more at   *)
(* the end.                                                                 *)
LEMMA TypeAtStep ==
    /\ \A j, k \in 1..8 : Order[k] \in Script[j] => j = k
    /\ \A k \in 1..8 : Order[k] \notin {"IGNORE", "DATA", "WINDOW_ADJUST", "EOF", "CLOSE"}
<1>1. \A k \in 1..8 : k \in {1, 2, 3, 4, 5, 6, 7, 8}
    OBVIOUS
<1>2. /\ Script[1] = {"VERSION"} /\ Script[2] = {"KEXINIT"}
      /\ Script[3] = {"ECDH_INIT"} /\ Script[4] = {"NEWKEYS"}
      /\ Script[5] = {"SERVICE_REQUEST"} /\ Script[6] = {"USERAUTH_none", "USERAUTH_other"}
      /\ Script[7] = {"CHANNEL_OPEN"} /\ Script[8] = {"SUBSYSTEM", "REQUEST_other"}
    BY DEF Script
<1>3. ASSUME NEW j \in 1..8, NEW k \in 1..8, Order[k] \in Script[j] PROVE j = k
  <2>1. j \in {1, 2, 3, 4, 5, 6, 7, 8} /\ k \in {1, 2, 3, 4, 5, 6, 7, 8}
      BY <1>1
  <2> QED BY <2>1, <1>2, <1>3, OrderIs
<1>4. ASSUME NEW k \in 1..8
      PROVE  Order[k] \notin {"IGNORE", "DATA", "WINDOW_ADJUST", "EOF", "CLOSE"}
    BY <1>1, OrderIs
<1> QED BY <1>3, <1>4

(* What the client sends is fair, and what is on its way stays so. *)
LEMMA SentFair ==
    ASSUME Scripted, NEW t, NEW p, p = Sent(t), early' \in BOOLEAN, t = "VERSION" <=> step = 0,
           \/ ClientSteps /\ t \in Script[step + 1]
           \/ ClientIgnores /\ t = "IGNORE"
           \/ UNCHANGED <<early, step>> /\ step = 8
    PROVE  Fair(p)'
<1>1. /\ p.type = t /\ p.sealed \in BOOLEAN /\ (p.sealed <=> step >= 4)
      /\ p.seq = IF t = "VERSION" THEN -1 ELSE csent
  <2>1. p.type = t /\ p.sealed = Sealed /\ p.seq = IF t = "VERSION" THEN -1 ELSE csent
      BY DEF Sent
  <2>2. Sealed \in BOOLEAN /\ (Sealed <=> step >= 4)
      BY DEF Sealed
  <2> QED BY ONLY <2>1, <2>2, Zenon
<1>2. step \in 0..8 /\ csent \in Nat /\ (step >= 4 => csent > 2)
    BY ScriptIs DEF Scripted, FIRST_SEQ
<1>3. ASSUME ~early' => IF p.sealed THEN p.seq > 2 ELSE p.seq < 3 /\ p.type = Order[p.seq + 2],
             early' /\ p.type = "NEWKEYS" => p.seq > 2,
             \A k \in 1..8 : p.type = Order[k] => step' >= k
      PROVE  Fair(p)'
  <2>1. p.seq = -1 => p.type = "VERSION"
      BY <1>1, <1>2
  <2> QED BY <2>1, <1>3 DEF Fair
<1>4. CASE ClientSteps /\ t \in Script[step + 1]
  <2>1. step' = step + 1 /\ early' = early /\ step < 8
      BY <1>4, ScriptIs DEF ClientSteps
  <2>2. step + 1 \in 1..8 /\ (step # 0 => step + 1 \in 2..8)
      BY <2>1, <1>2
  <2>4. ASSUME NEW k \in 1..8, p.type = Order[k] PROVE step' >= k
    <3>1. step + 1 = k
        BY <2>2, <2>4, <1>1, <1>4, TypeAtStep
    <3> QED BY <3>1, <2>1
  <2>5. CASE step >= 4
    <3>1. p.sealed /\ p.seq > 2
        BY <2>5, <1>1, <1>2
    <3> QED BY <3>1, <2>4, <1>3
  <2>6. CASE step \in 0..3
    <3>1. ~p.sealed /\ step \in {0, 1, 2, 3}
        BY <2>6, <1>1, <1>2
    <3>2. /\ step = 0 => t = "VERSION"
          /\ step = 1 => t = "KEXINIT"
          /\ step = 2 => t = "ECDH_INIT"
          /\ step = 3 => t = "NEWKEYS"
        BY <3>1, <1>4, ScriptIs
    <3>3. ASSUME ~early PROVE p.seq = step - 1
        BY <3>1, <3>3, <1>1, <1>2 DEF Scripted
    <3>4. ASSUME ~early PROVE p.seq < 3 /\ p.type = Order[p.seq + 2]
      <4>1. p.seq < 3 /\ p.seq + 2 = step + 1
          BY <3>1, <3>3, <3>4
      <4>2. t = Order[step + 1]
          BY <3>1, <3>2, OrderIs
      <4> QED BY <4>1, <4>2, <1>1
    <3>5. ASSUME early, p.type = "NEWKEYS" PROVE p.seq > 2
      <4>1. step = 3
          BY <3>1, <3>2, <3>5, <1>1
      <4> QED BY <4>1, <3>2, <3>5, <1>1, <1>2 DEF Scripted
    <3> QED BY <3>1, <3>4, <3>5, <2>1, <2>4, <1>3
  <2> QED BY <2>5, <2>6, <1>2
<1>5. CASE ClientIgnores /\ t = "IGNORE"
  <2>1. step' = step /\ (early' <=> early \/ step < 4)
    <3>1. step' = step /\ early' = (early \/ ~Sealed)
        BY <1>5 DEF ClientIgnores
    <3>2. ~Sealed <=> step < 4
        BY <1>2 DEF Sealed
    <3> QED BY ONLY <3>1, <3>2, Zenon
  <2>2. \A k \in 1..8 : p.type # Order[k]
      BY <1>1, <1>5, TypeAtStep
  <2>3. ~early' => p.sealed /\ p.seq > 2
      BY <2>1, <1>1, <1>2, <1>5
  <2> QED BY <2>2, <2>3, <1>1, <1>3, <1>5
<1>6. CASE UNCHANGED <<early, step>> /\ step = 8
  <2>1. p.sealed /\ p.seq > 2
      BY <1>1, <1>2, <1>6
  <2>2. \A k \in 1..8 : step' >= k
      BY <1>6
  <2> QED BY <2>1, <2>2, <1>3
<1> QED BY <1>4, <1>5, <1>6

LEMMA ProperGrows ==
    ASSUME Scripted, step' \in 0..8, step' >= step, early' \in BOOLEAN,
           early => early', early' => early \/ step < 4
    PROVE  Proper \subseteq Proper'
<1> SUFFICES ASSUME NEW p, Fair(p) PROVE Fair(p)'
    BY DEF Proper, Lines, Type, Script
<1>1. step \in 0..8 /\ early \in BOOLEAN
    BY ScriptIs DEF Scripted
<1>2. \A k \in 1..8 : p.type = Order[k] => step >= k
    BY DEF Fair
<1>3. \A k \in 1..8 : p.type = Order[k] => step' >= k
    BY <1>1, <1>2
<1>4. step < 4 => p.type # "NEWKEYS"
  <2>1. 4 \in 1..8 /\ Order[4] = "NEWKEYS"
      BY OrderIs
  <2> QED BY <2>1, <1>1, <1>2
<1>5. CASE early
  <2>1. early'
      BY <1>5
  <2> QED BY <2>1, <1>3, <1>5 DEF Fair
<1>6. CASE ~early /\ ~early'
    BY <1>3, <1>6 DEF Fair
<1>7. CASE ~early /\ early'
  <2>1. p.type # "NEWKEYS"
      BY <1>4, <1>7
  <2> QED BY <2>1, <1>3, <1>7 DEF Fair
<1> QED BY <1>5, <1>6, <1>7

LEMMA ProperSame == ASSUME step' = step, early' = early PROVE Proper' = Proper
BY DEF Proper, Fair

(* What the client's next packet is, and where it is placed. *)
LEMMA SentIs ==
    ASSUME Scripted, NEW t \in Type, Sends(t), NEW p, p = Sent(t), Fair(p)',
           t = "VERSION" <=> step = 0
    PROVE  \E s \in Seq(Proper') :
              /\ net' = net \o s /\ Placed(s, SentEnd)
              /\ SentEnd + Len(s) = (IF step = 0 THEN 1 ELSE 2 * csent' + 1)
              /\ csent' = (IF step = 0 THEN csent ELSE csent + 1)
<1> DEFINE a == [of |-> p, half |-> "hdr"]
           b == [of |-> p, half |-> "body"]
<1>1. csent \in Nat /\ step \in 0..8
    BY ScriptIs DEF Scripted
<1>2. /\ p \in [type : Type, seq : Nat \cup {-1}, sealed : BOOLEAN]
      /\ p.seq = IF step = 0 THEN -1 ELSE csent
    BY <1>1 DEF Sent, Sealed
<1>3. a \in Proper' /\ b \in Proper'
    BY <1>2 DEF Proper, Lines
<1>4. Index(a) = 2 * p.seq + 1 /\ Index(b) = 2 * p.seq + 2
    BY DEF Index
<1>5. CASE step = 0
  <2>1. net' = net \o <<b>> /\ csent' = csent
      BY <1>5 DEF Sends, Half
  <2>2. Index(b) = 0
      BY <1>2, <1>4, <1>5
  <2> HIDE DEF b
  <2>3. <<b>> \in Seq(Proper') /\ Len(<<b>>) = 1 /\ Placed(<<b>>, 0)
      BY <2>2, <1>3 DEF Placed
  <2>4. SentEnd = 0 /\ SentEnd + Len(<<b>>) = 1
      BY <2>3, <1>5 DEF SentEnd
  <2> QED BY ONLY <2>1, <2>3, <2>4, <1>5
<1>6. CASE step # 0
  <2>1. net' = net \o <<a, b>> /\ csent' = csent + 1
      BY <1>6 DEF Sends, Half
  <2>2. Index(a) = 2 * csent + 1 /\ Index(b) = 2 * csent + 2
      BY <1>2, <1>4, <1>6
  <2> HIDE DEF a, b
  <2>3. <<a, b>> \in Seq(Proper') /\ Len(<<a, b>>) = 2
      BY <1>3
  <2>4. Placed(<<a, b>>, SentEnd)
    <3>1. \A k \in 1..2 : k = 1 \/ k = 2
        OBVIOUS
    <3> QED BY <3>1, <2>2, <2>3, <1>1, <1>6 DEF Placed, SentEnd
  <2>5. SentEnd + Len(<<a, b>>) = 2 * csent' + 1
      BY <2>1, <2>3, <1>1, <1>6 DEF SentEnd
  <2> QED BY ONLY <2>1, <2>3, <2>4, <2>5, <1>6
<1> QED BY <1>5, <1>6

LEMMA PosIs == ASSUME Reads PROVE Pos \in Int
BY DEF Reads, Pos, Awaits

(* Reading a half: it is the one that the server awaits, and the rest of    *)
(* the client's stream stays in order.                                      *)
LEMMA Advances ==
    ASSUME Reads, Ordered, NEW p, Receives(p), stage \in Reading,
           net' = net, link' = link, step' = step, early' = early
    PROVE  /\ \E h \in Proper : h.of = p /\ h.half = part /\ Index(h) = Pos
           /\ Flows(Proper', Pos + 1, recv_buff', conn_recv', net')
           /\ link' = "open" => End(Pos + 1, recv_buff', conn_recv', net') = SentEnd
<1> DEFINE b == recv_buff
           q == conn_recv
<1>1. Flows(Proper, Pos, b, q, net) /\ (link = "open" => End(Pos, b, q, net) = SentEnd)
    BY Received DEF Ordered
<1>2. Pos \in Int /\ Proper' = Proper /\ Proper \subseteq Lines
  <2>1. Proper \subseteq Lines
      BY DEF Proper
  <2> QED BY <2>1, PosIs, ProperSame
<1>3. b \in Seq(Proper) /\ q \in Seq(Seq(Proper) \ {<<>>})
    BY <1>1 DEF Flows
<1>4. ASSUME NEW c, NEW r, c # <<>>, Buffered = c, conn_recv' = r,
             Flows(Proper, Pos, c, r, net), End(Pos, c, r, net) = End(Pos, b, q, net)
      PROVE  /\ \E h \in Proper : h.of = p /\ h.half = part /\ Index(h) = Pos
             /\ Flows(Proper', Pos + 1, recv_buff', conn_recv', net')
             /\ link' = "open" => End(Pos + 1, recv_buff', conn_recv', net') = SentEnd
  <2>1. /\ Head(c) \in Proper /\ Index(Head(c)) = Pos
        /\ Flows(Proper, Pos + 1, Tail(c), r, net)
        /\ End(Pos + 1, Tail(c), r, net) = End(Pos, c, r, net)
      BY <1>2, <1>4, FlowReads
  <2>2. Head(c).half = part /\ Head(c).of = p /\ recv_buff' = Tail(c)
      BY <1>4 DEF Receives
  <2> QED BY <2>1, <2>2, <1>1, <1>2, <1>4
<1>5. CASE b # <<>>
  <2>1. Buffered = b
    <3>1. Buffered = b \o <<>>
        BY <1>5 DEF Buffered
    <3> QED BY <3>1, <1>3
  <2>2. conn_recv' = q
      BY <1>5 DEF Receives
  <2> QED BY <2>1, <2>2, <1>1, <1>4, <1>5
<1>6. CASE b = <<>>
  <2>1. q # <<>>
      BY <1>6 DEF Receives, Available
  <2>2. Head(q) \in Seq(Proper)
      BY <2>1, <1>3
  <2>3. Buffered = Head(q)
    <3>1. Buffered = <<>> \o Head(q)
        BY <1>6, <2>1 DEF Buffered
    <3> QED BY <3>1, <2>2
  <2>4. conn_recv' = Tail(q)
      BY <1>6 DEF Receives
  <2>5. /\ Flows(Proper, Pos, Head(q), Tail(q), net) /\ Head(q) # <<>>
        /\ End(Pos, Head(q), Tail(q), net) = End(Pos, b, q, net)
      BY <2>1, <1>1, <1>2, <1>6, FlowPops
  <2> QED BY <2>3, <2>4, <2>5, <1>4
<1> QED BY <1>5, <1>6

LEMMA ReadOn ==
    ASSUME Reads, Ordered, NEW p, Receives(p), stage \in Reading, UNCHANGED client, net' = net,
           stage' \in Reading => Pos' = Pos + 1
    PROVE  Ordered'
<1>1. link' = link /\ early' = early /\ step' = step /\ SentEnd' = SentEnd
    BY DEF client, SentEnd
<1> QED BY <1>1, Advances DEF Ordered

(* Which packet the server has in hand when it has read a body. *)
LEMMA TakenIs ==
    ASSUME Reads, Ordered, NEW p, Receives(p), net' = net, UNCHANGED client, part = "body",
           stage \in SealedStage \cup {"kexinit", "ecdh_init", "newkeys"}
    PROVE  /\ Fair(p) /\ p.type \in Type
           /\ ~early => /\ stage = "kexinit" => p.type = "KEXINIT"
                        /\ stage = "ecdh_init" => p.type = "ECDH_INIT"
                        /\ stage \in SealedStage => Opened(p)
           /\ stage = "newkeys" /\ p.type = "NEWKEYS" => ~early
<1>1. link' = link /\ step' = step /\ early' = early
    BY DEF client
<1>2. PICK h \in Proper : h.of = p /\ h.half = part /\ Index(h) = Pos
  <2>1. stage \in Reading
      BY DEF Reading, PlainStage
  <2> QED BY <2>1, <1>1, Advances
<1>3. Fair(p) /\ p.type \in Type /\ p.seq \in Int
    BY <1>2, ProperHalf
<1>4. Pos = 2 * Awaits + 2 /\ Awaits \in Int
  <2>1. stage \notin {"hello", "version"}
      BY DEF SealedStage
  <2> QED BY <2>1 DEF Pos, Awaits, Reads
<1>5. p.seq = Awaits
  <2>1. 2 * p.seq + 2 = 2 * Awaits + 2
      BY <1>2, <1>4 DEF Index
  <2>2. \A x, y \in Int : 2 * x + 2 = 2 * y + 2 => x = y
      OBVIOUS
  <2> QED BY ONLY <2>1, <2>2, <1>3, <1>4, Zenon
<1>6. CASE stage \in SealedStage
  <2>1. stage \notin {"kexinit", "ecdh_init", "newkeys"}
      BY <1>6 DEF SealedStage
  <2>2. p.seq = c2s - 1 /\ p.seq > 2
      BY <2>1, <1>5, <1>6 DEF Awaits, Reads, FIRST_SEQ
  <2>3. ~early => p.sealed
      BY <2>2, <1>3 DEF Fair
  <2> QED BY <2>1, <2>2, <2>3, <1>3 DEF Opened
<1>7. CASE stage \in {"kexinit", "ecdh_init", "newkeys"}
  <2>1. stage \notin SealedStage
      BY <1>7 DEF SealedStage
  <2>2. /\ stage = "kexinit" => p.seq = 0
        /\ stage = "ecdh_init" => p.seq = 1
        /\ stage = "newkeys" => p.seq = 2
      BY <1>5 DEF Awaits
  <2>3. ~early => p.type = Order[p.seq + 2]
      BY <2>2, <1>3, <1>7 DEF Fair
  <2>4. early /\ stage = "newkeys" => p.type # "NEWKEYS"
      BY <2>2, <1>3 DEF Fair
  <2>5. ~early => /\ stage = "kexinit" => p.type = "KEXINIT"
                  /\ stage = "ecdh_init" => p.type = "ECDH_INIT"
      BY <2>2, <2>3, OrderIs
  <2> QED BY <2>1, <2>4, <2>5, <1>3
<1> QED BY <1>6, <1>7

(* Reading a body moves on to the next header. *)
LEMMA NextHeader ==
    ASSUME Reads, part = "body", part' = "hdr",
           \/ stage = "kexinit" /\ stage' = "ecdh_init"
           \/ stage = "ecdh_init" /\ stage' = "newkeys"
           \/ stage = "newkeys" /\ stage' = "service" /\ c2s' = c2s
           \/ stage \in SealedStage /\ stage' \in SealedStage /\ c2s' = c2s
    PROVE  Pos' = Pos + 1
<1>1. \A s \in SealedStage : s \notin {"hello", "version", "kexinit", "ecdh_init", "newkeys"}
    BY DEF SealedStage
<1>2. c2s \in Nat
    BY DEF Reads
<1>3. CASE stage \in SealedStage /\ stage' \in SealedStage /\ c2s' = c2s
  <2>1. Pos = 2 * (c2s - 1) + 2 /\ Pos' = 2 * c2s + 1
      BY <1>1, <1>3 DEF Pos, Awaits
  <2> QED BY <2>1, <1>2
<1>4. CASE stage = "newkeys" /\ stage' = "service" /\ c2s' = c2s
  <2>1. Pos = 6 /\ Pos' = 2 * 3 + 1
      BY <1>4 DEF Pos, Awaits, Reads, FIRST_SEQ
  <2> QED BY <2>1
<1>5. CASE stage = "kexinit" /\ stage' = "ecdh_init"
    BY <1>5 DEF Pos, Awaits
<1>6. CASE stage = "ecdh_init" /\ stage' = "newkeys"
    BY <1>6 DEF Pos, Awaits
<1> QED BY <1>3, <1>4, <1>5, <1>6

(* What an action leaves to show, once Reads and Scripted are dealt with. *)
Sound == Ordered /\ Hashed /\ StuckOnlyAlone

LEMMA RefusedEnds ==
    ASSUME IInv, Refused PROVE link = "closed" /\ ~Served'
BY DEF IInv, Linked, Refused, Served, IsConn, socket

LEMMA PlainSound == ASSUME IInv, Reads, Sound, PlainMessage PROVE Sound'
<1>1. PICK p : Kexinit(p) \/ EcdhInit(p) \/ Newkeys(p)
    BY DEF PlainMessage, Plain
<1>2. UNCHANGED client /\ net' = net /\ link' = link /\ early' = early
    BY DEF PlainMessage, client
<1>3. stage \in Reading
    BY <1>1, AfterPlain DEF Reading, PlainStage
<1>4. /\ IF stage = "kexinit" THEN PlainPacket(p) => i_c' = p.type ELSE i_c' = i_c
      /\ stage = "ecdh_init" /\ stage' = "stuck" => PlainPacket(p) /\ p.type # "ECDH_INIT"
      /\ stage = "kexinit" /\ stage' = "stuck" => PlainPacket(p) /\ p.type # "KEXINIT"
  <2>0. PlainPacket(p) => ~NoPacket
      BY Received DEF PlainPacket, NoPacket, Refused, Served
  <2>1. CASE Kexinit(p)
    <3>1. stage = "kexinit"
        BY <2>1 DEF Kexinit
    <3>2. PlainPacket(p) => i_c' = p.type
        BY <2>0, <2>1 DEF Kexinit, Stored
    <3>3. stage' = "stuck" => PlainPacket(p) /\ p.type # "KEXINIT"
        BY <2>1 DEF Kexinit, GoTo
    <3> QED BY <3>1, <3>2, <3>3
  <2>2. CASE EcdhInit(p)
      BY <2>2, AfterEcdh
  <2>3. CASE Newkeys(p)
      BY <2>3, AfterNewkeys
  <2> QED BY <1>1, <2>1, <2>2, <2>3
<1>5. CASE PlainPacket(p)
  <2>1. Receives(p) /\ part = "body" /\ part' = "hdr" /\ Served
    <3>1. Receives(p) /\ part = "body" /\ part' = "hdr"
        BY <1>5 DEF PlainPacket
    <3> QED BY <3>1, Received
  <2>2. ~early => /\ stage = "kexinit" => p.type = "KEXINIT"
                  /\ stage = "ecdh_init" => p.type = "ECDH_INIT"
    <3>1. stage \in {"kexinit", "ecdh_init", "newkeys"}
        BY <1>1, AfterPlain
    <3> QED BY <3>1, <1>2, <2>1, TakenIs DEF Sound
  <2>3. stage' \in Reading => Pos' = Pos + 1
    <3>1. /\ stage' \in Reading => stage' \in {"ecdh_init", "newkeys", "service"}
          /\ stage' = "ecdh_init" => stage = "kexinit"
          /\ stage' = "newkeys" => stage = "ecdh_init"
          /\ stage' = "service" => stage = "newkeys" /\ c2s' = c2s
        BY <1>1, AfterPlain DEF Reading, PlainStage, SealedStage
    <3> QED BY <3>1, <2>1, NextHeader
  <2>4. Ordered'
      BY <1>2, <1>3, <2>1, <2>3, ReadOn DEF Sound
  <2>5. Hashed'
    <3>1. CASE early
        BY <3>1, <1>2 DEF Hashed
    <3>2. CASE ~early
      <4>1. stage = "kexinit" => i_c' = "KEXINIT"
          BY <3>2, <2>2, <1>4, <1>5
      <4>2. stage \in {"ecdh_init", "newkeys"} => i_c' = "KEXINIT"
          BY <3>2, <2>1, <1>4 DEF Sound, Hashed
      <4>3. stage \in {"kexinit", "ecdh_init", "newkeys"}
          BY <1>1, AfterPlain
      <4> QED BY <4>1, <4>2, <4>3 DEF Hashed
    <3> QED BY <3>1, <3>2
  <2>6. StuckOnlyAlone'
    <3>1. stage' = "stuck" => early'
      <4>1. stage' = "stuck" => stage \in {"kexinit", "ecdh_init"}
          BY <1>1, AfterPlain
      <4> QED BY <4>1, <1>2, <1>4, <2>2
    <3> QED BY <3>1 DEF StuckOnlyAlone
  <2> QED BY <2>4, <2>5, <2>6 DEF Sound
<1>6. CASE ~PlainPacket(p)
  <2>1. NoPacket /\ stage' \notin {"newkeys", "service"}
      BY <1>1, <1>6, AfterPlain
  <2>2. link = "closed" /\ ~Served'
      BY <2>1, RefusedEnds DEF NoPacket
  <2>3. stage' \in {"ecdh_init", "stuck", "ended"}
      BY <1>1, <2>1, AfterPlain
  <2> QED BY <1>2, <2>2, <2>3 DEF Sound, Ordered, Hashed, StuckOnlyAlone, SealedStage
<1> QED BY <1>5, <1>6

LEMMA SealedSound ==
    ASSUME IInv, Reads, Sound, SealedHeader \/ SealedLost \/ SealedMessage PROVE Sound'
<1>1. /\ UNCHANGED client /\ net' = net /\ link' = link /\ early' = early /\ i_c' = i_c
      /\ stage \in SealedStage /\ stage \in Reading
    BY AfterSealed DEF SealedHeader, SealedLost, SealedMessage, client, Reading
<1>2. stage' \in SealedStage \cup {"ended", "stuck"}
    BY AfterSealed DEF SealedHeader, SealedLost, SealedMessage
<1>3. Hashed'
  <2>1. stage' \in SealedStage \cup {"newkeys", "ecdh_init"} => stage' \in SealedStage
      BY <1>2 DEF SealedStage
  <2>2. stage' # "ecdh_init" \/ stage' \in SealedStage
      BY <1>2 DEF SealedStage
  <2>3. ~early' => i_c' = "KEXINIT"
      BY <1>1 DEF Sound, Hashed
  <2> QED BY <2>3 DEF Hashed
<1>4. CASE Refused /\ stage' = "stuck"
  <2>1. link = "closed"
      BY <1>4, RefusedEnds
  <2>2. stage' \notin Reading
      BY <1>4 DEF Reading, PlainStage, SealedStage
  <2> QED BY <2>1, <2>2, <1>1, <1>3 DEF Sound, Ordered, StuckOnlyAlone
<1>5. CASE SealedHeader /\ ~Refused
  <2>1. PICK p : /\ Receives(p) /\ part = "hdr" /\ part' = "body" /\ stage' = stage
                 /\ c2s' = c2s + 1
      BY <1>5 DEF SealedHeader
  <2>2. Pos' = Pos + 1
    <3>1. stage \notin {"hello", "version", "kexinit", "ecdh_init", "newkeys"}
        BY <1>1 DEF SealedStage
    <3>2. Pos = 2 * c2s + 1 /\ Pos' = 2 * (c2s' - 1) + 2
        BY <3>1, <2>1 DEF Pos, Awaits
    <3>3. c2s \in Nat /\ c2s' = c2s + 1
        BY <2>1 DEF Reads
    <3> QED BY ONLY <3>2, <3>3
  <2>3. Ordered'
      BY <1>1, <2>1, <2>2, ReadOn DEF Sound
  <2>4. stage' # "stuck"
      BY <2>1, <1>1 DEF SealedStage
  <2> QED BY <2>3, <2>4, <1>3 DEF Sound, StuckOnlyAlone
<1>6. CASE SealedLost /\ ~Refused
  <2>1. PICK p : Receives(p) /\ ~Opened(p) /\ part = "body" /\ stage' = "stuck"
      BY <1>6 DEF SealedLost
  <2>2. early
      BY <1>1, <2>1, TakenIs DEF Sound
  <2>3. stage' \notin Reading
      BY <2>1 DEF Reading, PlainStage, SealedStage
  <2> QED BY <1>1, <1>3, <2>2, <2>3 DEF Sound, Ordered, StuckOnlyAlone
<1>7. CASE SealedMessage
  <2>1. PICK p : Service(p) \/ Userauth(p) \/ OpenChannel(p) \/ ChnlReq(p) \/ SftpParse(p)
      BY <1>7 DEF SealedMessage
  <2>2. /\ Receives(p) /\ part = "body" /\ part' = "hdr" /\ c2s' = c2s
        /\ stage' \in SealedStage \cup {"ended"}
      BY <1>7, <2>1, AfterSealed DEF SealedPacket, SealedMessage
  <2>3. stage' \in Reading => Pos' = Pos + 1
    <3>1. stage' \in Reading => stage' \in SealedStage
        BY <2>2 DEF Reading, PlainStage, SealedStage
    <3> QED BY <3>1, <2>2, <1>1, NextHeader
  <2>4. Ordered'
      BY <1>1, <2>2, <2>3, ReadOn DEF Sound
  <2>5. stage' # "stuck"
      BY <2>2 DEF SealedStage
  <2> QED BY <2>4, <2>5, <1>3 DEF Sound, StuckOnlyAlone
<1>8. SealedHeader \/ SealedLost => ~Refused \/ stage' = "stuck"
  <2>1. ASSUME SealedHeader, stage' # "stuck" PROVE ~Refused
    <3>1. PICK p : Receives(p)
        BY <2>1 DEF SealedHeader
    <3>2. Served
        BY <3>1, Received
    <3> QED BY <3>2 DEF Refused, Served
  <2>2. SealedLost => stage' = "stuck"
      BY DEF SealedLost
  <2> QED BY <2>1, <2>2
<1> QED BY <1>4, <1>5, <1>6, <1>7, <1>8

LEMMA EarlierSound ==
    ASSUME IInv, Reads, Sound, Hello \/ Version \/ PlainHeader \/ LoopEnds \/ Blocks
    PROVE  Sound'
<1>1. /\ UNCHANGED client /\ net' = net /\ link' = link /\ early' = early /\ i_c' = i_c
      /\ Proper' = Proper
  <2>1. UNCHANGED client /\ net' = net /\ i_c' = i_c
      BY AfterVersion DEF Hello, PlainHeader, LoopEnds, Blocks
  <2> QED BY <2>1, ProperSame DEF client
<1>2. CASE Hello
  <2>1. stage = "hello" /\ stage' = "version" /\ UNCHANGED socket /\ waiting' = waiting
      BY <1>2 DEF Hello, GoTo
  <2>2. /\ Pos' = Pos /\ Served' = Served /\ SentEnd' = SentEnd
        /\ recv_buff' = recv_buff /\ conn_recv' = conn_recv
      BY <2>1, <1>1 DEF Pos, Served, IsConn, socket, SentEnd, client
  <2>3. Ordered'
      BY <2>1, <2>2, <1>1 DEF Sound, Ordered, Reading
  <2> QED BY <2>1, <2>3, <1>1 DEF Sound, Hashed, StuckOnlyAlone, SealedStage
<1>3. CASE Version
  <2>1. CASE (\E p : Receives(p)) /\ stage' = "kexinit" /\ part' = "hdr"
    <3>1. PICK p : Receives(p) /\ stage' = "kexinit" /\ part' = "hdr" /\ stage = "version"
        BY <2>1, <1>3, AfterVersion
    <3>2. Pos' = Pos + 1
        BY <3>1 DEF Pos, Awaits
    <3>3. Ordered'
      <4>1. stage \in Reading
          BY <3>1 DEF Reading, PlainStage
      <4> QED BY <1>1, <3>1, <3>2, <4>1, ReadOn DEF Sound
    <3> QED BY <3>1, <3>3 DEF Sound, Hashed, StuckOnlyAlone, SealedStage
  <2>2. CASE stage' = "ended"
      BY <2>2 DEF Sound, Ordered, Hashed, StuckOnlyAlone, Reading, PlainStage, SealedStage
  <2> QED BY <1>3, <2>1, <2>2, AfterVersion
<1>4. CASE PlainHeader
  <2>1. PICK p : /\ Receives(p) /\ part = "hdr" /\ part' = "body" /\ stage' = stage
                 /\ stage \in PlainStage \ {"version"} /\ c2s' = c2s
      BY <1>4 DEF PlainHeader
  <2>2. Pos' = Pos + 1
    <3>1. stage \in {"kexinit", "ecdh_init", "newkeys"}
        BY <2>1 DEF PlainStage
    <3> QED BY <3>1, <2>1 DEF Pos, Awaits
  <2>3. Ordered'
    <3>1. stage \in Reading
        BY <2>1 DEF Reading
    <3> QED BY <1>1, <2>1, <2>2, <3>1, ReadOn DEF Sound
  <2>4. Hashed' /\ StuckOnlyAlone'
      BY <1>1, <2>1, Received DEF Sound, Hashed, StuckOnlyAlone
  <2> QED BY <2>3, <2>4 DEF Sound
<1>5. CASE LoopEnds
    BY <1>5 DEF LoopEnds, EndsWith, Sound, Ordered, Hashed, StuckOnlyAlone,
                Reading, PlainStage, SealedStage
<1>6. CASE Blocks
  <2>1. /\ stage' = stage /\ part' = part /\ c2s' = c2s /\ UNCHANGED socket /\ Served
        /\ SentEnd' = SentEnd
      BY <1>6, <1>1 DEF Blocks, Served, SentEnd, client
  <2>2. Pos' = Pos /\ recv_buff' = recv_buff /\ conn_recv' = conn_recv
      BY <2>1 DEF Pos, Awaits, socket
  <2>3. Ordered'
      BY <2>1, <2>2, <1>1 DEF Sound, Ordered
  <2>4. Hashed' /\ StuckOnlyAlone'
      BY <2>1, <1>1 DEF Sound, Hashed, StuckOnlyAlone
  <2> QED BY <2>3, <2>4 DEF Sound
<1> QED BY <1>2, <1>3, <1>4, <1>5, <1>6

LEMMA ModemSound == ASSUME IInv, Reads, Sound, Modem PROVE Sound'
<1>1. /\ stage' = stage /\ part' = part /\ c2s' = c2s /\ i_c' = i_c /\ waiting' = waiting
      /\ link' = link /\ early' = early /\ SentEnd' = SentEnd /\ recv_buff' = recv_buff
      /\ step' = step
    BY DEF Modem, ReportRecv, ReportClosed, server, client, SentEnd
<1>2. Pos' = Pos
    BY <1>1 DEF Pos, Awaits
<1>3. Pos \in Int /\ Proper' = Proper /\ Proper \subseteq Lines
  <2>1. Proper \subseteq Lines
      BY DEF Proper
  <2> QED BY <2>1, <1>1, PosIs, ProperSame
<1>4. CASE ReportRecv
  <2>1. PICK k \in 1..Len(net) : /\ conn_recv' = Append(conn_recv, SubSeq(net, 1, k))
                                 /\ net' = SubSeq(net, k + 1, Len(net))
      BY <1>4 DEF ReportRecv
  <2>2. Served
      BY <1>4 DEF ReportRecv, IInv, Linked, Served, IsConn
  <2>3. Ordered'
    <3> SUFFICES ASSUME stage' \in Reading
                 PROVE  /\ Flows(Proper', Pos', recv_buff', conn_recv', net')
                        /\ link' = "open" => End(Pos', recv_buff', conn_recv', net') = SentEnd'
        BY DEF Ordered
    <3>1. /\ Flows(Proper, Pos, recv_buff, conn_recv, net)
          /\ link = "open" => End(Pos, recv_buff, conn_recv, net) = SentEnd
        BY <1>1, <2>2 DEF Sound, Ordered
    <3>2. /\ Flows(Proper, Pos, recv_buff, conn_recv', net')
          /\ End(Pos, recv_buff, conn_recv', net') = End(Pos, recv_buff, conn_recv, net)
        BY <3>1, <2>1, <1>3, FlowReports
    <3> QED BY <3>1, <3>2, <1>1, <1>2, <1>3
  <2> QED BY <2>2, <2>3, <1>1 DEF Sound, Hashed, StuckOnlyAlone
<1>5. CASE ReportClosed
  <2>1. net' = net /\ conn_recv' = conn_recv /\ (Served' => Served)
      BY <1>5, <1>1 DEF ReportClosed, Served, IsConn
  <2>2. Ordered'
      BY <2>1, <1>1, <1>2, <1>3 DEF Sound, Ordered
  <2> QED BY <2>1, <2>2, <1>1 DEF Sound, Hashed, StuckOnlyAlone
<1> QED BY <1>4, <1>5 DEF Modem

LEMMA SendsSound ==
    ASSUME IInv, Scripted, Reads, Sound,
           ClientSteps \/ ClientIgnores \/ ClientData \/ ClientDone
    PROVE  Sound' /\ Scripted' /\ step' >= step /\ (early => early') /\ (early' => early \/ step < 4)
<1>0. step \in 0..8 /\ csent \in Nat /\ link \in {"open", "closed"} /\ early \in BOOLEAN
    BY ScriptIs DEF Scripted
<1>1. PICK t \in Type : /\ Sends(t)
                        /\ t = "VERSION" <=> step = 0
                        /\ step \in 0..3 => step' = step + 1 \/ (early' /\ step # 0)
                        /\ step' \in {step, step + 1} /\ step' \in 0..8 /\ (step = 0 => step' = 1)
                        /\ early' \in BOOLEAN /\ (early => early') /\ (early' => early \/ step \in 1..3)
                        /\ \/ ClientSteps /\ t \in Script[step + 1]
                           \/ ClientIgnores /\ t = "IGNORE"
                           \/ UNCHANGED <<early, step>> /\ step = 8
  <2>1. CASE ClientSteps
    <3>1. /\ step < 8 /\ step' = step + 1 /\ early' = early
          /\ \E t \in Script[step + 1] : Sends(t)
        BY <2>1, ScriptIs DEF ClientSteps
    <3>2. PICK t \in Script[step + 1] : Sends(t)
        BY <3>1
    <3>3. step + 1 \in 1..8 /\ (step # 0 => step + 1 \in 2..8)
        BY <1>0, <3>1
    <3>4. t \in Type /\ (step # 0 => t # "VERSION") /\ (step = 0 => t = "VERSION")
        BY <3>2, <3>3, ScriptIs
    <3> QED BY <3>1, <3>2, <3>3, <3>4, <1>0, <2>1
  <2>2. CASE ClientIgnores
    <3>1. /\ Sends("IGNORE") /\ step > 0 /\ step' = step
          /\ early' = (early \/ ~Sealed) /\ "IGNORE" \in Type
        BY <2>2, TypeHas DEF ClientIgnores
    <3>2. early' <=> early \/ step < 4
      <4>1. ~Sealed <=> step < 4
          BY <1>0 DEF Sealed
      <4> QED BY ONLY <3>1, <4>1, Zenon
    <3>3. early' \in BOOLEAN /\ (early => early') /\ (early' => early \/ step \in 1..3)
      <4>1. step < 4 => step \in 1..3
          BY <3>1, <1>0
      <4>2. early' \in BOOLEAN
          BY <3>1, Zenon
      <4> QED BY <3>2, <4>1, <4>2
    <3>4. step \in 0..3 => early'
        BY <3>2
    <3> QED BY <3>1, <3>3, <3>4, <1>0, <2>2
  <2>3. CASE ClientData
    <3>1. \E t \in {"DATA", "WINDOW_ADJUST"} : Sends(t)
        BY <2>3 DEF ClientData
    <3>2. step = 8 /\ step' = step /\ early' = early
        BY <2>3, ScriptIs DEF ClientData, Ready
    <3> QED BY <3>1, <3>2, <1>0, TypeHas
  <2>4. CASE ClientDone
    <3>1. \E t \in {"EOF", "CLOSE", "KEXINIT"} : Sends(t)
        BY <2>4 DEF ClientDone
    <3>2. step = 8 /\ step' = step /\ early' = early
        BY <2>4, ScriptIs DEF ClientDone, Ready
    <3> QED BY <3>1, <3>2, <1>0, TypeHas
  <2> QED BY <2>1, <2>2, <2>3, <2>4
<1>2. /\ UNCHANGED <<server, socket>> /\ link' = link /\ link = "open"
      /\ IF step = 0 THEN csent' = csent ELSE csent' = csent + 1
  <2>1. IF t = "VERSION" THEN csent' = csent ELSE csent' = csent + 1
      BY <1>1 DEF Sends
  <2> QED BY <2>1, <1>1 DEF Sends
<1>4. Scripted'
  <2>1. /\ step' \in 0..Len(Script) /\ csent' \in Nat /\ link' \in {"open", "closed"}
        /\ early' \in BOOLEAN /\ step' # 0
      BY <1>0, <1>1, <1>2, ScriptIs
  <2>2. step' >= 4 => csent' >= FIRST_SEQ
    <3>1. CASE step >= 4
        BY <3>1, <1>0, <1>2 DEF Scripted, FIRST_SEQ
    <3>2. CASE step < 4
      <4>1. step' >= 4 => step = 3
          BY <3>2, <1>0, <1>1
      <4>2. step = 3 => csent >= 2 /\ csent' = csent + 1
          BY <1>0, <1>2 DEF Scripted
      <4> QED BY <4>1, <4>2, <1>0 DEF FIRST_SEQ
    <3> QED BY <3>1, <3>2, <1>0
  <2>3. ASSUME step' \in 1..3, early' PROVE csent' >= step'
    <3>1. CASE step = 0
      <4>1. ~early
          BY <3>1, <1>0 DEF Scripted
      <4> QED BY <4>1, <3>1, <2>3, <1>1
    <3>2. CASE step # 0
      <4>1. step \in 1..3 /\ csent' = csent + 1 /\ csent >= step - 1
        <5>1. step \in 1..3 /\ csent' = csent + 1
            BY <3>2, <2>3, <1>0, <1>1, <1>2
        <5>2. csent >= step - 1
            BY <5>1, <1>0 DEF Scripted
        <5> QED BY <5>1, <5>2
      <4>2. CASE step' = step
          BY <4>1, <4>2, <1>0
      <4>3. CASE step' # step
        <5>1. ClientSteps
            BY <4>3, <1>1 DEF ClientIgnores
        <5>2. early /\ step' = step + 1
            BY <5>1, <2>3 DEF ClientSteps
        <5> QED BY <5>2, <4>1, <1>0 DEF Scripted
      <4> QED BY <4>2, <4>3
    <3> QED BY <3>1, <3>2
  <2>4. ASSUME step' \in 1..3, ~early' PROVE csent' = step' - 1
    <3>1. ~early /\ step \in 0..3 /\ step' = step + 1
        BY <2>4, <1>0, <1>1
    <3>2. CASE step = 0
        BY <3>1, <3>2, <1>2 DEF Scripted
    <3>3. CASE step # 0
        BY <3>1, <3>3, <1>0, <1>2 DEF Scripted
    <3> QED BY <3>2, <3>3
  <2> QED BY <2>1, <2>2, <2>3, <2>4 DEF Scripted
<1>5. /\ stage' = stage /\ i_c' = i_c /\ Served' = Served /\ Pos' = Pos
      /\ recv_buff' = recv_buff /\ conn_recv' = conn_recv
    BY <1>2 DEF server, socket, Served, IsConn, Pos, Awaits
<1>6. Hashed' /\ StuckOnlyAlone'
    BY <1>0, <1>1, <1>2, <1>5 DEF Sound, Hashed, StuckOnlyAlone
<1>7. Ordered'
  <2> SUFFICES ASSUME Served', stage' \in Reading
               PROVE  /\ Flows(Proper', Pos', recv_buff', conn_recv', net')
                      /\ End(Pos', recv_buff', conn_recv', net') = SentEnd'
      BY DEF Ordered
  <2>1. /\ Flows(Proper, Pos, recv_buff, conn_recv, net)
        /\ End(Pos, recv_buff, conn_recv, net) = SentEnd
      BY <1>2, <1>5 DEF Sound, Ordered
  <2>2. Proper \subseteq Proper'
    <3>1. step' >= step /\ (early => early') /\ (early' => early \/ step < 4)
        BY <1>0, <1>1
    <3> QED BY <3>1, <1>1, ProperGrows
  <2>3. PICK s \in Seq(Proper') :
              /\ net' = net \o s /\ Placed(s, SentEnd)
              /\ SentEnd + Len(s) = (IF step = 0 THEN 1 ELSE 2 * csent' + 1)
    <3>1. PICK p : p = Sent(t)
        OBVIOUS
    <3>2. Fair(p)'
        BY <3>1, <1>1, SentFair
    <3> QED BY <3>1, <3>2, <1>1, SentIs
  <2>4. Pos \in Int /\ Proper' \subseteq Lines
      BY PosIs DEF Proper
  <2>5. Flows(Proper', Pos, recv_buff, conn_recv, net)
      BY <2>1, <2>2, FlowGrows
  <2>6. /\ Flows(Proper', Pos, recv_buff, conn_recv, net')
        /\ End(Pos, recv_buff, conn_recv, net') = SentEnd + Len(s)
      BY <2>1, <2>3, <2>4, <2>5, FlowSends
  <2>7. SentEnd' = (IF step = 0 THEN 1 ELSE 2 * csent' + 1)
    <3>1. CASE step = 0
      <4>1. step' = 1 /\ csent' = 0
          BY <3>1, <1>1, <1>2 DEF Scripted
      <4> QED BY <4>1, <3>1 DEF SentEnd
    <3>2. CASE step # 0
      <4>1. step' # 0
          BY <3>2, <1>0, <1>1
      <4> QED BY <4>1, <3>2 DEF SentEnd
    <3> QED BY <3>1, <3>2
  <2> QED BY <2>3, <2>6, <2>7, <1>5
<1> QED BY <1>0, <1>1, <1>4, <1>6, <1>7 DEF Sound

LEMMA OtherClientSound ==
    ASSUME IInv, Scripted, Reads, Sound, ClientReads \/ ClientLeaves \/ LinkBreaks
    PROVE  Sound' /\ Scripted'
<1>1. /\ UNCHANGED <<server, socket>> /\ step' = step /\ csent' = csent /\ early' = early
      /\ link' \in {link, "closed"} /\ link = "open"
    BY DEF ClientReads, ClientLeaves, LinkBreaks
<1>2. Scripted'
    BY <1>1 DEF Scripted
<1>3. /\ stage' = stage /\ i_c' = i_c /\ Served' = Served /\ Pos' = Pos /\ SentEnd' = SentEnd
      /\ recv_buff' = recv_buff /\ conn_recv' = conn_recv /\ Proper' = Proper
    BY <1>1, ProperSame DEF server, socket, Served, IsConn, Pos, Awaits, SentEnd
<1>4. Hashed' /\ StuckOnlyAlone'
    BY <1>1, <1>3 DEF Sound, Hashed, StuckOnlyAlone
<1>5. CASE ClientReads \/ ClientLeaves
  <2>1. net' = net
      BY <1>5 DEF ClientReads, ClientLeaves
  <2>2. Ordered'
      BY <2>1, <1>1, <1>3 DEF Sound, Ordered
  <2> QED BY <2>2, <1>2, <1>4 DEF Sound
<1>6. CASE LinkBreaks
  <2>1. PICK k \in 0..Len(net) : net' = SubSeq(net, 1, k) /\ link' = "closed"
      BY <1>6 DEF LinkBreaks
  <2>2. Pos \in Int /\ Proper \subseteq Lines
      BY PosIs DEF Proper
  <2>3. Flows(Proper, Pos, recv_buff, conn_recv, net) => Flows(Proper, Pos, recv_buff, conn_recv, net')
      BY <2>1, <2>2, FlowBreaks
  <2>4. Ordered'
      BY <2>1, <2>3, <1>1, <1>3 DEF Sound, Ordered
  <2> QED BY <2>4, <1>2, <1>4 DEF Sound
<1> QED BY <1>5, <1>6

LEMMA AppendIs ==
    ASSUME NEW S, NEW s \in Seq(S), NEW e \in S, NEW t \in Seq(S), Len(t) = Len(s) + 1,
           \A k \in 1..Len(s) : t[k] = s[k], t[Len(t)] = e
    PROVE  Append(s, e) = t
<1>1. Append(s, e) \in Seq(S) /\ Len(Append(s, e)) = Len(t)
    OBVIOUS
<1>2. \A k \in 1..Len(t) : Append(s, e)[k] = t[k]
    OBVIOUS
<1> QED BY <1>1, <1>2, SeqEqual

(* A stage that goes on has taken the message of its step. *)
LEMMA PassedIs ==
    ASSUME NEW n \in 0..8
    PROVE  Passed(n) \in Seq(Steps) /\ Len(Passed(n)) = n /\ \A k \in 1..n : Passed(n)[k] = Order[k]
<1>1. Order \in Seq(Steps) /\ 1 \in 1..(Len(Order) + 1) /\ n \in 0..Len(Order)
    BY OrderIs
<1>2. /\ SubSeq(Order, 1, n) \in Seq(Steps)
      /\ Len(SubSeq(Order, 1, n)) = IF 1 <= n THEN n - 1 + 1 ELSE 0
      /\ \A i \in 1..(n - 1 + 1) : SubSeq(Order, 1, n)[i] = Order[1 + i - 1]
    BY ONLY <1>1, SubSeqProperties
<1>3. n - 1 + 1 = n /\ (IF 1 <= n THEN n - 1 + 1 ELSE 0) = n /\ \A i \in 1..n : 1 + i - 1 = i
    OBVIOUS
<1> QED BY ONLY <1>2, <1>3 DEF Passed

LEMMA PassedOn ==
    ASSUME NEW n \in 0..7 PROVE Append(Passed(n), Order[n + 1]) = Passed(n + 1)
<1> DEFINE s == Passed(n)
           t == Passed(n + 1)
<1>1. /\ s \in Seq(Steps) /\ Len(s) = n /\ \A k \in 1..n : s[k] = Order[k]
      /\ t \in Seq(Steps) /\ Len(t) = n + 1 /\ \A k \in 1..(n + 1) : t[k] = Order[k]
  <2>1. n \in 0..8 /\ n + 1 \in 0..8
      OBVIOUS
  <2> QED BY ONLY <2>1, PassedIs
<1>2. Order[n + 1] \in Steps
  <2>1. Order \in Seq(Steps) /\ n + 1 \in 1..Len(Order)
      BY OrderIs
  <2> QED BY ONLY <2>1, ElementOfSeq
<1> HIDE DEF s, t
<1>3. (\A k \in 1..Len(s) : t[k] = s[k]) /\ t[Len(t)] = Order[n + 1]
    BY <1>1
<1> QED BY <1>1, <1>2, <1>3, AppendIs DEF s, t

LEMMA PassedStart == Passed(0) = <<>>
BY OrderIs DEF Passed

LEMMA ReachedIs ==
    /\ Reached["service"] = 4 /\ Reached["userauth"] = 5 /\ Reached["openchannel"] = 6
    /\ Reached["chnlreq"] = 7 /\ Reached["sftp"] = 8
    /\ \A s \in SealedStage : Reached[s] \in 4..8
BY DEF Reached, SealedStage

LEMMA TrailOther ==
    ASSUME Trail, stage' \in {"ended", "stuck"} \/ (UNCHANGED <<stage, accepted, client>> /\ (Served' => Served))
    PROVE  Trail'
<1>1. CASE stage' \in {"ended", "stuck"}
    BY <1>1 DEF Trail, SealedStage
<1>2. CASE UNCHANGED <<stage, accepted, client>> /\ (Served' => Served)
    BY <1>2 DEF Trail, client
<1> QED BY <1>1, <1>2

LEMMA TrailPlain == ASSUME IInv, Reads, Ordered, Trail, PlainMessage PROVE Trail'
<1>1. PICK p : Kexinit(p) \/ EcdhInit(p) \/ Newkeys(p)
    BY DEF PlainMessage, Plain
<1>2. UNCHANGED client /\ net' = net /\ early' = early /\ step' = step
    BY DEF PlainMessage, client
<1>3. CASE stage' \in {"ended", "stuck"}
    BY <1>3, TrailOther
<1>4. CASE NoPacket /\ stage' = "ecdh_init"
  <2>1. ~Served'
      BY <1>4, RefusedEnds DEF NoPacket
  <2> QED BY <2>1, <1>4 DEF Trail, SealedStage
<1>5. CASE PlainPacket(p) /\ stage' \notin {"ended", "stuck"}
  <2>1. Receives(p) /\ part = "body" /\ Served /\ stage \in {"kexinit", "ecdh_init", "newkeys"}
    <3>1. Receives(p) /\ part = "body"
        BY <1>5 DEF PlainPacket
    <3> QED BY <3>1, <1>1, Received, AfterPlain
  <2>2. /\ Fair(p)
        /\ ~early => /\ stage = "kexinit" => p.type = "KEXINIT"
                     /\ stage = "ecdh_init" => p.type = "ECDH_INIT"
        /\ stage = "newkeys" /\ p.type = "NEWKEYS" => ~early
      BY <1>2, <2>1, TakenIs
  <2>3. CASE Kexinit(p)
    <3>1. ~NoPacket
        BY <2>1 DEF NoPacket, Refused, Served
    <3>2. /\ stage = "kexinit" /\ stage' = "ecdh_init" /\ accepted' = Append(accepted, p.type)
        BY <2>3, <3>1, <1>5 DEF Kexinit, GoTo, Asserts
    <3>3. accepted = Passed(1)
        BY <3>2 DEF Trail
    <3>4. ~early => accepted' = Passed(2)
      <4>1. Append(Passed(1), Order[1 + 1]) = Passed(1 + 1)
          BY PassedOn
      <4> QED BY <4>1, <2>2, <3>2, <3>3, OrderIs
    <3> QED BY <3>2, <3>4, <1>2 DEF Trail, SealedStage
  <2>4. CASE EcdhInit(p)
    <3>1. stage = "ecdh_init" /\ stage' = "newkeys" /\ accepted' = Append(accepted, p.type)
        BY <2>4, <1>5, AfterEcdh
    <3>2. ~early => accepted = Passed(2)
        BY <3>1, <2>1 DEF Trail
    <3>3. ~early => accepted' = Passed(3)
      <4>1. Append(Passed(2), Order[2 + 1]) = Passed(2 + 1)
          BY PassedOn
      <4> QED BY <4>1, <2>2, <3>1, <3>2, OrderIs
    <3> QED BY <3>1, <3>3, <1>2 DEF Trail, SealedStage
  <2>5. CASE Newkeys(p)
    <3>1. /\ stage = "newkeys" /\ stage' = "service" /\ p.type = "NEWKEYS"
          /\ accepted' = Append(accepted, "NEWKEYS")
        BY <2>5, <1>5, AfterNewkeys
    <3>2. ~early /\ accepted = Passed(3)
        BY <3>1, <2>2 DEF Trail
    <3>3. accepted' = Passed(4)
      <4>1. Append(Passed(3), Order[3 + 1]) = Passed(3 + 1)
          BY PassedOn
      <4> QED BY <4>1, <3>1, <3>2, OrderIs
    <3>4. step >= 4
      <4>1. 4 \in 1..8
          OBVIOUS
      <4> QED BY <4>1, <2>2, <3>1, OrderIs DEF Fair
    <3> QED BY <3>1, <3>2, <3>3, <3>4, <1>2, ReachedIs DEF Trail
  <2> QED BY <1>1, <2>3, <2>4, <2>5
<1> QED BY <1>1, <1>3, <1>4, <1>5, AfterPlain

LEMMA TrailSealed == ASSUME Reads, Ordered, Trail, SealedMessage PROVE Trail'
<1>1. PICK p : Service(p) \/ Userauth(p) \/ OpenChannel(p) \/ ChnlReq(p) \/ SftpParse(p)
    BY DEF SealedMessage
<1>2. UNCHANGED client /\ net' = net /\ early' = early /\ step' = step
    BY DEF SealedMessage, client
<1>3. Fair(p) /\ stage \in SealedStage
  <2>1. Receives(p) /\ part = "body" /\ stage \in SealedStage
      BY <1>1, AfterSealed DEF SealedPacket
  <2> QED BY <2>1, <1>2, TakenIs
<1>4. ~early /\ accepted = Passed(Reached[stage]) /\ step >= Reached[stage]
    BY <1>3 DEF Trail
<1>5. ASSUME NEW n \in 4..7, p.type = Order[n + 1], accepted' = Append(accepted, p.type),
             Reached[stage] = n, stage' \in SealedStage, Reached[stage'] = n + 1
      PROVE  Trail'
  <2>1. Append(Passed(n), Order[n + 1]) = Passed(n + 1)
    <3>1. n \in 0..7
        OBVIOUS
    <3> QED BY <3>1, PassedOn
  <2>2. accepted' = Passed(n + 1)
      BY <2>1, <1>4, <1>5
  <2>3. step >= n + 1
    <3>1. n + 1 \in 1..8
        OBVIOUS
    <3> QED BY <3>1, <1>3, <1>5 DEF Fair
  <2> QED BY <2>2, <2>3, <1>2, <1>4, <1>5 DEF Trail, SealedStage
<1>6. CASE Service(p)
  <2>1. /\ stage = "service" /\ \/ /\ stage' = "userauth" /\ p.type = "SERVICE_REQUEST"
                                   /\ accepted' = Append(accepted, p.type)
                                \/ stage' = "ended"
      BY <1>6, Answered DEF Service
  <2> QED BY <2>1, <1>5, TrailOther, ReachedIs, OrderIs DEF SealedStage
<1>7. CASE Userauth(p)
  <2>1. /\ stage = "userauth" /\ \/ /\ stage' = "openchannel" /\ p.type = "USERAUTH_none"
                                    /\ accepted' = Append(accepted, p.type)
                                 \/ stage' = "ended"
      BY <1>7, Answered DEF Userauth
  <2> QED BY <2>1, <1>5, TrailOther, ReachedIs, OrderIs DEF SealedStage
<1>8. CASE OpenChannel(p)
  <2>1. /\ stage = "openchannel" /\ \/ /\ stage' = "chnlreq" /\ p.type = "CHANNEL_OPEN"
                                       /\ accepted' = Append(accepted, p.type)
                                    \/ stage' = "ended"
      BY <1>8, Answered DEF OpenChannel
  <2> QED BY <2>1, <1>5, TrailOther, ReachedIs, OrderIs DEF SealedStage
<1>9. CASE ChnlReq(p)
  <2>1. /\ stage = "chnlreq" /\ \/ /\ stage' = "sftp" /\ p.type = "SUBSYSTEM"
                                   /\ accepted' = Append(accepted, p.type)
                                \/ stage' = "ended"
      BY <1>9, Answered DEF ChnlReq
  <2> QED BY <2>1, <1>5, TrailOther, ReachedIs, OrderIs DEF SealedStage
<1>10. CASE SftpParse(p)
  <2>1. stage = "sftp" /\ accepted' = accepted /\ stage' \in {"sftp", "ended"}
      BY <1>10 DEF SftpParse, GoTo, EndsWith
  <2>2. CASE stage' = "ended"
      BY <2>2, TrailOther
  <2>3. CASE stage' = "sftp"
      BY <2>1, <2>3, <1>2, <1>4 DEF Trail, SealedStage
  <2> QED BY <2>1, <2>2, <2>3
<1> QED BY <1>1, <1>6, <1>7, <1>8, <1>9, <1>10

LEMMA TrailServer == ASSUME IInv, Reads, Ordered, Trail, Server PROVE Trail'
<1>1. CASE Hello
  <2>1. stage = "hello" /\ stage' = "version" /\ accepted' = accepted
      BY <1>1 DEF Hello, GoTo
  <2> QED BY <2>1 DEF Trail, SealedStage
<1>2. CASE Version
  <2>1. CASE stage' = "ended"
      BY <2>1, TrailOther
  <2>2. CASE stage' # "ended"
    <3>1. PICK p : Receives(p) /\ Takes(p)
        BY <1>2, <2>2, AfterVersion
    <3>2. stage = "version" /\ stage' = "kexinit" /\ UNCHANGED <<client, net>>
        BY <1>2, <2>2, AfterVersion
    <3>3. PICK h \in Proper : h.of = p /\ h.half = part /\ Index(h) = Pos
      <4>1. stage \in Reading /\ link' = link /\ step' = step /\ early' = early
          BY <3>2 DEF Reading, PlainStage, client
      <4> QED BY <4>1, <3>1, <3>2, Advances
    <3>4. Fair(p) /\ p.seq \in Int /\ Pos = 0
        BY <3>2, <3>3, ProperHalf DEF Pos
    <3>5. p.seq = -1
      <4>1. 2 * p.seq + 1 = 0 \/ 2 * p.seq + 2 = 0
          BY <3>3, <3>4 DEF Index
      <4> QED BY <4>1, <3>4
    <3>6. p.type = "VERSION"
        BY <3>4, <3>5 DEF Fair
    <3>7. accepted' = Passed(1)
      <4>1. Append(Passed(0), Order[0 + 1]) = Passed(0 + 1)
          BY PassedOn
      <4>2. accepted = Passed(0)
          BY <3>2 DEF Trail
      <4> QED BY <4>1, <4>2, <3>1, <3>6, OrderIs DEF Takes
    <3> QED BY <3>2, <3>7 DEF Trail, SealedStage
  <2> QED BY <2>1, <2>2
<1>3. CASE PlainHeader
  <2>1. (\E p : Receives(p)) /\ UNCHANGED <<stage, accepted, client>>
      BY <1>3 DEF PlainHeader
  <2> QED BY <2>1, Received, TrailOther
<1>4. CASE PlainMessage
    BY <1>4, TrailPlain
<1>5. CASE SealedHeader
  <2>1. stage \in SealedStage /\ stage' \in {stage, "stuck"} /\ UNCHANGED <<accepted, client>>
      BY <1>5 DEF SealedHeader
  <2>2. CASE stage' = "stuck"
      BY <2>2, TrailOther
  <2>3. CASE stage' = stage
      BY <2>1, <2>3 DEF Trail, client, SealedStage
  <2> QED BY <2>1, <2>2, <2>3
<1>6. CASE SealedLost \/ LoopEnds
    BY <1>6, TrailOther DEF SealedLost, LoopEnds, EndsWith
<1>7. CASE SealedMessage
    BY <1>7, TrailSealed
<1>8. CASE Blocks
  <2>1. Served /\ UNCHANGED <<stage, accepted, client>>
      BY <1>8 DEF Blocks, Served
  <2> QED BY <2>1, TrailOther
<1> QED BY <1>1, <1>2, <1>3, <1>4, <1>5, <1>6, <1>7, <1>8 DEF Server

LEMMA TrailModem == ASSUME IInv, Trail, Modem PROVE Trail'
<1>1. UNCHANGED <<stage, accepted, client>> /\ waiting' = waiting
    BY DEF Modem, ReportRecv, ReportClosed, server
<1>2. Served' => Served
  <2>1. CASE ReportRecv
      BY <2>1 DEF ReportRecv, IInv, Linked, Served, IsConn
  <2>2. CASE ReportClosed
      BY <2>2, <1>1 DEF ReportClosed, Served, IsConn
  <2> QED BY <2>1, <2>2 DEF Modem
<1> QED BY <1>1, <1>2, TrailOther

LEMMA TrailClient ==
    ASSUME Trail, Scripted, UNCHANGED <<server, socket>>,
           step' \in Nat, step' >= step, early => early', early' => early \/ step < 4
    PROVE  Trail'
<1>1. stage' = stage /\ accepted' = accepted /\ Served' = Served
    BY DEF server, socket, Served, IsConn
<1>2. ASSUME stage \in SealedStage
      PROVE  ~early' /\ step' >= Reached[stage]
  <2>1. Reached[stage] \in 4..8 /\ ~early /\ step >= Reached[stage] /\ step \in 0..8
      BY <1>2, ReachedIs, ScriptIs DEF Trail, Scripted
  <2>2. step >= 4 /\ step' >= Reached[stage]
      BY <2>1
  <2> QED BY <2>1, <2>2
<1>3. ~early' => ~early
    BY DEF Scripted
<1> QED BY <1>1, <1>2, <1>3 DEF Trail

LEMMA OrderStep == IInv /\ OInv /\ [Next]_vars => OInv'
<1> SUFFICES ASSUME IInv, OInv, [Next]_vars PROVE OInv'
    OBVIOUS
<1>1. Scripted /\ Reads /\ Sound /\ Trail /\ Ordered
    BY DEF OInv, Sound
<1>2. Reads'
    BY <1>1, ReadsStep
<1>3. Sound' /\ Scripted' /\ Trail' => OInv'
    BY <1>2 DEF OInv, Sound
<1>4. CASE Server
  <2>1. Sound' /\ Trail'
      BY <1>1, <1>4, PlainSound, SealedSound, EarlierSound, TrailServer DEF Server
  <2>2. UNCHANGED client
      BY <1>4, AfterVersion DEF Server, Hello, PlainHeader, PlainMessage, SealedHeader, SealedLost,
                  SealedMessage, LoopEnds, Blocks
  <2> QED BY <2>1, <2>2, <1>1, <1>3 DEF Scripted, client
<1>5. CASE Modem
  <2>1. UNCHANGED client
      BY <1>5 DEF Modem, ReportRecv, ReportClosed
  <2> QED BY <2>1, <1>1, <1>3, <1>5, ModemSound, TrailModem DEF Scripted, client
<1>6. CASE ClientSteps \/ ClientIgnores \/ ClientData \/ ClientDone
  <2>1. Sound' /\ Scripted' /\ step' >= step /\ (early => early') /\ (early' => early \/ step < 4)
      BY <1>1, <1>6, SendsSound
  <2>2. UNCHANGED <<server, socket>>
      BY <1>6 DEF ClientSteps, ClientIgnores, ClientData, ClientDone, Sends
  <2>3. step' \in Nat
      BY <2>1 DEF Scripted
  <2> QED BY <2>1, <2>2, <2>3, <1>1, <1>3, TrailClient
<1>7. CASE ClientReads \/ ClientLeaves \/ LinkBreaks
  <2>1. Sound' /\ Scripted'
      BY <1>1, <1>7, OtherClientSound
  <2>2. UNCHANGED <<server, socket>> /\ step' = step /\ early' = early
      BY <1>7 DEF ClientReads, ClientLeaves, LinkBreaks
  <2>3. step' \in Nat /\ step' >= step
      BY <2>2, <1>1 DEF Scripted
  <2> QED BY <2>1, <2>2, <2>3, <1>1, <1>3, TrailClient
<1>8. CASE UNCHANGED vars
  <2>1. /\ UNCHANGED <<server, socket, client, net>> /\ Pos' = Pos /\ SentEnd' = SentEnd
        /\ Served' = Served /\ Proper' = Proper
      BY <1>8, ProperSame DEF vars, server, socket, client, Pos, Awaits, SentEnd, Served, IsConn
  <2> QED BY <2>1, <1>1, <1>3 DEF Sound, Scripted, Ordered, Hashed, Trail, StuckOnlyAlone,
                                 server, socket, client
<1> QED BY <1>4, <1>5, <1>6, <1>7, <1>8 DEF Next, Client

LEMMA OrderInit == Init => OInv
<1> SUFFICES ASSUME Init PROVE OInv
    OBVIOUS
<1>1. /\ stage = "hello" /\ part = "hdr" /\ waiting = FALSE /\ c2s = 0 /\ step = 0 /\ csent = 0
      /\ link = "open" /\ recv_buff = <<>> /\ conn_recv = <<>> /\ net = <<>>
      /\ early = FALSE /\ accepted = <<>>
    BY DEF Init
<1>2. Scripted
  <2>1. step \in 0..Len(Script) /\ csent \in Nat /\ link \in {"open", "closed"}
      BY <1>1, ScriptIs
  <2>2. early \in BOOLEAN /\ ~early
      BY <1>1
  <2> QED BY <2>1, <2>2, <1>1 DEF Scripted
<1>3. Reads /\ Hashed /\ StuckOnlyAlone
    BY <1>1 DEF Reads, Hashed, StuckOnlyAlone, SealedStage
<1>4. /\ <<>> \in Seq(Proper) /\ <<>> \in Seq(Seq(Proper) \ {<<>>}) /\ Len(<<>>) = 0
    OBVIOUS
<1>5. Flows(Proper, 0, <<>>, <<>>, <<>>) /\ End(0, <<>>, <<>>, <<>>) = 0
    BY <1>4 DEF Flows, End, After, Placed
<1>6. Ordered
    BY <1>1, <1>5 DEF Ordered, Pos, SentEnd
<1>7. Trail
    BY <1>1, PassedStart DEF Trail, SealedStage
<1> QED BY <1>2, <1>3, <1>6, <1>7 DEF OInv

LEMMA OrderHolds == Spec => [](IInv /\ OInv)
<1>1. Init => IInv /\ OInv
    BY NumbersInit, OrderInit
<1>2. IInv /\ OInv /\ [Next]_vars => (IInv /\ OInv)'
    BY NumbersStep, OrderStep
<1> QED BY <1>1, <1>2, PTL DEF Spec

(* The server is never stuck while its client stays and keeps to the        *)
(* protocol: each packet is opened with the number it was sealed with,      *)
(* however its bytes are cut by the modem, because no half is skipped and   *)
(* none is read twice, and a read is refused only once the connection is    *)
(* gone (packet.c:121-143, espsock.c:131-195).                              *)
THEOREM OpensEveryPacket == Spec => []StuckOnlyAlone
<1>1. IInv /\ OInv => StuckOnlyAlone
    BY DEF OInv
<1> QED BY <1>1, OrderHolds, PTL

(* No sealed stage is entered but by one message of each step before it, in *)
(* order, that the client has sent: though the stages share one flag, the   *)
(* one of the KEXINIT looks at nothing and the one of ECDH_INIT takes an    *)
(* IGNORE.  A message too many shifts those behind it, so that the NEWKEYS  *)
(* comes too late for its stage, and a refused read is followed by refused  *)
(* reads only (acpt_loop.c:22-88, s1_kexinit.c:77-107).                     *)
THEOREM NothingSkipped == Spec => []NoShortcut
<1>1. IInv /\ OInv => NoShortcut
    BY DEF OInv, Trail, NoShortcut, Passed
<1> QED BY <1>1, OrderHolds, PTL

(* Keys are never used over another payload than the client's KEXINIT, also *)
(* when the connection broke during the exchange, whose outcome the code    *)
(* does not look at (s1_kexinit.c:77-107, acpt_loop.c:36-52).               *)
THEOREM HashesKexinit == Spec => []HashedKexinit
<1>1. IInv /\ OInv => HashedKexinit
    BY DEF OInv, Hashed, Trail, HashedKexinit
<1> QED BY <1>1, OrderHolds, PTL
=============================================================================
