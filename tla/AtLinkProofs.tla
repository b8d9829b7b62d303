---------------------------- MODULE AtLinkProofs ----------------------------
(***************************************************************************)
(* Proofs about AtLink, for any number of commands, chunks, late answers,  *)
(* reports and refusals.                                                   *)
(***************************************************************************)
EXTENDS AtLink, SequenceTheorems, TLAPS

-----------------------------------------------------------------------------
(* The line belongs to the modem exactly while the parser is in a message.  *)

Heard == [type : ResultType \cup {"blank", "prompt", "report", "conn"}, for : Nat]
Item  == [kind : {"plain", "cipsend", "payload"}, n : Nat]

Wires ==
    /\ rx \in Seq(Heard) /\ tx \in Seq(Item)
    /\ cmd \in [n : Nat, chunks : Nat, done : Nat] /\ modem \in Nat
    /\ pmsg # NoMsg => pmsg.type \notin {"blank", "prompt"}

LineInv == Wires /\ LineOwner

LEMMA Says ==
    ASSUME Wires, NEW ms \in Seq(Heard), Say(ms) PROVE rx' \in Seq(Heard)
BY DEF Wires, Say

LEMMA Heards ==
    ASSUME NEW t \in ResultType, NEW n \in Nat
    PROVE  /\ <<Blank, Answer(t, n)>> \in Seq(Heard)
           /\ <<Blank, Answer(t, n), Prompt(n)>> \in Seq(Heard)
           /\ \A q \in {"report", "conn"} : <<Blank, Report(q)>> \in Seq(Heard)
<1>1. /\ Answer(t, n) \in Heard /\ Blank \in Heard
      /\ Prompt(n) \in Heard /\ \A q \in {"report", "conn"} : Report(q) \in Heard
    BY DEF Blank, Answer, Prompt, Report, Heard
<1> QED BY <1>1

LEMMA ModemWires == ASSUME Wires, Modem \/ ModemReports PROVE Wires'
<1>1. pmsg' = pmsg /\ cmd' = cmd /\ (tx' = tx \/ (tx # <<>> /\ tx' = Tail(tx)))
  <2>1. pmsg' = pmsg /\ cmd' = cmd
      BY DEF Modem, ModemPlain, ModemCipsend, ModemTakesPayload, ModemMisreads, ModemReports, execSide
  <2>2. CASE Modem
      BY <2>1, <2>2 DEF Modem, ModemPlain, ModemCipsend, ModemTakesPayload, ModemMisreads
  <2>3. CASE ModemReports
      BY <2>1, <2>3 DEF ModemReports
  <2> QED BY <2>2, <2>3
<1>2. tx' \in Seq(Item)
  <2>1. CASE tx # <<>> /\ tx' = Tail(tx)
      BY <2>1 DEF Wires
  <2> QED BY <1>1, <2>1 DEF Wires
<1>3. tx # <<>> => Head(tx) \in Item
    BY DEF Wires
<1>4. modem' \in Nat
  <2>1. modem' = modem \/ modem' = 0 \/ (tx # <<>> /\ modem' = Head(tx).n)
      BY DEF Modem, ModemPlain, ModemCipsend, ModemTakesPayload, ModemMisreads, ModemReports
  <2> QED BY <2>1, <1>3 DEF Wires, Item
<1>5. rx' \in Seq(Heard)
  <2>1. CASE ModemPlain
    <3>1. Head(tx).n \in Nat
        BY <2>1, <1>3 DEF ModemPlain, Item
    <3>2. \/ Say(<<Blank, Answer("atc_ok", Head(tx).n)>>)
          \/ Say(<<Blank, Answer("atc_error", Head(tx).n)>>)
        BY <2>1 DEF ModemPlain
    <3>3. /\ <<Blank, Answer("atc_ok", Head(tx).n)>> \in Seq(Heard)
          /\ <<Blank, Answer("atc_error", Head(tx).n)>> \in Seq(Heard)
        BY <3>1, Heards DEF ResultType
    <3> QED BY <3>2, <3>3, Says
  <2>2. CASE ModemCipsend
    <3>1. Head(tx).n \in Nat
        BY <2>2, <1>3 DEF ModemCipsend, Item
    <3>2. \/ Say(<<Blank, Answer("atc_ok", Head(tx).n), Prompt(Head(tx).n)>>)
          \/ Say(<<Blank, Answer("atc_error", Head(tx).n)>>)
        BY <2>2 DEF ModemCipsend
    <3>3. /\ <<Blank, Answer("atc_ok", Head(tx).n), Prompt(Head(tx).n)>> \in Seq(Heard)
          /\ <<Blank, Answer("atc_error", Head(tx).n)>> \in Seq(Heard)
        BY <3>1, Heards DEF ResultType
    <3> QED BY <3>2, <3>3, Says
  <2>3. CASE ModemTakesPayload
    <3>1. \/ Say(<<Blank, Answer("atc_send_ok", modem)>>)
          \/ Say(<<Blank, Answer("atc_send_fail", modem)>>)
        BY <2>3 DEF ModemTakesPayload
    <3>2. /\ <<Blank, Answer("atc_send_ok", modem)>> \in Seq(Heard)
          /\ <<Blank, Answer("atc_send_fail", modem)>> \in Seq(Heard)
        BY Heards DEF Wires, ResultType
    <3> QED BY <3>1, <3>2, Says
  <2>4. CASE ModemMisreads
    <3>1. PICK k \in 0..2 : Say([i \in 1..k |-> Answer("atc_error", 0)])
        BY <2>4 DEF ModemMisreads
    <3>2. [i \in 1..k |-> Answer("atc_error", 0)] \in Seq(Heard)
        BY DEF Answer, Heard, ResultType
    <3> QED BY <3>1, <3>2, Says
  <2>5. CASE ModemReports
    <3>1. \A q \in {"report", "conn"} : <<Blank, Report(q)>> \in Seq(Heard)
        BY Heards DEF ResultType
    <3>2. PICK q \in {"report", "conn"} : Say(<<Blank, Report(q)>>)
        BY <2>5 DEF ModemReports
    <3> QED BY <3>1, <3>2, Says
  <2> QED BY <2>1, <2>2, <2>3, <2>4, <2>5 DEF Modem
<1> QED BY <1>1, <1>2, <1>4, <1>5 DEF Wires

LEMMA ParserLine == ASSUME LineInv, Parser PROVE LineInv'
<1>1. tx' = tx /\ cmd' = cmd /\ modem' = modem
    BY DEF Parser, ParserBegin, DispatchReport, DispatchConn, DispatchResult, DispatchDrop, execSide, modemSide
<1>2. CASE ParserBegin
  <2>1. rx' \in Seq(Heard) /\ Head(rx) \in Heard /\ pmsg = NoMsg
      BY <1>2 DEF ParserBegin, LineInv, Wires
  <2>2. Head(rx).type # "none"
      BY <2>1 DEF Heard, ResultType
  <2>3. CASE Head(rx).type \in {"blank", "prompt"}
    <3>1. pmsg' = pmsg /\ peri' # FROM_PERI
      <4>1. peri # FROM_PERI
          BY <2>1 DEF LineInv, LineOwner
      <4> QED BY <4>1, <1>2, <2>3 DEF ParserBegin, TO_PERI, CANSEND, WONNA, FROM_PERI
    <3> QED BY <3>1, <2>1, <1>1 DEF LineInv, LineOwner, Wires
  <2>4. CASE Head(rx).type \notin {"blank", "prompt"}
    <3>1. pmsg' = Head(rx) /\ peri' = FROM_PERI
        BY <1>2, <2>4 DEF ParserBegin
    <3>2. pmsg' # NoMsg
        BY <3>1, <2>2 DEF NoMsg, Answer
    <3> QED BY <3>1, <3>2, <2>1, <2>4, <1>1 DEF LineInv, LineOwner, Wires
  <2> QED BY <2>3, <2>4
<1>3. CASE DispatchReport \/ DispatchConn \/ DispatchResult \/ DispatchDrop
  <2>1. pmsg' = NoMsg /\ peri' = CANSEND /\ rx' = rx
      BY <1>3 DEF DispatchReport, DispatchConn, DispatchResult, DispatchDrop, EndMsg
  <2> QED BY <2>1, <1>1 DEF LineInv, LineOwner, Wires, CANSEND, FROM_PERI
<1> QED BY <1>2, <1>3 DEF Parser

LEMMA ExecLine == ASSUME LineInv, Exec \/ (\E k \in 0..MaxChunk : Start(k)) PROVE LineInv'
<1>1. rx' = rx /\ pmsg' = pmsg /\ modem' = modem
    BY DEF Exec, CmdReady, WriteCommand, GetResult, TransferReady, WritePayload, GetResult2,
           ReportResult, Start, ReadConn, parserSide, modemSide
<1>2. peri' = peri \/ (peri \in {CANSEND, WONNA} /\ peri' = TO_PERI)
    BY DEF Exec, CmdReady, ReadyPolled, ReadyGivenUp, WriteCommand, GetResult, TransferReady,
           WritePayload, GetResult2, ReportResult, Start, ReadConn, parserSide
<1>3. cmd' \in [n : Nat, chunks : Nat, done : Nat]
  <2>1. CASE \E k \in 0..MaxChunk : Start(k)
      BY <2>1, LinkAssumption DEF Start, LineInv, Wires
  <2>2. CASE Exec
    <3>1. cmd' = cmd \/ cmd' = [cmd EXCEPT !.done = @ + 1]
        BY <2>2 DEF Exec, CmdReady, WriteCommand, GetResult, TransferReady, WritePayload,
                    GetResult2, ReportResult
    <3> QED BY <3>1 DEF LineInv, Wires
  <2> QED BY <2>1, <2>2
<1>4. tx' \in Seq(Item)
  <2>1. CASE WriteCommand
    <3>1. PICK q \in {"plain", "cipsend"} : Write([kind |-> q, n |-> cmd.n])
        BY <2>1 DEF WriteCommand
    <3>2. [kind |-> q, n |-> cmd.n] \in Item
        BY DEF LineInv, Wires, Item
    <3> QED BY <3>1, <3>2 DEF Write, LineInv, Wires
  <2>2. CASE WritePayload
    <3>1. tx' = tx \/ Write([kind |-> "payload", n |-> cmd.n])
        BY <2>2 DEF WritePayload
    <3>2. [kind |-> "payload", n |-> cmd.n] \in Item
        BY DEF LineInv, Wires, Item
    <3>3. CASE Write([kind |-> "payload", n |-> cmd.n])
        BY <3>2, <3>3 DEF Write, LineInv, Wires
    <3> QED BY <3>1, <3>3 DEF LineInv, Wires
  <2>3. CASE ~WriteCommand /\ ~WritePayload
    <3>1. tx' = tx
        BY <2>3 DEF Exec, CmdReady, GetResult, TransferReady, GetResult2, ReportResult, Start, ReadConn, modemSide
    <3> QED BY <3>1 DEF LineInv, Wires
  <2> QED BY <2>1, <2>2, <2>3
<1> QED BY <1>1, <1>2, <1>3, <1>4
        DEF LineInv, LineOwner, Wires, TO_PERI, CANSEND, WONNA, FROM_PERI

LEMMA LineStep == LineInv /\ [Next]_vars => LineInv'
<1> SUFFICES ASSUME LineInv, [Next]_vars PROVE LineInv'
    OBVIOUS
<1>1. CASE Modem \/ ModemReports
  <2>1. peri' = peri /\ pmsg' = pmsg
      BY <1>1 DEF Modem, ModemPlain, ModemCipsend, ModemTakesPayload, ModemMisreads, ModemReports
  <2> QED BY <2>1, <1>1, ModemWires DEF LineInv, LineOwner
<1>2. CASE Parser
    BY <1>2, ParserLine
<1>3. CASE Exec \/ \E k \in 0..MaxChunk : Start(k)
    BY <1>3, ExecLine
<1>5. CASE ReadConn
    BY <1>5 DEF ReadConn, execSide, modemSide, LineInv, LineOwner, Wires
<1>4. CASE UNCHANGED vars
    BY <1>4 DEF vars, parserSide, execSide, modemSide, LineInv, LineOwner, Wires
<1> QED BY <1>1, <1>2, <1>3, <1>4, <1>5 DEF Next

LEMMA LineInit == Init => LineInv
BY DEF Init, LineInv, LineOwner, Wires, NoMsg, Answer, CANSEND, FROM_PERI

(* Whatever the modem says and when, the line is marked as the modem's      *)
(* exactly while the parser is inside a message (parser.c:105, 303, 312).   *)
THEOREM LineOwned == Spec => []LineOwner
<1>1. LineInv => LineOwner
    BY DEF LineInv
<1> QED BY <1>1, LineInit, LineStep, PTL DEF Spec

-----------------------------------------------------------------------------
(* As long as nothing is late, reported or refused, one answer at most is   *)
(* under way, and it is for the command being executed.                     *)

Clean == late = 0 /\ reports = 0 /\ refused = 0
Ok   == Answer("atc_ok", cmd.n)
Ask  == Prompt(cmd.n)
Line == [kind |-> IF cmd.chunks = 0 THEN "plain" ELSE "cipsend", n |-> cmd.n]
Load == [kind |-> "payload", n |-> cmd.n]

Silence == rx = <<>> /\ pmsg = NoMsg /\ sendres = <<>>

(* An answer alone, from the modem to the queue. *)
Coming(t) ==
    tx = <<>> /\ modem = 0 /\
        \/ rx = <<Blank, Answer(t, cmd.n)>> /\ pmsg = NoMsg /\ sendres = <<>>
        \/ rx = <<Answer(t, cmd.n)>> /\ pmsg = NoMsg /\ sendres = <<>>
        \/ rx = <<>> /\ pmsg = Answer(t, cmd.n) /\ sendres = <<>>
        \/ rx = <<>> /\ pmsg = NoMsg /\ sendres = <<Answer(t, cmd.n)>>

(* The answer to CIPSEND, with the prompt behind it. *)
Prompting ==
    tx = <<>> /\ modem = cmd.n /\
        \/ rx = <<Blank, Ok, Ask>> /\ pmsg = NoMsg /\ sendres = <<>>
        \/ rx = <<Ok, Ask>> /\ pmsg = NoMsg /\ sendres = <<>>
        \/ rx = <<Ask>> /\ pmsg = Ok /\ sendres = <<>>
        \/ rx = <<Ask>> /\ pmsg = NoMsg /\ sendres = <<Ok>> /\ peri # WONNA
        \/ rx = <<>> /\ pmsg = NoMsg /\ sendres = <<Ok>> /\ peri = WONNA

Prompted ==
    tx = <<>> /\ modem = cmd.n /\ pmsg = NoMsg /\ sendres = <<>> /\
        ((rx = <<Ask>> /\ peri # WONNA) \/ (rx = <<>> /\ peri = WONNA))

Resting == Silence /\ tx = <<>> /\ modem = 0
Step ==
    \/ pc \in {"idle", "ready", "write", "report"} /\ Resting
    \/ pc = "result" /\ Silence /\ tx = <<Line>> /\ modem = 0
    \/ pc = "result" /\ cmd.chunks = 0 /\ Coming("atc_ok")
    \/ pc = "result" /\ cmd.chunks # 0 /\ Prompting
    \/ pc = "wonna" /\ Prompted
    \/ pc = "payload" /\ Silence /\ tx = <<>> /\ modem = cmd.n /\ res2 = "atc_ok"
    \/ pc = "result2" /\ Silence /\ tx = <<Load>> /\ modem = cmd.n
    \/ pc = "result2" /\ Coming("atc_send_ok")

Counts == late \in Nat /\ reports \in Nat /\ refused \in Nat
Record == cmd \in [n : Nat, chunks : Nat, done : Nat] /\ (pc # "idle" => cmd.n # 0)
Match  == taken.by # 0 => taken.answer.for = taken.by /\ taken.answer.type \in taken.want
MatchInv == Counts /\ Record /\ (Clean => Step /\ Match)

LEMMA TailIs ==
    ASSUME NEW S, NEW s \in Seq(S), NEW t \in Seq(S), s # <<>>, Len(s) = Len(t) + 1,
           \A k \in 1..Len(t) : t[k] = s[k + 1]
    PROVE  Tail(s) = t
<1>1. Tail(s) \in Seq(S) /\ Len(Tail(s)) = Len(t)
    OBVIOUS
<1>2. \A k \in 1..Len(t) : Tail(s)[k] = t[k]
    OBVIOUS
<1> QED BY <1>1, <1>2, SeqEqual

LEMMA Tails ==
    ASSUME NEW a, NEW b, NEW c
    PROVE  /\ Tail(<<a>>) = <<>> /\ Tail(<<a, b>>) = <<b>> /\ Tail(<<a, b, c>>) = <<b, c>>
           /\ Head(<<a>>) = a /\ Head(<<a, b>>) = a /\ Head(<<a, b, c>>) = a
           /\ <<a>> # <<>> /\ <<a, b>> # <<>> /\ <<a, b, c>> # <<>>
           /\ Append(<<>>, a) = <<a>>
           /\ <<>> \o <<a>> = <<a>> /\ <<>> \o <<a, b>> = <<a, b>>
           /\ <<>> \o <<a, b, c>> = <<a, b, c>>
<1> DEFINE S == {a, b, c}
<1>2. Tail(<<a>>) = <<>>
    OBVIOUS
<1>3. Tail(<<a, b>>) = <<b>>
  <2> DEFINE s == <<a, b>> t == <<b>>
  <2>1. s \in Seq(S) /\ t \in Seq(S) /\ s # <<>> /\ Len(s) = 2 /\ Len(t) = 1 /\ t[1] = s[2]
      OBVIOUS
  <2> HIDE DEF s, t, S
  <2>2. Tail(s) = t
    <3>1. \A k \in 1..Len(t) : t[k] = s[k + 1]
        BY <2>1
    <3>2. Len(s) = Len(t) + 1
        BY <2>1
    <3> QED BY ONLY <2>1, <3>1, <3>2, TailIs
  <2> QED BY <2>2 DEF s, t
<1>4. Tail(<<a, b, c>>) = <<b, c>>
  <2> DEFINE s == <<a, b, c>> t == <<b, c>>
  <2>1. /\ s \in Seq(S) /\ t \in Seq(S) /\ s # <<>> /\ Len(s) = 3 /\ Len(t) = 2
        /\ t[1] = s[2] /\ t[2] = s[3]
      OBVIOUS
  <2> HIDE DEF s, t, S
  <2>2. Tail(s) = t
    <3>1. \A k \in 1..Len(t) : t[k] = s[k + 1]
        BY <2>1
    <3>2. Len(s) = Len(t) + 1
        BY <2>1
    <3> QED BY ONLY <2>1, <3>1, <3>2, TailIs
  <2> QED BY <2>2 DEF s, t
<1>5. /\ Head(<<a>>) = a /\ Head(<<a, b>>) = a /\ Head(<<a, b, c>>) = a
      /\ <<a>> # <<>> /\ <<a, b>> # <<>> /\ <<a, b, c>> # <<>>
      /\ Append(<<>>, a) = <<a>>
    OBVIOUS
<1>6. <<>> \o <<a>> = <<a>> /\ <<>> \o <<a, b>> = <<a, b>> /\ <<>> \o <<a, b, c>> = <<a, b, c>>
  <2>1. <<a>> \in Seq(S) /\ <<a, b>> \in Seq(S) /\ <<a, b, c>> \in Seq(S)
      OBVIOUS
  <2> HIDE DEF S
  <2> QED BY <2>1, ConcatEmptySeq
<1> QED BY <1>2, <1>3, <1>4, <1>5, <1>6

LEMMA Kinds ==
    /\ Blank.type = "blank" /\ Ok.type = "atc_ok" /\ Ask.type = "prompt" /\ Ok # NoMsg
    /\ Line.n = cmd.n /\ Load.n = cmd.n /\ Load.kind = "payload"
    /\ cmd.chunks = 0 => Line.kind = "plain"
    /\ cmd.chunks # 0 => Line.kind = "cipsend"
    /\ IsResult(Ok) /\ ~IsResult(Ask)
BY DEF Blank, Ok, Ask, Prompt, NoMsg, Line, Load, Answer, IsResult, ResultType

LEMMA NoResult ==
    /\ ~IsResult(NoMsg) /\ ~IsResult(Blank)
    /\ \A m : m.type \in {"report", "conn"} => ~IsResult(m) /\ m # NoMsg
BY DEF IsResult, ResultType, NoMsg, Blank, Answer

(* The parser takes an answer one step further. *)
LEMMA ComingParsed ==
    ASSUME NEW t \in ResultType, Coming(t), Parser PROVE Coming(t)'
<1> DEFINE m == Answer(t, cmd.n)
<1>1. m.type = t /\ m.type \notin {"blank", "prompt"} /\ m # NoMsg /\ IsResult(m)
    BY DEF Answer, NoMsg, ResultType, IsResult
<1>2. /\ Tail(<<Blank, m>>) = <<m>> /\ Head(<<Blank, m>>) = Blank /\ Blank.type = "blank"
      /\ Tail(<<m>>) = <<>> /\ Head(<<m>>) = m /\ Append(<<>>, m) = <<m>> /\ <<m>> # <<>>
    BY Tails, Kinds
<1>3. cmd' = cmd /\ tx' = tx /\ modem' = modem /\ m' = m
    BY DEF Parser, ParserBegin, DispatchReport, DispatchConn, DispatchResult, DispatchDrop, execSide, modemSide
<1>4. \/ rx = <<Blank, m>> /\ pmsg = NoMsg /\ sendres = <<>>
      \/ rx = <<m>> /\ pmsg = NoMsg /\ sendres = <<>>
      \/ rx = <<>> /\ pmsg = m /\ sendres = <<>>
      \/ rx = <<>> /\ pmsg = NoMsg /\ sendres = <<m>>
    BY DEF Coming
<1>5. tx = <<>> /\ modem = 0
    BY DEF Coming
<1>6. SUFFICES \/ rx' = <<Blank, m>> /\ pmsg' = NoMsg /\ sendres' = <<>>
               \/ rx' = <<m>> /\ pmsg' = NoMsg /\ sendres' = <<>>
               \/ rx' = <<>> /\ pmsg' = m /\ sendres' = <<>>
               \/ rx' = <<>> /\ pmsg' = NoMsg /\ sendres' = <<m>>
  <2>1. m' = Answer(t, cmd'.n) /\ Blank' = Blank /\ NoMsg' = NoMsg
      OBVIOUS
  <2> QED BY <1>3, <1>5, <2>1 DEF Coming
<1>7. NoMsg.type = "none" /\ ~IsResult(NoMsg)
    BY DEF NoMsg, Answer, IsResult, ResultType
<1> HIDE DEF m
<1>8. CASE ParserBegin
    BY <1>1, <1>2, <1>4, <1>8 DEF ParserBegin
<1>9. CASE DispatchReport \/ DispatchConn
    BY <1>1, <1>4, <1>7, <1>9, NoResult DEF DispatchReport, DispatchConn
<1>10. CASE DispatchResult
    BY <1>1, <1>2, <1>4, <1>7, <1>10 DEF DispatchResult, EndMsg
<1>11. CASE DispatchDrop
    BY <1>1, <1>2, <1>4, <1>7, <1>11 DEF DispatchDrop, Room
<1> QED BY <1>8, <1>9, <1>10, <1>11 DEF Parser

LEMMA PromptingParsed == ASSUME Prompting, Parser PROVE Prompting'
<1>1. /\ Tail(<<Blank, Ok, Ask>>) = <<Ok, Ask>> /\ Head(<<Blank, Ok, Ask>>) = Blank
      /\ Tail(<<Ok, Ask>>) = <<Ask>> /\ Head(<<Ok, Ask>>) = Ok
      /\ Tail(<<Ask>>) = <<>> /\ Head(<<Ask>>) = Ask
      /\ Append(<<>>, Ok) = <<Ok>> /\ <<Ok>> # <<>>
    BY Tails
<1>2. cmd' = cmd /\ tx' = tx /\ modem' = modem
    BY DEF Parser, ParserBegin, DispatchReport, DispatchConn, DispatchResult, DispatchDrop, execSide, modemSide
<1>3. Ok' = Ok /\ Ask' = Ask /\ Blank' = Blank /\ NoMsg' = NoMsg
    BY <1>2 DEF Ok, Ask
<1>4. NoMsg.type = "none" /\ ~IsResult(NoMsg)
    BY DEF NoMsg, Answer, IsResult, ResultType
<1>5. CASE ParserBegin
    BY <1>1, <1>2, <1>3, <1>5, Kinds DEF ParserBegin, Prompting, FROM_PERI, WONNA
<1>6. CASE DispatchReport \/ DispatchConn
    BY <1>4, <1>6, Kinds, NoResult DEF DispatchReport, DispatchConn, Prompting
<1>7. CASE DispatchResult
    BY <1>1, <1>2, <1>3, <1>4, <1>7, Kinds DEF DispatchResult, EndMsg, Room, Prompting, CANSEND, WONNA
<1>8. CASE DispatchDrop
    BY <1>1, <1>4, <1>8, Kinds DEF DispatchDrop, Room, Prompting
<1> QED BY <1>5, <1>6, <1>7, <1>8 DEF Parser

LEMMA PromptedParsed == ASSUME Prompted, Parser PROVE Prompted'
<1>1. Tail(<<Ask>>) = <<>> /\ Head(<<Ask>>) = Ask /\ <<Ask>> # <<>>
    BY Tails
<1>2. cmd' = cmd /\ tx' = tx /\ modem' = modem
    BY DEF Parser, ParserBegin, DispatchReport, DispatchConn, DispatchResult, DispatchDrop, execSide, modemSide
<1>3. ~IsResult(NoMsg) /\ NoMsg.type = "none"
    BY DEF NoMsg, Answer, IsResult, ResultType
<1>4. ParserBegin
    BY <1>3 DEF Prompted, Parser, DispatchReport, DispatchConn, DispatchResult, DispatchDrop
<1> QED BY <1>1, <1>2, <1>4, Kinds DEF ParserBegin, Prompted

LEMMA SilentParsed == ASSUME Silence PROVE ~Parser
<1>1. ~IsResult(NoMsg)
    BY DEF NoMsg, Answer, IsResult, ResultType
<1> QED BY <1>1 DEF Silence, Parser, ParserBegin, DispatchReport, DispatchConn, DispatchResult, DispatchDrop,
           NoMsg, Answer, IsResult, ResultType

LEMMA ParserMatch == ASSUME Step, Match, Parser PROVE Step' /\ Match'
<1>1. /\ pc' = pc /\ cmd' = cmd /\ tx' = tx /\ modem' = modem /\ taken' = taken /\ res2' = res2
    BY DEF Parser, ParserBegin, DispatchReport, DispatchConn, DispatchResult, DispatchDrop, execSide, modemSide
<1>2. \/ pc = "result" /\ cmd.chunks = 0 /\ Coming("atc_ok")
      \/ pc = "result" /\ cmd.chunks # 0 /\ Prompting
      \/ pc = "wonna" /\ Prompted
      \/ pc = "result2" /\ Coming("atc_send_ok")
    BY SilentParsed DEF Step, Resting
<1>3. \/ pc' = "result" /\ cmd'.chunks = 0 /\ Coming("atc_ok")'
      \/ pc' = "result" /\ cmd'.chunks # 0 /\ Prompting'
      \/ pc' = "wonna" /\ Prompted'
      \/ pc' = "result2" /\ Coming("atc_send_ok")'
    BY <1>1, <1>2, ComingParsed, PromptingParsed, PromptedParsed DEF ResultType
<1> QED BY <1>1, <1>3 DEF Step, Match

(* atc_exec: no wait of it can end without its answer.                      *)
LEMMA NotYet ==
    ASSUME NEW t \in ResultType, Counts, Clean', NEW r, AnswerTimeout(r),
           \/ tx # <<>> \/ Coming(t) \/ Prompting
    PROVE  FALSE
<1>1. ~Pending(IsResult)
    BY DEF AnswerTimeout, Premature, Clean, Counts
<1>2. sendres = <<>> /\ tx = <<>> /\ ~IsResult(pmsg) /\ \A k \in 1..Len(rx) : ~IsResult(rx[k])
    BY <1>1 DEF AnswerTimeout, Pending
<1>3. CASE Coming(t)
  <2> DEFINE m == Answer(t, cmd.n)
  <2>1. IsResult(m) /\ <<m>> # <<>>
      BY DEF Answer, IsResult
  <2>2. Len(<<Blank, m>>) = 2 /\ <<Blank, m>>[2] = m /\ Len(<<m>>) = 1 /\ <<m>>[1] = m
      OBVIOUS
  <2> HIDE DEF m
  <2> QED BY <1>2, <1>3, <2>1, <2>2 DEF Coming, m
<1>4. CASE Prompting
  <2>1. /\ Len(<<Blank, Ok, Ask>>) = 3 /\ <<Blank, Ok, Ask>>[2] = Ok
        /\ Len(<<Ok, Ask>>) = 2 /\ <<Ok, Ask>>[1] = Ok /\ <<Ok>> # <<>>
      OBVIOUS
  <2> QED BY <1>2, <1>4, <2>1, Kinds DEF Prompting
<1> QED BY <1>2, <1>3, <1>4

(* An answer is taken when it is the one waited for, and nothing is behind  *)
(* it but the prompt.                                                       *)
LEMMA Taken ==
    ASSUME NEW t \in ResultType, sendres = <<Answer(t, cmd.n)>>, NEW want, t \in want,
           NEW r, TakeAnswer(want, r)
    PROVE  r = t /\ sendres' = <<>> /\ Match'
<1> DEFINE m == Answer(t, cmd.n)
<1>1. Tail(<<m>>) = <<>> /\ Head(<<m>>) = m
    BY Tails
<1>2. m.type = t /\ m.for = cmd.n
    BY DEF Answer
<1>3. sendres = <<m>>
    OBVIOUS
<1> HIDE DEF m
<1>4. r = t /\ sendres' = <<>> /\ taken' = [answer |-> m, by |-> cmd.n, want |-> want]
    BY <1>1, <1>2, <1>3 DEF TakeAnswer
<1> QED BY <1>2, <1>4 DEF Match

LEMMA ResultStep ==
    ASSUME Counts, Record, Step, Clean', GetResult PROVE Step' /\ Match'
<1>1. /\ pc = "result" /\ cmd' = cmd /\ tx' = tx /\ modem' = modem /\ rx' = rx
      /\ pmsg' = pmsg /\ peri' = peri
    BY DEF GetResult, parserSide, modemSide
<1>2. PICK r \in ResultType \cup {"atc_unknown"} :
          /\ TakeAnswer({"atc_ok", "atc_error"}, r) \/ AnswerTimeout(r)
          /\ pc' = IF cmd.chunks = 0 THEN "report"
                   ELSE IF r = "atc_ok" THEN "wonna" ELSE "payload"
    BY DEF GetResult
<1>3. \/ Silence /\ tx = <<Line>> /\ modem = 0
      \/ cmd.chunks = 0 /\ Coming("atc_ok")
      \/ cmd.chunks # 0 /\ Prompting
    BY <1>1 DEF Step
<1>4. tx # <<>> \/ Coming("atc_ok") \/ Prompting
  <2>1. <<Line>> # <<>>
      OBVIOUS
  <2> QED BY <1>3, <2>1
<1>5. TakeAnswer({"atc_ok", "atc_error"}, r)
  <2>1. "atc_ok" \in ResultType
      BY DEF ResultType
  <2> QED BY <1>2, <1>4, <2>1, NotYet
<1>6. sendres # <<>>
    BY <1>5 DEF TakeAnswer
<1>7. sendres = <<Ok>>
    BY <1>3, <1>6 DEF Silence, Coming, Prompting, Ok
<1>8. r = "atc_ok" /\ sendres' = <<>> /\ Match'
  <2>1. "atc_ok" \in ResultType /\ "atc_ok" \in {"atc_ok", "atc_error"}
      BY DEF ResultType
  <2> QED BY <1>5, <1>7, <2>1, Taken DEF Ok
<1>9. CASE cmd.chunks = 0 /\ Coming("atc_ok")
  <2>1. rx = <<>> /\ pmsg = NoMsg /\ tx = <<>> /\ modem = 0
      BY <1>6, <1>9 DEF Coming
  <2> QED BY <2>1, <1>1, <1>2, <1>8, <1>9 DEF Step, Resting, Silence
<1>10. CASE cmd.chunks # 0 /\ Prompting
  <2>1. Prompted'
      BY <1>1, <1>6, <1>8, <1>10 DEF Prompting, Prompted, Ask
  <2> QED BY <2>1, <1>2, <1>8, <1>10 DEF Step
<1> QED BY <1>3, <1>6, <1>9, <1>10 DEF Silence

LEMMA Result2Step ==
    ASSUME Counts, Record, Step, Clean', GetResult2 PROVE Step' /\ Match'
<1>1. /\ pc = "result2" /\ tx' = tx /\ modem' = modem /\ rx' = rx
      /\ pmsg' = pmsg /\ pc' \in {"write", "report"}
    BY DEF GetResult2, parserSide, modemSide
<1>2. PICK r \in ResultType \cup {"atc_unknown"} :
          TakeAnswer({"atc_send_ok", "atc_send_fail"}, r) \/ AnswerTimeout(r)
    BY DEF GetResult2
<1>3. \/ Silence /\ tx = <<Load>> /\ modem = cmd.n
      \/ Coming("atc_send_ok")
    BY <1>1 DEF Step
<1>4. tx # <<>> \/ Coming("atc_send_ok")
  <2>1. <<Load>> # <<>>
      OBVIOUS
  <2> QED BY <1>3, <2>1
<1>5. TakeAnswer({"atc_send_ok", "atc_send_fail"}, r)
  <2>1. "atc_send_ok" \in ResultType
      BY DEF ResultType
  <2> QED BY <1>2, <1>4, <2>1, NotYet
<1>6. sendres # <<>>
    BY <1>5 DEF TakeAnswer
<1>7. /\ sendres = <<Answer("atc_send_ok", cmd.n)>>
      /\ rx = <<>> /\ pmsg = NoMsg /\ tx = <<>> /\ modem = 0
    BY <1>3, <1>6 DEF Silence, Coming
<1>8. sendres' = <<>> /\ Match'
  <2>1. "atc_send_ok" \in ResultType /\ "atc_send_ok" \in {"atc_send_ok", "atc_send_fail"}
      BY DEF ResultType
  <2> QED BY <1>5, <1>7, <2>1, Taken
<1> QED BY <1>1, <1>7, <1>8 DEF Step, Resting, Silence

LEMMA TransferStep ==
    ASSUME Counts, Record, Step, Clean', TransferReady PROVE Step'
<1>1. /\ pc = "wonna" /\ pc' = "payload" /\ cmd' = cmd /\ tx' = tx /\ modem' = modem
      /\ rx' = rx /\ pmsg' = pmsg /\ sendres' = sendres
    BY DEF TransferReady, modemSide
<1>2. Prompted
    BY <1>1 DEF Step
<1>3. CASE rx = <<Ask>> /\ peri # WONNA
  <2>1. Len(<<Ask>>) = 1 /\ <<Ask>>[1] = Ask
      OBVIOUS
  <2>2. Pending(LAMBDA m : m.type = "prompt")
      BY <1>3, <2>1, Kinds DEF Pending
  <2>3. late' = late + 1
      BY <1>3, <2>2 DEF TransferReady, Premature
  <2> QED BY <2>3 DEF Counts, Clean
<1>4. CASE rx = <<>> /\ peri = WONNA
  <2>1. res2' = "atc_ok"
      BY <1>4 DEF TransferReady
  <2> QED BY <2>1, <1>1, <1>2, <1>4 DEF Step, Prompted, Silence
<1> QED BY <1>2, <1>3, <1>4 DEF Prompted

LEMMA RestingStep ==
    ASSUME Step, Match, CmdReady \/ ReportResult \/ \E k \in 0..MaxChunk : Start(k)
    PROVE  Step' /\ Match'
<1>1. /\ pc \in {"idle", "ready", "report"} /\ pc' \in {"idle", "ready", "write"}
      /\ rx' = rx /\ pmsg' = pmsg /\ sendres' = sendres /\ tx' = tx /\ modem' = modem
      /\ taken' = taken
    BY DEF CmdReady, ReportResult, Start, ReadConn, parserSide, modemSide
<1> QED BY <1>1 DEF Step, Match, Resting, Silence

LEMMA WriteStep ==
    ASSUME Step, Match, WriteCommand \/ WritePayload PROVE Step' /\ Match'
<1>1. /\ cmd' = cmd /\ modem' = modem /\ sendres' = sendres /\ taken' = taken
      /\ rx' = rx /\ pmsg' = pmsg
    BY DEF WriteCommand, WritePayload, parserSide
<1>2. CASE WriteCommand
  <2>1. pc = "write" /\ pc' = "result" /\ tx' = Append(tx, Line)
      BY <1>2 DEF WriteCommand, Write, Line
  <2>2. Resting
      BY <2>1 DEF Step
  <2>3. Append(<<>>, Line) = <<Line>> /\ Line' = Line
      BY <1>1, Tails DEF Line
  <2> QED BY <1>1, <2>1, <2>2, <2>3 DEF Step, Match, Resting, Silence
<1>3. CASE WritePayload
  <2>1. pc = "payload" /\ Silence /\ tx = <<>> /\ modem = cmd.n /\ res2 = "atc_ok"
      BY <1>3 DEF WritePayload, Step
  <2>2. pc' = "result2" /\ tx' = Append(tx, Load)
      BY <1>3, <2>1 DEF WritePayload, ShouldTransfer, AfterPayload, Write, Load
  <2>3. Append(<<>>, Load) = <<Load>> /\ Load' = Load
      BY <1>1, Tails DEF Load
  <2> QED BY <1>1, <2>1, <2>2, <2>3 DEF Step, Match, Silence
<1> QED BY <1>2, <1>3

(* The modem answers what it reads, once, and nothing else is on its way.   *)
LEMMA ModemMatch ==
    ASSUME Counts, Record, Step, Match, Clean', Modem \/ ModemReports PROVE Step' /\ Match'
<1>1. /\ pc' = pc /\ cmd' = cmd /\ pmsg' = pmsg /\ sendres' = sendres /\ taken' = taken
      /\ peri' = peri
    BY DEF Modem, ModemPlain, ModemCipsend, ModemTakesPayload, ModemMisreads, ModemReports, execSide
<1>2. Match'
    BY <1>1 DEF Match
<1>3. ~Refuses /\ ~ModemReports
    BY DEF Refuses, ModemReports, Counts, Clean
<1>4. tx # <<>> /\ tx' = Tail(tx)
    BY <1>3 DEF Modem, ModemPlain, ModemCipsend, ModemTakesPayload, ModemMisreads
<1>5. /\ Head(<<Line>>) = Line /\ Tail(<<Line>>) = <<>>
      /\ Head(<<Load>>) = Load /\ Tail(<<Load>>) = <<>>
    BY Tails
<1>6. \/ pc = "result" /\ Silence /\ tx = <<Line>> /\ modem = 0
      \/ pc = "result2" /\ Silence /\ tx = <<Load>> /\ modem = cmd.n
    BY <1>4 DEF Step, Resting, Coming, Prompting, Prompted
<1>7. Ok' = Ok /\ Ask' = Ask
    BY <1>1 DEF Ok, Ask
<1>8. CASE pc = "result" /\ Silence /\ tx = <<Line>> /\ modem = 0
  <2>1. Head(tx).n = cmd.n /\ Head(tx).kind = (IF cmd.chunks = 0 THEN "plain" ELSE "cipsend")
      BY <1>5, <1>8 DEF Line
  <2>2. tx' = <<>> /\ rx = <<>>
      BY <1>4, <1>5, <1>8 DEF Silence
  <2>3. CASE cmd.chunks = 0
    <3>1. ModemPlain
        BY <1>3, <1>8, <2>1, <2>3 DEF Modem, ModemCipsend, ModemTakesPayload, ModemMisreads
    <3>2. modem' = modem /\ rx' = rx \o <<Blank, Ok>>
        BY <1>3, <2>1, <3>1 DEF ModemPlain, Say, Ok
    <3>3. rx' = <<Blank, Ok>>
        BY <2>2, <3>2, Tails
    <3>4. Coming("atc_ok")'
        BY <1>1, <1>7, <1>8, <2>2, <3>2, <3>3 DEF Coming, Silence, Ok
    <3> QED BY <1>1, <1>2, <1>8, <2>3, <3>4 DEF Step
  <2>4. CASE cmd.chunks # 0
    <3>1. ModemCipsend
        BY <1>3, <1>8, <2>1, <2>4 DEF Modem, ModemPlain, ModemTakesPayload, ModemMisreads
    <3>2. modem' = cmd.n /\ rx' = rx \o <<Blank, Ok, Ask>>
        BY <1>3, <2>1, <3>1 DEF ModemCipsend, Say, Ok, Ask
    <3>3. rx' = <<Blank, Ok, Ask>>
        BY <2>2, <3>2, Tails
    <3>4. Prompting'
        BY <1>1, <1>7, <1>8, <2>2, <3>2, <3>3 DEF Prompting, Silence
    <3> QED BY <1>1, <1>2, <1>8, <2>4, <3>4 DEF Step
  <2> QED BY <2>3, <2>4
<1>9. CASE pc = "result2" /\ Silence /\ tx = <<Load>> /\ modem = cmd.n
  <2>1. cmd.n # 0
      BY <1>9 DEF Record
  <2>2. ModemTakesPayload
      BY <1>3, <1>9, <2>1 DEF Modem, ModemPlain, ModemCipsend, ModemMisreads
  <2>3. tx' = <<>> /\ rx = <<>>
      BY <1>4, <1>5, <1>9 DEF Silence
  <2>4. modem' = 0 /\ rx' = rx \o <<Blank, Answer("atc_send_ok", cmd.n)>>
      BY <1>3, <1>9, <2>2 DEF ModemTakesPayload, Say
  <2>5. rx' = <<Blank, Answer("atc_send_ok", cmd.n)>>
      BY <2>3, <2>4, Tails
  <2>6. Coming("atc_send_ok")'
      BY <1>1, <1>9, <2>3, <2>4, <2>5 DEF Coming, Silence
  <2> QED BY <1>1, <1>2, <1>9, <2>6 DEF Step
<1> QED BY <1>6, <1>8, <1>9

LEMMA Bookkeeping ==
    ASSUME Counts, Record, [Next]_vars PROVE Counts' /\ Record' /\ (Clean' => Clean)
<1>1. /\ late' = late \/ late' = late + 1
      /\ reports' = reports \/ reports' = reports + 1
      /\ refused' = refused \/ refused' = refused + 1
  <2>1. late' = late \/ late' = late + 1
      BY DEF Next, Exec, CmdReady, WriteCommand, GetResult, TransferReady, WritePayload,
             GetResult2, ReportResult, Start, ReadConn, TakeAnswer, AnswerTimeout, Premature, Parser, ParserBegin,
             DispatchReport, DispatchConn, DispatchResult, DispatchDrop, Modem, ModemPlain, ModemCipsend,
             ModemTakesPayload, ModemMisreads, ModemReports, vars
  <2>2. reports' = reports \/ reports' = reports + 1
      BY DEF Next, Exec, CmdReady, WriteCommand, GetResult, TransferReady, WritePayload,
             GetResult2, ReportResult, Start, ReadConn, Parser, ParserBegin, DispatchReport, DispatchConn,
             DispatchResult, DispatchDrop, Modem, ModemPlain, ModemCipsend,
             ModemTakesPayload, ModemMisreads, ModemReports, vars, modemSide
  <2>3. refused' = refused \/ refused' = refused + 1
      BY DEF Next, Exec, CmdReady, WriteCommand, GetResult, TransferReady, WritePayload,
             GetResult2, ReportResult, Start, ReadConn, Parser, ParserBegin, DispatchReport, DispatchConn,
             DispatchResult, DispatchDrop, Modem, ModemPlain, ModemCipsend,
             ModemTakesPayload, ModemMisreads, ModemReports, Refuses, vars, modemSide
  <2> QED BY <2>1, <2>2, <2>3
<1>2. Counts' /\ (Clean' => Clean)
    BY <1>1 DEF Counts, Clean
<1>3. Record'
  <2>1. CASE \E k \in 0..MaxChunk : Start(k)
      BY <2>1, LinkAssumption DEF Start, Record
  <2>2. CASE Exec
    <3>1. /\ cmd' = cmd \/ cmd' = [cmd EXCEPT !.done = @ + 1]
          /\ pc # "idle"
        BY <2>2 DEF Exec, CmdReady, WriteCommand, GetResult, TransferReady, WritePayload,
                    GetResult2, ReportResult
    <3> QED BY <3>1 DEF Record
  <2>3. CASE ReadConn \/ Parser \/ Modem \/ ModemReports \/ UNCHANGED vars
    <3>1. cmd' = cmd /\ pc' = pc
        BY <2>3 DEF ReadConn, Parser, ParserBegin, DispatchReport, DispatchConn, DispatchResult, DispatchDrop, Modem,
                    ModemPlain, ModemCipsend, ModemTakesPayload, ModemMisreads, ModemReports,
                    execSide, vars
    <3> QED BY <3>1 DEF Record
  <2> QED BY <2>1, <2>2, <2>3 DEF Next
<1> QED BY <1>2, <1>3

LEMMA MatchStep == MatchInv /\ [Next]_vars => MatchInv'
<1> SUFFICES ASSUME MatchInv, [Next]_vars PROVE MatchInv'
    OBVIOUS
<1>1. Counts /\ Record /\ Counts' /\ Record' /\ (Clean' => Clean)
    BY Bookkeeping DEF MatchInv
<1>2. SUFFICES ASSUME Clean' PROVE Step' /\ Match'
    BY <1>1 DEF MatchInv
<1>3. Step /\ Match
    BY <1>1, <1>2 DEF MatchInv
<1>4. CASE Exec \/ \E k \in 0..MaxChunk : Start(k)
  <2>1. TransferReady => Match'
      BY <1>3 DEF TransferReady, Match
  <2> QED BY <1>1, <1>2, <1>3, <1>4, <2>1, RestingStep, WriteStep, ResultStep, TransferStep,
             Result2Step DEF Exec
<1>5. CASE Parser
    BY <1>3, <1>5, ParserMatch
<1>6. CASE Modem \/ ModemReports
    BY <1>1, <1>2, <1>3, <1>6, ModemMatch
<1>7. CASE ReadConn \/ UNCHANGED vars
  <2>1. /\ peri' = peri /\ pmsg' = pmsg /\ rx' = rx /\ sendres' = sendres /\ pc' = pc
        /\ cmd' = cmd /\ res2' = res2 /\ tx' = tx /\ modem' = modem /\ taken' = taken
      BY <1>7 DEF ReadConn, vars, parserSide, execSide, modemSide
  <2> QED BY <2>1, <1>3 DEF Step, Match, Resting, Silence, Coming, Prompting, Prompted,
                            Line, Load, Ok, Ask
<1> QED BY <1>4, <1>5, <1>6, <1>7 DEF Next

LEMMA MatchInit == Init => MatchInv
BY DEF Init, MatchInv, Counts, Record, Step, Match, Resting, Silence

(* As long as the modem answers in time and unasked for nothing, every      *)
(* answer the executor takes is the one to its own command and of the kind  *)
(* that step waits for, for any number of commands and chunks: the one      *)
(* place of atc_sendres never holds an older one (exec.c:128, 138, 162).    *)
THEOREM AnswersMatch == Spec => []ResultMatch
<1>1. MatchInv => ResultMatch
    BY DEF MatchInv, Match, Clean, ResultMatch
<1> QED BY <1>1, MatchInit, MatchStep, PTL DEF Spec
-----------------------------------------------------------------------------
(* When one thing went wrong, answers are counted rather than shown one by  *)
(* one.  They are somewhere between atc_sendres (place 0) and the end of    *)
(* the line, with reports and prompts in between.                           *)
At(p)     == IF p = 0 THEN IF sendres = <<>> THEN NoMsg ELSE sendres[1]
             ELSE IF p = 1 THEN pmsg ELSE rx[p - 1]
Places    == 0..(Len(rx) + 1)
Result(p) == p \in Places /\ IsResult(At(p))

None      == \A p \in Places : ~Result(p)
One(t)    == \E p \in Places : /\ Result(p) /\ At(p).type = t
                               /\ \A q \in Places : Result(q) => q = p
Two(t, u) == \E p, q \in Places : /\ p < q /\ Result(p) /\ Result(q)
                                  /\ At(p).type = t /\ At(q).type = u
                                  /\ \A r \in Places : Result(r) => r \in {p, q}

(* What is not taken stays: whatever moves the answers in order.            *)
Kept ==
    /\ None => None'
    /\ \A t \in ResultType : One(t) => One(t)'
    /\ \A t, u \in ResultType : Two(t, u) => Two(t, u)'

(* One more answer behind them.                                             *)
Joined(u) ==
    /\ None => One(u)'
    /\ \A t \in ResultType : One(t) => Two(t, u)'

(* atc_sendres holds an answer or nothing.                                  *)
Slot == sendres = <<>> \/ (sendres = <<sendres[1]>> /\ IsResult(sendres[1]))

LEMMA Moves ==
    ASSUME NEW g,
           \A p \in Places : Result(p) => Result(g[p])' /\ At(g[p])'.type = At(p).type,
           \A p, q \in Places : p < q /\ Result(p) /\ Result(q) => g[p] < g[q],
           \A r \in Places' : Result(r)' => \E p \in Places : Result(p) /\ r = g[p]
    PROVE  Kept
<1>1. \A r : Result(r)' => r \in Places'
    BY DEF Result
<1>2. None => None'
    BY DEF None
<1>3. ASSUME NEW t, One(t) PROVE One(t)'
  <2>1. PICK p \in Places : /\ Result(p) /\ At(p).type = t
                            /\ \A q \in Places : Result(q) => q = p
      BY <1>3 DEF One
  <2>2. g[p] \in Places' /\ Result(g[p])' /\ At(g[p])'.type = t
      BY <1>1, <2>1
  <2>3. \A r \in Places' : Result(r)' => r = g[p]
      BY <2>1
  <2> QED BY <2>2, <2>3 DEF One
<1>4. ASSUME NEW t, NEW u, Two(t, u) PROVE Two(t, u)'
  <2>1. PICK p, q \in Places : /\ p < q /\ Result(p) /\ Result(q)
                               /\ At(p).type = t /\ At(q).type = u
                               /\ \A r \in Places : Result(r) => r \in {p, q}
      BY <1>4 DEF Two
  <2>2. /\ g[p] \in Places' /\ Result(g[p])' /\ At(g[p])'.type = t
        /\ g[q] \in Places' /\ Result(g[q])' /\ At(g[q])'.type = u /\ g[p] < g[q]
      BY <1>1, <2>1
  <2>3. \A r \in Places' : Result(r)' => r \in {g[p], g[q]}
      BY <2>1
  <2> QED BY <2>2, <2>3 DEF Two
<1> QED BY <1>2, <1>3, <1>4 DEF Kept

LEMMA Joins ==
    ASSUME NEW e \in Places', NEW u, Result(e)', At(e)'.type = u,
           \A p \in Places : p < e /\ (Result(p) => Result(p)' /\ At(p)' = At(p)),
           \A r \in Places' : Result(r)' => r = e \/ (r \in Places /\ Result(r))
    PROVE  Joined(u)
<1>1. \A r : Result(r)' => r \in Places'
    BY DEF Result
<1>2. None => One(u)'
  <2>1. ASSUME None PROVE \A r \in Places' : Result(r)' => r = e
      BY <2>1 DEF None
  <2> QED BY <2>1 DEF One
<1>3. ASSUME NEW t, One(t) PROVE Two(t, u)'
  <2>1. PICK p \in Places : /\ Result(p) /\ At(p).type = t
                            /\ \A q \in Places : Result(q) => q = p
      BY <1>3 DEF One
  <2>2. p \in Places' /\ p < e /\ Result(p)' /\ At(p)'.type = t
      BY <1>1, <2>1
  <2>3. \A r \in Places' : Result(r)' => r \in {p, e}
      BY <2>1
  <2> QED BY <2>2, <2>3 DEF Two
<1> QED BY <1>2, <1>3 DEF Joined

(* Nothing that matters moves.                                              *)
LEMMA Stays ==
    ASSUME rx' = rx, pmsg' = pmsg, sendres' = sendres PROVE Kept
BY DEF Kept, None, One, Two, Result, Places, At

(* The parser takes answers along, unless it has to drop one.               *)
LEMMA ParserKeeps ==
    ASSUME Wires, Slot, Parser, ~DispatchDrop PROVE Kept /\ Slot'
<1>1. /\ rx \in Seq(Heard) /\ Len(rx) \in Nat
      /\ pmsg # NoMsg => pmsg.type \notin {"blank", "prompt"}
    BY LenProperties DEF Wires
<1>2. CASE ParserBegin
  <2> DEFINE g == [p \in Nat |-> IF p = 0 THEN 0 ELSE p - 1]
  <2>1. /\ rx # <<>> /\ rx' = Tail(rx) /\ sendres' = sendres /\ pmsg = NoMsg
        /\ pmsg' = IF Head(rx).type \in {"blank", "prompt"} THEN pmsg ELSE Head(rx)
      BY <1>2 DEF ParserBegin
  <2>2. Len(rx) >= 1 /\ Len(rx') = Len(rx) - 1 /\ \A k \in 1..Len(rx') : rx'[k] = rx[k + 1]
      BY <1>1, <2>1, HeadTailProperties
  <2>3. Head(rx) = rx[1]
      BY <1>1, <2>1
  <2>4. ~Result(1) /\ \A p \in Nat : g[p] = IF p = 0 THEN 0 ELSE p - 1
      BY <2>1, NoResult DEF Result, At
  <2>5. At(0)' = At(0)
      BY <2>1 DEF At
  <2>6. \A p \in Places : p > 2 => At(p - 1)' = At(p)
      BY <1>1, <2>2 DEF At, Places
  <2>7. IsResult(At(2)) => At(1)' = At(2)
      BY <2>1, <2>3 DEF At, IsResult, ResultType
  <2>8. IsResult(At(1)') => At(1)' = At(2)
      BY <2>1, <2>3, NoResult DEF At
  <2>9. Places = 0..(Len(rx) + 1) /\ Places' = 0..Len(rx)
      BY <1>1, <2>2 DEF Places
  <2> HIDE DEF g
  <2>10. \A p \in Places : Result(p) => Result(g[p])' /\ At(g[p])'.type = At(p).type
    <3> SUFFICES ASSUME NEW p \in Places, Result(p)
                 PROVE  Result(g[p])' /\ At(g[p])'.type = At(p).type
        OBVIOUS
    <3>1. p = 0 \/ p >= 2
        BY <2>4, <2>9
    <3>2. g[p] \in Places' /\ At(g[p])' = At(p)
      <4>1. CASE p = 0
          BY <4>1, <1>1, <2>2, <2>4, <2>5, <2>9
      <4>2. CASE p = 2
          BY <4>2, <1>1, <2>2, <2>4, <2>7, <2>9 DEF Result
      <4>3. CASE p > 2
          BY <4>3, <1>1, <2>2, <2>4, <2>6, <2>9
      <4> QED BY <3>1, <4>1, <4>2, <4>3, <2>9
    <3> QED BY <3>2 DEF Result
  <2>11. \A p, q \in Places : p < q /\ Result(p) /\ Result(q) => g[p] < g[q]
      BY <1>1, <2>4, <2>9
  <2>12. \A r \in Places' : Result(r)' => \E p \in Places : Result(p) /\ r = g[p]
    <3> SUFFICES ASSUME NEW r \in Places', Result(r)'
                 PROVE  \E p \in Places : Result(p) /\ r = g[p]
        OBVIOUS
    <3>1. CASE r = 0
        BY <3>1, <1>1, <2>4, <2>5, <2>9 DEF Result
    <3>2. CASE r # 0
      <4>1. r + 1 \in Places /\ g[r + 1] = r
          BY <3>2, <1>1, <2>4, <2>9
      <4>2. At(r)' = At(r + 1)
        <5>1. CASE r = 1
            BY <5>1, <2>8 DEF Result
        <5>2. CASE r > 1
          <6>1. r + 1 > 2 /\ (r + 1) - 1 = r
              BY <5>2, <1>1, <2>9
          <6> QED BY <6>1, <4>1, <2>6
        <5> QED BY <5>1, <5>2, <3>2, <2>9
      <4> QED BY <4>1, <4>2 DEF Result
    <3> QED BY <3>1, <3>2
  <2> QED BY <2>1, <2>10, <2>11, <2>12, Moves DEF Slot
<1>3. CASE DispatchReport \/ DispatchConn
  <2> DEFINE g == [p \in Nat |-> p]
  <2>1. rx' = rx /\ sendres' = sendres /\ pmsg' = NoMsg /\ ~IsResult(pmsg)
      BY <1>3, NoResult DEF DispatchReport, DispatchConn, EndMsg
  <2>2. Places' = Places /\ Places \subseteq Nat /\ \A p \in Nat : g[p] = p
      BY <1>1, <2>1 DEF Places
  <2>3. ~Result(1) /\ ~Result(1)'
      BY <2>1, NoResult DEF Result, At
  <2>4. \A p : p # 1 => At(p)' = At(p)
      BY <2>1 DEF At
  <2>5. \A p : Result(p)' <=> Result(p)
      BY <2>2, <2>3, <2>4 DEF Result
  <2> HIDE DEF g
  <2>6. Kept
    <3>1. \A p \in Places : Result(p) => Result(g[p])' /\ At(g[p])'.type = At(p).type
        BY <2>2, <2>3, <2>4, <2>5
    <3>2. \A p, q \in Places : p < q /\ Result(p) /\ Result(q) => g[p] < g[q]
        BY <2>2
    <3>3. \A r \in Places' : Result(r)' => \E p \in Places : Result(p) /\ r = g[p]
        BY <2>2, <2>5
    <3> QED BY <3>1, <3>2, <3>3, Moves
  <2> QED BY <2>1, <2>6 DEF Slot
<1>4. CASE DispatchResult
  <2> DEFINE g == [p \in Nat |-> IF p = 1 THEN 0 ELSE p]
  <2>1. rx' = rx /\ sendres = <<>> /\ sendres' = <<pmsg>> /\ pmsg' = NoMsg /\ IsResult(pmsg)
      BY <1>4, Tails DEF DispatchResult, EndMsg, Room
  <2>2. Places' = Places /\ Places \subseteq Nat /\ 0 \in Places /\ 1 \in Places
        /\ \A p \in Nat : g[p] = IF p = 1 THEN 0 ELSE p
      BY <1>1, <2>1 DEF Places
  <2>3. ~Result(0) /\ ~Result(1)'
      BY <2>1, NoResult DEF Result, At
  <2>4. At(0)' = At(1) /\ \A p : p \notin {0, 1} => At(p)' = At(p)
    <3>1. <<pmsg>> # <<>> /\ <<pmsg>>[1] = pmsg
        OBVIOUS
    <3> QED BY <2>1, <3>1 DEF At
  <2>5. Result(0)' <=> Result(1)
      BY <2>2, <2>4 DEF Result
  <2>6. \A p : p \notin {0, 1} => (Result(p)' <=> Result(p))
      BY <2>2, <2>4 DEF Result
  <2> HIDE DEF g
  <2>7. Kept
    <3>1. \A p \in Places : Result(p) => Result(g[p])' /\ At(g[p])'.type = At(p).type
        BY <2>2, <2>3, <2>4, <2>5, <2>6
    <3>2. \A p, q \in Places : p < q /\ Result(p) /\ Result(q) => g[p] < g[q]
        BY <2>2, <2>3
    <3>3. \A r \in Places' : Result(r)' => \E p \in Places : Result(p) /\ r = g[p]
        BY <2>2, <2>3, <2>5, <2>6
    <3> QED BY <3>1, <3>2, <3>3, Moves
  <2> QED BY <2>1, <2>7 DEF Slot
<1> QED BY <1>2, <1>3, <1>4 DEF Parser

(* The modem adds at the end of the line.                                   *)
LEMMA SaysWhere ==
    ASSUME Wires, NEW ms \in Seq(Heard), Say(ms), pmsg' = pmsg, sendres' = sendres
    PROVE  /\ Len(rx) \in Nat /\ Len(ms) \in Nat
           /\ Places = 0..(Len(rx) + 1) /\ Places' = 0..(Len(rx) + Len(ms) + 1)
           /\ \A p \in Places : At(p)' = At(p)
           /\ \A k \in 1..Len(ms), d \in Nat : d = Len(rx) + 1 + k => At(d)' = ms[k]
<1>1. /\ rx \in Seq(Heard) /\ Len(rx) \in Nat /\ Len(ms) \in Nat
      /\ Len(rx') = Len(rx) + Len(ms)
      /\ \A k \in 1..(Len(rx) + Len(ms)) : rx'[k] = IF k <= Len(rx) THEN rx[k] ELSE ms[k - Len(rx)]
    BY LenProperties, ConcatProperties DEF Wires, Say
<1>2. \A p \in Places : At(p)' = At(p)
    BY <1>1 DEF Places, At
<1>3. ASSUME NEW k \in 1..Len(ms), NEW d \in Nat, d = Len(rx) + 1 + k PROVE At(d)' = ms[k]
  <2>1. d > 1 /\ d - 1 = Len(rx) + k
        /\ Len(rx) + k \in 1..(Len(rx) + Len(ms)) /\ ~(Len(rx) + k <= Len(rx))
        /\ (Len(rx) + k) - Len(rx) = k
      BY <1>1, <1>3
  <2>2. At(d)' = rx'[d - 1]
      BY <2>1 DEF At
  <2> QED BY <1>1, <2>1, <2>2
<1> QED BY <1>1, <1>2, <1>3 DEF Places

LEMMA SaysNothing ==
    ASSUME Wires, NEW ms \in Seq(Heard), Say(ms), pmsg' = pmsg, sendres' = sendres,
           \A k \in 1..Len(ms) : ~IsResult(ms[k])
    PROVE  Kept
<1> DEFINE g == [p \in Nat |-> p]
<1>1. /\ Len(rx) \in Nat /\ Len(ms) \in Nat
      /\ Places = 0..(Len(rx) + 1) /\ Places' = 0..(Len(rx) + Len(ms) + 1)
      /\ \A p \in Places : At(p)' = At(p)
      /\ \A k \in 1..Len(ms), d \in Nat : d = Len(rx) + 1 + k => At(d)' = ms[k]
    BY SaysWhere
<1>2. \A p \in Places : p \in Places' /\ p \in Nat /\ g[p] = p
    BY <1>1
<1>3. ASSUME NEW r \in Places', Result(r)' PROVE r \in Places /\ Result(r)
  <2>1. CASE r \in Places
      BY <1>1, <1>3, <2>1 DEF Result
  <2>2. CASE r \notin Places
    <3>1. PICK k \in 1..Len(ms) : r = Len(rx) + 1 + k
      <4>1. r - Len(rx) - 1 \in 1..Len(ms) /\ r = Len(rx) + 1 + (r - Len(rx) - 1)
          BY <1>1, <2>2
      <4> QED BY <4>1
    <3> QED BY <1>1, <1>3, <3>1 DEF Result
  <2> QED BY <2>1, <2>2
<1> HIDE DEF g
<1>4. \A p \in Places : Result(p) => Result(g[p])' /\ At(g[p])'.type = At(p).type
    BY <1>1, <1>2 DEF Result
<1>5. \A p, q \in Places : p < q /\ Result(p) /\ Result(q) => g[p] < g[q]
    BY <1>2
<1>6. \A r \in Places' : Result(r)' => \E p \in Places : Result(p) /\ r = g[p]
    BY <1>2, <1>3
<1> QED BY <1>4, <1>5, <1>6, Moves

LEMMA SaysOne ==
    ASSUME Wires, NEW ms \in Seq(Heard), Say(ms), pmsg' = pmsg, sendres' = sendres,
           NEW e \in 1..Len(ms), IsResult(ms[e]),
           \A k \in 1..Len(ms) : IsResult(ms[k]) => k = e
    PROVE  Joined(ms[e].type)
<1>1. /\ Len(rx) \in Nat /\ Len(ms) \in Nat
      /\ Places = 0..(Len(rx) + 1) /\ Places' = 0..(Len(rx) + Len(ms) + 1)
      /\ \A p \in Places : At(p)' = At(p)
      /\ \A k \in 1..Len(ms), d \in Nat : d = Len(rx) + 1 + k => At(d)' = ms[k]
    BY SaysWhere
<1>0. PICK d \in Nat : d = Len(rx) + 1 + e
    BY <1>1
<1>2. d \in Places' /\ At(d)' = ms[e] /\ Result(d)'
    BY <1>0, <1>1 DEF Result
<1>3. \A p \in Places : p < d /\ (Result(p) => Result(p)' /\ At(p)' = At(p))
    BY <1>0, <1>1 DEF Result
<1>4. ASSUME NEW r \in Places', Result(r)' PROVE r = d \/ (r \in Places /\ Result(r))
  <2>1. CASE r \in Places
      BY <1>1, <1>4, <2>1 DEF Result
  <2>2. CASE r \notin Places
    <3>1. PICK k \in 1..Len(ms) : r = Len(rx) + 1 + k
      <4>1. r - Len(rx) - 1 \in 1..Len(ms) /\ r = Len(rx) + 1 + (r - Len(rx) - 1)
          BY <1>1, <2>2
      <4> QED BY <4>1
    <3> QED BY <1>0, <1>1, <1>4, <3>1 DEF Result
  <2> QED BY <2>1, <2>2
<1> QED BY <1>2, <1>3, <1>4, Joins

LEMMA SomeHere ==
    /\ \A t : One(t) => ~None
    /\ \A t, u : Two(t, u) => ~None
    /\ Result(0) /\ Result(1) => ~None /\ \A t : ~One(t)
<1>1. \A t : One(t) => ~None
    BY DEF One, None
<1>2. \A t, u : Two(t, u) => ~None
    BY DEF Two, None
<1>3. Result(0) /\ Result(1) => ~None /\ \A t : ~One(t)
  <2>1. Result(0) /\ Result(1) => 0 \in Places /\ 1 \in Places
      BY DEF Result
  <2> QED BY <2>1 DEF One, None
<1> QED BY <1>1, <1>2, <1>3

(* The executor takes the first of them.                                    *)
LEMMA TakesFirst ==
    ASSUME Wires, Slot, NEW want, NEW r, TakeAnswer(want, r), rx' = rx, pmsg' = pmsg
    PROVE  /\ Slot' /\ ~None
           /\ \A t : One(t) => r = t /\ None'
           /\ \A t, u : Two(t, u) => r = t /\ One(u)'
<1>1. Len(rx) \in Nat
    BY LenProperties DEF Wires
<1>2. sendres = <<sendres[1]>> /\ IsResult(sendres[1]) /\ sendres # <<>> /\ sendres' = Tail(sendres)
      /\ r = Head(sendres).type
    BY DEF Slot, TakeAnswer
<1>3. sendres' = <<>> /\ r = sendres[1].type
    BY <1>2, Tails
<1>4. Places' = Places /\ 0 \in Places /\ \A p \in Places : p \in Nat
    BY <1>1 DEF Places
<1>5. At(0) = sendres[1] /\ Result(0) /\ ~Result(0)'
    BY <1>2, <1>3, <1>4, NoResult DEF At, Result
<1>6. \A p : p # 0 => At(p)' = At(p)
    BY DEF At
<1>7. \A p : p # 0 => (Result(p)' <=> Result(p))
    BY <1>4, <1>6 DEF Result
<1>8. ~None
    BY <1>4, <1>5 DEF None
<1>9. ASSUME NEW t, One(t) PROVE r = t /\ None'
  <2>1. PICK p \in Places : /\ Result(p) /\ At(p).type = t
                            /\ \A q \in Places : Result(q) => q = p
      BY <1>9 DEF One
  <2>2. p = 0 /\ \A q \in Places : Result(q) => q = 0
      BY <2>1, <1>4, <1>5
  <2> QED BY <2>1, <2>2, <1>3, <1>4, <1>5, <1>7 DEF None
<1>10. ASSUME NEW t, NEW u, Two(t, u) PROVE r = t /\ One(u)'
  <2>1. PICK p, q \in Places : /\ p < q /\ Result(p) /\ Result(q)
                               /\ At(p).type = t /\ At(q).type = u
                               /\ \A s \in Places : Result(s) => s \in {p, q}
      BY <1>10 DEF Two
  <2>2. p = 0 /\ q # 0
      BY <2>1, <1>4, <1>5
  <2>3. r = t /\ Result(q)' /\ At(q)'.type = u /\ q \in Places'
      BY <2>1, <2>2, <1>3, <1>4, <1>5, <1>6, <1>7
  <2>4. \A s \in Places' : Result(s)' => s = q
      BY <2>1, <2>2, <1>4, <1>5, <1>7
  <2> QED BY <2>3, <2>4 DEF One
<1> QED BY <1>3, <1>8, <1>9, <1>10 DEF Slot

(* It gives up when there is none.                                          *)
LEMMA GivesUp ==
    ASSUME Wires, Slot, Counts, late' = 0, NEW r, AnswerTimeout(r), rx' = rx, pmsg' = pmsg
    PROVE  None /\ None' /\ tx = <<>> /\ r = "atc_unknown" /\ Slot'
<1>1. ~Pending(IsResult) /\ sendres = <<>> /\ sendres' = sendres /\ r = "atc_unknown"
    BY DEF AnswerTimeout, Premature, Counts
<1>2. tx = <<>> /\ ~IsResult(pmsg) /\ \A k \in 1..Len(rx) : ~IsResult(rx[k])
    BY <1>1 DEF Pending
<1>3. Len(rx) \in Nat
    BY LenProperties DEF Wires
<1>4. \A p \in Places : ~Result(p)
  <2> SUFFICES ASSUME NEW p \in Places PROVE ~IsResult(At(p))
      BY DEF Result
  <2>1. CASE p \in {0, 1}
      BY <2>1, <1>1, <1>2, NoResult DEF At
  <2>2. CASE p \notin {0, 1}
    <3>1. p - 1 \in 1..Len(rx)
        BY <2>2, <1>3 DEF Places
    <3> QED BY <2>2, <3>1, <1>2 DEF At
  <2> QED BY <2>1, <2>2
<1>5. None
    BY <1>4 DEF None
<1> QED BY <1>1, <1>2, <1>5, Stays DEF Kept, Slot
-----------------------------------------------------------------------------
(* What the modem took, for each command. *)
Accounts == accepted \in [Number -> Nat] /\ cmd.n \in Number

LEMMA AccountsStep == Accounts /\ Record /\ [Next]_vars => Accounts'
<1> SUFFICES ASSUME Accounts, Record, [Next]_vars PROVE Accounts'
    OBVIOUS
<1>1. accepted' = accepted \/ accepted' = [accepted EXCEPT ![modem] = @ + 1]
    BY DEF Next, Exec, CmdReady, WriteCommand, GetResult, TransferReady, WritePayload,
           GetResult2, ReportResult, Start, ReadConn, Parser, ParserBegin, DispatchReport, DispatchConn,
           DispatchResult, DispatchDrop, Modem, ModemPlain, ModemCipsend,
           ModemTakesPayload, ModemMisreads, ModemReports, vars, modemSide
<1>2. accepted' \in [Number -> Nat]
    BY <1>1 DEF Accounts
<1>3. cmd'.n \in Number
  <2>1. CASE \E k \in 0..MaxChunk : Start(k)
    <3>1. cmd.n < MaxCmd /\ cmd'.n = cmd.n + 1
        BY <2>1 DEF Start
    <3> QED BY <3>1, LinkAssumption DEF Accounts, Number
  <2>2. CASE ~\E k \in 0..MaxChunk : Start(k)
    <3>1. cmd' = cmd \/ cmd' = [cmd EXCEPT !.done = @ + 1]
        BY <2>2 DEF Next, ReadConn, Exec, CmdReady, WriteCommand, GetResult, TransferReady, WritePayload,
               GetResult2, ReportResult, Parser, ParserBegin, DispatchReport, DispatchConn,
               DispatchResult, DispatchDrop, Modem, ModemPlain, ModemCipsend,
               ModemTakesPayload, ModemMisreads, ModemReports, vars, execSide
    <3> QED BY <3>1 DEF Accounts, Record
  <2> QED BY <2>1, <2>2
<1> QED BY <1>2, <1>3 DEF Accounts

(* The states of a line on which one thing at most went wrong.              *)
Mild  == late = 0 /\ refused + reports <= 1
Spent == refused + reports = 1

Holds(items, m) == tx = items /\ modem = m
Counted == accepted[cmd.n] = cmd.done
Between == pc \in {"idle", "ready", "write", "report"}

(* Nothing is under way but what the executor waits for: where a command    *)
(* ends the modem and the line are at rest.                                 *)
InStep ==
    \/ pc \in {"idle", "report"} /\ None /\ Holds(<<>>, 0)
    \/ pc \in {"ready", "write"} /\ None /\ Holds(<<>>, 0) /\ Counted
    \/ pc = "result" /\ None /\ Holds(<<Line>>, 0) /\ Counted
    \/ pc = "result" /\ One("atc_ok") /\ Holds(<<>>, IF cmd.chunks = 0 THEN 0 ELSE cmd.n) /\ Counted
    \/ pc = "result" /\ One("atc_error") /\ Holds(<<>>, 0) /\ Spent
    \/ pc = "wonna" /\ None /\ Holds(<<>>, cmd.n) /\ Counted
    \/ pc = "payload" /\ None /\ Holds(<<>>, cmd.n) /\ Counted /\ res2 # "atc_unknown"
    \/ pc = "result2" /\ None /\ Holds(<<Load>>, cmd.n) /\ Counted
    \/ pc = "result2" /\ One("atc_send_ok") /\ Holds(<<>>, 0) /\ accepted[cmd.n] = cmd.done + 1
    \/ pc = "result2" /\ One("atc_send_fail") /\ Holds(<<>>, 0) /\ Spent

(* A prompt was hidden by a report and no payload written: the modem waits  *)
(* for it and takes the next line instead.  Or payload was written and the  *)
(* modem does not wait for it: it answers with errors, one perhaps too many. *)
Astray ==
    \/ pc = "payload" /\ None /\ Holds(<<>>, cmd.n) /\ res2 = "atc_unknown"
    \/ Between /\ None /\ tx = <<>> /\ modem # 0 /\ modem \in Number
    \/ pc = "result" /\ None /\ tx = <<Line>> /\ modem # 0 /\ modem \in Number
    \/ pc = "result" /\ One("atc_send_ok") /\ Holds(<<>>, 0)
    \/ /\ pc = "payload" /\ None /\ Holds(<<>>, 0)
       /\ res # "atc_ok" /\ res2 # "atc_unknown"
    \/ pc = "result2" /\ None /\ Holds(<<Load>>, 0) /\ res # "atc_ok"
    \/ /\ pc = "result2" /\ Holds(<<>>, 0) /\ res # "atc_ok"
       /\ None \/ One("atc_error") \/ Two("atc_error", "atc_error")

(* The executor is one answer behind.  Between commands that one is under   *)
(* way, or what it answers is still to be read.                             *)
Plain(k) == [kind |-> "plain", n |-> k]
Data(k)  == [kind |-> "payload", n |-> k]
OwedSaid    == (\E t \in ResultType : One(t)) /\ Holds(<<>>, 0)
OwedPlain   == None /\ modem = 0 /\ \E k \in Number : tx = <<Plain(k)>>
OwedData(m) == None /\ modem = m /\ m # 0 /\ tx = <<Data(m)>>

PromptComes == \/ rx # <<>> /\ rx[Len(rx)].type = "prompt"
               \/ rx = <<>> /\ pmsg = NoMsg /\ peri = WONNA

Behind ==
    \/ Between /\ (OwedSaid \/ OwedPlain)
    \/ pc = "report" /\ OwedData(cmd.n) /\ cmd.chunks # 0 /\ ~Success
    \/ pc = "idle" /\ OwedData(cmd.n) /\ cmd.chunks # 0 /\ verdict # "ok"
    \/ pc \in {"ready", "write"} /\ \E m \in Number : m < cmd.n /\ OwedData(m)
    \/ pc = "result" /\ None /\ modem = 0 /\ \E k \in Number : tx = <<Plain(k), Line>>
    \/ pc = "result" /\ None /\ \E m \in Number : m < cmd.n /\ m # 0 /\ Holds(<<Data(m), Line>>, m)
    \/ pc = "result" /\ (\E t \in ResultType : One(t)) /\ Holds(<<Line>>, 0)
    \/ /\ pc = "result" /\ (\E t \in ResultType : Two(t, "atc_ok")) /\ tx = <<>>
       /\ IF cmd.chunks = 0 THEN modem = 0 ELSE modem = cmd.n /\ PromptComes
    \/ pc = "wonna" /\ None /\ Holds(<<Line>>, 0)
    \/ pc = "wonna" /\ One("atc_ok") /\ Holds(<<>>, cmd.n) /\ PromptComes
    \/ pc = "payload" /\ None /\ Holds(<<Line>>, 0) /\ res2 # "atc_unknown"
    \/ pc = "payload" /\ One("atc_ok") /\ Holds(<<>>, cmd.n) /\ res2 # "atc_unknown"
    \/ pc = "result2" /\ None /\ Holds(<<Line, Load>>, 0)
    \/ pc = "result2" /\ One("atc_ok") /\ Holds(<<Load>>, cmd.n)
    \/ pc = "result2" /\ Two("atc_ok", "atc_send_ok") /\ Holds(<<>>, 0)

Sending == pc \in {"wonna", "payload", "result2"} => cmd.chunks # 0
Early   == pc \in {"ready", "write", "result", "wonna"} => res2 = "atc_send_ok"
Books ==
    /\ \A n \in Number : n > cmd.n => accepted[n] = 0
    /\ cmd.chunks = 0 => accepted[cmd.n] = 0
    /\ pc \notin {"idle", "report"} /\ cmd.chunks # 0 => cmd.done < cmd.chunks
    /\ pc \notin {"idle", "report"} /\ cmd.chunks = 0 => cmd.done = 0
    /\ pc = "report" /\ Success => accepted[cmd.n] = cmd.chunks
    /\ pc = "idle" /\ verdict = "ok" => accepted[cmd.n] = cmd.chunks

Where   == InStep \/ (Spent /\ (Astray \/ Behind))
Told    == Sending /\ Early /\ Books /\ Where
Ground  == Wires /\ Slot /\ Accounts /\ Counts /\ Record
SkewInv == LineInv /\ MatchInv /\ Slot /\ Accounts /\ (Mild => Told)

LEMMA SlotStep == Slot /\ [Next]_vars => Slot'
<1> SUFFICES ASSUME Slot, [Next]_vars PROVE Slot'
    OBVIOUS
<1>1. \/ sendres' = sendres
      \/ sendres' = Tail(sendres) /\ sendres # <<>>
      \/ sendres = <<>> /\ sendres' = Append(sendres, pmsg) /\ IsResult(pmsg)
    BY DEF Next, Exec, CmdReady, WriteCommand, GetResult, TransferReady, WritePayload,
           GetResult2, ReportResult, Start, ReadConn, TakeAnswer, AnswerTimeout, Premature, Parser, ParserBegin,
           DispatchReport, DispatchConn, DispatchResult, DispatchDrop, Room, Modem, ModemPlain, ModemCipsend,
           ModemTakesPayload, ModemMisreads, ModemReports, vars
<1>2. CASE sendres' = sendres
    BY <1>2 DEF Slot
<1>3. CASE sendres' = Tail(sendres) /\ sendres # <<>>
    BY <1>3, Tails DEF Slot
<1>4. CASE sendres = <<>> /\ sendres' = Append(sendres, pmsg) /\ IsResult(pmsg)
  <2>1. sendres' = <<pmsg>> /\ <<pmsg>>[1] = pmsg
      BY <1>4, Tails
  <2> QED BY <2>1, <1>4 DEF Slot
<1> QED BY <1>1, <1>2, <1>3, <1>4

(* What goes wrong stays so, and only then is there something to count.     *)
LEMMA MildBefore ==
    ASSUME Counts, [Next]_vars, Mild'
    PROVE  /\ Mild /\ late' = 0 /\ (Spent => Spent')
           /\ (Spent => refused' = refused /\ reports' = reports)
           /\ (refused' = refused + 1 \/ reports' = reports + 1 => ~Spent /\ Spent')
<1>1. /\ late' = late \/ late' = late + 1
      /\ reports' = reports \/ reports' = reports + 1
      /\ refused' = refused \/ refused' = refused + 1
  <2>1. late' = late \/ late' = late + 1
      BY DEF Next, Exec, CmdReady, WriteCommand, GetResult, TransferReady, WritePayload,
             GetResult2, ReportResult, Start, ReadConn, TakeAnswer, AnswerTimeout, Premature, Parser, ParserBegin,
             DispatchReport, DispatchConn, DispatchResult, DispatchDrop, Modem, ModemPlain, ModemCipsend,
             ModemTakesPayload, ModemMisreads, ModemReports, vars
  <2>2. reports' = reports \/ reports' = reports + 1
      BY DEF Next, Exec, CmdReady, WriteCommand, GetResult, TransferReady, WritePayload,
             GetResult2, ReportResult, Start, ReadConn, Parser, ParserBegin, DispatchReport, DispatchConn,
             DispatchResult, DispatchDrop, Modem, ModemPlain, ModemCipsend,
             ModemTakesPayload, ModemMisreads, ModemReports, vars, modemSide
  <2>3. refused' = refused \/ refused' = refused + 1
      BY DEF Next, Exec, CmdReady, WriteCommand, GetResult, TransferReady, WritePayload,
             GetResult2, ReportResult, Start, ReadConn, Parser, ParserBegin, DispatchReport, DispatchConn,
             DispatchResult, DispatchDrop, Modem, ModemPlain, ModemCipsend,
             ModemTakesPayload, ModemMisreads, ModemReports, Refuses, vars, modemSide
  <2> QED BY <2>1, <2>2, <2>3
<1> QED BY <1>1 DEF Counts, Mild, Spent

(* The prompt is the last thing the modem said, and the parser keeps it.    *)
LEMMA PromptKept == ASSUME Wires, Parser, PromptComes PROVE PromptComes'
<1>1. rx \in Seq(Heard) /\ ~IsResult(NoMsg) /\ NoMsg.type = "none"
    BY NoResult DEF Wires, NoMsg, Answer
<1>2. CASE rx = <<>>
    BY <1>1, <1>2 DEF Parser, ParserBegin, DispatchReport, DispatchConn, DispatchResult, DispatchDrop, PromptComes
<1>3. CASE rx # <<>> /\ ~ParserBegin
  <2>1. rx' = rx
      BY <1>3 DEF Parser, DispatchReport, DispatchConn, DispatchResult, DispatchDrop, EndMsg
  <2> QED BY <2>1, <1>3 DEF PromptComes
<1>4. CASE rx # <<>> /\ ParserBegin
  <2>1. rx[Len(rx)].type = "prompt" /\ rx' = Tail(rx) /\ pmsg = NoMsg
      BY <1>4 DEF PromptComes, ParserBegin
  <2>2. CASE Len(rx) = 1
    <3>1. Head(rx).type = "prompt" /\ rx' = <<>>
      <4>1. Head(rx) = rx[1]
          BY <1>1, <1>4
      <4>2. Tail(rx) = <<>>
        <5>1. Tail(rx) \in Seq(Heard) /\ Len(Tail(rx)) = 0
            BY <1>1, <1>4, <2>2, HeadTailProperties
        <5> QED BY <5>1, EmptySeq
      <4> QED BY <4>1, <4>2, <2>1, <2>2
    <3>2. peri' = WONNA /\ pmsg' = pmsg
        BY <1>4, <3>1 DEF ParserBegin
    <3> QED BY <2>1, <3>1, <3>2 DEF PromptComes
  <2>3. CASE Len(rx) # 1
    <3>1. /\ Len(rx) \in Nat /\ Len(rx) > 1 /\ Len(rx') = Len(rx) - 1
          /\ rx'[Len(rx')] = rx[Len(rx)]
      <4>1. /\ Len(rx) \in Nat /\ Len(rx) # 0
          BY <1>1, <1>4, LenProperties, EmptySeq
      <4>2. /\ Len(rx') = Len(rx) - 1
            /\ \A k \in 1..Len(rx') : rx'[k] = rx[k + 1]
          BY <1>1, <1>4, <2>1, HeadTailProperties
      <4>3. Len(rx') \in 1..Len(rx') /\ Len(rx') + 1 = Len(rx)
          BY <4>1, <4>2, <2>3
      <4> QED BY <4>1, <4>2, <4>3, <2>3
    <3>2. rx' # <<>>
        BY <3>1
    <3> QED BY <3>1, <3>2, <2>1 DEF PromptComes
  <2> QED BY <2>2, <2>3
<1> QED BY <1>2, <1>3, <1>4

LEMMA Adds ==
    ASSUME Wires, NEW t \in ResultType, NEW n \in Nat, pmsg' = pmsg, sendres' = sendres
    PROVE  /\ Say(<<Blank, Answer(t, n)>>) => Joined(t)
           /\ Say(<<Blank, Answer(t, n), Prompt(n)>>) => Joined(t) /\ PromptComes'
<1>1. /\ IsResult(Answer(t, n)) /\ Answer(t, n).type = t /\ ~IsResult(Blank)
      /\ ~IsResult(Prompt(n)) /\ Prompt(n).type = "prompt"
    BY NoResult DEF IsResult, Answer, Prompt, ResultType
<1>2. ASSUME Say(<<Blank, Answer(t, n)>>) PROVE Joined(t)
  <2> DEFINE ms == <<Blank, Answer(t, n)>>
  <2>1. ms \in Seq(Heard) /\ Len(ms) = 2 /\ ms[1] = Blank /\ ms[2] = Answer(t, n)
      BY Heards
  <2>2. Say(ms)
      BY <1>2
  <2> HIDE DEF ms
  <2>3. 2 \in 1..Len(ms) /\ IsResult(ms[2]) /\ ms[2].type = t
        /\ \A k \in 1..Len(ms) : IsResult(ms[k]) => k = 2
      BY <1>1, <2>1
  <2>4. Joined(ms[2].type)
      BY <2>1, <2>2, <2>3, SaysOne
  <2> QED BY <2>3, <2>4
<1>3. ASSUME Say(<<Blank, Answer(t, n), Prompt(n)>>) PROVE Joined(t) /\ PromptComes'
  <2> DEFINE ms == <<Blank, Answer(t, n), Prompt(n)>>
  <2>0. ms \in Seq(Heard)
      BY Heards
  <2>1. ms \in Seq(Heard) /\ Len(ms) = 3 /\ ms[1] = Blank /\ ms[2] = Answer(t, n) /\ ms[3] = Prompt(n)
      BY <2>0
  <2>2. Say(ms)
      BY <1>3
  <2> HIDE DEF ms
  <2>3. 2 \in 1..Len(ms) /\ IsResult(ms[2]) /\ ms[2].type = t
        /\ \A k \in 1..Len(ms) : IsResult(ms[k]) => k = 2
      BY <1>1, <2>1
  <2>4. Joined(ms[2].type)
      BY <2>1, <2>2, <2>3, SaysOne
  <2>5. Len(rx') = Len(rx) + 3 /\ rx'[Len(rx) + 3] = ms[3] /\ Len(rx) \in Nat
    <3>1. /\ rx \in Seq(Heard) /\ Len(rx) \in Nat
          /\ Len(rx') = Len(rx) + Len(ms)
          /\ \A k \in 1..(Len(rx) + Len(ms)) : rx'[k] = IF k <= Len(rx) THEN rx[k] ELSE ms[k - Len(rx)]
        BY <2>0, <2>2, LenProperties, ConcatProperties DEF Wires, Say
    <3>2. /\ Len(rx) + 3 \in 1..(Len(rx) + Len(ms)) /\ ~(Len(rx) + 3 <= Len(rx))
          /\ (Len(rx) + 3) - Len(rx) = 3
        BY <3>1, <2>1
    <3> QED BY <3>1, <3>2, <2>1
  <2>6. rx' # <<>> /\ rx'[Len(rx')].type = "prompt"
      BY <2>5, <2>1, <1>1
  <2> QED BY <2>3, <2>4, <2>6 DEF PromptComes
<1> QED BY <1>2, <1>3

LEMMA Queues ==
    ASSUME NEW a, NEW b
    PROVE  /\ Append(<<>>, a) = <<a>> /\ Append(<<a>>, b) = <<a, b>>
           /\ Head(<<a>>) = a /\ Tail(<<a>>) = <<>> /\ <<a>> # <<>>
           /\ Head(<<a, b>>) = a /\ Tail(<<a, b>>) = <<b>> /\ <<a, b>> # <<>>
<1>1. Append(<<a>>, b) = <<a, b>>
  <2> DEFINE S == {a, b}
            s == <<a>>
            p == Append(s, b)
            q == <<a, b>>
  <2>1. s \in Seq(S) /\ Len(s) = 1 /\ s[1] = a /\ q \in Seq(S) /\ Len(q) = 2 /\ q[1] = a /\ q[2] = b
      OBVIOUS
  <2>2. b \in S
      OBVIOUS
  <2>5. p = Append(s, b)
      OBVIOUS
  <2> HIDE DEF s, S, p, q
  <2>3. p \in Seq(S) /\ Len(p) = 2 /\ p[1] = a /\ p[2] = b
    <3>1. p \in Seq(S) /\ Len(p) = Len(s) + 1 /\ \A i \in 1..Len(s) : p[i] = s[i]
        BY <2>1, <2>2, <2>5, AppendProperties, SMTT(40)
    <3>2. p[Len(s) + 1] = b
        BY <2>1, <2>2, <2>5, AppendProperties, SMTT(40)
    <3> QED BY <2>1, <3>1, <3>2
  <2>4. p = q
      BY <2>1, <2>3, SeqEqual
  <2> QED BY <2>4 DEF p, q, s
<1> QED BY <1>1, Tails

LEMMA Names ==
    /\ Load = Data(cmd.n) /\ Load.kind = "payload" /\ Load.n = cmd.n
    /\ Line.n = cmd.n
    /\ cmd.chunks = 0 => Line = Plain(cmd.n) /\ Line.kind = "plain"
    /\ cmd.chunks # 0 => Line.kind = "cipsend"
    /\ \A k : Plain(k).kind = "plain" /\ Plain(k).n = k
    /\ \A k : Data(k).kind = "payload" /\ Data(k).n = k
BY DEF Load, Line, Plain, Data

(* What moves answers along leaves the state where it was.                  *)
LEMMA Quiet ==
    ASSUME Kept, Spent => Spent', pc' = pc, cmd' = cmd, tx' = tx, modem' = modem,
           res' = res, res2' = res2, verdict' = verdict, accepted' = accepted
    PROVE  /\ InStep => InStep'
           /\ Astray => Astray'
           /\ Behind /\ (PromptComes => PromptComes') => Behind'
<1>1. /\ None => None'
      /\ \A t \in ResultType : One(t) => One(t)'
      /\ \A t, u \in ResultType : Two(t, u) => Two(t, u)'
    BY DEF Kept
<1>2. /\ One("atc_ok") => One("atc_ok")'
      /\ One("atc_error") => One("atc_error")'
      /\ One("atc_send_ok") => One("atc_send_ok")'
      /\ One("atc_send_fail") => One("atc_send_fail")'
      /\ Two("atc_error", "atc_error") => Two("atc_error", "atc_error")'
      /\ Two("atc_ok", "atc_send_ok") => Two("atc_ok", "atc_send_ok")'
      /\ (\E t \in ResultType : One(t)) => \E t \in ResultType : One(t)'
      /\ (\E t \in ResultType : Two(t, "atc_ok")) => \E t \in ResultType : Two(t, "atc_ok")'
    BY <1>1 DEF ResultType
<1>3. Line' = Line /\ Load' = Load /\ (Counted => Counted') /\ (Success <=> Success')
    BY DEF Line, Load, Counted, Success
<1>4. InStep => InStep'
    BY <1>1, <1>2, <1>3 DEF InStep, Holds
<1>5. Astray => Astray'
    BY <1>1, <1>2, <1>3 DEF Astray, Holds, Between
<1>6. /\ OwedSaid => OwedSaid'
      /\ OwedPlain => OwedPlain'
      /\ \A m : OwedData(m) => OwedData(m)'
    BY <1>1, <1>2 DEF OwedSaid, OwedPlain, OwedData, Holds
<1>7. ASSUME Behind, PromptComes => PromptComes' PROVE Behind'
  <2>1. CASE Between /\ (OwedSaid \/ OwedPlain)
      BY <2>1, <1>6 DEF Behind, Between
  <2>2. CASE \/ pc = "report" /\ OwedData(cmd.n) /\ cmd.chunks # 0 /\ ~Success
             \/ pc = "idle" /\ OwedData(cmd.n) /\ cmd.chunks # 0 /\ verdict # "ok"
    <3>1. OwedData(cmd.n)' /\ cmd.n' = cmd.n
        BY <2>2, <1>6 DEF OwedData
    <3> QED BY <3>1, <2>2, <1>3 DEF Behind
  <2>3. CASE pc \in {"ready", "write"} /\ \E m \in Number : m < cmd.n /\ OwedData(m)
      BY <2>3, <1>6 DEF Behind
  <2>4. CASE \/ pc = "result" /\ None /\ modem = 0 /\ \E k \in Number : tx = <<Plain(k), Line>>
             \/ pc = "result" /\ None /\ \E m \in Number : m < cmd.n /\ m # 0 /\ Holds(<<Data(m), Line>>, m)
      BY <2>4, <1>1, <1>3 DEF Behind, Holds
  <2>5. CASE \/ pc = "result" /\ (\E t \in ResultType : One(t)) /\ Holds(<<Line>>, 0)
             \/ /\ pc = "result" /\ (\E t \in ResultType : Two(t, "atc_ok")) /\ tx = <<>>
                /\ IF cmd.chunks = 0 THEN modem = 0 ELSE modem = cmd.n /\ PromptComes
      BY <2>5, <1>2, <1>3, <1>7 DEF Behind, Holds
  <2>6. CASE \/ pc = "wonna" /\ None /\ Holds(<<Line>>, 0)
             \/ pc = "wonna" /\ One("atc_ok") /\ Holds(<<>>, cmd.n) /\ PromptComes
             \/ pc = "payload" /\ None /\ Holds(<<Line>>, 0) /\ res2 # "atc_unknown"
             \/ pc = "payload" /\ One("atc_ok") /\ Holds(<<>>, cmd.n) /\ res2 # "atc_unknown"
             \/ pc = "result2" /\ None /\ Holds(<<Line, Load>>, 0)
             \/ pc = "result2" /\ One("atc_ok") /\ Holds(<<Load>>, cmd.n)
             \/ pc = "result2" /\ Two("atc_ok", "atc_send_ok") /\ Holds(<<>>, 0)
      BY <2>6, <1>1, <1>2, <1>3, <1>7 DEF Behind, Holds
  <2> QED BY <1>7, <2>1, <2>2, <2>3, <2>4, <2>5, <2>6 DEF Behind
<1> QED BY <1>4, <1>5, <1>7

LEMMA QuietTold ==
    ASSUME Told, Spent => Spent', pc' = pc, cmd' = cmd, res' = res, res2' = res2,
           verdict' = verdict, accepted' = accepted
    PROVE  Sending' /\ Early' /\ Books'
BY DEF Told, Sending, Early, Books, Success

LEMMA ParserSkew ==
    ASSUME Ground, Told, Spent => Spent', Parser PROVE Told'
<1>1. /\ pc' = pc /\ cmd' = cmd /\ tx' = tx /\ modem' = modem /\ res' = res /\ res2' = res2
      /\ verdict' = verdict /\ accepted' = accepted
    BY DEF Parser, ParserBegin, DispatchReport, DispatchConn, DispatchResult, DispatchDrop, execSide, modemSide
<1>2. ~DispatchDrop      \* the queue is full only while the executor reads it
  <2> SUFFICES ASSUME DispatchDrop PROVE FALSE
      OBVIOUS
  <2>1. IsResult(pmsg) /\ sendres # <<>> /\ pc # "result" /\ pc # "result2"
      BY DEF DispatchDrop, Room
  <2>2. Result(0) /\ Result(1)
    <3>1. At(0) = sendres[1] /\ IsResult(sendres[1]) /\ At(1) = pmsg
        BY <2>1 DEF At, Ground, Slot
    <3>2. 0 \in Places /\ 1 \in Places
        BY LenProperties DEF Places, Ground, Wires
    <3> QED BY <2>1, <3>1, <3>2 DEF Result
  <2>3. ~None /\ \A t : ~One(t)
      BY <2>2, SomeHere
  <2> QED BY <2>1, <2>3 DEF Told, Where, InStep, Astray, Behind, OwedSaid, OwedPlain, OwedData, Between
<1>3. Kept /\ (PromptComes => PromptComes')
    BY <1>2, ParserKeeps, PromptKept DEF Ground
<1>4. Where'
    BY <1>1, <1>3, Quiet DEF Told, Where
<1> QED BY <1>1, <1>4, QuietTold DEF Told

(* What the modem does: it reports, or reads a command line, a payload, or  *)
(* what is left from the command before.                                    *)
LEMMA ReportSkew ==
    ASSUME Ground, Told, ~Spent, Spent', ModemReports PROVE Told'
<1>1. /\ pc' = pc /\ cmd' = cmd /\ tx' = tx /\ modem' = modem /\ res' = res /\ res2' = res2
      /\ verdict' = verdict /\ accepted' = accepted /\ pmsg' = pmsg /\ sendres' = sendres
    BY DEF ModemReports, execSide
<1>2. Kept
  <2>0. PICK q \in {"report", "conn"} : Say(<<Blank, Report(q)>>)
      BY DEF ModemReports
  <2> DEFINE ms == <<Blank, Report(q)>>
  <2>1. ms \in Seq(Heard) /\ Say(ms) /\ \A k \in 1..Len(ms) : ~IsResult(ms[k])
    <3>1. ms \in Seq(Heard) /\ Len(ms) = 2 /\ ms[1] = Blank /\ ms[2] = Report(q)
        BY Heards DEF ResultType
    <3>2. Report(q).type \in {"report", "conn"}
        BY DEF Report, Answer
    <3>3. Say(ms)
        BY <2>0
    <3> HIDE DEF ms
    <3> QED BY <3>1, <3>2, <3>3, NoResult
  <2> HIDE DEF ms
  <2> QED BY <2>1, <1>1, SaysNothing DEF Ground
<1>3. Where'
    BY <1>1, <1>2, Quiet DEF Told, Where
<1> QED BY <1>1, <1>3, QuietTold DEF Told

LEMMA ModemPlainSkew ==
    ASSUME Ground, Told, Spent => Spent' /\ refused' = refused,
           refused' = refused + 1 => ~Spent /\ Spent', ModemPlain
    PROVE  Told'
<1>1. /\ pc' = pc /\ cmd' = cmd /\ res' = res /\ res2' = res2 /\ verdict' = verdict
      /\ accepted' = accepted /\ modem' = modem /\ pmsg' = pmsg /\ sendres' = sendres
      /\ modem = 0 /\ tx # <<>> /\ tx' = Tail(tx) /\ Head(tx).kind = "plain"
    BY DEF ModemPlain, execSide
<1>2. /\ cmd.n \in Nat /\ refused \in Nat /\ reports \in Nat /\ cmd.n \in Number
      /\ Head(tx).n \in Nat
  <2>1. Head(tx) \in Item
      BY <1>1 DEF Ground, Wires
  <2> QED BY <2>1 DEF Ground, Wires, Item, Counts, Accounts
<1>3. \/ Joined("atc_ok")
      \/ Joined("atc_error") /\ ~Spent /\ Spent'
  <2>1. /\ Say(<<Blank, Answer("atc_ok", Head(tx).n)>>) => Joined("atc_ok")
        /\ Say(<<Blank, Answer("atc_error", Head(tx).n)>>) => Joined("atc_error")
      BY <1>1, <1>2, Adds DEF ResultType, Ground
  <2> QED BY <2>1 DEF ModemPlain, Refuses
<1>4. Line' = Line /\ Load' = Load /\ (Counted => Counted')
    BY <1>1 DEF Line, Load, Counted
<1>5. /\ Head(<<Line>>) = Line /\ Tail(<<Line>>) = <<>>
      /\ Head(<<Load>>) = Load
      /\ Head(<<Line, Load>>) = Line
      /\ \A k : /\ Head(<<Plain(k)>>) = Plain(k) /\ Tail(<<Plain(k)>>) = <<>>
                /\ Head(<<Plain(k), Line>>) = Plain(k) /\ Tail(<<Plain(k), Line>>) = <<Line>>
                /\ Head(<<Data(k), Line>>) = Data(k) /\ Head(<<Data(k)>>) = Data(k)
    BY Queues
<1>6. \/ pc = "result" /\ None /\ tx = <<Line>> /\ Counted /\ cmd.chunks = 0
      \/ Spent /\ Between /\ None /\ \E k \in Number : tx = <<Plain(k)>>
      \/ Spent /\ pc = "result" /\ None /\ \E k \in Number : tx = <<Plain(k), Line>>
      \/ Spent /\ pc = "result" /\ tx = <<Line>> /\ cmd.chunks = 0 /\ \E t \in ResultType : One(t)
  <2>1. CASE InStep
      BY <2>1, <1>1, <1>5, Names DEF InStep, Holds
  <2>2. CASE Spent /\ Astray
      BY <2>2, <1>1, <1>5, Names DEF Astray, Holds
  <2>3. CASE Spent /\ Behind
      BY <2>3, <1>1, <1>5, Names DEF Behind, Holds, OwedSaid, OwedPlain, OwedData, Told, Sending
  <2> QED BY <2>1, <2>2, <2>3 DEF Told, Where
<1>7. Where'
  <2>1. CASE pc = "result" /\ None /\ tx = <<Line>> /\ Counted /\ cmd.chunks = 0
    <3>1. Holds(<<>>, 0)' /\ Counted'
        BY <2>1, <1>1, <1>4, <1>5 DEF Holds
    <3>2. One("atc_ok")' \/ (One("atc_error")' /\ Spent')
        BY <2>1, <1>3 DEF Joined
    <3> QED BY <2>1, <3>1, <3>2, <1>1 DEF Where, InStep
  <2>2. CASE Spent /\ Between /\ None /\ \E k \in Number : tx = <<Plain(k)>>
    <3>1. One("atc_ok")' /\ Spent'
        BY <2>2, <1>3 DEF Joined
    <3>2. OwedSaid'
        BY <3>1, <2>2, <1>1, <1>5 DEF OwedSaid, Holds, ResultType
    <3> QED BY <3>1, <3>2, <2>2, <1>1 DEF Where, Behind, Between
  <2>3. CASE Spent /\ pc = "result" /\ None /\ \E k \in Number : tx = <<Plain(k), Line>>
    <3>1. One("atc_ok")' /\ Spent'
        BY <2>3, <1>3 DEF Joined
    <3>2. Holds(<<Line>>, 0)'
        BY <2>3, <1>1, <1>4, <1>5 DEF Holds
    <3> QED BY <3>1, <3>2, <2>3, <1>1 DEF Where, Behind, ResultType
  <2>4. CASE Spent /\ pc = "result" /\ tx = <<Line>> /\ cmd.chunks = 0 /\ \E t \in ResultType : One(t)
    <3>1. (\E t \in ResultType : Two(t, "atc_ok")') /\ Spent'
        BY <2>4, <1>3 DEF Joined
    <3>2. tx' = <<>> /\ modem' = 0
        BY <2>4, <1>1, <1>5
    <3> QED BY <3>1, <3>2, <2>4, <1>1 DEF Where, Behind
  <2> QED BY <1>6, <2>1, <2>2, <2>3, <2>4
<1> QED BY <1>1, <1>7, QuietTold DEF Told

LEMMA ModemCipsendSkew ==
    ASSUME Ground, Told, Spent => Spent' /\ refused' = refused,
           refused' = refused + 1 => ~Spent /\ Spent', ModemCipsend
    PROVE  Told'
<1>1. /\ pc' = pc /\ cmd' = cmd /\ res' = res /\ res2' = res2 /\ verdict' = verdict
      /\ accepted' = accepted /\ pmsg' = pmsg /\ sendres' = sendres
      /\ modem = 0 /\ tx # <<>> /\ tx' = Tail(tx) /\ Head(tx).kind = "cipsend"
    BY DEF ModemCipsend, execSide
<1>2. refused \in Nat /\ reports \in Nat /\ Head(tx).n \in Nat
  <2>1. Head(tx) \in Item
      BY <1>1 DEF Ground, Wires
  <2> QED BY <2>1 DEF Ground, Item, Counts
<1>3. \/ Joined("atc_ok") /\ PromptComes' /\ modem' = Head(tx).n
      \/ Joined("atc_error") /\ modem' = modem /\ ~Spent /\ Spent'
  <2>1. /\ Say(<<Blank, Answer("atc_ok", Head(tx).n), Prompt(Head(tx).n)>>)
               => Joined("atc_ok") /\ PromptComes'
        /\ Say(<<Blank, Answer("atc_error", Head(tx).n)>>) => Joined("atc_error")
      BY <1>1, <1>2, Adds DEF ResultType, Ground
  <2> QED BY <2>1 DEF ModemCipsend, Refuses
<1>4. Line' = Line /\ Load' = Load /\ (Counted => Counted')
    BY <1>1 DEF Line, Load, Counted
<1>5. /\ Head(<<Line>>) = Line /\ Tail(<<Line>>) = <<>>
      /\ Head(<<Load>>) = Load
      /\ Head(<<Line, Load>>) = Line /\ Tail(<<Line, Load>>) = <<Load>>
      /\ \A k : /\ Head(<<Plain(k)>>) = Plain(k) /\ Head(<<Plain(k), Line>>) = Plain(k)
                /\ Head(<<Data(k), Line>>) = Data(k) /\ Head(<<Data(k)>>) = Data(k)
    BY Queues
<1>6. \/ pc = "result" /\ None /\ tx = <<Line>> /\ Counted
      \/ Spent /\ pc = "result" /\ tx = <<Line>> /\ \E t \in ResultType : One(t)
      \/ Spent /\ pc = "wonna" /\ None /\ tx = <<Line>>
      \/ Spent /\ pc = "payload" /\ None /\ tx = <<Line>> /\ res2 # "atc_unknown"
      \/ Spent /\ pc = "result2" /\ None /\ tx = <<Line, Load>>
  <2>1. CASE InStep
      BY <2>1, <1>1, <1>5, Names DEF InStep, Holds
  <2>2. CASE Spent /\ Astray
      BY <2>2, <1>1, <1>5, Names DEF Astray, Holds
  <2>3. CASE Spent /\ Behind
      BY <2>3, <1>1, <1>5, Names DEF Behind, Holds, OwedSaid, OwedPlain, OwedData
  <2> QED BY <2>1, <2>2, <2>3 DEF Told, Where
<1>7. /\ Head(tx) = Line /\ Line.n = cmd.n /\ cmd.chunks # 0
      /\ tx = <<Line>> => tx' = <<>>
      /\ tx = <<Line, Load>> => tx' = <<Load>>
  <2>1. Head(tx) = Line
      BY <1>5, <1>6
  <2> QED BY <2>1, <1>1, <1>5, Names
<1>8. Where'
  <2>1. CASE pc = "result" /\ None /\ tx = <<Line>> /\ Counted
    <3>1. \/ One("atc_ok")' /\ Holds(<<>>, cmd.n)'
          \/ One("atc_error")' /\ Holds(<<>>, 0)' /\ Spent'
        BY <2>1, <1>1, <1>3, <1>7 DEF Joined, Holds
    <3>2. Counted' /\ pc' = "result" /\ cmd.chunks' # 0
        BY <2>1, <1>1, <1>4, <1>7
    <3> QED BY <3>1, <3>2 DEF Where, InStep, Holds
  <2>2. CASE Spent /\ pc = "result" /\ tx = <<Line>> /\ \E t \in ResultType : One(t)
    <3>1. (\E t \in ResultType : Two(t, "atc_ok")') /\ Spent' /\ PromptComes' /\ modem' = cmd'.n
        BY <2>2, <1>1, <1>3, <1>7 DEF Joined
    <3> QED BY <3>1, <2>2, <1>1, <1>7 DEF Where, Behind
  <2>3. CASE /\ Spent /\ None /\ tx = <<Line>>
             /\ pc = "wonna" \/ (pc = "payload" /\ res2 # "atc_unknown")
    <3>1. One("atc_ok")' /\ Spent' /\ PromptComes' /\ Holds(<<>>, cmd.n)'
        BY <2>3, <1>1, <1>3, <1>7 DEF Joined, Holds
    <3> QED BY <3>1, <2>3, <1>1 DEF Where, Behind
  <2>4. CASE Spent /\ pc = "result2" /\ None /\ tx = <<Line, Load>>
    <3>1. One("atc_ok")' /\ Spent' /\ Holds(<<Load>>, cmd.n)'
        BY <2>4, <1>1, <1>3, <1>4, <1>7 DEF Joined, Holds
    <3> QED BY <3>1, <2>4, <1>1 DEF Where, Behind
  <2> QED BY <1>6, <2>1, <2>2, <2>3, <2>4
<1> QED BY <1>1, <1>8, QuietTold DEF Told

LEMMA MisreadSkew ==
    ASSUME Ground, Told, Spent => Spent', ModemMisreads PROVE Told'
<1>1. /\ pc' = pc /\ cmd' = cmd /\ res' = res /\ res2' = res2 /\ verdict' = verdict
      /\ accepted' = accepted /\ modem' = modem /\ pmsg' = pmsg /\ sendres' = sendres
      /\ modem = 0 /\ tx # <<>> /\ tx' = Tail(tx) /\ Head(tx).kind = "payload"
    BY DEF ModemMisreads, execSide
<1>2. /\ Head(<<Line>>) = Line /\ Head(<<Load>>) = Load /\ Tail(<<Load>>) = <<>>
      /\ Head(<<Line, Load>>) = Line
      /\ \A k : /\ Head(<<Plain(k)>>) = Plain(k) /\ Head(<<Plain(k), Line>>) = Plain(k)
                /\ Head(<<Data(k), Line>>) = Data(k) /\ Head(<<Data(k)>>) = Data(k)
    BY Queues
<1>3. Line.kind # "payload"
    BY Names
<1>4. Spent /\ pc = "result2" /\ None /\ tx = <<Load>> /\ res # "atc_ok"
  <2>1. CASE InStep
      BY <2>1, <1>1, <1>2, <1>3, Names DEF InStep, Holds, Ground, Record
  <2>2. CASE Spent /\ Astray
      BY <2>2, <1>1, <1>2, <1>3, Names DEF Astray, Holds
  <2>3. CASE Spent /\ Behind
      BY <2>3, <1>1, <1>2, <1>3, Names
         DEF Behind, Holds, OwedSaid, OwedPlain, OwedData, Ground, Record
  <2> QED BY <2>1, <2>2, <2>3 DEF Told, Where
<1>5. PICK k \in 0..2 : Say([i \in 1..k |-> Answer("atc_error", 0)])
    BY DEF ModemMisreads
<1>6. None' \/ One("atc_error")' \/ Two("atc_error", "atc_error")'
  <2> DEFINE ms == [i \in 1..k |-> Answer("atc_error", 0)]
  <2>1. ms \in Seq(Heard) /\ Len(ms) = k /\ \A i \in 1..k : ms[i] = Answer("atc_error", 0)
      BY DEF Answer, Heard, ResultType
  <2>2. Say(ms) /\ IsResult(Answer("atc_error", 0)) /\ Answer("atc_error", 0).type = "atc_error"
      BY <1>5 DEF IsResult, Answer, ResultType
  <2> HIDE DEF ms
  <2>3. CASE k = 0
    <3>0. \A i \in 1..Len(ms) : ~IsResult(ms[i])
        BY <2>1, <2>3
    <3>1. Kept
        BY <3>0, <2>1, <2>2, <1>1, SaysNothing DEF Ground
    <3> QED BY <3>1, <1>4 DEF Kept
  <2>4. CASE k = 1
    <3>1. /\ 1 \in 1..Len(ms) /\ IsResult(ms[1]) /\ ms[1].type = "atc_error"
          /\ \A i \in 1..Len(ms) : IsResult(ms[i]) => i = 1
        BY <2>1, <2>2, <2>4
    <3>2. Joined(ms[1].type)
        BY <3>1, <2>1, <2>2, <1>1, SaysOne DEF Ground
    <3> QED BY <3>1, <3>2, <1>4 DEF Joined
  <2>5. CASE k = 2
    <3>1. /\ Len(rx) \in Nat /\ Places = 0..(Len(rx) + 1) /\ Places' = 0..(Len(rx) + 3)
          /\ \A p \in Places : At(p)' = At(p)
          /\ \A i \in 1..2, d \in Nat : d = Len(rx) + 1 + i => At(d)' = Answer("atc_error", 0)
      <4>1. /\ Len(rx) \in Nat /\ Len(ms) \in Nat
            /\ Places = 0..(Len(rx) + 1) /\ Places' = 0..(Len(rx) + Len(ms) + 1)
            /\ \A p \in Places : At(p)' = At(p)
            /\ \A i \in 1..Len(ms), d \in Nat : d = Len(rx) + 1 + i => At(d)' = ms[i]
          BY <2>1, <2>2, <1>1, SaysWhere DEF Ground
      <4> QED BY <4>1, <2>1, <2>5
    <3>2. PICK p, q \in Nat : p = Len(rx) + 2 /\ q = Len(rx) + 3
        BY <3>1
    <3>3. At(p)' = Answer("atc_error", 0) /\ At(q)' = Answer("atc_error", 0)
      <4>1. 1 \in 1..2 /\ p = Len(rx) + 1 + 1 /\ 2 \in 1..2 /\ q = Len(rx) + 1 + 2
          BY <3>1, <3>2
      <4> QED BY <4>1, <3>1
    <3>4. p < q /\ p \in Places' /\ q \in Places' /\ Result(p)' /\ Result(q)'
        BY <3>1, <3>2, <3>3, <2>2 DEF Result
    <3>5. \A r \in Places' : Result(r)' => r \in {p, q}
      <4> SUFFICES ASSUME NEW r \in Places', Result(r)', r \notin {p, q} PROVE FALSE
          OBVIOUS
      <4>1. r \in Places
          BY <3>1, <3>2
      <4>2. Result(r)
          BY <4>1, <3>1 DEF Result
      <4> QED BY <4>1, <4>2, <1>4 DEF None
    <3> QED BY <3>3, <3>4, <3>5, <2>2 DEF Two
  <2> QED BY <2>3, <2>4, <2>5
<1>7. Holds(<<>>, 0)'
    BY <1>1, <1>2, <1>4 DEF Holds
<1>8. Where'
    BY <1>1, <1>4, <1>6, <1>7 DEF Where, Astray
<1> QED BY <1>1, <1>8, QuietTold DEF Told

LEMMA PayloadSkew ==
    ASSUME Ground, Told, Spent => Spent' /\ refused' = refused,
           refused' = refused + 1 => ~Spent /\ Spent', ModemTakesPayload
    PROVE  Told'
<1>1. /\ pc' = pc /\ cmd' = cmd /\ res' = res /\ res2' = res2 /\ verdict' = verdict
      /\ pmsg' = pmsg /\ sendres' = sendres
      /\ modem # 0 /\ modem' = 0 /\ tx # <<>> /\ tx' = Tail(tx)
    BY DEF ModemTakesPayload, execSide
<1>2. /\ modem \in Nat /\ refused \in Nat /\ reports \in Nat
      /\ cmd.n \in Number /\ cmd.n \in Nat /\ cmd.done \in Nat
      /\ accepted \in [Number -> Nat]
    BY DEF Ground, Wires, Counts, Accounts
<1>3. PICK ok \in BOOLEAN :
          /\ IF ok THEN UNCHANGED refused ELSE Refuses
          /\ Say(<<Blank, Answer(IF ok THEN "atc_send_ok" ELSE "atc_send_fail", modem)>>)
          /\ accepted' = IF ok /\ Head(tx) = [kind |-> "payload", n |-> modem]
                         THEN [accepted EXCEPT ![modem] = @ + 1] ELSE accepted
    BY DEF ModemTakesPayload
<1>4. /\ ok => Joined("atc_send_ok")
      /\ ~ok => Joined("atc_send_fail") /\ ~Spent /\ Spent'
  <2>1. /\ Say(<<Blank, Answer("atc_send_ok", modem)>>) => Joined("atc_send_ok")
        /\ Say(<<Blank, Answer("atc_send_fail", modem)>>) => Joined("atc_send_fail")
      BY <1>1, <1>2, Adds DEF ResultType, Ground
  <2> QED BY <2>1, <1>3 DEF Refuses
<1>5. /\ \A n \in Number : n # modem => accepted'[n] = accepted[n]
      /\ Head(tx).kind # "payload" => accepted' = accepted
      /\ ok /\ modem = cmd.n /\ Head(tx) = Load => accepted'[cmd.n] = accepted[cmd.n] + 1
  <2>1. /\ Load = [kind |-> "payload", n |-> cmd.n]
        /\ Head(tx) = [kind |-> "payload", n |-> modem] => Head(tx).kind = "payload"
      BY DEF Load
  <2> QED BY <2>1, <1>2, <1>3
<1>6. Line' = Line /\ Load' = Load
    BY <1>1 DEF Line, Load
<1>7. /\ Head(<<Line>>) = Line /\ Tail(<<Line>>) = <<>>
      /\ Head(<<Load>>) = Load /\ Tail(<<Load>>) = <<>>
      /\ \A k : /\ Head(<<Data(k)>>) = Data(k) /\ Tail(<<Data(k)>>) = <<>>
                /\ Head(<<Data(k), Line>>) = Data(k) /\ Tail(<<Data(k), Line>>) = <<Line>>
    BY Queues
<1>8. \/ pc = "result2" /\ None /\ tx = <<Load>> /\ modem = cmd.n /\ Counted
      \/ Spent /\ pc = "result" /\ None /\ tx = <<Line>>
      \/ Spent /\ pc = "report" /\ OwedData(cmd.n) /\ cmd.chunks # 0 /\ ~Success
      \/ Spent /\ pc = "idle" /\ OwedData(cmd.n) /\ cmd.chunks # 0 /\ verdict # "ok"
      \/ Spent /\ pc \in {"ready", "write"} /\ modem < cmd.n /\ OwedData(modem)
      \/ Spent /\ pc = "result" /\ None /\ modem < cmd.n /\ tx = <<Data(modem), Line>>
      \/ Spent /\ pc = "result2" /\ One("atc_ok") /\ tx = <<Load>> /\ modem = cmd.n
  <2>1. CASE InStep
      BY <2>1, <1>1 DEF InStep, Holds
  <2>2. CASE Spent /\ Astray
      BY <2>2, <1>1 DEF Astray, Holds
  <2>3. CASE Spent /\ Behind
      BY <2>3, <1>1 DEF Behind, Holds, OwedSaid, OwedPlain, OwedData
  <2> QED BY <2>1, <2>2, <2>3 DEF Told, Where
<1>9. Where'
  <2>1. CASE pc = "result2" /\ None /\ tx = <<Load>> /\ modem = cmd.n /\ Counted
    <3>1. Holds(<<>>, 0)'
        BY <2>1, <1>1, <1>7 DEF Holds
    <3>2. CASE ok
      <4>1. One("atc_send_ok")' /\ accepted'[cmd'.n] = cmd'.done + 1
          BY <2>1, <3>2, <1>1, <1>4, <1>5, <1>7 DEF Joined, Counted
      <4> QED BY <3>1, <4>1, <2>1, <1>1 DEF Where, InStep
    <3>3. CASE ~ok
      <4>1. One("atc_send_fail")' /\ Spent'
          BY <2>1, <3>3, <1>4 DEF Joined
      <4> QED BY <3>1, <4>1, <2>1, <1>1 DEF Where, InStep
    <3> QED BY <3>2, <3>3
  <2>2. CASE Spent
    <3>1. Joined("atc_send_ok") /\ Spent'
        BY <2>2, <1>4
    <3>2. CASE pc = "result" /\ None /\ tx = <<Line>>
      <4>1. One("atc_send_ok")' /\ Holds(<<>>, 0)'
          BY <3>1, <3>2, <1>1, <1>7 DEF Joined, Holds
      <4> QED BY <3>1, <3>2, <4>1, <1>1 DEF Where, Astray
    <3>3. CASE Between /\ \E m : OwedData(m)
      <4>1. OwedSaid'
          BY <3>1, <3>3, <1>1, <1>7 DEF Joined, Holds, OwedData, OwedSaid, ResultType
      <4> QED BY <3>1, <3>3, <4>1, <1>1 DEF Where, Behind, Between
    <3>4. CASE pc = "result" /\ None /\ tx = <<Data(modem), Line>>
      <4>1. One("atc_send_ok")' /\ Holds(<<Line>>, 0)'
          BY <3>1, <3>4, <1>1, <1>6, <1>7 DEF Joined, Holds
      <4> QED BY <3>1, <3>4, <4>1, <1>1 DEF Where, Behind, ResultType
    <3>5. CASE pc = "result2" /\ One("atc_ok") /\ tx = <<Load>>
      <4>1. Two("atc_ok", "atc_send_ok")' /\ Holds(<<>>, 0)'
          BY <3>1, <3>5, <1>1, <1>7 DEF Joined, Holds, ResultType
      <4> QED BY <3>1, <3>5, <4>1, <1>1 DEF Where, Behind
    <3>6. CASE pc = "result2" /\ None /\ tx = <<Load>> /\ modem = cmd.n /\ Counted
        BY <2>1, <3>6
    <3> QED BY <1>8, <3>2, <3>3, <3>4, <3>5, <3>6 DEF Between
  <2> QED BY <1>8, <2>1, <2>2
<1>10. \/ accepted' = accepted
       \/ modem < cmd.n
       \/ /\ modem = cmd.n /\ cmd.chunks # 0
          /\ pc = "report" => ~Success
          /\ pc = "idle" => verdict # "ok"
  <2>1. CASE tx = <<Line>>
      BY <2>1, <1>5, <1>7, Names
  <2>2. CASE pc \in {"report", "idle"} /\ OwedData(cmd.n)
      BY <2>2, <1>8, Queues DEF OwedData
  <2>3. CASE pc = "result2" /\ modem = cmd.n
      BY <2>3 DEF Told, Sending
  <2> QED BY <1>8, <2>1, <2>2, <2>3
<1>11. Books'
  <2>1. CASE accepted' = accepted
      BY <2>1, <1>1 DEF Told, Books, Success
  <2>2. CASE modem < cmd.n
    <3>1. accepted'[cmd.n] = accepted[cmd.n] /\ \A n \in Number : n > cmd.n => accepted'[n] = accepted[n]
        BY <2>2, <1>2, <1>5 DEF Number
    <3> QED BY <3>1, <1>1 DEF Told, Books, Success
  <2>3. CASE /\ modem = cmd.n /\ cmd.chunks # 0
             /\ pc = "report" => ~Success
             /\ pc = "idle" => verdict # "ok"
    <3>1. \A n \in Number : n > cmd.n => accepted'[n] = accepted[n]
        BY <2>3, <1>2, <1>5 DEF Number
    <3> QED BY <3>1, <2>3, <1>1 DEF Told, Books, Success
  <2> QED BY <1>10, <2>1, <2>2, <2>3
<1> QED BY <1>1, <1>9, <1>11 DEF Told, Sending, Early

(* What the executor does.                                                  *)
LEMMA StartSkew ==
    ASSUME Ground, Told, Spent => Spent', NEW c \in 0..MaxChunk, Start(c) PROVE Told'
<1>1. /\ pc = "idle" /\ pc' = "ready" /\ cmd.n < MaxCmd /\ res2' = "atc_send_ok"
      /\ cmd' = [n |-> cmd.n + 1, chunks |-> c, done |-> 0] /\ accepted' = accepted
      /\ tx' = tx /\ modem' = modem /\ rx' = rx /\ pmsg' = pmsg /\ sendres' = sendres
    BY DEF Start, parserSide, modemSide
<1>2. /\ cmd.n \in Number /\ cmd.n + 1 \in Number /\ cmd.n < cmd.n + 1 /\ cmd.n + 1 > cmd.n
      /\ c \in Nat /\ cmd'.n = cmd.n + 1 /\ cmd'.chunks = c /\ cmd'.done = 0
      /\ \A n \in Number : n > cmd.n + 1 => n > cmd.n
    BY <1>1, LinkAssumption DEF Ground, Accounts, Number
<1>3. Books' /\ Counted'
  <2>1. accepted[cmd.n + 1] = 0 /\ \A n \in Number : n > cmd.n + 1 => accepted[n] = 0
      BY <1>2 DEF Told, Books
  <2> QED BY <2>1, <1>1, <1>2 DEF Books, Counted
<1>4. Kept
    BY <1>1, Stays
<1>5. Where'
  <2>1. CASE InStep
    <3>1. None' /\ Holds(<<>>, 0)'
        BY <2>1, <1>1, <1>4 DEF InStep, Kept, Holds
    <3> QED BY <3>1, <1>1, <1>3 DEF Where, InStep
  <2>2. CASE Spent /\ Astray
    <3>1. None' /\ tx' = <<>> /\ modem' # 0 /\ modem' \in Number
        BY <2>2, <1>1, <1>4 DEF Astray, Kept
    <3> QED BY <3>1, <2>2, <1>1 DEF Where, Astray, Between
  <2>3. CASE Spent /\ (OwedSaid \/ OwedPlain)
    <3>1. OwedSaid' \/ OwedPlain'
        BY <2>3, <1>1, <1>4 DEF OwedSaid, OwedPlain, Kept, Holds
    <3> QED BY <3>1, <2>3, <1>1 DEF Where, Behind, Between
  <2>4. CASE Spent /\ OwedData(cmd.n)
    <3>1. cmd.n \in Number /\ cmd.n < cmd'.n /\ OwedData(cmd.n)
        BY <2>4, <1>2
    <3>2. PICK m \in Number : m = cmd.n
        BY <3>1
    <3>3. OwedData(m)'
        BY <3>1, <3>2, <1>1, <1>4 DEF OwedData, Kept
    <3> QED BY <3>1, <3>2, <3>3, <2>4, <1>1 DEF Where, Behind
  <2> QED BY <2>1, <2>2, <2>3, <2>4, <1>1 DEF Told, Where, Behind
<1> QED BY <1>1, <1>3, <1>5 DEF Told, Sending, Early

LEMMA ReadySkew ==
    ASSUME Ground, Told, Spent => Spent', CmdReady PROVE Told'
<1>1. /\ pc = "ready" /\ pc' = "write" /\ cmd' = cmd /\ res2' = res2 /\ accepted' = accepted
      /\ tx' = tx /\ modem' = modem /\ rx' = rx /\ pmsg' = pmsg /\ sendres' = sendres
    BY DEF CmdReady, modemSide
<1>2. Kept
    BY <1>1, Stays
<1>3. Where'
  <2>1. CASE InStep
    <3>1. None' /\ Holds(<<>>, 0)' /\ Counted'
        BY <2>1, <1>1, <1>2 DEF InStep, Kept, Holds, Counted
    <3> QED BY <3>1, <1>1 DEF Where, InStep
  <2>2. CASE Spent /\ Astray
    <3>1. None' /\ tx' = <<>> /\ modem' # 0 /\ modem' \in Number
        BY <2>2, <1>1, <1>2 DEF Astray, Kept
    <3> QED BY <3>1, <2>2, <1>1 DEF Where, Astray, Between
  <2>3. CASE Spent /\ (OwedSaid \/ OwedPlain)
    <3>1. OwedSaid' \/ OwedPlain'
        BY <2>3, <1>1, <1>2 DEF OwedSaid, OwedPlain, Kept, Holds
    <3> QED BY <3>1, <2>3, <1>1 DEF Where, Behind, Between
  <2>4. CASE Spent /\ \E m \in Number : m < cmd.n /\ OwedData(m)
    <3>1. \E m \in Number : m < cmd'.n /\ OwedData(m)'
        BY <2>4, <1>1, <1>2 DEF OwedData, Kept
    <3> QED BY <3>1, <2>4, <1>1 DEF Where, Behind
  <2> QED BY <2>1, <2>2, <2>3, <2>4, <1>1 DEF Told, Where, Behind
<1>4. Sending' /\ Early' /\ Books'
    BY <1>1 DEF Told, Sending, Early, Books
<1> QED BY <1>3, <1>4 DEF Told

LEMMA WriteSkew ==
    ASSUME Ground, Told, Spent => Spent', WriteCommand PROVE Told'
<1>1. /\ pc = "write" /\ pc' = "result" /\ cmd' = cmd /\ res2' = res2 /\ accepted' = accepted
      /\ tx' = Append(tx, Line) /\ modem' = modem
      /\ rx' = rx /\ pmsg' = pmsg /\ sendres' = sendres
    BY DEF WriteCommand, parserSide, Write, Line
<1>2. Kept
    BY <1>1, Stays
<1>3. /\ Line' = Line /\ Append(<<>>, Line) = <<Line>>
      /\ \A k : /\ Append(<<Plain(k)>>, Line) = <<Plain(k), Line>>
                /\ Append(<<Data(k)>>, Line) = <<Data(k), Line>>
  <2>1. Line' = Line
      BY <1>1 DEF Line
  <2>2. \A x, y : Append(<<>>, x) = <<x>> /\ Append(<<x>>, y) = <<x, y>>
      BY Queues, Zenon
  <2> QED BY <2>1, <2>2, ZenonT(30)
<1>4. Where'
  <2>1. CASE InStep
    <3>1. None' /\ Holds(<<Line>>, 0)' /\ Counted'
        BY <2>1, <1>1, <1>2, <1>3 DEF InStep, Kept, Holds, Counted
    <3> QED BY <3>1, <1>1 DEF Where, InStep
  <2>2. CASE Spent /\ Astray
    <3>1. None' /\ tx' = <<Line>>' /\ modem' # 0 /\ modem' \in Number
        BY <2>2, <1>1, <1>2, <1>3 DEF Astray, Kept
    <3> QED BY <3>1, <2>2, <1>1 DEF Where, Astray
  <2>3. CASE Spent /\ OwedSaid
    <3>1. (\E t \in ResultType : One(t)') /\ Holds(<<Line>>, 0)'
        BY <2>3, <1>1, <1>2, <1>3 DEF OwedSaid, Kept, Holds
    <3> QED BY <3>1, <2>3, <1>1 DEF Where, Behind
  <2>4. CASE Spent /\ OwedPlain
    <3>1. None' /\ modem' = 0 /\ \E k \in Number : tx' = <<Plain(k), Line>>'
        BY <2>4, <1>1, <1>2, <1>3 DEF OwedPlain, Kept
    <3> QED BY <3>1, <2>4, <1>1 DEF Where, Behind
  <2>5. CASE Spent /\ \E m \in Number : m < cmd.n /\ OwedData(m)
    <3>1. None' /\ \E m \in Number : m < cmd'.n /\ m # 0 /\ Holds(<<Data(m), Line>>, m)'
        BY <2>5, <1>1, <1>2, <1>3 DEF OwedData, Kept, Holds
    <3> QED BY <3>1, <2>5, <1>1 DEF Where, Behind
  <2> QED BY <2>1, <2>2, <2>3, <2>4, <2>5, <1>1 DEF Told, Where, Behind
<1>5. Sending' /\ Early' /\ Books'
    BY <1>1 DEF Told, Sending, Early, Books
<1> QED BY <1>4, <1>5 DEF Told

(* The wait for the first answer: it takes the one there is, and ends       *)
(* without one only when none can come.                                     *)
LEMMA AnswerTaken ==
    ASSUME Ground, late' = 0, NEW want, NEW r, TakeAnswer(want, r) \/ AnswerTimeout(r),
           rx' = rx, pmsg' = pmsg
    PROVE  /\ None => None' /\ tx = <<>> /\ r = "atc_unknown"
           /\ \A t : One(t) => r = t /\ None'
           /\ \A t, u : Two(t, u) => r = t /\ One(u)'
<1>1. CASE TakeAnswer(want, r)
    BY <1>1, TakesFirst DEF Ground
<1>2. CASE AnswerTimeout(r)
    BY <1>2, GivesUp, SomeHere DEF Ground
<1> QED BY <1>1, <1>2

LEMMA ResultSkew ==
    ASSUME Ground, Told, Spent => Spent', late' = 0, GetResult PROVE Told'
<1>1. /\ pc = "result" /\ cmd' = cmd /\ res2' = res2 /\ accepted' = accepted
      /\ tx' = tx /\ modem' = modem /\ rx' = rx /\ pmsg' = pmsg /\ peri' = peri
    BY DEF GetResult, parserSide, modemSide
<1>2. PICK r \in ResultType \cup {"atc_unknown"} :
          /\ TakeAnswer({"atc_ok", "atc_error"}, r) \/ AnswerTimeout(r)
          /\ res' = r
          /\ pc' = IF cmd.chunks = 0 THEN "report" ELSE IF r = "atc_ok" THEN "wonna" ELSE "payload"
    BY DEF GetResult
<1>3. /\ None => None' /\ tx = <<>> /\ r = "atc_unknown"
      /\ \A t : One(t) => r = t /\ None'
      /\ \A t, u : Two(t, u) => r = t /\ One(u)'
    BY <1>1, <1>2, AnswerTaken
<1>4. /\ Line' = Line /\ res2 = "atc_send_ok" /\ (PromptComes => PromptComes')
      /\ \A k : <<Plain(k), Line>> # <<>> /\ <<Data(k), Line>> # <<>>
      /\ <<Line>> # <<>> /\ cmd.n \in Number
    BY <1>1, Queues DEF Line, Told, Early, PromptComes, Ground, Accounts
<1>5. \/ One("atc_ok") /\ Holds(<<>>, IF cmd.chunks = 0 THEN 0 ELSE cmd.n) /\ Counted
      \/ Spent /\ Holds(<<>>, 0) /\ \E t \in {"atc_error", "atc_send_ok"} : One(t)
      \/ Spent /\ Holds(<<Line>>, 0) /\ \E t \in ResultType : One(t)
      \/ /\ Spent /\ tx = <<>> /\ \E t \in ResultType : Two(t, "atc_ok")
         /\ IF cmd.chunks = 0 THEN modem = 0 ELSE modem = cmd.n /\ PromptComes
  <2>1. CASE InStep
      BY <2>1, <1>1, <1>3, <1>4 DEF InStep, Holds
  <2>2. CASE Spent /\ Astray
      BY <2>2, <1>1, <1>3, <1>4 DEF Astray, Between
  <2>3. CASE Spent /\ Behind
      BY <2>3, <1>1, <1>3, <1>4 DEF Behind, Between, Holds
  <2> QED BY <2>1, <2>2, <2>3 DEF Told, Where
<1>6. Where'
  <2>1. CASE One("atc_ok") /\ Holds(<<>>, IF cmd.chunks = 0 THEN 0 ELSE cmd.n) /\ Counted
    <3>1. r = "atc_ok" /\ None' /\ Counted'
        BY <2>1, <1>1, <1>3 DEF Counted
    <3>2. CASE cmd.chunks = 0
        BY <2>1, <3>1, <3>2, <1>1, <1>2 DEF Where, InStep, Holds
    <3>3. CASE cmd.chunks # 0
        BY <2>1, <3>1, <3>3, <1>1, <1>2 DEF Where, InStep, Holds
    <3> QED BY <3>2, <3>3
  <2>2. CASE Spent /\ Holds(<<>>, 0) /\ \E t \in {"atc_error", "atc_send_ok"} : One(t)
    <3>1. r # "atc_ok" /\ None' /\ res' # "atc_ok" /\ res2' # "atc_unknown" /\ Holds(<<>>, 0)'
        BY <2>2, <1>1, <1>2, <1>3, <1>4 DEF Holds
    <3>2. CASE cmd.chunks = 0
        BY <3>1, <3>2, <1>2 DEF Where, InStep
    <3>3. CASE cmd.chunks # 0
        BY <2>2, <3>1, <3>3, <1>2 DEF Where, Astray
    <3> QED BY <3>2, <3>3
  <2>3. CASE Spent /\ Holds(<<Line>>, 0) /\ \E t \in ResultType : One(t)
    <3>1. None' /\ Holds(<<Line>>, 0)' /\ Spent' /\ res2' # "atc_unknown"
        BY <2>3, <1>1, <1>3, <1>4 DEF Holds
    <3>2. CASE cmd.chunks = 0
      <4>1. OwedPlain'
        <5>1. tx' = <<Plain(cmd.n)>>
            BY <2>3, <3>2, <1>1, Names DEF Holds
        <5> QED BY <3>1, <5>1, <1>4 DEF OwedPlain, Holds
      <4> QED BY <3>1, <3>2, <4>1, <1>2 DEF Where, Behind, Between
    <3>3. CASE cmd.chunks # 0
        BY <3>1, <3>3, <1>2 DEF Where, Behind
    <3> QED BY <3>2, <3>3
  <2>4. CASE /\ Spent /\ tx = <<>> /\ \E t \in ResultType : Two(t, "atc_ok")
             /\ IF cmd.chunks = 0 THEN modem = 0 ELSE modem = cmd.n /\ PromptComes
    <3>1. One("atc_ok")' /\ Spent' /\ res2' # "atc_unknown"
        BY <2>4, <1>1, <1>3, <1>4
    <3>2. CASE cmd.chunks = 0
      <4>1. OwedSaid'
          BY <2>4, <3>1, <3>2, <1>1 DEF OwedSaid, Holds, ResultType
      <4> QED BY <3>1, <3>2, <4>1, <1>2 DEF Where, Behind, Between
    <3>3. CASE cmd.chunks # 0
        BY <2>4, <3>1, <3>3, <1>1, <1>2, <1>4 DEF Where, Behind, Holds
    <3> QED BY <3>2, <3>3
  <2> QED BY <1>5, <2>1, <2>2, <2>3, <2>4
<1>7. Sending' /\ Early'
    BY <1>1, <1>2 DEF Told, Sending, Early
<1>8. Books'
  <2>1. cmd.chunks \in Nat
      BY DEF Ground, Record
  <2> QED BY <2>1, <1>1, <1>2 DEF Told, Books
<1> QED BY <1>6, <1>7, <1>8 DEF Told

(* The prompt is seen: the wait for it ends early only with a late answer.  *)
LEMMA TransferSkew ==
    ASSUME Ground, Told, Spent => Spent', late' = 0, ~Spent => Step', TransferReady PROVE Told'
<1>1. /\ pc = "wonna" /\ pc' = "payload" /\ cmd' = cmd /\ res' = res /\ accepted' = accepted
      /\ tx' = tx /\ modem' = modem /\ rx' = rx /\ pmsg' = pmsg /\ sendres' = sendres
    BY DEF TransferReady, modemSide
<1>2. Kept
    BY <1>1, Stays
<1>3. Line' = Line /\ <<Line>> # <<>> /\ cmd.n # 0 /\ cmd.n \in Number
    BY <1>1, Queues DEF Line, Ground, Record, Accounts
<1>4. tx # <<>> \/ PromptComes => res2' = "atc_ok"
  <2> SUFFICES ASSUME tx # <<>> \/ PromptComes, peri # WONNA PROVE FALSE
      BY DEF TransferReady
  <2>1. ~Pending(LAMBDA m : m.type = "prompt")
      BY DEF TransferReady, Premature, Ground, Counts
  <2>2. tx = <<>> /\ \A k \in 1..Len(rx) : rx[k].type # "prompt"
      BY <2>1 DEF Pending
  <2>3. rx # <<>> /\ rx[Len(rx)].type = "prompt"
      BY <2>2 DEF PromptComes
  <2>4. Len(rx) \in 1..Len(rx)
    <3>1. Len(rx) \in Nat \ {0}
        BY <2>3, EmptySeq DEF Ground, Wires
    <3> QED BY <3>1
  <2> QED BY <2>2, <2>3, <2>4
<1>5. Where'
  <2>1. CASE InStep
    <3>1. None' /\ Holds(<<>>, cmd.n)' /\ Counted'
        BY <2>1, <1>1, <1>2 DEF InStep, Kept, Holds, Counted
    <3>2. CASE Spent
      <4>1. CASE res2' = "atc_unknown"
          BY <3>1, <3>2, <4>1, <1>1 DEF Where, Astray
      <4>2. CASE res2' # "atc_unknown"
          BY <3>1, <4>2, <1>1 DEF Where, InStep
      <4> QED BY <4>1, <4>2
    <3>3. CASE ~Spent
      <4>1. res2' = "atc_ok"
          BY <3>3, <1>1 DEF Step
      <4> QED BY <3>1, <4>1, <1>1 DEF Where, InStep
    <3> QED BY <3>2, <3>3
  <2>2. CASE Spent /\ None /\ Holds(<<Line>>, 0)
    <3>1. None' /\ Holds(<<Line>>, 0)' /\ res2' = "atc_ok"
        BY <2>2, <1>1, <1>2, <1>3, <1>4 DEF Kept, Holds
    <3> QED BY <3>1, <2>2, <1>1 DEF Where, Behind
  <2>3. CASE Spent /\ One("atc_ok") /\ Holds(<<>>, cmd.n) /\ PromptComes
    <3>1. One("atc_ok")' /\ Holds(<<>>, cmd.n)' /\ res2' = "atc_ok"
        BY <2>3, <1>1, <1>2, <1>4 DEF Kept, Holds, ResultType
    <3> QED BY <3>1, <2>3, <1>1 DEF Where, Behind
  <2> QED BY <2>1, <2>2, <2>3, <1>1 DEF Told, Where, Astray, Behind, Between
<1>6. Sending' /\ Early' /\ Books'
    BY <1>1 DEF Told, Sending, Early, Books
<1> QED BY <1>5, <1>6 DEF Told

LEMMA WritePayloadSkew ==
    ASSUME Ground, Told, Spent => Spent', WritePayload PROVE Told'
<1>1. /\ pc = "payload" /\ cmd' = cmd /\ res' = res /\ res2' = res2 /\ accepted' = accepted
      /\ modem' = modem /\ rx' = rx /\ pmsg' = pmsg /\ sendres' = sendres
      /\ res2 # "atc_unknown" => pc' = "result2" /\ tx' = Append(tx, Load)
      /\ res2 = "atc_unknown" => pc' = "report" /\ tx' = tx
    BY DEF WritePayload, parserSide, ShouldTransfer, AfterPayload, Write, Load
<1>2. Kept
    BY <1>1, Stays
<1>3. /\ Line' = Line /\ Load' = Load /\ cmd.n # 0 /\ cmd.n \in Number /\ cmd.chunks # 0
      /\ Append(<<>>, Load) = <<Load>> /\ Append(<<Line>>, Load) = <<Line, Load>>
    BY <1>1, Queues DEF Line, Load, Ground, Record, Accounts, Told, Sending
<1>4. Where'
  <2>1. CASE InStep
    <3>1. None' /\ Holds(<<Load>>, cmd.n)' /\ Counted' /\ pc' = "result2"
        BY <2>1, <1>1, <1>2, <1>3 DEF InStep, Kept, Holds, Counted
    <3> QED BY <3>1, <1>1 DEF Where, InStep
  <2>2. CASE Spent /\ None /\ Holds(<<>>, cmd.n) /\ res2 = "atc_unknown"
    <3>1. None' /\ tx' = <<>> /\ modem' # 0 /\ modem' \in Number /\ pc' = "report"
        BY <2>2, <1>1, <1>2, <1>3 DEF Kept, Holds
    <3> QED BY <3>1, <2>2 DEF Where, Astray, Between
  <2>3. CASE Spent /\ None /\ Holds(<<>>, 0) /\ res # "atc_ok" /\ res2 # "atc_unknown"
    <3>1. None' /\ Holds(<<Load>>, 0)' /\ res' # "atc_ok" /\ pc' = "result2"
        BY <2>3, <1>1, <1>2, <1>3 DEF Kept, Holds
    <3> QED BY <3>1, <2>3 DEF Where, Astray
  <2>4. CASE Spent /\ None /\ Holds(<<Line>>, 0) /\ res2 # "atc_unknown"
    <3>1. None' /\ Holds(<<Line, Load>>, 0)' /\ pc' = "result2"
        BY <2>4, <1>1, <1>2, <1>3 DEF Kept, Holds
    <3> QED BY <3>1, <2>4 DEF Where, Behind
  <2>5. CASE Spent /\ One("atc_ok") /\ Holds(<<>>, cmd.n) /\ res2 # "atc_unknown"
    <3>1. One("atc_ok")' /\ Holds(<<Load>>, cmd.n)' /\ pc' = "result2"
        BY <2>5, <1>1, <1>2, <1>3 DEF Kept, Holds, ResultType
    <3> QED BY <3>1, <2>5 DEF Where, Behind
  <2> QED BY <2>1, <2>2, <2>3, <2>4, <2>5, <1>1 DEF Told, Where, Astray, Behind, Between
<1>5. Sending' /\ Early' /\ Books'
  <2>1. cmd.chunks \in Nat /\ (pc' = "report" => ~Success')
      BY <1>1, <1>3 DEF Success, Ground, Record
  <2> QED BY <2>1, <1>1, <1>3 DEF Told, Sending, Early, Books
<1> QED BY <1>4, <1>5 DEF Told

LEMMA Result2Skew ==
    ASSUME Ground, Told, Spent => Spent', late' = 0, GetResult2 PROVE Told'
<1>1. /\ pc = "result2" /\ res' = res /\ accepted' = accepted
      /\ tx' = tx /\ modem' = modem /\ rx' = rx /\ pmsg' = pmsg
    BY DEF GetResult2, parserSide, modemSide
<1>2. PICK r \in ResultType \cup {"atc_unknown"} :
          /\ TakeAnswer({"atc_send_ok", "atc_send_fail"}, r) \/ AnswerTimeout(r)
          /\ res2' = r
          /\ IF res = "atc_ok" /\ r = "atc_send_ok"
             THEN /\ cmd' = [cmd EXCEPT !.done = @ + 1]
                  /\ pc' = IF cmd.done + 1 < cmd.chunks THEN "write" ELSE "report"
             ELSE pc' = "report" /\ cmd' = cmd
    BY DEF GetResult2
<1>3. /\ None => None' /\ tx = <<>> /\ r = "atc_unknown"
      /\ \A t : One(t) => r = t /\ None'
      /\ \A t, u : Two(t, u) => r = t /\ One(u)'
    BY <1>1, <1>2, AnswerTaken
<1>4. /\ <<Load>> # <<>> /\ <<Line, Load>> # <<>> /\ Load = Data(cmd.n)
      /\ cmd.n # 0 /\ cmd.n \in Number /\ cmd.n \in Nat /\ cmd.done \in Nat /\ cmd.chunks \in Nat
      /\ cmd.chunks # 0 /\ cmd.done < cmd.chunks
      /\ cmd \in [n : Nat, chunks : Nat, done : Nat]
    BY <1>1, Queues, Names DEF Ground, Record, Accounts, Told, Sending, Books
<1>5. \/ One("atc_send_ok") /\ Holds(<<>>, 0) /\ accepted[cmd.n] = cmd.done + 1
      \/ One("atc_send_fail") /\ Holds(<<>>, 0) /\ Spent
      \/ /\ Spent /\ Holds(<<>>, 0) /\ res # "atc_ok"
         /\ None \/ One("atc_error") \/ Two("atc_error", "atc_error")
      \/ Spent /\ One("atc_ok") /\ Holds(<<Load>>, cmd.n)
      \/ Spent /\ Two("atc_ok", "atc_send_ok") /\ Holds(<<>>, 0)
  <2>1. CASE InStep
      BY <2>1, <1>1, <1>3, <1>4 DEF InStep, Holds
  <2>2. CASE Spent /\ Astray
      BY <2>2, <1>1, <1>3, <1>4 DEF Astray, Between, Holds
  <2>3. CASE Spent /\ Behind
      BY <2>3, <1>1, <1>3, <1>4 DEF Behind, Between, Holds
  <2> QED BY <2>1, <2>2, <2>3 DEF Told, Where
<1>6. cmd'.n = cmd.n /\ cmd'.chunks = cmd.chunks
    BY <1>2, <1>4
<1>7. CASE One("atc_send_ok") /\ Holds(<<>>, 0) /\ accepted[cmd.n] = cmd.done + 1
  <2>1. r = "atc_send_ok" /\ None' /\ Holds(<<>>, 0)' /\ res2' = "atc_send_ok"
      BY <1>7, <1>1, <1>2, <1>3 DEF Holds
  <2>2. CASE res = "atc_ok" /\ cmd.done + 1 < cmd.chunks
    <3>1. pc' = "write" /\ cmd'.done = cmd.done + 1
        BY <2>1, <2>2, <1>2, <1>4
    <3>2. Counted'
        BY <3>1, <1>1, <1>6, <1>7 DEF Counted
    <3>3. Books'
        BY <3>1, <2>2, <1>1, <1>4, <1>6 DEF Told, Books
    <3> QED BY <2>1, <3>1, <3>2, <3>3, <1>6 DEF Told, Where, InStep, Sending, Early
  <2>3. CASE ~(res = "atc_ok" /\ cmd.done + 1 < cmd.chunks)
    <3>1. pc' = "report"
        BY <2>1, <2>3, <1>2
    <3>2. Success' => accepted[cmd.n] = cmd.chunks
        BY <2>3, <1>1, <1>4, <1>7 DEF Success
    <3>3. Books'
        BY <3>1, <3>2, <1>1, <1>4, <1>6 DEF Told, Books
    <3> QED BY <2>1, <3>1, <3>3 DEF Told, Where, InStep, Sending, Early
  <2> QED BY <2>2, <2>3
<1>8. CASE ~(One("atc_send_ok") /\ Holds(<<>>, 0) /\ accepted[cmd.n] = cmd.done + 1)
  <2>1. res # "atc_ok" \/ r # "atc_send_ok"
      BY <1>3, <1>5, <1>8
  <2>2. pc' = "report" /\ cmd' = cmd /\ ~Success'
      BY <2>1, <1>1, <1>2, <1>4 DEF Success
  <2>3. Where'
    <3>1. CASE One("atc_send_fail") /\ Holds(<<>>, 0) /\ Spent
        BY <3>1, <2>2, <1>1, <1>3 DEF Where, InStep, Holds
    <3>2. CASE /\ Spent /\ Holds(<<>>, 0) /\ res # "atc_ok"
               /\ None \/ One("atc_error") \/ Two("atc_error", "atc_error")
      <4>1. Holds(<<>>, 0)' /\ (None' \/ One("atc_error")')
          BY <3>2, <1>1, <1>3 DEF Holds
      <4>2. None' \/ OwedSaid'
          BY <4>1 DEF OwedSaid, ResultType
      <4> QED BY <4>1, <4>2, <3>2, <2>2 DEF Where, InStep, Behind, Between
    <3>3. CASE Spent /\ One("atc_ok") /\ Holds(<<Load>>, cmd.n)
      <4>1. None' /\ tx' = <<Data(cmd'.n)>> /\ modem' = cmd'.n /\ modem' # 0
          BY <3>3, <1>1, <1>3, <1>4, <2>2 DEF Holds
      <4>2. OwedData(cmd.n)'
          BY <4>1 DEF OwedData
      <4> QED BY <4>2, <3>3, <2>2, <1>4 DEF Where, Behind
    <3>4. CASE Spent /\ Two("atc_ok", "atc_send_ok") /\ Holds(<<>>, 0)
      <4>1. One("atc_send_ok")' /\ Holds(<<>>, 0)'
          BY <3>4, <1>1, <1>3 DEF Holds
      <4>2. OwedSaid'
          BY <4>1 DEF OwedSaid, ResultType
      <4> QED BY <4>2, <3>4, <2>2 DEF Where, Behind, Between
    <3> QED BY <1>5, <1>8, <3>1, <3>2, <3>3, <3>4
  <2>4. Books'
      BY <2>2, <1>1, <1>4 DEF Told, Books
  <2> QED BY <2>2, <2>3, <2>4 DEF Told, Sending, Early
<1> QED BY <1>7, <1>8

LEMMA EndSkew ==
    ASSUME Ground, Told, Spent => Spent', ReportResult PROVE Told'
<1>1. /\ pc = "report" /\ pc' = "idle" /\ cmd' = cmd /\ accepted' = accepted
      /\ verdict' = (IF Success THEN "ok" ELSE "error")
      /\ tx' = tx /\ modem' = modem /\ rx' = rx /\ pmsg' = pmsg /\ sendres' = sendres
    BY DEF ReportResult, parserSide, modemSide
<1>2. Kept
    BY <1>1, Stays
<1>3. Where'
  <2>1. CASE InStep
    <3>1. None' /\ Holds(<<>>, 0)'
        BY <2>1, <1>1, <1>2 DEF InStep, Kept, Holds
    <3> QED BY <3>1, <1>1 DEF Where, InStep
  <2>2. CASE Spent /\ Astray
    <3>1. None' /\ tx' = <<>> /\ modem' # 0 /\ modem' \in Number
        BY <2>2, <1>1, <1>2 DEF Astray, Kept
    <3> QED BY <3>1, <2>2, <1>1 DEF Where, Astray, Between
  <2>3. CASE Spent /\ (OwedSaid \/ OwedPlain)
    <3>1. OwedSaid' \/ OwedPlain'
        BY <2>3, <1>1, <1>2 DEF OwedSaid, OwedPlain, Kept, Holds
    <3> QED BY <3>1, <2>3, <1>1 DEF Where, Behind, Between
  <2>4. CASE Spent /\ OwedData(cmd.n) /\ cmd.chunks # 0 /\ ~Success
    <3>1. None' /\ tx' = <<Data(cmd'.n)>> /\ modem' = cmd'.n /\ modem' # 0
        BY <2>4, <1>1, <1>2 DEF OwedData, Kept
    <3>2. OwedData(cmd.n)'
        BY <3>1 DEF OwedData
    <3> QED BY <3>2, <2>4, <1>1 DEF Where, Behind
  <2> QED BY <2>1, <2>2, <2>3, <2>4, <1>1 DEF Told, Where, Behind
<1>4. Sending' /\ Early' /\ Books'
    BY <1>1 DEF Told, Sending, Early, Books
<1> QED BY <1>3, <1>4 DEF Told

LEMMA SkewStep == SkewInv /\ [Next]_vars => SkewInv'
<1> SUFFICES ASSUME SkewInv, [Next]_vars PROVE SkewInv'
    OBVIOUS
<1>1. LineInv' /\ MatchInv' /\ Slot' /\ Accounts'
    BY LineStep, MatchStep, SlotStep, AccountsStep DEF SkewInv, MatchInv
<1>2. SUFFICES ASSUME Mild' PROVE Told'
    BY <1>1 DEF SkewInv
<1>3. Ground
    BY DEF SkewInv, Ground, LineInv, MatchInv
<1>4. /\ Mild /\ late' = 0 /\ (Spent => Spent')
      /\ (Spent => refused' = refused /\ reports' = reports)
      /\ (refused' = refused + 1 \/ reports' = reports + 1 => ~Spent /\ Spent')
    BY <1>2, <1>3, MildBefore DEF Ground
<1>5. Told
    BY <1>4 DEF SkewInv
<1>6. CASE Parser
    BY <1>3, <1>4, <1>5, <1>6, ParserSkew
<1>7. CASE ModemReports
  <2>1. ~Spent /\ Spent'
      BY <1>4, <1>7 DEF ModemReports
  <2> QED BY <2>1, <1>3, <1>5, <1>7, ReportSkew
<1>8. CASE Modem
    BY <1>3, <1>4, <1>5, <1>8, ModemPlainSkew, ModemCipsendSkew, PayloadSkew, MisreadSkew DEF Modem
<1>9. CASE \E c \in 0..MaxChunk : Start(c)
    BY <1>3, <1>4, <1>5, <1>9, StartSkew
<1>10. CASE TransferReady
  <2>1. ~Spent => Step'
    <3>1. late' = 0 /\ reports' = reports /\ refused' = refused
        BY <1>4, <1>10 DEF TransferReady, modemSide
    <3>2. ~Spent => Clean'
        BY <3>1, <1>3, <1>4 DEF Spent, Mild, Clean, Ground, Counts
    <3> QED BY <3>2, <1>1 DEF MatchInv
  <2> QED BY <2>1, <1>3, <1>4, <1>5, <1>10, TransferSkew
<1>11. CASE Exec /\ ~TransferReady
    BY <1>3, <1>4, <1>5, <1>11, ReadySkew, WriteSkew, ResultSkew, WritePayloadSkew, Result2Skew,
       EndSkew DEF Exec
<1>12. CASE ReadConn \/ UNCHANGED vars
  <2>1. /\ pc' = pc /\ cmd' = cmd /\ tx' = tx /\ modem' = modem /\ res' = res /\ res2' = res2
        /\ verdict' = verdict /\ accepted' = accepted
        /\ rx' = rx /\ pmsg' = pmsg /\ sendres' = sendres /\ peri' = peri
      BY <1>12 DEF ReadConn, vars, parserSide, execSide, modemSide
  <2>2. Where'
      BY <2>1, <1>4, <1>5, Stays, Quiet DEF Told, Where, PromptComes
  <2> QED BY <2>1, <2>2, <1>4, <1>5, QuietTold DEF Told
<1> QED BY <1>6, <1>7, <1>8, <1>9, <1>10, <1>11, <1>12 DEF Next

LEMMA SkewInit == Init => SkewInv
<1> SUFFICES ASSUME Init PROVE SkewInv
    OBVIOUS
<1>1. LineInv /\ MatchInv
    BY LineInit, MatchInit
<1>2. Slot /\ Accounts
    BY LinkAssumption DEF Init, Slot, Accounts, Number
<1>3. None
  <2>1. Len(<<>>) = 0
      BY EmptySeq
  <2>2. Places = 0..1 /\ ~Result(0) /\ ~Result(1)
      BY <2>1, NoResult DEF Init, Places, Result, At
  <2> QED BY <2>2 DEF None
<1>4. Told
  <2>1. Books
      BY <1>2 DEF Init, Books, Accounts
  <2> QED BY <2>1, <1>3 DEF Init, Told, Sending, Early, Where, InStep, Holds
<1> QED BY <1>1, <1>2, <1>4 DEF SkewInv

(* A CIPSEND reported as a success was taken whole, every chunk as payload  *)
(* of that command, for any number of commands and chunks, as long as no    *)
(* answer was late and one thing at most went wrong.  After one refusal or  *)
(* report the executor may be one answer behind for the rest of the         *)
(* session, but then it reads an OK where it waits for SEND OK; and payload *)
(* the modem does not wait for follows a first answer that was no OK, so    *)
(* neither is ever called sent (exec.c:136-146, 162-181).                   *)
THEOREM SendsReliably == Spec => []SendReliable
<1>1. SkewInv => SendReliable
    BY DEF SkewInv, Mild, Told, Books, SendReliable
<1> QED BY <1>1, SkewInit, SkewStep, PTL DEF Spec
=============================================================================
