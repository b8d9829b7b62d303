------------------------------- MODULE AtLink -------------------------------
(***************************************************************************)
(* One AT command at a time over the line to the ESP8266.                  *)
(*                                                                         *)
(* The sshd task runs atc_exec (User/esp/exec.c) to its end for each       *)
(* command; the parser task turns what the modem says into atc_peri_state  *)
(* and the one-place queue atc_sendres (User/esp/parser.c).  The parser is *)
(* taken here message by message: ParserBegin reads the first byte, the    *)
(* dispatch actions the last one.  The modem is external.                  *)
(* The sshd task has the higher priority (user_init.c:78-102), so what it   *)
(* does between two waits is one step, its test-and-set of atc_peri_state   *)
(* included.                                                               *)
(*                                                                         *)
(* A message about a connection (+IPD, CONNECT) goes to a queue of the      *)
(* sockets, and the parser waits for a place there without end              *)
(* (parser.c:406, 419) with the line marked as the modem's.  Only the sshd  *)
(* task makes room, between two commands.                                   *)
(*                                                                         *)
(* Time is abstracted: a wait may time out at any moment.  The wait is     *)
(* premature when what it waits for is still under way; premature timeouts *)
(* are counted in late, so late = 0 says that the modem has so far answered*)
(* within ATC_SENDRES_TIMEOUT.                                             *)
(***************************************************************************)
EXTENDS Naturals, Sequences, SequencesExt

CONSTANTS
    MaxCmd,      \* bound: commands executed
    MaxChunk,    \* bound: chunks of a CIPSEND (ATC_SEND_CHUNK_SIZE bytes each)
    MaxTrouble   \* bound: premature timeouts, unsolicited reports (WIFI ...,
                 \*   busy, +IPD, CONNECT) and refusals (ERROR, SEND FAIL)

ASSUME LinkAssumption ==
    MaxCmd \in Nat /\ MaxChunk \in Nat \ {0} /\ MaxTrouble \in Nat

VARIABLES
    peri,      \* atc_peri_state
    pmsg,      \* message the parser is inside of, or NoMsg
    rx,        \* what the modem has said and the parser has not yet read
    full,      \* has the socket queue the next such message goes to no place left?
    sendres,   \* atc_sendres, one place
    pc,        \* where atc_exec is
    cmd,       \* the command being executed: number, chunks, chunks done
    res,       \* atc_exec's res
    res2,      \* atc_exec's res2
    verdict,   \* result given to exec_res: "none", "ok" or "error"
    tx,        \* what has been written to the modem and it has not yet read
    modem,     \* "command", or the number of the CIPSEND it prompts for
    taken,     \* history: last answer taken from atc_sendres
    accepted,  \* history: chunks the modem took for each command
    late,      \* history: premature timeouts
    reports,   \* history: unsolicited reports
    refused    \* history: refusals

parserSide == <<peri, pmsg, rx, full>>
execSide   == <<pc, cmd, res, res2, verdict, taken>>
modemSide  == <<tx, modem, accepted, reports, refused>>
vars == <<parserSide, sendres, execSide, modemSide, late>>

-----------------------------------------------------------------------------
TO_PERI   == 0
CANSEND   == 1
WONNA     == 2
FROM_PERI == 4

(* An answer carries, for the properties only, the command it answers.     *)
Answer(t, n) == [type |-> t, for |-> n]
NoMsg   == Answer("none", 0)
Blank   == Answer("blank", 0)
Prompt(n) == Answer("prompt", n)
Report(t) == Answer(t, 0)

ResultType == {"atc_ok", "atc_error", "atc_send_ok", "atc_send_fail"}
IsResult(m) == m.type \in ResultType

MayFail == late + reports + refused < MaxTrouble

Number == 0..MaxCmd
Init ==
    /\ peri = CANSEND /\ pmsg = NoMsg /\ rx = <<>> /\ full = FALSE
    /\ sendres = <<>> /\ pc = "idle" /\ cmd = [n |-> 0, chunks |-> 0, done |-> 0]
    /\ res = "atc_ok" /\ res2 = "atc_send_ok" /\ verdict = "none"
    /\ tx = <<>> /\ modem = 0
    /\ taken = [answer |-> NoMsg, by |-> 0, want |-> {}]
    /\ accepted = [n \in Number |-> 0]
    /\ late = 0 /\ reports = 0 /\ refused = 0

-----------------------------------------------------------------------------
(* The parser task. *)

ParserBegin ==
    /\ pmsg = NoMsg /\ rx # <<>> /\ rx' = Tail(rx)
    /\ LET m == Head(rx) IN
       CASE m.type = "blank"  -> /\ peri' = IF peri = TO_PERI THEN CANSEND ELSE peri
                                 /\ UNCHANGED pmsg
         [] m.type = "prompt" -> peri' = WONNA /\ UNCHANGED pmsg
         [] OTHER             -> peri' = FROM_PERI /\ pmsg' = m
    /\ UNCHANGED <<full, sendres, execSide, modemSide, late>>

(* The last byte: atc_dispatch, then the line is handed back. *)
EndMsgKeep == pmsg' = NoMsg /\ UNCHANGED <<peri, rx>>     \* mutant
EndMsg == pmsg' = NoMsg /\ peri' = CANSEND /\ UNCHANGED rx

DispatchReport ==
    /\ pmsg.type = "report" /\ EndMsg
    /\ UNCHANGED <<full, sendres, execSide, modemSide, late>>

DispatchConn ==
    /\ pmsg.type = "conn" /\ ~full /\ full' \in BOOLEAN
    /\ EndMsg
    /\ UNCHANGED <<sendres, execSide, modemSide, late>>

Room      == sendres = <<>>

DispatchResult ==
    /\ IsResult(pmsg) /\ Room
    /\ sendres' = Append(sendres, pmsg)
    /\ EndMsg
    /\ UNCHANGED <<full, execSide, modemSide, late>>

(* xQueueSend times out on the full queue and the result is dropped. *)
DispatchDropNever == FALSE /\ UNCHANGED vars               \* mutant
DispatchDrop ==
    /\ IsResult(pmsg) /\ ~Room /\ pc # "result" /\ pc # "result2"
    /\ EndMsg
    /\ UNCHANGED <<full, sendres, execSide, modemSide, late>>

(* The parser is stuck inside a message: it waits for room in a full queue. *)
LineHeld == pmsg.type = "conn" /\ full

-----------------------------------------------------------------------------
(* atc_exec *)

Write(item) == tx' = Append(tx, item)

(* Something the executor waits for is still under way. *)
Pending(P(_)) == \/ \E i \in 1..Len(rx) : P(rx[i])
                 \/ P(pmsg) \/ tx # <<>>

(* Between commands the sshd task reads from its connections.               *)
ReadConn ==
    /\ pc = "idle" /\ full /\ full' = FALSE
    /\ UNCHANGED <<peri, pmsg, rx, sendres, execSide, modemSide, late>>

(* chunks = 0 is a command without payload (AT, CIPCLOSE, ...). *)
Start(chunks) ==
    /\ pc = "idle" /\ cmd.n < MaxCmd
    /\ cmd' = [n |-> cmd.n + 1, chunks |-> chunks, done |-> 0]
    /\ res' = "atc_ok" /\ res2' = "atc_send_ok" /\ verdict' = "none"
    /\ pc' = "ready"
    /\ UNCHANGED <<parserSide, sendres, modemSide, taken, late>>

(* atc_consume_cmd_ready: poll for CANSEND; after the last poll go on       *)
(* without it unless a message is coming in, and poll again if one is.      *)
ReadyPolled == peri = CANSEND /\ peri' = TO_PERI
ReadyGivenUp == peri \notin {CANSEND, FROM_PERI} /\ UNCHANGED peri

CmdReady ==
    /\ pc = "ready" /\ pc' = "write"
    /\ ReadyPolled \/ ReadyGivenUp
    /\ UNCHANGED <<pmsg, rx, full, sendres, cmd, res, res2, verdict, taken, modemSide, late>>

(* The line is written piece by piece; this is its last byte.  A message    *)
(* may begin to come in before, and is not looked for.                      *)
WriteCommand ==
    /\ pc = "write" /\ pc' = "result"
    /\ Write([kind |-> IF cmd.chunks = 0 THEN "plain" ELSE "cipsend", n |-> cmd.n])
    /\ UNCHANGED <<parserSide, sendres, cmd, res, res2, verdict, taken,
                   modem, accepted, reports, refused, late>>

(* get_sendres: an answer, or atc_unknown after the timeout. *)
TakeAnswerLooking(want, r) ==                            \* mutant
    /\ sendres # <<>> /\ UNCHANGED sendres
    /\ r = Head(sendres).type
    /\ taken' = [answer |-> Head(sendres), by |-> cmd.n, want |-> want]
    /\ UNCHANGED late

TakeAnswer(want, r) ==
    /\ sendres # <<>> /\ sendres' = Tail(sendres)
    /\ r = Head(sendres).type
    /\ taken' = [answer |-> Head(sendres), by |-> cmd.n, want |-> want]
    /\ UNCHANGED late

(* A premature timeout counts.  The bound does not keep the executor from   *)
(* ending a wait that nothing can answer.                                   *)
Premature == (MayFail \/ LineHeld) /\ late' = late + 1

AnswerTimeout(r) ==
    /\ sendres = <<>> /\ r = "atc_unknown"
    /\ IF Pending(IsResult) THEN Premature ELSE UNCHANGED late
    /\ UNCHANGED <<sendres, taken>>

GetResult ==
    /\ pc = "result"
    /\ \E r \in ResultType \cup {"atc_unknown"} :
          /\ TakeAnswer({"atc_ok", "atc_error"}, r) \/ AnswerTimeout(r)
          /\ res' = r
          /\ pc' = IF cmd.chunks = 0 THEN "report"
                   ELSE IF r = "atc_ok" THEN "wonna" ELSE "payload"
    /\ UNCHANGED <<parserSide, cmd, res2, verdict, modemSide>>

(* atc_consume_transfer_ready: its int result lands in res2, where 1 is     *)
(* atc_ok and 0 is atc_unknown.                                             *)
TransferReady ==
    /\ pc = "wonna" /\ pc' = "payload"
    /\ \/ peri = WONNA /\ peri' = TO_PERI /\ res2' = "atc_ok" /\ UNCHANGED late
       \/ /\ peri # WONNA /\ UNCHANGED peri
          /\ IF Pending(LAMBDA m : m.type = "prompt")
             THEN Premature ELSE UNCHANGED late
          /\ res2' = IF peri = FROM_PERI THEN "atc_unknown" ELSE "atc_ok"
    /\ UNCHANGED <<pmsg, rx, full, sendres, cmd, res, verdict, taken, modemSide>>

(* exec.c:136 tests res2 alone. *)
ShouldTransfer == res2 # "atc_unknown"

AfterPayloadNone == "report"                             \* mutant
AfterPayload     == "result2"

WritePayload ==
    /\ pc = "payload"
    /\ IF ShouldTransfer
       THEN Write([kind |-> "payload", n |-> cmd.n]) /\ pc' = AfterPayload
       ELSE UNCHANGED tx /\ pc' = "report"
    /\ UNCHANGED <<parserSide, sendres, cmd, res, res2, verdict, taken,
                   modem, accepted, reports, refused, late>>

GetResult2 ==
    /\ pc = "result2"
    /\ \E r \in ResultType \cup {"atc_unknown"} :
          /\ TakeAnswer({"atc_send_ok", "atc_send_fail"}, r) \/ AnswerTimeout(r)
          /\ res2' = r
          /\ IF res = "atc_ok" /\ r = "atc_send_ok"
             THEN /\ cmd' = [cmd EXCEPT !.done = @ + 1]
                  /\ pc' = IF cmd.done + 1 < cmd.chunks THEN "write" ELSE "report"
             ELSE pc' = "report" /\ UNCHANGED cmd
    /\ UNCHANGED <<parserSide, res, verdict, modemSide>>

SuccessFirst == res = "atc_ok"                           \* mutant
Success == res = "atc_ok" /\ (cmd.chunks > 0 => res2 = "atc_send_ok")

ReportResult ==
    /\ pc = "report" /\ pc' = "idle"
    /\ verdict' = IF Success THEN "ok" ELSE "error"
    /\ UNCHANGED <<parserSide, sendres, cmd, res, res2, taken, modemSide, late>>

-----------------------------------------------------------------------------
(* The modem (external, read_esp8266.md and the executor's expectations).   *)

Say(ms) == rx' = rx \o ms
Refuses == MayFail /\ refused' = refused + 1

ModemPlain ==
    /\ modem = 0 /\ tx # <<>> /\ Head(tx).kind = "plain" /\ tx' = Tail(tx)
    /\ \/ Say(<<Blank, Answer("atc_ok", Head(tx).n)>>) /\ UNCHANGED refused
       \/ Say(<<Blank, Answer("atc_error", Head(tx).n)>>) /\ Refuses
    /\ UNCHANGED <<peri, pmsg, full, sendres, execSide, modem, accepted, reports, late>>

ModemCipsend ==
    /\ modem = 0 /\ tx # <<>> /\ Head(tx).kind = "cipsend" /\ tx' = Tail(tx)
    /\ \/ /\ Say(<<Blank, Answer("atc_ok", Head(tx).n), Prompt(Head(tx).n)>>)
          /\ modem' = Head(tx).n /\ UNCHANGED refused
       \/ /\ Say(<<Blank, Answer("atc_error", Head(tx).n)>>)
          /\ UNCHANGED modem /\ Refuses
    /\ UNCHANGED <<peri, pmsg, full, sendres, execSide, accepted, reports, late>>

(* At the prompt everything written is payload. *)
ModemTakesPayload ==
    /\ modem # 0 /\ tx # <<>> /\ tx' = Tail(tx)
    /\ \E ok \in BOOLEAN :
          /\ IF ok THEN UNCHANGED refused ELSE Refuses
          /\ Say(<<Blank, Answer(IF ok THEN "atc_send_ok" ELSE "atc_send_fail", modem)>>)
          /\ accepted' = IF ok /\ Head(tx) = [kind |-> "payload", n |-> modem]
                         THEN [accepted EXCEPT ![modem] = @ + 1] ELSE accepted
    /\ modem' = 0
    /\ UNCHANGED <<peri, pmsg, full, sendres, execSide, reports, late>>

(* Payload outside the prompt is read as commands: no answer if it holds no *)
(* newline, an ERROR per line otherwise.                                    *)
ModemMisreads ==
    /\ modem = 0 /\ tx # <<>> /\ Head(tx).kind = "payload" /\ tx' = Tail(tx)
    /\ \E k \in 0..2 : Say([i \in 1..k |-> Answer("atc_error", 0)])
    /\ UNCHANGED <<peri, pmsg, full, sendres, execSide, modem, accepted, reports, refused, late>>

ModemReports ==
    /\ MayFail /\ reports' = reports + 1
    /\ \E t \in {"report", "conn"} : Say(<<Blank, Report(t)>>)
    /\ UNCHANGED <<peri, pmsg, full, sendres, execSide, tx, modem, accepted, refused, late>>

-----------------------------------------------------------------------------
Parser == ParserBegin \/ DispatchReport \/ DispatchConn \/ DispatchResult \/ DispatchDrop
Exec   == \/ CmdReady \/ WriteCommand \/ GetResult \/ TransferReady
          \/ WritePayload \/ GetResult2 \/ ReportResult
Modem  == ModemPlain \/ ModemCipsend \/ ModemTakesPayload \/ ModemMisreads

Next == \/ \E k \in 0..MaxChunk : Start(k)
        \/ ReadConn \/ Exec \/ Parser \/ Modem \/ ModemReports

Spec == Init /\ [][Next]_vars

(* The executor blocks in every loop, so the parser task, of lower          *)
(* priority, runs as long as it is not itself blocked by a full queue, and  *)
(* every wait of the executor is timed; the modem reads what is written.    *)
FairSpec == Spec /\ WF_vars(Parser) /\ WF_vars(Exec) /\ WF_vars(Modem)

-----------------------------------------------------------------------------
Message == [type : ResultType \cup {"none", "blank", "prompt", "report", "conn"}, for : Number]

TypeOK ==
    /\ peri \in {TO_PERI, CANSEND, WONNA, FROM_PERI}
    /\ pmsg \in Message /\ rx \in Seq(Message) /\ full \in BOOLEAN
    /\ sendres \in Seq(Message) /\ Len(sendres) <= 1
    /\ pc \in {"idle", "ready", "write", "result", "wonna", "payload", "result2", "report"}
    /\ cmd \in [n : Number, chunks : 0..MaxChunk, done : 0..MaxChunk]
    /\ res \in ResultType \cup {"atc_unknown"} /\ res2 \in ResultType \cup {"atc_unknown"}
    /\ verdict \in {"none", "ok", "error"}
    /\ tx \in Seq([kind : {"plain", "cipsend", "payload"}, n : Number])
    /\ modem \in Number
    /\ taken \in [answer : Message, by : Number, want : SUBSET ResultType]
    /\ accepted \in [Number -> Nat]
    /\ late \in Nat /\ reports \in 0..MaxTrouble /\ refused \in 0..MaxTrouble

(* The line belongs to the modem exactly while the parser is inside a       *)
(* message, whatever the executor's polling does in between (parser.c:105,  *)
(* exec.c:222-246).                                                         *)
LineOwner == pmsg # NoMsg <=> peri = FROM_PERI

(* As long as no answer was late, nothing was refused and nothing reported,  *)
(* every answer the executor takes is the answer to the command it is       *)
(* executing, of the kind that step of it waits for (exec.c:128, 138, 162). *)
ResultMatch ==
    taken.by # 0 /\ late = 0 /\ reports = 0 /\ refused = 0 =>
        taken.answer.for = taken.by /\ taken.answer.type \in taken.want

(* One answer that comes too late puts the executor behind by one answer    *)
(* for the rest of the session, and never by more: the one place of         *)
(* atc_sendres neither lets an older one through nor hands out a newer one   *)
(* first (parser.c:386, exec.c:53-61).                                      *)
OneBehind ==
    taken.by # 0 /\ late <= 1 /\ reports = 0 /\ refused = 0 =>
        taken.answer.for \in (taken.by - late)..taken.by

(* A CIPSEND reported as a success has had every chunk taken as payload of  *)
(* that very command (exec.c:141-146, 168-181), as long as no answer was    *)
(* late and one thing at most went wrong: a refusal or a report.  Two can   *)
(* put the answers two out of step, as payload that the modem does not wait *)
(* for is answered with errors, and the OK and the SEND OK of one command   *)
(* are then taken for the next one's.                                       *)
SendReliable ==
    (/\ pc = "idle" /\ verdict = "ok"
     /\ late = 0 /\ refused + reports <= 1) => accepted[cmd.n] = cmd.chunks

(* A command ends, or waits for ever for a line that the parser holds: a    *)
(* message it is inside of has no place in a full queue, and the task that  *)
(* would make room is the one that waits (parser.c:419, exec.c:243-245).    *)
(* No other wait of atc_exec is without end.                                *)
CommandEnds == pc = "ready" ~> pc = "idle" \/ [](pc = "ready" /\ LineHeld)

(* The comment at exec.c:127: "expect OK, else no send".                    *)
OkBeforeSend == [][pc = "payload" /\ tx' # tx => res = "atc_ok"]_vars
=============================================================================
