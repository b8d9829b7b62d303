----------------------------- MODULE EspParser -----------------------------
(***************************************************************************)
(* The byte-driven parser of the ESP8266's answers (User/esp/parser.c,     *)
(* atc_parse_char).  One action per parser state; each consumes one byte,  *)
(* moves the machine and hands at most one message to atc_dispatch (out).  *)
(* What atc_dispatch does with a message is modelled in AtLink and EspSock.*)
(*                                                                         *)
(* msg_op keeps exactly the first op_len bytes of the C array, so op_len   *)
(* is Len(msg_op); msg_buff keeps the payload read so far, so buff_offs is *)
(* Len(msg_buff).  A byte is a one-character string; cr, lf, tab, blank    *)
(* and comma are spelled out.                                              *)
(***************************************************************************)
EXTENDS Naturals, Sequences, SequencesExt

CONSTANTS
    OP_MAXLEN,    \* longest operation code kept in msg_op
    BUFF_MAXLEN,  \* longest +IPD payload accepted
    ID_MAX,       \* connection ids are below this
    Junk          \* bytes of no lexical class (dots, quotes, ...)

ASSUME ParserAssumption ==
    /\ OP_MAXLEN \in Nat /\ OP_MAXLEN >= 9
    /\ BUFF_MAXLEN \in Nat \ {0}
    /\ ID_MAX \in 1..10

VARIABLES
    state,      \* control state of the machine
    msg_op,     \* operation code read so far
    conn_id,    \* connection id being read
    buff_len,   \* announced payload length
    msg_buff,   \* payload bytes read so far
    peri,       \* atc_peri_state: who may talk on the serial line
    out         \* the message given to atc_dispatch by the last byte, or NoMsg

parserVars == <<state, msg_op, conn_id, buff_len, msg_buff, peri, out>>

-----------------------------------------------------------------------------
(* Lexical classes. *)

Letter == {"A","B","C","D","E","F","G","H","I","J","K","L","M","N","O","P","Q",
           "R","S","T","U","V","W","X","Y","Z","a","b","c","d","e","f","g","h",
           "i","j","k","l","m","n","o","p","q","r","s","t","u","v","w","x","y","z"}
DigitChar == <<"0","1","2","3","4","5","6","7","8","9">>
Digit   == Range(DigitChar)
Newline == {"cr", "lf"}
Space   == {"blank", "tab"}
Char    == Letter \cup Digit \cup Newline \cup Space \cup {"+", "comma", ":", ">"} \cup Junk

DigitVal(c) == (CHOOSE i \in 1..10 : DigitChar[i] = c) - 1

(* Values of atc_peri_state (parser.h). *)
TO_PERI   == 0     \* a command is on its way out
CANSEND   == 1     \* a command may be sent
WONNA     == 2     \* the modem prompts for payload
FROM_PERI == 4     \* a message is on its way in

ParserState == {"CLEAR", "MSG_OP", "CONN_ID", "CONN_OP", "IPD_ID", "IPD_LEN",
                "IPD_DAT", "ERROR_CHAR"}

(* Messages of atc_msg_t.  Only the fields the type uses are kept. *)
NoMsg       == [type |-> "none"]
ReportType  == {"atc_ok", "atc_error", "atc_send_ok", "atc_send_fail", "atc_ready",
                "atc_busy", "atc_wifi_connected", "atc_wifi_disconnect",
                "atc_wifi_got_ip", "atc_parse_error", "atc_inval"}
Report(t)   == [type |-> t]
Accepted(i) == [type |-> "atc_conn_accepted", id |-> i]
Closed(i)   == [type |-> "atc_conn_closed", id |-> i]
Recv(i, d)  == [type |-> "atc_conn_recv", id |-> i, data |-> d]

(* The lines the parser knows, in the order it compares them. *)
Keyword == [atc_ok        |-> <<"O","K">>,
            atc_error     |-> <<"E","R","R","O","R">>,
            atc_send_ok   |-> <<"S","E","N","D","blank","O","K">>,
            atc_send_fail |-> <<"S","E","N","D","blank","F","A","I","L">>,
            atc_ready     |-> <<"r","e","a","d","y">>,
            atc_wifi_connected  |-> <<"W","I","F","I","blank","C","O","N","N","E","C","T","E","D">>,
            atc_wifi_disconnect |-> <<"W","I","F","I","blank","D","I","S","C","O","N","N","E","C","T">>,
            atc_wifi_got_ip     |-> <<"W","I","F","I","_","G","O","T","_","I","P">>]
BusyPrefix  == <<"b","u","s","y","blank">>
EchoPrefix  == {<<"A","T">>, <<"R","e","c","v">>}
IpdOp       == <<"+","I","P","D">>
ConnectOp   == <<"C","O","N","N","E","C","T">>
ClosedOp    == <<"C","L","O","S","E","D">>

(* What a complete line means: an echo is silent, a known line is reported. *)
LineMsg(op) ==
    IF \E p \in EchoPrefix : IsPrefix(p, op) THEN NoMsg
    ELSE IF IsPrefix(BusyPrefix, op) THEN Report("atc_busy")
    ELSE IF \E t \in DOMAIN Keyword : Keyword[t] = op
         THEN Report(CHOOSE t \in DOMAIN Keyword : Keyword[t] = op)
    ELSE Report("atc_parse_error")

-----------------------------------------------------------------------------
(* Common tail of atc_parse_char: an idle machine gives the line back to   *)
(* the sender unless a prompt is pending.                                  *)
Goto(s, p) ==
    /\ state' = s
    /\ peri'  = IF s = "CLEAR" /\ p = TO_PERI THEN CANSEND ELSE p

ResumeNot == Goto(state, peri)                                   \* mutant
Resume    == Goto("CLEAR", CANSEND)
Skip      == Goto("ERROR_CHAR", peri)
(* After an error a newline has already ended the bad line. *)
SkipLineDeaf(c) == Skip                                          \* mutant
SkipLineHold(c) == IF c \in Newline THEN Goto("CLEAR", peri) ELSE Skip \* mutant
SkipLine(c) == IF c \in Newline THEN Resume ELSE Skip

(* An operation code may grow up to OP_MAXLEN. *)
OpFits      == Len(msg_op) < OP_MAXLEN

(* The threshold of a number that was just read: a length or an id. *)
InRangeIdLoose(isLen, n)  == IF isLen THEN n <= BUFF_MAXLEN ELSE n <= ID_MAX \* mutant
InRangeLenLoose(isLen, n) == isLen \/ n < ID_MAX                 \* mutant
InRange(isLen, n)         == IF isLen THEN n <= BUFF_MAXLEN ELSE n < ID_MAX

(* The payload is complete. *)
CompleteEarly(d) == Len(d) + 1 >= buff_len                       \* mutant
Complete(d)      == Len(d) = buff_len

Init ==
    /\ state = "CLEAR" /\ peri = CANSEND /\ out = NoMsg
    /\ msg_op = <<>> /\ msg_buff = <<>> /\ conn_id = 0 /\ buff_len = 0

ClearChar(c) ==
    /\ state = "CLEAR" /\ out' = NoMsg
    /\ \/ /\ c \in Newline \cup Space
          /\ Goto("CLEAR", peri)
          /\ UNCHANGED <<msg_op, conn_id, buff_len, msg_buff>>
       \/ /\ c = ">"
          /\ Goto("CLEAR", WONNA)
          /\ UNCHANGED <<msg_op, conn_id, buff_len, msg_buff>>
       \/ /\ c \in Digit
          /\ conn_id' = DigitVal(c) /\ buff_len' = 0 /\ msg_op' = <<>>
          /\ Goto("CONN_ID", FROM_PERI)
          /\ UNCHANGED msg_buff
       \/ /\ c \in Letter \cup {"+"}
          /\ msg_op' = <<c>>
          /\ Goto("MSG_OP", FROM_PERI)
          /\ UNCHANGED <<conn_id, buff_len, msg_buff>>
       \/ /\ c \in Junk \cup {"comma", ":"}
          /\ Goto("ERROR_CHAR", FROM_PERI)
          /\ UNCHANGED <<msg_op, conn_id, buff_len, msg_buff>>

MsgOpChar(c) ==
    /\ state = "MSG_OP"
    /\ \/ /\ c = "comma" /\ msg_op = IpdOp
          /\ msg_op' = <<>> /\ buff_len' = 0 /\ conn_id' = 0 /\ msg_buff' = <<>>
          /\ Goto("IPD_ID", peri) /\ out' = NoMsg
       \/ /\ c \in Letter \cup Space /\ OpFits
          /\ msg_op' = Append(msg_op, c)
          /\ Goto("MSG_OP", peri) /\ out' = NoMsg
          /\ UNCHANGED <<conn_id, buff_len, msg_buff>>
       \/ /\ c \in Newline
          /\ Resume /\ out' = LineMsg(msg_op)
          /\ UNCHANGED <<msg_op, conn_id, buff_len, msg_buff>>
       \/ /\ \/ c = "comma" /\ msg_op # IpdOp
             \/ c \in Letter \cup Space /\ ~OpFits
             \/ c \in Digit \cup Junk \cup {"+", ":", ">"}
          /\ Skip /\ out' = Report("atc_parse_error")
          /\ UNCHANGED <<msg_op, conn_id, buff_len, msg_buff>>

(* The states that read a decimal number share their code. *)
NumberChar(c) ==
    /\ state \in {"CONN_ID", "IPD_ID", "IPD_LEN"}
    /\ LET isLen   == state = "IPD_LEN"
           end     == IF isLen THEN ":" ELSE "comma"
           value   == (IF isLen THEN buff_len ELSE conn_id) * 10 + DigitVal(c)
       IN \/ /\ c \in Digit
             /\ conn_id'  = IF isLen THEN conn_id ELSE value
             /\ buff_len' = IF isLen THEN value ELSE buff_len
             /\ IF InRange(isLen, value) THEN Goto(state, peri) /\ out' = NoMsg
                                       ELSE Skip /\ out' = Report("atc_inval")
          \/ /\ c = end
             /\ IF isLen /\ buff_len = 0
                THEN Resume
                ELSE Goto([CONN_ID |-> "CONN_OP", IPD_ID |-> "IPD_LEN",
                           IPD_LEN |-> "IPD_DAT"][state], peri)
             /\ out' = NoMsg
             /\ UNCHANGED <<conn_id, buff_len>>
          \/ /\ c \notin Digit \cup {end}
             /\ SkipLine(c) /\ out' = Report("atc_inval")
             /\ UNCHANGED <<conn_id, buff_len>>
    /\ UNCHANGED <<msg_op, msg_buff>>

ConnOpChar(c) ==
    /\ state = "CONN_OP"
    /\ \/ /\ c \in Letter
          /\ msg_op' = Append(msg_op, c)
          /\ \/ msg_op' = ConnectOp /\ Resume /\ out' = Accepted(conn_id)
             \/ msg_op' = ClosedOp  /\ Resume /\ out' = Closed(conn_id)
             \/ /\ msg_op' \notin {ConnectOp, ClosedOp}
                /\ IF Len(msg_op') >= 9
                   THEN Skip /\ out' = Report("atc_parse_error")
                   ELSE Goto(state, peri) /\ out' = NoMsg
       \/ /\ c \notin Letter
          /\ SkipLine(c) /\ out' = Report("atc_parse_error")
          /\ UNCHANGED msg_op
    /\ UNCHANGED <<conn_id, buff_len, msg_buff>>

IpdDatChar(c) ==
    /\ state = "IPD_DAT"
    /\ LET got == Append(msg_buff, c)
       IN IF Complete(got)
          THEN /\ out' = Recv(conn_id, got) /\ msg_buff' = <<>>
               /\ Resume
          ELSE /\ out' = NoMsg /\ msg_buff' = got
               /\ Goto(state, peri)
    /\ UNCHANGED <<msg_op, conn_id, buff_len>>

ErrorChar(c) ==
    /\ state = "ERROR_CHAR" /\ out' = NoMsg
    /\ SkipLine(c)
    /\ UNCHANGED <<msg_op, conn_id, buff_len, msg_buff>>

(* atc_parse_char *)
ParseChar(c) ==
    \/ ClearChar(c)  \/ MsgOpChar(c)  \/ NumberChar(c)
    \/ ConnOpChar(c) \/ IpdDatChar(c) \/ ErrorChar(c)

(* The executor takes the line for a command (atc_consume_cmd_ready) or for *)
(* a payload (atc_consume_transfer_ready).                                  *)
ConsumeReady ==
    /\ peri \in {CANSEND, WONNA}
    /\ peri' = TO_PERI
    /\ UNCHANGED <<state, msg_op, conn_id, buff_len, msg_buff, out>>

Next == (\E c \in Char : ParseChar(c)) \/ ConsumeReady

Spec == Init /\ [][Next]_parserVars

-----------------------------------------------------------------------------
(* Types.  A number that was just found out of range is kept, one digit     *)
(* past its bound, until the next message resets it; the uint16_t never     *)
(* wraps (parser.c:204 claims so).                                          *)
Msg == [type : {"none"} \cup ReportType]
       \cup [type : {"atc_conn_accepted", "atc_conn_closed"}, id : Nat]
       \cup [type : {"atc_conn_recv"}, id : Nat, data : Seq(Char)]

TypeOK ==
    /\ state \in ParserState
    /\ peri \in {TO_PERI, CANSEND, WONNA, FROM_PERI}
    /\ msg_op \in Seq(Char) /\ Len(msg_op) <= OP_MAXLEN
    /\ conn_id \in 0..(10 * 9 + 9)
    /\ buff_len \in 0..(10 * BUFF_MAXLEN + 9)
    /\ msg_buff \in Seq(Char)
    /\ out \in Msg

(* The line is marked as busy with an incoming message exactly while the    *)
(* parser is inside one, so the executor, which takes the line only in      *)
(* CANSEND or WONNA, never starts a command in the middle of a message      *)
(* (parser.c:105-314, exec.c:222 and 237).                                  *)
LineOwner == state # "CLEAR" <=> peri = FROM_PERI

(* Inside a payload fewer bytes than announced have been read, so the test  *)
(* buff_offs == buff_len cannot be stepped over (parser.c:283), and the     *)
(* payload in the making never exceeds BUFF_MAXLEN.                         *)
PayloadBound ==
    /\ state = "IPD_DAT" => Len(msg_buff) < buff_len /\ buff_len <= BUFF_MAXLEN
    /\ state # "IPD_DAT" => msg_buff = <<>>

(* A message delivered as connection data carries at least one byte, no     *)
(* more than BUFF_MAXLEN, and the id of an existing connection slot.        *)
RecvBound ==
    out.type = "atc_conn_recv" => /\ Len(out.data) \in 1..BUFF_MAXLEN
                                  /\ out.id < ID_MAX

(* However a message was mutilated, the parser gets back to idle while      *)
(* newlines keep arriving: a damaged header or a lost payload byte costs a  *)
(* bounded number of messages (parser.c:200-308).                           *)
Recovers ==
    []<><<\E c \in Newline : ParseChar(c)>>_parserVars => []<>(state = "CLEAR")
=============================================================================
