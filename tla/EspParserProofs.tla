-------------------------- MODULE EspParserProofs --------------------------
(***************************************************************************)
(* Proofs that the parser keeps its bounds and owns the line, for every    *)
(* OP_MAXLEN, BUFF_MAXLEN and ID_MAX and for every sequence of bytes; and  *)
(* that on an undisturbed line it tells the program what the modem said    *)
(* (EspWire), for every set of messages and every depth of the queue.      *)
(***************************************************************************)
EXTENDS EspWire, SequenceTheorems, TLAPS

(* What the invariants rest on: how far each number can have grown in the   *)
(* states that read or use it, and that a connection line starts with an    *)
(* empty operation code and stays below nine letters.                       *)
Numbers ==
    /\ state \in {"IPD_ID", "IPD_LEN", "IPD_DAT"} => conn_id < ID_MAX
    /\ state \in {"CONN_ID", "CONN_OP"} => conn_id <= 9
    /\ state = "IPD_ID" => buff_len = 0
    /\ state = "IPD_LEN" => buff_len <= BUFF_MAXLEN
    /\ state = "CONN_ID" => msg_op = <<>>
    /\ state = "CONN_OP" => Len(msg_op) <= 8

IInv == TypeOK /\ LineOwner /\ PayloadBound /\ RecvBound /\ Numbers

-----------------------------------------------------------------------------
(* A digit has a value from 0 to 9 (parser.c:206-208).                      *)
LEMMA DigitValRange == ASSUME NEW c \in Digit PROVE DigitVal(c) \in 0..9
<1>1. DOMAIN DigitChar = 1..10
  BY DEF DigitChar
<1>2. PICK i \in 1..10 : DigitChar[i] = c
  BY <1>1 DEF Digit, Range
<1>3. (CHOOSE j \in 1..10 : DigitChar[j] = c) \in 1..10
  BY <1>2
<1> QED
  BY <1>3 DEF DigitVal

(* A complete line is silent or one of the reports, never connection data   *)
(* (parser.c:145-186).                                                      *)
LEMMA LineMsgType == ASSUME NEW op PROVE LineMsg(op) \in Msg /\ LineMsg(op).type # "atc_conn_recv"
<1> DEFINE t == CHOOSE k \in DOMAIN Keyword : Keyword[k] = op
<1>1. DOMAIN Keyword \subseteq ReportType
  BY DEF Keyword, ReportType
<1>2. CASE \E k \in DOMAIN Keyword : Keyword[k] = op
  <2>1. t \in DOMAIN Keyword
    BY <1>2
  <2>2. t \in ReportType
    BY <1>1, <2>1
  <2> HIDE DEF t
  <2>3. Report(t) \in Msg /\ Report(t).type # "atc_conn_recv"
    BY <2>2 DEF Report, Msg, ReportType
  <2>4. NoMsg \in Msg /\ NoMsg.type # "atc_conn_recv"
    BY DEF NoMsg, Msg
  <2>5. Report("atc_busy") \in Msg /\ Report("atc_busy").type # "atc_conn_recv"
    BY DEF Report, Msg, ReportType
  <2>6. LineMsg(op) \in {NoMsg, Report("atc_busy"), Report(t)}
    BY <1>2 DEF LineMsg, t
  <2> QED
    BY <2>3, <2>4, <2>5, <2>6
<1>3. CASE ~ \E k \in DOMAIN Keyword : Keyword[k] = op
  BY <1>3 DEF LineMsg, NoMsg, Report, Msg, ReportType
<1> QED
  BY <1>2, <1>3

(* The messages the other actions dispatch.                                 *)
LEMMA MsgTypes ==
    /\ NoMsg \in Msg /\ NoMsg.type # "atc_conn_recv"
    /\ \A t \in ReportType : Report(t) \in Msg /\ Report(t).type # "atc_conn_recv"
    /\ \A i \in Nat : /\ Accepted(i) \in Msg /\ Accepted(i).type # "atc_conn_recv"
                      /\ Closed(i) \in Msg /\ Closed(i).type # "atc_conn_recv"
    /\ \A i \in Nat, d \in Seq(Char) :
          Recv(i, d) \in Msg /\ Recv(i, d).id = i /\ Recv(i, d).data = d
<1>1. NoMsg \in Msg /\ NoMsg.type # "atc_conn_recv"
  BY DEF NoMsg, Msg
<1>2. ASSUME NEW t \in ReportType PROVE Report(t) \in Msg /\ Report(t).type # "atc_conn_recv"
  BY DEF Report, Msg, ReportType
<1>3. ASSUME NEW i \in Nat
      PROVE  /\ Accepted(i) \in Msg /\ Accepted(i).type # "atc_conn_recv"
             /\ Closed(i) \in Msg /\ Closed(i).type # "atc_conn_recv"
  BY DEF Accepted, Closed, Msg
<1>4. ASSUME NEW i \in Nat, NEW d \in Seq(Char)
      PROVE  Recv(i, d) \in Msg /\ Recv(i, d).id = i /\ Recv(i, d).data = d
  BY DEF Recv, Msg
<1> QED
  BY <1>1, <1>2, <1>3, <1>4

-----------------------------------------------------------------------------
LEMMA InitIInv == Init => IInv
<1> SUFFICES ASSUME Init PROVE IInv
  OBVIOUS
<1>1. TypeOK
  BY MsgTypes, ParserAssumption DEF Init, TypeOK, ParserState, CANSEND, TO_PERI, WONNA, FROM_PERI
<1>2. LineOwner /\ PayloadBound /\ RecvBound /\ Numbers
  BY MsgTypes DEF Init, LineOwner, PayloadBound, RecvBound, Numbers, CANSEND, FROM_PERI, NoMsg
<1> QED
  BY <1>1, <1>2 DEF IInv

LEMMA ClearCharIInv == ASSUME IInv, NEW c \in Char, ClearChar(c) PROVE IInv'
<1> USE DEF TO_PERI, CANSEND, WONNA, FROM_PERI
<1>1. /\ state' \in ParserState
      /\ peri' \in {TO_PERI, CANSEND, WONNA, FROM_PERI}
      /\ LineOwner'
  BY DEF IInv, TypeOK, LineOwner, ClearChar, Goto, ParserState
<1>2. out' \in Msg /\ RecvBound'
  BY MsgTypes DEF ClearChar, RecvBound
<1>3. msg_op' \in Seq(Char) /\ Len(msg_op') <= OP_MAXLEN
  <2>1. msg_op' \in {<<>>, <<c>>, msg_op}
    BY DEF ClearChar
  <2>2. <<c>> \in Seq(Char) /\ Len(<<c>>) = 1
    OBVIOUS
  <2>3. <<>> \in Seq(Char) /\ Len(<<>>) = 0
    OBVIOUS
  <2>4. msg_op \in Seq(Char) /\ Len(msg_op) <= OP_MAXLEN
    BY DEF IInv, TypeOK
  <2>5. OP_MAXLEN \in Nat /\ OP_MAXLEN >= 9
    BY ParserAssumption
  <2>6. Len(<<>>) <= OP_MAXLEN /\ Len(<<c>>) <= OP_MAXLEN
    BY <2>2, <2>3, <2>5
  <2> QED
    BY <2>1, <2>2, <2>3, <2>4, <2>6, Zenon
<1>4. conn_id' \in 0..(10 * 9 + 9) /\ (state' = "CONN_ID" => conn_id' <= 9)
  <2>1. CASE c \in Digit /\ conn_id' = DigitVal(c)
    <3>1. DigitVal(c) \in 0..9
      BY <2>1, DigitValRange
    <3> QED
      BY <2>1, <3>1
  <2>2. CASE conn_id' = conn_id /\ state' # "CONN_ID"
    BY <2>2 DEF IInv, TypeOK
  <2> QED
    BY <2>1, <2>2 DEF ClearChar, Goto
<1>5. buff_len' \in 0..(10 * BUFF_MAXLEN + 9)
  BY ParserAssumption DEF IInv, TypeOK, ClearChar
<1>6. msg_buff' = <<>> /\ state' \in {"CLEAR", "CONN_ID", "MSG_OP", "ERROR_CHAR"}
  BY DEF IInv, PayloadBound, ClearChar, Goto
<1>7. Numbers'
  BY <1>4, <1>6 DEF ClearChar, Goto, Numbers
<1>8. TypeOK' /\ PayloadBound'
  BY <1>1, <1>2, <1>3, <1>4, <1>5, <1>6 DEF TypeOK, PayloadBound
<1> QED
  BY <1>1, <1>2, <1>7, <1>8 DEF IInv

LEMMA MsgOpCharIInv == ASSUME IInv, NEW c \in Char, MsgOpChar(c) PROVE IInv'
<1> USE DEF TO_PERI, CANSEND, WONNA, FROM_PERI
<1>1. /\ state' \in {"CLEAR", "MSG_OP", "IPD_ID", "ERROR_CHAR"}
      /\ peri' \in {TO_PERI, CANSEND, WONNA, FROM_PERI}
      /\ LineOwner'
  BY DEF IInv, TypeOK, LineOwner, MsgOpChar, Goto, Resume, Skip
<1>2. out' \in Msg /\ RecvBound'
  <2>1. out' \in {NoMsg, LineMsg(msg_op), Report("atc_parse_error")}
    BY DEF MsgOpChar
  <2>2. Report("atc_parse_error") \in Msg /\ Report("atc_parse_error").type # "atc_conn_recv"
    BY MsgTypes DEF ReportType
  <2> QED
    BY <2>1, <2>2, MsgTypes, LineMsgType DEF RecvBound
<1>3. msg_op' \in Seq(Char) /\ Len(msg_op') <= OP_MAXLEN
  <2>1. CASE msg_op' = <<>>
    BY <2>1, ParserAssumption
  <2>2. CASE msg_op' = msg_op
    BY <2>2 DEF IInv, TypeOK
  <2>3. CASE msg_op' = Append(msg_op, c) /\ OpFits
    BY <2>3, ParserAssumption DEF IInv, TypeOK, OpFits
  <2> QED
    BY <2>1, <2>2, <2>3 DEF MsgOpChar
<1>4. /\ conn_id' \in 0..(10 * 9 + 9) /\ buff_len' \in 0..(10 * BUFF_MAXLEN + 9)
      /\ state' = "IPD_ID" => conn_id' = 0 /\ buff_len' = 0
  <2>1. \/ conn_id' = 0 /\ buff_len' = 0
        \/ conn_id' = conn_id /\ buff_len' = buff_len /\ state' # "IPD_ID"
    BY DEF MsgOpChar, Goto, Resume, Skip
  <2>2. conn_id \in 0..(10 * 9 + 9) /\ buff_len \in 0..(10 * BUFF_MAXLEN + 9)
    BY DEF IInv, TypeOK
  <2>3. 0 \in 0..(10 * 9 + 9) /\ 0 \in 0..(10 * BUFF_MAXLEN + 9)
    BY ParserAssumption
  <2> QED
    BY <2>1, <2>2, <2>3, Zenon
<1>5. msg_buff' = <<>>
  BY DEF IInv, PayloadBound, MsgOpChar
<1>6. Numbers'
  <2>1. 0 < ID_MAX
    BY ParserAssumption
  <2> QED
    BY <1>1, <1>4, <2>1 DEF Numbers
<1>7. TypeOK' /\ PayloadBound'
  BY <1>1, <1>2, <1>3, <1>4, <1>5 DEF TypeOK, PayloadBound, ParserState
<1> QED
  BY <1>1, <1>2, <1>6, <1>7 DEF IInv

(* A digit is no separator.                                                 *)
LEMMA SeparatorNoDigit == "comma" \notin Digit /\ ":" \notin Digit
  BY DEF Digit, DigitChar, Range

LEMMA NumberCharIInv == ASSUME IInv, NEW c \in Char, NumberChar(c) PROVE IInv'
<1> USE DEF TO_PERI, CANSEND, WONNA, FROM_PERI
<1> DEFINE isLen == state = "IPD_LEN"
           value == (IF isLen THEN buff_len ELSE conn_id) * 10 + DigitVal(c)
<1>1. /\ state \in {"CONN_ID", "IPD_ID", "IPD_LEN"}
      /\ state' \in {state, "CONN_OP", "IPD_LEN", "IPD_DAT", "CLEAR", "ERROR_CHAR"}
      /\ peri' \in {TO_PERI, CANSEND, WONNA, FROM_PERI}
      /\ LineOwner'
  BY DEF IInv, TypeOK, LineOwner, NumberChar, Goto, Resume, Skip, SkipLine
<1>2. out' \in Msg /\ RecvBound'
  <2>1. out' \in {NoMsg, Report("atc_inval")}
    BY DEF NumberChar
  <2>2. Report("atc_inval") \in Msg /\ Report("atc_inval").type # "atc_conn_recv"
    BY MsgTypes DEF ReportType
  <2> QED
    BY <2>1, <2>2, MsgTypes DEF RecvBound
<1>3. /\ msg_op' = msg_op /\ msg_buff' = msg_buff /\ msg_buff = <<>>
      /\ msg_op \in Seq(Char) /\ Len(msg_op) <= OP_MAXLEN
  BY <1>1 DEF NumberChar, IInv, TypeOK, PayloadBound
<1>4. /\ conn_id \in 0..9 \/ (isLen /\ conn_id \in 0..99)
      /\ buff_len \in 0..BUFF_MAXLEN \/ (~isLen /\ buff_len \in 0..(10 * BUFF_MAXLEN + 9))
      /\ state \in {"IPD_ID", "IPD_LEN"} => conn_id < ID_MAX
      /\ state = "IPD_ID" => buff_len = 0
      /\ state = "CONN_ID" => msg_op = <<>>
  BY <1>1, ParserAssumption DEF IInv, TypeOK, Numbers
<1>5. /\ conn_id' \in 0..(10 * 9 + 9) /\ buff_len' \in 0..(10 * BUFF_MAXLEN + 9)
      /\ Numbers'
      /\ state' = "IPD_DAT" => 0 < buff_len' /\ buff_len' <= BUFF_MAXLEN
  <2>1. CASE c \in Digit
    <3>1. DigitVal(c) \in 0..9
      BY <2>1, DigitValRange
    <3>2. c # "comma" /\ c # ":"
      BY <2>1, SeparatorNoDigit
    <3>3. /\ conn_id' = IF isLen THEN conn_id ELSE value
          /\ buff_len' = IF isLen THEN value ELSE buff_len
          /\ IF InRange(isLen, value) THEN state' = state ELSE state' = "ERROR_CHAR"
      BY <1>1, <2>1, <3>2 DEF NumberChar, Goto, Skip
    <3>4. CASE isLen
      <4>1. conn_id' = conn_id /\ buff_len' = buff_len * 10 + DigitVal(c)
        BY <3>3, <3>4
      <4>2. state' = "IPD_LEN" => buff_len' <= BUFF_MAXLEN
        BY <3>3, <3>4, <4>1 DEF InRange
      <4>3. buff_len' \in 0..(10 * BUFF_MAXLEN + 9)
        BY <1>4, <3>1, <3>4, <4>1, ParserAssumption
      <4>4. state' \in {"IPD_LEN", "ERROR_CHAR"}
        BY <3>3, <3>4
      <4>5. conn_id' \in 0..(10 * 9 + 9) /\ conn_id' < ID_MAX
        BY <1>4, <3>4, <4>1
      <4> QED
        BY <4>2, <4>3, <4>4, <4>5 DEF Numbers
    <3>5. CASE ~isLen
      <4>1. buff_len' = buff_len /\ conn_id' = conn_id * 10 + DigitVal(c)
        BY <3>3, <3>5
      <4>2. state' # "ERROR_CHAR" => conn_id' < ID_MAX
        BY <1>1, <3>3, <3>5, <4>1 DEF InRange
      <4>3. conn_id' \in 0..(10 * 9 + 9)
        <5>1. conn_id \in 0..9
          BY <1>4, <3>5
        <5> HIDE DEF value, isLen
        <5>2. \A a \in 0..9, d \in 0..9 : a * 10 + d \in 0..(10 * 9 + 9)
          OBVIOUS
        <5> QED
          BY <3>1, <4>1, <5>1, <5>2
      <4>4. state' \in {"CONN_ID", "IPD_ID", "ERROR_CHAR"} /\ state' \in {state, "ERROR_CHAR"}
        BY <1>1, <3>3, <3>5
      <4>5. conn_id' < ID_MAX => conn_id' <= 9
        BY <4>3, ParserAssumption
      <4>6. buff_len' \in 0..(10 * BUFF_MAXLEN + 9)
        BY <4>1 DEF IInv, TypeOK
      <4> QED
        BY <1>3, <1>4, <4>1, <4>2, <4>3, <4>4, <4>5, <4>6 DEF Numbers
    <3> QED
      BY <3>4, <3>5
  <2>2. CASE c \notin Digit
    <3>1. conn_id' = conn_id /\ buff_len' = buff_len
      BY <2>2 DEF NumberChar
    <3>2. CASE state = "CONN_ID"
      <4>1. state' \in {"CONN_OP", "CLEAR", "ERROR_CHAR"}
        BY <2>2, <3>2 DEF NumberChar, Goto, Resume, Skip, SkipLine
      <4> QED
        BY <1>3, <1>4, <3>1, <3>2, <4>1 DEF Numbers, IInv, TypeOK
    <3>3. CASE state = "IPD_ID"
      <4>1. state' \in {"IPD_LEN", "CLEAR", "ERROR_CHAR"}
        BY <2>2, <3>3 DEF NumberChar, Goto, Resume, Skip, SkipLine
      <4>2. 0 <= BUFF_MAXLEN
        BY ParserAssumption
      <4> QED
        BY <1>4, <3>1, <3>3, <4>1, <4>2 DEF Numbers, IInv, TypeOK
    <3>4. CASE state = "IPD_LEN"
      <4>1. (state' = "IPD_DAT" /\ buff_len # 0) \/ state' \in {"CLEAR", "ERROR_CHAR"}
        BY <2>2, <3>4 DEF NumberChar, Goto, Resume, Skip, SkipLine
      <4>2. buff_len <= BUFF_MAXLEN /\ conn_id < ID_MAX
        BY <3>4 DEF IInv, Numbers
      <4>3. buff_len # 0 => 0 < buff_len
        BY ParserAssumption DEF IInv, TypeOK
      <4> QED
        BY <3>1, <4>1, <4>2, <4>3 DEF Numbers, IInv, TypeOK
    <3> QED
      BY <1>1, <3>2, <3>3, <3>4
  <2> QED
    BY <2>1, <2>2
<1>6. TypeOK' /\ PayloadBound'
  BY <1>1, <1>2, <1>3, <1>5 DEF TypeOK, PayloadBound, ParserState
<1> QED
  BY <1>1, <1>2, <1>5, <1>6 DEF IInv

LEMMA ConnOpCharIInv == ASSUME IInv, NEW c \in Char, ConnOpChar(c) PROVE IInv'
<1> USE DEF TO_PERI, CANSEND, WONNA, FROM_PERI
<1>1. /\ state = "CONN_OP"
      /\ state' \in {"CONN_OP", "CLEAR", "ERROR_CHAR"}
      /\ peri' \in {TO_PERI, CANSEND, WONNA, FROM_PERI}
      /\ LineOwner'
  BY DEF IInv, TypeOK, LineOwner, ConnOpChar, Goto, Resume, Skip, SkipLine
<1>2. out' \in Msg /\ RecvBound'
  <2>1. out' \in {NoMsg, Report("atc_parse_error"), Accepted(conn_id), Closed(conn_id)}
    BY DEF ConnOpChar
  <2>2. Report("atc_parse_error") \in Msg /\ Report("atc_parse_error").type # "atc_conn_recv"
    BY MsgTypes DEF ReportType
  <2>3. conn_id \in Nat
    BY DEF IInv, TypeOK
  <2> QED
    BY <2>1, <2>2, <2>3, MsgTypes DEF RecvBound
<1>3. conn_id' = conn_id /\ buff_len' = buff_len /\ msg_buff' = msg_buff /\ msg_buff = <<>>
  BY <1>1 DEF ConnOpChar, IInv, PayloadBound
<1>4. msg_op \in Seq(Char) /\ Len(msg_op) <= 8
  BY <1>1 DEF IInv, TypeOK, Numbers
<1>5. msg_op' \in Seq(Char) /\ Len(msg_op') <= 9 /\ (state' = "CONN_OP" => Len(msg_op') <= 8)
  <2>1. CASE c \in Letter
    <3>1. msg_op' = Append(msg_op, c)
      BY <2>1 DEF ConnOpChar
    <3>2. msg_op' \in Seq(Char) /\ Len(msg_op') = Len(msg_op) + 1
      BY <1>4, <3>1
    <3>3. state' = "CONN_OP" => ~(Len(msg_op') >= 9)
      BY <2>1 DEF ConnOpChar, Goto, Resume, Skip
    <3> QED
      BY <1>4, <3>2, <3>3
  <2>2. CASE c \notin Letter
    <3>1. msg_op' = msg_op
      BY <2>2 DEF ConnOpChar
    <3> QED
      BY <1>4, <3>1
  <2> QED
    BY <2>1, <2>2
<1>6. TypeOK'
  BY <1>1, <1>2, <1>3, <1>5, ParserAssumption DEF IInv, TypeOK, ParserState
<1>7. PayloadBound' /\ Numbers'
  BY <1>1, <1>3, <1>5 DEF PayloadBound, IInv, Numbers
<1> QED
  BY <1>1, <1>2, <1>6, <1>7 DEF IInv

LEMMA IpdDatCharIInv == ASSUME IInv, NEW c \in Char, IpdDatChar(c) PROVE IInv'
<1> USE DEF TO_PERI, CANSEND, WONNA, FROM_PERI
<1> DEFINE data == Append(msg_buff, c)
<1>1. /\ state = "IPD_DAT"
      /\ state' \in {"IPD_DAT", "CLEAR"}
      /\ peri' \in {TO_PERI, CANSEND, WONNA, FROM_PERI}
      /\ LineOwner'
  BY DEF IInv, TypeOK, LineOwner, IpdDatChar, Goto, Resume
<1>2. /\ msg_op' = msg_op /\ conn_id' = conn_id /\ buff_len' = buff_len
      /\ conn_id \in Nat /\ conn_id < ID_MAX
      /\ buff_len \in Nat /\ buff_len <= BUFF_MAXLEN
      /\ msg_buff \in Seq(Char) /\ Len(msg_buff) < buff_len
  BY <1>1, ParserAssumption DEF IpdDatChar, IInv, TypeOK, PayloadBound, Numbers
<1>3. data \in Seq(Char) /\ Len(data) = Len(msg_buff) + 1
  BY <1>2
<1>4. CASE Complete(data)
  <2>1. out' = Recv(conn_id, data) /\ msg_buff' = <<>> /\ state' = "CLEAR"
    BY <1>4 DEF IpdDatChar, Resume, Goto
  <2>2. Len(data) \in 1..BUFF_MAXLEN
    BY <1>2, <1>3, <1>4, ParserAssumption DEF Complete
  <2>3. out' \in Msg /\ RecvBound'
    <3> HIDE DEF data
    <3> QED
      BY <1>2, <1>3, <2>1, <2>2, MsgTypes DEF RecvBound
  <2> QED
    BY <1>1, <1>2, <2>1, <2>3 DEF IInv, TypeOK, PayloadBound, Numbers, ParserState
<1>5. CASE ~Complete(data)
  <2>1. out' = NoMsg /\ msg_buff' = data /\ state' = "IPD_DAT"
    BY <1>1, <1>5 DEF IpdDatChar, Goto
  <2>2. Len(data) < buff_len
    BY <1>2, <1>3, <1>5 DEF Complete
  <2>3. out' \in Msg /\ RecvBound'
    BY <2>1, MsgTypes DEF RecvBound
  <2>4. msg_buff' \in Seq(Char) /\ Len(msg_buff') < buff_len
    BY <1>3, <2>1, <2>2
  <2>5. TypeOK'
    BY <1>1, <1>2, <2>1, <2>3, <2>4 DEF IInv, TypeOK, ParserState
  <2>6. PayloadBound' /\ Numbers'
    BY <1>2, <2>1, <2>4 DEF PayloadBound, Numbers
  <2> QED
    BY <1>1, <2>3, <2>5, <2>6 DEF IInv
<1> QED
  BY <1>4, <1>5

LEMMA ErrorCharIInv == ASSUME IInv, NEW c \in Char, ErrorChar(c) PROVE IInv'
<1> USE DEF TO_PERI, CANSEND, WONNA, FROM_PERI
<1>1. /\ state' \in {"CLEAR", "ERROR_CHAR"}
      /\ peri' \in {TO_PERI, CANSEND, WONNA, FROM_PERI}
      /\ LineOwner'
  BY DEF IInv, TypeOK, LineOwner, ErrorChar, Goto, Resume, Skip, SkipLine
<1>2. out' \in Msg /\ RecvBound'
  BY MsgTypes DEF ErrorChar, RecvBound
<1>3. UNCHANGED <<msg_op, conn_id, buff_len, msg_buff>> /\ msg_buff = <<>>
  BY DEF ErrorChar, IInv, PayloadBound
<1> QED
  BY <1>1, <1>2, <1>3 DEF IInv, TypeOK, PayloadBound, Numbers, ParserState

LEMMA ConsumeReadyIInv == ASSUME IInv, ConsumeReady PROVE IInv'
<1> USE DEF TO_PERI, CANSEND, WONNA, FROM_PERI
<1>1. UNCHANGED <<state, msg_op, conn_id, buff_len, msg_buff, out>> /\ peri' = TO_PERI
  BY DEF ConsumeReady
<1>2. LineOwner'
  BY <1>1 DEF ConsumeReady, IInv, LineOwner
<1> QED
  BY <1>1, <1>2 DEF IInv, TypeOK, PayloadBound, RecvBound, Numbers

(* The invariant is inductive. *)
LEMMA NextIInv == IInv /\ [Next]_parserVars => IInv'
<1> SUFFICES ASSUME IInv, [Next]_parserVars PROVE IInv'
  OBVIOUS
<1>1. ASSUME NEW c \in Char, ParseChar(c) PROVE IInv'
  BY <1>1, ClearCharIInv, MsgOpCharIInv, NumberCharIInv, ConnOpCharIInv,
     IpdDatCharIInv, ErrorCharIInv DEF ParseChar
<1>2. CASE ConsumeReady
  BY <1>2, ConsumeReadyIInv
<1>3. CASE UNCHANGED parserVars
  BY <1>3 DEF parserVars, IInv, TypeOK, LineOwner, PayloadBound, RecvBound, Numbers
<1> QED
  BY <1>1, <1>2, <1>3 DEF Next

LEMMA SpecIInv == Spec => []IInv
<1> QED
  BY InitIInv, NextIInv, PTL DEF Spec

-----------------------------------------------------------------------------
(* Every variable keeps its type; no number leaves its uint16_t, whatever   *)
(* the modem sends (parser.c:204 claims so).                                *)
THEOREM TypeCorrect == Spec => []TypeOK
<1>1. IInv => TypeOK
  BY DEF IInv
<1> QED
  BY <1>1, SpecIInv, PTL

(* The executor is never offered the line while a message is being read     *)
(* (parser.c:105-314, exec.c:222 and 237).                                  *)
THEOREM LineOwnership == Spec => []LineOwner
<1>1. IInv => LineOwner
  BY DEF IInv
<1> QED
  BY <1>1, SpecIInv, PTL

(* The payload in the making never reaches past the announced length, nor   *)
(* past BUFF_MAXLEN (parser.c:276-294).                                     *)
THEOREM PayloadBounded == Spec => []PayloadBound
<1>1. IInv => PayloadBound
  BY DEF IInv
<1> QED
  BY <1>1, SpecIInv, PTL

(* Delivered data is never empty, never longer than BUFF_MAXLEN, and names  *)
(* an existing connection slot (parser.c:200-294).                          *)
THEOREM DeliveryBounded == Spec => []RecvBound
<1>1. IInv => RecvBound
  BY DEF IInv
<1> QED
  BY <1>1, SpecIInv, PTL

-----------------------------------------------------------------------------
(* How far the parser is inside a message when a - 1 of its bytes have been *)
(* parsed: a line, a connection report op of connection i, a payload d.     *)
InLine(t, a) ==
    /\ a <= 3 \/ a = Len(t) + 4 => state = "CLEAR"
    /\ a \in 4..(Len(t) + 3) => \/ state = "MSG_OP" /\ msg_op = SubSeq(t, 1, a - 3)
                                \/ state = "ERROR_CHAR" /\ ~Matters(LineMsg(t))

InNotice(i, op, a) ==
    /\ a = 1 \/ a >= Len(op) + 3 => state = "CLEAR"
    /\ a = 2 => state = "CONN_ID" /\ conn_id = i
    /\ a \in 3..(Len(op) + 2) =>
          state = "CONN_OP" /\ conn_id = i /\ msg_op = SubSeq(op, 1, a - 3)

(* The number read when k digits of n have been parsed. *)
Value(n, k) == IF k = 0 THEN 0 ELSE Leading(n, k)
Header(d)   == 10 + Width(Len(d))

InData(i, d, a) ==
    /\ a <= 3 => state = "CLEAR"
    /\ a \in 4..7 => state = "MSG_OP" /\ msg_op = SubSeq(IpdOp, 1, a - 3)
    /\ a = 8 => state = "IPD_ID" /\ conn_id = 0 /\ buff_len = 0
    /\ a = 9 => state = "IPD_ID" /\ conn_id = i /\ buff_len = 0
    /\ a \in 10..Header(d) =>
          state = "IPD_LEN" /\ conn_id = i /\ buff_len = Value(Len(d), a - 10)
    /\ a \in (Header(d) + 1)..(Header(d) + Len(d)) =>
          /\ state = "IPD_DAT" /\ conn_id = i /\ buff_len = Len(d)
          /\ msg_buff = SubSeq(d, 1, a - Header(d) - 1)

Inside(m, a) ==
    /\ m.kind = "line"    => InLine(m.text, a)
    /\ m.kind = "prompt"  => state = "CLEAR"
    /\ m.kind = "connect" => InNotice(m.id, ConnectOp, a)
    /\ m.kind = "closed"  => InNotice(m.id, ClosedOp, a)
    /\ m.kind = "ipd"     => InData(m.id, m.data, a)

(* The byte of a message at which it is reported. *)
EmitAt(m) == CASE m.kind = "line"    -> Len(m.text) + 3
               [] m.kind = "prompt"  -> 2
               [] m.kind = "connect" -> Len(ConnectOp) + 2
               [] m.kind = "closed"  -> Len(ClosedOp) + 2
               [] m.kind = "ipd"     -> Header(m.data) + Len(m.data)

-----------------------------------------------------------------------------
(* A byte is in one lexical class only. *)
Punctuation == {"+", "comma", ":", ">"}
LEMMA ClassesApart ==
    /\ Letter \cap (Digit \cup Newline \cup Space \cup Punctuation \cup Junk) = {}
    /\ Digit \cap (Newline \cup Space \cup Punctuation \cup Junk) = {}
    /\ Newline \cap (Space \cup Punctuation \cup Junk) = {}
    /\ Space \cap (Punctuation \cup Junk) = {}
    /\ Punctuation \cap Junk = {}
<1>1. Digit = {"0","1","2","3","4","5","6","7","8","9"}
  BY DEF Digit, DigitChar, Range
<1>2. Junk \cap (Letter \cup Digit \cup Newline \cup Space \cup Punctuation) = {}
  BY WireAssumption DEF Punctuation
<1>3. Letter \cap Digit = {}
  BY <1>1 DEF Letter
<1>4. Letter \cap (Newline \cup Space \cup Punctuation) = {}
  BY DEF Letter, Newline, Space, Punctuation
<1>5. Digit \cap (Newline \cup Space \cup Punctuation) = {}
  BY <1>1 DEF Newline, Space, Punctuation
<1>6. Newline \cap (Space \cup Punctuation) = {} /\ Space \cap Punctuation = {}
  BY DEF Newline, Space, Punctuation
<1> QED
  BY <1>2, <1>3, <1>4, <1>5, <1>6

(* What a byte does to the parser between two messages. *)
LEMMA ClearReads ==
    ASSUME state = "CLEAR", NEW c \in Char, ParseChar(c)
    PROVE  /\ out' = NoMsg
           /\ c \in Newline \cup Space \cup {">"} => state' = "CLEAR"
           /\ c \in Digit => state' = "CONN_ID" /\ conn_id' = DigitVal(c) /\ msg_op' = <<>>
           /\ c \in Letter \cup {"+"} => state' = "MSG_OP" /\ msg_op' = <<c>>
<1>1. ClearChar(c)
  BY DEF ParseChar, MsgOpChar, NumberChar, ConnOpChar, IpdDatChar, ErrorChar
<1>2. ASSUME c \in Newline \cup Space \cup {">"} PROVE state' = "CLEAR"
  <2>1. c \notin Digit /\ c \notin Letter \cup {"+"} /\ c \notin Junk \cup {"comma", ":"}
    BY <1>2, ClassesApart DEF Punctuation
  <2> QED
    BY <1>1, <2>1 DEF ClearChar, Goto
<1>3. ASSUME c \in Digit PROVE state' = "CONN_ID" /\ conn_id' = DigitVal(c) /\ msg_op' = <<>>
  <2>1. c \notin Newline \cup Space /\ c # ">" /\ c \notin Letter \cup {"+"}
        /\ c \notin Junk \cup {"comma", ":"}
    BY <1>3, ClassesApart DEF Punctuation
  <2> QED
    BY <1>1, <2>1 DEF ClearChar, Goto
<1>4. ASSUME c \in Letter \cup {"+"} PROVE state' = "MSG_OP" /\ msg_op' = <<c>>
  <2>1. c \notin Newline \cup Space /\ c # ">" /\ c \notin Digit
        /\ c \notin Junk \cup {"comma", ":"}
    BY <1>4, ClassesApart DEF Punctuation
  <2> QED
    BY <1>1, <2>1 DEF ClearChar, Goto
<1>5. out' = NoMsg
  BY <1>1 DEF ClearChar
<1> QED
  BY <1>2, <1>3, <1>4, <1>5

(* Inside a line. *)
LEMMA OpReads ==
    ASSUME state = "MSG_OP", NEW c \in Char, ParseChar(c)
    PROVE  /\ c = "comma" /\ msg_op = IpdOp =>
                state' = "IPD_ID" /\ conn_id' = 0 /\ buff_len' = 0 /\ out' = NoMsg
           /\ c \in Letter \cup Space /\ OpFits =>
                state' = "MSG_OP" /\ msg_op' = Append(msg_op, c) /\ out' = NoMsg
           /\ c \in Newline => state' = "CLEAR" /\ out' = LineMsg(msg_op)
           /\ (c \notin Newline /\ ~(c = "comma" /\ msg_op = IpdOp)
               /\ ~(c \in Letter \cup Space /\ OpFits)) =>
                state' = "ERROR_CHAR" /\ out' = Report("atc_parse_error")
<1>1. MsgOpChar(c)
  BY DEF ParseChar, ClearChar, NumberChar, ConnOpChar, IpdDatChar, ErrorChar
<1>2. /\ "comma" \notin Letter \cup Space /\ "comma" \notin Newline
      /\ "comma" \notin Digit \cup Junk \cup {"+", ":", ">"}
  BY ClassesApart DEF Punctuation
<1>3. ASSUME c \in Letter \cup Space
      PROVE  c # "comma" /\ c \notin Newline /\ c \notin Digit \cup Junk \cup {"+", ":", ">"}
  BY <1>3, ClassesApart DEF Punctuation
<1>4. ASSUME c \in Newline
      PROVE  /\ c # "comma" /\ c \notin Letter \cup Space
             /\ c \notin Digit \cup Junk \cup {"+", ":", ">"}
  BY <1>4, ClassesApart DEF Punctuation
<1>5. CASE c = "comma"
  BY <1>1, <1>2, <1>5 DEF MsgOpChar, Goto, Skip
<1>6. CASE c \in Letter \cup Space
  BY <1>1, <1>3, <1>6 DEF MsgOpChar, Goto, Skip
<1>7. CASE c \in Newline
  BY <1>1, <1>4, <1>7 DEF MsgOpChar, Goto, Resume
<1>8. CASE c # "comma" /\ c \notin Letter \cup Space /\ c \notin Newline
  BY <1>1, <1>8 DEF MsgOpChar, Goto, Skip
<1> QED
  BY <1>5, <1>6, <1>7, <1>8

(* Inside a number: a digit, and what ends the number. *)
LEMMA NumberReads ==
    ASSUME state \in {"CONN_ID", "IPD_ID", "IPD_LEN"}, NEW c \in Char, ParseChar(c)
    PROVE  /\ ~Matters(out')
           /\ (c \in Digit /\ state = "IPD_ID" /\ conn_id * 10 + DigitVal(c) < ID_MAX) =>
                /\ state' = "IPD_ID" /\ buff_len' = buff_len
                /\ conn_id' = conn_id * 10 + DigitVal(c)
           /\ (c \in Digit /\ state = "IPD_LEN" /\ buff_len * 10 + DigitVal(c) <= BUFF_MAXLEN) =>
                /\ state' = "IPD_LEN" /\ conn_id' = conn_id
                /\ buff_len' = buff_len * 10 + DigitVal(c)
           /\ c = "comma" /\ state # "IPD_LEN" =>
                /\ state' = IF state = "CONN_ID" THEN "CONN_OP" ELSE "IPD_LEN"
                /\ UNCHANGED <<conn_id, buff_len>>
           /\ c = ":" /\ state = "IPD_LEN" /\ buff_len # 0 =>
                state' = "IPD_DAT" /\ UNCHANGED <<conn_id, buff_len>>
           /\ UNCHANGED <<msg_op, msg_buff>>
<1>1. NumberChar(c)
  BY DEF ParseChar, ClearChar, MsgOpChar, ConnOpChar, IpdDatChar, ErrorChar
<1>2. "comma" \notin Digit /\ ":" \notin Digit
  BY SeparatorNoDigit
<1>3. out' \in {NoMsg, Report("atc_inval")}
  BY <1>1 DEF NumberChar
<1>4. ~Matters(out')
  BY <1>3 DEF NoMsg, Report, Matters
<1>5. ASSUME c \in Digit, state = "IPD_ID", conn_id * 10 + DigitVal(c) < ID_MAX
      PROVE  /\ state' = "IPD_ID" /\ buff_len' = buff_len
             /\ conn_id' = conn_id * 10 + DigitVal(c)
  BY <1>1, <1>2, <1>5 DEF NumberChar, Goto, InRange
<1>6. ASSUME c \in Digit, state = "IPD_LEN", buff_len * 10 + DigitVal(c) <= BUFF_MAXLEN
      PROVE  /\ state' = "IPD_LEN" /\ conn_id' = conn_id
             /\ buff_len' = buff_len * 10 + DigitVal(c)
  BY <1>1, <1>2, <1>6 DEF NumberChar, Goto, InRange
<1>7. ASSUME c = "comma", state # "IPD_LEN"
      PROVE  /\ state' = IF state = "CONN_ID" THEN "CONN_OP" ELSE "IPD_LEN"
             /\ UNCHANGED <<conn_id, buff_len>>
  BY <1>1, <1>2, <1>7 DEF NumberChar, Goto
<1>8. ASSUME c = ":", state = "IPD_LEN", buff_len # 0
      PROVE  state' = "IPD_DAT" /\ UNCHANGED <<conn_id, buff_len>>
  BY <1>1, <1>2, <1>8 DEF NumberChar, Goto
<1>9. UNCHANGED <<msg_op, msg_buff>>
  BY <1>1 DEF NumberChar
<1> QED
  BY <1>4, <1>5, <1>6, <1>7, <1>8, <1>9

(* Inside the word of a connection report. *)
LEMMA ConnOpReads ==
    ASSUME state = "CONN_OP", NEW c \in Letter, ParseChar(c), c \in Char
    PROVE  LET op == Append(msg_op, c) IN
           /\ op = ConnectOp => state' = "CLEAR" /\ out' = Accepted(conn_id)
           /\ op = ClosedOp => state' = "CLEAR" /\ out' = Closed(conn_id)
           /\ op \notin {ConnectOp, ClosedOp} /\ Len(op) < 9 /\ Len(op) \in Nat =>
                /\ state' = "CONN_OP" /\ out' = NoMsg
                /\ msg_op' = op /\ conn_id' = conn_id
<1>1. ConnOpChar(c)
  BY DEF ParseChar, ClearChar, NumberChar, MsgOpChar, IpdDatChar, ErrorChar
<1>2. msg_op' = Append(msg_op, c)
  BY <1>1 DEF ConnOpChar
<1>3. ConnectOp # ClosedOp
  BY DEF ConnectOp, ClosedOp
<1>4. conn_id' = conn_id
  BY <1>1 DEF ConnOpChar
<1>5. msg_op' = ConnectOp => state' = "CLEAR" /\ out' = Accepted(conn_id)
  BY <1>1, <1>3 DEF ConnOpChar, Resume, Goto
<1>6. msg_op' = ClosedOp => state' = "CLEAR" /\ out' = Closed(conn_id)
  BY <1>1, <1>3 DEF ConnOpChar, Resume, Goto
<1>7. (msg_op' \notin {ConnectOp, ClosedOp} /\ Len(msg_op') < 9 /\ Len(msg_op') \in Nat) =>
          state' = "CONN_OP" /\ out' = NoMsg
  BY <1>1 DEF ConnOpChar, Goto
<1> QED
  BY <1>2, <1>4, <1>5, <1>6, <1>7

(* Inside a payload. *)
LEMMA DataReads ==
    ASSUME state = "IPD_DAT", NEW c \in Char, ParseChar(c)
    PROVE  LET d == Append(msg_buff, c) IN
           /\ Len(d) = buff_len => state' = "CLEAR" /\ out' = Recv(conn_id, d)
           /\ Len(d) # buff_len => state' = "IPD_DAT" /\ out' = NoMsg /\ msg_buff' = d
           /\ UNCHANGED <<conn_id, buff_len>>
<1>1. IpdDatChar(c)
  BY DEF ParseChar, ClearChar, NumberChar, ConnOpChar, MsgOpChar, ErrorChar
<1> QED
  BY <1>1 DEF IpdDatChar, Complete, Goto, Resume

(* After an error. *)
LEMMA ErrorReads ==
    ASSUME state = "ERROR_CHAR", NEW c \in Char, ParseChar(c)
    PROVE  /\ out' = NoMsg
           /\ c \in Newline => state' = "CLEAR"
           /\ c \notin Newline => state' = "ERROR_CHAR"
<1>1. ErrorChar(c)
  BY DEF ParseChar, ClearChar, NumberChar, ConnOpChar, MsgOpChar, IpdDatChar
<1> QED
  BY <1>1 DEF ErrorChar, SkipLine, Skip, Resume, Goto

-----------------------------------------------------------------------------
(* A line that matters is short and made of letters and blanks.             *)
LEMMA KnownLines ==
    ASSUME NEW t, Matters(LineMsg(t))
    PROVE  Len(t) <= 9 /\ \A k \in 1..Len(t) : t[k] \in Letter \cup Space
<1> DEFINE w == CHOOSE x \in DOMAIN Keyword : Keyword[x] = t
<1>1. ~Matters(NoMsg) /\ ~Matters(Report("atc_busy")) /\ ~Matters(Report("atc_parse_error"))
  BY DEF Matters, NoMsg, Report
<1>2. (\E x \in DOMAIN Keyword : Keyword[x] = t) /\ LineMsg(t) = Report(w)
  BY <1>1 DEF LineMsg
<1>3. w \in DOMAIN Keyword /\ Keyword[w] = t
  BY <1>2
<1> HIDE DEF w
<1>4. w \in {"atc_ok", "atc_error", "atc_send_ok", "atc_send_fail"}
  <2>1. DOMAIN Keyword = {"atc_ok", "atc_error", "atc_send_ok", "atc_send_fail", "atc_ready",
                          "atc_wifi_connected", "atc_wifi_disconnect", "atc_wifi_got_ip"}
    BY DEF Keyword
  <2>2. Report(w).type = w
    BY DEF Report
  <2> QED
    BY <1>2, <1>3, <2>1, <2>2 DEF Matters
<1>5. t \in {<<"O","K">>, <<"E","R","R","O","R">>, <<"S","E","N","D","blank","O","K">>,
             <<"S","E","N","D","blank","F","A","I","L">>}
  <2>1. /\ Keyword["atc_ok"] = <<"O","K">> /\ Keyword["atc_error"] = <<"E","R","R","O","R">>
        /\ Keyword["atc_send_ok"] = <<"S","E","N","D","blank","O","K">>
        /\ Keyword["atc_send_fail"] = <<"S","E","N","D","blank","F","A","I","L">>
    BY DEF Keyword
  <2> QED
    BY <1>3, <1>4, <2>1, Zenon
<1>6. {"O","K","E","R","S","N","D","F","A","I","L","blank"} \subseteq Letter \cup Space
  BY DEF Letter, Space
<1> HIDE DEF w
<1>7. CASE t = <<"O","K">>
  BY <1>6, <1>7
<1>8. CASE t = <<"E","R","R","O","R">>
  BY <1>6, <1>8
<1>9. CASE t = <<"S","E","N","D","blank","O","K">>
  BY <1>6, <1>9
<1>10. CASE t = <<"S","E","N","D","blank","F","A","I","L">>
  BY <1>6, <1>10
<1> QED
  BY <1>5, <1>7, <1>8, <1>9, <1>10

(* The parser is a byte further in message m, and reports it where it must. *)
Reads(m, a) ==
    /\ a < Len(Encode(m)) => Inside(m, a + 1)'
    /\ a = Len(Encode(m)) => state' = "CLEAR"
    /\ Matters(out') <=> (a = EmitAt(m) /\ Matters(Meaning(m)))
    /\ Matters(out') => out' = Meaning(m)

LEMMA NoMatter == ~Matters(NoMsg) /\ ~Matters(Report("atc_parse_error"))
  BY DEF Matters, NoMsg, Report

LEMMA FirstOne ==
    ASSUME NEW S, NEW s \in Seq(S), s # <<>> PROVE SubSeq(s, 1, 1) = <<s[1]>>
<1> DEFINE u == SubSeq(s, 1, 1)
           v == <<s[1]>>
<1>1. u \in Seq(S) /\ Len(u) = 1 /\ u[1] = s[1]
  OBVIOUS
<1>2. v \in Seq(S) /\ Len(v) = 1 /\ v[1] = s[1]
  OBVIOUS
<1> HIDE DEF u, v
<1>3. u = v
  BY <1>1, <1>2, SeqEqual
<1> QED
  BY <1>3 DEF u, v

LEMMA LineBytes ==
    ASSUME NEW m, m.kind = "line", m.text \in Seq(Char)
    PROVE  /\ Encode(m) \in Seq(Char) /\ Len(Encode(m)) = Len(m.text) + 4
           /\ Encode(m)[1] = "cr" /\ Encode(m)[2] = "lf"
           /\ \A a \in 3..(Len(m.text) + 2) : Encode(m)[a] = m.text[a - 2]
           /\ Encode(m)[Len(m.text) + 3] = "cr" /\ Encode(m)[Len(m.text) + 4] = "lf"
<1>1. Encode(m) = <<"cr", "lf">> \o m.text \o <<"cr", "lf">>
  BY DEF Encode, CrLf
<1>2. "cr" \in Char /\ "lf" \in Char
  BY DEF Char, Newline
<1> QED
  BY <1>1, <1>2

LEMMA LineReads ==
    ASSUME IInv, NEW m, m.kind = "line", Sayable(m),
           NEW a \in 1..Len(Encode(m)), Inside(m, a), ParseChar(Encode(m)[a])
    PROVE  Reads(m, a)
<1> DEFINE t == m.text
<1>1. /\ t \in Seq(Char \ Newline) /\ t \in Seq(Char) /\ t # <<>> /\ t[1] \in Letter
      /\ Len(t) \in Nat \ {0}
  BY DEF Sayable
<1>2. /\ Meaning(m) = LineMsg(t) /\ EmitAt(m) = Len(t) + 3
      /\ InLine(t, a) /\ (Inside(m, a + 1)' <=> InLine(t, a + 1)')
  BY DEF Meaning, EmitAt, Inside
<1>3. /\ Encode(m) \in Seq(Char) /\ Len(Encode(m)) = Len(t) + 4
      /\ Encode(m)[1] = "cr" /\ Encode(m)[2] = "lf"
      /\ \A x \in 3..(Len(t) + 2) : Encode(m)[x] = t[x - 2]
      /\ Encode(m)[Len(t) + 3] = "cr" /\ Encode(m)[Len(t) + 4] = "lf"
  BY <1>1, LineBytes
<1>4. "cr" \in Newline /\ "lf" \in Newline
  BY DEF Newline
<1>5. Encode(m)[a] \in Char
  BY <1>3
<1> HIDE DEF t
<1>6. CASE a \in {1, 2, Len(t) + 4}
  <2>1. state = "CLEAR" /\ Encode(m)[a] \in Newline
    BY <1>1, <1>2, <1>3, <1>4, <1>6 DEF InLine
  <2>2. state' = "CLEAR" /\ out' = NoMsg
    BY <2>1, <1>5, ClearReads
  <2>3. a # Len(t) + 3
    BY <1>1, <1>6
  <2>4. a < Len(Encode(m)) => InLine(t, a + 1)'
    BY <1>1, <1>3, <1>6, <2>2 DEF InLine
  <2> QED
    BY <1>2, <2>2, <2>3, <2>4, NoMatter DEF Reads
<1>7. CASE a = 3
  <2>1. state = "CLEAR" /\ Encode(m)[a] = t[1]
    BY <1>1, <1>2, <1>3, <1>7 DEF InLine
  <2>2. state' = "MSG_OP" /\ msg_op' = <<t[1]>> /\ out' = NoMsg
    BY <2>1, <1>1, <1>5, ClearReads
  <2>3. SubSeq(t, 1, 1) = <<t[1]>>
    BY <1>1, FirstOne
  <2>4. InLine(t, a + 1)'
    BY <1>1, <1>7, <2>2, <2>3 DEF InLine
  <2> QED
    BY <1>1, <1>2, <1>3, <1>7, <2>2, <2>4, NoMatter DEF Reads
<1>8. CASE a \in 4..(Len(t) + 2)
  <2> DEFINE c == Encode(m)[a]
  <2>1. c = t[a - 2] /\ c \in Char \ Newline /\ a - 2 \in 1..Len(t)
    BY <1>1, <1>3, <1>8
  <2>2. a + 1 \in 4..(Len(t) + 3) /\ ~(a + 1 <= 3) /\ a + 1 # Len(t) + 4
    BY <1>1, <1>8
  <2>3. CASE state = "ERROR_CHAR" /\ ~Matters(LineMsg(t))
    <3>1. state' = "ERROR_CHAR" /\ out' = NoMsg
      BY <2>1, <2>3, <1>5, ErrorReads
    <3>2. InLine(t, a + 1)'
      BY <2>2, <2>3, <3>1 DEF InLine
    <3> QED
      BY <1>1, <1>2, <1>3, <1>8, <3>1, <3>2, NoMatter DEF Reads
  <2>4. CASE state = "MSG_OP" /\ msg_op = SubSeq(t, 1, a - 3)
    <3>1. a - 3 \in 1..Len(t)
      BY <1>1, <1>8
    <3>2. msg_op[1] = t[1] /\ Len(msg_op) = a - 3
      BY <1>1, <2>4, <3>1
    <3>3. msg_op # IpdOp
      <4>1. IpdOp[1] = "+"
        BY DEF IpdOp
      <4>2. "+" \notin Letter
        BY DEF Letter
      <4> QED
        BY <1>1, <3>2, <4>1, <4>2
    <3>4. CASE c \in Letter \cup Space /\ OpFits
      <4>1. state' = "MSG_OP" /\ msg_op' = Append(msg_op, c) /\ out' = NoMsg
        BY <2>4, <3>4, <1>5, OpReads
      <4>2. Append(SubSeq(t, 1, a - 3), t[a - 2]) = SubSeq(t, 1, a - 2)
        BY <1>1, <2>1, <3>1
      <4>3. InLine(t, a + 1)'
        BY <2>1, <2>2, <2>4, <4>1, <4>2, <1>8 DEF InLine
      <4> QED
        BY <1>1, <1>2, <1>3, <1>8, <4>1, <4>3, NoMatter DEF Reads
    <3>5. CASE ~(c \in Letter \cup Space /\ OpFits)
      <4>1. state' = "ERROR_CHAR" /\ out' = Report("atc_parse_error")
        BY <2>1, <2>4, <3>3, <3>5, <1>5, OpReads
      <4>2. ~Matters(LineMsg(t))
        <5>1. SUFFICES ASSUME Matters(LineMsg(t)) PROVE FALSE
          OBVIOUS
        <5>2. Len(t) <= 9 /\ t[a - 2] \in Letter \cup Space
          BY <2>1, <5>1, KnownLines
        <5>3. OpFits
          BY <3>2, <5>2, <2>1, <1>1, <1>8, ParserAssumption DEF OpFits
        <5> QED
          BY <5>2, <5>3, <2>1, <3>5
      <4>3. InLine(t, a + 1)'
        BY <2>2, <4>1, <4>2 DEF InLine
      <4> QED
        BY <1>1, <1>2, <1>3, <1>8, <4>1, <4>3, NoMatter DEF Reads
    <3> QED
      BY <3>4, <3>5
  <2> QED
    BY <2>3, <2>4, <1>1, <1>2, <1>8 DEF InLine
<1>9. CASE a = Len(t) + 3
  <2>1. Encode(m)[a] \in Newline
    BY <1>3, <1>4, <1>9
  <2>2. a \in 4..(Len(t) + 3) /\ SubSeq(t, 1, a - 3) = t
    BY <1>1, <1>9
  <2>3. /\ state' = "CLEAR"
        /\ out' = LineMsg(t) \/ (out' = NoMsg /\ ~Matters(LineMsg(t)))
    <3>1. CASE state = "MSG_OP" /\ msg_op = t
      BY <2>1, <3>1, <1>5, OpReads
    <3>2. CASE state = "ERROR_CHAR" /\ ~Matters(LineMsg(t))
      BY <2>1, <3>2, <1>5, ErrorReads
    <3> QED
      BY <2>2, <3>1, <3>2, <1>2 DEF InLine
  <2>4. InLine(t, a + 1)'
    BY <1>1, <1>9, <2>3 DEF InLine
  <2> QED
    BY <1>1, <1>2, <1>3, <1>9, <2>3, <2>4, NoMatter DEF Reads
<1> QED
  BY <1>1, <1>3, <1>6, <1>7, <1>8, <1>9

-----------------------------------------------------------------------------
(* The digits of a number, and what the parser makes of them.               *)
LEMMA DigitOf == ASSUME NEW d \in 0..9
                 PROVE  DigitChar[d + 1] \in Digit /\ DigitVal(DigitChar[d + 1]) = d
<1>1. \A i, j \in 1..10 : DigitChar[i] = DigitChar[j] => i = j
  BY DEF DigitChar
<1>2. DOMAIN DigitChar = 1..10
  BY DEF DigitChar
<1>3. d + 1 \in 1..10
  OBVIOUS
<1>4. (CHOOSE i \in 1..10 : DigitChar[i] = DigitChar[d + 1]) = d + 1
  BY <1>1, <1>3
<1>5. DigitVal(DigitChar[d + 1]) = d
  <2> DEFINE x == CHOOSE i \in 1..10 : DigitChar[i] = DigitChar[d + 1]
  <2>1. DigitVal(DigitChar[d + 1]) = x - 1
    BY DEF DigitVal
  <2>2. x = d + 1
    BY <1>4
  <2> HIDE DEF x
  <2> QED
    BY <2>1, <2>2
<1>6. DigitChar[d + 1] \in Digit
  BY <1>2, <1>3 DEF Digit, Range
<1> QED
  BY <1>5, <1>6

LEMMA WidthRange == ASSUME NEW n \in Nat, n < 10000 PROVE Width(n) \in 1..4 /\ (n < 10 => Width(n) = 1)
  BY DEF Width

LEMMA Leads ==
    ASSUME NEW n \in Nat, n < 10000
    PROVE  /\ Width(n) = 1 => Leading(n, 1) = n
           /\ Width(n) = 2 => Leading(n, 1) = n \div 10 /\ Leading(n, 2) = n
           /\ Width(n) = 3 => /\ Leading(n, 1) = n \div 100 /\ Leading(n, 2) = n \div 10
                              /\ Leading(n, 3) = n
           /\ Width(n) = 4 => /\ Leading(n, 1) = n \div 1000 /\ Leading(n, 2) = n \div 100
                              /\ Leading(n, 3) = n \div 10 /\ Leading(n, 4) = n
<1>1. n \div 1 = n
  OBVIOUS
<1>2. Width(n) = 1 => Leading(n, 1) = n
  BY <1>1 DEF Leading
<1>3. Width(n) = 2 => Leading(n, 1) = n \div 10 /\ Leading(n, 2) = n
  BY <1>1 DEF Leading
<1>4. Width(n) = 3 => /\ Leading(n, 1) = n \div 100 /\ Leading(n, 2) = n \div 10
                      /\ Leading(n, 3) = n
  BY <1>1 DEF Leading
<1>5. Width(n) = 4 => /\ Leading(n, 1) = n \div 1000 /\ Leading(n, 2) = n \div 100
                      /\ Leading(n, 3) = n \div 10 /\ Leading(n, 4) = n
  BY <1>1 DEF Leading
<1> QED
  BY <1>2, <1>3, <1>4, <1>5

LEMMA ValueGrows ==
    ASSUME NEW n \in Nat, n < 10000, NEW k \in 1..Width(n)
    PROVE  /\ Leading(n, k) % 10 \in 0..9
           /\ Value(n, k) = Value(n, k - 1) * 10 + (Leading(n, k) % 10)
           /\ Value(n, k) <= n /\ Value(n, k) \in Nat
           /\ k = Width(n) => Value(n, k) = n
<1> DEFINE L(j) == Leading(n, j)
<1>1. /\ n < 10 => Width(n) = 1
      /\ n < 100 /\ n >= 10 => Width(n) = 2
      /\ n < 1000 /\ n >= 100 => Width(n) = 3
      /\ n >= 1000 => Width(n) = 4
  BY DEF Width
<1>2. Value(n, k) = L(k) /\ Value(n, k - 1) = IF k = 1 THEN 0 ELSE L(k - 1)
  <2>1. k # 0 /\ (k - 1 = 0 <=> k = 1)
    BY WidthRange
  <2> QED
    BY <2>1 DEF Value
<1>3. \A x \in 0..9 : x % 10 = x
  OBVIOUS
<1>4. \A x \in Nat : x % 10 \in 0..9 /\ x = (x \div 10) * 10 + (x % 10)
                     /\ x \div 10 <= x /\ x \div 10 \in Nat
  OBVIOUS
<1>5. /\ n \div 100 = (n \div 10) \div 10 /\ n \div 1000 = (n \div 100) \div 10
      /\ n \div 10 \in Nat /\ n \div 100 \in Nat /\ n \div 1000 \in Nat
      /\ n \div 10 <= n /\ n \div 100 <= n /\ n \div 1000 <= n
      /\ (n < 100 => n \div 10 \in 0..9) /\ (n < 1000 => n \div 100 \in 0..9)
      /\ n \div 1000 \in 0..9
  <2>1. n \div 100 = (n \div 10) \div 10
    OBVIOUS
  <2>2. n \div 1000 = (n \div 100) \div 10
    OBVIOUS
  <2>3. /\ n \div 10 \in Nat /\ n \div 100 \in Nat /\ n \div 1000 \in Nat
        /\ n \div 10 <= n /\ n \div 100 <= n /\ n \div 1000 <= n
    OBVIOUS
  <2>4. /\ (n < 100 => n \div 10 \in 0..9) /\ (n < 1000 => n \div 100 \in 0..9)
        /\ n \div 1000 \in 0..9
    OBVIOUS
  <2> QED
    BY <2>1, <2>2, <2>3, <2>4
<1> HIDE DEF L
<1>6. CASE Width(n) = 1
  <2>1. n \in 0..9 /\ L(1) = n /\ k = 1
    BY <1>1, <1>6, Leads DEF L
  <2> QED
    BY <2>1, <1>2, <1>3, <1>6 DEF L
<1>7. CASE Width(n) = 2
  <2>1. n < 100 /\ L(1) = n \div 10 /\ L(2) = n /\ k \in {1, 2}
    BY <1>1, <1>7, Leads DEF L
  <2>2. CASE k = 1
    <3>1. L(1) \in 0..9 /\ L(1) <= n
      BY <2>1, <1>4, <1>5
    <3> QED
      BY <2>1, <2>2, <3>1, <1>2, <1>3, <1>7 DEF L
  <2>3. CASE k = 2
    BY <2>1, <2>3, <1>2, <1>4, <1>7 DEF L
  <2> QED
    BY <2>1, <2>2, <2>3
<1>8. CASE Width(n) = 3
  <2>1. n < 1000 /\ L(1) = n \div 100 /\ L(2) = n \div 10 /\ L(3) = n /\ k \in {1, 2, 3}
    BY <1>1, <1>8, Leads DEF L
  <2>2. CASE k = 1
    <3>1. L(1) \in 0..9 /\ L(1) <= n
      BY <2>1, <1>4, <1>5
    <3> QED
      BY <2>1, <2>2, <3>1, <1>2, <1>3, <1>8 DEF L
  <2>3. CASE k = 2
    BY <2>1, <2>3, <1>2, <1>4, <1>5, <1>8 DEF L
  <2>4. CASE k = 3
    BY <2>1, <2>4, <1>2, <1>4, <1>8 DEF L
  <2> QED
    BY <2>1, <2>2, <2>3, <2>4
<1>9. CASE Width(n) = 4
  <2>1. L(1) = n \div 1000 /\ L(2) = n \div 100 /\ L(3) = n \div 10 /\ L(4) = n /\ k \in {1, 2, 3, 4}
    BY <1>1, <1>9, Leads DEF L
  <2>2. CASE k = 1
    <3>1. L(1) \in 0..9 /\ L(1) <= n
      BY <2>1, <1>4, <1>5
    <3> QED
      BY <2>1, <2>2, <3>1, <1>2, <1>3, <1>9 DEF L
  <2>3. CASE k = 2
    BY <2>1, <2>3, <1>2, <1>4, <1>5, <1>9 DEF L
  <2>4. CASE k = 3
    BY <2>1, <2>4, <1>2, <1>4, <1>5, <1>9 DEF L
  <2>5. CASE k = 4
    BY <2>1, <2>5, <1>2, <1>4, <1>9 DEF L
  <2> QED
    BY <2>1, <2>2, <2>3, <2>4, <2>5
<1> QED
  BY <1>6, <1>7, <1>8, <1>9, WidthRange

LEMMA NumberBytes ==
    ASSUME NEW n \in Nat, n < 10000
    PROVE  /\ NumChars(n) \in Seq(Char) /\ Len(NumChars(n)) = Width(n)
           /\ \A k \in 1..Width(n) : /\ NumChars(n)[k] \in Digit
                                     /\ DigitVal(NumChars(n)[k]) = Leading(n, k) % 10
<1>1. Width(n) \in 1..4
  BY WidthRange
<1>2. ASSUME NEW k \in 1..Width(n)
      PROVE  /\ DigitChar[(Leading(n, k) % 10) + 1] \in Digit
             /\ DigitVal(DigitChar[(Leading(n, k) % 10) + 1]) = Leading(n, k) % 10
  <2>1. Leading(n, k) % 10 \in 0..9
    BY ValueGrows
  <2> QED
    BY <2>1, DigitOf
<1>3. Digit \subseteq Char
  BY DEF Char
<1>4. NumChars(n) \in [1..Width(n) -> Char]
  BY <1>2, <1>3 DEF NumChars
<1>5. NumChars(n) \in Seq(Char) /\ Len(NumChars(n)) = Width(n)
  BY <1>1, <1>4, IsASeq, LenProperties
<1>6. ASSUME NEW k \in 1..Width(n) PROVE NumChars(n)[k] = DigitChar[(Leading(n, k) % 10) + 1]
  BY DEF NumChars
<1> QED
  BY <1>2, <1>5, <1>6

-----------------------------------------------------------------------------
LEMMA PromptReads ==
    ASSUME IInv, NEW m, m.kind = "prompt",
           NEW a \in 1..Len(Encode(m)), Inside(m, a), ParseChar(Encode(m)[a])
    PROVE  Reads(m, a)
<1>1. Encode(m) = <<">", "blank">> /\ Meaning(m) = NoMsg
  BY DEF Encode, Meaning
<1>2. Encode(m)[a] \in Space \cup {">"} /\ Encode(m)[a] \in Char
  BY <1>1 DEF Char, Space
<1>3. state = "CLEAR" /\ (Inside(m, a + 1)' <=> state' = "CLEAR")
  BY DEF Inside
<1>4. state' = "CLEAR" /\ out' = NoMsg
  BY <1>2, <1>3, ClearReads
<1> QED
  BY <1>1, <1>3, <1>4, NoMatter DEF Reads

(* What stands where in two sequences joined.                               *)
LEMMA Joined ==
    ASSUME NEW S, NEW d \in Seq(S), NEW w \in Seq(S)
    PROVE  /\ d \o w \in Seq(S) /\ Len(d \o w) = Len(d) + Len(w)
           /\ \A i \in 1..Len(d) : (d \o w)[i] = d[i]
           /\ \A i \in 1..Len(w) : (d \o w)[Len(d) + i] = w[i]
<1>1. /\ d \o w \in Seq(S) /\ Len(d \o w) = Len(d) + Len(w)
      /\ \A i \in 1..(Len(d) + Len(w)) :
             (d \o w)[i] = IF i <= Len(d) THEN d[i] ELSE w[i - Len(d)]
  BY ConcatProperties, Zenon
<1>2. Len(d) \in Nat /\ Len(w) \in Nat
  OBVIOUS
<1>3. ASSUME NEW i \in 1..Len(d) PROVE (d \o w)[i] = d[i]
  <2>1. i \in 1..(Len(d) + Len(w)) /\ i <= Len(d)
    BY <1>2
  <2> QED
    BY <1>1, <2>1
<1>4. ASSUME NEW i \in 1..Len(w) PROVE (d \o w)[Len(d) + i] = w[i]
  <2>1. /\ Len(d) + i \in 1..(Len(d) + Len(w)) /\ ~(Len(d) + i <= Len(d))
        /\ (Len(d) + i) - Len(d) = i
    BY <1>2
  <2> QED
    BY <1>1, <2>1
<1> QED
  BY <1>1, <1>3, <1>4

(* A number of one digit.                                                   *)
LEMMA OneDigit ==
    ASSUME NEW i \in 0..9
    PROVE  /\ NumChars(i) \in Seq(Char) /\ Len(NumChars(i)) = 1
           /\ NumChars(i)[1] \in Digit /\ DigitVal(NumChars(i)[1]) = i
<1>1. i \in Nat /\ i < 10000 /\ i < 10
  OBVIOUS
<1>2. Width(i) = 1
  BY <1>1, WidthRange
<1>3. /\ NumChars(i) \in Seq(Char) /\ Len(NumChars(i)) = Width(i)
      /\ \A k \in 1..Width(i) : /\ NumChars(i)[k] \in Digit
                                /\ DigitVal(NumChars(i)[k]) = Leading(i, k) % 10
  BY <1>1, NumberBytes
<1>4. Leading(i, 1) = i
  BY <1>1, <1>2, Leads
<1>5. i % 10 = i
  BY <1>1
<1>6. 1 \in 1..Width(i)
  BY <1>2
<1> QED
  BY <1>2, <1>3, <1>4, <1>5, <1>6

LEMMA NoticeBytes ==
    ASSUME NEW m, NEW op \in Seq(Letter), m.id \in 0..9,
           \/ m.kind = "connect" /\ op = ConnectOp
           \/ m.kind = "closed" /\ op = ClosedOp
    PROVE  /\ Encode(m) \in Seq(Char) /\ Len(Encode(m)) = Len(op) + 4
           /\ Encode(m)[1] \in Digit /\ DigitVal(Encode(m)[1]) = m.id
           /\ Encode(m)[2] = "comma"
           /\ \A a \in 3..(Len(op) + 2) : Encode(m)[a] = op[a - 2]
           /\ Encode(m)[Len(op) + 3] = "cr" /\ Encode(m)[Len(op) + 4] = "lf"
<1> DEFINE d == NumChars(m.id)
<1>1. Encode(m) = d \o <<"comma">> \o op \o <<"cr", "lf">>
  BY DEF Encode, CrLf
<1>2. /\ d \in Seq(Char) /\ Len(d) = 1
      /\ d[1] \in Digit /\ DigitVal(d[1]) = m.id
  BY OneDigit
<1> HIDE DEF d
<1>3. "cr" \in Char /\ "lf" \in Char /\ "comma" \in Char /\ op \in Seq(Char)
  <2>1. Letter \subseteq Char
    BY DEF Char
  <2>2. op \in Seq(Char)
    BY <2>1, SeqMonotonic
  <2> QED
    BY <2>2 DEF Char, Newline
<1>4. PICK x \in Char : x = d[1]
  BY <1>2
<1>5. d \o <<"comma">> = <<x, "comma">>
  <2> DEFINE w == <<"comma">>
             v == <<x, "comma">>
  <2>1. w \in Seq(Char) /\ Len(w) = 1 /\ w[1] = "comma"
    BY <1>3
  <2>2. v \in Seq(Char) /\ Len(v) = 2 /\ v[1] = x /\ v[2] = "comma"
    BY <1>3
  <2> HIDE DEF v, w
  <2>3. /\ d \o w \in Seq(Char) /\ Len(d \o w) = 1 + Len(w)
        /\ \A i \in 1..1 : (d \o w)[i] = d[i]
        /\ \A i \in 1..Len(w) : (d \o w)[1 + i] = w[i]
    <3>1. d \in Seq(Char) /\ w \in Seq(Char)
      BY <1>2, <2>1
    <3>2. /\ d \o w \in Seq(Char) /\ Len(d \o w) = Len(d) + Len(w)
          /\ \A i \in 1..Len(d) : (d \o w)[i] = d[i]
          /\ \A i \in 1..Len(w) : (d \o w)[Len(d) + i] = w[i]
      BY <3>1, Joined
    <3> QED
      BY <1>2, <3>2
  <2>4. Len(d \o w) = 2 /\ (d \o w)[1] = x /\ (d \o w)[2] = "comma"
    BY <1>4, <2>1, <2>3
  <2>5. \A i \in 1..2 : (d \o w)[i] = v[i]
    BY <2>2, <2>4
  <2>6. d \o w = v
    BY <2>2, <2>3, <2>4, <2>5, SeqEqual
  <2> QED
    BY <2>6 DEF v, w
<1>6. Encode(m) = <<x, "comma">> \o op \o <<"cr", "lf">>
  BY <1>1, <1>5
<1>7. Encode(m) \in Seq(Char) /\ Len(Encode(m)) = Len(op) + 4
  BY <1>3, <1>6
<1>8. Encode(m)[1] = x /\ Encode(m)[2] = "comma"
  BY <1>3, <1>6
<1>9. \A a \in 3..(Len(op) + 2) : Encode(m)[a] = op[a - 2]
  BY <1>3, <1>6
<1>10. Encode(m)[Len(op) + 3] = "cr" /\ Encode(m)[Len(op) + 4] = "lf"
  BY <1>3, <1>6
<1> QED
  BY <1>2, <1>4, <1>7, <1>8, <1>9, <1>10

(* The two words of connection reports, and their beginnings.               *)
LEMMA Words ==
    /\ ConnectOp \in Seq(Letter) /\ Len(ConnectOp) = 7
    /\ ClosedOp \in Seq(Letter) /\ Len(ClosedOp) = 6
    /\ \A op \in {ConnectOp, ClosedOp} : \A j \in 0..(Len(op) - 1) :
          SubSeq(op, 1, j) \notin {ConnectOp, ClosedOp}
<1>1. {"C", "O", "N", "E", "T", "L", "S", "D"} \subseteq Letter
  BY DEF Letter
<1>2. ConnectOp \in Seq(Letter) /\ Len(ConnectOp) = 7
  BY <1>1 DEF ConnectOp
<1>3. ClosedOp \in Seq(Letter) /\ Len(ClosedOp) = 6
  BY <1>1 DEF ClosedOp
<1>4. ConnectOp[2] = "O" /\ ClosedOp[2] = "L"
  BY DEF ConnectOp, ClosedOp
<1>5. ASSUME NEW j \in 0..6 PROVE SubSeq(ConnectOp, 1, j) \notin {ConnectOp, ClosedOp}
  <2> DEFINE s == SubSeq(ConnectOp, 1, j)
  <2>1. Len(s) = j
    BY <1>2
  <2>4. j = 6 => s[2] = ConnectOp[2]
    BY <1>2
  <2> HIDE DEF s
  <2>2. s # ConnectOp
    <3>1. SUFFICES ASSUME s = ConnectOp PROVE FALSE
      OBVIOUS
    <3>2. Len(s) = 7
      BY <3>1, <1>2
    <3>3. j # 7
      OBVIOUS
    <3> QED
      BY <3>2, <3>3, <2>1, Zenon
  <2>3. s # ClosedOp
    <3>1. SUFFICES ASSUME s = ClosedOp PROVE FALSE
      OBVIOUS
    <3>2. Len(s) = 6 /\ s[2] = "L"
      BY <3>1, <1>3, <1>4
    <3>3. j = 6
      BY <3>2, <2>1
    <3> QED
      BY <3>2, <3>3, <2>4, <1>4
  <2> QED
    BY <2>2, <2>3 DEF s
<1>6. ASSUME NEW j \in 0..5 PROVE SubSeq(ClosedOp, 1, j) \notin {ConnectOp, ClosedOp}
  <2> DEFINE s == SubSeq(ClosedOp, 1, j)
  <2>1. Len(s) = j
    BY <1>3
  <2> HIDE DEF s
  <2>2. s # ConnectOp /\ s # ClosedOp
    <3>1. SUFFICES ASSUME s = ConnectOp \/ s = ClosedOp PROVE FALSE
      OBVIOUS
    <3>2. Len(s) \in {6, 7}
      BY <3>1, <1>2, <1>3
    <3> QED
      BY <3>2, <2>1
  <2> QED
    BY <2>2 DEF s
<1>7. 0..(Len(ConnectOp) - 1) = 0..6 /\ 0..(Len(ClosedOp) - 1) = 0..5
  BY <1>2, <1>3
<1> QED
  BY <1>2, <1>3, <1>5, <1>6, <1>7

LEMMA NoticeReads ==
    ASSUME IInv, NEW m, Sayable(m), NEW op,
           \/ m.kind = "connect" /\ op = ConnectOp
           \/ m.kind = "closed" /\ op = ClosedOp,
           NEW a \in 1..Len(Encode(m)), Inside(m, a), ParseChar(Encode(m)[a])
    PROVE  Reads(m, a)
<1> DEFINE i == m.id
           n == Len(op)
           e == Encode(m)
<1>1. i \in 0..9
  <2>1. m \in [kind : {"connect", "closed"}, id : 0..(ID_MAX - 1)]
    BY DEF Sayable
  <2> QED
    BY <2>1, ParserAssumption
<1>2. op \in Seq(Letter) /\ n \in {6, 7} /\ op \in {ConnectOp, ClosedOp}
  BY Words
<1>3. /\ e \in Seq(Char) /\ Len(e) = n + 4
      /\ e[1] \in Digit /\ DigitVal(e[1]) = i /\ e[2] = "comma"
      /\ \A x \in 3..(n + 2) : e[x] = op[x - 2]
      /\ e[n + 3] = "cr" /\ e[n + 4] = "lf"
  BY <1>1, <1>2, NoticeBytes
<1>4. /\ EmitAt(m) = n + 2 /\ InNotice(i, op, a)
      /\ (Inside(m, a + 1)' <=> InNotice(i, op, a + 1)')
  BY DEF EmitAt, Inside
<1>5. /\ Matters(Meaning(m))
      /\ Meaning(m) = IF op = ConnectOp THEN Accepted(i) ELSE Closed(i)
  <2>1. ConnectOp # ClosedOp
    BY DEF ConnectOp, ClosedOp
  <2>2. CASE m.kind = "connect"
    BY <2>1, <2>2 DEF Meaning, Matters, Accepted
  <2>3. CASE m.kind = "closed"
    BY <2>1, <2>3 DEF Meaning, Matters, Closed
  <2> QED
    BY <2>2, <2>3
<1>6. e[a] \in Char /\ ParseChar(e[a]) /\ a \in 1..(n + 4)
  BY <1>3
<1>7. "cr" \in Newline /\ "lf" \in Newline
  BY DEF Newline
<1> HIDE DEF i, n, e
<1>8. CASE a = 1
  <2>1. state = "CLEAR"
    BY <1>4, <1>8 DEF InNotice
  <2>2. state' = "CONN_ID" /\ conn_id' = i /\ out' = NoMsg
    BY <1>3, <1>6, <1>8, <2>1, ClearReads
  <2>3. InNotice(i, op, a + 1)'
    BY <1>2, <1>8, <2>2 DEF InNotice, n
  <2> QED
    BY <1>2, <1>3, <1>4, <1>8, <2>2, <2>3, NoMatter DEF Reads, e
<1>9. CASE a = 2
  <2>1. state = "CONN_ID" /\ conn_id = i /\ msg_op = <<>>
    BY <1>4, <1>9 DEF InNotice, IInv, Numbers
  <2>2. state' = "CONN_OP" /\ conn_id' = i /\ msg_op' = <<>> /\ ~Matters(out')
    BY <1>3, <1>6, <1>9, <2>1, NumberReads
  <2>3. SubSeq(op, 1, 0) = <<>>
    BY <1>2
  <2>4. InNotice(i, op, a + 1)'
    <3>1. a + 1 = 3 /\ ~(3 >= n + 3) /\ 3 \in 3..(n + 2) /\ 3 - 3 = 0
      BY <1>2, <1>9
    <3>2. InNotice(i, op, 3)'
      BY <2>2, <2>3, <3>1 DEF InNotice, n
    <3> QED
      BY <3>1, <3>2
  <2> QED
    BY <1>2, <1>3, <1>4, <1>9, <2>2, <2>4 DEF Reads, e
<1>10. CASE a \in 3..(n + 2)
  <2>1. state = "CONN_OP" /\ conn_id = i /\ msg_op = SubSeq(op, 1, a - 3)
    BY <1>4, <1>10 DEF InNotice, n
  <2>2. e[a] = op[a - 2] /\ op[a - 2] \in Letter
    BY <1>2, <1>3, <1>10 DEF n
  <2>3. Append(msg_op, e[a]) = SubSeq(op, 1, a - 2)
    <3>1. a - 3 \in 0..(n - 1) /\ a - 2 = (a - 3) + 1
      BY <1>2, <1>10
    <3>2. Append(SubSeq(op, 1, a - 3), op[(a - 3) + 1]) = SubSeq(op, 1, (a - 3) + 1)
      BY <1>2, <3>1 DEF n
    <3> QED
      BY <2>1, <2>2, <3>1, <3>2
  <2>4. CASE a = n + 2
    <3>1. SubSeq(op, 1, a - 2) = op
      BY <1>2, <2>4 DEF n
    <3>2. state' = "CLEAR" /\ out' = Meaning(m)
      BY <1>2, <1>5, <1>6, <2>1, <2>2, <2>3, <3>1, ConnOpReads
    <3>3. InNotice(i, op, a + 1)'
      BY <1>2, <2>4, <3>2 DEF InNotice, n
    <3> QED
      BY <1>2, <1>3, <1>4, <1>5, <2>4, <3>2, <3>3 DEF Reads, e
  <2>5. CASE a # n + 2
    <3>1. a - 2 \in 0..(n - 1) /\ a - 2 <= 6 /\ a - 2 \in Nat
      BY <1>2, <1>10, <2>5
    <3>2. SubSeq(op, 1, a - 2) \notin {ConnectOp, ClosedOp}
      BY <1>2, <3>1, Words DEF n
    <3>3. Len(SubSeq(op, 1, a - 2)) = a - 2
      BY <1>2, <3>1 DEF n
    <3>4. state' = "CONN_OP" /\ out' = NoMsg /\ msg_op' = SubSeq(op, 1, a - 2) /\ conn_id' = i
      <4> DEFINE q == Append(msg_op, e[a])
      <4>1. q \notin {ConnectOp, ClosedOp} /\ Len(q) < 9 /\ Len(q) \in Nat
        BY <2>3, <3>1, <3>2, <3>3
      <4>2. (q \notin {ConnectOp, ClosedOp} /\ Len(q) < 9 /\ Len(q) \in Nat) =>
                /\ state' = "CONN_OP" /\ out' = NoMsg
                /\ msg_op' = q /\ conn_id' = conn_id
        BY <1>6, <2>1, <2>2, ConnOpReads
      <4> QED
        BY <2>1, <2>3, <4>1, <4>2
    <3>5. InNotice(i, op, a + 1)'
      BY <1>2, <1>10, <2>5, <3>4 DEF InNotice, n
    <3> QED
      BY <1>2, <1>3, <1>4, <1>10, <2>5, <3>4, <3>5, NoMatter DEF Reads, e
  <2> QED
    BY <2>4, <2>5
<1>11. CASE a \in {n + 3, n + 4}
  <2>1. state = "CLEAR" /\ e[a] \in Newline
    BY <1>2, <1>3, <1>4, <1>7, <1>11 DEF InNotice, n
  <2>2. state' = "CLEAR" /\ out' = NoMsg
    BY <1>6, <2>1, ClearReads
  <2>3. InNotice(i, op, a + 1)'
    BY <1>2, <1>11, <2>2 DEF InNotice, n
  <2> QED
    BY <1>2, <1>3, <1>4, <1>11, <2>2, <2>3, NoMatter DEF Reads, e
<1> QED
  BY <1>2, <1>6, <1>8, <1>9, <1>10, <1>11

(* The sequence e is s, k bytes, followed by x, n bytes. *)
IsJoin(e, s, k, x, n) ==
    /\ e \in Seq(Char) /\ Len(e) = k + n
    /\ \A a \in 1..k : e[a] = s[a]
    /\ \A a \in 1..n : e[k + a] = x[a]

LEMMA JoinAt ==
    ASSUME NEW s \in Seq(Char), NEW x \in Seq(Char)
    PROVE  IsJoin(s \o x, s, Len(s), x, Len(x))
<1>1. /\ s \o x \in Seq(Char) /\ Len(s \o x) = Len(s) + Len(x)
      /\ \A a \in 1..Len(s) : (s \o x)[a] = s[a]
      /\ \A a \in 1..Len(x) : (s \o x)[Len(s) + a] = x[a]
  BY Joined
<1> QED
  BY <1>1, Zenon DEF IsJoin

LEMMA JoinWith ==
    ASSUME NEW s, NEW x, NEW k, NEW n, NEW e,
           s \in Seq(Char), x \in Seq(Char), Len(s) = k, Len(x) = n, e = s \o x
    PROVE  IsJoin(e, s, k, x, n)
<1>1. s \in Seq(Char) /\ x \in Seq(Char)
  OBVIOUS
<1>2. IsJoin(s \o x, s, Len(s), x, Len(x))
  BY <1>1, JoinAt
<1>3. Len(s) = k /\ Len(x) = n /\ e = s \o x
  OBVIOUS
<1> QED
  BY <1>2, <1>3

LEMMA EncodeData ==
    ASSUME NEW m, m.kind = "ipd"
    PROVE  Encode(m) = CrLf \o IpdOp \o <<"comma">> \o NumChars(m.id) \o <<"comma">>
                       \o NumChars(Len(m.data)) \o <<":">> \o m.data
<1>1. /\ m.kind # "line" /\ m.kind # "prompt" /\ m.kind # "connect" /\ m.kind # "closed"
  OBVIOUS
<1> QED
  BY <1>1 DEF Encode

(* The bytes e of a report of data d on connection i, whose length takes w  *)
(* digits.                                                                  *)
DataShape(e, i, d, w) ==
    /\ w \in 1..4
    /\ e \in Seq(Char) /\ Len(e) = 10 + w + Len(d)
    /\ e[1] = "cr" /\ e[2] = "lf" /\ e[7] = "comma"
    /\ \A x \in 3..6 : e[x] = IpdOp[x - 2]
    /\ e[8] \in Digit /\ DigitVal(e[8]) = i /\ e[9] = "comma"
    /\ \A k \in 1..w : e[9 + k] \in Digit /\ DigitVal(e[9 + k]) = Leading(Len(d), k) % 10
    /\ e[10 + w] = ":" /\ \A j \in 1..Len(d) : e[(10 + w) + j] = d[j]

LEMMA DataBytes ==
    ASSUME NEW m, m.kind = "ipd", m.id \in 0..9, m.data \in Seq(Char), Len(m.data) <= BUFF_MAXLEN
    PROVE  DataShape(Encode(m), m.id, m.data, Width(Len(m.data)))
<1> DEFINE d  == m.data
           n  == Len(d)
           w  == Width(n)
           q  == CrLf
           u  == IpdOp
           i  == NumChars(m.id)
           l  == NumChars(n)
           c  == <<"comma">>
           p  == <<":">>
           h0 == q \o u
           h1 == h0 \o c
           h2 == h1 \o i
           h3 == h2 \o c
           h4 == h3 \o l
           h5 == h4 \o p
           e  == h5 \o d
<1>1. Encode(m) = e
  BY EncodeData, Zenon
<1>2. /\ c \in Seq(Char) /\ Len(c) = 1 /\ c[1] = "comma"
      /\ p \in Seq(Char) /\ Len(p) = 1 /\ p[1] = ":"
  <2>1. "comma" \in Char /\ ":" \in Char
    BY DEF Char
  <2> QED
    BY <2>1
<1>3. /\ q \in Seq(Char) /\ Len(q) = 2 /\ q[1] = "cr" /\ q[2] = "lf"
      /\ u \in Seq(Char) /\ Len(u) = 4
  <2>1. {"cr", "lf", "+", "I", "P", "D"} \subseteq Char
    BY DEF Char, Letter, Newline
  <2> QED
    BY <2>1 DEF CrLf, IpdOp
<1>4. i \in Seq(Char) /\ Len(i) = 1 /\ i[1] \in Digit /\ DigitVal(i[1]) = m.id
  BY OneDigit
<1>5. d \in Seq(Char) /\ n \in Nat /\ n <= BUFF_MAXLEN
  OBVIOUS
<1>6. /\ l \in Seq(Char) /\ Len(l) = w
      /\ \A k \in 1..w : l[k] \in Digit /\ DigitVal(l[k]) = Leading(n, k) % 10
  <2> HIDE DEF n
  <2>1. n < 10000
    BY <1>5, WireAssumption, ParserAssumption
  <2> QED
    BY <1>5, <2>1, NumberBytes DEF n
<1>7. w \in 1..4
  <2> HIDE DEF n
  <2>1. n < 10000
    BY <1>5, WireAssumption, ParserAssumption
  <2> QED
    BY <1>5, <2>1, WidthRange DEF n
<1>8. Len(d) = n /\ Width(n) = w
  OBVIOUS
<1>9. /\ u = IpdOp /\ h0 = q \o u /\ h1 = h0 \o c /\ h2 = h1 \o i /\ h3 = h2 \o c
      /\ h4 = h3 \o l /\ h5 = h4 \o p /\ e = h5 \o d
  OBVIOUS
<1>10. /\ 2 + 4 = 6 /\ 6 + 1 = 7 /\ 7 + 1 = 8 /\ 8 + 1 = 9 /\ (9 + w) + 1 = 10 + w
  BY <1>7
<1> HIDE DEF d, n, w, q, u, i, l, c, p, h0, h1, h2, h3, h4, h5, e
<1>11. IsJoin(h0, q, 2, u, 4) /\ h0 \in Seq(Char) /\ Len(h0) = 6
  <2>1. IsJoin(h0, q, 2, u, 4)
    BY <1>3, <1>9, JoinWith, Zenon
  <2> QED
    BY <2>1, <1>10 DEF IsJoin
<1>12. IsJoin(h1, h0, 6, c, 1) /\ h1 \in Seq(Char) /\ Len(h1) = 7
  <2>1. IsJoin(h1, h0, 6, c, 1)
    BY <1>2, <1>11, <1>9, JoinWith, Zenon
  <2> QED
    BY <2>1, <1>10 DEF IsJoin
<1>13. IsJoin(h2, h1, 7, i, 1) /\ h2 \in Seq(Char) /\ Len(h2) = 8
  <2>1. IsJoin(h2, h1, 7, i, 1)
    BY <1>4, <1>12, <1>9, JoinWith, Zenon
  <2> QED
    BY <2>1, <1>10 DEF IsJoin
<1>14. IsJoin(h3, h2, 8, c, 1) /\ h3 \in Seq(Char) /\ Len(h3) = 9
  <2>1. IsJoin(h3, h2, 8, c, 1)
    BY <1>2, <1>13, <1>9, JoinWith, Zenon
  <2> QED
    BY <2>1, <1>10 DEF IsJoin
<1>15. IsJoin(h4, h3, 9, l, w) /\ h4 \in Seq(Char) /\ Len(h4) = 9 + w
  <2>1. IsJoin(h4, h3, 9, l, w)
    BY <1>6, <1>14, <1>9, JoinWith, Zenon
  <2> QED
    BY <2>1, <1>10 DEF IsJoin
<1>16. IsJoin(h5, h4, 9 + w, p, 1) /\ h5 \in Seq(Char) /\ Len(h5) = 10 + w
  <2>1. IsJoin(h5, h4, 9 + w, p, 1)
    BY <1>2, <1>15, <1>9, JoinWith, Zenon
  <2> QED
    BY <2>1, <1>10 DEF IsJoin
<1>17. IsJoin(e, h5, 10 + w, d, n) /\ e \in Seq(Char) /\ Len(e) = (10 + w) + n
  <2>1. IsJoin(e, h5, 10 + w, d, n)
    BY <1>5, <1>8, <1>16, <1>9, JoinWith, Zenon
  <2> QED
    BY <2>1, <1>10 DEF IsJoin
<1>18. e[10 + w] = ":" /\ \A j \in 1..n : e[(10 + w) + j] = d[j]
  <2>1. 10 + w \in 1..(10 + w) /\ 1 \in 1..1
    BY <1>7
  <2>2. h5[10 + w] = ":"
    BY <1>2, <1>10, <1>16, <2>1 DEF IsJoin
  <2> QED
    BY <1>17, <2>1, <2>2 DEF IsJoin
<1>19. ASSUME NEW a \in 1..(9 + w) PROVE e[a] = h4[a]
  <2>1. a \in 1..(10 + w)
    BY <1>7
  <2> QED
    BY <1>16, <1>17, <2>1 DEF IsJoin
<1>20. \A k \in 1..w : /\ e[9 + k] \in Digit
                       /\ DigitVal(e[9 + k]) = Leading(n, k) % 10
  <2>1. ASSUME NEW k \in 1..w PROVE e[9 + k] = l[k]
    <3>1. 9 + k \in 1..(9 + w)
      BY <1>7
    <3> QED
      BY <1>15, <1>19, <3>1 DEF IsJoin
  <2> QED
    BY <1>6, <2>1
<1>21. ASSUME NEW a \in 1..9 PROVE e[a] = h3[a]
  <2>1. a \in 1..(9 + w)
    BY <1>7
  <2> QED
    BY <1>15, <1>19, <2>1 DEF IsJoin
<1>22. e[9] = "comma" /\ e[8] \in Digit /\ DigitVal(e[8]) = m.id
  <2>1. 8 \in 1..8 /\ 8 \in 1..9 /\ 9 \in 1..9 /\ 1 \in 1..1
    OBVIOUS
  <2>2. h3[9] = "comma"
    BY <1>2, <1>10, <1>14, <2>1 DEF IsJoin
  <2>3. h3[8] = i[1]
    BY <1>10, <1>13, <1>14, <2>1 DEF IsJoin
  <2> QED
    BY <1>4, <1>21, <2>1, <2>2, <2>3
<1>23. ASSUME NEW a \in 1..7 PROVE e[a] = h1[a]
  <2>1. a \in 1..8 /\ a \in 1..9
    OBVIOUS
  <2> QED
    BY <1>13, <1>14, <1>21, <2>1 DEF IsJoin
<1>24. e[1] = "cr" /\ e[2] = "lf" /\ e[7] = "comma"
  <2>1. 1 \in 1..1 /\ 1 \in 1..2 /\ 2 \in 1..2 /\ 1 \in 1..6 /\ 2 \in 1..6
        /\ 1 \in 1..7 /\ 2 \in 1..7 /\ 7 \in 1..7
    OBVIOUS
  <2>2. h1[7] = "comma"
    BY <1>2, <1>10, <1>12, <2>1 DEF IsJoin
  <2>3. h1[1] = "cr" /\ h1[2] = "lf"
    BY <1>3, <1>11, <1>12, <2>1 DEF IsJoin
  <2> QED
    BY <1>23, <2>1, <2>2, <2>3
<1>25. ASSUME NEW a \in 3..6 PROVE e[a] = IpdOp[a - 2]
  <2>1. a \in 1..7 /\ a \in 1..6 /\ a - 2 \in 1..4 /\ 2 + (a - 2) = a
    OBVIOUS
  <2>2. h0[2 + (a - 2)] = u[a - 2]
    BY <1>11, <2>1 DEF IsJoin
  <2> QED
    BY <1>9, <1>12, <1>23, <2>1, <2>2 DEF IsJoin
<1>26. Len(e) = 10 + w + n
  BY <1>17
<1> QED
  BY <1>1, <1>7, <1>17, <1>18, <1>20, <1>22, <1>24, <1>25, <1>26, Zenon DEF n, d, w, DataShape

LEMMA PayloadReads ==
    ASSUME IInv, NEW m, Sayable(m), m.kind = "ipd",
           NEW a \in 1..Len(Encode(m)), Inside(m, a), ParseChar(Encode(m)[a])
    PROVE  Reads(m, a)
<1> DEFINE i == m.id
           d == m.data
           n == Len(d)
           w == Width(n)
           e == Encode(m)
<1>1. i \in Nat /\ i < ID_MAX /\ i \in 0..9 /\ d \in Seq(Char) /\ n \in 1..BUFF_MAXLEN
  <2>1. m \in [kind : {"ipd"}, id : 0..(ID_MAX - 1), data : Seq(Char)] /\ n \in 1..BUFF_MAXLEN
    BY DEF Sayable
  <2> QED
    BY <2>1, ParserAssumption
<1>2. /\ w \in 1..4
      /\ e \in Seq(Char) /\ Len(e) = 10 + w + n
      /\ e[1] = "cr" /\ e[2] = "lf" /\ e[7] = "comma"
      /\ \A x \in 3..6 : e[x] = IpdOp[x - 2]
      /\ e[8] \in Digit /\ DigitVal(e[8]) = i /\ e[9] = "comma"
      /\ \A k \in 1..w : e[9 + k] \in Digit /\ DigitVal(e[9 + k]) = Leading(n, k) % 10
      /\ e[10 + w] = ":" /\ \A j \in 1..n : e[(10 + w) + j] = d[j]
  <2>1. n <= BUFF_MAXLEN
    BY <1>1, ParserAssumption
  <2>2. m.data \in Seq(Char) /\ Len(m.data) <= BUFF_MAXLEN /\ m.id \in 0..9
    BY <1>1, <2>1
  <2>3. DataShape(Encode(m), m.id, m.data, Width(Len(m.data)))
    BY <2>2, DataBytes
  <2> HIDE DEF i, d, n, w, e
  <2> QED
    BY <2>3, Zenon DEF i, d, n, w, e, DataShape
<1>3. /\ EmitAt(m) = (10 + w) + n /\ Header(d) = 10 + w /\ InData(i, d, a)
      /\ (Inside(m, a + 1)' <=> InData(i, d, a + 1)')
  BY DEF EmitAt, Inside, Header
<1>4. Matters(Meaning(m)) /\ Meaning(m) = Recv(i, d)
  <2>1. Meaning(m) = Recv(i, d)
    BY DEF Meaning
  <2>2. Recv(i, d).type = "atc_conn_recv"
    BY DEF Recv
  <2> QED
    BY <2>1, <2>2 DEF Matters
<1>5. n = Len(d) /\ w = Width(n) /\ n \in Nat /\ w \in 1..4
  BY <1>1, <1>2
<1>6. e[a] \in Char /\ ParseChar(e[a]) /\ a \in 1..(10 + w + n)
  BY <1>2
<1>7. "cr" \in Newline /\ "lf" \in Newline
  BY DEF Newline
<1>8. /\ IpdOp \in Seq(Char) /\ Len(IpdOp) = 4 /\ IpdOp[1] = "+"
      /\ \A x \in 2..4 : IpdOp[x] \in Letter
  <2>1. "+" \in Char /\ {"I", "P", "D"} \subseteq Char /\ {"I", "P", "D"} \subseteq Letter
    BY DEF Char, Letter
  <2> QED
    BY <2>1 DEF IpdOp
<1>9. Reads(m, a) <=> /\ a < 10 + w + n => InData(i, d, a + 1)'
                      /\ a = 10 + w + n => state' = "CLEAR"
                      /\ Matters(out') <=> a = 10 + w + n
                      /\ Matters(out') => out' = Recv(i, d)
  BY <1>1, <1>2, <1>3, <1>4 DEF Reads
<1> HIDE DEF i, d, n, w, e
<1>10. CASE a \in {1, 2}
  <2>1. state = "CLEAR" /\ e[a] \in Newline
    BY <1>2, <1>3, <1>7, <1>10 DEF InData
  <2>2. state' = "CLEAR" /\ out' = NoMsg
    BY <1>6, <2>1, ClearReads
  <2>3. InData(i, d, a + 1)'
    <3>1. /\ a + 1 <= 3 /\ a + 1 \notin 4..7 /\ a + 1 # 8 /\ a + 1 # 9
          /\ a + 1 \notin 10..(10 + w) /\ a + 1 \notin ((10 + w) + 1)..((10 + w) + n)
      BY <1>5, <1>10
    <3> QED
      BY <1>3, <1>5, <2>2, <3>1 DEF InData
  <2> QED
    BY <1>1, <1>2, <1>9, <1>10, <2>2, <2>3, NoMatter
<1>11. CASE a = 3
  <2>1. state = "CLEAR" /\ e[a] = "+"
    BY <1>2, <1>3, <1>8, <1>11 DEF InData
  <2>2. state' = "MSG_OP" /\ msg_op' = <<"+">> /\ out' = NoMsg
    BY <1>6, <2>1, ClearReads
  <2>3. SubSeq(IpdOp, 1, 1) = <<"+">>
    <3>1. IpdOp \in Seq(Char) /\ IpdOp # <<>>
      <4>1. IpdOp # <<>>
        BY DEF IpdOp
      <4> QED
        BY <1>8, <4>1, Zenon
    <3>2. SubSeq(IpdOp, 1, 1) = <<IpdOp[1]>>
      BY <3>1, FirstOne
    <3> QED
      BY <1>8, <3>2
  <2>4. InData(i, d, a + 1)'
    <3>1. /\ a + 1 = 4 /\ 4 \in 4..7 /\ ~(4 <= 3) /\ 4 # 8 /\ 4 # 9 /\ 4 - 3 = 1
          /\ 4 \notin 10..(10 + w) /\ 4 \notin ((10 + w) + 1)..((10 + w) + n)
      BY <1>5, <1>11
    <3>2. InData(i, d, 4)'
      BY <1>3, <1>5, <2>2, <2>3, <3>1 DEF InData
    <3> QED
      BY <3>1, <3>2
  <2> QED
    BY <1>1, <1>2, <1>9, <1>11, <2>2, <2>4, NoMatter
<1>12. CASE a \in 4..6
  <2>1. state = "MSG_OP" /\ msg_op = SubSeq(IpdOp, 1, a - 3)
    BY <1>3, <1>12 DEF InData
  <2>2. e[a] = IpdOp[a - 2] /\ e[a] \in Letter \cup Space
    BY <1>2, <1>8, <1>12
  <2>3. OpFits
    <3>1. Len(msg_op) = a - 3
      BY <1>8, <1>12, <2>1
    <3> QED
      BY <1>12, <3>1, ParserAssumption DEF OpFits
  <2>4. e[a] # "comma"
    BY <2>2, ClassesApart DEF Punctuation
  <2>5. state' = "MSG_OP" /\ msg_op' = Append(msg_op, e[a]) /\ out' = NoMsg
    BY <1>6, <2>1, <2>2, <2>3, OpReads
  <2>6. Append(msg_op, e[a]) = SubSeq(IpdOp, 1, a - 2)
    <3>1. a - 3 \in 0..3 /\ a - 2 = (a - 3) + 1
      BY <1>12
    <3>2. Append(SubSeq(IpdOp, 1, a - 3), IpdOp[(a - 3) + 1]) = SubSeq(IpdOp, 1, (a - 3) + 1)
      BY <1>8, <3>1
    <3> QED
      BY <2>1, <2>2, <3>1, <3>2
  <2>7. InData(i, d, a + 1)'
    <3>1. /\ a + 1 \in 4..7 /\ (a + 1) - 3 = a - 2 /\ ~(a + 1 <= 3) /\ a + 1 # 8 /\ a + 1 # 9
          /\ a + 1 \notin 10..(10 + w) /\ a + 1 \notin ((10 + w) + 1)..((10 + w) + n)
      BY <1>5, <1>12
    <3> QED
      BY <1>3, <1>5, <2>5, <2>6, <3>1 DEF InData
  <2> QED
    BY <1>1, <1>2, <1>9, <1>12, <2>5, <2>7, NoMatter
<1>13. CASE a = 7
  <2>1. state = "MSG_OP" /\ msg_op = SubSeq(IpdOp, 1, 4)
    BY <1>3, <1>13 DEF InData
  <2>2. SubSeq(IpdOp, 1, 4) = IpdOp
    BY <1>8
  <2>3. state' = "IPD_ID" /\ conn_id' = 0 /\ buff_len' = 0 /\ out' = NoMsg
    BY <1>2, <1>6, <1>13, <2>1, <2>2, OpReads
  <2>4. InData(i, d, a + 1)'
    BY <1>2, <1>3, <1>5, <1>13, <2>3 DEF InData
  <2> QED
    BY <1>1, <1>2, <1>9, <1>13, <2>3, <2>4, NoMatter
<1>14. CASE a = 8
  <2>1. state = "IPD_ID" /\ conn_id = 0 /\ buff_len = 0
    BY <1>3, <1>14 DEF InData
  <2>2. conn_id * 10 + DigitVal(e[a]) = i
    BY <1>1, <1>2, <1>14, <2>1
  <2>3. state' = "IPD_ID" /\ conn_id' = i /\ buff_len' = 0 /\ ~Matters(out')
    BY <1>1, <1>2, <1>6, <1>14, <2>1, <2>2, NumberReads
  <2>4. InData(i, d, a + 1)'
    BY <1>2, <1>3, <1>5, <1>14, <2>3 DEF InData
  <2> QED
    BY <1>1, <1>2, <1>9, <1>14, <2>3, <2>4
<1>15. CASE a = 9
  <2>1. state = "IPD_ID" /\ conn_id = i /\ buff_len = 0
    BY <1>3, <1>15 DEF InData
  <2>2. state' = "IPD_LEN" /\ conn_id' = i /\ buff_len' = 0 /\ ~Matters(out')
    BY <1>2, <1>6, <1>15, <2>1, NumberReads
  <2>3. InData(i, d, a + 1)'
    <3>1. a + 1 = 10 /\ 10 \in 10..(10 + w) /\ 10 - 10 = 0 /\ Value(n, 0) = 0
      BY <1>2, <1>15 DEF Value
    <3>2. InData(i, d, 10)'
      BY <1>2, <1>3, <1>5, <2>2, <3>1 DEF InData
    <3> QED
      BY <3>1, <3>2
  <2> QED
    BY <1>1, <1>2, <1>9, <1>15, <2>2, <2>3
<1>16. CASE a \in 10..(9 + w)
  <2> DEFINE k == a - 9
  <2>1. k \in 1..w /\ a = 9 + k /\ a - 10 = k - 1 /\ a \in 10..(10 + w) /\ (a + 1) - 10 = k
    BY <1>2, <1>16
  <2>2. state = "IPD_LEN" /\ conn_id = i /\ buff_len = Value(n, k - 1)
    BY <1>3, <1>5, <2>1 DEF InData
  <2>3. e[a] \in Digit /\ DigitVal(e[a]) = Leading(n, k) % 10
    BY <1>2, <2>1
  <2>4. /\ Value(n, k) = Value(n, k - 1) * 10 + (Leading(n, k) % 10)
        /\ Value(n, k) <= n
        /\ Value(n, k) \in Nat
    <3>1. n < 10000 /\ k \in 1..Width(n)
      BY <1>1, <1>5, <2>1, WireAssumption, ParserAssumption
    <3> QED
      BY <1>5, <3>1, ValueGrows
  <2> HIDE DEF k
  <2>5. buff_len * 10 + DigitVal(e[a]) = Value(n, k)
    BY <2>2, <2>3, <2>4
  <2>6. Value(n, k) <= BUFF_MAXLEN
    BY <1>1, <2>4, ParserAssumption
  <2>7. state' = "IPD_LEN" /\ conn_id' = i /\ buff_len' = Value(n, k) /\ ~Matters(out')
    BY <1>6, <2>2, <2>3, <2>5, <2>6, NumberReads
  <2>8. InData(i, d, a + 1)'
    <3>1. a + 1 \in 10..(10 + w) /\ ~(a + 1 <= 3) /\ a + 1 \notin 4..7 /\ a + 1 # 8 /\ a + 1 # 9
      BY <1>2, <1>16
    <3>2. a + 1 \notin ((10 + w) + 1)..((10 + w) + n)
      BY <1>2, <1>5, <3>1
    <3> QED
      BY <1>3, <1>5, <2>1, <2>7, <3>1, <3>2 DEF InData
  <2> QED
    BY <1>1, <1>2, <1>9, <1>16, <2>7, <2>8
<1>17. CASE a = 10 + w
  <2>1. state = "IPD_LEN" /\ conn_id = i /\ buff_len = n
    <3>1. a \in 10..(10 + w) /\ a - 10 = w
      BY <1>2, <1>17
    <3>2. state = "IPD_LEN" /\ conn_id = i /\ buff_len = Value(n, w)
      BY <1>3, <1>5, <3>1 DEF InData
    <3>3. n < 10000 /\ w \in 1..Width(n)
      <4>1. n < 10000
        BY <1>1, WireAssumption, ParserAssumption
      <4> QED
        BY <1>5, <4>1
    <3>4. Value(n, w) = n
      BY <1>5, <3>3, ValueGrows
    <3> QED
      BY <3>2, <3>4
  <2>2. msg_buff = <<>> /\ n # 0
    BY <1>1, <2>1 DEF IInv, PayloadBound
  <2>3. /\ state' = "IPD_DAT" /\ conn_id' = i /\ buff_len' = n /\ msg_buff' = <<>>
        /\ ~Matters(out')
    BY <1>2, <1>6, <1>17, <2>1, <2>2, NumberReads
  <2>4. InData(i, d, a + 1)'
    <3>1. /\ a + 1 \in ((10 + w) + 1)..((10 + w) + n) /\ ((a + 1) - (10 + w)) - 1 = 0
          /\ a + 1 \notin 10..(10 + w)
          /\ ~(a + 1 <= 3) /\ a + 1 \notin 4..7 /\ a + 1 # 8 /\ a + 1 # 9
      BY <1>1, <1>2, <1>17
    <3>2. SubSeq(d, 1, 0) = <<>>
      BY <1>1
    <3> QED
      BY <1>3, <1>5, <2>3, <3>1, <3>2 DEF InData
  <2> QED
    BY <1>1, <1>2, <1>9, <1>17, <2>3, <2>4
<1>18. CASE a \in ((10 + w) + 1)..((10 + w) + n)
  <2> DEFINE j == a - (10 + w)
             b == Append(msg_buff, e[a])
  <2>1. /\ j \in 1..n /\ a = (10 + w) + j /\ j - 1 \in 0..n /\ j = (j - 1) + 1
        /\ (a - (10 + w)) - 1 = j - 1 /\ ((a + 1) - (10 + w)) - 1 = j
    BY <1>5, <1>18
  <2> HIDE DEF j
  <2>2. state = "IPD_DAT" /\ conn_id = i /\ buff_len = n /\ msg_buff = SubSeq(d, 1, j - 1)
    BY <1>3, <1>5, <1>18, <2>1 DEF InData
  <2>3. e[a] = d[j]
    BY <1>2, <2>1
  <2>4. b = SubSeq(d, 1, j) /\ Len(b) = j
    <3>1. Append(SubSeq(d, 1, j - 1), d[(j - 1) + 1]) = SubSeq(d, 1, (j - 1) + 1)
      <4>1. Len(d) = n /\ d \in Seq(Char)
        BY <1>1, <1>5
      <4>2. j - 1 \in 0..n /\ (j - 1) + 1 <= n
        BY <1>5, <2>1
      <4> QED
        BY <1>5, <4>1, <4>2
    <3>2. Len(SubSeq(d, 1, j)) = j
      BY <1>1, <1>5, <2>1
    <3> QED
      BY <2>1, <2>2, <2>3, <3>1, <3>2
  <2>5. /\ Len(b) = buff_len => state' = "CLEAR" /\ out' = Recv(conn_id, b)
        /\ Len(b) # buff_len => state' = "IPD_DAT" /\ out' = NoMsg /\ msg_buff' = b
        /\ UNCHANGED <<conn_id, buff_len>>
    BY <1>6, <2>2, DataReads
  <2> HIDE DEF b, j
  <2>6. CASE j = n
    <3>1. SubSeq(d, 1, n) = d
      BY <1>1, <1>5
    <3>2. state' = "CLEAR" /\ out' = Recv(i, d)
      BY <2>2, <2>4, <2>5, <2>6, <3>1
    <3>3. Matters(out')
      BY <1>4, <3>2, Zenon DEF i, d
    <3> QED
      BY <1>1, <1>2, <1>9, <2>1, <2>6, <3>2, <3>3
  <2>7. CASE j # n
    <3>1. state' = "IPD_DAT" /\ out' = NoMsg /\ msg_buff' = SubSeq(d, 1, j) /\ conn_id' = i /\ buff_len' = n
      BY <2>2, <2>4, <2>5, <2>7
    <3>2. InData(i, d, a + 1)'
      <4>1. j + 1 \in 1..n
        BY <1>5, <2>1, <2>7
      <4>2. /\ a + 1 \in ((10 + w) + 1)..((10 + w) + n)
            /\ a + 1 \notin 10..(10 + w)
            /\ ~(a + 1 <= 3) /\ a + 1 \notin 4..7 /\ a + 1 # 8 /\ a + 1 # 9
        <5>1. a = (10 + w) + j /\ j \in Nat /\ j >= 1 /\ j + 1 <= n
          BY <1>5, <2>1, <4>1
        <5>2. w \in 1..4 /\ n \in Nat
          BY <1>5
        <5>3. a + 1 \in ((10 + w) + 1)..((10 + w) + n)
          BY <5>1, <5>2
        <5>4. a + 1 > 10 + w
          BY <5>1, <5>2
        <5>5. a + 1 > 11
          BY <5>2, <5>4
        <5> QED
          BY <5>1, <5>2, <5>3, <5>4, <5>5
      <4> QED
        BY <1>3, <1>5, <2>1, <3>1, <4>2 DEF InData
    <3>3. a # 10 + w + n /\ a < 10 + w + n
      <4>1. j < n
        BY <1>5, <2>1, <2>7
      <4>2. a = (10 + w) + j /\ j \in Nat
        BY <1>5, <2>1
      <4> QED
        BY <1>5, <4>1, <4>2
    <3> QED
      BY <1>9, <3>1, <3>2, <3>3, NoMatter
  <2> QED
    BY <2>6, <2>7
<1> QED
  BY <1>2, <1>5, <1>6, <1>10, <1>11, <1>12, <1>13, <1>14, <1>15, <1>16, <1>17, <1>18

(* Whatever the modem says, the parser is a byte further in it.             *)
LEMMA MessageReads ==
    ASSUME IInv, NEW m, Sayable(m),
           NEW a \in 1..Len(Encode(m)), Inside(m, a), ParseChar(Encode(m)[a])
    PROVE  Reads(m, a)
<1>1. m.kind \in {"line", "prompt", "connect", "closed", "ipd"}
  BY DEF Sayable
<1> QED
  BY <1>1, LineReads, PromptReads, NoticeReads, PayloadReads, Zenon

-----------------------------------------------------------------------------
(* The bytes s under way to the parser, of what has been said, ms: each is  *)
(* the byte of its place, the next one has the next place, the last one     *)
(* ends the last message, and no message from here on is missing.           *)
Length(ms, i) == Len(Encode(ms[i]))
Placed(b, ms) == /\ b.of \in 1..Len(ms) /\ b.at \in 1..Length(ms, b.of)
                 /\ b.c = Encode(ms[b.of])[b.at]
NextTo(b, d, ms) ==
    \/ b.at < Length(ms, b.of) /\ d.of = b.of /\ d.at = b.at + 1
    \/ b.at = Length(ms, b.of) /\ d.of = b.of + 1 /\ d.at = 1
Ends(b, ms) == b.of = Len(ms) /\ b.at = Length(ms, b.of)
Here(s, ms) == IF s = <<>> THEN Byte("cr", Len(ms) + 1, 1) ELSE s[1]
Flow(s, ms) ==
    /\ \A k \in 1..Len(s) : Placed(s[k], ms)
    /\ \A k \in 1..(Len(s) - 1) : NextTo(s[k], s[k + 1], ms)
    /\ s # <<>> => Ends(s[Len(s)], ms)
    /\ \A i \in Nat : Here(s, ms).of <= i /\ i <= Len(ms) => \E k \in 1..Len(s) : s[k].of = i

(* The parser has reached byte b of what has been said.                     *)
ParserAt(s, ms) ==
    IF s = <<>> THEN state = "CLEAR" ELSE Inside(ms[s[1].of], s[1].at)

(* The reports g are the ones due when byte b is the next one to be read.   *)
DeliveredIn(g, i) == \E k \in 1..Len(g) : g[k].of = i
Relay(g, ms, b) ==
    /\ \A k \in 1..Len(g) : /\ g[k].of \in 1..Len(ms)
                            /\ Matters(Meaning(ms[g[k].of]))
                            /\ g[k].msg = Meaning(ms[g[k].of])
    /\ \A j, k \in 1..Len(g) : j < k => g[j].of < g[k].of
    /\ \A i \in 1..Len(ms) : Matters(Meaning(ms[i])) =>
          (DeliveredIn(g, i) <=> i < b.of \/ (i = b.of /\ b.at > EmitAt(ms[i])))

Carried ==
    /\ qin \in Seq(Places) /\ wire \in Seq(Places) /\ console \in Seq(Char)
    /\ said \in Seq(Say) /\ got \in Seq([of : Nat, msg : Msg])
    /\ lost \in Nat /\ typed \in Nat

WIInv ==
    /\ IInv /\ Carried
    /\ Undisturbed => hurt = {} /\ console = <<>>
    /\ hurt = {} => /\ Flow(Stream, said) /\ ParserAt(Stream, said)
                    /\ Relay(got, said, Here(Stream, said))
    /\ PromptReal

-----------------------------------------------------------------------------
(* The bytes of a message, and where in it the report falls due.            *)
LEMMA EncodeWell ==
    ASSUME NEW m, Sayable(m)
    PROVE  /\ Encode(m) \in Seq(Char) /\ Len(Encode(m)) \in Nat \ {0}
           /\ EmitAt(m) \in 1..Len(Encode(m))
<1>1. CASE m.kind = "line"
  <2>1. m.text \in Seq(Char)
    BY <1>1 DEF Sayable
  <2>2. EmitAt(m) = Len(m.text) + 3
    BY <1>1 DEF EmitAt
  <2>3. Encode(m) \in Seq(Char) /\ Len(Encode(m)) = Len(m.text) + 4
    BY <1>1, <2>1, LineBytes
  <2>4. Len(m.text) \in Nat
    BY <2>1
  <2> QED
    BY <2>2, <2>3, <2>4
<1>2. CASE m.kind = "prompt"
  <2>1. Encode(m) = <<">", "blank">> /\ EmitAt(m) = 2
    BY <1>2 DEF Encode, EmitAt
  <2>2. ">" \in Char /\ "blank" \in Char
    BY DEF Char, Space
  <2> QED
    BY <2>1, <2>2
<1>3. ASSUME NEW op, \/ m.kind = "connect" /\ op = ConnectOp
                     \/ m.kind = "closed" /\ op = ClosedOp
      PROVE  /\ Encode(m) \in Seq(Char) /\ Len(Encode(m)) \in Nat \ {0}
             /\ EmitAt(m) \in 1..Len(Encode(m))
  <2>1. m.id \in 0..9
    <3>1. m \in [kind : {"connect", "closed"}, id : 0..(ID_MAX - 1)]
      BY <1>3 DEF Sayable
    <3> QED
      BY <3>1, ParserAssumption
  <2>2. op \in Seq(Letter) /\ Len(op) \in {6, 7}
    BY <1>3, Words
  <2>3. Encode(m) \in Seq(Char) /\ Len(Encode(m)) = Len(op) + 4
    BY <1>3, <2>1, <2>2, NoticeBytes
  <2>4. EmitAt(m) = Len(op) + 2
    BY <1>3 DEF EmitAt
  <2> QED
    BY <2>2, <2>3, <2>4
<1>4. CASE m.kind = "ipd"
  <2>1. m.id \in 0..9 /\ m.data \in Seq(Char) /\ Len(m.data) <= BUFF_MAXLEN
        /\ Len(m.data) \in Nat \ {0}
    <3>1. m \in [kind : {"ipd"}, id : 0..(ID_MAX - 1), data : Seq(Char)]
          /\ Len(m.data) \in 1..BUFF_MAXLEN
      BY <1>4 DEF Sayable
    <3> QED
      BY <3>1, ParserAssumption
  <2>2. DataShape(Encode(m), m.id, m.data, Width(Len(m.data)))
    BY <1>4, <2>1, DataBytes
  <2>3. EmitAt(m) = (10 + Width(Len(m.data))) + Len(m.data)
    BY <1>4 DEF EmitAt, Header
  <2>4. /\ Width(Len(m.data)) \in 1..4 /\ Encode(m) \in Seq(Char)
        /\ Len(Encode(m)) = 10 + Width(Len(m.data)) + Len(m.data)
    BY <2>2 DEF DataShape
  <2> QED
    BY <2>1, <2>3, <2>4
<1>5. m.kind \in {"line", "prompt", "connect", "closed", "ipd"}
  BY DEF Sayable
<1> QED
  BY <1>1, <1>2, <1>3, <1>4, <1>5

(* Between two messages the parser is at the start of any.                  *)
LEMMA StartInside ==
    ASSUME NEW m, Sayable(m)
    PROVE  (state = "CLEAR" => Inside(m, 1)) /\ (state' = "CLEAR" => Inside(m, 1)')
<1>1. m.kind = "line" => Len(m.text) \in Nat /\ Len(m.text) # 0
  BY DEF Sayable
<1>2. Len(ConnectOp) = 7 /\ Len(ClosedOp) = 6
  BY Words
<1>3. m.kind = "ipd" => Width(Len(m.data)) \in 1..4
  <2>1. SUFFICES ASSUME m.kind = "ipd" PROVE Width(Len(m.data)) \in 1..4
    OBVIOUS
  <2>2. m.data \in Seq(Char) /\ Len(m.data) \in Nat /\ Len(m.data) <= BUFF_MAXLEN
    BY <2>1, ParserAssumption DEF Sayable
  <2>3. Len(m.data) < 10000
    BY <2>2, WireAssumption, ParserAssumption
  <2> QED
    BY <2>2, <2>3, WidthRange
<1>4. ASSUME state = "CLEAR" PROVE Inside(m, 1)
  <2>1. m.kind = "line" => InLine(m.text, 1)
    BY <1>1, <1>4 DEF InLine
  <2>2. InNotice(m.id, ConnectOp, 1) /\ InNotice(m.id, ClosedOp, 1)
    BY <1>2, <1>4 DEF InNotice
  <2>3. m.kind = "ipd" => InData(m.id, m.data, 1)
    BY <1>3, <1>4 DEF InData, Header
  <2> QED
    BY <1>4, <2>1, <2>2, <2>3 DEF Inside
<1>5. ASSUME state' = "CLEAR" PROVE Inside(m, 1)'
  <2>1. m.kind = "line" => InLine(m.text, 1)'
    BY <1>1, <1>5 DEF InLine
  <2>2. InNotice(m.id, ConnectOp, 1)' /\ InNotice(m.id, ClosedOp, 1)'
    BY <1>2, <1>5 DEF InNotice
  <2>3. m.kind = "ipd" => InData(m.id, m.data, 1)'
    BY <1>3, <1>5 DEF InData, Header
  <2> QED
    BY <1>5, <2>1, <2>2, <2>3 DEF Inside
<1> QED
  BY <1>4, <1>5

(* One byte is read.                                                        *)
LEMMA FlowTail ==
    ASSUME NEW ms, Len(ms) \in Nat, NEW s \in Seq(Places), s # <<>>, Flow(s, ms),
           NEW h, h = Here(Tail(s), ms), NEW b, b = s[1]
    PROVE  /\ Flow(Tail(s), ms)
           /\ \/ b.at < Length(ms, b.of) /\ Tail(s) # <<>> /\ h.of = b.of /\ h.at = b.at + 1
              \/ b.at = Length(ms, b.of) /\ h.of = b.of + 1 /\ h.at = 1
<1> DEFINE t == Tail(s)
<1>1. /\ t \in Seq(Places) /\ Len(s) \in Nat /\ Len(s) >= 1 /\ Len(t) = Len(s) - 1
      /\ \A k \in 1..Len(t) : t[k] = s[k + 1] /\ k + 1 \in 1..Len(s)
  OBVIOUS
<1>2. b = s[1] /\ Placed(b, ms) /\ b.of \in Nat /\ b.at \in Nat
  <2>1. 1 \in 1..Len(s)
    BY <1>1
  <2>2. s[1] \in Places
    BY <2>1
  <2> QED
    BY <2>1, <2>2 DEF Flow, Places
<1>3. t = <<>> <=> Len(s) = 1
  BY <1>1
<1>4. CASE t = <<>>
  <2>1. Ends(b, ms) /\ h = Byte("cr", Len(ms) + 1, 1)
    BY <1>2, <1>3, <1>4 DEF Flow, Here
  <2>2. h.of = Len(ms) + 1 /\ h.at = 1
    BY <2>1 DEF Byte
  <2>3. Flow(t, ms)
    <3>1. Len(t) = 0 /\ 1..0 = {} /\ 1..(0 - 1) = {}
      BY <1>1, <1>3, <1>4
    <3>2. \A i \in Nat : ~(Len(ms) + 1 <= i /\ i <= Len(ms))
      OBVIOUS
    <3>3. Here(t, ms).of = Len(ms) + 1
      BY <1>4, <2>2
    <3> HIDE DEF t
    <3> QED
      BY <1>4, <3>1, <3>2, <3>3 DEF Flow
  <2> QED
    BY <2>1, <2>2, <2>3 DEF Ends
<1>5. CASE t # <<>>
  <2>1. 1 \in 1..(Len(s) - 1) /\ 1 \in 1..Len(t) /\ Len(t) >= 1 /\ 1 + 1 = 2
    BY <1>1, <1>3, <1>5
  <2>2. h = s[2] /\ NextTo(b, h, ms)
    <3>1. h = t[1]
      BY <1>5 DEF Here
    <3>2. t[1] = s[2]
      BY <1>1, <2>1
    <3>3. NextTo(s[1], s[1 + 1], ms)
      BY <2>1 DEF Flow
    <3> QED
      BY <1>2, <2>1, <3>1, <3>2, <3>3
  <2>3. \A k \in 1..Len(t) : Placed(t[k], ms)
    BY <1>1 DEF Flow
  <2>4. ASSUME NEW k \in 1..(Len(t) - 1) PROVE NextTo(t[k], t[k + 1], ms)
    <3>1. k \in 1..Len(t) /\ k + 1 \in 1..Len(t) /\ k + 1 \in 1..(Len(s) - 1)
      BY <1>1
    <3>2. t[k] = s[k + 1] /\ t[k + 1] = s[(k + 1) + 1]
      BY <1>1, <3>1
    <3>3. NextTo(s[k + 1], s[(k + 1) + 1], ms)
      BY <3>1 DEF Flow
    <3> QED
      BY <3>2, <3>3
  <2>5. Ends(t[Len(t)], ms)
    <3>1. Len(t) \in 1..Len(t) /\ Len(t) + 1 = Len(s)
      BY <1>1, <2>1
    <3>2. t[Len(t)] = s[Len(s)]
      BY <1>1, <3>1
    <3> QED
      BY <3>2 DEF Flow
  <2>6. ASSUME NEW i \in Nat, h.of <= i, i <= Len(ms) PROVE \E k \in 1..Len(t) : t[k].of = i
    <3>1. h.of \in Nat /\ b.of <= h.of /\ t[1] = h
      <4>1. h.of = b.of \/ h.of = b.of + 1
        BY <2>2 DEF NextTo
      <4>2. t[1] = h
        BY <1>1, <2>1, <2>2
      <4>3. b.of \in Nat
        BY <1>2
      <4>4. h.of \in Nat /\ b.of <= h.of
        BY <4>1, <4>3
      <4> QED
        BY <4>2, <4>4
    <3>2. Here(s, ms).of <= i
      <4>1. Here(s, ms) = b
        BY DEF Here
      <4>2. b.of \in Nat
        BY <1>2
      <4> QED
        BY <2>6, <3>1, <4>1, <4>2
    <3>3. PICK k \in 1..Len(s) : s[k].of = i
      BY <2>6, <3>2 DEF Flow
    <3>4. CASE k = 1
      <4>1. h.of = i
        BY <1>2, <2>6, <3>1, <3>3, <3>4
      <4> QED
        BY <2>1, <3>1, <4>1
    <3>5. CASE k # 1
      <4>1. k - 1 \in 1..Len(t) /\ (k - 1) + 1 = k
        BY <1>1, <3>5
      <4>2. t[k - 1].of = i
        BY <1>1, <3>3, <4>1
      <4> QED
        BY <4>1, <4>2
    <3> QED
      BY <3>4, <3>5
  <2>7. Here(t, ms) = h
    OBVIOUS
  <2>8. Flow(t, ms)
    <3> HIDE DEF t
    <3> QED
      BY <2>3, <2>4, <2>5, <2>6, <2>7 DEF Flow
  <2> QED
    BY <1>5, <2>2, <2>8 DEF NextTo
<1> QED
  BY <1>4, <1>5

(* A message more is said.                                                  *)
Bytes(m, i) == [a \in 1..Len(Encode(m)) |-> Byte(Encode(m)[a], i, a)]

LEMMA BytesWell ==
    ASSUME NEW m, Sayable(m), NEW i \in Nat
    PROVE  /\ Bytes(m, i) \in Seq(Places) /\ Len(Bytes(m, i)) = Len(Encode(m))
           /\ Len(Encode(m)) \in Nat \ {0}
           /\ \A a \in 1..Len(Encode(m)) : /\ Bytes(m, i)[a].c = Encode(m)[a]
                                           /\ Bytes(m, i)[a].of = i /\ Bytes(m, i)[a].at = a
<1> DEFINE e == Encode(m)
           l == Len(e)
<1>1. e \in Seq(Char) /\ l \in Nat \ {0}
  BY EncodeWell
<1>2. ASSUME NEW a \in 1..l PROVE Byte(e[a], i, a) \in Places
  <2>1. e[a] \in Char /\ a \in Nat
    BY <1>1
  <2> QED
    BY <2>1 DEF Byte, Places
<1> HIDE DEF e, l
<1>3. [a \in 1..l |-> Byte(e[a], i, a)] \in [1..l -> Places]
  BY <1>2
<1>4. Bytes(m, i) = [a \in 1..l |-> Byte(e[a], i, a)]
  BY DEF Bytes, l, e
<1>5. Bytes(m, i) \in Seq(Places) /\ Len(Bytes(m, i)) = l
  BY <1>1, <1>3, <1>4, IsASeq, LenProperties
<1>6. ASSUME NEW a \in 1..l
      PROVE  Bytes(m, i)[a].c = e[a] /\ Bytes(m, i)[a].of = i /\ Bytes(m, i)[a].at = a
  BY <1>4 DEF Byte
<1> QED
  BY <1>1, <1>5, <1>6 DEF e, l

Saying(ms, m, s, ns, t) == ns = Append(ms, m) /\ t = s \o Bytes(m, Len(ms) + 1)

LEMMA FlowSay ==
    ASSUME NEW ms \in Seq(Say), NEW m \in Say, NEW s \in Seq(Places), Flow(s, ms),
           NEW ns, NEW t, Saying(ms, m, s, ns, t)
    PROVE  /\ Flow(t, ns) /\ t # <<>>
           /\ Here(t, ns).of = Here(s, ms).of /\ Here(t, ns).at = Here(s, ms).at
<1> DEFINE w == Bytes(m, Len(ms) + 1)
           L == Len(Encode(m))
           n == Len(s)
           z == Len(ms)
<1>1. n \in Nat /\ z \in Nat /\ Sayable(m)
  BY WireAssumption
<1>2. /\ w \in Seq(Places) /\ Len(w) = L /\ L \in Nat /\ L >= 1
      /\ \A a \in 1..L : w[a].c = Encode(m)[a] /\ w[a].of = z + 1 /\ w[a].at = a
  BY <1>1, BytesWell
<1>3. /\ Len(ns) = z + 1 /\ ns[z + 1] = m
      /\ \A i \in 1..z : ns[i] = ms[i]
  BY DEF Saying
<1>4. t = s \o w
  BY DEF Saying
<1>5. n = Len(s) /\ z = Len(ms) /\ L = Len(Encode(m))
  OBVIOUS
<1> HIDE DEF w, L, n, z
<1>6. /\ Len(t) = n + L
      /\ \A k \in 1..n : t[k] = s[k]
      /\ \A a \in 1..L : t[n + a] = w[a]
  <2>1. s \in Seq(Places) /\ w \in Seq(Places)
    BY <1>2
  <2>2. /\ Len(s \o w) = Len(s) + Len(w)
        /\ \A k \in 1..Len(s) : (s \o w)[k] = s[k]
        /\ \A a \in 1..Len(w) : (s \o w)[Len(s) + a] = w[a]
    BY <2>1, Joined
  <2>3. Len(s) = n /\ Len(w) = L
    BY <1>2, <1>5
  <2> QED
    BY <1>4, <2>2, <2>3
<1>7. Length(ns, z + 1) = L /\ \A i \in 1..z : Length(ns, i) = Length(ms, i)
  BY <1>3, <1>5 DEF Length
<1>8. ASSUME NEW k \in 1..n
      PROVE  Placed(s[k], ms) /\ Placed(t[k], ns) /\ s[k].of \in 1..z
  <2>1. Placed(s[k], ms) /\ s[k].of \in 1..z
    BY <1>5 DEF Flow, Placed
  <2>2. ns[s[k].of] = ms[s[k].of] /\ t[k] = s[k] /\ s[k].of \in 1..(z + 1)
    <3>1. \A i \in 1..z : i \in 1..(z + 1)
      BY <1>1
    <3> QED
      BY <1>3, <1>6, <2>1, <3>1
  <2> QED
    BY <1>3, <2>1, <2>2 DEF Placed, Length
<1>9. ASSUME NEW a \in 1..L
      PROVE  Placed(t[n + a], ns) /\ t[n + a].of = z + 1 /\ t[n + a].at = a
  <2>1. t[n + a].c = Encode(m)[a] /\ t[n + a].of = z + 1 /\ t[n + a].at = a
    BY <1>2, <1>6
  <2>2. z + 1 \in 1..Len(ns)
    BY <1>1, <1>3
  <2> QED
    BY <1>3, <1>7, <2>1, <2>2 DEF Placed
<1>10. ASSUME NEW k \in 1..Len(t) PROVE Placed(t[k], ns)
  <2>1. CASE k <= n
    <3>1. k \in 1..n
      BY <1>1, <2>1
    <3> QED
      BY <1>8, <3>1
  <2>2. CASE ~(k <= n)
    <3>1. k - n \in 1..L /\ n + (k - n) = k
      BY <1>1, <1>2, <1>6, <2>2
    <3>2. Placed(t[n + (k - n)], ns)
      BY <1>9, <3>1
    <3> QED
      BY <3>1, <3>2
  <2> QED
    BY <2>1, <2>2
<1>11. ASSUME NEW k \in 1..(Len(t) - 1) PROVE NextTo(t[k], t[k + 1], ns)
  <2>1. CASE k < n
    <3>1. k \in 1..n /\ k + 1 \in 1..n /\ k \in 1..(n - 1)
      BY <1>1, <2>1
    <3>2. NextTo(s[k], s[k + 1], ms) /\ t[k] = s[k] /\ t[k + 1] = s[k + 1]
      BY <1>5, <1>6, <3>1 DEF Flow
    <3>3. Length(ns, s[k].of) = Length(ms, s[k].of)
      BY <1>7, <1>8, <3>1
    <3> QED
      BY <3>2, <3>3 DEF NextTo
  <2>2. CASE k = n
    <3>1. n \in 1..n /\ n # 0 /\ 1 \in 1..L
      BY <1>1, <1>2, <2>2
    <3>2. s # <<>>
      BY <1>5, <3>1
    <3>3. Ends(s[n], ms) /\ t[n] = s[n] /\ s[n].of \in 1..z
      BY <1>5, <1>6, <1>8, <3>1, <3>2 DEF Flow
    <3>4. t[n + 1].of = z + 1 /\ t[n + 1].at = 1
      BY <1>9, <3>1
    <3>5. s[n].of = z /\ s[n].at = Length(ns, z)
      BY <1>5, <1>7, <3>3 DEF Ends
    <3> QED
      BY <2>2, <3>3, <3>4, <3>5 DEF NextTo
  <2>3. CASE k > n
    <3> DEFINE a == k - n
    <3>1. a \in 1..L /\ a + 1 \in 1..L /\ n + a = k /\ n + (a + 1) = k + 1 /\ a < L
      BY <1>1, <1>2, <1>6, <2>3
    <3> HIDE DEF a
    <3>2. t[k].of = z + 1 /\ t[k].at = a /\ t[k + 1].of = z + 1 /\ t[k + 1].at = a + 1
      BY <1>9, <3>1
    <3> QED
      BY <1>7, <3>1, <3>2 DEF NextTo
  <2> QED
    BY <1>1, <2>1, <2>2, <2>3
<1>12. t # <<>> /\ Ends(t[Len(t)], ns)
  <2>1. L \in 1..L /\ Len(t) # 0
    BY <1>1, <1>2, <1>6
  <2>2. t[n + L].of = z + 1 /\ t[n + L].at = L
    BY <1>9, <2>1
  <2> QED
    BY <1>3, <1>6, <1>7, <2>1, <2>2 DEF Ends
<1>13. Here(t, ns).of = Here(s, ms).of /\ Here(t, ns).at = Here(s, ms).at
  <2>1. Here(t, ns) = t[1]
    BY <1>12 DEF Here
  <2>2. CASE s = <<>>
    <3>1. n = 0 /\ 1 \in 1..L /\ 0 + 1 = 1
      BY <1>2, <1>5, <2>2
    <3>2. t[1].of = z + 1 /\ t[1].at = 1
      BY <1>9, <3>1
    <3>3. Here(s, ms).of = z + 1 /\ Here(s, ms).at = 1
      BY <1>5, <2>2 DEF Here, Byte
    <3> QED
      BY <2>1, <3>2, <3>3
  <2>3. CASE s # <<>>
    <3>1. 1 \in 1..n
      BY <1>5, <2>3
    <3> QED
      BY <1>6, <2>1, <2>3, <3>1 DEF Here
  <2> QED
    BY <2>2, <2>3
<1>14. ASSUME NEW i \in Nat, Here(t, ns).of <= i, i <= Len(ns)
       PROVE  \E k \in 1..Len(t) : t[k].of = i
  <2>1. CASE i <= z
    <3>1. PICK k \in 1..n : s[k].of = i
      BY <1>5, <1>13, <1>14, <2>1 DEF Flow
    <3>2. k \in 1..Len(t) /\ t[k] = s[k]
      <4>1. k \in 1..(n + L)
        BY <1>1, <1>2
      <4> QED
        BY <1>6, <4>1
    <3> QED
      BY <3>1, <3>2
  <2>2. CASE ~(i <= z)
    <3>1. i = z + 1 /\ 1 \in 1..L /\ n + 1 \in 1..Len(t)
      BY <1>1, <1>2, <1>3, <1>6, <1>14, <2>2
    <3> QED
      BY <1>9, <3>1
  <2> QED
    BY <2>1, <2>2
<1> QED
  BY <1>10, <1>11, <1>12, <1>13, <1>14 DEF Flow

(* What is due does not change when a message more is said.                 *)
LEMMA RelaySay ==
    ASSUME NEW ms \in Seq(Say), NEW m \in Say, NEW ns, ns = Append(ms, m),
           NEW g, Len(g) \in Nat, NEW b, NEW h, Relay(g, ms, b), h.of = b.of, h.at = b.at,
           b.of \in Nat, b.at \in Nat, b.of <= Len(ms) + 1, b.of = Len(ms) + 1 => b.at = 1
    PROVE  Relay(g, ns, h)
<1> DEFINE z == Len(ms)
<1>1. /\ z \in Nat /\ Len(ns) = z + 1 /\ ns[z + 1] = m
      /\ \A i \in 1..z : ns[i] = ms[i] /\ i \in 1..(z + 1)
  OBVIOUS
<1>2. z = Len(ms)
  OBVIOUS
<1> HIDE DEF z
<1>3. ASSUME NEW k \in 1..Len(g)
      PROVE  /\ g[k].of \in 1..z /\ g[k].of \in 1..Len(ns)
             /\ Matters(Meaning(ns[g[k].of])) /\ g[k].msg = Meaning(ns[g[k].of])
  BY <1>1, <1>2 DEF Relay
<1>4. \A j, k \in 1..Len(g) : j < k => g[j].of < g[k].of
  BY DEF Relay
<1>5. ASSUME NEW i \in 1..Len(ns), Matters(Meaning(ns[i]))
      PROVE  DeliveredIn(g, i) <=> i < h.of \/ (i = h.of /\ h.at > EmitAt(ns[i]))
  <2>1. CASE i \in 1..z
    <3>1. ns[i] = ms[i]
      BY <1>1, <2>1
    <3>2. DeliveredIn(g, i) <=> i < b.of \/ (i = b.of /\ b.at > EmitAt(ms[i]))
      BY <1>2, <1>5, <2>1, <3>1 DEF Relay
    <3> QED
      BY <3>1, <3>2
  <2>2. CASE i \notin 1..z
    <3>1. i = z + 1 /\ ~(i < h.of) /\ (i = h.of => h.at = 1)
      BY <1>1, <1>2, <2>2
    <3>2. ~DeliveredIn(g, i)
      <4>1. z + 1 \notin 1..z
        BY <1>1
      <4> QED
        BY <1>3, <3>1, <4>1 DEF DeliveredIn
    <3>3. EmitAt(ns[i]) \in Nat /\ EmitAt(ns[i]) >= 1
      <4>1. ns[i] = m /\ Sayable(m)
        BY <1>1, <3>1, WireAssumption
      <4>2. EmitAt(m) \in 1..Len(Encode(m)) /\ Len(Encode(m)) \in Nat
        BY <4>1, EncodeWell
      <4> QED
        BY <4>1, <4>2
    <3> QED
      BY <3>1, <3>2, <3>3
  <2> QED
    BY <2>1, <2>2
<1> QED
  BY <1>3, <1>4, <1>5 DEF Relay

(* Reading byte b, which is followed by h, makes the reports due at h.      *)
Reported(g, b, o) == IF Matters(o) THEN Append(g, [of |-> b.of, msg |-> o]) ELSE g

LEMMA RelayRead ==
    ASSUME NEW ms \in Seq(Say), NEW g \in Seq([of : Nat, msg : Msg]), NEW b, NEW h, NEW o, NEW ng,
           Relay(g, ms, b), Placed(b, ms), b.of \in Nat, b.at \in Nat,
           \/ b.at < Length(ms, b.of) /\ h.of = b.of /\ h.at = b.at + 1
           \/ b.at = Length(ms, b.of) /\ h.of = b.of + 1 /\ h.at = 1,
           Matters(o) <=> (b.at = EmitAt(ms[b.of]) /\ Matters(Meaning(ms[b.of]))),
           Matters(o) => o = Meaning(ms[b.of]), o \in Msg,
           ng = Reported(g, b, o)
    PROVE  Relay(ng, ms, h)
<1> DEFINE z == Len(ms)
           x == [of |-> b.of, msg |-> o]
           n == Len(g)
<1>1. z \in Nat /\ n \in Nat /\ b.of \in 1..z /\ b.at \in 1..Length(ms, b.of)
  BY DEF Placed
<1>2. \A i \in 1..z : /\ Length(ms, i) \in Nat /\ EmitAt(ms[i]) \in 1..Length(ms, i)
  <2>1. ASSUME NEW i \in 1..z PROVE Sayable(ms[i])
    BY <2>1, WireAssumption
  <2> QED
    BY <2>1, EncodeWell DEF Length
<1>3. \A k \in 1..n : /\ g[k].of \in 1..z
                      /\ Matters(Meaning(ms[g[k].of]))
                      /\ g[k].msg = Meaning(ms[g[k].of])
  BY DEF Relay
<1>4. \A j, k \in 1..n : j < k => g[j].of < g[k].of
  BY DEF Relay
<1>5. \A i \in 1..z : Matters(Meaning(ms[i])) =>
          (DeliveredIn(g, i) <=> i < b.of \/ (i = b.of /\ b.at > EmitAt(ms[i])))
  BY DEF Relay
<1>6. x.of = b.of /\ x.msg = o
  OBVIOUS
<1>7. /\ Matters(o) => /\ Len(ng) = n + 1 /\ ng[n + 1] = x
                       /\ \A k \in 1..n : ng[k] = g[k]
      /\ ~Matters(o) => ng = g
  <2>1. x \in [of : Nat, msg : Msg]
    OBVIOUS
  <2> HIDE DEF x
  <2>2. ng = IF Matters(o) THEN Append(g, x) ELSE g
    BY DEF x, Reported
  <2>3. CASE Matters(o)
    BY <2>1, <2>2, <2>3
  <2>4. CASE ~Matters(o)
    BY <2>2, <2>4
  <2> QED
    BY <2>3, <2>4
<1>8. n = Len(g) /\ z = Len(ms)
  OBVIOUS
<1> HIDE DEF z, x, n
<1>9. ASSUME NEW i \in 1..z
      PROVE  DeliveredIn(ng, i) <=> DeliveredIn(g, i) \/ (Matters(o) /\ i = b.of)
  <2>1. CASE Matters(o)
    <3>1. ASSUME DeliveredIn(g, i) PROVE DeliveredIn(ng, i)
      <4>1. PICK k \in 1..n : g[k].of = i
        BY <1>8, <3>1 DEF DeliveredIn
      <4>2. k \in 1..(n + 1) /\ ng[k] = g[k]
        BY <1>1, <1>7, <2>1
      <4> QED
        BY <1>7, <2>1, <4>1, <4>2 DEF DeliveredIn
    <3>2. ASSUME i = b.of PROVE DeliveredIn(ng, i)
      <4>1. n + 1 \in 1..(n + 1)
        BY <1>1
      <4> QED
        BY <1>6, <1>7, <2>1, <3>2, <4>1 DEF DeliveredIn
    <3>3. ASSUME DeliveredIn(ng, i) PROVE DeliveredIn(g, i) \/ i = b.of
      <4>1. PICK k \in 1..(n + 1) : ng[k].of = i
        BY <1>7, <2>1, <3>3 DEF DeliveredIn
      <4>2. CASE k = n + 1
        BY <1>6, <1>7, <2>1, <4>1, <4>2
      <4>3. CASE k # n + 1
        <5>1. k \in 1..n
          BY <1>1, <4>3
        <5> QED
          BY <1>7, <1>8, <2>1, <4>1, <5>1 DEF DeliveredIn
      <4> QED
        BY <4>2, <4>3
    <3> QED
      BY <2>1, <3>1, <3>2, <3>3
  <2>2. CASE ~Matters(o)
    BY <1>7, <2>2
  <2> QED
    BY <2>1, <2>2
<1>10. ASSUME NEW k \in 1..Len(ng)
       PROVE  /\ ng[k].of \in 1..z /\ Matters(Meaning(ms[ng[k].of]))
              /\ ng[k].msg = Meaning(ms[ng[k].of])
  <2>1. CASE Matters(o) /\ k = n + 1
    BY <1>1, <1>6, <1>7, <2>1
  <2>2. CASE ~(Matters(o) /\ k = n + 1)
    <3>1. k \in 1..n /\ ng[k] = g[k]
      BY <1>1, <1>7, <1>8, <2>2
    <3> QED
      BY <1>3, <3>1
  <2> QED
    BY <2>1, <2>2
<1>11. ASSUME NEW j \in 1..Len(ng), NEW k \in 1..Len(ng), j < k
       PROVE  ng[j].of < ng[k].of
  <2>1. CASE Matters(o) /\ k = n + 1
    <3>1. j \in 1..n /\ ng[j] = g[j] /\ ng[k].of = b.of
      BY <1>1, <1>6, <1>7, <1>11, <2>1
    <3>2. g[j].of \in 1..z /\ Matters(Meaning(ms[g[j].of])) /\ DeliveredIn(g, g[j].of)
      BY <1>3, <1>8, <3>1 DEF DeliveredIn
    <3>3. g[j].of < b.of \/ (g[j].of = b.of /\ b.at > EmitAt(ms[g[j].of]))
      BY <1>5, <3>2
    <3>4. b.at = EmitAt(ms[b.of])
      BY <2>1
    <3>5. ~(b.at > b.at)
      OBVIOUS
    <3> QED
      BY <3>1, <3>3, <3>4, <3>5
  <2>2. CASE ~(Matters(o) /\ k = n + 1)
    <3>1. k \in 1..n /\ j \in 1..n /\ ng[k] = g[k] /\ ng[j] = g[j]
      BY <1>1, <1>7, <1>8, <1>11, <2>2
    <3> QED
      BY <1>4, <1>11, <3>1
  <2> QED
    BY <2>1, <2>2
<1>12. ASSUME NEW i \in 1..z, Matters(Meaning(ms[i]))
       PROVE  DeliveredIn(ng, i) <=> i < h.of \/ (i = h.of /\ h.at > EmitAt(ms[i]))
  <2> DEFINE E == EmitAt(ms[i])
             S == Length(ms, b.of)
  <2>1. /\ DeliveredIn(ng, i) <=> DeliveredIn(g, i) \/ (Matters(o) /\ i = b.of)
        /\ DeliveredIn(g, i) <=> i < b.of \/ (i = b.of /\ b.at > E)
    BY <1>5, <1>9, <1>12
  <2>2. E \in Nat /\ E >= 1 /\ S \in Nat /\ (i = b.of => E <= S)
    BY <1>1, <1>2
  <2>3. i = b.of => (Matters(o) <=> b.at = E)
    BY <1>12
  <2>4. \/ b.at < S /\ h.of = b.of /\ h.at = b.at + 1
        \/ b.at = S /\ h.of = b.of + 1 /\ h.at = 1
    OBVIOUS
  <2> HIDE DEF E, S
  <2>5. DeliveredIn(ng, i) <=> i < b.of \/ (i = b.of /\ b.at >= E)
    BY <2>1, <2>2, <2>3
  <2>6. (i < b.of \/ (i = b.of /\ b.at >= E)) <=> (i < h.of \/ (i = h.of /\ h.at > E))
    BY <2>2, <2>4
  <2> QED
    BY <2>5, <2>6 DEF E
<1> QED
  BY <1>8, <1>10, <1>11, <1>12 DEF Relay

LEMMA Shifted ==
    ASSUME NEW q \in Seq(Places), NEW w \in Seq(Places), w # <<>>
    PROVE  /\ Append(q, Head(w)) \o Tail(w) = q \o w
           /\ Append(q, Head(w)) \in Seq(Places) /\ Tail(w) \in Seq(Places)
<1> DEFINE a == Append(q, Head(w))
           t == Tail(w)
           n == Len(q)
           z == Len(w)
<1>1. /\ n \in Nat /\ z \in Nat /\ z >= 1
      /\ a \in Seq(Places) /\ Len(a) = n + 1 /\ a[n + 1] = w[1]
      /\ \A k \in 1..n : a[k] = q[k]
  OBVIOUS
<1>2. t \in Seq(Places) /\ Len(t) = z - 1 /\ \A k \in 1..(z - 1) : t[k] = w[k + 1]
  OBVIOUS
<1>3. q \in Seq(Places) /\ w \in Seq(Places) /\ Len(q) = n /\ Len(w) = z
  OBVIOUS
<1> HIDE DEF a, t, n, z
<1> DEFINE l == a \o t
           r == q \o w
<1>4. /\ l \in Seq(Places) /\ Len(l) = (n + 1) + (z - 1)
      /\ \A k \in 1..(n + 1) : l[k] = a[k]
      /\ \A k \in 1..(z - 1) : l[(n + 1) + k] = t[k]
  <2>1. a \in Seq(Places) /\ t \in Seq(Places)
    BY <1>1, <1>2
  <2>2. /\ a \o t \in Seq(Places) /\ Len(a \o t) = Len(a) + Len(t)
        /\ \A i \in 1..Len(a) : (a \o t)[i] = a[i]
        /\ \A i \in 1..Len(t) : (a \o t)[Len(a) + i] = t[i]
    BY <2>1, Joined
  <2>3. Len(a) = n + 1 /\ Len(t) = z - 1
    BY <1>1, <1>2
  <2> QED
    BY <2>2, <2>3
<1>5. /\ r \in Seq(Places) /\ Len(r) = n + z
      /\ \A k \in 1..n : r[k] = q[k]
      /\ \A k \in 1..z : r[n + k] = w[k]
  <2>1. q \in Seq(Places) /\ w \in Seq(Places)
    OBVIOUS
  <2>2. /\ q \o w \in Seq(Places) /\ Len(q \o w) = Len(q) + Len(w)
        /\ \A i \in 1..Len(q) : (q \o w)[i] = q[i]
        /\ \A i \in 1..Len(w) : (q \o w)[Len(q) + i] = w[i]
    BY <2>1, Joined
  <2>3. Len(q) = n /\ Len(w) = z
    BY <1>3
  <2> QED
    BY <2>2, <2>3
<1> HIDE DEF l, r
<1>6. Len(l) = Len(r) /\ Len(l) = n + z
  BY <1>1, <1>4, <1>5
<1>7. ASSUME NEW k \in 1..(n + z) PROVE l[k] = r[k]
  <2>1. CASE k <= n
    <3>1. k \in 1..n /\ k \in 1..(n + 1)
      BY <1>1, <2>1
    <3> QED
      BY <1>1, <1>4, <1>5, <3>1
  <2>2. CASE k = n + 1
    <3>1. 1 \in 1..z /\ n + 1 \in 1..(n + 1)
      BY <1>1
    <3> QED
      BY <1>1, <1>4, <1>5, <2>2, <3>1
  <2>3. CASE k > n + 1
    <3> DEFINE j == k - (n + 1)
    <3>1. j \in 1..(z - 1) /\ (n + 1) + j = k /\ j + 1 \in 1..z /\ n + (j + 1) = k
      BY <1>1, <2>3
    <3> HIDE DEF j
    <3> QED
      BY <1>2, <1>4, <1>5, <3>1
  <2> QED
    BY <1>1, <2>1, <2>2, <2>3
<1>8. l = r
  BY <1>4, <1>5, <1>6, <1>7, SeqEqual
<1> QED
  BY <1>1, <1>2, <1>8 DEF l, r, a, t

LEMMA TailOf ==
    ASSUME NEW q \in Seq(Places), NEW w \in Seq(Places), q # <<>>
    PROVE  /\ Tail(q \o w) = Tail(q) \o w /\ q \o w \in Seq(Places)
           /\ q \o w # <<>> /\ (q \o w)[1] = Head(q)
           /\ Tail(q) \in Seq(Places) /\ Head(q) \in Places
<1> DEFINE t == Tail(q)
           n == Len(q)
           z == Len(w)
<1>1. /\ n \in Nat /\ z \in Nat /\ n >= 1 /\ Head(q) = q[1] /\ Head(q) \in Places
      /\ t \in Seq(Places) /\ Len(t) = n - 1 /\ \A k \in 1..(n - 1) : t[k] = q[k + 1]
  OBVIOUS
<1>3. q \in Seq(Places) /\ w \in Seq(Places) /\ Len(q) = n /\ Len(w) = z
  OBVIOUS
<1> HIDE DEF t, n, z
<1> DEFINE s == q \o w
           r == t \o w
<1>4. /\ s \in Seq(Places) /\ Len(s) = n + z
      /\ \A k \in 1..n : s[k] = q[k]
      /\ \A k \in 1..z : s[n + k] = w[k]
  <2>1. q \in Seq(Places) /\ w \in Seq(Places)
    OBVIOUS
  <2>2. /\ q \o w \in Seq(Places) /\ Len(q \o w) = Len(q) + Len(w)
        /\ \A i \in 1..Len(q) : (q \o w)[i] = q[i]
        /\ \A i \in 1..Len(w) : (q \o w)[Len(q) + i] = w[i]
    BY <2>1, Joined
  <2>3. Len(q) = n /\ Len(w) = z
    BY <1>3
  <2> QED
    BY <2>2, <2>3
<1>5. /\ r \in Seq(Places) /\ Len(r) = (n - 1) + z
      /\ \A k \in 1..(n - 1) : r[k] = t[k]
      /\ \A k \in 1..z : r[(n - 1) + k] = w[k]
  <2>1. t \in Seq(Places) /\ w \in Seq(Places)
    BY <1>1
  <2>2. /\ t \o w \in Seq(Places) /\ Len(t \o w) = Len(t) + Len(w)
        /\ \A i \in 1..Len(t) : (t \o w)[i] = t[i]
        /\ \A i \in 1..Len(w) : (t \o w)[Len(t) + i] = w[i]
    BY <2>1, Joined
  <2>3. Len(t) = n - 1 /\ Len(w) = z
    BY <1>1, <1>3
  <2> QED
    BY <2>2, <2>3
<1> HIDE DEF s, r
<1>6. s # <<>> /\ s[1] = Head(q)
  <2>1. 1 \in 1..n /\ Len(s) # 0
    BY <1>1, <1>4
  <2> QED
    BY <1>1, <1>4, <2>1
<1> DEFINE l == Tail(s)
<1>7. l \in Seq(Places) /\ Len(l) = Len(s) - 1 /\ \A k \in 1..(Len(s) - 1) : l[k] = s[k + 1]
  BY <1>4, <1>6
<1> HIDE DEF l
<1>8. Len(l) = (n - 1) + z /\ Len(l) = Len(r) /\ Len(s) - 1 = (n - 1) + z
  BY <1>1, <1>4, <1>5, <1>7
<1>9. ASSUME NEW k \in 1..((n - 1) + z) PROVE l[k] = r[k]
  <2>1. l[k] = s[k + 1]
    BY <1>7, <1>8
  <2>2. CASE k <= n - 1
    <3>1. k \in 1..(n - 1) /\ k + 1 \in 1..n
      BY <1>1, <2>2
    <3> QED
      BY <1>1, <1>4, <1>5, <2>1, <3>1
  <2>3. CASE ~(k <= n - 1)
    <3> DEFINE j == k - (n - 1)
    <3>1. j \in 1..z /\ (n - 1) + j = k /\ n + j = k + 1
      BY <1>1, <2>3
    <3> HIDE DEF j
    <3> QED
      BY <1>4, <1>5, <2>1, <3>1
  <2> QED
    BY <2>2, <2>3
<1>10. l = r
  BY <1>5, <1>7, <1>8, <1>9, SeqEqual
<1> QED
  BY <1>1, <1>4, <1>6, <1>10 DEF l, s, r, t

-----------------------------------------------------------------------------
(* A prompt is held out only by '>' in CLEAR and kept by blanks and         *)
(* newlines there.                                                          *)
LEMMA PromptOnly ==
    ASSUME IInv, NEW c \in Char, ParseChar(c), peri' = WONNA
    PROVE  state = "CLEAR" /\ ((c \in Newline /\ peri = WONNA) \/ c \in Space \cup {">"})
<1> USE DEF TO_PERI, CANSEND, WONNA, FROM_PERI
<1>1. state # "CLEAR" => peri = FROM_PERI
  BY DEF IInv, LineOwner
<1>2. ClearChar(c)
  <2>1. ASSUME MsgOpChar(c) PROVE FALSE
    <3>1. peri = FROM_PERI
      BY <1>1, <2>1 DEF MsgOpChar
    <3> QED
      BY <2>1, <3>1 DEF MsgOpChar, Goto, Resume, Skip
  <2>2. ASSUME NumberChar(c) PROVE FALSE
    <3>1. peri = FROM_PERI
      BY <1>1, <2>2 DEF NumberChar
    <3>2. peri' \in {FROM_PERI, CANSEND}
      BY <2>2, <3>1 DEF NumberChar, Goto, Resume, Skip, SkipLine
    <3> QED
      BY <3>2
  <2>3. ASSUME ConnOpChar(c) PROVE FALSE
    <3>1. peri = FROM_PERI
      BY <1>1, <2>3 DEF ConnOpChar
    <3> QED
      BY <2>3, <3>1 DEF ConnOpChar, Goto, Resume, Skip, SkipLine
  <2>4. ASSUME IpdDatChar(c) PROVE FALSE
    <3>1. peri = FROM_PERI
      BY <1>1, <2>4 DEF IpdDatChar
    <3> QED
      BY <2>4, <3>1 DEF IpdDatChar, Goto, Resume
  <2>5. ASSUME ErrorChar(c) PROVE FALSE
    <3>1. peri = FROM_PERI
      BY <1>1, <2>5 DEF ErrorChar
    <3> QED
      BY <2>5, <3>1 DEF ErrorChar, Goto, Resume, Skip, SkipLine
  <2> QED
    BY <2>1, <2>2, <2>3, <2>4, <2>5 DEF ParseChar
<1>3. state = "CLEAR"
  BY <1>2 DEF ClearChar
<1>4. c \in Newline \cup Space \cup {">"}
  BY <1>2 DEF ClearChar, Goto
<1>5. ASSUME c \in Newline PROVE peri = WONNA
  <2>1. c # ">" /\ c \notin Digit /\ c \notin Letter \cup {"+"} /\ c \notin Junk \cup {"comma", ":"}
    BY <1>5, ClassesApart DEF Punctuation
  <2> QED
    BY <1>2, <1>5, <2>1 DEF ClearChar, Goto
<1> QED
  BY <1>3, <1>4, <1>5

(* Where the parser is idle, only a prompt has such a byte.                 *)
LEMMA PromptBytes ==
    ASSUME NEW m, Sayable(m), NEW a \in 1..Len(Encode(m)), Inside(m, a), state = "CLEAR",
           Encode(m)[a] \in Space \cup {">"}
    PROVE  m.kind = "prompt"
<1> DEFINE c == Encode(m)[a]
<1>1. /\ c \notin Newline /\ c \notin Letter /\ c \notin Digit /\ c # "+"
  BY ClassesApart DEF Punctuation
<1>2. "cr" \in Newline /\ "lf" \in Newline
  BY DEF Newline
<1>3. ASSUME m.kind = "line" PROVE FALSE
  <2> DEFINE t == m.text
  <2>1. t \in Seq(Char) /\ Len(t) \in Nat \ {0} /\ t[1] \in Letter /\ InLine(t, a)
    BY <1>3 DEF Sayable, Inside
  <2>2. /\ Len(Encode(m)) = Len(t) + 4 /\ Encode(m)[1] = "cr" /\ Encode(m)[2] = "lf"
        /\ \A x \in 3..(Len(t) + 2) : Encode(m)[x] = t[x - 2]
        /\ Encode(m)[Len(t) + 4] = "lf"
    BY <1>3, <2>1, LineBytes
  <2> HIDE DEF t
  <2>3. a \in 1..(Len(t) + 4) /\ a \notin 4..(Len(t) + 3)
    BY <2>1, <2>2 DEF InLine
  <2>4. a \in {1, 2, 3, Len(t) + 4}
    BY <2>1, <2>3
  <2>5. 3 \in 3..(Len(t) + 2) /\ 3 - 2 = 1
    BY <2>1
  <2>6. c \in Newline \cup Letter
    BY <1>2, <2>1, <2>2, <2>4, <2>5
  <2> QED
    BY <1>1, <2>6
<1>4. ASSUME NEW op, \/ m.kind = "connect" /\ op = ConnectOp
                     \/ m.kind = "closed" /\ op = ClosedOp
      PROVE  FALSE
  <2>1. m.id \in 0..9
    <3>1. m \in [kind : {"connect", "closed"}, id : 0..(ID_MAX - 1)]
      BY <1>4 DEF Sayable
    <3> QED
      BY <3>1, ParserAssumption
  <2>2. op \in Seq(Letter) /\ Len(op) \in {6, 7} /\ InNotice(m.id, op, a)
    BY <1>4, Words DEF Inside
  <2>3. /\ Len(Encode(m)) = Len(op) + 4 /\ Encode(m)[1] \in Digit
        /\ Encode(m)[Len(op) + 3] = "cr" /\ Encode(m)[Len(op) + 4] = "lf"
    BY <1>4, <2>1, <2>2, NoticeBytes
  <2>4. a \in 1..(Len(op) + 4) /\ a # 2 /\ a \notin 3..(Len(op) + 2)
    BY <2>2, <2>3 DEF InNotice
  <2>5. a \in {1, Len(op) + 3, Len(op) + 4}
    BY <2>2, <2>4
  <2>6. c \in Newline \cup Digit
    BY <1>2, <2>3, <2>5
  <2> QED
    BY <1>1, <2>6
<1>5. ASSUME m.kind = "ipd" PROVE FALSE
  <2> DEFINE d == m.data
             w == Width(Len(d))
  <2>1. d \in Seq(Char) /\ Len(d) \in 1..BUFF_MAXLEN /\ m.id \in 0..9
    <3>1. m \in [kind : {"ipd"}, id : 0..(ID_MAX - 1), data : Seq(Char)]
          /\ Len(d) \in 1..BUFF_MAXLEN
      BY <1>5 DEF Sayable
    <3> QED
      BY <3>1, ParserAssumption
  <2>2. DataShape(Encode(m), m.id, d, w)
    <3>1. m.data \in Seq(Char) /\ Len(m.data) <= BUFF_MAXLEN /\ m.id \in 0..9
      BY <2>1, ParserAssumption
    <3> QED
      BY <1>5, <3>1, DataBytes
  <2>3. InData(m.id, d, a) /\ Header(d) = 10 + w
    BY <1>5 DEF Inside, Header
  <2> HIDE DEF d, w
  <2>4. /\ w \in 1..4 /\ Len(Encode(m)) = 10 + w + Len(d) /\ Len(d) \in Nat
        /\ Encode(m)[1] = "cr" /\ Encode(m)[2] = "lf"
    BY <2>1, <2>2 DEF DataShape
  <2>5. Encode(m)[3] = "+"
    <3>1. 3 \in 3..6 /\ 3 - 2 = 1 /\ IpdOp[1] = "+"
      BY DEF IpdOp
    <3> QED
      BY <2>2, <3>1 DEF DataShape
  <2>6. /\ a \notin 4..7 /\ a # 8 /\ a # 9 /\ a \notin 10..(10 + w)
        /\ a \notin ((10 + w) + 1)..((10 + w) + Len(d))
    BY <2>3 DEF InData
  <2>7. a \in 1..(10 + w + Len(d))
    BY <2>4
  <2>8. a \in {1, 2, 3}
    BY <2>4, <2>6, <2>7
  <2> QED
    BY <1>1, <1>2, <2>4, <2>5, <2>8
<1>6. m.kind \in {"line", "prompt", "connect", "closed", "ipd"}
  BY DEF Sayable
<1> QED
  BY <1>3, <1>4, <1>5, <1>6

LEMMA WireInit == WInit => WIInv
<1> SUFFICES ASSUME WInit PROVE WIInv
  OBVIOUS
<1>1. IInv
  BY InitIInv DEF WInit
<1>2. Carried
  BY DEF WInit, Carried
<1>3. Stream = <<>> /\ said = <<>> /\ got = <<>> /\ console = <<>> /\ hurt = {}
  BY DEF WInit, Stream
<1>4. Len(<<>>) = 0 /\ 1..0 = {} /\ 1..(0 - 1) = {}
  OBVIOUS
<1>5. Flow(<<>>, <<>>)
  <2>1. Here(<<>>, <<>>).of = 1
    BY <1>4 DEF Here, Byte
  <2>2. \A i \in Nat : ~(1 <= i /\ i <= 0)
    OBVIOUS
  <2> QED
    BY <1>4, <2>1, <2>2 DEF Flow
<1>6. ParserAt(Stream, said)
  BY <1>3 DEF ParserAt, WInit, Init
<1>7. Relay(<<>>, <<>>, Here(<<>>, <<>>))
  BY <1>4 DEF Relay
<1>8. PromptReal
  BY DEF PromptReal, WInit, Init, CANSEND, WONNA
<1> QED
  BY <1>1, <1>2, <1>3, <1>5, <1>6, <1>7, <1>8 DEF WIInv

(* What does not touch the parser's reading leaves it where it is.          *)
LEMMA QuietStep ==
    ASSUME WIInv, IInv', Carried', UNCHANGED <<state, msg_op, conn_id, buff_len, msg_buff>>,
           peri' \in {peri, TO_PERI},
           Undisturbed' => Undisturbed /\ UNCHANGED <<hurt, console, said, heard>>,
           hurt' = {} => hurt = {} /\ Stream' = Stream /\ UNCHANGED <<said, got>>
    PROVE  WIInv'
<1>1. (Undisturbed => hurt = {} /\ console = <<>>)'
  <2> SUFFICES ASSUME Undisturbed' PROVE hurt' = {} /\ console' = <<>>
    OBVIOUS
  <2> QED
    BY DEF WIInv
<1>2. PromptReal'
  <2>1. SUFFICES ASSUME Undisturbed', peri' = WONNA
                 PROVE  heard' \in 1..Len(said') /\ said'[heard'].kind = "prompt"
    BY DEF PromptReal
  <2>2. Undisturbed /\ peri = WONNA /\ said' = said /\ heard' = heard
    BY <2>1 DEF WONNA, TO_PERI
  <2> QED
    BY <2>2 DEF WIInv, PromptReal
<1>3. ASSUME hurt' = {}
      PROVE  (/\ Flow(Stream, said) /\ ParserAt(Stream, said)
              /\ Relay(got, said, Here(Stream, said)))'
  <2>1. hurt = {} /\ Stream' = Stream /\ said' = said /\ got' = got
    BY <1>3
  <2>2. /\ Flow(Stream, said) /\ ParserAt(Stream, said)
        /\ Relay(got, said, Here(Stream, said))
    BY <2>1 DEF WIInv
  <2>3. ParserAt(Stream, said)'
    BY <2>1, <2>2 DEF ParserAt, Inside, InLine, InNotice, InData
  <2> QED
    BY <2>1, <2>2, <2>3
<1> QED
  BY <1>1, <1>2, <1>3 DEF WIInv

LEMMA SayStep == ASSUME WIInv, NEW m \in Say, ModemSays(m) PROVE WIInv'
<1>1. UNCHANGED parserVars /\ UNCHANGED <<console, qin, got, heard, lost, typed, hurt>>
      /\ wire = <<>> /\ wire' = Bytes(m, Len(said) + 1) /\ said' = Append(said, m)
  BY DEF ModemSays, Bytes
<1>2. Carried /\ IInv
  BY DEF WIInv
<1>3. IInv'
  BY <1>1, <1>2, NextIInv
<1>4. Sayable(m) /\ Len(said) + 1 \in Nat /\ said \in Seq(Say)
  BY <1>2, WireAssumption DEF Carried
<1>5. Carried'
  <2>1. wire' \in Seq(Places)
    BY <1>1, <1>4, BytesWell
  <2> QED
    BY <1>1, <1>2, <2>1 DEF Carried
<1>24. (Undisturbed => hurt = {} /\ console = <<>>)'
  BY <1>1 DEF WIInv, Undisturbed
<1>25. hurt # {} => PromptReal'
  BY <1>1 DEF WIInv, Undisturbed, PromptReal
<1> SUFFICES ASSUME hurt = {}
             PROVE  (/\ Flow(Stream, said) /\ ParserAt(Stream, said)
                     /\ Relay(got, said, Here(Stream, said)) /\ PromptReal)'
  BY <1>1, <1>3, <1>5, <1>24, <1>25 DEF WIInv
<1>7. /\ Flow(Stream, said) /\ ParserAt(Stream, said)
      /\ Relay(got, said, Here(Stream, said)) /\ PromptReal
  BY DEF WIInv
<1>8. PICK s : s = Stream
  OBVIOUS
<1>9. PICK t : t = Stream'
  OBVIOUS
<1>10. PICK ms : ms = said
  OBVIOUS
<1>11. PICK ns : ns = said'
  OBVIOUS
<1>12. s \in Seq(Places) /\ t = s \o Bytes(m, Len(ms) + 1) /\ ns = Append(ms, m) /\ ms \in Seq(Say)
  <2>1. s = qin /\ qin \in Seq(Places)
    BY <1>1, <1>2, <1>8 DEF Stream, Carried
  <2> QED
    BY <1>1, <1>2, <1>9, <1>10, <1>11, <2>1 DEF Stream, Carried
<1>13. Flow(s, ms) /\ ParserAt(s, ms) /\ Relay(got, ms, Here(s, ms))
  BY <1>7, <1>8, <1>10
<1>14. /\ Flow(t, ns) /\ t # <<>>
       /\ Here(t, ns).of = Here(s, ms).of /\ Here(t, ns).at = Here(s, ms).at
  <2>1. Flow(s, ms)
    BY <1>13
  <2>2. Saying(ms, m, s, ns, t)
    BY <1>12 DEF Saying
  <2>3. s \in Seq(Places) /\ ms \in Seq(Say)
    BY <1>12
  <2> QED
    BY <2>1, <2>2, <2>3, FlowSay
<1>15. /\ Here(s, ms).of \in Nat /\ Here(s, ms).at \in Nat
       /\ Here(s, ms).of <= Len(ms) + 1
       /\ (Here(s, ms).of = Len(ms) + 1 => Here(s, ms).at = 1)
       /\ s = <<>> => Here(s, ms).of = Len(ms) + 1 /\ Here(s, ms).at = 1
       /\ s # <<>> => s[1] = Here(s, ms) /\ s[1].of \in 1..Len(ms)
  <2>1. Len(ms) \in Nat
    BY <1>12
  <2>2. CASE s = <<>>
    BY <2>1, <2>2 DEF Here, Byte
  <2>3. CASE s # <<>>
    <3>1. 1 \in 1..Len(s) /\ s[1] \in Places
      BY <1>12, <2>3
    <3>2. s[1].of \in 1..Len(ms) /\ s[1].at \in Nat
      BY <1>13, <3>1 DEF Flow, Placed, Places
    <3> QED
      BY <2>1, <2>3, <3>2 DEF Here
  <2> QED
    BY <2>2, <2>3
<1>16. Relay(got, ns, Here(t, ns))
  <2>1. Len(got) \in Nat
    BY <1>2 DEF Carried
  <2> QED
    BY <1>12, <1>13, <1>14, <1>15, <2>1, RelaySay
<1>17. ns[Len(ms) + 1] = m /\ \A i \in 1..Len(ms) : ns[i] = ms[i]
  BY <1>12
<1>18. t[1].of = Here(s, ms).of /\ t[1].at = Here(s, ms).at
  BY <1>14 DEF Here
<1>19. PICK x : x = ns[t[1].of]
  OBVIOUS
<1>20. PICK a : a = t[1].at
  OBVIOUS
<1>21. Inside(x, a)'
  <2>1. CASE s = <<>>
    <3>1. x = m /\ a = 1 /\ state' = "CLEAR"
      BY <1>1, <1>13, <1>15, <1>17, <1>18, <1>19, <1>20, <2>1 DEF ParserAt, parserVars
    <3>2. Inside(m, 1)'
      BY <1>4, <3>1, StartInside
    <3> QED
      BY <3>1, <3>2
  <2>2. CASE s # <<>>
    <3>1. x = ms[s[1].of] /\ a = s[1].at
      BY <1>15, <1>17, <1>18, <1>19, <1>20, <2>2
    <3>2. Inside(x, a)
      BY <1>13, <2>2, <3>1 DEF ParserAt
    <3> QED
      BY <1>1, <3>2 DEF Inside, InLine, InNotice, InData, parserVars
  <2> QED
    BY <2>1, <2>2
<1>22. ParserAt(Stream, said)'
  BY <1>9, <1>11, <1>14, <1>19, <1>20, <1>21 DEF ParserAt
<1>23. PromptReal'
  <2>1. SUFFICES ASSUME Undisturbed, peri' = WONNA
                 PROVE  heard' \in 1..Len(said') /\ said'[heard'].kind = "prompt"
    BY <1>1 DEF PromptReal, Undisturbed
  <2>2. heard \in 1..Len(said) /\ said[heard].kind = "prompt" /\ heard' = heard
    BY <1>1, <1>7, <2>1 DEF PromptReal, parserVars
  <2> QED
    BY <1>1, <1>4, <2>2
<1> QED
  BY <1>1, <1>7, <1>9, <1>11, <1>14, <1>16, <1>22, <1>23

LEMMA ReadStep == ASSUME WIInv, ParserTask PROVE WIInv'
<1>1. /\ qin # <<>> /\ qin' = Tail(qin) /\ ParseChar(Head(qin).c)
      /\ got' = IF Matters(out') THEN Append(got, [of |-> Head(qin).of, msg |-> out']) ELSE got
      /\ heard' = IF Head(qin).c \in Newline THEN heard ELSE Head(qin).of
      /\ UNCHANGED <<wire, console, said, lost, typed, hurt>>
  BY DEF ParserTask
<1>2. Carried /\ IInv
  BY DEF WIInv
<1>3. PICK b : b = Head(qin)
  OBVIOUS
<1>4. /\ b \in Places /\ b.c \in Char /\ b.of \in Nat /\ b.at \in Nat
      /\ Tail(qin) \in Seq(Places)
  <2>1. qin \in Seq(Places) /\ wire \in Seq(Places)
    BY <1>2 DEF Carried
  <2>2. Head(qin) \in Places /\ Tail(qin) \in Seq(Places)
    BY <1>1, <2>1, TailOf
  <2> QED
    BY <1>3, <2>2 DEF Places
<1>5. ParseChar(b.c)
  BY <1>1, <1>3
<1>6. IInv'
  <2>1. Next
    BY <1>4, <1>5 DEF Next
  <2> QED
    BY <1>2, <2>1, NextIInv
<1>7. out' \in Msg
  BY <1>6 DEF IInv, TypeOK
<1>8. PICK o : o = out'
  OBVIOUS
<1>9. PICK g : g = got
  OBVIOUS
<1>10. PICK ng : ng = got'
  OBVIOUS
<1>11. g \in Seq([of : Nat, msg : Msg]) /\ ng = IF Matters(o) THEN Append(g, [of |-> b.of, msg |-> o]) ELSE g
  BY <1>1, <1>2, <1>3, <1>8, <1>9, <1>10 DEF Carried
<1>12. ng \in Seq([of : Nat, msg : Msg])
  <2>1. [of |-> b.of, msg |-> o] \in [of : Nat, msg : Msg]
    BY <1>4, <1>7, <1>8
  <2> DEFINE x == [of |-> b.of, msg |-> o]
  <2>2. ng = IF Matters(o) THEN Append(g, x) ELSE g
    BY <1>11
  <2> HIDE DEF x
  <2>3. CASE Matters(o)
    BY <1>11, <2>1, <2>2, <2>3 DEF x
  <2>4. CASE ~Matters(o)
    BY <1>11, <2>2, <2>4
  <2> QED
    BY <2>3, <2>4
<1>13. Carried'
  BY <1>1, <1>2, <1>4, <1>10, <1>12 DEF Carried
<1>33. (Undisturbed => hurt = {} /\ console = <<>>)'
  BY <1>1 DEF WIInv, Undisturbed
<1>34. hurt # {} => PromptReal'
  BY <1>1 DEF WIInv, Undisturbed, PromptReal
<1> SUFFICES ASSUME hurt = {}
             PROVE  (/\ Flow(Stream, said) /\ ParserAt(Stream, said)
                     /\ Relay(got, said, Here(Stream, said)) /\ PromptReal)'
  BY <1>1, <1>6, <1>13, <1>33, <1>34 DEF WIInv
<1>15. /\ Flow(Stream, said) /\ ParserAt(Stream, said)
       /\ Relay(got, said, Here(Stream, said)) /\ PromptReal
  BY DEF WIInv
<1>16. PICK s : s = Stream
  OBVIOUS
<1>17. PICK ms : ms = said
  OBVIOUS
<1>18. /\ s \in Seq(Places) /\ s # <<>> /\ s[1] = b /\ Stream' = Tail(s)
       /\ ms \in Seq(Say) /\ said' = ms /\ Len(ms) \in Nat
  <2>1. qin \in Seq(Places) /\ wire \in Seq(Places)
    BY <1>2 DEF Carried
  <2>2. /\ Tail(qin \o wire) = Tail(qin) \o wire /\ qin \o wire \in Seq(Places)
        /\ qin \o wire # <<>> /\ (qin \o wire)[1] = Head(qin)
    BY <1>1, <2>1, TailOf
  <2>3. s = qin \o wire /\ Stream' = qin' \o wire'
    BY <1>16 DEF Stream
  <2>4. ms \in Seq(Say) /\ said' = ms /\ Len(ms) \in Nat
    BY <1>1, <1>2, <1>17 DEF Carried
  <2>5. Stream' = Tail(qin) \o wire
    BY <1>1, <2>3
  <2> QED
    BY <1>3, <2>2, <2>3, <2>4, <2>5, Zenon
<1>19. Flow(s, ms) /\ ParserAt(s, ms) /\ Relay(g, ms, Here(s, ms)) /\ Here(s, ms) = b
  <2>1. Here(s, ms) = b
    BY <1>18 DEF Here
  <2> QED
    BY <1>9, <1>15, <1>16, <1>17, <2>1
<1>20. Placed(b, ms)
  <2>1. 1 \in 1..Len(s)
    BY <1>18
  <2> QED
    BY <1>18, <1>19, <2>1 DEF Flow
<1>21. PICK m : m = ms[b.of]
  OBVIOUS
<1>22. PICK a : a = b.at
  OBVIOUS
<1>23. Sayable(m) /\ a \in 1..Len(Encode(m)) /\ b.c = Encode(m)[a] /\ Length(ms, b.of) = Len(Encode(m))
  <2>1. b.of \in 1..Len(ms)
    BY <1>20 DEF Placed
  <2>2. m \in Say
    BY <1>18, <1>21, <2>1
  <2> QED
    BY <1>20, <1>21, <1>22, <2>2, WireAssumption DEF Placed, Length
<1>24. Inside(m, a)
  BY <1>18, <1>19, <1>21, <1>22 DEF ParserAt
<1>25. Reads(m, a)
  <2>1. ParseChar(Encode(m)[a])
    BY <1>5, <1>23
  <2> QED
    BY <1>2, <1>23, <1>24, <2>1, MessageReads
<1>26. PICK h : h = Here(Tail(s), ms)
  OBVIOUS
<1>27. /\ Flow(Tail(s), ms)
       /\ \/ b.at < Length(ms, b.of) /\ Tail(s) # <<>> /\ h.of = b.of /\ h.at = b.at + 1
          \/ b.at = Length(ms, b.of) /\ h.of = b.of + 1 /\ h.at = 1
  <2>1. Flow(s, ms)
    BY <1>19
  <2> QED
    BY <1>18, <1>26, <2>1, FlowTail
<1>28. PICK t : t = Tail(s)
  OBVIOUS
<1>29. /\ Flow(t, ms) /\ h = Here(t, ms) /\ Stream' = t
  BY <1>18, <1>26, <1>27, <1>28
<1>30. Relay(ng, ms, h)
  <2>1. /\ Matters(o) <=> (b.at = EmitAt(ms[b.of]) /\ Matters(Meaning(ms[b.of])))
        /\ Matters(o) => o = Meaning(ms[b.of])
    BY <1>8, <1>21, <1>22, <1>25 DEF Reads
  <2>2. \/ b.at < Length(ms, b.of) /\ h.of = b.of /\ h.at = b.at + 1
        \/ b.at = Length(ms, b.of) /\ h.of = b.of + 1 /\ h.at = 1
    BY <1>27
  <2>3. Relay(g, ms, b) /\ o \in Msg
    BY <1>7, <1>8, <1>19
  <2>4. ng = Reported(g, b, o)
    BY <1>11 DEF Reported
  <2>5. g \in Seq([of : Nat, msg : Msg]) /\ ms \in Seq(Say)
    BY <1>11, <1>18
  <2> QED
    BY <1>4, <1>20, <2>1, <2>2, <2>3, <2>4, <2>5, RelayRead
<1>31. ParserAt(Stream, said)'
  <2>1. CASE t = <<>>
    <3>1. state' = "CLEAR"
      <4>1. a = Len(Encode(m))
        BY <1>22, <1>23, <1>27, <1>28, <2>1
      <4> QED
        BY <1>25, <4>1 DEF Reads
    <3> QED
      BY <1>29, <2>1, <3>1 DEF ParserAt
  <2>2. CASE t # <<>>
    <3>1. h = t[1]
      BY <1>29, <2>2 DEF Here
    <3>2. PICK x : x = ms[h.of]
      OBVIOUS
    <3>3. PICK y : y = h.at
      OBVIOUS
    <3>4. Inside(x, y)'
      <4>1. CASE b.at < Length(ms, b.of) /\ h.of = b.of /\ h.at = b.at + 1
        <5>1. x = m /\ y = a + 1 /\ a < Len(Encode(m))
          BY <1>21, <1>22, <1>23, <3>2, <3>3, <4>1
        <5>2. Inside(m, a + 1)'
          BY <1>25, <5>1 DEF Reads
        <5> QED
          BY <5>1, <5>2
      <4>2. CASE b.at = Length(ms, b.of) /\ h.of = b.of + 1 /\ h.at = 1
        <5>1. a = Len(Encode(m)) /\ y = 1
          BY <1>22, <1>23, <3>3, <4>2
        <5>2. state' = "CLEAR"
          BY <1>25, <5>1 DEF Reads
        <5>3. Sayable(x)
          <6>1. 1 \in 1..Len(t) /\ t \in Seq(Places)
            BY <1>18, <1>28, <2>2
          <6>2. h.of \in 1..Len(ms)
            BY <1>29, <3>1, <6>1 DEF Flow, Placed
          <6> QED
            BY <1>18, <3>2, <6>2, WireAssumption
        <5> QED
          BY <5>1, <5>2, <5>3, StartInside
      <4> QED
        BY <1>27, <4>1, <4>2
    <3> QED
      BY <1>18, <1>29, <2>2, <3>1, <3>2, <3>3, <3>4 DEF ParserAt
  <2> QED
    BY <2>1, <2>2
<1>32. PromptReal'
  <2>1. SUFFICES ASSUME Undisturbed, peri' = WONNA
                 PROVE  heard' \in 1..Len(said') /\ said'[heard'].kind = "prompt"
    BY <1>1 DEF PromptReal, Undisturbed
  <2>2. state = "CLEAR" /\ ((b.c \in Newline /\ peri = WONNA) \/ b.c \in Space \cup {">"})
    BY <1>2, <1>4, <1>5, <2>1, PromptOnly
  <2>3. CASE b.c \in Newline /\ peri = WONNA
    <3>1. heard \in 1..Len(said) /\ said[heard].kind = "prompt"
      BY <1>15, <2>1, <2>3 DEF PromptReal
    <3> QED
      BY <1>1, <1>3, <2>3, <3>1
  <2>4. CASE b.c \in Space \cup {">"}
    <3>1. m.kind = "prompt"
      BY <1>23, <1>24, <2>2, <2>4, PromptBytes
    <3>2. b.c \notin Newline
      BY <2>4, ClassesApart DEF Punctuation
    <3>3. heard' = b.of /\ b.of \in 1..Len(ms)
      BY <1>1, <1>3, <1>20, <3>2 DEF Placed
    <3> QED
      BY <1>18, <1>21, <3>1, <3>3
  <2> QED
    BY <2>2, <2>3, <2>4
<1> QED
  BY <1>1, <1>10, <1>15, <1>18, <1>29, <1>30, <1>31, <1>32

LEMMA WireStep == WIInv /\ [WNext]_vars => WIInv'
<1> SUFFICES ASSUME WIInv, [WNext]_vars PROVE WIInv'
  OBVIOUS
<1>1. Carried /\ IInv
  BY DEF WIInv
<1>2. lost \in Nat /\ typed \in Nat
  BY <1>1 DEF Carried
<1>3. ASSUME NEW m \in Say, ModemSays(m) PROVE WIInv'
  BY <1>3, SayStep
<1>4. ASSUME NEW l \in Typed, UserTypes(l) PROVE WIInv'
  <2>1. UNCHANGED parserVars /\ typed' = typed + 1
    BY <1>4 DEF UserTypes
  <2>2. IInv'
    BY <1>1, <2>1, NextIInv
  <2>3. Carried'
    <3>1. l \in Seq(Char)
      BY WireAssumption
    <3> QED
      BY <1>1, <1>4, <3>1 DEF Carried, UserTypes
  <2>4. ~Undisturbed'
    BY <1>2, <2>1 DEF Undisturbed
  <2>5. hurt' = hurt /\ Stream' = Stream /\ UNCHANGED <<said, got>>
    BY <1>4 DEF UserTypes, Stream
  <2> QED
    BY <2>1, <2>2, <2>3, <2>4, <2>5, QuietStep DEF parserVars
<1>5. CASE RxByte
  <2>1. UNCHANGED parserVars /\ wire # <<>> /\ wire' = Tail(wire)
    BY <1>5 DEF RxByte
  <2>2. IInv'
    BY <1>1, <2>1, NextIInv
  <2>3. /\ Append(qin, Head(wire)) \o Tail(wire) = qin \o wire
        /\ Append(qin, Head(wire)) \in Seq(Places) /\ Tail(wire) \in Seq(Places)
    BY <1>1, <2>1, Shifted DEF Carried
  <2>4. CASE HasRoom
    <3>1. /\ qin' = Append(qin, Head(wire))
          /\ UNCHANGED <<lost, hurt, console, said, got, heard, typed>>
      BY <1>5, <2>4 DEF RxByte
    <3>2. Carried'
      BY <1>1, <2>1, <2>3, <3>1 DEF Carried
    <3>3. Stream' = Stream
      BY <2>1, <2>3, <3>1, Zenon DEF Stream
    <3>4. Undisturbed' => Undisturbed
      BY <3>1 DEF Undisturbed
    <3> QED
      BY <2>1, <2>2, <3>1, <3>2, <3>3, <3>4, QuietStep DEF parserVars
  <2>5. CASE ~HasRoom
    <3>1. /\ lost' = lost + 1 /\ hurt' # {}
          /\ UNCHANGED <<qin, console, said, got, heard, typed>>
      BY <1>5, <2>5 DEF RxByte, Lose
    <3>2. Carried'
      BY <1>1, <2>1, <2>3, <3>1 DEF Carried
    <3>3. ~Undisturbed'
      BY <1>2, <3>1 DEF Undisturbed
    <3> QED
      BY <2>1, <2>2, <3>1, <3>2, <3>3, QuietStep DEF parserVars
  <2> QED
    BY <2>4, <2>5
<1>6. CASE ConsoleByte
  <2>1. /\ UNCHANGED parserVars /\ UNCHANGED <<wire, said, got, heard, lost, typed>>
        /\ console # <<>> /\ console' = Tail(console)
        /\ qin' = IF HasRoom THEN Append(qin, Slipped(Head(console))) ELSE qin
        /\ hurt' # {}
    BY <1>6 DEF ConsoleByte
  <2>2. IInv'
    BY <1>1, <2>1, NextIInv
  <2>3. Carried'
    <3>1. Slipped(Head(console)) \in Places
      <4>1. Head(console) \in Char /\ Len(said) + 1 \in Nat
        BY <1>1, <2>1 DEF Carried
      <4>2. wire # <<>> => Head(wire) \in Places
        BY <1>1 DEF Carried
      <4> QED
        BY <4>1, <4>2 DEF Slipped, Slip, Places
    <3>2. qin' \in Seq(Places)
      BY <1>1, <2>1, <3>1 DEF Carried
    <3> QED
      BY <1>1, <2>1, <3>2 DEF Carried
  <2>4. ~Undisturbed'
    <3>1. ~Undisturbed
      BY <2>1 DEF WIInv
    <3> QED
      BY <2>1, <3>1 DEF Undisturbed
  <2> QED
    BY <2>1, <2>2, <2>3, <2>4, QuietStep DEF parserVars
<1>7. CASE RxError
  <2>1. /\ UNCHANGED parserVars /\ UNCHANGED <<qin, console, said, got, heard, typed>>
        /\ lost' = lost + 1 /\ hurt' # {} /\ wire # <<>> /\ wire' = Tail(wire)
    BY <1>7 DEF RxError, Lose
  <2>2. IInv'
    BY <1>1, <2>1, NextIInv
  <2>3. Carried'
    BY <1>1, <2>1 DEF Carried
  <2>4. ~Undisturbed'
    BY <1>2, <2>1 DEF Undisturbed
  <2> QED
    BY <2>1, <2>2, <2>3, <2>4, QuietStep DEF parserVars
<1>8. CASE ParserTask
  BY <1>8, ReadStep
<1>9. CASE ExecTakesLine
  <2>1. UNCHANGED wireVars /\ ConsumeReady
    BY <1>9 DEF ExecTakesLine
  <2>2. IInv'
    <3>1. Next
      BY <2>1 DEF Next
    <3> QED
      BY <1>1, <3>1, NextIInv
  <2>3. UNCHANGED <<state, msg_op, conn_id, buff_len, msg_buff>> /\ peri' = TO_PERI
    BY <2>1 DEF ConsumeReady
  <2>4. Carried'
    BY <1>1, <2>1 DEF Carried, wireVars
  <2>5. /\ Undisturbed' => Undisturbed /\ UNCHANGED <<hurt, console, said, heard>>
        /\ hurt' = {} => hurt = {} /\ Stream' = Stream /\ UNCHANGED <<said, got>>
    BY <2>1 DEF wireVars, Undisturbed, Stream
  <2> QED
    BY <2>2, <2>3, <2>4, <2>5, QuietStep
<1>10. CASE UNCHANGED vars
  <2>1. UNCHANGED wireVars /\ UNCHANGED parserVars
    BY <1>10 DEF vars
  <2>2. IInv'
    BY <1>1, <2>1, NextIInv
  <2>3. Carried'
    BY <1>1, <2>1 DEF Carried, wireVars
  <2>4. /\ Undisturbed' => Undisturbed /\ UNCHANGED <<hurt, console, said, heard>>
        /\ hurt' = {} => hurt = {} /\ Stream' = Stream /\ UNCHANGED <<said, got>>
    BY <2>1 DEF wireVars, Undisturbed, Stream
  <2> QED
    BY <2>1, <2>2, <2>3, <2>4, QuietStep DEF parserVars
<1> QED
  BY <1>3, <1>4, <1>5, <1>6, <1>7, <1>8, <1>9, <1>10 DEF WNext

LEMMA SpecWire == WSpec => []WIInv
<1> QED
  BY WireInit, WireStep, PTL DEF WSpec

(* On an undisturbed line the program is told exactly what the modem said,  *)
(* whatever the messages and payloads and however bytes, parser and         *)
(* executor interleave (parser.c, all of atc_parse_char).                   *)
THEOREM FramingSound == WSpec => []Framing
<1>1. WIInv => Framing
  <2> SUFFICES ASSUME WIInv, Undisturbed
               PROVE  /\ \A k \in 1..Len(got) :
                           got[k].of \in 1..Len(said) /\ got[k].msg = Meaning(said[got[k].of])
                      /\ \A j, k \in 1..Len(got) : j < k => got[j].of < got[k].of
                      /\ \A i \in 1..Len(said) :
                           Matters(Meaning(said[i])) /\ ~UnderWay(i) => Delivered(i)
    BY DEF Framing, AsSaid
  <2>1. Flow(Stream, said) /\ Relay(got, said, Here(Stream, said)) /\ Carried
    BY DEF WIInv
  <2>2. /\ \A k \in 1..Len(got) :
              got[k].of \in 1..Len(said) /\ got[k].msg = Meaning(said[got[k].of])
        /\ \A j, k \in 1..Len(got) : j < k => got[j].of < got[k].of
    BY <2>1 DEF Relay
  <2>3. ASSUME NEW i \in 1..Len(said), Matters(Meaning(said[i])), ~UnderWay(i)
        PROVE  Delivered(i)
    <3>1. Len(said) \in Nat /\ i \in Nat /\ i <= Len(said)
      BY <2>1 DEF Carried
    <3>2. ~(Here(Stream, said).of <= i)
      BY <2>1, <2>3, <3>1 DEF Flow, UnderWay
    <3>3. Here(Stream, said).of \in Nat
      <4>1. Stream \in Seq(Places)
        BY <2>1 DEF Carried, Stream
      <4>2. CASE Stream = <<>>
        BY <3>1, <4>2 DEF Here, Byte
      <4>3. CASE Stream # <<>>
        <5>1. Stream[1] \in Places
          BY <4>1, <4>3
        <5> QED
          BY <4>3, <5>1 DEF Here, Places
      <4> QED
        BY <4>2, <4>3
    <3>4. i < Here(Stream, said).of
      BY <3>1, <3>2, <3>3
    <3> QED
      BY <2>1, <2>3, <3>4 DEF Relay, Delivered, DeliveredIn
  <2> QED
    BY <2>2, <2>3
<1> QED
  BY <1>1, SpecWire, PTL

(* The parser holds out a prompt only while a prompt is the last thing it   *)
(* has read (parser.c:95-98).                                               *)
THEOREM PromptSound == WSpec => []PromptReal
<1>1. WIInv => PromptReal
  BY DEF WIInv, PromptReal
<1> QED
  BY <1>1, SpecWire, PTL
=============================================================================
