-------------------------- MODULE EspDamageProofs --------------------------
(***************************************************************************)
(* Damage on the line stays local, for every set of messages and lines     *)
(* typed, every queue and every bound.                                     *)
(*                                                                         *)
(* The bytes under way are those said, but for one hole or for bytes typed *)
(* in between (Rough).  The parser is inside the message of the next byte  *)
(* (OnTrack), or it has lost its place (OffTrack): then it is in a state   *)
(* (Astray) in which no header of a payload can build up, and no later     *)
(* than at the first newline, or in the header of a payload, of the next   *)
(* message that is no prompt, it has found its place again.  Of the        *)
(* messages before and after that the reports are exactly those due        *)
(* (RelayOn).                                                              *)
(***************************************************************************)
EXTENDS EspParserProofs

(* What a byte can do to a parser that has lost its place. *)
LEMMA StateAfter ==
    ASSUME IInv, NEW c \in Char, ParseChar(c)
    PROVE  /\ state' = "MSG_OP" =>
                \/ state = "CLEAR" /\ c \in Letter \cup {"+"} /\ msg_op' = <<c>>
                \/ state = "MSG_OP" /\ c \in Letter \cup Space /\ msg_op' = Append(msg_op, c)
           /\ state' = "IPD_ID" =>
                \/ state = "MSG_OP" /\ c = "comma" /\ msg_op = IpdOp /\ buff_len' = 0
                \/ state = "IPD_ID" /\ c \in Digit /\ buff_len' = buff_len
           /\ state' = "IPD_LEN" =>
                \/ state = "IPD_ID" /\ c = "comma" /\ buff_len' = buff_len
                \/ state = "IPD_LEN" /\ c \in Digit /\ buff_len' = buff_len * 10 + DigitVal(c)
           /\ state' = "IPD_DAT" =>
                \/ state = "IPD_LEN" /\ c = ":" /\ buff_len' = buff_len /\ msg_buff' = msg_buff
                \/ state = "IPD_DAT" /\ buff_len' = buff_len /\ msg_buff' = Append(msg_buff, c)
           /\ state # "IPD_DAT" /\ c \in Newline => state' = "CLEAR"
           /\ state = "IPD_DAT" /\ buff_len <= Len(msg_buff) + 1 => state' = "CLEAR"
<1>1. ASSUME c \in Newline
      PROVE  /\ c \notin Digit /\ c # "comma" /\ c # ":" /\ c \notin Letter
             /\ c \notin Space /\ c \notin Letter \cup Space /\ c # ">" /\ c # "+"
             /\ c \notin Letter \cup {"+"} /\ c \notin Junk \cup {"comma", ":"}
             /\ c \notin Digit \cup Junk \cup {"+", ":", ">"}
  BY <1>1, ClassesApart DEF Punctuation
<1>2. CASE ClearChar(c)
  <2>1. state = "CLEAR"
    BY <1>2 DEF ClearChar
  <2>2. \/ state' = "CLEAR"
        \/ state' = "CONN_ID" /\ c \in Digit
        \/ state' = "MSG_OP" /\ c \in Letter \cup {"+"} /\ msg_op' = <<c>>
        \/ state' = "ERROR_CHAR" /\ c \in Junk \cup {"comma", ":"}
    BY <1>2 DEF ClearChar, Goto
  <2> QED
    BY <1>1, <2>1, <2>2
<1>3. CASE MsgOpChar(c)
  <2>1. state = "MSG_OP"
    BY <1>3 DEF MsgOpChar
  <2>2. \/ state' = "IPD_ID" /\ c = "comma" /\ msg_op = IpdOp /\ buff_len' = 0
        \/ state' = "MSG_OP" /\ c \in Letter \cup Space /\ msg_op' = Append(msg_op, c)
        \/ state' = "CLEAR"
        \/ state' = "ERROR_CHAR" /\ (c = "comma" \/ c \in Letter \cup Space
                                     \/ c \in Digit \cup Junk \cup {"+", ":", ">"})
    BY <1>3 DEF MsgOpChar, Goto, Resume, Skip
  <2> QED
    BY <1>1, <2>1, <2>2
<1>4. CASE NumberChar(c)
  <2>1. state \in {"CONN_ID", "IPD_ID", "IPD_LEN"} /\ UNCHANGED <<msg_op, msg_buff>>
    BY <1>4 DEF NumberChar
  <2>2. CASE state = "IPD_LEN"
    <3>1. \/ state' = "IPD_LEN" /\ c \in Digit /\ buff_len' = buff_len * 10 + DigitVal(c)
          \/ state' = "IPD_DAT" /\ c = ":" /\ buff_len' = buff_len
          \/ state' = "CLEAR"
          \/ state' = "ERROR_CHAR" /\ c \notin Newline
          \/ state' = "ERROR_CHAR" /\ c \in Digit
      BY <1>4, <2>2 DEF NumberChar, Goto, Resume, Skip, SkipLine, InRange
    <3> QED
      BY <1>1, <2>1, <2>2, <3>1
  <2>3. CASE state = "IPD_ID"
    <3>1. \/ state' = "IPD_ID" /\ c \in Digit /\ buff_len' = buff_len
          \/ state' = "IPD_LEN" /\ c = "comma" /\ buff_len' = buff_len
          \/ state' = "CLEAR"
          \/ state' = "ERROR_CHAR" /\ c \notin Newline
          \/ state' = "ERROR_CHAR" /\ c \in Digit
      BY <1>4, <2>3 DEF NumberChar, Goto, Resume, Skip, SkipLine, InRange
    <3> QED
      BY <1>1, <2>1, <2>3, <3>1
  <2>4. CASE state = "CONN_ID"
    <3>1. \/ state' = "CONN_ID" /\ c \in Digit
          \/ state' = "CONN_OP" /\ c = "comma"
          \/ state' = "CLEAR"
          \/ state' = "ERROR_CHAR" /\ c \notin Newline
          \/ state' = "ERROR_CHAR" /\ c \in Digit
      BY <1>4, <2>4 DEF NumberChar, Goto, Resume, Skip, SkipLine, InRange
    <3> QED
      BY <1>1, <2>1, <2>4, <3>1
  <2> QED
    BY <2>1, <2>2, <2>3, <2>4
<1>5. CASE ConnOpChar(c)
  <2>1. state = "CONN_OP"
    BY <1>5 DEF ConnOpChar
  <2>2. \/ state' = "CONN_OP" /\ c \in Letter
        \/ state' = "CLEAR"
        \/ state' = "ERROR_CHAR" /\ c \in Letter
        \/ state' = "ERROR_CHAR" /\ c \notin Newline
    BY <1>5 DEF ConnOpChar, Goto, Resume, Skip, SkipLine
  <2> QED
    BY <1>1, <2>1, <2>2
<1>6. CASE IpdDatChar(c)
  <2>1. state = "IPD_DAT" /\ buff_len' = buff_len
    BY <1>6 DEF IpdDatChar
  <2>2. \/ state' = "CLEAR" /\ Len(Append(msg_buff, c)) = buff_len
        \/ state' = "IPD_DAT" /\ msg_buff' = Append(msg_buff, c) /\ Len(Append(msg_buff, c)) # buff_len
    BY <1>6 DEF IpdDatChar, Goto, Resume, Complete
  <2>3. msg_buff \in Seq(Char) /\ Len(msg_buff) < buff_len /\ buff_len \in Nat
    BY <2>1 DEF IInv, TypeOK, PayloadBound
  <2>4. Len(Append(msg_buff, c)) = Len(msg_buff) + 1 /\ Len(msg_buff) \in Nat
    BY <2>3
  <2> QED
    BY <2>1, <2>2, <2>3, <2>4
<1>7. CASE ErrorChar(c)
  <2>1. state = "ERROR_CHAR"
    BY <1>7 DEF ErrorChar
  <2>2. state' = "CLEAR" \/ (state' = "ERROR_CHAR" /\ c \notin Newline)
    BY <2>1, ErrorReads
  <2> QED
    BY <1>1, <2>1, <2>2
<1> QED
  BY <1>2, <1>3, <1>4, <1>5, <1>6, <1>7 DEF ParseChar

-----------------------------------------------------------------------------
(* What may be typed. *)
Harmless == Char \ (Digit \cup {"+", ":"})

(* A parser that has lost its place, when the next byte is byte a of        *)
(* message m: it takes for the header of a payload only what is one, as far *)
(* as it has come, and wants no more bytes of a payload than are left of    *)
(* the message, or one more.                                                *)
Astray(m, a) ==
    /\ state = "MSG_OP" =>
          msg_op # <<>> /\ (msg_op[1] = "+" => m.kind = "ipd" /\ a \in 4..8)
    /\ state = "IPD_ID" => m.kind = "ipd" /\ a \in 4..Header(m.data) /\ buff_len = 0
    /\ state = "IPD_LEN" =>
          /\ m.kind = "ipd" /\ a \in 4..(Header(m.data) + 1)
          /\ a \in 10..Header(m.data) => buff_len <= Value(Len(m.data), a - 10)
          /\ a = Header(m.data) + 1 => buff_len <= Len(m.data)
    /\ state = "IPD_DAT" =>
          \/ a = 1 /\ buff_len <= Len(msg_buff) + 1
          \/ /\ a > 1 /\ m.kind = "ipd"
             /\ buff_len + a <= Len(msg_buff) + Header(m.data) + Len(m.data) + 2

(* The bytes of a plain message. *)
PlainMsg(m) ==
    /\ m.kind = "line" => \A k \in 1..Len(m.text) : m.text[k] # "+"
    /\ m.kind = "ipd" => /\ \A k \in 1..Len(m.data) : m.data[k] # "+"
                         /\ m.data[1] \notin Digit

LEMMA DataSays ==
    ASSUME NEW m, Sayable(m), m.kind = "ipd"
    PROVE  /\ m.data \in Seq(Char) /\ Len(m.data) \in Nat \ {0} /\ Len(m.data) < 10000
           /\ Width(Len(m.data)) \in 1..4 /\ Header(m.data) = 10 + Width(Len(m.data))
           /\ Header(m.data) \in 11..14
           /\ DataShape(Encode(m), m.id, m.data, Width(Len(m.data)))
<1>1. m.id \in 0..9 /\ m.data \in Seq(Char) /\ Len(m.data) <= BUFF_MAXLEN
      /\ Len(m.data) \in Nat \ {0}
  <2>1. m \in [kind : {"ipd"}, id : 0..(ID_MAX - 1), data : Seq(Char)]
        /\ Len(m.data) \in 1..BUFF_MAXLEN
    BY DEF Sayable
  <2> QED
    BY <2>1, ParserAssumption
<1>2. DataShape(Encode(m), m.id, m.data, Width(Len(m.data)))
  BY <1>1, DataBytes
<1>3. Len(m.data) < 10000
  BY <1>1, ParserAssumption, WireAssumption
<1>4. Width(Len(m.data)) \in 1..4
  BY <1>1, <1>3, WidthRange
<1> QED
  BY <1>1, <1>2, <1>3, <1>4 DEF Header

LEMMA PlusOnlyAt ==
    ASSUME NEW m, Sayable(m), PlainMsg(m), NEW a \in 1..Len(Encode(m)), Encode(m)[a] = "+"
    PROVE  m.kind = "ipd" /\ a = 3
<1> DEFINE c == Encode(m)[a]
<1>1. /\ "+" \notin Digit /\ "+" \notin Letter /\ "+" \notin Newline
      /\ "cr" \in Newline /\ "lf" \in Newline
  BY ClassesApart DEF Punctuation, Newline
<1>2. ASSUME m.kind = "line" PROVE FALSE
  <2> DEFINE t == m.text
  <2>1. t \in Seq(Char) /\ Len(t) \in Nat
    BY <1>2 DEF Sayable
  <2>2. /\ Len(Encode(m)) = Len(t) + 4 /\ Encode(m)[1] = "cr" /\ Encode(m)[2] = "lf"
        /\ \A x \in 3..(Len(t) + 2) : Encode(m)[x] = t[x - 2]
        /\ Encode(m)[Len(t) + 3] = "cr" /\ Encode(m)[Len(t) + 4] = "lf"
    BY <1>2, <2>1, LineBytes
  <2>3. \A k \in 1..Len(t) : t[k] # "+"
    BY <1>2 DEF PlainMsg
  <2> HIDE DEF t
  <2>4. a \in 3..(Len(t) + 2)
    BY <1>1, <2>1, <2>2
  <2>5. a - 2 \in 1..Len(t)
    BY <2>1, <2>4
  <2> QED
    BY <2>2, <2>3, <2>4, <2>5
<1>3. ASSUME m.kind = "prompt" PROVE FALSE
  <2>1. Encode(m) = <<">", "blank">>
    BY <1>3 DEF Encode
  <2>2. a = 1 \/ a = 2
    BY <2>1
  <2> QED
    BY <2>1, <2>2
<1>4. ASSUME NEW op, \/ m.kind = "connect" /\ op = ConnectOp
                     \/ m.kind = "closed" /\ op = ClosedOp
      PROVE  FALSE
  <2>1. m.id \in 0..9
    <3>1. m \in [kind : {"connect", "closed"}, id : 0..(ID_MAX - 1)]
      BY <1>4 DEF Sayable
    <3> QED
      BY <3>1, ParserAssumption
  <2>2. op \in Seq(Letter) /\ Len(op) \in {6, 7}
    BY <1>4, Words
  <2>3. /\ Len(Encode(m)) = Len(op) + 4
        /\ Encode(m)[1] \in Digit /\ Encode(m)[2] = "comma"
        /\ \A x \in 3..(Len(op) + 2) : Encode(m)[x] = op[x - 2]
        /\ Encode(m)[Len(op) + 3] = "cr" /\ Encode(m)[Len(op) + 4] = "lf"
    BY <1>4, <2>1, <2>2, NoticeBytes
  <2>4. a \in 3..(Len(op) + 2)
    BY <1>1, <2>2, <2>3
  <2>5. a - 2 \in 1..Len(op)
    BY <2>2, <2>4
  <2>6. op[a - 2] \in Letter
    BY <2>2, <2>5, ElementOfSeq
  <2> QED
    BY <1>1, <2>3, <2>4, <2>6
<1>5. ASSUME m.kind = "ipd" PROVE a = 3
  <2> DEFINE d == m.data
             e == Encode(m)
             w == Width(Len(d))
  <2>1. DataShape(e, m.id, d, w) /\ Len(d) \in Nat /\ w \in 1..4
    BY <1>5, DataSays
  <2>2. \A k \in 1..Len(d) : d[k] # "+"
    BY <1>5 DEF PlainMsg
  <2>3. e[a] = "+" /\ a \in 1..Len(e)
    OBVIOUS
  <2> HIDE DEF d, e, w
  <2>4. /\ Len(e) = 10 + w + Len(d)
        /\ e[1] = "cr" /\ e[2] = "lf" /\ e[7] = "comma"
        /\ e[4] = "I" /\ e[5] = "P" /\ e[6] = "D"
        /\ e[8] \in Digit /\ e[9] = "comma" /\ e[10 + w] = ":"
    BY <2>1 DEF DataShape, IpdOp
  <2>5. \A k \in 1..w : e[9 + k] \in Digit
    BY <2>1 DEF DataShape
  <2>6. \A j \in 1..Len(d) : e[(10 + w) + j] = d[j]
    BY <2>1 DEF DataShape
  <2>7. a \notin 10..(9 + w)
    <3> SUFFICES ASSUME a \in 10..(9 + w) PROVE FALSE
      OBVIOUS
    <3>1. a - 9 \in 1..w /\ 9 + (a - 9) = a
      BY <2>1
    <3> QED
      BY <1>1, <2>3, <2>5, <3>1
  <2>8. a \notin (11 + w)..(10 + w + Len(d))
    <3> SUFFICES ASSUME a \in (11 + w)..(10 + w + Len(d)) PROVE FALSE
      OBVIOUS
    <3>1. a - (10 + w) \in 1..Len(d) /\ (10 + w) + (a - (10 + w)) = a
      BY <2>1
    <3> QED
      BY <2>2, <2>3, <2>6, <3>1
  <2>9. a \in 1..9 \/ a = 10 + w
    BY <2>1, <2>3, <2>4, <2>7, <2>8
  <2>10. a # 8
    BY <1>1, <2>3, <2>4
  <2>11. a \notin {1, 2, 4, 5, 6, 7, 9} /\ a # 10 + w
    BY <1>1, <2>3, <2>4
  <2> QED
    BY <2>9, <2>10, <2>11
<1> QED
  BY <1>2, <1>3, <1>4, <1>5 DEF Sayable

(* Byte a of a report of data. *)
LEMMA DataAt ==
    ASSUME NEW m, Sayable(m), m.kind = "ipd", NEW a \in 1..Len(Encode(m))
    PROVE  /\ a \in 4..6 => Encode(m)[a] \in Letter
           /\ a = 7 \/ a = 9 => Encode(m)[a] = "comma"
           /\ a = 8 \/ a \in 10..(Header(m.data) - 1) => Encode(m)[a] \in Digit
           /\ a = Header(m.data) => Encode(m)[a] = ":"
           /\ a = Header(m.data) + 1 => Encode(m)[a] = m.data[1]
           /\ Len(Encode(m)) = Header(m.data) + Len(m.data)
           /\ a \in 10..(Header(m.data) - 1) =>
                /\ Value(Len(m.data), a - 9) = Value(Len(m.data), a - 10) * 10
                                                + DigitVal(Encode(m)[a])
                /\ Value(Len(m.data), a - 10) \in Nat /\ DigitVal(Encode(m)[a]) \in 0..9
                /\ Value(Len(m.data), a - 9) \in Nat /\ Value(Len(m.data), a - 9) <= Len(m.data)
                /\ a = Header(m.data) - 1 => Value(Len(m.data), a - 9) = Len(m.data)
<1> DEFINE d == m.data
           e == Encode(m)
           w == Width(Len(d))
           h == Header(d)
<1>1. /\ DataShape(e, m.id, d, w) /\ Len(d) \in Nat \ {0} /\ w \in 1..4 /\ h = 10 + w
      /\ Len(d) < 10000
  BY DataSays
<1>2. a \in 1..Len(e)
  OBVIOUS
<1> HIDE DEF d, e, w, h
<1>3. /\ Len(e) = 10 + w + Len(d)
      /\ e[7] = "comma" /\ e[4] = "I" /\ e[5] = "P" /\ e[6] = "D"
      /\ e[8] \in Digit /\ e[9] = "comma" /\ e[10 + w] = ":"
  BY <1>1 DEF DataShape, IpdOp
<1>4. \A k \in 1..w : e[9 + k] \in Digit /\ DigitVal(e[9 + k]) = Leading(Len(d), k) % 10
  BY <1>1 DEF DataShape
<1>5. e[(10 + w) + 1] = d[1]
  <2>1. 1 \in 1..Len(d)
    BY <1>1
  <2> QED
    BY <1>1, <2>1 DEF DataShape
<1>6. {"I", "P", "D"} \subseteq Letter
  BY DEF Letter
<1>7. a \in 4..6 => e[a] \in Letter
  <2>1. a \in 4..6 => a = 4 \/ a = 5 \/ a = 6
    OBVIOUS
  <2> QED
    BY <1>3, <1>6, <2>1
<1>8. ASSUME a \in 10..(h - 1)
      PROVE  /\ e[a] \in Digit
             /\ Value(Len(d), a - 9) = Value(Len(d), a - 10) * 10 + DigitVal(e[a])
             /\ Value(Len(d), a - 10) \in Nat /\ DigitVal(e[a]) \in 0..9
             /\ Value(Len(d), a - 9) \in Nat /\ Value(Len(d), a - 9) <= Len(d)
             /\ a = h - 1 => Value(Len(d), a - 9) = Len(d)
  <2>1. PICK k \in 1..w : k = a - 9
    BY <1>1, <1>8
  <2>2. a = 9 + k /\ a - 9 = k /\ a - 10 = k - 1
    BY <1>1, <1>8, <2>1
  <2>3. e[a] \in Digit /\ DigitVal(e[a]) = Leading(Len(d), k) % 10
    BY <1>4, <2>2
  <2>4. k \in 1..Width(Len(d))
    BY DEF w
  <2>5. /\ Leading(Len(d), k) % 10 \in 0..9
        /\ Value(Len(d), k) = Value(Len(d), k - 1) * 10 + (Leading(Len(d), k) % 10)
        /\ Value(Len(d), k) <= Len(d) /\ Value(Len(d), k) \in Nat
        /\ k = Width(Len(d)) => Value(Len(d), k) = Len(d)
    BY <1>1, <2>4, ValueGrows
  <2>6. Value(Len(d), k - 1) \in Nat
    <3>1. CASE k = 1
      BY <3>1 DEF Value
    <3>2. CASE k # 1
      <4>1. k - 1 \in 1..Width(Len(d))
        BY <1>1, <2>4, <3>2 DEF w
      <4> QED
        BY <1>1, <4>1, ValueGrows
    <3> QED
      BY <3>1, <3>2
  <2>7. a = h - 1 => k = Width(Len(d))
    BY <1>1, <2>2 DEF w
  <2> QED
    BY <2>2, <2>3, <2>5, <2>6, <2>7
<1>9. /\ a = 8 => e[a] \in Digit
      /\ a = 7 \/ a = 9 => e[a] = "comma"
      /\ (a = h => e[a] = ":") /\ (a = h + 1 => e[a] = d[1])
      /\ Len(e) = h + Len(d)
  <2>1. a = h + 1 => a = (10 + w) + 1
    BY <1>1
  <2>2. a = h => a = 10 + w
    BY <1>1
  <2>3. Len(e) = h + Len(d)
    BY <1>1, <1>3
  <2>4. a = h + 1 => e[a] = d[1]
    BY <1>5, <2>1
  <2>5. a = h => e[a] = ":"
    BY <1>3, <2>2
  <2> QED
    BY <1>3, <2>3, <2>4, <2>5
<1> QED
  BY <1>7, <1>8, <1>9 DEF d, e, h

(* The parser stays so when it reads a byte of the message. *)
Next1(m, a, x, y) ==
    \/ a < Len(Encode(m)) /\ x = m /\ y = a + 1
    \/ a = Len(Encode(m)) /\ y = 1

LEMMA AstrayOwn ==
    ASSUME IInv, NEW m, Sayable(m), PlainMsg(m), NEW a \in 1..Len(Encode(m)), Astray(m, a),
           ParseChar(Encode(m)[a]), NEW x, NEW y, Next1(m, a, x, y)
    PROVE  Astray(x, y)'
<1> DEFINE c == Encode(m)[a]
           d == m.data
           h == Header(d)
           n == Len(d)
<1>1. Encode(m) \in Seq(Char) /\ c \in Char
  BY EncodeWell
<1>2. /\ c \in Letter \cup Space => c # "comma" /\ c # ":" /\ c \notin Digit /\ c # "+"
      /\ c \in Letter => c # "comma" /\ c # ":" /\ c \notin Digit
      /\ c \in Digit => c # "comma" /\ c # ":" /\ c # "+"
  BY ClassesApart DEF Punctuation
<1>3. m.kind = "ipd" => /\ n \in Nat \ {0} /\ h \in 11..14 /\ Len(Encode(m)) = h + n
                        /\ d[1] \notin Digit
  BY DataSays, DataAt DEF PlainMsg
<1>4. msg_op \in Seq(Char) /\ msg_buff \in Seq(Char) /\ buff_len \in Nat /\ Len(msg_buff) \in Nat
  BY DEF IInv, TypeOK
<1>5. state # "IPD_DAT" => Len(msg_buff) = 0
  BY DEF IInv, PayloadBound
<1>6. ASSUME state' = "MSG_OP"
      PROVE  msg_op' # <<>> /\ (msg_op'[1] = "+" => x.kind = "ipd" /\ y \in 4..8)
  <2>1. CASE state = "CLEAR" /\ c \in Letter \cup {"+"} /\ msg_op' = <<c>>
    <3>1. msg_op' # <<>> /\ msg_op'[1] = c
      BY <2>1
    <3>2. c = "+" => m.kind = "ipd" /\ a = 3
      BY PlusOnlyAt
    <3>3. c = "+" => a < Len(Encode(m)) /\ a + 1 = 4
      BY <1>3, <3>2
    <3>4. c = "+" => x = m /\ y = 4
      BY <3>3 DEF Next1
    <3> QED
      BY <3>1, <3>2, <3>4
  <2>2. CASE state = "MSG_OP" /\ c \in Letter \cup Space /\ msg_op' = Append(msg_op, c)
    <3>1. msg_op # <<>> /\ (msg_op[1] = "+" => m.kind = "ipd" /\ a \in 4..8)
      BY <2>2 DEF Astray
    <3>2. msg_op' # <<>> /\ msg_op'[1] = msg_op[1]
      BY <1>1, <1>4, <2>2, <3>1
    <3>3. msg_op[1] = "+" => a \in 4..6
      <4> SUFFICES ASSUME msg_op[1] = "+" PROVE a \in 4..6
        OBVIOUS
      <4>1. m.kind = "ipd" /\ a \in 4..8
        BY <3>1
      <4>2. a # 7 /\ a # 8
        BY <1>2, <2>2, <4>1, DataAt
      <4> QED
        BY <4>1, <4>2
    <3>4. msg_op[1] = "+" => x = m /\ y = a + 1
      BY <1>3, <3>1, <3>3 DEF Next1
    <3> QED
      BY <3>1, <3>2, <3>3, <3>4
  <2> QED
    BY <1>1, <1>6, <2>1, <2>2, StateAfter
<1>7. ASSUME state' = "IPD_ID"
      PROVE  x.kind = "ipd" /\ y \in 4..Header(x.data) /\ buff_len' = 0
  <2>1. CASE state = "MSG_OP" /\ c = "comma" /\ msg_op = IpdOp /\ buff_len' = 0
    <3>1. msg_op[1] = "+"
      BY <2>1 DEF IpdOp
    <3>2. m.kind = "ipd" /\ a \in 4..8
      BY <2>1, <3>1 DEF Astray
    <3>3. x = m /\ y = a + 1
      BY <1>3, <3>2 DEF Next1
    <3> QED
      BY <1>3, <2>1, <3>2, <3>3
  <2>2. CASE state = "IPD_ID" /\ c \in Digit /\ buff_len' = buff_len
    <3>1. m.kind = "ipd" /\ a \in 4..h /\ buff_len = 0
      BY <2>2 DEF Astray
    <3>2. a # h
      BY <1>2, <2>2, <3>1, DataAt
    <3>3. x = m /\ y = a + 1
      BY <1>3, <3>1, <3>2 DEF Next1
    <3> QED
      BY <1>3, <2>2, <3>1, <3>2, <3>3
  <2> QED
    BY <1>1, <1>7, <2>1, <2>2, StateAfter
<1>8. ASSUME state' = "IPD_LEN"
      PROVE  /\ x.kind = "ipd" /\ y \in 4..(Header(x.data) + 1)
             /\ y \in 10..Header(x.data) => buff_len' <= Value(Len(x.data), y - 10)
             /\ y = Header(x.data) + 1 => buff_len' <= Len(x.data)
  <2>1. CASE state = "IPD_ID" /\ c = "comma" /\ buff_len' = buff_len
    <3>1. m.kind = "ipd" /\ a \in 4..h /\ buff_len = 0
      BY <2>1 DEF Astray
    <3>2. a # h /\ a \notin 10..(h - 1)
      BY <1>2, <2>1, <3>1, DataAt
    <3>3. a \in 4..9
      BY <1>3, <3>1, <3>2
    <3>4. x = m /\ y = a + 1
      BY <1>3, <3>1, <3>3 DEF Next1
    <3>5. y \in 10..h => y - 10 = 0
      BY <1>3, <3>3, <3>4
    <3>6. Value(n, 0) = 0
      BY DEF Value
    <3>7. y \in 10..h => buff_len' <= Value(n, y - 10)
      BY <2>1, <3>1, <3>5, <3>6
    <3> QED
      BY <1>3, <3>1, <3>3, <3>4, <3>7
  <2>2. CASE state = "IPD_LEN" /\ c \in Digit /\ buff_len' = buff_len * 10 + DigitVal(c)
    <3>1. /\ m.kind = "ipd" /\ a \in 4..(h + 1)
          /\ a \in 10..h => buff_len <= Value(n, a - 10)
      BY <2>2 DEF Astray
    <3>2. a # h /\ a # h + 1 /\ a # 9
      BY <1>2, <1>3, <2>2, <3>1, DataAt
    <3>3. a \in 4..(h - 1) /\ (a >= 9 => a \in 10..(h - 1))
      BY <1>3, <3>1, <3>2
    <3>4. x = m /\ y = a + 1
      BY <1>3, <3>1, <3>3 DEF Next1
    <3>5. ASSUME y \in 10..h PROVE buff_len' <= Value(n, y - 10)
      <4>1. a \in 10..(h - 1) /\ a \in 10..h /\ y - 10 = a - 9
        <5>1. h \in 11..14 /\ y = a + 1 /\ y \in 10..h /\ a \in Nat
          BY <1>3, <3>1, <3>4, <3>5
        <5>2. a \in 4..(h - 1) /\ (a >= 9 => a \in 10..(h - 1))
          BY <3>3
        <5> HIDE DEF h
        <5> QED
          BY <5>1, <5>2
      <4>2. /\ Value(n, a - 9) = Value(n, a - 10) * 10 + DigitVal(c)
            /\ Value(n, a - 10) \in Nat /\ DigitVal(c) \in 0..9
        BY <3>1, <4>1, DataAt
      <4>3. buff_len <= Value(n, a - 10)
        BY <3>1, <4>1
      <4>4. Value(n, y - 10) = Value(n, a - 9)
        BY <4>1
      <4>5. PICK v : v = Value(n, a - 10)
        OBVIOUS
      <4>6. PICK z : z = DigitVal(c)
        OBVIOUS
      <4>7. buff_len <= v /\ v \in Nat /\ z \in 0..9 /\ buff_len' = buff_len * 10 + z
        BY <2>2, <4>2, <4>3, <4>5, <4>6
      <4>8. buff_len' <= v * 10 + z
        BY <1>4, <4>7
      <4>9. Value(n, a - 9) = v * 10 + z
        BY <4>2, <4>5, <4>6
      <4> QED
        BY <4>4, <4>8, <4>9
    <3> QED
      BY <1>3, <3>1, <3>3, <3>4, <3>5
  <2> QED
    BY <1>1, <1>8, <2>1, <2>2, StateAfter
<1>9. ASSUME state' = "IPD_DAT"
      PROVE  \/ y = 1 /\ buff_len' <= Len(msg_buff') + 1
             \/ /\ y > 1 /\ x.kind = "ipd"
                /\ buff_len' + y <= Len(msg_buff') + Header(x.data) + Len(x.data) + 2
  <2>1. CASE state = "IPD_LEN" /\ c = ":" /\ buff_len' = buff_len /\ msg_buff' = msg_buff
    <3>1. /\ m.kind = "ipd" /\ a \in 4..(h + 1)
          /\ a \in 10..h => buff_len <= Value(n, a - 10)
          /\ a = h + 1 => buff_len <= n
      BY <2>1 DEF Astray
    <3>2. a \notin 4..6 /\ a # 7 /\ a # 9 /\ a # 8 /\ a \notin 10..(h - 1)
      BY <1>2, <2>1, <3>1, DataAt
    <3>3. a = h \/ a = h + 1
      <4>1. h \in 11..14
        BY <1>3, <3>1
      <4>2. a \in 4..(h + 1)
        BY <3>1
      <4> HIDE DEF h
      <4> QED
        BY <3>2, <4>1, <4>2
    <3>4. buff_len <= n
      <4>1. CASE a = h
        <5>1. h - 1 \in 1..Len(Encode(m)) /\ h - 1 \in 10..(h - 1) /\ (h - 1) - 9 = h - 10
          <6>1. h \in 11..14 /\ n \in Nat /\ Len(Encode(m)) = h + n
            BY <1>3, <3>1
          <6> HIDE DEF h, n
          <6> QED
            BY <6>1
        <5>2. Value(n, h - 10) = n
          BY <3>1, <5>1, DataAt
        <5>3. a \in 10..h
          BY <1>3, <3>1, <4>1
        <5> QED
          BY <3>1, <4>1, <5>2, <5>3
      <4>2. CASE a = h + 1
        BY <3>1, <4>2
      <4> QED
        BY <3>3, <4>1, <4>2
    <3>5. Len(msg_buff') = 0
      BY <1>5, <2>1
    <3>6. CASE a < Len(Encode(m))
      <4>1. x = m /\ y = a + 1
        BY <3>6 DEF Next1
      <4> HIDE DEF n, h, d
      <4>2. buff_len + y <= 0 + h + n + 2 /\ y > 1
        <5>1. h \in 11..14 /\ n \in Nat /\ buff_len \in Nat
          BY <1>3, <1>4, <3>1
        <5> QED
          BY <3>3, <3>4, <4>1, <5>1
      <4> QED
        BY <2>1, <3>1, <3>5, <4>1, <4>2 DEF n, h, d
    <3>7. CASE a = Len(Encode(m))
      <4>1. y = 1
        BY <3>7 DEF Next1
      <4>2. n \in Nat \ {0} /\ h \in 11..14 /\ Len(Encode(m)) = h + n
        BY <1>3, <3>1
      <4>3. n = 1
        <5> HIDE DEF n, h
        <5> QED
          BY <3>3, <3>7, <4>2
      <4> QED
        BY <2>1, <3>4, <3>5, <4>1, <4>3
    <3> QED
      BY <3>6, <3>7
  <2>2. CASE state = "IPD_DAT" /\ buff_len' = buff_len /\ msg_buff' = Append(msg_buff, c)
    <3>1. ~(buff_len <= Len(msg_buff) + 1)
      BY <1>1, <1>9, <2>2, StateAfter
    <3>2. a > 1 /\ m.kind = "ipd" /\ buff_len + a <= Len(msg_buff) + h + n + 2
      BY <2>2, <3>1 DEF Astray
    <3>3. Len(msg_buff') = Len(msg_buff) + 1
      BY <1>1, <1>4, <2>2
    <3>4. CASE a < Len(Encode(m))
      <4>1. x = m /\ y = a + 1
        BY <3>4 DEF Next1
      <4>3. n \in Nat /\ h \in Nat
        BY <1>3, <3>2
      <4> HIDE DEF n, h, d
      <4>2. buff_len + y <= (Len(msg_buff) + 1) + h + n + 2 /\ y > 1
        BY <1>4, <3>2, <4>1, <4>3
      <4> QED
        BY <2>2, <3>2, <3>3, <4>1, <4>2 DEF n, h, d
    <3>5. CASE a = Len(Encode(m))
      <4>1. y = 1 /\ a = h + n
        BY <1>3, <3>2, <3>5 DEF Next1
      <4>3. n \in Nat /\ h \in Nat
        BY <1>3, <3>2
      <4> HIDE DEF n, h, d
      <4>2. buff_len <= (Len(msg_buff) + 1) + 1
        BY <1>4, <3>2, <4>1, <4>3
      <4> QED
        BY <2>2, <3>3, <4>1, <4>2
    <3> QED
      BY <3>4, <3>5
  <2> QED
    BY <1>1, <1>9, <2>1, <2>2, StateAfter
<1> QED
  BY <1>6, <1>7, <1>8, <1>9 DEF Astray

(* It stays so when it reads a byte that was typed.                         *)
LEMMA AstrayTyped ==
    ASSUME IInv, NEW m, NEW a \in Nat, Sayable(m) \/ a = 1, Astray(m, a),
           NEW c \in Harmless, ParseChar(c)
    PROVE  Astray(m, a)'
<1> DEFINE d == m.data
           h == Header(d)
           n == Len(d)
<1>1. c \in Char /\ c \notin Digit /\ c # "+" /\ c # ":"
  BY DEF Harmless
<1>2. msg_op \in Seq(Char) /\ msg_buff \in Seq(Char) /\ buff_len \in Nat /\ Len(msg_buff) \in Nat
  BY DEF IInv, TypeOK
<1>3. a # 1 /\ m.kind = "ipd" => n \in Nat \ {0} /\ h \in 11..14
  BY DataSays
<1>4. ASSUME state' = "MSG_OP"
      PROVE  msg_op' # <<>> /\ (msg_op'[1] = "+" => m.kind = "ipd" /\ a \in 4..8)
  <2>1. CASE state = "CLEAR" /\ msg_op' = <<c>>
    <3>1. msg_op' # <<>> /\ msg_op'[1] = c
      BY <2>1
    <3> QED
      BY <1>1, <3>1
  <2>2. CASE state = "MSG_OP" /\ msg_op' = Append(msg_op, c)
    <3>1. msg_op # <<>> /\ (msg_op[1] = "+" => m.kind = "ipd" /\ a \in 4..8)
      BY <2>2 DEF Astray
    <3>2. msg_op' # <<>> /\ msg_op'[1] = msg_op[1]
      BY <1>1, <1>2, <2>2, <3>1
    <3> QED
      BY <3>1, <3>2
  <2> QED
    BY <1>1, <1>4, <2>1, <2>2, StateAfter
<1>5. ASSUME state' = "IPD_ID"
      PROVE  m.kind = "ipd" /\ a \in 4..h /\ buff_len' = 0
  <2>1. state = "MSG_OP" /\ msg_op = IpdOp /\ buff_len' = 0
    BY <1>1, <1>5, StateAfter
  <2>2. msg_op[1] = "+"
    BY <2>1 DEF IpdOp
  <2>3. m.kind = "ipd" /\ a \in 4..8
    BY <2>1, <2>2 DEF Astray
  <2> QED
    BY <1>3, <2>1, <2>3
<1>6. ASSUME state' = "IPD_LEN"
      PROVE  /\ m.kind = "ipd" /\ a \in 4..(h + 1)
             /\ a \in 10..h => buff_len' <= Value(n, a - 10)
             /\ a = h + 1 => buff_len' <= n
  <2>1. state = "IPD_ID" /\ buff_len' = buff_len
    BY <1>1, <1>6, StateAfter
  <2>2. m.kind = "ipd" /\ a \in 4..h /\ buff_len = 0
    BY <2>1 DEF Astray
  <2>3. n \in Nat \ {0} /\ n < 10000 /\ h = 10 + Width(n) /\ Width(n) \in 1..4 /\ a # 1
    BY <2>2, DataSays
  <2>4. ASSUME a \in 10..h PROVE Value(n, a - 10) \in Nat
    <3>1. CASE a = 10
      BY <3>1 DEF Value
    <3>2. CASE a # 10
      <4>1. a - 10 \in 1..Width(n)
        BY <2>3, <2>4, <3>2
      <4> QED
        BY <2>3, <4>1, ValueGrows
    <3> QED
      BY <3>1, <3>2
  <2>5. a \in 10..h => buff_len' <= Value(n, a - 10)
    BY <2>1, <2>2, <2>4
  <2> QED
    BY <2>1, <2>2, <2>3, <2>5
<1>7. ASSUME state' = "IPD_DAT"
      PROVE  \/ a = 1 /\ buff_len' <= Len(msg_buff') + 1
             \/ /\ a > 1 /\ m.kind = "ipd"
                /\ buff_len' + a <= Len(msg_buff') + h + n + 2
  <2>1. state = "IPD_DAT" /\ buff_len' = buff_len /\ msg_buff' = Append(msg_buff, c)
    BY <1>1, <1>7, StateAfter
  <2>2. ~(buff_len <= Len(msg_buff) + 1)
    BY <1>1, <1>7, <2>1, StateAfter
  <2>3. a > 1 /\ m.kind = "ipd" /\ buff_len + a <= Len(msg_buff) + h + n + 2
    BY <2>1, <2>2 DEF Astray
  <2>4. Len(msg_buff') = Len(msg_buff) + 1
    BY <1>1, <1>2, <2>1
  <2>5. n \in Nat /\ h \in Nat
    BY <1>3, <2>3
  <2> HIDE DEF n, h, d
  <2>6. buff_len + a <= (Len(msg_buff) + 1) + h + n + 2
    BY <1>2, <2>3, <2>5
  <2> QED
    BY <2>1, <2>3, <2>4, <2>6
<1> QED
  BY <1>4, <1>5, <1>6, <1>7 DEF Astray

(* A parser that is where it ought to be has not lost its place, and has    *)
(* lost it no further if the next byte of the message never comes.          *)
LEMMA ClearAstray ==
    /\ state = "CLEAR" => \A m, a : Astray(m, a)
    /\ state' = "CLEAR" => \A m, a : Astray(m, a)'
BY DEF Astray

LEMMA InsideAstray ==
    ASSUME IInv, NEW m, Sayable(m), PlainMsg(m), NEW a \in 1..Len(Encode(m)), Inside(m, a),
           NEW x, NEW y, (x = m /\ y = a) \/ Next1(m, a, x, y)
    PROVE  Astray(x, y)
<1> DEFINE d == m.data
           h == Header(d)
           n == Len(d)
           w == Width(n)
<1>1. CASE state \in {"CLEAR", "CONN_ID", "CONN_OP", "ERROR_CHAR"}
  BY <1>1 DEF Astray
<1>2. CASE m.kind = "prompt"
  BY <1>2, ClearAstray DEF Inside
<1>3. CASE m.kind \in {"connect", "closed"}
  <2> DEFINE op == IF m.kind = "connect" THEN ConnectOp ELSE ClosedOp
  <2>1. InNotice(m.id, op, a)
    BY <1>3 DEF Inside
  <2>2. Len(op) \in Nat /\ a \in Nat /\ a >= 1
    BY Words
  <2> HIDE DEF op
  <2>3. state \in {"CLEAR", "CONN_ID", "CONN_OP"}
    BY <2>1, <2>2 DEF InNotice
  <2> QED
    BY <1>1, <2>3
<1>4. CASE m.kind = "line"
  <2> DEFINE t == m.text
  <2>1. t \in Seq(Char) /\ Len(t) \in Nat /\ t[1] \in Letter
    BY <1>4 DEF Sayable
  <2>2. InLine(t, a) /\ Len(Encode(m)) = Len(t) + 4
    BY <1>4, <2>1, LineBytes DEF Inside
  <2> HIDE DEF t
  <2>3. CASE state \in {"CLEAR", "ERROR_CHAR"}
    BY <1>1, <2>3
  <2>4. CASE state \notin {"CLEAR", "ERROR_CHAR"}
    <3>1. a \in 4..(Len(t) + 3) /\ state = "MSG_OP" /\ msg_op = SubSeq(t, 1, a - 3)
      BY <2>1, <2>2, <2>4 DEF InLine
    <3>2. msg_op # <<>> /\ msg_op[1] = t[1]
      BY <2>1, <3>1
    <3>3. t[1] # "+"
      BY <2>1, ClassesApart DEF Punctuation
    <3> QED
      BY <3>1, <3>2, <3>3 DEF Astray
  <2> QED
    BY <2>3, <2>4
<1>5. CASE m.kind = "ipd"
  <2>1. /\ d \in Seq(Char) /\ n \in Nat \ {0} /\ n < 10000 /\ w \in 1..4 /\ h = 10 + w
        /\ Len(Encode(m)) = h + n
    BY <1>5, DataSays, DataAt
  <2>2. InData(m.id, d, a)
    BY <1>5 DEF Inside
  <2>3. CASE a <= 3
    BY <1>1, <2>2, <2>3 DEF InData
  <2>4. CASE a \in 4..7
    <3>1. state = "MSG_OP" /\ msg_op = SubSeq(IpdOp, 1, a - 3)
      BY <2>2, <2>4 DEF InData
    <3>2. msg_op # <<>>
      <4>1. IpdOp \in Seq({"+", "I", "P", "D"}) /\ Len(IpdOp) = 4 /\ a - 3 \in 1..4
        BY <2>4 DEF IpdOp
      <4> QED
        BY <3>1, <4>1
    <3>3. x = m /\ y \in 4..8
      BY <2>1, <2>4 DEF Next1
    <3> QED
      BY <1>5, <3>1, <3>2, <3>3 DEF Astray
  <2>5. CASE a = 8 \/ a = 9
    <3>1. state = "IPD_ID" /\ buff_len = 0
      BY <2>2, <2>5 DEF InData
    <3>2. x = m /\ y \in 4..h
      BY <2>1, <2>5 DEF Next1
    <3> QED
      BY <1>5, <3>1, <3>2 DEF Astray
  <2>6. CASE a \in 10..h
    <3>1. state = "IPD_LEN" /\ buff_len = Value(n, a - 10)
      BY <2>2, <2>6 DEF InData
    <3>2. x = m /\ (y = a \/ y = a + 1)
      BY <2>1, <2>6 DEF Next1
    <3>3. y \in 4..(h + 1)
      BY <2>1, <2>6, <3>2
    <3>4. ASSUME y \in 10..h PROVE buff_len <= Value(n, y - 10)
      <4>1. CASE y = a
        <5>1. buff_len = Value(n, y - 10) /\ buff_len \in Nat
          BY <3>1, <4>1 DEF IInv, TypeOK
        <5> QED
          BY <5>1
      <4>2. CASE y = a + 1
        <5>1. a \in 10..(h - 1) /\ y - 10 = a - 9
          BY <2>1, <2>6, <3>4, <4>2
        <5>2. PICK v : v = Value(n, a - 10)
          OBVIOUS
        <5>3. PICK z : z = DigitVal(Encode(m)[a])
          OBVIOUS
        <5>4. Value(n, a - 9) = v * 10 + z /\ v \in Nat /\ z \in 0..9
          BY <1>5, <5>1, <5>2, <5>3, DataAt
        <5>5. v <= v * 10 + z
          BY <5>4
        <5>6. Value(n, y - 10) = v * 10 + z
          BY <5>1, <5>4
        <5> QED
          BY <3>1, <5>2, <5>5, <5>6
      <4> QED
        BY <3>2, <4>1, <4>2
    <3>5. y = h + 1 => buff_len <= n
      <4>1. CASE y = h + 1
        <5>1. a - 10 = w /\ w \in 1..Width(n)
          BY <2>1, <2>6, <3>2, <4>1
        <5>2. Value(n, w) = n
          BY <2>1, <5>1, ValueGrows
        <5>3. Value(n, a - 10) = n
          BY <5>1, <5>2
        <5> QED
          BY <2>1, <3>1, <5>3
      <4> QED
        BY <4>1
    <3> QED
      BY <1>5, <3>1, <3>2, <3>3, <3>4, <3>5 DEF Astray
  <2>7. CASE a \in (h + 1)..(h + n)
    <3>1. state = "IPD_DAT" /\ buff_len = n /\ msg_buff = SubSeq(d, 1, a - h - 1)
      BY <2>2, <2>7 DEF InData
    <3>2. Len(msg_buff) = a - h - 1
      <4>1. a - h - 1 \in 0..n /\ n = Len(d)
        <5>1. n \in Nat /\ h \in Nat /\ n = Len(d)
          BY <2>1
        <5> HIDE DEF n, h, d
        <5> QED
          BY <2>7, <5>1
      <4> QED
        BY <2>1, <3>1, <4>1
    <3>3. \/ x = m /\ (y = a \/ y = a + 1)
          \/ y = 1 /\ a = h + n
      BY <2>1 DEF Next1
    <3> HIDE DEF n, h, d
    <3>4. \/ x = m /\ y > 1 /\ buff_len + y <= Len(msg_buff) + h + n + 2
          \/ y = 1 /\ buff_len <= Len(msg_buff) + 1
      <4>1. n \in Nat \ {0} /\ h \in Nat /\ h >= 10 /\ a \in (h + 1)..(h + n)
        <5>1. h \in Nat /\ h >= 10
          BY <2>1
        <5> QED
          BY <2>1, <2>7, <5>1
      <4> QED
        BY <3>1, <3>2, <3>3, <4>1
    <3> QED
      BY <1>5, <3>1, <3>4 DEF Astray, n, h, d
  <2>8. a \in 1..(h + n)
    BY <2>1
  <2> HIDE DEF n, h, d
  <2>9. a <= 3 \/ a \in 4..7 \/ a = 8 \/ a = 9 \/ a \in 10..h \/ a \in (h + 1)..(h + n)
    BY <2>1, <2>8
  <2> QED
    BY <2>3, <2>4, <2>5, <2>6, <2>7, <2>9
<1> QED
  BY <1>2, <1>3, <1>4, <1>5 DEF Sayable

(* The first byte of a line or of a report of data sets it right, the       *)
(* newline of a connection report does.                                     *)
LongAs(m) == IF m.kind \in {"connect", "closed"} THEN Len(Encode(m)) - 1 ELSE 1

LEMMA Resync ==
    ASSUME IInv, NEW m, Sayable(m), m.kind # "prompt", Astray(m, LongAs(m)),
           ParseChar(Encode(m)[LongAs(m)])
    PROVE  /\ LongAs(m) \in 1..(Len(Encode(m)) - 1) /\ Len(Encode(m)) \in Nat
           /\ Inside(m, LongAs(m) + 1)'
<1> DEFINE a == LongAs(m)
           c == Encode(m)[a]
<1>1. "cr" \in Newline /\ "cr" \in Char
  BY DEF Newline, Char
<1>2. ASSUME NEW op, \/ m.kind = "connect" /\ op = ConnectOp
                     \/ m.kind = "closed" /\ op = ClosedOp
      PROVE  /\ a \in 1..(Len(Encode(m)) - 1) /\ Len(Encode(m)) \in Nat
             /\ Inside(m, a + 1)'
  <2>1. m.id \in 0..9
    <3>1. m \in [kind : {"connect", "closed"}, id : 0..(ID_MAX - 1)]
      BY <1>2 DEF Sayable
    <3> QED
      BY <3>1, ParserAssumption
  <2>2. op \in Seq(Letter) /\ Len(op) \in {6, 7}
    BY <1>2, Words
  <2>3. Len(Encode(m)) = Len(op) + 4 /\ Encode(m)[Len(op) + 3] = "cr"
    BY <1>2, <2>1, <2>2, NoticeBytes
  <2>4. a = Len(op) + 3 /\ a > 1 /\ c = "cr"
    BY <1>2, <2>2, <2>3 DEF LongAs
  <2>5. state # "IPD_DAT"
    BY <1>2, <2>4 DEF Astray
  <2>6. state' = "CLEAR"
    BY <1>1, <2>4, <2>5, StateAfter
  <2>7. InNotice(m.id, op, a + 1)'
    BY <2>2, <2>4, <2>6 DEF InNotice
  <2>8. Inside(m, a + 1)'
    BY <1>2, <2>7 DEF Inside
  <2> QED
    BY <2>2, <2>3, <2>4, <2>8
<1>3. CASE m.kind = "line"
  <2>1. m.text \in Seq(Char) /\ Len(m.text) \in Nat \ {0}
    BY <1>3 DEF Sayable
  <2>2. Len(Encode(m)) = Len(m.text) + 4 /\ Encode(m)[1] = "cr"
    BY <1>3, <2>1, LineBytes
  <2>3. a = 1 /\ c = "cr"
    BY <1>3, <2>2 DEF LongAs
  <2>4. state = "IPD_DAT" => buff_len <= Len(msg_buff) + 1
    BY <2>3 DEF Astray
  <2>5. state' = "CLEAR"
    BY <1>1, <2>3, <2>4, StateAfter
  <2>6. InLine(m.text, 2)'
    BY <2>1, <2>5 DEF InLine
  <2> QED
    BY <1>3, <2>1, <2>2, <2>3, <2>6 DEF Inside
<1>4. CASE m.kind = "ipd"
  <2>1. /\ DataShape(Encode(m), m.id, m.data, Width(Len(m.data)))
        /\ Len(m.data) \in Nat \ {0} /\ Width(Len(m.data)) \in 1..4
        /\ Header(m.data) \in 11..14
    BY <1>4, DataSays
  <2>2. Encode(m)[1] = "cr" /\ Len(Encode(m)) = 10 + Width(Len(m.data)) + Len(m.data)
    BY <2>1 DEF DataShape
  <2>3. a = 1 /\ c = "cr"
    BY <1>4, <2>2 DEF LongAs
  <2>4. state = "IPD_DAT" => buff_len <= Len(msg_buff) + 1
    BY <2>3 DEF Astray
  <2>5. state' = "CLEAR"
    BY <1>1, <2>3, <2>4, StateAfter
  <2>6. InData(m.id, m.data, 2)'
    BY <2>1, <2>5 DEF InData
  <2> QED
    BY <1>4, <2>1, <2>2, <2>3, <2>6 DEF Inside
<1> QED
  BY <1>2, <1>3, <1>4 DEF Sayable

-----------------------------------------------------------------------------
(* A stream with one disturbance.  The place of a byte on the line is a     *)
(* byte of a message said, or the first of the next one.                    *)
Somewhere(b, ms) == \/ b.of \in 1..Len(ms) /\ b.at \in 1..Length(ms, b.of)
                    \/ b.of = Len(ms) + 1 /\ b.at = 1
Before(b, e)     == b.of < e \/ (b.of = e /\ b.at = 1)
Spot(s, ms, k)   == IF k <= Len(s) THEN s[k] ELSE Byte("cr", Len(ms) + 1, 1)

(* What follows a byte: a typed one has slipped in front of its place.  At  *)
(* the hole one byte, of message h, has been lost.                          *)
After(b, d, ms)   == IF b.own THEN NextTo(b, d, ms) ELSE d.of = b.of /\ d.at = b.at
Past(b, d, ms, h) == \E y \in [of : {h}, at : Nat] : NextTo(b, y, ms) /\ NextTo(y, d, ms)

(* The messages that the damage, which hits h and later ones, cannot reach  *)
(* when e sets the parser right.                                            *)
Kept(h, e) == {i \in Nat : i < h \/ i > e}

Pieces(s, ms, h, e) ==
    \A k \in 1..Len(s) :
       /\ Somewhere(s[k], ms)
       /\ s[k].own => Placed(s[k], ms)
       /\ ~s[k].own => s[k].c \in Harmless /\ s[k].of >= h /\ Before(s[k], e)
Chain(s, ms, x, h) ==
    \A k \in 1..Len(s) : /\ k = x => Past(s[k], Spot(s, ms, k + 1), ms, h)
                         /\ k # x => After(s[k], Spot(s, ms, k + 1), ms)
Early(s, e) ==
    \A j, k \in 1..Len(s) : j < k /\ s[j].own /\ ~s[k].own => s[j].of < e
Covers(s, ms, I) ==
    \A i \in I : Spot(s, ms, 1).of <= i /\ i <= Len(ms) => \E k \in 1..Len(s) : s[k].of = i
AllOwn(s) == \A k \in 1..Len(s) : s[k].own

Rough(s, ms, x, h, e) ==
    /\ Pieces(s, ms, h, e) /\ Chain(s, ms, x, h) /\ Early(s, e)
    /\ Covers(s, ms, Kept(h, e))
    /\ x \in 0..Len(s) /\ (x # 0 => AllOwn(s))

(* One byte less in front, one more at n + 1, one less at n + 1.            *)
Cut(s, t)        == Len(t) = Len(s) - 1 /\ \A k \in 1..Len(t) : t[k] = s[k + 1]
With(s, n, d, t) == /\ Len(t) = Len(s) + 1 /\ t[n + 1] = d
                    /\ \A k \in 1..n : t[k] = s[k]
                    /\ \A k \in (n + 2)..(Len(s) + 1) : t[k] = s[k - 1]
Without(s, n, t) == /\ Len(t) = Len(s) - 1
                    /\ \A k \in 1..n : t[k] = s[k]
                    /\ \A k \in (n + 1)..(Len(s) - 1) : t[k] = s[k + 1]

LEMMA SpotWhere ==
    ASSUME NEW ms, Len(ms) \in Nat, NEW s, NEW h, NEW e, Pieces(s, ms, h, e), Len(s) \in Nat,
           NEW k \in Nat \ {0}
    PROVE  Somewhere(Spot(s, ms, k), ms)
<1>1. CASE k <= Len(s)
  <2>1. k \in 1..Len(s)
    BY <1>1
  <2> QED
    BY <1>1, <2>1 DEF Pieces, Spot
<1>2. CASE ~(k <= Len(s))
  BY <1>2 DEF Spot, Byte, Somewhere
<1> QED
  BY <1>1, <1>2

LEMMA StepsOn ==
    ASSUME NEW ms, NEW b, NEW d, NEW h, b.of \in Nat,
           After(b, d, ms) \/ Past(b, d, ms, h)
    PROVE  d.of \in Nat /\ b.of <= d.of
<1>1. ASSUME NextTo(b, d, ms) PROVE d.of \in Nat /\ b.of <= d.of
  BY <1>1 DEF NextTo
<1>2. ASSUME Past(b, d, ms, h) PROVE d.of \in Nat /\ b.of <= d.of
  <2>1. PICK y \in [of : {h}, at : Nat] : NextTo(b, y, ms) /\ NextTo(y, d, ms)
    BY <1>2 DEF Past
  <2>2. y.of = b.of \/ y.of = b.of + 1
    BY <2>1 DEF NextTo
  <2>3. d.of = y.of \/ d.of = y.of + 1
    BY <2>1 DEF NextTo
  <2> QED
    BY <2>2, <2>3
<1> QED
  BY <1>1, <1>2 DEF After

(* One byte is read.                                                        *)
LEMMA RoughTail ==
    ASSUME NEW ms, Len(ms) \in Nat, NEW s, NEW t, Len(s) \in Nat \ {0}, Cut(s, t),
           NEW h, NEW e, NEW x, Rough(s, ms, x, h, e)
    PROVE  /\ Rough(t, ms, IF x = 0 THEN 0 ELSE x - 1, h, e)
           /\ Spot(t, ms, 1) = Spot(s, ms, 2) /\ Spot(s, ms, 1) = s[1]
<1> DEFINE z == IF x = 0 THEN 0 ELSE x - 1
<1>0. Len(t) = Len(s) - 1 /\ \A k \in 1..Len(t) : t[k] = s[k + 1]
  BY DEF Cut
<1> USE <1>0
<1>1. /\ Pieces(s, ms, h, e) /\ Chain(s, ms, x, h) /\ Early(s, e) /\ x \in 0..Len(s)
      /\ Covers(s, ms, Kept(h, e)) /\ (x # 0 => AllOwn(s))
  BY DEF Rough
<1>2. \A k \in 1..Len(t) : k + 1 \in 1..Len(s) /\ k \in Nat /\ (k = z <=> k + 1 = x)
  BY <1>1
<1>3. \A k \in 1..Len(s) : Spot(t, ms, k) = Spot(s, ms, k + 1)
  <2> TAKE k \in 1..Len(s)
  <2>1. CASE k <= Len(t)
    <3>1. k \in 1..Len(t) /\ k + 1 <= Len(s)
      BY <2>1
    <3> QED
      BY <2>1, <3>1 DEF Spot
  <2>2. CASE ~(k <= Len(t))
    <3>1. ~(k + 1 <= Len(s))
      BY <2>2
    <3> QED
      BY <2>2, <3>1 DEF Spot
  <2> QED
    BY <2>1, <2>2
<1>4. z \in 0..Len(t) /\ (z # 0 => x # 0)
  BY <1>1
<1> HIDE DEF z
<1>5. Pieces(t, ms, h, e)
  BY <1>1, <1>2 DEF Pieces
<1>6. Chain(t, ms, z, h)
  <2> SUFFICES ASSUME NEW k \in 1..Len(t)
               PROVE  /\ k = z => Past(t[k], Spot(t, ms, k + 1), ms, h)
                      /\ k # z => After(t[k], Spot(t, ms, k + 1), ms)
    BY DEF Chain
  <2>1. /\ t[k] = s[k + 1] /\ k + 1 \in 1..Len(s) /\ (k = z <=> k + 1 = x)
        /\ Spot(t, ms, k + 1) = Spot(s, ms, (k + 1) + 1)
    BY <1>2, <1>3
  <2> QED
    BY <1>1, <2>1 DEF Chain
<1>7. Early(t, e)
  <2> SUFFICES ASSUME NEW j \in 1..Len(t), NEW k \in 1..Len(t), j < k, t[j].own, ~t[k].own
               PROVE  t[j].of < e
    BY DEF Early
  <2>1. j + 1 \in 1..Len(s) /\ k + 1 \in 1..Len(s) /\ j + 1 < k + 1
    BY <1>2
  <2> QED
    BY <1>1, <2>1 DEF Early
<1>8. 1 \in 1..Len(s) /\ Spot(s, ms, 1) = s[1] /\ Spot(t, ms, 1) = Spot(s, ms, 2)
  <2>1. 1 \in 1..Len(s) /\ 1 <= Len(s) /\ 1 + 1 = 2
    OBVIOUS
  <2> QED
    BY <1>3, <2>1 DEF Spot
<1>9. Covers(t, ms, Kept(h, e))
  <2> SUFFICES ASSUME NEW i \in Kept(h, e), Spot(t, ms, 1).of <= i, i <= Len(ms)
               PROVE  \E k \in 1..Len(t) : t[k].of = i
    BY DEF Covers
  <2>1. i \in Nat
    BY DEF Kept
  <2>2. s[1].of \in Nat /\ Spot(s, ms, 2).of \in Nat /\ s[1].of <= Spot(s, ms, 2).of
    <3>1. After(s[1], Spot(s, ms, 2), ms) \/ Past(s[1], Spot(s, ms, 2), ms, h)
      BY <1>1, <1>8 DEF Chain
    <3>2. Somewhere(s[1], ms)
      BY <1>1, <1>8 DEF Pieces
    <3>3. s[1].of \in Nat
      BY <3>2 DEF Somewhere
    <3> QED
      BY <3>1, <3>3, StepsOn
  <2>3. PICK k \in 1..Len(s) : s[k].of = i
    <3>1. Spot(s, ms, 1).of <= i
      BY <1>8, <2>1, <2>2
    <3> QED
      BY <1>1, <3>1 DEF Covers
  <2>4. CASE k = 1
    <3>1. Spot(s, ms, 2).of = i
      BY <1>8, <2>1, <2>2, <2>3, <2>4
    <3>2. 2 <= Len(s)
      <4> SUFFICES ASSUME ~(2 <= Len(s)) PROVE FALSE
        OBVIOUS
      <4>1. Spot(s, ms, 2).of = Len(ms) + 1
        BY DEF Spot, Byte
      <4> QED
        BY <2>1, <3>1, <4>1
    <3>3. 1 \in 1..Len(t) /\ 1 + 1 = 2
      BY <3>2
    <3>4. t[1] = s[2] /\ Spot(s, ms, 2) = s[2]
      BY <3>2, <3>3 DEF Spot
    <3> QED
      BY <3>1, <3>3, <3>4
  <2>5. CASE k # 1
    <3>1. k - 1 \in 1..Len(t) /\ (k - 1) + 1 = k
      BY <2>5
    <3>2. t[k - 1] = s[k]
      BY <3>1
    <3> QED
      BY <2>3, <3>1, <3>2
  <2> QED
    BY <2>4, <2>5
<1>10. z # 0 => AllOwn(t)
  BY <1>1, <1>2, <1>4 DEF AllOwn
<1> QED
  BY <1>4, <1>5, <1>6, <1>7, <1>8, <1>9, <1>10 DEF Rough, z

(* Setting the end of the damage later.                                     *)
LEMMA RoughLater ==
    ASSUME NEW ms, NEW s, NEW h, NEW e \in Nat, NEW f \in Nat, e <= f, NEW x,
           \A k \in 1..Len(s) : s[k].of \in Nat,
           Rough(s, ms, x, h, e)
    PROVE  Rough(s, ms, x, h, f)
<1>1. /\ Pieces(s, ms, h, e) /\ Chain(s, ms, x, h) /\ Early(s, e) /\ x \in 0..Len(s)
      /\ Covers(s, ms, Kept(h, e)) /\ (x # 0 => AllOwn(s))
  BY DEF Rough
<1>2. Pieces(s, ms, h, f)
  <2>1. \A k \in 1..Len(s) : Before(s[k], e) => Before(s[k], f)
    BY DEF Before
  <2> QED
    BY <1>1, <2>1 DEF Pieces
<1>3. Early(s, f)
  BY <1>1 DEF Early
<1>4. Covers(s, ms, Kept(h, f))
  <2>1. Kept(h, f) \subseteq Kept(h, e)
    BY DEF Kept
  <2> QED
    BY <1>1, <2>1 DEF Covers
<1> QED
  BY <1>1, <1>2, <1>3, <1>4 DEF Rough

(* An undisturbed stream.                                                   *)
LEMMA RoughClean ==
    ASSUME NEW ms, Len(ms) \in Nat, NEW s, Len(s) \in Nat, s = <<>> <=> Len(s) = 0,
           Flow(s, ms), AllOwn(s), NEW h, NEW e
    PROVE  /\ Rough(s, ms, 0, h, e)
           /\ Spot(s, ms, 1) = Here(s, ms)
<1>1. Spot(s, ms, 1) = Here(s, ms)
  <2>1. CASE s = <<>>
    <3>1. ~(1 <= Len(s))
      BY <2>1
    <3> QED
      BY <2>1, <3>1 DEF Spot, Here
  <2>2. CASE s # <<>>
    <3>1. 1 <= Len(s)
      BY <2>2
    <3> QED
      BY <2>2, <3>1 DEF Spot, Here
  <2> QED
    BY <2>1, <2>2
<1>2. Pieces(s, ms, h, e)
  <2>1. \A k \in 1..Len(s) : Placed(s[k], ms)
    BY DEF Flow
  <2>2. \A k \in 1..Len(s) : Somewhere(s[k], ms)
    BY <2>1 DEF Placed, Somewhere
  <2> QED
    BY <2>1, <2>2 DEF Pieces, AllOwn
<1>3. Chain(s, ms, 0, h)
  <2> SUFFICES ASSUME NEW k \in 1..Len(s)
               PROVE  k # 0 /\ NextTo(s[k], Spot(s, ms, k + 1), ms)
    BY DEF Chain, After, AllOwn
  <2>1. CASE k < Len(s)
    <3>1. k \in 1..(Len(s) - 1) /\ k + 1 <= Len(s)
      BY <2>1
    <3>2. NextTo(s[k], s[k + 1], ms)
      BY <3>1 DEF Flow
    <3> QED
      BY <3>1, <3>2 DEF Spot
  <2>2. CASE ~(k < Len(s))
    <3>1. k = Len(s) /\ s # <<>> /\ ~(k + 1 <= Len(s))
      BY <2>2
    <3>2. Ends(s[k], ms)
      BY <3>1 DEF Flow
    <3>3. Spot(s, ms, k + 1) = Byte("cr", Len(ms) + 1, 1)
      BY <3>1 DEF Spot
    <3> QED
      BY <3>2, <3>3 DEF Ends, NextTo, Byte
  <2> QED
    BY <2>1, <2>2
<1>4. Early(s, e)
  BY DEF Early, AllOwn
<1>5. Covers(s, ms, Kept(h, e))
  <2>1. \A i \in Nat : Here(s, ms).of <= i /\ i <= Len(ms) => \E k \in 1..Len(s) : s[k].of = i
    BY DEF Flow
  <2>2. Kept(h, e) \subseteq Nat
    BY DEF Kept
  <2> QED
    BY <1>1, <2>1, <2>2 DEF Covers
<1> QED
  BY <1>1, <1>2, <1>3, <1>4, <1>5 DEF Rough

(* A typed byte slips in.                                                   *)
LEMMA RoughSlip ==
    ASSUME NEW ms, Len(ms) \in Nat, NEW s, Len(s) \in Nat, NEW n \in 0..Len(s), NEW d,
           NEW t, With(s, n, d, t),
           ~d.own, d.c \in Harmless,
           d.of = Spot(s, ms, n + 1).of, d.at = Spot(s, ms, n + 1).at,
           NEW h, NEW e, e = Len(ms) + 1, d.of >= h, Rough(s, ms, 0, h, e)
    PROVE  /\ Rough(t, ms, 0, h, e)
           /\ Spot(t, ms, 1).of = Spot(s, ms, 1).of /\ Spot(t, ms, 1).at = Spot(s, ms, 1).at
<1>0. /\ Len(t) = Len(s) + 1 /\ t[n + 1] = d
      /\ \A k \in 1..n : t[k] = s[k]
      /\ \A k \in (n + 2)..(Len(s) + 1) : t[k] = s[k - 1]
  BY DEF With
<1> USE <1>0
<1>1. /\ Pieces(s, ms, h, e) /\ Chain(s, ms, 0, h) /\ Early(s, e)
      /\ Covers(s, ms, Kept(h, e))
  BY DEF Rough
<1>2. Somewhere(d, ms)
  <2>1. Somewhere(Spot(s, ms, n + 1), ms)
    BY <1>1, SpotWhere
  <2> QED
    BY <2>1 DEF Somewhere
<1>3. /\ \A k \in 1..n : Spot(t, ms, k) = Spot(s, ms, k)
      /\ Spot(t, ms, n + 1) = d
      /\ \A k \in (n + 2)..(Len(s) + 2) : Spot(t, ms, k) = Spot(s, ms, k - 1)
  <2>1. ASSUME NEW k \in 1..n PROVE Spot(t, ms, k) = Spot(s, ms, k)
    <3>1. k <= Len(t) /\ k <= Len(s)
      OBVIOUS
    <3> QED
      BY <3>1 DEF Spot
  <2>2. Spot(t, ms, n + 1) = d
    <3>1. n + 1 <= Len(t)
      OBVIOUS
    <3> QED
      BY <3>1 DEF Spot
  <2>3. ASSUME NEW k \in (n + 2)..(Len(s) + 2) PROVE Spot(t, ms, k) = Spot(s, ms, k - 1)
    <3>1. CASE k <= Len(s) + 1
      <4>1. k <= Len(t) /\ k - 1 <= Len(s) /\ k \in (n + 2)..(Len(s) + 1)
        BY <3>1
      <4> QED
        BY <4>1 DEF Spot
    <3>2. CASE ~(k <= Len(s) + 1)
      <4>1. ~(k <= Len(t)) /\ ~(k - 1 <= Len(s))
        BY <3>2
      <4> QED
        BY <4>1 DEF Spot
    <3> QED
      BY <3>1, <3>2
  <2> QED
    BY <2>1, <2>2, <2>3
<1>4. Pieces(t, ms, h, e)
  <2> SUFFICES ASSUME NEW k \in 1..Len(t)
               PROVE  /\ Somewhere(t[k], ms)
                      /\ t[k].own => Placed(t[k], ms)
                      /\ ~t[k].own => t[k].c \in Harmless /\ t[k].of >= h /\ Before(t[k], e)
    BY DEF Pieces
  <2>1. CASE k <= n
    <3>1. k \in 1..n /\ k \in 1..Len(s)
      BY <2>1
    <3>2. t[k] = s[k]
      BY <3>1
    <3> QED
      BY <1>1, <3>1, <3>2 DEF Pieces
  <2>2. CASE k = n + 1
    <3>1. t[k] = d
      BY <2>2
    <3>2. Before(d, e)
      BY <1>2 DEF Somewhere, Before
    <3> QED
      BY <1>2, <3>1, <3>2
  <2>3. CASE k > n + 1
    <3>1. k \in (n + 2)..(Len(s) + 1) /\ k - 1 \in 1..Len(s)
      BY <2>3
    <3>2. t[k] = s[k - 1]
      BY <3>1
    <3> QED
      BY <1>1, <3>1, <3>2 DEF Pieces
  <2> QED
    BY <2>1, <2>2, <2>3
<1>5. Chain(t, ms, 0, h)
  <2> SUFFICES ASSUME NEW k \in 1..Len(t)
               PROVE  k # 0 /\ After(t[k], Spot(t, ms, k + 1), ms)
    BY DEF Chain
  <2>1. CASE k < n
    <3>1. k \in 1..n /\ k + 1 \in 1..n /\ k \in 1..Len(s)
      BY <2>1
    <3>2. t[k] = s[k] /\ Spot(t, ms, k + 1) = Spot(s, ms, k + 1)
      BY <1>3, <3>1
    <3> QED
      BY <1>1, <3>1, <3>2 DEF Chain
  <2>2. CASE k = n
    <3>1. k \in 1..n /\ k \in 1..Len(s) /\ k # 0
      BY <2>2
    <3>2. t[k] = s[k] /\ Spot(t, ms, k + 1) = d
      BY <1>3, <2>2, <3>1
    <3>3. After(s[k], Spot(s, ms, k + 1), ms)
      BY <1>1, <3>1 DEF Chain
    <3> QED
      BY <2>2, <3>1, <3>2, <3>3 DEF After, NextTo
  <2>3. CASE k = n + 1
    <3>1. k + 1 \in (n + 2)..(Len(s) + 2) /\ (k + 1) - 1 = n + 1 /\ k # 0
      BY <2>3
    <3>2. t[k] = d /\ Spot(t, ms, k + 1) = Spot(s, ms, n + 1)
      BY <1>3, <2>3, <3>1
    <3> QED
      BY <3>1, <3>2 DEF After
  <2>4. CASE k > n + 1
    <3>1. /\ k \in (n + 2)..(Len(s) + 1) /\ k - 1 \in 1..Len(s) /\ (k - 1) + 1 = k /\ k # 0
          /\ k + 1 \in (n + 2)..(Len(s) + 2) /\ (k + 1) - 1 = k
      BY <2>4
    <3>2. t[k] = s[k - 1] /\ Spot(t, ms, k + 1) = Spot(s, ms, k)
      BY <1>3, <3>1
    <3>3. After(s[k - 1], Spot(s, ms, (k - 1) + 1), ms)
      BY <1>1, <3>1 DEF Chain
    <3> QED
      BY <3>1, <3>2, <3>3
  <2> QED
    BY <2>1, <2>2, <2>3, <2>4
<1>6. Early(t, e)
  <2> SUFFICES ASSUME NEW j \in 1..Len(t), t[j].own PROVE t[j].of < e
    BY DEF Early
  <2>1. Placed(t[j], ms)
    BY <1>4 DEF Pieces
  <2> QED
    BY <2>1 DEF Placed
<1>7. Spot(t, ms, 1).of = Spot(s, ms, 1).of /\ Spot(t, ms, 1).at = Spot(s, ms, 1).at
  <2>1. CASE n = 0
    BY <1>3, <2>1
  <2>2. CASE n # 0
    <3>1. 1 \in 1..n
      BY <2>2
    <3> QED
      BY <1>3, <3>1
  <2> QED
    BY <2>1, <2>2
<1>8. Covers(t, ms, Kept(h, e))
  <2> SUFFICES ASSUME NEW i \in Kept(h, e), Spot(t, ms, 1).of <= i, i <= Len(ms)
               PROVE  \E k \in 1..Len(t) : t[k].of = i
    BY DEF Covers
  <2>1. PICK k \in 1..Len(s) : s[k].of = i
    BY <1>1, <1>7 DEF Covers
  <2>2. CASE k <= n
    <3>1. k \in 1..n /\ k \in 1..Len(t)
      BY <2>2
    <3> QED
      BY <2>1, <3>1
  <2>3. CASE ~(k <= n)
    <3>1. k + 1 \in (n + 2)..(Len(s) + 1) /\ k + 1 \in 1..Len(t) /\ (k + 1) - 1 = k
      BY <2>3
    <3>2. t[k + 1] = s[k]
      BY <3>1
    <3> QED
      BY <2>1, <3>1, <3>2
  <2> QED
    BY <2>2, <2>3
<1>9. 0 \in 0..Len(t)
  OBVIOUS
<1> QED
  BY <1>4, <1>5, <1>6, <1>7, <1>8, <1>9 DEF Rough

(* A byte of the last message is lost.                                      *)
LEMMA RoughDrop ==
    ASSUME NEW ms, Len(ms) \in Nat, NEW s, Len(s) \in Nat, NEW n \in 0..(Len(s) - 1),
           NEW t, Without(s, n, t),
           NEW h, NEW e, h = Len(ms), e = Len(ms) + 1, s[n + 1].of = h, s[n + 1].at \in Nat,
           AllOwn(s), Rough(s, ms, 0, h, e)
    PROVE  /\ Rough(t, ms, n, h, e)
           /\ n # 0 => Spot(t, ms, 1) = Spot(s, ms, 1)
           /\ n = 0 => /\ NextTo(s[1], Spot(t, ms, 1), ms) /\ Spot(s, ms, 1) = s[1]
                       /\ Spot(t, ms, 1) = Spot(s, ms, 2)
<1>0. /\ Len(t) = Len(s) - 1
      /\ \A k \in 1..n : t[k] = s[k]
      /\ \A k \in (n + 1)..(Len(s) - 1) : t[k] = s[k + 1]
  BY DEF Without
<1> USE <1>0
<1>1. /\ Pieces(s, ms, h, e) /\ Chain(s, ms, 0, h) /\ Early(s, e)
      /\ Covers(s, ms, Kept(h, e))
  BY DEF Rough
<1>2. /\ \A k \in 1..n : Spot(t, ms, k) = Spot(s, ms, k)
      /\ \A k \in (n + 1)..Len(s) : Spot(t, ms, k) = Spot(s, ms, k + 1)
  <2>1. ASSUME NEW k \in 1..n PROVE Spot(t, ms, k) = Spot(s, ms, k)
    <3>1. k <= Len(t) /\ k <= Len(s)
      OBVIOUS
    <3> QED
      BY <3>1 DEF Spot
  <2>2. ASSUME NEW k \in (n + 1)..Len(s) PROVE Spot(t, ms, k) = Spot(s, ms, k + 1)
    <3>1. CASE k <= Len(s) - 1
      <4>1. k <= Len(t) /\ k + 1 <= Len(s) /\ k \in (n + 1)..(Len(s) - 1)
        BY <3>1
      <4> QED
        BY <4>1 DEF Spot
    <3>2. CASE ~(k <= Len(s) - 1)
      <4>1. ~(k <= Len(t)) /\ ~(k + 1 <= Len(s))
        BY <3>2
      <4> QED
        BY <4>1 DEF Spot
    <3> QED
      BY <3>1, <3>2
  <2> QED
    BY <2>1, <2>2
<1>3. \A k \in 1..Len(s) : NextTo(s[k], Spot(s, ms, k + 1), ms)
  <2>1. \A k \in 1..Len(s) : k # 0
    OBVIOUS
  <2> QED
    BY <1>1, <2>1 DEF Chain, After, AllOwn
<1>4. \A k \in 1..Len(t) : \/ k \in 1..n /\ k \in 1..Len(s) /\ t[k] = s[k]
                           \/ k > n /\ k + 1 \in 1..Len(s) /\ t[k] = s[k + 1]
  <2> TAKE k \in 1..Len(t)
  <2>1. CASE k <= n
    <3>1. k \in 1..n /\ k \in 1..Len(s)
      BY <2>1
    <3> QED
      BY <3>1
  <2>2. CASE ~(k <= n)
    <3>1. k > n /\ k \in (n + 1)..(Len(s) - 1) /\ k + 1 \in 1..Len(s)
      BY <2>2
    <3> QED
      BY <3>1
  <2> QED
    BY <2>1, <2>2
<1>5. Pieces(t, ms, h, e) /\ AllOwn(t)
  BY <1>1, <1>4 DEF Pieces, AllOwn
<1>6. Early(t, e)
  BY <1>5 DEF Early, AllOwn
<1>7. Chain(t, ms, n, h)
  <2> SUFFICES ASSUME NEW k \in 1..Len(t)
               PROVE  /\ k = n => Past(t[k], Spot(t, ms, k + 1), ms, h)
                      /\ k # n => After(t[k], Spot(t, ms, k + 1), ms)
    BY DEF Chain
  <2>1. CASE k < n
    <3>1. k \in 1..n /\ k + 1 \in 1..n /\ k \in 1..Len(s)
      BY <2>1
    <3>2. t[k] = s[k] /\ Spot(t, ms, k + 1) = Spot(s, ms, k + 1)
      BY <1>2, <3>1
    <3> QED
      BY <1>3, <1>5, <2>1, <3>1, <3>2 DEF After, AllOwn
  <2>2. CASE k = n
    <3> DEFINE y == [of |-> h, at |-> s[n + 1].at]
    <3>1. /\ k \in 1..n /\ k \in 1..Len(s) /\ n + 1 \in 1..Len(s) /\ n + 1 <= Len(s)
          /\ n + 1 \in (n + 1)..Len(s)
      BY <2>2
    <3>2. t[k] = s[n] /\ Spot(t, ms, k + 1) = Spot(s, ms, (n + 1) + 1)
      BY <1>2, <2>2, <3>1
    <3>3. Spot(s, ms, n + 1) = s[n + 1]
      BY <3>1 DEF Spot
    <3>4. NextTo(s[n], s[n + 1], ms) /\ NextTo(s[n + 1], Spot(s, ms, (n + 1) + 1), ms)
      BY <1>3, <2>2, <3>1, <3>3
    <3>5. y \in [of : {h}, at : Nat] /\ y.of = s[n + 1].of /\ y.at = s[n + 1].at
      OBVIOUS
    <3> HIDE DEF y
    <3>6. NextTo(s[n], y, ms) /\ NextTo(y, Spot(s, ms, (n + 1) + 1), ms)
      BY <3>4, <3>5 DEF NextTo
    <3>7. Past(s[n], Spot(s, ms, (n + 1) + 1), ms, h)
      BY <3>5, <3>6 DEF Past
    <3> QED
      BY <2>2, <3>2, <3>7
  <2>3. CASE k > n
    <3>1. /\ k \in (n + 1)..Len(s) /\ k + 1 \in (n + 1)..Len(s) /\ k + 1 \in 1..Len(s)
          /\ k \in (n + 1)..(Len(s) - 1)
      BY <2>3
    <3>2. t[k] = s[k + 1] /\ Spot(t, ms, k + 1) = Spot(s, ms, (k + 1) + 1)
      BY <1>2, <3>1
    <3> QED
      BY <1>3, <1>5, <2>3, <3>1, <3>2 DEF After, AllOwn
  <2> QED
    BY <2>1, <2>2, <2>3
<1>8. n # 0 => Spot(t, ms, 1) = Spot(s, ms, 1)
  <2>1. n # 0 => 1 \in 1..n
    OBVIOUS
  <2> QED
    BY <1>2, <2>1
<1>9. n = 0 => /\ NextTo(s[1], Spot(t, ms, 1), ms) /\ Spot(s, ms, 1) = s[1]
               /\ Spot(t, ms, 1) = Spot(s, ms, 2)
  <2>1. SUFFICES ASSUME n = 0 PROVE /\ NextTo(s[1], Spot(t, ms, 1), ms) /\ Spot(s, ms, 1) = s[1]
                                     /\ Spot(t, ms, 1) = Spot(s, ms, 2)
    OBVIOUS
  <2>2. 1 \in (n + 1)..Len(s) /\ 1 \in 1..Len(s) /\ 1 <= Len(s) /\ 1 + 1 = 2
    BY <2>1
  <2>3. Spot(t, ms, 1) = Spot(s, ms, 2) /\ NextTo(s[1], Spot(s, ms, 2), ms)
    BY <1>2, <1>3, <2>2
  <2>4. Spot(s, ms, 1) = s[1]
    BY <2>2 DEF Spot
  <2> QED
    BY <2>3, <2>4
<1>10. Covers(t, ms, Kept(h, e))
  <2> SUFFICES ASSUME NEW i \in Kept(h, e), Spot(t, ms, 1).of <= i, i <= Len(ms)
               PROVE  \E k \in 1..Len(t) : t[k].of = i
    BY DEF Covers
  <2>1. i \in Nat /\ i < h
    BY DEF Kept
  <2>2. n # 0
    <3> SUFFICES ASSUME n = 0 PROVE FALSE
      OBVIOUS
    <3>1. NextTo(s[1], Spot(t, ms, 1), ms) /\ s[1].of = h
      BY <1>9
    <3>2. Spot(t, ms, 1).of = h \/ Spot(t, ms, 1).of = h + 1
      BY <3>1 DEF NextTo
    <3> QED
      BY <2>1, <3>2
  <2>3. PICK k \in 1..Len(s) : s[k].of = i
    BY <1>1, <1>8, <2>2 DEF Covers
  <2>4. k # n + 1
    BY <2>1, <2>3
  <2>5. CASE k <= n
    <3>1. k \in 1..n /\ k \in 1..Len(t)
      BY <2>5
    <3> QED
      BY <2>3, <3>1
  <2>6. CASE ~(k <= n)
    <3>1. k - 1 \in (n + 1)..(Len(s) - 1) /\ k - 1 \in 1..Len(t) /\ (k - 1) + 1 = k
      BY <2>4, <2>6
    <3>2. t[k - 1] = s[k]
      BY <3>1
    <3> QED
      BY <2>3, <3>1, <3>2
  <2> QED
    BY <2>5, <2>6
<1>11. n \in 0..Len(t)
  OBVIOUS
<1> QED
  BY <1>5, <1>6, <1>7, <1>8, <1>9, <1>10, <1>11 DEF Rough

LEMMA BytesOwn ==
    ASSUME NEW m, NEW i, NEW a \in 1..Len(Encode(m)) PROVE Bytes(m, i)[a].own
  BY DEF Bytes, Byte

(* A message more is said.                                                  *)
LEMMA RoughSay ==
    ASSUME NEW ms \in Seq(Say), NEW m \in Say, NEW s \in Seq(Places),
           NEW ns, NEW t, Saying(ms, m, s, ns, t),
           NEW h \in 0..Len(ms), NEW e \in Nat, NEW x, Rough(s, ms, x, h, e)
    PROVE  /\ Rough(t, ns, x, h, e)
           /\ Spot(t, ns, 1).of = Spot(s, ms, 1).of /\ Spot(t, ns, 1).at = Spot(s, ms, 1).at
<1> DEFINE w == Bytes(m, Len(ms) + 1)
           L == Len(Encode(m))
           n == Len(s)
           z == Len(ms)
<1>1. n \in Nat /\ z \in Nat /\ Sayable(m)
  BY WireAssumption
<1>2. /\ w \in Seq(Places) /\ Len(w) = L /\ L \in Nat \ {0}
      /\ \A a \in 1..L : w[a].c = Encode(m)[a] /\ w[a].of = z + 1 /\ w[a].at = a /\ w[a].own
  BY <1>1, BytesWell, BytesOwn
<1>3. /\ Len(ns) = z + 1 /\ ns[z + 1] = m
      /\ \A i \in 1..z : ns[i] = ms[i]
  BY DEF Saying
<1>4. t = s \o w
  BY DEF Saying
<1>5. n = Len(s) /\ z = Len(ms) /\ L = Len(Encode(m)) /\ h \in 0..z
  OBVIOUS
<1> HIDE DEF w, n, z, L
<1>6. /\ Len(t) = n + L
      /\ \A k \in 1..n : t[k] = s[k]
      /\ \A a \in 1..L : t[n + a] = w[a]
  <2>1. s \in Seq(Places) /\ w \in Seq(Places)
    BY <1>2
  <2>2. /\ Len(s \o w) = Len(s) + Len(w)
        /\ \A k \in 1..Len(s) : (s \o w)[k] = s[k]
        /\ \A a \in 1..Len(w) : (s \o w)[Len(s) + a] = w[a]
    BY <2>1, Joined
  <2>3. Len(s) = n /\ Len(w) = L
    BY <1>2, <1>5
  <2> QED
    BY <1>4, <2>2, <2>3
<1>7. \A i \in 1..z : Length(ns, i) = Length(ms, i)
  BY <1>3 DEF Length
<1>8. Length(ns, z + 1) = L
  BY <1>3, <1>5 DEF Length
<1>9. /\ Pieces(s, ms, h, e) /\ Chain(s, ms, x, h) /\ Early(s, e) /\ x \in 0..n
      /\ Covers(s, ms, Kept(h, e)) /\ (x # 0 => AllOwn(s))
  BY <1>5 DEF Rough
<1>10. \A k \in 1..Len(t) : \/ k \in 1..n /\ t[k] = s[k]
                            \/ /\ k \in (n + 1)..(n + L) /\ k - n \in 1..L /\ t[k].own
                               /\ t[k].c = Encode(m)[k - n] /\ t[k].of = z + 1 /\ t[k].at = k - n
  <2> TAKE k \in 1..Len(t)
  <2>1. CASE k <= n
    <3>1. k \in 1..n
      BY <1>1, <1>2, <1>6, <2>1
    <3> QED
      BY <1>6, <3>1
  <2>2. CASE ~(k <= n)
    <3>1. k \in (n + 1)..(n + L) /\ k - n \in 1..L /\ n + (k - n) = k
      BY <1>1, <1>2, <1>6, <2>2
    <3>2. t[k] = w[k - n]
      BY <1>6, <3>1
    <3> QED
      BY <1>2, <3>1, <3>2
  <2> QED
    BY <2>1, <2>2
<1>11. ASSUME NEW k \in 1..(n + 1)
       PROVE  /\ Spot(t, ns, k).of = Spot(s, ms, k).of /\ Spot(t, ns, k).at = Spot(s, ms, k).at
              /\ k \in 1..Len(t)
  <2>1. CASE k <= n
    <3>1. k \in 1..n /\ k <= Len(t) /\ k \in 1..Len(t)
      BY <1>1, <1>2, <1>6, <2>1
    <3> QED
      BY <1>5, <1>6, <2>1, <3>1 DEF Spot
  <2>2. CASE ~(k <= n)
    <3>1. k = n + 1 /\ k <= Len(t) /\ 1 \in 1..L /\ k \in 1..Len(t)
      BY <1>1, <1>2, <1>6, <2>2
    <3>2. Spot(s, ms, k) = Byte("cr", z + 1, 1)
      BY <1>5, <2>2 DEF Spot
    <3>3. Spot(t, ns, k) = w[1]
      BY <1>6, <3>1 DEF Spot
    <3> QED
      BY <1>2, <3>1, <3>2, <3>3 DEF Byte
  <2> QED
    BY <2>1, <2>2
<1>12. 1 \in 1..(n + 1)
  BY <1>1
<1>13. ASSUME NEW b, Somewhere(b, ms) PROVE Somewhere(b, ns)
  <2>1. CASE b.of \in 1..z /\ b.at \in 1..Length(ms, b.of)
    <3>1. b.of \in 1..(z + 1)
      BY <1>1, <2>1
    <3> QED
      BY <1>3, <1>7, <2>1, <3>1 DEF Somewhere
  <2>2. CASE b.of = z + 1 /\ b.at = 1
    <3>1. z + 1 \in 1..(z + 1) /\ 1 \in 1..L
      BY <1>1, <1>2
    <3> QED
      BY <1>3, <1>8, <2>2, <3>1 DEF Somewhere
  <2> QED
    BY <1>5, <1>13, <2>1, <2>2 DEF Somewhere
<1>14. ASSUME NEW b, Placed(b, ms) PROVE Placed(b, ns)
  <2>1. b.of \in 1..z /\ b.of \in 1..(z + 1)
    BY <1>1, <1>5, <1>14 DEF Placed
  <2> QED
    BY <1>3, <1>7, <1>14, <2>1 DEF Placed
<1>15. Pieces(t, ns, h, e)
  <2> SUFFICES ASSUME NEW k \in 1..Len(t)
               PROVE  /\ Somewhere(t[k], ns)
                      /\ t[k].own => Placed(t[k], ns)
                      /\ ~t[k].own => t[k].c \in Harmless /\ t[k].of >= h /\ Before(t[k], e)
    BY DEF Pieces
  <2>1. CASE k \in 1..n /\ t[k] = s[k]
    BY <1>5, <1>9, <1>13, <1>14, <2>1 DEF Pieces
  <2>2. CASE /\ k \in (n + 1)..(n + L) /\ k - n \in 1..L /\ t[k].own
             /\ t[k].c = Encode(m)[k - n] /\ t[k].of = z + 1 /\ t[k].at = k - n
    <3>1. z + 1 \in 1..(z + 1)
      BY <1>1
    <3>2. Placed(t[k], ns)
      BY <1>3, <1>8, <2>2, <3>1 DEF Placed
    <3> QED
      BY <2>2, <3>2 DEF Placed, Somewhere
  <2> QED
    BY <1>10, <2>1, <2>2
<1>16. ASSUME NEW b, NEW c, NEW d, d.of = c.of, d.at = c.at, b.of \in 1..z, NextTo(b, c, ms)
       PROVE  NextTo(b, d, ns)
  <2>1. Length(ns, b.of) = Length(ms, b.of)
    BY <1>7, <1>16
  <2> QED
    BY <1>16, <2>1 DEF NextTo
<1>17. Chain(t, ns, x, h)
  <2> SUFFICES ASSUME NEW k \in 1..Len(t)
               PROVE  /\ k = x => Past(t[k], Spot(t, ns, k + 1), ns, h)
                      /\ k # x => After(t[k], Spot(t, ns, k + 1), ns)
    BY DEF Chain
  <2>1. CASE k \in 1..n /\ t[k] = s[k]
    <3>1. k + 1 \in 1..(n + 1)
      BY <1>1, <2>1
    <3>2. PICK c : c = Spot(s, ms, k + 1)
      OBVIOUS
    <3>3. PICK d : d = Spot(t, ns, k + 1)
      OBVIOUS
    <3>4. d.of = c.of /\ d.at = c.at
      BY <1>11, <3>1, <3>2, <3>3
    <3>5. s[k].own => s[k].of \in 1..z
      BY <1>5, <1>9, <2>1 DEF Pieces, Placed
    <3>6. CASE k = x
      <4>1. s[k].own
        BY <1>1, <1>5, <1>9, <2>1, <3>6 DEF AllOwn
      <4>2. PICK y \in [of : {h}, at : Nat] : NextTo(s[k], y, ms) /\ NextTo(y, c, ms)
        <5>1. Past(s[k], c, ms, h)
          BY <1>5, <1>9, <2>1, <3>2, <3>6 DEF Chain
        <5> QED
          BY <5>1 DEF Past
      <4>3. y.of \in 1..z
        <5>1. y.of = h /\ (y.of = s[k].of \/ y.of = s[k].of + 1)
          BY <4>2 DEF NextTo
        <5> QED
          BY <1>1, <1>5, <3>5, <4>1, <5>1
      <4>4. NextTo(s[k], y, ns) /\ NextTo(y, d, ns)
        BY <1>16, <3>4, <3>5, <4>1, <4>2, <4>3
      <4> QED
        BY <2>1, <3>3, <3>6, <4>2, <4>4 DEF Past
    <3>7. CASE k # x
      <4>1. After(s[k], c, ms)
        BY <1>5, <1>9, <2>1, <3>2, <3>7 DEF Chain
      <4>2. After(s[k], d, ns)
        BY <1>16, <3>4, <3>5, <4>1 DEF After
      <4> QED
        BY <2>1, <3>3, <3>7, <4>2
    <3> QED
      BY <3>6, <3>7
  <2>2. CASE /\ k \in (n + 1)..(n + L) /\ k - n \in 1..L /\ t[k].own
             /\ t[k].c = Encode(m)[k - n] /\ t[k].of = z + 1 /\ t[k].at = k - n
    <3>1. k # x
      BY <1>1, <1>9, <2>2
    <3>2. NextTo(t[k], Spot(t, ns, k + 1), ns)
      <4>1. CASE k < n + L
        <5>1. k + 1 \in 1..Len(t) /\ k + 1 \notin 1..n /\ k + 1 <= Len(t) /\ (k + 1) - n = (k - n) + 1
              /\ k - n < L
          BY <1>1, <1>2, <1>6, <2>2, <4>1
        <5>2. t[k + 1].of = z + 1 /\ t[k + 1].at = (k + 1) - n
          BY <1>10, <5>1
        <5>3. Spot(t, ns, k + 1) = t[k + 1]
          BY <5>1 DEF Spot
        <5> QED
          BY <1>8, <2>2, <5>1, <5>2, <5>3 DEF NextTo
      <4>2. CASE ~(k < n + L)
        <5>1. k - n = L /\ ~(k + 1 <= Len(t))
          BY <1>1, <1>2, <1>6, <2>2, <4>2
        <5>2. Spot(t, ns, k + 1) = Byte("cr", (z + 1) + 1, 1)
          BY <1>3, <5>1 DEF Spot
        <5> QED
          BY <1>8, <2>2, <5>1, <5>2 DEF NextTo, Byte
      <4> QED
        BY <4>1, <4>2
    <3> QED
      BY <2>2, <3>1, <3>2 DEF After
  <2> QED
    BY <1>10, <2>1, <2>2
<1>18. Early(t, e)
  <2> SUFFICES ASSUME NEW j \in 1..Len(t), NEW k \in 1..Len(t), j < k, t[j].own, ~t[k].own
               PROVE  t[j].of < e
    BY DEF Early
  <2>1. k \in 1..n /\ t[k] = s[k]
    BY <1>10
  <2>2. j \in 1..n /\ t[j] = s[j]
    <3>1. j \in 1..n
      BY <1>1, <1>2, <1>6, <2>1
    <3> QED
      BY <1>6, <3>1
  <2> QED
    BY <1>5, <1>9, <2>1, <2>2 DEF Early
<1>19. Covers(t, ns, Kept(h, e))
  <2> SUFFICES ASSUME NEW i \in Kept(h, e), Spot(t, ns, 1).of <= i, i <= Len(ns)
               PROVE  \E k \in 1..Len(t) : t[k].of = i
    BY DEF Covers
  <2>1. i \in Nat
    BY DEF Kept
  <2>2. CASE i <= z
    <3>1. Spot(s, ms, 1).of <= i
      BY <1>11, <1>12
    <3>2. PICK k \in 1..n : s[k].of = i
      BY <1>5, <1>9, <2>2, <3>1 DEF Covers
    <3>3. k \in 1..Len(t) /\ t[k] = s[k]
      BY <1>1, <1>2, <1>6
    <3> QED
      BY <3>2, <3>3
  <2>3. CASE ~(i <= z)
    <3>1. i = z + 1 /\ n + 1 \in 1..Len(t) /\ 1 \in 1..L
      BY <1>1, <1>2, <1>3, <1>6, <2>1, <2>3
    <3>2. t[n + 1].of = z + 1
      BY <1>2, <1>6, <3>1
    <3> QED
      BY <3>1, <3>2
  <2> QED
    BY <2>2, <2>3
<1>20. x \in 0..Len(t) /\ (x # 0 => AllOwn(t))
  <2>1. x \in 0..Len(t)
    BY <1>1, <1>2, <1>6, <1>9
  <2>2. x # 0 => AllOwn(t)
    BY <1>5, <1>9, <1>10 DEF AllOwn
  <2> QED
    BY <2>1, <2>2
<1> QED
  BY <1>11, <1>12, <1>15, <1>17, <1>18, <1>19, <1>20 DEF Rough

-----------------------------------------------------------------------------
(* The reports g of the messages I are the ones due when byte b is next,    *)
(* and no other report is out of its turn.                                  *)
RelayOn(g, ms, b, I) ==
    /\ \A k \in 1..Len(g) : /\ g[k].of <= b.of
                            /\ g[k].of \in I => /\ g[k].of \in 1..Len(ms)
                                                /\ g[k].msg = Meaning(ms[g[k].of])
    /\ \A j, k \in 1..Len(g) : j < k => /\ g[j].of <= g[k].of
                                        /\ g[k].of \in I => g[j].of < g[k].of
    /\ \A i \in I : i \in 1..Len(ms) /\ Matters(Meaning(ms[i])) =>
          (DeliveredIn(g, i) <=> i < b.of \/ (i = b.of /\ b.at > EmitAt(ms[i])))

LEMMA RelayAny ==
    ASSUME NEW ms, Len(ms) \in Nat, NEW g, NEW b, b.of \in Nat, Relay(g, ms, b), NEW I
    PROVE  RelayOn(g, ms, b, I)
<1>1. ASSUME NEW k \in 1..Len(g) PROVE g[k].of <= b.of
  <2>1. g[k].of \in 1..Len(ms) /\ Matters(Meaning(ms[g[k].of])) /\ DeliveredIn(g, g[k].of)
    BY DEF Relay, DeliveredIn
  <2>2. g[k].of < b.of \/ g[k].of = b.of
    BY <2>1 DEF Relay
  <2> QED
    BY <2>1, <2>2
<1>2. \A j, k \in 1..Len(g) : j < k => g[j].of <= g[k].of
  <2>1. \A k \in 1..Len(g) : g[k].of \in Nat
    BY DEF Relay
  <2>2. \A j, k \in 1..Len(g) : j < k => g[j].of < g[k].of
    BY DEF Relay
  <2> QED
    BY <2>1, <2>2
<1> QED
  BY <1>1, <1>2 DEF Relay, RelayOn

LEMMA RelayFewer ==
    ASSUME NEW ms, NEW g, NEW b, NEW I, NEW J, J \subseteq I, RelayOn(g, ms, b, I),
           NEW d, d.of = b.of, d.at = b.at
    PROVE  RelayOn(g, ms, d, J)
BY DEF RelayOn

LEMMA RelayOnSay ==
    ASSUME NEW ms \in Seq(Say), NEW m \in Say, NEW ns, ns = Append(ms, m), NEW g, NEW b, NEW I,
           I \subseteq Nat, RelayOn(g, ms, b, I), Somewhere(b, ms),
           NEW d, d.of = b.of, d.at = b.at
    PROVE  RelayOn(g, ns, d, I)
<1> DEFINE z == Len(ms)
<1>1. /\ z \in Nat /\ Len(ns) = z + 1 /\ ns[z + 1] = m
      /\ \A i \in 1..z : ns[i] = ms[i] /\ i \in 1..(z + 1)
  OBVIOUS
<1>2. z = Len(ms)
  OBVIOUS
<1> HIDE DEF z
<1>3. ASSUME NEW k \in 1..Len(g)
      PROVE  /\ g[k].of <= d.of
             /\ g[k].of \in I => /\ g[k].of \in 1..z /\ g[k].of \in 1..Len(ns)
                                 /\ g[k].msg = Meaning(ns[g[k].of])
  BY <1>1, <1>2 DEF RelayOn
<1>4. ASSUME NEW i \in I, i \in 1..Len(ns), Matters(Meaning(ns[i]))
      PROVE  DeliveredIn(g, i) <=> i < d.of \/ (i = d.of /\ d.at > EmitAt(ns[i]))
  <2>1. CASE i \in 1..z
    <3>1. ns[i] = ms[i]
      BY <1>1, <2>1
    <3>2. DeliveredIn(g, i) <=> i < b.of \/ (i = b.of /\ b.at > EmitAt(ms[i]))
      BY <1>2, <1>4, <2>1, <3>1 DEF RelayOn
    <3> QED
      BY <3>1, <3>2
  <2>2. CASE i \notin 1..z
    <3>1. i = z + 1 /\ ~(i < d.of) /\ (i = d.of => d.at = 1)
      BY <1>1, <1>2, <1>4, <2>2 DEF Somewhere
    <3>2. ~DeliveredIn(g, i)
      BY <1>3, <2>2, <1>4 DEF DeliveredIn
    <3>3. EmitAt(ns[i]) \in Nat /\ EmitAt(ns[i]) >= 1
      <4>1. ns[i] = m /\ Sayable(m)
        BY <1>1, <3>1, WireAssumption
      <4>2. EmitAt(m) \in 1..Len(Encode(m)) /\ Len(Encode(m)) \in Nat
        BY <4>1, EncodeWell
      <4> QED
        BY <4>1, <4>2
    <3>4. ~(i = d.of /\ d.at > EmitAt(ns[i]))
      <4>1. PICK E : E = EmitAt(ns[i])
        OBVIOUS
      <4>2. E \in Nat /\ E >= 1
        BY <3>3, <4>1
      <4>3. ~(1 > E)
        BY <4>2
      <4> QED
        BY <3>1, <4>1, <4>3
    <3>5. ~(i < d.of)
      BY <3>1
    <3> QED
      BY <3>2, <3>4, <3>5, Zenon
  <2> QED
    BY <2>1, <2>2
<1>5. \A j, k \in 1..Len(g) : j < k => g[j].of <= g[k].of /\ (g[k].of \in I => g[j].of < g[k].of)
  BY DEF RelayOn
<1> QED
  BY <1>3, <1>4, <1>5 DEF RelayOn

LEMMA RelayOnRead ==
    ASSUME NEW ms \in Seq(Say), NEW g \in Seq([of : Nat, msg : Msg]), NEW b, NEW d, NEW o \in Msg,
           NEW I, I \subseteq Nat, RelayOn(g, ms, b, I), b.of \in Nat, b.at \in Nat,
           d.of = b.of \/ d.of = b.of + 1,
           b.of \in I =>
              /\ Placed(b, ms)
              /\ Matters(o) <=> (b.at = EmitAt(ms[b.of]) /\ Matters(Meaning(ms[b.of])))
              /\ Matters(o) => o = Meaning(ms[b.of])
              /\ \/ b.at < Length(ms, b.of) /\ d.of = b.of /\ d.at = b.at + 1
                 \/ b.at = Length(ms, b.of) /\ d.of = b.of + 1,
           d.of = b.of + 1 /\ d.of \in I => d.at = 1,
           NEW ng, ng = Reported(g, b, o)
    PROVE  RelayOn(ng, ms, d, I)
<1> DEFINE z == Len(ms)
           x == [of |-> b.of, msg |-> o]
           n == Len(g)
<1>1. z \in Nat /\ n \in Nat /\ \A k \in 1..n : g[k].of \in Nat
  <2>1. \A k \in 1..n : g[k] \in [of : Nat, msg : Msg]
    BY ElementOfSeq
  <2>2. z \in Nat /\ n \in Nat
    OBVIOUS
  <2> QED
    BY <2>1, <2>2
<1>2. \A i \in 1..z : /\ Length(ms, i) \in Nat /\ EmitAt(ms[i]) \in 1..Length(ms, i)
  <2>1. ASSUME NEW i \in 1..z PROVE Sayable(ms[i])
    BY <2>1, WireAssumption
  <2> QED
    BY <2>1, EncodeWell DEF Length
<1>3. \A k \in 1..n : /\ g[k].of <= b.of
                      /\ g[k].of \in I => g[k].of \in 1..z /\ g[k].msg = Meaning(ms[g[k].of])
  BY DEF RelayOn
<1>4. \A j, k \in 1..n : j < k => g[j].of <= g[k].of /\ (g[k].of \in I => g[j].of < g[k].of)
  BY DEF RelayOn
<1>5. \A i \in I : i \in 1..z /\ Matters(Meaning(ms[i])) =>
          (DeliveredIn(g, i) <=> i < b.of \/ (i = b.of /\ b.at > EmitAt(ms[i])))
  BY DEF RelayOn
<1>6. x.of = b.of /\ x.msg = o
  OBVIOUS
<1>7. /\ Matters(o) => /\ Len(ng) = n + 1 /\ ng[n + 1] = x
                       /\ \A k \in 1..n : ng[k] = g[k]
      /\ ~Matters(o) => ng = g
  <2>1. x \in [of : Nat, msg : Msg]
    OBVIOUS
  <2> HIDE DEF x
  <2>2. ng = IF Matters(o) THEN Append(g, x) ELSE g
    BY DEF x, Reported
  <2>3. CASE Matters(o)
    BY <2>1, <2>2, <2>3
  <2>4. CASE ~Matters(o)
    BY <2>2, <2>4
  <2> QED
    BY <2>3, <2>4
<1>8. n = Len(g) /\ z = Len(ms)
  OBVIOUS
<1> HIDE DEF z, x, n
<1>9. \A k \in 1..Len(ng) : \/ k \in 1..n /\ ng[k] = g[k]
                            \/ Matters(o) /\ k = n + 1 /\ ng[k].of = b.of /\ ng[k].msg = o
  BY <1>1, <1>6, <1>7, <1>8
<1>10. \A k \in 1..n : k \in 1..Len(ng) /\ ng[k] = g[k]
  BY <1>1, <1>7, <1>8
<1>11. ASSUME NEW i
       PROVE  DeliveredIn(ng, i) <=> DeliveredIn(g, i) \/ (Matters(o) /\ i = b.of)
  <2>1. ASSUME DeliveredIn(g, i) PROVE DeliveredIn(ng, i)
    BY <1>8, <1>10, <2>1 DEF DeliveredIn
  <2>2. ASSUME Matters(o), i = b.of PROVE DeliveredIn(ng, i)
    <3>1. n + 1 \in 1..Len(ng) /\ ng[n + 1].of = i
      BY <1>1, <1>6, <1>7, <2>2
    <3> QED
      BY <3>1 DEF DeliveredIn
  <2>3. ASSUME DeliveredIn(ng, i) PROVE DeliveredIn(g, i) \/ (Matters(o) /\ i = b.of)
    BY <1>8, <1>9, <2>3 DEF DeliveredIn
  <2> QED
    BY <2>1, <2>2, <2>3
<1>12. b.of \in I => b.of \in 1..z
  BY <1>8 DEF Placed
<1>13. ASSUME NEW k \in 1..Len(ng)
       PROVE  /\ ng[k].of <= d.of
              /\ ng[k].of \in I => ng[k].of \in 1..z /\ ng[k].msg = Meaning(ms[ng[k].of])
  <2>1. CASE k \in 1..n /\ ng[k] = g[k]
    <3>1. /\ g[k].of <= b.of /\ g[k].of \in Nat
          /\ g[k].of \in I => g[k].of \in 1..z /\ g[k].msg = Meaning(ms[g[k].of])
      BY <1>1, <1>3, <2>1
    <3>2. g[k].of <= d.of
      BY <3>1
    <3> QED
      BY <2>1, <3>1, <3>2
  <2>2. CASE Matters(o) /\ k = n + 1 /\ ng[k].of = b.of /\ ng[k].msg = o
    BY <1>12, <2>2
  <2> QED
    BY <1>9, <2>1, <2>2
<1>14. ASSUME NEW j \in 1..Len(ng), NEW k \in 1..Len(ng), j < k
       PROVE  ng[j].of <= ng[k].of /\ (ng[k].of \in I => ng[j].of < ng[k].of)
  <2>1. CASE k \in 1..n /\ ng[k] = g[k]
    <3>1. j \in 1..n /\ ng[j] = g[j]
      <4>1. j \in 1..n
        BY <1>1, <1>14, <2>1
      <4> QED
        BY <1>10, <4>1
    <3> QED
      BY <1>4, <1>14, <2>1, <3>1
  <2>2. CASE Matters(o) /\ k = n + 1 /\ ng[k].of = b.of /\ ng[k].msg = o
    <3>1. j \in 1..n /\ ng[j] = g[j]
      <4>1. j \in 1..n
        BY <1>1, <1>14, <2>2
      <4> QED
        BY <1>10, <4>1
    <3>2. g[j].of <= b.of /\ g[j].of \in Nat
      BY <1>1, <1>3, <3>1
    <3>3. ASSUME b.of \in I PROVE g[j].of # b.of
      <4> SUFFICES ASSUME g[j].of = b.of PROVE FALSE
        OBVIOUS
      <4>1. DeliveredIn(g, b.of)
        BY <1>8, <3>1 DEF DeliveredIn
      <4>2. b.at > EmitAt(ms[b.of])
        <5>1. b.of \in 1..z /\ Matters(Meaning(ms[b.of]))
          BY <1>12, <2>2, <3>3
        <5>2. b.of < b.of \/ (b.of = b.of /\ b.at > EmitAt(ms[b.of]))
          BY <1>5, <3>3, <4>1, <5>1
        <5>3. ~(b.of < b.of)
          OBVIOUS
        <5> QED
          BY <5>2, <5>3
      <4>3. b.at = EmitAt(ms[b.of])
        BY <2>2, <3>3
      <4> QED
        BY <4>2, <4>3
    <3> QED
      BY <2>2, <3>1, <3>2, <3>3
  <2> QED
    BY <1>9, <2>1, <2>2
<1>15. ASSUME NEW i \in I, i \in 1..z, Matters(Meaning(ms[i]))
       PROVE  DeliveredIn(ng, i) <=> i < d.of \/ (i = d.of /\ d.at > EmitAt(ms[i]))
  <2> DEFINE E == EmitAt(ms[i])
             S == Length(ms, i)
  <2>1. /\ DeliveredIn(ng, i) <=> DeliveredIn(g, i) \/ (Matters(o) /\ i = b.of)
        /\ DeliveredIn(g, i) <=> i < b.of \/ (i = b.of /\ b.at > E)
    BY <1>5, <1>11, <1>15
  <2>2. E \in Nat /\ E >= 1 /\ S \in Nat /\ E <= S
    BY <1>2, <1>15
  <2>3. CASE i = b.of
    <3>1. /\ Matters(o) <=> b.at = E
          /\ \/ b.at < S /\ d.of = b.of /\ d.at = b.at + 1
             \/ b.at = S /\ d.of = b.of + 1
      BY <1>15, <2>3
    <3> HIDE DEF E, S
    <3>2. DeliveredIn(ng, i) <=> b.at >= E
      BY <2>1, <2>2, <2>3, <3>1
    <3>3. (i < d.of \/ (i = d.of /\ d.at > E)) <=> b.at >= E
      BY <2>2, <2>3, <3>1
    <3> QED
      BY <3>2, <3>3 DEF E
  <2>4. CASE i # b.of
    <3>1. i = d.of => d.at = 1
      BY <1>15, <2>4
    <3> HIDE DEF E, S
    <3>2. DeliveredIn(ng, i) <=> i < b.of
      BY <2>1, <2>4
    <3>3. i \in Nat
      OBVIOUS
    <3>4. (i < d.of \/ (i = d.of /\ d.at > E)) <=> i < b.of
      BY <2>2, <2>4, <3>1, <3>3
    <3> QED
      BY <3>2, <3>4 DEF E
  <2> QED
    BY <2>3, <2>4
<1> QED
  BY <1>8, <1>13, <1>14, <1>15 DEF RelayOn

-----------------------------------------------------------------------------
(* InsideAstray holds of the next state as well.                            *)
Strays ==
    IInv => \A m, a, x, y :
       /\ Sayable(m) /\ PlainMsg(m) /\ a \in 1..Len(Encode(m)) /\ Inside(m, a)
       /\ (x = m /\ y = a) \/ Next1(m, a, x, y)
       => Astray(x, y)

LEMMA AllStray == Strays
<1> SUFFICES ASSUME IInv, NEW m, NEW a, NEW x, NEW y, Sayable(m), PlainMsg(m),
                    a \in 1..Len(Encode(m)), Inside(m, a),
                    (x = m /\ y = a) \/ Next1(m, a, x, y)
             PROVE  Astray(x, y)
  BY DEF Strays
<1> QED
  BY InsideAstray

LEMMA StrayNext == Strays'
<1> QED
  BY AllStray, PTL

LEMMA TwoBytes ==
    ASSUME NEW m, Sayable(m)
    PROVE  /\ Len(Encode(m)) \in Nat /\ Len(Encode(m)) >= 2
           /\ m.kind # "prompt" => LongAs(m) \in 1..(Len(Encode(m)) - 1)
<1>1. CASE m.kind = "line"
  <2>1. m.text \in Seq(Char) /\ Len(m.text) \in Nat
    BY <1>1 DEF Sayable
  <2>2. Len(Encode(m)) = Len(m.text) + 4
    BY <1>1, <2>1, LineBytes
  <2> QED
    BY <1>1, <2>1, <2>2 DEF LongAs
<1>2. CASE m.kind = "prompt"
  <2>1. Encode(m) = <<">", "blank">>
    BY <1>2 DEF Encode
  <2>2. Len(Encode(m)) = 2
    BY <2>1
  <2> QED
    BY <1>2, <2>2
<1>3. ASSUME NEW op, \/ m.kind = "connect" /\ op = ConnectOp
                     \/ m.kind = "closed" /\ op = ClosedOp
      PROVE  /\ Len(Encode(m)) \in Nat /\ Len(Encode(m)) >= 2
             /\ m.kind # "prompt" => LongAs(m) \in 1..(Len(Encode(m)) - 1)
  <2>1. m.id \in 0..9
    <3>1. m \in [kind : {"connect", "closed"}, id : 0..(ID_MAX - 1)]
      BY <1>3 DEF Sayable
    <3> QED
      BY <3>1, ParserAssumption
  <2>2. op \in Seq(Letter) /\ Len(op) \in {6, 7}
    BY <1>3, Words
  <2>3. Len(Encode(m)) = Len(op) + 4
    BY <1>3, <2>1, <2>2, NoticeBytes
  <2>4. LongAs(m) = Len(Encode(m)) - 1
    BY <1>3 DEF LongAs
  <2> QED
    BY <2>2, <2>3, <2>4
<1>4. CASE m.kind = "ipd"
  <2>1. /\ DataShape(Encode(m), m.id, m.data, Width(Len(m.data)))
        /\ Len(m.data) \in Nat \ {0} /\ Width(Len(m.data)) \in 1..4
    BY <1>4, DataSays
  <2>2. Len(Encode(m)) = 10 + Width(Len(m.data)) + Len(m.data)
    BY <2>1 DEF DataShape
  <2>3. LongAs(m) = 1
    BY <1>4 DEF LongAs
  <2> QED
    BY <2>1, <2>2, <2>3
<1> QED
  BY <1>1, <1>2, <1>3, <1>4 DEF Sayable

-----------------------------------------------------------------------------
(* The parser is where byte b calls for.                                    *)
OnTrack(b, ms) == IF b.of <= Len(ms) THEN Inside(ms[b.of], b.at) ELSE state = "CLEAR"

(* It has lost its place, and byte b comes no later than the one that sets  *)
(* it right.                                                                *)
Until(b, ms, e)       == \/ b.of < e
                         \/ b.of = e /\ (e <= Len(ms) => b.at <= LongAs(ms[e]))
OffTrack(b, ms, h, e) == b.of >= h /\ Until(b, ms, e) /\ Astray(ms[b.of], b.at)

AllPlain == \A m \in Say : PlainMsg(m)

LEMMA SaidWell ==
    ASSUME NEW ms \in Seq(Say), NEW b, Placed(b, ms)
    PROVE  /\ Sayable(ms[b.of]) /\ ms[b.of] \in Say /\ Length(ms, b.of) = Len(Encode(ms[b.of]))
           /\ b.at \in 1..Len(Encode(ms[b.of])) /\ b.c = Encode(ms[b.of])[b.at]
           /\ b.of \in 1..Len(ms)
<1>1. b.of \in 1..Len(ms)
  BY DEF Placed
<1>2. ms[b.of] \in Say
  BY <1>1
<1> QED
  BY <1>1, <1>2, WireAssumption DEF Placed, Length

LEMMA ReadOn ==
    ASSUME IInv, NEW ms \in Seq(Say), NEW b, Placed(b, ms), OnTrack(b, ms), ParseChar(b.c)
    PROVE  /\ Reads(ms[b.of], b.at)
           /\ \A d : NextTo(b, d, ms) => OnTrack(d, ms)'
<1>1. PICK m : m = ms[b.of]
  OBVIOUS
<1>2. PICK a : a = b.at
  OBVIOUS
<1>3. /\ Sayable(m) /\ a \in 1..Len(Encode(m)) /\ b.c = Encode(m)[a]
      /\ Length(ms, b.of) = Len(Encode(m)) /\ b.of \in 1..Len(ms)
  BY <1>1, <1>2, SaidWell
<1>4. Inside(m, a)
  <2>1. b.of <= Len(ms)
    BY <1>3
  <2> QED
    BY <1>1, <1>2, <2>1 DEF OnTrack
<1>5. Reads(m, a)
  <2>1. ParseChar(Encode(m)[a])
    BY <1>3
  <2> QED
    BY <1>3, <1>4, <2>1, MessageReads
<1>6. ASSUME NEW d, NextTo(b, d, ms) PROVE OnTrack(d, ms)'
  <2>1. CASE b.at < Length(ms, b.of) /\ d.of = b.of /\ d.at = b.at + 1
    <3>1. a < Len(Encode(m)) /\ d.of <= Len(ms) /\ ms[d.of] = m /\ d.at = a + 1
      BY <1>1, <1>2, <1>3, <2>1
    <3>2. Inside(m, a + 1)'
      BY <1>5, <3>1 DEF Reads
    <3> QED
      BY <3>1, <3>2 DEF OnTrack
  <2>2. CASE b.at = Length(ms, b.of) /\ d.of = b.of + 1 /\ d.at = 1
    <3>1. state' = "CLEAR"
      BY <1>2, <1>3, <1>5, <2>2 DEF Reads
    <3>2. CASE d.of <= Len(ms)
      <4>1. d.of \in 1..Len(ms)
        BY <1>3, <2>2, <3>2
      <4>2. Sayable(ms[d.of])
        BY <4>1, WireAssumption
      <4>3. Inside(ms[d.of], 1)'
        BY <3>1, <4>2, StartInside
      <4> QED
        BY <2>2, <3>2, <4>3 DEF OnTrack
    <3>3. CASE ~(d.of <= Len(ms))
      BY <3>1, <3>3 DEF OnTrack
    <3> QED
      BY <3>2, <3>3
  <2> QED
    BY <1>6, <2>1, <2>2 DEF NextTo
<1> QED
  BY <1>1, <1>2, <1>5, <1>6

(* Where it is, and where it does not belong when a byte is lost, it can    *)
(* have lost its place.                                                     *)
LEMMA TrackOff ==
    ASSUME IInv, AllPlain, NEW ms \in Seq(Say), NEW b, Somewhere(b, ms), OnTrack(b, ms)
    PROVE  Astray(ms[b.of], b.at)
<1>1. CASE b.of \in 1..Len(ms) /\ b.at \in 1..Length(ms, b.of)
  <2>1. b.of <= Len(ms) /\ ms[b.of] \in Say
    BY <1>1
  <2>2. Sayable(ms[b.of]) /\ PlainMsg(ms[b.of])
    BY <2>1, WireAssumption DEF AllPlain
  <2>3. Inside(ms[b.of], b.at)
    BY <2>1 DEF OnTrack
  <2>4. b.at \in 1..Len(Encode(ms[b.of]))
    BY <1>1 DEF Length
  <2> QED
    BY <2>2, <2>3, <2>4, InsideAstray
<1>2. CASE b.of = Len(ms) + 1
  <2>1. ~(b.of <= Len(ms))
    BY <1>2
  <2> QED
    BY <2>1, ClearAstray DEF OnTrack
<1> QED
  BY <1>1, <1>2 DEF Somewhere

LEMMA NextOne ==
    ASSUME NEW ms, NEW b, NEW d, NextTo(b, d, ms)
    PROVE  Next1(ms[b.of], b.at, ms[d.of], d.at)
BY DEF NextTo, Next1, Length

LEMMA PastOff ==
    ASSUME IInv, IInv', AllPlain, NEW ms \in Seq(Say), NEW b, Placed(b, ms), OnTrack(b, ms),
           b.of \in Nat, b.at \in Nat, ParseChar(b.c), NEW h \in 0..Len(ms), NEW d, Past(b, d, ms, h)
    PROVE  Astray(ms[d.of], d.at)'
<1>1. PICK y \in [of : {h}, at : Nat] : NextTo(b, y, ms) /\ NextTo(y, d, ms)
  BY DEF Past
<1>2. b.of \in 1..Len(ms)
  BY DEF Placed
<1>3. y.of \in 1..Len(ms) /\ y.at >= 1 /\ y.at \in Nat
  <2>1. y.of = h /\ (y.of = b.of \/ y.of = b.of + 1) /\ (y.at = b.at + 1 \/ y.at = 1)
    BY <1>1 DEF NextTo
  <2> QED
    BY <1>2, <2>1
<1>4. Sayable(ms[y.of]) /\ PlainMsg(ms[y.of])
  <2>1. ms[y.of] \in Say
    BY <1>3
  <2> QED
    BY <2>1, WireAssumption DEF AllPlain
<1>5. y.at \in 1..Len(Encode(ms[y.of]))
  <2>1. Len(Encode(ms[y.of])) \in Nat
    BY <1>4, EncodeWell
  <2>2. y.at < Len(Encode(ms[y.of])) \/ y.at = Len(Encode(ms[y.of]))
    BY <1>1 DEF NextTo, Length
  <2> QED
    BY <1>3, <2>1, <2>2
<1>6. Inside(ms[y.of], y.at)'
  <2>1. OnTrack(y, ms)'
    BY <1>1, ReadOn
  <2>2. y.of <= Len(ms)
    BY <1>3
  <2> QED
    BY <2>1, <2>2 DEF OnTrack
<1>7. Next1(ms[y.of], y.at, ms[d.of], d.at)
  BY <1>1, NextOne
<1> QED
  BY <1>4, <1>5, <1>6, <1>7, StrayNext DEF Strays

LEMMA OffOwn ==
    ASSUME IInv, AllPlain, NEW ms \in Seq(Say), NEW b, Placed(b, ms),
           Astray(ms[b.of], b.at), ParseChar(b.c), NEW d, NextTo(b, d, ms)
    PROVE  Astray(ms[d.of], d.at)'
<1>1. /\ Sayable(ms[b.of]) /\ ms[b.of] \in Say
      /\ b.at \in 1..Len(Encode(ms[b.of])) /\ b.c = Encode(ms[b.of])[b.at]
  BY SaidWell
<1>2. PlainMsg(ms[b.of])
  BY <1>1 DEF AllPlain
<1>3. Next1(ms[b.of], b.at, ms[d.of], d.at)
  BY NextOne
<1>4. ParseChar(Encode(ms[b.of])[b.at])
  BY <1>1
<1> QED
  BY <1>1, <1>2, <1>3, <1>4, AstrayOwn

LEMMA OffTyped ==
    ASSUME IInv, NEW ms \in Seq(Say), NEW b, Somewhere(b, ms), b.at \in Nat, b.c \in Harmless,
           Astray(ms[b.of], b.at), ParseChar(b.c), NEW d, d.of = b.of, d.at = b.at
    PROVE  Astray(ms[d.of], d.at)'
<1>1. Sayable(ms[b.of]) \/ b.at = 1
  <2>1. b.of \in 1..Len(ms) => ms[b.of] \in Say
    OBVIOUS
  <2> QED
    BY <2>1, WireAssumption DEF Somewhere
<1> QED
  BY <1>1, AstrayTyped

LEMMA OffEnds ==
    ASSUME IInv, NEW ms \in Seq(Say), NEW b, Placed(b, ms), ms[b.of].kind # "prompt",
           b.at = LongAs(ms[b.of]), Astray(ms[b.of], b.at), ParseChar(b.c),
           NEW d, NextTo(b, d, ms)
    PROVE  OnTrack(d, ms)' /\ d.of = b.of
<1>1. PICK m : m = ms[b.of]
  OBVIOUS
<1>2. /\ Sayable(m) /\ b.c = Encode(m)[b.at] /\ Length(ms, b.of) = Len(Encode(m))
      /\ b.of \in 1..Len(ms)
  BY <1>1, SaidWell
<1>3. LongAs(m) \in 1..(Len(Encode(m)) - 1) /\ Len(Encode(m)) \in Nat /\ Inside(m, LongAs(m) + 1)'
  <2>1. ParseChar(Encode(m)[LongAs(m)]) /\ Astray(m, LongAs(m)) /\ m.kind # "prompt"
    BY <1>1, <1>2
  <2> QED
    BY <1>2, <2>1, Resync
<1>4. d.of = b.of /\ d.at = LongAs(m) + 1
  <2>1. b.at # Length(ms, b.of)
    BY <1>1, <1>2, <1>3
  <2> QED
    BY <1>1, <2>1 DEF NextTo
<1>5. d.of <= Len(ms) /\ ms[d.of] = m
  BY <1>1, <1>2, <1>4
<1>6. OnTrack(d, ms)'
  BY <1>3, <1>4, <1>5 DEF OnTrack
<1> QED
  BY <1>4, <1>6

(* The parser reads a byte of a damaged stream.                             *)
LEMMA TurnRead ==
    ASSUME IInv, IInv', AllPlain, NEW ms \in Seq(Say), NEW h \in 0..Len(ms),
           NEW e \in (h + 1)..(Len(ms) + 1), e <= Len(ms) => ms[e].kind # "prompt",
           NEW s, Len(s) \in Nat \ {0}, NEW x, Rough(s, ms, x, h, e),
           NEW b, b = s[1], b.at \in Nat, NEW d, d = Spot(s, ms, 2), ParseChar(b.c),
           OnTrack(b, ms) \/ (x = 0 /\ OffTrack(b, ms, h, e))
    PROVE  /\ OnTrack(d, ms)' \/ (x \in {0, 1} /\ OffTrack(d, ms, h, e)')
           /\ d.of = b.of \/ d.of = b.of + 1
           /\ b.of \in Kept(h, e) =>
                /\ Placed(b, ms) /\ Reads(ms[b.of], b.at)
                /\ \/ b.at < Length(ms, b.of) /\ d.of = b.of /\ d.at = b.at + 1
                   \/ b.at = Length(ms, b.of) /\ d.of = b.of + 1
           /\ d.of = b.of + 1 /\ d.of \in Kept(h, e) => d.at = 1
<1>1. 1 \in 1..Len(s) /\ 1 + 1 = 2 /\ Len(ms) \in Nat /\ h \in Nat /\ e \in Nat /\ h < e
  OBVIOUS
<1>2. /\ Somewhere(b, ms)
      /\ b.own => Placed(b, ms)
      /\ ~b.own => b.c \in Harmless /\ b.of >= h /\ Before(b, e)
  BY <1>1 DEF Rough, Pieces
<1>3. /\ x = 1 => Past(b, d, ms, h)
      /\ x # 1 => After(b, d, ms)
  BY <1>1 DEF Rough, Chain
<1>4. x # 0 => b.own
  BY <1>1 DEF Rough, AllOwn
<1>5. b.of \in Nat
  BY <1>2 DEF Somewhere
<1>6. \A i \in Nat : i \in Kept(h, e) <=> i < h \/ i > e
  BY DEF Kept
<1>7. \A i \in 1..Len(ms) : ms[i] \in Say /\ Sayable(ms[i])
  BY WireAssumption
<1>8. e <= Len(ms) => LongAs(ms[e]) \in Nat /\ LongAs(ms[e]) >= 1
  <2>1. SUFFICES ASSUME e <= Len(ms) PROVE LongAs(ms[e]) \in Nat /\ LongAs(ms[e]) >= 1
    OBVIOUS
  <2>2. e \in 1..Len(ms)
    BY <1>1, <2>1
  <2>3. LongAs(ms[e]) \in 1..(Len(Encode(ms[e])) - 1) /\ Len(Encode(ms[e])) \in Nat
    BY <1>7, <2>1, <2>2, TwoBytes
  <2> QED
    BY <2>3
<1>9. CASE b.own /\ x # 1
  <2>1. NextTo(b, d, ms) /\ Placed(b, ms)
    BY <1>2, <1>3, <1>9 DEF After
  <2>2. /\ d.of = b.of \/ d.of = b.of + 1
        /\ d.of = b.of + 1 => d.at = 1
        /\ \/ b.at < Length(ms, b.of) /\ d.of = b.of /\ d.at = b.at + 1
           \/ b.at = Length(ms, b.of) /\ d.of = b.of + 1
    <3>1. b.of # b.of + 1
      BY <1>5
    <3> QED
      BY <2>1, <3>1 DEF NextTo
  <2>3. CASE OnTrack(b, ms)
    <3>1. OnTrack(d, ms)' /\ Reads(ms[b.of], b.at)
      BY <2>1, <2>3, ReadOn
    <3> QED
      BY <2>1, <2>2, <3>1
  <2>4. CASE x = 0 /\ OffTrack(b, ms, h, e)
    <3>1. b.of >= h /\ Until(b, ms, e) /\ Astray(ms[b.of], b.at)
      BY <2>4 DEF OffTrack
    <3>2. b.of \notin Kept(h, e)
      <4>1. b.of <= e
        BY <1>1, <1>5, <3>1 DEF Until
      <4> QED
        BY <1>1, <1>5, <1>6, <3>1, <4>1
    <3>3. OnTrack(d, ms)' \/ OffTrack(d, ms, h, e)'
      <4>1. Astray(ms[d.of], d.at)'
        BY <2>1, <3>1, OffOwn
      <4>2. d.of >= h
        BY <1>1, <1>5, <2>2, <3>1
      <4>3. CASE b.of < e
        <5>1. Until(d, ms, e)
          BY <1>1, <1>5, <1>8, <2>2, <4>3 DEF Until
        <5> QED
          BY <4>1, <4>2, <5>1 DEF OffTrack
      <4>4. CASE b.of = e /\ b.at < LongAs(ms[e])
        <5>1. b.of \in 1..Len(ms) /\ Length(ms, b.of) = Len(Encode(ms[b.of]))
          BY <2>1, SaidWell
        <5>2. LongAs(ms[e]) \in 1..(Len(Encode(ms[e])) - 1) /\ Len(Encode(ms[e])) \in Nat
          <6>1. e <= Len(ms) /\ e \in 1..Len(ms)
            BY <4>4, <5>1
          <6> QED
            BY <1>7, <6>1, TwoBytes
        <5>3. b.at < Length(ms, b.of)
          BY <4>4, <5>1, <5>2
        <5>4. d.of = b.of /\ d.at = b.at + 1
          BY <2>2, <5>3
        <5>5. d.at <= LongAs(ms[e])
          BY <4>4, <5>2, <5>4
        <5>6. Until(d, ms, e)
          BY <4>4, <5>4, <5>5 DEF Until
        <5> QED
          BY <4>1, <4>2, <5>6 DEF OffTrack
      <4>5. CASE b.of = e /\ ~(b.at < LongAs(ms[e]))
        <5>1. b.of \in 1..Len(ms)
          BY <2>1, SaidWell
        <5>2. e <= Len(ms)
          BY <4>5, <5>1
        <5>3. b.at <= LongAs(ms[e])
          BY <3>1, <4>5, <5>2, <1>1 DEF Until
        <5>4. b.at = LongAs(ms[e])
          BY <1>8, <4>5, <5>2, <5>3
        <5>5. ms[b.of].kind # "prompt"
          BY <4>5, <5>2
        <5>6. OnTrack(d, ms)'
          BY <2>1, <3>1, <4>5, <5>4, <5>5, OffEnds
        <5> QED
          BY <5>6
      <4>6. b.of < e \/ b.of = e
        BY <3>1 DEF Until
      <4> QED
        BY <4>3, <4>4, <4>5, <4>6
    <3>4. d.of = b.of + 1 /\ d.of \in Kept(h, e) => d.at = 1
      BY <2>2
    <3> QED
      BY <2>2, <2>4, <3>2, <3>3, <3>4
  <2> QED
    BY <2>3, <2>4
<1>10. CASE b.own /\ x = 1
  <2>1. Past(b, d, ms, h) /\ Placed(b, ms) /\ OnTrack(b, ms)
    BY <1>2, <1>3, <1>10
  <2>2. Reads(ms[b.of], b.at)
    BY <2>1, ReadOn
  <2>3. Astray(ms[d.of], d.at)'
    BY <1>1, <1>5, <2>1, PastOff
  <2>4. PICK y \in [of : {h}, at : Nat] : NextTo(b, y, ms) /\ NextTo(y, d, ms)
    BY <2>1 DEF Past
  <2>5. /\ y.of = h
        /\ \/ b.at < Length(ms, b.of) /\ y.of = b.of /\ y.at = b.at + 1
           \/ b.at = Length(ms, b.of) /\ y.of = b.of + 1 /\ y.at = 1
        /\ \/ y.at < Length(ms, y.of) /\ d.of = y.of /\ d.at = y.at + 1
           \/ y.at = Length(ms, y.of) /\ d.of = y.of + 1 /\ d.at = 1
    BY <2>4 DEF NextTo
  <2>6. b.of \in 1..Len(ms) /\ Length(ms, h) >= 2 /\ Length(ms, h) \in Nat
    <3>1. b.of \in 1..Len(ms)
      BY <2>1 DEF Placed
    <3>2. h \in 1..Len(ms)
      BY <1>1, <2>5, <3>1
    <3>3. Sayable(ms[h])
      BY <1>7, <3>2
    <3> QED
      BY <3>1, <3>3, TwoBytes DEF Length
  <2>7. d.of = b.of \/ d.of = b.of + 1
    <3>1. CASE y.of = b.of
      BY <2>5, <3>1
    <3>2. CASE y.of = b.of + 1 /\ y.at = 1
      <4>1. y.at # Length(ms, y.of)
        BY <2>5, <2>6, <3>2
      <4> QED
        BY <2>5, <3>2, <4>1
    <3> QED
      BY <2>5, <3>1, <3>2
  <2>8. d.of >= h /\ (d.of = h \/ (d.of = h + 1 /\ d.at = 1)) /\ d.of \in Nat
    BY <1>1, <2>5
  <2>9. OffTrack(d, ms, h, e)'
    <3>1. Until(d, ms, e)
      <4>1. CASE d.of = h
        BY <1>1, <4>1 DEF Until
      <4>2. CASE d.of = h + 1 /\ d.at = 1
        BY <1>1, <1>8, <4>2 DEF Until
      <4> QED
        BY <2>8, <4>1, <4>2
    <3> QED
      BY <2>3, <2>8, <3>1 DEF OffTrack
  <2>10. d.of \notin Kept(h, e)
    <3>1. d.of <= e
      BY <1>1, <2>8
    <3> QED
      BY <1>1, <1>6, <2>8, <3>1
  <2>11. b.of \in Kept(h, e) => b.at = Length(ms, b.of) /\ d.of = b.of + 1
    <3>1. SUFFICES ASSUME b.of \in Kept(h, e) PROVE b.at = Length(ms, b.of) /\ d.of = b.of + 1
      OBVIOUS
    <3>2. b.of # h
      BY <1>1, <1>6, <3>1
    <3>3. y.of = b.of + 1 /\ y.at = 1 /\ b.at = Length(ms, b.of)
      BY <2>5, <3>2
    <3>4. y.at # Length(ms, y.of)
      BY <2>5, <2>6, <3>3
    <3> QED
      BY <2>5, <3>3, <3>4
  <2> QED
    BY <1>10, <2>1, <2>2, <2>7, <2>9, <2>10, <2>11
<1>11. CASE ~b.own
  <2>1. x = 0 /\ d.of = b.of /\ d.at = b.at
    BY <1>3, <1>4, <1>11 DEF After
  <2>2. b.c \in Harmless /\ b.of >= h /\ Before(b, e)
    BY <1>2, <1>11
  <2>3. b.of \notin Kept(h, e)
    BY <1>1, <1>5, <1>6, <2>2 DEF Before
  <2>4. Astray(ms[b.of], b.at)
    BY <1>2, TrackOff DEF OffTrack
  <2>5. Astray(ms[d.of], d.at)'
    BY <1>2, <2>1, <2>2, <2>4, OffTyped
  <2>6. Until(d, ms, e)
    BY <1>8, <2>1, <2>2 DEF Before, Until
  <2>7. OffTrack(d, ms, h, e)'
    BY <2>1, <2>2, <2>5, <2>6 DEF OffTrack
  <2>8. d.of # b.of + 1
    BY <1>5, <2>1
  <2> QED
    BY <2>1, <2>3, <2>7, <2>8
<1> QED
  BY <1>9, <1>10, <1>11

TypedPlain == \A l \in Typed : \A k \in 1..Len(l) : l[k] \in Harmless

LEMMA PlainParts == Plain => AllPlain /\ TypedPlain
<1> SUFFICES ASSUME Plain PROVE AllPlain /\ TypedPlain
  OBVIOUS
<1>1. AllPlain
  BY DEF Plain, AllPlain, PlainMsg
<1>2. ASSUME NEW l \in Typed, NEW k \in 1..Len(l) PROVE l[k] \in Harmless
  <2>1. l \in Seq(Char)
    BY WireAssumption
  <2>2. l[k] \in Char
    BY <2>1, ElementOfSeq
  <2> QED
    BY <2>2 DEF Plain, Harmless
<1> QED
  BY <1>1, <1>2 DEF TypedPlain

-----------------------------------------------------------------------------
(* What has been disturbed, and what can still be.                          *)
Spread ==
    /\ hurt \subseteq 0..Len(said)
    /\ hurt = {} => AllOwn(qin)
    /\ hurt # {} => lost + typed >= 1
    /\ console # <<>> => typed >= 1
    /\ \A k \in 1..Len(wire) : wire[k].own /\ wire[k].of = Len(said)
    /\ TypedPlain => \A k \in 1..Len(console) : console[k] \in Harmless

LEMMA SpreadInit == WInit => Spread
BY DEF WInit, Spread, AllOwn

LEMMA TailElements ==
    ASSUME NEW S, NEW q \in Seq(S), q # <<>>
    PROVE  /\ Tail(q) \in Seq(S) /\ Len(Tail(q)) = Len(q) - 1 /\ Len(q) \in Nat \ {0}
           /\ \A k \in 1..Len(Tail(q)) : Tail(q)[k] = q[k + 1] /\ k + 1 \in 1..Len(q)
           /\ Head(q) = q[1] /\ 1 \in 1..Len(q)
OBVIOUS

LEMMA SpreadStep == Carried /\ Spread /\ [WNext]_vars => Spread'
<1> SUFFICES ASSUME Carried, Spread, [WNext]_vars PROVE Spread'
  OBVIOUS
<1>1. /\ hurt \subseteq 0..Len(said)
      /\ hurt = {} => AllOwn(qin)
      /\ hurt # {} => lost + typed >= 1
      /\ console # <<>> => typed >= 1
      /\ \A k \in 1..Len(wire) : wire[k].own /\ wire[k].of = Len(said)
      /\ TypedPlain => \A k \in 1..Len(console) : console[k] \in Harmless
  BY DEF Spread
<1>2. /\ qin \in Seq(Places) /\ wire \in Seq(Places) /\ console \in Seq(Char)
      /\ lost \in Nat /\ typed \in Nat /\ Len(said) \in Nat
  BY DEF Carried
<1>3. ASSUME wire # <<>>, wire' = Tail(wire), said' = said
      PROVE  (\A k \in 1..Len(wire) : wire[k].own /\ wire[k].of = Len(said))'
  <2>1. \A k \in 1..Len(Tail(wire)) : Tail(wire)[k] = wire[k + 1] /\ k + 1 \in 1..Len(wire)
    BY <1>2, <1>3, TailElements
  <2> QED
    BY <1>1, <1>3, <2>1
<1>4. ASSUME NEW m \in Say, ModemSays(m) PROVE Spread'
  <2>1. /\ UNCHANGED <<console, qin, hurt, lost, typed>>
        /\ wire' = Bytes(m, Len(said) + 1) /\ said' = Append(said, m)
    BY <1>4 DEF ModemSays, Bytes
  <2>2. Len(said') = Len(said) + 1
    BY <2>1 DEF Carried
  <2>3. Sayable(m) /\ Len(said) + 1 \in Nat
    BY <1>2, WireAssumption
  <2>4. \A k \in 1..Len(wire') : wire'[k].own /\ wire'[k].of = Len(said')
    BY <2>1, <2>2, <2>3, BytesWell, BytesOwn
  <2>5. hurt' \subseteq 0..Len(said')
    BY <1>1, <1>2, <2>1, <2>2
  <2> QED
    BY <1>1, <2>1, <2>4, <2>5 DEF Spread
<1>5. ASSUME NEW l \in Typed, UserTypes(l) PROVE Spread'
  <2>1. console' = l /\ typed' = typed + 1 /\ UNCHANGED <<wire, qin, said, lost, hurt>>
    BY <1>5 DEF UserTypes
  <2>2. TypedPlain => \A k \in 1..Len(console') : console'[k] \in Harmless
    BY <2>1 DEF TypedPlain
  <2>3. typed' >= 1 /\ lost' + typed' >= 1
    BY <1>2, <2>1
  <2> QED
    BY <1>1, <2>1, <2>2, <2>3 DEF Spread
<1>6. ASSUME wire # <<>>, wire' = Tail(wire), Lose, UNCHANGED <<console, said, typed>>
      PROVE  Spread'
  <2>1. lost' = lost + 1 /\ hurt' = hurt \cup {Len(said)} /\ qin' = qin
    BY <1>6 DEF Lose
  <2>2. lost' + typed' >= 1 /\ Len(said) \in 0..Len(said)
    BY <1>2, <1>6, <2>1
  <2>3. hurt' \subseteq 0..Len(said') /\ hurt' # {}
    BY <1>1, <1>6, <2>1, <2>2
  <2> QED
    BY <1>1, <1>3, <1>6, <2>1, <2>2, <2>3 DEF Spread
<1>7. CASE RxByte
  <2>1. wire # <<>> /\ wire' = Tail(wire) /\ UNCHANGED <<console, said, typed>>
    BY <1>7 DEF RxByte
  <2>2. CASE HasRoom
    <3>1. qin' = Append(qin, Head(wire)) /\ UNCHANGED <<lost, hurt>>
      BY <1>7, <2>2 DEF RxByte
    <3>2. ASSUME hurt = {} PROVE AllOwn(qin')
      <4>1. AllOwn(qin)
        BY <1>1, <3>2
      <4>2. Head(wire).own /\ Head(wire) \in Places
        BY <1>1, <1>2, <2>1, TailElements
      <4> QED
        BY <1>2, <3>1, <4>1, <4>2 DEF AllOwn
    <3> QED
      BY <1>1, <1>3, <2>1, <3>1, <3>2 DEF Spread
  <2>3. CASE ~HasRoom
    BY <1>6, <1>7, <2>1, <2>3 DEF RxByte
  <2> QED
    BY <2>2, <2>3
<1>8. CASE RxError
  BY <1>6, <1>8 DEF RxError
<1>9. CASE ConsoleByte
  <2>1. /\ console # <<>> /\ console' = Tail(console) /\ hurt' = hurt \cup {Len(said)}
        /\ UNCHANGED <<wire, said, lost, typed>>
    BY <1>9 DEF ConsoleByte
  <2>2. TypedPlain => \A k \in 1..Len(console') : console'[k] \in Harmless
    <3>1. \A k \in 1..Len(Tail(console)) :
             Tail(console)[k] = console[k + 1] /\ k + 1 \in 1..Len(console)
      BY <1>2, <2>1, TailElements
    <3> QED
      BY <1>1, <2>1, <3>1
  <2>3. hurt' \subseteq 0..Len(said') /\ hurt' # {}
    <3>1. Len(said) \in 0..Len(said)
      BY <1>2
    <3> QED
      BY <1>1, <2>1, <3>1
  <2>4. typed' >= 1 /\ lost' + typed' >= 1
    BY <1>1, <1>2, <2>1
  <2> QED
    BY <1>1, <2>1, <2>2, <2>3, <2>4 DEF Spread
<1>10. CASE ParserTask
  <2>1. qin # <<>> /\ qin' = Tail(qin) /\ UNCHANGED <<wire, console, said, lost, typed, hurt>>
    BY <1>10 DEF ParserTask
  <2>2. AllOwn(qin) => AllOwn(qin')
    <3>1. \A k \in 1..Len(Tail(qin)) : Tail(qin)[k] = qin[k + 1] /\ k + 1 \in 1..Len(qin)
      BY <1>2, <2>1, TailElements
    <3> QED
      BY <2>1, <3>1 DEF AllOwn
  <2> QED
    BY <1>1, <2>1, <2>2 DEF Spread
<1>11. CASE ExecTakesLine
  BY <1>1, <1>11 DEF ExecTakesLine, wireVars, Spread, AllOwn
<1>12. CASE UNCHANGED vars
  BY <1>1, <1>12 DEF vars, wireVars, Spread, AllOwn
<1> QED
  BY <1>4, <1>5, <1>7, <1>8, <1>9, <1>10, <1>11, <1>12 DEF WNext

(* A step of others leaves the parser where it is.                          *)
LEMMA TrackStays ==
    ASSUME UNCHANGED <<state, msg_op, conn_id, buff_len, msg_buff>>, NEW b, NEW ms
    PROVE  /\ OnTrack(b, ms)' <=> OnTrack(b, ms)
           /\ \A h, e : OffTrack(b, ms, h, e)' <=> OffTrack(b, ms, h, e)
<1>1. OnTrack(b, ms)' <=> OnTrack(b, ms)
  BY DEF OnTrack, Inside, InLine, InNotice, InData
<1>2. Astray(ms[b.of], b.at)' <=> Astray(ms[b.of], b.at)
  BY DEF Astray
<1> QED
  BY <1>1, <1>2 DEF OffTrack

-----------------------------------------------------------------------------
(* The damage hit messages from h to l, the parser is set right in message  *)
(* e, and x is the place of the hole, if it is still under way.             *)
Struck(s, ms, g, hs, h, l, e, x) ==
    /\ h \in hs /\ l \in hs /\ \A y \in hs : h <= y /\ y <= l
    /\ e \in (l + 1)..(Len(ms) + 1)
    /\ \A i \in (l + 1)..(e - 1) : ms[i].kind = "prompt"
    /\ e <= Len(ms) => ms[e].kind # "prompt"
    /\ Rough(s, ms, x, h, e)
    /\ RelayOn(g, ms, Spot(s, ms, 1), Kept(h, e))
    /\ \/ OnTrack(Spot(s, ms, 1), ms)
       \/ x = 0 /\ OffTrack(Spot(s, ms, 1), ms, h, e)

LEMMA AstrayStart ==
    ASSUME NEW m, NEW n, Astray(m, 1) PROVE Astray(n, 1)
<1>1. \A z : 1 \notin 4..z
  OBVIOUS
<1>2. state # "IPD_ID" /\ state # "IPD_LEN"
  BY <1>1 DEF Astray
<1>3. state = "MSG_OP" => msg_op # <<>> /\ msg_op[1] # "+"
  BY <1>1 DEF Astray
<1>4. state = "IPD_DAT" => buff_len <= Len(msg_buff) + 1
  <2>1. ~(1 > 1)
    OBVIOUS
  <2> QED
    BY <2>1 DEF Astray
<1> QED
  BY <1>2, <1>3, <1>4 DEF Astray

(* A message more is said.                                                  *)
LEMMA StruckSay ==
    ASSUME UNCHANGED <<state, msg_op, conn_id, buff_len, msg_buff>>,
           NEW ms \in Seq(Say), NEW m \in Say, NEW s \in Seq(Places),
           NEW ns, NEW t, Saying(ms, m, s, ns, t), NEW g, NEW hs, hs \subseteq 0..Len(ms),
           NEW h, NEW l, NEW e, NEW x, Struck(s, ms, g, hs, h, l, e, x)
    PROVE  \E f : Struck(t, ns, g, hs, h, l, f, x)'
<1> DEFINE z == Len(ms)
           f == IF e = z + 1 /\ m.kind = "prompt" THEN e + 1 ELSE e
           b == Spot(s, ms, 1)
           d == Spot(t, ns, 1)
<1>1. /\ z \in Nat /\ h \in 0..z /\ l \in 0..z /\ e \in (l + 1)..(z + 1) /\ e \in Nat
      /\ f \in e..(e + 1) /\ f \in Nat /\ Sayable(m)
  BY WireAssumption DEF Struck
<1>2. /\ h \in hs /\ l \in hs /\ \A y \in hs : h <= y /\ y <= l
      /\ \A i \in (l + 1)..(e - 1) : ms[i].kind = "prompt"
      /\ e <= z => ms[e].kind # "prompt"
      /\ Rough(s, ms, x, h, e)
      /\ RelayOn(g, ms, b, Kept(h, e))
      /\ OnTrack(b, ms) \/ (x = 0 /\ OffTrack(b, ms, h, e))
  BY DEF Struck
<1>3. /\ Len(ns) = z + 1 /\ ns[z + 1] = m /\ ns = Append(ms, m)
      /\ \A i \in 1..z : ns[i] = ms[i]
  BY DEF Saying
<1>4. Rough(t, ns, x, h, e) /\ d.of = b.of /\ d.at = b.at
  BY <1>1, <1>2, RoughSay
<1>5. Somewhere(b, ms)
  <2>1. Pieces(s, ms, h, e) /\ Len(s) \in Nat
    BY <1>2 DEF Rough
  <2> QED
    BY <2>1, SpotWhere
<1>6. Rough(t, ns, x, h, f)
  <2>1. \A k \in 1..Len(t) : t[k].of \in Nat
    <3>1. Pieces(t, ns, h, e)
      BY <1>4 DEF Rough
    <3> QED
      BY <1>1, <1>3, <3>1 DEF Pieces, Somewhere
  <2>2. e <= f
    BY <1>1
  <2> QED
    BY <1>1, <1>4, <2>1, <2>2, RoughLater
<1>7. RelayOn(g, ns, d, Kept(h, f))
  <2>1. Kept(h, e) \subseteq Nat /\ Kept(h, f) \subseteq Kept(h, e)
    BY <1>1 DEF Kept
  <2>2. RelayOn(g, ns, d, Kept(h, e))
    BY <1>2, <1>3, <1>4, <1>5, <2>1, RelayOnSay
  <2> QED
    BY <2>1, <2>2, RelayFewer
<1>8. b.of \in 1..z \/ (b.of = z + 1 /\ b.at = 1)
  BY <1>5 DEF Somewhere
<1>9. f <= z + 1 => ns[f].kind # "prompt"
  <2>1. CASE e <= z
    BY <1>1, <1>2, <1>3, <2>1
  <2>2. CASE ~(e <= z)
    BY <1>1, <1>3, <2>2
  <2> QED
    BY <2>1, <2>2
<1>10. f \in (l + 1)..(Len(ns) + 1)
  BY <1>1, <1>3
<1>11. \A i \in (l + 1)..(f - 1) : ns[i].kind = "prompt"
  <2> TAKE i \in (l + 1)..(f - 1)
  <2>1. CASE i <= e - 1
    <3>1. i \in (l + 1)..(e - 1) /\ i \in 1..z
      BY <1>1, <2>1
    <3> QED
      BY <1>2, <1>3, <3>1
  <2>2. CASE ~(i <= e - 1)
    <3>1. i = z + 1 /\ m.kind = "prompt"
      BY <1>1, <2>2
    <3> QED
      BY <1>3, <3>1
  <2> QED
    BY <2>1, <2>2
<1> HIDE DEF f, b, d, z
<1>12. OnTrack(b, ms) => OnTrack(d, ns)
  <2> SUFFICES ASSUME OnTrack(b, ms) PROVE OnTrack(d, ns)
    OBVIOUS
  <2>1. CASE b.of \in 1..z
    <3>1. b.of <= Len(ms) /\ d.of <= Len(ns) /\ ns[d.of] = ms[b.of] /\ d.at = b.at
      BY <1>1, <1>3, <1>4, <2>1 DEF z
    <3> QED
      BY <3>1 DEF OnTrack
  <2>2. CASE b.of = z + 1 /\ b.at = 1
    <3>1. ~(b.of <= Len(ms)) /\ d.of <= Len(ns) /\ ns[d.of] = m /\ d.at = 1
      BY <1>1, <1>3, <1>4, <2>2 DEF z
    <3>2. Inside(m, 1)
      BY <1>1, <3>1, StartInside DEF OnTrack
    <3> QED
      BY <3>1, <3>2 DEF OnTrack
  <2> QED
    BY <1>8, <2>1, <2>2
<1>13. OffTrack(b, ms, h, e) => OffTrack(d, ns, h, f)
  <2> SUFFICES ASSUME OffTrack(b, ms, h, e) PROVE OffTrack(d, ns, h, f)
    OBVIOUS
  <2>1. d.of >= h /\ Until(b, ms, e) /\ Astray(ms[b.of], b.at)
    BY <1>4 DEF OffTrack
  <2>2. Astray(ns[d.of], d.at)
    <3>1. CASE b.of \in 1..z
      <4>1. ns[d.of] = ms[b.of] /\ d.at = b.at
        <5>1. \A i \in 1..z : ns[i] = ms[i]
          BY <1>3
        <5>2. ns[b.of] = ms[b.of]
          BY <3>1, <5>1
        <5> QED
          BY <1>4, <5>2
      <4> QED
        BY <2>1, <4>1
    <3>2. CASE b.of = z + 1 /\ b.at = 1
      BY <1>4, <2>1, <3>2, AstrayStart
    <3> QED
      BY <1>8, <3>1, <3>2
  <2>3. Until(d, ns, f)
    <3>1. CASE b.of < e
      <4>1. d.of < f
        BY <1>1, <1>4, <1>8, <3>1
      <4> QED
        BY <4>1 DEF Until
    <3>2. CASE b.of = e /\ e <= z
      <4>1. f = e /\ ns[e] = ms[e] /\ b.at <= LongAs(ms[e])
        <5>1. f = e
          BY <1>1, <3>2 DEF f
        <5>2. e \in 1..z
          BY <1>1, <3>2
        <5>3. b.at <= LongAs(ms[e])
          BY <2>1, <3>2, <1>1 DEF Until, z
        <5> QED
          BY <1>3, <5>1, <5>2, <5>3
      <4> QED
        BY <1>4, <3>2, <4>1 DEF Until
    <3>3. CASE b.of = e /\ ~(e <= z)
      <4>1. e = z + 1 /\ b.at = 1
        BY <1>1, <1>8, <3>3
      <4>2. CASE m.kind = "prompt"
        <5>1. f = e + 1
          BY <4>1, <4>2 DEF f
        <5>2. d.of < f
          BY <1>1, <1>4, <3>3, <5>1
        <5> QED
          BY <5>2 DEF Until
      <4>3. CASE m.kind # "prompt"
        <5>1. f = e /\ ns[e] = m
          BY <1>3, <4>1, <4>3 DEF f
        <5>2. LongAs(m) \in 1..(Len(Encode(m)) - 1) /\ Len(Encode(m)) \in Nat
          BY <1>1, <4>3, TwoBytes
        <5>3. d.at <= LongAs(m)
          BY <1>4, <4>1, <5>2
        <5> QED
          BY <1>4, <3>3, <5>1, <5>3 DEF Until
      <4> QED
        BY <4>2, <4>3
    <3> QED
      BY <2>1, <3>1, <3>2, <3>3 DEF Until
  <2> QED
    BY <2>1, <2>2, <2>3 DEF OffTrack
<1>14. OnTrack(d, ns)' \/ (x = 0 /\ OffTrack(d, ns, h, f)')
  BY <1>2, <1>12, <1>13, TrackStays
<1>15. Struck(t, ns, g, hs, h, l, f, x)'
  BY <1>2, <1>3, <1>6, <1>7, <1>9, <1>10, <1>11, <1>14 DEF Struck, d
<1> QED
  BY <1>15

LEMMA StruckWhere ==
    ASSUME NEW ms \in Seq(Say), NEW s, NEW g, NEW hs, NEW h, NEW l, NEW e, NEW x,
           Struck(s, ms, g, hs, h, l, e, x), hs \subseteq 0..Len(ms)
    PROVE  /\ h \in 0..Len(ms) /\ l \in 0..Len(ms) /\ e \in Nat /\ e \in (h + 1)..(Len(ms) + 1)
           /\ Len(ms) \in Nat /\ e <= Len(ms) + 1
           /\ Somewhere(Spot(s, ms, 1), ms) /\ \A k \in 1..Len(s) : s[k].of \in Nat
<1>1. h \in 0..Len(ms) /\ l \in 0..Len(ms) /\ h <= l /\ e \in (l + 1)..(Len(ms) + 1)
  BY DEF Struck
<1>2. Pieces(s, ms, h, e) /\ Len(s) \in Nat
  BY DEF Struck, Rough
<1>3. Somewhere(Spot(s, ms, 1), ms)
  BY <1>2, SpotWhere
<1>4. \A k \in 1..Len(s) : s[k].of \in Nat
  BY <1>2 DEF Pieces, Somewhere
<1> QED
  BY <1>1, <1>3, <1>4

(* A byte typed is dropped: the damage may now end later.                   *)
LEMMA StruckLater ==
    ASSUME NEW ms \in Seq(Say), NEW s, Len(s) \in Nat, NEW g, NEW hs, hs \subseteq 0..Len(ms),
           NEW h, NEW l, NEW e, NEW x, Struck(s, ms, g, hs, h, l, e, x)
    PROVE  Struck(s, ms, g, hs \cup {Len(ms)}, h, Len(ms), Len(ms) + 1, x)
<1> DEFINE z == Len(ms)
           f == Len(ms) + 1
           b == Spot(s, ms, 1)
<1>1. /\ h \in 0..z /\ e \in Nat /\ z \in Nat /\ f \in Nat /\ f = z + 1 /\ e <= f
      /\ Somewhere(b, ms) /\ \A k \in 1..Len(s) : s[k].of \in Nat
  <2>1. /\ h \in 0..Len(ms) /\ e \in Nat /\ Len(ms) \in Nat /\ e <= Len(ms) + 1
        /\ Somewhere(Spot(s, ms, 1), ms) /\ \A k \in 1..Len(s) : s[k].of \in Nat
    BY StruckWhere
  <2> QED
    BY <2>1
<1>2. /\ h \in hs /\ \A y \in hs : h <= y
      /\ Rough(s, ms, x, h, e)
      /\ RelayOn(g, ms, b, Kept(h, e))
      /\ OnTrack(b, ms) \/ (x = 0 /\ OffTrack(b, ms, h, e))
  BY DEF Struck
<1>3. Rough(s, ms, x, h, f)
  BY <1>1, <1>2, RoughLater
<1>4. RelayOn(g, ms, b, Kept(h, f))
  <2>1. Kept(h, f) \subseteq Kept(h, e)
    BY <1>1 DEF Kept
  <2> QED
    BY <1>2, <2>1, RelayFewer
<1>5. OffTrack(b, ms, h, e) => OffTrack(b, ms, h, f)
  <2>1. Until(b, ms, f)
    <3>1. b.of < f \/ b.of = f
      BY <1>1 DEF Somewhere
    <3>2. ~(f <= Len(ms))
      BY <1>1
    <3> QED
      BY <3>1, <3>2 DEF Until
  <2> QED
    BY <2>1 DEF OffTrack
<1>6. \A y \in hs \cup {z} : h <= y /\ y <= z
  BY <1>1, <1>2
<1>7. f \in (z + 1)..(z + 1) /\ (z + 1)..(f - 1) = {} /\ ~(f <= z)
  BY <1>1
<1> QED
  BY <1>2, <1>3, <1>4, <1>5, <1>6, <1>7 DEF Struck

(* A byte typed slips in.                                                   *)
LEMMA StruckSlip ==
    ASSUME NEW ms \in Seq(Say), NEW s, Len(s) \in Nat, NEW n \in 0..Len(s), NEW d,
           NEW t, With(s, n, d, t),
           ~d.own, d.c \in Harmless,
           d.of = Spot(s, ms, n + 1).of, d.at = Spot(s, ms, n + 1).at, d.of >= Len(ms),
           NEW g, NEW hs, hs \subseteq 0..Len(ms),
           NEW h, NEW l, NEW e, Struck(s, ms, g, hs, h, l, e, 0)
    PROVE  Struck(t, ms, g, hs \cup {Len(ms)}, h, Len(ms), Len(ms) + 1, 0)
<1> DEFINE z == Len(ms)
           f == Len(ms) + 1
           gs == hs \cup {Len(ms)}
           b == Spot(s, ms, 1)
           c == Spot(t, ms, 1)
<1>1. h \in 0..z /\ z \in Nat
  BY StruckWhere
<1>2. Struck(s, ms, g, gs, h, z, f, 0)
  BY StruckLater
<1>3. /\ h \in gs /\ z \in gs /\ \A y \in gs : h <= y /\ y <= z
      /\ f \in (z + 1)..(Len(ms) + 1)
      /\ \A i \in (z + 1)..(f - 1) : ms[i].kind = "prompt"
      /\ f <= Len(ms) => ms[f].kind # "prompt"
      /\ Rough(s, ms, 0, h, f)
      /\ RelayOn(g, ms, b, Kept(h, f))
      /\ OnTrack(b, ms) \/ (0 = 0 /\ OffTrack(b, ms, h, f))
  BY <1>2 DEF Struck
<1>4. d.of >= h
  <2>1. Somewhere(Spot(s, ms, n + 1), ms)
    <3>1. Pieces(s, ms, h, f)
      BY <1>3 DEF Rough
    <3> QED
      BY <1>1, <3>1, SpotWhere
  <2>2. d.of \in Nat
    BY <1>1, <2>1 DEF Somewhere
  <2> QED
    BY <1>1, <2>2
<1>5. Rough(t, ms, 0, h, f) /\ c.of = b.of /\ c.at = b.at
  <2>1. f = Len(ms) + 1 /\ Rough(s, ms, 0, h, f) /\ Len(ms) \in Nat
    BY <1>1, <1>3
  <2> HIDE DEF f, z, gs, b, c
  <2>2. /\ Rough(t, ms, 0, h, f)
        /\ Spot(t, ms, 1).of = Spot(s, ms, 1).of /\ Spot(t, ms, 1).at = Spot(s, ms, 1).at
    BY <1>4, <2>1, RoughSlip
  <2> QED
    BY <2>2 DEF b, c
<1>6. RelayOn(g, ms, c, Kept(h, f))
  BY <1>3, <1>5, RelayFewer
<1>7. OnTrack(c, ms) \/ (0 = 0 /\ OffTrack(c, ms, h, f))
  BY <1>3, <1>5 DEF OnTrack, OffTrack, Until
<1> QED
  BY <1>3, <1>5, <1>6, <1>7 DEF Struck

(* The first damage.                                                        *)
LEMMA StruckFirst ==
    ASSUME NEW ms \in Seq(Say), NEW s \in Seq(Places), Flow(s, ms), AllOwn(s),
           ParserAt(s, ms), NEW g, Relay(g, ms, Here(s, ms))
    PROVE  /\ Struck(s, ms, g, {Len(ms)}, Len(ms), Len(ms), Len(ms) + 1, 0)
           /\ OnTrack(Spot(s, ms, 1), ms)
<1> DEFINE z == Len(ms)
           f == Len(ms) + 1
           b == Spot(s, ms, 1)
<1>1. z \in Nat /\ Len(s) \in Nat /\ (s = <<>> <=> Len(s) = 0) /\ f = z + 1
  OBVIOUS
<1>2. Rough(s, ms, 0, z, f) /\ b = Here(s, ms)
  BY <1>1, RoughClean
<1>3. Somewhere(b, ms)
  <2>1. Pieces(s, ms, z, f)
    BY <1>2 DEF Rough
  <2> QED
    BY <1>1, <2>1, SpotWhere
<1>4. RelayOn(g, ms, b, Kept(z, f))
  <2>1. b.of \in Nat
    BY <1>1, <1>3 DEF Somewhere
  <2>2. Relay(g, ms, b)
    BY <1>2
  <2> QED
    BY <1>1, <2>1, <2>2, RelayAny
<1>5. OnTrack(b, ms)
  <2>1. CASE s = <<>>
    <3>1. b.of = z + 1 /\ state = "CLEAR"
      BY <1>2, <2>1 DEF Here, Byte, ParserAt
    <3>2. ~(b.of <= Len(ms))
      BY <1>1, <3>1
    <3> QED
      BY <3>1, <3>2 DEF OnTrack
  <2>2. CASE s # <<>>
    <3>1. b = s[1] /\ 1 \in 1..Len(s)
      BY <1>1, <1>2, <2>2 DEF Here
    <3>2. b.of \in 1..Len(ms)
      BY <3>1 DEF Flow, Placed
    <3>3. Inside(ms[b.of], b.at)
      BY <2>2, <3>1 DEF ParserAt
    <3>4. b.of <= Len(ms)
      BY <1>1, <3>2
    <3> QED
      BY <3>3, <3>4 DEF OnTrack
  <2> QED
    BY <2>1, <2>2
<1>6. \A y \in {z} : z <= y /\ y <= z
  BY <1>1
<1>7. f \in (z + 1)..(z + 1) /\ (z + 1)..(f - 1) = {} /\ ~(f <= z)
  BY <1>1
<1> QED
  BY <1>2, <1>4, <1>5, <1>6, <1>7 DEF Struck

(* A byte is lost.                                                          *)
LEMMA StruckDrop ==
    ASSUME IInv, AllPlain, NEW ms \in Seq(Say), NEW s \in Seq(Places), NEW n \in 0..(Len(s) - 1),
           NEW t, Without(s, n, t),
           s[n + 1].of = Len(ms), AllOwn(s), NEW g \in Seq([of : Nat, msg : Msg]), NEW hs, NEW h,
           NEW e, h = Len(ms), e = Len(ms) + 1,
           Struck(s, ms, g, hs, h, h, e, 0), OnTrack(Spot(s, ms, 1), ms)
    PROVE  Struck(t, ms, g, hs, h, h, e, n)
<1> DEFINE b == Spot(s, ms, 1)
           d == Spot(t, ms, 1)
<1>1. /\ Len(ms) \in Nat /\ h \in Nat /\ e \in Nat /\ Len(s) \in Nat /\ n + 1 \in 1..Len(s)
      /\ s[n + 1].at \in Nat
  <2>1. n + 1 \in 1..Len(s) /\ Len(s) \in Nat
    OBVIOUS
  <2>2. s[n + 1] \in Places
    BY <2>1, ElementOfSeq
  <2>3. s[n + 1].at \in Nat
    BY <2>2 DEF Places
  <2> QED
    BY <2>1, <2>3
<1>2. /\ h \in hs /\ \A y \in hs : h <= y /\ y <= h
      /\ e \in (h + 1)..(Len(ms) + 1)
      /\ \A i \in (h + 1)..(e - 1) : ms[i].kind = "prompt"
      /\ e <= Len(ms) => ms[e].kind # "prompt"
      /\ Rough(s, ms, 0, h, e)
      /\ RelayOn(g, ms, b, Kept(h, e))
      /\ OnTrack(b, ms) \/ (0 = 0 /\ OffTrack(b, ms, h, e))
  BY DEF Struck
<1>3. /\ Rough(t, ms, n, h, e)
      /\ n # 0 => d = b
      /\ n = 0 => NextTo(s[1], d, ms) /\ b = s[1]
  <2> HIDE DEF b, d
  <2>1. s[n + 1].of = h /\ Rough(s, ms, 0, h, e)
    BY <1>2
  <2>2. /\ Rough(t, ms, n, h, e)
        /\ n # 0 => Spot(t, ms, 1) = Spot(s, ms, 1)
        /\ n = 0 => NextTo(s[1], Spot(t, ms, 1), ms) /\ Spot(s, ms, 1) = s[1]
    BY <1>1, <2>1, RoughDrop
  <2> QED
    BY <2>2 DEF b, d
<1>4. CASE n # 0
  BY <1>2, <1>3, <1>4 DEF Struck
<1>5. CASE n = 0
  <2>1. /\ NextTo(b, d, ms) /\ b = s[1] /\ b.of = h /\ 1 \in 1..Len(s) /\ b \in Places
        /\ b.of \in Nat /\ b.at \in Nat
    <3>1. 1 \in 1..Len(s) /\ s[1] \in Places
      BY <1>1, <1>5, ElementOfSeq
    <3>2. s[1].of = h
      BY <1>5
    <3> QED
      BY <1>3, <1>5, <3>1, <3>2 DEF Places
  <2>2. Placed(b, ms)
    BY <1>2, <2>1 DEF Rough, Pieces, AllOwn
  <2>3. /\ Sayable(ms[b.of]) /\ ms[b.of] \in Say /\ b.at \in 1..Len(Encode(ms[b.of]))
        /\ b.of \in 1..Len(ms)
    BY <2>2, SaidWell
  <2>4. Inside(ms[b.of], b.at)
    <3>1. b.of <= Len(ms)
      BY <2>3
    <3> QED
      BY <3>1 DEF OnTrack
  <2>5. PlainMsg(ms[b.of])
    BY <2>3 DEF AllPlain
  <2>6. Next1(ms[b.of], b.at, ms[d.of], d.at)
    BY <2>1, NextOne
  <2>7. Astray(ms[d.of], d.at)
    BY <2>3, <2>4, <2>5, <2>6, InsideAstray
  <2>8. d.of = h \/ d.of = h + 1
    BY <2>1 DEF NextTo
  <2>9. OffTrack(d, ms, h, e)
    <3>1. Until(d, ms, e)
      BY <1>1, <2>8 DEF Until
    <3> QED
      BY <1>1, <2>7, <2>8, <3>1 DEF OffTrack
  <2>10. RelayOn(g, ms, d, Kept(h, e))
    <3>1. h \notin Kept(h, e) /\ h + 1 \notin Kept(h, e) /\ Kept(h, e) \subseteq Nat
      BY <1>1 DEF Kept
    <3>2. NoMsg \in Msg /\ ~Matters(NoMsg) /\ g = Reported(g, b, NoMsg)
      BY MsgTypes, NoMatter DEF Reported
    <3>3. b.of \notin Kept(h, e) /\ d.of \notin Kept(h, e) /\ (d.of = b.of \/ d.of = b.of + 1)
      BY <2>1, <2>8, <3>1
    <3>4. RelayOn(g, ms, b, Kept(h, e)) /\ b.of \in Nat /\ b.at \in Nat
      BY <1>2, <2>1
    <3> HIDE DEF b, d
    <3> QED
      BY <3>1, <3>2, <3>3, <3>4, RelayOnRead
  <2> QED
    BY <1>2, <1>3, <1>5, <2>9, <2>10 DEF Struck
<1> QED
  BY <1>4, <1>5

(* A byte is read.                                                          *)
LEMMA StruckRead ==
    ASSUME IInv, IInv', AllPlain, NEW ms \in Seq(Say), NEW s \in Seq(Places), s # <<>>,
           ParseChar(s[1].c), NEW t, t = Tail(s),
           NEW g \in Seq([of : Nat, msg : Msg]), NEW ng, NEW o \in Msg, o = out',
           ng = Reported(g, s[1], o),
           NEW hs, hs \subseteq 0..Len(ms), NEW h, NEW l, NEW e, NEW x,
           Struck(s, ms, g, hs, h, l, e, x)
    PROVE  Struck(t, ms, ng, hs, h, l, e, IF x = 0 THEN 0 ELSE x - 1)'
<1> DEFINE b == s[1]
           d == Spot(t, ms, 1)
           z == IF x = 0 THEN 0 ELSE x - 1
           I == Kept(h, e)
<1>1. /\ h \in 0..Len(ms) /\ e \in (h + 1)..(Len(ms) + 1) /\ Len(ms) \in Nat
  BY StruckWhere
<1>2. /\ h \in hs /\ l \in hs /\ \A y \in hs : h <= y /\ y <= l
      /\ e \in (l + 1)..(Len(ms) + 1)
      /\ \A i \in (l + 1)..(e - 1) : ms[i].kind = "prompt"
      /\ e <= Len(ms) => ms[e].kind # "prompt"
      /\ Rough(s, ms, x, h, e)
      /\ RelayOn(g, ms, Spot(s, ms, 1), I)
      /\ OnTrack(Spot(s, ms, 1), ms) \/ (x = 0 /\ OffTrack(Spot(s, ms, 1), ms, h, e))
  BY DEF Struck
<1>3. /\ t \in Seq(Places) /\ Len(t) = Len(s) - 1 /\ Len(s) \in Nat \ {0}
      /\ \A k \in 1..Len(t) : t[k] = s[k + 1]
      /\ 1 \in 1..Len(s)
      /\ Cut(s, t)
  BY TailElements DEF Cut
<1>4. Rough(t, ms, z, h, e) /\ d = Spot(s, ms, 2) /\ Spot(s, ms, 1) = b
  <2>1. Rough(s, ms, x, h, e) /\ Len(ms) \in Nat
    BY <1>1, <1>2
  <2>2. /\ Rough(t, ms, IF x = 0 THEN 0 ELSE x - 1, h, e)
        /\ Spot(t, ms, 1) = Spot(s, ms, 2) /\ Spot(s, ms, 1) = s[1]
    <3> HIDE DEF b, d, z
    <3> QED
      BY <1>3, <2>1, RoughTail
  <2> QED
    BY <2>2
<1>5. b.of \in Nat /\ b.at \in Nat
  <2>1. b \in Places
    BY <1>3, ElementOfSeq
  <2> QED
    BY <2>1 DEF Places
<1>6. /\ OnTrack(d, ms)' \/ (x \in {0, 1} /\ OffTrack(d, ms, h, e)')
      /\ d.of = b.of \/ d.of = b.of + 1
      /\ b.of \in I =>
           /\ Placed(b, ms) /\ Reads(ms[b.of], b.at)
           /\ \/ b.at < Length(ms, b.of) /\ d.of = b.of /\ d.at = b.at + 1
              \/ b.at = Length(ms, b.of) /\ d.of = b.of + 1
      /\ d.of = b.of + 1 /\ d.of \in I => d.at = 1
  <2>1. OnTrack(b, ms) \/ (x = 0 /\ OffTrack(b, ms, h, e))
    BY <1>2, <1>4
  <2>2. d = Spot(s, ms, 2)
    BY <1>4
  <2>3. b = s[1] /\ ParseChar(b.c)
    OBVIOUS
  <2>4. Rough(s, ms, x, h, e) /\ (e <= Len(ms) => ms[e].kind # "prompt")
    BY <1>2
  <2> HIDE DEF d, b, I, z
  <2>5. Len(s) \in Nat \ {0} /\ b.at \in Nat
    BY <1>3, <1>5
  <2>6. /\ OnTrack(d, ms)' \/ (x \in {0, 1} /\ OffTrack(d, ms, h, e)')
        /\ d.of = b.of \/ d.of = b.of + 1
        /\ b.of \in Kept(h, e) =>
             /\ Placed(b, ms) /\ Reads(ms[b.of], b.at)
             /\ \/ b.at < Length(ms, b.of) /\ d.of = b.of /\ d.at = b.at + 1
                \/ b.at = Length(ms, b.of) /\ d.of = b.of + 1
        /\ d.of = b.of + 1 /\ d.of \in Kept(h, e) => d.at = 1
    BY <1>1, <2>1, <2>2, <2>3, <2>4, <2>5, TurnRead, SMTT(20)
  <2> QED
    BY <2>6 DEF I
<1>7. RelayOn(ng, ms, d, I)
  <2>1. I \subseteq Nat
    BY DEF Kept
  <2>2. b.of \in I =>
              /\ Placed(b, ms)
              /\ Matters(o) <=> (b.at = EmitAt(ms[b.of]) /\ Matters(Meaning(ms[b.of])))
              /\ Matters(o) => o = Meaning(ms[b.of])
              /\ \/ b.at < Length(ms, b.of) /\ d.of = b.of /\ d.at = b.at + 1
                 \/ b.at = Length(ms, b.of) /\ d.of = b.of + 1
    BY <1>6 DEF Reads
  <2>3. RelayOn(g, ms, b, I)
    BY <1>2, <1>4
  <2> HIDE DEF I, b, d
  <2>4. ng = Reported(g, b, o)
    BY DEF b
  <2> QED
    BY <1>5, <1>6, <2>1, <2>2, <2>3, <2>4, RelayOnRead
<1>8. OnTrack(d, ms)' \/ (z = 0 /\ OffTrack(d, ms, h, e)')
  BY <1>6
<1> HIDE DEF z, I
<1>9. RelayOn(ng, ms, d, Kept(h, e))
  BY <1>7 DEF I
<1>10. Struck(t, ms, ng, hs, h, l, e, z)'
  BY <1>2, <1>4, <1>8, <1>9 DEF Struck
<1> QED
  BY <1>10 DEF z

-----------------------------------------------------------------------------
(* A byte more in the queue, a byte less on the wire.                       *)
LEMMA Inserted ==
    ASSUME NEW q \in Seq(Places), NEW w \in Seq(Places), NEW d \in Places
    PROVE  With(q \o w, Len(q), d, Append(q, d) \o w)
<1> DEFINE a == Append(q, d)
           n == Len(q)
           z == Len(w)
<1>1. /\ n \in Nat /\ z \in Nat /\ Len(q) = n /\ Len(w) = z
      /\ a \in Seq(Places) /\ Len(a) = n + 1 /\ a[n + 1] = d
      /\ \A k \in 1..n : a[k] = q[k]
  OBVIOUS
<1> HIDE DEF a, n, z
<1> DEFINE s == q \o w
           t == a \o w
<1>2. /\ Len(s) = n + z
      /\ \A k \in 1..n : s[k] = q[k]
      /\ \A k \in 1..z : s[n + k] = w[k]
  <2>1. /\ q \o w \in Seq(Places) /\ Len(q \o w) = Len(q) + Len(w)
        /\ \A i \in 1..Len(q) : (q \o w)[i] = q[i]
        /\ \A i \in 1..Len(w) : (q \o w)[Len(q) + i] = w[i]
    BY Joined
  <2> QED
    BY <1>1, <2>1
<1>3. /\ Len(t) = (n + 1) + z
      /\ \A k \in 1..(n + 1) : t[k] = a[k]
      /\ \A k \in 1..z : t[(n + 1) + k] = w[k]
  <2>1. a \in Seq(Places)
    BY <1>1
  <2>2. /\ a \o w \in Seq(Places) /\ Len(a \o w) = Len(a) + Len(w)
        /\ \A i \in 1..Len(a) : (a \o w)[i] = a[i]
        /\ \A i \in 1..Len(w) : (a \o w)[Len(a) + i] = w[i]
    BY <2>1, Joined
  <2> QED
    BY <1>1, <2>2
<1> HIDE DEF s, t
<1>4. Len(t) = Len(s) + 1 /\ n + 1 \in 1..(n + 1)
  BY <1>1, <1>2, <1>3
<1>5. ASSUME NEW k \in 1..n PROVE t[k] = s[k]
  <2>1. k \in 1..(n + 1)
    BY <1>1
  <2> QED
    BY <1>1, <1>2, <1>3, <2>1
<1>6. ASSUME NEW k \in (n + 2)..(Len(s) + 1) PROVE t[k] = s[k - 1]
  <2> DEFINE j == k - (n + 1)
  <2>1. j \in 1..z /\ (n + 1) + j = k /\ n + j = k - 1
    BY <1>1, <1>2
  <2> HIDE DEF j
  <2> QED
    BY <1>2, <1>3, <2>1
<1>7. t[n + 1] = d
  BY <1>1, <1>3, <1>4
<1>8. With(s, n, d, t)
  BY <1>4, <1>5, <1>6, <1>7 DEF With
<1> QED
  BY <1>8 DEF s, t, n, a

LEMMA Dropped ==
    ASSUME NEW q \in Seq(Places), NEW w \in Seq(Places), w # <<>>
    PROVE  /\ Without(q \o w, Len(q), q \o Tail(w))
           /\ q \o w \in Seq(Places) /\ Len(q) \in 0..(Len(q \o w) - 1)
           /\ (q \o w)[Len(q) + 1] = w[1]
<1> DEFINE v == Tail(w)
           n == Len(q)
           z == Len(w)
<1>1. /\ n \in Nat /\ z \in Nat \ {0} /\ Len(q) = n /\ Len(w) = z
      /\ v \in Seq(Places) /\ Len(v) = z - 1
      /\ \A k \in 1..(z - 1) : v[k] = w[k + 1]
  OBVIOUS
<1> HIDE DEF v, n, z
<1> DEFINE s == q \o w
           t == q \o v
<1>2. /\ s \in Seq(Places) /\ Len(s) = n + z
      /\ \A k \in 1..n : s[k] = q[k]
      /\ \A k \in 1..z : s[n + k] = w[k]
  <2>1. /\ q \o w \in Seq(Places) /\ Len(q \o w) = Len(q) + Len(w)
        /\ \A i \in 1..Len(q) : (q \o w)[i] = q[i]
        /\ \A i \in 1..Len(w) : (q \o w)[Len(q) + i] = w[i]
    BY Joined
  <2> QED
    BY <1>1, <2>1
<1>3. /\ Len(t) = n + (z - 1)
      /\ \A k \in 1..n : t[k] = q[k]
      /\ \A k \in 1..(z - 1) : t[n + k] = v[k]
  <2>1. v \in Seq(Places)
    BY <1>1
  <2>2. /\ q \o v \in Seq(Places) /\ Len(q \o v) = Len(q) + Len(v)
        /\ \A i \in 1..Len(q) : (q \o v)[i] = q[i]
        /\ \A i \in 1..Len(v) : (q \o v)[Len(q) + i] = v[i]
    BY <2>1, Joined
  <2> QED
    BY <1>1, <2>2
<1> HIDE DEF s, t
<1>4. Len(t) = Len(s) - 1 /\ 1 \in 1..z /\ n \in 0..(Len(s) - 1)
  BY <1>1, <1>2, <1>3
<1>5. ASSUME NEW k \in 1..n PROVE t[k] = s[k]
  BY <1>2, <1>3
<1>6. ASSUME NEW k \in (n + 1)..(Len(s) - 1) PROVE t[k] = s[k + 1]
  <2> DEFINE j == k - n
  <2>1. j \in 1..(z - 1) /\ n + j = k /\ n + (j + 1) = k + 1 /\ j + 1 \in 1..z
    BY <1>1, <1>2
  <2> HIDE DEF j
  <2>2. t[k] = v[j] /\ v[j] = w[j + 1]
    BY <1>1, <1>3, <2>1
  <2>3. s[k + 1] = w[j + 1]
    BY <1>2, <2>1
  <2> QED
    BY <2>2, <2>3
<1>7. s[n + 1] = w[1]
  BY <1>2, <1>4
<1>8. Without(s, n, t)
  BY <1>4, <1>5, <1>6 DEF Without
<1> QED
  BY <1>2, <1>4, <1>7, <1>8 DEF s, t, n, v

-----------------------------------------------------------------------------
(* One hole, or bytes typed, but not both.                                  *)
Damaged ==
    \E h, l, e, x : Struck(Stream, said, got, hurt, h, l, e, x) /\ (x # 0 => typed = 0)

LEMMA DamagedNext ==
    ASSUME NEW t, t = Stream', NEW ms, ms = said', NEW g, g = got', NEW hs, hs = hurt',
           NEW h, NEW l, NEW e, NEW x, Struck(t, ms, g, hs, h, l, e, x)', x # 0 => typed' = 0
    PROVE  Damaged'
<1>1. Struck(Stream, said, got, hurt, h, l, e, x)'
  OBVIOUS
<1> QED
  BY <1>1 DEF Damaged

DInv ==
    /\ WIInv /\ Spread
    /\ Plain /\ lost + typed <= 1 /\ hurt # {} => Damaged

LEMMA StreamWell ==
    ASSUME Carried
    PROVE  Stream \in Seq(Places) /\ Stream = qin \o wire /\ Len(Stream) \in Nat
           /\ said \in Seq(Say) /\ Len(said) \in Nat
BY DEF Carried, Stream

(* The steps of others that touch nothing under way.                        *)
LEMMA DamageQuiet ==
    ASSUME Damaged, Stream' = Stream, UNCHANGED <<said, got, hurt, typed>>,
           UNCHANGED <<state, msg_op, conn_id, buff_len, msg_buff>>
    PROVE  Damaged'
<1>1. PICK h, l, e, x : Struck(Stream, said, got, hurt, h, l, e, x) /\ (x # 0 => typed = 0)
  BY DEF Damaged
<1>2. PICK s, ms, g, hs : s = Stream /\ ms = said /\ g = got /\ hs = hurt
  OBVIOUS
<1>3. Struck(s, ms, g, hs, h, l, e, x)
  BY <1>1, <1>2
<1>4. Struck(s, ms, g, hs, h, l, e, x)'
  BY <1>3, TrackStays DEF Struck
<1>5. s = Stream' /\ ms = said' /\ g = got' /\ hs = hurt' /\ (x # 0 => typed' = 0)
  BY <1>1, <1>2
<1> QED
  BY <1>4, <1>5, DamagedNext

LEMMA DamageSay ==
    ASSUME WIInv, Spread, Damaged, NEW m \in Say, ModemSays(m)
    PROVE  Damaged'
<1>1. PICK h, l, e, x : Struck(Stream, said, got, hurt, h, l, e, x) /\ (x # 0 => typed = 0)
  BY DEF Damaged
<1>2. PICK s, ms, g, hs : s = Stream /\ ms = said /\ g = got /\ hs = hurt
  OBVIOUS
<1>3. PICK t, ns : t = Stream' /\ ns = said'
  OBVIOUS
<1>4. /\ UNCHANGED parserVars /\ UNCHANGED <<qin, got, typed, hurt>>
      /\ wire = <<>> /\ wire' = Bytes(m, Len(said) + 1) /\ said' = Append(said, m)
  BY DEF ModemSays, Bytes
<1>5. Carried /\ hurt \subseteq 0..Len(said)
  BY DEF WIInv, Spread
<1>6. /\ s \in Seq(Places) /\ t = s \o Bytes(m, Len(ms) + 1) /\ ns = Append(ms, m)
      /\ ms \in Seq(Say) /\ hs \subseteq 0..Len(ms)
  <2>1. s = qin /\ qin \in Seq(Places)
    BY <1>2, <1>4, <1>5 DEF Stream, Carried
  <2> QED
    BY <1>2, <1>3, <1>4, <1>5, <2>1 DEF Stream, Carried
<1>7. Struck(s, ms, g, hs, h, l, e, x)
  BY <1>1, <1>2
<1>8. UNCHANGED <<state, msg_op, conn_id, buff_len, msg_buff>>
  BY <1>4 DEF parserVars
<1>9. Saying(ms, m, s, ns, t)
  BY <1>6 DEF Saying
<1>10. \E f : Struck(t, ns, g, hs, h, l, f, x)'
  <2>1. ms \in Seq(Say) /\ s \in Seq(Places) /\ hs \subseteq 0..Len(ms)
    BY <1>6
  <2> QED
    BY <1>7, <1>8, <1>9, <2>1, StruckSay
<1>11. PICK f : Struck(t, ns, g, hs, h, l, f, x)'
  BY <1>10
<1>12. t = Stream' /\ ns = said' /\ g = got' /\ hs = hurt' /\ (x # 0 => typed' = 0)
  BY <1>1, <1>2, <1>3, <1>4
<1> QED
  BY <1>11, <1>12, DamagedNext

LEMMA DamageRead ==
    ASSUME WIInv, WIInv', Spread, Plain, Damaged, ParserTask
    PROVE  Damaged'
<1>1. PICK h, l, e, x : Struck(Stream, said, got, hurt, h, l, e, x) /\ (x # 0 => typed = 0)
  BY DEF Damaged
<1>2. PICK s, ms, g, hs : s = Stream /\ ms = said /\ g = got /\ hs = hurt
  OBVIOUS
<1>3. PICK t, ng, o, z : t = Stream' /\ ng = got' /\ o = out' /\ z = IF x = 0 THEN 0 ELSE x - 1
  OBVIOUS
<1>4. /\ qin # <<>> /\ qin' = Tail(qin) /\ ParseChar(Head(qin).c)
      /\ got' = IF Matters(out') THEN Append(got, [of |-> Head(qin).of, msg |-> out']) ELSE got
      /\ UNCHANGED <<wire, said, typed, hurt>>
  BY DEF ParserTask
<1>5. Carried /\ IInv /\ IInv' /\ hurt \subseteq 0..Len(said)
  BY DEF WIInv, Spread
<1>6. /\ s \in Seq(Places) /\ s # <<>> /\ s[1] = Head(qin) /\ t = Tail(s)
      /\ ms \in Seq(Say) /\ g \in Seq([of : Nat, msg : Msg]) /\ hs \subseteq 0..Len(ms)
  <2>1. qin \in Seq(Places) /\ wire \in Seq(Places)
    BY <1>5 DEF Carried
  <2>2. /\ Tail(qin \o wire) = Tail(qin) \o wire /\ qin \o wire \in Seq(Places)
        /\ qin \o wire # <<>> /\ (qin \o wire)[1] = Head(qin)
    BY <1>4, <2>1, TailOf
  <2>3. s = qin \o wire /\ t = qin' \o wire'
    BY <1>2, <1>3 DEF Stream
  <2>4. t = Tail(qin) \o wire
    BY <1>4, <2>3
  <2>5. ms \in Seq(Say) /\ g \in Seq([of : Nat, msg : Msg]) /\ hs \subseteq 0..Len(ms)
    BY <1>2, <1>5 DEF Carried
  <2> QED
    BY <2>2, <2>3, <2>4, <2>5, Zenon
<1>7. Struck(s, ms, g, hs, h, l, e, x)
  BY <1>1, <1>2
<1>8. ParseChar(s[1].c)
  BY <1>4, <1>6
<1>9. o \in Msg
  BY <1>3, <1>5 DEF IInv, TypeOK
<1>10. ng = Reported(g, s[1], o)
  BY <1>2, <1>3, <1>4, <1>6 DEF Reported
<1>11. Struck(t, ms, ng, hs, h, l, e, z)'
  <2>1. AllPlain
    BY PlainParts
  <2>2. IInv /\ IInv' /\ o = out'
    BY <1>3, <1>5
  <2>3. Struck(t, ms, ng, hs, h, l, e, IF x = 0 THEN 0 ELSE x - 1)'
    BY <1>6, <1>7, <1>8, <1>9, <1>10, <2>1, <2>2, StruckRead
  <2> QED
    BY <1>3, <2>3
<1>12. t = Stream' /\ ms = said' /\ ng = got' /\ hs = hurt' /\ (z # 0 => typed' = 0)
  BY <1>1, <1>2, <1>3, <1>4
<1> QED
  BY <1>11, <1>12, DamagedNext

(* What the line is like when the first byte is lost or typed.              *)
LEMMA DamageFirst ==
    ASSUME WIInv, Spread, hurt = {}, NEW s, s = Stream, NEW ms, ms = said, NEW g, g = got
    PROVE  /\ Struck(s, ms, g, {Len(ms)}, Len(ms), Len(ms), Len(ms) + 1, 0)
           /\ OnTrack(Spot(s, ms, 1), ms) /\ AllOwn(s)
<1>1. Carried /\ Flow(s, ms) /\ ParserAt(s, ms) /\ Relay(g, ms, Here(s, ms))
  BY DEF WIInv
<1>2. s \in Seq(Places) /\ ms \in Seq(Say)
  BY <1>1, StreamWell
<1>3. AllOwn(s)
  <2>1. /\ qin \in Seq(Places) /\ wire \in Seq(Places) /\ s = qin \o wire
        /\ AllOwn(qin) /\ \A k \in 1..Len(wire) : wire[k].own
    BY <1>1 DEF Spread, Carried, Stream
  <2>2. /\ Len(qin \o wire) = Len(qin) + Len(wire)
        /\ \A i \in 1..Len(qin) : (qin \o wire)[i] = qin[i]
        /\ \A i \in 1..Len(wire) : (qin \o wire)[Len(qin) + i] = wire[i]
    BY <2>1, Joined
  <2>3. Len(qin) \in Nat /\ Len(wire) \in Nat
    BY <2>1
  <2>4. ASSUME NEW k \in 1..(Len(qin) + Len(wire)) PROVE (qin \o wire)[k].own
    <3>1. CASE k <= Len(qin)
      <4>1. k \in 1..Len(qin)
        BY <2>3, <3>1
      <4> QED
        BY <2>1, <2>2, <4>1 DEF AllOwn
    <3>2. CASE ~(k <= Len(qin))
      <4>1. PICK i \in 1..Len(wire) : Len(qin) + i = k
        <5>1. k - Len(qin) \in 1..Len(wire) /\ Len(qin) + (k - Len(qin)) = k
          BY <2>3, <3>2
        <5> QED
          BY <5>1
      <4> QED
        BY <2>1, <2>2, <4>1
    <3> QED
      BY <3>1, <3>2
  <2> QED
    BY <2>1, <2>2, <2>4 DEF AllOwn
<1> QED
  BY <1>1, <1>2, <1>3, StruckFirst

LEMMA DamageLost ==
    ASSUME WIInv, Spread, Plain, hurt = {}, wire # <<>>, wire' = Tail(wire), Lose,
           UNCHANGED parserVars, UNCHANGED <<said, got, typed>>, lost' + typed' <= 1
    PROVE  Damaged'
<1>1. PICK s, ms, g : s = Stream /\ ms = said /\ g = got
  OBVIOUS
<1>2. PICK t, n, h, e : t = Stream' /\ n = Len(qin) /\ h = Len(ms) /\ e = Len(ms) + 1
  OBVIOUS
<1>3. /\ Carried /\ IInv
      /\ qin \in Seq(Places) /\ wire \in Seq(Places) /\ lost \in Nat /\ typed \in Nat
      /\ ms \in Seq(Say) /\ g \in Seq([of : Nat, msg : Msg])
  BY <1>1 DEF WIInv, Carried
<1>4. lost' = lost + 1 /\ hurt' = {Len(ms)} /\ qin' = qin
  BY <1>1 DEF Lose
<1>5. typed' = 0
  BY <1>3, <1>4
<1>6. Struck(s, ms, g, {Len(ms)}, Len(ms), Len(ms), Len(ms) + 1, 0)
      /\ OnTrack(Spot(s, ms, 1), ms) /\ AllOwn(s)
  BY <1>1, DamageFirst
<1>7. /\ Without(s, n, t) /\ s \in Seq(Places) /\ n \in 0..(Len(s) - 1)
      /\ s[n + 1] = wire[1]
  <2>1. /\ Without(qin \o wire, Len(qin), qin \o Tail(wire))
        /\ qin \o wire \in Seq(Places) /\ Len(qin) \in 0..(Len(qin \o wire) - 1)
        /\ (qin \o wire)[Len(qin) + 1] = wire[1]
    BY <1>3, Dropped
  <2>2. s = qin \o wire /\ t = qin \o Tail(wire)
    BY <1>1, <1>2, <1>4 DEF Stream
  <2> QED
    BY <1>2, <2>1, <2>2, Zenon
<1>8. s[n + 1].of = Len(ms)
  <2>1. 1 \in 1..Len(wire)
    BY <1>3
  <2>2. wire[1].of = Len(said)
    BY <2>1 DEF Spread
  <2> QED
    BY <1>1, <1>7, <2>2
<1>9. Struck(t, ms, g, {Len(ms)}, h, h, e, n)
  <2>1. AllPlain
    BY PlainParts
  <2>2. Struck(s, ms, g, {Len(ms)}, h, h, e, 0)
    BY <1>2, <1>6
  <2> QED
    BY <1>2, <1>3, <1>6, <1>7, <1>8, <2>1, <2>2, StruckDrop
<1>10. Struck(t, ms, g, {Len(ms)}, h, h, e, n)'
  <2>1. UNCHANGED <<state, msg_op, conn_id, buff_len, msg_buff>>
    BY DEF parserVars
  <2> QED
    BY <1>9, <2>1, TrackStays DEF Struck
<1>11. t = Stream' /\ ms = said' /\ g = got' /\ {Len(ms)} = hurt' /\ (n # 0 => typed' = 0)
  BY <1>1, <1>2, <1>4, <1>5
<1> QED
  BY <1>10, <1>11, DamagedNext

LEMMA DamageTyped ==
    ASSUME WIInv, Spread, Plain, hurt # {} => Damaged, ConsoleByte
    PROVE  Damaged'
<1>1. PICK s, ms, g, hs : s = Stream /\ ms = said /\ g = got /\ hs = hurt \cup {Len(said)}
  OBVIOUS
<1>2. PICK t, n, d : t = Stream' /\ n = Len(qin) /\ d = Slipped(Head(console))
  OBVIOUS
<1>3. /\ UNCHANGED parserVars /\ UNCHANGED <<wire, said, got, lost, typed>>
      /\ console # <<>> /\ qin' = IF HasRoom THEN Append(qin, d) ELSE qin
      /\ hurt' = hs
  BY <1>1, <1>2 DEF ConsoleByte
<1>4. /\ Carried /\ IInv
      /\ qin \in Seq(Places) /\ wire \in Seq(Places) /\ console \in Seq(Char)
      /\ ms \in Seq(Say) /\ Len(ms) \in Nat /\ typed \in Nat /\ typed >= 1
      /\ hurt \subseteq 0..Len(ms)
  BY <1>1, <1>3 DEF WIInv, Carried, Spread
<1>5. s \in Seq(Places) /\ Len(s) \in Nat /\ s = qin \o wire
  BY <1>1, <1>4, StreamWell
<1>6. \E gs, h, l, e : /\ Struck(s, ms, g, gs, h, l, e, 0) /\ gs \subseteq 0..Len(ms)
                       /\ gs \cup {Len(ms)} = hs
  <2>1. CASE hurt = {}
    <3>1. Struck(s, ms, g, {Len(ms)}, Len(ms), Len(ms), Len(ms) + 1, 0)
      BY <1>1, <2>1, DamageFirst
    <3>2. {Len(ms)} \subseteq 0..Len(ms) /\ {Len(ms)} \cup {Len(ms)} = hs
      BY <1>1, <1>4, <2>1
    <3> QED
      BY <3>1, <3>2
  <2>2. CASE hurt # {}
    <3>1. PICK h, l, e, x : Struck(Stream, said, got, hurt, h, l, e, x) /\ (x # 0 => typed = 0)
      BY <2>2 DEF Damaged
    <3>2. x = 0
      BY <1>4, <3>1
    <3>3. Struck(s, ms, g, hurt, h, l, e, 0)
      BY <1>1, <3>1, <3>2
    <3>4. hurt \cup {Len(ms)} = hs
      BY <1>1
    <3> QED
      BY <1>4, <3>3, <3>4
  <2> QED
    BY <2>1, <2>2
<1>7. PICK gs, h, l, e : /\ Struck(s, ms, g, gs, h, l, e, 0) /\ gs \subseteq 0..Len(ms)
                         /\ gs \cup {Len(ms)} = hs
  BY <1>6
<1>8. Struck(t, ms, g, hs, h, Len(ms), Len(ms) + 1, 0)
  <2>1. CASE HasRoom
    <3>1. d \in Places /\ ~d.own /\ d.c = Head(console)
          /\ d.of = (IF wire = <<>> THEN Len(ms) + 1 ELSE Head(wire).of)
          /\ d.at = (IF wire = <<>> THEN 1 ELSE Head(wire).at)
      <4>1. Head(console) \in Char /\ Len(said) + 1 \in Nat
        BY <1>1, <1>3, <1>4
      <4>2. wire # <<>> => Head(wire) \in Places
        BY <1>4
      <4> QED
        BY <1>1, <1>2, <4>1, <4>2 DEF Slipped, Slip, Places
    <3>2. d.c \in Harmless
      <4>1. \A k \in 1..Len(console) : console[k] \in Harmless
        BY PlainParts DEF Spread
      <4>2. Head(console) = console[1] /\ 1 \in 1..Len(console)
        BY <1>3, <1>4, TailElements
      <4> QED
        BY <3>1, <4>1, <4>2
    <3>3. With(s, n, d, t)
      <4>1. With(qin \o wire, Len(qin), d, Append(qin, d) \o wire)
        BY <1>4, <3>1, Inserted
      <4>2. t = Append(qin, d) \o wire
        BY <1>2, <1>3, <2>1 DEF Stream
      <4> QED
        BY <1>2, <1>5, <4>1, <4>2, Zenon
    <3>4. /\ n \in 0..Len(s) /\ d.of >= Len(ms)
          /\ d.of = Spot(s, ms, n + 1).of /\ d.at = Spot(s, ms, n + 1).at
      <4>1. Len(s) = n + Len(wire) /\ n \in Nat /\ Len(wire) \in Nat
        <5>1. Len(qin \o wire) = Len(qin) + Len(wire)
          BY <1>4, Joined
        <5> QED
          BY <1>2, <1>4, <1>5, <5>1
      <4>2. CASE wire = <<>>
        <5>1. ~(n + 1 <= Len(s))
          BY <4>1, <4>2
        <5>2. Spot(s, ms, n + 1).of = Len(ms) + 1 /\ Spot(s, ms, n + 1).at = 1
          BY <5>1 DEF Spot, Byte
        <5> QED
          BY <1>4, <3>1, <4>1, <4>2, <5>2
      <4>3. CASE wire # <<>>
        <5>1. s[n + 1] = wire[1]
          <6>1. (qin \o wire)[Len(qin) + 1] = wire[1]
            BY <1>4, <4>3, Dropped
          <6> QED
            BY <1>2, <1>5, <6>1
        <5>2. n + 1 <= Len(s) /\ 1 \in 1..Len(wire) /\ Head(wire) = wire[1]
          BY <1>4, <4>1, <4>3, TailElements
        <5>3. Spot(s, ms, n + 1) = wire[1]
          BY <5>1, <5>2 DEF Spot
        <5>4. wire[1].of = Len(ms)
          BY <1>1, <5>2 DEF Spread
        <5> QED
          BY <1>4, <3>1, <4>1, <4>3, <5>2, <5>3, <5>4
      <4> QED
        BY <4>2, <4>3
    <3>5. Struck(t, ms, g, gs \cup {Len(ms)}, h, Len(ms), Len(ms) + 1, 0)
      BY <1>4, <1>5, <1>7, <3>1, <3>2, <3>3, <3>4, StruckSlip
    <3> QED
      BY <1>7, <3>5
  <2>2. CASE ~HasRoom
    <3>1. t = s
      BY <1>1, <1>2, <1>3, <2>2 DEF Stream
    <3>2. Struck(s, ms, g, gs \cup {Len(ms)}, h, Len(ms), Len(ms) + 1, 0)
      BY <1>4, <1>5, <1>7, StruckLater
    <3> QED
      BY <1>7, <3>1, <3>2
  <2> QED
    BY <2>1, <2>2
<1>9. Struck(t, ms, g, hs, h, Len(ms), Len(ms) + 1, 0)'
  <2>1. UNCHANGED <<state, msg_op, conn_id, buff_len, msg_buff>>
    BY <1>3 DEF parserVars
  <2> QED
    BY <1>8, <2>1, TrackStays DEF Struck
<1>10. t = Stream' /\ ms = said' /\ g = got' /\ hs = hurt'
  BY <1>1, <1>2, <1>3
<1> QED
  BY <1>9, <1>10, DamagedNext

LEMMA DamageInit == WInit => DInv
<1> SUFFICES ASSUME WInit PROVE DInv
  OBVIOUS
<1>1. hurt = {}
  BY DEF WInit
<1> QED
  BY <1>1, WireInit, SpreadInit DEF DInv

LEMMA DamageStep == DInv /\ [WNext]_vars => DInv'
<1> SUFFICES ASSUME DInv, [WNext]_vars PROVE DInv'
  OBVIOUS
<1>1. /\ WIInv /\ Spread /\ Carried
      /\ Plain /\ lost + typed <= 1 /\ hurt # {} => Damaged
  BY DEF DInv, WIInv
<1>2. WIInv' /\ Spread'
  BY <1>1, WireStep, SpreadStep
<1>3. lost \in Nat /\ typed \in Nat /\ (hurt # {} => lost + typed >= 1)
  BY <1>1 DEF Carried, Spread
<1>4. SUFFICES ASSUME Plain, lost' + typed' <= 1, hurt' # {}
               PROVE  Damaged'
  BY <1>2 DEF DInv, Plain
<1>5. ASSUME NEW m \in Say, ModemSays(m) PROVE Damaged'
  <2>1. UNCHANGED <<lost, typed, hurt>>
    BY <1>5 DEF ModemSays
  <2> QED
    BY <1>1, <1>4, <1>5, <2>1, DamageSay
<1>6. ASSUME NEW l \in Typed, UserTypes(l) PROVE Damaged'
  <2>1. typed' = typed + 1 /\ UNCHANGED <<lost, hurt>>
    BY <1>6 DEF UserTypes
  <2> QED
    BY <1>3, <1>4, <2>1
<1>7. ASSUME wire # <<>>, wire' = Tail(wire), Lose, UNCHANGED parserVars,
             UNCHANGED <<said, got, typed>>
      PROVE  Damaged'
  <2>1. lost' = lost + 1
    BY <1>7 DEF Lose
  <2>2. hurt = {}
    BY <1>3, <1>4, <1>7, <2>1
  <2> QED
    BY <1>1, <1>4, <1>7, <2>2, DamageLost
<1>8. CASE RxByte
  <2>1. wire # <<>> /\ wire' = Tail(wire) /\ UNCHANGED parserVars /\ UNCHANGED <<said, got, typed>>
    BY <1>8 DEF RxByte
  <2>2. CASE HasRoom
    <3>1. qin' = Append(qin, Head(wire)) /\ UNCHANGED <<lost, hurt>>
      BY <1>8, <2>2 DEF RxByte
    <3>2. Append(qin, Head(wire)) \o Tail(wire) = qin \o wire
      BY <1>1, <2>1, Shifted DEF Carried
    <3>3. Stream' = Stream
      BY <2>1, <3>1, <3>2, Zenon DEF Stream
    <3>4. Damaged
      BY <1>1, <1>4, <2>1, <3>1
    <3> QED
      BY <2>1, <3>1, <3>3, <3>4, DamageQuiet DEF parserVars
  <2>3. CASE ~HasRoom
    BY <1>7, <1>8, <2>1, <2>3 DEF RxByte
  <2> QED
    BY <2>2, <2>3
<1>9. CASE RxError
  BY <1>7, <1>9 DEF RxError
<1>10. CASE ConsoleByte
  <2>1. UNCHANGED <<lost, typed>>
    BY <1>10 DEF ConsoleByte
  <2> QED
    BY <1>1, <1>4, <1>10, <2>1, DamageTyped
<1>11. CASE ParserTask
  <2>1. UNCHANGED <<lost, typed, hurt>>
    BY <1>11 DEF ParserTask
  <2> QED
    BY <1>1, <1>2, <1>4, <1>11, <2>1, DamageRead
<1>12. CASE ExecTakesLine
  <2>1. UNCHANGED wireVars /\ UNCHANGED <<state, msg_op, conn_id, buff_len, msg_buff>>
    BY <1>12 DEF ExecTakesLine, ConsumeReady
  <2>2. UNCHANGED <<qin, wire, said, got, hurt, lost, typed>>
    BY <2>1 DEF wireVars
  <2>3. Stream' = Stream /\ Damaged
    BY <1>1, <1>4, <2>2 DEF Stream
  <2> QED
    BY <2>1, <2>2, <2>3, DamageQuiet
<1>13. CASE UNCHANGED vars
  <2>1. UNCHANGED wireVars /\ UNCHANGED <<state, msg_op, conn_id, buff_len, msg_buff>>
    BY <1>13 DEF vars, parserVars
  <2>2. UNCHANGED <<qin, wire, said, got, hurt, lost, typed>>
    BY <2>1 DEF wireVars
  <2>3. Stream' = Stream /\ Damaged
    BY <1>1, <1>4, <2>2 DEF Stream
  <2> QED
    BY <2>1, <2>2, <2>3, DamageQuiet
<1> QED
  BY <1>5, <1>6, <1>8, <1>9, <1>10, <1>11, <1>12, <1>13 DEF WNext

LEMMA SpecDamage == WSpec => []DInv
<1> QED
  BY DamageInit, DamageStep, PTL DEF WSpec

(* The places DamageLocal names.                                            *)
EndsAt(ms, l, f) == /\ f \in (l + 1)..(Len(ms) + 1)
                    /\ \A i \in (l + 1)..(f - 1) : ms[i].kind = "prompt"
                    /\ f <= Len(ms) => ms[f].kind # "prompt"

LEMMA LocalOf ==
    ASSUME NEW ms \in Seq(Say), NEW s, NEW g, NEW hs, hs \subseteq 0..Len(ms),
           NEW h, NEW l, NEW e, NEW x, Struck(s, ms, g, hs, h, l, e, x)
    PROVE  /\ Min(hs) = h /\ Max(hs) = l
           /\ \A f \in 1..(Len(ms) + 1) : EndsAt(ms, l, f) <=> f = e
           /\ e \in 1..(Len(ms) + 1) /\ h \in 0..Len(ms)
<1>1. /\ h \in hs /\ l \in hs /\ \A y \in hs : h <= y /\ y <= l
      /\ e \in (l + 1)..(Len(ms) + 1)
      /\ \A i \in (l + 1)..(e - 1) : ms[i].kind = "prompt"
      /\ e <= Len(ms) => ms[e].kind # "prompt"
  BY DEF Struck
<1>2. \A y \in hs : y \in Nat
  OBVIOUS
<1>3. Min(hs) = h
  <2>1. \A y \in hs : (\A z \in hs : y <= z) => y = h
    BY <1>1, <1>2
  <2> QED
    BY <1>1, <2>1 DEF Min
<1>4. Max(hs) = l
  <2>1. \A y \in hs : (\A z \in hs : y >= z) => y = l
    BY <1>1, <1>2
  <2>2. \A z \in hs : l >= z
    BY <1>1, <1>2
  <2> QED
    BY <1>1, <2>1, <2>2 DEF Max
<1>5. Len(ms) \in Nat /\ l \in Nat /\ h \in Nat /\ e \in Nat /\ e \in 1..(Len(ms) + 1)
  BY <1>1
<1>6. ASSUME NEW f \in 1..(Len(ms) + 1), f \in (l + 1)..(Len(ms) + 1),
             \A i \in (l + 1)..(f - 1) : ms[i].kind = "prompt",
             f <= Len(ms) => ms[f].kind # "prompt"
      PROVE  f = e
  <2>1. ~(f < e)
    <3> SUFFICES ASSUME f < e PROVE FALSE
      OBVIOUS
    <3>1. f \in (l + 1)..(e - 1) /\ f <= Len(ms)
      BY <1>1, <1>5, <1>6
    <3> QED
      BY <1>1, <1>6, <3>1
  <2>2. ~(e < f)
    <3> SUFFICES ASSUME e < f PROVE FALSE
      OBVIOUS
    <3>1. e \in (l + 1)..(f - 1) /\ e <= Len(ms)
      BY <1>1, <1>5, <1>6
    <3> QED
      BY <1>1, <1>6, <3>1
  <2> QED
    BY <1>5, <2>1, <2>2
<1> QED
  BY <1>1, <1>3, <1>4, <1>5, <1>6 DEF EndsAt

(* On a line on which one byte is lost, or one line typed, whatever the     *)
(* messages (without the '+' and the digit that can pass for a header of a  *)
(* payload), only the messages hit, the prompts behind them and the next    *)
(* other message can be misreported; and nothing is reported out of its     *)
(* turn (parser.c:200-308).                                                 *)
THEOREM DamageIsLocal == WSpec => []DamageLocal
<1>1. DInv => DamageLocal
  <2> SUFFICES ASSUME DInv, Plain, lost + typed <= 1, hurt # {}
               PROVE  /\ AsSaid(1..(Min(hurt) - 1) \cup (DamageEnd + 1)..Len(said))
                      /\ \A j, k \in 1..Len(got) : j < k => got[j].of <= got[k].of
    BY DEF DamageLocal
  <2>1. Carried /\ hurt \subseteq 0..Len(said) /\ Damaged
    BY DEF DInv, WIInv, Spread
  <2>2. PICK h, l, e, x : Struck(Stream, said, got, hurt, h, l, e, x)
    BY <2>1 DEF Damaged
  <2>3. said \in Seq(Say) /\ Len(said) \in Nat /\ Stream \in Seq(Places)
    BY <2>1, StreamWell
  <2>4. /\ Min(hurt) = h /\ Max(hurt) = l /\ e \in 1..(Len(said) + 1)
        /\ h \in 0..Len(said)
        /\ \A f \in 1..(Len(said) + 1) : EndsAt(said, l, f) <=> f = e
    BY <2>1, <2>2, <2>3, LocalOf
  <2>5. DamageEnd = e
    <3>1. \A f \in 1..(Len(said) + 1) : EndsDamage(f) <=> f = e
      BY <2>4 DEF EndsDamage, EndsAt
    <3> QED
      BY <2>4, <3>1 DEF DamageEnd
  <2>6. PICK b : b = Spot(Stream, said, 1)
    OBVIOUS
  <2>7. /\ RelayOn(got, said, b, Kept(h, e)) /\ Rough(Stream, said, x, h, e)
    BY <2>2, <2>6 DEF Struck
  <2>8. b.of \in Nat
    <3>1. Somewhere(b, said)
      BY <2>1, <2>2, <2>3, <2>6, StruckWhere
    <3> QED
      BY <2>3, <3>1 DEF Somewhere
  <2>9. \A i \in 1..(Min(hurt) - 1) \cup (DamageEnd + 1)..Len(said) :
           i \in Kept(h, e) /\ i \in 1..Len(said)
    BY <2>3, <2>4, <2>5 DEF Kept
  <2>10. PICK I : I = 1..(Min(hurt) - 1) \cup (DamageEnd + 1)..Len(said)
    OBVIOUS
  <2>11. ASSUME NEW i \in I, Matters(Meaning(said[i])), ~UnderWay(i)
         PROVE  Delivered(i)
    <3>1. i \in Kept(h, e) /\ i \in 1..Len(said) /\ i \in Nat /\ i <= Len(said)
      BY <2>3, <2>9, <2>10
    <3>2. ~(b.of <= i)
      BY <2>6, <2>7, <2>11, <3>1 DEF Rough, Covers, UnderWay
    <3>3. i < b.of
      BY <2>8, <3>1, <3>2
    <3> QED
      BY <2>7, <2>11, <3>1, <3>3 DEF RelayOn, Delivered, DeliveredIn
  <2>12. AsSaid(I)
    BY <2>7, <2>9, <2>10, <2>11 DEF RelayOn, AsSaid
  <2> QED
    BY <2>7, <2>10, <2>12 DEF RelayOn
<1> QED
  BY <1>1, SpecDamage, PTL
=============================================================================
