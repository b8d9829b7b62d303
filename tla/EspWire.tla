------------------------------ MODULE EspWire ------------------------------
(***************************************************************************)
(* The serial line between the ESP8266 and the parser task.                *)
(*                                                                         *)
(* The modem (external) says one message at a time; its bytes reach the    *)
(* receive interrupt (init_usart1.c, HAL_UART_RxCpltCallback), which puts  *)
(* them in the queue m_esp8266_qin or drops them when it is full; a byte   *)
(* with a line error goes to HAL_UART_ErrorCallback and is lost.  Bytes    *)
(* typed at the console (USART1) enter the same queue.  The parser task    *)
(* (parser.c, atc_parser_loop) takes the bytes out one by one.             *)
(*                                                                         *)
(* A byte carries, for the properties only, its place: the number in said  *)
(* of the message it is part of and its position there.  A byte from the   *)
(* console has the place of the byte it slipped in front of.               *)
(***************************************************************************)
EXTENDS EspParser, FiniteSetsExt

CONSTANTS
    Say,          \* messages the modem can say
    Typed,        \* lines typed at the console
    QLEN,         \* depth of m_esp8266_qin (256 in the code)
    MaxSaid,      \* bound: messages said
    MaxDamage     \* bound: bytes lost and console lines typed, together

VARIABLES
    wire,     \* bytes of the current message still to be received
    console,  \* bytes of the current console line still to be received
    qin,      \* m_esp8266_qin
    said,     \* history: messages the modem has begun to say
    got,      \* history: messages given to atc_dispatch, each with the one it was read from
    heard,    \* history: the message of the last byte parsed that is no newline
    lost,     \* history: bytes lost
    typed,    \* history: console lines begun
    hurt      \* history: which message was being said when a byte was lost or typed

wireVars == <<wire, console, qin, said, got, heard, lost, typed, hurt>>
vars     == <<parserVars, wireVars>>

-----------------------------------------------------------------------------
CrLf == <<"cr", "lf">>

(* A number of up to four digits, in decimal. *)
Width(n)     == IF n < 10 THEN 1 ELSE IF n < 100 THEN 2 ELSE IF n < 1000 THEN 3 ELSE 4
Leading(n, k) == n \div <<1000, 100, 10, 1>>[4 - Width(n) + k]
NumChars(n)  == [k \in 1..Width(n) |-> DigitChar[(Leading(n, k) % 10) + 1]]

(* The bytes of a message, as the modem writes them (read_esp8266.md).     *)
Encode(m) ==
    CASE m.kind = "line"    -> CrLf \o m.text \o CrLf
      [] m.kind = "prompt"  -> <<">", "blank">>
      [] m.kind = "connect" -> NumChars(m.id) \o <<"comma">> \o ConnectOp \o CrLf
      [] m.kind = "closed"  -> NumChars(m.id) \o <<"comma">> \o ClosedOp \o CrLf
      [] m.kind = "ipd"     -> CrLf \o IpdOp \o <<"comma">> \o NumChars(m.id) \o <<"comma">>
                               \o NumChars(Len(m.data)) \o <<":">> \o m.data

(* What the rest of the program should be told of a message.  Lines that   *)
(* are no report of AtLink's interest (parse errors, hints) count as none.  *)
Meaning(m) ==
    CASE m.kind = "line"    -> LineMsg(m.text)
      [] m.kind = "prompt"  -> NoMsg
      [] m.kind = "connect" -> Accepted(m.id)
      [] m.kind = "closed"  -> Closed(m.id)
      [] m.kind = "ipd"     -> Recv(m.id, m.data)

Matters(d) == d.type \in {"atc_ok", "atc_error", "atc_send_ok", "atc_send_fail",
                          "atc_conn_accepted", "atc_conn_closed", "atc_conn_recv"}

(* The messages the modem is taken to say: lines that begin with a letter,  *)
(* prompts, and reports of connections and of data that exist.              *)
Sayable(m) ==
    \/ /\ m \in [kind : {"line"}, text : Seq(Char \ Newline)]
       /\ m.text # <<>> /\ m.text[1] \in Letter
    \/ m \in [kind : {"prompt"}]
    \/ m \in [kind : {"connect", "closed"}, id : 0..(ID_MAX - 1)]
    \/ /\ m \in [kind : {"ipd"}, id : 0..(ID_MAX - 1), data : Seq(Char)]
       /\ Len(m.data) \in 1..BUFF_MAXLEN

(* A length has four digits at most (2048 in the code, parser.h); none of   *)
(* the other characters is one the parser tells apart.                      *)
ASSUME WireAssumption ==
    /\ QLEN \in Nat /\ MaxSaid \in Nat /\ MaxDamage \in Nat
    /\ BUFF_MAXLEN < 10000
    /\ Junk \cap (Letter \cup Digit \cup Newline \cup Space \cup {"+", "comma", ":", ">"}) = {}
    /\ \A m \in Say : Sayable(m)
    /\ Typed \subseteq Seq(Char)

Byte(c, i, a) == [c |-> c, of |-> i, at |-> a, own |-> TRUE]
Slip(c, i, a) == [c |-> c, of |-> i, at |-> a, own |-> FALSE]
Places == [c : Char, of : Nat, at : Nat, own : BOOLEAN]

-----------------------------------------------------------------------------
WInit ==
    /\ Init
    /\ wire = <<>> /\ console = <<>> /\ qin = <<>> /\ said = <<>> /\ got = <<>>
    /\ heard = 0 /\ lost = 0 /\ typed = 0 /\ hurt = {}

ModemSays(m) ==
    /\ wire = <<>> /\ Len(said) < MaxSaid
    /\ wire' = [a \in 1..Len(Encode(m)) |-> Byte(Encode(m)[a], Len(said) + 1, a)]
    /\ said' = Append(said, m)
    /\ UNCHANGED <<parserVars, console, qin, got, heard, lost, typed, hurt>>

UserTypes(l) ==
    /\ console = <<>> /\ lost + typed < MaxDamage
    /\ console' = l /\ typed' = typed + 1
    /\ UNCHANGED <<parserVars, wire, qin, said, got, heard, lost, hurt>>

HasRoom      == Len(qin) < QLEN

Lose ==
    /\ lost + typed < MaxDamage /\ lost' = lost + 1
    /\ hurt' = hurt \cup {Len(said)}
    /\ UNCHANGED qin

(* HAL_UART_RxCpltCallback on USART3; xQueueSendFromISR on a full queue     *)
(* drops the byte.                                                          *)
RxByte ==
    /\ wire # <<>> /\ wire' = Tail(wire)
    /\ IF HasRoom
       THEN qin' = Append(qin, Head(wire)) /\ UNCHANGED <<lost, hurt>>
       ELSE Lose
    /\ UNCHANGED <<parserVars, console, said, got, heard, typed>>

(* The same callback on USART1: console bytes enter the same queue, where   *)
(* the modem has got to in its message or before its next one.              *)
Slipped(c) == IF wire = <<>> THEN Slip(c, Len(said) + 1, 1)
              ELSE Slip(c, Head(wire).of, Head(wire).at)

ConsoleByte ==
    /\ console # <<>> /\ console' = Tail(console)
    /\ qin' = IF HasRoom THEN Append(qin, Slipped(Head(console))) ELSE qin
    /\ hurt' = hurt \cup {Len(said)}
    /\ UNCHANGED <<parserVars, wire, said, got, heard, lost, typed>>

(* HAL_UART_ErrorCallback: the byte is read away and reception re-armed. *)
RxError ==
    /\ wire # <<>> /\ wire' = Tail(wire)
    /\ Lose
    /\ UNCHANGED <<parserVars, console, said, got, heard, typed>>

(* atc_parser_loop *)
ParserTask ==
    /\ qin # <<>> /\ qin' = Tail(qin)
    /\ ParseChar(Head(qin).c)
    /\ got' = IF Matters(out') THEN Append(got, [of |-> Head(qin).of, msg |-> out']) ELSE got
    /\ heard' = IF Head(qin).c \in Newline THEN heard ELSE Head(qin).of
    /\ UNCHANGED <<wire, console, said, lost, typed, hurt>>

ExecTakesLine ==
    /\ ConsumeReady
    /\ UNCHANGED wireVars

WNext ==
    \/ \E m \in Say : ModemSays(m)
    \/ \E l \in Typed : UserTypes(l)
    \/ RxByte \/ ConsoleByte \/ RxError \/ ParserTask \/ ExecTakesLine

WSpec == WInit /\ [][WNext]_vars

-----------------------------------------------------------------------------
WTypeOK ==
    /\ TypeOK
    /\ wire \in Seq(Places) /\ console \in Seq(Char)
    /\ qin \in Seq(Places) /\ Len(qin) <= QLEN
    /\ said \in Seq(Say) /\ Len(said) <= MaxSaid
    /\ got \in Seq([of : Nat, msg : Msg]) /\ heard \in Nat
    /\ lost \in 0..MaxDamage /\ typed \in 0..MaxDamage
    /\ hurt \subseteq 0..MaxSaid

Undisturbed == lost = 0 /\ typed = 0

(* What is still under way to the parser, and what it has been told of. *)
Stream       == qin \o wire
UnderWay(i)  == \E k \in 1..Len(Stream) : Stream[k].of = i
Delivered(i) == \E k \in 1..Len(got) : got[k].of = i

(* Of the messages I the program is told exactly what the modem said: each  *)
(* is reported once, in order, from its own bytes, and as soon as its last  *)
(* byte has been parsed.                                                    *)
AsSaid(I) ==
    /\ \A k \in 1..Len(got) : got[k].of \in I => got[k].msg = Meaning(said[got[k].of])
    /\ \A j, k \in 1..Len(got) :
          j < k /\ got[j].of \in I /\ got[k].of \in I => got[j].of < got[k].of
    /\ \A i \in I : Matters(Meaning(said[i])) /\ ~UnderWay(i) => Delivered(i)

(* On an undisturbed line all messages are reported as said and nothing is  *)
(* invented, so that no payload, whatever it contains (newlines, prompts,   *)
(* the text of an answer), is taken for an answer (parser.c, all of         *)
(* atc_parse_char).                                                         *)
Framing ==
    Undisturbed => /\ \A k \in 1..Len(got) : got[k].of \in 1..Len(said)
                   /\ AsSaid(1..Len(said))

(* The parser holds out a prompt only while, newlines apart, a prompt is    *)
(* the last thing it has read: a '>' inside a payload or a line is not one, *)
(* and a prompt is withdrawn by whatever follows it (parser.c:95-98).       *)
PromptReal ==
    Undisturbed /\ peri = WONNA =>
        heard \in 1..Len(said) /\ said[heard].kind = "prompt"

(* Where a message is damaged, the rest of it can read as anything.  If it  *)
(* reads as the header of a payload that is never sent, or if the length in *)
(* a header grows, the parser swallows what is said long after.  That needs *)
(* a text or a payload with a '+', a payload that begins with a digit, or a *)
(* digit, '+' or ':' typed.                                                 *)
Plain ==
    /\ \A m \in Say : /\ m.kind = "line" => \A k \in 1..Len(m.text) : m.text[k] # "+"
                      /\ m.kind = "ipd" => /\ \A k \in 1..Len(m.data) : m.data[k] # "+"
                                           /\ m.data[1] \notin Digit
    /\ \A l \in Typed : \A k \in 1..Len(l) : l[k] \notin Digit \cup {"+", ":"}

(* Otherwise damage stays local.  When a byte is lost, or a line typed at   *)
(* the console slips in, only the messages it hits, the prompts behind them *)
(* and the next message that is no prompt (a prompt has no newline to       *)
(* resynchronise at) can be misreported: the messages before and all later  *)
(* ones are reported as said, and nothing else is reported before the       *)
(* former or after the latter (parser.c:200-308).                           *)
EndsDamage(e) ==
    /\ e \in (Max(hurt) + 1)..(Len(said) + 1)
    /\ \A i \in (Max(hurt) + 1)..(e - 1) : said[i].kind = "prompt"
    /\ e <= Len(said) => said[e].kind # "prompt"

DamageEnd == CHOOSE e \in 1..(Len(said) + 1) : EndsDamage(e)

DamageLocal ==
    Plain /\ lost + typed <= 1 /\ hurt # {} =>
        /\ AsSaid(1..(Min(hurt) - 1) \cup (DamageEnd + 1)..Len(said))
        /\ \A j, k \in 1..Len(got) : j < k => got[j].of <= got[k].of
=============================================================================
