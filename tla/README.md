# An SSH/SFTP server on a microcontroller: verification project

The repository is firmware for an STM32F103: an SSH server with an SFTP
subsystem, reached over Wi-Fi through an ESP8266 that is driven with AT commands
over a serial line. There is no TCP stack on the chip: connections, their data
and their ends are lines of text from the modem.

```
 SSH client ~~~ ESP8266 --USART3--> receive interrupt --> queue --> parser task
                   ^                                              |     |      |
                   |                                     atc_peri_state |  conn_recv[5]
                   |                                          atc_sendres   atc_conn_preacc
                   +--- atc_exec <--- sock_send/sock_close <--- sshd task <----+
                                                     sshd_acpt: handshake, sftp_parse
                                                                        |
                                                                FatFS on an SD card
```

All names below are those of the source; paths are relative to `src/`.

## Inventory

| Component | State | Operations | What makes it correct |
|---|---|---|---|
| UART receive path (`User/user_init/init_usart1.c`) | queue of bytes; `CR1`, `CR3`, the handle's `RxState` | receive and error interrupts of USART3; console bytes are put in the same queue | reception is never left off; a byte lost or inserted costs few messages |
| UART transmit (`atc_send` in `User/esp/exec.c`, `HAL_UART_Transmit_IT`, its interrupts and callback) | `gState`, `TxXferCount`, the semaphore `m_esp8266_senddone`, the buffers | send a piece and wait for its end | each piece goes out whole, once, from a buffer nobody changes |
| AT answer parser (`User/esp/parser.c`) | `state`, `msg_op`, `conn_id`, `buff_len`, `msg_buff`, `atc_peri_state` | `atc_parse_char` per byte, `atc_dispatch` per message | payload bytes are never read as messages; bounds; it always resynchronises; the line is marked busy exactly inside a message |
| AT command executor (`User/esp/exec.c`) | `atc_peri_state`, `atc_sendres`, locals of `atc_exec` | wait for the line, write, wait for OK, wait for the prompt, write the payload, wait for SEND OK, retry per chunk | a command ends; an answer is credited to its command; success means the modem took every chunk |
| Socket layer (`User/esp/espsock.c`) | `conn_state`, `conn_recv`, `esk_recv_buff`, `atc_conn_preacc` | `sock_accept`, `sock_recv`, `sock_send`, `sock_close` | a connection is a byte stream; what arrived before its end is read; nothing leaks from one user of an id to the next |
| Byte strings (`vstr_t` in `User/types/vo.c`) | length, reserved size, block | reserve, add, clear, make a C string | what is in them stays in the block, the block within `VO_STRMAX` |
| SSH payloads (`payload_encode`, `payload_decode` in `User/ssh/packet.c`) | position in the message | a field at a time | nothing outside the message is read; the fields are what the bytes say |
| SSH packets (`User/ssh/packet.c`) | sequence numbers | `recv_packet`, `recv_packet_enc`, `send_packet_enc`, `payload2packet` | both sides count alike; padding is legal; what is sent is accepted |
| SSH session (`User/ssh/acpt_loop.c`, `s1_`..`s4_*.c`) | `ssh_context`, the stage | one exchange per stage, then `sftp_parse` in a loop | no stage is skipped; a disconnection anywhere ends the session; a goodbye ends it |
| SFTP server (`User/ssh/sftp_parse.c`) | `dpch_*`, `chnldat`, `last_*`; FatFS objects | `sftp_dispatch` per byte, `sftp_dispatch_spkt`, `continue_write` | packets are cut exactly; files hold what was written; one reply per request; handles name live objects |
| sshd task (`Task/tcp_sshd_task.c`) | – | accept, serve, close, for ever | |
| not modelled | | the tree of variant objects (`vo_t`), cryptography, `sftp_task.c` (never started), echo and blink tasks, start-up and peripherals, formatting; vendored Drivers, FreeRTOS, FatFS, IOLibrary; `User/wiz` (unused) | |

Interactions. The *interrupt* gives bytes to the *parser task* through a queue
that drops when full. The parser task and the *sshd task* share
`atc_peri_state` (who owns the serial line), the one-place queue `atc_sendres`
(answers to commands), `conn_recv[i]` (payloads, the parser **blocks** when one is
full), `atc_conn_preacc` and `conn_state`. The sshd task runs commands itself
(`atc_exec` is called from `sock_send` and `sock_close`), the executor task and
its queue exist but no caller uses them. `atc_exec` hands every piece of a command
to the *transmit interrupt* and waits for its semaphore; both interrupts and the task
change bits of one control register.

What is hard here: two tasks test and set one variable to share a half-duplex
line; every wait for the modem can time out while the answer is on its way;
connections are identified by five reusable ids; the parser can be blocked while
it owns the line the other task needs; the end of a connection overtakes the
reading of its data; sequence numbers and encrypted framing depend on counting
packets that were sent before encryption; SFTP packets larger than the heap
allows are handled in pieces with state kept between them.
`PROJECT.json` lists these hazards one by one, with the line where each bites.

## Modules

| Module | Models | Composed with |
|---|---|---|
| `EspParser` | `atc_parse_char`, byte by byte, every state; `ConsumeReady` is the executor's take-over of the line | |
| `MCEspParser` | all byte strings over a small alphabet | EXTENDS `EspParser` |
| `EspWire` | modem → interrupt → queue → parser, with loss and console bytes; what is reported is compared with what the modem said | EXTENDS `EspParser` |
| `MCEspWire` | the messages said: an OK, a prompt, a connection opening and closing, a payload that contains an answer and newlines, a payload that is a prompt | EXTENDS `EspWire` |
| `AtLink` | `atc_exec` and the parser's dispatch against a modem that answers, refuses, is late and reports out of turn | |
| `ByteStream` | what a connection promises: the bytes read are a growing prefix of those sent | abstract |
| `EspSock` | the socket layer and the dispatch of connection messages, sshd task against parser task | INSTANCE `ByteStream` |
| `SftpDispatch` | `sftp_dispatch`: the stream cut into packets and chunks | abstract for `SftpServer` |
| `SftpServer` | every SFTP command, `continue_write`, sessions, FatFS and a pipelining client | EXTENDS `SftpDispatch`, implements its `DSpec` |
| `MCSftpServer` | addresses as interchangeable model values (symmetry) | EXTENDS `SftpServer` |
| `SshSession` | `sshd_acpt` and its stages, sealed packets, disconnections | |
| `SshPacket` | lengths and padding in a packet | |
| `Uart` | `atc_send`, the interrupt handler of USART3, the HAL's interrupt-driven calls and their callbacks, against the clock and the line | below `AtLink` (which writes a chunk in one step) and `EspWire` (which loses bytes as `Uart` may) |
| `Vstr` | `vstr_t`: an operator per function | |
| `Payload` | `payload_encode` and `payload_decode`, a step per field, and a path made of what was decoded | EXTENDS `Vstr`, `SshPacket` |
| `MCPayload` | the fields messages are made of | EXTENDS `Payload` |
| `EspParserProofs`, `EspDamageProofs`, `AtLinkProofs`, `UartProofs`, `EspSockProofs`, `SshSessionProofs`, `PayloadProofs`, `SftpServerProofs` | theorems | EXTEND their modules; `EspParserProofs` EXTENDS `EspWire` (and so `EspParser`), `EspDamageProofs` EXTENDS `EspParserProofs`; `PayloadProofs` covers `SshPacket` too, `SftpServerProofs` the dispatcher `SftpDispatch` |

How state and actions correspond to the code:

* `EspParser`: the variables are the parser's statics (`peri` is
  `atc_peri_state`, `out` what the last call dispatched); there is one action per
  `case` of the switch, and `Goto` is the common tail of the function that
  gives the line back and notifies. `Char` holds the characters the code tells
  apart and a set of others (`Junk`). The keyword table is the chain of `strncmp`.
* `EspWire`: `Encode` (external) writes a message the way the ESP8266 does.
  `RxByte` and `RxError` are the two HAL callbacks; a byte that finds the queue
  full is lost, as `xQueueSendFromISR`'s result is ignored. A byte carries its place, the
  number of the message it belongs to and its position there (a typed one that of the byte it slipped in front of), for the properties only: `heard` is
  the message of the last byte parsed that is not a newline, an entry of `got` names the message
  whose last byte made the parser report. `Sayable` are the messages considered: lines that begin
  with a letter, prompts, reports of connections and of payloads within the parser's bounds.
* `AtLink`: `pc` follows `atc_exec`; each wait is an action that takes what it
  waited for or gives up. Messages are one value each: `ParserBegin` is their
  first byte (from which the line is busy), the `Dispatch` actions their last. The
  test and set of `atc_peri_state` is one step because the sshd task has the
  higher priority (`user_init.c:78-102`). `late` counts the timeouts that
  came while the answer was on its way; the answers' `for` field is read by
  properties only. A report about a connection goes to a queue of the sockets, and the parser waits
  for a place there without end: of these queues `AtLink` knows whether there is a place (`full`), `DispatchConn` waits for
  it, and only `ReadConn` makes it, between two commands (`EspSock` has the queues themselves).
* `EspSock`: `pc` follows the calls of the sshd task, which reads and sends in any
  order and size. `sock_recv` is split at its queue wait (`RecvStart`,
  `RecvEnough`, `RecvMore`, `RecvPop`), `sock_send` and `sock_close` at the wait for the
  line. A byte is named by the connection's incarnation and its position, and a report of the
  modem by its incarnation, again for the properties only. `DispatchRecv` and `Announce` block on a full queue,
  keeping the line. `Connect` notes in `excuse` when an id is taken while the server still deals
  with its last user (`"retaken"`) or holds bytes read ahead of it (`"leftover"`).
* `SftpDispatch`/`SftpServer`: one action per byte, by what the byte triggers; `Spkt`
  is `sftp_dispatch_spkt`, with one operator per command, and `replies` is what
  `send_status` and the other senders produce. Handles are addresses, as in the
  code, and addresses are reused by `Allocate` as `malloc` may. `FilObj`, `DirObj`,
  `SeekWrite` and `Fails` stand for FatFS: a write after the end of a file leaves a
  gap, an operation may fail once (`MaxFault`), `f_write` may then have written a part.
* `SshSession`: `stage` is the position in `sshd_acpt`; each stage is one or
  two reads. A packet is two halves (length, rest) because the code reads it so, and the
  modem may deliver them in one payload or two. A cipher is the sequence number it
  was used with: opening with another number makes the tag differ. A failed
  assertion never returns (`log.h:35-44`), which is the stage `stuck`. `done` is the flag through which all stages report:
  `Takes` and `Fails` set it, `Outcome` is the test `sshd_acpt` makes after each stage, and as in the code nothing resets it
  between two stages but the line after the exchange of KEXINITs. `send_ecdh_reply` does not set it and runs on what the stage
  before left (a success). A packet of the client carries its number and whether it is sealed; the messages
  with which the server went on are in `accepted`.
* `Uart`: `rxf`, `dr`, `full`, `shifting`, `cr1`, `eie` are what the code touches of
  the hardware's registers; `gState`, `rxState`, `left`, `txbuf` are the handle. `pc` follows
  `atc_send` through `HAL_UART_Transmit_IT`, whose change of `CR1` is two steps (`tmp`
  is the value read). `piece` is the part of a command line, with the buffer it is sent from. A
  `Tick` is the time the line takes for one unit of data and for one unit of the wait;
  the handler runs between any two steps of the task, and a byte may come in while it runs
  (`isr`).
* `Vstr`, `Payload`: a string is its length, reserved size and block, an assertion that fails is
  `ok = FALSE`. A step takes one field. The callers of the sealed stages pass the
  whole packet from its second byte on: `data` then holds the payload, the padding, and one
  byte that was never received. The size of a byte (`BASE`) and of a string (`STRMAX`)
  are parameters, so that the wrap of a `uint32_t` and the limit come within reach of a run.

## Runs

Every run ends well within five minutes with two workers.

| Run | Shows | Bounds, and why they are enough |
|---|---|---|
| `parser_open` | Under *every* byte string the parser keeps its bounds (`PayloadBound`, `RecvBound`), owns the line exactly inside a message (`LineOwner`), and is idle again and again if newlines keep coming (`Recovers`). | ten characters that reach every branch; `OP_MAXLEN` 9 is the longest operation plus one, after four free characters the rest is one filler letter; `BUFF_MAXLEN` 2 and `ID_MAX` 2 put both bounds within reach of the digits 0 and 2 |
| `wire` | Undisturbed, nothing is reported that was not said, each message once, in order, from its own bytes, and none is missing once no byte of it is under way (`Framing`); a prompt is held out only while, newlines apart, it is the last thing read (`PromptReal`). With one lost byte, error or console line the damage is the messages hit, prompts behind them, and the next message: all others are reported as said, and nothing else is reported before the former or after the latter (`DamageLocal`, which excludes messages that can pass for the header of a payload, `Plain`; those of the run cannot). | three messages: the damaged one, the one that resynchronises, one that must be intact; a queue of one byte so that it overflows |
| `uart` | The receiver is never left off (`Listening`), a fault costs one byte more at most and order is kept (`LossBounded`), pieces that fit the wait go out whole (`SentWhole`) and from a buffer nobody has changed (`SentTrue`), every send ends (`SendEnds`); no deadlock. | `WAIT_TICKS` 4 with payloads of 3 (fits) and 5 (does not) and pieces of 1, two chunks after each other; three bytes and two faults, so that a fault hits the byte after a fault |
| `uart_long` | *Violation*: a chunk longer than the wait makes the HAL refuse the pieces after it. | every payload is 5 units, nothing comes in |
| `link` | No wrong answer is credited while nothing is late, reported or refused (`ResultMatch`), and after one late answer the executor is one answer behind, never more (`OneBehind`). A success means that every chunk was taken, as long as nothing is late and there was at most one refusal or report (`SendReliable`). The line is marked busy exactly inside a message (`LineOwner`). A command ends, or waits for ever for a line held by a parser that found a queue full, which does happen in the run (`CommandEnds`). | four commands, so that a stray answer can be taken two commands later; two chunks; two disturbances (`MaxTrouble`), each a late answer, a report, a payload or a refusal, at any moment: two payloads are needed for the parser to hold the line |
| `link_ok_first` | *Violation*: payload is sent although CIPSEND was refused. | one command suffices |
| `sock_once` | Two connections used once: refinement of `ByteStream` (`ImplementsStream`). At a close the bytes queued can still be read, and those read ahead, which are lost, are the only ones lost (`OnlyReadAheadLost`). A sender waiting for the line gets it, or waits for ever because the parser holds it at a full queue (`LineComesFree`): both happen in the run. | a queue of one payload, so that the second finds it full; payloads of two bytes, reads of one and three end inside, at and across them. The other full queue, `conn_preaccepted`, is modelled as well but would need three connections |
| `sock_reuse` | One id taken three times at any moment: order (`InOrder`), one accept per connection (`EachAcceptedOnce`), bytes of two connections meet only if the id was taken while still in use or bytes were left over (`OwnBytes`), and the only buffers lost are those of a connection whose id was taken again (`NoLeak`). | three incarnations |
| `payload` | Whatever a peer announces, nothing outside the message is read (`FieldInside`); the fields decoded are those the bytes spell, and a message of the program's own comes back as it was, plain or sealed (`Faithful`); strings stay in their blocks and C strings end (`StringSound`). | messages of three fields out of every kind, with strings of no, one and two bytes; every byte string of nine bytes over {0, 2}; `BASE` 3 makes a `uint32_t` wrap at 81, `STRMAX` 20 makes three strings hit the limit as they grow by half |
| `sftp_session` | All commands, pipelined: `Aligned`, `Bounded`, `Pieces` (cutting), `FilesExact` and `ContinueOwn` (writes in pieces), `HandlesLive`, `OneReply`, and refinement of `SftpDispatch` (`DSpec`). | chunk of 5 with packets of 0 to 10 bytes: below, at, above one chunk and at two; two sessions, one fault, two addresses so that they are reused |
| `ssh_session` | A client that sends IGNOREs, asks for something else, leaves or is cut off between any two halves of packets: `ClientOpens`, `StuckOnlyAlone`, `NoShortcut`, `HashedKexinit`, `GoodbyeEnds`. | one IGNORE anywhere, one data message, then a goodbye |
| `ssh_tag` | *Violation*: a disconnection makes the server verify a tag over memory it never received. | no optional message at all |

`CHECK_DEADLOCK FALSE` is set where the bounds let the environment fall silent, and
where the server may wait for a client that has nothing more to say. `uart` checks it.

Every property is known to be able to fail: `PROJECT.json` pairs each with a small change of a
mapped definition (marked `\* mutant` in the modules) under which TLC finds it violated.

## Fairness

* Parser and executor (`AtLink`, `EspSock`): weak fairness of each task.
  Both tasks are FreeRTOS tasks that block only on queues and delays; the one with
  higher priority blocks in every loop (the polls of `atc_exec` are delays), so the other one runs whenever it can. A
  parser blocked at a full queue cannot run, and no fairness helps it: what it then does not do is part of the properties.
* Modem: weak fairness of answering what was written (it does finish its lines). It
  need not report anything out of turn, and no peer need send or close.
* `Uart`: the clock runs, pending interrupts are served, and a task inside `atc_send` runs when it
  can. No byte need come in, and no command need be started.
* `SshSession`: the server's step, and the delivery of what the client sent. Nothing is
  assumed of the client.
* `Recovers` assumes only that newlines are parsed again and again, in the property itself.

## Proofs

What the theorems assume are the named assumptions on the constants; TLC evaluates them in every run.
Each invariant below was checked by TLC on the run's instance before it was proved.

**`EspParserProofs`**, the parser: for all `OP_MAXLEN`, `BUFF_MAXLEN`, `ID_MAX` (only `ParserAssumption`,
in `EspParser`) and all byte strings `Spec` implies `[]TypeOK`, `[]LineOwner`, `[]PayloadBound` and
`[]RecvBound`. None but the second is inductive. The inductive invariant is

    IInv == TypeOK /\ LineOwner /\ PayloadBound /\ RecvBound /\ Numbers

`Numbers` says how far each number has grown in the states that read or use it: a
payload state is entered with an id below `ID_MAX`, an announced length within
`BUFF_MAXLEN` and an empty buffer, which `RecvBound` needs; a connection line has a
one-digit id and an operation of at most eight letters, which `TypeOK` needs for the
next digit or letter. The proof has a lemma per action (one step per `case` of the
code), lemmas on the digits and on the messages they dispatch, and a temporal step.

**`EspParserProofs`**, the wire: `[]Framing` and `[]PromptReal` for every set of `Sayable` messages, every length of
the queue and every interleaving of modem, interrupt and parser. The bytes under way (the queue and the
wire, `Stream`) are followed from the modem to the report:

    WIInv == /\ IInv /\ Carried
             /\ Undisturbed => hurt = {} /\ console = <<>>
             /\ hurt = {} => /\ Flow(Stream, said)
                             /\ ParserAt(Stream, said)
                             /\ Relay(got, said, Here(Stream, said))
             /\ PromptReal

`Flow`: each byte under way is the one at its place of its message, the next one has the next place, the last one ends
the last message, so nothing is lost or moved. `ParserAt`: the parser's state is the one that the bytes of the
first message under way read so far lead to, or the one between messages. `Relay`: the reports so far are those of the
messages before that place. The step needs, per kind of message, that one byte more takes the parser one place further
and that only the last one reports (`MessageReads`), where reading a number needs that the digits of its
first places are the number divided (`ValueGrows`): lengths have up to four digits (`BUFF_MAXLEN` below 10000; 2048 in
the code). A payload may contain any characters: inside it the parser counts.

**`EspDamageProofs`**: `[]DamageLocal`, for every set of messages and lines typed, any length of the queue and any number
of messages. The condition `Plain` is not a convenience. What is left of a damaged message is read from anywhere, and if it
passes for the header of a payload that never comes, or if a lost `:` lets a length run on into the payload's digits, the
parser swallows up to `BUFF_MAXLEN` bytes of later messages. This needs a `+` in a text or a payload, a payload
that begins with a digit, or a digit, `+` or `:` typed. The invariant is

    DInv == WIInv /\ Spread /\ (Plain /\ lost + typed <= 1 /\ hurt # {} => Damaged)

`Damaged` says that there are a first and a last message hit, `h` and `l`, a message `e` that sets the parser right, and a
place `x` such that (`Struck`):

* `Rough`: the bytes under way are those said, each followed by the next, but for one hole at `x` or for typed bytes slipped
  in between, of messages from `h` to `e` only. A hole and typed bytes never meet, as only one of the two happens.
* `RelayOn`: of the messages before `h` and after `e`, the reports so far are those due at the next byte; no report is out
  of its turn.
* `OnTrack`: the parser is where the next byte calls for. Or the hole or a typed byte has been read and (`OffTrack`) the parser is lost: then
  it is `Astray`, in a state that takes for a header only what is one, as far as it has come, and waits for no more bytes of
  a payload than the message has left, or one more. A place inside a message is `Astray` as well once the next byte is missing
  or a typed one comes (`InsideAstray`, `AstrayTyped`), every byte keeps it so (`AstrayOwn`), and the first byte
  of a line or of a payload's header, or the newline of a connection report, ends it (`Resync`). A prompt has none of these.

**`AtLinkProofs`**: `[]LineOwner` for any number of commands, late answers,
reports and refusals. Inductive is `LineInv`: `LineOwner` with the types of what is on the
wires, above all that the parser is never "inside" a prompt or a blank line. `[]ResultMatch` needs
more: `Step` lists, for each `pc` of `atc_exec`, what may be under way, namely one command, or one
answer somewhere between the modem and the queue, with at most the prompt behind it, and
silence when the executor waits for nothing. Every wait is shown to end with its
answer, because a timeout before it would be late (`NotYet`).

`[]SendReliable` allows one refusal or report, and that may put the executor out of step for the rest of the session.
Answers can no longer be listed by position; they are counted between queue and line (`None`, `One(t)`, `Two(t, u)`),
with lemmas that the parser takes them along, that the modem adds one behind and that the executor takes the first. The
invariant `Where` says that the line is in one of three conditions:

* `InStep`: nothing is under way but what the executor waits for, and the chunks counted as done are those taken.
* `Astray`: a report hid a prompt and the modem still waits for a payload, so that it swallows the next command line; or
  a payload was written to a modem that does not wait for one. Then the first answer was no OK, so there is no success.
* `Behind`: one answer too many, from a payload misread as two lines, is under way, and each later command reads the
  answer before its own. Where it waits for SEND OK it reads OK, so it reports an error although the chunk may have been
  taken. That it does not fall back into step by giving up early needs that the prompt is seen (`PromptComes`).

The last two are reached by a disturbance only (`Spent`). A second one could add an answer more, and
for two the property is false.

**`UartProofs`**: for every length of pieces, every wait and any bytes and faults `[]TypeOK`,
`[]Listening`, `[]SentWhole`, `[]SentTrue` and `[]LossBounded`. The inductive invariant is

    IInv == TypeOK /\ RxInv /\ TxInv /\ RxBytes /\ RxOrder /\ SendInv

`RxInv` says that reception is on in the register and in the copy of it the task may be about to write
back, which `Listening` alone does not; `TxInv` ties the enabled interrupt to what is left to
send, `SendInv` adds that a piece that fits is out before its wait is over, by comparing the ticks
left with the units left; `RxBytes` and `RxOrder` count what arrived, was lost and was queued.

**`EspSockProofs`**: for any number of ids, incarnations, payloads and sizes, `[]EachAcceptedOnce`, `[]NoLeak`, `[]InOrder`,
`[]OwnBytes` and `[]OnlyReadAheadLost`, and the refinement of `ByteStream`. The invariants build on each other:

* `Alternation`: for each id, the reports on the line alternate between a connection's begin and its end, the first
  fits what the parser believes (`conn_state`) and the last what the modem does. `Numbered`: nothing speaks of an
  incarnation not yet made. `EachAcceptedOnce` follows, with the connections between line and accept queue in order.
* `PiecesOrdered`: along queue and line the payloads of an id come in the order sent, and were sent. `BytesOrdered`
  carries this over to what was read ahead and what was read, which is `InOrder`. `LeakFree` is
  `NoLeak` said of each allocated buffer: about to be queued, queued, or of an earlier incarnation.
* `OneUser`: as long as no id was taken too early (`Clean`, that is `excuse = {}`), of each id one connection at most is on
  its way to the server or served, and it is the latest. `Chain`: what the peer of that one sent
  is, in this order and without a gap, read, read ahead, queued and on the line. `OwnBytes` follows; and
  when `sock_recv` reports the end, nothing is left in queue or line (`Drained`), so that what was not read is in `recv_buff`: `OnlyReadAheadLost`.
* A step then leaves `ByteStream`'s variables alone or is one of its actions (`StreamImplemented`, under `[]Clean`). With each id
  connected once, `Clean` always holds (`StreamOnce`), which is what `sock_once` checks.

**`SftpServerProofs`**, the dispatcher: for every chunk size, every set of packet lengths and
any number of packets and sessions `DSpec` implies `[]Aligned`, `[]Bounded` and
`[]Pieces`, the properties the run `sftp_session` checks. Its inductive invariant adds
that in the payload `dpch_cnt` is the calls made times `CHUNK` plus what is collected, and
that what is collected are the bytes after the last piece; the code tests
`dpch_cnt % CHUNK = 0`, so the argument rests on a lemma that this remainder is the number
of bytes collected.

**`SftpServerProofs`**, the server: the refinement, `Spec => DSpec`, for every set of requests: a step
simulation over the server's actions, with the one invariant that the requests sent have lengths
`DSpec` allows. `[]Pieces` carries over to the server. `[]ContinueOwn`, `[]HandlesLive`, `[]OneReply` and `[]FilesExact` hold
for every set of names, addresses, offsets and lengths, any number of requests under way, faults of FatFS
at any moment, and sessions. The invariant is

    SInv == DInv /\ Sent /\ WellFormed /\ Current /\ Resumes /\ HandleInv /\ ReplyInv /\ FileInv

* `Resumes` says what later pieces rely on: a packet longer than a chunk begins with `last_cmd_write`
  cleared, only its own first piece sets it, and `last_offs` keeps up with the bytes handed over.
* `HandleInv`: the client pipelines, so a handle is good not because its object is there now but
  because the client still holds it or a CLOSE of it comes later (`Backed`), each address is freed by one
  CLOSE under way at most (`ClosedOnce`), and that names the object as it is (`Genuine`). This is needed as
  addresses are used again.
* `ReplyInv`: the answers are those of the requests looked at, in order.
* `FileInv`: each file, unless a fault or a lost object touched it, holds what whole writes in the order of
  requests would make it (`Contents`), except that of the write in progress it holds the pieces handed
  over (`SoFar`). That writing pieces one behind the other is writing at once is a lemma on `WriteAt` (`WriteAtTwice`); a file
  being removed is not open (`Removals`).

**`SshSessionProofs`**: for any number of messages and IGNOREs, and a client or a link that
goes away at any moment, `[]ClientOpens`, `[]StuckOnlyAlone`, `[]NoShortcut` and `[]HashedKexinit`.
For the first the invariant counts: the k-th packet on
its way to the client carries no number or the one the client will have reached (`Numbered`),
and while the connection is up the packets sent are 0, 1, 3 or the server's own count,
depending on the stage (`Counted`). After a disconnection the count runs ahead, which is
harmless only because a connection found gone never comes back (`Linked`).

The others need the other direction: which packet does the server read when it awaits a message, and with which number?

    OInv == Scripted /\ Reads /\ Ordered /\ Hashed /\ Trail /\ StuckOnlyAlone

Each half of a packet has a place in the client's stream, from its packet's number. `Ordered` says that what is read ahead,
queued and on its way has consecutive places, beginning with the one the server awaits (`Pos`, from its stage and count) and
ending with the last the client sent, until a read is refused (`Served`). Once a read was refused all are; then a packet
opened is memory never received, so only a server left alone fails its assertion for good.

`Fair` says what the packet at a place is. Without an early IGNORE its number gives its type. An IGNORE sent before the keys
moves what is behind it: the stage of the KEXINIT or of the ECDH_INIT may take it for its message (the first looks at
nothing, the second at the form only), but the NEWKEYS then has a number above 2 and is not what the third packet is, so
that this stage fails and the session ends. `Trail` puts it together: `accepted` is the beginning of `Order` that the stage
calls for, where the stages of the exchange are claimed for no early IGNORE only, and the sealed ones always. A refused
KEXINIT leaves no trace, but the ECDH_INIT after it is refused too, and that stage reports it.

**`PayloadProofs`**: `[]FieldInside` and `[]StringSound` for every message, every base and
every limit of strings that is small against the wrap (`PayloadAssumption`; in the code
35000 and 131071 against 2^32). The two need each other: a length that makes the sum
`pos + len` wrap passes the check of `payload_decode`, but is then longer than a string may be, and the
assertion of `vbuff_iadd` stops it before a byte is copied; below that limit the check is
exact (`CheckExact`). For packets, and every payload length: the padding
`payload2packet` adds is legal and aligns the packet (the assertion at `packet.c:429` cannot
fail), and `recv_packet` accepts every packet so built and finds its payload.

`[]Faithful`: what was decoded is what the bytes say, and a message of the program's own comes back as it was.

    FInv == IInv /\ Encoding /\ Taken /\ Own /\ Peer

`Encoding` says that the string holds the encoding of the fields added so far, `Taken` that the fields taken encode to
the bytes before `pos`, `Own` that a message of the program's own starts with the encoding of its fields (a packet's
padding may follow) and that those taken are its first ones. The argument has three parts. Numbers go there and back
(`NumberBack`, `DigitsBack`). What is added to a string comes behind its content, whatever growing did to the block
(`Added`, `EncodedAdds`). The bytes of a field are found where the fields before it end (`Located`), and each field has at
least one, so that the message is decoded to its end. `WireAll` is a recursive function; that it exists and depends only on
the fields it reads (`RecurExists`, `RecurAgrees`) is proved from the least length for which it would not (`Least`), as the
library's induction theorems cannot be used here.

Every refinement and every invariant the runs check is a theorem, but for `OneBehind`, which is model-checked only: the argument
that one late answer shifts the others by one at most would be a third one of the size of `Behind`. Liveness (`Recovers`, `SendEnds`,
`CommandEnds`, `LineComesFree`, `GoodbyeEnds`) is model-checked only too: it rests on fairness and `ENABLED`, which the provers do not reach.

## What the code does differently from what it says

Three runs show a disagreement (`link_ok_first`, `uart_long`, `ssh_tag`).
Others were seen while modelling and shape the statements of the properties:

* A first digit above `ID_MAX` is accepted as a connection id (`parser.c:103`; the comment at
  `:26` says it is restricted). The modem has five connections.
* An erroneous sequence ends at a newline only (`parser.c:303`), the comment at `:24` also
  names a space.
* A payload for a connection whose queue is full, or a connection for which `conn_preaccepted` has no place, stops the
  parser in `xQueueSend` with `portMAX_DELAY` (`parser.c:406, 419`) while `atc_peri_state` is 4. If the sshd task then
  wants to send or to close, `atc_consume_cmd_ready` polls for as long as it is 4 (`exec.c:243-245`): both tasks wait for
  each other and the server is dead. `LineComesFree` and `CommandEnds` name this as the one way not to end; the runs reach it.
* A close loses what was read ahead: `is_sock_conn` looks at `conn_state` and the queue, not at `esk_recv_buff`
  (`espsock.c:27-35`), and `sock_recv` refuses with ENOTCONN (`:134`) although bytes are left there. A reader that takes a payload
  in parts, as `recv_packet` does, loses the last part when the client closes behind it.
* An answer that comes after its timeout is taken by the next command (`exec.c:57`), and the executor stays one answer
  behind (`OneBehind`). Two such answers can turn a lost chunk into a success. `ResultMatch` and `SendReliable` exclude late answers.
  A refusal or a report that hides a prompt leaves answers out of step as well, as the payload that
  follows is answered with errors. Two of them can put the answers two out of step, and then the OK and
  the SEND OK of one command pass for the next one's: `SendReliable` allows one.
* A chunk may have 1024 bytes (`exec.h:14`), but the 1000 ms of `atc_send` carry 960 at 9600 baud
  (`initors.h:20`): the pieces after a longer chunk are refused by the HAL and never sent.
* `sock_close` returns before it clears anything when the client has gone (`espsock.c:200`): what was read
  ahead stays for the next connection with that id, the exception `OwnBytes` names.
* A WRITE to a directory is answered with an error and then again with a status (`sftp_parse.c:420`).
* READDIR builds its reply without regard to the channel's maximum packet (`sftp_parse.c:521-541`).
* The sealed stages decode a payload that includes the padding and one byte that was never received
  (`s4_openchnl.c:21` and its like); the fields before it are not affected (`Faithful`).
* `payload_decode` returns fewer fields without an error when the message is too short.
* `VO_STRMAX` is 131071, its comment says 1<<20, and `vstr_reserve` fails its assertion already at two
  thirds of it, because it checks the grown size. `vstr_copy` of an empty string would leave the copy
  unterminated; nothing calls it so.
* The channel window of 33554432 bytes is announced once (`packet_def.c:106`) and never replenished. The code
  keeps no count of it, so there is no state to check: a client that respects it stalls in a long session.
* When an id is taken again, `xQueueReset` (`parser.c:405`) drops payloads that are never freed.
  `NoLeak` says that no other buffer is lost.
* A `sock_recv` that has passed its check waits without a timeout (`espsock.c:178`); if the client
  goes away then, the server waits for ever and serves nobody else.
* The loop of `sshd_acpt` looks only at the modem's state (`acpt_loop.c:103`), so requests
  queued when the client closes are dropped.
* `consume_kexinit` decodes the context's memory, not the packet (`s1_kexinit.c:100` passes
  `&ctx->i_c.data`). The fields behind it are zero at that moment, so a KEXINIT of the usual length decodes
  to empty lists.
* REALPATH is not answered when `f_getcwd` fails (`sftp_parse.c:603`).
* `continue_write` ignores errors, prints its error messages on success
  (`sftp_parse.c:728-739`), and the client has been told OK with the first piece.
* Handles left open when a session ends are neither closed nor freed.

## Abstractions to keep in mind

* FatFS is external; writing to an object that is a directory is denied. An object whose `f_close` fails is
  not freed (`sftp_parse.c:305-310`) although its handle is gone: the model counts it as `lost`.
* The SFTP client is well formed and uses only handles it was given.
* The SSH client follows the protocol's order; a rekey is only asked for once it is done.
* A length opened with a wrong sequence number could also fail `assert(len < 35000)`; the model
  lets the tag decide.
* In `Uart` a command is the six pieces of a CIPSEND with its payload; other commands are fewer of
  the same pieces. Interrupts are served within the tick they come in.
* `SshSession` sees the socket layer as one connection: `EspSock` shows that it may, as long as its
  id is not taken again meanwhile.

## Not modelled, and why

* *Cryptography* (`User/crypto`): functions of bytes without states of their own; what the protocol needs of
  them is the number a packet was sealed with.
* *FreeRTOS, FatFS, CMSIS and IOLibrary, the HAL beyond the interrupt-driven UART*: vendored and generated, by far
  the most of the repository's lines (register definitions, code pages, drivers never linked). What the program
  relies on of them (queues, semaphores, priorities, file calls) appears where it is used.
* *`vo_t`, the tree of variant objects*: a container; messages are sequences of fields.
* *Start-up and peripherals*: clocks, pins, the creation of the tasks. The priorities set there are
  assumptions of `AtLink` and of the fairness.
* *Echo and blink tasks, `sftp_task.c`, `User/wiz`*: demonstrations, a task that nothing starts, unused experiments.
* *The commands of `sock_init`*: five commands without payload, as `AtLink` has them, repeated until they succeed.
* *The arithmetic of the key exchange* and the exact fields of each message: the session takes a message as its type.

## What could follow

The order was parser, wire, link, sockets, SFTP, session, UART, payloads, each proved where the prover reaches. Every
safety property of the runs is now proved. What remains is to widen the models: `DamageLocal` with two disturbances, and
the fields of the handshake messages with the key exchange as uninterpreted functions.
