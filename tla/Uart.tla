-------------------------------- MODULE Uart --------------------------------
(***************************************************************************)
(* USART3 between the executor and the modem: atc_send (User/esp/exec.c),   *)
(* the interrupt handler and the interrupt-driven calls of the HAL          *)
(* (stm32f1xx_hal_uart.c) and their callbacks (User/user_init/              *)
(* init_usart1.c).                                                          *)
(*                                                                         *)
(* Three processes: the executor, the interrupt handler, which a task never *)
(* interrupts, and the hardware.  One Tick of the clock is the time the     *)
(* line needs for one unit of data; the executor waits WAIT_TICKS ticks for  *)
(* its bytes to be out.  Interrupts are served within the tick they come in.    *)
(* At USER_UART3_SPEED the 1000 ms of atc_send are 960 bytes, fewer than    *)
(* ATC_SEND_CHUNK_SIZE.                                                     *)
(***************************************************************************)
EXTENDS Naturals, Sequences

CONSTANTS
    WAIT_TICKS, \* ticks atc_send waits for its bytes
    Short,      \* length of a piece of a command line
    Chunk,      \* lengths of the payloads that are sent
    MaxByte,    \* bound: bytes the modem sends
    MaxFault    \* bound: bytes received garbled, unread in time, or with no room

ASSUME UartAssumption ==
    /\ WAIT_TICKS \in Nat \ {0} /\ Short \in Nat \ {0} /\ Chunk \subseteq Nat \ {0}
    /\ MaxByte \in Nat /\ MaxFault \in Nat

VARIABLES
    rxf,       \* receive flags of SR: subset of {"RXNE", "ORE", "ERR"}
    dr,        \* the byte in the receive data register
    full,      \* the transmit data register holds a unit (TXE is clear)
    shifting,  \* a unit is going out
    cr1,       \* interrupts enabled in CR1
    eie,       \* CR3_EIE
    gState,    \* transmit state of the handle
    rxState,   \* receive state of the handle
    left,      \* TxXferCount
    txbuf,     \* the buffer pTxBuffPtr points into
    isr,       \* "out", or "error" between UART_Receive_IT and the error callback
    sem,       \* m_esp8266_senddone
    pc,        \* where the executor is
    piece,     \* the piece of the command it is at
    len,       \* length of this chunk's payload
    tmp,       \* the copy of CR1 __HAL_UART_ENABLE_IT is changing
    wait,      \* ticks left of the wait for sem
    same,      \* history: txbuf still holds what was to be sent
    torn,      \* history: other bytes than those to be sent went out
    long,      \* history: a piece too long for the wait was sent
    dropped,   \* history: a piece was not sent at all
    arrived,   \* history: bytes that came from the modem
    got,       \* history: those put in m_esp8266_qin, in order
    faults     \* history: garbled, unread in time, no room

line  == <<full, shifting>>
txHandle == <<gState, left, txbuf>>
rx    == <<rxf, dr, arrived, got, faults>>
task  == <<pc, piece, len, tmp, wait, dropped, long>>
vars  == <<rx, line, cr1, eie, txHandle, rxState, isr, sem, task, same, torn>>

-----------------------------------------------------------------------------
(* A chunk of a CIPSEND: five pieces of command line and the payload, from  *)
(* a literal, from ibuff, or from the caller's buffer (exec.c:119-137).     *)
PAYLOAD == 6
BufOf(k) == CASE k \in {1, 3, 5} -> "literal" [] k \in {2, 4} -> "ibuff" [] OTHER -> "payload"
LenOf(k) == IF k = PAYLOAD THEN len ELSE Short

Init ==
    /\ rxf = {} /\ dr = 0 /\ full = FALSE /\ shifting = FALSE
    /\ cr1 = {"RXNEIE"} /\ eie = TRUE
    /\ gState = "READY" /\ left = 0 /\ txbuf = "literal" /\ rxState = "BUSY_RX"
    /\ isr = "out" /\ sem = 0
    /\ pc = "idle" /\ piece = 1 /\ len = 0 /\ tmp = {} /\ wait = 0
    /\ same = TRUE /\ torn = FALSE /\ long = FALSE /\ dropped = FALSE
    /\ arrived = 0 /\ got = <<>> /\ faults = 0

-----------------------------------------------------------------------------
(* The hardware (external). *)

Fault == faults < MaxFault /\ faults' = faults + 1

(* A byte has come in; unread, the one before stays and this one is lost.   *)
ByteArrives ==
    /\ arrived < MaxByte /\ arrived' = arrived + 1
    /\ \/ "RXNE" \in rxf /\ Fault /\ rxf' = rxf \cup {"ORE"} /\ UNCHANGED dr
       \/ "RXNE" \notin rxf /\ rxf' = rxf \cup {"RXNE"} /\ dr' = arrived' /\ UNCHANGED faults
       \/ "RXNE" \notin rxf /\ Fault /\ rxf' = rxf \cup {"RXNE", "ERR"} /\ dr' = arrived'
    /\ UNCHANGED <<line, cr1, eie, txHandle, rxState, isr, sem, task, got, same, torn>>

(* What HAL_UART_IRQHandler finds to do.                                    *)
Errors     == rxf \cap {"ORE", "ERR"}
RxPending  == "RXNE" \in rxf /\ "RXNEIE" \in cr1
ErrPending == Errors # {} /\ (eie \/ "RXNEIE" \in cr1)
TxePending == ~full /\ "TXEIE" \in cr1
TcPending  == ~full /\ ~shifting /\ "TCIE" \in cr1
Pending    == isr # "out" \/ RxPending \/ ErrPending \/ TxePending \/ TcPending

Waiting  == pc = "take" /\ sem = 0
TimeIsUp == Waiting /\ wait = 0

Tick ==
    /\ ~Pending /\ ~TimeIsUp /\ (shifting \/ Waiting)
    /\ shifting' = (shifting /\ full) /\ full' = FALSE
    /\ wait' = IF Waiting THEN wait - 1 ELSE wait
    /\ UNCHANGED <<rx, cr1, eie, txHandle, rxState, isr, sem, pc, piece, len, tmp,
                   long, dropped, same, torn>>

-----------------------------------------------------------------------------
(* The interrupt handler. *)

(* HAL_UART_Receive_IT: only when no reception is going on.                 *)
RearmNever(st, cr, ei) ==                                \* mutant
    rxState' = st /\ cr1' = cr /\ eie' = ei
Rearm(st, cr, ei) ==
    IF st = "READY" THEN rxState' = "BUSY_RX" /\ cr1' = cr \cup {"RXNEIE"} /\ eie' = TRUE
                    ELSE rxState' = st /\ cr1' = cr /\ eie' = ei

(* UART_Receive_IT of the one byte asked for, then HAL_UART_RxCpltCallback:  *)
(* the byte is queued if there is room, and the reception started anew.     *)
ReceiveByteIfSound ==                                    \* mutant
    /\ \/ Errors = {} /\ got' = Append(got, dr) /\ UNCHANGED faults
       \/ Errors # {} /\ UNCHANGED <<got, faults>>
       \/ Fault /\ UNCHANGED got
    /\ Rearm("READY", cr1 \ {"RXNEIE"}, FALSE)
    /\ UNCHANGED <<arrived, dr>>
ReceiveByte ==
    /\ \/ got' = Append(got, dr) /\ UNCHANGED faults
       \/ Fault /\ UNCHANGED got
    /\ Rearm("READY", cr1 \ {"RXNEIE"}, FALSE)
    /\ UNCHANGED <<arrived, dr>>

IrqRx ==
    /\ isr = "out" /\ Errors = {} /\ RxPending
    /\ ReceiveByte /\ rxf' = {}
    /\ UNCHANGED <<line, txHandle, isr, sem, task, same, torn>>

(* The same, with a byte that ends just between the read of SR and that of  *)
(* DR: it is lost, and ORE is set with RXNE clear.                          *)
OverrunWhileRead ==
    /\ isr = "out" /\ Errors = {} /\ RxPending /\ arrived < MaxByte /\ Fault
    /\ arrived' = arrived + 1 /\ got' = Append(got, dr) /\ rxf' = {"ORE"}
    /\ Rearm("READY", cr1 \ {"RXNEIE"}, FALSE)
    /\ UNCHANGED <<dr, line, txHandle, isr, sem, task, same, torn>>

(* An error: the byte in DR is received all the same; with none there the   *)
(* overrun aborts the transfer (UART_EndRxTransfer).                        *)
IrqError ==
    /\ isr = "out" /\ ErrPending /\ isr' = "error"
    /\ \/ RxPending /\ ReceiveByte /\ rxf' = {}
       \/ /\ ~RxPending /\ "ORE" \in rxf
          /\ rxState' = "READY" /\ cr1' = cr1 \ {"RXNEIE"} /\ eie' = FALSE
          /\ UNCHANGED rx
    /\ UNCHANGED <<line, txHandle, sem, task, same, torn>>

ErrorCallbackBlind ==                                    \* mutant
    /\ isr = "error" /\ isr' = "out" /\ UNCHANGED rxf
    /\ Rearm(rxState, cr1, eie)
    /\ UNCHANGED <<dr, arrived, got, faults, line, txHandle, sem, task, same, torn>>
(* HAL_UART_ErrorCallback: whatever is in DR is thrown away.                *)
ErrorCallback ==
    /\ isr = "error" /\ isr' = "out" /\ rxf' = {}
    /\ Rearm(rxState, cr1, eie)
    /\ UNCHANGED <<dr, arrived, got, faults, line, txHandle, sem, task, same, torn>>

TxIrq == isr = "out" /\ ~ErrPending /\ ~RxPending

IrqTxeNoEnd ==                                           \* mutant
    /\ TxIrq /\ TxePending /\ gState = "BUSY_TX"
    /\ shifting' = TRUE /\ full' = shifting
    /\ left' = left - 1 /\ torn' = (torn \/ ~same)
    /\ cr1' = IF left = 1 THEN cr1 \ {"TXEIE"} ELSE cr1
    /\ UNCHANGED <<rx, eie, gState, txbuf, rxState, isr, sem, task, same>>
(* UART_Transmit_IT: the next unit; after the last, wait for its end.       *)
IrqTxe ==
    /\ TxIrq /\ TxePending /\ gState = "BUSY_TX"
    /\ shifting' = TRUE /\ full' = shifting
    /\ left' = left - 1 /\ torn' = (torn \/ ~same)
    /\ cr1' = IF left = 1 THEN (cr1 \ {"TXEIE"}) \cup {"TCIE"} ELSE cr1
    /\ UNCHANGED <<rx, eie, gState, txbuf, rxState, isr, sem, task, same>>

(* UART_EndTransmit_IT and HAL_UART_TxCpltCallback.                         *)
IrqTc ==
    /\ TxIrq /\ ~TxePending /\ TcPending
    /\ cr1' = cr1 \ {"TCIE"} /\ gState' = "READY" /\ sem' = 1
    /\ UNCHANGED <<rx, line, eie, left, txbuf, rxState, isr, task, same, torn>>

-----------------------------------------------------------------------------
(* The executor. *)

(* A buffer is written while the interrupt is still sending from it.        *)
Rewrites(bs) == same' = (same /\ ~(gState = "BUSY_TX" /\ txbuf \in bs))

Start ==
    /\ isr = "out" /\ pc = "idle" /\ pc' = "put" /\ piece' = 1
    /\ len' \in Chunk
    /\ UNCHANGED <<rx, line, cr1, eie, txHandle, rxState, isr, sem, tmp, wait,
                   long, dropped, same, torn>>

(* What follows a piece: the modem's answer, or the next piece, for which   *)
(* itoa fills ibuff.                                                        *)
Advance ==
    IF piece \in {5, PAYLOAD}
    THEN pc' = (IF piece = 5 THEN "answer" ELSE "answer2") /\ UNCHANGED <<piece, same>>
    ELSE pc' = "put" /\ piece' = piece + 1 /\ Rewrites({BufOf(piece + 1)} \cap {"ibuff"})

(* HAL_UART_Transmit_IT: a transmission that is not over refuses the next.  *)
Accepts == gState = "READY"

Transmit ==
    /\ isr = "out" /\ pc = "put" /\ Accepts
    /\ gState' = "BUSY_TX" /\ left' = LenOf(piece) /\ txbuf' = BufOf(piece)
    /\ same' = TRUE /\ tmp' = cr1 /\ pc' = "enable"
    /\ long' = (long \/ LenOf(piece) >= WAIT_TICKS)
    /\ UNCHANGED <<rx, line, cr1, eie, rxState, isr, sem, piece, len, wait, dropped, torn>>

(* HAL_BUSY: the piece is not sent and not waited for.                      *)
Drop ==
    /\ isr = "out" /\ pc = "put" /\ ~Accepts /\ dropped' = TRUE /\ Advance
    /\ UNCHANGED <<rx, line, cr1, eie, txHandle, rxState, isr, sem, len, tmp, wait, long, torn>>

(* The second half of CR1 |= TXEIE.                                         *)
EnableNoWait ==                                          \* mutant
    /\ isr = "out" /\ pc = "enable" /\ Advance
    /\ cr1' = tmp \cup {"TXEIE"}
    /\ UNCHANGED <<rx, line, eie, txHandle, rxState, isr, sem, len, tmp, wait,
                   long, dropped, torn>>
Enable ==
    /\ isr = "out" /\ pc = "enable" /\ pc' = "take" /\ wait' = WAIT_TICKS
    /\ cr1' = tmp \cup {"TXEIE"}
    /\ UNCHANGED <<rx, line, eie, txHandle, rxState, isr, sem, piece, len, tmp,
                   long, dropped, same, torn>>

TakeKept ==                                              \* mutant
    /\ isr = "out" /\ pc = "take" /\ sem = 1 /\ UNCHANGED sem /\ Advance
    /\ UNCHANGED <<rx, line, cr1, eie, txHandle, rxState, isr, len, tmp, wait,
                   long, dropped, torn>>
Take ==
    /\ isr = "out" /\ pc = "take" /\ sem = 1 /\ sem' = 0 /\ Advance
    /\ UNCHANGED <<rx, line, cr1, eie, txHandle, rxState, isr, len, tmp, wait,
                   long, dropped, torn>>

Timeout ==
    /\ isr = "out" /\ TimeIsUp /\ Advance
    /\ UNCHANGED <<rx, line, cr1, eie, txHandle, rxState, isr, sem, len, tmp, wait,
                   long, dropped, torn>>

(* The modem's answers or their timeouts are AtLink's: the payload follows  *)
(* or not, another chunk follows or not.                                    *)
Answered ==
    /\ isr = "out" /\ pc = "answer"
    /\ \/ pc' = "put" /\ piece' = PAYLOAD
       \/ pc' = "done" /\ UNCHANGED piece
    /\ UNCHANGED <<rx, line, cr1, eie, txHandle, rxState, isr, sem, len, tmp, wait,
                   long, dropped, same, torn>>

NextChunk ==
    /\ isr = "out" /\ pc = "answer2"
    /\ \/ pc' = "put" /\ piece' = 1 /\ len' \in Chunk
       \/ pc' = "done" /\ UNCHANGED <<piece, len>>
    /\ UNCHANGED <<rx, line, cr1, eie, txHandle, rxState, isr, sem, tmp, wait,
                   long, dropped, same, torn>>

(* atc_exec returns: ibuff is gone, and the caller frees what it sent.      *)
Done ==
    /\ isr = "out" /\ pc = "done" /\ pc' = "idle" /\ Rewrites({"ibuff", "payload"})
    /\ UNCHANGED <<rx, line, cr1, eie, txHandle, rxState, isr, sem, piece, len, tmp, wait,
                   long, dropped, torn>>

-----------------------------------------------------------------------------
Irq  == IrqRx \/ OverrunWhileRead \/ IrqError \/ ErrorCallback \/ IrqTxe \/ IrqTc
Send == Transmit \/ Enable \/ Drop \/ Take \/ Timeout
Exec == Start \/ Send \/ Answered \/ NextChunk \/ Done
Next == ByteArrives \/ Tick \/ Irq \/ Exec

Spec == Init /\ [][Next]_vars

(* The clock runs, interrupts are served, and a task in atc_send runs when  *)
(* it can.                                                                  *)
FairSpec == Spec /\ WF_vars(Tick) /\ WF_vars(Irq) /\ WF_vars(Send)

-----------------------------------------------------------------------------
Flag == {"RXNEIE", "TXEIE", "TCIE"}
TypeOK ==
    /\ rxf \subseteq {"RXNE", "ORE", "ERR"} /\ dr \in 0..MaxByte
    /\ full \in BOOLEAN /\ shifting \in BOOLEAN
    /\ cr1 \subseteq Flag /\ eie \in BOOLEAN /\ tmp \subseteq Flag
    /\ gState \in {"READY", "BUSY_TX"} /\ rxState \in {"READY", "BUSY_RX"}
    /\ left \in Nat /\ txbuf \in {"literal", "ibuff", "payload"}
    /\ isr \in {"out", "error"} /\ sem \in 0..1
    /\ pc \in {"idle", "put", "enable", "take", "answer", "answer2", "done"}
    /\ piece \in 1..PAYLOAD /\ len \in Chunk \cup {0} /\ wait \in 0..WAIT_TICKS
    /\ same \in BOOLEAN /\ torn \in BOOLEAN /\ long \in BOOLEAN /\ dropped \in BOOLEAN
    /\ arrived \in 0..MaxByte /\ got \in Seq(1..MaxByte) /\ faults \in 0..MaxFault

(* Whatever a byte brings with it, the interrupt handler leaves the         *)
(* reception running, and so does the executor, which changes CR1 in two    *)
(* steps an interrupt may fall between: the board never goes deaf           *)
(* (init_usart1.c:99-137).                                                  *)
Listening == isr = "out" => rxState = "BUSY_RX" /\ eie /\ "RXNEIE" \in cr1

(* As long as every piece fits the wait, each goes out whole before         *)
(* atc_send returns, and leaves the semaphore as it found it: none is       *)
(* refused by the HAL (exec.c:20-39, init_usart1.c:212-220).                *)
Quiet == gState = "READY" /\ ~shifting /\ ~full /\ sem = 0
SentWhole == ~long => ~dropped /\ (pc \notin {"enable", "take"} => Quiet)

(* What goes out is what was to be sent: neither ibuff nor the caller's     *)
(* buffer changes under the interrupt (exec.c:73, 120-137).                 *)
SentTrue == ~long => ~torn

(* A garbled byte, a byte read too late or one that found the queue full    *)
(* costs at most one more byte, and those that get through stay in order    *)
(* (init_usart1.c:110-137).                                                 *)
LossBounded ==
    /\ arrived <= Len(got) + (IF "RXNE" \in rxf THEN 1 ELSE 0) + 2 * faults
    /\ \A i, j \in 1..Len(got) : i < j => got[i] < got[j]

(* atc_send returns, and the line comes to rest, whatever comes in.         *)
SendEnds ==
    /\ pc = "take" ~> pc # "take"
    /\ gState = "BUSY_TX" ~> gState = "READY"

(* The comment at exec.h:29: "len is not restricted by hardware, exec       *)
(* splits it if needed".  Every piece of every command is sent.             *)
AnyLength == ~dropped
=============================================================================
