----------------------------- MODULE UartProofs -----------------------------
(***************************************************************************)
(* Proofs about Uart, for every length of the pieces, every wait and any    *)
(* number of bytes and faults.                                              *)
(***************************************************************************)
EXTENDS Uart, SequenceTheorems, TLAPS

(* The receiver: it may be off only between UART_Receive_IT and the error   *)
(* callback, and then its state says so.                                    *)
RxInv ==
    /\ isr = "out" => rxState = "BUSY_RX"
    /\ rxState = "BUSY_RX" => eie = TRUE /\ "RXNEIE" \in cr1
    /\ pc = "enable" => "RXNEIE" \in tmp

(* The transmitter: which of its interrupts is enabled says what is left.   *)
TxInv ==
    /\ "TXEIE" \in cr1 => left > 0 /\ gState = "BUSY_TX"
    /\ "TCIE" \in cr1 => left = 0 /\ gState = "BUSY_TX"
    /\ gState = "READY" => full = FALSE /\ shifting = FALSE
    /\ full = TRUE => shifting = TRUE
    /\ pc = "enable" =>
         /\ gState = "BUSY_TX" /\ left = LenOf(piece) /\ full = FALSE /\ shifting = FALSE
         /\ cr1 \cap {"TXEIE", "TCIE"} = {} /\ tmp \cap {"TXEIE", "TCIE"} = {}
    /\ gState = "BUSY_TX" /\ pc # "enable" =>
         (left > 0 => "TXEIE" \in cr1) /\ (left = 0 => "TCIE" \in cr1)
    /\ pc # "idle" => len \in Chunk

(* Bytes: those that came are queued, in DR, or paid for by a fault.        *)
InDr == IF "RXNE" \in rxf THEN 1 ELSE 0
RxBytes ==
    /\ arrived <= Len(got) + InDr + 2 * faults
    /\ Errors # {} \/ isr = "error" => arrived + 1 <= Len(got) + InDr + 2 * faults
RxOrder ==
    /\ "RXNE" \in rxf => dr \in 1..arrived /\ \A i \in 1..Len(got) : got[i] < dr
    /\ \A i \in 1..Len(got) : got[i] <= arrived
    /\ \A i, j \in 1..Len(got) : i < j => got[i] < got[j]

(* While every piece fits: what is left fits into what is left of the wait. *)
Units == left + (IF full = TRUE THEN 1 ELSE 0) + (IF shifting = TRUE THEN 1 ELSE 0)
Fits ==
    /\ dropped = FALSE /\ torn = FALSE /\ same = TRUE
    /\ pc \notin {"enable", "take"} => gState = "READY" /\ sem = 0
    /\ pc = "enable" => sem = 0 /\ left < WAIT_TICKS
    /\ pc = "take" => \/ sem = 1 /\ gState = "READY"
                      \/ sem = 0 /\ gState = "BUSY_TX" /\ Units < wait
SendInv == long = FALSE => Fits

IInv == TypeOK /\ RxInv /\ TxInv /\ RxBytes /\ RxOrder /\ SendInv

-----------------------------------------------------------------------------
LEMMA InitInv == Init => IInv
<1> SUFFICES ASSUME Init PROVE IInv
    OBVIOUS
<1> USE DEF Init
<1>1. TypeOK
  <2>1. got \in Seq(1..MaxByte)
      BY EmptySeq
  <2>2. /\ rxf \subseteq {"RXNE", "ORE", "ERR"} /\ cr1 \subseteq Flag /\ tmp \subseteq Flag
        /\ txbuf \in {"literal", "ibuff", "payload"}
      BY DEF Flag
  <2>3. /\ dr \in 0..MaxByte /\ left \in Nat /\ sem \in 0..1 /\ piece \in 1..PAYLOAD
        /\ wait \in 0..WAIT_TICKS /\ arrived \in 0..MaxByte /\ faults \in 0..MaxFault
      BY UartAssumption DEF PAYLOAD
  <2> QED BY <2>1, <2>2, <2>3 DEF TypeOK
<1>2. RxInv /\ TxInv
    BY DEF RxInv, TxInv
<1>3. RxBytes /\ RxOrder
  <2>1. Len(got) = 0
      BY EmptySeq
  <2>2. InDr = 0 /\ Errors = {}
      BY DEF InDr, Errors
  <2> QED BY <2>1, <2>2 DEF RxBytes, RxOrder
<1>4. SendInv
    BY DEF SendInv, Fits
<1> QED BY <1>1, <1>2, <1>3, <1>4 DEF IInv
-----------------------------------------------------------------------------
(* The receiver.                                                            *)

LEMMA RearmRuns ==
    ASSUME NEW st \in {"READY", "BUSY_RX"}, NEW cr, NEW ei,
           st = "BUSY_RX" => ei = TRUE /\ "RXNEIE" \in cr,
           Rearm(st, cr, ei)
    PROVE  rxState' = "BUSY_RX" /\ eie' = TRUE /\ "RXNEIE" \in cr1'
BY DEF Rearm

LEMMA ReceiveByteRuns ==
    ReceiveByte => rxState' = "BUSY_RX" /\ eie' = TRUE /\ "RXNEIE" \in cr1'
BY RearmRuns DEF ReceiveByte

LEMMA RxStep == TypeOK /\ RxInv /\ [Next]_vars => RxInv'
<1> SUFFICES ASSUME TypeOK, RxInv, [Next]_vars PROVE RxInv'
    OBVIOUS
<1> USE DEF rx, line, txHandle, task
<1>1. CASE UNCHANGED vars
    BY <1>1 DEF vars, RxInv
<1>2. CASE ByteArrives
    BY <1>2 DEF ByteArrives, RxInv
<1>3. CASE Tick
    BY <1>3 DEF Tick, RxInv
<1>4. CASE IrqRx
  <2>1. rxState' = "BUSY_RX" /\ eie' = TRUE /\ "RXNEIE" \in cr1'
      BY <1>4, ReceiveByteRuns DEF IrqRx
  <2> QED BY <1>4, <2>1 DEF IrqRx, RxInv
<1>5. CASE OverrunWhileRead
  <2>1. rxState' = "BUSY_RX" /\ eie' = TRUE /\ "RXNEIE" \in cr1'
      BY <1>5, RearmRuns DEF OverrunWhileRead
  <2> QED BY <1>5, <2>1 DEF OverrunWhileRead, RxInv
<1>6. CASE IrqError
  <2>1. CASE RxPending /\ ReceiveByte /\ rxf' = {}
      BY <1>6, <2>1, ReceiveByteRuns DEF IrqError, RxInv
  <2>2. CASE rxState' = "READY"
      BY <1>6, <2>2 DEF IrqError, RxInv
  <2> QED BY <1>6, <2>1, <2>2 DEF IrqError
<1>7. CASE ErrorCallback
  <2>1. rxState \in {"READY", "BUSY_RX"}
      BY DEF TypeOK
  <2>2. rxState' = "BUSY_RX" /\ eie' = TRUE /\ "RXNEIE" \in cr1'
      BY <1>7, <2>1, RearmRuns DEF ErrorCallback, RxInv
  <2> QED BY <1>7, <2>2 DEF ErrorCallback, RxInv
<1>8. CASE IrqTxe
    BY <1>8 DEF IrqTxe, RxInv
<1>9. CASE IrqTc
    BY <1>9 DEF IrqTc, RxInv
<1>10. CASE Start
    BY <1>10 DEF Start, RxInv
<1>11. CASE Transmit
    BY <1>11 DEF Transmit, RxInv
<1>12. CASE Enable
    BY <1>12 DEF Enable, RxInv
<1>13. CASE Drop
    BY <1>13 DEF Drop, Advance, RxInv
<1>14. CASE Take
    BY <1>14 DEF Take, Advance, RxInv
<1>15. CASE Timeout
    BY <1>15 DEF Timeout, Advance, RxInv
<1>16. CASE Answered
    BY <1>16 DEF Answered, RxInv
<1>17. CASE NextChunk
    BY <1>17 DEF NextChunk, RxInv
<1>18. CASE Done
    BY <1>18 DEF Done, RxInv
<1> QED
    BY <1>1, <1>2, <1>3, <1>4, <1>5, <1>6, <1>7, <1>8, <1>9, <1>10, <1>11, <1>12,
       <1>13, <1>14, <1>15, <1>16, <1>17, <1>18 DEF Next, Irq, Send, Exec
-----------------------------------------------------------------------------
(* The transmitter.                                                         *)

LEMMA AdvanceGoes == Advance => pc' \in {"put", "answer", "answer2"}
BY DEF Advance

LEMMA Lengths == TypeOK /\ pc # "idle" /\ len \in Chunk => LenOf(piece) \in Nat \ {0}
BY UartAssumption DEF TypeOK, LenOf, PAYLOAD

LEMMA RearmTx ==
    ASSUME NEW st, NEW cr, NEW ei, Rearm(st, cr, ei)
    PROVE  \A f \in {"TXEIE", "TCIE"} : f \in cr1' <=> f \in cr
BY DEF Rearm

LEMMA ReceiveByteTx ==
    ReceiveByte => \A f \in {"TXEIE", "TCIE"} : f \in cr1' <=> f \in cr1
<1> SUFFICES ASSUME ReceiveByte
             PROVE  \A f \in {"TXEIE", "TCIE"} : f \in cr1' <=> f \in cr1
    OBVIOUS
<1>1. \A f \in {"TXEIE", "TCIE"} : f \in cr1' <=> f \in cr1 \ {"RXNEIE"}
    BY RearmTx DEF ReceiveByte
<1> QED BY <1>1

(* What an action does not touch of the transmitter it leaves in order.     *)
LEMMA TxKept ==
    ASSUME TxInv, UNCHANGED <<full, shifting, gState, left, piece, tmp, len, pc>>,
           \A f \in {"TXEIE", "TCIE"} : f \in cr1' <=> f \in cr1
    PROVE  TxInv'
BY DEF TxInv, LenOf

LEMMA TxStep == TypeOK /\ TxInv /\ [Next]_vars => TxInv'
<1> SUFFICES ASSUME TypeOK, TxInv, [Next]_vars PROVE TxInv'
    OBVIOUS
<1> USE DEF rx, line, txHandle, task
<1>1. CASE UNCHANGED vars
    BY <1>1, TxKept DEF vars
<1>2. CASE ByteArrives
    BY <1>2, TxKept DEF ByteArrives
<1>3. CASE Tick
    BY <1>3 DEF Tick, Waiting, TxInv, LenOf, TypeOK
<1>4. CASE IrqRx
    BY <1>4, ReceiveByteTx, TxKept DEF IrqRx
<1>5. CASE OverrunWhileRead
  <2>1. \A f \in {"TXEIE", "TCIE"} : f \in cr1' <=> f \in cr1 \ {"RXNEIE"}
      BY <1>5, RearmTx DEF OverrunWhileRead
  <2> QED BY <1>5, <2>1, TxKept DEF OverrunWhileRead
<1>6. CASE IrqError
  <2>1. CASE RxPending /\ ReceiveByte /\ rxf' = {}
      BY <1>6, <2>1, ReceiveByteTx, TxKept DEF IrqError
  <2>2. CASE cr1' = cr1 \ {"RXNEIE"}
      BY <1>6, <2>2, TxKept DEF IrqError
  <2> QED BY <1>6, <2>1, <2>2 DEF IrqError
<1>7. CASE ErrorCallback
    BY <1>7, RearmTx, TxKept DEF ErrorCallback
<1>8. CASE IrqTxe
  <2>1. pc # "enable" /\ left > 0 /\ left \in Nat /\ "TXEIE" \in cr1 /\ "TCIE" \notin cr1
      BY <1>8 DEF IrqTxe, TxePending, TxInv, TypeOK
  <2>2. full \in BOOLEAN /\ shifting \in BOOLEAN
      BY DEF TypeOK
  <2>3. CASE left = 1
    <3>1. left' = 0 /\ "TXEIE" \notin cr1' /\ "TCIE" \in cr1'
        BY <1>8, <2>1, <2>3 DEF IrqTxe
    <3> QED BY <1>8, <2>1, <2>2, <3>1 DEF IrqTxe, TxInv, LenOf
  <2>4. CASE left # 1
    <3>1. left' > 0 /\ cr1' = cr1
        BY <1>8, <2>1, <2>4 DEF IrqTxe
    <3> QED BY <1>8, <2>1, <2>2, <3>1 DEF IrqTxe, TxInv, LenOf
  <2> QED BY <2>3, <2>4
<1>9. CASE IrqTc
  <2>1. pc # "enable" /\ "TCIE" \in cr1 /\ "TXEIE" \notin cr1 /\ full = FALSE /\ shifting = FALSE
      BY <1>9 DEF IrqTc, TcPending, TxePending, TxInv, TypeOK
  <2> QED BY <1>9, <2>1 DEF IrqTc, TxInv, LenOf
<1>10. CASE Start
    BY <1>10 DEF Start, TxInv, LenOf
<1>11. CASE Transmit
  <2>1. LenOf(piece) \in Nat \ {0} /\ len \in Chunk
      BY <1>11, Lengths DEF Transmit, TxInv
  <2>2. LenOf(piece)' = LenOf(piece)
      BY <1>11 DEF Transmit, LenOf
  <2>3. cr1 \cap {"TXEIE", "TCIE"} = {} /\ full = FALSE /\ shifting = FALSE
      BY <1>11 DEF Transmit, Accepts, TxInv
  <2> QED BY <1>11, <2>1, <2>2, <2>3 DEF Transmit, TxInv
<1>12. CASE Enable
  <2>1. LenOf(piece) \in Nat \ {0} /\ len \in Chunk
      BY <1>12, Lengths DEF Enable, TxInv
  <2>2. "TXEIE" \in cr1' /\ "TCIE" \notin cr1'
      BY <1>12 DEF Enable, TxInv
  <2> QED BY <1>12, <2>1, <2>2 DEF Enable, TxInv, LenOf
<1>13. CASE Drop
    BY <1>13, AdvanceGoes DEF Drop, TxInv
<1>14. CASE Take
    BY <1>14, AdvanceGoes DEF Take, TxInv
<1>15. CASE Timeout
    BY <1>15, AdvanceGoes DEF Timeout, TimeIsUp, Waiting, TxInv
<1>16. CASE Answered
    BY <1>16 DEF Answered, TxInv
<1>17. CASE NextChunk
    BY <1>17 DEF NextChunk, TxInv
<1>18. CASE Done
    BY <1>18 DEF Done, TxInv
<1> QED
    BY <1>1, <1>2, <1>3, <1>4, <1>5, <1>6, <1>7, <1>8, <1>9, <1>10, <1>11, <1>12,
       <1>13, <1>14, <1>15, <1>16, <1>17, <1>18 DEF Next, Irq, Send, Exec
-----------------------------------------------------------------------------
(* What comes in.                                                           *)

(* The steps that receive nothing.                                          *)
LEMMA RxKept ==
    ASSUME RxBytes, RxOrder, UNCHANGED <<rx, isr>>
    PROVE  RxBytes' /\ RxOrder'
BY DEF rx, RxBytes, RxOrder, InDr, Errors

LEMMA Appended ==
    TypeOK /\ "RXNE" \in rxf /\ RxOrder =>
        /\ Append(got, dr) \in Seq(1..MaxByte)
        /\ Len(Append(got, dr)) = Len(got) + 1 /\ Len(got) \in Nat
        /\ \A i \in 1..Len(got) : Append(got, dr)[i] = got[i]
        /\ Append(got, dr)[Len(got) + 1] = dr
<1> SUFFICES ASSUME TypeOK, "RXNE" \in rxf, RxOrder
             PROVE  /\ Append(got, dr) \in Seq(1..MaxByte)
                    /\ Len(Append(got, dr)) = Len(got) + 1 /\ Len(got) \in Nat
                    /\ \A i \in 1..Len(got) : Append(got, dr)[i] = got[i]
                    /\ Append(got, dr)[Len(got) + 1] = dr
    OBVIOUS
<1>1. dr \in 1..MaxByte /\ got \in Seq(1..MaxByte)
    BY UartAssumption DEF TypeOK, RxOrder
<1> QED BY <1>1, AppendProperties, LenProperties

(* A byte taken from DR is after all those before it.                       *)
LEMMA ReceivedOrder ==
    TypeOK /\ "RXNE" \in rxf /\ RxOrder =>
        LET g == Append(got, dr)
        IN  /\ \A i \in 1..Len(g) : g[i] <= arrived
            /\ \A i, j \in 1..Len(g) : i < j => g[i] < g[j]
<1> SUFFICES ASSUME TypeOK, "RXNE" \in rxf, RxOrder
             PROVE  LET g == Append(got, dr)
                    IN  /\ \A i \in 1..Len(g) : g[i] <= arrived
                        /\ \A i, j \in 1..Len(g) : i < j => g[i] < g[j]
    OBVIOUS
<1> DEFINE g == Append(got, dr)
<1>1. /\ Len(g) = Len(got) + 1 /\ Len(got) \in Nat
      /\ \A i \in 1..Len(got) : g[i] = got[i]
      /\ g[Len(got) + 1] = dr
    BY Appended
<1>2. /\ dr \in 1..arrived /\ \A i \in 1..Len(got) : got[i] < dr
      /\ \A i \in 1..Len(got) : got[i] <= arrived
      /\ \A i, j \in 1..Len(got) : i < j => got[i] < got[j]
    BY DEF RxOrder
<1>3. arrived \in Nat
    BY UartAssumption DEF TypeOK
<1> HIDE DEF g
<1>4. \A i \in 1..Len(g) : i \in 1..Len(got) \/ i = Len(got) + 1
    BY <1>1
<1>5. \A i \in 1..Len(g) : g[i] <= arrived
    BY <1>1, <1>2, <1>3, <1>4
<1>6. \A i, j \in 1..Len(g) : i < j => g[i] < g[j]
  <2> TAKE i, j \in 1..Len(g)
  <2> HAVE i < j
  <2>1. i \in 1..Len(got)
      BY <1>1, <1>4
  <2>2. CASE j = Len(got) + 1
      BY <1>1, <1>2, <2>1, <2>2
  <2>3. CASE j \in 1..Len(got)
      BY <1>1, <1>2, <2>1, <2>3
  <2> QED BY <1>4, <2>2, <2>3
<1> QED BY <1>5, <1>6 DEF g

LEMMA BytesAreNumbers ==
    ASSUME NEW q \in Seq(1..MaxByte)
    PROVE  \A i \in 1..Len(q) : q[i] \in Nat
<1>1. \A i \in 1..Len(q) : q[i] \in 1..MaxByte
    BY ElementOfSeq
<1> QED BY <1>1, UartAssumption

(* UART_Receive_IT leaves no more unpaid than it found.                     *)
LEMMA ReceiveByteBytes ==
    ASSUME TypeOK, RxOrder, "RXNE" \in rxf, ReceiveByte, rxf' = {},
           NEW n \in Nat, arrived + n <= Len(got) + 1 + 2 * faults
    PROVE  /\ arrived' + n <= Len(got') + InDr' + 2 * faults'
           /\ Errors' = {} /\ RxOrder' /\ got' \in Seq(1..MaxByte) /\ faults' \in 0..MaxFault
<1>1. InDr' = 0 /\ Errors' = {} /\ arrived' = arrived /\ arrived \in Nat /\ faults \in Nat
    BY UartAssumption DEF InDr, Errors, ReceiveByte, TypeOK
<1>2. CASE got' = Append(got, dr) /\ UNCHANGED faults
  <2>1. Len(got') = Len(got) + 1 /\ got' \in Seq(1..MaxByte) /\ Len(got) \in Nat
      BY <1>2, Appended
  <2>2. RxOrder'
      BY <1>1, <1>2, ReceivedOrder DEF RxOrder
  <2> QED BY <1>1, <1>2, <2>1, <2>2 DEF TypeOK
<1>3. CASE Fault /\ UNCHANGED got
  <2>1. faults' = faults + 1 /\ faults' \in 0..MaxFault
      BY <1>1, <1>3, UartAssumption DEF Fault, TypeOK
  <2>2. RxOrder' /\ got' \in Seq(1..MaxByte)
      BY <1>1, <1>3 DEF RxOrder, TypeOK
  <2>3. Len(got') = Len(got) /\ Len(got) \in Nat
      BY <1>3, LenProperties DEF TypeOK
  <2> QED BY <1>1, <2>1, <2>2, <2>3
<1> QED BY <1>2, <1>3 DEF ReceiveByte

LEMMA BytesStep == TypeOK /\ RxBytes /\ RxOrder /\ [Next]_vars => RxBytes' /\ RxOrder'
<1> SUFFICES ASSUME TypeOK, RxBytes, RxOrder, [Next]_vars PROVE RxBytes' /\ RxOrder'
    OBVIOUS
<1>0. /\ arrived \in Nat /\ faults \in Nat /\ got \in Seq(1..MaxByte) /\ Len(got) \in Nat
      /\ InDr \in {0, 1} /\ ("RXNE" \in rxf <=> InDr = 1)
    BY UartAssumption, LenProperties DEF TypeOK, InDr
<1>1. CASE UNCHANGED vars
    BY <1>1, RxKept DEF vars
<1>2. CASE ByteArrives
  <2>1. arrived' = arrived + 1 /\ got' = got /\ isr' = isr
      BY <1>2 DEF ByteArrives
  <2>2. CASE "RXNE" \in rxf /\ Fault /\ rxf' = rxf \cup {"ORE"} /\ UNCHANGED dr
    <3>1. InDr' = InDr /\ faults' = faults + 1
        BY <2>2 DEF InDr, Fault
    <3>2. RxBytes'
        BY <1>0, <2>1, <3>1 DEF RxBytes
    <3>3. RxOrder'
      <4>1. "RXNE" \in rxf /\ dr' = dr /\ got' = got /\ arrived' = arrived + 1
          BY <2>1, <2>2
      <4>2. \A i \in 1..Len(got) : got[i] \in Nat
          BY <1>0, BytesAreNumbers
      <4> QED BY <1>0, <4>1, <4>2 DEF RxOrder
    <3> QED BY <3>2, <3>3
  <2>3. CASE /\ "RXNE" \notin rxf /\ dr' = arrived'
             /\ \/ rxf' = rxf \cup {"RXNE"} /\ UNCHANGED faults
                \/ Fault /\ rxf' = rxf \cup {"RXNE", "ERR"}
    <3>1. InDr' = 1 /\ InDr = 0
        BY <2>3 DEF InDr
    <3>2. \/ faults' = faults /\ Errors' = Errors
          \/ faults' = faults + 1
        BY <2>3 DEF Fault, Errors
    <3>3. RxBytes'
        BY <1>0, <2>1, <3>1, <3>2 DEF RxBytes
    <3>4. \A i \in 1..Len(got) : got[i] \in Nat
        BY <1>0, BytesAreNumbers
    <3>5. RxOrder'
        BY <1>0, <2>1, <2>3, <3>4 DEF RxOrder
    <3> QED BY <3>3, <3>5
  <2> QED BY <1>2, <2>2, <2>3 DEF ByteArrives
<1>3. CASE Tick
    BY <1>3, RxKept DEF Tick
<1>4. CASE IrqRx
  <2>1. "RXNE" \in rxf /\ ReceiveByte /\ rxf' = {} /\ isr' = "out"
      BY <1>4 DEF IrqRx, RxPending
  <2>2. arrived + 0 <= Len(got) + 1 + 2 * faults
      BY <1>0, <2>1 DEF RxBytes
  <2>3. arrived' + 0 <= Len(got') + InDr' + 2 * faults' /\ Errors' = {} /\ RxOrder'
      BY <2>1, <2>2, ReceiveByteBytes
  <2>4. arrived' \in Nat
      BY <1>0, <2>1 DEF ReceiveByte
  <2> QED BY <2>1, <2>3, <2>4 DEF RxBytes
<1>5. CASE OverrunWhileRead
  <2>1. /\ "RXNE" \in rxf /\ rxf' = {"ORE"} /\ got' = Append(got, dr)
        /\ arrived' = arrived + 1 /\ faults' = faults + 1 /\ isr' = "out"
      BY <1>5 DEF OverrunWhileRead, RxPending, Fault
  <2>2. InDr' = 0 /\ InDr = 1 /\ Len(got') = Len(got) + 1
      BY <2>1, Appended DEF InDr
  <2>3. RxBytes'
      BY <1>0, <2>1, <2>2 DEF RxBytes
  <2>4. \A i \in 1..Len(got') : got'[i] \in Nat
      BY <2>1, Appended, BytesAreNumbers
  <2>5. RxOrder'
      BY <1>0, <2>1, <2>4, ReceivedOrder DEF RxOrder
  <2> QED BY <2>3, <2>5
<1>6. CASE IrqError
  <2>1. isr' = "error" /\ Errors # {}
      BY <1>6 DEF IrqError, ErrPending
  <2>2. CASE RxPending /\ ReceiveByte /\ rxf' = {}
    <3>1. "RXNE" \in rxf /\ arrived + 1 <= Len(got) + 1 + 2 * faults
        BY <1>0, <2>1, <2>2 DEF RxPending, RxBytes
    <3>2. arrived' + 1 <= Len(got') + InDr' + 2 * faults' /\ RxOrder'
        BY <2>2, <3>1, ReceiveByteBytes
    <3>3. arrived' \in Nat /\ Len(got') + InDr' + 2 * faults' \in Nat
      <4>1. got' \in Seq(1..MaxByte) /\ faults' \in 0..MaxFault
          BY <2>2, <3>1, ReceiveByteBytes
      <4>2. arrived' = arrived /\ InDr' \in {0, 1}
          BY <2>2 DEF ReceiveByte, InDr
      <4> QED BY <1>0, <4>1, <4>2, LenProperties, UartAssumption
    <3> QED BY <3>2, <3>3 DEF RxBytes
  <2>3. CASE UNCHANGED rx
    <3>1. RxOrder' /\ InDr' = InDr /\ UNCHANGED <<arrived, got, faults>>
        BY <2>3 DEF rx, RxOrder, InDr
    <3> QED BY <1>0, <2>1, <3>1 DEF RxBytes
  <2> QED BY <1>6, <2>2, <2>3 DEF IrqError
<1>7. CASE ErrorCallback
  <2>1. isr = "error" /\ isr' = "out" /\ rxf' = {} /\ UNCHANGED <<dr, arrived, got, faults>>
      BY <1>7 DEF ErrorCallback
  <2>2. InDr' = 0 /\ Errors' = {}
      BY <2>1 DEF InDr, Errors
  <2> QED BY <1>0, <2>1, <2>2 DEF RxBytes, RxOrder
<1>8. CASE Irq /\ (IrqTxe \/ IrqTc)
    BY <1>8, RxKept DEF IrqTxe, IrqTc
<1>9. CASE Exec
    BY <1>9, RxKept DEF Exec, Send, Start, Transmit, Enable, Drop, Take, Timeout, Answered,
       NextChunk, Done
<1> QED BY <1>1, <1>2, <1>3, <1>4, <1>5, <1>6, <1>7, <1>8, <1>9 DEF Next, Irq
-----------------------------------------------------------------------------
(* Types.  The groups follow vars, so that an action is looked at only for  *)
(* the groups it changes.                                                   *)
TypeRx   == /\ rxf \subseteq {"RXNE", "ORE", "ERR"} /\ dr \in 0..MaxByte
            /\ arrived \in 0..MaxByte /\ got \in Seq(1..MaxByte) /\ faults \in 0..MaxFault
TypeRegs == /\ cr1 \subseteq Flag /\ eie \in BOOLEAN /\ rxState \in {"READY", "BUSY_RX"}
            /\ isr \in {"out", "error"}
TypeTx   == /\ full \in BOOLEAN /\ shifting \in BOOLEAN /\ gState \in {"READY", "BUSY_TX"}
            /\ left \in Nat /\ txbuf \in {"literal", "ibuff", "payload"} /\ sem \in 0..1
TypeTask == /\ pc \in {"idle", "put", "enable", "take", "answer", "answer2", "done"}
            /\ piece \in 1..PAYLOAD /\ len \in Chunk \cup {0} /\ wait \in 0..WAIT_TICKS
            /\ tmp \subseteq Flag /\ long \in BOOLEAN /\ dropped \in BOOLEAN
TypeHist == same \in BOOLEAN /\ torn \in BOOLEAN

LEMMA Types == TypeOK <=> TypeRx /\ TypeRegs /\ TypeTx /\ TypeTask /\ TypeHist
BY DEF TypeOK, TypeRx, TypeRegs, TypeTx, TypeTask, TypeHist

LEMMA RearmTypes ==
    ASSUME NEW st \in {"READY", "BUSY_RX"}, NEW cr \in SUBSET Flag, NEW ei \in BOOLEAN,
           Rearm(st, cr, ei)
    PROVE  cr1' \subseteq Flag /\ eie' \in BOOLEAN /\ rxState' \in {"READY", "BUSY_RX"}
BY DEF Rearm, Flag

LEMMA ReceiveByteTypes ==
    TypeRegs /\ ReceiveByte =>
        cr1' \subseteq Flag /\ eie' \in BOOLEAN /\ rxState' \in {"READY", "BUSY_RX"}
<1> SUFFICES ASSUME TypeRegs, ReceiveByte
             PROVE  cr1' \subseteq Flag /\ eie' \in BOOLEAN /\ rxState' \in {"READY", "BUSY_RX"}
    OBVIOUS
<1>1. cr1 \ {"RXNEIE"} \in SUBSET Flag
    BY DEF TypeRegs
<1> QED BY <1>1, RearmTypes DEF ReceiveByte

LEMMA TypeRegsStep == TypeRegs /\ tmp \subseteq Flag /\ [Next]_vars => TypeRegs'
<1> SUFFICES ASSUME TypeRegs, tmp \subseteq Flag, [Next]_vars PROVE TypeRegs'
    OBVIOUS
<1>0. cr1 \in SUBSET Flag /\ cr1 \ {"RXNEIE"} \in SUBSET Flag
    BY DEF TypeRegs
<1>1. CASE UNCHANGED vars \/ ByteArrives \/ Tick
    BY <1>1 DEF vars, ByteArrives, Tick, TypeRegs
<1>2. CASE IrqRx
    BY <1>2, ReceiveByteTypes DEF IrqRx, TypeRegs
<1>3. CASE OverrunWhileRead
    BY <1>0, <1>3, RearmTypes DEF OverrunWhileRead, TypeRegs
<1>4. CASE IrqError
  <2>1. CASE RxPending /\ ReceiveByte
      BY <1>4, <2>1, ReceiveByteTypes DEF IrqError, TypeRegs
  <2>2. CASE rxState' = "READY" /\ cr1' = cr1 \ {"RXNEIE"} /\ eie' = FALSE
      BY <1>0, <1>4, <2>2 DEF IrqError, TypeRegs
  <2> QED BY <1>4, <2>1, <2>2 DEF IrqError
<1>5. CASE ErrorCallback
    BY <1>0, <1>5, RearmTypes DEF ErrorCallback, TypeRegs
<1>6. CASE IrqTxe \/ IrqTc
  <2>1. cr1' \subseteq Flag
      BY <1>0, <1>6 DEF IrqTxe, IrqTc, Flag
  <2> QED BY <1>6, <2>1 DEF IrqTxe, IrqTc, TypeRegs
<1>7. CASE Exec /\ ~Enable
    BY <1>7 DEF Exec, Send, Start, Transmit, Drop, Take, Timeout, Answered, NextChunk, Done, TypeRegs
<1>8. CASE Enable
    BY <1>8 DEF Enable, TypeRegs, Flag
<1> QED BY <1>1, <1>2, <1>3, <1>4, <1>5, <1>6, <1>7, <1>8 DEF Next, Irq

LEMMA TypeRxStep == TypeOK /\ RxBytes /\ RxOrder /\ [Next]_vars => TypeRx'
<1> SUFFICES ASSUME TypeOK, RxBytes, RxOrder, [Next]_vars PROVE TypeRx'
    OBVIOUS
<1>0. TypeRx /\ TypeRegs
    BY Types
<1>a. InDr \in {0, 1} /\ ("RXNE" \in rxf => InDr = 1) /\ Len(got) \in Nat
    BY <1>0, LenProperties DEF InDr, TypeRx
<1>1. CASE UNCHANGED rx
    BY <1>0, <1>1 DEF rx, TypeRx
<1>2. CASE ByteArrives
  <2>1. arrived' \in 0..MaxByte /\ faults' \in 0..MaxFault
      BY <1>0, <1>2, UartAssumption DEF ByteArrives, Fault, TypeRx
  <2> QED BY <1>0, <1>2, <2>1 DEF ByteArrives, TypeRx
<1>3. CASE "RXNE" \in rxf /\ ReceiveByte /\ rxf' = {}
  <2>1. arrived + 0 <= Len(got) + 1 + 2 * faults
      BY <1>0, <1>3, <1>a, UartAssumption DEF RxBytes, TypeRx
  <2>2. got' \in Seq(1..MaxByte) /\ faults' \in 0..MaxFault
      BY <1>3, <2>1, ReceiveByteBytes
  <2> QED BY <1>0, <1>3, <2>2 DEF ReceiveByte, TypeRx
<1>4. CASE OverrunWhileRead
  <2>1. arrived' \in 0..MaxByte /\ faults' \in 0..MaxFault
      BY <1>0, <1>4, UartAssumption DEF OverrunWhileRead, Fault, TypeRx
  <2>2. got' \in Seq(1..MaxByte)
      BY <1>4, Appended DEF OverrunWhileRead, RxPending
  <2> QED BY <1>0, <1>4, <2>1, <2>2 DEF OverrunWhileRead, TypeRx
<1>5. CASE ErrorCallback
    BY <1>0, <1>5 DEF ErrorCallback, TypeRx
<1>6. CASE IrqRx \/ IrqError
    BY <1>1, <1>3, <1>6 DEF IrqRx, IrqError, RxPending
<1>7. CASE vars' = vars \/ Tick \/ IrqTxe \/ IrqTc \/ Exec
    BY <1>1, <1>7 DEF vars, Tick, IrqTxe, IrqTc, Exec, Send, Start, Transmit, Enable, Drop, Take,
       Timeout, Answered, NextChunk, Done
<1> QED BY <1>2, <1>4, <1>5, <1>6, <1>7 DEF Next, Irq

LEMMA TypeTxStep == TypeOK /\ TxInv /\ [Next]_vars => TypeTx'
<1> SUFFICES ASSUME TypeOK, TxInv, [Next]_vars PROVE TypeTx'
    OBVIOUS
<1>0. TypeTx /\ TypeTask
    BY Types
<1>1. CASE UNCHANGED <<line, txHandle, sem>>
    BY <1>0, <1>1 DEF line, txHandle, TypeTx
<1>2. CASE Tick
    BY <1>0, <1>2 DEF Tick, txHandle, TypeTx
<1>3. CASE IrqTxe
  <2>1. left' \in Nat
      BY <1>0, <1>3 DEF IrqTxe, TxePending, TxInv, TypeTx
  <2> QED BY <1>0, <1>3, <2>1 DEF IrqTxe, TypeTx
<1>4. CASE IrqTc
    BY <1>0, <1>4 DEF IrqTc, line, TypeTx
<1>5. CASE Transmit
  <2>1. left' \in Nat
      BY <1>5, Lengths DEF Transmit, TxInv
  <2> QED BY <1>0, <1>5, <2>1 DEF Transmit, BufOf, line, TypeTx
<1>6. CASE Take
    BY <1>0, <1>6 DEF Take, line, txHandle, TypeTx
<1> QED
    BY <1>1, <1>2, <1>3, <1>4, <1>5, <1>6 DEF Next, Irq, Exec, Send, vars, ByteArrives, IrqRx,
       OverrunWhileRead, IrqError, ErrorCallback, Start, Enable, Drop, Timeout, Answered, NextChunk,
       Done

LEMMA AdvanceTypes ==
    TypeTask /\ TypeHist /\ Advance =>
        /\ pc' \in {"put", "answer", "answer2"} /\ piece' \in 1..PAYLOAD /\ same' \in BOOLEAN
BY DEF TypeTask, TypeHist, Advance, Rewrites, PAYLOAD

LEMMA TypeTaskStep == TypeTask /\ TypeHist /\ TypeRegs /\ [Next]_vars => TypeTask' /\ TypeHist'
<1> SUFFICES ASSUME TypeTask, TypeHist, TypeRegs, [Next]_vars PROVE TypeTask' /\ TypeHist'
    OBVIOUS
<1>1. CASE UNCHANGED <<task, same, torn>>
    BY <1>1 DEF task, TypeTask, TypeHist
<1>2. CASE Tick
  <2>1. wait' \in 0..WAIT_TICKS
      BY <1>2, UartAssumption DEF Tick, TimeIsUp, Waiting, TypeTask
  <2> QED BY <1>2, <2>1 DEF Tick, TypeTask, TypeHist
<1>3. CASE IrqTxe
    BY <1>3 DEF IrqTxe, task, TypeTask, TypeHist
<1>4. CASE Start
    BY <1>4 DEF Start, TypeTask, TypeHist, PAYLOAD
<1>5. CASE Transmit
    BY <1>5 DEF Transmit, TypeTask, TypeHist, TypeRegs
<1>6. CASE Enable
  <2>1. wait' \in 0..WAIT_TICKS
      BY <1>6, UartAssumption DEF Enable
  <2> QED BY <1>6, <2>1 DEF Enable, TypeTask, TypeHist
<1>7. CASE Drop \/ Take \/ Timeout
    BY <1>7, AdvanceTypes DEF Drop, Take, Timeout, TypeTask, TypeHist
<1>8. CASE Answered \/ NextChunk
    BY <1>8 DEF Answered, NextChunk, TypeTask, TypeHist, PAYLOAD
<1>9. CASE Done
    BY <1>9 DEF Done, Rewrites, TypeTask, TypeHist
<1> QED
    BY <1>1, <1>2, <1>3, <1>4, <1>5, <1>6, <1>7, <1>8, <1>9 DEF Next, Irq, Exec, Send, vars,
       ByteArrives, IrqRx, OverrunWhileRead, IrqError, ErrorCallback, IrqTc

-----------------------------------------------------------------------------
(* While every piece fits the wait.                                         *)

LEMMA UnitsKept ==
    UNCHANGED <<full, shifting, left>> => Units' = Units
BY DEF Units

LEMMA SendKept ==
    ASSUME SendInv, UNCHANGED <<line, txHandle, sem, task, same, torn>>
    PROVE  SendInv'
BY DEF SendInv, Fits, Units, line, txHandle, task

LEMMA AdvanceSame ==
    ASSUME Advance, gState = "READY", same = TRUE
    PROVE  same' = TRUE
BY DEF Advance, Rewrites

LEMMA SendStep == TypeOK /\ TxInv /\ SendInv /\ [Next]_vars => SendInv'
<1> SUFFICES ASSUME TypeOK, TxInv, SendInv, [Next]_vars PROVE SendInv'
    OBVIOUS
<1>0. TypeTx /\ TypeTask
    BY Types
<1>1. CASE UNCHANGED <<line, txHandle, sem, task, same, torn>>
    BY <1>1, SendKept
<1>2. CASE Tick
  <2> SUFFICES ASSUME long = FALSE PROVE Fits'
      BY <1>2 DEF Tick, SendInv
  <2>1. UNCHANGED <<dropped, torn, same, pc, gState, sem, left>> /\ Fits
      BY <1>2 DEF Tick, txHandle, SendInv
  <2>2. CASE pc # "take"
      BY <2>1, <2>2 DEF Fits
  <2>3. CASE pc = "take" /\ sem = 1
      BY <2>1, <2>3 DEF Fits
  <2>4. CASE pc = "take" /\ sem = 0
    <3>1. gState = "BUSY_TX" /\ Units < wait
        BY <2>1, <2>4 DEF Fits
    <3>2. wait' = wait - 1 /\ wait # 0 /\ shifting' = (shifting /\ full) /\ full' = FALSE
        BY <1>2, <2>4 DEF Tick, TimeIsUp, Waiting
    <3>3. shifting = TRUE
      <4> SUFFICES ASSUME shifting = FALSE PROVE FALSE
          BY <1>0 DEF TypeTx
      <4>1. full = FALSE
          BY <1>0 DEF TxInv, TypeTx
      <4>2. "TXEIE" \notin cr1 /\ "TCIE" \notin cr1
          BY <1>2, <4>1 DEF Tick, Pending, TxePending, TcPending
      <4> QED BY <1>0, <2>4, <3>1, <4>2 DEF TxInv, TypeTx
    <3>4. Units' = Units - 1
        BY <1>0, <2>1, <3>2, <3>3 DEF Units, TypeTx
    <3>5. Units \in Nat /\ wait \in Nat
        BY <1>0, UartAssumption DEF Units, TypeTx, TypeTask
    <3>6. Units' < wait'
        BY <3>1, <3>2, <3>4, <3>5
    <3> QED BY <2>1, <2>4, <3>1, <3>6 DEF Fits
  <2> QED BY <1>0, <2>2, <2>3, <2>4 DEF TypeTx
<1>3. CASE IrqTxe
  <2> SUFFICES ASSUME long = FALSE PROVE Fits'
      BY <1>3 DEF IrqTxe, task, SendInv
  <2>1. UNCHANGED <<dropped, same, pc, gState, sem, wait>> /\ Fits
      BY <1>3 DEF IrqTxe, task, SendInv
  <2>2. torn' = FALSE
      BY <1>3, <2>1 DEF IrqTxe, Fits
  <2>3. pc # "enable" /\ left > 0 /\ gState = "BUSY_TX"
      BY <1>3 DEF IrqTxe, TxePending, TxInv
  <2>4. left' = left - 1 /\ shifting' = TRUE /\ full' = shifting /\ full = FALSE
      BY <1>0, <1>3 DEF IrqTxe, TxePending, TypeTx
  <2>5. Units' = Units
      BY <1>0, <2>3, <2>4 DEF Units, TypeTx
  <2> QED BY <2>1, <2>2, <2>3, <2>5 DEF Fits
<1>4. CASE IrqTc
  <2> SUFFICES ASSUME long = FALSE PROVE Fits'
      BY <1>4 DEF IrqTc, task, SendInv
  <2>1. UNCHANGED <<dropped, same, torn, pc>> /\ Fits /\ gState' = "READY" /\ sem' = 1
      BY <1>4 DEF IrqTc, task, SendInv
  <2>2. "TCIE" \in cr1
      BY <1>4 DEF IrqTc, TcPending
  <2>3. gState = "BUSY_TX" /\ pc # "enable"
      BY <2>2 DEF TxInv
  <2>4. pc = "take"
      BY <2>1, <2>3 DEF Fits
  <2> QED BY <2>1, <2>4 DEF Fits
<1>5. CASE Start
    BY <1>5 DEF Start, SendInv, Fits, Units, line, txHandle
<1>6. CASE Transmit
  <2> SUFFICES ASSUME long' = FALSE PROVE Fits'
      BY DEF SendInv
  <2>1. long = FALSE /\ ~(LenOf(piece) >= WAIT_TICKS) /\ pc' = "enable" /\ same' = TRUE
    <3>1. long \in BOOLEAN /\ ~(long \/ LenOf(piece) >= WAIT_TICKS)
        BY <1>0, <1>6 DEF Transmit, TypeTask
    <3> QED BY <1>6, <3>1 DEF Transmit
  <2>2. LenOf(piece) \in Nat /\ left' = LenOf(piece)
      BY <1>6, Lengths DEF Transmit, TxInv
  <2>3. left' < WAIT_TICKS
      BY <2>1, <2>2, UartAssumption
  <2> QED BY <1>6, <2>1, <2>3 DEF Transmit, SendInv, Fits
<1>7. CASE Enable
  <2> SUFFICES ASSUME long = FALSE PROVE Fits'
      BY <1>7 DEF Enable, SendInv
  <2>1. /\ UNCHANGED <<dropped, same, torn, gState, sem, left, full, shifting>> /\ Fits
        /\ pc = "enable" /\ pc' = "take" /\ wait' = WAIT_TICKS
      BY <1>7 DEF Enable, line, txHandle, SendInv
  <2>2. gState = "BUSY_TX" /\ full = FALSE /\ shifting = FALSE /\ left < WAIT_TICKS /\ sem = 0
      BY <2>1 DEF TxInv, Fits
  <2>3. Units' < wait'
      BY <1>0, <2>1, <2>2 DEF Units, TypeTx
  <2> QED BY <2>1, <2>2, <2>3 DEF Fits
<1>8. CASE Drop
    BY <1>8 DEF Drop, Accepts, SendInv, Fits
<1>9. CASE Take
  <2> SUFFICES ASSUME long = FALSE PROVE Fits'
      BY <1>9 DEF Take, SendInv
  <2>1. /\ UNCHANGED <<dropped, torn, gState>> /\ Fits /\ sem' = 0 /\ gState = "READY"
        /\ pc' \in {"put", "answer", "answer2"}
      BY <1>9, AdvanceGoes DEF Take, txHandle, SendInv, Fits
  <2>2. same' = TRUE
      BY <1>9, <2>1, AdvanceSame DEF Take, Fits
  <2> QED BY <2>1, <2>2 DEF Fits
<1>10. CASE Timeout
  <2> SUFFICES ASSUME long = FALSE PROVE FALSE
      BY <1>10 DEF Timeout, SendInv
  <2>1. pc = "take" /\ sem = 0 /\ wait = 0
      BY <1>10 DEF Timeout, TimeIsUp, Waiting
  <2>2. Units < wait
      BY <2>1 DEF SendInv, Fits
  <2>3. Units \in Nat
      BY <1>0 DEF Units, TypeTx
  <2> QED BY <2>1, <2>2, <2>3
<1>11. CASE Answered \/ NextChunk
    BY <1>11 DEF Answered, NextChunk, SendInv, Fits, line, txHandle
<1>12. CASE Done
    BY <1>12 DEF Done, Rewrites, SendInv, Fits, line, txHandle
<1> QED
    BY <1>1, <1>2, <1>3, <1>4, <1>5, <1>6, <1>7, <1>8, <1>9, <1>10, <1>11, <1>12 DEF Next, Irq,
       Exec, Send, vars, ByteArrives, IrqRx, OverrunWhileRead, IrqError, ErrorCallback

-----------------------------------------------------------------------------
LEMMA StepInv == IInv /\ [Next]_vars => IInv'
<1> SUFFICES ASSUME IInv, [Next]_vars PROVE IInv'
    OBVIOUS
<1> USE DEF IInv
<1>1. TypeRx' /\ TypeTx'
    BY TypeRxStep, TypeTxStep
<1>2. TypeRegs' /\ TypeTask' /\ TypeHist'
    BY Types, TypeRegsStep, TypeTaskStep DEF TypeTask
<1>3. TypeOK'
    BY <1>1, <1>2 DEF TypeOK, TypeRx, TypeRegs, TypeTx, TypeTask, TypeHist
<1> QED BY <1>3, RxStep, TxStep, BytesStep, SendStep

LEMMA Inductive == Spec => []IInv
BY InitInv, StepInv, PTL DEF Spec

(* The variables of the UART and of atc_send keep their types; in            *)
(* particular TxXferCount is never counted down from zero                   *)
(* (stm32f1xx_hal_uart.c:3547).                                             *)
THEOREM TypeCorrect == Spec => []TypeOK
<1>1. IInv => TypeOK
    BY DEF IInv
<1> QED BY <1>1, Inductive, PTL

(* Whatever comes in and whenever, the reception is running when the        *)
(* interrupt handler returns (init_usart1.c:99-138).                        *)
THEOREM NeverDeaf == Spec => []Listening
<1>1. IInv => Listening
    BY DEF IInv, RxInv, Listening
<1> QED BY <1>1, Inductive, PTL

(* As long as every piece fits the wait, atc_send returns with its piece    *)
(* out, and none is refused (exec.c:20-39).                                 *)
THEOREM SendsWhole == Spec => []SentWhole
<1>1. IInv => SentWhole
    BY DEF IInv, TypeOK, TxInv, SendInv, Fits, SentWhole, Quiet
<1> QED BY <1>1, Inductive, PTL

(* As long as every piece fits the wait, no buffer changes while it is      *)
(* being sent (exec.c:73, 120-137).                                         *)
THEOREM SendsTrue == Spec => []SentTrue
<1>1. IInv => SentTrue
    BY DEF IInv, TypeOK, SendInv, Fits, SentTrue
<1> QED BY <1>1, Inductive, PTL

(* A fault of the line or a full queue costs at most one byte more, and the *)
(* bytes stay in order (init_usart1.c:110-138).                             *)
THEOREM LossIsBounded == Spec => []LossBounded
<1>1. IInv => LossBounded
    BY DEF IInv, RxBytes, RxOrder, InDr, LossBounded
<1> QED BY <1>1, Inductive, PTL
=============================================================================
