------------------------------- MODULE UartRb -------------------------------
(***************************************************************************)
(* The UART driver with ring buffers (chip_18xx_43xx/uart_18xx_43xx.c,     *)
(* used as in examples/periph/periph_uart_rb/uart_rb.c).                   *)
(*                                                                         *)
(* The main program sends with Chip_UART_SendRB and reads with             *)
(* Chip_UART_ReadRB; the interrupt handler empties the transmit ring and   *)
(* fills the receive ring.  The handler preempts the main program between  *)
(* any two of its steps and is not preempted by it; the UART itself goes   *)
(* on all the time.  SendRB keeps the handler off the transmit ring by     *)
(* masking the THRE interrupt; ReadRB has no protection and needs none.    *)
(***************************************************************************)
EXTENDS RingBuffer

CONSTANTS
    Byte, NoByte,
    SendLen, ReadLen,   \* the lengths that SendRB and ReadRB are called with
    Stream              \* Stream[k]: the bytes that may come at place k of the
                        \* streams that are sent and received, modulo Wrap

ASSUME UartAssumption ==
    /\ NoByte \notin Byte
    /\ SendLen \subseteq Nat /\ ReadLen \subseteq Nat \ {0}
    /\ Stream \in [Counter -> SUBSET Byte]

VARIABLES
    txHead, txTail, txSlot,     \* the transmit ring
    rxHead, rxTail, rxSlot,     \* the receive ring
    threInt,                    \* THREINT is set in the UART's IER
    thre, thr,                  \* the transmitter is empty; the last byte it got
    rbr,                        \* a byte that was received and not read (RDR)
    isr,                        \* where the interrupt handler is
    mpc,                        \* where the main program is
    data, ret,                  \* of SendRB: the bytes and the count so far
    cnt1, cnt2,                 \* of InsertMult and PopMult: the segments
    buf, read                   \* of ReadRB: copied bytes; last run handed over

txRing == <<txHead, txTail, txSlot>>
rxRing == <<rxHead, rxTail, rxSlot>>
uart == <<threInt, thre, thr, rbr>>
call == <<data, ret, cnt1, cnt2, buf, read>>
vars == <<txRing, rxRing, uart, isr, mpc, call>>

InsertPc == {"insert1", "seg1", "seg2", "insert2", "seg1b", "seg2b"}
SendPc == InsertPc \union {"pump", "enable"}
ReadPc == {"copy1", "tail1", "copy2", "tail2"}

Init ==
    /\ txHead = 0 /\ txTail = 0
    /\ rxHead = 0 /\ rxTail = 0
    /\ txSlot = [k \in Slots |-> NoByte]
    /\ rxSlot = [k \in Slots |-> NoByte]
    /\ threInt = FALSE
    /\ thre = TRUE /\ thr = <<>>
    /\ rbr = NoByte
    /\ isr = "none"
    /\ mpc = "idle"
    /\ data = <<>> /\ ret = 0
    /\ cnt1 = 0 /\ cnt2 = 0
    /\ buf = <<>> /\ read = <<>>

(***************************************************************************)
(* The UART.  TXIntHandlerRB writes a byte only when the transmitter is    *)
(* empty, so one byte of its FIFO is ever in use; bytes come in at any     *)
(* time, and those that overrun the receiver are not seen by the driver.   *)
(***************************************************************************)
Transmit ==
    /\ ~thre
    /\ thre' = TRUE
    /\ UNCHANGED <<txRing, rxRing, threInt, thr, rbr, isr, mpc, call>>

Receive(b) ==
    /\ rbr = NoByte
    /\ rbr' = b
    /\ UNCHANGED <<txRing, rxRing, threInt, thre, thr, isr, mpc, call>>

(***************************************************************************)
(* Chip_UART_TXIntHandlerRB, in the handler and in SendRB                  *)
(***************************************************************************)

(* LSR has THRE and RingBuffer_Pop succeeds: SendByte *)
TxByte ==
    /\ thre /\ ~IsEmpty(txHead, txTail)
    /\ thr' = <<txSlot[SlotOf(txTail)]>>
    /\ txTail' = Add(txTail, 1)
    /\ thre' = FALSE
    /\ UNCHANGED <<txHead, txSlot, threInt>>

(* Mutant: THREINT is disabled whether or not the ring is empty. *)
TxDoneOff ==
    /\ ~(thre /\ ~IsEmpty(txHead, txTail))
    /\ threInt' = FALSE
    /\ UNCHANGED <<txRing, thre, thr>>

(* the loop is over: disable THREINT if the ring is empty *)
TxDone ==
    /\ ~(thre /\ ~IsEmpty(txHead, txTail))
    /\ threInt' = (threInt /\ ~IsEmpty(txHead, txTail))
    /\ UNCHANGED <<txRing, thre, thr>>

(***************************************************************************)
(* Chip_UART_IRQRBHandler.  An interrupt that the NVIC has latched is      *)
(* taken even if its cause is gone, so the handler may start at any time:  *)
(* it is why it looks at IER first.                                        *)
(***************************************************************************)
IsrEnter ==
    /\ isr = "none"
    /\ isr' = IF threInt THEN "tx" ELSE "rx"
    /\ UNCHANGED <<txRing, rxRing, uart, mpc, call>>

IsrTx ==
    /\ isr = "tx"
    /\ \/ TxByte /\ UNCHANGED isr
       \/ TxDone /\ isr' = "rx"
    /\ UNCHANGED <<rxRing, rbr, mpc, call>>

(* Mutant: a byte goes into the receive ring without a test for room. *)
IsrRxAlways ==
    /\ isr = "rx"
    /\ rbr # NoByte
    /\ rbr' = NoByte
    /\ rxSlot' = [rxSlot EXCEPT ![SlotOf(rxHead)] = rbr]
    /\ rxHead' = Add(rxHead, 1)
    /\ UNCHANGED <<txRing, rxTail, threInt, thre, thr, isr, mpc, call>>

(* Chip_UART_RXIntHandlerRB: a byte that finds the ring full is ignored *)
IsrRx ==
    /\ isr = "rx"
    /\ rbr # NoByte
    /\ rbr' = NoByte
    /\ IF IsFull(rxHead, rxTail)
         THEN UNCHANGED rxRing
         ELSE /\ rxSlot' = [rxSlot EXCEPT ![SlotOf(rxHead)] = rbr]
              /\ rxHead' = Add(rxHead, 1)
              /\ UNCHANGED rxTail
    /\ UNCHANGED <<txRing, threInt, thre, thr, isr, mpc, call>>

IsrLeave ==
    /\ isr = "rx"
    /\ rbr = NoByte
    /\ isr' = "none"
    /\ UNCHANGED <<txRing, rxRing, uart, mpc, call>>

Isr == IsrEnter \/ IsrTx \/ IsrRx \/ IsrLeave

(***************************************************************************)
(* Chip_UART_SendRB                                                        *)
(***************************************************************************)

(* Mutant: the THRE interrupt stays enabled. *)
SendCallUnmasked(s) ==
    /\ mpc = "idle"
    /\ data' = s /\ ret' = 0
    /\ mpc' = "insert1"
    /\ UNCHANGED <<txRing, rxRing, uart, cnt1, cnt2, buf, read>>

SendCall(s) ==
    /\ mpc = "idle"
    /\ threInt' = FALSE
    /\ data' = s /\ ret' = 0
    /\ mpc' = "insert1"
    /\ UNCHANGED <<txRing, rxRing, thre, thr, rbr, cnt1, cnt2, buf, read>>

(* The segments of RingBuffer_InsertMult, or its early return *)
Insert(here, seg, done) ==
    /\ mpc = here
    /\ IF IsFull(txHead, txTail)
         THEN /\ mpc' = done
              /\ UNCHANGED <<cnt1, cnt2>>
         ELSE /\ cnt1' = Cnt1(txHead, GetFree(txHead, txTail), Len(data) - ret)
              /\ cnt2' = Cnt2(txHead, GetFree(txHead, txTail), Len(data) - ret)
              /\ mpc' = seg
    /\ UNCHANGED <<txRing, rxRing, uart, data, ret, buf, read>>

(* Mutant: the second segment is written to where the first one went. *)
WriteCopyStalePtr(n) ==
    /\ LET first == IF mpc \in {"seg2", "seg2b"} THEN Add(txHead, Wrap - cnt1) ELSE txHead
       IN  txSlot' = WriteSeg(txSlot, first, SubSeq(data, ret + 1, ret + n))
    /\ txHead' = Add(txHead, n)
    /\ ret' = ret + n

(* memcpy of n bytes to the slot of head, then head += n *)
WriteCopy(n) ==
    /\ txSlot' = WriteSeg(txSlot, txHead, SubSeq(data, ret + 1, ret + n))
    /\ txHead' = Add(txHead, n)
    /\ ret' = ret + n

InsertSeg1(here, next) ==
    /\ mpc = here
    /\ WriteCopy(cnt1)
    /\ mpc' = next
    /\ UNCHANGED <<txTail, rxRing, uart, data, cnt1, cnt2, buf, read>>

InsertSeg2(here, done) ==
    /\ mpc = here
    /\ WriteCopy(cnt2)
    /\ cnt1' = 0 /\ cnt2' = 0
    /\ mpc' = done
    /\ UNCHANGED <<txTail, rxRing, uart, data, buf, read>>

(* the call of TXIntHandlerRB between the two insertions *)
Pump ==
    /\ mpc = "pump"
    /\ \/ TxByte /\ UNCHANGED mpc
       \/ TxDone /\ mpc' = "insert2"
    /\ UNCHANGED <<rxRing, rbr, call>>

(* Mutant: the interrupt is enabled only if every byte found room. *)
SendReturnIfAll ==
    /\ mpc = "enable"
    /\ threInt' = (ret = Len(data))
    /\ mpc' = "idle"
    /\ data' = <<>> /\ ret' = 0
    /\ UNCHANGED <<txRing, rxRing, thre, thr, rbr, cnt1, cnt2, buf, read>>

SendReturn ==
    /\ mpc = "enable"
    /\ threInt' = TRUE
    /\ mpc' = "idle"
    /\ data' = <<>> /\ ret' = 0
    /\ UNCHANGED <<txRing, rxRing, thre, thr, rbr, cnt1, cnt2, buf, read>>

(* A request goes on where the bytes that the ring has taken end.  The     *)
(* driver copies bytes and never looks at them.                            *)
Requests(n) ==
    {s \in [1 .. n -> Byte] :
        \A i \in 1 .. n : s[i] \in Stream[(txHead + i - 1) % Wrap]}

Send ==
    \/ \E n \in SendLen : \E s \in Requests(n) : SendCall(s)
    \/ Insert("insert1", "seg1", "pump")
    \/ InsertSeg1("seg1", "seg2")
    \/ InsertSeg2("seg2", "pump")
    \/ Pump
    \/ Insert("insert2", "seg1b", "enable")
    \/ InsertSeg1("seg1b", "seg2b")
    \/ InsertSeg2("seg2b", "enable")
    \/ SendReturn

(***************************************************************************)
(* Chip_UART_ReadRB, that is RingBuffer_PopMult on the receive ring        *)
(***************************************************************************)
ReadCall(n) ==
    /\ mpc = "idle"
    /\ ~IsEmpty(rxHead, rxTail)
    /\ cnt1' = Cnt1(rxTail, DataCount(rxHead, rxTail), n)
    /\ cnt2' = Cnt2(rxTail, DataCount(rxHead, rxTail), n)
    /\ mpc' = "copy1"
    /\ UNCHANGED <<txRing, rxRing, uart, data, ret, buf, read>>

ReadCopy(here, n, next) ==
    /\ mpc = here
    /\ buf' = ReadSeg(rxSlot, rxTail, n)
    /\ mpc' = next
    /\ UNCHANGED <<txRing, rxRing, uart, data, ret, cnt1, cnt2, read>>

(* tail += n frees the slots for the handler *)
ReadTail(here, n, next) ==
    /\ mpc = here
    /\ rxTail' = Add(rxTail, n)
    /\ read' = IF n = 0 THEN read ELSE buf
    /\ buf' = <<>>
    /\ mpc' = next
    /\ IF next = "idle"
         THEN cnt1' = 0 /\ cnt2' = 0
         ELSE UNCHANGED <<cnt1, cnt2>>
    /\ UNCHANGED <<txRing, rxHead, rxSlot, uart, data, ret>>

Read ==
    \/ \E n \in ReadLen : ReadCall(n)
    \/ ReadCopy("copy1", cnt1, "tail1")
    \/ ReadTail("tail1", cnt1, "copy2")
    \/ ReadCopy("copy2", cnt2, "tail2")
    \/ ReadTail("tail2", cnt2, "idle")

(***************************************************************************)
(* The specification                                                       *)
(***************************************************************************)
Main == isr = "none" /\ (Send \/ Read) /\ UNCHANGED isr

MainRuns == mpc # "idle" /\ Main

Next ==
    \/ Transmit
    \/ \E b \in Stream[rxHead] : Receive(b)
    \/ Isr
    \/ Main

Spec == Init /\ [][Next]_vars

(***************************************************************************)
(* Fairness: the transmitter works, an enabled and due interrupt is taken, *)
(* and received bytes are further apart than the handler takes for one, so *)
(* that it ends and the main program gets its turn.  Nobody is obliged to  *)
(* send to the UART or to call SendRB or ReadRB.                           *)
(***************************************************************************)
Fairness ==
    /\ WF_vars(Transmit)
    /\ SF_vars(threInt /\ thre /\ IsrEnter)
    /\ WF_vars(IsrTx) /\ WF_vars(IsrRx) /\ SF_vars(IsrLeave)
    /\ SF_vars(MainRuns)

FairSpec == Spec /\ Fairness

(***************************************************************************)
(* Properties                                                              *)
(***************************************************************************)
TypeOK ==
    /\ txHead \in Counter /\ txTail \in Counter
    /\ rxHead \in Counter /\ rxTail \in Counter
    /\ txSlot \in [Slots -> Byte \union {NoByte}]
    /\ rxSlot \in [Slots -> Byte \union {NoByte}]
    /\ threInt \in BOOLEAN /\ thre \in BOOLEAN
    /\ thr \in Seq(Byte) /\ Len(thr) <= 1
    /\ rbr \in Byte \union {NoByte}
    /\ isr \in {"none", "tx", "rx"}
    /\ mpc \in {"idle"} \union SendPc \union ReadPc
    /\ data \in Seq(Byte) /\ ret \in 0 .. Len(data)
    /\ cnt1 \in 0 .. Count /\ cnt2 \in 0 .. Count
    /\ buf \in Seq(Byte) /\ read \in Seq(Byte)

(* "Don't let UART transmit ring buffer change in the UART IRQ handler"    *)
(* (uart_18xx_43xx.c:280): from the moment SendRB has masked the interrupt *)
(* to its end, the handler is not in its transmit part.                    *)
TxExclusive == mpc \in SendPc => isr # "tx"

(* Bytes in the transmit ring never wait for a further SendRB: outside a   *)
(* call the THRE interrupt is enabled (uart_18xx_43xx.c:268-271, 291).     *)
TxArmed == mpc \notin SendPc /\ ~IsEmpty(txHead, txTail) => threInt

(* Each ring is a bounded FIFO of bytes between the main program and the   *)
(* handler: nothing is lost, repeated or reordered after it was put in,    *)
(* and SendRB puts the bytes of its request in in their order, each once,  *)
(* over both insertions and the segments of each (uart_18xx_43xx.c:283).   *)
TxChannel == INSTANCE ByteChannel
    WITH place <- txHead, chan <- Held(txHead, txTail, txSlot), taken <- thr
RxChannel == INSTANCE ByteChannel
    WITH place <- rxHead, chan <- Held(rxHead, rxTail, rxSlot), taken <- read

TxImplements == TxChannel!BSpec
RxImplements == RxChannel!BSpec

(* What SendRB has put into the ring is transmitted.                       *)
TxDrains == \A h \in Counter : txHead = h ~> txTail = h
=============================================================================
