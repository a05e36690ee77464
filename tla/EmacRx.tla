------------------------------- MODULE EmacRx -------------------------------
(***************************************************************************)
(* The receive side of the lwIP driver for the Ethernet MAC                *)
(* (lwip/lpclwip/arch/lpc18xx_43xx_emac.c, RTOS build).                    *)
(*                                                                         *)
(* The DMA engine puts frames into the pbufs of a ring of descriptors; its *)
(* interrupt wakes the receive task, which takes finished descriptors,     *)
(* fills the ring up with new pbufs and hands frames to the stack.  Memory *)
(* may be short at any time: then the ring has fewer pbufs than            *)
(* descriptors, or none.                                                   *)
(***************************************************************************)
EXTENDS Naturals, Sequences, FiniteSets

CONSTANTS
    N,              \* LPC_NUM_BUFF_RXDESCS
    Pbuf,           \* the pbufs there is memory for
    None

ASSUME EmacRxAssumption ==
    /\ N \in Nat /\ N >= 3
    /\ Pbuf # {} /\ IsFiniteSet(Pbuf) /\ None \notin Pbuf

Index == 0 .. N - 1

VARIABLES
    own, bad,       \* of each descriptor: RDES_OWN, an error in its status
    rxpbufs,        \* the pbuf of a descriptor; B1ADD points into the same
    free, get, next,    \* rx_free_descs, rx_get_idx, rx_next_idx
    rxSem,          \* RxSem, binary
    rpc, p, rxerr,  \* the receive task and the locals of lpc_low_level_input
    isr, ints,      \* the interrupt handler and what it has read
    heap, stack,    \* the pbufs that nobody has, those that the stack has
    dma, pos, stat  \* the engine, its descriptor, and DMA_STAT (RI, RU)

ring == <<own, bad, rxpbufs, free, get, next>>
task == <<rpc, p, rxerr>>
handler == <<isr, ints>>
pbufs == <<heap, stack>>
engine == <<dma, pos, stat>>
vars == <<ring, task, handler, pbufs, engine, rxSem>>

Succ(i) == (i + 1) % N

SomeInjection(k) ==
    CHOOSE g \in [0 .. k - 1 -> Pbuf] :
        \A i, j \in 0 .. k - 1 : g[i] = g[j] => i = j

(* lpc_rx_setup has queued k pbufs; memory may have run out after them     *)
Init ==
    \E k \in 1 .. N :
      LET first == SomeInjection(k) IN
        /\ k <= Cardinality(Pbuf)
        /\ own = [i \in Index |-> i < k]
        /\ bad = [i \in Index |-> FALSE]
        /\ rxpbufs = [i \in Index |-> IF i < k THEN first[i] ELSE None]
        /\ heap = Pbuf \ {first[i] : i \in 0 .. k - 1}
        /\ stack = {}
        /\ free = N - k /\ get = 0 /\ next = k % N
        /\ rxSem = FALSE
        /\ rpc = "sleep" /\ p = None /\ rxerr = FALSE
        /\ isr = "none" /\ ints = {}
        /\ dma = "run" /\ pos = 0 /\ stat = {}

(***************************************************************************)
(* The DMA engine.  A frame that comes while it is suspended makes it look *)
(* at its descriptor again, as a poll demand does; without a descriptor    *)
(* the frame is lost.  RU is certain only after a descriptor was its own.  *)
(***************************************************************************)
DmaReceive(e) ==
    /\ dma # "status" /\ own[pos]
    /\ own' = [own EXCEPT ![pos] = FALSE]
    /\ bad' = [bad EXCEPT ![pos] = e]
    /\ pos' = Succ(pos)
    /\ dma' = "status"
    /\ UNCHANGED <<rxpbufs, free, get, next, task, handler, pbufs, stat, rxSem>>

DmaStatus ==
    /\ dma = "status"
    /\ stat' = stat \union {"RI"}
    /\ dma' = "run"
    /\ UNCHANGED <<ring, task, handler, pbufs, pos, rxSem>>

DmaSuspend ==
    /\ dma \in {"run", "poll"} /\ ~own[pos]
    /\ \/ stat' = stat \union {"RU"}
       \/ dma = "poll" /\ UNCHANGED stat
    /\ dma' = "suspended"
    /\ UNCHANGED <<ring, task, handler, pbufs, pos, rxSem>>

Dma == DmaStatus \/ DmaSuspend

PollDemand == dma' = IF dma = "suspended" THEN "poll" ELSE dma

(***************************************************************************)
(* ETH_IRQHandler, its receive part                                        *)
(***************************************************************************)
(* Mutant: only a lack of descriptors wakes the task. *)
IsrGiveUnavailable ==
    /\ isr = "none" /\ stat # {}
    /\ ints' = stat
    /\ rxSem' = (rxSem \/ "RU" \in stat)
    /\ isr' = "clear"
    /\ UNCHANGED <<ring, task, pbufs, engine>>

IsrGive ==
    /\ isr = "none" /\ stat # {}
    /\ ints' = stat
    /\ rxSem' = TRUE
    /\ isr' = "clear"
    /\ UNCHANGED <<ring, task, pbufs, engine>>

IsrClear ==
    /\ isr = "clear"
    /\ stat' = stat \ ints
    /\ ints' = {}
    /\ isr' = "none"
    /\ UNCHANGED <<ring, task, pbufs, dma, pos, rxSem>>

Isr == IsrGive \/ IsrClear

(***************************************************************************)
(* vPacketReceiveTask, lpc_enetif_input, lpc_low_level_input, lpc_rx_queue *)
(***************************************************************************)
TaskWake ==
    /\ rpc = "sleep"
    /\ rxSem
    /\ rxSem' = FALSE
    /\ rpc' = "test"
    /\ UNCHANGED <<ring, p, rxerr, pbufs, dma>>

(* the inner loop ends: the descriptor is the engine's *)
TaskSleep ==
    /\ rpc = "test"
    /\ own[get]
    /\ rpc' = "sleep"
    /\ UNCHANGED <<ring, p, rxerr, pbufs, dma, rxSem>>

(* Mutant: nothing is queued when no descriptor is in use. *)
InputDryReturn ==
    /\ rpc = "test"
    /\ ~own[get] /\ free = N
    /\ rpc' = "test"
    /\ UNCHANGED <<ring, p, rxerr, pbufs, dma, rxSem>>

(* no descriptor in use: fill the ring, return NULL *)
InputDry ==
    /\ rpc = "test"
    /\ ~own[get] /\ free = N
    /\ rpc' = "fill"
    /\ UNCHANGED <<ring, p, rxerr, pbufs, dma, rxSem>>

(* Mutant: the pbuf is read after the index has been advanced. *)
InputGetNext ==
    /\ rpc = "test"
    /\ ~own[get] /\ free < N
    /\ p' = rxpbufs[Succ(get)]
    /\ rxerr' = bad[get]
    /\ rxpbufs' = [rxpbufs EXCEPT ![get] = None]
    /\ bad' = [bad EXCEPT ![get] = FALSE]
    /\ free' = free + 1
    /\ get' = Succ(get)
    /\ rpc' = IF bad[get] THEN "requeue" ELSE "fill"
    /\ UNCHANGED <<own, next, pbufs, dma, rxSem>>

(* The code leaves the pointer and the status of the descriptor behind;    *)
(* None and FALSE stand for them, as nothing may read them again.          *)
InputGet ==
    /\ rpc = "test"
    /\ ~own[get] /\ free < N
    /\ p' = rxpbufs[get]
    /\ rxerr' = bad[get]
    /\ rxpbufs' = [rxpbufs EXCEPT ![get] = None]
    /\ bad' = [bad EXCEPT ![get] = FALSE]
    /\ free' = free + 1
    /\ get' = Succ(get)
    /\ rpc' = IF bad[get] THEN "requeue" ELSE "fill"
    /\ UNCHANGED <<own, next, pbufs, dma, rxSem>>

(* Mutant: the index does not wrap. *)
QueueNoWrap(b) ==
    /\ rxpbufs' = [rxpbufs EXCEPT ![next] = b]
    /\ own' = [own EXCEPT ![next] = TRUE]
    /\ bad' = [bad EXCEPT ![next] = FALSE]
    /\ free' = free - 1
    /\ next' = next + 1
    /\ UNCHANGED get

(* lpc_rxqueue_pbuf; the store of STATUS gives descriptor and pbuf away *)
Queue(b) ==
    /\ rxpbufs' = [rxpbufs EXCEPT ![next] = b]
    /\ own' = [own EXCEPT ![next] = TRUE]
    /\ bad' = [bad EXCEPT ![next] = FALSE]
    /\ free' = free - 1
    /\ next' = Succ(next)
    /\ UNCHANGED get

(* Mutant: a pbuf with an error goes back to the descriptor it was in. *)
RequeueInPlace ==
    /\ rpc = "requeue"
    /\ own' = [own EXCEPT ![(get + N - 1) % N] = TRUE]
    /\ bad' = [bad EXCEPT ![(get + N - 1) % N] = FALSE]
    /\ free' = free - 1
    /\ next' = Succ(next)
    /\ p' = None
    /\ rpc' = "return"
    /\ UNCHANGED <<rxpbufs, get, rxerr, heap, stack, dma, rxSem>>

(* Mutant: a frame that comes with an error is returned as well. *)
RequeueReturn ==
    /\ rpc = "requeue"
    /\ Queue(p)
    /\ rxerr' = FALSE
    /\ rpc' = "return"
    /\ UNCHANGED <<p, heap, stack, dma, rxSem>>

Requeue ==
    /\ rpc = "requeue"
    /\ Queue(p)
    /\ p' = None
    /\ rpc' = "return"
    /\ UNCHANGED <<rxerr, heap, stack, dma, rxSem>>

(* one round of lpc_rx_queue *)
Fill ==
    /\ rpc = "fill"
    /\ free > 0
    /\ \E b \in heap : Queue(b) /\ heap' = heap \ {b}
    /\ UNCHANGED <<task, stack, dma, rxSem>>

(* lpc_rx_queue ends: the ring is full, or pbuf_alloc has returned NULL *)
FillStop ==
    /\ rpc = "fill"
    /\ rpc' = IF p = None THEN "test" ELSE "return"
    /\ UNCHANGED <<ring, p, rxerr, pbufs, dma, rxSem>>

(* poll demand and return, NULL after an error *)
Return ==
    /\ rpc = "return"
    /\ PollDemand
    /\ rpc' = IF rxerr THEN "test" ELSE "deliver"
    /\ rxerr' = FALSE
    /\ UNCHANGED <<ring, p, pbufs, rxSem>>

(* the switch of lpc_enetif_input: the stack takes the pbuf, or it is freed *)
Deliver ==
    /\ rpc = "deliver"
    /\ \/ stack' = stack \union {p} /\ UNCHANGED heap
       \/ heap' = heap \union {p} /\ UNCHANGED stack
    /\ p' = None
    /\ rpc' = "test"
    /\ UNCHANGED <<ring, rxerr, dma, rxSem>>

Task ==
    /\ \/ TaskWake \/ TaskSleep
       \/ InputDry \/ InputGet \/ Requeue \/ Fill \/ FillStop \/ Return
       \/ Deliver
    /\ isr = "none"
    /\ UNCHANGED <<handler, pos, stat>>

(* the stack is done with a pbuf *)
StackFree(b) ==
    /\ isr = "none"
    /\ b \in stack
    /\ stack' = stack \ {b}
    /\ heap' = heap \union {b}
    /\ UNCHANGED <<ring, task, handler, engine, rxSem>>

Stack == \E b \in Pbuf : StackFree(b)

Next ==
    \/ Dma \/ Isr \/ Task \/ Stack
    \/ \E e \in BOOLEAN : DmaReceive(e)

Spec == Init /\ [][Next]_vars

(***************************************************************************)
(* Fairness: the engine reports, interrupts are taken, the task runs, the  *)
(* stack gives pbufs back, and an allocation that is tried again and again *)
(* while there is memory succeeds.  Nobody has to send us a frame.         *)
(***************************************************************************)
Fairness ==
    /\ WF_vars(Dma)
    /\ WF_vars(Isr)
    /\ SF_vars(Task)
    /\ SF_vars(Fill /\ Task)
    /\ SF_vars(Stack)

FairSpec == Spec /\ Fairness

(***************************************************************************)
(* Properties                                                              *)
(***************************************************************************)
TypeOK ==
    /\ own \in [Index -> BOOLEAN] /\ bad \in [Index -> BOOLEAN]
    /\ rxpbufs \in [Index -> Pbuf \union {None}]
    /\ free \in 0 .. N /\ get \in Index /\ next \in Index
    /\ rxSem \in BOOLEAN /\ rxerr \in BOOLEAN
    /\ rpc \in {"sleep", "test", "requeue", "fill", "return", "deliver"}
    /\ p \in Pbuf \union {None}
    /\ isr \in {"none", "clear"} /\ ints \subseteq {"RI", "RU"}
    /\ heap \subseteq Pbuf /\ stack \subseteq Pbuf
    /\ dma \in {"run", "status", "poll", "suspended"} /\ pos \in Index
    /\ stat \subseteq {"RI", "RU"}

(* The descriptors with a pbuf, from the one to be received next, and how  *)
(* many of them the engine has closed.                                     *)
Slot(j) == (get + j) % N
InUse == {Slot(j) : j \in 0 .. N - free - 1}
ClosedCount == Cardinality({i \in InUse : ~own[i]})

(* Indices, count and engine agree, also when the ring is only partly      *)
(* filled and a pbuf is queued in another descriptor than it came from:    *)
(* the engine has closed the oldest descriptors in use, owns the others    *)
(* and nothing else (lpc18xx_43xx_emac.c:140-172, 288-305).                *)
RingConsistent ==
    /\ Slot(N - free) = next
    /\ \A i \in Index \ InUse : ~own[i]
    /\ pos = Slot(ClosedCount)
    /\ \A j \in 0 .. N - free - 1 : own[Slot(j)] <=> j >= ClosedCount

(* A pbuf is in one place: with the heap, the stack, the receive task or   *)
(* one descriptor.  None is lost, none is written by the engine while      *)
(* somebody reads it (lpc18xx_43xx_emac.c:250-318, 660-684, 691-724).      *)
PbufOwnedOnce ==
    /\ \A b \in Pbuf :
         (IF b \in heap THEN 1 ELSE 0) + (IF b \in stack THEN 1 ELSE 0)
         + (IF b = p THEN 1 ELSE 0)
         + Cardinality({i \in InUse : rxpbufs[i] = b}) = 1
    /\ \A i \in InUse : rxpbufs[i] \in Pbuf

(* The frames that were received and not returned: the good one that the   *)
(* task has, and those in the closed descriptors.                          *)
WithTask == IF p # None /\ rpc \in {"fill", "return"} /\ ~rxerr THEN 1 ELSE 0
Received ==
    [j \in 1 .. WithTask + ClosedCount |->
        IF j <= WithTask THEN [buf |-> p, bad |-> FALSE]
        ELSE LET i == Slot(j - WithTask - 1) IN [buf |-> rxpbufs[i], bad |-> bad[i]]]

(* The good frames are handed to the stack, each once and in the order in  *)
(* which they came, and one with an error never, also when memory is short *)
(* or pbufs are queued again (lpc18xx_43xx_emac.c:250-323, 660-684).       *)
Delivery == INSTANCE FrameDelivery WITH
    Limit <- N + 1, waiting <- Received,
    hand <- IF rpc = "deliver" THEN p ELSE None
ImplementsDelivery == Delivery!DeliverySpec

(* Every frame that was received is looked at, when no other one follows   *)
(* as well (lpc18xx_43xx_emac.c:538-551, 822-840).                         *)
Closed(i) == i \in InUse /\ ~own[i]
Delivered == \A i \in Index : Closed(i) ~> ~Closed(i)

(* Reception does not stop for good: when there was no memory, the engine  *)
(* gets a descriptor again (lpc18xx_43xx_emac.c:224-234, 304-323).         *)
Refilled == []<>own[pos]
=============================================================================
