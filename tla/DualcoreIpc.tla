---------------------------- MODULE DualcoreIpc ----------------------------
(***************************************************************************)
(* The inter-processor message queues of the dual-core examples            *)
(* (examples/dualcore_43xx/common/ipc_msg.c, FreeRTOS variant).            *)
(*                                                                         *)
(* Each core owns one queue in shared memory: it writes messages and head, *)
(* its peer reads them and advances tail.  A push ends with SEV, which     *)
(* raises an interrupt on the other core; the handler there gives two      *)
(* binary semaphores on which that core's tasks wait.  Tasks of one core   *)
(* are scheduled by priority; the two cores run in parallel.               *)
(***************************************************************************)
EXTENDS RingIndex, Sequences

CONSTANTS
    M4, M0,             \* the two cores
    Msg, NoMsg,         \* the messages, and the content of an unused cell
    Pusher, Popper,     \* the tasks that call IPC_pushMsgTout, IPC_popMsgTout
    Notifier,           \* the tasks that call IPC_msgNotify
    CoreOf, Prio,       \* the core and the priority of every task
    PushTout, PopTout,  \* the kinds of timeout the tasks pass
    Stream              \* Stream[k]: the messages that may be pushed when head
                        \* is k

Core == {M4, M0}
Task == Pusher \union Popper
Tout == {"try", "forever", "timed"}     \* tout == 0, tout < 0, tout > 0
Status == {"INSERT", "VALID", "FULL", "EMPTY", "ERROR", "TIMEOUT"}

(* Only the dispatch task of a core pops: there is one per core.           *)
ASSUME DualcoreAssumption ==
    /\ M4 # M0
    /\ NoMsg \notin Msg
    /\ Notifier \subseteq Task
    /\ CoreOf \in [Task -> Core]
    /\ Prio \in [Task -> Nat]
    /\ \A t, u \in Popper : CoreOf[t] = CoreOf[u] => t = u
    /\ PushTout \subseteq Tout /\ PopTout \subseteq Tout
    /\ Stream \in [Counter -> SUBSET Msg]

(* One task per core pushes: what the queues need, and do not enforce.     *)
SinglePusher == \A t, u \in Pusher : CoreOf[t] = CoreOf[u] => t = u

Peer(c) == IF c = M4 THEN M0 ELSE M4

VARIABLES
    boot,       \* boot[c]: how far core c is in prvSetupHardware
    valid,      \* valid[c]: queue c carries QUEUE_MAGIC_VALID
    head, tail, \* the counters of the queue that core c writes
    slot,       \* slot[c]: the data array of that queue
    rx, tx,     \* event_rx and event_tx of core c, binary semaphores
    irq,        \* irq[c]: the IPC interrupt of core c is pending
    isr,        \* isr[c]: the next step of core c's handler, or "none"
    pc,         \* pc[t]: where task t is in its call, or "idle"
    arg, tout,  \* the arguments of the call t is in
    reg,        \* reg[t]: the value of head that head++ has loaded
    buf,        \* buf[t]: the caller's buffer that pop fills
    ret,        \* ret[t]: what the last call of t returned
    popped      \* popped[c]: the last message a pop from queue c returned

queue == <<valid, head, tail, slot>>
events == <<rx, tx, irq, isr>>
local == <<pc, arg, tout, reg, buf, ret, popped>>
vars == <<boot, queue, events, local>>

PushPc == {"pushCheck", "pushTake", "pushCopy", "pushLoad", "pushStore", "pushSignal"}
PopPc == {"popCheck", "popTake", "popCopy", "popInc"}
Pc == {"idle"} \union PushPc \union PopPc

(***************************************************************************)
(* Boot.  Shared memory is not cleared by the startup code: the counters   *)
(* hold anything.  That the magic number is not there by chance, and not   *)
(* from before a reset that kept the RAM, is assumed.                      *)
(***************************************************************************)
PowerOn ==
    /\ boot = [c \in Core |-> "reset"]
    /\ head \in [Core -> Counter]
    /\ tail \in [Core -> Counter]
    /\ slot = [c \in Core |-> [i \in Slots |-> NoMsg]]
    /\ rx = [c \in Core |-> FALSE]
    /\ tx = [c \in Core |-> FALSE]
    /\ irq = [c \in Core |-> FALSE]
    /\ isr = [c \in Core |-> "none"]
    /\ pc = [t \in Task |-> "idle"]
    /\ arg = [t \in Task |-> NoMsg]
    /\ tout = [t \in Task |-> "try"]
    /\ reg = [t \in Task |-> 0]
    /\ buf = [t \in Task |-> NoMsg]
    /\ ret = [t \in Task |-> "none"]
    /\ popped = [c \in Core |-> NoMsg]

Init == PowerOn /\ valid = [c \in Core |-> FALSE]

(* memset(qwr, 0) and ipc_misc_init, whose semaphores are created "given"  *)
BootClear(c) ==
    /\ boot[c] = "reset"
    /\ boot' = [boot EXCEPT ![c] = "cleared"]
    /\ valid' = [valid EXCEPT ![c] = FALSE]
    /\ head' = [head EXCEPT ![c] = 0]
    /\ tail' = [tail EXCEPT ![c] = 0]
    /\ rx' = [rx EXCEPT ![c] = TRUE]
    /\ tx' = [tx EXCEPT ![c] = TRUE]
    /\ UNCHANGED <<slot, irq, isr, local>>

(* the magic number last, then the interrupt is enabled and tasks start *)
BootValid(c) ==
    /\ boot[c] = "cleared"
    /\ boot' = [boot EXCEPT ![c] = "up"]
    /\ valid' = [valid EXCEPT ![c] = TRUE]
    /\ UNCHANGED <<head, tail, slot, events, local>>

(***************************************************************************)
(* Scheduling on one core: a task runs when no handler does and every task *)
(* of higher priority is outside the queue calls or blocked in one.        *)
(***************************************************************************)
Blocked(t) ==
    \/ pc[t] = "idle"
    \/ pc[t] = "pushTake" /\ ~tx[CoreOf[t]]
    \/ pc[t] = "popTake" /\ ~rx[CoreOf[t]]

CanRun(t) ==
    /\ boot[CoreOf[t]] = "up"
    /\ isr[CoreOf[t]] = "none"
    /\ \A u \in Task : CoreOf[u] = CoreOf[t] /\ Prio[u] > Prio[t] => Blocked(u)

Goto(t, l) == pc' = [pc EXCEPT ![t] = l]

(* The call of t returns s; the locals of the call are dead. *)
Return(t, s) ==
    /\ Goto(t, "idle")
    /\ ret' = [ret EXCEPT ![t] = s]
    /\ arg' = [arg EXCEPT ![t] = NoMsg]
    /\ tout' = [tout EXCEPT ![t] = "try"]
    /\ buf' = [buf EXCEPT ![t] = NoMsg]

(***************************************************************************)
(* IPC_pushMsgTout by task t of core c                                     *)
(***************************************************************************)
PushCall(t, c, m, w) ==
    /\ pc[t] = "idle"
    /\ IF valid[c]
         THEN /\ Goto(t, "pushCheck")
              /\ arg' = [arg EXCEPT ![t] = m]
              /\ tout' = [tout EXCEPT ![t] = w]
              /\ ret' = [ret EXCEPT ![t] = "none"]
              /\ UNCHANGED buf
         ELSE Return(t, "ERROR")
    /\ UNCHANGED <<queue, events, reg, popped>>

(* QUEUE_IS_FULL: return, wait on event_tx, or go on *)
PushCheck(t, c) ==
    /\ pc[t] = "pushCheck"
    /\ \/ /\ ~IsFull(head[c], tail[c])
          /\ Goto(t, "pushCopy")
          /\ UNCHANGED <<ret, arg, tout, buf>>
       \/ /\ IsFull(head[c], tail[c])
          /\ tout[t] = "try"
          /\ Return(t, "FULL")
       \/ /\ IsFull(head[c], tail[c])
          /\ tout[t] # "try"
          /\ Goto(t, "pushTake")
          /\ UNCHANGED <<ret, arg, tout, buf>>
    /\ UNCHANGED <<queue, events, reg, popped>>

(* Mutants: a woken push that does not test the queue again, and a         *)
(* blocking push whose wait has no timeout.                                *)
PushTakeNoRecheck(t, c) ==
    /\ pc[t] = "pushTake"
    /\ tx[c]
    /\ tx' = [tx EXCEPT ![c] = FALSE]
    /\ Goto(t, "pushCopy")
    /\ UNCHANGED <<queue, rx, irq, isr, arg, tout, reg, buf, ret, popped>>

PushTickTimedOnly(t, c) ==
    /\ pc[t] = "pushTake"
    /\ ~tx[c]
    /\ tout[t] = "timed"
    /\ Return(t, "TIMEOUT")
    /\ UNCHANGED <<queue, events, reg, popped>>

PushTake(t, c) ==
    /\ pc[t] = "pushTake"
    /\ tx[c]
    /\ tx' = [tx EXCEPT ![c] = FALSE]
    /\ Goto(t, "pushCheck")
    /\ UNCHANGED <<queue, rx, irq, isr, arg, tout, reg, buf, ret, popped>>

(* The tick ends the wait: a timed push gives up without looking at the    *)
(* queue again, a blocking one polls it every 100 ticks.                   *)
PushTick(t, c) ==
    /\ pc[t] = "pushTake"
    /\ ~tx[c]
    /\ IF tout[t] = "timed"
         THEN Return(t, "TIMEOUT")
         ELSE Goto(t, "pushCheck") /\ UNCHANGED <<ret, arg, tout, buf>>
    /\ UNCHANGED <<queue, events, reg, popped>>

(* Mutant: the message is copied to where the next one belongs. *)
PushCopyAhead(t, c) ==
    /\ pc[t] = "pushCopy"
    /\ slot' = [slot EXCEPT ![c][SlotOf(Incr(head[c]))] = arg[t]]
    /\ Goto(t, "pushLoad")
    /\ UNCHANGED <<valid, head, tail, events, arg, tout, reg, buf, ret, popped>>

(* memcpy into the slot of the current head *)
PushCopy(t, c) ==
    /\ pc[t] = "pushCopy"
    /\ slot' = [slot EXCEPT ![c][SlotOf(head[c])] = arg[t]]
    /\ Goto(t, "pushLoad")
    /\ UNCHANGED <<valid, head, tail, events, arg, tout, reg, buf, ret, popped>>

(* head++ is a load and a store, and a task switch may come between them *)
PushLoad(t, c) ==
    /\ pc[t] = "pushLoad"
    /\ reg' = [reg EXCEPT ![t] = head[c]]
    /\ Goto(t, "pushStore")
    /\ UNCHANGED <<queue, events, arg, tout, buf, ret, popped>>

PushStore(t, c) ==
    /\ pc[t] = "pushStore"
    /\ head' = [head EXCEPT ![c] = Incr(reg[t])]
    /\ reg' = [reg EXCEPT ![t] = 0]
    /\ Goto(t, "pushSignal")
    /\ UNCHANGED <<valid, tail, slot, events, arg, tout, buf, ret, popped>>

(* ipc_send_signal: DSB, SEV *)
PushSignal(t, c) ==
    /\ pc[t] = "pushSignal"
    /\ irq' = [irq EXCEPT ![Peer(c)] = TRUE]
    /\ Return(t, "INSERT")
    /\ UNCHANGED <<queue, rx, tx, isr, reg, popped>>

(* IPC_msgNotify: the signal alone *)
Notify(t, c) ==
    /\ pc[t] = "idle"
    /\ ~irq[Peer(c)]
    /\ irq' = [irq EXCEPT ![Peer(c)] = TRUE]
    /\ UNCHANGED <<queue, rx, tx, isr, local>>

Push(t, c) ==
    \/ \E m \in Msg, w \in PushTout :
         m \in Stream[head[c]] /\ PushCall(t, c, m, w)
    \/ PushCheck(t, c)
    \/ PushTake(t, c)
    \/ PushTick(t, c)
    \/ PushCopy(t, c)
    \/ PushLoad(t, c)
    \/ PushStore(t, c)
    \/ PushSignal(t, c)

(***************************************************************************)
(* IPC_popMsgTout by task t of core c, from queue q of its peer.  The       *)
(* build defines no EVENT_ON_RX, so a pop never signals.                   *)
(***************************************************************************)

(* Mutant: the magic number of the queue is not looked at. *)
PopCallUnchecked(t, q, w) ==
    /\ pc[t] = "idle"
    /\ Goto(t, "popCheck")
    /\ tout' = [tout EXCEPT ![t] = w]
    /\ ret' = [ret EXCEPT ![t] = "none"]
    /\ UNCHANGED <<queue, events, reg, popped, arg, buf>>

PopCall(t, q, w) ==
    /\ pc[t] = "idle"
    /\ IF valid[q]
         THEN /\ Goto(t, "popCheck")
              /\ tout' = [tout EXCEPT ![t] = w]
              /\ ret' = [ret EXCEPT ![t] = "none"]
              /\ UNCHANGED <<arg, buf>>
         ELSE Return(t, "ERROR")
    /\ UNCHANGED <<queue, events, reg, popped>>

PopCheck(t, q) ==
    /\ pc[t] = "popCheck"
    /\ \/ /\ ~IsEmpty(head[q], tail[q])
          /\ Goto(t, "popCopy")
          /\ UNCHANGED <<ret, arg, tout, buf>>
       \/ /\ IsEmpty(head[q], tail[q])
          /\ tout[t] = "try"
          /\ Return(t, "EMPTY")
       \/ /\ IsEmpty(head[q], tail[q])
          /\ tout[t] # "try"
          /\ Goto(t, "popTake")
          /\ UNCHANGED <<ret, arg, tout, buf>>
    /\ UNCHANGED <<queue, events, reg, popped>>

PopTake(t, c) ==
    /\ pc[t] = "popTake"
    /\ rx[c]
    /\ rx' = [rx EXCEPT ![c] = FALSE]
    /\ Goto(t, "popCheck")
    /\ UNCHANGED <<queue, tx, irq, isr, arg, tout, reg, buf, ret, popped>>

PopTick(t, c) ==
    /\ pc[t] = "popTake"
    /\ ~rx[c]
    /\ IF tout[t] = "timed"
         THEN Return(t, "TIMEOUT")
         ELSE Goto(t, "popCheck") /\ UNCHANGED <<ret, arg, tout, buf>>
    /\ UNCHANGED <<queue, events, reg, popped>>

PopCopy(t, q) ==
    /\ pc[t] = "popCopy"
    /\ buf' = [buf EXCEPT ![t] = slot[q][SlotOf(tail[q])]]
    /\ Goto(t, "popInc")
    /\ UNCHANGED <<queue, events, arg, tout, reg, ret, popped>>

(* tail++: this task is the only one that writes tail *)
PopInc(t, q) ==
    /\ pc[t] = "popInc"
    /\ tail' = [tail EXCEPT ![q] = Incr(@)]
    /\ popped' = [popped EXCEPT ![q] = buf[t]]
    /\ Return(t, "VALID")
    /\ UNCHANGED <<valid, head, slot, events, reg>>

Pop(t, c) ==
    \/ \E w \in PopTout : PopCall(t, Peer(c), w)
    \/ PopCheck(t, Peer(c))
    \/ PopTake(t, c)
    \/ PopTick(t, c)
    \/ PopCopy(t, Peer(c))
    \/ PopInc(t, Peer(c))

(***************************************************************************)
(* IPC_IRQHandler of core c: clear the event, then os_event_handler gives  *)
(* event_rx and event_tx.  It preempts every task of the core; the other   *)
(* core may move between its steps.                                        *)
(***************************************************************************)
IsrClear(c) ==
    /\ boot[c] = "up"
    /\ irq[c] /\ isr[c] = "none"
    /\ irq' = [irq EXCEPT ![c] = FALSE]
    /\ isr' = [isr EXCEPT ![c] = "rx"]
    /\ UNCHANGED <<boot, queue, rx, tx, local>>

IsrGiveRx(c) ==
    /\ isr[c] = "rx"
    /\ rx' = [rx EXCEPT ![c] = @ \/ ~IsEmpty(head[Peer(c)], tail[Peer(c)])]
    /\ isr' = [isr EXCEPT ![c] = "tx"]
    /\ UNCHANGED <<boot, queue, tx, irq, local>>

(* Mutant: the event is cleared at the end of the handler, not at its      *)
(* start.                                                                  *)
IsrGiveTxClear(c) ==
    /\ isr[c] = "tx"
    /\ tx' = [tx EXCEPT ![c] = @ \/ ~IsFull(head[c], tail[c])]
    /\ isr' = [isr EXCEPT ![c] = "none"]
    /\ irq' = [irq EXCEPT ![c] = FALSE]
    /\ UNCHANGED <<boot, queue, rx, local>>

IsrGiveTx(c) ==
    /\ isr[c] = "tx"
    /\ tx' = [tx EXCEPT ![c] = @ \/ ~IsFull(head[c], tail[c])]
    /\ isr' = [isr EXCEPT ![c] = "none"]
    /\ UNCHANGED <<boot, queue, rx, irq, local>>

Isr(c) == IsrClear(c) \/ IsrGiveRx(c) \/ IsrGiveTx(c)

(***************************************************************************)
(* The specification                                                       *)
(***************************************************************************)
Boot(c) == BootClear(c) \/ BootValid(c)

PushStep(t) == CanRun(t) /\ Push(t, CoreOf[t]) /\ UNCHANGED boot
PopStep(t) == CanRun(t) /\ Pop(t, CoreOf[t]) /\ UNCHANGED boot
NotifyStep(t) == CanRun(t) /\ Notify(t, CoreOf[t]) /\ UNCHANGED boot

Next ==
    \/ \E c \in Core : Boot(c) \/ Isr(c)
    \/ \E t \in Pusher : PushStep(t)
    \/ \E t \in Popper : PopStep(t)
    \/ \E t \in Notifier : NotifyStep(t)

Spec == Init /\ [][Next]_vars

(***************************************************************************)
(* Fairness: both cores keep running, interrupts are delivered, the tick   *)
(* fires, and the dispatch task calls pop again and again.  No task is     *)
(* obliged to start a push.  It is strong for the tasks: interrupts and    *)
(* tasks of higher priority hold one off again and again, but handlers     *)
(* return and the dispatch task blocks up to 100 ticks between two runs.   *)
(***************************************************************************)
PushRuns(t) == pc[t] # "idle" /\ PushStep(t)

Fairness ==
    /\ \A c \in Core : WF_vars(Boot(c)) /\ WF_vars(Isr(c))
    /\ \A t \in Pusher : SF_vars(PushRuns(t))
    /\ \A t \in Popper : SF_vars(PopStep(t))

FairSpec == Spec /\ Fairness

(***************************************************************************)
(* Properties                                                              *)
(***************************************************************************)
TypeOK ==
    /\ boot \in [Core -> {"reset", "cleared", "up"}]
    /\ valid \in [Core -> BOOLEAN]
    /\ head \in [Core -> Counter]
    /\ tail \in [Core -> Counter]
    /\ slot \in [Core -> [Slots -> Msg \union {NoMsg}]]
    /\ rx \in [Core -> BOOLEAN]
    /\ tx \in [Core -> BOOLEAN]
    /\ irq \in [Core -> BOOLEAN]
    /\ isr \in [Core -> {"none", "rx", "tx"}]
    /\ pc \in [Task -> Pc]
    /\ arg \in [Task -> Msg \union {NoMsg}]
    /\ tout \in [Task -> Tout]
    /\ reg \in [Task -> Counter]
    /\ buf \in [Task -> Msg \union {NoMsg}]
    /\ ret \in [Task -> Status \union {"none"}]
    /\ popped \in [Core -> Msg \union {NoMsg}]

(* A queue in use never holds more messages than it has slots: the free-   *)
(* running counters of ipc_msg.h stay within count of each other, across   *)
(* the wrap of the 32-bit word.                                            *)
NeverOverfull ==
    \A c \in Core : valid[c] => DataCount(head[c], tail[c]) <= Count

(* The memcpy of a push and the memcpy of a pop on the same queue, which   *)
(* run on different cores with no lock, never touch the same slot.         *)
NoSlotShared ==
    \A t \in Pusher, u \in Popper :
        /\ pc[t] = "pushCopy" /\ pc[u] = "popCopy"
        /\ CoreOf[u] = Peer(CoreOf[t])
        => SlotOf(head[CoreOf[t]]) # SlotOf(tail[CoreOf[t]])

(* A task blocked in IPC_popMsg while its queue holds a message has a      *)
(* wake-up on its way: the semaphore, the interrupt, the handler before    *)
(* its receive test, or the sender before its SEV.  The 100-tick poll is   *)
(* never what delivers a message.                                          *)
WakeupPending ==
    \A u \in Popper :
        LET c == CoreOf[u]  q == Peer(c)
        IN  pc[u] = "popTake" /\ ~IsEmpty(head[q], tail[q]) =>
              \/ rx[c] \/ irq[c] \/ isr[c] = "rx"
              \/ \E t \in Pusher : CoreOf[t] = q /\ pc[t] = "pushSignal"

(* No push or pop works on a queue that IPC_initMsgQueue has not set up:   *)
(* such a call returns QUEUE_ERROR (ipc_msg.h:119-124).                    *)
OnlyInitialised ==
    /\ \A t \in Pusher : pc[t] \in PushPc => boot[CoreOf[t]] = "up"
    /\ \A u \in Popper : pc[u] \in PopPc => boot[Peer(CoreOf[u])] = "up"

(* What the two calls rely on between their steps.  With NeverOverfull and *)
(* OnlyInitialised this is the inductive invariant behind the properties.  *)
StartedIsValid == \A c \in Core : valid[c] <=> boot[c] = "up"

ClearedIsEmpty == \A c \in Core : boot[c] = "cleared" => head[c] = tail[c]

CallersOnly ==
    \A t \in Task :
        /\ pc[t] \in PushPc => t \in Pusher /\ arg[t] \in Msg
        /\ pc[t] \in PopPc => t \in Popper

RoomForPush ==
    \A t \in Pusher :
        pc[t] \in {"pushCopy", "pushLoad", "pushStore"} =>
            ~IsFull(head[CoreOf[t]], tail[CoreOf[t]])

CopiedMessage ==
    \A t \in Pusher :
        pc[t] \in {"pushLoad", "pushStore"} =>
            slot[CoreOf[t]][SlotOf(head[CoreOf[t]])] = arg[t]

LoadedHead ==
    \A t \in Pusher : pc[t] = "pushStore" => reg[t] = head[CoreOf[t]]

MessageForPop ==
    \A u \in Popper :
        pc[u] \in {"popCopy", "popInc"} =>
            ~IsEmpty(head[Peer(CoreOf[u])], tail[Peer(CoreOf[u])])

FetchedMessage ==
    \A u \in Popper :
        pc[u] = "popInc" =>
            buf[u] = slot[Peer(CoreOf[u])][SlotOf(tail[Peer(CoreOf[u])])]

QueueInv ==
    /\ StartedIsValid
    /\ ClearedIsEmpty
    /\ CallersOnly
    /\ OnlyInitialised
    /\ NeverOverfull
    /\ RoomForPush
    /\ CopiedMessage
    /\ LoadedHead
    /\ MessageForPop
    /\ FetchedMessage

(* The channel that a queue represents: the slots from tail up to head,    *)
(* none before the queue is valid.                                         *)
Window(h, t, s) == [i \in 1 .. DataCount(h, t) |-> s[SlotOf(t + i - 1)]]
ChanOf(c) == IF valid[c] THEN Window(head[c], tail[c], slot[c]) ELSE <<>>

(* The two queues implement two bounded FIFO channels.                     *)
Channel == INSTANCE MsgChannel WITH chan <- [c \in Core |-> ChanOf(c)]
ImplementsChannel == Channel!ChanSpec

(* A push that goes on to report QUEUE_INSERT has put its message, and     *)
(* only that one, at the end of the queue (ipc_msg.h:96-101).              *)
InsertDelivers ==
    [][\A t \in Pusher :
         pc[t] = "pushStore" /\ pc'[t] = "pushSignal" =>
            ChanOf(CoreOf[t])' = Append(ChanOf(CoreOf[t]), arg[t])]_vars

(* Whatever a core sends is taken by its peer: tail reaches every value    *)
(* that head has had.                                                      *)
SentIsTaken ==
    \A c \in Core, h \in Counter :
        (valid[c] /\ head[c] = h) ~> (tail[c] = h)

(* A blocking push returns, however full the queue was when it was called  *)
(* and although no pop ever signals that there is room again.              *)
BlockedPushReturns ==
    \A t \in Pusher :
        (pc[t] \in PushPc /\ tout[t] = "forever") ~> (ret[t] = "INSERT")
=============================================================================
