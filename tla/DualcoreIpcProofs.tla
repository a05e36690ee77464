------------------------- MODULE DualcoreIpcProofs -------------------------
(***************************************************************************)
(* The dual-core message queues for every queue size, word width, set of   *)
(* messages, set of tasks and assignment of priorities.                    *)
(***************************************************************************)
EXTENDS DualcoreIpc, RingIndexProofs, SequenceTheorems

(* What moving within a call, and returning from it, do to a task's state. *)
LEMMA GotoType ==
    ASSUME TypeOK, NEW t \in Task, NEW l \in Pc, Goto(t, l)
    PROVE  pc' \in [Task -> Pc]
  BY DEF TypeOK, Goto

LEMMA ReturnType ==
    ASSUME TypeOK, NEW t \in Task, NEW s \in Status, Return(t, s)
    PROVE  /\ pc' \in [Task -> Pc]
           /\ ret' \in [Task -> Status \union {"none"}]
           /\ arg' \in [Task -> Msg \union {NoMsg}]
           /\ tout' \in [Task -> Tout]
           /\ buf' \in [Task -> Msg \union {NoMsg}]
  <1>1. "idle" \in Pc /\ "try" \in Tout
  BY DEF Pc, Tout
<1>2. pc' \in [Task -> Pc]
  BY <1>1, GotoType DEF Return
<1>3. ret' \in [Task -> Status \union {"none"}]
  BY DEF TypeOK, Return
<1>4. arg' \in [Task -> Msg \union {NoMsg}] /\ buf' \in [Task -> Msg \union {NoMsg}]
  BY DEF TypeOK, Return
<1>5. tout' \in [Task -> Tout]
  BY <1>1 DEF TypeOK, Return
<1> QED
  BY <1>2, <1>3, <1>4, <1>5

(* Every variable keeps its type, however many tasks push. *)
THEOREM TypeCorrect == Spec => []TypeOK
<1>1. Init => TypeOK
  BY WrapWide DEF Init, PowerOn, TypeOK, Tout, Counter, Pc
<1>2. TypeOK /\ [Next]_vars => TypeOK'
  <2> SUFFICES ASSUME TypeOK, [Next]_vars PROVE TypeOK'
    OBVIOUS
  <2> USE DEF TypeOK
  <2>1. ASSUME NEW c \in Core, BootClear(c) PROVE TypeOK'
    BY <2>1, WrapWide DEF BootClear, local, Counter
  <2>2. ASSUME NEW c \in Core, BootValid(c) PROVE TypeOK'
    BY <2>2 DEF BootValid, events, local
  <2>3. ASSUME NEW c \in Core, Isr(c) PROVE TypeOK'
    <3>1. CASE IsrClear(c)
      BY <3>1 DEF IsrClear, queue, local
    <3>2. CASE IsrGiveRx(c)
      BY <3>2 DEF IsrGiveRx, queue, local
    <3>3. CASE IsrGiveTx(c)
      BY <3>3 DEF IsrGiveTx, queue, local
    <3> QED
      BY <2>3, <3>1, <3>2, <3>3 DEF Isr
  <2>4. ASSUME NEW t \in Task, NotifyStep(t) PROVE TypeOK'
    BY <2>4 DEF NotifyStep, Notify, queue, local
  <2>5. ASSUME NEW t \in Pusher, NEW c \in Core, c = CoreOf[t], Push(t, c), UNCHANGED boot
        PROVE  TypeOK'
    <3> t \in Task
      BY DEF Task
    <3> USE DEF queue, events, local
    <3>1. ASSUME NEW m \in Msg, NEW w \in PushTout, PushCall(t, c, m, w) PROVE TypeOK'
      <4>1. CASE valid[c]
        <5>1. w \in Tout /\ "pushCheck" \in Pc
          BY DualcoreAssumption DEF Pc, PushPc
        <5>2. pc' \in [Task -> Pc]
          BY <3>1, <4>1, <5>1, GotoType DEF PushCall
        <5>3. arg' \in [Task -> Msg \union {NoMsg}]
          BY <3>1, <4>1, <5>1, SMTT(30) DEF PushCall
        <5>4. tout' \in [Task -> Tout]
          BY <3>1, <4>1, <5>1, SMTT(30) DEF PushCall
        <5>5. ret' \in [Task -> Status \union {"none"}]
          BY <3>1, <4>1, <5>1, SMTT(30) DEF PushCall
        <5> QED
          BY <2>5, <3>1, <4>1, <5>2, <5>3, <5>4, <5>5 DEF PushCall
      <4>2. CASE ~valid[c]
        BY <2>5, <3>1, <4>2, ReturnType DEF PushCall, Status
      <4> QED
        BY <4>1, <4>2
    <3>2. CASE PushCheck(t, c)
      BY <2>5, <3>2, GotoType, ReturnType DEF PushCheck, Pc, PushPc, Status
    <3>3. CASE PushTake(t, c)
      BY <2>5, <3>3, GotoType DEF PushTake, Pc, PushPc
    <3>4. CASE PushTick(t, c)
      BY <2>5, <3>4, GotoType, ReturnType DEF PushTick, Pc, PushPc, Status
    <3>5. CASE PushCopy(t, c)
      <4>1. SlotOf(head[c]) \in Slots
        BY SlotType, WrapWide DEF Counter
      <4>2. slot' \in [Core -> [Slots -> Msg \union {NoMsg}]]
        BY <3>5, <4>1 DEF PushCopy
      <4> QED
        BY <2>5, <3>5, <4>2, GotoType DEF PushCopy, Pc, PushPc
    <3>6. CASE PushLoad(t, c)
      BY <2>5, <3>6, GotoType DEF PushLoad, Pc, PushPc
    <3>7. CASE PushStore(t, c)
      <4>1. Incr(reg[t]) \in Counter /\ 0 \in Counter
        BY IncrValue, WrapWide DEF Counter
      <4> QED
        BY <2>5, <3>7, <4>1, GotoType DEF PushStore, Pc, PushPc
    <3>8. CASE PushSignal(t, c)
      BY <2>5, <3>8, ReturnType DEF PushSignal, Status
    <3> QED
      BY <2>5, <3>1, <3>2, <3>3, <3>4, <3>5, <3>6, <3>7, <3>8 DEF Push
  <2>6. ASSUME NEW t \in Popper, NEW c \in Core, c = CoreOf[t], Pop(t, c), UNCHANGED boot
        PROVE  TypeOK'
    <3> t \in Task /\ Peer(c) \in Core
      BY DEF Task, Peer, Core
    <3> USE DEF queue, events, local
    <3>1. ASSUME NEW w \in PopTout, PopCall(t, Peer(c), w) PROVE TypeOK'
      <4>1. CASE valid[Peer(c)]
        <5>1. w \in Tout /\ "popCheck" \in Pc
          BY DualcoreAssumption DEF Pc, PopPc
        <5>2. pc' \in [Task -> Pc]
          BY <3>1, <4>1, <5>1, GotoType DEF PopCall
        <5>3. tout' \in [Task -> Tout]
          BY <3>1, <4>1, <5>1, SMTT(30) DEF PopCall
        <5>4. ret' \in [Task -> Status \union {"none"}]
          BY <3>1, <4>1, <5>1, SMTT(30) DEF PopCall
        <5> QED
          BY <2>6, <3>1, <4>1, <5>2, <5>3, <5>4 DEF PopCall
      <4>2. CASE ~valid[Peer(c)]
        BY <2>6, <3>1, <4>2, ReturnType DEF PopCall, Status
      <4> QED
        BY <4>1, <4>2
    <3>2. CASE PopCheck(t, Peer(c))
      BY <2>6, <3>2, GotoType, ReturnType DEF PopCheck, Pc, PopPc, Status
    <3>3. CASE PopTake(t, c)
      BY <2>6, <3>3, GotoType DEF PopTake, Pc, PopPc
    <3>4. CASE PopTick(t, c)
      BY <2>6, <3>4, GotoType, ReturnType DEF PopTick, Pc, PopPc, Status
    <3>5. CASE PopCopy(t, Peer(c))
      <4>1. SlotOf(tail[Peer(c)]) \in Slots
        BY SlotType, WrapWide DEF Counter
      <4>2. buf' \in [Task -> Msg \union {NoMsg}]
        BY <3>5, <4>1 DEF PopCopy
      <4> QED
        BY <2>6, <3>5, <4>2, GotoType DEF PopCopy, Pc, PopPc
    <3>6. CASE PopInc(t, Peer(c))
      <4>1. tail' \in [Core -> Counter] /\ popped' \in [Core -> Msg \union {NoMsg}]
        BY <3>6, IncrValue DEF PopInc
      <4> QED
        BY <2>6, <3>6, <4>1, ReturnType DEF PopInc, Status
    <3> QED
      BY <2>6, <3>1, <3>2, <3>3, <3>4, <3>5, <3>6 DEF Pop
  <2>7. CASE UNCHANGED vars
    BY <2>7 DEF vars, queue, events, local
  <2> QED
    BY <2>1, <2>2, <2>3, <2>4, <2>5, <2>6, <2>7, DualcoreAssumption
    DEF Next, Boot, PushStep, PopStep, Task
<1> QED
  BY <1>1, <1>2, PTL DEF Spec

LEMMA PeerOfCore ==
    ASSUME NEW c \in Core
    PROVE  Peer(c) \in Core /\ Peer(c) # c /\ Peer(Peer(c)) = c
  BY DualcoreAssumption DEF Peer, Core

LEMMA TaskCore ==
    /\ Pusher \subseteq Task /\ Popper \subseteq Task
    /\ \A t \in Task : CoreOf[t] \in Core
  BY DualcoreAssumption DEF Task

LEMMA QueueInit == Init => QueueInv
  BY TaskCore
  DEF Init, PowerOn, QueueInv, StartedIsValid, ClearedIsEmpty, CallersOnly,
         OnlyInitialised, NeverOverfull, RoomForPush, CopiedMessage, LoadedHead,
         MessageForPop, FetchedMessage, PushPc, PopPc

(* A step that leaves the queues and the tasks alone. *)
LEMMA QueueIdle ==
    ASSUME QueueInv, UNCHANGED <<boot, queue, local>>
    PROVE  QueueInv'
  BY DEF QueueInv, StartedIsValid, ClearedIsEmpty, CallersOnly,
         OnlyInitialised, NeverOverfull, RoomForPush, CopiedMessage, LoadedHead,
         MessageForPop, FetchedMessage, queue, local

LEMMA QueueBoot ==
    ASSUME TypeOK, QueueInv, NEW c \in Core, Boot(c)
    PROVE  QueueInv'
<1> USE TaskCore, PeerOfCore
<1>1. CASE BootClear(c)
  <2> USE <1>1 DEF TypeOK, BootClear, QueueInv, local
  <2>1. StartedIsValid' /\ ClearedIsEmpty'
    BY DEF StartedIsValid, ClearedIsEmpty
  <2>2. CallersOnly'
    BY DEF CallersOnly
  <2>3. OnlyInitialised'
    BY DEF OnlyInitialised
  <2>4. NeverOverfull'
    BY DEF NeverOverfull
  <2>5. /\ \A t \in Pusher : pc[t] \in PushPc => CoreOf[t] # c
        /\ \A u \in Popper : pc[u] \in PopPc => Peer(CoreOf[u]) # c
    BY DEF OnlyInitialised
  <2>6. RoomForPush' /\ CopiedMessage' /\ LoadedHead'
    BY <2>5 DEF RoomForPush, CopiedMessage, LoadedHead, PushPc
  <2>7. MessageForPop' /\ FetchedMessage'
    BY <2>5 DEF MessageForPop, FetchedMessage, PopPc
  <2> QED
    BY <2>1, <2>2, <2>3, <2>4, <2>6, <2>7
<1>2. CASE BootValid(c)
  <2>1. DataCount(head[c], tail[c]) <= Count
    BY <1>2, EmptyCount, RingAssumption
    DEF BootValid, QueueInv, ClearedIsEmpty, TypeOK, IsEmpty
  <2> QED
    BY <1>2, <2>1
    DEF TypeOK, BootValid, QueueInv, StartedIsValid, ClearedIsEmpty, CallersOnly,
         OnlyInitialised, NeverOverfull, RoomForPush, CopiedMessage, LoadedHead,
         MessageForPop, FetchedMessage, local, events, PushPc, PopPc
<1> QED
  BY <1>1, <1>2 DEF Boot

(***************************************************************************)
(* A step of task t that only moves its program counter, to l, and sets    *)
(* its locals: what has to hold of l for the invariant to survive.         *)
(***************************************************************************)
LEMMA QueueControl ==
    ASSUME TypeOK, QueueInv, NEW t \in Task, NEW c \in Core, c = CoreOf[t],
           UNCHANGED <<boot, queue, reg>>,
           NEW l \in Pc \ {"pushLoad", "pushStore", "popInc"}, Goto(t, l),
           \A u \in Task : u # t => arg'[u] = arg[u] /\ buf'[u] = buf[u],
           l \in PushPc => t \in Pusher /\ arg'[t] \in Msg /\ boot[c] = "up",
           l \in PopPc => t \in Popper /\ boot[Peer(c)] = "up",
           l = "pushCopy" => ~IsFull(head[c], tail[c]),
           l = "popCopy" => ~IsEmpty(head[Peer(c)], tail[Peer(c)])
    PROVE  QueueInv'
<1> USE TaskCore, PeerOfCore DEF queue, QueueInv
<1>1. /\ pc'[t] = l
      /\ \A u \in Task : u # t => pc'[u] = pc[u]
  BY DEF Goto, TypeOK
<1>2. StartedIsValid' /\ ClearedIsEmpty' /\ NeverOverfull'
  BY DEF StartedIsValid, ClearedIsEmpty, NeverOverfull
<1>3. CallersOnly'
  BY <1>1 DEF CallersOnly
<1>4. OnlyInitialised'
  BY <1>1 DEF OnlyInitialised
<1>5. RoomForPush'
  BY <1>1 DEF RoomForPush
<1>6. CopiedMessage' /\ LoadedHead'
  BY <1>1 DEF CopiedMessage, LoadedHead
<1>7. MessageForPop'
  BY <1>1 DEF MessageForPop
<1>8. FetchedMessage'
  BY <1>1 DEF FetchedMessage
<1> QED
  BY <1>2, <1>3, <1>4, <1>5, <1>6, <1>7, <1>8

LEMMA ReturnControl ==
    ASSUME TypeOK, QueueInv, NEW t \in Task, NEW s, Return(t, s),
           UNCHANGED <<boot, queue, reg>>
    PROVE  QueueInv'
<1>1. "idle" \in Pc \ {"pushLoad", "pushStore", "popInc"}
  BY DEF Pc
<1>2. \A u \in Task : u # t => arg'[u] = arg[u] /\ buf'[u] = buf[u]
  BY DEF Return, TypeOK
<1> QED
  BY <1>1, <1>2, TaskCore, QueueControl DEF Return, PushPc, PopPc

(***************************************************************************)
(* A step of a push by task t of core c.                                   *)
(***************************************************************************)
LEMMA QueuePush ==
    ASSUME SinglePusher, TypeOK, QueueInv,
           NEW t \in Pusher, NEW c \in Core, c = CoreOf[t],
           boot[c] = "up", Push(t, c), UNCHANGED boot
    PROVE  QueueInv'
<1> t \in Task
  BY TaskCore
<1>1. \A u \in Pusher : u # t => CoreOf[u] # c
  BY DEF SinglePusher
<1>2. valid[c] /\ head[c] \in Counter /\ tail[c] \in Counter
  BY DEF QueueInv, StartedIsValid, TypeOK
<1> USE TaskCore, PeerOfCore DEF queue, events
<1>3. ASSUME NEW m \in Msg, NEW w \in PushTout, PushCall(t, c, m, w) PROVE QueueInv'
  <2>1. /\ Goto(t, "pushCheck")
        /\ UNCHANGED <<boot, queue, reg>>
        /\ arg'[t] = m
        /\ \A u \in Task : u # t => arg'[u] = arg[u] /\ buf'[u] = buf[u]
    BY <1>2, <1>3 DEF PushCall, TypeOK
  <2> QED
    BY <2>1, QueueControl DEF Pc, PushPc, PopPc
<1>4. CASE PushCheck(t, c)
  <2>1. UNCHANGED <<boot, queue, reg>> /\ arg[t] \in Msg
    BY <1>4 DEF PushCheck, QueueInv, CallersOnly, PushPc
  <2>2. CASE Return(t, "FULL")
    BY <2>1, <2>2, ReturnControl
  <2>3. CASE Goto(t, "pushCopy") /\ ~IsFull(head[c], tail[c]) /\ UNCHANGED <<arg, buf>>
    BY <2>1, <2>3, QueueControl DEF Pc, PushPc, PopPc
  <2>4. CASE Goto(t, "pushTake") /\ UNCHANGED <<arg, buf>>
    BY <2>1, <2>4, QueueControl DEF Pc, PushPc, PopPc
  <2> QED
    BY <1>4, <2>2, <2>3, <2>4 DEF PushCheck
<1>5. CASE PushTake(t, c) \/ PushTick(t, c)
  <2>1. UNCHANGED <<boot, queue, reg>> /\ arg[t] \in Msg
    BY <1>5 DEF PushTake, PushTick, QueueInv, CallersOnly, PushPc
  <2>2. CASE Return(t, "TIMEOUT")
    BY <2>1, <2>2, ReturnControl
  <2>3. CASE Goto(t, "pushCheck") /\ UNCHANGED <<arg, buf>>
    BY <2>1, <2>3, QueueControl DEF Pc, PushPc, PopPc
  <2> QED
    BY <1>5, <2>2, <2>3 DEF PushTake, PushTick
<1>6. CASE PushCopy(t, c)
  <2> USE <1>2, <1>6 DEF PushCopy, Goto, QueueInv, TypeOK
  <2>1. StartedIsValid' /\ ClearedIsEmpty' /\ NeverOverfull'
    BY DEF StartedIsValid, ClearedIsEmpty, NeverOverfull
  <2>2. CallersOnly' /\ OnlyInitialised'
    BY DEF CallersOnly, OnlyInitialised, PushPc, PopPc
  <2>3. RoomForPush' /\ LoadedHead'
    BY DEF RoomForPush, LoadedHead
  <2>4. SlotOf(head[c]) \in Slots
    BY SlotType DEF Counter
  <2>5. CopiedMessage'
    BY <1>1, <2>4 DEF CopiedMessage
  <2>6. MessageForPop'
    BY DEF MessageForPop
  <2>7. FetchedMessage'
    <3> SUFFICES ASSUME NEW u \in Popper, pc'[u] = "popInc"
                 PROVE  buf'[u] = slot'[Peer(CoreOf[u])][SlotOf(tail'[Peer(CoreOf[u])])]
      BY DEF FetchedMessage
    <3>1. pc[u] = "popInc"
      OBVIOUS
    <3>2. CASE Peer(CoreOf[u]) # c
      BY <3>1, <3>2 DEF FetchedMessage
    <3>3. CASE Peer(CoreOf[u]) = c
      <4>1. ~IsFull(head[c], tail[c]) /\ ~IsEmpty(head[c], tail[c])
        BY <3>1, <3>3 DEF RoomForPush, MessageForPop
      <4>2. SlotOf(head[c]) # SlotOf(tail[c])
        BY <4>1, HeadTailApart
      <4> QED
        BY <3>1, <3>3, <4>2 DEF FetchedMessage
    <3> QED
      BY <3>2, <3>3
  <2> QED
    BY <2>1, <2>2, <2>3, <2>5, <2>6, <2>7
<1>7. CASE PushLoad(t, c)
  <2> USE <1>2, <1>7 DEF PushLoad, Goto, QueueInv, TypeOK
  <2>1. StartedIsValid' /\ ClearedIsEmpty' /\ NeverOverfull'
    BY DEF StartedIsValid, ClearedIsEmpty, NeverOverfull
  <2>2. CallersOnly' /\ OnlyInitialised'
    BY DEF CallersOnly, OnlyInitialised, PushPc, PopPc
  <2>3. RoomForPush' /\ CopiedMessage' /\ LoadedHead'
    BY DEF RoomForPush, CopiedMessage, LoadedHead
  <2>4. MessageForPop' /\ FetchedMessage'
    BY DEF MessageForPop, FetchedMessage
  <2> QED
    BY <2>1, <2>2, <2>3, <2>4
<1>8. CASE PushStore(t, c)
  <2> USE <1>2, <1>8 DEF PushStore, Goto, QueueInv, TypeOK
  <2>1. /\ ~IsFull(head[c], tail[c])
        /\ head'[c] = Incr(head[c])
        /\ \A q \in Core : q # c => head'[q] = head[q]
    BY DEF RoomForPush, LoadedHead
  <2>2. StartedIsValid' /\ ClearedIsEmpty'
    BY <2>1 DEF StartedIsValid, ClearedIsEmpty
  <2>3. DataCount(head'[c], tail[c]) = DataCount(head[c], tail[c]) + 1
    BY <2>1, CountAfterPush
  <2>4. DataCount(head'[c], tail[c]) <= Count
    <3>1. DataCount(head[c], tail[c]) \in Int
      BY CountNat
    <3> QED
      BY <2>1, <2>3, <3>1, RingAssumption DEF IsFull
  <2>5. NeverOverfull'
    BY <2>1, <2>4 DEF NeverOverfull
  <2>6. CallersOnly' /\ OnlyInitialised'
    BY DEF CallersOnly, OnlyInitialised, PushPc, PopPc
  <2>7. RoomForPush' /\ CopiedMessage' /\ LoadedHead'
    BY <1>1, <2>1 DEF RoomForPush, CopiedMessage, LoadedHead
  <2>8. ~IsEmpty(head'[c], tail[c])
    <3>1. head'[c] \in Counter
      BY <2>1, IncrValue
    <3>2. DataCount(head'[c], tail[c]) # 0
      BY <2>3, DataCountValue, SMTT(30) DEF Counter
    <3> QED
      BY <3>1, <3>2, EmptyCount
  <2>9. MessageForPop' /\ FetchedMessage'
    BY <2>1, <2>8 DEF MessageForPop, FetchedMessage
  <2> QED
    BY <2>2, <2>5, <2>6, <2>7, <2>9
<1>9. CASE PushSignal(t, c)
  BY <1>9, ReturnControl DEF PushSignal
<1> QED
  BY <1>3, <1>4, <1>5, <1>6, <1>7, <1>8, <1>9 DEF Push

(***************************************************************************)
(* A step of a pop by task t of core c, from the queue q of its peer.      *)
(***************************************************************************)
LEMMA QueuePop ==
    ASSUME TypeOK, QueueInv, NEW t \in Popper, NEW c \in Core, c = CoreOf[t],
           Pop(t, c), UNCHANGED boot
    PROVE  QueueInv'
<1> DEFINE q == Peer(c)
<1> t \in Task /\ q \in Core
  BY TaskCore, PeerOfCore
<1>1. \A u \in Popper : u # t => Peer(CoreOf[u]) # q
  BY TaskCore, PeerOfCore, DualcoreAssumption
<1>2. head[q] \in Counter /\ tail[q] \in Counter
  BY DEF TypeOK
<1> USE TaskCore, PeerOfCore DEF queue, events
<1>3. ASSUME NEW w \in PopTout, PopCall(t, q, w) PROVE QueueInv'
  <2>1. CASE valid[q]
    <3>1. Goto(t, "popCheck") /\ UNCHANGED <<boot, queue, reg, arg, buf>> /\ boot[q] = "up"
      BY <1>3, <2>1 DEF PopCall, QueueInv, StartedIsValid
    <3> QED
      BY <3>1, QueueControl DEF Pc, PushPc, PopPc
  <2>2. CASE ~valid[q]
    BY <1>3, <2>2, ReturnControl DEF PopCall
  <2> QED
    BY <2>1, <2>2
<1>4. CASE PopCheck(t, q)
  <2>1. UNCHANGED <<boot, queue, reg>> /\ boot[q] = "up"
    BY <1>4 DEF PopCheck, QueueInv, OnlyInitialised, PopPc
  <2>2. CASE Return(t, "EMPTY")
    BY <2>1, <2>2, ReturnControl
  <2>3. CASE Goto(t, "popCopy") /\ ~IsEmpty(head[q], tail[q]) /\ UNCHANGED <<arg, buf>>
    BY <2>1, <2>3, QueueControl DEF Pc, PushPc, PopPc
  <2>4. CASE Goto(t, "popTake") /\ UNCHANGED <<arg, buf>>
    BY <2>1, <2>4, QueueControl DEF Pc, PushPc, PopPc
  <2> QED
    BY <1>4, <2>2, <2>3, <2>4 DEF PopCheck
<1>5. CASE PopTake(t, c) \/ PopTick(t, c)
  <2>1. UNCHANGED <<boot, queue, reg>> /\ boot[q] = "up"
    BY <1>5 DEF PopTake, PopTick, QueueInv, OnlyInitialised, PopPc
  <2>2. CASE Return(t, "TIMEOUT")
    BY <2>1, <2>2, ReturnControl
  <2>3. CASE Goto(t, "popCheck") /\ UNCHANGED <<arg, buf>>
    BY <2>1, <2>3, QueueControl DEF Pc, PushPc, PopPc
  <2> QED
    BY <1>5, <2>2, <2>3 DEF PopTake, PopTick
<1>6. CASE PopCopy(t, q)
  <2> USE <1>2, <1>6 DEF PopCopy, Goto, QueueInv, TypeOK
  <2>1. StartedIsValid' /\ ClearedIsEmpty' /\ NeverOverfull'
    BY DEF StartedIsValid, ClearedIsEmpty, NeverOverfull
  <2>2. CallersOnly' /\ OnlyInitialised'
    BY DEF CallersOnly, OnlyInitialised, PushPc, PopPc
  <2>3. RoomForPush' /\ CopiedMessage' /\ LoadedHead'
    BY DEF RoomForPush, CopiedMessage, LoadedHead
  <2>4. MessageForPop' /\ FetchedMessage'
    BY DEF MessageForPop, FetchedMessage
  <2> QED
    BY <2>1, <2>2, <2>3, <2>4
<1>7. CASE PopInc(t, q)
  <2> USE <1>2, <1>7 DEF PopInc, Return, Goto, QueueInv, TypeOK
  <2>1. /\ ~IsEmpty(head[q], tail[q]) /\ boot[q] = "up" /\ valid[q]
        /\ tail'[q] = Incr(tail[q])
        /\ \A r \in Core : r # q => tail'[r] = tail[r]
    BY DEF MessageForPop, OnlyInitialised, StartedIsValid, PopPc
  <2>2. StartedIsValid' /\ ClearedIsEmpty'
    BY <2>1 DEF StartedIsValid, ClearedIsEmpty
  <2>3. DataCount(head[q], tail'[q]) = DataCount(head[q], tail[q]) - 1
    BY <2>1, CountAfterPop
  <2>4. /\ DataCount(head[q], tail[q]) \in Int
        /\ DataCount(head[q], tail[q]) <= Count
    BY <2>1, DataCountValue, WrapWide DEF NeverOverfull, Counter
  <2>5. NeverOverfull'
    BY <2>1, <2>3, <2>4, RingAssumption DEF NeverOverfull
  <2>6. CallersOnly' /\ OnlyInitialised'
    BY DEF CallersOnly, OnlyInitialised, PushPc, PopPc
  <2>7. ~IsFull(head[q], tail'[q])
    BY <2>3, <2>4, RingAssumption DEF IsFull
  <2>8. RoomForPush' /\ CopiedMessage' /\ LoadedHead'
    BY <2>1, <2>7 DEF RoomForPush, CopiedMessage, LoadedHead
  <2>9. MessageForPop' /\ FetchedMessage'
    BY <1>1, <2>1 DEF MessageForPop, FetchedMessage
  <2> QED
    BY <2>2, <2>5, <2>6, <2>8, <2>9
<1> QED
  BY <1>3, <1>4, <1>5, <1>6, <1>7 DEF Pop

(***************************************************************************)
(* The invariant, and what follows from it.                                *)
(***************************************************************************)

(* If one task per core pushes, then between any two steps of the two      *)
(* cores the queues are as every call expects to find them.                *)
THEOREM QueueCorrect ==
    ASSUME SinglePusher
    PROVE  Spec => []QueueInv
<1>1. TypeOK /\ QueueInv /\ [Next]_vars => QueueInv'
  <2> SUFFICES ASSUME TypeOK, QueueInv, [Next]_vars PROVE QueueInv'
    OBVIOUS
  <2>1. ASSUME NEW c \in Core, Boot(c) PROVE QueueInv'
    BY <2>1, QueueBoot
  <2>2. ASSUME NEW c \in Core, Isr(c) PROVE QueueInv'
    BY <2>2, QueueIdle DEF Isr, IsrClear, IsrGiveRx, IsrGiveTx
  <2>3. ASSUME NEW t \in Pusher, PushStep(t) PROVE QueueInv'
    BY <2>3, TaskCore, QueuePush DEF PushStep, CanRun
  <2>4. ASSUME NEW t \in Popper, PopStep(t) PROVE QueueInv'
    BY <2>4, TaskCore, QueuePop DEF PopStep
  <2>5. ASSUME NEW t \in Notifier, NotifyStep(t) PROVE QueueInv'
    BY <2>5, QueueIdle DEF NotifyStep, Notify
  <2>6. CASE UNCHANGED vars
    BY <2>6, QueueIdle DEF vars
  <2> QED
    BY <2>1, <2>2, <2>3, <2>4, <2>5, <2>6 DEF Next
<1> QED
  BY <1>1, QueueInit, TypeCorrect, PTL DEF Spec

(* No queue is ever filled beyond its slots, across every wrap of the      *)
(* counters.                                                               *)
THEOREM NeverOverfullCorrect ==
    ASSUME SinglePusher
    PROVE  Spec => []NeverOverfull
<1>1. QueueInv => NeverOverfull
  BY DEF QueueInv
<1> QED
  BY <1>1, QueueCorrect, PTL

(* The unlocked memcpy of a push never meets the memcpy of a pop.          *)
THEOREM NoSlotSharedCorrect ==
    ASSUME SinglePusher
    PROVE  Spec => []NoSlotShared
<1>1. TypeOK /\ QueueInv => NoSlotShared
  <2> SUFFICES ASSUME TypeOK, QueueInv,
                      NEW t \in Pusher, NEW u \in Popper,
                      pc[t] = "pushCopy", pc[u] = "popCopy",
                      CoreOf[u] = Peer(CoreOf[t])
               PROVE  SlotOf(head[CoreOf[t]]) # SlotOf(tail[CoreOf[t]])
    BY DEF NoSlotShared
  <2> DEFINE c == CoreOf[t]
  <2>1. c \in Core /\ Peer(CoreOf[u]) = c
    BY TaskCore, PeerOfCore
  <2>2. ~IsFull(head[c], tail[c]) /\ ~IsEmpty(head[c], tail[c])
    BY <2>1 DEF QueueInv, RoomForPush, MessageForPop
  <2> QED
    BY <2>1, <2>2, HeadTailApart DEF TypeOK
<1> QED
  BY <1>1, TypeCorrect, QueueCorrect, PTL

(* After a power-on reset no call works on an uninitialised queue.         *)
THEOREM OnlyInitialisedCorrect ==
    ASSUME SinglePusher
    PROVE  Spec => []OnlyInitialised
<1>1. QueueInv => OnlyInitialised
  BY DEF QueueInv
<1> QED
  BY <1>1, QueueCorrect, PTL

(* A blocked pop of a non-empty queue always has its wake-up on the way:   *)
(* no interleaving of the sender's SEV, the handler and the wait loses it. *)
THEOREM WakeupCorrect ==
    ASSUME SinglePusher
    PROVE  Spec => []WakeupPending
<1> USE TaskCore, PeerOfCore
<1>1. Init => WakeupPending
  BY DEF Init, PowerOn, WakeupPending
<1>2. TypeOK /\ QueueInv /\ WakeupPending /\ [Next]_vars => WakeupPending'
  <2> SUFFICES ASSUME TypeOK, QueueInv, WakeupPending, [Next]_vars,
                      NEW u \in Popper, NEW c \in Core, c = CoreOf[u],
                      NEW q \in Core, q = Peer(c),
                      pc'[u] = "popTake", ~IsEmpty(head'[q], tail'[q])
               PROVE  \/ rx'[c] \/ irq'[c] \/ isr'[c] = "rx"
                      \/ \E t \in Pusher : CoreOf[t] = q /\ pc'[t] = "pushSignal"
    BY DEF WakeupPending
  <2> DEFINE Wake == \/ rx[c] \/ irq[c] \/ isr[c] = "rx"
                     \/ \E t \in Pusher : CoreOf[t] = q /\ pc[t] = "pushSignal"
  <2>0. pc[u] = "popTake" /\ ~IsEmpty(head[q], tail[q]) => Wake
    BY DEF WakeupPending
  <2>1. ASSUME NEW d \in Core, Boot(d) PROVE Wake'
    <3>1. pc[u] = "popTake" /\ boot[q] = "up"
      BY <2>1 DEF Boot, BootClear, BootValid, local, QueueInv, OnlyInitialised, PopPc
    <3>2. CASE BootClear(d)
      <4>1. d # q
        BY <3>1, <3>2 DEF BootClear
      <4>2. ~IsEmpty(head[q], tail[q])
        BY <3>2, <4>1 DEF BootClear, TypeOK
      <4> QED
        BY <2>0, <3>1, <3>2, <4>2 DEF BootClear, local, TypeOK
    <3>3. CASE BootValid(d)
      BY <2>0, <3>1, <3>3 DEF BootValid, local, events
    <3> QED
      BY <2>1, <3>2, <3>3 DEF Boot
  <2>2. ASSUME NEW d \in Core, Isr(d) PROVE Wake'
    BY <2>0, <2>2, ZenonT(60) DEF Isr, IsrClear, IsrGiveRx, IsrGiveTx, queue, local, TypeOK
  <2>3. ASSUME NEW t \in Pusher, PushStep(t) PROVE Wake'
    BY <2>0, <2>3
    DEF PushStep, Push, PushCall, PushCheck, PushTake, PushTick, PushCopy, PushLoad,
        PushStore, PushSignal, Goto, Return, queue, events, TypeOK
  <2>4. ASSUME NEW t \in Popper, PopStep(t) PROVE Wake'
    <3> DEFINE r == Peer(CoreOf[t])
    <3>1. CASE t = u
      <4>1. PopCheck(u, q) /\ UNCHANGED queue
        BY <2>4, <3>1 DEF PopStep, Pop, PopCall, PopCheck, PopTake, PopTick, PopCopy,
                          PopInc, Goto, Return, TypeOK
      <4> QED
        BY <4>1 DEF PopCheck, Goto, queue, TypeOK
    <3>2. CASE t # u
      <4>1. CoreOf[t] = q /\ r = c
        BY <3>2, DualcoreAssumption DEF Core, Peer
      <4>2. pc[t] # "pushSignal" /\ \A v \in Task : v # t => pc'[v] = pc[v]
        BY <2>4 DEF PopStep, Pop, PopCall, PopCheck, PopTake, PopTick, PopCopy,
                    PopInc, Goto, Return, TypeOK
      <4>3. head'[q] = head[q] /\ tail'[q] = tail[q]
        BY <2>4, <4>1 DEF PopStep, Pop, PopCall, PopCheck, PopTake, PopTick, PopCopy,
                          PopInc, queue, TypeOK
      <4>4. rx'[c] = rx[c] /\ irq'[c] = irq[c] /\ isr'[c] = isr[c]
        BY <2>4, <4>1 DEF PopStep, Pop, PopCall, PopCheck, PopTake, PopTick, PopCopy,
                          PopInc, events, TypeOK
      <4> QED
        BY <2>0, <3>2, <4>2, <4>3, <4>4
    <3> QED
      BY <3>1, <3>2
  <2>5. ASSUME NEW t \in Notifier, NotifyStep(t) PROVE Wake'
    BY <2>0, <2>5 DEF NotifyStep, Notify, queue, local, TypeOK
  <2>6. CASE UNCHANGED vars
    BY <2>0, <2>6 DEF vars, queue, events, local
  <2> QED
    BY <2>1, <2>2, <2>3, <2>4, <2>5, <2>6 DEF Next
<1> QED
  BY <1>1, <1>2, TypeCorrect, QueueCorrect, PTL DEF Spec

(***************************************************************************)
(* The dual-core message queues implement bounded FIFO channels: every     *)
(* step of the two cores is a send, a receive or invisible.                *)
(***************************************************************************)
Cell == Msg \union {NoMsg}

(* What is read off the slots behind a tail is a sequence. *)
LEMMA WindowShape ==
    ASSUME NEW h \in Counter, NEW t \in Counter, NEW s \in [Slots -> Cell]
    PROVE  /\ DataCount(h, t) \in Nat
           /\ Window(h, t, s) \in Seq(Cell)
           /\ Len(Window(h, t, s)) = DataCount(h, t)
           /\ \A i \in 1 .. DataCount(h, t) : Window(h, t, s)[i] = s[SlotOf(t + i - 1)]
<1>1. DataCount(h, t) \in Nat
  BY CountNat
<1>2. \A i \in 1 .. DataCount(h, t) : s[SlotOf(t + i - 1)] \in Cell
  <2> SUFFICES ASSUME NEW i \in 1 .. DataCount(h, t)
               PROVE  s[SlotOf(t + i - 1)] \in Cell
    OBVIOUS
  <2>1. t + i - 1 \in Int
    BY <1>1, WrapWide DEF Counter
  <2> QED
    BY <2>1, SlotType
<1>3. Window(h, t, s) \in [1 .. DataCount(h, t) -> Cell]
  BY <1>2 DEF Window
<1>4. Window(h, t, s) \in Seq(Cell)
  BY <1>1, <1>3, SeqDef
<1>5. Len(Window(h, t, s)) = DataCount(h, t)
  BY <1>1, <1>3, <1>4, LenProperties
<1> QED
  BY <1>1, <1>4, <1>5 DEF Window

(* Advancing head over a filled slot appends what the slot holds. *)
LEMMA WindowPush ==
    ASSUME NEW h \in Counter, NEW t \in Counter, NEW s \in [Slots -> Cell], ~IsFull(h, t)
    PROVE  Window(Incr(h), t, s) = Append(Window(h, t, s), s[SlotOf(h)])
<1> DEFINE n == DataCount(h, t)
           m == s[SlotOf(h)]
           old == Window(h, t, s)
           new == Window(Incr(h), t, s)
<1>1. Incr(h) \in Counter /\ DataCount(Incr(h), t) = n + 1
  BY IncrValue, CountAfterPush
<1>2. /\ n \in Nat /\ old \in Seq(Cell) /\ Len(old) = n
      /\ \A i \in 1 .. n : old[i] = s[SlotOf(t + i - 1)]
  BY WindowShape
<1>3. /\ new \in Seq(Cell) /\ Len(new) = n + 1
      /\ \A i \in 1 .. n + 1 : new[i] = s[SlotOf(t + i - 1)]
  BY <1>1, WindowShape, SMTT(60)
<1>4. t + (n + 1) - 1 = t + n /\ SlotOf(t + n) = SlotOf(h)
  BY <1>2, WrapWide, SlotOfHead DEF Counter
<1>5. m \in Cell
  BY SlotType, WrapWide DEF Counter
<1> HIDE DEF n, m, old, new
<1>6. new[n + 1] = m
  BY <1>2, <1>3, <1>4 DEF m
<1>7. /\ Append(old, m) \in Seq(Cell)
      /\ Len(Append(old, m)) = n + 1
      /\ \A i \in 1 .. n + 1 : Append(old, m)[i] = IF i = n + 1 THEN m ELSE old[i]
  BY <1>2, <1>5
<1>8. \A i \in 1 .. n + 1 : new[i] = Append(old, m)[i]
  BY <1>2, <1>3, <1>6, <1>7, SMTT(30)
<1>9. new = Append(old, m)
  BY <1>3, <1>7, <1>8, SeqEqual
<1> QED
  BY <1>9 DEF new, old, m

(* Advancing tail drops the first message. *)
LEMMA WindowPop ==
    ASSUME NEW h \in Counter, NEW t \in Counter, NEW s \in [Slots -> Cell], ~IsEmpty(h, t)
    PROVE  /\ Window(h, t, s) # <<>>
           /\ Head(Window(h, t, s)) = s[SlotOf(t)]
           /\ Window(h, Incr(t), s) = Tail(Window(h, t, s))
<1> DEFINE n == DataCount(h, t)
           old == Window(h, t, s)
           new == Window(h, Incr(t), s)
<1>1. Incr(t) \in Counter /\ DataCount(h, Incr(t)) = n - 1
  BY IncrValue, CountAfterPop
<1>2. /\ n \in Nat /\ old \in Seq(Cell) /\ Len(old) = n
      /\ \A i \in 1 .. n : old[i] = s[SlotOf(t + i - 1)]
  BY WindowShape
<1>3. n # 0
  BY EmptyCount
<1>4. /\ new \in Seq(Cell) /\ Len(new) = n - 1
      /\ \A i \in 1 .. n - 1 : new[i] = s[SlotOf(Incr(t) + i - 1)]
  <2>1. /\ new \in Seq(Cell) /\ Len(new) = DataCount(h, Incr(t))
        /\ \A i \in 1 .. DataCount(h, Incr(t)) : new[i] = s[SlotOf(Incr(t) + i - 1)]
    BY <1>1, WindowShape
  <2> HIDE DEF n, new
  <2> QED
    BY <1>1, <2>1
<1>5. \A i \in 1 .. n - 1 : SlotOf(Incr(t) + i - 1) = SlotOf(t + (i + 1) - 1)
  <2> SUFFICES ASSUME NEW i \in 1 .. n - 1
               PROVE  SlotOf(Incr(t) + i - 1) = SlotOf(t + (i + 1) - 1)
    OBVIOUS
  <2>1. t \in Int /\ Incr(t) \in Int /\ i - 1 \in Int
    BY <1>1, <1>2, WrapWide DEF Counter
  <2>2. SlotOf(Incr(t) + (i - 1)) = SlotOf((t + 1) + (i - 1))
    BY <2>1, SlotAfterPop
  <2>3. Incr(t) + (i - 1) = Incr(t) + i - 1 /\ (t + 1) + (i - 1) = t + (i + 1) - 1
    BY <2>1
  <2> QED
    BY <2>2, <2>3
<1>6. t + 1 - 1 = t
  BY WrapWide DEF Counter
<1> HIDE DEF n, old, new
<1>7. old # <<>> /\ Head(old) = s[SlotOf(t)]
  BY <1>2, <1>3, <1>6
<1>8. /\ Tail(old) \in Seq(Cell) /\ Len(Tail(old)) = n - 1
      /\ \A i \in 1 .. n - 1 : Tail(old)[i] = old[i + 1]
  BY <1>2, <1>7, HeadTailProperties
<1>9. \A i \in 1 .. n - 1 : new[i] = Tail(old)[i]
  <2> SUFFICES ASSUME NEW i \in 1 .. n - 1 PROVE new[i] = Tail(old)[i]
    OBVIOUS
  <2>1. i + 1 \in 1 .. n
    BY <1>2
  <2> QED
    BY <1>2, <1>4, <1>5, <1>8, <2>1
<1>10. new = Tail(old)
  BY <1>4, <1>8, <1>9, SeqEqual
<1> QED
  BY <1>7, <1>10 DEF new, old

(* Filling the slot of the head of a queue that has room is not seen. *)
LEMMA WindowCopy ==
    ASSUME NEW h \in Counter, NEW t \in Counter, NEW s \in [Slots -> Cell],
           NEW m \in Cell, ~IsFull(h, t)
    PROVE  Window(h, t, [s EXCEPT ![SlotOf(h)] = m]) = Window(h, t, s)
<1> DEFINE n == DataCount(h, t)
           r == [s EXCEPT ![SlotOf(h)] = m]
<1>1. n \in Nat /\ n < Count /\ t \in Int /\ Count \in Nat
  BY CountNat, RingAssumption, WrapWide DEF IsFull, Counter
<1>2. \A i \in 1 .. n : r[SlotOf(t + i - 1)] = s[SlotOf(t + i - 1)]
  <2> SUFFICES ASSUME NEW i \in 1 .. n
               PROVE  r[SlotOf(t + i - 1)] = s[SlotOf(t + i - 1)]
    OBVIOUS
  <2>1. t + i - 1 \in Int /\ t + n \in Int /\ t + i - 1 < t + n /\ t + n < (t + i - 1) + Count
    BY <1>1
  <2>2. SlotOf(t + i - 1) # SlotOf(t + n)
    BY <2>1, SlotApart
  <2>3. SlotOf(t + n) = SlotOf(h) /\ SlotOf(t + i - 1) \in Slots
    BY <2>1, SlotOfHead, SlotType
  <2> QED
    BY <2>2, <2>3
<1> QED
  BY <1>2 DEF Window

(***************************************************************************)
(* The steps.                                                              *)
(***************************************************************************)
CHAN == [c \in Core |-> ChanOf(c)]

LEMMA QueueTyped ==
    ASSUME TypeOK, NEW c \in Core
    PROVE  /\ head[c] \in Counter /\ tail[c] \in Counter
           /\ slot[c] \in [Slots -> Cell]
  BY DEF TypeOK, Cell

(* A step that leaves the queues, and what was handed over, alone. *)
LEMMA ChanIdle ==
    ASSUME UNCHANGED <<queue, popped>>
    PROVE  UNCHANGED <<CHAN, popped>>
  BY DEF CHAN, ChanOf, Window, queue

LEMMA ChanBoot ==
    ASSUME TypeOK, QueueInv, NEW d \in Core, Boot(d)
    PROVE  UNCHANGED <<CHAN, popped>>
<1>1. UNCHANGED <<popped, slot>>
  BY DEF Boot, BootClear, BootValid, local
<1>2. ~valid[d]
  BY DEF Boot, BootClear, BootValid, QueueInv, StartedIsValid
<1>3. ASSUME NEW c \in Core PROVE ChanOf(c)' = ChanOf(c)
  <2>1. CASE BootClear(d)
    <3>1. CASE c = d
      BY <1>2, <2>1, <3>1 DEF BootClear, ChanOf, TypeOK
    <3>2. CASE c # d
      BY <1>1, <2>1, <3>2 DEF BootClear, ChanOf, TypeOK
    <3> QED
      BY <3>1, <3>2
  <2>2. CASE BootValid(d)
    <3>1. CASE c = d
      <4>1. head[c] = tail[c] /\ valid'[c] /\ head' = head /\ tail' = tail
        BY <2>2, <3>1 DEF BootValid, QueueInv, ClearedIsEmpty, TypeOK
      <4>2. DataCount(head[c], tail[c]) = 0
        BY <4>1, QueueTyped, EmptyCount DEF IsEmpty
      <4>3. Window(head[c], tail[c], slot[c]) = <<>>
        BY <4>2 DEF Window
      <4> QED
        BY <1>1, <1>2, <3>1, <4>1, <4>3 DEF ChanOf
    <3>2. CASE c # d
      BY <1>1, <2>2, <3>2 DEF BootValid, ChanOf, TypeOK
    <3> QED
      BY <3>1, <3>2
  <2> QED
    BY <2>1, <2>2 DEF Boot
<1> QED
  BY <1>1, <1>3 DEF CHAN

LEMMA ChanPush ==
    ASSUME TypeOK, TypeOK', QueueInv,
           NEW t \in Pusher, NEW c \in Core, c = CoreOf[t],
           boot[c] = "up", Push(t, c)
    PROVE  \/ UNCHANGED <<CHAN, popped>>
           \/ /\ PushStore(t, c)
              /\ arg[t] \in Msg
              /\ Len(ChanOf(c)) < Count
              /\ CHAN' = [CHAN EXCEPT ![c] = Append(@, arg[t])]
              /\ UNCHANGED popped
<1> t \in Task
  BY TaskCore
<1> DEFINE h == head[c]
           u == tail[c]
<1>0. valid[c] /\ h \in Counter /\ u \in Counter /\ slot[c] \in [Slots -> Cell]
  BY QueueTyped DEF QueueInv, StartedIsValid
<1>1. CASE PushCopy(t, c)
  <2>1. /\ ~IsFull(h, u) /\ arg[t] \in Cell
        /\ slot'[c] = [slot[c] EXCEPT ![SlotOf(h)] = arg[t]]
        /\ \A d \in Core : d # c => slot'[d] = slot[d]
        /\ UNCHANGED <<valid, head, tail, popped>>
    <3>1. ~IsFull(h, u)
      BY <1>1 DEF PushCopy, QueueInv, RoomForPush
    <3>2. slot \in [Core -> [Slots -> Cell]] /\ arg[t] \in Cell
      BY DEF TypeOK, Cell
    <3>3. slot' = [slot EXCEPT ![c][SlotOf(h)] = arg[t]] /\ UNCHANGED <<valid, head, tail, popped>>
      BY <1>1 DEF PushCopy
    <3> QED
      BY <3>1, <3>2, <3>3
  <2>2. ChanOf(c)' = ChanOf(c)
    BY <1>0, <2>1, WindowCopy DEF ChanOf
  <2>3. \A d \in Core : ChanOf(d)' = ChanOf(d)
    BY <2>1, <2>2 DEF ChanOf
  <2> QED
    BY <2>1, <2>3 DEF CHAN
<1>2. CASE PushStore(t, c)
  <2>1. /\ ~IsFull(h, u) /\ slot[c][SlotOf(h)] = arg[t] /\ arg[t] \in Msg
        /\ head'[c] = Incr(h)
        /\ \A d \in Core : d # c => head'[d] = head[d]
        /\ UNCHANGED <<valid, tail, slot, popped>>
    BY <1>2 DEF PushStore, TypeOK, QueueInv, RoomForPush, CopiedMessage, LoadedHead,
                CallersOnly, PushPc
  <2>2. ChanOf(c)' = Append(ChanOf(c), arg[t])
    BY <1>0, <2>1, WindowPush DEF ChanOf
  <2>3. \A d \in Core : d # c => ChanOf(d)' = ChanOf(d)
    BY <2>1 DEF ChanOf
  <2>4. Len(ChanOf(c)) = DataCount(h, u)
    BY <1>0, WindowShape DEF ChanOf
  <2>5. DataCount(h, u) < Count
    BY <1>0, <2>1, CountNat, RingAssumption DEF IsFull
  <2>6. CHAN' = [CHAN EXCEPT ![c] = Append(@, arg[t])]
    BY <2>2, <2>3 DEF CHAN
  <2> QED
    BY <1>2, <2>1, <2>4, <2>5, <2>6
<1>3. CASE ~PushCopy(t, c) /\ ~PushStore(t, c)
  <2>1. UNCHANGED <<queue, popped>>
    BY <1>3 DEF Push, PushCall, PushCheck, PushTake, PushTick, PushLoad, PushSignal
  <2> QED
    BY <2>1, ChanIdle
<1> QED
  BY <1>1, <1>2, <1>3

LEMMA ChanPop ==
    ASSUME TypeOK, QueueInv, NEW t \in Popper, NEW c \in Core, c = CoreOf[t],
           NEW q \in Core, q = Peer(c), Pop(t, c)
    PROVE  \/ UNCHANGED <<CHAN, popped>>
           \/ /\ ChanOf(q) # <<>>
              /\ popped' = [popped EXCEPT ![q] = Head(ChanOf(q))]
              /\ CHAN' = [CHAN EXCEPT ![q] = Tail(@)]
<1> t \in Task
  BY TaskCore
<1> DEFINE h == head[q]
           u == tail[q]
<1>0. h \in Counter /\ u \in Counter /\ slot[q] \in [Slots -> Cell]
  BY QueueTyped
<1>1. CASE PopInc(t, q)
  <2>1. /\ valid[q] /\ ~IsEmpty(h, u) /\ buf[t] = slot[q][SlotOf(u)]
        /\ tail'[q] = Incr(u)
        /\ \A d \in Core : d # q => tail'[d] = tail[d]
        /\ popped' = [popped EXCEPT ![q] = buf[t]]
        /\ UNCHANGED <<valid, head, slot>>
    BY <1>1 DEF PopInc, TypeOK, QueueInv, StartedIsValid, OnlyInitialised,
                MessageForPop, FetchedMessage, PopPc
  <2>2. /\ ChanOf(q) # <<>> /\ Head(ChanOf(q)) = buf[t]
        /\ ChanOf(q)' = Tail(ChanOf(q))
    BY <1>0, <2>1, WindowPop DEF ChanOf
  <2>3. \A d \in Core : d # q => ChanOf(d)' = ChanOf(d)
    BY <2>1 DEF ChanOf
  <2> QED
    BY <2>1, <2>2, <2>3 DEF CHAN
<1>2. CASE ~PopInc(t, q)
  <2>1. UNCHANGED <<queue, popped>>
    BY <1>2 DEF Pop, PopCall, PopCheck, PopTake, PopTick, PopCopy
  <2> QED
    BY <2>1, ChanIdle
<1> QED
  BY <1>1, <1>2

(* With one pushing task per core, the two queues are two bounded FIFO     *)
(* channels: nothing is lost, duplicated, reordered or damaged, for every  *)
(* queue size and every width of the counters.                             *)
THEOREM ChannelRefinement ==
    ASSUME SinglePusher
    PROVE  Spec => ImplementsChannel
<1>1. Init => Channel!ChanInit
  BY DEF Init, PowerOn, Channel!ChanInit, ChanOf
<1>2. TypeOK /\ TypeOK' /\ QueueInv /\ [Next]_vars => [Channel!ChanNext]_(Channel!cvars)
  <2> SUFFICES ASSUME TypeOK, TypeOK', QueueInv, [Next]_vars
               PROVE  Channel!ChanNext \/ UNCHANGED <<CHAN, popped>>
    BY DEF Channel!cvars, CHAN
  <2>1. ASSUME NEW c \in Core, Boot(c) PROVE UNCHANGED <<CHAN, popped>>
    BY <2>1, ChanBoot
  <2>2. ASSUME NEW c \in Core, Isr(c) PROVE UNCHANGED <<CHAN, popped>>
    BY <2>2, ChanIdle DEF Isr, IsrClear, IsrGiveRx, IsrGiveTx, local
  <2>3. ASSUME NEW t \in Pusher, PushStep(t)
        PROVE  Channel!ChanNext \/ UNCHANGED <<CHAN, popped>>
    <3>1. CoreOf[t] \in Core /\ boot[CoreOf[t]] = "up" /\ Push(t, CoreOf[t])
      BY <2>3, TaskCore DEF PushStep, CanRun
    <3> QED
      BY <3>1, ChanPush DEF Channel!ChanNext, Channel!Send, CHAN
  <2>4. ASSUME NEW t \in Popper, PopStep(t)
        PROVE  Channel!ChanNext \/ UNCHANGED <<CHAN, popped>>
    <3>1. CoreOf[t] \in Core /\ Peer(CoreOf[t]) \in Core /\ Pop(t, CoreOf[t])
      BY <2>4, TaskCore, PeerOfCore DEF PopStep
    <3> QED
      BY <3>1, ChanPop DEF Channel!ChanNext, Channel!Recv, CHAN
  <2>5. ASSUME NEW t \in Notifier, NotifyStep(t) PROVE UNCHANGED <<CHAN, popped>>
    BY <2>5, ChanIdle DEF NotifyStep, Notify, local
  <2>6. CASE UNCHANGED vars
    BY <2>6, ChanIdle DEF vars, local
  <2> QED
    BY <2>1, <2>2, <2>3, <2>4, <2>5, <2>6 DEF Next
<1> QED
  BY <1>1, <1>2, TypeCorrect, QueueCorrect, PTL
  DEF Spec, ImplementsChannel, Channel!ChanSpec
=============================================================================
