------------------------------- MODULE Ipcex -------------------------------
(***************************************************************************)
(* The services of the dual-core examples on top of their message queues   *)
(* (examples/dualcore_43xx/common/ipc_example.c and the blinky task):      *)
(* global variables that both cores see, and an LED that one core blinks   *)
(* for the other.                                                          *)
(*                                                                         *)
(* A core that sets a variable allocates a block, sends its address in a   *)
(* GBLUPDATE message and goes on; the dispatch task of the other core      *)
(* copies the value and sends the address back in a FREEMEM message, for   *)
(* the first core to free.  A queue is the channel of MsgChannel, which    *)
(* DualcoreIpc implements when the pushes of a core do not overlap.        *)
(*                                                                         *)
(* There are two kinds of build.  Under an RTOS a push blocks until there  *)
(* is room; in a stand-alone build everything on a core runs in one loop   *)
(* and a push to a full queue fails.  A build also says which tasks the    *)
(* two images have, and how much their heaps hold.                         *)
(***************************************************************************)
EXTENDS Naturals, Sequences, FiniteSets

CONSTANTS
    M4, M0,             \* the two cores
    Count,              \* IPCEX_QUEUE_SZ
    Builds,             \* the builds considered
    Setter,             \* the callers of ipcex_setGblVal
    SetterCore,         \* the core of each setter
    SetterOf,           \* the setter of each variable; its domain is the variables
    Val,                \* the values of a variable, 0 among them
    Block,              \* the blocks that malloc can return
    HeapOf,             \* the core whose heap a block belongs to
    NoBlock, NoMsg

Core == {M4, M0}
Peer(c) == IF c = M4 THEN M0 ELSE M4
Index == DOMAIN SetterOf

(* Every variable is set by one task: so it is in every example.           *)
ASSUME IpcexAssumption ==
    /\ M4 # M0
    /\ Count \in Nat \ {0}
    /\ Builds \subseteq [rtos : BOOLEAN, setters : SUBSET Setter,
                          blinkers : SUBSET Core, heap : SUBSET Block]
    /\ SetterCore \in [Setter -> Core]
    /\ SetterOf \in [Index -> Setter]
    /\ 0 \in Val
    /\ HeapOf \in [Block -> Core]
    /\ NoBlock \notin Block \union Index

OwnerOf(i) == SetterCore[SetterOf[i]]

Message ==
    [id : {"GBLUPDATE", "FREEMEM"}, data : Block] \union [id : {"BLINKY"}, data : {0, 1}]

VARIABLES
    build,          \* the build, fixed
    chan, popped,   \* the queues of MsgChannel; popped is the dispatch task's msg
    used,           \* the blocks that are allocated
    cell,           \* cell[b]: struct gbl_val in block b
    gblCfg,         \* gblCfg[c][i]: the copy of variable i that core c has
    dpc,            \* dpc[c]: where the dispatch task of core c is
    spc,            \* spc[t]: where setter t is in ipcex_setGblVal
    sblk, sidx,     \* the block and the index of that call
    res,            \* res[i]: what the last set of variable i returned
    blink, led      \* the state of the LED task, and of the other core's LED

INSTANCE MsgChannel WITH Msg <- Message

queues == <<chan, popped>>
heap == <<used, cell>>
setters == <<spc, sblk, sidx, res>>
leds == <<blink, led>>
vars == <<build, queues, heap, gblCfg, dpc, setters, leds>>

Init ==
    /\ build \in Builds
    /\ ChanInit
    /\ used = {}
    /\ cell = [b \in Block |-> NoMsg]
    /\ gblCfg = [c \in Core |-> [i \in Index |-> 0]]
    /\ dpc = [c \in Core |-> "pop"]
    /\ spc = [t \in Setter |-> "idle"]
    /\ sblk = [t \in Setter |-> NoBlock]
    /\ sidx = [t \in Setter |-> NoBlock]
    /\ res = [i \in Index |-> 0]
    /\ blink = [c \in Core |-> 0]
    /\ led = [c \in Core |-> 0]

Room(c) == Len(chan[c]) < Count

(***************************************************************************)
(* Scheduling.  Under an RTOS the dispatch task has the highest priority   *)
(* of the three: setters and LED tasks run while it waits for a message,   *)
(* or sleeps up to 100 ticks in a push that found the queue full, and      *)
(* until the interrupt for a new message wakes it.  In the stand-alone     *)
(* loop a call ends before the next one starts.  A setter or LED task      *)
(* blocked in a push is one that does not step.                            *)
(***************************************************************************)
LowRuns(c) == dpc[c] \in {"pop", "asleep"}

OutsideCalls(c, T) ==
    ~build.rtos => \A t \in T : SetterCore[t] = c => spc[t] = "idle"

(* free(b): what was in the block is lost *)
Free(b) ==
    /\ used' = used \ {b}
    /\ cell' = [cell EXCEPT ![b] = NoMsg]

(***************************************************************************)
(* ipcex_setGblVal by task t of core c                                     *)
(***************************************************************************)

(* malloc finds no memory *)
SetNoMem(t, c, i) ==
    /\ spc[t] = "idle" /\ SetterOf[i] = t
    /\ \A b \in build.heap : HeapOf[b] = c => b \in used
    /\ res' = [res EXCEPT ![i] = 1]
    /\ UNCHANGED <<queues, heap, gblCfg, dpc, spc, sblk, sidx, leds>>

(* gv = malloc; gv->val = gblCfg[index] = val; gv->index = index *)
SetAlloc(t, c, i, v) ==
    /\ spc[t] = "idle" /\ SetterOf[i] = t
    /\ \E b \in build.heap \ used :
         /\ HeapOf[b] = c
         /\ used' = used \union {b}
         /\ cell' = [cell EXCEPT ![b] = [index |-> i, val |-> v]]
         /\ sblk' = [sblk EXCEPT ![t] = b]
    /\ gblCfg' = [gblCfg EXCEPT ![c][i] = v]
    /\ spc' = [spc EXCEPT ![t] = "push"]
    /\ sidx' = [sidx EXCEPT ![t] = i]
    /\ UNCHANGED <<queues, dpc, res, leds>>

SetDone(t, r) ==
    /\ spc' = [spc EXCEPT ![t] = "idle"]
    /\ sblk' = [sblk EXCEPT ![t] = NoBlock]
    /\ sidx' = [sidx EXCEPT ![t] = NoBlock]
    /\ res' = [res EXCEPT ![sidx[t]] = r]

SetPush(t, c) ==
    /\ spc[t] = "push"
    /\ Room(c)
    /\ Send(c, [id |-> "GBLUPDATE", data |-> sblk[t]])
    /\ SetDone(t, 0)
    /\ UNCHANGED <<heap, gblCfg, dpc, leds>>

(* Mutant: a failed push is reported as a success.                         *)
SetPushFailedOk(t, c) ==
    /\ spc[t] = "push"
    /\ ~Room(c) /\ ~build.rtos
    /\ SetDone(t, 0)
    /\ Free(sblk[t])
    /\ UNCHANGED <<queues, gblCfg, dpc, leds>>

(* the push returned QUEUE_FULL: free(gv), and the local copy stays set *)
SetPushFailed(t, c) ==
    /\ spc[t] = "push"
    /\ ~Room(c) /\ ~build.rtos
    /\ Free(sblk[t])
    /\ SetDone(t, 1)
    /\ UNCHANGED <<queues, gblCfg, dpc, leds>>

(* Mutants: the LED state counts up, or changes whether or not the message *)
(* was inserted.                                                           *)
BlinkCount(c) ==
    /\ Room(c)
    /\ Send(c, [id |-> "BLINKY", data |-> blink[c]])
    /\ blink' = [blink EXCEPT ![c] = @ + 1]
    /\ UNCHANGED <<heap, gblCfg, dpc, setters, led>>

BlinkAlways(c) ==
    /\ IF Room(c)
         THEN Send(c, [id |-> "BLINKY", data |-> blink[c]])
         ELSE ~build.rtos /\ UNCHANGED queues
    /\ blink' = [blink EXCEPT ![c] = 1 - @]
    /\ UNCHANGED <<heap, gblCfg, dpc, setters, led>>

(* LED_Event_Task: the state changes only when the message was inserted *)
Blink(c) ==
    /\ Room(c)
    /\ Send(c, [id |-> "BLINKY", data |-> blink[c]])
    /\ blink' = [blink EXCEPT ![c] = 1 - @]
    /\ UNCHANGED <<heap, gblCfg, dpc, setters, led>>

(***************************************************************************)
(* ipcex_dispatch_task of core c and its callbacks                         *)
(***************************************************************************)
DispatchPop(c) ==
    /\ dpc[c] = "pop"
    /\ Recv(Peer(c))
    /\ dpc' = [dpc EXCEPT ![c] = "handle"]
    /\ UNCHANGED <<heap, gblCfg, setters, leds>>

(* Mutant: the receiver of a value frees its block and also returns it.    *)
UpdateGblValFree(c, b) ==
    /\ gblCfg' = [gblCfg EXCEPT ![c][cell[b].index] = cell[b].val]
    /\ Free(b)
    /\ dpc' = [dpc EXCEPT ![c] = "return"]
    /\ UNCHANGED led

(* ipcex_updateGblVal, up to its push *)
UpdateGblVal(c, b) ==
    /\ gblCfg' = [gblCfg EXCEPT ![c][cell[b].index] = cell[b].val]
    /\ dpc' = [dpc EXCEPT ![c] = "return"]
    /\ UNCHANGED <<heap, led>>

FreeMem(c, b) ==
    /\ Free(b)
    /\ dpc' = [dpc EXCEPT ![c] = "pop"]
    /\ UNCHANGED <<gblCfg, led>>

BlinkProc(c, v) ==
    /\ led' = [led EXCEPT ![c] = v]
    /\ dpc' = [dpc EXCEPT ![c] = "pop"]
    /\ UNCHANGED <<heap, gblCfg>>

DispatchHandle(c, m) ==
    /\ dpc[c] = "handle"
    /\ \/ m.id = "GBLUPDATE" /\ UpdateGblVal(c, m.data)
       \/ m.id = "FREEMEM" /\ FreeMem(c, m.data)
       \/ m.id = "BLINKY" /\ BlinkProc(c, m.data)
    /\ UNCHANGED <<queues, setters, blink>>

(* the push at the end of ipcex_updateGblVal, whose result is ignored *)
DispatchReturn(c, b) ==
    /\ dpc[c] = "return"
    /\ \/ /\ Room(c)
          /\ Send(c, [id |-> "FREEMEM", data |-> b])
          /\ dpc' = [dpc EXCEPT ![c] = "pop"]
       \/ /\ ~Room(c)
          /\ dpc' = [dpc EXCEPT ![c] = IF build.rtos THEN "asleep" ELSE "pop"]
          /\ UNCHANGED queues
    /\ UNCHANGED <<heap, gblCfg, setters, leds>>

(* Mutant: the wait has no timeout but only ends when a message comes in. *)
DispatchPollOnMessage(c) ==
    /\ dpc[c] = "asleep"
    /\ chan[Peer(c)] # <<>>
    /\ dpc' = [dpc EXCEPT ![c] = "return"]
    /\ UNCHANGED <<queues, heap, gblCfg, setters, leds>>

(* the 100 ticks are over, or event_tx is given *)
DispatchPoll(c) ==
    /\ dpc[c] = "asleep"
    /\ dpc' = [dpc EXCEPT ![c] = "return"]
    /\ UNCHANGED <<queues, heap, gblCfg, setters, leds>>

(***************************************************************************)
(* The specification                                                       *)
(***************************************************************************)
Set(t) ==
    LET c == SetterCore[t]
    IN  /\ LowRuns(c) /\ OutsideCalls(c, Setter \ {t})
        /\ UNCHANGED build
        /\ \/ \E i \in Index : SetNoMem(t, c, i) \/ \E v \in Val : SetAlloc(t, c, i, v)
           \/ SetPush(t, c)
           \/ SetPushFailed(t, c)

SetStep(t) == spc[t] = "push" /\ Set(t)

BlinkStep(c) ==
    /\ LowRuns(c) /\ OutsideCalls(c, Setter)
    /\ UNCHANGED build
    /\ Blink(c)

Dispatch(c) ==
    /\ OutsideCalls(c, Setter)
    /\ UNCHANGED build
    /\ \/ DispatchPop(c)
       \/ DispatchHandle(c, popped[Peer(c)])
       \/ DispatchReturn(c, popped[Peer(c)].data)

Wake(c) == DispatchPoll(c) /\ UNCHANGED build

Next ==
    \/ \E t \in build.setters : Set(t)
    \/ \E c \in build.blinkers : BlinkStep(c)
    \/ \E c \in Core : Dispatch(c) \/ Wake(c)

Spec == Init /\ [][Next]_vars

(***************************************************************************)
(* Fairness: the loops and tasks of both cores keep running, and the poll  *)
(* of a sleeping push sooner or later meets a queue with room if there is  *)
(* room again and again (the LED task sleeps half a second between two     *)
(* messages, the poll a tenth).  Under an RTOS a setter is only sure to    *)
(* run while the dispatch task, which has priority, has no message to      *)
(* take.  Nobody is obliged to set or to blink.                            *)
(***************************************************************************)
DispatchWaits(c) ==
    \/ dpc[c] = "asleep"
    \/ dpc[c] = "pop" /\ chan[Peer(c)] = <<>>

Fairness ==
    /\ \A c \in Core : WF_vars(Dispatch(c)) /\ SF_vars(Room(c) /\ Wake(c))
    /\ \A t \in Setter :
         SF_vars((build.rtos => DispatchWaits(SetterCore[t])) /\ SetStep(t))

FairSpec == Spec /\ Fairness

(***************************************************************************)
(* Properties                                                              *)
(***************************************************************************)
TypeOK ==
    /\ build \in Builds
    /\ chan \in [Core -> Seq(Message)] /\ \A c \in Core : Len(chan[c]) <= Count
    /\ popped \in [Core -> Message \union {NoMsg}]
    /\ used \subseteq build.heap
    /\ cell \in [Block -> [index : Index, val : Val] \union {NoMsg}]
    /\ gblCfg \in [Core -> [Index -> Val]]
    /\ dpc \in [Core -> {"pop", "handle", "return", "asleep"}]
    /\ spc \in [Setter -> {"idle", "push"}]
    /\ sblk \in [Setter -> Block \union {NoBlock}]
    /\ sidx \in [Setter -> Index \union {NoBlock}]
    /\ res \in [Index -> {0, 1}]
    /\ blink \in [Core -> {0, 1}]
    /\ led \in [Core -> {0, 1}]

(* Where the address of a block may be: with a setter that has not sent    *)
(* it, in a message, or with a dispatch task that works on it.             *)
Carries(m, b) == m.id \in {"GBLUPDATE", "FREEMEM"} /\ m.data = b

HoldingSetters(b) == {t \in Setter : sblk[t] = b}
HoldingDispatchers(b) ==
    {c \in Core : dpc[c] # "pop" /\ Carries(popped[Peer(c)], b)}
HoldingMessages(b) ==
    {place \in Core \X (1 .. Count) :
        place[2] <= Len(chan[place[1]]) /\ Carries(chan[place[1]][place[2]], b)}

Holders(b) ==
    Cardinality(HoldingSetters(b)) + Cardinality(HoldingDispatchers(b))
        + Cardinality(HoldingMessages(b))

(* A block has one owner at a time, who may use or free it, and a block    *)
(* that anybody can reach is allocated: no double free and no use after    *)
(* free, although malloc may hand the block out again at once              *)
(* (ipc_example.c:102-119, 194-217).  With blocking pushes no block is lost *)
(* either (line 112).                                                      *)
OneHolder ==
    \A b \in Block :
        /\ Holders(b) <= 1
        /\ Holders(b) = 1 => b \in used
        /\ build.rtos /\ b \in used => Holders(b) = 1

(* A value of variable i that its owner has set and the peer has not seen. *)
UpdateOf(m, i) == m.id = "GBLUPDATE" /\ cell[m.data].index = i
InFlight(i) ==
    LET c == OwnerOf(i)
    IN  \/ \E k \in 1 .. Len(chan[c]) : UpdateOf(chan[c][k], i)
        \/ dpc[Peer(c)] = "handle" /\ UpdateOf(popped[c], i)

(* "M0-M4 shared variable": once the last set has returned 0 and its       *)
(* message is delivered, both cores read the value that was set last       *)
(* (ipc_example.h:108-121).                                                *)
Synchronized ==
    \A i \in Index :
        (res[i] = 0 /\ ~InFlight(i) /\ sidx[SetterOf[i]] # i) =>
            gblCfg[M4][i] = gblCfg[M0][i]

(* The LED states that core c has sent and its peer has not shown, in the  *)
(* order in which it shows them, and after them the next one to be sent:   *)
(* place 0 is the message the peer works on, the others are in the queue.  *)
BlinkPlaces(c) ==
    {k \in 0 .. Len(chan[c]) :
        IF k = 0 THEN dpc[Peer(c)] = "handle" /\ popped[c].id = "BLINKY"
                 ELSE chan[c][k].id = "BLINKY"} \union {Len(chan[c]) + 1}
BlinkState(c, k) ==
    IF k = 0 THEN popped[c].data
    ELSE IF k = Len(chan[c]) + 1 THEN blink[c]
    ELSE chan[c][k].data

Follows(c, k, l) == k < l /\ \A j \in BlinkPlaces(c) : j <= k \/ l <= j

(* They are on and off in turn, so that a failed push neither drops nor    *)
(* repeats a blink (dualcore_blinky.c:121-131).                            *)
BlinkTrain ==
    \A c \in Core :
        /\ \A k, l \in BlinkPlaces(c) :
               Follows(c, k, l) => BlinkState(c, l) = 1 - BlinkState(c, k)
        /\ led[Peer(c)] = 1 =>
               \A k \in BlinkPlaces(c) :
                   (\A j \in BlinkPlaces(c) : k <= j) => BlinkState(c, k) = 0

(* The push that gives a block back returns (ipc_example.h:101-106 gives   *)
(* the results of a push), and the dispatch task takes messages again.     *)
DispatchReturns ==
    \A c \in Core : dpc[c] \in {"return", "asleep"} ~> dpc[c] = "pop"

(* Under an RTOS every block comes back to the heap it was taken from.     *)
BlockReturns ==
    \A b \in Block : (build.rtos /\ b \in used) ~> b \notin used
=============================================================================
