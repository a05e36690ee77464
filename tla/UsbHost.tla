------------------------------ MODULE UsbHost ------------------------------
(***************************************************************************)
(* The host side of LPCUSBLib on one port: the enumeration state machine   *)
(* of the task (Core/Host.c), the pipes and their buffers (Core/Pipe.c,    *)
(* Core/USBMemory.c), the queue heads of the EHCI driver                   *)
(* (Core/HCD/EHCI/EHCI.c), and the interrupt handler that a device coming, *)
(* a device going, the end of a transfer and an unlinked queue head raise. *)
(*                                                                         *)
(* The handler runs between any two steps of the task, those of the        *)
(* allocator included, and writes the same host state, pipe handles,       *)
(* buffers, queue heads and pool.  Waits are steps that may take any time. *)
(* The class driver is that of the keyboard example, with one interrupt    *)
(* pipe.  The stores with which a queue head is put into a list, or taken  *)
(* out of one, are one step.                                               *)
(***************************************************************************)
EXTENDS UsbMemory

CONSTANTS
    Qhds,           \* HCD_MAX_QHD
    ControlSize,    \* PIPE_MAX_SIZE
    DataSize,       \* the packet size of the interrupt pipe
    MaxPlugs        \* bound: how often a device is plugged in or pulled out

ASSUME UsbHostAssumption ==
    /\ Qhds \in Nat \ {0}
    /\ ControlSize \in Nat \ {0}
    /\ DataSize \in Nat \ {0}
    /\ MaxPlugs \in Nat

Pipe == {0, 1}
PIPE_CONTROLPIPE == 0
Qhd == 0 .. Qhds - 1

HostState ==
    {"WaitForDevice", "Unattached", "Powered", "Settle", "WaitConnect", "DoReset",
     "ConfigPipe", "Default", "PostReset", "PostAddressSet", "Addressed",
     "Configured"}

(* What EVENT_USB_Host_DeviceEnumerationComplete of the class driver does. *)
ClassSteps ==
    {"GetHeader", "GetConfig", "Pipes", "SetConfig", "SetProtocol", "Unconfigure"}

(* A pipe handle packs the type of the transfers and a queue head: that of *)
(* a control pipe on queue head 0 is 0, which is also "no handle".         *)
Handle(p, q) == p * Qhds + q
QhdOf(h) == h % Qhds

BufferSize(p) == IF p = PIPE_CONTROLPIPE THEN ControlSize ELSE DataSize

VARIABLES
    host,           \* USB_HostState
    post,           \* PostWaitState
    at,             \* the state whose case the task executes, or the step
                    \* of the class driver
    tpc,            \* where in it the task is
    xfer,           \* the queue head of a control transfer, or the one that
                    \* HcdOpenPipe has taken
    handle, buf,    \* PipeHandle and Buffer of every pipe
    qhd,            \* the state of every queue head
    linked,         \* the queue heads in the lists of the controller
    doorbell,       \* IntAsyncAdvanceDoorbell
    conn, change,   \* CurrentConnectStatus and ConnectStatusChange
    plugs,          \* how often conn has changed, for the bound
    isr,            \* the pipe that USB_Host_DeEnumerate closes next
    closing,        \* it is in USB_Memory_Free for that pipe
    there,          \* history: the last port interrupt was for a device
    gone,           \* history: and none for its removal during this call
    orphans         \* history: buffers of failed and of late pipes

NoPipe == -1

task == <<at, tpc, xfer>>
pipes == <<handle, buf>>
queues == <<qhd, linked, doorbell>>
port == <<conn, change, plugs>>
memory == <<allocator, orphans>>
handler == <<isr, closing>>
history == <<there, gone>>
vars == <<host, post, task, pipes, queues, port, memory, handler, history>>

(* After USB_Init, with nothing plugged in.                                *)
Init ==
    /\ host = "Unattached" /\ post = "Unattached"
    /\ at = "Unattached" /\ tpc = "rest" /\ xfer = 0
    /\ handle = [p \in Pipe |-> 0]
    /\ buf = [p \in Pipe |-> NULL]
    /\ MemoryInit
    /\ qhd = [q \in Qhd |-> "free"]
    /\ linked = {}
    /\ doorbell = FALSE
    /\ conn = FALSE /\ change = FALSE /\ plugs = 0
    /\ isr = NoPipe /\ closing = FALSE
    /\ there = FALSE /\ gone = FALSE
    /\ orphans = {}

(***************************************************************************)
(* Queue heads                                                             *)
(***************************************************************************)
ParseFails(h) == qhd[QhdOf(h)] \in {"free", "toremove"}

Unused == {q \in Qhd : qhd[q] = "free"}

(* Mutant: the queue head is unlinked and its transfer stays queued.       *)
HcdClosePipeKeepsStatus(h) ==
    IF ParseFails(h)
      THEN UNCHANGED queues
      ELSE /\ linked' = linked \ {QhdOf(h)}
           /\ doorbell' = TRUE
           /\ UNCHANGED qhd

(* HcdClosePipe: a queue head in a list is taken out of it, and freed when *)
(* the controller has advanced past it.                                    *)
HcdClosePipe(h) ==
    LET q == QhdOf(h)
    IN  IF ParseFails(h)
          THEN UNCHANGED queues
          ELSE /\ qhd' = [qhd EXCEPT ![q] = IF q \in linked THEN "toremove" ELSE @]
               /\ linked' = linked \ {q}
               /\ doorbell' = TRUE

(* USB_Memory_Free of the buffer of a pipe begins.                         *)
Release(c, b) == FreeCall(c, b) /\ orphans' = orphans \ {b}

(***************************************************************************)
(* The task.  It does not run while the handler does.                      *)
(***************************************************************************)
Step(from, to) == tpc = from /\ tpc' = to /\ UNCHANGED at /\ isr = NoPipe

Rest == <<"Unattached", "rest">>
Goto(place) == at' = place[1] /\ tpc' = place[2]

PipeOf(s) == IF s = "Pipes" THEN 1 ELSE PIPE_CONTROLPIPE

(* Where case s goes on when its pipe is configured, when its request has  *)
(* been answered, when one of the two fails, and when it has written the   *)
(* state.  A configuration that is too large, or is not a keyboard's, ends *)
(* the class driver's callback; one without the boot protocol is undone.   *)
Configured(s) ==
    CASE s = "PostReset" -> <<s, "send">>
      [] s = "Pipes" -> <<"SetConfig", "send">>
      [] OTHER -> <<s, "write">>

Answered(s) ==
    CASE s = "GetHeader" -> {<<"GetConfig", "send">>, Rest}
      [] s = "GetConfig" -> {<<"Pipes", "open">>, Rest}
      [] s \in {"SetConfig", "Unconfigure"} -> {<<s, "write">>}
      [] s = "SetProtocol" -> {Rest}
      [] OTHER -> {<<s, "unhook">>}

Failed(s) ==
    CASE s = "SetProtocol" -> <<"Unconfigure", "send">>
      [] s \in ClassSteps \ {"SetProtocol"} -> Rest
      [] s = "PostAddressSet" -> <<s, "write">>
      [] OTHER -> <<s, "error">>

Written(s) ==
    CASE s = "PostAddressSet" -> {<<"GetHeader", "send">>}
      [] s = "SetConfig" -> {<<"SetProtocol", "send">>, <<"Unconfigure", "send">>}
      [] OTHER -> {Rest}

(* USB_HostTask reads the state and takes its case.                        *)
Begin ==
    /\ tpc = "rest" /\ isr = NoPipe
    /\ host \notin {"Unattached", "Addressed", "Configured"}
    /\ at' = host
    /\ tpc' = IF host \in {"ConfigPipe", "PostReset", "PostAddressSet"} THEN "open"
              ELSE IF host = "Default" THEN "send" ELSE "write"
    /\ gone' = ~there
    /\ UNCHANGED <<host, post, xfer, pipes, queues, port, memory, handler, there>>

(* The end of a case: a wait and the state after it, or the next state.    *)
(* The class driver's callback follows the last one; it writes the state   *)
(* as well.                                                                *)
WaitBefore ==
    [WaitConnect |-> "DoReset", DoReset |-> "ConfigPipe",
     Default |-> "PostReset", PostReset |-> "PostAddressSet"]

NextState ==
    [WaitForDevice |-> post, Powered |-> "Settle", Settle |-> "WaitConnect",
     ConfigPipe |-> "Default", PostAddressSet |-> "Addressed",
     SetConfig |-> "Configured", Unconfigure |-> "Addressed"]

Write ==
    /\ tpc = "write" /\ isr = NoPipe
    /\ IF at \in DOMAIN WaitBefore
         THEN host' = "WaitForDevice" /\ post' = WaitBefore[at]
         ELSE host' = NextState[at] /\ UNCHANGED post
    /\ \E place \in Written(at) : Goto(place)
    /\ UNCHANGED <<xfer, pipes, queues, port, memory, handler, history>>

(* Pipe_ConfigurePipe: HcdOpenPipe takes an unused queue head,             *)
(* Mutant: the end of the search for one is not noticed.                   *)
OpenUnchecked ==
    /\ tpc = "open" /\ isr = NoPipe
    /\ LET q == CHOOSE q \in Unused \union {Qhds} : \A r \in Unused : q <= r
       IN  qhd' = [r \in Qhd |-> IF r = q THEN "ok" ELSE qhd[r]] /\ xfer' = q
    /\ Goto(<<at, "link">>)
    /\ UNCHANGED <<host, post, pipes, linked, doorbell, port, memory, handler, history>>

Open ==
    /\ tpc = "open" /\ isr = NoPipe
    /\ IF Unused = {}
         THEN Goto(Failed(at)) /\ UNCHANGED <<xfer, qhd>>
         ELSE LET q == CHOOSE q \in Unused : \A r \in Unused : q <= r
              IN  /\ qhd' = [qhd EXCEPT ![q] = "ok"] /\ xfer' = q
                  /\ Goto(<<at, "link">>)
    /\ UNCHANGED <<host, post, pipes, linked, doorbell, port, memory, handler, history>>

(* links it                                                                *)
Link ==
    /\ Step("link", "handle")
    /\ linked' = linked \union {xfer}
    /\ UNCHANGED <<host, post, xfer, pipes, qhd, doorbell, port, memory, handler, history>>

(* and stores the handle,                                                  *)
StoreHandle ==
    /\ Step("handle", "alloc")
    /\ handle' = [handle EXCEPT ![PipeOf(at)] = Handle(PipeOf(at), xfer)]
    /\ xfer' = 0
    /\ UNCHANGED <<host, post, buf, queues, port, memory, handler, history>>

(* then a buffer is allocated                                              *)
Alloc ==
    /\ Step("alloc", "assign")
    /\ AllocCall("task", BufferSize(PipeOf(at)))
    /\ UNCHANGED <<host, post, xfer, pipes, queues, port, orphans, handler, history>>

Allocate ==
    /\ tpc = "assign" /\ isr = NoPipe
    /\ AllocStep("task")
    /\ UNCHANGED <<host, post, task, pipes, queues, port, orphans, handler, history>>

(* and stored over what the pipe had.  (A buffer that a pipe gets after    *)
(* its device has gone may never be given back.)                           *)
Assign ==
    /\ tpc = "assign" /\ isr = NoPipe /\ At("task", "idle")
    /\ buf' = [buf EXCEPT ![PipeOf(at)] = got]
    /\ got' = NULL
    /\ Goto(IF got = NULL THEN Failed(at) ELSE Configured(at))
    /\ orphans' = orphans \union (IF gone THEN {got} \ {NULL} ELSE {})
    /\ UNCHANGED <<host, post, xfer, handle, queues, port, mem, call, list, torn,
                   handler, history>>

(* USB_Host_SendControlRequest: HcdControlTransfer checks the handle,      *)
Send ==
    /\ tpc = "send" /\ isr = NoPipe
    /\ IF buf[PIPE_CONTROLPIPE] = NULL \/ ParseFails(handle[PIPE_CONTROLPIPE])
         THEN Goto(Failed(at)) /\ UNCHANGED xfer
         ELSE Goto(<<at, "queue">>) /\ xfer' = QhdOf(handle[PIPE_CONTROLPIPE])
    /\ UNCHANGED <<host, post, pipes, queues, port, memory, handler, history>>

(* queues the transfer,                                                    *)
Queue ==
    /\ Step("queue", "wait")
    /\ qhd' = [qhd EXCEPT ![xfer] = "queued"]
    /\ UNCHANGED <<host, post, xfer, pipes, linked, doorbell, port, memory, handler, history>>

(* and waits for as long as its queue head says so.                        *)
Wait ==
    /\ tpc = "wait" /\ isr = NoPipe
    /\ qhd[xfer] \notin {"queued", "missed"}
    /\ IF qhd[xfer] = "ok"
         THEN \E place \in Answered(at) : Goto(place)
         ELSE Goto(Failed(at))
    /\ xfer' = 0
    /\ UNCHANGED <<host, post, pipes, queues, port, memory, handler, history>>

(* Pipe_ClosePipe of the control pipe: HcdClosePipe, then the handle is    *)
(* forgotten, the buffer freed, and forgotten.                             *)
Unhook ==
    /\ Step("unhook", "drop")
    /\ HcdClosePipe(handle[PIPE_CONTROLPIPE])
    /\ UNCHANGED <<host, post, xfer, pipes, port, memory, handler, history>>

Drop ==
    /\ Step("drop", "release")
    /\ handle' = [handle EXCEPT ![PIPE_CONTROLPIPE] = 0]
    /\ UNCHANGED <<host, post, xfer, buf, queues, port, memory, handler, history>>

(* Mutant: the buffer is forgotten and not freed.                          *)
ReleaseNothing ==
    /\ Step("release", "forget")
    /\ UNCHANGED <<host, post, xfer, pipes, queues, port, memory, handler, history>>

ReleaseBuffer ==
    /\ Step("release", "forget")
    /\ Release("task", buf[PIPE_CONTROLPIPE])
    /\ UNCHANGED <<host, post, xfer, pipes, queues, port, handler, history>>

Free ==
    /\ tpc = "forget" /\ isr = NoPipe
    /\ FreeStep("task")
    /\ UNCHANGED <<host, post, task, pipes, queues, port, orphans, handler, history>>

Forget ==
    /\ Step("forget", "write") /\ At("task", "idle")
    /\ buf' = [buf EXCEPT ![PIPE_CONTROLPIPE] = NULL]
    /\ UNCHANGED <<host, post, xfer, handle, queues, port, memory, handler, history>>

(* The error exit, unless the device is gone: USB_ResetInterface resets    *)
(* the controller, which finds a device that is still there again, and     *)
(* leaves the pipes as they are.                                           *)
Error ==
    /\ tpc = "error" /\ isr = NoPipe
    /\ Goto(IF host = "Unattached" THEN Rest ELSE <<at, "reset">>)
    /\ UNCHANGED <<host, post, xfer, pipes, queues, port, memory, handler, history>>

ResetInterface ==
    /\ tpc = "reset" /\ isr = NoPipe
    /\ Goto(Rest)
    /\ host' = "Unattached"
    /\ linked' = {} /\ doorbell' = FALSE
    /\ change' = conn
    /\ orphans' = orphans \union ({buf[PIPE_CONTROLPIPE]} \ {NULL})
    /\ there' = FALSE
    /\ UNCHANGED <<post, xfer, pipes, qhd, conn, plugs, allocator, handler, gone>>

Task ==
    \/ Begin \/ Write
    \/ Open \/ Link \/ StoreHandle \/ Alloc \/ Allocate \/ Assign
    \/ Send \/ Queue \/ Wait
    \/ Unhook \/ Drop \/ ReleaseBuffer \/ Free \/ Forget
    \/ Error \/ ResetInterface

(***************************************************************************)
(* HcdIrqHandler                                                           *)
(***************************************************************************)

(* PortStatusChangeIsr, a device is there: USB_Host_Enumerate              *)
Enumerate ==
    /\ change /\ conn /\ isr = NoPipe
    /\ host' = "Powered"
    /\ change' = FALSE
    /\ there' = TRUE
    /\ UNCHANGED <<post, task, pipes, queues, conn, plugs, memory, handler, gone>>

(* A device is gone: USB_Host_DeEnumerate closes the control pipe and the  *)
(* other pipes that are open,                                              *)
DeEnumerate ==
    /\ change /\ ~conn /\ isr = NoPipe
    /\ isr' = PIPE_CONTROLPIPE
    /\ UNCHANGED <<host, post, task, pipes, queues, port, memory, closing, history>>

ClosePipe ==
    /\ isr \in Pipe /\ ~closing
    /\ IF isr = PIPE_CONTROLPIPE \/ handle[isr] # 0
         THEN /\ HcdClosePipe(handle[isr])
              /\ handle' = [handle EXCEPT ![isr] = 0]
              /\ Release("isr", buf[isr])
              /\ closing' = TRUE /\ UNCHANGED isr
         ELSE isr' = isr + 1 /\ UNCHANGED <<queues, handle, memory, closing>>
    /\ UNCHANGED <<host, post, task, buf, port, history>>

FreeInHandler ==
    /\ closing
    /\ FreeStep("isr")
    /\ UNCHANGED <<host, post, task, pipes, queues, port, orphans, handler, history>>

(* Mutant: the pipe keeps the address of the buffer.                       *)
ClosedKeepsBuffer ==
    /\ closing /\ At("isr", "idle")
    /\ isr' = isr + 1 /\ closing' = FALSE
    /\ UNCHANGED <<host, post, task, pipes, queues, port, memory, history>>

Closed ==
    /\ closing /\ At("isr", "idle")
    /\ buf' = [buf EXCEPT ![isr] = NULL]
    /\ isr' = isr + 1 /\ closing' = FALSE
    /\ UNCHANGED <<host, post, task, handle, queues, port, memory, history>>

(* and sets the state.                                                     *)
Unattach ==
    /\ isr \notin Pipe \union {NoPipe}
    /\ isr' = NoPipe
    /\ host' = "Unattached"
    /\ change' = FALSE
    /\ there' = FALSE /\ gone' = (tpc # "rest")
    /\ UNCHANGED <<post, task, pipes, queues, conn, plugs, memory, closing>>

(* AsyncScheduleIsr, UsbErrorIsr: a transfer has ended.  One to a device   *)
(* that is not there fails.  An end that comes while the handler           *)
(* acknowledges another interrupt, by a read and a write of the status     *)
(* register, is acknowledged with it and missed.  (A change of the port    *)
(* and an advance are taken never to be lost in this way.)                 *)
Complete(q, result) ==
    /\ q \in linked /\ qhd[q] = "queued" /\ isr = NoPipe
    /\ result = "ok" => conn
    /\ result = "missed" => change \/ doorbell
    /\ qhd' = [qhd EXCEPT ![q] = result]
    /\ UNCHANGED <<host, post, task, pipes, linked, doorbell, port, memory, handler, history>>

(* AsyncAdvanceIsr: the queue heads that were taken out are free.          *)
AsyncAdvance ==
    /\ doorbell /\ isr = NoPipe
    /\ doorbell' = FALSE
    /\ qhd' = [q \in Qhd |-> IF qhd[q] = "toremove" THEN "free" ELSE qhd[q]]
    /\ UNCHANGED <<host, post, task, pipes, linked, port, memory, handler, history>>

Handler ==
    \/ Enumerate
    \/ DeEnumerate \/ ClosePipe \/ FreeInHandler \/ Closed \/ Unattach
    \/ AsyncAdvance

(* A device is plugged in or pulled out.  The handler is done with one     *)
(* change before the next one.                                             *)
Plug ==
    /\ ~change
    /\ plugs < MaxPlugs /\ plugs' = plugs + 1
    /\ conn' = ~conn /\ change' = TRUE
    /\ UNCHANGED <<host, post, task, pipes, queues, memory, handler, history>>

Next ==
    \/ Task
    \/ Handler
    \/ \E q \in Qhd, result \in {"ok", "stall", "missed"} : Complete(q, result)
    \/ Plug

Spec == Init /\ [][Next]_vars

(* The main loop calls the task for ever and it gets to run between the    *)
(* interrupts of devices that come and go, interrupts are taken, and the   *)
(* controller ends a transfer that is in its list: a device that does not  *)
(* answer is an error after three attempts.  (One that answers NAK for     *)
(* ever, so that the transfer never ends, is left out.)                    *)
Fairness ==
    /\ SF_vars(Task)
    /\ WF_vars(Handler)
    /\ \A q \in Qhd : WF_vars(\E result \in {"ok", "stall"} : Complete(q, result))

FairSpec == Spec /\ Fairness

(***************************************************************************)
(* Properties                                                              *)
(***************************************************************************)
TypeOK ==
    /\ host \in HostState /\ post \in HostState
    /\ at \in HostState \union ClassSteps
    /\ tpc \in {"rest", "write", "open", "link", "handle", "alloc", "assign", "send",
                "queue", "wait", "unhook", "drop", "release", "forget", "error", "reset"}
    /\ xfer \in Qhd
    /\ handle \in [Pipe -> Nat] /\ buf \in [Pipe -> Nat]
    /\ MemoryType
    /\ qhd \in [Qhd -> {"free", "ok", "queued", "stall", "missed", "toremove"}]
    /\ linked \subseteq Qhd
    /\ doorbell \in BOOLEAN
    /\ conn \in BOOLEAN /\ change \in BOOLEAN /\ plugs \in 0 .. MaxPlugs
    /\ isr \in Pipe \union {NoPipe, 2} /\ closing \in BOOLEAN
    /\ there \in BOOLEAN /\ gone \in BOOLEAN
    /\ orphans \subseteq Nat

(* No free of the handler has come into a call of the task that was past   *)
(* its first test, and no call is between two stores that belong together. *)
(* FreeFlagTells is about the detach that does come there.                 *)
Undisturbed == ~torn /\ Settled

(* The pool stays a list of adjacent blocks with free neighbours merged,   *)
(* whatever the task and the handler free, and free twice when a detach    *)
(* comes before the task has forgotten a buffer, as long as it does not    *)
(* come inside a call of the allocator (USBMemory.c:171-284, Pipe.c:83-92).*)
PoolIntact == Undisturbed => PoolOK(Pool)

(* A pipe whose buffer is being given back.                                *)
Closing(p) == (p = PIPE_CONTROLPIPE /\ tpc = "forget") \/ (closing /\ p = isr)

(* A pipe's buffer is an allocated block that no other pipe has, and that  *)
(* Pipe_ConfigurePipe does not hand out again (Pipe.c:70, 88-89).          *)
BuffersHeld ==
    Undisturbed =>
        /\ \A p \in Pipe :
             buf[p] # NULL /\ ~Closing(p) => buf[p] \in UsedBuffers(Pool) /\ buf[p] # got
        /\ \A p, r \in Pipe : p # r /\ buf[p] # NULL => buf[p] # buf[r]

(* A buffer is only lost where an enumeration has failed, or a pipe was    *)
(* configured for a device that had gone; otherwise each goes back to the  *)
(* pool when its pipe is closed (Host.c:180-188, 206-217, Pipe.c:45-92).   *)
BuffersAccounted ==
    Undisturbed =>
        \A b \in UsedBuffers(Pool) : b = got \/ b \in orphans \/ \E p \in Pipe : buf[p] = b

(* "indicate whether this memory block is free or used" (USBMemory.c:66):  *)
(* when the task is at rest, no pipe's buffer lies in a block of the list  *)
(* that is marked free.                                                    *)
FreeFlagTells ==
    tpc = "rest" /\ isr = NoPipe =>
        \A p \in Pipe, a \in Reachable :
            mem[a].isFree => ~(buf[p] \in a + HEADER_SIZE .. a + HEADER_SIZE + mem[a].size - 1)

(* A control transfer on a pipe that is open when it is queued returns,    *)
(* whether the device answers, fails or is pulled out while the task waits *)
(* (EHCI.c:793-805), unless its end was missed (EHCI.c:893, 901).          *)
TransferReturns ==
    (tpc = "wait" /\ xfer \in linked /\ ~torn) ~> (tpc # "wait" \/ qhd[xfer] = "missed")
=============================================================================
