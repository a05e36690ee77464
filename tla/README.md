# LPCOpen for LPC18xx/43xx: a TLA+ verification project

LPCOpen is NXP's software package for the LPC18xx and LPC43xx microcontrollers: a
chip library (`lpc_chip`), ports of third-party stacks, a USB library, and
examples, some of which use the Cortex-M4 and the Cortex-M0 of an LPC43xx at the
same time. This project models the parts of it in which two actors (cores, tasks,
interrupt handlers, peripherals) share state, checks them with TLC on small
instances and proves the central facts with TLAPS for all sizes.

`EX` is `src/applications/lpc18xx_43xx/examples`, `CHIP` is
`src/software/lpc_core/lpc_chip/chip_18xx_43xx`, `COM` is
`src/software/lpc_core/lpc_chip/chip_common`, `LW` is
`src/software/lwip/lpclwip/arch`, `USB` is `src/software/LPCUSBLib/Drivers/USB`.

## 1. Inventory

Modelled:

| Component | State | Operations | What is hard |
|---|---|---|---|
| dual-core queues, `EX/dualcore_43xx/common/ipc_msg.c` | per sending core: magic number, free-running `head` and `tail`, slots; two binary semaphores per core | init, push and pop with no, finite or infinite timeout, notify, IPC interrupt | two cores and no lock; tasks of several priorities; 32-bit wrap; a signal that races a wait; stale shared RAM after a reset |
| dual-core services, `EX/dualcore_43xx/common/ipc_example.c` | copies of the shared variables, heap blocks, callback table | dispatch task, set and get a variable, LED task | a block that travels to the other core and back; pushes that block inside the dispatch task; pushes that fail |
| ring buffer and UART driver, `COM/ring_buffer.c`, `CHIP/uart_18xx_43xx.c` | two rings, IER, LSR | SendRB, ReadRB, interrupt handler | handler between any two steps; runs that pass the end of the array; an interrupt that is left off |
| Ethernet driver, `LW/lpc18xx_43xx_emac.c` | transmit and receive descriptor rings, pbuf tables, counts, semaphores | output, input, reclaim, requeue, interrupt handler, two tasks | DMA engine that walks the rings; priorities; rings that are full or dry |
| I2C driver, `CHIP/i2c_18xx_43xx.c` | the transfer in progress, slave table, flags; the controller's CON, STAT, DAT | master transfer, send, read, command and read, slave set-up, both state handlers, polling | lost arbitration and retries; master and slave roles on one bus; a transfer put off while a slave is served |
| USB host stack, `USB/Core` and its EHCI driver | host state, pipes, buffer pool, queue heads, port status | enumeration, open and close of pipes, control transfers, interrupt handler | a detach between any two steps of the task; a pool that both sides allocate from; queue heads the controller still walks |

Not modelled (reasons in section 8):

| Component | State | What is hard |
|---|---|---|
| three-core queues, `EX/multicore/common/ipc_msg.c` | per receiving core one queue | several senders into one queue; lost wake-up before WFI |
| I2C master only, `CHIP/i2cm_18xx_43xx.c` | the transfer | one actor |
| SD/MMC, `CHIP/sdmmc_18xx_43xx.c`, `src/software/filesystems/fatfslpc` | card state, `Stat` of the disk | timeouts, card removal, unbounded waits |
| GPDMA, `CHIP/gpdma_18xx_43xx.c` | channel table | test-and-set without a lock; result 0 for "none" |
| USB examples on the ROM stack, `EX/usbd_rom` | flags, buffers, request and response queues | handler against main loop; queues without a full test |
| rest of `USB`: device side, OHCI, class drivers | endpoint queues, transfer descriptors | lists shared with the controller |
| lwIP OS layer, `LW/sys_arch_freertos.c` | FreeRTOS queues | forwards to the kernel |
| other register drivers of `CHIP` | none | |
| vendored: FreeRTOS, lwIP, uCOS-III, FatFs, CMSIS, SPIFI library | | used as it is |

How they interact: the dual-core services sit on the dual-core queues, which sit on
SEV and the IPC interrupt of the other core and on FreeRTOS semaphores; the UART
driver sits on the ring buffer; the Ethernet driver is called by lwIP's TCP/IP
thread and calls it back with received frames; the USB host task calls the pipe
layer, that the EHCI driver and the buffer pool, and so does the interrupt handler
when a device goes. Main programs and interrupt handlers of one core share memory;
two cores share memory and signal each other; DMA engines and host controllers read
and write descriptors on their own.

What makes each component correct:

- *queues*: a bounded FIFO per direction; a slot is never written and read at once;
  no call works on a queue that is not set up; a waiting task is woken;
- *services*: one owner per block, the two copies of a variable agree once the update
  is delivered, blocks come back;
- *UART*: both rings are FIFOs, nothing left in the transmit ring with its interrupt
  off, handler and main program never both take from the transmit ring;
- *Ethernet*: a descriptor belongs to driver or engine, a buffer is freed once and
  after it was sent, a frame is handed over whole, reception never stops for good;
- *I2C*: what a call reports is what was on the wire, the handler finds the transfer its
  code is about, the bus is released and the slaves listen again, every call returns;
- *USB host*: the pool is a list of merged adjacent blocks, no two pipes share a buffer,
  buffers are lost only where the code gives them up, a transfer on an open pipe returns.

`PROJECT.json` lists the hazards, line by line; those without a property have a note
with the reason.

## 2. Plan

Built, in this order, each provable (constants with assumptions, no `RECURSIVE`):

1. `RingIndex` and `RingIndexProofs`: arithmetic of free-running counters.
2. `DualcoreIpc` with the abstract `MsgChannel`; `DualcoreIpcProofs`.
3. `Ipcex`, composed of two `MsgChannel`s and the tasks above them; `IpcexProofs`.
4. `RingBuffer`, `UartRb` with the abstract `ByteChannel`; `UartRbProofs`.
5. `EmacTx` with the abstract `FrameLink`: the transmit ring of the Ethernet driver;
   `EmacTxProofs`.
6. `EmacRx` with the abstract `FrameDelivery`: its receive ring; `EmacRxProofs`.
7. `I2cBus`, the controller and the bus, and `I2c`, the driver on it; `I2cProofs`.
8. `UsbMemory`, the allocator, and `UsbHost`, enumeration, pipes and queue heads on it;
   `UsbHostProofs`.

Still wanted: the queues of the HID and VCOM examples; the theorems of `I2c` for a window
of two codes.

## 3. The modules and the code

### RingIndex, DualcoreIpc, MsgChannel

`RingIndex` has `QUEUE_DATA_COUNT`, `QUEUE_IS_FULL`, `QUEUE_IS_EMPTY`, `head++` and
the slot mask of `ipc_msg.[ch]`. `Wrap` stands for 2^32 and `Count` for the size of
the queue; `IPC_initMsgQueue` halts unless the size is a power of two, so `Count`
divides `Wrap`.

`DualcoreIpc` models the FreeRTOS variant. Per core `c`: the queue it writes
(`valid[c]`, `head[c]`, `tail[c]`, `slot[c]`), its semaphores `rx[c]`, `tx[c]`, the
pending IPC interrupt `irq[c]`, the step of its handler `isr[c]`, and its boot
phase. Per task: the program counter and the locals of the call it is in. One
action is one access to shared state in the order the code has them: test, wait,
`memcpy`, the load and the store of `head++`, SEV. Both cores are in-order and the
compiler is taken to keep the `memcpy` before `head++`; the DSB of
`ipc_send_signal` orders both before the SEV. A task runs when its core's handler does
not and no task of higher priority can (`CanRun`). Shared RAM holds arbitrary
counters at power-on and no magic number (`Init`).

`MsgChannel` is the promise: one bounded FIFO per direction. `ChanOf` maps a queue
to the sequence of its slots from `tail` to `head`.

### Ipcex

Instantiates `MsgChannel` for the two queues, which is sound because `DualcoreIpc`
implements it when the pushes of one core do not overlap; that premise is the
finding of section 6, so `Ipcex` describes a system in which one task at a time
pushes. The setter tasks, the LED task and the dispatch task with its callbacks are
actions over them. `build` chooses the RTOS build (a push blocks; the sleeping push
polls every 100 ticks, `Wake`) or the stand-alone loop (one call at a time, a push
into a full queue fails). Each variable is set by one task, as in all examples.
`gblUpdateFn` is left out: nothing registers one.

### RingBuffer, UartRb, ByteChannel

`RingBuffer` has the segment arithmetic of `RingBuffer_InsertMult` and `PopMult`.
`UartRb` runs `Chip_UART_SendRB` and `Chip_UART_ReadRB` in the main program and
`Chip_UART_IRQRBHandler` between any two of its steps. A `memcpy` with the addition
to `head` that follows it is one action, because the handler never reads or writes
`head` of the transmit ring while `SendRB` has masked it; on the receive ring the
copy and the addition to `tail` are two. The THRE interrupt is a level (enabled and
transmitter empty); an interrupt that the NVIC latched earlier may be taken after
its cause has gone, which is why the handler may start at any time. Since bytes are
written only when the transmitter is empty, at most one of its FIFO's places is in use.
IER is read, modified and written by one side at a time: the handler preempts and
finishes, and the bits it changes in the middle of `SendRB`'s update are the ones
`SendRB` sets itself.

`ByteChannel` is the promise for each ring: bytes of a stream go in, numbered by their
place in it, and come out in that order; a byte that finds the ring full need not go in
(the receive ring drops it), and then takes no number.

### EmacTx, FrameLink

`own`, `flags` and `addr` are the fields of the transmit descriptors, `txpbufs`, `free`,
`fill` and `reclaim` the driver's tables, and `seg`, `idx`, `ridx` the locals of the two
loops. The TCP/IP thread is `lpc_low_level_output`, cut where the cleanup task or the engine
can see the difference: the poll of `tx_free_descs` before the mutex is taken, the
fields of a descriptor, what to free and the LS flag, the OWN bit of the first
descriptor. The cleanup task waits for `TxCleanSem` and runs `lpc_tx_reclaim`. The
handler reads `DMA_STAT`, gives the semaphore and clears what it has read; no task of
the core runs meanwhile. The engine (external) sends what it owns, reports the end of
a frame in a step of its own (TI), and reports and suspends when it meets a
descriptor it does not own (TU), until a poll demand.

A frame is a pbuf chain with a reference count, which the stack may send again while it
is still in the ring, or drop; a frame in slow memory is copied to a pbuf that belongs to the
driver (`Copy`). A failing allocation of that pbuf returns `ERR_MEM` before any state
changes. `xTXDCountSem` is not a variable: the loop that takes it does not wait for it
and ignores the result. `EmacTxAssumption` has no chain longer than the ring: such a
frame keeps the loop waiting whatever the others do. Errors that the engine reports only
change statistics.

`FrameLink` is the promise: accepted frames leave whole, once, in order. A frame is
accepted by the store of its first OWN bit; `Given` reads the queue from the descriptors
that the engine owns.

### EmacRx, FrameDelivery

`own`, `bad` and `rxpbufs` describe the descriptors, `free`, `get` and `next` are the
driver's count and indices, `heap` and `stack` say where the pbufs are. Only the
receive task changes the ring, so its actions are cut where it calls `pbuf_alloc`, where it
gives the engine something (STATUS, poll demand) and where the pbuf goes on. `Fill` is
a round of `lpc_rx_queue`; `FillStop` its end, at any time, because `pbuf_alloc` may
return NULL whenever other users have the memory. A frame is the pbuf it arrived in and
whether it came with an error.
Reading `DMA_STAT` and giving `RxSem` are one action here: the task that takes the
semaphore does not run before the handler ends. The engine (external) closes
descriptors, reports (RI), and suspends without one (RU); a poll demand or the next
frame makes it look again. RU is taken as certain only after a descriptor that was
its own, so nothing rests on a second RU; for the same reason `Init` has at least one
pbuf queued. The pointer that stays in a descriptor after it was taken is replaced
by `None`: a model that read it again would fail.

`FrameDelivery` is the promise: good frames are handed over one at a time, in the
order of their arrival; one with an error is dropped when it is the oldest. `Received` reads
the frames that wait from the task, which may have a good one, and the closed descriptors.

### I2cBus, I2c

`I2cBus` is the controller and the bus (external): the flags STA, STO, AA and SI, the
status code of the last event, the data register, and other masters and slaves that do
whatever the protocol allows: refuse an address or a byte, win an arbitration, address
this controller, send or take any number of bytes, fail the bus. SI stretches the clock,
so nothing happens on the bus until the handler has cleared it. `wire` records what went
over it in the current transaction, for the properties only.

`I2c` is the driver. The task's steps are those of `Chip_I2C_MasterTransfer` between its
accesses to the transfer, to `CONSET`/`CONCLR` and to the flags, of the loops of
`MasterSend`, `MasterRead` and `MasterCmdRead` that call it again after a lost arbitration,
and of `SlaveSetup`. One call of `Chip_I2C_MasterStateHandler` or
`Chip_I2C_SlaveStateHandler` is one action, with one disjunct per group of status codes. In
interrupt mode the handler runs as soon as SI is set; in polling mode the waiting task
calls it. A slave's event handler may give its buffers their sizes back at any byte and
does so at the end of a transfer.

What the model assumes of the code's surroundings:

- `WindowCodes`: at most one status code comes in while `MasterTransfer` goes from
  publishing its transfer over the test of `sXfer` to its two register writes. A byte
  takes hundreds of instructions. Without this bound TLC finds that the START the task asks
  for overtakes a slave transfer that has begun in between (`i2c_18xx_43xx.c:422`, `:425`
  against `:99`). Its theorems are about `WindowCodes <= 1` (`OneCode`).
- The bus error is modelled while the controller is master; the codes 0x68, 0x78 and 0xB0
  (arbitration lost and addressed at once) are not generated, because slaves do not listen
  while a master call runs (`AA` is cleared).
- Polling is used without slaves: the example says a polling slave "works nevertheless"
  (`EX/periph/periph_i2c/i2c.c:128`), but a master call in polling mode that meets a slave
  transfer has nobody to serve it and waits for ever.
- Calls with a length of 0 and `SlaveSetup` from a second task are left out. Other masters
  win arbitrations in the address byte only, in the passing run: after a loss in the data
  the driver does not send the same transfer again (section 6).
- `ReturnTruthful` does not speak of a byte that the receiver refused: what `MasterSend`
  reports then is the finding `i2c_refused`. What went out before a bus error is left open.

### UsbMemory, UsbHost

`UsbMemory` is the allocator of `USBMemory.c`, store by store. `mem` is what a header at
each offset would be; `call[c]` says where the task or the handler is in a call of
`USB_Memory_Alloc` (search, fit, carve, shrink, join, claim) or `USB_Memory_Free` (test, grow,
link, walk, growprev, linkprev, mark) and has its locals. Nothing masks the interrupt whose
handler frees, so the handler's steps may come between any two of the task's. `list` is
history, the headers that have been put into the list. `PoolOK` is what whole calls keep: the
blocks tile the pool, aligned, and no two free ones are neighbours.

The code does not keep it in every interleaving. A free that the handler makes while the task
rests on what it has read from the list may merge a block away under the task, or free it
again. `torn` (history) becomes true in that case: a buffer is freed while a call of the other
context is `Inside`, that is, past its first test. The invariants on pool and buffers hold
under `Undisturbed` (not torn, and no call between two stores that belong together); what
happens otherwise is the finding `usb_race`. A double free whose two calls do not overlap in
this sense is inside the invariants: task and handler may both free the control buffer.

`UsbHost` is the task `USB_USBTask` with the state machine of `Host.c`, the keyboard
example as its class driver, pipes, queue heads and control transfers, and the interrupt
handler: a port change enumerates or de-enumerates a device, the end of a transfer changes the
status of a queue head, the advance of the asynchronous list frees the unlinked ones. The
task's waits are steps that take any time. Opening a pipe is five steps (`Open` takes a queue
head, `Link` puts it into the list, `StoreHandle`, `Alloc` and `Allocate`, `Assign`), closing
one as many (`Unhook`, `Drop`, `ReleaseBuffer` and `Free`, `Forget`); in the handler `ClosePipe`
does the first ones at once, because the task does not run. `handle`, `buf`, `qhd`, `linked` are
the tables of the code; `conn` and `change` the bits of PORTSC; `there`, `gone` and `orphans` are
history, for properties.

The handler acknowledges an interrupt by reading USBSTS and writing it back, which clears the
bits that were set meanwhile. So the end of a transfer may be missed (`Complete` with "missed")
while another interrupt is pending. A missed change of the port or a missed advance of the
list is left out.

What is simplified: one port (`PostWaitState` and `WaitMSRemaining` are one static for both
ports, so two devices that come together are outside the model); one port
change is handled before the next one (a change between the read of PORTSC and its clearing is
lost in the code); the stores that put a queue head into a list, or take it out, are one
step; a store to a bit field is one step, although the compiler reads and writes the word it is
packed in; what a device writes into a buffer is not modelled, so a torn list is never
overwritten with data; a rest outside the pool, which only a torn list has, stops the call;
`RemoveCompletedQTD` and `RemoveErrorQTD` are the end of the whole transfer; transfer
descriptors and data transfers on other pipes are not there.

## 4. Runs and bounds

| Run | What it asks | Bounds |
|---|---|---|
| `dualcore_ipc` | overfull, shared slots, lost wake-ups, FIFO refinement; everything sent is taken, a blocked push returns | 2 slots, counters mod 4, one pusher with all timeouts, one popper that also notifies |
| `dualcore_two_pushers` | violation: two tasks of a core push | two priorities on the M4, 2 messages |
| `ipcex` | block ownership, agreement of the variables, LED train, blocks come back | 2 slots, 4 blocks, a setter on each core, four builds |
| `ipcex_both_set` | violation: both cores set under an RTOS | 1 slot, 2 blocks each |
| `uart_rb` | exclusion, armed interrupt, refinement of both rings, everything sent leaves | rings of 2, counters mod 4, requests to send of 1 to 3 bytes, to read of 1 and 2 |
| `emac_tx` | ring consistency, exact references, FrameLink, calls return, all reclaimed | ring of 3, a frame of 2 pbufs sent any number of times, a copied frame of 1, equal priorities |
| `emac_rx` | ring consistency, one owner per pbuf, FrameDelivery, all frames looked at, ring filled again | ring of 3, 3 pbufs, frames with and without error |
| `i2c` | handler has its transfer, returns are truthful, bus released, calls return | 2 slaves, one the general call; up to 3 bytes each way, 4 bytes of a device per transaction; arbitration lost in the address |
| `i2c_arbitration` | violation: MasterSend returns the number of bytes transferred | the same, arbitration lost anywhere |
| `i2c_refused` | violation: the same of a send whose byte the slave refuses | as `i2c` |
| `usb_host` | pool, buffers of pipes, accounting, transfers return | pool of 32 bytes, 3 queue heads, control buffers of 8, data buffers of 3, 4 port changes |
| `usb_race` | violation: no pipe's buffer lies in a free block | the same, 3 port changes |

*Streams.* The code only copies messages and bytes, and never looks at one (the one
test, of a message's id, is in `Ipcex`). So one source that numbers its messages by their
place, modulo `Wrap`, is enough: a queue holds at most `Count` of them and `Wrap` is twice
that, so a message that is lost, repeated or out of turn has a number that does not
fit. `MC_Stream` gives place k the number k; `dualcore_two_pushers`, whose
violation is about single messages, takes both of two messages at every place.

*Sizes.* Two slots give empty, partly filled and full, and each slot is reused;
counters modulo 4 wrap after two rounds, so every combination of full, empty and
wrapped is reached (`Wrap >= 2 * Count` is the least the code can have, and 2^32 with any
legal size satisfies it). Requests of three bytes into rings of two exercise the second
insertion of `SendRB`.

`ipcex` has one build with more blocks than slots, so that a dispatch task finds its queue
full of blocks it gives back; an RTOS and a stand-alone build with a setter and an LED task;
and a stand-alone build in which both cores set. Two RTOS setters deadlock
(`ipcex_both_set`, with one slot), and even short of that a setter can be starved by a flood
from the other core.

In `emac_rx` three pbufs fill the ring, and leave it partly filled or dry while the stack
or the task has some. In `emac_tx` a frame of two starts at every descriptor, so it
crosses the end of the ring, and two frames do not always fit, so the wait and the full
ring occur.

In `i2c` three bytes are first, middle and last; a slave's buffer of three is used up by four.
In `usb_host` the library's 4 KB, buffers of 512 and 4 bytes and 8 queue heads become 32
bytes, 8 and 3 (not a multiple of four) and 3: two control buffers fill the pool, which is how
memory runs out before queue heads do. Four port changes are two devices that come and go:
the second finds what the first has left behind. In `usb_race` the second comes and is in the
middle of its enumeration when it goes.

*Deadlock* is checked in every run but `usb_host` and `usb_race`, where the task is at rest
when no device comes any more, or hangs in a transfer that was queued on a closed pipe
(section 6).

## 5. Fairness

*Queues.* Weak fairness for boot and handlers: cores run and pending interrupts are
taken. Strong for a task inside a call and for the popper: a task is held off again
and again by handlers and higher priorities, but these return, and the dispatch task
blocks up to 100 ticks between two messages. The tick that ends a wait is part of
the task's steps. No task has to start a push.

*Services.* The dispatch loop runs; the poll of a sleeping push meets room if there
is room again and again; under an RTOS setters run only when the dispatch task waits.
Nobody has to set or blink.

*UART.* The transmitter sends; an enabled and due interrupt is taken; bytes come in
more slowly than the handler reads them, so that it ends. Nobody has to call
anything or send to us.

*Ethernet.* The engine goes on and interrupts are taken; a thread that may run does (strong,
because the mutex and the handlers hold it off again and again). Two threads of one
priority share the time by the tick; with `CleanPrio = "lower"` the cleanup task runs
only when the other waits for the mutex or for work. `freertos_tcpecho` has equal
priorities (its TCP/IP priority is cut to `configMAX_PRIORITIES - 1`), the dual-core web
server different ones. Nobody has to send or to drop a frame.
On the receive side the stack gives pbufs back and an allocation tried for ever while
there is memory succeeds. The receive task polls when the ring is dry; the TCP/IP
thread has a higher priority and frees pbufs meanwhile. (Application tasks have a
lower one: if they hold all the memory, this assumption fails.) Nobody has to send
us a frame.

*I2C.* The task goes on (strong: the handler preempts it again and again), the handler runs
when SI is set, the controller makes progress on a bus it has. Other masters end
their transactions, refuse further bytes or stop in the end, and a controller that keeps
asking for the bus wins it in the end; the priority of addresses on a real bus gives that
only if nobody of higher priority floods it. Nobody has to call.

*USB.* The task goes on (strong, the handler holds it off), pending interrupts are taken, and
a transfer of a queue head that is in a list completes, well or badly: the controller gives up
a silent device after three attempts. A device that answers NAK for ever keeps its transfer
active (`EHCI.c:431` sets the reload count of NAKs to 0, "infinite NAK/NYET") and is left out. The
end of a transfer may be missed; `TransferReturns` says so. No device has to come or go.

## 6. Findings

- `EX/dualcore_43xx`: LED task and dispatch task of one core push into one queue
  without a lock. One that preempts the other between load and store of `head++`
  makes a push report `QUEUE_INSERT` for a message that is not in the queue
  (`dualcore_two_pushers`).
- In the RTOS build, with both queues full of updates, each dispatch task blocks in
  the push that gives a block back and waits for the other (`ipcex_both_set`).
- `Chip_I2C_MasterSend` starts again with the same transfer after a lost arbitration, but
  the handler has advanced `txBuff` and `txSz`: if the loss was in the data, only the rest is
  sent, and the result counts all of it (`i2c_arbitration`; `i2c_18xx_43xx.c:450`
  against `:192`, `i2c_18xx_43xx.h:225`). A one-byte send that loses its byte starts
  again as a read into a null buffer.
- `MasterSend` counts a byte when it hands it to the controller. If the slave refuses that
  byte, the result is one more than the "Number of bytes successfully transfered"
  (`i2c_refused`; `i2c_18xx_43xx.c:193` against `i2c_18xx_43xx.h:225`).
- Nothing masks the interrupt whose handler frees buffers while the task is inside the
  allocator. In a detach after `USBMemory.c:180` the handler merges the block that the task has
  chosen into the control buffer it frees, and the pipe gets memory inside a block of the list
  that is marked free (`usb_race`). A detach between lines 261 and 262 of the task's own free
  frees the same block again, and its size is added twice.

What the models show or leave open without a run of its own:

- The error exit of an enumeration leaves the control pipe open (`Host.c`); seven failures use
  the pool up. `BuffersAccounted` excuses these buffers by name (`orphans`).
- The task's store of the next host state overwrites the `Unattached` that a detach has
  stored meanwhile; the state says then Addressed or Configured without a device.
- A detach between the test of a pipe's handle and the store of "queued" in its queue
  head leaves the task spinning; `TransferReturns` speaks of transfers that are in a list
  when they are queued.
- Handle 0 is both "no handle" and that of a control pipe on queue head 0.
- A reset that keeps the shared RAM leaves the magic number of a queue valid: a pop of the
  other core passes the test for it before `IPC_initMsgQueue` has run. `Init` has no old magic
  number; with one TLC finds the violation of `OnlyInitialised`.
- The Ethernet driver waits for descriptors by polling (`xSemaphoreTake` with a time of 0), in
  a thread that the dual-core web server runs at a higher priority than the task that
  frees descriptors: a thread that finds too few waits for ever. With `CleanPrio = "lower"` TLC
  finds `OutputReturns` violated; with equal priorities (`emac_tx`) it holds.

## 7. Proofs

Assumptions are those of the modules: `RingAssumption` (a positive `Count` that divides
`Wrap`, at least twice), `DualcoreAssumption` (cores, tasks, priorities; one popper per
core), `EmacRxAssumption` (at least three descriptors, a finite non-empty set of pbufs),
`EmacTxAssumption` (a descriptor at least, chains that fit into the ring, copied frames of
one pbuf), `IpcexAssumption` (each variable set by one task; `NoBlock`, the value for
"none", neither a block nor a variable), `SlavesAssumption` and `LengthsAssumption` of the
I2C driver (addresses are numbers, transfers and buffers of at least one byte),
`UsbHostAssumption` and that of the pool, and the assumption of `UartRb`. Sizes, messages,
tasks and priorities are otherwise arbitrary.

Three hypotheses stand in the theorems themselves, because the code does not ensure them and
fails without them: `SinglePusher` of `DualcoreIpc` (section 6, `dualcore_two_pushers`),
`OneCode` of `I2cProofs` (the window of section 3; TLC finds no violation of these
invariants with two codes in it, and one with three), and `"data" \notin ArbitrationIn`
where a theorem of `I2c` counts bytes (section 6, `i2c_arbitration`). The passing runs
satisfy all three.

The theorems about buffers and pool of `UsbHost` conclude their invariants under `Undisturbed`,
which is a state of the model and no assumption on it: the torn states are reached, by the
passing run as well, and there nothing is claimed but the types and places of `TypeInv`.

- `RingIndexProofs`: division with remainder for a divisor that is a parameter (existence
  from the solver, uniqueness by a product estimate); from it the value of `Incr` and
  `DataCount` without the modulus, the change of the count by a push and a pop, and that
  positions closer than `Count` have different slots, the wrap of the word included.
- `DualcoreIpcProofs`: `TypeCorrect`, then `QueueCorrect`. `NeverOverfull` alone is not
  inductive: between the test and the store of a push the room must still be there, the slot
  must hold the message, the register must hold `head`, and the same for a pop. `QueueInv`
  is the conjunction of these facts. One lemma per group of actions: those that move only
  control, boot, push, pop. `NoSlotSharedCorrect` follows from `QueueInv` and the slot
  lemma, `WakeupCorrect` needs its own induction over the semaphore, the interrupt and the
  handler. `ChannelRefinement`: the queue implements the channel. The window of slots from
  `tail` to `head` gains its last element by the store of `head`, loses its first by the
  store of `tail`, and does not change by a copy into a free slot.
- `UartRbProofs` begins with what the two-segment copies of `RingBuffer_InsertMult` and
  `PopMult` do, for every size and width. The slots of a run are the interval up to the end
  of the array and one from its start (`Segments`, `SecondSegment`); a copy into free slots
  leaves what the ring holds and appends the run when `head` is advanced (`HeldWrite`);
  advancing `tail` removes the prefix that was copied (`HeldRead`). The invariant of the
  driver is type correctness, `TxInv` and `RxInv`. That the THRE interrupt is masked while
  `SendRB` is inside (`TxMasked`) makes the room it counted and the segments it computed
  stay valid (`TxSegments`), and the bytes in the ring stay a run of the stream
  (`TxStream`); on the receive side the run that `PopMult` has counted stays readable while
  the handler inserts. From it exclusion, the armed interrupt, and `TxRefinement` and
  `RxRefinement`: each ring implements `ByteChannel`.
- `EmacTxProofs`: `RingConsistent` and `RefsExact` are not inductive. `OwnAt(k)` says which
  k of the descriptors in use the engine has sent; the ones that a call is still filling
  (`Part`) come last, and of these all have their OWN bit but the first. `FramesAt(k)` says
  of every descriptor given that its flags are those of its segment, that the next one
  continues the frame or begins one, and that one at or behind it frees the chain: this is
  why the engine never stops inside a frame and why no buffer it owns is freed. `OutputInv`
  keeps what the thread has tested (room, `fill`, who has the mutex), and that the engine is
  suspended between frames only. References are counted by cardinalities of the descriptors
  that have saved a chain. `LinkRefinement`: the run of owned descriptors from the engine's
  position (`Given`) grows by a whole frame when the first OWN bit is stored, loses its
  first segment when the engine sends it, and does not change otherwise.
- `EmacRxProofs`: `RingConsistent` counts closed descriptors with a cardinality; the
  inductive form `RingAt(k)` says which k, counted from `get`, the engine has closed, that
  its position is the k-th and that it owns nothing outside the ones in use. `PbufInv` says
  that heap, stack, task and descriptors have disjoint pbufs and all of them. `TaskInv`
  relates the pbuf of the task to its place. The theorems follow by counting: k positions of
  a ring are k descriptors (`AtApart` and a bijection), a pbuf is in at most one.
  `DeliveryRefinement`: the frames in the k closed descriptors, after that of the task, gain
  one at the end when the engine closes the next, keep their order when the task takes the
  oldest, lose it when it is handed over or is bad, and are not touched by a pbuf queued
  behind them.
- `I2cProofs`: nothing in the handlers tests whether there is a transfer for the code they
  find. `CtlInv` says why there is: what mode and transfer go with each status code
  (`CodeInv`), where the task is while a transfer is published or over (`PlaceInv`), which
  control flags may be set then (`FlagInv`), when slaves are listened to (`ListenInv`), and
  for whom a slave's bit 0 waits (`SlaveInv`). `XferCorrect` and `ReleaseCorrect` follow.
  `DataInv` relates the sizes and the bytes of the transfer to `wire`, at each mode of the
  controller and after the end; from it `TypeCorrect` (no size goes below zero, that is, no
  byte is moved outside a buffer) and `TruthfulCorrect`.
- `UsbHostProofs` begins with what a split, a merge on either side and a change of a flag do
  to the blocks of a pool. `Sound` then says, for each step of a call, what the call has
  established: that a block was found, that the rest is written but not linked, that the list
  would be intact if the block in hand had the link or the flag it is about to get (`Half`).
  Each step of an undisturbed call leads from one of these to the next. `SoundInv`: until the
  list is torn, one call at most is past its first test (`Turn`), and `Sound` holds for it;
  `PoolCorrect` follows. For the buffers, `Held` says what each pipe has while none of its
  calls is closing it, and `Freeing` that the call which frees a buffer has its block in
  hand, or that this is free already; the second of two frees therefore frees nothing else
  (`BuffersCorrect`). `AccountInv` adds when the buffer of a pipe is lost already, so that
  storing another one over it loses nothing: in which host states, at which places of the
  task, and after a detach (`AccountCorrect`). `TypeInv` says which place of the task goes
  with which host state and which step of the allocator, and needs no `~torn`.
- `IpcexProofs`: `OneHolder` counts the places of a block over heap, setters, dispatch tasks
  and queues. The inductive form says pairwise that two setters, two dispatch tasks, two
  messages, and any two of different kind do not have the same block (`Unique`), that the
  blocks in use are those that somebody has, so in an RTOS build none is lost (`Owned`), and
  which place of a program goes with a block in hand (`Places`). One lemma per way in which
  a block changes hands (taken from the heap, pushed, received, dropped, freed), and one for
  the steps that move none (`Stay`); the theorem follows by counting at most one.
  `SyncCorrect` needs the updates on their way: only the owner of a variable sends them
  (`Home`), a block that is about to be pushed has the value of the local copy (`Pending`),
  and the last update under way has it too, or, if there is none, the copies agree
  (`Settled`); an update in a block cannot change under way because nobody else has the
  block. For `TrainCorrect` the train itself is inductive: a push adds the next state at its
  end, the peer takes one from its front, other messages between do not matter.

Every invariant and every refinement that a passing run checks is a theorem. Only
model-checked are the liveness properties (`SentIsTaken`, `BlockedPushReturns`,
`BlockReturns`, `TxDrains`, `OutputReturns`, `Reclaimed`, `Delivered`, `Refilled`,
`CallReturns`, `TransferReturns`), which rest on fairness and so on ENABLED, out of the
prover's reach; and the I2C driver for a window of more than one code, or with arbitration
lost in the data.

## 8. Not modelled

- The uCOS-III and no-OS waits of the queues differ only in how a task blocks.
- `malloc` and `free` of one core run in several tasks of the services; whether the C library
  is built with locks is not in the repository (`ipc_example.c:201`).
- The three-core queues (`EX/multicore`) are those of `dualcore_43xx` with one array per
  receiver; several cores push into one without a lock (`ipc_msg.c:128`), which is the
  situation of `dualcore_two_pushers`, and the stand-alone wait tests and then executes WFI
  (`ipc_msg.c:150`).
- `RingBuffer_Flush` is not called by the driver. UART set-up, polled and blocking
  transfers and auto-baud are straight-line register code, as is the set-up of PHY and MAC.
- Of the USB stack: transfer descriptors and data transfers, the second port, device side, OHCI,
  and class drivers other than the keyboard's.
- SD/MMC: command sequences of one task that waits for the card after each; the waits of
  `sdmmc_18xx_43xx.c:585` have no bound, so that a property would only restate it. `fs_mci.c`
  keeps one flag per disk, never cleared when a card goes (line 68).
- GPDMA: the only shared state is the test-and-set of a channel, which is not atomic
  (`gpdma_18xx_43xx.c:738`).
- The examples on the ROM stack: the stack that calls their handlers is not in the
  repository; the virtual COM port tests and clears flags shared with the handler
  (`cdc_vcom.c:109`, `cdc_uart.c:360`).
- The other components of section 1 are register access without state, forwarding, start-up
  and board files, or vendored code.

By lines the models cover a small share of the repository: vendored code (CMSIS, FreeRTOS, lwIP,
uCOS-III, FatFs), register headers and board files are by far the largest part of its source,
and no model of the parts with behaviour of their own changes that.
