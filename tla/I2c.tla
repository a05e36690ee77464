-------------------------------- MODULE I2c --------------------------------
(***************************************************************************)
(* The I2C driver of the LPC18xx/43xx, chip_18xx_43xx/i2c_18xx_43xx.c: one *)
(* task that sends and receives as bus master and sets up slaves, and the  *)
(* interrupt handler that advances the master or the slave transfer by one *)
(* status code.  The handler runs before the next instruction of the task  *)
(* whenever SI is set; in polling mode the waiting task calls it instead.  *)
(***************************************************************************)
EXTENDS I2cBus

CONSTANTS
    MaxTx,      \* bound: bytes of a caller's transmit buffer
    MaxRx,      \* bound: bytes of a caller's receive buffer
    SlaveRx,    \* rxSz a slave's event handler restores
    SlaveTx,    \* txSz a slave's event handler restores
    WindowCodes \* codes that fit before a transfer's START is asked for

ASSUME LengthsAssumption ==
    /\ MaxTx \in Nat \ {0} /\ MaxRx \in Nat \ {0} /\ WindowCodes \in Nat
    /\ SlaveRx \in Nat \ {0} /\ SlaveTx \in Nat \ {0}

NoXfer == -1

VARIABLES
    pc,      \* the task's next step
    op,      \* the running call: its function and the lengths it was given
    mx,      \* the master's I2C_XFER_T
    mXfer,   \* i2c[id].mXfer is set
    sXfer,   \* i2c[id].sXfer: the slave being served
    sx,      \* the slaves' I2C_XFER_Ts: rxSz, txSz and bit 0 of slaveAddr
    known,   \* slaves whose i2c_slave entry is filled
    flags,   \* i2c[id].flags: slaves set up
    sid,     \* the slave SlaveSetup is working on
    polling, \* i2c[id].mEvent is the polling handler and the interrupt is off
    window   \* history: codes reported since the transfer was published

xfervars == <<op, mx, mXfer>>
slavevars == <<sXfer, sx, known, flags, sid>>
swvars == <<pc, xfervars, slavevars, polling>>
vars == <<hwvars, swvars, window>>

Status == {"DONE", "NAK", "ARBLOST", "BUSERR", "BUSY", "SLAVENAK"}
Functions == {"MasterSend", "MasterRead", "MasterCmdRead", "MasterTransfer"}
NoOp == [fn |-> "none", tx |-> 0, rx |-> 0]

(* A transfer: bytes left, how far txBuff has moved, what rxBuff was given.*)
Xfer(tx, rx) ==
    [txSz |-> tx, rxSz |-> rx, next |-> 1, stored |-> <<>>, status |-> "BUSY"]

Calls == [fn : {"MasterSend"}, tx : 1..MaxTx, rx : {0}]
    \cup [fn : {"MasterRead"}, tx : {0}, rx : 1..MaxRx]
    \cup [fn : {"MasterCmdRead"}, tx : {1}, rx : 1..MaxRx]
    \cup [fn : {"MasterTransfer"}, tx : {MaxTx}, rx : {MaxRx}]

Rearmed == [rxSz |-> SlaveRx, txSz |-> SlaveTx, waiting |-> FALSE]

TransferSteps == {"check", "arm", "start", "wait", "stop", "quiet", "listen",
                  "ret"}
SetupSteps == {"address", "decide", "calm", "answer", "flag"}

Init ==
    /\ HwInit
    /\ pc = "idle" /\ op = NoOp /\ mx = Xfer(0, 0)
    /\ mXfer = FALSE /\ sXfer = NoXfer
    /\ sx = [s \in Slaves |-> Rearmed]
    /\ known = {} /\ flags = {} /\ sid = NoXfer
    /\ polling = FALSE /\ window = 0

-----------------------------------------------------------------------------
(* --- CONSET and CONCLR ------------------------------------------------- *)

(* What both state handlers end with: the flags kept out of cclr are set,  *)
(* the others but STO are cleared; SI, and with it the code, goes too.     *)
SetControl(keep) ==
    /\ con' = (con \cup keep) \ ((Flags \ keep) \ {"STO"})
    /\ stat' = NoInfo

(* --- the task ---------------------------------------------------------- *)

(* In interrupt mode the handler preempts the task.                        *)
Step(from, to) == (Interrupt => polling) /\ pc = from /\ pc' = to

(* i2c_set_mode of the application; SetMasterEventHandler takes a handler  *)
(* only between transfers.  Slaves are served in interrupt mode only.      *)
SetMode ==
    /\ Step("idle", "idle") /\ ~mXfer
    /\ known = {} /\ polling' = ~polling
    /\ UNCHANGED <<hwvars, xfervars, slavevars>>

(* MasterSend, MasterCmdRead and MasterRead fill an I2C_XFER_T and call    *)
(* MasterTransfer, which marks it busy and makes it the master transfer.   *)
Call ==
    /\ Step("idle", "check")
    /\ \E c \in Calls : op' = c /\ mx' = Xfer(c.tx, c.rx)
    /\ mXfer' = TRUE /\ window' = 0
    /\ UNCHANGED <<hwvars, slavevars, polling>>

(* Only a controller that serves no slave is started now; otherwise the    *)
(* slave handler starts it when the slave transfer is over.                *)
CheckSlave ==
    /\ \/ sXfer = NoXfer /\ Step("check", "arm")
       \/ sXfer # NoXfer /\ Step("check", "wait")
    /\ UNCHANGED <<hwvars, xfervars, slavevars, polling>>

(* startMasterXfer, its two register writes.                               *)
ArmMaster ==
    /\ Step("arm", "start")
    /\ con' = con \ {"SI", "STA", "AA"}
    /\ UNCHANGED <<allbutcon, xfervars, slavevars, polling>>

StartMaster ==
    /\ Step("start", "wait")
    /\ con' = con \cup {"STA"}
    /\ UNCHANGED <<allbutcon, xfervars, slavevars, polling>>

(* The event handler spins until the status has been written.              *)
WaitDone ==
    /\ Step("wait", "stop")
    /\ mx.status # "BUSY"
    /\ mXfer' = FALSE
    /\ UNCHANGED <<hwvars, op, mx, slavevars, polling>>

(* Mutant: the call does not wait for the STOP.                            *)
WaitStopSkipped ==
    /\ \/ flags # {} /\ Step("stop", "quiet")
       \/ flags = {} /\ Step("stop", "ret")
    /\ UNCHANGED <<hwvars, xfervars, slavevars, polling>>

(* The STOP must have gone out; then the slaves listen again.              *)
WaitStop ==
    /\ "STO" \notin con
    /\ \/ flags # {} /\ Step("stop", "quiet")
       \/ flags = {} /\ Step("stop", "ret")
    /\ UNCHANGED <<hwvars, xfervars, slavevars, polling>>

(* startSlaverXfer, its two register writes, after a transfer and from     *)
(* SlaveSetup.                                                             *)
QuietMaster ==
    /\ \/ Step("quiet", "listen")
       \/ Step("calm", "answer")
    /\ con' = con \ {"SI", "STA"}
    /\ UNCHANGED <<allbutcon, xfervars, slavevars, polling>>

ListenSlaves ==
    /\ \/ Step("listen", "ret")
       \/ Step("answer", "flag")
    /\ con' = con \cup {"AA"}
    /\ UNCHANGED <<allbutcon, xfervars, slavevars, polling>>

(* The three functions call MasterTransfer again with the same I2C_XFER_T  *)
(* while the arbitration is lost; MasterTransfer itself returns the status.*)
Retries == mx.status = "ARBLOST" /\ op.fn # "MasterTransfer"

Retry ==
    /\ Retries /\ Step("ret", "check")
    /\ mx' = [mx EXCEPT !.status = "BUSY"]
    /\ mXfer' = TRUE /\ window' = 0
    /\ UNCHANGED <<hwvars, op, slavevars, polling>>

Return ==
    /\ ~Retries /\ Step("ret", "idle")
    /\ op' = NoOp /\ mx' = Xfer(0, 0) /\ wire' = NoWire
    /\ UNCHANGED <<con, stat, dat, mode, bus, own, mXfer, slavevars, polling>>

(* Chip_I2C_SlaveSetup, once for each slave: the table entry, the address, *)
(* the test of the two transfers, and last the flag.                       *)
Setup(s) ==
    /\ s \notin known /\ ~polling
    /\ Step("idle", IF s = General THEN "decide" ELSE "address")
    /\ sid' = s /\ known' = known \cup {s}
    /\ UNCHANGED <<hwvars, xfervars, sXfer, sx, flags, polling>>

(* setSlaveAddr; bit 0 of the address turns the general call on, which the *)
(* header allows once the general slave is set up.                         *)
SetupAddress ==
    /\ Step("address", "decide")
    /\ \E gc \in SUBSET ({General} \cap known) : own' = own \cup {sid} \cup gc
    /\ UNCHANGED <<con, stat, dat, mode, bus, wire>>
    /\ UNCHANGED <<xfervars, slavevars, polling>>

SetupDecide ==
    /\ \/ flags = {} /\ ~mXfer /\ Step("decide", "calm")
       \/ ~(flags = {} /\ ~mXfer) /\ Step("decide", "flag")
    /\ UNCHANGED <<hwvars, xfervars, slavevars, polling>>

SetupFlag ==
    /\ Step("flag", "idle")
    /\ flags' = flags \cup {sid} /\ sid' = NoXfer
    /\ UNCHANGED <<hwvars, xfervars, sXfer, sx, known, polling>>

-----------------------------------------------------------------------------
(* --- the interrupt handler, master states ------------------------------ *)

IsMasterActive == stat < \h60

Stopped(x, status) == [x EXCEPT !.status = status]

(* START or repeated START is out: the address, to read if nothing is left *)
(* to send.                                                                *)
SendAddress ==
    /\ stat \in {\h08, \h10}
    /\ dat' = IF mx.txSz = 0 THEN Read ELSE Write
    /\ SetControl({})
    /\ UNCHANGED mx

SendNext ==
    /\ stat \in {\h18, \h28} /\ mx.txSz # 0
    /\ dat' = Byte(mx.next)
    /\ mx' = [mx EXCEPT !.next = @ + 1, !.txSz = @ - 1]
    /\ SetControl({})

(* All sent: a repeated START if there is something to read, else STOP.    *)
SendOver ==
    /\ stat \in {\h18, \h28} /\ mx.txSz = 0
    /\ \/ mx.rxSz # 0 /\ SetControl({"STA"}) /\ UNCHANGED mx
       \/ mx.rxSz = 0 /\ SetControl({"STO"}) /\ mx' = Stopped(mx, "DONE")
    /\ UNCHANGED dat

MoreToComeOffByOne(rxSz) == IF rxSz > 0 THEN {"AA"} ELSE {}

(* AA promises an acknowledge for the next byte: for all but the last.     *)
MoreToCome(rxSz) == IF rxSz > 1 THEN {"AA"} ELSE {}

ReadGranted ==
    /\ stat = \h40
    /\ SetControl(MoreToCome(mx.rxSz))
    /\ UNCHANGED <<dat, mx>>

StoreByte(x) == [x EXCEPT !.stored = Append(@, dat.of), !.rxSz = @ - 1]

StoreNextTestsFirst ==
    /\ stat = \h50
    /\ mx' = StoreByte(mx)
    /\ SetControl(MoreToCome(mx.rxSz))
    /\ UNCHANGED dat

StoreNext ==
    /\ stat = \h50
    /\ mx' = StoreByte(mx)
    /\ SetControl(MoreToCome(mx.rxSz - 1))
    /\ UNCHANGED dat

StoreLast ==
    /\ stat = \h58
    /\ mx' = Stopped(StoreByte(mx), "DONE")
    /\ SetControl({"STO"} \cup MoreToCome(mx.rxSz - 1))
    /\ UNCHANGED dat

(* The transfer ends early; STOP unless another master has the bus.        *)
Refused ==
    /\ \/ stat \in {\h20, \h48} /\ mx' = Stopped(mx, "SLAVENAK")
       \/ stat = \h30 /\ mx' = Stopped(mx, "NAK")
       \/ stat = \h00 /\ mx' = Stopped(mx, "BUSERR")
    /\ SetControl({"STO"})
    /\ UNCHANGED dat

ArbitrationLost ==
    /\ stat = \h38
    /\ mx' = Stopped(mx, "ARBLOST")
    /\ SetControl({})
    /\ UNCHANGED dat

MasterStateHandler ==
    /\ Interrupt /\ mXfer
    /\ IF polling THEN pc = "wait" /\ mx.status = "BUSY" ELSE IsMasterActive
    /\ \/ SendAddress \/ SendNext \/ SendOver \/ ReadGranted
       \/ StoreNext \/ StoreLast \/ Refused \/ ArbitrationLost
    /\ UNCHANGED <<mode, bus, own, wire, pc, op, mXfer, slavevars, polling>>

-----------------------------------------------------------------------------
(* --- the interrupt handler, slave states ------------------------------- *)

(* The slave a status code is for: the one being served, else the one whose*)
(* address is in DAT; codes that carry no address fall to the general one. *)
Serving ==
    IF sXfer # NoXfer THEN sXfer
    ELSE IF stat \in AddressedCodes THEN dat.of ELSE General

(* Bit 0 of slaveAddr remembers that a master transfer waits; an address   *)
(* code overwrites it.                                                     *)
Waiting(s) == sx[s].waiting \/ mXfer

(* An application's event handler may give its buffers back their sizes at *)
(* a byte, and does so at the end of the transfer.                         *)
AtByte(x) == {x, [x EXCEPT !.rxSz = SlaveRx], [x EXCEPT !.txSz = SlaveTx]}
AtEnd(x) == [x EXCEPT !.rxSz = SlaveRx, !.txSz = SlaveTx]

SlaveStored(s) ==
    /\ stat \in {\h80, \h90}
    /\ SetControl(MoreToCome(sx[s].rxSz - 1))
    /\ \E x \in AtByte([sx[s] EXCEPT !.rxSz = @ - 1, !.waiting = Waiting(s)]) :
           sx' = [sx EXCEPT ![s] = x]
    /\ sXfer' = s
    /\ UNCHANGED dat

SlaveSelectedKeepsBit(s) ==
    /\ stat \in {\h60, \h70}
    /\ SetControl(MoreToCome(sx[s].rxSz))
    /\ sx' = [sx EXCEPT ![s].waiting = Waiting(s)]
    /\ sXfer' = s
    /\ UNCHANGED dat

SlaveSelected(s) ==
    /\ stat \in {\h60, \h70}
    /\ SetControl(MoreToCome(sx[s].rxSz))
    /\ sx' = [sx EXCEPT ![s].waiting = FALSE]
    /\ sXfer' = s
    /\ UNCHANGED dat

SlaveSends(s) ==
    /\ stat \in {\hA8, \hB8}
    /\ dat' = Byte(0)
    /\ SetControl(IF sx[s].txSz - 1 > 0 THEN {"AA"} ELSE {})
    /\ LET bit == stat # \hA8 /\ Waiting(s)
       IN \E x \in AtByte([sx[s] EXCEPT !.txSz = @ - 1, !.waiting = bit]) :
              sx' = [sx EXCEPT ![s] = x]
    /\ sXfer' = s

SlaveOverForgetsMaster(s) ==
    /\ stat \in {\hC0, \hC8, \h88, \h98, \hA0}
    /\ SetControl({"AA"})
    /\ sx' = [sx EXCEPT ![s] = AtEnd([@ EXCEPT !.waiting = Waiting(s)])]
    /\ sXfer' = NoXfer
    /\ UNCHANGED dat

(* The transfer is over: a master that waits gets its START.               *)
SlaveOver(s) ==
    /\ stat \in {\hC0, \hC8, \h88, \h98, \hA0}
    /\ SetControl({"AA"} \cup (IF Waiting(s) THEN {"STA"} ELSE {}))
    /\ sx' = [sx EXCEPT ![s] = AtEnd([@ EXCEPT !.waiting = Waiting(s)])]
    /\ sXfer' = NoXfer
    /\ UNCHANGED dat

SlaveStateHandler ==
    /\ Interrupt /\ ~polling /\ ~IsMasterActive /\ Serving \in known
    /\ \/ SlaveStored(Serving) \/ SlaveSelected(Serving)
       \/ SlaveSends(Serving) \/ SlaveOver(Serving)
    /\ UNCHANGED <<mode, bus, own, wire>>
    /\ UNCHANGED <<pc, xfervars, known, flags, sid, polling>>

-----------------------------------------------------------------------------
(* The task's steps other than starting something new.                     *)
Proceed ==
    \/ CheckSlave \/ ArmMaster \/ StartMaster \/ WaitDone \/ WaitStop
    \/ QuietMaster \/ ListenSlaves \/ Return
    \/ SetupAddress \/ SetupDecide \/ SetupFlag

Task ==
    \/ Call \/ Retry
    \/ (Proceed \/ SetMode \/ \E s \in Slaves : Setup(s)) /\ UNCHANGED window

Handler == (MasterStateHandler \/ SlaveStateHandler) /\ UNCHANGED window

(* A byte on the bus takes hundreds of instructions: WindowCodes codes are *)
(* all that can come in while MasterTransfer goes from publishing its      *)
(* transfer over the test of sXfer to the two register writes.             *)
InWindow == pc \in {"check", "arm", "start"} /\ "SI" \in con'

Hw(A) ==
    /\ A
    /\ InWindow => window < WindowCodes
    /\ window' = IF InWindow THEN window + 1 ELSE window
    /\ UNCHANGED swvars

Bus == Hw(HwNext)

Next == Task \/ Handler \/ Bus

Spec == Init /\ [][Next]_vars
(* The task and the handler run when they can, and a controller that has   *)
(* the bus uses it.  The other masters finish their transactions, and one  *)
(* that keeps asking for the bus wins it in the end.                       *)
Fairness ==
    /\ SF_vars(Retry) /\ SF_vars(Proceed /\ UNCHANGED window)
    /\ WF_vars(Handler)
    /\ WF_vars(Hw(RepeatedStart \/ Stop \/ SendByte \/ ReceiveByte))
    /\ SF_vars(Hw(OtherReleases))
    /\ SF_vars(Hw(SlaveStop \/ SlaveByteLast))
    /\ SF_vars(Hw(Start)) /\ SF_vars(Hw(AddressAcked))

FairSpec == Spec /\ Fairness

-----------------------------------------------------------------------------
(* --- properties -------------------------------------------------------- *)

XferOK(x) ==
    /\ x.txSz \in Nat /\ x.rxSz \in Nat /\ x.next \in Nat
    /\ x.stored \in Seq(Nat) /\ x.status \in Status

(* Type invariant.  Sizes are natural numbers: neither the master nor a    *)
(* slave moves a byte outside the buffer its caller gave it.               *)
TypeOK ==
    /\ HwTypeOK
    /\ pc \in {"idle"} \cup TransferSteps \cup SetupSteps
    /\ op \in Calls \cup {NoOp}
    /\ XferOK(mx)
    /\ mXfer \in BOOLEAN
    /\ sXfer \in Slaves \cup {NoXfer}
    /\ sx \in [Slaves -> [rxSz : Nat, txSz : Nat, waiting : BOOLEAN]]
    /\ known \subseteq Slaves /\ flags \subseteq known
    /\ sid \in Slaves \cup {NoXfer}
    /\ polling \in BOOLEAN /\ window \in 0..WindowCodes

(* The handler always has a transfer to work on: a master status code finds*)
(* a master transfer that is still busy, a slave status code finds a slave *)
(* that has been set up.  Nothing in the handlers tests the pointers; it   *)
(* rests on when STA and AA are set and on the order in which SlaveSetup   *)
(* fills its table and turns the address on.                               *)
XferAtHand ==
    Interrupt => IF IsMasterActive
                 THEN mXfer /\ mx.status = "BUSY"
                 ELSE Serving \in known

Upto(n) == [i \in 1..n |-> i]
Handed == op.tx - mx.txSz

(* What a master call reports when it comes back is what happened on the   *)
(* bus, unless it lost an arbitration: the bytes stored are those read, in *)
(* order; after DONE every byte was acknowledged in order, every byte asked*)
(* for was read once and the last one was refused, so that the device lets *)
(* go of the line; after a refused address txSz says how many bytes were   *)
(* not acknowledged.  (A refused byte: RefusedNotCounted.  What went out   *)
(* before a bus error is left open.)                                       *)
ReturnTruthful ==
    pc = "ret" /\ mx.status # "ARBLOST" =>
        /\ mx.stored = Upto(wire.rx)
        /\ mx.status \in {"DONE", "SLAVENAK"} => wire.tx = Upto(Handed)
        /\ mx.status = "DONE" =>
               Handed = op.tx /\ wire.rx = op.rx /\ (op.rx > 0 => wire.nak)

(* What the header says MasterSend returns, "Number of bytes successfully  *)
(* transfered", of a send that ended with DONE: as many bytes as the slave *)
(* has acknowledged.  A byte lost to another master breaks it.             *)
SendReturnsDelivered ==
    pc = "ret" /\ op.fn = "MasterSend" /\ mx.status = "DONE" =>
        Handed = Len(wire.tx)

(* The same promise for a send that ends because the slave refuses a byte: *)
(* the byte was not transferred.  The handler counts it when it hands it to*)
(* the controller, before the answer (i2c_18xx_43xx.c:193).                *)
RefusedNotCounted ==
    pc = "ret" /\ op.fn = "MasterSend" /\ mx.status = "NAK" =>
        Handed = Len(wire.tx)

(* Between calls the controller holds neither the bus nor a request for it:*)
(* the call waited for its STOP, and no slave transfer left a START behind *)
(* that no master transfer waits for.  Once SlaveSetup has returned, it    *)
(* then answers its slave addresses, whatever calls and slave transfers    *)
(* came before (i2c_18xx_43xx.c:313, 434-436, 503-514).                    *)
BusReleased ==
    /\ pc \in {"idle", "ret"} \cup SetupSteps =>
           mode \notin MasterModes /\ {"STA", "STO"} \cap con = {}
    /\ flags # {} /\ pc = "idle" /\ mode = "idle" /\ ~Interrupt => "AA" \in con

(* Every call returns: the START that a slave transfer put off is made up  *)
(* for by the slave handler, and every way a transfer ends wakes the task. *)
CallReturns == (pc = "check") ~> (pc = "idle")
=============================================================================
