----------------------------- MODULE I2cProofs -----------------------------
(***************************************************************************)
(* The I2C driver finds the transfer that a status code is about, gives    *)
(* the bus back, listens to its slaves again, and reports what was on the  *)
(* wire, for all sets of slaves and sizes of buffers.                      *)
(***************************************************************************)
EXTENDS I2c, SequenceTheorems, TLAPS

(* What the model is checked for (section 3 of the README): at most one    *)
(* code comes in while a transfer is published.                            *)
OneCode == WindowCodes <= 1

(***************************************************************************)
(* The inductive invariant.  Nothing in the handlers tests whether there   *)
(* is a transfer for the code they find; that there is rests on what is    *)
(* said here of the places of the task, the control flags and the mode.    *)
(***************************************************************************)
SlaveModes == {"slaverx", "generalrx", "slavetx"}
Publishing == {"check", "arm", "start"}
Busy == mx.status = "BUSY"

Words == [kind : {"write", "read", "own", "byte"}, of : Nat]
Wires == [tx : Seq(Nat), rx : Nat, nak : BOOLEAN]
MasterXfers ==
    [txSz : Nat, rxSz : Int, next : Nat, stored : Seq(Nat), status : Status]
SlaveXfers == [rxSz : 1 .. SlaveRx, txSz : 0 .. SlaveTx, waiting : BOOLEAN]
USE DEF Words, Wires, MasterXfers, SlaveXfers

(* The types, but for the sign of the master's rxSz. *)
Shape ==
    /\ con \subseteq Flags
    /\ stat \in MasterCodes \cup SlaveCodes \cup {NoInfo}
    /\ dat \in Words
    /\ mode \in Modes /\ bus \in {"free", "ours", "other"}
    /\ wire \in Wires
    /\ pc \in {"idle"} \cup TransferSteps \cup SetupSteps
    /\ op \in Calls \cup {NoOp}
    /\ mx \in MasterXfers
    /\ mXfer \in BOOLEAN /\ sXfer \in Slaves \cup {NoXfer}
    /\ sx \in [Slaves -> SlaveXfers]
    /\ own \subseteq known /\ flags \subseteq known /\ known \subseteq Slaves
    /\ sid \in Slaves \cup {NoXfer} /\ polling \in BOOLEAN /\ window \in 0 .. WindowCodes

(* What a code is about. *)
MasterCode ==
    /\ mXfer /\ Busy /\ pc = "wait" /\ sXfer = NoXfer
    /\ \/ stat \in {\h08, \h10} /\ mode = "start"
       \/ stat \in {\h18, \h28} /\ mode = "tx"
       \/ stat = \h40 /\ mode = "rx"
       \/ stat = \h50 /\ mode = "rx" /\ mx.rxSz > 1
       \/ stat = \h58 /\ mode = "over" /\ mx.rxSz <= 1
       \/ stat \in {\h00, \h20, \h30, \h48} /\ mode = "over"
       \/ stat = \h38 /\ mode = "idle"
SlaveCode ==
    /\ flags # {} \/ pc = "flag"
    /\ \/ /\ sXfer = NoXfer /\ dat.of \in known
          /\ \/ stat \in {\h60, \h70} /\ mode \in {"slaverx", "generalrx"}
             \/ stat = \hA8 /\ mode = "slavetx"
       \/ /\ sXfer \in known
          /\ \/ stat \in {\h80, \h90} /\ mode \in {"slaverx", "generalrx"} /\ "AA" \in con
             \/ stat = \hB8 /\ mode = "slavetx" /\ "AA" \in con
             \/ stat \in {\hC0, \hC8, \h88, \h98, \hA0} /\ mode = "idle"
CodeInv ==
    /\ Interrupt => IF stat \in MasterCodes THEN MasterCode ELSE SlaveCode
    /\ ~Interrupt => /\ sXfer \in known \cup {NoXfer}
                     /\ sXfer # NoXfer <=> mode \in SlaveModes

(* The places of the task and the master transfer. *)
PlaceInv ==
    /\ mXfer <=> pc \in Publishing \cup {"wait"}
    /\ pc \in Publishing => Busy
    /\ pc \in Publishing /\ (Interrupt \/ "STA" \in con) => window >= 1
    /\ pc \in {"stop", "quiet", "listen", "ret"} => ~Busy
    /\ pc \in {"stop", "quiet", "listen"} \/ (pc = "wait" /\ ~Busy) =>
         /\ ~Interrupt /\ con \cap {"AA", "STA"} = {} /\ sXfer = NoXfer
         /\ \/ mode \in {"tx", "rx", "over"} /\ "STO" \in con
            \/ mode = "idle" /\ "STO" \notin con
    /\ pc \in {"quiet", "listen"} => mode = "idle" /\ flags # {}
    /\ polling => known = {}

(* The control flags and what the controller does on the bus. *)
FlagInv ==
    /\ mode \in MasterModes => sXfer = NoXfer /\ pc \in {"wait", "stop"}
    /\ "STA" \in con => mXfer /\ Busy
    /\ "STO" \in con => pc = "stop" \/ (pc = "wait" /\ ~Busy)
    /\ mode = "over" /\ ~Interrupt => "STO" \in con
    /\ mode = "rx" /\ ~Interrupt /\ Busy => /\ "AA" \in con <=> mx.rxSz > 1
                                            /\ "STA" \notin con
    /\ mode = "start" /\ ~Interrupt => "STA" \notin con

(* Setting up slaves, and when they are listened to. *)
ListenInv ==
    /\ pc \notin SetupSteps => known = flags
    /\ pc \in SetupSteps => known = flags \cup {sid} /\ ~polling
    /\ pc \in {"calm", "answer"} => flags = {}
    /\ flags = {} /\ "AA" \in con => pc \in Publishing \cup {"wait", "flag"}
    /\ flags = {} /\ pc # "flag" => sXfer = NoXfer
    /\ (flags # {} /\ pc \in {"idle", "ret", "check"} \cup SetupSteps) \/ pc = "flag" =>
         (mode = "idle" /\ ~Interrupt => "AA" \in con)

(* The sizes of the slaves' buffers, and whom bit 0 of an address waits for. *)
SlaveInv ==
    /\ mode \in {"slaverx", "generalrx"} /\ sXfer # NoXfer /\ "AA" \in con => sx[sXfer].rxSz > 1
    /\ sXfer # NoXfer /\ sx[sXfer].waiting => mXfer
    /\ \A s \in Slaves : sx[s].txSz = 0 =>
         /\ s = sXfer
         /\ \/ mode = "slavetx" /\ "AA" \notin con
            \/ mode = "idle" /\ Interrupt

CtlInv == Shape /\ CodeInv /\ PlaceInv /\ FlagInv /\ ListenInv /\ SlaveInv

(***************************************************************************)
(* What has been sent and read, as long as arbitration is lost in the      *)
(* address only.                                                           *)
(***************************************************************************)
Fresh == mx.txSz = op.tx /\ mx.rxSz = op.rx /\ mx.next = 1 /\ mx.stored = <<>>

(* Bytes that were read and stored: a byte that is reported is not yet.    *)
Unstored == Interrupt /\ stat \in {\h50, \h58}
Stored == IF Unstored THEN wire.rx - 1 ELSE wire.rx

(* A transaction of the master that is under way. *)
Started ==
    /\ Unstored => wire.rx >= 1 /\ dat.of = wire.rx
    /\ mx.stored = Upto(Stored) /\ mx.rxSz = op.rx - Stored
    /\ mode \in {"start", "tx"} => wire.rx = 0
    /\ mode = "start" =>
         /\ wire.tx = Upto(Handed)
         /\ Handed = 0 \/ mx.txSz = 0
         /\ mx.txSz = 0 => mx.rxSz >= 1
         /\ ~Interrupt => dat = IF mx.txSz = 0 THEN Read ELSE Write
    /\ mode = "tx" =>
         IF Interrupt \/ "STA" \in con
           THEN wire.tx = Upto(Handed) /\ (~Interrupt => mx.txSz = 0 /\ mx.rxSz >= 1)
           ELSE Handed >= 1 /\ dat.of = Handed /\ wire.tx = Upto(Handed - 1)
    /\ mode = "rx" => mx.txSz = 0 /\ mx.rxSz >= 1 /\ wire.tx = Upto(Handed)
    /\ mode = "over" =>
         /\ stat \in {\h20, \h48, \h58} => wire.tx = Upto(Handed)
         /\ stat = \h30 => Handed >= 1 /\ wire.tx = Upto(Handed - 1)
         /\ stat = \h58 => mx.txSz = 0 /\ mx.rxSz = 1 /\ wire.nak

(* A transaction that is over. *)
Reported ==
    /\ mx.stored = Upto(wire.rx)
    /\ mx.status \in {"DONE", "SLAVENAK"} => wire.tx = Upto(Handed)
    /\ mx.status = "DONE" => Handed = op.tx /\ wire.rx = op.rx /\ (op.rx > 0 => wire.nak)

DataInv ==
    /\ mx.rxSz >= 0
    /\ pc \in TransferSteps =>
         /\ op \in Calls
         /\ mx.txSz <= op.tx /\ mx.next = Handed + 1
         /\ Busy => IF mode \in MasterModes THEN Started ELSE Fresh
         /\ mx.status = "ARBLOST" => Fresh
         /\ ~Busy /\ mx.status # "ARBLOST" => Reported

(***************************************************************************)
(* The controller reports a code of the master.                            *)
(***************************************************************************)
LEMMA NoXferApart == NoXfer \notin Slaves
  BY SlavesAssumption DEF NoXfer

LEMMA MasterReports ==
    ASSUME CtlInv, UNCHANGED <<swvars, own, window>>,
           pc = "wait", mXfer, Busy, sXfer = NoXfer,
           con' = con \cup {"SI"}, stat' \in MasterCodes, MasterCode',
           dat' \in Words,
           wire' \in Wires,
           bus' \in {"free", "ours", "other"}
    PROVE  CtlInv'
<1> USE DEF CtlInv
<1>1. /\ "SI" \in con' /\ con' \subseteq Flags
      /\ \A f \in {"AA", "STA", "STO"} : f \in con' <=> f \in con
  BY DEF Shape, Flags
<1>2. UNCHANGED <<pc, op, mx, mXfer, sXfer, sx, known, flags, sid, polling, own, window>>
  BY DEF swvars, xfervars, slavevars
<1>3. mode' \in {"start", "tx", "rx", "over", "idle"}
  BY DEF MasterCode
<1>4. Shape'
  BY <1>1, <1>2, <1>3 DEF Shape, Modes, MasterModes
<1>5. CodeInv'
  BY <1>1 DEF CodeInv, Interrupt
<1>6. PlaceInv'
  BY <1>1, <1>2 DEF PlaceInv, Busy, Publishing
<1>7. FlagInv'
  BY <1>1, <1>2 DEF FlagInv, Busy, Interrupt
<1>8. ListenInv'
  BY <1>1, <1>2 DEF ListenInv, Publishing, SetupSteps
<1>9. SlaveInv'
  BY <1>2, NoXferApart DEF SlaveInv
<1> QED
  BY <1>4, <1>5, <1>6, <1>7, <1>8, <1>9

(* The window is closed for a second code, and no transfer has begun.      *)
LEMMA NoStartYet ==
    ASSUME CtlInv, OneCode, window < WindowCodes \/ pc \notin Publishing, "STA" \in con
    PROVE  pc = "wait" /\ mXfer /\ Busy
<1> USE DEF CtlInv
<1>1. mXfer /\ Busy /\ pc \in Publishing \cup {"wait"}
  BY DEF FlagInv, PlaceInv
<1>2. pc \in Publishing => window >= 1 /\ window \in Int /\ WindowCodes \in Int
  BY LengthsAssumption DEF PlaceInv, Shape
<1> QED
  BY <1>1, <1>2 DEF OneCode

(* What is known of the bytes of the wire and of the data register.        *)
LEMMA WireTyped ==
    ASSUME Shape
    PROVE  /\ dat.of \in Nat /\ wire.rx \in Nat
           /\ Byte(0) \in Words
           /\ Byte(wire.rx + 1) \in Words
           /\ NoWire \in Wires
           /\ [wire EXCEPT !.tx = Append(@, dat.of)] \in Wires
           /\ [wire EXCEPT !.nak = TRUE] \in Wires
           /\ \A b \in BOOLEAN : [wire EXCEPT !.rx = @ + 1, !.nak = b]
                                   \in Wires
<1>1. /\ dat \in Words
      /\ wire \in Wires
  BY DEF Shape
<1>2. /\ Append(wire.tx, dat.of) \in Seq(Nat) /\ <<>> \in Seq(Nat)
      /\ dat.of \in Nat /\ wire.rx \in Nat /\ wire.rx + 1 \in Nat
      /\ wire.tx \in Seq(Nat) /\ wire.nak \in BOOLEAN
  BY <1>1
<1>3. \A n \in Nat : Byte(n) \in Words
  BY DEF Byte
<1>4. NoWire \in Wires
  BY <1>2 DEF NoWire
<1>5. [wire EXCEPT !.tx = Append(@, dat.of)] \in Wires
  BY <1>1, <1>2
<1>6. [wire EXCEPT !.nak = TRUE] \in Wires
  BY <1>1
<1>7. ASSUME NEW b \in BOOLEAN
      PROVE  [wire EXCEPT !.rx = @ + 1, !.nak = b] \in Wires
  <2>1. [wire EXCEPT !.rx = wire.rx + 1] \in Wires
    BY <1>1, <1>2
  <2> QED
    BY <1>2, <2>1
<1> QED
  BY <1>2, <1>3, <1>4, <1>5, <1>6, <1>7

(* The master is on the bus and its last code was handled: then the task   *)
(* waits, and a transfer that has not ended is what it waits for.          *)
LEMMA OnBus ==
    ASSUME CtlInv, ~Interrupt, mode \in MasterModes, "STO" \notin con
    PROVE  /\ pc = "wait" /\ mXfer /\ Busy /\ sXfer = NoXfer /\ mode # "over"
           /\ mode = "rx" => ("AA" \in con <=> mx.rxSz > 1)
<1>1. pc \in {"wait", "stop"} /\ sXfer = NoXfer /\ mode # "over"
  BY DEF CtlInv, FlagInv
<1>2. pc = "wait" /\ Busy
  BY <1>1 DEF CtlInv, PlaceInv, MasterModes
<1> QED
  BY <1>1, <1>2 DEF CtlInv, PlaceInv, FlagInv

LEMMA MasterHwInv ==
    ASSUME CtlInv, OneCode,
           Hw(Start \/ RepeatedStart \/ AddressAcked \/ AddressRefused \/ SendByte
              \/ ReceiveByte \/ LoseArbitration \/ BusError)
    PROVE  CtlInv'
<1>1. /\ UNCHANGED swvars
      /\ InWindow => window < WindowCodes
      /\ window' = IF InWindow THEN window + 1 ELSE window
  BY DEF Hw
<1>2. Shape /\ dat \in Words /\ wire \in Wires /\ bus \in {"free", "ours", "other"}
  BY DEF CtlInv, Shape
<1>3. /\ UNCHANGED <<pc, mx, mXfer, sXfer>> /\ Busy' = Busy
  BY <1>1 DEF swvars, xfervars, slavevars, Busy
<1>4. SUFFICES /\ pc = "wait" /\ mXfer /\ Busy /\ sXfer = NoXfer /\ own' = own
               /\ con' = con \cup {"SI"} /\ stat' \in MasterCodes /\ MasterCode'
               /\ dat' \in Words /\ wire' \in Wires /\ bus' \in {"free", "ours", "other"}
  <2>1. window' = window
    BY <1>1, <1>4 DEF InWindow
  <2> QED
    BY <1>1, <1>4, <2>1, MasterReports
<1>5. CASE Start
  <2>1. "STA" \in con /\ (window < WindowCodes \/ pc \notin Publishing)
    BY <1>1, <1>5 DEF InWindow, Publishing, Start, Report
  <2>2. pc = "wait" /\ mXfer /\ Busy /\ sXfer = NoXfer
    <3>1. pc = "wait" /\ mXfer /\ Busy
      BY <2>1, NoStartYet
    <3>2. sXfer = NoXfer
      BY <1>5 DEF Start, CtlInv, CodeInv, SlaveModes
    <3> QED
      BY <3>1, <3>2
  <2> QED
    BY <1>2, <1>3, <1>5, <2>2, WireTyped DEF Start, Report, MasterCodes, MasterCode
<1>6. CASE RepeatedStart
  <2>1. pc = "wait" /\ mXfer /\ Busy /\ sXfer = NoXfer
    BY <1>6, OnBus DEF RepeatedStart, MasterModes
  <2> QED
    BY <1>2, <1>3, <1>6, <2>1 DEF RepeatedStart, Report, MasterCodes, MasterCode
<1> DEFINE Underway == /\ pc = "wait" /\ mXfer /\ Busy /\ sXfer = NoXfer
                       /\ mode = "rx" => ("AA" \in con <=> mx.rxSz > 1)
<1>7. ASSUME ~Interrupt, mode = "start" \/ Sending \/ Receiving PROVE Underway
  <2>1. mode \in MasterModes /\ "STO" \notin con
    <3>1. mode = "start" => "STO" \notin con
      BY DEF CtlInv, FlagInv, PlaceInv
    <3> QED
      BY <1>7, <3>1 DEF Sending, Receiving, MasterModes
  <2> QED
    BY <1>7, <2>1, OnBus
<1>8. CASE AddressAcked
  <2>1. Underway
    BY <1>7, <1>8 DEF AddressAcked
  <2> QED
    BY <1>2, <1>3, <1>8, <2>1 DEF AddressAcked, Report, MasterCodes, MasterCode
<1>9. CASE AddressRefused
  <2>1. Underway
    BY <1>7, <1>9 DEF AddressRefused
  <2> QED
    BY <1>2, <1>3, <1>9, <2>1 DEF AddressRefused, Report, MasterCodes, MasterCode
<1>10. CASE SendByte
  <2>1. Underway
    BY <1>7, <1>10 DEF SendByte
  <2>2. mode = "tx"
    BY <1>10 DEF SendByte, Sending
  <2> QED
    BY <1>2, <1>3, <1>10, <2>1, <2>2, WireTyped, ZenonT(30) DEF SendByte, Report, MasterCodes, MasterCode
<1>11. CASE ReceiveByte
  <2>1. Underway /\ mode = "rx" /\ mx.rxSz \in Int
    BY <1>2, <1>7, <1>11 DEF ReceiveByte, Receiving, Shape
  <2>2. dat' \in Words /\ wire' \in Wires
    BY <1>2, <1>11, WireTyped DEF ReceiveByte
  <2> QED
    BY <1>2, <1>3, <1>11, <2>1, <2>2 DEF ReceiveByte, Report, MasterCodes, MasterCode
<1>12. CASE LoseArbitration
  <2>1. Underway
    BY <1>7, <1>12 DEF LoseArbitration
  <2> QED
    BY <1>2, <1>3, <1>12, <2>1, WireTyped DEF LoseArbitration, Report, MasterCodes, MasterCode
<1>13. CASE BusError
  <2>1. Underway
    BY <1>7, <1>13 DEF BusError
  <2> QED
    BY <1>2, <1>3, <1>13, <2>1 DEF BusError, Report, MasterCodes, MasterCode
<1> QED
  BY <1>5, <1>6, <1>8, <1>9, <1>10, <1>11, <1>12, <1>13 DEF Hw

(***************************************************************************)
(* The controller reports a code of a slave.                               *)
(***************************************************************************)
LEMMA SlaveReports ==
    ASSUME CtlInv, UNCHANGED <<swvars, own, wire>>, ~Interrupt,
           InWindow => window < WindowCodes,
           window' = IF InWindow THEN window + 1 ELSE window,
           (mode = "idle" /\ "AA" \in con /\ mode' \in SlaveModes)
             \/ (mode \in SlaveModes /\ mode' \in {mode, "idle"}),
           con' = con \cup {"SI"}, stat' \in SlaveCodes, SlaveCode',
           dat' \in Words,
           bus' \in {"free", "ours", "other"}
    PROVE  CtlInv'
<1> USE DEF CtlInv
<1>1. /\ "SI" \in con' /\ con' \subseteq Flags
      /\ \A f \in {"AA", "STA", "STO"} : f \in con' <=> f \in con
  BY DEF Shape, Flags
<1>2. UNCHANGED <<pc, op, mx, mXfer, sXfer, sx, known, flags, sid, polling, own, wire>>
  BY DEF swvars, xfervars, slavevars
<1>3. /\ InWindow <=> pc \in Publishing
      /\ window \in 0 .. WindowCodes /\ WindowCodes \in Nat
  BY <1>1, LengthsAssumption DEF InWindow, Publishing, Shape
<1>4. window' \in 0 .. WindowCodes /\ (pc \in Publishing => window' >= 1)
  BY <1>3
<1>5. mode \notin MasterModes /\ mode' \notin MasterModes /\ mode' \in Modes
  BY DEF SlaveModes, MasterModes, Modes
<1>6. ~(pc \in {"stop", "quiet", "listen"} \/ (pc = "wait" /\ ~Busy))
  BY DEF PlaceInv, SlaveModes
<1>7. Shape'
  BY <1>1, <1>2, <1>4, <1>5 DEF Shape
<1>8. CodeInv'
  <2>1. stat' \notin MasterCodes
    BY DEF SlaveCodes, AddressedCodes, MasterCodes
  <2> QED
    BY <1>1, <2>1 DEF CodeInv, Interrupt
<1>9. PlaceInv'
  BY <1>1, <1>2, <1>4, <1>6 DEF PlaceInv, Busy, Publishing
<1>10. FlagInv'
  BY <1>1, <1>2, <1>5 DEF FlagInv, Busy, Interrupt, MasterModes
<1>11. ListenInv'
  BY <1>1, <1>2 DEF ListenInv, Publishing, SetupSteps, Interrupt
<1>12. SlaveInv'
  <2>1. mode = "idle" => sXfer = NoXfer /\ \A s \in Slaves : sx[s].txSz # 0
    BY DEF CodeInv, SlaveInv, SlaveModes
  <2>2. mode' \in SlaveModes => sXfer = NoXfer \/ mode' = mode
    BY <2>1 DEF SlaveModes
  <2>3. /\ mode' \in {"slaverx", "generalrx"} /\ sXfer # NoXfer /\ "AA" \in con
             => sx[sXfer].rxSz > 1
    BY <2>2 DEF SlaveInv, SlaveModes
  <2>4. ASSUME NEW s \in Slaves, sx[s].txSz = 0
        PROVE  s = sXfer /\ (mode' = "idle" \/ (mode' = "slavetx" /\ "AA" \notin con))
    BY <2>1, <2>4 DEF SlaveInv, SlaveModes
  <2> QED
    BY <1>1, <1>2, <2>3, <2>4 DEF SlaveInv, Interrupt
<1> QED
  BY <1>7, <1>8, <1>9, <1>10, <1>11, <1>12

LEMMA SlaveHwInv ==
    ASSUME CtlInv,
           Hw((\E s \in Slaves : Addressed(s)) \/ SlaveByteIn \/ SlaveStop
              \/ SlaveByteOut \/ SlaveByteLast)
    PROVE  CtlInv'
<1>1. /\ UNCHANGED swvars
      /\ InWindow => window < WindowCodes
      /\ window' = IF InWindow THEN window + 1 ELSE window
  BY DEF Hw
<1>2. Shape /\ dat \in Words /\ bus \in {"free", "ours", "other"} /\ Byte(0) \in Words
  BY WireTyped DEF CtlInv, Shape
<1>3. UNCHANGED <<pc, sXfer, known, flags>>
  BY <1>1 DEF swvars, xfervars, slavevars
<1>4. (\E s \in Slaves : Addressed(s)) \/ SlaveByteIn \/ SlaveStop
      \/ SlaveByteOut \/ SlaveByteLast
  BY DEF Hw
<1> DEFINE Reports == /\ UNCHANGED <<own, wire>> /\ ~Interrupt
                      /\ (mode = "idle" /\ "AA" \in con /\ mode' \in SlaveModes)
                           \/ (mode \in SlaveModes /\ mode' \in {mode, "idle"})
                      /\ con' = con \cup {"SI"} /\ stat' \in SlaveCodes /\ SlaveCode'
                      /\ dat' \in Words /\ bus' \in {"free", "ours", "other"}
<1>5. SUFFICES Reports
  BY <1>1, <1>5, SlaveReports
<1>6. ASSUME NEW s \in Slaves, Addressed(s)
      PROVE  Reports
  <2>1. s \in known /\ s \in Nat /\ sXfer = NoXfer
    BY <1>6, SlavesAssumption DEF Addressed, CtlInv, Shape, CodeInv, SlaveModes
  <2>2. flags # {} \/ pc = "flag"
    BY <1>6, <2>1 DEF Addressed, CtlInv, ListenInv, Publishing, SetupSteps
  <2>3. dat' \in Words /\ dat'.of = s
    BY <1>6, <2>1 DEF Addressed, Own
  <2> QED
    BY <1>3, <1>6, <2>1, <2>2, <2>3
       DEF Addressed, Report, SlaveCode, SlaveCodes, AddressedCodes, SlaveModes
<1>7. ASSUME SlaveByteIn \/ SlaveStop \/ SlaveByteOut \/ SlaveByteLast
      PROVE  Reports
  <2>1. ~Interrupt /\ mode \in SlaveModes
    BY <1>7 DEF SlaveByteIn, SlaveStop, SlaveByteOut, SlaveByteLast, SlaveModes
  <2>2. sXfer \in known /\ sXfer # NoXfer
    BY <2>1 DEF CtlInv, CodeInv
  <2>3. flags # {} \/ pc = "flag"
    BY <2>2 DEF CtlInv, ListenInv
  <2>4. dat' \in Words /\ UNCHANGED <<own, wire, bus>>
    BY <1>2, <1>7 DEF SlaveByteIn, SlaveStop, SlaveByteOut, SlaveByteLast
  <2>5. CASE SlaveByteIn
    BY <1>2, <1>3, <2>1, <2>2, <2>3, <2>4, <2>5
       DEF SlaveByteIn, Report, SlaveCode, SlaveCodes, SlaveModes
  <2>6. CASE SlaveStop
    BY <1>2, <1>3, <2>1, <2>2, <2>3, <2>4, <2>6
       DEF SlaveStop, Report, SlaveCode, SlaveCodes, SlaveModes
  <2>7. CASE SlaveByteOut
    BY <1>2, <1>3, <2>1, <2>2, <2>3, <2>4, <2>7
       DEF SlaveByteOut, Report, SlaveCode, SlaveCodes, SlaveModes
  <2>8. CASE SlaveByteLast
    BY <1>2, <1>3, <2>1, <2>2, <2>3, <2>4, <2>8
       DEF SlaveByteLast, Report, SlaveCode, SlaveCodes, SlaveModes
  <2> QED
    BY <1>7, <2>5, <2>6, <2>7, <2>8
<1> QED
  BY <1>4, <1>6, <1>7

(* The STOP is out; the other masters take the bus and leave it.           *)
LEMMA QuietHwInv ==
    ASSUME CtlInv, Hw(Stop \/ OtherTakes \/ OtherReleases)
    PROVE  CtlInv'
<1> USE DEF CtlInv
<1>1. ~Interrupt /\ "SI" \notin con' /\ ~Interrupt'
  BY DEF Hw, Stop, OtherTakes, OtherReleases, Interrupt
<1>2. window' = window /\ UNCHANGED swvars
  BY <1>1 DEF Hw, InWindow
<1>3. UNCHANGED <<pc, op, mx, mXfer, sXfer, sx, known, flags, sid, polling>>
  BY <1>2 DEF swvars, xfervars, slavevars
<1>4. CASE Stop
  <2>1. /\ con' = con \ {"STO"} /\ mode' = "idle" /\ bus' = "free" /\ dat' = Byte(0)
        /\ UNCHANGED <<stat, own, wire>> /\ "STO" \in con /\ mode \in {"tx", "rx",
                       "over"}
    BY <1>4 DEF Stop
  <2>2. pc = "stop" \/ (pc = "wait" /\ ~Busy)
    BY <2>1 DEF FlagInv
  <2>3. con \cap {"AA", "STA"} = {} /\ con' \cap {"AA", "STA", "STO"} = {} /\ sXfer = NoXfer
    BY <2>1, <2>2 DEF PlaceInv
  <2>4. Shape'
    <3>1. dat' \in Words
      BY <2>1, WireTyped
    <3>2. con' \subseteq Flags
      BY <2>1 DEF Shape
    <3> QED
      BY <1>2, <1>3, <2>1, <3>1, <3>2, SMTT(30) DEF Shape, Modes
  <2>5. CodeInv'
    BY <1>1, <1>3, <2>1, <2>3 DEF CodeInv, SlaveModes
  <2>6. PlaceInv'
    BY <1>1, <1>2, <1>3, <2>1, <2>2, <2>3 DEF PlaceInv, Publishing, Busy
  <2>7. FlagInv'
    BY <1>1, <1>3, <2>1, <2>3 DEF FlagInv, MasterModes
  <2>8. ListenInv'
    BY <1>1, <1>3, <2>1, <2>2, <2>3 DEF ListenInv, Publishing, SetupSteps
  <2>9. SlaveInv'
    BY <1>1, <1>3, <2>1, <2>3 DEF SlaveInv
  <2> QED
    BY <2>4, <2>5, <2>6, <2>7, <2>8, <2>9
<1>5. CASE OtherTakes \/ OtherReleases
  <2>1. UNCHANGED <<con, stat, dat, mode, own, wire>> /\ bus' \in {"free", "ours", "other"}
    BY <1>5 DEF OtherTakes, OtherReleases
  <2>2. Shape'
    BY <1>2, <1>3, <2>1, SMTT(30) DEF Shape
  <2>3. CodeInv'
    BY <1>1, <1>3, <2>1 DEF CodeInv
  <2>4. PlaceInv'
    BY <1>1, <1>2, <1>3, <2>1 DEF PlaceInv, Busy
  <2>5. FlagInv'
    BY <1>1, <1>3, <2>1 DEF FlagInv, Busy
  <2>6. ListenInv'
    BY <1>1, <1>3, <2>1 DEF ListenInv
  <2>7. SlaveInv'
    BY <1>1, <1>3, <2>1 DEF SlaveInv
  <2> QED
    BY <2>2, <2>3, <2>4, <2>5, <2>6, <2>7
<1> QED
  BY <1>4, <1>5 DEF Hw

LEMMA BusInv == ASSUME CtlInv, OneCode, Bus PROVE CtlInv'
<1>1. HwNext /\ Hw(HwNext)
  BY DEF Bus, Hw
<1>2. CASE Start \/ RepeatedStart \/ AddressAcked \/ AddressRefused \/ SendByte
           \/ ReceiveByte \/ LoseArbitration \/ BusError
  BY <1>1, <1>2, MasterHwInv DEF Hw
<1>3. CASE (\E s \in Slaves : Addressed(s)) \/ SlaveByteIn \/ SlaveStop
           \/ SlaveByteOut \/ SlaveByteLast
  BY <1>1, <1>3, SlaveHwInv DEF Hw
<1>4. CASE Stop \/ OtherTakes \/ OtherReleases
  BY <1>1, <1>4, QuietHwInv DEF Hw
<1> QED
  BY <1>1, <1>2, <1>3, <1>4 DEF HwNext

(***************************************************************************)
(* The steps of the task.                                                  *)
(***************************************************************************)
(* The handler goes first: when the task takes a step, no code waits that  *)
(* it could disturb.                                                       *)
LEMMA Undisturbed ==
    ASSUME CtlInv, Interrupt => polling
    PROVE  Interrupt => pc = "wait" /\ Busy
<1>1. Interrupt => flags = {} /\ pc # "flag"
  BY DEF CtlInv, PlaceInv, ListenInv, Shape, SetupSteps
<1> QED
  BY <1>1 DEF CtlInv, CodeInv, MasterCode, SlaveCode

LEMMA CallsTyped == \A c \in Calls : c.tx \in Nat /\ c.rx \in Nat
  BY LengthsAssumption DEF Calls

LEMMA XferTyped ==
    ASSUME NEW tx \in Nat, NEW rx \in Nat
    PROVE  /\ Xfer(tx, rx) \in MasterXfers
           /\ Xfer(tx, rx).status = "BUSY"
<1>1. <<>> \in Seq(Nat) /\ "BUSY" \in Status
  BY DEF Status
<1> QED
  BY <1>1 DEF Xfer

LEMMA SetModeInv ==
    ASSUME CtlInv, SetMode, UNCHANGED window
    PROVE  CtlInv'
<1> USE DEF CtlInv
<1>1. /\ pc = "idle" /\ pc' = "idle" /\ known = {} /\ polling' \in BOOLEAN
      /\ UNCHANGED <<con, stat, dat, mode, bus, own, wire, op, mx, mXfer, sXfer, sx,
                     known, flags, sid, window>>
  BY DEF SetMode, Step, hwvars, allbutcon, xfervars, slavevars
<1>2. ~Interrupt /\ ~Interrupt'
  BY <1>1, Undisturbed DEF SetMode, Step, Interrupt, PlaceInv
<1>3. Shape'
  BY <1>1, <1>2 DEF Shape, TransferSteps, SetupSteps
<1>4. CodeInv'
  BY <1>1, <1>2 DEF CodeInv
<1>5. PlaceInv'
  BY <1>1, <1>2 DEF PlaceInv, Publishing, Busy
<1>6. FlagInv'
  BY <1>1, <1>2 DEF FlagInv, PlaceInv, Publishing, Busy, MasterModes
<1>7. ListenInv'
  BY <1>1, <1>2 DEF ListenInv, PlaceInv, Publishing, SetupSteps
<1>8. SlaveInv'
  BY <1>1, <1>2 DEF SlaveInv
<1> QED
  BY <1>3, <1>4, <1>5, <1>6, <1>7, <1>8

LEMMA CallInv == ASSUME CtlInv, Call PROVE CtlInv'
<1> USE DEF CtlInv
<1>1. /\ pc = "idle" /\ pc' = "check" /\ mXfer' = TRUE /\ window' = 0
      /\ op' \in Calls /\ mx' = Xfer(op'.tx, op'.rx)
      /\ UNCHANGED <<con, stat, dat, mode, bus, own, wire, sXfer, sx, known, flags,
                     sid, polling>>
  BY DEF Call, Step, hwvars, allbutcon, xfervars, slavevars, Busy
<1>2. ~Interrupt /\ ~Interrupt'
  BY <1>1, Undisturbed DEF Call, Step, Interrupt, PlaceInv
<1>0. mx' \in MasterXfers /\ Busy'
  BY <1>1, CallsTyped, XferTyped DEF Busy
<1>3. Shape'
  <2>1. window' \in 0 .. WindowCodes /\ pc' \in TransferSteps /\ op' \in Calls \cup {NoOp}
    BY <1>1, LengthsAssumption DEF TransferSteps
  <2> QED
    BY <1>0, <1>1, <2>1 DEF Shape
<1>4. CodeInv'
  BY <1>1, <1>2 DEF CodeInv
<1>5. PlaceInv'
  BY <1>0, <1>1, <1>2 DEF PlaceInv, FlagInv, Publishing
<1>6. FlagInv'
  BY <1>0, <1>1, <1>2 DEF FlagInv, PlaceInv, Publishing, MasterModes
<1>7. ListenInv'
  BY <1>1, <1>2 DEF ListenInv, PlaceInv, Publishing, SetupSteps
<1>8. SlaveInv'
  BY <1>1, <1>2 DEF SlaveInv
<1> QED
  BY <1>3, <1>4, <1>5, <1>6, <1>7, <1>8

LEMMA CheckSlaveInv ==
    ASSUME CtlInv, CheckSlave, UNCHANGED window
    PROVE  CtlInv'
<1> USE DEF CtlInv
<1>1. /\ pc = "check" /\ pc' \in {"arm", "wait"}
      /\ UNCHANGED <<con, stat, dat, mode, bus, own, wire, op, mx, mXfer, sXfer, sx,
                     known, flags, sid, polling, window>>
  BY DEF CheckSlave, Step, hwvars, allbutcon, xfervars, slavevars
<1>2. ~Interrupt /\ ~Interrupt'
  BY <1>1, Undisturbed DEF CheckSlave, Step, Interrupt, PlaceInv
<1>3. Shape'
  BY <1>1, <1>2, SMTT(30) DEF Shape, TransferSteps, SetupSteps
<1>4. CodeInv'
  BY <1>1, <1>2 DEF CodeInv
<1>5. PlaceInv'
  BY <1>1, <1>2 DEF PlaceInv, Publishing, Busy
<1>6. FlagInv'
  BY <1>1, <1>2 DEF FlagInv, PlaceInv, Publishing, Busy, MasterModes
<1>7. ListenInv'
  BY <1>1, <1>2 DEF ListenInv, PlaceInv, Publishing, SetupSteps
<1>8. SlaveInv'
  BY <1>1, <1>2 DEF SlaveInv
<1> QED
  BY <1>3, <1>4, <1>5, <1>6, <1>7, <1>8

LEMMA ArmMasterInv ==
    ASSUME CtlInv, ArmMaster, UNCHANGED window
    PROVE  CtlInv'
<1> USE DEF CtlInv
<1>1. /\ pc = "arm" /\ pc' = "start" /\ con' = con \ {"SI", "STA", "AA"}
      /\ UNCHANGED <<stat, dat, mode, bus, own, wire, op, mx, mXfer, sXfer, sx,
                     known, flags, sid, polling, window>>
  BY DEF ArmMaster, Step, hwvars, allbutcon, xfervars, slavevars
<1>2. ~Interrupt /\ ~Interrupt'
  BY <1>1, Undisturbed DEF ArmMaster, Step, Interrupt, PlaceInv
<1>3. Shape'
  BY <1>1, <1>2 DEF Shape, TransferSteps, SetupSteps
<1>4. CodeInv'
  BY <1>1, <1>2 DEF CodeInv
<1>5. PlaceInv'
  BY <1>1, <1>2 DEF PlaceInv, Publishing, Busy
<1>6. FlagInv'
  BY <1>1, <1>2 DEF FlagInv, PlaceInv, Publishing, Busy, MasterModes
<1>7. ListenInv'
  BY <1>1, <1>2 DEF ListenInv, PlaceInv, Publishing, SetupSteps
<1>8. SlaveInv'
  BY <1>1, <1>2 DEF SlaveInv
<1> QED
  BY <1>3, <1>4, <1>5, <1>6, <1>7, <1>8

LEMMA StartMasterInv ==
    ASSUME CtlInv, StartMaster, UNCHANGED window
    PROVE  CtlInv'
<1> USE DEF CtlInv
<1>1. /\ pc = "start" /\ pc' = "wait" /\ con' = con \cup {"STA"}
      /\ UNCHANGED <<stat, dat, mode, bus, own, wire, op, mx, mXfer, sXfer, sx,
                     known, flags, sid, polling, window>>
  BY DEF StartMaster, Step, hwvars, allbutcon, xfervars, slavevars
<1>2. ~Interrupt /\ ~Interrupt'
  BY <1>1, Undisturbed DEF StartMaster, Step, Interrupt, PlaceInv
<1>3. Shape'
  BY <1>1, <1>2, SMTT(30) DEF Shape, TransferSteps, SetupSteps, Flags
<1>4. CodeInv'
  BY <1>1, <1>2 DEF CodeInv
<1>5. PlaceInv'
  BY <1>1, <1>2 DEF PlaceInv, Publishing, Busy
<1>6. FlagInv'
  BY <1>1, <1>2 DEF FlagInv, PlaceInv, Publishing, Busy, MasterModes
<1>7. ListenInv'
  BY <1>1, <1>2 DEF ListenInv, PlaceInv, Publishing, SetupSteps
<1>8. SlaveInv'
  BY <1>1, <1>2 DEF SlaveInv
<1> QED
  BY <1>3, <1>4, <1>5, <1>6, <1>7, <1>8

LEMMA WaitDoneInv ==
    ASSUME CtlInv, WaitDone, UNCHANGED window
    PROVE  CtlInv'
<1> USE DEF CtlInv
<1>1. /\ pc = "wait" /\ pc' = "stop" /\ ~Busy /\ mXfer' = FALSE
      /\ UNCHANGED <<con, stat, dat, mode, bus, own, wire, op, mx, sXfer, sx, known,
                     flags, sid, polling, window>>
  BY DEF WaitDone, Step, hwvars, allbutcon, xfervars, slavevars, Busy
<1>2. ~Interrupt /\ ~Interrupt'
  BY <1>1, Undisturbed DEF WaitDone, Step, Interrupt, PlaceInv
<1>3. Shape'
  BY <1>1, <1>2, ZenonT(30) DEF Shape, TransferSteps, SetupSteps
<1>4. CodeInv'
  BY <1>1, <1>2 DEF CodeInv
<1>5. PlaceInv'
  BY <1>1, <1>2 DEF PlaceInv, Publishing, Busy
<1>6. FlagInv'
  BY <1>1, <1>2 DEF FlagInv, PlaceInv, Publishing, Busy, MasterModes
<1>7. ListenInv'
  BY <1>1, <1>2 DEF ListenInv, PlaceInv, Publishing, SetupSteps
<1>8. SlaveInv'
  BY <1>1, <1>2 DEF SlaveInv, PlaceInv
<1> QED
  BY <1>3, <1>4, <1>5, <1>6, <1>7, <1>8

LEMMA WaitStopInv ==
    ASSUME CtlInv, WaitStop, UNCHANGED window
    PROVE  CtlInv'
<1> USE DEF CtlInv
<1>1. /\ pc = "stop" /\ "STO" \notin con
      /\ (flags # {} /\ pc' = "quiet") \/ (flags = {} /\ pc' = "ret")
      /\ UNCHANGED <<con, stat, dat, mode, bus, own, wire, op, mx, mXfer, sXfer, sx,
                     known, flags, sid, polling, window>>
  BY DEF WaitStop, Step, hwvars, allbutcon, xfervars, slavevars
<1>2. ~Interrupt /\ ~Interrupt'
  BY <1>1, Undisturbed DEF WaitStop, Step, Interrupt, PlaceInv
<1>3. Shape'
  BY <1>1, <1>2, SMTT(30) DEF Shape, TransferSteps, SetupSteps
<1>4. CodeInv'
  BY <1>1, <1>2 DEF CodeInv
<1>5. PlaceInv'
  BY <1>1, <1>2 DEF PlaceInv, Publishing, Busy
<1>6. FlagInv'
  BY <1>1, <1>2 DEF FlagInv, PlaceInv, Publishing, Busy, MasterModes
<1>7. ListenInv'
  BY <1>1, <1>2 DEF ListenInv, PlaceInv, Publishing, SetupSteps
<1>8. SlaveInv'
  BY <1>1, <1>2 DEF SlaveInv
<1> QED
  BY <1>3, <1>4, <1>5, <1>6, <1>7, <1>8

LEMMA QuietMasterInv ==
    ASSUME CtlInv, QuietMaster, UNCHANGED window
    PROVE  CtlInv'
<1> USE DEF CtlInv
<1>1. /\ (pc = "quiet" /\ pc' = "listen") \/ (pc = "calm" /\ pc' = "answer")
      /\ con' = con \ {"SI", "STA"}
      /\ UNCHANGED <<stat, dat, mode, bus, own, wire, op, mx, mXfer, sXfer, sx,
                     known, flags, sid, polling, window>>
  BY DEF QuietMaster, Step, hwvars, allbutcon, xfervars, slavevars
<1>2. ~Interrupt /\ ~Interrupt'
  BY <1>1, Undisturbed DEF QuietMaster, Step, Interrupt, PlaceInv
<1>3. Shape'
  BY <1>1, <1>2, SMTT(30) DEF Shape, TransferSteps, SetupSteps
<1>4. CodeInv'
  BY <1>1, <1>2 DEF CodeInv
<1>5. PlaceInv'
  BY <1>1, <1>2 DEF PlaceInv, Publishing, Busy
<1>6. FlagInv'
  BY <1>1, <1>2 DEF FlagInv, PlaceInv, Publishing, Busy, MasterModes
<1>7. ListenInv'
  BY <1>1, <1>2 DEF ListenInv, PlaceInv, Publishing, SetupSteps
<1>8. SlaveInv'
  BY <1>1, <1>2 DEF SlaveInv
<1> QED
  BY <1>3, <1>4, <1>5, <1>6, <1>7, <1>8

LEMMA ListenSlavesInv ==
    ASSUME CtlInv, ListenSlaves, UNCHANGED window
    PROVE  CtlInv'
<1> USE DEF CtlInv
<1>1. /\ (pc = "listen" /\ pc' = "ret") \/ (pc = "answer" /\ pc' = "flag")
      /\ con' = con \cup {"AA"}
      /\ UNCHANGED <<stat, dat, mode, bus, own, wire, op, mx, mXfer, sXfer, sx,
                     known, flags, sid, polling, window>>
  BY DEF ListenSlaves, Step, hwvars, allbutcon, xfervars, slavevars
<1>2. ~Interrupt /\ ~Interrupt'
  BY <1>1, Undisturbed DEF ListenSlaves, Step, Interrupt, PlaceInv
<1>3. Shape'
  BY <1>1, <1>2, SMTT(30) DEF Shape, TransferSteps, SetupSteps, Flags
<1>4. CodeInv'
  BY <1>1, <1>2 DEF CodeInv
<1>5. PlaceInv'
  BY <1>1, <1>2 DEF PlaceInv, Publishing, Busy
<1>6. FlagInv'
  BY <1>1, <1>2 DEF FlagInv, PlaceInv, Publishing, Busy, MasterModes
<1>7. ListenInv'
  BY <1>1, <1>2 DEF ListenInv, PlaceInv, Publishing, SetupSteps
<1>8. SlaveInv'
  BY <1>1, <1>2, NoXferApart DEF SlaveInv, PlaceInv, ListenInv, SetupSteps
<1> QED
  BY <1>3, <1>4, <1>5, <1>6, <1>7, <1>8

LEMMA RetryInv == ASSUME CtlInv, Retry PROVE CtlInv'
<1> USE DEF CtlInv
<1>1. /\ pc = "ret" /\ pc' = "check" /\ mXfer' = TRUE /\ window' = 0
      /\ mx' = [mx EXCEPT !.status = "BUSY"]
      /\ UNCHANGED <<con, stat, dat, mode, bus, own, wire, op, sXfer, sx, known,
                     flags, sid, polling>>
  BY DEF Retry, Step, hwvars, allbutcon, xfervars, slavevars
<1>2. ~Interrupt /\ ~Interrupt'
  BY <1>1, Undisturbed DEF Retry, Step, Interrupt, PlaceInv
<1>0. mx' \in MasterXfers /\ Busy'
  BY <1>1 DEF Shape, Status, Busy
<1>3. Shape'
  <2>1. window' \in 0 .. WindowCodes /\ pc' \in TransferSteps /\ op' \in Calls \cup {NoOp}
    BY <1>1, LengthsAssumption DEF TransferSteps, Shape, NoOp, SetupSteps
  <2> QED
    BY <1>0, <1>1, <2>1 DEF Shape
<1>4. CodeInv'
  BY <1>1, <1>2 DEF CodeInv
<1>5. PlaceInv'
  BY <1>0, <1>1, <1>2 DEF PlaceInv, FlagInv, Publishing
<1>6. FlagInv'
  BY <1>0, <1>1, <1>2 DEF FlagInv, PlaceInv, Publishing, MasterModes
<1>7. ListenInv'
  BY <1>1, <1>2 DEF ListenInv, PlaceInv, Publishing, SetupSteps
<1>8. SlaveInv'
  BY <1>1, <1>2 DEF SlaveInv
<1> QED
  BY <1>3, <1>4, <1>5, <1>6, <1>7, <1>8

LEMMA ReturnInv ==
    ASSUME CtlInv, Return, UNCHANGED window
    PROVE  CtlInv'
<1> USE DEF CtlInv
<1>1. /\ pc = "ret" /\ pc' = "idle" /\ op' = NoOp /\ mx' = Xfer(0, 0) /\ wire' = NoWire
      /\ UNCHANGED <<con, stat, dat, mode, bus, own, mXfer, sXfer, sx, known, flags,
                     sid, polling, window>>
  BY DEF Return, Step, hwvars, allbutcon, xfervars, slavevars
<1>2. ~Interrupt /\ ~Interrupt'
  BY <1>1, Undisturbed DEF Return, Step, Interrupt, PlaceInv
<1>0. /\ mx' \in MasterXfers
      /\ Busy' /\ wire' \in Wires
  <2>1. 0 \in Nat /\ Shape
    OBVIOUS
  <2>2. NoWire \in Wires
    BY <2>1, WireTyped
  <2>3. mx' = Xfer(0, 0) /\ wire' = NoWire
    BY <1>1
  <2> QED
    BY <2>1, <2>2, <2>3, XferTyped DEF Busy
<1>3. Shape'
  BY <1>0, <1>1, <1>2, SMTT(60) DEF Shape, TransferSteps, SetupSteps
<1>4. CodeInv'
  BY <1>1, <1>2 DEF CodeInv
<1>5. PlaceInv'
  BY <1>0, <1>1, <1>2 DEF PlaceInv, FlagInv, Publishing
<1>6. FlagInv'
  BY <1>0, <1>1, <1>2 DEF FlagInv, PlaceInv, Publishing, MasterModes
<1>7. ListenInv'
  BY <1>1, <1>2 DEF ListenInv, PlaceInv, Publishing, SetupSteps
<1>8. SlaveInv'
  BY <1>1, <1>2 DEF SlaveInv
<1> QED
  BY <1>3, <1>4, <1>5, <1>6, <1>7, <1>8

LEMMA SetupInv ==
    ASSUME CtlInv, (\E s \in Slaves : Setup(s)), UNCHANGED window
    PROVE  CtlInv'
<1> USE DEF CtlInv
<1>1. /\ pc = "idle" /\ pc' \in {"decide", "address"} /\ ~polling
      /\ known' = known \cup {sid'} /\ sid' \in Slaves
      /\ UNCHANGED <<con, stat, dat, mode, bus, own, wire, op, mx, mXfer, sXfer, sx,
                     flags, polling, window>>
  BY DEF Setup, Step, hwvars, allbutcon, xfervars, slavevars
<1>2. ~Interrupt /\ ~Interrupt'
  BY <1>1, Undisturbed DEF Setup, Step, Interrupt, PlaceInv
<1>3. Shape'
  <2>1. /\ own \subseteq known' /\ flags \subseteq known' /\ known' \subseteq Slaves
        /\ sid' \in Slaves \cup {NoXfer} /\ pc' \in SetupSteps
    BY <1>1 DEF Shape, SetupSteps
  <2> QED
    BY <1>1, <2>1, SMTT(30) DEF Shape
<1>4. CodeInv'
  BY <1>1, <1>2 DEF CodeInv
<1>5. PlaceInv'
  BY <1>1, <1>2 DEF PlaceInv, Publishing, Busy
<1>6. FlagInv'
  BY <1>1, <1>2 DEF FlagInv, PlaceInv, Publishing, Busy, MasterModes
<1>7. ListenInv'
  BY <1>1, <1>2 DEF ListenInv, PlaceInv, Publishing, SetupSteps
<1>8. SlaveInv'
  BY <1>1, <1>2 DEF SlaveInv
<1> QED
  BY <1>3, <1>4, <1>5, <1>6, <1>7, <1>8

LEMMA SetupAddressInv ==
    ASSUME CtlInv, SetupAddress, UNCHANGED window
    PROVE  CtlInv'
<1> USE DEF CtlInv
<1>1. /\ pc = "address" /\ pc' = "decide" /\ own' \subseteq own \cup {sid} \cup known
      /\ UNCHANGED <<con, stat, dat, mode, bus, wire, op, mx, mXfer, sXfer, sx,
                     known, flags, sid, polling, window>>
  BY DEF SetupAddress, Step, hwvars, allbutcon, xfervars, slavevars
<1>2. ~Interrupt /\ ~Interrupt'
  BY <1>1, Undisturbed DEF SetupAddress, Step, Interrupt, PlaceInv
<1>3. Shape'
  BY <1>1 DEF Shape, ListenInv, SetupSteps
<1>4. CodeInv'
  BY <1>1, <1>2 DEF CodeInv
<1>5. PlaceInv'
  BY <1>1, <1>2 DEF PlaceInv, Publishing, Busy
<1>6. FlagInv'
  BY <1>1, <1>2 DEF FlagInv, PlaceInv, Publishing, Busy, MasterModes
<1>7. ListenInv'
  BY <1>1, <1>2 DEF ListenInv, PlaceInv, Publishing, SetupSteps
<1>8. SlaveInv'
  BY <1>1, <1>2 DEF SlaveInv
<1> QED
  BY <1>3, <1>4, <1>5, <1>6, <1>7, <1>8

LEMMA SetupDecideInv ==
    ASSUME CtlInv, SetupDecide, UNCHANGED window
    PROVE  CtlInv'
<1> USE DEF CtlInv
<1>1. /\ pc = "decide" /\ pc' \in {"calm", "flag"} /\ (pc' = "calm" <=> flags = {} /\ ~mXfer)
      /\ UNCHANGED <<con, stat, dat, mode, bus, own, wire, op, mx, mXfer, sXfer, sx,
                     known, flags, sid, polling, window>>
  BY DEF SetupDecide, Step, hwvars, allbutcon, xfervars, slavevars
<1>2. ~Interrupt /\ ~Interrupt'
  BY <1>1, Undisturbed DEF SetupDecide, Step, Interrupt, PlaceInv
<1>3. Shape'
  BY <1>1, <1>2 DEF Shape, TransferSteps, SetupSteps
<1>4. CodeInv'
  BY <1>1, <1>2 DEF CodeInv
<1>5. PlaceInv'
  BY <1>1, <1>2 DEF PlaceInv, Publishing, Busy
<1>6. FlagInv'
  BY <1>1, <1>2 DEF FlagInv, PlaceInv, Publishing, Busy, MasterModes
<1>7. ListenInv'
  BY <1>1, <1>2 DEF ListenInv, PlaceInv, Publishing, SetupSteps
<1>8. SlaveInv'
  BY <1>1, <1>2 DEF SlaveInv
<1> QED
  BY <1>3, <1>4, <1>5, <1>6, <1>7, <1>8

LEMMA SetupFlagInv ==
    ASSUME CtlInv, SetupFlag, UNCHANGED window
    PROVE  CtlInv'
<1> USE DEF CtlInv
<1>1. /\ pc = "flag" /\ pc' = "idle" /\ flags' = flags \cup {sid} /\ sid' = NoXfer
      /\ UNCHANGED <<con, stat, dat, mode, bus, own, wire, op, mx, mXfer, sXfer, sx,
                     known, polling, window>>
  BY DEF SetupFlag, Step, hwvars, allbutcon, xfervars, slavevars
<1>2. ~Interrupt /\ ~Interrupt'
  BY <1>1, Undisturbed DEF SetupFlag, Step, Interrupt, PlaceInv
<1>3. Shape'
  BY <1>1, <1>2, SMTT(30) DEF Shape, ListenInv, SetupSteps
<1>4. CodeInv'
  BY <1>1, <1>2 DEF CodeInv
<1>5. PlaceInv'
  BY <1>1, <1>2 DEF PlaceInv, Publishing, Busy
<1>6. FlagInv'
  BY <1>1, <1>2 DEF FlagInv, PlaceInv, Publishing, Busy, MasterModes
<1>7. ListenInv'
  BY <1>1, <1>2 DEF ListenInv, PlaceInv, Publishing, SetupSteps
<1>8. SlaveInv'
  BY <1>1, <1>2 DEF SlaveInv
<1> QED
  BY <1>3, <1>4, <1>5, <1>6, <1>7, <1>8

LEMMA TaskInv == ASSUME CtlInv, Task PROVE CtlInv'
<1>1. CASE Call \/ Retry
  BY <1>1, CallInv, RetryInv
<1>2. CASE (Proceed \/ SetMode \/ \E s \in Slaves : Setup(s)) /\ UNCHANGED window
  BY <1>2, SetModeInv, CheckSlaveInv, ArmMasterInv, StartMasterInv, WaitDoneInv,
     WaitStopInv, QuietMasterInv, ListenSlavesInv, ReturnInv, SetupInv,
     SetupAddressInv, SetupDecideInv, SetupFlagInv DEF Proceed
<1> QED
  BY <1>1, <1>2 DEF Task

(***************************************************************************)
(* The handler, in a master state.                                         *)
(***************************************************************************)
LEMMA ControlSet ==
    ASSUME Shape, NEW keep \in SUBSET {"AA", "STA", "STO"}, SetControl(keep)
    PROVE  /\ con' \subseteq Flags /\ "SI" \notin con' /\ stat' = NoInfo
           /\ "AA" \in con' <=> "AA" \in keep
           /\ "STA" \in con' <=> "STA" \in keep
           /\ "STO" \in con' <=> "STO" \in con \/ "STO" \in keep
  BY DEF Shape, Flags, SetControl

LEMMA Promises ==
    ASSUME NEW n \in Int
    PROVE  MoreToCome(n) \in SUBSET {"AA", "STA", "STO"}
           /\ ("AA" \in MoreToCome(n) <=> n > 1)
           /\ "STA" \notin MoreToCome(n) /\ "STO" \notin MoreToCome(n)
  BY DEF MoreToCome

(* The transfer goes on, or it ends: then STOP is asked for, unless the    *)
(* bus is lost already.                                                    *)
LEMMA MasterHandled ==
    ASSUME CtlInv, Interrupt, stat \in MasterCodes,
           UNCHANGED <<mode, bus, own, wire, pc, op, mXfer, slavevars, polling, window>>,
           NEW keep \in SUBSET {"AA", "STA", "STO"}, SetControl(keep),
           dat' \in Words,
           mx' \in MasterXfers,
           \/ /\ mx'.status = "BUSY" /\ mode \in {"start", "tx", "rx"} /\ "STO" \notin keep
              /\ mode = "start" => "STA" \notin keep
              /\ mode = "rx" => "STA" \notin keep /\ ("AA" \in keep <=> mx'.rxSz > 1)
           \/ /\ mx'.status # "BUSY" /\ "STA" \notin keep /\ "AA" \notin keep
              /\ \/ mode \in {"tx", "rx", "over"} /\ "STO" \in keep
                 \/ mode = "idle" /\ "STO" \notin keep
    PROVE  CtlInv'
<1> USE DEF CtlInv
<1>1. UNCHANGED <<mode, bus, own, wire, pc, op, mXfer, sXfer, sx, known, flags, sid,
                  polling, window>>
  BY DEF slavevars
<1>2. MasterCode /\ "STO" \notin con
  BY DEF CodeInv, FlagInv, MasterCode
<1>3. mXfer /\ Busy /\ pc = "wait" /\ sXfer = NoXfer
  BY <1>2 DEF MasterCode
<1>4. /\ con' \subseteq Flags /\ ~Interrupt' /\ stat' = NoInfo
      /\ "AA" \in con' <=> "AA" \in keep
      /\ "STA" \in con' <=> "STA" \in keep
      /\ "STO" \in con' <=> "STO" \in keep
  BY <1>2, ControlSet DEF Interrupt
<1>5. Busy' <=> mx'.status = "BUSY"
  BY DEF Busy
<1>6. Shape'
  BY <1>1, <1>4 DEF Shape
<1>7. CodeInv'
  BY <1>1, <1>3, <1>4 DEF CodeInv, SlaveModes
<1>8. PlaceInv'
  BY <1>1, <1>3, <1>4, <1>5 DEF PlaceInv, Publishing
<1>9. FlagInv'
  BY <1>1, <1>3, <1>4, <1>5 DEF FlagInv
<1>10. ListenInv'
  BY <1>1, <1>3, <1>4 DEF ListenInv, Publishing, SetupSteps
<1>11. SlaveInv'
  BY <1>1, <1>3, <1>4, NoXferApart DEF SlaveInv
<1> QED
  BY <1>6, <1>7, <1>8, <1>9, <1>10, <1>11

(* In polling mode no slave is set up, so the code is one of the master.   *)
LEMMA MasterCalled ==
    ASSUME CtlInv, Interrupt, IF polling THEN pc = "wait" /\ Busy ELSE IsMasterActive
    PROVE  stat \in MasterCodes /\ MasterCode
<1>1. polling => flags = {} /\ pc # "flag"
  BY DEF CtlInv, PlaceInv, ListenInv, Shape, SetupSteps
<1>2. ~polling => stat \notin SlaveCodes /\ stat # NoInfo
  BY DEF IsMasterActive, SlaveCodes, AddressedCodes, NoInfo
<1> QED
  BY <1>1, <1>2 DEF CtlInv, Shape, CodeInv, SlaveCode

LEMMA StoreTyped ==
    ASSUME NEW x \in MasterXfers,
           dat.of \in Nat
    PROVE  /\ StoreByte(x) \in MasterXfers
           /\ StoreByte(x).rxSz = x.rxSz - 1 /\ StoreByte(x).stored = Append(x.stored, dat.of)
           /\ StoreByte(x).txSz = x.txSz /\ StoreByte(x).next = x.next
           /\ StoreByte(x).status = x.status
<1>1. Append(x.stored, dat.of) \in Seq(Nat) /\ x.rxSz - 1 \in Int
  OBVIOUS
<1> QED
  BY <1>1 DEF StoreByte

LEMMA SentTyped ==
    ASSUME NEW x \in MasterXfers,
           x.txSz # 0
    PROVE  LET y == [x EXCEPT !.next = @ + 1, !.txSz = @ - 1]
           IN  /\ y \in MasterXfers
               /\ y.next = x.next + 1 /\ y.txSz = x.txSz - 1
               /\ y.rxSz = x.rxSz /\ y.stored = x.stored /\ y.status = x.status
<1>1. x.next + 1 \in Nat /\ x.txSz - 1 \in Nat
  OBVIOUS
<1> QED
  BY <1>1

LEMMA MasterStateInv ==
    ASSUME CtlInv, MasterStateHandler, UNCHANGED window
    PROVE  CtlInv'
<1>1. stat \in MasterCodes /\ MasterCode /\ Interrupt
  BY MasterCalled DEF MasterStateHandler, Busy
<1>2. UNCHANGED <<mode, bus, own, wire, pc, op, mXfer, slavevars, polling, window>>
  BY DEF MasterStateHandler
<1>3. /\ dat \in Words /\ mx \in MasterXfers /\ mx.status = "BUSY" /\ dat.of \in Nat
      /\ \A n \in Nat : Byte(n) \in Words
  BY <1>1, WireTyped DEF CtlInv, Shape, MasterCode, Busy, Byte
<1>4. /\ StoreByte(mx) \in MasterXfers /\ StoreByte(mx).rxSz = mx.rxSz - 1
      /\ StoreByte(mx).status = "BUSY"
  BY <1>3, StoreTyped
<1>5. ASSUME NEW x \in MasterXfers, NEW s \in Status
      PROVE  Stopped(x, s) \in MasterXfers /\ Stopped(x, s).status = s
  BY DEF Stopped
<1>6. \A s \in {"DONE", "NAK", "ARBLOST", "BUSERR", "SLAVENAK"} : s \in Status /\ s # "BUSY"
  BY DEF Status
<1> DEFINE Handled(keep) ==
             /\ keep \in SUBSET {"AA", "STA", "STO"} /\ SetControl(keep)
             /\ dat' \in Words /\ mx' \in MasterXfers
             /\ \/ /\ mx'.status = "BUSY" /\ mode \in {"start", "tx", "rx"} /\ "STO" \notin keep
                   /\ mode = "start" => "STA" \notin keep
                   /\ mode = "rx" => "STA" \notin keep /\ ("AA" \in keep <=> mx'.rxSz > 1)
                \/ /\ mx'.status # "BUSY" /\ "STA" \notin keep /\ "AA" \notin keep
                   /\ \/ mode \in {"tx", "rx", "over"} /\ "STO" \in keep
                      \/ mode = "idle" /\ "STO" \notin keep
<1>7. ASSUME NEW keep, Handled(keep) PROVE CtlInv'
  BY <1>1, <1>2, <1>7, MasterHandled
<1> HIDE DEF MasterXfers
<1>8. CASE SendAddress
  <2>1. dat' \in Words /\ mx' = mx /\ mode = "start" /\ SetControl({})
    BY <1>1, <1>8 DEF SendAddress, MasterCode, Read, Write
  <2>2. Handled({})
    BY <1>3, <2>1
  <2> QED
    BY <1>7, <2>2
<1>9. CASE SendNext
  <2>1. mode = "tx" /\ SetControl({}) /\ dat' = Byte(mx.next) /\ mx.txSz # 0
    BY <1>1, <1>9 DEF SendNext, MasterCode
  <2>2. mx' \in MasterXfers /\ mx'.status = "BUSY" /\ dat' \in Words
    <3>1. mx' = [mx EXCEPT !.next = @ + 1, !.txSz = @ - 1]
      BY <1>9 DEF SendNext
    <3> QED
      BY <1>3, <2>1, <3>1, SentTyped DEF MasterXfers
  <2>3. Handled({})
    BY <2>1, <2>2
  <2> QED
    BY <1>7, <2>3
<1>10. CASE SendOver
  <2>1. mode = "tx" /\ dat' = dat
    BY <1>1, <1>10 DEF SendOver, MasterCode
  <2>2. CASE SetControl({"STA"}) /\ UNCHANGED mx
    <3>1. Handled({"STA"})
      BY <1>3, <2>1, <2>2
    <3> QED
      BY <1>7, <3>1
  <2>3. CASE SetControl({"STO"}) /\ mx' = Stopped(mx, "DONE")
    <3>1. Handled({"STO"})
      BY <1>3, <1>5, <1>6, <2>1, <2>3
    <3> QED
      BY <1>7, <3>1
  <2> QED
    BY <1>10, <2>2, <2>3 DEF SendOver
<1>11. CASE ReadGranted
  <2>1. mode = "rx" /\ UNCHANGED <<dat, mx>> /\ SetControl(MoreToCome(mx.rxSz))
    BY <1>1, <1>11 DEF ReadGranted, MasterCode
  <2>2. mx.rxSz \in Int
    BY <1>3 DEF MasterXfers
  <2>3. Handled(MoreToCome(mx.rxSz))
    BY <1>3, <2>1, <2>2, Promises
  <2> QED
    BY <1>7, <2>3
<1>12. CASE StoreNext
  <2>1. mode = "rx" /\ dat' = dat /\ mx' = StoreByte(mx) /\ SetControl(MoreToCome(mx.rxSz - 1))
    BY <1>1, <1>12 DEF StoreNext, MasterCode
  <2>2. mx.rxSz - 1 \in Int
    BY <1>3 DEF MasterXfers
  <2>3. Handled(MoreToCome(mx.rxSz - 1))
    BY <1>3, <1>4, <2>1, <2>2, Promises
  <2> QED
    BY <1>7, <2>3
<1>13. CASE StoreLast
  <2>1. /\ mode = "over" /\ dat' = dat /\ mx' = Stopped(StoreByte(mx), "DONE")
        /\ SetControl({"STO"} \cup MoreToCome(mx.rxSz - 1)) /\ mx.rxSz <= 1
    BY <1>1, <1>13 DEF StoreLast, MasterCode
  <2>2. mx.rxSz \in Int
    BY <1>3 DEF MasterXfers
  <2>3. MoreToCome(mx.rxSz - 1) = {}
    BY <2>1, <2>2 DEF MoreToCome
  <2>4. Handled({"STO"})
    BY <1>3, <1>4, <1>5, <1>6, <2>1, <2>3, ZenonT(30)
  <2> QED
    BY <1>7, <2>4
<1>14. CASE Refused
  <2>1. mode = "over" /\ dat' = dat /\ SetControl({"STO"})
    BY <1>1, <1>14 DEF Refused, MasterCode
  <2>2. PICK s \in {"NAK", "BUSERR", "SLAVENAK"} : mx' = Stopped(mx, s)
    BY <1>14 DEF Refused
  <2>3. mx' \in MasterXfers /\ mx'.status # "BUSY"
    BY <1>3, <1>5, <1>6, <2>2
  <2>4. Handled({"STO"})
    BY <1>3, <2>1, <2>3
  <2> QED
    BY <1>7, <2>4
<1>15. CASE ArbitrationLost
  <2>1. mode = "idle" /\ dat' = dat /\ SetControl({}) /\ mx' = Stopped(mx, "ARBLOST")
    BY <1>1, <1>15 DEF ArbitrationLost, MasterCode
  <2>2. Handled({})
    BY <1>3, <1>5, <1>6, <2>1
  <2> QED
    BY <1>7, <2>2
<1> QED
  BY <1>8, <1>9, <1>10, <1>11, <1>12, <1>13, <1>14, <1>15 DEF MasterStateHandler

(***************************************************************************)
(* The handler, in a slave state.                                          *)
(***************************************************************************)
LEMMA SlaveCalled ==
    ASSUME CtlInv, Interrupt, ~IsMasterActive
    PROVE  /\ SlaveCode /\ (Serving \in known => Serving \in Slaves)
           /\ sXfer # NoXfer => Serving = sXfer
<1>1. stat \notin MasterCodes
  BY DEF IsMasterActive, MasterCodes
<1> QED
  BY <1>1 DEF CtlInv, CodeInv, Serving, Shape

(* What the handler of a slave state leaves: a slave that is served in a   *)
(* slave mode, or none, AA and a START for the master that waits.          *)
LEMMA SlaveHandled ==
    ASSUME CtlInv, Interrupt, ~IsMasterActive, NEW s \in known,
           UNCHANGED <<mode, bus, own, wire, pc, xfervars, known, flags, sid, polling, window>>,
           NEW keep \in SUBSET {"AA", "STA", "STO"}, SetControl(keep), "STO" \notin keep,
           dat' \in Words,
           NEW x \in SlaveXfers,
           sx' = [sx EXCEPT ![s] = x],
           \A t \in Slaves \ {s} : sx[t].txSz # 0,
           \/ mode \in {"slaverx", "generalrx"} /\ ("AA" \in keep => x.rxSz > 1) /\ x.txSz # 0
           \/ mode = "slavetx" /\ ("AA" \in keep => x.txSz # 0)
           \/ mode = "idle" /\ "AA" \in keep /\ x.txSz # 0,
           IF mode = "idle" THEN sXfer' = NoXfer ELSE sXfer' = s /\ "STA" \notin keep,
           x.waiting => mXfer, "STA" \in keep => mXfer
    PROVE  CtlInv'
<1> USE DEF CtlInv
<1>1. UNCHANGED <<mode, bus, own, wire, pc, op, mx, mXfer, known, flags, sid, polling, window>>
  BY DEF xfervars
<1>2. SlaveCode /\ (flags # {} \/ pc = "flag") /\ s \in Slaves
  BY SlaveCalled DEF SlaveCode, Shape
<1>3. ~(pc \in {"stop", "quiet", "listen"} \/ (pc = "wait" /\ ~Busy))
  BY DEF PlaceInv
<1>4. "STO" \notin con /\ (mXfer => Busy)
  BY <1>3 DEF FlagInv, PlaceInv
<1>5. /\ con' \subseteq Flags /\ ~Interrupt' /\ stat' = NoInfo
      /\ "AA" \in con' <=> "AA" \in keep
      /\ "STA" \in con' <=> "STA" \in keep
      /\ "STO" \notin con'
  BY <1>4, ControlSet DEF Interrupt
<1>6. /\ mode \in SlaveModes \/ mode = "idle"
      /\ mode \notin MasterModes
      /\ sXfer' \in known \cup {NoXfer} /\ (sXfer' # NoXfer <=> mode \in SlaveModes)
  BY <1>2, NoXferApart DEF SlaveModes, MasterModes, Shape
<1>7. /\ sx' \in [Slaves -> SlaveXfers]
      /\ sx'[s] = x /\ \A t \in Slaves \ {s} : sx'[t] = sx[t]
  BY <1>2 DEF Shape
<1>8. Shape'
  <2>1. sXfer' \in Slaves \cup {NoXfer} /\ stat' = NoInfo /\ con' \subseteq Flags
    BY <1>5, <1>6 DEF Shape
  <2> QED
    BY <1>1, <1>7, <2>1, SMTT(30) DEF Shape
<1>9. CodeInv'
  BY <1>1, <1>5, <1>6 DEF CodeInv
<1>10. PlaceInv'
  BY <1>1, <1>3, <1>4, <1>5 DEF PlaceInv, Busy, Publishing
<1>11. FlagInv'
  BY <1>1, <1>4, <1>5, <1>6 DEF FlagInv, Busy, MasterModes
<1>12. ListenInv'
  BY <1>1, <1>2, <1>5, <1>6 DEF ListenInv, Publishing, SetupSteps, SlaveModes
<1>13. SlaveInv'
  <2>1. CASE mode = "idle"
    BY <1>1, <1>7, <2>1 DEF SlaveInv
  <2>2. CASE mode \in {"slaverx", "generalrx"}
    BY <1>1, <1>5, <1>7, <2>2 DEF SlaveInv
  <2>3. CASE mode = "slavetx"
    BY <1>1, <1>5, <1>7, <2>3 DEF SlaveInv
  <2> QED
    BY <1>6, <2>1, <2>2, <2>3 DEF SlaveModes
<1> QED
  BY <1>8, <1>9, <1>10, <1>11, <1>12, <1>13

LEMMA SlaveXferTyped ==
    ASSUME NEW x \in SlaveXfers,
           NEW r \in 1 .. SlaveRx, NEW t \in 0 .. SlaveTx, NEW b \in BOOLEAN
    PROVE  /\ LET y == [x EXCEPT !.rxSz = r, !.waiting = b]
              IN  /\ y \in SlaveXfers
                  /\ y.rxSz = r /\ y.txSz = x.txSz /\ y.waiting = b
           /\ LET y == [x EXCEPT !.txSz = t, !.waiting = b]
              IN  /\ y \in SlaveXfers
                  /\ y.rxSz = x.rxSz /\ y.txSz = t /\ y.waiting = b
           /\ LET y == [x EXCEPT !.rxSz = r, !.txSz = t]
              IN  /\ y \in SlaveXfers
                  /\ y.rxSz = r /\ y.txSz = t /\ y.waiting = x.waiting
  OBVIOUS

LEMMA SlaveStateInv ==
    ASSUME CtlInv, SlaveStateHandler, UNCHANGED window
    PROVE  CtlInv'
<1> DEFINE s == Serving
<1>1. /\ Interrupt /\ ~IsMasterActive /\ s \in known /\ s \in Slaves
      /\ SlaveCode /\ (sXfer # NoXfer => s = sXfer)
  BY SlaveCalled DEF SlaveStateHandler
<1>2. UNCHANGED <<mode, bus, own, wire, pc, xfervars, known, flags, sid, polling, window>>
  BY DEF SlaveStateHandler
<1>3. /\ sx \in [Slaves -> SlaveXfers] /\ sx[s] \in SlaveXfers /\ dat \in Words /\ Byte(0) \in Words
      /\ mXfer \in BOOLEAN /\ SlaveRx \in Nat \ {0} /\ SlaveTx \in Nat \ {0}
      /\ sx[s].rxSz \in Int /\ sx[s].txSz \in Int /\ sx[s].waiting \in BOOLEAN
      /\ known \subseteq Slaves /\ NoXfer \notin Slaves
  <2>1. Shape /\ sx \in [Slaves -> SlaveXfers] /\ mXfer \in BOOLEAN /\ known \subseteq Slaves /\ dat \in Words
    BY DEF CtlInv, Shape
  <2>2. sx[s] \in SlaveXfers /\ Byte(0) \in Words
    BY <1>1, <2>1, WireTyped
  <2> QED
    BY <2>1, <2>2, LengthsAssumption, NoXferApart
<1>4. sXfer # NoXfer => (sx[s].waiting => mXfer)
  BY <1>1 DEF CtlInv, SlaveInv
<1> DEFINE Handled(keep, x) ==
             /\ keep \in SUBSET {"AA", "STA", "STO"} /\ SetControl(keep) /\ "STO" \notin keep
             /\ dat' \in Words /\ x \in SlaveXfers /\ sx' = [sx EXCEPT ![s] = x]
             /\ \A t \in Slaves \ {s} : sx[t].txSz # 0
             /\ \/ mode \in {"slaverx", "generalrx"} /\ ("AA" \in keep => x.rxSz > 1) /\ x.txSz # 0
                \/ mode = "slavetx" /\ ("AA" \in keep => x.txSz # 0)
                \/ mode = "idle" /\ "AA" \in keep /\ x.txSz # 0
             /\ IF mode = "idle" THEN sXfer' = NoXfer ELSE sXfer' = s /\ "STA" \notin keep
             /\ x.waiting => mXfer
             /\ "STA" \in keep => mXfer
<1>5. ASSUME NEW keep, NEW x, Handled(keep, x) PROVE CtlInv'
  BY <1>1, <1>2, <1>5, SlaveHandled
<1>6. \A t \in Slaves \ {s} : sx[t].txSz # 0
  BY <1>1, <1>3 DEF CtlInv, SlaveInv
<1>7. CASE SlaveStored(s)
  <2> DEFINE y == [sx[s] EXCEPT !.rxSz = @ - 1, !.waiting = Waiting(s)]
             keep == MoreToCome(sx[s].rxSz - 1)
  <2>1. /\ stat \in {\h80, \h90} /\ mode \in {"slaverx", "generalrx"} /\ "AA" \in con
        /\ sXfer # NoXfer /\ s = sXfer
    BY <1>1, <1>3, <1>7 DEF SlaveStored, SlaveCode
  <2>2. sx[s].rxSz > 1 /\ sx[s].txSz # 0
    BY <1>1, <2>1 DEF CtlInv, SlaveInv
  <2>3. PICK x \in AtByte(y) : sx' = [sx EXCEPT ![s] = x]
    BY <1>7 DEF SlaveStored
  <2>4. /\ x \in SlaveXfers /\ (x.waiting => mXfer) /\ x.txSz # 0
        /\ x.rxSz \in {sx[s].rxSz - 1, SlaveRx}
    <3>1. Waiting(s) \in BOOLEAN /\ (Waiting(s) => mXfer)
      BY <1>3, <1>4, <2>1 DEF Waiting
    <3>2. y \in SlaveXfers /\ y.waiting = Waiting(s) /\ y.txSz = sx[s].txSz /\ y.rxSz = sx[s].rxSz - 1
      <4>1. sx[s].rxSz - 1 \in 1 .. SlaveRx
        BY <1>3, <2>2
      <4> QED
        BY <1>3, <3>1, <4>1, SlaveXferTyped
    <3> HIDE DEF y
    <3> QED
      BY <1>3, <2>2, <2>3, <3>1, <3>2 DEF AtByte
  <2>5. "AA" \in keep => x.rxSz > 1
    BY <1>3, <2>4, Promises
  <2>6. /\ keep \in SUBSET {"AA", "STA", "STO"} /\ "STA" \notin keep /\ "STO" \notin keep
        /\ SetControl(keep) /\ dat' = dat /\ sXfer' = s
    BY <1>3, <1>7, Promises DEF SlaveStored
  <2>7. Handled(keep, x)
    BY <1>3, <1>6, <2>1, <2>3, <2>4, <2>5, <2>6
  <2> QED
    BY <1>5, <2>7
<1>8. CASE SlaveSelected(s)
  <2> DEFINE x == [sx[s] EXCEPT !.waiting = FALSE]
             keep == MoreToCome(sx[s].rxSz)
  <2>1. stat \in {\h60, \h70} /\ mode \in {"slaverx", "generalrx"} /\ sXfer = NoXfer
    BY <1>1, <1>8 DEF SlaveSelected, SlaveCode
  <2>2. x \in SlaveXfers /\ ~x.waiting /\ x.rxSz = sx[s].rxSz /\ x.txSz = sx[s].txSz
    BY <1>3
  <2>3. x.txSz # 0
    BY <1>1, <2>1, <2>2, NoXferApart DEF CtlInv, SlaveInv
  <2>4. sx' = [sx EXCEPT ![s] = x]
    BY <1>8 DEF SlaveSelected
  <2>5. /\ keep \in SUBSET {"AA", "STA", "STO"} /\ "STA" \notin keep /\ "STO" \notin keep
        /\ SetControl(keep) /\ dat' = dat /\ sXfer' = s /\ ("AA" \in keep => x.rxSz > 1)
    BY <1>3, <1>8, <2>2, Promises DEF SlaveSelected
  <2>6. Handled(keep, x)
    BY <1>3, <1>6, <2>1, <2>2, <2>3, <2>4, <2>5
  <2> QED
    BY <1>5, <2>6
<1>9. CASE SlaveSends(s)
  <2> DEFINE bit == stat # \hA8 /\ Waiting(s)
             y == [sx[s] EXCEPT !.txSz = @ - 1, !.waiting = bit]
             keep == IF sx[s].txSz - 1 > 0 THEN {"AA"} ELSE {}
  <2>1. /\ stat \in {\hA8, \hB8} /\ mode = "slavetx"
        /\ \/ stat = \hA8 /\ sXfer = NoXfer
           \/ stat = \hB8 /\ sXfer # NoXfer /\ "AA" \in con
    BY <1>1, <1>3, <1>9 DEF SlaveSends, SlaveCode
  <2>2. sx[s].txSz # 0
    BY <1>1, <2>1, NoXferApart DEF CtlInv, SlaveInv
  <2>3. PICK x \in AtByte(y) : sx' = [sx EXCEPT ![s] = x]
    BY <1>9 DEF SlaveSends
  <2>4. /\ x \in SlaveXfers /\ (x.waiting => mXfer) /\ x.txSz \in {sx[s].txSz - 1, SlaveTx}
    <3>1. bit \in BOOLEAN /\ (bit => mXfer)
      BY <1>3, <1>4, <2>1 DEF Waiting
    <3> HIDE DEF bit
    <3>2. y \in SlaveXfers /\ y.waiting = bit /\ y.txSz = sx[s].txSz - 1
      <4>1. sx[s].txSz - 1 \in 0 .. SlaveTx
        BY <1>3, <2>2
      <4> QED
        BY <1>3, <3>1, <4>1, SlaveXferTyped
    <3> HIDE DEF y
    <3> QED
      BY <1>3, <2>2, <2>3, <3>1, <3>2 DEF AtByte
  <2>5. "AA" \in keep => x.txSz # 0
    BY <1>3, <2>4
  <2>6. SetControl(keep) /\ dat' = Byte(0) /\ sXfer' = s
    BY <1>9 DEF SlaveSends
  <2>7. Handled(keep, x)
    BY <1>3, <1>6, <2>1, <2>3, <2>4, <2>5, <2>6
  <2> QED
    BY <1>5, <2>7
<1>10. CASE SlaveOver(s)
  <2> DEFINE y == [sx[s] EXCEPT !.waiting = Waiting(s)]
             x == AtEnd(y)
             keep == {"AA"} \cup (IF Waiting(s) THEN {"STA"} ELSE {})
  <2>1. mode = "idle" /\ sXfer # NoXfer
    BY <1>1, <1>3, <1>10 DEF SlaveOver, SlaveCode
  <2>2. Waiting(s) \in BOOLEAN /\ (Waiting(s) => mXfer)
    BY <1>3, <1>4, <2>1 DEF Waiting
  <2>3. y \in SlaveXfers /\ y.waiting = Waiting(s)
    BY <1>3, <2>2
  <2>4. x \in SlaveXfers /\ x.waiting = Waiting(s) /\ x.txSz = SlaveTx
    <3> HIDE DEF y
    <3>1. SlaveRx \in 1 .. SlaveRx /\ SlaveTx \in 0 .. SlaveTx /\ FALSE \in BOOLEAN
      BY <1>3
    <3>2. /\ AtEnd(y) \in SlaveXfers /\ AtEnd(y).txSz = SlaveTx /\ AtEnd(y).waiting = y.waiting
      BY <2>3, <3>1, SlaveXferTyped DEF AtEnd
    <3> QED
      BY <2>3, <3>2
  <2>5. sx' = [sx EXCEPT ![s] = x] /\ SetControl(keep) /\ dat' = dat /\ sXfer' = NoXfer
    BY <1>3, <1>10 DEF SlaveOver
  <2>6. Handled(keep, x)
    BY <1>3, <1>6, <2>1, <2>2, <2>4, <2>5
  <2> QED
    BY <1>5, <2>6
<1> QED
  BY <1>7, <1>8, <1>9, <1>10 DEF SlaveStateHandler

(***************************************************************************)
(* The invariant of the control part, and what it gives.                   *)
(***************************************************************************)
LEMMA CtlStart == Init => CtlInv
<1> SUFFICES ASSUME Init PROVE CtlInv
  OBVIOUS
<1> USE DEF Init, HwInit
<1>1. /\ pc = "idle" /\ con = {} /\ mode = "idle" /\ sXfer = NoXfer /\ mXfer = FALSE
      /\ known = {} /\ flags = {} /\ polling = FALSE /\ ~Interrupt
  BY DEF Interrupt
<1>2. /\ Rearmed \in SlaveXfers
      /\ Rearmed.txSz # 0 /\ \A s \in Slaves : sx[s] = Rearmed
  BY LengthsAssumption DEF Rearmed
<1>3. Shape
  <2>1. dat \in Words
    BY DEF Byte
  <2>2. wire \in Wires
    BY DEF NoWire
  <2>3. mx \in MasterXfers
    BY XferTyped
  <2>4. window \in 0 .. WindowCodes
    BY LengthsAssumption
  <2>5. sx \in [Slaves -> SlaveXfers]
    BY <1>2
  <2> QED
    BY <1>1, <2>1, <2>2, <2>3, <2>4, <2>5 DEF Shape, Modes
<1>4. CodeInv /\ PlaceInv /\ FlagInv /\ ListenInv
  BY <1>1 DEF CodeInv, PlaceInv, FlagInv, ListenInv, SlaveModes, MasterModes, Publishing, SetupSteps
<1>5. SlaveInv
  BY <1>1, <1>2 DEF SlaveInv
<1> QED
  BY <1>3, <1>4, <1>5 DEF CtlInv

LEMMA CtlStep == ASSUME OneCode, CtlInv, [Next]_vars PROVE CtlInv'
<1>1. CASE Next
  BY <1>1, TaskInv, BusInv, MasterStateInv, SlaveStateInv DEF Next, Handler
<1>2. CASE UNCHANGED vars
  <2>1. UNCHANGED <<con, stat, dat, mode, bus, own, wire, pc, op, mx, mXfer, sXfer, sx,
                    known, flags, sid, polling, window>>
    BY <1>2 DEF vars, hwvars, allbutcon, swvars, xfervars, slavevars
  <2> USE <2>1 DEF CtlInv, Interrupt, Busy
  <2>2. Shape'
    BY SMTT(30) DEF Shape
  <2>3. CodeInv'
    BY DEF CodeInv, MasterCode, SlaveCode
  <2>4. PlaceInv' /\ FlagInv'
    BY DEF PlaceInv, FlagInv
  <2>5. ListenInv' /\ SlaveInv'
    BY DEF ListenInv, SlaveInv
  <2> QED
    BY <2>2, <2>3, <2>4, <2>5
<1> QED
  BY <1>1, <1>2

(* The control part holds wherever arbitration is lost, as long as at most *)
(* one code comes in while a transfer is published.                        *)
THEOREM Control == OneCode => (Spec => []CtlInv)
<1>1. ASSUME OneCode PROVE Init /\ [][Next]_vars => []CtlInv
  <2>1. CtlInv /\ [Next]_vars => CtlInv'
    BY <1>1, CtlStep
  <2> QED
    BY CtlStart, <2>1, PTL
<1> QED
  BY <1>1 DEF Spec

(* A code of the master finds a master transfer that is still busy, a code *)
(* of a slave finds a slave that was set up: the pointers the handlers use *)
(* without a test are set.                                                 *)
THEOREM XferCorrect == OneCode => (Spec => []XferAtHand)
<1>1. CtlInv => XferAtHand
  <2> SUFFICES ASSUME CtlInv, Interrupt
               PROVE  IF IsMasterActive THEN mXfer /\ Busy ELSE Serving \in known
    BY DEF XferAtHand, Busy
  <2>1. CASE stat \in MasterCodes
    BY <2>1 DEF CtlInv, CodeInv, MasterCode, MasterCodes, IsMasterActive
  <2>2. CASE stat \notin MasterCodes
    <3>1. SlaveCode
      BY <2>2 DEF CtlInv, CodeInv
    <3>2. stat \in SlaveCodes /\ ~IsMasterActive
      BY <3>1 DEF SlaveCode, SlaveCodes, AddressedCodes, IsMasterActive
    <3>3. Serving \in known
      BY <3>1, NoXferApart DEF SlaveCode, Serving, AddressedCodes, CtlInv, Shape
    <3> QED
      BY <3>2, <3>3
  <2> QED
    BY <2>1, <2>2
<1> QED
  BY Control, <1>1, PTL

(* Between calls the controller holds neither the bus nor a request for    *)
(* it, and it answers its slave addresses once they are set up.            *)
THEOREM ReleaseCorrect == OneCode => (Spec => []BusReleased)
<1>1. CtlInv => BusReleased
  <2> SUFFICES ASSUME CtlInv PROVE BusReleased
    OBVIOUS
  <2>1. ASSUME pc \in {"idle", "ret"} \cup SetupSteps
        PROVE  mode \notin MasterModes /\ {"STA", "STO"} \cap con = {}
    BY <2>1 DEF CtlInv, FlagInv, PlaceInv, Publishing, SetupSteps
  <2>2. ASSUME flags # {}, pc = "idle", mode = "idle", ~Interrupt PROVE "AA" \in con
    BY <2>2 DEF CtlInv, ListenInv
  <2> QED
    BY <2>1, <2>2 DEF BusReleased
<1> QED
  BY Control, <1>1, PTL

(***************************************************************************)
(* What was sent and read.                                                 *)
(***************************************************************************)
LEMMA UptoFacts ==
    ASSUME NEW n \in Nat
    PROVE  /\ Upto(n) \in Seq(Nat) /\ Len(Upto(n)) = n
           /\ Upto(n) = <<>> <=> n = 0
           /\ Append(Upto(n), n + 1) = Upto(n + 1)
<1>1. Upto(n) \in Seq(Nat) /\ Len(Upto(n)) = n
  BY DEF Upto
<1>2. Upto(n) = <<>> <=> n = 0
  BY <1>1, EmptySeq
<1>3. Append(Upto(n), n + 1) = Upto(n + 1)
  BY DEF Upto
<1> QED
  BY <1>1, <1>2, <1>3

LEMMA CallsMoveBytes ==
    \A c \in Calls : c.tx \in Nat /\ c.rx \in Nat /\ (c.tx = 0 => c.rx >= 1)
  BY LengthsAssumption DEF Calls

(* The numbers of the invariant. *)
LEMMA Numbers ==
    ASSUME CtlInv
    PROVE  /\ mx.txSz \in Nat /\ mx.rxSz \in Int /\ mx.next \in Nat /\ mx.stored \in Seq(Nat)
           /\ mx.status \in Status
           /\ wire.tx \in Seq(Nat) /\ wire.rx \in Nat /\ wire.nak \in BOOLEAN /\ dat.of \in Nat
           /\ op \in Calls => /\ op.tx \in Nat /\ op.rx \in Nat /\ Handed \in Int
                              /\ mx.txSz <= op.tx => Handed \in Nat
<1>1. /\ mx \in MasterXfers
      /\ wire \in Wires /\ dat.of \in Nat
  BY WireTyped DEF CtlInv, Shape
<1>2. /\ mx.txSz \in Nat /\ mx.rxSz \in Int /\ mx.next \in Nat /\ mx.stored \in Seq(Nat)
      /\ mx.status \in Status
      /\ wire.tx \in Seq(Nat) /\ wire.rx \in Nat /\ wire.nak \in BOOLEAN
  BY <1>1
<1>3. op \in Calls => op.tx \in Nat /\ op.rx \in Nat
  BY CallsMoveBytes
<1> QED
  BY <1>1, <1>2, <1>3 DEF Handed

(* Steps that leave the transfer and the wire alone, with the controller   *)
(* off the bus or the transfer over.                                       *)
LEMMA DataKept ==
    ASSUME DataInv, UNCHANGED <<mx, op, wire>>,
           pc' \in TransferSteps => pc \in TransferSteps,
           ~Busy \/ (mode \notin MasterModes /\ mode' \notin MasterModes)
    PROVE  DataInv'
  BY DEF DataInv, Fresh, Reported, Handed, Busy

LEMMA WireFields ==
    ASSUME NEW w \in Wires, NEW t, NEW b
    PROVE  /\ [w EXCEPT !.tx = Append(@, t)].tx = Append(w.tx, t)
           /\ [w EXCEPT !.tx = Append(@, t)].rx = w.rx
           /\ [w EXCEPT !.nak = TRUE].tx = w.tx /\ [w EXCEPT !.nak = TRUE].rx = w.rx
           /\ [w EXCEPT !.rx = @ + 1, !.nak = b].tx = w.tx
           /\ [w EXCEPT !.rx = @ + 1, !.nak = b].rx = w.rx + 1
           /\ [w EXCEPT !.rx = @ + 1, !.nak = b].nak = b
  OBVIOUS

LEMMA MasterHwData ==
    ASSUME CtlInv, DataInv, OneCode, "data" \notin ArbitrationIn,
           Hw(Start \/ RepeatedStart \/ AddressAcked \/ AddressRefused \/ SendByte
              \/ ReceiveByte \/ LoseArbitration \/ BusError)
    PROVE  DataInv'
<1>1. /\ UNCHANGED <<pc, op, mx, mXfer, sXfer>> /\ ~Interrupt /\ "SI" \in con'
      /\ InWindow => window < WindowCodes
  BY DEF Hw, swvars, xfervars, slavevars, Start, RepeatedStart, AddressAcked, AddressRefused,
         SendByte, ReceiveByte, LoseArbitration, BusError, Report
<1>2. ~Unstored /\ Stored = wire.rx
  BY <1>1 DEF Unstored, Stored
<1>3. pc = "wait" /\ Busy
  <2>1. CASE Start
    <3>1. "STA" \in con /\ (window < WindowCodes \/ pc \notin Publishing)
      BY <1>1, <2>1 DEF InWindow, Publishing, Start
    <3> QED
      BY <3>1, NoStartYet
  <2>2. CASE ~Start
    <3>1. mode \in MasterModes /\ "STO" \notin con
      <4>1. mode = "start" => "STO" \notin con
        BY DEF CtlInv, FlagInv, PlaceInv
      <4> QED
        BY <2>2, <4>1 DEF Hw, RepeatedStart, AddressAcked, AddressRefused, SendByte, ReceiveByte,
           LoseArbitration, BusError, Sending, Receiving, MasterModes
    <3> QED
      BY <1>1, <3>1, OnBus
  <2> QED
    BY <2>1, <2>2
<1>4. /\ op \in Calls /\ mx.txSz <= op.tx /\ mx.next = Handed + 1 /\ mx.rxSz >= 0
      /\ mode \in MasterModes => Started
      /\ mode \notin MasterModes => Fresh
  BY <1>3 DEF DataInv, TransferSteps
<1>5. /\ mx.txSz \in Nat /\ mx.rxSz \in Int /\ wire.tx \in Seq(Nat) /\ wire.rx \in Nat
      /\ op.tx \in Nat /\ op.rx \in Nat /\ Handed \in Nat /\ dat.of \in Nat
      /\ op.tx = 0 => op.rx >= 1
  BY <1>4, Numbers, CallsMoveBytes
<1>6. Handed' = Handed /\ Busy' /\ Interrupt'
  BY <1>1, <1>3 DEF Handed, Busy, Interrupt
<1>7. SUFFICES IF mode' \in MasterModes THEN Started' ELSE Fresh'
  BY <1>1, <1>3, <1>4, <1>6, <1>7 DEF DataInv, Busy
<1>8. CASE Start
  <2>1. Fresh /\ mode' = "start" /\ wire' = NoWire /\ stat' = \h08
    BY <1>4, <1>8 DEF Start, MasterModes, Report
  <2>2. Handed = 0 /\ Upto(0) = <<>> /\ ~Unstored' /\ Stored' = 0
    <3>1. Handed = 0 /\ ~Unstored'
      BY <1>5, <2>1 DEF Fresh, Handed, Unstored
    <3>2. 0 \in Nat /\ wire'.rx = 0
      BY <2>1 DEF NoWire
    <3> QED
      BY <3>1, <3>2, UptoFacts DEF Stored
  <2>3. Started'
    BY <1>1, <1>5, <1>6, <2>1, <2>2 DEF Started, Fresh, NoWire, Handed
  <2> QED
    BY <2>1, <2>3 DEF MasterModes
<1>9. CASE RepeatedStart
  <2>1. mode \in {"tx", "rx", "over"} /\ mode' = "start" /\ stat' = \h10 /\ "STA" \in con
        /\ "STO" \notin con /\ UNCHANGED <<dat, wire>>
    BY <1>9 DEF RepeatedStart, Report
  <2>2. mode = "tx"
    BY <1>1, <1>3, <2>1, OnBus DEF CtlInv, FlagInv, MasterModes
  <2>3. Started /\ ~Unstored' /\ Stored' = Stored
    BY <1>2, <1>4, <2>1, <2>2 DEF MasterModes, Unstored, Stored
  <2>4. wire.tx = Upto(Handed) /\ mx.txSz = 0 /\ mx.rxSz >= 1 /\ wire.rx = 0
        /\ mx.stored = Upto(Stored) /\ mx.rxSz = op.rx - Stored
    BY <1>1, <2>1, <2>2, <2>3 DEF Started
  <2>5. Started'
    BY <1>1, <1>6, <2>1, <2>3, <2>4 DEF Started
  <2> QED
    BY <2>1, <2>5 DEF MasterModes
<1>10. CASE mode = "start" /\ (AddressAcked \/ AddressRefused)
  <2>1. Started /\ UNCHANGED <<dat, wire>>
    BY <1>4, <1>10 DEF MasterModes, AddressAcked, AddressRefused
  <2>2. wire.tx = Upto(Handed) /\ (Handed = 0 \/ mx.txSz = 0) /\ (mx.txSz = 0 => mx.rxSz >= 1)
        /\ (dat = IF mx.txSz = 0 THEN Read ELSE Write) /\ wire.rx = 0
        /\ mx.stored = Upto(Stored) /\ mx.rxSz = op.rx - Stored
    BY <1>1, <1>10, <2>1 DEF Started
  <2>3. \/ mode' = "tx" /\ stat' = \h18
        \/ mode' = "rx" /\ stat' = \h40 /\ mx.txSz = 0
        \/ mode' = "over" /\ stat' \in {\h20, \h48}
    BY <1>10, <2>2 DEF AddressAcked, AddressRefused, Report, Read, Write
  <2>4. ~Unstored' /\ Stored' = Stored
    BY <1>2, <2>1, <2>3 DEF Unstored, Stored
  <2>5. Started'
    BY <1>1, <1>6, <2>1, <2>2, <2>3, <2>4 DEF Started
  <2> QED
    BY <2>3, <2>5 DEF MasterModes
<1>11. CASE SendByte
  <2>1. mode = "tx" /\ "STA" \notin con /\ Started /\ dat' = dat
    BY <1>4, <1>11 DEF SendByte, Sending, MasterModes
  <2>2. Handed >= 1 /\ dat.of = Handed /\ wire.tx = Upto(Handed - 1) /\ wire.rx = 0
        /\ mx.stored = Upto(Stored) /\ mx.rxSz = op.rx - Stored
    BY <1>1, <2>1 DEF Started
  <2>3. CASE Report(\h28) /\ UNCHANGED mode /\ wire' = [wire EXCEPT !.tx = Append(@, dat.of)]
    <3>1. wire'.tx = Append(wire.tx, dat.of) /\ wire'.rx = wire.rx /\ stat' = \h28 /\ mode' = "tx"
      BY <2>1, <2>3, WireFields DEF Report, CtlInv, Shape
    <3>2. wire'.tx = Upto(Handed)
      <4>1. Handed - 1 \in Nat /\ Handed - 1 + 1 = Handed
        BY <1>5, <2>2
      <4> QED
        BY <2>2, <3>1, <4>1, UptoFacts
    <3>3. ~Unstored' /\ Stored' = Stored
      BY <1>2, <3>1 DEF Unstored, Stored
    <3>4. Started'
      BY <1>1, <1>6, <2>2, <3>1, <3>2, <3>3 DEF Started
    <3> QED
      BY <3>1, <3>4 DEF MasterModes
  <2>4. CASE Report(\h30) /\ mode' = "over" /\ wire' = [wire EXCEPT !.nak = TRUE]
    <3>1. wire'.tx = wire.tx /\ wire'.rx = wire.rx /\ stat' = \h30 /\ mode' = "over"
      BY <2>4, WireFields DEF Report, CtlInv, Shape
    <3>2. ~Unstored' /\ Stored' = Stored
      BY <1>2, <3>1 DEF Unstored, Stored
    <3>3. Started'
      BY <1>1, <1>6, <2>2, <3>1, <3>2 DEF Started
    <3> QED
      BY <3>1, <3>3 DEF MasterModes
  <2> QED
    BY <1>11, <2>3, <2>4 DEF SendByte
<1>12. CASE ReceiveByte
  <2>1. mode = "rx" /\ "STO" \notin con /\ Started /\ dat' = Byte(wire.rx + 1)
        /\ wire' = [wire EXCEPT !.rx = @ + 1, !.nak = "AA" \notin con]
    BY <1>4, <1>12 DEF ReceiveByte, Receiving, MasterModes
  <2>2. mx.txSz = 0 /\ mx.rxSz >= 1 /\ wire.tx = Upto(Handed)
        /\ mx.stored = Upto(Stored) /\ mx.rxSz = op.rx - Stored
    BY <1>1, <2>1 DEF Started
  <2>3. wire'.tx = wire.tx /\ wire'.rx = wire.rx + 1 /\ (wire'.nak <=> "AA" \notin con)
        /\ dat'.of = wire.rx + 1
    BY <2>1, WireFields DEF CtlInv, Shape, Byte
  <2>4. stat' \in {\h50, \h58} /\ mode' \in MasterModes
    BY <1>12, <2>1 DEF ReceiveByte, Report, MasterModes
  <2>5. Unstored' /\ Stored' = Stored
    BY <1>2, <1>5, <1>6, <2>3, <2>4 DEF Unstored, Stored
  <2>6. \/ mode' = "rx" /\ stat' = \h50
        \/ mode' = "over" /\ stat' = \h58 /\ mx.rxSz = 1 /\ wire'.nak
    <3>1. "AA" \in con <=> mx.rxSz > 1
      BY <1>1, <2>1, OnBus DEF MasterModes
    <3> QED
      BY <1>5, <1>12, <2>1, <2>2, <2>3, <3>1 DEF ReceiveByte, Report
  <2>7. Started'
    BY <1>1, <1>5, <1>6, <2>2, <2>3, <2>5, <2>6 DEF Started
  <2> QED
    BY <2>4, <2>7
<1>13. CASE LoseArbitration
  <2>1. mode = "start" /\ wire = NoWire /\ mode' = "idle" /\ Started
    BY <1>4, <1>13 DEF LoseArbitration, MasterModes
  <2>2. Upto(Handed) = <<>> /\ Upto(0) = <<>> /\ mx.stored = Upto(0) /\ mx.rxSz = op.rx
    <3>1. wire.tx = <<>> /\ wire.rx = 0 /\ 0 \in Nat
      BY <2>1 DEF NoWire
    <3>2. wire.tx = Upto(Handed) /\ mx.stored = Upto(Stored) /\ mx.rxSz = op.rx - Stored
      BY <2>1 DEF Started
    <3>3. Upto(0) = <<>>
      BY <3>1, UptoFacts
    <3> QED
      BY <1>2, <1>5, <3>1, <3>2, <3>3
  <2>3. Fresh
    <3>1. Handed = 0
      BY <1>5, <2>2, UptoFacts
    <3> QED
      BY <1>4, <1>5, <2>2, <3>1 DEF Fresh, Handed
  <2> QED
    BY <1>1, <2>1, <2>3 DEF Fresh, MasterModes
<1>14. CASE BusError
  <2>1. mode \in {"start", "tx", "rx"} /\ Started /\ mode' = "over" /\ stat' = \h00
        /\ UNCHANGED <<dat, wire>>
    BY <1>4, <1>14 DEF BusError, Sending, Receiving, MasterModes, Report
  <2>2. ~Unstored' /\ Stored' = Stored
    BY <1>2, <2>1 DEF Unstored, Stored
  <2>3. Started'
    BY <1>1, <1>6, <2>1, <2>2 DEF Started
  <2> QED
    BY <2>1, <2>3 DEF MasterModes
<1> QED
  BY <1>8, <1>9, <1>10, <1>11, <1>12, <1>13, <1>14
     DEF Hw, AddressAcked, AddressRefused

LEMMA BusData ==
    ASSUME CtlInv, DataInv, OneCode, "data" \notin ArbitrationIn, Bus
    PROVE  DataInv'
<1>1. HwNext /\ Hw(HwNext) /\ UNCHANGED <<pc, op, mx>>
  BY DEF Bus, Hw, swvars, xfervars
<1>2. CASE Start \/ RepeatedStart \/ AddressAcked \/ AddressRefused \/ SendByte
           \/ ReceiveByte \/ LoseArbitration \/ BusError
  BY <1>1, <1>2, MasterHwData DEF Hw
<1>3. CASE (\E s \in Slaves : Addressed(s)) \/ SlaveByteIn \/ SlaveStop
           \/ SlaveByteOut \/ SlaveByteLast \/ OtherTakes \/ OtherReleases
  <2>1. UNCHANGED wire /\ mode \notin MasterModes /\ mode' \notin MasterModes
    BY <1>3 DEF Addressed, SlaveByteIn, SlaveStop, SlaveByteOut, SlaveByteLast, OtherTakes,
                OtherReleases, MasterModes
  <2> QED
    BY <1>1, <2>1, DataKept
<1>4. CASE Stop
  <2>1. UNCHANGED wire /\ "STO" \in con
    BY <1>4 DEF Stop
  <2>2. ~Busy
    BY <2>1 DEF CtlInv, FlagInv, PlaceInv
  <2> QED
    BY <1>1, <2>1, <2>2, DataKept
<1> QED
  BY <1>1, <1>2, <1>3, <1>4 DEF HwNext

LEMMA TaskData == ASSUME CtlInv, DataInv, Task PROVE DataInv'
<1>1. mode' = mode
  BY DEF Task, Call, Retry, Proceed, SetMode, CheckSlave, ArmMaster, StartMaster, WaitDone,
         WaitStop, QuietMaster, ListenSlaves, Return, Setup, SetupAddress, SetupDecide,
         SetupFlag, hwvars, allbutcon
<1>2. ~Busy \/ mode \notin MasterModes \/ pc \in {"wait"}
  BY DEF CtlInv, FlagInv, PlaceInv
<1>3. CASE Call
  <2>1. /\ pc = "idle" /\ pc' = "check" /\ op' \in Calls /\ mx' = Xfer(op'.tx, op'.rx)
        /\ UNCHANGED wire
    BY <1>3 DEF Call, Step, hwvars, allbutcon
  <2>2. mode \notin MasterModes
    BY <2>1 DEF CtlInv, FlagInv
  <2>3. Fresh' /\ Busy' /\ Handed' = 0 /\ mx'.rxSz >= 0 /\ mx'.txSz <= op'.tx
    BY <2>1, CallsMoveBytes DEF Fresh, Busy, Handed, Xfer
  <2>4. mx'.next = 1 /\ mx'.status # "ARBLOST"
    BY <2>1 DEF Xfer
  <2> QED
    BY <1>1, <2>1, <2>2, <2>3, <2>4 DEF DataInv
<1>4. CASE Retry
  <2>1. /\ pc = "ret" /\ pc' = "check" /\ mx.status = "ARBLOST"
        /\ mx' = [mx EXCEPT !.status = "BUSY"] /\ UNCHANGED <<op, wire>>
    BY <1>4 DEF Retry, Retries, Step, hwvars, allbutcon
  <2>2. mode \notin MasterModes
    BY <2>1 DEF CtlInv, FlagInv
  <2>3. /\ mx'.txSz = mx.txSz /\ mx'.rxSz = mx.rxSz /\ mx'.next = mx.next
        /\ mx'.stored = mx.stored /\ mx'.status = "BUSY"
    BY <2>1 DEF CtlInv, Shape
  <2>4. Handed' = Handed /\ (Fresh => Fresh')
    BY <2>1, <2>3 DEF Handed, Fresh
  <2>5. Fresh /\ op \in Calls /\ mx.rxSz >= 0 /\ mx.txSz <= op.tx /\ mx.next = Handed + 1
    BY <2>1 DEF DataInv, TransferSteps
  <2> QED
    BY <1>1, <2>1, <2>2, <2>3, <2>4, <2>5 DEF DataInv, Busy
<1>5. CASE Return
  <2>1. pc' = "idle" /\ mx' = Xfer(0, 0)
    BY <1>5 DEF Return, Step
  <2> QED
    BY <2>1 DEF DataInv, TransferSteps, Xfer
<1>6. CASE CheckSlave \/ ArmMaster \/ StartMaster \/ WaitDone \/ WaitStop \/ QuietMaster
           \/ ListenSlaves \/ SetupAddress \/ SetupDecide \/ SetupFlag \/ SetMode
           \/ \E s \in Slaves : Setup(s)
  <2>1. /\ UNCHANGED <<op, mx, wire>>
        /\ pc' \in TransferSteps => pc \in TransferSteps
        /\ pc = "wait" => ~Busy
    BY <1>6 DEF CheckSlave, ArmMaster, StartMaster, WaitDone, WaitStop, QuietMaster,
       ListenSlaves, SetupAddress, SetupDecide, SetupFlag, SetMode, Setup, Step,
       hwvars, allbutcon, xfervars, TransferSteps, Busy
  <2> QED
    BY <1>1, <1>2, <2>1, DataKept
<1> QED
  BY <1>3, <1>4, <1>5, <1>6 DEF Task, Proceed

LEMMA SlaveStateData ==
    ASSUME CtlInv, DataInv, SlaveStateHandler
    PROVE  DataInv'
<1>1. /\ UNCHANGED <<pc, mode, wire, mx, op>> /\ Interrupt /\ ~IsMasterActive
  BY DEF SlaveStateHandler, xfervars
<1>2. mode \notin MasterModes
  BY <1>1, SlaveCalled DEF SlaveCode, MasterModes
<1> QED
  BY <1>1, <1>2, DataKept

LEMMA MasterStateData ==
    ASSUME CtlInv, DataInv, MasterStateHandler
    PROVE  DataInv'
<1>1. stat \in MasterCodes /\ MasterCode /\ Interrupt /\ pc = "wait" /\ Busy
  BY MasterCalled DEF MasterStateHandler, Busy, MasterCode
<1>2. UNCHANGED <<mode, wire, pc, op>>
  BY DEF MasterStateHandler
<1>3. /\ op \in Calls /\ mx.txSz <= op.tx /\ mx.next = Handed + 1 /\ mx.rxSz >= 0
      /\ mode \in MasterModes => Started
      /\ mode \notin MasterModes => Fresh
  BY <1>1 DEF DataInv, TransferSteps
<1>4. /\ mx.txSz \in Nat /\ mx.rxSz \in Int /\ wire.tx \in Seq(Nat) /\ wire.rx \in Nat
      /\ op.tx \in Nat /\ op.rx \in Nat /\ Handed \in Nat /\ dat.of \in Nat
      /\ mx \in MasterXfers
  BY <1>3, Numbers DEF CtlInv, Shape
<1> DEFINE SetsControl == \E keep \in SUBSET {"AA", "STA", "STO"} : SetControl(keep)
<1>5. SetsControl => ~Interrupt' /\ stat' = NoInfo
  BY ControlSet DEF CtlInv, Interrupt
<1> HIDE DEF SetsControl
<1> DEFINE Same == mx'.txSz = mx.txSz /\ mx'.rxSz = mx.rxSz /\ mx'.next = mx.next
                   /\ mx'.stored = mx.stored
<1>6. ASSUME NEW s \in Status, mx' = Stopped(mx, s) PROVE Same /\ mx'.status = s
  BY <1>4, <1>6 DEF Stopped
<1>7. ASSUME mode \in MasterModes, Busy', Started', mx'.rxSz >= 0, mx'.txSz <= op.tx,
             mx'.next = Handed' + 1
      PROVE  DataInv'
  BY <1>1, <1>2, <1>3, <1>7 DEF DataInv, Busy
<1>8. ASSUME ~Busy', IF mx'.status = "ARBLOST" THEN Fresh' ELSE Reported',
             mx'.rxSz >= 0, mx'.txSz <= op.tx, mx'.next = Handed' + 1
      PROVE  DataInv'
  BY <1>1, <1>2, <1>3, <1>8 DEF DataInv
<1>9. CASE SendAddress
  <2>1. /\ mode = "start" /\ mx' = mx /\ SetsControl /\ stat \in {\h08, \h10}
        /\ dat' = IF mx.txSz = 0 THEN Read ELSE Write
    BY <1>1, <1>9 DEF SendAddress, MasterCode, SetsControl
  <2>2. Handed' = Handed /\ ~Unstored /\ ~Unstored' /\ Stored' = Stored /\ Busy'
    BY <1>1, <1>2, <1>5, <2>1 DEF Handed, Unstored, Stored, Busy
  <2>3. Started'
    BY <1>2, <1>3, <1>5, <2>1, <2>2 DEF Started, MasterModes
  <2> QED
    BY <1>3, <1>7, <2>1, <2>2, <2>3 DEF MasterModes
<1>10. CASE SendNext
  <2>1. /\ mode = "tx" /\ SetControl({}) /\ SetsControl /\ dat' = Byte(mx.next) /\ mx.txSz # 0
        /\ mx' = [mx EXCEPT !.next = @ + 1, !.txSz = @ - 1] /\ stat \in {\h18, \h28}
    BY <1>1, <1>10 DEF SendNext, MasterCode, SetsControl
  <2>2. /\ mx'.next = mx.next + 1 /\ mx'.txSz = mx.txSz - 1
        /\ mx'.rxSz = mx.rxSz /\ mx'.stored = mx.stored /\ mx'.status = "BUSY"
    BY <1>1, <1>4, <2>1, SentTyped DEF Busy
  <2>3. "STA" \notin con' /\ ~Unstored /\ ~Unstored' /\ Stored' = Stored
    BY <1>2, <1>5, <2>1, ControlSet DEF CtlInv, Unstored, Stored
  <2>4. Handed' = Handed + 1 /\ dat'.of = Handed' /\ Handed' - 1 = Handed
    BY <1>2, <1>3, <1>4, <2>1, <2>2 DEF Handed, Byte
  <2>5. wire.tx = Upto(Handed) /\ wire.rx = 0 /\ mx.stored = Upto(Stored) /\ mx.rxSz = op.rx - Stored
    BY <1>1, <1>3, <2>1 DEF Started, MasterModes
  <2>6. Started'
    BY <1>2, <1>4, <1>5, <2>1, <2>2, <2>3, <2>4, <2>5 DEF Started
  <2> QED
    BY <1>3, <1>4, <1>7, <2>1, <2>2, <2>4, <2>6 DEF MasterModes, Busy
<1>11. CASE SendOver
  <2>1. mode = "tx" /\ dat' = dat /\ stat \in {\h18, \h28} /\ mx.txSz = 0
    BY <1>1, <1>11 DEF SendOver, MasterCode
  <2>2. wire.tx = Upto(Handed) /\ wire.rx = 0 /\ mx.stored = Upto(Stored) /\ mx.rxSz = op.rx - Stored
    BY <1>1, <1>3, <2>1 DEF Started, MasterModes
  <2>3. ~Unstored /\ Stored = wire.rx
    BY <2>1 DEF Unstored, Stored
  <2>4. CASE mx.rxSz # 0 /\ SetControl({"STA"}) /\ UNCHANGED mx
    <3>1. SetsControl /\ "STA" \in con'
      BY <2>4, ControlSet DEF SetsControl, CtlInv
    <3>2. Handed' = Handed /\ ~Unstored' /\ Stored' = Stored /\ Busy'
      BY <1>1, <1>2, <1>5, <2>3, <2>4, <3>1 DEF Handed, Unstored, Stored, Busy
    <3>3. Started'
      BY <1>2, <1>3, <1>4, <1>5, <2>1, <2>2, <2>4, <3>1, <3>2 DEF Started
    <3> QED
      BY <1>3, <1>7, <2>1, <2>4, <3>2, <3>3 DEF MasterModes
  <2>5. CASE mx.rxSz = 0 /\ mx' = Stopped(mx, "DONE")
    <3>1. Same /\ mx'.status = "DONE"
      BY <1>6, <2>5 DEF Status
    <3>2. Handed' = Handed /\ Handed = op.tx /\ wire.rx = op.rx /\ op.rx = 0
      BY <1>2, <1>4, <2>1, <2>2, <2>3, <2>5, <3>1 DEF Handed
    <3>3. Reported'
      BY <1>2, <2>2, <2>3, <3>1, <3>2 DEF Reported
    <3> QED
      BY <1>3, <1>8, <3>1, <3>2, <3>3 DEF Busy
  <2> QED
    BY <1>11, <2>4, <2>5 DEF SendOver
<1>12. CASE ReadGranted
  <2>1. mode = "rx" /\ UNCHANGED <<dat, mx>> /\ SetsControl /\ stat = \h40
    <3>1. mode = "rx" /\ UNCHANGED <<dat,
                                     mx>> /\ SetControl(MoreToCome(mx.rxSz)) /\ stat = \h40
      BY <1>1, <1>12 DEF ReadGranted, MasterCode
    <3>2. MoreToCome(mx.rxSz) \in SUBSET {"AA", "STA", "STO"}
      BY <1>4, Promises
    <3> QED
      BY <3>1, <3>2 DEF SetsControl
  <2>2. Handed' = Handed /\ ~Unstored /\ ~Unstored' /\ Stored' = Stored /\ Busy'
    BY <1>1, <1>2, <1>5, <2>1 DEF Handed, Unstored, Stored, Busy
  <2>3. Started'
    BY <1>2, <1>3, <1>5, <2>1, <2>2 DEF Started, MasterModes
  <2> QED
    BY <1>3, <1>7, <2>1, <2>2, <2>3 DEF MasterModes
<1> DEFINE Store == mx'.txSz = mx.txSz /\ mx'.rxSz = mx.rxSz - 1 /\ mx'.next = mx.next
                    /\ mx'.stored = Append(mx.stored, dat.of)
<1>13. ASSUME stat \in {\h50, \h58}, Started, Store
       PROVE  mx'.stored = Upto(wire.rx) /\ mx'.rxSz = op.rx - wire.rx
  <2>1. wire.rx >= 1 /\ dat.of = wire.rx /\ mx.stored = Upto(wire.rx - 1)
        /\ mx.rxSz = op.rx - (wire.rx - 1)
    BY <1>1, <1>13 DEF Started, Unstored, Stored
  <2>2. wire.rx - 1 \in Nat /\ (wire.rx - 1) + 1 = wire.rx
    BY <1>4, <2>1
  <2>3. Append(Upto(wire.rx - 1), wire.rx) = Upto(wire.rx)
    <3> DEFINE n == wire.rx - 1
    <3>1. Append(Upto(n), n + 1) = Upto(n + 1)
      BY <2>2, UptoFacts
    <3> QED
      BY <2>2, <3>1
  <2> QED
    BY <1>4, <1>13, <2>1, <2>3
<1>14. CASE StoreNext
  <2>1. mode = "rx" /\ dat' = dat /\ mx' = StoreByte(mx) /\ SetsControl /\ stat = \h50 /\ mx.rxSz > 1
    BY <1>1, <1>4, <1>14, Promises, SMTT(30) DEF StoreNext, MasterCode, SetsControl
  <2>2. Store /\ mx'.status = "BUSY"
    BY <1>1, <1>4, <2>1, StoreTyped DEF Busy
  <2>3. Started /\ mx.txSz = 0 /\ wire.tx = Upto(Handed)
    BY <1>3, <2>1 DEF Started, MasterModes
  <2>4. mx'.stored = Upto(wire.rx) /\ mx'.rxSz = op.rx - wire.rx
    BY <1>13, <2>1, <2>2, <2>3
  <2>5. Handed' = Handed /\ ~Unstored' /\ Stored' = wire.rx
    BY <1>2, <1>5, <2>1, <2>2 DEF Handed, Unstored, Stored
  <2>6. mx'.rxSz >= 1 /\ mx'.rxSz >= 0
    BY <1>4, <2>1, <2>2
  <2>7. Started'
    BY <1>2, <1>5, <2>1, <2>2, <2>3, <2>4, <2>5, <2>6 DEF Started
  <2> QED
    BY <1>3, <1>7, <2>1, <2>2, <2>5, <2>6, <2>7 DEF MasterModes, Busy
<1>15. CASE StoreLast
  <2>1. mode = "over" /\ mx' = Stopped(StoreByte(mx), "DONE") /\ stat = \h58
    BY <1>1, <1>15 DEF StoreLast, MasterCode
  <2>2. Store /\ mx'.status = "DONE"
    BY <1>4, <2>1, StoreTyped DEF Stopped, Status
  <2>3. Started /\ mx.txSz = 0 /\ wire.tx = Upto(Handed) /\ mx.rxSz = 1 /\ wire.nak
    BY <1>3, <2>1 DEF Started, MasterModes
  <2>4. mx'.stored = Upto(wire.rx) /\ mx'.rxSz = op.rx - wire.rx
    BY <1>13, <2>1, <2>2, <2>3
  <2>5. Handed' = Handed /\ Handed = op.tx /\ mx'.rxSz = 0 /\ wire.rx = op.rx
    BY <1>2, <1>4, <2>2, <2>3, <2>4 DEF Handed
  <2>6. Reported'
    BY <1>2, <2>2, <2>3, <2>4, <2>5 DEF Reported
  <2> QED
    BY <1>3, <1>8, <2>2, <2>5, <2>6 DEF Busy
<1>16. CASE Refused
  <2>1. mode = "over" /\ stat \in {\h00, \h20, \h30, \h48}
    BY <1>1, <1>16 DEF Refused, MasterCode
  <2>2. \/ stat \in {\h20, \h48} /\ Same /\ mx'.status = "SLAVENAK"
        \/ stat = \h30 /\ Same /\ mx'.status = "NAK"
        \/ stat = \h00 /\ Same /\ mx'.status = "BUSERR"
    BY <1>6, <1>16 DEF Refused, Status
  <2>3. Started /\ ~Unstored /\ Stored = wire.rx /\ mx.stored = Upto(wire.rx)
    BY <1>3, <2>1 DEF Started, MasterModes, Unstored, Stored
  <2>4. Handed' = Handed
    BY <1>2, <2>2 DEF Handed
  <2>5. Reported'
    BY <1>2, <2>1, <2>2, <2>3, <2>4 DEF Reported, Started
  <2> QED
    BY <1>3, <1>8, <2>2, <2>4, <2>5 DEF Busy
<1>17. CASE ArbitrationLost
  <2>1. mode = "idle" /\ Same /\ mx'.status = "ARBLOST"
    BY <1>1, <1>6, <1>17 DEF ArbitrationLost, MasterCode, Status
  <2>2. Fresh
    BY <1>3, <2>1 DEF MasterModes
  <2>3. Fresh' /\ Handed' = Handed
    BY <1>2, <2>1, <2>2 DEF Fresh, Handed
  <2> QED
    BY <1>3, <1>8, <2>1, <2>3 DEF Busy
<1> QED
  BY <1>9, <1>10, <1>11, <1>12, <1>14, <1>15, <1>16, <1>17 DEF MasterStateHandler

LEMMA DataStart == Init => DataInv
  BY DEF Init, DataInv, Xfer, TransferSteps

LEMMA DataStep ==
    ASSUME OneCode, "data" \notin ArbitrationIn, CtlInv, DataInv, [Next]_vars
    PROVE  DataInv'
<1>1. CASE Next
  BY <1>1, TaskData, BusData, MasterStateData, SlaveStateData DEF Next, Handler
<1>2. CASE UNCHANGED vars
  <2>1. UNCHANGED <<con, stat, dat, mode, wire, pc, op, mx>>
    BY <1>2 DEF vars, hwvars, allbutcon, swvars, xfervars
  <2> QED
    BY <2>1 DEF DataInv, Fresh, Started, Reported, Handed, Stored, Unstored, Busy, Interrupt
<1> QED
  BY <1>1, <1>2

LEMMA Data ==
    OneCode /\ "data" \notin ArbitrationIn => (Spec => [](CtlInv /\ DataInv))
<1>1. ASSUME OneCode, "data" \notin ArbitrationIn
      PROVE  Init /\ [][Next]_vars => [](CtlInv /\ DataInv)
  <2>1. CtlInv /\ DataInv /\ [Next]_vars => CtlInv' /\ DataInv'
    BY <1>1, CtlStep, DataStep
  <2> QED
    BY CtlStart, DataStart, <2>1, PTL
<1> QED
  BY <1>1 DEF Spec

(* Every variable keeps its type: above all, no size of a transfer or of a *)
(* slave's buffers falls below zero, for that is a byte moved outside it.  *)
THEOREM TypeCorrect ==
    OneCode /\ "data" \notin ArbitrationIn => (Spec => []TypeOK)
<1>1. CtlInv /\ DataInv => TypeOK
  <2> SUFFICES ASSUME CtlInv, DataInv PROVE TypeOK
    OBVIOUS
  <2> USE DEF CtlInv, Shape
  <2>1. HwTypeOK
    BY DEF HwTypeOK
  <2>2. XferOK(mx)
    BY Numbers DEF XferOK, DataInv
  <2>3. sx \in [Slaves -> [rxSz : Nat, txSz : Nat, waiting : BOOLEAN]]
    <3>1. /\ 1 .. SlaveRx \subseteq Nat /\ 0 .. SlaveTx \subseteq Nat
      BY LengthsAssumption
    <3>2. \A s \in Slaves : sx[s] \in [rxSz : Nat, txSz : Nat, waiting : BOOLEAN]
      BY <3>1
    <3> QED
      BY <3>2
  <2> QED
    BY <2>1, <2>2, <2>3 DEF TypeOK
<1> QED
  BY Data, <1>1, PTL

(* What a call of the master reports when it comes back is what happened   *)
(* on the wire, but for lost arbitrations and refused bytes: the bytes it  *)
(* stored are those that were read, DONE means that all were sent and read,*)
(* in order, and the last was refused, and after a refused address txSz is *)
(* exact.                                                                  *)
THEOREM TruthfulCorrect ==
    OneCode /\ "data" \notin ArbitrationIn => (Spec => []ReturnTruthful)
<1>1. CtlInv /\ DataInv => ReturnTruthful
  BY DEF CtlInv, PlaceInv, DataInv, Reported, ReturnTruthful, TransferSteps
<1> QED
  BY Data, <1>1, PTL
=============================================================================
