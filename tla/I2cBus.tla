------------------------------- MODULE I2cBus -------------------------------
(***************************************************************************)
(* The I2C controller of the LPC18xx/43xx and the bus it sits on, as       *)
(* i2c_18xx_43xx.c uses them: control flags set through CONSET and cleared *)
(* through CONCLR, a status code that is valid while SI is set, and DAT.   *)
(* SI holds the clock line low, so nothing moves until the handler has     *)
(* cleared it.  The other masters and slaves of the bus may do whatever    *)
(* the I2C protocol allows.  The driver itself is module I2c.              *)
(***************************************************************************)
EXTENDS Integers, Sequences

CONSTANTS
    Slaves,         \* the slave identifiers of the driver
    General,        \* the one of them that answers the general call
    ArbitrationIn,  \* where another master may win: {"address"}, {"data"}, both
    MaxBytes        \* bound: bytes a device sends in one transaction

ASSUME SlavesAssumption == Slaves \subseteq Nat /\ General \in Slaves
ASSUME ArbitrationAssumption == ArbitrationIn \subseteq {"address", "data"}
ASSUME MaxBytesAssumption == MaxBytes \in Nat

VARIABLES
    con,    \* the control flags that are set
    stat,   \* status code: the last event while SI is set, else no information
    dat,    \* data register
    mode,   \* what the controller is on the bus
    bus,    \* whose the bus is: "free", "ours" or "other"
    own,    \* the slaves whose address the controller answers
    wire    \* history of the current master transaction

allbutcon == <<stat, dat, mode, bus, own, wire>>
hwvars == <<con, allbutcon>>

Flags == {"AA", "SI", "STO", "STA"}
MasterModes == {"start", "tx", "rx", "over"}
Modes == MasterModes \cup {"idle", "slaverx", "generalrx", "slavetx"}

(* A word of the data register: an address with its direction bit, an own  *)
(* address, or the n-th byte of a buffer.                                  *)
Write == [kind |-> "write", of |-> 0]
Read == [kind |-> "read", of |-> 0]
Own(s) == [kind |-> "own", of |-> s]
Byte(n) == [kind |-> "byte", of |-> n]

MasterCodes == {\h00, \h08, \h10, \h18, \h20, \h28, \h30, \h38,
                \h40, \h48, \h50, \h58}
AddressedCodes == {\h60, \h70, \hA8}
SlaveCodes == AddressedCodes \cup
              {\h80, \h88, \h90, \h98, \hA0, \hB8, \hC0, \hC8}

NoInfo == \hF8

(* No byte of this transaction has been sent, received or lost yet.        *)
NoWire == [tx |-> <<>>, rx |-> 0, nak |-> FALSE]

HwTypeOK ==
    /\ con \subseteq Flags
    /\ stat \in MasterCodes \cup SlaveCodes \cup {NoInfo}
    /\ dat.kind \in {"write", "read", "own", "byte"}
    /\ mode \in Modes
    /\ bus \in {"free", "ours", "other"}
    /\ own \subseteq Slaves
    /\ wire.tx \in Seq(Nat) /\ wire.rx \in Nat /\ wire.nak \in BOOLEAN

(* After Chip_I2C_Init: no flag is set, the controller answers no address. *)
HwInit ==
    /\ con = {}
    /\ stat = NoInfo
    /\ dat = Byte(0)
    /\ mode = "idle"
    /\ bus \in {"free", "other"}
    /\ own = {}
    /\ wire = NoWire

-----------------------------------------------------------------------------
Interrupt == "SI" \in con

(* The controller reports code and stretches the clock.                    *)
Report(code) == stat' = code /\ con' = con \cup {"SI"}

(* --- as master --------------------------------------------------------- *)

Start ==
    /\ ~Interrupt /\ mode = "idle" /\ bus = "free" /\ "STA" \in con
    /\ Report(\h08)
    /\ mode' = "start" /\ bus' = "ours" /\ wire' = NoWire
    /\ UNCHANGED <<dat, own>>

RepeatedStart ==
    /\ ~Interrupt /\ mode \in {"tx", "rx", "over"}
    /\ "STA" \in con /\ "STO" \notin con
    /\ Report(\h10)
    /\ mode' = "start"
    /\ UNCHANGED <<dat, bus, own, wire>>

(* STOP ends the transaction; the controller then clears STO by itself.    *)
Stop ==
    /\ ~Interrupt /\ mode \in {"tx", "rx", "over"} /\ "STO" \in con
    /\ con' = con \ {"STO"}
    /\ mode' = "idle" /\ bus' = "free" /\ dat' = Byte(0)
    /\ UNCHANGED <<stat, own, wire>>

AddressAcked ==
    /\ ~Interrupt /\ mode = "start"
    /\ \/ dat = Write /\ mode' = "tx" /\ Report(\h18)
       \/ dat = Read /\ mode' = "rx" /\ Report(\h40)
    /\ UNCHANGED <<dat, bus, own, wire>>

AddressRefused ==
    /\ ~Interrupt /\ mode = "start"
    /\ Report(IF dat = Write THEN \h20 ELSE \h48)
    /\ mode' = "over"
    /\ UNCHANGED <<dat, bus, own, wire>>

(* The controller goes on clocking bytes while it is asked for neither     *)
(* STOP nor START; when a byte was refused, one of them has to come.       *)
Sending == mode = "tx" /\ {"STA", "STO"} \cap con = {}
Receiving == mode = "rx" /\ {"STA", "STO"} \cap con = {}

SendByte ==
    /\ ~Interrupt /\ Sending
    /\ \/ /\ Report(\h28) /\ UNCHANGED mode
          /\ wire' = [wire EXCEPT !.tx = Append(@, dat.of)]
       \/ /\ Report(\h30) /\ mode' = "over"
          /\ wire' = [wire EXCEPT !.nak = TRUE]
    /\ UNCHANGED <<dat, bus, own>>

ReceiveByte ==
    /\ ~Interrupt /\ Receiving /\ wire.rx < MaxBytes
    /\ IF "AA" \in con
       THEN Report(\h50) /\ UNCHANGED mode
       ELSE Report(\h58) /\ mode' = "over"
    /\ dat' = Byte(wire.rx + 1)
    /\ wire' = [wire EXCEPT !.rx = @ + 1, !.nak = "AA" \notin con]
    /\ UNCHANGED <<bus, own>>

(* Another master wins the arbitration, in the address that follows a      *)
(* START or later in the transaction; it keeps the bus.                    *)
LoseArbitration ==
    /\ ~Interrupt
    /\ \/ "address" \in ArbitrationIn /\ mode = "start" /\ wire = NoWire
       \/ "data" \in ArbitrationIn /\ (mode = "start" \/ Sending)
    /\ Report(\h38)
    /\ mode' = "idle" /\ bus' = "other" /\ dat' = Byte(0)
    /\ UNCHANGED <<own, wire>>

BusError ==
    /\ ~Interrupt /\ (mode = "start" \/ Sending \/ Receiving)
    /\ Report(\h00)
    /\ mode' = "over"
    /\ UNCHANGED <<dat, bus, own, wire>>

-----------------------------------------------------------------------------
(* --- as slave ---------------------------------------------------------- *)

(* Another master sends an address: one the controller knows is answered   *)
(* while AA is set.                                                        *)
Addressed(s) ==
    /\ ~Interrupt /\ mode = "idle" /\ "AA" \in con /\ s \in own
    /\ \/ s # General /\ Report(\h60) /\ mode' = "slaverx"
       \/ s # General /\ Report(\hA8) /\ mode' = "slavetx"
       \/ s = General /\ Report(\h70) /\ mode' = "generalrx"
    /\ dat' = Own(s) /\ bus' = "other"
    /\ UNCHANGED <<own, wire>>

(* A byte for the slave: acknowledged while AA is set, else refused, and   *)
(* then the controller is addressed no longer.                             *)
SlaveByteIn ==
    /\ ~Interrupt /\ mode \in {"slaverx", "generalrx"}
    /\ IF "AA" \in con
       THEN /\ Report(IF mode = "slaverx" THEN \h80 ELSE \h90)
            /\ UNCHANGED mode
       ELSE /\ Report(IF mode = "slaverx" THEN \h88 ELSE \h98)
            /\ mode' = "idle"
    /\ dat' = Byte(0)
    /\ UNCHANGED <<bus, own, wire>>

SlaveStop ==
    /\ ~Interrupt /\ mode \in {"slaverx", "generalrx"}
    /\ Report(\hA0)
    /\ mode' = "idle" /\ dat' = Byte(0)
    /\ UNCHANGED <<bus, own, wire>>

(* The byte in DAT has gone out and the master wants another one.          *)
SlaveByteOut ==
    /\ ~Interrupt /\ mode = "slavetx"
    /\ IF "AA" \in con
       THEN Report(\hB8) /\ UNCHANGED mode
       ELSE Report(\hC8) /\ mode' = "idle"
    /\ UNCHANGED <<dat, bus, own, wire>>

(* The byte in DAT has gone out and the master refuses more.               *)
SlaveByteLast ==
    /\ ~Interrupt /\ mode = "slavetx"
    /\ Report(\hC0)
    /\ mode' = "idle"
    /\ UNCHANGED <<dat, bus, own, wire>>

(* Traffic of the other masters that is not for this controller.           *)
OtherTakes ==
    /\ ~Interrupt /\ mode = "idle" /\ bus = "free"
    /\ bus' = "other"
    /\ UNCHANGED <<con, stat, dat, mode, own, wire>>

OtherReleases ==
    /\ ~Interrupt /\ mode = "idle" /\ bus = "other"
    /\ bus' = "free"
    /\ UNCHANGED <<con, stat, dat, mode, own, wire>>

HwNext ==
    \/ Start \/ RepeatedStart \/ Stop \/ AddressAcked \/ AddressRefused
    \/ SendByte \/ ReceiveByte \/ LoseArbitration \/ BusError
    \/ \E s \in Slaves : Addressed(s)
    \/ SlaveByteIn \/ SlaveStop \/ SlaveByteOut \/ SlaveByteLast
    \/ OtherTakes \/ OtherReleases
=============================================================================
