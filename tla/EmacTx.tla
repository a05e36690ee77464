------------------------------- MODULE EmacTx -------------------------------
(***************************************************************************)
(* The transmit side of the lwIP driver for the Ethernet MAC               *)
(* (lwip/lpclwip/arch/lpc18xx_43xx_emac.c, RTOS build).                    *)
(*                                                                         *)
(* The TCP/IP thread puts the pbufs of a frame into a ring of descriptors; *)
(* the DMA engine sends what it owns; its interrupt wakes the cleanup      *)
(* task, which takes finished descriptors back and frees their pbufs.  A   *)
(* mutex keeps thread and task apart while they change the ring, but not   *)
(* while the thread waits for descriptors.                                 *)
(***************************************************************************)
EXTENDS Naturals, Sequences, FiniteSets

CONSTANTS
    N,                  \* LPC_NUM_BUFF_TXDESCS
    Frame,              \* the pbuf chains of the stack
    Copy,               \* the pbufs that frames in slow memory are copied to
    Chain,              \* Chain[f]: the number of pbufs in f
    NoFrame,
    CleanPrio           \* "equal" to the TCP/IP thread's priority, or "lower"

Sent == Frame \union Copy

(* A longer chain than the ring keeps lpc_low_level_output in its loop. *)
ASSUME EmacTxAssumption ==
    /\ N \in Nat \ {0}
    /\ Frame \intersect Copy = {} /\ NoFrame \notin Sent
    /\ Chain \in [Sent -> 1 .. N]
    /\ \A c \in Copy : Chain[c] = 1
    /\ CleanPrio \in {"equal", "lower"}

Index == 0 .. N - 1
Segment == {s \in Sent \X (1 .. N) : s[2] <= Chain[s[1]]}

VARIABLES
    own, flags, addr,   \* of each descriptor: TDES_OWN, FS and LS, B1ADD
    txpbufs,            \* what to free when a descriptor is reclaimed
    free, fill, reclaim,    \* tx_free_descs, tx_fill_idx, tx_reclaim_idx
    mutex,              \* who holds TXLockMutex
    cleanSem,           \* TxCleanSem, binary
    opc, sendp, seg, idx,   \* lpc_low_level_output and its locals
    cpc, ridx,          \* the cleanup task and its index
    isr, ints,          \* the interrupt handler and what it has read
    held, ref,          \* the stack holds the chain; its reference count
    dma, pos,           \* the engine's state and its descriptor
    stat,               \* DMA_STAT, TI and TU
    sending, wire       \* segments of the frame being sent; the last frame sent

ring == <<own, flags, addr, txpbufs, free>>
output == <<opc, sendp, seg, idx, fill>>
clean == <<cpc, ridx, reclaim>>
handler == <<isr, ints>>
pbufs == <<held, ref>>
engine == <<dma, pos, stat, sending, wire>>
vars == <<ring, output, clean, handler, pbufs, mutex, cleanSem, engine>>

Succ(i) == (i + 1) % N

(* lpc_tx_setup, and lpc_enetif_init for the semaphore and the mutex *)
Init ==
    /\ own = [i \in Index |-> FALSE]
    /\ flags = [i \in Index |-> {}]
    /\ addr = [i \in Index |-> <<>>]
    /\ txpbufs = [i \in Index |-> NoFrame]
    /\ free = N /\ fill = 0 /\ reclaim = 0
    /\ mutex = "none" /\ cleanSem = FALSE
    /\ opc = "idle" /\ sendp = NoFrame /\ seg = 0 /\ idx = 0
    /\ cpc = "sleep" /\ ridx = 0
    /\ isr = "none" /\ ints = {}
    /\ held = [f \in Frame |-> FALSE]
    /\ ref = [f \in Sent |-> 0]
    /\ dma = "run" /\ pos = 0 /\ stat = {}
    /\ sending = <<>> /\ wire = <<>>

(***************************************************************************)
(* The DMA engine.  It closes a descriptor when its buffer has been read;  *)
(* the status bit TI follows a descriptor with LS, TU one it does not own. *)
(***************************************************************************)
DmaSend ==
    /\ dma = "run" /\ own[pos]
    /\ LET got == (IF "FS" \in flags[pos] THEN <<>> ELSE sending) \o <<addr[pos]>>
       IN  IF "LS" \in flags[pos]
             THEN wire' = got /\ sending' = <<>> /\ dma' = "status"
             ELSE sending' = got /\ UNCHANGED <<wire, dma>>
    /\ own' = [own EXCEPT ![pos] = FALSE]
    /\ pos' = Succ(pos)
    /\ UNCHANGED <<flags, addr, txpbufs, free, output, clean, handler, pbufs,
                   mutex, cleanSem, stat>>

DmaStatus ==
    /\ dma = "status"
    /\ stat' = stat \union {"TI"}
    /\ dma' = "run"
    /\ UNCHANGED <<ring, output, clean, handler, pbufs, mutex, cleanSem, pos,
                   sending, wire>>

DmaSuspend ==
    /\ dma = "run" /\ ~own[pos]
    /\ stat' = stat \union {"TU"}
    /\ dma' = "suspended"
    /\ UNCHANGED <<ring, output, clean, handler, pbufs, mutex, cleanSem, pos,
                   sending, wire>>

Dma == DmaSend \/ DmaStatus \/ DmaSuspend

(***************************************************************************)
(* ETH_IRQHandler, its transmit part                                       *)
(***************************************************************************)
IsrRead ==
    /\ isr = "none" /\ stat # {}
    /\ ints' = stat
    /\ isr' = "give"
    /\ UNCHANGED <<ring, output, clean, pbufs, mutex, cleanSem, engine>>

IsrGive ==
    /\ isr = "give"
    /\ cleanSem' = (cleanSem \/ ints \intersect {"TI", "TU"} # {})
    /\ isr' = "clear"
    /\ UNCHANGED <<ring, output, clean, ints, pbufs, mutex, engine>>

IsrClear ==
    /\ isr = "clear"
    /\ stat' = stat \ ints
    /\ ints' = {}
    /\ isr' = "none"
    /\ UNCHANGED <<ring, output, clean, pbufs, mutex, cleanSem, dma, pos, sending, wire>>

Isr == IsrRead \/ IsrGive \/ IsrClear

(***************************************************************************)
(* The TCP/IP thread: the stack makes a frame, sends it, perhaps again,    *)
(* and drops its reference.                                                *)
(***************************************************************************)
StackAlloc(f) ==
    /\ opc = "idle"
    /\ ref[f] = 0
    /\ held' = [held EXCEPT ![f] = TRUE]
    /\ ref' = [ref EXCEPT ![f] = 1]
    /\ UNCHANGED output

StackFree(f) ==
    /\ opc = "idle"
    /\ held[f]
    /\ held' = [held EXCEPT ![f] = FALSE]
    /\ ref' = [ref EXCEPT ![f] = @ - 1]
    /\ UNCHANGED output

(* lpc_low_level_output of f *)
OutputCall(f) ==
    /\ opc = "idle"
    /\ held[f]
    /\ sendp' = f
    /\ opc' = "wait"
    /\ UNCHANGED <<seg, idx, fill, pbufs>>

(* the same for a frame in slow memory: it is copied to a new pbuf *)
OutputCallSlow(c) ==
    /\ opc = "idle"
    /\ ref[c] = 0
    /\ ref' = [ref EXCEPT ![c] = 1]
    /\ sendp' = c
    /\ opc' = "wait"
    /\ UNCHANGED <<seg, idx, fill, held>>

(* The loop polls tx_free_descs.  It takes xTXDCountSem without waiting    *)
(* and does not use the result, so that the semaphore decides nothing.     *)
OutputWait ==
    /\ opc = "wait"
    /\ free >= Chain[sendp]
    /\ opc' = "lock"
    /\ idx' = fill
    /\ UNCHANGED <<sendp, seg, fill, pbufs>>

Call ==
    /\ \/ \E f \in Frame : StackAlloc(f) \/ StackFree(f) \/ OutputCall(f)
       \/ \E c \in Copy : OutputCallSlow(c)
       \/ OutputWait
    /\ UNCHANGED <<ring, mutex>>

OutputLock ==
    /\ opc = "lock"
    /\ mutex = "none"
    /\ mutex' = "output"
    /\ opc' = "fill"
    /\ seg' = 1
    /\ UNCHANGED <<ring, sendp, idx, fill, pbufs>>

(* Mutant: a copied pbuf gets a second reference. *)
FillRefCopy ==
    /\ opc = "fill"
    /\ addr' = [addr EXCEPT ![idx] = <<sendp, seg>>]
    /\ free' = free - 1
    /\ IF seg = 1
         THEN /\ flags' = [flags EXCEPT ![idx] = @ \union {"FS"}]
              /\ ref' = [ref EXCEPT ![sendp] = @ + 1]
              /\ UNCHANGED own
         ELSE /\ own' = [own EXCEPT ![idx] = TRUE]
              /\ UNCHANGED <<flags, ref>>
    /\ opc' = "flag"
    /\ UNCHANGED <<txpbufs, mutex, sendp, seg, idx, fill, held>>

(* address and length; the first descriptor gets FS and pbuf_ref, the      *)
(* others are given to the engine                                          *)
Fill ==
    /\ opc = "fill"
    /\ addr' = [addr EXCEPT ![idx] = <<sendp, seg>>]
    /\ free' = free - 1
    /\ IF seg = 1
         THEN /\ flags' = [flags EXCEPT ![idx] = @ \union {"FS"}]
              /\ ref' = [ref EXCEPT ![sendp] = IF sendp \in Copy THEN @ ELSE @ + 1]
              /\ UNCHANGED own
         ELSE /\ own' = [own EXCEPT ![idx] = TRUE]
              /\ UNCHANGED <<flags, ref>>
    /\ opc' = "flag"
    /\ UNCHANGED <<txpbufs, mutex, sendp, seg, idx, fill, held>>

(* the rest of the loop's body: what to free, LS on the last descriptor *)
FillFlag ==
    /\ opc = "flag"
    /\ LET last == seg = Chain[sendp]
       IN  /\ txpbufs' = [txpbufs EXCEPT ![idx] = IF last THEN sendp ELSE NoFrame]
           /\ flags' = [flags EXCEPT ![idx] = IF last THEN @ \union {"LS"} ELSE @]
           /\ opc' = IF last THEN "give" ELSE "fill"
           /\ fill' = IF last THEN Succ(idx) ELSE fill
           /\ idx' = IF last THEN fill ELSE Succ(idx)
           /\ seg' = IF last THEN 0 ELSE seg + 1
    /\ UNCHANGED <<own, addr, free, mutex, sendp, pbufs>>

(* the first descriptor is given last *)
Give ==
    /\ opc = "give"
    /\ own' = [own EXCEPT ![idx] = TRUE]
    /\ opc' = "poll"
    /\ UNCHANGED <<flags, addr, txpbufs, free, mutex, sendp, seg, idx, fill, pbufs>>

(* Mutant: no poll demand. *)
OutputReturnNoPoll ==
    /\ opc = "poll"
    /\ mutex' = "none"
    /\ opc' = "idle"
    /\ sendp' = NoFrame
    /\ idx' = 0
    /\ UNCHANGED <<ring, seg, fill, pbufs, engine>>

(* poll demand, unlock, return *)
OutputReturn ==
    /\ opc = "poll"
    /\ dma' = IF dma = "suspended" THEN "run" ELSE dma
    /\ mutex' = "none"
    /\ opc' = "idle"
    /\ sendp' = NoFrame
    /\ idx' = 0
    /\ UNCHANGED <<ring, seg, fill, pbufs, pos, stat, sending, wire>>

Output ==
    /\ \/ Call /\ UNCHANGED engine
       \/ OutputLock /\ UNCHANGED engine
       \/ Fill /\ UNCHANGED engine
       \/ FillFlag /\ UNCHANGED engine
       \/ Give /\ UNCHANGED engine
       \/ OutputReturn
    /\ isr = "none"
    /\ UNCHANGED <<clean, handler, cleanSem>>

(***************************************************************************)
(* vTransmitCleanupTask and lpc_tx_reclaim                                 *)
(***************************************************************************)
CleanWake ==
    /\ cpc = "sleep"
    /\ cleanSem
    /\ cleanSem' = FALSE
    /\ cpc' = "lock"
    /\ UNCHANGED <<ring, ridx, reclaim, pbufs, mutex>>

(* Mutant: no lock. *)
CleanLockNone ==
    /\ cpc = "lock"
    /\ ridx' = reclaim
    /\ cpc' = "loop"
    /\ UNCHANGED <<ring, reclaim, pbufs, mutex, cleanSem>>

CleanLock ==
    /\ cpc = "lock"
    /\ mutex = "none"
    /\ mutex' = "clean"
    /\ ridx' = reclaim
    /\ cpc' = "loop"
    /\ UNCHANGED <<ring, reclaim, pbufs, cleanSem>>

(* Mutants: the descriptor keeps its flags, and the index does not wrap.   *)
ReclaimKeepFlags ==
    /\ cpc = "loop"
    /\ free < N /\ ~own[ridx]
    /\ ref' = [f \in Sent |-> IF f = txpbufs[ridx] THEN ref[f] - 1 ELSE ref[f]]
    /\ free' = free + 1
    /\ ridx' = Succ(ridx)
    /\ UNCHANGED <<own, flags, addr, txpbufs, cpc, reclaim, held, mutex, cleanSem>>

ReclaimNoWrap ==
    /\ cpc = "loop"
    /\ free < N /\ ~own[ridx]
    /\ flags' = [flags EXCEPT ![ridx] = {}]
    /\ ref' = [f \in Sent |-> IF f = txpbufs[ridx] THEN ref[f] - 1 ELSE ref[f]]
    /\ free' = free + 1
    /\ ridx' = ridx + 1
    /\ UNCHANGED <<own, addr, txpbufs, cpc, reclaim, held, mutex, cleanSem>>

(* one descriptor; tx_free_descs, which the thread polls, changes last *)
Reclaim ==
    /\ cpc = "loop"
    /\ free < N /\ ~own[ridx]
    /\ flags' = [flags EXCEPT ![ridx] = {}]
    /\ ref' = [f \in Sent |-> IF f = txpbufs[ridx] THEN ref[f] - 1 ELSE ref[f]]
    /\ free' = free + 1
    /\ ridx' = Succ(ridx)
    /\ UNCHANGED <<own, addr, txpbufs, cpc, reclaim, held, mutex, cleanSem>>

(* Mutant: a wake-up reclaims one descriptor only. *)
CleanUnlockOne ==
    /\ cpc = "loop"
    /\ ridx # reclaim \/ ~(free < N /\ ~own[ridx])
    /\ reclaim' = ridx
    /\ mutex' = IF mutex = "clean" THEN "none" ELSE mutex
    /\ cpc' = "sleep"
    /\ UNCHANGED <<ring, ridx, pbufs, cleanSem>>

CleanUnlock ==
    /\ cpc = "loop"
    /\ ~(free < N /\ ~own[ridx])
    /\ reclaim' = ridx
    /\ mutex' = IF mutex = "clean" THEN "none" ELSE mutex
    /\ cpc' = "sleep"
    /\ UNCHANGED <<ring, ridx, pbufs, cleanSem>>

(* The thread runs unless it waits for the mutex; with the higher priority *)
(* it then keeps the task from running.  In "idle" it waits for work.      *)
OutputRuns == opc # "idle" /\ ~(opc = "lock" /\ mutex # "none")

Clean ==
    /\ CleanWake \/ CleanLock \/ Reclaim \/ CleanUnlock
    /\ isr = "none"
    /\ CleanPrio = "equal" \/ ~OutputRuns
    /\ UNCHANGED <<output, handler, engine>>

Next == Dma \/ Isr \/ Output \/ Clean

Spec == Init /\ [][Next]_vars

(***************************************************************************)
(* Fairness: the engine sends, interrupts are taken, threads that may run  *)
(* do (of equal priority, they share the time).  Nobody has to send.       *)
(***************************************************************************)
Fairness ==
    /\ WF_vars(Dma)
    /\ WF_vars(Isr)
    /\ SF_vars(opc # "idle" /\ Output)
    /\ SF_vars(Clean)

FairSpec == Spec /\ Fairness

(***************************************************************************)
(* Properties                                                              *)
(***************************************************************************)
TypeOK ==
    /\ own \in [Index -> BOOLEAN]
    /\ flags \in [Index -> SUBSET {"FS", "LS"}]
    /\ addr \in [Index -> Segment \union {<<>>}]
    /\ txpbufs \in [Index -> Sent \union {NoFrame}]
    /\ free \in 0 .. N /\ fill \in Index /\ reclaim \in Index
    /\ mutex \in {"none", "output", "clean"} /\ cleanSem \in BOOLEAN
    /\ opc \in {"idle", "wait", "lock", "fill", "flag", "give", "poll"}
    /\ sendp \in Sent \union {NoFrame} /\ seg \in 0 .. N /\ idx \in Index
    /\ cpc \in {"sleep", "lock", "loop"} /\ ridx \in Index
    /\ isr \in {"none", "give", "clear"} /\ ints \subseteq {"TI", "TU"}
    /\ held \in [Frame -> BOOLEAN]
    /\ ref \in [Sent -> 0 .. N + 2]
    /\ dma \in {"run", "status", "suspended"} /\ pos \in Index
    /\ stat \subseteq {"TI", "TU"}
    /\ sending \in Seq(Segment \union {<<>>}) /\ wire \in Seq(Segment \union {<<>>})

(* The descriptors in use, from the oldest that was not reclaimed to the   *)
(* one that is filled next.                                                *)
Oldest == IF cpc = "loop" THEN ridx ELSE reclaim
NextFill ==
    IF opc = "fill" THEN idx ELSE IF opc = "flag" THEN Succ(idx) ELSE fill
InUse == {(Oldest + j) % N : j \in 0 .. N - free - 1}

(* Indices, count and engine agree whoever is in the middle of what: the   *)
(* engine has finished the oldest descriptors in use, and one that is not  *)
(* in use is not the engine's and carries no flag into its next frame      *)
(* (lpc18xx_43xx_emac.c:438-503, 743-793).  "Give first descriptor to DMA  *)
(* to start transfer" (line 507): the engine never runs out of descriptors *)
(* in the middle of a frame.                                               *)
RingConsistent ==
    /\ (Oldest + (N - free)) % N = NextFill
    /\ \A i \in Index \ InUse : ~own[i] /\ flags[i] = {}
    /\ \E k \in 0 .. N - free :
         /\ pos = (Oldest + k) % N
         /\ \A j \in 0 .. k - 1 : ~own[(Oldest + j) % N]
    /\ dma = "suspended" => sending = <<>>

(* A pbuf chain has one reference for the stack and one for each frame     *)
(* that is in the ring or being put there: it is freed when both are done  *)
(* with it, once, also when it was copied or is sent again while it is     *)
(* still in the ring (lpc18xx_43xx_emac.c:445-477, 777-780).  The engine   *)
(* never reads a buffer that was freed.                                    *)
Saved(f) == {i \in InUse : txpbufs[i] = f /\ ~(opc = "flag" /\ i = idx)}
NotYetSaved(f) ==
    /\ sendp = f
    /\ \/ opc \in {"wait", "lock", "fill"} /\ (f \in Copy \/ seg > 1)
       \/ opc = "flag"

RefsExact ==
    /\ \A f \in Sent :
         ref[f] = (IF f \in Frame /\ held[f] THEN 1 ELSE 0)
                  + (IF NotYetSaved(f) THEN 1 ELSE 0) + Cardinality(Saved(f))
    /\ \A i \in Index : own[i] => ref[addr[i][1]] > 0

(* The segments that the engine has been given, in its order.              *)
GivenCount == Cardinality({j \in Index : \A k \in 0 .. j : own[(pos + k) % N]})
Given == [j \in 1 .. GivenCount |-> addr[(pos + (j - 1)) % N]]

(* Frames leave whole, once and in the order of the calls; under way are   *)
(* at most the ring and what the engine has read of one frame              *)
(* (lpc18xx_43xx_emac.c:365-519).                                          *)
Link == INSTANCE FrameLink WITH Frame <- Sent, Limit <- 2 * N - 1,
                                queue <- sending \o Given
ImplementsLink == Link!LinkSpec

(* "THIS WILL BLOCK UNTIL THERE ARE ENOUGH DESCRIPTORS AVAILABLE"          *)
(* (lpc18xx_43xx_emac.c:421), and there will be enough.                    *)
OutputReturns == opc = "wait" ~> opc = "idle"

(* Every descriptor is reclaimed, when nothing more is sent as well.       *)
Reclaimed == \A i \in Index : i \in InUse ~> i \notin InUse
=============================================================================
