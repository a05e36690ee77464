----------------------------- MODULE RingIndex -----------------------------
(***************************************************************************)
(* The arithmetic of a circular queue indexed by two free-running          *)
(* unsigned counters: the writer advances head, the reader advances tail,  *)
(* neither is ever reduced modulo the queue size, and both wrap at the     *)
(* width of the machine word.  struct ipc_queue of the dual-core examples  *)
(* is such a queue.                                                        *)
(*                                                                         *)
(* Count is the number of slots and Wrap the number of values of a         *)
(* counter: 2^32 in the code, a small multiple of Count for TLC.           *)
(* IPC_initMsgQueue halts unless Count is a power of two that fits an int, *)
(* which is where "Count divides Wrap, at least twice" comes from.         *)
(***************************************************************************)
EXTENDS Integers

CONSTANTS Count, Wrap

ASSUME RingAssumption ==
    /\ Count \in Nat \ {0}
    /\ Wrap \in Nat
    /\ Wrap % Count = 0 /\ Wrap >= 2 * Count

Counter == 0 .. Wrap - 1
Slots == 0 .. Count - 1

(* Mutants, each an error that the checks must find: a counter that does   *)
(* not wrap, a test for full that is one too late, a test for empty that   *)
(* is one too early.                                                       *)
IncrNoWrap(i) == i + 1
IsFullLate(h, t) == (h - t) % Wrap > Count
IsEmptyEarly(h, t) == (h - t) % Wrap <= 1

(* head++ and tail++ on a uint32_t *)
Incr(i) == (i + 1) % Wrap

(* QUEUE_DATA_COUNT: the unsigned difference of the two counters *)
DataCount(h, t) == (h - t) % Wrap

IsFull(h, t) == DataCount(h, t) >= Count
IsEmpty(h, t) == h = t

(* h & (count - 1), for a count that is a power of two *)
SlotOf(i) == i % Count
=============================================================================
