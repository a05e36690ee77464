----------------------------- MODULE RingBuffer -----------------------------
(***************************************************************************)
(* The byte ring of lpc_chip (chip_common/ring_buffer.c) over the counter  *)
(* arithmetic of RingIndex.  InsertMult and PopMult move a run of items    *)
(* that may go past the end of the array: they cut it into a segment up to *)
(* the end and one from the start.                                         *)
(***************************************************************************)
EXTENDS RingIndex, Sequences

Least(m, n) == IF m <= n THEN m ELSE n

(* head += n and tail += n on a uint32_t; mutant: a counter that never     *)
(* wraps.                                                                  *)
AddNoWrap(i, n) == i + n
Add(i, n) == (i + n) % Wrap

(* RingBuffer_GetFree *)
GetFree(h, t) == Count - DataCount(h, t)

(* Of avail items from counter i on: how many lie before the end of the    *)
(* array.                                                                  *)
UpToEnd(i, avail) ==
    IF SlotOf(i) + avail >= Count THEN Count - SlotOf(i) ELSE avail

(* cnt1 and cnt2 for a request of num items *)
Cnt1(i, avail, num) == Least(UpToEnd(i, avail), num)
Cnt2(i, avail, num) == Least(avail - UpToEnd(i, avail), num - Cnt1(i, avail, num))

(* memcpy of the items s to, or of n items from, the slot of counter i *)
WriteSeg(sl, i, s) ==
    [k \in Slots |-> IF k - SlotOf(i) \in 0 .. Len(s) - 1
                       THEN s[(k - SlotOf(i)) + 1] ELSE sl[k]]
ReadSeg(sl, i, n) == [k \in 1 .. n |-> sl[(SlotOf(i) + k) - 1]]

(* What the ring holds, oldest first *)
Held(h, t, sl) == [k \in 1 .. DataCount(h, t) |-> sl[SlotOf((t + k) - 1)]]
=============================================================================
