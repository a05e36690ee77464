--------------------------- MODULE FrameDelivery ---------------------------
(***************************************************************************)
(* What the receive side of the Ethernet driver promises lwIP: the frames  *)
(* that came in, each in a pbuf, are handed over one at a time, in the     *)
(* order in which they came, and those with an error never.                *)
(***************************************************************************)
EXTENDS Naturals, Sequences

CONSTANTS
    Pbuf, None,
    Limit       \* how many frames may be waiting

VARIABLES
    waiting,    \* the frames that came in and were not handed over
    hand        \* the pbuf that is being handed over

fvars == <<waiting, hand>>

Frame == [buf : Pbuf, bad : BOOLEAN]

DeliveryInit == waiting = <<>> /\ hand = None

Arrive(f) ==
    /\ Len(waiting) < Limit
    /\ \A k \in 1 .. Len(waiting) : waiting[k].buf # f.buf
    /\ hand # f.buf
    /\ waiting' = Append(waiting, f)
    /\ UNCHANGED hand

HandOver ==
    /\ waiting # <<>> /\ ~Head(waiting).bad
    /\ hand = None
    /\ hand' = Head(waiting).buf
    /\ waiting' = Tail(waiting)

Drop ==
    /\ waiting # <<>> /\ Head(waiting).bad
    /\ waiting' = Tail(waiting)
    /\ UNCHANGED hand

Done ==
    /\ hand # None
    /\ hand' = None
    /\ UNCHANGED waiting

DeliveryNext == HandOver \/ Drop \/ Done \/ \E f \in Frame : Arrive(f)

DeliverySpec == DeliveryInit /\ [][DeliveryNext]_fvars
=============================================================================
