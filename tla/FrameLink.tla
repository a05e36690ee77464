----------------------------- MODULE FrameLink -----------------------------
(***************************************************************************)
(* What the transmit side of the Ethernet driver promises lwIP: a frame    *)
(* that was accepted goes out whole, once, and after the frames accepted   *)
(* before it.                                                              *)
(***************************************************************************)
EXTENDS Naturals, Sequences

CONSTANTS
    Frame,      \* the frames
    Chain,      \* Chain[f]: the number of segments of frame f
    Limit       \* how many segments may be under way

VARIABLES
    queue,      \* the segments of the frames that were accepted and not sent
    wire        \* the segments of the frame that was sent last

lvars == <<queue, wire>>

Segments(f) == [k \in 1 .. Chain[f] |-> <<f, k>>]

LinkInit == queue = <<>> /\ wire = <<>>

Accept(f) ==
    /\ Len(queue) + Chain[f] <= Limit
    /\ queue' = queue \o Segments(f)
    /\ UNCHANGED wire

(* The frame whose segments the queue begins with leaves it.               *)
Transmit(f) ==
    /\ queue = Segments(f) \o queue'
    /\ wire' = Segments(f)

LinkNext == \E f \in Frame : Transmit(f) \/ Accept(f)

LinkSpec == LinkInit /\ [][LinkNext]_lvars
=============================================================================
