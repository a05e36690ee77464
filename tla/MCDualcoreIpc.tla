--------------------------- MODULE MCDualcoreIpc ---------------------------
(***************************************************************************)
(* Instances of DualcoreIpc for TLC.  A queue has two slots and its        *)
(* counters wrap after two rounds.                                         *)
(***************************************************************************)
EXTENDS DualcoreIpc

CONSTANTS p1, p2, d0

(* One task of the M4 pushes, the dispatch task of the M0 pops, and the    *)
(* M0 sends bare notifications: every path of both calls and both handlers. *)
MC_Pusher == {p1}
MC_Popper == {d0}
MC_CoreOf == [t \in {p1, d0} |-> IF t = d0 THEN M0 ELSE M4]
MC_Prio == [t \in {p1, d0} |-> IF t = d0 THEN 3 ELSE 1]

(* The messages are numbered, modulo Wrap: twice as many numbers as a      *)
(* queue has slots, so that one lost, repeated or out of turn shows.       *)
MC_Msg == Counter
MC_Stream == [k \in Counter |-> {k}]

(* Two tasks of the M4 push, as the blinky task and the dispatch task do.  *)
Two_Pusher == {p1, p2}
Two_CoreOf == [t \in {p1, p2, d0} |-> IF t = d0 THEN M0 ELSE M4]
Two_Stream == [k \in Counter |-> {0, 1}]
Two_Prio == [t \in {p1, p2, d0} |-> IF t = p1 THEN 1 ELSE 3]
=============================================================================
