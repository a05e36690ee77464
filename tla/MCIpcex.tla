------------------------------ MODULE MCIpcex ------------------------------
(***************************************************************************)
(* Instances of Ipcex for TLC.  Each core has a setter with a variable of  *)
(* its own.                                                                *)
(***************************************************************************)
EXTENDS Ipcex

CONSTANTS s4, s0, b1, b2, b3, b4

MC_SetterCore == [t \in {s4, s0} |-> IF t = s4 THEN M4 ELSE M0]
MC_SetterOf == <<s4, s0>>

(* Three blocks in the heap of the M4 and one in the heap of the M0.       *)
MC_HeapOf == [b \in {b1, b2, b3, b4} |-> IF b = b4 THEN M0 ELSE M4]

(* An RTOS build in which the M4 has more blocks than a queue holds, so    *)
(* that the M0 can find its queue full of blocks it returned; an RTOS and  *)
(* a stand-alone build in which the M4 sets and blinks; and a stand-alone  *)
(* build in which both cores set.                                          *)
MC_Builds ==
    {[rtos |-> TRUE, setters |-> {s4}, blinkers |-> {}, heap |-> {b1, b2, b3}],
     [rtos |-> TRUE, setters |-> {s4}, blinkers |-> {M4}, heap |-> {b1, b2}],
     [rtos |-> FALSE, setters |-> {s4}, blinkers |-> {M4}, heap |-> {b1, b2}],
     [rtos |-> FALSE, setters |-> {s4, s0}, blinkers |-> {}, heap |-> {b1, b2, b4}]}

(* Both cores set variables, with heaps that can fill both queues.         *)
Both_HeapOf == [b \in {b1, b2, b3, b4} |-> IF b \in {b3, b4} THEN M0 ELSE M4]
Both_Builds ==
    {[rtos |-> TRUE, setters |-> {s4, s0}, blinkers |-> {}, heap |-> {b1, b2, b3, b4}]}
=============================================================================
