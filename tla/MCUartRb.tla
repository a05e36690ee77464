------------------------------ MODULE MCUartRb ------------------------------
(***************************************************************************)
(* An instance of UartRb for TLC: rings of two bytes, counters that wrap   *)
(* after two rounds, requests that may or may not find room for all.       *)
(***************************************************************************)
EXTENDS UartRb

(* The bytes of a stream are numbered, modulo Wrap: twice as many numbers  *)
(* as a ring has slots, so that a byte lost, repeated or out of turn shows.*)
MC_Byte == Counter
MC_Stream == [k \in Counter |-> {k}]
=============================================================================
