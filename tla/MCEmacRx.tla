------------------------------ MODULE MCEmacRx ------------------------------
(***************************************************************************)
(* An instance of EmacRx for TLC: the smallest ring the driver allows.     *)
(***************************************************************************)
EXTENDS EmacRx

CONSTANTS b1, b2, b3
=============================================================================
