------------------------------ MODULE MCEmacTx ------------------------------
(***************************************************************************)
(* Instances of EmacTx for TLC: a frame of two pbufs and a copied frame,   *)
(* which has one, in a ring of three descriptors; and a frame that fills a *)
(* ring of two.                                                            *)
(***************************************************************************)
EXTENDS EmacTx

CONSTANTS f2, c1

MC_Chain == [f \in {f2, c1} |-> IF f = f2 THEN 2 ELSE 1]

Full_Chain == [f \in {f2} |-> 2]
=============================================================================
