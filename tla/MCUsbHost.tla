----------------------------- MODULE MCUsbHost -----------------------------
(***************************************************************************)
(* An instance of UsbHost for TLC.  The pool holds two control buffers and *)
(* the one of the interrupt pipe, whose size is not a multiple of four,    *)
(* and there is one queue head more than control buffers: as in the        *)
(* library, buffers run out first.                                         *)
(***************************************************************************)
EXTENDS UsbHost
=============================================================================
