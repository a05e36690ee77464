------------------------------- MODULE MCI2c -------------------------------
(* Small instances of I2c for TLC.                                         *)
EXTENDS I2c

const_Slaves == {0, 1}
const_General == 0
const_AddressOnly == {"address"}
const_Anywhere == {"address", "data"}
=============================================================================
