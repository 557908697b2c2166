------------------------------ MODULE MCClint -------------------------------
(* Instance of Clint and its history for TLC: half words of two bits, so that  *)
(* a deadline is a number of four bits, the sign bit is 8 and time runs from 0 *)
(* to 7.                                                                       *)
EXTENDS ClintStores
=============================================================================
