------------------------------ MODULE MCConsole ------------------------------
(* Instance of Console and its history for TLC: a ring of two places, so that  *)
(* five typed characters overflow it twice.                                    *)
EXTENDS ConsoleHistory
==============================================================================
