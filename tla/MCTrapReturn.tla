---------------------------- MODULE MCTrapReturn ----------------------------
(* Instance of TrapReturn for TLC: two even addresses, so that a return to     *)
(* a wrong pc shows, and odd operands; the timer line, calls, and a load fault, *)
(* which may be delegated, give nested traps of both levels.                   *)
EXTENDS TrapReturn

RetMstatusOperands == {{MPRV}}
RetIntOperands == {{MTIP}}
RetMedelegOperands == {{13}}

=============================================================================
