------------------------------ MODULE MCMachine ------------------------------
(* Instance of Machine for TLC: a guest that enables the timer and a delegable *)
(* software interrupt, and moves between the three privileges.                  *)
EXTENDS Machine

LoopMstatusOperands == {{MPP_LO}}
LoopIntOperands == {{MTIP, SSIP}}
LoopMipOperands == {{SSIP}}
==============================================================================
