----------------------------- MODULE TrapReturn -----------------------------
(***************************************************************************)
(* Hart with two history variables that remember what a trap interrupted,  *)
(* so that a return can be compared with the trap it answers: nested traps *)
(* of the two levels, and the handler's own CSR writes, come in between.   *)
(***************************************************************************)
EXTENDS Hart

VARIABLES
    mSnap,   \* what the last trap into M interrupted, or None
    sSnap    \* what the last trap into S interrupted, or None

hvars == <<vars, mSnap, sSnap>>

None == [pc |-> -1]

\* The part of the state a return owes to the interrupted program.  The two
\* previous-state fields of the level that returns are the handler's.
View(handlerFields) ==
    [pc |-> pc, prv |-> prv, mstatus |-> mstatus \ handlerFields]
MView == View({MPIE, MPP_LO, MPP_HI})
SView == View({SPIE, SPP, MIE, MPIE, MPP_LO, MPP_HI})

TrapsToM == TrapToM(mcause')
TrapsToS == prv <= PRV_S /\ TrapToS(scause')

\* A step of the handler itself that writes the saved context (a CSR write):
\* from then on the return is no longer the hardware's promise.
Overwrites(saved) ==
    prv' = prv /\ ~TrapsToM /\ ~TrapsToS /\ saved' # saved
MSaved == <<mstatus, mepc>>
SSaved == <<mstatus \cap sstatus_mask, sepc>>

HInit == Init /\ mSnap = None /\ sSnap = None

HNext ==
    /\ Next
    /\ mSnap' = IF TrapsToM THEN MView
                ELSE IF (prv = PRV_M /\ Mret) \/ Overwrites(MSaved) THEN None
                ELSE mSnap
    /\ sSnap' = IF TrapsToS THEN SView
                ELSE IF (prv >= PRV_S /\ Sret) \/ Overwrites(SSaved) THEN None
                ELSE sSnap

HSpec == HInit /\ [][HNext]_hvars

\* A machine-level handler that writes none of its saved context is invisible
\* to what it interrupted: mret gives back pc, privilege, the interrupt
\* enables of both levels, MPRV, SUM and MXR, wherever the trap came from.
MachineTrapTransparent ==
    [][prv = PRV_M /\ Mret /\ mSnap # None => MView' = mSnap]_hvars

\* The same for a supervisor handler, even when machine-level traps and
\* returns interrupt it.
SupervisorTrapTransparent ==
    [][prv >= PRV_S /\ Sret /\ sSnap # None => SView' = sSnap]_hvars

=============================================================================
