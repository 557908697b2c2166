------------------------------ MODULE Machine -------------------------------
(***************************************************************************)
(* The main loop of the emulator (src/src/yariscvemu.c): a batch of        *)
(* instructions, the console, the clock check and the interrupt poll, one  *)
(* after the other in one thread.  It composes the hart (Hart) and the     *)
(* CLINT (Clint): a guest store to the device is one step of both, and the *)
(* lines MTIP and MSIP of the CLINT are bits of the hart's mip.            *)
(***************************************************************************)
EXTENDS Hart

CONSTANTS
    HalfMod, Data, TimeCap,   \* as in Clint
    Quantum                   \* instructions of a batch (50000 in the code)

ASSUME QuantumAssumption == Quantum \in Nat \ {0}
ASSUME ClintAssumption ==
    /\ HalfMod \in Nat \ {0} /\ Data \subseteq 0..(HalfMod - 1)
    /\ TimeCap \in Nat /\ TimeCap < (HalfMod * HalfMod) \div 2

VARIABLES
    mtimecmp, instr_cnt,      \* as in Clint
    phase,                    \* the call of the loop that is under way
    left                      \* the argument cycles of rv32_run, counted down

C == INSTANCE Clint WITH mtip <- MTIP \in mip, msip <- MSIP \in mip

loopvars == <<vars, mtimecmp, instr_cnt, phase, left>>

MTypeOK ==
    /\ TypeOK
    /\ C!TypeOK
    /\ phase \in {"rv32_run", "console_read", "clint_check_time",
                  "rv32_raise_interrupts", "exited"}
    /\ left \in 0..Quantum

-----------------------------------------------------------------------------
(* One iteration of rv32_run *)

\* Mutant: the count of cycles is tested too late.
Iteration_extra == phase = "rv32_run" /\ left' = left - 1 /\ UNCHANGED phase

Iteration == phase = "rv32_run" /\ left > 0 /\ left' = left - 1 /\ UNCHANGED phase

\* An instruction that does not touch the CLINT.
Execute == Iteration /\ LocalInstr /\ C!Tick /\ UNCHANGED mtimecmp

StoreToMsip ==
    \E d \in Data :
        /\ Iteration
        /\ IF d % 2 = 1 THEN StoreMsip ELSE Advance(4)
        /\ C!WriteMsip(d)

StoreToMtimecmp ==
    \E d \in Data :
        /\ Iteration
        /\ StoreMtimecmp
        /\ C!WriteMtimecmpLow(d) \/ C!WriteMtimecmpHigh(d)

\* A fetch that faults takes one of the cycles but no time.
FetchFails ==
    \E c \in FetchCauses : Iteration /\ FetchFault(c) /\ UNCHANGED <<mtimecmp, instr_cnt>>

-----------------------------------------------------------------------------
(* The rest of the loop *)

BatchEnds ==
    /\ phase = "rv32_run" /\ left = 0
    /\ phase' = "console_read"
    /\ UNCHANGED <<vars, mtimecmp, instr_cnt, left>>

\* Ctrl-A x on the host's keyboard ends the process here.
console_read ==
    /\ phase = "console_read"
    /\ phase' \in {"clint_check_time", "exited"}
    /\ UNCHANGED <<vars, mtimecmp, instr_cnt, left>>

\* Mutants: the deadline is not compared; it is compared only while the
\* interrupt is enabled.
clint_check_time_always ==
    /\ phase = "clint_check_time"
    /\ TimerExpires
    /\ phase' = "rv32_raise_interrupts"
    /\ UNCHANGED <<mtimecmp, instr_cnt, left>>
clint_check_time_enabled ==
    /\ phase = "clint_check_time"
    /\ IF MTIP \in mie \ mip /\ C!Expired THEN TimerExpires ELSE UNCHANGED vars
    /\ phase' = "rv32_raise_interrupts"
    /\ UNCHANGED <<mtimecmp, instr_cnt, left>>

clint_check_time ==
    /\ phase = "clint_check_time"
    /\ IF MTIP \notin mip /\ C!Expired THEN TimerExpires ELSE UNCHANGED vars
    /\ phase' = "rv32_raise_interrupts"
    /\ UNCHANGED <<mtimecmp, instr_cnt, left>>

\* Mutant: a pending timer interrupt is taken without a look at the enables.
Poll_ungated ==
    /\ phase = "rv32_raise_interrupts"
    /\ IF MTIP \notin mip THEN UNCHANGED vars ELSE raise_exception(IRQ + MTIP)
    /\ phase' = "rv32_run" /\ left' = Quantum
    /\ UNCHANGED <<mtimecmp, instr_cnt>>

Poll ==
    /\ phase = "rv32_raise_interrupts"
    /\ IF en_ints = {} THEN UNCHANGED vars ELSE rv32_raise_interrupts
    /\ phase' = "rv32_run" /\ left' = Quantum
    /\ UNCHANGED <<mtimecmp, instr_cnt>>

-----------------------------------------------------------------------------
MInit ==
    /\ Init
    /\ mtimecmp = 0 /\ instr_cnt = 0
    /\ phase = "rv32_run" /\ left = Quantum

MNext ==
    \/ Execute
    \/ StoreToMsip
    \/ StoreToMtimecmp
    \/ FetchFails
    \/ BatchEnds
    \/ console_read
    \/ clint_check_time
    \/ Poll

\* One thread, no blocking call: while the process lives it takes steps.
LoopRuns == WF_loopvars(MNext)

MSpec == MInit /\ [][MNext]_loopvars /\ LoopRuns

-----------------------------------------------------------------------------
(* Properties *)

\* The loop refines the hart and the CLINT as their modules specify them:
\* each store to the device is a step of both, the two never disagree about
\* the lines they share, and nothing else in the loop touches either.
HartSpec == Spec
ClintSpec == C!Spec

\* Every deadline that passes is noticed: whatever the guest executes, the
\* line is raised, unless the guest moves the deadline away or the user quits.
\* The line is only raised by a check between two batches.
DeadlineNoticed ==
    mtimecmp < instr_cnt ~>
        MTIP \in mip \/ mtimecmp >= instr_cnt \/ phase = "exited"

\* The poll finds a delegated interrupt, which it prefers to a machine-level one.
PollPrefersSupervisor == phase = "rv32_raise_interrupts" /\ en_ints \cap SupervisorInts # {}

\* An enabled machine timer interrupt reaches the firmware: the guest cannot
\* stay in S or U for ever with the line raised, unless at some poll a
\* supervisor interrupt is ready, which the code takes first.
TimerReachesFirmware ==
    prv < PRV_M /\ prv # 2 /\ MTIP \in mie \cap mip ~>
        \/ prv = PRV_M
        \/ MTIP \notin mip
        \/ PollPrefersSupervisor
        \/ phase = "exited"

=============================================================================
