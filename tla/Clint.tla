------------------------------- MODULE Clint --------------------------------
(***************************************************************************)
(* The CLINT (src/src/clint.c): the 64-bit timer comparator, written as    *)
(* two 32-bit halves, the software-interrupt register, and the check that  *)
(* the main loop runs between two batches of instructions.  Time is the    *)
(* number of executed instructions (rv32_get_instr_cnt).                   *)
(*                                                                         *)
(* A half word has HalfMod values (2^32 in the code), a double word        *)
(* HalfMod * HalfMod.                                                      *)
(***************************************************************************)
EXTENDS Integers

CONSTANTS
    HalfMod,   \* values of a 32-bit register
    Data,      \* values the guest stores to the device
    TimeCap    \* bound: the instruction count saturates here

DoubleMod == HalfMod * HalfMod
SignBit == DoubleMod \div 2

\* 2^63 instructions are never executed: time stays below the sign bit.
ASSUME HalfModAssumption == HalfMod \in Nat \ {0} /\ HalfMod % 2 = 0
ASSUME DataAssumption == Data \subseteq 0..(HalfMod - 1)
ASSUME TimeCapAssumption == TimeCap \in Nat /\ TimeCap < SignBit

VARIABLES
    mtimecmp,    \* the comparator
    instr_cnt,   \* s.instr_cnt, the clock
    mtip, msip   \* the MTIP and MSIP bits of mip

cvars == <<mtimecmp, instr_cnt, mtip, msip>>

TypeOK ==
    /\ mtimecmp \in 0..(DoubleMod - 1)
    /\ instr_cnt \in 0..TimeCap
    /\ mtip \in BOOLEAN /\ msip \in BOOLEAN

-----------------------------------------------------------------------------
\* Every executed instruction advances the clock, the storing one included.
Tick == instr_cnt' = IF instr_cnt < TimeCap THEN instr_cnt + 1 ELSE TimeCap

\* delay is a signed long: the difference of two unsigned double words is
\* read as a two's complement number.
Delay == (mtimecmp - instr_cnt) % DoubleMod
Expired == Delay >= SignBit

\* Mutant: the store does not withdraw the pending interrupt.
WriteMtimecmpLow_pending(d) == mtimecmp' = d /\ Tick /\ UNCHANGED <<mtip, msip>>

\* mtimecmp & ~0xffffffff: the mask is an unsigned int, so its complement is
\* 0 and nothing of the old value is kept.
WriteMtimecmpLow(d) ==
    /\ mtimecmp' = d
    /\ mtip' = FALSE
    /\ Tick
    /\ UNCHANGED msip

\* Mutants: the old high half is not masked out; the low half is lost.
WriteMtimecmpHigh_added(d) ==
    /\ mtimecmp' = mtimecmp + d * HalfMod
    /\ mtip' = FALSE
    /\ Tick
    /\ UNCHANGED msip
WriteMtimecmpHigh_alone(d) ==
    /\ mtimecmp' = d * HalfMod
    /\ mtip' = FALSE
    /\ Tick
    /\ UNCHANGED msip

WriteMtimecmpHigh(d) ==
    /\ mtimecmp' = (mtimecmp % HalfMod) + d * HalfMod
    /\ mtip' = FALSE
    /\ Tick
    /\ UNCHANGED msip

\* Bit 0 of the data raises MSIP; a clear bit does nothing.
WriteMsip(d) ==
    /\ msip' = (msip \/ d % 2 = 1)
    /\ Tick
    /\ UNCHANGED <<mtimecmp, mtip>>

\* Any other instruction, reads of the device included; a CSR write of mip may
\* clear the pending bits.  (Firmware does not set MTIP through mip.)
OtherInstr ==
    /\ mtip' \in BOOLEAN /\ (mtip' => mtip)
    /\ msip' \in BOOLEAN
    /\ Tick
    /\ UNCHANGED mtimecmp

clint_check_time ==
    /\ mtip' = (mtip \/ Expired)
    /\ UNCHANGED <<mtimecmp, instr_cnt, msip>>

Init ==
    /\ mtimecmp = 0 /\ instr_cnt = 0
    /\ mtip = FALSE /\ msip = FALSE

Next ==
    \/ \E d \in Data : WriteMtimecmpLow(d) \/ WriteMtimecmpHigh(d) \/ WriteMsip(d)
    \/ OtherInstr
    \/ clint_check_time

Spec == Init /\ [][Next]_cvars

-----------------------------------------------------------------------------
(* Properties *)

\* A pending timer interrupt has a reason: the deadline passed, or the signed
\* comparison of clint_check_time took a deadline in the upper half of the
\* range for a passed one.  MTIP is set only at a check and must be withdrawn
\* by every later change of the deadline.
PendingHasReason == mtip => mtimecmp < instr_cnt \/ mtimecmp >= SignBit

=============================================================================
