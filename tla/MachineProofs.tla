--------------------------- MODULE MachineProofs ----------------------------
(***************************************************************************)
(* The main loop implements the hart and the CLINT, for every size of a    *)
(* batch and every guest; what is proved of the two specifications then    *)
(* holds of the emulator.                                                  *)
(***************************************************************************)
EXTENDS Machine, HartProofs

-----------------------------------------------------------------------------
(* The hart *)

LEMMA StepIsHart == ASSUME [MNext]_loopvars PROVE [Next]_vars
<1>1. CASE UNCHANGED loopvars
    BY <1>1 DEF loopvars
<1>2. CASE Execute
    BY <1>2 DEF Execute, Next
<1>3. CASE StoreToMsip
    <2>1. StoreMsip \/ Advance(4)
        BY <1>3 DEF StoreToMsip
    <2> QED BY <2>1 DEF Next, LocalInstr
<1>4. CASE StoreToMtimecmp
    BY <1>4 DEF StoreToMtimecmp, Next
<1>5. CASE FetchFails
    BY <1>5 DEF FetchFails, Next
<1>6. CASE BatchEnds \/ console_read
    BY <1>6 DEF BatchEnds, console_read
<1>7. CASE clint_check_time
    BY <1>7 DEF clint_check_time, Next
<1>8. CASE Poll
    BY <1>8 DEF Poll, Next
<1> QED BY <1>1, <1>2, <1>3, <1>4, <1>5, <1>6, <1>7, <1>8 DEF MNext

\* Every step of the loop is a step of the hart or leaves it alone.
THEOREM LoopImplementsHart == MSpec => HartSpec
<1>1. MInit => Init
    BY DEF MInit
<1>2. [MNext]_loopvars => [Next]_vars
    BY StepIsHart
<1> QED BY <1>1, <1>2, PTL DEF MSpec, HartSpec, Spec

-----------------------------------------------------------------------------
(* The CLINT *)

\* Firmware does not raise MTIP itself, by a write of mip.
MtipIsTheClints == \A x \in MipOperands : MTIP \notin x

\* No CSR instruction sets a bit of mip that neither mip nor its operand has.
LEMMA CsrKeepsMtip ==
    ASSUME MtipIsTheClints, Csr, MTIP \in mip' PROVE MTIP \in mip
<1>1. CASE Illegal
    BY <1>1 DEF Illegal, raise_exception
<1>2. ASSUME NEW csr \in BitCsrs, NEW op \in CsrOps, NEW x \in BitOperands(csr),
             CsrBits(csr, op, x), ~Illegal
      PROVE  MTIP \in mip
    <2>1. CASE UNCHANGED mip
        BY <2>1
    <2>2. CASE csr_write(csr, Combine(op, csr_read(csr), x)) /\ ~UNCHANGED mip
        <3>1. csr \in {"sip", "mip"}
            BY <2>2 DEF csr_write
        <3>2. MTIP \notin x
            BY <3>1 DEF BitOperands, MtipIsTheClints
        <3>3. csr_read(csr) \subseteq mip
            BY <3>1 DEF csr_read
        <3>4. MTIP \in Combine(op, csr_read(csr), x) => MTIP \in mip
            BY <3>2, <3>3 DEF Combine, CsrOps
        <3> QED BY <2>2, <3>1, <3>4 DEF csr_write
    <2> QED BY <1>2, <2>1, <2>2 DEF CsrBits
<1>3. ASSUME NEW csr \in AddrCsrs, NEW a \in Operands, CsrAddr(csr, a), ~Illegal
      PROVE  MTIP \in mip
    BY <1>3 DEF CsrAddr
<1>4. ASSUME NEW csr \in CauseCsrs, CsrCause(csr), ~Illegal PROVE MTIP \in mip
    BY <1>4 DEF CsrCause
<1> QED BY <1>1, <1>2, <1>3, <1>4 DEF Csr

LEMMA LocalKeepsMtip ==
    ASSUME MtipIsTheClints, LocalInstr, MTIP \in mip' PROVE MTIP \in mip
<1>1. CASE Csr
    BY <1>1, CsrKeepsMtip
<1>2. CASE UNCHANGED mip
    BY <1>2
<1>3. ASSUME NEW cause, raise_exception(cause) PROVE UNCHANGED mip
    BY <1>3 DEF raise_exception
<1>4. ASSUME NEW len \in {2, 4}, Advance(len) PROVE UNCHANGED mip
    BY <1>4 DEF Advance, pcOnly
<1>5. ASSUME NEW a \in Operands, JumpRelative(a) \/ JumpRegister(a) PROVE UNCHANGED mip
    BY <1>5 DEF JumpRelative, JumpRegister, pcOnly
<1>6. ASSUME NEW c \in ExecCauses, ExecFault(c) PROVE UNCHANGED mip
    BY <1>3, <1>6 DEF ExecFault
<1>7. CASE Ecall \/ Mret \/ Sret
    BY <1>2, <1>3, <1>7 DEF Ecall, Mret, Sret, Illegal, handle_mret, handle_sret
<1>8. CASE Wfi
    BY <1>2, <1>3, <1>4, <1>8 DEF Wfi, Illegal
<1> QED BY <1>1, <1>2, <1>4, <1>5, <1>6, <1>7, <1>8 DEF LocalInstr

LEMMA StepIsClint ==
    ASSUME MtipIsTheClints, [MNext]_loopvars PROVE [C!Next]_(C!cvars)
<1>1. CASE UNCHANGED <<mip, mtimecmp, instr_cnt>>
    BY <1>1 DEF C!cvars
<1>2. MSIP # MTIP
    BY DEF MSIP, MTIP
<1>3. CASE Execute
    <2>1. MTIP \in mip' => MTIP \in mip
        BY <1>3, LocalKeepsMtip DEF Execute
    <2>2. C!Tick /\ UNCHANGED mtimecmp
        BY <1>3 DEF Execute
    <2>3. C!OtherInstr
        BY <2>1, <2>2 DEF C!OtherInstr
    <2> QED BY <2>3 DEF C!Next
<1>4. CASE StoreToMsip
    <2>1. PICK d \in Data :
            /\ IF d % 2 = 1 THEN StoreMsip ELSE Advance(4)
            /\ C!WriteMsip(d)
        BY <1>4 DEF StoreToMsip
    <2> QED BY <2>1 DEF C!Next
<1>5. CASE StoreToMtimecmp
    BY <1>5 DEF StoreToMtimecmp, C!Next
<1>6. CASE FetchFails
    BY <1>1, <1>6 DEF FetchFails, FetchFault, raise_exception
<1>7. CASE BatchEnds \/ console_read
    BY <1>1, <1>7 DEF BatchEnds, console_read, vars
<1>8. CASE clint_check_time
    <2>1. CASE MTIP \notin mip /\ C!Expired
        <3>1. mip' = mip \cup {MTIP} /\ UNCHANGED <<mtimecmp, instr_cnt>>
            BY <1>8, <2>1 DEF clint_check_time, TimerExpires, rv32_set_mip
        <3>2. C!clint_check_time
            BY <1>2, <2>1, <3>1 DEF C!clint_check_time
        <3> QED BY <3>2 DEF C!Next
    <2>2. CASE ~(MTIP \notin mip /\ C!Expired)
        BY <1>1, <1>8, <2>2 DEF clint_check_time, vars
    <2> QED BY <2>1, <2>2
<1>9. CASE Poll
    BY <1>1, <1>9 DEF Poll, rv32_raise_interrupts, raise_exception, vars
<1>10. CASE UNCHANGED loopvars
    BY <1>1, <1>10 DEF loopvars, vars
<1> QED BY <1>3, <1>4, <1>5, <1>6, <1>7, <1>8, <1>9, <1>10 DEF MNext

\* Every step of the loop is a step of the CLINT or leaves it alone: its two
\* bits of mip are changed by nothing but its own handlers, its check and the
\* firmware's clearing of them.
THEOREM LoopImplementsClint == MtipIsTheClints => (MSpec => ClintSpec)
<1>1. MInit => C!Init
    BY DEF MInit, Init, C!Init
<1>2. MtipIsTheClints /\ [MNext]_loopvars => [C!Next]_(C!cvars)
    BY StepIsClint
<1>3. SUFFICES ASSUME MtipIsTheClints PROVE MSpec => ClintSpec
    OBVIOUS
<1>4. [MNext]_loopvars => [C!Next]_(C!cvars)
    BY <1>2, <1>3
<1> QED BY <1>1, <1>4, PTL DEF MSpec, ClintSpec, C!Spec

-----------------------------------------------------------------------------
(* Types of the whole *)

LEMMA DoubleOf ==
    ASSUME NEW H \in Nat \ {0}, NEW l \in 0..(H - 1), NEW h \in 0..(H - 1)
    PROVE  l + h * H \in 0..(H * H - 1)
<1>1. h * H <= (H - 1) * H /\ (H - 1) * H = H * H - H
    OBVIOUS
<1>2. h * H >= 0 /\ h * H \in Int
    OBVIOUS
<1> QED BY <1>1, <1>2

LEMMA StoredDeadline ==
    ASSUME mtimecmp \in Nat, NEW d \in Data, C!WriteMtimecmpLow(d) \/ C!WriteMtimecmpHigh(d)
    PROVE  mtimecmp' \in 0..(HalfMod * HalfMod - 1)
<1>1. HalfMod \in Nat \ {0} /\ d \in 0..(HalfMod - 1) /\ 0 \in 0..(HalfMod - 1)
    BY ClintAssumption
<1>2. mtimecmp % HalfMod \in 0..(HalfMod - 1)
    BY <1>1
<1>3. d + 0 * HalfMod = d
    BY <1>1
<1>4. CASE C!WriteMtimecmpLow(d)
    BY <1>1, <1>3, <1>4, DoubleOf DEF C!WriteMtimecmpLow
<1>5. CASE C!WriteMtimecmpHigh(d)
    BY <1>1, <1>2, <1>5, DoubleOf DEF C!WriteMtimecmpHigh
<1> QED BY <1>4, <1>5

\* The part of MTypeOK that is not the hart's.
LoopType ==
    /\ mtimecmp \in 0..(HalfMod * HalfMod - 1)
    /\ instr_cnt \in 0..TimeCap
    /\ phase \in {"rv32_run", "console_read", "clint_check_time",
                  "rv32_raise_interrupts", "exited"}
    /\ left \in 0..Quantum

LEMMA LoopTypeStep ==
    ASSUME LoopType, [MNext]_loopvars
    PROVE  LoopType'
<1>1. HalfMod \in Nat \ {0} /\ TimeCap \in Nat /\ Quantum \in Nat
    BY ClintAssumption, QuantumAssumption
<1>2. mtimecmp \in Nat
    BY <1>1 DEF LoopType
<1>3. C!Tick => instr_cnt' \in 0..TimeCap
    BY <1>1 DEF C!Tick, LoopType
<1>4. Iteration => phase' = phase /\ left' \in 0..Quantum
    BY <1>1 DEF Iteration, LoopType
<1>5. CASE Execute
    BY <1>3, <1>4, <1>5 DEF Execute, LoopType
<1>6. CASE StoreToMsip
    BY <1>3, <1>4, <1>6 DEF StoreToMsip, C!WriteMsip, LoopType
<1>7. CASE StoreToMtimecmp
    <2>1. PICK d \in Data : Iteration /\ (C!WriteMtimecmpLow(d) \/ C!WriteMtimecmpHigh(d))
        BY <1>7 DEF StoreToMtimecmp
    <2>2. C!Tick
        BY <2>1 DEF C!WriteMtimecmpLow, C!WriteMtimecmpHigh
    <2> QED BY <1>2, <1>3, <1>4, <2>1, <2>2, StoredDeadline DEF LoopType
<1>8. CASE FetchFails
    BY <1>4, <1>8 DEF FetchFails, LoopType
<1>9. CASE BatchEnds \/ console_read
    BY <1>9 DEF BatchEnds, console_read, LoopType
<1>10. CASE clint_check_time
    BY <1>10 DEF clint_check_time, LoopType
<1>11. CASE Poll
    BY <1>1, <1>11 DEF Poll, LoopType
<1>12. CASE UNCHANGED loopvars
    BY <1>12 DEF loopvars, LoopType
<1> QED BY <1>5, <1>6, <1>7, <1>8, <1>9, <1>10, <1>11, <1>12 DEF MNext

\* A batch never runs more instructions than its quantum, and the hart and the
\* device keep their widths through every interleaving of the loop's calls.
THEOREM MachineTyped == MSpec => []MTypeOK
<1>1. MInit => LoopType
    <2> SUFFICES ASSUME MInit
                 PROVE  LoopType
        OBVIOUS
    <2>1. HalfMod \in Nat \ {0} /\ 0 \in 0..TimeCap /\ Quantum \in 0..Quantum
        BY ClintAssumption, QuantumAssumption
    <2>2. 0 + 0 * HalfMod = 0 /\ 0 \in 0..(HalfMod - 1)
        BY <2>1
    <2>3. 0 \in 0..(HalfMod * HalfMod - 1)
        BY <2>1, <2>2, DoubleOf
    <2> QED BY <2>1, <2>3 DEF MInit, LoopType
<1>2. LoopType /\ TypeOK => MTypeOK
    <2> SUFFICES ASSUME LoopType, TypeOK
                 PROVE  MTypeOK
        OBVIOUS
    <2>1. (MTIP \in mip) \in BOOLEAN /\ (MSIP \in mip) \in BOOLEAN
        OBVIOUS
    <2>2. C!TypeOK
        BY <2>1 DEF LoopType, C!TypeOK, C!DoubleMod
    <2> QED BY <2>2 DEF LoopType, MTypeOK
<1>3. MSpec => []TypeOK
    BY LoopImplementsHart, TypeCorrect, PTL DEF HartSpec
<1> QED BY <1>1, <1>2, <1>3, LoopTypeStep, PTL DEF MSpec
==============================================================================
