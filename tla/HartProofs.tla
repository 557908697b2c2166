----------------------------- MODULE HartProofs ------------------------------
(***************************************************************************)
(* Theorems about the hart, for every address width and every choice of    *)
(* operands, lines and causes.                                             *)
(***************************************************************************)
EXTENDS TrapReturn, TLAPS

-----------------------------------------------------------------------------
(* Operators *)

LEMMA ModInAddr == ASSUME NEW x \in Int PROVE x % AddrMod \in Addr
BY AddrModAssumption DEF Addr

LEMMA VectorInAddr ==
    ASSUME NEW tvec \in Tvec, NEW cause \in Cause
    PROVE  Vector(tvec, cause) \in Addr
<1>1. tvec.base \in Int /\ cause % IRQ \in Int
    BY AddrModAssumption DEF Tvec, Addr, Cause, IRQ
<1>2. tvec.base + (IF tvec.vectored /\ cause >= IRQ THEN 4 * (cause % IRQ) ELSE 0) \in Int
    BY <1>1
<1> QED BY <1>2, ModInAddr DEF Vector

LEMMA ClearBit0InAddr == ASSUME NEW a \in Addr PROVE ClearBit0(a) \in Addr
BY AddrModAssumption DEF ClearBit0, Addr

LEMMA TvecOfInTvec == ASSUME NEW a \in Addr PROVE TvecOf(a) \in Tvec
<1>1. a - (a % 4) \in Addr
    BY AddrModAssumption DEF Addr
<1> QED BY <1>1 DEF TvecOf, Tvec

-----------------------------------------------------------------------------
(* Trap entry and return keep the types *)

LEMMA TrapToSType ==
    ASSUME TypeOK, NEW cause \in Cause, TrapToS(cause), UNCHANGED <<mvars, mip, stvec>>
    PROVE  TypeOK'
<1>1. mstatus' \subseteq mstatus_mask
    BY DEF TypeOK, TrapToS, Put, mstatus_mask, SPIE, SIE, SPP
<1>2. pc' \in Addr
    BY VectorInAddr DEF TypeOK, TrapToS
<1>3. prv' \in 0..3 /\ scause' = cause /\ sepc' = pc /\ UNCHANGED <<mcause, mepc>>
    BY DEF TrapToS, PRV_S
<1> QED BY <1>1, <1>2, <1>3 DEF TypeOK, mvars

LEMMA TrapToMType ==
    ASSUME TypeOK, NEW cause \in Cause, TrapToM(cause), UNCHANGED <<mvars, mip, stvec>>
    PROVE  TypeOK'
<1>1. mstatus' \subseteq mstatus_mask
    BY DEF TypeOK, TrapToM, Put, PutMpp, mstatus_mask, MPIE, MIE, MPP_LO, MPP_HI
<1>2. pc' \in Addr
    BY VectorInAddr DEF TypeOK, TrapToM
<1>3. prv' \in 0..3 /\ mcause' = cause /\ mepc' = pc /\ UNCHANGED <<scause, sepc>>
    BY DEF TrapToM, PRV_M
<1> QED BY <1>1, <1>2, <1>3 DEF TypeOK, mvars

LEMMA RaiseType ==
    ASSUME TypeOK, NEW cause \in Cause, raise_exception(cause)
    PROVE  TypeOK'
BY TrapToSType, TrapToMType DEF raise_exception

LEMMA IllegalType == ASSUME TypeOK, Illegal PROVE TypeOK'
BY RaiseType DEF Illegal, ILLEGAL_INSTRUCTION, Cause, IRQ

LEMMA MretType == ASSUME TypeOK, handle_mret PROVE TypeOK'
<1>1. mstatus' \subseteq mstatus_mask
    BY DEF TypeOK, handle_mret, Put, PutMpp, mstatus_mask, MPIE, MIE, MPP_LO, MPP_HI
<1>2. prv' \in 0..3
    BY DEF handle_mret, Mpp
<1>3. pc' = mepc /\ UNCHANGED <<mvars, mip, mepc, sepc, stvec, mcause, scause>>
    BY DEF handle_mret
<1> QED BY <1>1, <1>2, <1>3 DEF TypeOK, mvars

LEMMA SretType == ASSUME TypeOK, handle_sret PROVE TypeOK'
<1>1. mstatus' \subseteq mstatus_mask
    BY DEF TypeOK, handle_sret, Put, mstatus_mask, SPIE, SIE, SPP
<1>2. prv' \in 0..3
    BY DEF handle_sret, Spp, PRV_S, PRV_U
<1>3. pc' = sepc /\ UNCHANGED <<mvars, mip, mepc, sepc, stvec, mcause, scause>>
    BY DEF handle_sret
<1> QED BY <1>1, <1>2, <1>3 DEF TypeOK, mvars

-----------------------------------------------------------------------------
(* Instructions keep the types *)

LEMMA AdvanceType ==
    ASSUME TypeOK, NEW len \in Int, Advance(len) PROVE TypeOK'
<1>1. pc' \in Addr
    <2>1. pc + len \in Int
        BY AddrModAssumption DEF TypeOK, Addr
    <2> QED BY <2>1, ModInAddr DEF Advance, Next_pc
<1> QED BY <1>1 DEF TypeOK, Advance, pcOnly

LEMMA JumpType ==
    ASSUME TypeOK, NEW a \in Operands, JumpRelative(a) \/ JumpRegister(a)
    PROVE  TypeOK'
<1>1. a \in Addr /\ a \in Int /\ pc \in Int
    BY OperandsAssumption, AddrModAssumption DEF Addr, TypeOK
<1>2. pc' \in Addr
    <2>1. CASE JumpRelative(a)
        <3>1. pc + 2 * a \in Int
            BY <1>1
        <3> QED BY <2>1, <3>1, ModInAddr DEF JumpRelative
    <2>2. CASE JumpRegister(a)
        BY <2>2, <1>1, ClearBit0InAddr DEF JumpRegister
    <2> QED BY <2>1, <2>2
<1> QED BY <1>2 DEF TypeOK, JumpRelative, JumpRegister, pcOnly

LEMMA NextPcType == ASSUME TypeOK PROVE Next_pc(4) \in Addr
<1>1. pc + 4 \in Int
    BY AddrModAssumption DEF TypeOK, Addr
<1> QED BY <1>1, ModInAddr DEF Next_pc

\* What a CSR instruction may hand to csr_write on a bit register.
Width(csr) == CASE csr \in {"sstatus", "mstatus"} -> mstatus_mask
                [] csr = "medeleg" -> MedelegMask
                [] OTHER -> AllInts

LEMMA CombineInWidth ==
    ASSUME TypeOK, NEW csr \in BitCsrs, NEW op \in CsrOps, NEW x \in BitOperands(csr)
    PROVE  Combine(op, csr_read(csr), x) \in SUBSET Width(csr)
<1>1. x \in SUBSET Width(csr)
    BY BitOperandsAssumption DEF BitCsrs, BitOperands, Width
<1>2. csr_read(csr) \in SUBSET Width(csr)
    BY DEF TypeOK, BitCsrs, csr_read, Width, AllInts
<1> QED BY <1>1, <1>2 DEF CsrOps, Combine

LEMMA CsrWriteType ==
    ASSUME TypeOK, NEW csr \in BitCsrs, NEW data \in SUBSET Width(csr), csr_write(csr, data)
    PROVE  /\ mstatus' \subseteq mstatus_mask
           /\ mie' \subseteq AllInts
           /\ mip' \subseteq AllInts
           /\ mideleg' \subseteq SupervisorInts
           /\ medeleg' \subseteq MedelegMask
BY DEF TypeOK, csr_write, Width, mstatus_set, sstatus_mask, mstatus_mask, AllInts

LEMMA CsrType == ASSUME TypeOK, Csr PROVE TypeOK'
<1>1. ASSUME NEW csr \in BitCsrs, NEW op \in CsrOps, NEW x \in BitOperands(csr),
             CsrBits(csr, op, x)
      PROVE  TypeOK'
    <2>1. CASE prv < Level(csr) /\ Illegal
        BY <2>1, IllegalType
    <2>2. CASE ~(prv < Level(csr) /\ Illegal)
        <3>1. /\ mstatus' \subseteq mstatus_mask
              /\ mie' \subseteq AllInts
              /\ mip' \subseteq AllInts
              /\ mideleg' \subseteq SupervisorInts
              /\ medeleg' \subseteq MedelegMask
            <4>1. CASE csr_write(csr, Combine(op, csr_read(csr), x))
                BY <4>1, CombineInWidth, CsrWriteType
            <4>2. CASE UNCHANGED <<mstatus, mie, mip, mideleg, medeleg>>
                BY <4>2 DEF TypeOK
            <4> QED BY <1>1, <2>2, <4>1, <4>2 DEF CsrBits
        <3> QED BY <1>1, <2>2, <3>1, NextPcType DEF CsrBits, TypeOK
    <2> QED BY <2>1, <2>2
<1>2. ASSUME NEW csr \in AddrCsrs, NEW a \in Operands, CsrAddr(csr, a)
      PROVE  TypeOK'
    <2>1. CASE prv < Level(csr) /\ Illegal
        BY <2>1, IllegalType
    <2>2. CASE ~(prv < Level(csr) /\ Illegal)
        <3>1. a \in Addr
            BY OperandsAssumption DEF Addr
        <3> QED BY <1>2, <2>2, <3>1, NextPcType, TvecOfInTvec, ClearBit0InAddr
                DEF CsrAddr, TypeOK
    <2> QED BY <2>1, <2>2
<1>3. ASSUME NEW csr \in CauseCsrs, CsrCause(csr)
      PROVE  TypeOK'
    <2>1. CASE prv < Level(csr) /\ Illegal
        BY <2>1, IllegalType
    <2>2. CASE ~(prv < Level(csr) /\ Illegal)
        BY <1>3, <2>2, NextPcType DEF CsrCause, TypeOK, Cause, IRQ
    <2> QED BY <2>1, <2>2
<1> QED BY <1>1, <1>2, <1>3 DEF Csr

-----------------------------------------------------------------------------
(* The type invariant *)

LEMMA InitType == Init => TypeOK
BY AddrModAssumption
   DEF Init, TypeOK, Tvec, Addr, Cause, IRQ, PRV_M, AllInts

LEMMA LocalInstrType == ASSUME TypeOK, LocalInstr PROVE TypeOK'
<1>1. ASSUME NEW len \in {2, 4}, Advance(len) PROVE TypeOK'
    BY <1>1, AdvanceType
<1>2. ASSUME NEW a \in Operands, JumpRelative(a) \/ JumpRegister(a) PROVE TypeOK'
    BY <1>2, JumpType
<1>3. ASSUME NEW c \in ExecCauses, ExecFault(c) PROVE TypeOK'
    BY <1>3, CausesAssumption, RaiseType
       DEF ExecFault, Cause, IRQ, ILLEGAL_INSTRUCTION
<1>4. CASE Ecall
    BY <1>4, RaiseType DEF Ecall, ENVIRONMENT_CALL_FROM_UMODE, Cause, IRQ, TypeOK
<1>5. CASE Mret
    BY <1>5, IllegalType, MretType DEF Mret
<1>6. CASE Sret
    BY <1>6, IllegalType, SretType DEF Sret
<1>7. CASE Wfi
    BY <1>7, IllegalType, AdvanceType DEF Wfi
<1>8. CASE Csr
    BY <1>8, CsrType
<1> QED BY <1>1, <1>2, <1>3, <1>4, <1>5, <1>6, <1>7, <1>8 DEF LocalInstr

LEMMA NextType == ASSUME TypeOK, [Next]_vars PROVE TypeOK'
<1>1. CASE UNCHANGED vars
    BY <1>1 DEF vars, TypeOK
<1>2. CASE LocalInstr
    BY <1>2, LocalInstrType
<1>3. CASE StoreMsip
    BY <1>3, NextPcType DEF StoreMsip, rv32_set_mip, TypeOK, AllInts, MachineInts
<1>4. CASE StoreMtimecmp
    BY <1>4, NextPcType DEF StoreMtimecmp, rv32_reset_mip, TypeOK
<1>5. ASSUME NEW c \in FetchCauses, FetchFault(c) PROVE TypeOK'
    BY <1>5, CausesAssumption, RaiseType DEF FetchFault, Cause, IRQ
<1>6. CASE TimerExpires
    BY <1>6 DEF TimerExpires, rv32_set_mip, mipOnly, TypeOK, AllInts, MachineInts
<1>7. CASE rv32_raise_interrupts
    <2>1. PICK i \in AllInts : raise_exception(IRQ + i)
        BY <1>7 DEF rv32_raise_interrupts
    <2>2. IRQ + i \in Cause
        BY DEF Cause, IRQ, AllInts, SupervisorInts, MachineInts,
               SSIP, MSIP, STIP, MTIP, SEIP, MEIP
    <2> QED BY <2>1, <2>2, RaiseType
<1> QED BY <1>1, <1>2, <1>3, <1>4, <1>5, <1>6, <1>7 DEF Next

\* Every register of the privileged state keeps its width and its mask, for
\* every instruction the hart executes and every interrupt it takes: bits the
\* masks of csr_write and mstatus_set exclude are never set.
THEOREM TypeCorrect == Spec => []TypeOK
<1>1. Init => TypeOK
    BY InitType
<1>2. TypeOK /\ [Next]_vars => TypeOK'
    BY NextType
<1> QED BY <1>1, <1>2, PTL DEF Spec

-----------------------------------------------------------------------------
(* MPRV is set in M mode only *)

MprvInv == TypeOK /\ MprvOnlyInMachineMode

\* A trap from below M finds MPRV clear and does not touch it; a trap into M
\* may keep it.
LEMMA RaiseMprv ==
    ASSUME MprvInv, NEW cause \in Cause, raise_exception(cause)
    PROVE  MprvOnlyInMachineMode'
<1>1. CASE TrapToS(cause) /\ Delegated(cause)
    <2>1. MPRV \notin mstatus
        BY <1>1 DEF MprvInv, MprvOnlyInMachineMode, Delegated, PRV_S, PRV_M
    <2>2. MPRV \notin mstatus'
        BY <1>1, <2>1 DEF TrapToS, Put, MPRV, SPIE, SIE, SPP
    <2> QED BY <2>2 DEF MprvOnlyInMachineMode
<1>2. CASE TrapToM(cause)
    BY <1>2 DEF TrapToM, MprvOnlyInMachineMode
<1> QED BY <1>1, <1>2 DEF raise_exception

\* mret clears MPRV unless it returns to M; sret always clears it.
LEMMA ReturnMprv ==
    ASSUME MprvInv, handle_mret \/ handle_sret
    PROVE  MprvOnlyInMachineMode'
<1>1. CASE handle_mret
    <2>1. CASE Mpp = PRV_M
        BY <1>1, <2>1 DEF handle_mret, MprvOnlyInMachineMode
    <2>2. CASE Mpp # PRV_M
        <3>1. MPRV \notin mstatus'
            BY <1>1, <2>2 DEF handle_mret
        <3> QED BY <3>1 DEF MprvOnlyInMachineMode
    <2> QED BY <2>1, <2>2
<1>2. CASE handle_sret
    <2>1. Spp # PRV_M
        BY DEF Spp, PRV_S, PRV_U, PRV_M
    <2>2. MPRV \notin mstatus'
        BY <1>2, <2>1 DEF handle_sret
    <2> QED BY <2>2 DEF MprvOnlyInMachineMode
<1> QED BY <1>1, <1>2

\* The mask of sstatus excludes MPRV, and mstatus is out of reach below M.
LEMMA CsrMprv ==
    ASSUME MprvInv, Csr
    PROVE  MprvOnlyInMachineMode'
<1> USE DEF MprvInv
<1>1. CASE Illegal
    BY <1>1, RaiseMprv DEF Illegal, ILLEGAL_INSTRUCTION, Cause, IRQ
<1>2. ASSUME NEW csr \in BitCsrs, NEW op \in CsrOps, NEW x \in BitOperands(csr),
             CsrBits(csr, op, x), ~Illegal
      PROVE  MprvOnlyInMachineMode'
    <2>1. prv >= Level(csr) /\ prv' = prv
        BY <1>2 DEF CsrBits
    <2>2. CASE csr = "mstatus"
        BY <2>1, <2>2 DEF Level, SupervisorCsrs, TypeOK, PRV_M, MprvOnlyInMachineMode
    <2>3. CASE csr = "sstatus"
        <3>1. MPRV \notin sstatus_mask
            BY DEF MPRV, sstatus_mask, SIE, SPIE, SPP, SUM, MXR
        <3>2. MPRV \in mstatus' => MPRV \in mstatus
            BY <1>2, <2>3, <3>1 DEF CsrBits, csr_write, mstatus_set
        <3> QED BY <2>1, <3>2 DEF MprvOnlyInMachineMode
    <2>4. CASE csr \notin {"mstatus", "sstatus"}
        <3>1. UNCHANGED mstatus
            BY <1>2, <2>4 DEF CsrBits, csr_write
        <3> QED BY <2>1, <3>1 DEF MprvOnlyInMachineMode
    <2> QED BY <2>2, <2>3, <2>4
<1>3. ASSUME NEW csr \in AddrCsrs, NEW a \in Operands, CsrAddr(csr, a), ~Illegal
      PROVE  MprvOnlyInMachineMode'
    BY <1>3 DEF CsrAddr, MprvOnlyInMachineMode
<1>4. ASSUME NEW csr \in CauseCsrs, CsrCause(csr), ~Illegal
      PROVE  MprvOnlyInMachineMode'
    BY <1>4 DEF CsrCause, MprvOnlyInMachineMode
<1> QED BY <1>1, <1>2, <1>3, <1>4 DEF Csr

LEMMA NextMprv == ASSUME MprvInv, [Next]_vars PROVE MprvInv'
<1>1. TypeOK'
    BY NextType DEF MprvInv
<1>2. MprvOnlyInMachineMode'
    <2>1. CASE UNCHANGED <<prv, mstatus>>
        BY <2>1 DEF MprvInv, MprvOnlyInMachineMode
    <2>2. ASSUME NEW cause \in Cause, raise_exception(cause)
          PROVE  MprvOnlyInMachineMode'
        BY <2>2, RaiseMprv
    <2>3. CASE Illegal
        BY <2>2, <2>3 DEF Illegal, ILLEGAL_INSTRUCTION, Cause, IRQ
    <2>4. CASE LocalInstr
        <3>1. ASSUME NEW len \in {2, 4}, Advance(len) PROVE MprvOnlyInMachineMode'
            BY <2>1, <3>1 DEF Advance, pcOnly
        <3>2. ASSUME NEW a \in Operands, JumpRelative(a) \/ JumpRegister(a)
              PROVE  MprvOnlyInMachineMode'
            BY <2>1, <3>2 DEF JumpRelative, JumpRegister, pcOnly
        <3>3. ASSUME NEW c \in ExecCauses, ExecFault(c) PROVE MprvOnlyInMachineMode'
            BY <2>2, <3>3, CausesAssumption DEF ExecFault, Cause, IRQ, ILLEGAL_INSTRUCTION
        <3>4. CASE Ecall
            BY <2>2, <3>4 DEF Ecall, ENVIRONMENT_CALL_FROM_UMODE, Cause, IRQ, MprvInv, TypeOK
        <3>5. CASE Mret \/ Sret
            BY <2>3, <3>5, ReturnMprv DEF Mret, Sret
        <3>6. CASE Wfi
            BY <2>1, <2>3, <3>6 DEF Wfi, Advance, pcOnly
        <3>7. CASE Csr
            BY <3>7, CsrMprv
        <3> QED BY <2>4, <3>1, <3>2, <3>3, <3>4, <3>5, <3>6, <3>7 DEF LocalInstr
    <2>5. CASE StoreMsip \/ StoreMtimecmp \/ TimerExpires
        BY <2>1, <2>5 DEF StoreMsip, StoreMtimecmp, TimerExpires, mipOnly
    <2>6. ASSUME NEW c \in FetchCauses, FetchFault(c) PROVE MprvOnlyInMachineMode'
        BY <2>2, <2>6, CausesAssumption DEF FetchFault, Cause, IRQ
    <2>7. CASE rv32_raise_interrupts
        <3>1. PICK i \in AllInts : raise_exception(IRQ + i)
            BY <2>7 DEF rv32_raise_interrupts
        <3>2. IRQ + i \in Cause
            BY DEF Cause, IRQ, AllInts, SupervisorInts, MachineInts,
                   SSIP, MSIP, STIP, MTIP, SEIP, MEIP
        <3> QED BY <2>2, <3>1, <3>2
    <2> QED BY <2>1, <2>4, <2>5, <2>6, <2>7 DEF Next, vars
<1> QED BY <1>1, <1>2 DEF MprvInv

\* The condition translate_address and translate_sv32 rely on when they test
\* mstatus_mprv without the privilege: no trap, return or CSR write leaves
\* MPRV set below M.
THEOREM MprvSafe == Spec => []MprvOnlyInMachineMode
<1>1. Init => MprvInv
    BY InitType DEF Init, MprvInv, MprvOnlyInMachineMode
<1>2. MprvInv /\ [Next]_vars => MprvInv'
    BY NextMprv
<1>3. MprvInv => MprvOnlyInMachineMode
    BY DEF MprvInv
<1> QED BY <1>1, <1>2, <1>3, PTL DEF Spec

-----------------------------------------------------------------------------
(* Every pc is even *)

\* AddrMod is even, so reducing an address modulo AddrMod keeps its parity.
LEMMA ModKeepsParity ==
    ASSUME NEW x \in Int
    PROVE  (x % AddrMod) % 2 = x % 2
<1>1. PICK k \in Int : AddrMod = 2 * k
    <2>1. AddrMod = 2 * (AddrMod \div 2)
        BY AddrModAssumption
    <2>2. AddrMod \div 2 \in Int
        BY AddrModAssumption
    <2> QED BY <2>1, <2>2
<1>2. PICK m \in Int : m = k * (x \div AddrMod)
    BY AddrModAssumption
<1>3. x = AddrMod * (x \div AddrMod) + (x % AddrMod)
    BY AddrModAssumption
<1>4. AddrMod * (x \div AddrMod) = 2 * m
    BY <1>1, <1>2, AddrModAssumption
<1>5. x % AddrMod \in Int
    BY AddrModAssumption
<1>6. x = 2 * m + (x % AddrMod)
    BY <1>3, <1>4
<1> QED BY <1>2, <1>5, <1>6

\* The strengthening: the bases of the two vectors are even as well.
AlignedInv == TypeOK /\ PcAligned /\ mtvec.base % 2 = 0 /\ stvec.base % 2 = 0

LEMMA VectorEven ==
    ASSUME NEW tvec \in Tvec, NEW cause \in Cause, tvec.base % 2 = 0
    PROVE  Vector(tvec, cause) % 2 = 0
<1>1. tvec.base \in Int /\ cause % IRQ \in Int
    BY AddrModAssumption DEF Tvec, Addr, Cause, IRQ
<1> DEFINE target ==
        tvec.base + (IF tvec.vectored /\ cause >= IRQ THEN 4 * (cause % IRQ) ELSE 0)
<1>2. target \in Int /\ target % 2 = 0
    BY <1>1
<1>3. Vector(tvec, cause) = target % AddrMod
    BY DEF Vector
<1> QED BY <1>2, <1>3, ModKeepsParity

LEMMA RaiseAligned ==
    ASSUME AlignedInv, NEW cause \in Cause, raise_exception(cause)
    PROVE  PcAligned' /\ UNCHANGED <<mtvec, stvec>>
<1>1. UNCHANGED <<mtvec, stvec>>
    BY DEF raise_exception, mvars
<1>2. CASE TrapToS(cause)
    <2>1. pc' % 2 = 0
        BY <1>2, VectorEven DEF TrapToS, AlignedInv, TypeOK
    <2>2. sepc' = pc /\ mepc' = mepc
        BY <1>2 DEF TrapToS
    <2> QED BY <1>1, <2>1, <2>2 DEF AlignedInv, PcAligned
<1>3. CASE TrapToM(cause)
    <2>1. pc' % 2 = 0
        BY <1>3, VectorEven DEF TrapToM, AlignedInv, TypeOK
    <2>2. mepc' = pc /\ sepc' = sepc
        BY <1>3 DEF TrapToM
    <2> QED BY <1>1, <2>1, <2>2 DEF AlignedInv, PcAligned
<1> QED BY <1>2, <1>3 DEF raise_exception

LEMMA IllegalAligned ==
    ASSUME AlignedInv, Illegal PROVE PcAligned' /\ UNCHANGED <<mtvec, stvec>>
BY RaiseAligned DEF Illegal, ILLEGAL_INSTRUCTION, Cause, IRQ

LEMMA NextPcEven ==
    ASSUME AlignedInv, NEW len \in {2, 4} PROVE Next_pc(len) % 2 = 0
<1>1. pc + len \in Int /\ (pc + len) % 2 = 0
    BY AddrModAssumption DEF AlignedInv, PcAligned, TypeOK, Addr
<1> QED BY <1>1, ModKeepsParity DEF Next_pc

\* The values CSR writes give to xEPC and xTVEC.
LEMMA WrittenEven ==
    ASSUME NEW a \in Operands
    PROVE  ClearBit0(a) % 2 = 0 /\ TvecOf(a).base % 2 = 0
<1>1. a \in Int
    BY OperandsAssumption, AddrModAssumption
<1>2. (a - (a % 2)) % 2 = 0
    BY <1>1
<1>3. (a - (a % 4)) % 2 = 0
    BY <1>1
<1> QED BY <1>2, <1>3 DEF ClearBit0, TvecOf

LEMMA CsrAligned ==
    ASSUME AlignedInv, Csr
    PROVE  PcAligned' /\ mtvec'.base % 2 = 0 /\ stvec'.base % 2 = 0
<1>1. CASE Illegal
    BY <1>1, IllegalAligned DEF AlignedInv
<1>2. ASSUME NEW csr \in BitCsrs, NEW op \in CsrOps, NEW x \in BitOperands(csr),
             CsrBits(csr, op, x), ~Illegal
      PROVE  PcAligned' /\ mtvec'.base % 2 = 0 /\ stvec'.base % 2 = 0
    <2>1. pc' = Next_pc(4) /\ UNCHANGED <<mepc, sepc, mtvec, stvec>>
        BY <1>2 DEF CsrBits
    <2> QED BY <2>1, NextPcEven DEF AlignedInv, PcAligned
<1>3. ASSUME NEW csr \in AddrCsrs, NEW a \in Operands, CsrAddr(csr, a), ~Illegal
      PROVE  PcAligned' /\ mtvec'.base % 2 = 0 /\ stvec'.base % 2 = 0
    <2>1. /\ pc' = Next_pc(4)
          /\ mtvec' \in {TvecOf(a), mtvec} /\ stvec' \in {TvecOf(a), stvec}
          /\ mepc' \in {ClearBit0(a), mepc} /\ sepc' \in {ClearBit0(a), sepc}
        BY <1>3 DEF CsrAddr
    <2> QED BY <2>1, NextPcEven, WrittenEven DEF AlignedInv, PcAligned
<1>4. ASSUME NEW csr \in CauseCsrs, CsrCause(csr), ~Illegal
      PROVE  PcAligned' /\ mtvec'.base % 2 = 0 /\ stvec'.base % 2 = 0
    <2>1. pc' = Next_pc(4) /\ UNCHANGED <<mepc, sepc, mtvec, stvec>>
        BY <1>4 DEF CsrCause
    <2> QED BY <2>1, NextPcEven DEF AlignedInv, PcAligned
<1> QED BY <1>1, <1>2, <1>3, <1>4 DEF Csr

LEMMA NextAligned == ASSUME AlignedInv, [Next]_vars PROVE AlignedInv'
<1> DEFINE Aligned2 == PcAligned' /\ mtvec'.base % 2 = 0 /\ stvec'.base % 2 = 0
<1>1. TypeOK'
    BY NextType DEF AlignedInv
<1>2. CASE UNCHANGED vars
    BY <1>2 DEF AlignedInv, PcAligned, TypeOK, vars
<1>3. ASSUME NEW cause \in Cause, raise_exception(cause) PROVE Aligned2
    BY <1>3, RaiseAligned DEF AlignedInv
<1>4. ASSUME Illegal PROVE Aligned2
    BY <1>4, IllegalAligned DEF AlignedInv
<1>5. ASSUME NEW len \in {2, 4}, Advance(len) PROVE Aligned2
    BY <1>5, NextPcEven DEF Advance, pcOnly, AlignedInv, PcAligned
<1>6. ASSUME LocalInstr PROVE Aligned2
    <2>1. ASSUME NEW a \in Operands, JumpRelative(a) PROVE Aligned2
        <3>1. a \in Int /\ pc \in Int
            BY OperandsAssumption, AddrModAssumption DEF AlignedInv, TypeOK, Addr
        <3>2. pc + 2 * a \in Int /\ (pc + 2 * a) % 2 = 0
            BY <3>1 DEF AlignedInv, PcAligned
        <3>3. pc' % 2 = 0
            BY <2>1, <3>2, ModKeepsParity DEF JumpRelative
        <3> QED BY <2>1, <3>3 DEF JumpRelative, pcOnly, AlignedInv, PcAligned
    <2>2. ASSUME NEW a \in Operands, JumpRegister(a) PROVE Aligned2
        BY <2>2, WrittenEven DEF JumpRegister, pcOnly, AlignedInv, PcAligned
    <2>3. ASSUME NEW c \in ExecCauses, ExecFault(c) PROVE Aligned2
        BY <1>3, <2>3, CausesAssumption DEF ExecFault, Cause, IRQ, ILLEGAL_INSTRUCTION
    <2>4. CASE Ecall
        BY <1>3, <2>4 DEF Ecall, ENVIRONMENT_CALL_FROM_UMODE, Cause, IRQ, AlignedInv, TypeOK
    <2>5. CASE Mret
        BY <1>4, <2>5 DEF Mret, handle_mret, mvars, AlignedInv, PcAligned
    <2>6. CASE Sret
        BY <1>4, <2>6 DEF Sret, handle_sret, mvars, AlignedInv, PcAligned
    <2>7. CASE Wfi
        BY <1>4, <1>5, <2>7 DEF Wfi
    <2>8. CASE Csr
        BY <2>8, CsrAligned
    <2> QED BY <1>5, <1>6, <2>1, <2>2, <2>3, <2>4, <2>5, <2>6, <2>7, <2>8 DEF LocalInstr
<1>7. CASE StoreMsip \/ StoreMtimecmp
    <2>1. pc' = Next_pc(4) /\ UNCHANGED <<mepc, sepc, mtvec, stvec>>
        BY <1>7 DEF StoreMsip, StoreMtimecmp
    <2> QED BY <1>1, <2>1, NextPcEven DEF AlignedInv, PcAligned
<1>8. CASE TimerExpires
    BY <1>1, <1>8 DEF TimerExpires, mipOnly, AlignedInv, PcAligned
<1>9. ASSUME NEW c \in FetchCauses, FetchFault(c) PROVE AlignedInv'
    BY <1>1, <1>3, <1>9, CausesAssumption DEF FetchFault, Cause, IRQ, AlignedInv
<1>10. CASE rv32_raise_interrupts
    <2>1. PICK i \in AllInts : raise_exception(IRQ + i)
        BY <1>10 DEF rv32_raise_interrupts
    <2>2. IRQ + i \in Cause
        BY DEF Cause, IRQ, AllInts, SupervisorInts, MachineInts,
               SSIP, MSIP, STIP, MTIP, SEIP, MEIP
    <2> QED BY <1>1, <1>3, <2>1, <2>2 DEF AlignedInv
<1> QED BY <1>1, <1>2, <1>6, <1>7, <1>8, <1>9, <1>10 DEF Next, AlignedInv

\* The hart never fetches from an odd address and never hands one to a trap
\* handler: every path that produces a pc clears bit 0.
THEOREM PcAlwaysAligned == Spec => []PcAligned
<1>1. Init => AlignedInv
    BY InitType DEF Init, AlignedInv, PcAligned
<1>2. AlignedInv /\ [Next]_vars => AlignedInv'
    BY NextAligned
<1>3. AlignedInv => PcAligned
    BY DEF AlignedInv
<1> QED BY <1>1, <1>2, <1>3, PTL DEF Spec

-----------------------------------------------------------------------------
(* The poll *)

LEMMA EnabledIsArch ==
    ASSUME TypeOK, prv # 2, NEW i \in AllInts, ArchEnabled(i) PROVE i \in en_ints
<1>1. prv \in {PRV_U, PRV_S, PRV_M}
    BY DEF TypeOK, PRV_U, PRV_S, PRV_M
<1> QED BY <1>1 DEF ArchEnabled, en_ints, PRV_U, PRV_S, PRV_M

LEMMA PriorityList ==
    /\ DOMAIN Priority = 1..6
    /\ AllInts = {Priority[n] : n \in 1..6}
BY DEF Priority, AllInts, SupervisorInts, MachineInts

\* The chain of tests takes the first of Priority that is enabled, and the
\* list leaves none of the interrupts out.
LEMMA SomeIsChosen ==
    ASSUME NEW i \in AllInts, i \in en_ints PROVE \E j \in AllInts : Chosen(j)
<1> DEFINE On(n) == Priority[n] \in en_ints
<1>1. \E n \in 1..6 : On(n)
    BY PriorityList
<1>2. \E n \in 1..6 : On(n) /\ \A m \in 1..(n - 1) : ~On(m)
    <2>1. CASE On(1)
        BY <2>1
    <2>2. CASE ~On(1) /\ On(2)
        BY <2>2
    <2>3. CASE ~On(1) /\ ~On(2) /\ On(3)
        BY <2>3
    <2>4. CASE ~On(1) /\ ~On(2) /\ ~On(3) /\ On(4)
        BY <2>4
    <2>5. CASE ~On(1) /\ ~On(2) /\ ~On(3) /\ ~On(4) /\ On(5)
        BY <2>5
    <2>6. CASE ~On(1) /\ ~On(2) /\ ~On(3) /\ ~On(4) /\ ~On(5)
        BY <1>1, <2>6
    <2> QED BY <2>1, <2>2, <2>3, <2>4, <2>5, <2>6
<1>3. PICK n \in 1..6 : On(n) /\ \A m \in 1..(n - 1) : ~On(m)
    BY <1>2
<1>4. Chosen(Priority[n])
    BY <1>3, PriorityList DEF Chosen
<1> QED BY <1>4, PriorityList

\* In every defined privilege, whenever the architecture enables an interrupt
\* the poll takes one.
THEOREM NoneIgnored == Spec => []NoEnabledInterruptIgnored
<1>1. TypeOK => NoEnabledInterruptIgnored
    BY EnabledIsArch, SomeIsChosen DEF NoEnabledInterruptIgnored
<1> QED BY <1>1, TypeCorrect, PTL

-----------------------------------------------------------------------------
(* Action properties *)

\* The body of InterruptGate, for the interrupt the poll chose.
LEMMA GateStep ==
    ASSUME TypeOK, NEW i \in AllInts, Chosen(i), raise_exception(IRQ + i)
    PROVE  /\ ArchEnabled(i)
           /\ prv' = IF i \in mideleg THEN PRV_S ELSE PRV_M
           /\ i = (IF prv' = PRV_M THEN mcause' ELSE scause') - IRQ
           /\ prv' >= prv
<1>1. i \in en_ints
    BY DEF Chosen
<1>2. i \in mie \cap mip /\ prv \in {PRV_U, PRV_S, PRV_M}
    BY <1>1 DEF en_ints, PRV_U, PRV_S, PRV_M
<1>3. i \in 0..31
    BY DEF AllInts, SupervisorInts, MachineInts, SSIP, MSIP, STIP, MTIP, SEIP, MEIP
<1>4. IRQ + i >= IRQ /\ (IRQ + i) % IRQ = i /\ (IRQ + i) - IRQ = i
    BY <1>3 DEF IRQ
<1>5. Delegated(IRQ + i) <=> prv <= PRV_S /\ i \in mideleg
    BY <1>4 DEF Delegated
<1>6. CASE i \in mideleg
    <2>1. prv = PRV_U \/ (prv = PRV_S /\ SIE \in mstatus)
        BY <1>1, <1>2, <1>6 DEF en_ints, PRV_U, PRV_S, PRV_M
    <2>2. TrapToS(IRQ + i)
        BY <1>5, <1>6, <2>1 DEF raise_exception, PRV_U, PRV_S
    <2> QED BY <1>2, <1>4, <1>6, <2>1, <2>2 DEF TrapToS, ArchEnabled, PRV_U, PRV_S, PRV_M
<1>7. CASE i \notin mideleg
    <2>1. prv < PRV_M \/ MIE \in mstatus
        BY <1>1, <1>2, <1>7 DEF en_ints, PRV_U, PRV_S, PRV_M
    <2>2. TrapToM(IRQ + i)
        BY <1>5, <1>7 DEF raise_exception
    <2> QED BY <1>2, <1>4, <1>7, <2>1, <2>2 DEF TrapToM, ArchEnabled, PRV_U, PRV_S, PRV_M
<1> QED BY <1>6, <1>7

\* The two independent decisions of an interrupt, the enable test of
\* rv32_raise_interrupts and the delegation test of raise_exception, agree
\* with each other and with the architecture's rule in every state.
THEOREM GateCorrect == Spec => InterruptGate
<1>1. TypeOK /\ [Next]_vars =>
        [rv32_raise_interrupts =>
           LET cause == IF prv' = PRV_M THEN mcause' ELSE scause'
               i == cause - IRQ
           IN  /\ ArchEnabled(i)
               /\ prv' = IF i \in mideleg THEN PRV_S ELSE PRV_M
               /\ prv' >= prv]_vars
    <2>1. SUFFICES ASSUME TypeOK, rv32_raise_interrupts
          PROVE  LET cause == IF prv' = PRV_M THEN mcause' ELSE scause'
                     i == cause - IRQ
                 IN  /\ ArchEnabled(i)
                     /\ prv' = IF i \in mideleg THEN PRV_S ELSE PRV_M
                     /\ prv' >= prv
        OBVIOUS
    <2>2. PICK i \in AllInts : Chosen(i) /\ raise_exception(IRQ + i)
        BY <2>1 DEF rv32_raise_interrupts
    <2> QED BY <2>1, <2>2, GateStep
<1> QED BY <1>1, TypeCorrect, PTL DEF Spec, InterruptGate

\* A trap into either mode satisfies the clause of PrivilegeRisesOnlyAtVector
\* for that mode, whether or not it raises the privilege.
Entered ==
    \/ prv' = PRV_M /\ EntersHandler(mtvec, mcause', mepc', MIE)
    \/ prv' = PRV_S /\ EntersHandler(stvec, scause', sepc', SIE)

LEMMA RaiseEnters == ASSUME NEW cause, raise_exception(cause) PROVE Entered
<1>1. CASE TrapToM(cause)
    <2>1. MIE \notin mstatus'
        BY <1>1 DEF TrapToM, PutMpp, Put, MIE, MPIE, MPP_LO, MPP_HI
    <2> QED BY <1>1, <2>1 DEF TrapToM, Entered, EntersHandler
<1>2. CASE TrapToS(cause)
    <2>1. SIE \notin mstatus'
        BY <1>2 DEF TrapToS, Put, SIE, SPIE, SPP
    <2> QED BY <1>2, <2>1 DEF TrapToS, Entered, EntersHandler
<1> QED BY <1>1, <1>2 DEF raise_exception

\* mret is executed in M, the highest privilege, and sret in S at least, to
\* which it cannot add.
LEMMA ReturnsDoNotRise ==
    ASSUME TypeOK, Mret \/ Sret, ~Illegal PROVE prv' <= prv
<1>1. CASE Mret
    <2>1. prv \in 0..3
        BY DEF TypeOK
    <2>2. ~(prv < PRV_M)
        BY <1>1 DEF Mret
    <2>3. prv' = Mpp
        BY <1>1, <2>2 DEF Mret, handle_mret
    <2>4. Mpp \in 0..3
        BY DEF Mpp
    <2> QED BY <2>1, <2>2, <2>3, <2>4 DEF PRV_M
<1>2. CASE Sret
    <2>1. prv \in 0..3
        BY DEF TypeOK
    <2>2. ~(prv < PRV_S)
        BY <1>2 DEF Sret
    <2>3. prv' = Spp
        BY <1>2, <2>2 DEF Sret, handle_sret
    <2> QED BY <2>1, <2>2, <2>3 DEF Spp, PRV_S, PRV_U
<1> QED BY <1>1, <1>2

LEMMA RiseStep ==
    ASSUME TypeOK, [Next]_vars, prv' > prv PROVE Entered
<1>1. prv \in 0..3
    BY DEF TypeOK
<1>2. CASE UNCHANGED prv
    BY <1>1, <1>2
<1>3. ASSUME NEW cause, raise_exception(cause) PROVE Entered
    BY <1>3, RaiseEnters
<1>4. CASE Illegal
    BY <1>4, RaiseEnters DEF Illegal
<1>5. CASE LocalInstr
    <2>1. ASSUME NEW len \in {2, 4}, Advance(len) PROVE UNCHANGED prv
        BY <2>1 DEF Advance, pcOnly
    <2>2. ASSUME NEW a \in Operands, JumpRelative(a) \/ JumpRegister(a) PROVE UNCHANGED prv
        BY <2>2 DEF JumpRelative, JumpRegister, pcOnly
    <2>3. ASSUME NEW c \in ExecCauses, ExecFault(c) PROVE Entered
        BY <1>3, <2>3 DEF ExecFault
    <2>4. CASE Ecall
        BY <1>3, <2>4 DEF Ecall
    <2>5. CASE Mret \/ Sret
        <3>1. prv' <= prv \/ Illegal
            BY <2>5, ReturnsDoNotRise
        <3>2. prv' \in Int
            BY NextType DEF TypeOK
        <3> QED BY <1>1, <1>4, <3>1, <3>2
    <2>6. CASE Wfi
        BY <1>2, <1>4, <2>1, <2>6 DEF Wfi
    <2>7. CASE Csr
        BY <1>2, <1>4, <2>7 DEF Csr, CsrBits, CsrAddr, CsrCause
    <2> QED BY <1>2, <1>5, <2>1, <2>2, <2>3, <2>4, <2>5, <2>6, <2>7 DEF LocalInstr
<1>6. CASE StoreMsip \/ StoreMtimecmp \/ TimerExpires
    BY <1>2, <1>6 DEF StoreMsip, StoreMtimecmp, TimerExpires, mipOnly
<1>7. ASSUME NEW c \in FetchCauses, FetchFault(c) PROVE Entered
    BY <1>3, <1>7 DEF FetchFault
<1>8. CASE rv32_raise_interrupts
    BY <1>3, <1>8 DEF rv32_raise_interrupts
<1> QED BY <1>2, <1>5, <1>6, <1>7, <1>8 DEF Next, vars

\* The only way up is a trap: whatever the guest writes to the previous
\* privileges, the enables and the vectors, a step that raises the privilege
\* enters the handler of the new mode with that mode's interrupts masked.
THEOREM RisesOnlyAtVector == Spec => PrivilegeRisesOnlyAtVector
<1>1. TypeOK /\ [Next]_vars =>
        [prv' > prv =>
           \/ prv' = PRV_M /\ EntersHandler(mtvec, mcause', mepc', MIE)
           \/ prv' = PRV_S /\ EntersHandler(stvec, scause', sepc', SIE)]_vars
    BY RiseStep DEF Entered
<1> QED BY <1>1, TypeCorrect, PTL DEF Spec, PrivilegeRisesOnlyAtVector

-----------------------------------------------------------------------------
(* Software below M *)

MachineStateKept ==
    /\ UNCHANGED <<mideleg, medeleg, mtvec, mepc, mcause>>
    /\ MachineFields' = MachineFields
    /\ mie' \ mideleg = mie \ mideleg
    /\ (mip' \ mip) \cup (mip \ mip') \subseteq mideleg \cup MachineInts

\* A trap that stays below M goes to S and changes fields of sstatus only.
LEMMA RaiseKeeps ==
    ASSUME NEW cause, raise_exception(cause), prv' < PRV_M PROVE MachineStateKept
<1>1. TrapToS(cause)
    <2>1. ~(prv' = PRV_M)
        BY DEF PRV_M
    <2>2. ~TrapToM(cause)
        BY <2>1 DEF TrapToM
    <2> QED BY <2>2 DEF raise_exception
<1>2. MachineFields' = MachineFields
    BY <1>1 DEF TrapToS, Put, MachineFields, sstatus_mask, SIE, SPIE, SPP
<1> QED BY <1>1, <1>2 DEF raise_exception, TrapToS, mvars, MachineStateKept

\* sret clears MPRV, which is clear already when it is executed below M.
LEMMA SretKeeps ==
    ASSUME MprvInv, prv < PRV_M, handle_sret PROVE MachineStateKept
<1>1. MPRV \notin mstatus
    BY DEF MprvInv, MprvOnlyInMachineMode, PRV_M
<1>2. MachineFields' = MachineFields
    BY <1>1 DEF handle_sret, Put, MachineFields, sstatus_mask, SIE, SPIE, SPP
<1> QED BY <1>2 DEF handle_sret, mvars, MachineStateKept

\* Below M the registers within reach are sstatus, sie and sip, whose writes
\* are masked, and the supervisor's own.
LEMMA CsrKeeps ==
    ASSUME TypeOK, prv < PRV_M, Csr, ~Illegal PROVE MachineStateKept
<1>1. ASSUME NEW csr, prv >= Level(csr) PROVE csr \in SupervisorCsrs
    BY <1>1 DEF Level, TypeOK, PRV_M, PRV_S
<1>2. ASSUME NEW csr \in BitCsrs, NEW op \in CsrOps, NEW x \in BitOperands(csr),
             CsrBits(csr, op, x)
      PROVE  MachineStateKept
    <2>1. prv >= Level(csr) /\ UNCHANGED <<mepc, mtvec, mcause>>
        BY <1>2 DEF CsrBits
    <2>2. csr \in {"sstatus", "sie", "sip"}
        BY <1>1, <2>1 DEF BitCsrs, SupervisorCsrs
    <2>3. CASE UNCHANGED <<mstatus, mie, mip, mideleg, medeleg>>
        BY <2>1, <2>3 DEF MachineStateKept, MachineFields
    <2>4. ASSUME csr_write(csr, Combine(op, csr_read(csr), x)) PROVE MachineStateKept
        <3> DEFINE data == Combine(op, csr_read(csr), x)
        <3>1. CASE csr = "sstatus"
            <4>1. mstatus' = mstatus_set(data, sstatus_mask)
                BY <2>4, <3>1 DEF csr_write
            <4>2. MachineFields' = MachineFields
                BY <4>1 DEF mstatus_set, MachineFields, sstatus_mask
            <4>3. UNCHANGED <<mie, mip, mideleg, medeleg>>
                BY <2>4, <3>1 DEF csr_write
            <4> QED BY <2>1, <4>2, <4>3 DEF MachineStateKept
        <3>2. CASE csr = "sie"
            <4>1. /\ mie' = (mie \ mideleg) \cup (data \cap mideleg)
                  /\ UNCHANGED <<mstatus, mip, mideleg, medeleg>>
                BY <2>4, <3>2 DEF csr_write
            <4> QED BY <2>1, <4>1 DEF MachineStateKept, MachineFields
        <3>3. CASE csr = "sip"
            <4>1. /\ mip' = (mip \ mideleg) \cup (data \cap mideleg)
                  /\ UNCHANGED <<mstatus, mie, mideleg, medeleg>>
                BY <2>4, <3>3 DEF csr_write
            <4> QED BY <2>1, <4>1 DEF MachineStateKept, MachineFields
        <3> QED BY <2>2, <3>1, <3>2, <3>3
    <2> QED BY <1>2, <2>3, <2>4 DEF CsrBits
<1>3. ASSUME NEW csr \in AddrCsrs, NEW a \in Operands, CsrAddr(csr, a)
      PROVE  MachineStateKept
    <2>1. csr \in SupervisorCsrs
        BY <1>1, <1>3 DEF CsrAddr
    <2> QED BY <1>3, <2>1 DEF CsrAddr, SupervisorCsrs, MachineStateKept, MachineFields
<1>4. ASSUME NEW csr \in CauseCsrs, CsrCause(csr) PROVE MachineStateKept
    <2>1. csr \in SupervisorCsrs
        BY <1>1, <1>4 DEF CsrCause
    <2> QED BY <1>4, <2>1 DEF CsrCause, SupervisorCsrs, MachineStateKept, MachineFields
<1> QED BY <1>2, <1>3, <1>4 DEF Csr

LEMMA LowStep ==
    ASSUME MprvInv, [Next]_vars, prv < PRV_M, prv' < PRV_M PROVE MachineStateKept
<1>1. ASSUME NEW cause, raise_exception(cause) PROVE MachineStateKept
    BY <1>1, RaiseKeeps
<1>2. CASE Illegal
    BY <1>2, RaiseKeeps DEF Illegal
<1>3. ASSUME UNCHANGED pcOnly PROVE MachineStateKept
    BY <1>3 DEF pcOnly, MachineStateKept, MachineFields
<1>4. CASE LocalInstr
    <2>1. ASSUME NEW len \in {2, 4}, Advance(len) PROVE MachineStateKept
        BY <1>3, <2>1 DEF Advance
    <2>2. ASSUME NEW a \in Operands, JumpRelative(a) \/ JumpRegister(a) PROVE MachineStateKept
        BY <1>3, <2>2 DEF JumpRelative, JumpRegister
    <2>3. ASSUME NEW c \in ExecCauses, ExecFault(c) PROVE MachineStateKept
        BY <1>1, <2>3 DEF ExecFault
    <2>4. CASE Ecall
        BY <1>1, <2>4 DEF Ecall
    <2>5. CASE Mret
        BY <1>2, <2>5 DEF Mret
    <2>6. CASE Sret
        BY <1>2, <2>6, SretKeeps DEF Sret
    <2>7. CASE Wfi
        BY <1>2, <2>1, <2>7 DEF Wfi
    <2>8. CASE Csr
        BY <1>2, <2>8, CsrKeeps DEF MprvInv
    <2> QED BY <1>4, <2>1, <2>2, <2>3, <2>4, <2>5, <2>6, <2>7, <2>8 DEF LocalInstr
<1>5. CASE StoreMsip \/ StoreMtimecmp
    BY <1>5 DEF StoreMsip, StoreMtimecmp, rv32_set_mip, rv32_reset_mip, MachineInts,
                MachineStateKept, MachineFields
<1>6. CASE TimerExpires
    BY <1>6 DEF TimerExpires, rv32_set_mip, mipOnly, MachineInts,
                MachineStateKept, MachineFields
<1>7. ASSUME NEW c \in FetchCauses, FetchFault(c) PROVE MachineStateKept
    BY <1>1, <1>7 DEF FetchFault
<1>8. CASE rv32_raise_interrupts
    BY <1>1, <1>8 DEF rv32_raise_interrupts
<1>9. CASE UNCHANGED vars
    BY <1>9 DEF vars, MachineStateKept, MachineFields
<1> QED BY <1>4, <1>5, <1>6, <1>7, <1>8, <1>9 DEF Next

\* Software below M cannot change the machine level's registers, fields or
\* enables, by any CSR write, return or trap that keeps it there.
THEOREM LowModesAreConfined == Spec => LowModesKeepMachineState
<1>1. MprvInv /\ [Next]_vars =>
        [prv < PRV_M /\ prv' < PRV_M =>
           /\ UNCHANGED <<mideleg, medeleg, mtvec, mepc, mcause>>
           /\ MachineFields' = MachineFields
           /\ mie' \ mideleg = mie \ mideleg
           /\ (mip' \ mip) \cup (mip \ mip') \subseteq mideleg \cup MachineInts]_vars
    BY LowStep DEF MachineStateKept
<1>2. TypeOK /\ MprvOnlyInMachineMode => MprvInv
    BY DEF MprvInv
<1> QED BY <1>1, <1>2, TypeCorrect, MprvSafe, PTL DEF Spec, LowModesKeepMachineState

-----------------------------------------------------------------------------
(* Handlers are invisible *)

\* How a step may end: it keeps the privilege, enters a handler or leaves one.
Changes ==
    \/ prv' = prv
    \/ TrapsToM
    \/ TrapsToS
    \/ prv = PRV_M /\ Mret
    \/ prv >= PRV_S /\ Sret

LEMMA RaiseIsTrap == ASSUME NEW cause, raise_exception(cause) PROVE TrapsToM \/ TrapsToS
<1>1. CASE Delegated(cause)
    <2>1. TrapToS(cause) /\ prv <= PRV_S
        BY <1>1 DEF raise_exception, Delegated
    <2>2. scause' = cause
        BY <2>1 DEF TrapToS
    <2> QED BY <2>1, <2>2 DEF TrapsToS
<1>2. CASE ~Delegated(cause)
    <2>1. TrapToM(cause)
        BY <1>2 DEF raise_exception
    <2>2. mcause' = cause
        BY <2>1 DEF TrapToM
    <2> QED BY <2>1, <2>2 DEF TrapsToM
<1> QED BY <1>1, <1>2

LEMMA StepChanges == ASSUME TypeOK, [Next]_vars PROVE Changes
<1>1. ASSUME NEW cause, raise_exception(cause) PROVE Changes
    BY <1>1, RaiseIsTrap DEF Changes
<1>2. CASE Illegal
    BY <1>1, <1>2 DEF Illegal
<1>3. CASE prv' = prv
    BY <1>3 DEF Changes
<1>4. CASE LocalInstr
    <2>1. ASSUME NEW len \in {2, 4}, Advance(len) PROVE Changes
        BY <1>3, <2>1 DEF Advance, pcOnly
    <2>2. ASSUME NEW a \in Operands, JumpRelative(a) \/ JumpRegister(a) PROVE Changes
        BY <1>3, <2>2 DEF JumpRelative, JumpRegister, pcOnly
    <2>3. ASSUME NEW c \in ExecCauses, ExecFault(c) PROVE Changes
        BY <1>1, <2>3 DEF ExecFault
    <2>4. CASE Ecall
        BY <1>1, <2>4 DEF Ecall
    <2>5. CASE Mret
        <3>1. CASE prv = PRV_M
            BY <2>5, <3>1 DEF Changes
        <3>2. CASE prv # PRV_M
            BY <1>2, <2>5, <3>2 DEF Mret, TypeOK, PRV_M
        <3> QED BY <3>1, <3>2
    <2>6. CASE Sret
        <3>1. CASE prv >= PRV_S
            BY <2>6, <3>1 DEF Changes
        <3>2. CASE ~(prv >= PRV_S)
            BY <1>2, <2>6, <3>2 DEF Sret, TypeOK, PRV_S
        <3> QED BY <3>1, <3>2
    <2>7. CASE Wfi
        BY <1>2, <2>1, <2>7 DEF Wfi
    <2>8. CASE Csr
        BY <1>2, <1>3, <2>8 DEF Csr, CsrBits, CsrAddr, CsrCause
    <2> QED BY <1>4, <2>1, <2>2, <2>3, <2>4, <2>5, <2>6, <2>7, <2>8 DEF LocalInstr
<1>5. CASE StoreMsip \/ StoreMtimecmp
    BY <1>3, <1>5 DEF StoreMsip, StoreMtimecmp
<1>6. CASE TimerExpires
    BY <1>3, <1>6 DEF TimerExpires, mipOnly
<1>7. ASSUME NEW c \in FetchCauses, FetchFault(c) PROVE Changes
    BY <1>1, <1>7 DEF FetchFault
<1>8. CASE rv32_raise_interrupts
    BY <1>1, <1>8 DEF rv32_raise_interrupts
<1>9. CASE UNCHANGED vars
    BY <1>3, <1>9 DEF vars
<1> QED BY <1>4, <1>5, <1>6, <1>7, <1>8, <1>9 DEF Next

\* Bit b of mstatus as a return of each level will leave it.
AfterMret(b) ==
    CASE b = MIE  -> MPIE \in mstatus
      [] b = MPRV -> MPRV \in mstatus /\ Mpp = PRV_M
      [] OTHER    -> b \in mstatus
AfterSret(b) ==
    CASE b = SIE  -> SPIE \in mstatus
      [] b = MPRV -> FALSE
      [] OTHER    -> b \in mstatus

MVisible == {SIE, MIE, SPIE, SPP, MPRV, SUM, MXR}
SVisible == {SIE, MPRV, SUM, MXR}

\* What is owed is what a return would give: to M only while the handler runs,
\* because a supervisor return out of M forgets the handler.
MOwed ==
    prv = PRV_M /\ mSnap # None =>
        /\ mSnap = [pc |-> mepc, prv |-> Mpp, mstatus |-> mSnap.mstatus]
        /\ mSnap.mstatus \subseteq MVisible
        /\ \A b \in MVisible : b \in mSnap.mstatus <=> AfterMret(b)
SOwed ==
    sSnap # None =>
        /\ sSnap = [pc |-> sepc, prv |-> Spp, mstatus |-> sSnap.mstatus]
        /\ sSnap.mstatus \subseteq SVisible
        /\ \A b \in SVisible : b \in sSnap.mstatus <=> AfterSret(b)

OwedInv == MprvInv /\ MOwed /\ SOwed

LEMMA TrapOwesM == ASSUME MprvInv, TrapsToM, mSnap' = MView PROVE MOwed'
<1>1. /\ mepc' = pc /\ prv \in 0..3
      /\ mstatus' = PutMpp(Put(Put(mstatus, MPIE, MIE \in mstatus), MIE, FALSE), prv)
    BY DEF TrapsToM, TrapToM, MprvInv, TypeOK
<1>2. Mpp' = prv
    BY <1>1 DEF Mpp, PutMpp, Put, MPP_LO, MPP_HI, MPIE, MIE
<1>3. mSnap' = [pc |-> pc, prv |-> prv, mstatus |-> mstatus \ {MPIE, MPP_LO, MPP_HI}]
    BY DEF MView, View
<1>4. mSnap'.mstatus = mstatus \ {MPIE, MPP_LO, MPP_HI}
    BY <1>3
<1>5. mstatus \ {MPIE, MPP_LO, MPP_HI} \subseteq MVisible
    BY DEF MVisible, MprvInv, TypeOK, mstatus_mask
<1>6. MPRV \in mstatus => prv = PRV_M
    BY DEF MprvInv, MprvOnlyInMachineMode
<1>7. MIE \in mstatus <=> MPIE \in mstatus'
    BY <1>1 DEF PutMpp, Put, MPP_LO, MPP_HI, MPIE, MIE
<1>8. \A b \in MVisible \ {MIE} : b \in mstatus' <=> b \in mstatus
    BY <1>1 DEF PutMpp, Put, MPP_LO, MPP_HI, MPIE, MIE, MVisible, SIE, SPIE, SPP, MPRV, SUM, MXR
<1>9. ASSUME NEW b \in MVisible
      PROVE  b \in mstatus \ {MPIE, MPP_LO, MPP_HI} <=> AfterMret(b)'
    <2>1. b \in mstatus \ {MPIE, MPP_LO, MPP_HI} <=> b \in mstatus
        BY DEF MVisible, MPIE, MPP_LO, MPP_HI, SIE, MIE, SPIE, SPP, MPRV, SUM, MXR
    <2>2. CASE b = MIE
        BY <2>1, <2>2, <1>7 DEF AfterMret, MIE, MPRV
    <2>3. CASE b = MPRV
        BY <2>1, <2>3, <1>2, <1>6, <1>8 DEF AfterMret, MIE, MPRV
    <2>4. CASE b \notin {MIE, MPRV}
        BY <2>1, <2>4, <1>8 DEF AfterMret
    <2> QED BY <2>2, <2>3, <2>4
<1> QED BY <1>1, <1>2, <1>3, <1>4, <1>5, <1>9 DEF MOwed

LEMMA TrapOwesS == ASSUME MprvInv, TrapsToS, sSnap' = SView PROVE SOwed'
<1>1. /\ sepc' = pc /\ prv \in {PRV_U, PRV_S}
      /\ mstatus' = Put(Put(Put(mstatus, SPIE, SIE \in mstatus), SIE, FALSE), SPP, prv = PRV_S)
    BY DEF TrapsToS, TrapToS, MprvInv, TypeOK, PRV_U, PRV_S
<1>2. Spp' = prv
    BY <1>1 DEF Spp, Put, SPIE, SIE, SPP
<1>3. sSnap' = [pc |-> pc, prv |-> prv,
                mstatus |-> mstatus \ {SPIE, SPP, MIE, MPIE, MPP_LO, MPP_HI}]
    BY DEF SView, View
<1>4. sSnap'.mstatus = mstatus \ {SPIE, SPP, MIE, MPIE, MPP_LO, MPP_HI}
    BY <1>3
<1>5. mstatus \ {SPIE, SPP, MIE, MPIE, MPP_LO, MPP_HI} \subseteq SVisible
    BY DEF SVisible, MprvInv, TypeOK, mstatus_mask
<1>6. MPRV \notin mstatus
    BY <1>1 DEF MprvInv, MprvOnlyInMachineMode, PRV_U, PRV_S, PRV_M
<1>7. SIE \in mstatus <=> SPIE \in mstatus'
    BY <1>1 DEF Put, SPIE, SIE, SPP
<1>8. \A b \in SVisible \ {SIE} : b \in mstatus' <=> b \in mstatus
    BY <1>1 DEF Put, SPIE, SIE, SPP, SVisible, MPRV, SUM, MXR
<1>9. ASSUME NEW b \in SVisible
      PROVE  b \in mstatus \ {SPIE, SPP, MIE, MPIE, MPP_LO, MPP_HI} <=> AfterSret(b)'
    <2>1. b \in mstatus \ {SPIE, SPP, MIE, MPIE, MPP_LO, MPP_HI} <=> b \in mstatus
        BY DEF SVisible, MPIE, MPP_LO, MPP_HI, SIE, MIE, SPIE, SPP, MPRV, SUM, MXR
    <2>2. CASE b = SIE
        BY <2>1, <2>2, <1>7 DEF AfterSret, SIE, MPRV
    <2>3. CASE b = MPRV
        BY <2>1, <2>3, <1>6 DEF AfterSret, SIE, MPRV
    <2>4. CASE b \notin {SIE, MPRV}
        BY <2>1, <2>4, <1>8 DEF AfterSret
    <2> QED BY <2>2, <2>3, <2>4
<1> QED BY <1>1, <1>2, <1>3, <1>4, <1>5, <1>9 DEF SOwed

\* A step the history passes over leaves what the machine's handler owes.
LEMMA KeepOwesM ==
    ASSUME MprvInv, MOwed, Changes, mSnap' = mSnap, ~TrapsToM,
           ~(prv = PRV_M /\ Mret), ~Overwrites(MSaved)
    PROVE  MOwed'
<1> SUFFICES ASSUME prv' = PRV_M, mSnap # None
             PROVE  MOwed'
    BY DEF MOwed
<1>1. ~TrapsToS
    BY DEF TrapsToS, TrapToS, PRV_S, PRV_M
<1>2. prv' = prv
    <2>1. CASE prv >= PRV_S /\ Sret
        <3>1. ~TrapsToM /\ ~(prv < PRV_S)
            BY <2>1 DEF MprvInv, TypeOK, PRV_S
        <3>2. prv' = Spp
            BY <2>1, <3>1 DEF Sret, handle_sret
        <3> QED BY <3>2 DEF Spp, PRV_U, PRV_S, PRV_M
    <2> QED BY <1>1, <2>1 DEF Changes
<1>3. mstatus' = mstatus /\ mepc' = mepc
    BY <1>1, <1>2 DEF Overwrites, MSaved
<1> QED BY <1>2, <1>3 DEF MOwed, Mpp, AfterMret

\* A trap into M, and a return from it, leave the supervisor's saved state.
LEMMA MachineKeepsS ==
    ASSUME TrapsToM \/ handle_mret
    PROVE  sepc' = sepc /\ \A b \in {SPP, SPIE, SUM, MXR} : b \in mstatus' <=> b \in mstatus
<1>1. CASE TrapsToM
    BY <1>1 DEF TrapsToM, TrapToM, PutMpp, Put, MPIE, MIE, MPP_LO, MPP_HI, SPP, SPIE, SUM, MXR
<1>2. CASE handle_mret
    BY <1>2 DEF handle_mret, PutMpp, Put, MPIE, MIE, MPP_LO, MPP_HI, MPRV, SPP, SPIE, SUM, MXR
<1> QED BY <1>1, <1>2

LEMMA SavedKeepsS ==
    ASSUME SOwed, sSnap' = sSnap, sepc' = sepc,
           \A b \in {SPP, SPIE, SUM, MXR} : b \in mstatus' <=> b \in mstatus
    PROVE  SOwed'
<1> SUFFICES ASSUME sSnap # None
             PROVE  SOwed'
    BY DEF SOwed
<1>1. Spp' = Spp
    BY DEF Spp
<1>2. ASSUME NEW b \in SVisible
      PROVE  AfterSret(b)' <=> AfterSret(b)
    BY <1>2 DEF AfterSret, SVisible, SIE, MPRV, SUM, MXR
<1> QED BY <1>1, <1>2 DEF SOwed

LEMMA KeepOwesS ==
    ASSUME MprvInv, SOwed, Changes, sSnap' = sSnap, ~TrapsToS,
           ~(prv >= PRV_S /\ Sret), ~Overwrites(SSaved)
    PROVE  SOwed'
<1>1. CASE TrapsToM
    BY <1>1, MachineKeepsS, SavedKeepsS
<1>2. CASE prv = PRV_M /\ Mret
    <2>1. handle_mret
        BY <1>2 DEF Mret, PRV_M
    <2> QED BY <2>1, MachineKeepsS, SavedKeepsS
<1>3. CASE prv' = prv /\ ~TrapsToM
    <2>1. mstatus' \cap sstatus_mask = mstatus \cap sstatus_mask /\ sepc' = sepc
        BY <1>3 DEF Overwrites, SSaved, sstatus_mask
    <2>2. \A b \in {SPP, SPIE, SUM, MXR} : b \in sstatus_mask
        BY DEF sstatus_mask
    <2> QED BY <2>1, <2>2, SavedKeepsS
<1> QED BY <1>1, <1>2, <1>3 DEF Changes

LEMMA OwedStep == ASSUME OwedInv, [HNext]_hvars PROVE OwedInv'
<1>1. [Next]_vars
    BY DEF HNext, hvars
<1>2. MprvInv' /\ Changes
    BY <1>1, NextMprv, StepChanges DEF OwedInv, MprvInv
<1>3. CASE UNCHANGED hvars
    BY <1>2, <1>3 DEF hvars, vars, OwedInv, MOwed, SOwed, AfterMret, AfterSret, Mpp, Spp
<1>4. CASE HNext
    <2>1. MOwed'
        <3>1. CASE TrapsToM
            <4>1. mSnap' = MView
                BY <1>4, <3>1 DEF HNext
            <4> QED BY <3>1, <4>1, TrapOwesM DEF OwedInv
        <3>2. CASE ~TrapsToM /\ ((prv = PRV_M /\ Mret) \/ Overwrites(MSaved))
            <4>1. mSnap' = None
                BY <1>4, <3>2 DEF HNext
            <4> QED BY <4>1 DEF MOwed, None
        <3>3. CASE ~TrapsToM /\ ~(prv = PRV_M /\ Mret) /\ ~Overwrites(MSaved)
            <4>1. mSnap' = mSnap
                BY <1>4, <3>3 DEF HNext
            <4> QED BY <1>2, <3>3, <4>1, KeepOwesM DEF OwedInv
        <3> QED BY <3>1, <3>2, <3>3
    <2>2. SOwed'
        <3>1. CASE TrapsToS
            <4>1. sSnap' = SView
                BY <1>4, <3>1 DEF HNext
            <4> QED BY <3>1, <4>1, TrapOwesS DEF OwedInv
        <3>2. CASE ~TrapsToS /\ ((prv >= PRV_S /\ Sret) \/ Overwrites(SSaved))
            <4>1. sSnap' = None
                BY <1>4, <3>2 DEF HNext
            <4> QED BY <4>1 DEF SOwed, None
        <3>3. CASE ~TrapsToS /\ ~(prv >= PRV_S /\ Sret) /\ ~Overwrites(SSaved)
            <4>1. sSnap' = sSnap
                BY <1>4, <3>3 DEF HNext
            <4> QED BY <1>2, <3>3, <4>1, KeepOwesS DEF OwedInv
        <3> QED BY <3>1, <3>2, <3>3
    <2> QED BY <1>2, <2>1, <2>2 DEF OwedInv
<1> QED BY <1>3, <1>4

LEMMA OwedInvariant == HSpec => []OwedInv
<1>1. HInit => OwedInv
    BY InitType DEF HInit, Init, OwedInv, MprvInv, MprvOnlyInMachineMode, MOwed, SOwed, None
<1> QED BY <1>1, OwedStep, PTL DEF HSpec

LEMMA MretPays ==
    ASSUME OwedInv, prv = PRV_M, Mret, mSnap # None
    PROVE  MView' = mSnap
<1>1. handle_mret
    BY DEF Mret, PRV_M
<1>2. pc' = mepc /\ prv' = Mpp
    BY <1>1 DEF handle_mret
<1>3. /\ mSnap = [pc |-> mepc, prv |-> Mpp, mstatus |-> mSnap.mstatus]
      /\ mSnap.mstatus \subseteq MVisible
      /\ \A b \in MVisible : b \in mSnap.mstatus <=> AfterMret(b)
    BY DEF OwedInv, MOwed
<1>4. mstatus' \ {MPIE, MPP_LO, MPP_HI} \subseteq MVisible
    <2>1. TypeOK'
        BY <1>1, MretType DEF OwedInv, MprvInv
    <2> QED BY <2>1 DEF TypeOK, mstatus_mask, MVisible
<1>5. ASSUME NEW b \in MVisible
      PROVE  b \in mstatus' \ {MPIE, MPP_LO, MPP_HI} <=> AfterMret(b)
    <2>1. b \in mstatus' \ {MPIE, MPP_LO, MPP_HI} <=> b \in mstatus'
        BY DEF MVisible, MPIE, MPP_LO, MPP_HI, SIE, MIE, SPIE, SPP, MPRV, SUM, MXR
    <2>2. CASE b = MIE
        BY <1>1, <2>1, <2>2
           DEF handle_mret, PutMpp, Put, AfterMret, MPIE, MIE, MPP_LO, MPP_HI, MPRV
    <2>3. CASE b = MPRV
        <3>1. MPRV \in mstatus' <=> MPRV \in mstatus /\ Mpp = PRV_M
            BY <1>1 DEF handle_mret, PutMpp, Put, MPIE, MIE, MPP_LO, MPP_HI, MPRV
        <3> QED BY <2>1, <2>3, <3>1 DEF AfterMret, MIE, MPRV
    <2>4. CASE b \notin {MIE, MPRV}
        BY <1>1, <2>1, <2>4
           DEF handle_mret, PutMpp, Put, AfterMret, MPIE, MIE, MPP_LO, MPP_HI, MPRV,
               MVisible, SIE, SPIE, SPP, SUM, MXR
    <2> QED BY <2>2, <2>3, <2>4
<1>6. mstatus' \ {MPIE, MPP_LO, MPP_HI} = mSnap.mstatus
    BY <1>3, <1>4, <1>5
<1> QED BY <1>2, <1>3, <1>6 DEF MView, View

LEMMA SretPays ==
    ASSUME OwedInv, prv >= PRV_S, Sret, sSnap # None
    PROVE  SView' = sSnap
<1>1. handle_sret
    BY DEF Sret, PRV_S, OwedInv, MprvInv, TypeOK
<1>2. pc' = sepc /\ prv' = Spp
    BY <1>1 DEF handle_sret
<1>3. /\ sSnap = [pc |-> sepc, prv |-> Spp, mstatus |-> sSnap.mstatus]
      /\ sSnap.mstatus \subseteq SVisible
      /\ \A b \in SVisible : b \in sSnap.mstatus <=> AfterSret(b)
    BY DEF OwedInv, SOwed
<1>4. mstatus' \ {SPIE, SPP, MIE, MPIE, MPP_LO, MPP_HI} \subseteq SVisible
    <2>1. TypeOK'
        BY <1>1, SretType DEF OwedInv, MprvInv
    <2> QED BY <2>1 DEF TypeOK, mstatus_mask, SVisible
<1>5. ASSUME NEW b \in SVisible
      PROVE  b \in mstatus' \ {SPIE, SPP, MIE, MPIE, MPP_LO, MPP_HI} <=> AfterSret(b)
    <2>1. b \in mstatus' \ {SPIE, SPP, MIE, MPIE, MPP_LO, MPP_HI} <=> b \in mstatus'
        BY DEF SVisible, MPIE, MPP_LO, MPP_HI, SIE, MIE, SPIE, SPP, MPRV, SUM, MXR
    <2>2. Spp # PRV_M
        BY DEF Spp, PRV_U, PRV_S, PRV_M
    <2>3. CASE b = SIE
        BY <1>1, <2>1, <2>3 DEF handle_sret, Put, AfterSret, SPIE, SIE, SPP, MPRV
    <2>4. CASE b = MPRV
        BY <1>1, <2>1, <2>2, <2>4 DEF handle_sret, Put, AfterSret, SPIE, SIE, SPP, MPRV
    <2>5. CASE b \notin {SIE, MPRV}
        BY <1>1, <2>1, <2>5
           DEF handle_sret, Put, AfterSret, SPIE, SIE, SPP, MPRV, SVisible, SUM, MXR
    <2> QED BY <2>3, <2>4, <2>5
<1>6. mstatus' \ {SPIE, SPP, MIE, MPIE, MPP_LO, MPP_HI} = sSnap.mstatus
    BY <1>3, <1>4, <1>5
<1> QED BY <1>2, <1>3, <1>6 DEF SView, View

\* Whatever a machine-level handler does, traps of its own and returns of the
\* supervisor included, mret gives back what raise_exception interrupted, unless
\* the handler wrote mstatus or mepc itself.
THEOREM MachineHandlerInvisible == HSpec => MachineTrapTransparent
<1>1. OwedInv /\ [HNext]_hvars => [prv = PRV_M /\ Mret /\ mSnap # None => MView' = mSnap]_hvars
    BY MretPays
<1> QED BY <1>1, OwedInvariant, PTL DEF HSpec, MachineTrapTransparent

\* The same for sret, with any number of machine-level traps in between.
THEOREM SupervisorHandlerInvisible == HSpec => SupervisorTrapTransparent
<1>1. OwedInv /\ [HNext]_hvars => [prv >= PRV_S /\ Sret /\ sSnap # None => SView' = sSnap]_hvars
    BY SretPays
<1> QED BY <1>1, OwedInvariant, PTL DEF HSpec, SupervisorTrapTransparent

=============================================================================
