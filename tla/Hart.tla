-------------------------------- MODULE Hart --------------------------------
(***************************************************************************)
(* The privileged side of the emulated hart (src/src/rv32.c): privilege    *)
(* mode, mstatus, delegation, trap entry and return, the CSR instructions  *)
(* that reach them, and the interrupt poll.                                *)
(*                                                                         *)
(* A register the code reads bit by bit (mstatus, mie, mip, mideleg,       *)
(* medeleg) is the set of the positions of its 1 bits, so that &, | and ~  *)
(* of the code are \cap, \cup and \ here.  Addresses are integers modulo   *)
(* AddrMod (2^32 in the code).                                             *)
(*                                                                         *)
(* Left out, because they are storage that no rule below reads: xscratch,  *)
(* xtval, misa, mhartid, the PMP registers, and the FS, XS and SD fields   *)
(* of mstatus.  The general registers and memory appear only as the choice *)
(* of an operand.                                                          *)
(***************************************************************************)
EXTENDS Integers

CONSTANTS
    AddrMod,          \* number of addresses
    Operands,         \* addresses a guest register may hold (odd ones too)
    MstatusOperands,  \* bit sets a CSR instruction may apply to x-status
    IntOperands,      \* ... to mie, sie, mideleg
    MipOperands,      \* ... to mip, sip
    MedelegOperands,  \* ... to medeleg
    Lines,            \* lines of mip the CLINT of the instance drives
    FetchCauses,      \* causes an instruction fetch of the instance can raise
    ExecCauses        \* causes an executing instruction can raise

-----------------------------------------------------------------------------
(* Encodings: rv32_p.h, rv32.h and the enums of rv32.c. *)

PRV_U == 0
PRV_S == 1
PRV_M == 3

SIE == 1
MIE == 3
SPIE == 5
MPIE == 7
SPP == 8
MPP_LO == 11     \* MSTATUS_MPP is the two bits 11 and 12
MPP_HI == 12
MPRV == 17
SUM == 18
MXR == 19

mstatus_mask == {SIE, MIE, SPIE, MPIE, SPP, MPP_LO, MPP_HI, MPRV, SUM, MXR}
\* Mutant: the supervisor's view shows a machine-level bit.
sstatus_mask_wide == {SIE, SPIE, SPP, MPRV, SUM, MXR}
sstatus_mask == {SIE, SPIE, SPP, SUM, MXR}

SSIP == 1
MSIP == 3
STIP == 5
MTIP == 7
SEIP == 9
MEIP == 11

SupervisorInts == {SSIP, STIP, SEIP}
MachineInts == {MSIP, MTIP, MEIP}
AllInts == SupervisorInts \cup MachineInts

ILLEGAL_INSTRUCTION == 2
ENVIRONMENT_CALL_FROM_UMODE == 8
MedelegMask == 0..15

\* Bit 31 of a cause marks an interrupt; here it is the bit above the code.
IRQ == 32

ASSUME AddrModAssumption == AddrMod \in Nat \ {0} /\ AddrMod % 2 = 0
ASSUME OperandsAssumption == Operands \subseteq 0..(AddrMod - 1)
ASSUME BitOperandsAssumption ==
    /\ MstatusOperands \subseteq SUBSET mstatus_mask
    /\ IntOperands \subseteq SUBSET AllInts
    /\ MipOperands \subseteq SUBSET AllInts
    /\ MedelegOperands \subseteq SUBSET MedelegMask
    /\ Lines \subseteq {MSIP, MTIP}
ASSUME CausesAssumption ==
    /\ FetchCauses \subseteq {1, 12}
    /\ ExecCauses \subseteq {ILLEGAL_INSTRUCTION, 3, 5, 7, 13, 15}

Addr == 0..(AddrMod - 1)
Tvec == [base : Addr, vectored : BOOLEAN]
Cause == 0..(2 * IRQ - 1)

VARIABLES
    prv,       \* current privilege, 0..3: mpp is a raw two-bit field
    mstatus,   \* 1 bits of mstatus
    mie, mip, mideleg, medeleg,
    pc, mepc, sepc,
    mtvec, stvec,      \* base and vectored flag
    mcause, scause

mvars == <<mie, mideleg, medeleg, mtvec>>
vars == <<prv, mstatus, mie, mip, mideleg, medeleg, pc, mepc, sepc,
          mtvec, stvec, mcause, scause>>

TypeOK ==
    /\ prv \in 0..3
    /\ mstatus \subseteq mstatus_mask
    /\ mie \subseteq AllInts
    /\ mip \subseteq AllInts
    /\ mideleg \subseteq SupervisorInts
    /\ medeleg \subseteq MedelegMask
    /\ pc \in Addr /\ mepc \in Addr /\ sepc \in Addr
    /\ mtvec \in Tvec /\ stvec \in Tvec
    /\ mcause \in Cause /\ scause \in Cause

-----------------------------------------------------------------------------
(* Fields of mstatus *)

Mpp == (IF MPP_LO \in mstatus THEN 1 ELSE 0)
         + (IF MPP_HI \in mstatus THEN 2 ELSE 0)
\* Mutant: sret takes every return to be one to U.
Spp_user == PRV_U
Spp == IF SPP \in mstatus THEN PRV_S ELSE PRV_U

Put(bits, b, on) == IF on THEN bits \cup {b} ELSE bits \ {b}
\* Mutant: only the low bit of the field is written.
PutMpp_low(bits, p) == Put(bits, MPP_LO, p \in {1, 3})
PutMpp(bits, p) == Put(Put(bits, MPP_LO, p \in {1, 3}), MPP_HI, p \in {2, 3})

\* mstatus_set: only the bits of the mask are taken from the value.
mstatus_set(val, mask) == (mstatus \ mask) \cup (val \cap mask)

-----------------------------------------------------------------------------
(* Trap entry and return *)

Vector(tvec, cause) ==
    (tvec.base + (IF tvec.vectored /\ cause >= IRQ THEN 4 * (cause % IRQ) ELSE 0))
        % AddrMod

\* A trap is delegated only from S or U (or below M): the code compares
\* prv <= PRV_S, then looks the cause up in mideleg or medeleg.
Delegated(cause) ==
    /\ prv <= PRV_S
    /\ (cause % IRQ) \in (IF cause >= IRQ THEN mideleg ELSE medeleg)

TrapToS(cause) ==
    /\ mstatus' = Put(Put(Put(mstatus, SPIE, SIE \in mstatus), SIE, FALSE),
                      SPP, prv = PRV_S)
    /\ prv' = PRV_S
    /\ scause' = cause
    /\ sepc' = pc
    /\ pc' = Vector(stvec, cause)
    /\ UNCHANGED <<mcause, mepc>>

TrapToM(cause) ==
    /\ mstatus' = PutMpp(Put(Put(mstatus, MPIE, MIE \in mstatus), MIE, FALSE), prv)
    /\ prv' = PRV_M
    /\ mcause' = cause
    /\ mepc' = pc
    /\ pc' = Vector(mtvec, cause)
    /\ UNCHANGED <<scause, sepc>>

raise_exception(cause) ==
    /\ IF Delegated(cause) THEN TrapToS(cause) ELSE TrapToM(cause)
    /\ UNCHANGED <<mvars, mip, stvec>>

Illegal == raise_exception(ILLEGAL_INSTRUCTION)

handle_mret ==
    /\ mstatus' = LET ms == PutMpp(Put(Put(mstatus, MIE, MPIE \in mstatus), MPIE, TRUE),
                                   PRV_U)
                  IN  IF Mpp # PRV_M THEN ms \ {MPRV} ELSE ms
    /\ prv' = Mpp
    /\ pc' = mepc
    /\ UNCHANGED <<mvars, mip, mepc, sepc, stvec, mcause, scause>>

\* spp is one bit, so the code's test spp != PRV_M always holds.
handle_sret ==
    /\ mstatus' = LET ms == Put(Put(Put(mstatus, SIE, SPIE \in mstatus), SPIE, TRUE),
                                SPP, FALSE)
                  IN  IF Spp # PRV_M THEN ms \ {MPRV} ELSE ms
    /\ prv' = Spp
    /\ pc' = sepc
    /\ UNCHANGED <<mvars, mip, mepc, sepc, stvec, mcause, scause>>

-----------------------------------------------------------------------------
(* Instructions.  Each leaves every register of the module it does not name. *)

\* Mutant: bit 0 is kept.
ClearBit0_kept(a) == a
ClearBit0(a) == a - (a % 2)
\* Mutant: the pc is wider than 32 bits.
Next_pc_wide(len) == pc + len
Next_pc(len) == (pc + len) % AddrMod

pcOnly == <<prv, mstatus, mie, mip, mideleg, medeleg, mepc, sepc,
            mtvec, stvec, mcause, scause>>

\* Any instruction that only moves to the next one (2 bytes if compressed).
Advance(len) == pc' = Next_pc(len) /\ UNCHANGED pcOnly

\* JAL, C.J, C.JAL and taken branches: the decoded offset has bit 0 clear.
JumpRelative(k) == pc' = (pc + 2 * k) % AddrMod /\ UNCHANGED pcOnly

\* JALR, C.JR, C.JALR: bit 0 of the register operand is cleared.
JumpRegister(a) == pc' = ClearBit0(a) /\ UNCHANGED pcOnly

FetchFault(c) == raise_exception(c)

ExecFault(c) == raise_exception(c)

Ecall == raise_exception(ENVIRONMENT_CALL_FROM_UMODE + prv)

Mret == IF prv < PRV_M THEN Illegal ELSE handle_mret

\* Mutant: no privilege check.
Sret_unchecked == handle_sret

Sret == IF prv < PRV_S THEN Illegal ELSE handle_sret

Wfi == IF prv = PRV_U THEN Illegal ELSE Advance(4)

-----------------------------------------------------------------------------
(* CSR instructions *)

BitCsrs == {"sstatus", "sie", "sip", "mstatus", "mie", "mip", "mideleg", "medeleg"}
AddrCsrs == {"stvec", "sepc", "mtvec", "mepc"}
CauseCsrs == {"scause", "mcause"}
SupervisorCsrs == {"sstatus", "sie", "sip", "stvec", "sepc", "scause"}

\* Mutant: the CSR number's privilege is not looked at.
Level_none(csr) == PRV_U

\* The privilege encoded in bits 9:8 of the CSR number.
Level(csr) == IF csr \in SupervisorCsrs THEN PRV_S ELSE PRV_M

csr_read(csr) ==
    CASE csr = "sstatus" -> mstatus \cap sstatus_mask
      [] csr = "sie"     -> mie \cap mideleg
      [] csr = "sip"     -> mip \cap mideleg
      [] csr = "mstatus" -> mstatus \cap mstatus_mask
      [] csr = "mie"     -> mie
      [] csr = "mip"     -> mip
      [] csr = "mideleg" -> mideleg
      [] csr = "medeleg" -> medeleg

csr_write(csr, data) ==
    \/ /\ csr = "sstatus"
       /\ mstatus' = mstatus_set(data, sstatus_mask)
       /\ UNCHANGED <<mie, mip, mideleg, medeleg>>
    \/ /\ csr = "mstatus"
       /\ mstatus' = mstatus_set(data, mstatus_mask)
       /\ UNCHANGED <<mie, mip, mideleg, medeleg>>
    \/ /\ csr = "sie"
       /\ mie' = (mie \ mideleg) \cup (data \cap mideleg)
       /\ UNCHANGED <<mstatus, mip, mideleg, medeleg>>
    \/ /\ csr = "mie"
       /\ mie' = (mie \ AllInts) \cup (data \cap AllInts)
       /\ UNCHANGED <<mstatus, mip, mideleg, medeleg>>
    \/ /\ csr = "sip"
       /\ mip' = (mip \ mideleg) \cup (data \cap mideleg)
       /\ UNCHANGED <<mstatus, mie, mideleg, medeleg>>
    \/ /\ csr = "mip"          \* every bit is written, MTIP and MSIP included
       /\ mip' = data
       /\ UNCHANGED <<mstatus, mie, mideleg, medeleg>>
    \/ /\ csr = "mideleg"
       /\ mideleg' = (mideleg \ SupervisorInts) \cup (data \cap SupervisorInts)
       /\ UNCHANGED <<mstatus, mie, mip, medeleg>>
    \/ /\ csr = "medeleg"
       /\ medeleg' = (medeleg \ MedelegMask) \cup (data \cap MedelegMask)
       /\ UNCHANGED <<mstatus, mie, mip, mideleg>>

CsrOps == {"rw", "rs", "rc"}

Combine(op, old, x) ==
    CASE op = "rw" -> x
      [] op = "rs" -> old \cup x
      [] op = "rc" -> old \ x

BitOperands(csr) ==
    CASE csr \in {"sstatus", "mstatus"}     -> MstatusOperands
      [] csr \in {"sie", "mie", "mideleg"}  -> IntOperands
      [] csr \in {"sip", "mip"}             -> MipOperands
      [] csr = "medeleg"                    -> MedelegOperands

\* CSRRW, CSRRS, CSRRC and their immediate forms on a bit register: the set
\* and clear forms do not write at all when the operand is zero.
CsrBits(csr, op, x) ==
    \/ prv < Level(csr) /\ Illegal
    \/ /\ prv >= Level(csr)
       /\ IF op = "rw" \/ x # {}
          THEN csr_write(csr, Combine(op, csr_read(csr), x))
          ELSE UNCHANGED <<mstatus, mie, mip, mideleg, medeleg>>
       /\ pc' = Next_pc(4)
       /\ UNCHANGED <<prv, mepc, sepc, mtvec, stvec, mcause, scause>>

\* xTVEC keeps bit 0 as the vectored flag and clears the two low bits of the
\* base; xEPC clears bit 0.
TvecOf(a) == [base |-> a - (a % 4), vectored |-> a % 2 = 1]

CsrAddr(csr, a) ==
    \/ prv < Level(csr) /\ Illegal
    \/ /\ prv >= Level(csr)
       /\ stvec' = IF csr = "stvec" THEN TvecOf(a) ELSE stvec
       /\ mtvec' = IF csr = "mtvec" THEN TvecOf(a) ELSE mtvec
       /\ sepc' = IF csr = "sepc" THEN ClearBit0(a) ELSE sepc
       /\ mepc' = IF csr = "mepc" THEN ClearBit0(a) ELSE mepc
       /\ pc' = Next_pc(4)
       /\ UNCHANGED <<prv, mstatus, mie, mip, mideleg, medeleg, mcause, scause>>

\* The guest may write any cause; the one number 0 stands for them all.
CsrCause(csr) ==
    \/ prv < Level(csr) /\ Illegal
    \/ /\ prv >= Level(csr)
       /\ mcause' = IF csr = "mcause" THEN 0 ELSE mcause
       /\ scause' = IF csr = "scause" THEN 0 ELSE scause
       /\ pc' = Next_pc(4)
       /\ UNCHANGED <<prv, mstatus, mie, mip, mideleg, medeleg, mepc, sepc, mtvec, stvec>>

-----------------------------------------------------------------------------
(* Interrupt lines and the poll *)

rv32_set_mip(i) == mip' = mip \cup {i}
rv32_reset_mip(i) == mip' = mip \ {i}

mipOnly == <<prv, mstatus, mie, mideleg, medeleg, pc, mepc, sepc,
             mtvec, stvec, mcause, scause>>

\* A store to the CLINT changes mip inside the storing instruction; the
\* CLINT's own clock check raises MTIP between instructions.
StoreMsip ==
    /\ MSIP \in Lines
    /\ rv32_set_mip(MSIP)
    /\ pc' = Next_pc(4)
    /\ UNCHANGED <<prv, mstatus, mie, mideleg, medeleg, mepc, sepc,
                   mtvec, stvec, mcause, scause>>

StoreMtimecmp ==
    /\ MTIP \in Lines
    /\ rv32_reset_mip(MTIP)
    /\ pc' = Next_pc(4)
    /\ UNCHANGED <<prv, mstatus, mie, mideleg, medeleg, mepc, sepc,
                   mtvec, stvec, mcause, scause>>

TimerExpires == MTIP \in Lines /\ rv32_set_mip(MTIP) /\ UNCHANGED mipOnly

\* Mutants: the delegation is forgotten; SIE masks the machine's interrupts.
en_ints_flat == IF prv = PRV_M /\ MIE \notin mstatus THEN {} ELSE mie \cap mip
en_ints_global ==
    LET level == CASE prv = PRV_M /\ MIE \in mstatus -> AllInts \ mideleg
                   [] prv = PRV_S /\ SIE \in mstatus -> AllInts
                   [] prv = PRV_U -> AllInts
                   [] OTHER -> {}
    IN  level \cap mie \cap mip

\* Interrupts enabled at the current privilege; privilege 2 falls into the
\* empty default of the switch.
en_ints ==
    LET level == CASE prv = PRV_M /\ MIE \in mstatus -> AllInts \ mideleg
                   [] prv = PRV_S /\ SIE \in mstatus -> AllInts
                   [] prv = PRV_S /\ SIE \notin mstatus -> AllInts \ mideleg
                   [] prv = PRV_U -> AllInts
                   [] OTHER -> {}
    IN  level \cap mie \cap mip

\* Mutant: one interrupt is missing from the chain of tests.
Priority_short == <<SSIP, STIP, SEIP, MSIP, MEIP>>

\* The order in which the code tests the enabled interrupts.
Priority == <<SSIP, STIP, SEIP, MSIP, MTIP, MEIP>>

\* Interrupt i is the first of Priority that is enabled.
Chosen(i) ==
    \E n \in DOMAIN Priority :
        /\ Priority[n] = i
        /\ i \in en_ints
        /\ \A m \in 1..(n - 1) : Priority[m] \notin en_ints

rv32_raise_interrupts == \E i \in AllInts : Chosen(i) /\ raise_exception(IRQ + i)

-----------------------------------------------------------------------------
\* rv32_init over the zeroed state; the reset pc stands for 0x80000000.
Init ==
    /\ prv = PRV_M
    /\ mstatus = {} /\ mie = {} /\ mip = {} /\ mideleg = {} /\ medeleg = {}
    /\ pc = 0 /\ mepc = 0 /\ sepc = 0
    /\ mtvec = [base |-> 0, vectored |-> FALSE]
    /\ stvec = [base |-> 0, vectored |-> FALSE]
    /\ mcause = 0 /\ scause = 0

\* The instructions one iteration of rv32_run may execute, the stores to the
\* CLINT apart.
Csr ==
    \/ \E csr \in BitCsrs : \E op \in CsrOps, x \in BitOperands(csr) : CsrBits(csr, op, x)
    \/ \E csr \in AddrCsrs, a \in Operands : CsrAddr(csr, a)
    \/ \E csr \in CauseCsrs : CsrCause(csr)

LocalInstr ==
    \/ \E len \in {2, 4} : Advance(len)
    \/ \E a \in Operands : JumpRelative(a) \/ JumpRegister(a)
    \/ \E c \in ExecCauses : ExecFault(c)
    \/ Ecall
    \/ Mret
    \/ Sret
    \/ Wfi
    \/ Csr

Next ==
    \/ LocalInstr
    \/ StoreMsip
    \/ StoreMtimecmp
    \/ \E c \in FetchCauses : FetchFault(c)
    \/ TimerExpires
    \/ rv32_raise_interrupts

Spec == Init /\ [][Next]_vars

-----------------------------------------------------------------------------
(* Properties *)

\* MPRV redirects data accesses to the privilege in MPP.  translate_sv32
\* tests mstatus_mprv without asking for M mode, which is right only because
\* no sequence of traps, returns and CSR writes leaves MPRV set below M.
MprvOnlyInMachineMode == MPRV \in mstatus => prv = PRV_M

\* No instruction alignment check exists in rv32_run: every way of producing
\* a pc (jumps, traps, returns, CSR writes of xEPC and xTVEC) must clear bit 0.
PcAligned == pc % 2 = 0 /\ mepc % 2 = 0 /\ sepc % 2 = 0

\* A step that raises the privilege enters the handler: it lands on the vector
\* of the new mode, remembers where it came from and masks that mode's
\* interrupts.  No return or CSR write may raise the privilege.
EntersHandler(tvec, cause, epc, ie) ==
    pc' = Vector(tvec, cause) /\ epc = pc /\ ie \notin mstatus'
PrivilegeRisesOnlyAtVector ==
    [][prv' > prv =>
         \/ prv' = PRV_M /\ EntersHandler(mtvec, mcause', mepc', MIE)
         \/ prv' = PRV_S /\ EntersHandler(stvec, scause', sepc', SIE)]_vars

\* What the S and U software can change while it stays below M: nothing of
\* the machine-level registers, of the M fields of mstatus, or of the bits of
\* mie and mip that are not delegated (device lines apart).  This is what the
\* privilege check of csr_read and the masks of csr_write must amount to.
MachineFields == mstatus \ sstatus_mask
LowModesKeepMachineState ==
    [][prv < PRV_M /\ prv' < PRV_M =>
         /\ UNCHANGED <<mideleg, medeleg, mtvec, mepc, mcause>>
         /\ MachineFields' = MachineFields
         /\ mie' \ mideleg = mie \ mideleg
         /\ (mip' \ mip) \cup (mip \ mip') \subseteq mideleg \cup MachineInts]_vars

\* The privileged architecture's rule for when interrupt i may be taken.
ArchEnabled(i) ==
    /\ i \in mie \cap mip
    /\ IF i \in mideleg
       THEN prv = PRV_U \/ (prv = PRV_S /\ SIE \in mstatus)
       ELSE prv < PRV_M \/ MIE \in mstatus

\* rv32_raise_interrupts decides that an interrupt is enabled and
\* raise_exception decides again, on its own, which mode takes it: the poll
\* must enter M exactly for a non-delegated, S for a delegated interrupt, and
\* only for one the architecture's rule enables.
InterruptGate ==
    [][rv32_raise_interrupts =>
         LET cause == IF prv' = PRV_M THEN mcause' ELSE scause'
             i == cause - IRQ
         IN  /\ ArchEnabled(i)
             /\ prv' = IF i \in mideleg THEN PRV_S ELSE PRV_M
             /\ prv' >= prv]_vars

\* The poll passes over no interrupt: when the rule enables one, one is taken.
NoEnabledInterruptIgnored ==
    prv # 2 /\ (\E i \in AllInts : ArchEnabled(i)) => \E i \in AllInts : Chosen(i)

=============================================================================
