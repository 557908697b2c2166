----------------------------- MODULE ClintProofs -----------------------------
(***************************************************************************)
(* The timer of the CLINT for every word width: when clint_check_time takes *)
(* a deadline for passed, and what a pending MTIP implies.                 *)
(***************************************************************************)
EXTENDS ClintStores, TLAPS

LEMMA Widths ==
    /\ DoubleMod \in Nat \ {0}
    /\ SignBit \in Nat
    /\ DoubleMod = SignBit + SignBit
    /\ TimeCap < SignBit
<1>1. PICK k \in Nat : HalfMod = 2 * k /\ k # 0
    <2>1. HalfMod = 2 * (HalfMod \div 2) /\ HalfMod \div 2 \in Nat
        BY HalfModAssumption
    <2>2. HalfMod \div 2 # 0
        BY <2>1, HalfModAssumption
    <2> QED BY <2>1, <2>2
<1>2. PICK m \in Nat : m = k * k /\ m # 0
    BY <1>1
<1>3. DoubleMod = 4 * m
    BY <1>1, <1>2 DEF DoubleMod
<1>4. SignBit = 2 * m
    BY <1>3 DEF SignBit
<1> QED BY <1>2, <1>3, <1>4, TimeCapAssumption

\* Two half words make a double word.
LEMMA DoubleWord ==
    ASSUME NEW l \in 0..(HalfMod - 1), NEW h \in 0..(HalfMod - 1)
    PROVE  l + h * HalfMod \in 0..(DoubleMod - 1)
<1>1. HalfMod \in Nat \ {0} /\ l \in Nat /\ h \in Nat /\ h <= HalfMod - 1 /\ l <= HalfMod - 1
    BY HalfModAssumption
<1>2. PICK d \in Nat : h + d = HalfMod - 1
    <2>1. (HalfMod - 1) - h \in Nat
        BY <1>1
    <2> QED BY <1>1, <2>1
<1>3. PICK m \in Nat : m = d * HalfMod
    BY <1>1
<1>4. h * HalfMod + m = HalfMod * HalfMod - HalfMod
    BY <1>1, <1>2, <1>3
<1>5. h * HalfMod \in Nat /\ HalfMod * HalfMod \in Nat
    BY <1>1
<1> QED BY <1>1, <1>3, <1>4, <1>5 DEF DoubleMod

\* The signed comparison: a deadline counts as passed when it lies before the
\* clock or so far ahead that the difference has its sign bit set.
LEMMA ExpiredMeans ==
    ASSUME TypeOK
    PROVE  Expired <=> mtimecmp < instr_cnt \/ mtimecmp - instr_cnt >= SignBit
<1>1. /\ mtimecmp \in Nat /\ mtimecmp < DoubleMod
      /\ instr_cnt \in Nat /\ instr_cnt < SignBit
    BY Widths, TimeCapAssumption DEF TypeOK
<1>2. CASE mtimecmp >= instr_cnt
    <2>1. Delay = mtimecmp - instr_cnt
        <3>1. mtimecmp - instr_cnt \in 0..(DoubleMod - 1)
            BY <1>1, <1>2, Widths
        <3> QED BY <3>1, Widths DEF Delay
    <2> QED BY <1>1, <1>2, <2>1, Widths DEF Expired
<1>3. CASE mtimecmp < instr_cnt
    <2>1. Delay = mtimecmp - instr_cnt + DoubleMod
        <3>1. mtimecmp - instr_cnt + DoubleMod \in 0..(DoubleMod - 1)
            BY <1>1, <1>3, Widths
        <3> QED BY <1>1, <3>1, Widths DEF Delay
    <2> QED BY <1>1, <1>3, <2>1, Widths DEF Expired
<1> QED BY <1>1, <1>2, <1>3

ClintInv == TypeOK /\ PendingHasReason

LEMMA InitClint == Init => ClintInv
<1> SUFFICES ASSUME Init PROVE ClintInv
    OBVIOUS
<1>1. mtimecmp \in 0..(DoubleMod - 1) /\ instr_cnt \in 0..TimeCap
    BY Widths, TimeCapAssumption DEF Init
<1>2. mtip \in BOOLEAN /\ msip \in BOOLEAN /\ ~mtip
    BY Zenon DEF Init
<1> QED BY <1>1, <1>2 DEF ClintInv, TypeOK, PendingHasReason

LEMMA TickType ==
    ASSUME TypeOK, Tick PROVE instr_cnt' \in 0..TimeCap /\ instr_cnt' >= instr_cnt
BY TimeCapAssumption DEF TypeOK, Tick

LEMMA NextClint == ASSUME ClintInv, [Next]_cvars PROVE ClintInv'
<1>0. mtimecmp \in Nat /\ instr_cnt \in Nat
    BY Widths, TimeCapAssumption DEF ClintInv, TypeOK
<1>1. CASE UNCHANGED cvars
    BY <1>1 DEF cvars, ClintInv, TypeOK, PendingHasReason
<1>2. ASSUME NEW d \in Data, WriteMtimecmpLow(d) PROVE ClintInv'
    <2>1. d \in 0..(HalfMod - 1) /\ 0 \in 0..(HalfMod - 1)
        BY DataAssumption, HalfModAssumption
    <2>2. d + 0 * HalfMod = d
        BY <2>1, HalfModAssumption
    <2>3. d \in 0..(DoubleMod - 1)
        BY <2>1, <2>2, DoubleWord
    <2>4. mtimecmp' \in 0..(DoubleMod - 1)
        BY <1>2, <2>3 DEF WriteMtimecmpLow
    <2> QED BY <1>2, <2>4, TickType
            DEF WriteMtimecmpLow, ClintInv, TypeOK, PendingHasReason
<1>3. ASSUME NEW d \in Data, WriteMtimecmpHigh(d) PROVE ClintInv'
    <2>1. d \in 0..(HalfMod - 1) /\ mtimecmp % HalfMod \in 0..(HalfMod - 1)
        BY <1>0, DataAssumption, HalfModAssumption
    <2>2. mtimecmp' \in 0..(DoubleMod - 1)
        BY <1>3, <2>1, DoubleWord DEF WriteMtimecmpHigh
    <2> QED BY <1>3, <2>2, TickType
            DEF WriteMtimecmpHigh, ClintInv, TypeOK, PendingHasReason
<1>4. ASSUME NEW d \in Data, WriteMsip(d) PROVE ClintInv'
    \* Time passes; a deadline in the past stays there.
    BY <1>0, <1>4, TickType DEF WriteMsip, ClintInv, TypeOK, PendingHasReason
<1>5. CASE OtherInstr
    <2>1. mtip' \in BOOLEAN /\ msip' \in BOOLEAN /\ (mtip' => mtip)
        <3>1. mtip \in BOOLEAN
            BY DEF ClintInv, TypeOK
        <3>2. mtip' = mtip \/ mtip' = FALSE
            BY <1>5 DEF OtherInstr
        <3>3. msip' \in BOOLEAN
            BY <1>5 DEF OtherInstr
        <3>4. CASE mtip' = mtip
            BY <3>1, <3>3, <3>4, Zenon
        <3>5. CASE mtip' = FALSE
            BY <3>3, <3>5, Zenon
        <3> QED BY <3>2, <3>4, <3>5
    <2>2. /\ UNCHANGED mtimecmp
          /\ instr_cnt' \in 0..TimeCap /\ instr_cnt' >= instr_cnt
        BY <1>5, TickType DEF OtherInstr, ClintInv
    <2>3. PendingHasReason'
        BY <1>0, <2>1, <2>2, TimeCapAssumption DEF ClintInv, PendingHasReason
    <2> QED BY <2>1, <2>2, <2>3 DEF ClintInv, TypeOK
<1>6. CASE clint_check_time
    <2>1. Expired => mtimecmp < instr_cnt \/ mtimecmp >= SignBit
        BY <1>0, ExpiredMeans, Widths DEF ClintInv
    <2>2. mtip' => mtimecmp < instr_cnt \/ mtimecmp >= SignBit
        BY <1>6, <2>1 DEF clint_check_time, ClintInv, PendingHasReason
    <2>3. mtip' \in BOOLEAN
        BY <1>6 DEF clint_check_time
    <2> QED BY <1>6, <2>2, <2>3 DEF clint_check_time, ClintInv, TypeOK, PendingHasReason
<1> QED BY <1>1, <1>2, <1>3, <1>4, <1>5, <1>6 DEF Next

\* The comparator and the clock keep their widths, whatever the guest stores.
THEOREM ClintTypeCorrect == Spec => []TypeOK
<1>1. Init => ClintInv
    BY InitClint
<1>2. ClintInv /\ [Next]_cvars => ClintInv'
    BY NextClint
<1>3. ClintInv => TypeOK
    BY DEF ClintInv
<1> QED BY <1>1, <1>2, <1>3, PTL DEF Spec

\* MTIP is pending only when the deadline lies in the past or in the half of
\* the range that the signed comparison of clint_check_time takes for past:
\* every store to the comparator withdraws the interrupt of the old deadline.
THEOREM PendingJustified == Spec => []PendingHasReason
<1>1. Init => ClintInv
    BY InitClint
<1>2. ClintInv /\ [Next]_cvars => ClintInv'
    BY NextClint
<1>3. ClintInv => PendingHasReason
    BY DEF ClintInv
<1> QED BY <1>1, <1>2, <1>3, PTL DEF Spec

-----------------------------------------------------------------------------
(* The comparator and the guest's stores *)

LEMMA HalfWord ==
    ASSUME NEW H \in Nat \ {0}, NEW l \in 0..(H - 1), NEW h \in Nat
    PROVE  l % H = l /\ (l + h * H) % H = l
<1>1. \A q \in Nat, r \in 0..(H - 1) : (H * q + r) % H = r
    OBVIOUS
<1>2. l + h * H = H * h + l /\ l = H * 0 + l
    OBVIOUS
<1> QED BY <1>1, <1>2

\* The halves are half words, and the invariant says the rest.
StoresInv ==
    /\ low \in 0..(HalfMod - 1) /\ high \in 0..(HalfMod - 1)
    /\ DeadlineAsWritten

LEMMA StoresStep ==
    ASSUME StoresInv, [HNext]_<<cvars, low, high, last>>
    PROVE  StoresInv'
<1> USE HalfModAssumption
<1>1. ASSUME UNCHANGED <<mtimecmp, low, high, last>>
      PROVE  StoresInv'
    BY <1>1 DEF StoresInv, DeadlineAsWritten
<1>2. ASSUME NEW d \in Data, WriteMtimecmpLow(d), low' = d, last' = "low", high' = high
      PROVE  StoresInv'
    <2>1. d \in 0..(HalfMod - 1)
        BY DataAssumption
    <2>2. mtimecmp' % HalfMod = d
        BY <1>2, <2>1, HalfWord DEF WriteMtimecmpLow
    <2> QED BY <1>2, <2>1, <2>2 DEF StoresInv, DeadlineAsWritten
<1>3. ASSUME NEW d \in Data, WriteMtimecmpHigh(d), high' = d, last' = "high", low' = low
      PROVE  StoresInv'
    <2>1. d \in 0..(HalfMod - 1) /\ d \in Nat
        BY DataAssumption
    <2>2. mtimecmp' = low + d * HalfMod
        BY <1>3 DEF WriteMtimecmpHigh, StoresInv, DeadlineAsWritten
    <2>3. (low + d * HalfMod) % HalfMod = low
        BY <2>1, HalfWord DEF StoresInv
    <2> QED BY <1>3, <2>1, <2>2, <2>3 DEF StoresInv, DeadlineAsWritten
<1>4. ASSUME NEW d \in Data, WriteMsip(d), UNCHANGED <<low, high, last>>
      PROVE  StoresInv'
    BY <1>1, <1>4 DEF WriteMsip
<1>5. CASE (OtherInstr \/ clint_check_time) /\ UNCHANGED <<low, high, last>>
    BY <1>1, <1>5 DEF OtherInstr, clint_check_time
<1>6. CASE UNCHANGED <<cvars, low, high, last>>
    BY <1>1, <1>6 DEF cvars
<1> QED BY <1>2, <1>3, <1>4, <1>5, <1>6 DEF HNext

\* A guest that stores the high half last has the deadline it meant, for every
\* width of a word and every order and number of stores before it
\* (clint_write_handler).
THEOREM DeadlineStored == HSpec => []DeadlineAsWritten
<1>1. HInit => StoresInv
    <2> SUFFICES ASSUME HInit
                 PROVE  StoresInv
        OBVIOUS
    <2>1. 0 \in 0..(HalfMod - 1) /\ 0 % HalfMod = 0 /\ 0 + 0 * HalfMod = 0
        BY HalfModAssumption, HalfWord
    <2> QED BY <2>1 DEF HInit, Init, StoresInv, DeadlineAsWritten
<1>2. StoresInv => DeadlineAsWritten
    BY DEF StoresInv
<1> QED BY <1>1, <1>2, StoresStep, PTL DEF HSpec
==============================================================================
