----------------------------- MODULE LrScProofs ------------------------------
(***************************************************************************)
(* No increment is lost, for any number of tasks and increments, under a   *)
(* kernel that leaves no reservation behind when it switches tasks.        *)
(***************************************************************************)
EXTENDS LrSc, TLAPS

\* The strengthening: a reservation of Word belongs to the running task, which
\* stands between its LR and its SC with the current value in its register.
LrScInv ==
    /\ cur \in Tasks
    /\ at \in [Tasks -> {"start", "sc"}]
    /\ mem \in Nat /\ val \in [Tasks -> Nat]
    /\ lr_addr = Word => at[cur] = "sc" /\ val[cur] = mem
    /\ mem = done

LEMMA LrScInit == Init => LrScInv
BY AddressAssumption DEF Init, LrScInv

LEMMA LrScStep ==
    ASSUME OnSwitch = "lr_sc", LrScInv, [Next]_lrvars
    PROVE  LrScInv'
<1>1. CASE UNCHANGED lrvars
    BY <1>1 DEF lrvars, LrScInv
<1>2. ASSUME NEW t \in Tasks, LR(t)
      PROVE  LrScInv'
    BY <1>2 DEF LR, LrScInv
<1>3. ASSUME NEW t \in Tasks, SC(t)
      PROVE  LrScInv'
    <2>1. CASE lr_addr = Word
        BY <1>3, <2>1, AddressAssumption DEF SC, LrScInv
    <2>2. CASE lr_addr # Word
        BY <1>3, <2>2 DEF SC, LrScInv
    <2> QED BY <2>1, <2>2
<1>4. ASSUME NEW t \in Tasks, AMOADD(t)
      PROVE  LrScInv'
    \* The running task has not executed LR, so Word is not reserved.
    BY <1>4 DEF AMOADD, LrScInv
<1>5. ASSUME NEW t \in Tasks, SwitchTo(t)
      PROVE  LrScInv'
    BY <1>5, AddressAssumption DEF SwitchTo, LrScInv
<1> QED BY <1>1, <1>2, <1>3, <1>4, <1>5 DEF Next

\* No register and no word is ahead of the increments that were completed.
BehindInv ==
    /\ TypeOK
    /\ mem <= done
    /\ \A t \in Tasks : val[t] <= done

LEMMA BehindStep ==
    ASSUME BehindInv, [Next]_lrvars
    PROVE  BehindInv'
<1>1. CASE UNCHANGED lrvars
    BY <1>1 DEF lrvars, BehindInv, TypeOK
<1>2. ASSUME NEW t \in Tasks, LR(t)
      PROVE  BehindInv'
    BY <1>2, MaxDoneAssumption DEF LR, BehindInv, TypeOK
<1>3. ASSUME NEW t \in Tasks, SC(t)
      PROVE  BehindInv'
    <2>1. CASE lr_addr = Word
        <3>1. val[t] \in Nat /\ val[t] <= done /\ done < MaxDone /\ done \in Nat
            BY <1>3, MaxDoneAssumption DEF SC, BehindInv, TypeOK
        <3>2. /\ mem' = val[t] + 1 /\ lr_addr' = 0 /\ done' = done + 1 /\ cur' = cur /\ val' = val
              /\ at' = [at EXCEPT ![t] = "start"]
            BY <1>3, <2>1 DEF SC
        <3>3. \A u \in Tasks : val[u] <= done' /\ val[u] \in 0..MaxDone
            BY <3>1, <3>2, MaxDoneAssumption DEF BehindInv, TypeOK
        <3>4. mem' \in 0..MaxDone /\ done' \in 0..MaxDone /\ mem' <= done'
            BY <3>1, <3>2, MaxDoneAssumption
        <3> QED BY <3>2, <3>3, <3>4 DEF BehindInv, TypeOK
    <2>2. CASE lr_addr # Word
        BY <1>3, <2>2 DEF SC, BehindInv, TypeOK
    <2> QED BY <2>1, <2>2
<1>4. ASSUME NEW t \in Tasks, AMOADD(t)
      PROVE  BehindInv'
    BY <1>4, MaxDoneAssumption DEF AMOADD, BehindInv, TypeOK
<1>5. ASSUME NEW t \in Tasks, SwitchTo(t)
      PROVE  BehindInv'
    BY <1>5 DEF SwitchTo, BehindInv, TypeOK
<1> QED BY <1>1, <1>2, <1>3, <1>4, <1>5 DEF Next

\* Whatever the kernel does on a switch, lost updates only hold the word back:
\* it never counts more increments than were completed.
THEOREM LrScTyped == Spec => []TypeOK
<1>1. Init => BehindInv
    <2> SUFFICES ASSUME Init
                 PROVE  BehindInv
        OBVIOUS
    <2>1. 0 \in 0..MaxDone
        BY MaxDoneAssumption
    <2> QED BY <2>1 DEF Init, BehindInv, TypeOK
<1>2. BehindInv => TypeOK
    BY DEF BehindInv
<1> QED BY <1>1, <1>2, BehindStep, PTL DEF Spec

\* Increments of one word by any number of tasks, made of LR/SC or of AMOs, are
\* all kept (the ATOMICS case of rv32_exec_instr), provided that the kernel's
\* switch ends with a successful SC.
THEOREM IncrementsAreKept ==
    ASSUME OnSwitch = "lr_sc"
    PROVE  Spec => []NoLostUpdate
<1>1. Init => LrScInv
    BY LrScInit
<1>2. LrScInv /\ [Next]_lrvars => LrScInv'
    BY LrScStep
<1>3. LrScInv => NoLostUpdate
    BY DEF LrScInv, NoLostUpdate
<1> QED BY <1>1, <1>2, <1>3, PTL DEF Spec

\* The reason: when a task's SC is about to succeed, the register its LR
\* loaded still holds the word's value.
THEOREM SuccessIsFresh ==
    ASSUME OnSwitch = "lr_sc"
    PROVE  Spec => []ReservationIsFresh
<1>1. Init => LrScInv
    BY LrScInit
<1>2. LrScInv /\ [Next]_lrvars => LrScInv'
    BY LrScStep
<1>3. LrScInv => ReservationIsFresh
    BY DEF LrScInv, ReservationIsFresh
<1> QED BY <1>1, <1>2, <1>3, PTL DEF Spec

==============================================================================
