------------------------------ MODULE ExecProofs -----------------------------
(***************************************************************************)
(* Whatever the program, the words and the answers of the memory are, an   *)
(* instruction keeps register 0 at zero, and one that traps leaves         *)
(* registers, memory and reservation alone.  Both follow from one fact,    *)
(* proved for each way in which an instruction ends and then for every     *)
(* entry of the decoder.                                                   *)
(*                                                                         *)
(* Every register, address and byte also stays a word or a byte, at every  *)
(* width.  That needs what the operators of the model compute: powers of   *)
(* two, the recursion that & is, and the sums that loads and the compressed *)
(* immediates are.  Induction is over the least element of a set, from the *)
(* well-founded order of the naturals.                                     *)
(*                                                                         *)
(* And what the immediate macros of the decoder put together is what an    *)
(* assembler took apart, format by format, for every value of the operands.*)
(***************************************************************************)
EXTENDS Exec, Assembler, WellFoundedInduction, FiniteSetTheorems, TLAPS

RegInv == DOMAIN x = Reg /\ x[0] = 0

Precise == UNCHANGED <<x, mem, lr_addr>> /\ trap'.epc = pc /\ pc' = TrapVector

\* What an instruction may do.
Disciplined == RegInv' /\ (trap' = NoTrap \/ Precise)

-----------------------------------------------------------------------------
(* How an instruction ends *)

LEMMA SetRegKeeps ==
    ASSUME RegInv, NEW rd, NEW v
    PROVE  DOMAIN SetReg(rd, v) = Reg /\ SetReg(rd, v)[0] = 0
<1>1. 0 \in Reg
    BY DEF Reg
<1> QED BY <1>1 DEF SetReg, RegInv

LEMMA ContinueQuiet ==
    ASSUME RegInv, NEW rd, NEW v, NEW at, x' = SetReg(rd, v), Continue(at)
    PROVE  Disciplined
<1>1. DOMAIN x' = Reg /\ x'[0] = 0
    BY SetRegKeeps
<1> QED BY <1>1 DEF Disciplined, RegInv, Continue

LEMMA SetsDisciplined ==
    ASSUME RegInv
    PROVE  \A rd, v, at : Sets(rd, v, at) => Disciplined
BY ContinueQuiet DEF Sets

LEMMA TrapDisciplined ==
    ASSUME RegInv
    PROVE  \A cause, tval : raise_exception(cause, tval) => Disciplined
<1> SUFFICES ASSUME NEW cause, NEW tval, raise_exception(cause, tval)
             PROVE  Disciplined
    OBVIOUS
<1>1. UNCHANGED <<x, mem, lr_addr>> /\ trap'.epc = pc /\ pc' = TrapVector
    BY DEF raise_exception
<1> QED BY <1>1 DEF Disciplined, RegInv, Precise

LEMMA IllegalDisciplined ==
    ASSUME RegInv
    PROVE  \A w : ILL_INSTR(w) \/ C_ILL_INSTR(w) => Disciplined
BY TrapDisciplined DEF ILL_INSTR, C_ILL_INSTR

LEMMA ComputesDisciplined ==
    ASSUME RegInv
    PROVE  \A rd, v, at : Computes(rd, v, at) => Disciplined
<1> SUFFICES ASSUME NEW rd, NEW v, NEW at, Computes(rd, v, at)
             PROVE  Disciplined
    OBVIOUS
<1>1. CASE v = HostTrap /\ rd # 0
    BY <1>1 DEF Computes, Disciplined, RegInv
<1>2. CASE ~(v = HostTrap /\ rd # 0)
    BY <1>2, SetsDisciplined DEF Computes
<1> QED BY <1>1, <1>2

-----------------------------------------------------------------------------
(* Memory *)

LEMMA LoadDisciplined ==
    ASSUME RegInv
    PROVE  \A rd, a, n, signed, at : Load(rd, a, n, signed, at) => Disciplined
BY SetsDisciplined, TrapDisciplined DEF Load

LEMMA StoreDisciplined ==
    ASSUME RegInv
    PROVE  \A a, n, v, at : Store(a, n, v, at) => Disciplined
<1> SUFFICES ASSUME NEW a, NEW n, NEW v, NEW at, Store(a, n, v, at)
             PROVE  Disciplined
    OBVIOUS
<1>1. CASE WriteResult[a] # "MMU_OK"
    BY <1>1, TrapDisciplined DEF Store
<1>2. CASE WriteResult[a] = "MMU_OK"
    BY <1>2 DEF Store, Continue, Disciplined, RegInv
<1> QED BY <1>1, <1>2

LEMMA AmoDisciplined ==
    ASSUME RegInv
    PROVE  \A funct5, rd, a, b : Amo(funct5, rd, a, b) => Disciplined
<1> SUFFICES ASSUME NEW funct5, NEW rd, NEW a, NEW b, Amo(funct5, rd, a, b)
             PROVE  Disciplined
    OBVIOUS
<1>1. CASE ReadResult[a] # "MMU_OK" \/ WriteResult[a] # "MMU_OK"
    BY <1>1, TrapDisciplined DEF Amo, AmoFault
<1>2. CASE ReadResult[a] = "MMU_OK" /\ WriteResult[a] = "MMU_OK"
    <2>1. x' = SetReg(rd, Loaded(a, 4)) /\ Continue(pc + 4)
        BY <1>2 DEF Amo
    <2> QED BY <2>1, ContinueQuiet
<1> QED BY <1>1, <1>2

LEMMA ReservationDisciplined ==
    ASSUME RegInv
    PROVE  /\ \A rd, a : LR(rd, a) => Disciplined
           /\ \A rd, a, b : SC(rd, a, b) => Disciplined
<1>1. ASSUME NEW rd, NEW a, LR(rd, a)
      PROVE  Disciplined
    <2>1. CASE ReadResult[a] # "MMU_OK"
        BY <1>1, <2>1, TrapDisciplined DEF LR, AmoFault
    <2>2. CASE ReadResult[a] = "MMU_OK"
        <3>1. x' = SetReg(rd, Loaded(a, 4)) /\ Continue(pc + 4)
            BY <1>1, <2>2 DEF LR
        <3> QED BY <3>1, ContinueQuiet
    <2> QED BY <2>1, <2>2
<1>2. ASSUME NEW rd, NEW a, NEW b, SC(rd, a, b)
      PROVE  Disciplined
    <2>1. CASE lr_addr # a
        BY <1>2, <2>1, SetsDisciplined DEF SC
    <2>2. CASE lr_addr = a /\ WriteResult[a] # "MMU_OK"
        BY <1>2, <2>2, TrapDisciplined DEF SC, AmoFault
    <2>3. CASE lr_addr = a /\ WriteResult[a] = "MMU_OK"
        <3>1. x' = SetReg(rd, 0) /\ Continue(pc + 4)
            BY <1>2, <2>3 DEF SC
        <3> QED BY <3>1, ContinueQuiet
    <2> QED BY <2>1, <2>2, <2>3
<1> QED BY <1>1, <1>2

-----------------------------------------------------------------------------
(* The decoder, entry by entry *)

LEMMA CompressedDisciplined ==
    ASSUME RegInv, NEW w, rv32_exec_compressed_instr(w)
    PROVE  Disciplined
<1>1. ASSUME Quadrant0(w)
      PROVE  Disciplined
    BY <1>1, SetsDisciplined, LoadDisciplined, StoreDisciplined, IllegalDisciplined DEF Quadrant0
<1>2. ASSUME MiscAlu(w)
      PROVE  Disciplined
    BY <1>2, SetsDisciplined, IllegalDisciplined DEF MiscAlu
<1>3. \A taken : C_Branch(taken, w) => Disciplined
    BY SetsDisciplined DEF C_Branch
<1>4. ASSUME Quadrant1(w)
      PROVE  Disciplined
    BY <1>2, <1>3, <1>4, SetsDisciplined, IllegalDisciplined DEF Quadrant1
<1>5. ASSUME JumpMoveAdd(w)
      PROVE  Disciplined
    BY <1>5, SetsDisciplined, TrapDisciplined, IllegalDisciplined DEF JumpMoveAdd
<1>6. ASSUME Quadrant2(w)
      PROVE  Disciplined
    BY <1>5, <1>6, SetsDisciplined, LoadDisciplined, StoreDisciplined, IllegalDisciplined
       DEF Quadrant2
<1> QED BY <1>1, <1>4, <1>6 DEF rv32_exec_compressed_instr

LEMMA AtomicsDisciplined ==
    ASSUME RegInv, NEW w, Atomics(w)
    PROVE  Disciplined
BY AmoDisciplined, ReservationDisciplined, IllegalDisciplined DEF Atomics

LEMMA ArithmeticDisciplined ==
    ASSUME RegInv, NEW w, Op(w) \/ OpImm(w) \/ Upper(w, 0) \/ Upper(w, pc)
    PROVE  Disciplined
<1>1. ASSUME Op(w)
      PROVE  Disciplined
    BY <1>1, SetsDisciplined, ComputesDisciplined, IllegalDisciplined DEF Op
<1>2. ASSUME OpImm(w)
      PROVE  Disciplined
    BY <1>2, SetsDisciplined DEF OpImm
<1>3. ASSUME Upper(w, 0) \/ Upper(w, pc)
      PROVE  Disciplined
    BY <1>3, SetsDisciplined DEF Upper
<1> QED BY <1>1, <1>2, <1>3

LEMMA TransferDisciplined ==
    ASSUME RegInv, NEW w, Branch(w) \/ Jal(w) \/ Jalr(w) \/ MiscMem(w) \/ System(w)
    PROVE  Disciplined
<1>1. ASSUME Branch(w)
      PROVE  Disciplined
    BY <1>1, SetsDisciplined, IllegalDisciplined DEF Branch
<1>2. ASSUME Jal(w) \/ Jalr(w)
      PROVE  Disciplined
    BY <1>2, SetsDisciplined DEF Jal, Jalr
<1>3. ASSUME MiscMem(w)
      PROVE  Disciplined
    BY <1>3, SetsDisciplined, IllegalDisciplined DEF MiscMem
<1>4. ASSUME System(w)
      PROVE  Disciplined
    BY <1>4, TrapDisciplined, IllegalDisciplined, AtomicsDisciplined DEF System
<1> QED BY <1>1, <1>2, <1>3, <1>4

LEMMA AccessDisciplined ==
    ASSUME RegInv, NEW w, LoadOp(w) \/ StoreOp(w)
    PROVE  Disciplined
<1>1. ASSUME LoadOp(w)
      PROVE  Disciplined
    BY <1>1, LoadDisciplined, IllegalDisciplined DEF LoadOp
<1>2. ASSUME StoreOp(w)
      PROVE  Disciplined
    BY <1>2, StoreDisciplined, IllegalDisciplined DEF StoreOp
<1> QED BY <1>1, <1>2

LEMMA InstrDisciplined ==
    ASSUME RegInv, NEW w, rv32_exec_instr(w)
    PROVE  Disciplined
BY CompressedDisciplined, AtomicsDisciplined, ArithmeticDisciplined, TransferDisciplined,
   AccessDisciplined, IllegalDisciplined DEF rv32_exec_instr

LEMMA StepDisciplined ==
    ASSUME RegInv, Next
    PROVE  Disciplined
BY InstrDisciplined DEF Next, rv32_run

-----------------------------------------------------------------------------
LEMMA RegInvInit == Init => RegInv
BY StartsAssumption DEF Init, RegInv

LEMMA RegInvStep == RegInv /\ [Next]_vars => RegInv'
<1>1. CASE UNCHANGED vars
    BY <1>1 DEF vars, RegInv
<1>2. ASSUME RegInv, Next
      PROVE  RegInv'
    BY <1>2, StepDisciplined DEF Disciplined
<1> QED BY <1>1, <1>2

\* Register 0 reads as zero after any sequence of instructions
\* (rv32_exec_instr and rv32_exec_compressed_instr), at every width of words,
\* for every program and every memory.
THEOREM RegisterZero == Spec => []ZeroStaysZero
<1>1. RegInv => ZeroStaysZero
    BY DEF RegInv, ZeroStaysZero
<1> QED BY <1>1, RegInvInit, RegInvStep, PTL DEF Spec

\* An instruction that traps, wherever it stands in its work when the memory
\* refuses it, changes no register, no memory and not the reservation, and
\* reports its own pc (the exits exception and illegal_instr).
THEOREM PreciseTraps == Spec => TrapsArePrecise
<1>1. RegInv /\ [Next]_vars =>
        [trap' # NoTrap =>
           UNCHANGED <<x, mem, lr_addr>> /\ trap'.epc = pc /\ pc' = TrapVector]_vars
    BY StepDisciplined DEF Disciplined, Precise
<1> QED BY <1>1, RegInvInit, RegInvStep, PTL DEF Spec, TrapsArePrecise

-----------------------------------------------------------------------------
(* Induction *)

\* A set of naturals that is not empty has a least member.
LEMMA Least ==
    ASSUME NEW T, T \subseteq Nat, T # {}
    PROVE  \E n \in T : \A k \in T : n <= k
<1> DEFINE below == OpToRel(<, Nat)
<1>1. IsWellFoundedOn(below, Nat)
    BY NatLessThanWellFounded
<1>2. \A k \in Nat, n \in Nat : k < n => <<k, n>> \in below
    BY DEF OpToRel
<1> HIDE DEF below
<1>3. PICK n \in T : \A k \in T : <<k, n>> \notin below
    BY <1>1, WFMin, Zenon
<1>4. ASSUME NEW k \in T
      PROVE  n <= k
    <2>1. n \in Nat /\ k \in Nat
        OBVIOUS
    <2>2. ~(k < n)
        BY <1>2, <1>3, <2>1
    <2> QED BY <2>1, <2>2
<1> QED BY <1>4

\* What holds of 0 and of the next of each holds of every natural.
LEMMA Induction ==
    ASSUME NEW S, 0 \in S, \A n \in S \cap Nat : n + 1 \in S
    PROVE  \A n \in Nat : n \in S
<1> DEFINE T == Nat \ S
<1>1. SUFFICES ASSUME T # {}
               PROVE  FALSE
    OBVIOUS
<1>2. PICK n \in T : \A k \in T : n <= k
    <2>1. T \subseteq Nat
        OBVIOUS
    <2> HIDE DEF T
    <2> QED BY <1>1, <2>1, Least
<1>3. n \in Nat /\ n # 0 /\ n - 1 \in Nat
    OBVIOUS
<1>4. n - 1 \in S
    BY <1>2, <1>3
<1>5. (n - 1) + 1 = n
    BY <1>3
<1> QED BY <1>3, <1>4, <1>5

-----------------------------------------------------------------------------
(* Powers of two *)

LEMMA SubsetsOf ==
    ASSUME NEW n \in Nat
    PROVE  /\ IsFiniteSet(SUBSET (1..n))
           /\ Cardinality(SUBSET (1..n)) \in Nat \ {0}
           /\ 2 ^ n = Cardinality(SUBSET (1..n))
<1>1. IsFiniteSet(1..n) /\ Cardinality(1..n) = n
    BY FS_Interval
<1>2. IsFiniteSet(SUBSET (1..n)) /\ Cardinality(SUBSET (1..n)) = 2 ^ Cardinality(1..n)
    BY <1>1, FS_SUBSET
<1>3. Cardinality(SUBSET (1..n)) \in Nat
    BY <1>2, FS_CardinalityType
<1>4. Cardinality(SUBSET (1..n)) # 0
    <2>1. SUBSET (1..n) # {}
        OBVIOUS
    <2> QED BY <1>2, <2>1, FS_EmptySet
<1> QED BY <1>1, <1>2, <1>3, <1>4

\* The library knows 2 ^ n as the number of subsets of n things.
LEMMA Powers ==
    ASSUME NEW n \in Nat
    PROVE  /\ 2 ^ n \in Nat \ {0}
           /\ 2 ^ (n + 1) = 2 * 2 ^ n
<1> DEFINE A == SUBSET (1..n)
           B == {s \cup {n + 1} : s \in A}
           f == [s \in A |-> s \cup {n + 1}]
<1>1. IsFiniteSet(A) /\ Cardinality(A) \in Nat \ {0} /\ 2 ^ n = Cardinality(A)
    BY SubsetsOf
<1>2. f \in Bijection(A, B)
    <2>1. ASSUME NEW s \in A, NEW t \in A, f[s] = f[t]
          PROVE  s = t
        <3>1. n + 1 \notin s /\ n + 1 \notin t
            OBVIOUS
        <3>2. s \cup {n + 1} = t \cup {n + 1}
            BY <2>1
        <3> QED BY <3>1, <3>2
    <2>2. f \in [A -> B] /\ \A t \in B : \E s \in A : f[s] = t
        OBVIOUS
    <2> HIDE DEF A, B, f
    <2> QED BY <2>1, <2>2 DEF Bijection, Injection, Surjection, IsInjective
<1>3. IsFiniteSet(B) /\ Cardinality(B) = Cardinality(A)
    <2> HIDE DEF A, B, f
    <2> QED BY <1>1, <1>2, FS_Bijection DEF ExistsBijection
<1>4. SUBSET (1..(n + 1)) = A \cup B
    <2>1. ASSUME NEW s \in SUBSET (1..(n + 1))
          PROVE  s \in A \cup B
        <3>1. CASE n + 1 \notin s
            BY <3>1
        <3>2. CASE n + 1 \in s
            <4>1. s \ {n + 1} \in A /\ s = (s \ {n + 1}) \cup {n + 1}
                BY <3>2
            <4> QED BY <4>1
        <3> QED BY <3>1, <3>2
    <2>2. ASSUME NEW s \in A
          PROVE  s \in SUBSET (1..(n + 1)) /\ s \cup {n + 1} \in SUBSET (1..(n + 1))
        <3>1. \A k \in s : k \in 1..(n + 1)
            OBVIOUS
        <3> QED BY <3>1
    <2>3. \A s \in B : s \in SUBSET (1..(n + 1))
        BY <2>2
    <2> HIDE DEF A, B
    <2>4. \A s : s \in SUBSET (1..(n + 1)) <=> s \in A \cup B
        BY <2>1, <2>2, <2>3
    <2> QED BY <2>4
<1>5. A \cap B = {}
    OBVIOUS
<1>6. Cardinality(A \cup B) = Cardinality(A) + Cardinality(B)
    <2> HIDE DEF A, B
    <2>1. Cardinality(A \cap B) = 0
        BY <1>5, FS_EmptySet
    <2> QED BY <1>1, <1>3, <2>1, FS_Union
<1>7. 2 ^ (n + 1) = Cardinality(SUBSET (1..(n + 1)))
    BY SubsetsOf
<1>8. 2 ^ (n + 1) = Cardinality(A) + Cardinality(A)
    <2> HIDE DEF A, B
    <2> QED BY <1>3, <1>4, <1>6, <1>7
<1> HIDE DEF A
<1> QED BY <1>1, <1>8

LEMMA PowerOfSum ==
    ASSUME NEW m \in Nat, NEW n \in Nat
    PROVE  2 ^ (m + n) = 2 ^ m * 2 ^ n
<1> DEFINE S == {k \in Nat : 2 ^ (m + k) = 2 ^ m * 2 ^ k}
<1>1. 0 \in S
    BY Powers
<1>2. ASSUME NEW k \in S \cap Nat
      PROVE  k + 1 \in S
    <2>1. /\ 2 ^ (k + 1) = 2 * 2 ^ k /\ 2 ^ k \in Nat
          /\ 2 ^ m \in Nat
          /\ m + k \in Nat /\ 2 ^ ((m + k) + 1) = 2 * 2 ^ (m + k)
        BY Powers
    <2>2. 2 ^ (m + (k + 1)) = 2 * (2 ^ m * 2 ^ k)
        <3>1. (m + k) + 1 = m + (k + 1)
            OBVIOUS
        <3> QED BY <2>1, <3>1
    <2>3. \A a \in Nat, b \in Nat : 2 * (a * b) = a * (2 * b)
        OBVIOUS
    <2> QED BY <2>1, <2>2, <2>3
<1>3. n \in S
    <2> HIDE DEF S
    <2> QED BY <1>1, <1>2, Induction
<1> QED BY <1>3

LEMMA Smaller ==
    ASSUME NEW m \in Nat, NEW n \in Nat, m <= n
    PROVE  2 ^ m <= 2 ^ n
<1>1. n - m \in Nat /\ n = m + (n - m)
    OBVIOUS
<1>2. 2 ^ n = 2 ^ m * 2 ^ (n - m)
    BY <1>1, PowerOfSum
<1>3. 2 ^ m \in Nat \ {0} /\ 2 ^ (n - m) \in Nat \ {0}
    BY <1>1, Powers
<1>4. \A a \in Nat \ {0}, b \in Nat \ {0} : a <= a * b
    OBVIOUS
<1> QED BY <1>2, <1>3, <1>4

-----------------------------------------------------------------------------
(* Definition by recursion: d gives the value at a point from the values    *)
(* at points of smaller measure.                                            *)

\* d looks at no other values than those.
LooksBelow(A, S, m, d) ==
    \A g \in [A -> S], h \in [A -> S], p \in A :
      (\A q \in A : m[q] < m[p] => g[q] = h[q]) => d[<<g, p>>] = d[<<h, p>>]

Solves(f, A, d) == \A p \in A : f[p] = d[<<f, p>>]

\* Then there is a function that is what d makes of it, at every point.
LEMMA Recursion ==
    ASSUME NEW A, NEW S, NEW m \in [A -> Nat], NEW d \in [[A -> S] \X A -> S],
           S # {}, LooksBelow(A, S, m, d)
    PROVE  \E f \in [A -> S] : Solves(f, A, d)
<1> DEFINE Upto(g, n) == \A p \in A : m[p] < n => g[p] = d[<<g, p>>]
<1>1. \A n \in Nat : \E g \in [A -> S] : Upto(g, n)
    <2> DEFINE N == {n \in Nat : \E g \in [A -> S] : Upto(g, n)}
    <2>1. 0 \in N
        <3>1. PICK s \in S : TRUE
            OBVIOUS
        <3>2. [p \in A |-> s] \in [A -> S] /\ \A p \in A : ~(m[p] < 0)
            OBVIOUS
        <3>3. Upto([p \in A |-> s], 0)
            BY <3>2
        <3> HIDE DEF Upto
        <3> QED BY <3>2, <3>3
    <2>2. ASSUME NEW n \in N \cap Nat
          PROVE  n + 1 \in N
        <3>1. PICK g \in [A -> S] : Upto(g, n)
            OBVIOUS
        <3> DEFINE h == [p \in A |-> d[<<g, p>>]]
        <3>2. h \in [A -> S] /\ \A p \in A : h[p] = d[<<g, p>>]
            OBVIOUS
        <3>3. \A p \in A : m[p] < n => h[p] = g[p]
            BY <3>1, <3>2
        <3> HIDE DEF h
        <3>4. ASSUME NEW p \in A, m[p] < n + 1
              PROVE  h[p] = d[<<h, p>>]
            <4>1. \A q \in A : m[q] < m[p] => m[q] < n
                BY <3>4
            <4>2. \A q \in A : m[q] < m[p] => h[q] = g[q]
                BY <3>3, <4>1
            <4>3. d[<<h, p>>] = d[<<g, p>>]
                BY <3>2, <4>2 DEF LooksBelow
            <4> QED BY <3>2, <4>3
        <3>5. Upto(h, n + 1)
            BY <3>4
        <3> HIDE DEF Upto
        <3> QED BY <3>2, <3>5
    <2> HIDE DEF N
    <2>3. \A n \in Nat : n \in N
        BY <2>1, <2>2, Induction
    <2> QED BY <2>3 DEF N
<1>2. ASSUME NEW g \in [A -> S], NEW h \in [A -> S], NEW n \in Nat, Upto(g, n), Upto(h, n)
      PROVE  \A p \in A : m[p] < n => g[p] = h[p]
    <2> DEFINE N == {k \in Nat : k <= n => \A p \in A : m[p] < k => g[p] = h[p]}
    <2>1. 0 \in N
        OBVIOUS
    <2>2. ASSUME NEW k \in N \cap Nat
          PROVE  k + 1 \in N
        <3>1. ASSUME k + 1 <= n, NEW p \in A, m[p] < k + 1
              PROVE  g[p] = h[p]
            <4>1. \A q \in A : m[q] < m[p] => m[q] < k /\ k <= n
                BY <3>1
            <4>2. \A q \in A : m[q] < m[p] => g[q] = h[q]
                BY <4>1
            <4>3. m[p] < n
                BY <3>1
            <4> QED BY <1>2, <4>2, <4>3 DEF LooksBelow
        <3> QED BY <3>1
    <2>3. \A k \in Nat : k \in N
        <3> HIDE DEF N
        <3> QED BY <2>1, <2>2, Induction
    <2> QED BY <2>3
<1> DEFINE G(n) == CHOOSE g \in [A -> S] : Upto(g, n)
           f == [p \in A |-> G(m[p] + 1)[p]]
<1>3. \A n \in Nat : G(n) \in [A -> S] /\ Upto(G(n), n)
    <2> HIDE DEF Upto
    <2> QED BY <1>1
<1>4. f \in [A -> S] /\ \A p \in A : m[p] + 1 \in Nat /\ f[p] = G(m[p] + 1)[p]
    <2> HIDE DEF G
    <2>1. \A p \in A : m[p] + 1 \in Nat
        OBVIOUS
    <2> QED BY <1>3, <2>1
<1> HIDE DEF G, f
<1>5. ASSUME NEW p \in A
      PROVE  f[p] = d[<<f, p>>]
    <2>1. PICK g \in [A -> S] : g = G(m[p] + 1) /\ Upto(g, m[p] + 1)
        <3> HIDE DEF Upto
        <3> QED BY <1>3, <1>4
    <2>2. ASSUME NEW q \in A, m[q] < m[p]
          PROVE  f[q] = g[q]
        <3>1. PICK h \in [A -> S] : h = G(m[q] + 1) /\ Upto(h, m[q] + 1)
            <4> HIDE DEF Upto
            <4> QED BY <1>3, <1>4
        <3>2. \A r \in A : m[r] < m[q] + 1 => m[r] < m[p] + 1
            BY <2>2
        <3>3. Upto(g, m[q] + 1)
            BY <2>1, <3>2
        <3>4. m[q] + 1 \in Nat /\ m[q] < m[q] + 1
            OBVIOUS
        <3>5. h[q] = g[q]
            <4> HIDE DEF Upto
            <4> QED BY <1>2, <3>1, <3>3, <3>4
        <3> QED BY <1>4, <3>1, <3>5
    <2>3. d[<<f, p>>] = d[<<g, p>>]
        BY <1>4, <2>2 DEF LooksBelow
    <2>4. g[p] = d[<<g, p>>]
        BY <2>1
    <2> QED BY <1>4, <2>1, <2>3, <2>4
<1> QED BY <1>4, <1>5 DEF Solves

-----------------------------------------------------------------------------
(* & of the words *)

LEMMA Halves ==
    ASSUME NEW a \in Nat
    PROVE  /\ a \div 2 \in Nat /\ a % 2 \in {0, 1} /\ a = 2 * (a \div 2) + (a % 2)
           /\ a # 0 => a \div 2 < a
OBVIOUS

LEMMA TwoBits ==
    ASSUME NEW i \in {0, 1}, NEW j \in {0, 1}
    PROVE  i * j \in {0, 1} /\ i * j <= i /\ i * j <= j /\ i + j - i * j <= 1
OBVIOUS

LEMMA Joins ==
    ASSUME NEW r \in Nat, NEW c1 \in Nat, NEW e1 \in Nat, NEW c0 \in {0, 1}, NEW e0 \in {0, 1},
           2 * c1 + c0 < 2 * r, 2 * e1 + e0 < 2 * r
    PROVE  /\ c1 < r /\ e1 < r
           /\ \A high \in Nat, low \in {0, 1} :
                /\ high <= c1 /\ high <= e1 /\ c1 + e1 - high < r
                /\ low <= c0 /\ low <= e0 /\ c0 + e0 - low <= 1
                => /\ 2 * high + low \in Nat
                   /\ 2 * high + low <= 2 * c1 + c0 /\ 2 * high + low <= 2 * e1 + e0
                   /\ (2 * c1 + c0) + (2 * e1 + e0) - (2 * high + low) < 2 * r
OBVIOUS

\* The definition of Common is an equation that has a solution, so that it is one.
LEMMA AndRecursion ==
    Common = [p \in Nat \X Nat |->
             IF p[1] = 0 \/ p[2] = 0 THEN 0
             ELSE 2 * Common[<<p[1] \div 2, p[2] \div 2>>] + (p[1] % 2) * (p[2] % 2)]
<1> DEFINE A == Nat \X Nat
           m == [p \in A |-> p[1]]
           half == [p \in A |-> <<p[1] \div 2, p[2] \div 2>>]
           low == [p \in A |-> (p[1] % 2) * (p[2] % 2)]
           D == [A -> Nat] \X A
           d == [gp \in D |->
                   IF gp[2][1] = 0 \/ gp[2][2] = 0 THEN 0
                   ELSE 2 * gp[1][half[gp[2]]] + low[gp[2]]]
<1>1. m \in [A -> Nat]
    OBVIOUS
<1>2. half \in [A -> A] /\ low \in [A -> Nat]
    <2>1. ASSUME NEW a \in Nat, NEW b \in Nat
          PROVE  a \div 2 \in Nat /\ b \div 2 \in Nat /\ (a % 2) * (b % 2) \in Nat
        <3>1. a % 2 \in {0, 1} /\ b % 2 \in {0, 1}
            BY Halves
        <3> QED BY <3>1, Halves
    <2> QED BY <2>1
<1>3. \A p \in A : p[1] # 0 => m[half[p]] < m[p]
    BY Halves
<1> HIDE DEF half, low, m
<1>4. \A g \in [A -> Nat], p \in A :
        d[<<g, p>>] = IF p[1] = 0 \/ p[2] = 0 THEN 0 ELSE 2 * g[half[p]] + low[p]
    OBVIOUS
<1>5. d \in [D -> Nat]
    <2>1. ASSUME NEW g \in [A -> Nat], NEW p \in A
          PROVE  d[<<g, p>>] \in Nat
        <3>1. half[p] \in A /\ low[p] \in Nat
            BY <1>2
        <3>2. g[half[p]] \in Nat
            BY <3>1
        <3> QED BY <1>4, <3>1, <3>2
    <2>2. \A gp \in D : gp = <<gp[1], gp[2]>> /\ gp[1] \in [A -> Nat] /\ gp[2] \in A
        OBVIOUS
    <2>3. d = [gp \in D |-> d[gp]]
        OBVIOUS
    <2> HIDE DEF d
    <2>4. \A gp \in D : d[gp] \in Nat
        BY <2>1, <2>2
    <2> HIDE DEF D
    <2> QED BY <2>3, <2>4
<1>6. ASSUME NEW g \in [A -> Nat], NEW h \in [A -> Nat], NEW p \in A,
             \A q \in A : m[q] < m[p] => g[q] = h[q]
      PROVE  d[<<g, p>>] = d[<<h, p>>]
    <2>1. p[1] # 0 => g[half[p]] = h[half[p]]
        BY <1>2, <1>3, <1>6
    <2> HIDE DEF d
    <2> QED BY <1>4, <2>1
<1>7. PICK f \in [A -> Nat] : Solves(f, A, d)
    <2>1. d \in [[A -> Nat] \X A -> Nat] /\ Nat # {}
        BY <1>5
    <2>2. LooksBelow(A, Nat, m, d)
        <3> HIDE DEF A, d
        <3> QED BY <1>6 DEF LooksBelow
    <2> HIDE DEF A, D, d
    <2> QED BY <1>1, <2>1, <2>2, Recursion
<1>8. f = [p \in A |->
             IF p[1] = 0 \/ p[2] = 0 THEN 0
             ELSE 2 * f[<<p[1] \div 2, p[2] \div 2>>] + (p[1] % 2) * (p[2] % 2)]
    <2>1. \A p \in A : f[p] = IF p[1] = 0 \/ p[2] = 0 THEN 0 ELSE 2 * f[half[p]] + low[p]
        <3> HIDE DEF d
        <3> QED BY <1>4, <1>7 DEF Solves
    <2>2. \A p \in A : half[p] = <<p[1] \div 2, p[2] \div 2>> /\ low[p] = (p[1] % 2) * (p[2] % 2)
        BY DEF half, low
    <2>3. \A p \in A : f[p] = IF p[1] = 0 \/ p[2] = 0 THEN 0
                  ELSE 2 * f[<<p[1] \div 2, p[2] \div 2>>] + (p[1] % 2) * (p[2] % 2)
        BY <2>1, <2>2
    <2> QED BY <2>3
<1> QED BY <1>8, Zenon DEF Common

LEMMA AndOf ==
    ASSUME NEW a \in Nat, NEW b \in Nat
    PROVE  And(a, b) = IF a = 0 \/ b = 0 THEN 0
                       ELSE 2 * And(a \div 2, b \div 2) + (a % 2) * (b % 2)
<1>1. <<a, b>> \in Nat \X Nat /\ <<a, b>>[1] = a /\ <<a, b>>[2] = b
    OBVIOUS
<1> QED BY <1>1, AndRecursion DEF And

\* And is at most each of its arguments, and as wide as they are; what is
\* in either of them is no wider.
LEMMA AndBounds ==
    ASSUME NEW n \in Nat, NEW a \in Nat, NEW b \in Nat, a < 2 ^ n, b < 2 ^ n
    PROVE  /\ And(a, b) \in Nat /\ And(a, b) <= a /\ And(a, b) <= b
           /\ a + b - And(a, b) < 2 ^ n
<1> DEFINE Bounded(q, c, e) ==
             /\ And(c, e) \in Nat /\ And(c, e) <= c /\ And(c, e) <= e
             /\ c + e - And(c, e) < q
           S == {k \in Nat : \A q \in Nat, c \in Nat, e \in Nat :
                               q = 2 ^ k /\ c < q /\ e < q => Bounded(q, c, e)}
<1>1. ASSUME NEW q \in Nat, NEW c \in Nat, NEW e \in Nat, c < q, e < q, c = 0 \/ e = 0
      PROVE  Bounded(q, c, e)
    <2>1. And(c, e) = 0
        BY <1>1, AndOf
    <2> QED BY <1>1, <2>1
<1>2. 0 \in S
    <2>1. \A q \in Nat, c \in Nat : q = 2 ^ 0 /\ c < q => c = 0
        OBVIOUS
    <2> HIDE DEF Bounded
    <2> QED BY <1>1, <2>1
<1>3. ASSUME NEW k \in S \cap Nat
      PROVE  k + 1 \in S
    <2>1. PICK r \in Nat : r = 2 ^ k /\ 2 ^ (k + 1) = 2 * r
        BY Powers
    <2>2. ASSUME NEW q \in Nat, NEW c \in Nat, NEW e \in Nat, q = 2 * r, c < q, e < q
          PROVE  Bounded(q, c, e)
        <3>1. CASE c = 0 \/ e = 0
            BY <1>1, <2>2, <3>1
        <3>2. CASE c # 0 /\ e # 0
            <4>1. PICK c1 \in Nat, c0 \in {0, 1} :
                    c1 = c \div 2 /\ c0 = c % 2 /\ c = 2 * c1 + c0
                BY Halves
            <4>2. PICK e1 \in Nat, e0 \in {0, 1} :
                    e1 = e \div 2 /\ e0 = e % 2 /\ e = 2 * e1 + e0
                BY Halves
            <4>3. And(c, e) = 2 * And(c1, e1) + c0 * e0
                BY <3>2, <4>1, <4>2, AndOf
            <4>4. c1 < r /\ e1 < r
                BY <2>2, <4>1, <4>2, Joins
            <4>5. Bounded(r, c1, e1)
                <5> HIDE DEF Bounded
                <5> QED BY <2>1, <4>4
            <4>6. PICK low \in {0, 1} :
                    low = c0 * e0 /\ low <= c0 /\ low <= e0 /\ c0 + e0 - low <= 1
                BY TwoBits
            <4>7. PICK high \in Nat :
                    high = And(c1, e1) /\ high <= c1 /\ high <= e1 /\ c1 + e1 - high < r
                BY <4>5
            <4> HIDE DEF S
            <4>8. And(c, e) = 2 * high + low
                BY <4>3, <4>6, <4>7
            <4> QED BY <2>2, <4>1, <4>2, <4>6, <4>7, <4>8, Joins
        <3> QED BY <3>1, <3>2
    <2>3. ASSUME NEW q \in Nat, q = 2 ^ (k + 1)
          PROVE  q = 2 * r
        BY <2>1, <2>3
    <2> HIDE DEF Bounded
    <2> QED BY <2>2, <2>3
<1>4. n \in S
    <2> HIDE DEF S
    <2> QED BY <1>2, <1>3, Induction
<1>5. 2 ^ n \in Nat
    BY Powers
<1> QED BY <1>4, <1>5 DEF Solves

-----------------------------------------------------------------------------
(* Sums *)

\* SumOf is the last of the partial sums.
LEMMA Sums ==
    ASSUME NEW n \in Nat, NEW t \in [0..(n - 1) -> Nat]
    PROVE  \E s \in [0..n -> Nat] :
             /\ s[0] = 0 /\ \A k \in 1..n : s[k] = s[k - 1] + t[k - 1]
             /\ SumOf(t, n) = s[n]
<1> DEFINE A == 0..n
           m == [k \in A |-> k]
           d == [gk \in [A -> Nat] \X A |->
                   IF gk[2] = 0 THEN 0 ELSE gk[1][gk[2] - 1] + t[gk[2] - 1]]
           Adds(s) == s = [k \in A |-> IF k = 0 THEN 0 ELSE s[k - 1] + t[k - 1]]
<1>1. \A k \in A : k # 0 => k - 1 \in A /\ t[k - 1] \in Nat /\ k - 1 < k
    OBVIOUS
<1>2. \A g \in [A -> Nat], k \in A :
        d[<<g, k>>] = IF k = 0 THEN 0 ELSE g[k - 1] + t[k - 1]
    OBVIOUS
<1>3. d \in [[A -> Nat] \X A -> Nat]
    <2>1. \A g \in [A -> Nat], k \in A : k # 0 => g[k - 1] + t[k - 1] \in Nat
        BY <1>1
    <2>2. \A gk \in [A -> Nat] \X A : gk[1] \in [A -> Nat] /\ gk[2] \in A
        OBVIOUS
    <2> HIDE DEF A
    <2> QED BY <2>1, <2>2
<1>4. m \in [A -> Nat] /\ \A k \in A : m[k] = k
    OBVIOUS
<1>5. LooksBelow(A, Nat, m, d)
    <2> HIDE DEF A, d, m
    <2>1. ASSUME NEW g \in [A -> Nat], NEW h \in [A -> Nat], NEW k \in A,
                 \A q \in A : m[q] < m[k] => g[q] = h[q]
          PROVE  d[<<g, k>>] = d[<<h, k>>]
        <3>1. k # 0 => g[k - 1] = h[k - 1]
            BY <1>1, <1>4, <2>1
        <3> QED BY <1>2, <3>1
    <2> QED BY <2>1 DEF LooksBelow
<1>6. PICK f \in [A -> Nat] : Solves(f, A, d)
    <2>1. Nat # {}
        OBVIOUS
    <2> HIDE DEF A, d, m
    <2> QED BY <1>3, <1>4, <1>5, <2>1, Recursion
<1>7. Adds(f)
    <2> HIDE DEF A, d
    <2>1. \A k \in A : f[k] = IF k = 0 THEN 0 ELSE f[k - 1] + t[k - 1]
        BY <1>2, <1>6 DEF Solves
    <2> QED BY <2>1
<1> DEFINE s == CHOOSE g : Adds(g)
<1>8. Adds(s)
    <2> HIDE DEF Adds
    <2> QED BY <1>7
<1>9. SumOf(t, n) = s[n]
    BY DEF SumOf
<1> HIDE DEF s
<1>10. \A k \in A : s[k] = IF k = 0 THEN 0 ELSE s[k - 1] + t[k - 1]
    <2> HIDE DEF A
    <2> QED BY <1>8
<1>11. \A k \in Nat : k \in A => s[k] \in Nat
    <2> DEFINE N == {k \in Nat : k \in A => s[k] \in Nat}
    <2>1. 0 \in N
        BY <1>10
    <2>2. ASSUME NEW k \in N \cap Nat
          PROVE  k + 1 \in N
        <3>1. ASSUME k + 1 \in A
              PROVE  s[k + 1] \in Nat
            <4>1. k \in A /\ k + 1 # 0 /\ (k + 1) - 1 = k
                BY <3>1
            <4>2. s[k] \in Nat /\ t[k] \in Nat
                BY <1>1, <3>1, <4>1
            <4>3. s[k + 1] = s[k] + t[k]
                BY <1>10, <3>1, <4>1
            <4> QED BY <4>2, <4>3
        <3> QED BY <3>1
    <2> HIDE DEF N
    <2>3. \A k \in Nat : k \in N
        BY <2>1, <2>2, Induction
    <2> QED BY <2>3 DEF N
<1>12. s \in [A -> Nat]
    <2>1. s = [k \in A |-> s[k]]
        BY <1>8
    <2>2. \A k \in A : s[k] \in Nat
        BY <1>11
    <2> HIDE DEF A
    <2> QED BY <2>1, <2>2
<1>13. s[0] = 0 /\ \A k \in 1..n : s[k] = s[k - 1] + t[k - 1]
    <2>1. 0 \in A /\ \A k \in 1..n : k \in A /\ k # 0
        OBVIOUS
    <2> HIDE DEF A
    <2> QED BY <1>10, <2>1
<1> QED BY <1>9, <1>12, <1>13

-----------------------------------------------------------------------------
(* Words *)

LEMMA WordFacts ==
    /\ ByteBits \in Nat /\ XLEN \in Nat \ {0}
    /\ 2 ^ ByteBits \in Nat \ {0}
    /\ WordMod \in Nat \ {0} /\ 16 <= WordMod /\ WordMod = 2 ^ XLEN
    /\ \A v : v \in Word <=> v \in Nat /\ v < WordMod
    /\ \A v : v \in Byte <=> v \in Nat /\ v < 2 ^ ByteBits
<1>1. ByteBits \in Nat \ {0} /\ XLEN \in Nat \ {0} /\ 4 <= XLEN
    BY ByteBitsAssumption DEF XLEN
<1>2. PICK q \in Nat \ {0} : q = 2 ^ ByteBits
    BY <1>1, Powers
<1>3. PICK r \in Nat \ {0} : r = WordMod
    BY <1>1, Powers DEF WordMod
<1>4. 16 <= r
    <2>1. 2 ^ 4 = 16
        OBVIOUS
    <2> QED BY <1>1, <1>3, <2>1, Smaller DEF WordMod
<1>5. \A v : v \in 0..(r - 1) <=> v \in Nat /\ v < r
    OBVIOUS
<1>6. \A v : v \in 0..(q - 1) <=> v \in Nat /\ v < q
    OBVIOUS
<1>7. Word = 0..(r - 1) /\ Byte = 0..(q - 1)
    BY <1>2, <1>3 DEF Word, Byte
<1> QED BY <1>1, <1>2, <1>3, <1>4, <1>5, <1>6, <1>7 DEF WordMod

LEMMA Arithmetic ==
    ASSUME NEW n \in Nat \ {0}
    PROVE  /\ \A a \in Int : a % n \in Nat /\ a % n < n /\ a \div n \in Int
           /\ \A a \in Nat : a \div n \in Nat /\ a \div n <= a
OBVIOUS

LEMMA ToWordType == \A v \in Int : ToWord(v) \in Word
<1>1. PICK r \in Nat \ {0} : r = WordMod
    BY WordFacts
<1> QED BY <1>1, WordFacts, Arithmetic DEF ToWord

LEMMA SignedType == \A a \in Word : Signed(a) \in Int /\ a \in Nat /\ a \in Int
<1>1. PICK r \in Nat \ {0} : r = WordMod
    BY WordFacts
<1> QED BY <1>1, WordFacts DEF Signed

\* & | and ^ of two words are words.
LEMMA BitwiseType ==
    ASSUME NEW a \in Word, NEW b \in Word
    PROVE  And(a, b) \in Word /\ Or(a, b) \in Word /\ Xor(a, b) \in Word
<1>1. PICK r \in Nat \ {0} : r = WordMod /\ r = 2 ^ XLEN
    BY WordFacts
<1>2. a \in Nat /\ b \in Nat /\ a < r /\ b < r
    BY <1>1, WordFacts
<1>3. /\ And(a, b) \in Nat /\ And(a, b) <= a /\ And(a, b) <= b
      /\ a + b - And(a, b) < r
    BY <1>1, <1>2, WordFacts, AndBounds
<1>4. PICK c \in Nat : c = And(a, b) /\ c <= a /\ c <= b /\ a + b - c < r
    BY <1>3
<1>5. /\ c < r
      /\ a + b - c \in Nat /\ a + b - c < r
      /\ a + b - 2 * c \in Nat /\ a + b - 2 * c < r
    BY <1>2, <1>4
<1> QED BY <1>1, <1>4, <1>5, WordFacts DEF Or, Xor

LEMMA ShiftType ==
    ASSUME NEW a \in Word, NEW n \in Nat
    PROVE  Sll(a, n) \in Word /\ Srl(a, n) \in Word /\ Sra(a, n) \in Word
<1>1. n % XLEN \in Nat
    BY WordFacts, Arithmetic
<1>2. PICK p \in Nat \ {0} : p = 2 ^ (n % XLEN)
    BY <1>1, Powers
<1>3. a \in Nat /\ a < WordMod /\ Signed(a) \in Int /\ WordMod \in Nat
    BY WordFacts, SignedType
<1>4. a * p \in Int /\ Signed(a) \div p \in Int
    BY <1>3, Arithmetic
<1>5. a \div p \in Nat /\ a \div p < WordMod
    <2>1. a \div p \in Nat /\ a \div p <= a
        BY <1>3, Arithmetic
    <2> QED BY <1>3, <2>1
<1>6. a \div p \in Word
    BY <1>5, WordFacts
<1> QED BY <1>2, <1>4, <1>6, ToWordType DEF Sll, Srl, Sra

LEMMA DivisionType ==
    ASSUME NEW a \in Int, NEW b \in Int, b # 0
    PROVE  CDiv(a, b) \in Int /\ CMod(a, b) \in Int
<1>1. Abs(a) \in Int /\ Abs(b) \in Nat \ {0}
    BY DEF Abs
<1>2. Abs(a) \div Abs(b) \in Int
    BY <1>1, Arithmetic
<1>3. CDiv(a, b) \in Int
    BY <1>2 DEF CDiv
<1>4. \A c \in Int : a - b * c \in Int
    OBVIOUS
<1> QED BY <1>3, <1>4 DEF CMod

LEMMA SignedZero == \A a \in Word : a # 0 => Signed(a) # 0
<1>1. PICK r \in Nat \ {0} : r = WordMod
    BY WordFacts
<1> QED BY <1>1, WordFacts DEF Signed

\* Each of the divisions gives a word, or the host's trap where the code lets
\* the pair through that traps.
LEMMA DivideType ==
    ASSUME NEW a \in Word, NEW b \in Word
    PROVE  /\ div(a, b) \in Word /\ rem(a, b) \in Word
           /\ divu(a, b) \in Word \cup {HostTrap} /\ remu(a, b) \in Word \cup {HostTrap}
<1>1. ToWord(-1) \in Word /\ 0 \in Word
    BY ToWordType, WordFacts
<1>2. b # 0 => ToWord(CDiv(Signed(a), Signed(b))) \in Word
               /\ ToWord(CMod(Signed(a), Signed(b))) \in Word
    BY SignedType, SignedZero, DivisionType, ToWordType
<1> QED BY <1>1, <1>2 DEF div, rem, divu, remu

LEMMA HighHalfType == \A v \in Int : HighHalf(v) \in Word
<1>1. PICK r \in Nat \ {0} : r = WordMod
    BY WordFacts
<1>2. r * r \in Nat \ {0}
    BY <1>1
<1>3. ASSUME NEW v \in Int
      PROVE  Wide(v) \in Int
    <2>1. PICK q \in Nat \ {0} : q = r * r
        BY <1>2
    <2>2. v % q \in Int /\ (v % q) - q \in Int
        BY Arithmetic
    <2> QED BY <1>1, <2>1, <2>2 DEF Wide
<1>4. ASSUME NEW v \in Int
      PROVE  Wide(v) \div r \in Int
    BY <1>3, Arithmetic
<1> QED BY <1>1, <1>4, ToWordType DEF HighHalf

LEMMA MulDivType ==
    ASSUME NEW f \in 0..7, NEW a \in Word, NEW b \in Word
    PROVE  MulDiv(f, a, b) \in Word \cup {HostTrap}
<1>1. Signed(a) \in Int /\ Signed(b) \in Int /\ a \in Int /\ b \in Int
    BY SignedType
<1>2. \A c \in Int, e \in Int : c * e \in Int
    OBVIOUS
<1>3. /\ ToWord(Signed(a) * Signed(b)) \in Word
      /\ mulh(a, b) \in Word /\ mulhsu(a, b) \in Word /\ mulhu(a, b) \in Word
    BY <1>1, <1>2, ToWordType, HighHalfType DEF mulh, mulhsu, mulhu
<1>4. f \in {0, 1, 2, 3, 4, 5, 6, 7}
    OBVIOUS
<1> QED BY <1>3, <1>4, DivideType DEF MulDiv

LEMMA IntegerType ==
    ASSUME NEW f \in 0..7, NEW alt, NEW a \in Word, NEW b \in Nat, f \notin {1, 5} => b \in Word
    PROVE  Integer(f, alt, a, b) \in Word
<1>1. f \in {0, 1, 2, 3, 4, 5, 6, 7}
    OBVIOUS
<1>2. \A c : Flag(c) \in Word
    <2>1. 0 \in Word /\ 1 \in Word
        BY WordFacts
    <2> QED BY <2>1 DEF Flag
<1>3. ToWord(a + b) \in Word /\ ToWord(a - b) \in Word
    <2>1. a \in Int
        BY SignedType
    <2>2. a + b \in Int /\ a - b \in Int
        BY <2>1
    <2> QED BY <2>2, ToWordType
<1>4. CASE f \in {1, 5}
    BY <1>4, ShiftType DEF Integer
<1>5. CASE f \notin {1, 5}
    BY <1>1, <1>2, <1>3, <1>5, BitwiseType DEF Integer
<1> QED BY <1>4, <1>5


-----------------------------------------------------------------------------
(* The fields of an instruction *)

LEMMA PieceType ==
    ASSUME NEW w \in Instruction, NEW start \in Nat, NEW n \in Nat
    PROVE  get_instr_piece(w, start, n) \in Nat /\ get_instr_piece(w, start, n) < 2 ^ n
<1>1. w.hi \in Nat /\ w.lo \in Nat
    <2>1. 2 ^ 16 = 65536
        OBVIOUS
    <2>2. \A v \in Half : v \in Nat
        BY <2>1 DEF Half
    <2> QED BY <2>2 DEF Instruction
<1>2. PICK m \in Nat \ {0} : m = 2 ^ n
    BY Powers
<1>3. CASE start >= 16
    <2>1. PICK p \in Nat \ {0} : p = 2 ^ (start - 16)
        <3>1. start - 16 \in Nat
            BY <1>3
        <3> QED BY <3>1, Powers
    <2>2. w.hi \div p \in Int
        BY <1>1, Arithmetic
    <2>3. (w.hi \div p) % m \in Nat /\ (w.hi \div p) % m < m
        BY <2>2, Arithmetic
    <2> QED BY <1>2, <1>3, <2>1, <2>3 DEF get_instr_piece
<1>4. CASE ~(start >= 16)
    <2>1. PICK p \in Nat \ {0} : p = 2 ^ start
        BY Powers
    <2>2. PICK q \in Nat \ {0} : q = 2 ^ (16 - start)
        <3>1. 16 - start \in Nat
            BY <1>4
        <3> QED BY <3>1, Powers
    <2>3. w.lo \div p \in Int /\ w.hi % m \in Int
        BY <1>1, Arithmetic
    <2>4. PICK v \in Int : v = w.lo \div p + (w.hi % m) * q
        BY <2>3
    <2>5. v % m \in Nat /\ v % m < m
        BY Arithmetic
    <2> QED BY <1>2, <1>4, <2>1, <2>2, <2>4, <2>5 DEF get_instr_piece
<1> QED BY <1>3, <1>4

LEMMA FieldType ==
    ASSUME NEW w \in Instruction
    PROVE  /\ GET_RD(w) \in Reg /\ GET_RS1(w) \in Reg /\ GET_RS2(w) \in Reg
           /\ GET_FUNCT3(w) \in 0..7 /\ GET_FUNCT7(w) \in 0..127
           /\ GET_C_RD(w) \in Reg /\ GET_C_RS2(w) \in Reg /\ GET_C_FUNCT3(w) \in 0..7
           /\ GET_C_RS1_COMP(w) \in Reg /\ GET_C_RS2_COMP(w) \in Reg
<1>1. \A start \in Nat : /\ get_instr_piece(w, start, 5) \in 0..31
                         /\ get_instr_piece(w, start, 3) \in 0..7
                         /\ get_instr_piece(w, start, 7) \in 0..127
    <2> SUFFICES ASSUME NEW start \in Nat
                 PROVE  /\ get_instr_piece(w, start, 5) \in 0..31
                        /\ get_instr_piece(w, start, 3) \in 0..7
                        /\ get_instr_piece(w, start, 7) \in 0..127
        OBVIOUS
    <2>1. PICK a \in Nat, b \in Nat, c \in Nat : a = 5 /\ b = 3 /\ c = 7
        OBVIOUS
    <2>2. 2 ^ a = 32 /\ 2 ^ b = 8 /\ 2 ^ c = 128
        <3>1. 2 ^ 5 = 32 /\ 2 ^ 3 = 8 /\ 2 ^ 7 = 128
            OBVIOUS
        <3> QED BY <2>1, <3>1, Zenon
    <2>3. /\ get_instr_piece(w, start, a) \in Nat /\ get_instr_piece(w, start, a) < 2 ^ a
          /\ get_instr_piece(w, start, b) \in Nat /\ get_instr_piece(w, start, b) < 2 ^ b
          /\ get_instr_piece(w, start, c) \in Nat /\ get_instr_piece(w, start, c) < 2 ^ c
        BY PieceType
    <2>4. /\ get_instr_piece(w, start, a) < 32 /\ get_instr_piece(w, start, b) < 8
          /\ get_instr_piece(w, start, c) < 128
        BY <2>2, <2>3, Zenon
    <2> QED BY <2>1, <2>3, <2>4
<1>2. \A v \in 0..7 : v + 8 \in 0..31
    OBVIOUS
<1> QED BY <1>1, <1>2
        DEF Reg, GET_RD, GET_RS1, GET_RS2, GET_FUNCT3, GET_FUNCT7, GET_C_RD, GET_C_RS2,
            GET_C_FUNCT3, GET_C_RS1_COMP, GET_C_RS2_COMP

LEMMA SextType == \A v \in Nat, n \in Nat \ {0} : sext(v, n) \in Int
<1> SUFFICES ASSUME NEW v \in Nat, NEW n \in Nat \ {0}
             PROVE  sext(v, n) \in Int
    OBVIOUS
<1>1. PICK p \in Nat : p = 2 ^ n
    BY Powers
<1> QED BY <1>1 DEF sext

LEMMA ImmediateType ==
    ASSUME NEW w \in Instruction
    PROVE  /\ GET_IMM_I(w) \in Int /\ GET_IMM_S(w) \in Int /\ GET_IMM_B(w) \in Int
           /\ GET_IMM_J(w) \in Int /\ GET_IMM_U(w) \in Nat
<1>1. \A start \in Nat, n \in Nat : get_instr_piece(w, start, n) \in Nat
    BY PieceType
<1>2. \A n \in Nat : 2 ^ n \in Nat
    BY Powers
<1>3. /\ get_instr_piece(w, 20, 12) \in Nat
      /\ get_instr_piece(w, 7, 5) + get_instr_piece(w, 25, 7) * 2 ^ 5 \in Nat
      /\ get_instr_piece(w, 8, 4) * 2 + get_instr_piece(w, 25, 6) * 2 ^ 5
           + get_instr_piece(w, 7, 1) * 2 ^ 11 + get_instr_piece(w, 31, 1) * 2 ^ 12 \in Nat
      /\ get_instr_piece(w, 21, 10) * 2 + get_instr_piece(w, 20, 1) * 2 ^ 11
           + get_instr_piece(w, 12, 8) * 2 ^ 12 + get_instr_piece(w, 31, 1) * 2 ^ 20 \in Nat
    <2>1. 2 ^ 5 \in Nat /\ 2 ^ 11 \in Nat /\ 2 ^ 12 \in Nat /\ 2 ^ 20 \in Nat
        BY <1>2
    <2>2. /\ get_instr_piece(w, 20, 12) \in Nat
          /\ get_instr_piece(w, 7, 5) \in Nat /\ get_instr_piece(w, 25, 7) \in Nat
          /\ get_instr_piece(w, 8, 4) \in Nat /\ get_instr_piece(w, 25, 6) \in Nat
          /\ get_instr_piece(w, 7, 1) \in Nat /\ get_instr_piece(w, 31, 1) \in Nat
          /\ get_instr_piece(w, 21, 10) \in Nat /\ get_instr_piece(w, 20, 1) \in Nat
          /\ get_instr_piece(w, 12, 8) \in Nat
        BY <1>1
    <2>3. \A a, b, p \in Nat : a + b * p \in Nat
        OBVIOUS
    <2>4. \A a, b, c, d, p, q, r \in Nat : a * 2 + b * p + c * q + d * r \in Nat
        OBVIOUS
    <2> QED BY <2>1, <2>2, <2>3, <2>4, Zenon
<1>4. 12 \in Nat \ {0} /\ 13 \in Nat \ {0} /\ 21 \in Nat \ {0}
    OBVIOUS
<1>5. get_instr_piece(w, 12, 20) \in Nat
    BY <1>1
<1> QED BY <1>3, <1>4, <1>5, SextType, Zenon
        DEF GET_IMM_I, GET_IMM_S, GET_IMM_B, GET_IMM_J, GET_IMM_U

LEMMA GatherType ==
    ASSUME NEW w \in Instruction, NEW pieces \in Seq(Nat \X Nat \X Nat)
    PROVE  Gather(w, pieces) \in Nat
<1> DEFINE n == Len(pieces)
           t == [k \in 0..(n - 1) |->
                   LET p == pieces[k + 1] IN get_instr_piece(w, p[1], p[2]) * 2 ^ p[3]]
<1>1. ASSUME NEW k \in 0..(n - 1)
      PROVE  get_instr_piece(w, pieces[k + 1][1], pieces[k + 1][2]) * 2 ^ pieces[k + 1][3] \in Nat
    <2>1. k + 1 \in 1..n
        OBVIOUS
    <2>2. pieces[k + 1] \in Nat \X Nat \X Nat
        BY <2>1
    <2>4. PICK a \in Nat, b \in Nat, c \in Nat :
            a = pieces[k + 1][1] /\ b = pieces[k + 1][2] /\ c = pieces[k + 1][3]
        BY <2>2
    <2>3. get_instr_piece(w, a, b) \in Nat /\ 2 ^ c \in Nat
        BY PieceType, Powers
    <2> QED BY <2>3, <2>4
<1>2. t \in [0..(n - 1) -> Nat]
    BY <1>1
<1>3. Gather(w, pieces) = SumOf(t, n)
    BY DEF Gather
<1>4. n \in Nat
    OBVIOUS
<1> HIDE DEF n, t
<1>5. PICK s \in [0..n -> Nat] : SumOf(t, n) = s[n]
    BY <1>2, <1>4, Sums
<1> QED BY <1>3, <1>4, <1>5

LEMMA CompressedImmediateType ==
    ASSUME NEW w \in Instruction
    PROVE  /\ GET_C_IMM_CJ(w) \in Int /\ GET_C_IMM_CI(w) \in Nat /\ GET_C_IMM_CBU(w) \in Nat
           /\ GET_C_IMM_CB(w) \in Int /\ GET_C_IMM_CS(w) \in Nat /\ GET_C_IMM_CSS(w) \in Nat
           /\ GET_C_IMM_CSP(w) \in Int /\ GET_C_IMM_CIW(w) \in Nat /\ GET_C_IMM_CBR(w) \in Int
<1> DEFINE Pieces == Seq(Nat \X Nat \X Nat)
           cj == <<<<2, 1, 5>>, <<3, 3, 1>>, <<6, 1, 7>>, <<7, 1, 6>>,
                   <<8, 1, 10>>, <<9, 2, 8>>, <<11, 1, 4>>, <<12, 1, 11>>>>
           ci == <<<<2, 2, 6>>, <<4, 3, 2>>, <<12, 1, 5>>>>
           cbu == <<<<2, 5, 0>>, <<12, 1, 5>>>>
           cs == <<<<5, 1, 6>>, <<6, 1, 2>>, <<10, 3, 3>>>>
           css == <<<<7, 2, 6>>, <<9, 4, 2>>>>
           csp == <<<<2, 1, 5>>, <<3, 2, 7>>, <<5, 1, 6>>, <<6, 1, 4>>, <<12, 1, 9>>>>
           ciw == <<<<5, 1, 3>>, <<6, 1, 2>>, <<7, 4, 6>>, <<11, 2, 4>>>>
           cbr == <<<<2, 1, 5>>, <<3, 2, 1>>, <<5, 2, 6>>, <<10, 2, 3>>, <<12, 1, 8>>>>
<1>1. /\ cj \in Pieces /\ ci \in Pieces /\ cbu \in Pieces /\ cs \in Pieces
      /\ css \in Pieces /\ csp \in Pieces /\ ciw \in Pieces /\ cbr \in Pieces
    OBVIOUS
<1>2. /\ GET_C_IMM_CJ(w) = sext(Gather(w, cj), 12) /\ GET_C_IMM_CI(w) = Gather(w, ci)
      /\ GET_C_IMM_CBU(w) = Gather(w, cbu) /\ GET_C_IMM_CB(w) = sext(Gather(w, cbu), 6)
      /\ GET_C_IMM_CS(w) = Gather(w, cs) /\ GET_C_IMM_CSS(w) = Gather(w, css)
      /\ GET_C_IMM_CSP(w) = sext(Gather(w, csp), 10) /\ GET_C_IMM_CIW(w) = Gather(w, ciw)
      /\ GET_C_IMM_CBR(w) = sext(Gather(w, cbr), 9)
    BY Zenon DEF GET_C_IMM_CJ, GET_C_IMM_CI, GET_C_IMM_CBU, GET_C_IMM_CB, GET_C_IMM_CS,
                 GET_C_IMM_CSS, GET_C_IMM_CSP, GET_C_IMM_CIW, GET_C_IMM_CBR
<1> HIDE DEF cj, ci, cbu, cs, css, csp, ciw, cbr
<1>3. \A p \in Pieces : Gather(w, p) \in Nat
    BY GatherType, Zenon
<1>4. 12 \in Nat \ {0} /\ 6 \in Nat \ {0} /\ 10 \in Nat \ {0} /\ 9 \in Nat \ {0}
    OBVIOUS
<1> HIDE DEF Pieces
<1> QED BY <1>1, <1>2, <1>3, <1>4, SextType, Zenon


-----------------------------------------------------------------------------
(* Memory *)

LEMMA OneDigitMore ==
    ASSUME NEW v \in Nat, NEW c \in Nat, NEW p \in Nat, NEW q \in Nat, v < p, c < q
    PROVE  v + c * p < p * q
<1>1. PICK e \in Nat : q = c + 1 + e
    <2>1. q - c - 1 \in Nat /\ q = c + 1 + (q - c - 1)
        OBVIOUS
    <2> QED BY <2>1
<1>2. p * (c + 1 + e) = c * p + p + p * e /\ p * e \in Nat /\ c * p \in Nat
    OBVIOUS
<1> QED BY <1>1, <1>2

\* n bytes are a number of n * ByteBits bits: up to four of them, a word.
LEMMA LoadedType ==
    ASSUME mem \in [Ram -> Byte], NEW a \in Word, NEW n \in Nat
    PROVE  /\ Loaded(a, n) \in Nat
           /\ n <= 4 => Loaded(a, n) \in Word
<1> DEFINE byte(k) == IF ToWord(a + k) \in Ram THEN mem[ToWord(a + k)] ELSE 0
           t == [k \in 0..(n - 1) |->
                   LET b == ToWord(a + k) IN (IF b \in Ram THEN mem[b] ELSE 0) * 2 ^ (ByteBits * k)]
<1>1. PICK q \in Nat \ {0} : q = 2 ^ ByteBits
    BY WordFacts
<1>2. \A k : byte(k) \in Nat /\ byte(k) < q
    BY <1>1, WordFacts
<1>3. \A k \in Nat : ByteBits * k \in Nat /\ 2 ^ (ByteBits * k) \in Nat \ {0}
    <2>1. \A k \in Nat : ByteBits * k \in Nat
        BY WordFacts
    <2> QED BY <2>1, Powers
<1>4. Loaded(a, n) = SumOf(t, n)
    BY DEF Loaded
<1>5. \A k \in 0..(n - 1) : t[k] = byte(k) * 2 ^ (ByteBits * k)
    OBVIOUS
<1>6. t = [k \in 0..(n - 1) |-> t[k]]
    OBVIOUS
<1> HIDE DEF byte, t
<1>7. ASSUME NEW k \in 0..(n - 1)
      PROVE  t[k] \in Nat
    <2>1. PICK p \in Nat : p = 2 ^ (ByteBits * k)
        BY <1>3
    <2>2. byte(k) \in Nat
        BY <1>2
    <2>3. byte(k) * p \in Nat
        BY <2>2
    <2> QED BY <1>5, <2>1, <2>3
<1>8. t \in [0..(n - 1) -> Nat]
    BY <1>6, <1>7
<1>9. PICK s \in [0..n -> Nat] : /\ s[0] = 0 /\ \A k \in 1..n : s[k] = s[k - 1] + t[k - 1]
                                /\ SumOf(t, n) = s[n]
    BY <1>8, Sums
<1>10. s[n] < 2 ^ (ByteBits * n)
    <2> DEFINE N == {k \in Nat : k <= n => s[k] < 2 ^ (ByteBits * k)}
    <2>1. 0 \in N
        <3>1. ByteBits * 0 = 0 /\ 2 ^ 0 = 1
            BY WordFacts
        <3>2. s[0] < 1
            BY <1>9
        <3> QED BY <3>1, <3>2
    <2>2. ASSUME NEW k \in N \cap Nat
          PROVE  k + 1 \in N
        <3>1. ASSUME k + 1 <= n
              PROVE  s[k + 1] < 2 ^ (ByteBits * (k + 1))
            <4>1. PICK p \in Nat \ {0} : p = 2 ^ (ByteBits * k)
                BY <1>3
            <4>2. k <= n /\ k + 1 \in 1..n /\ k \in 0..(n - 1) /\ (k + 1) - 1 = k
                BY <3>1
            <4>3. PICK v \in Nat : v = s[k] /\ v < p
                BY <4>1, <4>2
            <4> HIDE DEF N
            <4>4. PICK c \in Nat : c = byte(k) /\ c < q
                BY <1>2
            <4>5. s[k + 1] = v + c * p
                <5>1. t[k] = c * p
                    BY <1>5, <4>1, <4>2, <4>4
                <5> QED BY <1>9, <4>2, <4>3, <5>1
            <4>6. 2 ^ (ByteBits * (k + 1)) = p * q
                <5>1. ByteBits * (k + 1) = ByteBits * k + ByteBits
                    BY WordFacts
                <5>2. 2 ^ (ByteBits * k + ByteBits) = 2 ^ (ByteBits * k) * 2 ^ ByteBits
                    BY <1>3, WordFacts, PowerOfSum
                <5> QED BY <1>1, <4>1, <5>1, <5>2
            <4>7. v + c * p < p * q
                BY <4>3, <4>4, OneDigitMore
            <4> QED BY <4>5, <4>6, <4>7
        <3> QED BY <3>1
    <2>3. n \in N
        <3> HIDE DEF N
        <3> QED BY <2>1, <2>2, Induction
    <2> QED BY <2>3
<1>11. ASSUME n <= 4
       PROVE  s[n] < WordMod
    <2>1. ByteBits * n \in Nat /\ ByteBits * n <= XLEN /\ XLEN \in Nat
        BY <1>3, <1>11, WordFacts DEF XLEN
    <2>2. PICK p \in Nat, r \in Nat : p = 2 ^ (ByteBits * n) /\ r = WordMod /\ p <= r
        BY <1>3, <2>1, Smaller, WordFacts
    <2>3. PICK v \in Nat : v = s[n] /\ v < p
        BY <1>10, <2>2
    <2> QED BY <2>2, <2>3
<1>12. s[n] \in Nat
    OBVIOUS
<1> QED BY <1>4, <1>9, <1>11, <1>12, WordFacts

LEMMA StoredType ==
    ASSUME mem \in [Ram -> Byte], NEW a \in Word, NEW n \in Nat, NEW v \in Word
    PROVE  Stored(a, n, v) \in [Ram -> Byte]
<1> DEFINE place(b) == ToWord(b - a)
<1>1. ASSUME NEW b \in Ram
      PROVE  (v \div 2 ^ (ByteBits * place(b))) % 2 ^ ByteBits \in Byte
    <2>1. place(b) \in Nat
        <3>1. b \in Int /\ a \in Int
            BY MmuAssumption, SignedType
        <3>2. b - a \in Int
            BY <3>1
        <3> QED BY <3>2, ToWordType, SignedType
    <2> HIDE DEF place
    <2>2. ByteBits * place(b) \in Nat
        BY <2>1, WordFacts
    <2>3. PICK p \in Nat \ {0} : p = 2 ^ (ByteBits * place(b))
        BY <2>2, Powers
    <2>4. PICK q \in Nat \ {0} : q = 2 ^ ByteBits
        BY WordFacts
    <2>5. v \in Int
        BY SignedType
    <2>6. v \div p \in Int
        BY <2>5, Arithmetic
    <2>7. (v \div p) % q \in Nat /\ (v \div p) % q < q
        BY <2>6, Arithmetic
    <2> QED BY <2>3, <2>4, <2>7, WordFacts
<1>2. \A b \in Ram : mem[b] \in Byte
    OBVIOUS
<1>3. Stored(a, n, v) = [b \in Ram |-> IF place(b) < n
                                      THEN (v \div 2 ^ (ByteBits * place(b))) % 2 ^ ByteBits
                                      ELSE mem[b]]
    BY DEF Stored
<1> HIDE DEF place
<1> QED BY <1>1, <1>2, <1>3

LEMMA AmoValueType ==
    ASSUME NEW f \in Amos, NEW val \in Word, NEW b \in Word
    PROVE  AmoValue(f, val, b) \in Word
<1>1. ToWord(b + val) \in Word
    <2>1. b + val \in Int
        BY SignedType
    <2> QED BY <2>1, ToWordType
<1> QED BY <1>1, BitwiseType DEF AmoValue, Amos


-----------------------------------------------------------------------------
(* Every instruction keeps the types *)

\* TypeOK without the counter, which only rv32_run moves.
StateTyped ==
    /\ x \in [Reg -> Word] /\ pc \in Word /\ lr_addr \in Word /\ mem \in [Ram -> Byte]
    /\ trap.cause \in {0, ILLEGAL_INSTRUCTION, BREAKPOINT, LOAD_ACCESS_FAULT,
                      STORE_ACCESS_FAULT, LOAD_PAGE_FAULT, STORE_PAGE_FAULT}
    /\ trap.epc \in Word /\ alive \in BOOLEAN

LEMMA SetRegType ==
    ASSUME x \in [Reg -> Word], NEW rd \in Reg, NEW v, rd # 0 => v \in Word
    PROVE  SetReg(rd, v) \in [Reg -> Word]
BY DEF SetReg

LEMMA ContinueTyped ==
    ASSUME StateTyped, NEW rd \in Reg, NEW v, rd # 0 => v \in Word, NEW at \in Int,
           x' = SetReg(rd, v), Continue(at), lr_addr' \in Word, mem' \in [Ram -> Byte]
    PROVE  StateTyped'
<1>1. x' \in [Reg -> Word]
    BY SetRegType DEF StateTyped
<1>2. pc' \in Word
    BY ToWordType DEF Continue
<1>3. trap'.cause = 0 /\ trap'.epc \in Word /\ alive' \in BOOLEAN
    BY WordFacts DEF Continue, NoTrap, StateTyped
<1> QED BY <1>1, <1>2, <1>3 DEF StateTyped

LEMMA SetsTyped ==
    ASSUME StateTyped
    PROVE  \A rd \in Reg, v \in Word, at \in Int : Sets(rd, v, at) => StateTyped'
<1> SUFFICES ASSUME NEW rd \in Reg, NEW v \in Word, NEW at \in Int, Sets(rd, v, at)
             PROVE  StateTyped'
    OBVIOUS
<1>1. x' = SetReg(rd, v) /\ Continue(at) /\ lr_addr' \in Word /\ mem' \in [Ram -> Byte]
    BY DEF Sets, StateTyped
<1> QED BY <1>1, ContinueTyped

LEMMA TrapTyped ==
    ASSUME StateTyped
    PROVE  \A tval : \A cause \in {ILLEGAL_INSTRUCTION, BREAKPOINT, LOAD_ACCESS_FAULT,
                                  STORE_ACCESS_FAULT, LOAD_PAGE_FAULT, STORE_PAGE_FAULT} :
             raise_exception(cause, tval) => StateTyped'
BY StartsAssumption DEF raise_exception, StateTyped

LEMMA IllegalTyped ==
    ASSUME StateTyped
    PROVE  \A w : ILL_INSTR(w) \/ C_ILL_INSTR(w) => StateTyped'
BY TrapTyped DEF ILL_INSTR, C_ILL_INSTR

LEMMA ComputesTyped ==
    ASSUME StateTyped
    PROVE  \A rd \in Reg, v \in Word \cup {HostTrap}, at \in Int :
             Computes(rd, v, at) => StateTyped'
<1> SUFFICES ASSUME NEW rd \in Reg, NEW v \in Word \cup {HostTrap}, NEW at \in Int,
                    Computes(rd, v, at)
             PROVE  StateTyped'
    OBVIOUS
<1>1. CASE v = HostTrap /\ rd # 0
    <2>1. trap'.cause = 0 /\ trap'.epc \in Word
        BY <1>1, WordFacts DEF Computes, NoTrap
    <2> QED BY <1>1, <2>1 DEF Computes, StateTyped
<1>2. CASE rd = 0
    \* Nothing is computed: v may be the result of a division that traps.
    <2>1. x' = SetReg(rd, v) /\ Continue(at) /\ lr_addr' \in Word /\ mem' \in [Ram -> Byte]
        BY <1>2 DEF Computes, Sets, StateTyped
    <2> QED BY <1>2, <2>1, ContinueTyped
<1>3. CASE v # HostTrap
    <2>1. Sets(rd, v, at) /\ v \in Word
        BY <1>3 DEF Computes
    <2> QED BY <2>1, SetsTyped
<1> QED BY <1>1, <1>2, <1>3

LEMMA FaultCauses ==
    \A res : /\ LoadFault(res) \in {LOAD_ACCESS_FAULT, LOAD_PAGE_FAULT}
            /\ StoreFault(res) \in {STORE_ACCESS_FAULT, STORE_PAGE_FAULT}
BY DEF LoadFault, StoreFault

LEMMA LoadTyped ==
    ASSUME StateTyped
    PROVE  \A rd \in Reg, a \in Word, n \in 1..4, signed \in BOOLEAN, at \in Int :
             Load(rd, a, n, signed, at) => StateTyped'
<1> SUFFICES ASSUME NEW rd \in Reg, NEW a \in Word, NEW n \in 1..4,
                    NEW signed \in BOOLEAN, NEW at \in Int, Load(rd, a, n, signed, at)
             PROVE  StateTyped'
    OBVIOUS
<1>1. CASE ReadResult[a] # "MMU_OK"
    BY <1>1, TrapTyped, FaultCauses DEF Load
<1>2. CASE ReadResult[a] = "MMU_OK"
    <2>1. mem \in [Ram -> Byte] /\ n \in Nat /\ n <= 4
        BY DEF StateTyped
    <2>2. Loaded(a, n) \in Nat /\ Loaded(a, n) \in Word
        BY <2>1, LoadedType
    <2>3. ByteBits * n \in Nat \ {0}
        <3>1. ByteBits \in Nat \ {0} /\ n \in Nat \ {0}
            BY ByteBitsAssumption
        <3> QED BY <3>1
    <2>4. ToWord(sext(Loaded(a, n), ByteBits * n)) \in Word
        BY <2>2, <2>3, SextType, ToWordType
    <2> QED BY <1>2, <2>2, <2>4, SetsTyped DEF Load
<1> QED BY <1>1, <1>2

LEMMA StoreTyped ==
    ASSUME StateTyped
    PROVE  \A a \in Word, n \in Nat, v \in Word, at \in Int : Store(a, n, v, at) => StateTyped'
<1> SUFFICES ASSUME NEW a \in Word, NEW n \in Nat, NEW v \in Word, NEW at \in Int,
                    Store(a, n, v, at)
             PROVE  StateTyped'
    OBVIOUS
<1>1. CASE WriteResult[a] # "MMU_OK"
    BY <1>1, TrapTyped, FaultCauses DEF Store
<1>2. CASE WriteResult[a] = "MMU_OK"
    <2>1. mem' = Stored(a, n, v) /\ Continue(at) /\ UNCHANGED <<x, lr_addr>>
        BY <1>2 DEF Store
    <2>2. mem' \in [Ram -> Byte]
        BY <2>1, StoredType DEF StateTyped
    <2>3. x' = SetReg(0, 0) /\ 0 \in Reg /\ lr_addr' \in Word
        BY <2>1 DEF SetReg, Reg, StateTyped
    <2> QED BY <2>1, <2>2, <2>3, ContinueTyped
<1> QED BY <1>1, <1>2

LEMMA NextPc == ASSUME StateTyped PROVE pc + 4 \in Int /\ pc + 2 \in Int /\ pc \in Int
<1>1. pc \in Int
    BY SignedType DEF StateTyped
<1> QED BY <1>1

LEMMA AmoTyped ==
    ASSUME StateTyped
    PROVE  \A f \in Amos, rd \in Reg, a \in Word, b \in Word : Amo(f, rd, a, b) => StateTyped'
<1> SUFFICES ASSUME NEW f \in Amos, NEW rd \in Reg, NEW a \in Word, NEW b \in Word,
                    Amo(f, rd, a, b)
             PROVE  StateTyped'
    OBVIOUS
<1>1. CASE ReadResult[a] # "MMU_OK" \/ WriteResult[a] # "MMU_OK"
    BY <1>1, TrapTyped, FaultCauses DEF Amo, AmoFault
<1>2. CASE ReadResult[a] = "MMU_OK" /\ WriteResult[a] = "MMU_OK"
    <2> DEFINE val == Loaded(a, 4)
    <2>1. /\ mem' = Stored(a, 4, AmoValue(f, val, b)) /\ x' = SetReg(rd, val)
          /\ Continue(pc + 4) /\ UNCHANGED lr_addr
        BY <1>2 DEF Amo
    <2>2. mem \in [Ram -> Byte] /\ lr_addr' \in Word
        BY <2>1 DEF StateTyped
    <2>3. val \in Word
        BY <2>2, LoadedType
    <2> HIDE DEF val
    <2>4. AmoValue(f, val, b) \in Word
        BY <2>3, AmoValueType
    <2>5. mem' \in [Ram -> Byte]
        BY <2>1, <2>2, <2>4, StoredType
    <2> QED BY <2>1, <2>2, <2>3, <2>5, NextPc, ContinueTyped
<1> QED BY <1>1, <1>2

LEMMA ReservationTyped ==
    ASSUME StateTyped
    PROVE  /\ \A rd \in Reg, a \in Word : LR(rd, a) => StateTyped'
           /\ \A rd \in Reg, a \in Word, b \in Word : SC(rd, a, b) => StateTyped'
<1>1. ASSUME NEW rd \in Reg, NEW a \in Word, LR(rd, a)
      PROVE  StateTyped'
    <2>1. CASE ReadResult[a] # "MMU_OK"
        BY <1>1, <2>1, TrapTyped, FaultCauses DEF LR, AmoFault
    <2>2. CASE ReadResult[a] = "MMU_OK"
        <3>1. lr_addr' = a /\ x' = SetReg(rd, Loaded(a, 4)) /\ Continue(pc + 4) /\ UNCHANGED mem
            BY <1>1, <2>2 DEF LR
        <3>2. mem \in [Ram -> Byte] /\ mem' \in [Ram -> Byte]
            BY <3>1 DEF StateTyped
        <3>3. Loaded(a, 4) \in Word
            BY <3>2, LoadedType
        <3> QED BY <3>1, <3>2, <3>3, NextPc, ContinueTyped
    <2> QED BY <2>1, <2>2
<1>2. ASSUME NEW rd \in Reg, NEW a \in Word, NEW b \in Word, SC(rd, a, b)
      PROVE  StateTyped'
    <2>1. 0 \in Word /\ 1 \in Word
        BY WordFacts
    <2>2. CASE lr_addr # a
        BY <1>2, <2>1, <2>2, NextPc, SetsTyped DEF SC
    <2>3. CASE lr_addr = a /\ WriteResult[a] # "MMU_OK"
        BY <1>2, <2>3, TrapTyped, FaultCauses DEF SC, AmoFault
    <2>4. CASE lr_addr = a /\ WriteResult[a] = "MMU_OK"
        <3>1. mem' = Stored(a, 4, b) /\ lr_addr' = 0 /\ x' = SetReg(rd, 0) /\ Continue(pc + 4)
            BY <1>2, <2>4 DEF SC
        <3>2. mem' \in [Ram -> Byte]
            BY <3>1, StoredType DEF StateTyped
        <3> QED BY <2>1, <3>1, <3>2, NextPc, ContinueTyped
    <2> QED BY <2>2, <2>3, <2>4
<1> QED BY <1>1, <1>2

LEMMA RegisterType ==
    ASSUME StateTyped
    PROVE  \A r \in Reg : x[r] \in Word /\ x[r] \in Int
BY SignedType DEF StateTyped

LEMMA Sum2 == \A a \in Int, b \in Int : a + b \in Int /\ a - b \in Int /\ ToWord(a + b) \in Word
                                       /\ ToWord(a - b) \in Word
BY ToWordType

LEMMA EvenType == \A a \in Word : Even(a) \in Int
BY SignedType DEF Even

LEMMA Scaled == \A v \in Int : v * 2 ^ ImmShift \in Int
<1>1. PICK p \in Nat : p = 2 ^ ImmShift
    BY ImmShiftAssumption, Powers
<1> QED BY <1>1

LEMMA ArithmeticTyped ==
    ASSUME StateTyped, NEW w \in Instruction, Op(w) \/ OpImm(w) \/ Upper(w, 0) \/ Upper(w, pc)
    PROVE  StateTyped'
<1>1. /\ GET_RD(w) \in Reg /\ GET_RS1(w) \in Reg /\ GET_RS2(w) \in Reg /\ GET_FUNCT3(w) \in 0..7
      /\ x[GET_RS1(w)] \in Word /\ x[GET_RS2(w)] \in Word
    BY FieldType, RegisterType
<1>2. \A v \in Word : v \in Nat
    BY SignedType
<1>3. ASSUME Op(w)
      PROVE  StateTyped'
    <2>1. MulDiv(GET_FUNCT3(w), x[GET_RS1(w)], x[GET_RS2(w)]) \in Word \cup {HostTrap}
        BY <1>1, MulDivType
    <2>2. \A alt : Integer(GET_FUNCT3(w), alt, x[GET_RS1(w)], x[GET_RS2(w)]) \in Word
        BY <1>1, <1>2, IntegerType
    <2> QED BY <1>1, <1>3, <2>1, <2>2, NextPc, SetsTyped, ComputesTyped, IllegalTyped DEF Op
<1>4. ASSUME OpImm(w)
      PROVE  StateTyped'
    <2> DEFINE b == IF GET_FUNCT3(w) \in {1, 5} THEN GET_RS2(w) ELSE ToWord(GET_IMM_I(w))
    <2>1. b \in Nat /\ (GET_FUNCT3(w) \notin {1, 5} => b \in Word)
        BY <1>1, <1>2, ImmediateType, ToWordType DEF Reg
    <2>2. \A alt : Integer(GET_FUNCT3(w), alt, x[GET_RS1(w)], b) \in Word
        <3> HIDE DEF b
        <3> QED BY <1>1, <2>1, IntegerType
    <2> QED BY <1>1, <1>4, <2>2, NextPc, SetsTyped DEF OpImm
<1>5. ASSUME NEW base \in Int, Upper(w, base)
      PROVE  StateTyped'
    <2>1. GET_IMM_U(w) * 2 ^ ImmShift \in Int
        BY ImmediateType, Scaled
    <2>2. ToWord(GET_IMM_U(w) * 2 ^ ImmShift + base) \in Word
        BY <2>1, Sum2
    <2> QED BY <1>1, <1>5, <2>2, NextPc, SetsTyped DEF Upper
<1> QED BY <1>3, <1>4, <1>5, NextPc

LEMMA AtomicsTyped ==
    ASSUME StateTyped, NEW w \in Instruction, Atomics(w)
    PROVE  StateTyped'
<1>1. /\ GET_RD(w) \in Reg /\ x[GET_RS1(w)] \in Word /\ x[GET_RS2(w)] \in Word
    BY FieldType, RegisterType
<1> QED BY <1>1, AmoTyped, ReservationTyped, IllegalTyped DEF Atomics

LEMMA TransferTyped ==
    ASSUME StateTyped, NEW w \in Instruction,
           Branch(w) \/ Jal(w) \/ Jalr(w) \/ MiscMem(w) \/ System(w)
    PROVE  StateTyped'
<1>1. GET_RD(w) \in Reg /\ x[GET_RS1(w)] \in Word /\ x[GET_RS1(w)] \in Int
      /\ 0 \in Reg /\ 0 \in Word
    BY FieldType, RegisterType, WordFacts DEF Reg
<1>2. /\ GET_IMM_I(w) \in Int /\ pc + GET_IMM_B(w) \in Int /\ pc + GET_IMM_J(w) \in Int
    BY ImmediateType, NextPc, Sum2
<1>3. ASSUME Branch(w)
      PROVE  StateTyped'
    <2>1. ASSUME NEW taken, Sets(0, 0, IF taken THEN pc + GET_IMM_B(w) ELSE pc + 4)
          PROVE  StateTyped'
        BY <1>1, <1>2, <2>1, NextPc, SetsTyped
    <2> QED BY <1>3, <2>1, IllegalTyped DEF Branch
<1>4. ASSUME Jal(w) \/ Jalr(w)
      PROVE  StateTyped'
    <2>1. ToWord(pc + 4) \in Word /\ GET_RD(w) \in Reg
        BY <1>1, NextPc, ToWordType
    <2>2. Even(ToWord(x[GET_RS1(w)] + GET_IMM_I(w))) \in Int
        BY <1>1, <1>2, Sum2, EvenType
    <2> QED BY <1>1, <1>2, <1>4, <2>1, <2>2, SetsTyped DEF Jal, Jalr
<1>5. ASSUME MiscMem(w)
      PROVE  StateTyped'
    BY <1>1, <1>5, NextPc, SetsTyped, IllegalTyped DEF MiscMem
<1>6. ASSUME System(w)
      PROVE  StateTyped'
    BY <1>6, TrapTyped, IllegalTyped, AtomicsTyped DEF System
<1> QED BY <1>3, <1>4, <1>5, <1>6

LEMMA AccessTyped ==
    ASSUME StateTyped, NEW w \in Instruction, LoadOp(w) \/ StoreOp(w)
    PROVE  StateTyped'
<1>1. /\ GET_RD(w) \in Reg /\ GET_RS1(w) \in Reg /\ GET_RS2(w) \in Reg /\ GET_FUNCT3(w) \in 0..7
      /\ x[GET_RS1(w)] \in Int /\ x[GET_RS2(w)] \in Word
    BY FieldType, RegisterType
<1>2. /\ ToWord(x[GET_RS1(w)] + GET_IMM_I(w)) \in Word
      /\ ToWord(x[GET_RS1(w)] + GET_IMM_S(w)) \in Word
    BY <1>1, ImmediateType, Sum2
<1>3. \A width \in 0..7 : width \notin {3, 6, 7} => 2 ^ (width % 4) \in 1..4
    <2>1. 2 ^ 0 = 1 /\ 2 ^ 1 = 2 /\ 2 ^ 2 = 4
        OBVIOUS
    <2>2. \A width \in 0..7 : width \notin {3, 6, 7} => width % 4 \in {0, 1, 2}
        OBVIOUS
    <2>3. \A k \in {0, 1, 2} : 2 ^ k \in {1, 2, 4}
        BY <2>1, Zenon
    <2>4. \A k \in {1, 2, 4} : k \in 1..4
        OBVIOUS
    <2> QED BY <2>2, <2>3, <2>4
<1>4. ASSUME LoadOp(w)
      PROVE  StateTyped'
    <2>1. CASE GET_FUNCT3(w) \in {3, 6, 7}
        BY <1>4, <2>1, IllegalTyped DEF LoadOp
    <2>2. CASE GET_FUNCT3(w) \notin {3, 6, 7}
        <3> DEFINE n == 2 ^ (GET_FUNCT3(w) % 4)
                   signed == GET_FUNCT3(w) < 4
        <3>1. n \in 1..4 /\ signed \in BOOLEAN
            <4>1. n \in 1..4
                BY <1>1, <1>3, <2>2, Zenon
            <4>2. signed \in BOOLEAN
                OBVIOUS
            <4> QED BY <4>1, <4>2
        <3>2. Load(GET_RD(w), ToWord(x[GET_RS1(w)] + GET_IMM_I(w)), n, signed, pc + 4)
            BY <1>4, <2>2, Zenon DEF LoadOp
        <3> HIDE DEF n, signed
        <3> QED BY <1>1, <1>2, <3>1, <3>2, NextPc, LoadTyped, Zenon
    <2> QED BY <2>1, <2>2
<1>5. ASSUME StoreOp(w)
      PROVE  StateTyped'
    <2>1. 2 ^ GET_FUNCT3(w) \in Nat
        BY <1>1, Powers
    <2> QED BY <1>1, <1>2, <1>5, <2>1, NextPc, StoreTyped, IllegalTyped DEF StoreOp
<1> QED BY <1>4, <1>5


LEMMA CompressedTyped ==
    ASSUME StateTyped, NEW w \in Instruction, rv32_exec_compressed_instr(w)
    PROVE  StateTyped'
<1> DEFINE rd == GET_C_RD(w)
           rs2 == GET_C_RS2(w)
           rs1c == GET_C_RS1_COMP(w)
           rs2c == GET_C_RS2_COMP(w)
<1>1. /\ rd \in Reg /\ rs2 \in Reg /\ rs1c \in Reg /\ rs2c \in Reg
      /\ 0 \in Reg /\ 1 \in Reg /\ 2 \in Reg
    BY FieldType DEF Reg
<1>2. /\ x[rd] \in Word /\ x[rs2] \in Word /\ x[rs1c] \in Word /\ x[rs2c] \in Word
      /\ x[rd] \in Int /\ x[rs2] \in Int /\ x[rs1c] \in Int /\ x[rs2c] \in Int /\ x[2] \in Int
    BY <1>1, RegisterType
<1>3. /\ ToWord(x[rs1c] + GET_C_IMM_CS(w)) \in Word /\ ToWord(x[2] + GET_C_IMM_CIW(w)) \in Word
      /\ ToWord(GET_C_IMM_CB(w)) \in Word /\ ToWord(x[rd] + GET_C_IMM_CB(w)) \in Word
      /\ ToWord(x[2] + GET_C_IMM_CSP(w)) \in Word /\ ToWord(x[2] + GET_C_IMM_CI(w)) \in Word
      /\ ToWord(x[2] + GET_C_IMM_CSS(w)) \in Word
      /\ ToWord(GET_C_IMM_CB(w) * 2 ^ ImmShift) \in Word
      /\ pc + GET_C_IMM_CJ(w) \in Int /\ pc + GET_C_IMM_CBR(w) \in Int
    <2>1. \A v \in Nat : v \in Int
        OBVIOUS
    <2> QED BY <1>2, <2>1, CompressedImmediateType, NextPc, Scaled, Sum2, ToWordType
<1>4. ToWord(pc + 2) \in Word /\ 0 \in Word /\ 4 \in 1..4 /\ 4 \in Nat
    BY NextPc, ToWordType, WordFacts
<1>5. \A r \in Reg, a \in Word : Load(r, a, 4, FALSE, pc + 2) => StateTyped'
    BY <1>4, NextPc, LoadTyped, Zenon
<1>6. ASSUME Quadrant0(w)
      PROVE  StateTyped'
    BY <1>1, <1>2, <1>3, <1>4, <1>6, <1>5, NextPc, SetsTyped, StoreTyped, IllegalTyped
       DEF Quadrant0
<1>7. ASSUME MiscAlu(w)
      PROVE  StateTyped'
    <2> DEFINE shamt == GET_C_IMM_CBU(w)
    <2>1. Srl(x[rs1c], shamt) \in Word /\ Sra(x[rs1c], shamt) \in Word
        BY <1>2, CompressedImmediateType, ShiftType
    <2>2. /\ And(x[rs1c], ToWord(GET_C_IMM_CB(w))) \in Word
          /\ And(x[rs1c], x[rs2c]) \in Word /\ Or(x[rs1c], x[rs2c]) \in Word
          /\ Xor(x[rs1c], x[rs2c]) \in Word /\ ToWord(x[rs1c] - x[rs2c]) \in Word
        BY <1>2, <1>3, BitwiseType, Sum2
    <2> HIDE DEF rs1c, rs2c
    <2>3. \A v \in Word : Sets(rs1c, v, pc + 2) => StateTyped'
        BY <1>1, NextPc, SetsTyped
    <2> QED BY <1>2, <1>7, <2>1, <2>2, <2>3, IllegalTyped DEF MiscAlu, rs1c, rs2c
<1>8. ASSUME NEW taken, C_Branch(taken, w)
      PROVE  StateTyped'
    BY <1>1, <1>3, <1>4, <1>8, NextPc, SetsTyped DEF C_Branch
<1>9. ASSUME Quadrant1(w)
      PROVE  StateTyped'
    BY <1>1, <1>3, <1>4, <1>7, <1>8, <1>9, NextPc, SetsTyped, IllegalTyped DEF Quadrant1
<1>10. ASSUME JumpMoveAdd(w)
       PROVE  StateTyped'
    <2>1. Even(x[rd]) \in Int /\ ToWord(x[rd] + x[rs2]) \in Word
        BY <1>2, EvenType, Sum2
    <2> QED BY <1>1, <1>2, <1>4, <1>10, <2>1, NextPc, SetsTyped, TrapTyped, IllegalTyped
            DEF JumpMoveAdd
<1>11. ASSUME Quadrant2(w)
       PROVE  StateTyped'
    <2>1. Sll(x[rd], GET_C_IMM_CBU(w)) \in Word
        BY <1>2, CompressedImmediateType, ShiftType
    <2> QED BY <1>1, <1>2, <1>3, <1>4, <1>10, <1>11, <1>5, <2>1, NextPc, SetsTyped,
               StoreTyped, IllegalTyped DEF Quadrant2
<1> QED BY <1>6, <1>9, <1>11 DEF rv32_exec_compressed_instr

LEMMA InstrTyped ==
    ASSUME StateTyped, NEW w \in Instruction, rv32_exec_instr(w)
    PROVE  StateTyped'
BY CompressedTyped, ArithmeticTyped, AtomicsTyped, TransferTyped, AccessTyped, IllegalTyped
   DEF rv32_exec_instr

LEMMA TypesInit == Init => TypeOK
<1> SUFFICES ASSUME Init
             PROVE  TypeOK
    OBVIOUS
<1>1. x \in [Reg -> Word] /\ pc \in Word /\ lr_addr \in Word /\ mem \in [Ram -> Byte]
    BY StartsAssumption DEF Init
<1>2. trap.cause = 0 /\ trap.epc \in Word
    BY WordFacts DEF Init, NoTrap
<1>3. alive \in BOOLEAN /\ instr_cnt \in 0..MaxInstr
    BY MaxInstrAssumption DEF Init
<1> QED BY <1>1, <1>2, <1>3 DEF TypeOK

LEMMA TypesStep == TypeOK /\ [Next]_vars => TypeOK'
<1>1. CASE UNCHANGED vars
    BY <1>1 DEF vars, TypeOK
<1>2. ASSUME TypeOK, NEW i \in Program, rv32_run(i)
      PROVE  TypeOK'
    <2>1. StateTyped
        BY <1>2 DEF TypeOK, StateTyped
    <2>2. StateTyped'
        BY <1>2, <2>1, ProgramAssumption, InstrTyped DEF rv32_run
    <2>3. instr_cnt' \in 0..MaxInstr
        BY <1>2, MaxInstrAssumption DEF rv32_run, TypeOK
    <2> QED BY <2>2, <2>3 DEF TypeOK, StateTyped
<1> QED BY <1>1, <1>2 DEF Next

\* Registers, pc, reservation and memory hold words and bytes after any
\* sequence of instructions, at every width: every result of the ALU, of a load
\* and of an AMO fits its register, every address that an instruction computes
\* wraps, and a trap has a cause the code raises (rv32_exec_instr and
\* rv32_exec_compressed_instr).
THEOREM Typed == Spec => []TypeOK
BY TypesInit, TypesStep, PTL DEF Spec

-----------------------------------------------------------------------------
(* What the immediate macros read *)

\* Multiples of m do not show in a remainder by m.
LEMMA Wraps ==
    ASSUME NEW m \in Nat \ {0}, NEW a \in Int, NEW z \in Int
    PROVE  (a + m * z) % m = a % m
<1>1. PICK q \in Int, r \in Int : a = m * q + r /\ r = a % m /\ 0 <= r /\ r < m
    <2>1. a = m * (a \div m) + (a % m) /\ a % m \in Int /\ 0 <= a % m /\ a % m < m
          /\ a \div m \in Int
        OBVIOUS
    <2> QED BY <2>1
<1>2. a + m * z = m * (q + z) + r
    <2>1. m * (q + z) = m * q + m * z /\ m * q \in Int /\ m * z \in Int
        OBVIOUS
    <2> QED BY <1>1, <2>1
<1>3. ASSUME NEW e \in Int, NEW f \in Int, 0 <= f, f < m
      PROVE  (m * e + f) % m = f
    BY <1>3
<1>4. q + z \in Int
    OBVIOUS
<1> QED BY <1>1, <1>2, <1>3, <1>4

\* A piece of the low half is a field of it: what the code shifts in from
\* the high half is masked out.
LEMMA LowPiece ==
    ASSUME NEW w, NEW lo \in Nat, NEW hi \in Nat, w.lo = lo, w.hi = hi,
           NEW s \in Nat, NEW n \in Nat, NEW t \in Nat, t + 1 = s + n, t < 16, s < 16
    PROVE  get_instr_piece(w, s, n) = Bits(lo, t, s)
<1>1. t - s + 1 = n /\ 16 - s - n \in Nat /\ 16 - s = n + (16 - s - n) /\ ~(s >= 16)
    OBVIOUS
<1>2. PICK p \in Nat \ {0}, m \in Nat \ {0}, k \in Nat \ {0} :
        p = 2 ^ s /\ m = 2 ^ n /\ k = 2 ^ (16 - s - n)
    BY <1>1, Powers
<1>3. 2 ^ (16 - s) = m * k
    BY <1>1, <1>2, PowerOfSum
<1>4. get_instr_piece(w, s, n) = (lo \div p + (hi % m) * (m * k)) % m
    BY <1>1, <1>2, <1>3, Zenon DEF get_instr_piece
<1>5. Bits(lo, t, s) = (lo \div p) % m
    BY <1>1, <1>2, Zenon DEF Bits
<1>6. PICK l \in Int, h \in Int : l = lo \div p /\ h = hi % m
    BY <1>2
<1>7. h * (m * k) = m * (h * k) /\ h * k \in Int
    BY <1>2, <1>6
<1>8. (l + m * (h * k)) % m = l % m
    BY <1>2, <1>6, <1>7, Wraps
<1> QED BY <1>4, <1>5, <1>6, <1>7, <1>8, Zenon

\* A sum of up to ten numbers, written out.
LEMMA SumList ==
    ASSUME NEW n \in Nat, NEW t \in [0..(n - 1) -> Nat]
    PROVE  /\ n = 2 => SumOf(t, n) = t[0] + t[1]
           /\ n = 3 => SumOf(t, n) = t[0] + t[1] + t[2]
           /\ n = 4 => SumOf(t, n) = t[0] + t[1] + t[2] + t[3]
           /\ n = 5 => SumOf(t, n) = t[0] + t[1] + t[2] + t[3] + t[4]
           /\ n = 6 => SumOf(t, n) = t[0] + t[1] + t[2] + t[3] + t[4] + t[5]
           /\ n = 7 => SumOf(t, n) = t[0] + t[1] + t[2] + t[3] + t[4] + t[5] + t[6]
           /\ n = 8 => SumOf(t, n) = t[0] + t[1] + t[2] + t[3] + t[4] + t[5] + t[6] + t[7]
           /\ n = 10 => SumOf(t, n) = t[0] + t[1] + t[2] + t[3] + t[4] + t[5] + t[6] + t[7]
                + t[8] + t[9]
<1>1. PICK s \in [0..n -> Nat] :
        /\ s[0] = 0 /\ \A k \in 1..n : s[k] = s[k - 1] + t[k - 1]
        /\ SumOf(t, n) = s[n]
    BY Sums
<1>2. \A k \in 0..(n - 1) : t[k] \in Nat
    OBVIOUS
<1>3. 1 <= n => s[1] = t[0]
    BY <1>1, <1>2
<1>4. 2 <= n => s[2] = t[0] + t[1]
    BY <1>1, <1>2, <1>3
<1>5. 3 <= n => s[3] = t[0] + t[1] + t[2]
    BY <1>1, <1>2, <1>4
<1>6. 4 <= n => s[4] = t[0] + t[1] + t[2] + t[3]
    BY <1>1, <1>2, <1>5
<1>7. 5 <= n => s[5] = t[0] + t[1] + t[2] + t[3] + t[4]
    BY <1>1, <1>2, <1>6
<1>8. 6 <= n => s[6] = t[0] + t[1] + t[2] + t[3] + t[4] + t[5]
    BY <1>1, <1>2, <1>7
<1>9. 7 <= n => s[7] = t[0] + t[1] + t[2] + t[3] + t[4] + t[5] + t[6]
    BY <1>1, <1>2, <1>8
<1>10. 8 <= n => s[8] = t[0] + t[1] + t[2] + t[3] + t[4] + t[5] + t[6] + t[7]
    BY <1>1, <1>2, <1>9
<1>11. 9 <= n => s[9] = t[0] + t[1] + t[2] + t[3] + t[4] + t[5] + t[6] + t[7] + t[8]
    BY <1>1, <1>2, <1>10
<1>12. 10 <= n => s[10] = t[0] + t[1] + t[2] + t[3] + t[4] + t[5] + t[6] + t[7] + t[8] + t[9]
    BY <1>1, <1>2, <1>11
<1>13. SumOf(t, n) = s[n]
    BY <1>1
<1>14. n = 2 => SumOf(t, n) = t[0] + t[1]
    BY <1>4, <1>13
<1>15. n = 3 => SumOf(t, n) = t[0] + t[1] + t[2]
    BY <1>5, <1>13
<1>16. n = 4 => SumOf(t, n) = t[0] + t[1] + t[2] + t[3]
    BY <1>6, <1>13
<1>17. n = 5 => SumOf(t, n) = t[0] + t[1] + t[2] + t[3] + t[4]
    BY <1>7, <1>13
<1>18. n = 6 => SumOf(t, n) = t[0] + t[1] + t[2] + t[3] + t[4] + t[5]
    BY <1>8, <1>13
<1>19. n = 7 => SumOf(t, n) = t[0] + t[1] + t[2] + t[3] + t[4] + t[5] + t[6]
    BY <1>9, <1>13
<1>20. n = 8 => SumOf(t, n) = t[0] + t[1] + t[2] + t[3] + t[4] + t[5] + t[6] + t[7]
    BY <1>10, <1>13
<1>21. n = 10 => SumOf(t, n) = t[0] + t[1] + t[2] + t[3] + t[4] + t[5] + t[6] + t[7] + t[8]
      + t[9]
    BY <1>12, <1>13
<1> QED BY <1>14, <1>15, <1>16, <1>17, <1>18, <1>19, <1>20, <1>21, Zenon

\* One summand of Gather.
Term(w, p) == get_instr_piece(w, p[1], p[2]) * 2 ^ p[3]

\* Gather, written out for the lengths that occur.
LEMMA Gathers ==
    ASSUME NEW w \in Instruction, NEW p \in Seq(Nat \X Nat \X Nat)
    PROVE  /\ Len(p) = 2 => Gather(w, p) = Term(w, p[1]) + Term(w, p[2])
           /\ Len(p) = 3 => Gather(w, p) = Term(w, p[1]) + Term(w, p[2]) + Term(w, p[3])
           /\ Len(p) = 4 => Gather(w, p) = Term(w, p[1]) + Term(w, p[2]) + Term(w, p[3])
                + Term(w, p[4])
           /\ Len(p) = 5 => Gather(w, p) = Term(w, p[1]) + Term(w, p[2]) + Term(w, p[3])
                + Term(w, p[4]) + Term(w, p[5])
           /\ Len(p) = 8 => Gather(w, p) = Term(w, p[1]) + Term(w, p[2]) + Term(w, p[3])
                + Term(w, p[4]) + Term(w, p[5]) + Term(w, p[6]) + Term(w, p[7])
                + Term(w, p[8])
<1> DEFINE n == Len(p)
           t == [k \in 0..(n - 1) |-> Term(w, p[k + 1])]
<1>1. ASSUME NEW q \in Nat \X Nat \X Nat
      PROVE  Term(w, q) \in Nat
    <2>1. PICK a \in Nat, b \in Nat, c \in Nat : a = q[1] /\ b = q[2] /\ c = q[3]
        OBVIOUS
    <2>2. get_instr_piece(w, a, b) \in Nat /\ 2 ^ c \in Nat
        BY PieceType, Powers
    <2>3. \A i, j \in Nat : i * j \in Nat
        OBVIOUS
    <2> QED BY <2>1, <2>2, <2>3, Zenon DEF Term
<1>2. n \in Nat /\ \A k \in 0..(n - 1) : p[k + 1] \in Nat \X Nat \X Nat
    OBVIOUS
<1>3. t \in [0..(n - 1) -> Nat]
    BY <1>1, <1>2
<1>4. Gather(w, p) = SumOf(t, n)
    BY DEF Gather, Term
<1>5. /\ 0 < n => t[0] = Term(w, p[1])
      /\ 1 < n => t[1] = Term(w, p[2])
      /\ 2 < n => t[2] = Term(w, p[3])
      /\ 3 < n => t[3] = Term(w, p[4])
      /\ 4 < n => t[4] = Term(w, p[5])
      /\ 5 < n => t[5] = Term(w, p[6])
      /\ 6 < n => t[6] = Term(w, p[7])
      /\ 7 < n => t[7] = Term(w, p[8])
    BY <1>2
<1>6. n = Len(p)
    OBVIOUS
<1> HIDE DEF n, t
<1>7. /\ (n = 2 => SumOf(t, n) = t[0] + t[1])
      /\ (n = 3 => SumOf(t, n) = t[0] + t[1] + t[2])
      /\ (n = 4 => SumOf(t, n) = t[0] + t[1] + t[2] + t[3])
      /\ (n = 5 => SumOf(t, n) = t[0] + t[1] + t[2] + t[3] + t[4])
      /\ (n = 8 => SumOf(t, n) = t[0] + t[1] + t[2] + t[3] + t[4] + t[5] + t[6] + t[7])
    BY <1>2, <1>3, SumList
<1>8. n = 2 => SumOf(t, n) = Term(w, p[1]) + Term(w, p[2])
    BY <1>5, <1>7
<1>9. n = 3 => SumOf(t, n) = Term(w, p[1]) + Term(w, p[2]) + Term(w, p[3])
    BY <1>5, <1>7
<1>10. n = 4 => SumOf(t, n) = Term(w, p[1]) + Term(w, p[2]) + Term(w, p[3]) + Term(w, p[4])
    BY <1>5, <1>7
<1>11. n = 5 => SumOf(t, n) = Term(w, p[1]) + Term(w, p[2]) + Term(w, p[3]) + Term(w, p[4])
      + Term(w, p[5])
    BY <1>5, <1>7
<1>12. n = 8 => SumOf(t, n) = Term(w, p[1]) + Term(w, p[2]) + Term(w, p[3]) + Term(w, p[4])
      + Term(w, p[5]) + Term(w, p[6]) + Term(w, p[7]) + Term(w, p[8])
    BY <1>5, <1>7
<1> QED BY <1>4, <1>6, <1>8, <1>9, <1>10, <1>11, <1>12, Zenon

CompressedImmediates(w) ==
    /\ GET_C_IMM_CJ(w) = sext(32 * get_instr_piece(w, 2, 1) + 2 * get_instr_piece(w, 3, 3)
         + 128 * get_instr_piece(w, 6, 1) + 64 * get_instr_piece(w, 7, 1)
         + 1024 * get_instr_piece(w, 8, 1) + 256 * get_instr_piece(w, 9, 2)
         + 16 * get_instr_piece(w, 11, 1) + 2048 * get_instr_piece(w, 12, 1), 12)
    /\ GET_C_IMM_CI(w) = 64 * get_instr_piece(w, 2, 2) + 4 * get_instr_piece(w, 4, 3)
         + 32 * get_instr_piece(w, 12, 1)
    /\ GET_C_IMM_CBU(w) = get_instr_piece(w, 2, 5) + 32 * get_instr_piece(w, 12, 1)
    /\ GET_C_IMM_CS(w) = 64 * get_instr_piece(w, 5, 1) + 4 * get_instr_piece(w, 6, 1)
         + 8 * get_instr_piece(w, 10, 3)
    /\ GET_C_IMM_CSS(w) = 64 * get_instr_piece(w, 7, 2) + 4 * get_instr_piece(w, 9, 4)
    /\ GET_C_IMM_CSP(w) = sext(32 * get_instr_piece(w, 2, 1) + 128 * get_instr_piece(w, 3, 2)
         + 64 * get_instr_piece(w, 5, 1) + 16 * get_instr_piece(w, 6, 1)
         + 512 * get_instr_piece(w, 12, 1), 10)
    /\ GET_C_IMM_CIW(w) = 8 * get_instr_piece(w, 5, 1) + 4 * get_instr_piece(w, 6, 1)
         + 64 * get_instr_piece(w, 7, 4) + 16 * get_instr_piece(w, 11, 2)
    /\ GET_C_IMM_CBR(w) = sext(32 * get_instr_piece(w, 2, 1) + 2 * get_instr_piece(w, 3, 2)
         + 64 * get_instr_piece(w, 5, 2) + 8 * get_instr_piece(w, 10, 2)
         + 256 * get_instr_piece(w, 12, 1), 9)

\* What each macro of a compressed format gathers.
LEMMA Pieces ==
    ASSUME NEW w \in Instruction
    PROVE  CompressedImmediates(w)
<1>1. /\ Term(w, <<2, 1, 5>>) = 32 * get_instr_piece(w, 2, 1)
      /\ Term(w, <<2, 2, 6>>) = 64 * get_instr_piece(w, 2, 2)
      /\ Term(w, <<2, 5, 0>>) = get_instr_piece(w, 2, 5)
      /\ Term(w, <<3, 2, 1>>) = 2 * get_instr_piece(w, 3, 2)
      /\ Term(w, <<3, 2, 7>>) = 128 * get_instr_piece(w, 3, 2)
      /\ Term(w, <<3, 3, 1>>) = 2 * get_instr_piece(w, 3, 3)
      /\ Term(w, <<4, 3, 2>>) = 4 * get_instr_piece(w, 4, 3)
      /\ Term(w, <<5, 1, 3>>) = 8 * get_instr_piece(w, 5, 1)
      /\ Term(w, <<5, 1, 6>>) = 64 * get_instr_piece(w, 5, 1)
      /\ Term(w, <<5, 2, 6>>) = 64 * get_instr_piece(w, 5, 2)
      /\ Term(w, <<6, 1, 2>>) = 4 * get_instr_piece(w, 6, 1)
      /\ Term(w, <<6, 1, 4>>) = 16 * get_instr_piece(w, 6, 1)
      /\ Term(w, <<6, 1, 7>>) = 128 * get_instr_piece(w, 6, 1)
      /\ Term(w, <<7, 1, 6>>) = 64 * get_instr_piece(w, 7, 1)
      /\ Term(w, <<7, 2, 6>>) = 64 * get_instr_piece(w, 7, 2)
      /\ Term(w, <<7, 4, 6>>) = 64 * get_instr_piece(w, 7, 4)
      /\ Term(w, <<8, 1, 10>>) = 1024 * get_instr_piece(w, 8, 1)
      /\ Term(w, <<9, 2, 8>>) = 256 * get_instr_piece(w, 9, 2)
      /\ Term(w, <<9, 4, 2>>) = 4 * get_instr_piece(w, 9, 4)
      /\ Term(w, <<10, 2, 3>>) = 8 * get_instr_piece(w, 10, 2)
      /\ Term(w, <<10, 3, 3>>) = 8 * get_instr_piece(w, 10, 3)
      /\ Term(w, <<11, 1, 4>>) = 16 * get_instr_piece(w, 11, 1)
      /\ Term(w, <<11, 2, 4>>) = 16 * get_instr_piece(w, 11, 2)
      /\ Term(w, <<12, 1, 5>>) = 32 * get_instr_piece(w, 12, 1)
      /\ Term(w, <<12, 1, 8>>) = 256 * get_instr_piece(w, 12, 1)
      /\ Term(w, <<12, 1, 9>>) = 512 * get_instr_piece(w, 12, 1)
      /\ Term(w, <<12, 1, 11>>) = 2048 * get_instr_piece(w, 12, 1)
    BY PieceType DEF Term
<1>2. GET_C_IMM_CJ(w) = sext(32 * get_instr_piece(w, 2, 1) + 2 * get_instr_piece(w, 3, 3)
      + 128 * get_instr_piece(w, 6, 1) + 64 * get_instr_piece(w, 7, 1)
      + 1024 * get_instr_piece(w, 8, 1) + 256 * get_instr_piece(w, 9, 2)
      + 16 * get_instr_piece(w, 11, 1) + 2048 * get_instr_piece(w, 12, 1), 12)
    <2> DEFINE p == <<<<2, 1, 5>>, <<3, 3, 1>>, <<6, 1, 7>>, <<7, 1, 6>>, <<8, 1, 10>>,
          <<9, 2, 8>>, <<11, 1, 4>>, <<12, 1, 11>>>>
    <2>1. p \in Seq(Nat \X Nat \X Nat) /\ Len(p) = 8
        OBVIOUS
    <2>2. p[1] = <<2, 1, 5>> /\ p[2] = <<3, 3, 1>> /\ p[3] = <<6, 1, 7>> /\ p[4] = <<7, 1, 6>>
          /\ p[5] = <<8, 1, 10>> /\ p[6] = <<9, 2, 8>> /\ p[7] = <<11, 1, 4>>
          /\ p[8] = <<12, 1, 11>>
        OBVIOUS
    <2>3. GET_C_IMM_CJ(w) = sext(Gather(w, p), 12)
        BY Zenon DEF GET_C_IMM_CJ
    <2> HIDE DEF p
    <2>4. Gather(w, p) = Term(w, <<2, 1, 5>>) + Term(w, <<3, 3, 1>>) + Term(w, <<6, 1, 7>>)
          + Term(w, <<7, 1, 6>>) + Term(w, <<8, 1, 10>>) + Term(w, <<9, 2, 8>>)
          + Term(w, <<11, 1, 4>>) + Term(w, <<12, 1, 11>>)
        BY <2>1, <2>2, Gathers
    <2>5. Gather(w, p) = 32 * get_instr_piece(w, 2, 1) + 2 * get_instr_piece(w, 3, 3)
          + 128 * get_instr_piece(w, 6, 1) + 64 * get_instr_piece(w, 7, 1)
          + 1024 * get_instr_piece(w, 8, 1) + 256 * get_instr_piece(w, 9, 2)
          + 16 * get_instr_piece(w, 11, 1) + 2048 * get_instr_piece(w, 12, 1)
        BY <1>1, <2>4
    <2> QED BY <2>3, <2>5
<1>3. GET_C_IMM_CI(w) = 64 * get_instr_piece(w, 2, 2) + 4 * get_instr_piece(w, 4, 3)
      + 32 * get_instr_piece(w, 12, 1)
    <2> DEFINE p == <<<<2, 2, 6>>, <<4, 3, 2>>, <<12, 1, 5>>>>
    <2>1. p \in Seq(Nat \X Nat \X Nat) /\ Len(p) = 3
        OBVIOUS
    <2>2. p[1] = <<2, 2, 6>> /\ p[2] = <<4, 3, 2>> /\ p[3] = <<12, 1, 5>>
        OBVIOUS
    <2>3. GET_C_IMM_CI(w) = Gather(w, p)
        BY Zenon DEF GET_C_IMM_CI
    <2> HIDE DEF p
    <2>4. Gather(w, p) = Term(w, <<2, 2, 6>>) + Term(w, <<4, 3, 2>>) + Term(w, <<12, 1, 5>>)
        BY <2>1, <2>2, Gathers
    <2>5. Gather(w, p) = 64 * get_instr_piece(w, 2, 2) + 4 * get_instr_piece(w, 4, 3)
          + 32 * get_instr_piece(w, 12, 1)
        BY <1>1, <2>4
    <2> QED BY <2>3, <2>5
<1>4. GET_C_IMM_CBU(w) = get_instr_piece(w, 2, 5) + 32 * get_instr_piece(w, 12, 1)
    <2> DEFINE p == <<<<2, 5, 0>>, <<12, 1, 5>>>>
    <2>1. p \in Seq(Nat \X Nat \X Nat) /\ Len(p) = 2
        OBVIOUS
    <2>2. p[1] = <<2, 5, 0>> /\ p[2] = <<12, 1, 5>>
        OBVIOUS
    <2>3. GET_C_IMM_CBU(w) = Gather(w, p)
        BY Zenon DEF GET_C_IMM_CBU
    <2> HIDE DEF p
    <2>4. Gather(w, p) = Term(w, <<2, 5, 0>>) + Term(w, <<12, 1, 5>>)
        BY <2>1, <2>2, Gathers
    <2>5. Gather(w, p) = get_instr_piece(w, 2, 5) + 32 * get_instr_piece(w, 12, 1)
        BY <1>1, <2>4
    <2> QED BY <2>3, <2>5
<1>5. GET_C_IMM_CS(w) = 64 * get_instr_piece(w, 5, 1) + 4 * get_instr_piece(w, 6, 1)
      + 8 * get_instr_piece(w, 10, 3)
    <2> DEFINE p == <<<<5, 1, 6>>, <<6, 1, 2>>, <<10, 3, 3>>>>
    <2>1. p \in Seq(Nat \X Nat \X Nat) /\ Len(p) = 3
        OBVIOUS
    <2>2. p[1] = <<5, 1, 6>> /\ p[2] = <<6, 1, 2>> /\ p[3] = <<10, 3, 3>>
        OBVIOUS
    <2>3. GET_C_IMM_CS(w) = Gather(w, p)
        BY Zenon DEF GET_C_IMM_CS
    <2> HIDE DEF p
    <2>4. Gather(w, p) = Term(w, <<5, 1, 6>>) + Term(w, <<6, 1, 2>>) + Term(w, <<10, 3, 3>>)
        BY <2>1, <2>2, Gathers
    <2>5. Gather(w, p) = 64 * get_instr_piece(w, 5, 1) + 4 * get_instr_piece(w, 6, 1)
          + 8 * get_instr_piece(w, 10, 3)
        BY <1>1, <2>4
    <2> QED BY <2>3, <2>5
<1>6. GET_C_IMM_CSS(w) = 64 * get_instr_piece(w, 7, 2) + 4 * get_instr_piece(w, 9, 4)
    <2> DEFINE p == <<<<7, 2, 6>>, <<9, 4, 2>>>>
    <2>1. p \in Seq(Nat \X Nat \X Nat) /\ Len(p) = 2
        OBVIOUS
    <2>2. p[1] = <<7, 2, 6>> /\ p[2] = <<9, 4, 2>>
        OBVIOUS
    <2>3. GET_C_IMM_CSS(w) = Gather(w, p)
        BY Zenon DEF GET_C_IMM_CSS
    <2> HIDE DEF p
    <2>4. Gather(w, p) = Term(w, <<7, 2, 6>>) + Term(w, <<9, 4, 2>>)
        BY <2>1, <2>2, Gathers
    <2>5. Gather(w, p) = 64 * get_instr_piece(w, 7, 2) + 4 * get_instr_piece(w, 9, 4)
        BY <1>1, <2>4
    <2> QED BY <2>3, <2>5
<1>7. GET_C_IMM_CSP(w) = sext(32 * get_instr_piece(w, 2, 1) + 128 * get_instr_piece(w, 3, 2)
      + 64 * get_instr_piece(w, 5, 1) + 16 * get_instr_piece(w, 6, 1)
      + 512 * get_instr_piece(w, 12, 1), 10)
    <2> DEFINE p == <<<<2, 1, 5>>, <<3, 2, 7>>, <<5, 1, 6>>, <<6, 1, 4>>, <<12, 1, 9>>>>
    <2>1. p \in Seq(Nat \X Nat \X Nat) /\ Len(p) = 5
        OBVIOUS
    <2>2. p[1] = <<2, 1, 5>> /\ p[2] = <<3, 2, 7>> /\ p[3] = <<5, 1, 6>> /\ p[4] = <<6, 1, 4>>
          /\ p[5] = <<12, 1, 9>>
        OBVIOUS
    <2>3. GET_C_IMM_CSP(w) = sext(Gather(w, p), 10)
        BY Zenon DEF GET_C_IMM_CSP
    <2> HIDE DEF p
    <2>4. Gather(w, p) = Term(w, <<2, 1, 5>>) + Term(w, <<3, 2, 7>>) + Term(w, <<5, 1, 6>>)
          + Term(w, <<6, 1, 4>>) + Term(w, <<12, 1, 9>>)
        BY <2>1, <2>2, Gathers
    <2>5. Gather(w, p) = 32 * get_instr_piece(w, 2, 1) + 128 * get_instr_piece(w, 3, 2)
          + 64 * get_instr_piece(w, 5, 1) + 16 * get_instr_piece(w, 6, 1)
          + 512 * get_instr_piece(w, 12, 1)
        BY <1>1, <2>4
    <2> QED BY <2>3, <2>5
<1>8. GET_C_IMM_CIW(w) = 8 * get_instr_piece(w, 5, 1) + 4 * get_instr_piece(w, 6, 1)
      + 64 * get_instr_piece(w, 7, 4) + 16 * get_instr_piece(w, 11, 2)
    <2> DEFINE p == <<<<5, 1, 3>>, <<6, 1, 2>>, <<7, 4, 6>>, <<11, 2, 4>>>>
    <2>1. p \in Seq(Nat \X Nat \X Nat) /\ Len(p) = 4
        OBVIOUS
    <2>2. p[1] = <<5, 1, 3>> /\ p[2] = <<6, 1, 2>> /\ p[3] = <<7, 4, 6>>
          /\ p[4] = <<11, 2, 4>>
        OBVIOUS
    <2>3. GET_C_IMM_CIW(w) = Gather(w, p)
        BY Zenon DEF GET_C_IMM_CIW
    <2> HIDE DEF p
    <2>4. Gather(w, p) = Term(w, <<5, 1, 3>>) + Term(w, <<6, 1, 2>>) + Term(w, <<7, 4, 6>>)
          + Term(w, <<11, 2, 4>>)
        BY <2>1, <2>2, Gathers
    <2>5. Gather(w, p) = 8 * get_instr_piece(w, 5, 1) + 4 * get_instr_piece(w, 6, 1)
          + 64 * get_instr_piece(w, 7, 4) + 16 * get_instr_piece(w, 11, 2)
        BY <1>1, <2>4
    <2> QED BY <2>3, <2>5
<1>9. GET_C_IMM_CBR(w) = sext(32 * get_instr_piece(w, 2, 1) + 2 * get_instr_piece(w, 3, 2)
      + 64 * get_instr_piece(w, 5, 2) + 8 * get_instr_piece(w, 10, 2)
      + 256 * get_instr_piece(w, 12, 1), 9)
    <2> DEFINE p == <<<<2, 1, 5>>, <<3, 2, 1>>, <<5, 2, 6>>, <<10, 2, 3>>, <<12, 1, 8>>>>
    <2>1. p \in Seq(Nat \X Nat \X Nat) /\ Len(p) = 5
        OBVIOUS
    <2>2. p[1] = <<2, 1, 5>> /\ p[2] = <<3, 2, 1>> /\ p[3] = <<5, 2, 6>>
          /\ p[4] = <<10, 2, 3>> /\ p[5] = <<12, 1, 8>>
        OBVIOUS
    <2>3. GET_C_IMM_CBR(w) = sext(Gather(w, p), 9)
        BY Zenon DEF GET_C_IMM_CBR
    <2> HIDE DEF p
    <2>4. Gather(w, p) = Term(w, <<2, 1, 5>>) + Term(w, <<3, 2, 1>>) + Term(w, <<5, 2, 6>>)
          + Term(w, <<10, 2, 3>>) + Term(w, <<12, 1, 8>>)
        BY <2>1, <2>2, Gathers
    <2>5. Gather(w, p) = 32 * get_instr_piece(w, 2, 1) + 2 * get_instr_piece(w, 3, 2)
          + 64 * get_instr_piece(w, 5, 2) + 8 * get_instr_piece(w, 10, 2)
          + 256 * get_instr_piece(w, 12, 1)
        BY <1>1, <2>4
    <2> QED BY <2>3, <2>5
<1> QED BY <1>2, <1>3, <1>4, <1>5, <1>6, <1>7, <1>8, <1>9 DEF CompressedImmediates

SumsOfFields(f) ==
    /\ Len(f) = 5 => LowHalf(f) = Low(f[1]) + Low(f[2]) + Low(f[3]) + Low(f[4]) + Low(f[5])
    /\ Len(f) = 6 => LowHalf(f) = Low(f[1]) + Low(f[2]) + Low(f[3]) + Low(f[4]) + Low(f[5])
         + Low(f[6])
    /\ Len(f) = 7 => LowHalf(f) = Low(f[1]) + Low(f[2]) + Low(f[3]) + Low(f[4]) + Low(f[5])
         + Low(f[6]) + Low(f[7])
    /\ Len(f) = 8 => LowHalf(f) = Low(f[1]) + Low(f[2]) + Low(f[3]) + Low(f[4]) + Low(f[5])
         + Low(f[6]) + Low(f[7]) + Low(f[8])
    /\ Len(f) = 10 => LowHalf(f) = Low(f[1]) + Low(f[2]) + Low(f[3]) + Low(f[4]) + Low(f[5])
         + Low(f[6]) + Low(f[7]) + Low(f[8]) + Low(f[9]) + Low(f[10])
    /\ Len(f) = 5 => UpperHalf(f) = High(f[1]) + High(f[2]) + High(f[3]) + High(f[4])
         + High(f[5])
    /\ Len(f) = 6 => UpperHalf(f) = High(f[1]) + High(f[2]) + High(f[3]) + High(f[4])
         + High(f[5]) + High(f[6])
    /\ Len(f) = 8 => UpperHalf(f) = High(f[1]) + High(f[2]) + High(f[3]) + High(f[4])
         + High(f[5]) + High(f[6]) + High(f[7]) + High(f[8])

\* A half word is the sum of its fields, written out for the lengths that occur.
LEMMA FieldSums ==
    ASSUME NEW f \in Seq(Nat \X Nat)
    PROVE  SumsOfFields(f)
<1>1. ASSUME NEW g \in Nat \X Nat
      PROVE  Low(g) \in Nat /\ High(g) \in Nat
    <2>1. PICK v \in Nat, p \in Nat : v = g[1] /\ p = g[2]
        OBVIOUS
    <2>2. CASE p < 16
        <3>1. PICK a \in Nat \ {0}, b \in Nat \ {0} : a = 2 ^ (16 - p) /\ b = 2 ^ p
            BY <2>2, Powers
        <3>2. Low(g) = (v % a) * b /\ High(g) = v \div a
            BY <2>1, <2>2, <3>1 DEF Low, High
        <3>3. v % a \in Nat /\ v \div a \in Nat
            OBVIOUS
        <3>4. (v % a) * b \in Nat
            BY <3>3
        <3> QED BY <3>2, <3>3, <3>4
    <2>3. CASE p >= 16
        <3>1. PICK a \in Nat \ {0} : a = 2 ^ (p - 16)
            BY <2>3, Powers
        <3>2. Low(g) = 0 /\ High(g) = v * a
            BY <2>1, <2>3, <3>1 DEF Low, High
        <3> QED BY <3>2
    <2> QED BY <2>2, <2>3
<1> DEFINE n == Len(f)
           t == [k \in 0..(n - 1) |-> Low(f[k + 1])]
           u == [k \in 0..(n - 1) |-> High(f[k + 1])]
<1>2. n \in Nat /\ \A k \in 0..(n - 1) : f[k + 1] \in Nat \X Nat
    OBVIOUS
<1>3. t \in [0..(n - 1) -> Nat] /\ u \in [0..(n - 1) -> Nat]
    BY <1>1, <1>2
<1>4. LowHalf(f) = SumOf(t, n) /\ UpperHalf(f) = SumOf(u, n)
    BY DEF LowHalf, UpperHalf
<1>5. ASSUME NEW k \in 0..(n - 1)
      PROVE  t[k] = Low(f[k + 1]) /\ u[k] = High(f[k + 1])
    OBVIOUS
<1>6. n = Len(f)
    OBVIOUS
<1> HIDE DEF n, t, u
<1>7. n = 5 => SumOf(t, n) = t[0] + t[1] + t[2] + t[3] + t[4]
    BY <1>2, <1>3, SumList
<1>8. n = 6 => SumOf(t, n) = t[0] + t[1] + t[2] + t[3] + t[4] + t[5]
    BY <1>2, <1>3, SumList
<1>9. n = 7 => SumOf(t, n) = t[0] + t[1] + t[2] + t[3] + t[4] + t[5] + t[6]
    BY <1>2, <1>3, SumList
<1>10. n = 8 => SumOf(t, n) = t[0] + t[1] + t[2] + t[3] + t[4] + t[5] + t[6] + t[7]
    BY <1>2, <1>3, SumList
<1>11. n = 10 => SumOf(t, n) = t[0] + t[1] + t[2] + t[3] + t[4] + t[5] + t[6] + t[7] + t[8]
      + t[9]
    BY <1>2, <1>3, SumList
<1>12. n = 5 => SumOf(u, n) = u[0] + u[1] + u[2] + u[3] + u[4]
    BY <1>2, <1>3, SumList
<1>13. n = 6 => SumOf(u, n) = u[0] + u[1] + u[2] + u[3] + u[4] + u[5]
    BY <1>2, <1>3, SumList
<1>14. n = 8 => SumOf(u, n) = u[0] + u[1] + u[2] + u[3] + u[4] + u[5] + u[6] + u[7]
    BY <1>2, <1>3, SumList
<1>15. n = 5 => SumOf(t, n) = Low(f[1]) + Low(f[2]) + Low(f[3]) + Low(f[4]) + Low(f[5])
    BY <1>2, <1>5, <1>7
<1>16. n = 6 => SumOf(t, n) = Low(f[1]) + Low(f[2]) + Low(f[3]) + Low(f[4]) + Low(f[5])
      + Low(f[6])
    BY <1>2, <1>5, <1>8
<1>17. n = 7 => SumOf(t, n) = Low(f[1]) + Low(f[2]) + Low(f[3]) + Low(f[4]) + Low(f[5])
      + Low(f[6]) + Low(f[7])
    BY <1>2, <1>5, <1>9
<1>18. n = 8 => SumOf(t, n) = Low(f[1]) + Low(f[2]) + Low(f[3]) + Low(f[4]) + Low(f[5])
      + Low(f[6]) + Low(f[7]) + Low(f[8])
    BY <1>2, <1>5, <1>10
<1>19. n = 10 => SumOf(t, n) = Low(f[1]) + Low(f[2]) + Low(f[3]) + Low(f[4]) + Low(f[5])
      + Low(f[6]) + Low(f[7]) + Low(f[8]) + Low(f[9]) + Low(f[10])
    BY <1>2, <1>5, <1>11
<1>20. n = 5 => SumOf(u, n) = High(f[1]) + High(f[2]) + High(f[3]) + High(f[4]) + High(f[5])
    BY <1>2, <1>5, <1>12
<1>21. n = 6 => SumOf(u, n) = High(f[1]) + High(f[2]) + High(f[3]) + High(f[4]) + High(f[5])
      + High(f[6])
    BY <1>2, <1>5, <1>13
<1>22. n = 8 => SumOf(u, n) = High(f[1]) + High(f[2]) + High(f[3]) + High(f[4]) + High(f[5])
      + High(f[6]) + High(f[7]) + High(f[8])
    BY <1>2, <1>5, <1>14
<1> QED BY <1>4, <1>6, <1>15, <1>16, <1>17, <1>18, <1>19, <1>20, <1>21, <1>22 DEF SumsOfFields

\* The half words of an instruction are numbers.
LEMMA HalfWords ==
    ASSUME NEW w \in Instruction
    PROVE  \E lo \in Nat, hi \in Nat : w.lo = lo /\ w.hi = hi
<1>1. PICK n \in Nat : n = 2 ^ 16
    BY Powers
<1>2. w.lo \in 0..(n - 1) /\ w.hi \in 0..(n - 1)
    BY <1>1, Zenon DEF Instruction, Half
<1> QED BY <1>2

-----------------------------------------------------------------------------
(* What the assembler wrote: one lemma for each format of the manual that      *)
(* carries an immediate.  The immediate m is cut into the parts v<position of   *)
(* the lowest bit> of its field, with a sign d above them; the half words are   *)
(* the sums of the fields; each piece that the macro reads is one of the parts, *)
(* and the parts add up to m again.                                             *)

\* The operations of each table of the assembler.
LEMMA Tables ==
    /\ DOMAIN Codes = {"add", "sub", "sll", "slt", "sltu", "xor", "srl", "sra", "or", "and",
                       "mul", "mulh", "mulhsu", "mulhu", "div", "divu", "rem", "remu"}
    /\ DOMAIN ImmCodes = {"addi", "slti", "sltiu", "xori", "ori", "andi"}
    /\ DOMAIN ShiftCodes = {"slli", "srli", "srai"}
    /\ DOMAIN LoadCodes = {"lb", "lh", "lw", "lbu", "lhu"}
    /\ DOMAIN StoreCodes = {"sb", "sh", "sw"}
    /\ DOMAIN BranchCodes = {"beq", "bne", "blt", "bge", "bltu", "bgeu"}
    /\ DOMAIN AmoCodes = {"amoadd", "amoswap", "amoxor", "amoor", "amoand", "amomin",
         "amomax",
                          "amominu", "amomaxu"}
    /\ DOMAIN AtomicCodes = {"lr", "sc"}
BY DEF Codes, ImmCodes, ShiftCodes, LoadCodes, StoreCodes, BranchCodes, AmoCodes, AtomicCodes

\* CJ: offset[11|4|9:8|10|6|7|3:1|5].
LEMMA JumpImmediate ==
    ASSUME NEW i,
           i.form = "c.jal" \/ i.form = "c.j",
           i.imm \in SignedRange(12),
           Aligned(i.imm, 2),
           NEW w \in Instruction,
           w.lo = LowHalf(CFieldsOf(i))
    PROVE  GET_C_IMM_CJ(w) = i.imm
<1>1. PICK m \in Int : m = i.imm /\ m >= -2048 /\ m < 2048 /\ m % 2 = 0
    BY SMT DEF SignedRange, Aligned
<1>2. m \in -2048..2047
    <2>1. m >= -2048 /\ m < 2048
        BY <1>1
    <2> QED BY <2>1
<1>3. m % 2 = 0
    BY <1>1
<1>4. m \in Int
    OBVIOUS
<1>5. /\ Bits(m, 3, 1) = (m \div 2) % 8
      /\ Bit(m, 4) = (m \div 16) % 2
      /\ Bit(m, 5) = (m \div 32) % 2
      /\ Bit(m, 6) = (m \div 64) % 2
      /\ Bit(m, 7) = (m \div 128) % 2
      /\ Bits(m, 9, 8) = (m \div 256) % 4
      /\ Bit(m, 10) = (m \div 1024) % 2
      /\ Bit(m, 11) = (m \div 2048) % 2
    BY DEF Bits, Bit
<1>6. PICK v1 \in 0..7 : v1 = (m \div 2) % 8
    BY <1>4
<1>7. PICK v4 \in 0..1 : v4 = (m \div 16) % 2
    BY <1>4
<1>8. PICK v5 \in 0..1 : v5 = (m \div 32) % 2
    BY <1>4
<1>9. PICK v6 \in 0..1 : v6 = (m \div 64) % 2
    BY <1>4
<1>10. PICK v7 \in 0..1 : v7 = (m \div 128) % 2
    BY <1>4
<1>11. PICK v8 \in 0..3 : v8 = (m \div 256) % 4
    BY <1>4
<1>12. PICK v10 \in 0..1 : v10 = (m \div 1024) % 2
    BY <1>4
<1>13. PICK v11 \in 0..1 : v11 = (m \div 2048) % 2
    BY <1>4
<1>14. PICK d \in Int : d = m \div 4096
      /\ m = 2 * v1 + 16 * v4 + 32 * v5 + 64 * v6 + 128 * v7 + 256 * v8 + 1024 * v10
      + 2048 * v11 + 4096 * d
    <2>1. PICK q1 \in Int, q4 \in Int, q5 \in Int, q6 \in Int, q7 \in Int, q8 \in Int,
          q10 \in Int, q11 \in Int, q12 \in Int : q1 = m \div 2 /\ q4 = m \div 16
          /\ q5 = m \div 32 /\ q6 = m \div 64 /\ q7 = m \div 128 /\ q8 = m \div 256
          /\ q10 = m \div 1024 /\ q11 = m \div 2048 /\ q12 = m \div 4096
        BY <1>4
    <2>2. q1 = v1 + 8 * q4
        BY <1>6, <2>1
    <2>3. q4 = v4 + 2 * q5
        BY <1>7, <2>1
    <2>4. q5 = v5 + 2 * q6
        BY <1>8, <2>1
    <2>5. q6 = v6 + 2 * q7
        BY <1>9, <2>1
    <2>6. q7 = v7 + 2 * q8
        BY <1>10, <2>1
    <2>7. q8 = v8 + 4 * q10
        BY <1>11, <2>1
    <2>8. q10 = v10 + 2 * q11
        BY <1>12, <2>1
    <2>9. q11 = v11 + 2 * q12
        BY <1>13, <2>1
    <2>10. m = 2 * q1
        BY <1>3, <2>1
    <2>11. m = 2 * v1 + 16 * v4 + 32 * v5 + 64 * v6 + 128 * v7 + 256 * v8 + 1024 * v10
          + 2048 * v11 + 4096 * q12
        BY <2>2, <2>3, <2>4, <2>5, <2>6, <2>7, <2>8, <2>9, <2>10
    <2> QED BY <2>1, <2>11
<1>15. PICK g \in 0..7 :
        CFieldsOf(i) = <<<<1, 0>>, <<Bit(m, 5), 2>>, <<Bits(m, 3, 1), 3>>, <<Bit(m, 7), 6>>,
          <<Bit(m, 6), 7>>, <<Bit(m, 10), 8>>, <<Bits(m, 9, 8), 9>>, <<Bit(m, 4), 11>>,
          <<Bit(m, 11), 12>>, <<g, 13>>>>
    <2>1. CASE i.form = "c.jal"
        BY <1>1, <2>1 DEF CFieldsOf
    <2>2. CASE i.form = "c.j"
        BY <1>1, <2>2 DEF CFieldsOf
    <2> QED BY <2>1, <2>2
<1> DEFINE f == <<<<1, 0>>, <<v5, 2>>, <<v1, 3>>, <<v7, 6>>, <<v6, 7>>, <<v10, 8>>, <<v8, 9>>,
      <<v4, 11>>, <<v11, 12>>, <<g, 13>>>>
<1>16. CFieldsOf(i) = f
    BY <1>5, <1>6, <1>7, <1>8, <1>9, <1>10, <1>11, <1>12, <1>13, <1>15
<1>17. f \in Seq(Nat \X Nat) /\ Len(f) = 10
    OBVIOUS
<1>18. f[1] = <<1, 0>> /\ f[2] = <<v5, 2>> /\ f[3] = <<v1, 3>> /\ f[4] = <<v7, 6>>
      /\ f[5] = <<v6, 7>> /\ f[6] = <<v10, 8>> /\ f[7] = <<v8, 9>> /\ f[8] = <<v4, 11>>
      /\ f[9] = <<v11, 12>> /\ f[10] = <<g, 13>>
    OBVIOUS
<1> HIDE DEF f
<1>19. Low(<<1, 0>>) = 1
    BY DEF Low
<1>20. Low(<<v5, 2>>) = 4 * v5
    BY DEF Low
<1>21. Low(<<v1, 3>>) = 8 * v1
    BY DEF Low
<1>22. Low(<<v7, 6>>) = 64 * v7
    BY DEF Low
<1>23. Low(<<v6, 7>>) = 128 * v6
    BY DEF Low
<1>24. Low(<<v10, 8>>) = 256 * v10
    BY DEF Low
<1>25. Low(<<v8, 9>>) = 512 * v8
    BY DEF Low
<1>26. Low(<<v4, 11>>) = 2048 * v4
    BY DEF Low
<1>27. Low(<<v11, 12>>) = 4096 * v11
    BY DEF Low
<1>28. Low(<<g, 13>>) = 8192 * g
    BY DEF Low
<1>29. LowHalf(f) = Low(<<1, 0>>) + Low(<<v5, 2>>) + Low(<<v1, 3>>) + Low(<<v7, 6>>)
      + Low(<<v6, 7>>) + Low(<<v10, 8>>) + Low(<<v8, 9>>) + Low(<<v4, 11>>) + Low(<<v11, 12>>)
      + Low(<<g, 13>>)
    <2>1. SumsOfFields(f)
        BY <1>17, FieldSums
    <2>2. LowHalf(f) = Low(f[1]) + Low(f[2]) + Low(f[3]) + Low(f[4]) + Low(f[5]) + Low(f[6])
          + Low(f[7]) + Low(f[8]) + Low(f[9]) + Low(f[10])
        BY <1>17, <2>1, SMT DEF SumsOfFields
    <2> QED BY <2>2, <1>18
<1>30. PICK lo \in Nat, hi \in Nat : w.lo = lo /\ w.hi = hi
    BY HalfWords
<1>31. lo = 1 + 4 * v5 + 8 * v1 + 64 * v7 + 128 * v6 + 256 * v10 + 512 * v8 + 2048 * v4
      + 4096 * v11 + 8192 * g
    BY <1>16, <1>19, <1>20, <1>21, <1>22, <1>23, <1>24, <1>25, <1>26, <1>27, <1>28, <1>29,
       <1>30
<1>32. /\ get_instr_piece(w, 2, 1) = Bits(lo, 2, 2)
      /\ get_instr_piece(w, 3, 3) = Bits(lo, 5, 3)
      /\ get_instr_piece(w, 6, 1) = Bits(lo, 6, 6)
      /\ get_instr_piece(w, 7, 1) = Bits(lo, 7, 7)
      /\ get_instr_piece(w, 8, 1) = Bits(lo, 8, 8)
      /\ get_instr_piece(w, 9, 2) = Bits(lo, 10, 9)
      /\ get_instr_piece(w, 11, 1) = Bits(lo, 11, 11)
      /\ get_instr_piece(w, 12, 1) = Bits(lo, 12, 12)
    BY <1>30, LowPiece
<1>33. /\ Bits(lo, 2, 2) = (lo \div 4) % 2
      /\ Bits(lo, 5, 3) = (lo \div 8) % 8
      /\ Bits(lo, 6, 6) = (lo \div 64) % 2
      /\ Bits(lo, 7, 7) = (lo \div 128) % 2
      /\ Bits(lo, 8, 8) = (lo \div 256) % 2
      /\ Bits(lo, 10, 9) = (lo \div 512) % 4
      /\ Bits(lo, 11, 11) = (lo \div 2048) % 2
      /\ Bits(lo, 12, 12) = (lo \div 4096) % 2
    BY DEF Bits
<1>34. PICK r13 \in Nat : r13 = g
    OBVIOUS
<1>35. PICK r12 \in Nat : r12 = v11 + 2 * r13
    OBVIOUS
<1>36. PICK r11 \in Nat : r11 = v4 + 2 * r12
    OBVIOUS
<1>37. PICK r9 \in Nat : r9 = v8 + 4 * r11
    OBVIOUS
<1>38. PICK r8 \in Nat : r8 = v10 + 2 * r9
    OBVIOUS
<1>39. PICK r7 \in Nat : r7 = v6 + 2 * r8
    OBVIOUS
<1>40. PICK r6 \in Nat : r6 = v7 + 2 * r7
    OBVIOUS
<1>41. PICK r3 \in Nat : r3 = v1 + 8 * r6
    OBVIOUS
<1>42. PICK r2 \in Nat : r2 = v5 + 2 * r3
    OBVIOUS
<1>43. lo = 1 + 4 * r2
    BY <1>31, <1>34, <1>35, <1>36, <1>37, <1>38, <1>39, <1>40, <1>41, <1>42
<1>44. lo % 4 = 1 /\ lo \div 4 = r2
    BY <1>43
<1>45. r2 % 2 = v5 /\ r2 \div 2 = r3
    BY <1>42
<1>46. r3 % 8 = v1 /\ r3 \div 8 = r6
    BY <1>41
<1>47. r6 % 2 = v7 /\ r6 \div 2 = r7
    BY <1>40
<1>48. r7 % 2 = v6 /\ r7 \div 2 = r8
    BY <1>39
<1>49. r8 % 2 = v10 /\ r8 \div 2 = r9
    BY <1>38
<1>50. r9 % 4 = v8 /\ r9 \div 4 = r11
    BY <1>37
<1>51. r11 % 2 = v4 /\ r11 \div 2 = r12
    BY <1>36
<1>52. r12 % 2 = v11 /\ r12 \div 2 = r13
    BY <1>35
<1>53. /\ (lo \div 4) \div 2 = lo \div 8
      /\ (lo \div 8) \div 8 = lo \div 64
      /\ (lo \div 64) \div 2 = lo \div 128
      /\ (lo \div 128) \div 2 = lo \div 256
      /\ (lo \div 256) \div 2 = lo \div 512
      /\ (lo \div 512) \div 4 = lo \div 2048
      /\ (lo \div 2048) \div 2 = lo \div 4096
    OBVIOUS
<1>54. /\ lo \div 4 = r2
      /\ lo \div 8 = r3
      /\ lo \div 64 = r6
      /\ lo \div 128 = r7
      /\ lo \div 256 = r8
      /\ lo \div 512 = r9
      /\ lo \div 2048 = r11
      /\ lo \div 4096 = r12
    BY <1>44, <1>45, <1>46, <1>47, <1>48, <1>49, <1>50, <1>51, <1>52, <1>53
<1>55. get_instr_piece(w, 2, 1) = v5 /\ get_instr_piece(w, 3, 3) = v1
      /\ get_instr_piece(w, 6, 1) = v7 /\ get_instr_piece(w, 7, 1) = v6
      /\ get_instr_piece(w, 8, 1) = v10 /\ get_instr_piece(w, 9, 2) = v8
      /\ get_instr_piece(w, 11, 1) = v4 /\ get_instr_piece(w, 12, 1) = v11
    BY <1>32, <1>33, <1>44, <1>45, <1>46, <1>47, <1>48, <1>49, <1>50, <1>51, <1>52, <1>54
<1>56. PICK u \in Int : u = 32 * v5 + 2 * v1 + 128 * v7 + 64 * v6 + 1024 * v10 + 256 * v8
      + 16 * v4 + 2048 * v11
    OBVIOUS
<1>57. GET_C_IMM_CJ(w) = sext(u, 12)
    <2>1. CompressedImmediates(w)
        BY Pieces
    <2>2. GET_C_IMM_CJ(w) = sext(32 * get_instr_piece(w, 2, 1) + 2 * get_instr_piece(w, 3, 3)
          + 128 * get_instr_piece(w, 6, 1) + 64 * get_instr_piece(w, 7, 1)
          + 1024 * get_instr_piece(w, 8, 1) + 256 * get_instr_piece(w, 9, 2)
          + 16 * get_instr_piece(w, 11, 1) + 2048 * get_instr_piece(w, 12, 1), 12)
        BY <2>1 DEF CompressedImmediates
    <2> QED BY <2>2, <1>55, <1>56
<1>58. GET_C_IMM_CJ(w) = m
    BY <1>2, <1>14, <1>56, <1>57 DEF sext
<1> QED BY <1>1, <1>58

\* CI: imm[5] and imm[4:0], with a sign.
LEMMA SmallImmediate ==
    ASSUME NEW i,
           i.form = "c.addi" \/ i.form = "c.li" \/ i.form = "c.lui",
           i.rd \in 0..31,
           i.imm \in SignedRange(6),
           NEW w \in Instruction,
           w.lo = LowHalf(CFieldsOf(i))
    PROVE  GET_C_IMM_CB(w) = i.imm
<1>1. PICK m \in Int : m = i.imm /\ m >= -32 /\ m < 32
    BY SMT DEF SignedRange
<1>2. m \in -32..31
    BY <1>1
<1>3. m \in Int
    OBVIOUS
<1>4. /\ Bits(m, 4, 0) = m % 32
      /\ Bit(m, 5) = (m \div 32) % 2
    BY DEF Bits, Bit
<1>5. PICK v0 \in 0..31 : v0 = m % 32
    BY <1>3
<1>6. PICK v5 \in 0..1 : v5 = (m \div 32) % 2
    BY <1>3
<1>7. PICK d \in Int : d = m \div 64 /\ m = v0 + 32 * v5 + 64 * d
    <2>1. PICK q5 \in Int, q6 \in Int : q5 = m \div 32 /\ q6 = m \div 64
        BY <1>3
    <2>2. m = v0 + 32 * q5
        BY <1>5, <2>1
    <2>3. q5 = v5 + 2 * q6
        BY <1>6, <2>1
    <2>4. m = v0 + 32 * v5 + 64 * q6
        BY <2>2, <2>3
    <2> QED BY <2>1, <2>4
<1>8. PICK a \in 0..31, g \in 0..7 :
        CFieldsOf(i) = <<<<1, 0>>, <<Bits(m, 4, 0), 2>>, <<a, 7>>, <<Bit(m, 5), 12>>,
          <<g, 13>>>>
    <2>1. CASE i.form = "c.addi"
        BY <1>1, <2>1 DEF CFieldsOf
    <2>2. CASE i.form = "c.li"
        BY <1>1, <2>2 DEF CFieldsOf
    <2>3. CASE i.form = "c.lui"
        BY <1>1, <2>3 DEF CFieldsOf
    <2> QED BY <2>1, <2>2, <2>3
<1> DEFINE f == <<<<1, 0>>, <<v0, 2>>, <<a, 7>>, <<v5, 12>>, <<g, 13>>>>
<1>9. CFieldsOf(i) = f
    BY <1>4, <1>5, <1>6, <1>8
<1>10. f \in Seq(Nat \X Nat) /\ Len(f) = 5
    OBVIOUS
<1>11. f[1] = <<1, 0>> /\ f[2] = <<v0, 2>> /\ f[3] = <<a, 7>> /\ f[4] = <<v5, 12>>
      /\ f[5] = <<g, 13>>
    OBVIOUS
<1> HIDE DEF f
<1>12. Low(<<1, 0>>) = 1
    BY DEF Low
<1>13. Low(<<v0, 2>>) = 4 * v0
    BY DEF Low
<1>14. Low(<<a, 7>>) = 128 * a
    BY DEF Low
<1>15. Low(<<v5, 12>>) = 4096 * v5
    BY DEF Low
<1>16. Low(<<g, 13>>) = 8192 * g
    BY DEF Low
<1>17. LowHalf(f) = Low(<<1, 0>>) + Low(<<v0, 2>>) + Low(<<a, 7>>) + Low(<<v5, 12>>)
      + Low(<<g, 13>>)
    <2>1. SumsOfFields(f)
        BY <1>10, FieldSums
    <2>2. LowHalf(f) = Low(f[1]) + Low(f[2]) + Low(f[3]) + Low(f[4]) + Low(f[5])
        BY <1>10, <2>1, SMT DEF SumsOfFields
    <2> QED BY <2>2, <1>11
<1>18. PICK lo \in Nat, hi \in Nat : w.lo = lo /\ w.hi = hi
    BY HalfWords
<1>19. lo = 1 + 4 * v0 + 128 * a + 4096 * v5 + 8192 * g
    BY <1>9, <1>12, <1>13, <1>14, <1>15, <1>16, <1>17, <1>18
<1>20. /\ get_instr_piece(w, 2, 5) = Bits(lo, 6, 2)
      /\ get_instr_piece(w, 12, 1) = Bits(lo, 12, 12)
    BY <1>18, LowPiece
<1>21. /\ Bits(lo, 6, 2) = (lo \div 4) % 32
      /\ Bits(lo, 12, 12) = (lo \div 4096) % 2
    BY DEF Bits
<1>22. PICK r13 \in Nat : r13 = g
    OBVIOUS
<1>23. PICK r12 \in Nat : r12 = v5 + 2 * r13
    OBVIOUS
<1>24. PICK r7 \in Nat : r7 = a + 32 * r12
    OBVIOUS
<1>25. PICK r2 \in Nat : r2 = v0 + 32 * r7
    OBVIOUS
<1>26. lo = 1 + 4 * r2
    BY <1>19, <1>22, <1>23, <1>24, <1>25
<1>27. lo % 4 = 1 /\ lo \div 4 = r2
    BY <1>26
<1>28. r2 % 32 = v0 /\ r2 \div 32 = r7
    BY <1>25
<1>29. r7 % 32 = a /\ r7 \div 32 = r12
    BY <1>24
<1>30. r12 % 2 = v5 /\ r12 \div 2 = r13
    BY <1>23
<1>31. /\ (lo \div 4) \div 32 = lo \div 128
      /\ (lo \div 128) \div 32 = lo \div 4096
    OBVIOUS
<1>32. /\ lo \div 4 = r2
      /\ lo \div 128 = r7
      /\ lo \div 4096 = r12
    BY <1>27, <1>28, <1>29, <1>30, <1>31
<1>33. get_instr_piece(w, 2, 5) = v0 /\ get_instr_piece(w, 12, 1) = v5
    BY <1>20, <1>21, <1>27, <1>28, <1>29, <1>30, <1>32
<1>34. PICK u \in Int : u = v0 + 32 * v5
    OBVIOUS
<1>35. GET_C_IMM_CB(w) = sext(u, 6)
    <2>1. CompressedImmediates(w)
        BY Pieces
    <2>2. GET_C_IMM_CBU(w) = get_instr_piece(w, 2, 5) + 32 * get_instr_piece(w, 12, 1)
        BY <2>1 DEF CompressedImmediates
    <2> QED BY <2>2, <1>33, <1>34 DEF GET_C_IMM_CB
<1>36. GET_C_IMM_CB(w) = m
    BY <1>2, <1>7, <1>34, <1>35 DEF sext
<1> QED BY <1>1, <1>36

\* CB of C.ANDI: imm[5] and imm[4:0], with a sign.
LEMMA AndImmImmediate ==
    ASSUME NEW i,
           i.form = "c.andi",
           i.rd \in 8..15,
           i.imm \in SignedRange(6),
           NEW w \in Instruction,
           w.lo = LowHalf(CFieldsOf(i))
    PROVE  GET_C_IMM_CB(w) = i.imm
<1>1. PICK m \in Int : m = i.imm /\ m >= -32 /\ m < 32
    BY SMT DEF SignedRange
<1>2. m \in -32..31
    BY <1>1
<1>3. m \in Int
    OBVIOUS
<1>4. /\ Bits(m, 4, 0) = m % 32
      /\ Bit(m, 5) = (m \div 32) % 2
    BY DEF Bits, Bit
<1>5. PICK v0 \in 0..31 : v0 = m % 32
    BY <1>3
<1>6. PICK v5 \in 0..1 : v5 = (m \div 32) % 2
    BY <1>3
<1>7. PICK d \in Int : d = m \div 64 /\ m = v0 + 32 * v5 + 64 * d
    <2>1. PICK q5 \in Int, q6 \in Int : q5 = m \div 32 /\ q6 = m \div 64
        BY <1>3
    <2>2. m = v0 + 32 * q5
        BY <1>5, <2>1
    <2>3. q5 = v5 + 2 * q6
        BY <1>6, <2>1
    <2>4. m = v0 + 32 * v5 + 64 * q6
        BY <2>2, <2>3
    <2> QED BY <2>1, <2>4
<1>8. PICK a \in 0..7 :
        CFieldsOf(i) = <<<<1, 0>>, <<Bits(m, 4, 0), 2>>, <<a, 7>>, <<2, 10>>,
          <<Bit(m, 5), 12>>, <<4, 13>>>>
    BY <1>1 DEF CFieldsOf
<1> DEFINE f == <<<<1, 0>>, <<v0, 2>>, <<a, 7>>, <<2, 10>>, <<v5, 12>>, <<4, 13>>>>
<1>9. CFieldsOf(i) = f
    BY <1>4, <1>5, <1>6, <1>8
<1>10. f \in Seq(Nat \X Nat) /\ Len(f) = 6
    OBVIOUS
<1>11. f[1] = <<1, 0>> /\ f[2] = <<v0, 2>> /\ f[3] = <<a, 7>> /\ f[4] = <<2, 10>>
      /\ f[5] = <<v5, 12>> /\ f[6] = <<4, 13>>
    OBVIOUS
<1> HIDE DEF f
<1>12. Low(<<1, 0>>) = 1
    BY DEF Low
<1>13. Low(<<v0, 2>>) = 4 * v0
    BY DEF Low
<1>14. Low(<<a, 7>>) = 128 * a
    BY DEF Low
<1>15. Low(<<2, 10>>) = 2048
    BY DEF Low
<1>16. Low(<<v5, 12>>) = 4096 * v5
    BY DEF Low
<1>17. Low(<<4, 13>>) = 32768
    BY DEF Low
<1>18. LowHalf(f) = Low(<<1, 0>>) + Low(<<v0, 2>>) + Low(<<a, 7>>) + Low(<<2, 10>>)
      + Low(<<v5, 12>>) + Low(<<4, 13>>)
    <2>1. SumsOfFields(f)
        BY <1>10, FieldSums
    <2>2. LowHalf(f) = Low(f[1]) + Low(f[2]) + Low(f[3]) + Low(f[4]) + Low(f[5]) + Low(f[6])
        BY <1>10, <2>1, SMT DEF SumsOfFields
    <2> QED BY <2>2, <1>11
<1>19. PICK lo \in Nat, hi \in Nat : w.lo = lo /\ w.hi = hi
    BY HalfWords
<1>20. lo = 1 + 4 * v0 + 128 * a + 2048 + 4096 * v5 + 32768
    BY <1>9, <1>12, <1>13, <1>14, <1>15, <1>16, <1>17, <1>18, <1>19
<1>21. /\ get_instr_piece(w, 2, 5) = Bits(lo, 6, 2)
      /\ get_instr_piece(w, 12, 1) = Bits(lo, 12, 12)
    BY <1>19, LowPiece
<1>22. /\ Bits(lo, 6, 2) = (lo \div 4) % 32
      /\ Bits(lo, 12, 12) = (lo \div 4096) % 2
    BY DEF Bits
<1>23. PICK r13 \in Nat : r13 = 4
    OBVIOUS
<1>24. PICK r12 \in Nat : r12 = v5 + 2 * r13
    OBVIOUS
<1>25. PICK r10 \in Nat : r10 = 2 + 4 * r12
    OBVIOUS
<1>26. PICK r7 \in Nat : r7 = a + 8 * r10
    OBVIOUS
<1>27. PICK r2 \in Nat : r2 = v0 + 32 * r7
    OBVIOUS
<1>28. lo = 1 + 4 * r2
    BY <1>20, <1>23, <1>24, <1>25, <1>26, <1>27
<1>29. lo % 4 = 1 /\ lo \div 4 = r2
    BY <1>28
<1>30. r2 % 32 = v0 /\ r2 \div 32 = r7
    BY <1>27
<1>31. r7 % 8 = a /\ r7 \div 8 = r10
    BY <1>26
<1>32. r10 % 4 = 2 /\ r10 \div 4 = r12
    BY <1>25
<1>33. r12 % 2 = v5 /\ r12 \div 2 = r13
    BY <1>24
<1>34. /\ (lo \div 4) \div 32 = lo \div 128
      /\ (lo \div 128) \div 8 = lo \div 1024
      /\ (lo \div 1024) \div 4 = lo \div 4096
    OBVIOUS
<1>35. /\ lo \div 4 = r2
      /\ lo \div 128 = r7
      /\ lo \div 1024 = r10
      /\ lo \div 4096 = r12
    BY <1>29, <1>30, <1>31, <1>32, <1>33, <1>34
<1>36. get_instr_piece(w, 2, 5) = v0 /\ get_instr_piece(w, 12, 1) = v5
    BY <1>21, <1>22, <1>29, <1>30, <1>31, <1>32, <1>33, <1>35
<1>37. PICK u \in Int : u = v0 + 32 * v5
    OBVIOUS
<1>38. GET_C_IMM_CB(w) = sext(u, 6)
    <2>1. CompressedImmediates(w)
        BY Pieces
    <2>2. GET_C_IMM_CBU(w) = get_instr_piece(w, 2, 5) + 32 * get_instr_piece(w, 12, 1)
        BY <2>1 DEF CompressedImmediates
    <2> QED BY <2>2, <1>36, <1>37 DEF GET_C_IMM_CB
<1>39. GET_C_IMM_CB(w) = m
    BY <1>2, <1>7, <1>37, <1>38 DEF sext
<1> QED BY <1>1, <1>39

\* CI of C.SLLI: shamt[4:0], without a sign.
LEMMA ShiftImmediate ==
    ASSUME NEW i,
           i.form = "c.slli",
           i.rd \in 0..31,
           i.imm \in Unsigned(5),
           NEW w \in Instruction,
           w.lo = LowHalf(CFieldsOf(i))
    PROVE  GET_C_IMM_CBU(w) = i.imm
<1>1. PICK m \in Int : m = i.imm /\ m >= 0 /\ m < 32
    BY SMT DEF Unsigned
<1>2. m \in 0..31
    BY <1>1
<1>3. m \in Int
    OBVIOUS
<1>4. /\ Bits(m, 4, 0) = m % 32
      /\ Bit(m, 5) = (m \div 32) % 2
    BY DEF Bits, Bit
<1>5. PICK v0 \in 0..31 : v0 = m % 32
    BY <1>3
<1>6. PICK v5 \in 0..1 : v5 = (m \div 32) % 2
    BY <1>3
<1>7. PICK d \in Int : d = m \div 64 /\ m = v0 + 32 * v5 + 64 * d
    <2>1. PICK q5 \in Int, q6 \in Int : q5 = m \div 32 /\ q6 = m \div 64
        BY <1>3
    <2>2. m = v0 + 32 * q5
        BY <1>5, <2>1
    <2>3. q5 = v5 + 2 * q6
        BY <1>6, <2>1
    <2>4. m = v0 + 32 * v5 + 64 * q6
        BY <2>2, <2>3
    <2> QED BY <2>1, <2>4
<1>8. PICK a \in 0..31 :
        CFieldsOf(i) = <<<<2, 0>>, <<Bits(m, 4, 0), 2>>, <<a, 7>>, <<Bit(m, 5), 12>>,
          <<0, 13>>>>
    BY <1>1 DEF CFieldsOf
<1> DEFINE f == <<<<2, 0>>, <<v0, 2>>, <<a, 7>>, <<v5, 12>>, <<0, 13>>>>
<1>9. CFieldsOf(i) = f
    BY <1>4, <1>5, <1>6, <1>8
<1>10. f \in Seq(Nat \X Nat) /\ Len(f) = 5
    OBVIOUS
<1>11. f[1] = <<2, 0>> /\ f[2] = <<v0, 2>> /\ f[3] = <<a, 7>> /\ f[4] = <<v5, 12>>
      /\ f[5] = <<0, 13>>
    OBVIOUS
<1> HIDE DEF f
<1>12. Low(<<2, 0>>) = 2
    BY DEF Low
<1>13. Low(<<v0, 2>>) = 4 * v0
    BY DEF Low
<1>14. Low(<<a, 7>>) = 128 * a
    BY DEF Low
<1>15. Low(<<v5, 12>>) = 4096 * v5
    BY DEF Low
<1>16. Low(<<0, 13>>) = 0
    BY DEF Low
<1>17. LowHalf(f) = Low(<<2, 0>>) + Low(<<v0, 2>>) + Low(<<a, 7>>) + Low(<<v5, 12>>)
      + Low(<<0, 13>>)
    <2>1. SumsOfFields(f)
        BY <1>10, FieldSums
    <2>2. LowHalf(f) = Low(f[1]) + Low(f[2]) + Low(f[3]) + Low(f[4]) + Low(f[5])
        BY <1>10, <2>1, SMT DEF SumsOfFields
    <2> QED BY <2>2, <1>11
<1>18. PICK lo \in Nat, hi \in Nat : w.lo = lo /\ w.hi = hi
    BY HalfWords
<1>19. lo = 2 + 4 * v0 + 128 * a + 4096 * v5
    BY <1>9, <1>12, <1>13, <1>14, <1>15, <1>16, <1>17, <1>18
<1>20. /\ get_instr_piece(w, 2, 5) = Bits(lo, 6, 2)
      /\ get_instr_piece(w, 12, 1) = Bits(lo, 12, 12)
    BY <1>18, LowPiece
<1>21. /\ Bits(lo, 6, 2) = (lo \div 4) % 32
      /\ Bits(lo, 12, 12) = (lo \div 4096) % 2
    BY DEF Bits
<1>22. PICK r13 \in Nat : r13 = 0
    OBVIOUS
<1>23. PICK r12 \in Nat : r12 = v5 + 2 * r13
    OBVIOUS
<1>24. PICK r7 \in Nat : r7 = a + 32 * r12
    OBVIOUS
<1>25. PICK r2 \in Nat : r2 = v0 + 32 * r7
    OBVIOUS
<1>26. lo = 2 + 4 * r2
    BY <1>19, <1>22, <1>23, <1>24, <1>25
<1>27. lo % 4 = 2 /\ lo \div 4 = r2
    BY <1>26
<1>28. r2 % 32 = v0 /\ r2 \div 32 = r7
    BY <1>25
<1>29. r7 % 32 = a /\ r7 \div 32 = r12
    BY <1>24
<1>30. r12 % 2 = v5 /\ r12 \div 2 = r13
    BY <1>23
<1>31. /\ (lo \div 4) \div 32 = lo \div 128
      /\ (lo \div 128) \div 32 = lo \div 4096
    OBVIOUS
<1>32. /\ lo \div 4 = r2
      /\ lo \div 128 = r7
      /\ lo \div 4096 = r12
    BY <1>27, <1>28, <1>29, <1>30, <1>31
<1>33. get_instr_piece(w, 2, 5) = v0 /\ get_instr_piece(w, 12, 1) = v5
    BY <1>20, <1>21, <1>27, <1>28, <1>29, <1>30, <1>32
<1>34. PICK u \in Int : u = v0 + 32 * v5
    OBVIOUS
<1>35. GET_C_IMM_CBU(w) = u
    <2>1. CompressedImmediates(w)
        BY Pieces
    <2>2. GET_C_IMM_CBU(w) = get_instr_piece(w, 2, 5) + 32 * get_instr_piece(w, 12, 1)
        BY <2>1 DEF CompressedImmediates
    <2> QED BY <2>2, <1>33, <1>34
<1>36. GET_C_IMM_CBU(w) = m
    BY <1>2, <1>7, <1>34, <1>35
<1> QED BY <1>1, <1>36

\* CB of the right shifts: shamt[4:0], without a sign.
LEMMA ShiftRightImmediate ==
    ASSUME NEW i,
           i.form = "c.srli" \/ i.form = "c.srai",
           i.rd \in 8..15,
           i.imm \in Unsigned(5),
           NEW w \in Instruction,
           w.lo = LowHalf(CFieldsOf(i))
    PROVE  GET_C_IMM_CBU(w) = i.imm
<1>1. PICK m \in Int : m = i.imm /\ m >= 0 /\ m < 32
    BY SMT DEF Unsigned
<1>2. m \in 0..31
    BY <1>1
<1>3. m \in Int
    OBVIOUS
<1>4. /\ Bits(m, 4, 0) = m % 32
      /\ Bit(m, 5) = (m \div 32) % 2
    BY DEF Bits, Bit
<1>5. PICK v0 \in 0..31 : v0 = m % 32
    BY <1>3
<1>6. PICK v5 \in 0..1 : v5 = (m \div 32) % 2
    BY <1>3
<1>7. PICK d \in Int : d = m \div 64 /\ m = v0 + 32 * v5 + 64 * d
    <2>1. PICK q5 \in Int, q6 \in Int : q5 = m \div 32 /\ q6 = m \div 64
        BY <1>3
    <2>2. m = v0 + 32 * q5
        BY <1>5, <2>1
    <2>3. q5 = v5 + 2 * q6
        BY <1>6, <2>1
    <2>4. m = v0 + 32 * v5 + 64 * q6
        BY <2>2, <2>3
    <2> QED BY <2>1, <2>4
<1>8. PICK a \in 0..7, g \in 0..3 :
        CFieldsOf(i) = <<<<1, 0>>, <<Bits(m, 4, 0), 2>>, <<a, 7>>, <<g, 10>>,
          <<Bit(m, 5), 12>>, <<4, 13>>>>
    <2>1. CASE i.form = "c.srli"
        BY <1>1, <2>1 DEF CFieldsOf
    <2>2. CASE i.form = "c.srai"
        BY <1>1, <2>2 DEF CFieldsOf
    <2> QED BY <2>1, <2>2
<1> DEFINE f == <<<<1, 0>>, <<v0, 2>>, <<a, 7>>, <<g, 10>>, <<v5, 12>>, <<4, 13>>>>
<1>9. CFieldsOf(i) = f
    BY <1>4, <1>5, <1>6, <1>8
<1>10. f \in Seq(Nat \X Nat) /\ Len(f) = 6
    OBVIOUS
<1>11. f[1] = <<1, 0>> /\ f[2] = <<v0, 2>> /\ f[3] = <<a, 7>> /\ f[4] = <<g, 10>>
      /\ f[5] = <<v5, 12>> /\ f[6] = <<4, 13>>
    OBVIOUS
<1> HIDE DEF f
<1>12. Low(<<1, 0>>) = 1
    BY DEF Low
<1>13. Low(<<v0, 2>>) = 4 * v0
    BY DEF Low
<1>14. Low(<<a, 7>>) = 128 * a
    BY DEF Low
<1>15. Low(<<g, 10>>) = 1024 * g
    BY DEF Low
<1>16. Low(<<v5, 12>>) = 4096 * v5
    BY DEF Low
<1>17. Low(<<4, 13>>) = 32768
    BY DEF Low
<1>18. LowHalf(f) = Low(<<1, 0>>) + Low(<<v0, 2>>) + Low(<<a, 7>>) + Low(<<g, 10>>)
      + Low(<<v5, 12>>) + Low(<<4, 13>>)
    <2>1. SumsOfFields(f)
        BY <1>10, FieldSums
    <2>2. LowHalf(f) = Low(f[1]) + Low(f[2]) + Low(f[3]) + Low(f[4]) + Low(f[5]) + Low(f[6])
        BY <1>10, <2>1, SMT DEF SumsOfFields
    <2> QED BY <2>2, <1>11
<1>19. PICK lo \in Nat, hi \in Nat : w.lo = lo /\ w.hi = hi
    BY HalfWords
<1>20. lo = 1 + 4 * v0 + 128 * a + 1024 * g + 4096 * v5 + 32768
    BY <1>9, <1>12, <1>13, <1>14, <1>15, <1>16, <1>17, <1>18, <1>19
<1>21. /\ get_instr_piece(w, 2, 5) = Bits(lo, 6, 2)
      /\ get_instr_piece(w, 12, 1) = Bits(lo, 12, 12)
    BY <1>19, LowPiece
<1>22. /\ Bits(lo, 6, 2) = (lo \div 4) % 32
      /\ Bits(lo, 12, 12) = (lo \div 4096) % 2
    BY DEF Bits
<1>23. PICK r13 \in Nat : r13 = 4
    OBVIOUS
<1>24. PICK r12 \in Nat : r12 = v5 + 2 * r13
    OBVIOUS
<1>25. PICK r10 \in Nat : r10 = g + 4 * r12
    OBVIOUS
<1>26. PICK r7 \in Nat : r7 = a + 8 * r10
    OBVIOUS
<1>27. PICK r2 \in Nat : r2 = v0 + 32 * r7
    OBVIOUS
<1>28. lo = 1 + 4 * r2
    BY <1>20, <1>23, <1>24, <1>25, <1>26, <1>27
<1>29. lo % 4 = 1 /\ lo \div 4 = r2
    BY <1>28
<1>30. r2 % 32 = v0 /\ r2 \div 32 = r7
    BY <1>27
<1>31. r7 % 8 = a /\ r7 \div 8 = r10
    BY <1>26
<1>32. r10 % 4 = g /\ r10 \div 4 = r12
    BY <1>25
<1>33. r12 % 2 = v5 /\ r12 \div 2 = r13
    BY <1>24
<1>34. /\ (lo \div 4) \div 32 = lo \div 128
      /\ (lo \div 128) \div 8 = lo \div 1024
      /\ (lo \div 1024) \div 4 = lo \div 4096
    OBVIOUS
<1>35. /\ lo \div 4 = r2
      /\ lo \div 128 = r7
      /\ lo \div 1024 = r10
      /\ lo \div 4096 = r12
    BY <1>29, <1>30, <1>31, <1>32, <1>33, <1>34
<1>36. get_instr_piece(w, 2, 5) = v0 /\ get_instr_piece(w, 12, 1) = v5
    BY <1>21, <1>22, <1>29, <1>30, <1>31, <1>32, <1>33, <1>35
<1>37. PICK u \in Int : u = v0 + 32 * v5
    OBVIOUS
<1>38. GET_C_IMM_CBU(w) = u
    <2>1. CompressedImmediates(w)
        BY Pieces
    <2>2. GET_C_IMM_CBU(w) = get_instr_piece(w, 2, 5) + 32 * get_instr_piece(w, 12, 1)
        BY <2>1 DEF CompressedImmediates
    <2> QED BY <2>2, <1>36, <1>37
<1>39. GET_C_IMM_CBU(w) = m
    BY <1>2, <1>7, <1>37, <1>38
<1> QED BY <1>1, <1>39

\* CL and CS: uimm[5:3] and uimm[2|6].
LEMMA AccessImmediate ==
    ASSUME NEW i,
           i.form = "c.lw" \/ i.form = "c.sw",
           i.rs1 \in 8..15,
           i.form = "c.lw" => i.rd \in 8..15,
           i.form = "c.sw" => i.rs2 \in 8..15,
           i.imm \in Unsigned(7),
           Aligned(i.imm, 4),
           NEW w \in Instruction,
           w.lo = LowHalf(CFieldsOf(i))
    PROVE  GET_C_IMM_CS(w) = i.imm
<1>1. PICK m \in Int : m = i.imm /\ m >= 0 /\ m < 128 /\ m % 4 = 0
    BY SMT DEF Unsigned, Aligned
<1>2. m \in 0..127
    BY <1>1
<1>3. m % 4 = 0
    BY <1>1
<1>4. m \in Int
    OBVIOUS
<1>5. /\ Bit(m, 2) = (m \div 4) % 2
      /\ Bits(m, 5, 3) = (m \div 8) % 8
      /\ Bit(m, 6) = (m \div 64) % 2
    BY DEF Bits, Bit
<1>6. PICK v2 \in 0..1 : v2 = (m \div 4) % 2
    BY <1>4
<1>7. PICK v3 \in 0..7 : v3 = (m \div 8) % 8
    BY <1>4
<1>8. PICK v6 \in 0..1 : v6 = (m \div 64) % 2
    BY <1>4
<1>9. PICK d \in Int : d = m \div 128 /\ m = 4 * v2 + 8 * v3 + 64 * v6 + 128 * d
    <2>1. PICK q2 \in Int, q3 \in Int, q6 \in Int, q7 \in Int : q2 = m \div 4 /\ q3 = m \div 8
          /\ q6 = m \div 64 /\ q7 = m \div 128
        BY <1>4
    <2>2. q2 = v2 + 2 * q3
        BY <1>6, <2>1
    <2>3. q3 = v3 + 8 * q6
        BY <1>7, <2>1
    <2>4. q6 = v6 + 2 * q7
        BY <1>8, <2>1
    <2>5. m = 4 * q2
        BY <1>3, <2>1
    <2>6. m = 4 * v2 + 8 * v3 + 64 * v6 + 128 * q7
        BY <2>2, <2>3, <2>4, <2>5
    <2> QED BY <2>1, <2>6
<1>10. PICK a \in 0..7, b \in 0..7, g \in 0..7 :
        CFieldsOf(i) = <<<<0, 0>>, <<a, 2>>, <<Bit(m, 6), 5>>, <<Bit(m, 2), 6>>, <<b, 7>>,
          <<Bits(m, 5, 3), 10>>, <<g, 13>>>>
    <2>1. CASE i.form = "c.lw"
        <3>1. CFieldsOf(i) = <<<<0, 0>>, <<i.rd - 8, 2>>, <<Bit(m, 6), 5>>, <<Bit(m, 2), 6>>,
              <<i.rs1 - 8, 7>>, <<Bits(m, 5, 3), 10>>, <<2, 13>>>>
            BY <1>1, <2>1, SMT DEF CFieldsOf
        <3>2. i.rd - 8 \in 0..7 /\ i.rs1 - 8 \in 0..7 /\ 2 \in 0..7
            BY <2>1, SMT
        <3> QED BY <3>1, <3>2, Zenon
    <2>2. CASE i.form = "c.sw"
        <3>1. CFieldsOf(i) = <<<<0, 0>>, <<i.rs2 - 8, 2>>, <<Bit(m, 6), 5>>, <<Bit(m, 2), 6>>,
              <<i.rs1 - 8, 7>>, <<Bits(m, 5, 3), 10>>, <<6, 13>>>>
            BY <1>1, <2>2, SMT DEF CFieldsOf
        <3>2. i.rs2 - 8 \in 0..7 /\ i.rs1 - 8 \in 0..7 /\ 6 \in 0..7
            BY <2>2, SMT
        <3> QED BY <3>1, <3>2, Zenon
    <2> QED BY <2>1, <2>2
<1> DEFINE f == <<<<0, 0>>, <<a, 2>>, <<v6, 5>>, <<v2, 6>>, <<b, 7>>, <<v3, 10>>, <<g, 13>>>>
<1>11. CFieldsOf(i) = f
    BY <1>5, <1>6, <1>7, <1>8, <1>10
<1>12. f \in Seq(Nat \X Nat) /\ Len(f) = 7
    OBVIOUS
<1>13. f[1] = <<0, 0>> /\ f[2] = <<a, 2>> /\ f[3] = <<v6, 5>> /\ f[4] = <<v2, 6>>
      /\ f[5] = <<b, 7>> /\ f[6] = <<v3, 10>> /\ f[7] = <<g, 13>>
    OBVIOUS
<1> HIDE DEF f
<1>14. Low(<<0, 0>>) = 0
    BY DEF Low
<1>15. Low(<<a, 2>>) = 4 * a
    BY DEF Low
<1>16. Low(<<v6, 5>>) = 32 * v6
    BY DEF Low
<1>17. Low(<<v2, 6>>) = 64 * v2
    BY DEF Low
<1>18. Low(<<b, 7>>) = 128 * b
    BY DEF Low
<1>19. Low(<<v3, 10>>) = 1024 * v3
    BY DEF Low
<1>20. Low(<<g, 13>>) = 8192 * g
    BY DEF Low
<1>21. LowHalf(f) = Low(<<0, 0>>) + Low(<<a, 2>>) + Low(<<v6, 5>>) + Low(<<v2, 6>>)
      + Low(<<b, 7>>) + Low(<<v3, 10>>) + Low(<<g, 13>>)
    <2>1. SumsOfFields(f)
        BY <1>12, FieldSums
    <2>2. LowHalf(f) = Low(f[1]) + Low(f[2]) + Low(f[3]) + Low(f[4]) + Low(f[5]) + Low(f[6])
          + Low(f[7])
        BY <1>12, <2>1, SMT DEF SumsOfFields
    <2> QED BY <2>2, <1>13
<1>22. PICK lo \in Nat, hi \in Nat : w.lo = lo /\ w.hi = hi
    BY HalfWords
<1>23. lo = 4 * a + 32 * v6 + 64 * v2 + 128 * b + 1024 * v3 + 8192 * g
    BY <1>11, <1>14, <1>15, <1>16, <1>17, <1>18, <1>19, <1>20, <1>21, <1>22
<1>24. /\ get_instr_piece(w, 5, 1) = Bits(lo, 5, 5)
      /\ get_instr_piece(w, 6, 1) = Bits(lo, 6, 6)
      /\ get_instr_piece(w, 10, 3) = Bits(lo, 12, 10)
    BY <1>22, LowPiece
<1>25. /\ Bits(lo, 5, 5) = (lo \div 32) % 2
      /\ Bits(lo, 6, 6) = (lo \div 64) % 2
      /\ Bits(lo, 12, 10) = (lo \div 1024) % 8
    BY DEF Bits
<1>26. PICK r13 \in Nat : r13 = g
    OBVIOUS
<1>27. PICK r10 \in Nat : r10 = v3 + 8 * r13
    OBVIOUS
<1>28. PICK r7 \in Nat : r7 = b + 8 * r10
    OBVIOUS
<1>29. PICK r6 \in Nat : r6 = v2 + 2 * r7
    OBVIOUS
<1>30. PICK r5 \in Nat : r5 = v6 + 2 * r6
    OBVIOUS
<1>31. PICK r2 \in Nat : r2 = a + 8 * r5
    OBVIOUS
<1>32. lo = 0 + 4 * r2
    BY <1>23, <1>26, <1>27, <1>28, <1>29, <1>30, <1>31
<1>33. lo % 4 = 0 /\ lo \div 4 = r2
    BY <1>32
<1>34. r2 % 8 = a /\ r2 \div 8 = r5
    BY <1>31
<1>35. r5 % 2 = v6 /\ r5 \div 2 = r6
    BY <1>30
<1>36. r6 % 2 = v2 /\ r6 \div 2 = r7
    BY <1>29
<1>37. r7 % 8 = b /\ r7 \div 8 = r10
    BY <1>28
<1>38. r10 % 8 = v3 /\ r10 \div 8 = r13
    BY <1>27
<1>39. /\ (lo \div 4) \div 8 = lo \div 32
      /\ (lo \div 32) \div 2 = lo \div 64
      /\ (lo \div 64) \div 2 = lo \div 128
      /\ (lo \div 128) \div 8 = lo \div 1024
    OBVIOUS
<1>40. /\ lo \div 4 = r2
      /\ lo \div 32 = r5
      /\ lo \div 64 = r6
      /\ lo \div 128 = r7
      /\ lo \div 1024 = r10
    BY <1>33, <1>34, <1>35, <1>36, <1>37, <1>38, <1>39
<1>41. get_instr_piece(w, 5, 1) = v6 /\ get_instr_piece(w, 6, 1) = v2
      /\ get_instr_piece(w, 10, 3) = v3
    BY <1>24, <1>25, <1>33, <1>34, <1>35, <1>36, <1>37, <1>38, <1>40
<1>42. PICK u \in Int : u = 64 * v6 + 4 * v2 + 8 * v3
    OBVIOUS
<1>43. GET_C_IMM_CS(w) = u
    <2>1. CompressedImmediates(w)
        BY Pieces
    <2>2. GET_C_IMM_CS(w) = 64 * get_instr_piece(w, 5, 1) + 4 * get_instr_piece(w, 6, 1)
          + 8 * get_instr_piece(w, 10, 3)
        BY <2>1 DEF CompressedImmediates
    <2> QED BY <2>2, <1>41, <1>42
<1>44. GET_C_IMM_CS(w) = m
    BY <1>2, <1>9, <1>42, <1>43
<1> QED BY <1>1, <1>44

\* CB: offset[8|4:3] and offset[7:6|2:1|5].
LEMMA BranchZeroImmediate ==
    ASSUME NEW i,
           i.form = "c.beqz" \/ i.form = "c.bnez",
           i.rs1 \in 8..15,
           i.imm \in SignedRange(9),
           Aligned(i.imm, 2),
           NEW w \in Instruction,
           w.lo = LowHalf(CFieldsOf(i))
    PROVE  GET_C_IMM_CBR(w) = i.imm
<1>1. PICK m \in Int : m = i.imm /\ m >= -256 /\ m < 256 /\ m % 2 = 0
    BY SMT DEF SignedRange, Aligned
<1>2. m \in -256..255
    BY <1>1
<1>3. m % 2 = 0
    BY <1>1
<1>4. m \in Int
    OBVIOUS
<1>5. /\ Bits(m, 2, 1) = (m \div 2) % 4
      /\ Bits(m, 4, 3) = (m \div 8) % 4
      /\ Bit(m, 5) = (m \div 32) % 2
      /\ Bits(m, 7, 6) = (m \div 64) % 4
      /\ Bit(m, 8) = (m \div 256) % 2
    BY DEF Bits, Bit
<1>6. PICK v1 \in 0..3 : v1 = (m \div 2) % 4
    BY <1>4
<1>7. PICK v3 \in 0..3 : v3 = (m \div 8) % 4
    BY <1>4
<1>8. PICK v5 \in 0..1 : v5 = (m \div 32) % 2
    BY <1>4
<1>9. PICK v6 \in 0..3 : v6 = (m \div 64) % 4
    BY <1>4
<1>10. PICK v8 \in 0..1 : v8 = (m \div 256) % 2
    BY <1>4
<1>11. PICK d \in Int : d = m \div 512
      /\ m = 2 * v1 + 8 * v3 + 32 * v5 + 64 * v6 + 256 * v8 + 512 * d
    <2>1. PICK q1 \in Int, q3 \in Int, q5 \in Int, q6 \in Int, q8 \in Int, q9 \in Int :
          q1 = m \div 2 /\ q3 = m \div 8 /\ q5 = m \div 32 /\ q6 = m \div 64
          /\ q8 = m \div 256 /\ q9 = m \div 512
        BY <1>4
    <2>2. q1 = v1 + 4 * q3
        BY <1>6, <2>1
    <2>3. q3 = v3 + 4 * q5
        BY <1>7, <2>1
    <2>4. q5 = v5 + 2 * q6
        BY <1>8, <2>1
    <2>5. q6 = v6 + 4 * q8
        BY <1>9, <2>1
    <2>6. q8 = v8 + 2 * q9
        BY <1>10, <2>1
    <2>7. m = 2 * q1
        BY <1>3, <2>1
    <2>8. m = 2 * v1 + 8 * v3 + 32 * v5 + 64 * v6 + 256 * v8 + 512 * q9
        BY <2>2, <2>3, <2>4, <2>5, <2>6, <2>7
    <2> QED BY <2>1, <2>8
<1>12. PICK a \in 0..7, g \in 0..7 :
        CFieldsOf(i) = <<<<1, 0>>, <<Bit(m, 5), 2>>, <<Bits(m, 2, 1), 3>>,
          <<Bits(m, 7, 6), 5>>, <<a, 7>>, <<Bits(m, 4, 3), 10>>, <<Bit(m, 8), 12>>,
          <<g, 13>>>>
    <2>1. CASE i.form = "c.beqz"
        BY <1>1, <2>1 DEF CFieldsOf
    <2>2. CASE i.form = "c.bnez"
        BY <1>1, <2>2 DEF CFieldsOf
    <2> QED BY <2>1, <2>2
<1> DEFINE f == <<<<1, 0>>, <<v5, 2>>, <<v1, 3>>, <<v6, 5>>, <<a, 7>>, <<v3, 10>>, <<v8, 12>>,
      <<g, 13>>>>
<1>13. CFieldsOf(i) = f
    BY <1>5, <1>6, <1>7, <1>8, <1>9, <1>10, <1>12
<1>14. f \in Seq(Nat \X Nat) /\ Len(f) = 8
    OBVIOUS
<1>15. f[1] = <<1, 0>> /\ f[2] = <<v5, 2>> /\ f[3] = <<v1, 3>> /\ f[4] = <<v6, 5>>
      /\ f[5] = <<a, 7>> /\ f[6] = <<v3, 10>> /\ f[7] = <<v8, 12>> /\ f[8] = <<g, 13>>
    OBVIOUS
<1> HIDE DEF f
<1>16. Low(<<1, 0>>) = 1
    BY DEF Low
<1>17. Low(<<v5, 2>>) = 4 * v5
    BY DEF Low
<1>18. Low(<<v1, 3>>) = 8 * v1
    BY DEF Low
<1>19. Low(<<v6, 5>>) = 32 * v6
    BY DEF Low
<1>20. Low(<<a, 7>>) = 128 * a
    BY DEF Low
<1>21. Low(<<v3, 10>>) = 1024 * v3
    BY DEF Low
<1>22. Low(<<v8, 12>>) = 4096 * v8
    BY DEF Low
<1>23. Low(<<g, 13>>) = 8192 * g
    BY DEF Low
<1>24. LowHalf(f) = Low(<<1, 0>>) + Low(<<v5, 2>>) + Low(<<v1, 3>>) + Low(<<v6, 5>>)
      + Low(<<a, 7>>) + Low(<<v3, 10>>) + Low(<<v8, 12>>) + Low(<<g, 13>>)
    <2>1. SumsOfFields(f)
        BY <1>14, FieldSums
    <2>2. LowHalf(f) = Low(f[1]) + Low(f[2]) + Low(f[3]) + Low(f[4]) + Low(f[5]) + Low(f[6])
          + Low(f[7]) + Low(f[8])
        BY <1>14, <2>1, SMT DEF SumsOfFields
    <2> QED BY <2>2, <1>15
<1>25. PICK lo \in Nat, hi \in Nat : w.lo = lo /\ w.hi = hi
    BY HalfWords
<1>26. lo = 1 + 4 * v5 + 8 * v1 + 32 * v6 + 128 * a + 1024 * v3 + 4096 * v8 + 8192 * g
    BY <1>13, <1>16, <1>17, <1>18, <1>19, <1>20, <1>21, <1>22, <1>23, <1>24, <1>25
<1>27. /\ get_instr_piece(w, 2, 1) = Bits(lo, 2, 2)
      /\ get_instr_piece(w, 3, 2) = Bits(lo, 4, 3)
      /\ get_instr_piece(w, 5, 2) = Bits(lo, 6, 5)
      /\ get_instr_piece(w, 10, 2) = Bits(lo, 11, 10)
      /\ get_instr_piece(w, 12, 1) = Bits(lo, 12, 12)
    BY <1>25, LowPiece
<1>28. /\ Bits(lo, 2, 2) = (lo \div 4) % 2
      /\ Bits(lo, 4, 3) = (lo \div 8) % 4
      /\ Bits(lo, 6, 5) = (lo \div 32) % 4
      /\ Bits(lo, 11, 10) = (lo \div 1024) % 4
      /\ Bits(lo, 12, 12) = (lo \div 4096) % 2
    BY DEF Bits
<1>29. PICK r13 \in Nat : r13 = g
    OBVIOUS
<1>30. PICK r12 \in Nat : r12 = v8 + 2 * r13
    OBVIOUS
<1>31. PICK r10 \in Nat : r10 = v3 + 4 * r12
    OBVIOUS
<1>32. PICK r7 \in Nat : r7 = a + 8 * r10
    OBVIOUS
<1>33. PICK r5 \in Nat : r5 = v6 + 4 * r7
    OBVIOUS
<1>34. PICK r3 \in Nat : r3 = v1 + 4 * r5
    OBVIOUS
<1>35. PICK r2 \in Nat : r2 = v5 + 2 * r3
    OBVIOUS
<1>36. lo = 1 + 4 * r2
    BY <1>26, <1>29, <1>30, <1>31, <1>32, <1>33, <1>34, <1>35
<1>37. lo % 4 = 1 /\ lo \div 4 = r2
    BY <1>36
<1>38. r2 % 2 = v5 /\ r2 \div 2 = r3
    BY <1>35
<1>39. r3 % 4 = v1 /\ r3 \div 4 = r5
    BY <1>34
<1>40. r5 % 4 = v6 /\ r5 \div 4 = r7
    BY <1>33
<1>41. r7 % 8 = a /\ r7 \div 8 = r10
    BY <1>32
<1>42. r10 % 4 = v3 /\ r10 \div 4 = r12
    BY <1>31
<1>43. r12 % 2 = v8 /\ r12 \div 2 = r13
    BY <1>30
<1>44. /\ (lo \div 4) \div 2 = lo \div 8
      /\ (lo \div 8) \div 4 = lo \div 32
      /\ (lo \div 32) \div 4 = lo \div 128
      /\ (lo \div 128) \div 8 = lo \div 1024
      /\ (lo \div 1024) \div 4 = lo \div 4096
    OBVIOUS
<1>45. /\ lo \div 4 = r2
      /\ lo \div 8 = r3
      /\ lo \div 32 = r5
      /\ lo \div 128 = r7
      /\ lo \div 1024 = r10
      /\ lo \div 4096 = r12
    BY <1>37, <1>38, <1>39, <1>40, <1>41, <1>42, <1>43, <1>44
<1>46. get_instr_piece(w, 2, 1) = v5 /\ get_instr_piece(w, 3, 2) = v1
      /\ get_instr_piece(w, 5, 2) = v6 /\ get_instr_piece(w, 10, 2) = v3
      /\ get_instr_piece(w, 12, 1) = v8
    BY <1>27, <1>28, <1>37, <1>38, <1>39, <1>40, <1>41, <1>42, <1>43, <1>45
<1>47. PICK u \in Int : u = 32 * v5 + 2 * v1 + 64 * v6 + 8 * v3 + 256 * v8
    OBVIOUS
<1>48. GET_C_IMM_CBR(w) = sext(u, 9)
    <2>1. CompressedImmediates(w)
        BY Pieces
    <2>2. GET_C_IMM_CBR(w) = sext(32 * get_instr_piece(w, 2, 1) + 2 * get_instr_piece(w, 3, 2)
          + 64 * get_instr_piece(w, 5, 2) + 8 * get_instr_piece(w, 10, 2)
          + 256 * get_instr_piece(w, 12, 1), 9)
        BY <2>1 DEF CompressedImmediates
    <2> QED BY <2>2, <1>46, <1>47
<1>49. GET_C_IMM_CBR(w) = m
    BY <1>2, <1>11, <1>47, <1>48 DEF sext
<1> QED BY <1>1, <1>49

\* CIW: nzuimm[5:4|9:6|2|3].
LEMMA AddSp4Immediate ==
    ASSUME NEW i,
           i.form = "c.addi4spn",
           i.rd \in 8..15,
           i.imm \in Unsigned(10),
           Aligned(i.imm, 4),
           NEW w \in Instruction,
           w.lo = LowHalf(CFieldsOf(i))
    PROVE  GET_C_IMM_CIW(w) = i.imm
<1>1. PICK m \in Int : m = i.imm /\ m >= 0 /\ m < 1024 /\ m % 4 = 0
    BY SMT DEF Unsigned, Aligned
<1>2. m \in 0..1023
    BY <1>1
<1>3. m % 4 = 0
    BY <1>1
<1>4. m \in Int
    OBVIOUS
<1>5. /\ Bit(m, 2) = (m \div 4) % 2
      /\ Bit(m, 3) = (m \div 8) % 2
      /\ Bits(m, 5, 4) = (m \div 16) % 4
      /\ Bits(m, 9, 6) = (m \div 64) % 16
    BY DEF Bits, Bit
<1>6. PICK v2 \in 0..1 : v2 = (m \div 4) % 2
    BY <1>4
<1>7. PICK v3 \in 0..1 : v3 = (m \div 8) % 2
    BY <1>4
<1>8. PICK v4 \in 0..3 : v4 = (m \div 16) % 4
    BY <1>4
<1>9. PICK v6 \in 0..15 : v6 = (m \div 64) % 16
    BY <1>4
<1>10. PICK d \in Int : d = m \div 1024 /\ m = 4 * v2 + 8 * v3 + 16 * v4 + 64 * v6 + 1024 * d
    <2>1. PICK q2 \in Int, q3 \in Int, q4 \in Int, q6 \in Int, q10 \in Int : q2 = m \div 4
          /\ q3 = m \div 8 /\ q4 = m \div 16 /\ q6 = m \div 64 /\ q10 = m \div 1024
        BY <1>4
    <2>2. q2 = v2 + 2 * q3
        BY <1>6, <2>1
    <2>3. q3 = v3 + 2 * q4
        BY <1>7, <2>1
    <2>4. q4 = v4 + 4 * q6
        BY <1>8, <2>1
    <2>5. q6 = v6 + 16 * q10
        BY <1>9, <2>1
    <2>6. m = 4 * q2
        BY <1>3, <2>1
    <2>7. m = 4 * v2 + 8 * v3 + 16 * v4 + 64 * v6 + 1024 * q10
        BY <2>2, <2>3, <2>4, <2>5, <2>6
    <2> QED BY <2>1, <2>7
<1>11. PICK a \in 0..7 :
        CFieldsOf(i) = <<<<0, 0>>, <<a, 2>>, <<Bit(m, 3), 5>>, <<Bit(m, 2), 6>>,
          <<Bits(m, 9, 6), 7>>, <<Bits(m, 5, 4), 11>>>>
    BY <1>1 DEF CFieldsOf
<1> DEFINE f == <<<<0, 0>>, <<a, 2>>, <<v3, 5>>, <<v2, 6>>, <<v6, 7>>, <<v4, 11>>>>
<1>12. CFieldsOf(i) = f
    BY <1>5, <1>6, <1>7, <1>8, <1>9, <1>11
<1>13. f \in Seq(Nat \X Nat) /\ Len(f) = 6
    OBVIOUS
<1>14. f[1] = <<0, 0>> /\ f[2] = <<a, 2>> /\ f[3] = <<v3, 5>> /\ f[4] = <<v2, 6>>
      /\ f[5] = <<v6, 7>> /\ f[6] = <<v4, 11>>
    OBVIOUS
<1> HIDE DEF f
<1>15. Low(<<0, 0>>) = 0
    BY DEF Low
<1>16. Low(<<a, 2>>) = 4 * a
    BY DEF Low
<1>17. Low(<<v3, 5>>) = 32 * v3
    BY DEF Low
<1>18. Low(<<v2, 6>>) = 64 * v2
    BY DEF Low
<1>19. Low(<<v6, 7>>) = 128 * v6
    BY DEF Low
<1>20. Low(<<v4, 11>>) = 2048 * v4
    BY DEF Low
<1>21. LowHalf(f) = Low(<<0, 0>>) + Low(<<a, 2>>) + Low(<<v3, 5>>) + Low(<<v2, 6>>)
      + Low(<<v6, 7>>) + Low(<<v4, 11>>)
    <2>1. SumsOfFields(f)
        BY <1>13, FieldSums
    <2>2. LowHalf(f) = Low(f[1]) + Low(f[2]) + Low(f[3]) + Low(f[4]) + Low(f[5]) + Low(f[6])
        BY <1>13, <2>1, SMT DEF SumsOfFields
    <2> QED BY <2>2, <1>14
<1>22. PICK lo \in Nat, hi \in Nat : w.lo = lo /\ w.hi = hi
    BY HalfWords
<1>23. lo = 4 * a + 32 * v3 + 64 * v2 + 128 * v6 + 2048 * v4
    BY <1>12, <1>15, <1>16, <1>17, <1>18, <1>19, <1>20, <1>21, <1>22
<1>24. /\ get_instr_piece(w, 5, 1) = Bits(lo, 5, 5)
      /\ get_instr_piece(w, 6, 1) = Bits(lo, 6, 6)
      /\ get_instr_piece(w, 7, 4) = Bits(lo, 10, 7)
      /\ get_instr_piece(w, 11, 2) = Bits(lo, 12, 11)
    BY <1>22, LowPiece
<1>25. /\ Bits(lo, 5, 5) = (lo \div 32) % 2
      /\ Bits(lo, 6, 6) = (lo \div 64) % 2
      /\ Bits(lo, 10, 7) = (lo \div 128) % 16
      /\ Bits(lo, 12, 11) = (lo \div 2048) % 4
    BY DEF Bits
<1>26. PICK r11 \in Nat : r11 = v4
    OBVIOUS
<1>27. PICK r7 \in Nat : r7 = v6 + 16 * r11
    OBVIOUS
<1>28. PICK r6 \in Nat : r6 = v2 + 2 * r7
    OBVIOUS
<1>29. PICK r5 \in Nat : r5 = v3 + 2 * r6
    OBVIOUS
<1>30. PICK r2 \in Nat : r2 = a + 8 * r5
    OBVIOUS
<1>31. lo = 0 + 4 * r2
    BY <1>23, <1>26, <1>27, <1>28, <1>29, <1>30
<1>32. lo % 4 = 0 /\ lo \div 4 = r2
    BY <1>31
<1>33. r2 % 8 = a /\ r2 \div 8 = r5
    BY <1>30
<1>34. r5 % 2 = v3 /\ r5 \div 2 = r6
    BY <1>29
<1>35. r6 % 2 = v2 /\ r6 \div 2 = r7
    BY <1>28
<1>36. r7 % 16 = v6 /\ r7 \div 16 = r11
    BY <1>27
<1>37. r11 % 4 = v4
    BY <1>26
<1>38. /\ (lo \div 4) \div 8 = lo \div 32
      /\ (lo \div 32) \div 2 = lo \div 64
      /\ (lo \div 64) \div 2 = lo \div 128
      /\ (lo \div 128) \div 16 = lo \div 2048
    OBVIOUS
<1>39. /\ lo \div 4 = r2
      /\ lo \div 32 = r5
      /\ lo \div 64 = r6
      /\ lo \div 128 = r7
      /\ lo \div 2048 = r11
    BY <1>32, <1>33, <1>34, <1>35, <1>36, <1>37, <1>38
<1>40. get_instr_piece(w, 5, 1) = v3 /\ get_instr_piece(w, 6, 1) = v2
      /\ get_instr_piece(w, 7, 4) = v6 /\ get_instr_piece(w, 11, 2) = v4
    BY <1>24, <1>25, <1>32, <1>33, <1>34, <1>35, <1>36, <1>37, <1>39
<1>41. PICK u \in Int : u = 8 * v3 + 4 * v2 + 64 * v6 + 16 * v4
    OBVIOUS
<1>42. GET_C_IMM_CIW(w) = u
    <2>1. CompressedImmediates(w)
        BY Pieces
    <2>2. GET_C_IMM_CIW(w) = 8 * get_instr_piece(w, 5, 1) + 4 * get_instr_piece(w, 6, 1)
          + 64 * get_instr_piece(w, 7, 4) + 16 * get_instr_piece(w, 11, 2)
        BY <2>1 DEF CompressedImmediates
    <2> QED BY <2>2, <1>40, <1>41
<1>43. GET_C_IMM_CIW(w) = m
    BY <1>2, <1>10, <1>41, <1>42
<1> QED BY <1>1, <1>43

\* CI of C.ADDI16SP: nzimm[9] and nzimm[4|6|8:7|5].
LEMMA AddSp16Immediate ==
    ASSUME NEW i,
           i.form = "c.addi16sp",
           i.rd \in 0..31,
           i.imm \in SignedRange(10),
           Aligned(i.imm, 16),
           NEW w \in Instruction,
           w.lo = LowHalf(CFieldsOf(i))
    PROVE  GET_C_IMM_CSP(w) = i.imm
<1>1. PICK m \in Int : m = i.imm /\ m >= -512 /\ m < 512 /\ m % 16 = 0
    BY SMT DEF SignedRange, Aligned
<1>2. m \in -512..511
    BY <1>1
<1>3. m % 16 = 0
    BY <1>1
<1>4. m \in Int
    OBVIOUS
<1>5. /\ Bit(m, 4) = (m \div 16) % 2
      /\ Bit(m, 5) = (m \div 32) % 2
      /\ Bit(m, 6) = (m \div 64) % 2
      /\ Bits(m, 8, 7) = (m \div 128) % 4
      /\ Bit(m, 9) = (m \div 512) % 2
    BY DEF Bits, Bit
<1>6. PICK v4 \in 0..1 : v4 = (m \div 16) % 2
    BY <1>4
<1>7. PICK v5 \in 0..1 : v5 = (m \div 32) % 2
    BY <1>4
<1>8. PICK v6 \in 0..1 : v6 = (m \div 64) % 2
    BY <1>4
<1>9. PICK v7 \in 0..3 : v7 = (m \div 128) % 4
    BY <1>4
<1>10. PICK v9 \in 0..1 : v9 = (m \div 512) % 2
    BY <1>4
<1>11. PICK d \in Int : d = m \div 1024
      /\ m = 16 * v4 + 32 * v5 + 64 * v6 + 128 * v7 + 512 * v9 + 1024 * d
    <2>1. PICK q4 \in Int, q5 \in Int, q6 \in Int, q7 \in Int, q9 \in Int, q10 \in Int :
          q4 = m \div 16 /\ q5 = m \div 32 /\ q6 = m \div 64 /\ q7 = m \div 128
          /\ q9 = m \div 512 /\ q10 = m \div 1024
        BY <1>4
    <2>2. q4 = v4 + 2 * q5
        BY <1>6, <2>1
    <2>3. q5 = v5 + 2 * q6
        BY <1>7, <2>1
    <2>4. q6 = v6 + 2 * q7
        BY <1>8, <2>1
    <2>5. q7 = v7 + 4 * q9
        BY <1>9, <2>1
    <2>6. q9 = v9 + 2 * q10
        BY <1>10, <2>1
    <2>7. m = 16 * q4
        BY <1>3, <2>1
    <2>8. m = 16 * v4 + 32 * v5 + 64 * v6 + 128 * v7 + 512 * v9 + 1024 * q10
        BY <2>2, <2>3, <2>4, <2>5, <2>6, <2>7
    <2> QED BY <2>1, <2>8
<1>12. PICK a \in 0..31 :
        CFieldsOf(i) = <<<<1, 0>>, <<Bit(m, 5), 2>>, <<Bits(m, 8, 7), 3>>, <<Bit(m, 6), 5>>,
          <<Bit(m, 4), 6>>, <<a, 7>>, <<Bit(m, 9), 12>>, <<3, 13>>>>
    BY <1>1 DEF CFieldsOf
<1> DEFINE f == <<<<1, 0>>, <<v5, 2>>, <<v7, 3>>, <<v6, 5>>, <<v4, 6>>, <<a, 7>>, <<v9, 12>>,
      <<3, 13>>>>
<1>13. CFieldsOf(i) = f
    BY <1>5, <1>6, <1>7, <1>8, <1>9, <1>10, <1>12
<1>14. f \in Seq(Nat \X Nat) /\ Len(f) = 8
    OBVIOUS
<1>15. f[1] = <<1, 0>> /\ f[2] = <<v5, 2>> /\ f[3] = <<v7, 3>> /\ f[4] = <<v6, 5>>
      /\ f[5] = <<v4, 6>> /\ f[6] = <<a, 7>> /\ f[7] = <<v9, 12>> /\ f[8] = <<3, 13>>
    OBVIOUS
<1> HIDE DEF f
<1>16. Low(<<1, 0>>) = 1
    BY DEF Low
<1>17. Low(<<v5, 2>>) = 4 * v5
    BY DEF Low
<1>18. Low(<<v7, 3>>) = 8 * v7
    BY DEF Low
<1>19. Low(<<v6, 5>>) = 32 * v6
    BY DEF Low
<1>20. Low(<<v4, 6>>) = 64 * v4
    BY DEF Low
<1>21. Low(<<a, 7>>) = 128 * a
    BY DEF Low
<1>22. Low(<<v9, 12>>) = 4096 * v9
    BY DEF Low
<1>23. Low(<<3, 13>>) = 24576
    BY DEF Low
<1>24. LowHalf(f) = Low(<<1, 0>>) + Low(<<v5, 2>>) + Low(<<v7, 3>>) + Low(<<v6, 5>>)
      + Low(<<v4, 6>>) + Low(<<a, 7>>) + Low(<<v9, 12>>) + Low(<<3, 13>>)
    <2>1. SumsOfFields(f)
        BY <1>14, FieldSums
    <2>2. LowHalf(f) = Low(f[1]) + Low(f[2]) + Low(f[3]) + Low(f[4]) + Low(f[5]) + Low(f[6])
          + Low(f[7]) + Low(f[8])
        BY <1>14, <2>1, SMT DEF SumsOfFields
    <2> QED BY <2>2, <1>15
<1>25. PICK lo \in Nat, hi \in Nat : w.lo = lo /\ w.hi = hi
    BY HalfWords
<1>26. lo = 1 + 4 * v5 + 8 * v7 + 32 * v6 + 64 * v4 + 128 * a + 4096 * v9 + 24576
    BY <1>13, <1>16, <1>17, <1>18, <1>19, <1>20, <1>21, <1>22, <1>23, <1>24, <1>25
<1>27. /\ get_instr_piece(w, 2, 1) = Bits(lo, 2, 2)
      /\ get_instr_piece(w, 3, 2) = Bits(lo, 4, 3)
      /\ get_instr_piece(w, 5, 1) = Bits(lo, 5, 5)
      /\ get_instr_piece(w, 6, 1) = Bits(lo, 6, 6)
      /\ get_instr_piece(w, 12, 1) = Bits(lo, 12, 12)
    BY <1>25, LowPiece
<1>28. /\ Bits(lo, 2, 2) = (lo \div 4) % 2
      /\ Bits(lo, 4, 3) = (lo \div 8) % 4
      /\ Bits(lo, 5, 5) = (lo \div 32) % 2
      /\ Bits(lo, 6, 6) = (lo \div 64) % 2
      /\ Bits(lo, 12, 12) = (lo \div 4096) % 2
    BY DEF Bits
<1>29. PICK r13 \in Nat : r13 = 3
    OBVIOUS
<1>30. PICK r12 \in Nat : r12 = v9 + 2 * r13
    OBVIOUS
<1>31. PICK r7 \in Nat : r7 = a + 32 * r12
    OBVIOUS
<1>32. PICK r6 \in Nat : r6 = v4 + 2 * r7
    OBVIOUS
<1>33. PICK r5 \in Nat : r5 = v6 + 2 * r6
    OBVIOUS
<1>34. PICK r3 \in Nat : r3 = v7 + 4 * r5
    OBVIOUS
<1>35. PICK r2 \in Nat : r2 = v5 + 2 * r3
    OBVIOUS
<1>36. lo = 1 + 4 * r2
    BY <1>26, <1>29, <1>30, <1>31, <1>32, <1>33, <1>34, <1>35
<1>37. lo % 4 = 1 /\ lo \div 4 = r2
    BY <1>36
<1>38. r2 % 2 = v5 /\ r2 \div 2 = r3
    BY <1>35
<1>39. r3 % 4 = v7 /\ r3 \div 4 = r5
    BY <1>34
<1>40. r5 % 2 = v6 /\ r5 \div 2 = r6
    BY <1>33
<1>41. r6 % 2 = v4 /\ r6 \div 2 = r7
    BY <1>32
<1>42. r7 % 32 = a /\ r7 \div 32 = r12
    BY <1>31
<1>43. r12 % 2 = v9 /\ r12 \div 2 = r13
    BY <1>30
<1>44. /\ (lo \div 4) \div 2 = lo \div 8
      /\ (lo \div 8) \div 4 = lo \div 32
      /\ (lo \div 32) \div 2 = lo \div 64
      /\ (lo \div 64) \div 2 = lo \div 128
      /\ (lo \div 128) \div 32 = lo \div 4096
    OBVIOUS
<1>45. /\ lo \div 4 = r2
      /\ lo \div 8 = r3
      /\ lo \div 32 = r5
      /\ lo \div 64 = r6
      /\ lo \div 128 = r7
      /\ lo \div 4096 = r12
    BY <1>37, <1>38, <1>39, <1>40, <1>41, <1>42, <1>43, <1>44
<1>46. get_instr_piece(w, 2, 1) = v5 /\ get_instr_piece(w, 3, 2) = v7
      /\ get_instr_piece(w, 5, 1) = v6 /\ get_instr_piece(w, 6, 1) = v4
      /\ get_instr_piece(w, 12, 1) = v9
    BY <1>27, <1>28, <1>37, <1>38, <1>39, <1>40, <1>41, <1>42, <1>43, <1>45
<1>47. PICK u \in Int : u = 32 * v5 + 128 * v7 + 64 * v6 + 16 * v4 + 512 * v9
    OBVIOUS
<1>48. GET_C_IMM_CSP(w) = sext(u, 10)
    <2>1. CompressedImmediates(w)
        BY Pieces
    <2>2. GET_C_IMM_CSP(w) = sext(32 * get_instr_piece(w, 2, 1)
          + 128 * get_instr_piece(w, 3, 2) + 64 * get_instr_piece(w, 5, 1)
          + 16 * get_instr_piece(w, 6, 1) + 512 * get_instr_piece(w, 12, 1), 10)
        BY <2>1 DEF CompressedImmediates
    <2> QED BY <2>2, <1>46, <1>47
<1>49. GET_C_IMM_CSP(w) = m
    BY <1>2, <1>11, <1>47, <1>48 DEF sext
<1> QED BY <1>1, <1>49

\* CI of C.LWSP: uimm[5] and uimm[4:2|7:6].
LEMMA LoadSpImmediate ==
    ASSUME NEW i,
           i.form = "c.lwsp",
           i.rd \in 0..31,
           i.imm \in Unsigned(8),
           Aligned(i.imm, 4),
           NEW w \in Instruction,
           w.lo = LowHalf(CFieldsOf(i))
    PROVE  GET_C_IMM_CI(w) = i.imm
<1>1. PICK m \in Int : m = i.imm /\ m >= 0 /\ m < 256 /\ m % 4 = 0
    BY SMT DEF Unsigned, Aligned
<1>2. m \in 0..255
    BY <1>1
<1>3. m % 4 = 0
    BY <1>1
<1>4. m \in Int
    OBVIOUS
<1>5. /\ Bits(m, 4, 2) = (m \div 4) % 8
      /\ Bit(m, 5) = (m \div 32) % 2
      /\ Bits(m, 7, 6) = (m \div 64) % 4
    BY DEF Bits, Bit
<1>6. PICK v2 \in 0..7 : v2 = (m \div 4) % 8
    BY <1>4
<1>7. PICK v5 \in 0..1 : v5 = (m \div 32) % 2
    BY <1>4
<1>8. PICK v6 \in 0..3 : v6 = (m \div 64) % 4
    BY <1>4
<1>9. PICK d \in Int : d = m \div 256 /\ m = 4 * v2 + 32 * v5 + 64 * v6 + 256 * d
    <2>1. PICK q2 \in Int, q5 \in Int, q6 \in Int, q8 \in Int : q2 = m \div 4
          /\ q5 = m \div 32 /\ q6 = m \div 64 /\ q8 = m \div 256
        BY <1>4
    <2>2. q2 = v2 + 8 * q5
        BY <1>6, <2>1
    <2>3. q5 = v5 + 2 * q6
        BY <1>7, <2>1
    <2>4. q6 = v6 + 4 * q8
        BY <1>8, <2>1
    <2>5. m = 4 * q2
        BY <1>3, <2>1
    <2>6. m = 4 * v2 + 32 * v5 + 64 * v6 + 256 * q8
        BY <2>2, <2>3, <2>4, <2>5
    <2> QED BY <2>1, <2>6
<1>10. PICK a \in 0..31 :
        CFieldsOf(i) = <<<<2, 0>>, <<Bits(m, 7, 6), 2>>, <<Bits(m, 4, 2), 4>>, <<a, 7>>,
          <<Bit(m, 5), 12>>, <<2, 13>>>>
    BY <1>1 DEF CFieldsOf
<1> DEFINE f == <<<<2, 0>>, <<v6, 2>>, <<v2, 4>>, <<a, 7>>, <<v5, 12>>, <<2, 13>>>>
<1>11. CFieldsOf(i) = f
    BY <1>5, <1>6, <1>7, <1>8, <1>10
<1>12. f \in Seq(Nat \X Nat) /\ Len(f) = 6
    OBVIOUS
<1>13. f[1] = <<2, 0>> /\ f[2] = <<v6, 2>> /\ f[3] = <<v2, 4>> /\ f[4] = <<a, 7>>
      /\ f[5] = <<v5, 12>> /\ f[6] = <<2, 13>>
    OBVIOUS
<1> HIDE DEF f
<1>14. Low(<<2, 0>>) = 2
    BY DEF Low
<1>15. Low(<<v6, 2>>) = 4 * v6
    BY DEF Low
<1>16. Low(<<v2, 4>>) = 16 * v2
    BY DEF Low
<1>17. Low(<<a, 7>>) = 128 * a
    BY DEF Low
<1>18. Low(<<v5, 12>>) = 4096 * v5
    BY DEF Low
<1>19. Low(<<2, 13>>) = 16384
    BY DEF Low
<1>20. LowHalf(f) = Low(<<2, 0>>) + Low(<<v6, 2>>) + Low(<<v2, 4>>) + Low(<<a, 7>>)
      + Low(<<v5, 12>>) + Low(<<2, 13>>)
    <2>1. SumsOfFields(f)
        BY <1>12, FieldSums
    <2>2. LowHalf(f) = Low(f[1]) + Low(f[2]) + Low(f[3]) + Low(f[4]) + Low(f[5]) + Low(f[6])
        BY <1>12, <2>1, SMT DEF SumsOfFields
    <2> QED BY <2>2, <1>13
<1>21. PICK lo \in Nat, hi \in Nat : w.lo = lo /\ w.hi = hi
    BY HalfWords
<1>22. lo = 2 + 4 * v6 + 16 * v2 + 128 * a + 4096 * v5 + 16384
    BY <1>11, <1>14, <1>15, <1>16, <1>17, <1>18, <1>19, <1>20, <1>21
<1>23. /\ get_instr_piece(w, 2, 2) = Bits(lo, 3, 2)
      /\ get_instr_piece(w, 4, 3) = Bits(lo, 6, 4)
      /\ get_instr_piece(w, 12, 1) = Bits(lo, 12, 12)
    BY <1>21, LowPiece
<1>24. /\ Bits(lo, 3, 2) = (lo \div 4) % 4
      /\ Bits(lo, 6, 4) = (lo \div 16) % 8
      /\ Bits(lo, 12, 12) = (lo \div 4096) % 2
    BY DEF Bits
<1>25. PICK r13 \in Nat : r13 = 2
    OBVIOUS
<1>26. PICK r12 \in Nat : r12 = v5 + 2 * r13
    OBVIOUS
<1>27. PICK r7 \in Nat : r7 = a + 32 * r12
    OBVIOUS
<1>28. PICK r4 \in Nat : r4 = v2 + 8 * r7
    OBVIOUS
<1>29. PICK r2 \in Nat : r2 = v6 + 4 * r4
    OBVIOUS
<1>30. lo = 2 + 4 * r2
    BY <1>22, <1>25, <1>26, <1>27, <1>28, <1>29
<1>31. lo % 4 = 2 /\ lo \div 4 = r2
    BY <1>30
<1>32. r2 % 4 = v6 /\ r2 \div 4 = r4
    BY <1>29
<1>33. r4 % 8 = v2 /\ r4 \div 8 = r7
    BY <1>28
<1>34. r7 % 32 = a /\ r7 \div 32 = r12
    BY <1>27
<1>35. r12 % 2 = v5 /\ r12 \div 2 = r13
    BY <1>26
<1>36. /\ (lo \div 4) \div 4 = lo \div 16
      /\ (lo \div 16) \div 8 = lo \div 128
      /\ (lo \div 128) \div 32 = lo \div 4096
    OBVIOUS
<1>37. /\ lo \div 4 = r2
      /\ lo \div 16 = r4
      /\ lo \div 128 = r7
      /\ lo \div 4096 = r12
    BY <1>31, <1>32, <1>33, <1>34, <1>35, <1>36
<1>38. get_instr_piece(w, 2, 2) = v6 /\ get_instr_piece(w, 4, 3) = v2
      /\ get_instr_piece(w, 12, 1) = v5
    BY <1>23, <1>24, <1>31, <1>32, <1>33, <1>34, <1>35, <1>37
<1>39. PICK u \in Int : u = 64 * v6 + 4 * v2 + 32 * v5
    OBVIOUS
<1>40. GET_C_IMM_CI(w) = u
    <2>1. CompressedImmediates(w)
        BY Pieces
    <2>2. GET_C_IMM_CI(w) = 64 * get_instr_piece(w, 2, 2) + 4 * get_instr_piece(w, 4, 3)
          + 32 * get_instr_piece(w, 12, 1)
        BY <2>1 DEF CompressedImmediates
    <2> QED BY <2>2, <1>38, <1>39
<1>41. GET_C_IMM_CI(w) = m
    BY <1>2, <1>9, <1>39, <1>40
<1> QED BY <1>1, <1>41

\* CSS: uimm[5:2|7:6].
LEMMA StoreSpImmediate ==
    ASSUME NEW i,
           i.form = "c.swsp",
           i.rs2 \in 0..31,
           i.imm \in Unsigned(8),
           Aligned(i.imm, 4),
           NEW w \in Instruction,
           w.lo = LowHalf(CFieldsOf(i))
    PROVE  GET_C_IMM_CSS(w) = i.imm
<1>1. PICK m \in Int : m = i.imm /\ m >= 0 /\ m < 256 /\ m % 4 = 0
    BY SMT DEF Unsigned, Aligned
<1>2. m \in 0..255
    BY <1>1
<1>3. m % 4 = 0
    BY <1>1
<1>4. m \in Int
    OBVIOUS
<1>5. /\ Bits(m, 5, 2) = (m \div 4) % 16
      /\ Bits(m, 7, 6) = (m \div 64) % 4
    BY DEF Bits, Bit
<1>6. PICK v2 \in 0..15 : v2 = (m \div 4) % 16
    BY <1>4
<1>7. PICK v6 \in 0..3 : v6 = (m \div 64) % 4
    BY <1>4
<1>8. PICK d \in Int : d = m \div 256 /\ m = 4 * v2 + 64 * v6 + 256 * d
    <2>1. PICK q2 \in Int, q6 \in Int, q8 \in Int : q2 = m \div 4 /\ q6 = m \div 64
          /\ q8 = m \div 256
        BY <1>4
    <2>2. q2 = v2 + 16 * q6
        BY <1>6, <2>1
    <2>3. q6 = v6 + 4 * q8
        BY <1>7, <2>1
    <2>4. m = 4 * q2
        BY <1>3, <2>1
    <2>5. m = 4 * v2 + 64 * v6 + 256 * q8
        BY <2>2, <2>3, <2>4
    <2> QED BY <2>1, <2>5
<1>9. PICK a \in 0..31 :
        CFieldsOf(i) = <<<<2, 0>>, <<a, 2>>, <<Bits(m, 7, 6), 7>>, <<Bits(m, 5, 2), 9>>,
          <<6, 13>>>>
    BY <1>1 DEF CFieldsOf
<1> DEFINE f == <<<<2, 0>>, <<a, 2>>, <<v6, 7>>, <<v2, 9>>, <<6, 13>>>>
<1>10. CFieldsOf(i) = f
    BY <1>5, <1>6, <1>7, <1>9
<1>11. f \in Seq(Nat \X Nat) /\ Len(f) = 5
    OBVIOUS
<1>12. f[1] = <<2, 0>> /\ f[2] = <<a, 2>> /\ f[3] = <<v6, 7>> /\ f[4] = <<v2, 9>>
      /\ f[5] = <<6, 13>>
    OBVIOUS
<1> HIDE DEF f
<1>13. Low(<<2, 0>>) = 2
    BY DEF Low
<1>14. Low(<<a, 2>>) = 4 * a
    BY DEF Low
<1>15. Low(<<v6, 7>>) = 128 * v6
    BY DEF Low
<1>16. Low(<<v2, 9>>) = 512 * v2
    BY DEF Low
<1>17. Low(<<6, 13>>) = 49152
    BY DEF Low
<1>18. LowHalf(f) = Low(<<2, 0>>) + Low(<<a, 2>>) + Low(<<v6, 7>>) + Low(<<v2, 9>>)
      + Low(<<6, 13>>)
    <2>1. SumsOfFields(f)
        BY <1>11, FieldSums
    <2>2. LowHalf(f) = Low(f[1]) + Low(f[2]) + Low(f[3]) + Low(f[4]) + Low(f[5])
        BY <1>11, <2>1, SMT DEF SumsOfFields
    <2> QED BY <2>2, <1>12
<1>19. PICK lo \in Nat, hi \in Nat : w.lo = lo /\ w.hi = hi
    BY HalfWords
<1>20. lo = 2 + 4 * a + 128 * v6 + 512 * v2 + 49152
    BY <1>10, <1>13, <1>14, <1>15, <1>16, <1>17, <1>18, <1>19
<1>21. /\ get_instr_piece(w, 7, 2) = Bits(lo, 8, 7)
      /\ get_instr_piece(w, 9, 4) = Bits(lo, 12, 9)
    BY <1>19, LowPiece
<1>22. /\ Bits(lo, 8, 7) = (lo \div 128) % 4
      /\ Bits(lo, 12, 9) = (lo \div 512) % 16
    BY DEF Bits
<1>23. PICK r13 \in Nat : r13 = 6
    OBVIOUS
<1>24. PICK r9 \in Nat : r9 = v2 + 16 * r13
    OBVIOUS
<1>25. PICK r7 \in Nat : r7 = v6 + 4 * r9
    OBVIOUS
<1>26. PICK r2 \in Nat : r2 = a + 32 * r7
    OBVIOUS
<1>27. lo = 2 + 4 * r2
    BY <1>20, <1>23, <1>24, <1>25, <1>26
<1>28. lo % 4 = 2 /\ lo \div 4 = r2
    BY <1>27
<1>29. r2 % 32 = a /\ r2 \div 32 = r7
    BY <1>26
<1>30. r7 % 4 = v6 /\ r7 \div 4 = r9
    BY <1>25
<1>31. r9 % 16 = v2 /\ r9 \div 16 = r13
    BY <1>24
<1>32. /\ (lo \div 4) \div 32 = lo \div 128
      /\ (lo \div 128) \div 4 = lo \div 512
    OBVIOUS
<1>33. /\ lo \div 4 = r2
      /\ lo \div 128 = r7
      /\ lo \div 512 = r9
    BY <1>28, <1>29, <1>30, <1>31, <1>32
<1>34. get_instr_piece(w, 7, 2) = v6 /\ get_instr_piece(w, 9, 4) = v2
    BY <1>21, <1>22, <1>28, <1>29, <1>30, <1>31, <1>33
<1>35. PICK u \in Int : u = 64 * v6 + 4 * v2
    OBVIOUS
<1>36. GET_C_IMM_CSS(w) = u
    <2>1. CompressedImmediates(w)
        BY Pieces
    <2>2. GET_C_IMM_CSS(w) = 64 * get_instr_piece(w, 7, 2) + 4 * get_instr_piece(w, 9, 4)
        BY <2>1 DEF CompressedImmediates
    <2> QED BY <2>2, <1>34, <1>35
<1>37. GET_C_IMM_CSS(w) = m
    BY <1>2, <1>8, <1>35, <1>36
<1> QED BY <1>1, <1>37

\* I: imm[11:0].
LEMMA ShortImmediate ==
    ASSUME NEW i,
           i.op = "addi" \/ i.op = "lw" \/ i.op = "jalr",
           i.rd \in 0..31,
           i.rs1 \in 0..31,
           i.imm \in SignedRange(12),
           NEW w \in Instruction,
           w.lo = LowHalf(FieldsOf(i)),
           w.hi = UpperHalf(FieldsOf(i))
    PROVE  GET_IMM_I(w) = i.imm
<1>1. PICK m \in Int : m = i.imm /\ m >= -2048 /\ m < 2048
    BY SMT DEF SignedRange
<1>2. m \in Int
    OBVIOUS
<1>3. /\ Bits(m, 11, 0) = m % 4096
    BY DEF Bits, Bit
<1>4. PICK v0 \in 0..4095 : v0 = m % 4096
    BY <1>2
<1>5. v0 \in 0..4095
    BY <1>4
<1>6. PICK d \in Int : m = v0 + 4096 * d
    <2>1. PICK q12 \in Int : q12 = m \div 4096
        BY <1>2
    <2>2. m = v0 + 4096 * q12
        BY <1>4, SMT, <2>1
    <2>3. m = v0 + 4096 * q12
        BY <2>2
    <2> WITNESS q12 \in Int
    <2> QED BY <2>3
<1>7. PICK op \in 0..127 : op = (IF i.op = "addi" THEN 19 ELSE IF i.op = "lw" THEN 3 ELSE 103)
    OBVIOUS
<1>8. PICK a \in 0..31 : a = i.rd
    OBVIOUS
<1>9. PICK t \in 0..7 : t = (IF i.op = "lw" THEN 2 ELSE 0)
    OBVIOUS
<1>10. PICK b \in 0..31 : b = i.rs1
    OBVIOUS
<1>11. FieldsOf(i) = <<<<op, 0>>, <<a, 7>>, <<t, 12>>, <<b, 15>>, <<Bits(m, 11, 0), 20>>>>
    <2>1. CASE i.op = "addi"
        <3>1. FieldsOf(i) = <<<<19, 0>>, <<i.rd, 7>>, <<ImmCodes.addi, 12>>, <<i.rs1, 15>>,
              <<Bits(m, 11, 0), 20>>>>
            BY <2>1, <1>1, Tables, SMT DEF FieldsOf
        <3>2. ImmCodes.addi = 0
            BY DEF ImmCodes
        <3> QED BY <3>1, <3>2, <2>1, <1>7, <1>8, <1>9, <1>10, SMT
    <2>2. CASE i.op = "lw"
        <3>1. FieldsOf(i) = <<<<3, 0>>, <<i.rd, 7>>, <<LoadCodes.lw, 12>>, <<i.rs1, 15>>,
              <<Bits(m, 11, 0), 20>>>>
            BY <2>2, <1>1, Tables, SMT DEF FieldsOf
        <3>2. LoadCodes.lw = 2
            BY DEF LoadCodes
        <3> QED BY <3>1, <3>2, <2>2, <1>7, <1>8, <1>9, <1>10, SMT
    <2>3. CASE i.op = "jalr"
        <3>1. FieldsOf(i) = <<<<103, 0>>, <<i.rd, 7>>, <<0, 12>>, <<i.rs1, 15>>,
              <<Bits(m, 11, 0), 20>>>>
            BY <2>3, <1>1, Tables, SMT DEF FieldsOf
        <3> QED BY <3>1, <2>3, <1>7, <1>8, <1>9, <1>10, SMT
    <2> QED BY <2>1, <2>2, <2>3
<1> DEFINE f == <<<<op, 0>>, <<a, 7>>, <<t, 12>>, <<b, 15>>, <<v0, 20>>>>
<1>12. FieldsOf(i) = f
    BY <1>3, <1>4, <1>11
<1>13. f \in Seq(Nat \X Nat) /\ Len(f) = 5
    OBVIOUS
<1>14. f[1] = <<op, 0>> /\ f[2] = <<a, 7>> /\ f[3] = <<t, 12>> /\ f[4] = <<b, 15>>
      /\ f[5] = <<v0, 20>>
    OBVIOUS
<1> HIDE DEF f
<1>15. Low(<<op, 0>>) = op /\ High(<<op, 0>>) = 0
    BY DEF Low, High
<1>16. Low(<<a, 7>>) = 128 * a /\ High(<<a, 7>>) = 0
    BY DEF Low, High
<1>17. Low(<<t, 12>>) = 4096 * t /\ High(<<t, 12>>) = 0
    BY DEF Low, High
<1>18. Low(<<b, 15>>) = 32768 * (b % 2) /\ High(<<b, 15>>) = b \div 2
    BY DEF Low, High
<1>19. Low(<<v0, 20>>) = 0 /\ High(<<v0, 20>>) = 16 * v0
    BY DEF Low, High
<1>20. /\ LowHalf(f) = Low(<<op, 0>>) + Low(<<a, 7>>) + Low(<<t, 12>>) + Low(<<b, 15>>)
            + Low(<<v0, 20>>)
      /\ UpperHalf(f) = High(<<op, 0>>) + High(<<a, 7>>) + High(<<t, 12>>) + High(<<b, 15>>)
           + High(<<v0, 20>>)
    <2>1. SumsOfFields(f)
        BY <1>13, FieldSums
    <2>2. LowHalf(f) = Low(f[1]) + Low(f[2]) + Low(f[3]) + Low(f[4]) + Low(f[5])
        BY <1>13, <2>1, SMT DEF SumsOfFields
    <2>3. UpperHalf(f) = High(f[1]) + High(f[2]) + High(f[3]) + High(f[4]) + High(f[5])
        BY <1>13, <2>1, SMT DEF SumsOfFields
    <2> QED BY <2>2, <2>3, <1>14
<1>21. PICK lo \in Nat, hi \in Nat : w.lo = lo /\ w.hi = hi
    BY HalfWords
<1>22. lo = op + 128 * a + 4096 * t + 32768 * (b % 2) /\ hi = (b \div 2) + 16 * v0
    BY <1>12, <1>15, <1>16, <1>17, <1>18, <1>19, <1>20, <1>21
<1>23. get_instr_piece(w, 20, 12) = (hi \div 16) % 4096
    BY <1>21 DEF get_instr_piece
<1>24. PICK bl \in 0..1, bh \in 0..15 : bl = b % 2 /\ bh = b \div 2 /\ b = bl + 2 * bh
    OBVIOUS
<1>25. lo = op + 128 * a + 4096 * t + 32768 * bl /\ hi = bh + 16 * v0
    BY <1>22, <1>24
<1>26. get_instr_piece(w, 20, 12) = v0
    <2>1. hi \div 16 = v0
        BY <1>25
    <2>2. v0 % 4096 = v0
        BY <1>5, SMT
    <2> QED BY <2>1, <2>2, <1>23, SMT
<1>27. PICK u \in Int : u = v0
    OBVIOUS
<1>28. GET_IMM_I(w) = sext(u, 12)
    BY <1>26, <1>27 DEF GET_IMM_I
<1>29. GET_IMM_I(w) = IF u >= 2048 THEN u - 4096 ELSE u
    BY <1>28, <1>27, SMT DEF sext
<1>30. u >= 0 /\ u < 4096 /\ m = u + 4096 * d
    BY <1>6, <1>27, <1>5, SMT
<1>31. d = 0 \/ d = -1
    BY <1>1, <1>30, SMT
<1> QED BY <1>1, <1>30, <1>29, <1>31, SMT

\* S: imm[11:5] and imm[4:0].
LEMMA StoreImmediate ==
    ASSUME NEW i,
           i.op = "sw",
           i.rs1 \in 0..31,
           i.rs2 \in 0..31,
           i.imm \in SignedRange(12),
           NEW w \in Instruction,
           w.lo = LowHalf(FieldsOf(i)),
           w.hi = UpperHalf(FieldsOf(i))
    PROVE  GET_IMM_S(w) = i.imm
<1>1. PICK m \in Int : m = i.imm /\ m >= -2048 /\ m < 2048
    BY SMT DEF SignedRange
<1>2. m \in Int
    OBVIOUS
<1>3. /\ Bits(m, 4, 0) = m % 32
      /\ Bits(m, 11, 5) = (m \div 32) % 128
    BY DEF Bits, Bit
<1>4. PICK v0 \in 0..31 : v0 = m % 32
    BY <1>2
<1>5. PICK v5 \in 0..127 : v5 = (m \div 32) % 128
    BY <1>2
<1>6. v0 \in 0..31 /\ v5 \in 0..127
    BY <1>4, <1>5
<1>7. PICK d \in Int : m = v0 + 32 * v5 + 4096 * d
    <2>1. PICK q5 \in Int, q12 \in Int : q5 = m \div 32 /\ q12 = m \div 4096
        BY <1>2
    <2>2. m = v0 + 32 * q5
        BY <1>4, SMT, <2>1
    <2>3. q5 = v5 + 128 * q12
        BY <1>5, SMT, <2>1
    <2>4. m = v0 + 32 * v5 + 4096 * q12
        BY <2>2, <2>3
    <2> WITNESS q12 \in Int
    <2> QED BY <2>4
<1>8. PICK b \in 0..31 : b = i.rs1
    OBVIOUS
<1>9. PICK c \in 0..31 : c = i.rs2
    OBVIOUS
<1>10. FieldsOf(i) = <<<<35, 0>>, <<Bits(m, 4, 0), 7>>, <<2, 12>>, <<b, 15>>, <<c, 20>>,
      <<Bits(m, 11, 5), 25>>>>
    <2>1. FieldsOf(i) = <<<<35, 0>>, <<Bits(m, 4, 0), 7>>, <<StoreCodes.sw, 12>>,
          <<i.rs1, 15>>, <<i.rs2, 20>>, <<Bits(m, 11, 5), 25>>>>
        BY <1>1, Tables, SMT DEF FieldsOf
    <2>2. StoreCodes.sw = 2
        BY DEF StoreCodes
    <2> QED BY <2>1, <2>2, <1>8, <1>9, SMT
<1> DEFINE f == <<<<35, 0>>, <<v0, 7>>, <<2, 12>>, <<b, 15>>, <<c, 20>>, <<v5, 25>>>>
<1>11. FieldsOf(i) = f
    BY <1>3, <1>4, <1>5, <1>10
<1>12. f \in Seq(Nat \X Nat) /\ Len(f) = 6
    OBVIOUS
<1>13. f[1] = <<35, 0>> /\ f[2] = <<v0, 7>> /\ f[3] = <<2, 12>> /\ f[4] = <<b, 15>>
      /\ f[5] = <<c, 20>> /\ f[6] = <<v5, 25>>
    OBVIOUS
<1> HIDE DEF f
<1>14. Low(<<35, 0>>) = 35 /\ High(<<35, 0>>) = 0
    BY DEF Low, High
<1>15. Low(<<v0, 7>>) = 128 * v0 /\ High(<<v0, 7>>) = 0
    BY DEF Low, High
<1>16. Low(<<2, 12>>) = 8192 /\ High(<<2, 12>>) = 0
    BY DEF Low, High
<1>17. Low(<<b, 15>>) = 32768 * (b % 2) /\ High(<<b, 15>>) = b \div 2
    BY DEF Low, High
<1>18. Low(<<c, 20>>) = 0 /\ High(<<c, 20>>) = 16 * c
    BY DEF Low, High
<1>19. Low(<<v5, 25>>) = 0 /\ High(<<v5, 25>>) = 512 * v5
    BY DEF Low, High
<1>20. /\ LowHalf(f) = Low(<<35, 0>>) + Low(<<v0, 7>>) + Low(<<2, 12>>) + Low(<<b, 15>>)
            + Low(<<c, 20>>) + Low(<<v5, 25>>)
      /\ UpperHalf(f) = High(<<35, 0>>) + High(<<v0, 7>>) + High(<<2, 12>>) + High(<<b, 15>>)
           + High(<<c, 20>>) + High(<<v5, 25>>)
    <2>1. SumsOfFields(f)
        BY <1>12, FieldSums
    <2>2. LowHalf(f) = Low(f[1]) + Low(f[2]) + Low(f[3]) + Low(f[4]) + Low(f[5]) + Low(f[6])
        BY <1>12, <2>1, SMT DEF SumsOfFields
    <2>3. UpperHalf(f) = High(f[1]) + High(f[2]) + High(f[3]) + High(f[4]) + High(f[5])
          + High(f[6])
        BY <1>12, <2>1, SMT DEF SumsOfFields
    <2> QED BY <2>2, <2>3, <1>13
<1>21. PICK lo \in Nat, hi \in Nat : w.lo = lo /\ w.hi = hi
    BY HalfWords
<1>22. lo = 35 + 128 * v0 + 8192 + 32768 * (b % 2) /\ hi = (b \div 2) + 16 * c + 512 * v5
    BY <1>11, <1>14, <1>15, <1>16, <1>17, <1>18, <1>19, <1>20, <1>21
<1>23. get_instr_piece(w, 7, 5) = (lo \div 128) % 32
    <2>1. Bits(lo, 11, 7) = (lo \div 128) % 32
        BY DEF Bits
    <2> QED BY <1>21, <2>1, LowPiece
<1>24. get_instr_piece(w, 25, 7) = (hi \div 512) % 128
    BY <1>21 DEF get_instr_piece
<1>25. PICK bl \in 0..1, bh \in 0..15 : bl = b % 2 /\ bh = b \div 2 /\ b = bl + 2 * bh
    OBVIOUS
<1>26. lo = 35 + 128 * v0 + 8192 + 32768 * bl /\ hi = bh + 16 * c + 512 * v5
    BY <1>22, <1>25
<1>27. get_instr_piece(w, 7, 5) = v0
    <2>1. lo \div 128 = v0 + 64 + 256 * bl
        BY <1>26
    <2> QED BY <2>1, <1>23, SMT
<1>28. get_instr_piece(w, 25, 7) = v5
    <2>1. hi \div 512 = v5
        BY <1>26
    <2>2. v5 % 128 = v5
        BY <1>6, SMT
    <2> QED BY <2>1, <2>2, <1>24, SMT
<1>29. PICK u \in Int : u = v0 + 32 * v5
    OBVIOUS
<1>30. GET_IMM_S(w) = sext(u, 12)
    BY <1>27, <1>28, <1>29 DEF GET_IMM_S
<1>31. GET_IMM_S(w) = IF u >= 2048 THEN u - 4096 ELSE u
    BY <1>30, <1>29, SMT DEF sext
<1>32. u >= 0 /\ u < 4096 /\ m = u + 4096 * d
    BY <1>7, <1>29, <1>6, SMT
<1>33. d = 0 \/ d = -1
    BY <1>1, <1>32, SMT
<1> QED BY <1>1, <1>32, <1>31, <1>33, SMT

\* B: imm[12|10:5] and imm[4:1|11].
LEMMA BranchImmediate ==
    ASSUME NEW i,
           i.op = "beq",
           i.rs1 \in 0..31,
           i.rs2 \in 0..31,
           i.imm \in SignedRange(13),
           Aligned(i.imm, 2),
           NEW w \in Instruction,
           w.lo = LowHalf(FieldsOf(i)),
           w.hi = UpperHalf(FieldsOf(i))
    PROVE  GET_IMM_B(w) = i.imm
<1>1. PICK m \in Int : m = i.imm /\ m >= -4096 /\ m < 4096 /\ m % 2 = 0
    BY SMT DEF SignedRange, Aligned
<1>2. m \in Int
    OBVIOUS
<1>3. /\ Bits(m, 4, 1) = (m \div 2) % 16
      /\ Bits(m, 10, 5) = (m \div 32) % 64
      /\ Bit(m, 11) = (m \div 2048) % 2
      /\ Bit(m, 12) = (m \div 4096) % 2
    BY DEF Bits, Bit
<1>4. PICK v1 \in 0..15 : v1 = (m \div 2) % 16
    BY <1>2
<1>5. PICK v5 \in 0..63 : v5 = (m \div 32) % 64
    BY <1>2
<1>6. PICK v11 \in 0..1 : v11 = (m \div 2048) % 2
    BY <1>2
<1>7. PICK v12 \in 0..1 : v12 = (m \div 4096) % 2
    BY <1>2
<1>8. v1 \in 0..15 /\ v5 \in 0..63 /\ v11 \in 0..1 /\ v12 \in 0..1
    BY <1>4, <1>5, <1>6, <1>7
<1>9. PICK d \in Int : m = 2 * v1 + 32 * v5 + 2048 * v11 + 4096 * v12 + 8192 * d
    <2>1. PICK q1 \in Int, q5 \in Int, q11 \in Int, q12 \in Int, q13 \in Int : q1 = m \div 2
          /\ q5 = m \div 32 /\ q11 = m \div 2048 /\ q12 = m \div 4096 /\ q13 = m \div 8192
        BY <1>2
    <2>2. q1 = v1 + 16 * q5
        BY <1>4, SMT, <2>1
    <2>3. q5 = v5 + 64 * q11
        BY <1>5, SMT, <2>1
    <2>4. q11 = v11 + 2 * q12
        BY <1>6, SMT, <2>1
    <2>5. q12 = v12 + 2 * q13
        BY <1>7, SMT, <2>1
    <2>6. m = 2 * (m \div 2)
        BY <1>1, SMT
    <2>7. m = 2 * q1
        BY <2>1, <2>6, SMT
    <2>8. m = 2 * v1 + 32 * v5 + 2048 * v11 + 4096 * v12 + 8192 * q13
        BY <2>2, <2>3, <2>4, <2>5, <2>7
    <2> WITNESS q13 \in Int
    <2> QED BY <2>8
<1>10. PICK b \in 0..31 : b = i.rs1
    OBVIOUS
<1>11. PICK c \in 0..31 : c = i.rs2
    OBVIOUS
<1>12. FieldsOf(i) = <<<<99, 0>>, <<Bit(m, 11), 7>>, <<Bits(m, 4, 1), 8>>, <<0, 12>>,
      <<b, 15>>, <<c, 20>>, <<Bits(m, 10, 5), 25>>, <<Bit(m, 12), 31>>>>
    <2>1. FieldsOf(i) = <<<<99, 0>>, <<Bit(m, 11), 7>>, <<Bits(m, 4, 1), 8>>,
          <<BranchCodes.beq, 12>>, <<i.rs1, 15>>, <<i.rs2, 20>>, <<Bits(m, 10, 5), 25>>,
          <<Bit(m, 12), 31>>>>
        BY <1>1, Tables, SMT DEF FieldsOf
    <2>2. BranchCodes.beq = 0
        BY DEF BranchCodes
    <2> QED BY <2>1, <2>2, <1>10, <1>11, SMT
<1> DEFINE f == <<<<99, 0>>, <<v11, 7>>, <<v1, 8>>, <<0, 12>>, <<b, 15>>, <<c, 20>>,
      <<v5, 25>>, <<v12, 31>>>>
<1>13. FieldsOf(i) = f
    BY <1>3, <1>4, <1>5, <1>6, <1>7, <1>12
<1>14. f \in Seq(Nat \X Nat) /\ Len(f) = 8
    OBVIOUS
<1>15. f[1] = <<99, 0>> /\ f[2] = <<v11, 7>> /\ f[3] = <<v1, 8>> /\ f[4] = <<0, 12>>
      /\ f[5] = <<b, 15>> /\ f[6] = <<c, 20>> /\ f[7] = <<v5, 25>> /\ f[8] = <<v12, 31>>
    OBVIOUS
<1> HIDE DEF f
<1>16. Low(<<99, 0>>) = 99 /\ High(<<99, 0>>) = 0
    BY DEF Low, High
<1>17. Low(<<v11, 7>>) = 128 * v11 /\ High(<<v11, 7>>) = 0
    BY DEF Low, High
<1>18. Low(<<v1, 8>>) = 256 * v1 /\ High(<<v1, 8>>) = 0
    BY DEF Low, High
<1>19. Low(<<0, 12>>) = 0 /\ High(<<0, 12>>) = 0
    BY DEF Low, High
<1>20. Low(<<b, 15>>) = 32768 * (b % 2) /\ High(<<b, 15>>) = b \div 2
    BY DEF Low, High
<1>21. Low(<<c, 20>>) = 0 /\ High(<<c, 20>>) = 16 * c
    BY DEF Low, High
<1>22. Low(<<v5, 25>>) = 0 /\ High(<<v5, 25>>) = 512 * v5
    BY DEF Low, High
<1>23. Low(<<v12, 31>>) = 0 /\ High(<<v12, 31>>) = 32768 * v12
    BY DEF Low, High
<1>24. /\ LowHalf(f) = Low(<<99, 0>>) + Low(<<v11, 7>>) + Low(<<v1, 8>>) + Low(<<0, 12>>)
            + Low(<<b, 15>>) + Low(<<c, 20>>) + Low(<<v5, 25>>) + Low(<<v12, 31>>)
      /\ UpperHalf(f) = High(<<99, 0>>) + High(<<v11, 7>>) + High(<<v1, 8>>) + High(<<0, 12>>)
           + High(<<b, 15>>) + High(<<c, 20>>) + High(<<v5, 25>>) + High(<<v12, 31>>)
    <2>1. SumsOfFields(f)
        BY <1>14, FieldSums
    <2>2. LowHalf(f) = Low(f[1]) + Low(f[2]) + Low(f[3]) + Low(f[4]) + Low(f[5]) + Low(f[6])
          + Low(f[7]) + Low(f[8])
        BY <1>14, <2>1, SMT DEF SumsOfFields
    <2>3. UpperHalf(f) = High(f[1]) + High(f[2]) + High(f[3]) + High(f[4]) + High(f[5])
          + High(f[6]) + High(f[7]) + High(f[8])
        BY <1>14, <2>1, SMT DEF SumsOfFields
    <2> QED BY <2>2, <2>3, <1>15
<1>25. PICK lo \in Nat, hi \in Nat : w.lo = lo /\ w.hi = hi
    BY HalfWords
<1>26. lo = 99 + 128 * v11 + 256 * v1 + 32768 * (b % 2)
      /\ hi = (b \div 2) + 16 * c + 512 * v5 + 32768 * v12
    BY <1>13, <1>16, <1>17, <1>18, <1>19, <1>20, <1>21, <1>22, <1>23, <1>24, <1>25
<1>27. get_instr_piece(w, 8, 4) = (lo \div 256) % 16
    <2>1. Bits(lo, 11, 8) = (lo \div 256) % 16
        BY DEF Bits
    <2> QED BY <1>25, <2>1, LowPiece
<1>28. get_instr_piece(w, 25, 6) = (hi \div 512) % 64
    BY <1>25 DEF get_instr_piece
<1>29. get_instr_piece(w, 7, 1) = (lo \div 128) % 2
    <2>1. Bits(lo, 7, 7) = (lo \div 128) % 2
        BY DEF Bits
    <2> QED BY <1>25, <2>1, LowPiece
<1>30. get_instr_piece(w, 31, 1) = (hi \div 32768) % 2
    BY <1>25 DEF get_instr_piece
<1>31. PICK bl \in 0..1, bh \in 0..15 : bl = b % 2 /\ bh = b \div 2 /\ b = bl + 2 * bh
    OBVIOUS
<1>32. lo = 99 + 128 * v11 + 256 * v1 + 32768 * bl
      /\ hi = bh + 16 * c + 512 * v5 + 32768 * v12
    BY <1>26, <1>31
<1>33. get_instr_piece(w, 8, 4) = v1
    <2>1. lo \div 256 = v1 + 128 * bl
        BY <1>32
    <2> QED BY <2>1, <1>27, SMT
<1>34. get_instr_piece(w, 25, 6) = v5
    <2>1. hi \div 512 = v5 + 64 * v12
        BY <1>32
    <2> QED BY <2>1, <1>28, SMT
<1>35. get_instr_piece(w, 7, 1) = v11
    <2>1. lo \div 128 = v11 + 2 * v1 + 256 * bl
        BY <1>32
    <2> QED BY <2>1, <1>29, SMT
<1>36. get_instr_piece(w, 31, 1) = v12
    <2>1. hi \div 32768 = v12
        BY <1>32
    <2>2. v12 % 2 = v12
        BY <1>8, SMT
    <2> QED BY <2>1, <2>2, <1>30, SMT
<1>37. PICK u \in Int : u = 2 * v1 + 32 * v5 + 2048 * v11 + 4096 * v12
    OBVIOUS
<1>38. GET_IMM_B(w) = sext(u, 13)
    BY <1>33, <1>34, <1>35, <1>36, <1>37 DEF GET_IMM_B
<1>39. GET_IMM_B(w) = IF u >= 4096 THEN u - 8192 ELSE u
    BY <1>38, <1>37, SMT DEF sext
<1>40. u >= 0 /\ u < 8192 /\ m = u + 8192 * d
    BY <1>9, <1>37, <1>8, SMT
<1>41. d = 0 \/ d = -1
    BY <1>1, <1>40, SMT
<1> QED BY <1>1, <1>40, <1>39, <1>41, SMT

\* J: imm[20|10:1|11|19:12].
LEMMA LongJumpImmediate ==
    ASSUME NEW i,
           i.op = "jal",
           i.rd \in 0..31,
           i.imm \in SignedRange(21),
           Aligned(i.imm, 2),
           NEW w \in Instruction,
           w.lo = LowHalf(FieldsOf(i)),
           w.hi = UpperHalf(FieldsOf(i))
    PROVE  GET_IMM_J(w) = i.imm
<1>1. PICK m \in Int : m = i.imm /\ m >= -1048576 /\ m < 1048576 /\ m % 2 = 0
    BY SMT DEF SignedRange, Aligned
<1>2. m \in Int
    OBVIOUS
<1>3. /\ Bits(m, 10, 1) = (m \div 2) % 1024
      /\ Bit(m, 11) = (m \div 2048) % 2
      /\ Bits(m, 19, 12) = (m \div 4096) % 256
      /\ Bit(m, 20) = (m \div 1048576) % 2
    BY DEF Bits, Bit
<1>4. PICK v1 \in 0..1023 : v1 = (m \div 2) % 1024
    BY <1>2
<1>5. PICK v11 \in 0..1 : v11 = (m \div 2048) % 2
    BY <1>2
<1>6. PICK v12 \in 0..255 : v12 = (m \div 4096) % 256
    BY <1>2
<1>7. PICK v20 \in 0..1 : v20 = (m \div 1048576) % 2
    BY <1>2
<1>8. v1 \in 0..1023 /\ v11 \in 0..1 /\ v12 \in 0..255 /\ v20 \in 0..1
    BY <1>4, <1>5, <1>6, <1>7
<1>9. PICK d \in Int : m = 2 * v1 + 2048 * v11 + 4096 * v12 + 1048576 * v20 + 2097152 * d
    <2>1. PICK q1 \in Int, q11 \in Int, q12 \in Int, q20 \in Int, q21 \in Int : q1 = m \div 2
          /\ q11 = m \div 2048 /\ q12 = m \div 4096 /\ q20 = m \div 1048576
          /\ q21 = m \div 2097152
        BY <1>2
    <2>2. (m \div 2) \div 1024 = m \div 2048
        BY <1>2, SMT
    <2>3. q1 = v1 + 1024 * q11
        BY <1>4, <2>2, SMT, <2>1
    <2>4. (m \div 2048) \div 2 = m \div 4096
        BY <1>2, SMT
    <2>5. q11 = v11 + 2 * q12
        BY <1>5, <2>4, SMT, <2>1
    <2>6. (m \div 4096) \div 256 = m \div 1048576
        BY <1>2, SMT
    <2>7. q12 = v12 + 256 * q20
        BY <1>6, <2>6, SMT, <2>1
    <2>8. (m \div 1048576) \div 2 = m \div 2097152
        BY <1>2, SMT
    <2>9. q20 = v20 + 2 * q21
        BY <1>7, <2>8, SMT, <2>1
    <2>10. m = 2 * (m \div 2)
        BY <1>1, SMT
    <2>11. m = 2 * q1
        BY <2>1, <2>10, SMT
    <2>12. m = 2 * v1 + 2048 * v11 + 4096 * v12 + 1048576 * v20 + 2097152 * q21
        BY <2>3, <2>5, <2>7, <2>9, <2>11
    <2> WITNESS q21 \in Int
    <2> QED BY <2>12
<1>10. PICK a \in 0..31 : a = i.rd
    OBVIOUS
<1>11. FieldsOf(i) = <<<<111, 0>>, <<a, 7>>, <<Bits(m, 19, 12), 12>>, <<Bit(m, 11), 20>>,
      <<Bits(m, 10, 1), 21>>, <<Bit(m, 20), 31>>>>
    <2>1. FieldsOf(i) = <<<<111, 0>>, <<i.rd, 7>>, <<Bits(m, 19, 12), 12>>,
          <<Bit(m, 11), 20>>, <<Bits(m, 10, 1), 21>>, <<Bit(m, 20), 31>>>>
        BY <1>1, Tables, SMT DEF FieldsOf
    <2> QED BY <2>1, <1>10, SMT
<1> DEFINE f == <<<<111, 0>>, <<a, 7>>, <<v12, 12>>, <<v11, 20>>, <<v1, 21>>, <<v20, 31>>>>
<1>12. FieldsOf(i) = f
    BY <1>3, <1>4, <1>5, <1>6, <1>7, <1>11
<1>13. f \in Seq(Nat \X Nat) /\ Len(f) = 6
    OBVIOUS
<1>14. f[1] = <<111, 0>> /\ f[2] = <<a, 7>> /\ f[3] = <<v12, 12>> /\ f[4] = <<v11, 20>>
      /\ f[5] = <<v1, 21>> /\ f[6] = <<v20, 31>>
    OBVIOUS
<1> HIDE DEF f
<1>15. Low(<<111, 0>>) = 111 /\ High(<<111, 0>>) = 0
    BY DEF Low, High
<1>16. Low(<<a, 7>>) = 128 * a /\ High(<<a, 7>>) = 0
    BY DEF Low, High
<1>17. Low(<<v12, 12>>) = 4096 * (v12 % 16) /\ High(<<v12, 12>>) = v12 \div 16
    BY DEF Low, High
<1>18. Low(<<v11, 20>>) = 0 /\ High(<<v11, 20>>) = 16 * v11
    BY DEF Low, High
<1>19. Low(<<v1, 21>>) = 0 /\ High(<<v1, 21>>) = 32 * v1
    BY DEF Low, High
<1>20. Low(<<v20, 31>>) = 0 /\ High(<<v20, 31>>) = 32768 * v20
    BY DEF Low, High
<1>21. /\ LowHalf(f) = Low(<<111, 0>>) + Low(<<a, 7>>) + Low(<<v12, 12>>) + Low(<<v11, 20>>)
            + Low(<<v1, 21>>) + Low(<<v20, 31>>)
      /\ UpperHalf(f) = High(<<111, 0>>) + High(<<a, 7>>) + High(<<v12, 12>>)
           + High(<<v11, 20>>) + High(<<v1, 21>>) + High(<<v20, 31>>)
    <2>1. SumsOfFields(f)
        BY <1>13, FieldSums
    <2>2. LowHalf(f) = Low(f[1]) + Low(f[2]) + Low(f[3]) + Low(f[4]) + Low(f[5]) + Low(f[6])
        BY <1>13, <2>1, SMT DEF SumsOfFields
    <2>3. UpperHalf(f) = High(f[1]) + High(f[2]) + High(f[3]) + High(f[4]) + High(f[5])
          + High(f[6])
        BY <1>13, <2>1, SMT DEF SumsOfFields
    <2> QED BY <2>2, <2>3, <1>14
<1>22. PICK lo \in Nat, hi \in Nat : w.lo = lo /\ w.hi = hi
    BY HalfWords
<1>23. lo = 111 + 128 * a + 4096 * (v12 % 16)
      /\ hi = (v12 \div 16) + 16 * v11 + 32 * v1 + 32768 * v20
    BY <1>12, <1>15, <1>16, <1>17, <1>18, <1>19, <1>20, <1>21, <1>22
<1>24. get_instr_piece(w, 21, 10) = (hi \div 32) % 1024
    BY <1>22 DEF get_instr_piece
<1>25. get_instr_piece(w, 20, 1) = (hi \div 16) % 2
    BY <1>22 DEF get_instr_piece
<1>26. get_instr_piece(w, 12, 8) = (lo \div 4096 + (hi % 256) * 16) % 256
    BY <1>22 DEF get_instr_piece
<1>27. get_instr_piece(w, 31, 1) = (hi \div 32768) % 2
    BY <1>22 DEF get_instr_piece
<1>28. PICK v12l \in 0..15, v12h \in 0..15 : v12l = v12 % 16 /\ v12h = v12 \div 16
      /\ v12 = v12l + 16 * v12h
    OBVIOUS
<1>29. lo = 111 + 128 * a + 4096 * v12l /\ hi = v12h + 16 * v11 + 32 * v1 + 32768 * v20
    BY <1>23, <1>28
<1>30. get_instr_piece(w, 21, 10) = v1
    <2>1. hi \div 32 = v1 + 1024 * v20
        BY <1>29
    <2> QED BY <2>1, <1>24, SMT
<1>31. get_instr_piece(w, 20, 1) = v11
    <2>1. hi \div 16 = v11 + 2 * v1 + 2048 * v20
        BY <1>29
    <2> QED BY <2>1, <1>25, SMT
<1>32. get_instr_piece(w, 12, 8) = v12
    <2>1. lo \div 4096 = v12l
        BY <1>29
    <2>2. hi % 16 = v12h
        BY <1>29, SMT
    <2>3. (hi % 256) % 16 = hi % 16
        BY <1>22, SMT
    <2>4. PICK e \in Int : hi % 256 = v12h + 16 * e
        <3>1. PICK y \in Nat : y = hi % 256
            BY <1>22, SMT
        <3>2. y = v12h + 16 * (y \div 16)
            BY <2>2, <2>3, <3>1, SMT
        <3> QED BY <3>1, <3>2, SMT
    <2> QED BY <1>26, <2>1, <2>4, <1>28, SMT
<1>33. get_instr_piece(w, 31, 1) = v20
    <2>1. hi \div 32768 = v20
        BY <1>29
    <2>2. v20 % 2 = v20
        BY <1>8, SMT
    <2> QED BY <2>1, <2>2, <1>27, SMT
<1>34. PICK u \in Int : u = 2 * v1 + 2048 * v11 + 4096 * v12 + 1048576 * v20
    OBVIOUS
<1>35. GET_IMM_J(w) = sext(u, 21)
    BY <1>30, <1>31, <1>32, <1>33, <1>34 DEF GET_IMM_J
<1>36. GET_IMM_J(w) = IF u >= 1048576 THEN u - 2097152 ELSE u
    BY <1>35, <1>34, SMT DEF sext
<1>37. u >= 0 /\ u < 2097152 /\ m = u + 2097152 * d
    BY <1>9, <1>34, <1>8, SMT
<1>38. d = 0 \/ d = -1
    BY <1>1, <1>37, SMT
<1>39. d = 0 => GET_IMM_J(w) = m
    BY <1>1, <1>37, <1>34, <1>36, SMT
<1>40. d = -1 => GET_IMM_J(w) = m
    BY <1>1, <1>37, <1>34, <1>36, SMT
<1> QED BY <1>1, <1>38, <1>39, <1>40, SMT

-----------------------------------------------------------------------------
(* Every immediate survives *)

\* What the lemmas above need of one instruction of the program: its registers
\* exist, and its half words are the sums of its fields.
LEMMA Operands ==
    ASSUME NEW i, Encodable(i), i.word = Assemble(i)
    PROVE  /\ i.rd \in 0..31 /\ i.rs1 \in 0..31 /\ i.rs2 \in 0..31
           /\ i.form = "" =>
                i.word.lo = LowHalf(FieldsOf(i)) /\ i.word.hi = UpperHalf(FieldsOf(i))
           /\ i.form # "" => i.word.lo = LowHalf(CFieldsOf(i))
<1>1. i.rd \in 0..31 /\ i.rs1 \in 0..31 /\ i.rs2 \in 0..31
    <2>1. {i.rd, i.rs1, i.rs2} \subseteq 0..31
        BY Zenon DEF Encodable
    <2> QED BY <2>1
<1>2. CASE i.form = ""
    <2>1. Assemble(i) = [lo |-> LowHalf(FieldsOf(i)), hi |-> UpperHalf(FieldsOf(i))]
        BY <1>2, Zenon DEF Assemble
    <2>2. i.word.lo = LowHalf(FieldsOf(i)) /\ i.word.hi = UpperHalf(FieldsOf(i))
        BY <2>1
    <2> QED BY <1>1, <1>2, <2>2, Zenon
<1>3. CASE i.form # ""
    <2>1. Assemble(i) = [lo |-> LowHalf(CFieldsOf(i)), hi |-> Behind]
        BY <1>3, Zenon DEF Assemble
    <2>2. i.word.lo = LowHalf(CFieldsOf(i))
        BY <2>1, SMT
    <2> QED BY <1>1, <1>3, <2>2, Zenon
<1> QED BY <1>2, <1>3

\* The formats of 32 bits: I, S, B and J.
LEMMA LongImmediates ==
    ASSUME NEW i, Encodable(i), i.word = Assemble(i), i.word \in Instruction, i.form = ""
    PROVE  DecodedImmediate(i) = i.imm
<1> DEFINE w == i.word
<1>1. /\ i.rd \in 0..31 /\ i.rs1 \in 0..31 /\ i.rs2 \in 0..31
      /\ w.lo = LowHalf(FieldsOf(i)) /\ w.hi = UpperHalf(FieldsOf(i))
    BY Operands
<1>2. CASE i.op = "addi" \/ i.op = "lw" \/ i.op = "jalr"
    <2>1. i.imm \in SignedRange(12)
        BY <1>2, Tables, Zenon DEF Encodable
    <2>2. GET_IMM_I(w) = i.imm
        BY <1>1, <1>2, <2>1, ShortImmediate, Zenon
    <2> QED BY <1>2, <2>2 DEF DecodedImmediate
<1>3. CASE i.op = "sw"
    <2>1. i.imm \in SignedRange(12)
        BY <1>3, Tables, Zenon DEF Encodable
    <2>2. GET_IMM_S(w) = i.imm
        BY <1>1, <1>3, <2>1, StoreImmediate, Zenon
    <2> QED BY <1>3, <2>2 DEF DecodedImmediate
<1>4. CASE i.op = "beq"
    <2>1. i.imm \in SignedRange(13) /\ Aligned(i.imm, 2)
        BY <1>4, Tables, Zenon DEF Encodable
    <2>2. GET_IMM_B(w) = i.imm
        BY <1>1, <1>4, <2>1, BranchImmediate, Zenon
    <2> QED BY <1>4, <2>2 DEF DecodedImmediate
<1>5. CASE i.op = "jal"
    <2>1. i.imm \in SignedRange(21) /\ Aligned(i.imm, 2)
        BY <1>5, Tables, Zenon DEF Encodable
    <2>2. GET_IMM_J(w) = i.imm
        BY <1>1, <1>5, <2>1, LongJumpImmediate, Zenon
    <2> QED BY <1>5, <2>2 DEF DecodedImmediate
<1>6. CASE i.op \notin {"addi", "lw", "jalr", "sw", "beq", "jal"}
    BY <1>6 DEF DecodedImmediate
<1> QED BY <1>2, <1>3, <1>4, <1>5, <1>6

\* The compressed formats.
LEMMA ShortImmediates ==
    ASSUME NEW i, Encodable(i), i.word = Assemble(i), i.word \in Instruction, i.form # ""
    PROVE  DecodedImmediate(i) = i.imm
<1> DEFINE w == i.word
<1>1. /\ i.rd \in 0..31 /\ i.rs1 \in 0..31 /\ i.rs2 \in 0..31
      /\ w.lo = LowHalf(CFieldsOf(i))
    BY Operands
<1>2. CASE i.form = "c.addi4spn"
    <2>1. i.imm \in Unsigned(10) /\ Aligned(i.imm, 4) /\ i.rd \in 8..15
        BY <1>2, Zenon DEF Encodable
    <2>2. GET_C_IMM_CIW(w) = i.imm
        BY <1>1, <1>2, <2>1, AddSp4Immediate, Zenon
    <2> QED BY <1>2, <2>2 DEF DecodedImmediate
<1>3. CASE i.form = "c.lw"
    <2>1. i.imm \in Unsigned(7) /\ Aligned(i.imm, 4) /\ i.rs1 \in 8..15 /\ i.rd \in 8..15
        BY <1>3, Zenon DEF Encodable
    <2>2. GET_C_IMM_CS(w) = i.imm
        BY <1>1, <1>3, <2>1, AccessImmediate, Zenon
    <2> QED BY <1>3, <2>2 DEF DecodedImmediate
<1>4. CASE i.form = "c.sw"
    <2>1. i.imm \in Unsigned(7) /\ Aligned(i.imm, 4) /\ i.rs1 \in 8..15 /\ i.rs2 \in 8..15
        BY <1>4, Zenon DEF Encodable
    <2>2. GET_C_IMM_CS(w) = i.imm
        BY <1>1, <1>4, <2>1, AccessImmediate, Zenon
    <2> QED BY <1>4, <2>2 DEF DecodedImmediate
<1>5. CASE i.form = "c.jal" \/ i.form = "c.j"
    <2>1. i.imm \in SignedRange(12) /\ Aligned(i.imm, 2)
        BY <1>5, Zenon DEF Encodable
    <2>2. GET_C_IMM_CJ(w) = i.imm
        BY <1>1, <1>5, <2>1, JumpImmediate, Zenon
    <2> QED BY <1>5, <2>2 DEF DecodedImmediate
<1>6. CASE i.form = "c.addi" \/ i.form = "c.li" \/ i.form = "c.lui"
    <2>1. i.imm \in SignedRange(6)
        BY <1>6, Zenon DEF Encodable
    <2>2. GET_C_IMM_CB(w) = i.imm
        BY <1>1, <1>6, <2>1, SmallImmediate, Zenon
    <2> QED BY <1>6, <2>2 DEF DecodedImmediate
<1>7. CASE i.form = "c.andi"
    <2>1. i.imm \in SignedRange(6) /\ i.rd \in 8..15
        BY <1>7, Zenon DEF Encodable
    <2>2. GET_C_IMM_CB(w) = i.imm
        BY <1>1, <1>7, <2>1, AndImmImmediate, Zenon
    <2> QED BY <1>7, <2>2 DEF DecodedImmediate
<1>8. CASE i.form = "c.addi16sp"
    <2>1. i.imm \in SignedRange(10) /\ Aligned(i.imm, 16)
        BY <1>8, Zenon DEF Encodable
    <2>2. GET_C_IMM_CSP(w) = i.imm
        BY <1>1, <1>8, <2>1, AddSp16Immediate, Zenon
    <2> QED BY <1>8, <2>2 DEF DecodedImmediate
<1>9. CASE i.form = "c.beqz" \/ i.form = "c.bnez"
    <2>1. i.imm \in SignedRange(9) /\ Aligned(i.imm, 2) /\ i.rs1 \in 8..15
        BY <1>9, Zenon DEF Encodable
    <2>2. GET_C_IMM_CBR(w) = i.imm
        BY <1>1, <1>9, <2>1, BranchZeroImmediate, Zenon
    <2> QED BY <1>9, <2>2 DEF DecodedImmediate
<1>10. CASE i.form = "c.lwsp"
    <2>1. i.imm \in Unsigned(8) /\ Aligned(i.imm, 4)
        BY <1>10, Zenon DEF Encodable
    <2>2. GET_C_IMM_CI(w) = i.imm
        BY <1>1, <1>10, <2>1, LoadSpImmediate, Zenon
    <2> QED BY <1>10, <2>2 DEF DecodedImmediate
<1>11. CASE i.form = "c.swsp"
    <2>1. i.imm \in Unsigned(8) /\ Aligned(i.imm, 4)
        BY <1>11, Zenon DEF Encodable
    <2>2. GET_C_IMM_CSS(w) = i.imm
        BY <1>1, <1>11, <2>1, StoreSpImmediate, Zenon
    <2> QED BY <1>11, <2>2 DEF DecodedImmediate
<1>12. CASE i.form = "c.slli"
    <2>1. i.imm \in Unsigned(5)
        BY <1>12, Zenon DEF Encodable
    <2>2. GET_C_IMM_CBU(w) = i.imm
        BY <1>1, <1>12, <2>1, ShiftImmediate, Zenon
    <2> QED BY <1>12, <2>2 DEF DecodedImmediate
<1>13. CASE i.form = "c.srli" \/ i.form = "c.srai"
    <2>1. i.imm \in Unsigned(5) /\ i.rd \in 8..15
        BY <1>13, Zenon DEF Encodable
    <2>2. GET_C_IMM_CBU(w) = i.imm
        BY <1>1, <1>13, <2>1, ShiftRightImmediate, Zenon
    <2> QED BY <1>13, <2>2 DEF DecodedImmediate
<1>14. CASE i.form \notin {"c.addi4spn", "c.lw", "c.sw", "c.jal", "c.j", "c.addi", "c.li",
      "c.lui", "c.andi", "c.addi16sp", "c.beqz", "c.bnez", "c.lwsp", "c.swsp", "c.slli",
      "c.srli", "c.srai"}
    BY <1>14 DEF DecodedImmediate
<1> QED BY <1>2, <1>3, <1>4, <1>5, <1>6, <1>7, <1>8, <1>9, <1>10, <1>11, <1>12, <1>13, <1>14

\* The immediate that each format of the manual takes apart is put together
\* again by the GET_IMM_* and GET_C_IMM_* macros, for every value of the
\* immediate and of the registers that fits the fields, at every bit: the
\* single-bit immediates of a checked program stand for all of them.  The
\* hypothesis says that the program is one an assembler wrote.
THEOREM ImmediatesKept ==
    (\A i \in Program : Encoded(i)) => (Spec => []ImmediatesSurvive)
<1> SUFFICES ASSUME \A i \in Program : Encoded(i)
             PROVE  Spec => []ImmediatesSurvive
    OBVIOUS
<1> DEFINE Fetched == instr \in Program \cup {NoInstr}
<1>1. Init => Fetched
    BY DEF Init
<1>2. Fetched /\ [Next]_vars => Fetched'
    BY DEF Next, rv32_run, vars
<1>3. ASSUME NEW i \in Program
      PROVE  DecodedImmediate(i) = i.imm
    <2>1. i.word \in Instruction
        BY ProgramAssumption
    <2>2. CASE i.op \in {"reserved", "fence", "fence.tso", "fence.i"} /\ i.form \in {"", "c.?"}
        BY <2>2 DEF DecodedImmediate
    <2>3. CASE Encodable(i) /\ i.word = Assemble(i)
        BY <2>1, <2>3, LongImmediates, ShortImmediates
    <2> QED BY <2>2, <2>3 DEF Encoded
<1>4. Fetched => ImmediatesSurvive
    BY <1>3 DEF ImmediatesSurvive
<1> QED BY <1>1, <1>2, <1>4, PTL DEF Spec
=============================================================================
