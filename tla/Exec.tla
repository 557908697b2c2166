-------------------------------- MODULE Exec ---------------------------------
(***************************************************************************)
(* One instruction of the emulated hart: decoding, the integer, multiply,  *)
(* load, store, atomic and compressed instructions (rv32_exec_instr and    *)
(* rv32_exec_compressed_instr, src/src/rv32.c), with every access to memory *)
(* able to fault.  The privileged half of the same functions is Hart.      *)
(*                                                                         *)
(* The MMU is a pair of constants: what it answers to a read and to a      *)
(* write of each address.  Memory is the bytes behind RAM addresses; other  *)
(* addresses that answer are devices, which read as zero and keep nothing. *)
(* A trap goes to TrapVector: which mode takes it is the subject of Hart.  *)
(***************************************************************************)
EXTENDS Alu, Encoding

CONSTANTS
    ReadResult, WriteResult,   \* Word -> MmuResult
    Ram,                       \* addresses that RAM answers
    TrapVector,
    Program,                   \* instructions the guest may execute, assembled
    Starts,                    \* where it may begin: registers, pc and memory
    MaxInstr                   \* bound: instructions of a behaviour

MmuResult == {"MMU_OK", "MMU_ACCESS_FAULT", "MMU_PAGE_FAULT"}

ASSUME MmuAssumption ==
    /\ ReadResult \in [Word -> MmuResult]
    /\ WriteResult \in [Word -> MmuResult]
    /\ Ram \subseteq Word
ASSUME ProgramAssumption == \A i \in Program : i.word \in Instruction
ASSUME StartsAssumption ==
    /\ TrapVector \in Word
    /\ \A s \in Starts : /\ s.x \in [Reg -> Word] /\ s.x[0] = 0
                         /\ s.pc \in Word /\ s.lr_addr \in Word
                         /\ s.mem \in [Ram -> Byte]
ASSUME MaxInstrAssumption == MaxInstr \in Nat

VARIABLES
    x,           \* s.reg
    pc,
    mem,         \* bytes of RAM
    lr_addr,     \* the reservation
    trap,        \* what the last instruction called raise_exception with, or NoTrap
    alive,       \* the emulator's process lives
    instr_cnt,
    instr        \* history: the guest's instruction that was executed last

vars == <<x, pc, mem, lr_addr, trap, alive, instr_cnt, instr>>

ILLEGAL_INSTRUCTION == 2
BREAKPOINT == 3
LOAD_ACCESS_FAULT == 5
STORE_ACCESS_FAULT == 7
LOAD_PAGE_FAULT == 13
STORE_PAGE_FAULT == 15

\* A trap's tval is an address, an instruction or nothing.
NoTrap == [cause |-> 0, tval |-> <<"none">>, epc |-> 0]

TypeOK ==
    /\ x \in [Reg -> Word]
    /\ pc \in Word /\ lr_addr \in Word
    /\ mem \in [Ram -> Byte]
    /\ trap.cause \in {0, ILLEGAL_INSTRUCTION, BREAKPOINT, LOAD_ACCESS_FAULT,
                       STORE_ACCESS_FAULT, LOAD_PAGE_FAULT, STORE_PAGE_FAULT}
    /\ trap.epc \in Word
    /\ alive \in BOOLEAN
    /\ instr_cnt \in 0..MaxInstr

-----------------------------------------------------------------------------
(* How an instruction ends *)

\* Mutant: one of the tests for register 0 is forgotten.
SetReg_always(rd, v) == [x EXCEPT ![rd] = v]
SetReg(rd, v) == IF rd = 0 THEN x ELSE [x EXCEPT ![rd] = v]

\* Mutant: the address space does not end.
Continue_wide(at) == pc' = at /\ trap' = NoTrap /\ UNCHANGED alive

\* NEXT_INSTR, C_NEXT_INSTR and JUMP_INSTR
Continue(at) == pc' = ToWord(at) /\ trap' = NoTrap /\ UNCHANGED alive

\* An instruction whose only effect besides pc is on a register.
Sets(rd, v, at) == x' = SetReg(rd, v) /\ Continue(at) /\ UNCHANGED <<mem, lr_addr>>

raise_exception(cause, tval) ==
    /\ trap' = [cause |-> cause, tval |-> tval, epc |-> pc]
    /\ pc' = TrapVector
    /\ UNCHANGED <<x, mem, lr_addr, alive>>

\* illegal_instr, of which a compressed instruction shows its half only.
ILL_INSTR(w) == raise_exception(ILLEGAL_INSTRUCTION, <<"instr", w.hi, w.lo>>)
C_ILL_INSTR(w) == raise_exception(ILLEGAL_INSTRUCTION, <<"instr", 0, w.lo>>)

\* A division that the host traps on ends the process; with rd = 0 nothing
\* is computed.
Computes(rd, v, at) ==
    IF v = HostTrap /\ rd # 0
    THEN alive' = FALSE /\ trap' = NoTrap /\ UNCHANGED <<x, pc, mem, lr_addr>>
    ELSE Sets(rd, v, at)

-----------------------------------------------------------------------------
(* Memory *)

\* Accesses are little endian; n is the number of bytes.
Loaded(a, n) ==
    SumOf([k \in 0..(n - 1) |->
             LET b == ToWord(a + k) IN (IF b \in Ram THEN mem[b] ELSE 0) * 2 ^ (ByteBits * k)],
          n)

Stored(a, n, v) ==
    [b \in Ram |-> LET k == ToWord(b - a)
                   IN  IF k < n THEN (v \div 2 ^ (ByteBits * k)) % 2 ^ ByteBits ELSE mem[b]]

\* LOAD_MEM_FAULT, STORE_MEM_FAULT and AMO_MEM_FAULT
LoadFault(res) == IF res = "MMU_ACCESS_FAULT" THEN LOAD_ACCESS_FAULT ELSE LOAD_PAGE_FAULT
StoreFault(res) == IF res = "MMU_ACCESS_FAULT" THEN STORE_ACCESS_FAULT ELSE STORE_PAGE_FAULT

Load(rd, a, n, signed, at) ==
    IF ReadResult[a] # "MMU_OK" THEN raise_exception(LoadFault(ReadResult[a]), <<"addr", a>>)
    ELSE Sets(rd, IF signed THEN ToWord(sext(Loaded(a, n), ByteBits * n)) ELSE Loaded(a, n), at)

Store(a, n, v, at) ==
    IF WriteResult[a] # "MMU_OK" THEN raise_exception(StoreFault(WriteResult[a]), <<"addr", a>>)
    ELSE mem' = Stored(a, n, v) /\ Continue(at) /\ UNCHANGED <<x, lr_addr>>

AmoFault(res, a) == raise_exception(StoreFault(res), <<"addr", a>>)

\* What an AMO stores; funct5 is funct7 without aq and rl.
AmoValue(funct5, val, b) ==
    CASE funct5 = 0  -> ToWord(b + val)
      [] funct5 = 1  -> b
      [] funct5 = 4  -> Xor(b, val)
      [] funct5 = 8  -> Or(b, val)
      [] funct5 = 12 -> And(b, val)
      [] funct5 = 16 -> IF LessSigned(val, b) THEN val ELSE b
      [] funct5 = 20 -> IF LessSigned(b, val) THEN val ELSE b
      [] funct5 = 24 -> IF val < b THEN val ELSE b
      [] funct5 = 28 -> IF val > b THEN val ELSE b

Amos == {0, 1, 4, 8, 12, 16, 20, 24, 28}

\* AMOXOR forgets to keep the result of its write, so that AMO_MEM_FAULT sees
\* the MMU_OK of its read.
WriteResultSeen(funct5, a) == IF funct5 = 4 THEN "MMU_OK" ELSE WriteResult[a]

\* Mutant: the register is written before the memory.
Amo_early(funct5, rd, a, b) ==
    LET val == Loaded(a, 4)
    IN  IF ReadResult[a] # "MMU_OK" THEN AmoFault(ReadResult[a], a)
        ELSE IF WriteResult[a] # "MMU_OK"
        THEN /\ x' = SetReg(rd, val)
             /\ trap' = [cause |-> StoreFault(WriteResult[a]), tval |-> <<"addr", a>>, epc |-> pc]
             /\ pc' = TrapVector /\ UNCHANGED <<mem, lr_addr, alive>>
        ELSE /\ mem' = Stored(a, 4, AmoValue(funct5, val, b))
             /\ x' = SetReg(rd, val)
             /\ Continue(pc + 4)
             /\ UNCHANGED lr_addr

Amo(funct5, rd, a, b) ==
    IF ReadResult[a] # "MMU_OK" THEN AmoFault(ReadResult[a], a)
    ELSE IF WriteResult[a] # "MMU_OK" THEN AmoFault(WriteResultSeen(funct5, a), a)
    ELSE LET val == Loaded(a, 4)
         IN  /\ mem' = Stored(a, 4, AmoValue(funct5, val, b))
             /\ x' = SetReg(rd, val)
             /\ Continue(pc + 4)
             /\ UNCHANGED lr_addr

LR(rd, a) ==
    IF ReadResult[a] # "MMU_OK" THEN AmoFault(ReadResult[a], a)
    ELSE /\ lr_addr' = a
         /\ x' = SetReg(rd, Loaded(a, 4))
         /\ Continue(pc + 4)
         /\ UNCHANGED mem

SC(rd, a, b) ==
    IF lr_addr # a THEN Sets(rd, 1, pc + 4)
    ELSE IF WriteResult[a] # "MMU_OK" THEN AmoFault(WriteResult[a], a)
    ELSE /\ mem' = Stored(a, 4, b)
         /\ lr_addr' = 0
         /\ x' = SetReg(rd, 0)
         /\ Continue(pc + 4)

-----------------------------------------------------------------------------
(* Compressed instructions: the three quadrants *)

Quadrant0(w) ==
    LET rs1 == GET_C_RS1_COMP(w)
        rs2 == GET_C_RS2_COMP(w)
        addr == ToWord(x[rs1] + GET_C_IMM_CS(w))
        funct3 == GET_C_FUNCT3(w)
    IN  CASE funct3 = 0 /\ GET_C_IMM_CIW(w) # 0 ->     \* C.ADDI4SPN
               Sets(rs2, ToWord(x[2] + GET_C_IMM_CIW(w)), pc + 2)
          [] funct3 = 2 -> Load(rs2, addr, 4, FALSE, pc + 2)
          [] funct3 = 6 -> Store(addr, 4, x[rs2], pc + 2)
          [] OTHER -> C_ILL_INSTR(w)

\* funct3 = 4 of quadrant 1: shifts, C.ANDI and the register operations.
MiscAlu(w) ==
    LET rd == GET_C_RS1_COMP(w)
        b == x[GET_C_RS2_COMP(w)]
        shamt == GET_C_IMM_CBU(w)
        param1 == get_instr_piece(w, 10, 2)
        param2 == get_instr_piece(w, 5, 2) + 8 * get_instr_piece(w, 12, 1)
    IN  CASE param1 = 0 -> IF shamt >= 32 THEN C_ILL_INSTR(w)
                           ELSE Sets(rd, Srl(x[rd], shamt), pc + 2)
          [] param1 = 1 -> Sets(rd, IF shamt >= 32 THEN x[rd] ELSE Sra(x[rd], shamt), pc + 2)
          [] param1 = 2 -> Sets(rd, And(x[rd], ToWord(GET_C_IMM_CB(w))), pc + 2)
          [] param1 = 3 /\ param2 = 0 -> Sets(rd, ToWord(x[rd] - b), pc + 2)
          [] param1 = 3 /\ param2 = 1 -> Sets(rd, Xor(x[rd], b), pc + 2)
          [] param1 = 3 /\ param2 = 2 -> Sets(rd, Or(x[rd], b), pc + 2)
          [] param1 = 3 /\ param2 = 3 -> Sets(rd, And(x[rd], b), pc + 2)
          [] OTHER -> C_ILL_INSTR(w)

C_Branch(taken, w) ==
    Sets(0, 0, IF taken THEN pc + GET_C_IMM_CBR(w) ELSE pc + 2)

Quadrant1(w) ==
    LET rd == GET_C_RD(w)
        imm == GET_C_IMM_CB(w)
        rs1 == GET_C_RS1_COMP(w)
        funct3 == GET_C_FUNCT3(w)
    IN  CASE funct3 = 0 -> Sets(rd, ToWord(x[rd] + imm), pc + 2)
          [] funct3 = 1 -> Sets(1, ToWord(pc + 2), pc + GET_C_IMM_CJ(w))   \* C.JAL
          [] funct3 = 2 -> Sets(rd, ToWord(imm), pc + 2)                   \* C.LI
          [] funct3 = 3 /\ rd = 2 ->                                       \* C.ADDI16SP
               IF GET_C_IMM_CSP(w) = 0 THEN C_ILL_INSTR(w)
               ELSE Sets(2, ToWord(x[2] + GET_C_IMM_CSP(w)), pc + 2)
          [] funct3 = 3 /\ rd # 2 -> Sets(rd, ToWord(imm * 2 ^ ImmShift), pc + 2)
          [] funct3 = 4 -> MiscAlu(w)
          [] funct3 = 5 -> Sets(0, 0, pc + GET_C_IMM_CJ(w))                \* C.J
          [] funct3 = 6 -> C_Branch(x[rs1] = 0, w)
          [] OTHER -> C_Branch(x[rs1] # 0, w)

Even(a) == a - (a % 2)

\* funct3 = 4 of quadrant 2: C.JR, C.MV, C.EBREAK, C.JALR and C.ADD.
JumpMoveAdd(w) ==
    LET rd == GET_C_RD(w)
        rs2 == GET_C_RS2(w)
        bit12 == get_instr_piece(w, 12, 1)
    IN  CASE bit12 = 0 /\ rs2 = 0 /\ rd = 0 -> C_ILL_INSTR(w)
          [] bit12 = 0 /\ rs2 = 0 /\ rd # 0 -> Sets(0, 0, Even(x[rd]))
          [] bit12 = 0 /\ rs2 # 0 -> Sets(rd, x[rs2], pc + 2)
          [] bit12 = 1 /\ rs2 = 0 /\ rd = 0 -> raise_exception(BREAKPOINT, <<"none">>)
          [] bit12 = 1 /\ rs2 = 0 /\ rd # 0 -> Sets(1, ToWord(pc + 2), Even(x[rd]))
          [] OTHER -> Sets(rd, ToWord(x[rd] + x[rs2]), pc + 2)

Quadrant2(w) ==
    LET rd == GET_C_RD(w)
        shamt == GET_C_IMM_CBU(w)
        funct3 == GET_C_FUNCT3(w)
    IN  CASE funct3 = 0 -> IF shamt >= 32 THEN C_ILL_INSTR(w)
                           ELSE Sets(rd, Sll(x[rd], shamt), pc + 2)
          [] funct3 = 2 -> Load(rd, ToWord(x[2] + GET_C_IMM_CI(w)), 4, FALSE, pc + 2)
          [] funct3 = 4 -> JumpMoveAdd(w)
          [] funct3 = 6 -> Store(ToWord(x[2] + GET_C_IMM_CSS(w)), 4, x[GET_C_RS2(w)], pc + 2)
          [] OTHER -> C_ILL_INSTR(w)

rv32_exec_compressed_instr(w) ==
    LET opcode == get_instr_piece(w, 0, 2)
    IN  \/ opcode = 0 /\ Quadrant0(w)
        \/ opcode = 1 /\ Quadrant1(w)
        \/ opcode = 2 /\ Quadrant2(w)

-----------------------------------------------------------------------------
(* 32-bit instructions, by opcode *)

Op(w) ==
    LET a == x[GET_RS1(w)]
        b == x[GET_RS2(w)]
        funct3 == GET_FUNCT3(w)
        funct7 == GET_FUNCT7(w)
    IN  CASE funct7 = 1 -> Computes(GET_RD(w), MulDiv(funct3, a, b), pc + 4)
          [] funct7 # 1 /\ funct3 = 0 /\ funct7 \notin {0, 32} -> ILL_INSTR(w)
          [] OTHER -> Sets(GET_RD(w), Integer(funct3, funct7 = 32, a, b), pc + 4)

OpImm(w) ==
    LET funct3 == GET_FUNCT3(w)
        b == IF funct3 \in {1, 5} THEN GET_RS2(w) ELSE ToWord(GET_IMM_I(w))
    IN  Sets(GET_RD(w),
             Integer(funct3, funct3 = 5 /\ GET_FUNCT7(w) = 32, x[GET_RS1(w)], b), pc + 4)

Branch(w) ==
    LET a == x[GET_RS1(w)]
        b == x[GET_RS2(w)]
        taken == CASE GET_FUNCT3(w) = 0 -> a = b
                   [] GET_FUNCT3(w) = 1 -> a # b
                   [] GET_FUNCT3(w) = 4 -> LessSigned(a, b)
                   [] GET_FUNCT3(w) = 5 -> ~LessSigned(a, b)
                   [] GET_FUNCT3(w) = 6 -> a < b
                   [] GET_FUNCT3(w) = 7 -> a >= b
    IN  IF GET_FUNCT3(w) \in {2, 3} THEN ILL_INSTR(w)
        ELSE Sets(0, 0, IF taken THEN pc + GET_IMM_B(w) ELSE pc + 4)

\* LUI and AUIPC
Upper(w, base) == Sets(GET_RD(w), ToWord(GET_IMM_U(w) * 2 ^ ImmShift + base), pc + 4)

Jal(w) == Sets(GET_RD(w), ToWord(pc + 4), pc + GET_IMM_J(w))

\* The target is computed before rd is written: they may share the register.
Jalr(w) == Sets(GET_RD(w), ToWord(pc + 4), Even(ToWord(x[GET_RS1(w)] + GET_IMM_I(w))))

LoadOp(w) ==
    LET rd == GET_RD(w)
        addr == ToWord(x[GET_RS1(w)] + GET_IMM_I(w))
        width == GET_FUNCT3(w)
    IN  IF width \in {3, 6, 7} THEN ILL_INSTR(w)
        ELSE Load(rd, addr, 2 ^ (width % 4), width < 4, pc + 4)

StoreOp(w) ==
    LET addr == ToWord(x[GET_RS1(w)] + GET_IMM_S(w))
        width == GET_FUNCT3(w)
    IN  IF width > 2 THEN ILL_INSTR(w)
        ELSE Store(addr, 2 ^ width, x[GET_RS2(w)], pc + 4)

\* FENCE with reserved fields, and any other FENCE.I than the plain one.
MiscMem(w) ==
    IF \/ GET_FUNCT3(w) = 0 /\ (GET_RD(w) # 0 \/ GET_RS1(w) # 0 \/ get_instr_piece(w, 28, 4) # 0)
       \/ GET_FUNCT3(w) = 1 /\ w # [lo |-> 4111, hi |-> 0]
       \/ GET_FUNCT3(w) > 1
    THEN ILL_INSTR(w)
    ELSE Sets(0, 0, pc + 4)

Atomics(w) ==
    LET rd == GET_RD(w)
        a == x[GET_RS1(w)]
        b == x[GET_RS2(w)]
        funct5 == GET_FUNCT7(w) \div 4
    IN  CASE GET_FUNCT3(w) # 2 -> ILL_INSTR(w)
          [] GET_FUNCT3(w) = 2 /\ funct5 = 2 ->
               IF GET_RS2(w) # 0 THEN ILL_INSTR(w) ELSE LR(rd, a)
          [] GET_FUNCT3(w) = 2 /\ funct5 = 3 -> SC(rd, a, b)
          [] GET_FUNCT3(w) = 2 /\ funct5 \in Amos -> Amo(funct5, rd, a, b)
          [] OTHER -> ILL_INSTR(w)

\* EBREAK, and funct3 = 4, for which the inner switch has no case: execution
\* falls into ATOMICS.  The rest of SYSTEM is the subject of Hart.
System(w) ==
    \/ /\ GET_FUNCT3(w) = 0 /\ GET_IMM_I(w) = 1
       /\ IF GET_RD(w) # 0 \/ GET_RS1(w) # 0 THEN ILL_INSTR(w)
          ELSE raise_exception(BREAKPOINT, <<"none">>)
    \/ GET_FUNCT3(w) = 4 /\ Atomics(w)

OP == 51
OP_IMM == 19
BRANCH == 99
LUI == 55
AUIPC == 23
JAL == 111
JALR == 103
LOAD == 3
STORE == 35
MISC_MEM == 15
SYSTEM == 115
ATOMICS == 47
Opcodes == {OP, OP_IMM, BRANCH, LUI, AUIPC, JAL, JALR, LOAD, STORE, MISC_MEM, SYSTEM, ATOMICS}

rv32_exec_instr(w) ==
    LET opcode == GET_OPCODE(w)
    IN  \/ rv32_exec_compressed_instr(w)
        \/ opcode = OP /\ Op(w)
        \/ opcode = OP_IMM /\ OpImm(w)
        \/ opcode = BRANCH /\ Branch(w)
        \/ opcode = LUI /\ Upper(w, 0)
        \/ opcode = AUIPC /\ Upper(w, pc)
        \/ opcode = JAL /\ Jal(w)
        \/ opcode = JALR /\ Jalr(w)
        \/ opcode = LOAD /\ LoadOp(w)
        \/ opcode = STORE /\ StoreOp(w)
        \/ opcode = MISC_MEM /\ MiscMem(w)
        \/ opcode = SYSTEM /\ System(w)
        \/ opcode = ATOMICS /\ Atomics(w)
        \/ opcode % 4 = 3 /\ opcode \notin Opcodes /\ ILL_INSTR(w)

-----------------------------------------------------------------------------
NoInstr == [op |-> "none"]

Init ==
    /\ \E s \in Starts : x = s.x /\ pc = s.pc /\ lr_addr = s.lr_addr /\ mem = s.mem
    /\ trap = NoTrap /\ alive = TRUE
    /\ instr_cnt = 0 /\ instr = NoInstr

\* One iteration of rv32_run whose fetch succeeds.
rv32_run(i) ==
    /\ alive /\ instr_cnt < MaxInstr
    /\ instr_cnt' = instr_cnt + 1
    /\ instr' = i
    /\ rv32_exec_instr(i.word)

Next == \E i \in Program : rv32_run(i)

Spec == Init /\ [][Next]_vars
-----------------------------------------------------------------------------
(* Properties *)

I == INSTANCE Isa

\* Where the code departs from the manual: division and remainder of unsigned
\* words of which one has its top bit set; the cause of a fault of LR (a
\* store's); the cause of a refused write of AMOXOR (a page fault, always);
\* atomics on addresses that are not aligned, which should trap; loads and
\* stores that run from bytes that answer into bytes that do not, which should
\* trap too; and FENCE.TSO and fences with reserved fields, which should not.
Deviates ==
    LET a == x[instr'.rs1]
        b == x[instr'.rs2]
        addr == ToWord(a + instr'.imm)
        runsInto(answer) ==
            answer[addr] = "MMU_OK" /\ I!Refused(answer, addr, I!Sizes[instr'.op])
    IN  \/ instr'.op \in {"divu", "remu"} /\ b # 0 /\ (I!Top(a) \/ I!Top(b))
        \/ instr'.op = "lr" /\ ReadResult[a] # "MMU_OK"
        \/ instr'.op = "amoxor" /\ ReadResult[a] = "MMU_OK" /\ WriteResult[a] = "MMU_ACCESS_FAULT"
        \/ instr'.op \in I!AtomicOps /\ a % 4 # 0
        \/ instr'.op \in I!LoadOps /\ runsInto(ReadResult)
        \/ instr'.op \in I!StoreOps /\ runsInto(WriteResult)
        \/ instr'.op = "fence.tso"
        \/ instr'.op \in {"fence", "fence.i"} /\ instr'.rd # 0

\* Decoded and executed by the code, every instruction has the effect the ISA
\* gives to the instruction the guest assembled: on registers, pc, memory, the
\* reservation and the trap it takes, compressed instructions included.
ImplementsIsa == [][Deviates \/ I!Step]_vars

\* The immediate each format's macro reads.
DecodedImmediate(i) ==
    LET w == i.word
    IN  CASE i.form = "c.addi4spn" -> GET_C_IMM_CIW(w)
          [] i.form \in {"c.lw", "c.sw"} -> GET_C_IMM_CS(w)
          [] i.form \in {"c.jal", "c.j"} -> GET_C_IMM_CJ(w)
          [] i.form \in {"c.addi", "c.li", "c.lui", "c.andi"} -> GET_C_IMM_CB(w)
          [] i.form = "c.addi16sp" -> GET_C_IMM_CSP(w)
          [] i.form \in {"c.beqz", "c.bnez"} -> GET_C_IMM_CBR(w)
          [] i.form = "c.lwsp" -> GET_C_IMM_CI(w)
          [] i.form = "c.swsp" -> GET_C_IMM_CSS(w)
          [] i.form \in {"c.slli", "c.srli", "c.srai"} -> GET_C_IMM_CBU(w)
          [] i.form = "" /\ i.op \in {"addi", "lw", "jalr"} -> GET_IMM_I(w)
          [] i.form = "" /\ i.op = "sw" -> GET_IMM_S(w)
          [] i.form = "" /\ i.op = "beq" -> GET_IMM_B(w)
          [] i.form = "" /\ i.op = "jal" -> GET_IMM_J(w)
          [] OTHER -> i.imm

\* Each macro puts together, bit by bit, the immediate the assembler took
\* apart: at the full width of the field, which the small words of an
\* instance would hide.
ImmediatesSurvive == instr # NoInstr => DecodedImmediate(instr) = instr.imm

\* Fifty places of the code write a register, each with its own test for
\* register 0; compressed registers and link registers have none.
ZeroStaysZero == x[0] = 0

\* A fault leaves nothing half done: an instruction that traps changes no
\* register, no byte of memory and not the reservation, and the trap reports
\* the instruction's own pc, so that the guest can execute it again.  The AMOs
\* are the hard case: their write can be refused after the read succeeded.
TrapsArePrecise ==
    [][trap' # NoTrap =>
         UNCHANGED <<x, mem, lr_addr>> /\ trap'.epc = pc /\ pc' = TrapVector]_vars
==============================================================================
