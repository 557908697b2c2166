--------------------------------- MODULE Isa ---------------------------------
(***************************************************************************)
(* What an RV32IMAC instruction does, as the ISA manual says it: the       *)
(* abstract specification of Exec.  It knows instructions by their names   *)
(* and registers by their values as integers; it has no encoding, and a    *)
(* compressed instruction is its expansion with a length of two bytes.     *)
(***************************************************************************)
EXTENDS Words

CONSTANTS ImmShift, ReadResult, WriteResult, Ram, TrapVector

VARIABLES x, pc, mem, lr_addr, trap, instr

isavars == <<x, pc, mem, lr_addr, trap, instr>>

\* Division rounds towards zero: the remainder has the sign of the dividend.
Quotient(n, d) ==
    CHOOSE q \in (-WordMod)..WordMod :
        LET r == n - q * d IN Abs(r) < Abs(d) /\ (r = 0 \/ (r < 0 <=> n < 0))
Remainder(n, d) == n - d * Quotient(n, d)

Top(w) == w >= WordMod \div 2

RegisterOps == {"add", "sub", "sll", "slt", "sltu", "xor", "srl", "sra", "or", "and", "mul",
                "mulh", "mulhsu", "mulhu", "div", "divu", "rem", "remu"}
AmoOps == {"amoadd", "amoswap", "amoxor", "amoor", "amoand", "amomin", "amomax", "amominu",
           "amomaxu"}
AtomicOps == AmoOps \cup {"lr", "sc"}
ImmediateOps == {"addi", "slti", "sltiu", "xori", "ori", "andi", "slli", "srli", "srai"}

Result(op, a, b) ==
    CASE op \in {"add", "addi"} -> a + b
      [] op = "sub" -> a - b
      [] op \in {"sll", "slli"} -> a * 2 ^ (b % XLEN)
      [] op \in {"srl", "srli"} -> a \div 2 ^ (b % XLEN)
      [] op \in {"sra", "srai"} -> Signed(a) \div 2 ^ (b % XLEN)
      [] op \in {"slt", "slti"} -> IF Signed(a) < Signed(b) THEN 1 ELSE 0
      [] op \in {"sltu", "sltiu"} -> IF a < b THEN 1 ELSE 0
      [] op \in {"xor", "xori"} -> Xor(a, b)
      [] op \in {"or", "ori"} -> Or(a, b)
      [] op \in {"and", "andi"} -> And(a, b)
      [] op = "mul" -> a * b
      [] op = "mulh" -> (Signed(a) * Signed(b)) \div WordMod
      [] op = "mulhsu" -> (Signed(a) * b) \div WordMod
      [] op = "mulhu" -> (a * b) \div WordMod
      [] op = "div" -> IF b = 0 THEN -1 ELSE Quotient(Signed(a), Signed(b))
      [] op = "divu" -> IF b = 0 THEN -1 ELSE Quotient(a, b)
      [] op = "rem" -> IF b = 0 THEN a ELSE Remainder(Signed(a), Signed(b))
      [] op = "remu" -> IF b = 0 THEN a ELSE Remainder(a, b)

Taken(op, a, b) ==
    CASE op = "beq" -> a = b
      [] op = "bne" -> a # b
      [] op = "blt" -> Signed(a) < Signed(b)
      [] op = "bge" -> Signed(a) >= Signed(b)
      [] op = "bltu" -> a < b
      [] op = "bgeu" -> a >= b

AmoResult(op, m, b) ==
    CASE op = "amoadd" -> ToWord(m + b)
      [] op = "amoswap" -> b
      [] op = "amoxor" -> Xor(m, b)
      [] op = "amoor" -> Or(m, b)
      [] op = "amoand" -> And(m, b)
      [] op = "amomin" -> IF Signed(b) < Signed(m) THEN b ELSE m
      [] op = "amomax" -> IF Signed(b) > Signed(m) THEN b ELSE m
      [] op = "amominu" -> IF b < m THEN b ELSE m
      [] op = "amomaxu" -> IF b > m THEN b ELSE m

LoadOps == {"lb", "lh", "lw", "lbu", "lhu"}
StoreOps == {"sb", "sh", "sw"}
Sizes == [lb |-> 1, lbu |-> 1, lh |-> 2, lhu |-> 2, lw |-> 4, sb |-> 1, sh |-> 2, sw |-> 4]

\* The bytes from a on as a number: byte k has the weight of its place.
ReadsAs(a, n, v) ==
    /\ v \in 0..(2 ^ (n * ByteBits) - 1)
    /\ \A k \in 0..(n - 1) :
         LET b == ToWord(a + k)
         IN  (v \div 2 ^ (k * ByteBits)) % 2 ^ ByteBits = IF b \in Ram THEN mem[b] ELSE 0
ValueAt(a, n) == CHOOSE v \in 0..(2 ^ (n * ByteBits) - 1) : ReadsAs(a, n, v)

Length == IF instr'.form = "" THEN 4 ELSE 2

Write(rd, v) == x' = [x EXCEPT ![rd] = IF rd = 0 THEN 0 ELSE ToWord(v)]
GoTo(a) == pc' = ToWord(a) /\ trap'.cause = 0
Keep == UNCHANGED <<mem, lr_addr>>

Trap(cause, tval) ==
    /\ trap' = [cause |-> cause, tval |-> tval, epc |-> pc]
    /\ pc' = TrapVector
    /\ UNCHANGED <<x, mem, lr_addr>>

\* The bytes of an access that memory refuses, by their place; one is enough
\* to refuse the access.
RefusedBytes(answer, a, n) == {k \in 0..(n - 1) : answer[ToWord(a + k)] # "MMU_OK"}
Refused(answer, a, n) == RefusedBytes(answer, a, n) # {}

\* The trap names the first of them.  Access faults are told from page faults;
\* reads by loads and LR are told from the accesses of stores, SC and AMOs.
Fault(isStore, answer, a, n) ==
    LET first == CHOOSE k \in RefusedBytes(answer, a, n) :
                   \A j \in RefusedBytes(answer, a, n) : k <= j
        b == ToWord(a + first)
    IN  Trap(CASE answer[b] = "MMU_ACCESS_FAULT" -> IF isStore THEN 7 ELSE 5
               [] answer[b] = "MMU_PAGE_FAULT" -> IF isStore THEN 15 ELSE 13, <<"addr", b>>)

MemoryBecomes(a, n, v) ==
    \A b \in Ram :
        mem'[b] = IF \E k \in 0..(n - 1) : b = ToWord(a + k)
                  THEN (v \div 2 ^ (ToWord(b - a) * ByteBits)) % 2 ^ ByteBits
                  ELSE mem[b]

LoadStep(i, a) ==
    IF Refused(ReadResult, a, Sizes[i.op]) THEN Fault(FALSE, ReadResult, a, Sizes[i.op])
    ELSE LET n == Sizes[i.op]
             v == ValueAt(a, n)
             negative == i.op \in {"lb", "lh"} /\ v >= 2 ^ (n * ByteBits - 1)
         IN  /\ Write(i.rd, IF negative THEN v - 2 ^ (n * ByteBits) ELSE v)
             /\ GoTo(pc + Length) /\ Keep

StoreStep(i, a) ==
    IF Refused(WriteResult, a, Sizes[i.op]) THEN Fault(TRUE, WriteResult, a, Sizes[i.op])
    ELSE MemoryBecomes(a, Sizes[i.op], x[i.rs2]) /\ GoTo(pc + Length) /\ UNCHANGED <<x, lr_addr>>

AmoStep(i, a) ==
    CASE Refused(ReadResult, a, 4) -> Fault(TRUE, ReadResult, a, 4)
      [] ~Refused(ReadResult, a, 4) /\ Refused(WriteResult, a, 4) -> Fault(TRUE, WriteResult, a, 4)
      [] OTHER ->
           LET m == ValueAt(a, 4)
           IN  /\ MemoryBecomes(a, 4, AmoResult(i.op, m, x[i.rs2]))
               /\ Write(i.rd, m) /\ GoTo(pc + 4) /\ UNCHANGED lr_addr

LrStep(i, a) ==
    IF Refused(ReadResult, a, 4) THEN Fault(FALSE, ReadResult, a, 4)
    ELSE Write(i.rd, ValueAt(a, 4)) /\ lr_addr' = a /\ GoTo(pc + 4) /\ UNCHANGED mem

\* An SC stores only on a reservation of its address.  What a failing one
\* leaves of the reservation is the subject of LrSc.
ScStep(i, a) ==
    CASE lr_addr = a /\ Refused(WriteResult, a, 4) -> Fault(TRUE, WriteResult, a, 4)
      [] lr_addr = a /\ ~Refused(WriteResult, a, 4) ->
           MemoryBecomes(a, 4, x[i.rs2]) /\ Write(i.rd, 0) /\ lr_addr' = 0 /\ GoTo(pc + 4)
      [] lr_addr # a -> Write(i.rd, 1) /\ GoTo(pc + 4) /\ UNCHANGED mem

Execute(i) ==
    LET a == x[i.rs1]
        b == x[i.rs2]
        addr == ToWord(a + i.imm)
    IN  CASE i.op \in RegisterOps -> Write(i.rd, Result(i.op, a, b)) /\ GoTo(pc + Length) /\ Keep
          [] i.op \in ImmediateOps ->
               Write(i.rd, Result(i.op, a, ToWord(i.imm))) /\ GoTo(pc + Length) /\ Keep
          [] i.op = "lui" -> Write(i.rd, i.imm * 2 ^ ImmShift) /\ GoTo(pc + Length) /\ Keep
          [] i.op = "auipc" -> Write(i.rd, pc + i.imm * 2 ^ ImmShift) /\ GoTo(pc + 4) /\ Keep
          [] i.op \in {"beq", "bne", "blt", "bge", "bltu", "bgeu"} ->
               GoTo(IF Taken(i.op, a, b) THEN pc + i.imm ELSE pc + Length) /\ Keep /\ UNCHANGED x
          [] i.op = "jal" -> Write(i.rd, pc + Length) /\ GoTo(pc + i.imm) /\ Keep
          [] i.op = "jalr" -> Write(i.rd, pc + Length) /\ GoTo(addr - (addr % 2)) /\ Keep
          [] i.op \in LoadOps -> LoadStep(i, addr)
          [] i.op \in StoreOps -> StoreStep(i, addr)
          [] i.op = "lr" -> LrStep(i, a)
          [] i.op = "sc" -> ScStep(i, a)
          [] i.op \in AmoOps -> AmoStep(i, a)
          [] i.op \in {"fence", "fence.tso", "fence.i"} -> GoTo(pc + 4) /\ Keep /\ UNCHANGED x
          [] i.op = "ebreak" -> Trap(3, <<"none">>)
          [] i.op = "reserved" -> Trap(2, <<"instr", IF Length = 2 THEN 0 ELSE i.word.hi, i.word.lo>>)

Step == Execute(instr')
==============================================================================
