------------------------------ MODULE Assembler ------------------------------
(***************************************************************************)
(* The encoding of RV32IMAC instructions as the ISA manual lays it out,    *)
(* written the other way round from the decoding of the emulator: from the *)
(* operands to the bits.  It is the reference the decoding is compared     *)
(* with.                                                                   *)
(*                                                                         *)
(* An instruction has an operation, the operands of that operation and a   *)
(* form: "" for 32 bits, or the name of a compressed instruction, whose    *)
(* operation and operands are those of its expansion.                      *)
(***************************************************************************)
EXTENDS Words, Sequences

Bits(v, hi, lo) == (v \div 2 ^ lo) % 2 ^ (hi - lo + 1)
Bit(v, n) == Bits(v, n, n)
\* The numbers of n bits with sign.
SignedRange(n) == (-(2 ^ (n - 1)))..(2 ^ (n - 1) - 1)

\* Fields are pairs <<value, position>>; an instruction is two half words.
Low(f) == IF f[2] < 16 THEN (f[1] % 2 ^ (16 - f[2])) * 2 ^ f[2] ELSE 0
High(f) ==
    IF f[2] >= 16 THEN f[1] * 2 ^ (f[2] - 16) ELSE f[1] \div 2 ^ (16 - f[2])
LowHalf(fields) == SumOf([k \in 0..(Len(fields) - 1) |-> Low(fields[k + 1])], Len(fields))
UpperHalf(fields) == SumOf([k \in 0..(Len(fields) - 1) |-> High(fields[k + 1])], Len(fields))

Codes == [
    add |-> <<0, 0>>, sub |-> <<0, 32>>, sll |-> <<1, 0>>, slt |-> <<2, 0>>,
    sltu |-> <<3, 0>>, xor |-> <<4, 0>>, srl |-> <<5, 0>>, sra |-> <<5, 32>>,
    or |-> <<6, 0>>, and |-> <<7, 0>>,
    mul |-> <<0, 1>>, mulh |-> <<1, 1>>, mulhsu |-> <<2, 1>>, mulhu |-> <<3, 1>>,
    div |-> <<4, 1>>, divu |-> <<5, 1>>, rem |-> <<6, 1>>, remu |-> <<7, 1>>]
ImmCodes == [addi |-> 0, slti |-> 2, sltiu |-> 3, xori |-> 4, ori |-> 6, andi |-> 7]
ShiftCodes == [slli |-> <<1, 0>>, srli |-> <<5, 0>>, srai |-> <<5, 32>>]
LoadCodes == [lb |-> 0, lh |-> 1, lw |-> 2, lbu |-> 4, lhu |-> 5]
StoreCodes == [sb |-> 0, sh |-> 1, sw |-> 2]
BranchCodes == [beq |-> 0, bne |-> 1, blt |-> 4, bge |-> 5, bltu |-> 6, bgeu |-> 7]
AmoCodes == [
    amoadd |-> 0, amoswap |-> 1, amoxor |-> 4, amoor |-> 8, amoand |-> 12,
    amomin |-> 16, amomax |-> 20, amominu |-> 24, amomaxu |-> 28]
AtomicCodes == [lr |-> 2, sc |-> 3]

FieldsOf(i) ==
    LET rd == <<i.rd, 7>>
        rs1 == <<i.rs1, 15>>
        rs2 == <<i.rs2, 20>>
        m == i.imm
        RType(opcode, codes) == <<<<opcode, 0>>, rd, <<codes[1], 12>>, rs1, rs2, <<codes[2], 25>>>>
        IType(opcode, funct3) ==
            <<<<opcode, 0>>, rd, <<funct3, 12>>, rs1, <<Bits(m, 11, 0), 20>>>>
    IN  CASE i.op \in DOMAIN Codes -> RType(51, Codes[i.op])
          [] i.op \in DOMAIN ImmCodes -> IType(19, ImmCodes[i.op])
          [] i.op \in DOMAIN ShiftCodes ->
               <<<<19, 0>>, rd, <<ShiftCodes[i.op][1], 12>>, rs1, <<m, 20>>,
                 <<ShiftCodes[i.op][2], 25>>>>
          [] i.op \in DOMAIN LoadCodes -> IType(3, LoadCodes[i.op])
          [] i.op = "jalr" -> IType(103, 0)
          [] i.op \in DOMAIN StoreCodes ->
               <<<<35, 0>>, <<Bits(m, 4, 0), 7>>, <<StoreCodes[i.op], 12>>, rs1, rs2,
                 <<Bits(m, 11, 5), 25>>>>
          [] i.op \in DOMAIN BranchCodes ->
               <<<<99, 0>>, <<Bit(m, 11), 7>>, <<Bits(m, 4, 1), 8>>, <<BranchCodes[i.op], 12>>,
                 rs1, rs2, <<Bits(m, 10, 5), 25>>, <<Bit(m, 12), 31>>>>
          [] i.op \in {"lui", "auipc"} ->
               <<<<IF i.op = "lui" THEN 55 ELSE 23, 0>>, rd, <<Bits(m, 19, 0), 12>>>>
          [] i.op = "jal" ->
               <<<<111, 0>>, rd, <<Bits(m, 19, 12), 12>>, <<Bit(m, 11), 20>>,
                 <<Bits(m, 10, 1), 21>>, <<Bit(m, 20), 31>>>>
          [] i.op \in DOMAIN AmoCodes \cup DOMAIN AtomicCodes ->
               <<<<47, 0>>, rd, <<2, 12>>, rs1, rs2,
                 <<IF i.op \in DOMAIN AmoCodes THEN AmoCodes[i.op] ELSE AtomicCodes[i.op], 27>>>>
          [] i.op = "fence" -> <<<<15, 0>>, <<255, 20>>>>
          [] i.op = "fence.i" -> <<<<15, 0>>, <<1, 12>>>>
          [] i.op = "ebreak" -> <<<<115, 0>>, <<1, 20>>>>

\* Fields of a compressed instruction from bit 2 on, with its funct3 and
\* quadrant; compressed register fields hold the number less 8.
CFieldsOf(i) ==
    LET m == i.imm
        full == <<i.rd, 7>>
        CI(funct3, quadrant) ==
            <<<<quadrant, 0>>, <<Bits(m, 4, 0), 2>>, full, <<Bit(m, 5), 12>>, <<funct3, 13>>>>
        CR(bit12, rd, rs2) == <<<<2, 0>>, <<rs2, 2>>, <<rd, 7>>, <<bit12, 12>>, <<4, 13>>>>
        CLS(funct3, r) ==
            <<<<0, 0>>, <<r - 8, 2>>, <<Bit(m, 6), 5>>, <<Bit(m, 2), 6>>, <<i.rs1 - 8, 7>>,
              <<Bits(m, 5, 3), 10>>, <<funct3, 13>>>>
        CBImm(funct2) ==
            <<<<1, 0>>, <<Bits(m, 4, 0), 2>>, <<i.rd - 8, 7>>, <<funct2, 10>>, <<Bit(m, 5), 12>>,
              <<4, 13>>>>
        CA(funct2) ==
            <<<<1, 0>>, <<i.rs2 - 8, 2>>, <<funct2, 5>>, <<i.rd - 8, 7>>, <<3, 10>>, <<4, 13>>>>
        CJ(funct3) ==
            <<<<1, 0>>, <<Bit(m, 5), 2>>, <<Bits(m, 3, 1), 3>>, <<Bit(m, 7), 6>>, <<Bit(m, 6), 7>>,
              <<Bit(m, 10), 8>>, <<Bits(m, 9, 8), 9>>, <<Bit(m, 4), 11>>, <<Bit(m, 11), 12>>,
              <<funct3, 13>>>>
        CB(funct3) ==
            <<<<1, 0>>, <<Bit(m, 5), 2>>, <<Bits(m, 2, 1), 3>>, <<Bits(m, 7, 6), 5>>,
              <<i.rs1 - 8, 7>>, <<Bits(m, 4, 3), 10>>, <<Bit(m, 8), 12>>, <<funct3, 13>>>>
    IN  CASE i.form = "c.addi4spn" ->
               <<<<0, 0>>, <<i.rd - 8, 2>>, <<Bit(m, 3), 5>>, <<Bit(m, 2), 6>>,
                 <<Bits(m, 9, 6), 7>>, <<Bits(m, 5, 4), 11>>>>
          [] i.form = "c.lw" -> CLS(2, i.rd)
          [] i.form = "c.sw" -> CLS(6, i.rs2)
          [] i.form = "c.addi" -> CI(0, 1)
          [] i.form = "c.jal" -> CJ(1)
          [] i.form = "c.li" -> CI(2, 1)
          [] i.form = "c.addi16sp" ->
               <<<<1, 0>>, <<Bit(m, 5), 2>>, <<Bits(m, 8, 7), 3>>, <<Bit(m, 6), 5>>, <<Bit(m, 4), 6>>,
                 full, <<Bit(m, 9), 12>>, <<3, 13>>>>
          [] i.form = "c.lui" -> CI(3, 1)
          [] i.form = "c.srli" -> CBImm(0)
          [] i.form = "c.srai" -> CBImm(1)
          [] i.form = "c.andi" -> CBImm(2)
          [] i.form = "c.sub" -> CA(0)
          [] i.form = "c.xor" -> CA(1)
          [] i.form = "c.or" -> CA(2)
          [] i.form = "c.and" -> CA(3)
          [] i.form = "c.j" -> CJ(5)
          [] i.form = "c.beqz" -> CB(6)
          [] i.form = "c.bnez" -> CB(7)
          [] i.form = "c.slli" -> CI(0, 2)
          [] i.form = "c.lwsp" ->
               <<<<2, 0>>, <<Bits(m, 7, 6), 2>>, <<Bits(m, 4, 2), 4>>, full, <<Bit(m, 5), 12>>,
                 <<2, 13>>>>
          [] i.form = "c.jr" -> CR(0, i.rs1, 0)
          [] i.form = "c.mv" -> CR(0, i.rd, i.rs2)
          [] i.form = "c.ebreak" -> CR(1, 0, 0)
          [] i.form = "c.jalr" -> CR(1, i.rs1, 0)
          [] i.form = "c.add" -> CR(1, i.rd, i.rs2)
          [] i.form = "c.swsp" ->
               <<<<2, 0>>, <<i.rs2, 2>>, <<Bits(m, 7, 6), 7>>, <<Bits(m, 5, 2), 9>>, <<6, 13>>>>

\* Behind a compressed instruction stands the next one, here all ones.
Behind == 65535
Assemble(i) ==
    IF i.form = ""
    THEN LET f == FieldsOf(i) IN [lo |-> LowHalf(f), hi |-> UpperHalf(f)]
    ELSE LET f == CFieldsOf(i) IN [lo |-> LowHalf(f), hi |-> Behind]

\* The operands that the fields of an instruction can hold.
Unsigned(n) == 0..(2 ^ n - 1)
Aligned(m, n) == m % n = 0
Encodable(i) ==
    LET m == i.imm
        short == 8..15    \* the registers a field of three bits can name
    IN  /\ {i.rd, i.rs1, i.rs2} \subseteq 0..31
        /\ i.form \in {"c.srli", "c.srai", "c.andi", "c.sub", "c.xor", "c.or", "c.and",
                       "c.addi4spn", "c.lw"} => i.rd \in short
        /\ i.form \in {"c.lw", "c.sw", "c.beqz", "c.bnez"} => i.rs1 \in short
        /\ i.form \in {"c.sw", "c.sub", "c.xor", "c.or", "c.and"} => i.rs2 \in short
        /\ i.form \in {"c.jal", "c.j"} => m \in SignedRange(12) /\ Aligned(m, 2)
        /\ i.form \in {"c.addi", "c.li", "c.lui", "c.andi"} => m \in SignedRange(6)
        /\ i.form \in {"c.slli", "c.srli", "c.srai"} => m \in Unsigned(5)
        /\ i.form \in {"c.lw", "c.sw"} => m \in Unsigned(7) /\ Aligned(m, 4)
        /\ i.form \in {"c.beqz", "c.bnez"} => m \in SignedRange(9) /\ Aligned(m, 2)
        /\ i.form = "c.addi4spn" => m \in Unsigned(10) /\ Aligned(m, 4)
        /\ i.form = "c.addi16sp" => m \in SignedRange(10) /\ Aligned(m, 16)
        /\ i.form \in {"c.lwsp", "c.swsp"} => m \in Unsigned(8) /\ Aligned(m, 4)
        /\ i.form = "" =>
             /\ i.op \in DOMAIN ImmCodes \cup DOMAIN LoadCodes \cup DOMAIN StoreCodes \cup {"jalr"} =>
                  m \in SignedRange(12)
             /\ i.op \in DOMAIN ShiftCodes => m \in Unsigned(5)
             /\ i.op \in DOMAIN BranchCodes => m \in SignedRange(13) /\ Aligned(m, 2)
             /\ i.op \in {"lui", "auipc"} => m \in Unsigned(20)
             /\ i.op = "jal" => m \in SignedRange(21) /\ Aligned(m, 2)

\* i carries the word of its operands; what the manual reserves, FENCE.TSO, and
\* a fence with a field that has no meaning, carry a word of their own.
Encoded(i) ==
    \/ i.op \in {"reserved", "fence", "fence.tso", "fence.i"} /\ i.form \in {"", "c.?"}
    \/ Encodable(i) /\ i.word = Assemble(i)
==============================================================================
