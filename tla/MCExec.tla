------------------------------- MODULE MCExec --------------------------------
(* Instance of Exec for TLC: words of 8 bits, made of bytes of two bits, so     *)
(* that there are 256 addresses and operands; every instruction of RV32IMAC    *)
(* but the privileged ones, on operands at the corners of both signs.          *)
EXTENDS Exec, Assembler, TLC

Corners == {0, 1, 2, 3, 8, 16, 85, 126, 127, 128, 129, 254, 255}

\* 0-7 writable RAM, 8-15 RAM in read-only pages, 16-19 a register of a device
\* that refuses writes (as the clock of the CLINT does), then pages that are
\* not mapped and addresses nothing answers.
MCRam == 0..15
MCReadResult ==
    [a \in Word |-> IF a < 20 THEN "MMU_OK"
                    ELSE IF a < 128 THEN "MMU_PAGE_FAULT" ELSE "MMU_ACCESS_FAULT"]
MCWriteResult ==
    [a \in Word |-> IF a < 8 THEN "MMU_OK"
                    ELSE IF a \in 16..19 \/ a >= 128 THEN "MMU_ACCESS_FAULT"
                    ELSE "MMU_PAGE_FAULT"]

MCStarts ==
    {[x |-> [r \in Reg |-> CASE r = 1 -> 12 [] r = 2 -> 4 [] r = 8 -> a [] r = 9 -> b
                             [] OTHER -> 0],
      pc |-> p, lr_addr |-> lr, mem |-> [k \in MCRam |-> (k + k \div 4) % 4]] :
        a \in Corners, b \in Corners, p \in {0, 250}, lr \in {0, 3, 8}}

-----------------------------------------------------------------------------
(* The program *)

Instr(op, rd, rs1, rs2, imm) ==
    [op |-> op, form |-> "", rd |-> rd, rs1 |-> rs1, rs2 |-> rs2, imm |-> imm]
C(form, op, rd, rs1, rs2, imm) ==
    [op |-> op, form |-> form, rd |-> rd, rs1 |-> rs1, rs2 |-> rs2, imm |-> imm]

\* The value of each single bit of a signed immediate, and a mix of bits.
OneBit(lo, hi) == {2 ^ n : n \in lo..(hi - 1)} \cup {-(2 ^ hi), -(2 ^ lo), 2 ^ hi - 2 ^ lo}
PositiveBit(lo, hi) == {2 ^ n : n \in lo..hi}

Registers == {<<8, 8, 9>>, <<0, 9, 8>>}
ThreeRegister ==
    {Instr(op, r[1], r[2], r[3], 0) : op \in DOMAIN Codes \cup DOMAIN AmoCodes \cup {"sc"},
                                      r \in Registers}
        \cup {Instr("lr", rd, 8, 0, 0) : rd \in {0, 9}}
Immediate ==
    {Instr(op, rd, 8, 0, m) : op \in DOMAIN ImmCodes, rd \in {0, 9}, m \in {-128, -1, 0, 127}}
        \cup {Instr("addi", 9, 8, 0, m) : m \in OneBit(0, 11)}
        \cup {Instr(op, 9, 8, 0, m) : op \in DOMAIN ShiftCodes, m \in {0, 1, 7}}
        \cup {Instr(op, 9, 0, 0, m) : op \in {"lui", "auipc"}, m \in {1, 33, 2 ^ 19}}
Access ==
    {Instr(op, rd, 8, 0, m) : op \in DOMAIN LoadCodes, rd \in {0, 8}, m \in {0, 5}}
        \cup {Instr(op, 0, 8, 9, m) : op \in DOMAIN StoreCodes, m \in {0, 5}}
        \cup {Instr("lw", 9, 8, 0, m) : m \in OneBit(0, 11)}
        \cup {Instr("sw", 0, 8, 9, m) : m \in OneBit(0, 11)}
Transfer ==
    {Instr(op, 0, 8, 9, -6) : op \in DOMAIN BranchCodes}
        \cup {Instr("beq", 0, 8, 9, m) : m \in OneBit(1, 12)}
        \cup {Instr("jal", rd, 0, 0, m) : rd \in {0, 1}, m \in OneBit(1, 20)}
        \cup {Instr("jalr", rd, 8, 0, m) : rd \in {0, 8}, m \in {0, 3, -4}}
        \cup {Instr(op, 0, 0, 0, 0) : op \in {"fence", "fence.i", "ebreak"}}
Compressed ==
    {C("c.addi4spn", "addi", 9, 2, 0, m) : m \in PositiveBit(2, 9)}
        \cup {C("c.lw", "lw", 9, 8, 0, m) : m \in PositiveBit(2, 6) \cup {0}}
        \cup {C("c.sw", "sw", 0, 8, 9, m) : m \in PositiveBit(2, 6) \cup {0}}
        \cup {C("c.addi", "addi", rd, rd, 0, m) : rd \in {0, 2, 8}, m \in OneBit(0, 5)}
        \cup {C("c.jal", "jal", 1, 0, 0, m) : m \in OneBit(1, 11)}
        \cup {C("c.j", "jal", 0, 0, 0, m) : m \in OneBit(1, 11)}
        \cup {C("c.li", "addi", 9, 0, 0, m) : m \in OneBit(0, 5)}
        \cup {C("c.addi16sp", "addi", 2, 2, 0, m) : m \in OneBit(4, 9)}
        \cup {C("c.lui", "lui", 9, 0, 0, m) : m \in OneBit(0, 5)}
        \cup {C(f[1], f[2], 8, 8, 0, m) : f \in {<<"c.srli", "srli">>, <<"c.srai", "srai">>,
                                                 <<"c.slli", "slli">>}, m \in {1, 2, 4}}
        \cup {C("c.andi", "andi", 8, 8, 0, m) : m \in OneBit(0, 5)}
        \cup {C(f[1], f[2], 8, 8, 9, 0) : f \in {<<"c.sub", "sub">>, <<"c.xor", "xor">>,
                                                 <<"c.or", "or">>, <<"c.and", "and">>,
                                                 <<"c.add", "add">>}}
        \cup {C("c.beqz", "beq", 0, 8, 0, m) : m \in OneBit(1, 8)}
        \cup {C("c.bnez", "bne", 0, 8, 0, m) : m \in OneBit(1, 8)}
        \cup {C("c.lwsp", "lw", 9, 2, 0, m) : m \in PositiveBit(2, 7)}
        \cup {C("c.swsp", "sw", 0, 2, 8, m) : m \in PositiveBit(2, 7) \cup {0}}
        \cup {C("c.jr", "jalr", 0, 8, 0, 0), C("c.jalr", "jalr", 1, 8, 0, 0),
              C("c.jalr", "jalr", 1, 1, 0, 0), C("c.mv", "add", 9, 0, 8, 0),
              C("c.mv", "add", 0, 0, 8, 0), C("c.ebreak", "ebreak", 0, 0, 0, 0)}

\* Words the manual reserves: what is left of each table of the decoder.
Reserved(form, lo, hi) ==
    [op |-> "reserved", form |-> form, rd |-> 0, rs1 |-> 8, rs2 |-> 9, imm |-> 0,
     word |-> [lo |-> lo, hi |-> hi]]
ReservedWords ==
    {Reserved("c.?", lo, 65535) :
        lo \in {0, 4, 8192, 24576, 32768, 40960, 57344,   \* quadrant 0
                24833, 36865, 39937,      \* C.ADDI16SP of 0, C.SRLI by 32, C.SUBW
                5122, 8194, 24578, 40962, 57346,
                32770}}                   \* C.JR of x0
        \cup {Reserved("", lo, 0) :        \* funct3 no row has, and an unknown opcode
                  lo \in {99 + 2 * 4096, 3 + 3 * 4096, 35 + 3 * 4096, 115 + 4 * 4096, 47,
                          15 + 2 * 4096, 127}}
        \cup {Reserved("", 51, 1024),      \* OP with funct7 = 2
              Reserved("", 47 + 2 * 4096, 31 * 2048),
              Reserved("", 47 + 2 * 4096, 2 * 2048 + 16)}   \* LR with an rs2

\* Fences with rd = 1, a field without a meaning, and FENCE.TSO (fm = 8).
OddFences ==
    {Instr("fence", 1, 0, 0, 0) @@ [word |-> [lo |-> 15 + 128, hi |-> 0]],
     Instr("fence.i", 1, 0, 0, 0) @@ [word |-> [lo |-> 15 + 4096 + 128, hi |-> 0]],
     Instr("fence.tso", 0, 0, 0, 0) @@ [word |-> [lo |-> 15, hi |-> 8 * 4096 + 3 * 256 + 3 * 16]]}

MCProgram ==
    {i @@ [word |-> Assemble(i)] :
        i \in ThreeRegister \cup Immediate \cup Access \cup Transfer \cup Compressed}
        \cup ReservedWords \cup OddFences

\* Every operand of the program fits its field.
ASSUME MCProgramEncoded == \A i \in MCProgram : Encoded(i)
==============================================================================
