------------------------------ MODULE Encoding -------------------------------
(***************************************************************************)
(* The macros that take an instruction apart (top of src/src/rv32.c).  An   *)
(* instruction is two half words [lo, hi], of which a compressed one is lo. *)
(***************************************************************************)
EXTENDS Words, Sequences

CONSTANT ImmShift    \* 12 in the code: what LUI and AUIPC shift by

ASSUME ImmShiftAssumption == ImmShift \in Nat

Half == 0..(2 ^ 16 - 1)
Instruction == [lo : Half, hi : Half]

\* (opcode >> start) & mask, for a mask of n ones.
get_instr_piece(w, start, n) ==
    IF start >= 16 THEN (w.hi \div 2 ^ (start - 16)) % 2 ^ n
    ELSE (w.lo \div 2 ^ start + (w.hi % 2 ^ n) * 2 ^ (16 - start)) % 2 ^ n

sext(val, n) == IF val >= 2 ^ (n - 1) THEN val - 2 ^ n ELSE val

Reg == 0..31
GET_OPCODE(w) == get_instr_piece(w, 0, 7)
GET_FUNCT7(w) == get_instr_piece(w, 25, 7)
GET_FUNCT3(w) == get_instr_piece(w, 12, 3)
GET_RS2(w) == get_instr_piece(w, 20, 5)
GET_RS1(w) == get_instr_piece(w, 15, 5)
GET_RD(w) == get_instr_piece(w, 7, 5)

\* In units of 2^ImmShift.
GET_IMM_U(w) == get_instr_piece(w, 12, 20)
GET_IMM_I(w) == sext(get_instr_piece(w, 20, 12), 12)
GET_IMM_S(w) == sext(get_instr_piece(w, 7, 5) + get_instr_piece(w, 25, 7) * 2 ^ 5, 12)

\* Mutant: bit 11 of a branch's offset is read as its bit 12.
GET_IMM_B_swapped(w) ==
    sext(get_instr_piece(w, 8, 4) * 2 + get_instr_piece(w, 25, 6) * 2 ^ 5
           + get_instr_piece(w, 31, 1) * 2 ^ 11 + get_instr_piece(w, 7, 1) * 2 ^ 12, 13)
GET_IMM_B(w) ==
    sext(get_instr_piece(w, 8, 4) * 2 + get_instr_piece(w, 25, 6) * 2 ^ 5
           + get_instr_piece(w, 7, 1) * 2 ^ 11 + get_instr_piece(w, 31, 1) * 2 ^ 12, 13)
GET_IMM_J(w) ==
    sext(get_instr_piece(w, 21, 10) * 2 + get_instr_piece(w, 20, 1) * 2 ^ 11
           + get_instr_piece(w, 12, 8) * 2 ^ 12 + get_instr_piece(w, 31, 1) * 2 ^ 20, 21)

-----------------------------------------------------------------------------
(* Compressed instructions *)

GET_C_FUNCT3(w) == get_instr_piece(w, 13, 3)
GET_C_RD(w) == get_instr_piece(w, 7, 5)
GET_C_RS2(w) == get_instr_piece(w, 2, 5)
\* piece | 8, for a piece of three bits
GET_C_RS1_COMP(w) == get_instr_piece(w, 7, 3) + 8
GET_C_RS2_COMP(w) == get_instr_piece(w, 2, 3) + 8

\* pieces is a sequence of <<start, length, position in the result>>.
Gather(w, pieces) ==
    SumOf([k \in 0..(Len(pieces) - 1) |->
             LET p == pieces[k + 1] IN get_instr_piece(w, p[1], p[2]) * 2 ^ p[3]],
          Len(pieces))

GET_C_IMM_CJ(w) == sext(Gather(w, <<<<2, 1, 5>>, <<3, 3, 1>>, <<6, 1, 7>>, <<7, 1, 6>>,
                                    <<8, 1, 10>>, <<9, 2, 8>>, <<11, 1, 4>>, <<12, 1, 11>>>>), 12)
GET_C_IMM_CI(w) == Gather(w, <<<<2, 2, 6>>, <<4, 3, 2>>, <<12, 1, 5>>>>)
GET_C_IMM_CBU(w) == Gather(w, <<<<2, 5, 0>>, <<12, 1, 5>>>>)
GET_C_IMM_CB(w) == sext(GET_C_IMM_CBU(w), 6)
GET_C_IMM_CS(w) == Gather(w, <<<<5, 1, 6>>, <<6, 1, 2>>, <<10, 3, 3>>>>)
GET_C_IMM_CSS(w) == Gather(w, <<<<7, 2, 6>>, <<9, 4, 2>>>>)
GET_C_IMM_CSP(w) == sext(Gather(w, <<<<2, 1, 5>>, <<3, 2, 7>>, <<5, 1, 6>>, <<6, 1, 4>>,
                                     <<12, 1, 9>>>>), 10)
GET_C_IMM_CIW(w) == Gather(w, <<<<5, 1, 3>>, <<6, 1, 2>>, <<7, 4, 6>>, <<11, 2, 4>>>>)
GET_C_IMM_CBR(w) == sext(Gather(w, <<<<2, 1, 5>>, <<3, 2, 1>>, <<5, 2, 6>>, <<10, 2, 3>>,
                                     <<12, 1, 8>>>>), 9)
==============================================================================
