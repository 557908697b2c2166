--------------------------------- MODULE Alu ---------------------------------
(***************************************************************************)
(* Arithmetic of the hart (src/src/rv32.c): the helpers of the M extension *)
(* and the operators of OP and OP_IMM, as the code computes them.          *)
(***************************************************************************)
EXTENDS Words

\* The host's signed division of the least number by -1 traps: the process
\* dies.  It is the result of no other operation.
HostTrap == -1

MinSigned == -(WordMod \div 2)

div(a, b) ==
    IF b = 0 THEN ToWord(-1)
    ELSE IF Signed(a) = MinSigned /\ Signed(b) = -1 THEN a
    ELSE ToWord(CDiv(Signed(a), Signed(b)))

\* The parameters are int32_t: the division is signed, and nothing excludes
\* the pair that traps.
divu(a, b) ==
    IF b = 0 THEN ToWord(-1)
    ELSE IF Signed(a) = MinSigned /\ Signed(b) = -1 THEN HostTrap
    ELSE ToWord(CDiv(Signed(a), Signed(b)))

rem(a, b) ==
    IF b = 0 THEN a
    ELSE IF Signed(a) = MinSigned /\ Signed(b) = -1 THEN 0
    ELSE ToWord(CMod(Signed(a), Signed(b)))

remu(a, b) ==
    IF b = 0 THEN a
    ELSE IF Signed(a) = MinSigned /\ Signed(b) = -1 THEN HostTrap
    ELSE ToWord(CMod(Signed(a), Signed(b)))

\* The double word is an int64_t; >> 32 is arithmetic.
Wide(n) ==
    LET m == n % (WordMod * WordMod)
    IN  IF m >= (WordMod * WordMod) \div 2 THEN m - WordMod * WordMod ELSE m
HighHalf(n) == ToWord(Wide(n) \div WordMod)

mulh(a, b) == HighHalf(Signed(a) * Signed(b))
mulhsu(a, b) == HighHalf(Signed(a) * b)
mulhu(a, b) == HighHalf(a * b)

\* Shifts: the code keeps the low five bits of the amount.
Sll(a, n) == ToWord(a * 2 ^ (n % XLEN))
Srl(a, n) == a \div 2 ^ (n % XLEN)
\* Mutant: the sign is not shifted in.
Sra_logical(a, n) == a \div 2 ^ (n % XLEN)
Sra(a, n) == ToWord(Signed(a) \div 2 ^ (n % XLEN))

Flag(b) == IF b THEN 1 ELSE 0
LessSigned(a, b) == Signed(a) < Signed(b)

\* OP with funct7 = 1.
MulDiv(funct3, a, b) ==
    CASE funct3 = 0 -> ToWord(Signed(a) * Signed(b))
      [] funct3 = 1 -> mulh(a, b)
      [] funct3 = 2 -> mulhsu(a, b)
      [] funct3 = 3 -> mulhu(a, b)
      [] funct3 = 4 -> div(a, b)
      [] funct3 = 5 -> divu(a, b)
      [] funct3 = 6 -> rem(a, b)
      [] funct3 = 7 -> remu(a, b)

\* OP with another funct7, and OP_IMM; alt is funct7 = 32 where it is looked at.
Integer(funct3, alt, a, b) ==
    CASE funct3 = 0 -> IF alt THEN ToWord(a - b) ELSE ToWord(a + b)
      [] funct3 = 1 -> Sll(a, b)
      [] funct3 = 2 -> Flag(LessSigned(a, b))
      [] funct3 = 3 -> Flag(a < b)
      [] funct3 = 4 -> Xor(a, b)
      [] funct3 = 5 -> IF alt THEN Sra(a, b) ELSE Srl(a, b)
      [] funct3 = 6 -> Or(a, b)
      [] funct3 = 7 -> And(a, b)
==============================================================================
