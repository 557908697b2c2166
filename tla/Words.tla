-------------------------------- MODULE Words --------------------------------
(***************************************************************************)
(* The machine words the emulator computes with, at any width: a word is   *)
(* four bytes of ByteBits bits (8 in the code), and is written as the       *)
(* uint32_t of the code, a natural number.  What C's casts, bitwise         *)
(* operators and division do to it is modelled from how src/src/rv32.c      *)
(* uses them.                                                              *)
(***************************************************************************)
EXTENDS Integers

CONSTANT ByteBits

ASSUME ByteBitsAssumption == ByteBits \in Nat \ {0}

XLEN == 4 * ByteBits
WordMod == 2 ^ XLEN
Word == 0..(WordMod - 1)
Byte == 0..(2 ^ ByteBits - 1)

\* (uint32_t) and (int32_t)
ToWord(n) == n % WordMod
Signed(w) == IF w >= WordMod \div 2 THEN w - WordMod ELSE w

\* &, | and ^.  Common is the function of a pair that & is.
Common[p \in Nat \X Nat] ==
    IF p[1] = 0 \/ p[2] = 0 THEN 0
    ELSE 2 * Common[<<p[1] \div 2, p[2] \div 2>>] + (p[1] % 2) * (p[2] % 2)
And(a, b) == Common[<<a, b>>]
Or(a, b) == a + b - And(a, b)
Xor(a, b) == a + b - 2 * And(a, b)

\* t[0] + ... + t[n - 1]
SumOf(t, n) ==
    LET upTo[k \in 0..n] == IF k = 0 THEN 0 ELSE upTo[k - 1] + t[k - 1] IN upTo[n]

\* / and % of C round towards zero.
Abs(n) == IF n < 0 THEN -n ELSE n
CDiv(a, b) == IF (a < 0) # (b < 0) THEN -(Abs(a) \div Abs(b)) ELSE Abs(a) \div Abs(b)
CMod(a, b) == a - b * CDiv(a, b)
==============================================================================
