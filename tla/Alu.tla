-------------------------------- MODULE Alu --------------------------------
(***************************************************************************)
(* The arithmetic, logic and bit instructions of InstHandler.cpp and the   *)
(* flag functions of DataSpace.cpp they call, as operators on bytes. An    *)
(* instruction returns Out(v, f): the value written to Rd and the flags.   *)
(***************************************************************************)
EXTENDS Integers, Sequences

Byte == 0..255
Flags == [{"C", "Z", "N", "V", "S", "H", "T"} -> BOOLEAN]
Word(hi, lo) == 256 * hi + lo
Signed(x) == IF x >= 128 THEN x - 256 ELSE x          \* (int8_t)x
Top(x) == x >= 128                                    \* bit 7
Bit(x, i) == (x \div 2^i) % 2 = 1
Num(p) == IF p THEN 1 ELSE 0
FromBits(P(_)) == Num(P(0)) + 2 * Num(P(1)) + 4 * Num(P(2)) + 8 * Num(P(3))
                  + 16 * Num(P(4)) + 32 * Num(P(5)) + 64 * Num(P(6)) + 128 * Num(P(7))

-----------------------------------------------------------------------------
\* The flag functions: the new flags after an operation on bytes or words

setFlags_NZ(f, res) == [f EXCEPT !.N = res >= 128, !.Z = res = 0]

setFlags_HSVNZC_ADD(f, x, y, c, res) ==
  LET V == \/ Top(x) /\ Top(y) /\ ~Top(res)
           \/ ~Top(x) /\ ~Top(y) /\ Top(res)
  IN  [setFlags_NZ(f, res) EXCEPT
        !.V = V, !.S = Top(res) # V,
        !.C = (x + y + c) \div 256 # 0,
        !.H = (x % 16) + (y % 16) + c >= 16]

\* mutant: Z is that of this byte alone
setFlags_HSVNZC_SUBNewZ(f, x, y, c, res, inclZ) ==
  LET V == Signed(res) # Signed(x) - Signed(y) - c
  IN  [f EXCEPT !.V = V, !.N = Top(res), !.S = Top(res) # V, !.Z = res = 0,
                !.C = x < y + c, !.H = (y % 16) + c > x % 16]
setFlags_HSVNZC_SUB(f, x, y, c, res, inclZ) ==
  LET V == Signed(res) # Signed(x) - Signed(y) - c
  IN  [f EXCEPT !.V = V, !.N = Top(res), !.S = Top(res) # V,
                !.Z = res = 0 /\ (inclZ => f.Z),
                !.C = x < y + c,
                !.H = (y % 16) + c > x % 16]

setFlags_SVNZ(f, res) == [setFlags_NZ(f, res) EXCEPT !.V = FALSE, !.S = Top(res)]
setFlags_SVNZC(f, res) == [setFlags_SVNZ(f, res) EXCEPT !.C = TRUE]

\* V is "the 16-bit sum wrapped", which is the carry, not the signed overflow
setFlags_SVNZC_ADD_16(f, x, y, res) ==
  LET V == res # x + y
      N == res >= 32768
  IN  [f EXCEPT !.V = V, !.N = N, !.S = N # V, !.Z = res = 0,
                !.C = res < 32768 /\ x >= 32768]

setFlags_SVNZC_SUB_16(f, x, y, res) ==
  LET V == x >= 32768 /\ res < 32768
      N == res >= 32768
  IN  [f EXCEPT !.V = V, !.N = N, !.S = N # V, !.Z = res = 0, !.C = y > x]

-----------------------------------------------------------------------------
\* The instructions on bytes: the value written to Rd and the flags

Out(v, f) == [v |-> v, f |-> f]

INST_ADD(d, r, f) == LET res == (d + r) % 256
                     IN  Out(res, setFlags_HSVNZC_ADD(f, d, r, 0, res))
INST_ADC(d, r, f) == LET res == (d + r + Num(f.C)) % 256
                     IN  Out(res, setFlags_HSVNZC_ADD(f, d, r, Num(f.C), res))
INST_SUB(d, r, f) == LET res == (d - r) % 256
                     IN  Out(res, setFlags_HSVNZC_SUB(f, d, r, 0, res, FALSE))
INST_SUBI(d, K, f) == INST_SUB(d, K, f)
INST_SBC(d, r, f) == LET res == (d - (r + Num(f.C))) % 256
                     IN  Out(res, setFlags_HSVNZC_SUB(f, d, r, Num(f.C), res, TRUE))
INST_SBCI(d, K, f) == INST_SBC(d, K, f)
INST_CP(d, r, f) == Out(d, INST_SUB(d, r, f).f)
INST_CPI(d, K, f) == INST_CP(d, K, f)
INST_CPC(d, r, f) == Out(d, INST_SBC(d, r, f).f)

Logic(d, r, f, Op(_, _)) ==
  LET res == FromBits(LAMBDA i : Op(Bit(d, i), Bit(r, i)))
  IN  Out(res, setFlags_SVNZ(f, res))
INST_AND(d, r, f) == Logic(d, r, f, LAMBDA p, q : p /\ q)
INST_ANDI(d, K, f) == INST_AND(d, K, f)
INST_OR(d, r, f) == Logic(d, r, f, LAMBDA p, q : p \/ q)
INST_ORI(d, K, f) == INST_OR(d, K, f)
INST_EOR(d, r, f) == Logic(d, r, f, LAMBDA p, q : p # q)
INST_COM(d, f) == Out(255 - d, setFlags_SVNZC(f, 255 - d))

INST_NEG(d, f) ==
  LET res == (0 - d) % 256
      V == res = 128
  IN  Out(res, [setFlags_NZ(f, res) EXCEPT
                 !.H = d % 16 # 0, !.V = V, !.S = Top(res) # V, !.C = res # 0])
\* mutant: steps like ADD, carry and all
INST_INCCarry(d, f) == INST_ADD(d, 1, f)
INST_INC(d, f) ==
  LET res == (d + 1) % 256
      V == res = 128
  IN  Out(res, [setFlags_NZ(f, res) EXCEPT !.V = V, !.S = Top(res) # V])
INST_DEC(d, f) ==
  LET res == (d - 1) % 256
      V == res = 127
  IN  Out(res, [setFlags_NZ(f, res) EXCEPT !.V = V, !.S = Top(res) # V])

\* the common end of the three right shifts: C is the bit shifted out
Shifted(d, res, f) ==
  LET C == d % 2 = 1
      N == Top(res)
  IN  Out(res, [f EXCEPT !.C = C, !.N = N, !.V = N # C, !.S = N # (N # C),
                         !.Z = res = 0])
INST_LSR(d, f) == Shifted(d, d \div 2, f)
\* mutant: shifts a zero in
INST_RORZero(d, f) == Shifted(d, d \div 2, f)
INST_ROR(d, f) == Shifted(d, d \div 2 + 128 * Num(f.C), f)
INST_ASR(d, f) == Shifted(d, (Signed(d) \div 2) % 256, f)

INST_SWAP(d, f) == Out(d \div 16 + 16 * (d % 16), f)
INST_BST(d, i, f) == Out(d, [f EXCEPT !.T = Bit(d, i)])
INST_BLD(d, i, f) ==
  Out(FromBits(LAMBDA j : IF j = i THEN f.T ELSE Bit(d, j)), f)

-----------------------------------------------------------------------------
\* The instructions on words

INST_ADIW(w, K, f) == LET res == (w + K) % 65536
                      IN  Out(res, setFlags_SVNZC_ADD_16(f, w, K, res))
INST_SBIW(w, K, f) == LET res == (w - K) % 65536
                      IN  Out(res, setFlags_SVNZC_SUB_16(f, w, K, res))

\* R1:R0 and the flags of a product, and of one shifted left by a bit
Product(p, f) == Out(p % 65536, [f EXCEPT !.C = p % 65536 >= 32768,
                                          !.Z = p % 65536 = 0])
Fraction(p, f) == Out((2 * p) % 65536, [f EXCEPT !.C = p % 65536 >= 32768,
                                                 !.Z = (2 * p) % 65536 = 0])
INST_MUL(d, r, f) == Product(d * r, f)
INST_MULS(d, r, f) == Product(Signed(d) * Signed(r), f)
\* mutant: the other operand is the signed one
INST_MULUS(d, r, f) == Product(d * Signed(r), f)
INST_MULSU(d, r, f) == Product(Signed(d) * r, f)
INST_FMUL(d, r, f) == Fraction(d * r, f)
INST_FMULS(d, r, f) == Fraction(Signed(d) * Signed(r), f)
INST_FMULSU(d, r, f) == Fraction(Signed(d) * r, f)

\* IN and OUT of SREG: the byte made of the flags, the flags made of a byte
sregOrder == <<"C", "Z", "N", "V", "S", "H", "T">>
getSREG(f) == FromBits(LAMBDA i : i < 7 /\ f[sregOrder[i + 1]])
\* mutant: T is not taken back
updateSREGCacheArith(f, val) ==
  [flag \in DOMAIN f |-> IF flag = "T" THEN f.T ELSE
     Bit(val, (CHOOSE i \in 1..7 : sregOrder[i] = flag) - 1)]
updateSREGCache(f, val) ==
  [flag \in DOMAIN f |->
     Bit(val, (CHOOSE i \in 1..7 : sregOrder[i] = flag) - 1)]
INST_BSET(s, f) == [f EXCEPT ![s] = TRUE]
INST_BCLR(s, f) == [f EXCEPT ![s] = FALSE]
=============================================================================
