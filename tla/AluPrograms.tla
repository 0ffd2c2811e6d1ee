----------------------------- MODULE AluPrograms -----------------------------
(***************************************************************************)
(* A register machine that runs, on every operand, the instruction         *)
(* sequences compilers emit for 16-bit values, and the routines that       *)
(* multiply two of them. The flags one byte leaves are what the next byte  *)
(* starts from, so a wrong flag is a wrong sum or a wrong branch two       *)
(* instructions later.                                                     *)
(***************************************************************************)
EXTENDS Alu

CONSTANTS
  Bytes,       \* the bytes operands are made of, a subset of Byte
  FlagStates   \* the flags a sequence may start with, a subset of Flags

VARIABLES
  R,        \* registers: the pairs ah:al and bh:bl, a spare n, the product p1:p0,
            \* the four bytes q3..q0 of a long one and z, which is kept at zero
  sreg,     \* the flag cache
  program,  \* the sequence being run, "idle" between two
  pc,       \* its next instruction
  R0, sreg0 \* R and sreg when it started
vars == <<R, sreg, program, pc, R0, sreg0>>

Regs == {"ah", "al", "bh", "bl", "n", "p1", "p0", "q3", "q2", "q1", "q0", "z"}

\* A product into q3:q2 or q1:q0 (MOVW), or added to q3:q2:q1; C is its sign when it
\* has one, and SBC extends it by that
High == <<"MOVW", "q3", "q2">>
Low  == <<"MOVW", "q1", "q0">>
Extend == <<"SBC", "q3", "z">>
AddLow  == <<"ADD", "q1", "p0">>
AddMid  == <<"ADC", "q2", "p1">>
AddHigh == <<"ADC", "q3", "z">>

\* Sequences of <<instruction, destination, source>>; the sources F0 and FF are
\* immediates, a digit is a bit number, C to T are flags
Programs ==
  [add  |-> << <<"ADD", "al", "bl">>, <<"ADC", "ah", "bh">> >>,
   loop |-> << <<"ADD", "al", "bl">>, <<"INC", "n", "-">>, <<"DEC", "n", "-">>,
               <<"ADC", "ah", "bh">> >>,
   sub  |-> << <<"SUB", "al", "bl">>, <<"SBC", "ah", "bh">> >>,
   subi |-> << <<"SUBI", "al", "bl">>, <<"SBCI", "ah", "bh">> >>,
   cp   |-> << <<"CP", "al", "bl">>, <<"CPC", "ah", "bh">> >>,
   cpi  |-> << <<"CPI", "al", "bl">>, <<"CPC", "ah", "bh">> >>,
   neg  |-> << <<"COM", "ah", "-">>, <<"NEG", "al", "-">>, <<"SBCI", "ah", "FF">> >>,
   test |-> << <<"OR", "al", "ah">> >>,
   same |-> << <<"EOR", "al", "bl">>, <<"EOR", "ah", "bh">>, <<"OR", "al", "ah">> >>,
   not  |-> << <<"COM", "al", "-">>, <<"COM", "ah", "-">>, <<"AND", "al", "bl">>,
               <<"ORI", "ah", "bh">> >>,
   lsr  |-> << <<"LSR", "ah", "-">>, <<"ROR", "al", "-">> >>,
   asr  |-> << <<"ASR", "ah", "-">>, <<"ROR", "al", "-">> >>,
   asrt |-> << <<"BST", "ah", "7">>, <<"LSR", "ah", "-">>, <<"ROR", "al", "-">>,
               <<"BLD", "ah", "7">> >>,
   shl4 |-> << <<"SWAP", "ah", "-">>, <<"SWAP", "al", "-">>, <<"ANDI", "ah", "F0">>,
               <<"EOR", "ah", "al">>, <<"ANDI", "al", "F0">>, <<"EOR", "ah", "al">> >>,
   isr  |-> << <<"IN", "n", "SREG">>, <<"ADD", "al", "bl">>, <<"BSET", "n", "T">>,
               <<"BCLR", "n", "Z">>, <<"OUT", "n", "SREG">> >>,
   adiw |-> << <<"ADIW", "a", "bl">> >>,   sbiw |-> << <<"SBIW", "a", "bl">> >>,
   mul  |-> << <<"MUL", "ah", "bh">>, High, <<"MUL", "al", "bl">>, Low,
               <<"MUL", "ah", "bl">>, AddLow, AddMid, AddHigh,
               <<"MUL", "bh", "al">>, AddLow, AddMid, AddHigh >>,
   muls |-> << <<"MULS", "ah", "bh">>, High, <<"MUL", "al", "bl">>, Low,
               <<"MULSU", "ah", "bl">>, Extend, AddLow, AddMid, AddHigh,
               <<"MULSU", "bh", "al">>, Extend, AddLow, AddMid, AddHigh >>,
   fmuls |-> << <<"FMULS", "ah", "bh">>, High, <<"FMUL", "al", "bl">>, <<"ADC", "q2", "z">>, Low,
                <<"FMULSU", "ah", "bl">>, Extend, AddLow, AddMid, AddHigh,
                <<"FMULSU", "bh", "al">>, Extend, AddLow, AddMid, AddHigh >>]

Operand(s) == CASE s = "F0" -> 240 [] s = "FF" -> 255 [] s \in Regs -> R[s]

Init ==
  /\ R = [r \in Regs |-> 0]
  /\ sreg = [flag \in {"C", "Z", "N", "V", "S", "H", "T"} |-> FALSE]
  /\ program = "idle" /\ pc = 1
  /\ R0 = R /\ sreg0 = sreg

\* The host puts operands in the registers, any flags in SREG and the PC at a
\* sequence
Load ==
  /\ program = "idle"
  /\ program' \in DOMAIN Programs
  /\ \E ah, al, bh, bl \in Bytes :
       R' = [R EXCEPT !.ah = ah, !.al = al, !.bh = bh, !.bl = bl]
  /\ sreg' \in FlagStates
  /\ pc' = 1 /\ R0' = R' /\ sreg0' = sreg'

Finished == program # "idle" /\ pc > Len(Programs[program])
Current == Programs[program][pc]
Running == program # "idle" /\ ~Finished

\* One byte instruction: its value goes to the register, the flags to sreg
Byte1(op, Inst(_, _)) ==
  /\ Current[1] = op
  /\ LET out == Inst(R[Current[2]], sreg)
     IN  R' = [R EXCEPT ![Current[2]] = out.v] /\ sreg' = out.f
Byte2(op, Inst(_, _, _)) ==
  Byte1(op, LAMBDA d, f : Inst(d, Operand(Current[3]), f))
Wide(op, Inst(_, _, _)) ==      \* ADIW, SBIW: the constant has 6 bits
  /\ Current[1] = op
  /\ LET out == Inst(Word(R.ah, R.al), R.bl % 64, sreg)
     IN  /\ R' = [R EXCEPT !.ah = out.v \div 256, !.al = out.v % 256]
         /\ sreg' = out.f
Multiply(op, Inst(_, _, _)) ==
  /\ Current[1] = op
  /\ LET out == Inst(R[Current[2]], R[Current[3]], sreg)
     IN  /\ R' = [R EXCEPT !.p1 = out.v \div 256, !.p0 = out.v % 256]
         /\ sreg' = out.f
INST_MOVW ==                    \* from the product
  /\ Current[1] = "MOVW"
  /\ R' = [R EXCEPT ![Current[2]] = R.p1, ![Current[3]] = R.p0] /\ UNCHANGED sreg

Arithmetic ==
  \/ Byte2("ADD", INST_ADD)   \/ Byte2("ADC", INST_ADC)   \/ Byte2("SUB", INST_SUB)
  \/ Byte2("SBC", INST_SBC)   \/ Byte2("SUBI", INST_SUBI) \/ Byte2("SBCI", INST_SBCI)
  \/ Byte2("CP", INST_CP)     \/ Byte2("CPC", INST_CPC)   \/ Byte2("CPI", INST_CPI)
  \/ Byte1("NEG", INST_NEG)   \/ Byte1("INC", INST_INC)   \/ Byte1("DEC", INST_DEC)
  \/ Wide("ADIW", INST_ADIW)  \/ Wide("SBIW", INST_SBIW)
  \/ Multiply("MUL", INST_MUL)     \/ Multiply("MULS", INST_MULS)
  \/ Multiply("MULSU", INST_MULSU) \/ Multiply("FMUL", INST_FMUL)
  \/ Multiply("FMULS", INST_FMULS) \/ Multiply("FMULSU", INST_FMULSU) \/ INST_MOVW
LogicAndBits ==
  \/ Byte2("AND", INST_AND)   \/ Byte2("ANDI", INST_ANDI) \/ Byte2("OR", INST_OR)
  \/ Byte2("ORI", INST_ORI)   \/ Byte2("EOR", INST_EOR)   \/ Byte1("COM", INST_COM)
  \/ Byte1("LSR", INST_LSR)   \/ Byte1("ROR", INST_ROR)   \/ Byte1("ASR", INST_ASR)
  \/ Byte1("SWAP", INST_SWAP)
  \/ Byte1("BST", LAMBDA d, f : INST_BST(d, 7, f))
  \/ Byte1("BLD", LAMBDA d, f : INST_BLD(d, 7, f))
  \/ Byte1("BSET", LAMBDA d, f : Out(d, INST_BSET(Current[3], f)))
  \/ Byte1("BCLR", LAMBDA d, f : Out(d, INST_BCLR(Current[3], f)))
  \/ Byte1("IN", LAMBDA d, f : Out(getSREG(f), f))
  \/ Byte1("OUT", LAMBDA d, f : Out(d, updateSREGCache(f, d)))

Step ==
  /\ Running
  /\ Arithmetic \/ LogicAndBits
  /\ pc' = pc + 1
  /\ UNCHANGED <<program, R0, sreg0>>
Unload == Finished /\ R' = [r \in Regs |-> 0] /\ program' = "idle" /\ pc' = 1
          /\ sreg' = [flag \in DOMAIN sreg |-> FALSE] /\ R0' = R' /\ sreg0' = sreg'

Next == Load \/ Step \/ Unload
Spec == Init /\ [][Next]_vars

-----------------------------------------------------------------------------
\* What a finished sequence must have computed

Done(p) == program = p /\ Finished
A0 == Word(R0.ah, R0.al)
A1 == Word(R.ah, R.al)
B0 == Word(R0.bh, R0.bl)
SignedWord(w) == IF w >= 32768 THEN w - 65536 ELSE w
K6 == R0.bl % 64                       \* the constant of ADIW and SBIW
InWord(x) == -32768 <= x /\ x <= 32767     \* x is a signed 16-bit number

\* ADD and ADC, also with a loop counter stepped between them, leave the 16-bit
\* sum, and the carry and the overflow of that sum: INC and DEC keep the carry
\* (InstHandler.cpp INST_ADD, INST_ADC, INST_INC, INST_DEC).
SumCarries ==
  /\ \A p \in {"add", "loop"} : Done(p) =>
       /\ A1 = (A0 + B0) % 65536
       /\ sreg.C = (A0 + B0 > 65535)
       /\ sreg.V = ~InWord(SignedWord(A0) + SignedWord(B0))
       /\ sreg.S = (SignedWord(A0) + SignedWord(B0) < 0)
  /\ Done("adiw") => /\ A1 = (A0 + K6) % 65536
                     /\ sreg.C = (A0 + K6 > 65535)
                     /\ sreg.Z = (A1 = 0)

\* After a 16-bit subtraction or comparison, however it was coded, BRCS, BREQ
\* and BRLT (C, Z and S) branch on unsigned less, equal and signed less; a
\* comparison writes no register (setFlags_HSVNZC_SUB and its Incl_Z).
CompareOrders ==
  /\ \A p \in {"sub", "subi", "cp", "cpi"} : Done(p) =>
       /\ sreg.C = (A0 < B0) /\ sreg.Z = (A0 = B0)
       /\ sreg.S = (SignedWord(A0) < SignedWord(B0))
       /\ A1 = IF p \in {"sub", "subi"} THEN (A0 - B0) % 65536 ELSE A0
  /\ Done("sbiw") => /\ sreg.C = (A0 < K6) /\ sreg.Z = (A0 = K6)
       /\ sreg.S = (SignedWord(A0) < K6) /\ A1 = (A0 - K6) % 65536

\* COM, NEG and SBCI with 0xFF negate a word; a right shift of a pair halves it,
\* the signed one rounding down, and leaves the lost bit in C; BST and BLD put a
\* sign back; two SWAPs with masks shift left by four; OR of its bytes tests a
\* word for zero, EOR and OR compare two words, AND, OR and COM work bit by bit.
BitsOfWords ==
  /\ Done("neg") => A1 = (-A0) % 65536
  /\ \A p \in {"lsr", "asr", "asrt"} : Done(p) =>
       /\ A1 = IF p = "lsr" THEN A0 \div 2 ELSE (SignedWord(A0) \div 2) % 65536
       /\ sreg.C = (A0 % 2 = 1)
  /\ Done("shl4") => A1 = (16 * A0) % 65536
  /\ Done("test") => sreg.Z = (A0 = 0)
  /\ Done("same") => sreg.Z = (A0 = B0)
  /\ Done("not") =>
       \A i \in 0..7 : /\ Bit(R.al, i) = (~Bit(R0.al, i) /\ Bit(R0.bl, i))
                       /\ Bit(R.ah, i) = (~Bit(R0.ah, i) \/ Bit(R0.bh, i))

\* The upper and the lower word of a * b modulo 2^32, from its products with the low
\* byte of b and with the rest of it
TimesLow(a, b)  == a * (b % 256)
TimesHigh(a, b) == a * (b \div 256)
UpperWord(a, b) == ((TimesLow(a, b) \div 256 + TimesHigh(a, b)) \div 256) % 65536
LowerWord(a, b) == (TimesLow(a, b) + 256 * (TimesHigh(a, b) % 256)) % 65536

\* Four products of bytes, each put or added where it belongs, extended by its sign in C
\* or carried on by its lost top bit in C, make the 32-bit product of two words,
\* unsigned, signed, and doubled for fractions (INST_MUL to INST_FMULSU, INST_ADC,
\* INST_SBC, INST_MOVW).
Products ==
  LET sa == SignedWord(A0)  sb == SignedWord(B0)
      Factor == [mul |-> A0, muls |-> sa, fmuls |-> 2 * sa]
      Other  == [mul |-> B0, muls |-> sb, fmuls |-> sb]
  IN  \A p \in {"mul", "muls", "fmuls"} : Done(p) =>
        /\ Word(R.q3, R.q2) = UpperWord(Factor[p], Other[p])
        /\ Word(R.q1, R.q0) = LowerWord(Factor[p], Other[p])

\* A handler that saves SREG with IN, computes, and restores it with OUT leaves
\* the flags as it found them, although the cache holds them apart from the
\* byte (getByteAt of SREG, updateSREGCache).
FlagsSurvive == Done("isr") => sreg = sreg0
=============================================================================
