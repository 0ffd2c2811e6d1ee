------------------------------ MODULE Decoder ------------------------------
(***************************************************************************)
(* The two decoders of InstHandler: callInstSwitch2, a nested switch that  *)
(* runs the instruction, and getInstInd3, a search of the table instList   *)
(* that the disassembler, the analytics and the breakpoints go by. The     *)
(* machine fetches each of the 65536 words in turn.                        *)
(***************************************************************************)
EXTENDS Integers, Sequences, FiniteSetsExt

VARIABLE word           \* the word fetched, NoWord between two

Words == 0..65535
NoWord == -1
Nib(w, k) == (w \div 16^k) % 16
Bit(w, i) == (w \div 2^i) % 2
NibAnd == [x \in 0..15 |-> [y \in 0..15 |->
             MapThenSumSet(LAMBDA i : Bit(x, i) * Bit(y, i) * 2^i, 0..3)]]

\* name, mask and result of the 111 instructions, in the order of the table
instList == <<
  <<"STS",\hFE0F,\h9200>>, <<"LDS",\hFE0F,\h9000>>, <<"POP",\hFE0F,\h900F>>,
  <<"PUSH",\hFE0F,\h920F>>, <<"CALL",\hFE0E,\h940E>>, <<"LD_X",\hFE0F,\h900C>>,
  <<"LD_XpostInc",\hFE0F,\h900D>>, <<"LD_XpreDec",\hFE0F,\h900E>>,
  <<"LD_YpostInc",\hFE0F,\h9009>>, <<"LD_YpreDec",\hFE0F,\h900A>>,
  <<"LD_ZpostInc",\hFE0F,\h9001>>, <<"LD_ZpreDec",\hFE0F,\h9002>>,
  <<"JMP",\hFE0E,\h940C>>, <<"RET",\hFFFF,\h9508>>, <<"ADIW",\hFF00,\h9600>>,
  <<"OUT",\hF800,\hB800>>, <<"IN",\hF800,\hB000>>, <<"ROR",\hFE0F,\h9407>>,
  <<"DEC",\hFE0F,\h940A>>, <<"MUL",\hFC00,\h9C00>>, <<"LPM_0",\hFFFF,\h95C8>>,
  <<"LPM_d",\hFE0F,\h9004>>, <<"LPM_dpostInc",\hFE0F,\h9005>>,
  <<"SBIW",\hFF00,\h9700>>, <<"LSR",\hFE0F,\h9406>>, <<"ST_X",\hFE0F,\h920C>>,
  <<"ST_XpostInc",\hFE0F,\h920D>>, <<"ST_XpreDec",\hFE0F,\h920E>>,
  <<"ST_YpostInc",\hFE0F,\h9209>>, <<"ST_YpreDec",\hFE0F,\h920A>>,
  <<"ST_ZpostInc",\hFE0F,\h9201>>, <<"ST_ZpreDec",\hFE0F,\h9202>>,
  <<"SBI",\hFF00,\h9A00>>, <<"CBI",\hFF00,\h9800>>, <<"COM",\hFE0F,\h9400>>,
  <<"CLI",\hFFFF,\h94F8>>, <<"INC",\hFE0F,\h9403>>, <<"NEG",\hFE0F,\h9401>>,
  <<"ASR",\hFE0F,\h9405>>, <<"ICALL",\hFFFF,\h9509>>, <<"SBIS",\hFF00,\h9B00>>,
  <<"RETI",\hFFFF,\h9518>>, <<"WDR",\hFFFF,\h95A8>>, <<"SLEEP",\hFFFF,\h9588>>,
  <<"SBIC",\hFF00,\h9900>>, <<"CLT",\hFFFF,\h94E8>>, <<"SWAP",\hFE0F,\h9402>>,
  <<"SEI",\hFFFF,\h9478>>, <<"SET",\hFFFF,\h9468>>, <<"SEC",\hFFFF,\h9408>>,
  <<"IJMP",\hFFFF,\h9409>>, <<"EIJMP",\hFFFF,\h9419>>, <<"EICALL",\hFFFF,\h9519>>,
  <<"BSET",\hFF8F,\h9408>>, <<"BCLR",\hFF8F,\h9488>>, <<"CLC",\hFFFF,\h9488>>,
  <<"SEN",\hFFFF,\h9428>>, <<"CLN",\hFFFF,\h94A8>>, <<"SEZ",\hFFFF,\h9418>>,
  <<"CLZ",\hFFFF,\h9498>>, <<"SES",\hFFFF,\h9448>>, <<"CLS",\hFFFF,\h94C8>>,
  <<"SEV",\hFFFF,\h9438>>, <<"CLV",\hFFFF,\h94B8>>, <<"SEH",\hFFFF,\h9458>>,
  <<"CLH",\hFFFF,\h94D8>>, <<"ELPM_0",\hFFFF,\h95D8>>, <<"ELPM_d",\hFE0F,\h9006>>,
  <<"ELPM_dpostInc",\hFE0F,\h9007>>, <<"SPM",\hFFFF,\h95E8>>,
  <<"BREAK",\hFFFF,\h9598>>, <<"LDI",\hF000,\hE000>>, <<"RJMP",\hF000,\hC000>>,
  <<"MOVW",\hFF00,\h0100>>, <<"MOV",\hFC00,\h2C00>>, <<"ADD",\hFC00,\h0C00>>,
  <<"CPC",\hFC00,\h0400>>, <<"AND",\hFC00,\h2000>>, <<"EOR",\hFC00,\h2400>>,
  <<"SBC",\hFC00,\h0800>>, <<"OR",\hFC00,\h2800>>, <<"NOP",\hFFFF,\h0000>>,
  <<"MULSU",\hFF88,\h0300>>, <<"MULS",\hFF00,\h0200>>, <<"FMUL",\hFF88,\h0308>>,
  <<"FMULS",\hFF88,\h0380>>, <<"FMULSU",\hFF88,\h0388>>, <<"BRBS",\hFC00,\hF000>>,
  <<"BRBC",\hFC00,\hF400>>, <<"SBRS",\hFE08,\hFE00>>, <<"SBRC",\hFE08,\hFC00>>,
  <<"RCALL",\hF000,\hD000>>, <<"BST",\hFE08,\hFA00>>, <<"BLD",\hFE08,\hF800>>,
  <<"ADC",\hFC00,\h1C00>>, <<"CPI",\hF000,\h3000>>, <<"CP",\hFC00,\h1400>>,
  <<"CPSE",\hFC00,\h1000>>, <<"SUB",\hFC00,\h1800>>, <<"LDD_Y",\hD208,\h8008>>,
  <<"LDD_Z",\hD208,\h8000>>, <<"LD_Y",\hFE0F,\h8008>>, <<"LD_Z",\hFE0F,\h8000>>,
  <<"STD_Y",\hD208,\h8208>>, <<"STD_Z",\hD208,\h8200>>, <<"ST_Y",\hFE0F,\h8208>>,
  <<"ST_Z",\hFE0F,\h8200>>, <<"SUBI",\hF000,\h5000>>, <<"ANDI",\hF000,\h7000>>,
  <<"SBCI",\hF000,\h4000>>, <<"ORI",\hF000,\h6000>> >>
instListLen == Len(instList)
Name(i) == instList[i + 1][1]          \* the table and its indices start at 0
IND(name) == CHOOSE i \in 0..(instListLen - 1) : Name(i) = name
Matches(w, i) ==
  \A k \in 0..3 : NibAnd[Nib(w, k)][Nib(instList[i + 1][2], k)]
                    = Nib(instList[i + 1][3], k)

\* the table entries a word with top nibble n can match, to search fewer
Candidates == [n \in 0..15 |-> {i \in 0..(instListLen - 1) :
                 NibAnd[n][Nib(instList[i + 1][2], 3)] = Nib(instList[i + 1][3], 3)}]
Entries(w) == {i \in Candidates[Nib(w, 3)] : Matches(w, i)}

-----------------------------------------------------------------------------
\* getInstInd3: the first entry from a start that bits 15, 14 and 12 select

startIndArr == <<73, 94, 109, 107, 99, 0, 71, 87>>
getInstInd3(w) ==
  LET start == startIndArr[2 * (w \div 16384) + Bit(w, 12) + 1]
      found == {i \in Entries(w) : i >= start}
  IN  IF found = {} THEN 255 ELSE Min(found)

\* callInstSwitch, the dispatch by index: 255 and the like halt the machine
callInstSwitch(ind) == IF ind < instListLen THEN Name(ind) ELSE "halt"

-----------------------------------------------------------------------------
\* callInstSwitch2, one operator per group; a case without a return falls
\* through into the next one

Group0(w) ==
  CASE Nib(w, 2) = 0 -> "NOP" [] Nib(w, 2) = 1 -> "MOVW" [] Nib(w, 2) = 2 -> "MULS"
    [] Nib(w, 2) = 3 -> <<"MULSU", "FMUL", "FMULS", "FMULSU">>[2 * Bit(w, 7) + Bit(w, 3) + 1]
    [] OTHER -> <<"CPC", "SBC", "ADD">>[Nib(w, 2) \div 4]
Group1(w) == <<"CPSE", "CP", "SUB", "ADC">>[(Nib(w, 2) \div 4) + 1]
Group2(w) == <<"AND", "EOR", "OR", "MOV">>[(Nib(w, 2) \div 4) + 1]

LoadOps == [n \in 0..15 |-> CASE
  n = 0 -> "LDS" [] n = 1 -> "LD_ZpostInc" [] n = 2 -> "LD_ZpreDec"
    [] n = 4 -> "LPM_d" [] n = 5 -> "LPM_dpostInc" [] n = 6 -> "ELPM_d"
    [] n = 7 -> "ELPM_dpostInc" [] n = 9 -> "LD_YpostInc" [] n = 10 -> "LD_YpreDec"
    [] n = 12 -> "LD_X" [] n = 13 -> "LD_XpostInc" [] n = 14 -> "LD_XpreDec"
    [] n = 15 -> "POP" [] OTHER -> "none"]
StoreOps == [n \in 0..15 |-> CASE
  n = 0 -> "STS" [] n = 1 -> "ST_ZpostInc" [] n = 2 -> "ST_ZpreDec"
    [] n = 9 -> "ST_YpostInc" [] n = 10 -> "ST_YpreDec" [] n = 12 -> "ST_X"
    [] n = 13 -> "ST_XpostInc" [] n = 14 -> "ST_XpreDec" [] n = 15 -> "PUSH"
    [] OTHER -> "fall"]
ControlOps == [n \in 0..15 |-> CASE
  n = 0 -> "RET" [] n = 1 -> "RETI" [] n = 8 -> "SLEEP" [] n = 9 -> "BREAK"
    [] n = 10 -> "WDR" [] n = 12 -> "LPM_0" [] n = 13 -> "ELPM_0" [] n = 14 -> "SPM"
    [] OTHER -> "abort"]
OneOperand(w) ==
  CASE Nib(w, 0) = 0 -> "COM" [] Nib(w, 0) = 1 -> "NEG" [] Nib(w, 0) = 2 -> "SWAP"
    [] Nib(w, 0) = 3 -> "INC" [] Nib(w, 0) = 5 -> "ASR" [] Nib(w, 0) = 6 -> "LSR"
    [] Nib(w, 0) = 7 -> "ROR" [] Nib(w, 0) = 10 -> "DEC"
    [] Nib(w, 0) = 8 -> IF Bit(w, 8) = 1 THEN ControlOps[Nib(w, 1)]
                        ELSE <<"BSET", "BCLR">>[Bit(w, 7) + 1]
    [] Nib(w, 0) = 9 -> <<"IJMP", "EIJMP", "ICALL", "EICALL">>[2 * Bit(w, 8) + Bit(w, 4) + 1]
    [] Nib(w, 0) \in {12, 13} -> "JMP" [] Nib(w, 0) \in {14, 15} -> "CALL"
    [] OTHER -> "ADIW"                 \* falls into the next group
Group9(w) ==
  CASE Nib(w, 2) \in {0, 1} -> LoadOps[Nib(w, 0)]
    [] Nib(w, 2) \in {2, 3} /\ StoreOps[Nib(w, 0)] # "fall" -> StoreOps[Nib(w, 0)]
    [] Nib(w, 2) \in 2..5 -> OneOperand(w)
    [] Nib(w, 2) \in 6..11 ->
         <<"ADIW", "SBIW", "CBI", "SBIC", "SBI", "SBIS">>[Nib(w, 2) - 5]
    [] OTHER -> "MUL"
\* mutant: BST and BLD swapped
Group15Swapped(w) ==
  <<"BRBS", "BRBS", "BRBC", "BRBC", "BST", "BLD", "SBRC", "SBRS">>[(Nib(w, 2) \div 2) + 1]
Group15(w) ==
  <<"BRBS", "BRBS", "BRBC", "BRBC", "BLD", "BST", "SBRC", "SBRS">>[(Nib(w, 2) \div 2) + 1]

callInstSwitch2(w) ==
  LET n == Nib(w, 3)
  IN  CASE n = 0 -> Group0(w) [] n = 1 -> Group1(w) [] n = 2 -> Group2(w)
        [] n \in 3..7 -> <<"CPI", "SBCI", "SUBI", "ORI", "ANDI">>[n - 2]
        [] n \in {8, 10} -> <<"LDD_anyYZ", "STD_anyYZ">>[Bit(w, 9) + 1]
        [] n = 9 -> Group9(w)
        [] n = 11 -> <<"IN", "OUT">>[Bit(w, 11) + 1]
        [] n \in 12..14 -> <<"RJMP", "RCALL", "LDI">>[n - 11]
        [] n = 15 -> Group15(w)

\* mutant: CALL forgotten
is2WordInstButCall(w) ==
  /\ Nib(w, 3) = 9 /\ Nib(w, 2) < 8
  /\ \E name \in {"LDS", "STS", "JMP"} : Matches(w, IND(name))
is2WordInst(w) ==
  /\ Nib(w, 3) = 9 /\ Nib(w, 2) < 8
  /\ \E name \in {"LDS", "STS", "JMP", "CALL"} : Matches(w, IND(name))

-----------------------------------------------------------------------------
\* The operand getters: bit positions from the highest, then base and scale of
\* the value, and whether it is signed

F(bits, base, scale, signed) ==
  [bits |-> bits, base |-> base, scale |-> scale, signed |-> signed]
Plain(bits) == F(bits, 0, 1, FALSE)
Getters ==
  [Rd2_c_arr |-> F(<<5, 4>>, 24, 2, FALSE), Rd3_c_a16 |-> F(<<6, 5, 4>>, 16, 1, FALSE),
   Rr3_c_a16 |-> F(<<2, 1, 0>>, 16, 1, FALSE),
   Rd4_c_a16 |-> F(<<7, 6, 5, 4>>, 16, 1, FALSE), Rr4_c_a16 |-> F(<<3, 2, 1, 0>>, 16, 1, FALSE),
   Rd4_c_m2 |-> F(<<7, 6, 5, 4>>, 0, 2, FALSE), Rr4_c_m2 |-> F(<<3, 2, 1, 0>>, 0, 2, FALSE),
   Rd5_c |-> Plain(<<8, 7, 6, 5, 4>>), Rr5_c |-> Plain(<<9, 3, 2, 1, 0>>),
   K6_d24 |-> Plain(<<7, 6, 3, 2, 1, 0>>), K8_d44 |-> Plain(<<11, 10, 9, 8, 3, 2, 1, 0>>),
   k7_c_sin |-> F(<<9, 8, 7, 6, 5, 4, 3>>, 0, 1, TRUE),
   k12_c_sin |-> F(<<11, 10, 9, 8, 7, 6, 5, 4, 3, 2, 1, 0>>, 0, 1, TRUE),
   b3_c |-> Plain(<<2, 1, 0>>), A5_c |-> Plain(<<7, 6, 5, 4, 3>>), s3_c |-> Plain(<<6, 5, 4>>),
   q6_d123 |-> Plain(<<13, 11, 10, 2, 1, 0>>), A6_d24 |-> Plain(<<10, 9, 3, 2, 1, 0>>)]
\* mutant: bit 8 forgotten
getLongAddrShort == Plain(<<7, 6, 5, 4, 0>>)
getLongAddr == Plain(<<8, 7, 6, 5, 4, 0>>)      \* the part that is in the first word

convTo16BitInt(bitLen, x) == IF Bit(x, bitLen - 1) = 1 THEN x - 2^bitLen ELSE x
Raw(g, w) == MapThenSumSet(LAMBDA j : Bit(w, g.bits[j]) * 2^(Len(g.bits) - j), DOMAIN g.bits)
Value(g, w) ==
  g.base + g.scale * (IF g.signed THEN convTo16BitInt(Len(g.bits), Raw(g, w)) ELSE Raw(g, w))

\* the getters of each entry, par1 and par2 of the table; RJMP, RCALL, JMP and
\* CALL have none there and take their own in the instruction
Params(name) ==
  LET G == Getters
      m == instList[IND(name) + 1][2]
  IN  CASE name \in {"JMP", "CALL"} -> <<getLongAddr>>
        [] name \in {"RJMP", "RCALL"} -> <<G.k12_c_sin>>
        [] name \in {"BRBS", "BRBC"} -> <<G.b3_c, G.k7_c_sin>>
        [] name \in {"ADIW", "SBIW"} -> <<G.Rd2_c_arr, G.K6_d24>>
        [] name \in {"SBI", "CBI", "SBIS", "SBIC"} -> <<G.A5_c, G.b3_c>>
        [] name = "MOVW" -> <<G.Rd4_c_m2, G.Rr4_c_m2>>
        [] name = "MULS" -> <<G.Rd4_c_a16, G.Rr4_c_a16>>
        [] name = "IN" -> <<G.Rd5_c, G.A6_d24>> [] name = "OUT" -> <<G.A6_d24, G.Rd5_c>>
        [] name \in {"BSET", "BCLR"} -> <<G.s3_c>>
        [] m = \hFFFF -> << >>
        [] m = \hFE0F -> <<G.Rd5_c>>
        [] m = \hFE08 -> <<G.Rd5_c, G.b3_c>>
        [] m = \hFF88 -> <<G.Rd3_c_a16, G.Rr3_c_a16>>
        [] m = \hD208 -> <<G.Rd5_c, G.q6_d123>>
        [] m = \hF000 -> <<G.Rd4_c_a16, G.K8_d44>>
        [] m = \hFC00 /\ name \notin {"BRBS", "BRBC"} -> <<G.Rd5_c, G.Rr5_c>>

-----------------------------------------------------------------------------
Init == word = NoWord
Fetch == word = NoWord /\ word' \in Words
Retire == word # NoWord /\ word' = NoWord
Next == Fetch \/ Retire
Spec == Init /\ [][Next]_word

\* Instructions the table and the switch call by different names for the same
\* effect: a displacement of 0, the flag instructions with the flag in the name
SameEffect(listed, run) ==
  \/ listed = run
  \/ listed \in {"LDD_Y", "LDD_Z", "LD_Y", "LD_Z"} /\ run = "LDD_anyYZ"
  \/ listed \in {"STD_Y", "STD_Z", "ST_Y", "ST_Z"} /\ run = "STD_anyYZ"
  \/ listed \in {"SEC", "SEZ", "SEN", "SEV", "SES", "SEH", "SET", "SEI"} /\ run = "BSET"
  \/ listed \in {"CLC", "CLZ", "CLN", "CLV", "CLS", "CLH", "CLT", "CLI"} /\ run = "BCLR"

\* A word the table knows is run as the instruction the table lists: what the
\* disassembly and the breakpoint show is what executes (callInstSwitch2
\* against getInstInd3 and callInstSwitch). Starting the search in the middle
\* of the table never changes its answer.
DecodersAgree ==
  word # NoWord =>
    /\ getInstInd3(word) = IF Entries(word) = {} THEN 255 ELSE Min(Entries(word))
    /\ getInstInd3(word) # 255 =>
         SameEffect(callInstSwitch(getInstInd3(word)), callInstSwitch2(word))

\* A skip steps over two words exactly when the skipped one is an instruction
\* that reads a second word, also for words the table does not know (is2WordInst
\* as setPC_Cycs_Skip uses it, against what callInstSwitch2 would run).
SkipLandsOnInstruction ==
  word # NoWord =>
    (is2WordInst(word) <=> callInstSwitch2(word) \in {"LDS", "STS", "JMP", "CALL"})

\* No bit of a listed word is lost or read twice: entry and operand values give
\* the word back, so two different words never run as the same instruction with
\* the same operands (the masks of instList against the getters).
OperandsEncodeWord ==
  word # NoWord /\ getInstInd3(word) # 255 =>
    LET i == getInstInd3(word)
        Encoded(g) == LET raw == ((Value(g, word) - g.base) \div g.scale) % 2^Len(g.bits)
                      IN  MapThenSumSet(LAMBDA j : Bit(raw, Len(g.bits) - j) * 2^(g.bits[j]),
                                        DOMAIN g.bits)
        pars == Params(Name(i))
    IN  word = instList[i + 1][3]
                 + MapThenSumSet(LAMBDA p : Encoded(pars[p]), DOMAIN pars)
=============================================================================
