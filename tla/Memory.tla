-------------------------------- MODULE Memory --------------------------------
(***************************************************************************)
(* Loads, stores, moves, the stack's bytes, skips and branches, run as the *)
(* loops and frames compilers make of them. Registers are the first cells  *)
(* of the data space, a pointer is a pair of them, and an instruction      *)
(* returns how far the PC moves. Addresses here are registers, SP or RAM;  *)
(* those with a hook are in Peripherals.                                   *)
(***************************************************************************)
EXTENDS Alu, FiniteSetsExt

CONSTANTS
  Window,     \* the RAM cells the programs use, consecutive addresses
  Fills,      \* what the window may hold at first, functions from it to bytes
  Table,      \* the flash: a function from byte addresses to bytes
  MaxLen      \* bound on the length of a block

VARIABLES
  data,       \* DataSpace::data, the cells in use
  sreg,       \* the flag cache
  program,    \* [does: what it is for, code], Idle between two
  pc,         \* the word of it that is next
  data0       \* data when it was started
vars == <<data, sreg, program, pc, data0>>

X == 26   Y == 28   Z == 30   SPL == 93
Regs == {0, 1, 16} \cup X..(Z + 1)
Cells == Regs \cup {SPL, SPL + 1} \cup Window

-----------------------------------------------------------------------------
\* getX, getY, getZ, getWordRegRam and the setters: words in two cells

getWord(d, p) == Word(d[p + 1], d[p])
setWord(d, p, w) == [d EXCEPT ![p + 1] = (w \div 256) % 256, ![p] = w % 256]

\* the three addressing modes of LD and ST: the cell, then the pointer
Load(d, r, p) == [d EXCEPT ![r] = d[getWord(d, p)]]
LoadInc(d, r, p) == setWord(Load(d, r, p), p, getWord(d, p) + 1)
LoadDec(d, r, p) ==
  setWord([d EXCEPT ![r] = d[getWord(d, p) - 1]], p, getWord(d, p) - 1)
Store(d, r, p) == [d EXCEPT ![getWord(d, p)] = d[r]]
StoreInc(d, r, p) == setWord(Store(d, r, p), p, getWord(d, p) + 1)
StoreDec(d, r, p) ==
  setWord([d EXCEPT ![getWord(d, p) - 1] = d[r]], p, getWord(d, p) - 1)

INST_LD_X(d, r) == Load(d, r, X)
INST_LD_XpostInc(d, r) == LoadInc(d, r, X)
INST_LD_XpreDec(d, r) == LoadDec(d, r, X)
INST_LD_YpostInc(d, r) == LoadInc(d, r, Y)
INST_LD_YpreDec(d, r) == LoadDec(d, r, Y)
\* mutant: copied from the X variant, setX and all
INST_LD_ZpostIncSetX(d, r) == setWord(Load(d, r, Z), X, getWord(d, Z) + 1)
INST_LD_ZpostInc(d, r) == LoadInc(d, r, Z)
INST_LD_ZpreDec(d, r) == LoadDec(d, r, Z)
INST_LDD_anyYZ(d, r, p, q) == [d EXCEPT ![r] = d[getWord(d, p) + q]]
INST_LDS(d, r, k) == [d EXCEPT ![r] = d[k]]
INST_ST_X(d, r) == Store(d, r, X)
INST_ST_XpostInc(d, r) == StoreInc(d, r, X)
INST_ST_XpreDec(d, r) == StoreDec(d, r, X)
INST_ST_YpostInc(d, r) == StoreInc(d, r, Y)
INST_ST_YpreDec(d, r) == StoreDec(d, r, Y)
INST_ST_ZpostInc(d, r) == StoreInc(d, r, Z)
INST_ST_ZpreDec(d, r) == StoreDec(d, r, Z)
\* mutant: the displacement is not added
INST_STD_anyYZNoQ(d, r, p, q) == [d EXCEPT ![getWord(d, p)] = d[r]]
INST_STD_anyYZ(d, r, p, q) == [d EXCEPT ![getWord(d, p) + q] = d[r]]
INST_STS(d, r, k) == [d EXCEPT ![k] = d[r]]

\* RAMPZ is 0: the flash is smaller than 64 KiB, so ELPM reads what LPM reads
INST_LPM_0(d) == [d EXCEPT ![0] = Table[getWord(d, Z)]]
INST_LPM_d(d, r) == [d EXCEPT ![r] = Table[getWord(d, Z)]]
INST_LPM_dpostInc(d, r) == setWord(INST_LPM_d(d, r), Z, getWord(d, Z) + 1)
INST_ELPM_0(d) == INST_LPM_0(d)
INST_ELPM_d(d, r) == INST_LPM_d(d, r)
INST_ELPM_dpostInc(d, r) == INST_LPM_dpostInc(d, r)

INST_LDI(d, r, K) == [d EXCEPT ![r] = K]
INST_MOV(d, r, s) == [d EXCEPT ![r] = d[s]]
INST_MOVW(d, r, s) == [d EXCEPT ![r] = d[s], ![r + 1] = d[s + 1]]

INST_PUSH(d, r) == setWord([d EXCEPT ![getWord(d, SPL)] = d[r]], SPL, getWord(d, SPL) - 1)
INST_POP(d, r) ==
  [setWord(d, SPL, getWord(d, SPL) + 1) EXCEPT ![r] = d[getWord(d, SPL) + 1]]

-----------------------------------------------------------------------------
\* Skips and branches: how far the PC moves

is2WordInst(inst) == inst[1] \in {"LDS", "STS"}
setPC_Cycs_Skip(code, at, cond) ==
  IF ~cond THEN 1 ELSE IF is2WordInst(code[at + 1]) THEN 3 ELSE 2
INST_CPSE(d, code, at, r, s) == setPC_Cycs_Skip(code, at, d[r] = d[s])
\* mutant: the whole register is tested
INST_SBRCAll(d, code, at, r, b) == setPC_Cycs_Skip(code, at, d[r] = 0)
INST_SBRC(d, code, at, r, b) == setPC_Cycs_Skip(code, at, ~Bit(d[r], b))
INST_SBRS(d, code, at, r, b) == setPC_Cycs_Skip(code, at, Bit(d[r], b))
INST_BRBS(f, s, k) == IF f[s] THEN k + 1 ELSE 1
INST_BRBC(f, s, k) == IF f[s] THEN 1 ELSE k + 1
INST_RJMP(k) == k + 1

-----------------------------------------------------------------------------
\* The programs: <<instruction, operands>>, "-" the second word of another

Pointers == {X, Y, Z}
Mode(p, x, y, z) == IF p = X THEN x ELSE IF p = Y THEN y ELSE z
LdInc(p) == Mode(p, "LD_XpostInc", "LD_YpostInc", "LD_ZpostInc")
LdDec(p) == Mode(p, "LD_XpreDec", "LD_YpreDec", "LD_ZpreDec")
StInc(p) == Mode(p, "ST_XpostInc", "ST_YpostInc", "ST_ZpostInc")
StDec(p) == Mode(p, "ST_XpreDec", "ST_YpreDec", "ST_ZpreDec")
Counted(n, body) ==        \* LDI n, then the body until DEC makes it 0
  << <<"LDI", 16, n>> >> \o body
    \o << <<"DEC", 16>>, <<"BRBC", "Z", -(Len(body) + 2)>> >>
Frame ==      \* a function that exchanges R0 and R1 through two locals
  << <<"PUSH", Y>>, <<"PUSH", Y + 1>>, <<"PUSH", 0>>, <<"PUSH", 0>>,
     <<"LDS", Y, SPL>>, <<"-">>, <<"LDS", Y + 1, SPL + 1>>, <<"-">>,
     <<"STD_anyYZ", 0, Y, 1>>, <<"STD_anyYZ", 1, Y, 2>>, <<"MOVW", Z, Y>>,
     <<"LDD_anyYZ", 0, Z, 2>>, <<"LDD_anyYZ", 1, Z, 1>>,
     <<"POP", 16>>, <<"POP", 16>>, <<"POP", Y + 1>>, <<"POP", Y>> >>
Is(does, code) == [does |-> does, code |-> code]
Programs ==
  {Is(<<"up", p, q, n>>, Counted(n, << <<LdInc(p), 0>>, <<StInc(q), 0>> >>)) :
      p \in Pointers, q \in Pointers, n \in 1..MaxLen}
  \cup {Is(<<"down", p, q, n>>, Counted(n, << <<LdDec(p), 0>>, <<StDec(q), 0>> >>)) :
      p \in Pointers, q \in Pointers, n \in 1..MaxLen}
  \cup {Is(<<"pair", p, q, 2>>,
           << <<"LDD_anyYZ", 0, p, 0>>, <<"LDD_anyYZ", 1, p, 1>>,
              <<"STD_anyYZ", 0, q, 0>>, <<"STD_anyYZ", 1, q, 1>> >>) :
      p \in {Y, Z}, q \in {Y, Z}}
  \cup {Is(<<"table", n>>, Counted(n, << <<lpm, 0>>, <<"ST_XpostInc", 0>> >>)) :
      lpm \in {"LPM_dpostInc", "ELPM_dpostInc"}, n \in 1..MaxLen}
  \cup {Is(<<"entry">>, << <<lpm, 1>>, <<"MOV", 0, 1>>, <<"ST_X", 0>> >>) :
      lpm \in {"LPM_d", "ELPM_d"}}
  \cup {Is(<<"entry">>, << <<lpm>>, <<"ST_X", 0>> >>) : lpm \in {"LPM_0", "ELPM_0"}}
  \cup {Is(<<"find", v>>, << <<"LDI", 16, v>>, <<"LD_XpostInc", 0>>,
                             <<"CPSE", 0, 16>>, <<"RJMP", -3>> >>) : v \in 0..3}
  \cup {Is(<<"update", k>>, << <<"LD_X", 0>>, <<"LDS", 1, k>>, <<"-">>,
                               <<"CPSE", 0, 1>>, <<"STS", 0, k>>, <<"-">> >>) : k \in Window}
  \cup {Is(<<"update">>, << <<"LD_X", 0>>, <<"LDD_anyYZ", 1, Y, 0>>, <<"CP", 0, 1>>,
                            <<"BRBS", "Z", 1>>, <<"STD_anyYZ", 0, Y, 0>> >>)}
  \cup {Is(<<"bit", b>>, << <<"LD_X", 0>>, <<"LDI", 16, 1 - i>>,
                            <<IF i = 1 THEN "SBRC" ELSE "SBRS", 0, b>>, <<"LDI", 16, i>> >>) :
      b \in 0..1, i \in 0..1}
  \cup {Is(<<"frame">>, Frame)}
Idle == Is(<<"idle">>, << >>)

Finished == program # Idle /\ pc = Len(program.code) + 1
Current == program.code[pc]

Init ==
  /\ data = [c \in Cells |-> 0]
  /\ sreg = [flag \in {"C", "Z", "N", "V", "S", "H", "T"} |-> FALSE]
  /\ program = Idle /\ pc = 1 /\ data0 = data

Block(does, w, n) == IF does = "down" THEN (w - n)..(w - 1) ELSE w..(w + n - 1)
Copies(does) == does[1] \in {"up", "down", "pair"}

\* What a program touches lies in the window, and a copy that overlaps its
\* source runs in the direction that may
Fits(does, d) ==
  LET s == getWord(d, does[2])   t == getWord(d, does[3])   n == does[4]
  IN  CASE Copies(does) ->
             /\ does[2] # does[3]
             /\ Block(does[1], s, n) \cup Block(does[1], t, n) \subseteq Window
             /\ does[1] = "up" => t <= s \/ t >= s + n
             /\ does[1] = "down" => t >= s \/ t <= s - n
        [] does[1] = "table" ->
             /\ Block("up", getWord(d, X), does[2]) \subseteq Window
             /\ Block("up", getWord(d, Z), does[2]) \subseteq DOMAIN Table
        [] does[1] = "find" -> \E a \in Window : a >= getWord(d, X) /\ d[a] = does[2]
        [] does[1] = "frame" -> (getWord(d, SPL) - 3)..getWord(d, SPL) \subseteq Window
        [] OTHER -> {getWord(d, X), getWord(d, Y)} \subseteq Window

\* The host fills the window and sets two pointers; Z and SP are the others
Start ==
  /\ program = Idle /\ program' \in Programs /\ pc' = 1
  /\ \E fill \in Fills, s, t \in Window \cup {Max(Window) + 1}, z \in DOMAIN Table :
       LET does == program'.does
           ps == IF Copies(does) THEN <<does[2], does[3]>>
                 ELSE <<X, IF does[1] = "frame" THEN SPL ELSE Y>>
           filled == setWord([c \in Cells |-> IF c \in Window THEN fill[c] ELSE c % 3], Z, z)
       IN  /\ data' = setWord(setWord(filled, ps[1], s), ps[2], t)
           /\ Fits(does, data')
  /\ data0' = data' /\ UNCHANGED sreg

\* An instruction on data alone; one that tests or sets flags; one that moves PC
OnData(op, new) == Current[1] = op /\ data' = new /\ UNCHANGED sreg
OnFlags(op, Inst(_, _)) ==
  /\ Current[1] = op
  /\ LET out == Inst(data[Current[2]], sreg)
     IN  data' = [data EXCEPT ![Current[2]] = out.v] /\ sreg' = out.f
OnPC(op, offset) == Current[1] = op /\ pc' = pc + offset /\ UNCHANGED <<data, sreg>>

Loads ==
  LET r == Current[2] IN
  \/ OnData("LD_X", INST_LD_X(data, r))
  \/ OnData("LD_XpostInc", INST_LD_XpostInc(data, r)) \/ OnData("LD_XpreDec", INST_LD_XpreDec(data, r))
  \/ OnData("LD_YpostInc", INST_LD_YpostInc(data, r)) \/ OnData("LD_YpreDec", INST_LD_YpreDec(data, r))
  \/ OnData("LD_ZpostInc", INST_LD_ZpostInc(data, r)) \/ OnData("LD_ZpreDec", INST_LD_ZpreDec(data, r))
  \/ OnData("LDD_anyYZ", INST_LDD_anyYZ(data, r, Current[3], Current[4]))
  \/ OnData("LPM_0", INST_LPM_0(data))   \/ OnData("LPM_d", INST_LPM_d(data, r))
  \/ OnData("LPM_dpostInc", INST_LPM_dpostInc(data, r))
  \/ OnData("ELPM_0", INST_ELPM_0(data)) \/ OnData("ELPM_d", INST_ELPM_d(data, r))
  \/ OnData("ELPM_dpostInc", INST_ELPM_dpostInc(data, r))
  \/ OnData("LDI", INST_LDI(data, r, Current[3])) \/ OnData("MOV", INST_MOV(data, r, Current[3]))
  \/ OnData("MOVW", INST_MOVW(data, r, Current[3])) \/ OnData("POP", INST_POP(data, r))
Stores ==
  LET r == Current[2] IN
  \/ OnData("ST_X", INST_ST_X(data, r))
  \/ OnData("ST_XpostInc", INST_ST_XpostInc(data, r)) \/ OnData("ST_XpreDec", INST_ST_XpreDec(data, r))
  \/ OnData("ST_YpostInc", INST_ST_YpostInc(data, r)) \/ OnData("ST_YpreDec", INST_ST_YpreDec(data, r))
  \/ OnData("ST_ZpostInc", INST_ST_ZpostInc(data, r)) \/ OnData("ST_ZpreDec", INST_ST_ZpreDec(data, r))
  \/ OnData("STD_anyYZ", INST_STD_anyYZ(data, r, Current[3], Current[4]))
  \/ OnData("PUSH", INST_PUSH(data, r))
  \/ OnFlags("DEC", INST_DEC)
  \/ OnFlags("CP", LAMBDA v, f : INST_CP(v, data[Current[3]], f))
TwoWords ==
  \/ OnData("LDS", INST_LDS(data, Current[2], Current[3]))
  \/ OnData("STS", INST_STS(data, Current[2], Current[3]))
Jumps ==
  \/ OnPC("CPSE", INST_CPSE(data, program.code, pc, Current[2], Current[3]))
  \/ OnPC("SBRC", INST_SBRC(data, program.code, pc, Current[2], Current[3]))
  \/ OnPC("SBRS", INST_SBRS(data, program.code, pc, Current[2], Current[3]))
  \/ OnPC("BRBS", INST_BRBS(sreg, Current[2], Current[3]))
  \/ OnPC("BRBC", INST_BRBC(sreg, Current[2], Current[3]))
  \/ OnPC("RJMP", INST_RJMP(Current[2]))

Step ==
  /\ program # Idle /\ pc \in DOMAIN program.code
  /\ \/ (Loads \/ Stores) /\ pc' = pc + 1
     \/ TwoWords /\ pc' = pc + 2
     \/ Jumps
  /\ UNCHANGED <<program, data0>>
Unload ==
  /\ Finished /\ program' = Idle /\ pc' = 1
  /\ data' = [c \in Cells |-> 0] /\ sreg' = [flag \in DOMAIN sreg |-> FALSE] /\ data0' = data'

Next == Start \/ Step \/ Unload
Spec == Init /\ [][Next]_vars

-----------------------------------------------------------------------------
\* What a finished program must have done; it always finishes, or it would be
\* stuck at a word that is no instruction

Does(what) == Finished /\ program.does[1] = what
Unless(changed) == \A c \in Window \ changed : data[c] = data0[c]

\* A block copied up or down by any two pointers, a pair copied through
\* displacements and a table read from the flash arrive whole, overlapping or
\* across a 256-byte boundary, leave both pointers behind the block and every
\* other cell alone (INST_LD_X ... INST_STD_anyYZ, INST_LPM_*, setX, setY, setZ).
BlocksCopied ==
  LET does == program.does IN
  /\ Finished /\ Copies(does) =>
       LET s == getWord(data0, does[2])   t == getWord(data0, does[3])   n == does[4]
           moved == CASE does[1] = "up" -> n [] does[1] = "down" -> -n [] OTHER -> 0
       IN  /\ \A a \in Block(does[1], t, n) : data[a] = data0[a - t + s]
           /\ getWord(data, does[2]) = s + moved /\ getWord(data, does[3]) = t + moved
           /\ Unless(Block(does[1], t, n))
  /\ Does("table") \/ Does("entry") =>
       LET x == getWord(data0, X)   z == getWord(data0, Z)
           n == IF Does("table") THEN does[2] ELSE 1
           moved == IF Does("table") THEN n ELSE 0
       IN  /\ \A i \in 0..(n - 1) : data[x + i] = Table[z + i]
           /\ getWord(data, X) = x + moved /\ getWord(data, Z) = z + moved
           /\ Unless(Block("up", x, n))

\* A search stops behind the first cell that holds the value; a cell is rewritten
\* only if it differs, the skipped instruction having one word or two; a skip on
\* a bit and one on its opposite agree (INST_CPSE, INST_SBRC, INST_SBRS, INST_BRBS,
\* INST_RJMP, setPC_Cycs_Skip).
LoopsDecide ==
  LET does == program.does
      x == getWord(data0, X) IN
  /\ Does("find") => /\ data0[getWord(data, X) - 1] = does[2]
                     /\ \A a \in x..(getWord(data, X) - 2) : data0[a] # does[2]
  /\ Does("update") => LET k == IF Len(does) = 2 THEN does[2] ELSE getWord(data0, Y)
                       IN  data[k] = data0[x] /\ Unless({k})
  /\ Does("bit") => data[16] = Num(Bit(data0[x], does[2]))

\* A function that saves Y, makes room for two locals with PUSH, points Y at them
\* through SP and undoes all that returns with Y and SP as they were, the stack
\* above its frame untouched, and what it stored in the locals read back from
\* them (INST_PUSH, INST_POP, INST_MOVW, INST_LDS of SPL and SPH).
FrameRestored ==
  Does("frame") =>
    LET sp == getWord(data0, SPL) IN
    /\ data[0] = data0[1] /\ data[1] = data0[0]
    /\ getWord(data, SPL) = sp /\ getWord(data, Y) = getWord(data0, Y)
    /\ Unless((sp - 3)..sp)
=============================================================================
