----------------------------- MODULE Memory_proofs -----------------------------
(***************************************************************************)
(* What the programs of Memory must have done when they end, for every     *)
(* piece of RAM, content, table, pointer, mode and length of a block.      *)
(***************************************************************************)
EXTENDS MCInstructions, SequenceTheorems, TLAPS

Byte == 0..255
Names == {"C", "Z", "N", "V", "S", "H", "T"}
Data == [Mem!Cells -> Byte]
Flagged(f) == f = [x \in Names |-> f[x]]
Pointers == {26, 28, 30}
Now(p) == Mem!getWord(mdata, p)
Then(p) == Mem!getWord(mdata0, p)

-----------------------------------------------------------------------------
\* The invariant: what each program has done by each of its words

Up(p, q, n) ==
  Mem!Is(<<"up", p, q, n>>, Mem!Counted(n, << <<Mem!LdInc(p), 0>>, <<Mem!StInc(q), 0>> >>))
Down(p, q, n) ==
  Mem!Is(<<"down", p, q, n>>, Mem!Counted(n, << <<Mem!LdDec(p), 0>>, <<Mem!StDec(q), 0>> >>))
FromTable(lpm, n) ==
  Mem!Is(<<"table", n>>, Mem!Counted(n, << <<lpm, 0>>, <<"ST_XpostInc", 0>> >>))
Pair(p, q) ==
  Mem!Is(<<"pair", p, q, 2>>, << <<"LDD_anyYZ", 0, p, 0>>, <<"LDD_anyYZ", 1, p, 1>>,
                                 <<"STD_anyYZ", 0, q, 0>>, <<"STD_anyYZ", 1, q, 1>> >>)
EntryD(lpm) == Mem!Is(<<"entry">>, << <<lpm, 1>>, <<"MOV", 0, 1>>, <<"ST_X", 0>> >>)
Entry0(lpm) == Mem!Is(<<"entry">>, << <<lpm>>, <<"ST_X", 0>> >>)
Find(v) == Mem!Is(<<"find", v>>, << <<"LDI", 16, v>>, <<"LD_XpostInc", 0>>,
                                    <<"CPSE", 0, 16>>, <<"RJMP", -3>> >>)
UpdateSkip(k) == Mem!Is(<<"update", k>>, << <<"LD_X", 0>>, <<"LDS", 1, k>>, <<"-">>,
                                            <<"CPSE", 0, 1>>, <<"STS", 0, k>>, <<"-">> >>)
UpdateBranch == Mem!Is(<<"update">>, << <<"LD_X", 0>>, <<"LDD_anyYZ", 1, 28, 0>>, <<"CP", 0, 1>>,
                                        <<"BRBS", "Z", 1>>, <<"STD_anyYZ", 0, 28, 0>> >>)
TestBit(b, i) == Mem!Is(<<"bit", b>>, << <<"LD_X", 0>>, <<"LDI", 16, 1 - i>>,
                                         <<IF i = 1 THEN "SBRC" ELSE "SBRS", 0, b>>,
                                         <<"LDI", 16, i>> >>)
Framed == Mem!Is(<<"frame">>, Mem!Frame)

(* The i-th cell of a block that starts at w, and the pointer behind i cells. *)
Cell(dir, w, i) == IF dir = "down" THEN w - 1 - i ELSE w + i
Past(dir, w, i) == IF dir = "down" THEN w - i ELSE w + i

(* The first j of the bytes are where they belong, and nothing else changed. *)
Moved(dir, t, bytes, j) ==
  /\ \A i \in 0..(j - 1) : mdata[Cell(dir, t, i)] = bytes[i]
  /\ \A c \in Window : (\A i \in 0..(j - 1) : c # Cell(dir, t, i)) => mdata[c] = mdata0[c]

(* A loop that copies n bytes from behind p, which was s, to behind q, which was t. *)
LoopAt(dir, p, s, q, t, n, bytes, j) ==
  /\ Moved(dir, t, bytes, j)
  /\ Now(q) = Past(dir, t, j) /\ Now(p) = Past(dir, s, IF mpc = 3 THEN j + 1 ELSE j)
  /\ mdata[16] = IF mpc = 4 THEN n - j + 1 ELSE n - j
  /\ mpc \in {2, 3} => j < n
  /\ mpc = 3 => mdata[0] = bytes[j]
  /\ mpc = 5 => (msreg.Z <=> j = n)
  /\ mpc = 6 => j = n
AtLoop(dir, p, q, n, bytes) ==
  /\ mpc \in 1..6
  /\ mpc = 1 => mdata = mdata0
  /\ mpc > 1 => \E j \in 0..n : LoopAt(dir, p, Then(p), q, Then(q), n, bytes, j)

(* Source and destination are in the window, and no byte is overwritten before *)
(* it was copied.                                                              *)
CopyFits(dir, p, q, n) ==
  /\ p # q
  /\ \A i \in 0..(n - 1) : Cell(dir, Then(p), i) \in Window /\ Cell(dir, Then(q), i) \in Window
  /\ \A i, j \in 0..(n - 1) : i < j => Cell(dir, Then(q), i) # Cell(dir, Then(p), j)
TableFits(n) ==
  \A i \in 0..(n - 1) : Then(26) + i \in Window /\ Then(30) + i \in DOMAIN Table
Source(dir, p, n) == [i \in 0..(n - 1) |-> mdata0[Cell(dir, Then(p), i)]]
Slice(n) == [i \in 0..(n - 1) |-> Table[Then(30) + i]]

Kept(cells) == \A c \in Window \ cells : mdata[c] = mdata0[c]
AtPair(p, q) ==
  LET s == Then(p)   t == Then(q) IN
  /\ p # q /\ {s, s + 1, t, t + 1} \subseteq Window
  /\ mpc \in 1..5 /\ Now(p) = s /\ Now(q) = t
  /\ mpc > 1 => mdata[0] = mdata0[s]
  /\ mpc > 2 => mdata[1] = mdata0[s + 1]
  /\ mpc > 3 => mdata[t] = mdata0[s]
  /\ mpc > 4 => mdata[t + 1] = mdata0[s + 1]
  /\ Kept(IF mpc < 4 THEN {} ELSE IF mpc = 4 THEN {t} ELSE {t, t + 1})
(* One byte from the table: r is the register it is in, done where it is stored. *)
AtEntry(done) ==
  LET x == Then(26)   z == Then(30) IN
  /\ x \in Window /\ z \in DOMAIN Table
  /\ mpc \in 1..done /\ Now(26) = x /\ Now(30) = z
  /\ 1 < mpc /\ mpc < done - 1 => mdata[1] = Table[z]
  /\ mpc = done - 1 /\ mpc > 1 => mdata[0] = Table[z]
  /\ mpc = done => mdata[x] = Table[z]
  /\ Kept(IF mpc = done THEN {x} ELSE {})

AtFind(v) ==
  LET x0 == Then(26)   x == Now(26) IN
  /\ x0 \in Window /\ \E a \in Window : a >= x0 /\ mdata0[a] = v
  /\ mpc \in 1..5 /\ x >= x0 /\ Kept({})
  /\ mpc > 1 => mdata[16] = v
  /\ mpc > 2 => x > x0 /\ mdata[0] = mdata0[x - 1]
  /\ \A a \in x0..(IF mpc \in {3, 5} THEN x - 2 ELSE x - 1) : mdata0[a] # v
  /\ mpc = 5 => mdata[0] = v
AtUpdateSkip(k) ==
  LET x == Then(26) IN
  /\ x \in Window /\ mpc \in {1, 2, 4, 5, 7} /\ Now(26) = x
  /\ Kept(IF mpc = 7 THEN {k} ELSE {})
  /\ mpc > 1 => mdata[0] = mdata0[x]
  /\ mpc > 2 /\ mpc < 7 => mdata[1] = mdata0[k]
  /\ mpc = 7 => mdata[k] = mdata0[x]
AtUpdateBranch ==
  LET x == Then(26)   y == Then(28) IN
  /\ {x, y} \subseteq Window /\ mpc \in 1..6 /\ Now(26) = x /\ Now(28) = y
  /\ Kept(IF mpc = 6 THEN {y} ELSE {})
  /\ mpc > 1 => mdata[0] = mdata0[x]
  /\ mpc > 2 /\ mpc < 6 => mdata[1] = mdata0[y]
  /\ mpc = 4 => (msreg.Z <=> mdata[0] = mdata[1])
  /\ mpc = 6 => mdata[y] = mdata0[x]
AtTestBit(b, i) ==
  LET x == Then(26)
      bit == Mem!Bit(mdata0[x], b) IN
  /\ x \in Window /\ mpc \in 1..5 /\ Now(26) = x /\ Kept({})
  /\ mpc > 1 => mdata[0] = mdata0[x]
  /\ mpc \in {3, 4} => mdata[16] = 1 - i
  /\ mpc = 4 => (bit <=> i = 1)
  /\ mpc = 5 => mdata[16] = Mem!Num(bit)

(* The bytes on the stack at each word of the frame, and the frame: SP was sp. *)
Pushed(at) == IF at < 6 THEN at - 1 ELSE IF at < 15 THEN 4 ELSE 18 - at
FrameAt(sp) ==
  /\ (sp - 3)..sp \subseteq Window /\ mpc \in (1..18) \ {6, 8}
  /\ Kept((sp - 3)..sp) /\ Now(93) = sp - Pushed(mpc)
  /\ mpc > 1 => mdata[sp] = mdata0[28]
  /\ mpc > 2 => mdata[sp - 1] = mdata0[29]
  /\ mpc < 7 \/ mpc > 17 => mdata[28] = mdata0[28]
  /\ mpc < 9 \/ mpc > 16 => mdata[29] = mdata0[29]
  /\ mpc < 13 => mdata[0] = mdata0[0]
  /\ mpc < 14 => mdata[1] = mdata0[1]
  /\ mpc = 7 => mdata[28] = (sp - 4) % 256
  /\ mpc \in 9..16 => Now(28) = sp - 4
  /\ mpc \in 10..14 => mdata[sp - 3] = mdata0[0]
  /\ mpc \in 11..14 => mdata[sp - 2] = mdata0[1]
  /\ mpc \in 12..14 => Now(30) = sp - 4
  /\ mpc > 12 => mdata[0] = mdata0[1]
  /\ mpc > 13 => mdata[1] = mdata0[0]
AtFrame == FrameAt(Then(93))

Running ==
  \/ mprogram = Mem!Idle
  \/ \E p, q \in Pointers, n \in 1..MaxLen :
       /\ mprogram = Up(p, q, n) /\ CopyFits("up", p, q, n)
       /\ AtLoop("up", p, q, n, Source("up", p, n))
  \/ \E p, q \in Pointers, n \in 1..MaxLen :
       /\ mprogram = Down(p, q, n) /\ CopyFits("down", p, q, n)
       /\ AtLoop("down", p, q, n, Source("down", p, n))
  \/ \E lpm \in {"LPM_dpostInc", "ELPM_dpostInc"}, n \in 1..MaxLen :
       mprogram = FromTable(lpm, n) /\ TableFits(n) /\ AtLoop("up", 30, 26, n, Slice(n))
  \/ \E p, q \in {28, 30} : mprogram = Pair(p, q) /\ AtPair(p, q)
  \/ \E lpm \in {"LPM_d", "ELPM_d"} : mprogram = EntryD(lpm) /\ AtEntry(4)
  \/ \E lpm \in {"LPM_0", "ELPM_0"} : mprogram = Entry0(lpm) /\ AtEntry(3)
  \/ \E v \in 0..3 : mprogram = Find(v) /\ AtFind(v)
  \/ \E k \in Window : mprogram = UpdateSkip(k) /\ AtUpdateSkip(k)
  \/ mprogram = UpdateBranch /\ AtUpdateBranch
  \/ \E b, i \in 0..1 : mprogram = TestBit(b, i) /\ AtTestBit(b, i)
  \/ mprogram = Framed /\ AtFrame
MemInv == mdata \in Data /\ mdata0 \in Data /\ Flagged(msreg) /\ Running

-----------------------------------------------------------------------------
\* Cells and words

LEMMA WindowFacts ==
  /\ \A a \in Window : a \in Nat /\ a >= 256 /\ a < 65535
  /\ \A a, b \in Window, c \in Int : a <= c /\ c <= b => c \in Window
<1>1. PICK low \in Window, high \in Window : Window = low..high /\ low >= 256 /\ high < 65535
  BY MemoryAssumption
<1>2. CASE low \in Int /\ high \in Int
  <2>1. \A a \in low..high : a \in Int /\ a >= 256 /\ a < 65535
    BY <1>1, <1>2
  <2> QED BY <1>1, <1>2, <2>1
<1> QED BY <1>1, <1>2

LEMMA MaxOfWindow == Mem!Max(Window) \in Window /\ \A a \in Window : a <= Mem!Max(Window)
<1>1. PICK low \in Window, high \in Window : Window = low..high
  BY MemoryAssumption
<1>2. \A a \in Window : high >= a
  BY <1>1, WindowFacts
<1>3. \E m \in Window : \A a \in Window : m >= a
  BY <1>2
<1>4. Mem!Max(Window) \in Window /\ \A a \in Window : Mem!Max(Window) >= a
  BY <1>3 DEF Mem!Max
<1> QED BY <1>4, WindowFacts

LEMMA CellsAre == Mem!Cells = {0, 1, 16, 26, 27, 28, 29, 30, 31, 93, 94} \cup Window
<1>1. 26..31 = {26, 27, 28, 29, 30, 31}
  OBVIOUS
<1> QED BY <1>1 DEF Mem!Cells, Mem!Regs, Mem!X, Mem!Y, Mem!Z, Mem!SPL

(* A register is no cell of the window. *)
LEMMA Apart ==
  ASSUME NEW a \in Window
  PROVE  a \in Nat /\ a \in Mem!Cells /\ a \notin {0, 1, 16, 26, 27, 28, 29, 30, 31, 93, 94}
BY WindowFacts, CellsAre

(* The registers that hold words: X, Y, Z and SP. *)
Pairs == {26, 28, 30, 93}
IsWord(w) == w \in Nat /\ w < 65536

LEMMA WordParts ==
  ASSUME NEW hi \in Byte, NEW lo \in Byte, NEW w, w = 256 * hi + lo
  PROVE  IsWord(w) /\ lo = w % 256 /\ hi = w \div 256
<1>1. hi \in Nat /\ lo \in Nat /\ hi < 256 /\ lo < 256
  BY DEF Byte
<1> QED BY <1>1 DEF IsWord

LEMMA GetWord ==
  ASSUME NEW d \in Data, NEW p \in Pairs
  PROVE  /\ IsWord(Mem!getWord(d, p))
         /\ p \in Mem!Cells /\ p + 1 \in Mem!Cells
         /\ d[p] = Mem!getWord(d, p) % 256 /\ d[p + 1] = Mem!getWord(d, p) \div 256
<1>1. p \in Mem!Cells /\ p + 1 \in Mem!Cells
  BY CellsAre DEF Pairs
<1>2. d[p] \in Byte /\ d[p + 1] \in Byte
  BY <1>1 DEF Data
<1>3. Mem!getWord(d, p) = 256 * d[p + 1] + d[p]
  BY DEF Mem!getWord, Mem!Word
<1> QED BY <1>1, <1>2, <1>3, WordParts

LEMMA SameWord ==
  ASSUME NEW d, NEW e, NEW p, d[p] = e[p], d[p + 1] = e[p + 1]
  PROVE  Mem!getWord(d, p) = Mem!getWord(e, p)
BY DEF Mem!getWord

LEMMA SetWord ==
  ASSUME NEW d \in Data, NEW p \in Pairs, NEW w, IsWord(w)
  PROVE  /\ Mem!setWord(d, p, w) \in Data
         /\ Mem!getWord(Mem!setWord(d, p, w), p) = w
         /\ \A c \in Mem!Cells \ {p, p + 1} : Mem!setWord(d, p, w)[c] = d[c]
<1> DEFINE hi == (w \div 256) % 256
           lo == w % 256
           e == [d EXCEPT ![p + 1] = hi, ![p] = lo]
<1>1. p \in Mem!Cells /\ p + 1 \in Mem!Cells /\ p # p + 1
  BY CellsAre DEF Pairs
<1>2. hi \in Byte /\ lo \in Byte /\ 256 * hi + lo = w
  BY DEF Byte, IsWord
<1>3. Mem!setWord(d, p, w) = e
  BY DEF Mem!setWord
<1> HIDE DEF hi, lo
<1>4. e \in Data /\ e[p] = lo /\ e[p + 1] = hi /\ \A c \in Mem!Cells \ {p, p + 1} : e[c] = d[c]
  BY <1>1, <1>2 DEF Data
<1> HIDE DEF e
<1>5. Mem!getWord(e, p) = w
  BY <1>2, <1>4 DEF Mem!getWord, Mem!Word
<1> QED BY <1>3, <1>4, <1>5

(* Nothing but these cells differs. *)
Only(d, e, cells) == \A c \in Mem!Cells \ cells : e[c] = d[c]

LEMMA OnlyWord ==
  ASSUME NEW d, NEW e, NEW cells, NEW p \in Pairs, Only(d, e, cells), p \notin cells, p + 1 \notin cells
  PROVE  Mem!getWord(e, p) = Mem!getWord(d, p)
<1>1. p \in Mem!Cells /\ p + 1 \in Mem!Cells
  BY CellsAre DEF Pairs
<1> QED BY <1>1, SameWord DEF Only

LEMMA OnlyWindow ==
  ASSUME NEW d, NEW e, NEW cells, Only(d, e, cells), NEW c \in Window, c \notin cells
  PROVE  e[c] = d[c]
BY Apart DEF Only

-----------------------------------------------------------------------------
\* What the loads and stores do to the cells

SetAt(d, c, v) == [d EXCEPT ![c] = v]

LEMMA SetCell ==
  ASSUME NEW d \in Data, NEW c \in Mem!Cells, NEW v \in Byte
  PROVE  SetAt(d, c, v) \in Data /\ SetAt(d, c, v)[c] = v /\ Only(d, SetAt(d, c, v), {c})
BY DEF Data, Only, SetAt

LEMMA SetBoth ==
  ASSUME NEW d \in Data, NEW c \in Mem!Cells, NEW v \in Byte, NEW p \in Pairs,
         NEW w, IsWord(w), c \notin {p, p + 1},
         NEW e, e = Mem!setWord(SetAt(d, c, v), p, w)
  PROVE  e \in Data /\ e[c] = v /\ Mem!getWord(e, p) = w /\ Only(d, e, {c, p, p + 1})
<1>1. PICK h : h = SetAt(d, c, v)
  OBVIOUS
<1>2. h \in Data /\ h[c] = v /\ Only(d, h, {c})
  BY <1>1, SetCell
<1>3. e = Mem!setWord(h, p, w)
  BY <1>1
<1>4. e \in Data /\ Mem!getWord(e, p) = w /\ \A k \in Mem!Cells \ {p, p + 1} : e[k] = h[k]
  BY <1>2, <1>3, SetWord
<1>5. e[c] = v /\ Only(d, e, {c, p, p + 1})
  BY <1>2, <1>4 DEF Only
<1> QED BY <1>4, <1>5

(* A load into R0 through a pointer, which moves it. *)
Taken(d, e, p, v, w) ==
  e \in Data /\ e[0] = v /\ Mem!getWord(e, p) = w /\ Only(d, e, {0, p, p + 1})
(* A store of R0 through a pointer, which moves it. *)
Put(d, e, q, a, w) ==
  e \in Data /\ e[a] = d[0] /\ Mem!getWord(e, q) = w /\ Only(d, e, {a, q, q + 1})

LEMMA IncTakes ==
  ASSUME NEW d \in Data, NEW p \in Pointers, NEW w \in Window, w = Mem!getWord(d, p),
         NEW e, e = Mem!LoadInc(d, 0, p)
  PROVE  Taken(d, e, p, d[w], w + 1)
<1>1. w \in Mem!Cells /\ d[w] \in Byte /\ IsWord(w + 1) /\ 0 \in Mem!Cells
  BY Apart, WindowFacts, CellsAre DEF Data, IsWord
<1>2. 0 \notin {p, p + 1} /\ p \in Pairs
  BY DEF Pointers, Pairs
<1>3. e = Mem!setWord(SetAt(d, 0, d[w]), p, w + 1)
  BY DEF SetAt, Mem!LoadInc, Mem!Load
<1> QED BY <1>1, <1>2, <1>3, SetBoth DEF Taken

LEMMA DecTakes ==
  ASSUME NEW d \in Data, NEW p \in Pointers, NEW w \in Window, w = Mem!getWord(d, p) - 1,
         NEW e, e = Mem!LoadDec(d, 0, p)
  PROVE  Taken(d, e, p, d[w], w)
<1>1. w \in Mem!Cells /\ d[w] \in Byte /\ IsWord(w) /\ 0 \in Mem!Cells
  BY Apart, WindowFacts, CellsAre DEF Data, IsWord
<1>2. 0 \notin {p, p + 1} /\ p \in Pairs
  BY DEF Pointers, Pairs
<1>3. e = Mem!setWord(SetAt(d, 0, d[w]), p, w)
  BY DEF SetAt, Mem!LoadDec
<1> QED BY <1>1, <1>2, <1>3, SetBoth DEF Taken

LEMMA TableFacts ==
  ASSUME NEW w \in DOMAIN Table
  PROVE  w \in Nat /\ w < 65535 /\ Table[w] \in Byte
<1>1. \A a \in DOMAIN Table : a \in Nat /\ a < 65535 /\ Table[a] \in Mem!Byte
  BY TableAssumption
<1>2. Mem!Byte = Byte
  BY Zenon DEF Byte, Mem!Byte
<1> QED BY <1>1, <1>2

LEMMA TableTakes ==
  ASSUME NEW d \in Data, NEW w \in DOMAIN Table, w = Mem!getWord(d, 30),
         NEW e, e = Mem!INST_LPM_dpostInc(d, 0)
  PROVE  Taken(d, e, 30, Table[w], w + 1)
<1>1. Table[w] \in Byte /\ IsWord(w + 1) /\ 0 \in Mem!Cells
  BY TableFacts, CellsAre DEF IsWord
<1>2. e = Mem!setWord(SetAt(d, 0, Table[w]), 30, w + 1)
  BY DEF SetAt, Mem!INST_LPM_dpostInc, Mem!INST_LPM_d, Mem!Z
<1>3. 0 \notin {30, 30 + 1} /\ 30 \in Pairs
  BY DEF Pairs
<1> QED BY <1>1, <1>2, <1>3, SetBoth DEF Taken

LEMMA IncPuts ==
  ASSUME NEW d \in Data, NEW q \in Pointers, NEW w \in Window, w = Mem!getWord(d, q),
         NEW e, e = Mem!StoreInc(d, 0, q)
  PROVE  Put(d, e, q, w, w + 1)
<1>1. w \in Mem!Cells /\ d[0] \in Byte /\ IsWord(w + 1)
  BY Apart, WindowFacts, CellsAre DEF Data, IsWord
<1>2. w \notin {q, q + 1} /\ q \in Pairs
  BY Apart DEF Pointers, Pairs
<1>3. e = Mem!setWord(SetAt(d, w, d[0]), q, w + 1)
  BY DEF SetAt, Mem!StoreInc, Mem!Store
<1> QED BY <1>1, <1>2, <1>3, SetBoth DEF Put

LEMMA DecPuts ==
  ASSUME NEW d \in Data, NEW q \in Pointers, NEW w \in Window, w = Mem!getWord(d, q) - 1,
         NEW e, e = Mem!StoreDec(d, 0, q)
  PROVE  Put(d, e, q, w, w)
<1>1. w \in Mem!Cells /\ d[0] \in Byte /\ IsWord(w)
  BY Apart, WindowFacts, CellsAre DEF Data, IsWord
<1>2. w \notin {q, q + 1} /\ q \in Pairs
  BY Apart DEF Pointers, Pairs
<1>3. e = Mem!setWord(SetAt(d, w, d[0]), q, w)
  BY DEF SetAt, Mem!StoreDec
<1> QED BY <1>1, <1>2, <1>3, SetBoth DEF Put

(* DEC and CP: Z is set for a result of 0, and the cache keeps its flags. *)
LEMMA CountDown ==
  ASSUME NEW v \in Byte
  PROVE  (v - 1) % 256 \in Byte /\ (v - 1) % 256 = IF v = 0 THEN 255 ELSE v - 1
<1>1. v \in Nat /\ v < 256
  BY DEF Byte
<1>2. (v - 1) % 256 = IF v = 0 THEN 255 ELSE v - 1
  BY <1>1
<1> QED BY <1>1, <1>2 DEF Byte

OneLess(v, out) ==
  /\ Flagged(out.f) /\ out.v \in Byte
  /\ out.v = IF v = 0 THEN 255 ELSE v - 1
  /\ out.f.Z <=> out.v = 0
LEMMA DecDoes ==
  ASSUME NEW v \in Byte, NEW f, Flagged(f)
  PROVE  OneLess(v, Mem!INST_DEC(v, f))
<1>0. PICK out : out = Mem!INST_DEC(v, f)
  OBVIOUS
<1>1. PICK res : res = (v - 1) % 256
  OBVIOUS
<1>2. PICK f2 : f2 = Mem!setFlags_NZ(f, res)
  OBVIOUS
<1>3. Flagged(f2) /\ (f2.Z <=> res = 0)
  BY <1>2 DEF Flagged, Names, Mem!setFlags_NZ
<1>4. PICK v2, s2 : v2 = (res = 127) /\ s2 = (Mem!Top(res) # (res = 127))
  OBVIOUS
<1>5. out.v = res /\ out.f = [f2 EXCEPT !.V = v2, !.S = s2]
  BY <1>0, <1>1, <1>2, <1>4 DEF Mem!INST_DEC, Mem!Out
<1>6. Flagged(out.f) /\ out.f.Z = f2.Z
  BY <1>3, <1>5 DEF Flagged, Names
<1>7. OneLess(v, out)
  BY <1>1, <1>3, <1>5, <1>6, CountDown DEF OneLess
<1> QED BY <1>0, <1>7

Compared(x, y, out) == Flagged(out.f) /\ out.v = x /\ (out.f.Z <=> x = y)
LEMMA CpDoes ==
  ASSUME NEW x \in Byte, NEW y \in Byte, NEW f, Flagged(f)
  PROVE  Compared(x, y, Mem!INST_CP(x, y, f))
<1>0. x \in Nat /\ x < 256 /\ y \in Nat /\ y < 256
  BY DEF Byte
<1>1. (x - y) % 256 = 0 <=> x = y
  BY <1>0
<1> DEFINE res == (x - y) % 256
<1> HIDE DEF res
<1>2. res = 0 <=> x = y
  BY <1>1 DEF res
<1>3. Mem!INST_SUB(x, y, f).f = Mem!setFlags_HSVNZC_SUB(f, x, y, 0, res, FALSE)
  BY DEF SetAt, Mem!INST_SUB, Mem!Out, res
<1>4. /\ Flagged(Mem!setFlags_HSVNZC_SUB(f, x, y, 0, res, FALSE))
      /\ Mem!setFlags_HSVNZC_SUB(f, x, y, 0, res, FALSE).Z <=> res = 0
  BY DEF Flagged, Names, Mem!setFlags_HSVNZC_SUB
<1> QED BY <1>2, <1>3, <1>4 DEF Mem!INST_CP, Mem!Out, Compared

-----------------------------------------------------------------------------
\* What a step does, by the word it executes

DataOps == {"LD_X", "LD_XpostInc", "LD_XpreDec", "LD_YpostInc", "LD_YpreDec", "LD_ZpostInc",
            "LD_ZpreDec", "LDD_anyYZ", "LPM_0", "LPM_d", "LPM_dpostInc", "ELPM_0", "ELPM_d",
            "ELPM_dpostInc", "LDI", "MOV", "MOVW", "POP"}
KeepOps == {"ST_X", "ST_XpostInc", "ST_XpreDec", "ST_YpostInc", "ST_YpreDec", "ST_ZpostInc",
             "ST_ZpreDec", "STD_anyYZ", "PUSH"}
FlagOps == {"DEC", "CP"}
WideOps == {"LDS", "STS"}
PCOps == {"CPSE", "SBRC", "SBRS", "BRBS", "BRBC", "RJMP"}

LEMMA LoadStep ==
  ASSUME Mem!Loads, NEW w, w = Mem!Current, NEW r, r = w[2]
  PROVE  /\ w[1] \in DataOps /\ msreg' = msreg
         /\ w[1] = "LD_X" => mdata' = Mem!INST_LD_X(mdata, r)
         /\ w[1] = "LD_XpostInc" => mdata' = Mem!INST_LD_XpostInc(mdata, r)
         /\ w[1] = "LD_YpostInc" => mdata' = Mem!INST_LD_YpostInc(mdata, r)
         /\ w[1] = "LD_ZpostInc" => mdata' = Mem!INST_LD_ZpostInc(mdata, r)
         /\ w[1] = "LD_XpreDec" => mdata' = Mem!INST_LD_XpreDec(mdata, r)
         /\ w[1] = "LD_YpreDec" => mdata' = Mem!INST_LD_YpreDec(mdata, r)
         /\ w[1] = "LD_ZpreDec" => mdata' = Mem!INST_LD_ZpreDec(mdata, r)
         /\ w[1] = "LDD_anyYZ" => mdata' = Mem!INST_LDD_anyYZ(mdata, r, w[3], w[4])
         /\ w[1] = "LPM_0" => mdata' = Mem!INST_LPM_0(mdata)
         /\ w[1] = "LPM_d" => mdata' = Mem!INST_LPM_d(mdata, r)
         /\ w[1] = "LPM_dpostInc" => mdata' = Mem!INST_LPM_dpostInc(mdata, r)
         /\ w[1] = "ELPM_0" => mdata' = Mem!INST_ELPM_0(mdata)
         /\ w[1] = "ELPM_d" => mdata' = Mem!INST_ELPM_d(mdata, r)
         /\ w[1] = "ELPM_dpostInc" => mdata' = Mem!INST_ELPM_dpostInc(mdata, r)
         /\ w[1] = "LDI" => mdata' = Mem!INST_LDI(mdata, r, w[3])
         /\ w[1] = "MOV" => mdata' = Mem!INST_MOV(mdata, r, w[3])
         /\ w[1] = "MOVW" => mdata' = Mem!INST_MOVW(mdata, r, w[3])
         /\ w[1] = "POP" => mdata' = Mem!INST_POP(mdata, r)
BY DEF Mem!Loads, Mem!OnData, DataOps

LEMMA StoreStep ==
  ASSUME Mem!Stores, NEW w, w = Mem!Current, NEW r, r = w[2]
  PROVE  /\ w[1] \in KeepOps \cup FlagOps
         /\ w[1] \in KeepOps => msreg' = msreg
         /\ w[1] = "ST_X" => mdata' = Mem!INST_ST_X(mdata, r)
         /\ w[1] = "ST_XpostInc" => mdata' = Mem!INST_ST_XpostInc(mdata, r)
         /\ w[1] = "ST_YpostInc" => mdata' = Mem!INST_ST_YpostInc(mdata, r)
         /\ w[1] = "ST_ZpostInc" => mdata' = Mem!INST_ST_ZpostInc(mdata, r)
         /\ w[1] = "ST_XpreDec" => mdata' = Mem!INST_ST_XpreDec(mdata, r)
         /\ w[1] = "ST_YpreDec" => mdata' = Mem!INST_ST_YpreDec(mdata, r)
         /\ w[1] = "ST_ZpreDec" => mdata' = Mem!INST_ST_ZpreDec(mdata, r)
         /\ w[1] = "STD_anyYZ" => mdata' = Mem!INST_STD_anyYZ(mdata, r, w[3], w[4])
         /\ w[1] = "PUSH" => mdata' = Mem!INST_PUSH(mdata, r)
         /\ w[1] = "DEC" => /\ mdata' = [mdata EXCEPT ![r] = Mem!INST_DEC(mdata[r], msreg).v]
                            /\ msreg' = Mem!INST_DEC(mdata[r], msreg).f
         /\ w[1] = "CP" =>
              /\ mdata' = [mdata EXCEPT ![r] = Mem!INST_CP(mdata[r], mdata[w[3]], msreg).v]
              /\ msreg' = Mem!INST_CP(mdata[r], mdata[w[3]], msreg).f
BY DEF Mem!Stores, Mem!OnData, Mem!OnFlags, KeepOps, FlagOps

LEMMA WideStep ==
  ASSUME Mem!TwoWords, NEW w, w = Mem!Current, NEW r, r = w[2]
  PROVE  /\ w[1] \in WideOps /\ msreg' = msreg
         /\ w[1] = "LDS" => mdata' = Mem!INST_LDS(mdata, r, w[3])
         /\ w[1] = "STS" => mdata' = Mem!INST_STS(mdata, r, w[3])
BY DEF Mem!TwoWords, Mem!OnData, WideOps

LEMMA JumpStep ==
  ASSUME Mem!Jumps, NEW w, w = Mem!Current, NEW r, r = w[2]
  PROVE  /\ w[1] \in PCOps /\ msreg' = msreg /\ mdata' = mdata
         /\ w[1] = "CPSE" => mpc' = mpc + Mem!INST_CPSE(mdata, mprogram.code, mpc, r, w[3])
         /\ w[1] = "SBRC" => mpc' = mpc + Mem!INST_SBRC(mdata, mprogram.code, mpc, r, w[3])
         /\ w[1] = "SBRS" => mpc' = mpc + Mem!INST_SBRS(mdata, mprogram.code, mpc, r, w[3])
         /\ w[1] = "BRBS" => mpc' = mpc + Mem!INST_BRBS(msreg, r, w[3])
         /\ w[1] = "BRBC" => mpc' = mpc + Mem!INST_BRBC(msreg, r, w[3])
         /\ w[1] = "RJMP" => mpc' = mpc + Mem!INST_RJMP(r)
BY DEF Mem!Jumps, Mem!OnPC, PCOps

(* Which of the four a step is depends on the word alone. *)
LEMMA StepBy ==
  ASSUME Mem!Step, NEW w, w = mprogram.code[mpc]
  PROVE  /\ mprogram # Mem!Idle /\ mpc \in DOMAIN mprogram.code /\ w = Mem!Current
         /\ mprogram' = mprogram /\ mdata0' = mdata0
         /\ w[1] \in DataOps => Mem!Loads /\ mpc' = mpc + 1
         /\ w[1] \in KeepOps \cup FlagOps => Mem!Stores /\ mpc' = mpc + 1
         /\ w[1] \in WideOps => Mem!TwoWords /\ mpc' = mpc + 2
         /\ w[1] \in PCOps => Mem!Jumps
<1>1. /\ mprogram # Mem!Idle /\ mpc \in DOMAIN mprogram.code
      /\ \/ (Mem!Loads \/ Mem!Stores) /\ mpc' = mpc + 1
         \/ Mem!TwoWords /\ mpc' = mpc + 2
         \/ Mem!Jumps
      /\ mprogram' = mprogram /\ mdata0' = mdata0
  BY DEF Mem!Step
<1>2. w = Mem!Current
  BY DEF Mem!Current
<1>3. w[1] \in DataOps => w[1] \notin KeepOps \cup FlagOps \cup WideOps \cup PCOps
  BY DEF DataOps, KeepOps, FlagOps, WideOps, PCOps
<1>4. w[1] \in KeepOps \cup FlagOps => w[1] \notin WideOps \cup PCOps
  BY DEF KeepOps, FlagOps, WideOps, PCOps
<1>5. w[1] \in WideOps => w[1] \notin PCOps
  BY DEF WideOps, PCOps
<1>6. Mem!Loads => w[1] \in DataOps
  BY <1>2, LoadStep
<1>7. Mem!Stores => w[1] \in KeepOps \cup FlagOps
  BY <1>2, StoreStep
<1>8. Mem!TwoWords => w[1] \in WideOps
  BY <1>2, WideStep
<1>9. Mem!Jumps => w[1] \in PCOps
  BY <1>2, JumpStep
<1> QED BY <1>1, <1>2, <1>3, <1>4, <1>5, <1>6, <1>7, <1>8, <1>9, Zenon

Steps == mprogram' = mprogram /\ mdata0' = mdata0

LEMMA DataStep ==
  ASSUME Mem!Step, NEW w, w = mprogram.code[mpc], w[1] \in DataOps
  PROVE  Steps /\ Mem!Loads /\ w = Mem!Current /\ mpc' = mpc + 1 /\ msreg' = msreg
BY StepBy, LoadStep, Zenon DEF Steps

LEMMA KeepStep ==
  ASSUME Mem!Step, NEW w, w = mprogram.code[mpc], w[1] \in KeepOps
  PROVE  Steps /\ Mem!Stores /\ w = Mem!Current /\ mpc' = mpc + 1 /\ msreg' = msreg
<1>1. w[1] \in KeepOps \cup FlagOps
  OBVIOUS
<1>2. Mem!Stores /\ w = Mem!Current /\ mpc' = mpc + 1 /\ Steps
  BY <1>1, StepBy, Zenon DEF Steps
<1> QED BY <1>2, StoreStep, Zenon

(* The loads and stores through a pointer that they move. *)
LEMMA LoadsThrough ==
  ASSUME Mem!Step, NEW p \in Pointers, NEW w, w = mprogram.code[mpc], w[2] = 0
  PROVE  /\ w[1] = Mem!LdInc(p) => /\ Steps /\ mpc' = mpc + 1 /\ msreg' = msreg
                                   /\ mdata' = Mem!LoadInc(mdata, 0, p)
         /\ w[1] = Mem!LdDec(p) => /\ Steps /\ mpc' = mpc + 1 /\ msreg' = msreg
                                   /\ mdata' = Mem!LoadDec(mdata, 0, p)
<1>1. CASE p = 26
  <2>1. Mem!LdInc(p) = "LD_XpostInc" /\ Mem!LdDec(p) = "LD_XpreDec"
    BY <1>1 DEF Mem!LdInc, Mem!LdDec, Mem!Mode, Mem!X
  <2>2. "LD_XpostInc" \in DataOps /\ "LD_XpreDec" \in DataOps
    BY DEF DataOps
  <2>3. /\ Mem!INST_LD_XpostInc(mdata, 0) = Mem!LoadInc(mdata, 0, p)
        /\ Mem!INST_LD_XpreDec(mdata, 0) = Mem!LoadDec(mdata, 0, p)
    BY <1>1 DEF Mem!INST_LD_XpostInc, Mem!INST_LD_XpreDec, Mem!X
  <2> QED BY <2>1, <2>2, <2>3, DataStep, LoadStep, Zenon
<1>2. CASE p = 28
  <2>1. Mem!LdInc(p) = "LD_YpostInc" /\ Mem!LdDec(p) = "LD_YpreDec"
    BY <1>2 DEF Mem!LdInc, Mem!LdDec, Mem!Mode, Mem!X, Mem!Y
  <2>2. "LD_YpostInc" \in DataOps /\ "LD_YpreDec" \in DataOps
    BY DEF DataOps
  <2>3. /\ Mem!INST_LD_YpostInc(mdata, 0) = Mem!LoadInc(mdata, 0, p)
        /\ Mem!INST_LD_YpreDec(mdata, 0) = Mem!LoadDec(mdata, 0, p)
    BY <1>2 DEF Mem!INST_LD_YpostInc, Mem!INST_LD_YpreDec, Mem!Y
  <2> QED BY <2>1, <2>2, <2>3, DataStep, LoadStep, Zenon
<1>3. CASE p = 30
  <2>1. Mem!LdInc(p) = "LD_ZpostInc" /\ Mem!LdDec(p) = "LD_ZpreDec"
    BY <1>3 DEF Mem!LdInc, Mem!LdDec, Mem!Mode, Mem!X, Mem!Y
  <2>2. "LD_ZpostInc" \in DataOps /\ "LD_ZpreDec" \in DataOps
    BY DEF DataOps
  <2>3. /\ Mem!INST_LD_ZpostInc(mdata, 0) = Mem!LoadInc(mdata, 0, p)
        /\ Mem!INST_LD_ZpreDec(mdata, 0) = Mem!LoadDec(mdata, 0, p)
    BY <1>3 DEF Mem!INST_LD_ZpostInc, Mem!INST_LD_ZpreDec, Mem!Z
  <2> QED BY <2>1, <2>2, <2>3, DataStep, LoadStep, Zenon
<1> QED BY <1>1, <1>2, <1>3 DEF Pointers

LEMMA StoresThrough ==
  ASSUME Mem!Step, NEW p \in Pointers, NEW w, w = mprogram.code[mpc], w[2] = 0
  PROVE  /\ w[1] = Mem!StInc(p) => /\ Steps /\ mpc' = mpc + 1 /\ msreg' = msreg
                                   /\ mdata' = Mem!StoreInc(mdata, 0, p)
         /\ w[1] = Mem!StDec(p) => /\ Steps /\ mpc' = mpc + 1 /\ msreg' = msreg
                                   /\ mdata' = Mem!StoreDec(mdata, 0, p)
<1>1. CASE p = 26
  <2>1. Mem!StInc(p) = "ST_XpostInc" /\ Mem!StDec(p) = "ST_XpreDec"
    BY <1>1 DEF Mem!StInc, Mem!StDec, Mem!Mode, Mem!X
  <2>2. "ST_XpostInc" \in KeepOps /\ "ST_XpreDec" \in KeepOps
    BY DEF KeepOps
  <2>3. /\ Mem!INST_ST_XpostInc(mdata, 0) = Mem!StoreInc(mdata, 0, p)
        /\ Mem!INST_ST_XpreDec(mdata, 0) = Mem!StoreDec(mdata, 0, p)
    BY <1>1 DEF Mem!INST_ST_XpostInc, Mem!INST_ST_XpreDec, Mem!X
  <2> QED BY <2>1, <2>2, <2>3, KeepStep, StoreStep
<1>2. CASE p = 28
  <2>1. Mem!StInc(p) = "ST_YpostInc" /\ Mem!StDec(p) = "ST_YpreDec"
    BY <1>2 DEF Mem!StInc, Mem!StDec, Mem!Mode, Mem!X, Mem!Y
  <2>2. "ST_YpostInc" \in KeepOps /\ "ST_YpreDec" \in KeepOps
    BY DEF KeepOps
  <2>3. /\ Mem!INST_ST_YpostInc(mdata, 0) = Mem!StoreInc(mdata, 0, p)
        /\ Mem!INST_ST_YpreDec(mdata, 0) = Mem!StoreDec(mdata, 0, p)
    BY <1>2 DEF Mem!INST_ST_YpostInc, Mem!INST_ST_YpreDec, Mem!Y
  <2> QED BY <2>1, <2>2, <2>3, KeepStep, StoreStep
<1>3. CASE p = 30
  <2>1. Mem!StInc(p) = "ST_ZpostInc" /\ Mem!StDec(p) = "ST_ZpreDec"
    BY <1>3 DEF Mem!StInc, Mem!StDec, Mem!Mode, Mem!X, Mem!Y
  <2>2. "ST_ZpostInc" \in KeepOps /\ "ST_ZpreDec" \in KeepOps
    BY DEF KeepOps
  <2>3. /\ Mem!INST_ST_ZpostInc(mdata, 0) = Mem!StoreInc(mdata, 0, p)
        /\ Mem!INST_ST_ZpreDec(mdata, 0) = Mem!StoreDec(mdata, 0, p)
    BY <1>3 DEF Mem!INST_ST_ZpostInc, Mem!INST_ST_ZpreDec, Mem!Z
  <2> QED BY <2>1, <2>2, <2>3, KeepStep, StoreStep
<1> QED BY <1>1, <1>2, <1>3 DEF Pointers

-----------------------------------------------------------------------------
\* The counted loop

LEMMA CountedCode ==
  ASSUME NEW n, NEW a, NEW b, NEW code, code = Mem!Counted(n, <<a, b>>)
  PROVE  /\ DOMAIN code = 1..5 /\ Len(code) = 5
         /\ code[1] = <<"LDI", 16, n>> /\ code[2] = a /\ code[3] = b
         /\ code[4] = <<"DEC", 16>> /\ code[5] = <<"BRBC", "Z", -4>>
<1>1. PICK c1, c4, c5 : c1 = <<"LDI", 16, n>> /\ c4 = <<"DEC", 16>> /\ c5 = <<"BRBC", "Z", -4>>
  OBVIOUS
<1>2. Len(<<a, b>>) = 2 /\ -(2 + 2) = -4
  OBVIOUS
<1>3. code = <<c1>> \o <<a, b>> \o <<c4, c5>>
  BY <1>1, <1>2 DEF Mem!Counted
<1>4. PICK S : S = {c1, a, b, c4, c5}
  OBVIOUS
<1>5. <<c1>> \in Seq(S) /\ <<a, b>> \in Seq(S) /\ <<c4, c5>> \in Seq(S)
  BY <1>4
<1>6. PICK front : front = <<c1>> \o <<a, b>>
  OBVIOUS
<1>7. /\ front \in Seq(S) /\ Len(front) = 3
      /\ front[1] = c1 /\ front[2] = a /\ front[3] = b
  BY <1>5, <1>6, ConcatProperties
<1>7a. PICK back : back = <<c4, c5>>
  OBVIOUS
<1>8. back \in Seq(S) /\ Len(back) = 2 /\ back[1] = c4 /\ back[2] = c5
  BY <1>5, <1>7a
<1>9. code = front \o back
  BY <1>3, <1>6, <1>7a
<1>10. /\ code \in Seq(S) /\ Len(code) = 3 + 2
       /\ \A i \in 1..(3 + 2) : code[i] = IF i <= 3 THEN front[i] ELSE back[i - 3]
  <2>1. /\ front \o back \in Seq(S) /\ Len(front \o back) = Len(front) + Len(back)
        /\ \A i \in 1..(Len(front) + Len(back)) :
             (front \o back)[i] = IF i <= Len(front) THEN front[i] ELSE back[i - Len(front)]
    BY <1>7, <1>8, ConcatProperties
  <2> QED BY <1>7, <1>8, <1>9, <2>1
<1>11. code[1] = c1 /\ code[2] = a /\ code[3] = b /\ code[4] = c4 /\ code[5] = c5
  BY <1>7, <1>8, <1>10
<1>12. Len(code) = 5 /\ DOMAIN code = 1..5
  BY <1>10, LenProperties
<1> QED BY <1>1, <1>11, <1>12

(* Cells of a block and the places of its pointer. *)
LEMMA Places ==
  ASSUME NEW dir \in {"up", "down"}, NEW w \in Int, NEW i \in Int, NEW j \in Int
  PROVE  /\ Cell(dir, w, i) \in Int /\ Past(dir, w, i) \in Int
         /\ Past(dir, w, 0) = w
         /\ Cell(dir, w, i) = Cell(dir, w, j) => i = j
         /\ dir = "up" => Cell(dir, w, i) = Past(dir, w, i) /\ Past(dir, w, i + 1) = Cell(dir, w, i) + 1
         /\ dir = "down" => Cell(dir, w, i) = Past(dir, w, i) - 1 /\ Past(dir, w, i + 1) = Cell(dir, w, i)
BY DEF Cell, Past

LEMMA LoopStep ==
  ASSUME NEW dir \in {"up", "down"}, NEW p \in Pointers, NEW q \in Pointers, p # q,
         NEW n \in 1..MaxLen, NEW bytes, NEW s \in Int, NEW t \in Int, s = Then(p), t = Then(q),
         \A i \in 0..(n - 1) : Cell(dir, t, i) \in Window,
         mdata \in Data, mdata0 \in Data, Flagged(msreg), Steps, mpc \in 1..5,
         AtLoop(dir, p, q, n, bytes),
         mpc = 1 => mpc' = 2 /\ msreg' = msreg /\ mdata' = SetAt(mdata, 16, n),
         mpc = 2 => /\ mpc' = 3 /\ msreg' = msreg
                    /\ \A j \in 0..(n - 1) : LoopAt(dir, p, s, q, t, n, bytes, j) =>
                         Taken(mdata, mdata', p, bytes[j], Past(dir, s, j + 1)),
         mpc = 3 => /\ mpc' = 4 /\ msreg' = msreg
                    /\ \A j \in 0..(n - 1) : LoopAt(dir, p, s, q, t, n, bytes, j) =>
                         Put(mdata, mdata', q, Cell(dir, t, j), Past(dir, t, j + 1)),
         mpc = 4 => /\ mpc' = 5 /\ msreg' = Mem!INST_DEC(mdata[16], msreg).f
                    /\ mdata' = SetAt(mdata, 16, Mem!INST_DEC(mdata[16], msreg).v),
         mpc = 5 => mpc' = (IF msreg.Z THEN 6 ELSE 2) /\ msreg' = msreg /\ mdata' = mdata
  PROVE  mdata' \in Data /\ Flagged(msreg') /\ AtLoop(dir, p, q, n, bytes)'
<1> DEFINE At(j) == LoopAt(dir, p, s, q, t, n, bytes, j)
<1>1. n \in Nat /\ n \in Byte /\ n >= 1
  BY MemoryAssumption DEF Byte
<1>2. 16 \in Mem!Cells /\ mdata[16] \in Byte /\ 0 \in Mem!Cells
  BY CellsAre DEF Data
<1>3. /\ p \in Pairs /\ q \in Pairs
      /\ \A c \in {0, 16} : c # p /\ c # p + 1 /\ c # q /\ c # q + 1
      /\ p # q /\ p # q + 1 /\ p + 1 # q /\ p + 1 # q + 1
  BY DEF Pointers, Pairs
<1>4. s = Then(p)' /\ t = Then(q)' /\ mdata0' = mdata0
  BY DEF Steps, Then
<1>5. SUFFICES /\ mdata' \in Data /\ Flagged(msreg') /\ mpc' \in 2..6
               /\ \E j \in 0..n : At(j)'
  BY <1>4 DEF AtLoop
<1>6. \A c \in Window : c \notin {0, 16, p, p + 1, q, q + 1}
  BY Apart DEF Pointers
<1>7. CASE mpc = 1
  <2>1. mdata' \in Data /\ mdata'[16] = n /\ Only(mdata, mdata', {16}) /\ mdata = mdata0
    BY <1>1, <1>2, <1>7, SetCell DEF AtLoop
  <2>2. Now(p)' = s /\ Now(q)' = t
    BY <1>3, <2>1, OnlyWord DEF Now, Then
  <2>3. \A c \in Window : mdata'[c] = mdata0[c]
    BY <2>1, <1>6, OnlyWindow
  <2>4. Moved(dir, t, bytes, 0)'
    BY <1>4, <2>3 DEF Moved
  <2>5. mpc' = 2 /\ msreg' = msreg
    BY <1>7
  <2>6. Past(dir, s, 0) = s /\ Past(dir, t, 0) = t
    BY Places
  <2>7. At(0)'
    BY <1>1, <2>1, <2>2, <2>4, <2>5, <2>6 DEF LoopAt
  <2> QED BY <1>1, <2>1, <2>5, <2>7
<1>8. ASSUME mpc > 1
      PROVE  \E j \in 0..n : At(j)
  BY <1>8 DEF AtLoop
<1>9. CASE mpc = 2
  <2>1. PICK j \in 0..n : At(j)
    BY <1>8, <1>9
  <2>2. j \in 0..(n - 1)
    BY <2>1, <1>9, <1>1 DEF LoopAt
  <2>3. Taken(mdata, mdata', p, bytes[j], Past(dir, s, j + 1)) /\ mpc' = 3 /\ msreg' = msreg
    BY <2>1, <2>2, <1>9
  <2>4. /\ mdata' \in Data /\ mdata'[0] = bytes[j] /\ Now(p)' = Past(dir, s, j + 1)
        /\ Only(mdata, mdata', {0, p, p + 1})
    BY <2>3 DEF Taken, Now
  <2>5. Now(q)' = Now(q)
    BY <1>3, <2>4, OnlyWord DEF Now
  <2>6. mdata'[16] = mdata[16]
    BY <1>2, <1>3, <2>4 DEF Only
  <2>7. \A c \in Window : mdata'[c] = mdata[c]
    BY <1>6, <2>4, OnlyWindow
  <2>8. Moved(dir, t, bytes, j)'
    <3>1. \A i \in 0..(j - 1) : Cell(dir, t, i) \in Window
      BY <2>2, <1>1
    <3> QED BY <2>1, <2>7, <3>1, <1>4 DEF Moved, LoopAt
  <2>9. At(j)'
    BY <1>9, <2>1, <2>2, <2>3, <2>4, <2>5, <2>6, <2>8 DEF LoopAt
  <2> QED BY <2>3, <2>4, <2>9
<1>10. CASE mpc = 3
  <2>1. PICK j \in 0..n : At(j)
    BY <1>8, <1>10
  <2>2. j \in 0..(n - 1) /\ j + 1 \in 0..n
    BY <2>1, <1>10, <1>1 DEF LoopAt
  <2>a. PICK a \in Window : a = Cell(dir, t, j)
    BY <2>2
  <2>3. Put(mdata, mdata', q, a, Past(dir, t, j + 1)) /\ mpc' = 4 /\ msreg' = msreg
    BY <2>1, <2>2, <2>a, <1>10
  <2>4. /\ mdata' \in Data /\ mdata'[a] = mdata[0] /\ Now(q)' = Past(dir, t, j + 1)
        /\ Only(mdata, mdata', {a, q, q + 1})
    BY <2>3 DEF Put, Now
  <2>5. a \notin {0, 16, p, p + 1, q, q + 1}
    BY <1>6
  <2>6. Now(p)' = Now(p)
    BY <1>3, <2>4, <2>5, OnlyWord DEF Now
  <2>7. mdata'[16] = mdata[16]
    BY <1>2, <1>3, <2>4, <2>5 DEF Only
  <2>8. \A c \in Window : c # a => mdata'[c] = mdata[c]
    BY <1>6, <2>4, OnlyWindow
  <2>9. Moved(dir, t, bytes, j + 1)'
    <3>1. \A i \in 0..(j - 1) : Cell(dir, t, i) \in Window /\ Cell(dir, t, i) # a
      BY <2>2, <2>a, <1>1, Places
    <3>2. mdata'[a] = bytes[j]
      BY <2>1, <2>4, <1>10 DEF LoopAt
    <3>3. \A i \in 0..(j + 1 - 1) : mdata'[Cell(dir, t, i)] = bytes[i]
      BY <2>1, <2>2, <2>8, <2>a, <3>1, <3>2, <1>1 DEF Moved, LoopAt
    <3>4. ASSUME NEW c \in Window, \A i \in 0..(j + 1 - 1) : c # Cell(dir, t, i)
          PROVE  mdata'[c] = mdata0[c]
      BY <2>1, <2>2, <2>8, <2>a, <3>4, <1>1 DEF Moved, LoopAt
    <3> QED BY <3>3, <3>4, <1>4 DEF Moved
  <2>10. At(j + 1)'
    BY <1>1, <1>10, <2>1, <2>2, <2>3, <2>4, <2>6, <2>7, <2>9 DEF LoopAt
  <2> QED BY <2>2, <2>3, <2>4, <2>10
<1>11. CASE mpc = 4
  <2>1. PICK j \in 0..n : At(j)
    BY <1>8, <1>11
  <2>2. PICK out : out = Mem!INST_DEC(mdata[16], msreg)
    OBVIOUS
  <2>3. mdata[16] = n - j + 1 /\ j <= n /\ j >= 0
    BY <1>1, <1>11, <2>1 DEF LoopAt
  <2>4. Flagged(out.f) /\ out.v \in Byte /\ out.v = n - j /\ (out.f.Z <=> j = n)
    <3>1. /\ Flagged(out.f) /\ out.v \in Byte
          /\ out.v = IF mdata[16] = 0 THEN 255 ELSE mdata[16] - 1
          /\ out.f.Z <=> out.v = 0
      <4>1. OneLess(mdata[16], out)
        BY <1>2, <2>2, DecDoes
      <4> QED BY <4>1 DEF OneLess
    <3>2. out.v = n - j
      BY <1>1, <2>3, <3>1
    <3> QED BY <1>1, <2>3, <3>1, <3>2
  <2>5. mdata' = SetAt(mdata, 16, out.v) /\ msreg' = out.f /\ mpc' = 5
    BY <1>11, <2>2
  <2>6. mdata' \in Data /\ mdata'[16] = n - j /\ Only(mdata, mdata', {16})
    BY <1>2, <2>4, <2>5, SetCell
  <2>7. Now(p)' = Now(p) /\ Now(q)' = Now(q)
    BY <1>3, <2>6, OnlyWord DEF Now
  <2>8. \A c \in Window : mdata'[c] = mdata[c]
    BY <1>6, <2>6, OnlyWindow
  <2>9. Moved(dir, t, bytes, j)'
    <3>1. \A i \in 0..(j - 1) : Cell(dir, t, i) \in Window
      BY <2>3, <1>1
    <3> QED BY <2>1, <2>8, <3>1, <1>4 DEF Moved, LoopAt
  <2>10. At(j)'
    BY <1>11, <2>1, <2>4, <2>5, <2>6, <2>7, <2>9 DEF LoopAt
  <2> QED BY <2>4, <2>5, <2>6, <2>10
<1>12. CASE mpc = 5
  <2>1. PICK j \in 0..n : At(j)
    BY <1>8, <1>12
  <2>2. mpc' = (IF msreg.Z THEN 6 ELSE 2) /\ msreg' = msreg /\ mdata' = mdata
    BY <1>12
  <2>3. (msreg.Z <=> j = n) /\ j <= n /\ j >= 0
    BY <1>1, <1>12, <2>1 DEF LoopAt
  <2>4. Now(p)' = Now(p) /\ Now(q)' = Now(q) /\ Moved(dir, t, bytes, j)'
    BY <2>1, <2>2, <1>4 DEF Now, Moved, LoopAt
  <2>5. At(j)'
    BY <1>1, <1>12, <2>1, <2>2, <2>3, <2>4 DEF LoopAt
  <2> QED BY <2>2, <2>5
<1> QED BY <1>7, <1>9, <1>10, <1>11, <1>12

(* What the words of a counted loop do, but for its body. *)
LEMMA LoopWords ==
  ASSUME NEW n, NEW a, NEW b, mprogram.code = Mem!Counted(n, <<a, b>>), Mem!Step
  PROVE  /\ mpc \in 1..5 /\ Steps
         /\ mpc = 1 => mpc' = 2 /\ msreg' = msreg /\ mdata' = SetAt(mdata, 16, n)
         /\ mpc = 2 => mprogram.code[mpc] = a
         /\ mpc = 3 => mprogram.code[mpc] = b
         /\ mpc = 4 => /\ mpc' = 5 /\ msreg' = Mem!INST_DEC(mdata[16], msreg).f
                       /\ mdata' = SetAt(mdata, 16, Mem!INST_DEC(mdata[16], msreg).v)
         /\ mpc = 5 => mpc' = (IF msreg.Z THEN 6 ELSE 2) /\ msreg' = msreg /\ mdata' = mdata
<1>1. PICK code : code = mprogram.code
  OBVIOUS
<1>2. /\ DOMAIN code = 1..5
      /\ code[1] = <<"LDI", 16, n>> /\ code[2] = a /\ code[3] = b
      /\ code[4] = <<"DEC", 16>> /\ code[5] = <<"BRBC", "Z", -4>>
  BY <1>1, CountedCode
<1>3. mpc \in 1..5 /\ Steps
  BY <1>1, <1>2, StepBy DEF Steps
<1>4. CASE mpc = 1
  <2>1. PICK w : w = code[mpc] /\ w[1] = "LDI" /\ w[2] = 16 /\ w[3] = n
    BY <1>2, <1>4
  <2>2. mpc' = mpc + 1 /\ msreg' = msreg /\ mdata' = Mem!INST_LDI(mdata, 16, n)
    BY <1>1, <2>1, DataStep, LoadStep DEF DataOps
  <2> QED BY <1>2, <1>3, <1>4, <2>2 DEF Mem!INST_LDI, SetAt
<1>5. CASE mpc = 4
  <2>1. PICK w : w = code[mpc] /\ w[1] = "DEC" /\ w[2] = 16
    BY <1>2, <1>5
  <2>2. w[1] \in KeepOps \cup FlagOps
    BY <2>1 DEF FlagOps
  <2>3. Mem!Stores /\ mpc' = mpc + 1 /\ w = Mem!Current
    BY <1>1, <2>1, <2>2, StepBy
  <2>4. /\ mdata' = [mdata EXCEPT ![16] = Mem!INST_DEC(mdata[16], msreg).v]
        /\ msreg' = Mem!INST_DEC(mdata[16], msreg).f
    BY <2>1, <2>3, StoreStep
  <2> QED BY <1>2, <1>3, <1>5, <2>3, <2>4 DEF SetAt
<1>6. CASE mpc = 5
  <2>1. PICK w : w = code[mpc] /\ w[1] = "BRBC" /\ w[2] = "Z" /\ w[3] = -4
    BY <1>2, <1>6
  <2>2. Mem!Jumps /\ w = Mem!Current
    BY <1>1, <2>1, StepBy DEF PCOps
  <2>3. /\ mdata' = mdata /\ msreg' = msreg
        /\ mpc' = mpc + Mem!INST_BRBC(msreg, "Z", -4)
    BY <2>1, <2>2, JumpStep
  <2> QED BY <1>2, <1>3, <1>6, <2>3 DEF Mem!INST_BRBC
<1> QED BY <1>1, <1>2, <1>3, <1>4, <1>5, <1>6

(* The store of a loop. *)
LEMMA LoopStores ==
  ASSUME NEW dir \in {"up", "down"}, NEW p, NEW q \in Pointers, NEW s, NEW t \in Int,
         NEW n \in 1..MaxLen, NEW bytes, NEW b, b = << IF dir = "up" THEN Mem!StInc(q) ELSE Mem!StDec(q), 0>>,
         \A i \in 0..(n - 1) : Cell(dir, t, i) \in Window,
         mdata \in Data, Mem!Step, mpc = 3, mprogram.code[mpc] = b
  PROVE  /\ mpc' = 4 /\ msreg' = msreg
         /\ \A j \in 0..(n - 1) : LoopAt(dir, p, s, q, t, n, bytes, j) =>
              Put(mdata, mdata', q, Cell(dir, t, j), Past(dir, t, j + 1))
<1>1. mpc' = 4 /\ msreg' = msreg
  BY StoresThrough
<1>2. ASSUME NEW j \in 0..(n - 1), LoopAt(dir, p, s, q, t, n, bytes, j)
      PROVE  Put(mdata, mdata', q, Cell(dir, t, j), Past(dir, t, j + 1))
  <2>1. Mem!getWord(mdata, q) = Past(dir, t, j) /\ j \in Int
    BY <1>2 DEF LoopAt, Now
  <2>2. PICK a \in Window : a = Cell(dir, t, j)
    OBVIOUS
  <2>3. CASE dir = "up"
    <3>1. a = Past(dir, t, j) /\ Past(dir, t, j + 1) = a + 1
      BY <2>1, <2>2, <2>3, Places
    <3>2. mdata' = Mem!StoreInc(mdata, 0, q)
      BY <2>3, StoresThrough
    <3> QED BY <2>1, <2>2, <3>1, <3>2, IncPuts
  <2>4. CASE dir = "down"
    <3>1. a = Past(dir, t, j) - 1 /\ Past(dir, t, j + 1) = a
      BY <2>1, <2>2, <2>4, Places
    <3>2. mdata' = Mem!StoreDec(mdata, 0, q)
      BY <2>4, StoresThrough
    <3> QED BY <2>1, <2>2, <3>1, <3>2, DecPuts
  <2> QED BY <2>3, <2>4
<1> QED BY <1>1, <1>2

(* The load of a copying loop: the byte is still the one of the start. *)
LEMMA LoopLoads ==
  ASSUME NEW dir \in {"up", "down"}, NEW p \in Pointers, NEW q, NEW s \in Int, NEW t \in Int,
         NEW n \in 1..MaxLen, NEW bytes, NEW a, a = << IF dir = "up" THEN Mem!LdInc(p) ELSE Mem!LdDec(p), 0>>,
         \A i \in 0..(n - 1) : Cell(dir, s, i) \in Window /\ bytes[i] = mdata0[Cell(dir, s, i)],
         \A i, j \in 0..(n - 1) : i < j => Cell(dir, t, i) # Cell(dir, s, j),
         mdata \in Data, Mem!Step, mpc = 2, mprogram.code[mpc] = a
  PROVE  /\ mpc' = 3 /\ msreg' = msreg
         /\ \A j \in 0..(n - 1) : LoopAt(dir, p, s, q, t, n, bytes, j) =>
              Taken(mdata, mdata', p, bytes[j], Past(dir, s, j + 1))
<1>1. mpc' = 3 /\ msreg' = msreg
  BY LoadsThrough
<1>2. ASSUME NEW j \in 0..(n - 1), LoopAt(dir, p, s, q, t, n, bytes, j)
      PROVE  Taken(mdata, mdata', p, bytes[j], Past(dir, s, j + 1))
  <2>1. Mem!getWord(mdata, p) = Past(dir, s, j) /\ j \in Int
    BY <1>2 DEF LoopAt, Now
  <2>2. PICK c \in Window : c = Cell(dir, s, j)
    OBVIOUS
  <2>a. n \in Nat
    BY MemoryAssumption
  <2>3. \A i \in 0..(j - 1) : c # Cell(dir, t, i)
    <3>1. \A i \in 0..(j - 1) : i \in 0..(n - 1) /\ i < j
      BY <2>a
    <3> QED BY <2>2, <3>1
  <2>4. mdata[c] = bytes[j]
    BY <1>2, <2>2, <2>3 DEF LoopAt, Moved
  <2>5. CASE dir = "up"
    <3>1. c = Past(dir, s, j) /\ Past(dir, s, j + 1) = c + 1
      BY <2>1, <2>2, <2>5, Places
    <3>2. mdata' = Mem!LoadInc(mdata, 0, p)
      BY <2>5, LoadsThrough
    <3> QED BY <2>1, <2>2, <2>4, <3>1, <3>2, IncTakes
  <2>6. CASE dir = "down"
    <3>1. c = Past(dir, s, j) - 1 /\ Past(dir, s, j + 1) = c
      BY <2>1, <2>2, <2>6, Places
    <3>2. mdata' = Mem!LoadDec(mdata, 0, p)
      BY <2>6, LoadsThrough
    <3> QED BY <2>1, <2>2, <2>4, <3>1, <3>2, DecTakes
  <2> QED BY <2>5, <2>6
<1> QED BY <1>1, <1>2

LEMMA CopyStep ==
  ASSUME NEW dir \in {"up", "down"}, NEW p \in Pointers, NEW q \in Pointers, NEW n \in 1..MaxLen,
         NEW a, a = << IF dir = "up" THEN Mem!LdInc(p) ELSE Mem!LdDec(p), 0>>,
         NEW b, b = << IF dir = "up" THEN Mem!StInc(q) ELSE Mem!StDec(q), 0>>,
         mprogram.code = Mem!Counted(n, <<a, b>>), CopyFits(dir, p, q, n),
         AtLoop(dir, p, q, n, Source(dir, p, n)),
         mdata \in Data, mdata0 \in Data, Flagged(msreg), Mem!Step
  PROVE  /\ mdata' \in Data /\ Flagged(msreg') /\ Steps
         /\ CopyFits(dir, p, q, n)' /\ AtLoop(dir, p, q, n, Source(dir, p, n))'
<1>1. PICK s, t, bytes : s = Then(p) /\ t = Then(q) /\ bytes = Source(dir, p, n)
  OBVIOUS
<1>2. s \in Int /\ t \in Int
  <2>1. p \in Pairs /\ q \in Pairs
    BY DEF Pointers, Pairs
  <2> QED BY <1>1, <2>1, GetWord DEF Then, IsWord
<1>3. Steps /\ mpc \in 1..5
  BY LoopWords
<1>4. p # q /\ \A i \in 0..(n - 1) : Cell(dir, s, i) \in Window /\ Cell(dir, t, i) \in Window
  BY <1>1 DEF CopyFits
<1>5. \A i, j \in 0..(n - 1) : i < j => Cell(dir, t, i) # Cell(dir, s, j)
  BY <1>1 DEF CopyFits
<1>6. \A i \in 0..(n - 1) : bytes[i] = mdata0[Cell(dir, s, i)]
  BY <1>1 DEF Source
<1>7. AtLoop(dir, p, q, n, bytes)
  BY <1>1
<1>8. mpc = 2 => /\ mpc' = 3 /\ msreg' = msreg
                 /\ \A j \in 0..(n - 1) : LoopAt(dir, p, s, q, t, n, bytes, j) =>
                      Taken(mdata, mdata', p, bytes[j], Past(dir, s, j + 1))
  <2> SUFFICES ASSUME mpc = 2
               PROVE  /\ mpc' = 3 /\ msreg' = msreg
                      /\ \A j \in 0..(n - 1) : LoopAt(dir, p, s, q, t, n, bytes, j) =>
                           Taken(mdata, mdata', p, bytes[j], Past(dir, s, j + 1))
    OBVIOUS
  <2>1. mprogram.code[mpc] = a
    BY LoopWords
  <2> QED BY <1>2, <1>4, <1>5, <1>6, <2>1, LoopLoads
<1>9. mpc = 3 => /\ mpc' = 4 /\ msreg' = msreg
                 /\ \A j \in 0..(n - 1) : LoopAt(dir, p, s, q, t, n, bytes, j) =>
                      Put(mdata, mdata', q, Cell(dir, t, j), Past(dir, t, j + 1))
  <2> SUFFICES ASSUME mpc = 3
               PROVE  /\ mpc' = 4 /\ msreg' = msreg
                      /\ \A j \in 0..(n - 1) : LoopAt(dir, p, s, q, t, n, bytes, j) =>
                           Put(mdata, mdata', q, Cell(dir, t, j), Past(dir, t, j + 1))
    OBVIOUS
  <2>1. mprogram.code[mpc] = b
    BY LoopWords
  <2> QED BY <1>2, <1>4, <2>1, LoopStores
<1>10. /\ mpc = 1 => mpc' = 2 /\ msreg' = msreg /\ mdata' = SetAt(mdata, 16, n)
       /\ mpc = 4 => /\ mpc' = 5 /\ msreg' = Mem!INST_DEC(mdata[16], msreg).f
                     /\ mdata' = SetAt(mdata, 16, Mem!INST_DEC(mdata[16], msreg).v)
       /\ mpc = 5 => mpc' = (IF msreg.Z THEN 6 ELSE 2) /\ msreg' = msreg /\ mdata' = mdata
  BY LoopWords
<1>11. mdata' \in Data /\ Flagged(msreg') /\ AtLoop(dir, p, q, n, bytes)'
  BY <1>1, <1>2, <1>3, <1>4, <1>7, <1>8, <1>9, <1>10, LoopStep
<1>12. mdata0' = mdata0
  BY <1>3 DEF Steps
<1>13. Source(dir, p, n)' = bytes
  BY <1>1, <1>12 DEF Source, Then
<1>14. CopyFits(dir, p, q, n)'
  BY <1>12 DEF CopyFits, Then
<1> QED BY <1>3, <1>11, <1>13, <1>14

LEMMA TableStep ==
  ASSUME NEW lpm \in {"LPM_dpostInc", "ELPM_dpostInc"}, NEW n \in 1..MaxLen,
         NEW a, a = <<lpm, 0>>, NEW b, b = <<"ST_XpostInc", 0>>,
         mprogram.code = Mem!Counted(n, <<a, b>>), TableFits(n), AtLoop("up", 30, 26, n, Slice(n)),
         mdata \in Data, mdata0 \in Data, Flagged(msreg), Mem!Step
  PROVE  /\ mdata' \in Data /\ Flagged(msreg') /\ Steps
         /\ TableFits(n)' /\ AtLoop("up", 30, 26, n, Slice(n))'
<1>1. PICK s, t, bytes, p, q, dir :
        s = Then(30) /\ t = Then(26) /\ bytes = Slice(n) /\ p = 30 /\ q = 26 /\ dir = "up"
  OBVIOUS
<1>2. s \in Int /\ t \in Int /\ p \in Pointers /\ q \in Pointers /\ p # q /\ dir \in {"up", "down"}
  <2>1. 26 \in Pairs /\ 30 \in Pairs
    BY DEF Pairs
  <2> QED BY <1>1, <2>1, GetWord DEF Then, IsWord, Pointers
<1>3. Steps /\ mpc \in 1..5
  BY LoopWords
<1>4. \A i \in 0..(n - 1) : Cell(dir, t, i) \in Window
  BY <1>1 DEF TableFits, Cell
<1>5. \A i \in 0..(n - 1) : s + i \in DOMAIN Table /\ bytes[i] = Table[s + i]
  BY <1>1 DEF TableFits, Slice
<1>7. AtLoop(dir, p, q, n, bytes)
  BY <1>1
<1>8. mpc = 2 => /\ mpc' = 3 /\ msreg' = msreg
                 /\ \A j \in 0..(n - 1) : LoopAt(dir, p, s, q, t, n, bytes, j) =>
                      Taken(mdata, mdata', p, bytes[j], Past(dir, s, j + 1))
  <2> SUFFICES ASSUME mpc = 2
               PROVE  /\ mpc' = 3 /\ msreg' = msreg
                      /\ \A j \in 0..(n - 1) : LoopAt(dir, p, s, q, t, n, bytes, j) =>
                           Taken(mdata, mdata', p, bytes[j], Past(dir, s, j + 1))
    OBVIOUS
  <2>1. a = mprogram.code[mpc] /\ a[1] = lpm /\ a[2] = 0
    BY LoopWords
  <2>2. a[1] \in DataOps
    BY <2>1 DEF DataOps
  <2>3. Mem!Loads /\ a = Mem!Current /\ mpc' = mpc + 1 /\ msreg' = msreg
    BY <2>1, <2>2, DataStep
  <2>4. mdata' = Mem!INST_LPM_dpostInc(mdata, 0)
    BY <2>1, <2>3, LoadStep DEF Mem!INST_ELPM_dpostInc
  <2>5. ASSUME NEW j \in 0..(n - 1), LoopAt(dir, p, s, q, t, n, bytes, j)
        PROVE  Taken(mdata, mdata', p, bytes[j], Past(dir, s, j + 1))
    <3>1. Mem!getWord(mdata, 30) = s + j /\ Past(dir, s, j + 1) = (s + j) + 1
      BY <1>1, <1>2, <2>5 DEF LoopAt, Now, Past
    <3>2. PICK w \in DOMAIN Table : w = s + j /\ bytes[j] = Table[w]
      BY <1>5
    <3> QED BY <1>1, <2>4, <3>1, <3>2, TableTakes
  <2> QED BY <2>3, <2>5
<1>9. mpc = 3 => /\ mpc' = 4 /\ msreg' = msreg
                 /\ \A j \in 0..(n - 1) : LoopAt(dir, p, s, q, t, n, bytes, j) =>
                      Put(mdata, mdata', q, Cell(dir, t, j), Past(dir, t, j + 1))
  <2> SUFFICES ASSUME mpc = 3
               PROVE  /\ mpc' = 4 /\ msreg' = msreg
                      /\ \A j \in 0..(n - 1) : LoopAt(dir, p, s, q, t, n, bytes, j) =>
                           Put(mdata, mdata', q, Cell(dir, t, j), Past(dir, t, j + 1))
    OBVIOUS
  <2>1. mprogram.code[mpc] = b
    BY LoopWords
  <2>2. b = <<IF dir = "up" THEN Mem!StInc(q) ELSE Mem!StDec(q), 0>>
    BY <1>1 DEF Mem!StInc, Mem!Mode, Mem!X
  <2> QED BY <1>2, <1>4, <2>1, <2>2, LoopStores
<1>10. /\ mpc = 1 => mpc' = 2 /\ msreg' = msreg /\ mdata' = SetAt(mdata, 16, n)
       /\ mpc = 4 => /\ mpc' = 5 /\ msreg' = Mem!INST_DEC(mdata[16], msreg).f
                     /\ mdata' = SetAt(mdata, 16, Mem!INST_DEC(mdata[16], msreg).v)
       /\ mpc = 5 => mpc' = (IF msreg.Z THEN 6 ELSE 2) /\ msreg' = msreg /\ mdata' = mdata
  BY LoopWords
<1>11. mdata' \in Data /\ Flagged(msreg') /\ AtLoop(dir, p, q, n, bytes)'
  BY <1>1, <1>2, <1>3, <1>4, <1>7, <1>8, <1>9, <1>10, LoopStep
<1>12. mdata0' = mdata0
  BY <1>3 DEF Steps
<1>13. Slice(n)' = bytes /\ TableFits(n)'
  BY <1>1, <1>12 DEF Slice, Then, TableFits
<1> QED BY <1>1, <1>3, <1>11, <1>13

-----------------------------------------------------------------------------
\* Straight pieces of code

(* One register gets v, and nothing else changes. *)
Gets(r, v) == mdata' \in Data /\ mdata'[r] = v /\ Only(mdata, mdata', {r})
(* The step goes on to the next word and leaves the flags. *)
GoesOn == Steps /\ mpc' = mpc + 1 /\ msreg' = msreg

Small == {0, 1, 16, 28, 29}
LEMMA SmallRegs ==
  /\ Small \subseteq Mem!Cells
  /\ \A r \in Small : r \notin Window
  /\ \A r \in {0, 1, 16}, p \in Pairs : r # p /\ r # p + 1
<1>1. \A r \in Small : r \notin Window
  BY Apart DEF Small
<1> QED BY <1>1, CellsAre DEF Small, Pairs

LEMMA GetsCell ==
  ASSUME mdata \in Data, NEW r \in Mem!Cells, NEW v \in Byte, mdata' = SetAt(mdata, r, v)
  PROVE  Gets(r, v)
BY SetCell DEF Gets

LEMMA LddGets ==
  ASSUME Mem!Step, mdata \in Data, NEW r \in Small, NEW p, NEW k, NEW w, w = mprogram.code[mpc],
         w = <<"LDD_anyYZ", r, p, k>>, NEW a \in Window, a = Now(p) + k
  PROVE  GoesOn /\ Gets(r, mdata[a])
<1>1. w[1] = "LDD_anyYZ" /\ w[1] \in DataOps /\ w[2] = r /\ w[3] = p /\ w[4] = k
  BY DEF DataOps
<1>2. GoesOn /\ mdata' = Mem!INST_LDD_anyYZ(mdata, r, p, k)
  BY <1>1, DataStep, LoadStep DEF GoesOn
<1>3. mdata' = SetAt(mdata, r, mdata[a])
  BY <1>2 DEF Mem!INST_LDD_anyYZ, SetAt, Now
<1>4. r \in Mem!Cells /\ mdata[a] \in Byte
  BY SmallRegs, Apart DEF Data
<1> QED BY <1>2, <1>3, <1>4, GetsCell

LEMMA LdXGets ==
  ASSUME Mem!Step, mdata \in Data, NEW w, w = mprogram.code[mpc],
         w = <<"LD_X", 0>>, NEW a \in Window, a = Now(26)
  PROVE  GoesOn /\ Gets(0, mdata[a])
<1>1. w[1] = "LD_X" /\ w[1] \in DataOps /\ w[2] = 0
  BY DEF DataOps
<1>2. GoesOn /\ mdata' = Mem!INST_LD_X(mdata, 0)
  BY <1>1, DataStep, LoadStep DEF GoesOn
<1>3. mdata' = SetAt(mdata, 0, mdata[a])
  BY <1>2 DEF Mem!INST_LD_X, Mem!Load, Mem!X, SetAt, Now
<1>4. 0 \in Mem!Cells /\ mdata[a] \in Byte
  BY SmallRegs, Apart DEF Data, Small
<1> QED BY <1>2, <1>3, <1>4, GetsCell

LEMMA StdGets ==
  ASSUME Mem!Step, mdata \in Data, NEW r \in Small, NEW p, NEW k, NEW w, w = mprogram.code[mpc],
         w = <<"STD_anyYZ", r, p, k>>, NEW a \in Window, a = Now(p) + k
  PROVE  GoesOn /\ Gets(a, mdata[r])
<1>1. w[1] = "STD_anyYZ" /\ w[1] \in KeepOps /\ w[2] = r /\ w[3] = p /\ w[4] = k
  BY DEF KeepOps
<1>2. GoesOn /\ mdata' = Mem!INST_STD_anyYZ(mdata, r, p, k)
  BY <1>1, KeepStep, StoreStep DEF GoesOn
<1>3. mdata' = SetAt(mdata, a, mdata[r])
  BY <1>2 DEF Mem!INST_STD_anyYZ, SetAt, Now
<1>4. a \in Mem!Cells /\ mdata[r] \in Byte
  BY SmallRegs, Apart DEF Data
<1> QED BY <1>2, <1>3, <1>4, GetsCell

LEMMA StXGets ==
  ASSUME Mem!Step, mdata \in Data, NEW w, w = mprogram.code[mpc],
         w = <<"ST_X", 0>>, NEW a \in Window, a = Now(26)
  PROVE  GoesOn /\ Gets(a, mdata[0])
<1>1. w[1] = "ST_X" /\ w[1] \in KeepOps /\ w[2] = 0
  BY DEF KeepOps
<1>2. GoesOn /\ mdata' = Mem!INST_ST_X(mdata, 0)
  BY <1>1, KeepStep, StoreStep DEF GoesOn
<1>3. mdata' = SetAt(mdata, a, mdata[0])
  BY <1>2 DEF Mem!INST_ST_X, Mem!Store, Mem!X, SetAt, Now
<1>4. a \in Mem!Cells /\ mdata[0] \in Byte
  BY SmallRegs, Apart DEF Data, Small
<1> QED BY <1>2, <1>3, <1>4, GetsCell

LEMMA LdiGets ==
  ASSUME Mem!Step, mdata \in Data, NEW v \in Byte, NEW w, w = mprogram.code[mpc],
         w = <<"LDI", 16, v>>
  PROVE  GoesOn /\ Gets(16, v)
<1>1. w[1] = "LDI" /\ w[1] \in DataOps /\ w[2] = 16 /\ w[3] = v
  BY DEF DataOps
<1>2. GoesOn /\ mdata' = Mem!INST_LDI(mdata, 16, v)
  BY <1>1, DataStep, LoadStep DEF GoesOn
<1>3. mdata' = SetAt(mdata, 16, v) /\ 16 \in Mem!Cells
  BY <1>2, SmallRegs DEF Mem!INST_LDI, SetAt, Small
<1> QED BY <1>2, <1>3, GetsCell

LEMMA MovGets ==
  ASSUME Mem!Step, mdata \in Data, NEW w, w = mprogram.code[mpc], w = <<"MOV", 0, 1>>
  PROVE  GoesOn /\ Gets(0, mdata[1])
<1>1. w[1] = "MOV" /\ w[1] \in DataOps /\ w[2] = 0 /\ w[3] = 1
  BY DEF DataOps
<1>2. GoesOn /\ mdata' = Mem!INST_MOV(mdata, 0, 1)
  BY <1>1, DataStep, LoadStep DEF GoesOn
<1>3. mdata' = SetAt(mdata, 0, mdata[1]) /\ 0 \in Mem!Cells /\ mdata[1] \in Byte
  BY <1>2, SmallRegs DEF Mem!INST_MOV, SetAt, Small, Data
<1> QED BY <1>2, <1>3, GetsCell

LEMMA LpmGets ==
  ASSUME Mem!Step, mdata \in Data, NEW w, w = mprogram.code[mpc],
         NEW z \in DOMAIN Table, z = Now(30)
  PROVE  /\ w[1] \in {"LPM_d", "ELPM_d"} /\ w[2] = 1 => GoesOn /\ Gets(1, Table[z])
         /\ w[1] \in {"LPM_0", "ELPM_0"} => GoesOn /\ Gets(0, Table[z])
<1>1. Table[z] \in Byte /\ 0 \in Mem!Cells /\ 1 \in Mem!Cells
  BY TableFacts, SmallRegs DEF Small
<1>2. ASSUME w[1] \in {"LPM_d", "ELPM_d"}, w[2] = 1
      PROVE  GoesOn /\ Gets(1, Table[z])
  <2>1. GoesOn /\ mdata' = Mem!INST_LPM_d(mdata, 1)
    BY <1>2, DataStep, LoadStep DEF GoesOn, DataOps, Mem!INST_ELPM_d
  <2>2. mdata' = SetAt(mdata, 1, Table[z])
    BY <2>1 DEF Mem!INST_LPM_d, Mem!Z, SetAt, Now
  <2> QED BY <1>1, <2>1, <2>2, GetsCell
<1>3. ASSUME w[1] \in {"LPM_0", "ELPM_0"}
      PROVE  GoesOn /\ Gets(0, Table[z])
  <2>1. GoesOn /\ mdata' = Mem!INST_LPM_0(mdata)
    BY <1>3, DataStep, LoadStep DEF GoesOn, DataOps, Mem!INST_ELPM_0
  <2>2. mdata' = SetAt(mdata, 0, Table[z])
    BY <2>1 DEF Mem!INST_LPM_0, Mem!Z, SetAt, Now
  <2> QED BY <1>1, <2>1, <2>2, GetsCell
<1> QED BY <1>2, <1>3

(* A register of no pointer gets something: the window and the pointers stay. *)
LEMMA RegGets ==
  ASSUME NEW r \in {0, 1, 16}, NEW v, Gets(r, v), Steps
  PROVE  /\ \A c \in Window : mdata'[c] = mdata[c]
         /\ \A p \in Pairs : Now(p)' = Now(p) /\ Then(p)' = Then(p)
         /\ \A x \in {0, 1, 16} : x # r => mdata'[x] = mdata[x]
         /\ \A cells : Kept(cells) => Kept(cells)'
<1>1. Only(mdata, mdata', {r}) /\ r \in Small
  BY DEF Gets, Small
<1>2. \A c \in Window : mdata'[c] = mdata[c]
  BY <1>1, OnlyWindow, SmallRegs
<1>3. ASSUME NEW p \in Pairs
      PROVE  Now(p)' = Now(p) /\ Then(p)' = Then(p)
  BY <1>1, OnlyWord, SmallRegs DEF Now, Then, Steps
<1>4. \A x \in {0, 1, 16} : x # r => mdata'[x] = mdata[x]
  BY <1>1, SmallRegs DEF Only, Small
<1>5. \A cells : Kept(cells) => Kept(cells)'
  BY <1>2 DEF Kept, Steps
<1> QED BY <1>2, <1>3, <1>4, <1>5

(* A cell of the window gets something: the registers stay. *)
LEMMA CellGets ==
  ASSUME NEW a \in Window, NEW v, Gets(a, v), Steps
  PROVE  /\ mdata'[a] = v /\ \A c \in Window : c # a => mdata'[c] = mdata[c]
         /\ \A p \in Pairs : Now(p)' = Now(p) /\ Then(p)' = Then(p)
         /\ \A r \in Small : mdata'[r] = mdata[r]
         /\ \A cells : Kept(cells) => Kept(cells \cup {a})'
<1>1. Only(mdata, mdata', {a}) /\ mdata'[a] = v
  BY DEF Gets
<1>2. \A c \in Window : c # a => mdata'[c] = mdata[c]
  BY <1>1, OnlyWindow
<1>3. ASSUME NEW p \in Pairs
      PROVE  Now(p)' = Now(p) /\ Then(p)' = Then(p)
  <2>1. p # a /\ p + 1 # a
    BY Apart DEF Pairs
  <2> QED BY <1>1, <2>1, OnlyWord DEF Now, Then, Steps
<1>4. \A r \in Small : mdata'[r] = mdata[r]
  BY <1>1, SmallRegs DEF Only
<1>5. \A cells : Kept(cells) => Kept(cells \cup {a})'
  BY <1>2 DEF Kept, Steps
<1> QED BY <1>1, <1>2, <1>3, <1>4, <1>5

LEMMA PairStep ==
  ASSUME NEW p \in {28, 30}, NEW q \in {28, 30}, mprogram = Pair(p, q), AtPair(p, q),
         mdata \in Data, Mem!Step
  PROVE  mdata' \in Data /\ Steps /\ msreg' = msreg /\ AtPair(p, q)'
<1>1. PICK code : code = mprogram.code
  OBVIOUS
<1>2. code = << <<"LDD_anyYZ", 0, p, 0>>, <<"LDD_anyYZ", 1, p, 1>>,
                <<"STD_anyYZ", 0, q, 0>>, <<"STD_anyYZ", 1, q, 1>> >>
  BY <1>1 DEF Pair, Mem!Is
<1>3. /\ mpc \in 1..4 /\ Steps
      /\ mpc = 1 => code[mpc] = <<"LDD_anyYZ", 0, p, 0>>
      /\ mpc = 2 => code[mpc] = <<"LDD_anyYZ", 1, p, 1>>
      /\ mpc = 3 => code[mpc] = <<"STD_anyYZ", 0, q, 0>>
      /\ mpc = 4 => code[mpc] = <<"STD_anyYZ", 1, q, 1>>
  BY <1>1, <1>2, StepBy DEF Steps
<1>4. PICK s \in Window, t \in Window :
        s = Then(p) /\ t = Then(q) /\ s + 1 \in Window /\ t + 1 \in Window /\ p # q
  BY DEF AtPair
<1>5. p \in Pairs /\ q \in Pairs /\ s \in Int /\ t \in Int
  BY WindowFacts DEF Pairs
<1>6. mdata0' = mdata0 /\ Then(p)' = s /\ Then(q)' = t /\ Now(p) = s /\ Now(q) = t
  BY <1>3, <1>4 DEF Steps, Then, AtPair
<1>7. s + 0 = s /\ t + 0 = t /\ t # t + 1
  BY <1>5
<1>8. CASE mpc = 1
  <2>1. GoesOn /\ Gets(0, mdata[s])
    BY <1>1, <1>3, <1>6, <1>7, <1>8, LddGets DEF Small
  <2>2. mdata[s] = mdata0[s] /\ Kept({})
    BY <1>8 DEF AtPair, Kept
  <2>3. Now(p)' = s /\ Now(q)' = t /\ Kept({})'
    BY <1>3, <1>5, <1>6, <2>1, <2>2, RegGets
  <2> QED BY <1>3, <1>4, <1>6, <1>8, <2>1, <2>2, <2>3 DEF AtPair, GoesOn, Gets
<1>9. CASE mpc = 2
  <2>1. GoesOn /\ Gets(1, mdata[s + 1])
    BY <1>1, <1>3, <1>4, <1>6, <1>9, LddGets DEF Small
  <2>2. mdata[s + 1] = mdata0[s + 1] /\ Kept({}) /\ mdata[0] = mdata0[s]
    BY <1>4, <1>9 DEF AtPair, Kept
  <2>3. Now(p)' = s /\ Now(q)' = t /\ Kept({})' /\ mdata'[0] = mdata[0]
    BY <1>3, <1>5, <1>6, <2>1, <2>2, RegGets
  <2> QED BY <1>3, <1>4, <1>6, <1>9, <2>1, <2>2, <2>3 DEF AtPair, GoesOn, Gets
<1>10. CASE mpc = 3
  <2>1. GoesOn /\ Gets(t, mdata[0])
    BY <1>1, <1>3, <1>6, <1>7, <1>10, StdGets DEF Small
  <2>2. mdata[1] = mdata0[s + 1] /\ Kept({}) /\ mdata[0] = mdata0[s]
    BY <1>4, <1>10 DEF AtPair
  <2>3. /\ Now(p)' = s /\ Now(q)' = t /\ Kept({} \cup {t})'
        /\ mdata'[0] = mdata[0] /\ mdata'[1] = mdata[1] /\ mdata'[t] = mdata[0]
    BY <1>3, <1>5, <1>6, <2>1, <2>2, CellGets DEF Small
  <2>4. Kept({t})'
    BY <2>3, <1>6 DEF Kept
  <2> QED BY <1>3, <1>4, <1>6, <1>10, <2>1, <2>2, <2>3, <2>4 DEF AtPair, GoesOn, Gets
<1>11. CASE mpc = 4
  <2>1. GoesOn /\ Gets(t + 1, mdata[1])
    BY <1>1, <1>3, <1>4, <1>6, <1>11, StdGets DEF Small
  <2>2. mdata[1] = mdata0[s + 1] /\ Kept({t}) /\ mdata[0] = mdata0[s] /\ mdata[t] = mdata0[s]
    BY <1>4, <1>11 DEF AtPair
  <2>3. /\ Now(p)' = s /\ Now(q)' = t /\ Kept({t} \cup {t + 1})'
        /\ mdata'[0] = mdata[0] /\ mdata'[1] = mdata[1] /\ mdata'[t + 1] = mdata[1]
        /\ mdata'[t] = mdata[t]
    BY <1>3, <1>4, <1>5, <1>6, <1>7, <2>1, <2>2, CellGets DEF Small
  <2>4. Kept({t, t + 1})'
    BY <2>3, <1>6 DEF Kept
  <2> QED BY <1>3, <1>4, <1>6, <1>11, <2>1, <2>2, <2>3, <2>4 DEF AtPair, GoesOn, Gets
<1> QED
  <2>1. mpc = 1 \/ mpc = 2 \/ mpc = 3 \/ mpc = 4
    BY <1>3
  <2>2. msreg' = msreg
    BY <1>1, <1>3, <2>1, StepBy, LoadStep, StoreStep DEF DataOps, KeepOps
  <2> QED BY <1>3, <1>8, <1>9, <1>10, <1>11, <2>1, <2>2

LEMMA EntryEnd ==
  ASSUME NEW done \in {3, 4}, mpc = done - 1, AtEntry(done), mdata \in Data, Mem!Step,
         NEW w, w = mprogram.code[mpc], w = <<"ST_X", 0>>
  PROVE  mdata' \in Data /\ Steps /\ msreg' = msreg /\ AtEntry(done)'
<1>1. PICK x \in Window, z \in DOMAIN Table : x = Then(26) /\ z = Then(30)
  BY DEF AtEntry
<1>2. Now(26) = x /\ Now(30) = z /\ mdata[0] = Table[z] /\ Kept({})
  BY <1>1 DEF AtEntry
<1>3. GoesOn /\ Gets(x, mdata[0])
  BY <1>2, StXGets
<1>4. 26 \in Pairs /\ 30 \in Pairs
  BY DEF Pairs
<1>5. /\ Now(26)' = x /\ Now(30)' = z /\ Then(26)' = x /\ Then(30)' = z
      /\ mdata'[x] = Table[z] /\ Kept({} \cup {x})'
  BY <1>1, <1>2, <1>3, <1>4, CellGets DEF GoesOn
<1>6. Kept({x})'
  BY <1>3, <1>5 DEF Kept
<1> QED BY <1>3, <1>5, <1>6 DEF AtEntry, GoesOn, Gets

LEMMA EntryStep ==
  ASSUME NEW lpm, NEW done,
         \/ lpm \in {"LPM_d", "ELPM_d"} /\ mprogram = EntryD(lpm) /\ done = 4
         \/ lpm \in {"LPM_0", "ELPM_0"} /\ mprogram = Entry0(lpm) /\ done = 3,
         AtEntry(done), mdata \in Data, Mem!Step
  PROVE  mdata' \in Data /\ Steps /\ msreg' = msreg /\ AtEntry(done)'
<1>1. PICK code : code = mprogram.code
  OBVIOUS
<1>2. PICK x \in Window, z \in DOMAIN Table : x = Then(26) /\ z = Then(30)
  BY DEF AtEntry
<1>3. Now(26) = x /\ Now(30) = z
  BY <1>2 DEF AtEntry
<1>4. 26 \in Pairs /\ 30 \in Pairs
  BY DEF Pairs
<1>5. mpc \in DOMAIN code
  BY <1>1, StepBy
<1>6. CASE lpm \in {"LPM_d", "ELPM_d"} /\ mprogram = EntryD(lpm) /\ done = 4
  <2>1. code = << <<lpm, 1>>, <<"MOV", 0, 1>>, <<"ST_X", 0>> >>
    BY <1>1, <1>6 DEF EntryD, Mem!Is
  <2>2. mpc \in 1..3 /\ code[1] = <<lpm, 1>> /\ code[2] = <<"MOV", 0, 1>> /\ code[3] = <<"ST_X", 0>>
    BY <1>5, <2>1
  <2>3. CASE mpc = 1
    <3>1. GoesOn /\ Gets(1, Table[z]) /\ Kept({})
      BY <1>1, <1>3, <1>6, <2>2, <2>3, LpmGets DEF AtEntry
    <3>2. /\ Now(26)' = x /\ Now(30)' = z /\ Then(26)' = x /\ Then(30)' = z /\ Kept({})'
      BY <1>2, <1>3, <1>4, <3>1, RegGets DEF GoesOn
    <3> QED BY <1>6, <2>3, <3>1, <3>2 DEF AtEntry, GoesOn, Gets
  <2>4. CASE mpc = 2
    <3>1. GoesOn /\ Gets(0, mdata[1])
      BY <1>1, <2>2, <2>4, MovGets
    <3>2. mdata[1] = Table[z] /\ Kept({})
      BY <1>2, <1>6, <2>4 DEF AtEntry
    <3>3. /\ Now(26)' = x /\ Now(30)' = z /\ Then(26)' = x /\ Then(30)' = z /\ Kept({})'
      BY <1>2, <1>3, <1>4, <3>1, <3>2, RegGets DEF GoesOn
    <3> QED BY <1>6, <2>4, <3>1, <3>2, <3>3 DEF AtEntry, GoesOn, Gets
  <2>5. CASE mpc = 3
    BY <1>1, <1>6, <2>2, <2>5, EntryEnd
  <2> QED BY <2>2, <2>3, <2>4, <2>5
<1>7. CASE lpm \in {"LPM_0", "ELPM_0"} /\ mprogram = Entry0(lpm) /\ done = 3
  <2>1. code = << <<lpm>>, <<"ST_X", 0>> >>
    BY <1>1, <1>7 DEF Entry0, Mem!Is
  <2>2. mpc \in 1..2 /\ code[1] = <<lpm>> /\ code[2] = <<"ST_X", 0>>
    BY <1>5, <2>1
  <2>3. CASE mpc = 1
    <3>1. GoesOn /\ Gets(0, Table[z]) /\ Kept({})
      BY <1>1, <1>3, <1>7, <2>2, <2>3, LpmGets DEF AtEntry
    <3>2. /\ Now(26)' = x /\ Now(30)' = z /\ Then(26)' = x /\ Then(30)' = z /\ Kept({})'
      BY <1>2, <1>3, <1>4, <3>1, RegGets DEF GoesOn
    <3> QED BY <1>7, <2>3, <3>1, <3>2 DEF AtEntry, GoesOn, Gets
  <2>4. CASE mpc = 2
    BY <1>1, <1>7, <2>2, <2>4, EntryEnd
  <2> QED BY <2>2, <2>3, <2>4
<1> QED BY <1>6, <1>7

-----------------------------------------------------------------------------
\* Skips and branches

Stays == mdata' = mdata /\ msreg' = msreg /\ Steps

LEMMA CpseSkips ==
  ASSUME Mem!Step, NEW w, w = mprogram.code[mpc], NEW r, NEW x, w = <<"CPSE", r, x>>
  PROVE  /\ Stays
         /\ mdata[r] # mdata[x] => mpc' = mpc + 1
         /\ mdata[r] = mdata[x] =>
              mpc' = mpc + (IF mprogram.code[mpc + 1][1] \in {"LDS", "STS"} THEN 3 ELSE 2)
<1>1. w[1] = "CPSE" /\ w[2] = r /\ w[3] = x /\ w[1] \in PCOps
  BY DEF PCOps
<1>2. Mem!Jumps /\ w = Mem!Current /\ Steps
  BY <1>1, StepBy, Zenon DEF Steps
<1>3. Stays /\ mpc' = mpc + Mem!INST_CPSE(mdata, mprogram.code, mpc, r, x)
  BY <1>1, <1>2, JumpStep DEF Stays
<1> QED BY <1>3 DEF Mem!INST_CPSE, Mem!setPC_Cycs_Skip, Mem!is2WordInst

(* The skips on a bit, over an instruction of one word. *)
LEMMA BitSkips ==
  ASSUME Mem!Step, NEW w, w = mprogram.code[mpc], NEW op \in {"SBRC", "SBRS"}, NEW b, w = <<op, 0, b>>,
         mprogram.code[mpc + 1][1] \notin {"LDS", "STS"}
  PROVE  /\ Stays
         /\ mpc' = mpc + (IF (op = "SBRS") <=> Mem!Bit(mdata[0], b) THEN 2 ELSE 1)
<1>1. w[1] = op /\ w[2] = 0 /\ w[3] = b /\ w[1] \in PCOps
  BY DEF PCOps
<1>2. Mem!Jumps /\ w = Mem!Current /\ Steps
  BY <1>1, StepBy, Zenon DEF Steps
<1>3. PICK bit : bit = Mem!Bit(mdata[0], b)
  OBVIOUS
<1>4. CASE op = "SBRC"
  <2>1. Stays /\ mpc' = mpc + Mem!INST_SBRC(mdata, mprogram.code, mpc, 0, b)
    BY <1>1, <1>2, <1>4, JumpStep DEF Stays
  <2>2. mpc' = mpc + (IF Mem!Bit(mdata[0], b) THEN 1 ELSE 2)
    BY <2>1 DEF Mem!INST_SBRC, Mem!setPC_Cycs_Skip, Mem!is2WordInst
  <2> QED BY <1>4, <2>1, <2>2
<1>5. CASE op = "SBRS"
  <2>1. Stays /\ mpc' = mpc + Mem!INST_SBRS(mdata, mprogram.code, mpc, 0, b)
    BY <1>1, <1>2, <1>5, JumpStep DEF Stays
  <2>2. mpc' = mpc + (IF Mem!Bit(mdata[0], b) THEN 2 ELSE 1)
    BY <2>1 DEF Mem!INST_SBRS, Mem!setPC_Cycs_Skip, Mem!is2WordInst
  <2> QED BY <1>5, <2>1, <2>2
<1> QED BY <1>4, <1>5

(* The first cell that holds v is not behind the pointer before it is found. *)
LEMMA FindInside ==
  ASSUME NEW x0 \in Window, NEW x \in Int, x >= x0, NEW v,
         \E a \in Window : a >= x0 /\ mdata0[a] = v,
         \A a \in x0..(x - 1) : mdata0[a] # v
  PROVE  x \in Window
<1>1. PICK a \in Window : a >= x0 /\ mdata0[a] = v
  OBVIOUS
<1>2. x0 \in Int /\ a \in Int
  BY WindowFacts
<1>3. ~(a <= x - 1)
  BY <1>1, <1>2
<1>4. x <= a
  BY <1>2, <1>3
<1> QED BY <1>1, <1>4, WindowFacts

LEMMA FindStep ==
  ASSUME NEW v \in 0..3, mprogram = Find(v), AtFind(v), mdata \in Data, mdata0 \in Data, Mem!Step
  PROVE  mdata' \in Data /\ Steps /\ msreg' = msreg /\ AtFind(v)'
<1>1. PICK code : code = mprogram.code
  OBVIOUS
<1>2. code = << <<"LDI", 16, v>>, <<"LD_XpostInc", 0>>, <<"CPSE", 0, 16>>, <<"RJMP", -3>> >>
  BY <1>1 DEF Find, Mem!Is
<1>3. /\ mpc \in 1..4 /\ Steps
      /\ mpc = 1 => code[mpc] = <<"LDI", 16, v>>
      /\ mpc = 2 => code[mpc] = <<"LD_XpostInc", 0>>
      /\ mpc = 3 => code[mpc] = <<"CPSE", 0, 16>> /\ code[mpc + 1] = <<"RJMP", -3>>
      /\ mpc = 4 => code[mpc] = <<"RJMP", -3>>
  BY <1>1, <1>2, StepBy DEF Steps
<1>4. PICK x0 \in Window, x \in Int : x0 = Then(26) /\ x = Now(26) /\ x >= x0
  <2>1. Now(26) \in Int
    BY GetWord DEF Now, Pairs, IsWord
  <2> QED BY <2>1 DEF AtFind
<1>5. mdata0' = mdata0 /\ Then(26)' = x0 /\ 26 \in Pairs /\ x0 \in Int /\ v \in Byte
  BY <1>3, <1>4, WindowFacts DEF Steps, Then, Pairs, Byte
<1>6. (\E a \in Window : a >= x0 /\ mdata0[a] = v) /\ Kept({})
  BY <1>4 DEF AtFind
<1>7. \A c \in Window : mdata[c] = mdata0[c]
  BY <1>6 DEF Kept
<1>8. CASE mpc = 1
  <2>1. GoesOn /\ Gets(16, v)
    BY <1>1, <1>3, <1>5, <1>8, LdiGets
  <2>2. Now(26)' = x /\ Kept({})'
    BY <1>3, <1>4, <1>5, <1>6, <2>1, RegGets
  <2>3. \A a \in x0..(x - 1) : mdata0[a] # v
    BY <1>4, <1>8 DEF AtFind
  <2>4. mpc' = 2 /\ mdata'[16] = v /\ mdata' \in Data /\ msreg' = msreg
    BY <1>8, <2>1 DEF GoesOn, Gets
  <2> QED BY <1>3, <1>4, <1>5, <1>6, <2>2, <2>3, <2>4 DEF AtFind
<1>9. CASE mpc = 2
  <2>1. (\A a \in x0..(x - 1) : mdata0[a] # v) /\ mdata[16] = v
    BY <1>4, <1>9 DEF AtFind
  <2>2. x \in Window
    BY <1>4, <1>6, <2>1, FindInside
  <2>3. /\ GoesOn /\ mdata' = Mem!LoadInc(mdata, 0, 26)
    <3>1. PICK w : w = code[mpc] /\ w[1] = "LD_XpostInc" /\ w[2] = 0
      BY <1>3, <1>9
    <3>2. w[1] = Mem!LdInc(26) /\ 26 \in Pointers
      BY <3>1 DEF Mem!LdInc, Mem!Mode, Mem!X, Pointers
    <3> QED BY <1>1, <3>1, <3>2, LoadsThrough DEF GoesOn
  <2>4. Taken(mdata, mdata', 26, mdata[x], x + 1)
    BY <1>4, <2>2, <2>3, IncTakes DEF Now, Pointers
  <2>5. /\ mdata' \in Data /\ mdata'[0] = mdata0[x] /\ Now(26)' = x + 1
        /\ Only(mdata, mdata', {0, 26, 26 + 1})
    BY <1>7, <2>2, <2>4 DEF Taken, Now
  <2>6. mdata'[16] = v
    BY <2>1, <2>5, SmallRegs DEF Only, Small
  <2>7. Kept({})'
    <3>1. \A c \in Window : c \notin {0, 26, 26 + 1}
      BY Apart
    <3>2. \A c \in Window : mdata'[c] = mdata[c]
      BY <2>5, <3>1, OnlyWindow
    <3> QED BY <1>5, <1>7, <3>2 DEF Kept
  <2>8. mpc' = 3 /\ msreg' = msreg
    BY <1>9, <2>3 DEF GoesOn
  <2>9. (x + 1) - 1 = x /\ (x + 1) - 2 = x - 1 /\ x + 1 > x0 /\ x + 1 >= x0
    BY <1>4, <1>5
  <2> QED BY <1>3, <1>4, <1>5, <1>6, <2>1, <2>5, <2>6, <2>7, <2>8, <2>9 DEF AtFind
<1>10. CASE mpc = 3
  <2>1. /\ \A a \in x0..(x - 2) : mdata0[a] # v
        /\ mdata[16] = v /\ x > x0 /\ mdata[0] = mdata0[x - 1]
    BY <1>4, <1>10 DEF AtFind
  <2>2. Stays /\ mpc' = IF mdata[0] = v THEN 5 ELSE 4
    <3>1. code[mpc] = <<"CPSE", 0, 16>> /\ code[mpc + 1][1] = "RJMP"
      BY <1>3, <1>10
    <3>2. /\ Stays
          /\ mdata[0] # mdata[16] => mpc' = mpc + 1
          /\ mdata[0] = mdata[16] => mpc' = mpc + 2
      BY <1>1, <3>1, CpseSkips
    <3> QED BY <1>10, <2>1, <3>2
  <2>3. mdata' = mdata /\ msreg' = msreg /\ Now(26)' = x /\ Kept({})'
    <3>1. mdata' = mdata /\ msreg' = msreg
      BY <2>2 DEF Stays
    <3> QED BY <1>4, <1>5, <1>6, <3>1 DEF Now, Kept
  <2>4. CASE mdata[0] = v
    <3>1. mpc' = 5 /\ mdata'[0] = v /\ mdata'[0] = mdata0[x - 1] /\ mdata'[16] = v
      BY <2>1, <2>2, <2>3, <2>4
    <3>2. x > x0 /\ \A a \in x0..(IF mpc' \in {3, 5} THEN x - 2 ELSE x - 1) : mdata0[a] # v
      BY <2>1, <3>1
    <3>3. Steps
      BY <1>3
    <3> QED BY <1>4, <1>5, <1>6, <2>3, <3>1, <3>2, <3>3 DEF AtFind
  <2>5. CASE mdata[0] # v
    <3>1. \A a \in x0..(x - 1) : mdata0[a] # v
      <4>1. \A a \in x0..(x - 1) : a = x - 1 \/ a \in x0..(x - 2)
        BY <1>5
      <4> QED BY <2>1, <2>5, <4>1
    <3> QED BY <1>3, <1>4, <1>5, <1>6, <2>1, <2>2, <2>3, <2>5, <3>1 DEF AtFind
  <2> QED BY <2>4, <2>5
<1>11. CASE mpc = 4
  <2>1. (\A a \in x0..(x - 1) : mdata0[a] # v) /\ mdata[16] = v
    BY <1>4, <1>11 DEF AtFind
  <2>2. Stays /\ mpc' = 2
    <3>1. PICK w : w = code[mpc] /\ w[1] = "RJMP" /\ w[2] = -3
      BY <1>3, <1>11
    <3>2. w[1] \in PCOps
      BY <3>1 DEF PCOps
    <3>3. Mem!Jumps /\ w = Mem!Current
      BY <1>1, <3>1, <3>2, StepBy
    <3> QED BY <1>3, <1>11, <3>1, <3>3, JumpStep DEF Stays, Mem!INST_RJMP
  <2>3. mdata' = mdata /\ msreg' = msreg /\ Now(26)' = x /\ Kept({})'
    BY <1>4, <1>5, <1>6, <2>2 DEF Stays, Now, Kept
  <2> QED BY <1>3, <1>4, <1>5, <1>6, <2>1, <2>2, <2>3 DEF AtFind
<1> QED BY <1>3, <1>8, <1>9, <1>10, <1>11

-----------------------------------------------------------------------------
\* Conditional updates and tests of a bit

LEMMA LdsGets ==
  ASSUME Mem!Step, mdata \in Data, NEW r \in Mem!Cells, NEW k \in Mem!Cells, NEW w, w = mprogram.code[mpc],
         w = <<"LDS", r, k>>
  PROVE  Steps /\ mpc' = mpc + 2 /\ msreg' = msreg /\ Gets(r, mdata[k])
<1>1. w[1] = "LDS" /\ w[1] \in WideOps /\ w[2] = r /\ w[3] = k
  BY DEF WideOps
<1>2. Mem!TwoWords /\ w = Mem!Current /\ Steps /\ mpc' = mpc + 2
  BY <1>1, StepBy, Zenon DEF Steps
<1>3. msreg' = msreg /\ mdata' = Mem!INST_LDS(mdata, r, k)
  BY <1>1, <1>2, WideStep
<1>4. mdata' = SetAt(mdata, r, mdata[k]) /\ mdata[k] \in Byte
  BY <1>3 DEF Mem!INST_LDS, SetAt, Data
<1> QED BY <1>2, <1>3, <1>4, GetsCell

LEMMA StsGets ==
  ASSUME Mem!Step, mdata \in Data, NEW k \in Window, NEW w, w = mprogram.code[mpc],
         w = <<"STS", 0, k>>
  PROVE  Steps /\ mpc' = mpc + 2 /\ msreg' = msreg /\ Gets(k, mdata[0])
<1>1. w[1] = "STS" /\ w[1] \in WideOps /\ w[2] = 0 /\ w[3] = k
  BY DEF WideOps
<1>2. Mem!TwoWords /\ w = Mem!Current /\ Steps /\ mpc' = mpc + 2
  BY <1>1, StepBy, Zenon DEF Steps
<1>3. msreg' = msreg /\ mdata' = Mem!INST_STS(mdata, 0, k)
  BY <1>1, <1>2, WideStep
<1>4. mdata' = SetAt(mdata, k, mdata[0]) /\ mdata[0] \in Byte /\ k \in Mem!Cells
  BY <1>3, Apart, SmallRegs DEF Mem!INST_STS, SetAt, Data, Small
<1> QED BY <1>2, <1>3, <1>4, GetsCell

LEMMA UpdateSkipStep ==
  ASSUME NEW k \in Window, mprogram = UpdateSkip(k), AtUpdateSkip(k), mdata \in Data, Mem!Step
  PROVE  mdata' \in Data /\ Steps /\ msreg' = msreg /\ AtUpdateSkip(k)'
<1>1. PICK code : code = mprogram.code
  OBVIOUS
<1>2. code = << <<"LD_X", 0>>, <<"LDS", 1, k>>, <<"-">>,
                <<"CPSE", 0, 1>>, <<"STS", 0, k>>, <<"-">> >>
  BY <1>1 DEF UpdateSkip, Mem!Is
<1>3. PICK x \in Window : x = Then(26) /\ Now(26) = x /\ mpc \in {1, 2, 4, 5, 7}
  BY DEF AtUpdateSkip
<1>4. /\ mpc \in {1, 2, 4, 5} /\ Steps
      /\ mpc = 1 => code[mpc] = <<"LD_X", 0>>
      /\ mpc = 2 => code[mpc] = <<"LDS", 1, k>>
      /\ mpc = 4 => code[mpc] = <<"CPSE", 0, 1>> /\ code[mpc + 1] = <<"STS", 0, k>>
      /\ mpc = 5 => code[mpc] = <<"STS", 0, k>>
  BY <1>1, <1>2, <1>3, StepBy DEF Steps
<1>5. mdata0' = mdata0 /\ Then(26)' = x /\ 26 \in Pairs
  BY <1>3, <1>4 DEF Steps, Then, Pairs
<1>6. Kept({}) /\ \A c \in Window : mdata[c] = mdata0[c]
  BY <1>4 DEF AtUpdateSkip, Kept
<1>7. CASE mpc = 1
  <2>1. GoesOn /\ Gets(0, mdata[x])
    BY <1>1, <1>3, <1>4, <1>7, LdXGets
  <2>2. Now(26)' = x /\ Kept({})'
    BY <1>3, <1>4, <1>5, <1>6, <2>1, RegGets
  <2>3. mdata' \in Data /\ mdata'[0] = mdata0[x] /\ mpc' = 2 /\ msreg' = msreg
    BY <1>6, <1>7, <2>1 DEF Gets, GoesOn
  <2> QED BY <1>3, <1>4, <1>5, <2>2, <2>3 DEF AtUpdateSkip
<1>8. CASE mpc = 2
  <2>1. mpc' = 4 /\ msreg' = msreg /\ Gets(1, mdata[k])
    BY <1>1, <1>4, <1>8, Apart, SmallRegs, LdsGets DEF Small
  <2>2. Now(26)' = x /\ Kept({})' /\ mdata'[0] = mdata[0]
    BY <1>3, <1>4, <1>5, <1>6, <2>1, RegGets
  <2>3. mdata' \in Data /\ mdata'[1] = mdata0[k] /\ mdata[0] = mdata0[x]
    BY <1>3, <1>6, <1>8, <2>1 DEF Gets, AtUpdateSkip
  <2> QED BY <1>3, <1>4, <1>5, <2>1, <2>2, <2>3 DEF AtUpdateSkip
<1>9. CASE mpc = 4
  <2>1. mdata[0] = mdata0[x] /\ mdata[1] = mdata0[k]
    BY <1>3, <1>9 DEF AtUpdateSkip
  <2>2. Stays /\ mpc' = IF mdata[0] = mdata[1] THEN 7 ELSE 5
    BY <1>1, <1>4, <1>9, CpseSkips
  <2>3. mdata' = mdata /\ msreg' = msreg /\ Now(26)' = x /\ Kept({})' /\ Kept({k})'
    BY <1>3, <1>5, <1>6, <2>2 DEF Stays, Now, Kept
  <2>4. mdata[k] = mdata0[k]
    BY <1>6
  <2> QED BY <1>3, <1>4, <1>5, <2>1, <2>2, <2>3, <2>4 DEF AtUpdateSkip
<1>10. CASE mpc = 5
  <2>1. mdata[0] = mdata0[x]
    BY <1>3, <1>10 DEF AtUpdateSkip
  <2>2. mpc' = 7 /\ msreg' = msreg /\ Gets(k, mdata[0])
    BY <1>1, <1>4, <1>10, StsGets
  <2>3. Now(26)' = x /\ Kept({} \cup {k})' /\ mdata'[0] = mdata[0] /\ mdata'[k] = mdata[0]
    BY <1>3, <1>4, <1>5, <1>6, <2>2, CellGets DEF Small
  <2>4. Kept({k})' /\ mdata' \in Data
    BY <1>5, <2>2, <2>3 DEF Kept, Gets
  <2> QED BY <1>3, <1>4, <1>5, <2>1, <2>2, <2>3, <2>4 DEF AtUpdateSkip
<1> QED BY <1>4, <1>7, <1>8, <1>9, <1>10

LEMMA UpdateBranchStep ==
  ASSUME mprogram = UpdateBranch, AtUpdateBranch, mdata \in Data, Flagged(msreg), Mem!Step
  PROVE  mdata' \in Data /\ Steps /\ Flagged(msreg') /\ AtUpdateBranch'
<1>1. PICK code : code = mprogram.code
  OBVIOUS
<1>2. code = << <<"LD_X", 0>>, <<"LDD_anyYZ", 1, 28, 0>>, <<"CP", 0, 1>>,
                <<"BRBS", "Z", 1>>, <<"STD_anyYZ", 0, 28, 0>> >>
  BY <1>1 DEF UpdateBranch, Mem!Is
<1>3. PICK x \in Window, y \in Window : x = Then(26) /\ y = Then(28) /\ Now(26) = x /\ Now(28) = y
  BY DEF AtUpdateBranch
<1>4. /\ mpc \in 1..5 /\ Steps
      /\ mpc = 1 => code[mpc] = <<"LD_X", 0>>
      /\ mpc = 2 => code[mpc] = <<"LDD_anyYZ", 1, 28, 0>>
      /\ mpc = 3 => code[mpc] = <<"CP", 0, 1>>
      /\ mpc = 4 => code[mpc] = <<"BRBS", "Z", 1>>
      /\ mpc = 5 => code[mpc] = <<"STD_anyYZ", 0, 28, 0>>
  BY <1>1, <1>2, StepBy DEF Steps
<1>5. mdata0' = mdata0 /\ Then(26)' = x /\ Then(28)' = y /\ 26 \in Pairs /\ 28 \in Pairs /\ y + 0 = y
  BY <1>3, <1>4, WindowFacts DEF Steps, Then, Pairs
<1>6. Kept({}) /\ \A c \in Window : mdata[c] = mdata0[c]
  BY <1>4 DEF AtUpdateBranch, Kept
<1>7. CASE mpc = 1
  <2>1. GoesOn /\ Gets(0, mdata[x])
    BY <1>1, <1>3, <1>4, <1>7, LdXGets
  <2>2. Now(26)' = x /\ Now(28)' = y /\ Kept({})'
    BY <1>3, <1>4, <1>5, <1>6, <2>1, RegGets
  <2>3. mdata' \in Data /\ mdata'[0] = mdata0[x] /\ mpc' = 2 /\ msreg' = msreg
    BY <1>6, <1>7, <2>1 DEF Gets, GoesOn
  <2> QED BY <1>3, <1>4, <1>5, <2>2, <2>3 DEF AtUpdateBranch
<1>8. CASE mpc = 2
  <2>1. GoesOn /\ Gets(1, mdata[y])
    BY <1>1, <1>3, <1>4, <1>5, <1>8, LddGets DEF Small
  <2>2. Now(26)' = x /\ Now(28)' = y /\ Kept({})' /\ mdata'[0] = mdata[0]
    BY <1>3, <1>4, <1>5, <1>6, <2>1, RegGets
  <2>3. mdata' \in Data /\ mdata'[1] = mdata0[y] /\ mdata[0] = mdata0[x] /\ mpc' = 3 /\ msreg' = msreg
    BY <1>3, <1>6, <1>8, <2>1 DEF Gets, AtUpdateBranch, GoesOn
  <2> QED BY <1>3, <1>4, <1>5, <2>2, <2>3 DEF AtUpdateBranch
<1>9. CASE mpc = 3
  <2>1. mdata[0] = mdata0[x] /\ mdata[1] = mdata0[y]
    BY <1>3, <1>9 DEF AtUpdateBranch
  <2>2. PICK out : out = Mem!INST_CP(mdata[0], mdata[1], msreg)
    OBVIOUS
  <2>3. mpc' = 4 /\ msreg' = out.f /\ mdata' = SetAt(mdata, 0, out.v)
    <3>1. PICK w : w = code[mpc] /\ w[1] = "CP" /\ w[2] = 0 /\ w[3] = 1
      BY <1>4, <1>9
    <3>2. w[1] \in KeepOps \cup FlagOps
      BY <3>1 DEF FlagOps
    <3>3. Mem!Stores /\ mpc' = mpc + 1 /\ w = Mem!Current
      BY <1>1, <3>1, <3>2, StepBy
    <3>4. /\ mdata' = [mdata EXCEPT ![0] = Mem!INST_CP(mdata[0], mdata[1], msreg).v]
          /\ msreg' = Mem!INST_CP(mdata[0], mdata[1], msreg).f
      BY <3>1, <3>3, StoreStep
    <3> QED BY <1>9, <2>2, <3>3, <3>4 DEF SetAt
  <2>4. 0 \in Mem!Cells /\ mdata[0] \in Byte /\ mdata[1] \in Byte
    BY SmallRegs DEF Data, Small
  <2>5. Flagged(out.f) /\ out.v = mdata[0] /\ (out.f.Z <=> mdata[0] = mdata[1])
    <3>1. Compared(mdata[0], mdata[1], out)
      BY <2>2, <2>4, CpDoes
    <3> QED BY <3>1 DEF Compared
  <2>6. Gets(0, mdata[0])
    BY <2>3, <2>4, <2>5, GetsCell
  <2>7. Now(26)' = x /\ Now(28)' = y /\ Kept({})' /\ mdata'[1] = mdata[1]
    BY <1>3, <1>4, <1>5, <1>6, <2>6, RegGets
  <2>8. mdata' \in Data /\ mdata'[0] = mdata[0]
    BY <2>6 DEF Gets
  <2> QED BY <1>3, <1>4, <1>5, <2>1, <2>3, <2>5, <2>7, <2>8 DEF AtUpdateBranch
<1>10. CASE mpc = 4
  <2>1. mdata[0] = mdata0[x] /\ mdata[1] = mdata0[y] /\ (msreg.Z <=> mdata[0] = mdata[1])
    BY <1>3, <1>10 DEF AtUpdateBranch
  <2>2. Stays /\ mpc' = mpc + Mem!INST_BRBS(msreg, "Z", 1)
    <3>1. PICK w : w = code[mpc] /\ w[1] = "BRBS" /\ w[2] = "Z" /\ w[3] = 1
      BY <1>4, <1>10
    <3>2. Mem!Jumps /\ w = Mem!Current
      BY <1>1, <3>1, StepBy DEF PCOps
    <3> QED BY <1>4, <3>1, <3>2, JumpStep DEF Stays
  <2>3. mpc' = IF msreg.Z THEN 6 ELSE 5
    BY <1>10, <2>2 DEF Mem!INST_BRBS
  <2>4. mdata' = mdata /\ msreg' = msreg /\ Now(26)' = x /\ Now(28)' = y /\ Kept({})' /\ Kept({y})'
    BY <1>3, <1>5, <1>6, <2>2 DEF Stays, Now, Kept
  <2>5. mdata[y] = mdata0[y]
    BY <1>6
  <2> QED BY <1>3, <1>4, <1>5, <2>1, <2>3, <2>4, <2>5 DEF AtUpdateBranch
<1>11. CASE mpc = 5
  <2>1. mdata[0] = mdata0[x]
    BY <1>3, <1>11 DEF AtUpdateBranch
  <2>2. GoesOn /\ Gets(y, mdata[0])
    BY <1>1, <1>3, <1>4, <1>5, <1>11, StdGets DEF Small
  <2>3. /\ Now(26)' = x /\ Now(28)' = y /\ Kept({} \cup {y})'
        /\ mdata'[0] = mdata[0] /\ mdata'[y] = mdata[0]
    BY <1>3, <1>4, <1>5, <1>6, <2>2, CellGets DEF Small
  <2>4. Kept({y})' /\ mdata' \in Data /\ mpc' = 6 /\ msreg' = msreg
    BY <1>5, <1>11, <2>2, <2>3 DEF Kept, Gets, GoesOn
  <2> QED BY <1>3, <1>4, <1>5, <2>1, <2>3, <2>4 DEF AtUpdateBranch
<1> QED BY <1>4, <1>7, <1>8, <1>9, <1>10, <1>11

LEMMA TestBitStep ==
  ASSUME NEW b \in 0..1, NEW i \in 0..1, mprogram = TestBit(b, i), AtTestBit(b, i), mdata \in Data, Mem!Step
  PROVE  mdata' \in Data /\ Steps /\ msreg' = msreg /\ AtTestBit(b, i)'
<1>1. PICK code : code = mprogram.code
  OBVIOUS
<1>2. PICK op \in {"SBRC", "SBRS"} : op = IF i = 1 THEN "SBRC" ELSE "SBRS"
  OBVIOUS
<1>3. code = << <<"LD_X", 0>>, <<"LDI", 16, 1 - i>>, <<op, 0, b>>, <<"LDI", 16, i>> >>
  BY <1>1, <1>2 DEF TestBit, Mem!Is
<1>4. /\ mpc \in 1..4 /\ Steps
      /\ mpc = 1 => code[mpc] = <<"LD_X", 0>>
      /\ mpc = 2 => code[mpc] = <<"LDI", 16, 1 - i>>
      /\ mpc = 3 => code[mpc] = <<op, 0, b>> /\ code[mpc + 1] = <<"LDI", 16, i>>
      /\ mpc = 4 => code[mpc] = <<"LDI", 16, i>>
  BY <1>1, <1>3, StepBy DEF Steps
<1>5. PICK x \in Window : x = Then(26) /\ Now(26) = x
  BY DEF AtTestBit
<1>6. PICK bit : bit = Mem!Bit(mdata0[x], b) /\ bit \in BOOLEAN
  BY DEF Mem!Bit
<1>7. mdata0' = mdata0 /\ Then(26)' = x /\ 26 \in Pairs /\ i \in Byte /\ 1 - i \in Byte
  BY <1>4, <1>5 DEF Steps, Then, Pairs, Byte
<1>8. Kept({}) /\ \A c \in Window : mdata[c] = mdata0[c]
  BY DEF AtTestBit, Kept
<1>9. CASE mpc = 1
  <2>1. GoesOn /\ Gets(0, mdata[x])
    BY <1>1, <1>4, <1>5, <1>9, LdXGets
  <2>2. Now(26)' = x /\ Kept({})'
    BY <1>4, <1>5, <1>7, <1>8, <2>1, RegGets
  <2>3. mdata' \in Data /\ mdata'[0] = mdata0[x] /\ mpc' = 2 /\ msreg' = msreg
    BY <1>8, <1>9, <2>1 DEF Gets, GoesOn
  <2> QED BY <1>4, <1>5, <1>7, <2>2, <2>3 DEF AtTestBit
<1>10. CASE mpc = 2
  <2>1. GoesOn /\ Gets(16, 1 - i)
    BY <1>1, <1>4, <1>7, <1>10, LdiGets
  <2>2. Now(26)' = x /\ Kept({})' /\ mdata'[0] = mdata[0]
    BY <1>4, <1>5, <1>7, <1>8, <2>1, RegGets
  <2>3. mdata' \in Data /\ mdata'[16] = 1 - i /\ mdata[0] = mdata0[x] /\ mpc' = 3 /\ msreg' = msreg
    BY <1>5, <1>10, <2>1 DEF Gets, GoesOn, AtTestBit
  <2> QED BY <1>4, <1>5, <1>7, <2>2, <2>3 DEF AtTestBit
<1>11. CASE mpc = 3
  <2>1. mdata[0] = mdata0[x] /\ mdata[16] = 1 - i
    BY <1>5, <1>11 DEF AtTestBit
  <2>2. Stays /\ mpc' = mpc + (IF (op = "SBRS") <=> Mem!Bit(mdata[0], b) THEN 2 ELSE 1)
    BY <1>1, <1>4, <1>11, BitSkips
  <2>3. mpc' = IF (op = "SBRS") <=> bit THEN 5 ELSE 4
    BY <1>6, <1>11, <2>1, <2>2
  <2>4. mdata' = mdata /\ msreg' = msreg /\ Now(26)' = x /\ Kept({})'
    BY <1>5, <1>7, <1>8, <2>2 DEF Stays, Now, Kept
  <2>5. CASE (op = "SBRS") <=> bit
    <3>1. 1 - i = Mem!Num(bit)
      BY <1>2, <1>6, <2>5 DEF Mem!Num
    <3> QED BY <1>4, <1>5, <1>6, <1>7, <2>1, <2>3, <2>4, <2>5, <3>1 DEF AtTestBit
  <2>6. CASE ~((op = "SBRS") <=> bit)
    <3>1. bit <=> i = 1
      BY <1>2, <1>6, <2>6
    <3> QED BY <1>4, <1>5, <1>6, <1>7, <2>1, <2>3, <2>4, <2>6, <3>1 DEF AtTestBit
  <2> QED BY <2>5, <2>6
<1>12. CASE mpc = 4
  <2>1. mdata[0] = mdata0[x] /\ (bit <=> i = 1)
    BY <1>5, <1>6, <1>12 DEF AtTestBit
  <2>2. GoesOn /\ Gets(16, i)
    BY <1>1, <1>4, <1>7, <1>12, LdiGets
  <2>3. Now(26)' = x /\ Kept({})' /\ mdata'[0] = mdata[0]
    BY <1>4, <1>5, <1>7, <1>8, <2>2, RegGets
  <2>4. mdata' \in Data /\ mdata'[16] = Mem!Num(bit) /\ mpc' = 5 /\ msreg' = msreg
    BY <1>12, <2>1, <2>2 DEF Gets, GoesOn, Mem!Num
  <2> QED BY <1>4, <1>5, <1>6, <1>7, <2>1, <2>3, <2>4 DEF AtTestBit
<1> QED BY <1>4, <1>9, <1>10, <1>11, <1>12

-----------------------------------------------------------------------------
\* A frame on the stack

LEMMA PushPuts ==
  ASSUME Mem!Step, mdata \in Data, NEW r \in Small, NEW w, w = mprogram.code[mpc], w = <<"PUSH", r>>,
         NEW a \in Window, a = Now(93)
  PROVE  /\ GoesOn /\ mdata' \in Data /\ mdata'[a] = mdata[r] /\ Now(93)' = a - 1
         /\ Only(mdata, mdata', {a, 93, 93 + 1})
<1>1. w[1] = "PUSH" /\ w[1] \in KeepOps /\ w[2] = r
  BY DEF KeepOps
<1>2. GoesOn /\ mdata' = Mem!INST_PUSH(mdata, r)
  BY <1>1, KeepStep, StoreStep DEF GoesOn
<1>3. mdata' = Mem!setWord(SetAt(mdata, a, mdata[r]), 93, a - 1)
  BY <1>2 DEF Mem!INST_PUSH, Mem!SPL, SetAt, Now
<1>4. a \in Mem!Cells /\ mdata[r] \in Byte /\ IsWord(a - 1) /\ a \notin {93, 93 + 1} /\ 93 \in Pairs
  BY Apart, WindowFacts, SmallRegs DEF Data, IsWord, Pairs
<1> QED BY <1>2, <1>3, <1>4, SetBoth DEF Now

LEMMA PopGets ==
  ASSUME Mem!Step, mdata \in Data, NEW r \in {16, 28, 29}, NEW w, w = mprogram.code[mpc], w = <<"POP", r>>,
         NEW a \in Window, a = Now(93) + 1
  PROVE  /\ GoesOn /\ mdata' \in Data /\ mdata'[r] = mdata[a] /\ Now(93)' = a
         /\ Only(mdata, mdata', {r, 93, 93 + 1})
<1>1. w[1] = "POP" /\ w[1] \in DataOps /\ w[2] = r
  BY DEF DataOps
<1>2. GoesOn /\ mdata' = Mem!INST_POP(mdata, r)
  BY <1>1, DataStep, LoadStep DEF GoesOn
<1>3. PICK h : h = Mem!setWord(mdata, 93, a)
  OBVIOUS
<1>4. mdata' = SetAt(h, r, mdata[a])
  BY <1>2, <1>3 DEF Mem!INST_POP, Mem!SPL, SetAt, Now
<1>5. /\ r \in Mem!Cells /\ mdata[a] \in Byte /\ IsWord(a)
      /\ r # 93 /\ r # 93 + 1 /\ 93 \in Pairs
  <2>1. r \in Mem!Cells /\ r # 93 /\ r # 93 + 1 /\ 93 \in Pairs
    BY SmallRegs DEF Pairs, Small
  <2>2. a \in Mem!Cells /\ IsWord(a)
    BY Apart, WindowFacts DEF IsWord
  <2>3. mdata[a] \in Byte
    BY <2>2 DEF Data
  <2> QED BY <2>1, <2>2, <2>3
<1>6. h \in Data /\ Mem!getWord(h, 93) = a /\ \A c \in Mem!Cells \ {93, 93 + 1} : h[c] = mdata[c]
  BY <1>3, <1>5, SetWord
<1>7. mdata' \in Data /\ mdata'[r] = mdata[a] /\ Only(h, mdata', {r})
  BY <1>4, <1>5, <1>6, SetCell
<1>8. Mem!getWord(mdata', 93) = a
  BY <1>5, <1>6, <1>7, OnlyWord
<1>9. Only(mdata, mdata', {r, 93, 93 + 1})
  BY <1>6, <1>7 DEF Only
<1> QED BY <1>2, <1>7, <1>8, <1>9 DEF Now

LEMMA FrameCode ==
  ASSUME NEW code, code = Mem!Frame
  PROVE  /\ DOMAIN code = 1..17
         /\ code[1] = <<"PUSH", 28>> /\ code[2] = <<"PUSH", 29>>
         /\ code[3] = <<"PUSH", 0>> /\ code[4] = <<"PUSH", 0>>
         /\ code[5] = <<"LDS", 28, 93>> /\ code[7] = <<"LDS", 29, 94>>
         /\ code[9] = <<"STD_anyYZ", 0, 28, 1>> /\ code[10] = <<"STD_anyYZ", 1, 28, 2>>
         /\ code[11] = <<"MOVW", 30, 28>>
         /\ code[12] = <<"LDD_anyYZ", 0, 30, 2>> /\ code[13] = <<"LDD_anyYZ", 1, 30, 1>>
         /\ code[14] = <<"POP", 16>> /\ code[15] = <<"POP", 16>>
         /\ code[16] = <<"POP", 29>> /\ code[17] = <<"POP", 28>>
BY DEF Mem!Frame, Mem!Y, Mem!Z, Mem!SPL

(* What a step leaves alone, outside these cells. *)
LEMMA OnlyFrame ==
  ASSUME NEW cells, Only(mdata, mdata', cells), Steps
  PROVE  /\ \A c \in Window : c \notin cells => mdata'[c] = mdata[c]
         /\ \A r \in Small : r \notin cells => mdata'[r] = mdata[r]
         /\ \A p \in Pairs : p \notin cells /\ p + 1 \notin cells => Now(p)' = Now(p)
         /\ \A p \in Pairs : Then(p)' = Then(p)
         /\ \A k : Kept(k) /\ (\A c \in Window : c \in cells => c \in k) => Kept(k)'
<1>1. \A c \in Window : c \notin cells => mdata'[c] = mdata[c]
  BY OnlyWindow
<1>2. \A r \in Small : r \notin cells => mdata'[r] = mdata[r]
  BY SmallRegs DEF Only
<1>3. \A p \in Pairs : p \notin cells /\ p + 1 \notin cells => Now(p)' = Now(p)
  BY OnlyWord DEF Now
<1>4. \A p \in Pairs : Then(p)' = Then(p)
  BY DEF Then, Steps
<1>5. \A k : Kept(k) /\ (\A c \in Window : c \in cells => c \in k) => Kept(k)'
  BY <1>1 DEF Kept, Steps
<1> QED BY <1>1, <1>2, <1>3, <1>4, <1>5

LEMMA FramePush ==
  ASSUME mprogram = Framed, NEW sp \in Int, FrameAt(sp), mdata \in Data, Mem!Step, mpc \in 1..4
  PROVE  mdata' \in Data /\ Steps /\ msreg' = msreg /\ FrameAt(sp)'
<1>1. PICK code : code = mprogram.code
  OBVIOUS
<1>2. code = Mem!Frame
  BY <1>1 DEF Framed, Mem!Is
<1>3. (sp - 3)..sp \subseteq Window
  BY DEF FrameAt
<1>4. PICK a \in Window : a = sp + 1 - mpc
  BY <1>3
<1>5. Now(93) = a
  <2>1. Now(93) = sp - Pushed(mpc)
    BY DEF FrameAt
  <2> QED BY <1>4, <2>1 DEF Pushed
<1>6. PICK r \in Small : r = IF mpc = 1 THEN 28 ELSE IF mpc = 2 THEN 29 ELSE 0
  BY DEF Small
<1>7. code[mpc] = <<"PUSH", r>>
  BY <1>2, <1>6, FrameCode
<1>8. /\ GoesOn /\ mdata' \in Data /\ mdata'[a] = mdata[r] /\ Now(93)' = a - 1
      /\ Only(mdata, mdata', {a, 93, 93 + 1})
  BY <1>1, <1>5, <1>7, PushPuts
<1>9. a \notin Small /\ a \in (sp - 3)..sp /\ a \in Int
  BY <1>4, SmallRegs
<1>10. Kept((sp - 3)..sp)'
  <2>1. \A c \in Window : c \in {a, 93, 93 + 1} => c \in (sp - 3)..sp
    BY <1>9, Apart
  <2>2. Kept((sp - 3)..sp)
    BY DEF FrameAt
  <2> QED BY <1>8, <2>1, <2>2, OnlyFrame DEF GoesOn
<1>11. mdata'[0] = mdata[0] /\ mdata'[1] = mdata[1] /\ mdata'[28] = mdata[28] /\ mdata'[29] = mdata[29]
  <2>1. \A x \in {0, 1, 28, 29} : x \in Small /\ x \notin {a, 93, 93 + 1}
    BY <1>9 DEF Small
  <2> QED BY <1>8, <2>1, OnlyFrame DEF GoesOn
<1>12. \A c \in Window : c # a => mdata'[c] = mdata[c]
  <2>1. \A c \in Window : c \notin {93, 93 + 1}
    BY Apart
  <2> QED BY <1>8, <2>1, OnlyFrame DEF GoesOn
<1>13. /\ mdata[0] = mdata0[0] /\ mdata[1] = mdata0[1] /\ mdata[28] = mdata0[28] /\ mdata[29] = mdata0[29]
       /\ mpc > 1 => mdata[sp] = mdata0[28]
       /\ mpc > 2 => mdata[sp - 1] = mdata0[29]
  BY DEF FrameAt
<1>14. sp \in Window /\ sp - 1 \in Window
  BY <1>3
<1>15. mdata'[sp] = mdata0[28] /\ (mpc > 1 => mdata'[sp - 1] = mdata0[29])
  <2>1. CASE mpc = 1
    BY <1>4, <1>6, <1>8, <1>13, <2>1
  <2>2. CASE mpc = 2
    BY <1>4, <1>6, <1>8, <1>12, <1>13, <1>14, <2>2
  <2>3. CASE mpc > 2
    BY <1>4, <1>12, <1>13, <1>14, <2>3
  <2> QED BY <2>1, <2>2, <2>3
<1>16. mpc' \in 2..5 /\ mpc' = mpc + 1 /\ mdata0' = mdata0
  BY <1>8 DEF GoesOn, Steps
<1>17. Now(93)' = sp - Pushed(mpc')
  BY <1>4, <1>8, <1>16 DEF Pushed
<1>18. FrameAt(sp)'
  BY <1>3, <1>10, <1>11, <1>13, <1>15, <1>16, <1>17 DEF FrameAt
<1> QED BY <1>8, <1>18 DEF GoesOn

(* A step that writes registers alone leaves what the frame holds. *)
LEMMA FrameRests ==
  ASSUME NEW sp \in Int, FrameAt(sp), NEW cells, \A c \in Window : c \notin cells,
         Only(mdata, mdata', cells), Steps
  PROVE  /\ (sp - 3)..sp \subseteq Window /\ Kept((sp - 3)..sp)'
         /\ \A c \in Window : mdata'[c] = mdata[c]
         /\ \A r \in Small : r \notin cells => mdata'[r] = mdata[r]
         /\ \A p \in Pairs : p \notin cells /\ p + 1 \notin cells => Now(p)' = Now(p)
         /\ sp \in Window /\ sp - 1 \in Window /\ sp - 2 \in Window /\ sp - 3 \in Window
<1>1. (sp - 3)..sp \subseteq Window /\ Kept((sp - 3)..sp)
  BY DEF FrameAt
<1>2. Kept((sp - 3)..sp)'
  BY <1>1, OnlyFrame
<1> QED BY <1>1, <1>2, OnlyFrame

LEMMA FrameReadsSP ==
  ASSUME mprogram = Framed, NEW sp \in Int, FrameAt(sp), mdata \in Data, Mem!Step, mpc \in {5, 7}
  PROVE  mdata' \in Data /\ Steps /\ msreg' = msreg /\ FrameAt(sp)'
<1>1. PICK code : code = mprogram.code
  OBVIOUS
<1>2. code = Mem!Frame
  BY <1>1 DEF Framed, Mem!Is
<1>3. Now(93) = sp - 4
  <2>1. Now(93) = sp - Pushed(mpc)
    BY DEF FrameAt
  <2> QED BY <2>1 DEF Pushed
<1>4. sp - 4 \in Int /\ mdata[93] = (sp - 4) % 256 /\ mdata[94] = (sp - 4) \div 256
      /\ 93 \in Mem!Cells /\ 94 \in Mem!Cells
  <2>1. 93 \in Pairs /\ 93 + 1 = 94
    BY DEF Pairs
  <2> QED BY <1>3, <2>1, GetWord DEF Now
<1>5. PICK r \in Small, k \in Mem!Cells : r = (IF mpc = 5 THEN 28 ELSE 29) /\ k = (IF mpc = 5 THEN 93 ELSE 94)
  BY <1>4 DEF Small
<1>6. code[mpc] = <<"LDS", r, k>>
  BY <1>2, <1>5, FrameCode
<1>7. Steps /\ mpc' = mpc + 2 /\ msreg' = msreg /\ Gets(r, mdata[k])
  BY <1>1, <1>6, SmallRegs, LdsGets
<1>8. mdata' \in Data /\ mdata'[r] = mdata[k] /\ Only(mdata, mdata', {r})
  BY <1>7 DEF Gets
<1>9. \A c \in Window : c \notin {r}
  BY SmallRegs
<1>10. /\ (sp - 3)..sp \subseteq Window /\ Kept((sp - 3)..sp)'
       /\ \A c \in Window : mdata'[c] = mdata[c]
       /\ \A x \in Small : x # r => mdata'[x] = mdata[x]
       /\ \A p \in Pairs : p # r /\ p + 1 # r => Now(p)' = Now(p)
       /\ sp \in Window /\ sp - 1 \in Window
  BY <1>7, <1>8, <1>9, FrameRests
<1>11. Now(93)' = sp - 4
  BY <1>3, <1>5, <1>10 DEF Pairs
<1>12. /\ mdata'[0] = mdata[0] /\ mdata'[1] = mdata[1]
       /\ mpc = 5 => mdata'[29] = mdata[29]
       /\ mpc = 7 => mdata'[28] = mdata[28]
  BY <1>5, <1>10 DEF Small
<1>13. /\ mdata[0] = mdata0[0] /\ mdata[1] = mdata0[1]
       /\ mdata[sp] = mdata0[28] /\ mdata[sp - 1] = mdata0[29]
       /\ mpc = 5 => mdata[29] = mdata0[29]
       /\ mpc = 7 => mdata[28] = (sp - 4) % 256
  BY DEF FrameAt
<1>14. mdata'[sp] = mdata0[28] /\ mdata'[sp - 1] = mdata0[29]
  BY <1>10, <1>13
<1>15. mdata0' = mdata0
  BY <1>7 DEF Steps
<1>16. CASE mpc = 5
  <2>1. mpc' = 7 /\ mdata'[28] = (sp - 4) % 256 /\ mdata'[29] = mdata0[29]
    BY <1>4, <1>5, <1>7, <1>8, <1>12, <1>13, <1>16
  <2>2. Now(93)' = sp - Pushed(mpc')
    BY <1>11, <2>1 DEF Pushed
  <2>3. FrameAt(sp)'
    BY <1>10, <1>12, <1>13, <1>14, <1>15, <2>1, <2>2 DEF FrameAt
  <2> QED BY <1>7, <1>8, <2>3
<1>17. CASE mpc = 7
  <2>1. mpc' = 9 /\ mdata'[28] = mdata[93] /\ mdata'[29] = mdata[94]
    BY <1>4, <1>5, <1>7, <1>8, <1>12, <1>13, <1>17
  <2>2. Now(28)' = sp - 4
    BY <1>3, <2>1 DEF Now, Mem!getWord
  <2>3. Now(93)' = sp - Pushed(mpc')
    BY <1>11, <2>1 DEF Pushed
  <2>4. FrameAt(sp)'
    BY <1>10, <1>12, <1>13, <1>14, <1>15, <2>1, <2>2, <2>3 DEF FrameAt
  <2> QED BY <1>7, <1>8, <2>4
<1> QED BY <1>16, <1>17

LEMMA FrameStores ==
  ASSUME mprogram = Framed, NEW sp \in Int, FrameAt(sp), mdata \in Data, Mem!Step, mpc \in {9, 10}
  PROVE  mdata' \in Data /\ Steps /\ msreg' = msreg /\ FrameAt(sp)'
<1>1. PICK code : code = mprogram.code
  OBVIOUS
<1>2. code = Mem!Frame
  BY <1>1 DEF Framed, Mem!Is
<1>3. Now(28) = sp - 4 /\ (sp - 3)..sp \subseteq Window /\ Kept((sp - 3)..sp)
  BY DEF FrameAt
<1>4. PICK r \in Small, k \in 1..2 : r = (IF mpc = 9 THEN 0 ELSE 1) /\ k = r + 1
  BY DEF Small
<1>5. code[mpc] = <<"STD_anyYZ", r, 28, k>>
  BY <1>2, <1>4, FrameCode
<1>6. PICK a \in Window : a = (sp - 4) + k
  BY <1>3
<1>7. GoesOn /\ Gets(a, mdata[r])
  BY <1>1, <1>3, <1>5, <1>6, StdGets
<1>8. /\ mdata'[a] = mdata[r] /\ \A c \in Window : c # a => mdata'[c] = mdata[c]
      /\ \A p \in Pairs : Now(p)' = Now(p)
      /\ \A x \in Small : mdata'[x] = mdata[x]
      /\ Kept((sp - 3)..sp \cup {a})'
  BY <1>3, <1>7, CellGets DEF GoesOn
<1>9. Kept((sp - 3)..sp)'
  <2>1. a \in (sp - 3)..sp
    BY <1>6
  <2>2. (sp - 3)..sp \cup {a} = (sp - 3)..sp
    BY <2>1
  <2> QED BY <1>8, <2>2
<1>10. mdata' \in Data /\ mdata0' = mdata0 /\ mpc' = mpc + 1
  BY <1>7 DEF Gets, GoesOn, Steps
<1>11. /\ mdata'[0] = mdata[0] /\ mdata'[1] = mdata[1]
       /\ Now(28)' = Now(28) /\ Now(93)' = Now(93)
  BY <1>8 DEF Small, Pairs
<1>12. sp \in Window /\ sp - 1 \in Window /\ sp - 2 \in Window /\ sp - 3 \in Window
  BY <1>3
<1>13. mdata'[sp] = mdata[sp] /\ mdata'[sp - 1] = mdata[sp - 1]
       /\ (mpc = 10 => mdata'[sp - 3] = mdata[sp - 3])
  BY <1>4, <1>6, <1>8, <1>12
<1>14. /\ mdata[0] = mdata0[0] /\ mdata[1] = mdata0[1]
       /\ mdata[sp] = mdata0[28] /\ mdata[sp - 1] = mdata0[29]
       /\ mpc = 10 => mdata[sp - 3] = mdata0[0]
       /\ Now(93) = sp - Pushed(mpc)
  BY DEF FrameAt
<1>15. Now(93)' = sp - Pushed(mpc')
  BY <1>10, <1>11, <1>14 DEF Pushed
<1>16. mdata'[sp - 3] = mdata0[0] /\ (mpc = 10 => mdata'[sp - 2] = mdata0[1])
  <2>1. CASE mpc = 9
    BY <1>4, <1>6, <1>8, <1>14, <2>1
  <2>2. CASE mpc = 10
    BY <1>4, <1>6, <1>8, <1>13, <1>14, <2>2
  <2> QED BY <2>1, <2>2
<1>17. FrameAt(sp)'
  BY <1>3, <1>9, <1>10, <1>11, <1>13, <1>14, <1>15, <1>16 DEF FrameAt
<1> QED BY <1>7, <1>10, <1>17 DEF GoesOn

LEMMA FrameMoves ==
  ASSUME mprogram = Framed, NEW sp \in Int, FrameAt(sp), mdata \in Data, Mem!Step, mpc = 11
  PROVE  mdata' \in Data /\ Steps /\ msreg' = msreg /\ FrameAt(sp)'
<1>1. PICK code : code = mprogram.code
  OBVIOUS
<1>2. code = Mem!Frame
  BY <1>1 DEF Framed, Mem!Is
<1>3. PICK w : w = code[mpc] /\ w[1] = "MOVW" /\ w[2] = 30 /\ w[3] = 28
  BY <1>2, FrameCode
<1>4. GoesOn /\ mdata' = Mem!INST_MOVW(mdata, 30, 28)
  <2>1. w[1] \in DataOps
    BY <1>3 DEF DataOps
  <2> QED BY <1>1, <1>3, <2>1, DataStep, LoadStep DEF GoesOn
<1>5. PICK h : h = SetAt(mdata, 30, mdata[28])
  OBVIOUS
<1>6. mdata' = SetAt(h, 31, mdata[29])
  <2>1. mdata' = [mdata EXCEPT ![30] = mdata[28], ![31] = mdata[29]]
    BY <1>4 DEF Mem!INST_MOVW
  <2> QED BY <1>5, <2>1 DEF SetAt
<1>7. 30 \in Mem!Cells /\ 31 \in Mem!Cells /\ mdata[28] \in Byte /\ mdata[29] \in Byte
  BY CellsAre, SmallRegs DEF Data, Small
<1>8. h \in Data /\ h[30] = mdata[28] /\ Only(mdata, h, {30})
  <2>1. PICK v \in Byte : v = mdata[28]
    BY <1>7
  <2> QED BY <1>5, <1>7, <2>1, SetCell
<1>9. mdata' \in Data /\ mdata'[31] = mdata[29] /\ Only(h, mdata', {31})
  <2>1. PICK v \in Byte : v = mdata[29]
    BY <1>7
  <2> QED BY <1>6, <1>7, <1>8, <2>1, SetCell
<1>10. mdata'[30] = mdata[28] /\ Only(mdata, mdata', {30, 31})
  BY <1>7, <1>8, <1>9 DEF Only
<1>11. Steps /\ \A c \in Window : c \notin {30, 31}
  BY <1>4, Apart DEF GoesOn
<1>12. /\ (sp - 3)..sp \subseteq Window /\ Kept((sp - 3)..sp)'
       /\ \A c \in Window : mdata'[c] = mdata[c]
       /\ \A r \in Small : r \notin {30, 31} => mdata'[r] = mdata[r]
       /\ \A p \in Pairs : p \notin {30, 31} /\ p + 1 \notin {30, 31} => Now(p)' = Now(p)
       /\ sp \in Window /\ sp - 1 \in Window /\ sp - 2 \in Window /\ sp - 3 \in Window
  BY <1>10, <1>11, FrameRests
<1>13. /\ mdata'[0] = mdata[0] /\ mdata'[1] = mdata[1]
       /\ Now(28)' = Now(28) /\ Now(93)' = Now(93)
  BY <1>12 DEF Small, Pairs
<1>14. Now(30)' = Now(28)
  BY <1>9, <1>10 DEF Now, Mem!getWord
<1>15. /\ mdata[0] = mdata0[0] /\ mdata[1] = mdata0[1] /\ Now(28) = sp - 4
       /\ mdata[sp] = mdata0[28] /\ mdata[sp - 1] = mdata0[29]
       /\ mdata[sp - 3] = mdata0[0] /\ mdata[sp - 2] = mdata0[1]
       /\ Now(93) = sp - Pushed(mpc)
  BY DEF FrameAt
<1>16. mdata0' = mdata0 /\ mpc' = 12
  BY <1>4 DEF GoesOn, Steps
<1>17. Now(93)' = sp - Pushed(mpc')
  BY <1>13, <1>15, <1>16 DEF Pushed
<1>18. /\ mdata'[sp] = mdata0[28] /\ mdata'[sp - 1] = mdata0[29]
       /\ mdata'[sp - 3] = mdata0[0] /\ mdata'[sp - 2] = mdata0[1]
  BY <1>12, <1>15
<1>19. FrameAt(sp)'
  BY <1>12, <1>13, <1>14, <1>15, <1>16, <1>17, <1>18 DEF FrameAt
<1> QED BY <1>4, <1>9, <1>19 DEF GoesOn

LEMMA FrameLoads ==
  ASSUME mprogram = Framed, NEW sp \in Int, FrameAt(sp), mdata \in Data, Mem!Step, mpc \in {12, 13}
  PROVE  mdata' \in Data /\ Steps /\ msreg' = msreg /\ FrameAt(sp)'
<1>1. PICK code : code = mprogram.code
  OBVIOUS
<1>2. code = Mem!Frame
  BY <1>1 DEF Framed, Mem!Is
<1>3. (sp - 3)..sp \subseteq Window /\ Now(30) = sp - 4
  BY DEF FrameAt
<1>4. PICK r \in Small, k \in 1..2 : r = (IF mpc = 12 THEN 0 ELSE 1) /\ k = 2 - r
  BY DEF Small
<1>5. code[mpc] = <<"LDD_anyYZ", r, 30, k>>
  BY <1>2, <1>4, FrameCode
<1>6. PICK a \in Window : a = (sp - 4) + k
  BY <1>3
<1>7. GoesOn /\ Gets(r, mdata[a])
  BY <1>1, <1>3, <1>5, <1>6, LddGets
<1>8. mdata' \in Data /\ mdata'[r] = mdata[a] /\ Only(mdata, mdata', {r}) /\ Steps
  BY <1>7 DEF Gets, GoesOn
<1>9. \A c \in Window : c \notin {r}
  BY SmallRegs
<1>10. /\ Kept((sp - 3)..sp)'
       /\ \A c \in Window : mdata'[c] = mdata[c]
       /\ \A x \in Small : x # r => mdata'[x] = mdata[x]
       /\ \A p \in Pairs : p # r /\ p + 1 # r => Now(p)' = Now(p)
       /\ sp \in Window /\ sp - 1 \in Window /\ sp - 2 \in Window /\ sp - 3 \in Window
  BY <1>8, <1>9, FrameRests
<1>11. Now(28)' = Now(28) /\ Now(30)' = Now(30) /\ Now(93)' = Now(93)
  BY <1>4, <1>10 DEF Pairs
<1>12. /\ Now(28) = sp - 4
       /\ mdata[sp] = mdata0[28] /\ mdata[sp - 1] = mdata0[29]
       /\ mdata[sp - 3] = mdata0[0] /\ mdata[sp - 2] = mdata0[1]
       /\ mpc = 12 => mdata[1] = mdata0[1]
       /\ mpc = 13 => mdata[0] = mdata0[1]
       /\ Now(93) = sp - Pushed(mpc)
  BY DEF FrameAt
<1>13. mdata0' = mdata0 /\ mpc' = mpc + 1
  BY <1>7 DEF GoesOn, Steps
<1>14. Now(93)' = sp - Pushed(mpc')
  BY <1>11, <1>12, <1>13 DEF Pushed
<1>15. /\ mdata'[sp] = mdata0[28] /\ mdata'[sp - 1] = mdata0[29]
       /\ mdata'[sp - 3] = mdata0[0] /\ mdata'[sp - 2] = mdata0[1]
  BY <1>10, <1>12
<1>16. /\ mdata'[0] = mdata0[1]
       /\ mpc = 12 => mdata'[1] = mdata0[1]
       /\ mpc = 13 => mdata'[1] = mdata0[0]
  <2>1. CASE mpc = 12
    <3>1. a = sp - 2 /\ r = 0 /\ 1 \in Small
      BY <1>4, <1>6, <2>1 DEF Small
    <3> QED BY <1>8, <1>10, <1>12, <2>1, <3>1
  <2>2. CASE mpc = 13
    <3>1. a = sp - 3 /\ r = 1 /\ 0 \in Small
      BY <1>4, <1>6, <2>2 DEF Small
    <3> QED BY <1>8, <1>10, <1>12, <2>2, <3>1
  <2> QED BY <2>1, <2>2
<1>17. FrameAt(sp)'
  BY <1>3, <1>10, <1>11, <1>12, <1>13, <1>14, <1>15, <1>16 DEF FrameAt
<1> QED BY <1>7, <1>8, <1>17 DEF GoesOn

LEMMA FramePops ==
  ASSUME mprogram = Framed, NEW sp \in Int, FrameAt(sp), mdata \in Data, Mem!Step, mpc \in 14..17
  PROVE  mdata' \in Data /\ Steps /\ msreg' = msreg /\ FrameAt(sp)'
<1>1. PICK code : code = mprogram.code
  OBVIOUS
<1>2. code = Mem!Frame
  BY <1>1 DEF Framed, Mem!Is
<1>3. (sp - 3)..sp \subseteq Window
  BY DEF FrameAt
<1>4. PICK r \in {16, 28, 29} : r = IF mpc = 17 THEN 28 ELSE IF mpc = 16 THEN 29 ELSE 16
  OBVIOUS
<1>5. code[mpc] = <<"POP", r>>
  BY <1>2, <1>4, FrameCode
<1>6. PICK a \in Window : a = sp - 17 + mpc
  BY <1>3
<1>7. a = Now(93) + 1
  <2>1. Now(93) = sp - Pushed(mpc)
    BY DEF FrameAt
  <2> QED BY <1>6, <2>1 DEF Pushed
<1>8. /\ GoesOn /\ mdata' \in Data /\ mdata'[r] = mdata[a] /\ Now(93)' = a
      /\ Only(mdata, mdata', {r, 93, 93 + 1}) /\ Steps
  <2>1. PICK w : w = mprogram.code[mpc] /\ w = <<"POP", r>>
    BY <1>1, <1>5
  <2> QED BY <1>7, <2>1, PopGets DEF GoesOn
<1>9. \A c \in Window : c \notin {r, 93, 93 + 1}
  BY Apart
<1>10. /\ Kept((sp - 3)..sp)'
       /\ \A c \in Window : mdata'[c] = mdata[c]
       /\ \A x \in Small : x \notin {r, 93, 93 + 1} => mdata'[x] = mdata[x]
       /\ \A p \in Pairs : p \notin {r, 93, 93 + 1} /\ p + 1 \notin {r, 93, 93 + 1} => Now(p)' = Now(p)
       /\ sp \in Window /\ sp - 1 \in Window
  BY <1>8, <1>9, FrameRests
<1>11. /\ mdata'[0] = mdata[0] /\ mdata'[1] = mdata[1]
       /\ mpc < 16 => Now(28)' = Now(28)
       /\ mpc = 17 => mdata'[29] = mdata[29]
  BY <1>4, <1>10 DEF Small, Pairs
<1>12. /\ mdata[0] = mdata0[1] /\ mdata[1] = mdata0[0]
       /\ mdata[sp] = mdata0[28] /\ mdata[sp - 1] = mdata0[29]
       /\ mpc < 17 => Now(28) = sp - 4
       /\ mpc = 17 => mdata[29] = mdata0[29]
  BY DEF FrameAt
<1>13. mdata0' = mdata0 /\ mpc' = mpc + 1
  BY <1>8 DEF GoesOn, Steps
<1>14. Now(93)' = sp - Pushed(mpc')
  BY <1>6, <1>8, <1>13 DEF Pushed
<1>15. mdata'[sp] = mdata0[28] /\ mdata'[sp - 1] = mdata0[29]
  BY <1>10, <1>12
<1>16. (mpc > 15 => mdata'[29] = mdata0[29]) /\ (mpc = 17 => mdata'[28] = mdata0[28])
  <2>1. CASE mpc = 16
    BY <1>4, <1>6, <1>8, <1>12, <2>1
  <2>2. CASE mpc = 17
    BY <1>4, <1>6, <1>8, <1>11, <1>12, <2>2
  <2> QED BY <2>1, <2>2
<1>17. FrameAt(sp)'
  BY <1>3, <1>10, <1>11, <1>12, <1>13, <1>14, <1>15, <1>16 DEF FrameAt
<1> QED BY <1>8, <1>17 DEF GoesOn

LEMMA FrameStep ==
  ASSUME mprogram = Framed, AtFrame, mdata \in Data, mdata0 \in Data, Mem!Step
  PROVE  mdata' \in Data /\ Steps /\ msreg' = msreg /\ AtFrame'
<1>1. PICK sp \in Int : sp = Then(93)
  <2>1. Then(93) \in Int
    BY GetWord DEF Then, Pairs, IsWord
  <2> QED BY <2>1
<1>2. FrameAt(sp)
  BY <1>1 DEF AtFrame
<1>3. mpc \in 1..17 /\ mpc \notin {6, 8}
  <2>1. DOMAIN mprogram.code = 1..17
    BY FrameCode DEF Framed, Mem!Is
  <2> QED BY <1>2, <2>1, StepBy DEF FrameAt
<1>4. mdata' \in Data /\ Steps /\ msreg' = msreg /\ FrameAt(sp)'
  <2>1. CASE mpc \in 1..4
    BY <1>2, <2>1, FramePush
  <2>2. CASE mpc \in {5, 7}
    BY <1>2, <2>2, FrameReadsSP
  <2>3. CASE mpc \in {9, 10}
    BY <1>2, <2>3, FrameStores
  <2>4. CASE mpc = 11
    BY <1>2, <2>4, FrameMoves
  <2>5. CASE mpc \in {12, 13}
    BY <1>2, <2>5, FrameLoads
  <2>6. CASE mpc \in 14..17
    BY <1>2, <2>6, FramePops
  <2> QED BY <1>3, <2>1, <2>2, <2>3, <2>4, <2>5, <2>6
<1>5. sp = Then(93)'
  BY <1>1, <1>4 DEF Steps, Then
<1> QED BY <1>4, <1>5 DEF AtFrame

-----------------------------------------------------------------------------
\* Every step keeps the invariant

LEMMA StepKept ==
  ASSUME MemInv, Mem!Step
  PROVE  MemInv'
<1>1. mdata \in Data /\ mdata0 \in Data /\ Flagged(msreg) /\ Running
  BY DEF MemInv
<1>2. mprogram' = mprogram /\ mdata0' = mdata0 /\ mprogram # Mem!Idle
  BY StepBy
<1>3. SUFFICES mdata' \in Data /\ Flagged(msreg') /\ Running'
  BY <1>1, <1>2 DEF MemInv
<1>4. ASSUME NEW p \in Pointers, NEW q \in Pointers, NEW n \in 1..MaxLen, mprogram = Up(p, q, n),
             CopyFits("up", p, q, n), AtLoop("up", p, q, n, Source("up", p, n))
      PROVE  mdata' \in Data /\ Flagged(msreg') /\ Running'
  <2>1. PICK a, b : a = <<Mem!LdInc(p), 0>> /\ b = <<Mem!StInc(q), 0>>
    OBVIOUS
  <2>2. mprogram.code = Mem!Counted(n, <<a, b>>)
    BY <1>4, <2>1 DEF Up, Mem!Is
  <2>3. PICK dir \in {"up", "down"} : dir = "up"
    OBVIOUS
  <2>4. /\ a = <<IF dir = "up" THEN Mem!LdInc(p) ELSE Mem!LdDec(p), 0>>
        /\ b = <<IF dir = "up" THEN Mem!StInc(q) ELSE Mem!StDec(q), 0>>
    BY <2>1, <2>3
  <2>5. /\ mdata' \in Data /\ Flagged(msreg')
        /\ CopyFits(dir, p, q, n)' /\ AtLoop(dir, p, q, n, Source(dir, p, n))'
    BY <1>1, <1>4, <2>2, <2>3, <2>4, CopyStep
  <2>6. mprogram' = Up(p, q, n)'
    BY <1>2, <1>4 DEF Up
  <2> QED BY <2>3, <2>5, <2>6 DEF Running
<1>5. ASSUME NEW p \in Pointers, NEW q \in Pointers, NEW n \in 1..MaxLen, mprogram = Down(p, q, n),
             CopyFits("down", p, q, n), AtLoop("down", p, q, n, Source("down", p, n))
      PROVE  mdata' \in Data /\ Flagged(msreg') /\ Running'
  <2>1. PICK a, b : a = <<Mem!LdDec(p), 0>> /\ b = <<Mem!StDec(q), 0>>
    OBVIOUS
  <2>2. mprogram.code = Mem!Counted(n, <<a, b>>)
    BY <1>5, <2>1 DEF Down, Mem!Is
  <2>3. PICK dir \in {"up", "down"} : dir = "down"
    OBVIOUS
  <2>4. /\ a = <<IF dir = "up" THEN Mem!LdInc(p) ELSE Mem!LdDec(p), 0>>
        /\ b = <<IF dir = "up" THEN Mem!StInc(q) ELSE Mem!StDec(q), 0>>
    BY <2>1, <2>3
  <2>5. /\ mdata' \in Data /\ Flagged(msreg')
        /\ CopyFits(dir, p, q, n)' /\ AtLoop(dir, p, q, n, Source(dir, p, n))'
    BY <1>1, <1>5, <2>2, <2>3, <2>4, CopyStep
  <2>6. mprogram' = Down(p, q, n)'
    BY <1>2, <1>5 DEF Down
  <2> QED BY <2>3, <2>5, <2>6 DEF Running
<1>6. ASSUME NEW lpm \in {"LPM_dpostInc", "ELPM_dpostInc"}, NEW n \in 1..MaxLen,
             mprogram = FromTable(lpm, n), TableFits(n), AtLoop("up", 30, 26, n, Slice(n))
      PROVE  mdata' \in Data /\ Flagged(msreg') /\ Running'
  <2>1. PICK a, b : a = <<lpm, 0>> /\ b = <<"ST_XpostInc", 0>>
    OBVIOUS
  <2>2. mprogram.code = Mem!Counted(n, <<a, b>>)
    BY <1>6, <2>1 DEF FromTable, Mem!Is
  <2>3. /\ mdata' \in Data /\ Flagged(msreg')
        /\ TableFits(n)' /\ AtLoop("up", 30, 26, n, Slice(n))'
    BY <1>1, <1>6, <2>1, <2>2, TableStep
  <2>4. mprogram' = FromTable(lpm, n)'
    BY <1>2, <1>6 DEF FromTable
  <2> QED BY <2>3, <2>4 DEF Running
<1>7. ASSUME NEW p \in {28, 30}, NEW q \in {28, 30}, mprogram = Pair(p, q), AtPair(p, q)
      PROVE  mdata' \in Data /\ Flagged(msreg') /\ Running'
  <2>1. mdata' \in Data /\ msreg' = msreg /\ AtPair(p, q)'
    BY <1>1, <1>7, PairStep
  <2>2. mprogram' = Pair(p, q)'
    BY <1>2, <1>7 DEF Pair
  <2> QED BY <1>1, <2>1, <2>2 DEF Running
<1>8. ASSUME NEW lpm, NEW done,
             \/ lpm \in {"LPM_d", "ELPM_d"} /\ mprogram = EntryD(lpm) /\ done = 4
             \/ lpm \in {"LPM_0", "ELPM_0"} /\ mprogram = Entry0(lpm) /\ done = 3,
             AtEntry(done)
      PROVE  mdata' \in Data /\ Flagged(msreg') /\ Running'
  <2>1. mdata' \in Data /\ msreg' = msreg /\ AtEntry(done)'
    BY <1>1, <1>8, EntryStep
  <2>2. \/ lpm \in {"LPM_d", "ELPM_d"} /\ mprogram' = EntryD(lpm)' /\ AtEntry(4)'
        \/ lpm \in {"LPM_0", "ELPM_0"} /\ mprogram' = Entry0(lpm)' /\ AtEntry(3)'
    BY <1>2, <1>8, <2>1 DEF EntryD, Entry0
  <2> QED BY <1>1, <2>1, <2>2 DEF Running
<1>9. ASSUME NEW v \in 0..3, mprogram = Find(v), AtFind(v)
      PROVE  mdata' \in Data /\ Flagged(msreg') /\ Running'
  <2>1. mdata' \in Data /\ msreg' = msreg /\ AtFind(v)'
    BY <1>1, <1>9, FindStep
  <2>2. mprogram' = Find(v)'
    BY <1>2, <1>9 DEF Find
  <2> QED BY <1>1, <2>1, <2>2 DEF Running
<1>10. ASSUME NEW k \in Window, mprogram = UpdateSkip(k), AtUpdateSkip(k)
       PROVE  mdata' \in Data /\ Flagged(msreg') /\ Running'
  <2>1. mdata' \in Data /\ msreg' = msreg /\ AtUpdateSkip(k)'
    BY <1>1, <1>10, UpdateSkipStep
  <2>2. mprogram' = UpdateSkip(k)'
    BY <1>2, <1>10 DEF UpdateSkip
  <2> QED BY <1>1, <2>1, <2>2 DEF Running
<1>11. ASSUME mprogram = UpdateBranch, AtUpdateBranch
       PROVE  mdata' \in Data /\ Flagged(msreg') /\ Running'
  <2>1. mdata' \in Data /\ Flagged(msreg') /\ AtUpdateBranch'
    BY <1>1, <1>11, UpdateBranchStep
  <2>2. mprogram' = UpdateBranch'
    BY <1>2, <1>11 DEF UpdateBranch
  <2> QED BY <2>1, <2>2 DEF Running
<1>12. ASSUME NEW b \in 0..1, NEW i \in 0..1, mprogram = TestBit(b, i), AtTestBit(b, i)
       PROVE  mdata' \in Data /\ Flagged(msreg') /\ Running'
  <2>1. mdata' \in Data /\ msreg' = msreg /\ AtTestBit(b, i)'
    BY <1>1, <1>12, TestBitStep
  <2>2. mprogram' = TestBit(b, i)'
    BY <1>2, <1>12 DEF TestBit
  <2> QED BY <1>1, <2>1, <2>2 DEF Running
<1>13. ASSUME mprogram = Framed, AtFrame
       PROVE  mdata' \in Data /\ Flagged(msreg') /\ Running'
  <2>1. mdata' \in Data /\ msreg' = msreg /\ AtFrame'
    BY <1>1, <1>13, FrameStep
  <2>2. mprogram' = Framed'
    BY <1>2, <1>13 DEF Framed
  <2> QED BY <1>1, <2>1, <2>2 DEF Running
<1> QED
  BY <1>1, <1>2, <1>4, <1>5, <1>6, <1>7, <1>8, <1>9, <1>10, <1>11, <1>12, <1>13 DEF Running

-----------------------------------------------------------------------------
\* What the host has set up when it starts a program

Begun ==
  /\ mprogram \in Mem!Programs /\ mpc = 1 /\ mdata0 = mdata /\ mdata \in Data /\ Flagged(msreg)
  /\ Mem!Fits(mprogram.does, mdata)
  /\ mprogram.does[1] = "find" => Then(26) \in Window \cup {Mem!Max(Window) + 1}
  /\ mprogram.does[1] = "entry" => Then(30) \in DOMAIN Table

LEMMA CopyBegins ==
  ASSUME NEW p \in Pointers, NEW q \in Pointers, NEW n \in 1..MaxLen, Begun, NEW dir \in {"up", "down"},
         mprogram.does = <<dir, p, q, n>>
  PROVE  \A bytes : CopyFits(dir, p, q, n) /\ AtLoop(dir, p, q, n, bytes)
<1>1. PICK does, s, t : does = mprogram.does /\ s = Then(p) /\ t = Then(q)
  OBVIOUS
<1>2. does[1] = dir /\ does[2] = p /\ does[3] = q /\ does[4] = n
  BY <1>1
<1>3. mdata0 = mdata /\ mdata0 \in Data /\ mpc = 1 /\ Mem!Fits(does, mdata0)
  BY <1>1 DEF Begun
<1>4. s = Mem!getWord(mdata0, p) /\ t = Mem!getWord(mdata0, q)
  BY <1>1 DEF Then
<1>5. s \in Int /\ t \in Int /\ n \in Nat
  <2>1. p \in Pairs /\ q \in Pairs
    BY DEF Pointers, Pairs
  <2> QED BY <1>3, <1>4, <2>1, GetWord, MemoryAssumption DEF IsWord
<1>6. /\ p # q /\ Mem!Block(dir, s, n) \cup Mem!Block(dir, t, n) \subseteq Window
      /\ dir = "up" => t <= s \/ t >= s + n
      /\ dir = "down" => t >= s \/ t <= s - n
  <2>1. Mem!Copies(does)
    BY <1>2 DEF Mem!Copies
  <2> QED BY <1>2, <1>3, <1>4, <2>1 DEF Mem!Fits
<1>7. CASE dir = "up"
  <2>1. s..(s + n - 1) \subseteq Window /\ t..(t + n - 1) \subseteq Window
    BY <1>6, <1>7 DEF Mem!Block
  <2>2. \A i \in 0..(n - 1) : Cell(dir, s, i) \in Window /\ Cell(dir, t, i) \in Window
    BY <1>5, <1>7, <2>1 DEF Cell
  <2>3. \A i, j \in 0..(n - 1) : i < j => Cell(dir, t, i) # Cell(dir, s, j)
    BY <1>5, <1>6, <1>7 DEF Cell
  <2> QED BY <1>1, <1>3, <1>6, <2>2, <2>3 DEF CopyFits, AtLoop
<1>8. CASE dir = "down"
  <2>1. (s - n)..(s - 1) \subseteq Window /\ (t - n)..(t - 1) \subseteq Window
    BY <1>6, <1>8 DEF Mem!Block
  <2>2. \A i \in 0..(n - 1) : Cell(dir, s, i) \in Window /\ Cell(dir, t, i) \in Window
    BY <1>5, <1>8, <2>1 DEF Cell
  <2>3. \A i, j \in 0..(n - 1) : i < j => Cell(dir, t, i) # Cell(dir, s, j)
    BY <1>5, <1>6, <1>8 DEF Cell
  <2> QED BY <1>1, <1>3, <1>6, <2>2, <2>3 DEF CopyFits, AtLoop
<1> QED BY <1>7, <1>8

LEMMA TableBegins ==
  ASSUME NEW n \in 1..MaxLen, Begun, mprogram.does = <<"table", n>>
  PROVE  \A bytes : TableFits(n) /\ AtLoop("up", 30, 26, n, bytes)
<1>1. PICK does : does = mprogram.does /\ does[1] = "table" /\ does[2] = n
  OBVIOUS
<1>2. mdata0 = mdata /\ mdata0 \in Data /\ mpc = 1 /\ Mem!Fits(does, mdata0)
  BY <1>1 DEF Begun
<1>3. PICK s, t : s = Then(30) /\ t = Then(26)
  OBVIOUS
<1>4. s \in Int /\ t \in Int /\ n \in Nat
  <2>1. 30 \in Pairs /\ 26 \in Pairs
    BY DEF Pairs
  <2> QED BY <1>2, <1>3, <2>1, GetWord, MemoryAssumption DEF IsWord, Then
<1>5. Mem!Block("up", t, n) \subseteq Window /\ Mem!Block("up", s, n) \subseteq DOMAIN Table
  <2>1. ~Mem!Copies(does)
    BY <1>1 DEF Mem!Copies
  <2> QED BY <1>1, <1>2, <1>3, <2>1 DEF Mem!Fits, Mem!X, Mem!Z, Then
<1>6. s..(s + n - 1) \subseteq DOMAIN Table /\ t..(t + n - 1) \subseteq Window
  BY <1>5 DEF Mem!Block
<1>7. \A i \in 0..(n - 1) : t + i \in Window /\ s + i \in DOMAIN Table
  BY <1>4, <1>6
<1> QED BY <1>2, <1>3, <1>7 DEF TableFits, AtLoop

LEMMA PairBegins ==
  ASSUME NEW p \in {28, 30}, NEW q \in {28, 30}, Begun, mprogram.does = <<"pair", p, q, 2>>
  PROVE  AtPair(p, q)
<1>1. PICK does : does = mprogram.does /\ does[1] = "pair" /\ does[2] = p /\ does[3] = q /\ does[4] = 2
  OBVIOUS
<1>2. mdata0 = mdata /\ mdata0 \in Data /\ mpc = 1 /\ Mem!Fits(does, mdata0)
  BY <1>1 DEF Begun
<1>3. PICK s, t : s = Then(p) /\ t = Then(q)
  OBVIOUS
<1>4. s \in Int /\ t \in Int
  <2>1. p \in Pairs /\ q \in Pairs
    BY DEF Pairs
  <2> QED BY <1>2, <1>3, <2>1, GetWord DEF IsWord, Then
<1>5. p # q /\ Mem!Block("pair", s, 2) \subseteq Window /\ Mem!Block("pair", t, 2) \subseteq Window
  <2>1. Mem!Copies(does)
    BY <1>1 DEF Mem!Copies
  <2> QED BY <1>1, <1>2, <1>3, <2>1 DEF Mem!Fits, Then
<1>6. s..(s + 2 - 1) \subseteq Window /\ t..(t + 2 - 1) \subseteq Window
  BY <1>5 DEF Mem!Block
<1>7. {s, s + 1, t, t + 1} \subseteq Window
  BY <1>4, <1>6
<1>8. Now(p) = s /\ Now(q) = t /\ Kept({})
  BY <1>2, <1>3 DEF Now, Then, Kept
<1> QED BY <1>2, <1>3, <1>5, <1>7, <1>8 DEF AtPair

LEMMA FindBegins ==
  ASSUME NEW v, Begun, mprogram.does = <<"find", v>>
  PROVE  AtFind(v)
<1>1. PICK does : does = mprogram.does /\ does[1] = "find" /\ does[2] = v
  OBVIOUS
<1>2. mdata0 = mdata /\ mdata0 \in Data /\ mpc = 1 /\ Mem!Fits(does, mdata0)
  BY <1>1 DEF Begun
<1>3. PICK x : x = Then(26) /\ x = Now(26)
  BY <1>2 DEF Then, Now
<1>4. PICK a \in Window : a >= x /\ mdata0[a] = v
  <2>1. ~Mem!Copies(does)
    BY <1>1 DEF Mem!Copies
  <2> QED BY <1>1, <1>2, <1>3, <2>1 DEF Mem!Fits, Mem!X, Then
<1>5. x \in Window
  <2>1. x \in Window \cup {Mem!Max(Window) + 1}
    BY <1>1, <1>3 DEF Begun
  <2>2. Mem!Max(Window) \in Int /\ a <= Mem!Max(Window) /\ a \in Int
    BY MaxOfWindow, WindowFacts
  <2>3. x # Mem!Max(Window) + 1
    BY <1>4, <2>2
  <2> QED BY <2>1, <2>3
<1>6. x \in Int /\ Kept({})
  BY <1>2, <1>5, WindowFacts DEF Kept
<1>7. \A i \in x..(x - 1) : mdata0[i] # v
  BY <1>6
<1> QED BY <1>2, <1>3, <1>4, <1>5, <1>6, <1>7 DEF AtFind

(* The programs that work on the cells X and Y point to. *)
LEMMA OthersBegin ==
  ASSUME Begun, mprogram.does[1] \in {"entry", "update", "bit"}
  PROVE  /\ Then(26) \in Window /\ Then(28) \in Window /\ mpc = 1
         /\ Now(26) = Then(26) /\ Now(28) = Then(28) /\ Now(30) = Then(30) /\ Kept({})
<1>1. PICK does : does = mprogram.does
  OBVIOUS
<1>2. mdata0 = mdata /\ mpc = 1 /\ Mem!Fits(does, mdata0)
  BY <1>1 DEF Begun
<1>3. {Mem!getWord(mdata0, 26), Mem!getWord(mdata0, 28)} \subseteq Window
  <2>1. ~Mem!Copies(does) /\ does[1] # "table" /\ does[1] # "find" /\ does[1] # "frame"
    BY <1>1 DEF Mem!Copies
  <2> QED BY <1>2, <2>1 DEF Mem!Fits, Mem!X, Mem!Y
<1> QED BY <1>2, <1>3 DEF Now, Then, Kept

LEMMA FrameBegins ==
  ASSUME Begun, mprogram.does = <<"frame">>
  PROVE  AtFrame
<1>1. PICK does, sp : does = mprogram.does /\ does[1] = "frame" /\ sp = Then(93)
  OBVIOUS
<1>2. mdata0 = mdata /\ mdata0 \in Data /\ mpc = 1 /\ Mem!Fits(does, mdata0)
  BY <1>1 DEF Begun
<1>3. (sp - 3)..sp \subseteq Window
  <2>1. ~Mem!Copies(does)
    BY <1>1 DEF Mem!Copies
  <2> QED BY <1>1, <1>2, <2>1 DEF Mem!Fits, Mem!SPL, Then
<1>4. Now(93) = sp /\ sp \in Int /\ Kept((sp - 3)..sp)
  BY <1>1, <1>2, GetWord DEF Now, Then, Kept, Pairs, IsWord
<1>5. Now(93) = sp - Pushed(mpc)
  BY <1>2, <1>4 DEF Pushed
<1>6. FrameAt(sp)
  BY <1>2, <1>3, <1>4, <1>5 DEF FrameAt
<1> QED BY <1>1, <1>6 DEF AtFrame

LEMMA ProgramsAre ==
  ASSUME NEW prog \in Mem!Programs
  PROVE  \/ \E p, q \in Pointers, n \in 1..MaxLen : prog = Up(p, q, n)
         \/ \E p, q \in Pointers, n \in 1..MaxLen : prog = Down(p, q, n)
         \/ \E p, q \in {28, 30} : prog = Pair(p, q)
         \/ \E lpm \in {"LPM_dpostInc", "ELPM_dpostInc"}, n \in 1..MaxLen : prog = FromTable(lpm, n)
         \/ \E lpm \in {"LPM_d", "ELPM_d"} : prog = EntryD(lpm)
         \/ \E lpm \in {"LPM_0", "ELPM_0"} : prog = Entry0(lpm)
         \/ \E v \in 0..3 : prog = Find(v)
         \/ \E k \in Window : prog = UpdateSkip(k)
         \/ prog = UpdateBranch
         \/ \E b, i \in 0..1 : prog = TestBit(b, i)
         \/ prog = Framed
<1> DEFINE Ups == {Up(p, q, n) : p \in Pointers, q \in Pointers, n \in 1..MaxLen}
           Downs == {Down(p, q, n) : p \in Pointers, q \in Pointers, n \in 1..MaxLen}
           Twos == {Pair(p, q) : p \in {28, 30}, q \in {28, 30}}
           Tables == {FromTable(lpm, n) : lpm \in {"LPM_dpostInc", "ELPM_dpostInc"}, n \in 1..MaxLen}
           EntriesD == {EntryD(lpm) : lpm \in {"LPM_d", "ELPM_d"}}
           Entries0 == {Entry0(lpm) : lpm \in {"LPM_0", "ELPM_0"}}
           Finds == {Find(v) : v \in 0..3}
           Skips == {UpdateSkip(k) : k \in Window}
           Bits == {TestBit(b, i) : b \in 0..1, i \in 0..1}
<1>1. Mem!Programs = Ups \cup Downs \cup Twos \cup Tables \cup EntriesD \cup Entries0 \cup Finds
                       \cup Skips \cup {UpdateBranch} \cup Bits \cup {Framed}
  BY DEF Mem!Programs, Mem!Pointers, Mem!X, Mem!Y, Mem!Z, Pointers,
     Up, Down, Pair, FromTable, EntryD, Entry0, Find, UpdateSkip, UpdateBranch, TestBit, Framed
<1>2. /\ prog \in Ups => \E p, q \in Pointers, n \in 1..MaxLen : prog = Up(p, q, n)
      /\ prog \in Downs => \E p, q \in Pointers, n \in 1..MaxLen : prog = Down(p, q, n)
      /\ prog \in Twos => \E p, q \in {28, 30} : prog = Pair(p, q)
  OBVIOUS
<1>3. /\ prog \in Tables =>
           \E lpm \in {"LPM_dpostInc", "ELPM_dpostInc"}, n \in 1..MaxLen : prog = FromTable(lpm, n)
      /\ prog \in EntriesD => \E lpm \in {"LPM_d", "ELPM_d"} : prog = EntryD(lpm)
      /\ prog \in Entries0 => \E lpm \in {"LPM_0", "ELPM_0"} : prog = Entry0(lpm)
  OBVIOUS
<1>4. /\ prog \in Finds => \E v \in 0..3 : prog = Find(v)
      /\ prog \in Skips => \E k \in Window : prog = UpdateSkip(k)
      /\ prog \in Bits => \E b, i \in 0..1 : prog = TestBit(b, i)
  OBVIOUS
<1> HIDE DEF Ups, Downs, Twos, Tables, EntriesD, Entries0, Finds, Skips, Bits
<1>5. \/ prog \in Ups \/ prog \in Downs \/ prog \in Twos \/ prog \in Tables \/ prog \in EntriesD
      \/ prog \in Entries0 \/ prog \in Finds \/ prog \in Skips \/ prog = UpdateBranch
      \/ prog \in Bits \/ prog = Framed
  BY <1>1
<1> QED BY <1>2, <1>3, <1>4, <1>5

LEMMA BegunInv == Begun => MemInv
<1> SUFFICES ASSUME Begun
             PROVE  MemInv
  OBVIOUS
<1>1. mdata \in Data /\ mdata0 \in Data /\ Flagged(msreg) /\ mpc = 1
  BY DEF Begun
<1>2. SUFFICES Running
  BY <1>1 DEF MemInv
<1>3. ASSUME NEW p \in Pointers, NEW q \in Pointers, NEW n \in 1..MaxLen, mprogram = Up(p, q, n)
      PROVE  Running
  <2>1. PICK dir \in {"up", "down"} : dir = "up"
    OBVIOUS
  <2>2. mprogram.does = <<dir, p, q, n>>
    BY <1>3, <2>1 DEF Up, Mem!Is
  <2>3. CopyFits(dir, p, q, n) /\ AtLoop(dir, p, q, n, Source(dir, p, n))
    BY <2>2, CopyBegins
  <2> QED BY <1>3, <2>1, <2>3 DEF Running
<1>4. ASSUME NEW p \in Pointers, NEW q \in Pointers, NEW n \in 1..MaxLen, mprogram = Down(p, q, n)
      PROVE  Running
  <2>1. PICK dir \in {"up", "down"} : dir = "down"
    OBVIOUS
  <2>2. mprogram.does = <<dir, p, q, n>>
    BY <1>4, <2>1 DEF Down, Mem!Is
  <2>3. CopyFits(dir, p, q, n) /\ AtLoop(dir, p, q, n, Source(dir, p, n))
    BY <2>2, CopyBegins
  <2> QED BY <1>4, <2>1, <2>3 DEF Running
<1>5. ASSUME NEW p \in {28, 30}, NEW q \in {28, 30}, mprogram = Pair(p, q)
      PROVE  Running
  <2>1. mprogram.does = <<"pair", p, q, 2>>
    BY <1>5 DEF Pair, Mem!Is
  <2>2. AtPair(p, q)
    BY <2>1, PairBegins
  <2> QED BY <1>5, <2>2 DEF Running
<1>6. ASSUME NEW lpm \in {"LPM_dpostInc", "ELPM_dpostInc"}, NEW n \in 1..MaxLen, mprogram = FromTable(lpm, n)
      PROVE  Running
  <2>1. mprogram.does = <<"table", n>>
    BY <1>6 DEF FromTable, Mem!Is
  <2>2. TableFits(n) /\ AtLoop("up", 30, 26, n, Slice(n))
    BY <2>1, TableBegins
  <2> QED BY <1>6, <2>2 DEF Running
<1>7. ASSUME NEW lpm, NEW done,
             \/ lpm \in {"LPM_d", "ELPM_d"} /\ mprogram = EntryD(lpm) /\ done = 4
             \/ lpm \in {"LPM_0", "ELPM_0"} /\ mprogram = Entry0(lpm) /\ done = 3
      PROVE  Running
  <2>1. mprogram.does = <<"entry">> /\ mprogram.does[1] = "entry"
    BY <1>7 DEF EntryD, Entry0, Mem!Is
  <2>2. Then(30) \in DOMAIN Table
    BY <2>1 DEF Begun
  <2>3. AtEntry(done)
    BY <1>7, <2>1, <2>2, OthersBegin DEF AtEntry
  <2> QED BY <1>7, <2>3 DEF Running
<1>8. ASSUME NEW v \in 0..3, mprogram = Find(v)
      PROVE  Running
  <2>1. mprogram.does = <<"find", v>>
    BY <1>8 DEF Find, Mem!Is
  <2>2. AtFind(v)
    BY <2>1, FindBegins
  <2> QED BY <1>8, <2>2 DEF Running
<1>9. ASSUME NEW k \in Window, mprogram = UpdateSkip(k)
      PROVE  Running
  <2>1. mprogram.does = <<"update", k>> /\ mprogram.does[1] = "update"
    BY <1>9 DEF UpdateSkip, Mem!Is
  <2>2. AtUpdateSkip(k)
    BY <2>1, OthersBegin DEF AtUpdateSkip
  <2> QED BY <1>9, <2>2 DEF Running
<1>10. ASSUME mprogram = UpdateBranch
       PROVE  Running
  <2>1. mprogram.does = <<"update">> /\ mprogram.does[1] = "update"
    BY <1>10 DEF UpdateBranch, Mem!Is
  <2>2. AtUpdateBranch
    BY <2>1, OthersBegin DEF AtUpdateBranch
  <2> QED BY <1>10, <2>2 DEF Running
<1>11. ASSUME NEW b \in 0..1, NEW i \in 0..1, mprogram = TestBit(b, i)
       PROVE  Running
  <2>1. mprogram.does = <<"bit", b>> /\ mprogram.does[1] = "bit"
    BY <1>11 DEF TestBit, Mem!Is
  <2>2. AtTestBit(b, i)
    BY <2>1, OthersBegin DEF AtTestBit
  <2> QED BY <1>11, <2>2 DEF Running
<1>12. ASSUME mprogram = Framed
       PROVE  Running
  <2>1. mprogram.does = <<"frame">>
    BY <1>12 DEF Framed, Mem!Is
  <2>2. AtFrame
    BY <2>1, FrameBegins
  <2> QED BY <1>12, <2>2 DEF Running
<1>13. mprogram \in Mem!Programs
  BY DEF Begun
<1> QED
  BY <1>3, <1>4, <1>5, <1>6, <1>7, <1>8, <1>9, <1>10, <1>11, <1>12, <1>13, ProgramsAre

LEMMA BothWords ==
  ASSUME NEW f \in Data, NEW p \in Pairs, NEW q \in Pairs, NEW s, IsWord(s), NEW t, IsWord(t),
         NEW d, d = Mem!setWord(Mem!setWord(f, p, s), q, t)
  PROVE  /\ d \in Data
         /\ p = 26 /\ q = 28 =>
              Mem!getWord(d, 26) = s /\ Mem!getWord(d, 30) = Mem!getWord(f, 30)
<1>1. 26 \in Pairs /\ 30 \in Pairs /\ 26 + 1 = 27 /\ 28 + 1 = 29 /\ 30 + 1 = 31
  BY DEF Pairs
<1>2. PICK e : e = Mem!setWord(f, p, s)
  OBVIOUS
<1>3. e \in Data /\ Mem!getWord(e, p) = s /\ \A c \in Mem!Cells \ {p, p + 1} : e[c] = f[c]
  BY <1>2, SetWord
<1>4. d = Mem!setWord(e, q, t)
  BY <1>2
<1>5. d \in Data /\ \A c \in Mem!Cells \ {q, q + 1} : d[c] = e[c]
  BY <1>3, <1>4, SetWord
<1>6. ASSUME p = 26, q = 28
      PROVE  Mem!getWord(d, 26) = s /\ Mem!getWord(d, 30) = Mem!getWord(f, 30)
  <2>1. Only(f, e, {26, 27}) /\ Only(e, d, {28, 29})
    BY <1>1, <1>3, <1>5, <1>6 DEF Only
  <2>2. Mem!getWord(d, 26) = Mem!getWord(e, 26) /\ Mem!getWord(d, 30) = Mem!getWord(e, 30)
    BY <1>1, <2>1, OnlyWord
  <2>3. Mem!getWord(e, 30) = Mem!getWord(f, 30)
    BY <1>1, <2>1, OnlyWord
  <2> QED BY <1>3, <1>6, <2>2, <2>3
<1> QED BY <1>5, <1>6

(* The cells before the host sets its two pointers. *)
HostFill(fill, z) ==
  Mem!setWord([c \in Mem!Cells |-> IF c \in Window THEN fill[c] ELSE c % 3], 30, z)

LEMMA HostFills ==
  ASSUME NEW fill \in Fills, NEW z \in DOMAIN Table, NEW filled, filled = HostFill(fill, z)
  PROVE  filled \in Data /\ Mem!getWord(filled, 30) = z
<1>1. IsWord(z) /\ 30 \in Pairs
  BY TableFacts DEF IsWord, Pairs
<1>2. PICK base : base = [c \in Mem!Cells |-> IF c \in Window THEN fill[c] ELSE c % 3]
  OBVIOUS
<1>3. \A c \in Window : fill[c] \in Byte
  <2>1. fill \in [Window -> Mem!Byte]
    BY MemoryAssumption
  <2>2. Mem!Byte = Byte
    BY Zenon DEF Byte, Mem!Byte
  <2> QED BY <2>1, <2>2
<1>4. \A c \in Mem!Cells : c \notin Window => c % 3 \in Byte
  <2>1. \A c \in Mem!Cells : c \notin Window => c \in Nat
    BY CellsAre
  <2>2. \A c \in Nat : c % 3 \in Nat /\ c % 3 < 256
    OBVIOUS
  <2> QED BY <2>1, <2>2 DEF Byte
<1>5. base \in Data
  BY <1>2, <1>3, <1>4 DEF Data
<1>6. filled = Mem!setWord(base, 30, z)
  BY <1>2, Zenon DEF HostFill
<1> QED BY <1>1, <1>5, <1>6, SetWord

LEMMA StartBegins ==
  ASSUME Flagged(msreg), Mem!Start
  PROVE  Begun'
<1>1. /\ mprogram' \in Mem!Programs /\ mpc' = 1 /\ mdata0' = mdata' /\ msreg' = msreg
  BY DEF Mem!Start
<1> DEFINE does == mprogram'.does
           ps == IF Mem!Copies(does) THEN <<does[2], does[3]>>
                 ELSE <<26, IF does[1] = "frame" THEN 93 ELSE 28>>
<1>2. PICK fill \in Fills, s \in Window \cup {Mem!Max(Window) + 1},
           t \in Window \cup {Mem!Max(Window) + 1}, z \in DOMAIN Table :
        /\ mdata' = Mem!setWord(Mem!setWord(HostFill(fill, z), ps[1], s), ps[2], t)
        /\ Mem!Fits(does, mdata')
  BY Zenon DEF Mem!Start, Mem!X, Mem!Y, Mem!Z, Mem!SPL, HostFill
<1>3. PICK filled : filled = HostFill(fill, z)
  OBVIOUS
<1>4. filled \in Data /\ Mem!getWord(filled, 30) = z
  BY <1>3, HostFills
<1>5. PICK p \in Pairs, q \in Pairs : p = ps[1] /\ q = ps[2]
  <2>1. CASE Mem!Copies(does)
    <3>1. \E a, b \in Pointers : does[2] = a /\ does[3] = b
      BY <1>1, <2>1, ProgramsAre DEF Mem!Copies, Up, Down, Pair, FromTable, EntryD, Entry0,
         Find, UpdateSkip, UpdateBranch, TestBit, Framed, Mem!Is, Pointers
    <3>2. ps[1] = does[2] /\ ps[2] = does[3]
      BY <2>1
    <3>3. Pointers \subseteq Pairs
      BY DEF Pointers, Pairs
    <3> QED BY <3>1, <3>2, <3>3
  <2>2. CASE ~Mem!Copies(does)
    <3>1. ps[1] = 26 /\ ps[2] \in {93, 28}
      BY <2>2
    <3> QED BY <3>1 DEF Pairs
  <2> QED BY <2>1, <2>2
<1>6. /\ mdata' \in Data
      /\ p = 26 /\ q = 28 => Mem!getWord(mdata', 26) = s /\ Mem!getWord(mdata', 30) = z
  <2>1. IsWord(s) /\ IsWord(t)
    BY MaxOfWindow, WindowFacts DEF IsWord
  <2>2. mdata' = Mem!setWord(Mem!setWord(filled, p, s), q, t)
    BY <1>3, <1>2, <1>5
  <2> QED BY <1>4, <2>1, <2>2, BothWords
<1>7. does[1] \in {"find", "entry"} => p = 26 /\ q = 28
  BY <1>5 DEF Mem!Copies
<1>8. does[1] \in {"find", "entry"} => Then(26)' = s /\ Then(30)' = z
  BY <1>1, <1>6, <1>7 DEF Then
<1> QED BY <1>1, <1>2, <1>6, <1>8 DEF Begun, Flagged

LEMMA InitInv == Mem!Init => MemInv
<1> SUFFICES ASSUME Mem!Init
             PROVE  MemInv
  OBVIOUS
<1>1. mdata = [c \in Mem!Cells |-> 0] /\ mdata0 = mdata /\ mprogram = Mem!Idle
  BY DEF Mem!Init
<1>2. mdata \in Data
  BY <1>1 DEF Data, Byte
<1>3. Flagged(msreg)
  BY DEF Mem!Init, Flagged, Names
<1> QED BY <1>1, <1>2, <1>3 DEF MemInv, Running

LEMMA UnloadKept == MemInv /\ Mem!Unload => MemInv'
<1> SUFFICES ASSUME MemInv, Mem!Unload
             PROVE  MemInv'
  OBVIOUS
<1>1. /\ mdata' = [c \in Mem!Cells |-> 0] /\ mdata0' = mdata' /\ mprogram' = Mem!Idle
      /\ msreg' = [flag \in DOMAIN msreg |-> FALSE]
  BY DEF Mem!Unload
<1>2. mdata' \in Data
  BY <1>1 DEF Data, Byte
<1>3. Flagged(msreg')
  <2>1. DOMAIN msreg = Names
    BY DEF MemInv, Flagged
  <2> QED BY <1>1, <2>1 DEF Flagged
<1>4. Running'
  BY <1>1 DEF Running, Mem!Idle
<1> QED BY <1>1, <1>2, <1>3, <1>4 DEF MemInv, Flagged

LEMMA RestKept == MemInv /\ UNCHANGED memVars => MemInv'
<1> SUFFICES ASSUME MemInv, UNCHANGED memVars
             PROVE  MemInv'
  OBVIOUS
<1>1. mdata' = mdata /\ msreg' = msreg /\ mprogram' = mprogram /\ mpc' = mpc /\ mdata0' = mdata0
  BY DEF memVars
<1>2. /\ \A p : Now(p)' = Now(p) /\ Then(p)' = Then(p)
      /\ \A cells : Kept(cells)' <=> Kept(cells)
  BY <1>1 DEF Now, Then, Kept
<1>3. \A dir, p, q, n : CopyFits(dir, p, q, n)' <=> CopyFits(dir, p, q, n)
  BY <1>1 DEF CopyFits, Then
<1>4. \A dir, p, n : Source(dir, p, n)' = Source(dir, p, n)
  BY <1>1 DEF Source, Then
<1>5. \A n : Slice(n)' = Slice(n) /\ (TableFits(n)' <=> TableFits(n))
  BY <1>1 DEF Slice, TableFits, Then
<1>6. \A dir, p, s, q, t, n, bytes, j :
        LoopAt(dir, p, s, q, t, n, bytes, j)' <=> LoopAt(dir, p, s, q, t, n, bytes, j)
  BY <1>1 DEF LoopAt, Moved, Now
<1>7. ASSUME NEW dir, NEW p, NEW q, NEW n, NEW bytes
      PROVE  AtLoop(dir, p, q, n, bytes) => AtLoop(dir, p, q, n, bytes)'
  BY <1>1, <1>2, <1>6 DEF AtLoop
<1>8. \A p, q : AtPair(p, q) => AtPair(p, q)'
  BY <1>1, <1>2 DEF AtPair
<1>9. \A done : AtEntry(done) => AtEntry(done)'
  BY <1>1, <1>2 DEF AtEntry
<1>10. \A v : AtFind(v) => AtFind(v)'
  BY <1>1, <1>2 DEF AtFind
<1>11. \A k : AtUpdateSkip(k) => AtUpdateSkip(k)'
  BY <1>1, <1>2 DEF AtUpdateSkip
<1>12. AtUpdateBranch => AtUpdateBranch'
  BY <1>1, <1>2 DEF AtUpdateBranch
<1>13. \A b, i : AtTestBit(b, i) => AtTestBit(b, i)'
  BY <1>1, <1>2 DEF AtTestBit
<1>14. AtFrame => AtFrame'
  BY <1>1, <1>2 DEF AtFrame, FrameAt
<1>15. Running'
  <2>1. Running
    BY DEF MemInv
  <2> QED BY <1>1, <1>3, <1>4, <1>5, <1>7, <1>8, <1>9, <1>10, <1>11, <1>12, <1>13, <1>14, <2>1
          DEF Running, Up, Down, Pair, FromTable, EntryD, Entry0, Find, UpdateSkip, UpdateBranch,
              TestBit, Framed
<1> QED BY <1>1, <1>15 DEF MemInv

LEMMA NextKept == MemInv /\ (Mem!Next \/ UNCHANGED memVars) => MemInv'
<1> SUFFICES ASSUME MemInv, Mem!Next \/ UNCHANGED memVars
             PROVE  MemInv'
  OBVIOUS
<1>1. CASE Mem!Start
  <2>1. Begun'
    BY <1>1, StartBegins DEF MemInv
  <2>2. Begun' => MemInv'
    BY BegunInv, PTL
  <2> QED BY <2>1, <2>2
<1>2. CASE Mem!Step
  BY <1>2, StepKept
<1>3. CASE Mem!Unload
  BY <1>3, UnloadKept
<1>4. CASE UNCHANGED memVars
  BY <1>4, RestKept
<1> QED BY <1>1, <1>2, <1>3, <1>4 DEF Mem!Next

(* What a program has done by each of its words is an invariant of the whole run. *)
THEOREM ProgramsProgress == InstSpec => []MemInv
<1>1. InstInit => MemInv
  BY InitInv DEF InstInit
<1>2. MemInv /\ [InstNext]_<<part, aluVars, memVars, decVars, disVars>> => MemInv'
  <2>1. [InstNext]_<<part, aluVars, memVars, decVars, disVars>> => Mem!Next \/ UNCHANGED memVars
    BY DEF InstNext, Bodies, Moving, Decoding, Walking
  <2> QED BY <2>1, NextKept
<1> QED BY <1>1, <1>2, PTL DEF InstSpec

-----------------------------------------------------------------------------
\* What has been done at the end of each program

LEMMA LoopEnds ==
  ASSUME NEW dir \in {"up", "down"}, NEW p \in Pairs, NEW q \in Pairs, NEW n \in 1..MaxLen, NEW bytes,
         AtLoop(dir, p, q, n, bytes), mpc = 6, mdata0 \in Data,
         NEW s, s = Then(p), NEW t, t = Then(q)
  PROVE  /\ s \in Int /\ t \in Int /\ n \in Nat
         /\ \A i \in 0..(n - 1) : mdata[Cell(dir, t, i)] = bytes[i]
         /\ Now(p) = Past(dir, s, n) /\ Now(q) = Past(dir, t, n)
         /\ \A c \in Window \ Mem!Block(dir, t, n) : mdata[c] = mdata0[c]
<1>1. s \in Int /\ t \in Int /\ n \in Nat
  BY GetWord, MemoryAssumption DEF Then, IsWord
<1>2. PICK j \in 0..n : LoopAt(dir, p, s, q, t, n, bytes, j)
  BY DEF AtLoop
<1>3. j = n /\ Moved(dir, t, bytes, n) /\ Now(p) = Past(dir, s, n) /\ Now(q) = Past(dir, t, n)
  BY <1>2 DEF LoopAt
<1>4. \A c : c \notin Mem!Block(dir, t, n) => \A i \in 0..(n - 1) : c # Cell(dir, t, i)
  <2>1. CASE dir = "up"
    <3>1. \A i \in 0..(n - 1) : Cell(dir, t, i) \in t..(t + n - 1)
      BY <1>1, <2>1 DEF Cell
    <3> QED BY <2>1, <3>1 DEF Mem!Block
  <2>2. CASE dir = "down"
    <3>1. \A i \in 0..(n - 1) : Cell(dir, t, i) \in (t - n)..(t - 1)
      BY <1>1, <2>2 DEF Cell
    <3> QED BY <2>2, <3>1 DEF Mem!Block
  <2> QED BY <2>1, <2>2
<1>5. \A i \in 0..(n - 1) : mdata[Cell(dir, t, i)] = bytes[i]
  BY <1>3 DEF Moved
<1>6. \A c \in Window \ Mem!Block(dir, t, n) : mdata[c] = mdata0[c]
  BY <1>3, <1>4 DEF Moved
<1> QED BY <1>1, <1>3, <1>5, <1>6

(* BlocksCopied of a program that copies, given its operands; and of the others. *)
LEMMA CopyHolds ==
  ASSUME NEW does, does = mprogram.does, NEW p, NEW q, NEW n,
         does[1] \in {"up", "down", "pair"}, does[2] = p, does[3] = q, does[4] = n,
         NEW s, s = Mem!getWord(mdata0, p), NEW t, t = Mem!getWord(mdata0, q), NEW moved,
         moved = (IF does[1] = "up" THEN n ELSE IF does[1] = "down" THEN -n ELSE 0),
         \A a \in Mem!Block(does[1], t, n) : mdata[a] = mdata0[a - t + s],
         Now(p) = s + moved, Now(q) = t + moved,
         \A c \in Window \ Mem!Block(does[1], t, n) : mdata[c] = mdata0[c]
  PROVE  Mem!BlocksCopied
<1>1. ~Mem!Does("table") /\ ~Mem!Does("entry")
  BY DEF Mem!Does
<1>2. moved = CASE does[1] = "up" -> n [] does[1] = "down" -> -n [] OTHER -> 0
  OBVIOUS
<1>3. Mem!Unless(Mem!Block(does[1], t, n))
  BY DEF Mem!Unless
<1> QED BY <1>1, <1>2, <1>3 DEF Mem!BlocksCopied, Now

LEMMA TableHolds ==
  ASSUME NEW does, does = mprogram.does, NEW n, NEW moved,
         \/ does[1] = "table" /\ does[2] = n /\ moved = n
         \/ does[1] = "entry" /\ n = 1 /\ moved = 0,
         NEW x, x = Mem!getWord(mdata0, 26), NEW z, z = Mem!getWord(mdata0, 30),
         \A i \in 0..(n - 1) : mdata[x + i] = Table[z + i],
         Now(26) = x + moved, Now(30) = z + moved,
         \A c \in Window \ Mem!Block("up", x, n) : mdata[c] = mdata0[c]
  PROVE  Mem!BlocksCopied
<1>1. ~Mem!Copies(does)
  BY DEF Mem!Copies
<1>2. /\ Mem!Does("table") => n = does[2] /\ moved = n
      /\ Mem!Does("entry") /\ ~Mem!Does("table") => n = 1 /\ moved = 0
  BY DEF Mem!Does
<1>3. Mem!Unless(Mem!Block("up", x, n))
  BY DEF Mem!Unless
<1> QED BY <1>1, <1>2, <1>3 DEF Mem!BlocksCopied, Mem!X, Mem!Z, Now

LEMMA NothingToCopy ==
  ASSUME NEW does, does = mprogram.does, does[1] \notin {"up", "down", "pair", "table", "entry"}
  PROVE  Mem!BlocksCopied
BY DEF Mem!BlocksCopied, Mem!Copies, Mem!Does

LEMMA CopyEnds ==
  ASSUME NEW dir \in {"up", "down"}, NEW p \in Pointers, NEW q \in Pointers, NEW n \in 1..MaxLen,
         mprogram.does = <<dir, p, q, n>>, AtLoop(dir, p, q, n, Source(dir, p, n)), mpc = 6,
         mdata0 \in Data
  PROVE  Mem!BlocksCopied
<1>1. PICK s, t, bytes : s = Then(p) /\ t = Then(q) /\ bytes = Source(dir, p, n)
  OBVIOUS
<1>2. PICK does : does = mprogram.does /\ does[1] = dir /\ does[2] = p /\ does[3] = q /\ does[4] = n
  OBVIOUS
<1>3. p \in Pairs /\ q \in Pairs
  BY DEF Pointers, Pairs
<1>4. /\ s \in Int /\ t \in Int /\ n \in Nat
      /\ \A i \in 0..(n - 1) : mdata[Cell(dir, t, i)] = bytes[i]
      /\ Now(p) = Past(dir, s, n) /\ Now(q) = Past(dir, t, n)
      /\ \A c \in Window \ Mem!Block(dir, t, n) : mdata[c] = mdata0[c]
  BY <1>1, <1>3, LoopEnds
<1>5. \A i \in 0..(n - 1) : bytes[i] = mdata0[Cell(dir, s, i)]
  BY <1>1 DEF Source
<1>6. PICK moved : moved = IF dir = "up" THEN n ELSE IF dir = "down" THEN -n ELSE 0
  OBVIOUS
<1>7. Now(p) = s + moved /\ Now(q) = t + moved
  BY <1>4, <1>6 DEF Past
<1>8. ASSUME NEW a \in Mem!Block(dir, t, n)
      PROVE  mdata[a] = mdata0[a - t + s]
  <2>1. CASE dir = "up"
    <3>1. a \in t..(t + n - 1)
      BY <1>8, <2>1 DEF Mem!Block
    <3>2. PICK i \in 0..(n - 1) : i = a - t
      BY <1>4, <3>1
    <3>3. Cell(dir, t, i) = a /\ Cell(dir, s, i) = a - t + s
      BY <1>4, <2>1, <3>1, <3>2 DEF Cell
    <3> QED BY <1>4, <1>5, <3>2, <3>3
  <2>2. CASE dir = "down"
    <3>1. a \in (t - n)..(t - 1)
      BY <1>8, <2>2 DEF Mem!Block
    <3>2. PICK i \in 0..(n - 1) : i = t - 1 - a
      BY <1>4, <3>1
    <3>3. Cell(dir, t, i) = a /\ Cell(dir, s, i) = a - t + s
      BY <1>4, <2>2, <3>1, <3>2 DEF Cell
    <3> QED BY <1>4, <1>5, <3>2, <3>3
  <2> QED BY <2>1, <2>2
<1>9. s = Mem!getWord(mdata0, p) /\ t = Mem!getWord(mdata0, q)
  BY <1>1 DEF Then
<1> QED BY <1>2, <1>4, <1>6, <1>7, <1>8, <1>9, CopyHolds

LEMMA PairEnds ==
  ASSUME NEW p \in {28, 30}, NEW q \in {28, 30},
         mprogram.does = <<"pair", p, q, 2>>, AtPair(p, q), mpc = 5, mdata0 \in Data
  PROVE  Mem!BlocksCopied
<1>1. PICK s, t : s = Then(p) /\ t = Then(q)
  OBVIOUS
<1>2. PICK does : does = mprogram.does /\ does[1] = "pair" /\ does[2] = p /\ does[3] = q /\ does[4] = 2
  OBVIOUS
<1>3. s \in Int /\ t \in Int
  BY <1>1, GetWord DEF Then, IsWord, Pairs
<1>4. /\ Now(p) = s /\ Now(q) = t /\ Kept({t, t + 1})
      /\ mdata[t] = mdata0[s] /\ mdata[t + 1] = mdata0[s + 1]
  BY <1>1 DEF AtPair
<1>5. Mem!Block("pair", t, 2) = {t, t + 1}
  <2>1. t..(t + 2 - 1) = {t, t + 1}
    BY <1>3
  <2> QED BY <2>1 DEF Mem!Block
<1>6. \A a \in Mem!Block("pair", t, 2) : mdata[a] = mdata0[a - t + s]
  <2>1. t - t + s = s /\ (t + 1) - t + s = s + 1
    BY <1>3
  <2> QED BY <1>4, <1>5, <2>1
<1>7. \A c \in Window \ Mem!Block("pair", t, 2) : mdata[c] = mdata0[c]
  BY <1>4, <1>5 DEF Kept
<1>8. s + 0 = s /\ t + 0 = t
  BY <1>3
<1>9. s = Mem!getWord(mdata0, p) /\ t = Mem!getWord(mdata0, q)
  BY <1>1 DEF Then
<1> QED BY <1>2, <1>4, <1>6, <1>7, <1>8, <1>9, CopyHolds

LEMMA TableEnds ==
  ASSUME NEW n \in 1..MaxLen, mprogram.does = <<"table", n>>, AtLoop("up", 30, 26, n, Slice(n)),
         mpc = 6, mdata0 \in Data
  PROVE  Mem!BlocksCopied
<1>1. PICK z, x, bytes : z = Then(30) /\ x = Then(26) /\ bytes = Slice(n)
  OBVIOUS
<1>2. PICK does : does = mprogram.does /\ does[1] = "table" /\ does[2] = n
  OBVIOUS
<1>3. 26 \in Pairs /\ 30 \in Pairs
  BY DEF Pairs
<1>4. /\ z \in Int /\ x \in Int /\ n \in Nat
      /\ \A i \in 0..(n - 1) : mdata[Cell("up", x, i)] = bytes[i]
      /\ Now(30) = Past("up", z, n) /\ Now(26) = Past("up", x, n)
      /\ \A c \in Window \ Mem!Block("up", x, n) : mdata[c] = mdata0[c]
  BY <1>1, <1>3, LoopEnds
<1>5. \A i \in 0..(n - 1) : bytes[i] = Table[z + i]
  BY <1>1 DEF Slice
<1>6. \A i \in 0..(n - 1) : mdata[x + i] = Table[z + i]
  BY <1>4, <1>5 DEF Cell
<1>7. Now(26) = x + n /\ Now(30) = z + n
  BY <1>4 DEF Past
<1>8. z = Mem!getWord(mdata0, 30) /\ x = Mem!getWord(mdata0, 26)
  BY <1>1 DEF Then
<1> QED BY <1>2, <1>4, <1>6, <1>7, <1>8, TableHolds

LEMMA EntryEnds ==
  ASSUME NEW done \in {3, 4}, mprogram.does = <<"entry">>, AtEntry(done), mpc = done
  PROVE  Mem!BlocksCopied
<1>1. PICK x \in Window, z \in DOMAIN Table : x = Then(26) /\ z = Then(30)
  BY DEF AtEntry
<1>2. PICK does : does = mprogram.does /\ does[1] = "entry"
  OBVIOUS
<1>3. x \in Int /\ z \in Int
  BY WindowFacts, TableFacts
<1>4. Now(26) = x /\ Now(30) = z /\ mdata[x] = Table[z] /\ Kept({x})
  BY <1>1 DEF AtEntry
<1>5. Mem!Block("up", x, 1) = {x}
  <2>1. x..(x + 1 - 1) = {x}
    BY <1>3
  <2> QED BY <2>1 DEF Mem!Block
<1>6. \A c \in Window \ Mem!Block("up", x, 1) : mdata[c] = mdata0[c]
  BY <1>4, <1>5 DEF Kept
<1>7. x + 0 = x /\ z + 0 = z /\ \A i \in 0..(1 - 1) : i = 0
  BY <1>3
<1>8. \A i \in 0..(1 - 1) : mdata[x + i] = Table[z + i]
  BY <1>4, <1>7
<1>9. x = Mem!getWord(mdata0, 26) /\ z = Mem!getWord(mdata0, 30)
  BY <1>1 DEF Then
<1> QED BY <1>2, <1>4, <1>6, <1>7, <1>8, <1>9, TableHolds

LEMMA DecideElse ==
  ASSUME NEW does, does = mprogram.does, does[1] \notin {"find", "update", "bit"}
  PROVE  Mem!LoopsDecide
BY DEF Mem!LoopsDecide, Mem!Does

LEMMA FindEnds ==
  ASSUME NEW v, mprogram.does = <<"find", v>>, AtFind(v), mpc = 5
  PROVE  Mem!LoopsDecide
<1>1. PICK does : does = mprogram.does /\ does[1] = "find" /\ does[2] = v
  OBVIOUS
<1>2. PICK x0, x : x0 = Then(26) /\ x = Now(26)
  OBVIOUS
<1>3. mdata0[x - 1] = v /\ \A a \in x0..(x - 2) : mdata0[a] # v
  BY <1>2 DEF AtFind
<1>4. ~Mem!Does("update") /\ ~Mem!Does("bit")
  BY <1>1 DEF Mem!Does
<1> QED BY <1>1, <1>2, <1>3, <1>4 DEF Mem!LoopsDecide, Mem!X, Now, Then

LEMMA UpdateHolds ==
  ASSUME NEW does, does = mprogram.does, does[1] = "update", NEW k,
         k = (IF Len(does) = 2 THEN does[2] ELSE Then(28)),
         mdata[k] = mdata0[Then(26)], Kept({k})
  PROVE  Mem!LoopsDecide
<1>1. ~Mem!Does("find") /\ ~Mem!Does("bit")
  BY DEF Mem!Does
<1>2. Mem!Unless({k})
  BY DEF Kept, Mem!Unless
<1> QED BY <1>1, <1>2 DEF Mem!LoopsDecide, Mem!X, Mem!Y, Then

LEMMA UpdateSkipEnds ==
  ASSUME NEW k, mprogram.does = <<"update", k>>, AtUpdateSkip(k), mpc = 7
  PROVE  Mem!LoopsDecide
<1>1. PICK does : does = mprogram.does /\ does[1] = "update" /\ does[2] = k /\ Len(does) = 2
  OBVIOUS
<1>2. mdata[k] = mdata0[Then(26)] /\ Kept({k})
  BY DEF AtUpdateSkip
<1> QED BY <1>1, <1>2, UpdateHolds

LEMMA UpdateBranchEnds ==
  ASSUME mprogram.does = <<"update">>, AtUpdateBranch, mpc = 6
  PROVE  Mem!LoopsDecide
<1>1. PICK does : does = mprogram.does /\ does[1] = "update" /\ Len(does) # 2
  OBVIOUS
<1>2. PICK y : y = Then(28) /\ mdata[y] = mdata0[Then(26)] /\ Kept({y})
  BY DEF AtUpdateBranch
<1> QED BY <1>1, <1>2, UpdateHolds

LEMMA BitEnds ==
  ASSUME NEW b, NEW i, mprogram.does = <<"bit", b>>, AtTestBit(b, i), mpc = 5
  PROVE  Mem!LoopsDecide
<1>1. PICK does : does = mprogram.does /\ does[1] = "bit" /\ does[2] = b
  OBVIOUS
<1>2. mdata[16] = Mem!Num(Mem!Bit(mdata0[Then(26)], b))
  BY DEF AtTestBit
<1>3. ~Mem!Does("find") /\ ~Mem!Does("update")
  BY <1>1 DEF Mem!Does
<1> QED BY <1>1, <1>2, <1>3 DEF Mem!LoopsDecide, Mem!X, Then

LEMMA FrameElse ==
  ASSUME mprogram.does[1] # "frame"
  PROVE  Mem!FrameRestored
BY DEF Mem!FrameRestored, Mem!Does

LEMMA FrameEnds ==
  ASSUME AtFrame, mpc = 18, mdata0 \in Data
  PROVE  Mem!FrameRestored
<1>1. PICK sp : sp = Then(93)
  OBVIOUS
<1>2. FrameAt(sp) /\ sp \in Int
  BY <1>1, GetWord DEF AtFrame, Then, Pairs, IsWord
<1>3. /\ Kept((sp - 3)..sp) /\ Now(93) = sp - Pushed(mpc)
      /\ mdata[0] = mdata0[1] /\ mdata[1] = mdata0[0]
      /\ mdata[28] = mdata0[28] /\ mdata[29] = mdata0[29]
  BY <1>2 DEF FrameAt
<1>4. Now(93) = sp
  BY <1>2, <1>3 DEF Pushed
<1>5. Now(28) = Then(28)
  BY <1>3, SameWord DEF Now, Then
<1>6. Mem!Unless((sp - 3)..sp)
  BY <1>3 DEF Kept, Mem!Unless
<1> QED BY <1>1, <1>3, <1>4, <1>5, <1>6 DEF Mem!FrameRestored, Mem!SPL, Mem!Y, Now, Then

(* Each program, when it has ended. *)
Held == Mem!BlocksCopied /\ Mem!LoopsDecide /\ Mem!FrameRestored

LEMMA NotEnded == ~Mem!Finished => Held
BY DEF Held, Mem!BlocksCopied, Mem!LoopsDecide, Mem!FrameRestored, Mem!Does

LEMMA EndsHeld == MemInv => Held
<1> SUFFICES ASSUME MemInv, Mem!Finished
             PROVE  Held
  BY NotEnded
<1>1. mdata0 \in Data /\ Running
  BY DEF MemInv
<1>2. mprogram # Mem!Idle /\ mpc = Len(mprogram.code) + 1
  BY DEF Mem!Finished
<1>3. ASSUME NEW dir \in {"up", "down"}, NEW p \in Pointers, NEW q \in Pointers, NEW n \in 1..MaxLen,
             NEW a, NEW b, mprogram = Mem!Is(<<dir, p, q, n>>, Mem!Counted(n, <<a, b>>)),
             AtLoop(dir, p, q, n, Source(dir, p, n))
      PROVE  Held
  <2>1. mprogram.does = <<dir, p, q, n>> /\ mprogram.code = Mem!Counted(n, <<a, b>>)
    BY <1>3 DEF Mem!Is
  <2>2. mpc = 6
    <3>1. Len(mprogram.code) = 5
      BY <2>1, CountedCode
    <3> QED BY <1>2, <3>1
  <2>3. Mem!BlocksCopied
    BY <1>1, <1>3, <2>1, <2>2, CopyEnds
  <2>4. mprogram.does[1] \notin {"find", "update", "bit", "frame"}
    BY <2>1
  <2> QED BY <2>3, <2>4, DecideElse, FrameElse DEF Held
<1>4. ASSUME NEW p \in Pointers, NEW q \in Pointers, NEW n \in 1..MaxLen, mprogram = Up(p, q, n),
             AtLoop("up", p, q, n, Source("up", p, n))
      PROVE  Held
  BY <1>3, <1>4 DEF Up
<1>5. ASSUME NEW p \in Pointers, NEW q \in Pointers, NEW n \in 1..MaxLen, mprogram = Down(p, q, n),
             AtLoop("down", p, q, n, Source("down", p, n))
      PROVE  Held
  BY <1>3, <1>5 DEF Down
<1>6. ASSUME NEW lpm \in {"LPM_dpostInc", "ELPM_dpostInc"}, NEW n \in 1..MaxLen,
             mprogram = FromTable(lpm, n), AtLoop("up", 30, 26, n, Slice(n))
      PROVE  Held
  <2>1. PICK a, b : a = <<lpm, 0>> /\ b = <<"ST_XpostInc", 0>>
    OBVIOUS
  <2>2. mprogram.does = <<"table", n>> /\ mprogram.code = Mem!Counted(n, <<a, b>>)
    BY <1>6, <2>1 DEF FromTable, Mem!Is
  <2>3. mpc = 6
    <3>1. Len(mprogram.code) = 5
      BY <2>2, CountedCode
    <3> QED BY <1>2, <3>1
  <2>4. mprogram.does[1] \notin {"find", "update", "bit", "frame"}
    BY <2>2
  <2>5. Mem!BlocksCopied
    BY <1>1, <1>6, <2>2, <2>3, TableEnds
  <2> QED BY <2>4, <2>5, DecideElse, FrameElse DEF Held
<1>7. ASSUME NEW p \in {28, 30}, NEW q \in {28, 30}, mprogram = Pair(p, q), AtPair(p, q)
      PROVE  Held
  <2>1. mprogram.does = <<"pair", p, q, 2>> /\ Len(mprogram.code) = 4
    BY <1>7 DEF Pair, Mem!Is
  <2>2. mpc = 5
    BY <1>2, <2>1
  <2>3. Mem!BlocksCopied
    BY <1>1, <1>7, <2>1, <2>2, PairEnds
  <2>4. mprogram.does[1] \notin {"find", "update", "bit", "frame"}
    BY <2>1
  <2> QED BY <2>3, <2>4, DecideElse, FrameElse DEF Held
<1>8. ASSUME NEW lpm, NEW done,
             \/ lpm \in {"LPM_d", "ELPM_d"} /\ mprogram = EntryD(lpm) /\ done = 4
             \/ lpm \in {"LPM_0", "ELPM_0"} /\ mprogram = Entry0(lpm) /\ done = 3,
             AtEntry(done)
      PROVE  Held
  <2>1. mprogram.does = <<"entry">>
    BY <1>8 DEF EntryD, Entry0, Mem!Is
  <2>2. Len(mprogram.code) + 1 = done
    <3>1. CASE mprogram = EntryD(lpm) /\ done = 4
      <4>1. mprogram.code = << <<lpm, 1>>, <<"MOV", 0, 1>>, <<"ST_X", 0>> >>
        BY <3>1 DEF EntryD, Mem!Is
      <4> QED BY <3>1, <4>1
    <3>2. CASE mprogram = Entry0(lpm) /\ done = 3
      <4>1. mprogram.code = << <<lpm>>, <<"ST_X", 0>> >>
        BY <3>2 DEF Entry0, Mem!Is
      <4> QED BY <3>2, <4>1
    <3> QED BY <1>8, <3>1, <3>2
  <2>3. Mem!BlocksCopied
    BY <1>2, <1>8, <2>1, <2>2, EntryEnds
  <2>4. mprogram.does[1] \notin {"find", "update", "bit", "frame"}
    BY <2>1
  <2> QED BY <2>3, <2>4, DecideElse, FrameElse DEF Held
<1>9. ASSUME NEW v \in 0..3, mprogram = Find(v), AtFind(v)
      PROVE  Held
  <2>1. mprogram.does = <<"find", v>> /\ Len(mprogram.code) = 4
    BY <1>9 DEF Find, Mem!Is
  <2>2. Mem!LoopsDecide
    BY <1>2, <1>9, <2>1, FindEnds
  <2>3. mprogram.does[1] \notin {"up", "down", "pair", "table", "entry", "frame"}
    BY <2>1
  <2> QED BY <2>2, <2>3, NothingToCopy, FrameElse DEF Held
<1>10. ASSUME NEW k \in Window, mprogram = UpdateSkip(k), AtUpdateSkip(k)
       PROVE  Held
  <2>1. mprogram.does = <<"update", k>> /\ Len(mprogram.code) = 6
    BY <1>10 DEF UpdateSkip, Mem!Is
  <2>2. Mem!LoopsDecide
    BY <1>2, <1>10, <2>1, UpdateSkipEnds
  <2>3. mprogram.does[1] \notin {"up", "down", "pair", "table", "entry", "frame"}
    BY <2>1
  <2> QED BY <2>2, <2>3, NothingToCopy, FrameElse DEF Held
<1>11. ASSUME mprogram = UpdateBranch, AtUpdateBranch
       PROVE  Held
  <2>1. mprogram.does = <<"update">> /\ Len(mprogram.code) = 5
    BY <1>11 DEF UpdateBranch, Mem!Is
  <2>2. Mem!LoopsDecide
    BY <1>2, <1>11, <2>1, UpdateBranchEnds
  <2>3. mprogram.does[1] \notin {"up", "down", "pair", "table", "entry", "frame"}
    BY <2>1
  <2> QED BY <2>2, <2>3, NothingToCopy, FrameElse DEF Held
<1>12. ASSUME NEW b \in 0..1, NEW i \in 0..1, mprogram = TestBit(b, i), AtTestBit(b, i)
       PROVE  Held
  <2>1. mprogram.does = <<"bit", b>> /\ Len(mprogram.code) = 4
    BY <1>12 DEF TestBit, Mem!Is
  <2>2. Mem!LoopsDecide
    BY <1>2, <1>12, <2>1, BitEnds
  <2>3. mprogram.does[1] \notin {"up", "down", "pair", "table", "entry", "frame"}
    BY <2>1
  <2> QED BY <2>2, <2>3, NothingToCopy, FrameElse DEF Held
<1>13. ASSUME mprogram = Framed, AtFrame
       PROVE  Held
  <2>1. mprogram.does = <<"frame">> /\ mprogram.code = Mem!Frame
    BY <1>13 DEF Framed, Mem!Is
  <2>2. Len(mprogram.code) = 17
    BY <2>1 DEF Mem!Frame
  <2>3. Mem!FrameRestored
    BY <1>1, <1>2, <1>13, <2>2, FrameEnds
  <2>4. mprogram.does[1] \notin {"up", "down", "pair", "table", "entry", "find", "update", "bit"}
    BY <2>1
  <2> QED BY <2>3, <2>4, NothingToCopy, DecideElse DEF Held
<1> QED
  BY <1>1, <1>2, <1>4, <1>5, <1>6, <1>7, <1>8, <1>9, <1>10, <1>11, <1>12, <1>13 DEF Running

-----------------------------------------------------------------------------
\* The properties of the run

(* A block copied up or down through any two of X, Y and Z, a pair copied     *)
(* through displacements and a table read from the flash by LPM or ELPM       *)
(* arrive whole whatever the RAM holds, however long the block is and however *)
(* it overlaps its source (so long as the direction suits), with both         *)
(* pointers behind it and every other cell of the window as it was            *)
(* (INST_LD_X to INST_STD_anyYZ, INST_LPM_*, setX, setY, setZ).               *)
THEOREM BlocksArrive == InstSpec => []BlocksCopied
<1>1. MemInv => BlocksCopied
  BY EndsHeld DEF Held, BlocksCopied
<1> QED BY <1>1, ProgramsProgress, PTL

(* A search by CPSE and RJMP ends behind the first cell that holds the value  *)
(* and not before, a cell that is rewritten unless it is equal ends equal,    *)
(* over a skipped instruction of one word or of two, and SBRC and SBRS agree  *)
(* on every bit                                                               *)
(* (INST_CPSE, INST_SBRC, INST_SBRS, INST_BRBS, INST_RJMP, setPC_Cycs_Skip).  *)
THEOREM LoopsTakeTheRightTurn == InstSpec => []LoopsDecide
<1>1. MemInv => LoopsDecide
  BY EndsHeld DEF Held, LoopsDecide
<1> QED BY <1>1, ProgramsProgress, PTL

(* A function that saves Y, makes room on the stack, points Y at it through   *)
(* SPL and SPH and undoes it all returns with Y and SP as they were and every *)
(* cell outside its frame untouched, wherever the stack is and across any     *)
(* 256-byte boundary (INST_PUSH, INST_POP, INST_MOVW, INST_LDS of SP).        *)
THEOREM FramesRestored == InstSpec => []FrameRestored
<1>1. MemInv => FrameRestored
  BY EndsHeld DEF Held, FrameRestored
<1> QED BY <1>1, ProgramsProgress, PTL

===============================================================================
