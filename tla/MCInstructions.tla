--------------------------- MODULE MCInstructions ---------------------------
(***************************************************************************)
(* The instruction set in one run: the arithmetic of the instruction       *)
(* bodies, their loads, stores and skips, the decoding of every word, and  *)
(* the disassembler's walk through small programs.  A behaviour runs one   *)
(* of the four; the others stay where they start.                          *)
(***************************************************************************)
EXTENDS Decoder

CONSTANTS Bytes, FlagStates, Window, Fills, Table, MaxLen, Size, Vectors, Seeds, Codes, Counts

VARIABLES part, R, sreg, program, pc, R0, sreg0,
          mdata, msreg, mprogram, mpc, mdata0,
          flash, counted, roots, walk, lines, funcCalls

\* all flags clear, all set, and C, V and T alone
MCFlagStates == {[flag \in {"C", "Z", "N", "V", "S", "H", "T"} |-> flag \in set] :
                   set \in {{}, {"C", "Z", "N", "V", "S", "H", "T"}, {"C", "V", "T"}}}
MCVectors == <<0, 2>>
MCSeeds == <<4>>
MCCounts == {{}, {3}}
\* a plain word read as an operand is an address; both are inside the flash
MCCodes == {<<"plain", 0>>, <<"plain", 3>>, <<"cpse", 0>>, <<"skip", 0>>,
            <<"lds", 0>>, <<"jmp", 0>>, <<"call", 0>>, <<"ret", 0>>, <<"rjmp", -2>>,
            <<"br", -3>>, <<"br", 1>>, <<"rcall", 0>>, <<"rcall", 1>>}

MCFills == {[a \in Window |-> a % 5], [a \in Window |-> (a \div 2) % 4]}
MCTable == [a \in 254..257 |-> a - 250]

Alu == INSTANCE AluPrograms
Mem == INSTANCE Memory WITH data <- mdata, sreg <- msreg, program <- mprogram,
                            pc <- mpc, data0 <- mdata0
Dis == INSTANCE Disassembly

\* The window is a piece of the RAM, which starts at 256; a block's length is a byte; the flash
\* has less than 64 KiB
ASSUME MemoryAssumption ==
  /\ \E low, high \in Window : Window = low..high /\ low >= 256 /\ high < 65535
  /\ Fills \subseteq [Window -> Mem!Byte] /\ MaxLen \in 1..255
ASSUME TableAssumption == \A a \in DOMAIN Table : a \in Nat /\ a < 65535 /\ Table[a] \in Mem!Byte

\* Bytes are bytes, flags are flags; the walk starts at addresses, its words have the kinds it
\* tells apart, and a word read as an address is one
ASSUME InstructionsAssumption ==
  /\ Bytes \subseteq Alu!Byte /\ FlagStates \subseteq Alu!Flags
  /\ Size \in Nat /\ Vectors \in Seq(Nat) /\ Seeds \in Seq(Nat)
  /\ \A addrs \in Counts : addrs \subseteq Dis!Addr
  /\ \A w \in Codes : w \in Dis!Kinds \X Int /\ (w[1] = "plain" => w[2] \in Nat)

aluVars == <<R, sreg, program, pc, R0, sreg0>>
memVars == <<mdata, msreg, mprogram, mpc, mdata0>>
decVars == <<word>>
disVars == <<flash, counted, roots, walk, lines, funcCalls>>

InstInit == /\ part \in {"bodies", "memory", "decoder", "walk"}
            /\ Alu!Init /\ Mem!Init /\ Init /\ Dis!Init
Bodies == part = "bodies" /\ Alu!Next /\ UNCHANGED <<part, memVars, decVars, disVars>>
Moving == part = "memory" /\ Mem!Next /\ UNCHANGED <<part, aluVars, decVars, disVars>>
Decoding == part = "decoder" /\ Next /\ UNCHANGED <<part, aluVars, memVars, disVars>>
Walking == part = "walk" /\ Dis!Next /\ UNCHANGED <<part, aluVars, memVars, decVars>>
InstNext == Bodies \/ Moving \/ Decoding \/ Walking
InstSpec == InstInit /\ [][InstNext]_<<part, aluVars, memVars, decVars, disVars>>
              /\ WF_<<part, disVars>>(Walking)

\* AluPrograms: 16-bit sums, their carry and overflow
SumCarries == Alu!SumCarries
\* AluPrograms: the branches after a 16-bit subtraction or comparison
CompareOrders == Alu!CompareOrders
\* AluPrograms: negations, shifts, tests and masks of a register pair
BitsOfWords == Alu!BitsOfWords
\* AluPrograms: 32-bit products of words out of byte products
Products == Alu!Products
\* AluPrograms: SREG saved and restored by an interrupt handler
FlagsSurvive == Alu!FlagsSurvive
\* Memory: blocks copied through any pointers, and tables from flash
BlocksCopied == Mem!BlocksCopied
\* Memory: searches, conditional updates and bit tests by skips
LoopsDecide == Mem!LoopsDecide
\* Memory: a frame on the stack built and left
FrameRestored == Mem!FrameRestored
\* Disassembly: the listing is closed under the control flow of execution
CoversExecution == Dis!CoversExecution
\* Disassembly: jump arrows end on lines, call targets are labelled
ArrowsEndOnLines == Dis!ArrowsEndOnLines
\* Disassembly: the walk of every program ends
WalkEnds == part = "walk" => Dis!WalkEnds
=============================================================================
