---------------------------- MODULE Disassembly ----------------------------
(***************************************************************************)
(* The walk of Disassembler::disassembleBinFile through a program: from    *)
(* the interrupt vectors, from every address the analytics have counted    *)
(* and from the caller's seeds, disasmRecurse follows the control flow and *)
(* lists each word it takes for an instruction.  Its recursion is the      *)
(* stack walk; flash is chosen word by word, when the walk first reads it. *)
(***************************************************************************)
EXTENDS Integers, SequencesExt

CONSTANTS Size,         \* of the flash in words
          Vectors,      \* the addresses the walk starts from first
          Seeds,        \* AdditionalDisasmInfo::additionalDisasmSeeds
          Codes,        \* words: <<kind, operand>>; a "plain" word read as the
                        \* second word of another gives the address operand
          Counts        \* sets of addresses Analytics may have counted

\* "lds" is LDS and STS, "skip" SBRC, SBRS, SBIC and SBIS, "br" BRBS and BRBC,
\* "ret" RET and RETI
Kinds == {"plain", "lds", "skip", "cpse", "jmp", "call", "rjmp", "rcall", "br", "ret"}
Addr == 0..(Size - 1)
Unread == <<"unread", 0>>

VARIABLES
  flash,        \* Addr -> word
  counted,      \* AdditionalDisasmInfo::analytics, the addresses counted
  roots,        \* the starts left to walk from
  walk,         \* disasmRecurse: the PC of every activation, innermost last
  lines,        \* DisasmData::lines, the addresses in the order of listing
  funcCalls     \* DisasmData::funcCalls
vars == <<flash, counted, roots, walk, lines, funcCalls>>

is2WordInst(w) == w[1] \in {"lds", "jmp", "call"}
Second(f, pc) == IF pc + 1 \in Addr /\ f[pc + 1][1] = "plain" THEN f[pc + 1][2] ELSE Size
Length(w) == IF is2WordInst(w) THEN 2 ELSE 1

\* mutant: relative to the instruction itself
getJumpDestsOfPC(f, pc) ==
  CASE f[pc][1] \in {"jmp", "call"} -> Second(f, pc)
    [] f[pc][1] \in {"rjmp", "br", "rcall"} -> pc + f[pc][2]
    [] f[pc][1] = "skip" -> pc + 2
    [] OTHER -> -1

\* where the UI draws an arrow to; -1 without one
getJumpDests(f, pc) ==
  CASE f[pc][1] \in {"jmp", "call"} -> Second(f, pc)
    [] f[pc][1] \in {"rjmp", "br", "rcall"} -> pc + f[pc][2] + 1
    [] f[pc][1] = "skip" -> pc + 2
    [] OTHER -> -1

Listed == Range(lines)
disasmed(pc) == pc \in Listed
\* mutant: a jump leaves the loop before its word is marked
PushUnlessJump(w, pc) == IF w[1] \in {"jmp", "rjmp"} THEN lines ELSE Append(lines, pc)
Push(w, pc) == Append(lines, pc)

-----------------------------------------------------------------------------
Init ==
  /\ flash = [a \in Addr |-> Unread]
  /\ counted \in Counts
  /\ roots = Vectors \o Seeds /\ walk = << >> /\ lines = << >> /\ funcCalls = {}

\* disassembleBinFile starts the next walk: from the vectors, from the counted
\* addresses that are not disassembled yet, then from the caller's seeds
Root ==
  /\ walk = << >>
  /\ LET pending == counted \ Listed
     IN  IF Len(roots) <= Len(Seeds) /\ pending # {}
         THEN walk' = <<Min(pending)>> /\ UNCHANGED roots
         ELSE roots # << >> /\ walk' = <<Head(roots)>> /\ roots' = Tail(roots)
  /\ UNCHANGED <<flash, counted, lines, funcCalls>>

\* reading a word of flash, the first time
Fetch ==
  /\ walk # << >>
  /\ LET pc == walk[Len(walk)]
         needed == {pc} \cup (IF pc \in Addr /\ is2WordInst(flash[pc]) THEN {pc + 1} ELSE {})
     IN  \E a \in {x \in needed \cap Addr : flash[x] = Unread} : \E w \in Codes :
           /\ is2WordInst(w) => a + 1 \in Addr /\ flash[a + 1][1] \in {"unread", "plain"}
           /\ a # pc => w[1] = "plain"     \* as the assembler emits it
           /\ flash' = [flash EXCEPT ![a] = w]
  /\ UNCHANGED <<counted, roots, walk, lines, funcCalls>>

\* The innermost activation is at a word it has to list
AtNewWord(pc) ==
  /\ walk # << >> /\ pc = walk[Len(walk)]
  /\ pc \in Addr /\ ~disasmed(pc) /\ flash[pc] # Unread
  /\ is2WordInst(flash[pc]) /\ pc + 1 \in Addr => flash[pc + 1] # Unread

\* where disasmRecurse calls itself from the word at pc, and where it goes on
Nowhere == -1000
\* mutant: CPSE is not among the skips, as in getJumpDests
RecursesWithoutCPSE(w, pc) ==
  CASE w[1] = "skip" -> pc + 2
    [] w[1] = "br" \/ (w[1] = "rcall" /\ w[2] # 0) -> pc + w[2] + 1
    [] w[1] = "call" -> Second(flash, pc)
    [] OTHER -> Nowhere
Recurses(w, pc) ==
  CASE w[1] \in {"skip", "cpse"} -> pc + 2
    [] w[1] = "br" \/ (w[1] = "rcall" /\ w[2] # 0) -> pc + w[2] + 1
    [] w[1] = "call" -> Second(flash, pc)
    [] OTHER -> Nowhere
GoesOn(w, pc) ==
  CASE w[1] = "jmp" -> Second(flash, pc)
    [] w[1] = "rjmp" -> pc + w[2] + 1
    [] OTHER -> pc + Length(w)

\* disasmRecurse, one turn of its loop: RET and RETI return; the caller of a
\* new activation is left at the PC it goes on with
List ==
  \E pc \in Addr :
    /\ AtNewWord(pc)
    /\ LET w == flash[pc]
           inside == Recurses(w, pc)
           self == [walk EXCEPT ![Len(walk)] = GoesOn(w, pc)]
       IN  /\ lines' = Push(w, pc)
           /\ walk' = IF w[1] = "ret" THEN Front(walk)
                      ELSE IF inside = Nowhere THEN self ELSE Append(self, inside)
           /\ funcCalls' = funcCalls \cup
                 IF w[1] \in {"call", "rcall"} /\ inside # Nowhere THEN {inside} ELSE {}
  /\ UNCHANGED <<flash, counted, roots>>

\* outside the flash, or at a word that is listed: the activation returns
Return ==
  /\ walk # << >>
  /\ LET pc == walk[Len(walk)] IN pc \notin Addr \/ disasmed(pc)
  /\ walk' = Front(walk)
  /\ UNCHANGED <<flash, counted, roots, lines, funcCalls>>

Finished == walk = << >> /\ roots = << >> /\ counted \subseteq Listed
Done == Finished /\ UNCHANGED vars

Next == Root \/ Fetch \/ List \/ Return \/ Done
Spec == Init /\ [][Next]_vars
FairSpec == Spec /\ WF_vars(Next)

-----------------------------------------------------------------------------
\* Where execution can go from pc, as InstHandler runs it: a skip steps over
\* two words when the skipped instruction has two, and a call comes back.
Successors(pc) ==
  LET w == flash[pc]
      on == pc + Length(w)
      over == IF on \in Addr THEN on + Length(flash[on]) ELSE on
  IN  CASE w[1] = "ret" -> {}
        [] w[1] = "jmp" -> {Second(flash, pc)}
        [] w[1] = "rjmp" -> {pc + w[2] + 1}
        [] w[1] \in {"br", "rcall"} -> {on, pc + w[2] + 1}
        [] w[1] = "call" -> {on, Second(flash, pc)}
        [] w[1] \in {"skip", "cpse"} -> {on, over}
        [] OTHER -> {on}

Starts == Range(Vectors \o Seeds) \cup counted

\* The finished listing holds every address that execution reaches from a
\* vector or a counted address by the jumps, branches, calls and skips of
\* InstHandler: it contains them and is closed under them.  (A skip in
\* disasmRecurse goes on at PC + 2 whatever it skips.)
CoversExecution ==
  Finished =>
    /\ Starts \cap Addr \subseteq Listed
    /\ \A pc \in Listed : Successors(pc) \cap Addr \subseteq Listed

\* Every arrow the UI draws (getJumpDests) ends on a line of the listing
\* (disasmRecurse), and the target of a call carries a function label.
ArrowsEndOnLines ==
  Finished =>
    \A pc \in Listed :
      /\ getJumpDests(flash, pc) \in Addr => getJumpDests(flash, pc) \in Listed
      /\ flash[pc][1] = "call" => getJumpDests(flash, pc) \in funcCalls

\* The walk ends, for every program with loops and recursive calls in it.
WalkEnds == <>Finished
=============================================================================
