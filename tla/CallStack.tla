------------------------------ MODULE CallStack ------------------------------
(***************************************************************************)
(* Calls, interrupts and the stack in RAM, and the shadow of it that the   *)
(* debugger keeps.                                                         *)
(*                                                                         *)
(* DataSpace pushes a return address as two bytes and tells the debugger,  *)
(* which marks them (1: low byte, 2: high byte) and pushes an entry on its *)
(* own call stack.  It is not told when a frame goes away.  It finds out   *)
(* at the next pop: every byte between the last stack address it heard of  *)
(* (lastSPRecived) and the popped one is unmarked, and each low byte among *)
(* them pops an entry.  OUT SPL/SPH moves the stack pointer behind its     *)
(* back.                                                                   *)
(*                                                                         *)
(* Addresses are relative to ISRAM_start.  The program is any one that     *)
(* keeps SP inside the RAM and returns from the frame it is in; Habits     *)
(* says what else it does with its stack.                                  *)
(***************************************************************************)
EXTENDS Integers, Sequences, FiniteSets

CONSTANTS
  Top,        \* SP_initaddr - ISRAM_start
  CodeTop,    \* last program address
  Entries,    \* where calls go
  Vector,     \* where interrupts go
  MaxShadow,  \* addressStackMaxSize
  Habits      \* "discard": pops return addresses; "drop": moves SP past frames

Code == 0..CodeTop

ASSUME StackAssumption ==
  /\ Top \in Nat /\ Top > 1
  /\ CodeTop \in Nat /\ Entries \subseteq Code /\ Vector \in Code
  /\ MaxShadow \in Nat
  /\ Habits \subseteq {"discard", "drop"}

VARIABLES
  pc, sp,
  ram,      \* what is on the stack (above SP): halves of return addresses,
            \* or data; what was popped counts as data
  inside,   \* CPU::insideInterrupt
  marks,    \* Debugger::addressStackIndicators
  shadow,   \* the first callStackPtr entries of Debugger::callStack
  lastSP,   \* Debugger::lastSPRecived
  fault,    \* an access outside Debugger::callStack
  live      \* history: the frames the program is in, as [base, intr]

vars == <<pc, sp, ram, inside, marks, shadow, lastSP, fault, live>>
debugger == <<marks, shadow, lastSP>>

Ram == 0..Top
Low(a) == <<"low", a>>
High(a) == <<"high", a>>
Cell == {<<"data">>} \cup {Low(a) : a \in Code} \cup {High(a) : a \in Code}
Frame == [base : Ram, intr : BOOLEAN]

(* Addresses stay inside the RAM and the debugger's arrays; lastSP is never *)
(* 0, below which registerStackDec would start at 65535 and find nothing.   *)
TypeOK ==
  /\ pc \in Code /\ sp \in Ram /\ ram \in [Ram -> Cell] /\ inside \in BOOLEAN
  /\ marks \in [Ram -> 0..2] /\ lastSP \in 1..Top
  /\ shadow \in Seq([to : Code, from : Code]) /\ Len(shadow) <= MaxShadow
  /\ fault \in {"none", "overflow", "underflow"}
  /\ live \in Seq(Frame)

Init ==
  /\ pc = 0 /\ sp = Top /\ inside = FALSE
  /\ ram = [i \in Ram |-> <<"data">>]
  /\ marks = [i \in Ram |-> 0]
  /\ shadow = <<>> /\ lastSP = Top
  /\ fault = "none" /\ live = <<>>

-----------------------------------------------------------------------------
(* The frames of the program. *)

TopBase == IF live = <<>> THEN Top + 2 ELSE live[Len(live)].base

(* Nothing of the innermost return address has been popped. *)
Settled == sp <= TopBase - 2

(* What is on the stack when the stack pointer is at s: nothing reads a    *)
(* byte at or below it before writing it.                                  *)
Above(s) == [i \in Ram |-> IF i > s THEN ram[i] ELSE <<"data">>]

(* The frames left when the stack pointer is at s. *)
Kept(s) ==
  SubSeq(live, 1, Cardinality({k \in 1..Len(live) : live[k].base > s}))

-----------------------------------------------------------------------------
(* The debugger. *)

(* registerAddressBytes and pushPCOnCallStack, as a call or an interrupt   *)
(* that goes from the instruction at pc to address to performs them.       *)
EnterShadow(to) ==
  /\ marks' = [marks EXCEPT ![sp] = 1, ![sp - 1] = 2]
  /\ lastSP' = sp
  /\ IF Len(shadow) < MaxShadow
       THEN shadow' = Append(shadow, [to |-> to, from |-> pc]) /\ UNCHANGED fault
       ELSE fault' = "overflow" /\ UNCHANGED shadow

(* popPCFromCallStack for each of n low bytes. *)
PopEntries(n) ==
  IF n <= Len(shadow)
    THEN shadow' = SubSeq(shadow, 1, Len(shadow) - n) /\ UNCHANGED fault
    ELSE fault' = "underflow" /\ shadow' = <<>>

Calls(bytes) == Cardinality({i \in bytes : marks[i] = 1})
Unmarked(bytes) == [i \in Ram |-> IF i \in bytes THEN 0 ELSE marks[i]]

(* Mutant: the bytes stay marked. *)
RegisterStackDecMarked(addr) ==
  /\ PopEntries(Calls((lastSP - 1)..addr))
  /\ lastSP' = addr
  /\ UNCHANGED marks

(* Mutant: starts behind the last address it heard of. *)
RegisterStackDecAbove(addr) ==
  /\ PopEntries(Calls((lastSP + 1)..addr))
  /\ marks' = Unmarked((lastSP + 1)..addr)
  /\ lastSP' = addr

(* Mutant: remembers the byte below. *)
RegisterStackDecBelow(addr) ==
  /\ PopEntries(Calls((lastSP - 1)..addr))
  /\ marks' = Unmarked((lastSP - 1)..addr)
  /\ lastSP' = addr - 1

(* The stack is popped up to and including the byte at addr. *)
RegisterStackDec(addr) ==
  /\ PopEntries(Calls((lastSP - 1)..addr))
  /\ marks' = Unmarked((lastSP - 1)..addr)
  /\ lastSP' = addr

-----------------------------------------------------------------------------
(* The program. *)

(* pushAddrToStack(resume), the entry in the call stack, and the jump. *)
Enter(to, resume, intr) ==
  /\ fault = "none" /\ sp >= 2
  /\ ram' = [ram EXCEPT ![sp] = Low(resume), ![sp - 1] = High(resume)]
  /\ sp' = sp - 2
  /\ EnterShadow(to)
  /\ pc' = to
  /\ live' = Append(live, [base |-> sp, intr |-> intr])

(* CALL (two words), RCALL, ICALL, EICALL. *)
Call ==
  \E to \in Entries, len \in 1..2 :
    /\ Settled /\ pc + len \in Code
    /\ Enter(to, pc + len, FALSE)
    /\ UNCHANGED inside

(* directExecuteInterrupt, between two instructions. *)
Interrupt == Enter(Vector, pc, TRUE) /\ inside' = TRUE

(* popAddrFromStack, and the jump. *)
Leave(intr) ==
  /\ fault = "none" /\ sp = TopBase - 2
  /\ live # <<>> /\ live[Len(live)].intr = intr
  /\ \E a \in Code : ram[sp + 2] = Low(a) /\ ram[sp + 1] = High(a) /\ pc' = a
  /\ RegisterStackDec(sp + 2)
  /\ sp' = sp + 2
  /\ ram' = Above(sp')
  /\ live' = SubSeq(live, 1, Len(live) - 1)

Ret == Leave(FALSE) /\ UNCHANGED inside
Reti == Leave(TRUE) /\ inside' = FALSE

Push ==
  /\ fault = "none" /\ Settled /\ sp >= 1
  /\ ram' = [ram EXCEPT ![sp] = <<"data">>]
  /\ sp' = sp - 1
  /\ UNCHANGED <<pc, inside, debugger, fault, live>>

Pop ==
  /\ fault = "none" /\ sp < Top
  /\ \/ sp + 1 <= TopBase - 2
     \/ "discard" \in Habits /\ live # <<>> /\ ~live[Len(live)].intr
  /\ RegisterStackDec(sp + 1)
  /\ sp' = sp + 1
  /\ ram' = Above(sp')
  /\ live' = Kept(sp')
  /\ UNCHANGED <<pc, inside>>

(* OUT SPH, SPL, with interrupts off between them: reserve or free local   *)
(* variables, or longjmp.                                                  *)
OutSP ==
  \E s \in Ram \ {sp} :
    /\ fault = "none" /\ Settled
    /\ s <= TopBase - 2 \/ "drop" \in Habits
    /\ sp' = s
    /\ ram' = Above(s)
    /\ live' = Kept(s)
    /\ UNCHANGED <<pc, inside, debugger, fault>>

Jump ==
  /\ fault = "none"
  /\ pc' \in Code
  /\ UNCHANGED <<sp, ram, inside, debugger, fault, live>>

(* Mutant: the reset forgets insideInterrupt. *)
ResetInside ==
  /\ fault = "none"
  /\ pc' = 0 /\ sp' = Top
  /\ ram' = [i \in Ram |-> <<"data">>]
  /\ marks' = [i \in Ram |-> 0]
  /\ shadow' = <<>> /\ live' = <<>>
  /\ UNCHANGED <<inside, lastSP, fault>>

(* ATmega32u4::reset; lastSPRecived is left as it is. *)
Reset ==
  /\ fault = "none"
  /\ pc' = 0 /\ sp' = Top /\ inside' = FALSE
  /\ ram' = [i \in Ram |-> <<"data">>]
  /\ marks' = [i \in Ram |-> 0]
  /\ shadow' = <<>> /\ live' = <<>>
  /\ UNCHANGED <<lastSP, fault>>

Next ==
  Call \/ Interrupt \/ Ret \/ Reti \/ Push \/ Pop \/ OutSP \/ Jump \/ Reset

Spec == Init /\ [][Next]_vars

-----------------------------------------------------------------------------
(* The entries shown, with the return address each one has in RAM. *)
Shown ==
  [k \in 1..Len(shadow) |->
     [to |-> shadow[k].to, from |-> shadow[k].from,
      resume |-> IF k <= Len(live) THEN ram[live[k].base][2] ELSE 0]]

Frames == INSTANCE CallFrames WITH frames <- Shown, depth <- Len(live)

(* The debugger's call stack, which learns of a return only from the bytes *)
(* that are popped, shows at every instruction the calls and interrupts    *)
(* the program is in, and each return resumes where its entry says:        *)
(* however handlers nest, whatever locals and registers lie between the    *)
(* frames, whether a frame is left by RET or its address is popped as      *)
(* data, and after a reset in the middle of it.                            *)
ShowsTheFrames == Frames!Spec

(* While insideInterrupt is set there is an interrupt to return from. *)
InsideHasFrame == inside => \E k \in 1..Len(live) : live[k].intr

(* Even a program that throws whole stacks away (longjmp) never makes the  *)
(* debugger pop an entry it does not have, nor hide a call that is still   *)
(* on the stack: stale marks can only make it show too many.               *)
NeverTooShallow == fault # "underflow" /\ Len(live) <= Len(shadow)
=============================================================================
