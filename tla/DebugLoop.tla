------------------------------ MODULE DebugLoop ------------------------------
(***************************************************************************)
(* The debugger's control of the execution loop: execute4T<true>, which    *)
(* asks checkBreakpoints before each instruction, and execute4T<false>,    *)
(* which does not, in the output mode Passthrough (the host shows the      *)
(* state and calls halt, step and continue_).                              *)
(*                                                                         *)
(* halted alone stops nothing: the top of the outer loop sends the host    *)
(* its slice back when halted is set and no step is due, and inside a      *)
(* batch of instructions it is checkBreakpoints that refuses one and sets  *)
(* bit 63 to leave.  A step runs with halted set.  To continue from a      *)
(* breakpoint, continue_ notes the cycle, at which the breakpoint under    *)
(* the PC is passed over.                                                  *)
(*                                                                         *)
(* Timers are abstract: a pass runs one instruction or a batch up to any   *)
(* deadline, and may end with an interrupt.  ExecLoop has them in full.    *)
(***************************************************************************)
EXTENDS Integers

CONSTANTS
  Code,       \* program addresses
  Vector,     \* where interrupts go
  Cycles,     \* cycles an instruction may take
  Slices,     \* amounts the host may ask execute for
  MaxTotal,   \* bounds the cycles asked for
  Rehalt      \* the host may call halt right after continue_

ASSUME DebugAssumption ==
  /\ 0 \in Code /\ Vector \in Code
  /\ Cycles \subseteq Nat \ {0} /\ Slices \subseteq Nat \ {0}
  /\ MaxTotal \in Nat /\ Rehalt \in BOOLEAN

WakeCycles == 5

VARIABLES
  pc, sleep,
  total, brk,     \* totalCycls and its bit 63
  target,
  loop,           \* idle, outer, inner (a batch), one, end (of a pass)
  amt, dbg,       \* arguments of the call of execute
  currTarget,
  halted, doStep,
  skip,           \* skipCycs
  breakpoints,
  resumed,        \* history: how the host resumed here, nothing has run since
  stepped         \* history: the step the host asked for has been taken

cpu == <<pc, sleep, total>>
slice == <<target, amt, dbg>>
debugger == <<halted, doStep, skip, breakpoints>>
history == <<resumed, stepped>>
vars == <<cpu, slice, debugger, history, brk, loop, currTarget>>

None == -1   \* skipCycs == (uint64_t)-1

Init ==
  /\ pc = 0 /\ sleep = FALSE /\ total = 0 /\ brk = FALSE
  /\ target = 0 /\ loop = "idle" /\ amt = 0 /\ dbg = FALSE /\ currTarget = 0
  /\ halted = FALSE /\ doStep = FALSE /\ skip = None /\ breakpoints = {}
  /\ resumed = "no" /\ stepped = FALSE

-----------------------------------------------------------------------------
(* The host.  It steps and continues a machine it has halted, and gives a   *)
(* step to a debugging slice.                                               *)

Idle == loop = "idle"

(* execShouldReturn is why nothing happens when halted with no step due.    *)
Execute ==
  \E a \in Slices, d \in BOOLEAN :
    /\ Idle /\ target + a <= MaxTotal
    /\ d => ~(halted /\ ~doStep)
    /\ doStep => d
    /\ target' = target + a /\ amt' = a /\ dbg' = d
    /\ brk' = FALSE /\ loop' = "outer"
    /\ UNCHANGED <<cpu, debugger, history, currTarget>>

Halt ==
  /\ Idle /\ (Rehalt \/ resumed # "continue")
  /\ halted' = TRUE /\ doStep' = FALSE /\ brk' = TRUE
  /\ resumed' = "no"
  /\ UNCHANGED <<cpu, slice, skip, breakpoints, stepped, loop, currTarget>>

Step ==
  /\ Idle /\ halted
  /\ doStep' = TRUE
  /\ resumed' = "step" /\ stepped' = FALSE
  /\ UNCHANGED <<cpu, slice, halted, skip, breakpoints, brk, loop, currTarget>>

(* Mutant: does not remember where. *)
ContinueHere ==
  /\ Idle /\ halted /\ ~doStep
  /\ halted' = FALSE
  /\ resumed' = "continue" /\ stepped' = FALSE
  /\ UNCHANGED <<cpu, slice, skip, doStep, breakpoints, brk, loop, currTarget>>

Continue ==
  /\ Idle /\ halted /\ ~doStep
  /\ halted' = FALSE /\ skip' = total
  /\ resumed' = "continue" /\ stepped' = FALSE
  /\ UNCHANGED <<cpu, slice, doStep, breakpoints, brk, loop, currTarget>>

SetBreakpoint ==
  /\ Idle
  /\ \E p \in Code \ breakpoints : breakpoints' = breakpoints \cup {p}
  /\ UNCHANGED <<cpu, slice, halted, doStep, skip, history, brk, loop, currTarget>>

ClearBreakpoint ==
  /\ Idle
  /\ \E p \in breakpoints : breakpoints' = breakpoints \ {p}
  /\ UNCHANGED <<cpu, slice, halted, doStep, skip, history, brk, loop, currTarget>>

(* Breakpoints outlive a reset. *)
Reset ==
  /\ Idle
  /\ halted' = FALSE /\ doStep' = FALSE /\ skip' = None
  /\ pc' = 0 /\ sleep' = FALSE /\ total' = 0 /\ brk' = FALSE /\ target' = 0
  /\ resumed' = "no" /\ stepped' = FALSE
  /\ UNCHANGED <<amt, dbg, breakpoints, loop, currTarget>>

-----------------------------------------------------------------------------
(* The loop. *)

HaltedNow == halted /\ ~doStep

EndSlice ==
  /\ loop = "outer" /\ total >= target
  /\ loop' = "idle"
  /\ UNCHANGED <<cpu, slice, debugger, history, brk, currTarget>>

HaltedReturn ==
  /\ loop = "outer" /\ total < target /\ HaltedNow
  /\ target' = IF target - amt > total THEN target - amt ELSE total
  /\ loop' = "idle"
  /\ UNCHANGED <<cpu, amt, dbg, debugger, history, brk, currTarget>>

Pass == loop = "outer" /\ total < target /\ ~HaltedNow

(* directExecuteInterrupt, c cycles later. *)
Interrupted(c) ==
  /\ pc' = Vector /\ sleep' = FALSE
  /\ total' = total + c + (IF sleep THEN WakeCycles ELSE 0)
  /\ resumed' = IF resumed = "step" THEN "step" ELSE "no"
  /\ UNCHANGED stepped

SleepPass ==
  /\ Pass /\ sleep
  /\ \E c \in 1..(target - total) :
       \/ Interrupted(c)
       \/ total' = total + c /\ UNCHANGED <<pc, sleep, history>>
  /\ UNCHANGED <<slice, debugger, brk, loop, currTarget>>

(* Timer 0 stopped or at prescaler 1, or a batch up to its deadline. *)
StartPass ==
  /\ Pass /\ ~sleep
  /\ \/ loop' = "one" /\ UNCHANGED currTarget
     \/ loop' = "inner" /\ currTarget' \in (total + 1)..target
  /\ UNCHANGED <<cpu, slice, debugger, history, brk>>

EndPass ==
  /\ \/ loop = "end"
     \/ loop = "inner" /\ (brk \/ total >= currTarget)
  /\ brk' = FALSE /\ loop' = "outer"
  /\ Interrupted(0) \/ UNCHANGED <<cpu, history>>
  /\ UNCHANGED <<slice, debugger, currTarget>>

CanFetch == loop = "one" \/ (loop = "inner" /\ ~brk /\ total < currTarget)

AfterInst == loop' = IF loop = "one" THEN "end" ELSE "inner"

-----------------------------------------------------------------------------
(* checkBreakpoints and, when it applies, doHaltActions. *)

(* Mutant: a breakpoint under the PC is passed over after any continue_. *)
PassesAfterContinue == doStep \/ skip # None

(* Mutant: asked at breakpoints only. *)
CheckedAtBreakpoints == dbg /\ pc \in breakpoints

Checked == dbg /\ (pc \in breakpoints \/ halted)
Passes == doStep \/ skip = total

(* Mutant: stops without leaving the batch. *)
StopInBatch ==
  /\ CanFetch /\ Checked /\ ~Passes
  /\ doStep' = FALSE /\ halted' = TRUE
  /\ AfterInst
  /\ UNCHANGED <<cpu, slice, skip, breakpoints, history, brk, currTarget>>

(* doHaltActions returns true and the fetch returns (0, 0). *)
Stop ==
  /\ CanFetch /\ Checked /\ ~Passes
  /\ doStep' = FALSE /\ halted' = TRUE /\ brk' = TRUE
  /\ AfterInst
  /\ UNCHANGED <<cpu, slice, skip, breakpoints, history, currTarget>>

(* An instruction runs; haltsAgain is BREAK and whatever calls executeError.*)
Inst(haltsAgain, sleeps) ==
  /\ CanFetch /\ (Checked => Passes)
  /\ \E c \in Cycles : total' = total + c
  /\ pc' \in Code
  /\ sleep' = sleeps
  /\ halted' = (haltsAgain \/ IF Checked THEN skip # total ELSE halted)
  /\ doStep' = (doStep /\ ~Checked /\ ~haltsAgain)
  /\ brk' = (brk \/ Checked \/ haltsAgain \/ sleeps)
  /\ AfterInst
  /\ resumed' = "no" /\ stepped' = (stepped \/ resumed = "step")
  /\ UNCHANGED <<slice, skip, breakpoints, currTarget>>

Plain == Inst(FALSE, FALSE)
Break == Inst(TRUE, FALSE)
Sleep == Inst(FALSE, TRUE)

Instruction == Plain \/ Break \/ Sleep

Emulate ==
  \/ EndSlice \/ HaltedReturn \/ SleepPass \/ StartPass \/ EndPass
  \/ Stop \/ Instruction

Next ==
  \/ Execute \/ Halt \/ Step \/ Continue \/ SetBreakpoint \/ ClearBreakpoint
  \/ Reset \/ Emulate

Spec == Init /\ [][Next]_vars
FairSpec == Spec /\ WF_vars(Emulate)

-----------------------------------------------------------------------------
(* A debugging slice runs the instruction under a breakpoint only if the    *)
(* host has seen the machine stopped there and resumed it: no batch, sleep, *)
(* interrupt, earlier continue_ or slice boundary lets it slip through.     *)
NoOverrun ==
  [][Instruction /\ dbg /\ pc \in breakpoints => resumed # "no"]_vars

(* One step runs one instruction, over however many slices: the next one    *)
(* runs only when the host asks again.                                      *)
StepOnce == [][Instruction => ~stepped]_vars

(* continue_ gets the machine off the breakpoint it is at: it does not halt *)
(* again before it has moved.                                               *)
ContinueMoves == resumed = "continue" => ~halted

(* Every call of execute returns, also when it stops in a batch.            *)
ExecuteReturns == ~Idle ~> Idle
=============================================================================
