--------------------------- MODULE DebugLoop_proofs ---------------------------
(***************************************************************************)
(* Breakpoints, steps and continue_ do what they say, for every program,   *)
(* set of breakpoints, slicing and placement of interrupts, with a host    *)
(* that does not halt a machine it has just continued.                     *)
(***************************************************************************)
EXTENDS DebugLoop, TLAPS

Types ==
  /\ total \in Nat /\ target \in Int /\ amt \in Nat /\ currTarget \in Int
  /\ skip \in Nat \cup {None}
  /\ loop \in {"idle", "outer", "inner", "one", "end"}
  /\ resumed \in {"no", "step", "continue"}
  /\ sleep \in BOOLEAN /\ brk \in BOOLEAN /\ dbg \in BOOLEAN
  /\ halted \in BOOLEAN /\ doStep \in BOOLEAN /\ stepped \in BOOLEAN

(* The noted cycle is the present one only until the machine moves. *)
SkipsOnce ==
  /\ skip <= total
  /\ skip = total => resumed = "continue"
  /\ resumed = "continue" => ~halted /\ (skip = total \/ sleep)

(* Bit 63 is clear where it is compared, and whoever set it has moved. *)
BreakOut ==
  /\ loop = "outer" => ~brk
  /\ loop = "end" => resumed # "continue"
  /\ loop = "inner" /\ resumed = "continue" => ~brk /\ total < currTarget
  /\ CanFetch => ~sleep

(* A step that is due runs checked; once taken it leaves the machine halted. *)
StepsOnce ==
  /\ doStep <=> resumed = "step"
  /\ resumed = "step" => halted /\ (~Idle => dbg)
  /\ stepped => /\ halted /\ ~doStep
                /\ loop # "one" /\ (loop = "inner" => brk)

Control == Types /\ SkipsOnce /\ BreakOut /\ StepsOnce

LEMMA InitControl ==
  ASSUME Init
  PROVE  Control
<1>1. Types
  <2>1. total \in Nat /\ target \in Int /\ amt \in Nat /\ currTarget \in Int
    BY DEF Init
  <2>2. skip \in Nat \cup {None}
    BY DEF Init
  <2>3. loop = "idle" /\ resumed = "no"
    BY DEF Init
  <2>4. /\ sleep \in BOOLEAN /\ brk \in BOOLEAN /\ dbg \in BOOLEAN
        /\ halted \in BOOLEAN /\ doStep \in BOOLEAN /\ stepped \in BOOLEAN
    BY DEF Init
  <2> QED BY <2>1, <2>2, <2>3, <2>4 DEF Types
<1>2. SkipsOnce
  BY DEF Init, SkipsOnce, None
<1>3. BreakOut
  BY DEF Init, BreakOut, CanFetch
<1>4. StepsOnce
  BY DEF Init, StepsOnce, Idle
<1> QED BY <1>1, <1>2, <1>3, <1>4 DEF Control

LEMMA HostControl ==
  ASSUME Control, ~Rehalt,
         \/ Execute \/ Halt \/ Step \/ Continue
         \/ SetBreakpoint \/ ClearBreakpoint \/ Reset
  PROVE  Control'
<1> USE DEF Control, Types, SkipsOnce, BreakOut, StepsOnce, None, CanFetch,
            Idle, cpu, slice, debugger, history
<1>1. CASE Execute
  <2>1. Types'
    <3>1. PICK a \in Slices, d \in BOOLEAN :
            /\ target' = target + a /\ amt' = a /\ dbg' = d
            /\ brk' = FALSE /\ loop' = "outer"
      BY <1>1 DEF Execute
    <3>2. a \in Nat
      BY DebugAssumption
    <3>3. /\ UNCHANGED <<total, sleep, halted, doStep, skip, currTarget>>
          /\ UNCHANGED <<resumed, stepped>>
      BY <1>1 DEF Execute
    <3>4. dbg' \in BOOLEAN
      BY <3>1
    <3>5. target' \in Int /\ amt' \in Nat
      BY <3>1, <3>2
    <3>6. brk' \in BOOLEAN /\ loop' = "outer"
      BY <3>1
    <3> QED BY <3>3, <3>4, <3>5, <3>6
  <2>2. SkipsOnce'
    BY <1>1 DEF Execute
  <2>3. BreakOut'
    BY <1>1 DEF Execute
  <2>4. StepsOnce'
    BY <1>1 DEF Execute
  <2> QED BY <2>1, <2>2, <2>3, <2>4
<1>2. CASE Halt
  <2>1. Types'
    BY <1>2 DEF Halt
  <2>2. SkipsOnce'
    BY <1>2 DEF Halt
  <2>3. BreakOut'
    BY <1>2 DEF Halt
  <2>4. StepsOnce'
    BY <1>2 DEF Halt
  <2> QED BY <2>1, <2>2, <2>3, <2>4
<1>3. CASE Step
  <2>1. Types'
    BY <1>3 DEF Step
  <2>2. SkipsOnce'
    BY <1>3 DEF Step
  <2>3. BreakOut'
    BY <1>3 DEF Step
  <2>4. StepsOnce'
    BY <1>3 DEF Step
  <2> QED BY <2>1, <2>2, <2>3, <2>4
<1>4. CASE Continue
  <2>1. Types'
    BY <1>4 DEF Continue
  <2>2. SkipsOnce'
    BY <1>4 DEF Continue
  <2>3. BreakOut'
    BY <1>4 DEF Continue
  <2>4. StepsOnce'
    BY <1>4 DEF Continue
  <2> QED BY <2>1, <2>2, <2>3, <2>4
<1>5. CASE SetBreakpoint
  BY <1>5 DEF SetBreakpoint
<1>6. CASE ClearBreakpoint
  BY <1>6 DEF ClearBreakpoint
<1>7. CASE Reset
  <2>1. Types'
    <3>1. total' \in Nat /\ target' \in Int /\ amt' \in Nat /\ currTarget' \in Int
      BY <1>7 DEF Reset
    <3>2. skip' \in Nat \cup {None}
      BY <1>7 DEF Reset
    <3>3. loop' = loop /\ resumed' = "no" /\ dbg' = dbg
      BY <1>7 DEF Reset
    <3>4. /\ sleep' = FALSE /\ brk' = FALSE /\ halted' = FALSE
          /\ doStep' = FALSE /\ stepped' = FALSE
      BY <1>7 DEF Reset
    <3> QED BY <3>1, <3>2, <3>3, <3>4
  <2>2. SkipsOnce'
    BY <1>7 DEF Reset
  <2>3. BreakOut'
    BY <1>7 DEF Reset
  <2>4. StepsOnce'
    BY <1>7 DEF Reset
  <2> QED BY <2>1, <2>2, <2>3, <2>4
<1> QED BY <1>1, <1>2, <1>3, <1>4, <1>5, <1>6, <1>7

LEMMA InstControl ==
  ASSUME Control, NEW h \in BOOLEAN, NEW s \in BOOLEAN, Inst(h, s)
  PROVE  Control'
<1> USE DEF Control, Types
<1>1. PICK c \in Cycles : total' = total + c
  BY DEF Inst
<1>2. c \in Nat /\ c > 0 /\ total' \in Nat /\ total' > total
  BY <1>1, DebugAssumption
<1>3. CanFetch /\ (Checked => Passes)
  BY DEF Inst
<1>4. skip' = skip /\ resumed' = "no" /\ sleep' = s
  BY DEF Inst
<1>5. SkipsOnce'
  BY <1>2, <1>4 DEF SkipsOnce, None
<1>6. loop' \in {"inner", "end"} /\ (loop = "one" => loop' = "end")
      /\ (loop = "inner" => loop' = "inner" /\ ~brk)
  BY <1>3 DEF Inst, AfterInst, CanFetch
<1>7. brk' = (brk \/ Checked \/ h \/ s)
  BY DEF Inst
<1>8. BreakOut'
  BY <1>4, <1>6, <1>7 DEF BreakOut, CanFetch, Checked
<1>9. CASE resumed = "step"
  <2>1. Checked /\ skip # total
    BY <1>3, <1>9 DEF StepsOnce, SkipsOnce, Checked, CanFetch, Idle
  <2>2. halted' = TRUE /\ doStep' = FALSE /\ brk' = TRUE
    BY <1>7, <2>1 DEF Inst
  <2>3. StepsOnce'
    BY <1>4, <1>6, <2>2 DEF StepsOnce
  <2>4. Types'
    BY <1>2, <1>4, <1>6, <2>2 DEF Inst, slice
  <2> QED BY <1>5, <1>8, <2>3, <2>4
<1>10. CASE resumed # "step"
  <2>1. doStep = FALSE /\ stepped = FALSE
    BY <1>3, <1>10 DEF StepsOnce, CanFetch
  <2>2. doStep' = FALSE /\ stepped' = FALSE
    BY <1>10, <2>1 DEF Inst
  <2>3. StepsOnce'
    BY <1>4, <2>2 DEF StepsOnce
  <2>4. halted' \in BOOLEAN /\ brk' \in BOOLEAN
    BY DEF Inst, Checked
  <2>5. Types'
    BY <1>2, <1>4, <1>6, <2>2, <2>4 DEF Inst, slice
  <2> QED BY <1>5, <1>8, <2>3, <2>5
<1> QED BY <1>9, <1>10

LEMMA StopControl ==
  ASSUME Control, Stop
  PROVE  Control'
<1>1. resumed # "continue"
  BY DEF Stop, Passes, Control, SkipsOnce, BreakOut
<1>2. skip # total /\ ~doStep
  BY DEF Stop, Passes
<1>3. loop' \in {"inner", "end"}
  BY DEF Stop, AfterInst
<1>4. Types' /\ SkipsOnce'
  BY <1>1, <1>2, <1>3 DEF Stop, Control, Types, SkipsOnce, cpu, slice, history
<1>5. BreakOut' /\ StepsOnce'
  BY <1>1, <1>2, <1>3
     DEF Stop, Control, Types, BreakOut, StepsOnce, CanFetch, cpu, slice, history
<1> QED BY <1>4, <1>5 DEF Control

LEMMA PassControl ==
  ASSUME Control,
         EndSlice \/ HaltedReturn \/ SleepPass \/ StartPass \/ EndPass
  PROVE  Control'
<1> USE DEF Control, Types, SkipsOnce, BreakOut, StepsOnce, None, CanFetch,
            Idle, cpu, slice, debugger, history
<1>1. CASE EndSlice
  BY <1>1 DEF EndSlice
<1>2. CASE HaltedReturn
  BY <1>2 DEF HaltedReturn
<1>3. CASE SleepPass
  <2>1. PICK c \in 1..(target - total) :
          \/ Interrupted(c)
          \/ total' = total + c /\ UNCHANGED <<pc, sleep, history>>
    BY <1>3 DEF SleepPass
  <2>2. sleep /\ loop = "outer" /\ ~HaltedNow /\ c \in Nat /\ c > 0
    BY <1>3 DEF SleepPass, Pass
  <2>3. UNCHANGED <<slice, debugger, brk, loop, currTarget>>
    BY <1>3 DEF SleepPass
  <2>4. CASE Interrupted(c)
    <3>1. Types'
      <4>1. total' \in Nat
        BY <2>2, <2>4 DEF Interrupted, WakeCycles
      <4>2. resumed' \in {"no", "step"} /\ sleep' = FALSE /\ stepped' = stepped
        BY <2>4 DEF Interrupted
      <4> QED BY <2>3, <4>1, <4>2
    <3>2. SkipsOnce'
      BY <2>2, <2>3, <2>4 DEF Interrupted, WakeCycles
    <3>3. BreakOut'
      BY <2>2, <2>3, <2>4 DEF Interrupted, WakeCycles
    <3>4. StepsOnce'
      BY <2>2, <2>3, <2>4 DEF Interrupted, WakeCycles
    <3> QED BY <3>1, <3>2, <3>3, <3>4
  <2>5. CASE total' = total + c /\ UNCHANGED <<pc, sleep, history>>
    BY <2>2, <2>3, <2>5
  <2> QED BY <2>1, <2>4, <2>5
<1>4. CASE StartPass
  BY <1>4 DEF StartPass, Pass, HaltedNow
<1>5. CASE EndPass
  <2>1. resumed # "continue"
    BY <1>5 DEF EndPass
  <2>2. brk' = FALSE /\ loop' = "outer" /\ loop \in {"inner", "end"}
        /\ UNCHANGED <<slice, debugger, currTarget>>
    BY <1>5 DEF EndPass
  <2>3. CASE Interrupted(0)
    <3>1. Types'
      <4>1. total' \in Nat
        BY <2>3 DEF Interrupted, WakeCycles
      <4>2. resumed' \in {"no", "step"} /\ sleep' = FALSE /\ stepped' = stepped
        BY <2>3 DEF Interrupted
      <4> QED BY <2>2, <4>1, <4>2
    <3>2. SkipsOnce'
      BY <2>1, <2>2, <2>3 DEF Interrupted, WakeCycles
    <3>3. BreakOut'
      BY <2>1, <2>2, <2>3 DEF Interrupted, WakeCycles
    <3>4. StepsOnce'
      BY <2>1, <2>2, <2>3 DEF Interrupted, WakeCycles
    <3> QED BY <3>1, <3>2, <3>3, <3>4
  <2>4. CASE UNCHANGED <<cpu, history>>
    BY <2>1, <2>2, <2>4
  <2> QED BY <1>5, <2>3, <2>4 DEF EndPass
<1> QED BY <1>1, <1>2, <1>3, <1>4, <1>5

LEMMA NextControl ==
  ASSUME Control, ~Rehalt, [Next]_vars
  PROVE  Control'
<1>1. CASE Instruction
  BY <1>1, InstControl DEF Instruction, Plain, Break, Sleep
<1>2. CASE UNCHANGED vars
  BY <1>2 DEF vars, cpu, slice, debugger, history, Control, Types, SkipsOnce,
              BreakOut, StepsOnce, CanFetch, Idle
<1> QED
  BY <1>1, <1>2, HostControl, StopControl, PassControl DEF Next, Emulate

LEMMA AlwaysControl ==
  ASSUME ~Rehalt
  PROVE  Spec => []Control
<1>1. Init => Control
  BY InitControl
<1>2. Control /\ [Next]_vars => Control'
  BY NextControl
<1> QED BY <1>1, <1>2, PTL DEF Spec

(* continue_: the breakpoint it leaves does not halt the machine again      *)
(* before the instruction under it has run.                                 *)
THEOREM ContinueLeaves ==
  ASSUME ~Rehalt
  PROVE  Spec => []ContinueMoves
<1>1. Control => ContinueMoves
  BY DEF Control, SkipsOnce, ContinueMoves
<1> QED BY <1>1, AlwaysControl, PTL

(* step: one instruction, then halted until the host asks again.            *)
THEOREM StepRunsOne ==
  ASSUME ~Rehalt
  PROVE  Spec => StepOnce
<1>1. Control => [Instruction => ~stepped]_vars
  <2> SUFFICES ASSUME Control, Instruction
               PROVE  ~stepped
    OBVIOUS
  <2>1. CanFetch
    BY DEF Instruction, Plain, Break, Sleep, Inst
  <2> QED BY <2>1 DEF Control, StepsOnce, CanFetch
<1> QED BY <1>1, AlwaysControl, PTL DEF StepOnce

(* checkBreakpoints: in a debugging slice nothing runs under a breakpoint   *)
(* unless the host resumed the machine right there.                         *)
THEOREM BreakpointsStop ==
  ASSUME ~Rehalt
  PROVE  Spec => NoOverrun
<1>1. Control =>
        [Instruction /\ dbg /\ pc \in breakpoints => resumed # "no"]_vars
  <2> SUFFICES ASSUME Control, Instruction, dbg, pc \in breakpoints
               PROVE  resumed # "no"
    OBVIOUS
  <2>1. Passes
    BY DEF Instruction, Plain, Break, Sleep, Inst, Checked
  <2> QED BY <2>1 DEF Passes, Control, SkipsOnce, StepsOnce
<1> QED BY <1>1, AlwaysControl, PTL DEF NoOverrun
=============================================================================
