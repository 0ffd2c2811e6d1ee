------------------------------ MODULE ExecLoop ------------------------------
(***************************************************************************)
(* CPU::execute4T<false>: the host hands the emulator a slice of cycles,   *)
(* and the loop runs instructions until the slice is used up.              *)
(*                                                                         *)
(* With a prescaler above 1 the loop asks when the next timer interrupt is *)
(* due and runs instructions up to that cycle (currTargetCycls) without    *)
(* looking at the timer at all; whatever makes the deadline move must set  *)
(* bit 63 of totalCycls to get out of that inner loop.                     *)
(*                                                                         *)
(* The emulated program is arbitrary: each instruction is any member of    *)
(* Ops, classified by what it does to the state of module Timer0.          *)
(***************************************************************************)
EXTENDS Timer0

CONSTANTS
  Slices,       \* amounts of cycles the host asks for
  HostOps,      \* what else the host does between slices
  Ops,          \* classes of instruction the program contains
  PlainCycles   \* cycles of an instruction with no effect on the timekeeping

AllOps == {"plain", "sei", "cli", "reti", "sreg", "tccr", "timsk", "prr",
           "tcntRead", "tcntWrite", "tifr", "sleep", "eeprom", "break"}

ASSUME ProgramAssumption ==
  /\ Slices \subseteq Nat
  /\ HostOps \subseteq {"read", "halt", "reset"}
  /\ Ops \subseteq AllOps
  /\ PlainCycles \subseteq 0..MaxPlain

VARIABLES
  mcu,         \* the machine of module Timer0
  target,      \* CPU::targetCycls
  halted,      \* Debugger::halted
  loop,        \* where execute4T is: not running, at the outer while, inside
  amt,         \* its argument
  currTarget,  \* its local currTargetCycls
  stale        \* history: currTarget no longer covers the next overflow

vars == <<mcu, target, halted, loop, amt, currTarget, stale>>
locals == <<loop, amt, currTarget, target>>

TypeOK ==
  /\ mcu \in Machine
  /\ target \in Nat /\ amt \in Nat /\ currTarget \in Nat
  /\ halted \in BOOLEAN /\ stale \in BOOLEAN
  /\ loop \in {"host", "pass", "inner"}
  /\ mcu.last <= mcu.total

Init ==
  /\ mcu = ResetState
  /\ target = 0 /\ amt = 0 /\ currTarget = 0
  /\ halted = FALSE /\ stale = FALSE
  /\ loop = "host"

-----------------------------------------------------------------------------
(* The host, between slices. *)

(* ATmega32u4::execute(a, false) up to the outer while. *)
Execute(a) ==
  /\ loop = "host" /\ ~mcu.trap
  /\ target + a <= MaxTotal
  /\ target' = target + a /\ amt' = a
  /\ mcu' = [mcu EXCEPT !.brk = FALSE]
  /\ loop' = "pass"
  /\ UNCHANGED <<halted, currTarget, stale>>

(* DataSpace::getData refreshes the registers it exposes. *)
HostRead ==
  /\ "read" \in HostOps
  /\ loop = "host" /\ ~mcu.trap
  /\ mcu' = ReadTCNT0(mcu)
  /\ UNCHANGED <<target, halted, loop, amt, currTarget, stale>>

(* Debugger::halt. *)
HostHalt ==
  /\ "halt" \in HostOps
  /\ loop = "host" /\ ~mcu.trap
  /\ halted' = TRUE
  /\ mcu' = [mcu EXCEPT !.brk = TRUE]
  /\ UNCHANGED <<target, loop, amt, currTarget, stale>>

(* Debugger::continue_. *)
HostContinue ==
  /\ loop = "host" /\ ~mcu.trap
  /\ halted' = FALSE
  /\ UNCHANGED <<mcu, target, loop, amt, currTarget, stale>>

(* ATmega32u4::reset. *)
HostReset ==
  /\ "reset" \in HostOps
  /\ loop = "host" /\ ~mcu.trap
  /\ mcu' = [ResetState EXCEPT !.count = mcu.count]
  /\ target' = 0 /\ halted' = FALSE
  /\ UNCHANGED <<loop, amt, currTarget, stale>>

-----------------------------------------------------------------------------
(* One iteration of the outer while. *)

InSlice == loop = "pass" /\ ~mcu.trap /\ ~mcu.brk /\ mcu.total < target

EndSlice ==
  /\ loop = "pass" /\ ~mcu.trap
  /\ mcu.brk \/ mcu.total >= target
  /\ loop' = "host" /\ amt' = 0
  /\ UNCHANGED <<mcu, target, halted, currTarget, stale>>

(* Mutant: gives the whole slice back even if part of it was used. *)
HaltedReturnAll ==
  /\ InSlice /\ halted
  /\ target' = target - amt
  /\ loop' = "host" /\ amt' = 0
  /\ UNCHANGED <<mcu, halted, currTarget, stale>>

(* A halted machine gives the cycles of this slice back. *)
HaltedReturn ==
  /\ InSlice /\ halted
  /\ target' = IF target - amt > mcu.total THEN target - amt ELSE mcu.total
  /\ loop' = "host" /\ amt' = 0
  /\ UNCHANGED <<mcu, halted, currTarget, stale>>

(* Prescaler above 1: compute how far instructions may run. *)
StartInner ==
  LET cycs == CycsToNextTimerInt(mcu)
      curr == IF cycs = Word - 1 THEN Word - 1 ELSE (mcu.total + cycs) % Word
  IN
  /\ InSlice /\ ~halted /\ ~mcu.sleep /\ mcu.presc > 1
  /\ currTarget' = IF curr > target THEN target ELSE curr
  /\ stale' = (mcu.toie /\ cycs = Word - 1)
  /\ loop' = "inner"
  /\ UNCHANGED <<mcu, target, halted, amt>>

EndInner ==
  /\ loop = "inner" /\ ~mcu.trap
  /\ mcu.brk \/ mcu.total >= currTarget
  /\ mcu' = UpdateTimers([mcu EXCEPT !.brk = FALSE])
  /\ loop' = "pass" /\ currTarget' = 0 /\ stale' = FALSE
  /\ UNCHANGED <<target, halted, amt>>

(* Asleep: skip to the wake-up cycle, or to the end of the slice. *)
SleepLeft == IF mcu.left = 0 THEN CycsToNextTimerInt(mcu) ELSE mcu.left

SleepDone ==
  /\ InSlice /\ ~halted /\ mcu.sleep
  /\ SleepLeft <= target - mcu.total
  /\ mcu' = [UpdateTimers([mcu EXCEPT !.total = @ + SleepLeft])
               EXCEPT !.left = 0, !.brk = FALSE]
  /\ UNCHANGED <<halted, stale, locals>>

SleepOn ==
  /\ InSlice /\ ~halted /\ mcu.sleep
  /\ SleepLeft > target - mcu.total
  /\ mcu' = [mcu EXCEPT !.left = SleepLeft - (target - mcu.total),
                        !.total = target]
  /\ UNCHANGED <<halted, stale, locals>>

-----------------------------------------------------------------------------
(* Instructions.  One is fetched either by the inner loop or, when the     *)
(* prescaler is 0 or 1, directly by the outer one.                         *)

CanFetch ==
  \/ InSlice /\ ~halted /\ ~mcu.sleep /\ mcu.presc <= 1
  \/ loop = "inner" /\ ~mcu.trap /\ ~mcu.brk /\ mcu.total < currTarget

Fetched == [mcu EXCEPT !.pc = "code"]

(* Add the instruction's cycles and PC offset to what its body left behind.*)
Retired(m, cyc) ==
  [m EXCEPT !.total = @ + cyc,
            !.pc = IF @ = "vector" THEN "pastVector" ELSE "code"]

(* What the loop does after the instruction, which depends on the          *)
(* prescaler in force before it.                                           *)
AfterInst(m, cyc) ==
  CASE loop = "inner" -> m
    [] loop = "pass" /\ mcu.presc = 0 -> [m EXCEPT !.brk = FALSE]
    [] OTHER -> [CheckForIntr(DoTicks(m, cyc)) EXCEPT !.brk = FALSE]

Inst(op, body, cyc, unflagged) ==
  /\ op \in Ops /\ CanFetch
  /\ mcu' = AfterInst(Retired(body, cyc), cyc)
  /\ stale' = (stale \/ (unflagged /\ loop = "inner"))
  /\ UNCHANGED <<halted, locals>>

Plain == \E c \in PlainCycles : Inst("plain", Fetched, c, FALSE)

(* callInstSwitch2 routes SEI and CLI to INST_BSET and INST_BCLR. *)
Sei == Inst("sei", [Fetched EXCEPT !.ie = TRUE], 1, FALSE)
Cli == Inst("cli", [Fetched EXCEPT !.ie = FALSE], 1, FALSE)
Reti == Inst("reti", [Fetched EXCEPT !.ie = TRUE], RetiCycles, FALSE)

OutSREG == \E b \in BOOLEAN : Inst("sreg", WriteSREG(Fetched, b), 1, FALSE)

OutTCCR0B == \E p \in Prescs : Inst("tccr", SetTCCR0B(Fetched, p), 1, FALSE)

StsTIMSK0 == \E b \in BOOLEAN : Inst("timsk", WriteTIMSK0(Fetched, b), 2, TRUE)

StsPRR0 == \E b \in BOOLEAN : Inst("prr", WritePRR0(Fetched, b), 2, TRUE)

InTCNT0 == Inst("tcntRead", ReadTCNT0(Fetched), 1, FALSE)

OutTCNT0 ==
  \E v \in 0..(Byte - 1) : Inst("tcntWrite", WriteTCNT0(Fetched, v), 1, TRUE)

WriteTIFR ==   \* OUT TIFR0 or SBI TIFR0
  \E b \in BOOLEAN, c \in 1..MaxAccess :
    Inst("tifr", WriteTIFR0(Fetched, b), c, FALSE)

Sleep == Inst("sleep", EnterSleep(Fetched), 1, FALSE)

EepromRead ==
  \E c \in 1..MaxAccess : Inst("eeprom", ReadEEPROM(Fetched), c, FALSE)

(* INST_BREAK, or any error that reaches CPU::executeError. *)
Break ==
  /\ "break" \in Ops /\ CanFetch
  /\ mcu' = AfterInst(Retired([Fetched EXCEPT !.brk = TRUE], 1), 1)
  /\ halted' = TRUE
  /\ UNCHANGED <<stale, locals>>

Instruction ==
  \/ Plain \/ Sei \/ Cli \/ Reti \/ OutSREG \/ OutTCCR0B \/ StsTIMSK0
  \/ StsPRR0 \/ InTCNT0 \/ OutTCNT0 \/ WriteTIFR \/ Sleep \/ EepromRead
  \/ Break

Emulate ==
  \/ EndSlice \/ HaltedReturn \/ StartInner \/ EndInner \/ SleepDone
  \/ SleepOn \/ Instruction

Host ==
  \/ \E a \in Slices : Execute(a)
  \/ HostRead \/ HostHalt \/ HostContinue \/ HostReset

Next == Emulate \/ Host

Spec == Init /\ [][Next]_vars

(* The thread that called execute keeps running; nothing makes the host    *)
(* call it again.                                                          *)
FairSpec == Spec /\ WF_vars(Emulate)

-----------------------------------------------------------------------------
(* A slice uses up what it was given, and overshoots by at most Overshoot  *)
(* cycles; what it overshoots is taken off the next slice.  A break-out    *)
(* request, which makes totalCycls compare as huge, must not end a slice   *)
(* early (the assertion at the end of execute4T), and the cycles a halted  *)
(* machine gives back must not be given back twice.                        *)
BudgetKept ==
  /\ mcu.total <= target + Overshoot
  /\ loop = "host" => target <= mcu.total

(* An instruction of the inner loop never starts past an overflow that has *)
(* not been recorded: the deadline of cycsToNextTimerInt, computed from a  *)
(* lazily updated TCNT0 and from the phase of Timer0Update, is exact as    *)
(* long as no write has moved it without leaving the loop.  Otherwise a    *)
(* read of TCNT0 would wrap the counter and lose the interrupt.            *)
NoFetchPastOverflow ==
  loop = "inner" /\ CanFetch /\ mcu.toie /\ ~stale =>
    mcu.tcnt + Elapsed(mcu) \div Div(mcu) < Byte

(* An overflow whose interrupt is enabled is at most Overshoot cycles old  *)
(* when it is recorded, wherever the emulator stands: at every point of    *)
(* the loop and between slices, for a running timer whose divisor fits the *)
(* uint8_t of updateTimers.                                                *)
BoundedLateness ==
  /\ mcu.toie /\ ~stale /\ ~mcu.trap
  /\ mcu.presc # 0 /\ ~mcu.prtim /\ Div(mcu) % Byte # 0
  => mcu.total <= NextOverflow(mcu) + Overshoot

(* A sleep that spans several slices ends exactly at the overflow, even if *)
(* the host looks at the registers (and so moves TCNT0 and Timer0Update)   *)
(* in between: the cycles left always lead to the next overflow, for every *)
(* divisor that fits the uint8_t of updateTimers.  (With one that does not *)
(* the CPU may fall asleep past the overflow, and then a look at TCNT0     *)
(* moves it by a whole turn of the counter.)                               *)
SleepEndsAtOverflow ==
  /\ mcu.sleep /\ mcu.left > 0 /\ mcu.toie /\ ~mcu.prtim
  /\ mcu.presc # 0 => Div(mcu) % Byte # 0
  => (mcu.total + mcu.left - NextOverflow(mcu)) % Word = 0

(* The loop never goes (back) to sleep over an interrupt that could be     *)
(* taken at once, as long as the timer runs.                               *)
NoMissedWakeup ==
  loop = "pass" /\ mcu.sleep /\ mcu.presc # 0 => ~Deliverable(mcu)

(* Every slice comes to an end, so the host gets control back.             *)
SliceEnds == loop # "host" ~> (loop = "host" \/ mcu.trap)
=============================================================================
