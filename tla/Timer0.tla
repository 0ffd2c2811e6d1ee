------------------------------- MODULE Timer0 -------------------------------
(***************************************************************************)
(* The part of the emulated machine that timekeeping touches: the cycle    *)
(* counter and sleep flag of CPU, timer/counter 0 of DataSpace, the I bit  *)
(* of the SREG cache, and the functions DataSpace and CPU call on them.    *)
(*                                                                         *)
(* The emulator does not tick timer 0 every cycle.  TCNT0 is brought up to *)
(* date lazily: lastSet.Timer0Update is the cycle of the last tick that    *)
(* TCNT0 accounts for, and whoever needs the counter adds the whole ticks  *)
(* that have passed since.  Everything here is a function from a machine   *)
(* state m to the next one, because in the code these functions call each  *)
(* other in the middle of an instruction.                                  *)
(*                                                                         *)
(* Timers 3 and 4 are switched off (TIMSK3 = TIMSK4 = TCCR4B = DDRC = 0,   *)
(* their reset values), so their branches of updateTimers, checkForIntr    *)
(* and cycsToNextTimerInt do nothing.                                      *)
(***************************************************************************)
EXTENDS Integers

CONSTANTS
  Byte,      \* 2^8: width of TCNT0 and of the uint8_t locals of updateTimers
  Word,      \* 2^64: width of cycle arithmetic
  Prescs,    \* clock selects the program uses (TCCR0B & 7)
  PrescDiv,  \* DataSpace::timerPresc: cycles per tick, 0 when stopped
  MaxTotal   \* bound on the cycles the host asks for; keeps bit 63 clear

WakeCycles  == 5   \* directExecuteInterrupt, when it ends a sleep
StallCycles == 4   \* setEECR, on an EEPROM read
RetiCycles  == 4
MaxPlain    == 4   \* longest instruction (CALL, RET)
MaxAccess   == 2   \* longest single-register access (SBI, STS, LDS, LD, ST)

(* How far a slice may run past the cycles it was given: the last         *)
(* instruction starts at least one cycle before the target; it may be a    *)
(* plain one, an access that stalls on the EEPROM, or a one-cycle SLEEP    *)
(* whose wake-up is charged at once.                                       *)
Overshoot == 5

ASSUME WidthAssumption ==
  /\ Byte \in Nat /\ Byte > MaxPlain
  /\ Word \in Nat
ASSUME PrescAssumption ==
  /\ Prescs \subseteq Nat /\ 0 \in Prescs
  /\ PrescDiv \in [Prescs -> Nat]
  /\ \A p \in Prescs : PrescDiv[p] = 0 <=> p = 0
ASSUME BoundAssumption ==
  /\ MaxTotal \in Nat
  /\ Word > 2 * (MaxTotal + Overshoot)
  /\ \A p \in Prescs : Word > 2 * (MaxTotal + Overshoot + Byte * PrescDiv[p])

(* The reset state: CPU::reset and DataSpace::reset.                      *)
ResetState ==
  [ total |-> 0,        \* CPU::totalCycls without bit 63
    brk   |-> FALSE,    \* bit 63 of totalCycls, set by breakOutOfOptimisation
    sleep |-> FALSE,    \* CPU::CPU_sleep
    left  |-> 0,        \* CPU::sleepCycsLeft
    pc    |-> "code",   \* CPU::PC, as far as interrupt entry is concerned
    ie    |-> FALSE,    \* sreg[SREG_I]
    tcnt  |-> 0,        \* TCNT0
    tov   |-> FALSE,    \* TIFR0.TOV0
    toie  |-> FALSE,    \* TIMSK0.TOIE0
    presc |-> 0,        \* TCCR0B & 7
    prtim |-> FALSE,    \* PRR0.PRTIM0
    last  |-> 0,        \* lastSet.Timer0Update
    count |-> 0,        \* interrupts entered (the static of
                        \* directExecuteInterrupt), modulo 2
    trap  |-> FALSE ]   \* the process died on a division by zero

PcPlace == {"code", "vector", "pastVector"}

Machine ==
  [ total : Nat, brk : BOOLEAN, sleep : BOOLEAN, left : Nat, pc : PcPlace,
    ie : BOOLEAN, tcnt : 0..(Byte - 1), tov : BOOLEAN, toie : BOOLEAN,
    presc : Prescs, prtim : BOOLEAN, last : Nat, count : 0..1,
    trap : BOOLEAN ]

-----------------------------------------------------------------------------
Div(m) == PrescDiv[m.presc]                   \* getTimer0PrescDiv
Elapsed(m) == m.total - m.last                \* getTotalCycles() - Timer0Update

(* Mutant: marks the current cycle and so loses the phase of the prescaler.*)
MarkTimer0UpdateNow(m) == [m EXCEPT !.last = m.total]

(* Move Timer0Update to the latest tick boundary, keeping the phase.  With *)
(* the timer stopped the divisor is 0 and the process dies.                *)
MarkTimer0Update(m) ==
  IF Div(m) = 0 THEN [m EXCEPT !.trap = TRUE]
  ELSE [m EXCEPT !.last = @ + (Elapsed(m) \div Div(m)) * Div(m)]

DirectExecuteInterrupt(m) ==
  [m EXCEPT !.sleep = FALSE,
            !.total = IF m.sleep THEN @ + WakeCycles ELSE @,
            !.count = 1 - @,
            !.pc    = "vector"]

Deliverable(m) == m.ie /\ m.tov /\ m.toie

CheckForIntr(m) ==
  IF Deliverable(m) THEN DirectExecuteInterrupt([m EXCEPT !.tov = FALSE]) ELSE m

(* Count n ticks at once, as the loop does after each instruction when     *)
(* the prescaler is 1.                                                     *)
DoTicks(m, n) ==
  LET next == (m.tcnt + n) % Byte IN
  IF m.prtim THEN m
  ELSE MarkTimer0Update([m EXCEPT !.tcnt = next, !.tov = @ \/ next < m.tcnt])

(* Mutant: looks for interrupts only when TCNT0 has moved. *)
UpdateTimersIfTicked(m) ==
  LET div  == Div(m) % Byte
      add  == Elapsed(m) \div div
      next == (m.tcnt + add) % Byte
  IN IF ~m.prtim /\ div # 0 /\ Elapsed(m) >= div
     THEN CheckForIntr(MarkTimer0Update(
            [m EXCEPT !.tcnt = next,
                      !.tov  = @ \/ next < m.tcnt \/ add >= Byte]))
     ELSE m

(* Mutant: leaves the timer alone while interrupts are disabled. *)
UpdateTimersIfEnabled(m) ==
  LET div  == Div(m) % Byte
      add  == Elapsed(m) \div div
      next == (m.tcnt + add) % Byte
  IN CheckForIntr(
       IF m.ie /\ ~m.prtim /\ div # 0 /\ Elapsed(m) >= div
       THEN MarkTimer0Update([m EXCEPT !.tcnt = next,
                                       !.tov  = @ \/ next < m.tcnt \/ add >= Byte])
       ELSE m)

(* Catch the timer up with the cycle counter, then look for interrupts.    *)
(* The divisor is held in a uint8_t here (and only here).                  *)
UpdateTimers(m) ==
  LET div  == Div(m) % Byte
      add  == Elapsed(m) \div div
      next == (m.tcnt + add) % Byte
  IN CheckForIntr(
       IF ~m.prtim /\ div # 0 /\ Elapsed(m) >= div
       THEN MarkTimer0Update([m EXCEPT !.tcnt = next,
                                       !.tov  = @ \/ next < m.tcnt \/ add >= Byte])
       ELSE m)

(* Mutant: counts from the current cycle instead of the last tick. *)
NextOverflowFromNow(m) == m.total + (Byte - m.tcnt) * Div(m)

(* The cycle of the next overflow, and how far away it is as a uint64_t;   *)
(* Word - 1 (that is, -1) also stands for "no interrupt is coming".        *)
NextOverflow(m) == m.last + (Byte - m.tcnt) * Div(m)

CycsToNextTimerInt(m) ==
  IF m.toie THEN (NextOverflow(m) - m.total) % Word ELSE Word - 1

-----------------------------------------------------------------------------
(* Register accesses: getByteAt/setByteAt with the cases of update_Get and *)
(* update_Set.                                                             *)

(* Mutants: no mark after the update; no wrap of the counter. *)
ReadTCNT0Unmarked(m) ==
  IF Div(m) = 0 THEN m
  ELSE [m EXCEPT !.tcnt = (@ + Elapsed(m) \div Div(m)) % Byte]

ReadTCNT0Unwrapped(m) ==
  IF Div(m) = 0 THEN m
  ELSE MarkTimer0Update([m EXCEPT !.tcnt = @ + Elapsed(m) \div Div(m)])

ReadTCNT0(m) ==
  IF Div(m) = 0 THEN m
  ELSE MarkTimer0Update(
         [m EXCEPT !.tcnt = (@ + Elapsed(m) \div Div(m)) % Byte])

WriteTCNT0(m, v) ==
  LET w == MarkTimer0Update([m EXCEPT !.tcnt = v]) IN
  IF v < m.tcnt THEN [w EXCEPT !.tov = TRUE, !.brk = TRUE] ELSE w

WriteTIFR0(m, b) == CheckForIntr([m EXCEPT !.tov = b])

WriteTIMSK0(m, b) == [m EXCEPT !.toie = b]

WritePRR0(m, b) == [m EXCEPT !.prtim = b]

WriteSREG(m, b) == [m EXCEPT !.ie = b, !.brk = @ \/ (b /\ m.tov)]

(* Mutant: does not break out of the inner loop. *)
SetTCCR0BNoBreak(m, p) ==
  LET u == IF m.presc # 0 THEN UpdateTimers(m) ELSE m IN
  IF p = m.presc THEN m ELSE [u EXCEPT !.presc = p, !.last = u.total]

(* A new clock select restarts the prescaler at the current cycle, after   *)
(* the old one has been accounted for.                                     *)
SetTCCR0B(m, p) ==
  LET u == IF m.presc # 0 THEN UpdateTimers(m) ELSE m IN
  IF p = m.presc THEN m
  ELSE [u EXCEPT !.presc = p, !.last = u.total, !.brk = TRUE]

ReadEEPROM(m) == [m EXCEPT !.total = @ + StallCycles]

EnterSleep(m) == [m EXCEPT !.sleep = TRUE, !.brk = TRUE]
=============================================================================
