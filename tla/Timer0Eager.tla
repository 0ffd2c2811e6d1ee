----------------------------- MODULE Timer0Eager -----------------------------
(***************************************************************************)
(* What timer/counter 0 promises the program, without any laziness: every  *)
(* cycle advances the prescaler, every Div-th cycle ticks TCNT0, a wrap of *)
(* TCNT0 raises TOV0, and TOV0 goes down when, and only when, its          *)
(* interrupt is taken.                                                     *)
(* There is no cached cycle, no deadline and no loop here.                 *)
(*                                                                         *)
(* Programs select a clock and take interrupts; they do not write TCNT0 or *)
(* TIFR0 in this specification.                                            *)
(***************************************************************************)
EXTENDS Integers

CONSTANTS Byte, Prescs, PrescDiv

VARIABLES
  now,    \* cycles since reset
  timer   \* [presc, sub: cycles into the current tick, cnt: TCNT0, flag: TOV0,
          \*  taken: interrupts taken, modulo 2]

vars == <<now, timer>>

Start == [presc |-> 0, sub |-> 0, cnt |-> 0, flag |-> FALSE, taken |-> 0]

Init == now = 0 /\ timer = Start

(* c cycles go by. *)
Advance(t, c) ==
  LET div   == PrescDiv[t.presc]
      ticks == (t.sub + c) \div div
  IN IF div = 0 THEN t
     ELSE [t EXCEPT !.sub  = (@ + c) % div,
                    !.cnt  = (@ + ticks) % Byte,
                    !.flag = @ \/ t.cnt + ticks >= Byte]

(* The overflow interrupt may be taken, which acknowledges the flag. *)
MayTake(t) ==
  IF t.flag THEN {t, [t EXCEPT !.flag = FALSE, !.taken = 1 - @]} ELSE {t}

(* Another clock select restarts the prescaler. *)
Select(t, p) == IF p = t.presc THEN t ELSE [t EXCEPT !.presc = p, !.sub = 0]

(* Some cycles go by, an interrupt may be taken, the program may select a  *)
(* clock, and more cycles go by.                                           *)
Run(before, after) ==
  /\ now' = now + before + after
  /\ \E p \in Prescs, t \in MayTake(Advance(timer, before)) :
       timer' = Advance(Select(t, p), after)

Reset == now' = 0 /\ timer' = [Start EXCEPT !.taken = timer.taken]

Next ==
  \/ Reset
  \/ \E before \in 0..(now' - now) : Run(before, now' - now - before)

Spec == Init /\ [][Next]_vars
=============================================================================
