-------------------------- MODULE ExecLoopRefinement --------------------------
(***************************************************************************)
(* The lazily updated timer 0 of ExecLoop implements the timer of          *)
(* Timer0Eager that counts every cycle.                                    *)
(***************************************************************************)
EXTENDS ExecLoop

(* Ticks that have passed but are not in TCNT0 yet. *)
PendingTicks == IF Div(mcu) = 0 THEN 0 ELSE Elapsed(mcu) \div Div(mcu)

EagerTimer ==
  [ presc |-> mcu.presc,
    sub   |-> IF Div(mcu) = 0 THEN 0 ELSE Elapsed(mcu) % Div(mcu),
    cnt   |-> (mcu.tcnt + PendingTicks) % Byte,
    flag  |-> mcu.tov \/ mcu.tcnt + PendingTicks >= Byte,
    taken |-> mcu.count ]

Eager == INSTANCE Timer0Eager WITH now <- mcu.total, timer <- EagerTimer

(* However the loop batches, sleeps, stalls, halts and slices, TCNT0 and   *)
(* TOV0 as the program would see them are those of a timer that counts     *)
(* each cycle: no tick is lost or counted twice at an update, a mark, a    *)
(* change of clock or a wake-up, and no overflow is lost or invented. This *)
(* is so of programs and hosts that do not read TCNT0 either: a read past  *)
(* the wrap moves it on without raising TOV0 (DataSpace::update_Get_impl). *)
CountsEveryCycle == Eager!Spec
=============================================================================
