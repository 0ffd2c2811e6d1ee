------------------------------ MODULE Timers34 ------------------------------
(***************************************************************************)
(* Timers 3 (compare match A) and 4 (overflow, pin OC4A) of DataSpace. Both*)
(* are updated lazily, at the end of a pass of execute4T's outer loop. The *)
(* pass runs instructions until the deadline that cycsToNextTimerInt gave  *)
(* at its start, or the end of the slice. Timer 0 is taken to run with a   *)
(* prescaler above 1, without which passes do not update these timers.     *)
(***************************************************************************)
EXTENDS Integers, FiniteSetsExt

CONSTANTS
  N3, N4,     \* moduli of TCNT3 (2^16) and TCNT4 (2^10)
  Div3,       \* divisor of timer 3, at most 128
  Prescs4,    \* clock selects of timer 4: 0 stops it, p divides by 2^(p-1)
  Targets,    \* values for OCR3A
  Cycles,     \* cycles of an instruction; one takes the longest
  Limit       \* bound on the cycles between two updates of a timer

ASSUME TimersAssumption ==
  /\ N3 \in Nat \ {0} /\ N4 \in 1..N3 /\ Div3 \in 1..128 /\ Limit \in Nat
  /\ Prescs4 \subseteq Nat /\ Targets \subseteq 0..(N3 - 1) /\ Cycles \subseteq Nat \ {0}
  /\ \E longest \in Cycles : \A c \in Cycles : c <= longest
  /\ \A p \in Prescs4 \ {0} : 2^(p - 1) \in Nat \ {0}

VARIABLES
  t,       \* the registers; e3 and e4 are the cycles since Timer3Update, Timer4Update
  pass,    \* "none" between two passes, else "runs", or "ends" once it must end
  left,    \* cycles to the deadline of the pass, NoDeadline
  real,    \* the counters as a timer that counts each cycle would have them
  due,     \* for each timer, cycles since an event no update has seen, or None
  armed    \* timers whose next event the deadline of this pass was computed from
vars == <<t, pass, left, real, due, armed>>

None == -1
NoDeadline == -1
Div4(tm) == 2^(tm.presc4 - 1)

-----------------------------------------------------------------------------
\* markTimer3Update, markTimer4Update: forget the whole ticks only

Ticks3(tm) == tm.e3 \div Div3
Ticks4(tm) == IF tm.presc4 = 0 THEN 0 ELSE tm.e4 \div Div4(tm)
\* mutant: marks the present cycle and drops the fraction of a tick
markTimer3Now(tm) == [tm EXCEPT !.e3 = 0]
markTimer3Update(tm) == [tm EXCEPT !.e3 = @ - Ticks3(tm) * Div3]
markTimer4Update(tm) == [tm EXCEPT !.e4 = @ - Ticks4(tm) * Div4(tm)]

\* Did a counter that went from a to b, wrapping or not, touch target? Both ends
\* count, and so does any way round that takes at least whole ticks.
\* mutants: a wrap is not looked at; the counter's last value is left out
MatchesNoWrap(a, b, target, ticks, whole) == a <= target /\ target <= b
MatchesBefore(a, b, target, ticks, whole) ==
  \/ ticks >= whole
  \/ a <= b /\ a <= target /\ target < b
  \/ a > b /\ (a <= target \/ target < b)
Matches(a, b, target, ticks, whole) ==
  \/ ticks >= whole
  \/ a <= b /\ a <= target /\ target <= b
  \/ a > b /\ (a <= target \/ target <= b)

UpdateTimer3(tm) ==
  LET next == (tm.TCNT3 + Ticks3(tm)) % N3
      matchesA == Matches(tm.TCNT3, next, tm.OCR3A, Ticks3(tm), N3)
  IN  IF ~tm.OCIE3A \/ Ticks3(tm) = 0 THEN tm
      ELSE markTimer3Update([tm EXCEPT !.TCNT3 = next, !.OCF3A = @ \/ matchesA,
                                       !.Timer3ATriggered = matchesA])
UpdateTimer4(tm) ==
  LET next == (tm.TCNT4 + Ticks4(tm)) % N4
      overflow == next < tm.TCNT4 \/ Ticks4(tm) >= N4
      matchesA == Matches(tm.TCNT4, next, tm.OCR4A, Ticks4(tm), N3)
  IN  IF Ticks4(tm) = 0 THEN tm
      ELSE markTimer4Update([tm EXCEPT
             !.TCNT4 = next, !.TOV4 = @ \/ (tm.TOIE4 /\ overflow),
             !.OC4A = IF tm.DDRC THEN matchesA ELSE @,
             !.Timer4ATriggered = IF tm.DDRC THEN matchesA ELSE @])
updateTimers(tm) == UpdateTimer4(UpdateTimer3(tm))

\* checkForIntr with the I flag set: enabled flags are taken down
checkForIntr(tm) == [tm EXCEPT !.OCF3A = @ /\ ~tm.OCIE3A, !.TOV4 = @ /\ ~tm.TOIE4]

\* The deadlines of cycsToNextTimerInt, in cycles from now. One that has passed
\* wraps round to a very large number, which is no deadline. The distance to OCR4A
\* is cut to 16 bits like that to OCR3A, not to the 10 of its counter.
Match3(tm) == ((tm.OCR3A - tm.TCNT3) % N3) * Div3 - tm.e3
\* mutant: a whole number of ticks from now
Overflow4OfTicks(tm) == (N4 - tm.TCNT4) * Div4(tm)
Overflow4(tm) == (N4 - tm.TCNT4) * Div4(tm) - tm.e4
Match4(tm) == ((tm.OCR4A - tm.TCNT4) % N3) * Div4(tm) - tm.e4
Deadlines(tm) ==
  LET runs4 == tm.TOIE4 /\ tm.presc4 > 0
  IN  {d \in (IF tm.OCIE3A /\ ~tm.Timer3ATriggered THEN {Match3(tm)} ELSE {})
         \cup (IF runs4 /\ tm.OCIE4A THEN {Overflow4(tm)} ELSE {})
         \cup (IF runs4 /\ tm.DDRC /\ ~tm.Timer4ATriggered THEN {Match4(tm)} ELSE {}) :
       d >= 0}
cycsToNextTimerInt(tm) ==
  IF Deadlines(tm) = {} THEN NoDeadline ELSE Min(Deadlines(tm))

-----------------------------------------------------------------------------
Off == [TCNT3 |-> 0, e3 |-> 0, OCR3A |-> 0, OCIE3A |-> FALSE, OCF3A |-> FALSE,
        Timer3ATriggered |-> FALSE, TCNT4 |-> 0, e4 |-> 0, presc4 |-> 0,
        TOIE4 |-> FALSE, OCIE4A |-> FALSE, TOV4 |-> FALSE, OCR4A |-> 0,
        DDRC |-> FALSE, OC4A |-> FALSE, Timer4ATriggered |-> FALSE]
Init == /\ t = Off /\ pass = "none" /\ left = NoDeadline
        /\ real = [c3 |-> 0, s3 |-> 0, c4 |-> 0, s4 |-> 0]
        /\ due = [timer3 |-> None, timer4 |-> None] /\ armed = {}

StartPass ==
  /\ pass = "none" /\ pass' = "runs"
  /\ left' = cycsToNextTimerInt(t)
  /\ armed' = (IF t.OCIE3A /\ ~t.Timer3ATriggered /\ Match3(t) > 0 THEN {"timer3"} ELSE {})
                \cup (IF t.TOIE4 /\ t.OCIE4A /\ t.presc4 > 0 THEN {"timer4"} ELSE {})
  /\ UNCHANGED <<t, real, due>>

Seen == [timer3 |-> None, timer4 |-> None]
EndPass ==
  /\ pass # "none" /\ pass' = "none"
  /\ t' = checkForIntr(updateTimers(t))
  /\ due' = Seen
  /\ UNCHANGED <<left, real, armed>>

\* c cycles go by, from the registers tm, the counters now and what is due then.
\* An event at tick k is due from that tick on.
Elapse(c, tm, now, dueNow) ==
  LET div4 == IF tm.presc4 = 0 THEN 1 ELSE Div4(tm)
      n3 == (now.s3 + c) \div Div3
      n4 == IF tm.presc4 = 0 THEN 0 ELSE (now.s4 + c) \div div4
      hits3 == {k \in 1..n3 : (now.c3 + k) % N3 = tm.OCR3A}
      hits4 == {k \in 1..n4 : (now.c4 + k) % N4 = 0}
      Later(d, on, hits, div, sub) ==
        IF ~on THEN None ELSE IF d # None THEN d + c
        ELSE IF hits # {} THEN c - (Min(hits) * div - sub) ELSE None
  IN  /\ t' = [tm EXCEPT !.e3 = @ + c, !.e4 = IF tm.presc4 = 0 THEN 0 ELSE @ + c]
      /\ real' = [c3 |-> (now.c3 + n3) % N3, s3 |-> (now.s3 + c) % Div3,
                  c4 |-> (now.c4 + n4) % N4,
                  s4 |-> IF tm.presc4 = 0 THEN 0 ELSE (now.s4 + c) % div4]
      /\ due' = [timer3 |-> Later(dueNow.timer3, tm.OCIE3A, hits3, Div3, now.s3),
                 timer4 |-> Later(dueNow.timer4, tm.TOIE4, hits4, div4, now.s4)]

\* An instruction of the pass; left counts down and stops at 0
Runs(c) ==
  /\ pass = "runs" /\ left # 0
  /\ t.e3 + c <= Limit /\ t.e4 + c <= Limit
  /\ left' = IF left = NoDeadline THEN NoDeadline ELSE Max({0, left - c})
\* One that writes registers. An update compares with the target of its time, so a
\* match of a target that is written over is no longer due.
Writes(tm) ==
  LET dueNow == [timer3 |-> IF tm.OCR3A = t.OCR3A THEN due.timer3 ELSE None,
                 timer4 |-> due.timer4]
  IN  \E c \in Cycles : Runs(c) /\ Elapse(c, tm, real, dueNow) /\ UNCHANGED pass
Plain == Writes(t) /\ UNCHANGED armed
\* The deadline of the pass stays, also for a new target that is matched before it.
\* Each byte is a write of its own, the word between the two a target like any.
WriteOCR3A == \E v \in Targets :
  LET tm == [t EXCEPT !.OCR3A = v]
  IN  Writes(tm) /\ armed' = IF left <= Match3(tm) THEN armed ELSE armed \ {"timer3"}
WriteTIMSK3 == Writes([t EXCEPT !.OCIE3A = ~@]) /\ armed' = armed \ {"timer3"}
WriteTIMSK4 ==
  /\ \E on, match \in BOOLEAN : Writes([t EXCEPT !.TOIE4 = on, !.OCIE4A = match])
  /\ armed' = armed \ {"timer4"}
WriteOC4A == UNCHANGED armed /\ \E v \in Targets, on \in BOOLEAN :
                                  Writes([t EXCEPT !.OCR4A = v, !.DDRC = on])

\* setTCCR4B: account for the cycles under the old clock, then start the new one
SwitchClock(tm, p) == [tm EXCEPT !.presc4 = p, !.e4 = 0]
setTCCR4B(tm, p) ==
  SwitchClock(IF tm.presc4 = 0 THEN tm ELSE checkForIntr(updateTimers(tm)), p)
WriteTCCR4B == \E p \in Prescs4 \ {t.presc4}, c \in Cycles :
  /\ Runs(c) /\ pass' = "ends"
  /\ Elapse(c, setTCCR4B(t, p), [real EXCEPT !.s4 = 0], IF t.presc4 = 0 THEN due ELSE Seen)
  /\ UNCHANGED armed

Next == \/ StartPass \/ EndPass \/ Plain \/ WriteOCR3A \/ WriteTIMSK3 \/ WriteTIMSK4
        \/ WriteOC4A \/ WriteTCCR4B
Spec == Init /\ [][Next]_vars

-----------------------------------------------------------------------------
\* Ticks not in the registers yet included, the counters are those of timers
\* that count each cycle, however passes, interrupt enables and clock changes
\* fall (updateTimers, markTimer3Update, markTimer4Update, setTCCR4B).
CountersTrue ==
  /\ (t.TCNT3 + Ticks3(t)) % N3 = real.c3 /\ t.e3 % Div3 = real.s3
  /\ (t.TCNT4 + Ticks4(t)) % N4 = real.c4

\* An update raises the flag of every match of timer 3 and overflow of timer 4
\* that happened since the last one while its interrupt was enabled, be it once
\* round the counter or just at the ends (updateTimers, checkForIntr). A match that
\* no update has seen is lost to a write of OCR3A, but never one that the pass had a
\* deadline for (setByteAt, cycsToNextTimerInt).
NoEventLost ==
  [][/\ EndPass \/ (WriteTCCR4B /\ t.presc4 # 0) =>
          /\ due.timer3 # None => updateTimers(t).OCF3A
          /\ due.timer4 # None => updateTimers(t).TOV4
     /\ t'.OCR3A # t.OCR3A /\ "timer3" \in armed => due.timer3 = None]_vars

\* An event the pass has a deadline for waits for the end of the instruction it
\* falls in and no longer (cycsToNextTimerInt), also when OCR3A has been moved
\* since, as long as the deadline is not behind the new match.
OnTime ==
  /\ "timer3" \in armed => due.timer3 < Max(Cycles)
  /\ "timer4" \in armed => due.timer4 < Max(Cycles)

\* An update never leaves a deadline at the present cycle: the pass it starts would
\* run nothing and update nothing, for ever (cycsToNextTimerInt, updateTimers).
NoStall == pass = "none" => cycsToNextTimerInt(t) # 0
=============================================================================
