---------------------------- MODULE Devices_proofs ----------------------------
(***************************************************************************)
(* Timers 3 and 4, then the EEPROM. The lazily updated counters never gain *)
(* or lose a tick, no match or overflow is lost or late, and no pass       *)
(* stands still: for every counter width, divisor, program and placement   *)
(* of passes, interrupt enables and clock changes. The EEPROM holds what   *)
(* the drivers asked for and gives it back: for all addresses, bytes and   *)
(* delays, with drivers that set the mode they want.                       *)
(***************************************************************************)
EXTENDS MCDevices, Division, SequenceTheorems, WellFoundedInduction, TLAPS

-----------------------------------------------------------------------------
\* Timers 3 and 4

Fields == DOMAIN Off
(* The fields that keep time; the others do not matter for counting. *)
Typed(tm) ==
  /\ tm = [f \in Fields |-> tm[f]]
  /\ tm.TCNT3 \in Int /\ tm.TCNT4 \in Int /\ tm.e3 \in Nat /\ tm.e4 \in Nat
  /\ tm.presc4 \in Prescs4 \cup {0} /\ (tm.presc4 = 0 => tm.e4 = 0)

(* What the registers say of the counters, ticks not yet in them included. *)
Reads(tm) ==
  [c3 |-> (tm.TCNT3 + Ticks3(tm)) % N3, s3 |-> tm.e3 % Div3,
   c4 |-> (tm.TCNT4 + Ticks4(tm)) % N4,
   s4 |-> IF tm.presc4 = 0 THEN 0 ELSE tm.e4 % Div4(tm)]
SameTime(a, b) ==
  /\ a.TCNT3 = b.TCNT3 /\ a.e3 = b.e3
  /\ a.TCNT4 = b.TCNT4 /\ a.e4 = b.e4 /\ a.presc4 = b.presc4

Counting == Typed(t) /\ real = Reads(t)

LEMMA FieldNames ==
  Fields = {"TCNT3", "e3", "OCR3A", "OCIE3A", "OCF3A", "Timer3ATriggered",
            "TCNT4", "e4", "presc4", "TOIE4", "OCIE4A", "TOV4", "OCR4A", "DDRC",
            "OC4A", "Timer4ATriggered"}
BY DEF Fields, Off

LEMMA Divisors ==
  ASSUME NEW tm, Typed(tm)
  PROVE  /\ Div3 \in Nat \ {0}
         /\ tm.presc4 # 0 => Div4(tm) \in Nat \ {0}
BY TimersAssumption DEF Typed, Div4

LEMMA SameTimeReads ==
  ASSUME NEW a, NEW b, SameTime(a, b)
  PROVE  Reads(a) = Reads(b)
BY DEF SameTime, Reads, Ticks3, Ticks4, Div4

LEMMA TicksNat ==
  ASSUME NEW tm, Typed(tm)
  PROVE  Ticks3(tm) \in Int /\ Ticks4(tm) \in Int
<1>1. Ticks3(tm) \in Int
  BY Divisors, DivisionParts DEF Ticks3, Typed
<1>2. CASE tm.presc4 = 0
  BY <1>1, <1>2 DEF Ticks4
<1>3. CASE tm.presc4 # 0
  <2>1. Ticks4(tm) = tm.e4 \div Div4(tm)
    BY <1>3 DEF Ticks4
  <2>2. tm.e4 \in Int /\ Div4(tm) \in Nat \ {0}
    BY <1>3, Divisors DEF Typed
  <2> HIDE DEF Div4
  <2>3. tm.e4 \div Div4(tm) \in Int
    BY <2>2, DivisionParts
  <2> QED BY <1>1, <2>1, <2>3
<1> QED BY <1>2, <1>3

-----------------------------------------------------------------------------
\* An update forgets whole ticks, which it has put into the counter

LEMMA Update3 ==
  ASSUME NEW tm, Typed(tm)
  PROVE  /\ Typed(UpdateTimer3(tm)) /\ Reads(UpdateTimer3(tm)) = Reads(tm)
         /\ tm.OCIE3A => Ticks3(UpdateTimer3(tm)) = 0
<1> DEFINE k == Ticks3(tm)
           n == (tm.TCNT3 + k) % N3
           u == UpdateTimer3(tm)
<1>1. CASE ~tm.OCIE3A \/ k = 0
  BY <1>1 DEF UpdateTimer3
<1>2. CASE ~(~tm.OCIE3A \/ k = 0)
  <2> DEFINE hit == Matches(tm.TCNT3, n, tm.OCR3A, k, N3)
             x == [tm EXCEPT !.TCNT3 = n, !.OCF3A = @ \/ hit, !.Timer3ATriggered = hit]
  <2>1. u = [x EXCEPT !.e3 = @ - Ticks3(x) * Div3]
    BY <1>2 DEF UpdateTimer3, markTimer3Update
  <2>2. /\ x = [f \in Fields |-> x[f]] /\ x.TCNT3 = n /\ x.e3 = tm.e3
        /\ x.TCNT4 = tm.TCNT4 /\ x.e4 = tm.e4 /\ x.presc4 = tm.presc4
    <3> HIDE DEF n, hit
    <3> QED BY FieldNames DEF Typed
  <2> HIDE DEF x
  <2>3. Ticks3(x) = k
    BY <2>2 DEF Ticks3
  <2>4. /\ u = [f \in Fields |-> u[f]] /\ u.TCNT3 = n /\ u.e3 = tm.e3 - k * Div3
        /\ u.TCNT4 = tm.TCNT4 /\ u.e4 = tm.e4 /\ u.presc4 = tm.presc4
    <3> HIDE DEF n, k
    <3> QED BY <2>1, <2>2, <2>3, FieldNames
  <2> HIDE DEF u
  <2>5. /\ k \in Int /\ tm.TCNT3 + k \in Int /\ tm.e3 \in Int
        /\ N3 \in Nat \ {0} /\ Div3 \in Nat \ {0}
    BY TicksNat, TimersAssumption DEF Typed
  <2>6. n \in 0..(N3 - 1) /\ n % N3 = n
    BY <2>5, DivisionParts, SmallDivision
  <2>7. tm.e3 - k * Div3 = tm.e3 % Div3 /\ tm.e3 % Div3 \in 0..(Div3 - 1)
    <3>1. tm.e3 = Div3 * k + (tm.e3 % Div3) /\ tm.e3 % Div3 \in 0..(Div3 - 1)
      BY <2>5, DivisionParts DEF Ticks3
    <3> DEFINE r == tm.e3 % Div3
               p == Div3 * k
    <3>2. p = k * Div3 /\ p \in Int /\ r \in Int
      BY <2>5, <3>1
    <3> HIDE DEF r, p, k
    <3>3. tm.e3 - p = r
      BY <2>5, <3>1, <3>2 DEF r, p
    <3> QED BY <3>1, <3>2, <3>3 DEF r
  <2>8. Ticks3(u) = 0 /\ u.e3 % Div3 = tm.e3 % Div3
    BY <2>4, <2>5, <2>7, SmallDivision DEF Ticks3
  <2>9. Ticks4(u) = Ticks4(tm) /\ Div4(u) = Div4(tm)
    BY <2>4 DEF Ticks4, Div4
  <2>10. (u.TCNT3 + Ticks3(u)) % N3 = n
    <3>1. n + 0 = n
      BY <2>6, <2>5
    <3> QED BY <2>4, <2>6, <2>8, <3>1
  <2>11. Reads(u) = Reads(tm)
    BY <2>4, <2>8, <2>9, <2>10 DEF Reads
  <2>12. Typed(u)
    <3>1. u.TCNT3 \in Int /\ u.e3 \in Nat
      BY <2>4, <2>5, <2>6, <2>7
    <3> QED BY <2>4, <3>1 DEF Typed
  <2> QED BY <2>8, <2>11, <2>12 DEF u
<1> QED BY <1>1, <1>2

LEMMA Update4 ==
  ASSUME NEW tm, Typed(tm)
  PROVE  /\ Typed(UpdateTimer4(tm)) /\ Reads(UpdateTimer4(tm)) = Reads(tm)
         /\ UpdateTimer4(tm).presc4 = tm.presc4 /\ Ticks4(UpdateTimer4(tm)) = 0
<1> DEFINE k == Ticks4(tm)
           d == Div4(tm)
           n == (tm.TCNT4 + k) % N4
           u == UpdateTimer4(tm)
<1>1. CASE k = 0
  BY <1>1 DEF UpdateTimer4
<1>2. CASE k # 0
  <2>0. tm.presc4 # 0 /\ k = tm.e4 \div d
    BY <1>2 DEF Ticks4
  <2> DEFINE over == n < tm.TCNT4 \/ k >= N4
             hit == Matches(tm.TCNT4, n, tm.OCR4A, k, N3)
             x == [tm EXCEPT !.TCNT4 = n, !.TOV4 = @ \/ (tm.TOIE4 /\ over),
                             !.OC4A = IF tm.DDRC THEN hit ELSE @,
                             !.Timer4ATriggered = IF tm.DDRC THEN hit ELSE @]
  <2>1. u = [x EXCEPT !.e4 = @ - Ticks4(x) * Div4(x)]
    BY <1>2 DEF UpdateTimer4, markTimer4Update
  <2>2. /\ x = [f \in Fields |-> x[f]] /\ x.TCNT4 = n /\ x.e4 = tm.e4
        /\ x.TCNT3 = tm.TCNT3 /\ x.e3 = tm.e3 /\ x.presc4 = tm.presc4
    <3> HIDE DEF n, hit, over
    <3> QED BY FieldNames DEF Typed
  <2> HIDE DEF x
  <2>3. Ticks4(x) = k /\ Div4(x) = d
    BY <2>2 DEF Ticks4, Div4
  <2>4. /\ u = [f \in Fields |-> u[f]] /\ u.TCNT4 = n /\ u.e4 = tm.e4 - k * d
        /\ u.TCNT3 = tm.TCNT3 /\ u.e3 = tm.e3 /\ u.presc4 = tm.presc4
    <3> HIDE DEF n, k, d
    <3> QED BY <2>1, <2>2, <2>3, FieldNames
  <2> HIDE DEF u
  <2>5. /\ k \in Int /\ tm.TCNT4 + k \in Int /\ tm.e4 \in Int
        /\ N4 \in Nat \ {0} /\ d \in Nat \ {0}
    BY <2>0, TicksNat, Divisors, TimersAssumption DEF Typed
  <2>6. n \in 0..(N4 - 1) /\ n % N4 = n
    BY <2>5, DivisionParts, SmallDivision
  <2> HIDE DEF d
  <2>7. tm.e4 - k * d = tm.e4 % d /\ tm.e4 % d \in 0..(d - 1)
    <3>1. tm.e4 = d * k + (tm.e4 % d) /\ tm.e4 % d \in 0..(d - 1)
      BY <2>0, <2>5, DivisionParts
    <3> DEFINE r == tm.e4 % d
               p == d * k
    <3>2. p = k * d /\ p \in Int /\ r \in Int
      BY <2>5, <3>1
    <3> HIDE DEF r, p, k
    <3>3. tm.e4 - p = r
      BY <2>5, <3>1, <3>2 DEF r, p
    <3> QED BY <3>1, <3>2, <3>3 DEF r
  <2>8. Div4(u) = d
    BY <2>4 DEF Div4, d
  <2>9. Ticks4(u) = 0 /\ u.e4 % d = tm.e4 % d
    BY <2>0, <2>4, <2>5, <2>7, <2>8, SmallDivision DEF Ticks4
  <2>10. Ticks3(u) = Ticks3(tm)
    BY <2>4 DEF Ticks3
  <2>11. (u.TCNT4 + Ticks4(u)) % N4 = n
    <3>1. n + 0 = n
      BY <2>6, <2>5
    <3> QED BY <2>4, <2>6, <2>9, <3>1
  <2>12. Reads(u) = Reads(tm)
    BY <2>0, <2>4, <2>8, <2>9, <2>10, <2>11 DEF Reads, d
  <2>13. Typed(u)
    <3>1. u.TCNT4 \in Int /\ u.e4 \in Nat
      BY <2>4, <2>5, <2>6, <2>7
    <3> QED BY <2>0, <2>4, <3>1 DEF Typed
  <2> QED BY <2>4, <2>9, <2>12, <2>13 DEF u
<1> QED BY <1>1, <1>2

LEMMA UpdateKeeps ==
  ASSUME NEW tm, Typed(tm)
  PROVE  LET u == checkForIntr(updateTimers(tm))
         IN  /\ Typed(u) /\ Reads(u) = Reads(tm)
             /\ u.presc4 = updateTimers(tm).presc4 /\ Ticks4(u) = 0
<1> DEFINE v == UpdateTimer3(tm)
           w == UpdateTimer4(v)
           u == checkForIntr(w)
<1>1. Typed(v) /\ Reads(v) = Reads(tm)
  BY Update3
<1> HIDE DEF v
<1>2. Typed(w) /\ Reads(w) = Reads(v) /\ Ticks4(w) = 0
  BY <1>1, Update4
<1> HIDE DEF w
<1>3. /\ u = [f \in Fields |-> u[f]]
      /\ SameTime(u, w)
  BY <1>2, FieldNames DEF checkForIntr, Typed, SameTime
<1> HIDE DEF u
<1>4. Typed(u)
  BY <1>2, <1>3 DEF Typed, SameTime
<1>5. Reads(u) = Reads(w) /\ Ticks4(u) = Ticks4(w)
  BY <1>3, SameTimeReads DEF SameTime, Ticks4, Div4
<1>6. updateTimers(tm) = w
  BY DEF updateTimers, v, w
<1> QED BY <1>1, <1>2, <1>3, <1>4, <1>5, <1>6 DEF u, SameTime

(* Cycles that go by are counted alike by the registers and by a timer that *)
(* counts each cycle.                                                       *)
LEMMA ElapseKeeps ==
  ASSUME NEW tm, Typed(tm), NEW c \in Nat, NEW now, NEW dueNow,
         now = Reads(tm), Elapse(c, tm, now, dueNow)
  PROVE  Counting'
<1> DEFINE d4 == IF tm.presc4 = 0 THEN 1 ELSE Div4(tm)
           n3 == (now.s3 + c) \div Div3
           n4 == IF tm.presc4 = 0 THEN 0 ELSE (now.s4 + c) \div d4
<1>1. /\ t' = [tm EXCEPT !.e3 = @ + c, !.e4 = IF tm.presc4 = 0 THEN 0 ELSE @ + c]
      /\ real' = [c3 |-> (now.c3 + n3) % N3, s3 |-> (now.s3 + c) % Div3,
                  c4 |-> (now.c4 + n4) % N4,
                  s4 |-> IF tm.presc4 = 0 THEN 0 ELSE (now.s4 + c) % d4]
  BY DEF Elapse
<1>2. /\ t' = [f \in Fields |-> t'[f]] /\ t'.TCNT3 = tm.TCNT3 /\ t'.TCNT4 = tm.TCNT4
      /\ t'.presc4 = tm.presc4 /\ t'.e3 = tm.e3 + c
      /\ t'.e4 = IF tm.presc4 = 0 THEN 0 ELSE tm.e4 + c
  BY <1>1, FieldNames DEF Typed
<1>3. /\ Div3 \in Nat \ {0} /\ N3 \in Nat \ {0} /\ N4 \in Nat \ {0}
      /\ tm.TCNT3 \in Int /\ tm.TCNT4 \in Int /\ tm.e3 \in Nat /\ tm.e4 \in Nat
      /\ Ticks3(tm) \in Int /\ Ticks4(tm) \in Int
  BY TimersAssumption, TicksNat DEF Typed
<1>4. Typed(t')
  BY <1>2, <1>3 DEF Typed
<1>5. /\ now.c3 = (tm.TCNT3 + (tm.e3 \div Div3)) % N3 /\ now.s3 = tm.e3 % Div3
      /\ now.c4 = (tm.TCNT4 + Ticks4(tm)) % N4
      /\ now.s4 = IF tm.presc4 = 0 THEN 0 ELSE tm.e4 % Div4(tm)
  BY DEF Reads, Ticks3
<1>6. /\ (tm.TCNT3 + ((tm.e3 + c) \div Div3)) % N3
           = (((tm.TCNT3 + (tm.e3 \div Div3)) % N3) + (((tm.e3 % Div3) + c) \div Div3)) % N3
      /\ (tm.e3 + c) % Div3 = ((tm.e3 % Div3) + c) % Div3
  <2>1. /\ tm.TCNT3 \in Int /\ tm.e3 \in Int /\ c \in Int
        /\ Div3 \in Nat \ {0} /\ N3 \in Nat \ {0}
    BY <1>3
  <2> DEFINE x == tm.TCNT3
             e == tm.e3
             later == e + c
             now3 == Rest(e, Div3) + c
  <2>2. /\ Moved(x, Whole(later, Div3), N3) = Moved(Moved(x, Whole(e, Div3), N3), Whole(now3, Div3), N3)
        /\ Rest(later, Div3) = Rest(now3, Div3)
    <3>1. x \in Int /\ e \in Int /\ later = e + c /\ now3 = Rest(e, Div3) + c
      BY <2>1
    <3> HIDE DEF x, e, later, now3
    <3> QED BY <2>1, <3>1, CountLater
  <2> QED BY <2>2 DEF Moved, Whole, Rest
<1>7. Reads(t').c3 = (now.c3 + n3) % N3 /\ Reads(t').s3 = (now.s3 + c) % Div3
  BY <1>2, <1>5, <1>6 DEF Reads, Ticks3
<1>8. CASE tm.presc4 = 0
  <2>1. Ticks4(tm) = 0 /\ Ticks4(t') = 0 /\ n4 = 0
    BY <1>2, <1>8 DEF Ticks4
  <2>2. (tm.TCNT4 + 0) % N4 = (((tm.TCNT4 + 0) % N4) + 0) % N4
    <3> DEFINE x == tm.TCNT4 + 0
    <3>1. x \in Int
      BY <1>3
    <3> HIDE DEF x
    <3> DEFINE y == x % N4
    <3>2. y \in 0..(N4 - 1) /\ y \in Int
      BY <1>3, <3>1, DivisionParts
    <3> HIDE DEF y
    <3>3. y + 0 = y
      BY <3>2
    <3>4. (y + 0) % N4 = y
      BY <1>3, <3>2, <3>3, SmallDivision
    <3> QED BY <3>4 DEF x, y
  <2>3. real' = Reads(t')
    BY <1>1, <1>2, <1>5, <1>7, <1>8, <2>1, <2>2 DEF Reads
  <2> QED BY <1>4, <2>3 DEF Counting
<1>9. CASE tm.presc4 # 0
  <2> DEFINE d == Div4(tm)
  <2>1. d \in Nat \ {0} /\ d4 = d /\ Div4(t') = d
    BY <1>2, <1>9, Divisors DEF Div4
  <2>2. Ticks4(tm) = tm.e4 \div d /\ Ticks4(t') = t'.e4 \div d
    BY <1>2, <1>9, <2>1 DEF Ticks4
  <2> HIDE DEF d, d4
  <2>3. /\ (tm.TCNT4 + ((tm.e4 + c) \div d)) % N4
             = (((tm.TCNT4 + (tm.e4 \div d)) % N4) + (((tm.e4 % d) + c) \div d)) % N4
        /\ (tm.e4 + c) % d = ((tm.e4 % d) + c) % d
    <3>1. /\ tm.TCNT4 \in Int /\ tm.e4 \in Int /\ c \in Int
          /\ d \in Nat \ {0} /\ N4 \in Nat \ {0}
      BY <1>3, <2>1
    <3> DEFINE x == tm.TCNT4
               e == tm.e4
               later == e + c
               now4 == Rest(e, d) + c
    <3>2. /\ Moved(x, Whole(later, d), N4) = Moved(Moved(x, Whole(e, d), N4), Whole(now4, d), N4)
          /\ Rest(later, d) = Rest(now4, d)
      <4>1. x \in Int /\ e \in Int /\ later = e + c /\ now4 = Rest(e, d) + c
        BY <3>1
      <4> HIDE DEF x, e, later, now4
      <4> QED BY <3>1, <4>1, CountLater
    <3> QED BY <3>2 DEF Moved, Whole, Rest
  <2>4. now.s4 = tm.e4 % d /\ n4 = (now.s4 + c) \div d
    BY <1>5, <1>9, <2>1 DEF d
  <2>5. Reads(t').c4 = (now.c4 + n4) % N4 /\ Reads(t').s4 = (now.s4 + c) % d
    BY <1>2, <1>5, <1>9, <2>1, <2>2, <2>3, <2>4 DEF Reads
  <2>6. real' = Reads(t')
    BY <1>1, <1>7, <1>9, <2>1, <2>5 DEF Reads
  <2> QED BY <1>4, <2>6 DEF Counting
<1> QED BY <1>8, <1>9

-----------------------------------------------------------------------------
LEMMA WritesKeep ==
  ASSUME Counting, NEW tm, tm = [f \in Fields |-> tm[f]], SameTime(tm, t), Writes(tm)
  PROVE  Counting'
<1>1. PICK c \in Cycles, dueNow \in {due, [timer3 |-> None, timer4 |-> due.timer4],
                                    [timer3 |-> due.timer3, timer4 |-> due.timer4]} :
        Elapse(c, tm, real, dueNow)
  BY DEF Writes
<1>2. Typed(tm)
  BY DEF Counting, Typed, SameTime
<1>3. real = Reads(tm)
  BY SameTimeReads DEF Counting
<1>4. c \in Nat
  BY TimersAssumption
<1> QED BY <1>1, <1>2, <1>3, <1>4, ElapseKeeps

LEMMA SwitchKeeps ==
  ASSUME Counting, NEW p \in Prescs4
  PROVE  /\ Typed(setTCCR4B(t, p))
         /\ Reads(setTCCR4B(t, p)) = [real EXCEPT !.s4 = 0]
<1> DEFINE x == IF t.presc4 = 0 THEN t ELSE checkForIntr(updateTimers(t))
           s == setTCCR4B(t, p)
<1>1. Typed(x) /\ Reads(x) = real /\ Ticks4(x) = 0
  <2>1. Typed(t) /\ real = Reads(t)
    BY DEF Counting
  <2>2. CASE t.presc4 = 0
    BY <2>1, <2>2 DEF Ticks4
  <2>3. CASE t.presc4 # 0
    BY <2>1, <2>3, UpdateKeeps
  <2> QED BY <2>2, <2>3
<1>2. s = [x EXCEPT !.presc4 = p, !.e4 = 0]
  BY DEF setTCCR4B, SwitchClock
<1> HIDE DEF x
<1>3. /\ s = [f \in Fields |-> s[f]] /\ s.TCNT3 = x.TCNT3 /\ s.e3 = x.e3
      /\ s.TCNT4 = x.TCNT4 /\ s.e4 = 0 /\ s.presc4 = p
  BY <1>1, <1>2, FieldNames DEF Typed
<1> HIDE DEF s
<1>4. Typed(s)
  BY <1>1, <1>3 DEF Typed
<1>5. Ticks3(s) = Ticks3(x)
  BY <1>3 DEF Ticks3
<1>6. Ticks4(s) = 0 /\ (p # 0 => s.e4 % Div4(s) = 0)
  <2>1. CASE p = 0
    BY <1>3, <2>1 DEF Ticks4
  <2>2. CASE p # 0
    <3>1. Div4(s) \in Nat \ {0}
      BY <1>3, <1>4, <2>2, Divisors
    <3> HIDE DEF Div4
    <3>2. 0 \div Div4(s) = 0 /\ 0 % Div4(s) = 0
      BY <3>1, SmallDivision
    <3> QED BY <1>3, <2>2, <3>2 DEF Ticks4
  <2> QED BY <2>1, <2>2
<1>7. Reads(s) = [c3 |-> Reads(x).c3, s3 |-> Reads(x).s3, c4 |-> Reads(x).c4, s4 |-> 0]
  BY <1>1, <1>3, <1>5, <1>6 DEF Reads
<1>8. [real EXCEPT !.s4 = 0] = [c3 |-> real.c3, s3 |-> real.s3, c4 |-> real.c4, s4 |-> 0]
  BY DEF Counting, Reads
<1> QED BY <1>1, <1>4, <1>7, <1>8 DEF s

LEMMA NextCounting ==
  ASSUME Counting, [Next]_vars
  PROVE  Counting'
<1>0. Typed(t) /\ t = [f \in Fields |-> t[f]]
  BY DEF Counting, Typed
<1>1. CASE StartPass
  BY <1>1 DEF StartPass, Counting
<1>2. CASE EndPass
  <2>1. Typed(t') /\ Reads(t') = Reads(t) /\ real' = real
    BY <1>0, <1>2, UpdateKeeps DEF EndPass
  <2> QED BY <2>1 DEF Counting
<1>3. CASE Plain
  BY <1>0, <1>3, WritesKeep DEF Plain, SameTime
<1>4. CASE WriteOCR3A
  <2>1. PICK v \in Targets : Writes([t EXCEPT !.OCR3A = v])
    BY <1>4 DEF WriteOCR3A
  <2> QED BY <1>0, <2>1, WritesKeep, FieldNames DEF SameTime
<1>5. CASE WriteTIMSK3
  <2>1. Writes([t EXCEPT !.OCIE3A = ~@])
    BY <1>5 DEF WriteTIMSK3
  <2> QED BY <1>0, <2>1, WritesKeep, FieldNames DEF SameTime
<1>6. CASE WriteTIMSK4
  <2>1. PICK on, match \in BOOLEAN : Writes([t EXCEPT !.TOIE4 = on, !.OCIE4A = match])
    BY <1>6 DEF WriteTIMSK4
  <2> QED BY <1>0, <2>1, WritesKeep, FieldNames DEF SameTime
<1>7. CASE WriteOC4A
  <2>1. PICK v \in Targets, on \in BOOLEAN : Writes([t EXCEPT !.OCR4A = v, !.DDRC = on])
    BY <1>7 DEF WriteOC4A
  <2> QED BY <1>0, <2>1, WritesKeep, FieldNames DEF SameTime
<1>8. CASE WriteTCCR4B
  <2>1. PICK p \in Prescs4 \ {t.presc4}, c \in Cycles :
          Elapse(c, setTCCR4B(t, p), [real EXCEPT !.s4 = 0], IF t.presc4 = 0 THEN due ELSE Seen)
    BY <1>8 DEF WriteTCCR4B
  <2>2. Typed(setTCCR4B(t, p)) /\ Reads(setTCCR4B(t, p)) = [real EXCEPT !.s4 = 0]
    BY SwitchKeeps
  <2>3. c \in Nat
    BY TimersAssumption
  <2> QED BY <2>1, <2>2, <2>3, ElapseKeeps
<1>9. CASE UNCHANGED vars
  BY <1>9 DEF vars, Counting
<1> QED BY <1>1, <1>2, <1>3, <1>4, <1>5, <1>6, <1>7, <1>8, <1>9 DEF Next

LEMMA InitCounting ==
  ASSUME Init
  PROVE  Counting
<1>1. /\ t = Off /\ t.TCNT3 = 0 /\ t.TCNT4 = 0 /\ t.e3 = 0 /\ t.e4 = 0 /\ t.presc4 = 0
  BY DEF Init, Off
<1>2. Typed(t)
  BY <1>1 DEF Typed, Fields, Off
<1>3. 0 \div Div3 = 0 /\ 0 % Div3 = 0 /\ 0 % N3 = 0 /\ 0 % N4 = 0
  BY TimersAssumption, SmallDivision
<1>4. Ticks3(t) = 0 /\ Ticks4(t) = 0
  BY <1>1, <1>3 DEF Ticks3, Ticks4
<1>5. Reads(t) = [c3 |-> 0, s3 |-> 0, c4 |-> 0, s4 |-> 0]
  BY <1>1, <1>3, <1>4 DEF Reads
<1> QED BY <1>2, <1>5 DEF Init, Counting

(* Ticks not in the registers yet included, the counters of timers 3 and 4 are *)
(* those of timers that count each cycle (updateTimers, setTCCR4B).            *)
THEOREM CountersStayTrue == Spec => []CountersTrue
<1>1. Counting => CountersTrue
  BY DEF Counting, Reads, CountersTrue
<1> QED BY <1>1, InitCounting, NextCounting, PTL DEF Spec

-----------------------------------------------------------------------------
(* A set of numbers has a least one, which is what Min chooses. *)
LEMMA Least ==
  ASSUME NEW S \in SUBSET Nat, S # {}
  PROVE  Min(S) \in S /\ \A n \in S : Min(S) <= n
<1> DEFINE R == {ss \in Nat \X Nat : ss[1] < ss[2]}
<1>1. OpToRel(<, Nat) = R
  BY Zenon DEF OpToRel
<1>2. IsWellFoundedOn(R, Nat)
  BY <1>1, NatLessThanWellFounded
<1>3. PICK x \in S : \A y \in S : ~ (<<y, x>> \in R)
  <2> HIDE DEF R
  <2> QED BY <1>2, WFMin, Zenon
<1>4. \A y \in S : x =< y
  <2> SUFFICES ASSUME NEW y \in S, ~(x =< y) PROVE FALSE
    OBVIOUS
  <2>1. y \in Nat /\ x \in Nat /\ y < x
    OBVIOUS
  <2>2. <<y, x>> \in R
    BY <2>1
  <2> QED BY <1>3, <2>2, Zenon
<1> QED BY <1>4 DEF Min

-----------------------------------------------------------------------------
\* What an update sees

(* The counters and the values they are compared with are below their moduli. *)
Ranged(tm) ==
  /\ tm.TCNT3 \in 0..(N3 - 1) /\ tm.OCR3A \in 0..(N3 - 1)
  /\ tm.TCNT4 \in 0..(N4 - 1) /\ tm.OCR4A \in 0..(N3 - 1)
(* An event that has happened lies among the ticks not yet in the register. *)
Owes3(tm) == \E k \in 1..Ticks3(tm) : (tm.TCNT3 + k) % N3 = tm.OCR3A
Owes4(tm) == \E k \in 1..Ticks4(tm) : (tm.TCNT4 + k) % N4 = 0
(* A counter that stands at its target has stood there for a cycle, unless the *)
(* update that took it there has seen it arrive.                               *)
Standing(tm) ==
  /\ tm.OCIE3A /\ ~tm.Timer3ATriggered /\ tm.TCNT3 = tm.OCR3A => tm.e3 > 0
  /\ /\ tm.presc4 # 0 /\ tm.DDRC /\ ~tm.Timer4ATriggered /\ tm.TCNT4 = tm.OCR4A
     => tm.e4 > 0

LEMMA MatchesSeen ==
  ASSUME NEW a \in 0..(N3 - 1), NEW target \in 0..(N3 - 1), NEW ticks \in Nat,
         NEW k \in 1..ticks, (a + k) % N3 = target
  PROVE  Matches(a, (a + ticks) % N3, target, ticks, N3)
<1>1. CASE ticks >= N3
  BY <1>1 DEF Matches
<1>2. CASE ticks < N3
  <2>1. N3 \in Nat \ {0} /\ a + k \in 0..(2 * N3 - 1) /\ a + ticks \in 0..(2 * N3 - 1)
    BY <1>2, TimersAssumption
  <2>2. /\ target = (IF a + k < N3 THEN a + k ELSE (a + k) - N3)
        /\ (a + ticks) % N3 = (IF a + ticks < N3 THEN a + ticks ELSE (a + ticks) - N3)
    BY <2>1, WrapsOnce
  <2> QED BY <1>2, <2>1, <2>2 DEF Matches
<1> QED BY <1>1, <1>2, TimersAssumption

LEMMA OverflowSeen ==
  ASSUME NEW a \in 0..(N4 - 1), NEW ticks \in Nat, NEW k \in 1..ticks, (a + k) % N4 = 0
  PROVE  (a + ticks) % N4 < a \/ ticks >= N4
<1>1. SUFFICES ASSUME ticks < N4
               PROVE  (a + ticks) % N4 < a
  BY TimersAssumption
<1>2. N4 \in Nat \ {0} /\ a + k \in 0..(2 * N4 - 1) /\ a + ticks \in 0..(2 * N4 - 1)
  BY <1>1, TimersAssumption
<1>3. /\ 0 = (IF a + k < N4 THEN a + k ELSE (a + k) - N4)
      /\ (a + ticks) % N4 = (IF a + ticks < N4 THEN a + ticks ELSE (a + ticks) - N4)
  BY <1>2, WrapsOnce
<1> QED BY <1>1, <1>2, <1>3

(* What UpdateTimer3 does to the registers. *)
LEMMA Update3Fields ==
  ASSUME NEW tm, Typed(tm)
  PROVE  LET u == UpdateTimer3(tm)
             n == (tm.TCNT3 + Ticks3(tm)) % N3
             hit == Matches(tm.TCNT3, n, tm.OCR3A, Ticks3(tm), N3)
         IN  /\ u.OCR3A = tm.OCR3A /\ u.OCIE3A = tm.OCIE3A
             /\ u.TCNT4 = tm.TCNT4 /\ u.e4 = tm.e4 /\ u.presc4 = tm.presc4
             /\ u.TOIE4 = tm.TOIE4 /\ u.OCIE4A = tm.OCIE4A /\ u.TOV4 = tm.TOV4
             /\ u.OCR4A = tm.OCR4A /\ u.DDRC = tm.DDRC /\ u.Timer4ATriggered = tm.Timer4ATriggered
             /\ ~tm.OCIE3A \/ Ticks3(tm) = 0 => u = tm
             /\ ~(~tm.OCIE3A \/ Ticks3(tm) = 0) =>
                  /\ u.TCNT3 = n /\ u.Timer3ATriggered = hit
                  /\ hit => u.OCF3A
<1> DEFINE u == UpdateTimer3(tm)
           n == (tm.TCNT3 + Ticks3(tm)) % N3
           hit == Matches(tm.TCNT3, n, tm.OCR3A, Ticks3(tm), N3)
           x == [tm EXCEPT !.TCNT3 = n, !.OCF3A = @ \/ hit, !.Timer3ATriggered = hit]
<1>1. CASE ~tm.OCIE3A \/ Ticks3(tm) = 0
  BY <1>1 DEF UpdateTimer3
<1>2. CASE ~(~tm.OCIE3A \/ Ticks3(tm) = 0)
  <2>1. u = [x EXCEPT !.e3 = @ - Ticks3(x) * Div3]
    BY <1>2 DEF UpdateTimer3, markTimer3Update
  <2> DEFINE e == tm.e3 - Ticks3(x) * Div3
  <2> HIDE DEF u
  <2>2. x.e3 = tm.e3
    BY FieldNames DEF Typed
  <2>3. u = [x EXCEPT !.e3 = e]
    <3> HIDE DEF x
    <3> QED BY <2>1, <2>2
  <2> HIDE DEF n, hit, e
  <2>4. /\ u.OCR3A = tm.OCR3A /\ u.OCIE3A = tm.OCIE3A
        /\ u.TCNT4 = tm.TCNT4 /\ u.e4 = tm.e4 /\ u.presc4 = tm.presc4
        /\ u.TOIE4 = tm.TOIE4 /\ u.OCIE4A = tm.OCIE4A /\ u.TOV4 = tm.TOV4
        /\ u.OCR4A = tm.OCR4A /\ u.DDRC = tm.DDRC /\ u.Timer4ATriggered = tm.Timer4ATriggered
        /\ u.TCNT3 = n /\ u.Timer3ATriggered = hit
    BY <2>3, FieldNames DEF Typed
  <2>5. u.OCF3A = (tm.OCF3A \/ hit)
    BY <2>3, FieldNames DEF Typed
  <2>6. hit => u.OCF3A
    BY <2>5
  <2> QED BY <1>2, <2>4, <2>6 DEF u, n, hit
<1> QED BY <1>1, <1>2

(* What UpdateTimer4 does to them. *)
LEMMA Update4Fields ==
  ASSUME NEW tm, Typed(tm)
  PROVE  LET u == UpdateTimer4(tm)
             n == (tm.TCNT4 + Ticks4(tm)) % N4
             over == n < tm.TCNT4 \/ Ticks4(tm) >= N4
             hit == Matches(tm.TCNT4, n, tm.OCR4A, Ticks4(tm), N3)
         IN  /\ u.TCNT3 = tm.TCNT3 /\ u.e3 = tm.e3 /\ u.OCR3A = tm.OCR3A
             /\ u.OCIE3A = tm.OCIE3A /\ u.OCF3A = tm.OCF3A
             /\ u.Timer3ATriggered = tm.Timer3ATriggered
             /\ u.presc4 = tm.presc4 /\ u.TOIE4 = tm.TOIE4 /\ u.OCR4A = tm.OCR4A
             /\ u.DDRC = tm.DDRC
             /\ Ticks4(tm) = 0 => u = tm
             /\ Ticks4(tm) # 0 =>
                  /\ u.TCNT4 = n
                  /\ tm.DDRC => u.Timer4ATriggered = hit
                  /\ tm.TOIE4 /\ over => u.TOV4
<1> DEFINE u == UpdateTimer4(tm)
           n == (tm.TCNT4 + Ticks4(tm)) % N4
           over == n < tm.TCNT4 \/ Ticks4(tm) >= N4
           hit == Matches(tm.TCNT4, n, tm.OCR4A, Ticks4(tm), N3)
           x == [tm EXCEPT !.TCNT4 = n, !.TOV4 = @ \/ (tm.TOIE4 /\ over),
                           !.OC4A = IF tm.DDRC THEN hit ELSE @,
                           !.Timer4ATriggered = IF tm.DDRC THEN hit ELSE @]
<1>1. CASE Ticks4(tm) = 0
  BY <1>1 DEF UpdateTimer4
<1>2. CASE Ticks4(tm) # 0
  <2>1. u = [x EXCEPT !.e4 = @ - Ticks4(x) * Div4(x)]
    BY <1>2 DEF UpdateTimer4, markTimer4Update
  <2> DEFINE e == tm.e4 - Ticks4(x) * Div4(x)
  <2> HIDE DEF u
  <2>2. x.e4 = tm.e4
    BY FieldNames DEF Typed
  <2>3. u = [x EXCEPT !.e4 = e]
    <3> HIDE DEF x
    <3> QED BY <2>1, <2>2
  <2> HIDE DEF n, hit, e, over
  <2>4. /\ u.TCNT3 = tm.TCNT3 /\ u.e3 = tm.e3 /\ u.OCR3A = tm.OCR3A
        /\ u.OCIE3A = tm.OCIE3A /\ u.OCF3A = tm.OCF3A
        /\ u.Timer3ATriggered = tm.Timer3ATriggered
        /\ u.presc4 = tm.presc4 /\ u.TOIE4 = tm.TOIE4 /\ u.OCR4A = tm.OCR4A
        /\ u.DDRC = tm.DDRC /\ u.TCNT4 = n
    BY <2>3, FieldNames DEF Typed
  <2>5. /\ tm.DDRC => u.Timer4ATriggered = hit
        /\ u.TOV4 = (tm.TOV4 \/ (tm.TOIE4 /\ over))
    BY <2>3, FieldNames DEF Typed
  <2>6. tm.TOIE4 /\ over => u.TOV4
    BY <2>5
  <2> QED BY <1>2, <2>4, <2>5, <2>6 DEF u, n, hit, over
<1> QED BY <1>1, <1>2

LEMMA ArrivalSeen ==
  ASSUME NEW a \in Int, NEW n \in Int, NEW ticks \in Int, NEW whole \in Int
  PROVE  Matches(a, n, n, ticks, whole)
BY DEF Matches

(* An update leaves no whole tick behind, and a counter it puts on its target *)
(* has been seen to get there.                                                *)
LEMMA UpdateSettles ==
  ASSUME NEW tm, Typed(tm), Ranged(tm), Standing(tm)
  PROVE  LET u == checkForIntr(updateTimers(tm))
         IN  /\ Ranged(u) /\ Standing(u)
             /\ u.OCIE3A = tm.OCIE3A /\ u.OCR3A = tm.OCR3A
             /\ u.OCIE3A => Ticks3(u) = 0
<1> DEFINE v == UpdateTimer3(tm)
           w == UpdateTimer4(v)
           u == checkForIntr(w)
           k == Ticks3(tm)
           l == Ticks4(v)
           n == (tm.TCNT3 + k) % N3
           m == (v.TCNT4 + l) % N4
           hit3 == Matches(tm.TCNT3, n, tm.OCR3A, k, N3)
           hit4 == Matches(v.TCNT4, m, v.OCR4A, l, N3)
<1>1. Typed(v)
  BY Update3
<1>2. /\ v.OCR3A = tm.OCR3A /\ v.OCIE3A = tm.OCIE3A
      /\ v.TCNT4 = tm.TCNT4 /\ v.e4 = tm.e4 /\ v.presc4 = tm.presc4
      /\ v.OCR4A = tm.OCR4A /\ v.DDRC = tm.DDRC /\ v.Timer4ATriggered = tm.Timer4ATriggered
      /\ ~tm.OCIE3A \/ k = 0 => v = tm
      /\ ~(~tm.OCIE3A \/ k = 0) => v.TCNT3 = n /\ v.Timer3ATriggered = hit3
  BY Update3Fields
<1>3. v.OCIE3A => Ticks3(v) = 0
  BY <1>2, Update3
<1> HIDE DEF v
<1>4. Typed(w)
  BY <1>1, Update4
<1>5. /\ w.TCNT3 = v.TCNT3 /\ w.e3 = v.e3 /\ w.OCR3A = v.OCR3A
      /\ w.OCIE3A = v.OCIE3A /\ w.Timer3ATriggered = v.Timer3ATriggered
      /\ w.presc4 = v.presc4 /\ w.OCR4A = v.OCR4A /\ w.DDRC = v.DDRC
      /\ l = 0 => w = v
      /\ l # 0 => w.TCNT4 = m /\ (v.DDRC => w.Timer4ATriggered = hit4)
  BY <1>1, Update4Fields
<1> HIDE DEF w
<1>6. /\ u.TCNT3 = w.TCNT3 /\ u.e3 = w.e3 /\ u.OCR3A = w.OCR3A
      /\ u.OCIE3A = w.OCIE3A /\ u.Timer3ATriggered = w.Timer3ATriggered
      /\ u.TCNT4 = w.TCNT4 /\ u.e4 = w.e4 /\ u.presc4 = w.presc4
      /\ u.OCR4A = w.OCR4A /\ u.DDRC = w.DDRC /\ u.Timer4ATriggered = w.Timer4ATriggered
  BY <1>4, FieldNames DEF checkForIntr, Typed
<1> HIDE DEF u
<1>7. /\ k \in Int /\ l \in Int /\ tm.TCNT3 \in 0..(N3 - 1) /\ v.TCNT4 \in 0..(N4 - 1)
      /\ N3 \in Nat \ {0} /\ N4 \in Nat \ {0}
    BY <1>1, <1>2, TicksNat, TimersAssumption DEF Ranged
<1>8. n \in 0..(N3 - 1) /\ m \in 0..(N4 - 1)
  <2> HIDE DEF k, l
  <2>1. tm.TCNT3 + k \in Int /\ v.TCNT4 + l \in Int
    BY <1>7
  <2> QED BY <1>7, <2>1, DivisionParts
<1>9. v.TCNT3 \in 0..(N3 - 1)
  BY <1>2, <1>7, <1>8
<1>10. w.TCNT4 \in 0..(N4 - 1)
  BY <1>5, <1>7, <1>8
<1>11. Ranged(u)
  BY <1>2, <1>5, <1>6, <1>9, <1>10 DEF Ranged
<1>12. ASSUME u.OCIE3A, ~u.Timer3ATriggered, u.TCNT3 = u.OCR3A
       PROVE  u.e3 > 0
  <2>1. tm.OCIE3A /\ ~v.Timer3ATriggered /\ v.TCNT3 = tm.OCR3A
    BY <1>2, <1>5, <1>6, <1>12
  <2>2. CASE k = 0
    BY <1>2, <1>5, <1>6, <2>1, <2>2 DEF Standing
  <2>3. CASE k # 0
    <3>1. v.TCNT3 = n /\ ~hit3 /\ n = tm.OCR3A
      BY <1>2, <2>1, <2>3
    <3> HIDE DEF n, k
    <3>2. hit3
      BY <1>7, <1>8, <3>1, ArrivalSeen, TimersAssumption
    <3> QED BY <3>1, <3>2
  <2> QED BY <2>2, <2>3
<1>13. ASSUME u.presc4 # 0, u.DDRC, ~u.Timer4ATriggered, u.TCNT4 = u.OCR4A
       PROVE  u.e4 > 0
  <2>1. v.presc4 # 0 /\ v.DDRC /\ ~w.Timer4ATriggered /\ w.TCNT4 = v.OCR4A
    BY <1>5, <1>6, <1>13
  <2>2. CASE l = 0
    <3>1. u.e4 = tm.e4 /\ tm.presc4 # 0 /\ tm.DDRC /\ ~tm.Timer4ATriggered /\ tm.TCNT4 = tm.OCR4A
      BY <1>2, <1>5, <1>6, <2>1, <2>2
    <3> QED BY <3>1 DEF Standing
  <2>3. CASE l # 0
    <3>1. w.TCNT4 = m /\ ~hit4 /\ m = v.OCR4A
      BY <1>5, <2>1, <2>3
    <3> HIDE DEF m, l
    <3>2. hit4
      BY <1>7, <1>8, <3>1, ArrivalSeen, TimersAssumption
    <3> QED BY <3>1, <3>2
  <2> QED BY <2>2, <2>3
<1>14. Standing(u)
  BY <1>12, <1>13 DEF Standing
<1>15. u.OCIE3A = tm.OCIE3A /\ u.OCR3A = tm.OCR3A /\ (u.OCIE3A => Ticks3(u) = 0)
  BY <1>2, <1>3, <1>5, <1>6 DEF Ticks3
<1>16. updateTimers(tm) = w
  BY DEF updateTimers, v, w
<1> QED BY <1>11, <1>14, <1>15, <1>16 DEF u

(* An update raises the flag of an event that lies among the ticks it takes. *)
LEMMA DuesAreSeen ==
  ASSUME NEW tm, Typed(tm), Ranged(tm)
  PROVE  /\ tm.OCIE3A /\ Owes3(tm) => updateTimers(tm).OCF3A
         /\ tm.TOIE4 /\ Owes4(tm) => updateTimers(tm).TOV4
<1> DEFINE v == UpdateTimer3(tm)
           w == UpdateTimer4(v)
<1>1. updateTimers(tm) = w
  BY DEF updateTimers
<1>2. Typed(v)
  BY Update3
<1>3. v.TCNT4 = tm.TCNT4 /\ v.TOIE4 = tm.TOIE4 /\ Ticks4(v) = Ticks4(tm)
  BY Update3Fields DEF Ticks4, Div4
<1>4. N3 \in Nat \ {0} /\ N4 \in Nat \ {0} /\ Ticks3(tm) \in Int /\ Ticks4(tm) \in Int
  BY TicksNat, TimersAssumption
<1>5. ASSUME tm.OCIE3A, Owes3(tm)
      PROVE  w.OCF3A
  <2>1. PICK k \in 1..Ticks3(tm) : (tm.TCNT3 + k) % N3 = tm.OCR3A
    BY <1>5 DEF Owes3
  <2>2. Ticks3(tm) \in Nat /\ Ticks3(tm) # 0 /\ k \in Int
    BY <1>4, <2>1
  <2> DEFINE ticks == Ticks3(tm)
             a == tm.TCNT3
             target == tm.OCR3A
  <2>3. Matches(a, (a + ticks) % N3, target, ticks, N3)
    <3>1. a \in 0..(N3 - 1) /\ target \in 0..(N3 - 1) /\ ticks \in Nat /\ k \in 1..ticks
          /\ (a + k) % N3 = target
      BY <2>1, <2>2 DEF Ranged
    <3> HIDE DEF a, target, ticks
    <3> QED BY <3>1, MatchesSeen
  <2>4. v.OCF3A
    BY <1>5, <2>2, <2>3, Update3Fields
  <2> HIDE DEF v
  <2> QED BY <1>2, <2>4, Update4Fields
<1>6. ASSUME tm.TOIE4, Owes4(tm)
      PROVE  w.TOV4
  <2>1. PICK k \in 1..Ticks4(tm) : (tm.TCNT4 + k) % N4 = 0
    BY <1>6 DEF Owes4
  <2>2. Ticks4(tm) \in Nat /\ Ticks4(tm) # 0 /\ k \in Int
    BY <1>4, <2>1
  <2> DEFINE ticks == Ticks4(tm)
             a == tm.TCNT4
  <2>3. (a + ticks) % N4 < a \/ ticks >= N4
    <3>1. a \in 0..(N4 - 1) /\ ticks \in Nat /\ k \in 1..ticks /\ (a + k) % N4 = 0
      BY <2>1, <2>2 DEF Ranged
    <3> HIDE DEF a, ticks
    <3> QED BY <3>1, OverflowSeen
  <2> HIDE DEF v
  <2> QED BY <1>2, <1>3, <1>6, <2>2, <2>3, Update4Fields
<1> QED BY <1>1, <1>5, <1>6

-----------------------------------------------------------------------------
\* What becomes due while cycles go by

Hits3(tm, now, c) == {k \in 1..((now.s3 + c) \div Div3) : (now.c3 + k) % N3 = tm.OCR3A}
Hits4(tm, now, c) == {k \in 1..((now.s4 + c) \div Div4(tm)) : (now.c4 + k) % N4 = 0}

LEMMA ElapseFields ==
  ASSUME NEW tm, Typed(tm), NEW c \in Nat, NEW now, NEW dueNow, Elapse(c, tm, now, dueNow)
  PROVE  /\ t'.TCNT3 = tm.TCNT3 /\ t'.OCR3A = tm.OCR3A /\ t'.OCIE3A = tm.OCIE3A
         /\ t'.Timer3ATriggered = tm.Timer3ATriggered /\ t'.e3 = tm.e3 + c
         /\ t'.TCNT4 = tm.TCNT4 /\ t'.OCR4A = tm.OCR4A /\ t'.TOIE4 = tm.TOIE4
         /\ t'.DDRC = tm.DDRC /\ t'.presc4 = tm.presc4
         /\ t'.e4 = IF tm.presc4 = 0 THEN 0 ELSE tm.e4 + c
         /\ Div4(t') = Div4(tm)
<1>1. t' = [tm EXCEPT !.e3 = @ + c, !.e4 = IF tm.presc4 = 0 THEN 0 ELSE @ + c]
  BY DEF Elapse
<1> QED BY <1>1, FieldNames DEF Typed, Div4

LEMMA ElapseDues ==
  ASSUME NEW tm, Typed(tm), NEW c \in Nat, NEW now, NEW dueNow, Elapse(c, tm, now, dueNow)
  PROVE  /\ due'.timer3 = IF ~tm.OCIE3A THEN None
                          ELSE IF dueNow.timer3 # None THEN dueNow.timer3 + c
                          ELSE IF Hits3(tm, now, c) # {}
                            THEN c - (Min(Hits3(tm, now, c)) * Div3 - now.s3) ELSE None
         /\ due'.timer4 = IF ~tm.TOIE4 THEN None
                          ELSE IF dueNow.timer4 # None THEN dueNow.timer4 + c
                          ELSE IF tm.presc4 # 0 /\ Hits4(tm, now, c) # {}
                            THEN c - (Min(Hits4(tm, now, c)) * Div4(tm) - now.s4) ELSE None
<1> DEFINE d == IF tm.presc4 = 0 THEN 1 ELSE Div4(tm)
           n3 == (now.s3 + c) \div Div3
           n4 == IF tm.presc4 = 0 THEN 0 ELSE (now.s4 + c) \div d
           hits3 == {k \in 1..n3 : (now.c3 + k) % N3 = tm.OCR3A}
           hits4 == {k \in 1..n4 : (now.c4 + k) % N4 = 0}
           Later(x, on, hits, div, sub) ==
             IF ~on THEN None ELSE IF x # None THEN x + c
             ELSE IF hits # {} THEN c - (Min(hits) * div - sub) ELSE None
<1>1. due' = [timer3 |-> Later(dueNow.timer3, tm.OCIE3A, hits3, Div3, now.s3),
              timer4 |-> Later(dueNow.timer4, tm.TOIE4, hits4, d, now.s4)]
  BY DEF Elapse
<1>2. hits3 = Hits3(tm, now, c)
  BY DEF Hits3
<1>3. CASE tm.presc4 = 0
  <2>1. hits4 = {}
    BY <1>3
  <2> HIDE DEF hits3, hits4
  <2> QED BY <1>1, <1>2, <1>3, <2>1
<1>4. CASE tm.presc4 # 0
  <2>1. hits4 = Hits4(tm, now, c) /\ d = Div4(tm)
    BY <1>4 DEF Hits4
  <2> HIDE DEF hits3, hits4, d
  <2> QED BY <1>1, <1>2, <1>4, <2>1
<1> QED BY <1>3, <1>4

(* A match of timer 3 among the ticks to come lies in the cycles to come, at the *)
(* deadline for it or after.                                                     *)
LEMMA Hits3Ahead ==
  ASSUME NEW tm, Typed(tm), Ranged(tm), NEW c \in Nat, NEW k \in Hits3(tm, Reads(tm), c)
  PROVE  /\ k * Div3 - Reads(tm).s3 \in 1..c
         /\ Match3(tm) <= k * Div3 - Reads(tm).s3
         /\ Ticks3(tm) + k \in 1..((tm.e3 + c) \div Div3)
         /\ (tm.TCNT3 + (Ticks3(tm) + k)) % N3 = tm.OCR3A
<1> DEFINE a == tm.TCNT3
           e == tm.e3
           target == tm.OCR3A
<1>1. /\ Reads(tm).s3 = Rest(e, Div3) /\ Reads(tm).c3 = Moved(a, Whole(e, Div3), N3)
      /\ Ticks3(tm) = Whole(e, Div3)
  BY DEF Reads, Rest, Whole, Moved, Ticks3
<1>2. k \in 1..((Rest(e, Div3) + c) \div Div3) /\ Moved(Moved(a, Whole(e, Div3), N3), k, N3) = target
  BY <1>1 DEF Hits3, Moved
<1>3. Match3(tm) = ((target - a) % N3) * Div3 - e
  BY DEF Match3
<1>4. N3 \in Nat \ {0} /\ Div3 \in Nat \ {0} /\ a \in 0..(N3 - 1) /\ target \in 0..(N3 - 1) /\ e \in Nat
  BY TimersAssumption DEF Typed, Ranged
<1> HIDE DEF a, e, target
<1>5. /\ Whole(e, Div3) + k \in 1..Whole(e + c, Div3)
      /\ (a + (Whole(e, Div3) + k)) % N3 = target
      /\ k * Div3 - Rest(e, Div3) \in 1..c
      /\ ((target - a) % N3) * Div3 - e <= k * Div3 - Rest(e, Div3)
  BY <1>2, <1>4, Hit
<1> QED BY <1>1, <1>3, <1>5 DEF a, e, target, Whole

(* So does an overflow of timer 4. *)
LEMMA Hits4Ahead ==
  ASSUME NEW tm, Typed(tm), Ranged(tm), tm.presc4 # 0, NEW c \in Nat,
         NEW k \in Hits4(tm, Reads(tm), c)
  PROVE  /\ k * Div4(tm) - Reads(tm).s4 \in 1..c
         /\ Overflow4(tm) <= k * Div4(tm) - Reads(tm).s4
         /\ Ticks4(tm) + k \in 1..((tm.e4 + c) \div Div4(tm))
         /\ (tm.TCNT4 + (Ticks4(tm) + k)) % N4 = 0
<1> DEFINE a == tm.TCNT4
           e == tm.e4
           d == Div4(tm)
           target == 0
<1>0. d \in Nat \ {0}
  BY Divisors
<1>1. /\ Reads(tm).s4 = Rest(e, d) /\ Reads(tm).c4 = Moved(a, Whole(e, d), N4)
      /\ Ticks4(tm) = Whole(e, d)
  BY DEF Reads, Rest, Whole, Moved, Ticks4
<1>2. k \in 1..((Rest(e, d) + c) \div d) /\ Moved(Moved(a, Whole(e, d), N4), k, N4) = target
  BY <1>1 DEF Hits4, Moved
<1>3. Overflow4(tm) = (N4 - a) * d - e
  BY DEF Overflow4
<1> HIDE DEF d
<1>4. N4 \in Nat \ {0} /\ a \in 0..(N4 - 1) /\ target \in 0..(N4 - 1) /\ e \in Nat
  BY TimersAssumption DEF Typed, Ranged
<1>5. target = 0
  OBVIOUS
<1> HIDE DEF a, e, target
<1>6. /\ Whole(e, d) + k \in 1..Whole(e + c, d)
      /\ (a + (Whole(e, d) + k)) % N4 = target
      /\ k * d - Rest(e, d) \in 1..c
      /\ target = 0 => (N4 - a) * d - e <= k * d - Rest(e, d)
  BY <1>0, <1>2, <1>4, Hit
<1> QED BY <1>1, <1>3, <1>5, <1>6 DEF a, e, d, Whole

(* An event falls due in the cycles that bring it, and in none before its deadline. *)
LEMMA ElapsePunctual ==
  ASSUME NEW tm, Typed(tm), Ranged(tm), NEW c \in Nat, NEW dueNow,
         Elapse(c, tm, Reads(tm), dueNow)
  PROVE  /\ dueNow.timer3 = None =>
              /\ due'.timer3 \in Int /\ due'.timer3 < c
              /\ \A l \in Int : l <= Match3(tm) /\ c < l => due'.timer3 = None
         /\ dueNow.timer4 = None =>
              /\ due'.timer4 \in Int /\ due'.timer4 < c
              /\ \A l \in Int : l <= Overflow4(tm) /\ c < l => due'.timer4 = None
<1> DEFINE now == Reads(tm)
           h3 == Hits3(tm, now, c)
           h4 == Hits4(tm, now, c)
<1>1. /\ due'.timer3 = IF ~tm.OCIE3A THEN None
                       ELSE IF dueNow.timer3 # None THEN dueNow.timer3 + c
                       ELSE IF h3 # {} THEN c - (Min(h3) * Div3 - now.s3) ELSE None
      /\ due'.timer4 = IF ~tm.TOIE4 THEN None
                       ELSE IF dueNow.timer4 # None THEN dueNow.timer4 + c
                       ELSE IF tm.presc4 # 0 /\ h4 # {} THEN c - (Min(h4) * Div4(tm) - now.s4)
                       ELSE None
  BY ElapseDues
<1>2. h3 \in SUBSET Nat /\ h4 \in SUBSET Nat
  BY DEF Hits3, Hits4
<1> HIDE DEF h3, h4
<1>3. None < c /\ None \in Int
  BY DEF None
<1>4. ASSUME dueNow.timer3 = None
      PROVE  /\ due'.timer3 \in Int /\ due'.timer3 < c
             /\ \A l \in Int : l <= Match3(tm) /\ c < l => due'.timer3 = None
  <2>1. CASE due'.timer3 = None
    BY <1>3, <2>1
  <2>2. CASE due'.timer3 # None
    <3>1. h3 # {} /\ due'.timer3 = c - (Min(h3) * Div3 - now.s3)
      BY <1>1, <1>4, <2>2
    <3>2. Min(h3) \in h3
      BY <1>2, <3>1, Least
    <3> DEFINE at == Min(h3) * Div3 - now.s3
    <3>3. at \in 1..c /\ Match3(tm) <= at
      BY <3>2, Hits3Ahead DEF h3
    <3>4. due'.timer3 = c - at
      BY <3>1
    <3>5. Match3(tm) \in Int
      <4>1. tm.OCR3A - tm.TCNT3 \in Int /\ N3 \in Nat \ {0} /\ Div3 \in Int /\ tm.e3 \in Int
        BY TimersAssumption DEF Ranged, Typed
      <4>2. (tm.OCR3A - tm.TCNT3) % N3 \in Int
        BY <4>1, DivisionParts
      <4> QED BY <4>1, <4>2 DEF Match3
    <3> HIDE DEF at
    <3> QED BY <3>3, <3>4, <3>5
  <2> QED BY <2>1, <2>2
<1>5. ASSUME dueNow.timer4 = None
      PROVE  /\ due'.timer4 \in Int /\ due'.timer4 < c
             /\ \A l \in Int : l <= Overflow4(tm) /\ c < l => due'.timer4 = None
  <2>1. CASE due'.timer4 = None
    BY <1>3, <2>1
  <2>2. CASE due'.timer4 # None
    <3>1. tm.presc4 # 0 /\ h4 # {} /\ due'.timer4 = c - (Min(h4) * Div4(tm) - now.s4)
      BY <1>1, <1>5, <2>2
    <3>2. Min(h4) \in h4
      BY <1>2, <3>1, Least
    <3> DEFINE at == Min(h4) * Div4(tm) - now.s4
    <3>3. at \in 1..c /\ Overflow4(tm) <= at
      BY <3>1, <3>2, Hits4Ahead DEF h4
    <3>4. due'.timer4 = c - at
      BY <3>1
    <3>5. Overflow4(tm) \in Int
      <4>1. N4 - tm.TCNT4 \in Int /\ Div4(tm) \in Int /\ tm.e4 \in Int
        BY <3>1, TimersAssumption, Divisors DEF Ranged, Typed
      <4> QED BY <4>1 DEF Overflow4
    <3> HIDE DEF at
    <3> QED BY <3>3, <3>4, <3>5
  <2> QED BY <2>1, <2>2
<1> QED BY <1>4, <1>5

(* What is due lies among the ticks not yet in the register. *)
LEMMA ElapseOwes ==
  ASSUME NEW tm, Typed(tm), Ranged(tm), NEW c \in Nat, NEW dueNow,
         Elapse(c, tm, Reads(tm), dueNow),
         tm.OCIE3A /\ dueNow.timer3 # None => Owes3(tm),
         tm.TOIE4 /\ dueNow.timer4 # None => Owes4(tm)
  PROVE  /\ due'.timer3 # None => t'.OCIE3A /\ Owes3(t')
         /\ due'.timer4 # None => t'.TOIE4 /\ Owes4(t')
<1> DEFINE now == Reads(tm)
           h3 == Hits3(tm, now, c)
           h4 == Hits4(tm, now, c)
<1>1. /\ due'.timer3 = IF ~tm.OCIE3A THEN None
                       ELSE IF dueNow.timer3 # None THEN dueNow.timer3 + c
                       ELSE IF h3 # {} THEN c - (Min(h3) * Div3 - now.s3) ELSE None
      /\ due'.timer4 = IF ~tm.TOIE4 THEN None
                       ELSE IF dueNow.timer4 # None THEN dueNow.timer4 + c
                       ELSE IF tm.presc4 # 0 /\ h4 # {} THEN c - (Min(h4) * Div4(tm) - now.s4)
                       ELSE None
  BY ElapseDues
<1>2. h3 \in SUBSET Nat /\ h4 \in SUBSET Nat
  BY DEF Hits3, Hits4
<1> HIDE DEF h3, h4
<1>3. /\ t'.TCNT3 = tm.TCNT3 /\ t'.OCR3A = tm.OCR3A /\ t'.OCIE3A = tm.OCIE3A /\ t'.e3 = tm.e3 + c
      /\ t'.TCNT4 = tm.TCNT4 /\ t'.TOIE4 = tm.TOIE4 /\ t'.presc4 = tm.presc4
      /\ tm.presc4 # 0 => t'.e4 = tm.e4 + c
      /\ Div4(t') = Div4(tm)
  BY ElapseFields
<1>4. /\ Div3 \in Nat \ {0} /\ tm.e3 \in Nat /\ tm.e4 \in Nat
      /\ tm.presc4 # 0 => Div4(tm) \in Nat \ {0}
  BY TimersAssumption, Divisors DEF Typed
<1>5. ASSUME due'.timer3 # None
      PROVE  t'.OCIE3A /\ Owes3(t')
  <2>1. tm.OCIE3A
    BY <1>1, <1>5
  <2>2. Ticks3(t') = (tm.e3 + c) \div Div3 /\ Ticks3(t') \in Int
    <3>1. tm.e3 + c \in Int
      BY <1>4
    <3> QED BY <1>3, <1>4, <3>1, DivisionParts DEF Ticks3
  <2>3. CASE dueNow.timer3 # None
    <3>1. PICK k \in 1..Ticks3(tm) : (tm.TCNT3 + k) % N3 = tm.OCR3A
      BY <2>1, <2>3 DEF Owes3
    <3>2. Ticks3(tm) \in Int /\ Ticks3(tm) <= Ticks3(t')
      BY <1>4, <2>2, WholeGrows DEF Ticks3
    <3>3. k \in 1..Ticks3(t')
      BY <2>2, <3>1, <3>2
    <3> QED BY <1>3, <2>1, <3>1, <3>3 DEF Owes3
  <2>4. CASE dueNow.timer3 = None
    <3>1. Min(h3) \in h3
      BY <1>1, <1>2, <1>5, <2>4, Least
    <3>2. PICK k \in h3 : TRUE
      BY <3>1
    <3>3. Ticks3(tm) + k \in 1..Ticks3(t') /\ (tm.TCNT3 + (Ticks3(tm) + k)) % N3 = tm.OCR3A
      BY <2>2, <3>2, Hits3Ahead DEF h3
    <3> QED BY <1>3, <2>1, <3>3 DEF Owes3
  <2> QED BY <2>3, <2>4
<1>6. ASSUME due'.timer4 # None
      PROVE  t'.TOIE4 /\ Owes4(t')
  <2>1. tm.TOIE4
    BY <1>1, <1>6
  <2>2. tm.presc4 # 0
    <3> SUFFICES ASSUME tm.presc4 = 0 PROVE FALSE
      OBVIOUS
    <3>1. Owes4(tm) /\ Ticks4(tm) = 0
      BY <1>1, <1>6, <2>1 DEF Ticks4
    <3> QED BY <3>1 DEF Owes4
  <2>3. Ticks4(t') = (tm.e4 + c) \div Div4(tm) /\ Ticks4(t') \in Int
    <3>1. tm.e4 + c \in Int /\ Div4(tm) \in Nat \ {0}
      BY <1>4, <2>2
    <3>2. Ticks4(t') = t'.e4 \div Div4(t')
      BY <1>3, <2>2 DEF Ticks4
    <3>3. Ticks4(t') = (tm.e4 + c) \div Div4(tm)
      BY <1>3, <2>2, <3>2
    <3> HIDE DEF Div4
    <3>4. (tm.e4 + c) \div Div4(tm) \in Int
      BY <3>1, DivisionParts
    <3> QED BY <3>3, <3>4
  <2>4. CASE dueNow.timer4 # None
    <3>1. PICK k \in 1..Ticks4(tm) : (tm.TCNT4 + k) % N4 = 0
      BY <2>1, <2>4 DEF Owes4
    <3>2. Ticks4(tm) \in Int /\ Ticks4(tm) <= Ticks4(t')
      <4>1. Ticks4(tm) = tm.e4 \div Div4(tm)
        BY <2>2 DEF Ticks4
      <4> HIDE DEF Div4
      <4>2. tm.e4 \div Div4(tm) <= (tm.e4 + c) \div Div4(tm) /\ tm.e4 \div Div4(tm) \in Nat
        BY <1>4, <2>2, WholeGrows
      <4> QED BY <2>3, <4>1, <4>2
    <3>3. k \in 1..Ticks4(t')
      BY <2>3, <3>1, <3>2
    <3> QED BY <1>3, <2>1, <3>1, <3>3 DEF Owes4
  <2>5. CASE dueNow.timer4 = None
    <3>1. Min(h4) \in h4
      BY <1>1, <1>2, <1>6, <2>5, Least
    <3>2. PICK k \in h4 : TRUE
      BY <3>1
    <3>3. Ticks4(tm) + k \in 1..Ticks4(t') /\ (tm.TCNT4 + (Ticks4(tm) + k)) % N4 = 0
      BY <2>2, <2>3, <3>2, Hits4Ahead DEF h4
    <3> QED BY <1>3, <2>1, <3>3 DEF Owes4
  <2> QED BY <2>4, <2>5
<1> QED BY <1>5, <1>6

-----------------------------------------------------------------------------
\* The invariant

Owing ==
  /\ due.timer3 # None => t.OCIE3A /\ Owes3(t)
  /\ due.timer4 # None => t.TOIE4 /\ Owes4(t)
(* Between passes nothing is due and the counters are up to date, but for a   *)
(* timer 3 that nobody listens to.                                            *)
AtRest == pass = "none" => /\ Ticks4(t) = 0 /\ (t.OCIE3A => Ticks3(t) = 0)
                           /\ due.timer3 = None /\ due.timer4 = None
(* A pass that still runs has not come to the events it was given a deadline for. *)
Ahead3 ==
  /\ t.OCIE3A /\ left \in Nat
  /\ left # 0 => due.timer3 = None /\ left <= Match3(t)
Ahead4 ==
  /\ t.TOIE4 /\ t.presc4 # 0 /\ left \in Nat
  /\ left # 0 => due.timer4 = None /\ left <= Overflow4(t)
Ahead == pass = "runs" => /\ "timer3" \in armed => Ahead3
                          /\ "timer4" \in armed => Ahead4
EventInv ==
  /\ Counting /\ pass \in {"none", "runs", "ends"}
  /\ Ranged(t) /\ Standing(t) /\ Owing /\ AtRest /\ Ahead /\ OnTime

LEMMA Longest == Max(Cycles) \in Cycles /\ \A c \in Cycles : c <= Max(Cycles)
<1>1. PICK m \in Cycles : \A c \in Cycles : c <= m
  BY TimersAssumption
<1>2. m \in Cycles /\ \A c \in Cycles : m >= c
  BY <1>1, TimersAssumption
<1> QED BY <1>2, TimersAssumption DEF Max

LEMMA Countdown ==
  ASSUME NEW x \in Int
  PROVE  Max({0, x}) = IF x > 0 THEN x ELSE 0
<1> DEFINE S == {0, x}
           m == IF x > 0 THEN x ELSE 0
<1>1. m \in S /\ \A y \in S : m >= y
  OBVIOUS
<1>2. Max(S) \in S /\ \A y \in S : Max(S) >= y
  <2> HIDE DEF S, m
  <2> QED BY <1>1 DEF Max
<1>3. Max(S) >= m /\ m >= Max(S) /\ Max(S) \in Int
  BY <1>1, <1>2
<1> QED BY <1>3

(* The deadlines have integer values where they are looked at. *)
LEMMA DeadlinesNat ==
  ASSUME NEW tm, Typed(tm), Ranged(tm)
  PROVE  /\ Match3(tm) \in Int
         /\ tm.presc4 # 0 => Overflow4(tm) \in Int /\ Match4(tm) \in Int
         /\ Deadlines(tm) \in SUBSET Nat
<1>1. Match3(tm) \in Int
  <2>1. tm.OCR3A - tm.TCNT3 \in Int /\ N3 \in Nat \ {0} /\ Div3 \in Int /\ tm.e3 \in Int
    BY TimersAssumption DEF Ranged, Typed
  <2>2. (tm.OCR3A - tm.TCNT3) % N3 \in Int
    BY <2>1, DivisionParts
  <2> QED BY <2>1, <2>2 DEF Match3
<1>2. ASSUME tm.presc4 # 0
      PROVE  Overflow4(tm) \in Int /\ Match4(tm) \in Int
  <2>1. /\ N4 - tm.TCNT4 \in Int /\ Div4(tm) \in Int /\ tm.e4 \in Int
        /\ tm.OCR4A - tm.TCNT4 \in Int /\ N3 \in Nat \ {0}
    BY <1>2, TimersAssumption, Divisors DEF Ranged, Typed
  <2>2. (tm.OCR4A - tm.TCNT4) % N3 \in Int
    BY <2>1, DivisionParts
  <2> QED BY <2>1, <2>2 DEF Overflow4, Match4
<1>3. Deadlines(tm) \in SUBSET Nat
  <2> SUFFICES ASSUME NEW d \in Deadlines(tm) PROVE d \in Nat
    OBVIOUS
  <2>1. /\ d >= 0
        /\ \/ d = Match3(tm)
           \/ tm.presc4 > 0 /\ d = Overflow4(tm)
           \/ tm.presc4 > 0 /\ d = Match4(tm)
    BY DEF Deadlines
  <2>2. tm.presc4 > 0 => tm.presc4 # 0
    OBVIOUS
  <2> QED BY <1>1, <1>2, <2>1, <2>2
<1> QED BY <1>1, <1>2, <1>3

(* With no whole tick outstanding timer 4 overflows at least a cycle from now. *)
LEMMA OverflowAhead ==
  ASSUME NEW tm, Typed(tm), Ranged(tm), tm.presc4 # 0, Ticks4(tm) = 0
  PROVE  Overflow4(tm) >= 1
<1> DEFINE d == Div4(tm)
           w == tm.e4 \div d
           r == tm.e4 % d
           x == N4 - tm.TCNT4
<1>1. d \in Nat \ {0} /\ tm.e4 \in Int /\ x \in Nat /\ 1 <= x
  BY Divisors, TimersAssumption DEF Typed, Ranged
<1> HIDE DEF d
<1>2. w = 0
  BY DEF Ticks4, d
<1>3. tm.e4 = d * w + r /\ r \in 0..(d - 1)
  BY <1>1, DivisionParts
<1> HIDE DEF w, r, x
<1>4. tm.e4 < d
  BY <1>1, <1>2, <1>3
<1>5. 1 * d <= x * d
  BY <1>1, MoreTicks
<1> DEFINE y == x * d
<1>6. y \in Int /\ d <= y
  BY <1>1, <1>5
<1>7. Overflow4(tm) = y - tm.e4
  BY DEF Overflow4, d, x
<1> HIDE DEF y
<1> QED BY <1>1, <1>4, <1>6, <1>7

(* Cycles go by under a deadline: the pass stays ahead of its events. *)
LEMMA ElapseAhead ==
  ASSUME NEW tm, Typed(tm), Ranged(tm), NEW c \in Nat, NEW dueNow,
         Elapse(c, tm, Reads(tm), dueNow)
  PROVE  /\ Match3(t') = Match3(tm) - c
         /\ tm.presc4 # 0 => Overflow4(t') = Overflow4(tm) - c
<1>1. /\ t'.TCNT3 = tm.TCNT3 /\ t'.OCR3A = tm.OCR3A /\ t'.e3 = tm.e3 + c
      /\ t'.TCNT4 = tm.TCNT4 /\ (tm.presc4 # 0 => t'.e4 = tm.e4 + c)
      /\ Div4(t') = Div4(tm)
  BY ElapseFields
<1>2. Match3(t') = Match3(tm) - c
  <2> DEFINE x == ((tm.OCR3A - tm.TCNT3) % N3) * Div3
  <2>1. Match3(tm) = x - tm.e3 /\ Match3(t') = x - (tm.e3 + c)
    BY <1>1 DEF Match3
  <2>2. x \in Int /\ tm.e3 \in Int
    <3>1. tm.OCR3A - tm.TCNT3 \in Int /\ N3 \in Nat \ {0} /\ Div3 \in Int /\ tm.e3 \in Int
      BY TimersAssumption DEF Ranged, Typed
    <3>2. (tm.OCR3A - tm.TCNT3) % N3 \in Int
      BY <3>1, DivisionParts
    <3> QED BY <3>1, <3>2
  <2> HIDE DEF x
  <2> QED BY <2>1, <2>2
<1>3. ASSUME tm.presc4 # 0
      PROVE  Overflow4(t') = Overflow4(tm) - c
  <2> DEFINE x == (N4 - tm.TCNT4) * Div4(tm)
  <2>1. Overflow4(tm) = x - tm.e4 /\ Overflow4(t') = x - (tm.e4 + c)
    BY <1>1, <1>3 DEF Overflow4
  <2>2. N4 - tm.TCNT4 \in Int /\ Div4(tm) \in Int /\ tm.e4 \in Int
    BY <1>3, TimersAssumption, Divisors DEF Ranged, Typed
  <2> HIDE DEF Div4
  <2>3. x \in Int
    BY <2>2
  <2> HIDE DEF x
  <2> QED BY <2>1, <2>2, <2>3
<1> QED BY <1>2, <1>3

(* After an instruction no counter has only just come to where it stands. *)
LEMMA ElapseStands ==
  ASSUME NEW tm, Typed(tm), Ranged(tm), NEW c \in Cycles, NEW now, NEW dueNow,
         Elapse(c, tm, now, dueNow)
  PROVE  Ranged(t') /\ Standing(t')
<1>1. c \in Nat /\ c # 0
  BY TimersAssumption
<1>2. /\ t'.TCNT3 = tm.TCNT3 /\ t'.OCR3A = tm.OCR3A /\ t'.e3 = tm.e3 + c
      /\ t'.TCNT4 = tm.TCNT4 /\ t'.OCR4A = tm.OCR4A /\ t'.presc4 = tm.presc4
      /\ t'.e4 = IF tm.presc4 = 0 THEN 0 ELSE tm.e4 + c
  BY <1>1, ElapseFields
<1>3. tm.e3 \in Nat /\ tm.e4 \in Nat
  BY DEF Typed
<1>4. t'.e3 > 0 /\ (t'.presc4 # 0 => t'.e4 > 0)
  BY <1>1, <1>2, <1>3
<1> QED BY <1>2, <1>4 DEF Ranged, Standing

(* An instruction that writes the registers keeps the invariant if it touches no *)
(* register that an armed deadline was computed from, or moves the target where  *)
(* the deadline serves it still.                                                 *)
LEMMA WritesEvents ==
  ASSUME EventInv, NEW tm, tm = [f \in Fields |-> tm[f]], SameTime(tm, t), Ranged(tm),
         Writes(tm), armed' \in SUBSET armed,
         "timer3" \in armed' => tm.OCR3A = t.OCR3A \/ left <= Match3(tm),
         "timer3" \in armed' => tm.OCIE3A = t.OCIE3A,
         "timer4" \in armed' => tm.TOIE4 = t.TOIE4
  PROVE  EventInv'
<1> DEFINE dueNow == [timer3 |-> IF tm.OCR3A = t.OCR3A THEN due.timer3 ELSE None,
                      timer4 |-> due.timer4]
<1>1. PICK c \in Cycles : Runs(c) /\ Elapse(c, tm, real, dueNow) /\ UNCHANGED pass
  BY DEF Writes
<1>0. /\ dueNow.timer3 = IF tm.OCR3A = t.OCR3A THEN due.timer3 ELSE None
      /\ dueNow.timer4 = due.timer4
  OBVIOUS
<1> HIDE DEF dueNow
<1>2. c \in Nat /\ c <= Max(Cycles) /\ Max(Cycles) \in Nat
  BY Longest, TimersAssumption
<1>3. Typed(tm) /\ real = Reads(tm)
  BY SameTimeReads DEF EventInv, Counting, Typed, SameTime
<1>4. Elapse(c, tm, Reads(tm), dueNow)
  BY <1>1, <1>3
<1>5. Counting'
  BY WritesKeep DEF EventInv
<1>6. /\ pass = "runs" /\ pass' = "runs" /\ left # 0
      /\ left' = IF left = NoDeadline THEN NoDeadline ELSE Max({0, left - c})
  BY <1>1 DEF Runs
<1>7. Ranged(t') /\ Standing(t')
  BY <1>3, <1>4, ElapseStands
<1>8. /\ t'.OCIE3A = tm.OCIE3A /\ t'.TOIE4 = tm.TOIE4 /\ t'.presc4 = tm.presc4
      /\ tm.TCNT3 = t.TCNT3 /\ tm.e3 = t.e3 /\ tm.TCNT4 = t.TCNT4 /\ tm.e4 = t.e4
      /\ tm.presc4 = t.presc4
  BY <1>2, <1>3, <1>4, ElapseFields DEF SameTime
<1>9. Owing'
  <2>1. tm.OCIE3A /\ dueNow.timer3 # None => Owes3(tm)
    <3> SUFFICES ASSUME tm.OCIE3A, dueNow.timer3 # None PROVE Owes3(tm)
      OBVIOUS
    <3>1. tm.OCR3A = t.OCR3A /\ Owes3(t)
      BY <1>0 DEF EventInv, Owing
    <3>2. Ticks3(tm) = Ticks3(t)
      BY <1>8 DEF Ticks3
    <3> QED BY <1>8, <3>1, <3>2 DEF Owes3
  <2>2. tm.TOIE4 /\ dueNow.timer4 # None => Owes4(tm)
    <3>1. Ticks4(tm) = Ticks4(t)
      BY <1>8 DEF Ticks4, Div4
    <3> QED BY <1>0, <1>8, <3>1 DEF EventInv, Owing, Owes4
  <2> QED BY <1>2, <1>3, <1>4, <2>1, <2>2, ElapseOwes DEF Owing
<1>10. AtRest'
  BY <1>6 DEF AtRest
<1>11. "timer3" \in armed' => Ahead3' /\ due'.timer3 < Max(Cycles)
  <2> SUFFICES ASSUME "timer3" \in armed' PROVE Ahead3' /\ due'.timer3 < Max(Cycles)
    OBVIOUS
  <2>1. t.OCIE3A /\ left \in Nat /\ dueNow.timer3 = None /\ left <= Match3(t)
    BY <1>0, <1>6 DEF EventInv, Ahead, Ahead3
  <2>2. tm.OCIE3A /\ left <= Match3(tm) /\ Match3(tm) \in Int
    <3>1. tm.OCR3A = t.OCR3A => Match3(tm) = Match3(t)
      BY <1>8 DEF Match3
    <3>2. Match3(tm) \in Int
      BY <1>3, DeadlinesNat
    <3> QED BY <2>1, <3>1, <3>2
  <2>3. /\ due'.timer3 \in Int /\ due'.timer3 < c
        /\ left <= Match3(tm) /\ c < left => due'.timer3 = None
    BY <1>2, <1>3, <1>4, <2>1, ElapsePunctual
  <2>4. Match3(t') = Match3(tm) - c
    BY <1>2, <1>3, <1>4, ElapseAhead
  <2>5. left' = IF left - c > 0 THEN left - c ELSE 0
    <3>1. left - c \in Int /\ left # NoDeadline
      BY <1>2, <2>1 DEF NoDeadline
    <3> QED BY <1>6, <3>1, Countdown
  <2>6. left' \in Nat
    BY <1>2, <2>1, <2>5
  <2>7. left' # 0 => due'.timer3 = None /\ left' <= Match3(t')
    BY <1>2, <2>1, <2>2, <2>3, <2>4, <2>5
  <2>8. due'.timer3 < Max(Cycles)
    BY <1>2, <2>3
  <2> QED BY <1>8, <2>2, <2>6, <2>7, <2>8 DEF Ahead3
<1>12. "timer4" \in armed' => Ahead4' /\ due'.timer4 < Max(Cycles)
  <2> SUFFICES ASSUME "timer4" \in armed' PROVE Ahead4' /\ due'.timer4 < Max(Cycles)
    OBVIOUS
  <2>1. t.TOIE4 /\ t.presc4 # 0 /\ left \in Nat /\ dueNow.timer4 = None /\ left <= Overflow4(t)
    BY <1>0, <1>6 DEF EventInv, Ahead, Ahead4
  <2>2. tm.TOIE4 /\ tm.presc4 # 0 /\ Overflow4(tm) = Overflow4(t) /\ Overflow4(t) \in Int
    <3>1. Overflow4(tm) = Overflow4(t) /\ tm.presc4 # 0
      BY <1>8, <2>1 DEF Overflow4, Div4
    <3>2. Overflow4(tm) \in Int
      BY <1>3, <3>1, DeadlinesNat
    <3> QED BY <2>1, <3>1, <3>2
  <2>3. /\ due'.timer4 \in Int /\ due'.timer4 < c
        /\ left <= Overflow4(tm) /\ c < left => due'.timer4 = None
    BY <1>2, <1>3, <1>4, <2>1, ElapsePunctual
  <2>4. Overflow4(t') = Overflow4(tm) - c
    BY <1>2, <1>3, <1>4, <2>2, ElapseAhead
  <2>5. left' = IF left - c > 0 THEN left - c ELSE 0
    <3>1. left - c \in Int /\ left # NoDeadline
      BY <1>2, <2>1 DEF NoDeadline
    <3> QED BY <1>6, <3>1, Countdown
  <2>6. left' \in Nat
    BY <1>2, <2>1, <2>5
  <2>7. left' # 0 => due'.timer4 = None /\ left' <= Overflow4(t')
    BY <1>2, <2>1, <2>2, <2>3, <2>4, <2>5
  <2> QED BY <1>2, <1>8, <2>2, <2>3, <2>6, <2>7 DEF Ahead4
<1>13. Ahead' /\ OnTime'
  BY <1>11, <1>12 DEF Ahead, OnTime
<1> QED BY <1>5, <1>6, <1>7, <1>9, <1>10, <1>13 DEF EventInv

LEMMA StartPassEvents ==
  ASSUME EventInv, StartPass
  PROVE  EventInv'
<1>1. /\ pass = "none" /\ pass' = "runs" /\ t' = t /\ real' = real /\ due' = due
      /\ left' = cycsToNextTimerInt(t)
      /\ armed' = (IF t.OCIE3A /\ ~t.Timer3ATriggered /\ Match3(t) > 0 THEN {"timer3"} ELSE {})
                    \cup (IF t.TOIE4 /\ t.OCIE4A /\ t.presc4 > 0 THEN {"timer4"} ELSE {})
  BY DEF StartPass
<1>2. /\ Typed(t) /\ Ranged(t) /\ due.timer3 = None /\ due.timer4 = None /\ Ticks4(t) = 0
      /\ Max(Cycles) \in Nat
  BY <1>1, Longest, TimersAssumption DEF EventInv, Counting, AtRest
<1>3. /\ Match3(t) \in Int
      /\ t.presc4 # 0 => Overflow4(t) \in Int
      /\ Deadlines(t) \in SUBSET Nat
  BY <1>2, DeadlinesNat
<1>4. ASSUME NEW d \in Deadlines(t)
      PROVE  left' \in Nat /\ left' <= d
  <2>1. left' = Min(Deadlines(t))
    BY <1>1, <1>4 DEF cycsToNextTimerInt
  <2> HIDE DEF Deadlines
  <2> QED BY <1>3, <1>4, <2>1, Least
<1>5. "timer3" \in armed' => Ahead3'
  <2> SUFFICES ASSUME "timer3" \in armed' PROVE Ahead3'
    OBVIOUS
  <2>1. t.OCIE3A /\ ~t.Timer3ATriggered /\ Match3(t) > 0
    BY <1>1
  <2>2. Match3(t) \in Deadlines(t)
    BY <1>3, <2>1 DEF Deadlines
  <2>3. left' \in Nat /\ left' <= Match3(t)
    BY <1>4, <2>2
  <2> QED BY <1>1, <1>2, <2>1, <2>3 DEF Ahead3
<1>6. "timer4" \in armed' => Ahead4'
  <2> SUFFICES ASSUME "timer4" \in armed' PROVE Ahead4'
    OBVIOUS
  <2>1. t.TOIE4 /\ t.OCIE4A /\ t.presc4 > 0
    BY <1>1
  <2>2. t.presc4 # 0
    BY <2>1
  <2>3. Overflow4(t) \in Int /\ Overflow4(t) >= 1
    BY <1>2, <1>3, <2>2, OverflowAhead
  <2>4. Overflow4(t) \in Deadlines(t)
    BY <2>1, <2>3 DEF Deadlines
  <2>5. left' \in Nat /\ left' <= Overflow4(t)
    BY <1>4, <2>4
  <2> QED BY <1>1, <1>2, <2>1, <2>2, <2>5 DEF Ahead4
<1>7. Counting' /\ Ranged(t') /\ Standing(t') /\ Owing' /\ AtRest'
  BY <1>1 DEF EventInv, Counting, Owing, AtRest
<1>8. None < Max(Cycles)
  BY <1>2 DEF None
<1>9. OnTime'
  BY <1>1, <1>2, <1>8 DEF OnTime
<1>10. Ahead'
  BY <1>5, <1>6 DEF Ahead
<1> QED BY <1>1, <1>7, <1>9, <1>10 DEF EventInv

LEMMA EndPassEvents ==
  ASSUME EventInv, EndPass
  PROVE  EventInv'
<1> DEFINE u == checkForIntr(updateTimers(t))
<1>1. pass' = "none" /\ t' = u /\ due' = Seen /\ real' = real
  BY DEF EndPass
<1>2. Typed(t) /\ Ranged(t) /\ Standing(t) /\ real = Reads(t)
  BY DEF EventInv, Counting
<1>3. Typed(u) /\ Reads(u) = Reads(t) /\ Ticks4(u) = 0
  BY <1>2, UpdateKeeps
<1>4. Ranged(u) /\ Standing(u) /\ (u.OCIE3A => Ticks3(u) = 0)
  BY <1>2, UpdateSettles
<1> HIDE DEF u
<1>5. due'.timer3 = None /\ due'.timer4 = None
  BY <1>1 DEF Seen
<1>6. None < Max(Cycles)
  <2>1. Max(Cycles) \in Nat
    BY Longest, TimersAssumption
  <2> QED BY <2>1 DEF None
<1> QED BY <1>1, <1>2, <1>3, <1>4, <1>5, <1>6
        DEF EventInv, Counting, Owing, AtRest, Ahead, OnTime

(* setTCCR4B: the old clock's ticks are taken before the new one starts. *)
LEMMA SwitchEvents ==
  ASSUME EventInv, NEW p \in Prescs4
  PROVE  LET s == setTCCR4B(t, p)
             d == IF t.presc4 = 0 THEN due ELSE Seen
         IN  /\ Ranged(s)
             /\ s.OCIE3A /\ d.timer3 # None => Owes3(s)
             /\ s.TOIE4 /\ d.timer4 # None => Owes4(s)
<1> DEFINE x == IF t.presc4 = 0 THEN t ELSE checkForIntr(updateTimers(t))
           s == setTCCR4B(t, p)
           d == IF t.presc4 = 0 THEN due ELSE Seen
<1>1. Typed(t) /\ Ranged(t) /\ Standing(t)
  BY DEF EventInv, Counting
<1>2. Typed(x) /\ Ranged(x)
  <2>1. CASE t.presc4 = 0
    BY <1>1, <2>1
  <2>2. CASE t.presc4 # 0
    BY <1>1, <2>2, UpdateKeeps, UpdateSettles
  <2> QED BY <2>1, <2>2
<1>3. t.presc4 = 0 => x = t
  OBVIOUS
<1>4. s = [x EXCEPT !.presc4 = p, !.e4 = 0]
  BY DEF setTCCR4B, SwitchClock
<1> HIDE DEF x
<1>5. /\ s.TCNT3 = x.TCNT3 /\ s.OCR3A = x.OCR3A /\ s.e3 = x.e3
      /\ s.TCNT4 = x.TCNT4 /\ s.OCR4A = x.OCR4A
  BY <1>2, <1>4, FieldNames DEF Typed
<1> HIDE DEF s
<1>6. Ranged(s)
  BY <1>2, <1>5 DEF Ranged
<1>7. t.presc4 # 0 => d.timer3 = None /\ d.timer4 = None
  BY DEF Seen
<1>8. ASSUME d.timer3 # None
      PROVE  Owes3(s)
  <2>1. x = t /\ due.timer3 # None
    BY <1>3, <1>7, <1>8
  <2>2. Ticks3(s) = Ticks3(t)
    BY <1>5, <2>1 DEF Ticks3
  <2>3. Owes3(t)
    BY <2>1 DEF EventInv, Owing
  <2> QED BY <1>5, <2>1, <2>2, <2>3 DEF Owes3
<1>9. ASSUME d.timer4 # None
      PROVE  FALSE
  <2>1. t.presc4 = 0 /\ due.timer4 # None
    BY <1>7, <1>9
  <2>2. Owes4(t) /\ Ticks4(t) = 0
    BY <2>1 DEF EventInv, Owing, Ticks4
  <2> QED BY <2>2 DEF Owes4
<1> QED BY <1>6, <1>8, <1>9 DEF s

LEMMA WriteTCCR4BEvents ==
  ASSUME EventInv, WriteTCCR4B
  PROVE  EventInv'
<1> DEFINE d == IF t.presc4 = 0 THEN due ELSE Seen
<1>1. PICK p \in Prescs4 \ {t.presc4}, c \in Cycles :
        /\ Runs(c) /\ pass' = "ends"
        /\ Elapse(c, setTCCR4B(t, p), [real EXCEPT !.s4 = 0], d)
        /\ UNCHANGED armed
  BY DEF WriteTCCR4B
<1> DEFINE s == setTCCR4B(t, p)
<1>2. c \in Nat /\ c <= Max(Cycles) /\ Max(Cycles) \in Nat
  BY Longest, TimersAssumption
<1>3. Typed(s) /\ Reads(s) = [real EXCEPT !.s4 = 0]
  BY SwitchKeeps DEF EventInv
<1>4. Ranged(s) /\ (s.OCIE3A /\ d.timer3 # None => Owes3(s))
                /\ (s.TOIE4 /\ d.timer4 # None => Owes4(s))
  BY SwitchEvents
<1> HIDE DEF s, d
<1>5. Elapse(c, s, Reads(s), d)
  BY <1>1, <1>3 DEF s
<1>6. Counting'
  BY <1>2, <1>3, <1>5, ElapseKeeps
<1>7. Ranged(t') /\ Standing(t')
  BY <1>3, <1>4, <1>5, ElapseStands
<1>8. Owing'
  BY <1>2, <1>3, <1>4, <1>5, ElapseOwes DEF Owing
<1>9. pass = "runs" /\ left # 0 /\ pass' = "ends" /\ armed' = armed
  BY <1>1 DEF Runs
<1>10. "timer3" \in armed => d.timer3 = None
  BY <1>9 DEF EventInv, Ahead, Ahead3, d, Seen
<1>11. "timer4" \in armed => d.timer4 = None
  BY <1>9 DEF EventInv, Ahead, Ahead4, d, Seen
<1>12. /\ d.timer3 = None => due'.timer3 \in Int /\ due'.timer3 < c
       /\ d.timer4 = None => due'.timer4 \in Int /\ due'.timer4 < c
  BY <1>2, <1>3, <1>4, <1>5, ElapsePunctual
<1>13. OnTime'
  BY <1>2, <1>9, <1>10, <1>11, <1>12 DEF OnTime
<1> QED BY <1>6, <1>7, <1>8, <1>9, <1>13 DEF EventInv, AtRest, Ahead

LEMMA InitEvents ==
  ASSUME Init
  PROVE  EventInv
<1>1. /\ t = Off /\ t.TCNT3 = 0 /\ t.OCR3A = 0 /\ t.TCNT4 = 0 /\ t.OCR4A = 0
      /\ ~t.OCIE3A /\ t.presc4 = 0
  BY DEF Init, Off
<1>2. pass = "none" /\ due.timer3 = None /\ due.timer4 = None /\ armed = {}
  BY DEF Init
<1>3. Ranged(t)
  BY <1>1, TimersAssumption DEF Ranged
<1>4. Standing(t) /\ Owing /\ AtRest /\ Ahead /\ OnTime
  BY <1>1, <1>2 DEF Standing, Owing, AtRest, Ahead, OnTime, Ticks4
<1> QED BY <1>2, <1>3, <1>4, InitCounting DEF EventInv

LEMMA NextEvents ==
  ASSUME EventInv, [Next]_vars
  PROVE  EventInv'
<1>0. Typed(t) /\ t = [f \in Fields |-> t[f]] /\ Ranged(t) /\ Targets \subseteq 0..(N3 - 1)
  BY TimersAssumption DEF EventInv, Counting, Typed
<1>1. CASE StartPass
  BY <1>1, StartPassEvents
<1>2. CASE EndPass
  BY <1>2, EndPassEvents
<1>3. CASE Plain
  BY <1>0, <1>3, WritesEvents DEF Plain, SameTime
<1>4. CASE WriteOCR3A
  <2>1. PICK v \in Targets :
          /\ Writes([t EXCEPT !.OCR3A = v])
          /\ armed' = IF left <= Match3([t EXCEPT !.OCR3A = v]) THEN armed
                      ELSE armed \ {"timer3"}
    BY <1>4 DEF WriteOCR3A
  <2> DEFINE tm == [t EXCEPT !.OCR3A = v]
  <2>2. armed' \in SUBSET armed /\ ("timer3" \in armed' => left <= Match3(tm))
    BY <2>1
  <2>3. /\ tm = [f \in Fields |-> tm[f]] /\ SameTime(tm, t) /\ tm.OCIE3A = t.OCIE3A
        /\ tm.TOIE4 = t.TOIE4 /\ tm.OCR3A = v /\ tm.OCR4A = t.OCR4A
    BY <1>0, FieldNames DEF SameTime
  <2> HIDE DEF tm
  <2>4. Ranged(tm)
    BY <1>0, <2>3 DEF Ranged, SameTime
  <2>5. Writes(tm)
    BY <2>1 DEF tm
  <2> QED BY <2>2, <2>3, <2>4, <2>5, WritesEvents
<1>5. CASE WriteTIMSK3
  <2> DEFINE tm == [t EXCEPT !.OCIE3A = ~@]
  <2>1. Writes(tm) /\ armed' \subseteq armed /\ "timer3" \notin armed'
    BY <1>5 DEF WriteTIMSK3
  <2>2. /\ tm = [f \in Fields |-> tm[f]] /\ SameTime(tm, t)
        /\ tm.TOIE4 = t.TOIE4 /\ tm.OCR3A = t.OCR3A /\ tm.OCR4A = t.OCR4A
    BY <1>0, FieldNames DEF SameTime
  <2> HIDE DEF tm
  <2>3. Ranged(tm)
    BY <1>0, <2>2 DEF Ranged, SameTime
  <2> QED BY <2>1, <2>2, <2>3, WritesEvents
<1>6. CASE WriteTIMSK4
  <2>1. PICK on, match \in BOOLEAN : Writes([t EXCEPT !.TOIE4 = on, !.OCIE4A = match])
    BY <1>6 DEF WriteTIMSK4
  <2> DEFINE tm == [t EXCEPT !.TOIE4 = on, !.OCIE4A = match]
  <2>2. Writes(tm) /\ armed' \subseteq armed /\ "timer4" \notin armed'
    BY <1>6, <2>1 DEF WriteTIMSK4
  <2>3. /\ tm = [f \in Fields |-> tm[f]] /\ SameTime(tm, t)
        /\ tm.OCIE3A = t.OCIE3A /\ tm.OCR3A = t.OCR3A /\ tm.OCR4A = t.OCR4A
    BY <1>0, FieldNames DEF SameTime
  <2> HIDE DEF tm
  <2>4. Ranged(tm)
    BY <1>0, <2>3 DEF Ranged, SameTime
  <2> QED BY <2>2, <2>3, <2>4, WritesEvents
<1>7. CASE WriteOC4A
  <2>1. PICK v \in Targets, on \in BOOLEAN : Writes([t EXCEPT !.OCR4A = v, !.DDRC = on])
    BY <1>7 DEF WriteOC4A
  <2> DEFINE tm == [t EXCEPT !.OCR4A = v, !.DDRC = on]
  <2>2. Writes(tm) /\ armed' = armed
    BY <1>7, <2>1 DEF WriteOC4A
  <2>3. /\ tm = [f \in Fields |-> tm[f]] /\ SameTime(tm, t)
        /\ tm.OCIE3A = t.OCIE3A /\ tm.OCR3A = t.OCR3A /\ tm.OCR4A = v /\ tm.TOIE4 = t.TOIE4
    BY <1>0, FieldNames DEF SameTime
  <2> HIDE DEF tm
  <2>4. Ranged(tm)
    BY <1>0, <2>3 DEF Ranged, SameTime
  <2> QED BY <2>2, <2>3, <2>4, WritesEvents
<1>8. CASE WriteTCCR4B
  BY <1>8, WriteTCCR4BEvents
<1>9. CASE UNCHANGED vars
  BY <1>9 DEF vars, EventInv, Counting, Owing, AtRest, Ahead, Ahead3, Ahead4, OnTime
<1> QED BY <1>1, <1>2, <1>3, <1>4, <1>5, <1>6, <1>7, <1>8, <1>9 DEF Next

-----------------------------------------------------------------------------
(* A deadline that is the present cycle would be the one of a counter that has *)
(* only just come to its target, and no update leaves a counter so.            *)
LEMMA NoDeadlineNow ==
  ASSUME EventInv
  PROVE  NoStall
<1> SUFFICES ASSUME pass = "none", cycsToNextTimerInt(t) = 0
             PROVE  FALSE
  BY DEF NoStall
<1>1. Typed(t) /\ Ranged(t) /\ Standing(t) /\ Ticks4(t) = 0 /\ (t.OCIE3A => Ticks3(t) = 0)
  BY DEF EventInv, Counting, AtRest
<1>2. Deadlines(t) \in SUBSET Nat
  BY <1>1, DeadlinesNat
<1>3. 0 \in Deadlines(t)
  <2>1. Deadlines(t) # {} /\ 0 = Min(Deadlines(t))
    BY DEF cycsToNextTimerInt, NoDeadline
  <2> HIDE DEF Deadlines
  <2> QED BY <1>2, <2>1, Least
<1>4. \/ t.OCIE3A /\ ~t.Timer3ATriggered /\ Match3(t) = 0
      \/ t.presc4 > 0 /\ Overflow4(t) = 0
      \/ t.presc4 > 0 /\ t.DDRC /\ ~t.Timer4ATriggered /\ Match4(t) = 0
  BY <1>3 DEF Deadlines
<1>5. ASSUME NEW m \in Nat, NEW e \in Nat, NEW d \in Nat \ {0}, e \div d = 0, m * d - e = 0
      PROVE  m = 0 /\ e = 0
  <2>1. e \in Int
    OBVIOUS
  <2>2. e < d
    <3>1. e = d * (e \div d) + (e % d) /\ e % d \in 0..(d - 1)
      BY <2>1, DivisionParts
    <3> QED BY <1>5, <3>1
  <2>3. m = 0
    <3> SUFFICES ASSUME 1 <= m PROVE FALSE
      OBVIOUS
    <3>1. 1 * d <= m * d
      BY MoreTicks
    <3> DEFINE y == m * d
    <3>2. y \in Int /\ d <= y /\ y - e = 0
      BY <1>5, <3>1
    <3> HIDE DEF y
    <3> QED BY <2>2, <3>2
  <2> QED BY <1>5, <2>3
<1>6. CASE t.OCIE3A /\ ~t.Timer3ATriggered /\ Match3(t) = 0
  <2> DEFINE m == (t.OCR3A - t.TCNT3) % N3
  <2>1. /\ t.TCNT3 \in 0..(N3 - 1) /\ t.OCR3A \in 0..(N3 - 1) /\ N3 \in Nat \ {0}
        /\ Div3 \in Nat \ {0} /\ t.e3 \in Nat
    BY <1>1, TimersAssumption DEF Ranged, Typed
  <2>2. m \in Nat /\ (m = 0 => t.TCNT3 = t.OCR3A)
    BY <2>1, NoDistance
  <2>3. m * Div3 - t.e3 = 0 /\ t.e3 \div Div3 = 0
    BY <1>1, <1>6 DEF Match3, Ticks3
  <2> HIDE DEF m
  <2>4. m = 0 /\ t.e3 = 0
    BY <1>5, <2>1, <2>2, <2>3
  <2> QED BY <1>1, <1>6, <2>2, <2>4 DEF Standing
<1>7. CASE t.presc4 > 0 /\ Overflow4(t) = 0
  <2>1. t.presc4 # 0
    BY <1>7
  <2>2. Overflow4(t) >= 1
    BY <1>1, <2>1, OverflowAhead
  <2> QED BY <1>7, <2>2
<1>8. CASE t.presc4 > 0 /\ t.DDRC /\ ~t.Timer4ATriggered /\ Match4(t) = 0
  <2> DEFINE m == (t.OCR4A - t.TCNT4) % N3
             d == Div4(t)
  <2>0. t.presc4 # 0
    BY <1>8
  <2>1. /\ t.TCNT4 \in 0..(N3 - 1) /\ t.OCR4A \in 0..(N3 - 1) /\ N3 \in Nat \ {0}
        /\ d \in Nat \ {0} /\ t.e4 \in Nat
    BY <1>1, <2>0, TimersAssumption, Divisors DEF Ranged, Typed
  <2>2. m \in Nat /\ (m = 0 => t.TCNT4 = t.OCR4A)
    BY <2>1, NoDistance
  <2>3. m * d - t.e4 = 0 /\ t.e4 \div d = 0
    BY <1>1, <1>8, <2>0 DEF Match4, Ticks4
  <2> HIDE DEF m, d
  <2>4. m = 0 /\ t.e4 = 0
    BY <1>5, <2>1, <2>2, <2>3
  <2> QED BY <1>1, <1>8, <2>0, <2>2, <2>4 DEF Standing
<1> QED BY <1>4, <1>6, <1>7, <1>8

(* Only an instruction of a pass that still runs writes OCR3A. *)
LEMMA TargetMoves ==
  ASSUME EventInv, [Next]_vars, t'.OCR3A # t.OCR3A
  PROVE  pass = "runs" /\ left # 0
<1>1. Typed(t) /\ Ranged(t) /\ Standing(t)
  BY DEF EventInv, Counting
<1>2. CASE StartPass
  BY <1>2 DEF StartPass
<1>3. CASE EndPass
  <2>1. t'.OCR3A = t.OCR3A
    BY <1>1, <1>3, UpdateSettles DEF EndPass
  <2> QED BY <2>1
<1>4. CASE Plain \/ WriteOCR3A \/ WriteTIMSK3 \/ WriteTIMSK4 \/ WriteOC4A \/ WriteTCCR4B
  BY <1>4 DEF Plain, WriteOCR3A, WriteTIMSK3, WriteTIMSK4, WriteOC4A, WriteTCCR4B, Writes, Runs
<1>5. CASE UNCHANGED vars
  BY <1>5 DEF vars
<1> QED BY <1>2, <1>3, <1>4, <1>5 DEF Next

(* An event that a pass has a deadline for waits for the end of the instruction *)
(* it falls in and no longer (cycsToNextTimerInt), whatever the program writes  *)
(* to OCR3A as long as the deadline is not behind the new match.                *)
THEOREM EventsOnTime == Spec => []OnTime
<1>1. EventInv => OnTime
  BY DEF EventInv
<1> QED BY <1>1, InitEvents, NextEvents, PTL DEF Spec

(* No update leaves a deadline at the present cycle, with which the next pass *)
(* would run nothing, for ever (cycsToNextTimerInt, updateTimers).            *)
THEOREM PassesRun == Spec => []NoStall
BY NoDeadlineNow, InitEvents, NextEvents, PTL DEF Spec

(* An update raises the flag of every match of timer 3 and overflow of timer 4 *)
(* since the last one, however far the counter has turned (updateTimers), and  *)
(* the program overwrites no target in OCR3A whose match has been and was one  *)
(* that the pass had a deadline for (setByteAt, cycsToNextTimerInt).           *)
THEOREM EventsKept == Spec => NoEventLost
<1> DEFINE Told == /\ EndPass \/ (WriteTCCR4B /\ t.presc4 # 0) =>
                        /\ due.timer3 # None => updateTimers(t).OCF3A
                        /\ due.timer4 # None => updateTimers(t).TOV4
                   /\ t'.OCR3A # t.OCR3A /\ "timer3" \in armed => due.timer3 = None
<1>1. ASSUME EventInv, [Next]_vars
      PROVE  [Told]_vars
  <2>1. /\ due.timer3 # None => updateTimers(t).OCF3A
        /\ due.timer4 # None => updateTimers(t).TOV4
    BY <1>1, DuesAreSeen DEF EventInv, Counting, Owing
  <2>2. t'.OCR3A # t.OCR3A => pass = "runs" /\ left # 0
    BY <1>1, TargetMoves
  <2>3. t'.OCR3A # t.OCR3A /\ "timer3" \in armed => due.timer3 = None
    BY <1>1, <2>2 DEF EventInv, Ahead, Ahead3
  <2> QED BY <2>1, <2>3
<1>2. EventInv /\ [Next]_vars => [Told]_vars
  BY <1>1
<1>3. Init => EventInv
  BY InitEvents
<1>4. EventInv /\ [Next]_vars => EventInv'
  BY NextEvents
<1>5. Spec => [][Told]_vars
  <2> HIDE DEF Told
  <2> QED BY <1>2, <1>3, <1>4, PTL DEF Spec
<1> QED BY <1>5 DEF NoEventLost

-----------------------------------------------------------------------------
\* The EEPROM

Registers == {"EECR", "EEDR", "EEAR", "PLLCSR", "ADCSRA", "SPDR", "SPSR"}
Modes == {{}, {"EEPM0"}, {"EEPM1"}}

(* The state of the registers is made of the parts the operators write to. *)
WellFormed(s) ==
  /\ s = [part \in {"data", "eeprom", "lastSet"} |-> s[part]]
  /\ s.data = [reg \in Registers |-> s.data[reg]]
  /\ s.eeprom = [a \in Addrs |-> s.eeprom[a]]
  /\ s.lastSet = [stamp \in {"EEMPE", "PLLE"} |-> s.lastSet[stamp]]
(* What the EEPROM controller works from; the rest may differ. *)
SameEeprom(r, s) ==
  /\ r.eeprom = s.eeprom /\ r.data.EECR = s.data.EECR
  /\ r.data.EEAR = s.data.EEAR /\ r.data.EEDR = s.data.EEDR

-----------------------------------------------------------------------------
\* The registers

LEMMA AgeFacts ==
  ASSUME NEW s, WellFormed(s), NEW k
  PROVE  /\ WellFormed(Age(s, k)) /\ SameEeprom(Age(s, k), s)
         /\ Age(s, k).data = s.data
         /\ Age(s, k).lastSet.EEMPE = Min({s.lastSet.EEMPE + k, 5})
<1> DEFINE u == Age(s, k)
           x == Min({s.lastSet.EEMPE + k, 5})
           y == Min({s.lastSet.PLLE + k, 1})
<1>1. u = [s EXCEPT !.lastSet = [[@ EXCEPT !.EEMPE = x] EXCEPT !.PLLE = y]]
  BY DEF Age, WellFormed
<1> HIDE DEF u, x, y
<1>2. u.data = s.data /\ u.eeprom = s.eeprom
  BY <1>1 DEF WellFormed
<1> QED BY <1>1, <1>2 DEF WellFormed, SameEeprom, u, x

LEMMA GetFacts ==
  ASSUME NEW s, WellFormed(s), NEW reg
  PROVE  LET u == update_Get(s, reg)
         IN  /\ WellFormed(u) /\ u.eeprom = s.eeprom /\ u.lastSet = s.lastSet
             /\ u.data.EEAR = s.data.EEAR /\ u.data.EEDR = s.data.EEDR
             /\ u.data.EECR \subseteq s.data.EECR
             /\ "EEMPE" \notin s.data.EECR \/ ~(s.lastSet.EEMPE > 4) =>
                  u.data.EECR = s.data.EECR
<1> DEFINE u == update_Get(s, reg)
<1>1. CASE reg = "EECR" /\ s.lastSet.EEMPE > 4
  <2>1. u = [s EXCEPT !.data = [@ EXCEPT !.EECR = s.data.EECR \ {"EEMPE"}]]
    BY <1>1 DEF update_Get, WellFormed
  <2> HIDE DEF u
  <2> QED BY <1>1, <2>1 DEF WellFormed, Registers, u
<1>2. CASE ~(reg = "EECR" /\ s.lastSet.EEMPE > 4)
  <2>1. PICK p, a : u = s \/ u = [s EXCEPT !.data = [@ EXCEPT !.PLLCSR = p]]
                          \/ u = [s EXCEPT !.data = [@ EXCEPT !.ADCSRA = a]]
    BY <1>2 DEF update_Get, WellFormed
  <2> HIDE DEF u
  <2> QED BY <2>1 DEF WellFormed, Registers, u
<1> QED BY <1>1, <1>2

(* A write to a register other than EECR leaves the EEPROM controller alone, *)
(* but for the address and the byte it is about.                             *)
LEMMA SetFacts ==
  ASSUME NEW s, WellFormed(s), NEW reg \in Registers, reg # "EECR", NEW val
  PROVE  LET u == setByteAt(s, reg, val)
         IN  /\ WellFormed(u) /\ u.eeprom = s.eeprom /\ u.data.EECR = s.data.EECR
             /\ u.data.EEAR = IF reg = "EEAR" THEN val ELSE s.data.EEAR
             /\ u.data.EEDR = IF reg = "EEDR" THEN val ELSE s.data.EEDR
<1> DEFINE w == [s EXCEPT !.data[reg] = val]
           u == setByteAt(s, reg, val)
<1>1. /\ WellFormed(w) /\ w.eeprom = s.eeprom /\ w.data.EECR = s.data.EECR
      /\ w.data.EEAR = IF reg = "EEAR" THEN val ELSE s.data.EEAR
      /\ w.data.EEDR = IF reg = "EEDR" THEN val ELSE s.data.EEDR
  BY DEF WellFormed, Registers
<1>2. u = update_Set(w, reg, val, s.data[reg])
  BY DEF setByteAt
<1> HIDE DEF w
<1>3. PICK x : u = update_Set(w, reg, val, x)
  BY <1>2
<1> HIDE DEF u
<1>4. CASE reg = "PLLCSR"
  <2>1. PICK p : \/ u = w
                 \/ u = [w EXCEPT !.lastSet = [@ EXCEPT !.PLLE = 0]]
                 \/ u = [w EXCEPT !.data = [@ EXCEPT !.PLLCSR = p]]
    BY <1>1, <1>3, <1>4 DEF update_Set, setPLLCSR, WellFormed
  <2> QED BY <1>1, <1>4, <2>1 DEF WellFormed, Registers, u
<1>5. CASE reg = "ADCSRA"
  <2>1. PICK p : u = w \/ u = [w EXCEPT !.data = [@ EXCEPT !.ADCSRA = p]]
    BY <1>1, <1>3, <1>5 DEF update_Set, setADCSRA, WellFormed
  <2> QED BY <1>1, <1>5, <2>1 DEF WellFormed, Registers, u
<1>6. CASE reg = "SPDR"
  <2>1. PICK p : u = [w EXCEPT !.data = [[@ EXCEPT !.SPDR = {}] EXCEPT !.SPSR = p]]
    BY <1>1, <1>3, <1>6 DEF update_Set, setSPDR, WellFormed
  <2> QED BY <1>1, <1>6, <2>1 DEF WellFormed, Registers, u
<1>7. CASE reg \notin {"PLLCSR", "ADCSRA", "SPDR"}
  <2>1. u = w
    BY <1>3, <1>7 DEF update_Set
  <2> QED BY <1>1, <1>7, <2>1 DEF u
<1> QED BY <1>4, <1>5, <1>6, <1>7

(* A write to EECR in the steps setEECR takes: the strobe, the window, the byte. *)
LEMMA ModeSet ==
  ASSUME NEW s, WellFormed(s), NEW mode \in Modes
  PROVE  LET u == setByteAt(s, "EECR", mode)
         IN  /\ WellFormed(u) /\ u.eeprom = s.eeprom /\ u.data.EECR = mode
             /\ u.data.EEAR = s.data.EEAR /\ u.data.EEDR = s.data.EEDR
<1>1. "EERE" \notin mode /\ "EEMPE" \notin mode /\ "EEPE" \notin mode
  BY DEF Modes
<1>2. setByteAt(s, "EECR", mode) = [s EXCEPT !.data = [@ EXCEPT !.EECR = mode]]
  <2>1. setByteAt(s, "EECR", mode)
          = setEECR([s EXCEPT !.data["EECR"] = mode], mode, s.data["EECR"])
    BY DEF setByteAt, update_Set
  <2> QED BY <1>1, <2>1 DEF setEECR, WellFormed
<1> QED BY <1>2 DEF WellFormed, Registers

LEMMA WindowOpens ==
  ASSUME NEW s, WellFormed(s), s.data.EECR \in Modes
  PROVE  LET u == setByteAt(s, "EECR", s.data.EECR \cup {"EEMPE"})
         IN  /\ WellFormed(u) /\ u.eeprom = s.eeprom
             /\ u.data.EECR = s.data.EECR \cup {"EEMPE"} /\ u.lastSet.EEMPE = 0
             /\ u.data.EEAR = s.data.EEAR /\ u.data.EEDR = s.data.EEDR
<1> DEFINE old == s.data.EECR
           val == old \cup {"EEMPE"}
           w == [s EXCEPT !.data["EECR"] = val]
           u == setByteAt(s, "EECR", val)
<1>1. /\ "EERE" \notin val /\ "EEMPE" \in val /\ "EEPE" \notin val /\ "EEMPE" \notin old
  BY DEF Modes
<1>2. u = setEECR(w, val, old)
  BY DEF setByteAt, update_Set
<1>3. WellFormed(w) /\ w.eeprom = s.eeprom /\ w.data.EECR = val
      /\ w.data.EEAR = s.data.EEAR /\ w.data.EEDR = s.data.EEDR
  <2> HIDE DEF val
  <2> QED BY DEF WellFormed, Registers
<1> HIDE DEF w, val, old, u
<1>4. u = [w EXCEPT !.lastSet = [@ EXCEPT !.EEMPE = 0]]
  BY <1>1, <1>2, <1>3 DEF setEECR, WellFormed
<1>5. WellFormed(u) /\ u.eeprom = s.eeprom /\ u.data = w.data /\ u.lastSet.EEMPE = 0
  BY <1>3, <1>4 DEF WellFormed
<1> QED BY <1>3, <1>5 DEF u, val, old

LEMMA ByteWritten ==
  ASSUME NEW s, WellFormed(s), NEW mode \in Modes, s.data.EECR = mode \cup {"EEMPE"},
         s.data.EEAR \in Addrs
  PROVE  LET u == setByteAt(s, "EECR", s.data.EECR \cup {"EEPE"})
             a == s.data.EEAR
         IN  /\ WellFormed(u) /\ "EEPE" \notin u.data.EECR
             /\ u.eeprom = [s.eeprom EXCEPT ![a] = Programmed(s.eeprom[a], s.data.EEDR, mode)]
<1> DEFINE old == s.data.EECR
           val == old \cup {"EEPE"}
           a == s.data.EEAR
           w == [s EXCEPT !.data["EECR"] = val]
           u == setByteAt(s, "EECR", val)
<1>1. /\ "EERE" \notin val /\ {"EEPE", "EEMPE"} \subseteq val /\ "EEMPE" \in old
      /\ EecrMode(val) = mode
  BY DEF Modes, EecrMode
<1>2. u = setEECR(w, val, old)
  BY DEF setByteAt, update_Set
<1>3. WellFormed(w) /\ w.eeprom = s.eeprom /\ w.data.EECR = val
      /\ w.data.EEAR = a /\ w.data.EEDR = s.data.EEDR
  <2> HIDE DEF val
  <2> QED BY DEF WellFormed, Registers
<1> HIDE DEF w, val, old, u
<1> DEFINE cell == Programmed(w.eeprom[w.data.EEAR], w.data.EEDR, EecrMode(val))
           b == w.data.EEAR
<1>4. u = [w EXCEPT !.eeprom[b] = cell, !.data.EECR = w.data.EECR \ {"EEPE"}]
  <2>1. u = [w EXCEPT !.eeprom[w.data.EEAR] = Programmed(@, w.data.EEDR, EecrMode(val)),
                      !.data.EECR = @ \ {"EEPE"}]
    BY <1>1, <1>2 DEF setEECR
  <2> QED BY <2>1, <1>3 DEF WellFormed, Registers
<1>5. cell = Programmed(s.eeprom[a], s.data.EEDR, mode) /\ b = a
  BY <1>1, <1>3
<1> HIDE DEF cell, b, a
<1>6. u = [w EXCEPT !.eeprom = [@ EXCEPT ![b] = cell],
                    !.data = [@ EXCEPT !.EECR = w.data.EECR \ {"EEPE"}]]
  BY <1>3, <1>4 DEF WellFormed
<1>7. /\ WellFormed(u) /\ u.eeprom = [w.eeprom EXCEPT ![b] = cell]
      /\ u.data.EECR = w.data.EECR \ {"EEPE"}
  BY <1>3, <1>6 DEF WellFormed, Registers
<1> QED BY <1>3, <1>5, <1>7 DEF u, val, old, a

LEMMA ByteRead ==
  ASSUME NEW s, WellFormed(s), "EEPE" \notin s.data.EECR
  PROVE  LET u == setByteAt(s, "EECR", s.data.EECR \cup {"EERE"})
         IN  /\ WellFormed(u) /\ u.eeprom = s.eeprom /\ "EEPE" \notin u.data.EECR
             /\ u.data.EEAR = s.data.EEAR /\ u.data.EEDR = s.eeprom[s.data.EEAR]
<1> DEFINE old == s.data.EECR
           val == old \cup {"EERE"}
           w == [s EXCEPT !.data["EECR"] = val]
           u == setByteAt(s, "EECR", val)
           x == [w EXCEPT !.data.EEDR = w.eeprom[w.data.EEAR]]
<1>1. /\ "EERE" \in val /\ "EEPE" \notin val /\ ("EEMPE" \in val => "EEMPE" \in old)
  OBVIOUS
<1>2. u = setEECR(w, val, old)
  BY DEF setByteAt, update_Set
<1>3. WellFormed(w) /\ w.eeprom = s.eeprom /\ w.data.EECR = val
      /\ w.data.EEAR = s.data.EEAR
  <2> HIDE DEF val
  <2> QED BY DEF WellFormed, Registers
<1> HIDE DEF w, val, old, u
<1>4. /\ WellFormed(x) /\ x.eeprom = w.eeprom /\ x.data.EECR = val
      /\ x.data.EEAR = w.data.EEAR /\ x.data.EEDR = w.eeprom[w.data.EEAR]
  <2> DEFINE byte == w.eeprom[w.data.EEAR]
  <2> HIDE DEF byte
  <2>1. x = [w EXCEPT !.data = [@ EXCEPT !.EEDR = byte]]
    BY <1>3 DEF WellFormed, byte
  <2>2. /\ WellFormed(x) /\ x.eeprom = w.eeprom /\ x.data.EECR = val
        /\ x.data.EEAR = w.data.EEAR /\ x.data.EEDR = byte
    <3> HIDE DEF x
    <3> QED BY <1>3, <2>1 DEF WellFormed, Registers
  <2> QED BY <2>2 DEF byte
<1>5. u = Age(x, 4)
  BY <1>1, <1>2 DEF setEECR
<1> HIDE DEF x
<1>6. WellFormed(u) /\ SameEeprom(u, x)
  BY <1>4, <1>5, AgeFacts
<1> QED BY <1>1, <1>3, <1>4, <1>6 DEF SameEeprom, u, val, old
-----------------------------------------------------------------------------
\* The drivers, instruction by instruction

(* A sequence that is two others, one after the other. *)
LEMMA Joined ==
  ASSUME NEW S, NEW s \in Seq(S), NEW q \in Seq(S), NEW u, u = s \o q
  PROVE  /\ u \in Seq(S) /\ Len(u) = Len(s) + Len(q)
         /\ \A i \in 1..Len(s) : u[i] = s[i]
         /\ \A i \in 1..Len(q) : u[Len(s) + i] = q[i]
<1>1. /\ u \in Seq(S) /\ Len(u) = Len(s) + Len(q)
      /\ \A i \in 1 .. Len(s) + Len(q) : u[i] = IF i <= Len(s) THEN s[i] ELSE q[i - Len(s)]
  BY ConcatProperties, Zenon
<1>2. Len(s) \in Nat /\ Len(q) \in Nat
  OBVIOUS
<1> DEFINE m == Len(s)
           n == Len(q)
<1> HIDE DEF m, n
<1>3. \A i \in 1..n : m + i \in 1..(m + n) /\ ~(m + i <= m) /\ (m + i) - m = i
  BY <1>2 DEF m, n
<1>4. \A i \in 1..m : i \in 1..(m + n) /\ i <= m
  BY <1>2 DEF m, n
<1> QED BY <1>1, <1>3, <1>4 DEF m, n

LEMMA SixJoined ==
  ASSUME NEW e1, NEW e2, NEW e3, NEW e4, NEW e5, NEW e6
  PROVE  ((<<e1>> \o <<e2>>) \o <<e3, e4>>) \o <<e5, e6>> = <<e1, e2, e3, e4, e5, e6>>
<1> DEFINE S == {e1, e2, e3, e4, e5, e6}
           a == <<e1>>
           b == <<e2>>
           c == <<e3, e4>>
           d == <<e5, e6>>
           all == <<e1, e2, e3, e4, e5, e6>>
<1>1. a \in Seq(S) /\ b \in Seq(S) /\ c \in Seq(S) /\ d \in Seq(S) /\ all \in Seq(S)
  OBVIOUS
<1>2. /\ Len(a) = 1 /\ Len(b) = 1 /\ Len(c) = 2 /\ Len(d) = 2 /\ Len(all) = 6
      /\ a[1] = e1 /\ b[1] = e2 /\ c[1] = e3 /\ c[2] = e4 /\ d[1] = e5 /\ d[2] = e6
      /\ all[1] = e1 /\ all[2] = e2 /\ all[3] = e3 /\ all[4] = e4 /\ all[5] = e5 /\ all[6] = e6
  OBVIOUS
<1> HIDE DEF a, b, c, d, all, S
<1> DEFINE x == a \o b
           y == x \o c
           z == y \o d
<1>3. /\ x \in Seq(S) /\ Len(x) = 2 /\ x[1] = e1 /\ x[2] = e2
  <2>1. x = a \o b
    OBVIOUS
  <2> HIDE DEF x
  <2>2. a \in Seq(S) /\ b \in Seq(S)
    BY <1>1
  <2>3. /\ x \in Seq(S) /\ Len(x) = Len(a) + Len(b)
        /\ \A i \in 1..Len(a) : x[i] = a[i]
        /\ \A i \in 1..Len(b) : x[Len(a) + i] = b[i]
    BY <2>1, <2>2, Joined
  <2>4. Len(x) = 2 /\ x[1] = a[1] /\ x[1 + 1] = b[1]
    BY <1>2, <2>3
  <2> QED BY <1>2, <2>3, <2>4
<1> HIDE DEF x
<1>4. /\ y \in Seq(S) /\ Len(y) = 4 /\ y[1] = e1 /\ y[2] = e2
      /\ y[3] = e3 /\ y[4] = e4
  <2>1. y = x \o c
    OBVIOUS
  <2> HIDE DEF y
  <2>2. x \in Seq(S) /\ c \in Seq(S)
    BY <1>1, <1>3
  <2>3. /\ y \in Seq(S) /\ Len(y) = Len(x) + Len(c)
        /\ \A i \in 1..Len(x) : y[i] = x[i]
        /\ \A i \in 1..Len(c) : y[Len(x) + i] = c[i]
    BY <2>1, <2>2, Joined
  <2>4. Len(y) = 4 /\ y[1] = x[1] /\ y[2] = x[2] /\ y[2 + 1] = c[1] /\ y[2 + 2] = c[2]
    BY <1>2, <1>3, <2>3
  <2> QED BY <1>2, <1>3, <2>3, <2>4
<1> HIDE DEF y
<1>5. /\ z \in Seq(S) /\ Len(z) = 6 /\ z[1] = e1 /\ z[2] = e2
      /\ z[3] = e3 /\ z[4] = e4 /\ z[5] = e5 /\ z[6] = e6
  <2>1. z = y \o d
    OBVIOUS
  <2> HIDE DEF z
  <2>2. y \in Seq(S) /\ d \in Seq(S)
    BY <1>1, <1>4
  <2>3. /\ z \in Seq(S) /\ Len(z) = Len(y) + Len(d)
        /\ \A i \in 1..Len(y) : z[i] = y[i]
        /\ \A i \in 1..Len(d) : z[Len(y) + i] = d[i]
    BY <2>1, <2>2, Joined
  <2>4. /\ Len(z) = 6 /\ z[1] = y[1] /\ z[2] = y[2] /\ z[3] = y[3] /\ z[4] = y[4]
        /\ z[4 + 1] = d[1] /\ z[4 + 2] = d[2]
    BY <1>2, <1>4, <2>3
  <2> QED BY <1>2, <1>4, <2>3, <2>4
<1> HIDE DEF z
<1>6. \A i \in 1..6 : z[i] = all[i]
  BY <1>2, <1>5
<1>7. z = all
  BY <1>1, <1>2, <1>5, <1>6, SeqEqual
<1> QED BY <1>7 DEF z, y, x, a, b, c, d, all

LEMMA FourSteps ==
  ASSUME NEW e1, NEW e2, NEW e3, NEW e4, NEW p, p = <<e1, e2, e3, e4>>
  PROVE  Len(p) = 4 /\ p[1] = e1 /\ p[2] = e2 /\ p[3] = e3 /\ p[4] = e4
OBVIOUS

LEMMA FewSteps ==
  ASSUME NEW e1, NEW e2, NEW e3
  PROVE  /\ \A p : p = <<e1, e2>> => Len(p) = 2 /\ p[1] = e1 /\ p[2] = e2
         /\ \A p : p = <<e1, e2, e3>> => Len(p) = 3 /\ p[1] = e1 /\ p[2] = e2 /\ p[3] = e3
OBVIOUS

Write6(a, v, mode) ==
  << Until("EECR", "EEPE", FALSE), <<"OUT", "EECR", mode>>, <<"OUT", "EEAR", a>>,
     <<"OUT", "EEDR", v>>, <<"SBI", "EECR", "EEMPE">>, <<"SBI", "EECR", "EEPE">> >>

LEMMA StoreIsWrite6 ==
  ASSUME ClearsMode, NEW a, NEW v, NEW mode
  PROVE  Store(a, v, mode) = Write6(a, v, mode)
<1> DEFINE e1 == Until("EECR", "EEPE", FALSE)
           e2 == <<"OUT", "EECR", mode>>
           e3 == <<"OUT", "EEAR", a>>
           e4 == <<"OUT", "EEDR", v>>
           e5 == <<"SBI", "EECR", "EEMPE">>
           e6 == <<"SBI", "EECR", "EEPE">>
<1>1. Store(a, v, mode) = <<e1>> \o <<e2>> \o <<e3, e4>> \o <<e5, e6>>
  BY Zenon DEF Store, Pair
<1>2. Write6(a, v, mode) = <<e1, e2, e3, e4, e5, e6>>
  BY Zenon DEF Write6
<1> HIDE DEF e1, e2, e3, e4, e5, e6
<1>3. <<e1>> \o <<e2>> \o <<e3, e4>> \o <<e5, e6>> = <<e1, e2, e3, e4, e5, e6>>
  BY SixJoined
<1> QED BY <1>1, <1>2, <1>3

LEMMA Write6Steps ==
  ASSUME NEW a, NEW v, NEW mode, NEW p, p = Write6(a, v, mode)
  PROVE  /\ Len(p) = 6 /\ DOMAIN p = 1..6
         /\ p[1][1] = "until" /\ p[2] = <<"OUT", "EECR", mode>>
         /\ p[3] = <<"OUT", "EEAR", a>> /\ p[4] = <<"OUT", "EEDR", v>>
         /\ p[5] = <<"SBI", "EECR", "EEMPE">> /\ p[6] = <<"SBI", "EECR", "EEPE">>
<1> DEFINE e1 == <<"until", "EECR", "EEPE", FALSE>>
           e2 == <<"OUT", "EECR", mode>>
           e3 == <<"OUT", "EEAR", a>>
           e4 == <<"OUT", "EEDR", v>>
           e5 == <<"SBI", "EECR", "EEMPE">>
           e6 == <<"SBI", "EECR", "EEPE">>
<1>1. p = <<e1, e2, e3, e4, e5, e6>>
  BY Zenon DEF Write6, Until
<1> HIDE DEF e1, e2, e3, e4, e5, e6
<1>2. /\ Len(p) = 6 /\ DOMAIN p = 1..6
      /\ p[1] = e1 /\ p[2] = e2 /\ p[3] = e3 /\ p[4] = e4 /\ p[5] = e5 /\ p[6] = e6
  BY <1>1
<1>3. e1[1] = "until"
  BY DEF e1
<1> QED BY <1>2, <1>3, Zenon DEF e2, e3, e4, e5, e6

LEMMA FetchSteps ==
  ASSUME NEW a
  PROVE  /\ Len(Fetch(a)) = 4
         /\ Fetch(a)[1][1] = "until"
         /\ Fetch(a)[2] = <<"OUT", "EEAR", a>>
         /\ Fetch(a)[3] = <<"SBI", "EECR", "EERE">>
         /\ Fetch(a)[4] = <<"IN", "EEDR", "-">>
<1>1. /\ Len(Fetch(a)) = 4 /\ Fetch(a)[1] = <<"until", "EECR", "EEPE", FALSE>>
      /\ Fetch(a)[2] = <<"OUT", "EEAR", a>> /\ Fetch(a)[3] = <<"SBI", "EECR", "EERE">>
      /\ Fetch(a)[4] = <<"IN", "EEDR", "-">>
  BY FourSteps, Zenon DEF Fetch, Until
<1>2. <<"until", "EECR", "EEPE", FALSE>>[1] = "until"
  OBVIOUS
<1> QED BY <1>1, <1>2, Zenon

(* The other drivers leave EECR, EEAR and EEDR alone. *)
Others == {Lock, PllOff, Convert} \cup {Transfer(v) : v \in Bytes}
Elsewhere(step) ==
  \/ step[1] = "OUT" /\ step[2] \in {"PLLCSR", "ADCSRA", "SPDR"}
  \/ step[1] = "until"
LEMMA StepsElsewhere ==
  ASSUME NEW reg \in {"PLLCSR", "ADCSRA", "SPDR"}, NEW x, NEW y, NEW z
  PROVE  Elsewhere(<<"OUT", reg, x>>) /\ Elsewhere(<<"until", x, y, z>>)
BY DEF Elsewhere
LEMMA OthersSteps ==
  ASSUME NEW p \in Others
  PROVE  Len(p) \in Nat \ {0} /\ p # << >> /\ \A i \in 1..Len(p) : Elsewhere(p[i])
<1>1. CASE p = Lock \/ p = PllOff
  <2>1. PICK e1, e2 : p = <<e1, e2>> /\ Elsewhere(e1) /\ Elsewhere(e2)
    BY <1>1, StepsElsewhere, Zenon DEF Lock, PllOff, Until
  <2>2. Len(p) = 2 /\ p[1] = e1 /\ p[2] = e2
    BY <2>1, FewSteps, Zenon
  <2> QED BY <2>1, <2>2
<1>2. CASE p = Convert
  <2>1. PICK e1, e2, e3 : p = <<e1, e2, e3>> /\ Elsewhere(e1) /\ Elsewhere(e2) /\ Elsewhere(e3)
    BY <1>2, StepsElsewhere, Zenon DEF Convert, Until
  <2>2. Len(p) = 3 /\ p[1] = e1 /\ p[2] = e2 /\ p[3] = e3
    BY <2>1, FewSteps, Zenon
  <2> QED BY <2>1, <2>2
<1>3. CASE \E v \in Bytes : p = Transfer(v)
  <2>1. PICK e1, e2 : p = <<e1, e2>> /\ Elsewhere(e1) /\ Elsewhere(e2)
    BY <1>3, StepsElsewhere, Zenon DEF Transfer, Until
  <2>2. Len(p) = 2 /\ p[1] = e1 /\ p[2] = e2
    BY <2>1, FewSteps, Zenon
  <2> QED BY <2>1, <2>2
<1> QED BY <1>1, <1>2, <1>3 DEF Others

(* What the write a driver has started asks of the cells. *)
LEMMA WhatIsAsked ==
  ASSUME NEW a \in Addrs, NEW v, NEW mode \in Modes, program = Write6(a, v, mode),
         cells = [b \in Addrs |-> cells[b]]
  PROVE  Requested = [cells EXCEPT ![a] = Programmed(cells[a], v, mode)]
<1> DEFINE At(reg, j) == program[j][1] = "OUT" /\ program[j][2] = reg
<1>0. /\ DOMAIN program = 1..6
      /\ program[1][1] = "until" /\ program[2] = <<"OUT", "EECR", mode>>
      /\ program[3] = <<"OUT", "EEAR", a>> /\ program[4] = <<"OUT", "EEDR", v>>
      /\ program[5] = <<"SBI", "EECR", "EEMPE">> /\ program[6] = <<"SBI", "EECR", "EEPE">>
  BY Write6Steps
<1>1. /\ program[1][1] # "OUT" /\ program[5][1] # "OUT" /\ program[6][1] # "OUT"
      /\ program[2][1] = "OUT" /\ program[2][2] = "EECR" /\ program[2][3] = mode
      /\ program[3][1] = "OUT" /\ program[3][2] = "EEAR" /\ program[3][3] = a
      /\ program[4][1] = "OUT" /\ program[4][2] = "EEDR" /\ program[4][3] = v
  BY <1>0
<1>2. \A j \in DOMAIN program : At("EEAR", j) <=> j = 3
  BY <1>0, <1>1
<1>3. \A j \in DOMAIN program : At("EEDR", j) <=> j = 4
  BY <1>0, <1>1
<1>4. (CHOOSE j \in DOMAIN program : program[j][1] = "OUT" /\ program[j][2] = "EEAR") = 3
  BY <1>0, <1>2
<1>5. (CHOOSE j \in DOMAIN program : program[j][1] = "OUT" /\ program[j][2] = "EEDR") = 4
  BY <1>0, <1>3
<1>6. program[3][3] = a /\ program[4][3] = v /\ program[2][2] = "EECR" /\ program[2][3] = mode
  BY <1>1
<1>7. Requested = [cells EXCEPT ![a] = (IF "EEPM1" \in mode THEN @ ELSE {})
                                         \cup (IF "EEPM0" \in mode THEN {} ELSE v)]
  BY <1>4, <1>5, <1>6 DEF Requested
<1>8. (IF "EEPM1" \in mode THEN cells[a] ELSE {}) \cup (IF "EEPM0" \in mode THEN {} ELSE v)
        = Programmed(cells[a], v, mode)
  BY DEF Programmed, Modes
<1> QED BY <1>7, <1>8
-----------------------------------------------------------------------------
\* The instructions, whatever handler runs before them

LEMMA HandledFacts ==
  ASSUME WellFormed(io), NEW s \in Handled(io)
  PROVE  WellFormed(s) /\ SameEeprom(s, io) /\ (StartsWrite => s = io)
<1>1. CASE StartsWrite
  BY <1>1 DEF Handled, SameEeprom
<1>2. CASE ~StartsWrite
  <2>1. PICK k : s = Age(io, k)
    BY <1>2 DEF Handled
  <2> QED BY <1>2, <2>1, AgeFacts
<1> QED BY <1>1, <1>2

LEMMA PollFacts ==
  ASSUME WellFormed(io), Poll
  PROVE  /\ WellFormed(io') /\ io'.eeprom = io.eeprom /\ io'.data.EECR \subseteq io.data.EECR
         /\ io'.data.EEAR = io.data.EEAR /\ io'.data.EEDR = io.data.EEDR
         /\ pc' \in {pc, pc + 1} /\ program' = program /\ got' = got /\ cells' = cells
<1>1. PICK s \in Handled(io) : io' = Age(update_Get(s, Current[2]), 3)
  BY DEF Poll
<1>2. pc' \in {pc, pc + 1} /\ program' = program /\ got' = got /\ cells' = cells
  BY DEF Poll
<1>3. WellFormed(s) /\ SameEeprom(s, io)
  BY HandledFacts
<1> DEFINE x == update_Get(s, Current[2])
<1>4. /\ WellFormed(x) /\ x.eeprom = s.eeprom
      /\ x.data.EEAR = s.data.EEAR /\ x.data.EEDR = s.data.EEDR
      /\ x.data.EECR \subseteq s.data.EECR
  BY <1>3, GetFacts
<1> HIDE DEF x
<1>5. WellFormed(io') /\ SameEeprom(io', x)
  BY <1>1, <1>4, AgeFacts DEF x
<1> QED BY <1>2, <1>3, <1>4, <1>5 DEF SameEeprom

LEMMA OutFacts ==
  ASSUME WellFormed(io), INST_OUT, NEW reg \in Registers \ {"EECR"}, Current[2] = reg
  PROVE  /\ WellFormed(io') /\ io'.eeprom = io.eeprom /\ io'.data.EECR = io.data.EECR
         /\ io'.data.EEAR = IF reg = "EEAR" THEN Current[3] ELSE io.data.EEAR
         /\ io'.data.EEDR = IF reg = "EEDR" THEN Current[3] ELSE io.data.EEDR
<1>1. PICK s \in Handled(io) : io' = Age(setByteAt(s, reg, Current[3]), 1)
  BY DEF INST_OUT
<1>2. WellFormed(s) /\ SameEeprom(s, io)
  BY HandledFacts
<1> DEFINE x == setByteAt(s, reg, Current[3])
<1>3. /\ WellFormed(x) /\ x.eeprom = s.eeprom /\ x.data.EECR = s.data.EECR
      /\ x.data.EEAR = IF reg = "EEAR" THEN Current[3] ELSE s.data.EEAR
      /\ x.data.EEDR = IF reg = "EEDR" THEN Current[3] ELSE s.data.EEDR
  BY <1>2, SetFacts
<1> HIDE DEF x
<1>4. WellFormed(io') /\ SameEeprom(io', x)
  BY <1>1, <1>3, AgeFacts DEF x
<1> QED BY <1>2, <1>3, <1>4 DEF SameEeprom

LEMMA OutModeFacts ==
  ASSUME WellFormed(io), INST_OUT, NEW mode \in Modes, Current[2] = "EECR", Current[3] = mode
  PROVE  WellFormed(io') /\ io'.eeprom = io.eeprom /\ io'.data.EECR = mode
<1>1. PICK s \in Handled(io) : io' = Age(setByteAt(s, "EECR", mode), 1)
  BY DEF INST_OUT
<1>2. WellFormed(s) /\ SameEeprom(s, io)
  BY HandledFacts
<1> DEFINE x == setByteAt(s, "EECR", mode)
<1>3. WellFormed(x) /\ x.eeprom = s.eeprom /\ x.data.EECR = mode
  BY <1>2, ModeSet
<1> HIDE DEF x
<1>4. WellFormed(io') /\ SameEeprom(io', x)
  BY <1>1, <1>3, AgeFacts DEF x
<1> QED BY <1>2, <1>3, <1>4 DEF SameEeprom

(* SBI EECR, EEMPE with the window closed *)
LEMMA OpenFacts ==
  ASSUME WellFormed(io), INST_SBI, NEW mode \in Modes, io.data.EECR = mode,
         Current = <<"SBI", "EECR", "EEMPE">>
  PROVE  /\ WellFormed(io') /\ io'.eeprom = io.eeprom /\ io'.data.EECR = mode \cup {"EEMPE"}
         /\ io'.data.EEAR = io.data.EEAR /\ io'.data.EEDR = io.data.EEDR
         /\ ~(io'.lastSet.EEMPE > 4) /\ cells' = cells
<1>0. /\ Current[2] = "EECR" /\ Current[3] = "EEMPE" /\ ~StartsWrite
  BY DEF StartsWrite
<1>1. PICK s \in Handled(io) :
        io' = Age(setByteAt(update_Get(s, "EECR"), "EECR",
                               update_Get(s, "EECR").data["EECR"] \cup {"EEMPE"}), 2)
  BY <1>0 DEF INST_SBI
<1>2. cells' = cells
  BY <1>0 DEF INST_SBI
<1>3. WellFormed(s) /\ SameEeprom(s, io)
  BY HandledFacts
<1> DEFINE x == update_Get(s, "EECR")
           y == setByteAt(x, "EECR", x.data.EECR \cup {"EEMPE"})
<1>4. "EEMPE" \notin s.data.EECR
  BY <1>3 DEF SameEeprom, Modes
<1>5. /\ WellFormed(x) /\ x.eeprom = s.eeprom /\ x.data.EECR = s.data.EECR
      /\ x.data.EEAR = s.data.EEAR /\ x.data.EEDR = s.data.EEDR
  BY <1>3, <1>4, GetFacts
<1> HIDE DEF x
<1>6. /\ WellFormed(y) /\ y.eeprom = x.eeprom
      /\ y.data.EECR = x.data.EECR \cup {"EEMPE"} /\ y.lastSet.EEMPE = 0
      /\ y.data.EEAR = x.data.EEAR /\ y.data.EEDR = x.data.EEDR
  <2>1. x.data.EECR \in Modes
    BY <1>3, <1>5 DEF SameEeprom
  <2> QED BY <1>5, <2>1, WindowOpens
<1>7. io' = Age(y, 2)
  BY <1>1 DEF x
<1> HIDE DEF y
<1>8. WellFormed(io') /\ SameEeprom(io', y) /\ io'.lastSet.EEMPE = Min({y.lastSet.EEMPE + 2, 5})
  BY <1>6, <1>7, AgeFacts
<1>9. Min({0 + 2, 5}) = 2
  <2> DEFINE S == {0 + 2, 5}
  <2>1. 2 \in S /\ \A n \in S : 2 <= n
    OBVIOUS
  <2>2. Min(S) \in S /\ \A n \in S : Min(S) <= n
    <3> HIDE DEF S
    <3> QED BY <2>1 DEF Min
  <2> QED BY <2>1, <2>2
<1>10. ~(io'.lastSet.EEMPE > 4)
  BY <1>6, <1>8, <1>9
<1> QED BY <1>2, <1>3, <1>5, <1>6, <1>8, <1>10 DEF SameEeprom

(* SBI EECR, EEPE right after it *)
LEMMA StartFacts ==
  ASSUME WellFormed(io), INST_SBI, NEW mode \in Modes, io.data.EECR = mode \cup {"EEMPE"},
         ~(io.lastSet.EEMPE > 4), io.data.EEAR \in Addrs,
         Current = <<"SBI", "EECR", "EEPE">>
  PROVE  /\ WellFormed(io') /\ "EEPE" \notin io'.data.EECR /\ cells' = Requested
         /\ io'.eeprom = [io.eeprom EXCEPT ![io.data.EEAR] =
                            Programmed(io.eeprom[io.data.EEAR], io.data.EEDR, mode)]
<1>0. /\ Current[2] = "EECR" /\ Current[3] = "EEPE" /\ StartsWrite
  BY DEF StartsWrite
<1>1. PICK s \in Handled(io) :
        io' = Age(setByteAt(update_Get(s, "EECR"), "EECR",
                               update_Get(s, "EECR").data["EECR"] \cup {"EEPE"}), 2)
  BY <1>0 DEF INST_SBI
<1>2. cells' = Requested
  BY <1>0 DEF INST_SBI
<1>3. s = io
  BY <1>0, HandledFacts
<1> DEFINE x == update_Get(io, "EECR")
           y == setByteAt(x, "EECR", x.data.EECR \cup {"EEPE"})
<1>4. /\ WellFormed(x) /\ x.eeprom = io.eeprom /\ x.data.EECR = io.data.EECR
      /\ x.data.EEAR = io.data.EEAR /\ x.data.EEDR = io.data.EEDR
  BY GetFacts
<1>5. io' = Age(y, 2)
  BY <1>1, <1>3
<1> HIDE DEF x
<1>6. /\ WellFormed(y) /\ "EEPE" \notin y.data.EECR
      /\ y.eeprom = [x.eeprom EXCEPT ![x.data.EEAR] =
                       Programmed(x.eeprom[x.data.EEAR], x.data.EEDR, mode)]
  BY <1>4, ByteWritten
<1> HIDE DEF y
<1>7. WellFormed(io') /\ SameEeprom(io', y)
  BY <1>5, <1>6, AgeFacts
<1> QED BY <1>2, <1>4, <1>6, <1>7 DEF SameEeprom

(* SBI EECR, EERE *)
LEMMA StrobeFacts ==
  ASSUME WellFormed(io), INST_SBI, "EEPE" \notin io.data.EECR,
         Current = <<"SBI", "EECR", "EERE">>
  PROVE  /\ WellFormed(io') /\ io'.eeprom = io.eeprom /\ "EEPE" \notin io'.data.EECR
         /\ io'.data.EEAR = io.data.EEAR /\ io'.data.EEDR = io.eeprom[io.data.EEAR]
         /\ cells' = cells
<1>0. /\ Current[2] = "EECR" /\ Current[3] = "EERE" /\ ~StartsWrite
  BY DEF StartsWrite
<1>1. PICK s \in Handled(io) :
        io' = Age(setByteAt(update_Get(s, "EECR"), "EECR",
                               update_Get(s, "EECR").data["EECR"] \cup {"EERE"}), 2)
  BY <1>0 DEF INST_SBI
<1>2. cells' = cells
  BY <1>0 DEF INST_SBI
<1>3. WellFormed(s) /\ SameEeprom(s, io)
  BY HandledFacts
<1> DEFINE x == update_Get(s, "EECR")
           y == setByteAt(x, "EECR", x.data.EECR \cup {"EERE"})
<1>4. /\ WellFormed(x) /\ x.eeprom = s.eeprom /\ "EEPE" \notin x.data.EECR
      /\ x.data.EEAR = s.data.EEAR
  BY <1>3, GetFacts DEF SameEeprom
<1>5. io' = Age(y, 2)
  BY <1>1
<1> HIDE DEF x
<1>6. /\ WellFormed(y) /\ y.eeprom = x.eeprom /\ "EEPE" \notin y.data.EECR
      /\ y.data.EEAR = x.data.EEAR /\ y.data.EEDR = x.eeprom[x.data.EEAR]
  BY <1>4, ByteRead
<1> HIDE DEF y
<1>7. WellFormed(io') /\ SameEeprom(io', y)
  BY <1>5, <1>6, AgeFacts
<1> QED BY <1>2, <1>3, <1>4, <1>6, <1>7 DEF SameEeprom

(* IN EEDR *)
LEMMA InFacts ==
  ASSUME WellFormed(io), INST_IN, Current[2] = "EEDR"
  PROVE  /\ WellFormed(io') /\ io'.eeprom = io.eeprom /\ io'.data.EECR \subseteq io.data.EECR
         /\ got' = io.data.EEDR /\ cells' = cells
<1>1. PICK s \in Handled(io) : /\ got' = update_Get(s, "EEDR").data["EEDR"]
                               /\ io' = Age(update_Get(s, "EEDR"), 1)
  BY DEF INST_IN
<1>2. cells' = cells
  BY DEF INST_IN
<1>3. WellFormed(s) /\ SameEeprom(s, io)
  BY HandledFacts
<1> DEFINE x == update_Get(s, "EEDR")
<1>4. /\ WellFormed(x) /\ x.eeprom = s.eeprom /\ x.data.EEDR = s.data.EEDR
      /\ x.data.EECR \subseteq s.data.EECR
  BY <1>3, GetFacts
<1> HIDE DEF x
<1>5. WellFormed(io') /\ SameEeprom(io', x)
  BY <1>1, <1>4, AgeFacts DEF x
<1>6. got' = x.data.EEDR
  BY <1>1 DEF x
<1> QED BY <1>2, <1>3, <1>4, <1>5, <1>6 DEF SameEeprom
-----------------------------------------------------------------------------
\* The invariant: where a driver is, and what its instructions so far have set up

Storing(a, v, mode) ==
  /\ program = Write6(a, v, mode) /\ pc \in 1..7
  /\ pc \in 3..5 => io.data.EECR = mode
  /\ pc \in 4..6 => io.data.EEAR = a
  /\ pc \in 5..6 => io.data.EEDR = v
  /\ pc = 6 => io.data.EECR = mode \cup {"EEMPE"} /\ ~(io.lastSet.EEMPE > 4)
Fetching(a) ==
  /\ program = Fetch(a) /\ pc \in 1..5
  /\ pc \in 3..4 => io.data.EEAR = a
  /\ pc = 4 => io.data.EEDR = io.eeprom[a]
  /\ pc = 5 => got = cells[a]
Driving ==
  \/ program = << >>
  \/ program \in Others /\ pc \in Nat \ {0}
  \/ \E a \in Addrs, v \in Bytes, mode \in Modes : Storing(a, v, mode)
  \/ \E a \in Addrs : Fetching(a)
Kept == WellFormed(io) /\ "EEPE" \notin io.data.EECR /\ io.eeprom = cells
IInv == Kept /\ Driving

LEMMA WhichInstruction ==
  ASSUME Instruction
  PROVE  /\ program' = program
         /\ pc <= Len(program)
         /\ Current[1] = "until" => Poll
         /\ Current[1] = "OUT" => INST_OUT /\ pc' = pc + 1 /\ got' = got /\ cells' = cells
         /\ Current[1] = "SBI" => INST_SBI /\ pc' = pc + 1 /\ got' = got
         /\ Current[1] = "IN" => INST_IN /\ pc' = pc + 1
         /\ Poll \/ INST_OUT \/ INST_SBI \/ INST_IN
BY DEF Instruction, Running, Poll, INST_OUT, INST_SBI, INST_IN, Advance

LEMMA StoringStep ==
  ASSUME Kept, Instruction, NEW a \in Addrs, NEW v \in Bytes, NEW mode \in Modes,
         Storing(a, v, mode)
  PROVE  IInv'
<1>1. program = Write6(a, v, mode) /\ pc \in 1..7
  BY DEF Storing
<1>2. /\ Len(program) = 6
      /\ program[1][1] = "until" /\ program[2] = <<"OUT", "EECR", mode>>
      /\ program[3] = <<"OUT", "EEAR", a>> /\ program[4] = <<"OUT", "EEDR", v>>
      /\ program[5] = <<"SBI", "EECR", "EEMPE">> /\ program[6] = <<"SBI", "EECR", "EEPE">>
  BY <1>1, Write6Steps
<1>3. /\ WellFormed(io) /\ "EEPE" \notin io.data.EECR /\ io.eeprom = cells
      /\ pc \in 1..6 /\ program' = program
  BY <1>1, <1>2, WhichInstruction DEF Kept
<1>4. Storing(a, v, mode)' => Driving'
  BY DEF Driving
<1>5. CASE pc = 1
  <2>1. Poll
    BY <1>2, <1>5, WhichInstruction DEF Current
  <2>2. /\ WellFormed(io') /\ io'.eeprom = io.eeprom /\ io'.data.EECR \subseteq io.data.EECR
        /\ pc' \in {pc, pc + 1} /\ cells' = cells
    BY <1>3, <2>1, PollFacts
  <2>3. Kept' /\ Storing(a, v, mode)'
    BY <1>1, <1>3, <1>5, <2>2 DEF Kept, Storing
  <2> QED BY <1>4, <2>3 DEF IInv
<1>6. CASE pc = 2
  <2>1. Current[1] = "OUT" /\ Current[2] = "EECR" /\ Current[3] = mode
    BY <1>2, <1>6 DEF Current
  <2>2. INST_OUT /\ pc' = 3 /\ cells' = cells
    BY <1>6, <2>1, WhichInstruction
  <2>3. WellFormed(io') /\ io'.eeprom = io.eeprom /\ io'.data.EECR = mode
    BY <1>3, <2>1, <2>2, OutModeFacts
  <2>4. Kept' /\ Storing(a, v, mode)'
    BY <1>1, <1>3, <2>2, <2>3 DEF Kept, Storing, Modes
  <2> QED BY <1>4, <2>4 DEF IInv
<1>7. CASE pc = 3
  <2>1. Current[1] = "OUT" /\ Current[2] = "EEAR" /\ Current[3] = a
    BY <1>2, <1>7 DEF Current
  <2>2. INST_OUT /\ pc' = 4 /\ cells' = cells
    BY <1>7, <2>1, WhichInstruction
  <2>3. /\ WellFormed(io') /\ io'.eeprom = io.eeprom /\ io'.data.EECR = io.data.EECR
        /\ io'.data.EEAR = a
    <3>1. "EEAR" \in Registers \ {"EECR"}
      BY DEF Registers
    <3> QED BY <1>3, <2>1, <2>2, <3>1, OutFacts
  <2>4. Kept' /\ Storing(a, v, mode)'
    BY <1>1, <1>3, <1>7, <2>2, <2>3 DEF Kept, Storing
  <2> QED BY <1>4, <2>4 DEF IInv
<1>8. CASE pc = 4
  <2>1. Current[1] = "OUT" /\ Current[2] = "EEDR" /\ Current[3] = v
    BY <1>2, <1>8 DEF Current
  <2>2. INST_OUT /\ pc' = 5 /\ cells' = cells
    BY <1>8, <2>1, WhichInstruction
  <2>3. /\ WellFormed(io') /\ io'.eeprom = io.eeprom /\ io'.data.EECR = io.data.EECR
        /\ io'.data.EEAR = io.data.EEAR /\ io'.data.EEDR = v
    <3>1. "EEDR" \in Registers \ {"EECR"} /\ "EEDR" # "EEAR"
      BY DEF Registers
    <3> QED BY <1>3, <2>1, <2>2, <3>1, OutFacts
  <2>4. Kept' /\ Storing(a, v, mode)'
    BY <1>1, <1>3, <1>8, <2>2, <2>3 DEF Kept, Storing
  <2> QED BY <1>4, <2>4 DEF IInv
<1>9. CASE pc = 5
  <2>1. Current = <<"SBI", "EECR", "EEMPE">> /\ Current[1] = "SBI"
    BY <1>2, <1>9 DEF Current
  <2>2. INST_SBI /\ pc' = 6 /\ io.data.EECR = mode /\ io.data.EEAR = a /\ io.data.EEDR = v
    BY <1>9, <2>1, WhichInstruction DEF Storing
  <2>3. /\ WellFormed(io') /\ io'.eeprom = io.eeprom /\ io'.data.EECR = mode \cup {"EEMPE"}
        /\ io'.data.EEAR = io.data.EEAR /\ io'.data.EEDR = io.data.EEDR
        /\ ~(io'.lastSet.EEMPE > 4) /\ cells' = cells
    BY <1>3, <2>1, <2>2, OpenFacts
  <2>4. Kept' /\ Storing(a, v, mode)'
    BY <1>1, <1>3, <2>2, <2>3 DEF Kept, Storing
  <2> QED BY <1>4, <2>4 DEF IInv
<1>10. CASE pc = 6
  <2>1. Current = <<"SBI", "EECR", "EEPE">> /\ Current[1] = "SBI"
    BY <1>2, <1>10 DEF Current
  <2>2. /\ INST_SBI /\ pc' = 7 /\ io.data.EECR = mode \cup {"EEMPE"}
        /\ io.data.EEAR = a /\ io.data.EEDR = v /\ ~(io.lastSet.EEMPE > 4)
    BY <1>10, <2>1, WhichInstruction DEF Storing
  <2>3. /\ WellFormed(io') /\ "EEPE" \notin io'.data.EECR /\ cells' = Requested
        /\ io'.eeprom = [io.eeprom EXCEPT ![a] = Programmed(io.eeprom[a], v, mode)]
    BY <1>3, <2>1, <2>2, StartFacts
  <2>4. Requested = [cells EXCEPT ![a] = Programmed(cells[a], v, mode)]
    <3>1. cells = [b \in Addrs |-> cells[b]]
      BY <1>3 DEF WellFormed
    <3> QED BY <1>1, <3>1, WhatIsAsked
  <2>5. Kept'
    BY <1>3, <2>3, <2>4 DEF Kept
  <2>6. Storing(a, v, mode)'
    BY <1>1, <1>3, <2>2 DEF Storing
  <2> QED BY <1>4, <2>5, <2>6 DEF IInv
<1> QED BY <1>3, <1>5, <1>6, <1>7, <1>8, <1>9, <1>10

LEMMA FetchingStep ==
  ASSUME Kept, Instruction, NEW a \in Addrs, Fetching(a)
  PROVE  IInv'
<1>1. program = Fetch(a) /\ pc \in 1..5
  BY DEF Fetching
<1>2. /\ Len(program) = 4
      /\ program[1][1] = "until" /\ program[2] = <<"OUT", "EEAR", a>>
      /\ program[3] = <<"SBI", "EECR", "EERE">> /\ program[4] = <<"IN", "EEDR", "-">>
  BY <1>1, FetchSteps
<1>3. /\ WellFormed(io) /\ "EEPE" \notin io.data.EECR /\ io.eeprom = cells
      /\ pc \in 1..4 /\ program' = program
  BY <1>1, <1>2, WhichInstruction DEF Kept
<1>4. Fetching(a)' => Driving'
  BY DEF Driving
<1>5. CASE pc = 1
  <2>1. Poll
    BY <1>2, <1>5, WhichInstruction DEF Current
  <2>2. /\ WellFormed(io') /\ io'.eeprom = io.eeprom /\ io'.data.EECR \subseteq io.data.EECR
        /\ pc' \in {pc, pc + 1} /\ cells' = cells
    BY <1>3, <2>1, PollFacts
  <2>3. Kept' /\ Fetching(a)'
    BY <1>1, <1>3, <1>5, <2>2 DEF Kept, Fetching
  <2> QED BY <1>4, <2>3 DEF IInv
<1>6. CASE pc = 2
  <2>1. Current[1] = "OUT" /\ Current[2] = "EEAR" /\ Current[3] = a
    BY <1>2, <1>6 DEF Current
  <2>2. INST_OUT /\ pc' = 3 /\ cells' = cells
    BY <1>6, <2>1, WhichInstruction
  <2>3. /\ WellFormed(io') /\ io'.eeprom = io.eeprom /\ io'.data.EECR = io.data.EECR
        /\ io'.data.EEAR = a
    <3>1. "EEAR" \in Registers \ {"EECR"}
      BY DEF Registers
    <3> QED BY <1>3, <2>1, <2>2, <3>1, OutFacts
  <2>4. Kept' /\ Fetching(a)'
    BY <1>1, <1>3, <2>2, <2>3 DEF Kept, Fetching
  <2> QED BY <1>4, <2>4 DEF IInv
<1>7. CASE pc = 3
  <2>1. Current = <<"SBI", "EECR", "EERE">> /\ Current[1] = "SBI"
    BY <1>2, <1>7 DEF Current
  <2>2. INST_SBI /\ pc' = 4 /\ io.data.EEAR = a
    BY <1>7, <2>1, WhichInstruction DEF Fetching
  <2>3. /\ WellFormed(io') /\ io'.eeprom = io.eeprom /\ "EEPE" \notin io'.data.EECR
        /\ io'.data.EEAR = io.data.EEAR /\ io'.data.EEDR = io.eeprom[io.data.EEAR]
        /\ cells' = cells
    BY <1>3, <2>1, <2>2, StrobeFacts
  <2>4. Kept' /\ Fetching(a)'
    BY <1>1, <1>3, <2>2, <2>3 DEF Kept, Fetching
  <2> QED BY <1>4, <2>4 DEF IInv
<1>8. CASE pc = 4
  <2>1. Current[1] = "IN" /\ Current[2] = "EEDR"
    BY <1>2, <1>8 DEF Current
  <2>2. INST_IN /\ pc' = 5 /\ io.data.EEDR = io.eeprom[a]
    BY <1>8, <2>1, WhichInstruction DEF Fetching
  <2>3. /\ WellFormed(io') /\ io'.eeprom = io.eeprom /\ io'.data.EECR \subseteq io.data.EECR
        /\ got' = io.data.EEDR /\ cells' = cells
    BY <1>3, <2>1, <2>2, InFacts
  <2>4. Kept' /\ Fetching(a)'
    BY <1>1, <1>3, <2>2, <2>3 DEF Kept, Fetching
  <2> QED BY <1>4, <2>4 DEF IInv
<1> QED BY <1>3, <1>5, <1>6, <1>7, <1>8

LEMMA OthersStep ==
  ASSUME Kept, Instruction, program \in Others, pc \in Nat \ {0}
  PROVE  IInv'
<1>1. pc \in 1..Len(program) /\ program' = program
  BY WhichInstruction, OthersSteps
<1>2. Elsewhere(Current)
  BY <1>1, OthersSteps DEF Current
<1>3. /\ WellFormed(io) /\ "EEPE" \notin io.data.EECR /\ io.eeprom = cells
  BY DEF Kept
<1>4. CASE Current[1] = "until"
  <2>1. Poll
    BY <1>4, WhichInstruction
  <2>2. /\ WellFormed(io') /\ io'.eeprom = io.eeprom /\ io'.data.EECR \subseteq io.data.EECR
        /\ pc' \in {pc, pc + 1} /\ cells' = cells
    BY <1>3, <2>1, PollFacts
  <2> QED BY <1>1, <1>3, <2>2 DEF IInv, Kept, Driving
<1>5. CASE Current[1] = "OUT"
  <2>1. INST_OUT /\ pc' = pc + 1 /\ cells' = cells
    BY <1>5, WhichInstruction
  <2>2. Current[2] \in Registers \ {"EECR"}
    BY <1>2, <1>5 DEF Elsewhere, Registers
  <2>3. WellFormed(io') /\ io'.eeprom = io.eeprom /\ io'.data.EECR = io.data.EECR
    BY <1>3, <2>1, <2>2, OutFacts
  <2> QED BY <1>1, <1>3, <2>1, <2>3 DEF IInv, Kept, Driving
<1> QED BY <1>2, <1>4, <1>5 DEF Elsewhere

LEMMA NextIInv ==
  ASSUME ClearsMode, IInv, [DriversNext]_driverVars
  PROVE  IInv'
<1>1. CASE Start
  <2>1. program' \in Drivers /\ pc' = 1 /\ io' = io /\ cells' = cells
    BY <1>1 DEF Start
  <2>2. Kept'
    BY <2>1 DEF IInv, Kept
  <2>3. CASE \E a \in Addrs, v \in Bytes, mode \in Modes : program' = Store(a, v, mode)
    <3>1. PICK a \in Addrs, v \in Bytes, mode \in Modes : program' = Store(a, v, mode)
      BY <2>3
    <3>2. program' = Write6(a, v, mode)
      BY <3>1, StoreIsWrite6
    <3>3. Storing(a, v, mode)'
      BY <2>1, <3>2 DEF Storing
    <3> QED BY <2>2, <3>3 DEF IInv, Driving
  <2>4. CASE \E a \in Addrs : program' = Fetch(a)
    <3>1. PICK a \in Addrs : program' = Fetch(a)
      BY <2>4
    <3>2. Fetching(a)'
      BY <2>1, <3>1 DEF Fetching
    <3> QED BY <2>2, <3>2 DEF IInv, Driving
  <2>5. CASE program' \in Others
    BY <2>1, <2>2, <2>5 DEF IInv, Driving
  <2>6. \/ \E a \in Addrs, v \in Bytes, mode \in Modes : program' = Store(a, v, mode)
        \/ \E a \in Addrs : program' = Fetch(a)
        \/ program' \in Others
    <3>1. Drivers = {Store(a, v, mode) : a \in Addrs, v \in Bytes, mode \in Modes}
                      \cup {Fetch(a) : a \in Addrs} \cup Others
      BY DEF Drivers, Others, Modes
    <3> QED BY <2>1, <3>1
  <2> QED BY <2>3, <2>4, <2>5, <2>6
<1>2. CASE Instruction
  <2>1. program # << >>
    BY <1>2 DEF Instruction, Running
  <2> QED BY <1>2, <2>1, StoringStep, FetchingStep, OthersStep DEF IInv, Driving
<1>3. CASE End
  BY <1>3 DEF End, IInv, Kept, Driving
<1>4. CASE UNCHANGED driverVars
  BY <1>4 DEF driverVars, IInv, Kept, Driving, Storing, Fetching
<1> QED BY <1>1, <1>2, <1>3, <1>4 DEF DriversNext

LEMMA ThreeParts ==
  ASSUME NEW d, NEW e, NEW l,
         NEW r, r = [data |-> d, eeprom |-> e, lastSet |-> l]
  PROVE  r = [part \in {"data", "eeprom", "lastSet"} |-> r[part]]
OBVIOUS

LEMMA SevenRegisters ==
  ASSUME NEW a, NEW b, NEW c, NEW d, NEW e, NEW f, NEW g,
         NEW r, r = [EECR |-> a, EEDR |-> b, EEAR |-> c, PLLCSR |-> d, ADCSRA |-> e,
                     SPDR |-> f, SPSR |-> g]
  PROVE  r = [reg \in Registers |-> r[reg]]
BY DEF Registers

LEMMA InitIInv ==
  ASSUME DriversInit
  PROVE  IInv
<1>1. /\ io.data = [EECR |-> {}, EEDR |-> {}, EEAR |-> CHOOSE a \in Addrs : TRUE,
                     PLLCSR |-> {}, ADCSRA |-> {}, SPDR |-> {}, SPSR |-> {}]
      /\ io.eeprom = [a \in Addrs |-> {}] /\ cells = [a \in Addrs |-> {}]
      /\ io.lastSet = [EEMPE |-> 5, PLLE |-> 1]
  BY DEF DriversInit
<1>2. io = [part \in {"data", "eeprom", "lastSet"} |-> io[part]]
  <2>1. io = [data |-> io.data, eeprom |-> io.eeprom, lastSet |-> io.lastSet]
    BY DEF DriversInit
  <2> QED BY <2>1, ThreeParts, Zenon
<1>3. io.data = [reg \in Registers |-> io.data[reg]] /\ "EEPE" \notin io.data.EECR
  <2>1. io.data = [reg \in Registers |-> io.data[reg]]
    BY <1>1, SevenRegisters
  <2> QED BY <1>1, <2>1
<1>4. io.lastSet = [stamp \in {"EEMPE", "PLLE"} |-> io.lastSet[stamp]]
  BY <1>1
<1>5. io.eeprom = [a \in Addrs |-> io.eeprom[a]] /\ io.eeprom = cells
  BY <1>1
<1>6. Kept
  BY <1>2, <1>3, <1>4, <1>5 DEF Kept, WellFormed
<1> QED BY <1>6 DEF DriversInit, IInv, Driving

(* The EEPROM holds what the drivers asked for, whatever their addresses and *)
(* bytes and whatever handlers delay them, when each sets the mode (setEECR). *)
THEOREM EepromKeepsWrites == ClearsMode /\ DriversSpec => []WritesLand
<1>1. IInv => WritesLand
  BY DEF IInv, Kept, WritesLand
<1>2. ClearsMode /\ IInv /\ [DriversNext]_driverVars => IInv'
  BY NextIInv
<1>3. ClearsMode => (DriversSpec => []IInv)
  <2> SUFFICES ASSUME ClearsMode PROVE DriversSpec => []IInv
    OBVIOUS
  <2>1. IInv /\ [DriversNext]_driverVars => IInv'
    BY <1>2
  <2> QED BY <2>1, InitIInv, PTL DEF DriversSpec
<1> QED BY <1>1, <1>3, PTL

(* A driver that reads the EEPROM gets the byte of its own address (setEECR). *)
THEOREM EepromReadsBack == ClearsMode /\ DriversSpec => []ReadsBack
<1>1. IInv => ReadsBack
  <2> SUFFICES ASSUME IInv, program # << >>, ~Running, program[Len(program)][1] = "IN"
               PROVE  got = cells[program[2][3]]
    BY DEF ReadsBack
  <2>1. CASE program \in Others
    <3>1. Elsewhere(program[Len(program)])
      BY <2>1, OthersSteps
    <3> QED BY <3>1 DEF Elsewhere
  <2>2. CASE \E a \in Addrs, v \in Bytes, mode \in Modes : Storing(a, v, mode)
    <3>1. PICK a, v, mode : program = Write6(a, v, mode)
      BY <2>2 DEF Storing
    <3>2. Len(program) = 6 /\ program[6] = <<"SBI", "EECR", "EEPE">>
      BY <3>1, Write6Steps
    <3> QED BY <3>2
  <2>3. CASE \E a \in Addrs : Fetching(a)
    <3>1. PICK a \in Addrs : Fetching(a)
      BY <2>3
    <3>2. Len(program) = 4 /\ program[2] = <<"OUT", "EEAR", a>>
      BY <3>1, FetchSteps DEF Fetching
    <3>3. pc = 5
      BY <3>1, <3>2 DEF Fetching, Running
    <3> QED BY <3>1, <3>2, <3>3 DEF Fetching
  <2> QED BY <2>1, <2>2, <2>3 DEF IInv, Driving
<1>2. ClearsMode /\ IInv /\ [DriversNext]_driverVars => IInv'
  BY NextIInv
<1>3. ClearsMode => (DriversSpec => []IInv)
  <2> SUFFICES ASSUME ClearsMode PROVE DriversSpec => []IInv
    OBVIOUS
  <2>1. IInv /\ [DriversNext]_driverVars => IInv'
    BY <1>2
  <2> QED BY <2>1, InitIInv, PTL DEF DriversSpec
<1> QED BY <1>1, <1>3, PTL
===============================================================================
