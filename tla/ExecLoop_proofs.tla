---------------------------- MODULE ExecLoop_proofs ----------------------------
(***************************************************************************)
(* Type correctness of ExecLoop, the cycle budget of a slice, and the      *)
(* deadlines of the timer interrupt (no instruction past an overflow,      *)
(* bounded lateness, sleeps that end on time, no missed wake-up), for      *)
(* every counter width, prescaler table, program and slice size; and that  *)
(* the lazily updated timer implements the one of Timer0Eager.             *)
(***************************************************************************)
EXTENDS ExecLoopRefinement, Division, TLAPS

(* A machine state as the helpers of Timer0 expect and return it: the last *)
(* tick accounted for is never in the future.                              *)
Good(m) == m \in Machine /\ m.last <= m.total

(* n differs from m in the timer's registers only. *)
Same(m, n) ==
  Good(n) /\ n.brk = m.brk /\ n.total = m.total /\ n.sleep = m.sleep

(* What looking for interrupts may do to a sleeping CPU besides: wake it,  *)
(* for WakeCycles.                                                         *)
Settles(m, n) ==
  /\ Good(n) /\ n.brk = m.brk
  /\ \/ n.total = m.total /\ n.sleep = m.sleep
     \/ m.sleep /\ ~n.sleep /\ n.total = m.total + WakeCycles

(* Whole ticks, multiplied back, never exceed the cycles they come from.   *)
LEMMA WholeTicks ==
  ASSUME NEW x \in Nat, NEW d \in Nat, d > 0
  PROVE  x \div d \in Nat /\ (x \div d) * d \in Nat /\ (x \div d) * d <= x
<1>1. x \div d \in Int /\ x % d \in 0..(d - 1)
  BY SMT
<1>2. x = d * (x \div d) + (x % d)
  BY SMT
<1>3. x \div d >= 0
  BY <1>1, <1>2, SMT
<1>4. QED
  BY <1>1, <1>2, <1>3, SMT

(* The counter stays within its width. *)
LEMMA Wraps ==
  ASSUME NEW x \in Int, NEW w \in Nat, w > 0
  PROVE  x % w \in 0..(w - 1)
OBVIOUS

LEMMA DivType ==
  ASSUME NEW m \in Machine
  PROVE  Div(m) \in Nat
BY PrescAssumption DEF Div, Machine

LEMMA ConstantFacts ==
  /\ Byte \in Nat /\ Byte > 4
  /\ Word \in Nat /\ Word > 0
BY WidthAssumption, BoundAssumption DEF MaxPlain, Overshoot

(* markTimer0Update changes nothing but Timer0Update, which stays at or    *)
(* before the current cycle.                                               *)
LEMMA MarkSame ==
  ASSUME NEW m, Good(m)
  PROVE  Same(m, MarkTimer0Update(m))
<1>1. CASE Div(m) = 0
  BY <1>1 DEF MarkTimer0Update, Same, Good, Machine
<1>2. CASE Div(m) # 0
  <2> DEFINE back == (Elapsed(m) \div Div(m)) * Div(m)
  <2>1. Elapsed(m) \in Nat /\ Div(m) \in Nat /\ Div(m) > 0
    BY <1>2, DivType DEF Elapsed, Good, Machine
  <2>2. back \in Nat /\ back <= Elapsed(m)
    BY <2>1, WholeTicks
  <2>3. MarkTimer0Update(m) = [m EXCEPT !.last = @ + back]
    BY <1>2 DEF MarkTimer0Update
  <2> HIDE DEF back
  <2>4. Same(m, [m EXCEPT !.last = @ + back])
    BY <2>2 DEF Elapsed, Same, Good, Machine
  <2>5. QED
    BY <2>3, <2>4
<1>3. QED
  BY <1>1, <1>2

(* Setting TCNT0 and TOV0 and marking the update changes nothing else. *)
LEMMA CountSame ==
  ASSUME NEW m, Good(m), NEW c \in 0..(Byte - 1), NEW f \in BOOLEAN
  PROVE  Same(m, MarkTimer0Update([m EXCEPT !.tcnt = c, !.tov = f]))
<1> DEFINE x == [m EXCEPT !.tcnt = c, !.tov = f]
<1>1. Same(m, x)
  BY DEF Same, Good, Machine
<1>2. Same(x, MarkTimer0Update(x))
  BY <1>1, MarkSame DEF Same
<1>3. QED
  BY <1>1, <1>2 DEF Same

LEMMA SameThenSettles ==
  ASSUME NEW m, NEW x, NEW n, Same(m, x), Settles(x, n)
  PROVE  Settles(m, n)
BY DEF Same, Settles

LEMMA CheckSettles ==
  ASSUME NEW m, Good(m)
  PROVE  Settles(m, CheckForIntr(m))
<1>1. CASE Deliverable(m)
  <2>1. CheckForIntr(m) = DirectExecuteInterrupt([m EXCEPT !.tov = FALSE])
    BY <1>1 DEF CheckForIntr
  <2> DEFINE x == [m EXCEPT !.tov = FALSE]
             n == DirectExecuteInterrupt(x)
  <2>2. x \in Machine /\ x.last = m.last /\ x.total = m.total
        /\ x.sleep = m.sleep /\ x.brk = m.brk
    BY DEF Good, Machine
  <2>3. 1 - x.count \in 0..1
    BY <2>2 DEF Machine
  <2>4. n.total = (IF x.sleep THEN x.total + WakeCycles ELSE x.total)
        /\ n.last = x.last /\ n.sleep = FALSE /\ n.brk = x.brk
    BY <2>2 DEF DirectExecuteInterrupt, Machine
  <2>5. n.total \in Nat /\ n.total >= x.total
    BY <2>2, <2>4 DEF Machine, WakeCycles
  <2>6. n \in Machine
    BY <2>2, <2>3, <2>4, <2>5 DEF DirectExecuteInterrupt, Machine, PcPlace
  <2>7. Settles(m, n)
    BY <2>2, <2>4, <2>5, <2>6 DEF Settles, Good, Machine
  <2>8. QED
    BY <2>1, <2>7
<1>2. CASE ~Deliverable(m)
  BY <1>2 DEF CheckForIntr, Settles
<1>3. QED
  BY <1>1, <1>2

LEMMA DoTicksSame ==
  ASSUME NEW m, Good(m), NEW n \in Nat
  PROVE  Same(m, DoTicks(m, n))
<1>1. CASE m.prtim
  BY <1>1 DEF DoTicks, Same
<1>2. CASE ~m.prtim
  <2> DEFINE next == (m.tcnt + n) % Byte
             flag == m.tov \/ next < m.tcnt
  <2>1. next \in 0..(Byte - 1) /\ flag \in BOOLEAN
    BY ConstantFacts, Wraps DEF Good, Machine
  <2>2. DoTicks(m, n) = MarkTimer0Update([m EXCEPT !.tcnt = next, !.tov = flag])
    BY <1>2 DEF DoTicks
  <2>3. QED
    BY <2>1, <2>2, CountSame
<1>3. QED
  BY <1>1, <1>2 DEF Good, Machine

LEMMA UpdateSettles ==
  ASSUME NEW m, Good(m)
  PROVE  Settles(m, UpdateTimers(m))
<1> DEFINE div  == Div(m) % Byte
           add  == Elapsed(m) \div div
           next == (m.tcnt + add) % Byte
           flag == m.tov \/ next < m.tcnt \/ add >= Byte
           x    == IF ~m.prtim /\ div # 0 /\ Elapsed(m) >= div
                   THEN MarkTimer0Update([m EXCEPT !.tcnt = next, !.tov = flag])
                   ELSE m
<1>1. Same(m, x)
  <2>1. CASE ~m.prtim /\ div # 0 /\ Elapsed(m) >= div
    <3>1. div \in Nat /\ div > 0 /\ Elapsed(m) \in Nat
      BY <2>1, ConstantFacts, Wraps, DivType DEF Elapsed, Good, Machine
    <3>2. add \in Nat
      BY <3>1, WholeTicks
    <3>3. next \in 0..(Byte - 1)
      BY <3>2, ConstantFacts, Wraps DEF Good, Machine
    <3>4. flag \in BOOLEAN
      OBVIOUS
    <3> HIDE DEF next, flag, add, div
    <3>5. QED
      BY <2>1, <3>3, <3>4, CountSame
  <2>2. CASE ~(~m.prtim /\ div # 0 /\ Elapsed(m) >= div)
    BY <2>2 DEF Same
  <2>3. QED
    BY <2>1, <2>2
<1>2. UpdateTimers(m) = CheckForIntr(x)
  BY DEF UpdateTimers
<1> HIDE DEF x
<1>3. Settles(x, CheckForIntr(x))
  BY <1>1, CheckSettles DEF Same
<1>4. QED
  BY <1>1, <1>2, <1>3, SameThenSettles

-----------------------------------------------------------------------------
(* The register accesses, as an awake CPU performs them: none of them      *)
(* moves the cycle counter except the read of the EEPROM.                  *)
Accessed(m, n) == Good(n) /\ ~n.sleep /\ n.total = m.total

LEMMA ReadTCNT0Accesses ==
  ASSUME NEW m, Good(m)
  PROVE  Same(m, ReadTCNT0(m))
<1>1. CASE Div(m) = 0
  BY <1>1 DEF ReadTCNT0, Same
<1>2. CASE Div(m) # 0
  <2> DEFINE ticks == Elapsed(m) \div Div(m)
             next  == (m.tcnt + ticks) % Byte
  <2>1. Elapsed(m) \in Nat /\ Div(m) \in Nat /\ Div(m) > 0
    BY <1>2, DivType DEF Elapsed, Good, Machine
  <2>2. ticks \in Nat
    BY <2>1, WholeTicks
  <2>3. next \in 0..(Byte - 1)
    BY <2>2, ConstantFacts, Wraps DEF Good, Machine
  <2>4. ReadTCNT0(m) = MarkTimer0Update([m EXCEPT !.tcnt = next, !.tov = m.tov])
    BY <1>2 DEF ReadTCNT0, Good, Machine
  <2> HIDE DEF next
  <2>5. QED
    BY <2>3, <2>4, CountSame DEF Good, Machine
<1>3. QED
  BY <1>1, <1>2

LEMMA WriteTCNT0Accesses ==
  ASSUME NEW m, Good(m), ~m.sleep, NEW v \in 0..(Byte - 1)
  PROVE  Accessed(m, WriteTCNT0(m, v))
<1> DEFINE x == [m EXCEPT !.tcnt = v]
           w == MarkTimer0Update(x)
<1>1. Same(m, x)
  BY DEF Same, Good, Machine
<1>2. Same(x, w)
  BY <1>1, MarkSame DEF Same
<1>3. WriteTCNT0(m, v) =
        IF v < m.tcnt THEN [w EXCEPT !.tov = TRUE, !.brk = TRUE] ELSE w
  BY DEF WriteTCNT0
<1> HIDE DEF w, x
<1>4. Accessed(m, w) /\ Accessed(m, [w EXCEPT !.tov = TRUE, !.brk = TRUE])
  BY <1>1, <1>2 DEF Accessed, Same, Good, Machine
<1>5. QED
  BY <1>3, <1>4

LEMMA WriteTIFR0Accesses ==
  ASSUME NEW m, Good(m), ~m.sleep, NEW b \in BOOLEAN
  PROVE  Accessed(m, WriteTIFR0(m, b))
<1> DEFINE x == [m EXCEPT !.tov = b]
<1>1. Same(m, x)
  BY DEF Same, Good, Machine
<1>2. Settles(x, CheckForIntr(x))
  BY <1>1, CheckSettles DEF Same
<1>3. WriteTIFR0(m, b) = CheckForIntr(x)
  BY DEF WriteTIFR0
<1> HIDE DEF x
<1>4. QED
  BY <1>1, <1>2, <1>3 DEF Accessed, Settles, Same

LEMMA SetTCCR0BAccesses ==
  ASSUME NEW m, Good(m), ~m.sleep, NEW p \in Prescs
  PROVE  Accessed(m, SetTCCR0B(m, p))
<1> DEFINE u == IF m.presc # 0 THEN UpdateTimers(m) ELSE m
<1>1. Settles(m, u)
  BY UpdateSettles DEF Settles
<1>2. SetTCCR0B(m, p) =
        IF p = m.presc THEN m
        ELSE [u EXCEPT !.presc = p, !.last = u.total, !.brk = TRUE]
  BY DEF SetTCCR0B
<1> HIDE DEF u
<1>3. Accessed(m, [u EXCEPT !.presc = p, !.last = u.total, !.brk = TRUE])
  <2> DEFINE n == [u EXCEPT !.presc = p, !.last = u.total, !.brk = TRUE]
  <2>1. u \in Machine /\ u.total = m.total /\ ~u.sleep
    BY <1>1 DEF Settles, Good, Machine
  <2>2. n \in Machine /\ n.total = u.total /\ n.last = u.total
        /\ n.sleep = u.sleep
    BY <2>1 DEF Machine
  <2>3. n.last <= n.total
    BY <2>1, <2>2 DEF Machine
  <2>4. QED
    BY <2>1, <2>2, <2>3 DEF Accessed, Good
<1>4. Accessed(m, m)
  BY DEF Accessed
<1>5. QED
  BY <1>2, <1>3, <1>4

-----------------------------------------------------------------------------
(* The inductive invariant.  The budget alone is not inductive: a slice    *)
(* starts at most Overshoot behind, the CPU goes to sleep only with the    *)
(* budget kept (so that the cost of the wake-up is the only overshoot),    *)
(* SLEEP is the last instruction of its inner loop, and a break-out        *)
(* request is always cleared before the outer while compares totalCycls.   *)
BudgetInv ==
  /\ BudgetKept
  /\ mcu.sleep => mcu.total <= target /\ (loop = "inner" => mcu.brk)
  /\ loop = "inner" => currTarget <= target
  /\ loop = "pass" => ~mcu.brk
  /\ loop # "host" => target <= mcu.total + amt

IInv == TypeOK /\ BudgetInv

(* What IInv says of the machine, in the words of the lemmas above. *)
LEMMA MachineGood == IInv => Good(mcu)
BY DEF IInv, TypeOK, Good

LEMMA ResetMachine == ResetState \in Machine
BY WidthAssumption, PrescAssumption DEF ResetState, Machine, PcPlace, MaxPlain

LEMMA InitIInv == Init => IInv
<1> SUFFICES ASSUME Init PROVE IInv
  OBVIOUS
<1>1. mcu \in Machine
  BY ResetMachine DEF Init
<1>2. /\ mcu.total = 0 /\ mcu.last = 0 /\ mcu.sleep = FALSE
      /\ target = 0 /\ amt = 0 /\ currTarget = 0 /\ loop = "host"
      /\ halted = FALSE /\ stale = FALSE
  BY DEF Init, ResetState
<1>3. TypeOK
  <2>1. mcu.last <= mcu.total
    BY <1>2
  <2>2. /\ target \in Nat /\ amt \in Nat /\ currTarget \in Nat
        /\ loop \in {"host", "pass", "inner"}
    BY <1>2
  <2>3. halted \in BOOLEAN /\ stale \in BOOLEAN
    BY <1>2
  <2>4. QED
    BY <1>1, <2>1, <2>2, <2>3 DEF TypeOK
<1>4. BudgetInv
  BY <1>2 DEF BudgetInv, BudgetKept, Overshoot
<1>5. QED
  BY <1>3, <1>4 DEF IInv

(* The loop's epilogue keeps the invariant, whatever the instruction did   *)
(* to the machine, if its body and its own cycles fit the overshoot and    *)
(* going to sleep took one cycle and broke out.                            *)
LEMMA InstStep ==
  ASSUME IInv, CanFetch, UNCHANGED locals,
         halted' \in BOOLEAN, stale' \in BOOLEAN,
         NEW body, Good(body), NEW cyc \in 0..MaxPlain,
         body.total >= mcu.total,
         body.total + cyc <= mcu.total + Overshoot + 1,
         body.sleep => body.brk /\ body.total + cyc = mcu.total + 1,
         mcu' = AfterInst(Retired(body, cyc), cyc)
  PROVE  IInv'
<1> DEFINE r == Retired(body, cyc)
<1>1. /\ Good(r) /\ r.total = body.total + cyc
      /\ r.sleep = body.sleep /\ r.brk = body.brk
  <2>1. cyc \in Nat
    BY DEF MaxPlain
  <2>2. body.total \in Nat /\ body.last <= body.total
        /\ body.last \in Nat /\ body \in Machine
    BY DEF Good, Machine
  <2>3. r.total = body.total + cyc /\ r.last = body.last
        /\ r.sleep = body.sleep /\ r.brk = body.brk
    BY <2>2 DEF Retired, Machine
  <2>4. body.total + cyc \in Nat /\ body.last <= body.total + cyc
    BY <2>1, <2>2
  <2>5. r \in Machine
    <3> DEFINE t == body.total + cyc
               place == IF body.pc = "vector" THEN "pastVector" ELSE "code"
    <3>1. r = [body EXCEPT !.total = t, !.pc = place]
      BY DEF Retired
    <3>2. t \in Nat /\ place \in PcPlace
      BY <2>4 DEF PcPlace
    <3> HIDE DEF t, place, r
    <3>3. QED
      BY <2>2, <3>1, <3>2 DEF Machine
  <2>6. QED
    BY <2>3, <2>4, <2>5 DEF Good
<1>2. mcu \in Machine /\ mcu.total \in Nat /\ target \in Nat /\ amt \in Nat
      /\ currTarget \in Nat /\ loop \in {"host", "pass", "inner"}
  BY DEF IInv, TypeOK, Machine
<1>3. mcu.total < target /\ loop \in {"pass", "inner"}
  BY <1>2 DEF CanFetch, InSlice, IInv, BudgetInv
<1>4. r.total \in Nat /\ r.total >= mcu.total /\ r.total <= target + Overshoot
      /\ (r.sleep => r.brk /\ r.total <= target)
  BY <1>1, <1>2, <1>3 DEF Overshoot, Good, Machine
<1>5. CASE loop = "inner"
  <2>1. mcu' = r
    BY <1>5 DEF AfterInst
  <2> HIDE DEF r
  <2>2. QED
    BY <1>1, <1>2, <1>4, <1>5, <2>1
       DEF IInv, TypeOK, BudgetInv, BudgetKept, Good, Overshoot, locals
<1>6. CASE loop = "pass" /\ mcu.presc = 0
  <2>1. mcu' = [r EXCEPT !.brk = FALSE]
    BY <1>6 DEF AfterInst
  <2> HIDE DEF r
  <2>2. /\ Good(mcu') /\ ~mcu'.brk /\ mcu'.total = r.total
        /\ mcu'.sleep = r.sleep
    BY <1>1, <2>1 DEF Good, Machine
  <2>3. QED
    BY <1>1, <1>2, <1>4, <1>6, <2>2
       DEF IInv, TypeOK, BudgetInv, BudgetKept, Good, Overshoot, locals
<1>7. CASE loop = "pass" /\ mcu.presc # 0
  <2> DEFINE d == DoTicks(r, cyc)
             n == CheckForIntr(d)
  <2>1. mcu' = [n EXCEPT !.brk = FALSE]
    BY <1>7 DEF AfterInst
  <2> HIDE DEF r
  <2>2. Same(r, d)
    <3>1. cyc \in Nat
      BY DEF MaxPlain
    <3>2. QED
      BY <1>1, <3>1, DoTicksSame
  <2>3. Settles(d, n)
    BY <2>2, CheckSettles DEF Same
  <2> HIDE DEF d
  <2>4. Settles(r, n)
    BY <2>2, <2>3, SameThenSettles
  <2> HIDE DEF n
  <2>5. /\ Good(mcu') /\ ~mcu'.brk /\ mcu'.total = n.total
        /\ mcu'.sleep = n.sleep
    BY <2>1, <2>4 DEF Settles, Good, Machine
  <2>6. n.total \in Nat /\ n.total >= r.total /\ n.total <= target + Overshoot
        /\ (n.sleep => n.total <= target)
    BY <1>1, <1>2, <1>4, <2>4 DEF Settles, Overshoot, WakeCycles
  <2>7. QED
    BY <1>1, <1>2, <1>4, <1>7, <2>5, <2>6
       DEF IInv, TypeOK, BudgetInv, BudgetKept, Good, Overshoot, locals
<1>8. QED
  BY <1>3, <1>5, <1>6, <1>7

(* The CPU is awake when an instruction is fetched. *)
LEMMA FetchedAwake ==
  ASSUME IInv, CanFetch
  PROVE  Good(Fetched) /\ ~Fetched.sleep /\ Fetched.total = mcu.total
<1>1. Good(mcu)
  BY MachineGood
<1>2. ~mcu.sleep
  BY <1>1 DEF CanFetch, IInv, BudgetInv, Good, Machine
<1>3. QED
  BY <1>1, <1>2 DEF Fetched, Good, Machine, PcPlace

(* An instruction that accesses a register and moves no cycles of its own  *)
(* keeps the invariant.                                                    *)
LEMMA AccessStep ==
  ASSUME IInv, NEW op, NEW body, NEW cyc \in 0..MaxPlain,
         NEW unflagged \in BOOLEAN, Inst(op, body, cyc, unflagged),
         Accessed(Fetched, body)
  PROVE  IInv'
<1>1. CanFetch /\ UNCHANGED locals /\ UNCHANGED halted
      /\ mcu' = AfterInst(Retired(body, cyc), cyc)
      /\ stale' = (stale \/ (unflagged /\ loop = "inner"))
  BY DEF Inst
<1>2. halted' \in BOOLEAN /\ stale' \in BOOLEAN
  BY <1>1 DEF IInv, TypeOK
<1>3. Good(body) /\ ~body.sleep /\ body.total = mcu.total /\ mcu.total \in Nat
  BY <1>1, FetchedAwake DEF Accessed, IInv, TypeOK, Machine
<1>4. body.total >= mcu.total /\ body.total + cyc <= mcu.total + Overshoot + 1
  BY <1>3 DEF MaxPlain, Overshoot
<1>5. QED
  BY <1>1, <1>2, <1>3, <1>4, InstStep

(* Writing one of the plain fields of the machine is an access. *)
LEMMA FieldAccesses ==
  ASSUME NEW m, Good(m), ~m.sleep, NEW b \in BOOLEAN, NEW f \in BOOLEAN
  PROVE  /\ Accessed(m, m)
         /\ Accessed(m, [m EXCEPT !.ie = b])
         /\ Accessed(m, [m EXCEPT !.ie = b, !.brk = f])
         /\ Accessed(m, WriteTIMSK0(m, b))
         /\ Accessed(m, WritePRR0(m, b))
BY DEF Accessed, Good, Machine, WriteTIMSK0, WritePRR0

LEMMA InstructionStep ==
  ASSUME IInv, Instruction
  PROVE  IInv'
<1>1. ASSUME CanFetch
      PROVE  Good(Fetched) /\ ~Fetched.sleep /\ Fetched.total = mcu.total
             /\ mcu.total \in Nat
  BY <1>1, FetchedAwake DEF IInv, TypeOK, Machine
<1>2. 1 \in 0..MaxPlain /\ 2 \in 0..MaxPlain /\ RetiCycles \in 0..MaxPlain
      /\ PlainCycles \subseteq 0..MaxPlain
      /\ 1..MaxAccess \subseteq 0..MaxPlain
  BY ProgramAssumption DEF MaxPlain, RetiCycles, MaxAccess
<1>3. CASE Plain
  <2>1. PICK c \in PlainCycles : Inst("plain", Fetched, c, FALSE)
    BY <1>3 DEF Plain
  <2>2. Accessed(Fetched, Fetched)
    BY <2>1, <1>1, FieldAccesses DEF Inst
  <2>3. QED
    BY <2>1, <2>2, <1>2, AccessStep
<1>4. CASE Sei \/ Cli \/ Reti
  <2> DEFINE On == [Fetched EXCEPT !.ie = TRUE]
             Off == [Fetched EXCEPT !.ie = FALSE]
  <2>1. CanFetch
    BY <1>4 DEF Sei, Cli, Reti, Inst
  <2>2. Accessed(Fetched, On) /\ Accessed(Fetched, Off)
    BY <2>1, <1>1, FieldAccesses
  <2>3. CASE Sei
    BY <2>2, <2>3, <1>2, AccessStep DEF Sei
  <2>4. CASE Cli
    BY <2>2, <2>4, <1>2, AccessStep DEF Cli
  <2>5. CASE Reti
    BY <2>2, <2>5, <1>2, AccessStep DEF Reti
  <2>6. QED
    BY <1>4, <2>3, <2>4, <2>5
<1>5. CASE OutSREG
  <2>1. PICK b \in BOOLEAN : Inst("sreg", WriteSREG(Fetched, b), 1, FALSE)
    BY <1>5 DEF OutSREG
  <2> DEFINE f == Fetched.brk \/ (b /\ Fetched.tov)
  <2>2. WriteSREG(Fetched, b) = [Fetched EXCEPT !.ie = b, !.brk = f]
    BY DEF WriteSREG
  <2>3. f \in BOOLEAN
    OBVIOUS
  <2>4. Accessed(Fetched, [Fetched EXCEPT !.ie = b, !.brk = f])
    <3> HIDE DEF f
    <3>1. CanFetch
      BY <2>1 DEF Inst
    <3>2. QED
      BY <2>3, <3>1, <1>1, FieldAccesses
  <2>5. Accessed(Fetched, WriteSREG(Fetched, b))
    BY <2>2, <2>4
  <2>6. QED
    BY <2>1, <2>5, <1>2, AccessStep
<1>6. CASE OutTCCR0B
  <2>1. PICK p \in Prescs : Inst("tccr", SetTCCR0B(Fetched, p), 1, FALSE)
    BY <1>6 DEF OutTCCR0B
  <2>2. Accessed(Fetched, SetTCCR0B(Fetched, p))
    BY <2>1, <1>1, SetTCCR0BAccesses DEF Inst
  <2>3. QED
    BY <2>1, <2>2, <1>2, AccessStep
<1>7. CASE StsTIMSK0
  <2>1. PICK b \in BOOLEAN : Inst("timsk", WriteTIMSK0(Fetched, b), 2, TRUE)
    BY <1>7 DEF StsTIMSK0
  <2>2. Accessed(Fetched, WriteTIMSK0(Fetched, b))
    BY <2>1, <1>1, FieldAccesses DEF Inst
  <2>3. QED
    BY <2>1, <2>2, <1>2, AccessStep
<1>8. CASE StsPRR0
  <2>1. PICK b \in BOOLEAN : Inst("prr", WritePRR0(Fetched, b), 2, TRUE)
    BY <1>8 DEF StsPRR0
  <2>2. Accessed(Fetched, WritePRR0(Fetched, b))
    BY <2>1, <1>1, FieldAccesses DEF Inst
  <2>3. QED
    BY <2>1, <2>2, <1>2, AccessStep
<1>9. CASE InTCNT0
  <2>1. Inst("tcntRead", ReadTCNT0(Fetched), 1, FALSE)
    BY <1>9 DEF InTCNT0
  <2>2. Accessed(Fetched, ReadTCNT0(Fetched))
    BY <2>1, <1>1, ReadTCNT0Accesses DEF Inst, Same, Accessed
  <2>3. QED
    BY <2>1, <2>2, <1>2, AccessStep
<1>10. CASE OutTCNT0
  <2>1. PICK v \in 0..(Byte - 1) :
          Inst("tcntWrite", WriteTCNT0(Fetched, v), 1, TRUE)
    BY <1>10 DEF OutTCNT0
  <2>2. Accessed(Fetched, WriteTCNT0(Fetched, v))
    BY <2>1, <1>1, WriteTCNT0Accesses DEF Inst
  <2>3. QED
    BY <2>1, <2>2, <1>2, AccessStep
<1>11. CASE WriteTIFR
  <2>1. PICK b \in BOOLEAN, c \in 1..MaxAccess :
          Inst("tifr", WriteTIFR0(Fetched, b), c, FALSE)
    BY <1>11 DEF WriteTIFR
  <2>2. Accessed(Fetched, WriteTIFR0(Fetched, b))
    BY <2>1, <1>1, WriteTIFR0Accesses DEF Inst
  <2>3. QED
    BY <2>1, <2>2, <1>2, AccessStep
<1>12. CASE Sleep
  <2> DEFINE body == EnterSleep(Fetched)
  <2>1. CanFetch /\ UNCHANGED locals /\ UNCHANGED halted
        /\ mcu' = AfterInst(Retired(body, 1), 1)
        /\ stale' = (stale \/ (FALSE /\ loop = "inner"))
    BY <1>12 DEF Sleep, Inst
  <2>2. halted' \in BOOLEAN /\ stale' \in BOOLEAN
    BY <2>1 DEF IInv, TypeOK
  <2>3. Good(body) /\ body.brk /\ body.total = mcu.total /\ mcu.total \in Nat
    BY <2>1, <1>1 DEF EnterSleep, Good, Machine
  <2> HIDE DEF body
  <2>4. /\ body.total >= mcu.total
        /\ body.total + 1 <= mcu.total + Overshoot + 1
        /\ body.total + 1 = mcu.total + 1
    BY <2>3 DEF Overshoot
  <2>5. QED
    BY <2>1, <2>2, <2>3, <2>4, <1>2, InstStep
<1>13. CASE EepromRead
  <2>1. PICK c \in 1..MaxAccess :
          Inst("eeprom", ReadEEPROM(Fetched), c, FALSE)
    BY <1>13 DEF EepromRead
  <2> DEFINE body == ReadEEPROM(Fetched)
  <2>2. CanFetch /\ UNCHANGED locals /\ UNCHANGED halted
        /\ mcu' = AfterInst(Retired(body, c), c)
        /\ stale' = (stale \/ (FALSE /\ loop = "inner"))
    BY <2>1 DEF Inst
  <2>3. halted' \in BOOLEAN /\ stale' \in BOOLEAN
    BY <2>2 DEF IInv, TypeOK
  <2>4. /\ Good(body) /\ ~body.sleep /\ body.total = mcu.total + StallCycles
        /\ mcu.total \in Nat
    BY <2>2, <1>1 DEF ReadEEPROM, StallCycles, Good, Machine
  <2> HIDE DEF body
  <2>5. /\ body.total >= mcu.total
        /\ body.total + c <= mcu.total + Overshoot + 1
    BY <2>1, <2>4 DEF Overshoot, StallCycles, MaxAccess
  <2>6. QED
    BY <2>1, <2>2, <2>3, <2>4, <2>5, <1>2, InstStep
<1>14. CASE Break
  <2> DEFINE body == [Fetched EXCEPT !.brk = TRUE]
  <2>1. CanFetch /\ UNCHANGED locals /\ UNCHANGED stale /\ halted' = TRUE
        /\ mcu' = AfterInst(Retired(body, 1), 1)
    BY <1>14 DEF Break
  <2>2. halted' \in BOOLEAN /\ stale' \in BOOLEAN
    BY <2>1 DEF IInv, TypeOK
  <2>3. /\ Good(body) /\ ~body.sleep /\ body.total = mcu.total
        /\ mcu.total \in Nat
    BY <2>1, <1>1 DEF Good, Machine
  <2> HIDE DEF body
  <2>4. /\ body.total >= mcu.total
        /\ body.total + 1 <= mcu.total + Overshoot + 1
    BY <2>3 DEF Overshoot
  <2>5. QED
    BY <2>1, <2>2, <2>3, <2>4, <1>2, InstStep
<1>15. QED
  BY <1>3, <1>4, <1>5, <1>6, <1>7, <1>8, <1>9, <1>10, <1>11, <1>12, <1>13,
     <1>14 DEF Instruction

(* The deadline is a number of cycles. *)
LEMMA DeadlineType ==
  ASSUME NEW m, Good(m)
  PROVE  CycsToNextTimerInt(m) \in Nat
<1>1. CASE m.toie
  <2>1. m.last \in Nat /\ m.total \in Nat /\ Div(m) \in Nat
        /\ Byte - m.tcnt \in Nat
    BY ConstantFacts, DivType DEF Good, Machine
  <2>2. NextOverflow(m) - m.total \in Int
    BY <2>1 DEF NextOverflow
  <2>3. CycsToNextTimerInt(m) = (NextOverflow(m) - m.total) % Word
    BY <1>1 DEF CycsToNextTimerInt
  <2>4. QED
    BY <2>2, <2>3, ConstantFacts, Wraps
<1>2. CASE ~m.toie
  BY <1>2, ConstantFacts DEF CycsToNextTimerInt
<1>3. QED
  BY <1>1, <1>2

LEMMA LoopStep ==
  ASSUME IInv, EndSlice \/ HaltedReturn \/ StartInner \/ EndInner \/
               SleepDone \/ SleepOn
  PROVE  IInv'
<1>1. /\ Good(mcu) /\ mcu \in Machine /\ mcu.total \in Nat /\ mcu.left \in Nat
      /\ mcu.last \in Nat /\ mcu.last <= mcu.total /\ mcu.sleep \in BOOLEAN
      /\ mcu.brk \in BOOLEAN
      /\ target \in Nat /\ amt \in Nat /\ currTarget \in Nat
      /\ loop \in {"host", "pass", "inner"}
  BY MachineGood DEF IInv, TypeOK, Machine
<1>2. CASE EndSlice
  BY <1>1, <1>2
     DEF EndSlice, IInv, TypeOK, BudgetInv, BudgetKept, Overshoot
<1>3. CASE HaltedReturn
  <2>1. InSlice /\ mcu' = mcu /\ loop' = "host" /\ amt' = 0
        /\ UNCHANGED <<halted, currTarget, stale>>
    BY <1>3 DEF HaltedReturn
  <2>2. target' = mcu.total
    BY <1>1, <1>3 DEF HaltedReturn, InSlice, IInv, BudgetInv
  <2>3. QED
    BY <1>1, <2>1, <2>2
       DEF IInv, TypeOK, BudgetInv, BudgetKept, Overshoot
<1>4. CASE StartInner
  <2> DEFINE cycs == CycsToNextTimerInt(mcu)
             curr == IF cycs = Word - 1 THEN Word - 1
                     ELSE (mcu.total + cycs) % Word
  <2>1. cycs \in Nat
    BY <1>1, DeadlineType
  <2>2. curr \in Nat
    <3>1. mcu.total + cycs \in Int
      BY <1>1, <2>1
    <3>2. QED
      BY <3>1, ConstantFacts, Wraps
  <2>3. /\ InSlice /\ ~mcu.sleep /\ loop' = "inner"
        /\ currTarget' = (IF curr > target THEN target ELSE curr)
        /\ stale' = (mcu.toie /\ cycs = Word - 1)
        /\ UNCHANGED <<mcu, target, halted, amt>>
    BY <1>4 DEF StartInner
  <2>4. stale' \in BOOLEAN
    BY <1>1, <2>3 DEF Machine
  <2> HIDE DEF curr, cycs
  <2>5. currTarget' \in Nat /\ currTarget' <= target
    BY <1>1, <2>2, <2>3
  <2>6. QED
    BY <1>1, <2>3, <2>4, <2>5
       DEF InSlice, IInv, TypeOK, BudgetInv, BudgetKept, Overshoot
<1>5. CASE EndInner
  <2> DEFINE x == [mcu EXCEPT !.brk = FALSE]
  <2>1. Good(x) /\ ~x.brk /\ x.total = mcu.total /\ x.sleep = mcu.sleep
    BY <1>1 DEF Good, Machine
  <2>2. Settles(x, UpdateTimers(x))
    BY <2>1, UpdateSettles
  <2>3. /\ loop = "inner" /\ mcu' = UpdateTimers(x)
        /\ loop' = "pass" /\ currTarget' = 0 /\ stale' = FALSE
        /\ UNCHANGED <<target, halted, amt>>
    BY <1>5 DEF EndInner
  <2> HIDE DEF x
  <2>4. Settles(x, mcu')
    BY <2>2, <2>3
  <2>5. Good(mcu') /\ ~mcu'.brk /\ mcu'.total >= mcu.total
        /\ mcu'.total <= target + Overshoot
        /\ (mcu'.sleep => mcu'.total <= target)
    BY <1>1, <2>1, <2>4
       DEF Settles, IInv, BudgetInv, BudgetKept, Overshoot, WakeCycles
  <2>6. TypeOK'
    BY <2>3, <2>5 DEF Good, IInv, TypeOK
  <2>7. mcu'.total \in Nat
    BY <2>5 DEF Good, Machine
  <2>8. target <= mcu.total + amt
    BY <2>3 DEF IInv, BudgetInv
  <2>9. BudgetInv'
    BY <1>1, <2>3, <2>5, <2>7, <2>8 DEF BudgetInv, BudgetKept
  <2>10. QED
    BY <2>6, <2>9 DEF IInv
<1>6. CASE SleepDone
  <2> DEFINE x == [mcu EXCEPT !.total = @ + SleepLeft]
             n == UpdateTimers(x)
  <2>1. SleepLeft \in Nat
    BY <1>1, DeadlineType DEF SleepLeft
  <2>2. /\ InSlice /\ mcu.sleep /\ SleepLeft <= target - mcu.total
        /\ mcu' = [n EXCEPT !.left = 0, !.brk = FALSE]
        /\ UNCHANGED <<halted, stale, locals>>
    BY <1>6 DEF SleepDone
  <2>3. Good(x) /\ x.sleep /\ x.total = mcu.total + SleepLeft
    BY <1>1, <2>1, <2>2 DEF Good, Machine
  <2>4. Settles(x, n)
    BY <2>3, UpdateSettles
  <2> HIDE DEF n, x
  <2>5. n.total \in Nat /\ n.total >= mcu.total /\ n.total <= target + Overshoot
        /\ (n.sleep => n.total <= target) /\ Good(n)
    <3>1. x.total \in Nat /\ x.total >= mcu.total /\ x.total <= target
      BY <1>1, <2>1, <2>2, <2>3
    <3>2. Good(n) /\ (n.total = x.total \/ (~n.sleep /\ n.total = x.total + 5))
      BY <2>4 DEF Settles, WakeCycles
    <3>3. QED
      BY <1>1, <3>1, <3>2 DEF Overshoot
  <2>6. Good(mcu') /\ ~mcu'.brk /\ mcu'.total = n.total /\ mcu'.sleep = n.sleep
    BY <2>2, <2>5 DEF Good, Machine
  <2>7. QED
    BY <1>1, <2>2, <2>5, <2>6
       DEF InSlice, locals, Good, IInv, TypeOK, BudgetInv, BudgetKept, Overshoot
<1>7. CASE SleepOn
  <2> DEFINE rest == SleepLeft - (target - mcu.total)
  <2>1. SleepLeft \in Nat
    BY <1>1, DeadlineType DEF SleepLeft
  <2>2. /\ InSlice /\ mcu.sleep /\ SleepLeft > target - mcu.total
        /\ mcu' = [mcu EXCEPT !.left = rest, !.total = target]
        /\ UNCHANGED <<halted, stale, locals>>
    BY <1>7 DEF SleepOn
  <2>3. rest \in Nat
    BY <1>1, <2>1, <2>2 DEF InSlice
  <2> HIDE DEF rest
  <2>4. mcu' \in Machine /\ mcu'.total = target /\ mcu'.last = mcu.last
        /\ mcu'.brk = mcu.brk /\ mcu'.sleep = mcu.sleep
    BY <1>1, <2>2, <2>3 DEF Machine
  <2>5. mcu.total < target /\ loop = "pass"
    BY <2>2 DEF InSlice
  <2>6. QED
    BY <1>1, <2>2, <2>4, <2>5
       DEF locals, IInv, TypeOK, BudgetInv, BudgetKept, Overshoot
<1>8. QED
  BY <1>2, <1>3, <1>4, <1>5, <1>6, <1>7

LEMMA HostStep ==
  ASSUME IInv, Host
  PROVE  IInv'
<1>1. /\ Good(mcu) /\ mcu \in Machine /\ mcu.total \in Nat
      /\ mcu.last <= mcu.total /\ mcu.sleep \in BOOLEAN
      /\ target \in Nat /\ amt \in Nat
  BY MachineGood DEF IInv, TypeOK, Machine
<1>2. ASSUME NEW a \in Slices, Execute(a)
      PROVE  IInv'
  <2>1. a \in Nat
    BY ProgramAssumption
  <2>2. Good(mcu') /\ ~mcu'.brk /\ mcu'.total = mcu.total
        /\ mcu'.sleep = mcu.sleep
    BY <1>1, <1>2 DEF Execute, Good, Machine
  <2>3. /\ loop = "host" /\ loop' = "pass" /\ target' = target + a /\ amt' = a
        /\ UNCHANGED <<halted, currTarget, stale>>
    BY <1>2 DEF Execute
  <2>4. QED
    BY <1>1, <2>1, <2>2, <2>3
       DEF Good, IInv, TypeOK, BudgetInv, BudgetKept, Overshoot
<1>3. CASE HostRead
  <2>1. Same(mcu, ReadTCNT0(mcu))
    BY <1>1, ReadTCNT0Accesses
  <2>2. /\ loop = "host" /\ mcu' = ReadTCNT0(mcu)
        /\ UNCHANGED <<target, halted, loop, amt, currTarget, stale>>
    BY <1>3 DEF HostRead
  <2>3. Same(mcu, mcu')
    BY <2>1, <2>2
  <2>4. QED
    BY <1>1, <2>2, <2>3
       DEF Same, Good, IInv, TypeOK, BudgetInv, BudgetKept, Overshoot
<1>4. CASE HostHalt
  <2>1. Good(mcu') /\ mcu'.total = mcu.total /\ mcu'.sleep = mcu.sleep
    BY <1>1, <1>4 DEF HostHalt, Good, Machine
  <2>2. QED
    BY <1>1, <1>4, <2>1
       DEF HostHalt, Good, IInv, TypeOK, BudgetInv, BudgetKept, Overshoot
<1>5. CASE HostContinue
  BY <1>5 DEF HostContinue, IInv, TypeOK, BudgetInv, BudgetKept, Overshoot
<1>6. CASE HostReset
  <2>1. mcu.count \in 0..1
    BY <1>1 DEF Machine
  <2>2. mcu' = [ResetState EXCEPT !.count = mcu.count]
    BY <1>6 DEF HostReset
  <2>3. mcu' \in Machine
    BY <2>1, <2>2, ResetMachine DEF Machine
  <2>4. mcu'.total = 0 /\ mcu'.last = 0 /\ mcu'.sleep = FALSE
    BY <2>2 DEF ResetState
  <2>5. /\ loop = "host" /\ target' = 0 /\ halted' = FALSE
        /\ UNCHANGED <<loop, amt, currTarget, stale>>
    BY <1>6 DEF HostReset
  <2>6. TypeOK'
    <3>1. mcu'.last <= mcu'.total
      BY <2>4
    <3>2. QED
      BY <2>3, <2>5, <3>1 DEF IInv, TypeOK
  <2>7. BudgetInv'
    BY <2>4, <2>5 DEF BudgetInv, BudgetKept, Overshoot
  <2>8. QED
    BY <2>6, <2>7 DEF IInv
<1>7. QED
  BY <1>2, <1>3, <1>4, <1>5, <1>6 DEF Host

(* IInv is inductive. *)
LEMMA NextIInv == IInv /\ [Next]_vars => IInv'
<1>1. ASSUME IInv, Emulate PROVE IInv'
  BY <1>1, LoopStep, InstructionStep DEF Emulate
<1>2. ASSUME IInv, Host PROVE IInv'
  BY <1>2, HostStep
<1>3. ASSUME IInv, UNCHANGED vars PROVE IInv'
  BY <1>3 DEF vars, IInv, TypeOK, BudgetInv, BudgetKept
<1>4. QED
  BY <1>1, <1>2, <1>3 DEF Next

(* Every state the emulator reaches is a machine state, and its timer's    *)
(* last accounted tick (Timer0Update) is never in the future.              *)
THEOREM TypeCorrect == Spec => []TypeOK
<1>1. IInv => TypeOK
  BY DEF IInv
<1>2. QED
  BY <1>1, InitIInv, NextIInv, PTL DEF Spec

(* A slice of any size, of any program, uses up what it was given and      *)
(* overshoots by at most Overshoot cycles.                                 *)
THEOREM SliceBudget == Spec => []BudgetKept
<1>1. IInv => BudgetKept
  BY DEF IInv, BudgetInv
<1>2. QED
  BY <1>1, InitIInv, NextIInv, PTL DEF Spec

-----------------------------------------------------------------------------
(* Overflows.  The next overflow depends on three fields only.             *)

(* updateTimers can count: the timer is on and its divisor is not a        *)
(* multiple of the modulus.                                                *)
Ticks(m) == ~m.prtim /\ Div(m) % Byte # 0

(* The next overflow is still to come: TCNT0 accounts for all before it.   *)
Ahead(m) == m.total < NextOverflow(m)

(* The clock, interrupt mask and sleep timer of n are those of m. *)
Frame(m, n) ==
  /\ n.presc = m.presc /\ n.prtim = m.prtim /\ n.toie = m.toie
  /\ n.left = m.left /\ n.ie = m.ie /\ n.trap \in BOOLEAN

LEMMA TicksDivide ==
  ASSUME NEW m \in Machine, Div(m) % Byte # 0
  PROVE  Div(m) \in Nat /\ Div(m) > 0 /\ m.presc # 0
<1>1. 0 % Byte = 0
  BY ConstantFacts
<1>2. Div(m) \in Nat /\ Div(m) # 0
  BY <1>1, DivType
<1>3. m.presc # 0
  BY <1>2, PrescAssumption DEF Div, Machine
<1>4. QED
  BY <1>2, <1>3

(* A counter that has not wrapped needs at least one more tick, and at     *)
(* most a whole turn.                                                      *)
LEMMA OverflowBounds ==
  ASSUME NEW m, Good(m)
  PROVE  /\ NextOverflow(m) \in Nat
         /\ NextOverflow(m) >= m.last + Div(m)
         /\ NextOverflow(m) <= m.last + Byte * Div(m)
<1> DEFINE d == Div(m)
           k == Byte - m.tcnt
<1>1. d \in Nat /\ Byte \in Nat /\ m.last \in Nat
  BY ConstantFacts, DivType DEF Good, Machine
<1>2. k \in Nat /\ k >= 1 /\ k <= Byte
  BY ConstantFacts DEF Good, Machine
<1>3. NextOverflow(m) = m.last + k * d
  BY DEF NextOverflow
<1> HIDE DEF d, k
<1>4. k * d \in Nat /\ k * d >= d /\ k * d <= Byte * d
  <2>1. (k - 1) * d >= 0 /\ (Byte - k) * d >= 0
    BY <1>1, <1>2
  <2>2. k * d = (k - 1) * d + d /\ Byte * d = (Byte - k) * d + k * d
    BY <1>1, <1>2
  <2>3. k * d \in Nat /\ (k - 1) * d \in Int /\ (Byte - k) * d \in Int
    BY <1>1, <1>2
  <2>4. QED
    BY <1>1, <2>1, <2>2, <2>3
<1>5. Byte * d \in Nat
  BY <1>1
<1>6. QED
  BY <1>1, <1>3, <1>4, <1>5 DEF d

(* Once the update is marked, less than a tick has passed since. *)
LEMMA MarkedAhead ==
  ASSUME NEW m, Good(m), Div(m) # 0
  PROVE  /\ Ahead(MarkTimer0Update(m)) /\ Frame(m, MarkTimer0Update(m))
         /\ MarkTimer0Update(m).tov = m.tov
         /\ MarkTimer0Update(m).tcnt = m.tcnt
         /\ MarkTimer0Update(m).last =
              m.last + (Elapsed(m) \div Div(m)) * Div(m)
<1> DEFINE back == (Elapsed(m) \div Div(m)) * Div(m)
           n == MarkTimer0Update(m)
<1>1. Elapsed(m) \in Nat /\ Div(m) \in Nat /\ Div(m) > 0 /\ m.last \in Nat
      /\ m.total \in Nat /\ Elapsed(m) = m.total - m.last /\ m.trap \in BOOLEAN
  BY DivType DEF Elapsed, Good, Machine
<1>2. back \in Nat /\ Elapsed(m) < back + Div(m)
  <2>1. /\ Elapsed(m) \div Div(m) \in Int /\ Elapsed(m) % Div(m) \in 0..(Div(m) - 1)
        /\ Elapsed(m) = Div(m) * (Elapsed(m) \div Div(m)) + (Elapsed(m) % Div(m))
    BY <1>1, SMT
  <2>2. back \in Nat
    BY <1>1, WholeTicks
  <2>3. QED
    BY <1>1, <2>1, <2>2
<1>3. n = [m EXCEPT !.last = @ + back]
  BY DEF MarkTimer0Update
<1>4. n.last = m.last + back /\ n.total = m.total /\ n.tcnt = m.tcnt
      /\ n.tov = m.tov /\ Frame(m, n)
  BY <1>1, <1>3 DEF Frame, Good, Machine
<1>5. Good(n) /\ Div(n) = Div(m)
  BY <1>4, MarkSame DEF Same, Div, Frame
<1>6. NextOverflow(n) >= n.last + Div(m) /\ NextOverflow(n) \in Nat
  BY <1>5, OverflowBounds
<1> HIDE DEF back, n
<1>7. Ahead(n)
  BY <1>1, <1>2, <1>4, <1>6 DEF Ahead
<1>8. QED
  BY <1>4, <1>7 DEF n, back

(* Looking for interrupts leaves the timer alone; a CPU that is still      *)
(* asleep after it has nothing to wake up for.                             *)
LEMMA CheckKeeps ==
  ASSUME NEW m, Good(m)
  PROVE  /\ Frame(m, CheckForIntr(m))
         /\ NextOverflow(CheckForIntr(m)) = NextOverflow(m)
         /\ CheckForIntr(m).sleep => CheckForIntr(m) = m /\ ~Deliverable(m)
         /\ CheckForIntr(m).total <= m.total + WakeCycles
<1>1. CASE Deliverable(m)
  <2> DEFINE n == CheckForIntr(m)
  <2>1. n = DirectExecuteInterrupt([m EXCEPT !.tov = FALSE])
    BY <1>1 DEF CheckForIntr
  <2>2. /\ n.last = m.last /\ n.tcnt = m.tcnt /\ n.presc = m.presc
        /\ n.prtim = m.prtim /\ n.toie = m.toie /\ n.left = m.left
        /\ n.ie = m.ie /\ n.trap = m.trap /\ n.sleep = FALSE
        /\ n.total = (IF m.sleep THEN m.total + WakeCycles ELSE m.total)
    BY <2>1 DEF DirectExecuteInterrupt, Good, Machine
  <2>3. m.trap \in BOOLEAN /\ m.total \in Nat
    BY DEF Good, Machine
  <2> HIDE DEF n
  <2>4. Frame(m, n) /\ NextOverflow(n) = NextOverflow(m) /\ ~n.sleep
    BY <2>2, <2>3 DEF Frame, NextOverflow, Div
  <2>5. n.total <= m.total + WakeCycles
    BY <2>2, <2>3 DEF WakeCycles
  <2>6. QED
    BY <2>4, <2>5 DEF n
<1>2. CASE ~Deliverable(m)
  <2>1. CheckForIntr(m) = m /\ m.trap \in BOOLEAN /\ m.total \in Nat
    BY <1>2 DEF CheckForIntr, Good, Machine
  <2>2. QED
    BY <1>2, <2>1 DEF Frame, WakeCycles
<1>3. QED
  BY <1>1, <1>2

(* What n is right after the timer was brought up to date and interrupts   *)
(* were looked for: no overflow is missing, and whoever sleeps on has to.  *)
UpToDate(n) ==
  /\ Ticks(n) => n.total < NextOverflow(n) + WakeCycles
  /\ n.sleep => ~Deliverable(n) /\ (Ticks(n) => Ahead(n))

LEMMA CheckUpToDate ==
  ASSUME NEW m, Good(m), Ticks(m) => Ahead(m)
  PROVE  UpToDate(CheckForIntr(m))
<1> DEFINE n == CheckForIntr(m)
<1>1. /\ Frame(m, n) /\ NextOverflow(n) = NextOverflow(m)
      /\ (n.sleep => n = m /\ ~Deliverable(m))
      /\ n.total <= m.total + WakeCycles
  BY CheckKeeps
<1>2. Good(n)
  BY CheckSettles DEF Settles
<1>3. m.total \in Nat /\ n.total \in Nat /\ NextOverflow(m) \in Nat
  BY <1>2, OverflowBounds DEF Good, Machine
<1> HIDE DEF n
<1>4. Ticks(n) => Ticks(m)
  BY <1>1 DEF Frame, Ticks, Div
<1>5. QED
  BY <1>1, <1>3, <1>4 DEF UpToDate, Ahead, WakeCycles, n

LEMMA UpdateUpToDate ==
  ASSUME NEW m, Good(m)
  PROVE  /\ UpToDate(UpdateTimers(m)) /\ Frame(m, UpdateTimers(m))
<1> DEFINE div  == Div(m) % Byte
           add  == Elapsed(m) \div div
           next == (m.tcnt + add) % Byte
           flag == m.tov \/ next < m.tcnt \/ add >= Byte
           w    == [m EXCEPT !.tcnt = next, !.tov = flag]
           x    == IF ~m.prtim /\ div # 0 /\ Elapsed(m) >= div
                   THEN MarkTimer0Update(w)
                   ELSE m
<1>1. Good(x) /\ Frame(m, x) /\ (Ticks(x) => Ahead(x))
  <2>1. CASE ~m.prtim /\ div # 0 /\ Elapsed(m) >= div
    <3>1. div \in Nat /\ div > 0 /\ Elapsed(m) \in Nat
      BY <2>1, ConstantFacts, Wraps, DivType DEF Elapsed, Good, Machine
    <3>2. add \in Nat
      BY <3>1, WholeTicks
    <3>3. next \in 0..(Byte - 1) /\ flag \in BOOLEAN
      BY <3>2, ConstantFacts, Wraps DEF Good, Machine
    <3>4. Div(m) # 0
      BY <2>1, TicksDivide DEF Good
    <3> HIDE DEF next, flag, add, div
    <3>5. Good(w) /\ Frame(m, w) /\ Div(w) = Div(m)
      BY <3>3 DEF Good, Machine, Frame, Div
    <3> HIDE DEF w
    <3>6. Ahead(MarkTimer0Update(w)) /\ Frame(w, MarkTimer0Update(w))
          /\ Good(MarkTimer0Update(w))
      BY <3>4, <3>5, MarkedAhead, MarkSame DEF Same
    <3>7. QED
      BY <2>1, <3>5, <3>6 DEF Frame
  <2>2. CASE ~(~m.prtim /\ div # 0 /\ Elapsed(m) >= div)
    <3>1. x = m /\ Frame(m, m)
      BY <2>2 DEF Frame, Good, Machine
    <3> HIDE DEF x
    <3>2. ASSUME Ticks(m) PROVE Ahead(m)
      <4>1. Div(m) \in Nat /\ Div(m) > 0 /\ Elapsed(m) < div
            /\ Elapsed(m) = m.total - m.last /\ m.total \in Nat /\ m.last \in Nat
        <5>1. ~m.prtim /\ div # 0
          BY <3>2 DEF Ticks
        <5>2. Div(m) \in Nat /\ Div(m) > 0
          BY <5>1, TicksDivide DEF Good
        <5>3. div \in Nat /\ ~(Elapsed(m) >= div)
          BY <2>2, <5>1, <5>2, ConstantFacts, Wraps
        <5> HIDE DEF div
        <5>4. QED
          BY <5>2, <5>3 DEF Good, Elapsed, Machine
      <4>2. div <= Div(m)
        BY <4>1, ConstantFacts
      <4>3. div \in Nat
        BY <4>1, ConstantFacts, Wraps
      <4> HIDE DEF div
      <4>4. QED
        BY <4>1, <4>2, <4>3, OverflowBounds DEF Ahead
    <3>3. QED
      BY <3>1, <3>2
  <2> HIDE DEF x
  <2>3. QED
    BY <2>1, <2>2
<1>2. UpdateTimers(m) = CheckForIntr(x)
  BY DEF UpdateTimers
<1> HIDE DEF x
<1>3. UpToDate(CheckForIntr(x)) /\ Frame(x, CheckForIntr(x))
  BY <1>1, CheckUpToDate, CheckKeeps
<1>4. QED
  BY <1>1, <1>2, <1>3 DEF Frame

LEMMA DoTicksUpToDate ==
  ASSUME NEW m, Good(m), NEW n \in Nat
  PROVE  /\ UpToDate(CheckForIntr(DoTicks(m, n)))
         /\ Frame(m, CheckForIntr(DoTicks(m, n)))
<1> DEFINE d == DoTicks(m, n)
<1>1. Good(d)
  BY DoTicksSame DEF Same
<1>2. Frame(m, d) /\ (Ticks(d) => Ahead(d))
  <2>1. CASE m.prtim
    BY <2>1 DEF DoTicks, Frame, Ticks, Good, Machine
  <2>2. CASE ~m.prtim
    <3> DEFINE next == (m.tcnt + n) % Byte
               flag == m.tov \/ next < m.tcnt
               w    == [m EXCEPT !.tcnt = next, !.tov = flag]
    <3>1. next \in 0..(Byte - 1) /\ flag \in BOOLEAN
      BY ConstantFacts, Wraps DEF Good, Machine
    <3>2. d = MarkTimer0Update(w)
      BY <2>2 DEF DoTicks
    <3> HIDE DEF next, flag, d
    <3>3. Good(w) /\ Frame(m, w) /\ Div(w) = Div(m)
      BY <3>1 DEF Good, Machine, Frame, Div
    <3> HIDE DEF w
    <3>4. CASE Div(m) # 0
      BY <3>2, <3>3, <3>4, MarkedAhead DEF Frame
    <3>5. CASE Div(m) = 0
      <4>1. d = [w EXCEPT !.trap = TRUE]
        BY <3>2, <3>3, <3>5 DEF MarkTimer0Update
      <4>2. Frame(m, d) /\ Div(d) = 0
        BY <3>3, <3>5, <4>1 DEF Frame, Good, Machine, Div
      <4>3. QED
        BY <1>1, <4>2, TicksDivide DEF Good, Ticks
    <3>6. QED
      BY <3>4, <3>5
  <2>3. QED
    BY <2>1, <2>2 DEF Good, Machine
<1> HIDE DEF d
<1>3. UpToDate(CheckForIntr(d)) /\ Frame(d, CheckForIntr(d))
  BY <1>1, <1>2, CheckUpToDate, CheckKeeps
<1>4. QED
  BY <1>2, <1>3 DEF Frame, d

(* As long as the overflow is still to come, the ticks that have passed do *)
(* not make TCNT0 wrap, ...                                                *)
LEMMA AheadFits ==
  ASSUME NEW m, Good(m), Div(m) # 0, Ahead(m)
  PROVE  m.tcnt + Elapsed(m) \div Div(m) < Byte
<1> DEFINE d == Div(m)
           e == Elapsed(m)
           q == e \div d
           k == Byte - m.tcnt
<1>1. d \in Nat /\ d > 0 /\ e \in Nat /\ e = m.total - m.last
      /\ m.total \in Nat /\ m.last \in Nat /\ m.tcnt \in Nat /\ k \in Nat
      /\ Byte \in Nat
  BY ConstantFacts, DivType DEF Elapsed, Good, Machine
<1>2. q \in Nat /\ q * d \in Nat /\ q * d <= e
  BY <1>1, WholeTicks
<1>3. m.total < m.last + k * d
  BY DEF Ahead, NextOverflow
<1>4. k * d \in Nat
  BY <1>1
<1> HIDE DEF d, e, q
<1>5. e < k * d
  BY <1>1, <1>3, <1>4 DEF k
<1> HIDE DEF k
<1>6. q * d < k * d
  BY <1>2, <1>4, <1>5, <1>1
<1>7. q < k
  <2>1. CASE q >= k
    <3>1. (q - k) * d >= 0
      BY <1>1, <1>2, <2>1
    <3>2. (q - k) * d = q * d - k * d
      BY <1>1, <1>2
    <3>3. QED
      BY <1>2, <1>4, <1>6, <3>1, <3>2
  <2>2. QED
    BY <1>1, <1>2, <2>1
<1>8. m.tcnt + q < Byte
  BY <1>1, <1>2, <1>7 DEF k
<1>9. QED
  BY <1>8 DEF d, e, q

(* ... so that a read of TCNT0 does not move the overflow. *)
LEMMA ReadKeeps ==
  ASSUME NEW m, Good(m)
  PROVE  /\ Frame(m, ReadTCNT0(m)) /\ ReadTCNT0(m).tov = m.tov
         /\ Div(m) # 0 => Ahead(ReadTCNT0(m))
         /\ Ahead(m) \/ Div(m) = 0 => NextOverflow(ReadTCNT0(m)) = NextOverflow(m)
<1>1. CASE Div(m) = 0
  BY <1>1 DEF ReadTCNT0, Frame, Good, Machine
<1>2. CASE Div(m) # 0
  <2> DEFINE q    == Elapsed(m) \div Div(m)
             next == (m.tcnt + q) % Byte
             w    == [m EXCEPT !.tcnt = next]
             n    == ReadTCNT0(m)
  <2>1. Elapsed(m) \in Nat /\ Div(m) \in Nat /\ Div(m) > 0
    BY <1>2, DivType DEF Elapsed, Good, Machine
  <2>2. q \in Nat
    BY <2>1, WholeTicks
  <2>3. next \in 0..(Byte - 1)
    BY <2>2, ConstantFacts, Wraps DEF Good, Machine
  <2>4. n = MarkTimer0Update(w)
    BY <1>2 DEF ReadTCNT0, Good, Machine
  <2> HIDE DEF next
  <2>5. /\ Good(w) /\ Frame(m, w) /\ Div(w) = Div(m) /\ Elapsed(w) = Elapsed(m)
        /\ w.tov = m.tov /\ w.tcnt = next /\ w.last = m.last
    BY <2>3 DEF Good, Machine, Frame, Div, Elapsed
  <2> HIDE DEF w, n
  <2>6. /\ Ahead(n) /\ Frame(w, n) /\ n.tov = w.tov /\ n.tcnt = next
        /\ n.last = w.last + q * Div(w)
    BY <1>2, <2>4, <2>5, MarkedAhead
  <2>7. ASSUME Ahead(m) PROVE NextOverflow(n) = NextOverflow(m)
    <3>1. m.tcnt \in Nat /\ m.last \in Nat /\ Byte \in Nat
      BY ConstantFacts DEF Good, Machine
    <3>2. next = m.tcnt + q
      <4>1. m.tcnt + q < Byte
        BY <1>2, <2>7, AheadFits
      <4> HIDE DEF q
      <4>2. QED
        BY <2>2, <3>1, <4>1 DEF next
    <3> DEFINE d == Div(m)
    <3>3. NextOverflow(n) = m.last + q * d + (Byte - (m.tcnt + q)) * d
      BY <2>5, <2>6, <3>2 DEF NextOverflow, Frame, Div
    <3>4. NextOverflow(m) = m.last + (Byte - m.tcnt) * d
      BY DEF NextOverflow
    <3>5. d \in Nat
      BY <2>1
    <3> HIDE DEF d, q
    <3>6. QED
      BY <2>2, <3>1, <3>3, <3>4, <3>5
  <2>8. QED
    BY <1>2, <2>5, <2>6, <2>7 DEF Frame, n
<1>3. QED
  BY <1>1, <1>2

-----------------------------------------------------------------------------
(* The inductive invariant of the deadline.                                *)

(* A CPU that sleeps from one pass of the loop to the next has no          *)
(* interrupt to take, has not slept past an overflow, and the cycles it    *)
(* has left lead to the overflow.                                          *)
Dozes(m) ==
  /\ m.presc # 0 => ~Deliverable(m)
  /\ m.toie /\ Ticks(m) =>
       Ahead(m) /\ (m.left > 0 => m.total + m.left = NextOverflow(m))
  /\ m.toie /\ m.presc = 0 /\ m.left > 0 =>
       (m.total + m.left - NextOverflow(m)) % Word = 0

(* At most Overshoot cycles late. *)
Late(m) == m.toie /\ Ticks(m) => m.total <= NextOverflow(m) + Overshoot

(* None of the four properties below is inductive.  Besides Dozes and      *)
(* Late: every slice ends within MaxTotal, so that no deadline wraps; a    *)
(* CPU that is awake, or that has just gone to sleep in the inner loop,    *)
(* has no sleep left over; stale is about one inner loop; and as long as   *)
(* no one has broken out of it, the inner loop runs on a prescaler and its *)
(* deadline is no later than the overflow.                                 *)
DeadlineInv ==
  /\ target <= MaxTotal
  /\ ~mcu.sleep \/ loop = "inner" => mcu.left = 0
  /\ loop # "inner" => ~stale
  /\ ~stale => Late(mcu)
  /\ mcu.sleep /\ loop # "inner" => Dozes(mcu)
  /\ loop = "inner" /\ ~mcu.brk =>
       /\ mcu.presc > 1
       /\ mcu.toie /\ ~stale => currTarget <= NextOverflow(mcu)

LEMMA UpToDateIsLate ==
  ASSUME NEW m, Good(m), UpToDate(m)
  PROVE  Late(m) /\ (m.sleep /\ m.left = 0 => Dozes(m))
<1>1. m.total \in Nat /\ NextOverflow(m) \in Nat
  BY OverflowBounds DEF Good, Machine
<1>2. Late(m)
  BY <1>1 DEF UpToDate, Late, Overshoot, WakeCycles
<1>3. ASSUME m.sleep, m.left = 0 PROVE Dozes(m)
  BY <1>3 DEF UpToDate, Dozes
<1>4. QED
  BY <1>2, <1>3

(* What the properties read of a machine, besides its break-out bit. *)
Alike(m, n) ==
  /\ n.total = m.total /\ n.last = m.last /\ n.tcnt = m.tcnt /\ n.left = m.left
  /\ n.presc = m.presc /\ n.prtim = m.prtim /\ n.toie = m.toie /\ n.ie = m.ie
  /\ n.tov = m.tov /\ n.sleep = m.sleep

LEMMA AlikeSame ==
  ASSUME NEW m, NEW n, Alike(m, n)
  PROVE  /\ NextOverflow(n) = NextOverflow(m)
         /\ (Ticks(n) <=> Ticks(m)) /\ (Ahead(n) <=> Ahead(m))
         /\ (Late(n) <=> Late(m)) /\ (Dozes(n) <=> Dozes(m))
         /\ (UpToDate(n) <=> UpToDate(m)) /\ Elapsed(n) = Elapsed(m)
<1>1. Div(n) = Div(m)
  BY DEF Alike, Div
<1>2. NextOverflow(n) = NextOverflow(m) /\ Elapsed(n) = Elapsed(m)
  BY <1>1 DEF Alike, NextOverflow, Elapsed
<1>3. (Ticks(n) <=> Ticks(m)) /\ (Ahead(n) <=> Ahead(m))
      /\ (Deliverable(n) <=> Deliverable(m))
  BY <1>1, <1>2, Zenon DEF Alike, Ticks, Ahead, Deliverable
<1>4. QED
  BY <1>2, <1>3, Zenon DEF Alike, Late, Dozes, UpToDate

LEMMA BreakAlike ==
  ASSUME NEW m \in Machine, NEW b \in BOOLEAN
  PROVE  Alike(m, [m EXCEPT !.brk = b])
BY DEF Alike, Machine

(* What the body b of an instruction of c cycles, run on the machine m,    *)
(* may do: leave the clock select and, unless w says that it is one of the *)
(* writes that move the overflow without breaking out, the overflow where  *)
(* they are; or select a clock, which starts anew, and break out.          *)
Keeps(m, b, c, w) ==
  /\ Good(b) /\ b.left = m.left
  /\ b.total + c <= m.total + Overshoot + 1
  /\ \/ /\ b.presc = m.presc
        /\ w \/ (b.toie = m.toie /\ (Ahead(m) => NextOverflow(b) = NextOverflow(m)))
     \/ b.brk /\ ~b.sleep /\ (b.presc # 0 => b.total + c <= NextOverflow(b))

LEMMA RetiredFields ==
  ASSUME NEW b, Good(b), NEW c \in Nat
  PROVE  LET r == Retired(b, c) IN
         /\ Good(r) /\ r.total = b.total + c /\ r.last = b.last /\ r.tcnt = b.tcnt
         /\ r.left = b.left /\ r.presc = b.presc /\ r.prtim = b.prtim
         /\ r.toie = b.toie /\ r.sleep = b.sleep /\ r.brk = b.brk
         /\ NextOverflow(r) = NextOverflow(b)
<1> DEFINE t == b.total + c
           place == IF b.pc = "vector" THEN "pastVector" ELSE "code"
           r == [b EXCEPT !.total = t, !.pc = place]
<1>1. t \in Nat /\ t >= b.total /\ place \in PcPlace
  BY DEF Good, Machine, PcPlace
<1>2. r = Retired(b, c)
  BY DEF Retired
<1> HIDE DEF t, place
<1>3. /\ r.total = t /\ r.last = b.last /\ r.tcnt = b.tcnt
      /\ r.left = b.left /\ r.presc = b.presc /\ r.prtim = b.prtim
      /\ r.toie = b.toie /\ r.sleep = b.sleep /\ r.brk = b.brk
      /\ r \in Machine
  BY <1>1 DEF Good, Machine
<1> HIDE DEF r
<1>4. b.last <= b.total /\ b.last \in Nat /\ b.total \in Nat
  BY DEF Good, Machine
<1>5. r.last <= r.total
  BY <1>1, <1>3, <1>4
<1>6. NextOverflow(r) = NextOverflow(b)
  BY <1>3 DEF NextOverflow, Div
<1>7. QED
  BY <1>2, <1>3, <1>5, <1>6, Zenon DEF Good, t

LEMMA InstDeadline ==
  ASSUME IInv, DeadlineInv, CanFetch, UNCHANGED locals,
         NEW b, NEW c \in 0..MaxPlain, NEW w \in BOOLEAN, Keeps(Fetched, b, c, w),
         mcu' = AfterInst(Retired(b, c), c),
         stale' = (stale \/ (w /\ loop = "inner"))
  PROVE  DeadlineInv'
<1> DEFINE r == Retired(b, c)
<1>1. c \in Nat /\ Good(mcu) /\ mcu \in Machine /\ mcu.total \in Nat
      /\ target \in Nat /\ currTarget \in Nat /\ stale \in BOOLEAN
      /\ loop \in {"host", "pass", "inner"}
  BY MachineGood DEF MaxPlain, IInv, TypeOK, Machine
<1>2. Good(b) /\ b.left = mcu.left
  BY <1>1 DEF Keeps, Fetched, Machine
<1>3. /\ Good(r) /\ r.total = b.total + c
      /\ r.left = mcu.left /\ r.presc = b.presc /\ r.prtim = b.prtim
      /\ r.toie = b.toie /\ r.sleep = b.sleep /\ r.brk = b.brk
      /\ NextOverflow(r) = NextOverflow(b)
  BY <1>1, <1>2, RetiredFields
<1>4. /\ Fetched.total = mcu.total /\ Fetched.presc = mcu.presc
      /\ Fetched.toie = mcu.toie /\ NextOverflow(Fetched) = NextOverflow(mcu)
      /\ (Ahead(Fetched) <=> Ahead(mcu))
  <2>1. Alike(mcu, Fetched)
    BY <1>1 DEF Alike, Fetched, Machine
  <2>2. QED
    BY <2>1, AlikeSame DEF Alike
<1>5. /\ r.total <= mcu.total + Overshoot + 1
      /\ \/ /\ r.presc = mcu.presc
            /\ w \/ (r.toie = mcu.toie /\ (Ahead(mcu) => NextOverflow(r) = NextOverflow(mcu)))
         \/ r.brk /\ ~r.sleep /\ (r.presc # 0 => r.total <= NextOverflow(r))
  BY <1>3, <1>4, Zenon DEF Keeps
<1>6. /\ ~mcu.sleep /\ mcu.left = 0 /\ r.left = 0
      /\ mcu.total < target /\ loop \in {"pass", "inner"}
      /\ target' = target /\ currTarget' = currTarget /\ loop' = loop
  BY <1>1, <1>3 DEF CanFetch, InSlice, DeadlineInv, IInv, BudgetInv, locals
<1>7. r.total \in Nat /\ NextOverflow(r) \in Nat /\ NextOverflow(mcu) \in Nat
      /\ r \in Machine
  BY <1>1, <1>3, OverflowBounds DEF Good, Machine
<1> HIDE DEF r
<1>8. CASE loop = "inner"
  <2>1. mcu' = r
    BY <1>8 DEF AfterInst, r
  <2>2. mcu.total < currTarget /\ ~mcu.brk /\ mcu.presc > 1
    BY <1>1, <1>8 DEF CanFetch, InSlice, DeadlineInv
  <2>3. ASSUME mcu.toie, ~stale PROVE Ahead(mcu) /\ currTarget <= NextOverflow(mcu)
    BY <1>1, <1>7, <1>8, <2>2, <2>3 DEF DeadlineInv, Ahead
  <2>4. ASSUME ~stale' PROVE Late(r)
    <3>1. SUFFICES ASSUME r.toie, Ticks(r)
                   PROVE  r.total <= NextOverflow(r) + Overshoot
      BY DEF Late
    <3>2. r.presc # 0
      BY <1>7, <3>1, TicksDivide DEF Ticks
    <3>3. ~stale /\ ~w
      BY <1>8, <2>4
    <3>4. CASE r.brk /\ (r.presc # 0 => r.total <= NextOverflow(r))
      BY <1>7, <3>2, <3>4 DEF Overshoot
    <3>5. CASE r.toie = mcu.toie /\ (Ahead(mcu) => NextOverflow(r) = NextOverflow(mcu))
      <4>1. Ahead(mcu) /\ NextOverflow(r) = NextOverflow(mcu)
        BY <2>3, <3>1, <3>3, <3>5
      <4>2. QED
        BY <1>1, <1>5, <1>7, <4>1 DEF Ahead, Overshoot
    <3>6. QED
      BY <1>5, <3>3, <3>4, <3>5
  <2>5. ASSUME ~r.brk PROVE r.presc > 1 /\ (r.toie /\ ~stale' => currTarget <= NextOverflow(r))
    BY <1>5, <1>8, <2>2, <2>3, <2>5
  <2>6. QED
    BY <1>6, <1>8, <2>1, <2>4, <2>5 DEF DeadlineInv
<1>9. CASE loop = "pass" /\ mcu.presc = 0
  <2> DEFINE n == [r EXCEPT !.brk = FALSE]
  <2>1. mcu' = n
    BY <1>9 DEF AfterInst, r
  <2>2. Alike(r, n)
    BY <1>7, BreakAlike
  <2>3. ~stale /\ ~stale'
    BY <1>9 DEF DeadlineInv
  <2> HIDE DEF n
  <2>4. Late(r)
    <3>1. SUFFICES ASSUME r.toie, Ticks(r)
                   PROVE  r.total <= NextOverflow(r) + Overshoot
      BY DEF Late
    <3>2. r.presc # 0
      BY <1>7, <3>1, TicksDivide DEF Ticks
    <3>3. r.total <= NextOverflow(r)
      BY <1>5, <1>9, <3>2
    <3>4. QED
      BY <1>7, <3>3 DEF Overshoot
  <2>5. ASSUME r.sleep PROVE Dozes(r)
    <3>1. r.presc = 0
      BY <1>5, <1>9, <2>5
    <3>2. ~Ticks(r)
      BY <1>7, <3>1, TicksDivide DEF Ticks
    <3>3. QED
      BY <1>6, <3>1, <3>2 DEF Dozes
  <2>6. Late(n) /\ (n.sleep => Dozes(n)) /\ n.left = 0
    BY <1>6, <2>2, <2>4, <2>5, AlikeSame DEF Alike
  <2>7. QED
    BY <1>6, <1>9, <2>1, <2>3, <2>6 DEF DeadlineInv
<1>10. CASE loop = "pass" /\ mcu.presc # 0
  <2> DEFINE n == CheckForIntr(DoTicks(r, c))
             z == [n EXCEPT !.brk = FALSE]
  <2>1. mcu' = z
    BY <1>10 DEF AfterInst, r
  <2>2. UpToDate(n) /\ Frame(r, n)
    BY <1>1, <1>3, DoTicksUpToDate
  <2>3. Good(n)
    BY <1>1, <1>3, DoTicksSame, CheckSettles DEF Same, Settles
  <2>4. ~stale /\ ~stale'
    BY <1>10 DEF DeadlineInv
  <2> HIDE DEF n
  <2>5. n.left = 0 /\ Late(n) /\ (n.sleep => Dozes(n))
    BY <1>6, <2>2, <2>3, UpToDateIsLate DEF Frame
  <2>6. Alike(n, z)
    BY <2>3, BreakAlike DEF Good
  <2> HIDE DEF z
  <2>7. Late(z) /\ (z.sleep => Dozes(z)) /\ z.left = 0
    BY <2>5, <2>6, AlikeSame DEF Alike
  <2>8. QED
    BY <1>6, <1>10, <2>1, <2>4, <2>7 DEF DeadlineInv
<1>11. QED
  BY <1>6, <1>8, <1>9, <1>10

(* An access that leaves clock select, TCNT0 and its update mark alone. *)
LEMMA KeepsTimer ==
  ASSUME NEW m, Good(m), NEW b, Good(b), NEW c, b.total + c <= m.total + Overshoot + 1,
         b.left = m.left, b.presc = m.presc, b.last = m.last, b.tcnt = m.tcnt,
         NEW w \in BOOLEAN, ~w => b.toie = m.toie
  PROVE  Keeps(m, b, c, w)
<1>1. NextOverflow(b) = NextOverflow(m)
  BY DEF NextOverflow, Div
<1>2. QED
  BY <1>1, Zenon DEF Keeps

LEMMA SelectKeeps ==
  ASSUME NEW m, Good(m), ~m.sleep, m.left = 0, NEW p \in Prescs
  PROVE  Keeps(m, SetTCCR0B(m, p), 1, FALSE)
<1> DEFINE u == IF m.presc # 0 THEN UpdateTimers(m) ELSE m
           n == [u EXCEPT !.presc = p, !.last = u.total, !.brk = TRUE]
<1>1. m.total \in Nat
  BY DEF Good, Machine
<1>2. CASE p = m.presc
  <2>1. SetTCCR0B(m, p) = m
    BY <1>2 DEF SetTCCR0B
  <2>2. m.total + 1 <= m.total + Overshoot + 1
    BY <1>1 DEF Overshoot
  <2>3. QED
    BY <2>1, <2>2, KeepsTimer
<1>3. CASE p # m.presc
  <2>1. SetTCCR0B(m, p) = n
    BY <1>3 DEF SetTCCR0B
  <2>2. Accessed(m, n)
    BY <2>1, SetTCCR0BAccesses
  <2>3. Settles(m, u) /\ u.left = m.left
    BY UpdateSettles, UpdateUpToDate DEF Settles, Frame
  <2>4. u \in Machine /\ u.total = m.total
    BY <2>3 DEF Settles, Good
  <2> HIDE DEF u
  <2>5. n.left = m.left /\ n.brk = TRUE /\ n.presc = p /\ n.last = u.total
    BY <2>3, <2>4 DEF Machine
  <2>6. NextOverflow(n) \in Nat /\ NextOverflow(n) >= n.last + Div(n)
    BY <2>2, OverflowBounds DEF Accessed
  <2>7. ASSUME p # 0 PROVE Div(n) \in Nat /\ Div(n) >= 1
    BY <2>5, <2>7, PrescAssumption DEF Div
  <2> HIDE DEF n
  <2>8. n.presc # 0 => n.total + 1 <= NextOverflow(n)
    BY <1>1, <2>2, <2>4, <2>5, <2>6, <2>7 DEF Accessed
  <2>9. n.total + 1 <= m.total + Overshoot + 1
    BY <1>1, <2>2 DEF Accessed, Overshoot
  <2>10. QED
    BY <2>1, <2>2, <2>5, <2>8, <2>9 DEF Keeps, Accessed
<1>4. QED
  BY <1>2, <1>3

LEMMA ReadTCNT0Keeps ==
  ASSUME NEW m, Good(m)
  PROVE  Keeps(m, ReadTCNT0(m), 1, FALSE)
<1> DEFINE n == ReadTCNT0(m)
<1>1. Good(n) /\ n.total = m.total /\ m.total \in Nat
  BY ReadTCNT0Accesses DEF Same, Good, Machine
<1>2. Frame(m, n) /\ (Ahead(m) => NextOverflow(n) = NextOverflow(m))
  BY ReadKeeps
<1> HIDE DEF n
<1>3. n.total + 1 <= m.total + Overshoot + 1
  BY <1>1 DEF Overshoot
<1>4. QED
  BY <1>1, <1>2, <1>3, Zenon DEF Keeps, Frame, n

LEMMA WriteTCNT0Keeps ==
  ASSUME NEW m, Good(m), ~m.sleep, NEW v \in 0..(Byte - 1)
  PROVE  Keeps(m, WriteTCNT0(m, v), 1, TRUE)
<1> DEFINE x == [m EXCEPT !.tcnt = v]
           w == MarkTimer0Update(x)
           n == WriteTCNT0(m, v)
<1>1. Good(x) /\ x.left = m.left /\ x.presc = m.presc /\ x \in Machine
  BY DEF Good, Machine
<1>2. n = IF v < m.tcnt THEN [w EXCEPT !.tov = TRUE, !.brk = TRUE] ELSE w
  BY DEF WriteTCNT0
<1> HIDE DEF x
<1>3. w \in Machine /\ w.left = m.left /\ w.presc = m.presc
  <2>1. w \in Machine
    BY <1>1, MarkSame DEF Same, Good
  <2>2. w.left = x.left /\ w.presc = x.presc
    BY <1>1 DEF MarkTimer0Update, Machine
  <2>3. QED
    BY <1>1, <2>1, <2>2
<1> HIDE DEF w
<1>4. n.left = m.left /\ n.presc = m.presc
  BY <1>2, <1>3 DEF Machine
<1>5. Accessed(m, n)
  BY WriteTCNT0Accesses
<1> HIDE DEF n
<1>6. n.total + 1 <= m.total + Overshoot + 1
  BY <1>5 DEF Accessed, Overshoot, Good, Machine
<1>7. QED
  BY <1>4, <1>5, <1>6, Zenon DEF Keeps, Accessed, n

LEMMA WriteTIFR0Keeps ==
  ASSUME NEW m, Good(m), ~m.sleep, NEW f \in BOOLEAN, NEW c \in 1..MaxAccess
  PROVE  Keeps(m, WriteTIFR0(m, f), c, FALSE)
<1> DEFINE x == [m EXCEPT !.tov = f]
           n == CheckForIntr(x)
<1>1. /\ Good(x) /\ x.left = m.left /\ x.presc = m.presc /\ x.toie = m.toie
      /\ x.last = m.last /\ x.tcnt = m.tcnt
  BY DEF Good, Machine
<1>2. WriteTIFR0(m, f) = n
  BY DEF WriteTIFR0
<1>3. Accessed(m, n)
  BY <1>2, WriteTIFR0Accesses
<1>4. NextOverflow(x) = NextOverflow(m)
  BY <1>1 DEF NextOverflow, Div
<1> HIDE DEF x
<1>5. Frame(x, n) /\ NextOverflow(n) = NextOverflow(x)
  BY <1>1, CheckKeeps
<1> HIDE DEF n
<1>6. n.total + c <= m.total + Overshoot + 1
  BY <1>3 DEF Accessed, Overshoot, MaxAccess, Good, Machine
<1>7. QED
  BY <1>1, <1>2, <1>3, <1>4, <1>5, <1>6, Zenon DEF Keeps, Frame, Accessed

LEMMA InstructionDeadline ==
  ASSUME IInv, DeadlineInv, Instruction
  PROVE  DeadlineInv'
<1> DEFINE m == Fetched
<1>1. CanFetch
  BY DEF Instruction, Plain, Sei, Cli, Reti, OutSREG, OutTCCR0B, StsTIMSK0,
         StsPRR0, InTCNT0, OutTCNT0, WriteTIFR, Sleep, EepromRead, Break, Inst
<1>2. /\ Good(m) /\ m \in Machine /\ ~m.sleep /\ m.left = 0 /\ m.total \in Nat
      /\ m.left = mcu.left
  <2>1. mcu \in Machine /\ ~mcu.sleep
    BY <1>1, MachineGood DEF CanFetch, IInv, BudgetInv, Good, Machine
  <2>2. m.left = mcu.left
    BY <2>1 DEF Fetched, Machine
  <2>3. QED
    BY <1>1, <2>1, <2>2, FetchedAwake DEF DeadlineInv, Good, Machine
<1> HIDE DEF m
<1>3. ASSUME NEW op, NEW b, NEW c \in 0..MaxPlain, NEW w \in BOOLEAN,
             Inst(op, b, c, w), Keeps(m, b, c, w)
      PROVE  DeadlineInv'
  BY <1>1, <1>3, InstDeadline DEF Inst, m
<1>4. 1 \in 0..MaxPlain /\ 2 \in 0..MaxPlain /\ RetiCycles \in 0..MaxPlain
      /\ PlainCycles \subseteq 0..MaxPlain
      /\ 1..MaxAccess \subseteq 0..MaxPlain
  BY ProgramAssumption DEF MaxPlain, RetiCycles, MaxAccess
<1>5. ASSUME NEW c \in 0..MaxPlain PROVE m.total + c <= m.total + Overshoot + 1
  BY <1>2, <1>5 DEF MaxPlain, Overshoot
<1>6. ASSUME NEW f \in BOOLEAN, NEW g \in BOOLEAN, NEW c \in 0..MaxPlain
      PROVE  /\ Keeps(m, m, c, FALSE)
             /\ Keeps(m, [m EXCEPT !.ie = f], c, FALSE)
             /\ Keeps(m, [m EXCEPT !.ie = f, !.brk = g], c, FALSE)
             /\ Keeps(m, [m EXCEPT !.brk = g], c, FALSE)
             /\ Keeps(m, [m EXCEPT !.sleep = TRUE, !.brk = TRUE], c, FALSE)
             /\ Keeps(m, [m EXCEPT !.toie = f], c, TRUE)
             /\ Keeps(m, [m EXCEPT !.prtim = f], c, TRUE)
  <2>1. ASSUME NEW b, NEW w \in BOOLEAN, b \in Machine, b.total = m.total, b.left = m.left,
               b.presc = m.presc, b.last = m.last, b.tcnt = m.tcnt,
               ~w => b.toie = m.toie
        PROVE  Keeps(m, b, c, w)
    <3>1. Good(b)
      BY <1>2, <2>1 DEF Good
    <3>2. QED
      BY <1>2, <1>5, <2>1, <3>1, KeepsTimer
  <2>2. Keeps(m, m, c, FALSE)
    BY <1>2, <2>1
  <2>3. Keeps(m, [m EXCEPT !.ie = f], c, FALSE)
    BY <1>2, <2>1 DEF Machine
  <2>4. Keeps(m, [m EXCEPT !.ie = f, !.brk = g], c, FALSE)
    BY <1>2, <2>1 DEF Machine
  <2>5. Keeps(m, [m EXCEPT !.brk = g], c, FALSE)
    BY <1>2, <2>1 DEF Machine
  <2>6. Keeps(m, [m EXCEPT !.sleep = TRUE, !.brk = TRUE], c, FALSE)
    BY <1>2, <2>1 DEF Machine
  <2>7. Keeps(m, [m EXCEPT !.toie = f], c, TRUE)
    BY <1>2, <2>1 DEF Machine
  <2>8. Keeps(m, [m EXCEPT !.prtim = f], c, TRUE)
    BY <1>2, <2>1 DEF Machine
  <2>9. QED
    BY <2>2, <2>3, <2>4, <2>5, <2>6, <2>7, <2>8
<1>7. CASE Plain
  BY <1>3, <1>4, <1>6, <1>7 DEF Plain, m
<1>8. CASE Sei \/ Cli \/ Reti
  BY <1>3, <1>4, <1>6, <1>8 DEF Sei, Cli, Reti, m
<1>9. CASE OutSREG
  <2>1. PICK f \in BOOLEAN : Inst("sreg", WriteSREG(m, f), 1, FALSE)
    BY <1>9 DEF OutSREG, m
  <2> DEFINE g == m.brk \/ (f /\ m.tov)
  <2>2. WriteSREG(m, f) = [m EXCEPT !.ie = f, !.brk = g] /\ g \in BOOLEAN
    BY DEF WriteSREG
  <2> HIDE DEF g
  <2>3. Keeps(m, WriteSREG(m, f), 1, FALSE)
    BY <1>4, <1>6, <2>2
  <2>4. QED
    BY <1>3, <1>4, <2>1, <2>3
<1>10. CASE OutTCCR0B
  <2>1. PICK p \in Prescs : Inst("tccr", SetTCCR0B(m, p), 1, FALSE)
    BY <1>10 DEF OutTCCR0B, m
  <2>2. QED
    BY <1>2, <1>3, <1>4, <2>1, SelectKeeps
<1>11. CASE StsTIMSK0
  BY <1>3, <1>4, <1>6, <1>11 DEF StsTIMSK0, WriteTIMSK0, m
<1>12. CASE StsPRR0
  BY <1>3, <1>4, <1>6, <1>12 DEF StsPRR0, WritePRR0, m
<1>13. CASE InTCNT0
  BY <1>2, <1>3, <1>4, <1>13, ReadTCNT0Keeps DEF InTCNT0, m
<1>14. CASE OutTCNT0
  <2>1. PICK v \in 0..(Byte - 1) : Inst("tcntWrite", WriteTCNT0(m, v), 1, TRUE)
    BY <1>14 DEF OutTCNT0, m
  <2>2. QED
    BY <1>2, <1>3, <1>4, <2>1, WriteTCNT0Keeps
<1>15. CASE WriteTIFR
  <2>1. PICK f \in BOOLEAN, c \in 1..MaxAccess :
          Inst("tifr", WriteTIFR0(m, f), c, FALSE)
    BY <1>15 DEF WriteTIFR, m
  <2>2. QED
    BY <1>2, <1>3, <1>4, <2>1, WriteTIFR0Keeps
<1>16. CASE Sleep
  BY <1>3, <1>4, <1>6, <1>16 DEF Sleep, EnterSleep, m
<1>17. CASE EepromRead
  <2>1. PICK c \in 1..MaxAccess : Inst("eeprom", ReadEEPROM(m), c, FALSE)
    BY <1>17 DEF EepromRead, m
  <2> DEFINE b == ReadEEPROM(m)
  <2>2. /\ Good(b) /\ b.total = m.total + StallCycles /\ b.left = m.left
        /\ b.presc = m.presc /\ b.last = m.last /\ b.tcnt = m.tcnt
        /\ b.toie = m.toie
    BY <1>2 DEF ReadEEPROM, StallCycles, Good, Machine
  <2> HIDE DEF b
  <2>3. b.total + c <= m.total + Overshoot + 1
    BY <1>2, <2>2 DEF StallCycles, MaxAccess, Overshoot
  <2>4. Keeps(m, b, c, FALSE)
    BY <1>2, <2>2, <2>3, KeepsTimer
  <2>5. QED
    BY <1>3, <1>4, <2>1, <2>4 DEF b
<1>18. CASE Break
  <2> DEFINE b == [m EXCEPT !.brk = TRUE]
  <2>1. UNCHANGED locals /\ mcu' = AfterInst(Retired(b, 1), 1) /\ stale' = stale
    BY <1>18 DEF Break, locals, m
  <2>2. Keeps(Fetched, b, 1, FALSE)
    BY <1>4, <1>6 DEF m
  <2> HIDE DEF b
  <2>3. stale' = (stale \/ (FALSE /\ loop = "inner"))
    BY <2>1 DEF IInv, TypeOK
  <2>4. QED
    BY <1>1, <1>4, <2>1, <2>2, <2>3, InstDeadline
<1>19. QED
  BY <1>7, <1>8, <1>9, <1>10, <1>11, <1>12, <1>13, <1>14, <1>15, <1>16, <1>17,
     <1>18 DEF Instruction

-----------------------------------------------------------------------------
(* The deadline as cycsToNextTimerInt computes it, modulo Word. *)

(* A difference taken modulo w and added back, for numbers that leave the  *)
(* upper half of the range free.                                           *)
LEMMA Residue ==
  ASSUME NEW w \in Nat \ {0}, NEW x \in Nat, NEW t \in Nat, 2 * x < w, 2 * t < w
  PROVE  /\ x >= t => (x - t) % w = x - t
         /\ (t + ((x - t) % w)) % w = x
<1> DEFINE y == x - t
<1>1. y \in Int /\ x \in 0..(w - 1)
  OBVIOUS
<1>2. CASE x >= t
  <2>1. y \in 0..(w - 1) /\ t + y = x
    BY <1>2
  <2> HIDE DEF y
  <2>2. y % w = y /\ x % w = x
    BY <1>1, <2>1, SmallDivision
  <2>3. QED
    BY <2>1, <2>2 DEF y
<1>3. CASE x < t
  <2> DEFINE turn == -1
             z == y - w * turn
  <2>1. z \in 0..(w - 1) /\ t + z = x - w * turn /\ turn \in Int /\ x \in Int
    BY <1>3
  <2> HIDE DEF turn, y
  <2>2. z % w = y % w
    BY <1>1, <2>1, LessMultiple, Zenon
  <2>3. (x - w * turn) % w = x % w
    BY <2>1, LessMultiple, Zenon
  <2>4. x % w = x
    BY <1>1, SmallDivision
  <2>5. ~(x >= t)
    BY <1>3
  <2> HIDE DEF z
  <2>6. y % w = z
    BY <2>1, <2>2, SmallDivision
  <2>7. (t + (y % w)) % w = x
    BY <2>1, <2>3, <2>4, <2>6, Zenon
  <2>8. QED
    BY <2>5, <2>7 DEF y
<1>4. QED
  BY <1>2, <1>3

(* A residue differs from its number by a multiple of the modulus. *)
LEMMA ResidueRest ==
  ASSUME NEW w \in Nat \ {0}, NEW y \in Int
  PROVE  ((y % w) - y) % w = 0
<1> DEFINE k == y \div w
           r == y % w
<1>1. k \in Int /\ r \in Int /\ y = w * k + r
  BY DivisionParts
<1> DEFINE none == 0
<1>2. (none - w * k) % w = none % w
  <2>1. none \in Int
    OBVIOUS
  <2> HIDE DEF none, k
  <2>2. QED
    BY <1>1, <2>1, LessMultiple, Zenon
<1>3. 0 % w = 0
  BY SmallDivision
<1>4. w * k \in Int
  BY <1>1
<1> HIDE DEF k, r
<1>5. r - y = none - w * k
  BY <1>1, <1>4
<1> HIDE DEF none
<1>6. (r - y) % w = none % w
  BY <1>2, <1>5, Zenon
<1>7. QED
  BY <1>3, <1>6 DEF r, none

(* BoundAssumption: no cycle count or deadline reaches half of Word. *)
LEMMA HalfWord ==
  ASSUME NEW m, Good(m), m.total <= MaxTotal + Overshoot
  PROVE  2 * NextOverflow(m) < Word /\ 2 * m.total < Word /\ Word \in Nat \ {0}
<1> DEFINE turn == Byte * Div(m)
<1>1. Div(m) \in Nat /\ Byte \in Nat /\ m.total \in Nat /\ m.last <= m.total
      /\ m.last \in Nat /\ MaxTotal \in Nat /\ Word \in Nat
  BY ConstantFacts, DivType, BoundAssumption DEF Good, Machine
<1>2. turn \in Nat
  BY <1>1
<1>3. Word > 2 * (MaxTotal + Overshoot + turn)
  BY BoundAssumption DEF Div, Good, Machine
<1>4. NextOverflow(m) <= m.last + turn /\ NextOverflow(m) \in Nat
  BY OverflowBounds
<1> HIDE DEF turn
<1>5. QED
  BY <1>1, <1>2, <1>3, <1>4 DEF Overshoot

LEMMA DeadlineExact ==
  ASSUME NEW m, Good(m), m.total <= MaxTotal + Overshoot, m.toie
  PROVE  /\ Ahead(m) => CycsToNextTimerInt(m) = NextOverflow(m) - m.total
         /\ (m.total + CycsToNextTimerInt(m)) % Word = NextOverflow(m)
         /\ (CycsToNextTimerInt(m) - (NextOverflow(m) - m.total)) % Word = 0
<1> DEFINE x == NextOverflow(m)
           t == m.total
           y == x - t
<1>1. x \in Nat /\ t \in Nat /\ 2 * x < Word /\ 2 * t < Word /\ Word \in Nat \ {0}
  BY OverflowBounds, HalfWord DEF Good, Machine
<1>2. CycsToNextTimerInt(m) = (x - t) % Word
  BY DEF CycsToNextTimerInt
<1> HIDE DEF x, t
<1>3. /\ x >= t => (x - t) % Word = x - t
      /\ (t + ((x - t) % Word)) % Word = x
  BY <1>1, Residue
<1>4. y \in Int
  BY <1>1
<1>5. ((y % Word) - y) % Word = 0
  <2> HIDE DEF y
  <2>1. QED
    BY <1>1, <1>4, ResidueRest
<1>6. QED
  BY <1>1, <1>2, <1>3, <1>5 DEF x, t, Ahead

LEMMA LoopDeadline ==
  ASSUME IInv, DeadlineInv, EndSlice \/ HaltedReturn \/ StartInner \/ EndInner \/
                            SleepDone \/ SleepOn
  PROVE  DeadlineInv'
<1>1. /\ Good(mcu) /\ mcu \in Machine /\ mcu.total \in Nat /\ mcu.left \in Nat
      /\ target \in Nat /\ amt \in Nat /\ currTarget \in Nat /\ MaxTotal \in Nat
      /\ loop \in {"host", "pass", "inner"} /\ stale \in BOOLEAN
  BY MachineGood, BoundAssumption DEF IInv, TypeOK, Machine
<1>2. mcu.total <= MaxTotal + Overshoot
  BY <1>1 DEF IInv, BudgetInv, BudgetKept, DeadlineInv, Overshoot
<1>3. NextOverflow(mcu) \in Nat
  BY <1>1, OverflowBounds
<1>4. CASE EndSlice
  BY <1>4 DEF EndSlice, DeadlineInv
<1>5. CASE HaltedReturn
  <2>1. InSlice /\ mcu' = mcu /\ loop' = "host" /\ stale' = stale
    BY <1>5 DEF HaltedReturn
  <2>2. target' = mcu.total
    BY <1>1, <1>5 DEF HaltedReturn, InSlice, IInv, BudgetInv
  <2>3. target' <= MaxTotal
    BY <1>1, <2>1, <2>2 DEF InSlice, DeadlineInv
  <2>4. QED
    BY <2>1, <2>3 DEF InSlice, DeadlineInv
<1>6. CASE StartInner
  <2> DEFINE cycs == CycsToNextTimerInt(mcu)
             curr == IF cycs = Word - 1 THEN Word - 1
                     ELSE (mcu.total + cycs) % Word
  <2>1. /\ loop = "pass" /\ ~mcu.sleep /\ mcu.presc > 1 /\ loop' = "inner"
        /\ currTarget' = (IF curr > target THEN target ELSE curr)
        /\ stale' = (mcu.toie /\ cycs = Word - 1)
        /\ UNCHANGED <<mcu, target>>
    BY <1>6 DEF StartInner, InSlice
  <2>2. ASSUME mcu.toie, ~stale' PROVE currTarget' <= NextOverflow(mcu)
    <3>1. curr = NextOverflow(mcu)
      <4>1. (mcu.total + cycs) % Word = NextOverflow(mcu)
        BY <1>1, <1>2, <2>2, DeadlineExact
      <4> HIDE DEF cycs
      <4>2. QED
        BY <2>1, <2>2, <4>1
    <3> HIDE DEF curr
    <3>2. QED
      BY <1>1, <1>3, <2>1, <3>1
  <2> HIDE DEF cycs, curr
  <2>3. ~stale /\ mcu.left = 0
    BY <2>1 DEF DeadlineInv
  <2>4. QED
    BY <2>1, <2>2, <2>3 DEF DeadlineInv
<1>7. CASE EndInner
  <2> DEFINE x == [mcu EXCEPT !.brk = FALSE]
  <2>1. Good(x) /\ x.left = mcu.left
    BY <1>1 DEF Good, Machine
  <2>2. loop = "inner" /\ mcu' = UpdateTimers(x) /\ loop' = "pass"
        /\ stale' = FALSE /\ target' = target
    BY <1>7 DEF EndInner
  <2> HIDE DEF x
  <2>3. UpToDate(mcu') /\ Frame(x, mcu') /\ Good(mcu')
    BY <2>1, <2>2, UpdateUpToDate, UpdateSettles DEF Settles
  <2>4. mcu'.left = 0
    BY <2>1, <2>2, <2>3 DEF Frame, DeadlineInv
  <2>5. Late(mcu') /\ (mcu'.sleep => Dozes(mcu'))
    BY <2>3, <2>4, UpToDateIsLate
  <2>6. QED
    BY <2>2, <2>4, <2>5 DEF DeadlineInv
<1>8. CASE SleepDone
  <2> DEFINE x == [mcu EXCEPT !.total = @ + SleepLeft]
             n == UpdateTimers(x)
             z == [n EXCEPT !.left = 0, !.brk = FALSE]
  <2>1. SleepLeft \in Nat
    BY <1>1, DeadlineType DEF SleepLeft
  <2>2. loop = "pass" /\ mcu' = z /\ UNCHANGED <<stale, locals>>
    BY <1>8 DEF SleepDone, InSlice
  <2>3. Good(x)
    BY <1>1, <2>1 DEF Good, Machine
  <2>4. UpToDate(n) /\ Good(n)
    BY <2>3, UpdateUpToDate, UpdateSettles DEF Settles
  <2> HIDE DEF n
  <2>5. /\ Good(z) /\ z.left = 0 /\ z.total = n.total /\ z.last = n.last
        /\ z.tcnt = n.tcnt /\ z.presc = n.presc /\ z.prtim = n.prtim
        /\ z.toie = n.toie /\ z.ie = n.ie /\ z.tov = n.tov /\ z.sleep = n.sleep
    BY <2>4 DEF Good, Machine
  <2> HIDE DEF z
  <2>6. UpToDate(z)
    <3>1. Div(z) = Div(n) /\ NextOverflow(z) = NextOverflow(n)
      BY <2>5 DEF Div, NextOverflow
    <3>2. (Ticks(z) <=> Ticks(n)) /\ (Ahead(z) <=> Ahead(n))
          /\ (Deliverable(z) <=> Deliverable(n))
      BY <2>5, <3>1, Zenon DEF Ticks, Ahead, Deliverable
    <3>3. QED
      BY <2>4, <2>5, <3>1, <3>2, Zenon DEF UpToDate
  <2>7. Late(z) /\ (z.sleep => Dozes(z))
    BY <2>5, <2>6, UpToDateIsLate
  <2>8. QED
    BY <2>2, <2>5, <2>7 DEF DeadlineInv, locals
<1>9. CASE SleepOn
  <2> DEFINE gone == target - mcu.total
             rest == SleepLeft - gone
             n    == [mcu EXCEPT !.left = rest, !.total = target]
  <2>1. SleepLeft \in Nat
    BY <1>1, DeadlineType DEF SleepLeft
  <2>2. /\ loop = "pass" /\ mcu.sleep /\ SleepLeft > gone /\ gone \in Nat
        /\ mcu' = n /\ UNCHANGED <<stale, locals>>
    BY <1>1, <1>9 DEF SleepOn, InSlice
  <2>3. rest \in Nat /\ rest > 0 /\ target + rest = mcu.total + SleepLeft
    BY <1>1, <2>1, <2>2
  <2> HIDE DEF rest, gone
  <2>4. /\ n.left = rest /\ n.total = target /\ n.last = mcu.last
        /\ n.tcnt = mcu.tcnt /\ n.presc = mcu.presc /\ n.prtim = mcu.prtim
        /\ n.toie = mcu.toie /\ n.ie = mcu.ie /\ n.tov = mcu.tov
        /\ n.sleep = mcu.sleep
    BY <1>1, <2>3 DEF Machine
  <2>5. Dozes(mcu)
    BY <2>2 DEF DeadlineInv
  <2> HIDE DEF n
  <2>6. /\ NextOverflow(n) = NextOverflow(mcu) /\ (Ticks(n) <=> Ticks(mcu))
        /\ (Deliverable(n) <=> Deliverable(mcu))
    <3>1. Div(n) = Div(mcu)
      BY <2>4 DEF Div
    <3>2. QED
      BY <2>4, <3>1, Zenon DEF NextOverflow, Ticks, Deliverable
  <2>7. ASSUME n.toie, Ticks(n)
        PROVE  target + rest = NextOverflow(n) /\ Ahead(n)
    <3>1. mcu.toie /\ Ticks(mcu) /\ Ahead(mcu)
      BY <2>4, <2>5, <2>6, <2>7 DEF Dozes
    <3>2. SleepLeft = NextOverflow(mcu) - mcu.total
      <4>1. CASE mcu.left = 0
        BY <1>1, <1>2, <3>1, <4>1, DeadlineExact DEF SleepLeft
      <4>2. CASE mcu.left # 0
        BY <1>1, <1>3, <2>5, <3>1, <4>2 DEF SleepLeft, Dozes
      <4>3. QED
        BY <4>1, <4>2
    <3>3. target + rest = NextOverflow(n)
      BY <1>1, <1>3, <2>3, <2>6, <3>2
    <3>4. QED
      BY <1>1, <2>3, <2>4, <3>3 DEF Ahead
  <2>8. ASSUME n.toie, n.presc = 0
        PROVE  (n.total + n.left - NextOverflow(n)) % Word = 0
    <3>1. mcu.toie /\ mcu.presc = 0
      BY <2>4, <2>8
    <3>2. n.total + n.left = mcu.total + SleepLeft
      BY <2>3, <2>4
    <3>3. (mcu.total + SleepLeft - NextOverflow(mcu)) % Word = 0
      <4>1. CASE mcu.left # 0
        BY <1>1, <2>5, <3>1, <4>1 DEF Dozes, SleepLeft
      <4>2. CASE mcu.left = 0
        <5>1. SleepLeft = CycsToNextTimerInt(mcu)
          BY <4>2 DEF SleepLeft
        <5>2. (SleepLeft - (NextOverflow(mcu) - mcu.total)) % Word = 0
          BY <1>1, <1>2, <3>1, <5>1, DeadlineExact, Zenon
        <5>3. SleepLeft - (NextOverflow(mcu) - mcu.total)
                = mcu.total + SleepLeft - NextOverflow(mcu)
          BY <1>1, <1>3, <2>1
        <5>4. QED
          BY <5>2, <5>3
      <4>3. QED
        BY <4>1, <4>2
    <3>4. n.total + n.left - NextOverflow(n)
            = mcu.total + SleepLeft - NextOverflow(mcu)
      BY <1>1, <1>3, <2>1, <2>3, <2>4, <2>6
    <3>5. QED
      BY <3>3, <3>4
  <2>9. Dozes(n)
    <3>1. n.presc # 0 => ~Deliverable(n)
      BY <2>4, <2>5, <2>6, Zenon DEF Dozes
    <3>2. n.total + n.left = target + rest
      BY <2>4
    <3>3. QED
      BY <2>7, <2>8, <3>1, <3>2, Zenon DEF Dozes
  <2>10. Late(n)
    BY <1>1, <2>4, <2>6, <2>7, <1>3 DEF Late, Ahead, Overshoot
  <2>11. QED
    BY <2>2, <2>4, <2>9, <2>10 DEF DeadlineInv, locals
<1>10. QED
  BY <1>4, <1>5, <1>6, <1>7, <1>8, <1>9

LEMMA HostDeadline ==
  ASSUME IInv, DeadlineInv, Host
  PROVE  DeadlineInv'
<1>1. Good(mcu) /\ mcu \in Machine /\ mcu.total \in Nat
  BY MachineGood DEF IInv, TypeOK, Machine
<1>2. loop = "host" /\ ~stale
  BY DEF Host, Execute, HostRead, HostHalt, HostContinue, HostReset, DeadlineInv
<1>3. ASSUME NEW f \in BOOLEAN, mcu' = [mcu EXCEPT !.brk = f], target' <= MaxTotal,
             loop' \in {"host", "pass"}, UNCHANGED stale
      PROVE  DeadlineInv'
  <2> DEFINE n == [mcu EXCEPT !.brk = f]
  <2>1. Alike(mcu, n)
    BY <1>1, BreakAlike
  <2> HIDE DEF n
  <2>2. n.left = mcu.left /\ n.sleep = mcu.sleep /\ (Late(n) <=> Late(mcu))
        /\ (Dozes(n) <=> Dozes(mcu))
    BY <2>1, AlikeSame DEF Alike
  <2>3. mcu' = n
    BY <1>3 DEF n
  <2>4. QED
    BY <1>2, <1>3, <2>2, <2>3 DEF DeadlineInv
<1>4. CASE \E a \in Slices : Execute(a)
  BY <1>3, <1>4 DEF Execute
<1>5. CASE HostRead
  <2> DEFINE n == ReadTCNT0(mcu)
  <2>1. mcu' = n /\ loop' = "host" /\ UNCHANGED <<target, stale>>
    BY <1>5 DEF HostRead
  <2>2. /\ Frame(mcu, n) /\ n.tov = mcu.tov /\ (Div(mcu) # 0 => Ahead(n))
        /\ (Ahead(mcu) \/ Div(mcu) = 0 => NextOverflow(n) = NextOverflow(mcu))
    BY <1>1, ReadKeeps
  <2>3. Good(n) /\ n.total = mcu.total /\ n.sleep = mcu.sleep
    BY <1>1, ReadTCNT0Accesses DEF Same
  <2> HIDE DEF n
  <2>4. Div(n) = Div(mcu) /\ (Ticks(n) <=> Ticks(mcu)) /\ (Deliverable(n) <=> Deliverable(mcu))
    <3>1. Div(n) = Div(mcu)
      BY <2>2 DEF Frame, Div
    <3>2. QED
      BY <2>2, <3>1, Zenon DEF Frame, Ticks, Deliverable
  <2>5. ASSUME Ticks(n) PROVE Ahead(n)
    <3>1. Div(mcu) # 0
      BY <1>1, <2>4, <2>5, TicksDivide DEF Ticks
    <3>2. QED
      BY <2>2, <3>1
  <2>6. Late(n)
    BY <2>3, <2>5, OverflowBounds DEF Late, Ahead, Overshoot, Good, Machine
  <2>7. ASSUME n.sleep PROVE Dozes(n)
    <3>1. Dozes(mcu)
      BY <1>2, <2>3, <2>7 DEF DeadlineInv
    <3>2. n.presc # 0 => ~Deliverable(n)
      BY <2>2, <2>4, <3>1, Zenon DEF Frame, Dozes
    <3>3. ASSUME n.toie, Ticks(n), n.left > 0
          PROVE  n.total + n.left = NextOverflow(n)
      BY <2>2, <2>3, <2>4, <3>1, <3>3, Zenon DEF Frame, Dozes
    <3>4. ASSUME n.toie, n.presc = 0, n.left > 0
          PROVE  (n.total + n.left - NextOverflow(n)) % Word = 0
      <4>1. Div(mcu) = 0
        BY <2>2, <3>4, PrescAssumption DEF Div, Frame
      <4>2. QED
        BY <2>2, <2>3, <3>1, <3>4, <4>1, Zenon DEF Frame, Dozes
    <3>5. QED
      BY <2>5, <3>2, <3>3, <3>4, Zenon DEF Dozes
  <2>8. n.left = mcu.left
    BY <2>2 DEF Frame
  <2>9. QED
    BY <1>2, <2>1, <2>3, <2>6, <2>7, <2>8 DEF DeadlineInv
<1>6. CASE HostHalt
  BY <1>2, <1>3, <1>6 DEF HostHalt, DeadlineInv
<1>7. CASE HostContinue
  BY <1>7 DEF HostContinue, DeadlineInv
<1>8. CASE HostReset
  <2>1. mcu' = [ResetState EXCEPT !.count = mcu.count]
    BY <1>8 DEF HostReset
  <2>2. mcu'.toie = FALSE /\ mcu'.sleep = FALSE /\ mcu'.left = 0
    BY <2>1 DEF ResetState
  <2>3. loop' = loop /\ target' = 0 /\ stale' = stale
    BY <1>8 DEF HostReset
  <2>4. 0 <= MaxTotal
    BY BoundAssumption
  <2>5. QED
    BY <1>2, <2>2, <2>3, <2>4 DEF DeadlineInv, Late
<1>9. QED
  BY <1>4, <1>5, <1>6, <1>7, <1>8 DEF Host

LEMMA InitDeadline == Init => DeadlineInv
<1> SUFFICES ASSUME Init PROVE DeadlineInv
  OBVIOUS
<1>1. /\ mcu.toie = FALSE /\ mcu.sleep = FALSE /\ mcu.left = 0
      /\ target = 0 /\ loop = "host" /\ stale = FALSE
  BY DEF Init, ResetState
<1>2. 0 <= MaxTotal
  BY BoundAssumption
<1>3. QED
  BY <1>1, <1>2 DEF DeadlineInv, Late

(* DeadlineInv is inductive relative to IInv. *)
LEMMA NextDeadline == IInv /\ DeadlineInv /\ [Next]_vars => DeadlineInv'
<1>1. ASSUME IInv, DeadlineInv, Emulate PROVE DeadlineInv'
  BY <1>1, LoopDeadline, InstructionDeadline DEF Emulate
<1>2. ASSUME IInv, DeadlineInv, Host PROVE DeadlineInv'
  BY <1>2, HostDeadline
<1>3. ASSUME DeadlineInv, UNCHANGED vars PROVE DeadlineInv'
  BY <1>3 DEF vars, DeadlineInv
<1>4. QED
  BY <1>1, <1>2, <1>3 DEF Next

(* Besides keeping its budget, the loop always has a deadline that no      *)
(* overflow it must notice can pass, and a timer brought up to date        *)
(* wherever it may fall asleep.                                            *)
THEOREM Deadline == Spec => [](IInv /\ DeadlineInv)
BY InitIInv, NextIInv, InitDeadline, NextDeadline, PTL DEF Spec

(* No program, with any prescaler table, makes an instruction of the inner *)
(* loop start past an overflow that is still to be recorded.               *)
THEOREM NothingFetchedPastOverflow == Spec => []NoFetchPastOverflow
<1>1. ASSUME IInv, DeadlineInv PROVE NoFetchPastOverflow
  <2>1. SUFFICES ASSUME loop = "inner", CanFetch, mcu.toie, ~stale
                 PROVE  mcu.tcnt + Elapsed(mcu) \div Div(mcu) < Byte
    BY DEF NoFetchPastOverflow
  <2>2. Good(mcu) /\ mcu.total \in Nat /\ currTarget \in Nat
    BY <1>1, MachineGood DEF IInv, TypeOK, Machine
  <2>3. /\ mcu.total < currTarget /\ currTarget <= NextOverflow(mcu)
        /\ mcu.presc > 1
    BY <1>1, <2>1, <2>2 DEF CanFetch, InSlice, DeadlineInv
  <2>4. Ahead(mcu)
    BY <2>2, <2>3, OverflowBounds DEF Ahead
  <2>5. Div(mcu) # 0
    <3>1. mcu.presc \in Prescs /\ mcu.presc \in Nat
      BY <2>2, PrescAssumption DEF Good, Machine
    <3>2. mcu.presc # 0
      BY <2>3, <3>1
    <3>3. QED
      BY <3>1, <3>2, PrescAssumption, Zenon DEF Div
  <2>6. QED
    BY <2>2, <2>4, <2>5, AheadFits
<1>2. QED
  BY <1>1, Deadline, PTL

(* An enabled overflow is recorded at most Overshoot cycles late, wherever *)
(* the loop or the host stands.                                            *)
THEOREM LatenessBounded == Spec => []BoundedLateness
<1>1. ASSUME IInv, DeadlineInv PROVE BoundedLateness
  BY <1>1, Zenon DEF DeadlineInv, Late, Ticks, BoundedLateness
<1>2. QED
  BY <1>1, Deadline, PTL

(* A sleep over several slices ends at the overflow, whatever the host     *)
(* reads in between.                                                       *)
THEOREM SleepEnds == Spec => []SleepEndsAtOverflow
<1>1. ASSUME IInv, DeadlineInv PROVE SleepEndsAtOverflow
  <2>1. SUFFICES ASSUME mcu.sleep, mcu.left > 0, mcu.toie, ~mcu.prtim,
                        mcu.presc # 0 => Div(mcu) % Byte # 0
                 PROVE  (mcu.total + mcu.left - NextOverflow(mcu)) % Word = 0
    BY DEF SleepEndsAtOverflow
  <2>2. Good(mcu) /\ mcu.left \in Nat /\ mcu.total \in Nat
    BY <1>1, MachineGood DEF IInv, TypeOK, Machine
  <2>3. loop # "inner"
    BY <1>1, <2>1, <2>2 DEF DeadlineInv
  <2>4. Dozes(mcu)
    BY <1>1, <2>1, <2>3 DEF DeadlineInv
  <2>5. CASE mcu.presc = 0
    BY <2>1, <2>4, <2>5 DEF Dozes
  <2>6. CASE mcu.presc # 0
    <3>1. mcu.total + mcu.left = NextOverflow(mcu)
      BY <2>1, <2>4, <2>6 DEF Dozes, Ticks
    <3>2. mcu.total + mcu.left - NextOverflow(mcu) = 0
      BY <2>2, <3>1
    <3>3. 0 % Word = 0
      BY ConstantFacts
    <3>4. QED
      BY <3>2, <3>3
  <2>7. QED
    BY <2>5, <2>6
<1>2. QED
  BY <1>1, Deadline, PTL

(* With a running timer the loop never sleeps on over an interrupt that    *)
(* could be taken.                                                         *)
THEOREM WakeupsTaken == Spec => []NoMissedWakeup
<1>1. ASSUME DeadlineInv PROVE NoMissedWakeup
  BY <1>1 DEF DeadlineInv, Dozes, NoMissedWakeup
<1>2. QED
  BY <1>1, Deadline, PTL

-----------------------------------------------------------------------------
(* The lazily updated timer implements the one that counts every cycle.    *)
(* The mapping of ExecLoopRefinement, followed through the helpers: each   *)
(* of them lets cycles pass (AbsAdvance), brings TCNT0 up to date without  *)
(* changing what the program could see (CountRuns), takes the interrupt    *)
(* (CheckRuns) or selects a clock (SelectRuns).                            *)

(* The programs the refinement is about: every clock they select is        *)
(* stopped or goes through a prescaler that fits a uint8_t, and they leave *)
(* TCNT0, TIFR0 and PRR0 alone (what those accesses do to the count is not *)
(* what Timer0Eager promises).                                             *)
SlowProgram ==
  /\ \A p \in Prescs : p # 1 /\ PrescDiv[p] < Byte
  /\ Ops \cap {"prr", "tcntRead", "tcntWrite", "tifr"} = {}
  /\ "read" \notin HostOps

(* The mapping, as a function of the machine. *)
Pending(m) == IF Div(m) = 0 THEN 0 ELSE Elapsed(m) \div Div(m)
Abs(m) ==
  [ presc |-> m.presc,
    sub   |-> IF Div(m) = 0 THEN 0 ELSE Elapsed(m) % Div(m),
    cnt   |-> (m.tcnt + Pending(m)) % Byte,
    flag  |-> m.tov \/ m.tcnt + Pending(m) >= Byte,
    taken |-> m.count ]

LEMMA AbsMapping == EagerTimer = Abs(mcu) /\ EagerTimer' = Abs(mcu')
BY DEF EagerTimer, PendingTicks, Abs, Pending, Elapsed, Div

(* Fields that decide what the eager timer looks like. *)
Tells(m, n) ==
  /\ n.presc = m.presc /\ n.last = m.last /\ n.tcnt = m.tcnt /\ n.tov = m.tov
  /\ n.count = m.count

LEMMA TellsAbs ==
  ASSUME NEW m, NEW n, Tells(m, n), n.total = m.total
  PROVE  Abs(n) = Abs(m)
BY DEF Tells, Abs, Pending, Elapsed, Div

(* Cycles that go by unseen are the cycles the eager timer counts. *)
LEMMA AbsAdvance ==
  ASSUME NEW m, Good(m), NEW c \in Nat, NEW n, Tells(m, n), n.total = m.total + c
  PROVE  Abs(n) = Eager!Advance(Abs(m), c)
<1> DEFINE d == Div(m)
           e == Elapsed(m)
           later == e + c
<1>1. d \in Nat /\ e \in Nat /\ m.tcnt \in 0..(Byte - 1) /\ m.tov \in BOOLEAN
      /\ Byte \in Nat \ {0} /\ m.total \in Nat /\ m.last \in Nat /\ e = m.total - m.last
  BY DivType, ConstantFacts DEF Good, Machine, Elapsed
<1>2. Div(n) = d /\ Elapsed(n) = later /\ PrescDiv[Abs(m).presc] = d
  BY <1>1 DEF Tells, Div, Elapsed, Abs
<1>3. CASE d = 0
  <2>1. Abs(n) = Abs(m)
    BY <1>2, <1>3 DEF Abs, Pending, Tells
  <2>2. QED
    BY <1>2, <1>3, <2>1 DEF Eager!Advance
<1>4. CASE d # 0
  <2> DEFINE now   == Rest(e, d) + c
             first == Whole(e, d)
             ticks == Whole(now, d)
             all   == Whole(later, d)
  <2>1. d \in Nat \ {0} /\ e \in Int /\ c \in Int /\ m.tcnt \in Int /\ later \in Int
        /\ later \in Nat
    BY <1>1, <1>4
  <2>2. /\ Moved(m.tcnt, all, Byte) = Moved(Moved(m.tcnt, first, Byte), ticks, Byte)
        /\ Rest(later, d) = Rest(now, d)
    <3> HIDE DEF d, e, first, ticks, all
    <3>1. QED
      BY <1>1, <2>1, CountLater DEF first, ticks, all
  <2>3. all = first + ticks
    <3>1. (e + c) \div d = (e \div d) + (((e % d) + c) \div d)
      <4> HIDE DEF d, e
      <4>1. QED
        BY <2>1, AddFraction
    <3>2. QED
      BY <3>1 DEF Whole, Rest
  <2>4. first \in Nat /\ all \in Nat /\ now \in Nat /\ ticks \in Nat
    <3>1. Rest(e, d) \in Nat
      <4> HIDE DEF d, e
      <4>1. QED
        BY <2>1, DivisionParts DEF Rest
    <3>2. now \in Nat
      BY <3>1
    <3> HIDE DEF now, d, e, later
    <3>3. QED
      BY <1>1, <2>1, <3>2, WholeTicks DEF Whole
  <2>5. /\ Abs(m).cnt = Moved(m.tcnt, first, Byte)
        /\ Abs(m).sub = Rest(e, d) /\ Abs(m).presc = m.presc
        /\ Abs(m).flag = (m.tov \/ m.tcnt + first >= Byte)
        /\ Abs(m).taken = m.count
    BY <1>4 DEF Abs, Pending, Moved, Whole, Rest
  <2>6. Abs(n) = [ presc |-> m.presc, sub |-> Rest(later, d),
                   cnt |-> Moved(m.tcnt, all, Byte),
                   flag |-> m.tov \/ m.tcnt + all >= Byte,
                   taken |-> m.count ]
    BY <1>2, <1>4 DEF Abs, Pending, Moved, Whole, Rest, Tells
  <2>7. Eager!Advance(Abs(m), c)
          = [Abs(m) EXCEPT !.sub  = Rest(now, d),
                           !.cnt  = Moved(Abs(m).cnt, ticks, Byte),
                           !.flag = Abs(m).flag \/ Abs(m).cnt + ticks >= Byte]
    BY <1>2, <1>4, <2>5 DEF Eager!Advance, Moved, Whole, Rest
  <2>8. (m.tov \/ m.tcnt + all >= Byte)
           = (Abs(m).flag \/ Abs(m).cnt + ticks >= Byte)
    <3> HIDE DEF first, ticks, all
    <3>1. CASE m.tcnt + first >= Byte
      <4>1. Abs(m).flag = TRUE
        BY <2>5, <3>1
      <4>2. m.tcnt + all >= Byte
        BY <1>1, <2>3, <2>4, <3>1
      <4>3. QED
        BY <4>1, <4>2
    <3>2. CASE m.tcnt + first < Byte
      <4>1. m.tcnt + first \in 0..(Byte - 1)
        BY <1>1, <2>4, <3>2
      <4>2. Abs(m).cnt = m.tcnt + first
        BY <1>1, <2>5, <4>1, SmallDivision DEF Moved
      <4>3. QED
        BY <1>1, <2>3, <2>4, <2>5, <3>2, <4>2
    <3>3. QED
      BY <1>1, <2>4, <3>1, <3>2
  <2>9. QED
    <3> HIDE DEF first, ticks, all, now, later, d
    <3>1. Abs(m) = [ presc |-> Abs(m).presc, sub |-> Abs(m).sub, cnt |-> Abs(m).cnt,
                     flag |-> Abs(m).flag, taken |-> Abs(m).taken ]
      BY DEF Abs
    <3>2. QED
      BY <2>2, <2>5, <2>6, <2>7, <2>8, <3>1
<1>5. QED
  BY <1>3, <1>4

(* Looking for interrupts with no tick pending: the eager timer's          *)
(* interrupt is taken or not, and the wake-up takes its cycles.            *)
LEMMA CheckRuns ==
  ASSUME NEW x, Good(x), Pending(x) = 0
  PROVE  \E t \in Eager!MayTake(Abs(x)), c \in {0, WakeCycles} :
           /\ CheckForIntr(x).total = x.total + c
           /\ Abs(CheckForIntr(x)) = Eager!Advance(t, c)
           /\ ~x.sleep => c = 0 /\ Pending(CheckForIntr(x)) = 0
                          /\ Abs(CheckForIntr(x)) = t
<1> DEFINE n == CheckForIntr(x)
<1>1. x \in Machine /\ x.total \in Nat /\ x.tcnt \in 0..(Byte - 1) /\ x.count \in 0..1
      /\ Byte \in Nat
  BY ConstantFacts DEF Good, Machine
<1>2. CASE ~Deliverable(x)
  <2>1. n = x
    BY <1>2 DEF CheckForIntr
  <2>2. Abs(x) = Eager!Advance(Abs(x), 0)
    <3>1. x.total = x.total + 0
      BY <1>1
    <3>2. QED
      BY <3>1, AbsAdvance DEF Tells
  <2>3. Abs(x) \in Eager!MayTake(Abs(x))
    BY DEF Eager!MayTake
  <2>4. x.total = x.total + 0
    BY <1>1
  <2>5. QED
    BY <2>1, <2>2, <2>3, <2>4
<1>3. CASE Deliverable(x)
  <2> DEFINE y == [x EXCEPT !.tov = FALSE, !.count = 1 - @]
             t == [Abs(x) EXCEPT !.flag = FALSE, !.taken = 1 - @]
             c == IF x.sleep THEN WakeCycles ELSE 0
  <2>1. /\ Good(y) /\ y.total = x.total /\ y.tov = FALSE /\ y.count = 1 - x.count
        /\ y.presc = x.presc /\ y.last = x.last /\ y.tcnt = x.tcnt
    <3>1. 1 - x.count \in 0..1
      BY <1>1
    <3>2. QED
      BY <1>1, <3>1 DEF Good, Machine
  <2>2. n = DirectExecuteInterrupt([x EXCEPT !.tov = FALSE])
    BY <1>3 DEF CheckForIntr
  <2>3. n.total = x.total + c /\ n.presc = x.presc /\ n.last = x.last
        /\ n.tcnt = x.tcnt /\ n.tov = FALSE /\ n.count = 1 - x.count
    BY <1>1, <2>2 DEF DirectExecuteInterrupt, Machine
  <2> HIDE DEF n, y
  <2>4. Abs(x).flag = TRUE /\ t \in Eager!MayTake(Abs(x))
    BY <1>3 DEF Eager!MayTake, Abs, Deliverable
  <2>5. Abs(y) = t
    <3>1. Pending(y) = Pending(x) /\ Div(y) = Div(x) /\ Elapsed(y) = Elapsed(x)
      BY <2>1 DEF Pending, Div, Elapsed
    <3> DEFINE sub == IF Div(x) = 0 THEN 0 ELSE Elapsed(x) % Div(x)
               cnt == (x.tcnt + 0) % Byte
               flag == x.tov \/ x.tcnt + 0 >= Byte
    <3>2. ~(x.tcnt + 0 >= Byte)
      BY <1>1
    <3>3. Abs(y) = [ presc |-> x.presc, sub |-> sub, cnt |-> cnt,
                     flag |-> y.tov \/ x.tcnt + 0 >= Byte, taken |-> 1 - x.count ]
      BY <2>1, <3>1, Zenon DEF Abs
    <3>4. Abs(x) = [ presc |-> x.presc, sub |-> sub, cnt |-> cnt,
                     flag |-> flag, taken |-> x.count ]
      BY DEF Abs
    <3> HIDE DEF sub, cnt, flag
    <3>5. (y.tov \/ x.tcnt + 0 >= Byte) = FALSE
      BY <2>1, <3>2
    <3>6. Abs(y) = [ presc |-> x.presc, sub |-> sub, cnt |-> cnt,
                     flag |-> FALSE, taken |-> 1 - x.count ]
      BY <3>3, <3>5, Zenon
    <3>7. t = [ presc |-> x.presc, sub |-> sub, cnt |-> cnt,
                flag |-> FALSE, taken |-> 1 - x.count ]
      <4> DEFINE k == x.count
                 p == x.presc
                 a == Abs(x)
      <4>1. k \in Int /\ t = [a EXCEPT !.flag = FALSE, !.taken = 1 - @]
            /\ a = [presc |-> p, sub |-> sub, cnt |-> cnt, flag |-> flag, taken |-> k]
        BY <1>1, <3>4
      <4> HIDE DEF k, p, a, t
      <4>2. t = [presc |-> p, sub |-> sub, cnt |-> cnt, flag |-> FALSE, taken |-> 1 - k]
        BY <4>1
      <4>3. QED
        BY <4>2 DEF k, p
    <3>8. QED
      BY <3>6, <3>7, Zenon
  <2>6. c \in Nat /\ c \in {0, WakeCycles}
    BY DEF WakeCycles
  <2>7. Abs(n) = Eager!Advance(Abs(y), c)
    <3>1. Tells(y, n) /\ n.total = y.total + c
      BY <2>1, <2>3 DEF Tells
    <3> HIDE DEF c
    <3>2. QED
      BY <2>1, <2>6, <3>1, AbsAdvance
  <2>8. ASSUME ~x.sleep PROVE c = 0 /\ Pending(n) = 0 /\ Abs(n) = t
    <3>1. c = 0 /\ n.total = x.total
      BY <1>1, <2>3, <2>8
    <3>2. Pending(n) = Pending(x)
      BY <2>3, <3>1 DEF Pending, Div, Elapsed
    <3>3. Abs(n) = Abs(y)
      BY <2>1, <2>3, <3>1, TellsAbs DEF Tells
    <3>4. QED
      BY <2>5, <3>1, <3>2, <3>3, Zenon
  <2> HIDE DEF c, t
  <2>9. QED
    BY <2>3, <2>4, <2>5, <2>6, <2>7, <2>8 DEF n
<1>4. QED
  BY <1>2, <1>3

(* Bringing TCNT0 up to date changes nothing for the eager timer. *)
Counted(m) ==
  LET add  == Elapsed(m) \div Div(m)
      next == (m.tcnt + add) % Byte
  IN MarkTimer0Update([m EXCEPT !.tcnt = next,
                                !.tov  = @ \/ next < m.tcnt \/ add >= Byte])

LEMMA CountRuns ==
  ASSUME NEW m, Good(m), Div(m) # 0
  PROVE  Abs(Counted(m)) = Abs(m) /\ Pending(Counted(m)) = 0
<1> DEFINE q    == Elapsed(m) \div Div(m)
           next == (m.tcnt + q) % Byte
           flag == m.tov \/ next < m.tcnt \/ q >= Byte
           n    == MarkTimer0Update([m EXCEPT !.tcnt = next, !.tov = flag])
<1>0. n = Counted(m) /\ q = Elapsed(m) \div Div(m) /\ next = (m.tcnt + q) % Byte
      /\ flag = (m.tov \/ next < m.tcnt \/ q >= Byte)
      /\ n = MarkTimer0Update([m EXCEPT !.tcnt = next, !.tov = flag])
  BY DEF Counted, Good, Machine
<1> HIDE DEF q, next, flag, n
<1> DEFINE d == Div(m)
           e == Elapsed(m)
           r == e % d
           w == [m EXCEPT !.tcnt = next, !.tov = flag]
<1>1. d \in Nat \ {0} /\ e \in Nat /\ m.tcnt \in 0..(Byte - 1) /\ m.tov \in BOOLEAN
      /\ Byte \in Nat \ {0} /\ m.total \in Nat /\ m.last \in Nat /\ e = m.total - m.last
  BY DivType, ConstantFacts DEF Good, Machine, Elapsed
<1>2. q \in Nat /\ q * d \in Nat /\ r \in 0..(d - 1) /\ e = q * d + r
  <2>1. q = e \div d
    BY <1>0
  <2> HIDE DEF d, e
  <2>2. e \div d \in Nat /\ (e \div d) * d \in Nat
    BY <1>1, WholeTicks
  <2>3. e = d * (e \div d) + (e % d) /\ e % d \in 0..(d - 1)
    <3>1. e \in Int /\ d \in Nat \ {0}
      BY <1>1
    <3>2. QED
      BY <3>1, DivisionParts, Zenon
  <2> HIDE DEF r
  <2>4. QED
    BY <1>1, <2>1, <2>2, <2>3 DEF r
<1>3. next \in 0..(Byte - 1) /\ flag \in BOOLEAN
  <2> HIDE DEF d, e, r
  <2>1. m.tcnt \in Int /\ q \in Int /\ Byte \in Nat /\ Byte > 0
    BY <1>1, <1>2
  <2>2. m.tcnt + q \in Int
    BY <2>1
  <2>3. next \in 0..(Byte - 1)
    BY <2>1, <2>2, <1>0, Wraps
  <2>4. flag \in BOOLEAN
    BY <1>0
  <2>5. QED
    BY <2>3, <2>4
<1>4. Good(w) /\ Div(w) = d /\ Elapsed(w) = e
  BY <1>3 DEF Good, Machine, Div, Elapsed
<1>5. n.last = m.last + q * d /\ n.total = m.total /\ n.tcnt = next /\ n.tov = flag
      /\ n.presc = m.presc /\ n.count = m.count
  <2>1. n = [w EXCEPT !.last = @ + q * d]
    BY <1>0, <1>1, <1>4 DEF MarkTimer0Update
  <2>2. QED
    BY <2>1 DEF Good, Machine
<1>6. Div(n) = d /\ Elapsed(n) = r
  <2>1. Div(n) = d
    BY <1>5 DEF Div
  <2> HIDE DEF d, e, r, w
  <2>2. n.total - n.last = r
    BY <1>1, <1>2, <1>5
  <2>3. QED
    BY <2>1, <2>2 DEF Elapsed
<1>7. r \div d = 0 /\ r % d = r
  <2> HIDE DEF d, r
  <2>1. QED
    BY <1>1, <1>2, SmallDivision
<1>8. Pending(n) = 0 /\ (next + 0) % Byte = next
  <2>1. next + 0 = next
    BY <1>3
  <2>2. QED
    BY <1>1, <1>3, <1>6, <1>7, <2>1, SmallDivision DEF Pending
<1>9. (flag \/ next + 0 >= Byte) = (m.tov \/ m.tcnt + q >= Byte)
  <2> HIDE DEF d, e, r, w
  <2>1. ~(next + 0 >= Byte)
    BY <1>1, <1>3
  <2>2. CASE m.tcnt + q < Byte
    <3>1. m.tcnt + q \in 0..(Byte - 1)
      BY <1>1, <1>2, <2>2
    <3>2. next = m.tcnt + q
      BY <1>0, <1>1, <3>1, SmallDivision
    <3>3. ~(next < m.tcnt) /\ ~(q >= Byte) /\ ~(m.tcnt + q >= Byte)
      BY <1>1, <1>2, <2>2, <3>2
    <3>4. QED
      BY <1>0, <2>1, <3>3
  <2>3. CASE m.tcnt + q >= Byte /\ q < Byte
    <3>1. (m.tcnt + q) - Byte * 1 \in 0..(Byte - 1) /\ m.tcnt + q \in Int
          /\ (m.tcnt + q) - Byte * 1 < m.tcnt
      BY <1>1, <1>2, <2>3
    <3> DEFINE one == 1
               s == m.tcnt + q
    <3>2. one \in Int
      OBVIOUS
    <3> HIDE DEF one, s
    <3>3. (s - Byte * one) % Byte = s % Byte
      BY <1>1, <3>1, <3>2, LessMultiple, Zenon DEF s
    <3>4. (s - Byte * one) % Byte = s - Byte * one
      <4>1. s - Byte * one \in 0..(Byte - 1)
        BY <3>1 DEF one, s
      <4>2. QED
        BY <1>1, <4>1, SmallDivision, Zenon
    <3>5. next = s - Byte * one
      BY <1>0, <3>3, <3>4 DEF s
    <3>6. next < m.tcnt
      BY <3>1, <3>5 DEF one, s
    <3>7. QED
      BY <1>0, <2>3, <3>6
  <2>4. CASE q >= Byte
    <3>1. flag = TRUE
      BY <1>0, <2>4
    <3>2. m.tcnt + q >= Byte
      BY <1>1, <1>2, <2>4
    <3>3. QED
      BY <3>1, <3>2
  <2>5. m.tcnt + q \in Nat /\ q \in Nat /\ Byte \in Nat
    BY <1>1, <1>2
  <2>6. m.tcnt + q < Byte \/ (m.tcnt + q >= Byte /\ q < Byte) \/ q >= Byte
    BY <2>5
  <2>7. QED
    BY <2>2, <2>3, <2>4, <2>6, Zenon
<1>10. Abs(n) = Abs(m)
  <2>1. Pending(m) = q
    BY <1>0, <1>1 DEF Pending
  <2> HIDE DEF d, e, r, w
  <2>2. Abs(n) = [ presc |-> m.presc, sub |-> r, cnt |-> next,
                   flag |-> m.tov \/ m.tcnt + q >= Byte, taken |-> m.count ]
    BY <1>1, <1>5, <1>6, <1>7, <1>8, <1>9 DEF Abs
  <2>3. Abs(m) = [ presc |-> m.presc, sub |-> r, cnt |-> next,
                   flag |-> m.tov \/ m.tcnt + q >= Byte, taken |-> m.count ]
    BY <1>0, <1>1, <2>1 DEF Abs, d, e, r
  <2>4. QED
    BY <2>2, <2>3
<1>11. QED
  BY <1>0, <1>8, <1>10

(* updateTimers, for a divisor that fits: no tick is lost or counted twice *)
(* and the interrupt is taken or not.                                      *)
LEMMA UpdateRuns ==
  ASSUME NEW m, Good(m), ~m.prtim, Div(m) < Byte
  PROVE  \E t \in Eager!MayTake(Abs(m)), c \in {0, WakeCycles} :
           /\ UpdateTimers(m).total = m.total + c
           /\ Abs(UpdateTimers(m)) = Eager!Advance(t, c)
           /\ ~m.sleep => c = 0 /\ Pending(UpdateTimers(m)) = 0
                          /\ Abs(UpdateTimers(m)) = t
<1> DEFINE div  == Div(m) % Byte
           add  == Elapsed(m) \div div
           next == (m.tcnt + add) % Byte
           flag == m.tov \/ next < m.tcnt \/ add >= Byte
           w    == [m EXCEPT !.tcnt = next, !.tov = flag]
           x    == IF ~m.prtim /\ div # 0 /\ Elapsed(m) >= div
                   THEN MarkTimer0Update(w)
                   ELSE m
<1>1. Div(m) \in Nat /\ Elapsed(m) \in Nat /\ m.total \in Nat
  BY DivType DEF Elapsed, Good, Machine
<1>2. div = Div(m)
  <2> DEFINE d == Div(m)
  <2>1. d \in 0..(Byte - 1) /\ Byte \in Nat \ {0}
    BY <1>1, ConstantFacts
  <2> HIDE DEF d
  <2>2. d % Byte = d
    BY <2>1, SmallDivision
  <2>3. QED
    BY <2>2 DEF d
<1> HIDE DEF div
<1>3. Abs(x) = Abs(m) /\ Pending(x) = 0 /\ Good(x) /\ x.total = m.total /\ x.sleep = m.sleep
  <2>1. CASE ~m.prtim /\ div # 0 /\ Elapsed(m) >= div
    <3>1. Div(m) # 0 /\ add = Elapsed(m) \div Div(m)
      BY <1>2, <2>1
    <3>2. next \in 0..(Byte - 1) /\ flag \in BOOLEAN
      <4>1. add \in Nat
        BY <1>1, <1>2, <2>1, WholeTicks
      <4>2. m.tcnt + add \in Int
        BY <4>1 DEF Good, Machine
      <4>3. next \in 0..(Byte - 1)
        <5> HIDE DEF add
        <5>1. QED
          BY <4>2, ConstantFacts, Wraps
      <4>4. QED
        BY <4>3
    <3> HIDE DEF add
    <3>3. x = Counted(m)
      BY <2>1, <3>1 DEF Counted
    <3>4. x = MarkTimer0Update([m EXCEPT !.tcnt = next, !.tov = flag])
      BY <2>1
    <3> HIDE DEF x, next, flag
    <3>5. Abs(x) = Abs(m) /\ Pending(x) = 0
      BY <3>1, <3>3, CountRuns
    <3>6. Same(m, x)
      BY <3>2, <3>4, CountSame
    <3>7. QED
      BY <3>5, <3>6 DEF Same
  <2>2. CASE ~(~m.prtim /\ div # 0 /\ Elapsed(m) >= div)
    <3>1. x = m
      BY <2>2
    <3>2. ASSUME Div(m) # 0 PROVE Elapsed(m) \div Div(m) = 0
      <4> DEFINE d == Div(m)
                 e == Elapsed(m)
      <4>1. d \in Nat \ {0} /\ e \in 0..(d - 1)
        BY <1>1, <1>2, <2>2, <3>2
      <4> HIDE DEF d, e
      <4>2. e \div d = 0
        BY <4>1, SmallDivision
      <4>3. QED
        BY <4>2 DEF d, e
    <3>3. Pending(m) = 0
      BY <3>2 DEF Pending
    <3>4. QED
      BY <3>1, <3>3
  <2> HIDE DEF x
  <2>3. QED
    BY <2>1, <2>2
<1>4. UpdateTimers(m) = CheckForIntr(x)
  BY DEF UpdateTimers, div
<1> HIDE DEF x
<1>5. \E t \in Eager!MayTake(Abs(x)), c \in {0, WakeCycles} :
        /\ CheckForIntr(x).total = x.total + c
        /\ Abs(CheckForIntr(x)) = Eager!Advance(t, c)
        /\ ~x.sleep => c = 0 /\ Pending(CheckForIntr(x)) = 0
                       /\ Abs(CheckForIntr(x)) = t
  BY <1>3, CheckRuns
<1>6. QED
  BY <1>3, <1>4, <1>5, Zenon

(* A step of the eager timer, put together. *)
LEMMA RunStep ==
  ASSUME IInv, NEW before \in Nat, NEW after \in Nat, NEW p \in Prescs,
         NEW t \in Eager!MayTake(Eager!Advance(Abs(mcu), before)),
         Abs(mcu') = Eager!Advance(Eager!Select(t, p), after),
         mcu'.total = mcu.total + before + after
  PROVE  Eager!Next
<1>1. mcu.total \in Nat
  BY DEF IInv, TypeOK, Machine
<1>2. before \in 0..(mcu'.total - mcu.total)
      /\ mcu'.total - mcu.total - before = after
  BY <1>1
<1>3. Eager!Run(before, after)
  BY AbsMapping DEF Eager!Run
<1>4. Eager!Run(before, mcu'.total - mcu.total - before)
  BY <1>2, <1>3
<1>5. QED
  BY <1>2, <1>4 DEF Eager!Next

(* No cycles, no change; and so every eager timer may take no interrupt    *)
(* and keep its clock.                                                     *)
LEMMA NoCycles ==
  ASSUME NEW m, Good(m)
  PROVE  /\ Eager!Advance(Abs(m), 0) = Abs(m) /\ Abs(m) \in Eager!MayTake(Abs(m))
         /\ Eager!Select(Abs(m), m.presc) = Abs(m)
<1>1. m.total = m.total + 0
  BY DEF Good, Machine
<1>2. Eager!Advance(Abs(m), 0) = Abs(m)
  BY <1>1, AbsAdvance DEF Tells
<1>3. Abs(m).presc = m.presc
  BY DEF Abs
<1>4. QED
  BY <1>2, <1>3 DEF Eager!MayTake, Eager!Select

(* The interrupt leaves the clock select alone. *)
LEMMA TakenSelect ==
  ASSUME NEW m, NEW t \in Eager!MayTake(Abs(m))
  PROVE  t.presc = m.presc /\ Eager!Select(t, m.presc) = t
<1> DEFINE a == Abs(m)
<1>1. a.presc = m.presc /\ "presc" \in DOMAIN a
  BY DEF Abs
<1> HIDE DEF a
<1>2. t.presc = a.presc
  BY <1>1 DEF Eager!MayTake, a
<1>3. QED
  BY <1>1, <1>2 DEF Eager!Select

(* Cycles pass, and nothing else the eager timer knows of happens. *)
LEMMA TimePasses ==
  ASSUME IInv, NEW c \in Nat, Tells(mcu, mcu'), mcu'.total = mcu.total + c
  PROVE  Eager!Next
<1>1. Good(mcu) /\ mcu.presc \in Prescs /\ mcu.total \in Nat
  BY MachineGood DEF IInv, TypeOK, Machine
<1>2. Abs(mcu') = Eager!Advance(Abs(mcu), c)
  BY <1>1, AbsAdvance
<1>3. mcu'.total = mcu.total + 0 + c
  BY <1>1
<1>4. /\ Eager!Advance(Abs(mcu), 0) = Abs(mcu) /\ Abs(mcu) \in Eager!MayTake(Abs(mcu))
      /\ Eager!Select(Abs(mcu), mcu.presc) = Abs(mcu)
  BY <1>1, NoCycles
<1>5. Abs(mcu) \in Eager!MayTake(Eager!Advance(Abs(mcu), 0))
  BY <1>4
<1>6. Abs(mcu') = Eager!Advance(Eager!Select(Abs(mcu), mcu.presc), c)
  BY <1>2, <1>4
<1>7. 0 \in Nat
  OBVIOUS
<1>8. QED
  BY <1>1, <1>3, <1>5, <1>6, <1>7, RunStep

(* c cycles pass, the timer is brought up to date, and the CPU may wake.   *)
LEMMA TimeThenUpdate ==
  ASSUME IInv, NEW c \in Nat, NEW x, Good(x), Tells(mcu, x), x.total = mcu.total + c,
         ~x.prtim, Div(x) < Byte, Tells(UpdateTimers(x), mcu'),
         mcu'.total = UpdateTimers(x).total
  PROVE  Eager!Next
<1>1. Good(mcu) /\ mcu.presc \in Prescs /\ mcu.total \in Nat
  BY MachineGood DEF IInv, TypeOK, Machine
<1>2. Abs(x) = Eager!Advance(Abs(mcu), c)
  BY <1>1, AbsAdvance
<1>3. PICK t \in Eager!MayTake(Abs(x)), w \in {0, WakeCycles} :
        /\ UpdateTimers(x).total = x.total + w
        /\ Abs(UpdateTimers(x)) = Eager!Advance(t, w)
  BY UpdateRuns
<1>4. Abs(mcu') = Abs(UpdateTimers(x))
  BY TellsAbs
<1>5. Eager!Select(t, mcu.presc) = t
  BY TakenSelect DEF Tells
<1>6. w \in Nat /\ mcu'.total = mcu.total + c + w
  BY <1>1, <1>3 DEF WakeCycles
<1>7. t \in Eager!MayTake(Eager!Advance(Abs(mcu), c))
  BY <1>2
<1>8. Abs(mcu') = Eager!Advance(Eager!Select(t, mcu.presc), w)
  BY <1>3, <1>4, <1>5
<1>9. QED
  BY <1>1, <1>6, <1>7, <1>8, RunStep

(* The clock select: TCNT0 is brought up to date first, and the new clock  *)
(* starts its prescaler at the current cycle.                              *)
LEMMA SelectRuns ==
  ASSUME NEW m, Good(m), ~m.prtim, ~m.sleep, Div(m) < Byte, NEW p \in Prescs, p # m.presc
  PROVE  \E t \in Eager!MayTake(Abs(m)) :
           Abs(SetTCCR0B(m, p)) = Eager!Select(t, p)
<1> DEFINE u == IF m.presc # 0 THEN UpdateTimers(m) ELSE m
           n == [u EXCEPT !.presc = p, !.last = u.total, !.brk = TRUE]
<1>1. SetTCCR0B(m, p) = n
  BY DEF SetTCCR0B
<1>2. PICK t \in Eager!MayTake(Abs(m)) : Abs(u) = t /\ Pending(u) = 0
  <2>1. CASE m.presc # 0
    BY <2>1, UpdateRuns
  <2>2. CASE m.presc = 0
    <3>1. Pending(m) = 0
      BY <2>2, PrescAssumption DEF Pending, Div
    <3>2. QED
      BY <2>2, <3>1, NoCycles
  <2>3. QED
    BY <2>1, <2>2
<1>3. Good(u) /\ u.presc = m.presc
  BY UpdateSettles, UpdateUpToDate DEF Settles, Frame
<1> HIDE DEF u
<1>4. /\ n.presc = p /\ n.last = u.total /\ n.total = u.total /\ n.tcnt = u.tcnt
      /\ n.tov = u.tov /\ n.count = u.count /\ u.total \in Nat
  BY <1>3 DEF Good, Machine
<1> HIDE DEF n
<1>5. Div(n) \in Nat /\ Elapsed(n) = 0
  BY <1>4, PrescAssumption DEF Div, Elapsed
<1>6. Pending(n) = 0 /\ (IF Div(n) = 0 THEN 0 ELSE Elapsed(n) % Div(n)) = 0
  <2> DEFINE d == Div(n)
  <2>1. ASSUME d # 0 PROVE 0 \div d = 0 /\ 0 % d = 0
    <3>1. d \in Nat \ {0} /\ 0 \in 0..(d - 1)
      BY <1>5, <2>1
    <3> HIDE DEF d
    <3>2. QED
      BY <3>1, SmallDivision
  <2>2. QED
    BY <1>5, <2>1 DEF Pending
<1> DEFINE cnt  == (u.tcnt + 0) % Byte
           flag == u.tov \/ u.tcnt + 0 >= Byte
           sub  == IF Div(u) = 0 THEN 0 ELSE Elapsed(u) % Div(u)
           old  == u.presc
           k    == u.count
<1>7. Abs(n) = [presc |-> p, sub |-> 0, cnt |-> cnt, flag |-> flag, taken |-> k]
  BY <1>4, <1>6, Zenon DEF Abs
<1>8. t = [presc |-> old, sub |-> sub, cnt |-> cnt, flag |-> flag, taken |-> k]
  BY <1>2, Zenon DEF Abs
<1>9. old # p
  BY <1>3
<1> HIDE DEF cnt, flag, sub, old, k
<1>10. Eager!Select(t, p) = [presc |-> p, sub |-> 0, cnt |-> cnt, flag |-> flag, taken |-> k]
  <2> DEFINE s == [t EXCEPT !.presc = p, !.sub = 0]
  <2>1. t.presc = old
    BY <1>8
  <2>2. Eager!Select(t, p) = s
    BY <1>9, <2>1 DEF Eager!Select
  <2>3. s = [t EXCEPT !.presc = p, !.sub = 0]
    OBVIOUS
  <2> HIDE DEF s
  <2>4. s = [presc |-> p, sub |-> 0, cnt |-> cnt, flag |-> flag, taken |-> k]
    BY <1>8, <2>3
  <2>5. QED
    BY <2>2, <2>4
<1>11. QED
  BY <1>1, <1>7, <1>10

-----------------------------------------------------------------------------
(* Step by step.  A SlowProgram never sets PRR0, so the timer stays on.    *)

LEMMA LoopRefines ==
  ASSUME SlowProgram, IInv, ~mcu.prtim,
         EndSlice \/ HaltedReturn \/ StartInner \/ EndInner \/ SleepDone \/ SleepOn
  PROVE  Eager!Next /\ ~mcu'.prtim
<1>1. Good(mcu) /\ mcu \in Machine /\ mcu.total \in Nat /\ Div(mcu) < Byte /\ target \in Nat
  BY MachineGood DEF IInv, TypeOK, Good, Machine, SlowProgram, Div
<1>2. CASE EndSlice \/ HaltedReturn \/ StartInner
  <2>1. mcu' = mcu /\ mcu'.total = mcu.total + 0
    BY <1>1, <1>2 DEF EndSlice, HaltedReturn, StartInner
  <2>2. 0 \in Nat
    OBVIOUS
  <2>3. QED
    BY <2>1, <2>2, TimePasses DEF Tells
<1>3. CASE EndInner
  <2> DEFINE x == [mcu EXCEPT !.brk = FALSE]
  <2>1. /\ Good(x) /\ Tells(mcu, x) /\ x.total = mcu.total + 0 /\ ~x.prtim
        /\ Div(x) < Byte
    <3>1. Good(x) /\ Tells(mcu, x) /\ x.total = mcu.total /\ x.prtim = mcu.prtim
          /\ x.presc = mcu.presc
      BY <1>1 DEF Good, Machine, Tells
    <3>2. mcu.total = mcu.total + 0
      BY <1>1
    <3> HIDE DEF x
    <3>3. QED
      BY <1>1, <3>1, <3>2 DEF Div
  <2>2. mcu' = UpdateTimers(x)
    BY <1>3 DEF EndInner
  <2> HIDE DEF x
  <2>3. ~mcu'.prtim
    BY <2>1, <2>2, UpdateUpToDate DEF Frame
  <2>4. Tells(UpdateTimers(x), mcu') /\ mcu'.total = UpdateTimers(x).total
    BY <2>2 DEF Tells
  <2>5. 0 \in Nat
    OBVIOUS
  <2>6. QED
    BY <2>1, <2>3, <2>4, <2>5, TimeThenUpdate
<1>4. CASE SleepDone
  <2> DEFINE x == [mcu EXCEPT !.total = @ + SleepLeft]
             n == UpdateTimers(x)
  <2>1. SleepLeft \in Nat
    BY <1>1, DeadlineType DEF SleepLeft, Machine
  <2>2. /\ Good(x) /\ Tells(mcu, x) /\ x.total = mcu.total + SleepLeft /\ ~x.prtim
        /\ Div(x) < Byte
    <3> DEFINE t == mcu.total + SleepLeft
    <3>1. t \in Nat /\ t >= mcu.last
      BY <1>1, <2>1 DEF Good, Machine
    <3>2. x = [mcu EXCEPT !.total = t]
      BY <1>1 DEF Machine
    <3>3. t = mcu.total + SleepLeft
      OBVIOUS
    <3> HIDE DEF t, x
    <3>4. Good(x) /\ Tells(mcu, x) /\ x.total = t /\ x.prtim = mcu.prtim
          /\ x.presc = mcu.presc
      BY <1>1, <3>1, <3>2 DEF Good, Machine, Tells
    <3>5. QED
      BY <1>1, <3>3, <3>4 DEF Div
  <2>3. mcu' = [n EXCEPT !.left = 0, !.brk = FALSE]
    BY <1>4 DEF SleepDone
  <2> HIDE DEF x
  <2>4. Good(n) /\ ~n.prtim
    BY <2>2, UpdateUpToDate, UpdateSettles DEF Frame, Settles
  <2> HIDE DEF n
  <2>5. Tells(n, mcu') /\ mcu'.total = n.total /\ ~mcu'.prtim
    BY <2>3, <2>4 DEF Tells, Good, Machine
  <2>6. QED
    BY <2>1, <2>2, <2>5, TimeThenUpdate DEF n
<1>5. CASE SleepOn
  <2> DEFINE c == target - mcu.total
  <2>1. c \in Nat /\ mcu.total + c = target
    BY <1>1, <1>5 DEF SleepOn, InSlice
  <2>2. mcu' = [mcu EXCEPT !.left = SleepLeft - (target - mcu.total), !.total = target]
    BY <1>5 DEF SleepOn
  <2>3. Tells(mcu, mcu') /\ mcu'.total = target /\ ~mcu'.prtim
    BY <1>1, <2>2 DEF Tells, Machine
  <2> HIDE DEF c
  <2>4. QED
    BY <2>1, <2>3, TimePasses
<1>6. QED
  BY <1>2, <1>3, <1>4, <1>5

LEMMA HostRefines ==
  ASSUME SlowProgram, IInv, ~mcu.prtim, Host
  PROVE  Eager!Next /\ ~mcu'.prtim
<1>1. Good(mcu) /\ mcu \in Machine /\ mcu.total \in Nat
  BY MachineGood DEF IInv, TypeOK, Machine
<1>2. ASSUME NEW b, mcu' = [mcu EXCEPT !.brk = b] \/ mcu' = mcu
      PROVE  Eager!Next /\ ~mcu'.prtim
  <2>1. Tells(mcu, mcu') /\ mcu'.total = mcu.total + 0 /\ ~mcu'.prtim
    BY <1>1, <1>2 DEF Tells, Machine
  <2>2. 0 \in Nat
    OBVIOUS
  <2>3. QED
    BY <2>1, <2>2, TimePasses
<1>3. CASE (\E a \in Slices : Execute(a)) \/ HostHalt \/ HostContinue
  BY <1>2, <1>3 DEF Execute, HostHalt, HostContinue
<1>4. CASE HostReset
  <2>1. mcu' = [ResetState EXCEPT !.count = mcu.count]
    BY <1>4 DEF HostReset
  <2>2. /\ mcu'.total = 0 /\ mcu'.last = 0 /\ mcu'.tcnt = 0 /\ mcu'.tov = FALSE
        /\ mcu'.presc = 0 /\ mcu'.prtim = FALSE /\ mcu'.count = mcu.count
    BY <2>1 DEF ResetState
  <2>3. Div(mcu') = 0 /\ Pending(mcu') = 0
    BY <2>2, PrescAssumption DEF Div, Pending
  <2>4. (mcu'.tcnt + Pending(mcu')) % Byte = 0
    BY <2>2, <2>3, ConstantFacts
  <2>5. ~(mcu'.tcnt + Pending(mcu') >= Byte)
    BY <2>2, <2>3, ConstantFacts
  <2> DEFINE k == mcu.count
  <2>6. Abs(mcu') = [presc |-> 0, sub |-> 0, cnt |-> 0, flag |-> FALSE, taken |-> k]
    <3> DEFINE flag == mcu'.tov \/ mcu'.tcnt + Pending(mcu') >= Byte
    <3>1. Abs(mcu') = [presc |-> 0, sub |-> 0, cnt |-> 0, flag |-> flag, taken |-> k]
      BY <2>2, <2>3, <2>4 DEF Abs
    <3>2. flag = FALSE
      BY <2>2, <2>5
    <3>3. QED
      BY <3>1, <3>2, Zenon
  <2>7. EagerTimer.taken = k
    BY DEF EagerTimer
  <2> HIDE DEF k
  <2> DEFINE z == [Eager!Start EXCEPT !.taken = k]
  <2>8. z = [presc |-> 0, sub |-> 0, cnt |-> 0, flag |-> FALSE, taken |-> k]
    <3>1. z = [Eager!Start EXCEPT !.taken = k]
      OBVIOUS
    <3> HIDE DEF z
    <3>2. QED
      BY <3>1 DEF Eager!Start
  <2>9. EagerTimer' = [Eager!Start EXCEPT !.taken = EagerTimer.taken]
    BY <2>6, <2>7, <2>8, AbsMapping
  <2>10. Eager!Reset
    BY <2>2, <2>9 DEF Eager!Reset
  <2>11. QED
    BY <2>2, <2>10 DEF Eager!Next
<1>5. ~HostRead
  BY DEF HostRead, SlowProgram
<1>6. QED
  BY <1>3, <1>4, <1>5 DEF Host

(* What runs is the body of an instruction of c cycles that leaves the     *)
(* timer alone: only the cycles count.                                     *)
LEMMA BodyRefines ==
  ASSUME SlowProgram, IInv, ~mcu.prtim, CanFetch, NEW b, Good(b), Tells(mcu, b),
         ~b.prtim, NEW c \in Nat, b.total \in {mcu.total, mcu.total + StallCycles},
         mcu' = AfterInst(Retired(b, c), c)
  PROVE  Eager!Next /\ ~mcu'.prtim
<1> DEFINE r == Retired(b, c)
<1>1. mcu.presc \in Prescs /\ mcu.presc # 1 /\ mcu.total \in Nat
      /\ mcu.presc \in Nat
  BY PrescAssumption DEF IInv, TypeOK, Machine, SlowProgram
<1>2. loop = "inner" \/ (loop = "pass" /\ mcu.presc = 0)
  BY <1>1 DEF CanFetch, InSlice
<1>3. /\ Good(r) /\ r.total = b.total + c /\ Tells(mcu, r) /\ r.prtim = b.prtim
  <2>1. /\ Good(r) /\ r.total = b.total + c /\ r.last = b.last /\ r.tcnt = b.tcnt
        /\ r.presc = b.presc /\ r.prtim = b.prtim
    BY RetiredFields
  <2>2. r.tov = b.tov /\ r.count = b.count
    BY DEF Retired, Good, Machine
  <2>3. QED
    BY <2>1, <2>2 DEF Tells
<1>4. mcu' = r \/ mcu' = [r EXCEPT !.brk = FALSE]
  BY <1>2 DEF AfterInst
<1> HIDE DEF r
<1>5. mcu'.total = r.total /\ Tells(mcu, mcu') /\ ~mcu'.prtim
  BY <1>3, <1>4 DEF Good, Machine, Tells
<1>6. CASE b.total = mcu.total
  BY <1>3, <1>5, <1>6, TimePasses
<1>7. CASE b.total = mcu.total + StallCycles
  <2> DEFINE k == StallCycles + c
  <2>1. k \in Nat /\ mcu'.total = mcu.total + k
    BY <1>1, <1>3, <1>5, <1>7 DEF StallCycles
  <2> HIDE DEF k
  <2>2. QED
    BY <1>5, <2>1, TimePasses
<1>8. QED
  BY <1>6, <1>7

(* OUT TCCR0B with another clock select. *)
LEMMA SelectRefines ==
  ASSUME SlowProgram, IInv, ~mcu.prtim, CanFetch, NEW p \in Prescs, p # mcu.presc,
         mcu' = AfterInst(Retired(SetTCCR0B(Fetched, p), 1), 1)
  PROVE  Eager!Next /\ ~mcu'.prtim
<1> DEFINE b == SetTCCR0B(Fetched, p)
           r == Retired(b, 1)
<1>1. /\ Good(Fetched) /\ ~Fetched.sleep /\ Fetched.total = mcu.total
      /\ Tells(mcu, Fetched) /\ ~Fetched.prtim /\ Good(mcu) /\ mcu.total \in Nat
      /\ mcu.presc \in Prescs /\ mcu.presc # 1 /\ mcu.presc \in Nat
  <2>1. mcu \in Machine /\ mcu.total \in Nat
    BY DEF IInv, TypeOK, Machine
  <2>2. Tells(mcu, Fetched) /\ ~Fetched.prtim
    BY <2>1 DEF Fetched, Machine, Tells
  <2>3. QED
    BY <2>1, <2>2, FetchedAwake, MachineGood, PrescAssumption DEF Machine, SlowProgram
<1>2. Div(Fetched) < Byte
  BY <1>1 DEF Div, SlowProgram, Tells
<1>3. PICK t \in Eager!MayTake(Abs(Fetched)) : Abs(b) = Eager!Select(t, p)
  <2>1. p # Fetched.presc
    BY <1>1 DEF Tells
  <2>2. QED
    BY <1>1, <1>2, <2>1, SelectRuns
<1>4. Good(b) /\ b.total = mcu.total
  BY <1>1, SetTCCR0BAccesses DEF Accessed
<1>5. b.prtim = FALSE
  <2> DEFINE u == IF Fetched.presc # 0 THEN UpdateTimers(Fetched) ELSE Fetched
  <2>1. u.prtim = FALSE /\ Good(u)
    BY <1>1, UpdateUpToDate, UpdateSettles DEF Frame, Settles
  <2>2. b = IF p = Fetched.presc THEN Fetched
            ELSE [u EXCEPT !.presc = p, !.last = u.total, !.brk = TRUE]
    BY DEF SetTCCR0B
  <2> HIDE DEF u, b
  <2>3. QED
    BY <1>1, <2>1, <2>2 DEF Good, Machine
<1> HIDE DEF b
<1>6. loop = "inner" \/ (loop = "pass" /\ mcu.presc = 0)
  BY <1>1 DEF CanFetch, InSlice
<1>7. /\ Good(r) /\ r.total = b.total + 1 /\ Tells(b, r) /\ r.prtim = b.prtim
  <2>1. /\ Good(r) /\ r.total = b.total + 1 /\ r.last = b.last /\ r.tcnt = b.tcnt
        /\ r.presc = b.presc /\ r.prtim = b.prtim
    <3> DEFINE one == 1
    <3>1. one \in Nat
      OBVIOUS
    <3> HIDE DEF one
    <3>2. LET q == Retired(b, one) IN
          /\ Good(q) /\ q.total = b.total + one /\ q.last = b.last /\ q.tcnt = b.tcnt
          /\ q.presc = b.presc /\ q.prtim = b.prtim
      BY <1>4, <3>1, RetiredFields
    <3>3. QED
      BY <3>2 DEF one
  <2>2. r.tov = b.tov /\ r.count = b.count
    BY <1>4 DEF Retired, Good, Machine
  <2>3. QED
    BY <2>1, <2>2 DEF Tells
<1>8. mcu' = r \/ mcu' = [r EXCEPT !.brk = FALSE]
  <2>1. mcu' = AfterInst(r, 1)
    BY DEF b
  <2> HIDE DEF r
  <2>2. QED
    BY <1>6, <2>1 DEF AfterInst
<1> HIDE DEF r
<1>9. mcu'.total = b.total + 1 /\ Tells(b, mcu') /\ ~mcu'.prtim
  BY <1>5, <1>7, <1>8 DEF Good, Machine, Tells
<1>10. 0 \in Nat /\ 1 \in Nat
  OBVIOUS
<1>11. Abs(mcu') = Eager!Advance(Eager!Select(t, p), 1)
  <2>1. Abs(mcu') = Eager!Advance(Abs(b), 1)
    BY <1>4, <1>9, <1>10, AbsAdvance
  <2>2. QED
    BY <1>3, <2>1
<1>12. t \in Eager!MayTake(Eager!Advance(Abs(mcu), 0))
  <2>1. Abs(Fetched) = Abs(mcu)
    BY <1>1, TellsAbs
  <2>2. Eager!Advance(Abs(mcu), 0) = Abs(mcu)
    BY <1>1, NoCycles
  <2>3. QED
    BY <1>3, <2>1, <2>2
<1>13. mcu'.total = mcu.total + 0 + 1
  BY <1>1, <1>4, <1>9
<1>14. QED
  BY <1>9, <1>10, <1>11, <1>12, <1>13, RunStep

LEMMA InstructionRefines ==
  ASSUME SlowProgram, IInv, ~mcu.prtim, Instruction
  PROVE  Eager!Next /\ ~mcu'.prtim
<1>1. ASSUME CanFetch
      PROVE  /\ Good(Fetched) /\ Tells(mcu, Fetched) /\ ~Fetched.prtim
             /\ Fetched.total = mcu.total /\ Fetched \in Machine
  <2>1. mcu \in Machine
    BY DEF IInv, TypeOK
  <2>2. Tells(mcu, Fetched) /\ ~Fetched.prtim
    BY <2>1 DEF Fetched, Machine, Tells
  <2>3. QED
    BY <1>1, <2>2, FetchedAwake DEF Good
<1>2. 1 \in Nat /\ 2 \in Nat /\ RetiCycles \in Nat /\ PlainCycles \subseteq Nat
      /\ 1..MaxAccess \subseteq Nat
  BY ProgramAssumption DEF MaxPlain, RetiCycles, MaxAccess
<1>3. CASE Plain
  <2>1. PICK c \in PlainCycles : Inst("plain", Fetched, c, FALSE)
    BY <1>3 DEF Plain
  <2>2. QED
    BY <1>1, <1>2, <2>1, BodyRefines DEF Inst
<1>4. CASE Sei \/ Cli \/ Reti \/ OutSREG
  <2>1. ASSUME NEW op, NEW e \in BOOLEAN, NEW f \in BOOLEAN, NEW c \in Nat, NEW b,
               b = [Fetched EXCEPT !.ie = e, !.brk = f], Inst(op, b, c, FALSE)
        PROVE  Eager!Next /\ ~mcu'.prtim
    <3>1. CanFetch
      BY <2>1 DEF Inst
    <3>2. Good(b) /\ Tells(mcu, b) /\ ~b.prtim /\ b.total = mcu.total
      BY <1>1, <2>1, <3>1 DEF Good, Machine, Tells
    <3>3. QED
      BY <2>1, <3>2, BodyRefines DEF Inst
  <2>2. ASSUME NEW op, NEW e \in BOOLEAN, NEW c \in Nat,
               Inst(op, [Fetched EXCEPT !.ie = e], c, FALSE)
        PROVE  Eager!Next /\ ~mcu'.prtim
    <3> DEFINE f == Fetched.brk
               b == [Fetched EXCEPT !.ie = e, !.brk = f]
    <3>1. f \in BOOLEAN /\ b = [Fetched EXCEPT !.ie = e]
      BY <1>1, <2>2 DEF Inst, Machine
    <3>2. Inst(op, b, c, FALSE) /\ b = [Fetched EXCEPT !.ie = e, !.brk = f]
      BY <2>2, <3>1
    <3> HIDE DEF f, b
    <3>3. QED
      BY <2>1, <3>1, <3>2
  <2>3. CASE Sei
    BY <1>2, <2>2, <2>3 DEF Sei
  <2>4. CASE Cli
    BY <1>2, <2>2, <2>4 DEF Cli
  <2>5. CASE Reti
    BY <1>2, <2>2, <2>5 DEF Reti
  <2>6. CASE OutSREG
    <3>1. PICK b \in BOOLEAN : Inst("sreg", WriteSREG(Fetched, b), 1, FALSE)
      BY <2>6 DEF OutSREG
    <3> DEFINE f == Fetched.brk \/ (b /\ Fetched.tov)
               n == WriteSREG(Fetched, b)
    <3>2. f \in BOOLEAN /\ n = [Fetched EXCEPT !.ie = b, !.brk = f]
      BY DEF WriteSREG
    <3> HIDE DEF f, n
    <3>3. QED
      BY <1>2, <2>1, <3>1, <3>2 DEF n
  <2>7. QED
    BY <1>4, <2>3, <2>4, <2>5, <2>6
<1>5. CASE StsTIMSK0
  <2>1. PICK e \in BOOLEAN : Inst("timsk", WriteTIMSK0(Fetched, e), 2, TRUE)
    BY <1>5 DEF StsTIMSK0
  <2> DEFINE b == WriteTIMSK0(Fetched, e)
  <2>2. Good(b) /\ Tells(mcu, b) /\ ~b.prtim /\ b.total = mcu.total
    BY <1>1, <2>1 DEF Inst, WriteTIMSK0, Good, Machine, Tells
  <2>3. Inst("timsk", b, 2, TRUE)
    BY <2>1
  <2> HIDE DEF b
  <2>4. QED
    BY <1>2, <2>2, <2>3, BodyRefines DEF Inst
<1>6. CASE OutTCCR0B
  <2>1. PICK p \in Prescs : Inst("tccr", SetTCCR0B(Fetched, p), 1, FALSE)
    BY <1>6 DEF OutTCCR0B
  <2>2. CanFetch /\ mcu' = AfterInst(Retired(SetTCCR0B(Fetched, p), 1), 1)
    BY <2>1 DEF Inst
  <2>3. CASE p # mcu.presc
    BY <2>2, <2>3, SelectRefines
  <2>4. CASE p = mcu.presc
    <3>1. SetTCCR0B(Fetched, p) = Fetched
      BY <1>1, <2>2, <2>4 DEF SetTCCR0B, Tells
    <3>2. QED
      BY <1>1, <1>2, <2>2, <3>1, BodyRefines
  <2>5. QED
    BY <2>3, <2>4
<1>7. ~StsPRR0 /\ ~InTCNT0 /\ ~OutTCNT0 /\ ~WriteTIFR
  BY DEF SlowProgram, StsPRR0, InTCNT0, OutTCNT0, WriteTIFR, Inst
<1>8. CASE Sleep
  <2> DEFINE b == EnterSleep(Fetched)
  <2>1. CanFetch /\ mcu' = AfterInst(Retired(b, 1), 1)
    BY <1>8 DEF Sleep, Inst
  <2>2. Good(b) /\ Tells(mcu, b) /\ ~b.prtim /\ b.total = mcu.total
    BY <1>1, <2>1 DEF EnterSleep, Good, Machine, Tells
  <2> HIDE DEF b
  <2>3. QED
    BY <1>2, <2>1, <2>2, BodyRefines
<1>9. CASE EepromRead
  <2>1. PICK c \in 1..MaxAccess : Inst("eeprom", ReadEEPROM(Fetched), c, FALSE)
    BY <1>9 DEF EepromRead
  <2> DEFINE b == ReadEEPROM(Fetched)
             t == mcu.total + StallCycles
  <2>2. CanFetch /\ mcu' = AfterInst(Retired(b, c), c)
    BY <2>1 DEF Inst
  <2>3. t \in Nat /\ t >= mcu.total /\ mcu.last = Fetched.last
        /\ Fetched.last <= Fetched.total /\ Fetched.last \in Nat
    BY <1>1, <2>2 DEF StallCycles, Good, Machine, Tells, IInv, TypeOK
  <2>4. b = [Fetched EXCEPT !.total = t]
    BY <1>1, <2>2 DEF ReadEEPROM, Machine
  <2> HIDE DEF t, b
  <2>5. Good(b) /\ Tells(mcu, b) /\ ~b.prtim /\ b.total = t
    <3>1. b \in Machine /\ b.last = Fetched.last /\ b.total = t /\ b.prtim = Fetched.prtim
          /\ Tells(Fetched, b)
      BY <1>1, <2>2, <2>3, <2>4 DEF Machine, Tells
    <3>2. mcu.total \in Nat /\ mcu.last \in Nat
      BY DEF IInv, TypeOK, Machine
    <3>3. b.last <= b.total
      BY <1>1, <2>2, <2>3, <3>1, <3>2
    <3>4. QED
      BY <1>1, <2>2, <3>1, <3>3 DEF Good, Tells
  <2>6. QED
    BY <1>2, <2>2, <2>5, BodyRefines DEF t
<1>10. CASE Break
  <2> DEFINE b == [Fetched EXCEPT !.brk = TRUE]
  <2>1. CanFetch /\ mcu' = AfterInst(Retired(b, 1), 1)
    BY <1>10 DEF Break
  <2>2. Good(b) /\ Tells(mcu, b) /\ ~b.prtim /\ b.total = mcu.total
    BY <1>1, <2>1 DEF Good, Machine, Tells
  <2> HIDE DEF b
  <2>3. QED
    BY <1>2, <2>1, <2>2, BodyRefines
<1>11. QED
  BY <1>3, <1>4, <1>5, <1>6, <1>7, <1>8, <1>9, <1>10 DEF Instruction

LEMMA InitRefines == Init => Eager!Init /\ ~mcu.prtim
<1> SUFFICES ASSUME Init PROVE Eager!Init /\ ~mcu.prtim
  OBVIOUS
<1>1. /\ mcu.total = 0 /\ mcu.last = 0 /\ mcu.tcnt = 0 /\ mcu.tov = FALSE
      /\ mcu.presc = 0 /\ mcu.prtim = FALSE /\ mcu.count = 0
  BY DEF Init, ResetState
<1>2. Div(mcu) = 0 /\ Pending(mcu) = 0
  BY <1>1, PrescAssumption DEF Div, Pending
<1>3. (mcu.tcnt + Pending(mcu)) % Byte = 0 /\ ~(mcu.tcnt + Pending(mcu) >= Byte)
  BY <1>1, <1>2, ConstantFacts
<1> DEFINE flag == mcu.tov \/ mcu.tcnt + Pending(mcu) >= Byte
<1>4. Abs(mcu) = [presc |-> 0, sub |-> 0, cnt |-> 0, flag |-> flag, taken |-> 0]
  BY <1>1, <1>2, <1>3 DEF Abs
<1>5. flag = FALSE
  BY <1>1, <1>3
<1>6. EagerTimer = Eager!Start
  BY <1>4, <1>5, AbsMapping, Zenon DEF Eager!Start
<1>7. QED
  BY <1>1, <1>6 DEF Eager!Init

(* For every program that selects only stopped clocks and prescalers that  *)
(* fit the uint8_t of updateTimers, and that neither reads nor writes      *)
(* TCNT0 and leaves TIFR0 and PRR0 alone, TCNT0 and TOV0 are at every cycle*)
(* those of a timer that counts each cycle, however the loop batches,      *)
(* sleeps, stalls, halts and slices.                                       *)
THEOREM EveryCycleCounted == SlowProgram /\ Spec => CountsEveryCycle
<1> DEFINE On == ~mcu.prtim
<1>1. Init => Eager!Init /\ On /\ IInv
  BY InitRefines, InitIInv
<1>2. SlowProgram /\ IInv /\ On /\ [Next]_vars
        => [Eager!Next]_(Eager!vars) /\ On' /\ SlowProgram' /\ IInv'
  <2>1. ASSUME SlowProgram, IInv, On, Next PROVE Eager!Next /\ On'
    BY <2>1, LoopRefines, InstructionRefines, HostRefines DEF Next, Emulate
  <2>2. ASSUME UNCHANGED vars, On PROVE UNCHANGED Eager!vars /\ On'
    <3>1. mcu' = mcu
      BY <2>2 DEF vars
    <3>2. EagerTimer' = EagerTimer
      BY <3>1, AbsMapping
    <3>3. QED
      BY <2>2, <3>1, <3>2 DEF Eager!vars
  <2>3. SlowProgram' = SlowProgram
    BY DEF SlowProgram
  <2>4. QED
    BY <2>1, <2>2, <2>3, NextIInv
<1> HIDE DEF On
<1>3. QED
  BY <1>1, <1>2, PTL DEF Spec, CountsEveryCycle, Eager!Spec
=============================================================================
