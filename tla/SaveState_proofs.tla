--------------------------- MODULE SaveState_proofs ---------------------------
(***************************************************************************)
(* A loaded machine goes on as the saved one, its two copies of everything *)
(* agree, and saving changes nothing the program finds but for an overflow *)
(* that no update had recorded: for every program, call stack, divisor and *)
(* counter width, and every part of the call stack and of the counters     *)
(* that the stream holds.                                                  *)
(***************************************************************************)
EXTENDS SaveState, Division, TLAPS

Registers == [SREG : BOOLEAN, sreg : BOOLEAN, TCNT0 : 0..(Byte - 1), TOV0 : BOOLEAN,
              PRTIM0 : BOOLEAN, Timer0Update : Int, EEMPE : BOOLEAN, EEMPEset : Int,
              PLLE : BOOLEAN, PLOCK : BOOLEAN, PLLEset : Int, ADSC : BOOLEAN, ADCL : {0, 1}]
Debuggers == [halted : BOOLEAN, breakpoints : SUBSET PCs, breakpointList : SUBSET PCs,
              callStackPtr : 0..CallStackLen, callStack : [1..CallStackLen -> PCs]]
Flashes == [program : {"first", "second", "none"}, hasProgram : BOOLEAN]
Countings == [pcCounter : [PCs -> Nat], instTotalCnt : Nat]
Cpus == [pc : PCs, total : Nat, sleep : BOOLEAN]
Machines == [cpu : Cpus, data : Registers, Timer3ATriggered : BOOLEAN,
             flash : Flashes, debugger : Debuggers, analytics : Countings]

Mirrored(mm) == mm.debugger.breakpointList = mm.debugger.breakpoints
\* TCNT0 was brought up to date in the past
Past(mm) == mm.data.Timer0Update <= mm.cpu.total
Sound(mm) == mm \in Machines /\ Mirrored(mm) /\ Past(mm)
\* What getState leaves behind: the flag byte is up to date
Settled(mm) == Sound(mm) /\ mm.data.sreg = mm.data.SREG

(* The stream holds the parts of the machine saved last. *)
Consistent == Sound(m) /\ Settled(saved) /\ stream.parts = Parts(saved)

-----------------------------------------------------------------------------
\* What the operators of the model preserve

LEMMA TicksInt ==
  ASSUME NEW d \in Registers, NEW now \in Int
  PROVE  /\ Ticks(d, now) \in Int /\ Div * Ticks(d, now) \in Int
         /\ d.Timer0Update + Div * Ticks(d, now) <= now
<1> DEFINE x == now - d.Timer0Update
           t == x \div Div
           whole == Div * t
<1>1. x \in Int /\ d.Timer0Update \in Int
  BY DEF Registers
<1>2. t \in Int /\ x % Div \in 0..(Div - 1) /\ x = whole + (x % Div)
  BY <1>1, DivisionParts, SaveAssumption
<1>3. whole \in Int
  BY <1>2, SaveAssumption
<1>4. d.Timer0Update + whole <= now
  <2> DEFINE r == x % Div
  <2>1. r \in Int /\ 0 <= r /\ now - d.Timer0Update = whole + r
    BY <1>2, SaveAssumption
  <2> HIDE DEF r, whole
  <2> QED BY <1>1, <1>3, <2>1
<1> QED BY <1>2, <1>3, <1>4 DEF Ticks

(* The registers that bringing TCNT0 up to date leaves alone. *)
Alike(d, e) ==
  /\ e.SREG = d.SREG /\ e.sreg = d.sreg /\ e.PRTIM0 = d.PRTIM0 /\ e.EEMPE = d.EEMPE
  /\ e.EEMPEset = d.EEMPEset /\ e.PLLE = d.PLLE /\ e.PLOCK = d.PLOCK
  /\ e.PLLEset = d.PLLEset /\ e.ADSC = d.ADSC /\ e.ADCL = d.ADCL

LEMMA RefreshedTCNT0 ==
  ASSUME NEW d \in Registers, NEW now \in Int
  PROVE  LET e == RefreshTCNT0(d, now)
         IN  /\ e \in Registers /\ Alike(d, e) /\ e.TOV0 = d.TOV0
             /\ e.TCNT0 = (d.TCNT0 + Ticks(d, now)) % Byte
             /\ e.Timer0Update = d.Timer0Update + Div * Ticks(d, now)
             /\ e.Timer0Update <= now
<1> DEFINE tcnt == (d.TCNT0 + Ticks(d, now)) % Byte
           upd  == d.Timer0Update + Div * Ticks(d, now)
<1>1. Ticks(d, now) \in Int /\ Div * Ticks(d, now) \in Int /\ upd <= now
  BY TicksInt
<1>2. (d.TCNT0 + Ticks(d, now)) \in Int
  BY <1>1, SaveAssumption DEF Registers
<1>3. tcnt \in 0..(Byte - 1)
  BY <1>2, DivisionParts, SaveAssumption
<1>4. upd \in Int
  BY <1>1 DEF Registers
<1>5. RefreshTCNT0(d, now) = [[d EXCEPT !.TCNT0 = tcnt] EXCEPT !.Timer0Update = upd]
  BY DEF RefreshTCNT0, Registers
<1> HIDE DEF tcnt, upd
<1>6. /\ RefreshTCNT0(d, now) \in Registers
      /\ RefreshTCNT0(d, now).TCNT0 = tcnt /\ RefreshTCNT0(d, now).Timer0Update = upd
      /\ RefreshTCNT0(d, now).TOV0 = d.TOV0
  BY <1>3, <1>4, <1>5 DEF Registers
<1>7. Alike(d, RefreshTCNT0(d, now))
  BY <1>5 DEF Alike, Registers
<1> QED BY <1>1, <1>6, <1>7 DEF tcnt, upd

(* An update of the timers either does nothing or is a refresh that records the wrap. *)
Overflows(d, now) ==
  (d.TCNT0 + Ticks(d, now)) % Byte < d.TCNT0 \/ Ticks(d, now) >= Byte
Stopped(d) == d.PRTIM0 \/ Div % Byte = 0

LEMMA UpdatedTimers ==
  ASSUME NEW d \in Registers, NEW now \in Int, d.Timer0Update <= now
  PROVE  LET e == updateTimers(d, now)
             r == RefreshTCNT0(d, now)
         IN  /\ e \in Registers /\ Alike(d, e) /\ e.Timer0Update <= now
             /\ (Stopped(d) \/ Ticks(d, now) = 0) => e = d
             /\ ~(Stopped(d) \/ Ticks(d, now) = 0) =>
                   /\ e.TCNT0 = r.TCNT0 /\ e.Timer0Update = r.Timer0Update
                   /\ e.TOV0 = (d.TOV0 \/ Overflows(d, now))
<1> DEFINE e == updateTimers(d, now)
           r == RefreshTCNT0(d, now)
           over == Overflows(d, now)
<1>1. r \in Registers /\ Alike(d, r) /\ r.TOV0 = d.TOV0 /\ r.Timer0Update <= now
  BY RefreshedTCNT0
<1>2. CASE Stopped(d) \/ Ticks(d, now) = 0
  BY <1>2 DEF updateTimers, Stopped, Alike
<1>3. CASE ~(Stopped(d) \/ Ticks(d, now) = 0)
  <2>1. e = [r EXCEPT !.TOV0 = @ \/ over]
    BY <1>3 DEF updateTimers, Stopped, Overflows
  <2>2. over \in BOOLEAN
    BY DEF Overflows
  <2> HIDE DEF e, r, over
  <2>3. /\ e \in Registers /\ e.TCNT0 = r.TCNT0 /\ e.Timer0Update = r.Timer0Update
        /\ e.TOV0 = (r.TOV0 \/ over)
    BY <1>1, <2>1, <2>2 DEF Registers
  <2>4. Alike(d, e)
    BY <1>1, <2>1 DEF Alike, Registers
  <2> QED BY <1>1, <1>3, <2>3, <2>4 DEF over, e, r
<1> QED BY <1>2, <1>3

LEMMA FieldsOf ==
  ASSUME NEW d \in Registers, NEW now \in Int
  PROVE  LET e == update_Get_all(d, now)
         IN  /\ e \in Registers /\ e.SREG = d.sreg /\ e.sreg = d.sreg
             /\ e.TCNT0 = (d.TCNT0 + Ticks(d, now)) % Byte
             /\ e.Timer0Update = d.Timer0Update + Div * Ticks(d, now)
             /\ e.Timer0Update <= now /\ e.TOV0 = d.TOV0 /\ e.PRTIM0 = d.PRTIM0
             /\ e.EEMPE = (d.EEMPE /\ now - d.EEMPEset <= 4) /\ e.EEMPEset = d.EEMPEset
             /\ e.PLLE = d.PLLE /\ e.PLLEset = d.PLLEset
             /\ e.PLOCK = (d.PLOCK \/ (d.PLLE /\ now > d.PLLEset))
             /\ e.ADSC = FALSE /\ e.ADCL = 0
<1> DEFINE b == RefreshEECR(d, now)
           c == RefreshPLLCSR(b, now)
           f == RefreshTCNT0(c, now)
           g == RefreshSREG(f)
           e == RefreshADC(g)
<1>1. /\ b \in Registers /\ b = [d EXCEPT !.EEMPE = (d.EEMPE /\ now - d.EEMPEset <= 4)]
  BY DEF RefreshEECR, Registers
<1>2. /\ c \in Registers /\ c = [b EXCEPT !.PLOCK = (b.PLOCK \/ (b.PLLE /\ now > b.PLLEset))]
  <2> DEFINE lock == b.PLOCK \/ (b.PLLE /\ now > b.PLLEset)
  <2>0. b \in Registers
    BY <1>1
  <2> HIDE DEF b
  <2>1. lock \in BOOLEAN
    BY <2>0 DEF Registers
  <2>2. c = [b EXCEPT !.PLOCK = lock]
    BY DEF RefreshPLLCSR
  <2> HIDE DEF c, lock
  <2>3. c \in Registers
    BY <2>0, <2>1, <2>2 DEF Registers
  <2> QED BY <2>2, <2>3 DEF lock
<1> HIDE DEF b, c
<1>3. /\ c.sreg = d.sreg /\ c.TCNT0 = d.TCNT0 /\ c.TOV0 = d.TOV0 /\ c.PRTIM0 = d.PRTIM0
      /\ c.Timer0Update = d.Timer0Update /\ c.EEMPEset = d.EEMPEset /\ c.PLLE = d.PLLE
      /\ c.PLLEset = d.PLLEset /\ c.EEMPE = b.EEMPE
      /\ c.PLOCK = (d.PLOCK \/ (d.PLLE /\ now > d.PLLEset))
  BY <1>1, <1>2 DEF Registers
<1>4. b.EEMPE = (d.EEMPE /\ now - d.EEMPEset <= 4)
  BY <1>1 DEF Registers
<1>5. Ticks(c, now) = Ticks(d, now)
  BY <1>3 DEF Ticks
<1>6. /\ f \in Registers /\ Alike(c, f) /\ f.TOV0 = c.TOV0 /\ f.Timer0Update <= now
      /\ f.TCNT0 = (d.TCNT0 + Ticks(d, now)) % Byte
      /\ f.Timer0Update = d.Timer0Update + Div * Ticks(d, now)
  <2>1. c \in Registers
    BY <1>2
  <2>2. /\ f \in Registers /\ Alike(c, f) /\ f.TOV0 = c.TOV0 /\ f.Timer0Update <= now
        /\ f.TCNT0 = (c.TCNT0 + Ticks(c, now)) % Byte
        /\ f.Timer0Update = c.Timer0Update + Div * Ticks(c, now)
    BY <2>1, RefreshedTCNT0
  <2> QED BY <1>3, <1>5, <2>2
<1> HIDE DEF f
<1>7. g \in Registers /\ g = [f EXCEPT !.SREG = f.sreg]
  BY <1>6 DEF RefreshSREG, Registers
<1> HIDE DEF g
<1>8. e \in Registers /\ e = [g EXCEPT !.ADSC = FALSE, !.ADCL = 0]
  BY <1>7 DEF RefreshADC, Registers
<1> HIDE DEF e
<1>9. /\ e.SREG = f.sreg /\ e.sreg = f.sreg /\ e.TCNT0 = f.TCNT0 /\ e.TOV0 = f.TOV0
      /\ e.PRTIM0 = f.PRTIM0 /\ e.Timer0Update = f.Timer0Update /\ e.EEMPE = f.EEMPE
      /\ e.EEMPEset = f.EEMPEset /\ e.PLLE = f.PLLE /\ e.PLOCK = f.PLOCK
      /\ e.PLLEset = f.PLLEset /\ e.ADSC = FALSE /\ e.ADCL = 0
  BY <1>6, <1>7, <1>8 DEF Registers
<1>10. e = update_Get_all(d, now)
  BY DEF update_Get_all, b, c, f, g, e
<1> QED BY <1>3, <1>4, <1>6, <1>8, <1>9, <1>10 DEF Alike

LEMMA PushSound ==
  ASSUME NEW g \in Debuggers, g.breakpointList = g.breakpoints, HasRoom(g), NEW pc \in PCs
  PROVE  LET h == pushPCOnCallStack(g, pc)
         IN  h \in Debuggers /\ h.breakpointList = h.breakpoints
<1> DEFINE c == [g.callStack EXCEPT ![g.callStackPtr + 1] = pc]
<1>1. c \in [1..CallStackLen -> PCs] /\ g.callStackPtr + 1 \in 0..CallStackLen
  BY SaveAssumption DEF Debuggers, HasRoom
<1>2. pushPCOnCallStack(g, pc) = [[g EXCEPT !.callStack = c] EXCEPT !.callStackPtr = @ + 1]
  BY DEF pushPCOnCallStack, Debuggers
<1> HIDE DEF c
<1> QED BY <1>1, <1>2 DEF Debuggers

LEMMA PopSound ==
  ASSUME NEW g \in Debuggers, g.breakpointList = g.breakpoints, g.callStackPtr > 0
  PROVE  LET h == popPCFromCallStack(g)
         IN  h \in Debuggers /\ h.breakpointList = h.breakpoints
<1> DEFINE c == [g.callStack EXCEPT ![g.callStackPtr] = 0]
<1>1. c \in [1..CallStackLen -> PCs] /\ g.callStackPtr - 1 \in 0..CallStackLen
  BY SaveAssumption DEF Debuggers
<1>2. popPCFromCallStack(g) = [[g EXCEPT !.callStack = c] EXCEPT !.callStackPtr = @ - 1]
  BY DEF popPCFromCallStack, Debuggers
<1> HIDE DEF c
<1> QED BY <1>1, <1>2 DEF Debuggers

(* Loading the parts of s into mm makes mm go on as s. *)
Loaded(mm, s) ==
  [setState(mm, Parts(s)) EXCEPT !.debugger = updateBreakpointListFromArr(@)]
GoesOnAs(r, s) ==
  /\ r.cpu = s.cpu /\ r.data = s.data /\ r.flash = s.flash
  /\ \A f \in {"halted", "breakpoints", "breakpointList", "callStackPtr"} :
       r.debugger[f] = s.debugger[f]
  /\ Calls(r.debugger) = Calls(s.debugger)

LEMMA LoadRestores ==
  ASSUME NEW mm \in Machines, NEW s, Settled(s)
  PROVE  Sound(Loaded(mm, s)) /\ GoesOnAs(Loaded(mm, s), s)
<1> DEFINE p == Parts(s)
           g == ReadDebugger(mm.debugger, p)
           r == Loaded(mm, s)
<1>0. s \in Machines /\ s.data \in Registers /\ s.debugger \in Debuggers /\ mm.debugger \in Debuggers
  BY DEF Settled, Sound, Machines
<1>1. r = [mm EXCEPT !.cpu = p.cpu, !.data = updateSREGCache(p.data), !.flash = p.flash,
                     !.debugger = updateBreakpointListFromArr(g),
                     !.analytics = ReadAnalytics(mm.analytics, p)]
  BY DEF Loaded, setState, Machines
<1>2. p.cpu = s.cpu /\ p.flash = s.flash
  BY DEF Parts
<1>3. updateSREGCache(p.data) = s.data
  <2>1. p.data = [f \in DOMAIN s.data \ {"sreg"} |-> s.data[f]]
    BY DEF Parts
  <2>2. /\ DOMAIN s.data = {"SREG", "sreg", "TCNT0", "TOV0", "PRTIM0", "Timer0Update", "EEMPE",
                             "EEMPEset", "PLLE", "PLOCK", "PLLEset", "ADSC", "ADCL"}
        /\ DOMAIN ResetData = DOMAIN s.data
    BY <1>0 DEF Registers, ResetData
  <2>3. /\ p.data.SREG = s.data.sreg
        /\ \A f \in DOMAIN s.data \ {"sreg"} : p.data[f] = s.data[f]
    BY <2>1, <2>2 DEF Settled
  <2>4. updateSREGCache(p.data) = [f \in DOMAIN s.data |-> s.data[f]]
    BY <2>2, <2>3 DEF updateSREGCache
  <2> QED BY <2>4, <1>0 DEF Registers
<1>4. /\ p.debugger = [f \in {"halted", "breakpoints", "callStackPtr"} |-> s.debugger[f]]
      /\ p.calls = Calls(s.debugger)
  BY <1>0 DEF Parts, Debuggers
<1>5. /\ g.halted = s.debugger.halted /\ g.breakpoints = s.debugger.breakpoints
      /\ g.callStackPtr = s.debugger.callStackPtr
      /\ g.breakpointList = mm.debugger.breakpointList
      /\ g.callStack = [i \in 1..CallStackLen |-> IF i <= CallsSaved THEN p.calls[i]
                                                  ELSE mm.debugger.callStack[i]]
      /\ DOMAIN g = {"halted", "breakpoints", "breakpointList", "callStackPtr", "callStack"}
  BY <1>0, <1>4 DEF ReadDebugger, Debuggers
<1>6. g.callStack \in [1..CallStackLen -> PCs] /\ Calls(g) = Calls(s.debugger)
  <2>1. \A i \in 1..CallsSaved : i \in 1..CallStackLen /\ p.calls[i] = s.debugger.callStack[i]
    BY <1>4, SaveAssumption DEF Calls
  <2>2. \A i \in 1..CallStackLen : g.callStack[i] \in PCs
    BY <1>0, <1>5, <2>1, SaveAssumption DEF Debuggers
  <2>3. \A i \in 1..CallsSaved : g.callStack[i] = s.debugger.callStack[i]
    BY <1>5, <2>1
  <2>4. Calls(g) = Calls(s.debugger)
    BY <2>3 DEF Calls
  <2> QED BY <1>5, <2>2, <2>4
<1>7. g \in Debuggers
  <2>1. g = [f \in {"halted", "breakpoints", "breakpointList", "callStackPtr", "callStack"} |-> g[f]]
    BY <1>5 DEF ReadDebugger
  <2> HIDE DEF g
  <2> QED BY <2>1, <1>0, <1>5, <1>6 DEF Debuggers
<1>8. /\ updateBreakpointListFromArr(g) \in Debuggers
      /\ updateBreakpointListFromArr(g).breakpointList = g.breakpoints
      /\ updateBreakpointListFromArr(g).breakpoints = g.breakpoints
      /\ updateBreakpointListFromArr(g).halted = g.halted
      /\ updateBreakpointListFromArr(g).callStackPtr = g.callStackPtr
      /\ updateBreakpointListFromArr(g).callStack = g.callStack
  <2> HIDE DEF g
  <2> QED BY <1>7 DEF updateBreakpointListFromArr, Debuggers
<1>9. ReadAnalytics(mm.analytics, p) \in Countings
  <2> DEFINE c == [pc \in PCs |-> IF pc \in CountersSaved THEN p.counters[pc]
                                  ELSE mm.analytics.pcCounter[pc]]
  <2>1. mm.analytics \in Countings /\ s.analytics \in Countings
    BY <1>0 DEF Machines
  <2>2. \A pc \in CountersSaved : p.counters[pc] = s.analytics.pcCounter[pc]
    BY DEF Parts, Counters
  <2>3. c \in [PCs -> Nat]
    BY <2>1, <2>2 DEF Countings
  <2>4. ReadAnalytics(mm.analytics, p) = [mm.analytics EXCEPT !.pcCounter = c]
    BY <2>1 DEF ReadAnalytics, Countings
  <2> HIDE DEF c
  <2> QED BY <2>1, <2>3, <2>4 DEF Countings
<1>10. /\ r.cpu = s.cpu /\ r.data = s.data /\ r.flash = s.flash
       /\ r.debugger = updateBreakpointListFromArr(g)
  BY <1>1, <1>2, <1>3 DEF Machines
<1>11. r \in Machines
  <2> HIDE DEF g, p
  <2> QED BY <1>0, <1>1, <1>2, <1>3, <1>8, <1>9 DEF Machines
<1>12. Mirrored(r) /\ Past(r)
  BY <1>8, <1>10 DEF Mirrored, Past, Settled, Sound
<1>13. Calls(r.debugger) = Calls(s.debugger)
  BY <1>6, <1>8, <1>10 DEF Calls
<1>14. \A f \in {"halted", "breakpoints", "breakpointList", "callStackPtr"} :
         r.debugger[f] = s.debugger[f]
  BY <1>5, <1>8, <1>10 DEF Settled, Sound, Mirrored
<1> QED BY <1>10, <1>11, <1>12, <1>13, <1>14 DEF GoesOnAs, Sound

-----------------------------------------------------------------------------
\* Every step keeps the machine, its copies and the stream consistent

Hosted == stream' = stream /\ saved' = saved

LEMMA InstructionSound ==
  ASSUME Consistent, NEW d \in Registers, d.Timer0Update <= m.cpu.total, NEW g \in Debuggers,
         NEW b \in BOOLEAN, NEW sleep \in BOOLEAN, g.breakpointList = g.breakpoints,
         Instruction(d, g, b, sleep)
  PROVE  Sound(m)' /\ Hosted
<1> DEFINE now == m.cpu.total + 1
<1>1. PICK pc \in PCs, ends \in BOOLEAN :
        m' = [m EXCEPT !.cpu = [pc |-> pc, total |-> now, sleep |-> sleep],
                       !.data = IF ends THEN updateTimers(d, now) ELSE d,
                       !.debugger = g, !.Timer3ATriggered = b,
                       !.analytics = addData(@, m.cpu.pc)]
  BY DEF Instruction
<1>2. m \in Machines
  BY DEF Consistent, Sound
<1>3. now \in Nat /\ [pc |-> pc, total |-> now, sleep |-> sleep] \in Cpus
  BY <1>2 DEF Machines, Cpus
<1>4. addData(m.analytics, m.cpu.pc) \in Countings
  <2> DEFINE a == m.analytics
             c == [a.pcCounter EXCEPT ![m.cpu.pc] = @ + 1]
  <2>1. a \in Countings /\ m.cpu.pc \in PCs
    BY <1>2 DEF Machines, Cpus
  <2>2. c \in [PCs -> Nat] /\ a.instTotalCnt + 1 \in Nat
    BY <2>1 DEF Countings
  <2>3. addData(a, m.cpu.pc) = [[a EXCEPT !.pcCounter = c] EXCEPT !.instTotalCnt = @ + 1]
    BY <2>1 DEF addData, Countings
  <2> HIDE DEF c
  <2> QED BY <2>1, <2>2, <2>3 DEF Countings
<1> DEFINE e == IF ends THEN updateTimers(d, now) ELSE d
<1>5. e \in Registers /\ e.Timer0Update <= now
  <2>1. d.Timer0Update <= now /\ now \in Int
    BY <1>2 DEF Machines, Cpus, Registers
  <2> HIDE DEF now
  <2> QED BY <2>1, UpdatedTimers
<1> HIDE DEF e, now
<1>6. m' \in Machines /\ m'.debugger = g /\ m'.data = e /\ m'.cpu.total = now
  BY <1>1, <1>2, <1>3, <1>4, <1>5 DEF Machines, e
<1> QED BY <1>5, <1>6 DEF Sound, Past, Mirrored, Hosted, Instruction, Executes

LEMMA AsleepSound ==
  ASSUME Consistent, SleepsOn \/ SleepsOut
  PROVE  Sound(m)' /\ Hosted
<1>0. Naps \subseteq Nat
  BY SaveAssumption
<1>1. /\ m \in Machines /\ m.data \in Registers /\ m.debugger \in Debuggers /\ m.cpu \in Cpus
      /\ m.debugger.breakpointList = m.debugger.breakpoints
      /\ m.cpu.total \in Nat /\ m.cpu.pc \in PCs
      /\ m.data.Timer0Update <= m.cpu.total /\ m.data.Timer0Update \in Int
  BY DEF Consistent, Sound, Machines, Cpus, Mirrored, Past, Registers
<1>2. CASE SleepsOn
  <2>1. PICK c \in Naps : m' = [m EXCEPT !.cpu.total = @ + c]
    BY <1>2 DEF SleepsOn
  <2> DEFINE u == [m.cpu EXCEPT !.total = m.cpu.total + c]
  <2>2. m.cpu.total + c \in Nat /\ m.data.Timer0Update <= m.cpu.total + c
    BY <1>0, <1>1
  <2>3. u \in Cpus /\ u.total = m.cpu.total + c
    BY <1>1, <2>2 DEF Cpus
  <2>4. m' = [m EXCEPT !.cpu = u]
    BY <1>1, <2>1 DEF Machines, Cpus
  <2> HIDE DEF u
  <2>5. m' \in Machines /\ m'.cpu = u /\ m'.data = m.data /\ m'.debugger = m.debugger
    BY <1>1, <2>3, <2>4 DEF Machines
  <2> QED BY <1>1, <1>2, <2>2, <2>3, <2>5 DEF Sound, Past, Mirrored, Hosted, SleepsOn, Executes
<1>3. CASE SleepsOut
  <2>1. PICK c \in Naps, pc \in PCs, woken \in {FALSE, HasRoom(m.debugger)} :
          m' = [m EXCEPT
                  !.cpu = IF woken THEN [pc |-> pc, total |-> m.cpu.total + c + 5, sleep |-> FALSE]
                          ELSE [m.cpu EXCEPT !.total = m.cpu.total + c],
                  !.data = updateTimers(@, m.cpu.total + c),
                  !.debugger = IF woken THEN pushPCOnCallStack(@, m.cpu.pc) ELSE @]
    BY <1>3 DEF SleepsOut
  <2> DEFINE now == m.cpu.total + c
             u == IF woken THEN [pc |-> pc, total |-> m.cpu.total + c + 5, sleep |-> FALSE]
                  ELSE [m.cpu EXCEPT !.total = m.cpu.total + c]
             d == updateTimers(m.data, m.cpu.total + c)
             g == IF woken THEN pushPCOnCallStack(m.debugger, m.cpu.pc) ELSE m.debugger
  <2>2. now \in Nat /\ now + 5 \in Nat /\ m.data.Timer0Update <= now
    BY <1>0, <1>1
  <2>3. u \in Cpus /\ now <= u.total
    BY <1>1, <2>2 DEF Cpus
  <2>4. d \in Registers /\ d.Timer0Update <= now
    BY <1>1, <2>2, UpdatedTimers
  <2>5. g \in Debuggers /\ g.breakpointList = g.breakpoints
    <3>1. woken => HasRoom(m.debugger)
      BY <2>1
    <3> QED BY <1>1, <3>1, PushSound
  <2>6. m' = [m EXCEPT !.cpu = u, !.data = d, !.debugger = g]
    BY <2>1
  <2> HIDE DEF u, d, g, now
  <2>7. m' \in Machines /\ m'.cpu = u /\ m'.data = d /\ m'.debugger = g
    BY <1>1, <2>3, <2>4, <2>5, <2>6 DEF Machines
  <2>8. d.Timer0Update <= u.total
    BY <2>2, <2>3, <2>4 DEF Registers, Cpus
  <2> QED BY <1>3, <2>5, <2>7, <2>8 DEF Sound, Past, Mirrored, Hosted, SleepsOut, Executes
<1> QED BY <1>2, <1>3

LEMMA ProgramSound ==
  ASSUME Consistent, Program
  PROVE  Sound(m)' /\ Hosted
<1>1. /\ m \in Machines /\ m.data \in Registers /\ m.debugger \in Debuggers
      /\ m.debugger.breakpointList = m.debugger.breakpoints
      /\ m.Timer3ATriggered \in BOOLEAN /\ m.cpu.total \in Int /\ m.cpu.pc \in PCs
      /\ m.data.Timer0Update <= m.cpu.total
  BY DEF Consistent, Sound, Machines, Cpus, Mirrored, Past
<1>2. ASSUME NEW d \in Registers, d.Timer0Update <= m.cpu.total, OnData(d)
      PROVE  Sound(m)' /\ Hosted
  BY <1>1, <1>2, InstructionSound DEF OnData
<1> DEFINE u == m.data.Timer0Update
           D == {d \in Registers : d.Timer0Update = u}
<1>3. ASSUME NEW d \in D, OnData(d)
      PROVE  Sound(m)' /\ Hosted
  BY <1>1, <1>2, <1>3
<1>4. CASE Flag
  BY <1>1, <1>3, <1>4 DEF Flag, Registers
<1>5. CASE InSREG
  BY <1>1, <1>3, <1>5 DEF InSREG, RefreshSREG, Registers
<1>6. CASE OutSREG
  BY <1>1, <1>3, <1>6 DEF OutSREG, Registers
<1>7. CASE InTCNT0
  BY <1>1, <1>2, <1>7, RefreshedTCNT0 DEF InTCNT0
<1>8. CASE SetEEMPE
  <2>1. RefreshEECR(m.data, m.cpu.total) \in D
    BY <1>1 DEF RefreshEECR, Registers
  <2> QED BY <1>1, <1>3, <1>8, <2>1 DEF SetEEMPE, Registers
<1>9. CASE OutPLLCSR
  BY <1>1, <1>3, <1>9 DEF OutPLLCSR, Registers
<1>10. CASE InPLLCSR
  BY <1>1, <1>3, <1>10 DEF InPLLCSR, RefreshPLLCSR, Registers
<1>11. CASE OutADC
  BY <1>1, <1>3, <1>11 DEF OutADC, Registers
<1>12. CASE OutTIFR0
  BY <1>1, <1>3, <1>12 DEF OutTIFR0, Registers
<1>13. CASE OutPRR0
  BY <1>1, <1>3, <1>13 DEF OutPRR0, Registers
<1>14. CASE Timer3
  BY <1>1, <1>14, InstructionSound DEF Timer3
<1>15. CASE Call
  BY <1>1, <1>15, PushSound, InstructionSound DEF Call
<1>16. CASE Return
  BY <1>1, <1>16, PopSound, InstructionSound DEF Return
<1>17. CASE Sleep
  BY <1>1, <1>17, InstructionSound DEF Sleep
<1>18. CASE SleepsOn \/ SleepsOut
  BY <1>18, AsleepSound, SaveAssumption
<1> QED BY <1>4, <1>5, <1>6, <1>7, <1>8, <1>9, <1>10, <1>11, <1>12, <1>13, <1>14, <1>15, <1>16,
           <1>17, <1>18 DEF Program

LEMMA HostSound ==
  ASSUME Consistent, HostStep
  PROVE  Sound(m)' /\ Hosted
<1>1. /\ m \in Machines /\ m.data \in Registers /\ m.debugger \in Debuggers
      /\ m.debugger.breakpointList = m.debugger.breakpoints /\ m.cpu.total \in Int
      /\ m.data.Timer0Update <= m.cpu.total
  BY DEF Consistent, Sound, Machines, Cpus, Mirrored, Past
<1>2. CASE HaltOrContinue
  BY <1>1, <1>2 DEF HaltOrContinue, Host, Sound, Past, Hosted, Machines, Debuggers, Mirrored
<1>3. CASE SetBreakpoint
  <2>1. PICK pc \in PCs :
          m' = [m EXCEPT !.debugger.breakpoints = @ \cup {pc},
                         !.debugger.breakpointList = @ \cup {pc}]
    BY <1>3 DEF SetBreakpoint, Host
  <2> DEFINE b == m.debugger.breakpoints \cup {pc}
             g == [m.debugger EXCEPT !.breakpoints = b, !.breakpointList = b]
  <2>2. b \in SUBSET PCs
    BY <1>1 DEF Debuggers
  <2>3. g \in Debuggers /\ g.breakpointList = g.breakpoints
    <3> HIDE DEF b
    <3> QED BY <1>1, <2>2 DEF Debuggers
  <2>4. m' = [m EXCEPT !.debugger = g]
    BY <1>1, <2>1 DEF Machines, Debuggers
  <2> HIDE DEF g
  <2>5. m' \in Machines /\ m'.debugger = g /\ m'.data = m.data /\ m'.cpu = m.cpu
    BY <1>1, <2>3, <2>4 DEF Machines
  <2> QED BY <1>1, <1>3, <2>3, <2>5 DEF SetBreakpoint, Host, Sound, Past, Hosted, Mirrored
<1>4. CASE ClearBreakpoint
  <2>1. PICK pc \in PCs :
          m' = [m EXCEPT !.debugger.breakpoints = @ \ {pc},
                         !.debugger.breakpointList = @ \ {pc}]
    BY <1>4 DEF ClearBreakpoint, Host
  <2> DEFINE b == m.debugger.breakpoints \ {pc}
             g == [m.debugger EXCEPT !.breakpoints = b, !.breakpointList = b]
  <2>2. b \in SUBSET PCs
    BY <1>1 DEF Debuggers
  <2>3. g \in Debuggers /\ g.breakpointList = g.breakpoints
    <3> HIDE DEF b
    <3> QED BY <1>1, <2>2 DEF Debuggers
  <2>4. m' = [m EXCEPT !.debugger = g]
    BY <1>1, <2>1 DEF Machines, Debuggers
  <2> HIDE DEF g
  <2>5. m' \in Machines /\ m'.debugger = g /\ m'.data = m.data /\ m'.cpu = m.cpu
    BY <1>1, <2>3, <2>4 DEF Machines
  <2> QED BY <1>1, <1>4, <2>3, <2>5 DEF ClearBreakpoint, Host, Sound, Past, Hosted, Mirrored
<1>5. CASE ClearFlash
  BY <1>1, <1>5 DEF ClearFlash, Host, Sound, Past, Hosted, Machines, Flashes, Mirrored
<1>6. CASE LoadFromMemory
  BY <1>1, <1>6 DEF LoadFromMemory, Host, Sound, Past, Hosted, Machines, Flashes, Mirrored
<1>7. CASE Reset
  <2>1. /\ ResetCpu \in Cpus /\ ResetData \in Registers
        /\ [pc \in PCs |-> 0] \in [PCs -> Nat] /\ 0 \in 0..CallStackLen
    BY SaveAssumption DEF ResetCpu, ResetData, Registers, Cpus
  <2>2. m' = [m EXCEPT !.cpu = ResetCpu, !.data = ResetData,
                       !.debugger = [@ EXCEPT !.halted = FALSE, !.callStackPtr = 0],
                       !.analytics = [@ EXCEPT !.pcCounter = [pc \in PCs |-> 0]]]
    BY <1>1, <1>7 DEF Reset, Host, Machines
  <2>3. [m.debugger EXCEPT !.halted = FALSE, !.callStackPtr = 0] \in Debuggers
    BY <1>1, <2>1 DEF Debuggers
  <2>4. [m.analytics EXCEPT !.pcCounter = [pc \in PCs |-> 0]] \in Countings
    BY <1>1, <2>1 DEF Countings, Machines
  <2>5. m' \in Machines
    BY <1>1, <2>1, <2>2, <2>3, <2>4 DEF Machines
  <2>6. m'.debugger = [m.debugger EXCEPT !.halted = FALSE, !.callStackPtr = 0]
    BY <1>1, <2>2 DEF Machines
  <2>7. m'.data.Timer0Update <= m'.cpu.total
    BY <1>1, <2>2 DEF Machines, ResetCpu, ResetData
  <2> QED BY <1>1, <1>7, <2>5, <2>6, <2>7 DEF Reset, Host, Sound, Past, Hosted, Mirrored, Debuggers
<1>8. CASE GetData
  <2>1. /\ update_Get_all(m.data, m.cpu.total) \in Registers
        /\ update_Get_all(m.data, m.cpu.total).Timer0Update <= m.cpu.total
    BY <1>1, FieldsOf
  <2>2. m' = m \/ m' = [m EXCEPT !.data = update_Get_all(@, m.cpu.total)]
    BY <1>8 DEF GetData
  <2>3. m'.data \in Registers /\ m'.data.Timer0Update <= m.cpu.total /\ m'.cpu = m.cpu
    BY <1>1, <2>1, <2>2 DEF Machines
  <2> QED BY <1>1, <1>8, <2>1, <2>2, <2>3 DEF GetData, Sound, Past, Hosted, Machines, Mirrored
<1> QED BY <1>2, <1>3, <1>4, <1>5, <1>6, <1>7, <1>8 DEF HostStep

LEMMA SaveSettles ==
  ASSUME Consistent, Save
  PROVE  Consistent'
<1>1. /\ m \in Machines /\ m.data \in Registers
      /\ m.debugger.breakpointList = m.debugger.breakpoints /\ m.cpu.total \in Int
      /\ m.data.Timer0Update <= m.cpu.total
  BY DEF Consistent, Sound, Machines, Cpus, Mirrored, Past
<1> DEFINE d  == update_Get_all(m.data, m.cpu.total)
           mm == [m EXCEPT !.data = update_Get_all(@, m.cpu.total)]
<1>2. d \in Registers /\ d.SREG = d.sreg /\ d.Timer0Update <= m.cpu.total
  <2> DEFINE now == m.cpu.total
  <2>1. now \in Int /\ m.data \in Registers
    BY <1>1
  <2> HIDE DEF now
  <2>2. /\ update_Get_all(m.data, now) \in Registers
        /\ update_Get_all(m.data, now).SREG = m.data.sreg
        /\ update_Get_all(m.data, now).sreg = m.data.sreg
        /\ update_Get_all(m.data, now).Timer0Update <= now
    BY <2>1, FieldsOf
  <2> QED BY <2>2 DEF now
<1>3. mm = [m EXCEPT !.data = d]
  OBVIOUS
<1>4. m' = mm /\ saved' = mm /\ stream'.parts = Parts(mm)
  BY DEF Save, getState
<1> HIDE DEF d, mm
<1>5. mm \in Machines /\ mm.data = d /\ mm.debugger = m.debugger /\ mm.cpu = m.cpu
  BY <1>1, <1>2, <1>3 DEF Machines
<1>6. Settled(mm)
  BY <1>1, <1>2, <1>5 DEF Settled, Sound, Past, Mirrored
<1> QED BY <1>4, <1>6 DEF Consistent, Settled

LEMMA LoadStep ==
  ASSUME Consistent, Load
  PROVE  m' = Loaded(m, saved) /\ Hosted
BY DEF Load, Consistent, Loaded, Hosted

LEMMA NextConsistent ==
  ASSUME Consistent, [Next]_vars
  PROVE  Consistent'
<1>1. ASSUME Sound(m)', Hosted
      PROVE  Consistent'
  BY <1>1 DEF Consistent, Hosted, Settled, Sound, Past, Mirrored
<1>2. CASE Program
  BY <1>1, <1>2, ProgramSound
<1>3. CASE HostStep
  BY <1>1, <1>3, HostSound
<1>4. CASE Save
  BY <1>4, SaveSettles
<1>5. CASE Load
  <2>1. m \in Machines /\ Settled(saved)
    BY DEF Consistent, Sound
  <2> QED BY <1>1, <1>5, <2>1, LoadStep, LoadRestores
<1>6. CASE UNCHANGED vars
  BY <1>6 DEF vars, Consistent, Settled, Sound, Past, Mirrored
<1> QED BY <1>2, <1>3, <1>4, <1>5, <1>6 DEF Next

LEMMA InitConsistent ==
  ASSUME Init
  PROVE  Consistent
<1>1. PowerOn \in Machines
  <2>1. PowerOn.data \in Registers
    BY SaveAssumption DEF PowerOn, ResetData, Registers
  <2>2. PowerOn.debugger \in Debuggers
    BY SaveAssumption DEF PowerOn, Debuggers
  <2>3. PowerOn.cpu \in Cpus /\ PowerOn.flash \in Flashes
        /\ PowerOn.analytics \in Countings
    BY SaveAssumption DEF PowerOn, ResetCpu, Cpus, Flashes, Countings
  <2> QED BY <2>1, <2>2, <2>3 DEF PowerOn, Machines
<1>2. Settled(PowerOn)
  <2>1. PowerOn.debugger.breakpointList = PowerOn.debugger.breakpoints
    BY DEF PowerOn
  <2>2. PowerOn.data = ResetData /\ PowerOn.cpu = ResetCpu
    BY DEF PowerOn
  <2>3. ResetData.Timer0Update <= ResetCpu.total /\ ResetData.sreg = ResetData.SREG
    BY DEF ResetData, ResetCpu
  <2> QED BY <1>1, <2>1, <2>2, <2>3 DEF Settled, Sound, Past, Mirrored
<1> QED BY <1>2 DEF Init, NoStream, Consistent, Settled

(* Machines stay machines, and the stream holds the parts of the machine that *)
(* was saved (getState, setState).                                            *)
THEOREM AlwaysConsistent == Spec => []Consistent
BY InitConsistent, NextConsistent, PTL DEF Spec

-----------------------------------------------------------------------------
(* The set of breakpoints the host is shown is the array, through saves, loads *)
(* and resets (updateBreakpointListFromArr).                                   *)
THEOREM BreakpointsMirrored == Spec => []ListMirrorsArray
<1>1. Consistent => ListMirrorsArray
  BY DEF Consistent, Sound, Mirrored, ListMirrorsArray
<1> QED BY <1>1, AlwaysConsistent, PTL

(* A loaded machine goes on as the saved one (setState).                       *)
THEOREM LoadedGoesOn == Spec => RestoresTheRun
<1>1. ASSUME Consistent, [Next]_vars
      PROVE  [Load => GoesOnAs(m', saved)]_vars
  <2>1. m \in Machines /\ Settled(saved)
    BY <1>1 DEF Consistent, Sound
  <2> QED BY <1>1, <2>1, LoadStep, LoadRestores
<1>2. ASSUME Consistent, [Next]_vars
      PROVE  [Load => /\ m'.cpu = saved.cpu /\ m'.data = saved.data /\ m'.flash = saved.flash
                      /\ \A r \in {"halted", "breakpoints", "breakpointList", "callStackPtr"} :
                           m'.debugger[r] = saved.debugger[r]
                      /\ Calls(m'.debugger) = Calls(saved.debugger)]_vars
  BY <1>1, <1>2 DEF GoesOnAs
<1> QED BY <1>2, AlwaysConsistent, PTL DEF Spec, RestoresTheRun

-----------------------------------------------------------------------------
\* What the program finds later, and what a refresh in between makes of it

(* A counter goes past its wrap when the reduced sum is lower, or when there are *)
(* as many ticks as it has values.                                               *)
LEMMA PastWrap ==
  ASSUME NEW n \in Nat \ {0}, NEW x \in 0..(n - 1), NEW t \in Nat
  PROVE  ((x + t) % n < x \/ t >= n) <=> x + t >= n
<1>1. CASE t >= n
  BY <1>1
<1>2. CASE ~(t >= n)
  <2>1. x + t \in 0..(2 * n - 1)
    BY <1>2
  <2>2. (x + t) % n = IF x + t < n THEN x + t ELSE (x + t) - n
    BY <2>1, WrapsOnce
  <2> QED BY <1>2, <2>2
<1> QED BY <1>1, <1>2

(* Reducing never makes more, and below the modulus it does nothing. *)
LEMMA ReducedSum ==
  ASSUME NEW n \in Nat \ {0}, NEW x \in Nat
  PROVE  x % n \in 0..(n - 1) /\ x % n <= x /\ (x < n => x % n = x)
<1>1. x % n \in 0..(n - 1)
  <2>1. x \in Int
    OBVIOUS
  <2> QED BY <2>1, DivisionParts
<1>2. CASE x < n
  BY <1>1, <1>2, SmallDivision
<1>3. CASE ~(x < n)
  BY <1>1, <1>3
<1> QED BY <1>1, <1>2, <1>3

(* Ticks are counted forwards. *)
LEMMA TicksNat ==
  ASSUME NEW d \in Registers, NEW now \in Int, d.Timer0Update <= now
  PROVE  Ticks(d, now) \in Nat
<1> DEFINE x == now - d.Timer0Update
<1>1. x \in Nat
  BY DEF Registers
<1> HIDE DEF x
<1>2. x \div Div \in Nat
  <2>1. 0 \in Nat
    OBVIOUS
  <2> QED BY <1>1, <2>1, WholeGrows, SaveAssumption
<1> QED BY <1>2 DEF Ticks, x

(* Ticks put into the counter are gone from those that are left. *)
LEMMA TicksLeft ==
  ASSUME NEW d \in Registers, NEW e \in Registers, NEW now \in Int, NEW k \in Int,
         e.Timer0Update = d.Timer0Update + Div * k
  PROVE  Ticks(e, now) = Ticks(d, now) - k
<1> DEFINE u == d.Timer0Update
           y == now - u
           whole == Div * k
<1>1. u \in Int /\ y \in Int /\ whole \in Int /\ e.Timer0Update = u + whole
  BY SaveAssumption DEF Registers
<1> HIDE DEF whole, u
<1>2. now - e.Timer0Update = (now - u) - whole
  BY <1>1
<1> HIDE DEF y
<1>3. (y - Div * k) \div Div = (y \div Div) - k
  BY <1>1, LessMultiple, SaveAssumption
<1> QED BY <1>2, <1>3 DEF Ticks, y, u, whole

(* Register by register, what the program finds: TOV0 is up if it was, or if the *)
(* counter passes its wrap while the timer runs.                                 *)
LEMMA FoundFields ==
  ASSUME NEW d \in Registers, NEW now \in Int, d.Timer0Update <= now
  PROVE  LET f == Found(d, now)
         IN  /\ f \in Registers /\ f.SREG = d.sreg /\ f.sreg = d.sreg
             /\ f.TCNT0 = (d.TCNT0 + Ticks(d, now)) % Byte
             /\ f.Timer0Update = d.Timer0Update + Div * Ticks(d, now)
             /\ f.TOV0 = (d.TOV0 \/ (~Stopped(d) /\ Unrecorded(d, now)))
             /\ f.PRTIM0 = d.PRTIM0
             /\ f.EEMPE = (d.EEMPE /\ now - d.EEMPEset <= 4) /\ f.EEMPEset = d.EEMPEset
             /\ f.PLLE = d.PLLE /\ f.PLLEset = d.PLLEset
             /\ f.PLOCK = (d.PLOCK \/ (d.PLLE /\ now > d.PLLEset))
             /\ f.ADSC = FALSE /\ f.ADCL = 0
<1> DEFINE e == updateTimers(d, now)
           f == Found(d, now)
           t == Ticks(d, now)
<1>1. e \in Registers /\ Alike(d, e)
  BY UpdatedTimers
<1>2. t \in Nat /\ d.TCNT0 \in 0..(Byte - 1) /\ d.Timer0Update \in Int /\ Div * t \in Int
  BY TicksNat, TicksInt DEF Registers
<1>3. /\ f \in Registers /\ f.SREG = e.sreg /\ f.sreg = e.sreg
      /\ f.TCNT0 = (e.TCNT0 + Ticks(e, now)) % Byte
      /\ f.Timer0Update = e.Timer0Update + Div * Ticks(e, now)
      /\ f.TOV0 = e.TOV0 /\ f.PRTIM0 = e.PRTIM0
      /\ f.EEMPE = (e.EEMPE /\ now - e.EEMPEset <= 4) /\ f.EEMPEset = e.EEMPEset
      /\ f.PLLE = e.PLLE /\ f.PLLEset = e.PLLEset
      /\ f.PLOCK = (e.PLOCK \/ (e.PLLE /\ now > e.PLLEset))
      /\ f.ADSC = FALSE /\ f.ADCL = 0
  BY <1>1, FieldsOf DEF Found
<1>4. Overflows(d, now) <=> Unrecorded(d, now)
  <2>1. Byte \in Nat \ {0}
    BY SaveAssumption
  <2>2. ((d.TCNT0 + t) % Byte < d.TCNT0 \/ t >= Byte) <=> d.TCNT0 + t >= Byte
    <3> HIDE DEF t
    <3> QED BY <1>2, <2>1, PastWrap
  <2> QED BY <2>2 DEF Overflows, Unrecorded
<1>5. /\ f.TCNT0 = (d.TCNT0 + t) % Byte /\ f.Timer0Update = d.Timer0Update + Div * t
      /\ f.TOV0 = (d.TOV0 \/ (~Stopped(d) /\ Unrecorded(d, now)))
  <2>1. CASE Stopped(d) \/ t = 0
    <3>1. e = d
      BY <2>1, UpdatedTimers
    <3>2. Stopped(d) \/ ~Unrecorded(d, now)
      BY <1>2, <2>1, SaveAssumption DEF Unrecorded
    <3>3. d.TOV0 \in BOOLEAN
      BY DEF Registers
    <3> HIDE DEF e, f
    <3> QED BY <1>3, <3>1, <3>2, <3>3
  <2>2. CASE ~(Stopped(d) \/ t = 0)
    <3>1. /\ e.TCNT0 = (d.TCNT0 + t) % Byte /\ e.Timer0Update = d.Timer0Update + Div * t
          /\ e.TOV0 = (d.TOV0 \/ Overflows(d, now))
      BY <2>2, UpdatedTimers, RefreshedTCNT0
    <3>2. Ticks(e, now) = 0
      <4>1. Ticks(e, now) = t - t
        BY <1>1, <1>2, <3>1, TicksLeft
      <4> QED BY <1>2, <4>1
    <3>3. e.TCNT0 % Byte = e.TCNT0 /\ e.TCNT0 + 0 = e.TCNT0
      <4>1. e.TCNT0 \in 0..(Byte - 1)
        BY <1>1 DEF Registers
      <4> QED BY <4>1, SmallDivision, SaveAssumption
    <3>4. e.Timer0Update + Div * 0 = e.Timer0Update
      BY <1>1, SaveAssumption DEF Registers
    <3> HIDE DEF e, f
    <3> QED BY <1>3, <1>4, <2>2, <3>1, <3>2, <3>3, <3>4
  <2> QED BY <2>1, <2>2
<1> HIDE DEF e, f
<1> QED BY <1>1, <1>3, <1>5 DEF Alike, f, t

(* A refresh in between: every register is found the same, but for an overflow *)
(* that had not been recorded.                                                 *)
LEMMA RefreshIsQuiet ==
  ASSUME NEW d \in Registers, NEW now \in Int, d.Timer0Update <= now, NEW later \in Nat
  PROVE  LET with == Found(update_Get_all(d, now), now + later)
             without == Found(d, now + later)
         IN  /\ \A r \in DOMAIN with \ {"TOV0"} : with[r] = without[r]
             /\ with.TOV0 => without.TOV0
             /\ without.TOV0 => with.TOV0 \/ Unrecorded(d, now)
<1> DEFINE e  == update_Get_all(d, now)
           end == now + later
           t1 == Ticks(d, now)
           t2 == Ticks(e, end)
           t  == Ticks(d, end)
           x  == d.TCNT0
           a  == Found(e, end)
           b  == Found(d, end)
<1>1. /\ e \in Registers /\ e.sreg = d.sreg /\ e.TOV0 = d.TOV0 /\ e.PRTIM0 = d.PRTIM0
      /\ e.TCNT0 = (x + t1) % Byte /\ e.Timer0Update = d.Timer0Update + Div * t1
      /\ e.Timer0Update <= now
      /\ e.EEMPE = (d.EEMPE /\ now - d.EEMPEset <= 4) /\ e.EEMPEset = d.EEMPEset
      /\ e.PLLE = d.PLLE /\ e.PLLEset = d.PLLEset
      /\ e.PLOCK = (d.PLOCK \/ (d.PLLE /\ now > d.PLLEset))
  BY FieldsOf
<1> HIDE DEF e
<1>2. /\ end \in Int /\ now <= end /\ x \in 0..(Byte - 1) /\ d.Timer0Update \in Int
      /\ d.Timer0Update <= end /\ e.Timer0Update <= end
      /\ d.EEMPEset \in Int /\ d.PLLEset \in Int
  BY <1>1 DEF Registers
<1>3. t1 \in Nat /\ t2 \in Nat /\ t \in Nat
  <2> HIDE DEF end
  <2> QED BY <1>1, <1>2, TicksNat
<1>4. t2 = t - t1
  <2>1. t1 \in Int
    BY <1>3
  <2> HIDE DEF t1, end
  <2> QED BY <1>1, <1>2, <2>1, TicksLeft
<1>5. /\ a \in Registers /\ a.SREG = e.sreg /\ a.sreg = e.sreg
      /\ a.TCNT0 = (e.TCNT0 + t2) % Byte /\ a.Timer0Update = e.Timer0Update + Div * t2
      /\ a.TOV0 = (e.TOV0 \/ (~Stopped(e) /\ e.TCNT0 + t2 >= Byte)) /\ a.PRTIM0 = e.PRTIM0
      /\ a.EEMPE = (e.EEMPE /\ end - e.EEMPEset <= 4) /\ a.EEMPEset = e.EEMPEset
      /\ a.PLLE = e.PLLE /\ a.PLLEset = e.PLLEset
      /\ a.PLOCK = (e.PLOCK \/ (e.PLLE /\ end > e.PLLEset)) /\ a.ADSC = FALSE /\ a.ADCL = 0
  <2> HIDE DEF end
  <2> QED BY <1>1, <1>2, FoundFields DEF Unrecorded
<1>6. /\ b \in Registers /\ b.SREG = d.sreg /\ b.sreg = d.sreg
      /\ b.TCNT0 = (x + t) % Byte /\ b.Timer0Update = d.Timer0Update + Div * t
      /\ b.TOV0 = (d.TOV0 \/ (~Stopped(d) /\ x + t >= Byte)) /\ b.PRTIM0 = d.PRTIM0
      /\ b.EEMPE = (d.EEMPE /\ end - d.EEMPEset <= 4) /\ b.EEMPEset = d.EEMPEset
      /\ b.PLLE = d.PLLE /\ b.PLLEset = d.PLLEset
      /\ b.PLOCK = (d.PLOCK \/ (d.PLLE /\ end > d.PLLEset)) /\ b.ADSC = FALSE /\ b.ADCL = 0
  <2> HIDE DEF end
  <2> QED BY <1>2, FoundFields DEF Unrecorded
<1> HIDE DEF a, b, t1, t2, t, x
<1>7. a.TCNT0 = b.TCNT0
  <2>1. x \in Int /\ t1 \in Int /\ t2 \in Int /\ Byte \in Nat \ {0} /\ t1 + t2 = t
    BY <1>2, <1>3, <1>4, SaveAssumption
  <2>2. \A c \in Int : Moved(Moved(x, t1, Byte), c, Byte) = Moved(x, t1 + c, Byte)
    BY <2>1, AddTwice
  <2>3. Moved(Moved(x, t1, Byte), t2, Byte) = Moved(x, t, Byte)
    BY <2>1, <2>2
  <2> QED BY <1>1, <1>5, <1>6, <2>3 DEF Moved
<1>8. a.Timer0Update = b.Timer0Update
  <2>1. Div * t2 = Div * t - Div * t1
    BY <1>3, <1>4, SaveAssumption
  <2>2. Div * t2 \in Int /\ Div * t \in Int /\ Div * t1 \in Int
    BY <1>3, SaveAssumption
  <2> DEFINE p == Div * t2
             q == Div * t
             r == Div * t1
  <2>3. p = q - r /\ p \in Int /\ q \in Int /\ r \in Int
    BY <2>1, <2>2
  <2>4. /\ e.Timer0Update = d.Timer0Update + r /\ a.Timer0Update = e.Timer0Update + p
        /\ b.Timer0Update = d.Timer0Update + q
    BY <1>1, <1>5, <1>6
  <2> HIDE DEF p, q, r
  <2> QED BY <1>2, <2>3, <2>4
<1>9. a.EEMPE = b.EEMPE /\ a.PLOCK = b.PLOCK
  <2>1. now - d.EEMPEset <= end - d.EEMPEset /\ (now > d.PLLEset => end > d.PLLEset)
    BY <1>2
  <2>2. (end - d.EEMPEset <= 4) => (now - d.EEMPEset <= 4)
    BY <1>2
  <2> HIDE DEF end
  <2> QED BY <1>1, <1>5, <1>6, <2>1, <2>2
<1>10. /\ a.TOV0 => b.TOV0
       /\ b.TOV0 => a.TOV0 \/ x + t1 >= Byte
  <2>1. e.TCNT0 \in Nat /\ e.TCNT0 <= x + t1 /\ (x + t1 < Byte => e.TCNT0 = x + t1)
    <3> DEFINE y == x + t1
    <3>1. y \in Nat /\ Byte \in Nat \ {0} /\ e.TCNT0 = y % Byte
      BY <1>1, <1>2, <1>3, SaveAssumption
    <3> HIDE DEF y
    <3>2. y % Byte \in 0..(Byte - 1) /\ y % Byte <= y /\ (y < Byte => y % Byte = y)
      BY <3>1, ReducedSum
    <3> QED BY <3>1, <3>2 DEF y
  <2>2. e.TCNT0 + t2 >= Byte => x + t >= Byte
    BY <1>2, <1>3, <1>4, <2>1, SaveAssumption
  <2>3. x + t1 < Byte => e.TCNT0 + t2 = x + t
    BY <1>2, <1>3, <1>4, <2>1, SaveAssumption
  <2>4. x + t1 < Byte \/ x + t1 >= Byte
    BY <1>2, <1>3, SaveAssumption
  <2>5. Stopped(e) <=> Stopped(d)
    BY <1>1 DEF Stopped
  <2> QED BY <1>1, <1>5, <1>6, <2>2, <2>3, <2>4, <2>5
<1>11. /\ a.SREG = b.SREG /\ a.sreg = b.sreg /\ a.PRTIM0 = b.PRTIM0 /\ a.EEMPEset = b.EEMPEset
       /\ a.PLLE = b.PLLE /\ a.PLLEset = b.PLLEset /\ a.ADSC = b.ADSC /\ a.ADCL = b.ADCL
  BY <1>1, <1>5, <1>6
<1>12. \A r \in DOMAIN a \ {"TOV0"} : a[r] = b[r]
  <2>1. DOMAIN a = {"SREG", "sreg", "TCNT0", "TOV0", "PRTIM0", "Timer0Update", "EEMPE",
                    "EEMPEset", "PLLE", "PLOCK", "PLLEset", "ADSC", "ADCL"}
    BY <1>5 DEF Registers
  <2> QED BY <1>7, <1>8, <1>9, <1>11, <2>1
<1> QED BY <1>10, <1>12 DEF Unrecorded, a, b, e, x, t1

(* Saving, or looking at the registers, rewrites them and yet the program finds the *)
(* same in each afterwards, at once or later, except that an overflow no update has *)
(* recorded is lost (getState, getData).                                            *)
THEOREM SavingIsQuiet == Spec => SaveIsQuiet
<1>1. ASSUME Consistent, [Next]_vars
      PROVE  [Save \/ GetData => \A later \in 0..(Byte * Div) :
                LET now == m.cpu.total + later
                    with == Found(m'.data, now)
                    without == Found(m.data, now)
                IN  /\ \A r \in DOMAIN with \ {"TOV0"} : with[r] = without[r]
                    /\ with.TOV0 => without.TOV0
                    /\ without.TOV0 => with.TOV0 \/ Unrecorded(m.data, m.cpu.total)]_vars
  <2> SUFFICES ASSUME Save \/ GetData, NEW later \in 0..(Byte * Div)
               PROVE  LET now == m.cpu.total + later
                          with == Found(m'.data, now)
                          without == Found(m.data, now)
                      IN  /\ \A r \in DOMAIN with \ {"TOV0"} : with[r] = without[r]
                          /\ with.TOV0 => without.TOV0
                          /\ without.TOV0 => with.TOV0 \/ Unrecorded(m.data, m.cpu.total)
    OBVIOUS
  <2>1. /\ m \in Machines /\ m.data \in Registers /\ m.cpu.total \in Int /\ later \in Nat
        /\ m.data.Timer0Update <= m.cpu.total
    BY <1>1, SaveAssumption DEF Consistent, Sound, Past, Machines, Cpus
  <2>2. m' = m \/ m' = [m EXCEPT !.data = update_Get_all(m.data, m.cpu.total)]
    BY DEF Save, GetData
  <2>3. m'.data = m.data \/ m'.data = update_Get_all(m.data, m.cpu.total)
    BY <2>1, <2>2 DEF Machines
  <2>4. CASE m'.data = m.data
    BY <2>4
  <2>5. CASE m'.data = update_Get_all(m.data, m.cpu.total)
    BY <2>1, <2>5, RefreshIsQuiet
  <2> QED BY <2>3, <2>4, <2>5
<1> QED BY <1>1, AlwaysConsistent, PTL DEF Spec, SaveIsQuiet
=============================================================================
