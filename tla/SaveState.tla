------------------------------ MODULE SaveState ------------------------------
(***************************************************************************)
(* Saving the whole machine to a stream (getState), loading it back into a *)
(* machine that has moved on (setState), reset, and the host's look at the *)
(* registers (getData). Much of the state exists twice: the flags in SREG  *)
(* and in the cache sreg, TCNT0 and the cycles since its last update, the  *)
(* breakpoints in an array and in a set. The stream holds one copy of each *)
(* and loading must bring back both. The host calls between two slices of  *)
(* execute4T, awake or in a sleep that lasts longer than the slice. No     *)
(* interrupt of timer 0 is enabled; those of the others end a sleep.       *)
(***************************************************************************)
EXTENDS Integers, Sequences

CONSTANTS
  PCs,           \* program addresses, the reset vector 0 among them
  CallStackLen,  \* entries of callStack (512)
  CallsSaved,    \* entries of it in the stream: 512 bytes of 4 each (128)
  CountersSaved, \* addresses whose 8-byte counter is in the stream (1/8 of them)
  Div, Byte,     \* divisor of timer 0, above 1, and modulus of TCNT0 and uint8_t
  Naps,          \* cycles slept in one go
  MaxSteps       \* bound on the length of a behaviour

ASSUME SaveAssumption ==
  /\ 0 \in PCs /\ CountersSaved \subseteq PCs
  /\ CallStackLen \in Nat /\ CallsSaved \in 0..CallStackLen
  /\ Div \in Nat \ {0} /\ Byte \in Nat \ {0} /\ Naps \subseteq Nat /\ MaxSteps \in Nat

VARIABLES
  m,       \* the machine, a record of its components
  inPass,  \* whether a pass of execute4T over some instructions is under way
  stream,  \* what the last getState wrote: parts and hashes
  saved,   \* the machine as that getState left it (a history variable)
  warned,  \* components whose hash did not match in the last setState
  seen,    \* lastCycs of getData, the cycle of its last refresh
  steps
vars == <<m, inPass, stream, saved, warned, seen, steps>>

-----------------------------------------------------------------------------
\* The machine after power-on, a program loaded and timer 0 running

ResetCpu == [pc |-> 0, total |-> 0, sleep |-> FALSE]
ResetData == [SREG |-> FALSE, sreg |-> FALSE, TCNT0 |-> 0, TOV0 |-> FALSE,
              PRTIM0 |-> FALSE, Timer0Update |-> 0, EEMPE |-> FALSE, EEMPEset |-> 0,
              PLLE |-> FALSE, PLOCK |-> FALSE, PLLEset |-> 0, ADSC |-> FALSE, ADCL |-> 0]
PowerOn ==
  [cpu |-> ResetCpu, data |-> ResetData, Timer3ATriggered |-> FALSE,
   flash |-> [program |-> "first", hasProgram |-> TRUE],
   debugger  |-> [halted |-> FALSE, breakpoints |-> {}, breakpointList |-> {},
                  callStackPtr |-> 0, callStack |-> [i \in 1..CallStackLen |-> 0]],
   analytics |-> [pcCounter |-> [pc \in PCs |-> 0], instTotalCnt |-> 0]]

-----------------------------------------------------------------------------
\* update_Get_impl: registers that are kept lazily are brought up to date

Ticks(d, now) == (now - d.Timer0Update) \div Div
\* mutant: marks the present cycle instead of the last whole tick
RefreshTCNT0Now(d, now) ==
  [d EXCEPT !.TCNT0 = (@ + Ticks(d, now)) % Byte, !.Timer0Update = now]
RefreshTCNT0(d, now) ==
  [d EXCEPT !.TCNT0 = (@ + Ticks(d, now)) % Byte, !.Timer0Update = @ + Div * Ticks(d, now)]
RefreshSREG(d) == [d EXCEPT !.SREG = d.sreg]
RefreshEECR(d, now) == [d EXCEPT !.EEMPE = @ /\ now - d.EEMPEset <= 4]
RefreshPLLCSR(d, now) == [d EXCEPT !.PLOCK = @ \/ (d.PLLE /\ now > d.PLLEset)]
\* A conversion is done at once and its result is 0
RefreshADC(d) == [d EXCEPT !.ADSC = FALSE, !.ADCL = 0]
update_Get_all(d, now) ==
  RefreshADC(RefreshSREG(RefreshTCNT0(RefreshPLLCSR(RefreshEECR(d, now), now), now)))

\* updateTimers, its part for timer 0: as a refresh, but with the wrap recorded. Its
\* divisor is a uint8_t, and a divisor of 256 or 1024 is 0 in it.
updateTimers(d, now) ==
  LET next == (d.TCNT0 + Ticks(d, now)) % Byte
      overflow == next < d.TCNT0 \/ Ticks(d, now) >= Byte
  IN  IF d.PRTIM0 \/ Div % Byte = 0 \/ Ticks(d, now) = 0 THEN d
      ELSE [RefreshTCNT0(d, now) EXCEPT !.TOV0 = @ \/ overflow]

-----------------------------------------------------------------------------
\* The shadow call stack. The range checks of the code expand to nothing; a call or an
\* interrupt for which there is no entry left, and a return without one, are left out.

HasRoom(g) == g.callStackPtr < CallStackLen
pushPCOnCallStack(g, pc) ==
  [g EXCEPT !.callStack[g.callStackPtr + 1] = pc, !.callStackPtr = @ + 1]
popPCFromCallStack(g) == [g EXCEPT !.callStack[g.callStackPtr] = 0, !.callStackPtr = @ - 1]

-----------------------------------------------------------------------------
\* The program: an instruction of one cycle, which the analytics count. The pass
\* ends with it or goes on; an update of the timers ends every pass.

addData(a, pc) == [a EXCEPT !.pcCounter[pc] = @ + 1, !.instTotalCnt = @ + 1]

Executes == m.flash.hasProgram /\ ~m.debugger.halted /\ UNCHANGED <<stream, saved, warned, seen>>
Instruction(d, dbg, triggered, sleep) ==
  /\ Executes /\ ~m.cpu.sleep
  /\ \E pc \in PCs, ends \in BOOLEAN :
       LET now == m.cpu.total + 1
       IN  /\ sleep => ends
           /\ m' = [m EXCEPT !.cpu = [pc |-> pc, total |-> now, sleep |-> sleep],
                             !.data = IF ends THEN updateTimers(d, now) ELSE d,
                             !.debugger = dbg, !.Timer3ATriggered = triggered,
                             !.analytics = addData(@, m.cpu.pc)]
           /\ inPass' = ~ends

OnData(d) == Instruction(d, m.debugger, m.Timer3ATriggered, FALSE)
Flag      == \E b \in BOOLEAN : OnData([m.data EXCEPT !.sreg = b])
InSREG    == OnData(RefreshSREG(m.data))
OutSREG   == \E b \in BOOLEAN : OnData([m.data EXCEPT !.SREG = b, !.sreg = b])
InTCNT0   == OnData(RefreshTCNT0(m.data, m.cpu.total))
SetEEMPE  ==
  LET d == RefreshEECR(m.data, m.cpu.total)
  IN  OnData([d EXCEPT !.EEMPE = TRUE, !.EEMPEset = IF d.EEMPE THEN @ ELSE m.cpu.total])
\* setPLLCSR: PLLE going up is timed, PLLE going down takes PLOCK with it
OutPLLCSR == \E plle, plock \in BOOLEAN :
  OnData([m.data EXCEPT !.PLLE = plle, !.PLOCK = plock /\ (plle \/ ~m.data.PLLE),
                        !.PLLEset = IF plle /\ ~m.data.PLLE THEN m.cpu.total ELSE @])
InPLLCSR  == OnData(RefreshPLLCSR(m.data, m.cpu.total))
OutADC    == OnData([m.data EXCEPT !.ADSC = TRUE]) \/ OnData([m.data EXCEPT !.ADCL = 1])
OutTIFR0  == \E b \in BOOLEAN : OnData([m.data EXCEPT !.TOV0 = b])
OutPRR0   == \E b \in BOOLEAN : OnData([m.data EXCEPT !.PRTIM0 = b])
Timer3    == \E b \in BOOLEAN : Instruction(m.data, m.debugger, b, FALSE)
Call      ==
  /\ HasRoom(m.debugger)
  /\ Instruction(m.data, pushPCOnCallStack(m.debugger, m.cpu.pc), m.Timer3ATriggered, FALSE)
Return    ==
  /\ m.debugger.callStackPtr > 0
  /\ Instruction(m.data, popPCFromCallStack(m.debugger), m.Timer3ATriggered, FALSE)
Sleep     == Instruction(m.data, m.debugger, m.Timer3ATriggered, TRUE)

\* A sleep that the slice ends in: no update of the timers
SleepsOn ==
  /\ Executes /\ m.cpu.sleep /\ UNCHANGED inPass
  /\ \E c \in Naps : m' = [m EXCEPT !.cpu.total = @ + c]
\* sleepCycsLeft has run out: the timers are updated, and an interrupt, if one is
\* taken, wakes the machine (directExecuteInterrupt)
SleepsOut ==
  /\ Executes /\ m.cpu.sleep /\ UNCHANGED inPass
  /\ \E c \in Naps, pc \in PCs, woken \in {FALSE, HasRoom(m.debugger)} :
       LET now == m.cpu.total + c
       IN  m' = [m EXCEPT
                   !.cpu = IF woken THEN [pc |-> pc, total |-> now + 5, sleep |-> FALSE]
                           ELSE [m.cpu EXCEPT !.total = now],
                   !.data = updateTimers(@, now),
                   !.debugger = IF woken THEN pushPCOnCallStack(@, m.cpu.pc) ELSE @]

-----------------------------------------------------------------------------
\* The host, between two slices

Host(mm) == m' = mm /\ ~inPass /\ UNCHANGED <<inPass, stream, saved, warned, seen>>
HaltOrContinue == Host([m EXCEPT !.debugger.halted = ~@])
SetBreakpoint == \E pc \in PCs :
  Host([m EXCEPT !.debugger.breakpoints = @ \cup {pc}, !.debugger.breakpointList = @ \cup {pc}])
ClearBreakpoint == \E pc \in PCs :
  Host([m EXCEPT !.debugger.breakpoints = @ \ {pc}, !.debugger.breakpointList = @ \ {pc}])
ClearFlash == Host([m EXCEPT !.flash = [program |-> "none", hasProgram |-> FALSE]])
LoadFromMemory == Host([m EXCEPT !.flash = [program |-> "second", hasProgram |-> TRUE]])
\* Breakpoints, instTotalCnt and Timer3ATriggered outlive a reset
Reset ==
  Host([m EXCEPT !.cpu = ResetCpu, !.data = ResetData,
                 !.debugger.halted = FALSE, !.debugger.callStackPtr = 0,
                 !.analytics.pcCounter = [pc \in PCs |-> 0]])
\* getData refreshes when the cycle is not the one of its last refresh
GetData ==
  /\ ~inPass /\ m' = IF seen = m.cpu.total THEN m
          ELSE [m EXCEPT !.data = update_Get_all(@, m.cpu.total)]
  /\ seen' = m.cpu.total
  /\ UNCHANGED <<inPass, stream, saved, warned>>

-----------------------------------------------------------------------------
\* The stream: the parts in order, a hash behind each component's part and
\* one behind them all. The hash is taken to tell different states apart.

Hash(of, mm) ==
  [of |-> of,
   val |-> CASE of = "CPU" -> <<mm.cpu>>          [] of = "DataSpace" -> <<mm.data>>
             [] of = "Flash" -> <<mm.flash>>      [] of = "Debugger" -> <<mm.debugger>>
             [] of = "Analytics" -> <<mm.analytics>>
             [] of = "ATmega32u4" -> <<mm.cpu, mm.data, mm.flash, mm.analytics, mm.debugger>>]

\* The part of the debugger and of the analytics that is written
Calls(g) == [i \in 1..CallsSaved |-> g.callStack[i]]
Counters(a) == [pc \in CountersSaved |-> a.pcCounter[pc]]
Parts(mm) ==
  [cpu |-> mm.cpu, flash |-> mm.flash, counters |-> Counters(mm.analytics),
   data |-> [r \in DOMAIN mm.data \ {"sreg"} |-> mm.data[r]],
   debugger |-> [r \in DOMAIN mm.debugger \ {"breakpointList", "callStack"} |-> mm.debugger[r]],
   calls |-> Calls(mm.debugger)]

NoStream == [parts |-> Parts(PowerOn), hashes |-> << >>]
Init == /\ m = PowerOn /\ inPass = FALSE /\ stream = NoStream /\ saved = PowerOn
        /\ warned = {} /\ seen = 0 /\ steps = 0

Written == <<"CPU", "DataSpace", "Flash", "Debugger", "ATmega32u4">>
Read    == <<"CPU", "DataSpace", "Flash", "Debugger", "Analytics", "ATmega32u4">>

\* getState updates the machine it saves
getState(mm) ==
  [parts |-> Parts(mm), hashes |-> [i \in DOMAIN Written |-> Hash(Written[i], mm)]]
Save ==
  LET mm == [m EXCEPT !.data = update_Get_all(@, m.cpu.total)]
  IN  /\ ~inPass /\ m' = mm /\ saved' = mm /\ stream' = getState(mm)
      /\ UNCHANGED <<inPass, warned, seen>>

updateSREGCache(d) ==
  [r \in DOMAIN ResetData |-> IF r = "sreg" THEN d.SREG ELSE d[r]]
\* mutant: the set is left as it was
updateBreakpointListNever(g) == g
updateBreakpointListFromArr(g) == [g EXCEPT !.breakpointList = g.breakpoints]

\* The debugger as read, the set of breakpoints still that of before
ReadDebugger(g, parts) ==
  [r \in DOMAIN g |->
     CASE r = "breakpointList" -> g.breakpointList
       [] r = "callStack" -> [i \in 1..CallStackLen |->
                                IF i <= CallsSaved THEN parts.calls[i] ELSE g.callStack[i]]
       [] OTHER -> parts.debugger[r]]
ReadAnalytics(a, parts) ==
  [a EXCEPT !.pcCounter = [pc \in PCs |-> IF pc \in CountersSaved THEN parts.counters[pc]
                                          ELSE @[pc]]]

\* mutant: the flag cache is not filled from the SREG that was read
setStateNoCache(mm, parts) ==
  [mm EXCEPT !.cpu = parts.cpu,
             !.data = [r \in DOMAIN mm.data |-> IF r = "sreg" THEN mm.data.sreg ELSE parts.data[r]],
             !.flash = parts.flash, !.debugger = ReadDebugger(@, parts),
             !.analytics = ReadAnalytics(@, parts)]
setState(mm, parts) ==
  [mm EXCEPT !.cpu = parts.cpu, !.data = updateSREGCache(parts.data),
             !.flash = parts.flash, !.debugger = ReadDebugger(@, parts),
             !.analytics = ReadAnalytics(@, parts)]
\* A32U4_CHECK_HASH: each check reads the next hash of the stream. The set of
\* breakpoints is rebuilt behind the check of the debugger.
Mismatches(mm, hashes) ==
  LET rebuilt == [mm EXCEPT !.debugger = updateBreakpointListFromArr(@)]
      Loaded(of) == IF of \in {"Analytics", "ATmega32u4"} THEN rebuilt ELSE mm
      Ok(i) == i \in DOMAIN hashes /\ hashes[i] = Hash(Read[i], Loaded(Read[i]))
  IN  {Read[i] : i \in {j \in DOMAIN Read : ~Ok(j)}}

Load ==
  /\ ~inPass /\ stream.hashes # << >>
  /\ LET mm == setState(m, stream.parts)
     IN  /\ m' = [mm EXCEPT !.debugger = updateBreakpointListFromArr(@)]
         /\ warned' = Mismatches(mm, stream.hashes)
  /\ UNCHANGED <<inPass, stream, saved, seen>>

-----------------------------------------------------------------------------
Program == \/ Flag \/ InSREG \/ OutSREG \/ InTCNT0 \/ SetEEMPE \/ OutPLLCSR \/ InPLLCSR
           \/ OutADC \/ OutTIFR0 \/ OutPRR0 \/ Timer3 \/ Call \/ Return
           \/ Sleep \/ SleepsOn \/ SleepsOut
HostStep == \/ HaltOrContinue \/ SetBreakpoint \/ ClearBreakpoint \/ ClearFlash
            \/ LoadFromMemory \/ Reset \/ GetData
Next == /\ steps < MaxSteps /\ steps' = steps + 1
        /\ Program \/ HostStep \/ Save \/ Load
Spec == Init /\ [][Next]_vars

-----------------------------------------------------------------------------
\* A loaded machine goes on as the saved one would have: cycles, flags as the
\* instructions see them, every register and its time, the program, whether it
\* sleeps, where it is halted, its breakpoints and as many calls as the stream holds
\* (ATmega32u4::getState, setState). Timer3ATriggered is not among them.
RestoresTheRun ==
  [][Load => /\ m'.cpu = saved.cpu /\ m'.data = saved.data /\ m'.flash = saved.flash
             /\ \A r \in {"halted", "breakpoints", "breakpointList", "callStackPtr"} :
                  m'.debugger[r] = saved.debugger[r]
             /\ Calls(m'.debugger) = Calls(saved.debugger)]_vars

\* Whatever is saved, loaded, reset or cleared, the set of breakpoints the host
\* is shown is the array the machine stops by (updateBreakpointListFromArr).
ListMirrorsArray == m.debugger.breakpointList = m.debugger.breakpoints

\* What the program finds in the registers at a later cycle, after the update of
\* the timers that ends a pass or a sleep
Found(d, now) == update_Get_all(updateTimers(d, now), now)
\* TCNT0 has passed its wrap and no update has raised TOV0 for it yet
Unrecorded(d, now) == d.TCNT0 + Ticks(d, now) >= Byte

\* A save or a look at the registers rewrites them (getState, getData, update_Get_all),
\* and yet the program finds the same in each of them afterwards, now and at any later
\* cycle, but for TOV0. That flag is never raised too much, and is lost only if the
\* counter had passed its wrap unrecorded: then the refresh moves TCNT0 on without it.
SaveIsQuiet ==
  [][Save \/ GetData => \A later \in 0..(Byte * Div) :
       LET now == m.cpu.total + later
           with == Found(m'.data, now)
           without == Found(m.data, now)
       IN  /\ \A r \in DOMAIN with \ {"TOV0"} : with[r] = without[r]
           /\ with.TOV0 => without.TOV0
           /\ without.TOV0 => with.TOV0 \/ Unrecorded(m.data, m.cpu.total)]_vars

\* "read state hash does not match" (ATmega32u4.h:41) is said of a stream that
\* is not what was saved: loading an undamaged one never says it.
HashesMatch == warned = {}
=============================================================================
