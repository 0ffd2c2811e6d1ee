# A verification development for the ATmega32u4 emulator

TLA+ modules, TLC configurations and TLAPS proofs about the C++ emulator in
`src/src`. Every definition follows the source; line references are to the
files there (`CPUTemplates.h`, `CPU.cpp`, `DataSpace.cpp`, `Flash.cpp` and
`InstHandler*.{h,cpp}` are under `components/`; `Debugger.cpp`,
`Analytics.cpp` and `Disassembler.cpp` under `extras/`).

## 1. Inventory

The program is a library: a host (a GUI, a test driver) owns an `ATmega32u4`
and calls it from one thread. Nothing in the library runs concurrently. What is
hard about it is not threads but *laziness*: time, timers and status bits are
cached and brought up to date late, by whoever happens to need them, in the
middle of whatever is running; flags, breakpoints and instructions exist twice.

| component | state | operations | what makes it correct | modelled in |
|---|---|---|---|---|
| Execution loop, `CPU::execute4T` | `totalCycls` (bit 63: leave the inner loop), `targetCycls`, `CPU_sleep`, `sleepCycsLeft`, local `currTargetCycls` | `execute(amt)`, one pass per prescaler class, sleep skip, halted return | a slice uses its cycles, all of them, and overshoots by a bounded amount; it ends; no timer deadline is missed inside it | `ExecLoop`, `DebugLoop` |
| Timer/counter 0 | TCNT0, TIFR0, TIMSK0, TCCR0B, PRR0, `lastSet.Timer0Update` | `doTicks`, `updateTimers`, `markTimer0Update`, `cycsToNextTimerInt`, register reads and writes | the same count and flag as a timer that ticks every cycle | `Timer0`, `Timer0Eager` |
| Timers 3 and 4 | TCNT3, OCR3A, TIFR3, TIMSK3, `Timer3ATriggered`; TCNT4, OCR4A, TIMSK4, TCCR4B, `Timer4ATriggered`, pin OC4A | the same functions | true counts; one event per passage of the compare value or overflow, at its deadline | `Timers34` |
| Interrupts | `sreg[I]`, `insideInterrupt`, PC, stack | `checkForIntr`, `directExecuteInterrupt`, RETI | taken when enabled, return to the interrupted instruction | `Timer0`, `CallStack` |
| Debugger | `halted`, `doStep`, `skipCycs`, breakpoints | `halt`, `continue_`, `step`, `checkBreakpoints`, `doHaltActions` | stops at every breakpoint once, a step runs one instruction | `DebugLoop` |
| Shadow call stack | `callStack`, `callStackPtr`, `addressStackIndicators`, `lastSPRecived` | `pushPCOnCallStack`, `registerAddressBytes`, `registerStackDec` | mirrors the calls that are on the real stack | `CallStack` |
| EEPROM | `eeprom`, EECR, EEAR, EEDR, `lastSet.EECR_EEMPE` | `setEECR`, EECR read | writes only inside the EEMPE window, reads of the right cell | `Peripherals` |
| PLL, ADC, SPI | PLLCSR, ADCSRA, SPDR, SPSR | `setPLLCSR`, `setSPDR`, `update_Get_impl` | status bits follow time, polls end | `Peripherals` |
| SREG and its cache | `data[SREG]`, `sreg` | `updateSREGCache`, `getByteAt(SREG)`, `setFlags_*` | cache and byte agree where anyone looks | `Alu`, `SaveState` |
| Decoder | - | `callInstSwitch2`, `callInstSwitch`, `getInstInd3`, `is2WordInst`, operand getters | both dispatchers name the same instruction for every word | `Decoder` |
| Instruction bodies: ALU | GPRs, SREG | about 50 instructions and the functions that set flags | multi-byte sums, comparisons, shifts, products | `Alu`, `AluPrograms` |
| Instruction bodies: data transfer, skips, branches | GPRs, pointers, SP, RAM, PC | loads, stores, LPM, PUSH, POP, CPSE, SBRC, SBRS, BRBS, ... | copies arrive whole, skips land on instructions | `Memory` |
| Save state, reset | all of the above | `getState`, `setState`, `reset`, `getData` | a restored machine goes on as the saved one | `SaveState` |
| Flash | image, `hasProgram` | `loadFromMemory`, `clear`, `getInst`, `getByte` | - | `SaveState`, `Memory`, `Disassembly` |
| Analytics | counters | `addData`, `getState`, `setState`, `reset` | - | `SaveState`, `Disassembly` |
| Disassembler | lines, labels, arrows | `disassembleBinFile`, `disasmRecurse`, `getJumpDests` | lists everything that can execute, and ends | `Disassembly` |
| Copying and comparing machines | - | copy constructors, `operator==` | - | not modelled |
| Interrupt queue | `interruptFlags` | `queueInterrupt`, `executeInterrupts` | - | dead code |
| `CPP_Utils` | - | logging, streams, hashes | external; the submodule is empty | not modelled |

**Interaction.** `execute4T` runs instructions; an instruction reads and writes
data space through `getByteAt`/`setByteAt`, whose `update_Get`/`update_Set`
call the timer, EEPROM and interrupt code, which in turn changes the very
`totalCycls`, `PC` and `CPU_sleep` the loop is using. Between slices the host
may read memory (`getData`, which refreshes lazily kept registers), halt,
continue, reset, load and save. The disassembler and the analytics decode with
the table (`getInstInd3`), the CPU with a nested switch.

**Hard behaviours**, each listed at its line in `PROJECT.json` under
`hazards`: a deadline computed once and trusted for many instructions; a
counter moved under a running deadline or a sleep; bit 63 as an out-of-band
request inside a compared number; -1 as "none" inside wrapping arithmetic; an
8-bit copy of a 16-bit divisor; a match recognised from two counter values
only; an interrupt entered in the middle of an instruction; a sleep that
crosses slices; a halted slice that gives its cycles back; an EEPROM window
that expires between two instructions; flags that are right for one byte and
wrong for the next; a stream that holds one of two copies of a fact.

## 2. Structure

The modules were written in this order: what the rest of the emulator relies on
first.

1. `Timer0`, `ExecLoop`: timekeeping, against the abstract `Timer0Eager`.
2. `CallStack`: calls, interrupts and the shadow call stack, against the
   abstract stack of frames `CallFrames`.
3. `DebugLoop`: `execute4T<true>`: breakpoints, step, `skipCycs`.
4. `Alu`, `AluPrograms`, `Memory`: instruction bodies, run as the sequences
   compilers emit.
5. `Decoder`, `Disassembly`: decoding of every word and the disassembler's walk.
6. `Timers34`, `Peripherals`: the other devices of `DataSpace`.
7. `SaveState`: save, load, reset and the host's look at memory.

What could be added next: proofs about the words of `Decoder`; interrupts taken at the points where `ExecLoop` takes them
composed with `CallStack`; timers 3 and 4 together with timer 0.

## 3. The modules

| module | what it models |
|---|---|
| `Timer0` | machine record and the `DataSpace`/`CPU` functions that keep time, each as an operator from machine to machine |
| `ExecLoop` | `execute4T<false>`, the instruction classes it runs and the host |
| `Timer0Eager` | abstract: a timer that counts every cycle |
| `ExecLoopRefinement` | the mapping from the lazy timer to the eager one |
| `ExecLoopClaims` | what a comment in the source says and the code does not do |
| `MCExecLoop` | values of the constants for TLC |
| `CallStack` | return addresses on the stack, SP, `insideInterrupt`, and the debugger's marks and call stack, under any program with given habits |
| `CallFrames` | abstract: the list of frames, no memory |
| `MCCallStack` | two instances of `CallStack` with different programs |
| `DebugLoop` | the debugger's control of the loop, `execute4T<true>` and `<false>`, with abstract timers |
| `Alu` | arithmetic, logic, shift, bit and multiplication instructions and their flags, as operators |
| `AluPrograms` | a register machine that runs sequences of them |
| `Memory` | loads, stores, moves, PUSH and POP, LPM, skips and branches, and a machine that runs loops and frames made of them |
| `Decoder` | the table, the search, both dispatchers, operand getters, on every word |
| `Disassembly` | the disassembler's recursive walk |
| `MCInstructions` | `AluPrograms`, `Memory`, `Decoder` and `Disassembly` in one run |
| `Timers34` | timers 3 and 4 and the passes that update them |
| `Peripherals` | EEPROM, PLL, ADC and SPI registers under drivers |
| `MCDevices` | `Timers34` and `Peripherals` in one run |
| `SaveState` | the machine as a record of its components, the stream, hashes, host and program |
| `Division` | lemmas about quotients and remainders |
| `ExecLoop_proofs`, `CallStack_proofs`, `DebugLoop_proofs`, `SaveState_proofs`, `Devices_proofs`, `Memory_proofs`, `Instructions_proofs` | theorems |

The `MC...` modules of several components start with a choice of the one that
runs; the others keep their initial state, since they share none.

### Timekeeping: `Timer0`, `ExecLoop`

**State.** `mcu` is one record because the C++ functions call each other in the
middle of an instruction; a function of the source is an operator on it, so a
handler is one composition and one step. `mcu.brk` is bit 63 of `totalCycls`
kept apart (`mcu.total` is the other 63 bits); a comparison
`totalCycls < x` in the source is therefore `~mcu.brk /\ mcu.total < x`.
`mcu.pc` is abstracted to what interrupt entry can get wrong: ordinary code, at
a vector, one word past a vector. `mcu.count` is the static counter of
`directExecuteInterrupt`, modulo 2, so that an entry is visible as a step.
`mcu.trap` is the death of the process on an integer division by zero (x86).
`loop`, `amt` and `currTarget` are where `execute4T` is and its locals.
`stale` is a history variable: an instruction since the deadline was computed
was one of those that move the overflow without leaving the inner loop
(TIMSK0, PRR0, TCNT0), or the deadline was the -1 collision of
`cycsToNextTimerInt`. `BoundedLateness` and `NoFetchPastOverflow` are claims
about the other deadlines.

**Actions.** One per pass through the loop or instruction:

| action | source |
|---|---|
| `Execute`, `HostRead`, `HostHalt`, `HostContinue`, `HostReset` | `ATmega32u4::execute`, `DataSpace::getData`, `Debugger::halt`, `continue_`, `ATmega32u4::reset` |
| `HaltedReturn`, `StartInner`, `EndInner`, `SleepDone`, `SleepOn`, `EndSlice` | `CPUTemplates.h` 38-41, 60-66, 73-75, 92-105, 107-120, 123-127 |
| `Plain` ... `Break` | one instruction, from fetch to the loop's epilogue after it (48-57 or 70-71) |

The emulated program is arbitrary: every instruction of `Ops` is possible at
every step. Instructions that do not touch time differ only in their cycles
(`PlainCycles`). Register accesses use the shortest encoding (IN/OUT, or
LDS/STS where the register is out of their reach), and the two the code treats
specially, TIFR0 (SBI) and EECR, both lengths.

**Left out of these modules:** timers 3 and 4 (off, as after reset; they are in
`Timers34`), clock selects 6 and 7 (`timerPresc` has six entries), the debug
build of the loop (in `DebugLoop`), and the values of PC, stack and registers.

### Stack and shadow call stack: `CallStack`

Addresses are relative to `ISRAM_start`, as the debugger keeps them. `ram` holds
what is above SP: the low and high halves of return addresses, or data; a
popped byte counts as data, since the program writes before it reads. `marks`,
`shadow`, `lastSP` are `addressStackIndicators`, the used part of `callStack`,
and `lastSPRecived`. `fault` is an access outside `callStack`, where the model
stops (the code has no check in a release build). `live` is a history variable:
the frames the program has entered and not left, with the address of their low
byte. `Call`, `Interrupt`, `Ret`, `Reti`, `Push`, `Pop`, `Jump` are the
instructions and `directExecuteInterrupt`; `OutSP` is a pair of OUTs to SPH and
SPL with interrupts off between them; `Reset` is `ATmega32u4::reset`.

The program is any one that keeps SP in the RAM and executes RET or RETI only
when SP is at its innermost frame, of the same kind. It may reserve and free locals, push and pop. With
`"discard"` in `Habits` it may pop the return address of a call as data (and be
interrupted half-way); with `"drop"` it may also set SP past whole frames
(longjmp, a scheduler giving up a task). Not in it: a return address that was
pushed as data, a switch to another stack and back, and an interrupt taken in
the middle of an instruction (see run `vector`), which pushes the address of
that instruction.

`ShowsTheFrames` maps `shadow`, each entry joined with its return address in
`ram`, to the frames of `CallFrames`, and `Len(live)` to its depth.

`MCCallStack` puts two such programs side by side, each with a machine of its
own, and lets one of them run: one with the habit `"discard"`, and, in a smaller
memory, one that also throws whole stacks away.

### Debugger control: `DebugLoop`

The loop of `execute4T` again, with everything the debugger does and nothing
that the timers compute: a pass is one instruction (`one`: timer stopped or at
prescaler 1) or a batch up to any deadline (`inner`), and an interrupt may
follow any pass (`EndPass`) or end a sleep (`SleepPass`). `Inst` is a fetch that
`checkBreakpoints` lets through, with the effects of `doHaltActions` on
`halted`, `doStep` and bit 63; `Stop` one it refuses. An instruction is any that
takes a positive number of cycles and goes anywhere; BREAK, and an instruction
that calls `executeError`, halt; SLEEP sleeps. `Execute` is not enabled when
`execShouldReturn` returns at once. `resumed` and `stepped` are history
variables for the properties.

The host is assumed to act like the buttons of a debugger: it steps and
continues only a machine it finds halted with no step due, and gives a step to a
debugging slice. `Rehalt` adds a host that calls `halt` right after `continue_`; then `StepOnce`
fails, since `doHaltActions` clears `halted` for any instruction on the cycle of
the last `continue_` (`Debugger.cpp:114`), a step included: `continue_`, `halt`,
`step` with nothing run between them sets the machine running.
Not in it: the output mode Log, in which `doHaltActions` reads the terminal, and
host callbacks in the middle of an instruction.

### Instruction bodies: `Alu`, `AluPrograms`, `Memory`

`Alu` has one operator per instruction, named as in the source, from operand
bytes and flags to `Out(value, flags)`, over the functions `setFlags_*` of
`DataSpace.cpp`. It keeps the code's own formulas: V of `setFlags_SVNZC_ADD_16`
is "the unsigned sum wrapped" there, and here.

A property of one instruction would repeat its formula. So `AluPrograms` runs
*sequences*, the ones compilers emit for 16-bit addition, subtraction,
comparison, negation, shifts, tests and interrupt handlers, and the routines
that make the 32-bit product of two words from four products of bytes
(unsigned, signed and fractional: all six multiplications, MOVW, ADD, ADC and
SBC), and the properties say what the sequence is for in plain arithmetic: the flag one byte
leaves is what the next one starts from. Of a product that is the C by which
SBC extends a signed part, or ADC keeps the bit a doubled part loses: a
multiplication that takes the wrong operand as signed, or leaves the wrong C,
shows two bytes higher. `Load` (the host sets registers and
PC), `Step` (one instruction) and `Unload` are its actions.

`Memory` does the same for everything that moves data: registers are the first
cells of `data`, as in the code, X, Y, Z and SP are pairs of cells. Its programs
copy blocks up, down, overlapping and across a 256-byte boundary through every
pair of pointers and addressing mode, read tables from flash, search, update a
cell conditionally across a one-word or two-word instruction (skips), test bits,
and build and leave a stack frame. Where a program would be stuck at a word that
is no instruction TLC reports a deadlock.

`LD_Y`, `LD_Z`, `LDD_Y`, `LDD_Z`, `ST_Y`, `ST_Z`, `STD_Y` and `STD_Z` are not
reached from `callInstSwitch2`, which decodes them as `LDD_anyYZ` and
`STD_anyYZ`; the same holds for the sixteen flag instructions, decoded as BSET
and BCLR.

### Decoding: `Decoder`

`instList` is the table of `InstHandler.h` with masks and results;
`getInstInd3` searches it from a start that depends on the word's top bits;
`callInstSwitch` and `callInstSwitch2` are the two dispatchers, as nested
choices; `Getters` are the operand getters, each as the list of the bits it
gathers and what it adds. `Fetch` takes each of the 65536 words in turn.
`SameEffect` lists the pairs of names the two use for the same thing.

### Disassembly: `Disassembly`

The recursion of `disasmRecurse` is the stack `walk` of the addresses its
activations have come to; the visited marks are `Listed`. The program in flash is
arbitrary: a word is chosen when the walk first reads it, from one word of
each kind the walk tells apart. `CoversExecution` compares the finished listing
with `Successors`, which is what `InstHandler` would execute next, so it relates
the two files.

### Timers 3 and 4: `Timers34`

Between two passes of the outer loop time is only counted (`e3`, `e4`: the
cycles since the last update); `EndPass` is `updateTimers` with `checkForIntr`,
`StartPass` is `cycsToNextTimerInt`, and the instructions between them are
`Plain` and the register writes that move an event: OCR3A, TIMSK3, TIMSK4, OCR4A
with DDRC, and TCCR4B, whose hook updates and breaks out. `Elapse` also moves
the timer that counts each cycle (`real`) and records how long an event has been
`due`. `armed` says for which timers the present deadline was computed.

What the code leaves undone is in the model as it is: the overflow of timer 4
has a deadline only with OCIE4A set as well (`DataSpace.cpp:339`); a match of
OCR4A below TCNT4 is looked for a whole 16 bits later though the counter has 10
(347); writes of TIMSK and OCR do not recompute the deadline.

OCR3A has no hook in `update_Set`, so a program, a handler of timer 3 above all,
writes it whenever it likes, with OCIE3A set too, and each byte at a time: the
word between the two writes is a target like any other (`WriteOCR3A`). Two
things follow, and the properties are stated around them. The deadline of the
pass is still the old target's: a new match before it is seen when the pass
ends, so `OnTime` speaks of the new match only if the deadline is not behind it
(the condition under which `WriteOCR3A` leaves `"timer3"` in `armed`). And
`updateTimers` compares with the present target only: a match of the old one
among the ticks not yet counted is forgotten with it. `due` is cleared then, and
the second part of `NoEventLost` says when this can happen: never to a match the
pass had a deadline for, since no instruction starts behind it; but to one for
which it had none (`Timer3ATriggered`, OCIE3A set within the pass, or moved in
front of the deadline within the pass).

### EEPROM, PLL, ADC, SPI: `Peripherals`

A register is the set of its set bits. `update_Get`, `update_Set` and the
functions they call are operators on `io`. The program is a sequence of drivers
in any order, each the few instructions such a driver consists of
(`Store`, `Fetch`, `Lock`, `PllOff`, `Convert`, `Transfer`), and before any
instruction a handler may take some cycles, except inside the pair that opens
the EEPROM window and strobes the write, which drivers run with interrupts off.
`cells` is what the drivers asked the EEPROM to hold.

### Save states: `SaveState`

The machine is a record of its components with what exists twice, or is kept
lazily, in each: the flags as byte and cache, TCNT0 and TOV0 with the last
update, the EEPROM window with its time, PLLE and PLOCK, ADSC and ADCL,
breakpoints as array and set, the debugger's call stack, of which the first
quarter is in the stream, the counters, of which an eighth is. (`getState` gives
the arrays' element counts as byte counts.) `Parts` is the stream, `Written` and
`Read` the hashes in the order they are written and expected.

`Flag` ... `Sleep` are instructions, each of which ends its pass, with
`updateTimers`, or goes on with it; `SleepsOn` is a sleep that a slice ends in,
without an update, and `SleepsOut` its end, with a wake-up of 5 cycles or
without. `Save`, `Load`, `Reset`, `GetData`, `ClearFlash`, `LoadFromMemory` and
the debugger's buttons are the host, between two slices (`~inPass`).
`Timer3ATriggered`, `instTotalCnt` and, over a reset, breakpoints, are not
restored: the properties list what is.

A save is not invisible. `update_Get_all` rewrites all the lazily kept registers
of the running machine; `Found` is what the program then reads in them at a
later cycle, after the update that ends a pass or a sleep. `SaveIsQuiet` says that
this is what it would have read without the save, in every register but one:
**TOV0 is lost** if TCNT0 had passed its wrap and no update had recorded it
(`Unrecorded`), since the refresh moves TCNT0 on without it
(`DataSpace.cpp:510-513`). Where that can be: in a sleep that goes on over the
end of a slice (`CPUTemplates.h:118`), in the cycles of a wake-up, with
PRR0.PRTIM0 set, and with a divisor of 256 or 1024, which `updateTimers` takes
for 0. The analog conversion is over at once and its result is 0, so ADSC and
ADCL read the same before and after. What a save may also change, and the
property does not speak of, is what a later *write* does: the hooks of
`update_Set` compare with the raw byte in `data[]`, which the refresh has
changed (EECR's EEMPE at 661, ADCSRA's ADSC at 620, TCNT0 at 605).

## 4. What the runs check

| run | question | result |
|---|---|---|
| `safety` | All instruction classes, all host operations, clock selects 0, 1 and a larger one. `BudgetKept`: slices neither end early nor overshoot. `NoFetchPastOverflow`: no instruction starts past an unrecorded overflow. `BoundedLateness`: an overflow is recorded within 5 cycles. `SleepEndsAtOverflow`: `sleepCycsLeft` leads to the overflow whatever the host reads, for divisors that fit 8 bits. `NoMissedWakeup`: no sleep over a deliverable interrupt while the timer runs. | holds |
| `refinement` | `CountsEveryCycle`: `ExecLoop` implements `Timer0Eager`. | holds for prescalers above 1 and programs that neither read nor write TCNT0 and do not write TIFR0 or PRR0 |
| `progress` | `SliceEnds` under weak fairness of the emulator. | holds if the divisor fits 8 bits and PRR0 is not used |
| `livelock` | the same with a divisor that is 0 modulo 256 | violated: the loop spins at the deadline (`DataSpace.cpp:153`) |
| `vector` | an interrupt starts at its vector (`DataSpace.cpp:254`) | violated by an interrupt taken inside a write of TCCR0B |
| `debug` | `NoOverrun`: a breakpoint is run through only by a host that resumed there; `StepOnce`: a step runs one instruction; `ContinueMoves`: continuing does not halt at the same place again; `ExecuteReturns` under weak fairness of the emulator: a stop inside a batch gets out of it | holds if the host lets a continued machine run |
| `frames` | `ShowsTheFrames`: `CallStack` implements `CallFrames`; `InsideHasFrame`: `insideInterrupt` implies an interrupt to return from; `ThrowsNeverTooShallow`: programs that drop frames by moving SP can make the shadow show too many, never too few | holds, the first two for programs that never drop frames with OUT |
| `instructions` | Over `AluPrograms`: `SumCarries`, `CompareOrders`, `BitsOfWords`, `Products`, `FlagsSurvive`. Over `Memory`: `BlocksCopied`, `LoopsDecide`, `FrameRestored`. Over `Decoder`: `DecodersAgree`, `SkipLandsOnInstruction`, `OperandsEncodeWord`. Over `Disassembly`: `CoversExecution`, `ArrowsEndOnLines`, and `WalkEnds` under fairness | holds |
| `devices` | Over `Timers34`: `CountersTrue`, `NoEventLost`, `OnTime`, `NoStall`, with OCR3A written at any time. Over `Peripherals`: `WritesLand`, `ReadsBack`, and `EveryDriverEnds` under fairness | holds: matches no deadline was computed for may be lost to a write of OCR3A, and are not called on time; drivers rewrite the mode bits of EECR |
| `savestate` | `RestoresTheRun`: a loaded machine goes on as the saved one; `SaveIsQuiet`: a save or a look at the registers changes nothing the program reads, but for a TOV0 not yet raised; `ListMirrorsArray` | holds; TOV0 is lost if TCNT0 had wrapped and no update had seen it |
| `eere` | `WritesLand` for drivers that do not rewrite EECR: the strobe bit falls, "the only logical thing" (`DataSpace.cpp:657`) | violated: EERE stays set, and the strobe of the next write first overwrites EEDR |
| `warn` | `HashesMatch`: an undamaged stream loads without a complaint (`ATmega32u4.h:41`) | violated: a hash is checked that was not written, another one before the set it covers is rebuilt (`Analytics.cpp:124`, `Debugger.cpp:331`) |

**Bounds, `ExecLoop`.** The counter wraps at `Byte` = 5 or 6 instead of 256, so that with a
prescaler of 2 a whole counter period (10 or 12 cycles) fits `MaxTotal`; the
longest instruction (4) stays below `Byte`, as in the code, which `doTicks`
needs to see each wrap. `Word` = 1000 stands for 2^64: `BoundAssumption` keeps
every sum well below half of it, so that wrapping subtraction behaves as with 64
bits, including the collision with -1. `MaxTotal` bounds the cycles the host
asks for (10 to 40): several slices, at least one full period and one sleep
across slices. Slices of 1 and 7 give both an instruction-by-instruction host
and one that lets the loop batch; 7 is odd, so ends of slices fall at both
phases of the prescaler. Clock select 2 stands for divisors 8 and 64, 3 in
`livelock` for 256 and 1024, which are 0 modulo 256. `CHECK_DEADLOCK FALSE`:
the host stops asking at `MaxTotal`, and a process that divided by zero is gone.

**Bounds, `DebugLoop`.** Three addresses: where the machine stands, a vector and
somewhere else, any of them with a breakpoint. `MaxTotal` = 6 with slices of 1
and 4 and instructions of 1 and 2 cycles gives several instructions in a batch,
batches ended by a deadline, by bit 63 and by the slice, slices that run nothing
because the previous one overshot, and a sleep across slices.

**Bounds, `CallStack`.** 7 bytes of RAM hold three frames with data between or
under them, or more where return addresses are popped half-way; `MaxShadow` = 5
is never exceeded there. The program that throws stacks away has 5 bytes, 2 code
addresses and 4 entries. One call target and one vector, apart from each other
and from return addresses, are enough to tell entries apart: what the marks do
does not depend on them.

**Bounds, instructions.** `AluPrograms` takes every operand of two bytes each
made of {0, 1, 15, 127, 128, 255}: both sides of the half carry, the sign and
the carry; with all flags clear, all set, or C, V and T alone (`FlagStates`). `Memory` has six cells across a
256-byte boundary, two fillings, blocks of up to 3 bytes and a table across a
boundary too. `Decoder` takes all 65536 words, so nothing is bounded there.
`Disassembly` takes every program of 5 words of 13 kinds: loops, calls of
itself, operands that are also instructions, skips over one and two words, jumps
out of the flash, with two vectors, a seed and an address only the analytics
know.

**Bounds, devices.** Timer 3 counts to 4 and timer 4 to 3 (moduli apart from each
other, as 2^16 and 2^10 are), with divisors 2 and 1 or 2, and instructions of 1
and 3 cycles, so that an instruction skips a tick and an update is late by up to
8 cycles (`Limit`), once round either counter. `Targets` are the counter's first
value and one inside. Drivers work on two cells and two contents, in every
order; handlers take 1, 4 or 5 cycles: both sides of the window's end.

**Bounds, `SaveState`.** Two addresses, of which one has its counter in the
stream, two call stack entries, of which one is, a counter modulo 3 with
divisor 2, sleeps of 2 and 5 cycles, over one wrap and not, and 5 steps: enough
to save, disturb every component, and load. `SaveIsQuiet` looks a whole counter
period ahead. All five hashes written and six read are there.

No symmetry is used.

**Fairness.** `FairSpec` of `ExecLoop` and `DebugLoop` assumes
`WF_vars(Emulate)` only: the thread that called `execute` keeps running. Nothing
makes the host call again, and no instruction is assumed to be ever chosen.
`WalkEnds` assumes that the recursion, a plain function call, goes on.
`EveryDriverEnds` assumes that the CPU goes on with a driver it has begun
(`Instruction`, `End`), delayed or not, and nothing of starting one.
`CallStack`, `Timers34` and `SaveState` state safety only.

Instructions of no cycles exist (`InstHandler.cpp:353` returns 0 for an unknown
word); the proofs of `ExecLoop` allow them, the runs use 1 to 3 cycles, and a
program of nothing else would never end a slice.

**Reads of TCNT0 and the refinement.** The refinement run leaves both reads of
TCNT0 out, the program's (`tcntRead` of `Ops`) and the host's (`HostRead`): each
refreshes TCNT0 without raising TOV0 (`DataSpace.cpp:510-513`). The program can
read past the wrap with TOIE0 clear, when no deadline stops the pass at the
overflow; the host after the overflow's cycle and before `updateTimers`. Either
way the flag, and the interrupt, is lost, and the eager timer, which has raised
it, is not refined. `BoundedLateness` does not notice, since the lost overflow
is no longer in the future of TCNT0. Run `safety` has both reads.

## 5. What is proved

`ExecLoop_proofs` proves, for every counter width, prescaler table, slice
size, subset of instructions and host operations:

- `TypeCorrect`: `Spec => []TypeOK`, including that `Timer0Update` is never in
  the future, on which every unsigned subtraction in `updateTimers` relies;
- `SliceBudget`: `Spec => []BudgetKept`;
- `NothingFetchedPastOverflow`, `LatenessBounded`, `SleepEnds`, `WakeupsTaken`:
  the deadline and sleep invariants of run `safety`;
- `EveryCycleCounted`: `SlowProgram /\ Spec => CountsEveryCycle`, the refinement
  of `Timer0Eager`. `SlowProgram` is the scope of run `refinement`, for any
  table: clocks stopped or with a divisor above 1 and below `Byte` (what
  `updateTimers` keeps in a `uint8_t`), programs that neither read nor write TCNT0
  and leave TIFR0 and PRR0 alone, a host that does not read memory.

Assumptions: `WidthAssumption` (the counter is wider than the longest
instruction), `PrescAssumption` (the table has a 0 exactly for the stopped
timer), `BoundAssumption`, `ProgramAssumption` (instructions take at most
`MaxPlain` = 4 cycles).

The budget is not inductive by itself. `IInv` adds what keeps it: the CPU goes
to sleep only within the budget, so the 5 cycles of the wake-up are the only
overshoot then; SLEEP breaks out, so no instruction follows it in the same inner
loop; the deadline never exceeds the target; bit 63 is clear whenever the outer
`while` compares; and the cycles of the slice are not yet used up twice
(`target - amt <= total`), which is what a halted return needs. The argument:
lemmas show what each timer function may change (`Same`: timer registers only;
`Settles`: besides, a wake-up; `Accessed`: a register access of an awake CPU);
`InstStep` shows that the loop's epilogue keeps `IInv` after any body within
those limits; `InstructionStep`, `LoopStep` and `HostStep` apply this to each
action.

None of the four deadline properties is inductive either. `DeadlineInv` adds:
every slice ends within `MaxTotal`, so that no deadline wraps; a CPU that is
awake, or has just gone to sleep in the inner loop, has no sleep left over;
`stale` is about one inner loop only; an overflow is never more than `Overshoot`
late (`Late`); a CPU that sleeps from pass to pass has nothing to take, has not
slept past an overflow, and its cycles left lead to the next one (`Dozes`); and
as long as nobody has broken out, the inner loop's deadline is no later than the
overflow. `UpToDate` is what each call of `updateTimers` and `checkForIntr`
leaves behind, and `Keeps` what the body of an instruction may do in between.
The proof is where `SleepEndsAtOverflow` got its condition on the divisor: with
256 or 1024, which the `uint8_t` cuts to 0, the CPU may fall asleep past the
overflow.

The refinement maps the cycles since `Timer0Update` to the ticks and the part of
a tick the eager timer already has (`Abs`). Cycles that go by are cycles the
eager timer counts (`AbsAdvance`); an update changes nothing it shows
(`CountRuns`); interrupts and clock selects are its own (`CheckRuns`,
`SelectRuns`).

`CallStack_proofs` proves, for every size of RAM, of code and of `callStack`,
every set of call targets, under `StackAssumption`:

- `TypeCorrect`: `Spec => []TypeOK`, whatever the habits of the program, with
  `lastSP` in `1..Top`: the loop of `registerStackDec` starts at
  `lastSPRecived - 1` in 16 bits, so 0 would make it skip everything;
- `InsideInterrupt`: `Spec => []InsideHasFrame`, for programs without the habit
  `"drop"`. The invariant adds `FramesNest`: bases fall strictly from frame to
  frame and SP is below them all, so a pop removes at most the innermost frame,
  and only one that is not an interrupt's;
- `TheFramesAreShown`: `ShowsTheFrames`, the refinement of `CallFrames`, for
  programs without `"drop"` and as long as `callStack` is not full (beyond that
  the code writes outside it). `ExactInv`: the marked bytes are exactly the low
  bytes of the return addresses of `live`, one entry each, and `lastSP` is no
  higher than the innermost of them, where the search of `registerStackDec`
  must begin;
- `NeverHides`, for any habits and any array: `NeverTooShallow`, or the array
  has just overflowed and the call it had no room for is the only one it does
  not show. `ShallowInv`: the low byte of every frame is marked, and there are
  no more marks than entries. `FullInv` adds what the overflow leaves behind;
- `NothingHidden`: `Spec => []NeverTooShallow` where the array has `Top - 1`
  entries: no more frames can be on the stack, as their bases differ and are at
  least 2. The throwing program of run `frames` has that many, so
  `ThrowsNeverTooShallow` is an instance of it (TLC checks the instance; the
  theorem is about `CallStack` with the constants of its own). The code's array
  (512 entries, 2560 cells) is smaller, so what holds there is `NeverHides`.

`DebugLoop_proofs` proves, for every program, vector, set of slices and cycles,
under `DebugAssumption` and `~Rehalt`: `ContinueLeaves` (`ContinueMoves`),
`StepRunsOne` (`StepOnce`) and `BreakpointsStop` (`NoOverrun`), all from the
inductive invariant `Control`: `skipCycs` equals the present cycle only between
`continue_` and the first thing that happens (`SkipsOnce`); bit 63 is clear
where a pass starts, and no pass ends before the machine has moved (`BreakOut`);
a step that is due is due in a debugging slice with `halted` set, and once
taken leaves `halted` set with the batch broken out of (`StepsOnce`).

`Devices_proofs` proves of timers 3 and 4, for every width of the counters, divisor of timer 3,
set of clock selects, compare values and instruction lengths, under
`TimersAssumption` (timer 4 is no wider than timer 3, one instruction is the
longest; its last conjunct, a power of two is a positive number, is there
because the prover does not know powers): `CountersStayTrue` (`CountersTrue`),
`EventsOnTime` (`OnTime`), `PassesRun` (`NoStall`) and `EventsKept`
(`NoEventLost`), the last three for programs that write OCR3A at any time, under
the conditions on it given with `Timers34` above.

The invariant `Counting` says that the registers, with the
ticks not yet in them, *read* (`Reads`) what the timer that counts each cycle
has. Each half of an update preserves `Reads` because it takes off exactly the
whole ticks it puts in; cycles that go by change `Reads` as they change the
ideal timer (`ElapseKeeps`, which is where `CountLater` of `Division` is used:
the quotient of a sum is the sum of the quotients and of what the fractions
make together); writes of other registers leave it alone (`SameTimeReads`).

`EventInv` adds what the events need: registers in range (`Ranged`); a counter
that stands at its target without `Timer3ATriggered` or `Timer4ATriggered` has
stood there for a cycle, or the update that took it there would not have seen it
arrive (`Standing`); what is due lies among the ticks not yet in the register
(`Owing`); between passes nothing is due (`AtRest`); and a pass that still runs
has not come to the events it has a deadline for (`Ahead`). The proof of
`PassesRun` showed that the distance to OCR4A has to be cut to 16 bits, as the
code does, for the deadline never to be now.

Of the EEPROM it proves, for every set of cells, contents and delays, under
`ClearsMode` (drivers rewrite the mode bits of EECR before a write, as avr-libc's;
run `eere` shows that it fails for others): `EepromKeepsWrites` (`WritesLand`)
and `EepromReadsBack` (`ReadsBack`). The invariant is `Kept`, EEPE is down and the EEPROM
is as asked for, and `Driving`, what the instructions a driver has run so far
have set up: address, byte and mode, and a window that is still open at the
strobe.

`Instructions_proofs` proves, for every choice of operand bytes and flags, size of the flash,
program, vectors, seeds and counted addresses, under `InstructionsAssumption`,
of the specification the run checks:

- `ListingCoversExecution` (`CoversExecution`) and `ArrowsHaveEnds`
  (`ArrowsEndOnLines`). `WalkInv`: what a listed line leads to is listed or still on the
  walk (`Closed`); addresses the walk starts from are listed, on it or among the
  roots to come (`Started`); a two-word instruction is listed with its second
  word read (`ReadFirst`, `Paired`), through which a skip over it arrives; call targets have
  labels (`Labelled`);
- `SumsAndCarries`, `WordsCompared`, `ProductsExact` (`SumCarries`,
  `CompareOrders`, `Products`). `AluInv` says what each sequence has computed at each of its
  instructions. A lemma about the bytes says what the flag functions make of one
  sum, difference or product, and a lemma about words (`SumWord`, `DiffWord`)
  that the second byte, with the carry and Z of the first, gives it for the word.
  For the products each instruction has a `Stage`, and `FirstPart` and `SecondPart`
  say, modulo 2^16 and 2^24 (`Like16`, `Like24`), what the upper registers hold at
  it. A part of the product is in p1:p0 modulo 2^16 only, and C says what is
  missing: the bit lost by doubling, or the sign (`Missing`);
- `WordsOfBits` (`BitsOfWords`) and `FlagsRestored` (`FlagsSurvive`). Here a byte
  is its eight bits: the logic instructions act on each, the shifts move them, and
  SREG is a byte of flags (`SregRestored`). `BitInv` carries this through the
  sequences. `FromBits` is written as a sum of eight terms, not as a fold,
  which the prover could not unfold.

`Memory_proofs` proves, for every window of RAM, filling, table, block length and
place of the block, table or stack in them, under `MemoryAssumption` and
`TableAssumption` (the window is a piece of the address space from 256 on, where
the RAM starts, and ends before the last address; a length is a byte, as LDI and
DEC have it; tables lie below 64 KiB), of the specification the run checks:
`BlocksArrive` (`BlocksCopied`), `LoopsTakeTheRightTurn` (`LoopsDecide`) and
`FramesRestored` (`FrameRestored`).

All three follow from `ProgramsProgress`: `MemInv` says, of each program, what it
has done by each of its words. For a loop that is `LoopAt`: `j` bytes are at
their place, the rest of the cells are as they were, both pointers stand behind
`j` bytes (or before the last `j`) and the counter holds what is left; that the
next byte is still the one the program was started with, although source and
destination may overlap, is `CopyFits`, which ties the direction to their order.
For a search: no cell so far held the value. For the frame, `FrameAt` says which
of the saved bytes are on the stack (`Pushed`) and where SP and Y are. The
instructions come in as lemmas of one form: which cells a load, store or move
changes, and to what (`Only`, `Gets`, `Taken`, `Put`); that bytes of a pointer
make the word they should after a carry is a lemma about words. `StepBy` gives
the one step the word at `pc` allows.

`SaveState_proofs` proves, for every set of addresses, size of the call stack and
part of it in the stream, divisor, counter width and length of the run, under
`SaveAssumption`, all from the inductive invariant `Consistent` (the machine is
typed, its set of breakpoints mirrors the array, and the stream holds the parts
of a machine that was saved with its lazy registers settled):

- `BreakpointsMirrored` (`ListMirrorsArray`);
- `LoadedGoesOn` (`RestoresTheRun`): a `Load` gives the data registers back,
  the flag cache, which is not in the stream, included, because `getState`
  wrote the cache to SREG before it wrote SREG;
- `SavingIsQuiet` (`SaveIsQuiet`): a refresh keeps the count and the fraction of
  a tick, so that registers read `later` cycles on are the same with and without
  it (`LessMultiple` and `AddTwice` of `Division`); it can only take TOV0 away,
  and only for a wrap that `Unrecorded` says no update has seen.

Only model-checked:

- liveness, which is out of the prover's reach: `SliceEnds`, `ExecuteReturns`,
  `WalkEnds`, `EveryDriverEnds`;
- `DecodersAgree`, `SkipLandsOnInstruction`, `OperandsEncodeWord`: TLC takes all
  65536 words, so there is nothing its instance leaves out;
- `ThrowsNeverTooShallow` by that name, the invariant of the second machine of
  `MCCallStack`: `NothingHidden` is the theorem for every such machine.

## 6. What the code does otherwise than its comments or the data sheet

Four of these have a run (`livelock`, `vector`, `eere`, `warn`) and are listed as
findings. The others are in the models as the code has them, and no property
contradicts them:

- SEI is decoded as BSET, which does not leave the inner loop as the body of SEI
  does (`InstHandler.cpp:1383`), so a pending interrupt waits for the deadline.
- `directExecuteInterrupt` leaves I set (`CPU.cpp:63`), though it is "cleared
  after hardware Interrupt" (`CPU.cpp:104`): handlers nest.
- `markTimer0Update` divides by the divisor of the clock select in force, 0 for a
  stopped timer (`DataSpace.cpp:304`): a write of TCNT0 then ends the process.
- `callStack` has 512 entries and its range check is compiled out
  (`Debugger.cpp:71`).
- With timer 0 stopped or at prescaler 1 nothing looks for interrupts of the
  other timers, and a sleep does not end (`CPUTemplates.h:47`).
- ADIW sets V from the unsigned wrap (`DataSpace.cpp:1089`).
- Writing ADSC from 1 to 0 clears ADEN: the mask shifts twice (`DataSpace.cpp:621`).
- `Timer3ATriggered` and `Timer4ATriggered` are neither reset, saved nor copied.
- Of the call stack and of the instruction counters only a part is in a save
  state, since a count of elements is given as a size in bytes.
- A read of TCNT0 by the program, `getData` and `getState` lose an overflow that
  has happened and was not yet recorded; `lastCycs` of `getData` is a static
  shared by all machines.
- A write of OCR3A forgets a match of the old target that was not yet counted,
  and leaves the old target's deadline (no case in `update_Set`).

## 7. Not modelled

- **The interrupt queue** (`queueInterrupt`, `executeInterrupts`): nothing calls
  the one and the call of the other is commented out.
- **Copying and comparing machines**: memberwise, without control flow.
- **Formatting**: printing of SREG, stacks, disassembled lines, EEPROM and
  flash contents as text, and the names and parameter types in the instruction
  table, which serve it. They read the state and change none.
- **Debugger output mode Log**: reads commands from the terminal inside
  `doHaltActions`.
- **Hex files, streams, hashes, logging**: in `CPP_Utils`, a submodule that is
  not in the repository. A hash is taken to tell different states apart.
- **The cache of decoded instructions** and the read and write heat maps: both
  are compiled out (`MCU_USE_INSTCACHE`, `MCU_RW_RECORD`).
- **Clock selects 6 and 7**: they read past the end of `timerPresc`; what is
  found there has no bounded set of outcomes. Divisors above 128 of timer 3 have
  the defect of timer 0, which run `livelock` shows.
- **ADCH** (the conversion yields a constant; ADCL and the refresh of both are in
  `SaveState`) and the **callbacks** the host may install for pins and SPI bytes, which may call anything.
- **SPM and WDR**: they do nothing but pass time.
- **`setRamState`, `setEepromState`, `setRomState`, `loadDataFromMemory`**, called
  one by one by the host: they put the machine in a state of the host's making.
- **The points where `execute4T` takes interrupts, with a real stack**: entry and
  timing are in `ExecLoop`, the stack in `CallStack`, not both in one module.
