----------------------------- MODULE Peripherals -----------------------------
(***************************************************************************)
(* The IO registers of DataSpace that do something when they are read or   *)
(* written, apart from the timers: the EEPROM controller, the PLL, the ADC *)
(* and SPI. A program runs the short register sequences drivers consist    *)
(* of, one after the other; interrupt handlers delay it between two        *)
(* instructions. A register is the set of its bits that are set.           *)
(***************************************************************************)
EXTENDS Integers, Sequences, FiniteSetsExt

CONSTANTS
  Addrs,      \* EEPROM addresses
  Bytes,      \* EEPROM contents, sets of bits, closed under union
  Delays,     \* cycles a handler may take
  ClearsMode  \* drivers write the mode bits of EECR before a write, as avr-libc's

VARIABLES
  io,       \* [data: the registers, eeprom, lastSet: cycles since EEMPE and PLLE were set]
  program,  \* the driver sequence being run, << >> between two
  pc,       \* its next instruction
  got,      \* what the last IN of EEDR read
  cells     \* what the EEPROM should hold, by the drivers' requests
driverVars == <<io, program, pc, got, cells>>

-----------------------------------------------------------------------------
\* Cycles go by. Only 4 cycles since EEMPE and 1 since PLLE make a difference.

Age(s, k) == [s EXCEPT !.lastSet.EEMPE = Min({@ + k, 5}), !.lastSet.PLLE = Min({@ + k, 1})]

\* update_Get: a register about to be read
update_Get(s, reg) ==
  CASE reg = "EECR" /\ s.lastSet.EEMPE > 4 -> [s EXCEPT !.data.EECR = @ \ {"EEMPE"}]
    [] reg = "PLLCSR" /\ "PLLE" \in s.data.PLLCSR /\ s.lastSet.PLLE > 0 ->
         [s EXCEPT !.data.PLLCSR = @ \cup {"PLOCK"}]
    [] reg = "ADCSRA" -> [s EXCEPT !.data.ADCSRA = @ \ {"ADSC"}]
    [] OTHER -> s

\* mutant: the write-only mode stores the byte as it is
ProgrammedOver(cell, byte, mode) == IF mode = {"EEPM0"} THEN {} ELSE byte
\* A write in the mode of bits 4 and 5: erase and write, erase, write
Programmed(cell, byte, mode) ==
  CASE mode = {} -> byte [] mode = {"EEPM0"} -> {} [] mode = {"EEPM1"} -> cell \cup byte
    [] OTHER -> cell
EecrMode(eecr) == eecr \cap {"EEPM0", "EEPM1"}

\* mutant: the strobe works on the rising EERE only
setEECROnRise(s, val, oldVal) ==
  LET Strobed(t) == IF "EERE" \notin val \ oldVal THEN t
                    ELSE Age([t EXCEPT !.data.EEDR = t.eeprom[t.data.EEAR]], 4)
      Opened(t) == IF "EEMPE" \in val /\ "EEMPE" \notin oldVal
                   THEN [t EXCEPT !.lastSet.EEMPE = 0] ELSE t
      Written(t) == IF ~({"EEPE", "EEMPE"} \subseteq val) THEN t
                    ELSE [t EXCEPT !.eeprom[t.data.EEAR] =
                                     Programmed(@, t.data.EEDR, EecrMode(val)),
                                   !.data.EECR = @ \ {"EEPE"}]
  IN  Written(Opened(Strobed(s)))
setEECR(s, val, oldVal) ==
  LET Strobed(t) == IF "EERE" \notin val THEN t
                    ELSE Age([t EXCEPT !.data.EEDR = t.eeprom[t.data.EEAR]], 4)
      Opened(t) == IF "EEMPE" \in val /\ "EEMPE" \notin oldVal
                   THEN [t EXCEPT !.lastSet.EEMPE = 0] ELSE t
      Written(t) == IF ~({"EEPE", "EEMPE"} \subseteq val) THEN t
                    ELSE [t EXCEPT !.eeprom[t.data.EEAR] =
                                     Programmed(@, t.data.EEDR, EecrMode(val)),
                                   !.data.EECR = @ \ {"EEPE"}]
  IN  Written(Opened(Strobed(s)))

setPLLCSR(s, val, oldVal) ==
  IF "PLLE" \in val
  THEN IF "PLLE" \in oldVal THEN s ELSE [s EXCEPT !.lastSet.PLLE = 0]
  ELSE IF "PLLE" \in oldVal THEN [s EXCEPT !.data.PLLCSR = @ \ {"PLOCK"}] ELSE s

\* The mask 1 << 1 << ADSC is the bit above ADSC, which is ADEN
setADCSRA(s, val, oldVal) ==
  IF "ADSC" \in oldVal \ val THEN [s EXCEPT !.data.ADCSRA = @ \ {"ADEN"}] ELSE s

\* without a listener the byte is shifted out as zeros
setSPDR(s) == [s EXCEPT !.data.SPDR = {}, !.data.SPSR = @ \cup {"SPIF"}]

update_Set(s, reg, val, oldVal) ==
  CASE reg = "EECR" -> setEECR(s, val, oldVal)
    [] reg = "PLLCSR" -> setPLLCSR(s, val, oldVal)
    [] reg = "ADCSRA" -> setADCSRA(s, val, oldVal)
    [] reg = "SPDR" -> setSPDR(s)
    [] OTHER -> s
\* mutant: the byte is stored behind the hook, over what the hook did to it
setByteAtLate(s, reg, val) ==
  LET t == update_Set(s, reg, val, s.data[reg]) IN [t EXCEPT !.data[reg] = val]
setByteAt(s, reg, val) ==
  update_Set([s EXCEPT !.data[reg] = val], reg, val, s.data[reg])

-----------------------------------------------------------------------------
\* The drivers: sequences of <<instruction, register, operand>>; the pair that
\* opens the window and starts the write runs with interrupts disabled

Until(reg, bit, on) == <<"until", reg, bit, on>>
Pair == << <<"SBI", "EECR", "EEMPE">>, <<"SBI", "EECR", "EEPE">> >>
Store(a, v, mode) ==
  <<Until("EECR", "EEPE", FALSE)>>
    \o (IF ClearsMode \/ mode # {} THEN << <<"OUT", "EECR", mode>> >> ELSE << >>)
    \o << <<"OUT", "EEAR", a>>, <<"OUT", "EEDR", v>> >> \o Pair
Fetch(a) == <<Until("EECR", "EEPE", FALSE), <<"OUT", "EEAR", a>>,
              <<"SBI", "EECR", "EERE">>, <<"IN", "EEDR", "-">> >>
Lock == << <<"OUT", "PLLCSR", {"PLLE"}>>, Until("PLLCSR", "PLOCK", TRUE) >>
PllOff == << <<"OUT", "PLLCSR", {}>>, Until("PLLCSR", "PLOCK", FALSE) >>
Convert == << <<"OUT", "ADCSRA", {"ADEN"}>>, <<"OUT", "ADCSRA", {"ADEN", "ADSC"}>>,
              Until("ADCSRA", "ADSC", FALSE) >>
Transfer(v) == << <<"OUT", "SPDR", v>>, Until("SPSR", "SPIF", TRUE) >>
Drivers ==
  {Store(a, v, mode) : a \in Addrs, v \in Bytes, mode \in {{}, {"EEPM0"}, {"EEPM1"}}}
    \cup {Fetch(a) : a \in Addrs} \cup {Lock, PllOff, Convert}
    \cup {Transfer(v) : v \in Bytes}

-----------------------------------------------------------------------------
DriversInit ==
  /\ io = [data |-> [EECR |-> {}, EEDR |-> {}, EEAR |-> CHOOSE a \in Addrs : TRUE,
                     PLLCSR |-> {}, ADCSRA |-> {}, SPDR |-> {}, SPSR |-> {}],
           eeprom |-> [a \in Addrs |-> {}], lastSet |-> [EEMPE |-> 5, PLLE |-> 1]]
  /\ program = << >> /\ pc = 1 /\ got = {} /\ cells = [a \in Addrs |-> {}]

Current == program[pc]
Running == program # << >> /\ pc <= Len(program)
StartsWrite == Current = <<"SBI", "EECR", "EEPE">>

\* An interrupt handler may run first, but not inside the pair
Handled(s) == IF StartsWrite THEN {s} ELSE {Age(s, k) : k \in Delays \cup {0}}

Start == program = << >> /\ program' \in Drivers /\ pc' = 1 /\ UNCHANGED <<io, got, cells>>
End == program # << >> /\ ~Running /\ program' = << >> /\ pc' = 1
       /\ UNCHANGED <<io, got, cells>>

\* What the request asks of the cells once its write has been started
Requested ==
  LET Operand(reg) == LET i == CHOOSE j \in DOMAIN program : program[j][1] = "OUT"
                                                            /\ program[j][2] = reg
                      IN  program[i][3]
      mode == IF program[2][2] = "EECR" THEN program[2][3] ELSE {}
  IN  [cells EXCEPT ![Operand("EEAR")] =
         (IF "EEPM1" \in mode THEN @ ELSE {})                         \* not erased
           \cup (IF "EEPM0" \in mode THEN {} ELSE Operand("EEDR"))]   \* written

Advance == pc' = pc + 1 /\ UNCHANGED program
INST_OUT ==
  /\ Current[1] = "OUT"
  /\ \E s \in Handled(io) : io' = Age(setByteAt(s, Current[2], Current[3]), 1)
  /\ Advance /\ UNCHANGED <<got, cells>>
INST_IN ==
  /\ Current[1] = "IN"
  /\ \E s \in Handled(io) : LET t == update_Get(s, Current[2])
                            IN  got' = t.data[Current[2]] /\ io' = Age(t, 1)
  /\ Advance /\ UNCHANGED cells
INST_SBI ==
  /\ Current[1] = "SBI"
  /\ \E s \in Handled(io) :
       LET t == update_Get(s, Current[2])
       IN  io' = Age(setByteAt(t, Current[2], t.data[Current[2]] \cup {Current[3]}), 2)
  /\ cells' = IF StartsWrite THEN Requested ELSE cells
  /\ Advance /\ UNCHANGED got
\* SBIS or SBIC with a jump back: one round of a polling loop
Poll ==
  /\ Current[1] = "until"
  /\ \E s \in Handled(io) :
       LET t == update_Get(s, Current[2])
       IN  /\ io' = Age(t, 3)
           /\ pc' = IF (Current[3] \in t.data[Current[2]]) = Current[4] THEN pc + 1 ELSE pc
  /\ UNCHANGED <<program, got, cells>>

Instruction == Running /\ (INST_OUT \/ INST_IN \/ INST_SBI \/ Poll)
DriversNext == Start \/ Instruction \/ End
DriversSpec == DriversInit /\ [][DriversNext]_driverVars
\* the processor goes on with a driver it has begun
FairSpec == DriversSpec /\ WF_driverVars(Instruction) /\ WF_driverVars(End)

-----------------------------------------------------------------------------
\* The EEPROM holds what the drivers asked for, after any sequence of writes in
\* any mode and reads, whatever delays them: no write is lost in a window that
\* has expired, and none changes another cell or stores a stale byte (setEECR).
WritesLand == io.eeprom = cells

\* A read returns the byte of its own address, not what an earlier strobe left
\* in EEDR (setEECR, EERE).
ReadsBack ==
  program # << >> /\ ~Running /\ program[Len(program)][1] = "IN" =>
    got = cells[program[2][3]]

\* No polling loop spins for ever: EEPE goes down, PLOCK comes up and goes down,
\* ADSC goes down and SPIF comes up (update_Get_impl, setEECR, setPLLCSR, setSPDR).
EveryDriverEnds == program # << >> ~> program = << >>
=============================================================================
