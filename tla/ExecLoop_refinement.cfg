\* Programs that select a prescaler of at least 2 cycles per tick and take
\* interrupts, in any way, but neither read nor write TCNT0 and do not write TIFR0 or
\* PRR0: a read past the wrap with TOIE0 clear moves TCNT0 on and raises no TOV0.
SPECIFICATION Spec
CONSTANTS
  Byte = 5
  Word = 1000
  Prescs = {0, 2, 3}
  PrescDiv <- MCSlowPrescDiv
  MaxTotal = 24
  Slices = {1, 7}
  HostOps = {"halt", "reset"}
  Ops = {"plain", "sei", "cli", "reti", "sreg", "tccr", "timsk", "sleep", "eeprom", "break"}
  PlainCycles = {1, 3}
PROPERTY CountsEveryCycle
CHECK_DEADLOCK FALSE
