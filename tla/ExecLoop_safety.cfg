SPECIFICATION Spec
CONSTANTS
  Byte = 5
  Word = 1000
  Prescs = {0, 1, 2}
  PrescDiv <- MCPrescDiv
  MaxTotal = 16
  Slices = {1, 7}
  HostOps = {"read", "halt", "reset"}
  Ops = {"plain","sei","cli","reti","sreg","tccr","timsk","prr","tcntRead","tcntWrite","tifr","sleep","eeprom","break"}
  PlainCycles = {1, 3}
INVARIANTS TypeOK BudgetKept NoFetchPastOverflow BoundedLateness SleepEndsAtOverflow NoMissedWakeup
CHECK_DEADLOCK FALSE
