\* Every clock select whose divisor fits a uint8_t, and no PRR0.
SPECIFICATION FairSpec
CONSTANTS
  Byte = 6
  Word = 1000
  Prescs = {0, 1, 2}
  PrescDiv <- MCPrescDiv
  MaxTotal = 10
  Slices = {1, 9}
  HostOps = {"read", "halt"}
  Ops = {"plain", "sei", "cli", "tccr", "timsk", "tcntWrite", "tifr", "sleep", "eeprom", "break"}
  PlainCycles = {3}
PROPERTY SliceEnds
CHECK_DEADLOCK FALSE
