\* The clock is switched while the overflow interrupt is pending.
SPECIFICATION Spec
CONSTANTS
  Byte = 5
  Word = 1000
  Prescs = {0, 2}
  PrescDiv <- MCPrescDiv
  MaxTotal = 30
  Slices = {1, 10}
  HostOps = {"read", "halt"}
  Ops = {"plain", "sei", "cli", "tccr", "timsk"}
  PlainCycles = {1}
INVARIANT EntersAtVector
CHECK_DEADLOCK FALSE
