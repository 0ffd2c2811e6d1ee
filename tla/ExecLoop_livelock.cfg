\* The same machine with a prescaler that is a multiple of the counter's
\* modulus (256 or 1024 in the code).
SPECIFICATION FairSpec
CONSTANTS
  Byte = 5
  Word = 1000
  Prescs = {0, 3}
  PrescDiv <- MCPrescDiv
  MaxTotal = 40
  Slices = {40}
  HostOps = {}
  Ops = {"plain", "tccr", "timsk"}
  PlainCycles = {1}
PROPERTY SliceEnds
CHECK_DEADLOCK FALSE
