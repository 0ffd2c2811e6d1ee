\* The whole call stack and every counter are in the stream, so that only the
\* order of the hashes can go wrong.
SPECIFICATION Spec
CONSTANTS
  PCs = {0, 1}
  CallStackLen = 2
  CallsSaved = 2
  CountersSaved = {0, 1}
  Div = 2
  Byte = 3
  Naps = {2, 5}
  MaxSteps = 3
INVARIANT HashesMatch
CHECK_DEADLOCK FALSE
