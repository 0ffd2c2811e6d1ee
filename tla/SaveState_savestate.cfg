\* Two addresses, of which one has its counter in the stream; a call stack of
\* which one entry is.
SPECIFICATION Spec
CONSTANTS
  PCs = {0, 1}
  CallStackLen = 2
  CallsSaved = 1
  CountersSaved = {0}
  Div = 2
  Byte = 3
  Naps = {2, 5}
  MaxSteps = 5
INVARIANT ListMirrorsArray
PROPERTIES RestoresTheRun SaveIsQuiet
CHECK_DEADLOCK FALSE
