\* A host that lets a continued machine run before it halts it again.
SPECIFICATION FairSpec
CONSTANTS
  Code = {0, 1, 2}
  Vector = 2
  Cycles = {1, 2}
  Slices = {1, 4}
  MaxTotal = 6
  Rehalt = FALSE
INVARIANT ContinueMoves
PROPERTIES NoOverrun StepOnce ExecuteReturns
CHECK_DEADLOCK FALSE
