\* Three frames deep, more where return addresses are half popped; frames are
\* dropped, and their marks stay behind.
SPECIFICATION MCSpec
CONSTANTS
  Top = 7
  CodeTop = 3
  Entries = {1}
  Vector = 0
  MaxShadow = 5
  Habits = {"discard"}
INVARIANTS TypeOK InsideHasFrame ThrowsNeverTooShallow
PROPERTY ShowsTheFrames
CHECK_DEADLOCK FALSE
