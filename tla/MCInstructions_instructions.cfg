\* Bytes around the carries, a window across a 256-byte boundary, every one of
\* the 65536 words, and every program of five words the walk can read.
SPECIFICATION InstSpec
CONSTANTS
  Bytes = {0, 1, 15, 127, 128, 255}
  FlagStates <- MCFlagStates
  Window = {765, 766, 767, 768, 769, 770}
  Fills <- MCFills
  Table <- MCTable
  MaxLen = 3
  Size = 5
  Vectors <- MCVectors
  Seeds <- MCSeeds
  Codes <- MCCodes
  Counts <- MCCounts
INVARIANTS SumCarries CompareOrders BitsOfWords Products FlagsSurvive
INVARIANTS DecodersAgree SkipLandsOnInstruction OperandsEncodeWord
INVARIANTS BlocksCopied LoopsDecide FrameRestored
INVARIANTS CoversExecution ArrowsEndOnLines
PROPERTY WalkEnds
