CONSTANTS
  IntMax = 31
  SnapMin = 4
  MemMax = 8
  FindIndexCount = 2
  Input <- MCInput
  BuffSizes <- MCBuffSizes
  DefaultBuff = 2
  TermSets <- MCTermSets
  BlockLens <- MCBlockLens
  Dests <- MCDests
  Unreads <- MCUnreads
  HeldMax = 7
  Separators <- MCSeparators
  SplitLen = 2
  MovesMax = 1
SPECIFICATION SplitFairSpec
INVARIANTS SplitSound
PROPERTIES PiecesPartition PiecesArePlaced SplitReturns
