CONSTANTS
  IntMax = 31
  SnapMin = 4
  MemMax = 8
  FindIndexCount = 2
  Input <- MCInput
  BuffSizes <- MCBuffSizes
  DefaultBuff = 2
  TermSets <- MCTermSets
  BlockLens <- MCBlockLens
  Dests <- MCDests
  Unreads <- MCUnreads
  HeldMax = 3
SPECIFICATION FairSpec
INVARIANTS StreamSound ReadIsExact
PROPERTIES HandsOutInOrder EofHasCause CallReturns
