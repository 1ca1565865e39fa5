CONSTANTS
  IntMax = 31
  SnapMin = 4
  MemMax = 16
  FindIndexCount = 2
  Input <- MCInput
  Terms <- MCTerms
  Dests <- MCDests
  ReadStart = 2
  BuffSz = 4
SPECIFICATION FairSpec
INVARIANTS ReadSound ReadIsExact
PROPERTIES CallReturns
