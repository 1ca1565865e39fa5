CONSTANTS
  IntMax = 7
  SnapMin = 4
  MemMax = 7
  Strings <- MCStrings
  Separators <- MCSeparators
  ListSizes <- MCListSizes
  ListStart = 2
  ChangesMax = 1
SPECIFICATION FairSpec
INVARIANTS ListIsSound 
PROPERTIES PiecesFollow SplitEnds
CHECK_DEADLOCK FALSE
