CONSTANTS
  Downcase <- MCDowncase
  Hays <- MCHays
  Needles <- MCNeedles
  Positions <- MCPositions
  Samples <- MCSamples
SPECIFICATION FairSpec
INVARIANTS NearestIsFound NoneIsPassed AnswersAgree
PROPERTIES SearchReturns
