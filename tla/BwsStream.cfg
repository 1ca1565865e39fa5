CONSTANTS
  IntMax = 31
  SnapMin = 4
  MemMax = 16
  FindIndexCount = 2
  MinBuff = 3
  Sizes <- MCSizes
  Lengths <- MCLengths
  GivenMax = 9
SPECIFICATION Spec
INVARIANTS BufferSound
PROPERTIES IsAPipe RefusedTakesAllOrNothing
CHECK_DEADLOCK FALSE
