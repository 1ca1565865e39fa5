CONSTANTS
  IntMax = 31
  SnapMin = 4
  MemMax = 31
  FindIndexCount = 2
  Lens <- MCLens
  CstrLens <- MCCstrLens
  Ints <- MCInts
SPECIFICATION Spec
VIEW Relevant
INVARIANTS TypeOK WellFormed
PROPERTIES OverrunNeedsNamedCause TerminatorLostOnlyOnError FailedCallKeepsText WriteProtectionHolds Growth
