CONSTANTS
  IntMax = 31
  SnapMin = 4
  MemMax = 24
  FindIndexCount = 3
  Strings <- MCStrings
  Texts <- MCTexts
  Views <- MCViews
  Ints <- MCInts
  Widths <- MCWidths
  SgmlPairs <- MCSgmlPairs
  CallsMax = 2
SPECIFICATION Spec
INVARIANTS TextSound TextIsPromised ErrorLeavesText
