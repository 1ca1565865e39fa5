CONSTANTS
  Texts <- MCTexts
  Strays <- MCStrays
  B64Line = 3
  UuLine = 6
  YBuffer = 2
  IntMax = 25
  Utf8s <- MCUtf8s
  Units <- MCUnits
  Points <- MCPoints
  ErrChars <- MCErrChars
  Lengths <- MCLengths
  TempMax = 2
SPECIFICATION Spec
INVARIANTS ComesBack DamageIsContained ReadsCodePoints ConvertsBack
CHECK_DEADLOCK FALSE
