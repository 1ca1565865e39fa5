CONSTANTS
  Inputs <- MCInputs
  Eol = 0
  LineMax = 3
  Group = 2
  Junk = 9
  Missing = 8
  ReadLen = 4
  Asks <- MCAsks
  OutMax = 6
SPECIFICATION Spec
INVARIANT EndMayBeRead
CHECK_DEADLOCK FALSE
