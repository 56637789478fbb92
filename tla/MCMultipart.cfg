CONSTANTS
  CR = CR
  LF = LF
  Hyphen = Hyphen
  Colon = Colon
  Blank = Blank
  a = a
  one = one
  MaxData = 4
  Byte <- MCByte
  Letters <- MCLetters
  Boundary <- MCBoundary
  Bodies <- MCBodies
  MaxReads = 3
SPECIFICATION Spec
INVARIANTS TypeOK DataExact FirstDelimiter HeaderWhole
PROPERTIES InOrder
CHECK_DEADLOCK FALSE
