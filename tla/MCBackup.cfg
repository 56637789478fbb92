CONSTANTS
  NUL = "NUL"
  Key <- MCKey
  Others <- MCOthers
  Hex <- MCHex
  HexByte <- MCHexByte
  Forms <- MCForms
  Sessions <- MCSessions
  Archive = 5
  Headers = 1
  PipeSize = 2
  ReadSize = 2
  StdioSize = 1
SPECIFICATION FairSpec
INVARIANTS TypeOK SessionAsSent
 
CHECK_DEADLOCK FALSE
