CONSTANTS
  CR = "CR"
  LF = "LF"
  Other <- MCOther
  Size = 4
  MaxSent = 6
SPECIFICATION FairSpec
INVARIANTS InCall HeaderLoopEnd
PROPERTIES Refines DrainEnds
CHECK_DEADLOCK FALSE
