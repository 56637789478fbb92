CONSTANTS
  MaxData = 3
SPECIFICATION FairSpec
INVARIANTS TargetNeedsSession SuccessMeansWhole FailureRemoves
PROPERTIES ResponseIsLast Ends
CHECK_DEADLOCK FALSE
