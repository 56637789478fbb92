CONSTANTS
  Scripts <- MCScripts
  PipeCap = 1
  MaxBody = 3
SPECIFICATION FairSpec
INVARIANTS FedIsBody RelayFaithful NoLeak KilledOnlyBy OnlyKnownStalls
PROPERTIES Refines Completes
CHECK_DEADLOCK FALSE
