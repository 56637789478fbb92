CONSTANTS
  c1 = c1
  c2 = c2
  t1 = t1
  Clients <- MCClients
  Targets <- MCTargets
  Requests <- MCGet
  Files <- MCBareDir
  MultiThread = FALSE
  Backlog = 1
  FdLimit = 6
  ThreadLimit = 0
  BufSize = 2
  MaxOut = 1
SPECIFICATION Spec
INVARIANTS OpenErrorReported
CHECK_DEADLOCK FALSE
