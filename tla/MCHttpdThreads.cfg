CONSTANTS
  c1 = c1
  c2 = c2
  t1 = t1
  Clients <- MCClients
  Targets <- MCTargets
  Requests <- MCGets
  Files <- MCServedThreads
  MultiThread = TRUE
  Backlog = 1
  FdLimit = 11
  ThreadLimit = 2
  BufSize = 2
  MaxOut = 1
SPECIFICATION FairSpec
 
PROPERTIES OwnPace CgiAsPromised
CHECK_DEADLOCK FALSE
