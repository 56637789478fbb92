CONSTANTS
  c1 = c1
  c2 = c2
  t1 = t1
  Clients <- MCClients
  Targets <- MCTargets
  Requests <- MCRequests
  Files <- MCFiles
  MultiThread = FALSE
  Backlog = 1
  FdLimit = 6
  ThreadLimit = 0
  BufSize = 2
  MaxOut = 1
SPECIFICATION Spec
INVARIANTS AnswerFits  WholeFile DescriptorsReturned EndIsSeen 
PROPERTIES CgiAsPromised
SYMMETRY MCSymmetry
CHECK_DEADLOCK FALSE
