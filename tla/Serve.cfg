SPECIFICATION FairSpec
CONSTANTS
  NumThreads = 1
  PipeCapacity = 4
  MissingFile <- MCMissingFile
  Main = main
  None = none
  NULL = null
  Garbage = garbage
  NumClients = 3
  Client <- MCClient
  Stream <- MCStream
  Newline = "newline"
  MaxConnections = 4
  Fd <- MCFd
  NoFd <- MinusOne
  StaleFd = {10}
  PipeRead = 2
  Faults <- MCFaults
INVARIANTS
  TypeOK
  JobHasItsConnection
  RightPage
PROPERTIES
  Served
\* One client too many and the server exits.
CHECK_DEADLOCK FALSE
