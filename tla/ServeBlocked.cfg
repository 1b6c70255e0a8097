SPECIFICATION FairSpec
CONSTANTS
  NumThreads = 1
  PipeCapacity = 5
  MissingFile <- MCMissingFile
  Main = main
  None = none
  NULL = null
  Garbage = garbage
  NumClients = 2
  Client <- MCClient
  Stream <- AskingStream
  Newline = "newline"
  MaxConnections = 4
  Fd <- MCFd
  NoFd <- MinusOne
  StaleFd = {10}
  PipeRead = 1
  Faults <- AllReset
PROPERTIES
  NonBlocking
\* One client too many and the server exits.
CHECK_DEADLOCK FALSE
