SPECIFICATION FairSpec
CONSTANTS
  NumThreads = 2
  PipeCapacity = 1
  Path = {found, missing}
  MissingFile = {missing}
  Main = main
  None = none
  NULL = null
  Garbage = garbage
  NumTasks = 1
PROPERTIES
  DestroyReturns
CHECK_DEADLOCK FALSE
