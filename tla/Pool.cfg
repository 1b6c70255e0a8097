SPECIFICATION FairSpec
CONSTANTS
  NumThreads = 3
  PipeCapacity = 3
  Path = {found, missing}
  MissingFile = {missing}
  Main = main
  None = none
  NULL = null
  Garbage = garbage
  NumTasks = 3
INVARIANTS
  TypeOK
  TaskInOnePlace
  NoLostTask
  DestroyedIsQuiet
PROPERTIES
  EveryTaskTaken
CHECK_DEADLOCK FALSE
