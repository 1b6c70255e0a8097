SPECIFICATION Spec
CONSTANTS
  c1 = c1
  c2 = c2
  c3 = c3
  Client <- MCClient
  Commands <- MCCommands
  Hopeless = {c3}
  None = None
  MaxQueue = 3
INVARIANTS
  TypeOK
  OneUntold
PROPERTIES
  EveryClientLeaves
  EveryClientServed
  ExitStopsIdle
\* The proposer may stop, and a queue may stay full.
CHECK_DEADLOCK FALSE
