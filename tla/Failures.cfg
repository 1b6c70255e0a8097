SPECIFICATION Spec
CONSTANTS
  N = 7
  Proposer = 0
  Faulty = {1, 2}
  MayBreak = TRUE
  Asking = {3}
  Requests = 1
  MaxBehind = 1
  MaxAlike = 7
INVARIANT TypeOK
PROPERTIES
  OneMissPerRemoval
  AnsweredWithMargin
\* When the client has no more requests, the system rests.
CHECK_DEADLOCK FALSE
