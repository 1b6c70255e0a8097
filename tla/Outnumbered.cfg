SPECIFICATION Spec
CONSTANTS
  N = 5
  Proposer = 2
  Faulty = {0, 1}
  MayBreak = FALSE
  Asking = {}
  Requests = 1
  MaxBehind = 1
  MaxAlike = 5
PROPERTIES
  MajoritySuffices
\* When the client has no more requests, the system rests.
CHECK_DEADLOCK FALSE
