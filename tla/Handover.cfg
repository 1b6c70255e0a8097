CONSTANTS
  N = 3
  r1 = r1
  r2 = r2
  c0 = c0
  c1 = c1
  c2 = c2
  None = None
  Resource = {r1}
  ClientId = {c0, c1}
  MaxInstance = 3
  MaxProposal = 9
  Dropping = {}
  Duplicating = {}
  Prompt = TRUE
  Script <- HandoverScript
SPECIFICATION Spec
INVARIANTS
  LegalInv
  MutualExclusion
  NoProposerDies
  NoFutureMessage
  LogsValidate
  ClientFilesValidate
PROPERTIES
  ImplementsLockLog
\* The clients run out of requests, or a bound ends the exploration.
CHECK_DEADLOCK FALSE
