CONSTANTS
  N = 3
  r1 = r1
  r2 = r2
  c0 = c0
  c1 = c1
  c2 = c2
  None = None
  Resource = {r1, r2}
  ClientId = {c0, c1}
  MaxInstance = 2
  MaxProposal = 3
  Dropping = {2}
  Duplicating = {0}
  Prompt = FALSE
  Script <- MisuseScript
SPECIFICATION Spec
INVARIANTS
  TypeOK
  Agreement
  AckedIsChosen
  DeathIsReplicated
PROPERTIES
  AcceptedStable
  StuckForever
\* The clients run out of requests, or a bound ends the exploration.
CHECK_DEADLOCK FALSE
