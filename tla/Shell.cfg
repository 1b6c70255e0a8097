SPECIFICATION Spec
CONSTANTS
  Lines <- MCLines
  MaxCommands = 4
  Units = 3
  Capacity = 2
INVARIANTS
  TypeOK
  PromptIsQuiet
  OutputIntact
PROPERTIES
  PromptReturns
\* The user may leave.
CHECK_DEADLOCK FALSE
