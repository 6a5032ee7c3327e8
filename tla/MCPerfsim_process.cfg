\* Command lines, configuration texts and files of every kind.
CONSTANTS
  Printed <- MCPrinted
  Scenarios <- MCScenarios
  Spelling <- MCSpelling
  Accepts <- MCAccepts
  Measured <- MCMeasured
  NoFile = NoFile
SPECIFICATION Spec
INVARIANTS TextUnderstood ResultsReadBack OutputsMatchStatus
CHECK_DEADLOCK FALSE
