SPECIFICATION Spec
CONSTANTS
  ConfigMaxIterations = 2
  DryRun = FALSE
  ReadTools <- MCReadTools
  UnknownTools <- MCUnknownTools
  MaxCalls = 1
INVARIANT
  ToolErrorsReachTheLLM
