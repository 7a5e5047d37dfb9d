SPECIFICATION Spec
CONSTANTS
  ConfigMaxIterations = 3
  DryRun = FALSE
  ReadTools <- MCReadTools
  UnknownTools <- MCUnknownTools
  MaxCalls = 2
INVARIANTS
  TypeOK
  WellFormedRequest
  BudgetKept
  OutcomeMatchesEffects
  AtMostOneComment
  FirstTerminalDecides
PROPERTIES
  CommittedIsFinal
  Termination
  KeepsPromise
