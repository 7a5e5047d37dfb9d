SPECIFICATION CliSpec
CONSTANTS
  ConfigMaxIterations = 1
  DryRun = TRUE
  ReadTools <- MCReadTools
  UnknownTools <- MCUnknownTools
  MaxCalls = 3
  AllowedRepository <- KrewIndex
  DisableVerification = FALSE
  Environments <- MCEnvironments
  Files <- MCFiles
  Ports <- MCPorts
INVARIANTS
  DryRunWritesNothing
  ExitCodeIsTrue
  RunsOnlyConfigured
