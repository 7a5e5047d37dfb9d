SPECIFICATION Spec
CONSTANTS
  pr = pr
  junk = junk
  Messages <- MCMessages
  Kind <- MCKind
  Requests <- MCRequests
  MaxAttempts = 2
  MaxLives = 2
CHECK_DEADLOCK FALSE
INVARIANTS
  TypeOK
  AckedIsSettled
  DuplicatesAreExcused
PROPERTIES
  CleanExitDropsNothing
  SignalStops
  IsAStage
