SPECIFICATION Spec
CONSTANTS
  Environment <- MCEnvironment
  event = event
  Events <- MCEvents
  Requests <- MCRequests
  Deliveries <- Traits
  DisableVerification = FALSE
  MaxAttempts = 2
  MaxLives = 2
CHECK_DEADLOCK FALSE
INVARIANTS
  FailedIsNotPublished
