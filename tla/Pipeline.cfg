SPECIFICATION Spec
CONSTANTS
  event = event
  Events <- MCEvents
  Webhooks <- MCWebhooks
  AllowedRepository <- KrewIndex
  DisableVerification = FALSE
  MaxDeliveries = 2
  MaxPushes = 2
CHECK_DEADLOCK FALSE
INVARIANTS
  ReviewsWhatWasOpened
  AcceptedIsKept
  SecondReviewIsExcused
PROPERTIES
  AcceptedIsReviewed
