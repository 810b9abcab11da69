\* One request, failure or restart anywhere in the life of an account.
SPECIFICATION FairSpec
CONSTANTS
  ExtractionRetries = 1
  PaymentRetries = 1
  NumberChanges = 1
  MaxEvents = 1
  MaxTasks = 2
  MaxJobs = 3
  MaxNumbers = 6
CONSTRAINT NotRaced
CHECK_DEADLOCK FALSE
INVARIANTS PaidOnce NoNumberForgotten SpendsWithinSettings
PROPERTIES Settles
