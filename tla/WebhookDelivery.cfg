SPECIFICATION FairSpec
CONSTANTS
  Clients = {c1}
  Webhooks = {w1}
  MaxEvents = 1
  MaxManual = 1
  MaxDeliveries = 3
  MaxTasks = 3
  MaxAttempts = 2
  MaxStalls = 1
  Concurrency = 2
  MaxCrashes = 1
INVARIANTS
  TypeOK
  PendingIsHeld
  NextRetryIsKept
  AttemptsBounded
  OneRetryPerRun
  SuccessIsNotRetried
PROPERTIES
  DeliveryEnds
CHECK_DEADLOCK FALSE
