SPECIFICATION Spec
CONSTANTS
  Clients = {c1}
  Webhooks = {w1, w2}
  MaxEvents = 1
  MaxManual = 1
  MaxDeliveries = 4
  MaxTasks = 4
  MaxAttempts = 2
  MaxStalls = 1
  Concurrency = 2
  MaxCrashes = 1
INVARIANTS
  RetriedIsPickedUp
CHECK_DEADLOCK FALSE
