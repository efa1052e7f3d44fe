SPECIFICATION Spec
CONSTANTS
  Clients = {c1}
  MaxRows = 1
  MaxTasks = 1
  MaxIssues = 2
  InitIssues = {1, 2}
  Stamp <- StampInOrder
  Edited = {}
  BatchSize = 1
  MaxAttempts = 1
  MaxStalls = 1
  Concurrency = 2
  MaxShifts = 0
  MaxLost = 0
  MaxCrashes = 0
INVARIANTS
  CancelStopsWorker
CHECK_DEADLOCK FALSE
