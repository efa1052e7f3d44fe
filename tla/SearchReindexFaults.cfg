SPECIFICATION FairSpec
CONSTANTS
  Clients = {c1}
  MaxRows = 1
  MaxTasks = 1
  MaxIssues = 2
  InitIssues = {1}
  Stamp <- StampInOrder
  Edited = {2}
  BatchSize = 1
  MaxAttempts = 2
  MaxStalls = 1
  Concurrency = 2
  MaxShifts = 1
  MaxLost = 1
  MaxCrashes = 1
INVARIANTS
  CompletedCovers
PROPERTIES
  CompletedUntilRetried
  Settles
CHECK_DEADLOCK FALSE
