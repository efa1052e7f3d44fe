SPECIFICATION Spec
CONSTANTS
  Clients = {c1}
  MaxRows = 1
  MaxTasks = 2
  MaxIssues = 3
  InitIssues = {1, 2}
  Stamp <- StampTied
  Edited = {}
  BatchSize = 1
  MaxAttempts = 1
  MaxStalls = 1
  Concurrency = 2
  MaxShifts = 1
  MaxLost = 0
  MaxCrashes = 0
INVARIANTS
  TypeOK
  ResumeSound
  CompletedCovers
  CancelledStops
  NoStuckRow
CHECK_DEADLOCK FALSE
