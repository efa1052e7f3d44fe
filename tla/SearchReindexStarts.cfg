SPECIFICATION Spec
CONSTANTS
  Clients = {c1, c2}
  MaxRows = 2
  MaxTasks = 2
  MaxIssues = 1
  InitIssues = {1}
  Stamp <- StampInOrder
  Edited = {}
  BatchSize = 1
  MaxAttempts = 1
  MaxStalls = 1
  Concurrency = 2
  MaxShifts = 0
  MaxLost = 0
  MaxCrashes = 0
INVARIANTS
  OneActiveRow
SYMMETRY Symmetry
CHECK_DEADLOCK FALSE
