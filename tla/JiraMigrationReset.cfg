SPECIFICATION Spec
CONSTANTS
  Clients = {c1}
  First = first
  Retries = {r1}
  Choices = {{}, {"project", "comments"}}
  Requests <- EveryRequest
  LastPage = 2
  MaxAttempts = 3
  PhaseTries = 3
  Concurrency = 2
  MaxCalls = 1
  MaxFaults = 4
PROPERTIES
  ResetBeforeImport
CHECK_DEADLOCK FALSE
