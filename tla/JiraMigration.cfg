SPECIFICATION FairSpec
CONSTANTS
  Clients = {c1}
  First = first
  Retries = {r1}
  Choices = {{}, {"project", "comments"}}
  Requests <- SomeRequests
  LastPage = 2
  MaxAttempts = 2
  PhaseTries = 1
  Concurrency = 2
  MaxCalls = 2
  MaxFaults = 1
INVARIANTS
  TypeOK
PROPERTIES
  ImportComplete
  CommentsComplete
  ResumeSkips
  ProcessingEnds
CHECK_DEADLOCK FALSE
