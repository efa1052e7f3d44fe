SPECIFICATION Spec
CONSTANTS
  Callers = {c1, c2}
  Users = {f, u}
  Founder = f
  MaxCalls = 3
SYMMETRY Symmetry
INVARIANTS
  TypeOK
PROPERTIES
  LastOwnerStays
  ActivationKept
  RemovedOut
  AcceptedIn
CHECK_DEADLOCK FALSE
