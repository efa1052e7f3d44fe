SPECIFICATION Spec
CONSTANTS
  Clients = {c1, c2}
  Projects = {p1, p2}
  Keys = {A, B, C}
  Issues = {i1, i2}
  NoProject = NoProject
  NoKey = NoKey
  MaxCalls = 4
  MaxNumber = 2
SYMMETRY Symmetry
INVARIANTS TypeOK KeysResolve IssueKeysUnique
CHECK_DEADLOCK FALSE
