SPECIFICATION Spec
CONSTANTS
  Clients = {c1, c2}
  Projects = {p1, p2}
  Keys = {A, B, C}
  Issues = {i1, i2}
  NoProject = NoProject
  NoKey = NoKey
  MaxCalls = 3
  MaxNumber = 3
SYMMETRY Symmetry
INVARIANT OldKeysResolve
CHECK_DEADLOCK FALSE
