SPECIFICATION MCSpec
CONSTANTS
  Clients = {c1, c2}
  Sprints = {s1, s2}
  Issues = {i1, i2}
  Columns = {k1, k2}
  NoSprint = NoSprint
  NoColumn = NoColumn
  Keep = Keep
  WipLimit = 1
  MaxCalls = 2
SYMMETRY Symmetry
INVARIANTS TypeOK OneActiveUnlessStale ColumnRemains
PROPERTIES LifecycleKept NothingOpenLeft BlockersHoldHandOver NoIssueLosesColumn WipChecked
CHECK_DEADLOCK FALSE
