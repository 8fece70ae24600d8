CONSTANTS
  Callers = {c1}
  Objects = {o1, o2, o3}
  MaxFound = 2
  BusySessions = TRUE
SPECIFICATION Spec
INVARIANTS
  SnapshotComplete
