CONSTANTS
  Callers = {c1}
  Objects = {o1, o2, o3, o4}
  MaxFound = 3
  BusySessions = FALSE
SPECIFICATION FairSpec
INVARIANTS
  TypeOK
  NamedOnce
  SkipsAreFailures
  SnapshotComplete
PROPERTY EnumEnds
