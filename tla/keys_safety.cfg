CONSTANTS
  Threads = {t1, t2}
  KeyIds = {k1, k2, k3}
  Names = {n1, n2}
  MaxPairs = 2
  ReuseNames = FALSE
  Faults = {}
  NoName = NoName
  NoKey = NoKey
SPECIFICATION Spec
INVARIANTS
  TypeOK
  HandleIsPair
  HandleDescribesKey
  OnePairPerName
  HalvesTogether
SYMMETRY Symmetry
