CONSTANTS
  NbrVirtual = 4
  NbrSector = 3
  NbrPageSector = 2
  Static = 1
  Hsm = 2
  HsmRun = 2
  NbrWrites = 8
  NbrLoops = 2
  Checked = 2
  Values = {zero, one}
  Zero = zero
  Erased = erased
  Unmapped = unmapped
SPECIFICATION FairSpec
INVARIANTS
  TypeOK
  MappingExact
  MirrorIntact
PROPERTIES
  StoreSpec
  Terminates
CHECK_DEADLOCK FALSE
