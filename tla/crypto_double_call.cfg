CONSTANTS
  Threads = {t1, t2}
  Sessions = {s1, s2}
  Keys = {rsa, ec}
  EcKeys = {ec}
  AllocFails = FALSE
  NoSession = NoSession
  NoKey = NoKey
SPECIFICATION Spec
INVARIANTS
  DoubleCallSigns
