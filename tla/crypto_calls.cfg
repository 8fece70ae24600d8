CONSTANTS
  Threads = {t1, t2}
  Sessions = {s1, s2}
  Keys = {rsa, ec}
  EcKeys = {ec}
  AllocFails = TRUE
  NoSession = NoSession
  NoKey = NoKey
SPECIFICATION FairSpec
INVARIANTS
  TypeOK
  DataFromOwnKey
  NoSessionKept
  LeftActive
PROPERTY SessionsReturned
