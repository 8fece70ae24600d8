CONSTANTS
  Threads = {t1, t2, t3}
  Handles = {h1, h2}
SPECIFICATION FairSpec
INVARIANTS
  TypeOK
  ProvidersReady
  OneAnswer
  NoLostCall
  LibraryLetGo
PROPERTY OpenReturns
\* Nothing runs once the process has ended.
CHECK_DEADLOCK FALSE
