CONSTANTS
  Threads = {t1, t2, t3}
  NoThread = NoThread
  PoolSize = 2
  MaxSessions = 3
  OverlappingOpens = FALSE
SPECIFICATION FairSpec
INVARIANTS
  TypeOK
  ExclusiveSessions
  HeldSessionsUsable
  PermitsAccounted
  SearchNeverFails
  SessionsAccounted
  DetachClosesAll
PROPERTIES
  LeaseSpec
  PoolDrains
\* After the detach nothing runs any more.
CHECK_DEADLOCK FALSE
