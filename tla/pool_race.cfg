CONSTANTS
  Threads = {t1, t2, t3}
  NoThread = NoThread
  PoolSize = 2
  MaxSessions = 4
  OverlappingOpens = TRUE
SPECIFICATION Spec
INVARIANTS
  ExclusiveSessions
\* After the detach nothing runs any more.
CHECK_DEADLOCK FALSE
