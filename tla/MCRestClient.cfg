\* Three requests of two application threads and two connections; libcurl may
\* fail and completions may be slow.
CONSTANTS
  t1 = t1
  t2 = t2
  Requests = {1, 2, 3}
  Callers = {t1, t2}
  MaxConnections = 2
  CurlMayFail = TRUE
  SlowCompletions = TRUE
  UsesClose = TRUE
  UsesFinish = TRUE
  UsesDestroy = TRUE
SPECIFICATION FairSpec
INVARIANTS
  TypeOK
  ConnectionsBounded
  NoLostWakeUp
  OnePlace
  NothingLost
PROPERTIES
  ClosedThreadEnds
