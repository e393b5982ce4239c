\* One call; libcurl does not fail, a completion may be slow.
CONSTANTS
  r1 = r1
  Requests = {r1}
  request = r1
  MaxConnections = 32
  CurlMayFail = FALSE
  SlowCompletions = TRUE
SPECIFICATION FairSpec
INVARIANTS
  NoThreadLeft
PROPERTIES
  KeepsPromise
