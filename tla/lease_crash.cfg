SPECIFICATION Spec
CONSTANTS
  w1 = w1
  w2 = w2
  w3 = w3
  Writers = {w1, w2, w3}
  Crashable = {w1}
  Suspendable = {}
  SameHost = TRUE
  TTL = 3
  MutexStale = 1
  MaxClock = 5
  NoFile = NoFile
  NoToken = NoToken
INVARIANT MutexExclusion
CHECK_DEADLOCK FALSE
