SPECIFICATION FairWSpec
CONSTANTS
  w1 = w1
  w2 = w2
  w3 = w3
  Writers = {w1, w2}
  Crashable = {w1, w2}
  Suspendable = {}
  SameHost = TRUE
  TTL = 2
  Heartbeat = 1
  MutexStale = 1
  MaxClock = 3
  MaxEvents = 2
  NoFile = NoFile
  NoToken = NoToken
INVARIANT MutexExclusion
INVARIANT RenewalNeverOverwrites
INVARIANT LogStaysDense
INVARIANT OneVerified
PROPERTY LiveLeaseKept
PROPERTY CallsEnd
CHECK_DEADLOCK FALSE
