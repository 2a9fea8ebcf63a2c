SPECIFICATION Spec
CONSTANTS
  Server = {a, b}
  Installed = {a}
  Asks = {a}
  User = user
  Worker = {w}
  Verbs = {"enable", "disable", "reconnect", "logout", "approve", "revoke", "load"}
  Changes = {"same", "same off", "changed", "changed off", "gone"}
  MaxDone = 4
  MaxLoads = 1
  None = None
INVARIANTS EndsWithSession OffMeansStopped OneProcess NothingUnlisted
CHECK_DEADLOCK FALSE
