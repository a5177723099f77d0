SPECIFICATION Spec
CONSTANTS
  Procs = {p0, p1}
  Root = p0
  Requests = {r1, r2}
  Main = main
  Workers = {w1, w2}
  Nobody = nobody
  Dispatchers = {FALSE, TRUE}
  SyncStartup = FALSE
  EarlyRequests = FALSE
  AfterForkModes = {"force", "channel"}
  MaxAttempts = 0
SYMMETRY ThreadSymmetry
INVARIANTS OneWorkerPerProcess OwnRunWhenForced ParentsDataNotResent
PROPERTY RejectedStaysAway
CHECK_DEADLOCK FALSE
