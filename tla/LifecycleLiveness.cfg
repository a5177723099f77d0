SPECIFICATION FairSpec
CONSTANTS
  Procs = {p0, p1}
  Root = p0
  Requests = {r1}
  Main = main
  Workers = {w1}
  Nobody = nobody
  Dispatchers = {FALSE}
  SyncStartup = TRUE
  EarlyRequests = FALSE
  AfterForkModes = {}
  MaxAttempts = 1
PROPERTIES ShutdownCompletes ChildGetsWorker RestartReconnects
CHECK_DEADLOCK FALSE
