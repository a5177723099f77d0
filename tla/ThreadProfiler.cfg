SPECIFICATION FairSpec
CONSTANTS
  Worker = worker
  Shutdown = shutdown
  MaxStarts = 2
PROPERTIES SubscribedIsPolled PollersEnd ProfileEnds
CHECK_DEADLOCK FALSE
