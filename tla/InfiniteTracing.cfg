SPECIFICATION FairSpec
CONSTANTS
  Recorders = {r1}
  MaxQueue = 1
  MaxSpans = 3
  MaxStreams = 3
  MaxReconnects = 1
INVARIANTS SentOnce NothingStranded QueueBound
PROPERTIES PushReturns StreamReopened
CHECK_DEADLOCK FALSE
