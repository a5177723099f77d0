SPECIFICATION FairSpec
CONSTANTS
  Threads = {t1}
  LoopThread = loop
  Events = {e1, e2}
  Handlers = {h1}
  Intervals = {2}
  PipeSize = 1
  MaxCalls = 3
  MaxTime = 2
INVARIANTS NoLostWakeup StopNotMissed SubscribedBeforeFire
PROPERTIES TimerSpacing QueueDrains StopEndsLoop DueTimerFires
CHECK_DEADLOCK FALSE
