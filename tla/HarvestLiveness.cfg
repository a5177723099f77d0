SPECIFICATION FairSpec
CONSTANTS
  Events = {e1, e2}
  errors = errors
  profiles = profiles
  txns = txns
  Containers = {errors, txns}
  Profiles = {}
  Capacity <- SmallBuffers
  Least = 1
  Session = Session
  Commands = Commands
  Plans <- TracePlans
  ShutdownPlan <- TracePlan
PROPERTIES EventuallyDelivered ShutdownFlushEnds
CHECK_DEADLOCK FALSE
