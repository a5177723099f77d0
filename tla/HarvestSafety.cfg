SPECIFICATION Spec
CONSTANTS
  Events = {e1, e2}
  errors = errors
  profiles = profiles
  txns = txns
  Containers = {errors, profiles, txns}
  Profiles = {profiles}
  Capacity <- SmallBuffers
  Least = 1
  Session = Session
  Commands = Commands
  Plans <- MCPlans
  ShutdownPlan <- MCShutdownPlan
INVARIANTS ExclusiveCustody DuplicatesExplained
PROPERTY DeliverySpec
CHECK_DEADLOCK FALSE
