SPECIFICATION Spec
CONSTANTS
  Main = main
  Worker = worker
  Readers = {r1}
  few = few
  many = many
  Limits = {few, many}
  Configurations <- MCConfigurations
  Replies <- MCReplies
  MaxConnects = 2
INVARIANTS CacheIsCurrent DetectionKept SubscriberFollows AggregatorFollows
CHECK_DEADLOCK FALSE
