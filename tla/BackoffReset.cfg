SPECIFICATION Spec
CONSTANTS
  Requests = {}
  Pairings = {}
  NoTask = NoTask
  Parallel = 4
  MaxBackoff = 30
  StableAfter = 30
  DialLimit = 10
  MaxConnections = 2
CHECK_DEADLOCK FALSE
PROPERTY BackoffGrows
