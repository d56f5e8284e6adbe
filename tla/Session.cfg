SPECIFICATION FairSpec
CONSTANTS
  Requests = {r1, r2}
  Pairings = {p1, p2}
  NoTask = NoTask
  Parallel = 1
  MaxBackoff = 1
  StableAfter = 1
  DialLimit = 1
  MaxConnections = 2
CHECK_DEADLOCK FALSE
INVARIANTS TypeOK ParallelLimit NothingOutlivesConnection
PROPERTIES ServesRequests ConnectionEndIsPrompt AcceptedIsAnswered
