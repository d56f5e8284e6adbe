SPECIFICATION FairSpec
CONSTANTS
  Platforms = {"posix", "windows"}
  OutputLimit = 2
  MaxOutput = 4
  ChildKinds = {"attached", "quiet", "escaped"}
CHECK_DEADLOCK FALSE
INVARIANTS TypeOK TruncationExact ZeroMeansComplete TimeoutStopsTree
PROPERTY KeepsPromise
