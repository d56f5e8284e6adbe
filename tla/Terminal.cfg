SPECIFICATION Spec
CONSTANTS
  SessionIds = {a, b}
  Shells = {s1, s2}
  NoShell = NoShell
  MaxSessions = 1
  ChildKinds = {"attached", "quiet", "escaped"}
SYMMETRY Interchangeable
CHECK_DEADLOCK FALSE
INVARIANTS TypeOK ProcessLimit TeardownReachesAll ClosedIsComplete
PROPERTIES OutputInOrder ServesTerminals
