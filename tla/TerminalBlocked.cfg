SPECIFICATION FairSpec
CONSTANTS
  SessionIds = {a}
  Shells = {s1}
  NoShell = NoShell
  MaxSessions = 1
  ChildKinds = {"attached"}
CHECK_DEADLOCK FALSE
PROPERTY LossEndsShells
