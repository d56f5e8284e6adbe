SPECIFICATION FairReadingSpec
CONSTANTS
  SessionIds = {a}
  Shells = {s1}
  NoShell = NoShell
  MaxSessions = 1
  ChildKinds = {"attached", "quiet", "escaped"}
CHECK_DEADLOCK FALSE
PROPERTIES CloseFreesSlot CloseEndsTree LossEndsShells GoroutinesEnd
