SPECIFICATION Spec
CONSTANTS
  Processes = {p1, p2}
  None = None
  EnvDevice = EnvDevice
  Kinds = {"manual", "launch", "wake"}
  Overrides = {FALSE}
  FaultyDisk = FALSE
  FirstFiles <- Prepared
  Attempts = 20
CHECK_DEADLOCK FALSE
PROPERTY LaunchYields
