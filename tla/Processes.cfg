SPECIFICATION Spec
CONSTANTS
  Processes = {p1, p2}
  None = None
  EnvDevice = EnvDevice
  Kinds = {"manual", "launch", "wake"}
  Overrides = {TRUE, FALSE}
  FaultyDisk = TRUE
  FirstFiles <- AnyFile
  Attempts = 3
CHECK_DEADLOCK FALSE
INVARIANTS TypeOK CredentialIsForDevice BrokenFileHasCause
PROPERTY BridgeYieldsToClient
