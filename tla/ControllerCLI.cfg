SPECIFICATION Spec
CONSTANTS
  t1 = t1 t2 = t2 local = local other = other special = special
  Tokens = {t1, t2}
  NoToken = NoToken
  NoURL = NoURL
  Hosts = {local, other, special}
  LoopbackHosts = {local}
  SpecialHost = special
  EventCap = 2
  WorkerIds = {1, 2, 3}
  HasWindow = FALSE
  ActionCap = 2
  AllowInsecure = TRUE
  ConfigComplete = TRUE
  SaveMayFail = TRUE
  EnvToken = NoToken
  Launches <- OneLaunch
  InitialURLs <- OneURL
  SavedConfigs <- AnyStart
  MaxGeneration = 3
  UpdateCap = 2
  Backlog = 15
INVARIANTS TypeOK OneOwner CredentialAgreement
PROPERTIES DroppedTokenWasRejected SavedAddressWasReached LaunchHonoured ServesOneConnection
