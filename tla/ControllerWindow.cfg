SPECIFICATION Spec
CONSTANTS
  t1 = t1 t2 = t2 local = local other = other special = special
  Tokens = {t1}
  NoToken = NoToken
  NoURL = NoURL
  Hosts = {local, special}
  LoopbackHosts = {local}
  SpecialHost = special
  EventCap = 2
  WorkerIds = {1, 2, 3}
  HasWindow = TRUE
  ActionCap = 16
  AllowInsecure = TRUE
  ConfigComplete = TRUE
  SaveMayFail = FALSE
  EnvToken = NoToken
  Launches <- NoLaunch
  InitialURLs <- OneURL
  SavedConfigs <- Enrolled
  MaxGeneration = 3
  UpdateCap = 3
  Backlog = 15
INVARIANTS DisconnectIsFinal CloseIsClean StatusPageHasConnection OnlineUnlessRefused
PROPERTY ConnectedOnlyWhenLive
