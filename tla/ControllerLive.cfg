SPECIFICATION FairSpec
CONSTANTS
  t1 = t1 t2 = t2 local = local other = other special = other
  Tokens = {t1}
  NoToken = NoToken
  NoURL = NoURL
  Hosts = {local, other}
  LoopbackHosts = {local}
  SpecialHost = other
  EventCap = 1
  WorkerIds = {1, 2, 3}
  HasWindow = TRUE
  ActionCap = 16
  AllowInsecure = TRUE
  ConfigComplete = TRUE
  SaveMayFail = FALSE
  EnvToken = NoToken
  Launches <- NoLaunch
  InitialURLs <- OneURL
  SavedConfigs <- Enrolled
  MaxGeneration = 2
  UpdateCap = 3
  Backlog = 15
PROPERTIES CancelledWorkersFinish RejectionLeadsToEnrollment DisconnectTakesEffect
