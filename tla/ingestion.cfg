SPECIFICATION Spec
CONSTANTS
  Developers <- MCDevelopers
  GitHub <- MCGitHub
  ApiTasks = {a1, a2}
  CeleryWorkers = {c1}
  Normaliser = 1
  RrfK = 60
  VectorTopK = 2
  Limit = 2
  MaxRetries = 1
  MaxSyncs = 2
  MaxFaults = 1
INVARIANTS
  RecordsAreBacked
  DoneMeansIndexed
  SearchFindsEveryone
PROPERTIES
  NoSilentDrop
  SyncReports
CHECK_DEADLOCK FALSE
