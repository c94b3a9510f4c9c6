SPECIFICATION Spec
CONSTANTS
  Developers <- MCDevelopers
  GitHub <- MCGitHub
  ApiTasks = {a1}
  CeleryWorkers = {}
  Normaliser = 1
  RrfK = 60
  VectorTopK = 2
  Limit = 2
  MaxRetries = 1
  MaxSyncs = 2
  MaxFaults = 1
INVARIANT GraphCountsOnce
CHECK_DEADLOCK FALSE
