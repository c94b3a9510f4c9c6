\* Every fault: lost acknowledgements, failing calls, one stop or crash.
SPECIFICATION Spec
CONSTANTS
  j1 = j1
  j2 = j2
  j3 = j3
  NoJob = NoJob
  Jobs <- TwoJobs
  Live <- OneLive
  KeyOf <- OneKey
  MaxAttempts = 3
  Concurrency = 2
  MaxStops = 1
  LostAck = TRUE
INVARIANTS TypeOK OneCopy NothingDropped SavedOnce ServedOwnRequest AnnouncementsHold PermitsConserved
PROPERTY AnnouncedIsFinal
