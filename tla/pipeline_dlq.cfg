\* Where an exhausted job's message ends up, in a process that is not stopped.
SPECIFICATION Spec
CONSTANTS
  j1 = j1
  j2 = j2
  j3 = j3
  NoJob = NoJob
  Jobs <- TwoJobs
  Live <- OneLive
  KeyOf <- OneKey
  MaxAttempts = 2
  Concurrency = 2
  MaxStops = 0
  LostAck = FALSE
INVARIANT FailedIsDeadLettered
