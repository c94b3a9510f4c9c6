\* Commits are acknowledged; three jobs compete for one permit, under fairness.
SPECIFICATION FairSpec
CONSTANTS
  j1 = j1
  j2 = j2
  j3 = j3
  NoJob = NoJob
  Jobs <- ThreeJobs
  Live <- OneLive
  KeyOf <- TwoKeys
  MaxAttempts = 2
  Concurrency = 1
  MaxStops = 1
  LostAck = FALSE
INVARIANT DeadLettersAreUnfinished
PROPERTIES ImplementsLifecycle EveryJobSettles
