\* Three callers around a dependency that goes down and comes back.
SPECIFICATION FairSpec
CONSTANTS
  Callers = {c1, c2, c3}
  FailMax = 2
  ResetTimeout = 2
INVARIANTS TypeOK ClosedBelowLimit
PROPERTIES Recovers ShedsOutage
