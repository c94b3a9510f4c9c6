SPECIFICATION Spec
CONSTANTS
  Capacity = 1
  Policy = "lru"
  Tasks = {t1, t2}
  Admins = {a1, a2}
  PerMinute = 1
  Window = 2
  Ttl = 1
  SizeOf <- MCSizeOf
  MaxWork = 6
SYMMETRY MCSymmetry
INVARIANTS
  LimitHolds
  CacheStaysBounded
  
  SettledFieldsAgree
  StaleAnswersEnd
CHECK_DEADLOCK FALSE
