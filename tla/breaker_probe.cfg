\* How many callers a half-open breaker admits.
SPECIFICATION Spec
CONSTANTS
  Callers = {c1, c2, c3}
  FailMax = 2
  ResetTimeout = 2
INVARIANT SingleProbe
