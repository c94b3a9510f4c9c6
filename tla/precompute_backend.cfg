\* No run is interrupted, but another embedder is installed between runs.
SPECIFICATION Spec
CONSTANTS
  Datasets = {d1, d2}
  Jds = {t1, t2}
  Backends = {b1, b2}
  MaxRuns = 2
  MaxInterrupts = 0
INVARIANT NeverWrong
SYMMETRY Symmetry
CHECK_DEADLOCK FALSE
