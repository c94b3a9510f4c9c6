\* A run is interrupted and its inputs are changed back.
SPECIFICATION Spec
CONSTANTS
  Datasets = {d1, d2}
  Jds = {t1, t2}
  Backends = {b1}
  MaxRuns = 3
  MaxInterrupts = 1
INVARIANT SkipsOnlyFinished
SYMMETRY Symmetry
CHECK_DEADLOCK FALSE
