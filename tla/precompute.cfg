\* Interrupted, resumed and full runs over changing inputs, one embedder installed.
SPECIFICATION Spec
CONSTANTS
  Datasets = {d1, d2}
  Jds = {t1, t2}
  Backends = {b1}
  MaxRuns = 3
  MaxInterrupts = 1
INVARIANTS TypeOK KeysTellTruth MatrixIsOwn EmbeddingsReused FullRunNeverFails
SYMMETRY Symmetry
CHECK_DEADLOCK FALSE
