SPECIFICATION Spec
CONSTANTS
  Producers = {t1, t2}
  Pthreads = {p1, p2}
  NULL = NULL
  MaxBatches = 3
  MaxLives = 1
INVARIANTS StartedOnce
CHECK_DEADLOCK FALSE
