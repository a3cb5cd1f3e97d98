SPECIFICATION Spec
CONSTANTS
  Confs <- Unqualified
INVARIANTS PooledIsClean
CHECK_DEADLOCK FALSE
