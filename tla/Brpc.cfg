SPECIFICATION MCSpec
CONSTANTS
  t1 = t1
  t2 = t2
  t3 = t3
  NULL = NULL
  Readers = {"r1", "r2"}
  Messages = {1, 2}
  Confs <- InputConfs
  SocketUsers = {t1, t2, t3}
  Checkers = {"c1", "c2"}
  SocketConfs <- LifeConfs
  MaxLives = 2
  MaxCount = 2
SYMMETRY Symmetry
INVARIANTS SocketSafe WireInOrder ToldOnce RpcSafe InputSafe  AcceptorSafe ParallelSafe WeightsSafe
PROPERTY SocketSteps
CHECK_DEADLOCK FALSE
