SPECIFICATION MCSpec
CONSTANTS
  t1 = t1
  t2 = t2
  b1 = b1
  b2 = b2
  n1 = n1
  n2 = n2
  n3 = n3
  NULL = NULL
  UNCONNECTED = UNCONNECTED
  NoTask = NoTask
  Threads = {n1, n2, n3}
  VerMod = 12
  IdMaxRange = 2
  MaxErrors = 1
  WrapEnabled = FALSE
  ResetContended = FALSE
  UnlockDoomed = FALSE
  Bthreads = {"t1"}
  Pthreads = {"p1"}
  Wakers = {"k1"}
  Interrupters = {"i1"}
  Butexes = {t1, t2}
  Interruptees = {"t1", "p1"}
  Uninit = {NULL}
  Null = NULL
  Wild = NoTask
  MaxValue = 1
  MaxCalls = 2
  LockUsers = {"t1", "t2", "t3", "t4"}
  Confs <- MutexConfs
  Signallers = {"s1", "s2"}
  EventWaiters = {"w1", "w2"}
  Initial = 3
  Sigs <- EventSigs
SYMMETRY Symmetry
INVARIANTS LockSafe NobodyStranded ButexSafe MutexSafe EventSafe QueueSafe
PROPERTIES StaleForever ImplementsTaskQueue
CHECK_DEADLOCK FALSE
