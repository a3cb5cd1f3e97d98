SPECIFICATION ButexFairSpec
CONSTANTS
  Bthreads = {t1}
  Pthreads = {}
  Wakers = {k1}
  Interrupters = {i1}
  Butexes = {b1}
  Interruptees = {t1}
  Uninit = {Null, Wild}
  Null = Null
  Wild = Wild
  MaxValue = 1
  MaxCalls = 2
CHECK_DEADLOCK FALSE
PROPERTY InterruptWakes
