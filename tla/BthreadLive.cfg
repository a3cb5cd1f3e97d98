SPECIFICATION FairSpec
CONSTANTS
  t1 = t1
  t2 = t2
  t3 = t3
  p1 = p1
  p2 = p2
  k1 = k1
  i1 = i1
  b1 = b1
  n1 = n1
  n2 = n2
  Null = Null
PROPERTIES SleepersWake WaitsEnd  TasksRun WaitersProceed
CHECK_DEADLOCK FALSE
