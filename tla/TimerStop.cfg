SPECIFICATION TimerFairSpec
CONSTANTS
  t1 = t1
  t2 = t2
  b1 = b1
  b2 = b2
  Threads = {t1}
  Slots = {s1}
  Buckets = {b1}
  BucketOf <- Hash
  Times = {1}
  MaxNow = 1
  MaxVer = 1
PROPERTIES StopEnds
CHECK_DEADLOCK FALSE
