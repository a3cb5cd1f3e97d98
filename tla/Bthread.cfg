SPECIFICATION MCSpec
CONSTANTS
  Thieves = {h1, h2}
  Capacity = 2
  MaxPush = 4
  Threads = {"t1", "t2"}
  Slots = {"s1", "s2"}
  Buckets = {"b1"}
  BucketOf <- SameBucket
  Times = {1, 2}
  MaxNow = 2
  MaxVer = 1
  a1 = a1
  a2 = a2
  w1 = w1
  w2 = w2
  l1 = l1
  l2 = l2
SYMMETRY Symmetry
INVARIANTS TakenOnce NothingLost ReadyOnce NotAllAsleep TimerSafe
PROPERTY RunsEarliest
CHECK_DEADLOCK FALSE
