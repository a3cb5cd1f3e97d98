SPECIFICATION FairSpec
CONSTANTS
  t1 = t1
  t2 = t2
  c1 = c1
  c2 = c2
  r1 = r1
  r2 = r2
  NULL = NULL
  Parts = {"life"}
  LifeConfs <- FailsTwice
  StreamConfs <- Waits
PROPERTY SocketRevives
CHECK_DEADLOCK FALSE
