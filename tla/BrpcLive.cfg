SPECIFICATION FairSpec
CONSTANTS
  t1 = t1
  t2 = t2
  c1 = c1
  c2 = c2
  r1 = r1
  r2 = r2
  NULL = NULL
  Parts = {"life", "write", "rpc", "input", "stream", "acceptor", "parallel"}
  LifeConfs <- AnyLife
  StreamConfs <- Waits
PROPERTIES SocketComesBack CallsEnd TransfersEnd
CHECK_DEADLOCK FALSE
