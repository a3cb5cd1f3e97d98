SPECIFICATION MCSpec
CONSTANTS
  Readers = {"r1", "r2", "r3"}
  Wrappers = {"w1", "w2"}
  WrapperOf <- MCWrapperOf
  MayExit = FALSE
  MaxReads = 2
  MaxModify = 2
INVARIANTS ReadIsStable InstancesAgree BlocksExact PoolExact CombinerExact
PROPERTIES ModifyReturns BuffersAreSequences
CHECK_DEADLOCK FALSE
