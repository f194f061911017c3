SPECIFICATION Spec
CONSTANTS
  Workers = {w1, w2, w3}
  Master = main
  NoThread = NoThread
  Fds = {f1, f2, f3, f4}
  NoConn = NoConn
  QueueSize = 2
  SchedArgs = {"block", "dt", "dh", "random", "typo"}
  MaxConn = 4
  MaxOOM = 1
  MaxSpurious = 1
  IOErrors = TRUE
SYMMETRY PoolSymmetry
INVARIANTS
  TypeOK
  CapacityBound
  RunningCount
  Accounted
  DescriptorOwnership
  NoLeak
  ArrivalOrder
  NoLostWakeup
