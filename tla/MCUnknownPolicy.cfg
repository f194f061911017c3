SPECIFICATION Spec
CONSTANTS
  Workers = {w1}
  Master = main
  NoThread = NoThread
  Fds = {f1, f2}
  NoConn = NoConn
  QueueSize = 1
  SchedArgs = {"typo"}
  MaxConn = 3
  MaxOOM = 0
  MaxSpurious = 0
  IOErrors = FALSE
INVARIANTS
  NoneForgotten
