SPECIFICATION KernelSpec
CONSTANTS
  Workers = {w1, w2}
  Master = main
  NoThread = NoThread
  Fds = {1, 2, 3, 4, 5}
  NoConn = NoConn
  QueueSize = 4
  SchedArgs = {"block", "dt", "dh", "random"}
  MaxConn = 5
  MaxOOM = 0
  MaxSpurious = 1
  IOErrors = FALSE
PROPERTIES
  ImplementsAdmission
  EventuallyClosed
