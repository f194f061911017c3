CONSTANTS
  MaxPid = 2
  Lines <- MCForegroundLines
  MaxSignals = 1
  MaxDisturbed = 0
  MaxFaults = 0
  MaxMishaps = 1
  MaxTime = 0
SPECIFICATION Spec
INVARIANTS
  JobsHaveProcesses
CHECK_DEADLOCK FALSE
