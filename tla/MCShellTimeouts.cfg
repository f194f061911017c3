CONSTANTS
  MaxPid = 2
  Lines <- MCTimeoutLines
  MaxSignals = 1
  MaxDisturbed = 1
  MaxFaults = 0
  MaxMishaps = 1
  MaxTime = 1
SPECIFICATION Spec
INVARIANTS
  StaleJobsAreTimed
  QuitKillsAll
PROPERTIES
  AlarmIsNotEarly
  EndIsNoticed
  StopIsNoticed
CHECK_DEADLOCK FALSE
