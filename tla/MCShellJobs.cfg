CONSTANTS
  MaxPid = 3
  Lines <- MCJobLines
  MaxSignals = 2
  MaxDisturbed = 1
  MaxFaults = 2
  MaxMishaps = 2
  MaxTime = 0
SPECIFICATION Spec
INVARIANTS
  TypeOK
  JobsDistinct
  MarkedStoppedRests
  NoRunningChildLost
  PromptIsClean
CHECK_DEADLOCK FALSE
VIEW JobsView
