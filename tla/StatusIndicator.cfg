\* A loop's two runs, one after the other, with nothing else about.
SPECIFICATION Spec
CONSTANTS
  r1 = r1
  r2 = r2
  manager = manager
  nobody = nobody
  Runs <- TwoRuns
  Manual <- NoManual
  Manager <- manager
  Nobody <- nobody
  MaxStops = 0
  ExitCodes = {0, 1}
  Keep = 1
CHECK_DEADLOCK FALSE
INVARIANT IndicatorFollowsExit
