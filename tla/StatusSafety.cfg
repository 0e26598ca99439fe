\* A run of the loop and one by hand, stops, restarts and kills.
SPECIFICATION Spec
CONSTANTS
  r1 = r1
  r2 = r2
  manager = manager
  nobody = nobody
  Runs <- TwoRuns
  Manual <- OneManual
  Manager <- manager
  Nobody <- nobody
  MaxStops = 2
  ExitCodes = {0}
  Keep = 1
CHECK_DEADLOCK FALSE
INVARIANTS NoHiddenRun NoPhantomRun LogIsTail RefusalExplained
