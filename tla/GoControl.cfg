\* Two routines with one timeout() call, or one routine with two.
SPECIFICATION LiveSpec
CONSTANTS
  root = root
  Root <- root
  MaxRoutines = 2
  MaxCalls = 3
CHECK_DEADLOCK FALSE
INVARIANTS StatusHonest BarrierMeansFinished
PROPERTIES BarrierOpens WatchersRetire
