\* Two collectors started one after the other while the supervisor runs.
SPECIFICATION Spec
CONSTANTS
  c1 = c1
  c2 = c2
  m1 = m1
  s1 = s1
  NoPid = NoPid
  NoName = NoName
  Collectors <- TwoCollectors
  Managers <- OneManager
  Sups <- OneSup
  RestartLimit = 1
  MaxOps = 2
  MaxFaults = 0
CHECK_DEADLOCK FALSE
INVARIANT StartedIsWatched
