\* A collector's loop, one command at a time; loops and supervisors may be killed.
SPECIFICATION LiveEach
CONSTANTS
  m1 = m1
  l1 = l1
  l2 = l2
  w1 = w1
  c1 = c1
  s1 = s1
  s2 = s2
  NoPid = NoPid
  NoName = NoName
  MaxLoopKills = 1
  RestartLimit = 1
  MaxOps = 3
  MaxFaults = 2
CHECK_DEADLOCK FALSE
PROPERTIES
  StopReturns
  DeadLoopTakenUp
