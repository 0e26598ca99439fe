\* Expressions of two items; four launches of loops and workers in two minutes; a
\* command; two watched collectors and two supervisors one after the other.
SPECIFICATION SpecEach
CONSTANTS
  Items <- MCItems
  Times <- MCTimes
  MaxWritten = 2
  c1 = c1
  c2 = c2
  m1 = m1
  s1 = s1
  s2 = s2
  loop1 = loop1
  Due = {0, 1}
  LastMinute = 1
  Parallel = 2
  Starters <- OneManager
  TheLoop = loop1
  MaxLaunches = 4
  NoPid = NoPid
  NoName = NoName
  Collectors <- TwoCollectors
  Managers <- OneManager
  Sups <- TwoSups
  RestartLimit = 1
  MaxOps = 3
  MaxFaults = 1
SYMMETRY Alike
CHECK_DEADLOCK FALSE
INVARIANTS
  DueExact
  TwiceExplained
  TakenIsRun
  Contained
  AstrayExplained
  BudgetHolds
  StopSticks
  SoleSupervisor
