SPECIFICATION SpecSmall
CONSTANTS
  m1 = m1
  m2 = m2
  l1 = l1
  l2 = l2
  w1 = w1
  w2 = w2
  NoPid = NoPid
  Managers <- TwoManagers
  Loops <- TwoLoops
  Workers <- TwoWorkers
  MaxParallel = 1
  MaxLoopKills = 1
  MaxManagerKills = 1
  GraceExpires = TRUE
SYMMETRY Symmetry
INVARIANTS
  ParallelBound
  OrphansExplained
  SoleLoop
  PidfileImpliesState
PROPERTIES
  ImplementsPool
