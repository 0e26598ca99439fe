SPECIFICATION Spec
CONSTANTS
  m1 = m1
  m2 = m2
  l1 = l1
  l2 = l2
  w1 = w1
  w2 = w2
  NoPid = NoPid
  Managers <- TwoManagers
  Loops <- TwoLoops
  Workers <- OneWorker
  MaxParallel = 1
  MaxLoopKills = 0
  MaxManagerKills = 0
  GraceExpires = FALSE
SYMMETRY Symmetry
INVARIANTS
  OneLoopPerCollector
