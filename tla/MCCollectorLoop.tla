--------------------------- MODULE MCCollectorLoop ---------------------------
(* Small instances of CollectorLoop for TLC. *)
EXTENDS CollectorLoop, TLC

CONSTANTS m1, m2, l1, l2, w1, w2

OneManager == {m1}
TwoManagers == {m1, m2}
OneLoop == {l1}
TwoLoops == {l1, l2}
OneWorker == {w1}
TwoWorkers == {w1, w2}

Symmetry ==
  Permutations(Managers) \cup Permutations(Loops) \cup Permutations(Workers)

\* Two small instances as one: managers that race over the first loop and its
\* workers, or managers that take turns, over one loop after another.
Small ==
  \/ \E l \in Loops : lpc[l] = "unused"
  \/ ~overlapped /\ \E w \in Workers : wpc[w] = "unused"
SpecSmall == Init /\ [][Next /\ Small']_vars
===============================================================================
