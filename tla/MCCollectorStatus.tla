------------------------- MODULE MCCollectorStatus -------------------------
(* Small instances of CollectorStatus. *)
EXTENDS CollectorStatus

CONSTANTS r1, r2, manager, nobody

TwoRuns == {r1, r2}
OneManual == {r2}
NoManual == {}
=============================================================================
