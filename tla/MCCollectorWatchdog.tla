------------------------ MODULE MCCollectorWatchdog ------------------------
(* Small instances of CollectorWatchdog. *)
EXTENDS CollectorWatchdog

CONSTANTS c1, c2, m1, s1

TwoCollectors == {c1, c2}
OneManager == {m1}
OneSup == {s1}
=============================================================================
