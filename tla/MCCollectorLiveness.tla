------------------------ MODULE MCCollectorLiveness ------------------------
(* What must eventually happen of a collector's loop and of the watchdog    *)
(* over the loops: two small instances side by side.  A behaviour is one of *)
(* one of these, as `part` says; the variables of the other rest.           *)
EXTENDS Integers

CONSTANTS m1, l1, l2, w1, c1, s1, s2, NoPid, NoName, MaxLoopKills,
          RestartLimit, MaxOps, MaxFaults

VARIABLES part,
          pidfile, lstate, lpc, term, active, spawned, lsnap, wpc, owner, wsnap,
          mpc, mpid, msnap, loopKills, managerKills, escaped, overlapped,
          loops, names, supfile, cpc, mtarget, mnames, cpid, spc, sterm, snames,
          srun, srest, scur, scount, wcount, wopen, wstatus, ops, faults,
          wanted, restarts, excused, forgot

loopVars ==
  <<pidfile, lstate, lpc, term, active, spawned, lsnap, wpc, owner, wsnap,
    mpc, mpid, msnap, loopKills, managerKills, escaped, overlapped>>
watchdogVars ==
  <<loops, names, supfile, cpc, mtarget, mnames, cpid, spc, sterm, snames, srun,
    srest, scur, scount, wcount, wopen, wstatus, ops, faults, wanted, restarts,
    excused, forgot>>

Loop == INSTANCE CollectorLoop WITH
  Managers <- {m1}, Loops <- {l1, l2}, Workers <- {w1}, MaxParallel <- 1,
  MaxManagerKills <- 0, GraceExpires <- TRUE
Watchdog == INSTANCE CollectorWatchdog WITH
  Collectors <- {c1}, Managers <- {m1}, Sups <- {s1, s2}, loop <- loops,
  mpc <- cpc, mpid <- cpid

InitEach == /\ part \in {"loop", "watchdog"}
            /\ Loop!Init
            /\ Watchdog!Init

NextEach ==
  \/ part = "loop" /\ Loop!Next /\ UNCHANGED <<part, watchdogVars>>
  \/ part = "watchdog" /\ Watchdog!Next /\ UNCHANGED <<part, loopVars>>

\* Nothing that fairness obliges is enabled in the initial state of a part
\* that rests.
LiveEach == /\ InitEach
            /\ [][NextEach]_<<part, loopVars, watchdogVars>>
            /\ Loop!Fairness /\ Watchdog!Fairness

\* A stop comes back, and the supervisor takes up a loop that is dead or
\* stalled: see CollectorLoop and CollectorWatchdog.
StopReturns == Loop!StopReturns
DeadLoopTakenUp == Watchdog!DeadLoopTakenUp
=============================================================================
