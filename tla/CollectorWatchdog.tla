------------------------- MODULE CollectorWatchdog -------------------------
(***************************************************************************)
(* The collector watchdog of RuntimeManager: the supervisor process that   *)
(* restarts collector loops which died or stalled, and the dashboard       *)
(* commands (managers) that start and stop collectors and tell it which    *)
(* ones to watch.                                                          *)
(*                                                                         *)
(* They share collector-supervisor.json (the watched names) and the        *)
(* supervisor's pidfile.  Neither is locked: everyone reads the names,     *)
(* works on them and replaces the file, so these are separate steps.  So   *)
(* are the supervisor's look at the loops, its decision on each of them,   *)
(* the restart and the record of it.                                       *)
(*                                                                         *)
(* Abstracted: a start_loop or stop_loop is one step here (CollectorLoop   *)
(* takes them apart); a restart window is open or has expired; an          *)
(* unlinked pair of files goes in one step.                                *)
(***************************************************************************)
EXTENDS Integers, FiniteSets

CONSTANTS
  Collectors,   \* names of configured collectors
  Managers,     \* dashboard commands that start and stop collectors
  Sups,         \* pids a supervisor may get
  NoPid,        \* no supervisor
  NoName,       \* no collector
  RestartLimit, \* restarts the watchdog allows itself in a window, at least one
  MaxOps,       \* bound on start and stop commands
  MaxFaults     \* bound on faults: loops that crash or stall, supervisors
                \* that are killed, passes that die

ASSUME WatchdogAssumption ==
  /\ NoPid \notin Sups
  /\ NoName \notin Collectors
  /\ RestartLimit \in Nat \ {0}
  /\ MaxOps \in Nat
  /\ MaxFaults \in Nat

VARIABLES
  loop,     \* loop[c]: "down", "up" or "stalled"
  names,    \* watched_names of collector-supervisor.json ({}: no file)
  supfile,  \* the supervisor's pidfile
  mpc,      \* mpc[m]: where manager m is
  mtarget,  \* mtarget[m]: the collectors its command is about
  mnames,   \* mnames[m]: the watched names it has read and worked on
  mpid,     \* mpid[m]: the supervisor it has found or launched
  spc,      \* spc[s]: where supervisor s is
  sterm,    \* sterm[s]: a stop signal is pending for s
  snames,   \* snames[s]: the names read at the start of this pass
  srun,     \* srun[s]: the running loops found in this pass
  srest,    \* srest[s]: names this pass has not yet looked at
  scur,     \* scur[s]: the collector it is restarting
  scount,   \* scount[s]: the restart count it will record
  wcount,   \* wcount[c]: watchdog_restart_count in status.json
  wopen,    \* wopen[c]: the window in status.json has not expired
  wstatus,  \* wstatus[c]: watchdog_status
  ops, faults, \* commands and faults so far
  wanted,     \* history: collectors whose last command was a start
  restarts,   \* history: restarts[c] since c's window began
  excused,    \* history: collectors whose stop was disturbed (see Disturbed)
  forgot      \* history: a restart went uncounted (see Forgets)

files == <<names, supfile>>
managerVars == <<mpc, mtarget, mnames, mpid>>
supVars == <<spc, sterm, snames, srun, srest, scur, scount>>
statusVars == <<wcount, wopen, wstatus>>
bounds == <<ops, faults>>
history == <<wanted, restarts, excused, forgot>>
vars == <<loop, files, managerVars, supVars, statusVars, bounds, history>>

-----------------------------------------------------------------------------
(* Processes *)

\* Between its decision to restart a collector and the record of it.
Restarting == {"restart", "record", "recordFailed"}
Awake == {"read", "write", "scan", "pass"} \cup Restarting
SupAlive(s) == spc[s] \in Awake \cup {"boot", "sleep", "shut"}
\* _collector_supervisor_running, when it finds one.
Running == {s \in Sups : supfile = s /\ SupAlive(s)}

\* When it finds none, it removes the files a dead supervisor left.
CleanStale ==
  IF supfile # NoPid /\ Running = {}
  THEN supfile' = NoPid /\ names' = {}
  ELSE UNCHANGED files

\* A stop is disturbed by a supervisor between its read and the end of its
\* pass, by another command, or when the loop had already died.
Disturbed(m) ==
  \/ \E s \in Sups : spc[s] \in Awake
  \/ \E o \in Managers \ {m} : mpc[o] # "idle"

-----------------------------------------------------------------------------
(* Managers *)

Step(m, from, to) == /\ mpc[m] = from
                     /\ mpc' = [mpc EXCEPT ![m] = to]
Finish(m, from) == /\ Step(m, from, "idle")
                   /\ mtarget' = [mtarget EXCEPT ![m] = {}]
                   /\ mnames' = [mnames EXCEPT ![m] = {}]
                   /\ mpid' = [mpid EXCEPT ![m] = NoPid]
Command == ops < MaxOps /\ ops' = ops + 1
\* A command disturbs the stops other managers are in the middle of.
StopSteps == {"stopRead", "stopRunning", "stopWrite", "stopStart", "stopSpawn",
  "stopPidfile", "stopState", "stopSup", "stopWait", "stopClean", "stopLoops"}
BeingStopped == UNION {mtarget[m] : m \in {o \in Managers : mpc[o] \in StopSteps}}

\* start_named_collector, start_collectors: the loops are started, those that
\* run are adopted, and all are found ready.
StartCollectors(m, cs) ==
  /\ Command
  /\ Step(m, "idle", "startRead")
  /\ mtarget' = [mtarget EXCEPT ![m] = cs]
  /\ loop' = [c \in Collectors |->
                IF c \in cs /\ loop[c] = "down" THEN "up" ELSE loop[c]]
  /\ wanted' = wanted \cup cs
  /\ excused' = (excused \cup BeingStopped) \ cs
  /\ UNCHANGED <<files, mnames, mpid, supVars, statusVars, faults,
                 restarts, forgot>>

\* One does not become ready: it and those started before it are stopped, an
\* adopted loop included, and the command dies.  The watched names stay.
StartFails(m, cs) ==
  /\ Command
  /\ mpc[m] = "idle"
  /\ loop' = [c \in Collectors |-> IF c \in cs THEN "down" ELSE loop[c]]
  /\ UNCHANGED <<files, managerVars, supVars, statusVars, faults,
                 history>>

\* _merge_collector_supervisor_targets
MergeRead(m) ==
  /\ Step(m, "startRead", "startRunning")
  /\ mnames' = [mnames EXCEPT ![m] = names \cup mtarget[m]]
  /\ UNCHANGED <<loop, files, mtarget, mpid, supVars, statusVars, bounds, history>>

\* stop_collectors: the targets are the loops that run (a dead one has no
\* files left to find it by once running_loops has looked).  With a name the
\* command goes on to the watched names, without one to the supervisor.
StopCollector(m, c) ==
  LET target == {c} \cap {d \in Collectors : loop[d] # "down"} IN
  /\ Command
  /\ Step(m, "idle", "stopRead")
  /\ mtarget' = [mtarget EXCEPT ![m] = target]
  /\ wanted' = wanted \ {c}
  /\ excused' = excused \cup BeingStopped
                  \cup (IF Disturbed(m) \/ target = {} THEN {c} ELSE {})
  /\ UNCHANGED <<loop, files, mnames, mpid, supVars, statusVars, faults,
                 restarts, forgot>>

StopAllCollectors(m) ==
  LET target == {d \in Collectors : loop[d] # "down"} IN
  /\ Command
  /\ Step(m, "idle", "stopSup")
  /\ mtarget' = [mtarget EXCEPT ![m] = target]
  /\ wanted' = {}
  /\ excused' = excused \cup BeingStopped
                  \cup (IF Disturbed(m) THEN Collectors ELSE Collectors \ target)
  /\ UNCHANGED <<loop, files, mnames, mpid, supVars, statusVars, faults,
                 restarts, forgot>>

\* Mutant: the names to stop are left on the list.
RemoveRead_KeepsNames(m) ==
  /\ Step(m, "stopRead", IF names = {} THEN "stopSup" ELSE "stopRunning")
  /\ mnames' = [mnames EXCEPT ![m] = names]
  /\ UNCHANGED <<loop, files, mtarget, mpid, supVars, statusVars, bounds, history>>

\* _remove_collector_supervisor_targets
RemoveRead(m) ==
  /\ Step(m, "stopRead",
          IF names \subseteq mtarget[m] THEN "stopSup" ELSE "stopRunning")
  /\ mnames' = [mnames EXCEPT ![m] = names \ mtarget[m]]
  /\ UNCHANGED <<loop, files, mtarget, mpid, supVars, statusVars, bounds, history>>

\* _set_collector_supervisor_targets: is one running, ...
SetRunning(m, from, to) ==
  /\ Step(m, from, to)
  /\ CleanStale
  /\ mpid' = [mpid EXCEPT ![m] = IF Running = {} THEN NoPid ELSE supfile]
  /\ UNCHANGED <<loop, mtarget, mnames, supVars, statusVars, bounds, history>>

\* ... then the new names replace the old ones, whatever those are by now.
SetWrite(m, from, to, done) ==
  /\ Step(m, from, IF mpid[m] # NoPid THEN done ELSE to)
  /\ names' = mnames[m]
  /\ UNCHANGED <<loop, supfile, mtarget, mnames, mpid, supVars, statusVars,
                 bounds, history>>

\* _start_collector_supervisor: the names are read back, and one that has come
\* up meanwhile is left alone.
SupStart(m, from, to, done) ==
  /\ Step(m, from, IF names = {} \/ Running # {} THEN done ELSE to)
  /\ mnames' = [mnames EXCEPT ![m] = names]
  /\ IF names = {} THEN UNCHANGED files ELSE CleanStale
  /\ UNCHANGED <<loop, mtarget, mpid, supVars, statusVars, bounds, history>>

SupSpawn(m, from, to) ==
  \E s \in Sups :
    /\ spc[s] = "unused"
    /\ Step(m, from, to)
    /\ spc' = [spc EXCEPT ![s] = "boot"]
    /\ mpid' = [mpid EXCEPT ![m] = s]
    /\ UNCHANGED <<loop, files, mtarget, mnames, sterm, snames, srun, srest, scur,
                   scount, statusVars, bounds, history>>

\* The launch fails and the command dies, a stop before it has stopped a loop.
\* Also stands for exhausted pids.
SupSpawnFails(m, from) ==
  /\ Finish(m, from)
  /\ excused' = excused \cup mtarget[m]
  /\ UNCHANGED <<loop, files, supVars, statusVars, bounds, wanted, restarts,
                 forgot>>

SupPidfile(m, from, to) ==
  /\ Step(m, from, to)
  /\ supfile' = mpid[m]
  /\ UNCHANGED <<loop, names, mtarget, mnames, mpid, supVars, statusVars,
                 bounds, history>>

SupState(m, from, done) ==
  /\ Step(m, from, done)
  /\ names' = mnames[m]
  /\ UNCHANGED <<loop, supfile, mtarget, mnames, mpid, supVars, statusVars,
                 bounds, history>>

\* The same steps serve a start, which then returns, and a stop by name, which
\* then stops the loops.
SetTargets(m) ==
  \/ SetRunning(m, "startRunning", "startWrite")
  \/ SetWrite(m, "startWrite", "startStart", "return")
  \/ SupStart(m, "startStart", "startSpawn", "return")
  \/ SupSpawn(m, "startSpawn", "startPidfile")
  \/ SupSpawnFails(m, "startSpawn")
  \/ SupPidfile(m, "startPidfile", "startState")
  \/ SupState(m, "startState", "return")
  \/ SetRunning(m, "stopRunning", "stopWrite")
  \/ SetWrite(m, "stopWrite", "stopStart", "stopLoops")
  \/ SupStart(m, "stopStart", "stopSpawn", "stopLoops")
  \/ SupSpawn(m, "stopSpawn", "stopPidfile")
  \/ SupSpawnFails(m, "stopSpawn")
  \/ SupPidfile(m, "stopPidfile", "stopState")
  \/ SupState(m, "stopState", "stopLoops")

\* _stop_collector_supervisor: TERM, ...
StopSup(m) ==
  /\ Step(m, "stopSup", IF Running = {} THEN "stopClean" ELSE "stopWait")
  /\ mpid' = [mpid EXCEPT ![m] = IF Running = {} THEN NoPid ELSE supfile]
  /\ sterm' = [s \in Sups |-> sterm[s] \/ s \in Running]
  /\ CleanStale
  /\ UNCHANGED <<loop, mtarget, mnames, spc, snames, srun, srest, scur, scount,
                 statusVars, bounds, history>>

\* Ending in the middle of a restart leaves it uncounted.
Forgets(ss) == forgot' = (forgot \/ \E s \in ss : spc[s] \in Restarting)

\* A process ends, and its memory with it.
SupDies(ss) ==
  /\ spc' = [s \in Sups |-> IF s \in ss THEN "dead" ELSE spc[s]]
  /\ sterm' = [s \in Sups |-> sterm[s] /\ s \notin ss]
  /\ snames' = [s \in Sups |-> IF s \in ss THEN {} ELSE snames[s]]
  /\ srun' = [s \in Sups |-> IF s \in ss THEN {} ELSE srun[s]]
  /\ srest' = [s \in Sups |-> IF s \in ss THEN {} ELSE srest[s]]
  /\ scur' = [s \in Sups |-> IF s \in ss THEN NoName ELSE scur[s]]
  /\ scount' = [s \in Sups |-> IF s \in ss THEN 0 ELSE scount[s]]

\* Mutant: the signal is sent, its effect not awaited.
StopWait_NoKill(m) ==
  /\ Step(m, "stopWait", "stopClean")
  /\ UNCHANGED <<loop, files, mtarget, mnames, mpid, supVars, statusVars, bounds,
                 history>>

\* ... and after two seconds KILL: a pass may take longer than that.
StopWait(m) ==
  /\ Step(m, "stopWait", "stopClean")
  /\ SupDies({mpid[m]} \cap Sups)
  /\ Forgets({mpid[m]} \cap Sups)
  /\ UNCHANGED <<loop, files, mtarget, mnames, mpid, statusVars, bounds, wanted,
                 restarts, excused>>

StopClean(m) ==
  /\ Step(m, "stopClean", "stopLoops")
  /\ names' = {}
  /\ supfile' = NoPid
  /\ UNCHANGED <<loop, mtarget, mnames, mpid, supVars, statusVars, bounds, history>>

\* The targets' loops are stopped.
StopLoops(m) ==
  /\ Finish(m, "stopLoops")
  /\ loop' = [c \in Collectors |-> IF c \in mtarget[m] THEN "down" ELSE loop[c]]
  /\ UNCHANGED <<files, supVars, statusVars, bounds, history>>

StartReturns(m) ==
  /\ Finish(m, "return")
  /\ UNCHANGED <<loop, files, supVars, statusVars, bounds, history>>

ManagerStep(m) ==
  \/ MergeRead(m) \/ RemoveRead(m) \/ SetTargets(m)
  \/ StopSup(m) \/ StopWait(m) \/ StopClean(m) \/ StopLoops(m) \/ StartReturns(m)
ManagerNext(m) ==
  \/ \E cs \in (SUBSET Collectors) \ {{}} : StartCollectors(m, cs) \/ StartFails(m, cs)
  \/ \E c \in Collectors : StopCollector(m, c)
  \/ StopAllCollectors(m)
  \/ ManagerStep(m)

-----------------------------------------------------------------------------
(* The supervisor: _run_collector_supervisor_child *)

SupAt(s, from, to) == /\ spc[s] = from
                      /\ ~sterm[s]
                      /\ spc' = [spc EXCEPT ![s] = to]

SupBoots(s) ==
  /\ SupAt(s, "boot", "read")
  /\ excused' = excused \cup BeingStopped
  /\ UNCHANGED <<loop, files, managerVars, sterm, snames, srun, srest, scur,
                 scount, statusVars, bounds, wanted, restarts, forgot>>

SupWakes(s) ==
  /\ SupAt(s, "sleep", "read")
  /\ excused' = excused \cup BeingStopped
  /\ UNCHANGED <<loop, files, managerVars, sterm, snames, srun, srest, scur,
                 scount, statusVars, bounds, wanted, restarts, forgot>>

\* With nothing to watch it shuts down.
SupReads(s) ==
  /\ SupAt(s, "read", IF names = {} THEN "shut" ELSE "write")
  /\ snames' = [snames EXCEPT ![s] = names]
  /\ UNCHANGED <<loop, files, managerVars, sterm, srun, srest, scur, scount,
                 statusVars, bounds, history>>

\* The heartbeat: %{$state} is written back with the names as they were read.
SupWrites(s) ==
  /\ SupAt(s, "write", "scan")
  /\ names' = snames[s]
  /\ UNCHANGED <<loop, supfile, managerVars, sterm, snames, srun, srest, scur,
                 scount, statusVars, bounds, history>>

\* _supervise_collectors_once: one look at the running loops.
SupScans(s) ==
  /\ SupAt(s, "scan", "pass")
  /\ srun' = [srun EXCEPT ![s] = {c \in Collectors : loop[c] # "down"}]
  /\ srest' = [srest EXCEPT ![s] = snames[s]]
  /\ UNCHANGED <<loop, files, managerVars, sterm, snames, scur, scount,
                 statusVars, bounds, history>>

\* Mutant: a loop that runs is taken to make progress.
SupPasses_Stalled(s, c) ==
  /\ SupAt(s, "pass", "pass")
  /\ c \in srest[s]
  /\ c \in srun[s]
  /\ srest' = [srest EXCEPT ![s] = @ \ {c}]
  /\ UNCHANGED <<loop, files, managerVars, sterm, snames, srun, scur, scount,
                 statusVars, bounds, history>>

\* A healthy loop needs nothing.
SupPasses(s, c) ==
  /\ SupAt(s, "pass", "pass")
  /\ c \in srest[s]
  /\ c \in srun[s] /\ loop[c] # "stalled"
  /\ srest' = [srest EXCEPT ![s] = @ \ {c}]
  /\ UNCHANGED <<loop, files, managerVars, sterm, snames, srun, scur, scount,
                 statusVars, bounds, history>>

\* $restart_count > limit, after the increment.
OverLimit(n) == n > RestartLimit

\* A dead loop, or a stalled one, which is stopped first: the restart is
\* counted, in a new window when the recorded one has expired.
SupDecides(s, c) ==
  LET count == (IF wopen[c] THEN wcount[c] ELSE 0) + 1 IN
  /\ c \in srest[s]
  /\ c \notin srun[s] \/ loop[c] = "stalled"
  /\ ~OverLimit(count)
  /\ SupAt(s, "pass", "restart")
  /\ srest' = [srest EXCEPT ![s] = @ \ {c}]
  /\ loop' = [loop EXCEPT ![c] = IF c \in srun[s] THEN "down" ELSE @]
  /\ scur' = [scur EXCEPT ![s] = c]
  /\ scount' = [scount EXCEPT ![s] = count]
  /\ restarts' = [restarts EXCEPT ![c] = IF wopen[c] THEN @ ELSE 0]
  /\ forgot' = (forgot \/ \E t \in Sups \ {s} : spc[t] \in Restarting)
  /\ UNCHANGED <<files, managerVars, sterm, snames, srun, statusVars, bounds,
                 wanted, excused>>

\* Over the limit: attention_required, and no restart.
SupGivesUp(s, c) ==
  /\ c \in srest[s]
  /\ c \notin srun[s] \/ loop[c] = "stalled"
  /\ wopen[c] /\ OverLimit(wcount[c] + 1)
  /\ SupAt(s, "pass", "pass")
  /\ srest' = [srest EXCEPT ![s] = @ \ {c}]
  /\ loop' = [loop EXCEPT ![c] = IF c \in srun[s] THEN "down" ELSE @]
  /\ wcount' = [wcount EXCEPT ![c] = IF @ > RestartLimit THEN @ ELSE @ + 1]
  /\ wstatus' = [wstatus EXCEPT ![c] = "attention_required"]
  /\ UNCHANGED <<files, managerVars, sterm, snames, srun, scur, scount, wopen,
                 bounds, history>>

\* The job cannot be found in the configuration, or the stalled loop cannot be
\* stopped: attention_required, with the count at zero and no window.
SupFails(s, c) ==
  /\ SupAt(s, "pass", "pass")
  /\ c \in srest[s]
  /\ srest' = [srest EXCEPT ![s] = @ \ {c}]
  /\ wcount' = [wcount EXCEPT ![c] = 0]
  /\ wopen' = [wopen EXCEPT ![c] = FALSE]
  /\ wstatus' = [wstatus EXCEPT ![c] = "attention_required"]
  /\ UNCHANGED <<loop, files, managerVars, sterm, snames, srun, scur, scount,
                 bounds, history>>

\* start_loop, which adopts a loop that is up again.  It may die, or the loop
\* may not become ready and is stopped.
SupRestarts(s) ==
  LET c == scur[s] IN
  /\ \/ /\ SupAt(s, "restart", "record")
        /\ loop' = [loop EXCEPT ![c] = IF @ = "down" THEN "up" ELSE @]
     \/ /\ SupAt(s, "restart", "recordFailed")
        /\ loop' \in {loop, [loop EXCEPT ![c] = "down"]}
  /\ restarts' = [restarts EXCEPT ![c] = @ + 1]
  /\ UNCHANGED <<files, managerVars, sterm, snames, srun, srest, scur, scount,
                 statusVars, bounds, wanted, excused, forgot>>

\* Mutant: only a restart that worked is counted.
SupRecords_OnlySuccess(s) ==
  LET c == scur[s] IN
  /\ \/ /\ SupAt(s, "record", "pass")
        /\ wcount' = [wcount EXCEPT ![c] = scount[s]]
        /\ wstatus' = [wstatus EXCEPT ![c] = "running"]
     \/ /\ SupAt(s, "recordFailed", "pass")
        /\ wstatus' = [wstatus EXCEPT ![c] = "restart_failed"]
        /\ UNCHANGED wcount
  /\ wopen' = [wopen EXCEPT ![c] = @ \/ scount[s] = 1]
  /\ scur' = [scur EXCEPT ![s] = NoName]
  /\ scount' = [scount EXCEPT ![s] = 0]
  /\ UNCHANGED <<loop, files, managerVars, sterm, snames, srun, srest, bounds,
                 history>>

\* write_status with the count, whether it worked or not, and with the window
\* of the decision: a count of one began a new window, any other keeps the
\* recorded one, which may have expired since.
SupRecords(s) ==
  LET c == scur[s] IN
  /\ \/ /\ SupAt(s, "record", "pass")
        /\ wstatus' = [wstatus EXCEPT ![c] = "running"]
     \/ /\ SupAt(s, "recordFailed", "pass")
        /\ wstatus' = [wstatus EXCEPT ![c] = "restart_failed"]
  /\ wcount' = [wcount EXCEPT ![c] = scount[s]]
  /\ wopen' = [wopen EXCEPT ![c] = @ \/ scount[s] = 1]
  /\ scur' = [scur EXCEPT ![s] = NoName]
  /\ scount' = [scount EXCEPT ![s] = 0]
  /\ UNCHANGED <<loop, files, managerVars, sterm, snames, srun, srest, bounds,
                 history>>

SupSleeps(s) ==
  /\ srest[s] = {}
  /\ SupAt(s, "pass", "sleep")
  /\ snames' = [snames EXCEPT ![s] = {}]
  /\ srun' = [srun EXCEPT ![s] = {}]
  /\ UNCHANGED <<loop, files, managerVars, sterm, srest, scur, scount,
                 statusVars, bounds, history>>

\* The stop handler may run at any moment.
SupTerm(s) ==
  /\ sterm[s]
  /\ spc[s] \in Awake \cup {"sleep"}
  /\ spc' = [spc EXCEPT ![s] = "shut"]
  /\ sterm' = [sterm EXCEPT ![s] = FALSE]
  /\ Forgets({s})
  /\ UNCHANGED <<loop, files, managerVars, snames, srun, srest, scur, scount,
                 statusVars, bounds, wanted, restarts, excused>>

\* _shutdown_collector_supervisor
SupShuts(s) ==
  /\ spc[s] = "shut"
  /\ SupDies({s})
  /\ names' = {}
  /\ supfile' = NoPid
  /\ UNCHANGED <<loop, managerVars, statusVars, bounds, history>>

\* A signal that arrives before the handlers are set.
SupDiesAtBoot(s) ==
  /\ spc[s] = "boot" /\ sterm[s]
  /\ SupDies({s})
  /\ UNCHANGED <<loop, files, managerVars, statusVars, bounds, history>>

\* A pass dies: the error is logged and %{$state} written back once more.
SupErrs(s) ==
  /\ spc[s] \in {"scan", "pass"} \cup Restarting
  /\ SupAt(s, spc[s], "sleep")
  /\ faults < MaxFaults
  /\ faults' = faults + 1
  /\ names' = snames[s]
  /\ snames' = [snames EXCEPT ![s] = {}]
  /\ srun' = [srun EXCEPT ![s] = {}]
  /\ srest' = [srest EXCEPT ![s] = {}]
  /\ scur' = [scur EXCEPT ![s] = NoName]
  /\ scount' = [scount EXCEPT ![s] = 0]
  /\ Forgets({s})
  /\ UNCHANGED <<loop, supfile, managerVars, sterm, statusVars, ops,
                 wanted, restarts, excused>>

\* A kill from outside.
SupKilled(s) ==
  /\ SupAlive(s)
  /\ faults < MaxFaults
  /\ faults' = faults + 1
  /\ SupDies({s})
  /\ Forgets({s})
  /\ UNCHANGED <<loop, files, managerVars, statusVars, ops, wanted,
                 restarts, excused>>

SupNext(s) ==
  \/ SupBoots(s) \/ SupWakes(s) \/ SupReads(s) \/ SupWrites(s) \/ SupScans(s)
  \/ \E c \in Collectors :
       SupPasses(s, c) \/ SupDecides(s, c) \/ SupGivesUp(s, c) \/ SupFails(s, c)
  \/ SupRestarts(s) \/ SupRecords(s) \/ SupSleeps(s) \/ SupTerm(s)
  \/ SupShuts(s) \/ SupDiesAtBoot(s)

-----------------------------------------------------------------------------
(* The environment *)

\* A loop dies, or hangs and makes no progress.
LoopFails(c) ==
  /\ faults < MaxFaults
  /\ loop[c] = "up"
  /\ faults' = faults + 1
  /\ \E l \in {"down", "stalled"} : loop' = [loop EXCEPT ![c] = l]
  /\ UNCHANGED <<files, managerVars, supVars, statusVars, ops, history>>

\* The restart window passes.
WindowExpires(c) ==
  /\ wopen[c]
  /\ wopen' = [wopen EXCEPT ![c] = FALSE]
  /\ UNCHANGED <<loop, files, managerVars, supVars, wcount, wstatus, bounds, history>>

-----------------------------------------------------------------------------

Init ==
  /\ loop = [c \in Collectors |-> "down"]
  /\ names = {}
  /\ supfile = NoPid
  /\ mpc = [m \in Managers |-> "idle"]
  /\ mtarget = [m \in Managers |-> {}]
  /\ mnames = [m \in Managers |-> {}]
  /\ mpid = [m \in Managers |-> NoPid]
  /\ spc = [s \in Sups |-> "unused"]
  /\ sterm = [s \in Sups |-> FALSE]
  /\ snames = [s \in Sups |-> {}]
  /\ srun = [s \in Sups |-> {}]
  /\ srest = [s \in Sups |-> {}]
  /\ scur = [s \in Sups |-> NoName]
  /\ scount = [s \in Sups |-> 0]
  /\ wcount = [c \in Collectors |-> 0]
  /\ wopen = [c \in Collectors |-> FALSE]
  /\ wstatus = [c \in Collectors |-> "none"]
  /\ ops = 0 /\ faults = 0
  /\ wanted = {} /\ excused = {} /\ forgot = FALSE
  /\ restarts = [c \in Collectors |-> 0]

Next ==
  \/ \E m \in Managers : ManagerNext(m)
  \/ \E s \in Sups : SupNext(s) \/ SupErrs(s) \/ SupKilled(s)
  \/ \E c \in Collectors : LoopFails(c) \/ WindowExpires(c)

Spec == Init /\ [][Next]_vars

\* A command runs to its end, and a supervisor keeps running: it wakes from its
\* poll, finishes its pass and takes a signal that was sent.
Fairness ==
  /\ \A m \in Managers : WF_vars(ManagerStep(m))
  /\ \A s \in Sups : WF_vars(SupNext(s))

LiveSpec == Spec /\ Fairness

-----------------------------------------------------------------------------
(* Properties *)

\* README.md:1477: too many crashes inside the watchdog window end in
\* attention_required "instead of infinite silent restart churn".  Over any
\* sequence of crashes, stalls, failed restarts, stops and starts, a window
\* sees at most RestartLimit restarts, as long as no supervisor was stopped or
\* killed in the middle of a restart and no two were at it together.
BudgetHolds == ~forgot => \A c \in Collectors : restarts[c] <= RestartLimit

\* A collector whose loop was stopped stays down: it is up again without a
\* start only when the supervisor was in the middle of a pass, another command
\* interfered, or the loop was already dead when it was to be stopped.
StopSticks ==
  (\A m \in Managers : mpc[m] = "idle") =>
    \A c \in Collectors : loop[c] # "down" => c \in wanted \cup excused

\* With one command at a time, whatever crashes, there is never a second
\* supervisor: their books would be each other's lost updates.
SoleSupervisor ==
  (\A m, n \in Managers : m = n) =>
    \A s, t \in Sups : SupAlive(s) /\ SupAlive(t) => s = t

\* The supervisor does its work: a watched collector whose loop is dead or
\* stalled is taken up, restarted or reported, unless it is no longer watched
\* or the supervisor has gone.
DeadLoopTakenUp ==
  \A c \in Collectors :
    loop[c] # "up" /\ c \in names /\ Running # {}
      ~> \/ loop[c] = "up" \/ c \notin names \/ Running = {}
         \/ wstatus[c] = "attention_required"
         \/ \E s \in Sups : scur[s] = c

\* README.md:1473: "managed collector loops also run under a watchdog
\* supervisor; if a loop dies unexpectedly after startup, the watchdog restarts
\* it automatically".  When every command has returned and the supervisor, which
\* nothing has disturbed, is between two passes, what was started is watched.
StartedIsWatched ==
  /\ faults = 0
  /\ \A m \in Managers : mpc[m] = "idle"
  /\ \A s \in Sups : spc[s] \in {"unused", "sleep", "dead"}
  => wanted \subseteq names
=============================================================================
