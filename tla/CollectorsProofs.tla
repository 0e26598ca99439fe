-------------------------- MODULE CollectorsProofs --------------------------
(***************************************************************************)
(* What TLAPS proves about the parts around a collector's loop:            *)
(* CollectorWatchdog for any number of collectors, managers and            *)
(* supervisors, any limit and any number of faults (the restart budget,    *)
(* that a stop sticks, and that one command at a time has one supervisor); *)
(* CommandRun, whose cleanup leaves nothing of the command behind; and     *)
(* CronFields for any items and any number of them: the minutes an         *)
(* expression names, and no others, are due.                               *)
(***************************************************************************)
EXTENDS CollectorWatchdog, CommandRun, CronFields, WellFoundedInduction, TLAPS

(***************************************************************************)
(* The inductive invariant                                                 *)
(***************************************************************************)

\* Where a manager is in a start, and in a stop once it has had the new names
\* written or has removed the file.
StartSteps == {"startRead", "startRunning", "startWrite", "startStart",
  "startSpawn", "startPidfile", "startState", "return"}
Rewritten == {"stopStart", "stopSpawn", "stopPidfile", "stopState", "stopLoops"}

\* Every variable holds a value of its kind.
TypeOK ==
  /\ loop \in [Collectors -> {"down", "up", "stalled"}]
  /\ names \subseteq Collectors
  /\ supfile \in Sups \cup {NoPid}
  /\ mpc \in [Managers -> {"idle"} \cup StartSteps \cup StopSteps]
  /\ mtarget \in [Managers -> SUBSET Collectors]
  /\ mnames \in [Managers -> SUBSET Collectors]
  /\ mpid \in [Managers -> Sups \cup {NoPid}]
  /\ spc \in [Sups -> Awake \cup {"unused", "boot", "sleep", "shut", "dead"}]
  /\ sterm \in [Sups -> BOOLEAN]
  /\ snames \in [Sups -> SUBSET Collectors]
  /\ srun \in [Sups -> SUBSET Collectors]
  /\ srest \in [Sups -> SUBSET Collectors]
  /\ scur \in [Sups -> Collectors \cup {NoName}]
  /\ \A s \in Sups : spc[s] \in Restarting => scur[s] \in Collectors
  /\ scount \in [Sups -> Nat]
  /\ wcount \in [Collectors -> Nat]
  /\ wopen \in [Collectors -> BOOLEAN]
  /\ wstatus \in [Collectors -> {"none", "running", "restart_failed",
                                 "attention_required"}]
  /\ ops \in 0 .. MaxOps /\ faults \in 0 .. MaxFaults
  /\ wanted \subseteq Collectors /\ excused \subseteq Collectors
  /\ restarts \in [Collectors -> Nat]
  /\ forgot \in BOOLEAN

OneCommand == \A m, n \in Managers : m = n

\* With one command at a time the supervisor that lives is the one the pidfile
\* names, unless a manager has just launched it; a manager that launches one,
\* or has done away with one, finds none.
Sole ==
  OneCommand =>
    /\ \A s, t \in Sups : SupAlive(s) /\ SupAlive(t) => s = t
    /\ \A s \in Sups : SupAlive(s) =>
         \/ supfile = s
         \/ \E m \in Managers : mpc[m] \in {"startPidfile", "stopPidfile"}
    /\ \A m \in Managers, s \in Sups : SupAlive(s) =>
         /\ mpc[m] \in {"startPidfile", "stopPidfile", "stopWait"} => mpid[m] = s
         /\ mpc[m] \notin {"startSpawn", "stopSpawn", "stopClean"}

\* The books of a window.  One supervisor at most is in the middle of a restart
\* and has it in its count, before it restarts and after; the recorded count
\* covers every other restart of the window.
Budget ==
  ~forgot =>
    /\ \A s, t \in Sups : spc[s] \in Restarting /\ spc[t] \in Restarting => s = t
    /\ \A c \in Collectors : restarts[c] <= RestartLimit
    /\ \A s \in Sups :
         /\ spc[s] \in Restarting => scount[s] <= RestartLimit
         /\ spc[s] = "restart" => restarts[scur[s]] < scount[s]
         /\ spc[s] \in {"record", "recordFailed"} => restarts[scur[s]] <= scount[s]
    /\ \A c \in Collectors :
         wopen[c] /\ (\A s \in Sups : spc[s] \in Restarting => scur[s] # c) =>
           restarts[c] <= wcount[c]

\* A collector may come up again.
Safe == wanted \cup excused

\* A collector that may not come up is being stopped by the only command there
\* is, with no supervisor at work; and what is up, watched or in someone's hands
\* may come up, or is being stopped.
Stops ==
  /\ \A m \in Managers : mpc[m] = "idle" => mtarget[m] = {} /\ mnames[m] = {}
  /\ \A m \in Managers : mtarget[m] \subseteq Safe \/
       /\ mpc[m] \in StopSteps
       /\ \A o \in Managers \ {m} : mpc[o] = "idle"
       /\ \A s \in Sups : spc[s] \notin Awake
  /\ \A m \in Managers : mnames[m] \subseteq Safe
  /\ \A m \in Managers : mpc[m] \in Rewritten => names \subseteq Safe
  /\ \A c \in names : c \in Safe \/ \E m \in Managers : c \in mtarget[m]
  /\ \A c \in Collectors : loop[c] # "down" =>
       c \in Safe \/ \E m \in Managers : c \in mtarget[m]
  /\ \A s \in Sups :
       /\ spc[s] \in {"write", "scan", "pass"} \cup Restarting => snames[s] \subseteq Safe
       /\ spc[s] \in {"pass"} \cup Restarting => srest[s] \subseteq Safe
       /\ spc[s] \in Restarting => scur[s] \in Safe

IInv == TypeOK /\ Sole /\ Budget /\ Stops

(***************************************************************************)
(* Every step keeps every part                                             *)
(***************************************************************************)

LEMMA TypeManager ==
  ASSUME TypeOK, NEW m \in Managers, ManagerNext(m)
  PROVE  TypeOK'
<1> USE WatchdogAssumption DEF TypeOK, Awake, Restarting, StartSteps, StopSteps, files,
      managerVars, supVars, statusVars, bounds, history
<1>1. ASSUME NEW cs \in SUBSET Collectors, StartCollectors(m, cs) PROVE TypeOK'
  BY <1>1 DEF StartCollectors, Command, Step, BeingStopped
<1>2. CASE \E cs \in (SUBSET Collectors) \ {{}} : StartFails(m, cs)
  BY <1>2 DEF StartFails, Command
<1>3. ASSUME NEW c \in Collectors, StopCollector(m, c) PROVE TypeOK'
  BY <1>3 DEF StopCollector, Command, Step, Disturbed, BeingStopped
<1>4. CASE StopAllCollectors(m)
  BY <1>4 DEF StopAllCollectors, Command, Step, Disturbed, BeingStopped
<1>5. CASE MergeRead(m) \/ RemoveRead(m)
  BY <1>5 DEF MergeRead, Step, RemoveRead
<1>6. CASE \/ SetRunning(m, "startRunning", "startWrite")
           \/ SetRunning(m, "stopRunning", "stopWrite")
           \/ SetWrite(m, "startWrite", "startStart", "return")
           \/ SetWrite(m, "stopWrite", "stopStart", "stopLoops")
           \/ SupStart(m, "startStart", "startSpawn", "return")
           \/ SupStart(m, "stopStart", "stopSpawn", "stopLoops")
  <2>1. CASE \/ SetRunning(m, "startRunning", "startWrite")
             \/ SetRunning(m, "stopRunning", "stopWrite")
    BY <2>1 DEF SetRunning, Step, CleanStale, Running
  <2>2. CASE \/ SetWrite(m, "startWrite", "startStart", "return")
             \/ SetWrite(m, "stopWrite", "stopStart", "stopLoops")
    BY <2>2 DEF SetWrite, Step
  <2>3. CASE \/ SupStart(m, "startStart", "startSpawn", "return")
             \/ SupStart(m, "stopStart", "stopSpawn", "stopLoops")
    BY <2>3 DEF SupStart, Step, CleanStale, Running
  <2> QED BY <1>6, <2>1, <2>2, <2>3
<1>7. CASE \/ SupSpawn(m, "startSpawn", "startPidfile")
           \/ SupSpawn(m, "stopSpawn", "stopPidfile")
  <2>1. CASE SupSpawn(m, "startSpawn", "startPidfile")
    BY <2>1 DEF SupSpawn, Step
  <2>2. CASE SupSpawn(m, "stopSpawn", "stopPidfile")
    BY <2>2 DEF SupSpawn, Step
  <2> QED BY <1>7, <2>1, <2>2
<1>8. CASE SupSpawnFails(m, "startSpawn") \/ SupSpawnFails(m, "stopSpawn")
  BY <1>8 DEF SupSpawnFails, Finish, Step
<1>9. CASE StopLoops(m)
  BY <1>9 DEF StopLoops, Finish, Step
<1>10. CASE StartReturns(m)
  BY <1>10 DEF StartReturns, Finish, Step
<1>11. CASE StopSup(m)
  BY <1>11 DEF StopSup, Step, CleanStale, Running
<1>12. CASE StopWait(m)
  BY <1>12 DEF StopWait, Step, SupDies, Forgets
<1>13. CASE \/ SupPidfile(m, "startPidfile", "startState")
            \/ SupPidfile(m, "stopPidfile", "stopState")
            \/ SupState(m, "startState", "return")
            \/ SupState(m, "stopState", "stopLoops") \/ StopClean(m)
  BY <1>13 DEF SupPidfile, Step, SupState, StopClean
<1> QED BY <1>1, <1>2, <1>3, <1>4, <1>5, <1>6, <1>7, <1>8, <1>9, <1>10, <1>11, <1>12,
         <1>13 DEF ManagerNext, ManagerStep, SetTargets

LEMMA TypeSup ==
  ASSUME TypeOK, NEW s \in Sups, SupNext(s) \/ SupErrs(s) \/ SupKilled(s)
  PROVE  TypeOK'
<1> USE WatchdogAssumption DEF TypeOK, Awake, Restarting, StartSteps, StopSteps, files,
      managerVars, supVars, statusVars, bounds, history
<1>1. ASSUME NEW c \in Collectors, SupPasses(s, c) PROVE TypeOK'
  BY <1>1 DEF SupPasses, SupAt, OverLimit
<1>2. ASSUME NEW c \in Collectors, SupDecides(s, c) PROVE TypeOK'
  BY <1>2 DEF SupDecides, SupAt, OverLimit
<1>3. ASSUME NEW c \in Collectors, SupGivesUp(s, c) PROVE TypeOK'
  BY <1>3 DEF SupGivesUp, SupAt, OverLimit
<1>4. ASSUME NEW c \in Collectors, SupFails(s, c) PROVE TypeOK'
  BY <1>4 DEF SupFails, SupAt, OverLimit
<1>5. CASE SupBoots(s)
  BY <1>5 DEF SupBoots, SupAt, BeingStopped
<1>6. CASE SupWakes(s)
  BY <1>6 DEF SupWakes, SupAt, BeingStopped
<1>7. CASE SupReads(s)
  BY <1>7 DEF SupReads, SupAt
<1>8. CASE SupWrites(s)
  BY <1>8 DEF SupWrites, SupAt
<1>9. CASE SupScans(s)
  BY <1>9 DEF SupScans, SupAt
<1>10. CASE SupSleeps(s)
  BY <1>10 DEF SupSleeps, SupAt
<1>11. CASE SupRestarts(s)
  BY <1>11 DEF SupRestarts, SupAt
<1>12. CASE SupRecords(s)
  <2>1. spc[s] \in Restarting /\ scur[s] \in Collectors
    BY <1>12 DEF SupRecords, SupAt
  <2>2. /\ spc' = [spc EXCEPT ![s] = "pass"] /\ scur' = [scur EXCEPT ![s] = NoName]
        /\ scount' = [scount EXCEPT ![s] = 0]
        /\ wcount' = [wcount EXCEPT ![scur[s]] = scount[s]]
        /\ wopen' = [wopen EXCEPT ![scur[s]] = @ \/ scount[s] = 1]
    BY <1>12 DEF SupRecords, SupAt
  <2>3. wstatus' \in [Collectors -> {"none", "running", "restart_failed",
                                    "attention_required"}]
    BY <1>12, <2>1 DEF SupRecords, SupAt
  <2>4. \A t \in Sups : spc'[t] \in Restarting => scur'[t] \in Collectors
    BY <2>2
  <2>5. spc' \in [Sups -> Awake \cup {"unused", "boot", "sleep", "shut", "dead"}]
    BY <2>2
  <2> QED BY <1>12, <2>1, <2>2, <2>3, <2>4, <2>5 DEF SupRecords
<1>13. CASE SupTerm(s)
  BY <1>13 DEF SupTerm, SupAt, Forgets
<1>14. CASE SupErrs(s)
  BY <1>14 DEF SupErrs, SupAt, Forgets
<1>15. CASE SupShuts(s)
  BY <1>15 DEF SupShuts, SupAt, SupDies
<1>16. CASE SupDiesAtBoot(s)
  BY <1>16 DEF SupDiesAtBoot, SupAt, SupDies
<1>17. CASE SupKilled(s)
  BY <1>17 DEF SupKilled, SupAt, SupDies, Forgets
<1> QED BY <1>1, <1>2, <1>3, <1>4, <1>5, <1>6, <1>7, <1>8, <1>9, <1>10, <1>11, <1>12,
         <1>13, <1>14, <1>15, <1>16, <1>17 DEF SupNext

LEMMA TypeWorld ==
  ASSUME TypeOK, NEW c \in Collectors, LoopFails(c) \/ WindowExpires(c)
  PROVE  TypeOK'
<1> USE WatchdogAssumption DEF TypeOK, Awake, Restarting, StartSteps, StopSteps, files,
      managerVars, supVars, statusVars, bounds, history
<1>1. CASE LoopFails(c)
  BY <1>1 DEF LoopFails
<1>2. CASE WindowExpires(c)
  BY <1>2 DEF WindowExpires
<1> QED BY <1>1, <1>2

LEMMA SoleManager ==
  ASSUME TypeOK, Sole, NEW m \in Managers, ManagerNext(m)
  PROVE  Sole'
<1> USE WatchdogAssumption DEF TypeOK, Sole, OneCommand, SupAlive, Awake, Restarting,
      files, managerVars, supVars, statusVars, bounds, history
<1>1. ASSUME NEW cs \in SUBSET Collectors, StartCollectors(m, cs) PROVE Sole'
  BY <1>1 DEF StartCollectors, Command, Step, BeingStopped
<1>2. ASSUME NEW c \in Collectors, StopCollector(m, c) PROVE Sole'
  BY <1>2 DEF StopCollector, Command, Step, Disturbed, BeingStopped
<1>3. CASE \/ SetRunning(m, "startRunning", "startWrite")
           \/ SetRunning(m, "stopRunning", "stopWrite")
  BY <1>3 DEF SetRunning, Step, CleanStale, Running
<1>4. CASE \/ SupStart(m, "startStart", "startSpawn", "return")
           \/ SupStart(m, "stopStart", "stopSpawn", "stopLoops")
  <2>0. ASSUME names = {} \/ Running # {} PROVE Sole'
    <3>1. UNCHANGED <<supfile, mpid, spc>>
      BY <1>4, <2>0 DEF SupStart, CleanStale
    <3>2. \A n \in Managers : \/ mpc'[n] = mpc[n]
                             \/ /\ mpc[n] \in {"startStart", "stopStart"}
                                /\ mpc'[n] \in {"return", "stopLoops"}
      BY <1>4, <2>0 DEF SupStart, Step
    <3> QED BY <3>1, <3>2
  <2> SUFFICES ASSUME names # {}, Running = {} PROVE Sole'
    BY <2>0
  <2>1. OneCommand => \A s \in Sups : ~SupAlive(s)
    BY <1>4 DEF SupStart, Step, Running
  <2>2. UNCHANGED spc
    BY <1>4 DEF SupStart
  <2> QED BY <1>4, <2>1, <2>2 DEF SupStart, Step
<1>5. CASE \/ SupSpawn(m, "startSpawn", "startPidfile")
           \/ SupSpawn(m, "stopSpawn", "stopPidfile")
  BY <1>5 DEF SupSpawn, Step
<1>6. CASE \/ SupPidfile(m, "startPidfile", "startState")
           \/ SupPidfile(m, "stopPidfile", "stopState")
  BY <1>6 DEF SupPidfile, Step
<1>7. CASE StopSup(m)
  BY <1>7 DEF StopSup, Step, CleanStale, Running
<1>8. CASE StopWait(m)
  BY <1>8 DEF StopWait, Step, SupDies, Forgets
<1>9. CASE StopClean(m)
  BY <1>9 DEF StopClean, Step
<1>10. CASE \E cs \in (SUBSET Collectors) \ {{}} : StartFails(m, cs)
  BY <1>10 DEF StartFails, Command
<1>11. CASE \/ MergeRead(m) \/ RemoveRead(m)
            \/ SetWrite(m, "startWrite", "startStart", "return")
            \/ SetWrite(m, "stopWrite", "stopStart", "stopLoops")
            \/ SupState(m, "startState", "return")
            \/ SupState(m, "stopState", "stopLoops") \/ StopAllCollectors(m)
  BY <1>11 DEF MergeRead, Step, RemoveRead, SetWrite, SupState, StopAllCollectors,
    Command, Disturbed, BeingStopped
<1>12. CASE \/ SupSpawnFails(m, "startSpawn") \/ SupSpawnFails(m, "stopSpawn")
            \/ StopLoops(m) \/ StartReturns(m)
  BY <1>12 DEF SupSpawnFails, Finish, Step, StopLoops, StartReturns
<1> QED
  BY <1>1, <1>2, <1>3, <1>4, <1>5, <1>6, <1>7, <1>8, <1>9, <1>10, <1>11, <1>12
  DEF ManagerNext, ManagerStep, SetTargets

LEMMA SoleSup ==
  ASSUME TypeOK, Sole, NEW s \in Sups, SupNext(s) \/ SupErrs(s) \/ SupKilled(s)
  PROVE  Sole'
<1> USE WatchdogAssumption DEF TypeOK, Sole, OneCommand, SupAlive, Awake, Restarting,
      files, managerVars, supVars, statusVars, bounds, history
<1>1. ASSUME NEW c \in Collectors, SupPasses(s, c) PROVE Sole'
  BY <1>1 DEF SupPasses, SupAt, OverLimit
<1>2. ASSUME NEW c \in Collectors, SupDecides(s, c) PROVE Sole'
  BY <1>2 DEF SupDecides, SupAt, OverLimit
<1>3. ASSUME NEW c \in Collectors, SupGivesUp(s, c) PROVE Sole'
  BY <1>3 DEF SupGivesUp, SupAt, OverLimit
<1>4. ASSUME NEW c \in Collectors, SupFails(s, c) PROVE Sole'
  BY <1>4 DEF SupFails, SupAt, OverLimit
<1>5. CASE SupShuts(s)
  BY <1>5 DEF SupShuts, SupAt, SupDies
<1>6. CASE SupDiesAtBoot(s)
  BY <1>6 DEF SupDiesAtBoot, SupAt, SupDies
<1>7. CASE SupKilled(s)
  BY <1>7 DEF SupKilled, SupAt, SupDies, Forgets
<1>8. CASE SupTerm(s)
  BY <1>8 DEF SupTerm, SupAt, Forgets
<1>9. CASE SupErrs(s)
  BY <1>9 DEF SupErrs, SupAt, Forgets
<1>10. CASE SupBoots(s)
  BY <1>10 DEF SupBoots, SupAt, BeingStopped
<1>11. CASE SupWakes(s)
  BY <1>11 DEF SupWakes, SupAt, BeingStopped
<1>12. CASE SupReads(s)
  BY <1>12 DEF SupReads, SupAt
<1>13. CASE SupWrites(s)
  BY <1>13 DEF SupWrites, SupAt
<1>14. CASE SupScans(s)
  BY <1>14 DEF SupScans, SupAt
<1>15. CASE SupRestarts(s)
  BY <1>15 DEF SupRestarts, SupAt
<1>16. CASE SupRecords(s)
  <2>1. /\ UNCHANGED <<files, mpc, mpid>>
        /\ \A t \in Sups : SupAlive(t)' <=> SupAlive(t)
    BY <1>16 DEF SupRecords, SupAt
  <2> QED BY <2>1
<1>17. CASE SupSleeps(s)
  BY <1>17 DEF SupSleeps, SupAt
<1> QED BY <1>1, <1>2, <1>3, <1>4, <1>5, <1>6, <1>7, <1>8, <1>9, <1>10, <1>11, <1>12,
         <1>13, <1>14, <1>15, <1>16, <1>17 DEF SupNext

LEMMA SoleWorld ==
  ASSUME TypeOK, Sole, NEW c \in Collectors, LoopFails(c) \/ WindowExpires(c)
  PROVE  Sole'
<1> USE WatchdogAssumption DEF TypeOK, Sole, OneCommand, SupAlive, Awake, Restarting,
      files, managerVars, supVars, statusVars, bounds, history
<1>1. CASE LoopFails(c) \/ WindowExpires(c)
  BY <1>1 DEF LoopFails, WindowExpires
<1> QED BY <1>1

LEMMA BudgetManager ==
  ASSUME TypeOK, Budget, NEW m \in Managers, ManagerNext(m)
  PROVE  Budget'
<1> USE WatchdogAssumption DEF TypeOK, Budget, Restarting, files, managerVars, supVars,
      statusVars, bounds, history
<1>1. CASE \/ SupSpawn(m, "startSpawn", "startPidfile")
           \/ SupSpawn(m, "stopSpawn", "stopPidfile")
  <2>1. \A t \in Sups : spc'[t] = spc[t] \/ (spc[t] = "unused" /\ spc'[t] = "boot")
    BY <1>1 DEF SupSpawn
  <2>2. UNCHANGED <<restarts, forgot, scount, scur, wopen, wcount>>
    BY <1>1 DEF SupSpawn
  <2> QED BY <2>1, <2>2
<1>2. CASE StopWait(m)
  BY <1>2 DEF StopWait, Step, SupDies, Forgets
<1>3. ASSUME NEW cs \in SUBSET Collectors, StartCollectors(m, cs) PROVE Budget'
  BY <1>3 DEF StartCollectors, Command, Step, BeingStopped
<1>4. CASE \E cs \in (SUBSET Collectors) \ {{}} : StartFails(m, cs)
  BY <1>4 DEF StartFails, Command
<1>5. ASSUME NEW c \in Collectors, StopCollector(m, c) PROVE Budget'
  BY <1>5 DEF StopCollector, Command, Step, Disturbed, BeingStopped
<1>6. CASE \/ StopAllCollectors(m) \/ MergeRead(m) \/ RemoveRead(m)
           \/ SetRunning(m, "startRunning", "startWrite")
           \/ SetRunning(m, "stopRunning", "stopWrite")
           \/ SetWrite(m, "startWrite", "startStart", "return")
           \/ SetWrite(m, "stopWrite", "stopStart", "stopLoops")
           \/ SupStart(m, "startStart", "startSpawn", "return")
           \/ SupStart(m, "stopStart", "stopSpawn", "stopLoops")
           \/ SupSpawnFails(m, "startSpawn") \/ SupSpawnFails(m, "stopSpawn")
           \/ SupPidfile(m, "startPidfile", "startState")
           \/ SupPidfile(m, "stopPidfile", "stopState")
           \/ SupState(m, "startState", "return")
           \/ SupState(m, "stopState", "stopLoops") \/ StopSup(m) \/ StopClean(m)
           \/ StopLoops(m) \/ StartReturns(m)
  BY <1>6 DEF StopAllCollectors, Command, Step, Disturbed, BeingStopped, MergeRead,
    RemoveRead, SetRunning, CleanStale, Running, SetWrite, SupStart, SupSpawnFails,
    Finish, SupPidfile, SupState, StopSup, StopClean, StopLoops, StartReturns
<1> QED BY <1>1, <1>2, <1>3, <1>4, <1>5, <1>6 DEF ManagerNext, ManagerStep, SetTargets

LEMMA BudgetSup ==
  ASSUME TypeOK, Budget, NEW s \in Sups, SupNext(s) \/ SupErrs(s) \/ SupKilled(s)
  PROVE  Budget'
<1> USE WatchdogAssumption DEF TypeOK, Budget, Restarting, files, managerVars, supVars,
      statusVars, bounds, history
<1>1. ASSUME NEW c \in Collectors, SupPasses(s, c) PROVE Budget'
  BY <1>1 DEF SupPasses, SupAt, OverLimit
<1>2. ASSUME NEW c \in Collectors, SupDecides(s, c) PROVE Budget'
  <2> DEFINE count == (IF wopen[c] THEN wcount[c] ELSE 0) + 1
  <2> SUFFICES ASSUME ~forgot' PROVE Budget'
    OBVIOUS
  <2>1. ~forgot /\ \A t \in Sups : spc[t] \notin Restarting
    BY <1>2 DEF SupDecides, SupAt
  <2>2. count \in Nat /\ count <= RestartLimit /\ UNCHANGED <<wopen, wcount>>
    BY <1>2 DEF SupDecides, OverLimit
  <2>3. /\ spc' = [spc EXCEPT ![s] = "restart"] /\ scur' = [scur EXCEPT ![s] = c]
        /\ scount' = [scount EXCEPT ![s] = count]
        /\ restarts' = [restarts EXCEPT ![c] = IF wopen[c] THEN @ ELSE 0]
    BY <1>2 DEF SupDecides, SupAt
  <2>4. restarts'[c] < count /\ restarts'[c] <= RestartLimit
    BY <2>1, <2>2, <2>3
  <2>5. \A d \in Collectors \ {c} : restarts'[d] = restarts[d]
    BY <2>3
  <2>6. \A t \in Sups \ {s} : spc'[t] \notin Restarting
    BY <2>1, <2>3
  <2>7. spc'[s] = "restart" /\ scur'[s] = c /\ scount'[s] = count
    BY <2>3
  <2> HIDE DEF count
  <2> QED BY <2>1, <2>2, <2>4, <2>5, <2>6, <2>7
<1>3. ASSUME NEW c \in Collectors, SupGivesUp(s, c) PROVE Budget'
  BY <1>3 DEF SupGivesUp, SupAt, OverLimit
<1>4. ASSUME NEW c \in Collectors, SupFails(s, c) PROVE Budget'
  BY <1>4 DEF SupFails, SupAt, OverLimit
<1>5. CASE SupRestarts(s)
  <2> DEFINE c == scur[s]
  <2>1. c \in Collectors /\ spc[s] = "restart"
    BY <1>5 DEF SupRestarts, SupAt
  <2>2. /\ \/ spc' = [spc EXCEPT ![s] = "record"]
           \/ spc' = [spc EXCEPT ![s] = "recordFailed"]
        /\ restarts' = [restarts EXCEPT ![c] = @ + 1]
        /\ UNCHANGED <<forgot, scount, scur, wopen, wcount>>
    BY <1>5 DEF SupRestarts, SupAt
  <2> SUFFICES ASSUME ~forgot PROVE Budget'
    BY <2>2
  <2>3. \A t \in Sups \ {s} : spc[t] \notin Restarting /\ spc'[t] = spc[t]
    BY <2>1, <2>2
  <2>4. restarts'[c] = restarts[c] + 1 /\ restarts[c] < scount[s]
    BY <2>1, <2>2
  <2>5. \A d \in Collectors \ {c} : restarts'[d] = restarts[d]
    BY <2>1, <2>2
  <2>6. restarts'[c] <= scount[s] /\ scount[s] <= RestartLimit
    BY <2>1, <2>4
  <2>7. spc'[s] \in {"record", "recordFailed"}
    BY <2>2
  <2> QED BY <2>1, <2>2, <2>3, <2>5, <2>6, <2>7
<1>6. CASE SupRecords(s)
  <2> DEFINE c == scur[s]
  <2>1. c \in Collectors /\ spc[s] \in {"record", "recordFailed"}
    BY <1>6 DEF SupRecords, SupAt
  <2>2. /\ spc' = [spc EXCEPT ![s] = "pass"]
        /\ wcount' = [wcount EXCEPT ![c] = scount[s]]
        /\ wopen' = [wopen EXCEPT ![c] = @ \/ scount[s] = 1]
        /\ UNCHANGED <<forgot, restarts>>
        /\ \A t \in Sups \ {s} : scur'[t] = scur[t] /\ scount'[t] = scount[t]
    BY <1>6 DEF SupRecords, SupAt
  <2> SUFFICES ASSUME ~forgot PROVE Budget'
    BY <2>2
  <2>3. \A t \in Sups : spc'[t] \notin Restarting
    BY <2>1, <2>2
  <2>4. \A d \in Collectors \ {c} :
          scur[s] # d /\ wopen'[d] = wopen[d] /\ wcount'[d] = wcount[d]
    BY <2>1, <2>2
  <2>5. restarts[c] <= wcount'[c]
    BY <2>1, <2>2
  <2>6. \A t \in Sups \ {s} : spc[t] \notin Restarting
    BY <2>1
  <2> QED BY <2>2, <2>3, <2>4, <2>5, <2>6
<1>7. CASE SupTerm(s)
  BY <1>7 DEF SupTerm, SupAt, Forgets
<1>8. CASE SupErrs(s)
  BY <1>8 DEF SupErrs, SupAt, Forgets
<1>9. CASE SupShuts(s)
  BY <1>9 DEF SupShuts, SupAt, SupDies
<1>10. CASE SupDiesAtBoot(s)
  BY <1>10 DEF SupDiesAtBoot, SupAt, SupDies
<1>11. CASE SupKilled(s)
  BY <1>11 DEF SupKilled, SupAt, SupDies, Forgets
<1>12. CASE SupBoots(s)
  BY <1>12 DEF SupBoots, SupAt, BeingStopped
<1>13. CASE SupWakes(s)
  BY <1>13 DEF SupWakes, SupAt, BeingStopped
<1>14. CASE SupReads(s)
  BY <1>14 DEF SupReads, SupAt
<1>15. CASE SupWrites(s)
  BY <1>15 DEF SupWrites, SupAt
<1>16. CASE SupScans(s)
  BY <1>16 DEF SupScans, SupAt
<1>17. CASE SupSleeps(s)
  BY <1>17 DEF SupSleeps, SupAt
<1> QED BY <1>1, <1>2, <1>3, <1>4, <1>5, <1>6, <1>7, <1>8, <1>9, <1>10, <1>11, <1>12,
         <1>13, <1>14, <1>15, <1>16, <1>17 DEF SupNext

LEMMA BudgetWorld ==
  ASSUME TypeOK, Budget, NEW c \in Collectors, LoopFails(c) \/ WindowExpires(c)
  PROVE  Budget'
<1> USE WatchdogAssumption DEF TypeOK, Budget, Restarting, files, managerVars, supVars,
      statusVars, bounds, history
<1>1. CASE LoopFails(c) \/ WindowExpires(c)
  BY <1>1 DEF LoopFails, WindowExpires
<1> QED BY <1>1

LEMMA StopsManager ==
  ASSUME TypeOK, Stops, NEW m \in Managers, ManagerNext(m)
  PROVE  Stops'
<1> USE WatchdogAssumption DEF TypeOK, Stops, Safe, Awake, Restarting, StartSteps,
      StopSteps, Rewritten, files, managerVars, supVars, statusVars, bounds, history
<1>1. ASSUME NEW cs \in SUBSET Collectors, StartCollectors(m, cs) PROVE Stops'
  BY <1>1 DEF StartCollectors, Command, Step, BeingStopped
<1>2. CASE \E cs \in (SUBSET Collectors) \ {{}} : StartFails(m, cs)
  BY <1>2 DEF StartFails, Command
<1>3. ASSUME NEW c \in Collectors, StopCollector(m, c) PROVE Stops'
  BY <1>3 DEF StopCollector, Command, Step, Disturbed, BeingStopped
<1>4. CASE StopAllCollectors(m)
  <2>1. CASE Disturbed(m)
    BY <1>4, <2>1 DEF StopAllCollectors, Command, Step
  <2>2. CASE ~Disturbed(m)
    <3>1. /\ \A o \in Managers \ {m} : mpc[o] = "idle" /\ mpc'[o] = "idle"
          /\ \A s \in Sups : spc[s] \notin Awake
      BY <1>4, <2>2 DEF StopAllCollectors, Command, Step, Disturbed
    <3>2. /\ mpc'[m] = "stopSup" /\ mnames' = mnames
          /\ mtarget'[m] = {d \in Collectors : loop[d] # "down"}
          /\ \A o \in Managers \ {m} : mtarget'[o] = mtarget[o]
      BY <1>4 DEF StopAllCollectors, Command, Step
    <3>3. Collectors \ mtarget'[m] \subseteq excused' /\ excused \subseteq excused'
      BY <1>4, <2>2, <3>2 DEF StopAllCollectors
    <3>4. \A o \in Managers \ {m} : mtarget'[o] = {} /\ mnames'[o] = {}
      BY <3>1, <3>2
    <3>5. mnames'[m] = {}
      BY <1>4, <3>2 DEF StopAllCollectors, Step
    <3>6. UNCHANGED <<loop, names, spc, snames, srest, scur>>
      BY <1>4 DEF StopAllCollectors
    <3> QED BY <3>1, <3>2, <3>3, <3>4, <3>5, <3>6
  <2> QED BY <2>1, <2>2
<1>5. CASE MergeRead(m)
  BY <1>5 DEF MergeRead, Step
<1>6. CASE RemoveRead(m)
  BY <1>6 DEF RemoveRead, Step
<1>7. CASE \/ SetRunning(m, "startRunning", "startWrite")
           \/ SetRunning(m, "stopRunning", "stopWrite")
  BY <1>7 DEF SetRunning, Step, CleanStale, Running
<1>8. CASE StopClean(m)
  BY <1>8 DEF StopClean, Step
<1>9. CASE \/ SetWrite(m, "startWrite", "startStart", "return")
           \/ SetWrite(m, "stopWrite", "stopStart", "stopLoops")
           \/ SupState(m, "startState", "return")
           \/ SupState(m, "stopState", "stopLoops")
  BY <1>9 DEF SetWrite, Step, SupState
<1>10. CASE \/ SupStart(m, "startStart", "startSpawn", "return")
            \/ SupStart(m, "stopStart", "stopSpawn", "stopLoops")
  <2>1. mpc[m] \in {"startStart", "stopStart"}
    BY <1>10 DEF SupStart, Step
  <2>2. names \subseteq Safe
    BY <2>1
  <2>3. /\ names' \subseteq names /\ mnames' = [mnames EXCEPT ![m] = names]
        /\ UNCHANGED <<loop, mtarget, wanted, excused>>
        /\ UNCHANGED <<spc, snames, srest, scur>>
    BY <1>10 DEF SupStart, CleanStale
  <2>4. \A n \in Managers : (mpc'[n] = "idle" <=> mpc[n] = "idle") /\
                               (mpc'[n] \in StopSteps <=> mpc[n] \in StopSteps)
    BY <1>10 DEF SupStart, Step
  <2>5. Safe' = Safe
    BY <2>3
  <2>6. \A n \in Managers : mnames'[n] \subseteq Safe
    BY <2>2, <2>3
  <2> HIDE DEF Safe, StopSteps
  <2> QED BY <2>1, <2>2, <2>3, <2>4, <2>5, <2>6
<1>11. CASE SupSpawnFails(m, "startSpawn") \/ SupSpawnFails(m, "stopSpawn")
  <2>1. mtarget' = [mtarget EXCEPT ![m] = {}] /\ mnames' = [mnames EXCEPT ![m] = {}]
        /\ mpc' = [mpc EXCEPT ![m] = "idle"]
    BY <1>11 DEF SupSpawnFails, Finish, Step
  <2>2. Safe' = Safe \cup mtarget[m]
    BY <1>11 DEF SupSpawnFails
  <2>3. UNCHANGED <<loop, names, spc, snames, srest, scur>>
    BY <1>11 DEF SupSpawnFails
  <2> HIDE DEF Safe
  <2> QED BY <2>1, <2>2, <2>3
<1>12. CASE StopWait(m)
  BY <1>12 DEF StopWait, Step, SupDies, Forgets
<1>13. CASE StopLoops(m)
  BY <1>13 DEF StopLoops, Finish, Step
<1>14. CASE StartReturns(m)
  <2>1. mtarget' = [mtarget EXCEPT ![m] = {}] /\ mnames' = [mnames EXCEPT ![m] = {}]
        /\ mpc' = [mpc EXCEPT ![m] = "idle"]
    BY <1>14 DEF StartReturns, Finish, Step
  <2>2. mtarget[m] \subseteq Safe
    BY <1>14 DEF StartReturns, Finish, Step
  <2>3. UNCHANGED <<loop, names, spc, snames, srest, scur, wanted, excused>>
    BY <1>14 DEF StartReturns
  <2> QED BY <2>1, <2>2, <2>3
<1>15. CASE \/ SupSpawn(m, "startSpawn", "startPidfile")
            \/ SupSpawn(m, "stopSpawn", "stopPidfile")
  BY <1>15 DEF SupSpawn, Step
<1>16. CASE \/ SupPidfile(m, "startPidfile", "startState")
            \/ SupPidfile(m, "stopPidfile", "stopState")
  BY <1>16 DEF SupPidfile, Step
<1>17. CASE StopSup(m)
  BY <1>17 DEF StopSup, Step, CleanStale, Running
<1> QED BY <1>1, <1>2, <1>3, <1>4, <1>5, <1>6, <1>7, <1>8, <1>9, <1>10, <1>11, <1>12,
         <1>13, <1>14, <1>15, <1>16, <1>17 DEF ManagerNext, ManagerStep, SetTargets

LEMMA StopsSup ==
  ASSUME TypeOK, Stops, NEW s \in Sups, SupNext(s) \/ SupErrs(s) \/ SupKilled(s)
  PROVE  Stops'
<1> USE WatchdogAssumption DEF TypeOK, Stops, Safe, Awake, Restarting, StartSteps,
      StopSteps, Rewritten, files, managerVars, supVars, statusVars, bounds, history
<1>1. CASE SupBoots(s) \/ SupWakes(s)
  BY <1>1 DEF SupBoots, SupAt, BeingStopped, SupWakes
<1>2. CASE SupReads(s)
  BY <1>2 DEF SupReads, SupAt
<1>3. CASE SupWrites(s)
  BY <1>3 DEF SupWrites, SupAt
<1>4. ASSUME NEW c \in Collectors, SupPasses(s, c) PROVE Stops'
  BY <1>4 DEF SupPasses, SupAt, OverLimit
<1>5. ASSUME NEW c \in Collectors, SupDecides(s, c) PROVE Stops'
  BY <1>5 DEF SupDecides, SupAt, OverLimit
<1>6. ASSUME NEW c \in Collectors, SupGivesUp(s, c) PROVE Stops'
  BY <1>6 DEF SupGivesUp, SupAt, OverLimit
<1>7. ASSUME NEW c \in Collectors, SupFails(s, c) PROVE Stops'
  BY <1>7 DEF SupFails, SupAt, OverLimit
<1>8. CASE SupRestarts(s)
  <2>1. spc[s] = "restart" /\ scur[s] \in Safe /\ scur[s] \in Collectors
    BY <1>8 DEF SupRestarts, SupAt
  <2>2. \A c \in Collectors : loop'[c] # "down" => c = scur[s] \/ loop[c] # "down"
    BY <1>8 DEF SupRestarts
  <2>3. /\ spc' \in {[spc EXCEPT ![s] = "record"], [spc EXCEPT ![s] = "recordFailed"]}
        /\ UNCHANGED <<names, mpc, mtarget, mnames>>
        /\ UNCHANGED <<snames, srest, scur, wanted, excused>>
    BY <1>8 DEF SupRestarts, SupAt
  <2>4. \A t \in Sups : spc'[t] = spc[t] \/
                         (spc[t] = "restart" /\ spc'[t] \in {"record", "recordFailed"})
    BY <2>1, <2>3
  <2>5. Safe' = Safe
    BY <2>3
  <2> HIDE DEF Safe
  <2> QED BY <2>1, <2>2, <2>3, <2>4, <2>5
<1>9. CASE SupErrs(s)
  BY <1>9 DEF SupErrs, SupAt, Forgets
<1>10. CASE SupTerm(s)
  BY <1>10 DEF SupTerm, SupAt, Forgets
<1>11. CASE SupShuts(s)
  BY <1>11 DEF SupShuts, SupAt, SupDies
<1>12. CASE SupDiesAtBoot(s)
  BY <1>12 DEF SupDiesAtBoot, SupAt, SupDies
<1>13. CASE SupKilled(s)
  BY <1>13 DEF SupKilled, SupAt, SupDies, Forgets
<1>14. CASE SupScans(s)
  BY <1>14 DEF SupScans, SupAt
<1>15. CASE SupRecords(s)
  BY <1>15 DEF SupRecords, SupAt
<1>16. CASE SupSleeps(s)
  BY <1>16 DEF SupSleeps, SupAt
<1> QED BY <1>1, <1>2, <1>3, <1>4, <1>5, <1>6, <1>7, <1>8, <1>9, <1>10, <1>11, <1>12,
         <1>13, <1>14, <1>15, <1>16 DEF SupNext

LEMMA StopsWorld ==
  ASSUME TypeOK, Stops, NEW c \in Collectors, LoopFails(c) \/ WindowExpires(c)
  PROVE  Stops'
<1> USE WatchdogAssumption DEF TypeOK, Stops, Safe, Awake, Restarting, StartSteps,
      StopSteps, Rewritten, files, managerVars, supVars, statusVars, bounds, history
<1>1. CASE LoopFails(c) \/ WindowExpires(c)
  BY <1>1 DEF LoopFails, WindowExpires
<1> QED BY <1>1

(***************************************************************************)
(* The invariant                                                           *)
(***************************************************************************)

LEMMA InvInit == Init => IInv
<1> SUFFICES ASSUME Init PROVE IInv
  OBVIOUS
<1> USE WatchdogAssumption DEF Init, Awake, Restarting, StartSteps, StopSteps
<1>1. TypeOK
  <2>1. /\ mpc \in [Managers -> {"idle"} \cup StartSteps \cup StopSteps]
        /\ spc \in [Sups -> Awake \cup {"unused", "boot", "sleep", "shut", "dead"}]
    OBVIOUS
  <2>2. /\ ops \in 0 .. MaxOps /\ faults \in 0 .. MaxFaults
        /\ \A s \in Sups : spc[s] \notin Restarting
    OBVIOUS
  <2> QED BY <2>1, <2>2 DEF TypeOK
<1>2. Sole
  BY DEF Sole, SupAlive
<1>3. Budget
  BY DEF Budget
<1>4. Stops
  BY DEF Stops, Rewritten
<1> QED BY <1>1, <1>2, <1>3, <1>4 DEF IInv

LEMMA InvStep == IInv /\ [Next]_vars => IInv'
<1> SUFFICES ASSUME IInv, [Next]_vars PROVE IInv'
  OBVIOUS
<1> USE DEF IInv
<1>1. ASSUME NEW m \in Managers, ManagerNext(m) PROVE IInv'
  BY <1>1, TypeManager, SoleManager, BudgetManager, StopsManager
<1>2. ASSUME NEW s \in Sups, SupNext(s) \/ SupErrs(s) \/ SupKilled(s) PROVE IInv'
  BY <1>2, TypeSup, SoleSup, BudgetSup, StopsSup
<1>3. ASSUME NEW c \in Collectors, LoopFails(c) \/ WindowExpires(c) PROVE IInv'
  BY <1>3, TypeWorld, SoleWorld, BudgetWorld, StopsWorld
<1>4. CASE UNCHANGED vars
  <2> USE <1>4 DEF vars, files, managerVars, supVars, statusVars, bounds, history
  <2>1. TypeOK'
    BY DEF TypeOK
  <2>2. Sole'
    BY DEF Sole, SupAlive
  <2>3. Budget'
    BY DEF Budget
  <2>4. Stops'
    BY DEF Stops, Safe
  <2> QED BY <2>1, <2>2, <2>3, <2>4
<1> QED BY <1>1, <1>2, <1>3, <1>4 DEF Next

LEMMA InvAlways == Spec => []IInv
BY InvInit, InvStep, PTL DEF Spec

(***************************************************************************)
(* The theorems                                                            *)
(***************************************************************************)

\* Commands and supervisors keep pids, collectors and counts where they belong:
\* in the files, in their memory and in the books of restarts (TypeOK).
THEOREM TypeCorrect == Spec => []TypeOK
<1>1. IInv => TypeOK
  BY DEF IInv
<1> QED BY <1>1, InvAlways, PTL

\* Whatever crashes, stalls, is started, stopped or fails to restart, and
\* however many supervisors and commands there are, a window sees no more
\* restarts than its limit, unless a restart was cut off before it was counted
\* or decided on while another was under way (BudgetHolds).
THEOREM BudgetHoldsAlways == Spec => []BudgetHolds
<1>1. IInv => BudgetHolds
  BY DEF IInv, Budget, BudgetHolds
<1> QED BY <1>1, InvAlways, PTL

\* A collector whose stop nothing disturbed stays down until it is started
\* again: no list of names and no pass in progress still holds it (StopSticks).
THEOREM StopSticksAlways == Spec => []StopSticks
<1>1. IInv => StopSticks
  BY DEF IInv, TypeOK, Stops, Safe, StopSticks
<1> QED BY <1>1, InvAlways, PTL

\* One command at a time never leads to a second supervisor (SoleSupervisor).
THEOREM SoleSupervisorAlways == Spec => []SoleSupervisor
<1>1. IInv => SoleSupervisor
  BY DEF IInv, Sole, OneCommand, SoleSupervisor
<1> QED BY <1>1, InvAlways, PTL

(***************************************************************************)
(* The command of a run: the inductive invariant                           *)
(***************************************************************************)

\* Before the command is there, and from its fork to the end of system().
InSystem == {"armed", "system"}
WaitFor == {"forked", "wait", "interrupted", "status", "left"}

\* The two ways out of Contained, and of AstrayExplained.
Escaped == "gaveUp" \in past \/ "killed" \in past
Excused == "collected" \in past \/ "again" \in past
Causes == {"gaveUp", "killed", "collected", "again", "astray", "astrayKill"}

\* Every variable holds a value of its kind.
CommandTypeOK ==
  /\ pc \in Perl \cup Over \cup {"system", "forked", "wait"}
  /\ inEval \in BOOLEAN /\ why \in {"none", "timeout", "signal"} /\ reaped \in BOOLEAN
  /\ pending \subseteq {"ALRM", "TERM"} /\ alarm \in BOOLEAN
  /\ pidfile \in {"empty", "pid", "unlinked"}
  /\ cmd \in Alive \cup {"none", "zombie", "gone"}
  /\ kid \in {"none", "running", "ended"} /\ reused \in BOOLEAN
  /\ stop \in {"idle", "term", "grace", "kill", "over"}
  /\ past \subseteq Causes

\* What a cleanup is for.
Purpose ==
  /\ pc \in InSystem \cup WaitFor \cup {"raised"} => why = "none"
  /\ pc \in Cleanup => why # "none"
  /\ pc = "raise" => why = "signal"
  /\ pc = "returned" => why # "signal"

\* The alarm comes once: after a timeout there is none left to end run_command.
OneAlarm ==
  /\ "ALRM" \in pending => ~alarm
  /\ why = "timeout" => ~inEval
  /\ ~inEval /\ (alarm \/ "ALRM" \in pending) => cmd = "gone"
  /\ pc \in {"status", "left", "raised"} => cmd = "gone"

\* The launcher writes its pid before it leaves the worker's session, and the
\* command's own processes come after.
Launching ==
  /\ pc \in InSystem => cmd = "none" /\ pidfile = "empty"
  /\ cmd = "launcher" => pidfile # "pid"
  /\ pidfile = "empty" => cmd \notin {"published", "session"} /\ kid = "none"
  /\ reused => cmd = "gone" /\ kid # "running"

\* Nothing of the command's session runs.
Gone == cmd \notin Alive /\ kid # "running"

\* How far a cleanup has come, whatever interrupts it.
Cleaning ==
  ~Escaped =>
    /\ pc \in {"termGroup", "termPid", "poll", "killGroup", "killPid", "reap"} =>
         pidfile = "pid"
    /\ pc \in {"poll", "killGroup"} => cmd \notin Launcher
    /\ pc \in {"killPid", "reap", "unlink", "raise"} => Gone
    /\ pc \in Over => cmd \notin Alive
    /\ <<pc, why>> \in {<<"returned", "timeout">>, <<"dead", "signal">>} => Gone
    /\ pidfile = "unlinked" => Gone \/ (pc \in Over /\ why = "none")

\* The worker holds the command's pid until it has collected it, after which there
\* is only KILL for the group to be sent.
Holding ==
  cmd = "gone" =>
    /\ \/ Excused
       \/ pc \in {"unlink", "raise"} \cup Over
       \/ pc = "killGroup"
    /\ pc = "killGroup" => reaped

\* A stop leaves no worker.
Stopped == stop = "over" => pc = "dead"

CommandIInv ==
  /\ CommandTypeOK /\ Purpose /\ OneAlarm /\ Launching /\ Cleaning /\ Holding
  /\ Stopped /\ AstrayExplained

(***************************************************************************)
(* One lemma per action                                                    *)
(***************************************************************************)

USE DEF Perl, Over, Cleanup, Alive, Launcher, Escaped, Excused, Causes, worker, signals,
        command

\* A pending ALRM is dispatched: the cleanup of a timeout begins, or run_command dies.
LEMMA DispatchAlarmKeeps == CommandIInv /\ DispatchAlarm => CommandIInv'
<1> SUFFICES ASSUME CommandIInv, DispatchAlarm
             PROVE  CommandIInv'
  OBVIOUS
<1> USE DEF CommandIInv, DispatchAlarm, Remember
<1>1. CommandTypeOK'
  <2>1. (inEval \in BOOLEAN)'
    BY DEF CommandTypeOK
  <2>2. (past \subseteq Causes)'
    BY DEF CommandTypeOK
  <2> QED BY <2>1, <2>2 DEF CommandTypeOK
<1>2. Purpose' /\ OneAlarm' /\ Launching'
  BY DEF CommandTypeOK, Purpose, OneAlarm, Launching, InSystem, WaitFor
<1>3. Cleaning'
  BY DEF CommandTypeOK, Purpose, OneAlarm, Launching, Cleaning, Gone, InSystem, WaitFor
<1>4. Holding' /\ Stopped' /\ AstrayExplained'
  BY DEF CommandTypeOK, Purpose, OneAlarm, Launching, Holding, Stopped,
         AstrayExplained, InSystem, WaitFor
<1> QED BY <1>1, <1>2, <1>3, <1>4

\* A pending TERM is dispatched: the cleanup of a signal begins, or begins again.
LEMMA DispatchTermKeeps == CommandIInv /\ DispatchTerm => CommandIInv'
<1> SUFFICES ASSUME CommandIInv, DispatchTerm
             PROVE  CommandIInv'
  OBVIOUS
<1> USE DEF CommandIInv, DispatchTerm, Remember
<1>1. CommandTypeOK'
  <2>1. (inEval \in BOOLEAN)'
    BY DEF CommandTypeOK
  <2>2. (past \subseteq Causes)'
    BY DEF CommandTypeOK
  <2> QED BY <2>1, <2>2 DEF CommandTypeOK
<1>2. Purpose' /\ OneAlarm' /\ Launching'
  BY DEF CommandTypeOK, Purpose, OneAlarm, Launching, InSystem, WaitFor
<1>3. Cleaning'
  BY DEF CommandTypeOK, Purpose, OneAlarm, Launching, Cleaning, Gone, InSystem, WaitFor
<1>4. Holding' /\ Stopped' /\ AstrayExplained'
  BY DEF CommandTypeOK, Purpose, OneAlarm, Launching, Holding, Stopped,
         AstrayExplained, InSystem, WaitFor
<1> QED BY <1>1, <1>2, <1>3, <1>4

\* The alarm goes off.
LEMMA AlarmKeeps == CommandIInv /\ Alarm => CommandIInv'
<1> SUFFICES ASSUME CommandIInv, Alarm
             PROVE  CommandIInv'
  OBVIOUS
<1> USE DEF CommandIInv, Alarm, Signalled
<1>1. CommandTypeOK'
  <2>1. (inEval \in BOOLEAN)'
    BY DEF CommandTypeOK
  <2>2. (past \subseteq Causes)'
    BY DEF CommandTypeOK
  <2>3. (pc \in Perl \cup Over \cup {"system", "forked", "wait"})'
    BY DEF CommandTypeOK
  <2>4. (pending \subseteq {"ALRM", "TERM"})'
    BY DEF CommandTypeOK
  <2>5. (reaped \in BOOLEAN /\ alarm \in BOOLEAN /\ reused \in BOOLEAN)'
    BY DEF CommandTypeOK
  <2> QED BY <2>1, <2>2, <2>3, <2>4, <2>5 DEF CommandTypeOK
<1>2. Purpose' /\ OneAlarm' /\ Launching'
  BY DEF CommandTypeOK, Purpose, OneAlarm, Launching, InSystem, WaitFor
<1>3. Cleaning'
  BY DEF CommandTypeOK, Purpose, OneAlarm, Launching, Cleaning, Gone, InSystem, WaitFor
<1>4. Holding' /\ Stopped' /\ AstrayExplained'
  BY DEF CommandTypeOK, Purpose, OneAlarm, Launching, Holding, Stopped,
         AstrayExplained, InSystem, WaitFor
<1> QED BY <1>1, <1>2, <1>3, <1>4

\* system() forks the launcher.
LEMMA SystemKeeps == CommandIInv /\ System => CommandIInv'
<1> SUFFICES ASSUME CommandIInv, System
             PROVE  CommandIInv'
  OBVIOUS
<1> USE DEF CommandIInv, System
<1>1. CommandTypeOK'
  <2>1. (inEval \in BOOLEAN)'
    BY DEF CommandTypeOK
  <2>2. (past \subseteq Causes)'
    BY DEF CommandTypeOK
  <2> QED BY <2>1, <2>2 DEF CommandTypeOK
<1>2. Purpose' /\ OneAlarm' /\ Launching'
  BY DEF CommandTypeOK, Purpose, OneAlarm, Launching, InSystem, WaitFor
<1>3. Cleaning'
  BY DEF CommandTypeOK, Purpose, OneAlarm, Launching, Cleaning, Gone, InSystem, WaitFor
<1>4. Holding' /\ Stopped' /\ AstrayExplained'
  BY DEF CommandTypeOK, Purpose, OneAlarm, Launching, Holding, Stopped,
         AstrayExplained, InSystem, WaitFor
<1> QED BY <1>1, <1>2, <1>3, <1>4

\* waitpid returns: the command is collected.
LEMMA WaitedKeeps == CommandIInv /\ Waited => CommandIInv'
<1> SUFFICES ASSUME CommandIInv, Waited
             PROVE  CommandIInv'
  OBVIOUS
<1> USE DEF CommandIInv, Waited, Remember
<1>1. CommandTypeOK'
  BY DEF CommandTypeOK
<1>2. Purpose' /\ OneAlarm' /\ Launching'
  BY DEF CommandTypeOK, Purpose, OneAlarm, Launching, InSystem, WaitFor
<1>3. Cleaning'
  BY DEF CommandTypeOK, Purpose, OneAlarm, Launching, Cleaning, Gone, InSystem, WaitFor
<1>4. Holding' /\ Stopped' /\ AstrayExplained'
  BY DEF CommandTypeOK, Purpose, OneAlarm, Launching, Holding, Stopped,
         AstrayExplained, InSystem, WaitFor
<1> QED BY <1>1, <1>2, <1>3, <1>4

\* run_command leaves the eval.
LEMMA LeaveKeeps == CommandIInv /\ Leave => CommandIInv'
<1> SUFFICES ASSUME CommandIInv, Leave
             PROVE  CommandIInv'
  OBVIOUS
<1> USE DEF CommandIInv, Leave
<1>1. CommandTypeOK'
  <2>1. (inEval \in BOOLEAN)'
    BY DEF CommandTypeOK
  <2>2. (past \subseteq Causes)'
    BY DEF CommandTypeOK
  <2>3. (pc \in Perl \cup Over \cup {"system", "forked", "wait"})'
    BY DEF CommandTypeOK
  <2>4. (pending \subseteq {"ALRM", "TERM"})'
    BY DEF CommandTypeOK
  <2>5. (reaped \in BOOLEAN /\ alarm \in BOOLEAN /\ reused \in BOOLEAN)'
    BY DEF CommandTypeOK
  <2> QED BY <2>1, <2>2, <2>3, <2>4, <2>5 DEF CommandTypeOK
<1>2. Purpose' /\ OneAlarm' /\ Launching'
  BY DEF CommandTypeOK, Purpose, OneAlarm, Launching, InSystem, WaitFor
<1>3. Cleaning'
  BY DEF CommandTypeOK, Purpose, OneAlarm, Launching, Cleaning, Gone, InSystem, WaitFor
<1>4. Holding' /\ Stopped' /\ AstrayExplained'
  BY DEF CommandTypeOK, Purpose, OneAlarm, Launching, Holding, Stopped,
         AstrayExplained, InSystem, WaitFor
<1> QED BY <1>1, <1>2, <1>3, <1>4

\* The cleanup finds the pid, or gives up.
LEMMA AwaitKeeps == CommandIInv /\ await_command_pid => CommandIInv'
<1> SUFFICES ASSUME CommandIInv, await_command_pid
             PROVE  CommandIInv'
  OBVIOUS
<1> USE DEF CommandIInv, await_command_pid, Remember
<1>1. CommandTypeOK'
  <2>1. (inEval \in BOOLEAN)'
    BY DEF CommandTypeOK
  <2>2. (past \subseteq Causes)'
    BY DEF CommandTypeOK
  <2> QED BY <2>1, <2>2 DEF CommandTypeOK
<1>2. Purpose' /\ OneAlarm' /\ Launching'
  BY DEF CommandTypeOK, Purpose, OneAlarm, Launching, InSystem, WaitFor
<1>3. Cleaning'
  BY DEF CommandTypeOK, Purpose, OneAlarm, Launching, Cleaning, Gone, InSystem, WaitFor
<1>4. Holding' /\ Stopped' /\ AstrayExplained'
  BY DEF CommandTypeOK, Purpose, OneAlarm, Launching, Holding, Stopped,
         AstrayExplained, InSystem, WaitFor
<1> QED BY <1>1, <1>2, <1>3, <1>4

\* TERM for the group.
LEMMA TermGroupKeeps == CommandIInv /\ TermGroup => CommandIInv'
<1> SUFFICES ASSUME CommandIInv, TermGroup
             PROVE  CommandIInv'
  OBVIOUS
<1> USE DEF CommandIInv, TermGroup, Astray, Remember, Terminated
<1>1. CommandTypeOK'
  <2>1. (inEval \in BOOLEAN)'
    BY DEF CommandTypeOK
  <2>2. (past \subseteq Causes)'
    BY DEF CommandTypeOK
  <2>3. (reaped \in BOOLEAN /\ alarm \in BOOLEAN /\ reused \in BOOLEAN)'
    BY DEF CommandTypeOK
  <2> QED BY <2>1, <2>2, <2>3 DEF CommandTypeOK
<1>2. Purpose' /\ OneAlarm' /\ Launching'
  BY DEF CommandTypeOK, Purpose, OneAlarm, Launching, InSystem, WaitFor
<1>3. Cleaning'
  BY DEF CommandTypeOK, Purpose, OneAlarm, Launching, Cleaning, Gone, InSystem, WaitFor
<1>4. Holding' /\ Stopped' /\ AstrayExplained'
  BY DEF CommandTypeOK, Purpose, OneAlarm, Launching, Holding, Stopped,
         AstrayExplained, InSystem, WaitFor
<1> QED BY <1>1, <1>2, <1>3, <1>4

\* TERM for the pid: a launcher still in the worker's group ends here.
LEMMA TermPidKeeps == CommandIInv /\ TermPid => CommandIInv'
<1> SUFFICES ASSUME CommandIInv, TermPid
             PROVE  CommandIInv'
  OBVIOUS
<1> USE DEF CommandIInv, TermPid, Astray, Remember, Terminated
<1>1. CommandTypeOK'
  <2>1. (inEval \in BOOLEAN)'
    BY DEF CommandTypeOK
  <2>2. (past \subseteq Causes)'
    BY DEF CommandTypeOK
  <2>3. (reaped \in BOOLEAN /\ alarm \in BOOLEAN /\ reused \in BOOLEAN)'
    BY DEF CommandTypeOK
  <2> QED BY <2>1, <2>2, <2>3 DEF CommandTypeOK
<1>2. Purpose' /\ OneAlarm' /\ Launching'
  BY DEF CommandTypeOK, Purpose, OneAlarm, Launching, InSystem, WaitFor
<1>3. Cleaning'
  BY DEF CommandTypeOK, Purpose, OneAlarm, Launching, Cleaning, Gone, InSystem, WaitFor
<1>4. Holding' /\ Stopped' /\ AstrayExplained'
  BY DEF CommandTypeOK, Purpose, OneAlarm, Launching, Holding, Stopped,
         AstrayExplained, InSystem, WaitFor
<1> QED BY <1>1, <1>2, <1>3, <1>4

\* The cleanup looks whether the command has ended.
LEMMA PollKeeps == CommandIInv /\ Poll => CommandIInv'
<1> SUFFICES ASSUME CommandIInv, Poll
             PROVE  CommandIInv'
  OBVIOUS
<1> USE DEF CommandIInv, Poll
<1>1. CommandTypeOK'
  BY DEF CommandTypeOK
<1>2. Purpose' /\ OneAlarm' /\ Launching'
  BY DEF CommandTypeOK, Purpose, OneAlarm, Launching, InSystem, WaitFor
<1>3. Cleaning'
  BY DEF CommandTypeOK, Purpose, OneAlarm, Launching, Cleaning, Gone, InSystem, WaitFor
<1>4. Holding' /\ Stopped' /\ AstrayExplained'
  BY DEF CommandTypeOK, Purpose, OneAlarm, Launching, Holding, Stopped,
         AstrayExplained, InSystem, WaitFor
<1> QED BY <1>1, <1>2, <1>3, <1>4

\* KILL for the group: nothing of the session is left.
LEMMA KillGroupKeeps == CommandIInv /\ KillGroup => CommandIInv'
<1> SUFFICES ASSUME CommandIInv, KillGroup
             PROVE  CommandIInv'
  OBVIOUS
<1> USE DEF CommandIInv, KillGroup, Astray, Remember
<1>1. CommandTypeOK'
  <2>1. (inEval \in BOOLEAN)'
    BY DEF CommandTypeOK
  <2>2. (past \subseteq Causes)'
    BY DEF CommandTypeOK
  <2>3. (reaped \in BOOLEAN /\ alarm \in BOOLEAN /\ reused \in BOOLEAN)'
    BY DEF CommandTypeOK
  <2> QED BY <2>1, <2>2, <2>3 DEF CommandTypeOK
<1>2. Purpose' /\ OneAlarm' /\ Launching'
  BY DEF CommandTypeOK, Purpose, OneAlarm, Launching, InSystem, WaitFor
<1>3. Cleaning'
  BY DEF CommandTypeOK, Purpose, OneAlarm, Launching, Cleaning, Gone, InSystem, WaitFor
<1>4. Holding' /\ Stopped' /\ AstrayExplained'
  BY DEF CommandTypeOK, Purpose, OneAlarm, Launching, Holding, Stopped,
         AstrayExplained, InSystem, WaitFor
<1> QED BY <1>1, <1>2, <1>3, <1>4

\* KILL for the pid.
LEMMA KillPidKeeps == CommandIInv /\ KillPid => CommandIInv'
<1> SUFFICES ASSUME CommandIInv, KillPid
             PROVE  CommandIInv'
  OBVIOUS
<1> USE DEF CommandIInv, KillPid, Astray, Remember
<1>1. CommandTypeOK'
  <2>1. (inEval \in BOOLEAN)'
    BY DEF CommandTypeOK
  <2>2. (past \subseteq Causes)'
    BY DEF CommandTypeOK
  <2>3. (reaped \in BOOLEAN /\ alarm \in BOOLEAN /\ reused \in BOOLEAN)'
    BY DEF CommandTypeOK
  <2> QED BY <2>1, <2>2, <2>3 DEF CommandTypeOK
<1>2. Purpose' /\ OneAlarm' /\ Launching'
  BY DEF CommandTypeOK, Purpose, OneAlarm, Launching, InSystem, WaitFor
<1>3. Cleaning'
  BY DEF CommandTypeOK, Purpose, OneAlarm, Launching, Cleaning, Gone, InSystem, WaitFor
<1>4. Holding' /\ Stopped' /\ AstrayExplained'
  BY DEF CommandTypeOK, Purpose, OneAlarm, Launching, Holding, Stopped,
         AstrayExplained, InSystem, WaitFor
<1> QED BY <1>1, <1>2, <1>3, <1>4

\* The cleanup collects the command.
LEMMA ReapKeeps == CommandIInv /\ Reap => CommandIInv'
<1> SUFFICES ASSUME CommandIInv, Reap
             PROVE  CommandIInv'
  OBVIOUS
<1> USE DEF CommandIInv, Reap
<1>1. CommandTypeOK'
  BY DEF CommandTypeOK
<1>2. Purpose' /\ OneAlarm' /\ Launching'
  BY DEF CommandTypeOK, Purpose, OneAlarm, Launching, InSystem, WaitFor
<1>3. Cleaning'
  BY DEF CommandTypeOK, Purpose, OneAlarm, Launching, Cleaning, Gone, InSystem, WaitFor
<1>4. Holding' /\ Stopped' /\ AstrayExplained'
  BY DEF CommandTypeOK, Purpose, OneAlarm, Launching, Holding, Stopped,
         AstrayExplained, InSystem, WaitFor
<1> QED BY <1>1, <1>2, <1>3, <1>4

\* The cleanup unlinks the pid file and returns, or raises the signal again.
LEMMA ConcludeKeeps == CommandIInv /\ Conclude => CommandIInv'
<1> SUFFICES ASSUME CommandIInv, Conclude
             PROVE  CommandIInv'
  OBVIOUS
<1> USE DEF CommandIInv, Conclude
<1>1. CommandTypeOK'
  BY DEF CommandTypeOK
<1>2. Purpose' /\ OneAlarm' /\ Launching'
  BY DEF CommandTypeOK, Purpose, OneAlarm, Launching, InSystem, WaitFor
<1>3. Cleaning'
  BY DEF CommandTypeOK, Purpose, OneAlarm, Launching, Cleaning, Gone, InSystem, WaitFor
<1>4. Holding' /\ Stopped' /\ AstrayExplained'
  BY DEF CommandTypeOK, Purpose, OneAlarm, Launching, Holding, Stopped,
         AstrayExplained, InSystem, WaitFor
<1> QED BY <1>1, <1>2, <1>3, <1>4

\* The launcher writes its pid, then leaves the worker's session.
LEMMA LauncherKeeps == CommandIInv /\ command_launcher => CommandIInv'
<1> SUFFICES ASSUME CommandIInv, command_launcher
             PROVE  CommandIInv'
  OBVIOUS
<1> USE DEF CommandIInv, command_launcher
<1>1. CommandTypeOK'
  BY DEF CommandTypeOK
<1>2. Purpose' /\ OneAlarm' /\ Launching'
  BY DEF CommandTypeOK, Purpose, OneAlarm, Launching, InSystem, WaitFor
<1>3. Cleaning'
  BY DEF CommandTypeOK, Purpose, OneAlarm, Launching, Cleaning, Gone, InSystem, WaitFor
<1>4. Holding' /\ Stopped' /\ AstrayExplained'
  BY DEF CommandTypeOK, Purpose, OneAlarm, Launching, Holding, Stopped,
         AstrayExplained, InSystem, WaitFor
<1> QED BY <1>1, <1>2, <1>3, <1>4

\* The command starts another process.
LEMMA ForkKeeps == CommandIInv /\ Fork => CommandIInv'
<1> SUFFICES ASSUME CommandIInv, Fork
             PROVE  CommandIInv'
  OBVIOUS
<1> USE DEF CommandIInv, Fork
<1>1. CommandTypeOK'
  BY DEF CommandTypeOK
<1>2. Purpose' /\ OneAlarm' /\ Launching'
  BY DEF CommandTypeOK, Purpose, OneAlarm, Launching, InSystem, WaitFor
<1>3. Cleaning'
  BY DEF CommandTypeOK, Purpose, OneAlarm, Launching, Cleaning, Gone, InSystem, WaitFor
<1>4. Holding' /\ Stopped' /\ AstrayExplained'
  BY DEF CommandTypeOK, Purpose, OneAlarm, Launching, Holding, Stopped,
         AstrayExplained, InSystem, WaitFor
<1> QED BY <1>1, <1>2, <1>3, <1>4

\* A process of the command ends by itself.
LEMMA ExitKeeps == CommandIInv /\ Exit => CommandIInv'
<1> SUFFICES ASSUME CommandIInv, Exit
             PROVE  CommandIInv'
  OBVIOUS
<1> USE DEF CommandIInv, Exit
<1>1. CommandTypeOK'
  BY DEF CommandTypeOK
<1>2. Purpose' /\ OneAlarm' /\ Launching'
  BY DEF CommandTypeOK, Purpose, OneAlarm, Launching, InSystem, WaitFor
<1>3. Cleaning'
  BY DEF CommandTypeOK, Purpose, OneAlarm, Launching, Cleaning, Gone, InSystem, WaitFor
<1>4. Holding' /\ Stopped' /\ AstrayExplained'
  BY DEF CommandTypeOK, Purpose, OneAlarm, Launching, Holding, Stopped,
         AstrayExplained, InSystem, WaitFor
<1> QED BY <1>1, <1>2, <1>3, <1>4

\* Init collects the orphan.
LEMMA AdoptedKeeps == CommandIInv /\ Adopted => CommandIInv'
<1> SUFFICES ASSUME CommandIInv, Adopted
             PROVE  CommandIInv'
  OBVIOUS
<1> USE DEF CommandIInv, Adopted
<1>1. CommandTypeOK'
  BY DEF CommandTypeOK
<1>2. Purpose' /\ OneAlarm' /\ Launching'
  BY DEF CommandTypeOK, Purpose, OneAlarm, Launching, InSystem, WaitFor
<1>3. Cleaning'
  BY DEF CommandTypeOK, Purpose, OneAlarm, Launching, Cleaning, Gone, InSystem, WaitFor
<1>4. Holding' /\ Stopped' /\ AstrayExplained'
  BY DEF CommandTypeOK, Purpose, OneAlarm, Launching, Holding, Stopped,
         AstrayExplained, InSystem, WaitFor
<1> QED BY <1>1, <1>2, <1>3, <1>4

\* The kernel gives the pid away.
LEMMA ReuseKeeps == CommandIInv /\ Reuse => CommandIInv'
<1> SUFFICES ASSUME CommandIInv, Reuse
             PROVE  CommandIInv'
  OBVIOUS
<1> USE DEF CommandIInv, Reuse
<1>1. CommandTypeOK'
  BY DEF CommandTypeOK
<1>2. Purpose' /\ OneAlarm' /\ Launching'
  BY DEF CommandTypeOK, Purpose, OneAlarm, Launching, InSystem, WaitFor
<1>3. Cleaning'
  BY DEF CommandTypeOK, Purpose, OneAlarm, Launching, Cleaning, Gone, InSystem, WaitFor
<1>4. Holding' /\ Stopped' /\ AstrayExplained'
  BY DEF CommandTypeOK, Purpose, OneAlarm, Launching, Holding, Stopped,
         AstrayExplained, InSystem, WaitFor
<1> QED BY <1>1, <1>2, <1>3, <1>4

\* TERM for the worker's group, then for the worker.
LEMMA StopTermKeeps == CommandIInv /\ StopTerm => CommandIInv'
<1> SUFFICES ASSUME CommandIInv, StopTerm
             PROVE  CommandIInv'
  OBVIOUS
<1> USE DEF CommandIInv, StopTerm, Signalled
<1>1. CommandTypeOK'
  <2>1. (inEval \in BOOLEAN)'
    BY DEF CommandTypeOK
  <2>2. (past \subseteq Causes)'
    BY DEF CommandTypeOK
  <2>3. (pc \in Perl \cup Over \cup {"system", "forked", "wait"})'
    BY DEF CommandTypeOK
  <2>4. (pending \subseteq {"ALRM", "TERM"})'
    BY DEF CommandTypeOK
  <2>5. (reaped \in BOOLEAN /\ alarm \in BOOLEAN /\ reused \in BOOLEAN)'
    BY DEF CommandTypeOK
  <2> QED BY <2>1, <2>2, <2>3, <2>4, <2>5 DEF CommandTypeOK
<1>2. Purpose' /\ OneAlarm' /\ Launching'
  BY DEF CommandTypeOK, Purpose, OneAlarm, Launching, InSystem, WaitFor
<1>3. Cleaning'
  BY DEF CommandTypeOK, Purpose, OneAlarm, Launching, Cleaning, Gone, InSystem, WaitFor
<1>4. Holding' /\ Stopped' /\ AstrayExplained'
  BY DEF CommandTypeOK, Purpose, OneAlarm, Launching, Holding, Stopped,
         AstrayExplained, InSystem, WaitFor
<1> QED BY <1>1, <1>2, <1>3, <1>4

\* The stop's grace ends.
LEMMA StopGraceKeeps == CommandIInv /\ StopGrace => CommandIInv'
<1> SUFFICES ASSUME CommandIInv, StopGrace
             PROVE  CommandIInv'
  OBVIOUS
<1> USE DEF CommandIInv, StopGrace
<1>1. CommandTypeOK'
  BY DEF CommandTypeOK
<1>2. Purpose' /\ OneAlarm' /\ Launching'
  BY DEF CommandTypeOK, Purpose, OneAlarm, Launching, InSystem, WaitFor
<1>3. Cleaning'
  BY DEF CommandTypeOK, Purpose, OneAlarm, Launching, Cleaning, Gone, InSystem, WaitFor
<1>4. Holding' /\ Stopped' /\ AstrayExplained'
  BY DEF CommandTypeOK, Purpose, OneAlarm, Launching, Holding, Stopped,
         AstrayExplained, InSystem, WaitFor
<1> QED BY <1>1, <1>2, <1>3, <1>4

\* KILL for the worker's group.
LEMMA StopKillKeeps == CommandIInv /\ StopKill => CommandIInv'
<1> SUFFICES ASSUME CommandIInv, StopKill
             PROVE  CommandIInv'
  OBVIOUS
<1> USE DEF CommandIInv, StopKill, Remember
<1>1. CommandTypeOK'
  BY DEF CommandTypeOK
<1>2. Purpose' /\ OneAlarm' /\ Launching'
  BY DEF CommandTypeOK, Purpose, OneAlarm, Launching, InSystem, WaitFor
<1>3. Cleaning'
  BY DEF CommandTypeOK, Purpose, OneAlarm, Launching, Cleaning, Gone, InSystem, WaitFor
<1>4. Holding' /\ Stopped' /\ AstrayExplained'
  BY DEF CommandTypeOK, Purpose, OneAlarm, Launching, Holding, Stopped,
         AstrayExplained, InSystem, WaitFor
<1> QED BY <1>1, <1>2, <1>3, <1>4

\* The invariant holds at the start,
LEMMA CommandStarts == CommandInit => CommandIInv
<1> SUFFICES ASSUME CommandInit
             PROVE  CommandIInv
  OBVIOUS
<1>1. CommandTypeOK /\ Purpose /\ OneAlarm /\ Launching
  BY DEF CommandInit, CommandTypeOK, Purpose, OneAlarm, Launching, InSystem, WaitFor
<1>2. Cleaning /\ Holding /\ Stopped /\ AstrayExplained
  BY DEF CommandInit, Cleaning, Gone, Holding, Stopped, AstrayExplained
<1> QED BY <1>1, <1>2 DEF CommandIInv

HIDE DEF Perl, Over, Cleanup, Alive, Launcher, Escaped, Excused, Causes, worker,
         signals, command

\* and every step keeps it.
LEMMA CommandGoes == CommandIInv /\ [CommandNext]_commandVars => CommandIInv'
<1> SUFFICES ASSUME CommandIInv, [CommandNext]_commandVars
             PROVE  CommandIInv'
  OBVIOUS
<1>1. CASE UNCHANGED commandVars
  BY <1>1 DEF commandVars, worker, signals, command, CommandIInv, CommandTypeOK,
    Purpose, OneAlarm, Launching, Cleaning, Gone, Holding, Stopped, Escaped, Excused,
    AstrayExplained
<1>2. CASE CommandNext
  BY <1>2, DispatchAlarmKeeps, DispatchTermKeeps, AlarmKeeps, SystemKeeps,
    WaitedKeeps, LeaveKeeps, AwaitKeeps, TermGroupKeeps, TermPidKeeps,
    PollKeeps, KillGroupKeeps, KillPidKeeps, ReapKeeps, ConcludeKeeps,
    LauncherKeeps, ForkKeeps, ExitKeeps, AdoptedKeeps, ReuseKeeps,
    StopTermKeeps, StopGraceKeeps, StopKillKeeps
  DEF CommandNext
<1> QED BY <1>1, <1>2

\* So it always holds.
LEMMA CommandAlways == CommandSpec => []CommandIInv
  BY CommandStarts, CommandGoes, PTL DEF CommandSpec

\* Whatever interrupts a cleanup, nothing of the command's session outlives a
\* timeout, a signal or a stop, but for a launcher too late and a worker killed
\* inside run_command.
THEOREM ContainedAlways == CommandSpec => []Contained
<1>1. CommandIInv => Contained
  BY DEF CommandIInv, Cleaning, Gone, Stopped, Contained, Escaped, Over
<1> QED BY <1>1, CommandAlways, PTL

\* TERM, and KILL for the pid, reach a process other than the command only after
\* system() has collected the command, or from a cleanup that began again; KILL for the
\* group does so only after the cleanup has collected the command, when nothing of its
\* session is left.
THEOREM AstrayExplainedAlways == CommandSpec => []AstrayExplained
<1>1. CommandIInv => AstrayExplained
  BY DEF CommandIInv
<1> QED BY <1>1, CommandAlways, PTL

(***************************************************************************)
(* Cron expressions: counting in steps                                     *)
(***************************************************************************)

\* Every set of numbers has a least one.
LEMMA LeastNumber ==
  ASSUME NEW T \in SUBSET Nat, T # {}
  PROVE  \E x \in T : \A y \in T : x <= y
<1> DEFINE R == OpToRel(<, Nat)
<1>1. IsWellFoundedOn(R, Nat)
  BY NatLessThanWellFounded
<1>2. \A x, y \in Nat : <<y, x>> \in R <=> y < x
  BY DEF OpToRel
<1> HIDE DEF R
<1>3. PICK x \in T : \A y \in T : ~ (<<y, x>> \in R)
  BY <1>1, WFMin
<1>4. \A y \in T : y \in Nat /\ x \in Nat
  OBVIOUS
<1>5. \A y \in T : ~ (y < x)
  BY <1>2, <1>3, <1>4
<1> QED BY <1>4, <1>5

\* What is used of the remainder, for a divisor that is not a literal.
LEMMA Remainder ==
  ASSUME NEW a \in Nat, NEW s \in Nat \ {0}
  PROVE  /\ a % s \in 0 .. s - 1
         /\ a < s => a % s = a
         /\ (a + s) % s = a % s
<1>1. /\ a % s \in Nat /\ a \div s \in Nat
      /\ a < s => a % s = a
  OBVIOUS
<1>2. a % s < s
  OBVIOUS
<1>3. a = s * (a \div s) + (a % s)
  BY SMTT(60)
<1>4. \A q, r \in Nat : r < s => (s * q + r) % s = r
  OBVIOUS
<1>5. s * (a \div s + 1) = s * (a \div s) + s
  BY <1>1
<1>6. \A x, y, z \in Int : x = y + z => x + s = (y + s) + z
  OBVIOUS
<1>7. s * (a \div s) \in Int
  BY <1>1
<1>8. a + s = s * (a \div s + 1) + (a % s)
  BY <1>1, <1>3, <1>5, <1>6, <1>7
<1>9. a \div s + 1 \in Nat
  BY <1>1
<1>10. (a + s) % s = a % s
  BY <1>1, <1>2, <1>4, <1>8, <1>9
<1> QED BY <1>1, <1>2, <1>10

\* Counting up from a number in steps.
InSteps(from, to, step) == {v \in from .. to : (v - from) % step = 0}

\* One round of the loop of _parse_cron_field.
LEMMA FirstStep ==
  ASSUME NEW from \in Nat, NEW to \in Int, NEW step \in Nat \ {0}, from <= to
  PROVE  InSteps(from, to, step) = {from} \cup InSteps(from + step, to, step)
<1> DEFINE R(a) == a % step
<1>0. \A a \in Nat : (a < step => R(a) = a) /\ R(a + step) = R(a)
  BY Remainder
<1>1. from \in InSteps(from, to, step)
  BY DEF InSteps
<1>2. ASSUME NEW v \in InSteps(from, to, step), v # from
      PROVE  v \in InSteps(from + step, to, step)
  <2>1. v \in Nat /\ v > from /\ v <= to /\ R(v - from) = 0
    BY <1>2 DEF InSteps
  <2> HIDE DEF R
  <2>2. v - from \in Nat /\ v - from # 0
    BY <2>1
  <2>3. v - from >= step
    BY <2>1, <2>2, <1>0
  <2>4. v - from - step \in Nat /\ v - (from + step) = v - from - step
        /\ v - from = (v - from - step) + step
    BY <2>1, <2>2, <2>3
  <2>5. R(v - from - step) = 0
    BY <2>1, <2>4, <1>0
  <2>6. R(v - (from + step)) = 0
    BY <2>4, <2>5
  <2>7. v \in from + step .. to
    BY <2>1, <2>3
  <2> QED BY <2>6, <2>7 DEF InSteps, R
<1>3. ASSUME NEW v \in InSteps(from + step, to, step)
      PROVE  v \in InSteps(from, to, step)
  <2>1. v \in Nat /\ v >= from + step /\ v <= to /\ (v - (from + step)) % step = 0
    BY DEF InSteps
  <2>2. v - (from + step) \in Nat /\ v - from = (v - (from + step)) + step
    BY <2>1
  <2>3. (v - from) % step = 0
    BY <2>1, <2>2, Remainder
  <2>4. v \in from .. to
    BY <2>1
  <2> QED BY <2>3, <2>4 DEF InSteps
<1> QED BY <1>1, <1>2, <1>3

\* The loop selects the values in steps: the recursive function exists, since InSteps is
\* one, and two of them agree, since a greatest argument at which they differ would be
\* followed by a greater one.
LEMMA SelectedInSteps ==
  ASSUME NEW from \in Nat, NEW to \in Int, NEW step \in Nat \ {0}
  PROVE  Selected(from, to, step) = InSteps(from, to, step)
<1> DEFINE
      Up(f) == [v \in Nat |-> IF v > to THEN {} ELSE {v} \cup f[v + step]]
      upward == CHOOSE f : f = Up(f)
      g == [v \in Nat |-> InSteps(v, to, step)]
<1>1. g = Up(g)
  <2>1. ASSUME NEW v \in Nat PROVE g[v] = Up(g)[v]
    <3>1. v + step \in Nat
      OBVIOUS
    <3>2. CASE v > to
      <4>1. InSteps(v, to, step) = {}
        BY <3>2 DEF InSteps
      <4> QED BY <4>1, <3>2
    <3>3. CASE v <= to
      BY <3>1, <3>3, FirstStep
    <3> QED BY <3>2, <3>3
  <2> HIDE DEF InSteps
  <2> QED BY <2>1
<1>2. upward = Up(upward)
  BY <1>1
<1>3. Selected(from, to, step) = upward[from]
  BY DEF Selected
<1> HIDE DEF upward, g
<1>4. \A v \in Nat : upward[v] = IF v > to THEN {} ELSE {v} \cup upward[v + step]
  BY <1>2
<1>5. \A v \in Nat : upward[v] = g[v]
  <2> SUFFICES ASSUME NEW w \in Nat, upward[w] # g[w] PROVE FALSE
    OBVIOUS
  <2>1. \A v \in Nat : g[v] = IF v > to THEN {} ELSE {v} \cup g[v + step]
    BY <1>1
  <2> DEFINE T == {n \in Nat : \E v \in Nat : n = to - v /\ upward[v] # g[v]}
  <2>2. \A v \in Nat : upward[v] # g[v] => v <= to
    <3>1. \A v \in Nat : v > to => upward[v] = g[v]
      BY <1>4, <2>1
    <3>2. \A v \in Nat : v > to \/ v <= to
      OBVIOUS
    <3> QED BY <3>1, <3>2
  <2>3. to - w \in T
    BY <2>2
  <2>4. PICK n \in T : \A m \in T : n <= m
    <3>1. T \in SUBSET Nat /\ T # {}
      BY <2>3
    <3> HIDE DEF T
    <3> QED BY <3>1, LeastNumber
  <2>5. PICK v \in Nat : n = to - v /\ upward[v] # g[v]
    OBVIOUS
  <2>6. v <= to
    BY <2>2, <2>5
  <2>7. upward[v + step] # g[v + step]
    BY <1>4, <2>1, <2>5, <2>6
  <2>8. v + step \in Nat /\ v + step <= to
    BY <2>2, <2>7
  <2>9. to - (v + step) \in T
    BY <2>7, <2>8
  <2>10. n <= to - (v + step)
    BY <2>4, <2>9
  <2>11. \A a \in Nat : ~ (to - a <= to - (a + step))
    OBVIOUS
  <2> HIDE DEF T
  <2> QED BY <2>5, <2>10, <2>11
<1> QED BY <1>3, <1>5 DEF g

(***************************************************************************)
(* Cron expressions: an item, a field, an expression                       *)
(***************************************************************************)

\* Any three tokens.
WellFormed == [from : Tokens, to : Tokens, step : Tokens]

\* The bounds of a field are numbers of at most three digits.
LEMMA Bounds ==
  ASSUME NEW i \in 1 .. 5
  PROVE  Lowest[i] \in Nat /\ Highest[i] \in Nat /\ Lowest[i] <= Highest[i] /\ Highest[i] < 1000
  BY DEF Lowest, Highest

\* What a token names in a field, if it names something there.
LEMMA Named ==
  ASSUME NEW t \in Tokens, NEW i \in 1 .. 5
  PROVE  /\ _cron_value(t, i) \in Int
         /\ \A v \in Lowest[i] .. Highest[i] : Means(t, i, v) <=> v = _cron_value(t, i)
<1>1. t.n \in Nat /\ t.kind \in {"num", "name", "any", "bad", "none"}
  BY DEF Tokens
<1>2. _cron_value(t, i) \in Int
  BY <1>1 DEF _cron_value, Undef
<1>3. ASSUME NEW v \in Lowest[i] .. Highest[i]
      PROVE  Means(t, i, v) <=> v = _cron_value(t, i)
  <2>1. v \in Nat /\ v < 1000
    BY Bounds
  <2>2. CASE t.kind = "num"
    BY <1>1, <2>1, <2>2 DEF Means, _cron_value, Undef
  <2>3. CASE t.kind = "name"
    BY <1>1, <2>1, <2>3 DEF Means, _cron_value, Undef
  <2>4. CASE t.kind \notin {"num", "name"}
    BY <1>1, <2>1, <2>4 DEF Means, _cron_value, Undef
  <2> QED BY <2>2, <2>3, <2>4
<1> QED BY <1>2, <1>3

\* The steps of an item: BadStep is an error of the code.
BadStep(s) == s # None /\ (s.kind # "num" \/ s.n \notin 1 .. 9999)
StepOf(s) == IF s = None THEN 1 ELSE s.n
OnStep(s, d) == \/ s = None
                \/ /\ s.kind = "num" /\ s.n \in 1 .. 9999
                   /\ d % s.n = 0
\* OnStep is the README's reading.
LEMMA StepsAlike ==
  ASSUME NEW s
  PROVE  /\ ~ BadStep(s) => StepOf(s) \in Nat \ {0}
         /\ \A d \in Nat : OnStep(s, d) <=> ~ BadStep(s) /\ d % StepOf(s) = 0
<1>1. CASE s = None
  <2>1. StepOf(s) = 1 /\ ~ BadStep(s)
    BY <1>1 DEF StepOf, BadStep
  <2>2. \A d : OnStep(s, d)
    BY <1>1 DEF OnStep
  <2>3. \A d \in Nat : d % 1 = 0
    OBVIOUS
  <2> QED BY <2>1, <2>2, <2>3
<1>2. CASE s # None
  <2>1. StepOf(s) = s.n
    BY <1>2 DEF StepOf
  <2>2. BadStep(s) <=> ~ (s.kind = "num" /\ s.n \in 1 .. 9999)
    BY <1>2 DEF BadStep
  <2>3. \A d : OnStep(s, d) <=> s.kind = "num" /\ s.n \in 1 .. 9999 /\ d % s.n = 0
    BY <1>2 DEF OnStep
  <2>4. ~ BadStep(s) => StepOf(s) \in Nat \ {0}
    <3> SUFFICES ASSUME ~ BadStep(s)
                 PROVE  StepOf(s) \in Nat \ {0}
      BY Zenon
    <3> DEFINE n == s.n
    <3>1. n \in 1 .. 9999
      BY <2>2
    <3> HIDE DEF n
    <3>2. n \in Nat \ {0}
      BY <3>1
    <3> QED BY <2>1, <3>2 DEF n
  <2>5. \A d \in Nat : OnStep(s, d) <=> ~ BadStep(s) /\ d % StepOf(s) = 0
    <3> DEFINE sound == s.kind = "num" /\ s.n \in 1 .. 9999
    <3>1. BadStep(s) <=> ~ sound
      BY <1>2 DEF BadStep
    <3>2. \A d : OnStep(s, d) <=> sound /\ d % s.n = 0
      BY <1>2 DEF OnStep
    <3> HIDE DEF sound
    <3> QED BY <2>1, <3>1, <3>2, Zenon
  <2> QED BY <2>4, <2>5
<1> QED BY <1>1, <1>2

\* An item selects what it means, and an error of the code means nothing.
LEMMA ItemExact ==
  ASSUME NEW item \in WellFormed, NEW i \in 1 .. 5
  PROVE  parse_item(item, i) = ItemMeans(item, i)
<1> DEFINE
      lo == Lowest[i]
      hi == Highest[i]
      all == lo .. hi
      One(t) == {n \in all : Means(t, i, n)}
      Value(t) == _cron_value(t, i)
      step == StepOf(item.step)
      from == IF item.from = Asterisk THEN lo ELSE Value(item.from)
      to == IF item.to # None THEN Value(item.to)
            ELSE IF item.from = Asterisk THEN hi ELSE from
      wrong == \/ BadStep(item.step)
               \/ item.from = Asterisk /\ item.to # None
               \/ item.from # Asterisk /\ item.to = None /\ item.step # None
               \/ Undef \in {from, to} \/ from > to
               \/ from < lo \/ to > hi
      first == IF item.from = Asterisk THEN {lo} ELSE One(item.from)
      last == CASE item.from = Asterisk /\ item.to = None -> {hi}
                [] item.from # Asterisk /\ item.to # None -> One(item.to)
                [] item.from # Asterisk /\ item.to = None -> {n \in first : item.step = None}
                [] OTHER -> {}
      meant == {v \in all : \E a \in first, b \in last : a <= v /\ v <= b /\ OnStep(item.step, v - a)}
<1>1. parse_item(item, i) = IF wrong THEN {} ELSE Selected(from, to, step)
  BY DEF parse_item, BadStep, StepOf
<1>2. ItemMeans(item, i) = meant
  BY DEF ItemMeans, OnStep
<1>3. lo \in Nat /\ hi \in Nat /\ lo <= hi
  BY Bounds
<1>4. item.from \in Tokens /\ item.to \in Tokens /\ item.step \in Tokens
  BY DEF WellFormed
<1>5. \A t \in Tokens : Value(t) \in Int /\ One(t) = {v \in all : v = Value(t)}
  BY Named
<1>7. from \in Int /\ to \in Int
  BY <1>3, <1>4, <1>5
<1>8. first = {v \in all : v = from}
  BY <1>3, <1>4, <1>5
<1>9. item.from = Asterisk /\ item.to # None => last = {}
  OBVIOUS
<1>10. item.from # Asterisk /\ item.to = None /\ item.step # None => last = {}
  BY DEF None
<1>11. ~ (item.from = Asterisk /\ item.to # None)
         /\ ~ (item.from # Asterisk /\ item.to = None /\ item.step # None)
         => last = {v \in all : v = to}
  <2>1. CASE item.from = Asterisk /\ item.to = None
    BY <1>3, <2>1
  <2>2. CASE item.from # Asterisk /\ item.to # None
    BY <1>4, <1>5, <2>2
  <2>3. CASE item.from # Asterisk /\ item.to = None
    BY <1>8, <2>3
  <2> QED BY <2>1, <2>2, <2>3
<1>12. ASSUME NEW v \in all, NEW a \in all, a <= v
       PROVE  OnStep(item.step, v - a) <=> ~ BadStep(item.step) /\ (v - a) % step = 0
  <2>1. v - a \in Nat
    BY <1>3, <1>12
  <2> QED BY <2>1, StepsAlike
<1>13. meant = {v \in all : \E a \in first, b \in last : a <= v /\ v <= b /\ OnStep(item.step, v - a)}
  OBVIOUS
<1>14. wrong <=> \/ BadStep(item.step)
                 \/ item.from = Asterisk /\ item.to # None
                 \/ item.from # Asterisk /\ item.to = None /\ item.step # None
                 \/ from = -1 \/ to = -1 \/ from > to \/ from < lo \/ to > hi
  BY DEF Undef
<1>15. ~ BadStep(item.step) => step \in Nat \ {0}
  BY StepsAlike
<1> DEFINE Odd == \/ item.from = Asterisk /\ item.to # None
                  \/ item.from # Asterisk /\ item.to = None /\ item.step # None
<1>16. /\ Odd => last = {}
       /\ ~ Odd => last = {v \in all : v = to}
       /\ wrong <=> \/ BadStep(item.step) \/ Odd
                    \/ from = -1 \/ to = -1 \/ from > to \/ from < lo \/ to > hi
  <2>1. Odd => last = {}
    <3> HIDE DEF last
    <3> QED BY <1>9, <1>10
  <2>2. ~ Odd => last = {v \in all : v = to}
    <3> HIDE DEF last, to, all
    <3> QED BY <1>11
  <2>3. wrong <=> \/ BadStep(item.step) \/ Odd
                  \/ from = -1 \/ to = -1 \/ from > to \/ from < lo \/ to > hi
    <3> HIDE DEF wrong, from, to, lo, hi
    <3> QED BY <1>14
  <2> QED BY <2>1, <2>2, <2>3, Zenon
<1>17. \A v : v \in all <=> v \in Int /\ lo <= v /\ v <= hi
  BY <1>3
<1> HIDE DEF meant, wrong, Odd, from, to, step, first, last, lo, hi, all
<1>18. CASE wrong
  <2> SUFFICES ASSUME NEW v \in meant PROVE FALSE
    BY <1>1, <1>2, <1>18
  <2>1. PICK a \in first, b \in last : a <= v /\ v <= b /\ OnStep(item.step, v - a)
    BY <1>13
  <2>2. a = from /\ a \in all /\ v \in all
    BY <1>8, <1>13
  <2>3. ~ Odd /\ b = to /\ b \in all
    BY <1>16
  <2>4. ~ BadStep(item.step)
    BY <1>12, <2>1, <2>2
  <2>5. ~ (from = -1 \/ to = -1 \/ from > to \/ from < lo \/ to > hi)
    BY <1>3, <1>17, <2>1, <2>2, <2>3
  <2> QED BY <1>16, <1>18, <2>3, <2>4, <2>5
<1>19. CASE ~ wrong
  <2>1. from \in all /\ to \in all /\ from <= to
    BY <1>3, <1>7, <1>16, <1>17, <1>19
  <2>2. first = {from}
    BY <1>8, <2>1
  <2>3. last = {to}
    BY <1>16, <1>19, <2>1
  <2>4. ~ BadStep(item.step) /\ step \in Nat \ {0}
    BY <1>15, <1>16, <1>19
  <2>5. meant = {v \in all : from <= v /\ v <= to /\ OnStep(item.step, v - from)}
    BY <1>13, <2>2, <2>3
  <2>6. meant = InSteps(from, to, step)
    <3>1. \A v \in all : from <= v => (OnStep(item.step, v - from) <=> (v - from) % step = 0)
      BY <1>12, <2>1, <2>4
    <3>2. \A v : v \in from .. to <=> v \in all /\ from <= v /\ v <= to
      BY <1>3, <1>7, <1>17, <2>1
    <3> QED BY <2>5, <3>1, <3>2 DEF InSteps
  <2>7. Selected(from, to, step) = InSteps(from, to, step)
    <3>1. from \in Nat
      BY <1>3, <1>17, <2>1
    <3> QED BY <3>1, <1>7, <2>4, SelectedInSteps
  <2> QED BY <1>1, <1>2, <1>19, <2>6, <2>7
<1> QED BY <1>18, <1>19

\* Five fields of at least one item.
Expressions == [1 .. 5 -> Seq(WellFormed) \ {<<>>}]

\* What the code makes of a field, item by item.
LEMMA FieldExact ==
  ASSUME NEW expr \in Expressions, NEW i \in 1 .. 5
  PROVE  LET wrong == \E k \in DOMAIN expr[i] : ItemMeans(expr[i][k], i) = {}
         IN  /\ Field(expr[i], i) = {} <=> wrong
             /\ ~ wrong => \A v : (i = 5 => v \in 0 .. 6)
                              => (v \in Field(expr[i], i) <=> Selects(expr, i, v))
<1> DEFINE
      items == expr[i]
      D == DOMAIN items
      M(k) == ItemMeans(items[k], i)
      wrong == \E k \in D : M(k) = {}
      values == _parse_cron_field(items, i)
<1>1. items \in Seq(WellFormed) /\ items # <<>>
  BY DEF Expressions
<1>2. 1 \in D
  <2> HIDE DEF items
  <2>1. D = 1 .. Len(items) /\ Len(items) \in Nat /\ Len(items) # 0
    BY <1>1
  <2> QED BY <2>1
<1>3. \A k \in D : items[k] \in WellFormed
  BY <1>1
<1>4. \A k \in D : parse_item(items[k], i) = M(k)
  BY <1>3, ItemExact
<1>5. values = LET sets == {parse_item(items[k], i) : k \in D}
               IN  IF {} \in sets THEN {} ELSE UNION sets
  BY DEF _parse_cron_field
<1>6. Selects(expr, i, 0) <=> \E k \in D : M(k) \cap (IF i = 5 THEN {0, 7} ELSE {0}) # {}
  BY DEF Selects
<1>7. \A v : v # 0 \/ i # 5 => (Selects(expr, i, v) <=> \E k \in D : v \in M(k))
  BY DEF Selects
<1>8. Field(items, i) = IF i = 5 /\ 7 \in values THEN (values \ {7}) \cup {0} ELSE values
  BY DEF Field
<1> HIDE DEF M, D, items, values
<1>9. wrong => values = {}
  BY <1>4, <1>5
<1>10. ~ wrong => values = UNION {M(k) : k \in D} /\ values # {}
  <2> HAVE ~ wrong
  <2>1. {} \notin {parse_item(items[k], i) : k \in D}
    BY <1>4
  <2>2. values = UNION {parse_item(items[k], i) : k \in D}
    BY <1>5, <2>1
  <2>3. UNION {parse_item(items[k], i) : k \in D} = UNION {M(k) : k \in D}
    BY <1>4
  <2> QED BY <1>2, <2>2, <2>3
<1>11. Field(items, i) = {} <=> values = {}
  BY <1>8
<1>12. ASSUME ~ wrong, NEW v, i = 5 => v \in 0 .. 6
       PROVE  v \in Field(items, i) <=> Selects(expr, i, v)
  <2>1. \A w : w \in values <=> \E k \in D : w \in M(k)
    BY <1>10, <1>12
  <2>2. CASE i # 5
    BY <1>7, <1>8, <2>1, <2>2
  <2>3. CASE i = 5 /\ v # 0
    <3>1. v \in Field(items, i) <=> v \in values
      BY <1>8, <1>12, <2>3
    <3> QED BY <1>7, <2>1, <2>3, <3>1
  <2>4. CASE i = 5 /\ v = 0
    <3>1. v \in Field(items, i) <=> 0 \in values \/ 7 \in values
      BY <1>8, <2>4
    <3>2. Selects(expr, i, v) <=> \E k \in D : 0 \in M(k) \/ 7 \in M(k)
      BY <1>6, <2>4
    <3> QED BY <2>1, <3>1, <3>2
  <2> QED BY <2>2, <2>3, <2>4
<1> QED BY <1>9, <1>10, <1>11, <1>12 DEF M, D, items

\* Inductive.
FieldsIInv == spec \in Expressions /\ clock \in Times

\* The asterisk is an item.
LEMMA StarWellFormed == Star \in WellFormed /\ <<Star>> \in Seq(WellFormed) \ {<<>>}
<1>1. Star \in WellFormed
  BY DEF Star, Item, Asterisk, None, Token, WellFormed, Tokens
<1> HIDE DEF Star
<1> QED BY <1>1

\* The invariant holds at the start, every step keeps it, and it implies DueExact.
LEMMA FieldsStart == FieldsInit => FieldsIInv
BY StarWellFormed DEF FieldsInit, FieldsIInv, Expressions

LEMMA FieldsKeep == FieldsIInv /\ [FieldsNext]_fieldVars => FieldsIInv'
<1> SUFFICES ASSUME FieldsIInv, [FieldsNext]_fieldVars PROVE FieldsIInv'
  OBVIOUS
<1>1. CASE Write
  <2> PICK i \in 1 .. 5 : \E item \in Items[i] :
        spec' = [spec EXCEPT ![i] = IF @ = <<Star>> THEN <<item>> ELSE Append(@, item)]
    BY <1>1 DEF Write
  <2>1. PICK item \in Items[i] :
          spec' = [spec EXCEPT ![i] = IF @ = <<Star>> THEN <<item>> ELSE Append(@, item)]
    OBVIOUS
  <2>2. item \in WellFormed
    BY FieldsAssumption DEF WellFormed
  <2>3. ASSUME NEW s \in Seq(WellFormed)
        PROVE  Append(s, item) \in Seq(WellFormed) \ {<<>>}
    <3>1. Append(s, item) \in Seq(WellFormed) /\ Len(Append(s, item)) = Len(s) + 1
      BY <2>2
    <3>2. Len(s) \in Nat /\ Len(<<>>) = 0
      OBVIOUS
    <3>3. Append(s, item) # <<>>
      BY <3>1, <3>2
    <3> QED BY <3>1, <3>3
  <2>4. <<item>> \in Seq(WellFormed) \ {<<>>}
    BY <2>2
  <2> DEFINE n == IF spec[i] = <<Star>> THEN <<item>> ELSE Append(spec[i], item)
  <2>5. spec \in Expressions /\ spec[i] \in Seq(WellFormed)
    BY DEF FieldsIInv, Expressions
  <2>6. n \in Seq(WellFormed) \ {<<>>}
    <3>1. CASE spec[i] = <<Star>>
      BY <2>4, <3>1
    <3>2. CASE spec[i] # <<Star>>
      BY <2>3, <2>5, <3>2
    <3> QED BY <3>1, <3>2
  <2>7. spec' = [spec EXCEPT ![i] = n]
    BY <2>1
  <2> HIDE DEF n
  <2>8. spec' \in Expressions
    BY <2>5, <2>6, <2>7 DEF Expressions
  <2> QED BY <1>1, <2>8 DEF Write, FieldsIInv
<1>2. CASE Tick
  BY <1>2 DEF Tick, FieldsIInv
<1>3. CASE UNCHANGED fieldVars
  BY <1>3 DEF fieldVars, FieldsIInv
<1> QED BY <1>1, <1>2, <1>3 DEF FieldsNext

LEMMA ExactWhen == FieldsIInv => DueExact
<1> SUFFICES ASSUME FieldsIInv PROVE DueExact
  OBVIOUS
<1>1. spec \in Expressions /\ clock[5] \in 0 .. 6
  BY FieldsAssumption DEF FieldsIInv
<1> DEFINE F(i) == Field(spec[i], i)
           S(i) == Selects(spec, i, clock[i])
           Star3 == spec[3] = <<Star>>
           Star5 == spec[5] = <<Star>>
<1>2. (\A i \in 1 .. 5 : F(i) # {}) <=> ~ Malformed(spec)
  BY <1>1, FieldExact DEF Malformed
<1>3. ASSUME ~ Malformed(spec), NEW i \in 1 .. 5
      PROVE  clock[i] \in F(i) <=> S(i)
  BY <1>1, <1>3, FieldExact DEF Malformed
<1>4. Day(spec, clock) <=>
        IF Star3 THEN Star5 \/ clock[5] \in F(5)
        ELSE IF Star5 THEN clock[3] \in F(3) ELSE clock[3] \in F(3) \/ clock[5] \in F(5)
  BY DEF Day
<1>5. (Restricted(spec) # {} => \E i \in Restricted(spec) : S(i)) <=>
        IF Star3 THEN Star5 \/ S(5)
        ELSE IF Star5 THEN S(3) ELSE S(3) \/ S(5)
  BY DEF Restricted
<1>6. _cron_due(spec, clock) <=>
        /\ \A i \in 1 .. 5 : F(i) # {}
        /\ clock[1] \in F(1) /\ clock[2] \in F(2) /\ clock[4] \in F(4)
        /\ Day(spec, clock)
  BY DEF _cron_due
<1>7. (\A i \in {1, 2, 4} : S(i)) <=> S(1) /\ S(2) /\ S(4)
  OBVIOUS
<1>8. DueExact <=>
       (_cron_due(spec, clock) <=>
          /\ ~ Malformed(spec)
          /\ \A i \in {1, 2, 4} : S(i)
          /\ Restricted(spec) # {} => \E i \in Restricted(spec) : S(i))
  BY DEF DueExact
<1> HIDE DEF F, S, Star3, Star5
<1>9. CASE Malformed(spec)
  BY <1>2, <1>6, <1>8, <1>9
<1>10. CASE ~ Malformed(spec)
  <2>1. \A i \in {1, 2, 3, 4, 5} : clock[i] \in F(i) <=> S(i)
    BY <1>3, <1>10
  <2>2. Day(spec, clock) <=> (Restricted(spec) # {} => \E i \in Restricted(spec) : S(i))
    BY <1>4, <1>5, <2>1
  <2>3. clock[1] \in F(1) /\ clock[2] \in F(2) /\ clock[4] \in F(4) <=> S(1) /\ S(2) /\ S(4)
    BY <2>1
  <2> QED BY <1>2, <1>6, <1>7, <1>8, <1>10, <2>2, <2>3
<1> QED BY <1>9, <1>10

\* The minutes an expression names are due, and no others, whatever its items.
THEOREM DueExactAlways == FieldsSpec => []DueExact
<1>1. FieldsIInv => DueExact
  BY ExactWhen
<1> QED BY FieldsStart, FieldsKeep, <1>1, PTL DEF FieldsSpec
=============================================================================
