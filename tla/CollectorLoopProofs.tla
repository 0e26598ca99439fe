------------------------- MODULE CollectorLoopProofs -------------------------
(***************************************************************************)
(* What TLAPS proves about CollectorLoop for any number of managers,       *)
(* loops, workers and kills: its variables keep their types, no loop runs  *)
(* more workers than its policy allows, every orphan is explained, the     *)
(* whole implements WorkerPool; and, until two managers have been at work  *)
(* at once, that no second loop runs and that the pidfile comes and goes   *)
(* within loop.json.                                                       *)
(***************************************************************************)
EXTENDS CollectorLoop, FiniteSetTheorems, TLAPS

(* Type correctness *)

LEMMA TypeInit == Init => TypeOK
<1> SUFFICES ASSUME Init PROVE TypeOK
  OBVIOUS
<1>1. /\ lstate \in LoopStates
      /\ lsnap \in [Loops -> LoopStates]
  BY DEF Init, LoopStates, NoState, Statuses
<1>2. /\ pidfile \in Loops \cup {NoPid}
      /\ lpc \in [Loops -> {"unused", "boot", "dead"} \cup Ticking \cup Stopping]
      /\ term \in [Loops -> BOOLEAN]
      /\ active \in [Loops -> SUBSET Workers]
      /\ spawned \in [Loops -> SUBSET Workers]
  BY DEF Init
<1>3. /\ wpc \in [Workers -> {"unused", "boot", "run", "fail", "dead"}]
      /\ owner \in [Workers -> Loops \cup {NoPid}]
      /\ wsnap \in [Workers -> SUBSET Workers]
  BY DEF Init
<1>4. /\ mpc \in [Managers -> ManagerStates]
      /\ mpid \in [Managers -> Loops \cup {NoPid}]
      /\ msnap \in [Managers -> SUBSET Workers]
  BY DEF Init, ManagerStates
<1>5. /\ loopKills \in 0..MaxLoopKills
      /\ managerKills \in 0..MaxManagerKills
  BY LoopAssumption DEF Init
<1>6. escaped \subseteq Workers /\ overlapped \in BOOLEAN
  BY DEF Init
<1> QED BY <1>1, <1>2, <1>3, <1>4, <1>5, <1>6 DEF TypeOK

LEMMA TypeStart ==
  ASSUME TypeOK, NEW m \in Managers, StartLoop(m)
  PROVE  TypeOK'
<1> USE DEF TypeOK, files, loopVars, workerVars, managerVars, history, Step,
        Returns, Dies, LoopAt, ManagerStates, LoopStates, Statuses, NoState,
        WithStatus, WithWorkers, Ticking, Stopping
<1>1. CASE StartReadPidfile(m)
  BY <1>1 DEF StartReadPidfile, Begins
<1>2. CASE StartFindRunning(m)
  BY <1>2 DEF StartFindRunning
<1>3. CASE StartReadState(m)
  BY <1>3 DEF StartReadState
<1>4. CASE StartCheck(m)
  BY <1>4 DEF StartCheck
<1>5. CASE AdoptLoad(m)
  BY <1>5 DEF AdoptLoad
<1>6. CASE AdoptStore(m)
  BY <1>6 DEF AdoptStore
<1>7. CASE AdoptRepair(m)
  BY <1>7 DEF AdoptRepair
<1>8. CASE StartClean1(m)
  BY <1>8 DEF StartClean1
<1>9. CASE StartClean2(m)
  BY <1>9 DEF StartClean2
<1>10. CASE StartSpawn(m)
  BY <1>10 DEF StartSpawn
<1>11. CASE StartSpawnFails(m)
  BY <1>11 DEF StartSpawnFails
<1>12. CASE InitLoad(m)
  BY <1>12 DEF InitLoad
<1>13. CASE InitStore(m)
  BY <1>13 DEF InitStore
<1>14. CASE InitPidfile(m)
  BY <1>14 DEF InitPidfile
<1> QED
  BY <1>1, <1>2, <1>3, <1>4, <1>5, <1>6, <1>7, <1>8, <1>9, <1>10, <1>11,
     <1>12, <1>13, <1>14 DEF StartLoop

LEMMA TypeStop ==
  ASSUME TypeOK, NEW m \in Managers, StopLoop(m)
  PROVE  TypeOK'
<1> USE DEF TypeOK, files, loopVars, workerVars, managerVars, history, Step,
        Returns, Dies, LoopAt, ManagerStates, LoopStates, Statuses, NoState,
        WithStatus, WithWorkers, Ticking, Stopping
<1>1. CASE StopReadPidfile(m)
  BY <1>1 DEF StopReadPidfile, Begins
<1>2. CASE StopFindRunning(m)
  <2>1. CASE \A l \in Loops : ~Titled(l)
    <3>1. Returns(m, "stopFind") /\ UNCHANGED <<files, loopVars, workerVars, history>>
      BY <1>2, <2>1, LoopAssumption DEF StopFindRunning, FindRunning
    <3> QED BY <3>1
  <2>2. CASE \E l \in Loops : Titled(l)
    <3> PICK l \in Loops : /\ Step(m, "stopFind", "stopLoad")
                           /\ mpid' = [mpid EXCEPT ![m] = l]
                           /\ UNCHANGED <<files, loopVars, workerVars, msnap, history>>
      BY <1>2, <2>2 DEF StopFindRunning
    <3> QED OBVIOUS
  <2> QED BY <2>1, <2>2
<1>3. CASE StopLoad(m)
  BY <1>3 DEF StopLoad
<1>4. CASE StopSignal(m)
  BY <1>4 DEF StopSignal, Recognised, IsManaged, StateConfirms
<1>5. CASE StopKill(m)
  BY <1>5 DEF StopKill, Terminate, WorkersDie, InGroup, LiveWorkers
<1>6. CASE StopSweep(m)
  BY <1>6 DEF StopSweep, Terminate, WorkersDie
<1>7. CASE StopOrphans(m)
  BY <1>7 DEF StopOrphans, Terminate, WorkersDie
<1>8. CASE StopClean1(m)
  BY <1>8 DEF StopClean1
<1>9. CASE StopClean2(m)
  BY <1>9 DEF StopClean2
<1> QED
  BY <1>1, <1>2, <1>3, <1>4, <1>5, <1>6, <1>7, <1>8, <1>9 DEF StopLoop

LEMMA TypeScan ==
  ASSUME TypeOK, NEW m \in Managers, RunningLoops(m)
  PROVE  TypeOK'
<1> USE DEF TypeOK, files, loopVars, workerVars, managerVars, history, Step,
        Returns, Dies, LoopAt, ManagerStates, LoopStates, Statuses, NoState,
        WithStatus, WithWorkers, Ticking, Stopping
<1>1. CASE ScanReadPidfile(m)
  BY <1>1 DEF ScanReadPidfile, Begins
<1>2. CASE ScanLists(m)
  BY <1>2 DEF ScanLists
<1>3. CASE ScanRejects(m)
  BY <1>3 DEF ScanRejects
<1>4. CASE ScanClean1(m)
  BY <1>4 DEF ScanClean1
<1>5. CASE ScanClean2(m)
  BY <1>5 DEF ScanClean2
<1> QED
  BY <1>1, <1>2, <1>3, <1>4, <1>5 DEF RunningLoops

LEMMA TypeLoop ==
  ASSUME TypeOK, NEW l \in Loops, LoopNext(l)
  PROVE  TypeOK'
<1> USE DEF TypeOK, files, loopVars, workerVars, managerVars, history, Step,
        Returns, Dies, LoopAt, ManagerStates, LoopStates, Statuses, NoState,
        WithStatus, WithWorkers, Ticking, Stopping
<1>1. CASE LoopBoot(l)
  BY <1>1 DEF LoopBoot
<1>2. CASE LoopBootFails(l)
  BY <1>2 DEF LoopBootFails
<1>3. CASE LoopReap(l)
  BY <1>3 DEF LoopReap
<1>4. CASE LoopTick(l)
  BY <1>4 DEF LoopTick
<1>5. CASE LoopSkip(l)
  BY <1>5 DEF LoopSkip
<1>6. CASE LoopSpawn(l)
  BY <1>6 DEF LoopSpawn
<1>7. CASE LoopSpawnFails(l)
  BY <1>7 DEF LoopSpawnFails
<1>8. CASE LoopTrack(l)
  BY <1>8 DEF LoopTrack
<1>9. CASE LoopRecord(l)
  BY <1>9 DEF LoopRecord
<1>10. CASE LoopTerm(l)
  BY <1>10 DEF LoopTerm
<1>11. CASE LoopStopWorker(l)
  BY <1>11 DEF LoopStopWorker, Terminate, WorkersDie
<1>12. CASE LoopStopLoad(l)
  BY <1>12 DEF LoopStopLoad
<1>13. CASE LoopStopStore(l)
  BY <1>13 DEF LoopStopStore
<1>14. CASE LoopStopClean1(l)
  BY <1>14 DEF LoopStopClean1
<1>15. CASE LoopStopClean2(l)
  BY <1>15 DEF LoopStopClean2
<1>16. CASE LoopExit(l)
  BY <1>16 DEF LoopExit
<1> QED
  BY <1>1, <1>2, <1>3, <1>4, <1>5, <1>6, <1>7, <1>8, <1>9, <1>10, <1>11,
     <1>12, <1>13, <1>14, <1>15, <1>16 DEF LoopNext

LEMMA TypeWorker ==
  ASSUME TypeOK, NEW w \in Workers, WorkerNext(w)
  PROVE  TypeOK'
<1> USE DEF TypeOK, files, loopVars, workerVars, managerVars, history, Step,
        Returns, Dies, LoopAt, ManagerStates, LoopStates, Statuses, NoState,
        WithStatus, WithWorkers, Ticking, Stopping
<1>1. CASE WorkerBoots(w)
  BY <1>1 DEF WorkerBoots
<1>2. CASE WorkerExits(w)
  BY <1>2 DEF WorkerExits, Terminate, WorkersDie
<1>3. CASE WorkerFails(w)
  BY <1>3 DEF WorkerFails
<1>4. CASE WorkerRecordsError(w)
  BY <1>4 DEF WorkerRecordsError, Terminate, WorkersDie
<1> QED
  BY <1>1, <1>2, <1>3, <1>4 DEF WorkerNext

LEMMA TypeKills ==
  ASSUME TypeOK,
         \/ \E l \in Loops : LoopKilled(l)
         \/ \E m \in Managers : ManagerKilled(m)
  PROVE  TypeOK'
<1> USE DEF TypeOK, files, loopVars, workerVars, managerVars, history, Step,
        Returns, Dies, LoopAt, ManagerStates, LoopStates, Statuses, NoState,
        WithStatus, WithWorkers, Ticking, Stopping
<1>1. CASE \E l \in Loops : LoopKilled(l)
  BY <1>1, LoopAssumption DEF LoopKilled, LiveWorkers
<1>2. CASE \E m \in Managers : ManagerKilled(m)
  BY <1>2, LoopAssumption DEF ManagerKilled
<1> QED
  BY <1>1, <1>2

\* TypeOK is inductive by itself.
THEOREM TypeCorrect == Spec => []TypeOK
<1>1. TypeOK /\ [Next]_vars => TypeOK'
  <2> SUFFICES ASSUME TypeOK, [Next]_vars PROVE TypeOK'
    OBVIOUS
  <2>1. CASE \E m \in Managers : ManagerNext(m)
    BY <2>1, TypeStart, TypeStop, TypeScan DEF ManagerNext
  <2>2. CASE \E l \in Loops : LoopNext(l)
    BY <2>2, TypeLoop
  <2>3. CASE \E w \in Workers : WorkerNext(w)
    BY <2>3, TypeWorker
  <2>4. CASE \/ \E l \in Loops : LoopKilled(l)
             \/ \E m \in Managers : ManagerKilled(m)
    BY <2>4, TypeKills
  <2>5. CASE UNCHANGED vars
    BY <2>5 DEF TypeOK, vars, files, loopVars, workerVars, managerVars, history
  <2> QED
    BY <2>1, <2>2, <2>3, <2>4, <2>5 DEF Next
<1> QED
  BY TypeInit, <1>1, PTL DEF Spec

-----------------------------------------------------------------------------
(* Workers and what their loops know of them *)

\* A manager's step that launches, signals and kills nothing cannot touch the
\* books.
LEMMA AccountedFrame ==
  ASSUME Accounted, UNCHANGED <<lpc, active, spawned, wpc, owner, escaped>>
  PROVE  Accounted'
  BY DEF Accounted, LiveWorkers, WorkerAlive

\* Workers dying only shrinks every pool.
LEMMA DeathShrinks ==
  ASSUME TypeOK, NEW ws, WorkersDie(ws), NEW l \in Loops
  PROVE  /\ LiveWorkers(l)' = LiveWorkers(l) \ ws
         /\ \A w \in Workers :
              WorkerAlive(w)' => WorkerAlive(w) /\ owner'[w] = owner[w]
  BY DEF TypeOK, WorkersDie, LiveWorkers, WorkerAlive

LEMMA AccountedDeath ==
  ASSUME TypeOK, Accounted, NEW ws, WorkersDie(ws),
         UNCHANGED <<lpc, active, spawned, escaped>>
  PROVE  Accounted'
<1>1. \A l \in Loops : LiveWorkers(l)' \subseteq LiveWorkers(l)
  BY DeathShrinks
<1>2. \A w \in Workers : WorkerAlive(w)' => owner'[w] \in Loops
  BY DEF TypeOK, WorkersDie, WorkerAlive, Accounted
<1> QED
  BY <1>1, <1>2 DEF Accounted

\* Steps that leave the workers alone leave the pools alone.
LEMMA PoolsKept ==
  ASSUME UNCHANGED <<wpc, owner>>
  PROVE  /\ \A l : LiveWorkers(l)' = LiveWorkers(l)
         /\ \A w : WorkerAlive(w)' = WorkerAlive(w)
  BY DEF LiveWorkers, WorkerAlive

\* A loop dies: what is left of its pool must have escaped.
LEMMA AccountedLoopDeath ==
  ASSUME TypeOK, Accounted, NEW l,
         lpc' = [lpc EXCEPT ![l] = "dead"],
         active' = [active EXCEPT ![l] = {}],
         spawned' = [spawned EXCEPT ![l] = {}],
         escaped \subseteq escaped',
         \A k \in Loops : LiveWorkers(k)' \subseteq LiveWorkers(k),
         l \in Loops => LiveWorkers(l)' \subseteq escaped',
         \A w \in Workers : WorkerAlive(w)' => owner'[w] \in Loops
  PROVE  Accounted'
<1>1. ASSUME NEW k \in Loops, k # l
      PROVE  lpc'[k] = lpc[k] /\ active'[k] = active[k] /\ spawned'[k] = spawned[k]
  BY <1>1 DEF TypeOK
<1>2. l \in Loops => lpc'[l] = "dead" /\ spawned'[l] = {}
  BY DEF TypeOK
<1> QED
  BY <1>1, <1>2 DEF Accounted, Ticking

LEMMA AccountedManager ==
  ASSUME TypeOK, Accounted, NEW m \in Managers, ManagerNext(m)
  PROVE  Accounted'
<1> USE DEF files, loopVars, workerVars, managerVars, history, Step, Returns
<1>1. CASE StartLoop(m)
  <2>1. CASE StartSpawn(m)
    BY <2>1, PoolsKept DEF StartSpawn, Accounted, TypeOK, Ticking
  <2>2. CASE ~StartSpawn(m)
    BY <1>1, <2>2, AccountedFrame DEF StartLoop, StartReadPidfile,
       StartFindRunning, StartReadState, StartCheck, AdoptLoad, AdoptStore,
       AdoptRepair, StartClean1, StartClean2, StartSpawnFails, InitLoad,
       InitStore, InitPidfile
  <2> QED
    BY <2>1, <2>2
<1>2. CASE StopLoop(m)
  <2>1. CASE StopKill(m)
    <3> PICK l : l = mpid[m]
      OBVIOUS
    <3>1. WorkersDie({w \in InGroup(l) : WorkerAlive(w)})
      BY <2>1 DEF StopKill, Terminate
    <3>2. /\ lpc' = [lpc EXCEPT ![l] = "dead"]
          /\ active' = [active EXCEPT ![l] = {}]
          /\ spawned' = [spawned EXCEPT ![l] = {}]
          /\ escaped' = IF LoopAlive(l)
                        THEN escaped \cup (LiveWorkers(l) \ InGroup(l))
                        ELSE escaped
      BY <2>1 DEF StopKill, Dies
    <3>3. l \in Loops /\ ~LoopAlive(l) => LiveWorkers(l) \subseteq escaped
      BY DEF Accounted, TypeOK, LoopAlive, Ticking, Stopping
    <3>4. l \in Loops => LiveWorkers(l)' \subseteq escaped'
      <4>1. l \in Loops => LiveWorkers(l)' =
              LiveWorkers(l) \ {w \in InGroup(l) : WorkerAlive(w)}
        BY <3>1, DeathShrinks
      <4>2. \A w \in InGroup(l) : WorkerAlive(w)
        BY DEF InGroup, WorkerAlive
      <4> QED
        BY <3>2, <3>3, <4>1, <4>2
    <3>5. \A k \in Loops : LiveWorkers(k)' \subseteq LiveWorkers(k)
      BY <3>1, DeathShrinks
    <3>6. \A w \in Workers : WorkerAlive(w)' => owner'[w] \in Loops
      BY <3>1 DEF Accounted, TypeOK, WorkersDie, WorkerAlive
    <3> QED
      BY <3>2, <3>4, <3>5, <3>6, AccountedLoopDeath
  <2>2. CASE StopSweep(m)
    BY <2>2, AccountedDeath DEF StopSweep, Terminate
  <2>3. CASE StopOrphans(m)
    BY <2>3, AccountedDeath DEF StopOrphans, Terminate
  <2>4. CASE ~StopKill(m) /\ ~StopSweep(m) /\ ~StopOrphans(m)
    BY <1>2, <2>4, AccountedFrame DEF StopLoop, StopReadPidfile,
       StopFindRunning, StopLoad, StopSignal, StopClean1, StopClean2
  <2> QED
    BY <2>1, <2>2, <2>3, <2>4
<1>3. CASE RunningLoops(m)
  BY <1>3, AccountedFrame DEF RunningLoops, ScanReadPidfile, ScanLists,
     ScanRejects, ScanClean1, ScanClean2
<1> QED
  BY <1>1, <1>2, <1>3 DEF ManagerNext

LEMMA AccountedLoop ==
  ASSUME TypeOK, Accounted, NEW l \in Loops, LoopNext(l)
  PROVE  Accounted'
<1> USE DEF files, loopVars, workerVars, managerVars, history, LoopAt, TypeOK,
        Ticking, Stopping
<1>1. CASE LoopBoot(l)
  BY <1>1, PoolsKept DEF LoopBoot, Accounted
<1>2. CASE LoopBootFails(l)
  BY <1>2, PoolsKept DEF LoopBootFails, Accounted, Dies
<1>3. CASE LoopReap(l)
  BY <1>3, PoolsKept DEF LoopReap, Accounted, LiveWorkers
<1>4. CASE LoopTick(l)
  BY <1>4, PoolsKept DEF LoopTick, Accounted
<1>5. CASE LoopSkip(l)
  BY <1>5, PoolsKept DEF LoopSkip, Accounted
<1>6. CASE LoopSpawn(l)
  <2> PICK w \in Workers :
        /\ wpc[w] = "unused"
        /\ lpc[l] = "due"
        /\ lpc' = [lpc EXCEPT ![l] = "track"]
        /\ wpc' = [wpc EXCEPT ![w] = "boot"]
        /\ owner' = [owner EXCEPT ![w] = l]
        /\ spawned' = [spawned EXCEPT ![l] = {w}]
        /\ UNCHANGED <<active, escaped>>
    BY <1>6 DEF LoopSpawn
  <2>1. LiveWorkers(l)' = LiveWorkers(l) \cup {w}
    BY DEF LiveWorkers, WorkerAlive
  <2>2. \A k \in Loops \ {l} : LiveWorkers(k)' = LiveWorkers(k)
    BY DEF LiveWorkers, WorkerAlive
  <2>3. \A v \in Workers : WorkerAlive(v)' => owner'[v] \in Loops
    BY DEF Accounted, WorkerAlive
  <2> QED
    BY <2>1, <2>2, <2>3 DEF Accounted
<1>7. CASE LoopSpawnFails(l)
  BY <1>7, PoolsKept DEF LoopSpawnFails, Accounted
<1>8. CASE LoopTrack(l)
  BY <1>8, PoolsKept DEF LoopTrack, Accounted
<1>9. CASE LoopRecord(l)
  BY <1>9, PoolsKept DEF LoopRecord, Accounted
<1>10. CASE LoopTerm(l)
  BY <1>10, PoolsKept DEF LoopTerm, Accounted, LiveWorkers
<1>11. CASE LoopStopWorker(l)
  <2> PICK w \in active[l] :
        /\ lpc[l] = "stopping"
        /\ WorkersDie({v \in {w} : WorkerAlive(v)})
        /\ active' = [active EXCEPT ![l] = @ \ {w}]
        /\ UNCHANGED <<lpc, spawned, escaped>>
    BY <1>11 DEF LoopStopWorker, Terminate
  <2>1. LiveWorkers(l)' \subseteq LiveWorkers(l) \ {w}
    BY DeathShrinks DEF LiveWorkers
  <2> QED
    BY <2>1, DeathShrinks DEF Accounted
<1>12. CASE LoopStopLoad(l)
  BY <1>12, PoolsKept DEF LoopStopLoad, Accounted
<1>13. CASE LoopStopStore(l)
  BY <1>13, PoolsKept DEF LoopStopStore, Accounted
<1>14. CASE LoopStopClean1(l)
  BY <1>14, PoolsKept DEF LoopStopClean1, Accounted
<1>15. CASE LoopStopClean2(l)
  BY <1>15, PoolsKept DEF LoopStopClean2, Accounted
<1>16. CASE LoopExit(l)
  BY <1>16, PoolsKept DEF LoopExit, Accounted, Dies
<1> QED
  BY <1>1, <1>2, <1>3, <1>4, <1>5, <1>6, <1>7, <1>8, <1>9, <1>10, <1>11,
     <1>12, <1>13, <1>14, <1>15, <1>16 DEF LoopNext

LEMMA AccountedWorker ==
  ASSUME TypeOK, Accounted, NEW w \in Workers, WorkerNext(w)
  PROVE  Accounted'
<1> USE DEF files, loopVars, managerVars, history
<1>1. CASE WorkerBoots(w)
  BY <1>1 DEF WorkerBoots, Accounted, TypeOK, LiveWorkers, WorkerAlive
<1>2. CASE WorkerExits(w)
  BY <1>2, AccountedDeath DEF WorkerExits
<1>3. CASE WorkerFails(w)
  BY <1>3 DEF WorkerFails, Accounted, TypeOK, LiveWorkers, WorkerAlive
<1>4. CASE WorkerRecordsError(w)
  BY <1>4, AccountedDeath DEF WorkerRecordsError
<1> QED
  BY <1>1, <1>2, <1>3, <1>4 DEF WorkerNext

LEMMA AccountedKills ==
  ASSUME TypeOK, Accounted,
         \/ \E l \in Loops : LoopKilled(l)
         \/ \E m \in Managers : ManagerKilled(m)
  PROVE  Accounted'
<1> USE DEF files, loopVars, workerVars, managerVars, history
<1>1. CASE \E l \in Loops : LoopKilled(l)
  <2> PICK l \in Loops : LoopKilled(l)
    BY <1>1
  <2>1. /\ \A k \in Loops : LiveWorkers(k)' = LiveWorkers(k)
        /\ \A w \in Workers : WorkerAlive(w)' = WorkerAlive(w)
        /\ owner' = owner
    BY PoolsKept DEF LoopKilled
  <2> QED
    BY <2>1, AccountedLoopDeath DEF LoopKilled, Dies, Accounted
<1>2. CASE \E m \in Managers : ManagerKilled(m)
  BY <1>2, AccountedFrame DEF ManagerKilled
<1> QED
  BY <1>1, <1>2

\* Whatever the managers, signals and kills, a loop's memory accounts for its
\* live workers.
THEOREM AccountedAlways == Spec => [](TypeOK /\ Accounted)
<1>1. Init => Accounted
  BY DEF Init, Accounted, LiveWorkers, WorkerAlive, Ticking
<1>2. TypeOK /\ Accounted /\ [Next]_vars => Accounted'
  <2> SUFFICES ASSUME TypeOK, Accounted, [Next]_vars PROVE Accounted'
    OBVIOUS
  <2>1. CASE \E m \in Managers : ManagerNext(m)
    BY <2>1, AccountedManager
  <2>2. CASE \E l \in Loops : LoopNext(l)
    BY <2>2, AccountedLoop
  <2>3. CASE \E w \in Workers : WorkerNext(w)
    BY <2>3, AccountedWorker
  <2>4. CASE \/ \E l \in Loops : LoopKilled(l)
             \/ \E m \in Managers : ManagerKilled(m)
    BY <2>4, AccountedKills
  <2>5. CASE UNCHANGED vars
    BY <2>5, AccountedFrame
    DEF vars, files, loopVars, workerVars, managerVars, history
  <2> QED
    BY <2>1, <2>2, <2>3, <2>4, <2>5 DEF Next
<1> QED
  BY <1>1, <1>2, TypeCorrect, PTL DEF Spec

\* An orderly stop leaves no run behind; every orphan escaped (OrphansExplained).
THEOREM OrphansExplainedAlways == Spec => []OrphansExplained
<1>1. TypeOK /\ Accounted => OrphansExplained
  BY DEF TypeOK, Accounted, OrphansExplained, LiveWorkers, LoopAlive, Ticking,
     Stopping
<1> QED
  BY <1>1, AccountedAlways, PTL

-----------------------------------------------------------------------------
(* The worker pool *)

\* A step that launches no worker: runs may end, loops may end, nothing else.
Settles ==
  /\ \A w \in Workers :
       /\ WorkerAlive(w)' => WorkerAlive(w) /\ owner'[w] = owner[w]
       /\ wpc'[w] = "unused" <=> wpc[w] = "unused"
  /\ \A l \in Loops : lpc[l] = "dead" => lpc'[l] = "dead"

LEMMA SettlesDeath ==
  ASSUME TypeOK, NEW ws, WorkersDie(ws), \A w \in ws : wpc[w] # "unused",
         \A l \in Loops : lpc[l] = "dead" => lpc'[l] = "dead"
  PROVE  Settles
  BY DEF TypeOK, WorkersDie, Settles, WorkerAlive

LEMMA SettlesManager ==
  ASSUME TypeOK, NEW m \in Managers, ManagerNext(m)
  PROVE  Settles
<1> USE DEF files, loopVars, workerVars, managerVars, history, Step, Returns,
        TypeOK
<1>1. CASE UNCHANGED <<lpc, wpc, owner>>
  BY <1>1 DEF Settles, WorkerAlive
<1>2. CASE StartSpawn(m)
  BY <1>2 DEF StartSpawn, Settles, WorkerAlive
<1>3. CASE StopKill(m)
  BY <1>3, SettlesDeath DEF StopKill, Terminate, Dies, WorkerAlive
<1>4. CASE StopSweep(m)
  BY <1>4, SettlesDeath DEF StopSweep, Terminate, WorkerAlive
<1>5. CASE StopOrphans(m)
  BY <1>5, SettlesDeath DEF StopOrphans, Terminate, WorkerAlive
<1>6. StartLoop(m) /\ ~StartSpawn(m) => UNCHANGED <<lpc, wpc, owner>>
  BY DEF StartLoop, StartReadPidfile, StartFindRunning, StartReadState,
     StartCheck, AdoptLoad, AdoptStore, AdoptRepair, StartClean1,
     StartClean2, StartSpawnFails, InitLoad, InitStore, InitPidfile
<1>7. StopLoop(m) /\ ~StopKill(m) /\ ~StopSweep(m) /\ ~StopOrphans(m)
        => UNCHANGED <<lpc, wpc, owner>>
  BY DEF StopLoop, StopReadPidfile, StopFindRunning, StopLoad, StopSignal,
     StopClean1, StopClean2
<1>8. RunningLoops(m) => UNCHANGED <<lpc, wpc, owner>>
  BY DEF RunningLoops, ScanReadPidfile, ScanLists, ScanRejects, ScanClean1,
     ScanClean2
<1> QED
  BY <1>1, <1>2, <1>3, <1>4, <1>5, <1>6, <1>7, <1>8 DEF ManagerNext

LEMMA SettlesLoop ==
  ASSUME TypeOK, NEW l \in Loops, LoopNext(l), ~LoopSpawn(l)
  PROVE  Settles
<1> USE DEF files, loopVars, workerVars, managerVars, history, LoopAt, TypeOK
<1>1. CASE LoopStopWorker(l)
  BY <1>1, SettlesDeath DEF LoopStopWorker, Terminate, WorkerAlive
<1>2. CASE ~LoopStopWorker(l)
  <2>1. UNCHANGED <<wpc, owner>>
    BY <1>2 DEF LoopNext, LoopBoot, LoopBootFails, LoopReap, LoopTick,
       LoopSkip, LoopSpawnFails, LoopTrack, LoopRecord, LoopTerm,
       LoopStopLoad, LoopStopStore, LoopStopClean1, LoopStopClean2,
       LoopExit
  <2>2. \A k \in Loops : lpc[k] = "dead" => lpc'[k] = "dead"
    BY <1>2 DEF LoopNext, Dies, Ticking, LoopBoot, LoopBootFails, LoopReap,
       LoopTick, LoopSkip, LoopSpawnFails, LoopTrack, LoopRecord, LoopTerm,
       LoopStopLoad, LoopStopStore, LoopStopClean1, LoopStopClean2,
       LoopExit
  <2> QED
    BY <2>1, <2>2 DEF Settles, WorkerAlive
<1> QED
  BY <1>1, <1>2

LEMMA SettlesRest ==
  ASSUME TypeOK,
         \/ \E w \in Workers : WorkerNext(w)
         \/ \E l \in Loops : LoopKilled(l)
         \/ \E m \in Managers : ManagerKilled(m)
         \/ UNCHANGED vars
  PROVE  Settles
<1> USE DEF files, loopVars, workerVars, managerVars, history, TypeOK
<1>1. CASE \E w \in Workers : WorkerNext(w)
  <2> PICK w \in Workers : WorkerNext(w)
    BY <1>1
  <2>1. CASE WorkerBoots(w) \/ WorkerFails(w)
    BY <2>1 DEF WorkerBoots, WorkerFails, Settles, WorkerAlive
  <2>2. CASE WorkerExits(w) \/ WorkerRecordsError(w)
    BY <2>2, SettlesDeath DEF WorkerExits, WorkerRecordsError
  <2> QED
    BY <2>1, <2>2 DEF WorkerNext
<1>2. CASE \E l \in Loops : LoopKilled(l)
  BY <1>2 DEF LoopKilled, Dies, Settles, WorkerAlive
<1>3. CASE \E m \in Managers : ManagerKilled(m)
  BY <1>3 DEF ManagerKilled, Settles, WorkerAlive
<1>4. CASE UNCHANGED vars
  BY <1>4 DEF vars, Settles, WorkerAlive
<1> QED
  BY <1>1, <1>2, <1>3, <1>4

\* Every step settles or is one launch, made below the limit and by a loop
\* that is alive.
LEMMA StepOfPool ==
  ASSUME TypeOK, [Next]_vars
  PROVE  Settles \/ \E l \in Loops : LoopSpawn(l)
  BY SettlesManager, SettlesLoop, SettlesRest DEF Next

\* What a launch does to the pools.
LEMMA LaunchStep ==
  ASSUME TypeOK, Accounted, NEW l \in Loops, LoopSpawn(l)
  PROVE  \E w \in Workers :
           /\ lpc[l] = "due"
           /\ lpc' = [lpc EXCEPT ![l] = "track"]
           /\ wpc[w] = "unused"
           /\ wpc' = [wpc EXCEPT ![w] = "boot"]
           /\ w \notin LiveWorkers(l)
           /\ LiveWorkers(l)' = LiveWorkers(l) \cup {w}
           /\ \A k \in Loops : k # l => LiveWorkers(k)' = LiveWorkers(k)
           /\ Cardinality(LiveWorkers(l)) < MaxParallel
<1>1. PICK w \in Workers :
        /\ wpc[w] = "unused"
        /\ lpc[l] = "due"
        /\ Cardinality(active[l]) < MaxParallel
        /\ lpc' = [lpc EXCEPT ![l] = "track"]
        /\ wpc' = [wpc EXCEPT ![w] = "boot"]
        /\ owner' = [owner EXCEPT ![w] = l]
  BY DEF LoopSpawn, LoopAt
<1>2. LiveWorkers(l) \subseteq active[l]
  BY <1>1 DEF Accounted, Ticking
<1>3. IsFiniteSet(active[l]) /\ IsFiniteSet(LiveWorkers(l))
  BY <1>2, LoopAssumption, FS_Subset DEF TypeOK
<1>4. Cardinality(LiveWorkers(l)) < MaxParallel
  BY <1>1, <1>2, <1>3, FS_Subset, FS_CardinalityType, LoopAssumption
<1>5. w \notin LiveWorkers(l) /\ LiveWorkers(l)' = LiveWorkers(l) \cup {w}
  BY <1>1 DEF TypeOK, LiveWorkers, WorkerAlive
<1>6. \A k \in Loops : k # l => LiveWorkers(k)' = LiveWorkers(k)
  BY <1>1 DEF TypeOK, LiveWorkers, WorkerAlive
<1> QED
  BY <1>1, <1>4, <1>5, <1>6

LEMMA PoolFinite ==
  ASSUME NEW l
  PROVE  IsFiniteSet(LiveWorkers(l)) /\ Cardinality(LiveWorkers(l)) \in Nat
  BY LoopAssumption, FS_Subset, FS_CardinalityType DEF LiveWorkers

\* singleton and multiple: a loop never exceeds its policy (ParallelBound).
THEOREM ParallelBoundAlways == Spec => []ParallelBound
<1>1. Init => ParallelBound
  <2> SUFFICES ASSUME Init, NEW l \in Loops
               PROVE  Cardinality(LiveWorkers(l)) <= MaxParallel
    BY DEF ParallelBound
  <2>1. LiveWorkers(l) = {}
    BY DEF Init, LiveWorkers, WorkerAlive
  <2> QED
    BY <2>1, FS_EmptySet, LoopAssumption
<1>2. TypeOK /\ Accounted /\ ParallelBound /\ [Next]_vars => ParallelBound'
  <2> SUFFICES ASSUME TypeOK, Accounted, ParallelBound, [Next]_vars,
                      NEW k \in Loops
               PROVE  Cardinality(LiveWorkers(k)') <= MaxParallel
    BY DEF ParallelBound
  <2>1. Cardinality(LiveWorkers(k)) <= MaxParallel
    BY DEF ParallelBound
  <2>2. CASE Settles
    <3>1. LiveWorkers(k)' \subseteq LiveWorkers(k)
      BY <2>2 DEF Settles, LiveWorkers
    <3> QED
      BY <2>1, <3>1, PoolFinite, FS_Subset, FS_CardinalityType, LoopAssumption
  <2>3. CASE \E l \in Loops : LoopSpawn(l)
    <3>1. PICK l \in Loops : LoopSpawn(l)
      BY <2>3
    <3>2. PICK w \in Workers :
            /\ w \notin LiveWorkers(l)
            /\ LiveWorkers(l)' = LiveWorkers(l) \cup {w}
            /\ \A j \in Loops : j # l => LiveWorkers(j)' = LiveWorkers(j)
            /\ Cardinality(LiveWorkers(l)) < MaxParallel
      BY <3>1, LaunchStep
    <3>3. CASE k = l
      <4>1. Cardinality(LiveWorkers(l) \cup {w}) = Cardinality(LiveWorkers(l)) + 1
        BY <3>2, PoolFinite, FS_AddElement
      <4> QED
        BY <3>2, <3>3, <4>1, PoolFinite, LoopAssumption
    <3>4. CASE k # l
      BY <2>1, <3>2, <3>4
    <3> QED
      BY <3>3, <3>4
  <2> QED
    BY <2>2, <2>3, StepOfPool
<1> QED
  BY <1>1, <1>2, AccountedAlways, PTL DEF Spec

\* Managers, files, signals and crashes implement WorkerPool (ImplementsPool).
THEOREM PoolRefinement == Spec => ImplementsPool
<1>1. Init => Pool!Init
  BY DEF Init, Pool!Init, LiveWorkers, WorkerAlive
<1>2. TypeOK /\ Accounted /\ [Next]_vars => [Pool!Next]_Pool!vars
  <2> SUFFICES ASSUME TypeOK, Accounted, [Next]_vars PROVE Pool!Next
    OBVIOUS
  <2>1. CASE Settles
    <3> DEFINE kept == {w \in Workers : WorkerAlive(w)'}
               ended == {l \in Loops : lpc'[l] = "dead"}
    <3>1. kept \subseteq {w \in Workers : wpc[w] # "unused"}
      BY <2>1 DEF Settles, WorkerAlive
    <3>2. \A l \in Loops : LiveWorkers(l)' = LiveWorkers(l) \cap kept
      BY <2>1 DEF Settles, LiveWorkers
    <3>3. {l \in Loops : lpc'[l] = "dead"} =
            {l \in Loops : lpc[l] = "dead"} \cup ended
      BY <2>1 DEF Settles
    <3>4. {w \in Workers : wpc'[w] # "unused"} =
            {w \in Workers : wpc[w] # "unused"}
      BY <2>1 DEF Settles
    <3>5. ended \in SUBSET Loops
      OBVIOUS
    <3>6. [l \in Loops |-> LiveWorkers(l)]' =
            [l \in Loops |-> [k \in Loops |-> LiveWorkers(k)][l] \cap kept]
      BY <3>2
    <3> HIDE DEF kept, ended
    <3> QED
      BY <3>1, <3>3, <3>4, <3>5, <3>6 DEF Pool!Next, Pool!Settle
  <2>2. CASE \E l \in Loops : LoopSpawn(l)
    <3>1. PICK l \in Loops : LoopSpawn(l)
      BY <2>2
    <3>2. PICK w \in Workers :
            /\ lpc[l] = "due"
            /\ lpc' = [lpc EXCEPT ![l] = "track"]
            /\ wpc[w] = "unused"
            /\ wpc' = [wpc EXCEPT ![w] = "boot"]
            /\ LiveWorkers(l)' = LiveWorkers(l) \cup {w}
            /\ \A k \in Loops : k # l => LiveWorkers(k)' = LiveWorkers(k)
            /\ Cardinality(LiveWorkers(l)) < MaxParallel
      BY <3>1, LaunchStep
    <3>3. {k \in Loops : lpc'[k] = "dead"} = {k \in Loops : lpc[k] = "dead"}
      BY <3>2 DEF TypeOK
    <3>4. {v \in Workers : wpc'[v] # "unused"} =
            {v \in Workers : wpc[v] # "unused"} \cup {w}
      BY <3>2 DEF TypeOK
    <3>5. [k \in Loops |-> LiveWorkers(k)]' =
            [[k \in Loops |-> LiveWorkers(k)] EXCEPT ![l] = @ \cup {w}]
      BY <3>2
    <3>6. Cardinality([k \in Loops |-> LiveWorkers(k)][l]) < MaxParallel
      BY <3>2
    <3>7. /\ l \notin {k \in Loops : lpc[k] = "dead"}
          /\ w \notin {v \in Workers : wpc[v] # "unused"}
      BY <3>2
    <3>8. Pool!Launch(l, w)
      <4>1. UNCHANGED {k \in Loops : lpc[k] = "dead"}
        BY <3>3
      <4>2. {v \in Workers : wpc[v] # "unused"}' =
              {v \in Workers : wpc[v] # "unused"} \cup {w}
        BY <3>4
      <4> HIDE <3>2
      <4> QED
        BY <4>1, <4>2, <3>5, <3>6, <3>7, Zenon
        DEF Pool!Launch, Pool!Cardinality, Cardinality
    <3> QED
      BY <3>8 DEF Pool!Next
  <2> QED
    BY <2>1, <2>2, StepOfPool
<1> QED
  BY <1>1, <1>2, AccountedAlways, PTL DEF Spec, ImplementsPool, Pool!Spec

-----------------------------------------------------------------------------
(* One manager at a time: the files agree with the process table *)

\* Nobody else starts, stops or lists the loops of this collector.
Alone(m) == \A n \in Managers \ {m} : mpc[n] = "idle"
TakeTurns == \A m \in Managers : mpc[m] # "idle" => Alone(m)

InTurns == ~overlapped => TakeTurns

\* A loop that a stop signal has reached has the manager waiting for it.
SignalHeld ==
  \A l \in Loops : term[l] \/ lpc[l] \in Stopping =>
    \E m \in Managers : mpc[m] = "stopWait" /\ mpid[m] = l

\* Who is about to unlink loop.json has unlinked the pidfile, and who is about
\* to write the pidfile has written loop.json.
FileOrder ==
  /\ \A l \in Loops : lpc[l] \in {"stop3", "stop4"} => pidfile = NoPid
  /\ \A l \in Loops : lpc[l] = "record" => lsnap[l].exists
  /\ \A m \in Managers :
       mpc[m] \in {"startClean2", "stopClean2", "scanClean2"} => pidfile = NoPid
  /\ \A m \in Managers : mpc[m] \in {"adoptRepair", "initPidfile"} => lstate.exists
  /\ pidfile # NoPid => lstate.exists

Unkilled == ~overlapped /\ managerKills = 0 => SignalHeld /\ FileOrder

\* The manager has launched a loop and not yet written its pidfile.
Launching == {"initLoad", "initStore", "initPidfile"}
\* Its operation is about a loop that may be alive.
Concerned == Launching \cup {"startCheck", "adoptLoad", "adoptStore",
               "adoptRepair", "stopLoad", "stopCheck", "stopWait", "scanCheck"}
\* It has found no pidfile, or has removed it.
Unfiled == Launching \cup {"startFind", "startState", "startClean2",
             "startSpawn", "stopFind", "stopClean2", "scanClean2"}

NoneAt(places) == \A m \in Managers : mpc[m] \notin places
Names(s, l) == s.pid = l /\ s.status # "stopped"

\* A loop that is alive is the only one and what the manager's operation is
\* about; the pidfile names it from the end of its launch to the end of its
\* shutdown, and so does loop.json from the launch or the first tick on.
Sole(l) ==
  /\ \A k \in Loops : LoopAlive(k) => k = l
  /\ \A m \in Managers : mpc[m] # "idle" => mpc[m] \in Concerned /\ mpid[m] = l
  /\ NoneAt(Launching) /\ lpc[l] \notin {"stop3", "stop4"} => pidfile = l
  /\ lpc[l] \in {"due", "track", "record"} => Names(lstate, l)
  /\ lpc[l] \in {"boot", "up"} /\ NoneAt({"initLoad", "initStore"}) => Names(lstate, l)
  /\ lpc[l] = "record" => Names(lsnap[l], l)

Agreement ==
  /\ \A m \in Managers : mpc[m] \in Unfiled => pidfile = NoPid
  /\ \A l \in Loops : LoopAlive(l) => Sole(l)

Agreed == Undisturbed => Agreement

\* start_loop, operation by operation.
LEMMA OrderStart ==
  ASSUME NEW m \in Managers, Alone(m), TypeOK, SignalHeld, FileOrder,
         StartLoop(m)
  PROVE  SignalHeld' /\ FileOrder'
<1> USE DEF TakeTurns, Alone, SignalHeld, FileOrder, TypeOK, files, loopVars,
        workerVars, managerVars, history, Step, Returns, Dies, LoopAt, LoopStates,
        NoState, WithStatus, WithWorkers, Ticking, Stopping
<1>1. CASE StartReadPidfile(m)
  BY <1>1 DEF StartReadPidfile, Begins
<1>2. CASE StartFindRunning(m)
  BY <1>2 DEF StartFindRunning
<1>3. CASE StartReadState(m)
  BY <1>3 DEF StartReadState
<1>4. CASE StartCheck(m)
  BY <1>4 DEF StartCheck
<1>5. CASE AdoptLoad(m)
  BY <1>5 DEF AdoptLoad
<1>6. CASE AdoptStore(m)
  BY <1>6 DEF AdoptStore
<1>7. CASE AdoptRepair(m)
  BY <1>7 DEF AdoptRepair
<1>8. CASE StartClean1(m)
  BY <1>8 DEF StartClean1
<1>9. CASE StartClean2(m)
  BY <1>9 DEF StartClean2
<1>10. CASE StartSpawn(m)
  BY <1>10 DEF StartSpawn
<1>11. CASE StartSpawnFails(m)
  BY <1>11 DEF StartSpawnFails
<1>12. CASE InitLoad(m)
  BY <1>12 DEF InitLoad
<1>13. CASE InitStore(m)
  BY <1>13 DEF InitStore
<1>14. CASE InitPidfile(m)
  BY <1>14 DEF InitPidfile
<1> QED
  BY <1>1, <1>2, <1>3, <1>4, <1>5, <1>6, <1>7, <1>8, <1>9, <1>10, <1>11, <1>12, <1>13,
     <1>14 DEF StartLoop

\* stop_loop: the signal, the wait for the loop and the unlinks.
LEMMA OrderStop ==
  ASSUME NEW m \in Managers, Alone(m), TypeOK, SignalHeld, FileOrder,
         StopLoop(m)
  PROVE  SignalHeld' /\ FileOrder'
<1> USE DEF TakeTurns, Alone, SignalHeld, FileOrder, TypeOK, files, loopVars,
        workerVars, managerVars, history, Step, Returns, Dies, LoopAt, LoopStates,
        NoState, WithStatus, WithWorkers, Ticking, Stopping
<1>1. CASE StopReadPidfile(m)
  BY <1>1 DEF StopReadPidfile, Begins
<1>2. CASE StopFindRunning(m)
  BY <1>2 DEF StopFindRunning
<1>3. CASE StopLoad(m)
  BY <1>3 DEF StopLoad
<1>4. CASE StopSignal(m)
  BY <1>4 DEF StopSignal, Recognised, IsManaged, StateConfirms, Titled, LoopAlive
<1>5. CASE StopKill(m)
  BY <1>5 DEF StopKill
<1>6. CASE StopSweep(m)
  BY <1>6 DEF StopSweep
<1>7. CASE StopOrphans(m)
  BY <1>7 DEF StopOrphans
<1>8. CASE StopClean1(m)
  BY <1>8 DEF StopClean1
<1>9. CASE StopClean2(m)
  BY <1>9 DEF StopClean2
<1> QED
  BY <1>1, <1>2, <1>3, <1>4, <1>5, <1>6, <1>7, <1>8, <1>9 DEF StopLoop

LEMMA OrderScan ==
  ASSUME NEW m \in Managers, Alone(m), TypeOK, SignalHeld, FileOrder,
         RunningLoops(m)
  PROVE  SignalHeld' /\ FileOrder'
<1> USE DEF TakeTurns, Alone, SignalHeld, FileOrder, TypeOK, files, loopVars,
        workerVars, managerVars, history, Step, Returns, Dies, LoopAt, LoopStates,
        NoState, WithStatus, WithWorkers, Ticking, Stopping
<1>1. CASE ScanReadPidfile(m)
  BY <1>1 DEF ScanReadPidfile, Begins
<1>2. CASE ScanLists(m)
  BY <1>2 DEF ScanLists
<1>3. CASE ScanRejects(m)
  BY <1>3 DEF ScanRejects
<1>4. CASE ScanClean1(m)
  BY <1>4 DEF ScanClean1
<1>5. CASE ScanClean2(m)
  BY <1>5 DEF ScanClean2
<1> QED
  BY <1>1, <1>2, <1>3, <1>4, <1>5 DEF RunningLoops

\* The loop unlinks its files only while the manager waits for it.
LEMMA OrderLoop ==
  ASSUME TakeTurns, TypeOK, SignalHeld, FileOrder,
         NEW l \in Loops, LoopNext(l)
  PROVE  SignalHeld' /\ FileOrder'
<1> USE DEF TakeTurns, Alone, SignalHeld, FileOrder, TypeOK, files, loopVars,
        workerVars, managerVars, history, Step, Returns, Dies, LoopAt, LoopStates,
        NoState, WithStatus, WithWorkers, Ticking, Stopping
<1>1. CASE LoopBoot(l)
  BY <1>1 DEF LoopBoot
<1>2. CASE LoopBootFails(l)
  BY <1>2 DEF LoopBootFails
<1>3. CASE LoopReap(l)
  BY <1>3 DEF LoopReap
<1>4. CASE LoopTick(l)
  BY <1>4 DEF LoopTick
<1>5. CASE LoopSkip(l)
  BY <1>5 DEF LoopSkip
<1>6. CASE LoopSpawn(l)
  BY <1>6 DEF LoopSpawn
<1>7. CASE LoopSpawnFails(l)
  BY <1>7 DEF LoopSpawnFails
<1>8. CASE LoopTrack(l)
  BY <1>8 DEF LoopTrack
<1>9. CASE LoopRecord(l)
  BY <1>9 DEF LoopRecord
<1>10. CASE LoopTerm(l)
  BY <1>10 DEF LoopTerm
<1>11. CASE LoopStopWorker(l)
  BY <1>11 DEF LoopStopWorker
<1>12. CASE LoopStopLoad(l)
  BY <1>12 DEF LoopStopLoad
<1>13. CASE LoopStopStore(l)
  BY <1>13 DEF LoopStopStore
<1>14. CASE LoopStopClean1(l)
  BY <1>14 DEF LoopStopClean1
<1>15. CASE LoopStopClean2(l)
  BY <1>15 DEF LoopStopClean2
<1>16. CASE LoopExit(l)
  BY <1>16 DEF LoopExit
<1> QED
  BY <1>1, <1>2, <1>3, <1>4, <1>5, <1>6, <1>7, <1>8, <1>9, <1>10, <1>11, <1>12, <1>13,
     <1>14, <1>15, <1>16 DEF LoopNext

\* start_loop adopts the loop that is alive, or there is none to adopt.
LEMMA AgreementStart ==
  ASSUME NEW m \in Managers, Alone(m), TypeOK, SignalHeld, FileOrder, Agreement,
         StartLoop(m)
  PROVE  Agreement'
<1> USE DEF TakeTurns, Alone, SignalHeld, FileOrder, Agreement, Sole, NoneAt,
        Names, Launching, Concerned, Unfiled, LoopAlive, TypeOK, files, loopVars,
        workerVars, managerVars, history, Step, Returns, Dies, LoopAt, LoopStates,
        NoState, WithStatus, WithWorkers, Ticking, Stopping
<1>1. CASE StartReadPidfile(m)
  <2>1. \A n \in Managers : mpc[n] = "idle"
    BY <1>1 DEF StartReadPidfile
  <2>2. \A l \in Loops : LoopAlive(l) => pidfile = l /\ lpc[l] \notin Stopping
    BY <2>1
  <2>3. /\ \A n \in Managers \ {m} : mpc'[n] = "idle"
        /\ mpc'[m] = IF pidfile # NoPid THEN "startCheck" ELSE "startFind"
        /\ mpid'[m] = pidfile
        /\ UNCHANGED <<files, loopVars>>
    BY <1>1, <2>1 DEF StartReadPidfile
  <2>4. \A n \in Managers : mpc'[n] \in Unfiled => pidfile' = NoPid
    BY <2>3
  <2>5. \A l \in Loops : LoopAlive(l)' => Sole(l)'
    BY <2>1, <2>2, <2>3, LoopAssumption
  <2> QED BY <2>4, <2>5
<1>2. CASE StartFindRunning(m)
  BY <1>2 DEF StartFindRunning, FindRunning, Titled
<1>3. CASE StartReadState(m)
  BY <1>3 DEF StartReadState, Recognised, IsManaged, StateConfirms, Titled
<1>4. CASE StartCheck(m)
  BY <1>4 DEF StartCheck, Recognised, IsManaged, StateConfirms, Titled
<1>5. CASE AdoptLoad(m)
  BY <1>5 DEF AdoptLoad
<1>6. CASE AdoptStore(m)
  BY <1>6 DEF AdoptStore
<1>7. CASE AdoptRepair(m)
  BY <1>7 DEF AdoptRepair
<1>8. CASE StartClean1(m)
  BY <1>8 DEF StartClean1
<1>9. CASE StartClean2(m)
  BY <1>9 DEF StartClean2
<1>10. CASE StartSpawn(m)
  <2>1. PICK k \in Loops :
          /\ lpc[k] = "unused" /\ lpc' = [lpc EXCEPT ![k] = "boot"]
          /\ mpc[m] = "startSpawn" /\ mpc' = [mpc EXCEPT ![m] = "initLoad"]
          /\ mpid' = [mpid EXCEPT ![m] = k]
          /\ pidfile' = pidfile
    BY <1>10 DEF StartSpawn
  <2>2. \A l \in Loops : ~LoopAlive(l)
    BY <2>1
  <2>3. pidfile' = NoPid
    BY <2>1
  <2>4. \A l \in Loops : LoopAlive(l)' => l = k
    BY <2>1, <2>2
  <2>5. mpc'[m] = "initLoad" /\ mpid'[m] = k /\ lpc'[k] = "boot"
    BY <2>1
  <2>6. \A n \in Managers \ {m} : mpc'[n] = "idle"
    BY <2>1
  <2>7. \A l \in Loops : LoopAlive(l)' => Sole(l)'
    <3> SUFFICES Sole(k)'
      BY <2>4
    <3>1. /\ \A n \in Managers : mpc'[n] # "idle" =>
                                  mpc'[n] \in Concerned /\ mpid'[n] = k
          /\ ~NoneAt(Launching)'
          /\ ~NoneAt({"initLoad", "initStore"})'
      BY <2>5, <2>6
    <3> QED BY <2>4, <2>5, <3>1
  <2> QED BY <2>3, <2>7
<1>11. CASE StartSpawnFails(m)
  BY <1>11 DEF StartSpawnFails
<1>12. CASE InitLoad(m)
  BY <1>12 DEF InitLoad
<1>13. CASE InitStore(m)
  BY <1>13 DEF InitStore
<1>14. CASE InitPidfile(m)
  BY <1>14 DEF InitPidfile
<1> QED
  BY <1>1, <1>2, <1>3, <1>4, <1>5, <1>6, <1>7, <1>8, <1>9, <1>10, <1>11, <1>12, <1>13,
     <1>14 DEF StartLoop

\* stop_loop takes its "dead or not ours" branch for a loop that is dead.
LEMMA AgreementStop ==
  ASSUME NEW m \in Managers, Alone(m), TypeOK, SignalHeld, FileOrder, Agreement,
         StopLoop(m)
  PROVE  Agreement'
<1> USE DEF TakeTurns, Alone, SignalHeld, FileOrder, Agreement, Sole, NoneAt,
        Names, Launching, Concerned, Unfiled, LoopAlive, TypeOK, files, loopVars,
        workerVars, managerVars, history, Step, Returns, Dies, LoopAt, LoopStates,
        NoState, WithStatus, WithWorkers, Ticking, Stopping
<1>1. CASE StopReadPidfile(m)
  <2>1. \A n \in Managers : mpc[n] = "idle"
    BY <1>1 DEF StopReadPidfile
  <2>2. \A l \in Loops : LoopAlive(l) => pidfile = l /\ lpc[l] \notin Stopping
    BY <2>1
  <2>3. /\ \A n \in Managers \ {m} : mpc'[n] = "idle"
        /\ mpc'[m] = IF pidfile # NoPid THEN "stopLoad" ELSE "stopFind"
        /\ mpid'[m] = pidfile
        /\ UNCHANGED <<files, loopVars>>
    BY <1>1, <2>1 DEF StopReadPidfile
  <2>4. \A n \in Managers : mpc'[n] \in Unfiled => pidfile' = NoPid
    BY <2>3
  <2>5. \A l \in Loops : LoopAlive(l)' => Sole(l)'
    BY <2>1, <2>2, <2>3, LoopAssumption
  <2> QED BY <2>4, <2>5
<1>2. CASE StopFindRunning(m)
  BY <1>2 DEF StopFindRunning, FindRunning, Titled
<1>3. CASE StopLoad(m)
  BY <1>3 DEF StopLoad
<1>4. CASE StopSignal(m)
  BY <1>4 DEF StopSignal, Recognised, IsManaged, StateConfirms, Titled
<1>5. CASE StopKill(m)
  BY <1>5 DEF StopKill
<1>6. CASE StopSweep(m)
  BY <1>6 DEF StopSweep
<1>7. CASE StopOrphans(m)
  BY <1>7 DEF StopOrphans, Recognised, IsManaged, StateConfirms, Titled
<1>8. CASE StopClean1(m)
  BY <1>8 DEF StopClean1
<1>9. CASE StopClean2(m)
  BY <1>9 DEF StopClean2
<1> QED
  BY <1>1, <1>2, <1>3, <1>4, <1>5, <1>6, <1>7, <1>8, <1>9 DEF StopLoop

LEMMA AgreementScan ==
  ASSUME NEW m \in Managers, Alone(m), TypeOK, SignalHeld, FileOrder, Agreement,
         RunningLoops(m)
  PROVE  Agreement'
<1> USE DEF TakeTurns, Alone, SignalHeld, FileOrder, Agreement, Sole, NoneAt,
        Names, Launching, Concerned, Unfiled, LoopAlive, TypeOK, files, loopVars,
        workerVars, managerVars, history, Step, Returns, Dies, LoopAt, LoopStates,
        NoState, WithStatus, WithWorkers, Ticking, Stopping
<1>1. CASE ScanReadPidfile(m)
  BY <1>1 DEF ScanReadPidfile, Begins
<1>2. CASE ScanLists(m)
  BY <1>2 DEF ScanLists, Recognised, IsManaged, StateConfirms, Titled
<1>3. CASE ScanRejects(m)
  BY <1>3 DEF ScanRejects, Recognised, IsManaged, StateConfirms, Titled
<1>4. CASE ScanClean1(m)
  BY <1>4 DEF ScanClean1
<1>5. CASE ScanClean2(m)
  BY <1>5 DEF ScanClean2
<1> QED
  BY <1>1, <1>2, <1>3, <1>4, <1>5 DEF RunningLoops

\* The loop names itself in loop.json whenever it writes it.
LEMMA AgreementLoop ==
  ASSUME TakeTurns, TypeOK, SignalHeld, FileOrder, Agreement,
         NEW l \in Loops, LoopNext(l)
  PROVE  Agreement'
<1> USE DEF TakeTurns, Alone, SignalHeld, FileOrder, Agreement, Sole, NoneAt,
        Names, Launching, Concerned, Unfiled, LoopAlive, TypeOK, files, loopVars,
        workerVars, managerVars, history, Step, Returns, Dies, LoopAt, LoopStates,
        NoState, WithStatus, WithWorkers, Ticking, Stopping
<1>1. CASE LoopBoot(l)
  BY <1>1 DEF LoopBoot
<1>2. CASE LoopBootFails(l)
  BY <1>2 DEF LoopBootFails
<1>3. CASE LoopReap(l)
  BY <1>3 DEF LoopReap
<1>4. CASE LoopTick(l)
  BY <1>4 DEF LoopTick
<1>5. CASE LoopSkip(l)
  BY <1>5 DEF LoopSkip
<1>6. CASE LoopSpawn(l)
  BY <1>6 DEF LoopSpawn
<1>7. CASE LoopSpawnFails(l)
  BY <1>7 DEF LoopSpawnFails
<1>8. CASE LoopTrack(l)
  BY <1>8 DEF LoopTrack
<1>9. CASE LoopRecord(l)
  BY <1>9 DEF LoopRecord
<1>10. CASE LoopTerm(l)
  BY <1>10 DEF LoopTerm
<1>11. CASE LoopStopWorker(l)
  BY <1>11 DEF LoopStopWorker
<1>12. CASE LoopStopLoad(l)
  BY <1>12 DEF LoopStopLoad
<1>13. CASE LoopStopStore(l)
  BY <1>13 DEF LoopStopStore
<1>14. CASE LoopStopClean1(l)
  BY <1>14 DEF LoopStopClean1
<1>15. CASE LoopStopClean2(l)
  BY <1>15 DEF LoopStopClean2
<1>16. CASE LoopExit(l)
  BY <1>16 DEF LoopExit
<1> QED
  BY <1>1, <1>2, <1>3, <1>4, <1>5, <1>6, <1>7, <1>8, <1>9, <1>10, <1>11, <1>12, <1>13,
     <1>14, <1>15, <1>16 DEF LoopNext


\* Workers and kills: only a worker's error record touches a file.
LEMMA OrderOthers ==
  ASSUME TypeOK, SignalHeld, FileOrder,
         \/ \E w \in Workers : WorkerNext(w)
         \/ \E l \in Loops : LoopKilled(l)
         \/ UNCHANGED vars
  PROVE  SignalHeld' /\ FileOrder'
<1> USE DEF SignalHeld, FileOrder, TypeOK, vars, files, loopVars, workerVars,
        managerVars, history, LoopStates, Stopping
<1>1. CASE \E w \in Workers : WorkerNext(w)
  BY <1>1 DEF WorkerNext, WorkerBoots, WorkerExits, WorkerFails, WorkerRecordsError,
     WithStatus
<1>2. CASE \E l \in Loops : LoopKilled(l)
  <2> PICK l \in Loops : LoopKilled(l)
    BY <1>2
  <2>1. /\ UNCHANGED <<files, managerVars>>
        /\ \A k \in Loops : \/ lpc'[k] = "dead" /\ ~term'[k]
                            \/ UNCHANGED <<lpc[k], term[k], lsnap[k]>>
    BY DEF LoopKilled, Dies
  <2> QED BY <2>1
<1>3. CASE UNCHANGED vars
  BY <1>3
<1> QED BY <1>1, <1>2, <1>3

\* A manager that is killed counts, and the count never goes down.
LEMMA KillsCounted ==
  ASSUME TypeOK, [Next]_vars, managerKills' = 0
  PROVE  managerKills = 0 /\ \A m \in Managers : ~ManagerKilled(m)
<1> USE DEF TypeOK, vars, history
<1>1. \A m \in Managers : ManagerKilled(m) => managerKills' # 0
  BY LoopAssumption DEF ManagerKilled
<1>2. \A m \in Managers : ManagerNext(m) => managerKills' = managerKills
  BY DEF ManagerNext, StartLoop, StopLoop, RunningLoops, StartReadPidfile,
     StartFindRunning, StartReadState, StartCheck, AdoptLoad, AdoptStore, AdoptRepair,
     StartClean1, StartClean2, StartSpawn, StartSpawnFails, InitLoad, InitStore,
     InitPidfile, StopReadPidfile, StopFindRunning, StopLoad, StopSignal, StopKill,
     StopSweep, StopOrphans, StopClean1, StopClean2, ScanReadPidfile, ScanLists,
     ScanRejects, ScanClean1, ScanClean2
<1>3. \A l \in Loops : LoopNext(l) \/ LoopKilled(l) => managerKills' = managerKills
  BY DEF LoopNext, LoopKilled, LoopBoot, LoopBootFails, LoopReap, LoopTick, LoopSkip,
     LoopSpawn, LoopSpawnFails, LoopTrack, LoopRecord, LoopTerm, LoopStopWorker,
     LoopStopLoad, LoopStopStore, LoopStopClean1, LoopStopClean2, LoopExit
<1>4. \A w \in Workers : WorkerNext(w) => managerKills' = managerKills
  BY DEF WorkerNext, WorkerBoots, WorkerExits, WorkerFails, WorkerRecordsError
<1> QED BY <1>1, <1>2, <1>3, <1>4 DEF Next

\* No step forgets a worker that escaped.
LEMMA EscapedKept ==
  ASSUME [Next]_vars
  PROVE  escaped \subseteq escaped'
<1> USE DEF vars, history
<1>1. \A m \in Managers : ManagerNext(m) \/ ManagerKilled(m) => escaped \subseteq escaped'
  BY DEF ManagerKilled, ManagerNext, StartLoop, StopLoop, RunningLoops,
     StartReadPidfile, StartFindRunning, StartReadState, StartCheck, AdoptLoad,
     AdoptStore, AdoptRepair, StartClean1, StartClean2, StartSpawn, StartSpawnFails,
     InitLoad, InitStore, InitPidfile, StopReadPidfile, StopFindRunning, StopLoad,
     StopSignal, StopKill, StopSweep, StopOrphans, StopClean1, StopClean2,
     ScanReadPidfile, ScanLists, ScanRejects, ScanClean1, ScanClean2
<1>2. \A l \in Loops : LoopNext(l) \/ LoopKilled(l) => escaped \subseteq escaped'
  BY DEF LoopNext, LoopKilled, LoopBoot, LoopBootFails, LoopReap, LoopTick, LoopSkip,
     LoopSpawn, LoopSpawnFails, LoopTrack, LoopRecord, LoopTerm, LoopStopWorker,
     LoopStopLoad, LoopStopStore, LoopStopClean1, LoopStopClean2, LoopExit
<1>3. \A w \in Workers : WorkerNext(w) => escaped \subseteq escaped'
  BY DEF WorkerNext, WorkerBoots, WorkerExits, WorkerFails, WorkerRecordsError
<1> QED BY <1>1, <1>2, <1>3 DEF Next

\* A manager that moves was at work before, or begins beside others or alone.
LEMMA ManagerMoves ==
  ASSUME TypeOK, NEW m \in Managers, ManagerNext(m) \/ ManagerKilled(m)
  PROVE  /\ \A n \in Managers \ {m} : mpc'[n] = mpc[n]
         /\ (mpc[m] # "idle" /\ overlapped' = overlapped) \/ Begins(m)
<1> USE DEF TypeOK, history, Step, Returns
<1>1. CASE StartLoop(m)
  BY <1>1 DEF StartLoop, StartReadPidfile, StartFindRunning, StartReadState,
     StartCheck, AdoptLoad, AdoptStore, AdoptRepair, StartClean1, StartClean2,
     StartSpawn, StartSpawnFails, InitLoad, InitStore, InitPidfile
<1>2. CASE StopLoop(m)
  BY <1>2 DEF StopLoop, StopReadPidfile, StopFindRunning, StopLoad, StopSignal,
     StopKill, StopSweep, StopOrphans, StopClean1, StopClean2
<1>3. CASE RunningLoops(m)
  BY <1>3 DEF RunningLoops, ScanReadPidfile, ScanLists, ScanRejects, ScanClean1,
     ScanClean2
<1>4. CASE ManagerKilled(m)
  BY <1>4 DEF ManagerKilled
<1> QED BY <1>1, <1>2, <1>3, <1>4 DEF ManagerNext

LEMMA OthersRest ==
  ASSUME \/ \E w \in Workers : WorkerNext(w)
         \/ \E l \in Loops : LoopNext(l) \/ LoopKilled(l)
         \/ UNCHANGED vars
  PROVE  UNCHANGED <<mpc, overlapped>>
<1> USE DEF vars, history, managerVars
<1>1. \A l \in Loops : LoopNext(l) \/ LoopKilled(l) => UNCHANGED <<mpc, overlapped>>
  BY DEF LoopNext, LoopKilled, LoopBoot, LoopBootFails, LoopReap, LoopTick, LoopSkip,
     LoopSpawn, LoopSpawnFails, LoopTrack, LoopRecord, LoopTerm, LoopStopWorker,
     LoopStopLoad, LoopStopStore, LoopStopClean1, LoopStopClean2, LoopExit
<1>2. \A w \in Workers : WorkerNext(w) => UNCHANGED <<mpc, overlapped>>
  BY DEF WorkerNext, WorkerBoots, WorkerExits, WorkerFails, WorkerRecordsError
<1> QED BY <1>1, <1>2

\* Until two have overlapped, who moves is alone.
LEMMA InTurnsStep ==
  ASSUME TypeOK, InTurns, [Next]_vars
  PROVE  /\ InTurns'
         /\ ~overlapped' =>
              /\ ~overlapped /\ TakeTurns
              /\ \A m \in Managers : ManagerNext(m) => Alone(m)
<1>1. ASSUME NEW m \in Managers, ManagerNext(m) \/ ManagerKilled(m), ~overlapped'
      PROVE  ~overlapped /\ TakeTurns /\ Alone(m) /\ TakeTurns'
  BY <1>1, ManagerMoves DEF InTurns, TakeTurns, Alone, Begins
<1>2. CASE \E m \in Managers : ManagerNext(m) \/ ManagerKilled(m)
  BY <1>1, <1>2 DEF InTurns
<1>3. CASE \/ \E w \in Workers : WorkerNext(w)
           \/ \E l \in Loops : LoopNext(l) \/ LoopKilled(l)
           \/ UNCHANGED vars
  <2>1. UNCHANGED <<mpc, overlapped>>
    BY <1>3, OthersRest
  <2> QED BY <1>1, <2>1 DEF InTurns, TakeTurns, Alone
<1> QED BY <1>2, <1>3 DEF Next

LEMMA UnkilledStep ==
  ASSUME TypeOK, InTurns, Unkilled, [Next]_vars
  PROVE  Unkilled'
<1> SUFFICES ASSUME ~overlapped', managerKills' = 0
             PROVE  SignalHeld' /\ FileOrder'
  BY DEF Unkilled
<1>1. SignalHeld /\ FileOrder /\ \A m \in Managers : ~ManagerKilled(m)
  BY InTurnsStep, KillsCounted DEF Unkilled
<1>2. CASE \E m \in Managers : ManagerNext(m)
  BY <1>1, <1>2, InTurnsStep, OrderStart, OrderStop, OrderScan DEF ManagerNext
<1>3. CASE \E l \in Loops : LoopNext(l)
  BY <1>1, <1>3, InTurnsStep, OrderLoop
<1>4. CASE \/ \E w \in Workers : WorkerNext(w)
           \/ \E l \in Loops : LoopKilled(l)
           \/ UNCHANGED vars
  BY <1>1, <1>4, OrderOthers
<1> QED BY <1>1, <1>2, <1>3, <1>4 DEF Next

\* A worker's error record is of the loop that runs, for no orphan is about.
LEMMA AgreementOthers ==
  ASSUME TypeOK, Accounted, OrphansExplained, escaped = {}, SignalHeld, Agreement,
         \/ \E w \in Workers : WorkerNext(w)
         \/ \E l \in Loops : LoopKilled(l)
         \/ UNCHANGED vars
  PROVE  Agreement'
<1> USE DEF Agreement, Sole, NoneAt, Names, LoopAlive, TypeOK, vars, files,
        loopVars, workerVars, managerVars, history, LoopStates, Ticking, Stopping
<1>1. CASE \E w \in Workers : WorkerNext(w)
  <2> PICK w \in Workers : WorkerNext(w)
    BY <1>1
  <2>1. CASE WorkerRecordsError(w)
    <3>1. owner[w] \in Loops /\ LoopAlive(owner[w])
      BY <2>1 DEF WorkerRecordsError, OrphansExplained, Accounted, WorkerAlive
    <3>2. \A l \in Loops : LoopAlive(l) => owner[w] = l
      BY <3>1
    <3> QED BY <2>1, <3>2 DEF WorkerRecordsError, WithStatus
  <2>2. CASE ~WorkerRecordsError(w)
    <3>1. UNCHANGED <<files, loopVars, managerVars>>
      BY <2>2 DEF WorkerNext, WorkerBoots, WorkerExits, WorkerFails
    <3> QED BY <3>1
  <2> QED BY <2>1, <2>2
<1>2. CASE \E l \in Loops : LoopKilled(l)
  BY <1>2 DEF LoopKilled, Dies
<1>3. CASE UNCHANGED vars
  BY <1>3
<1> QED BY <1>1, <1>2, <1>3

LEMMA AgreedStep ==
  ASSUME TypeOK, Accounted, OrphansExplained, InTurns, Unkilled, Agreed, [Next]_vars
  PROVE  Agreed'
<1> SUFFICES ASSUME ~overlapped', managerKills' = 0, escaped' = {}
             PROVE  Agreement'
  BY DEF Agreed, Undisturbed
<1>1. managerKills = 0 /\ escaped = {} /\ \A m \in Managers : ~ManagerKilled(m)
  BY KillsCounted, EscapedKept
<1>2. SignalHeld /\ FileOrder /\ Agreement
  BY <1>1, InTurnsStep DEF Unkilled, Agreed, Undisturbed
<1>3. CASE \E m \in Managers : ManagerNext(m)
  BY <1>2, <1>3, InTurnsStep, AgreementStart, AgreementStop, AgreementScan
     DEF ManagerNext
<1>4. CASE \E l \in Loops : LoopNext(l)
  BY <1>2, <1>4, InTurnsStep, AgreementLoop
<1>5. CASE \/ \E w \in Workers : WorkerNext(w)
           \/ \E l \in Loops : LoopKilled(l)
           \/ UNCHANGED vars
  BY <1>1, <1>2, <1>5, AgreementOthers
<1> QED BY <1>1, <1>3, <1>4, <1>5 DEF Next

\* As long as the managers take turns, none is killed in mid-operation and no
\* orphan is about, the files agree with the process table.
LEMMA AgreedAlways == Spec => [](InTurns /\ Unkilled /\ Agreed)
<1>1. Init => InTurns /\ Unkilled /\ Agreed
  BY DEF Init, InTurns, TakeTurns, Unkilled, SignalHeld, FileOrder, Agreed, Agreement,
     Stopping, Sole, Ticking, LoopAlive, Unfiled, Launching
<1>2. TypeOK /\ Accounted /\ OrphansExplained /\ InTurns /\ Unkilled /\ Agreed
        /\ [Next]_vars => (InTurns /\ Unkilled /\ Agreed)'
  BY InTurnsStep, UnkilledStep, AgreedStep
<1> QED BY <1>1, <1>2, AccountedAlways, OrphansExplainedAlways, PTL DEF Spec

\* start_loop's adoption logic, _cleanup_loop_files and _shutdown_loop: whatever
\* loops are killed or die at boot, while managers take turns no second loop
\* ever runs, and the pidfile names no loop but the one that does (SoleLoop).
THEOREM SoleLoopAlways == Spec => []SoleLoop
<1>1. Unkilled /\ Agreed => SoleLoop
  <2> SUFFICES ASSUME SignalHeld, FileOrder, Agreement PROVE SoleLoop
    BY DEF Unkilled, Agreed, Undisturbed, SoleLoop
  <2>1. OneLoopPerCollector
    BY DEF Agreement, Sole, OneLoopPerCollector
  <2>2. \A l \in Loops : LoopAlive(l) /\ pidfile # NoPid => pidfile = l
    BY DEF Agreement, Sole, NoneAt, Unfiled, FileOrder
  <2> QED BY <2>1, <2>2 DEF SoleLoop
<1> QED BY <1>1, AgreedAlways, PTL

\* "The pidfile must never exist while the state does not", while managers take
\* turns and whatever loops are killed (PidfileImpliesState).
THEOREM PidfileImpliesStateAlways == Spec => []PidfileImpliesState
<1>1. Unkilled => PidfileImpliesState
  BY DEF Unkilled, FileOrder, PidfileImpliesState
<1> QED BY <1>1, AgreedAlways, PTL
==============================================================================
