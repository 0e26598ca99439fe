--------------------------- MODULE CollectorLoop ---------------------------
(***************************************************************************)
(* The life cycle of one collector's supervisor loop: CollectorRunner's    *)
(* start_loop, stop_loop and running_loops as called by any number of      *)
(* managers (dashboard commands and the watchdog), the loop process they   *)
(* launch, and the worker processes the loop launches in turn.             *)
(*                                                                         *)
(* Nothing here holds a lock.  The managers, the loops and the workers     *)
(* meet in two files, <name>.pid and loop.json, and in the process table.  *)
(* A step is one file operation, one signal, one launch or one look at the *)
(* process table, so every interleaving of those is explored.  A state     *)
(* write (_write_loop_state) reads the file, merges and renames: it is two *)
(* steps, a load and a store, wherever the fields it keeps matter.         *)
(*                                                                         *)
(* Abstracted: pids are never reused; an exited process is reaped at once; *)
(* the pidfile's open, print and close are one step; timestamps, log       *)
(* entries and the fields of loop.json nobody decides on are left out.     *)
(***************************************************************************)
EXTENDS Integers, FiniteSets

CONSTANTS
  Managers,     \* processes that call start_loop, stop_loop, running_loops
  Loops,        \* pids a launched loop may get
  NoPid,        \* no pid: a missing file, an idle manager
  Workers,      \* pids a launched worker may get
  MaxParallel,  \* collector policy: 1 in singleton mode, `multiple` otherwise
  MaxLoopKills,     \* bound on loops killed from outside (operator, OOM)
  MaxManagerKills,  \* bound on managers killed in mid-operation
  GraceExpires  \* whether a TERM grace period may run out before the loop dies

ASSUME LoopAssumption ==
  /\ NoPid \notin Loops
  /\ IsFiniteSet(Workers)
  /\ MaxParallel \in Nat \ {0}
  /\ MaxLoopKills \in Nat
  /\ MaxManagerKills \in Nat
  /\ GraceExpires \in BOOLEAN

VARIABLES
  pidfile,  \* contents of <name>.pid, NoPid when the file is missing
  lstate,   \* contents of loop.json
  lpc,      \* lpc[l]: where loop process l is
  term,     \* term[l]: a stop signal is pending for l
  active,   \* active[l]: the loop's in-memory %active_workers
  spawned,  \* spawned[l]: workers launched but not yet in active[l]
  lsnap,    \* lsnap[l]: loop.json as loaded by l for a merge
  wpc,      \* wpc[w]: where worker process w is
  owner,    \* owner[w]: the loop that launched w
  wsnap,    \* wsnap[w]: the worker list w loaded for a merge
  mpc,      \* mpc[m]: where manager m is in its operation
  mpid,     \* mpid[m]: the pid the operation is about
  msnap,    \* msnap[m]: the worker list m loaded, for a merge or a stop
  loopKills,     \* loops killed from outside so far
  managerKills,  \* managers killed so far
  escaped,       \* history: workers left behind by a loop that ended (see below)
  overlapped     \* history: two managers have been at work at the same time

files == <<pidfile, lstate>>
loopVars == <<lpc, term, active, spawned, lsnap>>
workerVars == <<wpc, owner, wsnap>>
managerVars == <<mpc, mpid, msnap>>
history == <<loopKills, managerKills, escaped, overlapped>>
vars == <<files, loopVars, workerVars, managerVars, history>>

-----------------------------------------------------------------------------
(* loop.json *)

Statuses == {"none", "starting", "running", "error", "stopped"}
LoopStates == [exists : BOOLEAN, pid : Loops \cup {NoPid},
               status : Statuses, workers : SUBSET Workers]

\* A missing file; what a merge starts from when nothing could be read.
NoState == [exists |-> FALSE, pid |-> NoPid, status |-> "none", workers |-> {}]

\* _write_loop_state with pid and status in $data keeps the worker list it
\* loaded; with the worker list in $data it keeps the rest.
WithStatus(pid, status, loaded) ==
  [exists |-> TRUE, pid |-> pid, status |-> status, workers |-> loaded]
WithWorkers(loaded, ws) == [loaded EXCEPT !.exists = TRUE, !.workers = ws]

-----------------------------------------------------------------------------
(* The process table *)

\* Running the loop body, between its operations.
Ticking == {"up", "due", "track", "record"}
\* Inside the signal handler.
Stopping == {"stopping", "stop1", "stop2", "stop3", "stop4"}

LoopAlive(l) == lpc[l] \in {"boot"} \cup Ticking \cup Stopping
\* $0 is set once the child has booted; /proc then shows the loop's title.
Titled(l) == lpc[l] \in Ticking \cup Stopping
WorkerAlive(w) == wpc[w] \in {"boot", "run", "fail"}
LiveWorkers(l) == {w \in Workers : WorkerAlive(w) /\ owner[w] = l}
\* Until its setsid a worker is in its loop's process group.
InGroup(l) == {w \in Workers : wpc[w] = "boot" /\ owner[w] = l}

\* _is_managed_loop: alive and carrying the collector's title.
IsManaged(p) == p \in Loops /\ Titled(p)

\* _state_confirms_managed_loop: alive, and loop.json names it and has not
\* marked it stopped.
StateConfirms(p) ==
  /\ p \in Loops
  /\ LoopAlive(p)
  /\ lstate.pid = p
  /\ lstate.status # "stopped"

\* Mutant: the state record is not consulted for a child without a title yet.
Recognised_TitleOnly(p) == IsManaged(p)
Recognised(p) == IsManaged(p) \/ StateConfirms(p)

\* _find_running_loop: the lowest pid carrying the title, if any.  Pids wrap
\* around, so the lowest may be any of them.
FindRunning(p) ==
  IF \E l \in Loops : Titled(l) THEN p \in Loops /\ Titled(p) ELSE p = NoPid

-----------------------------------------------------------------------------
(* Managers: start_loop *)

Step(m, from, to) == /\ mpc[m] = from
                     /\ mpc' = [mpc EXCEPT ![m] = to]
\* An operation begins, beside another one or alone.
Begins(m) == overlapped' = (overlapped \/ \E n \in Managers \ {m} : mpc[n] # "idle")
\* It returns; its local variables go with it.
Returns(m, from) == /\ Step(m, from, "idle")
                    /\ mpid' = [mpid EXCEPT ![m] = NoPid]
                    /\ msnap' = [msnap EXCEPT ![m] = {}]

\* -f $pidfile, then the recorded pid.
StartReadPidfile(m) ==
  /\ Step(m, "idle", IF pidfile # NoPid THEN "startCheck" ELSE "startFind")
  /\ Begins(m)
  /\ mpid' = [mpid EXCEPT ![m] = pidfile]
  /\ UNCHANGED <<files, loopVars, workerVars, msnap, loopKills, managerKills, escaped>>

\* No record: ask the process table.
StartFindRunning(m) ==
  \E p \in Loops \cup {NoPid} :
    /\ FindRunning(p)
    /\ Step(m, "startFind", IF p # NoPid THEN "startCheck" ELSE "startState")
    /\ mpid' = [mpid EXCEPT ![m] = p]
    /\ UNCHANGED <<files, loopVars, workerVars, msnap, history>>

\* Still none: the launcher's state record, for a child that has no title yet.
StartReadState(m) ==
  /\ Step(m, "startState",
          IF StateConfirms(lstate.pid) THEN "startCheck" ELSE "startSpawn")
  /\ mpid' = [mpid EXCEPT ![m] = IF StateConfirms(lstate.pid)
                                 THEN lstate.pid ELSE NoPid]
  /\ UNCHANGED <<files, loopVars, workerVars, msnap, history>>

\* A candidate was found: adopt it when recognised, or clear its files.
StartCheck(m) ==
  /\ Step(m, "startCheck",
          IF Recognised(mpid[m]) THEN "adoptLoad" ELSE "startClean1")
  /\ UNCHANGED <<files, loopVars, workerVars, mpid, msnap, history>>

AdoptLoad(m) ==
  /\ Step(m, "adoptLoad", "adoptStore")
  /\ msnap' = [msnap EXCEPT ![m] = lstate.workers]
  /\ UNCHANGED <<files, loopVars, workerVars, mpid, history>>

AdoptStore(m) ==
  /\ Step(m, "adoptStore", "adoptRepair")
  /\ lstate' = WithStatus(mpid[m], "running", msnap[m])
  /\ UNCHANGED <<pidfile, loopVars, workerVars, mpid, msnap, history>>

\* The missing pidfile is rewritten after the state, and start_loop returns.
AdoptRepair(m) ==
  /\ Returns(m, "adoptRepair")
  /\ pidfile' = IF pidfile = NoPid THEN mpid[m] ELSE pidfile
  /\ UNCHANGED <<lstate, loopVars, workerVars, history>>

\* Mutant: a stale pidfile is left for the new launch to overwrite.
StartClean1_KeepsPidfile(m) ==
  /\ Step(m, "startClean1", "startClean2")
  /\ UNCHANGED <<files, loopVars, workerVars, mpid, msnap, history>>

\* _cleanup_loop_files: the pidfile goes first, then loop.json.
StartClean1(m) ==
  /\ Step(m, "startClean1", "startClean2")
  /\ pidfile' = NoPid
  /\ UNCHANGED <<lstate, loopVars, workerVars, mpid, msnap, history>>

StartClean2(m) ==
  /\ Step(m, "startClean2", "startSpawn")
  /\ lstate' = NoState
  /\ UNCHANGED <<pidfile, loopVars, workerVars, mpid, msnap, history>>

\* GoRoutine::spawn of collector-loop-foreground.
StartSpawn(m) ==
  \E l \in Loops :
    /\ lpc[l] = "unused"
    /\ Step(m, "startSpawn", "initLoad")
    /\ lpc' = [lpc EXCEPT ![l] = "boot"]
    /\ mpid' = [mpid EXCEPT ![m] = l]
    /\ UNCHANGED <<files, term, active, spawned, lsnap, workerVars, msnap,
                   history>>

\* The launch fails: start_loop dies.  Also stands for exhausted pids.
StartSpawnFails(m) ==
  /\ Returns(m, "startSpawn")
  /\ UNCHANGED <<files, loopVars, workerVars, history>>

InitLoad(m) ==
  /\ Step(m, "initLoad", "initStore")
  /\ msnap' = [msnap EXCEPT ![m] = lstate.workers]
  /\ UNCHANGED <<files, loopVars, workerVars, mpid, history>>

InitStore(m) ==
  /\ Step(m, "initStore", "initPidfile")
  /\ lstate' = WithStatus(mpid[m], "starting", msnap[m])
  /\ UNCHANGED <<pidfile, loopVars, workerVars, mpid, msnap, history>>

InitPidfile(m) ==
  /\ Returns(m, "initPidfile")
  /\ pidfile' = mpid[m]
  /\ UNCHANGED <<lstate, loopVars, workerVars, history>>

StartLoop(m) ==
  \/ StartReadPidfile(m) \/ StartFindRunning(m) \/ StartReadState(m)
  \/ StartCheck(m) \/ AdoptLoad(m) \/ AdoptStore(m) \/ AdoptRepair(m)
  \/ StartClean1(m) \/ StartClean2(m) \/ StartSpawn(m) \/ StartSpawnFails(m)
  \/ InitLoad(m) \/ InitStore(m) \/ InitPidfile(m)

-----------------------------------------------------------------------------
(* Managers: stop_loop *)

\* A process is gone, and its memory with it.
Dies(l) == /\ lpc' = [lpc EXCEPT ![l] = "dead"]
           /\ term' = [term EXCEPT ![l] = FALSE]
           /\ active' = [active EXCEPT ![l] = {}]
           /\ spawned' = [spawned EXCEPT ![l] = {}]
           /\ lsnap' = [lsnap EXCEPT ![l] = NoState]
WorkersDie(ws) ==
  /\ wpc' = [w \in Workers |-> IF w \in ws THEN "dead" ELSE wpc[w]]
  /\ owner' = [w \in Workers |-> IF w \in ws THEN NoPid ELSE owner[w]]
  /\ wsnap' = [w \in Workers |-> IF w \in ws THEN {} ELSE wsnap[w]]
\* _terminate_loop_workers: TERM, a grace, KILL to each that is still there.
Terminate(ws) == WorkersDie({w \in ws : WorkerAlive(w)})

StopReadPidfile(m) ==
  /\ Step(m, "idle", IF pidfile # NoPid THEN "stopLoad" ELSE "stopFind")
  /\ Begins(m)
  /\ mpid' = [mpid EXCEPT ![m] = pidfile]
  /\ UNCHANGED <<files, loopVars, workerVars, msnap, loopKills, managerKills, escaped>>

\* No pidfile: the process table decides, and with no hit stop_loop returns.
StopFindRunning(m) ==
  \/ /\ \A l \in Loops : ~Titled(l)
     /\ Returns(m, "stopFind")
     /\ UNCHANGED <<files, loopVars, workerVars, history>>
  \/ \E l \in Loops :
       /\ FindRunning(l)
       /\ Step(m, "stopFind", "stopLoad")
       /\ mpid' = [mpid EXCEPT ![m] = l]
       /\ UNCHANGED <<files, loopVars, workerVars, msnap, history>>

\* _state_active_worker_pids, before the loop is looked at.
StopLoad(m) ==
  /\ Step(m, "stopLoad", "stopCheck")
  /\ msnap' = [msnap EXCEPT ![m] = lstate.workers]
  /\ UNCHANGED <<files, loopVars, workerVars, mpid, history>>

\* A loop that is ours is sent TERM.
StopSignal(m) ==
  /\ Recognised(mpid[m])
  /\ Step(m, "stopCheck", "stopWait")
  /\ term' = [term EXCEPT ![mpid[m]] = TRUE]
  /\ UNCHANGED <<files, lpc, active, spawned, lsnap, workerVars, mpid, msnap,
                 history>>

\* The loop has gone, or the grace period has run out: SIGKILL to its group,
\* which reaches workers that have not called setsid, and to the loop.
StopKill(m) ==
  LET l == mpid[m] IN
  /\ Step(m, "stopWait", "stopSweep")
  /\ ~LoopAlive(l) \/ GraceExpires
  /\ Terminate(InGroup(l))
  /\ escaped' = IF LoopAlive(l) THEN escaped \cup (LiveWorkers(l) \ InGroup(l))
                                ELSE escaped
  /\ Dies(l)
  /\ UNCHANGED <<files, mpid, msnap, loopKills, managerKills, overlapped>>

\* Backstop: every worker loop.json lists now is terminated.
StopSweep(m) ==
  /\ Step(m, "stopSweep", "stopClean1")
  /\ Terminate(lstate.workers)
  /\ UNCHANGED <<files, loopVars, mpid, msnap, history>>

\* The loop is dead or not ours: terminate the workers recorded at the load.
StopOrphans(m) ==
  /\ ~Recognised(mpid[m])
  /\ Step(m, "stopCheck", "stopClean1")
  /\ Terminate(msnap[m])
  /\ UNCHANGED <<files, loopVars, mpid, msnap, history>>

\* Mutant: loop.json is unlinked while the pidfile is still there.
StopClean1_StateFirst(m) ==
  /\ Step(m, "stopClean1", "stopClean2")
  /\ lstate' = NoState
  /\ UNCHANGED <<pidfile, loopVars, workerVars, mpid, msnap, history>>

StopClean1(m) ==
  /\ Step(m, "stopClean1", "stopClean2")
  /\ pidfile' = NoPid
  /\ UNCHANGED <<lstate, loopVars, workerVars, mpid, msnap, history>>

StopClean2(m) ==
  /\ Returns(m, "stopClean2")
  /\ lstate' = NoState
  /\ UNCHANGED <<pidfile, loopVars, workerVars, history>>

StopLoop(m) ==
  \/ StopReadPidfile(m) \/ StopFindRunning(m) \/ StopLoad(m)
  \/ StopSignal(m) \/ StopKill(m) \/ StopSweep(m) \/ StopOrphans(m)
  \/ StopClean1(m) \/ StopClean2(m)

-----------------------------------------------------------------------------
(* Managers: running_loops, for this collector's pidfile *)

ScanReadPidfile(m) ==
  /\ pidfile # NoPid
  /\ Step(m, "idle", "scanCheck")
  /\ Begins(m)
  /\ mpid' = [mpid EXCEPT ![m] = pidfile]
  /\ UNCHANGED <<files, loopVars, workerVars, msnap, loopKills, managerKills, escaped>>

\* A recognised loop is listed, ...
ScanLists(m) ==
  /\ Recognised(mpid[m])
  /\ Returns(m, "scanCheck")
  /\ UNCHANGED <<files, loopVars, workerVars, history>>

\* ... any other record is cleared.
ScanRejects(m) ==
  /\ ~Recognised(mpid[m])
  /\ Step(m, "scanCheck", "scanClean1")
  /\ UNCHANGED <<files, loopVars, workerVars, mpid, msnap, history>>

ScanClean1(m) ==
  /\ Step(m, "scanClean1", "scanClean2")
  /\ pidfile' = NoPid
  /\ UNCHANGED <<lstate, loopVars, workerVars, mpid, msnap, history>>

ScanClean2(m) ==
  /\ Returns(m, "scanClean2")
  /\ lstate' = NoState
  /\ UNCHANGED <<pidfile, loopVars, workerVars, history>>

RunningLoops(m) ==
  \/ ScanReadPidfile(m) \/ ScanLists(m) \/ ScanRejects(m)
  \/ ScanClean1(m) \/ ScanClean2(m)

-----------------------------------------------------------------------------
(* The loop process: _run_loop_child *)

LoopAt(l, from, to) == /\ lpc[l] = from
                       /\ lpc' = [lpc EXCEPT ![l] = to]

\* The title and the signal handlers are set; the first tick is next.
LoopBoot(l) ==
  /\ ~term[l]
  /\ LoopAt(l, "boot", "up")
  /\ UNCHANGED <<files, term, active, spawned, lsnap, workerVars, managerVars,
                 history>>

\* The helper dies before its first tick: job.json is missing or has a mode
\* the policy refuses, or a stop signal arrives before the handlers are set.
LoopBootFails(l) ==
  /\ lpc[l] = "boot"
  /\ Dies(l)
  /\ UNCHANGED <<files, workerVars, managerVars, history>>

\* Mutant: waitpid's 0 (still running) is taken for an exit.
LoopReap_ForgetsLive(l) ==
  /\ lpc[l] \in Ticking \cup {"stopping"}
  /\ active[l] # {}
  /\ active' = [active EXCEPT ![l] = {}]
  /\ UNCHANGED <<files, lpc, term, spawned, lsnap, workerVars, managerVars,
                 history>>

\* _reap_finished_loop_workers, from the tick, the sleep or SIGCHLD.
LoopReap(l) ==
  /\ lpc[l] \in Ticking \cup {"stopping"}
  /\ \E w \in active[l] : ~WorkerAlive(w)
  /\ active' = [active EXCEPT ![l] = {w \in @ : WorkerAlive(w)}]
  /\ UNCHANGED <<files, lpc, term, spawned, lsnap, workerVars, managerVars,
                 history>>

\* The full record: every field the model keeps is in $data, so the merge
\* does not matter and the write is one step.
LoopTick(l) ==
  /\ LoopAt(l, "up", "due")
  /\ lstate' = WithStatus(l, "running", active[l])
  /\ UNCHANGED <<pidfile, term, active, spawned, lsnap, workerVars,
                 managerVars, history>>

\* Not due, or the policy's limit is reached: sleep until the next tick.
LoopSkip(l) ==
  /\ LoopAt(l, "due", "up")
  /\ UNCHANGED <<files, term, active, spawned, lsnap, workerVars, managerVars,
                 history>>

\* Mutant: one worker too many.
LoopSpawn_OffByOne(l) ==
  \E w \in Workers :
    /\ wpc[w] = "unused"
    /\ Cardinality(active[l]) <= MaxParallel
    /\ LoopAt(l, "due", "track")
    /\ wpc' = [wpc EXCEPT ![w] = "boot"]
    /\ owner' = [owner EXCEPT ![w] = l]
    /\ spawned' = [spawned EXCEPT ![l] = {w}]
    /\ UNCHANGED <<files, term, active, lsnap, wsnap, managerVars, history>>

\* Due and below the limit: _start_loop_worker launches a worker process.
LoopSpawn(l) ==
  \E w \in Workers :
    /\ wpc[w] = "unused"
    /\ Cardinality(active[l]) < MaxParallel
    /\ LoopAt(l, "due", "track")
    /\ wpc' = [wpc EXCEPT ![w] = "boot"]
    /\ owner' = [owner EXCEPT ![w] = l]
    /\ spawned' = [spawned EXCEPT ![l] = {w}]
    /\ UNCHANGED <<files, term, active, lsnap, wsnap, managerVars, history>>

\* The launch dies: the loop records status error and sleeps.
LoopSpawnFails(l) ==
  /\ Cardinality(active[l]) < MaxParallel
  /\ LoopAt(l, "due", "up")
  /\ lstate' = WithStatus(l, "error", active[l])
  /\ UNCHANGED <<pidfile, term, active, spawned, lsnap, workerVars,
                 managerVars, history>>

\* $active_workers{$worker_pid} = 1, then the merge loads loop.json.
LoopTrack(l) ==
  /\ LoopAt(l, "track", "record")
  /\ active' = [active EXCEPT ![l] = @ \cup spawned[l]]
  /\ spawned' = [spawned EXCEPT ![l] = {}]
  /\ lsnap' = [lsnap EXCEPT ![l] =
                 WithWorkers(lstate, active[l] \cup spawned[l])]
  /\ UNCHANGED <<files, term, workerVars, managerVars, history>>

LoopRecord(l) ==
  /\ LoopAt(l, "record", "up")
  /\ lstate' = lsnap[l]
  /\ lsnap' = [lsnap EXCEPT ![l] = NoState]
  /\ UNCHANGED <<pidfile, term, active, spawned, workerVars,
                 managerVars, history>>

\* Mutant: the handler waits for the runs in progress.
LoopTerm_WhenIdle(l) ==
  /\ term[l]
  /\ lpc[l] \in Ticking
  /\ active[l] = {}
  /\ lpc' = [lpc EXCEPT ![l] = "stopping"]
  /\ escaped' = escaped \cup {w \in spawned[l] : WorkerAlive(w)}
  /\ spawned' = [spawned EXCEPT ![l] = {}]
  /\ UNCHANGED <<files, term, active, lsnap, workerVars, managerVars,
                 loopKills, managerKills, overlapped>>

\* _signal_stop: the handler may run between any two operations of the loop,
\* and never returns.  A worker launched but not yet in %active_workers is out
\* of its reach.
LoopTerm(l) ==
  /\ term[l]
  /\ lpc[l] \in Ticking
  /\ lpc' = [lpc EXCEPT ![l] = "stopping"]
  /\ escaped' = escaped \cup {w \in spawned[l] : WorkerAlive(w)}
  /\ spawned' = [spawned EXCEPT ![l] = {}]
  /\ UNCHANGED <<files, term, active, lsnap, workerVars, managerVars,
                 loopKills, managerKills, overlapped>>

\* _terminate_loop_workers: TERM, a grace, KILL, then forget the worker.
LoopStopWorker(l) ==
  \E w \in active[l] :
    /\ lpc[l] = "stopping"
    /\ Terminate({w})
    /\ active' = [active EXCEPT ![l] = @ \ {w}]
    /\ UNCHANGED <<files, lpc, term, spawned, lsnap, 
                   managerVars, history>>

\* Mutant: the shutdown does not wait for its workers to be gone.
LoopStopLoad_Early(l) ==
  /\ LoopAt(l, "stopping", "stop1")
  /\ lsnap' = [lsnap EXCEPT ![l] = lstate]
  /\ UNCHANGED <<files, term, active, spawned, workerVars, managerVars, history>>

\* With the workers gone, _shutdown_loop writes status stopped (a load and a
\* store), ...
LoopStopLoad(l) ==
  /\ active[l] = {}
  /\ LoopAt(l, "stopping", "stop1")
  /\ lsnap' = [lsnap EXCEPT ![l] = lstate]
  /\ UNCHANGED <<files, term, active, spawned, workerVars, managerVars, history>>

LoopStopStore(l) ==
  /\ LoopAt(l, "stop1", "stop2")
  /\ lstate' = WithStatus(l, "stopped", lsnap[l].workers)
  /\ lsnap' = [lsnap EXCEPT ![l] = NoState]
  /\ UNCHANGED <<pidfile, term, active, spawned, workerVars,
                 managerVars, history>>

\* ... unlinks the pidfile, ...
LoopStopClean1(l) ==
  /\ LoopAt(l, "stop2", "stop3")
  /\ pidfile' = NoPid
  /\ UNCHANGED <<lstate, term, active, spawned, lsnap, workerVars,
                 managerVars, history>>

\* Mutant: the handler returns to the loop instead of exiting.
LoopStopClean2_Returns(l) ==
  /\ LoopAt(l, "stop3", "up")
  /\ lstate' = NoState
  /\ UNCHANGED <<pidfile, term, active, spawned, lsnap, workerVars,
                 managerVars, history>>

\* ... unlinks loop.json and exits.
LoopStopClean2(l) ==
  /\ LoopAt(l, "stop3", "stop4")
  /\ lstate' = NoState
  /\ UNCHANGED <<pidfile, term, active, spawned, lsnap, workerVars,
                 managerVars, history>>

LoopExit(l) ==
  /\ lpc[l] = "stop4"
  /\ Dies(l)
  /\ UNCHANGED <<files, workerVars, managerVars, history>>

LoopNext(l) ==
  \/ LoopBoot(l) \/ LoopBootFails(l) \/ LoopReap(l) \/ LoopTick(l)
  \/ LoopSkip(l) \/ LoopSpawn(l) \/ LoopSpawnFails(l) \/ LoopTrack(l)
  \/ LoopRecord(l) \/ LoopTerm(l) \/ LoopStopWorker(l) \/ LoopStopLoad(l)
  \/ LoopStopStore(l) \/ LoopStopClean1(l) \/ LoopStopClean2(l) \/ LoopExit(l)

-----------------------------------------------------------------------------
(* The worker process: _run_loop_worker *)

\* setsid: the worker leaves its loop's process group.
WorkerBoots(w) ==
  /\ wpc[w] = "boot"
  /\ wpc' = [wpc EXCEPT ![w] = "run"]
  /\ UNCHANGED <<files, loopVars, owner, wsnap, managerVars, history>>

\* The run ends, or the helper finds no job to run.
WorkerExits(w) ==
  /\ wpc[w] \in {"boot", "run"}
  /\ WorkersDie({w})
  /\ UNCHANGED <<files, loopVars, managerVars, history>>

\* run_once dies: the worker writes status error under its loop's pid.
WorkerFails(w) ==
  /\ wpc[w] = "run"
  /\ wpc' = [wpc EXCEPT ![w] = "fail"]
  /\ wsnap' = [wsnap EXCEPT ![w] = lstate.workers]
  /\ UNCHANGED <<files, loopVars, owner, managerVars, history>>

WorkerRecordsError(w) ==
  /\ wpc[w] = "fail"
  /\ WorkersDie({w})
  /\ lstate' = WithStatus(owner[w], "error", wsnap[w])
  /\ UNCHANGED <<pidfile, loopVars, managerVars, history>>

WorkerNext(w) == WorkerBoots(w) \/ WorkerExits(w) \/ WorkerFails(w) \/ WorkerRecordsError(w)

-----------------------------------------------------------------------------
(* The environment *)

\* A loop is killed from outside: it runs no handler and cleans nothing up.
LoopKilled(l) ==
  /\ loopKills < MaxLoopKills
  /\ LoopAlive(l)
  /\ loopKills' = loopKills + 1
  /\ escaped' = escaped \cup LiveWorkers(l)
  /\ Dies(l)
  /\ UNCHANGED <<files, workerVars, managerVars, managerKills, overlapped>>

\* A manager is killed in the middle of an operation.
ManagerKilled(m) ==
  /\ managerKills < MaxManagerKills
  /\ mpc[m] # "idle"
  /\ managerKills' = managerKills + 1
  /\ Returns(m, mpc[m])
  /\ UNCHANGED <<files, loopVars, workerVars, loopKills, escaped, overlapped>>

-----------------------------------------------------------------------------

Init ==
  /\ pidfile = NoPid
  /\ lstate = NoState
  /\ lpc = [l \in Loops |-> "unused"]
  /\ term = [l \in Loops |-> FALSE]
  /\ active = [l \in Loops |-> {}]
  /\ spawned = [l \in Loops |-> {}]
  /\ lsnap = [l \in Loops |-> NoState]
  /\ wpc = [w \in Workers |-> "unused"]
  /\ owner = [w \in Workers |-> NoPid]
  /\ wsnap = [w \in Workers |-> {}]
  /\ mpc = [m \in Managers |-> "idle"]
  /\ mpid = [m \in Managers |-> NoPid]
  /\ msnap = [m \in Managers |-> {}]
  /\ loopKills = 0
  /\ managerKills = 0
  /\ escaped = {}
  /\ overlapped = FALSE

ManagerNext(m) == StartLoop(m) \/ StopLoop(m) \/ RunningLoops(m)

Next ==
  \/ \E m \in Managers : ManagerNext(m) \/ ManagerKilled(m)
  \/ \E l \in Loops : LoopNext(l) \/ LoopKilled(l)
  \/ \E w \in Workers : WorkerNext(w)

Spec == Init /\ [][Next]_vars

\* m is in stop_loop's grace period: all it can do is to kill the loop.
InGrace(m) == mpc[m] = "stopWait" /\ LoopAlive(mpid[m])

\* A manager in the middle of an operation finishes it, a launched process
\* keeps running, and a pending stop signal is delivered in the end.  That a
\* grace period runs out is possible, and nothing relies on it.
Fairness ==
  /\ \A m \in Managers : WF_vars(mpc[m] # "idle" /\ ~InGrace(m) /\ ManagerNext(m))
  /\ \A l \in Loops : WF_vars(LoopNext(l)) /\ WF_vars(LoopTerm(l))

LiveSpec == Spec /\ Fairness

-----------------------------------------------------------------------------
(* Properties *)

ManagerStates == {"idle", "startFind", "startState", "startCheck", "adoptLoad",
  "adoptStore", "adoptRepair", "startClean1", "startClean2", "startSpawn",
  "initLoad", "initStore", "initPidfile", "stopFind", "stopLoad", "stopCheck",
  "stopWait", "stopSweep", "stopClean1", "stopClean2", "scanCheck",
  "scanClean1", "scanClean2"}

\* Every variable holds a value of its kind.
TypeOK ==
  /\ pidfile \in Loops \cup {NoPid}
  /\ lstate \in LoopStates
  /\ lpc \in [Loops -> {"unused", "boot", "dead"} \cup Ticking \cup Stopping]
  /\ term \in [Loops -> BOOLEAN]
  /\ active \in [Loops -> SUBSET Workers]
  /\ spawned \in [Loops -> SUBSET Workers]
  /\ lsnap \in [Loops -> LoopStates]
  /\ wpc \in [Workers -> {"unused", "boot", "run", "fail", "dead"}]
  /\ owner \in [Workers -> Loops \cup {NoPid}]
  /\ wsnap \in [Workers -> SUBSET Workers]
  /\ mpc \in [Managers -> ManagerStates]
  /\ mpid \in [Managers -> Loops \cup {NoPid}]
  /\ msnap \in [Managers -> SUBSET Workers]
  /\ loopKills \in 0 .. MaxLoopKills
  /\ managerKills \in 0 .. MaxManagerKills
  /\ escaped \subseteq Workers
  /\ overlapped \in BOOLEAN

\* However many managers race and whatever is killed, no loop ever has more
\* runs in progress than its policy allows: _run_loop_child counts
\* %active_workers, not processes, so this needs the hash never to lose a live
\* worker to a reap or a signal.
ParallelBound == \A l \in Loops : Cardinality(LiveWorkers(l)) <= MaxParallel

\* What each loop knows of its live workers, stage by stage: all of them while
\* it ticks (in %active_workers, or just launched), all but the escaped while
\* its handler terminates them, and none but the escaped are left after that.
\* ParallelBound and OrphansExplained rest on it.
Accounted ==
  /\ \A w \in Workers : WorkerAlive(w) => owner[w] \in Loops
  /\ \A l \in Loops :
       /\ lpc[l] \in {"unused", "boot"} => LiveWorkers(l) = {}
       /\ lpc[l] \in Ticking => LiveWorkers(l) \subseteq active[l] \cup spawned[l]
       /\ lpc[l] = "stopping" => LiveWorkers(l) \subseteq active[l] \cup escaped
       /\ lpc[l] \in {"stop1", "stop2", "stop3", "stop4", "dead"} =>
            LiveWorkers(l) \subseteq escaped
       /\ lpc[l] \in {"unused", "boot", "up", "due", "record"} => spawned[l] = {}

\* A worker outlives its loop only when the loop could not have known it (the
\* stop signal fell between the launch and $active_workers{$worker_pid} = 1)
\* or had no chance to act (it was killed): an orderly _signal_stop leaves no
\* run behind, whatever else happens meanwhile.
OrphansExplained ==
  \A w \in Workers : WorkerAlive(w) /\ ~LoopAlive(owner[w]) => w \in escaped

\* _adopt_existing_loop_if_running's comment: an existing loop is recognised
\* "so the supervisor's start_loop does not create a DUPLICATE loop".
OneLoopPerCollector ==
  \A k, l \in Loops : LoopAlive(k) /\ LoopAlive(l) => k = l

Undisturbed == ~overlapped /\ managerKills = 0 /\ escaped = {}

\* start_loop's adoption logic, as long as one manager has been at it at a time,
\* none was killed and no orphan of an earlier loop is about: a loop that was
\* stopped, killed or died at boot never makes a second one run beside it, and
\* the pidfile never names a loop other than the one that runs, so that stop_loop
\* cannot take its "dead or not ours" branch while a loop is ticking.
SoleLoop ==
  Undisturbed =>
    /\ OneLoopPerCollector
    /\ \A l \in Loops : LoopAlive(l) /\ pidfile # NoPid => pidfile = l

\* README.md:902 of stop_loop: "Stopping a singleton collector loop also
\* terminates the long-running command currently owned by that loop": when no
\* manager is in mid-operation, every live worker has a live loop.
RunsDieWithLoop ==
  (\A m \in Managers : mpc[m] = "idle") =>
    \A w \in Workers : WorkerAlive(w) => LoopAlive(owner[w])

\* "The pidfile must never exist while the state does not": the order of the
\* writes in start_loop and of the unlinks in _cleanup_loop_files, with one
\* manager at a time, however loops end.
PidfileImpliesState ==
  ~overlapped /\ managerKills = 0 => (pidfile # NoPid => lstate.exists)

\* stop_loop always comes back: the loop it waits for dies of the signal, whatever it
\* was doing.
StopReturns ==
  \A m \in Managers : mpc[m] = "stopWait" ~> mpc[m] = "idle"

\* For WorkerPool, a loop's pool is its live workers, whatever the loop itself
\* or loop.json knows about them.
Pool == INSTANCE WorkerPool WITH
  pool <- [l \in Loops |-> LiveWorkers(l)],
  used <- {w \in Workers : wpc[w] # "unused"},
  closed <- {l \in Loops : lpc[l] = "dead"}

\* Managers, files, signals and crashes implement the abstract worker pool.
ImplementsPool == Pool!Spec
=============================================================================
