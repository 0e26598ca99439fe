-------------------------- MODULE CollectorStatus --------------------------
(***************************************************************************)
(* What one collector's runs leave behind: CollectorRunner::run_once and   *)
(* the files of Developer::Dashboard::Collector it writes (job.json, the   *)
(* output files, status.json, the log) and the indicator, with the loop's  *)
(* helpers, `dashboard collector run`, stop_loop's mark_stopped, the       *)
(* watchdog's write_status and the housekeeper's log rotation at work on   *)
(* the same files.                                                         *)
(*                                                                         *)
(* status.json and the log are updated under a lock each; job.json, the    *)
(* outputs and the indicator are not.  A step is one file operation, or    *)
(* one half of a locked read-modify-write: a process may be killed between *)
(* the halves, and the lock goes with it.                                  *)
(*                                                                         *)
(* Abstracted: a file holds the run that wrote it, an exit code is zero or *)
(* not; whom stop_loop reaches is CollectorLoop's matter, here it may be   *)
(* any of the loop's runs, and when the watchdog writes is                 *)
(* CollectorWatchdog's; one log entry stands for its lines.                *)
(***************************************************************************)
EXTENDS Integers, Sequences, FiniteSets, SequencesExt

CONSTANTS
  Runs,         \* executions of run_once, each happens at most once
  Manual,       \* those of them a user starts with `dashboard collector run`
  Manager,      \* the process that starts and stops the loop
  Nobody,       \* no run, no lock holder
  MaxStops,     \* bound on stops and kills together
  ExitCodes,    \* the exit codes a run may have, 0 and 1 standing for all
  Keep          \* the log's rotation rule: entries kept

ASSUME StatusAssumption ==
  /\ IsFiniteSet(Runs)
  /\ Manual \subseteq Runs
  /\ {Manager, Nobody} \cap Runs = {}
  /\ Manager # Nobody
  /\ MaxStops \in Nat
  /\ ExitCodes \subseteq {0, 1}
  /\ Keep \in Nat

VARIABLES
  job,        \* job.json: "missing", "full" as configured, or "stripped"
  out,        \* out[f]: the run that wrote output file f
  status,     \* status.json
  statusLock, \* holder of .status.lock
  held,       \* status.json as the holder has read it
  log,        \* the log, oldest entry first
  rotating,   \* .log.lock is held by the housekeeper ...
  rlog,       \* ... which has read this log
  indicator,  \* the run whose exit code the indicator shows
  rpc,        \* rpc[r]: where run r is
  rjob,       \* rjob[r]: the job definition r was given
  exit,       \* exit[r]: its exit code
  payload,    \* payload[r]: r has an indicator to set
  lpc,        \* the loop: down, boot (its helper has not read job.json), up,
              \* or refused (it died of what it read)
  mpc,        \* where the manager is
  stops,      \* stops asked for and processes killed so far
  leaked,     \* history: runs killed while counted in status.json
  reset,      \* history: a stop zeroed the count of a run in progress
  flagged,    \* history: `running` was last written by the watchdog
  mixed,      \* history: two runs were in progress at once, or one was killed
  disturbed,  \* history: a run was in progress since the start's job.json
  logged      \* history: every entry appended to the log

runVars == <<rpc, rjob, exit, payload>>
statusVars == <<status, statusLock, held>>
logVars == <<log, rotating, rlog, logged>>
loopVars == <<lpc, mpc>>
history == <<stops, leaked, reset, flagged, mixed, disturbed>>
vars == <<job, out, indicator, runVars, statusVars, logVars, loopVars, history>>

-----------------------------------------------------------------------------
(* Runs *)

\* write_result replaces them in this order; "text" stands for stdout, stderr
\* and combined.
OutputFiles == {"text", "last_run"}
AfterOutput(f) == IF f = "text" THEN "last_run" ELSE "finish"

Live == {r \in Runs : rpc[r] \notin {"new", "done", "dead"}}
\* The loop knows its own workers only.
LoopRuns == Live \ Manual
\* Entered into status.json by mark_run_started, not yet taken out of it.
Counted == {r \in Runs :
              rpc[r] \in {"exec", "finish", "finishing"} \cup OutputFiles}

Go(r, from, to) == /\ rpc[r] = from
                   /\ rpc' = [rpc EXCEPT ![r] = to]

Begins(r, pc) ==
  /\ Go(r, "new", pc)
  /\ mixed' = (mixed \/ Live # {})
  /\ disturbed' = (disturbed \/ mpc = "spawn" \/ lpc = "boot")

\* The loop launches a worker; how many at a time is CollectorLoop's matter.
WorkerStarts(r) ==
  /\ r \notin Manual
  /\ lpc = "up"
  /\ Begins(r, "boot")
  /\ UNCHANGED <<job, out, indicator, rjob, exit, payload, statusVars, logVars, loopVars,
                 stops, leaked, reset, flagged>>

\* collector-worker-foreground reads job.json.
WorkerReadsJob(r) ==
  /\ Go(r, "boot", "write")
  /\ rjob' = [rjob EXCEPT ![r] = job]
  /\ UNCHANGED <<job, out, indicator, exit, payload, statusVars, logVars, loopVars,
                 history>>

\* `dashboard collector run` takes the job from the configuration.
ManualStarts(r) ==
  /\ r \in Manual
  /\ Begins(r, "write")
  /\ rjob' = [rjob EXCEPT ![r] = "full"]
  /\ UNCHANGED <<job, out, indicator, exit, payload, statusVars, logVars, loopVars,
                 stops, leaked, reset, flagged>>

\* run_once dies on a cwd that is not there or on a job it cannot make sense
\* of; a worker logs the error.
RunRefused(r) ==
  /\ Go(r, "write", IF r \in Manual THEN "done" ELSE "errlog")
  /\ UNCHANGED <<job, out, indicator, rjob, exit, payload, statusVars, logVars,
                 loopVars, history>>

\* run_once writes job.json anew: without `indicator` and `multiple`, and with
\* mode "command" or "code" in place of the loop's "singleton" or "multiple".
RunWritesJob(r) ==
  /\ Go(r, "write", "mark")
  /\ job' = "stripped"
  /\ UNCHANGED <<out, indicator, rjob, exit, payload, statusVars, logVars, loopVars,
                 history>>

-----------------------------------------------------------------------------
(* status.json: Collector::update_status *)

NoStatus == [exists |-> FALSE, running |-> FALSE, active |-> 0, last |-> Nobody]

UpdateLoad_Unlocked(p) ==  \* Mutant: a shared lock, which all may hold.
  /\ statusLock' = p
  /\ held' = status
  /\ UNCHANGED status
\* flock(LOCK_EX), then the read.
UpdateLoad(p) ==
  /\ statusLock = Nobody
  /\ statusLock' = p
  /\ held' = status
  /\ UNCHANGED status

\* The callback's result replaces the file; the lock goes with its handle.
UpdateStore(next) ==
  /\ status' = next
  /\ statusLock' = Nobody
  /\ held' = NoStatus

MarkStartedLoad(r) ==
  /\ Go(r, "mark", "marking")
  /\ UpdateLoad(r)
  /\ UNCHANGED <<job, out, indicator, rjob, exit, payload, logVars, loopVars, history>>

MarkStartedStore(r) ==
  /\ Go(r, "marking", "exec")
  /\ UpdateStore([held EXCEPT !.exists = TRUE, !.running = TRUE,
                              !.active = held.active + 1])
  /\ flagged' = FALSE
  /\ UNCHANGED <<job, out, indicator, rjob, exit, payload, logVars, loopVars,
                 stops, leaked, reset, mixed, disturbed>>

\* _run_job, and the indicator's new state if the job has an indicator.  A
\* failure to render its icon is a failed run; if _run_job itself dies there is
\* no indicator to set either.
RunJob(r) ==
  /\ Go(r, "exec", "text")
  /\ \/ /\ \E code \in ExitCodes : exit' = [exit EXCEPT ![r] = code]
        /\ payload' = [payload EXCEPT ![r] = rjob[r] = "full"]
     \/ /\ exit' = [exit EXCEPT ![r] = 1]
        /\ UNCHANGED payload
  /\ UNCHANGED <<job, out, indicator, rjob, statusVars, logVars, loopVars,
                 history>>

\* write_result replaces the output files before it takes any lock.
WriteOutput(r) ==
  \E f \in OutputFiles :
    /\ Go(r, f, AfterOutput(f))
    /\ out' = [out EXCEPT ![f] = r]
    /\ UNCHANGED <<job, indicator, rjob, exit, payload, statusVars, logVars, loopVars,
                   history>>

MarkFinishedLoad(r) ==
  /\ Go(r, "finish", "finishing")
  /\ UpdateLoad(r)
  /\ UNCHANGED <<job, out, indicator, rjob, exit, payload, logVars, loopVars, history>>

Less_Unguarded(n) == n - 1  \* Mutant: below zero after a stop.
\* $active_runs-- if $active_runs > 0
Less(n) == IF n > 0 THEN n - 1 ELSE 0

MarkFinishedStore(r) ==
  /\ Go(r, "finishing", "log")
  /\ UpdateStore([exists |-> TRUE, running |-> Less(held.active) > 0,
                  active |-> Less(held.active), last |-> r])
  /\ flagged' = FALSE
  /\ UNCHANGED <<job, out, indicator, rjob, exit, payload, logVars, loopVars,
                 stops, leaked, reset, mixed, disturbed>>

\* The watchdog's write_status after a restart, or when it gives up: it sets
\* `running` whatever is in progress, and leaves the count alone.
WatchdogWrites ==
  /\ job # "missing"
  /\ statusLock = Nobody
  /\ \E running \in BOOLEAN :
       status' = [status EXCEPT !.exists = TRUE, !.running = running]
  /\ flagged' = TRUE
  /\ UNCHANGED <<job, out, indicator, runVars, statusLock, held, logVars,
                 loopVars, stops, leaked, reset, mixed, disturbed>>

-----------------------------------------------------------------------------
(* The log and the indicator *)

AppendLog_Unlocked(r) ==  \* Mutant: the append does not take the log's lock.
  /\ Go(r, "log", "indicate")
  /\ log' = Append(log, r)
  /\ logged' = Append(logged, r)
  /\ UNCHANGED <<job, out, indicator, rjob, exit, payload, statusVars, rotating, rlog,
                 loopVars, history>>
\* append_log_entry, under .log.lock.
AppendLog(r) ==
  /\ ~rotating
  /\ Go(r, "log", "indicate")
  /\ log' = Append(log, r)
  /\ logged' = Append(logged, r)
  /\ UNCHANGED <<job, out, indicator, rjob, exit, payload, statusVars, rotating, rlog,
                 loopVars, history>>

LogError(r) ==
  /\ ~rotating
  /\ Go(r, "errlog", "done")
  /\ log' = Append(log, r)
  /\ logged' = Append(logged, r)
  /\ UNCHANGED <<job, out, indicator, rjob, exit, payload, statusVars, rotating,
                 rlog, loopVars, history>>

\* The last act of run_once.
SetIndicator(r) ==
  /\ Go(r, "indicate", "done")
  /\ indicator' = IF payload[r] THEN r ELSE indicator
  /\ UNCHANGED <<job, out, rjob, exit, payload, statusVars, logVars, loopVars, history>>

RunOnce(r) ==
  \/ WorkerReadsJob(r) \/ RunWritesJob(r) \/ MarkStartedLoad(r)
  \/ MarkStartedStore(r) \/ RunJob(r) \/ WriteOutput(r) \/ MarkFinishedLoad(r)
  \/ MarkFinishedStore(r) \/ AppendLog(r) \/ SetIndicator(r) \/ RunRefused(r)
  \/ LogError(r)

\* rotate_log: read under the lock, ...
RotateLoad ==
  /\ ~rotating
  /\ Len(log) > Keep
  /\ rotating' = TRUE
  /\ rlog' = log
  /\ UNCHANGED <<job, out, indicator, runVars, statusVars, log, logged,
                 loopVars, history>>

\* ... then replaced by its tail.
RotateStore ==
  /\ rotating
  /\ rotating' = FALSE
  /\ log' = SubSeq(rlog, Len(rlog) - Keep + 1, Len(rlog))
  /\ rlog' = <<>>
  /\ UNCHANGED <<job, out, indicator, runVars, statusVars, logged, loopVars,
                 history>>

-----------------------------------------------------------------------------
(* The manager and the loop *)

StartWritesJob_Once ==  \* Mutant: an existing job.json is left as it is.
  /\ mpc = "idle" /\ lpc \in {"down", "refused"}
  /\ mpc' = "spawn"
  /\ job' = IF job = "missing" THEN "full" ELSE job
  /\ lpc' = "down"
  /\ disturbed' = (Live # {})
  /\ UNCHANGED <<out, indicator, runVars, statusVars, logVars, stops,
                 leaked, reset, flagged, mixed>>
\* start_loop, with no loop to adopt, writes job.json ...
StartWritesJob ==
  /\ mpc = "idle" /\ lpc \in {"down", "refused"}
  /\ mpc' = "spawn"
  /\ job' = "full"
  /\ lpc' = "down"
  /\ disturbed' = (Live # {})
  /\ UNCHANGED <<out, indicator, runVars, statusVars, logVars, stops,
                 leaked, reset, flagged, mixed>>

\* ... and launches collector-loop-foreground.
StartSpawns ==
  /\ mpc = "spawn"
  /\ mpc' = "idle"
  /\ lpc' = "boot"
  /\ UNCHANGED <<job, out, indicator, runVars, statusVars, logVars, history>>

\* The helper reads job.json; _collector_execution_policy dies of the mode
\* run_once left there.
LoopReadsJob ==
  /\ lpc = "boot"
  /\ lpc' = IF job = "full" THEN "up" ELSE "refused"
  /\ disturbed' = (disturbed /\ job # "full")
  /\ UNCHANGED <<job, out, indicator, runVars, statusVars, logVars, mpc,
                 stops, leaked, reset, flagged, mixed>>

\* Killed runs: their locks are released, their entry in status.json is not.
RunsDie(rs) ==
  /\ rpc' = [r \in Runs |-> IF r \in rs THEN "dead" ELSE rpc[r]]
  /\ statusLock' = IF statusLock \in rs THEN Nobody ELSE statusLock
  /\ held' = IF statusLock \in rs THEN NoStatus ELSE held
  /\ leaked' = leaked + Cardinality(rs \cap Counted)
  /\ mixed' = (mixed \/ rs # {})

\* stop_loop terminates the loop and its workers, then calls mark_stopped,
\* which returns at once when there is no status.json.
StopLoop ==
  \E rs \in SUBSET LoopRuns :
    /\ mpc = "idle"
    /\ stops < MaxStops
    /\ stops' = stops + 1
    /\ mpc' = IF status.exists THEN "stop" ELSE "idle"
    /\ lpc' = "down"
    /\ disturbed' = FALSE
    /\ RunsDie(rs)
    /\ UNCHANGED <<job, out, indicator, rjob, exit, payload, status, logVars, reset,
                   flagged>>

MarkStoppedLoad ==
  /\ mpc = "stop"
  /\ mpc' = "stopping"
  /\ UpdateLoad(Manager)
  /\ UNCHANGED <<job, out, indicator, runVars, logVars, lpc, history>>

MarkStoppedStore_KeepsCount ==  \* Mutant: the run counter survives the stop.
  /\ mpc = "stopping"
  /\ mpc' = "idle"
  /\ UpdateStore([held EXCEPT !.running = FALSE])
  /\ leaked' = 0
  /\ reset' = (reset \/ Counted # {})
  /\ flagged' = FALSE
  /\ UNCHANGED <<job, out, indicator, runVars, logVars, lpc, stops,
                 mixed, disturbed>>
MarkStoppedStore ==
  /\ mpc = "stopping"
  /\ mpc' = "idle"
  /\ UpdateStore([held EXCEPT !.running = FALSE, !.active = 0])
  /\ leaked' = 0
  /\ reset' = (reset \/ Counted # {})
  /\ flagged' = FALSE
  /\ UNCHANGED <<job, out, indicator, runVars, logVars, lpc, stops,
                 mixed, disturbed>>

ManagerNext == StartWritesJob \/ StartSpawns \/ StopLoop \/ MarkStoppedLoad
               \/ MarkStoppedStore

\* A run is killed from outside.
RunKilled(r) ==
  /\ stops < MaxStops
  /\ r \in Live
  /\ stops' = stops + 1
  /\ RunsDie({r})
  /\ UNCHANGED <<job, out, indicator, rjob, exit, payload, status, logVars,
                 loopVars, reset, flagged, disturbed>>

\* The loop is killed from outside: its workers run on.
LoopKilled ==
  /\ stops < MaxStops
  /\ lpc = "up"
  /\ stops' = stops + 1
  /\ lpc' = "down"
  /\ UNCHANGED <<job, out, indicator, runVars, statusVars, logVars, mpc,
                 leaked, reset, flagged, mixed, disturbed>>

-----------------------------------------------------------------------------

Init ==
  /\ job = "missing"
  /\ out = [f \in OutputFiles |-> Nobody]
  /\ status = NoStatus
  /\ statusLock = Nobody
  /\ held = NoStatus
  /\ log \in {<<>>, <<Nobody>>}  \* the log may have an older entry
  /\ rotating = FALSE
  /\ rlog = <<>>
  /\ logged = log
  /\ indicator = Nobody
  /\ rpc = [r \in Runs |-> "new"]
  /\ rjob = [r \in Runs |-> "missing"]
  /\ exit = [r \in Runs |-> 0]
  /\ payload = [r \in Runs |-> FALSE]
  /\ lpc = "down"
  /\ mpc = "idle"
  /\ stops = 0
  /\ leaked = 0
  /\ reset = FALSE
  /\ flagged = FALSE
  /\ mixed = FALSE
  /\ disturbed = FALSE

Next ==
  \/ \E r \in Runs : WorkerStarts(r) \/ ManualStarts(r) \/ RunOnce(r) \/ RunKilled(r)
  \/ RotateLoad \/ RotateStore
  \/ ManagerNext
  \/ LoopReadsJob \/ LoopKilled
  \/ WatchdogWrites

Spec == Init /\ [][Next]_vars

-----------------------------------------------------------------------------
(* Properties *)

Stages == {"new", "boot", "write", "mark", "marking", "exec", "finish",
           "finishing", "log", "indicate", "errlog", "done", "dead"} \cup OutputFiles
StatusRecords == [exists : BOOLEAN, running : BOOLEAN, active : Nat,
                  last : Runs \cup {Nobody}]

\* Every variable holds a value of its kind; the run counter of status.json in
\* particular never goes below zero, a stop in mid-run included.
TypeOK ==
  /\ job \in {"missing", "full", "stripped"}
  /\ out \in [OutputFiles -> Runs \cup {Nobody}]
  /\ status \in StatusRecords
  /\ statusLock \in Runs \cup {Manager, Nobody}
  /\ held \in StatusRecords
  /\ {log, rlog, logged} \subseteq Seq(Runs \cup {Nobody})
  /\ rotating \in BOOLEAN
  /\ indicator \in Runs \cup {Nobody}
  /\ rpc \in [Runs -> Stages]
  /\ rjob \in [Runs -> {"missing", "full", "stripped"}]
  /\ exit \in [Runs -> {0, 1}]
  /\ payload \in [Runs -> BOOLEAN]
  /\ lpc \in {"down", "boot", "up", "refused"}
  /\ mpc \in {"idle", "spawn", "stop", "stopping"}
  /\ stops \in 0 .. MaxStops
  /\ leaked \in Nat
  /\ reset \in BOOLEAN /\ flagged \in BOOLEAN /\ mixed \in BOOLEAN /\ disturbed \in BOOLEAN

\* mark_run_started and mark_run_finished: "so overlapping runs cannot clear
\* another live worker".  As long as no stop has zeroed the count of a run in
\* progress, whoever else starts, ends or is killed, every run that has been
\* entered is in the count, and status.json shows the collector running unless
\* the watchdog has said otherwise since.
NoHiddenRun ==
  ~reset => /\ status.active >= Cardinality(Counted)
            /\ Counted # {} /\ ~flagged => status.running

\* The converse: the count never exceeds the runs in progress by more than the
\* runs killed since the last stop, so a status that shows a finished
\* collector as running can only be due to a kill, which a stop clears, or to
\* the watchdog, whose word the next run or stop corrects.
NoPhantomRun ==
  /\ status.active <= Cardinality(Counted) + leaked
  /\ status.running /\ ~flagged => status.active > 0

\* append_log_entry and rotate_log share a lock "so append and
\* read-modify-replace rotation cannot overwrite each other": the log is at
\* any moment the last entries of all those ever appended, and has lost none
\* that the rotation rule keeps.
LogIsTail ==
  /\ IsSuffix(log, logged)
  /\ Len(log) >= Len(logged) \/ Len(log) >= Keep

\* run_once leaves in job.json what collector-loop-foreground dies of; that
\* start_loop rewrites job.json makes up for it, unless a run is in progress
\* while the loop starts.
RefusalExplained == lpc = "refused" => disturbed

\* README.md:906: "Collector indicators follow the collector exit code
\* automatically: `0` stores an `ok` indicator state and any non-zero exit code
\* stores `error`."  When the last run of an idle collector that nothing
\* disturbed ended with 0, the indicator shows a run that ended with 0.
IndicatorFollowsExit ==
  ~mixed /\ Live = {} /\ status.last # Nobody /\ exit[status.last] = 0 =>
    indicator # Nobody /\ exit[indicator] = 0
=============================================================================
