------------------------------ MODULE CronSlots ------------------------------
(***************************************************************************)
(* The slots of a cron collector (_run_loop_child, _job_is_due, _cron_due, *)
(* _write_loop_state and _run_loop_worker in CollectorRunner.pm): the loop *)
(* looks at the clock once a second and remembers in loop.json the minute  *)
(* it has run last.  Everybody else who writes something in that file, and *)
(* the loop itself when it is about something else, reads it, changes his  *)
(* fields and replaces the file, with no lock: the loop's heartbeats and   *)
(* its end, starts that adopt the loop or have launched it, and workers    *)
(* whose run has failed.  Stops and cleanups remove it.                    *)
(*                                                                         *)
(* One loop at a time (see CollectorLoop); the other fields of loop.json   *)
(* are left out.                                                           *)
(***************************************************************************)
EXTENDS Integers, FiniteSets

CONSTANTS
  Due,          \* the minutes that the expression names (see CronFields)
  LastMinute,   \* bound on the clock
  Parallel,     \* $max_parallel
  Starters,     \* processes that call start_loop
  TheLoop,      \* the loop's process
  MaxLaunches   \* bound on the loops and workers launched

VARIABLES
  minute,   \* the clock
  cron,     \* where the loop is, or "none"
  starts,   \* loops started
  stamp,    \* the minute the loop has read from the clock
  slot,     \* last_cron_slot in loop.json, or Never
  starter,  \* starter[m]: "idle", "load" or "store"
  workers,  \* workers[w]: "new", "run", "load", "store" or "ended"
  read,     \* read[p]: last_cron_slot as p has read it, in _write_loop_state
  active,   \* %active_workers
  runs,     \* launches: <<minute, worker>>
  lost,     \* history: minutes that were in loop.json, and are removed or overwritten
  missed    \* history: minutes taken that were not run for a reason

losses == <<lost, missed>>
slotVars ==
  <<minute, cron, starts, stamp, slot, starter, workers, read, active, runs, losses>>

Never == -1
Workers == 1 .. MaxLaunches - 1  \* in the order of their launch
Writers == Workers \cup Starters \cup {TheLoop}

\* loop.json loses a minute to another, or to none.
Loses(new) == /\ slot' = new
              /\ lost' = IF slot \in {Never, new} THEN lost ELSE lost \cup {slot}

\* A loop that ends when it has taken a minute and not launched its run.
Interrupted == IF cron = "launch" THEN {stamp} ELSE {}

-----------------------------------------------------------------------------
(* _write_loop_state, of fields other than last_cron_slot *)

Load(p) == /\ read' = [read EXCEPT ![p] = slot]
           /\ UNCHANGED <<slot, lost>>

\* The file is replaced, with all else as it was read.
Store(p) == /\ Loses(read[p])
            /\ read' = [read EXCEPT ![p] = Never]

-----------------------------------------------------------------------------
(* start_loop, by process m *)

\* It finds no loop and launches one, or finds one and adopts it; then it writes
\* what it knows of the loop, ...
start_loop(m) ==
  /\ starter[m] = "idle" /\ starter' = [starter EXCEPT ![m] = "load"]
  /\ \/ /\ cron = "none" /\ starts + Cardinality(runs) < MaxLaunches
        /\ cron' = "begin" /\ starts' = starts + 1
     \/ cron # "none" /\ UNCHANGED <<cron, starts>>
  /\ UNCHANGED <<minute, stamp, slot, workers, read, active, runs, losses>>

\* ... whatever the loop has become by then.
Records(m) ==
  /\ \/ /\ starter[m] = "load" /\ starter' = [starter EXCEPT ![m] = "store"]
        /\ Load(m)
     \/ /\ starter[m] = "store" /\ starter' = [starter EXCEPT ![m] = "idle"]
        /\ Store(m)
  /\ UNCHANGED <<minute, cron, starts, stamp, workers, active, runs, missed>>

-----------------------------------------------------------------------------
(* The loop *)

Goes(from, to) == cron = from /\ cron' = to

Unreaped == {w \in active : workers[w] # "ended"}

\* A tick begins after the sleep: it reaps, and writes its heartbeat.
Heartbeat ==
  /\ \/ Goes("begin", "beat") /\ active' = Unreaped /\ Load(TheLoop)
     \/ Goes("beat", "tick") /\ UNCHANGED active /\ Store(TheLoop)
  /\ UNCHANGED <<minute, starts, stamp, starter, workers, runs, missed>>

\* In a minute of the expression other than the one in loop.json, the job is due.
_job_is_due ==
  /\ Goes("tick", IF minute \in Due /\ slot # minute THEN "store" ELSE "begin")
  /\ stamp' = minute
  /\ UNCHANGED <<minute, starts, slot, starter, workers, read, active, runs, losses>>

\* Mutant: the minute is not saved.
_write_slot_Forgets ==
  /\ Goes("store", "launch")
  /\ UNCHANGED <<minute, starts, stamp, slot, starter, workers, read, active, runs, losses>>

\* Mutant: the clock is read again.
_write_slot_Now ==
  /\ Goes("store", "launch")
  /\ slot' = minute
  /\ UNCHANGED <<minute, starts, stamp, starter, workers, read, active, runs, losses>>

_write_slot ==
  /\ Goes("store", "launch")
  /\ slot' = stamp
  /\ UNCHANGED <<minute, starts, stamp, starter, workers, read, active, runs, losses>>

\* A worker, if the pool has room; the launch may fail.
_start_loop_worker ==
  /\ \/ /\ Goes("launch", "begin")
        /\ Cardinality(active) >= Parallel
        /\ missed' = missed \cup {stamp}
        /\ UNCHANGED <<workers, active, runs>>
     \/ /\ Goes("launch", "note")
        /\ Cardinality(active) < Parallel
        /\ \/ \E w \in Workers :
                /\ starts + Cardinality(runs) < MaxLaunches
                /\ workers[w] = "new" /\ \A v \in 1 .. w - 1 : workers[v] # "new"
                /\ workers' = [workers EXCEPT ![w] = "run"]
                /\ active' = active \cup {w}
                /\ runs' = runs \cup {<<stamp, w>>}
                /\ UNCHANGED missed
           \/ /\ missed' = missed \cup {stamp}
              /\ UNCHANGED <<workers, active, runs>>
  /\ UNCHANGED <<minute, starts, stamp, slot, starter, read, lost>>

\* It writes the new active_runs, or the error.
Notes ==
  /\ \/ Goes("note", "noted") /\ Load(TheLoop)
     \/ Goes("noted", "begin") /\ Store(TheLoop)
  /\ UNCHANGED <<minute, starts, stamp, starter, workers, active, runs, missed>>

\* SIGCHLD, wherever the loop is, and while it sleeps.
_reap_finished_loop_workers ==
  /\ cron # "none" /\ active # Unreaped
  /\ active' = Unreaped
  /\ UNCHANGED <<minute, cron, starts, stamp, slot, starter, workers, read, runs, losses>>

\* SIGTERM, wherever the loop is: it ends its workers, ...
_signal_stop ==
  /\ cron \notin {"none", "down", "stopped", "exit"} /\ cron' = "down"
  /\ workers' = [w \in Workers |-> IF w \in active THEN "ended" ELSE workers[w]]
  /\ read' = [p \in Writers |-> IF p \in active \cup {TheLoop} THEN Never ELSE read[p]]
  /\ active' = {}
  /\ missed' = missed \cup Interrupted
  /\ UNCHANGED <<minute, starts, stamp, slot, starter, runs, lost>>

\* ... writes that it is stopped, removes its files and exits.
_shutdown_loop ==
  /\ \/ Goes("down", "stopped") /\ Load(TheLoop)
     \/ Goes("stopped", "exit") /\ Store(TheLoop)
     \/ /\ Goes("exit", "none")
        /\ Loses(Never)
        /\ UNCHANGED read
  /\ UNCHANGED <<minute, starts, stamp, starter, workers, active, runs, missed>>

\* The loop is killed, or dies, and its workers live on.
Crash ==
  /\ cron # "none" /\ cron' = "none"
  /\ active' = {} /\ read' = [read EXCEPT ![TheLoop] = Never]
  /\ missed' = missed \cup Interrupted
  /\ UNCHANGED <<minute, starts, stamp, slot, starter, workers, runs, lost>>

-----------------------------------------------------------------------------

\* A run ends, or fails, and then the worker writes the error into loop.json; or it is
\* killed, as by a stop.
_run_loop_worker(w) ==
  /\ \/ /\ workers[w] = "run" /\ workers' = [workers EXCEPT ![w] = "load"]
        /\ UNCHANGED <<read, slot, lost>>
     \/ /\ workers[w] \in {"run", "load", "store"}
        /\ workers' = [workers EXCEPT ![w] = "ended"]
        /\ read' = [read EXCEPT ![w] = Never]
        /\ UNCHANGED <<slot, lost>>
     \/ /\ workers[w] = "load" /\ workers' = [workers EXCEPT ![w] = "store"]
        /\ Load(w)
     \/ /\ workers[w] = "store" /\ workers' = [workers EXCEPT ![w] = "ended"]
        /\ Store(w)
  /\ UNCHANGED <<minute, cron, starts, stamp, starter, active, runs, missed>>

\* By a stop once the loop is gone, or at once if the loop is of another pid namespace;
\* by whoever has found the loop gone, perhaps before the next one began.
_cleanup_loop_files ==
  /\ slot # Never
  /\ Loses(Never)
  /\ UNCHANGED <<minute, cron, starts, stamp, starter, workers, read, active, runs, missed>>

\* The clock, which no step waits for.
Minute ==
  /\ minute < LastMinute /\ minute' = minute + 1
  /\ UNCHANGED <<cron, starts, stamp, slot, starter, workers, read, active, runs, losses>>

SlotInit ==
  /\ minute = 0 /\ cron = "none" /\ starts = 0 /\ stamp = Never /\ slot = Never
  /\ starter = [m \in Starters |-> "idle"]
  /\ workers = [w \in Workers |-> "new"] /\ read = [p \in Writers |-> Never]
  /\ active = {} /\ runs = {} /\ lost = {} /\ missed = {}

LoopSteps ==
  \/ Heartbeat \/ _job_is_due \/ _write_slot \/ _start_loop_worker \/ Notes
  \/ _reap_finished_loop_workers \/ _signal_stop \/ _shutdown_loop \/ Crash

SlotNext ==
  \/ LoopSteps
  \/ \E m \in Starters : start_loop(m) \/ Records(m)
  \/ \E w \in Workers : _run_loop_worker(w)
  \/ _cleanup_loop_files \/ Minute

SlotSpec == SlotInit /\ [][SlotNext]_slotVars

-----------------------------------------------------------------------------
\* A minute is run twice only when loop.json lost it in between: to a stop or a
\* cleanup, or to somebody who wrote back what he had read before the minute was saved,
\* a start that adopts the loop or has launched it or a failed worker (so that one loop
\* may run a minute twice, which README.md:783 does not expect).
TwiceExplained ==
  \A r, q \in runs :
    r[1] = q[1] /\ r # q => r[1] \in lost

\* A minute is taken for done only when it was run, or the loop that took it
\* had no room, could not launch or was ended just then; or is about to launch.
TakenIsRun ==
  \/ slot = Never
  \/ \E r \in runs : r[1] = slot
  \/ cron = "launch" /\ stamp = slot
  \/ slot \in missed
=============================================================================
