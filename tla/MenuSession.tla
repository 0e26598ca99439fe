---------------------------- MODULE MenuSession ----------------------------
(***************************************************************************)
(* One native menu from start to stop: SystemMenu::Runner in the           *)
(* foreground service, the routine in which it lets System::Menu run, and  *)
(* the helper process both reach through SystemMenu.xs and                 *)
(* SystemMenuNative.h.  The two interpreters share the process-wide        *)
(* handles under helper_lock; %RUNTIME is the routine's own, so a stop     *)
(* called in the other interpreter cannot clear its `active`.              *)
(*                                                                         *)
(* An XS call is one step, as it holds the lock throughout, except where   *)
(* it can block: a write to a full pipe is a step of its own with the lock *)
(* held, and _stop waits for the process after it has let go of the lock.  *)
(* A write to a helper that is gone raises SIGPIPE, which nothing in the   *)
(* dashboard handles: it ends the process or, if a server underneath has   *)
(* chosen to ignore it, fails.  Pipes count messages; the helper is what   *)
(* LinuxMenu and WindowsMenu have in detail.                               *)
(***************************************************************************)
EXTENDS Naturals, Sequences

CONSTANTS
  CommandCap,  \* commands the helper's input pipe holds
  EventCap,    \* events its output pipe holds
  MaxClicks,   \* bound on the user's clicks
  MaxCrashes   \* bound on the helper ending by itself

VARIABLES
  lock,     \* helper_lock: "free", or who is in a write
  pid,      \* helper_pid is set
  fds,      \* helper_fd and event_fd are open
  proc,     \* the helper: "none", "up", "zombie", "reaped"
  shown,    \* the helper has handled `run`
  blocked,  \* the helper is in emit_click with the pipe full
  commands, \* what is in the command pipe
  events,   \* clicks in the event pipe
  pc,       \* where the runner and the routine are
  active,   \* the routine's $rt->{active}
  lines,    \* events the routine has read and not dispatched
  failed,   \* the routine's run() has died
  host,     \* the dashboard process: "up" or "killed"
  broken,   \* history: a write failed with EPIPE
  clicks, crashes

handles == <<pid, fds>>
helper == <<proc, shown, blocked, commands, events, clicks, crashes>>
routine == <<active, lines, failed>>
vars == <<lock, handles, helper, pc, routine, host, broken>>

-----------------------------------------------------------------------------
Step(p, from, to) == /\ host = "up" /\ pc[p] = from
                     /\ pc' = [pc EXCEPT ![p] = to]

\* lock_helper ... unlock_helper around a call that does not block.
Locked(p) == lock = "free"

\* waitpid(WNOHANG) in helper_is_running_unlocked.
Running == pid /\ proc = "up"

\* close_helper_state_unlocked: nobody waits for the process.
CloseState == pid' = FALSE /\ fds' = FALSE

\* Mutant: a helper that has ended is not forgotten with its status.
Look_KeepsPid == /\ proc' = IF pid /\ proc = "zombie" THEN "reaped" ELSE proc
                 /\ UNCHANGED handles
\* helper_is_running_unlocked: a helper that has ended is reaped and forgotten.
Look == IF pid /\ proc = "zombie"
        THEN proc' = "reaped" /\ CloseState
        ELSE UNCHANGED <<proc, handles>>

restOfHelper == <<shown, blocked, commands, events, clicks, crashes>>

-----------------------------------------------------------------------------
(* _command_json *)

\* The check; a command is not sent to a helper that is not running.
Check(p, from, write, croak) ==
  /\ Locked(p)
  /\ Step(p, from, IF Running THEN write ELSE croak)
  /\ lock' = IF Running THEN p ELSE "free"
  /\ Look
  /\ UNCHANGED <<restOfHelper, host, broken>>

\* write_all_posix: blocks while the pipe is full and somebody may read it.
WriteDone(p, from, command, to) ==
  /\ proc = "up" /\ Len(commands) < CommandCap
  /\ Step(p, from, to)
  /\ commands' = Append(commands, command)
  /\ lock' = "free"
  /\ UNCHANGED <<handles, proc, shown, blocked, events, clicks, crashes, host, broken>>

\* The helper ended since the check.
WriteFails(p, from, croak) ==
  /\ proc # "up"
  /\ Step(p, from, croak)
  /\ lock' = "free" /\ CloseState /\ broken' = TRUE
  /\ UNCHANGED <<helper, host>>

WriteKills(p, from) ==
  /\ proc # "up" /\ host = "up" /\ pc[p] = from
  /\ host' = "killed" /\ CloseState /\ lock' = "free"
  /\ UNCHANGED <<helper, pc, broken>>

-----------------------------------------------------------------------------
(* System::Menu::stop and _stop, called by p *)

\* _stop() if _running()
StopLook(p, skip) ==
  /\ Locked(p)
  /\ Step(p, "stopLook", IF Running THEN "stopCall" ELSE skip)
  /\ Look
  /\ UNCHANGED <<lock, restOfHelper, routine, host, broken>>

StopCall(p, skip) ==
  /\ Check(p, "stopCall", "stopWrite", skip)
  /\ UNCHANGED routine

\* Mutant: the pipes stay open when the command has been written.
StopCloses_NotPipes == pid' = FALSE /\ UNCHANGED fds
StopCloses == CloseState

StopWrite(p) ==
  /\ Step(p, "stopWrite", "stopWait")
  /\ proc = "up" => Len(commands) < CommandCap
  /\ commands' = IF proc = "up" THEN Append(commands, "stop") ELSE commands
  /\ lock' = "free" /\ StopCloses
  /\ UNCHANGED <<proc, shown, blocked, events, clicks, crashes, routine, host, broken>>

\* Mutant: the process is left to itself.
StopWait_Returns(p, to) ==
  /\ Step(p, "stopWait", to)
  /\ UNCHANGED <<lock, handles, helper, routine, host, broken>>
\* waitpid, with the lock released (on Windows for five seconds, then the
\* process is terminated).
StopWait(p, to) ==
  /\ proc = "zombie"
  /\ Step(p, "stopWait", to)
  /\ proc' = "reaped"
  /\ UNCHANGED <<lock, handles, restOfHelper, routine, host, broken>>

StopNext(p, skip) ==
  \/ StopLook(p, skip) \/ StopCall(p, skip) \/ StopWrite(p) \/ StopWait(p, skip)
  \/ WriteKills(p, "stopWrite") /\ UNCHANGED routine

-----------------------------------------------------------------------------
(* The routine: System::Menu::run *)

Begin ==
  /\ Step("routine", "created", "start")
  /\ active' = TRUE
  /\ UNCHANGED <<lock, handles, helper, lines, failed, host, broken>>

\* _start: a helper that runs already is taken as it is.
Start ==
  /\ Locked("routine")
  /\ Step("routine", "start", "sendRun")
  /\ IF Running THEN UNCHANGED <<handles, proc>>
     ELSE pid' = TRUE /\ fds' = TRUE /\ proc' = "up"
  /\ UNCHANGED <<lock, restOfHelper, routine, host, broken>>

\* No helper next to the bundle, no pipe, no process.
StartFails ==
  /\ Locked("routine") /\ ~Running
  /\ Step("routine", "start", "stopLook")
  /\ failed' = TRUE
  /\ UNCHANGED <<lock, handles, helper, active, lines, host, broken>>

SendRun ==
  \/ /\ Check("routine", "sendRun", "writeRun", "stopLook")
     /\ failed' = ~Running
     /\ UNCHANGED <<active, lines>>
  \/ /\ WriteDone("routine", "writeRun", "run", "loop")
     /\ UNCHANGED routine
  \/ /\ WriteFails("routine", "writeRun", "stopLook")
     /\ failed' = TRUE
     /\ UNCHANGED <<active, lines>>
  \/ WriteKills("routine", "writeRun") /\ UNCHANGED routine

\* while ($rt->{active} && _running()), and the same look once more at its end.
Loop ==
  /\ Locked("routine")
  /\ Step("routine", "loop", IF active /\ Running THEN "read" ELSE "ended")
  /\ Look
  /\ UNCHANGED <<lock, restOfHelper, routine, host, broken>>

\* _read_events takes all there is.  (It also closes event_fd at the end of the
\* file, when the helper has ended and nobody will write there again.)
ReadEvents ==
  /\ Locked("routine")
  /\ Step("routine", "read", "dispatch")
  /\ IF fds THEN lines' = lines + events /\ events' = 0 ELSE UNCHANGED <<lines, events>>
  /\ UNCHANGED <<lock, handles, proc, shown, blocked, commands, clicks, crashes,
                 active, failed, host, broken>>

\* The rest of _dispatch_events: a click does nothing more, sends an icon (one
\* that croaks is warned about), or calls stop on the menu.
Dispatch ==
  /\ IF lines = 0 \/ ~active
     THEN Step("routine", "dispatch", "loop") /\ UNCHANGED routine
     ELSE /\ lines' = lines - 1
          /\ UNCHANGED failed
          /\ \/ Step("routine", "dispatch", "dispatch") /\ UNCHANGED active
             \/ Step("routine", "dispatch", "sendIcon") /\ UNCHANGED active
             \/ Step("routine", "dispatch", "stopLook") /\ active' = FALSE
  /\ UNCHANGED <<lock, handles, helper, host, broken>>

SendIcon ==
  /\ \/ Check("routine", "sendIcon", "writeIcon", "dispatch")
     \/ WriteDone("routine", "writeIcon", "icon", "dispatch")
     \/ WriteFails("routine", "writeIcon", "dispatch")
     \/ WriteKills("routine", "writeIcon")
  /\ UNCHANGED routine

RoutineNext ==
  \/ Begin \/ Start \/ StartFails \/ SendRun \/ Loop \/ ReadEvents
  \/ Dispatch \/ SendIcon
  \/ StopNext("routine", IF failed THEN "ended" ELSE "dispatch")

-----------------------------------------------------------------------------
(* SystemMenu::Runner: run_with *)

\* The service ends or fails: stop.
ServiceEnds ==
  /\ Step("runner", "serving", "stopLook")
  /\ UNCHANGED <<lock, handles, helper, routine, host, broken>>

\* while ($routine->is_running), then its status.
Join ==
  /\ pc["routine"] = "ended"
  /\ Step("runner", "join", IF failed THEN "raised" ELSE "returned")
  /\ UNCHANGED <<lock, handles, helper, routine, host, broken>>

RunnerNext == ServiceEnds \/ StopNext("runner", "join") \/ Join

-----------------------------------------------------------------------------
(* The helper process *)

Ends == /\ proc' = "zombie" /\ blocked' = FALSE /\ commands' = <<>>
        /\ UNCHANGED <<shown, events, clicks>>

HelperReads ==
  /\ proc = "up" /\ ~blocked /\ commands # <<>>
  /\ IF Head(commands) = "stop" THEN Ends
     ELSE /\ commands' = Tail(commands)
          /\ shown' = (shown \/ Head(commands) = "run")
          /\ UNCHANGED <<proc, blocked, events, clicks>>
  /\ UNCHANGED <<crashes, lock, handles, pc, routine, host, broken>>

\* The end of the input: at once on Linux, after the commands on Windows.
HelperHangsUp ==
  /\ proc = "up" /\ ~blocked /\ ~fds
  /\ Ends
  /\ UNCHANGED <<crashes, lock, handles, pc, routine, host, broken>>

\* A user's click, and the write of its event.
HelperClick ==
  /\ proc = "up" /\ ~blocked /\ shown /\ clicks < MaxClicks
  /\ clicks' = clicks + 1
  /\ blocked' = TRUE
  /\ UNCHANGED <<proc, shown, commands, events, crashes,
                 lock, handles, pc, routine, host, broken>>

HelperEmits ==
  /\ proc = "up" /\ blocked
  /\ \/ ~fds /\ Ends
     \/ /\ fds /\ events < EventCap
        /\ events' = events + 1 /\ blocked' = FALSE
        /\ UNCHANGED <<proc, shown, commands, clicks>>
  /\ UNCHANGED <<crashes, lock, handles, pc, routine, host, broken>>

\* It ends by itself: no desktop session, a fatal error, killed.
HelperCrashes ==
  /\ proc = "up" /\ crashes < MaxCrashes
  /\ crashes' = crashes + 1
  /\ Ends
  /\ UNCHANGED <<lock, handles, pc, routine, host, broken>>

HelperNext == HelperReads \/ HelperHangsUp \/ HelperEmits

-----------------------------------------------------------------------------
\* Runner::start has created the routine and the service runs.
Init ==
  /\ lock = "free" /\ pid = FALSE /\ fds = FALSE
  /\ proc = "none" /\ shown = FALSE /\ blocked = FALSE
  /\ commands = <<>> /\ events = 0
  /\ pc = [runner |-> "serving", routine |-> "created"]
  /\ active = FALSE /\ lines = 0 /\ failed = FALSE
  /\ host = "up" /\ broken = FALSE /\ clicks = 0 /\ crashes = 0

Next == RoutineNext \/ RunnerNext \/ HelperNext \/ HelperClick \/ HelperCrashes

Spec == Init /\ [][Next]_vars

\* Threads and processes that can go on do; a user need not click, a service
\* need not end and a helper need not crash.  A call of the other thread holds
\* the lock for a bounded time unless it is in a write.
Fairness == /\ WF_vars(RoutineNext)
            /\ WF_vars(StopNext("runner", "join") \/ Join)
            /\ WF_vars(HelperNext)

LiveSpec == Spec /\ Fairness

-----------------------------------------------------------------------------
\* As long as the dashboard lives, exactly one party answers for a helper that
\* has been started and not reaped: helper_pid (whoever looks next), or the one
\* caller that took the pid to wait for it; and nobody waits for a pid that has
\* been reaped, which may be another process's by then.  The one exception is a
\* write that failed: it drops the pid, and the helper stays a zombie.
OneReaper ==
  LET reapers == (IF pid THEN {"pid"} ELSE {})
                   \cup {p \in {"runner", "routine"} : pc[p] = "stopWait"}
  IN host = "up" =>
       IF proc \in {"up", "zombie"} /\ ~broken THEN \E r \in reapers : reapers = {r}
       ELSE reapers = {}

\* Runner::stop returns, or raises the routine's error, only when the routine has
\* ended and no helper runs; none is left unreaped but for a failed write.
NothingLeft ==
  pc["runner"] \in {"returned", "raised"} =>
    /\ pc["routine"] = "ended"
    /\ proc # "up"
    /\ proc = "zombie" => broken

StopOver == pc["runner"] \in {"returned", "raised"} \/ host = "killed"

\* A stop that finds the helper running comes to an end: the helper gets its
\* command or the end of its input, is not held up by events nobody reads, and
\* the routine sees that it is gone.
StopReturns == pc["runner"] = "stopCall" ~> StopOver
=============================================================================
