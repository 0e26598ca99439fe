----------------------------- MODULE CommandRun -----------------------------
(***************************************************************************)
(* One command of a collector (CommandRunner.pm on POSIX): run_command in  *)
(* the worker, the launcher that becomes the command, another process of   *)
(* the command's session, the alarm, and a stop of the worker              *)
(* (_terminate_loop_workers of CollectorRunner.pm).                        *)
(*                                                                         *)
(* Perl runs a signal handler between two operations, never inside one: a  *)
(* signal that comes while system() is in C code is pending, and of all    *)
(* that system() does only waitpid is interrupted by one.  HUP is handled  *)
(* as TERM is; Perl ignores INT while system() waits.                      *)
(***************************************************************************)
VARIABLES
  pc,        \* the worker's place
  inEval,    \* it is inside the eval around system()
  why,       \* what its cleanup is for: "none", "timeout" or "signal"
  reaped,    \* terminate_command_process has collected the command
  pending,   \* signals that Perl has not dispatched
  alarm,     \* the alarm is set
  pidfile,   \* "empty", "pid" or "unlinked"
  cmd,       \* the child of system(): "none", one of Alive, "zombie" or "gone"
  kid,       \* another process of its session: "none", "running" or "ended"
  reused,    \* the kernel has given the command's pid to another process
  stop,      \* the place of the stop
  past       \* what the properties ask about the past

worker == <<pc, inEval, why, reaped>>
signals == <<pending, alarm>>
command == <<cmd, kid, reused>>
commandVars == <<worker, signals, pidfile, command, stop, past>>

\* The launcher is in the worker's session and group until setsid.
Launcher == {"launcher", "published"}
Alive == Launcher \cup {"session"}

Cleanup == {"find", "termGroup", "termPid", "poll", "killGroup", "killPid",
            "reap", "unlink", "raise"}
\* The places between two operations of Perl.
Perl == Cleanup \cup {"armed", "interrupted", "status", "left"}
Over == {"returned", "raised", "dead"}

Remember(what) == past' = past \cup {what}

-----------------------------------------------------------------------------
(* The command *)

\* The launcher: pid file, then setsid and exec.
command_launcher ==
  /\ \/ cmd = "launcher" /\ cmd' = "published" /\ pidfile' = "pid"
     \/ cmd = "published" /\ cmd' = "session" /\ UNCHANGED pidfile
  /\ UNCHANGED <<worker, signals, kid, reused, stop, past>>

\* The command starts another process; each ends by itself, and a launcher that
\* cannot write the pid or exec.
Fork ==
  /\ cmd = "session" /\ kid = "none" /\ kid' = "running"
  /\ UNCHANGED <<worker, signals, pidfile, cmd, reused, stop, past>>

Exit ==
  /\ \/ cmd \in Alive /\ cmd' = "zombie" /\ UNCHANGED kid
     \/ kid = "running" /\ kid' = "ended" /\ UNCHANGED cmd
  /\ UNCHANGED <<worker, signals, pidfile, reused, stop, past>>

\* init collects the child of a dead worker (kernel).
Adopted ==
  /\ cmd = "zombie" /\ pc = "dead" /\ cmd' = "gone"
  /\ UNCHANGED <<worker, signals, pidfile, kid, reused, stop, past>>

\* A pid is free when no process and no group has it (kernel).
Reuse ==
  /\ cmd = "gone" /\ kid # "running" /\ reused' = TRUE
  /\ UNCHANGED <<worker, signals, pidfile, cmd, kid, stop, past>>

-----------------------------------------------------------------------------
(* Signals to the worker *)

\* waitpid is interrupted; elsewhere the signal waits for Perl.
Signalled(sig) ==
  /\ pending' = IF pc \in Over THEN pending ELSE pending \cup {sig}
  /\ pc' = IF pc = "wait" THEN "interrupted" ELSE pc
  /\ UNCHANGED <<inEval, why, reaped>>

Alarm ==
  /\ alarm /\ pc \notin Over /\ alarm' = FALSE
  /\ Signalled("ALRM")
  /\ UNCHANGED <<pidfile, command, stop, past>>

\* The handler of ALRM dies, out of a cleanup for TERM too: inside the eval that
\* is a timeout, behind it it ends run_command.
DispatchAlarm ==
  /\ "ALRM" \in pending /\ pc \in Perl
  /\ pending' = pending \ {"ALRM"}
  /\ IF inEval
       THEN /\ pc' = "find" /\ why' = "timeout" /\ inEval' = FALSE
            /\ IF why = "signal" THEN Remember("again") ELSE UNCHANGED past
       ELSE pc' = "raised" /\ why' = "none" /\ UNCHANGED <<inEval, past>>
  /\ UNCHANGED <<reaped, alarm, pidfile, command, stop>>

\* forward_command_signal, to which TERM is blocked while it runs.
DispatchTerm ==
  /\ "TERM" \in pending /\ pc \in Perl /\ why # "signal"
  /\ pending' = pending \ {"TERM"}
  /\ IF why = "timeout" THEN Remember("again") ELSE UNCHANGED past
  /\ pc' = "find" /\ why' = "signal"
  /\ UNCHANGED <<inEval, reaped, alarm, pidfile, command, stop>>

-----------------------------------------------------------------------------
(* run_command, with its handlers installed and its alarm set *)

\* system() up to its waitpid.
System ==
  /\ \/ pc = "armed" /\ pc' = "system" /\ UNCHANGED cmd
     \/ pc = "system" /\ pc' = "forked" /\ cmd' = "launcher"
     \/ pc = "forked" /\ pc' = "wait" /\ UNCHANGED cmd
  /\ UNCHANGED <<inEval, why, reaped, signals, pidfile, kid, reused, stop, past>>

Waited ==
  /\ pc = "wait" /\ cmd = "zombie"
  /\ pc' = "status" /\ cmd' = "gone"
  /\ Remember("collected")
  /\ UNCHANGED <<inEval, why, reaped, signals, pidfile, kid, reused, stop>>

\* The end of the eval; then alarm(0), the exit code and unlink.
Leave ==
  /\ \/ /\ pc = "status" /\ pc' = "left" /\ inEval' = FALSE
        /\ UNCHANGED <<alarm, pidfile>>
     \/ /\ pc = "left" /\ pending = {}
        /\ pc' = "returned" /\ alarm' = FALSE /\ pidfile' = "unlinked"
        /\ UNCHANGED inEval
  /\ UNCHANGED <<why, reaped, pending, command, stop, past>>

-----------------------------------------------------------------------------
(* await_command_pid and terminate_command_process *)

\* Mutant: a single look.
await_command_pid_Once ==
  /\ pc = "find"
  /\ pc' = IF pidfile = "pid" THEN "termGroup" ELSE "unlink"
  /\ UNCHANGED <<inEval, why, reaped, signals, pidfile, command, stop, past>>

\* A hundred looks, at which the launcher may still not have come.
await_command_pid ==
  /\ pc = "find"
  /\ IF pidfile = "pid" THEN pc' = "termGroup" /\ UNCHANGED past
     ELSE /\ pc' = "unlink"
          /\ IF cmd \in Alive THEN Remember("gaveUp") ELSE UNCHANGED past
  /\ UNCHANGED <<inEval, why, reaped, signals, pidfile, command, stop>>

\* A command and its kid may ignore TERM, a launcher does not.
Terminated(p) ==
  CASE p \in Launcher -> {"zombie"}
    [] p = "session"  -> {p, "zombie"}
    [] p = "running"  -> {p, "ended"}
    [] OTHER          -> {p}

\* A signal to the pid, or to the group of that number, reaches who has it.
Astray(which) == IF reused THEN Remember(which) ELSE UNCHANGED past

\* There is no such group before setsid.
TermGroup ==
  /\ pc = "termGroup" /\ pc' = "termPid"
  /\ cmd' \in IF cmd = "session" THEN Terminated(cmd) ELSE {cmd}
  /\ kid' \in Terminated(kid)
  /\ Astray("astray")
  /\ UNCHANGED <<inEval, why, reaped, signals, pidfile, reused, stop>>

TermPid ==
  /\ pc = "termPid" /\ pc' = "poll"
  /\ cmd' \in Terminated(cmd)
  /\ Astray("astray")
  /\ UNCHANGED <<inEval, why, reaped, signals, pidfile, kid, reused, stop>>

\* Twenty looks; a command that system() has collected counts as collected.
Poll ==
  /\ pc = "poll" /\ pc' = "killGroup"
  /\ reaped' = (cmd \notin Alive)
  /\ cmd' = IF cmd \in Alive THEN cmd ELSE "gone"
  /\ UNCHANGED <<inEval, why, signals, pidfile, kid, reused, stop, past>>

\* Mutant: KILL only if the leader has not been collected.
KillGroup_IfAlive ==
  /\ pc = "killGroup" /\ pc' = IF reaped THEN "unlink" ELSE "killPid"
  /\ cmd' = IF cmd = "session" THEN "zombie" ELSE cmd
  /\ kid' = IF kid = "running" /\ ~reaped THEN "ended" ELSE kid
  /\ IF reaped THEN UNCHANGED past ELSE Astray("astrayKill")
  /\ UNCHANGED <<inEval, why, reaped, signals, pidfile, reused, stop>>

\* Mutant: the pid is signalled although it was collected.
KillGroup_ThenPid ==
  /\ pc = "killGroup" /\ pc' = "killPid"
  /\ cmd' = IF cmd = "session" THEN "zombie" ELSE cmd
  /\ kid' = IF kid = "running" THEN "ended" ELSE kid
  /\ Astray("astrayKill")
  /\ UNCHANGED <<inEval, why, reaped, signals, pidfile, reused, stop>>

\* The group may be there although its leader is not: so it is sent even when the
\* looks have collected the leader, and the number may be somebody else's by then.
KillGroup ==
  /\ pc = "killGroup" /\ pc' = IF reaped THEN "unlink" ELSE "killPid"
  /\ cmd' = IF cmd = "session" THEN "zombie" ELSE cmd
  /\ kid' = IF kid = "running" THEN "ended" ELSE kid
  /\ Astray("astrayKill")
  /\ UNCHANGED <<inEval, why, reaped, signals, pidfile, reused, stop>>

KillPid ==
  /\ pc = "killPid" /\ pc' = "reap"
  /\ cmd' = IF cmd \in Alive THEN "zombie" ELSE cmd
  /\ Astray("astray")
  /\ UNCHANGED <<inEval, why, reaped, signals, pidfile, kid, reused, stop>>

Reap ==
  /\ pc = "reap" /\ cmd \notin Alive
  /\ pc' = "unlink" /\ cmd' = "gone"
  /\ UNCHANGED <<inEval, why, reaped, signals, pidfile, kid, reused, stop, past>>

\* A timeout returns 124; a signal is raised again, with its handler gone.
Conclude ==
  /\ \/ pc = "unlink" /\ pc' = IF why = "timeout" THEN "returned" ELSE "raise"
     \/ pc = "raise" /\ pc' = "dead"
  /\ pidfile' = "unlinked"
  /\ UNCHANGED <<inEval, why, reaped, signals, command, stop, past>>

-----------------------------------------------------------------------------
(* _terminate_loop_workers, for this worker *)

\* TERM for the worker's group, then for the worker.
StopTerm ==
  /\ \/ stop = "idle" /\ stop' = (IF pc = "dead" THEN "kill" ELSE "term")
     \/ stop = "term" /\ stop' = "grace"
  /\ IF stop' = "kill" THEN UNCHANGED <<pending, worker>> ELSE Signalled("TERM")
  /\ cmd' = IF stop' = "term" /\ cmd \in Launcher THEN "zombie" ELSE cmd
  /\ UNCHANGED <<alarm, pidfile, kid, reused, past>>

\* Two seconds: a cleanup takes little more than one, so what outlasts them is a
\* worker that waits for its command.
StopGrace ==
  /\ stop = "grace" /\ stop' = "kill"
  /\ pc \in Over \cup {"wait"}
  /\ UNCHANGED <<worker, signals, pidfile, command, past>>

\* KILL for the worker's group, which a launcher may still be in.
StopKill ==
  /\ stop = "kill" /\ stop' = "over"
  /\ pc' = "dead"
  /\ cmd' = IF cmd \in Launcher THEN "zombie" ELSE cmd
  /\ IF pc \in Over THEN UNCHANGED past ELSE Remember("killed")
  /\ UNCHANGED <<inEval, why, reaped, signals, pidfile, kid, reused>>

-----------------------------------------------------------------------------
CommandInit ==
  /\ pc = "armed" /\ inEval = TRUE /\ why = "none" /\ reaped = FALSE
  /\ pending = {} /\ alarm = TRUE /\ pidfile = "empty"
  /\ cmd = "none" /\ kid = "none" /\ reused = FALSE
  /\ stop = "idle" /\ past = {}

CommandNext ==
  \/ DispatchAlarm \/ DispatchTerm \/ Alarm
  \/ System \/ Waited \/ Leave
  \/ await_command_pid \/ TermGroup \/ TermPid \/ Poll
  \/ KillGroup \/ KillPid \/ Reap \/ Conclude
  \/ command_launcher \/ Fork \/ Exit \/ Adopted \/ Reuse
  \/ StopTerm \/ StopGrace \/ StopKill

CommandSpec == CommandInit /\ [][CommandNext]_commandVars

-----------------------------------------------------------------------------
\* When run_command has timed out, or has ended its worker after a signal,
\* nothing of the command's session runs, whatever interrupted its cleanup; and
\* the command does not outlive a stop of its worker.  But for a launcher too late
\* for await_command_pid, and a worker killed inside run_command: then the KILL for
\* the worker's process group, which doc/collector-stop.md relies on, does not
\* reach a command that has called setsid.
Contained ==
  past \cap {"gaveUp", "killed"} = {} =>
    /\ <<pc, why>> \in {<<"returned", "timeout">>, <<"dead", "signal">>} =>
         cmd \notin Alive /\ kid # "running"
    /\ stop = "over" => cmd \notin Alive

\* run_command waits for what it signals: the pid is the command's while TERM is sent
\* and KILL to the pid, unless system() had collected the command when the signal came,
\* or one cleanup was interrupted for another.  Only KILL for the group
\* goes astray in a cleanup that nothing disturbed, which then has collected the
\* command itself, and nothing of the session is left that KILL would be needed for.
AstrayExplained ==
  /\ "astray" \in past => "collected" \in past \/ "again" \in past
  /\ "astrayKill" \in past => reaped /\ cmd = "gone" /\ kid # "running"

=============================================================================
