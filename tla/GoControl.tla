------------------------------ MODULE GoControl ------------------------------
(***************************************************************************)
(* The life of go routines (GoRoutine012Native.h, GoRoutine012.xs): go()   *)
(* counts a routine, starts its thread and publishes its handle; the       *)
(* thread runs the callback one Perl operation at a time and looks for a   *)
(* cancellation before each; kill() and timeout watchers request one;      *)
(* wait_all() and the shutdown of the root interpreter wait for the count. *)
(*                                                                         *)
(* A step is one critical section under a control block's mutex or the     *)
(* counter's, or what lies between two of them.  Time is abstract: an      *)
(* armed watcher may find its deadline passed at any moment.  A blocking   *)
(* operation may last for ever: the wake signal interrupts it if it comes  *)
(* while the operation blocks, and if the operation is of the kind that a  *)
(* signal ends (sleep, select, sysread; on POSIX, and not a read through   *)
(* PerlIO, which begins again, or a call into C).                          *)
(*                                                                         *)
(* Left out: cloning, destroying and freeing interpreters, what callbacks  *)
(* compute, ages, and wait_all called by a routine (which waits for        *)
(* itself).                                                                *)
(***************************************************************************)
EXTENDS Integers, FiniteSets

CONSTANTS
  Root,         \* the interpreter that loaded the module
  MaxRoutines,  \* bound on go() calls
  MaxCalls      \* bound on go() and timeout() calls together

VARIABLES
  launch,          \* launch[r]: how far go() has got with r
  caller,          \* caller[r]: the thread that called go() for r
  thread_valid,    \* go() stored the thread, go_control_finish withdrew it
  state,           \* state[r], a go_state, or "unborn"
  cancel_reason,   \* "none" as long as no cancellation is requested
  exit_requested,
  step,            \* step[t]: where the thread of a routine, or Root's, is
  verdict,         \* verdict[r]: final_state once the callback has ended
  waking,          \* routines whose cancellation was requested but not signalled
  late,            \* history: routines that began to block after their signal
  timeout_generation, armed,  \* armed[r]: timeout_seconds > 0
  watcher,         \* watcher[r][g]: the watcher thread of the g-th timeout() call
  go_active,
  calls            \* go() and timeout() calls made, for the bounds

ctlVars == <<state, cancel_reason, exit_requested, thread_valid>>
timeVars == <<timeout_generation, armed, watcher>>
goVars == <<launch, caller, go_active, calls>>
wakeVars == <<waking, late>>
vars == <<goVars, ctlVars, step, verdict, wakeVars, timeVars>>

Routines == 1 .. MaxRoutines  \* control blocks, in the order of allocation
Threads == Routines \cup {Root}
Generations == 1 .. MaxCalls - 1  \* the first call is a go()

Cancelled(r) == cancel_reason[r] # "none"

Moves(t, from, to) == /\ step[t] = from
                      /\ step' = [step EXCEPT ![t] = to]

\* go_active_dec
Dec(n) == IF n > 0 THEN n - 1 ELSE n

-----------------------------------------------------------------------------
(* go() *)

\* go_control_new and go_active_inc.
GoCounts(t, r) ==
  /\ calls < MaxCalls
  /\ calls' = calls + 1
  /\ launch[r] = "no" /\ \A q \in 1 .. r - 1 : launch[q] # "no"
  /\ Moves(t, "op", "go")
  /\ launch' = [launch EXCEPT ![r] = "counted"]
  /\ caller' = [caller EXCEPT ![r] = t]
  /\ state' = [state EXCEPT ![r] = "running"]
  /\ go_active' = go_active + 1
  /\ UNCHANGED <<cancel_reason, exit_requested, thread_valid, verdict, wakeVars,
                 timeVars>>

\* go_thread_create succeeds: the thread runs at once, ...
GoCreates(r) ==
  /\ launch[r] = "counted"
  /\ launch' = [launch EXCEPT ![r] = "created"]
  /\ step' = [step EXCEPT ![r] = "check"]
  /\ UNCHANGED <<caller, go_active, calls, ctlVars, verdict, wakeVars, timeVars>>

\* ... or fails, and go() dies; nobody has a handle.
GoFails(r) ==
  /\ launch[r] = "counted"
  /\ launch' = [launch EXCEPT ![r] = "failed"]
  /\ Moves(caller[r], "go", "op")
  /\ go_active' = Dec(go_active)
  /\ UNCHANGED <<caller, calls, ctlVars, verdict, wakeVars, timeVars>>

\* ctl->thread is stored, perhaps after the thread has ended; go() returns.
GoPublishes(r) ==
  /\ launch[r] = "created"
  /\ launch' = [launch EXCEPT ![r] = "handle"]
  /\ Moves(caller[r], "go", IF caller[r] = Root THEN "op" ELSE "check")
  /\ thread_valid' = [thread_valid EXCEPT ![r] = TRUE]
  /\ UNCHANGED <<caller, go_active, calls, state, cancel_reason, exit_requested,
                 verdict, wakeVars, timeVars>>

-----------------------------------------------------------------------------
(* go_worker, go_runops *)

\* The callback has ended, and go_worker reads why.
Ends(r, from, how) ==
  /\ Moves(r, from, "ended")
  /\ verdict' = [verdict EXCEPT ![r] = how]

\* Mutant: only exit is looked for.
Boundary_ExitOnly(r) ==
  /\ IF exit_requested[r] THEN Ends(r, "check", "exited")
     ELSE Moves(r, "check", "op") /\ UNCHANGED verdict
  /\ UNCHANGED <<goVars, ctlVars, wakeVars, timeVars>>

\* Before each operation.  The reason is read under the mutex once more.
Boundary(r) ==
  /\ IF Cancelled(r) THEN
       Ends(r, "check", IF cancel_reason[r] = "timeout" THEN "timed_out"
                                                        ELSE "killed")
     ELSE IF exit_requested[r] THEN Ends(r, "check", "exited")
     ELSE Moves(r, "check", "op") /\ UNCHANGED verdict
  /\ UNCHANGED <<goVars, ctlVars, wakeVars, timeVars>>

\* An operation: it ends, it is the last one, it dies, it begins to block, and then
\* a signal can interrupt it or not.
Operates(r) ==
  /\ \/ Moves(r, "op", "check") /\ UNCHANGED <<verdict, late>>
     \/ /\ Moves(r, "op", "blocked")
        /\ late' = IF Cancelled(r) /\ r \notin waking THEN late \cup {r} ELSE late
        /\ UNCHANGED verdict
     \/ Moves(r, "op", "opaque") /\ UNCHANGED <<verdict, late>>
     \/ (Ends(r, "op", "done") \/ Ends(r, "op", "failed")) /\ UNCHANGED late
  /\ UNCHANGED <<goVars, ctlVars, waking, timeVars>>

\* OP_EXIT, found before it is executed, inside any number of evals: the
\* exception ends the callback or is caught, and raised again at the next check.
Exits(r) ==
  /\ exit_requested' = [exit_requested EXCEPT ![r] = TRUE]
  /\ \/ Ends(r, "op", "exited")
     \/ Moves(r, "op", "check") /\ UNCHANGED verdict
  /\ UNCHANGED <<goVars, state, cancel_reason, thread_valid, wakeVars, timeVars>>

\* A blocking operation ends by itself, which nothing obliges it to.
Unblocks(r) ==
  /\ Moves(r, "blocked", "check") \/ Moves(r, "opaque", "check")
  /\ UNCHANGED <<goVars, ctlVars, verdict, wakeVars, timeVars>>

\* Mutant: the count goes down before the interpreter is destroyed.
Finishes_CountsDown(r) ==
  /\ Moves(r, "ended", "destroy")
  /\ state' = [state EXCEPT ![r] = verdict[r]]
  /\ thread_valid' = [thread_valid EXCEPT ![r] = FALSE]
  /\ go_active' = Dec(go_active)
  /\ UNCHANGED <<launch, caller, calls, cancel_reason, exit_requested, verdict, wakeVars,
                 timeVars>>

\* go_control_finish, then the interpreter is destroyed, ...
Finishes(r) ==
  /\ Moves(r, "ended", "destroy")
  /\ state' = [state EXCEPT ![r] = verdict[r]]
  /\ thread_valid' = [thread_valid EXCEPT ![r] = FALSE]
  /\ UNCHANGED <<goVars, cancel_reason, exit_requested, verdict, wakeVars, timeVars>>

\* ... then go_active_dec.
Leaves(r) ==
  /\ Moves(r, "destroy", "gone")
  /\ go_active' = Dec(go_active)
  /\ UNCHANGED <<launch, caller, calls, ctlVars, verdict, wakeVars, timeVars>>

-----------------------------------------------------------------------------
(* go_control_request_cancel *)

\* Mutant: a second request is accepted too.
RequestCancel_Overwrites(r, reason) ==
  IF state[r] = "running"
  THEN /\ cancel_reason' = [cancel_reason EXCEPT ![r] = reason]
       /\ waking' = IF thread_valid[r] THEN waking \cup {r} ELSE waking
  ELSE UNCHANGED <<cancel_reason, waking>>

\* Under the mutex; a request that comes second or too late is refused.
RequestCancel(r, reason) ==
  IF state[r] = "running" /\ ~Cancelled(r)
  THEN /\ cancel_reason' = [cancel_reason EXCEPT ![r] = reason]
       /\ waking' = IF thread_valid[r] THEN waking \cup {r} ELSE waking
  ELSE UNCHANGED <<cancel_reason, waking>>

\* Mutant: the signal interrupts nothing, as with SA_RESTART or SIG_IGN.
Wakes_Nobody(r) ==
  /\ r \in waking
  /\ waking' = waking \ {r}
  /\ UNCHANGED <<goVars, ctlVars, step, verdict, late, timeVars>>

\* After the unlock: the signal interrupts a blocking operation, and nothing else;
\* it is not kept for the next one.
Wakes(r) ==
  /\ r \in waking
  /\ waking' = waking \ {r}
  /\ step' = IF step[r] = "blocked" THEN [step EXCEPT ![r] = "check"] ELSE step
  /\ UNCHANGED <<goVars, ctlVars, verdict, late, timeVars>>

\* Routine->kill, by whoever has the handle.
Kill(r) ==
  /\ launch[r] = "handle"
  /\ RequestCancel(r, "kill")
  /\ UNCHANGED <<goVars, state, exit_requested, thread_valid, step, verdict, late,
                 timeVars>>

-----------------------------------------------------------------------------
(* Routine->timeout(seconds) and go_timeout_worker *)

\* A new generation; a watcher is wanted if the routine runs and seconds > 0.
Timeout(r, positive) ==
  /\ launch[r] = "handle"
  /\ calls < MaxCalls
  /\ calls' = calls + 1
  /\ LET g == timeout_generation[r] + 1 IN
     /\ timeout_generation' = [timeout_generation EXCEPT ![r] = g]
     /\ armed' = [armed EXCEPT ![r] = positive]
     /\ watcher' = IF state[r] = "running" /\ positive
                   THEN [watcher EXCEPT ![r][g] = "wanted"] ELSE watcher
  /\ UNCHANGED <<launch, caller, go_active, ctlVars, step, verdict, wakeVars>>

WatcherGoes(r, g, from, to) ==
  /\ watcher[r][g] = from
  /\ watcher' = [watcher EXCEPT ![r][g] = to]

\* Its thread is created, or cannot be and timeout() dies.
WatcherStarts(r, g) ==
  /\ \/ WatcherGoes(r, g, "wanted", "waiting")
     \/ WatcherGoes(r, g, "wanted", "ended")
  /\ UNCHANGED <<goVars, ctlVars, step, verdict, wakeVars, timeout_generation, armed>>

\* Mutant: only the generation and the seconds are looked at.
Current_IgnoresState(r, g) == timeout_generation[r] = g /\ armed[r]

Current(r, g) == state[r] = "running" /\ timeout_generation[r] = g /\ armed[r]

\* Under the mutex, every 100 ms at the latest: the watcher is not wanted any more, ...
WatcherRetires(r, g) ==
  /\ ~Current(r, g)
  /\ WatcherGoes(r, g, "waiting", "ended")
  /\ UNCHANGED <<goVars, ctlVars, step, verdict, wakeVars, timeout_generation, armed>>

\* ... or its time has come.
WatcherExpires(r, g) ==
  /\ Current(r, g)
  /\ WatcherGoes(r, g, "waiting", "expired")
  /\ UNCHANGED <<goVars, ctlVars, step, verdict, wakeVars, timeout_generation, armed>>

\* After the unlock: should_cancel.
WatcherCancels(r, g) ==
  /\ WatcherGoes(r, g, "expired", "ended")
  /\ RequestCancel(r, "timeout")
  /\ UNCHANGED <<goVars, state, exit_requested, thread_valid, step, verdict, late,
                 timeout_generation, armed>>

-----------------------------------------------------------------------------
(* go_wait_all_internal, for wait_all() and at the exit of the root *)

BarrierBegins ==
  /\ Moves(Root, "op", "barrier")
  /\ UNCHANGED <<goVars, ctlVars, verdict, wakeVars, timeVars>>

BarrierEnds ==
  /\ go_active = 0
  /\ Moves(Root, "barrier", "op")
  /\ UNCHANGED <<goVars, ctlVars, verdict, wakeVars, timeVars>>

-----------------------------------------------------------------------------

Init ==
  /\ launch = [r \in Routines |-> "no"]
  /\ caller = [r \in Routines |-> Root]
  /\ thread_valid = [r \in Routines |-> FALSE]
  /\ state = [r \in Routines |-> "unborn"]
  /\ cancel_reason = [r \in Routines |-> "none"]
  /\ exit_requested = [r \in Routines |-> FALSE]
  /\ step = [t \in Threads |-> IF t = Root THEN "op" ELSE "none"]
  /\ verdict = [r \in Routines |-> "none"]
  /\ waking = {}
  /\ late = {}
  /\ timeout_generation = [r \in Routines |-> 0]
  /\ armed = [r \in Routines |-> FALSE]
  /\ watcher = [r \in Routines |-> [g \in Generations |-> "none"]]
  /\ go_active = 0
  /\ calls = 0

GoOn(r) == GoCreates(r) \/ GoFails(r) \/ GoPublishes(r)

Runs(r) == Boundary(r) \/ Operates(r) \/ Exits(r) \/ Finishes(r) \/ Leaves(r)

Watches(r, g) == WatcherStarts(r, g) \/ WatcherRetires(r, g) \/ WatcherCancels(r, g)

Next ==
  \/ \E r \in Routines :
       \/ \E t \in Threads : GoCounts(t, r)
       \/ GoOn(r) \/ Runs(r) \/ Unblocks(r) \/ Wakes(r) \/ Kill(r)
       \/ \E positive \in BOOLEAN : Timeout(r, positive)
       \/ \E g \in Generations : Watches(r, g) \/ WatcherExpires(r, g)
  \/ BarrierBegins \/ BarrierEnds

Spec == Init /\ [][Next]_vars

\* Threads that are not blocked keep running, and a wake signal is sent once the
\* cancellation was accepted.  Nothing obliges a blocking operation to end, a
\* deadline to come, a kill to be sent, or a callback to return.
\* The calls of go(), the signals and the watchers take few steps each, so that
\* fairness to all of them together is fairness to each.
Fairness ==
  /\ \A r \in Routines : WF_vars(Runs(r))
  /\ WF_vars(\E r \in Routines : GoOn(r))
  /\ WF_vars(\E r \in Routines : Wakes(r))
  /\ WF_vars(\E r \in Routines, g \in Generations : Watches(r, g))
  /\ WF_vars(BarrierEnds)

LiveSpec == Spec /\ Fairness

-----------------------------------------------------------------------------
(* Properties *)

Finals == {"done", "killed", "timed_out", "exited", "failed"}
Finished(r) == state[r] \in Finals

\* status() tells the truth: "killed" and "timed_out" name the first request,
\* whatever came between it, the exception, the verdict and go_control_finish;
\* "exited" means that the callback called exit, and no status is final
\* while the callback can still run.
StatusHonest ==
  \A r \in Routines :
    /\ state[r] = "killed" => cancel_reason[r] = "kill"
    /\ state[r] = "timed_out" => cancel_reason[r] = "timeout"
    /\ state[r] = "exited" => exit_requested[r]
    /\ Finished(r) => step[r] \in {"destroy", "gone"}

\* wait_all is a barrier: the count it waits on is that of the routines that
\* were launched and are not gone, a thread that could not be created included
\* (so "if (go_active > 0)" never saves it from wrapping), and at zero each of
\* them is over, its interpreter too.
BarrierMeansFinished ==
  /\ go_active = Cardinality({r \in Routines :
       launch[r] \in {"counted", "created", "handle"} /\ step[r] # "gone"})
  /\ go_active = 0 =>
       \A r \in Routines : step[r] \in {"none", "gone"}
                          /\ (launch[r] = "handle" => Finished(r))

\* A routine that no signal gets out of its operation: signals do not interrupt it, or
\* the wake signal came between the last check and the block, where it found nothing
\* to interrupt and was gone.
Unreachable(r) == step[r] = "opaque" \/ (step[r] = "blocked" /\ r \in late)

\* A shutdown or wait_all ends once all routines have been told to: an accepted kill
\* or timeout ends its routine, looping or blocked, and each is counted down.  Unless
\* from some time on there is always one in an operation that the signal does not
\* interrupt or has missed: wait_all waits for as long as that lasts, cancellation or not.
BarrierOpens ==
  \/ step[Root] = "barrier" /\ (\A r \in Routines : Cancelled(r))
       ~> step[Root] # "barrier"
  \/ <>[](\E r \in Routines : Unreachable(r))

\* No watcher thread outlives its routine: the longest timeout does not keep
\* one waiting.
WatchersRetire ==
  \A r \in Routines :
    Finished(r) ~> \A g \in Generations : watcher[r][g] \in {"none", "ended"}

\* README.md: "Timeouts can be replaced or disabled with zero"; the test
\* says 'timeout zero disables the active timeout'.
DisabledStaysDisabled ==
  [][\A r \in Routines :
       cancel_reason[r] = "none" /\ cancel_reason'[r] = "timeout" => armed[r]]_vars
=============================================================================
