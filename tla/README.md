# Developer Dashboard: a TLA+ model

Developer Dashboard is a Perl (and some C) tool that runs on a developer's
machine: background *collectors* poll things and publish what they find, a local
web service and a command line show it, and a set of files under a layered
state directory is where all of them meet. There is no server process that owns
this state. Every `dashboard` command, every collector loop, every worker, the
watchdog and the web service is a process of its own, and they coordinate
through files (renamed into place, sometimes under `flock`), pidfiles, process
titles and signals. Below them are native libraries in C: go routines (threads
with channels and shared values inside one Perl process) and a system-tray menu
that runs in a helper process. This project models that coordination and that
native code.

Paths below are relative to the repository; `Runner`, `Collector` and `Manager`
stand for `lib/Developer/Dashboard/CollectorRunner.pm`, `Collector.pm` and
`RuntimeManager.pm`, and "the core helper" for `share/private-cli/_dashboard-core`.

## 1. Inventory

| Component | State | Operations | Interacts with | Hard because |
|---|---|---|---|---|
| Collector loop lifecycle (`Runner`) | `<name>.pid`, `loop.json`, the process table, each loop's `%active_workers` | `start_loop` (with adoption), `stop_loop`, `running_loops`, the loop and worker helpers | commands and the watchdog call it; loops launch workers through GoRoutine | no lock: looks and acts are apart; signals between any two operations; kills leave files behind |
| Collector runs and their files (`Runner::run_once`, `Collector`) | `job.json`, outputs, `status.json`, the log, the indicator | `run_once`, `mark_run_started/finished/stopped`, `write_result`, `append_log_entry`, `rotate_log` | loop workers, manual runs, stops, watchdog, housekeeper share the files | overlapping runs; kills between read and replace; stale job definition |
| Collector watchdog (`Manager`) | `collector-supervisor.json`, its pidfile, restart counters in `status.json` | start/stop commands, the supervisor's pass, restart budget | starts and stops loops; told by commands what to watch | unlocked read-work-replace by several processes; TERM/KILL in mid-pass |
| Collector schedules (`Runner`) | `last_cron_slot` in `loop.json` | cron matching, interval normalisation, slot deduplication | the loop's tick, starts, failed workers, stops | boundary arithmetic; a file that the loop, its workers and starts replace without a lock |
| Web service lifecycle (`Manager`) | web pidfile and state, the port | start, stop, restart, adoption of a running service, port probing | commands, update | pid reuse, waiting for ports |
| Web application (`Web/App.pm`, `Web/Server.pm`, `Web/DancerApp.pm`) | sessions, request context | routing, login, access tiers, page, Ajax and skill routes | sessions, pages, Ajax workers | order of the access checks |
| Sessions and helper users (`SessionStore`, `Auth`) | session and user files per layer | create, look up, expire, sweep, delete; add, verify, remove user | web application, housekeeper | expiry, layered lookup against single-layer deletes |
| Saved Ajax workers (`PageRuntime`) | running processes by singleton name | start, stream, replace, time out | web application, manager stop | replacing a process that is just ending |
| Command and action execution (`CommandRunner`, `ActionRunner`) | pidfile of the command, alarm | run with timeout, background action, signal forwarding | `run_once`, pages, skills | alarm and signals against the end of the command, deferred by Perl while it waits |
| GoRoutine channels (`GoRoutine012.xs`, `GoRoutine012Native.h`) | a slot with sequence numbers or a ring, per channel | send, receive, close | routines and the main interpreter | condition variables, cancellation, close with waiters |
| GoRoutine routines (same files, `GoRoutine.pm`) | a control block per routine, watcher threads, the worker count | go, kill, timeout, exit, status, wait_all | channels see its cancellations; shutdown waits for it | requests, expiry and end in any order, decisions acted on after an unlock |
| GoRoutine shared values (same files) | a process-wide graph of nodes under one recursive `shared_mutex`; an interpreter and a mutex per callback or handle | share, the tie operations of arrays and hashes, calls of shared callbacks | routines, the main interpreter | Perl operations are several native calls; a call that dies keeps the mutex; callbacks that call each other |
| GoRoutine native processes (`GoRoutineProcess.xs`, `GoRoutineProcessNative.h`) | pids | spawn, process_exited, terminate, wait | collector loops, actions | a pid is the kernel's to give away; quoting of argv |
| System menu session (`SystemMenu/Runner.pm`, `System/Menu.pm`, `SystemMenu.xs`, `SystemMenuNative.h`) | the helper's pid and pipes under `helper_lock`; the menu's items | start, run, icon, remove, event dispatch, stop | a routine runs the menu, the service's thread stops it, a helper process shows it | blocking writes with the lock held; a helper that dies at any moment; who reaps it |
| System menu helpers (`native/system_menu_helper_*`) | the item tree, widgets or popups, tray icons, icon files | commands from a pipe, the user's clicks | the session; GTK, Win32 or AppKit | handles into a tree that is replaced or pruned; files another process reads later |
| Indicators (`IndicatorStore`, `Prompt`, file watcher) | one file per indicator | locked set, synchronisation with configured collectors, clean-up | runs, prompt, web | several writers; stale entries |
| Skills (`SkillManager`, `SkillDispatcher`) | installed skill trees and flags | install, update, enable, disable, uninstall, dispatch with hooks | configuration, web, commands | one of several steps failing |
| Layers: configuration, paths, environment, compose files (`Config`, `PathRegistry`, `EnvLoader`, `DockerCompose`) | files of each layer | lookup and merge from the deepest layer to the home layer | everything | precedence |
| Pages (`PageStore`, `PageResolver`, `SeedSync`) | saved and seeded pages | save, load, resolve, refresh seeds by digest | web | never overwrite a user's edit |
| Housekeeper | state roots, temporary files, logs | rotation, removal of stale roots | collectors, sessions | removing what is in use |
| Updates (`UpdateManager`) | which collectors ran | stop, run scripts, restart | watchdog, loops | failure in between |
| Command-line front ends | none of their own | parsing, tables | all of the above | - |

What would make each part correct: one loop per collector and no run left behind by
a stop; limits on parallel runs hold; `status.json` shows a collector running if and
only if it is; no log entry is lost; an indicator shows the last run; the watchdog
restarts what was started, leaves alone what was stopped and keeps its restart
budget; one web service per port; an expired or foreign session gives no access; a
channel neither loses nor duplicates a value and a close releases its waiters; a
shared array behaves as one Perl array whoever uses it; a pid names its child until
the child is collected; a menu reports clicks only on what it shows, and a stop
leaves no helper behind; a failed skill installation leaves the old one; the deepest
layer wins.

## 2. What is modelled

The three collector components come first: they are the reason the
program has long-lived processes, most of what is concurrent in it passes through
them, and they share state without a common lock. To them belong the command a run executes
and the minutes of a schedule. Then come the native libraries: go
routines with their channels, shared values and processes, and the system menu
from the Perl session to the helpers on Linux and Windows.

### CollectorLoop: one collector's loop

`CollectorLoop` models `start_loop`, `stop_loop` and `running_loops` as called
by any number of *managers* (commands, the watchdog), the loop process
`_run_loop_child` and the workers `_run_loop_worker`.

* `pidfile` and `lstate` are the two files. `_write_loop_state` is a merge: it
  loads `loop.json`, overlays its fields and renames; where the kept fields
  matter, the load and the store are two steps (`InitLoad`/`InitStore`,
  `AdoptLoad`/`AdoptStore`, `LoopTrack`/`LoopRecord`, `LoopStopLoad`/
  `LoopStopStore`, `WorkerFails`/`WorkerRecordsError`).
* `lpc`, `term`, `active`, `spawned`, `lsnap` are a loop process: its place, a
  pending TERM, `%active_workers`, a worker launched but not yet entered there,
  and a loaded `loop.json`. `LoopTerm` is the signal handler: it may run between any
  two operations and never returns.
* `wpc`, `owner`, `wsnap` are the workers. Until `setsid` a worker is in its
  loop's process group (`InGroup`), which is what `stop_loop`'s group KILL reaches.
* `mpc`, `mpid`, `msnap` are the managers in mid-operation.
* `escaped` is history: workers alive when their loop was killed or when the
  handler could not know them. `overlapped` is history: two managers have been at
  work at the same time. Two kill actions stand for the operator, the OOM
  killer and reboots of a session.

Abstracted: pids are not reused, an exited process is reaped at once, fields of
`loop.json` nobody decides on. Due times are nondeterministic (`LoopSkip`), which
covers every schedule. The Windows branches are left out.

`WorkerPool` is the abstract promise: a pool per loop of at most `MaxParallel`
runs, launched once, never moving, and none after the loop has ended. The
refinement mapping takes a loop's pool to be its live workers, whatever the loop
itself believes.

### CollectorStatus: what runs leave behind

`CollectorStatus` models `run_once` from the read of the job to the indicator,
each file operation a step: `job.json`, `mark_run_started`, the outputs,
`mark_run_finished` inside `write_result`, the log entry, the indicator.
`update_status` takes an exclusive lock, so it is two steps (`UpdateLoad`,
`UpdateStore`) with `statusLock` held in between; a process killed there loses
the lock and its update. Log rotation does the same under the log's lock.
The manager writes `job.json` and launches the loop helper, which reads it
later (`LoopReadsJob`); `stop_loop` terminates some of the loop's runs (which
ones is CollectorLoop's matter) and calls `mark_stopped`.

A file holds the run that wrote it. `job` is `"full"` as configured or
`"stripped"`, as `run_once` rewrites it: without `indicator` and `multiple` and
with `mode` turned from the loop's mode into `command`/`code`. A loop
helper that reads a stripped job dies in `_collector_execution_policy`; a worker
that reads one runs without an indicator.

### CollectorWatchdog: the supervisor

`CollectorWatchdog` models the commands that start and stop collectors and
maintain the watched names, and the supervisor process: read the names, write
them back with a heartbeat, look at the loops, decide on each, restart, record.
A `start_loop` or `stop_loop` is one step here. A restart window is open or
expired (`wopen`); expiry may happen at any moment. `StopWait` is TERM followed
by KILL after two seconds: a pass may take longer.

`excused` and `forgot` are history: collectors whose stop was disturbed
(another command, a supervisor between its read and the end of its pass, a loop
that was already dead), and restarts that went uncounted because the supervisor
was stopped or killed between a restart and its record, or decided on while another
supervisor's was under way (two commands may leave two of them).

### CommandRun: one command

`CommandRun` models `run_command` in a worker (`pc`), the child that `system()`
forks (`cmd`: the launcher, which writes the pid file, then calls setsid and
execs), another process of the command's session (`kid`), the alarm, and
`_terminate_loop_workers` as applied to that worker (`stop`). `pending` holds the
signals Perl has not dispatched: a handler runs between two operations, and of
what `system()` does in C only `waitpid` is interrupted. `why`, `inEval` and
`reaped` are the locals of `run_command` and its handlers; `Cleanup` are the places
of `await_command_pid` and `terminate_command_process`. `reused` is the kernel having
given the command's pid to somebody else. From then on each signal for the pid or its group
is recorded (`Astray`), the KILL for the group by itself: the code sends it also when the
`waitpid` before it has collected the pid.

Assumed: a clean-up takes little more than one of the two seconds a stop waits
(`StopGrace`), and processes of the command do not call setsid themselves. Left
out: the polling wait of Windows and `run_code`.

### CronFields and CronSlots: cron expressions and minutes

`CronFields` has the parse of one field item by item and the match of a time, as
operators; a behaviour writes an expression and moves the clock. `DueExact` compares
with what the README says of cron fields, for every written field of up to two items.
`*/n` counts as a restricted day, as in the code.

`CronSlots` has what a loop does with the answer: it reads the clock (`stamp`),
compares with `last_cron_slot` (`slot`), saves it, and then asks for a worker. Every other
call of `_write_loop_state` is a load and a store of the whole file (`Load`, `Store`; `read`
is what has been loaded), with anything in between: by a start that adopts the loop or has
launched it (`start_loop`, `Records`), by a worker whose run failed, and by the loop for its
heartbeat, its workers and its end (`Heartbeat`, `Notes`, `_shutdown_loop`). A start may thus
write back what it read before the loop saved a minute, or bring back a file that a stop has
removed. A cleanup may come at any time: a stop from another pid namespace removes the files
and leaves the loop, and one that has found the loop gone may be overtaken by the next. `runs`,
`lost` and `missed` are history. Two loops of one collector are CollectorLoop's matter.

### GoChannel and ChannelContract: channels

`GoChannel` models a channel as `GoRoutine012.xs` has it, with the fields of
`go_channel` under their own names. A step is what a thread does while it holds the
channel's mutex, up to the unlock or to a wait. `_channel_send` looks at the
channel (`SendBegins`), marshals the value without the lock (it may die there:
`ImportDies`), and looks again (`SendEnters`); an unbuffered send posts its value
and waits for its number to be consumed (`AckWakes`), a buffered one goes into
the ring. Every wait ends after 50 ms at the latest, after which the
thread looks at its cancellation first: so a waiting thread may take its step
whether it was signalled or not, and condition variables need no state.
`delivered` and `outcome` are history: what arrived, and what senders were told.

`ChannelContract` is what the users of a channel rely on, without threads: a FIFO
of at most `capacity` values, a hand-over for capacity 0, a send that returns has
handed over its value, and the value of one that dies never arrives. The refinement
reads the queue from the ring (`RingSeq`).

### GoControl: routines

`GoControl` models the control block of a routine (`go_control`), the thread that
runs its callback one Perl operation at a time (`go_worker`, `go_runops`), kill,
timeout with its watcher threads, and the worker count with `wait_all`. go() is
three steps (count, create, publish) by the root or by a routine, and the thread
may be over before it is published. `go_control_request_cancel` sends
its wake signal after the unlock (`Wakes`), and a watcher that has found its deadline
passed requests the cancellation after the unlock (`WatcherExpires`,
`WatcherCancels`). `launch`, `caller`, `step` and `verdict` are program counters
and locals; `cancel_requested` is `cancel_reason # "none"`, with which it is
always set. Cancellation is looked for between Perl operations only, and the signal
interrupts an operation that blocks (`"blocked"`), nothing else: it is not kept for the next
one, and a read that starts again or a call into C (`"opaque"`) does not notice it. `late` is
history: routines that began to block after their signal. In `GoChannel` a
cancellation is `Cancel` and what follows at the next operation is `Unwinds`.

### SharedValues and SharedContract: one shared array

`SharedValues` models a shared array as `GoRoutine.pm` ties it: each native call
under `shared_mutex` is a step, a Perl operation (`push @a, ...`, `$a[$i]++`,
`splice`) is one or several of them, and a routine may be cancelled in between.
`array_items` is the allocated block with what lies beyond `array_size`, which is
where shortened arrays keep old nodes; `shared_array_reserve` doubles it. `call`,
`index`, `todo` and `plan` are a thread's place, its Perl-side index, the values it
has still to add and what its splice has fetched. A node is a number, its place in
`value`, so that the nodes that were made are known without a bound on them. A call that dies inside
`shared_import_value` or `shared_apply` leaves `shared_mutex` with its thread
(`DiesLocked`), and `died` records it.

`SharedContract` is an array of links to cells, changed by one operation at a
time; it says in particular which old cells may come back when a shortened array
grows again. `ImplementsShared` is the refinement (places are `View`, the first
`array_size` items).

### SharedCalls, SharedImport: callbacks and structures

`SharedCalls` is the locking of shared callbacks and frozen handles: `stack[t]` is
the calls a thread is in, each with its place and the `go_control` it found in
thread-local storage and will put back. `SharedImport` is `shared_import_value` over
structures that a behaviour grows item by item, with cycles and shared parts, and then
imports: `calls` is the recursion of the C function, a call importing the items of its
object into its node, and every step is what one call does with its next item
(`SkipHole`, `shared_import_scalar`, `LinkExisting`, `ImportObject`, `Refuse`) or its
return. The node the value is imported into is number 1. Three
assignments of kinds to three objects stand for the kinds of reference.

### GoProcess and GoSpawn: native processes

`GoProcess` has the kernel's pid table beside the calls on a pid: the kernel may
give a free pid to a stranger or to a later child. `process_exited` is
`waitid` with `WNOWAIT`, `wait_process` is the one call that collects.
`GoSpawn` has what a child is given: `dd_windows_command_line` read back by the
rules of the C runtime (external: `CommandLineToArgv`), and the merged environment.
`ArgvSurvives` and `EnvironmentExact` are the two halves of `ChildReceives`. The second
counts a variable that the parent assigns twice: the first assignment is what getenv
finds and what the code replaces, the later ones stay where they were.

### MenuSession: the menu's session

`MenuSession` is one menu from start to stop: the service's thread
(`SystemMenu::Runner`), the routine it runs `System::Menu::run` in, and the helper
process with its two pipes. `lock` is `helper_lock`, held over a write that may
block; `pid` and `fds` are the process-wide handles, `proc` the process itself.
A write to a helper that has ended raises SIGPIPE, which ends the dashboard
(`WriteKills`), or fails where it is ignored (`WriteFails`).

### MenuContract, MenuTree, LinuxMenu, WindowsMenu, MenuJson: the helpers

`MenuTree` has the menus: roots, children, what is clickable, and, of those that
`System::Menu` lets through, that names are distinct and nothing has both children and a
click (`MenuAssumption`). What is below an item (`Subtree`) is the least set closed under
children: a definition without recursion, to be proved about. `MenuContract` is
what a helper owes the session: after `run` it shows that menu, after `remove` an
item and everything below it are gone, and it reports clicks only on clickable
items that are there. `LinuxMenu` and `WindowsMenu` implement it.

`LinuxMenu` has a step per GTK callback. `widget` is whether an item's
widget exists, `status` the loading indicator of each root, `assets` and `disk` the
icon files a root owns and what is in the temporary directory, `sequence` the icon
number, `published` which numbers the indicators were given. The loop that prunes icon
files is a recursive function of the number of turns (`Turns`). `WindowsMenu` has a step per
dispatched message: `trays` are positions in the menu, `posted` messages already
under way, `popups` the stack of open popup windows with the item each shows.
`MenuJson` has the recursive-descent parser both helpers carry, over tokens, and
the strings over bytes and code units. The parser looks at each token once and never
goes back, so that the calls of `j_array` and `j_object` in progress are a stack (`open`,
the positions of their brackets) and what happens at a token is told by the place they
wait at (`Looks`); `j_string` is a function of its loop's turns (`StringTurn`). What they
are compared with is the language: the phrases of a text by their length (`Phrases`), the
code points of a string of units, and what UTF-8 is (`IsUtf8`).

## 3. Runs

| Run | Instance | Checks |
|---|---|---|
| `loop_races` | two managers and two workers, kills of both, grace periods that run out, with one loop pid, or with two as long as the managers take turns and a worker is unused (`Small`) | `ParallelBound`, `OrphansExplained`, `SoleLoop`, `PidfileImpliesState`, `ImplementsPool` |
| `collector_liveness` | a loop with one manager, two loop pids, one worker, a killed loop; a watchdog with one collector, three commands, two faults | `StopReturns`, `DeadLoopTakenUp` |
| `loop_duplicates` | two managers, two loop pids | `OneLoopPerCollector` is violated |
| `loop_stop_misses` | one of each | `RunsDieWithLoop` is violated |
| `status_safety` | a run of the loop and one by hand, two stops or kills, rotation, the watchdog | `NoHiddenRun`, `NoPhantomRun`, `LogIsTail`, `RefusalExplained` |
| `status_indicator` | two runs of a loop, nothing else | `IndicatorFollowsExit` is violated |
| `watchdog_forgets` | two collectors, two commands, no fault | `StartedIsWatched` is violated |
| `collectors` | cron expressions of two written items; two due minutes, a manager, four launches of loops and workers, two workers at once; a command with one more process, its alarm and one stop; two watched collectors, one command at a time, two supervisor pids, three commands, one fault | `DueExact`, `TwiceExplained`, `TakenIsRun`, `Contained`, `AstrayExplained`, `BudgetHolds`, `StopSticks`, `SoleSupervisor` |
| `routines` | two routines and one timeout(), or one and two | `StatusHonest`, `BarrierMeansFinished`, `BarrierOpens`, `WatchersRetire` |
| `timeout_late` | one routine, two timeout() calls | `DisabledStaysDisabled` is violated |
| `go_values` | a channel of capacity 0, 1 or 2 between main and two routines, three values; a shared array between two routines, three operations, up to two values | `ImplementsContract`, `NobodyStranded`, `SpliceExact`, `ImplementsShared`, `CallsReturn` |
| `native` | a menu's session with a crash; each helper with two menus; JSON; two callbacks and three threads; structures of three objects; argv and environments; two children and two pids | `OneReaper`, `NothingLeft`, `StopReturns`, `LinuxHandlesValid`, `LinuxImplements`, `WindowsHandlesValid`, `WindowsImplements`, `JsonExact`, `CallbacksSafe`, `ImportFaithful`, `ChildReceives`, `PidHeld` |

`collector_liveness`, `collectors`, `go_values` and `native` check several modules side by
side (`MCCollectorLiveness`, `MCCollectors`, `MCGoValues`, `MCNative`): a behaviour is one
of one of them, as the variable `part` says, and the variables of the others rest.
They extend the modules they check, so that the theorems are about the very formulas
the runs check, and those have names of their own (`LinuxInit`, `CallNext`, `SharedSpec`,
`FieldsNext`, `SlotNext` and so on). Only `MCCollectorLiveness` instantiates
(`CollectorLoop` and `CollectorWatchdog`), because their names would meet. An
expression that rests is malformed, which is soon seen.
Nothing is claimed of their interleaving. `loop_races` is two instances as one:
`SpecSmall` allows the second loop pid only while no two managers have overlapped.

**What the passing runs show.** While commands take turns the adoption
logic of `start_loop` is right: however loops die, there is no second one unless
an earlier one left its files behind, and the pidfile never exists without
`loop.json`. With commands racing, a loop's limit on workers still holds and each
orphan has one of two causes. The
counter in `status.json` neither hides nor invents a run except after a stop in
mid-run, a kill or a word of the watchdog. The log never loses an entry that
rotation keeps. A loop that dies of its `job.json` does so only because a run got
in between. The restart budget holds over crashes, stalls and failed restarts,
a stop sticks outside the named circumstances, and dead loops are taken up.
What a timeout or a forwarded signal ends is ended whole. Its pid is signalled
only while it is the command's, but for the causes that the property names: one of them is
the KILL for the group, which follows also when the clean-up has collected the pid. A
stop leaves no command behind. Cron expressions mean what the README says,
a minute is run twice only if `loop.json` lost it, and none is taken for
done that had no reason not to be run.
A channel is a FIFO that neither loses nor repeats a value whatever is closed or
cancelled, senders are told the truth about their value, and nobody is left
waiting. A routine's status names the request that was accepted, the worker
count is exact (so its guard against going below zero is never needed), `wait_all`
is a barrier, and a cancellation ends its routine, unless that stays in an operation which the
wake signal does not interrupt, or met too late to be interrupted.

A shared array is one Perl array of links whatever routines do to it at once; a
splice that nobody disturbs leaves exactly what Perl's would; a call returns unless
some call has died with `shared_mutex`. Shared callbacks never put two threads in
one interpreter or leave a dangling `go_control`, and deadlock only when two of them
call each other or after a death with the lock. An imported structure keeps its
shape, cycles and all, or is refused. A child's pid is its own until its status
has been returned; its arguments and environment are what was given. A stopped menu
leaves neither helper nor zombie (but for a failed write), and a stop that found the
helper running returns. Neither helper touches a destroyed widget or a removed item,
the Linux helper's icon files live as long as the shell may read them and no longer,
and both report exactly the clicks `MenuContract` allows. The JSON parser accepts
exactly the grammar (without numbers), and text survives both ways except what no encoding could keep.

**What the violated runs show** (PROJECT.json quotes the lines that say
otherwise). Two starts at once both launch a loop, because the look and the record
are apart. A TERM between a worker's launch and its entry into
`%active_workers` leaves the worker running. From its second run on a loop no
longer sets the indicator, because its workers read the job from a `job.json` that
the first run rewrote without it. A start that falls between the supervisor's
read and its heartbeat is overwritten, and the collector runs unwatched. A
timeout watcher that has seen its deadline pass cancels the routine although
timeout(0) has returned meanwhile.

Four more of the kind show in the exceptions of properties that hold. `Contained`
excepts a worker killed inside `run_command`: a TERM that comes while `system()` is
between its fork and `waitpid` is not seen before the command ends, two seconds later
the worker is killed, and the command, in a session of its own, runs on.
`TwiceExplained` excepts a minute that was overwritten: a start that adopts the loop, the
start that launched it, or a failed worker of an earlier minute puts the old `last_cron_slot`
back, and the loop runs the current minute again; `README.md:783` says that cron loops
"deduplicate execution within each matching minute". Each of the three suffices; the loop's own
writes alone do not.
`AstrayExplained` excepts the KILL for the group of a pid that the clean-up has collected
(`CommandRunner.pm:249` after 242). `BarrierOpens` excepts a routine that begins to block after
its wake signal was sent, or blocks where a signal does not reach it: `wait_all`, which has no
time limit, then waits with it although every routine was told to end.
Without the exceptions TLC shows each of them.

**Bounds.** Two of everything that races is enough for each lost update and each
pair of actors in these modules: no action looks at three processes. Two due minutes
and three workers of one loop let an old worker fail after a later minute was
taken, two loops with two workers let a start of the one write into the other's file
(`MaxLaunches` counts both); no more than one start at a time is needed for that. In `native` the pipes (`CommandCap`, `EventCap`, `MaxClicks`) hold what
one round of clicks can answer. With a `CommandCap` of 1 `StopReturns` fails: the
routine, in a write to a full pipe, holds `helper_lock` while the helper waits for
somebody to read its events. Real pipes hold thousands of commands, so that the
bound says where the guarantee ends. `MaxIcons` 4 lets a root publish, replace and
expire icons while another root publishes its own; `MaxDepth` 2 with two callbacks
and three threads makes every ring of waits. Two
loop pids allow "the old loop and the new one"; two supervisor pids "the killed
one and its successor"; `MaxParallel` 1 with two workers reaches the limit; a
`RestartLimit` of 1 reaches it with two faults or a failing restart; `Keep` 1
with up to three entries makes rotation drop one; three values make a ring of two
places wrap; two calls of timeout() replace or disable a watcher. Kill, stop,
command and fault bounds keep the state space finite and are constants of the
modules. Deadlock is checked for the loop; in the other modules the behaviours end
when runs, commands, values or calls are used up, or when everybody waits for a
value that nobody sends. Symmetry is used only in runs without temporal properties
that depend on it: `loop_races` checks the refinement, whose formula is a safety
property symmetric in all three sets.

**Fairness.** A manager in the middle of an operation, a loop process, a command
and a supervisor are each scheduled again and again by the operating system, and
a signal that was sent is delivered: weak fairness per process (`Fairness` in
`CollectorLoop` and `CollectorWatchdog`). Starting or stopping something is a
user's choice and has none, workers may run for ever, and no fault is ever
forced. In `GoChannel` a waiting thread looks again every 50 ms; in `GoControl`
threads that are not blocked keep running, the wake signal of an accepted cancellation is
sent, and it interrupts an operation that blocks at that moment. Nothing obliges a blocking
operation to end by itself (`Unblocks` has no fairness), and no deadline, kill or end of a
callback is ever forced.
No liveness property relies on the KILL after a grace period: it may come
(`GraceExpires`), but fairness does not promise it while the loop is alive
(`InGrace`), so the loop's own handler has to end it. In `MenuSession` the
routine, a stop that is under way and the helper go on when they can; no click,
no crash and no end of the service is forced. In `SharedValues` a thread inside a
Perl operation goes on when it gets the mutex.

**Mutants.** Each property is paired with one or more plausible errors in the code (the
operators marked "Mutant", beside the definition they change) under which TLC
finds it violated.

## 4. Proofs

TLAPS checks the following for every value of the constants that satisfies the
modules' assumptions (`LoopAssumption`, `StatusAssumption`,
`WatchdogAssumption`, `ChannelAssumption`, `SharedAssumption`, `CallAssumption`,
`ProcessAssumption`, `PopupAssumption`, `IconAssumption`: no pid, name or value that is
none of them, finite sets of pids and threads, a positive limit, natural bounds;
`FieldsAssumption`, that what is written are tokens and a clock shows times;
`ImportAssumption`, that what is shared is an object and every object of a known kind;
`SpawnAssumption`, that a variable's name is not empty and has no `=` in it, which `spawn`
checks; `JsonAssumption`, that texts are made of tokens, and strings of code units and
bytes other than the zero that ends them; and `MenuAssumption`, what `System::Menu` checks
of a menu). Each proof has the same three
facts at its core: the initial states satisfy an inductive invariant, every action
keeps it, and it implies the property.

`CollectorLoopProofs`

* `TypeCorrect`: `Spec => []TypeOK`.
* `AccountedAlways`: `Spec => [](TypeOK /\ Accounted)`. `ParallelBound` is not
  inductive: a spawn is guarded by the size of `%active_workers`, so one has to
  know that no live worker is missing from it, at each stage of the loop's life,
  the handler's included. That is `Accounted`, which with `TypeOK` is inductive.
* `OrphansExplainedAlways` follows from it at once.
* `ParallelBoundAlways` adds to it that the launch is the only step that grows a
  pool, and finite cardinalities.
* `PoolRefinement`: `Spec => Pool!Spec`. A `LoopSpawn` is a `Launch`, for which the
  guard follows from `Accounted`; every other step only lets runs end and loops
  close (`Settle`).
* `SoleLoopAlways` and `PidfileImpliesStateAlways`, for any number of managers, loops and
  kills: the properties speak of the time until two managers have been at work at once.
  The invariant is `InTurns /\ Unkilled /\ Agreed` on top of `Accounted`. `InTurns`: until
  then who moves finds the others idle. `Unkilled`, as long as no manager was killed: a
  loop that a TERM has reached has the manager still waiting for it (`SignalHeld`), who
  is about to unlink `loop.json` has unlinked the pidfile, and who is about to
  write the pidfile has written `loop.json` (`FileOrder`). `Agreed`, as long as no orphan is
  about besides: a loop that is alive is the only one and what the manager's operation is
  about, and from which place on to which place the pidfile and `loop.json` name it
  (`Sole`). That an adoption cannot miss a loop is that at least one of pidfile, title
  and `loop.json` names it at each of those places; an orphan's error record is the one
  step that could break it, which is why the property excepts orphans.

`CollectorStatusProofs`, with the inductive invariant
`IInv == TypeOK /\ Rotation /\ Locking /\ Counts /\ Starting`

* `Locking`: exactly the processes between their load and store hold the lock,
  and what the holder read is what `status.json` still says, up to the watchdog's
  `running`. `Counts`: the run counter against the runs entered, before and
  after a store. `Starting`: while a helper has not read `job.json` either it is
  the start's or a run disturbed it.
* `TypeCorrect`, `NoHiddenRunAlways`, `NoPhantomRunAlways` and
  `RefusalExplainedAlways` follow from it. `LogIsTailAlways` adds `Retained`, which says
  position by position which appended entry each line of the log is, over the append
  and over the rotation's store of what it loaded. The counting lemmas
  (`CountedAdd`, `CountedRemove`, `CountedLess`) carry the arithmetic of
  cardinalities.

`GoNativeProofs` holds the proofs of four parts of the native modules, `SharedCalls`,
`SharedImport`, `GoProcess` and `GoSpawn`, each about its own specification. The inductive
invariants are `IInv == TypeOK /\ Nested /\ Holding /\ Controls /\ Shared`,
`ImportIInv == ImportTypeOK /\ Phases /\ Met /\ OwnNode /\ Following /\ Through`,
`ProcessIInv == ProcessTypeOK /\ TableRight /\ Collected` and
`EnvIInv == EnvTypes /\ Assigning /\ Overridden /\ Inherited`

* `CallsSafe`: `CallSpec => []CallbacksSafe` for any number of threads and callbacks and
  calls within calls of any depth. `Holding` says that a thread has the
  mutexes of exactly the callbacks that some call on its stack has entered; that this
  survives the return of one of two calls of the same callback is what the look further
  down the stack is for (`LeaveStep`). `Controls` says that what a call restores belongs to
  a call outside it. `Shared` says that who holds shared_mutex is between a lock and an
  unlock of it, where it waits for nothing: so nobody in a ring waits for shared_mutex,
  each waits for a callback's mutex, and the thread that has it is inside that callback
  and, since it waits too, in a call further in (`Explained`).
* `ImportFaithfulAlways`: `ImportSpec => []ImportFaithful`, for any number of objects with
  any references between them. `Met` says of the objects met so far that they are reached
  and that the items of their nodes show, as far as they have come, what they should;
  `OwnNode` that no two share a node; `Following` that each call in progress waits at the
  reference which the next one imports, so that the node returned to it is the one its item
  needs, and that no object is imported by two of them; `Through` that an object
  without a call has all its items. When no call is left the objects met are closed under
  references, so they are all that is reached (`ImportedFaithfully`).
* `PidIsHeld`: `ProcessSpec => []PidHeld` for any number of children, callers and pids.
  `TableRight` says a child has one entry from birth to
  collection and the table no other; `Collected` ties the returned status, the waits and
  the answers of `process_exited` to the child's life.
* `EnvironmentExactAlways`: `SpawnSpec => []EnvironmentExact`, for any environment, any
  overrides and any order of them. `EnvIInv` is the loop's invariant: a key that is still
  to come is assigned where the parent assigned it (`Assigning`), one that is done has the
  caller's value first (`Overridden`), and what no key assigns is the parent's
  (`Inherited`). That one turn leaves the other keys alone is `AssignsOne`: no name has a
  `=` in it, so an assignment assigns one name, however the names resemble each other.
* `ArgvSurvivesAlways`: `SpawnSpec => []ArgvSurvives`, for any number of arguments of any
  length. `Reads(a, s, b)` says that the C runtime's reader comes from state `a` by the text
  `s` to state `b`, and composes over texts (`ReadsOn`). `Good` is the invariant of the
  quoting loop: what is written so far reads as a word which the backslashes that wait
  complete to what was given so far. The cases are `GoodSlash`, `GoodQuote` (twice the
  backslashes and one are halved to those and a literal quote) and `GoodOther`; `QuotedIsRead`
  closes an argument, `LineIsRead` joins them, and `ReadsExact` says that a text is
  read in one way. `Chain` has the recursive functions exist, `Upward` is the induction.
  The proof corrected the reader: two arms of its CASE held of a quote after an odd number of
  backslashes, which TLC, taking the first, could not show.
* `ChildReceivesAlways` is the two together, the property of the run.

`SystemMenuProofs` has the session and the two helpers. The session, with the inductive
invariant `IInv == TypeOK /\ (up => Writing /\ Answered /\ Unstarted /\ Leaving)`

* `OneReaperAlways` and `NothingLeftAlways`, for pipes of any size and any number of
  clicks, without assumptions. `OneReaper` is not inductive: that a stop may
  take `helper_pid` needs that no write is under way (`Writing`, the lock), that two
  threads are never both waiting (`Answered`), and that before the routine has
  started the helper there is none to miss (`Unstarted`). `NothingLeft` needs where
  the routine may leave its loop (`Leaving`). A dashboard that was killed keeps
  none of this, and has returned to nobody.

The Windows helper, for menus of any size and shape, any number of commands and clicks
and any `MaxPopups`, with the inductive invariant
`WindowsIInv == MenuTypeOK /\ Shown(popups) /\ TraysResolve`

* `WindowsHandlesAlways`: `WindowsSpec => []WindowsHandlesValid`. `PopupsValid` would do
  for itself; it does not carry the refinement, for a removal marks the item
  alone and what is below stays unmarked. `Shown` adds that owners and rows are below
  no removed item. A popup opened on a root or a row keeps that because
  a root is below nothing (`RootsPresent`) and an item has one parent (`KidsPresent`), which
  is where `MenuAssumption` is needed.
* `WindowsRefinement`: `WindowsSpec => WindowsImplements`. A click comes from a row of an
  open popup or from a tray icon looked up at that moment, so `Shown` has it there.

The Linux helper, for menus of any size and any number of icons, with the inductive
invariant
`LinuxIInv == LinuxTypeOK /\ IconsTracked /\ WidgetsMarked /\ (running => NumbersFresh)`

* `LinuxHandlesAlways`: `LinuxSpec => []LinuxHandlesValid`. `WidgetsMarked` says that a
  destroyed widget's item is marked. `IconsTracked` says that what was published and is
  not expired has its entry, with its time, in the table of its own root, and that a root's
  newest icon is still there; it survives pruning because the file names of different roots
  differ (`NumbersFresh`: a number is above all taken before, and within one `run` the
  roots' numbers differ, lemma `Numbers`).
* `LinuxRefinement`: `LinuxSpec => LinuxImplements`. The marks are the contract's, and
  `emit_click` looks at them; the three ways out (`LinuxQuit`, `RunFails`, `IconFails`)
  are its `Quit`.
* `Prunes` says what the pruning loop computes, for a table of any length: it keeps exactly
  the entries that have not expired. The proof is an induction over the turns, which
  the library's theorems cannot be instantiated for: `Least` takes a least number
  from the well-foundedness of `<`, `Reaches` gets induction over a set of numbers from
  it, and `TurnsExist` has the function that `Turns` chooses.

The JSON of both helpers, for texts, strings and names of any length, with the inductive
invariant `JsonIInv`, which only says that they are made of tokens, code units and bytes:
what there is to prove is what the parser computes.

* `ParseExact`: `j_parse` accepts a text exactly when the grammar derives it. `ParseSound`
  is an induction over the tokens looked at: whatever the parser has read in each
  bracket in progress, and waits for, is a phrase (`Nested`, `Seen`). `ParseComplete` is an
  induction over the length of phrases: whatever the stack, a value is passed as one
  (`Passes`).
* `UnitsRead`: the turns of `j_string` and the code points go in step, so that a pair of
  surrogates is joined exactly when it is one, also where the string ends behind the first.
  `PointReads` says that what `append_utf8` writes of a point is read as that point.
* `NameRead`: each byte of a name is written in characters that are no controls, and read
  as that byte (`EmitType`, `ByteRead`).
* `JsonExactAlways` is the three together, the property of the run. `Onward`, `FromSmaller`
  and `Chain` are the inductions and the recursion they need, again from `Least`.

`GoControlProofs`, with the inductive invariant
`IInv == TypeOK /\ Launched /\ Verdicts /\ Counted`

* `StatusHonestAlways` and `BarrierMeansFinishedAlways`, for any number of routines and
  watchers, under the hypothesis `ControlAssumption` (the root interpreter is not
  a routine). `Verdicts` says that a verdict is already honest when it is taken,
  before `go_control_finish` stores it, since a kill may arrive between; `Launched`
  ties the launch to the thread; `Counted` is `go_active` against the set of
  routines launched and not gone, with one lemma for each way a step changes it.

`CronSlotsProofs`, with the inductive invariant
`IInv == TypeOK /\ Ordered /\ Remembered /\ Taking /\ Honest /\ Twice`

* `TwiceExplainedAlways` and `TakenIsRunAlways`, for any set of due minutes and any number
  of loops, workers, managers and minutes, without assumptions. `Remembered` says that the
  last minute run is still
  in `loop.json` unless it was lost, and needs that minutes are taken in the clock's
  order (`Ordered`); `Taking` carries it over the steps between the look at the file
  and the launch; `Honest` extends `TakenIsRun` to what anybody has read to write back. All
  steps but the clock's and those by which the loop takes a minute come under one lemma
  (`OthersKeep`): they leave `loop.json`, remove it, or replace it by what somebody has read.

`GoValuesProofs` has the channels and the shared array. The channels, with the inductive
invariant `IInv == TypeOK /\ Ring /\ Sending /\ Numbers /\ Told`

* `ContractRefinement`: `Spec => Contract!Spec`, for any capacity, threads and values. Each
  step is a step of the contract or leaves what it sees alone, and several
  are one of two steps according to the state: a wake-up tells a sender of a hand-over
  or of a close, a receive takes from the slot or from the ring.
* `Ring` is the modular arithmetic of `head`, `tail` and `count`; `RingPut` and `RingTake`
  say that an enqueue appends to the queue the ring stands for and a dequeue takes its head.
* `Numbers` is what sequence numbers are for: the slot holds the value numbered last, its
  sender waits for that number, and every other sender that still waits on an open
  channel has been served. `Told` is the promise to a sender that has not heard yet: its
  value has arrived if and only if it waits for a number that has been consumed. Neither
  is a property of a run: they are why a sender is told the truth after a close.

The shared array, for any number of routines, operations and values, with the inductive
invariant `SharedIInv == ArrayOK /\ Domains /\ \A t : ThreadOK(t) /\ SpliceOK(t)`

* `SharedCorrect` is that invariant. `ArrayOK` has what lies beyond `array_size`: the
  block has room for the size, and what is kept there was cut off or is no node. `ThreadOK`
  fits the place of an operation to the index and the values it is about to use.
* `SpliceExactAlways`. `SpliceExact` speaks of the end of a splice. What it needs
  in the middle is `SpliceOK`, as long as nothing came in between: a splice that
  fetches has fetched what is there and still wants what Perl would leave (`Fetching`), and
  one that puts back has put back the beginning of it (`Refilling`). A step of another
  routine disturbs the splice or leaves its invariant alone (`Noticed`, lemma `Frame`).
* `SharedRefinement`: `SharedSpec => ImplementsShared`. Every native call is one step of
  `SharedContract` on the first `array_size` items, with one lemma per way the array changes
  (push, insert, store, shorten and the others). `Doubling` says that
  `shared_array_reserve` finds a room of at least the size asked for.

`CollectorsProofs` has the watchdog, the command of a run and cron expressions. The
watchdog, with the inductive invariant
`IInv == TypeOK /\ Sole /\ Budget /\ Stops`, for any number of commands, supervisors,
collectors and faults

* `BudgetHoldsAlways`. `Budget` follows a restart through the pass: the supervisor decides
  on it with a count above the restarts of the window, restarts, and records the count; in
  between no other supervisor may restart, and the recorded count covers every other
  restart.
  Proving this for two commands corrected the model: a supervisor that
  decides while another is between restart and record works with a count that is too low,
  which no run with one command at a time could show and `forgot` did not except.
* `StopSticksAlways`. `Stops` says of everything that can bring a collector up again (the
  watched names, the names a command or supervisor has read, the restarts still to be
  made, a loop that runs) that it is of collectors wanted or excused, or of one that the
  only command at work is about to stop while no supervisor is awake.
* `SoleSupervisorAlways`, for one command at a time as the property says. `Sole` ties the
  living supervisor to the pidfile and to the places of the command that launches or
  stops one.

The command of a run, which has no constants: TLC visits every state of `CommandRun`, and
the proof is there to say why it holds, with the inductive invariant
`CommandIInv == CommandTypeOK /\ Purpose /\ OneAlarm /\ Launching /\ Cleaning /\ Holding
/\ Stopped /\ AstrayExplained`

* `ContainedAlways` and `AstrayExplainedAlways`. `Cleaning` says how far the cleanup has come
  at each of its places, whatever signal interrupts it: after the TERMs there is no
  launcher left that could escape, after the KILL of the group nothing of the session runs.
  `OneAlarm` is why a cleanup is not cut short by its own alarm: it comes once, and while it
  can still come either it is caught or the command is gone. `Launching` orders the launcher's pid
  before its session, and has no number given away while a process of its group runs.
  `Holding` says that a pid is given away only by collecting it; what the clean-up sends after
  it has itself done so is the KILL for the group, and by `Cleaning` and `Launching` nothing of
  the session is left then.

Cron expressions, for any items, any number of them in a field and any times

* `DueExactAlways`: `FieldsSpec => []DueExact`. `SelectedInSteps` has what the loop over a range
  selects, a recursive function of which it shows that it exists and is the only one;
  `ItemExact` compares one item with the README's reading of it, `FieldExact` a field, and
  `ExactWhen` the five fields with the rule about days. The proof corrected the reference:
  two cases of what an item means overlapped.

**Only model-checked.** The liveness properties (fairness and ENABLED are out of
the prover's reach): `StopReturns` of loops and of the menu, `DeadLoopTakenUp`,
`BarrierOpens`, `WatchersRetire`, `NobodyStranded` and `CallsReturn`. Every invariant that
a passing run checks is a theorem. The properties of the runs that TLC finds violated are, of course, no theorems.

## 5. Plan

In this order, the most important behaviour first. Components that share a shape
share a model-checking module, so that a run asks one question of several of them.

1. **WebLifecycle** - start, stop, restart and adoption of the web service over
   its pidfile and port; **SavedAjax** - singleton replacement beside it.
2. **Access** - sessions, helper users and the order of checks in the web
   application: no path to a protected route without a valid session.
3. **Indicators**, **Housekeeper** - the synchronisation of indicators with the
   configuration and the removal of stale roots, against live writers.
4. **Skills**, **Updates** - multi-step operations that may fail at each step,
   with what they promise to leave behind; Updates composes with the watchdog.
5. **Layers**, **Pages** - layered lookup, merge and seed refresh as operators
   against a reference definition.

Extensions of what is there: two commands at once in `CollectorWatchdog`, whose
supervisors then double; `restart_collectors` and the removal of disabled
collectors; the background actions of `ActionRunner` beside `CommandRun`, and interval
normalisation; shared hashes as containers and the wait handles of Windows processes.

Theorems to add: the inductive invariants that the liveness properties rest on.

## 6. What is not modelled

Rendering (HTML, prompts, tables, the pixels of icons and popups), argument parsing,
packaging and installation scripts, and the Windows branches of the Perl code and of
native processes. The macOS menu helper (Objective-C, AppKit). `GoRoutineNative.h`
and `GoRoutineShared.h` are included by nothing: they are an earlier form of
`GoRoutine012Native.h`; `Native.h` loads a library's crypto functions. Of shared
values: hashes as containers, string concatenation and object proxies. Of the menu's
session: nothing is claimed of a stop that finds no helper yet, which joins a
routine that then starts one (Runner.pm:70) and waits as long as the menu runs. Of
routines: `wait_all` called by a routine (it would wait for itself), the destruction
of interpreters, and the wake signal to a thread that has ended since (undefined
behaviour of `pthread_kill` on a detached thread). HTTP itself, Dancer, Docker, git
and cpanm are external and would appear only through what the code does with their
answers.

Narrower limits, inside what is modelled:

* The Windows helper takes an icon out of the tray with `NIM_DELETE`, whose result it ignores
  (`win.c:596`). The model lets `NIM_ADD` fail and `NIM_DELETE` succeed: an icon that the
  shell keeps is not in it.
* The JSON of the helpers is JSON without numbers, and strings hold no NUL: `System::Menu`
  sends every value as a string, and neither parser has numbers or keeps what follows a NUL.
* Perl code that runs while `shared_mutex` is held (the FETCH of a tied variable, an overloaded
  operator met by the import) is not modelled: in `SharedCalls` and `SharedValues` the lock is
  held for the native code alone.
* `SharedImport` has containers, scalars and callbacks as objects of their own; a reference to
  one element of a container (`\$a[0]`), which is a scalar inside another object, cannot be
  written in it.
* `MenuSession` has the pipe's ends in the service and the helper only. A child that somebody
  else forks in between may inherit them and delay an end of file.

PROJECT.json lists each component with its status, and the hazards no
property covers yet with the reason.
