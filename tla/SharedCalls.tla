---------------------------- MODULE SharedCalls ----------------------------
(***************************************************************************)
(* Shared callbacks and shared filehandles without a descriptor: each is   *)
(* frozen into an interpreter of its own, with a recursive mutex, and is   *)
(* run there by whichever thread calls it (shared_import_code,             *)
(* shared_freeze_handle, shared_code_invoke, shared_handle_invoke,         *)
(* _shared_code_call and _shared_handle_remote).  A call takes and gives   *)
(* back shared_mutex to find the callback and to import the arguments,     *)
(* then holds the callback's mutex until it has imported the results,      *)
(* which takes shared_mutex again.  A callback may call callbacks.         *)
(*                                                                         *)
(* The interpreter of a callback is entered with the go_control of the     *)
(* calling routine in thread-local storage; the main thread has none and   *)
(* gets one on the C stack of the outermost call.                          *)
(*                                                                         *)
(* Left out: what callbacks compute, and dying while arguments or results  *)
(* are built inside the callback's interpreter, outside its eval, which    *)
(* ends the process.                                                       *)
(***************************************************************************)
EXTENDS Integers, Sequences, SequencesExt, FiniteSets

CONSTANTS
  Threads,
  Main,       \* the thread that is no go routine
  Callbacks,
  MaxDepth,   \* bound on calls within calls
  Free

ASSUME CallAssumption == Free \notin Threads /\ IsFiniteSet(Threads)

VARIABLES
  shared_mutex,  \* Free, or the thread that holds it
  leaked,        \* Free, or the thread that died holding it
  mutex,         \* mutex[f]: Free, or the thread that holds it
  stack,         \* stack[t]: the calls t is in, the innermost last
  control        \* control[t]: what thread-local storage points to

callVars == <<shared_mutex, leaked, mutex, stack, control>>

\* Controls are numbered: that of the outermost call is its depth.
Own == -1
NoControl == 0
Unset == -2

\* A call: of f, how far it is, and the control that it found and will restore.
Frame(f) == [f |-> f, at |-> "lookup", old |-> Unset]

Top(t) == Last(stack[t])
At(t, where) == stack[t] # <<>> /\ Top(t).at = where
SetTop(t, frame) == stack' = [stack EXCEPT ![t] = Append(Front(@), frame)]
Goes(t, where) == SetTop(t, [Top(t) EXCEPT !.at = where])

\* Once leaked, the recursive mutex stays with its thread.
SharedUnlock(t) == shared_mutex' = IF leaked = t THEN t ELSE Free

-----------------------------------------------------------------------------
\* Perl code calls a callback, outside every callback or within one.
Call(t, f) ==
  /\ stack[t] = <<>> \/ At(t, "running")
  /\ Len(stack[t]) < MaxDepth
  /\ stack' = [stack EXCEPT ![t] = Append(@, Frame(f))]
  /\ UNCHANGED <<shared_mutex, leaked, mutex, control>>

\* _shared_code_call finds the state of f; then it imports the arguments.
Lock(t) ==
  /\ At(t, "lookup") \/ At(t, "results")
  /\ shared_mutex \in {Free, t}
  /\ shared_mutex' = t
  /\ Goes(t, IF At(t, "lookup") THEN "marshal" ELSE "import")
  /\ UNCHANGED <<leaked, mutex, control>>

Marshalled_KeepsLock(t) ==
  /\ At(t, "marshal")
  /\ Goes(t, "enter")
  /\ UNCHANGED <<shared_mutex, leaked, mutex, control>>

Marshalled(t) ==
  /\ At(t, "marshal")
  /\ SharedUnlock(t)
  /\ Goes(t, "enter")
  /\ UNCHANGED <<leaked, mutex, control>>

\* share() does not support an argument: the call dies in its caller, which
\* may catch that, and shared_mutex is not given back.
MarshalDies(t) ==
  /\ At(t, "marshal")
  /\ leaked' = t
  /\ stack' = [stack EXCEPT ![t] = Front(@)]
  /\ UNCHANGED <<shared_mutex, mutex, control>>

\* shared_code_invoke
Enter(t) ==
  LET depth == Len(stack[t])
  IN  /\ At(t, "enter")
      /\ mutex[Top(t).f] \in {Free, t}
      /\ mutex' = [mutex EXCEPT ![Top(t).f] = t]
      /\ control' = [control EXCEPT ![t] = IF @ = NoControl THEN depth ELSE @]
      /\ SetTop(t, [Top(t) EXCEPT !.at = "running", !.old = control[t]])
      /\ UNCHANGED <<shared_mutex, leaked>>

\* The callback returns values that are no proxies; they are imported.
Results(t) ==
  /\ At(t, "running")
  /\ Goes(t, "results")
  /\ UNCHANGED <<shared_mutex, leaked, mutex, control>>

Leave_Unlocks(t) ==
  /\ At(t, "import") \/ At(t, "running")
  /\ IF At(t, "import") THEN SharedUnlock(t) ELSE UNCHANGED shared_mutex
  /\ mutex' = [mutex EXCEPT ![Top(t).f] = Free]
  /\ control' = [control EXCEPT ![t] = Top(t).old]
  /\ stack' = [stack EXCEPT ![t] = Front(@)]
  /\ UNCHANGED leaked

\* The callback's mutex is given back, after its results are imported or when
\* it has none: it returned nothing, or proxies, or died, or was cancelled.
Leave(t) ==
  LET f == Top(t).f
      below == {i \in 1 .. Len(stack[t]) - 1 :
                  stack[t][i].f = f /\ stack[t][i].old # Unset}
  IN  /\ At(t, "import") \/ At(t, "running")
      /\ IF At(t, "import") THEN SharedUnlock(t) ELSE UNCHANGED shared_mutex
      /\ mutex' = [mutex EXCEPT ![f] = IF below = {} THEN Free ELSE t]
      /\ control' = [control EXCEPT ![t] = Top(t).old]
      /\ stack' = [stack EXCEPT ![t] = Front(@)]
      /\ UNCHANGED leaked

-----------------------------------------------------------------------------
CallInit ==
  /\ shared_mutex = Free /\ leaked = Free
  /\ mutex = [f \in Callbacks |-> Free]
  /\ stack = [t \in Threads |-> <<>>]
  /\ control = [t \in Threads |-> IF t = Main THEN NoControl ELSE Own]

CallNext ==
  \E t \in Threads :
    \/ \E f \in Callbacks : Call(t, f)
    \/ Lock(t) \/ Marshalled(t) \/ MarshalDies(t)
    \/ Enter(t) \/ Results(t) \/ Leave(t)

CallSpec == CallInit /\ [][CallNext]_callVars

-----------------------------------------------------------------------------
\* The thread that t waits for, if any.
WaitsFor(t) ==
  CASE At(t, "enter") -> {mutex[Top(t).f]} \ {t, Free}
    [] At(t, "lookup") \/ At(t, "results") -> {shared_mutex} \ {t, Free}
    [] OTHER -> {}

\* Threads wait for each other in a ring only when each of them is inside one
\* callback and calls another that the next one is inside: never because of
\* shared_mutex, unless a call has died with it, and never one thread alone.
DeadlockExplained ==
  \A ring \in (SUBSET Threads) \ {{}} :
    UNION {WaitsFor(t) : t \in ring} = ring /\ (\A t \in ring : WaitsFor(t) # {}) =>
      \/ leaked # Free
      \/ /\ Cardinality(ring) > 1
         /\ \A t \in ring : At(t, "enter") /\ Len(stack[t]) > 1

\* Two threads are never in one callback's interpreter, and thread-local
\* storage never points to a go_control of a call that has returned.
InterpretersSafe ==
  /\ \A t, u \in Threads : \A i \in DOMAIN stack[t], j \in DOMAIN stack[u] :
       LET x == stack[t][i]
           y == stack[u][j]
       IN  t # u /\ x.old # Unset /\ y.old # Unset => x.f # y.f
  /\ \A t \in Threads : control[t] \in {Own, NoControl} \cup DOMAIN stack[t]

\* Callbacks that call each other from several threads: no two threads in one
\* interpreter, and no deadlock but the one that two callbacks make of
\* themselves.
CallbacksSafe == InterpretersSafe /\ DeadlockExplained
=============================================================================
