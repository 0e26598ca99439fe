------------------------------ MODULE GoProcess ------------------------------
(***************************************************************************)
(* Native processes (GoRoutineProcess.xs, dd_spawn_process of              *)
(* GoRoutineProcessNative.h, on POSIX): spawn() starts a child and returns *)
(* its pid; any thread may then ask about that number, send it a signal or *)
(* wait for it.  The pid is a number of the kernel's, which gives it to    *)
(* another process once the child is collected.                            *)
(*                                                                         *)
(* A call is a step, except that wait_process blocks; a child answers TERM *)
(* and KILL alike.  What the child runs is in GoSpawn.                     *)
(***************************************************************************)
EXTENDS Integers, FiniteSets

CONSTANTS
  Pids,
  Callers,       \* threads of the dashboard
  MaxChildren,   \* bound on successful spawns
  Nobody, Stranger

VARIABLES
  table,    \* table[p]: Nobody, a child's number, or Stranger (kernel)
  life,     \* life[h]: "unborn", "running", "zombie" or "gone" (kernel)
  spawned,  \* spawned[h]: what spawn returned for the h-th child
  waiting,  \* waiting[c]: the child that c waits for, or Nobody
  returned, \* returned[h]: calls of wait_process that returned h's status
  exited,   \* children that process_exited has called exited
  hit       \* processes hit by a signal meant for another: <<meant, hit>>

processVars == <<table, life, spawned, waiting, returned, exited, hit>>

Children == 1 .. MaxChildren

ASSUME ProcessAssumption ==
  Nobody \notin Children /\ Stranger \notin Children /\ Nobody # Stranger

-----------------------------------------------------------------------------
\* dd_spawn_process.  A failure, at whichever stage, creates no process.
dd_spawn_process(h, p) ==
  /\ life[h] = "unborn" /\ \A g \in 1 .. h - 1 : life[g] # "unborn"
  /\ table[p] = Nobody
  /\ table' = [table EXCEPT ![p] = h]
  /\ life' = [life EXCEPT ![h] = "running"]
  /\ spawned' = [spawned EXCEPT ![h] = p]
  /\ UNCHANGED <<waiting, returned, exited, hit>>

\* The child ends, by itself or by a signal (kernel).
Exit(h) ==
  /\ life[h] = "running"
  /\ life' = [life EXCEPT ![h] = "zombie"]
  /\ UNCHANGED <<table, spawned, waiting, returned, exited, hit>>

\* Another process gets a pid that is free, and gives it back (kernel).
Unrelated(p) ==
  /\ table[p] \in {Nobody, Stranger}
  /\ table' = [table EXCEPT ![p] = IF @ = Nobody THEN Stranger ELSE Nobody]
  /\ UNCHANGED <<life, spawned, waiting, returned, exited, hit>>

process_exited_Reaps(h) ==
  LET who == table[spawned[h]]
  IN  /\ life[h] # "unborn"
      /\ who \in Children => life[who] = "zombie"
      /\ who # Stranger
      /\ exited' = exited \cup {h}
      /\ IF who \in Children
           THEN /\ life' = [life EXCEPT ![who] = "gone"]
                /\ table' = [table EXCEPT ![spawned[h]] = Nobody]
           ELSE UNCHANGED <<life, table>>
      /\ UNCHANGED <<spawned, waiting, returned, hit>>

\* waitid with WNOWAIT leaves the zombie; when the pid is no child's, kill(0)
\* tells whether anybody has it.
process_exited(h) ==
  LET who == table[spawned[h]]
  IN  /\ life[h] # "unborn"
      /\ who \in Children => life[who] = "zombie"
      /\ who # Stranger
      /\ exited' = exited \cup {h}
      /\ UNCHANGED <<table, life, spawned, waiting, returned, hit>>

\* kill; ESRCH is no error.
terminate_process(h) ==
  LET who == table[spawned[h]]
  IN  /\ life[h] # "unborn" /\ who # Nobody
      /\ life' = IF who \in Children /\ life[who] = "running"
                   THEN [life EXCEPT ![who] = "zombie"] ELSE life
      /\ hit' = IF who = h THEN hit ELSE hit \cup {<<h, who>>}
      /\ UNCHANGED <<table, spawned, waiting, returned, exited>>

\* wait_process blocks in waitpid while the pid is a running child's.
StartWait(c, h) ==
  /\ waiting[c] = Nobody /\ life[h] # "unborn"
  /\ waiting' = [waiting EXCEPT ![c] = h]
  /\ UNCHANGED <<table, life, spawned, returned, exited, hit>>

wait_process(c) ==
  LET who == table[spawned[waiting[c]]]
  IN  /\ waiting[c] # Nobody
      /\ IF who \in Children
           THEN /\ life[who] = "zombie"
                /\ life' = [life EXCEPT ![who] = "gone"]
                /\ table' = [table EXCEPT ![spawned[waiting[c]]] = Nobody]
                /\ returned' = [returned EXCEPT ![who] = @ + 1]
           ELSE UNCHANGED <<table, life, returned>>  \* ECHILD: croaks
      /\ waiting' = [waiting EXCEPT ![c] = Nobody]
      /\ UNCHANGED <<spawned, exited, hit>>

-----------------------------------------------------------------------------
ProcessInit ==
  /\ table = [p \in Pids |-> Nobody]
  /\ life = [h \in Children |-> "unborn"]
  /\ spawned = [h \in Children |-> Nobody]
  /\ waiting = [c \in Callers |-> Nobody]
  /\ returned = [h \in Children |-> 0]
  /\ exited = {} /\ hit = {}

ProcessNext ==
  \/ \E h \in Children :
       \/ \E p \in Pids : dd_spawn_process(h, p)
       \/ Exit(h) \/ process_exited(h) \/ terminate_process(h)
       \/ \E c \in Callers : StartWait(c, h)
  \/ \E p \in Pids : Unrelated(p)
  \/ \E c \in Callers : wait_process(c)

ProcessSpec == ProcessInit /\ [][ProcessNext]_processVars

-----------------------------------------------------------------------------
\* A child that has been called exited has exited, its status is returned
\* once at most, and as long as it has not been the pid is the child's: asking
\* about it, however often and from however many threads, loses nothing, and a
\* signal goes astray only after the child was collected.
PidHeld ==
  /\ \A h \in exited : life[h] \in {"zombie", "gone"}
  /\ \A h \in Children :
       /\ returned[h] <= 1
       /\ life[h] # "unborn" /\ returned[h] = 0 => table[spawned[h]] = h
  /\ \A e \in hit : returned[e[1]] = 1
=============================================================================
