------------------------------ MODULE WorkerPool ------------------------------
(***************************************************************************)
(* What a collector's supervisor loops promise about the runs they launch, *)
(* with no files, signals or in-memory tracking: each loop has a pool of   *)
(* at most MaxParallel running workers, a run is launched once and never   *)
(* changes pools, and a loop that has ended launches nothing more.  This   *)
(* is the execution policy of _collector_execution_policy: MaxParallel is  *)
(* 1 for mode singleton and the configured `multiple` for mode multiple.   *)
(***************************************************************************)
EXTENDS Integers, FiniteSets

CONSTANTS Loops, Workers, MaxParallel

VARIABLES
  pool,    \* pool[l]: the runs of loop l in progress
  used,    \* every run ever launched
  closed   \* loops that have ended

vars == <<pool, used, closed>>

Init == /\ pool = [l \in Loops |-> {}]
        /\ used = {}
        /\ closed = {}

Launch(l, w) ==
  /\ l \notin closed
  /\ w \notin used
  /\ Cardinality(pool[l]) < MaxParallel
  /\ pool' = [pool EXCEPT ![l] = @ \cup {w}]
  /\ used' = used \cup {w}
  /\ UNCHANGED closed

\* Runs end, of their own accord or terminated by a stop, and loops end.
Settle ==
  /\ \E kept \in SUBSET used : pool' = [l \in Loops |-> pool[l] \cap kept]
  /\ \E ended \in SUBSET Loops : closed' = closed \cup ended
  /\ UNCHANGED used

Next == (\E l \in Loops, w \in Workers : Launch(l, w)) \/ Settle

Spec == Init /\ [][Next]_vars
===============================================================================
