--------------------------- MODULE CronSlotsProofs ---------------------------
(* That a minute is run twice only if loop.json lost it (TwiceExplained), and *)
(* taken without a run only for a stated reason (TakenIsRun), for any         *)
(* expression, any number of loops, workers and starts and as long as one     *)
(* likes.                                                                     *)
EXTENDS CronSlots, TLAPS

\* A minute that TakenIsRun accounts for.
Accounted(m) ==
  \/ m = Never
  \/ \E r \in runs : r[1] = m
  \/ cron = "launch" /\ stamp = m
  \/ m \in missed

Takes == cron \in {"store", "launch"}

TypeOK ==
  /\ minute \in Nat /\ stamp \in Int /\ slot \in Int
  /\ Takes => stamp \in Nat
  /\ read \in [Writers -> Int]
  /\ \A r \in runs : r[1] \in Nat

\* Minutes are read, and run, in the clock's order.
Ordered == stamp <= minute /\ \A r \in runs : r[1] <= stamp

\* The last minute run is the one in loop.json, if that has not lost it ...
Remembered == \A r \in runs : r[1] \in lost \/ slot = r[1] \/ r[1] < stamp

\* ... so that a loop that has found a minute due again knows it as lost.
Taking ==
  /\ Takes => \A r \in runs : r[1] = stamp => stamp \in lost
  /\ cron = "launch" => slot = stamp \/ stamp \in lost

\* What loop.json says is accounted for, and what anybody has read in it to write back.
Honest == Accounted(slot) /\ \A p \in Writers : Accounted(read[p])

Twice == \A r, q \in runs : r[1] = q[1] /\ r # q => r[1] \in lost

IInv == TypeOK /\ Ordered /\ Remembered /\ Taking /\ Honest /\ Twice

-----------------------------------------------------------------------------
LEMMA InitIInv == ASSUME SlotInit PROVE IInv
BY DEF SlotInit, IInv, TypeOK, Takes, Ordered, Remembered, Taking, Honest, Accounted,
       Twice, Never

\* loop.json is as it was, or is removed or replaced by what somebody has read in it.
Replaced ==
  \/ UNCHANGED <<slot, lost>>
  \/ Loses(Never)
  \/ \E p \in Writers : Loses(read[p])

\* It may have been read again, or a reader has gone.
Reread ==
  /\ read' \in [Writers -> Int]
  /\ \A p \in Writers : read'[p] \in {read[p], slot, Never}

\* The loop moves on, but takes no minute and leaves none that it has taken without
\* saying why.
Aside ==
  /\ missed \subseteq missed'
  /\ \/ cron' = cron
     \/ /\ cron' \notin {"store", "launch"}
        /\ cron = "launch" => stamp \in missed'

\* Whoever writes loop.json, and whenever: all but the loop's own taking of a minute.
LEMMA OthersKeep ==
  ASSUME IInv, UNCHANGED <<minute, stamp, runs>>, Replaced, Reread, Aside
  PROVE  IInv'
<1>1. \A m : Accounted(m) => Accounted(m)'
  BY DEF Accounted, Aside
<1>2. \/ slot' = slot \/ slot' = Never
      \/ \E p \in Writers : slot' = read[p]
  BY DEF Replaced, Loses
<1>3. /\ lost \subseteq lost'
      /\ slot' = slot \/ slot = Never \/ slot \in lost'
  BY DEF Replaced, Loses
<1>4. slot' \in Int /\ (Takes' => Takes) /\ (cron' = "launch" => cron = "launch")
  BY <1>2 DEF IInv, TypeOK, Never, Aside, Takes
<1>5. TypeOK' /\ Ordered'
  BY <1>4 DEF IInv, TypeOK, Ordered, Reread
<1>6. Honest'
  <2>1. Accounted(slot')
    BY <1>2 DEF IInv, Honest, Accounted
  <2>2. Accounted(slot)'
    BY <2>1 DEF Accounted, Aside
  <2>3. ASSUME NEW p \in Writers PROVE Accounted(read[p])'
    <3>1. Accounted(read'[p])
      BY DEF IInv, Honest, Reread, Accounted
    <3> QED
      BY <3>1 DEF Accounted, Aside
  <2> QED
    BY <2>2, <2>3 DEF Honest
<1>7. Remembered'
  <2> SUFFICES ASSUME NEW r \in runs
               PROVE  r[1] \in lost' \/ slot' = r[1] \/ r[1] < stamp
    BY DEF Remembered
  <2>1. r[1] # Never
    BY DEF IInv, TypeOK, Never
  <2> QED
    BY <1>3, <2>1 DEF IInv, Remembered
<1>8. Taking'
  <2>1. ASSUME cron' = "launch" PROVE slot' = stamp' \/ stamp' \in lost'
    <3>1. stamp # Never /\ cron = "launch"
      BY <1>4, <2>1 DEF IInv, TypeOK, Takes, Never
    <3> QED
      BY <1>3, <3>1 DEF IInv, Taking
  <2> QED
    BY <1>3, <1>4, <2>1 DEF IInv, Taking
<1>9. Twice'
  BY <1>3 DEF IInv, Twice
<1> QED
  BY <1>5, <1>6, <1>7, <1>8, <1>9 DEF IInv

\* What _write_loop_state does when it is not about last_cron_slot.
LEMMA LoadOrStore ==
  ASSUME IInv, NEW p \in Writers, Load(p) \/ Store(p) PROVE Replaced /\ Reread
<1>1. CASE Load(p)
  BY <1>1 DEF Load, IInv, TypeOK, Replaced, Reread
<1>2. CASE Store(p)
  BY <1>2 DEF Store, IInv, TypeOK, Replaced, Reread, Never
<1> QED
  BY <1>1, <1>2

-----------------------------------------------------------------------------
(* The loop takes a minute *)

LEMMA DueKeeps == ASSUME IInv, _job_is_due PROVE IInv'
<1> USE DEF _job_is_due, Goes
<1>1. TypeOK' /\ Ordered' /\ Twice'
  BY DEF IInv, TypeOK, Ordered, Twice, losses
<1>2. Remembered'
  <2> SUFFICES ASSUME NEW r \in runs, r[1] \notin lost, slot # r[1]
               PROVE  r[1] < minute
    BY DEF Remembered, losses
  <2>1. r[1] < stamp
    BY DEF IInv, Remembered
  <2> QED
    BY <2>1 DEF IInv, TypeOK, Ordered
<1>3. Taking'
  <2>1. cron' # "launch"
    OBVIOUS
  <2>2. ASSUME cron' = "store", NEW r \in runs, r[1] = stamp'
        PROVE  stamp' \in lost'
    <3>1. slot # minute /\ stamp' = minute
      BY <2>2
    <3>2. r[1] <= stamp /\ stamp <= minute /\ r[1] \in Nat /\ stamp \in Int
      BY DEF IInv, TypeOK, Ordered
    <3>3. ~(r[1] < stamp) /\ slot # r[1]
      BY <2>2, <3>1, <3>2
    <3> QED
      BY <2>2, <3>3 DEF IInv, Remembered, losses
  <2> QED
    BY <2>1, <2>2 DEF Taking, Takes
<1>4. Honest'
  BY DEF IInv, Honest, Accounted, losses
<1> QED
  BY <1>1, <1>2, <1>3, <1>4 DEF IInv

LEMMA WriteKeeps == ASSUME IInv, _write_slot PROVE IInv'
BY DEF _write_slot, Goes, losses, IInv, TypeOK, Takes, Ordered, Remembered, Taking, Honest,
       Accounted, Twice

LEMMA LaunchKeeps == ASSUME IInv, _start_loop_worker PROVE IInv'
<1> USE DEF _start_loop_worker, Goes
<1>1. /\ UNCHANGED <<minute, stamp, slot, read, lost>> /\ missed \subseteq missed'
      /\ cron = "launch" /\ cron' \in {"begin", "note"}
      /\ runs \subseteq runs' /\ \A r \in runs' : r \in runs \/ r[1] = stamp
  OBVIOUS
<1>2. \/ \E w \in Workers : runs' = runs \cup {<<stamp, w>>}
      \/ runs' = runs /\ stamp \in missed'
  OBVIOUS
<1>3. Accounted(stamp)'
  <2>1. CASE \E w \in Workers : runs' = runs \cup {<<stamp, w>>}
    BY <1>1, <2>1 DEF Accounted
  <2>2. CASE stamp \in missed'
    BY <1>1, <2>2 DEF Accounted
  <2> QED
    BY <1>2, <2>1, <2>2
<1>4. \A m : Accounted(m) => Accounted(m)'
  BY <1>1, <1>3 DEF Accounted
<1>5. Honest'
  BY <1>1, <1>4 DEF IInv, Honest
<1>6. TypeOK' /\ Ordered'
  BY <1>1 DEF IInv, TypeOK, Takes, Ordered
<1>7. Remembered' /\ Taking'
  BY <1>1 DEF IInv, Remembered, Taking, Takes
<1>8. Twice'
  <2> SUFFICES ASSUME NEW r \in runs', NEW q \in runs', r[1] = q[1], r # q
               PROVE  r[1] \in lost'
    BY DEF Twice
  <2>1. CASE r \in runs /\ q \in runs
    BY <1>1, <2>1 DEF IInv, Twice
  <2>2. CASE r \in runs /\ q \notin runs
    BY <1>1, <2>2 DEF IInv, Taking, Takes
  <2>3. CASE r \notin runs /\ q \in runs
    BY <1>1, <2>3 DEF IInv, Taking, Takes
  <2>4. ~(r \notin runs /\ q \notin runs)
    BY <1>2
  <2> QED
    BY <2>1, <2>2, <2>3, <2>4
<1> QED
  BY <1>5, <1>6, <1>7, <1>8 DEF IInv

LEMMA MinuteKeeps == ASSUME IInv, Minute PROVE IInv'
BY DEF Minute, losses, IInv, TypeOK, Takes, Ordered, Remembered, Taking, Honest, Accounted,
       Twice

-----------------------------------------------------------------------------
(* Everything else *)

LEMMA ManagerKeeps ==
  ASSUME IInv, NEW m \in Starters, start_loop(m) \/ Records(m) PROVE IInv'
<1>1. CASE start_loop(m)
  BY <1>1, OthersKeep DEF start_loop, losses, Replaced, Reread, Aside, IInv, TypeOK
<1>2. CASE Records(m)
  BY <1>2, LoadOrStore, OthersKeep DEF Records, Writers, Aside
<1> QED
  BY <1>1, <1>2

\* The loop writes its heartbeat, its workers or its end.
LEMMA LoopWritesKeeps ==
  ASSUME IInv, Heartbeat \/ Notes \/ _shutdown_loop PROVE IInv'
<1>1. /\ UNCHANGED <<minute, stamp, runs>> /\ Aside
      /\ Load(TheLoop) \/ Store(TheLoop) \/ (Loses(Never) /\ UNCHANGED read)
  BY DEF Heartbeat, Notes, _shutdown_loop, Goes, Aside
<1>2. Replaced /\ Reread
  BY <1>1, LoadOrStore DEF Writers, Replaced, Reread, IInv, TypeOK
<1> QED
  BY <1>1, <1>2, OthersKeep

\* The loop is signalled or killed.
LEMMA EndKeeps == ASSUME IInv, _signal_stop \/ Crash PROVE IInv'
<1>1. UNCHANGED <<minute, stamp, runs>> /\ Replaced /\ Aside
  BY DEF _signal_stop, Crash, Interrupted, Replaced, Aside
<1>2. Reread
  BY DEF _signal_stop, Crash, Reread, IInv, TypeOK, Never
<1> QED
  BY <1>1, <1>2, OthersKeep

LEMMA ReapKeeps == ASSUME IInv, _reap_finished_loop_workers PROVE IInv'
BY OthersKeep DEF _reap_finished_loop_workers, losses, Replaced, Reread, Aside, IInv, TypeOK

LEMMA WorkerKeeps ==
  ASSUME IInv, NEW w \in Workers, _run_loop_worker(w) PROVE IInv'
<1>1. UNCHANGED <<minute, stamp, runs>> /\ Aside
  BY DEF _run_loop_worker, Aside
<1>2. CASE UNCHANGED <<slot, lost>> /\ (UNCHANGED read \/ read' = [read EXCEPT ![w] = Never])
  BY <1>1, <1>2, OthersKeep DEF Replaced, Reread, IInv, TypeOK, Writers, Never
<1>3. CASE Load(w) \/ Store(w)
  BY <1>1, <1>3, LoadOrStore, OthersKeep DEF Writers
<1> QED
  BY <1>2, <1>3 DEF _run_loop_worker

LEMMA CleanupKeeps == ASSUME IInv, _cleanup_loop_files PROVE IInv'
BY OthersKeep DEF _cleanup_loop_files, Replaced, Reread, Aside, IInv, TypeOK

LEMMA StepKeeps == ASSUME IInv, [SlotNext]_slotVars PROVE IInv'
<1>1. CASE UNCHANGED slotVars
  BY <1>1, OthersKeep DEF slotVars, losses, Replaced, Reread, Aside, IInv, TypeOK
<1>2. CASE LoopSteps
  BY <1>2, DueKeeps, WriteKeeps, LaunchKeeps, LoopWritesKeeps, EndKeeps, ReapKeeps
     DEF LoopSteps
<1>3. CASE \E m \in Starters : start_loop(m) \/ Records(m)
  BY <1>3, ManagerKeeps
<1>4. CASE \E w \in Workers : _run_loop_worker(w)
  BY <1>4, WorkerKeeps
<1>5. CASE _cleanup_loop_files \/ Minute
  BY <1>5, CleanupKeeps, MinuteKeeps
<1> QED
  BY <1>1, <1>2, <1>3, <1>4, <1>5 DEF SlotNext

LEMMA Invariance == SlotSpec => []IInv
<1>1. SlotInit => IInv
  BY InitIInv
<1>2. IInv /\ [SlotNext]_slotVars => IInv'
  BY StepKeeps
<1> QED
  BY <1>1, <1>2, PTL DEF SlotSpec

-----------------------------------------------------------------------------
\* A cron loop does not run a minute twice, unless last_cron_slot was removed with
\* loop.json or somebody, a start or a failed worker, replaced that by what he had read
\* before (_write_loop_state), in whatever order the writers come.
THEOREM TwiceExplainedAlways == SlotSpec => []TwiceExplained
<1>1. IInv => TwiceExplained
  BY DEF IInv, Twice, TwiceExplained
<1> QED
  BY <1>1, Invariance, PTL

\* A minute saved as last_cron_slot was run, or there was no room, no launch or no
\* loop for it any more; also when a stale loop.json has come back.
THEOREM TakenIsRunAlways == SlotSpec => []TakenIsRun
<1>1. IInv => TakenIsRun
  BY DEF IInv, Honest, Accounted, TakenIsRun
<1> QED
  BY <1>1, Invariance, PTL
=============================================================================
