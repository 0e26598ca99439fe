------------------------ MODULE CollectorStatusProofs ------------------------
(***************************************************************************)
(* What TLAPS proves about CollectorStatus for any number of runs, stops   *)
(* and kills: its variables keep their types, the run counter of           *)
(* status.json neither hides a run nor invents one except as NoHiddenRun   *)
(* and NoPhantomRun allow, the log keeps the last of what was appended to  *)
(* it, and a loop helper refuses job.json only when a run got between its  *)
(* start and its read.                                                     *)
(***************************************************************************)
EXTENDS CollectorStatus, FiniteSetTheorems, SequenceTheorems, TLAPS

(***************************************************************************)
(* The inductive invariant                                                 *)
(***************************************************************************)

\* A rotation only begins on a log that is too long, and nothing is appended
\* while it lasts: both hold .log.lock.
Rotation == rotating => rlog = log /\ Len(rlog) > Keep

\* .status.lock: who is between the read and the write of status.json holds
\* it, and what the holder has read is what the file still says.
Locking ==
  /\ \A r \in Runs : rpc[r] \in {"marking", "finishing"} <=> statusLock = r
  /\ mpc = "stopping" <=> statusLock = Manager
  /\ statusLock # Nobody => held = status

\* The counter against the runs it stands for.
Counts ==
  /\ ~flagged => (status.running <=> status.active > 0)
  /\ status.active <= Cardinality(Counted) + leaked
  /\ ~reset => status.active >= Cardinality(Counted)

\* While a loop starts and no run has got in between, job.json is as start_loop
\* wrote it and there is no run that could rewrite it.
Starting ==
  /\ mpc = "spawn" => lpc = "down"
  /\ (mpc = "spawn" \/ lpc = "boot") /\ ~disturbed => job = "full" /\ Live = {}
  /\ lpc = "refused" => disturbed

\* The log, entry by entry, is the end of what was ever appended, and is short
\* of it only once a rotation has left it Keep entries.
Retained ==
  /\ Len(log) <= Len(logged)
  /\ \A i \in 1 .. Len(log) : log[i] = logged[Len(logged) - Len(log) + i]
  /\ Len(log) >= Len(logged) \/ Len(log) >= Keep

IInv == TypeOK /\ Rotation /\ Retained /\ Locking /\ Counts /\ Starting

(***************************************************************************)
(* Type correctness                                                        *)
(***************************************************************************)

LEMMA TypeInit == Init => TypeOK
<1> SUFFICES ASSUME Init PROVE TypeOK
  OBVIOUS
<1>1. NoStatus \in StatusRecords
  BY DEF NoStatus, StatusRecords
<1>2. 0 \in 0 .. MaxStops
  BY StatusAssumption
<1>3. {log, rlog, logged} \subseteq Seq(Runs \cup {Nobody})
  <2>1. <<>> \in Seq(Runs \cup {Nobody}) /\ <<Nobody>> \in Seq(Runs \cup {Nobody})
    OBVIOUS
  <2> QED BY <2>1 DEF Init
<1> QED BY <1>1, <1>2, <1>3 DEF Init, TypeOK, Stages, OutputFiles

\* In the provers' terms: a killed run is one of the finite set of runs.
LEMMA RunSets ==
  ASSUME NEW S \in SUBSET Runs
  PROVE  IsFiniteSet(S) /\ Cardinality(S) \in Nat
  BY StatusAssumption, FS_Subset, FS_CardinalityType

LEMMA TypeRun ==
  ASSUME TypeOK, NEW r \in Runs,
         WorkerStarts(r) \/ ManualStarts(r) \/ RunOnce(r) \/ RunKilled(r)
  PROVE  TypeOK'
<1> USE StatusAssumption DEF TypeOK, runVars, statusVars, logVars, loopVars,
        history, Go, Begins, UpdateLoad, UpdateStore, NoStatus, StatusRecords,
        Stages, OutputFiles

<1>1. CASE WorkerStarts(r)
  BY <1>1 DEF WorkerStarts

<1>2. CASE ManualStarts(r)
  BY <1>2 DEF ManualStarts

<1>3. CASE WorkerReadsJob(r)
  BY <1>3 DEF WorkerReadsJob

<1>4. CASE RunWritesJob(r)
  BY <1>4 DEF RunWritesJob

<1>5. CASE MarkStartedLoad(r)
  BY <1>5 DEF MarkStartedLoad

<1>6. CASE MarkStartedStore(r)
  <2>1. held.active + 1 \in Nat
    OBVIOUS
  <2>2. [held EXCEPT !.exists = TRUE, !.running = TRUE,
                     !.active = held.active + 1] \in StatusRecords
    BY <2>1
  <2>3. status' \in StatusRecords
    BY <1>6, <2>2 DEF MarkStartedStore
  <2>4. held' \in StatusRecords /\ statusLock' = Nobody
    BY <1>6 DEF MarkStartedStore
  <2>5. rpc' \in [Runs -> Stages]
    BY <1>6 DEF MarkStartedStore
  <2>6. /\ UNCHANGED <<job, out, indicator, rjob, exit, payload, logVars, loopVars,
                       stops, leaked, reset, mixed, disturbed>>
        /\ flagged' = FALSE
    BY <1>6 DEF MarkStartedStore
  <2> QED BY <2>3, <2>4, <2>5, <2>6

<1>7. CASE RunJob(r)
  <2>1. exit' \in [Runs -> {0, 1}] /\ payload' \in [Runs -> BOOLEAN]
    BY <1>7 DEF RunJob
  <2> QED BY <1>7, <2>1 DEF RunJob

<1>8. CASE WriteOutput(r)
  BY <1>8 DEF WriteOutput, AfterOutput

<1>9. CASE MarkFinishedLoad(r)
  BY <1>9 DEF MarkFinishedLoad

<1>10. CASE MarkFinishedStore(r)
  <2>1. Less(held.active) \in Nat
    BY DEF Less
  <2>2. status' \in StatusRecords
    BY <1>10, <2>1 DEF MarkFinishedStore
  <2> QED BY <1>10, <2>2 DEF MarkFinishedStore

<1>11. CASE AppendLog(r)
  BY <1>11 DEF AppendLog

<1>12. CASE SetIndicator(r)
  BY <1>12 DEF SetIndicator

<1>13. CASE RunRefused(r)
  BY <1>13 DEF RunRefused

<1>14. CASE LogError(r)
  BY <1>14 DEF LogError

<1>15. CASE RunKilled(r)
  <2>1. Cardinality({r} \cap Counted) \in Nat
    BY RunSets
  <2> QED BY <1>15, <2>1 DEF RunKilled, RunsDie
<1> QED
  BY <1>1, <1>2, <1>3, <1>4, <1>5, <1>6, <1>7, <1>8, <1>9, <1>10, <1>11, <1>12,
     <1>13, <1>14, <1>15 DEF RunOnce

LEMMA TypeOthers ==
  ASSUME TypeOK, Rotation,
         \/ RotateLoad \/ RotateStore \/ ManagerNext \/ LoopReadsJob \/ LoopKilled
         \/ WatchdogWrites
  PROVE  TypeOK'
<1> USE StatusAssumption DEF TypeOK, runVars, statusVars, logVars, loopVars,
        history, Go, Begins, UpdateLoad, UpdateStore, NoStatus, StatusRecords,
        Stages, OutputFiles

<1>1. CASE RotateLoad
  BY <1>1 DEF RotateLoad

<1>2. CASE RotateStore
  <2>1. Len(rlog) - Keep + 1 \in 1 .. Len(rlog) + 1
    BY <1>2 DEF RotateStore, Rotation
  <2>2. SubSeq(rlog, Len(rlog) - Keep + 1, Len(rlog)) \in Seq(Runs \cup {Nobody})
    BY <2>1
  <2>3. log' \in Seq(Runs \cup {Nobody}) /\ rlog' \in Seq(Runs \cup {Nobody})
    BY <1>2, <2>2 DEF RotateStore
  <2>4. /\ rotating' \in BOOLEAN
        /\ UNCHANGED <<job, out, indicator, rpc, rjob, exit, payload, status,
                       statusLock, held, logged, lpc, mpc, stops, leaked, reset,
                       flagged, mixed,
                       disturbed>>
    BY <1>2 DEF RotateStore
  <2> QED BY <2>3, <2>4

<1>3. CASE StartWritesJob
  BY <1>3 DEF StartWritesJob

<1>4. CASE StartSpawns
  BY <1>4 DEF StartSpawns

<1>5. CASE StopLoop
  <2>1. PICK rs \in SUBSET LoopRuns :
               /\ stops < MaxStops
               /\ stops' = stops + 1
               /\ mpc' = IF status.exists THEN "stop" ELSE "idle"
               /\ lpc' = "down"
               /\ disturbed' = FALSE
               /\ RunsDie(rs)
               /\ UNCHANGED <<job, out, indicator, rjob, exit, payload, status,
                              logVars, reset, flagged>>
    BY <1>5 DEF StopLoop
  <2>2. Cardinality(rs \cap Counted) \in Nat
    BY RunSets DEF Counted
  <2>3. rs \subseteq Runs
    BY DEF LoopRuns, Live
  <2>4. rpc' \in [Runs -> Stages]
    BY <2>1 DEF RunsDie
  <2>5. held' \in StatusRecords /\ leaked' \in Nat
    BY <2>1, <2>2 DEF RunsDie
  <2>6. mixed' \in BOOLEAN
    BY <2>1 DEF RunsDie
  <2>7. statusLock' \in Runs \cup {Manager, Nobody}
    BY <2>1 DEF RunsDie
  <2>8. /\ stops' \in 0 .. MaxStops
        /\ mpc' \in {"idle", "spawn", "stop", "stopping"}
        /\ lpc' = "down"
        /\ disturbed' = FALSE
        /\ UNCHANGED <<job, out, indicator, rjob, exit, payload, status, logVars, reset,
                       flagged>>
    BY <2>1
  <2> QED BY <2>4, <2>5, <2>6, <2>7, <2>8

<1>6. CASE MarkStoppedLoad
  BY <1>6 DEF MarkStoppedLoad

<1>7. CASE MarkStoppedStore
  BY <1>7 DEF MarkStoppedStore

<1>8. CASE LoopReadsJob
  BY <1>8 DEF LoopReadsJob

<1>9. CASE LoopKilled
  BY <1>9 DEF LoopKilled

<1>10. CASE WatchdogWrites
  <2>1. PICK running \in BOOLEAN :
               status' = [status EXCEPT !.exists = TRUE, !.running = running]
    BY <1>10 DEF WatchdogWrites
  <2>2. status' \in StatusRecords
    BY <2>1
  <2>3. /\ flagged' \in BOOLEAN
        /\ UNCHANGED <<job, out, indicator, rpc, rjob, exit, payload, statusLock,
                       held, log, rotating, rlog, logged, lpc, mpc, stops, leaked,
                       reset, mixed, disturbed>>
    BY <1>10 DEF WatchdogWrites
  <2> QED BY <2>2, <2>3

<1> QED
  BY <1>1, <1>2, <1>3, <1>4, <1>5, <1>6, <1>7, <1>8, <1>9, <1>10 DEF ManagerNext

(***************************************************************************)
(* One step of the system, action by action, as the lemmas below split it  *)
(***************************************************************************)

\* Every step that moves a run's place in run_once moves one run along.
Steps(r) ==
  \/ WorkerStarts(r) \/ ManualStarts(r) \/ WorkerReadsJob(r) \/ RunWritesJob(r)
  \/ MarkStartedLoad(r) \/ MarkStartedStore(r) \/ RunJob(r) \/ WriteOutput(r)
  \/ MarkFinishedLoad(r) \/ MarkFinishedStore(r) \/ AppendLog(r)
  \/ SetIndicator(r) \/ RunRefused(r) \/ LogError(r)

Deaths(rs) ==
  /\ rs \subseteq Runs
  /\ RunsDie(rs)
  /\ UNCHANGED <<job, status, logVars, reset, flagged>>
  /\ \/ UNCHANGED <<lpc, mpc, disturbed>>
     \/ /\ mpc = "idle" /\ mpc' \in {"idle", "stop"}
        /\ lpc' = "down" /\ disturbed' = FALSE

Others ==
  \/ RotateLoad \/ RotateStore \/ StartWritesJob \/ StartSpawns
  \/ MarkStoppedLoad \/ MarkStoppedStore \/ LoopReadsJob \/ LoopKilled
  \/ WatchdogWrites

\* A kill and a stop are the same to the runs: some of them die.
LEMMA NextSplit ==
  ASSUME Next
  PROVE  \/ \E r \in Runs : Steps(r)
         \/ \E rs \in SUBSET Runs : Deaths(rs)
         \/ Others
<1>1. ASSUME NEW r \in Runs, RunKilled(r) PROVE Deaths({r})
  BY <1>1 DEF RunKilled, Deaths, loopVars
<1>2. ASSUME StopLoop PROVE \E rs \in SUBSET Runs : Deaths(rs)
  <2>1. PICK rs \in SUBSET LoopRuns :
               /\ mpc = "idle"
               /\ mpc' = IF status.exists THEN "stop" ELSE "idle"
               /\ lpc' = "down"
               /\ disturbed' = FALSE
               /\ RunsDie(rs)
               /\ UNCHANGED <<job, out, indicator, rjob, exit, payload, status,
                              logVars, reset, flagged>>
    BY <1>2 DEF StopLoop
  <2>2. rs \in SUBSET Runs
    BY DEF LoopRuns, Live
  <2>3. Deaths(rs)
    BY <2>1, <2>2 DEF Deaths
  <2> QED BY <2>2, <2>3
<1> QED
  BY <1>1, <1>2 DEF Next, RunOnce, ManagerNext, Steps, Others

(***************************************************************************)
(* The two locks                                                           *)
(***************************************************************************)

LEMMA RotationStep ==
  ASSUME TypeOK, Rotation, Next
  PROVE  Rotation'
<1> USE DEF Rotation, runVars, statusVars, logVars, loopVars, history
<1>1. CASE \E r \in Runs : Steps(r)
  <2>1. PICK r \in Runs : Steps(r)
    BY <1>1
  <2>2. CASE AppendLog(r)
    BY <2>2 DEF AppendLog
  <2>4. CASE LogError(r)
    BY <2>4 DEF LogError
  <2>3. CASE ~AppendLog(r) /\ ~LogError(r)
    <3>1. UNCHANGED <<log, rotating, rlog>>
      BY <2>1, <2>3 DEF Steps, RunRefused, WorkerStarts, ManualStarts, WorkerReadsJob,
         RunWritesJob, MarkStartedLoad, MarkStartedStore, RunJob, WriteOutput,
         MarkFinishedLoad, MarkFinishedStore, SetIndicator
    <3> QED BY <3>1
  <2> QED BY <2>2, <2>3, <2>4
<1>2. CASE \E rs \in SUBSET Runs : Deaths(rs)
  <2>1. UNCHANGED <<log, rotating, rlog>>
    BY <1>2 DEF Deaths
  <2> QED BY <2>1
<1>3. CASE Others
  <2>1. CASE RotateLoad
    BY <2>1 DEF RotateLoad
  <2>2. CASE RotateStore
    BY <2>2 DEF RotateStore
  <2>3. CASE ~RotateLoad /\ ~RotateStore
    <3>1. UNCHANGED <<log, rotating, rlog>>
      BY <1>3, <2>3 DEF Others, StartWritesJob, StartSpawns, MarkStoppedLoad,
         MarkStoppedStore, LoopReadsJob, LoopKilled, WatchdogWrites
    <3> QED BY <3>1
  <2> QED BY <2>1, <2>2, <2>3
<1> QED BY <1>1, <1>2, <1>3, NextSplit

(***************************************************************************)
(* The log                                                                 *)
(***************************************************************************)

\* IsSuffix, which the module library defines by reversal, read from the end
\* of both sequences.
LEMMA SuffixFromEnd ==
  ASSUME NEW S, NEW s \in Seq(S), NEW t \in Seq(S),
         Len(s) <= Len(t),
         \A i \in 1 .. Len(s) : s[i] = t[Len(t) - Len(s) + i]
  PROVE  IsSuffix(s, t)
<1>1. Reverse(s) \in Seq(S) /\ Len(Reverse(s)) = Len(s)
  BY DEF Reverse
<1>2. Reverse(t) \in Seq(S) /\ Len(Reverse(t)) = Len(t)
  BY DEF Reverse
<1>3. ASSUME NEW i \in 1 .. Len(s)
      PROVE  Reverse(s)[i] = Reverse(t)[i]
  <2>1. Reverse(s)[i] = s[Len(s) - i + 1]
    BY DEF Reverse
  <2>2. Reverse(t)[i] = t[Len(t) - i + 1]
    BY DEF Reverse
  <2>3. s[Len(s) - i + 1] = t[Len(t) - Len(s) + (Len(s) - i + 1)]
    <3>1. Len(s) - i + 1 \in 1 .. Len(s)
      OBVIOUS
    <3> QED BY <3>1
  <2>4. Len(t) - Len(s) + (Len(s) - i + 1) = Len(t) - i + 1
    OBVIOUS
  <2> QED BY <2>1, <2>2, <2>3, <2>4
<1> DEFINE a == SubSeq(Reverse(s), 1, Len(s))
           b == SubSeq(Reverse(t), 1, Len(s))
<1>4. a \in Seq(S) /\ Len(a) = Len(s) /\ \A i \in 1 .. Len(s) : a[i] = Reverse(s)[i]
  BY <1>1
<1>5. b \in Seq(S) /\ Len(b) = Len(s) /\ \A i \in 1 .. Len(s) : b[i] = Reverse(t)[i]
  BY <1>2
<1>6. a = b
  <2> HIDE DEF a, b
  <2> QED BY <1>3, <1>4, <1>5, SeqEqual
<1> QED BY <1>1, <1>2, <1>6 DEF IsSuffix, IsPrefix

\* append_log_entry: the same entry at the end of both.
LEMMA RetainedAppend ==
  ASSUME TypeOK, Retained, NEW r \in Runs,
         log' = Append(log, r), logged' = Append(logged, r)
  PROVE  Retained'
<1> DEFINE Entries == Runs \cup {Nobody}
<1>1. log \in Seq(Entries) /\ logged \in Seq(Entries)
  BY DEF TypeOK
<1>2. /\ Len(log') = Len(log) + 1
      /\ \A i \in 1 .. Len(log) + 1 : log'[i] = IF i <= Len(log) THEN log[i] ELSE r
  BY <1>1
<1>3. /\ Len(logged') = Len(logged) + 1
      /\ \A i \in 1 .. Len(logged) + 1 :
           logged'[i] = IF i <= Len(logged) THEN logged[i] ELSE r
  BY <1>1
<1>4. Len(log) \in Nat /\ Len(logged) \in Nat /\ Keep \in Nat
  BY <1>1, StatusAssumption
<1>5. ASSUME NEW i \in 1 .. Len(log')
      PROVE  log'[i] = logged'[Len(logged') - Len(log') + i]
  <2> DEFINE k == Len(logged) - Len(log) + i
  <2>0. i \in 1 .. Len(log) + 1
    BY <1>2
  <2>1. Len(logged') - Len(log') + i = k
    BY <1>2, <1>3, <1>4, <2>0
  <2>2. k \in 1 .. Len(logged) + 1
    BY <1>4, <2>0 DEF Retained
  <2>3. CASE i <= Len(log)
    <3>1. k <= Len(logged) /\ i \in 1 .. Len(log)
      BY <1>4, <2>0, <2>3
    <3>2. log[i] = logged[k]
      BY <3>1 DEF Retained
    <3>3. log'[i] = log[i] /\ logged'[k] = logged[k]
      BY <1>2, <1>3, <2>0, <2>2, <3>1
    <3> QED BY <2>1, <3>2, <3>3
  <2>4. CASE ~(i <= Len(log))
    <3>1. ~(k <= Len(logged))
      BY <1>4, <2>0, <2>4
    <3>2. log'[i] = r /\ logged'[k] = r
      BY <1>2, <1>3, <2>0, <2>2, <2>4, <3>1
    <3> QED BY <2>1, <3>2
  <2> QED BY <2>3, <2>4
<1>6. Len(log') <= Len(logged') /\ (Len(log') >= Len(logged') \/ Len(log') >= Keep)
  BY <1>2, <1>3, <1>4 DEF Retained
<1> QED BY <1>5, <1>6 DEF Retained

\* rotate_log's last step: the last Keep entries of a log longer than that.
LEMMA RetainedRotate ==
  ASSUME TypeOK, Rotation, Retained, RotateStore
  PROVE  Retained'
<1> DEFINE Entries == Runs \cup {Nobody}
<1>1. log \in Seq(Entries) /\ logged \in Seq(Entries)
  BY DEF TypeOK
<1>2. Len(log) \in Nat /\ Len(logged) \in Nat /\ Keep \in Nat /\ Len(log) > Keep
  BY <1>1, StatusAssumption DEF Rotation, RotateStore
<1>3. log' = SubSeq(log, Len(log) - Keep + 1, Len(log)) /\ logged' = logged
  BY DEF Rotation, RotateStore
<1>4. /\ Len(log') = Keep
      /\ \A i \in 1 .. Keep : log'[i] = log[Len(log) - Keep + i]
  <2>1. Len(log') = Keep
    BY <1>1, <1>2, <1>3
  <2>2. \A i \in 1 .. Keep : log'[i] = log[Len(log) - Keep + i]
    BY <1>1, <1>2, <1>3
  <2> QED BY <2>1, <2>2
<1>5. ASSUME NEW i \in 1 .. Keep
      PROVE  log'[i] = logged[Len(logged) - Keep + i]
  <2>1. Len(log) - Keep + i \in 1 .. Len(log)
    BY <1>2
  <2>2. log[Len(log) - Keep + i]
          = logged[Len(logged) - Len(log) + (Len(log) - Keep + i)]
    BY <2>1 DEF Retained
  <2>3. Len(logged) - Len(log) + (Len(log) - Keep + i) = Len(logged) - Keep + i
    BY <1>2
  <2> QED BY <1>4, <2>2, <2>3
<1>6. Keep <= Len(logged)
  BY <1>2 DEF Retained
<1>7. \A i \in 1 .. Len(log') : log'[i] = logged'[Len(logged') - Len(log') + i]
  BY <1>3, <1>4, <1>5
<1>8. Len(log') <= Len(logged') /\ Len(log') >= Keep
  BY <1>2, <1>3, <1>4, <1>6
<1> QED BY <1>7, <1>8 DEF Retained

LEMMA RetainedStep ==
  ASSUME TypeOK, Rotation, Retained, Next
  PROVE  Retained'
<1> USE DEF runVars, statusVars, logVars, loopVars, history
<1>1. ASSUME UNCHANGED <<log, logged>> PROVE Retained'
  BY <1>1 DEF Retained
<1>2. ASSUME NEW r \in Runs, Steps(r) PROVE Retained'
  <2>1. CASE AppendLog(r) \/ LogError(r)
    BY <2>1, RetainedAppend DEF AppendLog, LogError
  <2>2. CASE ~AppendLog(r) /\ ~LogError(r)
    <3>1. UNCHANGED <<log, logged>>
      BY <1>2, <2>2 DEF Steps, RunRefused, WorkerStarts, ManualStarts, WorkerReadsJob,
         RunWritesJob, MarkStartedLoad, MarkStartedStore, RunJob, WriteOutput,
         MarkFinishedLoad, MarkFinishedStore, SetIndicator
    <3> QED BY <1>1, <3>1
  <2> QED BY <2>1, <2>2
<1>3. ASSUME NEW rs \in SUBSET Runs, Deaths(rs) PROVE Retained'
  BY <1>1, <1>3 DEF Deaths
<1>4. CASE Others
  <2>1. CASE RotateStore
    BY <2>1, RetainedRotate
  <2>2. CASE ~RotateStore
    <3>1. UNCHANGED <<log, logged>>
      BY <1>4, <2>2 DEF Others, RotateLoad, StartWritesJob, StartSpawns,
         MarkStoppedLoad, MarkStoppedStore, LoopReadsJob, LoopKilled, WatchdogWrites
    <3> QED BY <1>1, <3>1
  <2> QED BY <2>1, <2>2
<1> QED BY <1>2, <1>3, <1>4, NextSplit

LEMMA LockingStep ==
  ASSUME TypeOK, Locking, Next
  PROVE  Locking'
<1> USE StatusAssumption
    DEF TypeOK, Locking, runVars, statusVars, logVars, loopVars, history, Go,
        Stages, OutputFiles
<1>1. ASSUME NEW r \in Runs, Steps(r) PROVE Locking'
  <2>1. CASE MarkStartedLoad(r)
    BY <2>1 DEF MarkStartedLoad, UpdateLoad
  <2>2. CASE MarkFinishedLoad(r)
    BY <2>2 DEF MarkFinishedLoad, UpdateLoad
  <2>3. CASE MarkStartedStore(r)
    BY <2>3 DEF MarkStartedStore, UpdateStore
  <2>4. CASE MarkFinishedStore(r)
    BY <2>4 DEF MarkFinishedStore, UpdateStore
  <2>5. CASE WriteOutput(r)
    BY <2>5 DEF WriteOutput, AfterOutput
  <2>6. CASE WorkerStarts(r) \/ ManualStarts(r)
    BY <2>6 DEF WorkerStarts, ManualStarts, Begins
  <2>7. CASE WorkerReadsJob(r) \/ RunWritesJob(r) \/ RunJob(r)
    BY <2>7 DEF WorkerReadsJob, RunWritesJob, RunJob
  <2>8. CASE AppendLog(r) \/ SetIndicator(r)
    BY <2>8 DEF AppendLog, SetIndicator
  <2>9. CASE RunRefused(r) \/ LogError(r)
    BY <2>9 DEF RunRefused, LogError
  <2> QED BY <1>1, <2>1, <2>2, <2>3, <2>4, <2>5, <2>6, <2>7, <2>8, <2>9 DEF Steps
<1>2. ASSUME NEW rs \in SUBSET Runs, Deaths(rs) PROVE Locking'
  BY <1>2 DEF Deaths, RunsDie
<1>3. CASE Others
  <2>1. CASE MarkStoppedLoad
    BY <2>1 DEF MarkStoppedLoad, UpdateLoad
  <2>2. CASE MarkStoppedStore
    BY <2>2 DEF MarkStoppedStore, UpdateStore
  <2>3. CASE StartWritesJob
    BY <2>3 DEF StartWritesJob
  <2>4. CASE StartSpawns
    BY <2>4 DEF StartSpawns
  <2>5. CASE RotateLoad \/ RotateStore
    BY <2>5 DEF RotateLoad, RotateStore
  <2>6. CASE LoopReadsJob \/ LoopKilled
    BY <2>6 DEF LoopReadsJob, LoopKilled
  <2>7. CASE WatchdogWrites
    BY <2>7 DEF WatchdogWrites
  <2> QED BY <1>3, <2>1, <2>2, <2>3, <2>4, <2>5, <2>6, <2>7 DEF Others
<1> QED BY <1>1, <1>2, <1>3, NextSplit

(***************************************************************************)
(* The run counter                                                         *)
(***************************************************************************)

\* A step that leaves status.json, its history and the counted runs alone
\* keeps the counter right.
LEMMA CountsKept ==
  ASSUME Counts, Counted' = Counted, UNCHANGED <<status, leaked, reset, flagged>>
  PROVE  Counts'
  BY DEF Counts

LEMMA CountedAdd ==
  ASSUME NEW r \in Runs, r \notin Counted
  PROVE  Cardinality(Counted \cup {r}) = Cardinality(Counted) + 1
  BY RunSets, FS_AddElement DEF Counted

LEMMA CountedRemove ==
  ASSUME NEW r \in Runs, r \in Counted
  PROVE  Cardinality(Counted \ {r}) = Cardinality(Counted) - 1
  BY RunSets, FS_RemoveElement DEF Counted

LEMMA CountedLess ==
  ASSUME NEW rs \in SUBSET Runs
  PROVE  Cardinality(Counted \ rs) = Cardinality(Counted) - Cardinality(rs \cap Counted)
<1>1. Counted \in SUBSET Runs
  BY DEF Counted
<1>2. IsFiniteSet(Counted)
  BY <1>1, RunSets
<1>3. Cardinality(Counted \ rs) = Cardinality(Counted) - Cardinality(Counted \cap rs)
  BY <1>2, FS_Difference
<1>4. Counted \cap rs = rs \cap Counted
  OBVIOUS
<1> QED BY <1>3, <1>4

LEMMA CountsStep ==
  ASSUME TypeOK, Locking, Counts, Next
  PROVE  Counts'
<1> USE DEF runVars, statusVars, logVars, loopVars, history
<1>0. /\ Counted \in SUBSET Runs
      /\ Cardinality(Counted) \in Nat
      /\ status.active \in Nat /\ leaked \in Nat
  BY RunSets DEF TypeOK, StatusRecords, Counted
<1>1. ASSUME NEW r \in Runs, Steps(r) PROVE Counts'
  <2>1. CASE MarkStartedStore(r)
    <3>1. held = status /\ held \in StatusRecords
      BY <2>1, StatusAssumption DEF MarkStartedStore, Go, Locking, TypeOK
    <3>2. /\ status'.running = TRUE
          /\ status'.active = status.active + 1
      BY <2>1, <3>1 DEF MarkStartedStore, UpdateStore, StatusRecords
    <3>3. r \notin Counted /\ Counted' = Counted \cup {r}
      BY <2>1 DEF MarkStartedStore, Go, Counted, TypeOK, OutputFiles
    <3>4. Cardinality(Counted') = Cardinality(Counted) + 1
      BY <3>3, CountedAdd
    <3>5. UNCHANGED <<leaked, reset>>
      BY <2>1 DEF MarkStartedStore
    <3> QED BY <1>0, <3>2, <3>4, <3>5 DEF Counts
  <2>2. CASE MarkFinishedStore(r)
    <3>1. held = status
      BY <2>2, StatusAssumption DEF MarkFinishedStore, Go, Locking, TypeOK
    <3>2. /\ status'.running <=> status'.active > 0
          /\ status'.active = Less(status.active)
      BY <2>2, <3>1 DEF MarkFinishedStore, UpdateStore
    <3>3. r \in Counted /\ Counted' = Counted \ {r}
      BY <2>2 DEF MarkFinishedStore, Go, Counted, TypeOK, OutputFiles
    <3>4. Cardinality(Counted') = Cardinality(Counted) - 1
      BY <3>3, CountedRemove
    <3>5. Cardinality(Counted) # 0
      BY <1>0, <3>3, <3>4, RunSets DEF Counted
    <3>6. UNCHANGED <<leaked, reset>>
      BY <2>2 DEF MarkFinishedStore
    <3>7. /\ status'.active <= Cardinality(Counted') + leaked'
          /\ ~reset' => status'.active >= Cardinality(Counted')
      BY <1>0, <3>2, <3>4, <3>5, <3>6 DEF Counts, Less
    <3> QED BY <3>2, <3>7 DEF Counts
  <2>3. CASE ~MarkStartedStore(r) /\ ~MarkFinishedStore(r)
    <3>1. UNCHANGED <<status, leaked, reset, flagged>>
      BY <1>1, <2>3 DEF Steps, RunRefused, LogError, WorkerStarts, ManualStarts, WorkerReadsJob,
         RunWritesJob, MarkStartedLoad, RunJob, WriteOutput, MarkFinishedLoad,
         AppendLog, SetIndicator, UpdateLoad
    <3>2. Counted' = Counted
      BY <1>1, <2>3 DEF Steps, RunRefused, LogError, WorkerStarts, ManualStarts, WorkerReadsJob,
         RunWritesJob, MarkStartedLoad, RunJob, WriteOutput, MarkFinishedLoad,
         AppendLog, SetIndicator, Begins, Go, Counted, TypeOK, OutputFiles,
         AfterOutput
    <3> QED BY <3>1, <3>2, CountsKept
  <2> QED BY <2>1, <2>2, <2>3
<1>2. ASSUME NEW rs \in SUBSET Runs, Deaths(rs) PROVE Counts'
  <2>1. Counted' = Counted \ rs
    BY <1>2 DEF Deaths, RunsDie, Counted, OutputFiles
  <2>2. Cardinality(Counted') = Cardinality(Counted) - Cardinality(rs \cap Counted)
    BY <2>1, CountedLess
  <2>3. Cardinality(rs \cap Counted) \in Nat
    BY RunSets
  <2>4. /\ leaked' = leaked + Cardinality(rs \cap Counted)
        /\ UNCHANGED <<status, reset, flagged>>
    BY <1>2 DEF Deaths, RunsDie
  <2> QED BY <1>0, <2>2, <2>3, <2>4 DEF Counts
<1>3. CASE Others
  <2>1. Counted' = Counted
    BY <1>3 DEF Others, RotateLoad, RotateStore, StartWritesJob, StartSpawns,
       MarkStoppedLoad, MarkStoppedStore, LoopReadsJob, LoopKilled, WatchdogWrites,
       Counted
  <2>2. CASE MarkStoppedStore
    <3>1. status'.running = FALSE /\ status'.active = 0
      BY <2>2 DEF MarkStoppedStore, UpdateStore, TypeOK, StatusRecords
    <3>2. leaked' = 0 /\ (~reset' => Counted = {})
      BY <2>2 DEF MarkStoppedStore
    <3>3. ~reset' => Cardinality(Counted') = 0
      BY <2>1, <3>2, FS_EmptySet
    <3> QED BY <1>0, <2>1, <3>1, <3>2, <3>3 DEF Counts
  <2>4. CASE WatchdogWrites
    <3>1. /\ status'.active = status.active
          /\ flagged'
          /\ UNCHANGED <<leaked, reset>>
      BY <2>4 DEF WatchdogWrites, TypeOK, StatusRecords
    <3> QED BY <2>1, <3>1 DEF Counts
  <2>3. CASE ~MarkStoppedStore /\ ~WatchdogWrites
    <3>1. UNCHANGED <<status, leaked, reset, flagged>>
      BY <1>3, <2>3 DEF Others, RotateLoad, RotateStore, StartWritesJob,
         StartSpawns, MarkStoppedLoad, LoopReadsJob, LoopKilled, UpdateLoad
    <3> QED BY <2>1, <3>1, CountsKept
  <2> QED BY <2>2, <2>3, <2>4
<1> QED BY <1>1, <1>2, <1>3, NextSplit

(***************************************************************************)
(* job.json while a loop starts                                            *)
(***************************************************************************)

LEMMA StartingStep ==
  ASSUME TypeOK, Starting, Next
  PROVE  Starting'
<1> USE DEF Starting, runVars, statusVars, logVars, loopVars, history
<1>1. ASSUME NEW r \in Runs, Steps(r) PROVE Starting'
  <2>1. CASE WorkerStarts(r) \/ ManualStarts(r)
    BY <2>1 DEF WorkerStarts, ManualStarts, Begins
  <2>2. CASE ~WorkerStarts(r) /\ ~ManualStarts(r)
    <3>1. r \in Live
      BY <1>1, <2>2 DEF Steps, WorkerReadsJob, RunWritesJob, MarkStartedLoad,
         MarkStartedStore, RunJob, WriteOutput, MarkFinishedLoad,
         MarkFinishedStore, AppendLog, SetIndicator, RunRefused, LogError, Go, Live,
         OutputFiles
    <3>2. UNCHANGED <<lpc, mpc, disturbed>>
      BY <1>1, <2>2 DEF Steps, WorkerReadsJob, RunWritesJob, MarkStartedLoad,
         MarkStartedStore, RunJob, WriteOutput, MarkFinishedLoad,
         MarkFinishedStore, AppendLog, SetIndicator, RunRefused, LogError
    <3> QED BY <3>1, <3>2
  <2> QED BY <2>1, <2>2
<1>2. ASSUME NEW rs \in SUBSET Runs, Deaths(rs) PROVE Starting'
  <2>1. Live' \subseteq Live /\ job' = job
    BY <1>2 DEF Deaths, RunsDie, Live
  <2> QED BY <1>2, <2>1 DEF Deaths
<1>3. CASE Others
  <2>1. Live' = Live
    BY <1>3 DEF Others, RotateLoad, RotateStore, StartWritesJob, StartSpawns,
       MarkStoppedLoad, MarkStoppedStore, LoopReadsJob, LoopKilled, WatchdogWrites,
       Live
  <2>2. CASE StartWritesJob
    BY <2>1, <2>2 DEF StartWritesJob
  <2>3. CASE StartSpawns
    BY <2>1, <2>3 DEF StartSpawns
  <2>4. CASE LoopReadsJob
    BY <2>1, <2>4 DEF LoopReadsJob
  <2>5. CASE LoopKilled
    BY <2>1, <2>5 DEF LoopKilled
  <2>6. CASE RotateLoad \/ RotateStore
    BY <2>1, <2>6 DEF RotateLoad, RotateStore
  <2>7. CASE MarkStoppedLoad \/ MarkStoppedStore
    BY <2>1, <2>7 DEF MarkStoppedLoad, MarkStoppedStore
  <2>8. CASE WatchdogWrites
    BY <2>1, <2>8 DEF WatchdogWrites
  <2> QED BY <1>3, <2>2, <2>3, <2>4, <2>5, <2>6, <2>7, <2>8 DEF Others
<1> QED BY <1>1, <1>2, <1>3, NextSplit

(***************************************************************************)
(* The theorems                                                            *)
(***************************************************************************)

LEMMA InvInit == Init => IInv
<1> SUFFICES ASSUME Init PROVE IInv
  OBVIOUS
<1>1. TypeOK
  BY TypeInit
<1>2. Counted = {} /\ Live = {}
  BY DEF Init, Counted, Live, OutputFiles
<1>3. Cardinality(Counted) = 0
  BY <1>2, FS_EmptySet
<1>4. Counts
  BY <1>3 DEF Init, Counts, NoStatus
<1>5. Rotation /\ Locking /\ Starting
  BY StatusAssumption DEF Init, Rotation, Locking, Starting
<1>6. Retained
  <2>1. log \in Seq(Runs \cup {Nobody}) /\ logged = log
    BY <1>1 DEF Init, TypeOK
  <2> QED BY <2>1 DEF Retained
<1> QED BY <1>1, <1>4, <1>5, <1>6 DEF IInv

LEMMA InvStep == IInv /\ [Next]_vars => IInv'
<1> SUFFICES ASSUME IInv, [Next]_vars PROVE IInv'
  OBVIOUS
<1>1. CASE Next
  <2>1. TypeOK'
    BY <1>1, TypeRun, TypeOthers DEF IInv, Next
  <2> QED
    BY <1>1, <2>1, RotationStep, RetainedStep, LockingStep, CountsStep, StartingStep
       DEF IInv
<1>2. CASE UNCHANGED vars
  <2> USE <1>2 DEF vars, runVars, statusVars, logVars, loopVars, history
  <2>1. TypeOK'
    BY DEF IInv, TypeOK
  <2>2. Rotation' /\ Retained' /\ Locking' /\ Starting'
    BY DEF IInv, Rotation, Retained, Locking, Starting, Live
  <2>3. Counted' = Counted
    BY DEF Counted
  <2>4. Counts'
    BY <2>3, CountsKept DEF IInv
  <2> QED BY <2>1, <2>2, <2>4 DEF IInv
<1> QED BY <1>1, <1>2

LEMMA InvAlways == Spec => []IInv
  BY InvInit, InvStep, PTL DEF Spec

\* CollectorStatus's variables keep their types: every path through run_once,
\* start_loop, stop_loop and rotate_log, killed anywhere, leaves well-formed
\* files, and the run counter stays a natural number.
THEOREM TypeCorrect == Spec => []TypeOK
  BY InvAlways, PTL DEF IInv

\* mark_run_started and mark_run_finished count every run in progress, however
\* many overlap and whoever is killed, until a stop zeroes the count.
THEOREM NoHiddenRunAlways == Spec => []NoHiddenRun
<1>1. IInv => NoHiddenRun
  <2> SUFFICES ASSUME IInv PROVE NoHiddenRun
    OBVIOUS
  <2>1. Counted # {} => Cardinality(Counted) > 0
    <3>1. IsFiniteSet(Counted) /\ Cardinality(Counted) \in Nat
      BY RunSets DEF Counted
    <3> QED BY <3>1, FS_EmptySet
  <2>2. status.active \in Nat /\ Cardinality(Counted) \in Nat
    BY RunSets DEF IInv, TypeOK, StatusRecords, Counted
  <2> QED BY <2>1, <2>2 DEF IInv, Counts, NoHiddenRun
<1> QED BY <1>1, InvAlways, PTL

\* The counter is never ahead of the runs in progress by more than the runs
\* killed since the last stop.
THEOREM NoPhantomRunAlways == Spec => []NoPhantomRun
<1>1. IInv => NoPhantomRun
  BY DEF IInv, Counts, NoPhantomRun
<1> QED BY <1>1, InvAlways, PTL

\* append_log_entry and rotate_log, under their common lock, never lose an
\* entry that the rotation rule keeps, reorder two or keep one out of place,
\* whatever the runs and the rotations and wherever one is killed.
THEOREM LogIsTailAlways == Spec => []LogIsTail
<1>1. IInv => LogIsTail
  <2> SUFFICES ASSUME IInv PROVE LogIsTail
    OBVIOUS
  <2>1. log \in Seq(Runs \cup {Nobody}) /\ logged \in Seq(Runs \cup {Nobody})
    BY DEF IInv, TypeOK
  <2>2. IsSuffix(log, logged)
    BY <2>1, SuffixFromEnd DEF IInv, Retained
  <2> QED BY <2>2 DEF IInv, Retained, LogIsTail
<1> QED BY <1>1, InvAlways, PTL

\* A loop helper dies of the job.json it reads only if a run of the collector
\* was in progress between start_loop's write of it and the read.
THEOREM RefusalExplainedAlways == Spec => []RefusalExplained
<1>1. IInv => RefusalExplained
  BY DEF IInv, Starting, RefusalExplained
<1> QED BY <1>1, InvAlways, PTL
=============================================================================
