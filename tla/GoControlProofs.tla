--------------------------- MODULE GoControlProofs ---------------------------
(* That the status of a routine is honest and the count of routines exact,   *)
(* for any number of routines, calls and watchers.                           *)
EXTENDS GoControl, FiniteSetTheorems, TLAPS

\* The root interpreter is no routine.
ControlAssumption ==
  /\ MaxRoutines \in Nat
  /\ Root \notin Routines

TypeOK ==
  /\ launch \in [Routines -> {"no", "counted", "created", "failed", "handle"}]
  /\ caller \in [Routines -> Threads]
  /\ state \in [Routines -> {"unborn", "running"} \cup Finals]
  /\ cancel_reason \in [Routines -> {"none", "kill", "timeout"}]
  /\ exit_requested \in [Routines -> BOOLEAN]
  /\ step \in [Threads -> {"none", "op", "check", "go", "blocked", "ended",
                           "opaque", "destroy", "gone", "barrier"}]
  /\ verdict \in [Routines -> {"none"} \cup Finals]
  /\ go_active \in Nat

\* A routine has a thread once it is created and a state once it is counted.
Launched ==
  \A r \in Routines :
    /\ step[r] = "none" <=> launch[r] \in {"no", "counted", "failed"}
    /\ state[r] = "unborn" <=> launch[r] = "no"

\* A reason for an end is honest.
Honest(r, how) ==
  /\ how = "killed" => cancel_reason[r] = "kill"
  /\ how = "timed_out" => cancel_reason[r] = "timeout"
  /\ how = "exited" => exit_requested[r]

Verdicts ==
  \A r \in Routines :
    /\ step[r] = "ended" => verdict[r] \in Finals /\ Honest(r, verdict[r])
    /\ Finished(r) <=> step[r] \in {"destroy", "gone"}
    /\ Honest(r, state[r])

Live ==
  {r \in Routines : launch[r] \in {"counted", "created", "handle"} /\ step[r] # "gone"}

Counted == go_active = Cardinality(Live)

IInv == TypeOK /\ Launched /\ Verdicts /\ Counted

-----------------------------------------------------------------------------
(* Counting *)

LEMMA LiveFinite ==
  ASSUME ControlAssumption
  PROVE  IsFiniteSet(Routines) /\ IsFiniteSet(Live) /\ IsFiniteSet(Live')
<1>1. IsFiniteSet(Routines)
  BY FS_Interval DEF ControlAssumption, Routines
<1>2. Live \subseteq Routines /\ Live' \subseteq Routines
  BY DEF Live
<1> QED
  BY <1>1, <1>2, FS_Subset

LEMMA CountSame ==
  ASSUME Counted, Live' = Live, go_active' = go_active
  PROVE  Counted'
BY DEF Counted

LEMMA CountUp ==
  ASSUME ControlAssumption, Counted, NEW r \in Routines,
         r \notin Live, Live' = Live \cup {r}, go_active' = go_active + 1
  PROVE  Counted'
BY LiveFinite, FS_AddElement DEF Counted

LEMMA CountDown ==
  ASSUME ControlAssumption, TypeOK, Counted, NEW r \in Routines,
         r \in Live, Live' = Live \ {r}, go_active' = Dec(go_active)
  PROVE  Counted'
<1>1. Cardinality(Live \ {r}) = Cardinality(Live) - 1
  BY LiveFinite, FS_RemoveElement
<1>2. Cardinality(Live \ {r}) \in Nat
  BY LiveFinite, FS_RemoveElement, FS_CardinalityType
<1>3. Cardinality(Live) > 0
  BY <1>1, <1>2, LiveFinite, FS_CardinalityType
<1> QED
  BY <1>1, <1>3 DEF Counted, Dec

-----------------------------------------------------------------------------
(* The invariant *)

LEMMA InitIInv ==
  ASSUME ControlAssumption, Init
  PROVE  IInv
<1>1. TypeOK /\ Launched /\ Verdicts
  BY DEF ControlAssumption, Init, TypeOK, Launched, Verdicts, Honest, Finished, Finals,
         Threads
<1>2. Live = {}
  BY DEF Init, Live
<1> QED
  BY <1>1, <1>2, FS_EmptySet DEF Init, IInv, Counted

LEMMA GoCountsIInv ==
  ASSUME ControlAssumption, IInv, NEW t \in Threads, NEW r \in Routines, GoCounts(t, r)
  PROVE  IInv'
<1>1. TypeOK'
  BY DEF IInv, TypeOK, GoCounts, Moves, ctlVars, timeVars
<1>2. /\ r # t
      /\ \A q \in Routines : q # r => launch'[q] = launch[q] /\ state'[q] = state[q]
      /\ \A q \in Routines : step[q] # "op" => step'[q] = step[q]
      /\ \A q \in Routines : step[q] = "op" => step'[q] \in {"op", "go"}
      /\ launch[r] = "no" /\ launch'[r] = "counted" /\ state'[r] = "running"
      /\ step[r] = "none" /\ state[r] = "unborn"
      /\ UNCHANGED <<cancel_reason, exit_requested, verdict>>
  BY DEF IInv, TypeOK, Launched, GoCounts, Moves, Threads
<1>3. Launched'
  BY <1>2 DEF IInv, TypeOK, Launched
<1>4. Verdicts'
  BY <1>2 DEF IInv, TypeOK, Verdicts, Honest, Finished, Finals
<1>5. Counted'
  <2>1. r \notin Live /\ Live' = Live \cup {r}
    BY <1>2 DEF Live
  <2> QED
    BY <2>1, CountUp DEF IInv, GoCounts
<1> QED
  BY <1>1, <1>3, <1>4, <1>5 DEF IInv

LEMMA GoCreatesIInv ==
  ASSUME ControlAssumption, IInv, NEW r \in Routines, GoCreates(r)
  PROVE  IInv'
<1>1. TypeOK'
  BY DEF IInv, TypeOK, GoCreates, ctlVars, Threads
<1>2. Launched' /\ Verdicts'
  BY DEF IInv, TypeOK, Launched, Verdicts, Honest, Finished, Finals, GoCreates, ctlVars,
         Threads
<1>3. Live' = Live
  BY DEF IInv, TypeOK, Launched, Live, GoCreates, Threads
<1> QED
  BY <1>1, <1>2, <1>3, CountSame DEF IInv, GoCreates

LEMMA GoFailsIInv ==
  ASSUME ControlAssumption, IInv, NEW r \in Routines, GoFails(r)
  PROVE  IInv'
<1>1. TypeOK'
  BY DEF IInv, TypeOK, GoFails, Moves, ctlVars, Dec
<1>2. Launched' /\ Verdicts'
  BY DEF IInv, TypeOK, Launched, Verdicts, Honest, Finished, Finals, GoFails, Moves,
         ctlVars
<1>3. r \in Live /\ Live' = Live \ {r}
  BY DEF IInv, TypeOK, Launched, Live, GoFails, Moves
<1> QED
  BY <1>1, <1>2, <1>3, CountDown DEF IInv, GoFails

LEMMA GoPublishesIInv ==
  ASSUME ControlAssumption, IInv, NEW r \in Routines, GoPublishes(r)
  PROVE  IInv'
<1>1. TypeOK'
  BY DEF IInv, TypeOK, GoPublishes, Moves
<1>2. Launched' /\ Verdicts'
  BY DEF IInv, TypeOK, Launched, Verdicts, Honest, Finished, Finals, GoPublishes, Moves
<1>3. Live' = Live
  BY DEF IInv, TypeOK, Launched, Live, GoPublishes, Moves
<1> QED
  BY <1>1, <1>2, <1>3, CountSame DEF IInv, GoPublishes

\* The steps of a routine's thread but the last leave it among the live ones.
LEMMA RunsIInv ==
  ASSUME ControlAssumption, IInv, NEW r \in Routines, Runs(r)
  PROVE  IInv'
<1> USE DEF IInv, TypeOK, Launched, Verdicts, Honest, Finished, Finals, Moves, Ends,
            goVars, ctlVars, Threads
<1>1. CASE Boundary(r)
  <2>1. TypeOK' /\ Launched' /\ Verdicts'
    BY <1>1 DEF Boundary, Cancelled
  <2>2. Live' = Live
    BY <1>1 DEF Boundary, Live
  <2> QED
    BY <1>1, <2>1, <2>2, CountSame DEF Boundary
<1>2. CASE Operates(r)
  <2>1. TypeOK' /\ Launched' /\ Verdicts'
    BY <1>2 DEF Operates
  <2>2. Live' = Live
    BY <1>2 DEF Operates, Live
  <2> QED
    BY <1>2, <2>1, <2>2, CountSame DEF Operates
<1>3. CASE Exits(r)
  <2>1. TypeOK' /\ Launched' /\ Verdicts'
    BY <1>3 DEF Exits
  <2>2. Live' = Live
    BY <1>3 DEF Exits, Live
  <2> QED
    BY <1>3, <2>1, <2>2, CountSame DEF Exits
<1>4. CASE Finishes(r)
  <2>1. TypeOK' /\ Launched' /\ Verdicts'
    BY <1>4 DEF Finishes
  <2>2. Live' = Live
    BY <1>4 DEF Finishes, Live
  <2> QED
    BY <1>4, <2>1, <2>2, CountSame DEF Finishes
<1>5. CASE Leaves(r)
  <2>1. TypeOK' /\ Launched' /\ Verdicts'
    BY <1>5 DEF Leaves, Dec
  <2>2. r \in Live /\ Live' = Live \ {r}
    BY <1>5 DEF Leaves, Live
  <2> QED
    BY <1>5, <2>1, <2>2, CountDown DEF Leaves
<1> QED
  BY <1>1, <1>2, <1>3, <1>4, <1>5 DEF Runs

\* Requests: whatever is asked for, a reason is set once, and only while the
\* routine has not finished.
LEMMA RequestIInv ==
  ASSUME IInv, NEW r \in Routines, NEW reason \in {"kill", "timeout"},
         RequestCancel(r, reason),
         UNCHANGED <<launch, caller, go_active, state, exit_requested, step, verdict>>
  PROVE  IInv'
<1>1. TypeOK' /\ Launched'
  BY DEF IInv, TypeOK, Launched, RequestCancel
<1>2. /\ \A q \in Routines : cancel_reason[q] # "none" => cancel_reason'[q] = cancel_reason[q]
      /\ UNCHANGED <<exit_requested, state, step, verdict>>
  BY DEF IInv, TypeOK, RequestCancel, Cancelled
<1>3. Verdicts'
  BY <1>2 DEF IInv, TypeOK, Verdicts, Honest, Finished, Finals
<1>4. Live' = Live
  BY DEF Live
<1> QED
  BY <1>1, <1>3, <1>4, CountSame DEF IInv

\* Steps that change neither a routine's launch nor its end.
LEMMA OthersIInv ==
  ASSUME ControlAssumption, IInv,
         UNCHANGED <<launch, caller, go_active, state, cancel_reason, exit_requested, verdict>>,
         \/ UNCHANGED step
         \/ \E r \in Routines : Wakes(r) \/ Unblocks(r)
         \/ BarrierBegins \/ BarrierEnds
  PROVE  IInv'
<1>1. /\ TypeOK'
      /\ \A q \in Routines : \/ step'[q] = step[q]
                             \/ /\ step[q] \in {"blocked", "opaque"}
                                /\ step'[q] = "check"
  BY DEF ControlAssumption, IInv, TypeOK, Wakes, Unblocks, BarrierBegins, BarrierEnds, Moves, Threads
<1>2. Launched' /\ Verdicts'
  BY <1>1 DEF IInv, TypeOK, Launched, Verdicts, Honest, Finished, Finals
<1>3. Live' = Live
  BY <1>1 DEF Live
<1> QED
  BY <1>1, <1>2, <1>3, CountSame DEF IInv

LEMMA NextIInv ==
  ASSUME ControlAssumption, IInv, [Next]_vars
  PROVE  IInv'
<1>1. CASE \E r \in Routines, t \in Threads : GoCounts(t, r)
  BY <1>1, GoCountsIInv
<1>2. CASE \E r \in Routines : GoOn(r)
  BY <1>2, GoCreatesIInv, GoFailsIInv, GoPublishesIInv DEF GoOn
<1>3. CASE \E r \in Routines : Runs(r)
  BY <1>3, RunsIInv
<1>4. CASE \E r \in Routines : Kill(r)
  <2>1. PICK r \in Routines : Kill(r)
    BY <1>4
  <2> QED
    BY <2>1, RequestIInv DEF Kill, goVars
<1>5. CASE \E r \in Routines, g \in Generations : WatcherCancels(r, g)
  <2>1. PICK r \in Routines, g \in Generations : WatcherCancels(r, g)
    BY <1>5
  <2> QED
    BY <2>1, RequestIInv DEF WatcherCancels, goVars
<1>6. CASE \/ \E r \in Routines : Wakes(r) \/ Unblocks(r)
           \/ BarrierBegins \/ BarrierEnds
  BY <1>6, OthersIInv DEF Wakes, Unblocks, BarrierBegins, BarrierEnds, goVars, ctlVars
<1>7. CASE \E r \in Routines, positive \in BOOLEAN : Timeout(r, positive)
  BY <1>7, OthersIInv DEF Timeout, ctlVars
<1>8. CASE \E r \in Routines, g \in Generations :
             WatcherStarts(r, g) \/ WatcherRetires(r, g) \/ WatcherExpires(r, g)
  BY <1>8, OthersIInv DEF WatcherStarts, WatcherRetires, WatcherExpires, goVars, ctlVars
<1>9. CASE UNCHANGED vars
  BY <1>9, OthersIInv DEF vars, goVars, ctlVars
<1> QED
  BY <1>1, <1>2, <1>3, <1>4, <1>5, <1>6, <1>7, <1>8, <1>9 DEF Next, Watches

LEMMA Invariance ==
  ASSUME ControlAssumption
  PROVE  Spec => []IInv
<1>1. Init => IInv
  BY InitIInv
<1>2. IInv /\ [Next]_vars => IInv'
  BY NextIInv
<1> QED
  BY <1>1, <1>2, PTL DEF Spec

\* A final status names the request that was accepted or the exit that was
\* called, in whatever order kills, deadlines, exits and the end come.
THEOREM StatusHonestAlways ==
  ASSUME ControlAssumption
  PROVE  Spec => []StatusHonest
<1>1. IInv => StatusHonest
  BY DEF IInv, Verdicts, Honest, StatusHonest
<1> QED
  BY <1>1, Invariance, PTL

\* The count that wait_all waits for is exact, so that go_active_dec never
\* meets zero, and at zero every routine is over.
THEOREM BarrierMeansFinishedAlways ==
  ASSUME ControlAssumption
  PROVE  Spec => []BarrierMeansFinished
<1>1. ASSUME IInv PROVE BarrierMeansFinished
  <2>1. go_active = Cardinality(Live)
    BY <1>1 DEF IInv, Counted
  <2>2. ASSUME go_active = 0
        PROVE  \A r \in Routines : step[r] \in {"none", "gone"}
                                   /\ (launch[r] = "handle" => Finished(r))
    <3>1. Live = {}
      BY <2>1, <2>2, LiveFinite, FS_EmptySet
    <3> QED
      BY <1>1, <3>1 DEF IInv, TypeOK, Launched, Verdicts, Live
  <2> QED
    BY <2>1, <2>2 DEF BarrierMeansFinished, Live
<1> QED
  BY <1>1, Invariance, PTL
=============================================================================
