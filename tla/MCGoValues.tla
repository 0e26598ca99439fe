----------------------------- MODULE MCGoValues -----------------------------
(* What go routines share: a channel between the main interpreter and two    *)
(* routines, and an array between two routines.  A behaviour is one of one   *)
(* of them, as `part` says; the variables of the other rest.                 *)
EXTENDS GoChannel, SharedValues

CONSTANTS main, r1, r2, msg1, msg2, msg3

MainAndTwo == {main, r1, r2}
TwoRoutines == {r1, r2}
ThreeValues == {msg1, msg2, msg3}

VARIABLE part

InitEach ==
  /\ part \in {"channel", "values"}
  /\ Init /\ SharedInit
  /\ part = "values" => capacity = 0

NextEach ==
  \/ part = "channel" /\ Next /\ UNCHANGED <<part, sharedVars>>
  \/ part = "values" /\ SharedNext /\ UNCHANGED <<part, vars>>

LiveEach ==
  /\ InitEach
  /\ [][NextEach]_<<part, vars, sharedVars>>
  /\ \A t \in Threads : WF_vars(InWait(t))
  /\ SharedFairness
=============================================================================
