--------------------------- MODULE ChannelContract ---------------------------
(***************************************************************************)
(* What a channel of Developer::Dashboard::GoRoutine promises to those who *)
(* use it, with no threads, slots or ring: values arrive once and in the   *)
(* order in which they were accepted, a buffered channel holds at most its *)
(* capacity and an unbuffered one nothing, a send that returns has handed  *)
(* its value over, and the value of a send that failed never arrives.      *)
(***************************************************************************)
EXTENDS Integers, Sequences

CONSTANT Messages

VARIABLES
  capacity,   \* 0: unbuffered
  queue,      \* values accepted and not yet delivered
  delivered,  \* values delivered, in order
  outcome,    \* outcome[m]: what the sender of m was told
  closed

vars == <<capacity, queue, delivered, outcome, closed>>

Arrived(m) == \E i \in DOMAIN delivered : delivered[i] = m

Init == /\ capacity \in Nat
        /\ queue = <<>>
        /\ delivered = <<>>
        /\ outcome = [m \in Messages |-> "none"]
        /\ closed = FALSE

\* A buffered send: the value is accepted and the sender goes on.
Accept(m) ==
  /\ ~closed
  /\ outcome[m] = "none"
  /\ Len(queue) < capacity
  /\ queue' = Append(queue, m)
  /\ outcome' = [outcome EXCEPT ![m] = "ok"]
  /\ UNCHANGED <<capacity, delivered, closed>>

Deliver ==
  /\ queue # <<>>
  /\ delivered' = Append(delivered, Head(queue))
  /\ queue' = Tail(queue)
  /\ UNCHANGED <<capacity, outcome, closed>>

\* An unbuffered send: the value passes from hand to hand, ...
Handover(m) ==
  /\ capacity = 0
  /\ ~closed
  /\ outcome[m] = "none"
  /\ ~Arrived(m)
  /\ delivered' = Append(delivered, m)
  /\ UNCHANGED <<capacity, queue, outcome, closed>>

\* ... and its sender learns of it, a close in between notwithstanding.
Succeed(m) ==
  /\ Arrived(m)
  /\ outcome' = [outcome EXCEPT ![m] = "ok"]
  /\ UNCHANGED <<capacity, queue, delivered, closed>>

\* A send is cancelled, or meets a closed channel.
Fail(m) ==
  /\ outcome[m] = "none"
  /\ ~Arrived(m)
  /\ outcome' = [outcome EXCEPT ![m] = "failed"]
  /\ UNCHANGED <<capacity, queue, delivered, closed>>

Close ==
  /\ ~closed
  /\ closed' = TRUE
  /\ UNCHANGED <<capacity, queue, delivered, outcome>>

Next == Deliver \/ Close
        \/ \E m \in Messages : Accept(m) \/ Handover(m) \/ Succeed(m) \/ Fail(m)

Spec == Init /\ [][Next]_vars
==============================================================================
