------------------------------ MODULE GoChannel ------------------------------
(***************************************************************************)
(* A channel of Developer::Dashboard::GoRoutine as GoRoutine012.xs has it: *)
(* a rendezvous slot with sequence numbers when it is unbuffered, a ring   *)
(* when it is buffered, a mutex and two condition variables, used by any   *)
(* number of threads that send, receive and close and of which routines    *)
(* may be cancelled at any moment.                                         *)
(*                                                                         *)
(* A step is what a thread does while it holds the channel's mutex: up to  *)
(* the unlock or to a wait, which gives the mutex up.  Every wait is timed *)
(* (50 ms), so a waiting thread looks again whether it was signalled or    *)
(* not, and then looks at its cancellation before anything else.           *)
(*                                                                         *)
(* Abstracted: a message is sent once and stands for the shared graph it   *)
(* was marshalled into; a thread that is cancelled unwinds at its next     *)
(* Perl operation (GoControl), so it does nothing more here.               *)
(***************************************************************************)
EXTENDS Integers, Sequences, FiniteSets

CONSTANTS
  Threads,      \* interpreters that hold the channel
  Cancellable,  \* those that are go routines: the main one has no control block
  Messages,     \* values to send, each at most once
  NoMsg,        \* the NULL pointer
  Capacities    \* arguments of channel(), 0 for an unbuffered one

ASSUME ChannelAssumption ==
  /\ Cancellable \subseteq Threads
  /\ NoMsg \notin Messages
  /\ Capacities \subseteq Nat

VARIABLES
  capacity, closed,
  slot, slot_seq,      \* the unbuffered channel's value and its number
  consumed_seq,        \* number of the last value received
  next_seq,            \* number of the last value put into the slot
  buffer, head, tail, count,  \* the ring
  pc,         \* pc[t]: where thread t is
  msg,        \* msg[t]: the value it is sending
  seq,        \* seq[t]: the number it gave it, 0 for none
  cancelled,  \* threads whose cancellation was requested
  delivered,  \* history: values received, in order
  outcome     \* history: outcome[m] as its sender was told

slotVars == <<slot, slot_seq, consumed_seq, next_seq>>
ringVars == <<buffer, head, tail, count>>
sendVars == <<msg, seq, outcome>>
vars == <<capacity, closed, slotVars, ringVars, pc, sendVars, cancelled, delivered>>

-----------------------------------------------------------------------------

Unbuffered == capacity = 0
Full == IF Unbuffered THEN slot # NoMsg ELSE count = capacity
Empty == IF Unbuffered THEN slot = NoMsg ELSE count = 0

Go(t, from, to) == /\ pc[t] = from
                   /\ pc' = [pc EXCEPT ![t] = to]

\* send returns or dies; the value is gone from the thread.
SendEnds(t, from, to, result) ==
  /\ Go(t, from, to)
  /\ outcome' = [outcome EXCEPT ![msg[t]] = result]
  /\ msg' = [msg EXCEPT ![t] = NoMsg]
  /\ seq' = [seq EXCEPT ![t] = 0]

-----------------------------------------------------------------------------
(* _channel_send *)

\* Neither cancelled nor closed: the value is marshalled, with no lock held.
SendBegins(t, m) ==
  /\ t \notin cancelled
  /\ outcome[m] = "none" /\ \A o \in Threads : msg[o] # m
  /\ IF closed
     THEN /\ pc[t] = "idle"
          /\ outcome' = [outcome EXCEPT ![m] = "failed"]
          /\ UNCHANGED <<pc, msg>>
     ELSE /\ Go(t, "idle", "import")
          /\ msg' = [msg EXCEPT ![t] = m]
          /\ UNCHANGED outcome
  /\ UNCHANGED <<capacity, closed, slotVars, ringVars, seq, cancelled, delivered>>

\* The channel was closed while the value was marshalled or the thread waited.
SendFails(t, from) ==
  /\ closed
  /\ SendEnds(t, from, "idle", "failed")
  /\ UNCHANGED <<capacity, closed, slotVars, ringVars, cancelled, delivered>>

\* An unbuffered send leaves its value in the free slot and waits.
SendPosts(t, from) ==
  /\ Unbuffered /\ ~closed /\ ~Full
  /\ Go(t, from, "ackWait")
  /\ next_seq' = next_seq + 1
  /\ slot' = msg[t]
  /\ slot_seq' = next_seq'
  /\ seq' = [seq EXCEPT ![t] = next_seq']
  /\ UNCHANGED <<capacity, closed, consumed_seq, ringVars, msg, outcome,
                 cancelled, delivered>>

\* (i + 1) % capacity
RingNext(i) == (i + 1) % capacity

\* A buffered send puts its value into the ring and returns.
SendPuts(t, from) ==
  /\ ~Unbuffered /\ ~closed /\ ~Full
  /\ SendEnds(t, from, "idle", "ok")
  /\ buffer' = [buffer EXCEPT ![tail] = msg[t]]
  /\ tail' = RingNext(tail)
  /\ count' = count + 1
  /\ UNCHANGED <<capacity, closed, slotVars, head, cancelled, delivered>>

SendProceeds(t, from) ==
  SendFails(t, from) \/ SendPosts(t, from) \/ SendPuts(t, from)

\* The value cannot be marshalled: go_channel_import_value dies.  (It dies with
\* the shared heap's lock held, so that later imports of other threads may
\* block; they do so in "import", about which nothing below promises progress.)
ImportDies(t) ==
  /\ SendEnds(t, "import", "idle", "failed")
  /\ UNCHANGED <<capacity, closed, slotVars, ringVars, cancelled, delivered>>

\* The mutex is taken and the loop condition tested for the first time.
SendEnters(t) ==
  \/ SendProceeds(t, "import")
  \/ /\ Full /\ ~closed
     /\ Go(t, "import", "sendWait")
     /\ UNCHANGED <<capacity, closed, slotVars, ringVars, sendVars, cancelled,
                    delivered>>

\* The wait for room is over: by cancellation, or because there is room.
SendWakes(t) ==
  \/ /\ t \in cancelled
     /\ SendEnds(t, "sendWait", "dead", "failed")
     /\ UNCHANGED <<capacity, closed, slotVars, ringVars, cancelled, delivered>>
  \/ /\ t \notin cancelled
     /\ SendProceeds(t, "sendWait")

\* "A rendezvous completed before a simultaneous close/cancel."
AckSucceeds(t) ==
  /\ consumed_seq >= seq[t]
  /\ SendEnds(t, "ackWait", "idle", "ok")
  /\ UNCHANGED <<capacity, closed, slotVars, ringVars, cancelled, delivered>>

\* Cancelled first: the value, if it is still there, is withdrawn.
AckCancelled(t) ==
  /\ t \in cancelled
  /\ consumed_seq < seq[t]
  /\ SendEnds(t, "ackWait", "dead", "failed")
  /\ slot' = IF slot_seq = seq[t] THEN NoMsg ELSE slot
  /\ UNCHANGED <<capacity, closed, slot_seq, consumed_seq, next_seq, ringVars,
                 cancelled, delivered>>

\* Mutant: any close fails the send.
AckClosed_Always(t) ==
  /\ t \notin cancelled
  /\ closed
  /\ SendEnds(t, "ackWait", "idle", "failed")
  /\ UNCHANGED <<capacity, closed, slotVars, ringVars, cancelled, delivered>>

\* Closed before anyone received it.
AckClosed(t) ==
  /\ t \notin cancelled
  /\ closed /\ consumed_seq < seq[t]
  /\ SendEnds(t, "ackWait", "idle", "failed")
  /\ UNCHANGED <<capacity, closed, slotVars, ringVars, cancelled, delivered>>

AckWakes(t) == AckSucceeds(t) \/ AckCancelled(t) \/ AckClosed(t)

-----------------------------------------------------------------------------
(* _channel_receive *)

TakeSlot ==
  /\ delivered' = Append(delivered, slot)
  /\ consumed_seq' = slot_seq
  /\ slot' = NoMsg
  /\ UNCHANGED <<slot_seq, next_seq, ringVars>>

TakeRing ==
  /\ delivered' = Append(delivered, buffer[head])
  /\ buffer' = [buffer EXCEPT ![head] = NoMsg]
  /\ head' = RingNext(head)
  /\ count' = count - 1
  /\ UNCHANGED <<tail, slotVars>>

\* There is a value, from a closed channel too; or it is closed and drained.
ReceiveReturns(t, from) ==
  /\ Go(t, from, "idle")
  /\ \/ /\ ~Empty
        /\ IF Unbuffered THEN TakeSlot ELSE TakeRing
     \/ /\ Empty /\ closed
        /\ UNCHANGED <<slotVars, ringVars, delivered>>
  /\ UNCHANGED <<capacity, closed, sendVars, cancelled>>

ReceiveBegins(t) ==
  /\ t \notin cancelled
  /\ \/ ReceiveReturns(t, "idle")
     \/ /\ Empty /\ ~closed
        /\ Go(t, "idle", "recvWait")
        /\ UNCHANGED <<capacity, closed, slotVars, ringVars, sendVars, cancelled,
                       delivered>>

\* Mutant: cancellation is not looked at in the wait.
ReceiveWakes_Deaf(t) == ReceiveReturns(t, "recvWait")

\* Mutant: a receiver that once waited looks at the close alone.
ReceiveWakes_OnClose(t) ==
  /\ closed
  /\ ReceiveReturns(t, "recvWait")

\* A cancelled receiver leaves the value, if there is one, to the others.
ReceiveWakes(t) ==
  \/ /\ t \in cancelled
     /\ Go(t, "recvWait", "dead")
     /\ UNCHANGED <<capacity, closed, slotVars, ringVars, sendVars, cancelled,
                    delivered>>
  \/ /\ t \notin cancelled
     /\ ReceiveReturns(t, "recvWait")

-----------------------------------------------------------------------------
(* _channel_close, and cancellation *)

\* "Closing therefore cancels that pending send."  A second close dies and
\* changes nothing.
Close(t) ==
  /\ pc[t] = "idle" /\ t \notin cancelled
  /\ ~closed
  /\ closed' = TRUE
  /\ slot' = NoMsg
  /\ UNCHANGED <<capacity, slot_seq, consumed_seq, next_seq, ringVars, pc,
                 sendVars, cancelled, delivered>>

\* go_control_request_cancel, by a kill or a timeout.
Cancel(t) ==
  /\ t \in Cancellable \ cancelled
  /\ pc[t] # "dead"
  /\ cancelled' = cancelled \cup {t}
  /\ UNCHANGED <<capacity, closed, slotVars, ringVars, pc, sendVars, delivered>>

\* The next Perl operation of a cancelled routine, or its next channel call.
Unwinds(t) ==
  /\ t \in cancelled
  /\ Go(t, "idle", "dead")
  /\ UNCHANGED <<capacity, closed, slotVars, ringVars, sendVars, cancelled,
                 delivered>>

-----------------------------------------------------------------------------

\* channel(capacity)
Init ==
  /\ capacity \in Capacities
  /\ closed = FALSE
  /\ slot = NoMsg
  /\ slot_seq = 0 /\ consumed_seq = 0 /\ next_seq = 0
  /\ buffer = [i \in 0 .. capacity - 1 |-> NoMsg]
  /\ head = 0 /\ tail = 0 /\ count = 0
  /\ pc = [t \in Threads |-> "idle"]
  /\ msg = [t \in Threads |-> NoMsg]
  /\ seq = [t \in Threads |-> 0]
  /\ cancelled = {}
  /\ delivered = <<>>
  /\ outcome = [m \in Messages |-> "none"]

\* What a thread does once it waits in a call.
InWait(t) == SendWakes(t) \/ AckWakes(t) \/ ReceiveWakes(t)

Next ==
  \E t \in Threads :
    \/ \E m \in Messages : SendBegins(t, m)
    \/ ReceiveBegins(t) \/ Close(t) \/ Cancel(t) \/ Unwinds(t)
    \/ ImportDies(t) \/ SendEnters(t)
    \/ InWait(t)

Spec == Init /\ [][Next]_vars

\* A waiting thread keeps running: its waits end after 50 ms at the latest.
LiveSpec == Spec /\ \A t \in Threads : WF_vars(InWait(t))

-----------------------------------------------------------------------------
(* Properties *)

Waiting == {"sendWait", "ackWait", "recvWait"}

\* The queue in the ring, oldest value first.
RingSeq == [i \in 1 .. count |-> buffer[(head + i - 1) % capacity]]

\* What GoRoutine's documentation says of channels: FIFO, once each, at most
\* `capacity` values held, a send that returns has handed over, one that throws
\* has not.  Slots, numbers, ring, waits and cancellation implement it.
Contract == INSTANCE ChannelContract WITH queue <- RingSeq
ImplementsContract == Contract!Spec

\* "close wakes blocked waiters", and kill() and timeout() "also wake routines
\* blocked inside channel send/receive": nobody stays in a call on a closed
\* channel or after its cancellation.  Nor does a receiver wait while there is a
\* value that nobody takes: no wake-up is lost.
NobodyStranded ==
  \A t \in Threads :
    /\ pc[t] \in Waiting /\ (closed \/ t \in cancelled) ~> pc[t] \notin Waiting
    /\ pc[t] = "recvWait" /\ ~Empty ~> pc[t] # "recvWait" \/ Empty
==============================================================================
