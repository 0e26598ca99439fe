---------------------------- MODULE GoValuesProofs ----------------------------
(***************************************************************************)
(* What TLAPS proves about the values that go routines share.              *)
(*                                                                         *)
(* GoChannel, for any number of threads, routines and values and for any   *)
(* capacity: the slot, the sequence numbers, the ring, the waits and the   *)
(* cancellations implement ChannelContract.                                *)
(*                                                                         *)
(* SharedValues, for any number of routines, operations and nodes: the     *)
(* native calls on the array's items, capacity and nodes implement         *)
(* SharedContract, and a splice that nothing came into is Perl's.          *)
(***************************************************************************)
EXTENDS GoChannel, SharedValues, SequenceTheorems, FiniteSetTheorems,
        WellFoundedInduction, TLAPS

(***************************************************************************)
(* Channels: the inductive invariant                                       *)
(***************************************************************************)

Sent == {"import", "sendWait", "ackWait"}

\* Every variable holds a value of its kind.
TypeOK ==
  /\ capacity \in Nat /\ closed \in BOOLEAN
  /\ slot \in Messages \cup {NoMsg}
  /\ slot_seq \in Nat /\ consumed_seq \in Nat /\ next_seq \in Nat
  /\ buffer \in [0 .. capacity - 1 -> Messages \cup {NoMsg}]
  /\ head \in Nat /\ tail \in Nat /\ count \in 0 .. capacity
  /\ pc \in [Threads -> Sent \cup {"idle", "recvWait", "dead"}]
  /\ msg \in [Threads -> Messages \cup {NoMsg}]
  /\ seq \in [Threads -> Nat]
  /\ cancelled \subseteq Threads
  /\ delivered \in Seq(Messages)
  /\ outcome \in [Messages -> {"none", "ok", "failed"}]

\* The ring's indices, and that what is in it was accepted.
Ring ==
  /\ capacity > 0 => head < capacity /\ tail = (head + count) % capacity
  /\ \A i \in 1 .. count : RingSeq[i] \in Messages /\ outcome[RingSeq[i]] = "ok"

\* A value is with one sender at most, who has not been told anything of it.
Sending ==
  /\ \A t \in Threads : pc[t] \in Sent <=> msg[t] # NoMsg
  /\ \A t \in Threads : msg[t] # NoMsg => outcome[msg[t]] = "none"
  /\ \A t, u \in Threads : msg[t] = msg[u] /\ msg[t] # NoMsg => t = u

Posted(t) == pc[t] = "ackWait"

\* The slot holds the value numbered last, its sender waits for that number,
\* and every other sender that waits on an open channel has been served.
Numbers ==
  /\ consumed_seq <= next_seq
  /\ \A t \in Threads : Posted(t) => seq[t] \in 1 .. next_seq
  /\ \A t, u \in Threads : Posted(t) /\ Posted(u) /\ seq[t] = seq[u] => t = u
  /\ slot # NoMsg =>
       /\ ~closed /\ capacity = 0
       /\ slot_seq = next_seq /\ consumed_seq < slot_seq
       /\ \E t \in Threads : Posted(t) /\ seq[t] = slot_seq /\ msg[t] = slot
  /\ ~closed => \A t \in Threads :
       Posted(t) => seq[t] <= consumed_seq \/ (slot # NoMsg /\ seq[t] = slot_seq)

\* A value whose sender has not been told of it has arrived if and only if that
\* sender waits for a number that has been consumed.
Told ==
  \A m \in Messages : outcome[m] = "none" =>
    (Contract!Arrived(m) <=> \E t \in Threads : /\ Posted(t) /\ msg[t] = m
                                                /\ seq[t] <= consumed_seq)

IInv == TypeOK /\ Ring /\ Sending /\ Numbers /\ Told

(***************************************************************************)
(* The ring                                                                *)
(***************************************************************************)

\* (i + 1) % capacity, `count` times over: an index wraps around once at most.
LEMMA Wraps ==
  ASSUME NEW c \in Nat, c > 0, NEW h \in Nat, h < c, NEW i \in 0 .. c
  PROVE  (h + i) % c = IF h + i < c THEN h + i ELSE h + i - c
  OBVIOUS

LEMMA RingSeqType ==
  ASSUME TypeOK, Ring
  PROVE  /\ RingSeq \in Seq(Messages) /\ Len(RingSeq) = count
         /\ \A i \in 1 .. count : RingSeq[i] = buffer[(head + i - 1) % capacity]
<1>1. \A i \in 1 .. count : RingSeq[i] \in Messages
  BY DEF Ring
<1>2. count \in Nat
  BY DEF TypeOK
<1> QED BY <1>1, <1>2 DEF RingSeq

\* A value put at `tail` is the last in the ring, and the ring goes on.
LEMMA RingPut ==
  ASSUME TypeOK, Ring, capacity > 0, count < capacity, NEW x \in Messages,
         capacity' = capacity, head' = head,
         buffer' = [buffer EXCEPT ![tail] = x],
         tail' = RingNext(tail), count' = count + 1
  PROVE  /\ RingSeq' = Append(RingSeq, x)
         /\ tail' \in Nat /\ tail' = (head' + count') % capacity'
         /\ buffer' \in [0 .. capacity - 1 -> Messages \cup {NoMsg}]
<1>1. /\ capacity \in Nat /\ head \in Nat /\ head < capacity /\ count \in 0 .. capacity
      /\ tail = (head + count) % capacity
      /\ buffer \in [0 .. capacity - 1 -> Messages \cup {NoMsg}]
  BY DEF TypeOK, Ring
<1>2. tail = IF head + count < capacity THEN head + count ELSE head + count - capacity
  BY <1>1, Wraps
<1>3. tail \in 0 .. capacity - 1
  BY <1>1, <1>2
<1>4. tail' = (head + (count + 1)) % capacity /\ tail' \in Nat
  <2>1. (head + (count + 1)) % capacity = IF head + (count + 1) < capacity
          THEN head + (count + 1) ELSE head + (count + 1) - capacity
    BY <1>1, Wraps
  <2>2. (tail + 1) % capacity = IF tail + 1 < capacity THEN tail + 1
          ELSE tail + 1 - capacity
    BY <1>1, <1>3, Wraps
  <2> QED BY <1>1, <1>2, <2>1, <2>2 DEF RingNext
<1>5. ASSUME NEW i \in 1 .. count
      PROVE  buffer'[(head + i - 1) % capacity] = buffer[(head + i - 1) % capacity]
  <2>1. (head + (i - 1)) % capacity = IF head + (i - 1) < capacity
          THEN head + (i - 1) ELSE head + (i - 1) - capacity
    BY <1>1, Wraps
  <2>2. head + (i - 1) = head + i - 1
    BY <1>1
  <2>3. (head + i - 1) % capacity # tail /\ (head + i - 1) % capacity \in 0 .. capacity - 1
    BY <1>1, <1>2, <2>1, <2>2
  <2> QED BY <1>1, <2>3
<1>6. buffer'[(head + (count + 1) - 1) % capacity] = x
  <2>1. head + (count + 1) - 1 = head + count
    BY <1>1
  <2> QED BY <1>1, <1>3, <2>1
<1>7. RingSeq \in Seq(Messages) /\ Len(RingSeq) = count
  BY RingSeqType
<1>8. RingSeq' = [i \in 1 .. count + 1 |-> buffer'[(head + i - 1) % capacity]]
  BY DEF RingSeq
<1>9. \A i \in 1 .. count + 1 : RingSeq'[i] = Append(RingSeq, x)[i]
  <2> TAKE i \in 1 .. count + 1
  <2>1. CASE i \in 1 .. count
    <3>1. RingSeq'[i] = buffer[(head + i - 1) % capacity]
      BY <1>5, <1>8, <2>1
    <3>2. RingSeq[i] = buffer[(head + i - 1) % capacity]
      BY <2>1, RingSeqType
    <3>3. Append(RingSeq, x)[i] = RingSeq[i]
      BY <1>7, <2>1
    <3> QED BY <3>1, <3>2, <3>3
  <2>2. CASE i = count + 1
    <3>1. RingSeq'[count + 1] = x
      BY <1>1, <1>6, <1>8
    <3>2. Append(RingSeq, x)[count + 1] = x
      BY <1>7
    <3> QED BY <2>2, <3>1, <3>2
  <2> QED BY <1>1, <2>1, <2>2
<1>10. RingSeq' \in Seq(Messages) /\ Len(RingSeq') = count + 1
  <2>1. \A i \in 1 .. count + 1 : RingSeq'[i] \in Messages
    BY <1>7, <1>9
  <2> QED BY <1>1, <1>8, <2>1
<1>11. Append(RingSeq, x) \in Seq(Messages) /\ Len(Append(RingSeq, x)) = count + 1
  BY <1>7
<1>12. RingSeq' = Append(RingSeq, x)
  BY <1>9, <1>10, <1>11, SeqEqual
<1>13. buffer' \in [0 .. capacity - 1 -> Messages \cup {NoMsg}]
  BY <1>1
<1> QED BY <1>4, <1>12, <1>13

\* The value at `head` is the first in the ring, and what is left is the rest.
LEMMA RingTake ==
  ASSUME TypeOK, Ring, capacity > 0, count # 0,
         capacity' = capacity, tail' = tail,
         buffer' = [buffer EXCEPT ![head] = NoMsg],
         head' = RingNext(head), count' = count - 1
  PROVE  /\ RingSeq # <<>> /\ buffer[head] = Head(RingSeq)
         /\ RingSeq' = Tail(RingSeq)
         /\ head' \in Nat /\ head' < capacity' /\ tail' = (head' + count') % capacity'
         /\ buffer' \in [0 .. capacity - 1 -> Messages \cup {NoMsg}]
<1>1. /\ capacity \in Nat /\ head \in Nat /\ head < capacity /\ count \in 1 .. capacity
      /\ tail = (head + count) % capacity
      /\ buffer \in [0 .. capacity - 1 -> Messages \cup {NoMsg}]
  BY DEF TypeOK, Ring
<1>2. head' = IF head + 1 < capacity THEN head + 1 ELSE head + 1 - capacity
  BY <1>1, Wraps DEF RingNext
<1>3. head' \in Nat /\ head' < capacity
  BY <1>1, <1>2
<1>4. \A i \in 0 .. capacity - 1 : (head' + i) % capacity = (head + (i + 1)) % capacity
  <2> TAKE i \in 0 .. capacity - 1
  <2>1. (head' + i) % capacity = IF head' + i < capacity THEN head' + i
          ELSE head' + i - capacity
    <3>1. ASSUME NEW h \in Nat, h < capacity
          PROVE  (h + i) % capacity = IF h + i < capacity THEN h + i
                   ELSE h + i - capacity
      BY <1>1, <3>1, Wraps
    <3> QED BY <1>3, <3>1
  <2>2. (head + (i + 1)) % capacity = IF head + (i + 1) < capacity THEN head + (i + 1)
          ELSE head + (i + 1) - capacity
    BY <1>1, Wraps
  <2> QED BY <1>1, <1>2, <2>1, <2>2
<1>5. tail' = (head' + count') % capacity'
  <2>1. (head' + (count - 1)) % capacity = (head + (count - 1 + 1)) % capacity
    BY <1>1, <1>4
  <2> QED BY <1>1, <2>1
<1>6. /\ RingSeq \in Seq(Messages) /\ Len(RingSeq) = count
      /\ \A i \in 1 .. count : RingSeq[i] = buffer[(head + i - 1) % capacity]
  BY RingSeqType
<1>7. RingSeq # <<>> /\ buffer[head] = Head(RingSeq)
  <2>1. (head + 1 - 1) % capacity = head
    BY <1>1, Wraps
  <2>2. RingSeq[1] = buffer[(head + 1 - 1) % capacity]
    BY <1>1, <1>6
  <2>3. RingSeq # <<>> /\ RingSeq[1] = Head(RingSeq)
    BY <1>1, <1>6
  <2> QED BY <2>1, <2>2, <2>3
<1>8. RingSeq' = [i \in 1 .. count - 1 |-> buffer'[(head' + i - 1) % capacity]]
  BY DEF RingSeq
<1>9. Tail(RingSeq) \in Seq(Messages) /\ Len(Tail(RingSeq)) = count - 1
  BY <1>6, <1>7
<1>10. \A i \in 1 .. count - 1 : RingSeq'[i] = Tail(RingSeq)[i]
  <2> TAKE i \in 1 .. count - 1
  <2>1. (head' + (i - 1)) % capacity = (head + (i - 1 + 1)) % capacity
    BY <1>1, <1>4
  <2>2. head' + (i - 1) = head' + i - 1 /\ head + (i - 1 + 1) = head + (i + 1) - 1
    BY <1>1, <1>3
  <2>3. (head + i) % capacity = IF head + i < capacity THEN head + i
          ELSE head + i - capacity
    BY <1>1, Wraps
  <2>4. head + (i + 1) - 1 = head + i
    BY <1>1
  <2>5. (head + i) % capacity # head /\ (head + i) % capacity \in 0 .. capacity - 1
    BY <1>1, <2>3
  <2>6. buffer'[(head + i) % capacity] = buffer[(head + i) % capacity]
    BY <1>1, <2>5
  <2>7. RingSeq'[i] = buffer'[(head + i) % capacity]
    BY <1>8, <2>1, <2>2, <2>4
  <2>8. Tail(RingSeq)[i] = RingSeq[i + 1]
    BY <1>6, <1>7
  <2>9. RingSeq[i + 1] = buffer[(head + (i + 1) - 1) % capacity]
    <3>1. i + 1 \in 1 .. count
      BY <1>1
    <3> QED BY <3>1, <1>6
  <2> QED BY <2>4, <2>6, <2>7, <2>8, <2>9
<1>11. RingSeq' \in Seq(Messages) /\ Len(RingSeq') = count - 1
  <2>1. \A i \in 1 .. count - 1 : RingSeq'[i] \in Messages
    BY <1>9, <1>10
  <2> QED BY <1>1, <1>8, <2>1
<1>12. RingSeq' = Tail(RingSeq)
  BY <1>9, <1>10, <1>11, SeqEqual
<1>13. buffer' \in [0 .. capacity - 1 -> Messages \cup {NoMsg}]
  BY <1>1
<1> QED BY <1>3, <1>5, <1>7, <1>12, <1>13

(***************************************************************************)
(* The steps, by what they do to values                                    *)
(***************************************************************************)

Before == {"import", "sendWait"}

\* A send ends before it has put its value anywhere: a closed channel, a
\* cancellation or a value that cannot be marshalled.
Refused(t) ==
  /\ pc[t] \in Before
  /\ \E to \in {"idle", "dead"} : SendEnds(t, pc[t], to, "failed")
  /\ UNCHANGED <<capacity, closed, slotVars, ringVars, cancelled, delivered>>

\* An unbuffered send gives up before its number has been consumed.
Withdrawn(t) ==
  /\ Posted(t) /\ consumed_seq < seq[t]
  /\ \/ slot' = IF slot_seq = seq[t] THEN NoMsg ELSE slot
     \/ closed /\ slot' = slot
  /\ \E to \in {"idle", "dead"} : SendEnds(t, "ackWait", to, "failed")
  /\ UNCHANGED <<capacity, closed, slot_seq, consumed_seq, next_seq, ringVars,
                 cancelled, delivered>>

\* A receiver takes the value of the slot or of the ring.
Taken(t) ==
  /\ pc[t] \in {"idle", "recvWait"} /\ pc' = [pc EXCEPT ![t] = "idle"]
  /\ ~Empty
  /\ IF Unbuffered THEN TakeSlot ELSE TakeRing
  /\ UNCHANGED <<capacity, closed, sendVars, cancelled>>

\* A thread waits, wakes for nothing or dies, and no value moves.
Moves(t) ==
  /\ \E to \in {"idle", "sendWait", "recvWait", "dead"} : pc' = [pc EXCEPT ![t] = to]
  /\ pc[t] # "ackWait" /\ (pc'[t] \in Sent <=> pc[t] \in Sent)
  /\ cancelled' \subseteq Threads
  /\ UNCHANGED <<capacity, closed, slotVars, ringVars, sendVars, delivered>>

LEMMA NextSplit ==
  ASSUME TypeOK, NEW t \in Threads,
         \/ ReceiveBegins(t) \/ Unwinds(t) \/ ImportDies(t) \/ SendEnters(t)
         \/ InWait(t)
  PROVE  \/ Refused(t) \/ Withdrawn(t) \/ Taken(t) \/ Moves(t) \/ AckSucceeds(t)
         \/ \E from \in Before : SendPosts(t, from) \/ SendPuts(t, from)
<1> USE ChannelAssumption DEF Before, Sent, Go, slotVars, ringVars, sendVars, TypeOK
<1>1. ASSUME NEW from \in Before, SendFails(t, from) PROVE Refused(t)
  BY <1>1 DEF SendFails, Refused, SendEnds
<1>2. ASSUME NEW from \in {"idle", "recvWait"}, ReceiveReturns(t, from)
      PROVE  Taken(t) \/ Moves(t)
  BY <1>2 DEF ReceiveReturns, Taken, Moves
<1>3. CASE ReceiveBegins(t)
  BY <1>2, <1>3 DEF ReceiveBegins, Moves
<1>4. CASE Unwinds(t)
  BY <1>4 DEF Unwinds, Moves
<1>5. CASE ImportDies(t)
  BY <1>5 DEF ImportDies, Refused, SendEnds
<1>6. CASE SendEnters(t)
  BY <1>1, <1>6 DEF SendEnters, SendProceeds, Moves
<1>7. CASE SendWakes(t)
  <2>1. CASE SendProceeds(t, "sendWait")
    BY <1>1, <2>1 DEF SendProceeds
  <2>2. CASE SendEnds(t, "sendWait", "dead", "failed")
    BY <1>7, <2>2 DEF SendWakes, Refused, SendEnds, SendProceeds, SendFails, SendPosts,
       SendPuts
  <2> QED BY <1>7, <2>1, <2>2 DEF SendWakes
<1>8. CASE AckWakes(t)
  BY <1>8 DEF AckWakes, AckCancelled, AckClosed, Withdrawn, Posted, SendEnds
<1>9. CASE ReceiveWakes(t)
  BY <1>2, <1>9 DEF ReceiveWakes, Moves
<1> QED BY <1>3, <1>4, <1>5, <1>6, <1>7, <1>8, <1>9 DEF InWait

(***************************************************************************)
(* Each of them keeps the invariant and is a step of the contract          *)
(***************************************************************************)

Allowed == [Contract!Next]_(Contract!vars)

LEMMA RingKept ==
  ASSUME UNCHANGED <<capacity, ringVars>>
  PROVE  RingSeq' = RingSeq
  BY DEF ringVars, RingSeq

\* A sender is told about a value that is not in the ring.
LEMMA RingTold ==
  ASSUME Ring, UNCHANGED <<capacity, ringVars>>, NEW m, outcome[m] = "none",
         NEW result, outcome' = [outcome EXCEPT ![m] = result], TypeOK
  PROVE  Ring'
<1>1. RingSeq' = RingSeq
  BY RingKept
<1>2. \A i \in 1 .. count : RingSeq[i] \in Messages /\ outcome'[RingSeq[i]] = "ok"
  BY DEF Ring, TypeOK
<1> QED BY <1>1, <1>2 DEF Ring, ringVars

LEMMA ArrivedKept ==
  ASSUME delivered' = delivered, NEW m
  PROVE  Contract!Arrived(m)' <=> Contract!Arrived(m)
  BY DEF Contract!Arrived

LEMMA ArrivedAppend ==
  ASSUME delivered \in Seq(Messages), NEW x \in Messages,
         delivered' = Append(delivered, x), NEW m
  PROVE  /\ delivered' \in Seq(Messages)
         /\ Contract!Arrived(m)' <=> Contract!Arrived(m) \/ m = x
  BY DEF Contract!Arrived

LEMMA MovesStep ==
  ASSUME IInv, NEW t \in Threads, Moves(t)
  PROVE  IInv' /\ Allowed
<1> USE DEF IInv, Moves, slotVars, ringVars, sendVars
<1>0. RingSeq' = RingSeq
  BY RingKept
<1>1. TypeOK'
  BY DEF TypeOK, Sent
<1>2. \A u \in Threads : Posted(u)' <=> Posted(u)
  BY DEF TypeOK, Posted
<1>3. \A u \in Threads : pc'[u] \in Sent <=> pc[u] \in Sent
  BY DEF TypeOK
<1>4. Ring'
  BY <1>0 DEF Ring
<1>5. Sending'
  BY <1>3 DEF Sending
<1>6. Numbers'
  BY <1>2 DEF Numbers
<1>7. Told'
  BY <1>2, ArrivedKept DEF Told
<1>8. Allowed
  BY <1>0 DEF Allowed, Contract!vars
<1> QED BY <1>1, <1>4, <1>5, <1>6, <1>7, <1>8

LEMMA RefusedStep ==
  ASSUME IInv, NEW t \in Threads, Refused(t)
  PROVE  IInv' /\ Allowed
<1> USE DEF IInv, Refused, Before, SendEnds, Go, slotVars, ringVars
<1>0. RingSeq' = RingSeq
  BY RingKept
<1>1. msg[t] \in Messages /\ outcome[msg[t]] = "none" /\ ~Posted(t)
  BY DEF Sending, Sent, TypeOK, Posted
<1>2. ~Contract!Arrived(msg[t])
  BY <1>1, ChannelAssumption DEF Told, Sending
<1>3. TypeOK'
  BY <1>1 DEF TypeOK, Sent
<1>4. \A u \in Threads : Posted(u)' <=> Posted(u)
  BY DEF TypeOK, Posted
<1>5. \A u \in Threads : u # t => msg'[u] = msg[u] /\ seq'[u] = seq[u] /\ pc'[u] = pc[u]
  BY DEF TypeOK
<1>6. Ring'
  BY <1>1, RingTold
<1>7. Sending'
  BY <1>1, <1>5 DEF Sending, TypeOK, Sent
<1>8. Numbers'
  BY <1>1, <1>4, <1>5 DEF Numbers
<1>9. Told'
  BY <1>1, <1>4, <1>5, ArrivedKept DEF Told, TypeOK
<1>10. Contract!Fail(msg[t])
  BY <1>0, <1>1, <1>2 DEF Contract!Fail
<1> QED BY <1>1, <1>3, <1>6, <1>7, <1>8, <1>9, <1>10 DEF Allowed, Contract!Next

LEMMA WithdrawnStep ==
  ASSUME IInv, NEW t \in Threads, Withdrawn(t)
  PROVE  IInv' /\ Allowed
<1> USE DEF IInv, Withdrawn, SendEnds, Go, ringVars
<1>0. RingSeq' = RingSeq
  BY RingKept
<1>1. msg[t] \in Messages /\ outcome[msg[t]] = "none" /\ pc[t] = "ackWait"
  BY DEF Sending, Sent, TypeOK, Posted
<1>2. ~Contract!Arrived(msg[t])
  BY <1>1 DEF Told, Sending, Posted, TypeOK
<1>3. TypeOK'
  BY <1>1 DEF TypeOK, Sent
<1>4. \A u \in Threads : Posted(u)' <=> Posted(u) /\ u # t
  BY DEF TypeOK, Posted
<1>5. \A u \in Threads : u # t => msg'[u] = msg[u] /\ seq'[u] = seq[u] /\ pc'[u] = pc[u]
  BY DEF TypeOK
<1>6. Ring'
  BY <1>1, RingTold
<1>7. Sending'
  BY <1>1, <1>5 DEF Sending, TypeOK, Sent
<1>8. slot' = NoMsg
  BY DEF Numbers, TypeOK
<1>9. Numbers'
  BY <1>1, <1>4, <1>5, <1>8 DEF Numbers, TypeOK
<1>10. Told'
  BY <1>1, <1>4, <1>5, ArrivedKept DEF Told, TypeOK, Sending
<1>11. Contract!Fail(msg[t])
  BY <1>0, <1>1, <1>2 DEF Contract!Fail
<1> QED BY <1>1, <1>3, <1>6, <1>7, <1>9, <1>10, <1>11 DEF Allowed, Contract!Next

\* The number has been consumed: the value has arrived.
LEMMA AckStep ==
  ASSUME IInv, NEW t \in Threads, AckSucceeds(t)
  PROVE  IInv' /\ Allowed
<1> USE DEF IInv, AckSucceeds, SendEnds, Go, slotVars, ringVars
<1>0. RingSeq' = RingSeq
  BY RingKept
<1>1. msg[t] \in Messages /\ outcome[msg[t]] = "none" /\ pc[t] = "ackWait"
  BY DEF Sending, Sent, TypeOK
<1>2. Contract!Arrived(msg[t])
  BY <1>1 DEF Told, Posted, TypeOK
<1>3. TypeOK'
  BY <1>1 DEF TypeOK, Sent
<1>4. \A u \in Threads : Posted(u)' <=> Posted(u) /\ u # t
  BY DEF TypeOK, Posted
<1>5. \A u \in Threads : u # t => msg'[u] = msg[u] /\ seq'[u] = seq[u] /\ pc'[u] = pc[u]
  BY DEF TypeOK
<1>6. Ring'
  BY <1>1, RingTold
<1>7. Sending'
  BY <1>1, <1>5 DEF Sending, TypeOK, Sent
<1>8. Numbers'
  <2>1. ASSUME slot # NoMsg
        PROVE  \E u \in Threads : u # t /\ Posted(u) /\ seq[u] = slot_seq /\ msg[u] = slot
    BY <2>1 DEF Numbers, TypeOK
  <2> QED BY <1>4, <1>5, <2>1 DEF Numbers
<1>9. Told'
  <2>1. ASSUME NEW m \in Messages, outcome'[m] = "none"
        PROVE  outcome[m] = "none" /\ msg[t] # m
    BY <1>1, <2>1 DEF TypeOK
  <2>2. \A m \in Messages, u \in Threads : msg[t] # m =>
          ((Posted(u) /\ msg[u] = m /\ seq[u] <= consumed_seq)' <=>
            Posted(u) /\ msg[u] = m /\ seq[u] <= consumed_seq)
    BY <1>4, <1>5
  <2> QED BY <2>1, <2>2, ArrivedKept DEF Told
<1>10. Contract!Succeed(msg[t])
  BY <1>0, <1>2 DEF Contract!Succeed
<1> QED BY <1>1, <1>3, <1>6, <1>7, <1>8, <1>9, <1>10 DEF Allowed, Contract!Next

LEMMA PostsStep ==
  ASSUME IInv, NEW t \in Threads, NEW from \in Before, SendPosts(t, from)
  PROVE  IInv' /\ Allowed
<1> USE DEF IInv, Before, SendPosts, Full, Unbuffered, Go, ringVars
<1>0. RingSeq' = RingSeq
  BY RingKept
<1>1. msg[t] \in Messages /\ outcome[msg[t]] = "none" /\ ~Posted(t)
  BY DEF Sending, Sent, TypeOK, Posted
<1>2. slot = NoMsg /\ ~closed /\ capacity = 0
  OBVIOUS
<1>3. TypeOK'
  BY <1>1 DEF TypeOK, Sent
<1>4. \A u \in Threads : Posted(u)' <=> Posted(u) \/ u = t
  BY DEF TypeOK, Posted
<1>5. \A u \in Threads : u # t => seq'[u] = seq[u] /\ pc'[u] = pc[u]
  BY DEF TypeOK
<1>6. seq'[t] = next_seq' /\ next_seq' = next_seq + 1 /\ slot_seq' = next_seq'
      /\ slot' = msg[t] /\ msg' = msg /\ pc'[t] = "ackWait"
  BY DEF TypeOK
<1>7. Ring'
  BY <1>0 DEF Ring
<1>8. Sending'
  BY <1>1, <1>5, <1>6 DEF Sending, Sent
<1>9. Numbers'
  <2>1. (consumed_seq <= next_seq)'
    BY <1>6 DEF Numbers, TypeOK
  <2>2. (\A u \in Threads : Posted(u) => seq[u] \in 1 .. next_seq)'
    BY <1>4, <1>5, <1>6 DEF Numbers, TypeOK
  <2>3. (\A u, v \in Threads : Posted(u) /\ Posted(v) /\ seq[u] = seq[v] => u = v)'
    BY <1>4, <1>5, <1>6 DEF Numbers, TypeOK
  <2>4. (\E u \in Threads : Posted(u) /\ seq[u] = slot_seq /\ msg[u] = slot)'
    BY <1>4, <1>6
  <2>5. (consumed_seq < slot_seq)'
    BY <1>6 DEF Numbers, TypeOK
  <2>6. \A u \in Threads : Posted(u)' => seq'[u] <= consumed_seq' \/ u = t
    BY <1>2, <1>4, <1>5 DEF Numbers
  <2>7. slot' # NoMsg
    BY <1>1, <1>6, ChannelAssumption
  <2> QED BY <1>2, <1>6, <2>1, <2>2, <2>3, <2>4, <2>5, <2>6, <2>7 DEF Numbers
<1>10. Told'
  <2>1. seq'[t] > consumed_seq
    BY <1>6 DEF Numbers, TypeOK
  <2> QED BY <1>1, <1>4, <1>5, <1>6, <2>1, ArrivedKept DEF Told, TypeOK, Sending
<1>11. Allowed
  BY <1>0 DEF Allowed, Contract!vars
<1> QED BY <1>3, <1>7, <1>8, <1>9, <1>10, <1>11

LEMMA PutsStep ==
  ASSUME IInv, NEW t \in Threads, NEW from \in Before, SendPuts(t, from)
  PROVE  IInv' /\ Allowed
<1> USE DEF IInv, Before, SendPuts, Full, Unbuffered, SendEnds, Go, slotVars
<1>1. msg[t] \in Messages /\ outcome[msg[t]] = "none" /\ ~Posted(t)
  BY DEF Sending, Sent, TypeOK, Posted
<1>2. capacity > 0 /\ count < capacity /\ ~closed
  BY DEF TypeOK
<1>3. /\ RingSeq' = Append(RingSeq, msg[t])
      /\ tail' \in Nat /\ tail' = (head' + count') % capacity'
      /\ buffer' \in [0 .. capacity - 1 -> Messages \cup {NoMsg}]
  BY <1>1, <1>2, RingPut
<1>4. RingSeq \in Seq(Messages) /\ Len(RingSeq) = count
  BY RingSeqType
<1>5. TypeOK'
  BY <1>1, <1>2, <1>3 DEF TypeOK, Sent
<1>6. \A u \in Threads : Posted(u)' <=> Posted(u)
  BY DEF TypeOK, Posted
<1>7. \A u \in Threads : u # t => msg'[u] = msg[u] /\ seq'[u] = seq[u] /\ pc'[u] = pc[u]
  BY DEF TypeOK
<1>8. Ring'
  <2>1. outcome'[msg[t]] = "ok"
    BY <1>1 DEF TypeOK
  <2>2. \A i \in 1 .. count : RingSeq'[i] = RingSeq[i]
    BY <1>3, <1>4 DEF TypeOK
  <2>3. RingSeq'[count + 1] = msg[t]
    BY <1>3, <1>4 DEF TypeOK
  <2>4. \A i \in 1 .. count : outcome'[RingSeq[i]] = "ok" /\ RingSeq[i] \in Messages
    BY <1>1 DEF Ring, TypeOK
  <2>5. \A i \in 1 .. count' : i \in 1 .. count \/ i = count + 1
    BY DEF TypeOK
  <2> QED BY <1>1, <1>3, <2>1, <2>2, <2>3, <2>4, <2>5 DEF Ring
<1>9. Sending'
  BY <1>1, <1>7 DEF Sending, TypeOK, Sent
<1>10. Numbers'
  BY <1>1, <1>6, <1>7 DEF Numbers
<1>11. Told'
  BY <1>1, <1>6, <1>7, ArrivedKept DEF Told, TypeOK
<1>12. Contract!Accept(msg[t])
  BY <1>1, <1>2, <1>3, <1>4 DEF Contract!Accept
<1> QED BY <1>1, <1>5, <1>8, <1>9, <1>10, <1>11, <1>12 DEF Allowed, Contract!Next

LEMMA TakenStep ==
  ASSUME IInv, NEW t \in Threads, Taken(t)
  PROVE  IInv' /\ Allowed
<1> USE DEF IInv, Taken, Empty, Unbuffered, sendVars
<1>1. \A u \in Threads : Posted(u)' <=> Posted(u)
  BY DEF TypeOK, Posted
<1>2. \A u \in Threads : pc'[u] \in Sent <=> pc[u] \in Sent
  BY DEF TypeOK, Sent
<1>3. Sending'
  BY <1>2 DEF Sending
<1>4. CASE Unbuffered
  <2> USE <1>4 DEF TakeSlot, ringVars
  <2>0. RingSeq' = RingSeq
    BY RingKept
  <2>1. slot \in Messages /\ ~closed /\ consumed_seq < slot_seq /\ slot_seq = next_seq
    BY DEF Numbers, TypeOK
  <2>2. PICK p \in Threads : Posted(p) /\ seq[p] = slot_seq /\ msg[p] = slot
    BY DEF Numbers
  <2>3. outcome[slot] = "none" /\ ~Contract!Arrived(slot)
    <3>1. outcome[slot] = "none"
      BY <2>1, <2>2, ChannelAssumption DEF Sending
    <3>2. ASSUME NEW u \in Threads, msg[u] = slot PROVE u = p
      BY <2>1, <2>2, <3>2, ChannelAssumption DEF Sending
    <3>3. ~(seq[p] <= consumed_seq)
      BY <2>1, <2>2 DEF TypeOK
    <3> QED BY <2>1, <3>1, <3>2, <3>3 DEF Told
  <2>4. TypeOK'
    <3>1. delivered' \in Seq(Messages)
      BY <2>1, ArrivedAppend DEF TypeOK
    <3> QED BY <3>1 DEF TypeOK, Sent
  <2>5. Ring'
    BY <2>0 DEF Ring
  <2>6. Numbers'
    BY <1>1, <2>1 DEF Numbers, TypeOK
  <2>7. Told'
    <3>1. \A u \in Threads : Posted(u) =>
            (seq[u] <= consumed_seq' <=> seq[u] <= consumed_seq \/ u = p)
      BY <2>1, <2>2 DEF Numbers, TypeOK
    <3>2. ASSUME NEW m PROVE Contract!Arrived(m)' <=> Contract!Arrived(m) \/ m = slot
      BY <2>1, ArrivedAppend DEF TypeOK
    <3>3. ASSUME NEW m \in Messages, outcome[m] = "none"
          PROVE  Contract!Arrived(m)' <=>
                   \E u \in Threads : Posted(u) /\ msg[u] = m /\ seq[u] <= consumed_seq'
      <4>1. Contract!Arrived(m) <=>
              \E u \in Threads : Posted(u) /\ msg[u] = m /\ seq[u] <= consumed_seq
        BY <3>3 DEF Told
      <4>2. \A u \in Threads : msg[u] = slot => u = p
        BY <2>1, <2>2, ChannelAssumption DEF Sending
      <4> QED BY <2>2, <3>1, <3>2, <4>1, <4>2
    <3> QED BY <1>1, <3>3 DEF Told
  <2>8. Contract!Handover(slot)
    BY <2>0, <2>1, <2>3 DEF Contract!Handover
  <2> QED BY <1>3, <2>1, <2>4, <2>5, <2>6, <2>7, <2>8 DEF Allowed, Contract!Next
<1>5. CASE ~Unbuffered
  <2> USE <1>5 DEF TakeRing, slotVars
  <2>1. capacity > 0 /\ count # 0
    BY DEF TypeOK
  <2>2. /\ RingSeq # <<>> /\ buffer[head] = Head(RingSeq)
        /\ RingSeq' = Tail(RingSeq)
        /\ head' \in Nat /\ head' < capacity' /\ tail' = (head' + count') % capacity'
        /\ buffer' \in [0 .. capacity - 1 -> Messages \cup {NoMsg}]
    BY <2>1, RingTake
  <2>3. RingSeq \in Seq(Messages) /\ Len(RingSeq) = count
    BY RingSeqType
  <2>4. buffer[head] \in Messages /\ outcome[buffer[head]] = "ok"
    <3>1. Head(RingSeq) = RingSeq[1] /\ 1 \in 1 .. count
      BY <2>1, <2>2, <2>3 DEF TypeOK
    <3> QED BY <2>2, <3>1 DEF Ring
  <2>5. TypeOK'
    <3>1. delivered' \in Seq(Messages)
      BY <2>4, ArrivedAppend DEF TypeOK
    <3>2. count' \in 0 .. capacity'
      BY <2>1 DEF TypeOK
    <3>3. pc' \in [Threads -> Sent \cup {"idle", "recvWait", "dead"}]
      BY DEF TypeOK
    <3> QED BY <2>2, <3>1, <3>2, <3>3 DEF TypeOK
  <2>6. Ring'
    <3>1. \A i \in 1 .. count - 1 : RingSeq'[i] = RingSeq[i + 1] /\ i + 1 \in 1 .. count
      BY <2>2, <2>3 DEF TypeOK
    <3>2. \A i \in 1 .. count - 1 : RingSeq'[i] \in Messages /\ outcome[RingSeq'[i]] = "ok"
      BY <3>1 DEF Ring
    <3> QED BY <2>2, <3>2 DEF Ring
  <2>7. Numbers'
    BY <1>1 DEF Numbers
  <2>8. Told'
    <3>1. ASSUME NEW m \in Messages, outcome[m] = "none"
          PROVE  Contract!Arrived(m)' <=> Contract!Arrived(m)
      BY <2>4, <3>1, ArrivedAppend DEF TypeOK
    <3> QED BY <1>1, <3>1 DEF Told
  <2>9. Contract!Deliver
    BY <2>2 DEF Contract!Deliver
  <2> QED BY <1>3, <2>5, <2>6, <2>7, <2>8, <2>9 DEF Allowed, Contract!Next
<1> QED BY <1>4, <1>5

LEMMA BeginsStep ==
  ASSUME IInv, NEW t \in Threads, NEW m \in Messages, SendBegins(t, m)
  PROVE  IInv' /\ Allowed
<1> USE DEF IInv, SendBegins, Go, slotVars, ringVars
<1>0. RingSeq' = RingSeq
  BY RingKept
<1>1. outcome[m] = "none" /\ ~Contract!Arrived(m) /\ ~Posted(t) /\ m # NoMsg
  BY ChannelAssumption DEF Told, Posted
<1>2. TypeOK'
  BY DEF TypeOK, Sent
<1>3. \A u \in Threads : Posted(u)' <=> Posted(u)
  BY DEF TypeOK, Posted
<1>4. CASE closed
  <2>1. Ring'
    BY <1>1, <1>4, RingTold
  <2>2. Sending'
    BY <1>4 DEF Sending, TypeOK
  <2>3. Numbers'
    BY <1>3, <1>4 DEF Numbers
  <2>4. Told'
    BY <1>3, <1>4, ArrivedKept DEF Told, TypeOK
  <2>5. Contract!Fail(m)
    BY <1>0, <1>1, <1>4 DEF Contract!Fail
  <2> QED BY <1>2, <2>1, <2>2, <2>3, <2>4, <2>5 DEF Allowed, Contract!Next
<1>5. CASE ~closed
  <2>0. /\ pc[t] = "idle" /\ pc' = [pc EXCEPT ![t] = "import"]
        /\ msg' = [msg EXCEPT ![t] = m] /\ outcome' = outcome
    BY <1>5
  <2>1. Ring'
    BY <1>0, <2>0 DEF Ring
  <2>2. Sending'
    BY <1>1, <2>0 DEF Sending, TypeOK, Sent
  <2>3. \A u \in Threads : u # t => msg'[u] = msg[u]
    BY <2>0 DEF TypeOK
  <2>4. Numbers'
    BY <1>1, <1>3, <2>3 DEF Numbers
  <2>5. Told'
    BY <1>1, <1>3, <2>0, <2>3, ArrivedKept DEF Told
  <2>6. Allowed
    BY <1>0, <2>0 DEF Allowed, Contract!vars
  <2> QED BY <1>2, <2>1, <2>2, <2>4, <2>5, <2>6
<1> QED BY <1>4, <1>5

\* "Closing therefore cancels that pending send": the slot is emptied.
LEMMA CloseStep ==
  ASSUME IInv, NEW t \in Threads, Close(t)
  PROVE  IInv' /\ Allowed
<1> USE DEF IInv, Close, ringVars, sendVars
<1>0. RingSeq' = RingSeq
  BY RingKept
<1>1. TypeOK'
  BY DEF TypeOK
<1>2. Ring'
  BY <1>0 DEF Ring
<1>3. Sending'
  BY DEF Sending
<1>4. Numbers'
  BY DEF Numbers, Posted
<1>5. Told'
  BY ArrivedKept DEF Told, Posted
<1>6. Contract!Close
  BY <1>0 DEF Contract!Close
<1> QED BY <1>1, <1>2, <1>3, <1>4, <1>5, <1>6 DEF Allowed, Contract!Next

LEMMA StutterStep ==
  ASSUME IInv, \/ UNCHANGED vars \/ \E t \in Threads : Cancel(t)
  PROVE  IInv' /\ Allowed
<1> USE DEF IInv, vars, slotVars, ringVars, sendVars
<1>1. /\ UNCHANGED <<capacity, closed, slotVars, ringVars, pc, sendVars, delivered>>
      /\ cancelled' \subseteq Threads
  BY ChannelAssumption DEF Cancel, TypeOK
<1>2. RingSeq' = RingSeq
  BY <1>1, RingKept
<1>3. TypeOK'
  BY <1>1 DEF TypeOK
<1>4. Ring' /\ Sending'
  BY <1>1, <1>2 DEF Ring, Sending
<1>5. Numbers' /\ Told'
  BY <1>1, ArrivedKept DEF Numbers, Told, Posted
<1>6. Allowed
  BY <1>1, <1>2 DEF Allowed, Contract!vars
<1> QED BY <1>3, <1>4, <1>5, <1>6

LEMMA InvInit == Init => IInv /\ Contract!Init
<1> SUFFICES ASSUME Init PROVE IInv /\ Contract!Init
  OBVIOUS
<1>1. capacity \in Nat
  BY ChannelAssumption DEF Init
<1>2. RingSeq = <<>>
  BY DEF Init, RingSeq
<1>3. TypeOK
  <2>1. buffer \in [0 .. capacity - 1 -> Messages \cup {NoMsg}]
    BY DEF Init
  <2>2. 0 \in 0 .. capacity /\ <<>> \in Seq(Messages)
    BY <1>1
  <2> QED BY <1>1, <2>1, <2>2 DEF Init, TypeOK, Sent
<1>4. Ring
  <2>1. capacity > 0 => 0 % capacity = 0
    BY <1>1
  <2> QED BY <1>1, <2>1 DEF Init, Ring
<1>5. Sending /\ Numbers
  BY DEF Init, Sending, Sent, Numbers, Posted
<1>6. Told
  BY DEF Init, Told, Posted, Contract!Arrived
<1>7. Contract!Init
  BY <1>1, <1>2 DEF Init, Contract!Init
<1> QED BY <1>3, <1>4, <1>5, <1>6, <1>7 DEF IInv

LEMMA InvStep == IInv /\ [Next]_vars => IInv' /\ Allowed
<1> SUFFICES ASSUME IInv, [Next]_vars PROVE IInv' /\ Allowed
  OBVIOUS
<1>1. CASE UNCHANGED vars \/ \E t \in Threads : Cancel(t)
  BY <1>1, StutterStep
<1>2. ASSUME NEW t \in Threads, NEW m \in Messages, SendBegins(t, m)
      PROVE  IInv' /\ Allowed
  BY <1>2, BeginsStep
<1>3. ASSUME NEW t \in Threads, Close(t) PROVE IInv' /\ Allowed
  BY <1>3, CloseStep
<1>4. ASSUME NEW t \in Threads,
             \/ ReceiveBegins(t) \/ Unwinds(t) \/ ImportDies(t) \/ SendEnters(t)
             \/ InWait(t)
      PROVE  IInv' /\ Allowed
  <2>1. \/ Refused(t) \/ Withdrawn(t) \/ Taken(t) \/ Moves(t) \/ AckSucceeds(t)
        \/ \E from \in Before : SendPosts(t, from) \/ SendPuts(t, from)
    BY <1>4, NextSplit DEF IInv
  <2> QED BY <2>1, RefusedStep, WithdrawnStep, TakenStep, MovesStep, AckStep,
             PostsStep, PutsStep
<1> QED BY <1>1, <1>2, <1>3, <1>4 DEF Next

(***************************************************************************)
(* Channels: the theorems                                                  *)
(***************************************************************************)

\* The ring's indices stay in its bounds and every counter a natural number,
\* for any number of threads that send, receive, close and are cancelled.
THEOREM TypeCorrect == Spec => []TypeOK
<1>1. IInv => TypeOK
  BY DEF IInv
<1> QED BY <1>1, InvInit, InvStep, PTL DEF Spec

\* Slots, numbers, ring, waits and cancellation implement the contract: values
\* arrive once and in order, a send that returns has handed its value over and
\* one that throws never has (ImplementsContract).
THEOREM ContractRefinement == Spec => ImplementsContract
<1>1. Spec => []IInv
  BY InvInit, InvStep, PTL DEF Spec
<1>2. IInv /\ [Next]_vars => [Contract!Next]_(Contract!vars)
  BY InvStep DEF Allowed
<1> QED BY <1>1, <1>2, InvInit, PTL DEF Spec, ImplementsContract, Contract!Spec


(***************************************************************************)
(* Induction over the numbers                                              *)
(***************************************************************************)

\* Every set of numbers has a least one, from which proofs by induction follow.
LEMMA Least ==
  ASSUME NEW T \in SUBSET Nat, T # {}
  PROVE  \E x \in T : \A y \in T : x <= y
<1> DEFINE R == OpToRel(<, Nat)
<1>1. IsWellFoundedOn(R, Nat)
  BY NatLessThanWellFounded
<1>2. \A x, y \in Nat : <<y, x>> \in R <=> y < x
  BY DEF OpToRel
<1> HIDE DEF R
<1>3. PICK x \in T : \A y \in T : ~ (<<y, x>> \in R)
  BY <1>1, WFMin
<1>4. \A y \in T : y \in Nat /\ x \in Nat
  OBVIOUS
<1>5. \A y \in T : ~ (y < x)
  BY <1>2, <1>3, <1>4
<1> QED BY <1>4, <1>5

\* What holds at 0 and is handed on from each number below n to the next holds at n.
LEMMA Reaches ==
  ASSUME NEW n \in Nat, NEW G, 0 \in G, \A k \in 1 .. n : k - 1 \in G => k \in G
  PROVE  \A k \in 0 .. n : k \in G
<1> SUFFICES ASSUME NEW j \in 0 .. n, j \notin G
             PROVE  FALSE
  OBVIOUS
<1> DEFINE T == {k \in 0 .. n : k \notin G}
<1>1. PICK x \in T : \A y \in T : x <= y
  <2>1. T \in SUBSET Nat /\ T # {}
    OBVIOUS
  <2> HIDE DEF T
  <2> QED BY <2>1, Least
<1>2. x \in 1 .. n
  OBVIOUS
<1>3. x - 1 \in 0 .. n /\ ~ (x <= x - 1)
  BY <1>2
<1>4. x - 1 \notin T
  BY <1>1, <1>3
<1> QED BY <1>2, <1>3, <1>4

(***************************************************************************)
(* The array's capacity                                                    *)
(***************************************************************************)

\* The doubling loop ends, with at least what is needed.
LEMMA Doubling ==
  ASSUME NEW need \in Nat
  PROVE  \A c \in Nat \ {0} : /\ DoubledTo(need)[c] \in Nat
                              /\ DoubledTo(need)[c] >= need /\ DoubledTo(need)[c] >= c
<1> DEFINE Loop(f, c) == IF c < need THEN f[2 * c] ELSE c
           G == {k \in Nat : \E f \in [Nat -> Nat] :
                   \A c \in Nat \ {0} : c + k >= need => f[c] = Loop(f, c)}
<1>1. 0 \in G
  <2> DEFINE f == [c \in Nat |-> c]
  <2>1. f \in [Nat -> Nat] /\ \A c \in Nat \ {0} : c + 0 >= need => f[c] = Loop(f, c)
    OBVIOUS
  <2> HIDE DEF f
  <2> QED BY <2>1
<1>2. ASSUME NEW k \in 1 .. need, k - 1 \in G
      PROVE  k \in G
  <2>1. PICK f \in [Nat -> Nat] :
          \A c \in Nat \ {0} : c + (k - 1) >= need => f[c] = Loop(f, c)
    BY <1>2
  <2>2. need - k \in Nat /\ k \in Nat
    OBVIOUS
  <2> DEFINE g == [f EXCEPT ![need - k] = f[2 * (need - k)]]
  <2>3. g \in [Nat -> Nat]
    BY <2>2
  <2>4. ASSUME NEW c \in Nat \ {0}, c + k >= need
        PROVE  g[c] = Loop(g, c)
    <3>1. CASE c = need - k
      <4>1. 2 * c \in Nat /\ 2 * c # c /\ c < need
        BY <3>1
      <4> QED BY <4>1, <3>1, <2>2
    <3>2. CASE c # need - k
      <4>1. c + (k - 1) >= need
        BY <3>2, <2>4
      <4>2. f[c] = Loop(f, c)
        BY <4>1, <2>1
      <4>3. 2 * c \in Nat /\ 2 * c # need - k
        BY <2>4, <2>2, <3>2
      <4> QED BY <4>2, <4>3, <3>2, <2>2
    <3> QED BY <3>1, <3>2
  <2> HIDE DEF g
  <2> QED BY <2>2, <2>3, <2>4
<1>3. need \in G
  <2> HIDE DEF G
  <2> QED BY <1>1, <1>2, Reaches
<1>4. PICK f \in [Nat -> Nat] : \A c \in Nat \ {0} : f[c] = Loop(f, c)
  BY <1>3
<1>5. \E g : g = [c \in Nat |-> Loop(g, c)]
  <2> DEFINE g == [f EXCEPT ![0] = 0]
  <2>1. ASSUME NEW c \in Nat
        PROVE  g[c] = Loop(g, c)
    <3>1. CASE c = 0
      BY <3>1
    <3>2. CASE c # 0
      BY <3>2, <1>4
    <3> QED BY <3>1, <3>2
  <2>2. g = [c \in Nat |-> g[c]]
    OBVIOUS
  <2> HIDE DEF g
  <2>3. g = [c \in Nat |-> Loop(g, c)]
    BY <2>1, <2>2
  <2> QED BY <2>3
<1> DEFINE D == DoubledTo(need)
<1>6. D = [c \in Nat |-> Loop(D, c)]
  BY <1>5 DEF DoubledTo
<1> HIDE DEF D
<1> DEFINE H == {k \in Nat : \A c \in Nat \ {0} : c + k >= need =>
                   D[c] \in Nat /\ D[c] >= need /\ D[c] >= c}
<1>7. 0 \in H
  BY <1>6
<1>8. ASSUME NEW k \in 1 .. need, k - 1 \in H
      PROVE  k \in H
  <2>1. ASSUME NEW c \in Nat \ {0}, c + k >= need
        PROVE  D[c] \in Nat /\ D[c] >= need /\ D[c] >= c
    <3>1. CASE c >= need
      BY <3>1, <1>6
    <3>2. CASE c < need
      <4>1. D[c] = D[2 * c] /\ 2 * c \in Nat \ {0} /\ 2 * c + (k - 1) >= need
        BY <3>2, <2>1, <1>6
      <4>2. D[2 * c] \in Nat /\ D[2 * c] >= need /\ D[2 * c] >= 2 * c
        BY <4>1, <1>8
      <4> QED BY <4>1, <4>2
    <3> QED BY <3>1, <3>2
  <2> QED BY <2>1
<1>9. need \in H
  <2> HIDE DEF H
  <2> QED BY <1>7, <1>8, Reaches
<1> QED BY <1>9 DEF D

LEMMA ReserveIs ==
  ASSUME NEW room, NEW items, NEW need, NEW grown,
         Cardinality(DOMAIN items) = room,
         grown = DoubledTo(need)[IF room = 0 THEN FirstCapacity ELSE room * 2]
  PROVE  shared_array_reserve(items, need) =
           IF need <= room THEN items
           ELSE [i \in 0 .. grown - 1 |-> IF i < room THEN items[i] ELSE Null]
  BY DEF shared_array_reserve

(***************************************************************************)
(* Shared arrays: the inductive invariant                                  *)
(***************************************************************************)

Contents == Int \cup {Undef}

\* What may wait to be pushed, or has been fetched.
Values == {Plain(0), Plain(Undef), Plain(Bad)} \cup {Link(n) : n \in Nodes}

\* The items are nodes that were made, and those beyond the end have been cut off.
ArrayOK ==
  /\ value \in Seq(Contents)
  /\ array_size \in Nat
  /\ \E room \in Nat :
       /\ array_size <= room
       /\ array_items \in [0 .. room - 1 -> Nodes \cup {Null}]
       /\ \A i \in array_size .. room - 1 : array_items[i] \in cut \cup {Null}
  /\ cut \subseteq Nodes

\* An operation's place and list fit what it is about to do with them.
ThreadOK(t) ==
  /\ todo[t] \in Seq(Values)
  /\ call[t] = "none" => todo[t] = <<>>
  /\ call[t] = "sizing" => index[t] \in Int
  /\ call[t] \in {"store", "delete"} => index[t] \in Nat
  /\ call[t] = "store" => todo[t] # <<>>
  /\ call[t] = "update" => index[t] \in Nodes
  /\ call[t] = "splice" =>
       /\ plan[t].size \in Nat /\ Len(todo[t]) <= plan[t].size
       /\ plan[t].from \in 0 .. plan[t].size
       /\ plan[t].length \in 0 .. plan[t].size - plan[t].from
       /\ plan[t].insert \in Seq(Values)

AllFetched == [i \in 1 .. array_size |-> Fetched(View[i])]

\* A splice that nothing came into has fetched what is there ...
Fetching(t) ==
  /\ plan[t].size = array_size
  /\ plan[t].want = Spliced(AllFetched, plan[t].from, plan[t].length, plan[t].insert)
  /\ \A i \in 1 .. Len(todo[t]) : todo[t][i] = Fetched(View[i])

\* ... and has put back the beginning of what is wanted, the rest being to come.
Refilling(t) ==
  /\ plan[t].want \in Seq(Values)
  /\ Len(plan[t].want) = array_size + Len(todo[t])
  /\ \A i \in 1 .. array_size :
       /\ View[i] \in Nodes
       /\ plan[t].want[i] \in {Link(View[i]), Plain(value[View[i]])}
  /\ \A i \in 1 .. Len(todo[t]) : todo[t][i] = plan[t].want[array_size + i]

SpliceOK(t) ==
  t \notin disturbed =>
    /\ call[t] = "splice" => Fetching(t)
    /\ call[t] = "refill" => Refilling(t)

Domains ==
  /\ DOMAIN call = Routines /\ DOMAIN index = Routines
  /\ DOMAIN todo = Routines /\ DOMAIN plan = Routines

SharedIInv ==
  ArrayOK /\ Domains /\ \A t \in Routines : ThreadOK(t) /\ SpliceOK(t)

(***************************************************************************)
(* The ways an array changes                                               *)
(***************************************************************************)

LEMMA IsList ==
  ASSUME NEW S, NEW s \in Seq(S)
  PROVE  s = [i \in 1 .. Len(s) |-> s[i]]
<1>1. s \in [1 .. Len(s) -> S]
  BY LenProperties
<1> QED BY <1>1

LEMMA ViewIs ==
  ASSUME ArrayOK
  PROVE  /\ View \in Seq(Nodes \cup {Null}) /\ Len(View) = array_size
         /\ DOMAIN View = 1 .. array_size
         /\ \A i \in 1 .. array_size : View[i] = array_items[i - 1]
<1>1. PICK room \in Nat :
        array_size <= room /\ array_items \in [0 .. room - 1 -> Nodes \cup {Null}]
  BY DEF ArrayOK
<1>2. array_size \in Nat
  BY DEF ArrayOK
<1>3. \A i \in 1 .. array_size : array_items[i - 1] \in Nodes \cup {Null}
  BY <1>1, <1>2
<1> QED BY <1>2, <1>3 DEF View

LEMMA NextViewIs ==
  ASSUME ArrayOK'
  PROVE  /\ View' \in Seq(Nodes' \cup {Null}) /\ Len(View') = array_size'
         /\ DOMAIN View' = 1 .. array_size'
         /\ \A i \in 1 .. array_size' : View'[i] = array_items'[i - 1]
<1>1. PICK room \in Nat :
        array_size' <= room /\ array_items' \in [0 .. room - 1 -> Nodes' \cup {Null}]
  BY DEF ArrayOK
<1>2. array_size' \in Nat
  BY DEF ArrayOK
<1>3. \A i \in 1 .. array_size' : array_items'[i - 1] \in Nodes' \cup {Null}
  BY <1>1, <1>2
<1> QED BY <1>2, <1>3 DEF View

\* A node for a value: one that is there, or the next.
LEMMA NodeMade ==
  ASSUME ArrayOK, NEW x \in Values, x # Plain(Bad), value' = ValuesWith(x)
  PROVE  /\ value' \in Seq(Contents) /\ Nodes \subseteq Nodes'
         /\ \A n \in Nodes : value'[n] = value[n]
         /\ NodeFor(x) \in Nodes' /\ NodeFor(x) \in Nat
         /\ x \in {Link(NodeFor(x)), Plain(value'[NodeFor(x)])}
         /\ Promise!IsLinked(NodeFor(x)) \/ Promise!MadeFor(NodeFor(x))
<1>1. value \in Seq(Contents) /\ Len(value) \in Nat /\ Nodes = 1 .. Len(value)
  BY DEF ArrayOK, Nodes
<1>2. CASE \E n \in Nodes : x = Link(n)
  <2>1. PICK n \in Nodes : x = Link(n)
    BY <1>2
  <2>2. NodeFor(x) = n /\ value' = value
    BY <2>1 DEF Link, NodeFor, ValuesWith
  <2> QED BY <2>1, <2>2, <1>1 DEF Nodes, Promise!IsLinked, Promise!Made
<1>3. CASE \E v \in {0, Undef} : x = Plain(v)
  <2>1. PICK v \in {0, Undef} : x = Plain(v)
    BY <1>3
  <2>2. NodeFor(x) = Len(value) + 1 /\ value' = Append(value, v)
    BY <2>1 DEF Plain, NodeFor, ValuesWith, shared_node_new
  <2>3. v \in Contents
    BY DEF Contents
  <2>4. Nodes' = 1 .. Len(value) + 1
    BY <2>2, <1>1 DEF Nodes
  <2>5. Promise!MadeFor(NodeFor(x))
    BY <2>2 DEF Promise!MadeFor
  <2> QED BY <2>1, <2>2, <2>3, <2>4, <2>5, <1>1
<1> QED BY <1>2, <1>3 DEF Values

\* What a reserve finds, and what it leaves.
RoomFor(need, room, more) ==
  /\ array_size <= room
  /\ array_items \in [0 .. room - 1 -> Nodes \cup {Null}]
  /\ \A i \in array_size .. room - 1 : array_items[i] \in cut \cup {Null}
  /\ more >= room /\ more >= need
  /\ shared_array_reserve(array_items, need) \in [0 .. more - 1 -> Nodes \cup {Null}]
  /\ \A i \in 0 .. more - 1 : shared_array_reserve(array_items, need)[i] =
       IF i < room THEN array_items[i] ELSE Null

LEMMA HasRoom ==
  ASSUME ArrayOK, NEW need \in Nat
  PROVE  \E room, more \in Nat : RoomFor(need, room, more)
<1>1. PICK room \in Nat :
        /\ array_size <= room
        /\ array_items \in [0 .. room - 1 -> Nodes \cup {Null}]
        /\ \A i \in array_size .. room - 1 : array_items[i] \in cut \cup {Null}
  BY DEF ArrayOK
<1>2. Cardinality(DOMAIN array_items) = room
  BY <1>1, FS_Interval
<1> DEFINE from == IF room = 0 THEN FirstCapacity ELSE room * 2
           grown == DoubledTo(need)[from]
           new == shared_array_reserve(array_items, need)
<1>3. new = IF need <= room THEN array_items
            ELSE [i \in 0 .. grown - 1 |-> IF i < room THEN array_items[i] ELSE Null]
  <2> HIDE DEF grown, new
  <2>1. grown = DoubledTo(need)[IF room = 0 THEN FirstCapacity ELSE room * 2]
    BY DEF grown
  <2> QED BY <2>1, <1>2, ReserveIs DEF new
<1>4. grown \in Nat /\ grown >= need
  <2>1. from \in Nat \ {0}
    BY SharedAssumption
  <2> HIDE DEF from
  <2> QED BY <2>1, Doubling
<1> HIDE DEF new, grown
<1>5. CASE need <= room
  <2>1. new = array_items
    BY <1>3, <1>5
  <2>2. \A i \in 0 .. room - 1 : i < room
    BY <1>1
  <2>3. RoomFor(need, room, room)
    BY <1>1, <2>1, <2>2, <1>5 DEF new, RoomFor
  <2> QED BY <2>3
<1>6. CASE ~ (need <= room)
  <2>1. new = [i \in 0 .. grown - 1 |-> IF i < room THEN array_items[i] ELSE Null]
    BY <1>3, <1>6
  <2>2. new \in [0 .. grown - 1 -> Nodes \cup {Null}]
    <3>1. ASSUME NEW i \in 0 .. grown - 1
          PROVE  (IF i < room THEN array_items[i] ELSE Null) \in Nodes \cup {Null}
      <4>1. i < room => i \in 0 .. room - 1
        BY <1>4
      <4> QED BY <1>1, <4>1
    <3> QED BY <3>1, <2>1
  <2>3. grown >= room
    BY <1>4, <1>6
  <2> QED BY <1>1, <2>1, <2>2, <2>3, <1>4 DEF new, RoomFor
<1> QED BY <1>5, <1>6

\* push
LEMMA PushArray ==
  ASSUME ArrayOK, NEW n \in Nodes', value' \in Seq(Contents), Nodes \subseteq Nodes',
         array_items' = Pushed(array_items, n), array_size' = array_size + 1, cut' = cut
  PROVE  ArrayOK' /\ View' = Append(View, n)
<1>1. array_size \in Nat /\ array_size + 1 \in Nat /\ cut \subseteq Nodes
  BY DEF ArrayOK
<1>2. PICK room, more \in Nat : RoomFor(array_size + 1, room, more)
  BY <1>1, HasRoom
<1>3. /\ array_size <= room /\ more >= room /\ more >= array_size + 1
      /\ \A i \in 0 .. room - 1 : array_items[i] \in Nodes \cup {Null}
      /\ \A i \in array_size .. room - 1 : array_items[i] \in cut \cup {Null}
  BY <1>2 DEF RoomFor
<1>4. /\ array_items' \in [0 .. more - 1 -> Nodes' \cup {Null}]
      /\ \A i \in 0 .. more - 1 : array_items'[i] =
           IF i = array_size THEN n ELSE IF i < room THEN array_items[i] ELSE Null
  BY <1>1, <1>2, <1>3 DEF Pushed, RoomFor
<1>5. \A i \in array_size' .. more - 1 : array_items'[i] \in cut' \cup {Null}
  BY <1>1, <1>3, <1>4
<1>6. ArrayOK'
  BY <1>1, <1>3, <1>4, <1>5 DEF ArrayOK
<1>7. View' = Append(View, n)
  <2>1. View' = [i \in 1 .. array_size + 1 |-> array_items'[i - 1]]
    BY DEF View
  <2>2. \A i \in 1 .. array_size + 1 : array_items'[i - 1] =
          IF i = array_size + 1 THEN n ELSE array_items[i - 1]
    BY <1>1, <1>3, <1>4
  <2>3. \A i \in 1 .. array_size + 1 : Append(View, n)[i] =
          IF i = array_size + 1 THEN n ELSE array_items[i - 1]
    BY ViewIs, <1>1
  <2>4. Append(View, n) = [i \in 1 .. array_size + 1 |-> Append(View, n)[i]]
    <3>1. View \in Seq(Nodes \cup {Null} \cup {n}) /\ Len(View) = array_size
      BY ViewIs, SeqMonotonic
    <3> HIDE DEF View
    <3>2. Append(View, n) \in Seq(Nodes \cup {Null} \cup {n}) /\ Len(Append(View, n)) = array_size + 1
      BY <3>1, AppendProperties
    <3> QED BY <3>2, IsList
  <2> QED BY <2>1, <2>2, <2>3, <2>4
<1> QED BY <1>6, <1>7

\* unshift
LEMMA UnshiftArray ==
  ASSUME ArrayOK, NEW n \in Nodes', value' \in Seq(Contents), Nodes \subseteq Nodes',
         array_items' = Unshifted(array_items, n), array_size' = array_size + 1, cut' = cut
  PROVE  ArrayOK' /\ View' = <<n>> \o View
<1>1. array_size \in Nat /\ array_size + 1 \in Nat /\ cut \subseteq Nodes
  BY DEF ArrayOK
<1>2. PICK room, more \in Nat : RoomFor(array_size + 1, room, more)
  BY <1>1, HasRoom
<1>3. /\ array_size <= room /\ more >= room /\ more >= array_size + 1
      /\ \A i \in 0 .. room - 1 : array_items[i] \in Nodes \cup {Null}
      /\ \A i \in array_size .. room - 1 : array_items[i] \in cut \cup {Null}
  BY <1>2 DEF RoomFor
<1> DEFINE grown == shared_array_reserve(array_items, array_size + 1)
<1>4. array_items' = [i \in 0 .. more - 1 |-> CASE i = 0 -> n
                        [] i \in 1 .. array_size -> grown[i - 1]
                        [] OTHER -> grown[i]]
  BY <1>2 DEF Unshifted, RoomFor
<1> HIDE DEF grown
<1>5. \A i \in 0 .. more - 1 : array_items'[i] =
        IF i = 0 THEN n ELSE IF i <= array_size THEN array_items[i - 1]
        ELSE IF i < room THEN array_items[i] ELSE Null
  <2> SUFFICES ASSUME NEW i \in 0 .. more - 1
               PROVE  array_items'[i] = IF i = 0 THEN n
                        ELSE IF i <= array_size THEN array_items[i - 1]
                        ELSE IF i < room THEN array_items[i] ELSE Null
    OBVIOUS
  <2>1. CASE i = 0
    BY <2>1, <1>4
  <2>2. CASE i \in 1 .. array_size
    <3>1. i - 1 \in 0 .. more - 1 /\ i - 1 < room /\ i # 0 /\ i <= array_size
      BY <2>2, <1>1, <1>3
    <3>2. array_items'[i] = grown[i - 1]
      BY <2>2, <3>1, <1>4
    <3> QED BY <3>1, <3>2, <1>2 DEF grown, RoomFor
  <2>3. CASE i # 0 /\ i \notin 1 .. array_size
    <3>1. ~ (i <= array_size)
      BY <2>3, <1>1
    <3>2. array_items'[i] = grown[i]
      BY <2>3, <1>4
    <3> QED BY <2>3, <3>1, <3>2, <1>2 DEF grown, RoomFor
  <2> QED BY <2>1, <2>2, <2>3
<1>6. array_items' \in [0 .. more - 1 -> Nodes' \cup {Null}]
  <2>1. \A i \in 0 .. more - 1 : array_items'[i] \in Nodes' \cup {Null}
    BY <1>1, <1>3, <1>5
  <2> QED BY <2>1, <1>4
<1>7. \A i \in array_size' .. more - 1 : array_items'[i] \in cut' \cup {Null}
  BY <1>1, <1>3, <1>5
<1>8. ArrayOK'
  BY <1>1, <1>3, <1>6, <1>7 DEF ArrayOK
<1>9. View' = <<n>> \o View
  <2>1. View' = [i \in 1 .. array_size + 1 |-> array_items'[i - 1]]
    BY DEF View
  <2>2. \A i \in 1 .. array_size + 1 : array_items'[i - 1] =
          IF i = 1 THEN n ELSE array_items[i - 2]
    BY <1>1, <1>3, <1>5
  <2>3. \A i \in 1 .. array_size + 1 : (<<n>> \o View)[i] =
          IF i = 1 THEN n ELSE array_items[i - 2]
    BY ViewIs, <1>1
  <2>4. Len(<<n>> \o View) = array_size + 1 /\ <<n>> \o View = [i \in 1 .. array_size + 1 |-> (<<n>> \o View)[i]]
    BY ViewIs, <1>1
  <2> QED BY <2>1, <2>2, <2>3, <2>4
<1> QED BY <1>8, <1>9

\* A store: at a place of the array, or beyond its end.
LEMMA StoreArray ==
  ASSUME ArrayOK, NEW i \in Nat, NEW n \in Nodes', value' \in Seq(Contents),
         Nodes \subseteq Nodes', cut' = cut,
         array_items' = [shared_array_reserve(array_items, i + 1) EXCEPT ![i] = n],
         array_size' = IF i < array_size THEN array_size ELSE i + 1
  PROVE  /\ ArrayOK'
         /\ i < array_size => View' = [View EXCEPT ![i + 1] = n]
         /\ ~ (i < array_size) =>
              /\ Len(View') = i + 1 /\ View'[i + 1] = n
              /\ SubSeq(View', 1, array_size) = View
              /\ \A j \in array_size + 1 .. i : View'[j] \in cut \cup {Null}
<1>1. array_size \in Nat /\ i + 1 \in Nat /\ cut \subseteq Nodes /\ array_size' \in Nat
  BY DEF ArrayOK
<1>2. PICK room, more \in Nat : RoomFor(i + 1, room, more)
  BY <1>1, HasRoom
<1>3. /\ array_size <= room /\ more >= room /\ more >= i + 1
      /\ \A j \in 0 .. room - 1 : array_items[j] \in Nodes \cup {Null}
      /\ \A j \in array_size .. room - 1 : array_items[j] \in cut \cup {Null}
  BY <1>2 DEF RoomFor
<1>4. /\ array_items' \in [0 .. more - 1 -> Nodes' \cup {Null}]
      /\ \A j \in 0 .. more - 1 : array_items'[j] =
           IF j = i THEN n ELSE IF j < room THEN array_items[j] ELSE Null
  BY <1>1, <1>2, <1>3 DEF RoomFor
<1>5. \A j \in array_size' .. more - 1 : array_items'[j] \in cut' \cup {Null}
  BY <1>1, <1>3, <1>4
<1>6. ArrayOK'
  BY <1>1, <1>3, <1>4, <1>5 DEF ArrayOK
<1>7. View' = [j \in 1 .. array_size' |-> array_items'[j - 1]]
  BY DEF View
<1>8. CASE i < array_size
  <2>1. \A j \in 1 .. array_size : array_items'[j - 1] =
          IF j = i + 1 THEN n ELSE View[j]
    <3>1. ASSUME NEW j \in 1 .. array_size
          PROVE  array_items'[j - 1] = IF j = i + 1 THEN n ELSE View[j]
      <4>1. j - 1 \in 0 .. more - 1 /\ j - 1 < room /\ (j - 1 = i <=> j = i + 1)
        BY <1>1, <1>3
      <4> QED BY <4>1, <1>4, ViewIs
    <3> QED BY <3>1
  <2>2. View = [j \in 1 .. array_size |-> View[j]]
    BY DEF View
  <2> QED BY <1>6, <1>7, <1>8, <1>1, <2>1, <2>2
<1>9. CASE ~ (i < array_size)
  <2>1. View' \in Seq(Nodes' \cup {Null}) /\ Len(View') = i + 1
    BY <1>6, <1>9, NextViewIs
  <2>2. \A j \in 1 .. array_size : View'[j] = View[j]
    <3>1. ASSUME NEW j \in 1 .. array_size
          PROVE  View'[j] = View[j]
      <4>1. j - 1 \in 0 .. more - 1 /\ j - 1 < room /\ j - 1 # i /\ j \in 1 .. array_size'
        BY <1>1, <1>3, <1>9
      <4>2. View'[j] = array_items'[j - 1]
        BY <4>1, <1>7
      <4> QED BY <4>1, <4>2, <1>4, ViewIs
    <3> QED BY <3>1
  <2>3. View'[i + 1] = n
    BY <1>1, <1>3, <1>4, <1>7, <1>9
  <2>4. \A j \in array_size + 1 .. i : View'[j] \in cut \cup {Null}
    <3>1. ASSUME NEW j \in array_size + 1 .. i
          PROVE  View'[j] \in cut \cup {Null}
      <4>1. /\ j - 1 \in 0 .. more - 1 /\ j - 1 # i /\ j \in 1 .. array_size'
            /\ j - 1 < room => j - 1 \in array_size .. room - 1
        BY <1>1, <1>3, <1>9
      <4>2. View'[j] = array_items'[j - 1]
        BY <4>1, <1>7
      <4> QED BY <4>1, <4>2, <1>4, <1>3
    <3> QED BY <3>1
  <2>5. SubSeq(View', 1, array_size) = View
    <3>1. View \in Seq(Nodes \cup {Null}) /\ Len(View) = array_size
      BY ViewIs
    <3>2. array_size <= Len(View')
      BY <2>1, <1>1, <1>9
    <3> DEFINE w == View'
    <3> HIDE DEF View, w
    <3>3. SubSeq(w, 1, array_size) = [j \in 1 .. array_size |-> w[j]]
      BY <2>1, <3>2, <1>1 DEF w
    <3>4. View = [j \in 1 .. array_size |-> View[j]]
      BY <3>1, IsList
    <3> QED BY <2>2, <3>3, <3>4 DEF w
  <2> QED BY <1>6, <1>9, <2>1, <2>3, <2>4, <2>5
<1> QED BY <1>8, <1>9

\* delete
LEMMA DeleteArray ==
  ASSUME ArrayOK, NEW i \in Nat, i < array_size,
         array_items' = [array_items EXCEPT ![i] = Null],
         array_size' = array_size, cut' = cut, value' = value
  PROVE  ArrayOK' /\ View' = [View EXCEPT ![i + 1] = Null]
<1>1. array_size \in Nat /\ cut \subseteq Nodes /\ Nodes' = Nodes
  BY DEF ArrayOK, Nodes
<1>2. PICK room \in Nat :
        /\ array_size <= room
        /\ array_items \in [0 .. room - 1 -> Nodes \cup {Null}]
        /\ \A j \in array_size .. room - 1 : array_items[j] \in cut \cup {Null}
  BY DEF ArrayOK
<1>3. /\ array_items' \in [0 .. room - 1 -> Nodes' \cup {Null}]
      /\ \A j \in array_size' .. room - 1 : array_items'[j] \in cut' \cup {Null}
  BY <1>1, <1>2
<1>4. ArrayOK'
  BY <1>1, <1>2, <1>3 DEF ArrayOK
<1>5. \A j \in 1 .. array_size : array_items'[j - 1] = IF j = i + 1 THEN Null ELSE View[j]
  BY <1>1, <1>2, ViewIs
<1>6. View' = [j \in 1 .. array_size |-> array_items'[j - 1]]
  BY DEF View
<1>7. View = [j \in 1 .. array_size |-> View[j]]
  BY DEF View
<1> QED BY <1>1, <1>4, <1>5, <1>6, <1>7

\* pop
LEMMA PopArray ==
  ASSUME ArrayOK, array_size # 0,
         array_items' = [array_items EXCEPT ![array_size - 1] = Null],
         array_size' = array_size - 1, cut' = cut, value' = value
  PROVE  ArrayOK' /\ View' = SubSeq(View, 1, Len(View) - 1)
<1>1. array_size \in Nat /\ array_size - 1 \in Nat /\ cut \subseteq Nodes /\ Nodes' = Nodes
  BY DEF ArrayOK, Nodes
<1>2. PICK room \in Nat :
        /\ array_size <= room
        /\ array_items \in [0 .. room - 1 -> Nodes \cup {Null}]
        /\ \A j \in array_size .. room - 1 : array_items[j] \in cut \cup {Null}
  BY DEF ArrayOK
<1>3. /\ array_items' \in [0 .. room - 1 -> Nodes' \cup {Null}]
      /\ \A j \in array_size' .. room - 1 : array_items'[j] \in cut' \cup {Null}
  BY <1>1, <1>2
<1>4. ArrayOK'
  BY <1>1, <1>2, <1>3 DEF ArrayOK
<1>5. \A j \in 1 .. array_size - 1 : array_items'[j - 1] = View[j]
  BY <1>1, <1>2, ViewIs
<1>6. View' = [j \in 1 .. array_size - 1 |-> array_items'[j - 1]]
  BY DEF View
<1>7. SubSeq(View, 1, Len(View) - 1) = [j \in 1 .. array_size - 1 |-> View[j]]
  BY ViewIs, <1>1
<1> QED BY <1>4, <1>5, <1>6, <1>7

\* shift
LEMMA ShiftArray ==
  ASSUME ArrayOK, array_size # 0,
         array_items' = [i \in DOMAIN array_items |->
                           CASE i < array_size - 1 -> array_items[i + 1]
                             [] i = array_size - 1 -> Null
                             [] OTHER -> array_items[i]],
         array_size' = array_size - 1, cut' = cut, value' = value
  PROVE  ArrayOK' /\ View' = Tail(View)
<1>1. array_size \in Nat /\ array_size - 1 \in Nat /\ cut \subseteq Nodes /\ Nodes' = Nodes
  BY DEF ArrayOK, Nodes
<1>2. PICK room \in Nat :
        /\ array_size <= room
        /\ array_items \in [0 .. room - 1 -> Nodes \cup {Null}]
        /\ \A j \in array_size .. room - 1 : array_items[j] \in cut \cup {Null}
  BY DEF ArrayOK
<1>3. \A j \in 0 .. room - 1 : array_items'[j] =
        IF j < array_size - 1 THEN array_items[j + 1]
        ELSE IF j = array_size - 1 THEN Null ELSE array_items[j]
  BY <1>1, <1>2
<1>4. \A j \in 0 .. room - 1 : array_items'[j] \in Nodes' \cup {Null}
  <2>1. ASSUME NEW j \in 0 .. room - 1
        PROVE  array_items'[j] \in Nodes' \cup {Null}
    <3>1. j < array_size - 1 => j + 1 \in 0 .. room - 1
      BY <1>1, <1>2
    <3> QED BY <3>1, <1>1, <1>2, <1>3
  <2> QED BY <2>1
<1>5. array_items' \in [0 .. room - 1 -> Nodes' \cup {Null}]
  BY <1>2, <1>4
<1>6. \A j \in array_size' .. room - 1 : array_items'[j] \in cut' \cup {Null}
  BY <1>1, <1>2, <1>3
<1>7. ArrayOK'
  BY <1>1, <1>2, <1>5, <1>6 DEF ArrayOK
<1>8. \A j \in 1 .. array_size - 1 : array_items'[j - 1] = View[j + 1]
  <2>1. ASSUME NEW j \in 1 .. array_size - 1
        PROVE  array_items'[j - 1] = View[j + 1]
    <3>1. j - 1 \in 0 .. room - 1 /\ j - 1 < array_size - 1 /\ j - 1 + 1 = j
          /\ j + 1 \in 1 .. array_size /\ j + 1 - 1 = j
      BY <1>1, <1>2
    <3>2. array_items'[j - 1] = array_items[j]
      BY <3>1, <1>3
    <3> QED BY <3>1, <3>2, ViewIs
  <2> QED BY <2>1
<1>9. View' = [j \in 1 .. array_size - 1 |-> array_items'[j - 1]]
  BY DEF View
<1>10. Tail(View) = [j \in 1 .. array_size - 1 |-> View[j + 1]]
  <2>1. View \in Seq(Nodes \cup {Null}) /\ Len(View) = array_size
    BY ViewIs
  <2> HIDE DEF View
  <2>2. View # <<>> /\ Len(Tail(View)) = array_size - 1 /\ Tail(View) \in Seq(Nodes \cup {Null})
    BY <2>1, <1>1, HeadTailProperties
  <2>3. \A j \in 1 .. array_size - 1 : Tail(View)[j] = View[j + 1]
    BY <2>1, <2>2, HeadTailProperties
  <2> QED BY <2>2, <2>3, IsList
<1> QED BY <1>7, <1>8, <1>9, <1>10

\* $#a = n - 1
LEMMA ResizeArray ==
  ASSUME ArrayOK, NEW n \in Nat,
         array_items' = [i \in DOMAIN shared_array_reserve(array_items, n) |->
                           IF i \in array_size .. n - 1 THEN Null
                           ELSE shared_array_reserve(array_items, n)[i]],
         array_size' = n, value' = value,
         cut' = cut \cup ({array_items[i] : i \in n .. array_size - 1} \ {Null})
  PROVE  /\ ArrayOK'
         /\ Len(View') = n
         /\ \A i \in 1 .. n : View'[i] = IF i <= Len(View) THEN View[i] ELSE Null
         /\ cut' = cut \cup ({View[i] : i \in n + 1 .. Len(View)} \ {Null})
<1>1. array_size \in Nat /\ cut \subseteq Nodes /\ Nodes' = Nodes
  BY DEF ArrayOK, Nodes
<1>2. PICK room, more \in Nat : RoomFor(n, room, more)
  BY <1>1, HasRoom
<1>3. /\ array_size <= room /\ more >= room /\ more >= n
      /\ \A j \in 0 .. room - 1 : array_items[j] \in Nodes \cup {Null}
      /\ \A j \in array_size .. room - 1 : array_items[j] \in cut \cup {Null}
  BY <1>2 DEF RoomFor
<1>4. \A j \in 0 .. more - 1 : array_items'[j] =
        IF j \in array_size .. n - 1 THEN Null
        ELSE IF j < room THEN array_items[j] ELSE Null
  BY <1>2 DEF RoomFor
<1>5. array_items' \in [0 .. more - 1 -> Nodes' \cup {Null}]
  <2>1. \A j \in 0 .. more - 1 : array_items'[j] \in Nodes' \cup {Null}
    BY <1>1, <1>3, <1>4
  <2>2. array_items' = [j \in 0 .. more - 1 |-> array_items'[j]]
    BY <1>2 DEF RoomFor
  <2> QED BY <2>1, <2>2
<1>6. \A j \in n .. array_size - 1 : array_items[j] \in cut' \cup {Null}
  OBVIOUS
<1>7. \A j \in array_size' .. more - 1 : array_items'[j] \in cut' \cup {Null}
  <2>1. ASSUME NEW j \in n .. more - 1
        PROVE  array_items'[j] \in cut' \cup {Null}
    <3>1. j \in 0 .. more - 1 /\ (j < array_size => j \in n .. array_size - 1)
          /\ (~ (j < array_size) /\ j < room => j \in array_size .. room - 1)
      BY <1>1, <1>3
    <3>2. array_items'[j] = (IF j \in array_size .. n - 1 THEN Null
                            ELSE IF j < room THEN array_items[j] ELSE Null)
      BY <3>1, <1>4
    <3>3. array_items'[j] \in {array_items[j], Null}
          /\ (array_items'[j] = Null \/ j < room)
      BY <3>2
    <3>4. CASE j < array_size
      BY <3>1, <3>3, <3>4, <1>6
    <3>5. CASE ~ (j < array_size)
      BY <3>1, <3>3, <3>5, <1>3
    <3> QED BY <3>4, <3>5
  <2> QED BY <2>1
<1>8. cut' \subseteq Nodes'
  <2>1. \A j \in n .. array_size - 1 : array_items[j] \in Nodes \cup {Null}
    BY <1>1, <1>3
  <2> QED BY <2>1, <1>1
<1>9. ArrayOK'
  <2>1. value' \in Seq(Contents)
    BY DEF ArrayOK
  <2> QED BY <2>1, <1>3, <1>5, <1>7, <1>8 DEF ArrayOK
<1>10. Len(View') = n /\ DOMAIN View' = 1 .. n
       /\ \A i \in 1 .. n : View'[i] = array_items'[i - 1]
  BY <1>9, NextViewIs
<1>11. \A i \in 1 .. n : View'[i] = IF i <= Len(View) THEN View[i] ELSE Null
  <2>1. ASSUME NEW i \in 1 .. n
        PROVE  View'[i] = IF i <= Len(View) THEN View[i] ELSE Null
    <3>1. /\ i - 1 \in 0 .. more - 1
          /\ i <= array_size <=> ~ (i - 1 \in array_size .. n - 1)
          /\ i <= array_size => i - 1 < room /\ i \in 1 .. array_size
      BY <1>1, <1>3
    <3> QED BY <3>1, <1>4, <1>10, ViewIs
  <2> QED BY <2>1
<1>12. {array_items[i] : i \in n .. array_size - 1} = {View[i] : i \in n + 1 .. Len(View)}
  <2>1. ASSUME NEW i \in n .. array_size - 1
        PROVE  array_items[i] = View[i + 1] /\ i + 1 \in n + 1 .. Len(View)
    <3>1. i + 1 \in 1 .. array_size /\ i + 1 - 1 = i /\ i + 1 \in n + 1 .. array_size
      BY <1>1
    <3> QED BY <3>1, ViewIs
  <2>2. ASSUME NEW i \in n + 1 .. Len(View)
        PROVE  View[i] = array_items[i - 1] /\ i - 1 \in n .. array_size - 1
    <3>1. i \in 1 .. array_size /\ i - 1 \in n .. array_size - 1
      BY <1>1, ViewIs
    <3> QED BY <3>1, ViewIs
  <2> QED BY <2>1, <2>2
<1> QED BY <1>9, <1>10, <1>11, <1>12

(***************************************************************************)
(* A step of one routine                                                   *)
(***************************************************************************)

OthersKept(t) ==
  \A u \in Routines \ {t} : /\ call'[u] = call[u] /\ index'[u] = index[u]
                            /\ todo'[u] = todo[u] /\ plan'[u] = plan[u]

\* The array stays, or the splices that are going on notice.
Noticed(t) ==
  \/ Disturbs(t)
  \/ UNCHANGED <<array_items, array_size, value>> /\ disturbed \ {t} \subseteq disturbed'

\* The invariant holds after a step of t if it does for the array and for t.
LEMMA Frame ==
  ASSUME SharedIInv, NEW t \in Routines, ArrayOK', Domains', Nodes \subseteq Nodes',
         OthersKept(t), Noticed(t), ThreadOK(t)', SpliceOK(t)'
  PROVE  SharedIInv'
<1>1. Values \subseteq Values'
  BY DEF Values
<1>2. \A s \in Seq(Values) : s \in Seq(Values')
  BY <1>1, SeqMonotonic
<1>3. ASSUME NEW u \in Routines \ {t}
      PROVE  ThreadOK(u)' /\ SpliceOK(u)'
  <2>1. /\ call'[u] = call[u] /\ index'[u] = index[u]
        /\ todo'[u] = todo[u] /\ plan'[u] = plan[u]
    BY DEF OthersKept
  <2>2. ThreadOK(u) /\ SpliceOK(u)
    BY DEF SharedIInv
  <2>3. ThreadOK(u)'
    BY <1>2, <2>1, <2>2 DEF ThreadOK
  <2>4. CASE Disturbs(t)
    <3>1. InSplice(u) => u \in disturbed'
      BY <2>4 DEF Disturbs
    <3> QED BY <2>1, <2>3, <3>1 DEF SpliceOK, InSplice
  <2>5. CASE UNCHANGED <<array_items, array_size, value>> /\ disturbed \ {t} \subseteq disturbed'
    <3>1. View' = View /\ AllFetched' = AllFetched /\ Nodes' = Nodes
      BY <2>5 DEF View, AllFetched, Nodes
    <3>2. Fetching(u) => Fetching(u)'
      BY <2>1, <2>5, <3>1 DEF Fetching
    <3>3. Refilling(u) => Refilling(u)'
      BY <1>2, <2>1, <2>5, <3>1 DEF Refilling
    <3>4. u \in disturbed => u \in disturbed'
      BY <2>5
    <3> QED BY <2>1, <2>2, <2>3, <3>2, <3>3, <3>4 DEF SpliceOK
  <2> QED BY <2>3, <2>4, <2>5 DEF Noticed
<1> QED BY <1>3 DEF SharedIInv

\* An operation that is over.
LEMMA Ended ==
  ASSUME Domains, NEW t \in Routines, Ends(t)
  PROVE  Domains' /\ OthersKept(t) /\ ThreadOK(t)' /\ SpliceOK(t)'
<1>1. call'[t] = "none" /\ todo'[t] = <<>>
  BY DEF Ends, Domains
<1>2. <<>> \in Seq(Values')
  OBVIOUS
<1>3. ThreadOK(t)' /\ SpliceOK(t)'
  BY <1>1, <1>2 DEF ThreadOK, SpliceOK
<1>4. Domains' /\ OthersKept(t)
  BY DEF Ends, Domains, OthersKept
<1> QED BY <1>3, <1>4

\* A step that leaves the threads' own variables, all of them outside a splice or
\* not.
LEMMA Kept ==
  ASSUME SharedIInv, NEW t \in Routines, UNCHANGED threadVars, call[t] = "none",
         Nodes \subseteq Nodes'
  PROVE  Domains' /\ OthersKept(t) /\ ThreadOK(t)' /\ SpliceOK(t)'
<1>1. Values \subseteq Values'
  BY DEF Values
<1>2. ThreadOK(t) /\ Domains
  BY DEF SharedIInv
<1>3. todo[t] \in Seq(Values')
  BY <1>1, <1>2, SeqMonotonic DEF ThreadOK
<1> QED BY <1>2, <1>3 DEF threadVars, ThreadOK, SpliceOK, OthersKept, Domains

\* Nothing but the threads' own variables and the mutex.
LEMMA ArrayKept ==
  ASSUME ArrayOK, UNCHANGED <<arrayVars, value>>
  PROVE  /\ ArrayOK' /\ Nodes' = Nodes /\ Values' = Values
         /\ UNCHANGED Promise!vars
<1>1. Nodes' = Nodes /\ Values' = Values /\ View' = View
  BY DEF Nodes, Values, View, arrayVars
<1> QED BY <1>1 DEF arrayVars, ArrayOK, Promise!vars

(***************************************************************************)
(* Operations of one native call                                           *)
(***************************************************************************)

LEMMA PopStep ==
  ASSUME SharedIInv, NEW t \in Routines, shared_array_pop_ptr(t)
  PROVE  SharedIInv' /\ (Promise!Next \/ UNCHANGED Promise!vars)
<1>1. /\ ArrayOK /\ type' = type /\ cut' = cut /\ value' = value /\ call[t] = "none"
      /\ UNCHANGED threadVars /\ Disturbs(t)
  BY DEF SharedIInv, shared_array_pop_ptr, Begins
<1>2. Nodes' = Nodes
  BY <1>1 DEF Nodes
<1>3. ArrayOK' /\ (Promise!TakeOut \/ UNCHANGED Promise!vars)
  <2>1. CASE array_size = 0
    <3>1. UNCHANGED <<arrayVars, value>>
      BY <1>1, <2>1 DEF shared_array_pop_ptr, arrayVars
    <3> QED BY <1>1, <3>1, ArrayKept
  <2>2. CASE array_size # 0
    <3>1. ArrayOK' /\ View' = SubSeq(View, 1, Len(View) - 1)
      BY <1>1, <2>2, PopArray DEF shared_array_pop_ptr
    <3>2. View # <<>>
      BY <1>1, <2>2, ViewIs
    <3>3. View' = Promise!Front(View)
      BY <3>1 DEF Promise!Front
    <3> QED BY <1>1, <3>1, <3>2, <3>3 DEF Promise!TakeOut
  <2> QED BY <2>1, <2>2
<1>4. Domains' /\ OthersKept(t) /\ ThreadOK(t)' /\ SpliceOK(t)'
  BY <1>1, <1>2, Kept
<1>5. Noticed(t)
  BY <1>1 DEF Noticed
<1> QED BY <1>2, <1>3, <1>4, <1>5, Frame DEF Promise!Next

LEMMA ShiftStep ==
  ASSUME SharedIInv, NEW t \in Routines, shared_array_shift_ptr(t)
  PROVE  SharedIInv' /\ (Promise!Next \/ UNCHANGED Promise!vars)
<1>1. /\ ArrayOK /\ type' = type /\ cut' = cut /\ value' = value /\ call[t] = "none"
      /\ UNCHANGED threadVars /\ Disturbs(t)
  BY DEF SharedIInv, shared_array_shift_ptr, Begins
<1>2. Nodes' = Nodes
  BY <1>1 DEF Nodes
<1>3. ArrayOK' /\ (Promise!TakeOut \/ UNCHANGED Promise!vars)
  <2>1. CASE array_size = 0
    <3>1. UNCHANGED <<arrayVars, value>>
      BY <1>1, <2>1 DEF shared_array_shift_ptr, arrayVars
    <3> QED BY <1>1, <3>1, ArrayKept
  <2>2. CASE array_size # 0
    <3>1. ArrayOK' /\ View' = Tail(View)
      BY <1>1, <2>2, ShiftArray DEF shared_array_shift_ptr
    <3>2. View # <<>>
      BY <1>1, <2>2, ViewIs
    <3> QED BY <1>1, <3>1, <3>2 DEF Promise!TakeOut
  <2> QED BY <2>1, <2>2
<1>4. Domains' /\ OthersKept(t) /\ ThreadOK(t)' /\ SpliceOK(t)'
  BY <1>1, <1>2, Kept
<1>5. Noticed(t)
  BY <1>1 DEF Noticed
<1> QED BY <1>2, <1>3, <1>4, <1>5, Frame DEF Promise!Next

LEMMA ResizeStep ==
  ASSUME SharedIInv, NEW t \in Routines, NEW n \in Nat, shared_array_resize(t, n)
  PROVE  SharedIInv' /\ Promise!Next
<1>1. /\ ArrayOK /\ type' = type /\ value' = value /\ call[t] = "none"
      /\ UNCHANGED threadVars /\ Disturbs(t)
  BY DEF SharedIInv, shared_array_resize, Begins
<1>2. Nodes' = Nodes
  BY <1>1 DEF Nodes
<1>3. /\ ArrayOK' /\ Len(View') = n
      /\ \A i \in 1 .. n : View'[i] = IF i <= Len(View) THEN View[i] ELSE Null
      /\ cut' = cut \cup ({View[i] : i \in n + 1 .. Len(View)} \ {Null})
  BY <1>1, ResizeArray DEF shared_array_resize
<1>4. Promise!Resize
  BY <1>1, <1>3 DEF Promise!Resize
<1>5. Domains' /\ OthersKept(t) /\ ThreadOK(t)' /\ SpliceOK(t)'
  BY <1>1, <1>2, Kept
<1>6. Noticed(t)
  BY <1>1 DEF Noticed
<1> QED BY <1>2, <1>3, <1>4, <1>5, <1>6, Frame DEF Promise!Next

LEMMA ImportStep ==
  ASSUME SharedIInv, NEW t \in Routines, shared_import_into(t)
  PROVE  SharedIInv' /\ Promise!Next
<1>1. /\ ArrayOK /\ cut' = cut /\ value' = value /\ call[t] = "none"
      /\ array_items' = <<>> /\ array_size' = 0
      /\ UNCHANGED threadVars /\ Disturbs(t)
  BY DEF SharedIInv, shared_import_into, Begins
<1>2. Nodes' = Nodes
  BY <1>1 DEF Nodes
<1>3. ArrayOK'
  <2>1. array_items' \in [0 .. 0 - 1 -> Nodes' \cup {Null}]
    BY <1>1
  <2>2. \A i \in array_size' .. 0 - 1 : array_items'[i] \in cut' \cup {Null}
    BY <1>1
  <2>3. value' \in Seq(Contents) /\ cut' \subseteq Nodes' /\ array_size' \in Nat
        /\ array_size' <= 0
    BY <1>1, <1>2 DEF ArrayOK
  <2> QED BY <2>1, <2>2, <2>3 DEF ArrayOK
<1>4. Promise!Replace
  <2>1. View' = <<>>
    BY <1>1 DEF View
  <2>2. (type = "array")' \in BOOLEAN
    OBVIOUS
  <2> QED BY <1>1, <2>1, <2>2 DEF Promise!Replace
<1>5. Domains' /\ OthersKept(t) /\ ThreadOK(t)' /\ SpliceOK(t)'
  BY <1>1, <1>2, Kept
<1>6. Noticed(t)
  BY <1>1 DEF Noticed
<1> QED BY <1>2, <1>3, <1>4, <1>5, <1>6, Frame DEF Promise!Next

(***************************************************************************)
(* Operations of several native calls                                      *)
(***************************************************************************)

\* A step that is the end of an operation, and leaves the array.
LEMMA EndStep ==
  ASSUME SharedIInv, NEW t \in Routines, Ends(t), UNCHANGED <<arrayVars, value, disturbed>>
  PROVE  SharedIInv' /\ UNCHANGED Promise!vars
<1>1. ArrayOK' /\ Nodes' = Nodes /\ UNCHANGED Promise!vars
  BY ArrayKept DEF SharedIInv
<1>2. Domains' /\ OthersKept(t) /\ ThreadOK(t)' /\ SpliceOK(t)'
  BY Ended DEF SharedIInv
<1>3. Noticed(t)
  BY DEF Noticed, arrayVars
<1> QED BY <1>1, <1>2, <1>3, Frame

\* A step that is the beginning of one, or goes on with it, and leaves the array.
LEMMA GoStep ==
  ASSUME SharedIInv, NEW t \in Routines, UNCHANGED <<arrayVars, value>>,
         disturbed \ {t} \subseteq disturbed',
         Domains', OthersKept(t), ThreadOK(t)', SpliceOK(t)'
  PROVE  SharedIInv' /\ UNCHANGED Promise!vars
<1>1. ArrayOK' /\ Nodes' = Nodes /\ UNCHANGED Promise!vars
  BY ArrayKept DEF SharedIInv
<1>2. Noticed(t)
  BY DEF Noticed, arrayVars
<1> QED BY <1>1, <1>2, Frame

LEMMA StartAddStep ==
  ASSUME SharedIInv, NEW t \in Routines, NEW op \in {"push", "unshift"},
         NEW vs \in Seq(Values), StartAdd(t, op, vs)
  PROVE  SharedIInv' /\ UNCHANGED Promise!vars
<1>1. Domains /\ ArrayOK
  BY DEF SharedIInv
<1>2. /\ UNCHANGED <<arrayVars, value, disturbed, index, plan>>
      /\ call' = [call EXCEPT ![t] = op] /\ todo' = [todo EXCEPT ![t] = vs]
  BY DEF StartAdd
<1>3. Values' = Values
  BY <1>1, <1>2, ArrayKept
<1>4. Domains' /\ OthersKept(t) /\ call'[t] = op /\ todo'[t] = vs
  BY <1>1, <1>2 DEF Domains, OthersKept
<1>5. ThreadOK(t)' /\ SpliceOK(t)'
  BY <1>3, <1>4 DEF ThreadOK, SpliceOK
<1> QED BY <1>2, <1>4, <1>5, GoStep

LEMMA StartAtStep ==
  ASSUME SharedIInv, NEW t \in Routines, NEW i \in Int, NEW x \in Seq(Values),
         StartAt(t, i, x)
  PROVE  SharedIInv' /\ UNCHANGED Promise!vars
<1>1. Domains /\ ArrayOK
  BY DEF SharedIInv
<1>2. /\ UNCHANGED <<arrayVars, value, disturbed, plan>>
      /\ call' = [call EXCEPT ![t] = "sizing"] /\ todo' = [todo EXCEPT ![t] = x]
      /\ index' = [index EXCEPT ![t] = i]
  BY DEF StartAt
<1>3. Values' = Values
  BY <1>1, <1>2, ArrayKept
<1>4. /\ Domains' /\ OthersKept(t)
      /\ call'[t] = "sizing" /\ todo'[t] = x /\ index'[t] = i
  BY <1>1, <1>2 DEF Domains, OthersKept
<1>5. ThreadOK(t)' /\ SpliceOK(t)'
  BY <1>3, <1>4 DEF ThreadOK, SpliceOK
<1> QED BY <1>2, <1>4, <1>5, GoStep

LEMMA SizesStep ==
  ASSUME SharedIInv, NEW t \in Routines, Sizes(t)
  PROVE  SharedIInv' /\ UNCHANGED Promise!vars
<1>1. Domains /\ ArrayOK /\ ThreadOK(t)
  BY DEF SharedIInv
<1> DEFINE i == IF index[t] < 0 THEN index[t] + array_size ELSE index[t]
<1>2. i \in Int /\ todo[t] \in Seq(Values) /\ UNCHANGED <<arrayVars, value, disturbed>>
  BY <1>1 DEF Sizes, ThreadOK, ArrayOK
<1>3. CASE i < 0
  BY <1>2, <1>3, EndStep DEF Sizes
<1>4. CASE ~ (i < 0)
  <2>1. Values' = Values
    BY <1>1, <1>2, ArrayKept
  <2>2. /\ Domains' /\ OthersKept(t)
        /\ call'[t] = (IF todo[t] = <<>> THEN "delete" ELSE "store")
        /\ index'[t] = i /\ todo'[t] = todo[t]
    BY <1>1, <1>4 DEF Sizes, Domains, OthersKept
  <2>3. ThreadOK(t)' /\ SpliceOK(t)'
    BY <1>2, <1>4, <2>1, <2>2 DEF ThreadOK, SpliceOK
  <2> QED BY <1>2, <2>2, <2>3, GoStep
<1> QED BY <1>3, <1>4

LEMMA DeleteStep ==
  ASSUME SharedIInv, NEW t \in Routines, shared_array_delete_ptr(t)
  PROVE  SharedIInv' /\ (Promise!Next \/ UNCHANGED Promise!vars)
<1>1. /\ Domains /\ ArrayOK /\ index[t] \in Nat
      /\ type' = type /\ cut' = cut /\ value' = value /\ array_size' = array_size
      /\ Ends(t) /\ Disturbs(t)
  BY DEF SharedIInv, ThreadOK, shared_array_delete_ptr
<1>2. Nodes' = Nodes
  BY <1>1 DEF Nodes
<1>3. ArrayOK' /\ (Promise!TakeOut \/ UNCHANGED Promise!vars)
  <2>1. CASE index[t] < array_size
    <3>1. array_items' = [array_items EXCEPT ![index[t]] = Null]
      BY <2>1 DEF shared_array_delete_ptr
    <3>2. ArrayOK' /\ View' = [View EXCEPT ![index[t] + 1] = Null]
      BY <1>1, <2>1, <3>1, DeleteArray
    <3>3. index[t] + 1 \in DOMAIN View /\ View # <<>>
      BY <1>1, <2>1, ViewIs DEF ArrayOK
    <3> QED BY <1>1, <3>2, <3>3 DEF Promise!TakeOut
  <2>2. CASE ~ (index[t] < array_size)
    <3>1. UNCHANGED <<arrayVars, value>>
      BY <1>1, <2>2 DEF shared_array_delete_ptr, arrayVars
    <3> QED BY <1>1, <3>1, ArrayKept
  <2> QED BY <2>1, <2>2
<1>4. Domains' /\ OthersKept(t) /\ ThreadOK(t)' /\ SpliceOK(t)'
  BY <1>1, Ended
<1>5. Noticed(t)
  BY <1>1 DEF Noticed
<1> QED BY <1>2, <1>3, <1>4, <1>5, Frame DEF Promise!Next

LEMMA StartUpdateStep ==
  ASSUME SharedIInv, NEW t \in Routines, NEW n \in Nodes, StartUpdate(t, n)
  PROVE  SharedIInv' /\ UNCHANGED Promise!vars
<1>1. Domains /\ ArrayOK /\ ThreadOK(t)
  BY DEF SharedIInv
<1>2. /\ UNCHANGED <<arrayVars, value, disturbed, todo, plan>>
      /\ call' = [call EXCEPT ![t] = "update"] /\ index' = [index EXCEPT ![t] = n]
  BY DEF StartUpdate
<1>3. Values' = Values /\ Nodes' = Nodes
  BY <1>1, <1>2, ArrayKept
<1>4. /\ Domains' /\ OthersKept(t)
      /\ call'[t] = "update" /\ index'[t] = n /\ todo'[t] = todo[t]
  BY <1>1, <1>2 DEF Domains, OthersKept
<1>5. ThreadOK(t)' /\ SpliceOK(t)'
  BY <1>1, <1>3, <1>4 DEF ThreadOK, SpliceOK
<1> QED BY <1>2, <1>4, <1>5, GoStep

LEMMA ApplyStep ==
  ASSUME SharedIInv, NEW t \in Routines, shared_apply(t)
  PROVE  SharedIInv' /\ Promise!Next
<1>1. /\ Domains /\ ArrayOK /\ ThreadOK(t) /\ index[t] \in Nodes
      /\ UNCHANGED <<arrayVars, index, todo, plan>> /\ Disturbs(t)
      /\ call' = [call EXCEPT ![t] = "updated"]
      /\ value' = [value EXCEPT ![index[t]] = IF @ = Undef THEN 1 ELSE @ + 1]
  BY DEF SharedIInv, ThreadOK, shared_apply
<1>2. value' \in Seq(Contents) /\ Nodes' = Nodes
  <2>1. value \in Seq(Contents) /\ index[t] \in 1 .. Len(value)
    BY <1>1 DEF ArrayOK, Nodes
  <2>2. (IF value[index[t]] = Undef THEN 1 ELSE value[index[t]] + 1) \in Contents
    BY <2>1 DEF Contents
  <2> QED BY <1>1, <2>1, <2>2 DEF Nodes
<1>3. ArrayOK'
  BY <1>1, <1>2 DEF ArrayOK, arrayVars
<1>4. Promise!Increment
  <2>1. View' = View
    BY <1>1 DEF View, arrayVars
  <2> QED BY <1>1, <2>1 DEF Promise!Increment, arrayVars, Nodes
<1>5. /\ Domains' /\ OthersKept(t) /\ call'[t] = "updated" /\ todo'[t] = todo[t]
  BY <1>1 DEF Domains, OthersKept
<1>6. Values' = Values
  BY <1>2 DEF Values
<1>7. ThreadOK(t)' /\ SpliceOK(t)'
  BY <1>1, <1>5, <1>6 DEF ThreadOK, SpliceOK
<1>8. Noticed(t)
  BY <1>1 DEF Noticed
<1> QED BY <1>2, <1>3, <1>4, <1>5, <1>7, <1>8, Frame DEF Promise!Next

\* What a store puts at the place, given what is there.
StoredAt(n, found) ==
  /\ value' \in Seq(Contents) /\ Nodes \subseteq Nodes' /\ n \in Nodes' /\ n # Null
  /\ \/ Promise!IsLinked(n)
     \/ found = Null /\ Promise!MadeFor(n)
     \/ found = n /\ Promise!Made(n) /\ Promise!Writes(n)

LEMMA ListChanged ==
  ASSUME NEW S, NEW s \in Seq(S), NEW e \in S
  PROVE  /\ \A i \in DOMAIN s : /\ [s EXCEPT ![i] = e] \in Seq(S)
                               /\ DOMAIN [s EXCEPT ![i] = e] = DOMAIN s
         /\ Append(s, e) \in Seq(S) /\ DOMAIN Append(s, e) = 1 .. Len(s) + 1
  OBVIOUS

LEMMA NodeStored ==
  ASSUME ArrayOK, NEW x \in Values, NEW found \in Nodes \cup {Null}, NEW n, NEW v,
         n = (IF x[1] = "plain" /\ found # Null THEN found ELSE NodeFor(x)),
         v = (IF x[2] = Bad THEN Undef ELSE x[2]),
         value' = CASE x[1] = "node" -> value
                    [] x[1] # "node" /\ n \in Nodes -> [value EXCEPT ![n] = v]
                    [] OTHER -> Append(value, v)
  PROVE  StoredAt(n, found)
<1>1. value \in Seq(Contents) /\ Len(value) \in Nat /\ Nodes = 1 .. Len(value)
  BY DEF ArrayOK, Nodes
<1>2. \A m \in Nodes : m # Null
  BY <1>1, SharedAssumption
<1>3. CASE \E m \in Nodes : x = Link(m)
  <2>1. PICK m \in Nodes : x = Link(m)
    BY <1>3
  <2>2. n = m /\ value' = value
    BY <2>1 DEF Link, NodeFor
  <2> QED BY <2>1, <2>2, <1>1, <1>2 DEF StoredAt, Nodes, Promise!IsLinked, Promise!Made
<1>4. CASE \E w \in {0, Undef, Bad} : x = Plain(w)
  <2>1. PICK w \in {0, Undef, Bad} : x = Plain(w)
    BY <1>4
  <2>2. x[1] = "plain" /\ v \in {0, Undef} /\ NodeFor(x) = Len(value) + 1
    BY <2>1 DEF Plain, NodeFor, shared_node_new
  <2>3. v \in Contents
    BY <2>2 DEF Contents
  <2>4. CASE found # Null
    <3>1. n = found /\ n \in Nodes /\ value' = [value EXCEPT ![n] = v]
      BY <2>2, <2>4
    <3>2. value' \in Seq(Contents) /\ Nodes' = Nodes
      <4>1. /\ [value EXCEPT ![n] = v] \in Seq(Contents)
            /\ DOMAIN [value EXCEPT ![n] = v] = DOMAIN value
        BY <3>1, <2>3, <1>1, ListChanged DEF Nodes
      <4> QED BY <4>1, <3>1 DEF Nodes
    <3>3. Promise!Made(n) /\ Promise!Writes(n)
      BY <2>2, <3>1 DEF Promise!Made, Promise!Writes, Nodes
    <3> QED BY <1>2, <3>1, <3>2, <3>3 DEF StoredAt
  <2>5. CASE found = Null
    <3>1. n = Len(value) + 1 /\ n \notin Nodes
      BY <2>2, <2>5, <1>1
    <3>2. value' = Append(value, v)
      BY <2>2, <3>1
    <3>3. value' \in Seq(Contents) /\ Nodes' = 1 .. Len(value) + 1
      <4>1. /\ Append(value, v) \in Seq(Contents)
            /\ DOMAIN Append(value, v) = 1 .. Len(value) + 1
        BY <2>3, <1>1, ListChanged
      <4> QED BY <4>1, <3>2 DEF Nodes
    <3>4. Promise!MadeFor(n)
      BY <2>2, <3>1, <3>2 DEF Promise!MadeFor
    <3> QED BY <1>1, <2>5, <3>1, <3>3, <3>4, SharedAssumption DEF StoredAt
  <2> QED BY <2>4, <2>5
<1> QED BY <1>3, <1>4 DEF Values

LEMMA StoresStep ==
  ASSUME SharedIInv, NEW t \in Routines, Stores(t)
  PROVE  SharedIInv' /\ Promise!Next
<1> DEFINE i == index[t]
           x == todo[t][1]
           items == shared_array_reserve(array_items, i + 1)
           n == IF x[1] = "plain" /\ items[i] # Null THEN items[i] ELSE NodeFor(x)
           v == IF x[2] = Bad THEN Undef ELSE x[2]
<1>1. /\ Domains /\ ArrayOK /\ i \in Nat /\ x \in Values /\ array_size \in Nat
      /\ type' = type /\ cut' = cut /\ Ends(t) /\ Disturbs(t)
  <2>1. call[t] = "store" /\ ThreadOK(t)
    BY DEF SharedIInv, Stores
  <2>2. todo[t] \in Seq(Values) /\ todo[t] # <<>> /\ i \in Nat
    BY <2>1 DEF ThreadOK
  <2> QED BY <2>2 DEF SharedIInv, ArrayOK, Stores
<1>2. PICK room, more \in Nat : RoomFor(i + 1, room, more)
  <2>1. i + 1 \in Nat
    BY <1>1
  <2> HIDE DEF i
  <2> QED BY <1>1, <2>1, HasRoom
<1>3. /\ items[i] \in Nodes \cup {Null} /\ array_size <= room
      /\ items[i] = IF i < room THEN array_items[i] ELSE Null
  BY <1>1, <1>2 DEF RoomFor
<1>4. /\ array_items' = [items EXCEPT ![i] = n]
      /\ array_size' = IF i < array_size THEN array_size ELSE i + 1
      /\ value' = CASE x[1] = "node" -> value
                     [] x[1] # "node" /\ n \in Nodes -> [value EXCEPT ![n] = v]
                     [] OTHER -> Append(value, v)
  BY DEF Stores
<1>5. StoredAt(n, items[i])
  <2> DEFINE found == items[i]
  <2>1. /\ n = (IF x[1] = "plain" /\ found # Null THEN found ELSE NodeFor(x))
        /\ v = (IF x[2] = Bad THEN Undef ELSE x[2]) /\ found \in Nodes \cup {Null}
    BY <1>3
  <2> HIDE DEF n, v, x, found
  <2> QED BY <1>1, <1>4, <2>1, NodeStored DEF found
<1> HIDE DEF n, v, x
<1>6. /\ value' \in Seq(Contents) /\ Nodes \subseteq Nodes' /\ n \in Nodes' /\ n # Null
  BY <1>5 DEF StoredAt
<1>7. /\ ArrayOK'
      /\ i < array_size => View' = [View EXCEPT ![i + 1] = n]
      /\ ~ (i < array_size) =>
           /\ Len(View') = i + 1 /\ View'[i + 1] = n
           /\ SubSeq(View', 1, array_size) = View
           /\ \A j \in array_size + 1 .. i : View'[j] \in cut \cup {Null}
  <2> HIDE DEF i
  <2> QED BY <1>1, <1>4, <1>6, StoreArray
<1>8. Promise!Next
  <2>1. CASE i < array_size
    <3>1. /\ View \in Seq(Nodes \cup {Null}) /\ Len(View) = array_size
          /\ DOMAIN View = 1 .. array_size /\ i + 1 \in 1 .. array_size
          /\ View[i + 1] = array_items[i + 1 - 1] /\ i + 1 - 1 = i
      BY <1>1, <2>1, ViewIs
    <3>2. View[i + 1] = items[i]
      BY <1>3, <3>1, <2>1, <1>1
    <3>3. View' = [View EXCEPT ![i + 1] = n]
      BY <2>1, <1>7
    <3> HIDE DEF View
    <3>4. Len(View') = Len(View) /\ View'[i + 1] = n
      BY <3>1, <3>3
    <3>5. Promise!Store
      BY <1>1, <1>5, <1>6, <3>1, <3>2, <3>3, <3>4 DEF Promise!Store, StoredAt
    <3> QED BY <3>5 DEF Promise!Next
  <2>2. CASE ~ (i < array_size)
    <3>1. /\ Len(View') = i + 1 /\ View'[i + 1] = n
          /\ SubSeq(View', 1, array_size) = View
          /\ \A j \in array_size + 1 .. i : View'[j] \in cut \cup {Null}
      BY <2>2, <1>7
    <3>2. Len(View) = array_size
      BY <1>1, ViewIs
    <3> HIDE DEF View
    <3>3. Promise!Last(View') = n
      BY <3>1 DEF Promise!Last
    <3>4. items[i] # Null => items[i] \in cut
      <4>1. i < room => array_items[i] \in cut \cup {Null}
        BY <1>1, <1>2, <2>2 DEF RoomFor
      <4> QED BY <4>1, <1>3
    <3>5. Promise!IsLinked(n) \/ Promise!MadeFor(n)
          \/ (n \in cut /\ Promise!Made(n) /\ Promise!Writes(n))
      BY <1>5, <1>6, <3>4 DEF StoredAt
    <3>6. Promise!Extend
      BY <1>1, <1>6, <2>2, <3>1, <3>2, <3>3, <3>5 DEF Promise!Extend
    <3> QED BY <3>6 DEF Promise!Next
  <2> QED BY <2>1, <2>2
<1>9. Domains' /\ OthersKept(t) /\ ThreadOK(t)' /\ SpliceOK(t)'
  BY <1>1, Ended
<1>10. Noticed(t)
  BY <1>1 DEF Noticed
<1> QED BY <1>6, <1>7, <1>8, <1>9, <1>10, Frame

(***************************************************************************)
(* push, unshift and splice                                                *)
(***************************************************************************)

LEMMA AddsStep ==
  ASSUME SharedIInv, NEW t \in Routines, Adds(t)
  PROVE  SharedIInv' /\ Promise!Next
<1> DEFINE x == Head(todo[t])
           n == NodeFor(x)
<1>1. /\ Domains /\ ArrayOK /\ ThreadOK(t) /\ SpliceOK(t) /\ array_size \in Nat
      /\ call[t] \in {"push", "unshift", "refill"}
      /\ todo[t] \in Seq(Values) /\ todo[t] # <<>> /\ x \in Values /\ x # Plain(Bad)
      /\ type' = type /\ cut' = cut /\ Disturbs(t)
      /\ UNCHANGED <<call, index, plan>>
  <2>1. ThreadOK(t) /\ ArrayOK /\ todo[t] # <<>>
    BY DEF SharedIInv, Adds
  <2>2. todo[t] \in Seq(Values)
    BY <2>1 DEF ThreadOK
  <2>3. x \in Values
    BY <2>1, <2>2
  <2> QED BY <2>1, <2>2, <2>3 DEF SharedIInv, Adds, ArrayOK
<1>2. /\ value' = ValuesWith(x) /\ array_size' = array_size + 1
      /\ todo' = [todo EXCEPT ![t] = Tail(@)]
      /\ array_items' = IF call[t] = "unshift" THEN Unshifted(array_items, n)
                        ELSE Pushed(array_items, n)
  BY DEF Adds
<1> HIDE DEF x, n
<1>3. /\ value' \in Seq(Contents) /\ Nodes \subseteq Nodes'
      /\ \A m \in Nodes : value'[m] = value[m]
      /\ n \in Nodes' /\ n \in Nat
      /\ x \in {Link(n), Plain(value'[n])}
      /\ Promise!IsLinked(n) \/ Promise!MadeFor(n)
  BY <1>1, <1>2, NodeMade DEF n
<1>4. /\ ArrayOK'
      /\ View' = IF call[t] = "unshift" THEN <<n>> \o View ELSE Append(View, n)
  <2>1. CASE call[t] = "unshift"
    BY <2>1, <1>1, <1>2, <1>3, UnshiftArray
  <2>2. CASE call[t] # "unshift"
    BY <2>2, <1>1, <1>2, <1>3, PushArray
  <2> QED BY <2>1, <2>2
<1>5. View \in Seq(Nodes \cup {Null}) /\ Len(View) = array_size
  BY <1>1, ViewIs
<1>6. Promise!Add
  <2> HIDE DEF View
  <2>1. n # Null
    BY <1>3, SharedAssumption
  <2>2. CASE call[t] = "unshift"
    <3>1. View' = <<n>> \o View /\ View' # <<>> /\ View'[1] = n
      BY <2>2, <1>4, <1>5
    <3> QED BY <3>1, <2>1, <1>1, <1>3 DEF Promise!Add
  <2>3. CASE call[t] # "unshift"
    <3>1. View' = Append(View, n) /\ View' # <<>> /\ Promise!Last(View') = n
      BY <2>3, <1>4, <1>5 DEF Promise!Last
    <3> QED BY <3>1, <2>1, <1>1, <1>3 DEF Promise!Add
  <2> QED BY <2>2, <2>3
<1>7. Values \subseteq Values'
  BY <1>3 DEF Values
<1>8. /\ Domains' /\ OthersKept(t) /\ todo'[t] = Tail(todo[t])
      /\ call'[t] = call[t] /\ plan'[t] = plan[t]
  BY <1>1, <1>2 DEF Domains, OthersKept
<1>9. ThreadOK(t)'
  <2>1. todo'[t] \in Seq(Values')
    BY <1>1, <1>7, <1>8, SeqMonotonic
  <2> QED BY <2>1, <1>1, <1>8 DEF ThreadOK
<1>10. ASSUME t \notin disturbed', call'[t] = "refill"
       PROVE  Refilling(t)'
  <2>1. Refilling(t) /\ call[t] = "refill"
    BY <1>1, <1>8, <1>10 DEF Disturbs, SpliceOK
  <2> DEFINE want == plan[t].want
  <2>2. /\ want \in Seq(Values) /\ Len(want) = array_size + Len(todo[t])
        /\ \A i \in 1 .. array_size :
             View[i] \in Nodes /\ want[i] \in {Link(View[i]), Plain(value[View[i]])}
        /\ \A i \in 1 .. Len(todo[t]) : todo[t][i] = want[array_size + i]
    BY <2>1 DEF Refilling
  <2>3. plan'[t].want = want
    BY <1>8
  <2>4. View' = Append(View, n)
    BY <2>1, <1>4
  <2> HIDE DEF want, View
  <2>5. /\ Len(todo[t]) \in Nat /\ Len(todo[t]) >= 1 /\ Len(todo'[t]) = Len(todo[t]) - 1
        /\ \A i \in 1 .. Len(todo[t]) - 1 : todo'[t][i] = todo[t][i + 1]
        /\ x = todo[t][1]
    BY <1>1, <1>8 DEF x
  <2>6. want \in Seq(Values')
    BY <2>2, <1>7, SeqMonotonic
  <2>7. Len(want) = array_size' + Len(todo'[t])
    <3>1. array_size' = array_size + 1 /\ array_size \in Nat
      BY <1>1, <1>2
    <3>2. Len(want) = array_size + Len(todo[t])
      BY <2>2
    <3>3. Len(todo'[t]) = Len(todo[t]) - 1 /\ Len(todo[t]) \in Nat
      BY <2>5
    <3>4. \A a, b, k, l, w : /\ b \in Nat /\ l \in Nat /\ a = b + 1 /\ k = l - 1
                             /\ w = b + l
                             => w = a + k
      OBVIOUS
    <3> QED BY <3>1, <3>2, <3>3, <3>4
  <2>8. ASSUME NEW i \in 1 .. array_size'
        PROVE  /\ View'[i] \in Nodes'
               /\ want[i] \in {Link(View'[i]), Plain(value'[View'[i]])}
    <3>1. CASE i = array_size + 1
      <4>1. View'[i] = n /\ want[i] = x
        BY <3>1, <2>2, <2>4, <2>5, <1>5, <1>1
      <4> QED BY <4>1, <1>3
    <3>2. CASE i \in 1 .. array_size
      <4>1. View'[i] = View[i]
        BY <3>2, <2>4, <1>5
      <4> QED BY <4>1, <3>2, <2>2, <1>3
    <3> QED BY <3>1, <3>2, <1>1, <1>2
  <2>9. ASSUME NEW i \in 1 .. Len(todo'[t])
        PROVE  todo'[t][i] = want[array_size' + i]
    <3>1. i + 1 \in 1 .. Len(todo[t]) /\ array_size + (i + 1) = array_size' + i
      BY <2>5, <1>1, <1>2
    <3> QED BY <3>1, <2>2, <2>5
  <2> QED BY <2>3, <2>6, <2>7, <2>8, <2>9 DEF Refilling
<1>11. SpliceOK(t)'
  BY <1>1, <1>8, <1>10 DEF SpliceOK
<1>12. Noticed(t)
  BY <1>1 DEF Noticed
<1> QED BY <1>3, <1>4, <1>6, <1>8, <1>9, <1>11, <1>12, Frame DEF Promise!Next

LEMMA SplicedType ==
  ASSUME NEW S, NEW list \in Seq(S), NEW insert \in Seq(S),
         NEW from \in 0 .. Len(list), NEW length \in 0 .. Len(list) - from
  PROVE  Spliced(list, from, length, insert) \in Seq(S)
<1>1. Len(list) \in Nat
  OBVIOUS
<1>2. SubSeq(list, 1, from) \in Seq(S)
  BY <1>1
<1>3. SubSeq(list, from + length + 1, Len(list)) \in Seq(S)
  BY <1>1
<1> DEFINE a == SubSeq(list, 1, from)
           b == SubSeq(list, from + length + 1, Len(list))
<1> HIDE DEF a, b
<1>4. a \o insert \o b \in Seq(S)
  BY <1>2, <1>3, ConcatProperties DEF a, b
<1> QED BY <1>4 DEF Spliced, a, b

LEMMA StartSpliceStep ==
  ASSUME SharedIInv, NEW t \in Routines, NEW offset \in Int, NEW length \in Int,
         NEW insert \in Seq(Values), StartSplice(t, offset, length, insert)
  PROVE  SharedIInv' /\ UNCHANGED Promise!vars
<1> DEFINE from == From(array_size, offset)
           removed == Removed(array_size, from, length)
<1>1. /\ Domains /\ ArrayOK /\ ThreadOK(t) /\ call[t] = "none" /\ array_size \in Nat
      /\ UNCHANGED <<arrayVars, value, index, todo>>
      /\ call' = [call EXCEPT ![t] = "splice"] /\ disturbed' = disturbed \ {t}
  BY DEF SharedIInv, ArrayOK, StartSplice, Begins
<1>2. from \in 0 .. array_size
  BY <1>1 DEF From, Between
<1>3. removed \in 0 .. array_size - from
  <2> HIDE DEF from
  <2> QED BY <1>1, <1>2 DEF Removed, Between
<1>4. Values' = Values /\ View' = View /\ AllFetched' = AllFetched
  BY <1>1, ArrayKept DEF AllFetched, View, arrayVars
<1>5. [i \in DOMAIN View |-> Fetched(View[i])] = AllFetched
  BY <1>1, ViewIs DEF AllFetched
<1>6. plan' = [plan EXCEPT ![t] =
                 [size |-> array_size, from |-> from, insert |-> insert,
                  length |-> removed,
                  want |-> Spliced(AllFetched, from, removed, insert)]]
  BY <1>5 DEF StartSplice
<1> HIDE DEF from, removed
<1>7. /\ Domains' /\ OthersKept(t) /\ call'[t] = "splice" /\ todo'[t] = <<>>
      /\ plan'[t] = [size |-> array_size, from |-> from, insert |-> insert,
                     length |-> removed,
                     want |-> Spliced(AllFetched, from, removed, insert)]
  BY <1>1, <1>6 DEF Domains, OthersKept, ThreadOK
<1>8. ThreadOK(t)'
  <2>1. todo'[t] \in Seq(Values') /\ Len(todo'[t]) = 0
    BY <1>7
  <2> QED BY <1>1, <1>2, <1>3, <1>4, <1>7, <2>1 DEF ThreadOK
<1>9. SpliceOK(t)'
  BY <1>1, <1>4, <1>7 DEF SpliceOK, Fetching, arrayVars
<1> QED BY <1>1, <1>7, <1>8, <1>9, GoStep

LEMMA SpliceFetchesStep ==
  ASSUME SharedIInv, NEW t \in Routines, SpliceFetches(t)
  PROVE  SharedIInv' /\ UNCHANGED Promise!vars
<1> DEFINE i == Len(todo[t])
           x == Fetched(IF i < array_size THEN array_items[i] ELSE Null)
<1>1. /\ Domains /\ ArrayOK /\ ThreadOK(t) /\ SpliceOK(t) /\ array_size \in Nat
      /\ call[t] = "splice" /\ i < plan[t].size
      /\ UNCHANGED <<arrayVars, value, call, index, plan, disturbed>>
      /\ todo' = [todo EXCEPT ![t] = Append(@, x)]
  BY DEF SharedIInv, ArrayOK, SpliceFetches
<1>2. Values' = Values /\ View' = View /\ AllFetched' = AllFetched
  BY <1>1, ArrayKept DEF AllFetched, View, arrayVars
<1>3. /\ Domains' /\ OthersKept(t) /\ todo'[t] = Append(todo[t], x)
      /\ call'[t] = call[t] /\ plan'[t] = plan[t] /\ index'[t] = index[t]
  BY <1>1 DEF Domains, OthersKept
<1>4. todo[t] \in Seq(Values) /\ i \in Nat
  BY <1>1 DEF ThreadOK
<1>5. i < array_size => array_items[i] = View[i + 1] /\ View[i + 1] \in Nodes \cup {Null}
  <2>1. CASE i < array_size
    <3>1. i + 1 \in 1 .. array_size /\ i + 1 - 1 = i
      BY <1>1, <1>4, <2>1
    <3> QED BY <1>1, <3>1, ViewIs
  <2> QED BY <2>1
<1>6. x \in Values
  <2>1. \A n \in Nodes \cup {Null} : Fetched(n) \in Values
    BY DEF Fetched, Values
  <2> QED BY <1>5, <2>1
<1> HIDE DEF x
<1>7. /\ Append(todo[t], x) \in Seq(Values) /\ Len(Append(todo[t], x)) = i + 1
      /\ Append(todo[t], x)[i + 1] = x
      /\ \A j \in 1 .. i : Append(todo[t], x)[j] = todo[t][j]
  BY <1>4, <1>6, AppendProperties
<1>8. ThreadOK(t)'
  <2>1. plan[t].size \in Nat /\ i + 1 <= plan[t].size
    BY <1>1, <1>4 DEF ThreadOK
  <2> QED BY <1>1, <1>2, <1>3, <1>7, <2>1 DEF ThreadOK
<1>9. ASSUME t \notin disturbed
      PROVE  Fetching(t)'
  <2>1. /\ plan[t].size = array_size
        /\ plan[t].want = Spliced(AllFetched, plan[t].from, plan[t].length, plan[t].insert)
        /\ \A j \in 1 .. i : todo[t][j] = Fetched(View[j])
    BY <1>1, <1>9 DEF SpliceOK, Fetching
  <2>2. x = Fetched(View[i + 1])
    BY <2>1, <1>1, <1>5 DEF x
  <2>3. ASSUME NEW j \in 1 .. i + 1
        PROVE  Append(todo[t], x)[j] = Fetched(View[j])
    <3>1. j \in 1 .. i \/ j = i + 1
      BY <1>4
    <3> QED BY <3>1, <2>1, <2>2, <1>7
  <2> HIDE DEF i
  <2> QED BY <2>1, <2>3, <1>1, <1>2, <1>3, <1>7 DEF Fetching, arrayVars
<1>10. SpliceOK(t)'
  BY <1>1, <1>3, <1>9 DEF SpliceOK
<1> QED BY <1>1, <1>3, <1>8, <1>10, GoStep

LEMMA SpliceClearsStep ==
  ASSUME SharedIInv, NEW t \in Routines, SpliceClears(t)
  PROVE  SharedIInv' /\ Promise!Next
<1> DEFINE new == Spliced(todo[t], plan[t].from, plan[t].length, plan[t].insert)
<1>1. /\ Domains /\ ArrayOK /\ ThreadOK(t) /\ SpliceOK(t)
      /\ call[t] = "splice" /\ Len(todo[t]) = plan[t].size
      /\ UNCHANGED <<type, cut, value, index, plan>> /\ Disturbs(t)
      /\ array_items' = [i \in DOMAIN array_items |-> Null] /\ array_size' = 0
      /\ call' = [call EXCEPT ![t] = "refill"]
      /\ todo' = [todo EXCEPT ![t] = new]
  BY DEF SharedIInv, SpliceClears
<1>2. Nodes' = Nodes /\ Values' = Values
  BY <1>1 DEF Nodes, Values
<1>3. /\ Domains' /\ OthersKept(t) /\ todo'[t] = new
      /\ call'[t] = "refill" /\ plan'[t] = plan[t]
  BY <1>1 DEF Domains, OthersKept
<1>4. new \in Seq(Values)
  <2>1. /\ todo[t] \in Seq(Values) /\ plan[t].insert \in Seq(Values)
        /\ plan[t].from \in 0 .. Len(todo[t])
        /\ plan[t].length \in 0 .. Len(todo[t]) - plan[t].from
    BY <1>1 DEF ThreadOK
  <2> QED BY <2>1, SplicedType
<1>5. ArrayOK'
  <2>1. PICK room \in Nat : array_items \in [0 .. room - 1 -> Nodes \cup {Null}]
    BY <1>1 DEF ArrayOK
  <2>2. /\ array_items' \in [0 .. room - 1 -> Nodes' \cup {Null}]
        /\ \A i \in 0 .. room - 1 : array_items'[i] \in cut' \cup {Null}
    BY <1>1, <2>1
  <2>3. value' \in Seq(Contents) /\ cut' \subseteq Nodes'
        /\ array_size' \in Nat /\ array_size' <= room
    BY <1>1, <1>2, <2>1 DEF ArrayOK
  <2>4. \A i \in array_size' .. room - 1 : array_items'[i] \in cut' \cup {Null}
    BY <1>1, <2>2
  <2> QED BY <2>2, <2>3, <2>4 DEF ArrayOK
<1>6. Promise!Clear
  <2>1. View' = <<>>
    BY <1>1 DEF View
  <2> QED BY <1>1, <2>1 DEF Promise!Clear
<1> HIDE DEF new
<1>7. ThreadOK(t)'
  BY <1>2, <1>3, <1>4 DEF ThreadOK
<1>8. ASSUME t \notin disturbed'
      PROVE  Refilling(t)'
  <2>1. Fetching(t)
    BY <1>1, <1>8 DEF Disturbs, SpliceOK
  <2>2. todo[t] = AllFetched
    <3>1. todo[t] \in Seq(Values) /\ Len(todo[t]) = array_size
      BY <1>1, <2>1 DEF ThreadOK, Fetching
    <3>2. todo[t] = [i \in 1 .. array_size |-> todo[t][i]]
      BY <3>1, IsList
    <3>3. \A i \in 1 .. array_size : todo[t][i] = Fetched(View[i])
      BY <3>1, <2>1 DEF Fetching
    <3> QED BY <3>2, <3>3 DEF AllFetched
  <2>3. plan[t].want = new
    BY <2>1, <2>2 DEF Fetching, new
  <2>4. Len(new) \in Nat
    BY <1>4
  <2>5. Len(new) = 0 + Len(new) /\ \A i \in 1 .. Len(new) : new[i] = new[0 + i]
    BY <2>4
  <2>6. \A i \in 1 .. array_size' : FALSE
    BY <1>1
  <2> QED BY <1>1, <1>2, <1>3, <1>4, <2>3, <2>5, <2>6 DEF Refilling
<1>9. SpliceOK(t)'
  BY <1>3, <1>8 DEF SpliceOK
<1>10. Noticed(t)
  BY <1>1 DEF Noticed
<1> QED BY <1>2, <1>3, <1>5, <1>6, <1>7, <1>9, <1>10, Frame DEF Promise!Next

(***************************************************************************)
(* Shared arrays: every step, and the theorems                             *)
(***************************************************************************)

LEMMA BeginStep ==
  ASSUME SharedIInv, NEW t \in Routines, Begin(t)
  PROVE  SharedIInv' /\ UNCHANGED Promise!vars
<1>1. ArrayOK
  BY DEF SharedIInv
<1>2. Linked \subseteq Nodes
  BY <1>1, ViewIs DEF Linked
<1>3. /\ Plain(0) \in Values /\ Plain(Bad) \in Values
      /\ \A n \in Linked : Link(n) \in Values
  BY <1>2 DEF Values
<1>4. /\ <<Plain(0), Plain(0)>> \in Seq(Values) /\ <<Plain(Bad)>> \in Seq(Values)
      /\ <<Plain(0)>> \in Seq(Values) /\ <<>> \in Seq(Values)
      /\ \A n \in Linked : <<Link(n)>> \in Seq(Values)
  BY <1>3
<1>5. CASE \E vs \in {<<Plain(0), Plain(0)>>, <<Plain(Bad)>>} : StartAdd(t, "push", vs)
  BY <1>4, <1>5, StartAddStep
<1>6. CASE StartAdd(t, "unshift", <<Plain(0)>>)
  BY <1>4, <1>6, StartAddStep
<1>7. CASE \E i \in -1 .. MaxSize - 1 :
             \/ StartAt(t, i, <<>>) \/ StartAt(t, i, <<Plain(0)>>)
             \/ \E n \in Linked : StartAt(t, i, <<Link(n)>>)
  <2>1. PICK i \in -1 .. MaxSize - 1 :
          \/ StartAt(t, i, <<>>) \/ StartAt(t, i, <<Plain(0)>>)
          \/ \E n \in Linked : StartAt(t, i, <<Link(n)>>)
    BY <1>7
  <2>2. i \in Int
    BY SharedAssumption
  <2> QED BY <1>4, <2>1, <2>2, StartAtStep
<1>8. CASE StartAt(t, 0, <<Plain(Bad)>>)
  <2>1. 0 \in Int
    OBVIOUS
  <2> QED BY <1>4, <1>8, <2>1, StartAtStep
<1>9. CASE \E n \in Linked : StartUpdate(t, n)
  BY <1>2, <1>9, StartUpdateStep
<1>10. -1 \in Int /\ 0 \in Int /\ 1 \in Int
  OBVIOUS
<1>11. CASE StartSplice(t, 0, -1, <<>>)
  BY <1>4, <1>10, <1>11, StartSpliceStep
<1>12. CASE StartSplice(t, -1, 1, <<Plain(0)>>)
  BY <1>4, <1>10, <1>12, StartSpliceStep
<1> QED BY <1>5, <1>6, <1>7, <1>8, <1>9, <1>11, <1>12 DEF Begin

LEMMA CallStep ==
  ASSUME SharedIInv, NEW t \in Routines, Step(t)
  PROVE  SharedIInv' /\ [Promise!Next]_(Promise!vars)
<1>1. CASE AddDies(t) \/ Returns(t)
  BY <1>1, EndStep DEF AddDies, Returns
<1>2. CASE Adds(t)
  BY <1>2, AddsStep
<1>3. CASE Sizes(t)
  BY <1>3, SizesStep
<1>4. CASE Stores(t)
  BY <1>4, StoresStep
<1>5. CASE shared_array_delete_ptr(t)
  BY <1>5, DeleteStep
<1>6. CASE shared_apply(t)
  BY <1>6, ApplyStep
<1>7. CASE SpliceFetches(t)
  BY <1>7, SpliceFetchesStep
<1>8. CASE SpliceClears(t)
  BY <1>8, SpliceClearsStep
<1> QED BY <1>1, <1>2, <1>3, <1>4, <1>5, <1>6, <1>7, <1>8 DEF Step

LEMMA AtOnceStep ==
  ASSUME SharedIInv, NEW t \in Routines, AtOnce(t)
  PROVE  SharedIInv' /\ [Promise!Next]_(Promise!vars)
<1>1. CASE \E n \in 0 .. MaxSize : shared_array_resize(t, n)
  <2>1. PICK n \in 0 .. MaxSize : shared_array_resize(t, n)
    BY <1>1
  <2>2. n \in Nat
    BY SharedAssumption
  <2> QED BY <2>1, <2>2, ResizeStep
<1>2. CASE shared_array_pop_ptr(t)
  BY <1>2, PopStep
<1>3. CASE shared_array_shift_ptr(t)
  BY <1>3, ShiftStep
<1>4. CASE shared_import_into(t)
  BY <1>4, ImportStep
<1> QED BY <1>1, <1>2, <1>3, <1>4 DEF AtOnce

LEMMA SharedStarts == SharedInit => SharedIInv /\ Promise!Init
<1> SUFFICES ASSUME SharedInit
             PROVE  SharedIInv /\ Promise!Init
  OBVIOUS
<1>1. ArrayOK
  <2>1. /\ array_items \in [0 .. 0 - 1 -> Nodes \cup {Null}] /\ array_size = 0
        /\ value \in Seq(Contents) /\ cut \subseteq Nodes
        /\ \A i \in array_size .. 0 - 1 : array_items[i] \in cut \cup {Null}
    BY DEF SharedInit
  <2> QED BY <2>1 DEF ArrayOK
<1>2. Domains
  BY DEF SharedInit, Domains
<1>3. ASSUME NEW t \in Routines
      PROVE  ThreadOK(t) /\ SpliceOK(t)
  <2>1. call[t] = "none" /\ todo[t] = <<>>
    BY DEF SharedInit
  <2>2. todo[t] \in Seq(Values)
    BY <2>1
  <2> QED BY <2>1, <2>2 DEF ThreadOK, SpliceOK
<1>4. Promise!Init
  <2>1. View = <<>>
    BY DEF SharedInit, View
  <2> QED BY <2>1 DEF SharedInit, Promise!Init
<1> QED BY <1>1, <1>2, <1>3, <1>4 DEF SharedIInv

LEMMA SharedGoes ==
  SharedIInv /\ [SharedNext]_sharedVars => SharedIInv' /\ [Promise!Next]_(Promise!vars)
<1> SUFFICES ASSUME SharedIInv, [SharedNext]_sharedVars
             PROVE  SharedIInv' /\ [Promise!Next]_(Promise!vars)
  OBVIOUS
<1>1. CASE UNCHANGED sharedVars
  <2>1. /\ UNCHANGED <<arrayVars, value, threadVars, disturbed>> /\ ArrayOK
    BY <1>1 DEF sharedVars, SharedIInv
  <2>2. ArrayOK' /\ Nodes' = Nodes /\ Values' = Values /\ UNCHANGED Promise!vars
    BY <2>1, ArrayKept
  <2>3. View' = View /\ AllFetched' = AllFetched
    BY <2>1 DEF View, AllFetched, arrayVars
  <2>4. Domains'
    BY <2>1 DEF SharedIInv, Domains, threadVars
  <2>5. ASSUME NEW t \in Routines
        PROVE  ThreadOK(t)' /\ SpliceOK(t)'
    <3>1. ThreadOK(t) /\ SpliceOK(t)
      BY DEF SharedIInv
    <3>2. Fetching(t) => Fetching(t)'
      BY <2>1, <2>2, <2>3 DEF Fetching, arrayVars, threadVars
    <3>3. Refilling(t) => Refilling(t)'
      BY <2>1, <2>2, <2>3 DEF Refilling, arrayVars, threadVars
    <3>4. ThreadOK(t)'
      BY <2>1, <2>2, <3>1 DEF ThreadOK, threadVars
    <3> QED BY <2>1, <3>1, <3>2, <3>3, <3>4 DEF SpliceOK, threadVars
  <2> QED BY <2>2, <2>4, <2>5 DEF SharedIInv
<1>2. CASE SharedNext
  <2>1. PICK t \in Routines :
          \/ Begin(t) \/ Step(t) \/ AtOnce(t) \/ ApplyDies(t)
          \/ FindsNoArray(t) \/ Cancelled(t)
    BY <1>2 DEF SharedNext
  <2>2. CASE ApplyDies(t) \/ FindsNoArray(t) \/ Cancelled(t)
    BY <2>2, EndStep DEF ApplyDies, FindsNoArray, Cancelled, Stops
  <2> QED BY <2>1, <2>2, BeginStep, CallStep, AtOnceStep
<1> QED BY <1>1, <1>2

\* What a routine's next native call rests on, and the array's nodes, hold in every
\* state: an index or a node that a call was made for is one.
THEOREM SharedCorrect == SharedSpec => []SharedIInv
<1>1. SharedInit => SharedIInv
  BY SharedStarts
<1>2. SharedIInv /\ [SharedNext]_sharedVars => SharedIInv'
  BY SharedGoes
<1> QED BY <1>1, <1>2, PTL DEF SharedSpec

\* A splice that no other routine's change came into leaves what Perl's would.
THEOREM SpliceExactAlways == SharedSpec => []SpliceExact
<1>1. SharedIInv => SpliceExact
  <2> SUFFICES ASSUME SharedIInv, NEW t \in Routines \ disturbed,
                      call[t] = "refill", todo[t] = <<>>
               PROVE  /\ Len(View) = Len(plan[t].want)
                      /\ \A i \in DOMAIN View :
                           /\ View[i] # Null
                           /\ plan[t].want[i] \in {Link(View[i]), Plain(value[View[i]])}
    BY DEF SpliceExact
  <2>1. ArrayOK /\ Refilling(t)
    BY DEF SharedIInv, SpliceOK
  <2>2. Nodes \subseteq Nat /\ array_size \in Nat
    BY <2>1 DEF ArrayOK, Nodes
  <2>3. Len(View) = array_size /\ DOMAIN View = 1 .. array_size
    BY <2>1, ViewIs
  <2>4. Len(plan[t].want) = array_size
    BY <2>1, <2>2 DEF Refilling
  <2> QED BY <2>1, <2>2, <2>3, <2>4, SharedAssumption DEF Refilling
<1> QED BY <1>1, SharedCorrect, PTL

\* Whatever the routines do to a shared array at once, each native call is one
\* operation of an array of links, or leaves it.
THEOREM SharedRefinement == SharedSpec => ImplementsShared
<1>1. SharedInit => Promise!Init
  BY SharedStarts
<1>2. SharedIInv /\ [SharedNext]_sharedVars => [Promise!Next]_(Promise!vars)
  BY SharedGoes
<1> QED BY <1>1, <1>2, SharedCorrect, PTL DEF SharedSpec, ImplementsShared, Promise!Spec
=============================================================================
