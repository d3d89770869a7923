------------------------- MODULE InboundQueueProofs -------------------------
(***************************************************************************)
(* Proofs about the delayed queue, for every set of packet numbers, every  *)
(* range of delays and every read size.  QueueInv is inductive.            *)
(***************************************************************************)
EXTENDS InboundQueue, TLAPS

LEMMA QueueInit == Init => QueueInv
BY InboundQueueAssumption
   DEF Init, QueueInv, TypeOK, Runnable, NoLostWakeup, BoundedLateness

LEMMA QueueStep == QueueInv /\ [Next]_vars => QueueInv'
<1> SUFFICES ASSUME QueueInv, [Next]_vars PROVE QueueInv'
  OBVIOUS
<1> USE InboundQueueAssumption DEF QueueInv, TypeOK, NoLostWakeup, BoundedLateness
<1>1. ASSUME NEW n \in unsent, NEW d \in MinDelay .. MaxDelay, Send(n, d)
      PROVE  QueueInv'
  <2> DEFINE p == [number |-> n, sent |-> now, arrival |-> now + d]
  <2>1. /\ p \in InTransit
        /\ p.sent = now
        /\ p.arrival = now + d
    BY DEF InTransit
  <2>2. queue' = queue \union {p} /\ now' = now /\ unsent' = unsent \ {n}
    BY <1>1 DEF Send
  <2> HIDE DEF p
  <2>3. fut' \in [pc : {"runnable", "sleeping"}, until : Nat]
    BY <1>1 DEF Send, Runnable
  <2>4. TypeOK' /\ NoLostWakeup'
    BY <2>1, <2>2, <2>3
  <2>5. \A q \in queue' :
          /\ q.sent <= now
          /\ q.sent + MinDelay <= q.arrival
          /\ q.arrival <= q.sent + MaxDelay
    BY <2>1, <2>2
  <2>6. BoundedLateness'
    BY <2>1, <2>2
  <2>7. fut'.pc = "sleeping" =>
          /\ fut'.until <= now + MaxDelay
          /\ \A q \in queue' : fut'.until <= q.sent + MaxDelay
    BY <1>1, <2>1, <2>2 DEF Send, Runnable
  <2> QED
    BY <2>2, <2>4, <2>5, <2>6, <2>7
<1>2. CASE PollPending
  <2>1. UNCHANGED <<now, queue, unsent>>
    BY <1>2 DEF PollPending
  <2>2. CASE queue = {}
    BY <1>2, <2>1, <2>2 DEF PollPending, Registered
  <2>3. CASE queue # {}
    <3>1. PICK p \in queue : /\ \A q \in queue \ {p} : Before(p, q)
                             /\ fut' = Sleeping(p.arrival)
      BY <1>2, <2>3 DEF PollPending
    <3>2. /\ p \in InTransit /\ p.arrival \in Nat /\ p.sent \in Nat
          /\ fut'.pc = "sleeping" /\ fut'.until = p.arrival
          /\ fut' \in [pc : {"runnable", "sleeping", "registered"}, until : Nat]
      BY <3>1 DEF Sleeping, InTransit
    <3>3. \A q \in queue : p.arrival <= q.arrival
      BY <3>1, <3>2 DEF Before, InTransit
    <3>4. \A q \in queue : q.sent \in Nat /\ q.arrival \in Nat
      BY DEF InTransit
    <3>5. /\ p.arrival <= now + MaxDelay
          /\ \A q \in queue : p.arrival <= q.sent + MaxDelay
      BY <3>2, <3>3, <3>4
    <3> QED
      BY <2>1, <3>2, <3>5
  <2> QED
    BY <2>2, <2>3
<1>3. CASE PollReady
  <2>1. queue' \subseteq queue /\ fut' = Runnable /\ UNCHANGED <<now, unsent>>
    BY <1>3 DEF PollReady
  <2> QED
    BY <2>1 DEF Runnable
<1>4. CASE Tick
  <2>1. now' = now + 1 /\ UNCHANGED <<queue, fut, unsent>>
    BY <1>4 DEF Tick
  <2>2. fut.pc = "registered" \/ (fut.pc = "sleeping" /\ now < fut.until)
    BY <1>4 DEF Tick, Polled
  <2>3. \A p \in queue : p.sent \in Nat /\ p.arrival \in Nat
    BY DEF InTransit
  <2>4. BoundedLateness'
    BY <2>1, <2>2, <2>3
  <2> QED
    BY <2>1, <2>3, <2>4
<1>5. CASE UNCHANGED vars
  BY <1>5 DEF vars
<1> QED
  BY <1>1, <1>2, <1>3, <1>4, <1>5 DEF Next

LEMMA QueueInvariant == Spec => []QueueInv
BY QueueInit, QueueStep, PTL DEF Spec

\* A reader that waits to be woken by a send left nothing in the queue.
THEOREM WakeupsNotLost == Spec => []NoLostWakeup
<1>1. QueueInv => NoLostWakeup
  BY DEF QueueInv
<1> QED
  BY <1>1, QueueInvariant, PTL

\* A packet is late by at most the spread of the delays it could have had.
THEOREM LatenessBounded == Spec => []BoundedLateness
<1>1. QueueInv => BoundedLateness
  BY DEF QueueInv
<1> QED
  BY <1>1, QueueInvariant, PTL

\* On a link with one delay for all packets, delivery is never late.
THEOREM UniformDelayOnTime ==
  ASSUME MinDelay = MaxDelay
  PROVE  Spec => []DeliveredOnTime
<1>1. QueueInv => DeliveredOnTime
  BY InboundQueueAssumption
     DEF QueueInv, BoundedLateness, DeliveredOnTime, TypeOK, InTransit
<1> QED
  BY <1>1, QueueInvariant, PTL

\* Whatever the sizes of the reads, the numbers of the packets and the times at
\* which the reader wakes up, packets with the same delay stay in order.
THEOREM SameDelayInOrder == Spec => SameDelayFifo
<1>1. ASSUME QueueInv, [Next]_vars, NEW p \in queue \ queue', NEW q \in queue',
             p.arrival - p.sent = q.arrival - q.sent
      PROVE  p.sent <= q.sent
  <2>1. CASE PollReady
    <3>1. PICK D \in SUBSET Due \ {{}} :
            (\A r \in D, s \in queue \ D : Before(r, s)) /\ queue' = queue \ D
      BY <2>1 DEF PollReady
    <3>2. Before(p, q) /\ p \in queue /\ q \in queue
      BY <3>1
    <3>3. p.arrival \in Nat /\ p.sent \in Nat /\ q.arrival \in Nat /\ q.sent \in Nat
      <4>1. p \in InTransit /\ q \in InTransit
        BY <1>1, <3>2 DEF QueueInv, TypeOK
      <4> QED
        BY <4>1 DEF InTransit
    <3>4. p.arrival <= q.arrival
      BY <3>2, <3>3 DEF Before
    <3>5. p.arrival - p.sent = q.arrival - q.sent
      BY <1>1
    <3> QED
      BY <3>3, <3>4, <3>5
  <2>2. CASE ~PollReady
    BY <1>1, <2>2 DEF Next, Send, PollPending, Tick, vars
  <2> QED
    BY <2>1, <2>2
<1>2. QueueInv /\ [Next]_vars =>
        [\A p \in queue \ queue', q \in queue' :
           p.arrival - p.sent = q.arrival - q.sent => p.sent <= q.sent]_vars
  BY <1>1
<1> QED
  BY <1>2, QueueInvariant, PTL DEF Spec, SameDelayFifo
=============================================================================
