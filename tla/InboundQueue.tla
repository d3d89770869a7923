---------------------------- MODULE InboundQueue ----------------------------
(***************************************************************************)
(* A delayed queue and the future that reads it: InboundQueue and          *)
(* NextPacketDelivery (in-memory-network/src/network/inbound_queue.rs).    *)
(* Every link has one for the packets in transit, read in a loop by        *)
(* forward_packets_from_link_to_node, and every UDP endpoint has one for   *)
(* the packets delivered to it (with a delay of zero).                     *)
(*                                                                         *)
(* The reader's future is runnable, sleeps until an instant, or is         *)
(* registered with the queue to be woken by the next send.  The clock is   *)
(* the paused clock of a time-warped simulation: it advances only when no  *)
(* task can run.                                                           *)
(***************************************************************************)
EXTENDS Integers, FiniteSets

CONSTANTS Numbers,          \* packet numbers (assigned at the packet's source)
          MinDelay,         \* the delays a packet may be sent with are
          MaxDelay,         \*   MinDelay .. MaxDelay
          max_transmits,    \* how many packets a read may return
          Horizon,          \* bound: the last instant at which packets are sent
          MaxTime           \* bound: the last instant of a behaviour

ASSUME InboundQueueAssumption ==
  /\ Numbers \subseteq Int
  /\ MinDelay \in Nat /\ MaxDelay \in Nat /\ MinDelay <= MaxDelay
  /\ max_transmits \in Nat \ {0}
  /\ Horizon \in Nat /\ MaxTime \in Nat

VARIABLES now,      \* Instant::now()
          queue,    \* the heap, as a set
          fut,      \* the reader's future: [pc, until]
          unsent    \* numbers not used yet

vars == <<now, queue, fut, unsent>>

InTransit == [number : Numbers, sent : Nat, arrival : Nat]

TypeOK ==
  /\ now \in Nat
  /\ queue \in SUBSET InTransit
  /\ fut \in [pc : {"runnable", "sleeping", "registered"}, until : Nat]
  /\ unsent \in SUBSET Numbers

Runnable   == [pc |-> "runnable", until |-> 0]
Registered == [pc |-> "registered", until |-> 0]
Sleeping(t) == [pc |-> "sleeping", until |-> t]

Init ==
  /\ now = 0
  /\ queue = {}
  /\ fut = Runnable
  /\ unsent = Numbers

\* A bug: ties are broken before arrival times are compared.
NumberFirst(p, q) ==
  \/ p.number < q.number
  \/ p.number = q.number /\ p.arrival < q.arrival

\* The heap's order: arrival time, then packet number
Before(p, q) ==
  \/ p.arrival < q.arrival
  \/ p.arrival = q.arrival /\ p.number < q.number

\* A bug: a send wakes nobody.
SilentSend(n, d) ==
  /\ now <= Horizon
  /\ queue' = queue \union {[number |-> n, sent |-> now, arrival |-> now + d]}
  /\ unsent' = unsent \ {n}
  /\ UNCHANGED <<now, fut>>

\* InboundQueue::send wakes the readers registered in notify_new_transmits.  A
\* reader that sleeps has not registered.
Send(n, d) ==
  /\ now <= Horizon
  /\ queue' = queue \union {[number |-> n, sent |-> now, arrival |-> now + d]}
  /\ fut' = IF fut.pc = "registered" THEN Runnable ELSE fut
  /\ unsent' = unsent \ {n}
  /\ UNCHANGED now

\* The executor polls the future: it was woken, or its timer fired.
Polled ==
  \/ fut.pc = "runnable"
  \/ fut.pc = "sleeping" /\ now >= fut.until

Due == {p \in queue : p.arrival <= now}

\* A bug: the timer fires one tick late.
Oversleep ==
  /\ Polled
  /\ Due = {}
  /\ IF queue = {}
     THEN fut' = Registered
     ELSE \E p \in queue :
            /\ \A q \in queue \ {p} : Before(p, q)
            /\ fut' = Sleeping(p.arrival + 1)
  /\ UNCHANGED <<now, queue, unsent>>

\* NextPacketDelivery::poll with nothing to deliver: the future registers with
\* the empty queue, or sleeps until the first arrival
PollPending ==
  /\ Polled
  /\ Due = {}
  /\ IF queue = {}
     THEN fut' = Registered
     ELSE \E p \in queue :
            /\ \A q \in queue \ {p} : Before(p, q)
            /\ fut' = Sleeping(p.arrival)
  /\ UNCHANGED <<now, queue, unsent>>

\* NextPacketDelivery::poll with packets to deliver: as many as have arrived,
\* at most max_transmits, first arrivals first.  The reader loops and polls a
\* new future.
PollReady ==
  /\ Polled
  /\ \E D \in SUBSET Due \ {{}} :
       /\ Cardinality(D) <= max_transmits
       /\ D = Due \/ Cardinality(D) = max_transmits
       /\ \A p \in D, q \in queue \ D : Before(p, q)
       /\ queue' = queue \ D
  /\ fut' = Runnable
  /\ UNCHANGED <<now, unsent>>

\* The paused clock moves on when the reader cannot be polled.
Tick ==
  /\ now < MaxTime
  /\ ~Polled
  /\ now' = now + 1
  /\ UNCHANGED <<queue, fut, unsent>>

Next ==
  \/ \E n \in unsent, d \in MinDelay .. MaxDelay : Send(n, d)
  \/ PollPending
  \/ PollReady
  \/ Tick

Spec == Init /\ [][Next]_vars

\* The executor runs a woken task, and the clock moves on when all are asleep.
FairSpec == Spec /\ WF_vars(PollPending) /\ WF_vars(PollReady) /\ WF_vars(Tick)

----------------------------------------------------------------------------
\* No wake-up is lost: a reader that waits for a send (poll pushed its waker
\* to notify_new_transmits) has left nothing in the queue.
NoLostWakeup == fut.pc = "registered" => queue = {}

\* A packet is delivered when it arrives: it is not in the queue any more
\* after the delay it was sent with has passed.
DeliveredOnTime == \A p \in queue : now <= p.arrival

\* What holds when delays differ.  A reader that sleeps is not woken by a
\* packet that arrives before the one it waits for, so that packet is late,
\* by no more than the spread of the delays.
BoundedLateness == \A p \in queue : now <= p.arrival + (MaxDelay - MinDelay)

\* Packets sent with the same delay do not overtake each other, whatever
\* their numbers and in however many reads they are returned.
SameDelayFifo ==
  [][\A p \in queue \ queue', q \in queue' :
       p.arrival - p.sent = q.arrival - q.sent => p.sent <= q.sent]_vars

\* Every packet is delivered in the end.
EventuallyDelivered ==
  \A n \in Numbers :
    (\E p \in queue : p.number = n) ~> ~(\E p \in queue : p.number = n)

\* The inductive strengthening of NoLostWakeup and BoundedLateness: a sleeping
\* reader wakes up no later than MaxDelay after any packet was sent.
QueueInv ==
  /\ TypeOK
  /\ NoLostWakeup
  /\ BoundedLateness
  /\ \A p \in queue :
       /\ p.sent <= now
       /\ p.sent + MinDelay <= p.arrival
       /\ p.arrival <= p.sent + MaxDelay
  /\ fut.pc = "sleeping" =>
       /\ fut.until <= now + MaxDelay
       /\ \A p \in queue : fut.until <= p.sent + MaxDelay
=============================================================================
