--------------------------- MODULE NetworkProofs ---------------------------
(***************************************************************************)
(* Proofs about the network, for every topology, every set of routes,      *)
(* every schedule of network events and all traffic.  The inductive        *)
(* invariants are NetworkInv and, for the places of packets, CopyInv.      *)
(***************************************************************************)
EXTENDS NetworkJourneys, FiniteSetTheorems, SequenceTheorems, TLAPS

\* What the queries and updates of a batch return, once it is not in the
\* future: Refresh empties exactly the batches that got sent, TrackSend adds
\* the packet to what is left.
LEMMA BatchUpdates ==
  ASSUME NEW b \in Batch, NEW t \in Nat, NEW d \in Nat, b.created <= t
  PROVE  /\ Refresh(b, t) \in Batch
         /\ Refresh(b, t) = b \/ Refresh(b, t).delay = 0
         /\ Refresh(b, t).created <= t
         /\ t <= SentAt(Refresh(b, t))
         /\ SentAt(b) <= SentAt(Refresh(b, t))
         /\ Refresh(b, t).delay = 0 => Refresh(b, t).created = t
         /\ TrackSend(b, t, d) \in Batch
         /\ TrackSend(b, t, d).created = Refresh(b, t).created
         /\ TrackSend(b, t, d).delay = Refresh(b, t).delay + d
         /\ DurationUntilCanSend(b, t, d) \in Nat
BY DEF Batch, Refresh, NewBatch, SentAt, TrackSend, DurationUntilCanSend

LEMMA PacketDelayType ==
  ASSUME NEW p \in Packet
  PROVE  packet_delay(p) \in Nat
BY NetworkAssumption DEF packet_delay, Packet

\* Positions of a route can be counted.
LEMMA CountType ==
  ASSUME NEW route \in Seq(Links), NEW P, P \subseteq 1 .. Len(route)
  PROVE  Cardinality(P) \in 0 .. Len(route)
<1>1. Len(route) \in Nat
  BY LenProperties
<1>2. IsFiniteSet(1 .. Len(route)) /\ Cardinality(1 .. Len(route)) = Len(route)
  <2>1. \A a, b \in Int : /\ IsFiniteSet(a .. b)
                         /\ Cardinality(a .. b) = IF a > b THEN 0 ELSE b - a + 1
    BY FS_Interval
  <2>2. /\ 1 \in Int /\ Len(route) \in Int
        /\ (IF 1 > Len(route) THEN 0 ELSE Len(route) - 1 + 1) = Len(route)
    BY <1>1
  <2> QED
    BY <2>1, <2>2
<1>3. IsFiniteSet(P) /\ Cardinality(P) <= Len(route)
  BY <1>2, FS_Subset
<1> QED
  BY <1>1, <1>3, FS_CardinalityType

LEMMA TimesType ==
  ASSUME NEW route \in Seq(Links), NEW l
  PROVE  Times(route, l) \in Nat
<1>1. Times(route, l) \in 0 .. Len(route)
  BY CountType DEF Times
<1> QED
  BY <1>1, LenProperties

LEMMA BeforeType ==
  ASSUME NEW route \in Seq(Links), NEW S
  PROVE  Before(route, S) \in 0 .. Len(route)
BY CountType DEF Before

LEMMA ReachableType ==
  ASSUME NEW route \in Seq(Links)
  PROVE  Reachable(route) \in Seq(Links)
<1> DEFINE k == Before(route, {l \in Links : <<"link", l>> \in crashed})
<1>1. k \in 0 .. Len(route) /\ Len(route) \in Nat
  BY BeforeType, LenProperties
<1> HIDE DEF k
<1>2. \A i \in 1 .. k : route[i] \in Links
  BY <1>1, ElementOfSeq
<1>3. SubSeq(route, 1, k) \in Seq(Links)
  BY <1>1, <1>2, SubSeqProperties
<1> QED
  BY <1>3 DEF Reachable, k

\* The same entry, repeated
LEMMA RepeatType ==
  ASSUME NEW S, NEW b \in S, NEW k \in Nat
  PROVE  [i \in 1 .. k |-> b] \in Seq(S)
BY SMT

\* A queue that grows keeps its head.
LEMMA HeadOfConcat ==
  ASSUME NEW S, NEW s \in Seq(S), NEW t \in Seq(S), s # <<>>
  PROVE  s \o t # <<>> /\ Head(s \o t) = Head(s)
BY SMT

----------------------------------------------------------------------------
LEMMA NetworkInit == Init => NetworkInv
BY NetworkAssumption
   DEF Init, NetworkInv, TypeOK, LossVerdictSound, LossVerdictComplete, Fates, Pcs,
       Batch, NewBatch, Idle, NoTime, Ids, was_down_after

\* What forward() may touch keeps its type: in particular a reservation never
\* takes more than what is available.
LEMMA EnqueueType ==
  ASSUME TypeOK, NEW n \in Nodes, NEW caller \in Tasks,
         NEW copies \in Seq(Packet), Len(copies) \in {1, 2},
         Len(copies) = 2 => copies[2].size = copies[1].size,
         enqueue_outbound(n, copies, caller)
  PROVE  /\ fate' \in [Ids -> Fates]
         /\ crashed' \in SUBSET Tasks
         /\ available_capacity' \in [Nodes -> Nat]
         /\ outbound' \in [Nodes -> Seq(Buffered)]
<1> DEFINE size   == copies[1].size
           fit    == Fits(n, size, Len(copies))
           stored == [i \in 1 .. fit |-> [pkt |-> copies[i], since |-> now]]
<1>1. copies[1] \in Packet /\ size \in Nat /\ copies[1].id \in Ids
  <2>1. 1 \in 1 .. Len(copies)
    OBVIOUS
  <2>2. copies[1] \in Packet
    BY <2>1, ElementOfSeq
  <2> QED
    BY <2>2 DEF Packet
<1>2. fit \in 0 .. Len(copies) /\ available_capacity[n] - fit * size \in Nat
  <2>1. \/ fit = 0
        \/ fit = 1 /\ available_capacity[n] >= size
        \/ fit = 2 /\ Len(copies) = 2 /\ available_capacity[n] >= 2 * size
    BY <1>1 DEF Fits, TypeOK
  <2> HIDE DEF fit
  <2>2. 0 * size = 0 /\ 1 * size = size
    BY <1>1
  <2> QED
    BY <1>1, <2>1, <2>2, SMTT(30) DEF TypeOK
<1>3. fit > 0 => available_capacity[n] - size \in Nat
  BY <1>1 DEF Fits, TypeOK
<1> HIDE DEF fit
<1>4. \A i \in 1 .. fit : copies[i] \in Packet
  BY <1>2, ElementOfSeq
<1>5. stored \in Seq(Buffered)
  BY <1>2, <1>4 DEF TypeOK, Buffered
<1> HIDE DEF stored
<1>6. outbound[n] \o stored \in Seq(Buffered)
  BY <1>5, ConcatProperties DEF TypeOK
<1>7. CASE <<"buffer", n>> \notin crashed \/ fit = 0
  <2>1. outbound' = [outbound EXCEPT ![n] = @ \o stored]
    BY <1>7, <1>2 DEF enqueue_outbound, stored, fit
  <2>2. available_capacity' = [available_capacity EXCEPT ![n] = @ - fit * size]
    BY <1>7, <1>2 DEF enqueue_outbound, fit
  <2>3. fate' \in [Ids -> Fates] /\ crashed' = crashed
    <3> DEFINE kept == {copies[i].id : i \in 1 .. fit}
               all  == {copies[i].id : i \in 1 .. Len(copies)}
    <3>0. ~(<<"buffer", n>> \in crashed /\ fit > 0)
      BY <1>2, <1>7
    <3>1. /\ fate' = [i \in Ids |-> IF i \in kept THEN "live"
                                   ELSE IF i \in all THEN "buffer_full" ELSE fate[i]]
          /\ crashed' = crashed
      BY <3>0, Zenon DEF enqueue_outbound, fit
    <3> QED
      BY <3>1 DEF TypeOK, Fates
  <2> QED
    BY <1>2, <1>6, <2>1, <2>2, <2>3 DEF TypeOK
<1>8. CASE <<"buffer", n>> \in crashed /\ fit > 0
  <2>1. /\ outbound' = outbound
        /\ available_capacity' = [available_capacity EXCEPT ![n] = @ - size]
        /\ fate' = [fate EXCEPT ![copies[1].id] = "stranded"]
        /\ crashed' = crashed \union {caller}
    BY <1>8 DEF enqueue_outbound, fit
  <2> QED
    BY <1>1, <1>3, <1>8, <2>1 DEF TypeOK, Fates
<1> QED
  BY <1>2, <1>7, <1>8

LEMMA ForwardType ==
  ASSUME TypeOK, NEW n \in Nodes, NEW p \in Packet, NEW caller \in Tasks,
         NEW fresh \in Nat \ {0}, forward(n, p, caller, fresh)
  PROVE  /\ fate' \in [Ids -> Fates]
         /\ nextId' \in Nat \ {0}
         /\ crashed' \in SUBSET Tasks
         /\ available_capacity' \in [Nodes -> Nat]
         /\ outbound' \in [Nodes -> Seq(Buffered)]
<1> DEFINE hop  == [p EXCEPT !.ttl = @ - 1]
           copy == [hop EXCEPT !.id = fresh]
<1>1. ASSUME NEW why \in Fates, End(p, why, fresh)
      PROVE  /\ fate' \in [Ids -> Fates] /\ nextId' \in Nat \ {0}
             /\ UNCHANGED <<crashed, available_capacity, outbound>>
  BY <1>1 DEF End, TypeOK, Packet
<1>2. p.ttl > 1 => hop \in Packet
  BY DEF Packet
<1>3. p.ttl > 1 /\ fresh \in Ids => copy \in Packet /\ copy.size = hop.size
  BY <1>2 DEF Packet
<1> HIDE DEF hop, copy
<1>4. CASE /\ p.ttl > 1
           /\ enqueue_outbound(n, <<hop>>, caller)
           /\ nextId' = fresh
  <2>1. <<hop>> \in Seq(Packet) /\ Len(<<hop>>) = 1
    BY <1>2, <1>4
  <2> QED
    BY <1>4, <2>1, EnqueueType
<1>5. CASE /\ p.ttl > 1 /\ fresh \in Ids
           /\ enqueue_outbound(n, <<hop, copy>>, caller)
           /\ nextId' = fresh + 1
  <2>1. /\ <<hop, copy>> \in Seq(Packet) /\ Len(<<hop, copy>>) = 2
        /\ <<hop, copy>>[2].size = <<hop, copy>>[1].size
    BY <1>2, <1>3, <1>5
  <2>2. nextId' \in Nat \ {0}
    BY <1>5
  <2> QED
    BY <1>5, <2>1, <2>2, EnqueueType
<1>6. \/ \E why \in Fates : End(p, why, fresh)
      \/ p.ttl > 1 /\ enqueue_outbound(n, <<hop>>, caller) /\ nextId' = fresh
      \/ /\ p.ttl > 1 /\ fresh \in Ids
         /\ enqueue_outbound(n, <<hop, copy>>, caller) /\ nextId' = fresh + 1
  BY Zenon DEF forward, Fates, hop, copy
<1>7. CASE \E why \in Fates : End(p, why, fresh)
  BY <1>1, <1>7 DEF TypeOK
<1> QED
  BY <1>4, <1>5, <1>6, <1>7

\* Everything but the types depends on the clock and the links only.
LEMMA LinksUntouched ==
  ASSUME NetworkInv, TypeOK', UNCHANGED <<now, linkUp, last_down, batch, outgoing, task, in_transit>>
  PROVE  NetworkInv'
BY DEF NetworkInv, LossVerdictSound, LossVerdictComplete, GrantCovers, was_down_after,
       Current, packet_delay

LEMMA SendUdpKeeps ==
  ASSUME NetworkInv, NEW f \in Flows, send_udp(f)
  PROVE  NetworkInv'
<1> DEFINE p == [id |-> nextId, number |-> nextId, to |-> f.to, size |-> f.size,
                 ecn |-> f.ecn, ttl |-> DEFAULT_TTL]
<1>1. f.from \in Nodes /\ f.to \in Nodes /\ f.size \in Nat /\ f.ecn \in Ecn
  BY NetworkAssumption DEF Ecn
<1>2. p \in Packet
  BY <1>1, NetworkAssumption DEF send_udp, Packet
<1>3. <<"app", f.from>> \in Tasks
  BY <1>1 DEF Tasks
<1>4. TypeOK /\ nextId + 1 \in Nat \ {0}
  BY DEF NetworkInv, TypeOK
<1>5. forward(f.from, p, <<"app", f.from>>, nextId + 1)
  BY DEF send_udp
<1> HIDE DEF p
<1>6. /\ fate' \in [Ids -> Fates]
      /\ nextId' \in Nat \ {0}
      /\ crashed' \in SUBSET Tasks
      /\ available_capacity' \in [Nodes -> Nat]
      /\ outbound' \in [Nodes -> Seq(Buffered)]
  BY <1>1, <1>2, <1>3, <1>4, <1>5, ForwardType
<1>7. UNCHANGED <<now, events, nodeUp, last_buffer_clear, linkVars, handled>>
  BY DEF send_udp
<1>8. TypeOK'
  BY <1>4, <1>6, <1>7 DEF TypeOK, linkVars
<1> QED
  BY <1>7, <1>8, LinksUntouched DEF linkVars

LEMMA ProcessBufferKeeps ==
  ASSUME NetworkInv, NEW n \in Nodes, process_buffer(n)
  PROVE  NetworkInv'
<1> DEFINE b     == Head(outbound[n])
           route == Routes[n][b.pkt.to]
           offer == Reachable(route)
           more(l) == [i \in 1 .. Times(offer, l) |-> b]
<1>1. TypeOK
  BY DEF NetworkInv
<1>2. /\ outbound[n] \in Seq(Buffered) /\ outbound[n] # <<>>
      /\ b \in Buffered /\ Tail(outbound[n]) \in Seq(Buffered)
  BY <1>1, HeadTailProperties DEF TypeOK, process_buffer
<1>3. b.pkt \in Packet /\ b.pkt.to \in Nodes /\ b.pkt.id \in Ids
  BY <1>2 DEF Buffered, Packet
<1>4. route \in Seq(Links)
  BY <1>3, NetworkAssumption
<1>5. offer \in Seq(Links)
  BY <1>4, ReachableType
<1> HIDE DEF offer, b
<1>6. \A l \in Links : more(l) \in Seq(Buffered)
  BY <1>2, <1>5, TimesType, RepeatType
<1>7. outgoing' = [l \in Links |-> outgoing[l] \o more(l)]
  BY DEF process_buffer, b, offer
<1> HIDE DEF more
<1>8. \A l \in Links : /\ outgoing'[l] \in Seq(Buffered)
                       /\ outgoing[l] # <<>> => outgoing'[l] # <<>> /\ Head(outgoing'[l]) = Head(outgoing[l])
  BY <1>1, <1>6, <1>7, ConcatProperties, HeadOfConcat DEF TypeOK
<1>9. /\ outbound' \in [Nodes -> Seq(Buffered)]
      /\ fate' \in [Ids -> Fates]
      /\ crashed' \in SUBSET Tasks
  <2>1. \/ outbound' = [outbound EXCEPT ![n] = Tail(@)] /\ UNCHANGED <<fate, crashed>>
        \/ /\ outbound' = [outbound EXCEPT ![n] = <<>>]
           /\ crashed' = crashed \union {<<"buffer", n>>}
           /\ fate' = [fate EXCEPT ![b.pkt.id] = "stranded"] \/ fate' = fate
    BY Zenon DEF process_buffer, b
  <2>2. <<"buffer", n>> \in Tasks /\ <<>> \in Seq(Buffered)
    BY DEF Tasks
  <2> QED
    BY <1>1, <1>2, <1>3, <2>1, <2>2 DEF TypeOK, Fates
<1>10. UNCHANGED <<now, events, nextId, nodeUp, last_buffer_clear, available_capacity,
                   linkUp, last_down, delay, batch, task, in_transit, wakeup, handled>>
  BY DEF process_buffer
<1>11. outgoing' \in [Links -> Seq(Buffered)]
  BY <1>7, <1>8
<1>12. TypeOK'
  BY <1>1, <1>9, <1>10, <1>11 DEF TypeOK
<1> QED
  BY <1>8, <1>10, <1>12
     DEF NetworkInv, LossVerdictSound, LossVerdictComplete, GrantCovers, was_down_after,
         Current, packet_delay

----------------------------------------------------------------------------
(* The steps of a link's task *)

\* A step of link l's task touches no other link, sends at this instant if it
\* sends, and leaves a grant that holds.
LEMMA LinkStepKeeps ==
  ASSUME NetworkInv, TypeOK', NEW l \in Links, UNCHANGED others,
         \A k \in Links \ {l} : /\ batch'[k] = batch[k] /\ task'[k] = task[k]
                                /\ outgoing'[k] = outgoing[k]
                                /\ in_transit'[k] = in_transit[k],
         batch'[l].created <= now,
         task'[l].pc # "idle" => outgoing'[l] # <<>> /\ GrantCovers(l)',
         \A r \in in_transit'[l] : r \in in_transit[l] \/ (r.sent = now /\ ~r.cut)
  PROVE  NetworkInv'
<1>1. now' = now /\ last_down' = last_down
  BY DEF others
<1>2. \A k \in Links \ {l} : GrantCovers(k)' = GrantCovers(k)
  BY <1>1 DEF GrantCovers, Current, packet_delay
<1>3. \A k \in Links : /\ last_down'[k] <= now'
                       /\ batch'[k].created <= now'
                       /\ task'[k].pc # "idle" => outgoing'[k] # <<>> /\ GrantCovers(k)'
  BY <1>1, <1>2 DEF NetworkInv
<1>4. \A k \in Links : \A r \in in_transit'[k] :
        \/ r \in in_transit[k]
        \/ r.sent = now /\ ~r.cut /\ last_down[k] <= now
  BY DEF NetworkInv
<1>5. /\ now \in Int
      /\ \A k \in Links : /\ last_down[k] \in Int
                          /\ \A r \in in_transit[k] :
                               /\ r.sent <= now
                               /\ last_down[k] > r.sent => r.cut
                               /\ r.cut => last_down[k] > r.sent \/ last_down[k] = r.sent
  <2>1. now \in Int /\ \A k \in Links : last_down[k] \in Int
    BY DEF NetworkInv, TypeOK, NoTime
  <2> QED
    BY <2>1 DEF NetworkInv, LossVerdictSound, LossVerdictComplete, was_down_after
<1>6. \A k \in Links : \A r \in in_transit'[k] : r.sent <= now'
  BY <1>1, <1>4, <1>5
<1>7. LossVerdictSound' /\ LossVerdictComplete'
  BY <1>1, <1>4, <1>5 DEF LossVerdictSound, LossVerdictComplete, was_down_after
<1> QED
  BY <1>3, <1>6, <1>7 DEF NetworkInv

\* What is known of the packet a link's task works on
LEMMA CurrentType ==
  ASSUME TypeOK, NEW l \in Links, outgoing[l] # <<>>
  PROVE  /\ Current(l) \in Buffered
         /\ Current(l).pkt \in Packet
         /\ Tail(outgoing[l]) \in Seq(Buffered)
         /\ Source[l] \in Nodes
         /\ Ahead(l) \in Nat
<1>1. /\ Current(l) \in Buffered /\ Tail(outgoing[l]) \in Seq(Buffered)
  BY HeadTailProperties DEF TypeOK, Current
<1>2. Current(l).pkt \in Packet /\ Current(l).pkt.to \in Nodes /\ Source[l] \in Nodes
  BY <1>1, NetworkAssumption DEF Buffered, Packet
<1> DEFINE route == Routes[Source[l]][Current(l).pkt.to]
<1>3. route \in Seq(Links)
  BY <1>2, NetworkAssumption
<1>4. Ahead(l) \in 0 .. Len(route) /\ Len(route) \in Nat
  BY <1>3, BeforeType, LenProperties DEF Ahead
<1> QED
  BY <1>1, <1>2, <1>4

LEMMA ParkKeeps ==
  ASSUME NetworkInv, NEW l \in Links, UNCHANGED others, outgoing[l] # <<>>,
         NEW pc \in Pcs, NEW wake \in Nat, NEW ahead \in Nat,
         NEW b \in Batch, b.created <= now,
         \/ b.delay = 0
         \/ b.delay + packet_delay(Current(l).pkt) < BATCH_MAX_DELAY
         \/ SentAt(b) <= IF pc = "bandwidth" THEN wake ELSE now,
         Park(l, pc, wake, ahead, b)
  PROVE  NetworkInv'
<1>1. TypeOK'
  BY DEF NetworkInv, TypeOK, Park, others
<1>2. /\ task'[l] = [pc |-> pc, wake |-> wake, ahead |-> ahead]
      /\ batch'[l] = b
      /\ outgoing' = outgoing /\ in_transit' = in_transit /\ now' = now
  BY DEF NetworkInv, TypeOK, Park, others
<1>3. GrantCovers(l)'
  BY <1>2 DEF GrantCovers, Current, packet_delay
<1>4. \A k \in Links \ {l} : batch'[k] = batch[k] /\ task'[k] = task[k]
  BY DEF NetworkInv, TypeOK, Park
<1> QED
  BY <1>1, <1>2, <1>3, <1>4, LinkStepKeeps

LEMMA SkipKeeps ==
  ASSUME NetworkInv, NEW l \in Links, UNCHANGED others, outgoing[l] # <<>>,
         NEW b \in Batch, b.created <= now, Skip(l, b)
  PROVE  NetworkInv'
<1>1. TypeOK'
  BY CurrentType DEF NetworkInv, TypeOK, Skip, others, Idle, Pcs
<1>2. task'[l].pc = "idle" /\ batch'[l] = b /\ in_transit' = in_transit
  BY DEF NetworkInv, TypeOK, Skip, Idle
<1>3. \A k \in Links \ {l} : /\ batch'[k] = batch[k] /\ task'[k] = task[k]
                              /\ outgoing'[k] = outgoing[k]
  BY DEF NetworkInv, TypeOK, Skip
<1> QED
  BY <1>1, <1>2, <1>3, LinkStepKeeps

\* A claimed packet is dropped or sent, or the task panics; in any case the
\* task is done with it.
LEMMA ClaimKeeps ==
  ASSUME NetworkInv, NEW l \in Links, UNCHANGED others, outgoing[l] # <<>>,
         NEW b \in Batch, b.created <= now, Claim(l, b)
  PROVE  NetworkInv'
<1> DEFINE o == Current(l)
<1>1. TypeOK /\ batch[l].created <= now /\ batch[l] \in Batch /\ now \in Nat
  BY DEF NetworkInv, TypeOK
<1>2. /\ o \in Buffered /\ o.pkt \in Packet /\ Tail(outgoing[l]) \in Seq(Buffered)
      /\ Source[l] \in Nodes /\ packet_delay(o.pkt) \in Nat
  BY <1>1, CurrentType, PacketDelayType
<1> HIDE DEF o
<1>3. handled' = handled \union {Key(o.pkt)} /\ Key(o.pkt) \in Ids \X Nat
  BY <1>2 DEF Claim, Key, Packet, o
<1>4. handled' \in SUBSET (Ids \X Nat)
  BY <1>1, <1>3 DEF TypeOK
<1>5. CASE DropCleared(l, b)
  <2>1. TypeOK'
    BY <1>1, <1>2, <1>4, <1>5
       DEF TypeOK, DropCleared, others, Idle, Pcs, Fates, Packet, o
  <2>2. task'[l].pc = "idle" /\ batch'[l] = b /\ in_transit' = in_transit
    BY <1>1, <1>5 DEF TypeOK, DropCleared, Idle
  <2>3. \A k \in Links \ {l} : /\ batch'[k] = batch[k] /\ task'[k] = task[k]
                                /\ outgoing'[k] = outgoing[k]
    BY <1>1, <1>5 DEF TypeOK, DropCleared
  <2> QED
    BY <2>1, <2>2, <2>3, LinkStepKeeps
<1>6. CASE Panic(l, b)
  <2>0. <<"link", l>> \in Tasks /\ <<>> \in Seq(Buffered)
    BY DEF Tasks
  <2>1. TypeOK'
    BY <1>1, <1>2, <1>4, <1>6, <2>0
       DEF TypeOK, Panic, others, Idle, Pcs, Fates, Packet, o
  <2>2. task'[l].pc = "idle" /\ batch'[l] = b /\ in_transit' = in_transit
    BY <1>1, <1>6 DEF TypeOK, Panic, Idle
  <2>3. \A k \in Links \ {l} : /\ batch'[k] = batch[k] /\ task'[k] = task[k]
                                /\ outgoing'[k] = outgoing[k]
    BY <1>1, <1>6 DEF TypeOK, Panic
  <2> QED
    BY <2>1, <2>2, <2>3, LinkStepKeeps
<1>7. ASSUME NEW extra \in ExtraDelays[l], NEW ce \in BOOLEAN, send(l, extra, ce),
             task' = [task EXCEPT ![l] = Idle],
             outgoing' = [outgoing EXCEPT ![l] = Tail(@)],
             UNCHANGED <<fate, crashed>>
      PROVE  NetworkInv'
  <2> DEFINE p == IF ce THEN [o.pkt EXCEPT !.ecn = "ce"] ELSE o.pkt
             r == [pkt |-> p, sent |-> now, arrival |-> now + delay[l] + extra, cut |-> FALSE]
             t == TrackSend(batch[l], now, packet_delay(o.pkt))
  <2>1. p \in Packet /\ extra \in Nat
    BY <1>2, NetworkAssumption DEF Packet, Ecn
  <2> HIDE DEF p
  <2>2. r \in Transit /\ r.sent = now /\ ~r.cut
    BY <1>1, <2>1 DEF Transit, TypeOK
  <2> HIDE DEF r
  <2>3. t \in Batch /\ t.created <= now
    BY <1>1, <1>2, BatchUpdates
  <2> HIDE DEF t
  <2>4. /\ batch' = [batch EXCEPT ![l] = t]
        /\ in_transit' = [in_transit EXCEPT ![l] = @ \union {r}]
    BY <1>7 DEF send, t, r, p, o
  <2>5. available_capacity' = [available_capacity EXCEPT ![Source[l]] = @ + o.pkt.size]
    BY <1>7 DEF send, o
  <2>6. available_capacity' \in [Nodes -> Nat]
    BY <1>1, <1>2, <2>5, SMTT(30) DEF TypeOK, Packet
  <2>7. TypeOK'
    BY <1>1, <1>2, <1>4, <1>7, <2>2, <2>3, <2>4, <2>6 DEF TypeOK, others, Idle, Pcs
  <2>8. task'[l].pc = "idle" /\ batch'[l] = t /\ in_transit'[l] = in_transit[l] \union {r}
    BY <1>1, <1>7, <2>4 DEF TypeOK, Idle
  <2>9. \A k \in Links \ {l} : /\ batch'[k] = batch[k] /\ task'[k] = task[k]
                                /\ outgoing'[k] = outgoing[k]
                                /\ in_transit'[k] = in_transit[k]
    BY <1>1, <1>7, <2>4 DEF TypeOK
  <2> QED
    BY <2>2, <2>3, <2>7, <2>8, <2>9, LinkStepKeeps
<1> QED
  BY <1>5, <1>6, <1>7 DEF Claim, Marks

LEMMA ProceedKeeps ==
  ASSUME NetworkInv, NEW l \in Links, UNCHANGED others, outgoing[l] # <<>>,
         NEW ahead \in Nat, NEW b \in Batch, b.created <= now,
         \/ already_handled(l)
         \/ b.delay = 0
         \/ b.delay + packet_delay(Current(l).pkt) < BATCH_MAX_DELAY
         \/ SentAt(b) <= now,
         Proceed(l, ahead, b)
  PROVE  NetworkInv'
<1>1. CASE already_handled(l) /\ Skip(l, b)
  BY <1>1, SkipKeeps
<1>2. CASE ~already_handled(l) /\ ahead > 0 /\ Park(l, "yield", 0, ahead - 1, b)
  <2>1. "yield" \in Pcs /\ "yield" # "bandwidth" /\ 0 \in Nat /\ ahead - 1 \in Nat
    BY <1>2 DEF Pcs
  <2> QED
    BY <1>2, <2>1, ParkKeeps
<1>3. CASE ~already_handled(l) /\ ahead = 0 /\ Claim(l, b)
  BY <1>3, ClaimKeeps
<1> QED
  BY <1>1, <1>2, <1>3 DEF Proceed

\* A task that is past its sleep for bandwidth holds a grant.
LEMMA WaitingTask ==
  ASSUME NetworkInv, NEW l \in Links, task[l].pc # "idle",
         task[l].pc = "bandwidth" => now >= task[l].wake
  PROVE  /\ outgoing[l] # <<>>
         /\ batch[l] \in Batch /\ batch[l].created <= now
         /\ \/ batch[l].delay = 0
            \/ batch[l].delay + packet_delay(Current(l).pkt) < BATCH_MAX_DELAY
            \/ SentAt(batch[l]) <= now
<1>1. /\ outgoing[l] # <<>> /\ GrantCovers(l)
      /\ batch[l] \in Batch /\ batch[l].created <= now
  BY DEF NetworkInv, TypeOK
<1>2. task[l].wake \in Nat /\ now \in Nat /\ SentAt(batch[l]) \in Nat
  BY <1>1 DEF NetworkInv, TypeOK, Batch, SentAt
<1> QED
  BY <1>1, <1>2 DEF GrantCovers

\* Waiting for the link or the node changes nothing about the grant.
LEMMA WaitKeeps ==
  ASSUME NetworkInv, NEW l \in Links, UNCHANGED others, task[l].pc # "idle",
         task[l].pc = "bandwidth" => now >= task[l].wake,
         NEW pc \in {"link", "node"}, Park(l, pc, 0, 0, batch[l])
  PROVE  NetworkInv'
<1>1. pc \in Pcs /\ pc # "bandwidth" /\ 0 \in Nat
  BY DEF Pcs
<1> QED
  BY <1>1, WaitingTask, ParkKeeps

LEMMA ResumeKeeps ==
  ASSUME NetworkInv, NEW l \in Links, UNCHANGED others, task[l].pc # "idle",
         task[l].pc = "bandwidth" => now >= task[l].wake,
         NEW ahead \in Nat, Proceed(l, ahead, batch[l])
  PROVE  NetworkInv'
BY WaitingTask, ProceedKeeps

LEMMA AwaitNodeKeeps ==
  ASSUME NetworkInv, NEW l \in Links, UNCHANGED others, task[l].pc # "idle",
         task[l].pc = "bandwidth" => now >= task[l].wake,
         AwaitNode(l)
  PROVE  NetworkInv'
<1>1. Ahead(l) \in Nat
  BY WaitingTask, CurrentType DEF NetworkInv
<1> QED
  BY <1>1, WaitKeeps, ResumeKeeps DEF AwaitNode

LEMMA TakeNextKeeps ==
  ASSUME NetworkInv, NEW l \in Links, TakeNext(l)
  PROVE  NetworkInv'
<1> DEFINE b == Refresh(batch[l], now)
           d == packet_delay(Current(l).pkt)
<1>1. /\ outgoing[l] # <<>> /\ UNCHANGED others /\ TypeOK
      /\ batch[l] \in Batch /\ batch[l].created <= now /\ now \in Nat
  BY DEF TakeNext, NetworkInv, TypeOK
<1>2. d \in Nat /\ Ahead(l) \in Nat
  BY <1>1, CurrentType, PacketDelayType
<1> HIDE DEF d
<1>3. b \in Batch /\ b.created <= now /\ now <= SentAt(b) /\ DurationUntilCanSend(b, now, d) \in Nat
  BY <1>1, <1>2, BatchUpdates
<1>4. CASE /\ already_handled(l) \/ has_bandwidth_available(l)
           /\ Proceed(l, Ahead(l), b)
  <2>1. \/ already_handled(l)
        \/ b.delay = 0
        \/ b.delay + d < BATCH_MAX_DELAY
    BY <1>4 DEF has_bandwidth_available, CanSend, HasRoom, d
  <2> HIDE DEF b
  <2> QED
    BY <1>1, <1>2, <1>3, <1>4, <2>1, ProceedKeeps DEF d
<1>5. CASE Park(l, "bandwidth", now + DurationUntilCanSend(b, now, d), 0, b)
  <2> DEFINE wake == now + DurationUntilCanSend(b, now, d)
  <2>1. wake \in Nat /\ 0 \in Nat /\ "bandwidth" \in Pcs
    BY <1>1, <1>3 DEF Pcs
  <2>2. b.delay = 0 \/ b.delay + d < BATCH_MAX_DELAY \/ SentAt(b) <= wake
    <3> HIDE DEF b
    <3> QED
      BY <1>1, <1>2, <1>3, BatchMaxDelayAssumption
         DEF DurationUntilCanSend, HasRoom, Refresh, NewBatch, SentAt, Batch
  <2> HIDE DEF b, wake
  <2>3. Park(l, "bandwidth", wake, 0, b)
    BY <1>5 DEF wake
  <2> QED
    BY <1>1, <1>3, <2>1, <2>2, <2>3, ParkKeeps DEF d
<1>6. CASE AssertionRaces(l, b)
  <2> HIDE DEF b
  <2>0. <<"link", l>> \in Tasks /\ <<>> \in Seq(Buffered)
    BY DEF Tasks
  <2>1. TypeOK'
    BY <1>1, <1>3, <1>6, <2>0 DEF TypeOK, AssertionRaces, others
  <2>2. task' = task /\ batch'[l] = b /\ in_transit' = in_transit
    BY <1>1, <1>6 DEF TypeOK, AssertionRaces
  <2>3. task[l].pc = "idle"
    BY DEF TakeNext
  <2>4. \A k \in Links \ {l} : batch'[k] = batch[k] /\ outgoing'[k] = outgoing[k]
    BY <1>1, <1>6 DEF TypeOK, AssertionRaces
  <2> QED
    BY <1>1, <1>3, <2>1, <2>2, <2>3, <2>4, LinkStepKeeps
<1> QED
  BY <1>4, <1>5, <1>6 DEF TakeNext, d

LEMMA LinkQueueKeeps ==
  ASSUME NetworkInv, NEW l \in Links, process_link_queue(l)
  PROVE  NetworkInv'
<1>1. CASE TakeNext(l)
  BY <1>1, TakeNextKeeps
<1>2. CASE BandwidthSlept(l)
  BY <1>2, WaitKeeps, AwaitNodeKeeps DEF BandwidthSlept
<1>3. CASE LinkCameUp(l)
  BY <1>3, AwaitNodeKeeps DEF LinkCameUp
<1>4. CASE NodeCameUp(l)
  <2>1. UNCHANGED others /\ task[l].pc = "node_up"
    BY <1>4 DEF NodeCameUp
  <2>2. Ahead(l) \in Nat
    BY <2>1, WaitingTask, CurrentType DEF NetworkInv
  <2> QED
    BY <1>4, <2>1, <2>2, WaitKeeps, ResumeKeeps DEF NodeCameUp
<1>5. CASE WaitCancelled(l)
  <2>1. /\ outgoing[l] # <<>> /\ batch[l] \in Batch /\ batch[l].created <= now
        /\ Skip(l, batch[l]) /\ UNCHANGED others
    BY <1>5 DEF WaitCancelled, NetworkInv, TypeOK
  <2> QED
    BY <2>1, SkipKeeps
<1>6. CASE YieldOver(l)
  <2>1. task[l].ahead \in Nat
    BY DEF NetworkInv, TypeOK
  <2> QED
    BY <1>6, <2>1, ResumeKeeps DEF YieldOver
<1> QED
  BY <1>1, <1>2, <1>3, <1>4, <1>5, <1>6 DEF process_link_queue

----------------------------------------------------------------------------
(* Forwarders, events and the clock *)

LEMMA ForwarderSleepsKeeps ==
  ASSUME NetworkInv, NEW l \in Links, forwarder_sleeps(l)
  PROVE  NetworkInv'
<1>1. TypeOK'
  BY SMTT(30) DEF NetworkInv, TypeOK, forwarder_sleeps, nodeVars, Transit
<1> QED
  BY <1>1, LinksUntouched DEF forwarder_sleeps

LEMMA ForwardPacketKeeps ==
  ASSUME NetworkInv, NEW l \in Links, forward_packet(l)
  PROVE  NetworkInv'
<1>1. PICK r \in NextArrivals(l) :
        /\ in_transit' = [in_transit EXCEPT ![l] = @ \ {r}]
        /\ \/ End(r.pkt, "lost_in_transit", nextId)
           \/ forward(Target[l], r.pkt, <<"forwarder", l>>, nextId)
  BY DEF forward_packet
<1>2. TypeOK /\ r.pkt \in Packet /\ nextId \in Nat \ {0}
  BY DEF NextArrivals, NetworkInv, TypeOK, Transit
<1>3. Target[l] \in Nodes /\ <<"forwarder", l>> \in Tasks
  BY NetworkAssumption DEF Tasks
<1>4. /\ fate' \in [Ids -> Fates]
      /\ nextId' \in Nat \ {0}
      /\ crashed' \in SUBSET Tasks
      /\ available_capacity' \in [Nodes -> Nat]
      /\ outbound' \in [Nodes -> Seq(Buffered)]
  <2>1. CASE End(r.pkt, "lost_in_transit", nextId)
    BY <1>2, <2>1 DEF End, TypeOK, Fates, Packet
  <2>2. CASE forward(Target[l], r.pkt, <<"forwarder", l>>, nextId)
    BY <1>2, <1>3, <2>2, ForwardType
  <2> QED
    BY <1>1, <2>1, <2>2
<1>5. /\ wakeup' = [wakeup EXCEPT ![l] = NoTime]
      /\ UNCHANGED <<now, events, nodeUp, last_buffer_clear, linkUp, last_down,
                     delay, batch, outgoing, task, handled>>
  BY DEF forward_packet
<1>6. \A k \in Links : in_transit'[k] \subseteq in_transit[k]
  BY <1>1, <1>2 DEF TypeOK
<1>7. TypeOK'
  BY <1>1, <1>2, <1>4, <1>5 DEF TypeOK
<1> QED
  BY <1>5, <1>6, <1>7
     DEF NetworkInv, LossVerdictSound, LossVerdictComplete, GrantCovers, was_down_after,
         Current, packet_delay

\* Notified tasks are no longer asleep; what they wait for does not matter to
\* the pacer.
LEMMA NotifyKeeps ==
  ASSUME TypeOK, NEW ls, NEW pc \in {"link", "node"}, NEW to \in {"link_up", "node_up"},
         Notify(ls, pc, to)
  PROVE  /\ task' \in [Links -> [pc : Pcs, wake : Nat, ahead : Nat]]
         /\ \A l \in Links : /\ task'[l].wake = task[l].wake
                             /\ task'[l].pc = "idle" <=> task[l].pc = "idle"
                             /\ task'[l].pc = "bandwidth" <=> task[l].pc = "bandwidth"
BY DEF Notify, TypeOK, Pcs

\* An event leaves grants alone, and sets last_down, if at all, to the instant
\* at which it marks the packets in transit.
LEMMA EventKeeps ==
  ASSUME NetworkInv, TypeOK', UNCHANGED <<now, batch, outgoing>>,
         \A l \in Links : /\ task'[l].wake = task[l].wake
                          /\ task'[l].pc = "idle" <=> task[l].pc = "idle"
                          /\ task'[l].pc = "bandwidth" <=> task[l].pc = "bandwidth",
         \A l \in Links : \/ last_down'[l] = last_down[l] /\ in_transit'[l] = in_transit[l]
                          \/ /\ last_down'[l] = now
                             /\ in_transit'[l] = {[r EXCEPT !.cut = TRUE] : r \in in_transit[l]}
  PROVE  NetworkInv'
<1>1. \A l \in Links : GrantCovers(l)' = GrantCovers(l)
  BY DEF GrantCovers, Current, packet_delay
<1>2. now \in Nat /\ \A l \in Links : in_transit[l] \subseteq Transit /\ last_down[l] \in Int
  BY DEF NetworkInv, TypeOK, NoTime
<1>3. \A l \in Links : last_down'[l] <= now'
  BY <1>2 DEF NetworkInv
<1>4. ASSUME NEW l \in Links, NEW s \in in_transit'[l]
      PROVE  /\ s.sent <= now
             /\ last_down'[l] > s.sent => s.cut
             /\ s.cut => last_down'[l] > s.sent \/ last_down'[l] = s.sent
  <2>1. CASE last_down'[l] = last_down[l] /\ in_transit'[l] = in_transit[l]
    BY <1>4, <2>1 DEF NetworkInv, LossVerdictSound, LossVerdictComplete, was_down_after
  <2>2. CASE /\ last_down'[l] = now
             /\ in_transit'[l] = {[r EXCEPT !.cut = TRUE] : r \in in_transit[l]}
    <3>1. PICK r \in in_transit[l] : s = [r EXCEPT !.cut = TRUE]
      BY <1>4, <2>2
    <3>2. r \in Transit /\ r.sent <= now
      BY <1>2 DEF NetworkInv
    <3>3. s.cut
      BY <3>1, <3>2 DEF Transit
    <3>4. s.sent = r.sent /\ r.sent \in Nat
      BY <3>1, <3>2 DEF Transit
    <3>5. last_down'[l] = now
      BY <2>2
    <3>6. s.sent <= now /\ (last_down'[l] > s.sent \/ last_down'[l] = s.sent)
      BY <1>2, <3>2, <3>4, <3>5
    <3> QED
      BY <3>3, <3>6, Zenon
  <2> QED
    BY <2>1, <2>2
<1>5. LossVerdictSound' /\ LossVerdictComplete'
  BY <1>4 DEF LossVerdictSound, LossVerdictComplete, was_down_after
<1> QED
  BY <1>1, <1>3, <1>4, <1>5 DEF NetworkInv

LEMMA LinkEventKeeps ==
  ASSUME NetworkInv, NEW e \in LinkEvents, process_link_event(e)
  PROVE  NetworkInv'
<1>1. e.link \in Links /\ e.delay \in Nat \union {NoTime} /\ TypeOK
  BY NetworkAssumption DEF NetworkInv
<1>2. /\ events' = events + 1
      /\ UNCHANGED <<now, nextId, fate, crashed, nodeVars, batch, outgoing, wakeup, handled>>
      /\ update_link_status(e.link, e.status)
  BY DEF process_link_event
<1>3. delay' \in [Links -> Nat]
  BY <1>1 DEF process_link_event, TypeOK
<1>4. CASE /\ linkUp' = [linkUp EXCEPT ![e.link] = FALSE]
           /\ last_down' = [last_down EXCEPT ![e.link] = now]
           /\ in_transit' = [in_transit EXCEPT ![e.link] = {[r EXCEPT !.cut = TRUE] : r \in @}]
           /\ UNCHANGED task
  <2>1. {[r EXCEPT !.cut = TRUE] : r \in in_transit[e.link]} \subseteq Transit
    <3>1. in_transit[e.link] \subseteq Transit
      BY <1>1 DEF TypeOK
    <3>2. ASSUME NEW r \in Transit PROVE [r EXCEPT !.cut = TRUE] \in Transit
      BY DEF Transit
    <3> QED
      BY <3>1, <3>2
  <2>2. TypeOK'
    <3>1. linkUp' \in [Links -> BOOLEAN]
      BY <1>1, <1>4, Zenon DEF TypeOK
    <3>2. /\ last_down' \in [Links -> Nat \union {NoTime}]
          /\ in_transit' \in [Links -> SUBSET Transit]
          /\ task' = task
      BY <1>1, <1>4, <2>1 DEF TypeOK
    <3> QED
      BY <1>1, <1>2, <1>3, <3>1, <3>2 DEF TypeOK, nodeVars
  <2>3. \A l \in Links : \/ last_down'[l] = last_down[l] /\ in_transit'[l] = in_transit[l]
                         \/ /\ last_down'[l] = now
                            /\ in_transit'[l] = {[r EXCEPT !.cut = TRUE] : r \in in_transit[l]}
    BY <1>1, <1>4 DEF TypeOK
  <2> QED
    BY <1>2, <1>4, <2>2, <2>3, EventKeeps
<1>5. CASE /\ linkUp' = [linkUp EXCEPT ![e.link] = TRUE]
           /\ Notify({e.link}, "link", "link_up")
           /\ UNCHANGED <<last_down, in_transit>>
  <2>1. /\ task' \in [Links -> [pc : Pcs, wake : Nat, ahead : Nat]]
        /\ \A l \in Links : /\ task'[l].wake = task[l].wake
                            /\ task'[l].pc = "idle" <=> task[l].pc = "idle"
                            /\ task'[l].pc = "bandwidth" <=> task[l].pc = "bandwidth"
    BY <1>1, <1>5, NotifyKeeps
  <2>2. TypeOK'
    <3>1. linkUp' \in [Links -> BOOLEAN]
      BY <1>1, <1>5, Zenon DEF TypeOK
    <3>2. UNCHANGED <<last_down, in_transit>>
      BY <1>5
    <3> QED
      BY <1>1, <1>2, <1>3, <2>1, <3>1, <3>2 DEF TypeOK, nodeVars
  <2> QED
    BY <1>2, <1>5, <2>1, <2>2, EventKeeps
<1>6. CASE UNCHANGED <<linkUp, last_down, in_transit, task>>
  <2>1. TypeOK'
    BY <1>1, <1>2, <1>3, <1>6 DEF TypeOK, nodeVars
  <2> QED
    BY <1>2, <1>6, <2>1, EventKeeps
<1> QED
  BY <1>2, <1>4, <1>5, <1>6 DEF update_link_status

LEMMA NodeEventKeeps ==
  ASSUME NetworkInv, NEW e \in NodeEvents, process_node_event(e)
  PROVE  NetworkInv'
<1>1. e.node \in Nodes /\ TypeOK
  BY NetworkAssumption DEF NetworkInv
<1>2. /\ events' = events + 1
      /\ UNCHANGED <<now, nextId, fate, crashed, available_capacity, outbound,
                     linkUp, last_down, delay, batch, outgoing, in_transit, wakeup, handled>>
      /\ update_node_status(e.node, e.status)
  BY DEF process_node_event
<1>3. last_buffer_clear' \in [Nodes -> Nat \union {NoTime}]
  BY <1>1 DEF process_node_event, TypeOK
<1>4. nodeUp' \in [Nodes -> BOOLEAN]
  BY <1>1, <1>2 DEF update_node_status, TypeOK
<1>5. /\ task' \in [Links -> [pc : Pcs, wake : Nat, ahead : Nat]]
      /\ \A l \in Links : /\ task'[l].wake = task[l].wake
                          /\ task'[l].pc = "idle" <=> task[l].pc = "idle"
                          /\ task'[l].pc = "bandwidth" <=> task[l].pc = "bandwidth"
  <2>1. CASE Notify({l \in Links : Source[l] = e.node}, "node", "node_up")
    BY <1>1, <2>1, NotifyKeeps
  <2>2. CASE UNCHANGED task
    BY <1>1, <2>2 DEF TypeOK
  <2> QED
    BY <1>2, <2>1, <2>2 DEF update_node_status
<1>6. TypeOK'
  BY <1>1, <1>2, <1>3, <1>4, <1>5 DEF TypeOK
<1> QED
  BY <1>2, <1>5, <1>6, EventKeeps

LEMMA TickKeeps ==
  ASSUME NetworkInv, Tick
  PROVE  NetworkInv'
<1>1. TypeOK' /\ now' = now + 1 /\ now \in Nat /\ UNCHANGED linkVars
  BY DEF Tick, NetworkInv, TypeOK, nodeVars, linkVars
<1>2. \A l \in Links : SentAt(batch[l]) \in Nat /\ last_down[l] \in Int /\ batch[l].created \in Nat
  BY DEF NetworkInv, TypeOK, Batch, SentAt, NoTime
<1>3. \A l \in Links : \A r \in in_transit[l] : r.sent \in Nat
  BY DEF NetworkInv, TypeOK, Transit
<1>4. \A l \in Links : GrantCovers(l) => GrantCovers(l)'
  BY <1>1, <1>2 DEF GrantCovers, linkVars, Current, packet_delay
<1> QED
  BY <1>1, <1>2, <1>3, <1>4
     DEF NetworkInv, LossVerdictSound, LossVerdictComplete, linkVars, was_down_after

LEMMA NetworkStep == NetworkInv /\ [Next]_vars => NetworkInv'
<1> SUFFICES ASSUME NetworkInv, [Next]_vars PROVE NetworkInv'
  OBVIOUS
<1>1. ASSUME NEW f \in Flows, send_udp(f) PROVE NetworkInv'
  BY <1>1, SendUdpKeeps
<1>2. ASSUME NEW n \in Nodes, process_buffer(n) PROVE NetworkInv'
  BY <1>2, ProcessBufferKeeps
<1>3. ASSUME NEW l \in Links, process_link_queue(l) PROVE NetworkInv'
  BY <1>3, LinkQueueKeeps
<1>4. ASSUME NEW l \in Links, forwarder_sleeps(l) PROVE NetworkInv'
  BY <1>4, ForwarderSleepsKeeps
<1>5. ASSUME NEW l \in Links, forward_packet(l) PROVE NetworkInv'
  BY <1>5, ForwardPacketKeeps
<1>6. ASSUME NEW e \in LinkEvents, process_link_event(e) PROVE NetworkInv'
  BY <1>6, LinkEventKeeps
<1>7. ASSUME NEW e \in NodeEvents, process_node_event(e) PROVE NetworkInv'
  BY <1>7, NodeEventKeeps
<1>8. CASE Tick
  BY <1>8, TickKeeps
<1>9. CASE UNCHANGED vars
  <2>1. TypeOK'
    BY <1>9 DEF vars, nodeVars, linkVars, NetworkInv, TypeOK
  <2> QED
    BY <1>9, <2>1, LinksUntouched DEF vars, nodeVars, linkVars
<1> QED
  BY <1>1, <1>2, <1>3, <1>4, <1>5, <1>6, <1>7, <1>8, <1>9 DEF Next

LEMMA NetworkInvariant == Spec => []NetworkInv
BY NetworkInit, NetworkStep, PTL DEF Spec

----------------------------------------------------------------------------
\* Every variable keeps its type.  In particular the available capacity of an
\* OutboundBuffer, an unsigned integer in the code, never underflows.
THEOREM TypeCorrect == Spec => []TypeOK
<1>1. NetworkInv => TypeOK
  BY DEF NetworkInv
<1> QED
  BY <1>1, NetworkInvariant, PTL

\* The pacer's assertions in NetworkLink::send and PacketPacer::track_send hold
\* in every network, however links, nodes and other links delay the send.
THEOREM PacerAssertionsHold == Spec => []PacerGrantKept
<1>1. NetworkInv => PacerGrantKept
  <2> SUFFICES ASSUME NetworkInv, NEW l \in Links, task[l].pc # "idle",
                      task[l].pc = "bandwidth" => now >= task[l].wake
               PROVE  CanSend(batch[l], now, packet_delay(Current(l).pkt))
    BY DEF PacerGrantKept
  <2>1. now \in Nat
    BY DEF NetworkInv, TypeOK
  <2> QED
    BY <2>1, WaitingTask DEF CanSend, HasRoom, Refresh, NewBatch, SentAt, Batch
<1> QED
  BY <1>1, NetworkInvariant, PTL

\* forward_packets_from_link_to_node blames the link for a loss only when the
\* link did go down with the packet in transit.
THEOREM LossesAreDeserved == Spec => []LossVerdictSound
<1>1. NetworkInv => LossVerdictSound
  BY DEF NetworkInv
<1> QED
  BY <1>1, NetworkInvariant, PTL

\* No packet survives a failure of its link, except one that was sent at the
\* very instant of the failure.
THEOREM FailuresLosePackets == Spec => []LossVerdictComplete
<1>1. NetworkInv => LossVerdictComplete
  BY DEF NetworkInv
<1> QED
  BY <1>1, NetworkInvariant, PTL

----------------------------------------------------------------------------
(* The places of packets: forwarding neither duplicates nor forgets them,   *)
(* and the network implements PacketJourney.                                *)

Entries(s) == {s[j] : j \in 1 .. Len(s)}

\* What the entries of a queue become when one is taken and when others are added
LEMMA ElementsOfTail ==
  ASSUME NEW S, NEW s \in Seq(S), s # <<>>
  PROVE  Entries(s) = {Head(s)} \union Entries(Tail(s))
<1>1. Len(s) \in Nat \ {0} /\ Head(s) = s[1]
  BY EmptySeq
<1>2. Len(Tail(s)) = Len(s) - 1 /\ \A i \in 1 .. Len(Tail(s)) : Tail(s)[i] = s[i + 1]
  BY HeadTailProperties
<1>3. ASSUME NEW j \in 1 .. Len(s)
      PROVE  s[j] = Head(s) \/ \E i \in 1 .. Len(Tail(s)) : s[j] = Tail(s)[i]
  <2>1. CASE j = 1
    BY <1>1, <2>1
  <2>2. CASE j # 1
    <3>1. j - 1 \in 1 .. Len(Tail(s)) /\ (j - 1) + 1 = j
      BY <1>1, <1>2, <2>2
    <3>2. Tail(s)[j - 1] = s[(j - 1) + 1]
      BY <1>2, <3>1
    <3> QED
      BY <3>1, <3>2
  <2> QED
    BY <2>1, <2>2
<1>4. ASSUME NEW i \in 1 .. Len(Tail(s))
      PROVE  \E j \in 1 .. Len(s) : Tail(s)[i] = s[j]
  <2>1. i + 1 \in 1 .. Len(s)
    BY <1>1, <1>2
  <2> QED
    BY <1>2, <2>1
<1>5. 1 \in 1 .. Len(s)
  BY <1>1
<1>6. ASSUME NEW x \in Entries(s) PROVE x = Head(s) \/ x \in Entries(Tail(s))
  BY <1>3 DEF Entries
<1>7. ASSUME NEW x \in Entries(Tail(s)) PROVE x \in Entries(s)
  BY <1>4 DEF Entries
<1>8. Head(s) \in Entries(s)
  BY <1>1, <1>5 DEF Entries
<1> QED
  BY <1>6, <1>7, <1>8

LEMMA ElementsOfConcat ==
  ASSUME NEW S, NEW s \in Seq(S), NEW t \in Seq(S)
  PROVE  Entries(s \o t) = Entries(s) \union Entries(t)
<1> DEFINE c == s \o t
<1>1. Len(s) \in Nat /\ Len(t) \in Nat
  BY LenProperties
<1>2. /\ Len(c) = Len(s) + Len(t)
      /\ \A i \in 1 .. Len(s) + Len(t) :
           c[i] = IF i <= Len(s) THEN s[i] ELSE t[i - Len(s)]
  BY ConcatProperties
<1> HIDE DEF c
<1>3. ASSUME NEW j \in 1 .. Len(c)
      PROVE  \/ \E i \in 1 .. Len(s) : c[j] = s[i]
             \/ \E i \in 1 .. Len(t) : c[j] = t[i]
  <2>1. CASE j <= Len(s)
    BY <1>1, <1>2, <2>1
  <2>2. CASE ~(j <= Len(s))
    <3>1. j - Len(s) \in 1 .. Len(t)
      BY <1>1, <1>2, <2>2
    <3> QED
      BY <1>2, <2>2, <3>1
  <2> QED
    BY <2>1, <2>2
<1>4. ASSUME NEW i \in 1 .. Len(s)
      PROVE  \E j \in 1 .. Len(c) : s[i] = c[j]
  <2>1. i \in 1 .. Len(c) /\ i <= Len(s)
    BY <1>1, <1>2
  <2> QED
    BY <1>2, <2>1
<1>5. ASSUME NEW i \in 1 .. Len(t)
      PROVE  \E j \in 1 .. Len(c) : t[i] = c[j]
  <2>1. i + Len(s) \in 1 .. Len(c) /\ ~(i + Len(s) <= Len(s)) /\ (i + Len(s)) - Len(s) = i
    BY <1>1, <1>2
  <2>2. c[i + Len(s)] = t[i]
    BY <1>2, <2>1
  <2> QED
    BY <2>1, <2>2
<1>6. ASSUME NEW x \in Entries(c) PROVE x \in Entries(s) \/ x \in Entries(t)
  BY <1>3 DEF Entries
<1>7. ASSUME NEW x \in Entries(s) PROVE x \in Entries(c)
  BY <1>4 DEF Entries
<1>8. ASSUME NEW x \in Entries(t) PROVE x \in Entries(c)
  BY <1>5 DEF Entries
<1>9. Entries(c) = Entries(s) \union Entries(t)
  BY <1>6, <1>7, <1>8
<1> QED
  BY <1>9 DEF c

----------------------------------------------------------------------------
(* Where a packet can be *)

InBuffer(n, p)  == \E j \in 1 .. Len(outbound[n]) : outbound[n][j].pkt = p
Pending(l, p)   == \E o \in Offered(l) : o.pkt = p /\ Key(p) \notin handled
Flying(l, p)    == \E r \in in_transit[l] : r.pkt = p

InSomePlace(x) ==
  \/ \E n \in Nodes : \E p : InBuffer(n, p) /\ x = <<"buffer", n, p>>
  \/ \E l \in Links : \E p : Pending(l, p) /\ x = <<"offer", Source[l], p>>
  \/ \E l \in Links : \E p : Flying(l, p) /\ x = <<"link", l, p>>

\* What is known of the elements of Whereabouts
WellPlaced(x) ==
  /\ x = <<x[1], x[2], x[3]>>
  /\ x[1] \in {"buffer", "offer", "link"}
  /\ x[3] \in Packet
  /\ x[1] = "link" => x[2] \in Links
  /\ x[1] # "link" => x[2] \in Nodes

LEMMA WhereaboutsNow == \A x : x \in Whereabouts <=> InSomePlace(x)
<1> SUFFICES ASSUME NEW x PROVE x \in Whereabouts <=> InSomePlace(x)
  OBVIOUS
<1> DEFINE buffered == UNION {{<<"buffer", n, outbound[n][j].pkt>> : j \in 1 .. Len(outbound[n])} :
                                n \in Nodes}
           offered  == UNION {{<<"offer", Source[l], o.pkt>> :
                                 o \in {o \in Offered(l) : Key(o.pkt) \notin handled}} : l \in Links}
           flying   == UNION {{<<"link", l, r.pkt>> : r \in in_transit[l]} : l \in Links}
<1>1. x \in buffered <=> \E n \in Nodes : \E p : InBuffer(n, p) /\ x = <<"buffer", n, p>>
  BY DEF InBuffer
<1>2. x \in offered <=> \E l \in Links : \E p : Pending(l, p) /\ x = <<"offer", Source[l], p>>
  BY DEF Pending
<1>3. x \in flying <=> \E l \in Links : \E p : Flying(l, p) /\ x = <<"link", l, p>>
  BY DEF Flying
<1>4. x \in Whereabouts <=> x \in buffered \/ x \in offered \/ x \in flying
  BY Zenon DEF Whereabouts
<1> HIDE DEF buffered, offered, flying
<1> QED
  BY <1>1, <1>2, <1>3, <1>4 DEF InSomePlace

LEMMA WhereaboutsNext == (\A x : x \in Whereabouts <=> InSomePlace(x))'
BY WhereaboutsNow, PTL

LEMMA PlacedNow == TypeOK => \A x \in Whereabouts : WellPlaced(x)
<1> SUFFICES ASSUME TypeOK, NEW x \in Whereabouts PROVE WellPlaced(x)
  OBVIOUS
<1>1. ASSUME NEW n \in Nodes, NEW p, InBuffer(n, p) PROVE p \in Packet
  <2>1. PICK j \in 1 .. Len(outbound[n]) : outbound[n][j].pkt = p
    BY <1>1 DEF InBuffer
  <2>2. outbound[n][j] \in Buffered
    BY ElementOfSeq DEF TypeOK
  <2> QED
    BY <2>1, <2>2 DEF Buffered
<1>2. ASSUME NEW l \in Links, NEW p, Pending(l, p) PROVE p \in Packet
  <2>1. PICK j \in 1 .. Len(outgoing[l]) : outgoing[l][j].pkt = p
    BY <1>2 DEF Pending, Offered
  <2>2. outgoing[l][j] \in Buffered
    BY ElementOfSeq DEF TypeOK
  <2> QED
    BY <2>1, <2>2 DEF Buffered
<1>3. ASSUME NEW l \in Links, NEW p, Flying(l, p) PROVE p \in Packet
  BY <1>3 DEF Flying, TypeOK, Transit
<1>4. \A l \in Links : Source[l] \in Nodes
  BY NetworkAssumption
<1>5. ASSUME NEW n \in Nodes, NEW p, InBuffer(n, p), x = <<"buffer", n, p>>
      PROVE  WellPlaced(x)
  BY <1>1, <1>5 DEF WellPlaced
<1>6. ASSUME NEW l \in Links, NEW p, Pending(l, p), x = <<"offer", Source[l], p>>
      PROVE  WellPlaced(x)
  BY <1>2, <1>4, <1>6 DEF WellPlaced
<1>7. ASSUME NEW l \in Links, NEW p, Flying(l, p), x = <<"link", l, p>>
      PROVE  WellPlaced(x)
  BY <1>3, <1>7 DEF WellPlaced
<1> QED
  BY <1>5, <1>6, <1>7, WhereaboutsNow DEF InSomePlace

LEMMA PlacedNext == (TypeOK => \A x \in Whereabouts : WellPlaced(x))'
BY PlacedNow, PTL

----------------------------------------------------------------------------
(* How packets move *)

\* No buffer and no link holds a packet twice.
Distinct ==
  /\ \A n \in Nodes : \A j, k \in 1 .. Len(outbound[n]) :
       outbound[n][j].pkt.id = outbound[n][k].pkt.id => j = k
  /\ \A l \in Links : \A r, s \in in_transit[l] : r.pkt.id = s.pkt.id => r = s

\* The packets with ids in I are now in the places New and nowhere else; nothing
\* happens to other packets.
Moves(I, New) ==
  /\ I \subseteq Ids
  /\ \A x : x \in Whereabouts' <=> x \in New \/ (x \in Whereabouts /\ x[3].id \notin I)
  /\ \A x \in New : x[3].id \in I /\ fate'[x[3].id] = "live"
  /\ \A x, y \in New : x[3].id = y[3].id => x = y
  /\ \A i \in Ids \ I : fate'[i] = fate[i]
  /\ \A i \in I : fate'[i] # "unborn" /\ i < nextId'
  /\ nextId <= nextId'
  /\ \A k \in handled' : k \in handled \/ k[1] \in I
  /\ \A x \in New : \A k \in handled' :
       x[3].id = k[1] => x[3].ttl < k[2] \/ (x[1] = "link" /\ x[3].ttl = k[2])
  /\ \A l \in Links : \A o \in Offered(l)' : o \in Offered(l) \/ o.pkt.id \in I
  /\ crashed \subseteq crashed'
  /\ crashed' = {} => \A i \in I : fate'[i] = "live" => \E x \in New : x[3].id = i

LEMMA MovesKeep ==
  ASSUME TypeOK, TypeOK', CopyInv, Distinct', NEW I, NEW New, Moves(I, New)
  PROVE  CopyInv'
<1>1. /\ \A x \in Whereabouts : WellPlaced(x)
      /\ \A x \in Whereabouts' : WellPlaced(x)
  BY PlacedNow, PlacedNext DEF WellPlaced
<1>2. /\ \A x \in Whereabouts : x[3].id \in Ids
      /\ \A x \in Whereabouts' : x[3].id \in Ids
  BY <1>1 DEF WellPlaced, Packet
<1>3. /\ Ids \subseteq Int /\ nextId \in Int /\ nextId' \in Int
      /\ \A k \in handled' : k[1] \in Ids
  BY DEF TypeOK, Ids
<1>4. \A l \in Links : \A o \in Offered(l)' : o.pkt.id \in Ids
  <2> SUFFICES ASSUME NEW l \in Links, NEW j \in 1 .. Len(outgoing'[l])
               PROVE  outgoing'[l][j].pkt.id \in Ids
    BY DEF Offered
  <2>1. outgoing'[l][j] \in Buffered
    BY ElementOfSeq DEF TypeOK
  <2> QED
    BY <2>1 DEF Buffered, Packet
<1>5. Tracked'
  <2>1. ASSUME NEW i \in Ids, i >= nextId' PROVE fate'[i] = "unborn"
    <3>1. i \notin I /\ i >= nextId
      BY <1>3, <2>1 DEF Moves
    <3> QED
      BY <3>1 DEF Moves, CopyInv, Tracked
  <2>2. ASSUME NEW x \in Whereabouts' PROVE fate'[x[3].id] = "live"
    BY <1>2, ZenonT(40) DEF Moves, CopyInv, Tracked
  <2>3. ASSUME NEW l \in Links, NEW o \in Offered(l)' PROVE fate'[o.pkt.id] # "unborn"
    BY <1>4, ZenonT(40) DEF Moves, CopyInv, Tracked
  <2>4. ASSUME NEW k \in handled' PROVE fate'[k[1]] # "unborn"
    BY <1>3, ZenonT(40) DEF Moves, CopyInv, Tracked
  <2> QED
    BY <2>1, <2>2, <2>3, <2>4 DEF Tracked
<1>6. OnePlace'
  <2>1. ASSUME NEW x \in Whereabouts', NEW y \in Whereabouts', x[3].id = y[3].id
        PROVE  x = y
    BY <2>1, ZenonT(40) DEF Moves, CopyInv, OnePlace
  <2> QED
    BY <2>1 DEF OnePlace, Distinct
<1>7. HopsDescend'
  <2> SUFFICES ASSUME NEW k \in handled', NEW x \in Whereabouts', x[3].id = k[1]
               PROVE  x[3].ttl < k[2] \/ (x[1] = "link" /\ x[3].ttl = k[2])
    BY DEF HopsDescend
  <2>1. CASE x \in New
    BY <2>1 DEF Moves
  <2>2. CASE x \in Whereabouts /\ x[3].id \notin I
    <3>1. k \in handled
      BY <2>2 DEF Moves
    <3> QED
      BY <2>2, <3>1 DEF CopyInv, HopsDescend
  <2> QED
    BY <2>1, <2>2 DEF Moves
<1>8. Accounted'
  <2> SUFFICES ASSUME crashed' = {}, NEW i \in Ids, fate'[i] = "live"
               PROVE  \E x \in Whereabouts' : x[3].id = i
    BY DEF Accounted
  <2>1. CASE i \in I
    BY <2>1 DEF Moves
  <2>2. CASE i \notin I
    <3>1. crashed = {} /\ fate[i] = "live"
      BY <2>2 DEF Moves
    <3>2. PICK x \in Whereabouts : x[3].id = i
      BY <3>1 DEF CopyInv, Accounted
    <3> QED
      BY <2>2, <3>2 DEF Moves
  <2> QED
    BY <2>1, <2>2
<1> QED
  BY <1>5, <1>6, <1>7, <1>8 DEF CopyInv

----------------------------------------------------------------------------
(* Steps that take packets away, or change nothing about them *)

\* Packets may disappear, all from one node; the tracer is told of some.
Loses ==
  /\ \A x \in Whereabouts' : x \in Whereabouts
  /\ \A x, y \in Whereabouts \ Whereabouts' : x[1] # "link" /\ x[2] = y[2]
  /\ \A i \in Ids :
       \/ fate'[i] = fate[i]
       \/ /\ fate'[i] \in {"buffer_cleared", "stranded"}
          /\ \E x \in Whereabouts \ Whereabouts' : x[3].id = i
  /\ nextId' = nextId
  /\ \A k \in handled' : k \in handled \/ \E x \in Whereabouts \ Whereabouts' : x[3].id = k[1]
  /\ \A l \in Links : \A o \in Offered(l)' : o \in Offered(l)
  /\ crashed \subseteq crashed'
  /\ crashed' = {} => \A x \in Whereabouts \ Whereabouts' : fate'[x[3].id] # "live"

Lost == {x[3].id : x \in Whereabouts \ Whereabouts'}

LEMMA LosesMoves ==
  ASSUME TypeOK, TypeOK', CopyInv, Loses
  PROVE  Moves(Lost, {})
<1>1. ASSUME NEW x \in Whereabouts PROVE x[3].id \in Ids /\ fate[x[3].id] = "live"
  <2>1. WellPlaced(x)
    BY PlacedNow
  <2> QED
    BY <2>1 DEF WellPlaced, Packet, CopyInv, Tracked
<1>2. Lost \subseteq Ids
  BY <1>1 DEF Lost
<1>3. ASSUME NEW x PROVE x \in Whereabouts' <=> x \in Whereabouts /\ x[3].id \notin Lost
  <2>1. ASSUME x \in Whereabouts', x[3].id \in Lost PROVE FALSE
    <3>1. PICK y \in Whereabouts \ Whereabouts' : y[3].id = x[3].id
      BY <2>1 DEF Lost
    <3>2. x \in Whereabouts
      BY <2>1 DEF Loses
    <3>3. x = y
      BY <3>1, <3>2 DEF CopyInv, OnePlace
    <3> QED
      BY <2>1, <3>1, <3>3
  <2>2. ASSUME x \in Whereabouts, x \notin Whereabouts' PROVE x[3].id \in Lost
    BY <2>2 DEF Lost
  <2> QED
    BY <2>1, <2>2 DEF Loses
<1>4. \A i \in Ids \ Lost : fate'[i] = fate[i]
  BY DEF Loses, Lost
<1>5. ASSUME NEW i \in Lost PROVE fate'[i] # "unborn" /\ i < nextId'
  <2>1. i \in Ids /\ fate[i] = "live"
    BY <1>1 DEF Lost
  <2>2. ~(i >= nextId)
    BY <2>1 DEF CopyInv, Tracked
  <2>3. i \in Int /\ nextId \in Int
    BY <2>1 DEF Ids, TypeOK
  <2>4. fate'[i] # "unborn"
    BY <2>1 DEF Loses
  <2> QED
    BY <2>2, <2>3, <2>4 DEF Loses
<1>6. /\ nextId <= nextId'
      /\ \A k \in handled' : k \in handled \/ k[1] \in Lost
      /\ \A l \in Links : \A o \in Offered(l)' : o \in Offered(l)
      /\ crashed \subseteq crashed'
  <2>1. nextId <= nextId'
    BY DEF Loses, TypeOK
  <2> QED
    BY <2>1 DEF Loses, Lost
<1>7. crashed' = {} => \A i \in Lost : fate'[i] # "live"
  BY DEF Loses, Lost
<1> QED
  BY <1>2, <1>3, <1>4, <1>5, <1>6, <1>7 DEF Moves

\* Packets stay where they are.
LEMMA QuietLoses ==
  ASSUME TypeOK, TypeOK', UNCHANGED <<nextId, fate, crashed, outbound, handled>>,
         \A l \in Links : \A o : o \in Offered(l)' => o \in Offered(l),
         \A l \in Links : \A p : Pending(l, p) => Pending(l, p)',
         \A l \in Links : \A p : Flying(l, p)' <=> Flying(l, p)
  PROVE  Loses /\ \A x : x \in Whereabouts' <=> x \in Whereabouts
<1>1. \A n \in Nodes : \A p : InBuffer(n, p)' <=> InBuffer(n, p)
  BY DEF InBuffer
<1>2. \A l \in Links : \A p : Pending(l, p)' <=> Pending(l, p)
  BY DEF Pending
<1>3. \A x : InSomePlace(x)' <=> InSomePlace(x)
  BY <1>1, <1>2 DEF InSomePlace
<1>4. \A x : x \in Whereabouts' <=> x \in Whereabouts
  BY <1>3, WhereaboutsNow, WhereaboutsNext
<1>5. \A i \in Ids : fate'[i] = fate[i]
  OBVIOUS
<1> QED
  BY <1>4, <1>5 DEF Loses

\* A link that goes down marks the packets on it and moves none.
LEMMA CutKeepsPlaces ==
  ASSUME TypeOK, Distinct, NEW e \in Links,
         in_transit' = [in_transit EXCEPT ![e] = {[r EXCEPT !.cut = TRUE] : r \in @}],
         UNCHANGED outbound
  PROVE  /\ \A l \in Links : \A p : Flying(l, p)' <=> Flying(l, p)
         /\ Distinct'
<1>1. \A r \in in_transit[e] : [r EXCEPT !.cut = TRUE].pkt = r.pkt
  BY DEF TypeOK, Transit
<1>2. /\ in_transit'[e] = {[r EXCEPT !.cut = TRUE] : r \in in_transit[e]}
      /\ \A l \in Links \ {e} : in_transit'[l] = in_transit[l]
  BY DEF TypeOK
<1>3. \A l \in Links : \A p : Flying(l, p)' <=> Flying(l, p)
  <2>1. \A p : Flying(e, p)' <=> Flying(e, p)
    BY <1>1, <1>2, ZenonT(40) DEF Flying
  <2> QED
    BY <1>2, <2>1 DEF Flying
<1>4. ASSUME NEW r \in in_transit'[e], NEW s \in in_transit'[e], r.pkt.id = s.pkt.id
      PROVE  r = s
  <2>1. PICK a \in in_transit[e] : r = [a EXCEPT !.cut = TRUE]
    BY <1>2
  <2>2. PICK b \in in_transit[e] : s = [b EXCEPT !.cut = TRUE]
    BY <1>2
  <2>3. a.pkt.id = b.pkt.id
    BY <1>1, <1>4, <2>1, <2>2
  <2> QED
    BY <2>1, <2>2, <2>3 DEF Distinct
<1> QED
  BY <1>2, <1>3, <1>4 DEF Distinct

LEMMA LinkEventLoses ==
  ASSUME TypeOK, TypeOK', Distinct, NEW e \in LinkEvents, process_link_event(e)
  PROVE  Loses /\ Distinct'
<1>1. /\ UNCHANGED <<nextId, fate, crashed, outbound, handled, outgoing>>
      /\ update_link_status(e.link, e.status) /\ e.link \in Links
  BY NetworkAssumption DEF process_link_event, nodeVars
<1>2. /\ \A l \in Links : \A p : Flying(l, p)' <=> Flying(l, p)
      /\ Distinct'
  <2>1. CASE UNCHANGED in_transit
    BY <1>1, <2>1 DEF Flying, Distinct
  <2>2. CASE in_transit' = [in_transit EXCEPT ![e.link] = {[r EXCEPT !.cut = TRUE] : r \in @}]
    BY <1>1, <2>2, CutKeepsPlaces
  <2> QED
    BY <1>1, <2>1, <2>2 DEF update_link_status
<1>3. /\ \A l \in Links : \A o : o \in Offered(l)' => o \in Offered(l)
      /\ \A l \in Links : \A p : Pending(l, p) => Pending(l, p)'
  BY <1>1 DEF Offered, Pending
<1> QED
  BY <1>1, <1>2, <1>3, QuietLoses

\* Steps that touch no packet
LEMMA StillLoses ==
  ASSUME TypeOK, TypeOK', Distinct,
         UNCHANGED <<nextId, fate, crashed, outbound, outgoing, in_transit, handled>>
  PROVE  Loses /\ Distinct'
<1>1. /\ \A l \in Links : \A o : o \in Offered(l)' => o \in Offered(l)
      /\ \A l \in Links : \A p : Pending(l, p) => Pending(l, p)'
      /\ \A l \in Links : \A p : Flying(l, p)' <=> Flying(l, p)
      /\ Distinct'
  BY DEF Offered, Pending, Flying, Distinct
<1> QED
  BY <1>1, QuietLoses

\* A link's task takes an entry from its queue: the others remain.
LEMMA TakenOffer ==
  ASSUME TypeOK, NEW l \in Links, outgoing[l] # <<>>,
         outgoing' = [outgoing EXCEPT ![l] = Tail(@)]
  PROVE  /\ Offered(l) = {Current(l)} \union Offered(l)'
         /\ \A k \in Links \ {l} : Offered(k)' = Offered(k)
<1>1. outgoing'[l] = Tail(outgoing[l]) /\ outgoing[l] \in Seq(Buffered)
  BY DEF TypeOK
<1>2. Entries(outgoing[l]) = {Head(outgoing[l])} \union Entries(Tail(outgoing[l]))
  BY <1>1, ElementsOfTail
<1>3. Offered(l) = Entries(outgoing[l]) /\ Offered(l)' = Entries(outgoing'[l])
  BY DEF Offered, Entries
<1>4. \A k \in Links \ {l} : outgoing'[k] = outgoing[k]
  BY DEF TypeOK
<1>5. Offered(l) = {Current(l)} \union Offered(l)'
  BY <1>1, <1>2, <1>3 DEF Current
<1> QED
  BY <1>4, <1>5 DEF Offered

LEMMA SkipLoses ==
  ASSUME TypeOK, TypeOK', Distinct, NEW l \in Links, UNCHANGED others, outgoing[l] # <<>>,
         already_handled(l), NEW b, Skip(l, b)
  PROVE  Loses /\ Distinct'
<1>1. /\ UNCHANGED <<nextId, fate, crashed, outbound, in_transit, handled>>
      /\ outgoing' = [outgoing EXCEPT ![l] = Tail(@)]
  BY DEF Skip, others
<1>2. /\ Offered(l) = {Current(l)} \union Offered(l)'
      /\ \A k \in Links \ {l} : Offered(k)' = Offered(k)
  BY <1>1, TakenOffer
<1>3. \A k \in Links : \A o : o \in Offered(k)' => o \in Offered(k)
  BY <1>2
<1>4. ASSUME NEW k \in Links, NEW p, Pending(k, p) PROVE Pending(k, p)'
  <2>1. PICK o \in Offered(k) : o.pkt = p /\ Key(p) \notin handled
    BY <1>4 DEF Pending
  <2>2. o \in Offered(k)'
    BY <1>2, <2>1 DEF already_handled
  <2> QED
    BY <1>1, <2>1, <2>2 DEF Pending
<1>5. \A k \in Links : \A p : Flying(k, p)' <=> Flying(k, p)
  BY <1>1 DEF Flying
<1>6. Distinct'
  BY <1>1 DEF Distinct
<1> QED
  BY <1>1, <1>3, <1>4, <1>5, <1>6, QuietLoses

\* A link's task gives up entries of its queue, and settles the one at the head
\* if it claimed that one.
LEMMA LinkLoses ==
  ASSUME TypeOK, TypeOK', CopyInv, NEW l \in Links, NEW o0, o0 \in Offered(l),
         UNCHANGED <<nextId, outbound, in_transit>>,
         \A k \in Links \ {l} : Offered(k)' = Offered(k),
         Offered(l)' \subseteq Offered(l),
         NEW H, H \subseteq {Key(o0.pkt)} \ handled, handled' = handled \union H,
         \A i \in Ids : \/ fate'[i] = fate[i]
                        \/ /\ fate'[i] \in {"buffer_cleared", "stranded"}
                           /\ i = o0.pkt.id /\ H # {},
         crashed \subseteq crashed',
         crashed' = {} => /\ Offered(l) = {o0} \union Offered(l)'
                          /\ H # {} /\ fate'[o0.pkt.id] # "live"
  PROVE  Loses /\ Distinct'
<1> DEFINE c == o0.pkt
           x0 == <<"offer", Source[l], c>>
<1>1. /\ \A n \in Nodes : \A p : InBuffer(n, p)' <=> InBuffer(n, p)
      /\ \A k \in Links : \A p : Flying(k, p)' <=> Flying(k, p)
  BY DEF InBuffer, Flying
<1>2. \A k \in Links : \A p : Pending(k, p)' => Pending(k, p)
  BY DEF Pending
<1>3. \A x \in Whereabouts' : x \in Whereabouts
  BY <1>1, <1>2, WhereaboutsNow, WhereaboutsNext DEF InSomePlace
<1>4. H # {} => x0 \in Whereabouts /\ x0 \notin Whereabouts'
  <2> SUFFICES ASSUME H # {} PROVE x0 \in Whereabouts /\ x0 \notin Whereabouts'
    OBVIOUS
  <2>1. Key(c) \notin handled /\ Key(c) \in handled'
    OBVIOUS
  <2>2. Pending(l, c)
    BY <2>1 DEF Pending
  <2>3. InSomePlace(x0)
    BY <2>2 DEF InSomePlace
  <2>4. ~InSomePlace(x0)'
    <3>1. \A k \in Links : ~Pending(k, c)'
      BY <2>1 DEF Pending
    <3>2. \A n, p : x0 # <<"buffer", n, p>> /\ x0 # <<"link", n, p>>
      OBVIOUS
    <3>3. \A k, p : x0 = <<"offer", Source[k], p>> => p = c
      OBVIOUS
    <3> HIDE DEF x0, c
    <3> QED
      BY <3>1, <3>2, <3>3 DEF InSomePlace
  <2> QED
    BY <2>3, <2>4, WhereaboutsNow, WhereaboutsNext
<1>5. x0[3] = c /\ x0[2] = Source[l]
  OBVIOUS
<1>6. ASSUME NEW x \in Whereabouts \ Whereabouts'
      PROVE  /\ x[1] # "link" /\ x[2] = Source[l]
             /\ x = x0 \/ \E o \in Offered(l) \ Offered(l)' : x[3] = o.pkt /\ Key(x[3]) \notin handled
  <2>1. InSomePlace(x) /\ ~InSomePlace(x)'
    BY WhereaboutsNow, WhereaboutsNext
  <2>p2. PICK k \in Links : \E p : Pending(k, p) /\ x = <<"offer", Source[k], p>>
    BY <1>1, <2>1 DEF InSomePlace
  <2>2. PICK p : Pending(k, p) /\ x = <<"offer", Source[k], p>>
    BY <2>p2
  <2>3. x[1] = "offer" /\ x[2] = Source[k] /\ x[3] = p
    BY <2>2
  <2>4. ~Pending(k, p)'
    BY <2>1, <2>2 DEF InSomePlace
  <2>5. PICK o \in Offered(k) : o.pkt = p /\ Key(p) \notin handled
    BY <2>2 DEF Pending
  <2>6. o \notin Offered(k)' \/ Key(p) \in H
    BY <2>4, <2>5 DEF Pending
  <2>7. CASE Key(p) \in H
    <3>1. H # {} /\ Key(p) = Key(c)
      BY <2>7
    <3>2. p.id = c.id
      BY <3>1 DEF Key
    <3>3. x = x0
      BY <1>4, <1>5, <2>3, <3>1, <3>2 DEF CopyInv, OnePlace
    <3> QED
      BY <1>5, <2>3, <3>3
  <2>8. CASE o \notin Offered(k)'
    <3>1. k = l
      BY <2>5, <2>8
    <3> QED
      BY <2>3, <2>5, <2>8, <3>1
  <2> QED
    BY <2>6, <2>7, <2>8
<1> HIDE DEF x0
<1>7. \A i \in Ids :
       \/ fate'[i] = fate[i]
       \/ /\ fate'[i] \in {"buffer_cleared", "stranded"}
          /\ \E x \in Whereabouts \ Whereabouts' : x[3].id = i
  BY <1>4, <1>5
<1>8. \A k \in handled' : k \in handled \/ \E x \in Whereabouts \ Whereabouts' : x[3].id = k[1]
  BY <1>4, <1>5 DEF Key
<1>9. crashed' = {} => \A x \in Whereabouts \ Whereabouts' : fate'[x[3].id] # "live"
  BY <1>5, <1>6
<1>10. Distinct'
  BY DEF Distinct, CopyInv, OnePlace
<1> QED
  BY <1>3, <1>6, <1>7, <1>8, <1>9, <1>10 DEF Loses

\* A link of a node that holds packet c takes the packet, which becomes q.
Departs(l, c, q) ==
  /\ <<"offer", Source[l], c>> \in Whereabouts
  /\ q.id = c.id /\ q.to = c.to /\ q.ttl = c.ttl
  /\ fate' = fate
  /\ Moves({c.id}, {<<"link", l, q>>})

LEMMA SendDeparts ==
  ASSUME TypeOK, TypeOK', CopyInv, NEW l \in Links, NEW o0, o0 \in Offered(l),
         Key(o0.pkt) \notin handled, handled' = handled \union {Key(o0.pkt)},
         Offered(l) = {o0} \union Offered(l)',
         \A k \in Links \ {l} : Offered(k)' = Offered(k),
         UNCHANGED <<nextId, outbound, fate, crashed>>,
         NEW r \in Transit, r.pkt.id = o0.pkt.id, r.pkt.to = o0.pkt.to, r.pkt.ttl = o0.pkt.ttl,
         in_transit' = [in_transit EXCEPT ![l] = @ \union {r}]
  PROVE  Departs(l, o0.pkt, r.pkt) /\ Distinct'
<1> DEFINE c == o0.pkt
           q == r.pkt
           x0 == <<"offer", Source[l], c>>
           y0 == <<"link", l, q>>
<1>1. /\ x0[1] = "offer" /\ x0[2] = Source[l] /\ x0[3] = c
      /\ y0[1] = "link" /\ y0[2] = l /\ y0[3] = q
      /\ q.id = c.id /\ q.to = c.to /\ q.ttl = c.ttl
  OBVIOUS
<1>2. Pending(l, c)
  BY DEF Pending
<1> HIDE DEF c, q
<1>3. x0 \in Whereabouts
  BY <1>2, WhereaboutsNow DEF InSomePlace
<1>4. c \in Packet /\ c.id \in Ids /\ c.ttl \in Nat
  BY <1>1, <1>3, PlacedNow DEF WellPlaced, Packet
<1>5. \A n \in Nodes : \A p : InBuffer(n, p)' <=> InBuffer(n, p)
  BY DEF InBuffer
<1>6. \A k \in Links : \A p : Pending(k, p)' <=> Pending(k, p) /\ Key(p) # Key(c)
  BY DEF Pending, c
<1>7. \A k \in Links : \A p : Flying(k, p)' <=> Flying(k, p) \/ (k = l /\ p = q)
  BY DEF Flying, q, TypeOK
<1>8. \A x \in Whereabouts : x[3].id = c.id => x = x0
  BY <1>1, <1>3 DEF CopyInv, OnePlace
<1>9. ASSUME NEW x PROVE x \in Whereabouts' <=> x = y0 \/ (x \in Whereabouts /\ x[3].id # c.id)
  <2>1. ASSUME x \in Whereabouts' PROVE x = y0 \/ (x \in Whereabouts /\ x[3].id # c.id)
    <3>1. InSomePlace(x)'
      BY <2>1, WhereaboutsNext
    <3>2. ASSUME NEW n \in Nodes, NEW p, InBuffer(n, p), x = <<"buffer", n, p>>
          PROVE  x \in Whereabouts /\ x # x0
      BY <3>2, WhereaboutsNow DEF InSomePlace
    <3>3. ASSUME NEW k \in Links, NEW p, Flying(k, p), x = <<"link", k, p>>
          PROVE  x \in Whereabouts /\ x # x0
      BY <3>3, WhereaboutsNow DEF InSomePlace
    <3>4. ASSUME NEW k \in Links, NEW p, Pending(k, p), Key(p) # Key(c),
                 x = <<"offer", Source[k], p>>
          PROVE  x \in Whereabouts /\ x # x0
      BY <3>4, WhereaboutsNow DEF InSomePlace
    <3>5. x = y0 \/ (x \in Whereabouts /\ x # x0)
      BY <1>5, <1>6, <1>7, <3>1, <3>2, <3>3, <3>4 DEF InSomePlace
    <3> QED
      BY <1>8, <3>5
  <2>2. y0 \in Whereabouts'
    BY <1>7, WhereaboutsNext DEF InSomePlace
  <2>3. ASSUME x \in Whereabouts, x[3].id # c.id PROVE x \in Whereabouts'
    <3>1. InSomePlace(x)
      BY <2>3, WhereaboutsNow
    <3>2. ASSUME NEW k \in Links, NEW p, Pending(k, p), x = <<"offer", Source[k], p>>
          PROVE  Pending(k, p)'
      <4>1. x[3] = p
        BY <3>2
      <4>2. Key(p) # Key(c)
        BY <2>3, <4>1 DEF Key
      <4> QED
        BY <1>6, <3>2, <4>2
    <3> QED
      BY <1>5, <1>7, <3>1, <3>2, WhereaboutsNext DEF InSomePlace
  <2> QED
    BY <2>1, <2>2, <2>3
<1>10. fate[c.id] = "live" /\ c.id < nextId
  <2>1. fate[c.id] = "live"
    BY <1>1, <1>3 DEF CopyInv, Tracked
  <2>2. ~(c.id >= nextId)
    BY <1>4, <2>1 DEF CopyInv, Tracked
  <2> QED
    BY <1>4, <2>1, <2>2, SMTT(30) DEF TypeOK, Ids
<1>11. ASSUME NEW k \in handled', q.id = k[1]
       PROVE  q.ttl < k[2] \/ q.ttl = k[2]
  <2>1. CASE k \in handled
    BY <1>1, <1>3, <1>11, <2>1 DEF CopyInv, HopsDescend
  <2>2. CASE k = Key(c)
    BY <1>1, <2>2 DEF Key
  <2> QED
    BY <2>1, <2>2 DEF c
<1>12. /\ \A k \in handled' : k \in handled \/ k[1] = c.id
       /\ \A k \in Links : \A o \in Offered(k)' : o \in Offered(k)
       /\ nextId <= nextId'
  <2>1. nextId <= nextId'
    BY DEF TypeOK
  <2> QED
    BY <2>1 DEF Key, c
<1>13. Moves({c.id}, {y0})
  <2> HIDE DEF y0
  <2> QED
    BY <1>1, <1>4, <1>9, <1>10, <1>11, <1>12 DEF Moves
<1>14. Distinct'
  <2>1. \A s \in in_transit[l] : s.pkt.id # c.id
    <3> SUFFICES ASSUME NEW s \in in_transit[l], s.pkt.id = c.id PROVE FALSE
      OBVIOUS
    <3>1. <<"link", l, s.pkt>> \in Whereabouts
      BY WhereaboutsNow DEF InSomePlace, Flying
    <3> QED
      BY <1>8, <3>1
  <2>2. in_transit'[l] = in_transit[l] \union {r} /\ \A k \in Links \ {l} : in_transit'[k] = in_transit[k]
    BY DEF TypeOK
  <2>3. r.pkt.id = c.id
    BY DEF c
  <2>4. Distinct
    BY DEF CopyInv, OnePlace, Distinct
  <2> QED
    BY <2>1, <2>2, <2>3, <2>4 DEF Distinct
<1> QED
  BY <1>1, <1>3, <1>13, <1>14 DEF Departs, c, q

\* What a step of link l's task does to packets
LinkMoves(l) == Distinct' /\ (Loses \/ \E c, q : Departs(l, c, q))

LEMMA ClaimMoves ==
  ASSUME TypeOK, TypeOK', CopyInv, NEW l \in Links, UNCHANGED others, outgoing[l] # <<>>,
         ~already_handled(l), NEW b, Claim(l, b)
  PROVE  LinkMoves(l)
<1>1. PICK o0 : o0 = Current(l)
  OBVIOUS
<1>2. /\ o0 \in Buffered /\ o0.pkt \in Packet /\ o0.pkt.id \in Ids /\ o0 \in Offered(l)
      /\ Key(o0.pkt) \notin handled
  <2>1. 1 \in 1 .. Len(outgoing[l]) /\ Head(outgoing[l]) = outgoing[l][1]
    BY EmptySeq DEF TypeOK
  <2>2. Current(l) \in Offered(l)
    BY <2>1 DEF Current, Offered
  <2> QED
    BY <1>1, <2>2, CurrentType DEF already_handled, Packet
<1>3. /\ UNCHANGED <<nextId, outbound>>
      /\ handled' = handled \union {Key(o0.pkt)}
  BY <1>1, Zenon DEF Claim, others
<1>4. ASSUME outgoing' = [outgoing EXCEPT ![l] = Tail(@)]
      PROVE  /\ Offered(l) = {o0} \union Offered(l)'
             /\ \A k \in Links \ {l} : Offered(k)' = Offered(k)
  BY <1>1, <1>4, TakenOffer
<1> DEFINE H == {Key(o0.pkt)}
<1>5. H \subseteq {Key(o0.pkt)} \ handled /\ H # {} /\ handled' = handled \union H
  BY <1>2, <1>3
<1> HIDE DEF H
<1>6. CASE DropCleared(l, b)
  <2>1. /\ fate' = [fate EXCEPT ![o0.pkt.id] = "buffer_cleared"]
        /\ outgoing' = [outgoing EXCEPT ![l] = Tail(@)]
        /\ UNCHANGED <<crashed, in_transit>>
    BY <1>1, <1>6 DEF DropCleared
  <2>2. /\ fate'[o0.pkt.id] = "buffer_cleared"
        /\ \A i \in Ids : fate'[i] = fate[i] \/ (fate'[i] = "buffer_cleared" /\ i = o0.pkt.id)
    BY <1>2, <2>1 DEF TypeOK
  <2>3. \A i \in Ids : \/ fate'[i] = fate[i]
                       \/ /\ fate'[i] \in {"buffer_cleared", "stranded"}
                          /\ i = o0.pkt.id /\ H # {}
    BY <1>5, <2>2
  <2>4. /\ Offered(l) = {o0} \union Offered(l)'
        /\ \A k \in Links \ {l} : Offered(k)' = Offered(k)
    BY <1>4, <2>1
  <2>5. /\ crashed \subseteq crashed' /\ Offered(l)' \subseteq Offered(l)
        /\ UNCHANGED <<nextId, outbound, in_transit>>
        /\ fate'[o0.pkt.id] # "live"
    BY <1>3, <2>1, <2>2, <2>4
  <2>6. Loses /\ Distinct'
    BY <1>2, <1>5, <2>3, <2>4, <2>5, LinkLoses
  <2> QED
    BY <2>6 DEF LinkMoves
<1>7. CASE Panic(l, b)
  <2>1. /\ fate' = [fate EXCEPT ![o0.pkt.id] = "stranded"]
        /\ outgoing' = [outgoing EXCEPT ![l] = <<>>]
        /\ crashed' = crashed \union {<<"link", l>>}
        /\ UNCHANGED in_transit
    BY <1>1, <1>7 DEF Panic
  <2>2. \A i \in Ids : fate'[i] = fate[i] \/ (fate'[i] = "stranded" /\ i = o0.pkt.id)
    BY <1>2, <2>1 DEF TypeOK
  <2>3. Offered(l)' \subseteq Offered(l) /\ \A k \in Links \ {l} : Offered(k)' = Offered(k)
    BY <2>1 DEF Offered, TypeOK
  <2>4. crashed \subseteq crashed' /\ crashed' # {}
    BY <2>1
  <2>5. \A i \in Ids : \/ fate'[i] = fate[i]
                       \/ /\ fate'[i] \in {"buffer_cleared", "stranded"}
                          /\ i = o0.pkt.id /\ H # {}
    BY <1>5, <2>2
  <2>6. UNCHANGED <<nextId, outbound, in_transit>>
    BY <1>3, <2>1
  <2>7. Loses /\ Distinct'
    BY <1>2, <1>5, <2>3, <2>4, <2>5, <2>6, LinkLoses
  <2> QED
    BY <2>7 DEF LinkMoves
<1>8. ASSUME NEW extra \in ExtraDelays[l], NEW ce \in BOOLEAN, send(l, extra, ce),
             outgoing' = [outgoing EXCEPT ![l] = Tail(@)],
             UNCHANGED <<fate, crashed>>
      PROVE  LinkMoves(l)
  <2> DEFINE p == IF ce THEN [o0.pkt EXCEPT !.ecn = "ce"] ELSE o0.pkt
  <2>1. PICK r : r = [pkt |-> p, sent |-> now, arrival |-> now + delay[l] + extra, cut |-> FALSE]
    OBVIOUS
  <2>2. p \in Packet /\ extra \in Nat /\ p.id = o0.pkt.id /\ p.to = o0.pkt.to /\ p.ttl = o0.pkt.ttl
    BY <1>2, NetworkAssumption DEF Packet, Ecn
  <2>3. in_transit' = [in_transit EXCEPT ![l] = @ \union {r}]
    BY <1>1, <1>8, <2>1 DEF send
  <2> HIDE DEF p
  <2>4. r \in Transit /\ r.pkt = p
    BY <2>1, <2>2, SMTT(40) DEF Transit, TypeOK
  <2>5. Departs(l, o0.pkt, r.pkt) /\ Distinct'
    BY <1>2, <1>3, <1>4, <1>8, <2>2, <2>3, <2>4, SendDeparts
  <2> QED
    BY <2>5 DEF LinkMoves
<1> QED
  BY <1>6, <1>7, <1>8 DEF Claim, Marks

LEMMA ProceedMoves ==
  ASSUME TypeOK, TypeOK', CopyInv, NEW l \in Links, UNCHANGED others, outgoing[l] # <<>>,
         NEW ahead, NEW b, Proceed(l, ahead, b)
  PROVE  LinkMoves(l)
<1>1. Distinct
  BY DEF CopyInv, OnePlace, Distinct
<1>2. CASE already_handled(l) /\ Skip(l, b)
  BY <1>1, <1>2, SkipLoses DEF LinkMoves
<1>3. CASE Park(l, "yield", 0, ahead - 1, b)
  BY <1>1, <1>3, StillLoses DEF LinkMoves, Park, others
<1>4. CASE ~already_handled(l) /\ Claim(l, b)
  BY <1>4, ClaimMoves
<1> QED
  BY <1>2, <1>3, <1>4 DEF Proceed

LEMMA LinkQueueMoves ==
  ASSUME NetworkInv, TypeOK', CopyInv, NEW l \in Links, process_link_queue(l)
  PROVE  LinkMoves(l)
<1>1. TypeOK /\ Distinct
  BY DEF NetworkInv, CopyInv, OnePlace, Distinct
<1>2. UNCHANGED others /\ outgoing[l] # <<>>
  BY DEF process_link_queue, TakeNext, BandwidthSlept, LinkCameUp, NodeCameUp, WaitCancelled,
         YieldOver, NetworkInv
<1>3. ASSUME NEW pc, NEW wake, NEW b, Park(l, pc, wake, 0, b) PROVE LinkMoves(l)
  BY <1>1, <1>2, <1>3, StillLoses DEF LinkMoves, Park, others
<1>4. ASSUME NEW ahead, NEW b, Proceed(l, ahead, b) PROVE LinkMoves(l)
  BY <1>1, <1>2, <1>4, ProceedMoves
<1>5. ASSUME AwaitNode(l) PROVE LinkMoves(l)
  BY <1>3, <1>4, <1>5 DEF AwaitNode
<1>6. ASSUME already_handled(l), NEW b, Skip(l, b) PROVE LinkMoves(l)
  BY <1>1, <1>2, <1>6, SkipLoses DEF LinkMoves
<1>7. ASSUME NEW b, AssertionRaces(l, b) PROVE LinkMoves(l)
  <2>1. /\ crashed' = crashed \union {<<"link", l>>}
        /\ outgoing' = [outgoing EXCEPT ![l] = <<>>]
        /\ UNCHANGED <<fate, in_transit, handled, nextId, outbound>>
    BY <1>2, <1>7 DEF AssertionRaces, others
  <2>2. PICK o0 : o0 = outgoing[l][1]
    OBVIOUS
  <2>3. o0 \in Offered(l)
    BY <1>1, <1>2, <2>2, EmptySeq DEF TypeOK, Offered
  <2>4. Offered(l)' \subseteq Offered(l) /\ \A k \in Links \ {l} : Offered(k)' = Offered(k)
    BY <1>1, <2>1 DEF Offered, TypeOK
  <2>5. crashed \subseteq crashed' /\ crashed' # {}
    BY <2>1
  <2>6. /\ {} \subseteq {Key(o0.pkt)} \ handled /\ handled' = handled \union {}
        /\ \A i \in Ids : fate'[i] = fate[i]
    BY <2>1
  <2>7. Loses /\ Distinct'
    BY <1>1, <2>1, <2>3, <2>4, <2>5, <2>6, LinkLoses
  <2> QED
    BY <2>7 DEF LinkMoves
<1>8. CASE TakeNext(l)
  BY <1>3, <1>4, <1>7, <1>8 DEF TakeNext
<1>9. CASE BandwidthSlept(l)
  BY <1>3, <1>5, <1>9 DEF BandwidthSlept
<1>10. CASE LinkCameUp(l)
  BY <1>5, <1>10 DEF LinkCameUp
<1>11. CASE NodeCameUp(l)
  BY <1>3, <1>4, <1>11 DEF NodeCameUp
<1>12. CASE WaitCancelled(l)
  BY <1>6, <1>12 DEF WaitCancelled
<1>13. CASE YieldOver(l)
  BY <1>4, <1>13 DEF YieldOver
<1> QED
  BY <1>8, <1>9, <1>10, <1>11, <1>12, <1>13 DEF process_link_queue

----------------------------------------------------------------------------
(* Steps of a node's buffer *)

\* A link is offered a packet only by the node that it belongs to, and a packet
\* that is offered at all is offered to some link.
LEMMA OfferedByOwner ==
  ASSUME NEW n \in Nodes, NEW dest \in Nodes, NEW l \in Links,
         Times(Reachable(Routes[n][dest]), l) # 0
  PROVE  Source[l] = n
<1> DEFINE route == Routes[n][dest]
           k     == Before(route, {m \in Links : <<"link", m>> \in crashed})
           offer == Reachable(route)
<1>1. route \in Seq(Links) /\ offer \in Seq(Links)
  BY NetworkAssumption, ReachableType
<1>2. k \in 0 .. Len(route) /\ Len(route) \in Nat
  BY <1>1, BeforeType, LenProperties
<1>3. PICK i \in 1 .. Len(offer) : offer[i] = l
  <2> DEFINE S == {i \in 1 .. Len(offer) : offer[i] = l}
  <2>1. Cardinality({}) = 0
    BY FS_EmptySet
  <2>2. Cardinality(S) # 0
    BY DEF Times
  <2>3. S # {}
    BY <2>1, <2>2
  <2> QED
    BY <2>3
<1>4. offer = SubSeq(route, 1, k)
  BY DEF Reachable
<1> HIDE DEF route, k, offer
<1>5. \A j \in 1 .. k : route[j] \in Links
  BY <1>1, <1>2, ElementOfSeq
<1>6. /\ Len(offer) = IF 1 <= k THEN k - 1 + 1 ELSE 0
      /\ \A j \in 1 .. k - 1 + 1 : offer[j] = route[1 + j - 1]
  BY <1>2, <1>4, <1>5, SubSeqProperties
<1>7. i \in 1 .. Len(route) /\ offer[i] = route[i]
  BY <1>2, <1>3, <1>6
<1> QED
  BY <1>3, <1>7, RoutesAssumption DEF route

LEMMA SomeLinkOffered ==
  ASSUME NEW offer \in Seq(Links), offer # <<>>
  PROVE  \E l \in Links : Times(offer, l) # 0
<1>1. Len(offer) \in Nat \ {0}
  BY EmptySeq
<1>2. 1 \in 1 .. Len(offer) /\ offer[1] \in Links
  BY <1>1, ElementOfSeq
<1> DEFINE S == {i \in 1 .. Len(offer) : offer[i] = offer[1]}
<1>3. IsFiniteSet(S) /\ S # {}
  <2>1. \A a, b \in Int : IsFiniteSet(a .. b)
    BY FS_Interval
  <2>2. IsFiniteSet(1 .. Len(offer))
    BY <1>1, <2>1
  <2> QED
    BY <1>2, <2>2, FS_Subset
<1>4. Cardinality(S) # 0
  BY <1>3, FS_EmptySet
<1> QED
  BY <1>2, <1>4 DEF Times

LEMMA GrownOffers ==
  ASSUME TypeOK, NEW b \in Buffered, NEW times, NEW l \in Links, times \in Nat,
         outgoing'[l] = outgoing[l] \o [i \in 1 .. times |-> b]
  PROVE  \A o : o \in Offered(l)' <=> o \in Offered(l) \/ (times # 0 /\ o = b)
<1> DEFINE more == [i \in 1 .. times |-> b]
<1>1. more \in Seq(Buffered) /\ Len(more) = times /\ \A i \in 1 .. times : more[i] = b
  BY RepeatType
<1> HIDE DEF more
<1>2. Offered(l)' = Offered(l) \union Entries(more)
  <2>1. outgoing[l] \in Seq(Buffered) /\ more \in Seq(Buffered)
    BY <1>1 DEF TypeOK
  <2>2. Entries(outgoing[l] \o more) = Entries(outgoing[l]) \union Entries(more)
    BY <2>1, ElementsOfConcat
  <2>3. outgoing'[l] = outgoing[l] \o more
    BY DEF more
  <2>4. Offered(l) = Entries(outgoing[l]) /\ Offered(l)' = Entries(outgoing'[l])
    BY DEF Offered, Entries
  <2> QED
    BY <2>2, <2>3, <2>4
<1>3. \A o : o \in Entries(more) <=> times # 0 /\ o = b
  <2>1. times # 0 => 1 \in 1 .. times
    OBVIOUS
  <2>2. times = 0 => 1 .. times = {}
    OBVIOUS
  <2> QED
    BY <1>1, <2>1, <2>2 DEF Entries
<1> QED
  BY <1>2, <1>3

\* Node n offers packet p to links; other packets of its buffer may disappear.
OffersFrom(n, p) ==
  /\ <<"buffer", n, p>> \in Whereabouts
  /\ fate' = fate
  /\ p.id \in Lost
  /\ \A x \in Whereabouts \ Whereabouts' : x[1] = "buffer" /\ x[2] = n
  /\ Moves(Lost, {<<"offer", n, p>>})

LEMMA HeadOffered ==
  ASSUME TypeOK, TypeOK', CopyInv, NEW n \in Nodes, NEW b, InBuffer(n, b.pkt),
         UNCHANGED <<nextId, fate, handled, in_transit>>,
         \A m \in Nodes \ {n} : outbound'[m] = outbound[m],
         \A p : InBuffer(n, p)' => InBuffer(n, p) /\ p # b.pkt,
         crashed \subseteq crashed',
         crashed' = {} => \A p : InBuffer(n, p) /\ p # b.pkt => InBuffer(n, p)',
         NEW L \in SUBSET Links, L # {}, \A l \in L : Source[l] = n,
         \A l \in Links : \A o : o \in Offered(l)' <=> o \in Offered(l) \/ (l \in L /\ o = b)
  PROVE  OffersFrom(n, b.pkt)
<1> DEFINE c == b.pkt
           x0 == <<"buffer", n, c>>
           y0 == <<"offer", n, c>>
<1>1. /\ x0[1] = "buffer" /\ x0[2] = n /\ x0[3] = c
      /\ y0[1] = "offer" /\ y0[2] = n /\ y0[3] = c
  OBVIOUS
<1> HIDE DEF c
<1>2. x0 \in Whereabouts
  BY WhereaboutsNow DEF InSomePlace, c
<1>3. c \in Packet /\ c.id \in Ids /\ c.ttl \in Nat
  BY <1>1, <1>2, PlacedNow DEF WellPlaced, Packet
<1>4. Key(c) \notin handled
  <2> SUFFICES ASSUME Key(c) \in handled PROVE FALSE
    OBVIOUS
  <2>1. Key(c)[1] = c.id /\ Key(c)[2] = c.ttl
    BY DEF Key
  <2>2. c.ttl < Key(c)[2] \/ (x0[1] = "link" /\ c.ttl = Key(c)[2])
    BY <1>1, <1>2, <2>1 DEF CopyInv, HopsDescend
  <2> QED
    BY <1>1, <1>3, <2>1, <2>2
<1>6. \A m \in Nodes \ {n} : \A p : InBuffer(m, p)' <=> InBuffer(m, p)
  BY DEF InBuffer
<1>5. \A m \in Nodes : \A p : InBuffer(m, p)' => InBuffer(m, p) /\ (m = n => p # c)
  BY <1>6 DEF c
<1>7. \A l \in Links : \A p : Flying(l, p)' <=> Flying(l, p)
  BY DEF Flying
<1>8. \A l \in Links : \A p : Pending(l, p)' <=> Pending(l, p) \/ (l \in L /\ p = c)
  BY <1>4 DEF Pending, c
<1>9. y0 \in Whereabouts'
  BY <1>8, WhereaboutsNext DEF InSomePlace
<1>10. ASSUME NEW x \in Whereabouts' PROVE x = y0 \/ x \in Whereabouts
  <2>1. InSomePlace(x)'
    BY WhereaboutsNext
  <2>2. InSomePlace(x) \/ \E l \in L : x = <<"offer", Source[l], c>>
    BY <1>5, <1>7, <1>8, <2>1 DEF InSomePlace
  <2> QED
    BY <2>2, WhereaboutsNow
<1>11. x0 \notin Whereabouts'
  <2>1. ~InSomePlace(x0)'
    <3>1. \A m, p : x0 # <<"offer", m, p>> /\ x0 # <<"link", m, p>>
      OBVIOUS
    <3>2. \A m, p : x0 = <<"buffer", m, p>> => m = n /\ p = c
      OBVIOUS
    <3> HIDE DEF x0
    <3> QED
      BY <1>5, <3>1, <3>2 DEF InSomePlace
  <2> QED
    BY <2>1, WhereaboutsNext
<1>12. ASSUME NEW x \in Whereabouts \ Whereabouts'
       PROVE  x[1] = "buffer" /\ x[2] = n /\ (crashed' = {} => x = x0)
  <2>1. InSomePlace(x) /\ ~InSomePlace(x)'
    BY WhereaboutsNow, WhereaboutsNext
  <2>p2. PICK m \in Nodes : \E p : InBuffer(m, p) /\ x = <<"buffer", m, p>>
    BY <1>7, <1>8, <2>1 DEF InSomePlace
  <2>2. PICK p : InBuffer(m, p) /\ x = <<"buffer", m, p>>
    BY <2>p2
  <2>3. ~InBuffer(m, p)'
    BY <2>1, <2>2 DEF InSomePlace
  <2>4. m = n /\ (crashed' = {} => p = c)
    BY <1>6, <2>2, <2>3 DEF c
  <2> QED
    BY <2>2, <2>4
<1>13. c.id \in Lost /\ Lost \subseteq Ids
  <2>1. \A x \in Whereabouts : x[3].id \in Ids
    BY PlacedNow DEF WellPlaced, Packet
  <2> QED
    BY <1>1, <1>2, <1>11, <2>1 DEF Lost
<1>14. ASSUME NEW x PROVE x \in Whereabouts' <=> x = y0 \/ (x \in Whereabouts /\ x[3].id \notin Lost)
  <2>1. ASSUME x \in Whereabouts', x \in Whereabouts, x[3].id \in Lost PROVE FALSE
    <3>1. PICK y \in Whereabouts \ Whereabouts' : y[3].id = x[3].id
      BY <2>1 DEF Lost
    <3> QED
      BY <2>1, <3>1 DEF CopyInv, OnePlace
  <2>2. ASSUME x \in Whereabouts, x \notin Whereabouts' PROVE x[3].id \in Lost
    BY <2>2 DEF Lost
  <2> QED
    BY <1>9, <1>10, <2>1, <2>2
<1>15. ASSUME NEW i \in Lost
       PROVE  fate[i] = "live" /\ i < nextId /\ (crashed' = {} => i = c.id)
  <2>1. PICK x \in Whereabouts \ Whereabouts' : x[3].id = i
    BY DEF Lost
  <2>2. fate[i] = "live"
    BY <2>1 DEF CopyInv, Tracked
  <2>3. ~(i >= nextId)
    BY <1>13, <2>2 DEF CopyInv, Tracked
  <2>4. i \in Int /\ nextId \in Int
    BY <1>13 DEF Ids, TypeOK
  <2> QED
    BY <1>1, <1>12, <2>1, <2>2, <2>3, <2>4
<1>16. ASSUME NEW k \in handled, c.id = k[1] PROVE c.ttl < k[2]
  <2>1. c.ttl < k[2] \/ (x0[1] = "link" /\ c.ttl = k[2])
    BY <1>1, <1>2, <1>16 DEF CopyInv, HopsDescend
  <2> QED
    BY <1>1, <2>1
<1>17. \A l \in Links : \A o \in Offered(l)' : o \in Offered(l) \/ o.pkt.id \in Lost
  BY <1>13 DEF c
<1>18. Moves(Lost, {y0})
  <2>1. nextId <= nextId'
    BY DEF TypeOK
  <2>2. y0[3].id \in Lost /\ fate'[y0[3].id] = "live"
    BY <1>1, <1>13, <1>15
  <2>3. \A i \in Lost : fate'[i] # "unborn" /\ i < nextId'
    BY <1>15
  <2>4. crashed' = {} => \A i \in Lost : y0[3].id = i
    BY <1>1, <1>15
  <2>5. \A k \in handled' : y0[3].id = k[1] => y0[3].ttl < k[2]
    BY <1>1, <1>16
  <2> HIDE DEF y0
  <2> QED
    BY <1>13, <1>14, <1>17, <2>1, <2>2, <2>3, <2>4, <2>5 DEF Moves
<1> QED
  BY <1>2, <1>12, <1>13, <1>18 DEF OffersFrom, c

LEMMA BufferMoves ==
  ASSUME TypeOK, TypeOK', CopyInv, NEW n \in Nodes, process_buffer(n)
  PROVE  Distinct' /\ (Loses \/ \E p : OffersFrom(n, p))
<1>1. PICK b : b = Head(outbound[n])
  OBVIOUS
<1> DEFINE route == Routes[n][b.pkt.to]
           offer == Reachable(route)
<1>2. /\ outbound[n] \in Seq(Buffered) /\ outbound[n] # <<>> /\ b \in Buffered
      /\ b.pkt \in Packet /\ b.pkt.to \in Nodes /\ b.pkt.id \in Ids
  <2>1. outbound[n] \in Seq(Buffered) /\ outbound[n] # <<>>
    BY DEF TypeOK, process_buffer
  <2>2. b \in Buffered
    BY <1>1, <2>1, HeadTailProperties
  <2> QED
    BY <2>1, <2>2 DEF Buffered, Packet
<1>3. route \in Seq(Links) /\ offer \in Seq(Links)
  BY <1>2, NetworkAssumption, ReachableType
<1>4. /\ UNCHANGED <<nextId, in_transit, handled>>
      /\ outgoing' = [l \in Links |-> outgoing[l] \o [i \in 1 .. Times(offer, l) |-> b]]
      /\ \/ /\ route # <<>> /\ offer = route
            /\ outbound' = [outbound EXCEPT ![n] = Tail(@)]
            /\ UNCHANGED <<fate, crashed>>
         \/ /\ route = <<>> \/ offer # route
            /\ outbound' = [outbound EXCEPT ![n] = <<>>]
            /\ crashed' = crashed \union {<<"buffer", n>>}
            /\ fate' = IF offer = <<>>
                       THEN [fate EXCEPT ![b.pkt.id] = "stranded"] ELSE fate
  BY <1>1, Zenon DEF process_buffer
<1> DEFINE L == {l \in Links : Times(offer, l) # 0}
<1>5. \A l \in L : Source[l] = n
  BY <1>2, OfferedByOwner
<1>6. offer # <<>> => L # {}
  BY <1>3, SomeLinkOffered
<1>7. offer = <<>> => L = {}
  <2>1. ASSUME NEW l \in Links, offer = <<>> PROVE Times(offer, l) = 0
    <3>1. {i \in 1 .. Len(offer) : offer[i] = l} = {}
      BY <2>1
    <3> QED
      BY <3>1, FS_EmptySet DEF Times
  <2> QED
    BY <2>1
<1>8. \A l \in Links : \A o : o \in Offered(l)' <=> o \in Offered(l) \/ (l \in L /\ o = b)
  <2> SUFFICES ASSUME NEW l \in Links
               PROVE  \A o : o \in Offered(l)' <=> o \in Offered(l) \/ (Times(offer, l) # 0 /\ o = b)
    OBVIOUS
  <2>1. PICK times : times = Times(offer, l)
    OBVIOUS
  <2>2. times \in Nat /\ outgoing'[l] = outgoing[l] \o [i \in 1 .. times |-> b]
    BY <1>3, <1>4, <2>1, TimesType
  <2> QED
    BY <1>2, <2>1, <2>2, GrownOffers
<1> HIDE DEF L, offer
<1>9. \A m \in Nodes \ {n} : outbound'[m] = outbound[m]
  BY <1>4 DEF TypeOK
<1>10. /\ Len(outbound[n]) \in Nat \ {0} /\ outbound[n][1] = b
       /\ Len(Tail(outbound[n])) = Len(outbound[n]) - 1
       /\ \A i \in 1 .. Len(Tail(outbound[n])) : Tail(outbound[n])[i] = outbound[n][i + 1]
  BY <1>1, <1>2, EmptySeq, HeadTailProperties
<1>11. outbound'[n] = Tail(outbound[n]) \/ outbound'[n] = <<>>
  BY <1>4 DEF TypeOK
<1>12. ASSUME NEW i \in 1 .. Len(outbound'[n])
       PROVE  i + 1 \in 1 .. Len(outbound[n]) /\ outbound'[n][i] = outbound[n][i + 1]
  <2>1. CASE outbound'[n] = Tail(outbound[n])
    <3>1. i \in 1 .. Len(Tail(outbound[n]))
      BY <2>1
    <3>2. i + 1 \in 1 .. Len(outbound[n])
      BY <1>10, <3>1
    <3> QED
      BY <1>10, <2>1, <3>1, <3>2
  <2>2. CASE outbound'[n] = <<>>
    <3>1. Len(outbound'[n]) = 0
      BY <2>2
    <3> QED
      BY <3>1
  <2> QED
    BY <1>11, <2>1, <2>2
<1>13. Distinct
  BY DEF CopyInv, OnePlace, Distinct
<1>14. Distinct'
  <2>1. ASSUME NEW i \in 1 .. Len(outbound'[n]), NEW k \in 1 .. Len(outbound'[n]),
               outbound'[n][i].pkt.id = outbound'[n][k].pkt.id
        PROVE  i = k
    <3>0. /\ i + 1 \in 1 .. Len(outbound[n]) /\ outbound'[n][i] = outbound[n][i + 1]
          /\ k + 1 \in 1 .. Len(outbound[n]) /\ outbound'[n][k] = outbound[n][k + 1]
      BY <1>12
    <3>1. i + 1 = k + 1
      BY <1>13, <2>1, <3>0 DEF Distinct
    <3>2. i \in Int /\ k \in Int
      OBVIOUS
    <3> QED
      BY <3>1, <3>2
  <2> QED
    BY <1>4, <1>9, <1>13, <2>1 DEF Distinct
<1>15. 1 \in 1 .. Len(outbound[n]) /\ InBuffer(n, b.pkt)
  BY <1>10 DEF InBuffer
<1>16. ASSUME NEW p, InBuffer(n, p)' PROVE InBuffer(n, p) /\ p # b.pkt
  <2>1. PICK i \in 1 .. Len(outbound'[n]) : outbound'[n][i].pkt = p
    BY <1>16 DEF InBuffer
  <2>2. i + 1 \in 1 .. Len(outbound[n]) /\ outbound[n][i + 1].pkt = p
    BY <1>12, <2>1
  <2>3. i + 1 # 1
    OBVIOUS
  <2>4. p # b.pkt
    BY <1>10, <1>13, <1>15, <2>2, <2>3 DEF Distinct
  <2> QED
    BY <2>2, <2>4 DEF InBuffer
<1>17. CASE fate' = fate /\ offer # <<>>
  <2>1. crashed \subseteq crashed'
    BY <1>4
  <2>2. ASSUME crashed' = {}, NEW p, InBuffer(n, p), p # b.pkt PROVE InBuffer(n, p)'
    <3>1. outbound'[n] = Tail(outbound[n])
      BY <1>4, <2>2 DEF TypeOK
    <3>2. PICK i \in 1 .. Len(outbound[n]) : outbound[n][i].pkt = p
      BY <2>2 DEF InBuffer
    <3>3. i # 1
      BY <1>10, <2>2, <3>2
    <3>4. i - 1 \in 1 .. Len(Tail(outbound[n])) /\ (i - 1) + 1 = i
      BY <1>10, <3>3
    <3>5. outbound'[n][i - 1].pkt = p
      BY <1>10, <3>1, <3>2, <3>4
    <3> QED
      BY <3>1, <3>4, <3>5 DEF InBuffer
  <2>3. L \in SUBSET Links /\ L # {}
    BY <1>6, <1>17 DEF L
  <2>4. UNCHANGED <<nextId, fate, handled, in_transit>>
    BY <1>4, <1>17
  <2>5. OffersFrom(n, b.pkt)
    BY <1>5, <1>8, <1>9, <1>15, <1>16, <2>1, <2>2, <2>3, <2>4, HeadOffered
  <2> QED
    BY <1>14, <2>5
<1>18. CASE offer = <<>>
  <2>1. /\ outbound' = [outbound EXCEPT ![n] = <<>>]
        /\ crashed' = crashed \union {<<"buffer", n>>}
        /\ fate' = [fate EXCEPT ![b.pkt.id] = "stranded"]
    BY <1>4, <1>18, Zenon
  <2>2. \A l \in Links : \A o : o \in Offered(l)' <=> o \in Offered(l)
    BY <1>7, <1>8, <1>18
  <2>3. /\ \A l \in Links : \A p : Pending(l, p)' <=> Pending(l, p)
        /\ \A l \in Links : \A p : Flying(l, p)' <=> Flying(l, p)
    BY <1>4, <2>2 DEF Pending, Flying
  <2>4. /\ \A m \in Nodes \ {n} : \A p : InBuffer(m, p)' <=> InBuffer(m, p)
        /\ \A p : ~InBuffer(n, p)'
    BY <1>9, <2>1 DEF InBuffer, TypeOK
  <2>5. \A x : x \in Whereabouts' <=>
          x \in Whereabouts /\ ~\E p : InBuffer(n, p) /\ x = <<"buffer", n, p>>
    <3>1. \A x, m, p, q : x = <<"buffer", m, p>> =>
            /\ x # <<"offer", m, q>> /\ x # <<"link", m, q>>
            /\ \A k : x = <<"buffer", k, q>> => k = m /\ p = q
      OBVIOUS
    <3>2. \A x, m, p, k, q : x = <<"offer", m, p>> \/ x = <<"link", m, p>> => x # <<"buffer", k, q>>
      OBVIOUS
    <3>3. \A x : InSomePlace(x)' <=>
            InSomePlace(x) /\ ~\E p : InBuffer(n, p) /\ x = <<"buffer", n, p>>
      BY <2>3, <2>4, <3>1, <3>2 DEF InSomePlace
    <3> QED
      BY <3>3, WhereaboutsNow, WhereaboutsNext
  <2>6. \A x \in Whereabouts \ Whereabouts' : x[1] # "link" /\ x[2] = n
    BY <2>5
  <2>7. PICK x0 : x0 = <<"buffer", n, b.pkt>>
    OBVIOUS
  <2>8. x0 \in Whereabouts \ Whereabouts' /\ x0[3].id = b.pkt.id
    <3>1. x0 \in Whereabouts
      BY <1>15, <2>7, WhereaboutsNow DEF InSomePlace
    <3> QED
      BY <1>15, <2>5, <2>7, <3>1
  <2>9. \A i \in Ids : fate'[i] = fate[i] \/ (fate'[i] = "stranded" /\ i = b.pkt.id)
    BY <1>2, <2>1 DEF TypeOK
  <2>10. crashed \subseteq crashed' /\ crashed' # {}
    BY <2>1
  <2>11. Loses
    BY <1>4, <2>2, <2>5, <2>6, <2>8, <2>9, <2>10 DEF Loses
  <2> QED
    BY <1>14, <2>11
<1> QED
  BY <1>4, <1>17, <1>18

----------------------------------------------------------------------------
(* Steps that bring a packet into a node *)

\* Packet p is on its way into a node: in no buffer, not waiting for a link, and
\* with fewer hops left than at its earlier stays; the step takes it off its link.
Incoming(p) ==
  /\ \A x \in Whereabouts : x[3].id = p.id => x[1] = "link"
  /\ \A k \in handled : k[1] = p.id => p.ttl <= k[2]
  /\ \A l \in Links : \A q : Flying(l, q)' <=> Flying(l, q) /\ q.id # p.id
  /\ \A l \in Links : \A r, s \in in_transit'[l] : r.pkt.id = s.pkt.id => r = s
  /\ handled' = handled /\ outgoing' = outgoing

\* Node n stores the copies S of packet p; I are their ids, p's own among them.
LEMMA StoredMoves ==
  ASSUME TypeOK, TypeOK', CopyInv, NEW n \in Nodes, NEW p \in Packet, p.ttl \in Nat, Incoming(p),
         NEW I \in SUBSET Ids, p.id \in I, \A i \in I : i # p.id => i >= nextId,
         nextId <= nextId', \A i \in I : i < nextId' /\ fate'[i] # "unborn",
         \A i \in Ids \ I : fate'[i] = fate[i],
         NEW S \in SUBSET Packet,
         \A q \in S : q.id \in I /\ q.ttl = p.ttl - 1 /\ fate'[q.id] = "live",
         \A q, r \in S : q.id = r.id => q = r,
         \A m \in Nodes : \A q : InBuffer(m, q)' <=> InBuffer(m, q) \/ (m = n /\ q \in S),
         crashed \subseteq crashed',
         crashed' = {} => \A i \in I : fate'[i] = "live" => \E q \in S : q.id = i
  PROVE  Moves(I, {<<"buffer", n, q>> : q \in S})
<1> DEFINE New == {<<"buffer", n, q>> : q \in S}
<1>1. ASSUME NEW x \in Whereabouts
      PROVE  /\ x[3].id \in Ids /\ fate[x[3].id] = "live"
             /\ x[3].id \in I => x[3].id = p.id /\ x[1] = "link"
  <2>1. x[3].id \in Ids
    BY PlacedNow DEF WellPlaced, Packet
  <2>2. fate[x[3].id] = "live"
    BY DEF CopyInv, Tracked
  <2>3. ~(x[3].id >= nextId)
    BY <2>1, <2>2 DEF CopyInv, Tracked
  <2> QED
    BY <2>1, <2>2, <2>3 DEF Incoming
<1>2. \A l \in Links : \A q : Pending(l, q)' <=> Pending(l, q)
  BY DEF Pending, Offered, Incoming
<1>3. \A l \in Links : \A q : Flying(l, q)' <=> Flying(l, q) /\ q.id # p.id
  BY DEF Incoming
<1>4. ASSUME NEW x PROVE x \in Whereabouts' <=> x \in New \/ (x \in Whereabouts /\ x[3].id \notin I)
  <2>1. ASSUME x \in Whereabouts' PROVE x \in New \/ (x \in Whereabouts /\ x[3].id \notin I)
    <3>1. InSomePlace(x)'
      BY <2>1, WhereaboutsNext
    <3>2. ASSUME NEW m \in Nodes, NEW q, InBuffer(m, q), x = <<"buffer", m, q>>
          PROVE  x \in Whereabouts /\ x[1] # "link"
      BY <3>2, WhereaboutsNow DEF InSomePlace
    <3>3. ASSUME NEW l \in Links, NEW q, Pending(l, q), x = <<"offer", Source[l], q>>
          PROVE  x \in Whereabouts /\ x[1] # "link"
      BY <3>3, WhereaboutsNow DEF InSomePlace
    <3>4. ASSUME NEW l \in Links, NEW q, Flying(l, q), q.id # p.id, x = <<"link", l, q>>
          PROVE  x \in Whereabouts /\ x[3].id # p.id
      BY <3>4, WhereaboutsNow DEF InSomePlace
    <3>5. x \in New \/ (x \in Whereabouts /\ (x[1] # "link" \/ x[3].id # p.id))
      BY <1>2, <1>3, <3>1, <3>2, <3>3, <3>4 DEF InSomePlace
    <3> HIDE DEF New
    <3> QED
      BY <1>1, <3>5
  <2>2. ASSUME x \in New PROVE x \in Whereabouts'
    BY <2>2, WhereaboutsNext DEF InSomePlace
  <2>3. ASSUME x \in Whereabouts, x[3].id \notin I PROVE x \in Whereabouts'
    <3>1. InSomePlace(x)
      BY <2>3, WhereaboutsNow
    <3>2. ASSUME NEW l \in Links, NEW q, Flying(l, q), x = <<"link", l, q>> PROVE Flying(l, q)'
      <4>1. x[3] = q
        BY <3>2
      <4> QED
        BY <1>3, <2>3, <3>2, <4>1
    <3> QED
      BY <1>2, <3>1, <3>2, WhereaboutsNext DEF InSomePlace
  <2> QED
    BY <2>1, <2>2, <2>3
<1>5. ASSUME NEW x \in New PROVE \E q \in S : x = <<"buffer", n, q>> /\ x[3] = q
  OBVIOUS
<1>6. \A q \in S : <<"buffer", n, q>> \in New /\ <<"buffer", n, q>>[3] = q
  OBVIOUS
<1> HIDE DEF New
<1>7. ASSUME NEW q \in S, NEW k \in handled', q.id = k[1] PROVE q.ttl < k[2]
  <2>1. k \in handled /\ fate[k[1]] # "unborn" /\ k[1] \in Ids /\ k[2] \in Nat
    BY DEF Incoming, CopyInv, Tracked, TypeOK
  <2>2. ~(k[1] >= nextId)
    BY <2>1 DEF CopyInv, Tracked
  <2>3. k[1] = p.id
    BY <1>7, <2>2
  <2>4. p.ttl <= k[2]
    BY <2>1, <2>3 DEF Incoming
  <2> QED
    BY <2>1, <2>4
<1>8. /\ \A x \in New : x[3].id \in I /\ fate'[x[3].id] = "live"
      /\ \A x, y \in New : x[3].id = y[3].id => x = y
      /\ \A x \in New : \A k \in handled' : x[3].id = k[1] => x[3].ttl < k[2]
  BY <1>5, <1>7
<1>9. crashed' = {} => \A i \in I : fate'[i] = "live" => \E x \in New : x[3].id = i
  BY <1>6, ZenonT(40)
<1>10. /\ \A k \in handled' : k \in handled
       /\ \A l \in Links : \A o \in Offered(l)' : o \in Offered(l)
  BY DEF Incoming, Offered
<1> QED
  BY <1>4, <1>8, <1>9, <1>10 DEF Moves, New

\* What a buffer becomes when packets with new ids are added to it
LEMMA GrownBuffer ==
  ASSUME TypeOK, NEW n \in Nodes, NEW copies \in Seq(Packet), NEW fit \in 0 .. Len(copies),
         \A i, j \in 1 .. Len(copies) : copies[i].id = copies[j].id => i = j,
         \A i \in 1 .. Len(copies) : \A j \in 1 .. Len(outbound[n]) :
           outbound[n][j].pkt.id # copies[i].id,
         \A i, j \in 1 .. Len(outbound[n]) :
           outbound[n][i].pkt.id = outbound[n][j].pkt.id => i = j,
         outbound' = [outbound EXCEPT ![n] =
           @ \o [i \in 1 .. fit |-> [pkt |-> copies[i], since |-> now]]]
  PROVE  /\ \A q : InBuffer(n, q)' <=> InBuffer(n, q) \/ \E i \in 1 .. fit : q = copies[i]
         /\ \A m \in Nodes \ {n} : outbound'[m] = outbound[m]
         /\ \A i, j \in 1 .. Len(outbound'[n]) :
              outbound'[n][i].pkt.id = outbound'[n][j].pkt.id => i = j
<1> DEFINE more == [i \in 1 .. fit |-> [pkt |-> copies[i], since |-> now]]
           old  == outbound[n]
<1>1. Len(copies) \in Nat /\ fit \in Nat /\ \A i \in 1 .. fit : i \in 1 .. Len(copies) /\ copies[i] \in Packet
  <2>1. Len(copies) \in Nat
    BY LenProperties
  <2> QED
    BY <2>1, ElementOfSeq
<1>2. more \in Seq(Buffered) /\ Len(more) = fit /\ \A i \in 1 .. fit : more[i].pkt = copies[i]
  BY <1>1 DEF Buffered, TypeOK
<1>3. outbound'[n] = old \o more /\ \A m \in Nodes \ {n} : outbound'[m] = outbound[m]
  BY DEF TypeOK
<1>4. old \in Seq(Buffered) /\ Len(old) \in Nat
  BY LenProperties DEF TypeOK
<1> HIDE DEF more
<1>5. /\ Len(outbound'[n]) = Len(old) + fit
      /\ \A i \in 1 .. Len(old) + fit :
           outbound'[n][i] = IF i <= Len(old) THEN old[i] ELSE more[i - Len(old)]
  <2>1. more \in Seq(Buffered)
    BY <1>2
  <2>2. /\ Len(old \o more) = Len(old) + Len(more)
        /\ \A i \in 1 .. Len(old) + Len(more) :
             (old \o more)[i] = IF i <= Len(old) THEN old[i] ELSE more[i - Len(old)]
    BY <1>4, <2>1, ConcatProperties
  <2> QED
    BY <1>2, <1>3, <2>2, Zenon
<1>6. ASSUME NEW i \in 1 .. Len(outbound'[n])
      PROVE  \/ i \in 1 .. Len(old) /\ outbound'[n][i] = old[i]
             \/ /\ i - Len(old) \in 1 .. fit
                /\ outbound'[n][i].pkt = copies[i - Len(old)]
  <2>1. CASE i <= Len(old)
    BY <1>1, <1>4, <1>5, <2>1
  <2>2. CASE ~(i <= Len(old))
    <3>1. i - Len(old) \in 1 .. fit
      BY <1>1, <1>4, <1>5, <2>2
    <3> QED
      BY <1>2, <1>5, <2>2, <3>1
  <2> QED
    BY <2>1, <2>2
<1>7. ASSUME NEW i \in 1 .. fit
      PROVE  /\ i + Len(old) \in 1 .. Len(outbound'[n])
             /\ outbound'[n][i + Len(old)].pkt = copies[i]
  <2>1. /\ i + Len(old) \in 1 .. Len(old) + fit /\ ~(i + Len(old) <= Len(old))
        /\ (i + Len(old)) - Len(old) = i
    BY <1>1, <1>4
  <2> QED
    BY <1>2, <1>5, <2>1
<1>8. ASSUME NEW i \in 1 .. Len(old)
      PROVE  i \in 1 .. Len(outbound'[n]) /\ outbound'[n][i] = old[i]
  <2>1. i \in 1 .. Len(old) + fit /\ i <= Len(old)
    BY <1>1, <1>4
  <2> QED
    BY <1>5, <2>1
<1>9. ASSUME NEW q
      PROVE  InBuffer(n, q)' <=> InBuffer(n, q) \/ \E i \in 1 .. fit : q = copies[i]
  <2>1. ASSUME InBuffer(n, q)' PROVE InBuffer(n, q) \/ \E i \in 1 .. fit : q = copies[i]
    <3>1. PICK i \in 1 .. Len(outbound'[n]) : outbound'[n][i].pkt = q
      BY <2>1 DEF InBuffer
    <3> QED
      BY <1>6, <3>1 DEF InBuffer
  <2>2. ASSUME InBuffer(n, q) PROVE InBuffer(n, q)'
    <3>1. PICK i \in 1 .. Len(old) : old[i].pkt = q
      BY <2>2 DEF InBuffer
    <3> QED
      BY <1>8, <3>1 DEF InBuffer
  <2>3. ASSUME NEW i \in 1 .. fit, q = copies[i] PROVE InBuffer(n, q)'
    BY <1>7, <2>3 DEF InBuffer
  <2> QED
    BY <2>1, <2>2, <2>3
<1>10. ASSUME NEW i \in 1 .. Len(outbound'[n]), NEW j \in 1 .. Len(outbound'[n]),
              outbound'[n][i].pkt.id = outbound'[n][j].pkt.id
       PROVE  i = j
  <2>1. i \in Int /\ j \in Int
    OBVIOUS
  <2>2. CASE i \in 1 .. Len(old) /\ j \in 1 .. Len(old)
    <3>1. outbound'[n][i] = old[i] /\ outbound'[n][j] = old[j]
      BY <1>8, <2>2
    <3> QED
      BY <1>10, <2>2, <3>1
  <2>3. CASE i - Len(old) \in 1 .. fit /\ j - Len(old) \in 1 .. fit
    <3>1. i \notin 1 .. Len(old) /\ j \notin 1 .. Len(old)
      BY <1>1, <1>4, <2>3
    <3>2. outbound'[n][i].pkt = copies[i - Len(old)] /\ outbound'[n][j].pkt = copies[j - Len(old)]
      BY <1>6, <3>1
    <3>3. i - Len(old) = j - Len(old)
      BY <1>1, <1>10, <2>3, <3>2
    <3> QED
      BY <1>4, <2>1, <3>3
  <2>4. ASSUME NEW a \in 1 .. Len(outbound'[n]), NEW c \in 1 .. Len(outbound'[n]),
               a \in 1 .. Len(old), c - Len(old) \in 1 .. fit
        PROVE  outbound'[n][a].pkt.id # outbound'[n][c].pkt.id
    <3>1. c \notin 1 .. Len(old)
      BY <1>1, <1>4, <2>4
    <3>2. outbound'[n][a] = old[a] /\ outbound'[n][c].pkt = copies[c - Len(old)]
      BY <1>6, <1>8, <2>4, <3>1
    <3> QED
      BY <1>1, <2>4, <3>2
  <2> QED
    BY <1>6, <1>10, <2>2, <2>3, <2>4
<1> QED
  BY <1>3, <1>9, <1>10

\* Packet p enters node n: it is stored there with a hop less, together with a
\* copy of it perhaps, or it ends.
Enters(n, p) ==
  \E I, New :
    /\ Moves(I, New)
    /\ p.id \in I
    /\ \/ I = {p.id}
       \/ \E c \in Ids : /\ c # p.id /\ fate[c] = "unborn" /\ I = {p.id, c}
                         /\ n # p.to /\ p.ttl > 1
    /\ \A x \in New : /\ x[1] = "buffer" /\ x[2] = n /\ n # p.to /\ p.ttl > 1
                      /\ x[3].to = p.to /\ x[3].ttl = p.ttl - 1
    /\ fate'[p.id] = "delivered" => n = p.to
    /\ \A c \in I : c # p.id => fate'[c] # "delivered"

LEMMA EndEnters ==
  ASSUME TypeOK, TypeOK', CopyInv, NEW n \in Nodes, NEW p \in Packet, Incoming(p),
         NEW why \in Fates \ {"unborn", "live"}, NEW fresh \in Nat, nextId <= fresh, p.id < fresh,
         why = "delivered" => n = p.to,
         End(p, why, fresh)
  PROVE  Enters(n, p) /\ Distinct'
<1>1. p.id \in Ids /\ p.ttl \in Nat
  BY DEF Packet
<1>2. /\ fate' = [fate EXCEPT ![p.id] = why] /\ nextId' = fresh
      /\ UNCHANGED <<outbound, crashed>>
  BY DEF End
<1>3. fate'[p.id] = why /\ \A i \in Ids \ {p.id} : fate'[i] = fate[i]
  BY <1>1, <1>2 DEF TypeOK
<1>4. \A m \in Nodes : \A q : InBuffer(m, q)' <=> InBuffer(m, q)
  BY <1>2 DEF InBuffer
<1> DEFINE New == {<<"buffer", n, q>> : q \in {}}
<1>5. Moves({p.id}, New)
  <2>1. {p.id} \in SUBSET Ids /\ {} \in SUBSET Packet /\ why # "live" /\ why # "unborn"
    BY <1>1
  <2>2. nextId <= nextId' /\ \A i \in {p.id} : i < nextId' /\ fate'[i] # "unborn" /\ fate'[i] # "live"
    BY <1>2, <1>3, <2>1
  <2> QED
    BY <1>1, <1>2, <1>3, <1>4, <2>1, <2>2, StoredMoves
<1>6. New = {}
  OBVIOUS
<1>7. Distinct'
  BY <1>2 DEF Incoming, CopyInv, OnePlace, Distinct
<1> HIDE DEF New
<1>8. Enters(n, p)
  BY <1>3, <1>5, <1>6 DEF Enters
<1> QED
  BY <1>7, <1>8

LEMMA EnqueueEnters ==
  ASSUME TypeOK, TypeOK', CopyInv, NEW n \in Nodes, NEW p \in Packet, Incoming(p),
         n # p.to, p.ttl > 1,
         NEW copies \in Seq(Packet), Len(copies) \in {1, 2}, copies[1].id = p.id,
         Len(copies) = 2 => copies[2].id # p.id /\ copies[2].id >= nextId,
         \A i \in 1 .. Len(copies) :
           copies[i].to = p.to /\ copies[i].ttl = p.ttl - 1 /\ copies[i].id < nextId',
         nextId <= nextId', NEW caller, enqueue_outbound(n, copies, caller)
  PROVE  Enters(n, p) /\ Distinct'
<1> DEFINE size == copies[1].size
           fit  == Fits(n, size, Len(copies))
           kept == {copies[i].id : i \in 1 .. fit}
           I    == {copies[i].id : i \in 1 .. Len(copies)}
           S    == {copies[i] : i \in 1 .. fit}
           New  == {<<"buffer", n, q>> : q \in S}
<1>1. p.id \in Ids /\ p.ttl \in Nat /\ Ids \subseteq Int /\ nextId \in Int /\ nextId' \in Int
  BY DEF Packet, Ids, TypeOK
<1>2. fit \in 0 .. Len(copies)
  BY DEF Fits
<1>3. ASSUME NEW i \in 1 .. Len(copies) PROVE copies[i] \in Packet /\ copies[i].id \in Ids
  <2>1. copies[i] \in Packet
    BY ElementOfSeq
  <2> QED
    BY <2>1 DEF Packet
<1>4. \A i, j \in 1 .. Len(copies) : copies[i].id = copies[j].id => i = j
  OBVIOUS
<1>5. /\ I \in SUBSET Ids /\ p.id \in I
      /\ \A i \in I : (i # p.id => i >= nextId) /\ i < nextId'
      /\ I = {p.id} \/ (Len(copies) = 2 /\ I = {p.id, copies[2].id})
  <2>1. CASE Len(copies) = 1
    BY <1>3, <2>1
  <2>2. CASE Len(copies) = 2
    <3>1. I = {copies[1].id, copies[2].id}
      BY <2>2
    <3>2. 1 \in 1 .. Len(copies) /\ 2 \in 1 .. Len(copies)
      BY <2>2
    <3> QED
      BY <1>3, <2>2, <3>1, <3>2
  <2> QED
    BY <2>1, <2>2
<1>6. Len(copies) = 2 => copies[2].id \in Ids /\ fate[copies[2].id] = "unborn"
  BY <1>3 DEF CopyInv, Tracked
<1>7. \A q \in S : \E i \in 1 .. Len(copies) : q = copies[i] /\ i \in 1 .. fit
  BY <1>2
<1> HIDE DEF fit, I
<1>8. CASE /\ outbound' = [outbound EXCEPT ![n] =
                @ \o [i \in 1 .. fit |-> [pkt |-> copies[i], since |-> now]]]
           /\ fate' = [i \in Ids |-> IF i \in kept THEN "live"
                                     ELSE IF i \in I THEN "buffer_full" ELSE fate[i]]
           /\ crashed' = crashed
  <2>1. Distinct
    BY DEF CopyInv, OnePlace, Distinct
  <2>2. ASSUME NEW i \in 1 .. Len(copies), NEW j \in 1 .. Len(outbound[n])
        PROVE  outbound[n][j].pkt.id # copies[i].id
    <3>1. PICK x : x = <<"buffer", n, outbound[n][j].pkt>>
      OBVIOUS
    <3>2. x[1] # "link" /\ x[3] = outbound[n][j].pkt
      BY <3>1
    <3>3. x \in Whereabouts
      BY <3>1, WhereaboutsNow DEF InSomePlace, InBuffer
    <3>4. x[3].id # p.id /\ fate[x[3].id] = "live"
      BY <3>2, <3>3 DEF Incoming, CopyInv, Tracked
    <3>5. i = 1 \/ (i = 2 /\ Len(copies) = 2)
      OBVIOUS
    <3> QED
      BY <1>6, <3>2, <3>4, <3>5
  <2>3. /\ \A q : InBuffer(n, q)' <=> InBuffer(n, q) \/ \E i \in 1 .. fit : q = copies[i]
        /\ \A m \in Nodes \ {n} : outbound'[m] = outbound[m]
        /\ \A i, j \in 1 .. Len(outbound'[n]) :
             outbound'[n][i].pkt.id = outbound'[n][j].pkt.id => i = j
    BY <1>2, <1>4, <1>8, <2>1, <2>2, GrownBuffer DEF Distinct
  <2>4. Distinct'
    <3>1. ASSUME NEW m \in Nodes, NEW i \in 1 .. Len(outbound'[m]), NEW j \in 1 .. Len(outbound'[m]),
                 outbound'[m][i].pkt.id = outbound'[m][j].pkt.id
          PROVE  i = j
      <4>1. CASE m = n
        BY <2>3, <3>1, <4>1
      <4>2. CASE m # n
        <5>1. outbound'[m] = outbound[m]
          BY <2>3, <4>2
        <5> QED
          BY <2>1, <3>1, <5>1 DEF Distinct
      <4> QED
        BY <4>1, <4>2
    <3> QED
      BY <3>1 DEF Distinct, Incoming
  <2>5. \A m \in Nodes : \A q : InBuffer(m, q)' <=> InBuffer(m, q) \/ (m = n /\ q \in S)
    <3>1. \A q : InBuffer(n, q)' <=> InBuffer(n, q) \/ q \in S
      BY <2>3
    <3>2. \A m \in Nodes \ {n} : \A q : InBuffer(m, q)' <=> InBuffer(m, q)
      BY <2>3 DEF InBuffer
    <3> QED
      BY <3>1, <3>2
  <2>6. ASSUME NEW q \in S
        PROVE  /\ q \in Packet /\ q.id \in I /\ q.to = p.to /\ q.ttl = p.ttl - 1
               /\ q.id \in kept /\ fate'[q.id] = "live"
    <3>1. PICK i \in 1 .. Len(copies) : q = copies[i] /\ i \in 1 .. fit
      BY <1>7
    <3>2. q \in Packet /\ q.id \in Ids /\ q.id \in I /\ q.to = p.to /\ q.ttl = p.ttl - 1
      BY <1>3, <3>1 DEF I
    <3>3. q.id \in kept
      BY <3>1
    <3> QED
      BY <1>8, <3>2, <3>3
  <2>7. ASSUME NEW q \in S, NEW r \in S, q.id = r.id PROVE q = r
    <3>1. PICK i \in 1 .. Len(copies) : q = copies[i]
      BY <1>7
    <3>2. PICK j \in 1 .. Len(copies) : r = copies[j]
      BY <1>7
    <3> QED
      BY <1>4, <2>7, <3>1, <3>2
  <2>8. \A i \in kept : \E q \in S : q.id = i
    OBVIOUS
  <2>9. S \in SUBSET Packet
    BY <2>6
  <2> HIDE DEF S, kept
  <2>10. /\ \A i \in Ids \ I : fate'[i] = fate[i]
         /\ \A i \in I : fate'[i] \in {"live", "buffer_full"} /\ (fate'[i] = "live" => i \in kept)
    <3>1. \A i \in kept : i \in I
      BY <2>6, <2>8
    <3> QED
      BY <1>5, <1>8, <3>1
  <2>11. Moves(I, {<<"buffer", n, q>> : q \in S})
    <3>1. /\ \A i \in I : i # p.id => i >= nextId
          /\ \A i \in I : i < nextId' /\ fate'[i] # "unborn"
          /\ \A i \in Ids \ I : fate'[i] = fate[i]
      BY <1>5, <2>10
    <3>2. crashed' = {} => \A i \in I : fate'[i] = "live" => \E q \in S : q.id = i
      BY <2>8, <2>10
    <3>3. \A q \in S : q.id \in I /\ q.ttl = p.ttl - 1 /\ fate'[q.id] = "live"
      BY <2>6
    <3>4. crashed \subseteq crashed'
      BY <1>8
    <3>5. I \in SUBSET Ids /\ p.id \in I /\ p.ttl \in Nat
      BY <1>1, <1>5
    <3> QED
      BY <2>5, <2>7, <2>9, <3>1, <3>2, <3>3, <3>4, <3>5, StoredMoves
  <2>12. \A x \in New : /\ x[1] = "buffer" /\ x[2] = n
                        /\ x[3].to = p.to /\ x[3].ttl = p.ttl - 1
    BY <2>6
  <2> HIDE DEF New
  <2>13. Enters(n, p)
    BY <1>5, <1>6, <2>10, <2>11, <2>12 DEF Enters, New
  <2> QED
    BY <2>4, <2>13
<1>9. CASE /\ fate' = [fate EXCEPT ![copies[1].id] = "stranded"]
           /\ crashed' = crashed \union {caller}
           /\ UNCHANGED outbound
  <2>1. fate'[p.id] = "stranded" /\ \A i \in Ids \ {p.id} : fate'[i] = fate[i]
    BY <1>1, <1>9 DEF TypeOK
  <2>2. \A m \in Nodes : \A q : InBuffer(m, q)' <=> InBuffer(m, q)
    BY <1>9 DEF InBuffer
  <2>3. PICK T : T = {<<"buffer", n, q>> : q \in {}}
    OBVIOUS
  <2>4. Moves({p.id}, T)
    <3>1. /\ {p.id} \in SUBSET Ids /\ {} \in SUBSET Packet
          /\ \A i \in {p.id} : i < nextId' /\ fate'[i] # "unborn" /\ fate'[i] # "live"
      BY <1>1, <1>5, <2>1
    <3>2. crashed \subseteq crashed'
      BY <1>9
    <3> QED
      BY <1>1, <2>1, <2>2, <2>3, <3>1, <3>2, StoredMoves
  <2>5. T = {}
    BY <2>3
  <2>6. Distinct'
    BY <1>9 DEF Incoming, CopyInv, OnePlace, Distinct
  <2>7. Enters(n, p)
    BY <2>1, <2>4, <2>5 DEF Enters
  <2> QED
    BY <2>6, <2>7
<1> QED
  BY <1>8, <1>9, Zenon DEF enqueue_outbound, fit, I

LEMMA ForwardEnters ==
  ASSUME TypeOK, TypeOK', CopyInv, NEW n \in Nodes, NEW p \in Packet, Incoming(p), NEW caller,
         NEW fresh \in Nat, nextId <= fresh, p.id < fresh,
         forward(n, p, caller, fresh)
  PROVE  Enters(n, p) /\ Distinct'
<1>1. PICK hop : hop = [p EXCEPT !.ttl = @ - 1]
  OBVIOUS
<1>2. PICK copy : copy = [hop EXCEPT !.id = fresh]
  OBVIOUS
<1>3. p.id \in Ids /\ p.ttl \in Nat /\ p.id \in Int /\ nextId \in Int
  BY DEF Packet, Ids, TypeOK
<1>3a. p.ttl > 1 => hop \in Packet /\ hop.id = p.id /\ hop.to = p.to /\ hop.ttl = p.ttl - 1
  BY <1>1 DEF Packet
<1>3b. hop \in Packet /\ fresh \in Ids =>
         copy \in Packet /\ copy.id = fresh /\ copy.to = hop.to /\ copy.ttl = hop.ttl
  BY <1>2 DEF Packet
<1>4. p.ttl > 1 => /\ hop \in Packet /\ hop.id = p.id /\ hop.to = p.to /\ hop.ttl = p.ttl - 1
                   /\ fresh \in Ids => /\ copy \in Packet /\ copy.id = fresh
                                       /\ copy.to = p.to /\ copy.ttl = p.ttl - 1
  BY <1>3a, <1>3b
<1>5. \/ \E why \in Fates \ {"unborn", "live"} :
           (why = "delivered" => n = p.to) /\ End(p, why, fresh)
      \/ /\ n # p.to /\ p.ttl > 1
         /\ enqueue_outbound(n, <<hop>>, caller) /\ nextId' = fresh
      \/ /\ n # p.to /\ p.ttl > 1 /\ fresh \in Ids
         /\ enqueue_outbound(n, <<hop, copy>>, caller) /\ nextId' = fresh + 1
  <2>1. /\ {"node_down", "delivered", "zero_ttl", "random"} \subseteq Fates \ {"unborn", "live"}
        /\ "node_down" # "delivered" /\ "zero_ttl" # "delivered" /\ "random" # "delivered"
    BY DEF Fates
  <2> QED
    BY <1>1, <1>2, <2>1, Zenon DEF forward
<1>6. ASSUME NEW why \in Fates \ {"unborn", "live"},
             why = "delivered" => n = p.to, End(p, why, fresh)
      PROVE  Enters(n, p) /\ Distinct'
  BY <1>6, EndEnters
<1>7. CASE /\ n # p.to /\ p.ttl > 1
           /\ enqueue_outbound(n, <<hop>>, caller) /\ nextId' = fresh
  <2>1. PICK copies : copies = <<hop>>
    OBVIOUS
  <2>2. /\ copies \in Seq(Packet) /\ Len(copies) = 1 /\ copies[1] = hop
        /\ enqueue_outbound(n, copies, caller) /\ nextId <= nextId'
    BY <1>4, <1>7, <2>1
  <2>3. /\ Len(copies) \in {1, 2} /\ copies[1].id = p.id
        /\ \A i \in 1 .. Len(copies) :
             copies[i].to = p.to /\ copies[i].ttl = p.ttl - 1 /\ copies[i].id < nextId'
    BY <1>4, <1>7, <2>2
  <2>4. Len(copies) = 2 => copies[2].id # p.id /\ copies[2].id >= nextId
    BY <2>2
  <2> QED
    BY <1>7, <2>2, <2>3, <2>4, EnqueueEnters
<1>8. CASE /\ n # p.to /\ p.ttl > 1 /\ fresh \in Ids
           /\ enqueue_outbound(n, <<hop, copy>>, caller) /\ nextId' = fresh + 1
  <2>1. PICK copies : copies = <<hop, copy>>
    OBVIOUS
  <2>2. /\ copies \in Seq(Packet) /\ Len(copies) = 2 /\ copies[1] = hop /\ copies[2] = copy
        /\ enqueue_outbound(n, copies, caller)
    BY <1>4, <1>8, <2>1
  <2>3. nextId <= nextId' /\ p.id < nextId' /\ fresh < nextId' /\ p.id # fresh /\ fresh >= nextId
    BY <1>3, <1>8
  <2>4. /\ Len(copies) \in {1, 2} /\ copies[1].id = p.id
        /\ copies[2].id # p.id /\ copies[2].id >= nextId
    BY <1>4, <1>8, <2>2, <2>3
  <2>5. \A i \in 1 .. Len(copies) :
          copies[i].to = p.to /\ copies[i].ttl = p.ttl - 1 /\ copies[i].id < nextId'
    BY <1>4, <1>8, <2>2, <2>3
  <2> QED
    BY <1>8, <2>2, <2>3, <2>4, <2>5, EnqueueEnters
<1> QED
  BY <1>5, <1>6, <1>7, <1>8

\* A packet that an application sends has an id that no other packet has.
LEMMA SendUdpEnters ==
  ASSUME TypeOK, TypeOK', CopyInv, NEW f \in Flows, send_udp(f)
  PROVE  /\ Distinct'
         /\ \E p \in Packet : /\ fate[p.id] = "unborn" /\ p.ttl = DEFAULT_TTL
                              /\ f.from \in Nodes /\ Enters(f.from, p)
<1>1. PICK p : p = [id |-> nextId, number |-> nextId, to |-> f.to, size |-> f.size,
                    ecn |-> f.ecn, ttl |-> DEFAULT_TTL]
  OBVIOUS
<1>2. /\ f.from \in Nodes /\ f.to \in Nodes /\ f.size \in Nat /\ f.ecn \in Ecn
      /\ DEFAULT_TTL \in Nat /\ nextId \in Ids /\ nextId \in Nat
  BY NetworkAssumption DEF Ecn, send_udp, TypeOK
<1>3. p \in Packet /\ p.id = nextId /\ p.ttl = DEFAULT_TTL
  BY <1>1, <1>2 DEF Packet
<1>4. /\ forward(f.from, p, <<"app", f.from>>, nextId + 1)
      /\ UNCHANGED <<outgoing, in_transit, handled>>
  BY <1>1 DEF send_udp, linkVars
<1>5. fate[nextId] = "unborn"
  BY <1>2 DEF CopyInv, Tracked
<1>6. Incoming(p)
  <2>1. \A x \in Whereabouts : x[3].id # p.id
    BY <1>3, <1>5 DEF CopyInv, Tracked
  <2>2. \A k \in handled : k[1] # p.id
    BY <1>3, <1>5 DEF CopyInv, Tracked
  <2>3. ASSUME NEW l \in Links, NEW q, Flying(l, q) PROVE q.id # p.id
    <3>1. <<"link", l, q>> \in Whereabouts /\ <<"link", l, q>>[3] = q
      BY <2>3, WhereaboutsNow DEF InSomePlace
    <3> QED
      BY <2>1, <3>1
  <2>4. \A l \in Links : \A q : Flying(l, q)' <=> Flying(l, q)
    BY <1>4 DEF Flying
  <2>5. \A l \in Links : \A r, s \in in_transit'[l] : r.pkt.id = s.pkt.id => r = s
    BY <1>4 DEF CopyInv, OnePlace
  <2> QED
    BY <1>4, <2>1, <2>2, <2>3, <2>4, <2>5 DEF Incoming
<1>7. nextId + 1 \in Nat /\ nextId <= nextId + 1 /\ p.id < nextId + 1
  BY <1>2, <1>3
<1>8. Enters(f.from, p) /\ Distinct'
  BY <1>2, <1>3, <1>4, <1>6, <1>7, ForwardEnters
<1> QED
  BY <1>2, <1>3, <1>5, <1>8

\* The forwarder of a link takes one packet from it.
LEMMA ForwardPacketEnters ==
  ASSUME TypeOK, TypeOK', CopyInv, NEW l \in Links, forward_packet(l)
  PROVE  /\ Distinct'
         /\ \E p \in Packet : /\ <<"link", l, p>> \in Whereabouts
                              /\ Target[l] \in Nodes /\ Enters(Target[l], p)
<1>1. PICK r \in in_transit[l] :
        /\ in_transit' = [in_transit EXCEPT ![l] = @ \ {r}]
        /\ \/ End(r.pkt, "lost_in_transit", nextId)
           \/ forward(Target[l], r.pkt, <<"forwarder", l>>, nextId)
  BY DEF forward_packet, NextArrivals
<1>2. UNCHANGED <<outgoing, handled>>
  BY DEF forward_packet
<1>3. PICK p : p = r.pkt
  OBVIOUS
<1>4. p \in Packet /\ p.id \in Ids /\ Target[l] \in Nodes /\ nextId \in Nat
  <2>1. r \in Transit /\ nextId \in Nat
    BY DEF TypeOK
  <2>2. p \in Packet /\ p.id \in Ids
    BY <1>3, <2>1 DEF Transit, Packet
  <2> QED
    BY <2>1, <2>2, NetworkAssumption
<1>5. PICK x0 : x0 = <<"link", l, p>>
  OBVIOUS
<1>6. x0 \in Whereabouts /\ x0[1] = "link" /\ x0[3] = p
  BY <1>3, <1>5, WhereaboutsNow DEF InSomePlace, Flying
<1>7. /\ in_transit'[l] = in_transit[l] \ {r}
      /\ \A m \in Links \ {l} : in_transit'[m] = in_transit[m]
  BY <1>1 DEF TypeOK
<1>8. \A x \in Whereabouts : x[3].id = p.id => x = x0
  BY <1>6 DEF CopyInv, OnePlace
<1>9. ASSUME NEW m \in Links, NEW s \in in_transit[m], s.pkt.id = p.id PROVE m = l /\ s = r
  <2>1. <<"link", m, s.pkt>> \in Whereabouts
    BY WhereaboutsNow DEF InSomePlace, Flying
  <2>2. m = l
    BY <1>5, <1>8, <1>9, <2>1
  <2> QED
    BY <1>3, <1>9, <2>2 DEF CopyInv, OnePlace
<1>10. Incoming(p)
  <2>1. \A x \in Whereabouts : x[3].id = p.id => x[1] = "link"
    BY <1>6, <1>8
  <2>2. ASSUME NEW k \in handled, k[1] = p.id PROVE p.ttl <= k[2]
    <3>1. p.ttl < k[2] \/ p.ttl = k[2]
      BY <1>6, <2>2 DEF CopyInv, HopsDescend
    <3>2. p.ttl \in Nat /\ k[2] \in Nat
      BY <1>4 DEF TypeOK, Packet
    <3> QED
      BY <3>1, <3>2
  <2>3. \A m \in Links : \A q : Flying(m, q)' <=> Flying(m, q) /\ q.id # p.id
    <3>1. ASSUME NEW m \in Links, NEW q, Flying(m, q)' PROVE Flying(m, q) /\ q.id # p.id
      <4>1. PICK s \in in_transit'[m] : s.pkt = q
        BY <3>1 DEF Flying
      <4>2. s \in in_transit[m] /\ (m = l => s # r)
        BY <1>7
      <4> QED
        BY <1>9, <4>1, <4>2 DEF Flying
    <3>2. ASSUME NEW m \in Links, NEW q, Flying(m, q), q.id # p.id PROVE Flying(m, q)'
      <4>1. PICK s \in in_transit[m] : s.pkt = q
        BY <3>2 DEF Flying
      <4>2. s # r
        BY <1>3, <3>2, <4>1
      <4>3. s \in in_transit'[m]
        BY <1>7, <4>2
      <4> QED
        BY <4>1, <4>3 DEF Flying
    <3> QED
      BY <3>1, <3>2
  <2>4. \A m \in Links : \A s, t \in in_transit'[m] : s.pkt.id = t.pkt.id => s = t
    BY <1>7 DEF CopyInv, OnePlace
  <2> QED
    BY <1>2, <2>1, <2>2, <2>3, <2>4 DEF Incoming
<1>11. nextId <= nextId /\ p.id < nextId
  <2>1. fate[p.id] = "live"
    BY <1>6 DEF CopyInv, Tracked
  <2>2. ~(p.id >= nextId)
    BY <1>4, <2>1 DEF CopyInv, Tracked
  <2>3. p.id \in Int
    BY <1>4 DEF Ids
  <2> QED
    BY <1>4, <2>2, <2>3
<1>12. Enters(Target[l], p) /\ Distinct'
  <2>1. CASE End(p, "lost_in_transit", nextId)
    <3>1. "lost_in_transit" \in Fates \ {"unborn", "live"} /\ "lost_in_transit" # "delivered"
      BY DEF Fates
    <3> QED
      BY <1>4, <1>10, <1>11, <2>1, <3>1, EndEnters
  <2>2. CASE forward(Target[l], p, <<"forwarder", l>>, nextId)
    BY <1>4, <1>10, <1>11, <2>2, ForwardEnters
  <2> QED
    BY <1>1, <1>3, <2>1, <2>2
<1> QED
  BY <1>4, <1>5, <1>6, <1>12

----------------------------------------------------------------------------
(* One copy *)

LEMMA CopyInit == Init => CopyInv
<1> SUFFICES ASSUME Init PROVE CopyInv
  OBVIOUS
<1>1. /\ \A n \in Nodes : Len(outbound[n]) = 0
      /\ \A l \in Links : Len(outgoing[l]) = 0 /\ in_transit[l] = {}
      /\ handled = {} /\ \A i \in Ids : fate[i] = "unborn"
  BY DEF Init
<1>2. \A l \in Links : Offered(l) = {}
  BY <1>1 DEF Offered
<1>3. \A x : x \notin Whereabouts
  <2>1. \A x : ~InSomePlace(x)
    BY <1>1, <1>2 DEF InSomePlace, InBuffer, Pending, Flying
  <2> QED
    BY <2>1, WhereaboutsNow
<1> QED
  BY <1>1, <1>2, <1>3 DEF CopyInv, Tracked, OnePlace, HopsDescend, Accounted

LEMMA EntersKeep ==
  ASSUME TypeOK, TypeOK', CopyInv, Distinct', NEW n, NEW p, Enters(n, p)
  PROVE  CopyInv'
BY MovesKeep DEF Enters

\* What a step of the network does to packets
NetworkMoves ==
  \/ Loses
  \/ \E l \in Links : \E c, q : Departs(l, c, q)
  \/ \E n \in Nodes : \E p : OffersFrom(n, p)
  \/ \E n \in Nodes, p \in Packet :
       fate[p.id] = "unborn" /\ p.ttl = DEFAULT_TTL /\ Enters(n, p)
  \/ \E l \in Links, p \in Packet :
       <<"link", l, p>> \in Whereabouts /\ Enters(Target[l], p)

LEMMA StepMoves ==
  ASSUME NetworkInv, TypeOK', CopyInv, [Next]_vars
  PROVE  Distinct' /\ NetworkMoves
<1>1. TypeOK /\ Distinct
  BY DEF NetworkInv, CopyInv, OnePlace, Distinct
<1>2. ASSUME NEW f \in Flows, send_udp(f) PROVE Distinct' /\ NetworkMoves
  BY <1>1, <1>2, SendUdpEnters DEF NetworkMoves
<1>3. ASSUME NEW n \in Nodes, process_buffer(n) PROVE Distinct' /\ NetworkMoves
  BY <1>1, <1>3, BufferMoves DEF NetworkMoves
<1>4. ASSUME NEW l \in Links, process_link_queue(l) PROVE Distinct' /\ NetworkMoves
  BY <1>4, LinkQueueMoves DEF NetworkMoves, LinkMoves
<1>5. ASSUME NEW l \in Links, forwarder_sleeps(l) PROVE Distinct' /\ NetworkMoves
  BY <1>1, <1>5, StillLoses DEF forwarder_sleeps, nodeVars, NetworkMoves
<1>6. ASSUME NEW l \in Links, forward_packet(l) PROVE Distinct' /\ NetworkMoves
  BY <1>1, <1>6, ForwardPacketEnters DEF NetworkMoves
<1>7. ASSUME NEW e \in LinkEvents, process_link_event(e) PROVE Distinct' /\ NetworkMoves
  BY <1>1, <1>7, LinkEventLoses DEF NetworkMoves
<1>8. ASSUME NEW e \in NodeEvents, process_node_event(e) PROVE Distinct' /\ NetworkMoves
  BY <1>1, <1>8, StillLoses DEF process_node_event, NetworkMoves
<1>9. CASE Tick
  BY <1>1, <1>9, StillLoses DEF Tick, nodeVars, linkVars, NetworkMoves
<1>10. CASE UNCHANGED vars
  BY <1>1, <1>10, StillLoses DEF vars, nodeVars, linkVars, NetworkMoves
<1> QED
  BY <1>2, <1>3, <1>4, <1>5, <1>6, <1>7, <1>8, <1>9, <1>10 DEF Next

LEMMA CopyStep == NetworkInv /\ CopyInv /\ [Next]_vars => CopyInv'
<1> SUFFICES ASSUME NetworkInv, CopyInv, [Next]_vars PROVE CopyInv'
  OBVIOUS
<1>1. TypeOK /\ TypeOK'
  BY NetworkStep DEF NetworkInv
<1>2. Distinct' /\ NetworkMoves
  BY <1>1, StepMoves
<1>3. CASE Loses
  BY <1>1, <1>2, <1>3, LosesMoves, MovesKeep
<1>4. CASE \E l \in Links : \E c, q : Departs(l, c, q)
  BY <1>1, <1>2, <1>4, MovesKeep DEF Departs
<1>5. CASE \E n \in Nodes : \E p : OffersFrom(n, p)
  BY <1>1, <1>2, <1>5, MovesKeep DEF OffersFrom
<1>6. CASE \E n, p : Enters(n, p)
  BY <1>1, <1>2, <1>6, EntersKeep
<1> QED
  BY <1>2, <1>3, <1>4, <1>5, <1>6 DEF NetworkMoves

LEMMA CopyInvariant == Spec => []CopyInv
BY CopyInit, CopyStep, NetworkInvariant, PTL DEF Spec

\* A set without two different elements
LEMMA AtMostOne ==
  ASSUME NEW S, \A x, y \in S : x = y
  PROVE  /\ Cardinality(S) \in {0, 1}
         /\ Cardinality(S) = 0 <=> S = {}
<1>1. Cardinality({}) = 0
  BY FS_EmptySet
<1>2. ASSUME NEW x \in S PROVE Cardinality(S) = 1
  <2>1. S = {x}
    OBVIOUS
  <2> QED
    BY <2>1, FS_Singleton
<1> QED
  BY <1>1, <1>2

\* The places that OneCopy counts are those of Whereabouts.
LEMMA CountedPlaces ==
  ASSUME TypeOK, CopyInv, NEW i \in Ids
  PROVE  /\ \A a, b \in Offers(i) : a = b
         /\ \A a, b \in InBuffers(i) : a = b
         /\ \A a, b \in OnLinks(i) : a = b
         /\ Offers(i) # {} <=> \E x \in Whereabouts : x[3].id = i /\ x[1] = "offer"
         /\ InBuffers(i) # {} <=> \E x \in Whereabouts : x[3].id = i /\ x[1] = "buffer"
         /\ OnLinks(i) # {} <=> \E x \in Whereabouts : x[3].id = i /\ x[1] = "link"
<1>1. \A a : a \in Offers(i) <=>
        \E l \in Links : \E p : Pending(l, p) /\ a = Key(p) /\ p.id = i
  <2>1. \A p : Key(p)[1] = p.id
    BY DEF Key
  <2> QED
    BY <2>1 DEF Offers, Pending
<1>2. \A a : a \in InBuffers(i) <=>
        \E n \in Nodes : \E j \in 1 .. Len(outbound[n]) : a = <<n, j>> /\ outbound[n][j].pkt.id = i
  BY DEF InBuffers
<1>3. \A a : a \in OnLinks(i) <=>
        \E l \in Links : \E r \in in_transit[l] : a = <<l, r>> /\ r.pkt.id = i
  BY DEF OnLinks, OnLink
<1>4. ASSUME NEW l \in Links, NEW p, Pending(l, p)
      PROVE  \E x \in Whereabouts : x[1] = "offer" /\ x[3] = p
  <2>1. PICK x : x = <<"offer", Source[l], p>>
    OBVIOUS
  <2>2. x \in Whereabouts
    BY <1>4, <2>1, WhereaboutsNow DEF InSomePlace
  <2> QED
    BY <2>1, <2>2
<1>5. ASSUME NEW n \in Nodes, NEW j \in 1 .. Len(outbound[n])
      PROVE  \E x \in Whereabouts : x[1] = "buffer" /\ x[2] = n /\ x[3] = outbound[n][j].pkt
  <2>1. PICK x : x = <<"buffer", n, outbound[n][j].pkt>>
    OBVIOUS
  <2>2. x \in Whereabouts
    BY <2>1, WhereaboutsNow DEF InSomePlace, InBuffer
  <2> QED
    BY <2>1, <2>2
<1>6. ASSUME NEW l \in Links, NEW r \in in_transit[l]
      PROVE  \E x \in Whereabouts : x[1] = "link" /\ x[2] = l /\ x[3] = r.pkt
  <2>1. PICK x : x = <<"link", l, r.pkt>>
    OBVIOUS
  <2>2. x \in Whereabouts
    BY <2>1, WhereaboutsNow DEF InSomePlace, Flying
  <2> QED
    BY <2>1, <2>2
<1>7. \A x, y \in Whereabouts : x[3].id = y[3].id => x = y
  BY DEF CopyInv, OnePlace
<1>8. ASSUME NEW a \in Offers(i), NEW b \in Offers(i) PROVE a = b
  <2>p1. PICK l \in Links : \E p : Pending(l, p) /\ a = Key(p) /\ p.id = i
    BY <1>1
  <2>1. PICK p : Pending(l, p) /\ a = Key(p) /\ p.id = i
    BY <2>p1
  <2>p2. PICK m \in Links : \E q : Pending(m, q) /\ b = Key(q) /\ q.id = i
    BY <1>1
  <2>2. PICK q : Pending(m, q) /\ b = Key(q) /\ q.id = i
    BY <2>p2
  <2>3. p = q
    BY <1>4, <1>7, <2>1, <2>2
  <2> QED
    BY <2>1, <2>2, <2>3
<1>9. ASSUME NEW a \in InBuffers(i), NEW b \in InBuffers(i) PROVE a = b
  <2>1. PICK n \in Nodes : \E j \in 1 .. Len(outbound[n]) : a = <<n, j>> /\ outbound[n][j].pkt.id = i
    BY <1>2
  <2>2. PICK m \in Nodes : \E k \in 1 .. Len(outbound[m]) : b = <<m, k>> /\ outbound[m][k].pkt.id = i
    BY <1>2
  <2>3. n = m
    <3>1. PICK x \in Whereabouts : x[2] = n /\ x[3].id = i
      BY <1>5, <2>1
    <3>2. PICK y \in Whereabouts : y[2] = m /\ y[3].id = i
      BY <1>5, <2>2
    <3> QED
      BY <1>7, <3>1, <3>2
  <2>4. \A j, k \in 1 .. Len(outbound[n]) :
          outbound[n][j].pkt.id = outbound[n][k].pkt.id => j = k
    BY DEF CopyInv, OnePlace
  <2> QED
    BY <2>1, <2>2, <2>3, <2>4
<1>10. ASSUME NEW a \in OnLinks(i), NEW b \in OnLinks(i) PROVE a = b
  <2>1. PICK l \in Links : \E r \in in_transit[l] : a = <<l, r>> /\ r.pkt.id = i
    BY <1>3
  <2>2. PICK m \in Links : \E s \in in_transit[m] : b = <<m, s>> /\ s.pkt.id = i
    BY <1>3
  <2>3. l = m
    BY <1>6, <1>7, <2>1, <2>2
  <2>4. \A r, s \in in_transit[l] : r.pkt.id = s.pkt.id => r = s
    BY DEF CopyInv, OnePlace
  <2> QED
    BY <2>1, <2>2, <2>3, <2>4
<1>11. ASSUME NEW x \in Whereabouts, x[3].id = i
       PROVE  /\ x[1] = "offer" => Offers(i) # {}
              /\ x[1] = "buffer" => InBuffers(i) # {}
              /\ x[1] = "link" => OnLinks(i) # {}
  <2>1. InSomePlace(x)
    BY WhereaboutsNow
  <2>2. ASSUME NEW n \in Nodes, NEW p, InBuffer(n, p), x = <<"buffer", n, p>>
        PROVE  x[1] = "buffer" /\ InBuffers(i) # {}
    <3>1. x[1] = "buffer" /\ x[3] = p
      BY <2>2
    <3>2. PICK j \in 1 .. Len(outbound[n]) : outbound[n][j].pkt = p
      BY <2>2 DEF InBuffer
    <3> QED
      BY <1>2, <1>11, <3>1, <3>2
  <2>3. ASSUME NEW l \in Links, NEW p, Pending(l, p), x = <<"offer", Source[l], p>>
        PROVE  x[1] = "offer" /\ Offers(i) # {}
    <3>1. x[1] = "offer" /\ x[3] = p
      BY <2>3
    <3> QED
      BY <1>1, <1>11, <2>3, <3>1
  <2>4. ASSUME NEW l \in Links, NEW p, Flying(l, p), x = <<"link", l, p>>
        PROVE  x[1] = "link" /\ OnLinks(i) # {}
    <3>1. x[1] = "link" /\ x[3] = p
      BY <2>4
    <3>2. PICK r \in in_transit[l] : r.pkt = p
      BY <2>4 DEF Flying
    <3> QED
      BY <1>3, <1>11, <3>1, <3>2
  <2> QED
    BY <2>1, <2>2, <2>3, <2>4 DEF InSomePlace
<1>12. Offers(i) # {} => \E x \in Whereabouts : x[3].id = i /\ x[1] = "offer"
  BY <1>1, <1>4
<1>13. InBuffers(i) # {} => \E x \in Whereabouts : x[3].id = i /\ x[1] = "buffer"
  BY <1>2, <1>5
<1>14. OnLinks(i) # {} => \E x \in Whereabouts : x[3].id = i /\ x[1] = "link"
  BY <1>3, <1>6
<1> QED
  BY <1>8, <1>9, <1>10, <1>11, <1>12, <1>13, <1>14

\* In every network, a packet that was offered to several links, duplicated,
\* forwarded or lost is in one place at most while it is live and in none once
\* the tracer has recorded its end; and it is in no place while it is live only
\* if a task crashed.
THEOREM PacketsHaveOneCopy == Spec => []OneCopy
<1>1. TypeOK /\ CopyInv => OneCopy
  <2> SUFFICES ASSUME TypeOK, CopyInv, NEW i \in Ids
               PROVE  /\ fate[i] # "live" => Copies(i) = 0
                      /\ fate[i] = "live" => Copies(i) <= 1
                      /\ fate[i] = "live" /\ crashed = {} => Copies(i) = 1
    BY DEF OneCopy
  <2> DEFINE At(kind) == \E x \in Whereabouts : x[3].id = i /\ x[1] = kind
  <2>1. /\ Cardinality(Offers(i)) \in {0, 1} /\ (Cardinality(Offers(i)) = 0 <=> ~At("offer"))
        /\ Cardinality(InBuffers(i)) \in {0, 1} /\ (Cardinality(InBuffers(i)) = 0 <=> ~At("buffer"))
        /\ Cardinality(OnLinks(i)) \in {0, 1} /\ (Cardinality(OnLinks(i)) = 0 <=> ~At("link"))
    BY CountedPlaces, AtMostOne
  <2>2. \A x, y \in Whereabouts : x[3].id = i /\ y[3].id = i => x = y
    BY DEF CopyInv, OnePlace
  <2>3. /\ ~(At("offer") /\ At("buffer"))
        /\ ~(At("offer") /\ At("link"))
        /\ ~(At("buffer") /\ At("link"))
    BY <2>2
  <2>4. fate[i] # "live" => ~At("offer") /\ ~At("buffer") /\ ~At("link")
    BY DEF CopyInv, Tracked
  <2>5. fate[i] = "live" /\ crashed = {} => At("offer") \/ At("buffer") \/ At("link")
    BY PlacedNow DEF WellPlaced, CopyInv, Accounted
  <2> HIDE DEF At
  <2> QED
    BY <2>1, <2>3, <2>4, <2>5 DEF Copies
<1>2. NetworkInv => TypeOK
  BY DEF NetworkInv
<1> QED
  BY <1>1, <1>2, CopyInvariant, NetworkInvariant, PTL

----------------------------------------------------------------------------
(* The network implements PacketJourney *)

Spot(x) == <<IF x[1] = "link" THEN "link" ELSE "node", x[2], x[3].to, x[3].ttl>>

\* Where packet i is in the abstract network
JourneyIs(i, place) ==
  /\ fate[i] = "unborn" => place = <<"unborn">>
  /\ \A x \in Whereabouts : x[3].id = i => place = Spot(x)
  /\ fate[i] # "unborn" /\ (\A x \in Whereabouts : x[3].id # i) =>
       place = IF fate[i] = "delivered" THEN <<"delivered">> ELSE <<"gone">>

LEMMA JourneyNow == CopyInv => \A i \in Ids : JourneyIs(i, Journey[i])
<1> SUFFICES ASSUME CopyInv, NEW i \in Ids PROVE JourneyIs(i, Journey[i])
  OBVIOUS
<1>1. Journey[i] = IF fate[i] = "unborn" THEN <<"unborn">>
                   ELSE IF Places(i) # {} THEN CHOOSE place \in Places(i) : TRUE
                   ELSE IF fate[i] = "delivered" THEN <<"delivered">>
                   ELSE <<"gone">>
  BY DEF Journey
<1>2. Places(i) = {Spot(x) : x \in {x \in Whereabouts : x[3].id = i}}
  BY DEF Places, Spot
<1>3. ASSUME NEW x \in Whereabouts, x[3].id = i PROVE Journey[i] = Spot(x)
  <2>1. fate[i] = "live"
    BY <1>3 DEF CopyInv, Tracked
  <2>2. \A y \in Whereabouts : y[3].id = i => y = x
    BY <1>3 DEF CopyInv, OnePlace
  <2>3. \A place : place \in Places(i) <=> place = Spot(x)
    BY <1>2, <1>3, <2>2
  <2> QED
    BY <1>1, <2>1, <2>3
<1>4. (\A x \in Whereabouts : x[3].id # i) => Places(i) = {}
  BY <1>2
<1> QED
  BY <1>1, <1>3, <1>4 DEF JourneyIs

LEMMA JourneyNext == (CopyInv => \A i \in Ids : JourneyIs(i, Journey[i]))'
BY JourneyNow, PTL

LEMMA JourneyFunction ==
  /\ Journey = [i \in Ids |-> Journey[i]]
  /\ Journey' = [i \in Ids |-> Journey'[i]]
BY DEF Journey

\* Packets that do not move stay where they are; the others are in their new
\* places or have ended.
LEMMA MovesJourney ==
  ASSUME TypeOK, CopyInv, CopyInv', NEW I, NEW New, Moves(I, New)
  PROVE  /\ \A i \in Ids \ I : Journey'[i] = Journey[i]
         /\ \A i \in I : i \in Ids
         /\ \A x \in New : Journey'[x[3].id] = Spot(x)
         /\ \A i \in I : (\A x \in New : x[3].id # i) =>
              Journey'[i] = IF fate'[i] = "delivered" THEN <<"delivered">> ELSE <<"gone">>
<1>1. /\ \A x : x \in Whereabouts' <=> x \in New \/ (x \in Whereabouts /\ x[3].id \notin I)
      /\ \A x \in New : x[3].id \in I
      /\ I \subseteq Ids
      /\ \A i \in Ids \ I : fate'[i] = fate[i]
      /\ \A i \in I : fate'[i] # "unborn"
  BY DEF Moves
<1>2. \A i \in Ids : /\ JourneyIs(i, Journey[i])
                     /\ fate'[i] = "unborn" => Journey'[i] = <<"unborn">>
                     /\ \A x \in Whereabouts' : x[3].id = i => Journey'[i] = Spot(x)
                     /\ fate'[i] # "unborn" /\ (\A x \in Whereabouts' : x[3].id # i) =>
                          Journey'[i] = IF fate'[i] = "delivered" THEN <<"delivered">> ELSE <<"gone">>
  BY JourneyNow, JourneyNext DEF JourneyIs, Spot
<1>3. ASSUME NEW i \in Ids \ I PROVE Journey'[i] = Journey[i]
  <2>1. \A x : x \in Whereabouts' /\ x[3].id = i <=> x \in Whereabouts /\ x[3].id = i
    BY <1>1
  <2>2. CASE \E x \in Whereabouts : x[3].id = i
    BY <1>2, <2>1, <2>2 DEF JourneyIs
  <2>3. CASE \A x \in Whereabouts : x[3].id # i
    <3>1. \A x \in Whereabouts' : x[3].id # i
      BY <2>1, <2>3
    <3>2. fate'[i] = fate[i]
      BY <1>1
    <3> QED
      BY <1>2, <2>3, <3>1, <3>2 DEF JourneyIs
  <2> QED
    BY <2>2, <2>3
<1>4. ASSUME NEW x \in New PROVE Journey'[x[3].id] = Spot(x)
  BY <1>1, <1>2
<1>5. ASSUME NEW i \in I, \A x \in New : x[3].id # i
      PROVE  Journey'[i] = IF fate'[i] = "delivered" THEN <<"delivered">> ELSE <<"gone">>
  <2>1. \A x \in Whereabouts' : x[3].id # i
    BY <1>1, <1>5
  <2> QED
    BY <1>1, <1>2, <2>1
<1> QED
  BY <1>1, <1>3, <1>4, <1>5

\* The place of a packet that is somewhere
LEMMA SpotOf ==
  ASSUME TypeOK, CopyInv, NEW x \in Whereabouts
  PROVE  /\ x[3] \in Packet /\ x[3].id \in Ids
         /\ fate[x[3].id] = "live"
         /\ Journey[x[3].id] = Spot(x)
<1>1. WellPlaced(x)
  BY PlacedNow
<1>2. x[3] \in Packet /\ x[3].id \in Ids
  BY <1>1 DEF WellPlaced, Packet
<1> QED
  BY <1>2, JourneyNow DEF JourneyIs, CopyInv, Tracked

LEMMA EntersJourney ==
  ASSUME TypeOK, CopyInv, CopyInv', NEW n \in Nodes, NEW p \in Packet, Enters(n, p)
  PROVE  Abstract!Enter(p.id, n, p.to, p.ttl)
<1>1. PICK I, New :
        /\ Moves(I, New)
        /\ p.id \in I
        /\ \/ I = {p.id}
           \/ \E c \in Ids : /\ c # p.id /\ fate[c] = "unborn" /\ I = {p.id, c}
                             /\ n # p.to /\ p.ttl > 1
        /\ \A x \in New : /\ x[1] = "buffer" /\ x[2] = n /\ n # p.to /\ p.ttl > 1
                          /\ x[3].to = p.to /\ x[3].ttl = p.ttl - 1
        /\ fate'[p.id] = "delivered" => n = p.to
        /\ \A c \in I : c # p.id => fate'[c] # "delivered"
  BY DEF Enters
<1>2. /\ \A i \in Ids \ I : Journey'[i] = Journey[i]
      /\ \A i \in I : i \in Ids
      /\ \A x \in New : Journey'[x[3].id] = Spot(x)
      /\ \A i \in I : (\A x \in New : x[3].id # i) =>
           Journey'[i] = IF fate'[i] = "delivered" THEN <<"delivered">> ELSE <<"gone">>
  BY <1>1, MovesJourney
<1>3. ASSUME NEW x \in New
      PROVE  /\ Spot(x) = <<"node", n, p.to, p.ttl - 1>>
             /\ n # p.to /\ p.ttl > 1
  BY <1>1 DEF Spot
<1> DEFINE here == Journey'[p.id]
<1>4. here \in Abstract!Outcomes(n, p.to, p.ttl)
  <2>1. CASE \E x \in New : x[3].id = p.id
    BY <1>2, <1>3, <2>1 DEF Abstract!Outcomes, Abstract!Stored
  <2>2. CASE \A x \in New : x[3].id # p.id
    BY <1>1, <1>2, <2>2 DEF Abstract!Outcomes, Abstract!Gone, Abstract!Delivered
  <2> QED
    BY <2>1, <2>2
<1>5. CASE I = {p.id}
  <2>1. Journey' = [Journey EXCEPT ![p.id] = here]
    BY <1>2, <1>5, JourneyFunction
  <2> QED
    BY <1>4, <2>1 DEF Abstract!Enter
<1>6. ASSUME NEW c \in Ids, c # p.id, fate[c] = "unborn", I = {p.id, c}, n # p.to, p.ttl > 1
      PROVE  Abstract!Enter(p.id, n, p.to, p.ttl)
  <2> DEFINE there == Journey'[c]
  <2>1. Journey' = [Journey EXCEPT ![p.id] = here, ![c] = there]
    BY <1>2, <1>6, JourneyFunction
  <2>2. there \in {Abstract!Gone, Abstract!Stored(n, p.to, p.ttl - 1)}
    <3>1. CASE \E x \in New : x[3].id = c
      BY <1>2, <1>3, <3>1 DEF Abstract!Stored
    <3>2. CASE \A x \in New : x[3].id # c
      BY <1>1, <1>2, <1>6, <3>2 DEF Abstract!Gone
    <3> QED
      BY <3>1, <3>2
  <2>3. Journey[c] = Abstract!Unborn
    BY <1>6, JourneyNow DEF JourneyIs, Abstract!Unborn
  <2> HIDE DEF here, there
  <2> QED
    BY <1>4, <1>6, <2>1, <2>2, <2>3 DEF Abstract!Enter
<1> QED
  BY <1>1, <1>5, <1>6

\* Packets S, all stored in node n, end; no other packet moves.
LEMMA VanishJourney ==
  ASSUME NEW n \in Nodes, NEW S \in SUBSET Ids,
         \A i \in S : Journey[i][1] = "node" /\ Journey[i][2] = n /\ Journey'[i] = <<"gone">>,
         \A i \in Ids \ S : Journey'[i] = Journey[i]
  PROVE  Abstract!Vanish
<1>1. S \in SUBSET {i \in Ids : Journey[i][1] = "node" /\ Journey[i][2] = n}
  OBVIOUS
<1>2. Journey' = [i \in Ids |-> IF i \in S THEN Abstract!Gone ELSE Journey[i]]
  BY JourneyFunction DEF Abstract!Gone
<1> QED
  BY <1>1, <1>2 DEF Abstract!Vanish

LEMMA LosesJourney ==
  ASSUME TypeOK, TypeOK', CopyInv, CopyInv', Loses
  PROVE  Abstract!Vanish \/ Journey' = Journey
<1>1. /\ \A i \in Ids \ Lost : Journey'[i] = Journey[i]
      /\ \A i \in Lost : i \in Ids
      /\ \A i \in Lost :
           Journey'[i] = IF fate'[i] = "delivered" THEN <<"delivered">> ELSE <<"gone">>
  BY LosesMoves, MovesJourney
<1>2. CASE Lost = {}
  <2>1. \A i \in Ids : Journey'[i] = Journey[i]
    BY <1>1, <1>2
  <2> QED
    BY <2>1, JourneyFunction
<1>3. CASE Lost # {}
  <2>1. PICK y \in Whereabouts \ Whereabouts' : TRUE
    BY <1>3 DEF Lost
  <2>2. \A x \in Whereabouts \ Whereabouts' : x[1] # "link" /\ x[2] = y[2]
    BY <2>1 DEF Loses
  <2>3. y[2] \in Nodes
    BY <2>1, <2>2, PlacedNow DEF WellPlaced
  <2>4. ASSUME NEW i \in Lost
        PROVE  Journey[i][1] = "node" /\ Journey[i][2] = y[2] /\ Journey'[i] = <<"gone">>
    <3>1. PICK x \in Whereabouts \ Whereabouts' : x[3].id = i
      BY DEF Lost
    <3>2. Journey[i] = Spot(x) /\ fate[i] = "live" /\ i \in Ids
      BY <3>1, SpotOf
    <3>3. fate'[i] # "delivered"
      BY <3>2 DEF Loses
    <3>4. Spot(x)[1] = "node" /\ Spot(x)[2] = y[2]
      BY <2>2 DEF Spot
    <3> QED
      BY <1>1, <3>2, <3>3, <3>4
  <2>5. Lost \in SUBSET Ids
    BY <1>1
  <2> QED
    BY <1>1, <2>3, <2>4, <2>5, VanishJourney
<1> QED
  BY <1>2, <1>3

LEMMA DepartsJourney ==
  ASSUME TypeOK, CopyInv, CopyInv', NEW l \in Links, NEW c, NEW q, Departs(l, c, q)
  PROVE  \E i \in Ids : Abstract!Depart(i)
<1>1. PICK x : x = <<"offer", Source[l], c>>
  OBVIOUS
<1>2. x[1] = "offer" /\ x[2] = Source[l] /\ x[3] = c /\ x \in Whereabouts
  BY <1>1 DEF Departs
<1>3. c.id \in Ids /\ Journey[c.id] = Spot(x)
  BY <1>2, SpotOf
<1>4. Spot(x) = <<"node", Source[l], c.to, c.ttl>>
  BY <1>2 DEF Spot
<1>5. /\ \A i \in Ids \ {c.id} : Journey'[i] = Journey[i]
      /\ \A y \in {<<"link", l, q>>} : Journey'[y[3].id] = Spot(y)
  BY MovesJourney DEF Departs
<1>6. Journey'[c.id] = <<"link", l, c.to, c.ttl>>
  <2>1. PICK y : y = <<"link", l, q>>
    OBVIOUS
  <2>2. y[1] = "link" /\ y[2] = l /\ y[3] = q
    BY <2>1
  <2>3. Journey'[q.id] = Spot(y)
    BY <1>5, <2>1, <2>2
  <2> QED
    BY <2>2, <2>3 DEF Departs, Spot
<1>7. Journey' = [Journey EXCEPT ![c.id] = <<"link", l, c.to, c.ttl>>]
  BY <1>3, <1>5, <1>6, JourneyFunction
<1>8. PICK place : place = Journey[c.id]
  OBVIOUS
<1>9. place[1] = "node" /\ place[2] = Source[l] /\ place[3] = c.to /\ place[4] = c.ttl
  BY <1>3, <1>4, <1>8
<1>10. Journey' = [Journey EXCEPT ![c.id] = Abstract!OnLink(l, place[3], place[4])]
  BY <1>7, <1>9 DEF Abstract!OnLink
<1> QED
  BY <1>3, <1>8, <1>9, <1>10 DEF Abstract!Depart

LEMMA OffersJourney ==
  ASSUME TypeOK, CopyInv, CopyInv', NEW n \in Nodes, NEW p, OffersFrom(n, p)
  PROVE  Abstract!Vanish
<1>1. PICK x : x = <<"buffer", n, p>>
  OBVIOUS
<1>2. PICK y : y = <<"offer", n, p>>
  OBVIOUS
<1>3. /\ x[1] = "buffer" /\ x[2] = n /\ x[3] = p /\ x \in Whereabouts
      /\ y[1] = "offer" /\ y[2] = n /\ y[3] = p
  BY <1>1, <1>2 DEF OffersFrom
<1>4. p.id \in Ids /\ Journey[p.id] = Spot(x) /\ Spot(x) = Spot(y)
  <2>1. Spot(x) = Spot(y)
    BY <1>3 DEF Spot
  <2> QED
    BY <1>3, <2>1, SpotOf
<1>5. /\ \A i \in Ids \ Lost : Journey'[i] = Journey[i]
      /\ \A i \in Lost : i \in Ids
      /\ \A z \in {<<"offer", n, p>>} : Journey'[z[3].id] = Spot(z)
      /\ \A i \in Lost : (\A z \in {<<"offer", n, p>>} : z[3].id # i) =>
           Journey'[i] = IF fate'[i] = "delivered" THEN <<"delivered">> ELSE <<"gone">>
  BY MovesJourney DEF OffersFrom
<1>6. Journey'[p.id] = Journey[p.id]
  BY <1>2, <1>3, <1>4, <1>5
<1>7. ASSUME NEW i \in Lost \ {p.id}
      PROVE  Journey[i][1] = "node" /\ Journey[i][2] = n /\ Journey'[i] = <<"gone">>
  <2>1. PICK z \in Whereabouts \ Whereabouts' : z[3].id = i
    BY DEF Lost
  <2>2. Journey[i] = Spot(z) /\ fate[i] = "live"
    BY <2>1, SpotOf
  <2>3. fate'[i] # "delivered"
    BY <2>2 DEF OffersFrom
  <2>4. Spot(z)[1] = "node" /\ Spot(z)[2] = n
    BY DEF Spot, OffersFrom
  <2>5. \A w \in {<<"offer", n, p>>} : w[3].id # i
    BY <1>2, <1>3
  <2> QED
    BY <1>5, <2>2, <2>3, <2>4, <2>5
<1> DEFINE S == Lost \ {p.id}
<1>8. S \in SUBSET Ids /\ \A i \in Ids \ S : Journey'[i] = Journey[i]
  BY <1>5, <1>6
<1> HIDE DEF S
<1>9. \A i \in S : Journey[i][1] = "node" /\ Journey[i][2] = n /\ Journey'[i] = <<"gone">>
  BY <1>7 DEF S
<1> QED
  BY <1>8, <1>9, VanishJourney

LEMMA MovesRefined ==
  ASSUME TypeOK, TypeOK', CopyInv, CopyInv', NetworkMoves
  PROVE  [Abstract!JourneyNext]_Journey
<1>1. CASE Loses
  BY <1>1, LosesJourney DEF Abstract!JourneyNext
<1>2. ASSUME NEW l \in Links, NEW c, NEW q, Departs(l, c, q)
      PROVE  Abstract!JourneyNext
  BY <1>2, DepartsJourney DEF Abstract!JourneyNext
<1>3. ASSUME NEW n \in Nodes, NEW p, OffersFrom(n, p)
      PROVE  Abstract!JourneyNext
  BY <1>3, OffersJourney DEF Abstract!JourneyNext
<1>4. ASSUME NEW n \in Nodes, NEW p \in Packet, fate[p.id] = "unborn", p.ttl = DEFAULT_TTL,
             Enters(n, p)
      PROVE  Abstract!JourneyNext
  <2>1. p.id \in Ids /\ p.to \in Nodes
    BY DEF Packet
  <2>2. Journey[p.id] = Abstract!Unborn
    BY <1>4, <2>1, JourneyNow DEF JourneyIs, Abstract!Unborn
  <2>3. Abstract!Enter(p.id, n, p.to, DEFAULT_TTL)
    BY <1>4, EntersJourney
  <2>4. Abstract!Send(p.id)
    BY <2>1, <2>2, <2>3 DEF Abstract!Send
  <2> QED
    BY <2>1, <2>4 DEF Abstract!JourneyNext
<1>5. ASSUME NEW l \in Links, NEW p \in Packet, <<"link", l, p>> \in Whereabouts,
             Enters(Target[l], p)
      PROVE  Abstract!JourneyNext
  <2>1. PICK x : x = <<"link", l, p>>
    OBVIOUS
  <2>2. x[1] = "link" /\ x[2] = l /\ x[3] = p /\ x \in Whereabouts
    BY <1>5, <2>1
  <2>3. p.id \in Ids /\ Journey[p.id] = Spot(x)
    BY <2>2, SpotOf
  <2>4. Spot(x) = <<"link", l, p.to, p.ttl>>
    BY <2>2 DEF Spot
  <2>5. Target[l] \in Nodes
    BY NetworkAssumption
  <2>6. Abstract!Enter(p.id, Target[l], p.to, p.ttl)
    BY <1>5, <2>5, EntersJourney
  <2>7. Abstract!Arrive(p.id)
    BY <2>3, <2>4, <2>6 DEF Abstract!Arrive
  <2> QED
    BY <2>3, <2>7 DEF Abstract!JourneyNext
<1> QED
  BY <1>1, <1>2, <1>3, <1>4, <1>5 DEF NetworkMoves

LEMMA JourneyStart == Init => Abstract!JourneyInit
<1> SUFFICES ASSUME Init PROVE Abstract!JourneyInit
  OBVIOUS
<1>1. \A i \in Ids : fate[i] = "unborn"
  BY DEF Init
<1> QED
  BY <1>1 DEF Abstract!JourneyInit, Abstract!Unborn, Journey

LEMMA StepRefined ==
  NetworkInv /\ NetworkInv' /\ CopyInv /\ CopyInv' /\ [Next]_vars => [Abstract!JourneyNext]_Journey
<1> SUFFICES ASSUME NetworkInv, NetworkInv', CopyInv, CopyInv', [Next]_vars
             PROVE  [Abstract!JourneyNext]_Journey
  OBVIOUS
<1>1. TypeOK /\ TypeOK'
  BY DEF NetworkInv
<1> QED
  BY <1>1, StepMoves, MovesRefined

\* Every network implements PacketJourney: whatever routes, queues, races,
\* duplicates, failures and crashed tasks do, a step moves one packet by one hop
\* at the cost of one TTL, copies it where it is stored, ends packets of one
\* node, or leaves all packets where they are.
THEOREM NetworkImplementsJourneys == Spec => JourneysRefined
BY JourneyStart, StepRefined, CopyInvariant, NetworkInvariant, PTL
   DEF Spec, JourneysRefined, Abstract!JourneySpec
============================================================================
