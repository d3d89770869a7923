------------------------------ MODULE Network ------------------------------
(***************************************************************************)
(* InMemoryNetwork: packets stored in nodes and forwarded over links       *)
(* (in-memory-network/src/network/{mod,link,node,outbound_buffer}.rs).     *)
(*                                                                         *)
(* Every node has a task that takes packets from its outbound buffer and   *)
(* offers each one to all links with a route to the destination.  Every    *)
(* link has a task that handles the offers in order, and one that forwards *)
(* the packets in transit to the node at the other end.  Another task      *)
(* processes network events, and applications send packets.                *)
(*                                                                         *)
(* The tasks run on one thread and give way to each other only at an       *)
(* await.  A task that finds more packets waiting at an await goes on at   *)
(* once; here it handles one packet per step and other tasks may step in   *)
(* between, which adds behaviours and takes none away.                     *)
(***************************************************************************)
EXTENDS Pacer, Sequences, FiniteSets, SequencesExt

CONSTANTS
  Nodes, Links,
  Source, Target,     \* the nodes at the ends of each link
  Routes,             \* Routes[n][dest]: what walk_links visits, in order
  Capacity,           \* buffer_size_bytes of each node
  Delay,              \* delay of each link when the simulation starts
  ExtraDelays,        \* extra delays each link may add to a packet
  CongestedLinks,     \* links with congestion_event_ratio > 0
  LossyNodes,         \* nodes with packet_loss_ratio > 0
  DuplicatingNodes,   \* nodes with packet_duplication_ratio > 0
  MayStartDown,       \* nodes and links whose first event brings them up
  LinkEvents,         \* payloads [link, status, delay] of link events
  NodeEvents,         \* payloads [node, status, clear_buffer] of node events
  Flows,              \* what applications send: [from, to, size, ecn]
  DEFAULT_TTL,
  TicksPerByte,       \* transmission time, the inverse of the bandwidth
  TimeWarp,           \* TRUE: the clock stands still while a task can run
  MaxPackets,         \* bound: packets and duplicates
  MaxEvents,          \* bound: events processed
  Horizon,            \* bound: the last instant with a send or an event
  MaxTime             \* bound: the last instant of a behaviour

Ids      == 1 .. MaxPackets
NoTime   == -1              \* Option::<Instant>::None
Ecn      == {"none", "ect", "ce"}
Statuses == {"up", "down", "unchanged"}

Packet   == [id : Ids, number : Ids, to : Nodes, size : Nat, ecn : Ecn, ttl : Nat]
Buffered == [pkt : Packet, since : Nat]
Transit  == [pkt : Packet, sent : Nat, arrival : Nat, cut : BOOLEAN]
Tasks    == ({"link", "forwarder"} \X Links) \union ({"buffer", "app"} \X Nodes)

ASSUME NetworkAssumption ==
  /\ Source \in [Links -> Nodes] /\ Target \in [Links -> Nodes]
  /\ Routes \in [Nodes -> [Nodes -> Seq(Links)]]
  /\ Capacity \in [Nodes -> Nat]
  /\ Delay \in [Links -> Nat]
  /\ ExtraDelays \in [Links -> SUBSET Nat]
  /\ \A e \in LinkEvents : /\ e.link \in Links /\ e.status \in Statuses
                           /\ e.delay \in Nat \union {NoTime}
  /\ \A e \in NodeEvents : /\ e.node \in Nodes /\ e.status \in Statuses
                           /\ e.clear_buffer \in BOOLEAN
  /\ \A f \in Flows : /\ f.from \in Nodes /\ f.to \in Nodes
                      /\ f.size \in Nat \ {0} /\ f.ecn \in {"none", "ect"}
  /\ DEFAULT_TTL \in Nat /\ TicksPerByte \in Nat
  /\ TimeWarp \in BOOLEAN
  /\ MaxPackets \in Nat /\ MaxEvents \in Nat /\ Horizon \in Nat /\ MaxTime \in Nat

\* A link belongs to the node that routes packets through it.
ASSUME RoutesAssumption ==
  \A n, dest \in Nodes : \A i \in 1 .. Len(Routes[n][dest]) :
    Source[Routes[n][dest][i]] = n

VARIABLES
  now,        \* Instant::now()
  events,     \* number of events processed
  nextId,     \* the id of the next packet
  fate,       \* what the tracer recorded last about each packet
  crashed,    \* tasks that panicked or returned an error
  nodeUp, last_buffer_clear, available_capacity, outbound,        \* nodes
  linkUp, last_down, delay, batch, outgoing, task,                \* links
  in_transit, wakeup,
  handled     \* the watch channels set to true, one per stay of a packet in a node

nodeVars == <<nodeUp, last_buffer_clear, available_capacity, outbound>>
linkVars == <<linkUp, last_down, delay, batch, outgoing, task, in_transit, wakeup>>
vars     == <<now, events, nextId, fate, crashed, nodeVars, linkVars, handled>>

\* "live" packets are somewhere in the network; "unborn" ids are not used yet.
Fates == {"unborn", "live", "delivered", "node_down", "zero_ttl", "random",
          "buffer_full", "buffer_cleared", "lost_in_transit", "stranded"}

\* Where a link's task is: waiting for a packet, for bandwidth, for the link
\* (or notified of it), for the node (or notified of it), or yielding.
Pcs == {"idle", "bandwidth", "link", "link_up", "node", "node_up", "yield"}

TypeOK ==
  /\ now \in Nat
  /\ events \in Nat
  /\ nextId \in Nat \ {0}
  /\ fate \in [Ids -> Fates]
  /\ crashed \in SUBSET Tasks
  /\ nodeUp \in [Nodes -> BOOLEAN]
  /\ last_buffer_clear \in [Nodes -> Nat \union {NoTime}]
  /\ available_capacity \in [Nodes -> Nat]
  /\ outbound \in [Nodes -> Seq(Buffered)]
  /\ linkUp \in [Links -> BOOLEAN]
  /\ last_down \in [Links -> Nat \union {NoTime}]
  /\ delay \in [Links -> Nat]
  /\ batch \in [Links -> Batch]
  /\ outgoing \in [Links -> Seq(Buffered)]
  /\ task \in [Links -> [pc : Pcs, wake : Nat, ahead : Nat]]
  /\ in_transit \in [Links -> SUBSET Transit]
  /\ wakeup \in [Links -> Nat \union {NoTime}]
  /\ handled \in SUBSET (Ids \X Nat)

Idle == [pc |-> "idle", wake |-> 0, ahead |-> 0]

\* initialize() processes the initial status events at instant 0.
Init ==
  /\ now = 0
  /\ events = 0
  /\ nextId = 1
  /\ fate = [i \in Ids |-> "unborn"]
  /\ crashed = {}
  /\ nodeUp \in {up \in [Nodes -> BOOLEAN] : \A n \in Nodes : up[n] \/ n \in MayStartDown}
  /\ last_buffer_clear = [n \in Nodes |-> NoTime]
  /\ available_capacity = Capacity
  /\ outbound = [n \in Nodes |-> <<>>]
  /\ linkUp \in {up \in [Links -> BOOLEAN] : \A l \in Links : up[l] \/ l \in MayStartDown}
  /\ last_down = [l \in Links |-> IF linkUp[l] THEN NoTime ELSE 0]
  /\ delay = Delay
  /\ batch = [l \in Links |-> NewBatch(0)]
  /\ outgoing = [l \in Links |-> <<>>]
  /\ task = [l \in Links |-> Idle]
  /\ in_transit = [l \in Links |-> {}]
  /\ wakeup = [l \in Links |-> NoTime]
  /\ handled = {}

----------------------------------------------------------------------------
(* forward() and the node's buffer *)

\* The packet ends here: a tracer record and nothing else.
End(p, why, fresh) ==
  /\ fate' = [fate EXCEPT ![p.id] = why]
  /\ nextId' = fresh
  /\ UNCHANGED <<available_capacity, outbound, crashed>>

\* A bug: the buffer is not asked.
FitsAlways(n, size, k) == k

\* How many of k copies (k is 1 or 2) OutboundBuffer::reserve accepts
Fits(n, size, k) ==
  IF available_capacity[n] < size THEN 0
  ELSE IF k = 1 \/ available_capacity[n] < 2 * size THEN 1 ELSE 2

\* A bug: a duplicate is queued without reserving capacity for it.
FreeDuplicate(n, copies, caller) ==
  LET size   == copies[1].size
      fit    == Fits(n, size, Len(copies))
      stored == {copies[i].id : i \in 1 .. fit}
      all    == {copies[i].id : i \in 1 .. Len(copies)}
  IN  /\ <<"buffer", n>> \notin crashed
      /\ outbound' = [outbound EXCEPT ![n] =
           @ \o [i \in 1 .. fit |-> [pkt |-> copies[i], since |-> now]]]
      /\ available_capacity' = [available_capacity EXCEPT
           ![n] = @ - (IF fit = 0 THEN 0 ELSE size)]
      /\ fate' = [i \in Ids |-> IF i \in stored THEN "live"
                                ELSE IF i \in all THEN "buffer_full" ELSE fate[i]]
      /\ UNCHANGED crashed

\* Node::enqueue_outbound, for a packet and its duplicate if it has one.  When
\* the task that drains the buffer is gone, the send of a packet that was
\* granted capacity panics, and with it the task that called forward().
enqueue_outbound(n, copies, caller) ==
  LET size   == copies[1].size
      fit    == Fits(n, size, Len(copies))
      stored == {copies[i].id : i \in 1 .. fit}
      all    == {copies[i].id : i \in 1 .. Len(copies)}
  IN  \/ /\ <<"buffer", n>> \notin crashed \/ fit = 0
         /\ outbound' = [outbound EXCEPT ![n] =
              @ \o [i \in 1 .. fit |-> [pkt |-> copies[i], since |-> now]]]
         /\ available_capacity' = [available_capacity EXCEPT ![n] = @ - fit * size]
         /\ fate' = [i \in Ids |-> IF i \in stored THEN "live"
                                   ELSE IF i \in all THEN "buffer_full" ELSE fate[i]]
         /\ UNCHANGED crashed
      \/ /\ <<"buffer", n>> \in crashed /\ fit > 0
         /\ available_capacity' = [available_capacity EXCEPT ![n] = @ - size]
         /\ fate' = [fate EXCEPT ![copies[1].id] = "stranded"]
         /\ crashed' = crashed \union {caller}
         /\ UNCHANGED outbound

\* A bug: the TTL is decremented at the destination only.
ForwardForever(n, p, caller, fresh) ==
  \/ ~nodeUp[n] /\ End(p, "node_down", fresh)
  \/ nodeUp[n] /\ n = p.to /\ End(p, "delivered", fresh)
  \/ nodeUp[n] /\ n # p.to /\ enqueue_outbound(n, <<p>>, caller) /\ nextId' = fresh

\* InMemoryNetwork::forward: packet p is at node n.  caller is the task that
\* runs this code, fresh the id a duplicate would get.
forward(n, p, caller, fresh) ==
  LET hop == [p EXCEPT !.ttl = @ - 1]
  IN  \/ ~nodeUp[n] /\ End(p, "node_down", fresh)
      \/ nodeUp[n] /\ n = p.to /\ End(p, "delivered", fresh)
      \/ nodeUp[n] /\ n # p.to /\ p.ttl <= 1 /\ End(p, "zero_ttl", fresh)
      \/ /\ nodeUp[n] /\ n # p.to /\ p.ttl > 1
         /\ \/ n \in LossyNodes /\ End(p, "random", fresh)
            \/ enqueue_outbound(n, <<hop>>, caller) /\ nextId' = fresh
            \/ /\ n \in DuplicatingNodes /\ fresh \in Ids
               /\ enqueue_outbound(n, <<hop, [hop EXCEPT !.id = fresh]>>, caller)
               /\ nextId' = fresh + 1

\* An application sends a packet through its UDP socket.
send_udp(f) ==
  LET p == [id |-> nextId, number |-> nextId, to |-> f.to, size |-> f.size,
            ecn |-> f.ecn, ttl |-> DEFAULT_TTL]
  IN  /\ nextId \in Ids
      /\ now <= Horizon
      /\ <<"app", f.from>> \notin crashed
      /\ forward(f.from, p, <<"app", f.from>>, nextId + 1)
      /\ UNCHANGED <<now, events, nodeUp, last_buffer_clear, linkVars, handled>>

----------------------------------------------------------------------------
(* process_buffer_for_node *)

\* How often walk_links visits link l
Times(route, l) == Cardinality({i \in 1 .. Len(route) : route[i] = l})

\* How many entries of a route come before the first link of S
Before(route, S) ==
  Cardinality({i \in 1 .. Len(route) : \A j \in 1 .. i : route[j] \notin S})

\* The part of a route before the first link whose task is gone
Reachable(route) ==
  SubSeq(route, 1, Before(route, {l \in Links : <<"link", l>> \in crashed}))

\* Offer the oldest packet of node n's buffer to every link that can route it,
\* cheapest first.  Without a route the task returns an error; a link whose
\* task is gone makes it panic.  (The anomalies that generate_packet_anomalies
\* draws here are drawn by the send, the first to look at them.)
process_buffer(n) ==
  LET b     == Head(outbound[n])
      route == Routes[n][b.pkt.to]
      offer == Reachable(route)
  IN  /\ outbound[n] # <<>>
      /\ <<"buffer", n>> \notin crashed
      /\ outgoing' = [l \in Links |->
           outgoing[l] \o [i \in 1 .. Times(offer, l) |-> b]]
      /\ \/ /\ route # <<>> /\ offer = route
            /\ outbound' = [outbound EXCEPT ![n] = Tail(@)]
            /\ UNCHANGED <<fate, crashed>>
         \/ /\ route = <<>> \/ offer # route
            /\ outbound' = [outbound EXCEPT ![n] = <<>>]
            /\ crashed' = crashed \union {<<"buffer", n>>}
            /\ fate' = IF offer = <<>>
                       THEN [fate EXCEPT ![b.pkt.id] = "stranded"] ELSE fate
      /\ UNCHANGED <<now, events, nextId, nodeUp, last_buffer_clear,
                     available_capacity, linkUp, last_down, delay, batch, task,
                     in_transit, wakeup, handled>>

----------------------------------------------------------------------------
(* process_link_queue.  The packet a link's task works on stays at the head *)
(* of its queue until the task is done with it.                             *)

Current(l) == Head(outgoing[l])

Key(p)     == <<p.id, p.ttl>>    \* a stay in a node: every hop decrements ttl
already_handled(l) == Key(Current(l).pkt) \in handled

packet_delay(p) == p.size * TicksPerByte

\* The links in preferred_links before the first occurrence of l
Ahead(l) == Before(Routes[Source[l]][Current(l).pkt.to], {l})

\* A bug: a link that is up is taken to have bandwidth.
UpIsEnough(l) == linkUp[l]

has_bandwidth_available(l) ==
  /\ linkUp[l]
  /\ CanSend(batch[l], now, packet_delay(Current(l).pkt))

Park(l, pc, wake, ahead, b) ==
  /\ task' = [task EXCEPT ![l] = [pc |-> pc, wake |-> wake, ahead |-> ahead]]
  /\ batch' = [batch EXCEPT ![l] = b]
  /\ UNCHANGED <<fate, crashed, available_capacity, outgoing, in_transit, handled>>

\* The packet was handled by another link.
Skip(l, b) ==
  /\ task' = [task EXCEPT ![l] = Idle]
  /\ batch' = [batch EXCEPT ![l] = b]
  /\ outgoing' = [outgoing EXCEPT ![l] = Tail(@)]
  /\ UNCHANGED <<fate, crashed, available_capacity, in_transit, handled>>

\* A buffer-clear event hit the packet while it waited.  Its capacity is not
\* released.
DropCleared(l, b) ==
  /\ task' = [task EXCEPT ![l] = Idle]
  /\ batch' = [batch EXCEPT ![l] = b]
  /\ outgoing' = [outgoing EXCEPT ![l] = Tail(@)]
  /\ fate' = [fate EXCEPT ![Current(l).pkt.id] = "buffer_cleared"]
  /\ UNCHANGED <<crashed, available_capacity, in_transit>>

\* The assertions of NetworkLink::send
SendAsserts(l, p, ce) ==
  /\ CanSend(batch[l], now, packet_delay(p))
  /\ linkUp[l]
  /\ ce => p.ecn = "ect"

\* NetworkLink::send.  cut is a history flag: the link went down since.
send(l, extra, ce) ==
  LET p == Current(l).pkt
  IN  /\ batch' = [batch EXCEPT ![l] = TrackSend(@, now, packet_delay(p))]
      /\ available_capacity' = [available_capacity EXCEPT ![Source[l]] = @ + p.size]
      /\ in_transit' = [in_transit EXCEPT ![l] = @ \union
           {[pkt     |-> IF ce THEN [p EXCEPT !.ecn = "ce"] ELSE p,
             sent    |-> now,
             arrival |-> now + delay[l] + extra,
             cut     |-> FALSE]}]

\* A failed assertion ends the task; the packets in its queue go with it.
Panic(l, b) ==
  /\ crashed' = crashed \union {<<"link", l>>}
  /\ task' = [task EXCEPT ![l] = Idle]
  /\ batch' = [batch EXCEPT ![l] = b]
  /\ outgoing' = [outgoing EXCEPT ![l] = <<>>]
  /\ fate' = [fate EXCEPT ![Current(l).pkt.id] = "stranded"]
  /\ UNCHANGED <<available_capacity, in_transit>>

\* Whether the link marks the packet as having experienced congestion
Marks(l) == IF l \in CongestedLinks THEN BOOLEAN ELSE {FALSE}

\* The task claims the packet, and drops or sends it.
Claim(l, b) ==
  LET o       == Current(l)
      cleared == o.since < last_buffer_clear[Source[l]]
  IN  /\ handled' = handled \union {Key(o.pkt)}
      /\ \/ cleared /\ DropCleared(l, b)
         \/ /\ ~cleared
            /\ \E extra \in ExtraDelays[l], ce \in Marks(l) :
                 \/ /\ SendAsserts(l, o.pkt, ce)
                    /\ send(l, extra, ce)
                    /\ task' = [task EXCEPT ![l] = Idle]
                    /\ outgoing' = [outgoing EXCEPT ![l] = Tail(@)]
                    /\ UNCHANGED <<fate, crashed>>
                 \/ ~SendAsserts(l, o.pkt, ce) /\ Panic(l, b)

\* A bug: links do not tell each other.
ProceedUnchecked(l, ahead, b) ==
  \/ ahead > 0 /\ Park(l, "yield", 0, ahead - 1, b)
  \/ ahead = 0 /\ Claim(l, b)

\* The link is ready: yield once per cheaper link, then handle the packet
\* unless another link did.
Proceed(l, ahead, b) ==
  \/ already_handled(l) /\ Skip(l, b)
  \/ ~already_handled(l) /\ ahead > 0 /\ Park(l, "yield", 0, ahead - 1, b)
  \/ ~already_handled(l) /\ ahead = 0 /\ Claim(l, b)

\* What a step of a link's task leaves alone
others == <<now, events, nextId, nodeUp, last_buffer_clear, outbound,
            linkUp, last_down, delay, wakeup>>

\* sleep_until_ready_to_send, from the check of the node's status on
AwaitNode(l) ==
  \/ ~nodeUp[Source[l]] /\ Park(l, "node", 0, 0, batch[l])
  \/ nodeUp[Source[l]] /\ linkUp[l] /\ Proceed(l, Ahead(l), batch[l])
  \/ nodeUp[Source[l]] /\ ~linkUp[l] /\ Park(l, "link", 0, 0, batch[l])

\* sleep_until_ready_to_send asserts what its caller just found out, that there
\* is no bandwidth.  In real time the batch may have been sent in between; the
\* task panics before it claimed the packet.
AssertionRaces(l, b) ==
  /\ ~TimeWarp
  /\ linkUp[l] /\ ~has_bandwidth_available(l)
  /\ CanSend(batch[l], now + 1, packet_delay(Current(l).pkt))
  /\ crashed' = crashed \union {<<"link", l>>}
  /\ batch' = [batch EXCEPT ![l] = b]
  /\ outgoing' = [outgoing EXCEPT ![l] = <<>>]
  /\ UNCHANGED <<fate, available_capacity, task, in_transit, handled>>

\* The task takes the next packet of the queue.
TakeNext(l) ==
  LET b == Refresh(batch[l], now)
  IN  /\ task[l].pc = "idle"
      /\ outgoing[l] # <<>>
      /\ \/ /\ already_handled(l) \/ has_bandwidth_available(l)
            /\ Proceed(l, Ahead(l), b)
         \/ /\ ~already_handled(l) /\ ~has_bandwidth_available(l)
            /\ Park(l, "bandwidth",
                    now + DurationUntilCanSend(b, now, packet_delay(Current(l).pkt)), 0, b)
         \/ AssertionRaces(l, b)
      /\ UNCHANGED others

\* The sleep for bandwidth is over: the link has to be up, then the node.
BandwidthSlept(l) ==
  /\ task[l].pc = "bandwidth" /\ now >= task[l].wake
  /\ ~already_handled(l)
  /\ \/ ~linkUp[l] /\ Park(l, "link", 0, 0, batch[l])
     \/ linkUp[l] /\ AwaitNode(l)
  /\ UNCHANGED others

LinkCameUp(l) ==
  /\ task[l].pc = "link_up"
  /\ ~already_handled(l)
  /\ AwaitNode(l)
  /\ UNCHANGED others

\* The node came up; it is not looked at again, the link is.
NodeCameUp(l) ==
  /\ task[l].pc = "node_up"
  /\ ~already_handled(l)
  /\ \/ linkUp[l] /\ Proceed(l, Ahead(l), batch[l])
     \/ ~linkUp[l] /\ Park(l, "link", 0, 0, batch[l])
  /\ UNCHANGED others

\* Another link handled the packet while this one slept.
WaitCancelled(l) ==
  /\ task[l].pc \notin {"idle", "yield"}
  /\ already_handled(l)
  /\ Skip(l, batch[l])
  /\ UNCHANGED others

YieldOver(l) ==
  /\ task[l].pc = "yield"
  /\ Proceed(l, task[l].ahead, batch[l])
  /\ UNCHANGED others

process_link_queue(l) ==
  \/ TakeNext(l)
  \/ BandwidthSlept(l)
  \/ LinkCameUp(l)
  \/ NodeCameUp(l)
  \/ WaitCancelled(l)
  \/ YieldOver(l)

----------------------------------------------------------------------------
(* forward_packets_from_link_to_node *)

ArrivesBefore(r, s) ==
  \/ r.arrival < s.arrival
  \/ r.arrival = s.arrival /\ r.pkt.number < s.pkt.number

\* The packets of link l that have arrived, the next one to be forwarded
NextArrivals(l) ==
  {r \in in_transit[l] : /\ r.arrival <= now
                         /\ \A s \in in_transit[l] : ~ArrivesBefore(s, r)}

\* A bug: a failure at the very instant of the send counts.
DownSince(l, sent) == last_down[l] >= sent

\* A bug: only a link that is still down loses packets.
DownNow(l, sent) == ~linkUp[l]

was_down_after(l, sent) == last_down[l] > sent

\* A forwarder with packets to look at is polled, unless it sleeps until
\* wakeup[l].  A send does not wake it from that sleep.
Polled(l) ==
  /\ <<"forwarder", l>> \notin crashed
  /\ in_transit[l] # {}
  /\ wakeup[l] <= now

\* NextPacketDelivery::poll before the first arrival: sleep until then.
forwarder_sleeps(l) ==
  /\ Polled(l)
  /\ NextArrivals(l) = {}
  /\ \E r \in in_transit[l] :
       /\ \A s \in in_transit[l] : r.arrival <= s.arrival
       /\ wakeup' = [wakeup EXCEPT ![l] = r.arrival]
  /\ UNCHANGED <<now, events, nextId, fate, crashed, nodeVars, linkUp, last_down,
                 delay, batch, outgoing, task, in_transit, handled>>

forward_packet(l) ==
  /\ Polled(l)
  /\ \E r \in NextArrivals(l) :
       /\ in_transit' = [in_transit EXCEPT ![l] = @ \ {r}]
       /\ \/ /\ was_down_after(l, r.sent)
             /\ End(r.pkt, "lost_in_transit", nextId)
          \/ /\ ~was_down_after(l, r.sent)
             /\ forward(Target[l], r.pkt, <<"forwarder", l>>, nextId)
  /\ wakeup' = [wakeup EXCEPT ![l] = NoTime]
  /\ UNCHANGED <<now, events, nodeUp, last_buffer_clear, linkUp, last_down,
                 delay, batch, outgoing, task, handled>>

----------------------------------------------------------------------------
(* Network events *)

\* A bug: nobody is told.
NotifyNobody(ls, pc, to) == UNCHANGED task

\* Tasks that wait (pc) for one of the links ls are notified (to).
Notify(ls, pc, to) ==
  task' = [l \in Links |-> IF l \in ls /\ task[l].pc = pc
                           THEN [task[l] EXCEPT !.pc = to] ELSE task[l]]

\* NetworkLink::update_status
update_link_status(l, status) ==
  \/ /\ status = "down" /\ linkUp[l]
     /\ linkUp' = [linkUp EXCEPT ![l] = FALSE]
     /\ last_down' = [last_down EXCEPT ![l] = now]
     /\ in_transit' = [in_transit EXCEPT ![l] = {[r EXCEPT !.cut = TRUE] : r \in @}]
     /\ UNCHANGED task
  \/ /\ status = "up" /\ ~linkUp[l]
     /\ linkUp' = [linkUp EXCEPT ![l] = TRUE]
     /\ Notify({l}, "link", "link_up")
     /\ UNCHANGED <<last_down, in_transit>>
  \/ /\ status = "unchanged" \/ (status = "up") = linkUp[l]
     /\ UNCHANGED <<linkUp, last_down, in_transit, task>>

\* The delay of a link changes only while it is down.
process_link_event(e) ==
  /\ events < MaxEvents /\ now <= Horizon
  /\ events' = events + 1
  /\ delay' = IF e.delay # NoTime /\ ~linkUp[e.link]
              THEN [delay EXCEPT ![e.link] = e.delay] ELSE delay
  /\ update_link_status(e.link, e.status)
  /\ UNCHANGED <<now, nextId, fate, crashed, nodeVars, batch, outgoing, wakeup, handled>>

\* Node::update_status
update_node_status(n, status) ==
  \/ /\ status = "down" /\ nodeUp[n]
     /\ nodeUp' = [nodeUp EXCEPT ![n] = FALSE]
     /\ UNCHANGED task
  \/ /\ status = "up" /\ ~nodeUp[n]
     /\ nodeUp' = [nodeUp EXCEPT ![n] = TRUE]
     /\ Notify({l \in Links : Source[l] = n}, "node", "node_up")
  \/ /\ status = "unchanged" \/ (status = "up") = nodeUp[n]
     /\ UNCHANGED <<nodeUp, task>>

process_node_event(e) ==
  /\ events < MaxEvents /\ now <= Horizon
  /\ events' = events + 1
  /\ update_node_status(e.node, e.status)
  /\ last_buffer_clear' = IF e.clear_buffer
                          THEN [last_buffer_clear EXCEPT ![e.node] = now]
                          ELSE last_buffer_clear
  /\ UNCHANGED <<now, nextId, fate, crashed, available_capacity, outbound,
                 linkUp, last_down, delay, batch, outgoing, in_transit, wakeup, handled>>

----------------------------------------------------------------------------
(* The executor and its clock *)

LinkTaskReady(l) ==
  \/ task[l].pc = "idle" /\ outgoing[l] # <<>>
  \/ task[l].pc \in {"link_up", "node_up", "yield"}
  \/ task[l].pc = "bandwidth" /\ now >= task[l].wake
  \/ task[l].pc # "idle" /\ already_handled(l)

TaskReady ==
  \/ \E n \in Nodes : outbound[n] # <<>> /\ <<"buffer", n>> \notin crashed
  \/ \E l \in Links : LinkTaskReady(l) \/ Polled(l)

Tick ==
  /\ now < MaxTime
  /\ TimeWarp => ~TaskReady
  /\ now' = now + 1
  /\ UNCHANGED <<events, nextId, fate, crashed, nodeVars, linkVars, handled>>

Next ==
  \/ \E f \in Flows : send_udp(f)
  \/ \E n \in Nodes : process_buffer(n)
  \/ \E l \in Links : process_link_queue(l)
  \/ \E l \in Links : forwarder_sleeps(l) \/ forward_packet(l)
  \/ \E e \in LinkEvents : process_link_event(e)
  \/ \E e \in NodeEvents : process_node_event(e)
  \/ Tick

Spec == Init /\ [][Next]_vars

\* The executor polls every task that was woken, and time goes on.  Nothing
\* forces applications to send or events to happen.
FairSpec ==
  /\ Spec
  /\ \A n \in Nodes : WF_vars(process_buffer(n))
  /\ \A l \in Links : WF_vars(process_link_queue(l)) 
                      /\ WF_vars(forwarder_sleeps(l) \/ forward_packet(l))
  /\ WF_vars(Tick)

----------------------------------------------------------------------------
(* Properties *)

\* The pacer's assertion in NetworkLink::send cannot fail: a task that was
\* granted bandwidth, or has slept for it, keeps it however long it waits for
\* the link, the node or cheaper links afterwards.
PacerGrantKept ==
  \A l \in Links :
    task[l].pc # "idle" /\ (task[l].pc = "bandwidth" => now >= task[l].wake) =>
      CanSend(batch[l], now, packet_delay(Current(l).pkt))

\* The forwarder reports a packet as lost only if the link did go down while
\* the packet was in transit: a link that went down and up again before the
\* send, even at the very instant of the send, does no harm.
LossVerdictSound ==
  \A l \in Links : \A r \in in_transit[l] : was_down_after(l, r.sent) => r.cut

\* "Packets are lost if the link goes down during transmission": a packet whose
\* link went down in transit is lost, even when the link is up again on arrival,
\* unless it was sent at the very instant of the failure.
LossVerdictComplete ==
  \A l \in Links : \A r \in in_transit[l] :
    r.cut => was_down_after(l, r.sent) \/ last_down[l] = r.sent

\* What the pacer's grant to the task of link l rests on: the current batch is
\* empty, has room, or will be sent when the task has slept.
GrantCovers(l) ==
  \/ batch[l].delay = 0
  \/ batch[l].delay + packet_delay(Current(l).pkt) < BATCH_MAX_DELAY
  \/ SentAt(batch[l]) <= IF task[l].pc = "bandwidth" THEN task[l].wake ELSE now

\* The inductive strengthening of PacerGrantKept, LossVerdictSound and
\* LossVerdictComplete: no recorded instant is in the future.
NetworkInv ==
  /\ TypeOK
  /\ LossVerdictSound
  /\ LossVerdictComplete
  /\ \A l \in Links :
       /\ last_down[l] <= now
       /\ \A r \in in_transit[l] : r.sent <= now
       /\ batch[l].created <= now
       /\ task[l].pc # "idle" => outgoing[l] # <<>> /\ GrantCovers(l)

\* "Sanity checks" of NetworkLink::send: the assertions hold, no link's task
\* ever panics.
NoLinkTaskPanics == \A l \in Links : <<"link", l>> \notin crashed

\* What the links have been offered and have not taken from their queues yet
Offered(l) == {outgoing[l][j] : j \in 1 .. Len(outgoing[l])}

\* Stays of packet i in a node from which it was offered to a link and which
\* no link has ended yet
Offers(i) ==
  {k \in UNION {{Key(o.pkt) : o \in Offered(l)} : l \in Links} :
     k[1] = i /\ k \notin handled}

\* The places of packet i in outbound buffers and on links
InBuffers(i) ==
  UNION {{n} \X {j \in 1 .. Len(outbound[n]) : outbound[n][j].pkt.id = i} : n \in Nodes}

OnLink(i, l) == {r \in in_transit[l] : r.pkt.id = i}

OnLinks(i) == UNION { {l} \X OnLink(i, l) : l \in Links }

Copies(i) ==
  Cardinality(Offers(i)) + Cardinality(InBuffers(i)) + Cardinality(OnLinks(i))

\* Packets are neither duplicated nor forgotten by the forwarding code: although
\* every link with a route is offered the packet, one that the tracer has not
\* seen end is in exactly one place, and one that ended is nowhere.  (A task
\* that crashed takes the packets it held with it.)
OneCopy ==
  \A i \in Ids :
    /\ fate[i] # "live" => Copies(i) = 0
    /\ fate[i] = "live" => Copies(i) <= 1
    /\ fate[i] = "live" /\ crashed = {} => Copies(i) = 1

\* What node n stores: packets in its outbound buffer, or offered to its links
\* and not handled
Waiting(n) ==
  {outbound[n][j] : j \in 1 .. Len(outbound[n])} \union
  UNION {{o \in Offered(l) : Key(o.pkt) \notin handled} : l \in {l \in Links : Source[l] = n}}

\* The size of packet i if it is among those of W, and the sum of all sizes
BytesOf(W, i) ==
  IF \E b \in W : b.pkt.id = i THEN (CHOOSE b \in W : b.pkt.id = i).pkt.size ELSE 0

Bytes(W) == FoldLeft(+, 0, [i \in Ids |-> BytesOf(W, i)])

\* "Nodes never exceed their configured buffer size": what is stored was
\* reserved, and what was reserved is stored unless a buffer was cleared or a
\* task crashed.
BufferAccounting ==
  \A n \in Nodes :
    /\ available_capacity[n] + Bytes(Waiting(n)) <= Capacity[n]
    /\ (crashed = {} /\ \A i \in Ids : fate[i] # "buffer_cleared") =>
         available_capacity[n] + Bytes(Waiting(n)) = Capacity[n]

\* Every packet in the network with the place it is in: a buffer, the links of
\* a node that have been offered it and none of which has settled it yet, or a
\* link.
Whereabouts ==
  LET buffered == UNION {{<<"buffer", n, outbound[n][j].pkt>> : j \in 1 .. Len(outbound[n])} :
                           n \in Nodes}
      offered  == UNION {{<<"offer", Source[l], o.pkt>> :
                            o \in {o \in Offered(l) : Key(o.pkt) \notin handled}} : l \in Links}
      flying   == UNION {{<<"link", l, r.pkt>> : r \in in_transit[l]} : l \in Links}
  IN  buffered \union offered \union flying

\* The inductive strengthening of OneCopy.  The tracer knows which packets are
\* in the network: those and only those that it calls live.
Tracked ==
  /\ \A i \in Ids : i >= nextId => fate[i] = "unborn"
  /\ \A x \in Whereabouts : fate[x[3].id] = "live"
  /\ \A l \in Links : \A o \in Offered(l) : fate[o.pkt.id] # "unborn"
  /\ \A k \in handled : fate[k[1]] # "unborn"

\* No packet has two places.  Several links may have been offered a packet, but
\* for one and the same stay in one node; all other offers of it are settled.
OnePlace ==
  /\ \A x, y \in Whereabouts : x[3].id = y[3].id => x = y
  /\ \A n \in Nodes : \A j, k \in 1 .. Len(outbound[n]) :
       outbound[n][j].pkt.id = outbound[n][k].pkt.id => j = k
  /\ \A l \in Links : \A r, s \in in_transit[l] : r.pkt.id = s.pkt.id => r = s

\* Watch channels are not reused: the stays of a packet that are settled have
\* higher TTLs than the one it is in or on its way to.
HopsDescend ==
  \A k \in handled : \A x \in Whereabouts :
    x[3].id = k[1] => x[3].ttl < k[2] \/ (x[1] = "link" /\ x[3].ttl = k[2])

\* No packet is forgotten unless a task crashed.
Accounted ==
  crashed = {} =>
    \A i \in Ids : fate[i] = "live" => \E x \in Whereabouts : x[3].id = i

CopyInv == Tracked /\ OnePlace /\ HopsDescend /\ Accounted

\* The TTL ends every journey, even one that the routes send in circles: if
\* links and nodes are available from some point on, no packet stays in the
\* network for ever.
EveryPacketEnds ==
  <>[]((\A n \in Nodes : nodeUp[n]) /\ (\A l \in Links : linkUp[l]) /\ crashed = {}) =>
    \A i \in Ids : fate[i] = "live" ~> fate[i] # "live"

\* Packet i waits in the queue of link l.
Waits(i, l) ==
  \E j \in 1 .. Len(outgoing[l]) :
    outgoing[l][j].pkt.id = i /\ Key(outgoing[l][j].pkt) \notin handled

\* A packet "gets sent through the first link that becomes available": when one
\* of the links it is offered to stays up, with its node, the packet leaves, no
\* matter how the link flapped before and what the other links do.
LeavesThroughAvailableLink ==
  \A l \in Links :
    <>[](linkUp[l] /\ nodeUp[Source[l]] /\ crashed = {}) =>
      \A i \in Ids : Waits(i, l) ~> ~Waits(i, l)
=============================================================================
