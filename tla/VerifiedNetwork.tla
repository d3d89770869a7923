-------------------------- MODULE VerifiedNetwork --------------------------
(***************************************************************************)
(* The network, the applications that read from its sockets, and the       *)
(* verifier that replays what the tracer recorded.                         *)
(*                                                                         *)
(* verify() runs after the simulation, over all recorded steps in the      *)
(* order of their times.  Steps are recorded in that order, so the replay  *)
(* can go along with the network: every action of the network is followed  *)
(* by the steps it records.  A simulation may end in any state.            *)
(***************************************************************************)
EXTENDS Network

V == INSTANCE SimulationVerifier

ASSUME NodesAssumption == IsFiniteSet(Nodes)

VARIABLES
  unread,    \* ids of the packets in the endpoints of each node
  replay     \* the verifier

vvars == <<vars, unread, replay>>

\* The initial events are recorded like all others.
VInit ==
  /\ Init
  /\ unread = [n \in Nodes |-> {}]
  /\ replay = [V!NewVerifier EXCEPT
       !.node = [n \in Nodes |-> [@[n] EXCEPT !.up = nodeUp[n]]],
       !.link = [l \in Links |-> [up |-> linkUp[l], last_down |-> last_down[l]]]]

DropReasons == {"zero_ttl", "random", "buffer_full", "buffer_cleared"}

\* A step for the end of packet id in node n, if it was dropped there
Dropped(v, n, id) ==
  IF fate'[id] \in DropReasons THEN V!PacketDropped(v, n, id, fate'[id]) ELSE v

\* The steps that forward() records for packet p in node n, and for the
\* duplicate that takes the id fresh; deliver_packet makes p readable.
Forwarded(n, p, fresh) ==
  LET v         == V!PacketInNode(replay, n, p, ~nodeUp[n], now)
      w         == IF nodeUp[n] THEN Dropped(v, n, p.id) ELSE v
      duplicate == [p EXCEPT !.id = fresh]
      twice     == fresh \in Ids /\ fate'[fresh] # "unborn"
  IN  /\ replay' = IF twice
                   THEN Dropped(V!PacketDuplicated(w, n, duplicate, now), n, fresh)
                   ELSE w
      /\ unread' = IF fate'[p.id] = "delivered"
                   THEN [unread EXCEPT ![n] = @ \union {p.id}] ELSE unread

VSend(f) ==
  /\ send_udp(f)
  /\ Forwarded(f.from, [id |-> nextId, size |-> f.size], nextId + 1)

\* A link's task records a packet that it drops, or sends.
VLinkTask(l) ==
  LET n == Source[l]
      p == Current(l).pkt
  IN  /\ process_link_queue(l)
      /\ replay' = IF in_transit'[l] # in_transit[l]
                   THEN V!PacketInTransit(replay, n, l, p, now)
                   ELSE IF fate' # fate THEN Dropped(replay, n, p.id) ELSE replay
      /\ UNCHANGED unread

VForward(l) ==
  /\ forward_packet(l)
  /\ \A r \in in_transit[l] \ in_transit'[l] :
       IF fate'[r.pkt.id] = "lost_in_transit"
       THEN replay' = V!PacketLostInTransit(replay, r.pkt.id) /\ UNCHANGED unread
       ELSE Forwarded(Target[l], r.pkt, nextId)

VLinkEvent(e) ==
  /\ process_link_event(e)
  /\ replay' = V!LinkEvent(replay, e.link, e.status, now)
  /\ UNCHANGED unread

VNodeEvent(e) ==
  /\ process_node_event(e)
  /\ replay' = V!NodeEvent(replay, e.node, e.status, e.clear_buffer, now)
  /\ UNCHANGED unread

\* InMemoryUdpSocket::poll_recv; the order of reads plays no part here.
poll_recv(n) ==
  \E id \in unread[n] :
    /\ unread' = [unread EXCEPT ![n] = @ \ {id}]
    /\ replay' = V!PacketDeliveredToApplication(replay, n, id)
    /\ UNCHANGED vars

VTick ==
  /\ Tick
  /\ replay' = V!update_max_buffer_usage(replay)
  /\ UNCHANGED unread

VNext ==
  \/ \E f \in Flows : VSend(f)
  \/ \E n \in Nodes : process_buffer(n) /\ UNCHANGED <<unread, replay>>
  \/ \E l \in Links : VLinkTask(l)
  \/ \E l \in Links : forwarder_sleeps(l) /\ UNCHANGED <<unread, replay>>
  \/ \E l \in Links : VForward(l)
  \/ \E e \in LinkEvents : VLinkEvent(e)
  \/ \E e \in NodeEvents : VNodeEvent(e)
  \/ \E n \in Nodes : poll_recv(n)
  \/ VTick

VSpec == VInit /\ [][VNext]_vvars

----------------------------------------------------------------------------
(* Properties *)

\* verify() never stops with a fatal error, even when tasks crash or packets
\* travel in circles: no packet is received twice or missing where it is used.
ReplayCompletes == ~replay.fatal

\* The replay does not stop, and the verifier knows where every packet is: the
\* packets it sees in a node wait there for a link or for an application, and
\* those it sees in flight are on that link since that time.  The exceptions are
\* packets of tasks that crashed, and packets that an application sent from a
\* node that was down.
ReplayAgrees ==
  /\ ReplayCompletes
  /\ crashed = {} =>
       /\ \A n \in Nodes :
            {q.id : q \in {q \in replay.node[n].packets : fate[q.id] # "node_down"}}
              = {b.pkt.id : b \in Waiting(n)} \union unread[n]
       /\ {<<f.id, f.link, f.sent_at>> : f \in replay.in_flight}
            = UNION {{<<r.pkt.id, l, r.sent>> : r \in in_transit[l]} : l \in Links}

\* Rules of the verifier that the simulator never breaks: packets use links of
\* their node, never a link that is down, and arrive where the link leads; only
\* packets in flight are lost, only nodes that are down refuse packets, and no
\* packet survives the clearing of its buffer.
RulesKept ==
  replay.errors \intersect
    {"DisconnectedPacketSend", "DisconnectedPacketReceive", "OfflinePacketSend",
     "MissingLostPacket", "NodeUpPacketDroppedOnArrival",
     "PacketSurvivedBufferCorruption"} = {}

\* What the statistics call dropped, over all nodes
NodeOrder   == SetToSeq(Nodes)
Reported(c) ==
  FoldLeft(+, 0, [i \in 1 .. Cardinality(Nodes) |-> replay.dropped[NodeOrder[i]][c]])

Ended(whys) == Cardinality({i \in Ids : fate[i] \in whys})

\* The packets that some link took from a node
Taken == {k[1] : k \in handled}

\* The packets that a node refused when they came over a link
RefusedOnArrival == {i \in Ids : fate[i] = "node_down" /\ i \in Taken}

\* No drop is missing in the report and none is counted twice: full buffers,
\* cleared buffers and packets that came over a link to a node that was down have
\* counters of their own, and every loss and every TTL that ran out is in one of
\* the two counters for them.  (Which of the two is another matter, see
\* TtlDropsReported.)  A packet that an application sends from a node that is
\* down is no arrival and is not counted.
DropsCounted ==
  /\ Reported("injected") + Reported("zero_ttl") = Ended({"random", "zero_ttl"})
  /\ Reported("buffer_full") = Ended({"buffer_full"})
  /\ Reported("buffer_cleared") = Ended({"buffer_cleared"})
  /\ Reported("down") = Cardinality(RefusedOnArrival)

\* What the report promises and the code does not keep: the line "TTL reached 0"
\* gives the number of packets whose TTL reached 0.  packet_dropped counts them
\* with the random losses, so no run has this as a property.
TtlDropsReported == Reported("zero_ttl") = Ended({"zero_ttl"})

\* The strengthening of DropsCounted: what is in transit was taken by a link.
TransitsTaken == \A l \in Links : \A r \in in_transit[l] : r.pkt.id \in Taken

\* What BreachesReported says of one step
BreachReports ==
  /\ \A l \in Links : \A r \in in_transit[l] \ in_transit'[l] :
       r.cut /\ fate'[r.pkt.id] # "lost_in_transit" =>
         "OfflinePacketReceive" \in replay'.errors
  /\ \A l \in Links :
       /\ ~nodeUp[Source[l]]
       /\ \E r \in in_transit'[l] : ~ \E q \in in_transit[l] : q.pkt.id = r.pkt.id
       => "NodeDownPacketSend" \in replay'.errors
  /\ /\ "NodeDownPacketReceive" \in replay'.errors
     /\ "NodeDownPacketReceive" \notin replay.errors
     => \E i \in Ids : fate[i] = "unborn" /\ fate'[i] = "node_down"

\* What the simulator does against three more rules of the verifier.
\* "Packets are lost if the link goes down during transmission": when the
\* forwarder lets a packet through although its link went down after it was
\* sent, the verifier reports it.
\* "Packets are never sent from a node while it is down": a link with bandwidth
\* does not look at its node again before it sends, and when the node went down
\* in the meantime the verifier reports the packet.
\* "Packets are lost if they arrive at a node when it is down": a node is
\* reported to have received a packet while it was down only when one of its
\* own applications sent it, never for a packet that came over a link.
BreachesReported == [][BreachReports]_vvars

----------------------------------------------------------------------------
(* The inductive strengthening of the properties of the replay *)

ErrorKinds ==
  {"DisconnectedPacketSend", "DisconnectedPacketReceive", "OfflinePacketSend",
   "OfflinePacketReceive", "TooFastPacketReceive", "MissingLostPacket",
   "NodeDownPacketSend", "NodeDownPacketReceive", "NodeUpPacketDroppedOnArrival",
   "PacketSurvivedBufferCorruption", "NodeExceedsBufferSize"}

StoredPacket == [id : Ids, size : Nat, arrived_at : Nat]
Verifier ==
  [node      : [Nodes -> [up : BOOLEAN, last_buffer_clear : Nat \union {NoTime},
                          packets : SUBSET StoredPacket]],
   link      : [Links -> [up : BOOLEAN, last_down : Nat \union {NoTime}]],
   in_flight : SUBSET [id : Ids, size : Nat, sent_at : Nat, link : Links],
   dropped   : [Nodes -> [V!Counters -> Nat]],
   errors    : SUBSET ErrorKinds,
   fatal     : BOOLEAN]

\* The verifier knows the status of nodes and links.  A link that is told to go
\* down while it is down has failed once more for the verifier only.
StatusReplayed ==
  /\ \A n \in Nodes : /\ replay.node[n].up = nodeUp[n]
                      /\ replay.node[n].last_buffer_clear = last_buffer_clear[n]
  /\ \A l \in Links : /\ replay.link[l].up = linkUp[l]
                      /\ replay.link[l].last_down >= last_down[l]

\* The packets in flight are those in transit.
FlightsReplayed ==
  /\ \A f \in replay.in_flight : \E r \in in_transit[f.link] :
       r.pkt.id = f.id /\ r.sent = f.sent_at
  /\ \A l \in Links : \A r \in in_transit[l] : \E f \in replay.in_flight :
       f.id = r.pkt.id /\ f.link = l /\ f.sent_at = r.sent

\* What waits in a node is in the node's replayed buffer, since the same time.
WaitingReplayed ==
  \A n \in Nodes : \A b \in Waiting(n) :
    /\ \E q \in replay.node[n].packets : q.id = b.pkt.id
    /\ \A q \in replay.node[n].packets : q.id = b.pkt.id => q.arrived_at = b.since

\* What is in a node's replayed buffer is nowhere else: it waits in that node,
\* or for its application, or it was refused there or taken along by a crash.
StoresReplayed ==
  \A n \in Nodes : \A q \in replay.node[n].packets :
    /\ fate[q.id] \in {"live", "delivered", "node_down", "stranded"}
    /\ fate[q.id] = "delivered" => q.id \in unread[n]
    /\ fate[q.id] = "stranded" => crashed # {}
    /\ \A l \in Links : \A r \in in_transit[l] : r.pkt.id # q.id
    /\ \A m \in Nodes : \A b \in Waiting(m) : b.pkt.id = q.id => m = n

\* What an application can still read was delivered and is in the buffer.
UnreadReplayed ==
  \A n \in Nodes : \A i \in unread[n] :
    fate[i] = "delivered" /\ \E q \in replay.node[n].packets : q.id = i

ReplayInv ==
  /\ replay \in Verifier /\ unread \in [Nodes -> SUBSET Ids]
  /\ ReplayCompletes
  /\ StatusReplayed
  /\ FlightsReplayed
  /\ WaitingReplayed
  /\ StoresReplayed
  /\ UnreadReplayed
  /\ RulesKept
=============================================================================
