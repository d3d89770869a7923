------------------------ MODULE SimulationVerifier -------------------------
(***************************************************************************)
(* SimulationVerifier::verify (tracing/simulation_verifier.rs) replays the *)
(* steps that the tracer recorded.  There is an operator for every kind of *)
(* step: it takes the verifier v to the verifier after that step, at time  *)
(* t.  Errors are sets of kinds; messages, identities and the statistics   *)
(* other than drops are left out, and so is the bandwidth of links         *)
(* (BandwidthReplay).  Extra delays are never recorded (mod.rs:587), so a  *)
(* packet in flight has none here.                                         *)
(***************************************************************************)
EXTENDS Integers, FiniteSets, FiniteSetsExt

CONSTANTS Nodes, Links, Source, Target, Capacity, Delay

NoTime == -1

\* The counters of dropped packets in ReplayedNode
Counters == {"injected", "zero_ttl", "buffer_full", "buffer_cleared", "down"}

\* SimulationVerifier::new
NewVerifier ==
  [node      |-> [n \in Nodes |-> [up |-> TRUE, last_buffer_clear |-> NoTime,
                                   packets |-> {}]],
   link      |-> [l \in Links |-> [up |-> TRUE, last_down |-> NoTime]],
   in_flight |-> {},
   dropped   |-> [n \in Nodes |-> [c \in Counters |-> 0]],
   errors    |-> {},
   fatal     |-> FALSE]

\* try_fatal!: nothing happens after a fatal error.
TryFatal(v, w) == IF v.fatal THEN v ELSE w

Track(v, wrong, error) == IF wrong THEN [v EXCEPT !.errors = @ \union {error}] ELSE v

Fatal(v) == [v EXCEPT !.fatal = TRUE]

WithId(S, id) == {q \in S : q.id = id}

----------------------------------------------------------------------------
(* ReplayedNode *)

add_packet_to_buffer(v, n, id, size, t) ==
  LET w == Track(v, ~v.node[n].up, "NodeDownPacketReceive")
  IN  IF WithId(v.node[n].packets, id) # {} THEN Fatal(w)
      ELSE [w EXCEPT !.node[n].packets =
              @ \union {[id |-> id, size |-> size, arrived_at |-> t]}]

remove_packet_from_buffer(v, n, id) ==
  IF WithId(v.node[n].packets, id) = {} THEN Fatal(v)
  ELSE [v EXCEPT !.node[n].packets = @ \ WithId(@, id)]

Count(v, n, counter) == [v EXCEPT !.dropped[n][counter] = @ + 1]

packet_received(v, n, p, dropped_on_arrival, t) ==
  IF dropped_on_arrival
  THEN Track(Count(v, n, "down"), v.node[n].up, "NodeUpPacketDroppedOnArrival")
  ELSE add_packet_to_buffer(v, n, p.id, p.size, t)

\* A bug: a packet that arrived at the instant of the clear should be gone too.
ArrivedByClear(v, n, q) == q.arrived_at <= v.node[n].last_buffer_clear

\* A packet that was in the buffer when it was cleared
survived(v, n, q) == q.arrived_at < v.node[n].last_buffer_clear

\* A bug: the status of the node is not looked at.
SentFromAnyNode(v, n, id) ==
  Track(remove_packet_from_buffer(v, n, id),
        \E q \in WithId(v.node[n].packets, id) : survived(v, n, q),
        "PacketSurvivedBufferCorruption")

\* ReplayedNode::packet_sent
packet_sent(v, n, id) ==
  LET w == Track(v, ~v.node[n].up, "NodeDownPacketSend")
  IN  Track(remove_packet_from_buffer(w, n, id),
            \E q \in WithId(v.node[n].packets, id) : survived(v, n, q),
            "PacketSurvivedBufferCorruption")

\* A bug: a packet dropped from a cleared buffer is counted as one too many.
ClearedIsFull(reason) ==
  IF reason \in {"random", "zero_ttl"} THEN "injected" ELSE "buffer_full"

\* The counter of a reason.  ReplayedNode::packet_dropped counts ZeroTtl as injected.
counter(reason) == IF reason \in {"random", "zero_ttl"} THEN "injected" ELSE reason

----------------------------------------------------------------------------
(* One operator per kind of step *)

\* The link of packet f in flight went down since the packet was sent.
down_since(v, f) == v.link[f.link].last_down >= f.sent_at

\* The packet is in node n.  One that is not in flight was just created there,
\* and then dropped_on_arrival is ignored.
PacketInNode(v, n, p, dropped_on_arrival, t) ==
  LET arriving == WithId(v.in_flight, p.id)
      f  == CHOOSE q \in arriving : TRUE
      v1 == [v EXCEPT !.in_flight = @ \ arriving]
      v2 == Track(v1, n # Target[f.link], "DisconnectedPacketReceive")
      v3 == Track(v2, t - f.sent_at < Delay[f.link], "TooFastPacketReceive")
      v4 == Track(v3, down_since(v, f), "OfflinePacketReceive")
  IN  TryFatal(v, IF arriving = {}
                  THEN add_packet_to_buffer(v, n, p.id, p.size, t)
                  ELSE packet_received(v4, n, p, dropped_on_arrival, t))

PacketDuplicated(v, n, p, t) ==
  TryFatal(v, add_packet_to_buffer(v, n, p.id, p.size, t))

PacketDropped(v, n, id, reason) ==
  LET w == remove_packet_from_buffer(v, n, id)
  IN  TryFatal(v, TryFatal(w, Count(w, n, counter(reason))))

\* A bug: a lost packet is looked up and not removed.
LostStaysInFlight(v, id) ==
  TryFatal(v, Track(v, WithId(v.in_flight, id) = {}, "MissingLostPacket"))

PacketLostInTransit(v, id) ==
  TryFatal(v, [Track(v, WithId(v.in_flight, id) = {}, "MissingLostPacket")
                 EXCEPT !.in_flight = @ \ WithId(@, id)])

\* The packet leaves node n over link l.
PacketInTransit(v, n, l, p, t) ==
  LET v1 == packet_sent(v, n, p.id)
      v2 == Track(v1, n # Source[l], "DisconnectedPacketSend")
      v3 == Track(v2, ~v.link[l].up, "OfflinePacketSend")
  IN  TryFatal(v, TryFatal(v1,
        [v3 EXCEPT !.in_flight =
           (@ \ WithId(@, p.id)) \union
             {[id |-> p.id, size |-> p.size, sent_at |-> t, link |-> l]}]))

PacketDeliveredToApplication(v, n, id) ==
  TryFatal(v, remove_packet_from_buffer(v, n, id))

\* ReplayedLink::set_status; a link that is down may go down again.
LinkEvent(v, l, status, t) ==
  TryFatal(v, [v EXCEPT
    !.link[l] = [up        |-> IF status = "unchanged" THEN @.up ELSE status = "up",
                 last_down |-> IF status = "down" THEN t ELSE @.last_down]])

\* ReplayedNode::handle_event
NodeEvent(v, n, status, clear_buffer, t) ==
  TryFatal(v, [v EXCEPT
    !.node[n].up = IF status = "unchanged" THEN @ ELSE status = "up",
    !.node[n].last_buffer_clear = IF clear_buffer THEN t ELSE @])

buffer_usage(v, n) == MapThenSumSet(LAMBDA q : q.size, v.node[n].packets)

\* update_max_buffer_usage, between the steps of one instant and the next
update_max_buffer_usage(v) ==
  TryFatal(v, Track(v, \E n \in Nodes : buffer_usage(v, n) > Capacity[n],
                    "NodeExceedsBufferSize"))
=============================================================================
