-------------------------- MODULE VerifiedProofs ---------------------------
(***************************************************************************)
(* Proofs about the verifier's replay of a simulation, for every topology, *)
(* every schedule of network events and all traffic.  The inductive        *)
(* invariant is ReplayInv, together with NetworkInv and CopyInv.           *)
(***************************************************************************)
EXTENDS NetworkProofs, VerifiedNetwork, SumLemmas

----------------------------------------------------------------------------
(* The steps of the verifier *)

\* w is the verifier v with the packets P in node n and F in flight, and maybe
\* with more errors.
Becomes(v, w, n, P, F) ==
  /\ w \in Verifier
  /\ w.fatal = v.fatal
  /\ w.link = v.link
  /\ \A m \in Nodes : /\ w.node[m].up = v.node[m].up
                      /\ w.node[m].last_buffer_clear = v.node[m].last_buffer_clear
                      /\ w.node[m].packets = IF m = n THEN P ELSE v.node[m].packets
  /\ w.in_flight = F
  /\ v.errors \subseteq w.errors

LEMMA TrackEffect ==
  ASSUME NEW v \in Verifier, NEW wrong, NEW error \in ErrorKinds, NEW n \in Nodes
  PROVE  LET w == V!Track(v, wrong, error)
         IN  /\ Becomes(v, w, n, v.node[n].packets, v.in_flight)
             /\ wrong => error \in w.errors
             /\ \A e \in w.errors : e \in v.errors \/ (e = error /\ wrong)
BY DEF V!Track, Becomes, Verifier

LEMMA CountEffect ==
  ASSUME NEW v \in Verifier, NEW n \in Nodes, NEW c \in V!Counters
  PROVE  /\ Becomes(v, V!Count(v, n, c), n, v.node[n].packets, v.in_flight)
         /\ V!Count(v, n, c).errors = v.errors
<1> DEFINE D == [v.dropped EXCEPT ![n] = [v.dropped[n] EXCEPT ![c] = v.dropped[n][c] + 1]]
<1>1. v.dropped \in [Nodes -> [V!Counters -> Nat]] /\ v.dropped[n][c] \in Nat
  BY DEF Verifier
<1>2. D \in [Nodes -> [V!Counters -> Nat]]
  BY <1>1
<1>3. V!Count(v, n, c) = [v EXCEPT !.dropped = D]
  BY DEF V!Count
<1> HIDE DEF D
<1> QED
  BY <1>2, <1>3 DEF Becomes, Verifier

LEMMA StoreEffect ==
  ASSUME NEW v \in Verifier, NEW n \in Nodes, NEW P \in SUBSET StoredPacket
  PROVE  LET w == [v EXCEPT !.node = [v.node EXCEPT ![n] = [v.node[n] EXCEPT !.packets = P]]]
         IN  Becomes(v, w, n, P, v.in_flight) /\ w.errors = v.errors
BY ZenonT(60) DEF Becomes, Verifier

\* One step of the verifier after the other
LEMMA BecomesTwice ==
  ASSUME NEW u, NEW v, NEW w, NEW n, NEW P, NEW Q, NEW F, NEW G,
         Becomes(u, v, n, P, F), Becomes(v, w, n, Q, G)
  PROVE  Becomes(u, w, n, Q, G)
BY DEF Becomes

LEMMA RemoveEffect ==
  ASSUME NEW v \in Verifier, NEW n \in Nodes, NEW id,
         \E q \in v.node[n].packets : q.id = id
  PROVE  /\ Becomes(v, V!remove_packet_from_buffer(v, n, id), n,
                    {q \in v.node[n].packets : q.id # id}, v.in_flight)
         /\ V!remove_packet_from_buffer(v, n, id).errors = v.errors
BY ZenonT(60) DEF V!remove_packet_from_buffer, V!WithId, Becomes, Verifier

LEMMA AddEffect ==
  ASSUME NEW v \in Verifier, NEW n \in Nodes, NEW id \in Ids, NEW size \in Nat, NEW t \in Nat,
         \A q \in v.node[n].packets : q.id # id
  PROVE  /\ Becomes(v, V!add_packet_to_buffer(v, n, id, size, t), n,
                    v.node[n].packets \union {[id |-> id, size |-> size, arrived_at |-> t]},
                    v.in_flight)
         /\ \A e \in V!add_packet_to_buffer(v, n, id, size, t).errors :
              e \in v.errors \/ (e = "NodeDownPacketReceive" /\ ~v.node[n].up)
<1> DEFINE w == V!Track(v, ~v.node[n].up, "NodeDownPacketReceive")
           q == [id |-> id, size |-> size, arrived_at |-> t]
           P == w.node[n].packets \union {q}
<1>1. q \in StoredPacket
  BY DEF StoredPacket
<1>2. /\ Becomes(v, w, n, v.node[n].packets, v.in_flight)
      /\ \A e \in w.errors : e \in v.errors \/ (e = "NodeDownPacketReceive" /\ ~v.node[n].up)
  BY TrackEffect DEF ErrorKinds
<1>3. V!add_packet_to_buffer(v, n, id, size, t) =
        [w EXCEPT !.node = [w.node EXCEPT ![n] = [w.node[n] EXCEPT !.packets = P]]]
  BY DEF V!add_packet_to_buffer, V!WithId
<1> HIDE DEF w, q
<1>4. w \in Verifier /\ w.node[n].packets = v.node[n].packets /\ w.in_flight = v.in_flight
  BY <1>2 DEF Becomes
<1>5. P \in SUBSET StoredPacket
  BY <1>1, <1>4 DEF Verifier
<1> HIDE DEF P
<1>6. /\ Becomes(w, V!add_packet_to_buffer(v, n, id, size, t), n, P, w.in_flight)
      /\ V!add_packet_to_buffer(v, n, id, size, t).errors = w.errors
  BY <1>3, <1>4, <1>5, StoreEffect
<1>7. Becomes(v, V!add_packet_to_buffer(v, n, id, size, t), n, P, v.in_flight)
  BY <1>2, <1>4, <1>6, BecomesTwice
<1> QED
  BY <1>2, <1>4, <1>6, <1>7 DEF P, q

\* The packets of S other than packet id
Without(S, id) == {q \in S : q.id # id}

LEMMA DroppedEffect ==
  ASSUME NEW v \in Verifier, ~v.fatal, NEW n \in Nodes, NEW id, NEW reason \in DropReasons,
         \E q \in v.node[n].packets : q.id = id
  PROVE  LET w == V!PacketDropped(v, n, id, reason)
         IN  /\ Becomes(v, w, n, Without(v.node[n].packets, id), v.in_flight)
             /\ w.errors = v.errors
<1> DEFINE w == V!remove_packet_from_buffer(v, n, id)
           c == V!counter(reason)
           P == Without(v.node[n].packets, id)
<1>1. Becomes(v, w, n, P, v.in_flight) /\ w.errors = v.errors
  BY RemoveEffect DEF Without
<1>2. w \in Verifier /\ ~w.fatal /\ w.node[n].packets = P /\ w.in_flight = v.in_flight
  BY <1>1 DEF Becomes
<1>3. c \in V!Counters
  BY DEF V!counter, V!Counters, DropReasons
<1>4. V!PacketDropped(v, n, id, reason) = V!Count(w, n, c)
  BY <1>2 DEF V!PacketDropped, V!TryFatal
<1> HIDE DEF w, c, P
<1>5. Becomes(w, V!Count(w, n, c), n, P, v.in_flight) /\ V!Count(w, n, c).errors = w.errors
  BY <1>2, <1>3, CountEffect
<1> QED
  BY <1>1, <1>4, <1>5, BecomesTwice DEF P

LEMMA LostEffect ==
  ASSUME NEW v \in Verifier, ~v.fatal, NEW n \in Nodes, NEW id, \E f \in v.in_flight : f.id = id
  PROVE  LET w == V!PacketLostInTransit(v, id)
         IN  /\ Becomes(v, w, n, v.node[n].packets, Without(v.in_flight, id))
             /\ w.errors = v.errors
<1>1. V!PacketLostInTransit(v, id) = [v EXCEPT !.in_flight = Without(v.in_flight, id)]
  BY DEF V!PacketLostInTransit, V!TryFatal, V!Track, V!WithId, Without, Verifier
<1> QED
  BY <1>1 DEF Becomes, Verifier, Without

LEMMA SentEffect ==
  ASSUME NEW v \in Verifier, NEW n \in Nodes, NEW id,
         \E q \in v.node[n].packets : q.id = id,
         \A q \in v.node[n].packets : q.id = id => ~V!survived(v, n, q)
  PROVE  LET w == V!packet_sent(v, n, id)
         IN  /\ Becomes(v, w, n, Without(v.node[n].packets, id), v.in_flight)
             /\ ~v.node[n].up => "NodeDownPacketSend" \in w.errors
             /\ \A e \in w.errors : e \in v.errors \/ e = "NodeDownPacketSend"
<1> DEFINE w == V!Track(v, ~v.node[n].up, "NodeDownPacketSend")
           P == Without(v.node[n].packets, id)
<1>1. /\ Becomes(v, w, n, v.node[n].packets, v.in_flight)
      /\ ~v.node[n].up => "NodeDownPacketSend" \in w.errors
      /\ \A e \in w.errors : e \in v.errors \/ e = "NodeDownPacketSend"
  BY TrackEffect DEF ErrorKinds
<1>2. w \in Verifier /\ w.node[n].packets = v.node[n].packets /\ w.in_flight = v.in_flight
  BY <1>1 DEF Becomes
<1>3. V!packet_sent(v, n, id) = V!remove_packet_from_buffer(w, n, id)
  BY DEF V!packet_sent, V!Track, V!WithId
<1> HIDE DEF w
<1>4. /\ Becomes(w, V!remove_packet_from_buffer(w, n, id), n, P, v.in_flight)
      /\ V!remove_packet_from_buffer(w, n, id).errors = w.errors
  BY <1>2, RemoveEffect DEF Without
<1> HIDE DEF P
<1> QED
  BY <1>1, <1>3, <1>4, BecomesTwice DEF P

LEMMA InTransitEffect ==
  ASSUME NEW v \in Verifier, ~v.fatal, NEW l \in Links, NEW p, p.id \in Ids, p.size \in Nat,
         NEW t \in Nat, NEW n \in Nodes, n = Source[l], v.link[l].up,
         \E q \in v.node[n].packets : q.id = p.id,
         \A q \in v.node[n].packets : q.id = p.id => ~V!survived(v, n, q)
  PROVE  LET w == V!PacketInTransit(v, n, l, p, t)
         IN  /\ Becomes(v, w, n, Without(v.node[n].packets, p.id),
                        Without(v.in_flight, p.id) \union
                          {[id |-> p.id, size |-> p.size, sent_at |-> t, link |-> l]})
             /\ ~v.node[n].up => "NodeDownPacketSend" \in w.errors
             /\ \A e \in w.errors : e \in v.errors \/ e = "NodeDownPacketSend"
<1> DEFINE w == V!packet_sent(v, n, p.id)
           f == [id |-> p.id, size |-> p.size, sent_at |-> t, link |-> l]
           F == Without(v.in_flight, p.id) \union {f}
           P == Without(v.node[n].packets, p.id)
<1>1. /\ Becomes(v, w, n, P, v.in_flight)
      /\ ~v.node[n].up => "NodeDownPacketSend" \in w.errors
      /\ \A e \in w.errors : e \in v.errors \/ e = "NodeDownPacketSend"
  BY SentEffect
<1>2. w \in Verifier /\ ~w.fatal /\ w.in_flight = v.in_flight /\ w.node[n].packets = P
  BY <1>1 DEF Becomes
<1>3. V!PacketInTransit(v, n, l, p, t) = [w EXCEPT !.in_flight = F]
  BY <1>2 DEF V!PacketInTransit, V!TryFatal, V!Track, V!WithId, Without
<1>4. F \in SUBSET [id : Ids, size : Nat, sent_at : Nat, link : Links]
  BY DEF Verifier, Without
<1> HIDE DEF w, F, P
<1>5. Becomes(w, [w EXCEPT !.in_flight = F], n, P, F) /\ [w EXCEPT !.in_flight = F].errors = w.errors
  BY <1>2, <1>4 DEF Becomes, Verifier
<1> QED
  BY <1>1, <1>3, <1>5, BecomesTwice DEF F, P

\* The entry for packet p in a buffer since t
Entry(p, t) == [id |-> p.id, size |-> p.size, arrived_at |-> t]

LEMMA CreatedEffect ==
  ASSUME NEW v \in Verifier, ~v.fatal, NEW n \in Nodes, NEW p, p.id \in Ids, p.size \in Nat,
         NEW t \in Nat, NEW dropped,
         \A f \in v.in_flight : f.id # p.id, \A q \in v.node[n].packets : q.id # p.id
  PROVE  LET w == V!PacketInNode(v, n, p, dropped, t)
         IN  /\ Becomes(v, w, n, v.node[n].packets \union {Entry(p, t)}, v.in_flight)
             /\ \A e \in w.errors : e \in v.errors \/ (e = "NodeDownPacketReceive" /\ ~v.node[n].up)
<1>1. V!PacketInNode(v, n, p, dropped, t) = V!add_packet_to_buffer(v, n, p.id, p.size, t)
  BY DEF V!PacketInNode, V!TryFatal, V!WithId
<1> QED
  BY <1>1, AddEffect DEF Entry

LEMMA ReceivedEffect ==
  ASSUME NEW v \in Verifier, ~v.fatal, NEW n \in Nodes, NEW p, p.id \in Ids, p.size \in Nat,
         NEW t \in Nat, NEW dropped, dropped <=> ~v.node[n].up,
         \E f \in v.in_flight : f.id = p.id,
         \A f \in v.in_flight : f.id = p.id => n = Target[f.link],
         \A q \in v.node[n].packets : q.id # p.id
  PROVE  LET w == V!PacketInNode(v, n, p, dropped, t)
         IN  /\ v.node[n].up =>
                  Becomes(v, w, n, v.node[n].packets \union {Entry(p, t)}, Without(v.in_flight, p.id))
             /\ ~v.node[n].up =>
                  Becomes(v, w, n, v.node[n].packets, Without(v.in_flight, p.id))
             /\ \A e \in w.errors :
                  e \in v.errors \/ e \in {"TooFastPacketReceive", "OfflinePacketReceive"}
             /\ (\A f \in v.in_flight : f.id = p.id => V!down_since(v, f)) =>
                  "OfflinePacketReceive" \in w.errors
<1> DEFINE arriving == V!WithId(v.in_flight, p.id)
           f  == CHOOSE q \in arriving : TRUE
           v1 == [v EXCEPT !.in_flight = @ \ arriving]
           v2 == V!Track(v1, n # Target[f.link], "DisconnectedPacketReceive")
           early   == t - f.sent_at < Delay[f.link]
           offline == V!down_since(v, f)
           v3 == V!Track(v2, early, "TooFastPacketReceive")
           v4 == V!Track(v3, offline, "OfflinePacketReceive")
           P  == v.node[n].packets
           F  == Without(v.in_flight, p.id)
           w  == V!PacketInNode(v, n, p, dropped, t)
<1>1. arriving # {} /\ f \in v.in_flight /\ f.id = p.id
  BY DEF V!WithId
<1>2. w = V!packet_received(v4, n, p, dropped, t)
  BY <1>1 DEF V!PacketInNode, V!TryFatal
<1>3. Becomes(v, v1, n, P, F) /\ v1.errors = v.errors
  BY DEF Becomes, Verifier, Without, V!WithId
<1> HIDE DEF f, v1, w, P, F, arriving, early, offline
<1>4. v2 = v1
  BY <1>1 DEF V!Track
<1>5. v1 \in Verifier /\ v1.node[n].packets = P /\ v1.in_flight = F
  BY <1>3 DEF Becomes
<1> HIDE DEF v2
<1>6. /\ Becomes(v1, v3, n, P, F)
      /\ \A e \in v3.errors : e \in v1.errors \/ e = "TooFastPacketReceive"
  BY <1>4, <1>5, TrackEffect, ZenonT(60) DEF ErrorKinds
<1>7. v3 \in Verifier /\ v3.node[n].packets = P /\ v3.in_flight = F
  BY <1>6 DEF Becomes
<1> HIDE DEF v3
<1>8. /\ Becomes(v3, v4, n, P, F)
      /\ offline => "OfflinePacketReceive" \in v4.errors
      /\ \A e \in v4.errors : e \in v3.errors \/ e = "OfflinePacketReceive"
  <2>1. "OfflinePacketReceive" \in ErrorKinds
    BY DEF ErrorKinds
  <2> QED
    BY <1>7, <2>1, TrackEffect, ZenonT(60)
<1> HIDE DEF v4
<1>9. /\ Becomes(v, v4, n, P, F)
      /\ offline => "OfflinePacketReceive" \in v4.errors
      /\ \A e \in v4.errors : e \in v.errors \/ e \in {"TooFastPacketReceive", "OfflinePacketReceive"}
  BY <1>3, <1>6, <1>8, BecomesTwice
<1>10. v4 \in Verifier /\ v4.node[n].packets = P /\ v4.in_flight = F /\ v4.node[n].up = v.node[n].up
  BY <1>9 DEF Becomes
<1>11. CASE v.node[n].up
  <2>1. w = V!add_packet_to_buffer(v4, n, p.id, p.size, t)
    BY <1>2, <1>11 DEF V!packet_received
  <2>2. /\ Becomes(v4, w, n, P \union {Entry(p, t)}, F)
        /\ \A e \in w.errors : e \in v4.errors
    BY <1>10, <1>11, <2>1, AddEffect DEF Entry, P
  <2>3. Becomes(v, w, n, P \union {Entry(p, t)}, F)
    BY <1>9, <2>2, BecomesTwice
  <2>4. v4.errors \subseteq w.errors
    BY <2>2 DEF Becomes
  <2> QED
    BY <1>1, <1>9, <1>11, <2>2, <2>3, <2>4 DEF P, F, w, offline
<1>12. CASE ~v.node[n].up
  <2>1. V!Count(v4, n, "down") \in Verifier
    BY <1>10, CountEffect DEF Becomes, V!Counters
  <2>2. w = V!Count(v4, n, "down")
    BY <1>2, <1>10, <1>12 DEF V!packet_received, V!Track
  <2>3. Becomes(v4, w, n, P, F) /\ w.errors = v4.errors
    BY <1>10, <2>2, CountEffect DEF V!Counters
  <2>4. Becomes(v, w, n, P, F)
    BY <1>9, <2>3, BecomesTwice
  <2> QED
    BY <1>1, <1>9, <1>12, <2>3, <2>4 DEF P, F, w, offline
<1> QED
  BY <1>11, <1>12 DEF Verifier

LEMMA LinkEventEffect ==
  ASSUME NEW v \in Verifier, ~v.fatal, NEW l \in Links, NEW status \in Statuses, NEW t \in Nat
  PROVE  LET w == V!LinkEvent(v, l, status, t)
         IN  /\ w \in Verifier
             /\ ~w.fatal /\ w.node = v.node /\ w.in_flight = v.in_flight /\ w.errors = v.errors
             /\ \A k \in Links \ {l} : w.link[k] = v.link[k]
             /\ status = "unchanged" => w.link[l].up = v.link[l].up
             /\ status # "unchanged" => w.link[l].up = (status = "up")
             /\ w.link[l].last_down = IF status = "down" THEN t ELSE v.link[l].last_down
BY DEF V!LinkEvent, V!TryFatal, Verifier, Statuses

LEMMA NodeEventEffect ==
  ASSUME NEW v \in Verifier, ~v.fatal, NEW n \in Nodes, NEW status \in Statuses,
         NEW clear \in BOOLEAN, NEW t \in Nat
  PROVE  LET w == V!NodeEvent(v, n, status, clear, t)
         IN  /\ w \in Verifier
             /\ ~w.fatal /\ w.link = v.link /\ w.in_flight = v.in_flight /\ w.errors = v.errors
             /\ \A m \in Nodes : w.node[m].packets = v.node[m].packets
             /\ \A m \in Nodes \ {n} : w.node[m] = v.node[m]
             /\ status = "unchanged" => w.node[n].up = v.node[n].up
             /\ status # "unchanged" => w.node[n].up = (status = "up")
             /\ w.node[n].last_buffer_clear = IF clear THEN t ELSE v.node[n].last_buffer_clear
<1> DEFINE u == IF status = "unchanged" THEN v.node[n].up ELSE status = "up"
           x == [v EXCEPT !.node = [v.node EXCEPT ![n] = [v.node[n] EXCEPT !.up = u]]]
           c == IF clear THEN t ELSE x.node[n].last_buffer_clear
           w == [x EXCEPT !.node = [x.node EXCEPT ![n] = [x.node[n] EXCEPT !.last_buffer_clear = c]]]
<1>1. u \in BOOLEAN
  BY DEF Verifier, Statuses
<1>2. V!NodeEvent(v, n, status, clear, t) = w
  BY DEF V!NodeEvent, V!TryFatal
<1> HIDE DEF u
<1>3. /\ x \in Verifier
      /\ ~x.fatal /\ x.link = v.link /\ x.in_flight = v.in_flight /\ x.errors = v.errors
      /\ \A m \in Nodes : /\ x.node[m].packets = v.node[m].packets
                          /\ x.node[m].last_buffer_clear = v.node[m].last_buffer_clear
      /\ \A m \in Nodes \ {n} : x.node[m] = v.node[m]
      /\ x.node[n].up = u
  BY <1>1, ZenonT(60) DEF Verifier
<1> HIDE DEF x
<1>4. c \in Nat \union {NoTime} /\ c = IF clear THEN t ELSE v.node[n].last_buffer_clear
  BY <1>3 DEF Verifier
<1> HIDE DEF c
<1>5. /\ w \in Verifier
      /\ w.fatal = x.fatal /\ w.link = x.link /\ w.in_flight = x.in_flight /\ w.errors = x.errors
      /\ \A m \in Nodes : w.node[m].packets = x.node[m].packets
      /\ \A m \in Nodes \ {n} : w.node[m] = x.node[m]
      /\ w.node[n].up = x.node[n].up /\ w.node[n].last_buffer_clear = c
  <2> DEFINE N == [x.node[n] EXCEPT !.last_buffer_clear = c]
             M == [x.node EXCEPT ![n] = N]
             T == [up : BOOLEAN, last_buffer_clear : Nat \union {NoTime},
                   packets : SUBSET StoredPacket]
  <2>1. x.node \in [Nodes -> T] /\ x.node[n] \in T
    BY <1>3 DEF Verifier
  <2>2. /\ N \in T
        /\ N.up = x.node[n].up /\ N.packets = x.node[n].packets /\ N.last_buffer_clear = c
    BY <1>4, <2>1
  <2> HIDE DEF N
  <2>3. /\ M \in [Nodes -> T] /\ M[n] = N
        /\ \A m \in Nodes \ {n} : M[m] = x.node[m]
    BY <2>1, <2>2
  <2>4. w = [x EXCEPT !.node = M]
    BY DEF N
  <2> HIDE DEF M, w
  <2>5. /\ w \in Verifier /\ w.node = M
        /\ w.fatal = x.fatal /\ w.link = x.link /\ w.in_flight = x.in_flight /\ w.errors = x.errors
    BY <1>3, <2>3, <2>4 DEF Verifier
  <2> QED
    BY <2>2, <2>3, <2>5
<1> HIDE DEF w
<1>6. /\ status = "unchanged" => u = v.node[n].up
      /\ status # "unchanged" => u = (status = "up")
  BY DEF u
<1> QED
  BY <1>2, <1>3, <1>4, <1>5, <1>6

----------------------------------------------------------------------------
(* What waits and what is in transit *)

IsWaiting(n, b) ==
  \/ b \in Entries(outbound[n])
  \/ \E l \in Links : Source[l] = n /\ b \in Offered(l) /\ Key(b.pkt) \notin handled

LEMMA WaitingNow == \A n : \A b : b \in Waiting(n) <=> IsWaiting(n, b)
BY DEF Waiting, IsWaiting, Entries

LEMMA WaitingNext == (\A n : \A b : b \in Waiting(n) <=> IsWaiting(n, b))'
BY DEF Waiting, IsWaiting, Entries

\* CopyInv for what waits and what is in transit
LEMMA PlacesApart ==
  ASSUME TypeOK, CopyInv
  PROVE  /\ \A n \in Nodes : \A b \in Waiting(n) :
              b \in Buffered /\ b.pkt \in Packet /\ b.pkt.id \in Ids /\ fate[b.pkt.id] = "live"
         /\ \A n, m \in Nodes : \A b \in Waiting(n), c \in Waiting(m) :
              b.pkt.id = c.pkt.id => n = m /\ b.pkt = c.pkt
         /\ \A n \in Nodes, l \in Links : \A b \in Waiting(n), r \in in_transit[l] :
              b.pkt.id # r.pkt.id
         /\ \A l, k \in Links : \A r \in in_transit[l], s \in in_transit[k] :
              r.pkt.id = s.pkt.id => l = k /\ r = s
         /\ \A l \in Links : \A r \in in_transit[l] :
              r \in Transit /\ r.pkt \in Packet /\ r.pkt.id \in Ids /\ fate[r.pkt.id] = "live"
<1>1. ASSUME NEW n \in Nodes, NEW b \in Waiting(n)
      PROVE  /\ b \in Buffered
             /\ \E x \in Whereabouts : x[1] # "link" /\ x[2] = n /\ x[3] = b.pkt
  <2>1. CASE b \in Entries(outbound[n])
    <3>1. b \in Buffered
      BY <2>1, ElementOfSeq DEF TypeOK, Entries
    <3>2. InBuffer(n, b.pkt)
      BY <2>1 DEF InBuffer, Entries
    <3>3. InSomePlace(<<"buffer", n, b.pkt>>)
      BY <3>2 DEF InSomePlace
    <3> QED
      BY <3>1, <3>3, WhereaboutsNow
  <2>2. ASSUME NEW l \in Links, Source[l] = n, b \in Offered(l), Key(b.pkt) \notin handled
        PROVE  /\ b \in Buffered
               /\ \E x \in Whereabouts : x[1] # "link" /\ x[2] = n /\ x[3] = b.pkt
    <3>1. b \in Buffered
      BY <2>2, ElementOfSeq DEF TypeOK, Offered
    <3>2. Pending(l, b.pkt)
      BY <2>2 DEF Pending
    <3>3. InSomePlace(<<"offer", n, b.pkt>>)
      BY <2>2, <3>2 DEF InSomePlace
    <3> QED
      BY <3>1, <3>3, WhereaboutsNow
  <2> QED
    BY <2>1, <2>2, WaitingNow DEF IsWaiting
<1>2. ASSUME NEW l \in Links, NEW r \in in_transit[l]
      PROVE  r \in Transit /\ <<"link", l, r.pkt>> \in Whereabouts
  <2>1. Flying(l, r.pkt)
    BY DEF Flying
  <2>2. InSomePlace(<<"link", l, r.pkt>>)
    BY <2>1 DEF InSomePlace
  <2> QED
    BY <2>2, WhereaboutsNow DEF TypeOK
<1>3. \A x \in Whereabouts : fate[x[3].id] = "live"
  BY DEF CopyInv, Tracked
<1>4. \A x, y \in Whereabouts : x[3].id = y[3].id => x = y
  BY DEF CopyInv, OnePlace
<1>5. \A l \in Links : \A r, s \in in_transit[l] : r.pkt.id = s.pkt.id => r = s
  BY DEF CopyInv, OnePlace
<1>6. \A n \in Nodes : \A b \in Waiting(n) :
        b \in Buffered /\ b.pkt \in Packet /\ b.pkt.id \in Ids /\ fate[b.pkt.id] = "live"
  BY <1>1, <1>3 DEF Buffered, Packet
<1>7. \A n, m \in Nodes : \A b \in Waiting(n), c \in Waiting(m) :
        b.pkt.id = c.pkt.id => n = m /\ b.pkt = c.pkt
  BY <1>1, <1>4
<1>8. \A n \in Nodes, l \in Links : \A b \in Waiting(n), r \in in_transit[l] :
        b.pkt.id # r.pkt.id
  <2> SUFFICES ASSUME NEW n \in Nodes, NEW l \in Links, NEW b \in Waiting(n),
                      NEW r \in in_transit[l], b.pkt.id = r.pkt.id
               PROVE  FALSE
    OBVIOUS
  <2>1. PICK x \in Whereabouts : x[1] # "link" /\ x[3] = b.pkt
    BY <1>1
  <2>2. x = <<"link", l, r.pkt>>
    BY <1>2, <1>4, <2>1
  <2> QED
    BY <2>1, <2>2
<1>9. \A l, k \in Links : \A r \in in_transit[l], s \in in_transit[k] :
        r.pkt.id = s.pkt.id => l = k /\ r = s
  <2> SUFFICES ASSUME NEW l \in Links, NEW k \in Links, NEW r \in in_transit[l],
                      NEW s \in in_transit[k], r.pkt.id = s.pkt.id
               PROVE  l = k /\ r = s
    OBVIOUS
  <2>1. <<"link", l, r.pkt>> = <<"link", k, s.pkt>>
    BY <1>2, <1>4
  <2> QED
    BY <1>5, <2>1
<1>10. \A l \in Links : \A r \in in_transit[l] :
         r \in Transit /\ r.pkt \in Packet /\ r.pkt.id \in Ids /\ fate[r.pkt.id] = "live"
  BY <1>2, <1>3 DEF Transit, Packet
<1> QED
  BY <1>6, <1>7, <1>8, <1>9, <1>10

----------------------------------------------------------------------------
(* Steps that add no packet to a node *)

\* Packets may leave nodes, wait no longer, or be taken along by a crash.
LEMMA ReplayKeeps ==
  ASSUME ReplayInv, replay' \in Verifier, unread' \in [Nodes -> SUBSET Ids],
         ~replay'.fatal, StatusReplayed', FlightsReplayed', RulesKept',
         \A n \in Nodes : \A q \in replay'.node[n].packets :
           /\ q \in replay.node[n].packets
           /\ \/ fate'[q.id] = fate[q.id]
              \/ fate[q.id] = "live" /\ fate'[q.id] = "stranded" /\ crashed' # {}
           /\ q.id \in unread[n] => q.id \in unread'[n]
           /\ \A l \in Links : \A r \in in_transit'[l] : r.pkt.id # q.id,
         \A n \in Nodes : \A i \in unread'[n] :
           i \in unread[n] /\ fate'[i] = fate[i] /\ \E q \in replay'.node[n].packets : q.id = i,
         \A n \in Nodes : \A b \in Waiting(n)' :
           b \in Waiting(n) /\ \E q \in replay'.node[n].packets : q.id = b.pkt.id,
         crashed \subseteq crashed'
  PROVE  ReplayInv'
<1>1. WaitingReplayed'
  BY DEF ReplayInv, WaitingReplayed
<1>2. StoresReplayed'
  <2> SUFFICES ASSUME NEW n \in Nodes, NEW q \in replay'.node[n].packets
               PROVE  /\ fate'[q.id] \in {"live", "delivered", "node_down", "stranded"}
                      /\ fate'[q.id] = "delivered" => q.id \in unread'[n]
                      /\ fate'[q.id] = "stranded" => crashed' # {}
                      /\ \A l \in Links : \A r \in in_transit'[l] : r.pkt.id # q.id
                      /\ \A m \in Nodes : \A b \in Waiting(m)' : b.pkt.id = q.id => m = n
    BY DEF StoresReplayed
  <2>1. /\ fate[q.id] \in {"live", "delivered", "node_down", "stranded"}
        /\ fate[q.id] = "delivered" => q.id \in unread[n]
        /\ fate[q.id] = "stranded" => crashed # {}
        /\ \A m \in Nodes : \A b \in Waiting(m) : b.pkt.id = q.id => m = n
    BY DEF ReplayInv, StoresReplayed
  <2> QED
    BY <2>1
<1>3. UnreadReplayed'
  BY DEF ReplayInv, UnreadReplayed
<1> QED
  BY <1>1, <1>2, <1>3 DEF ReplayInv, ReplayCompletes

\* What a step of the verifier that concerns node n leaves alone
LEMMA BecomesStatus ==
  ASSUME StatusReplayed, UNCHANGED <<nodeUp, last_buffer_clear, linkUp, last_down>>,
         NEW n, NEW P, NEW F, Becomes(replay, replay', n, P, F)
  PROVE  StatusReplayed'
BY DEF StatusReplayed, Becomes

----------------------------------------------------------------------------
(* The tasks of nodes and links *)

\* Nothing happens in the replay, and tasks do no more than crash.
LEMMA QuietKeeps ==
  ASSUME TypeOK, ReplayInv, UNCHANGED <<nodeUp, last_buffer_clear, linkUp, last_down, in_transit>>,
         UNCHANGED unread, \E n \in Nodes : Becomes(replay, replay', n, replay.node[n].packets, replay.in_flight),
         RulesKept', crashed \subseteq crashed',
         \A n \in Nodes : \A b \in Waiting(n)' : b \in Waiting(n),
         \A i \in Ids : \/ fate'[i] = fate[i]
                        \/ fate[i] = "live" /\ fate'[i] = "stranded" /\ crashed' # {}
  PROVE  ReplayInv'
<1>1. /\ replay' \in Verifier /\ ~replay'.fatal /\ replay'.in_flight = replay.in_flight
      /\ \A n \in Nodes : replay'.node[n].packets = replay.node[n].packets
  BY DEF Becomes, ReplayInv, ReplayCompletes
<1>2. StatusReplayed'
  BY BecomesStatus DEF ReplayInv
<1>3. FlightsReplayed'
  BY <1>1 DEF ReplayInv, FlightsReplayed
<1>4. unread' \in [Nodes -> SUBSET Ids]
  BY DEF ReplayInv
<1>5. \A n \in Nodes : \A q \in replay.node[n].packets : q.id \in Ids
  BY DEF ReplayInv, Verifier, StoredPacket
<1>6. \A n \in Nodes : \A q \in replay'.node[n].packets :
        /\ q \in replay.node[n].packets
        /\ \/ fate'[q.id] = fate[q.id]
           \/ fate[q.id] = "live" /\ fate'[q.id] = "stranded" /\ crashed' # {}
        /\ q.id \in unread[n] => q.id \in unread'[n]
        /\ \A l \in Links : \A r \in in_transit'[l] : r.pkt.id # q.id
  BY <1>1, <1>5 DEF ReplayInv, StoresReplayed
<1>7. \A n \in Nodes : \A i \in unread'[n] :
        i \in unread[n] /\ fate'[i] = fate[i] /\ \E q \in replay'.node[n].packets : q.id = i
  BY <1>1, <1>4 DEF ReplayInv, UnreadReplayed
<1>8. \A n \in Nodes : \A b \in Waiting(n)' :
        b \in Waiting(n) /\ \E q \in replay'.node[n].packets : q.id = b.pkt.id
  BY <1>1 DEF ReplayInv, WaitingReplayed
<1> QED
  BY <1>1, <1>2, <1>3, <1>4, <1>6, <1>7, <1>8, ReplayKeeps

\* What a link's task may do: nothing that the tracer records, drop the packet
\* at the head of its queue, panic, or send it.
LinkOutcome(l) ==
  /\ \A k \in Links : \A o \in Offered(k)' : o \in Offered(k)
  /\ UNCHANGED <<now, nodeUp, last_buffer_clear, outbound, linkUp, last_down>>
  /\ crashed \subseteq crashed' /\ handled \subseteq handled'
  /\ \/ /\ UNCHANGED <<fate, in_transit, available_capacity, handled>>
        /\ crashed' = {} => \A k \in Links : \A o \in Offered(k) :
                              Key(o.pkt) \in handled \/ o \in Offered(k)'
     \/ /\ Current(l) \in Offered(l) /\ Current(l) \in Buffered /\ Source[l] \in Nodes
        /\ Key(Current(l).pkt) \notin handled /\ Key(Current(l).pkt) \in handled'
        /\ handled' = handled \union {Key(Current(l).pkt)}
        /\ \/ /\ UNCHANGED <<in_transit, available_capacity>>
              /\ fate' = [fate EXCEPT ![Current(l).pkt.id] = "buffer_cleared"]
           \/ /\ UNCHANGED <<in_transit, available_capacity>>
              /\ fate' = [fate EXCEPT ![Current(l).pkt.id] = "stranded"]
              /\ crashed' # {}
           \/ /\ UNCHANGED fate
              /\ \A k \in Links : \A o \in Offered(k) : o = Current(l) \/ o \in Offered(k)'
              /\ available_capacity' =
                   [available_capacity EXCEPT ![Source[l]] = @ + Current(l).pkt.size]
              /\ linkUp[l] /\ ~(Current(l).since < last_buffer_clear[Source[l]])
              /\ \E r : /\ r.pkt.id = Current(l).pkt.id /\ r.sent = now
                        /\ in_transit' = [in_transit EXCEPT ![l] = @ \union {r}]

LEMMA ClaimOutcome ==
  ASSUME TypeOK, NEW l \in Links, UNCHANGED others, outgoing[l] # <<>>,
         ~already_handled(l), NEW b, Claim(l, b)
  PROVE  LinkOutcome(l)
<1> DEFINE c == Current(l)
<1>1. c \in Buffered /\ c.pkt \in Packet /\ Source[l] \in Nodes /\ c \in Offered(l)
  <2>1. outgoing[l] \in Seq(Buffered) /\ Len(outgoing[l]) \in Nat \ {0} /\ c = outgoing[l][1]
    BY EmptySeq DEF TypeOK, Current
  <2> QED
    BY <2>1, CurrentType DEF Offered
<1>2. /\ UNCHANGED <<now, nodeUp, last_buffer_clear, outbound, linkUp, last_down>>
      /\ handled' = handled \union {Key(c.pkt)} /\ Key(c.pkt) \notin handled
  BY DEF others, Claim, already_handled
<1>3. ASSUME outgoing' = [outgoing EXCEPT ![l] = Tail(@)]
      PROVE  \A k \in Links : \A o \in Offered(k)' : o \in Offered(k)
  BY <1>3, TakenOffer
<1>4. ASSUME outgoing' = [outgoing EXCEPT ![l] = <<>>]
      PROVE  \A k \in Links : \A o \in Offered(k)' : o \in Offered(k)
  <2>1. Len(<<>>) = 0 /\ outgoing'[l] = <<>> /\ \A k \in Links \ {l} : outgoing'[k] = outgoing[k]
    BY <1>4 DEF TypeOK
  <2> QED
    BY <2>1 DEF Offered
<1>5. CASE DropCleared(l, b)
  BY <1>1, <1>2, <1>3, <1>5 DEF DropCleared, LinkOutcome
<1>6. CASE Panic(l, b)
  BY <1>1, <1>2, <1>4, <1>6 DEF Panic, LinkOutcome
<1>7. ASSUME NEW extra \in ExtraDelays[l], NEW ce, SendAsserts(l, c.pkt, ce), send(l, extra, ce),
             outgoing' = [outgoing EXCEPT ![l] = Tail(@)], UNCHANGED <<fate, crashed>>,
             ~(c.since < last_buffer_clear[Source[l]])
      PROVE  LinkOutcome(l)
  <2> DEFINE r == [pkt     |-> IF ce THEN [c.pkt EXCEPT !.ecn = "ce"] ELSE c.pkt,
                   sent    |-> now,
                   arrival |-> now + delay[l] + extra,
                   cut     |-> FALSE]
  <2>1. /\ in_transit' = [in_transit EXCEPT ![l] = @ \union {r}] /\ linkUp[l]
        /\ available_capacity' = [available_capacity EXCEPT ![Source[l]] = @ + c.pkt.size]
    BY <1>7 DEF send, SendAsserts
  <2>3. \A k \in Links : \A o \in Offered(k) : o = c \/ o \in Offered(k)'
    BY <1>7, TakenOffer
  <2>2. r.pkt.id = c.pkt.id /\ r.sent = now
    BY <1>1 DEF Packet
  <2> HIDE DEF r
  <2> QED
    BY <1>1, <1>2, <1>3, <1>7, <2>1, <2>2, <2>3 DEF LinkOutcome
<1> QED
  BY <1>5, <1>6, <1>7 DEF Claim

LEMMA ParkOutcome ==
  ASSUME NEW l \in Links, UNCHANGED others, NEW pc, NEW wake, NEW ahead, NEW b,
         Park(l, pc, wake, ahead, b)
  PROVE  LinkOutcome(l)
BY DEF Park, others, LinkOutcome, Offered

LEMMA ProceedOutcome ==
  ASSUME TypeOK, NEW l \in Links, UNCHANGED others, outgoing[l] # <<>>,
         NEW ahead, NEW b, Proceed(l, ahead, b)
  PROVE  LinkOutcome(l)
<1>1. ASSUME already_handled(l), Skip(l, b) PROVE LinkOutcome(l)
  <2>1. /\ \A k \in Links : \A o \in Offered(k)' : o \in Offered(k)
        /\ \A k \in Links : \A o \in Offered(k) : o = Current(l) \/ o \in Offered(k)'
    BY <1>1, TakenOffer DEF Skip
  <2> QED
    BY <1>1, <2>1 DEF Skip, others, LinkOutcome, already_handled
<1> QED
  BY <1>1, ParkOutcome, ClaimOutcome DEF Proceed

LEMMA LinkQueueOutcome ==
  ASSUME NetworkInv, NEW l \in Links, process_link_queue(l)
  PROVE  LinkOutcome(l)
<1>1. UNCHANGED others /\ TypeOK
  BY DEF process_link_queue, TakeNext, BandwidthSlept, LinkCameUp, NodeCameUp, WaitCancelled,
         YieldOver, NetworkInv
<1>2. outgoing[l] # <<>>
  BY DEF process_link_queue, TakeNext, BandwidthSlept, LinkCameUp, NodeCameUp, WaitCancelled,
         YieldOver, NetworkInv
<1>3. ASSUME NEW ahead, NEW b, Proceed(l, ahead, b)
      PROVE  LinkOutcome(l)
  BY <1>1, <1>2, <1>3, ProceedOutcome
<1>4. ASSUME NEW pc, NEW wake, NEW ahead, NEW b, Park(l, pc, wake, ahead, b)
      PROVE  LinkOutcome(l)
  BY <1>1, <1>4, ParkOutcome
<1>5. CASE AwaitNode(l)
  BY <1>3, <1>4, <1>5 DEF AwaitNode
<1>6. ASSUME NEW b, AssertionRaces(l, b)
      PROVE  LinkOutcome(l)
  <2>1. Len(<<>>) = 0 /\ outgoing'[l] = <<>> /\ \A k \in Links \ {l} : outgoing'[k] = outgoing[k]
    BY <1>1, <1>6 DEF TypeOK, AssertionRaces
  <2>2. \A k \in Links : \A o \in Offered(k)' : o \in Offered(k)
    BY <2>1 DEF Offered
  <2> QED
    BY <1>1, <1>6, <2>2 DEF AssertionRaces, others, LinkOutcome
<1>7. CASE TakeNext(l)
  BY <1>3, <1>4, <1>6, <1>7 DEF TakeNext
<1>8. CASE BandwidthSlept(l)
  BY <1>4, <1>5, <1>8 DEF BandwidthSlept
<1>9. CASE LinkCameUp(l)
  BY <1>5, <1>9 DEF LinkCameUp
<1>10. CASE NodeCameUp(l)
  BY <1>3, <1>4, <1>10 DEF NodeCameUp
<1>11. CASE WaitCancelled(l)
  <2>1. Proceed(l, 0, batch[l])
    BY <1>11 DEF WaitCancelled, Proceed
  <2> QED
    BY <1>3, <2>1
<1>12. CASE YieldOver(l)
  BY <1>3, <1>12 DEF YieldOver
<1> QED
  BY <1>7, <1>8, <1>9, <1>10, <1>11, <1>12 DEF process_link_queue

\* A link's task claims packet c in node n, and the packet waits no longer.
LEMMA ClaimedLeaves ==
  ASSUME TypeOK, CopyInv, NEW l \in Links, NEW c \in Offered(l), c \in Buffered,
         Source[l] \in Nodes,
         Key(c.pkt) \notin handled, Key(c.pkt) \in handled', handled \subseteq handled',
         \A k \in Links : \A o \in Offered(k)' : o \in Offered(k), UNCHANGED outbound
  PROVE  /\ c \in Waiting(Source[l])
         /\ \A m \in Nodes : \A b \in Waiting(m)' : b \in Waiting(m) /\ b.pkt.id # c.pkt.id
<1>1. c \in Waiting(Source[l])
  BY WaitingNow DEF IsWaiting
<1>2. ASSUME NEW m \in Nodes, NEW b \in Waiting(m)'
      PROVE  b \in Waiting(m) /\ b.pkt.id # c.pkt.id
  <2>1. IsWaiting(m, b)'
    BY WaitingNext
  <2>2. b \in Waiting(m)
    BY <2>1, WaitingNow DEF IsWaiting
  <2>3. CASE \E k \in Links : Key(b.pkt) \notin handled'
    BY <1>1, <2>2, <2>3, PlacesApart
  <2>4. CASE b \in Entries(outbound[m])
    <3>1. PICK j \in 1 .. Len(outbound[m]) : b = outbound[m][j]
      BY <2>4 DEF Entries
    <3>2. <<"buffer", m, b.pkt>> \in Whereabouts
      <4>1. InSomePlace(<<"buffer", m, b.pkt>>)
        BY <3>1 DEF InSomePlace, InBuffer
      <4> QED
        BY <4>1, WhereaboutsNow
    <3>3. <<"offer", Source[l], c.pkt>> \in Whereabouts
      <4>1. InSomePlace(<<"offer", Source[l], c.pkt>>)
        BY DEF InSomePlace, Pending
      <4> QED
        BY <4>1, WhereaboutsNow
    <3>4. \A x, y \in Whereabouts : x[3].id = y[3].id => x = y
      BY DEF CopyInv, OnePlace
    <3>5. PICK x, y \in Whereabouts : /\ x = <<"buffer", m, b.pkt>>
                                      /\ y = <<"offer", Source[l], c.pkt>>
      BY <3>2, <3>3
    <3> QED
      BY <2>2, <3>4, <3>5
  <2> QED
    BY <2>1, <2>2, <2>3, <2>4 DEF IsWaiting
<1> QED
  BY <1>1, <1>2

\* Steps that neither send, forward nor report anything
LEMMA NothingToReport ==
  ASSUME replay'.errors = replay.errors,
         \A l \in Links : \A r \in in_transit[l] : r.cut => r \in in_transit'[l],
         \A l \in Links : \A r \in in_transit'[l] : \E q \in in_transit[l] : q.pkt.id = r.pkt.id
  PROVE  BreachReports
BY DEF BreachReports

LEMMA LinkTaskReplayed ==
  ASSUME NetworkInv, CopyInv, ReplayInv, NEW l \in Links, VLinkTask(l)
  PROVE  ReplayInv' /\ BreachReports
<1> DEFINE n == Source[l]
           c == Current(l)
<1>1. LinkOutcome(l) /\ unread' = unread
  BY LinkQueueOutcome DEF VLinkTask
<1>2. TypeOK /\ replay \in Verifier /\ ~replay.fatal /\ n \in Nodes
  BY NetworkAssumption DEF NetworkInv, ReplayInv, ReplayCompletes
<1>3. \A m \in Nodes : \A b \in Waiting(m)' : b \in Waiting(m)
  BY <1>1, WaitingNow, WaitingNext DEF LinkOutcome, IsWaiting
<1>4. ASSUME replay' = replay, in_transit' = in_transit,
             \A i \in Ids : \/ fate'[i] = fate[i]
                            \/ fate[i] = "live" /\ fate'[i] = "stranded" /\ crashed' # {}
      PROVE  ReplayInv' /\ BreachReports
  <2>1. Becomes(replay, replay', n, replay.node[n].packets, replay.in_flight)
    BY <1>2, <1>4 DEF Becomes
  <2>2. RulesKept'
    BY <1>4 DEF ReplayInv, RulesKept
  <2>3. ReplayInv'
    BY <1>1, <1>2, <1>3, <1>4, <2>1, <2>2, QuietKeeps DEF LinkOutcome
  <2> QED
    BY <1>4, <2>3, NothingToReport
<1>5. CASE UNCHANGED <<fate, in_transit>>
  <2>1. replay' = replay
    BY <1>5 DEF VLinkTask
  <2> QED
    BY <1>4, <1>5, <2>1
<1>6. CASE ~UNCHANGED <<fate, in_transit>>
  <2>1. /\ c \in Offered(l) /\ c \in Buffered
        /\ Key(c.pkt) \notin handled /\ Key(c.pkt) \in handled'
    BY <1>1, <1>6 DEF LinkOutcome
  <2>2. /\ c \in Waiting(n)
        /\ \A m \in Nodes : \A b \in Waiting(m)' : b \in Waiting(m) /\ b.pkt.id # c.pkt.id
    BY <1>1, <1>2, <2>1, ClaimedLeaves DEF LinkOutcome
  <2>3. /\ c.pkt \in Packet /\ c.pkt.id \in Ids /\ fate[c.pkt.id] = "live" /\ c.pkt.size \in Nat
        /\ c.since \in Nat
    BY <1>2, <2>1, <2>2, PlacesApart DEF Packet, Buffered
  <2>4. /\ \E q \in replay.node[n].packets : q.id = c.pkt.id
        /\ \A q \in replay.node[n].packets : q.id = c.pkt.id => q.arrived_at = c.since
    BY <1>2, <2>2 DEF ReplayInv, WaitingReplayed
  <2>5. \A m \in Nodes : \A q \in replay.node[m].packets : q.id = c.pkt.id => m = n
    BY <1>2, <2>2 DEF ReplayInv, StoresReplayed
  <2> HIDE DEF c, n
  \* The packet leaves the node's buffer, for good or for the link.
  <2>6. ASSUME NEW F, Becomes(replay, replay', n, Without(replay.node[n].packets, c.pkt.id), F),
               FlightsReplayed', RulesKept',
               \A i \in Ids : i # c.pkt.id => fate'[i] = fate[i],
               \A k \in Links : \A r \in in_transit'[k] : r \in in_transit[k] \/ r.pkt.id = c.pkt.id
        PROVE  ReplayInv'
    <3>1. /\ replay' \in Verifier /\ ~replay'.fatal
          /\ \A m \in Nodes : \A q : q \in replay'.node[m].packets <=>
               q \in replay.node[m].packets /\ q.id # c.pkt.id
      BY <1>2, <2>5, <2>6, ZenonT(60) DEF Becomes, Without
    <3>2. StatusReplayed'
      BY <1>1, <2>6, BecomesStatus DEF ReplayInv, LinkOutcome
    <3>3. \A m \in Nodes : \A q \in replay.node[m].packets : q.id \in Ids
      BY DEF ReplayInv, Verifier, StoredPacket
    <3>4. \A m \in Nodes : \A q \in replay'.node[m].packets :
            /\ q \in replay.node[m].packets
            /\ fate'[q.id] = fate[q.id]
            /\ q.id \in unread[m] => q.id \in unread'[m]
            /\ \A k \in Links : \A r \in in_transit'[k] : r.pkt.id # q.id
      BY <1>1, <2>6, <3>1, <3>3 DEF ReplayInv, StoresReplayed
    <3>5. unread' \in [Nodes -> SUBSET Ids]
      BY <1>1 DEF ReplayInv
    <3>6. \A m \in Nodes : \A i \in unread'[m] :
            i \in unread[m] /\ fate'[i] = fate[i] /\ \E q \in replay'.node[m].packets : q.id = i
      <4> SUFFICES ASSUME NEW m \in Nodes, NEW i \in unread[m]
                   PROVE  fate'[i] = fate[i] /\ \E q \in replay'.node[m].packets : q.id = i
        BY <1>1
      <4>1. i \in Ids /\ fate[i] = "delivered" /\ \E q \in replay.node[m].packets : q.id = i
        BY DEF ReplayInv, UnreadReplayed
      <4>2. i # c.pkt.id
        BY <2>3, <4>1
      <4> QED
        BY <2>6, <3>1, <4>1, <4>2
    <3>7. \A m \in Nodes : \A b \in Waiting(m)' :
            b \in Waiting(m) /\ \E q \in replay'.node[m].packets : q.id = b.pkt.id
      BY <2>2, <3>1 DEF ReplayInv, WaitingReplayed
    <3>8. crashed \subseteq crashed'
      BY <1>1 DEF LinkOutcome
    <3> QED
      BY <2>6, <3>1, <3>2, <3>4, <3>5, <3>6, <3>7, <3>8, ReplayKeeps
  <2>7. CASE in_transit' = in_transit /\ fate' = [fate EXCEPT ![c.pkt.id] = "buffer_cleared"]
    <3>1. fate'[c.pkt.id] = "buffer_cleared" /\ fate' # fate
      BY <1>2, <2>3, <2>7 DEF TypeOK
    <3>2. replay' = V!PacketDropped(replay, n, c.pkt.id, "buffer_cleared")
      BY <2>7, <3>1 DEF VLinkTask, Dropped, DropReasons, n, c
    <3>3. /\ Becomes(replay, replay', n, Without(replay.node[n].packets, c.pkt.id), replay.in_flight)
          /\ replay'.errors = replay.errors
      BY <1>2, <2>4, <3>2, DroppedEffect DEF DropReasons
    <3>4. replay'.in_flight = replay.in_flight
      BY <3>3 DEF Becomes
    <3>5. FlightsReplayed' /\ RulesKept'
      BY <2>7, <3>3, <3>4 DEF ReplayInv, FlightsReplayed, RulesKept
    <3>6. \A i \in Ids : i # c.pkt.id => fate'[i] = fate[i]
      BY <1>2, <2>7 DEF TypeOK
    <3>7. ReplayInv'
      BY <2>6, <2>7, <3>3, <3>5, <3>6
    <3> QED
      BY <2>7, <3>3, <3>7, NothingToReport
  <2>8. CASE /\ in_transit' = in_transit /\ fate' = [fate EXCEPT ![c.pkt.id] = "stranded"]
             /\ crashed' # {}
    <3>1. fate'[c.pkt.id] = "stranded"
      BY <1>2, <2>3, <2>8 DEF TypeOK
    <3>2. replay' = replay
      BY <2>8, <3>1 DEF VLinkTask, Dropped, DropReasons, n, c
    <3>3. \A i \in Ids : \/ fate'[i] = fate[i]
                         \/ fate[i] = "live" /\ fate'[i] = "stranded" /\ crashed' # {}
      BY <1>2, <2>3, <2>8 DEF TypeOK
    <3> QED
      BY <1>4, <2>8, <3>2, <3>3
  <2>9. ASSUME fate' = fate, linkUp[l], ~(c.since < last_buffer_clear[n]),
               NEW r, r.pkt.id = c.pkt.id, r.sent = now,
               in_transit' = [in_transit EXCEPT ![l] = @ \union {r}]
        PROVE  ReplayInv' /\ BreachReports
    <3>1. r \notin in_transit[l]
      BY <1>2, <2>2, <2>9, PlacesApart
    <3>2. in_transit'[l] = in_transit[l] \union {r} /\ \A k \in Links \ {l} : in_transit'[k] = in_transit[k]
      BY <1>2, <2>9 DEF TypeOK
    <3>3. replay' = V!PacketInTransit(replay, n, l, c.pkt, now)
      BY <3>1, <3>2 DEF VLinkTask, n, c
    <3>4. /\ replay.link[l].up /\ n = Source[l] /\ replay.node[n].up = nodeUp[n] /\ now \in Nat
          /\ \A q \in replay.node[n].packets : q.id = c.pkt.id => ~V!survived(replay, n, q)
      BY <1>2, <2>4, <2>9 DEF n, ReplayInv, StatusReplayed, V!survived, TypeOK
    <3> DEFINE f == [id |-> c.pkt.id, size |-> c.pkt.size, sent_at |-> now, link |-> l]
               F == Without(replay.in_flight, c.pkt.id) \union {f}
    <3>5. /\ Becomes(replay, replay', n, Without(replay.node[n].packets, c.pkt.id), F)
          /\ ~nodeUp[n] => "NodeDownPacketSend" \in replay'.errors
          /\ \A e \in replay'.errors : e \in replay.errors \/ e = "NodeDownPacketSend"
      BY <1>2, <2>3, <2>4, <3>3, <3>4, InTransitEffect
    <3>6. replay'.in_flight = F
      BY <3>5 DEF Becomes
    <3>7. RulesKept'
      BY <3>5 DEF ReplayInv, RulesKept
    <3>8. \A k \in Links : \A s \in in_transit[k] : s.pkt.id # c.pkt.id
      BY <1>2, <2>2, PlacesApart
    <3>9. FlightsReplayed'
      <4>1. ASSUME NEW g \in F
            PROVE  \E s \in in_transit'[g.link] : s.pkt.id = g.id /\ s.sent = g.sent_at
        <5>1. CASE g = f
          BY <2>9, <3>2, <5>1
        <5>2. CASE g \in replay.in_flight
          <6>1. g.link \in Links
            BY <1>2, <5>2 DEF Verifier
          <6> QED
            BY <3>2, <5>2, <6>1 DEF ReplayInv, FlightsReplayed
        <5> QED
          BY <5>1, <5>2 DEF Without
      <4>2. ASSUME NEW k \in Links, NEW s \in in_transit'[k]
            PROVE  \E g \in F : g.id = s.pkt.id /\ g.link = k /\ g.sent_at = s.sent
        <5>1. CASE k = l /\ s = r
          <6>1. f \in F /\ f.id = s.pkt.id /\ f.link = k /\ f.sent_at = s.sent
            BY <2>9, <5>1
          <6> QED
            BY <6>1
        <5>2. CASE s \in in_transit[k]
          <6>1. PICK g \in replay.in_flight : g.id = s.pkt.id /\ g.link = k /\ g.sent_at = s.sent
            BY <5>2 DEF ReplayInv, FlightsReplayed
          <6> QED
            BY <3>8, <5>2, <6>1 DEF Without
        <5> QED
          BY <3>2, <5>1, <5>2
      <4> QED
        BY <3>6, <4>1, <4>2 DEF FlightsReplayed
    <3>10. ReplayInv'
      BY <2>6, <2>9, <3>2, <3>5, <3>7, <3>9
    <3>11. BreachReports
      BY <3>2, <3>5 DEF BreachReports, n
    <3> QED
      BY <3>10, <3>11
  <2> QED
    BY <1>1, <1>6, <2>7, <2>8, <2>9 DEF LinkOutcome, n, c
<1> QED
  BY <1>5, <1>6

\* The packets of a crashed task apart, what a node's task takes from the buffer
\* it offers to links: everything waits as it did.
LEMMA BufferTaskWaits ==
  ASSUME TypeOK, NEW n \in Nodes, process_buffer(n)
  PROVE  \A m \in Nodes : \A b \in Waiting(m)' : b \in Waiting(m)
<1> DEFINE h     == Head(outbound[n])
           route == Routes[n][h.pkt.to]
           offer == Reachable(route)
<1>1. /\ outbound[n] \in Seq(Buffered) /\ outbound[n] # <<>>
      /\ h \in Entries(outbound[n]) /\ h \in Buffered
      /\ Entries(outbound[n]) = {h} \union Entries(Tail(outbound[n]))
  <2>1. outbound[n] \in Seq(Buffered) /\ outbound[n] # <<>>
    BY DEF TypeOK, process_buffer
  <2>2. Len(outbound[n]) \in Nat \ {0} /\ h = outbound[n][1]
    BY <2>1, EmptySeq
  <2>3. Entries(outbound[n]) = {h} \union Entries(Tail(outbound[n]))
    BY <2>1, ElementsOfTail
  <2>4. h \in Buffered
    BY <2>1, <2>2, ElementOfSeq
  <2> QED
    BY <2>1, <2>3, <2>4
<1>2. h.pkt.to \in Nodes /\ route \in Seq(Links) /\ offer \in Seq(Links)
  <2>1. h.pkt.to \in Nodes
    BY <1>1 DEF Buffered, Packet
  <2>2. route \in Seq(Links)
    BY <2>1, NetworkAssumption
  <2> HIDE DEF route, h
  <2> QED
    BY <2>1, <2>2, ReachableType
<1>3. \A m \in Nodes : \A b \in Entries(outbound'[m]) : b \in Entries(outbound[m])
  <2>1. \A m \in Nodes \ {n} : outbound'[m] = outbound[m]
    BY DEF process_buffer, TypeOK
  <2>2. outbound'[n] = Tail(outbound[n]) \/ outbound'[n] = <<>>
    BY DEF process_buffer, TypeOK
  <2>3. Entries(<<>>) = {}
    BY DEF Entries
  <2> QED
    BY <1>1, <2>1, <2>2, <2>3
<1>4. ASSUME NEW l \in Links, NEW o \in Offered(l)'
      PROVE  o \in Offered(l) \/ (o = h /\ Source[l] = n)
  <2> DEFINE times == Times(offer, l)
  <2>1. times \in Nat
    BY <1>2, TimesType
  <2>2. outgoing'[l] = outgoing[l] \o [i \in 1 .. times |-> h]
    BY DEF process_buffer
  <2>3. times # 0 => Source[l] = n
    BY <1>2, OfferedByOwner
  <2> HIDE DEF times, h
  <2>4. o \in Offered(l) \/ (times # 0 /\ o = h)
    BY <1>1, <2>1, <2>2, GrownOffers
  <2> QED
    BY <2>3, <2>4
<1>5. handled' = handled
  BY DEF process_buffer
<1> HIDE DEF h
<1> QED
  BY <1>1, <1>3, <1>4, <1>5, WaitingNow, WaitingNext DEF IsWaiting

LEMMA BufferTaskReplayed ==
  ASSUME NetworkInv, CopyInv, ReplayInv, NEW n \in Nodes, process_buffer(n), UNCHANGED <<unread, replay>>
  PROVE  ReplayInv' /\ BreachReports
<1>1. /\ UNCHANGED <<nodeUp, last_buffer_clear, linkUp, last_down, in_transit>>
      /\ crashed \subseteq crashed' /\ TypeOK
  BY DEF process_buffer, NetworkInv
<1>2. Becomes(replay, replay', n, replay.node[n].packets, replay.in_flight)
  BY DEF Becomes, ReplayInv
<1>3. RulesKept'
  BY DEF ReplayInv, RulesKept
<1>4. \A i \in Ids : \/ fate'[i] = fate[i]
                     \/ fate[i] = "live" /\ fate'[i] = "stranded" /\ crashed' # {}
  <2> DEFINE h == Head(outbound[n])
  <2>1. h.pkt.id \in Ids /\ fate[h.pkt.id] = "live"
    <3>1. outbound[n] \in Seq(Buffered) /\ outbound[n] # <<>>
      BY <1>1 DEF TypeOK, process_buffer
    <3>2. Len(outbound[n]) \in Nat \ {0} /\ h = outbound[n][1]
      BY <3>1, EmptySeq
    <3>3. h \in Waiting(n)
      BY <3>2, WaitingNow DEF IsWaiting, Entries
    <3> QED
      BY <1>1, <3>3, PlacesApart
  <2>2. \/ fate' = fate
        \/ fate' = [fate EXCEPT ![h.pkt.id] = "stranded"] /\ crashed' # {}
    BY DEF process_buffer
  <2> HIDE DEF h
  <2> QED
    BY <1>1, <2>1, <2>2 DEF TypeOK
<1>5. ReplayInv'
  BY <1>1, <1>2, <1>3, <1>4, BufferTaskWaits, QuietKeeps
<1> QED
  BY <1>1, <1>5, NothingToReport

LEMMA SleepReplayed ==
  ASSUME NetworkInv, ReplayInv, NEW l \in Links, forwarder_sleeps(l), UNCHANGED <<unread, replay>>
  PROVE  ReplayInv' /\ BreachReports
<1>1. /\ UNCHANGED <<nodeUp, last_buffer_clear, linkUp, last_down, in_transit, fate, crashed,
                     outbound, outgoing, handled>>
      /\ TypeOK /\ Source[l] \in Nodes
  BY NetworkAssumption DEF forwarder_sleeps, nodeVars, NetworkInv
<1>2. Becomes(replay, replay', Source[l], replay.node[Source[l]].packets, replay.in_flight)
  BY <1>1 DEF Becomes, ReplayInv
<1>3. \A m \in Nodes : \A b \in Waiting(m)' : b \in Waiting(m)
  BY <1>1 DEF Waiting, Offered
<1>4. RulesKept'
  BY DEF ReplayInv, RulesKept
<1>5. ReplayInv'
  BY <1>1, <1>2, <1>3, <1>4, QuietKeeps
<1> QED
  BY <1>1, <1>5, NothingToReport

LEMMA TickReplayed ==
  ASSUME NetworkInv, ReplayInv, VTick
  PROVE  ReplayInv' /\ BreachReports
<1>1. /\ UNCHANGED <<nodeUp, last_buffer_clear, linkUp, last_down, in_transit, fate, crashed,
                     outbound, outgoing, handled, unread>>
      /\ TypeOK /\ replay \in Verifier /\ ~replay.fatal
  BY DEF VTick, Tick, nodeVars, linkVars, NetworkInv, ReplayInv, ReplayCompletes
<1> DEFINE over == \E n \in Nodes : V!buffer_usage(replay, n) > Capacity[n]
<1>2. replay' = V!Track(replay, over, "NodeExceedsBufferSize")
  BY <1>1 DEF VTick, V!update_max_buffer_usage, V!TryFatal
<1> HIDE DEF over
<1>3. ASSUME NEW n \in Nodes
      PROVE  /\ Becomes(replay, replay', n, replay.node[n].packets, replay.in_flight)
             /\ \A e \in replay'.errors : e \in replay.errors \/ e = "NodeExceedsBufferSize"
  BY <1>1, <1>2, TrackEffect DEF ErrorKinds
<1>4. \A m \in Nodes : \A b \in Waiting(m)' : b \in Waiting(m)
  BY <1>1 DEF Waiting, Offered
<1>5. \A e \in replay'.errors : e \in replay.errors \/ e = "NodeExceedsBufferSize"
  BY <1>1, <1>2 DEF V!Track, Verifier
<1>6. RulesKept'
  BY <1>5 DEF ReplayInv, RulesKept
<1>7. ReplayInv'
  <2>1. CASE Nodes = {}
    <3>1. replay' \in Verifier /\ ~replay'.fatal /\ replay'.in_flight = replay.in_flight
          /\ replay'.link = replay.link
      BY <1>1, <1>2 DEF V!Track, Verifier, ErrorKinds
    <3> QED
      BY <1>1, <1>6, <2>1, <3>1 DEF ReplayInv, ReplayCompletes, StatusReplayed, FlightsReplayed,
         WaitingReplayed, StoresReplayed, UnreadReplayed
  <2>2. CASE Nodes # {}
    BY <1>1, <1>3, <1>4, <1>6, <2>2, QuietKeeps
  <2> QED
    BY <2>1, <2>2
<1>8. BreachReports
  BY <1>1, <1>5 DEF BreachReports
<1> QED
  BY <1>7, <1>8

----------------------------------------------------------------------------
(* Network events and reads *)

LEMMA LinkEventReplayed ==
  ASSUME NetworkInv, CopyInv, ReplayInv, NEW e \in LinkEvents, VLinkEvent(e)
  PROVE  ReplayInv' /\ BreachReports
<1> DEFINE k == e.link
<1>1. /\ TypeOK /\ replay \in Verifier /\ ~replay.fatal /\ now \in Nat
      /\ k \in Links /\ e.status \in Statuses
  BY NetworkAssumption DEF NetworkInv, ReplayInv, ReplayCompletes, TypeOK
<1>2. /\ UNCHANGED <<fate, crashed, nodeUp, last_buffer_clear, outbound, outgoing, handled, unread>>
      /\ update_link_status(k, e.status)
      /\ replay' = V!LinkEvent(replay, k, e.status, now)
  BY DEF VLinkEvent, process_link_event, nodeVars
<1>3. /\ replay' \in Verifier
      /\ ~replay'.fatal /\ replay'.node = replay.node /\ replay'.in_flight = replay.in_flight
      /\ replay'.errors = replay.errors
      /\ \A l \in Links \ {k} : replay'.link[l] = replay.link[l]
      /\ e.status = "unchanged" => replay'.link[k].up = replay.link[k].up
      /\ e.status # "unchanged" => replay'.link[k].up = (e.status = "up")
      /\ replay'.link[k].last_down = IF e.status = "down" THEN now ELSE replay.link[k].last_down
  BY <1>1, <1>2, LinkEventEffect
<1>4. /\ \A l \in Links \ {k} : linkUp'[l] = linkUp[l] /\ last_down'[l] = last_down[l]
      /\ linkUp'[k] = IF e.status = "unchanged" THEN linkUp[k] ELSE e.status = "up"
      /\ last_down'[k] = last_down[k] \/ (last_down'[k] = now /\ e.status = "down")
  BY <1>1, <1>2 DEF update_link_status, TypeOK, Statuses
<1>5. \A l \in Links : /\ last_down[l] <= now /\ last_down[l] \in Int
                       /\ replay.link[l].last_down \in Int
  BY <1>1 DEF NetworkInv, TypeOK, Verifier, NoTime
<1> HIDE DEF k
<1>6. StatusReplayed'
  <2>1. \A l \in Links : /\ replay.link[l].up = linkUp[l]
                         /\ replay.link[l].last_down >= last_down[l]
    BY DEF ReplayInv, StatusReplayed
  <2>2. \A l \in Links : replay'.link[l].up = linkUp'[l]
    BY <1>1, <1>3, <1>4, <2>1
  <2>3. \A l \in Links : replay'.link[l].last_down >= last_down'[l]
    BY <1>1, <1>3, <1>4, <1>5, <2>1
  <2> QED
    BY <1>2, <1>3, <2>2, <2>3 DEF ReplayInv, StatusReplayed
<1>7. \A l \in Links : \/ in_transit'[l] = in_transit[l]
                       \/ in_transit'[l] = {[r EXCEPT !.cut = TRUE] : r \in in_transit[l]}
  BY <1>1, <1>2 DEF update_link_status, TypeOK
<1>8. \A l \in Links : \A r \in in_transit[l] :
        /\ [r EXCEPT !.cut = TRUE].pkt = r.pkt /\ [r EXCEPT !.cut = TRUE].sent = r.sent
        /\ r.cut => [r EXCEPT !.cut = TRUE] = r
  BY <1>1 DEF TypeOK, Transit
<1>9. \A l \in Links :
        /\ \A s \in in_transit'[l] : \E r \in in_transit[l] : r.pkt = s.pkt /\ r.sent = s.sent
        /\ \A r \in in_transit[l] : \E s \in in_transit'[l] : r.pkt = s.pkt /\ r.sent = s.sent
        /\ \A r \in in_transit[l] : r.cut => r \in in_transit'[l]
  <2> TAKE l \in Links
  <2>1. CASE in_transit'[l] = in_transit[l]
    BY <2>1
  <2>2. CASE in_transit'[l] = {[r EXCEPT !.cut = TRUE] : r \in in_transit[l]}
    <3>1. \A r \in in_transit[l] : [r EXCEPT !.cut = TRUE] \in in_transit'[l]
      BY <2>2
    <3>2. \A s \in in_transit'[l] : \E r \in in_transit[l] : s = [r EXCEPT !.cut = TRUE]
      BY <2>2
    <3>3. ASSUME NEW s \in in_transit'[l]
          PROVE  \E r \in in_transit[l] : r.pkt = s.pkt /\ r.sent = s.sent
      <4>1. PICK r \in in_transit[l] : s = [r EXCEPT !.cut = TRUE]
        BY <3>2
      <4>2. r.pkt = s.pkt /\ r.sent = s.sent
        BY <1>8, <4>1
      <4> QED
        BY <4>2
    <3>4. ASSUME NEW r \in in_transit[l]
          PROVE  /\ \E s \in in_transit'[l] : r.pkt = s.pkt /\ r.sent = s.sent
                 /\ r.cut => r \in in_transit'[l]
      <4>1. PICK s : s = [r EXCEPT !.cut = TRUE]
        OBVIOUS
      <4>2. s \in in_transit'[l]
        BY <3>1, <4>1
      <4>3. r.pkt = s.pkt /\ r.sent = s.sent /\ (r.cut => s = r)
        BY <1>8, <4>1
      <4> QED
        BY <4>2, <4>3
    <3> QED
      BY <3>3, <3>4
  <2> QED
    BY <1>7, <2>1, <2>2
<1>10. FlightsReplayed'
  <2>1. \A f \in replay.in_flight : f.link \in Links
    BY <1>1 DEF Verifier
  <2>2. \A f \in replay.in_flight : \E r \in in_transit'[f.link] :
          r.pkt.id = f.id /\ r.sent = f.sent_at
    <3> SUFFICES ASSUME NEW f \in replay.in_flight
                 PROVE  \E r \in in_transit'[f.link] : r.pkt.id = f.id /\ r.sent = f.sent_at
      OBVIOUS
    <3>1. PICK r \in in_transit[f.link] : r.pkt.id = f.id /\ r.sent = f.sent_at
      BY DEF ReplayInv, FlightsReplayed
    <3> QED
      BY <1>9, <2>1, <3>1
  <2>3. \A l \in Links : \A r \in in_transit'[l] : \E f \in replay.in_flight :
          f.id = r.pkt.id /\ f.link = l /\ f.sent_at = r.sent
    <3> SUFFICES ASSUME NEW l \in Links, NEW r \in in_transit'[l]
                 PROVE  \E f \in replay.in_flight :
                          f.id = r.pkt.id /\ f.link = l /\ f.sent_at = r.sent
      OBVIOUS
    <3>1. PICK s \in in_transit[l] : s.pkt = r.pkt /\ s.sent = r.sent
      BY <1>9
    <3> QED
      BY <3>1 DEF ReplayInv, FlightsReplayed
  <2> QED
    BY <1>3, <2>2, <2>3 DEF FlightsReplayed
<1>11. RulesKept'
  BY <1>3 DEF ReplayInv, RulesKept
<1>12. \A n \in Nodes : \A b \in Waiting(n)' : b \in Waiting(n)
  BY <1>2 DEF Waiting, Offered
<1>13. \A n \in Nodes : \A q \in replay'.node[n].packets :
         /\ q \in replay.node[n].packets
         /\ \A l \in Links : \A r \in in_transit'[l] : r.pkt.id # q.id
  BY <1>3, <1>9 DEF ReplayInv, StoresReplayed
<1>14. \A n \in Nodes : \A b \in Waiting(n)' :
         b \in Waiting(n) /\ \E q \in replay'.node[n].packets : q.id = b.pkt.id
  BY <1>3, <1>12 DEF ReplayInv, WaitingReplayed
<1>15. unread' \in [Nodes -> SUBSET Ids] /\ \A n \in Nodes : \A i \in unread'[n] :
         i \in unread[n] /\ fate'[i] = fate[i] /\ \E q \in replay'.node[n].packets : q.id = i
  BY <1>2, <1>3 DEF ReplayInv, UnreadReplayed
<1>16. ReplayInv'
  BY <1>2, <1>3, <1>6, <1>10, <1>11, <1>13, <1>14, <1>15, ReplayKeeps
<1>17. BreachReports
  BY <1>3, <1>9, NothingToReport
<1> QED
  BY <1>16, <1>17

LEMMA NodeEventReplayed ==
  ASSUME NetworkInv, ReplayInv, NEW e \in NodeEvents, VNodeEvent(e)
  PROVE  ReplayInv' /\ BreachReports
<1> DEFINE k == e.node
<1>1. /\ TypeOK /\ replay \in Verifier /\ ~replay.fatal /\ now \in Nat
      /\ k \in Nodes /\ e.status \in Statuses /\ e.clear_buffer \in BOOLEAN
  BY NetworkAssumption DEF NetworkInv, ReplayInv, ReplayCompletes, TypeOK
<1>2. /\ UNCHANGED <<fate, crashed, linkUp, last_down, outbound, outgoing, in_transit, handled, unread>>
      /\ update_node_status(k, e.status)
      /\ last_buffer_clear' = IF e.clear_buffer THEN [last_buffer_clear EXCEPT ![k] = now]
                              ELSE last_buffer_clear
      /\ replay' = V!NodeEvent(replay, k, e.status, e.clear_buffer, now)
  BY DEF VNodeEvent, process_node_event
<1>3. /\ replay' \in Verifier
      /\ ~replay'.fatal /\ replay'.link = replay.link /\ replay'.in_flight = replay.in_flight
      /\ replay'.errors = replay.errors
      /\ \A m \in Nodes : replay'.node[m].packets = replay.node[m].packets
      /\ \A m \in Nodes \ {k} : replay'.node[m] = replay.node[m]
      /\ e.status = "unchanged" => replay'.node[k].up = replay.node[k].up
      /\ e.status # "unchanged" => replay'.node[k].up = (e.status = "up")
      /\ replay'.node[k].last_buffer_clear =
           IF e.clear_buffer THEN now ELSE replay.node[k].last_buffer_clear
  BY <1>1, <1>2, NodeEventEffect
<1>4. /\ \A m \in Nodes \ {k} : nodeUp'[m] = nodeUp[m] /\ last_buffer_clear'[m] = last_buffer_clear[m]
      /\ nodeUp'[k] = IF e.status = "unchanged" THEN nodeUp[k] ELSE e.status = "up"
      /\ last_buffer_clear'[k] = IF e.clear_buffer THEN now ELSE last_buffer_clear[k]
  BY <1>1, <1>2 DEF update_node_status, TypeOK, Statuses
<1> HIDE DEF k
<1>5. StatusReplayed'
  <2>1. \A m \in Nodes : /\ replay.node[m].up = nodeUp[m]
                         /\ replay.node[m].last_buffer_clear = last_buffer_clear[m]
    BY DEF ReplayInv, StatusReplayed
  <2>2. \A m \in Nodes : replay'.node[m].up = nodeUp'[m]
    BY <1>1, <1>3, <1>4, <2>1
  <2>3. \A m \in Nodes : replay'.node[m].last_buffer_clear = last_buffer_clear'[m]
    BY <1>1, <1>3, <1>4, <2>1
  <2> QED
    BY <1>2, <1>3, <2>2, <2>3 DEF ReplayInv, StatusReplayed
<1>6. FlightsReplayed' /\ RulesKept'
  BY <1>2, <1>3 DEF ReplayInv, FlightsReplayed, RulesKept
<1>7. \A n \in Nodes : \A b \in Waiting(n)' : b \in Waiting(n)
  BY <1>2 DEF Waiting, Offered
<1>8. \A n \in Nodes : \A q \in replay'.node[n].packets :
        /\ q \in replay.node[n].packets
        /\ \A l \in Links : \A r \in in_transit'[l] : r.pkt.id # q.id
  BY <1>2, <1>3 DEF ReplayInv, StoresReplayed
<1>9. \A n \in Nodes : \A b \in Waiting(n)' :
        b \in Waiting(n) /\ \E q \in replay'.node[n].packets : q.id = b.pkt.id
  BY <1>3, <1>7 DEF ReplayInv, WaitingReplayed
<1>10. unread' \in [Nodes -> SUBSET Ids] /\ \A n \in Nodes : \A i \in unread'[n] :
         i \in unread[n] /\ fate'[i] = fate[i] /\ \E q \in replay'.node[n].packets : q.id = i
  BY <1>2, <1>3 DEF ReplayInv, UnreadReplayed
<1>11. ReplayInv'
  BY <1>2, <1>3, <1>5, <1>6, <1>8, <1>9, <1>10, ReplayKeeps
<1>12. BreachReports
  BY <1>2, <1>3, NothingToReport
<1> QED
  BY <1>11, <1>12

\* An application reads a packet: it is still in the buffer of its node.
LEMMA ReadReplayed ==
  ASSUME NetworkInv, CopyInv, ReplayInv, NEW n \in Nodes, poll_recv(n)
  PROVE  ReplayInv' /\ BreachReports
<1>1. PICK i \in unread[n] :
        /\ unread' = [unread EXCEPT ![n] = @ \ {i}]
        /\ replay' = V!PacketDeliveredToApplication(replay, n, i)
  BY DEF poll_recv
<1>2. /\ UNCHANGED <<nodeUp, last_buffer_clear, linkUp, last_down, in_transit, fate, crashed,
                     outbound, outgoing, handled>>
      /\ TypeOK /\ replay \in Verifier /\ ~replay.fatal /\ unread \in [Nodes -> SUBSET Ids]
  BY DEF poll_recv, vars, nodeVars, linkVars, NetworkInv, ReplayInv, ReplayCompletes
<1>3. fate[i] = "delivered" /\ \E q \in replay.node[n].packets : q.id = i
  BY DEF ReplayInv, UnreadReplayed
<1>4. /\ Becomes(replay, replay', n, Without(replay.node[n].packets, i), replay.in_flight)
      /\ replay'.errors = replay.errors
  <2>1. replay' = V!remove_packet_from_buffer(replay, n, i)
    BY <1>1, <1>2 DEF V!PacketDeliveredToApplication, V!TryFatal
  <2> QED
    BY <1>2, <1>3, <2>1, RemoveEffect DEF Without
<1>5. /\ replay' \in Verifier /\ ~replay'.fatal /\ replay'.in_flight = replay.in_flight
      /\ \A m \in Nodes : \A q : q \in replay'.node[m].packets <=>
           q \in replay.node[m].packets /\ (m = n => q.id # i)
  BY <1>2, <1>4 DEF Becomes, Without
<1>6. StatusReplayed'
  BY <1>2, <1>4, BecomesStatus DEF ReplayInv
<1>7. FlightsReplayed' /\ RulesKept'
  BY <1>2, <1>4, <1>5 DEF ReplayInv, FlightsReplayed, RulesKept
<1>8. /\ unread' \in [Nodes -> SUBSET Ids]
      /\ \A m \in Nodes : \A j : j \in unread'[m] <=> j \in unread[m] /\ (m = n => j # i)
  BY <1>1, <1>2
<1>9. \A m \in Nodes : \A q \in replay'.node[m].packets :
        /\ q \in replay.node[m].packets
        /\ q.id \in unread[m] => q.id \in unread'[m]
        /\ \A l \in Links : \A r \in in_transit'[l] : r.pkt.id # q.id
  BY <1>2, <1>5, <1>8 DEF ReplayInv, StoresReplayed
<1>10. \A m \in Nodes : \A j \in unread'[m] :
         j \in unread[m] /\ fate'[j] = fate[j] /\ \E q \in replay'.node[m].packets : q.id = j
  BY <1>2, <1>5, <1>8 DEF ReplayInv, UnreadReplayed
<1>11. \A m \in Nodes : \A b \in Waiting(m)' :
         b \in Waiting(m) /\ \E q \in replay'.node[m].packets : q.id = b.pkt.id
  <2>1. \A m \in Nodes : Waiting(m)' = Waiting(m)
    BY <1>2 DEF Waiting, Offered
  <2>2. \A m \in Nodes : \A b \in Waiting(m) : b.pkt.id # i
    BY <1>2, <1>3, PlacesApart
  <2> QED
    BY <1>5, <2>1, <2>2 DEF ReplayInv, WaitingReplayed
<1>12. ReplayInv'
  BY <1>2, <1>5, <1>6, <1>7, <1>8, <1>9, <1>10, <1>11, ReplayKeeps
<1>13. BreachReports
  BY <1>2, <1>4, NothingToReport
<1> QED
  BY <1>12, <1>13

----------------------------------------------------------------------------
(* forward() *)

\* How forward() leaves packet p, which is in node n, and a duplicate with the
\* id fresh, if there is one
Settled(n, p, fresh) ==
  /\ crashed \subseteq crashed'
  /\ \A i \in Ids : i # p.id /\ i # fresh => fate'[i] = fate[i]
  /\ fate'[p.id] \in {"live", "delivered", "node_down", "stranded", "zero_ttl", "random", "buffer_full"}
  /\ fate'[p.id] = "node_down" <=> ~nodeUp[n]
  /\ fate'[p.id] = "stranded" => crashed' # {}
  /\ fresh \in Ids => /\ fate'[fresh] \in {"unborn", "live", "buffer_full"}
                      /\ ~nodeUp[n] => fate'[fresh] = "unborn"
  /\ \A m \in Nodes \ {n} : outbound'[m] = outbound[m]
  /\ \A b \in Entries(outbound'[n]) :
       \/ b \in Entries(outbound[n])
       \/ /\ b.since = now /\ fate'[b.pkt.id] = "live"
          /\ b.pkt.id = p.id \/ (b.pkt.id = fresh /\ fresh \in Ids)

LEMMA EndSettled ==
  ASSUME TypeOK, NEW n \in Nodes, NEW p \in Packet, NEW fresh \in Nat, p.id # fresh,
         fresh \in Ids => fate[fresh] = "unborn",
         NEW why \in {"delivered", "node_down", "zero_ttl", "random"},
         why = "node_down" <=> ~nodeUp[n], NEW next, End(p, why, next)
  PROVE  Settled(n, p, fresh)
<1>1. p.id \in Ids /\ fate' = [fate EXCEPT ![p.id] = why] /\ UNCHANGED <<outbound, crashed>>
  BY DEF Packet, End
<1>2. fate'[p.id] = why /\ \A i \in Ids \ {p.id} : fate'[i] = fate[i]
  BY <1>1 DEF TypeOK
<1> QED
  BY <1>1, <1>2 DEF Settled

LEMMA EnqueueSettled ==
  ASSUME TypeOK, NEW n \in Nodes, NEW p \in Packet, NEW fresh \in Nat, p.id # fresh, nodeUp[n],
         fresh \in Ids => fate[fresh] = "unborn",
         NEW copies \in Seq(Packet), Len(copies) \in {1, 2}, copies[1].id = p.id,
         Len(copies) = 2 => fresh \in Ids /\ copies[2].id = fresh,
         NEW caller, enqueue_outbound(n, copies, caller)
  PROVE  Settled(n, p, fresh)
<1> DEFINE fit  == Fits(n, copies[1].size, Len(copies))
           kept == {copies[i].id : i \in 1 .. fit}
           all  == {copies[i].id : i \in 1 .. Len(copies)}
           more == [i \in 1 .. fit |-> [pkt |-> copies[i], since |-> now]]
<1>1. p.id \in Ids /\ fit \in 0 .. Len(copies)
  BY DEF Packet, Fits
<1>2. \/ /\ outbound' = [outbound EXCEPT ![n] = @ \o more]
         /\ fate' = [i \in Ids |-> IF i \in kept THEN "live"
                                   ELSE IF i \in all THEN "buffer_full" ELSE fate[i]]
         /\ crashed' = crashed
      \/ /\ fate' = [fate EXCEPT ![p.id] = "stranded"]
         /\ crashed' = crashed \union {caller}
         /\ outbound' = outbound
  BY DEF enqueue_outbound
<1>3. /\ p.id \in all
      /\ \A i \in all : i = p.id \/ (i = fresh /\ fresh \in Ids)
      /\ \A i \in kept : i \in all
  BY <1>1
<1>4. /\ \A i \in 1 .. fit : copies[i] \in Packet /\ copies[i].id \in kept /\ copies[i].id \in Ids
  <2>1. \A i \in 1 .. fit : copies[i] \in Packet
    BY <1>1, ElementOfSeq
  <2> QED
    BY <2>1 DEF Packet
<1> HIDE DEF fit, all, kept
<1>5. CASE /\ outbound' = [outbound EXCEPT ![n] = @ \o more]
           /\ fate' = [i \in Ids |-> IF i \in kept THEN "live"
                                     ELSE IF i \in all THEN "buffer_full" ELSE fate[i]]
           /\ crashed' = crashed
  <2>1. more \in Seq(Buffered) /\ outbound[n] \in Seq(Buffered)
    <3>1. fit \in Nat /\ now \in Nat /\ outbound[n] \in Seq(Buffered)
      BY <1>1 DEF TypeOK
    <3>2. \A i \in 1 .. fit : [pkt |-> copies[i], since |-> now] \in Buffered
      BY <1>4, <3>1 DEF Buffered
    <3> QED
      BY <3>1, <3>2
  <2>2. Entries(more) = {more[i] : i \in 1 .. fit}
    BY <1>1 DEF Entries
  <2>3. \A b \in Entries(more) : b.since = now /\ b.pkt.id \in kept /\ b.pkt.id \in Ids
    BY <1>4, <2>2
  <2> HIDE DEF more
  <2>4. Entries(outbound[n] \o more) = Entries(outbound[n]) \union Entries(more)
    BY <2>1, ElementsOfConcat
  <2>5. outbound'[n] = outbound[n] \o more /\ \A m \in Nodes \ {n} : outbound'[m] = outbound[m]
    BY <1>5 DEF TypeOK
  <2>6. \A i \in Ids : fate'[i] = IF i \in kept THEN "live"
                                  ELSE IF i \in all THEN "buffer_full" ELSE fate[i]
    BY <1>5
  <2>7. \A b \in Entries(outbound'[n]) :
          \/ b \in Entries(outbound[n])
          \/ /\ b.since = now /\ fate'[b.pkt.id] = "live"
             /\ b.pkt.id = p.id \/ (b.pkt.id = fresh /\ fresh \in Ids)
    BY <1>3, <2>3, <2>4, <2>5, <2>6
  <2>8. /\ fate'[p.id] \in {"live", "buffer_full"}
        /\ fresh \in Ids => fate'[fresh] \in {"unborn", "live", "buffer_full"}
        /\ \A i \in Ids : i # p.id /\ i # fresh => fate'[i] = fate[i]
    BY <1>1, <1>3, <2>6
  <2> QED
    BY <1>5, <2>5, <2>7, <2>8 DEF Settled
<1>6. CASE /\ fate' = [fate EXCEPT ![p.id] = "stranded"]
           /\ crashed' = crashed \union {caller}
           /\ outbound' = outbound
  <2>1. fate'[p.id] = "stranded" /\ \A i \in Ids \ {p.id} : fate'[i] = fate[i]
    BY <1>1, <1>6 DEF TypeOK
  <2> QED
    BY <1>6, <2>1 DEF Settled
<1> QED
  BY <1>2, <1>5, <1>6

LEMMA ForwardSettled ==
  ASSUME TypeOK, NEW n \in Nodes, NEW p \in Packet, NEW fresh \in Nat, p.id # fresh,
         fresh \in Ids => fate[fresh] = "unborn", NEW caller, forward(n, p, caller, fresh)
  PROVE  Settled(n, p, fresh)
<1> DEFINE hop == [p EXCEPT !.ttl = @ - 1]
           dup == [hop EXCEPT !.id = fresh]
<1>1. ASSUME NEW why \in {"delivered", "node_down", "zero_ttl", "random"},
             why = "node_down" <=> ~nodeUp[n], End(p, why, fresh)
      PROVE  Settled(n, p, fresh)
  BY <1>1, EndSettled
<1>2. ASSUME nodeUp[n], p.ttl > 1, enqueue_outbound(n, <<hop>>, caller)
      PROVE  Settled(n, p, fresh)
  <2>1. hop \in Packet /\ hop.id = p.id
    BY <1>2 DEF Packet
  <2> HIDE DEF hop
  <2>2. <<hop>> \in Seq(Packet) /\ Len(<<hop>>) = 1 /\ <<hop>>[1] = hop
    BY <2>1
  <2> QED
    BY <1>2, <2>1, <2>2, EnqueueSettled
<1>3. ASSUME nodeUp[n], p.ttl > 1, fresh \in Ids, enqueue_outbound(n, <<hop, dup>>, caller)
      PROVE  Settled(n, p, fresh)
  <2>1. hop \in Packet /\ hop.id = p.id
    BY <1>3 DEF Packet
  <2>2. dup \in Packet /\ dup.id = fresh
    BY <1>3, <2>1 DEF Packet
  <2> HIDE DEF hop, dup
  <2>3. /\ <<hop, dup>> \in Seq(Packet) /\ Len(<<hop, dup>>) = 2
        /\ <<hop, dup>>[1] = hop /\ <<hop, dup>>[2] = dup
    BY <2>1, <2>2
  <2> QED
    BY <1>3, <2>1, <2>2, <2>3, EnqueueSettled
<1> QED
  BY <1>1, <1>2, <1>3 DEF forward

\* The verifier after the first step that forward() records
Received(n, z) == V!PacketInNode(replay, n, z, ~nodeUp[n], now)

LEMMA ReceivedNew ==
  ASSUME TypeOK, ReplayInv, NEW n \in Nodes, NEW z, z.id \in Ids, z.size \in Nat,
         \A g \in replay.in_flight : g.id # z.id, \A q \in replay.node[n].packets : q.id # z.id
  PROVE  /\ Becomes(replay, Received(n, z), n, replay.node[n].packets \union {Entry(z, now)},
                    replay.in_flight)
         /\ \A e \in Received(n, z).errors :
              e \in replay.errors \/ (e = "NodeDownPacketReceive" /\ ~nodeUp[n])
<1> DEFINE down == ~nodeUp[n]
<1>1. replay \in Verifier /\ ~replay.fatal /\ now \in Nat /\ replay.node[n].up = nodeUp[n]
  BY DEF TypeOK, ReplayInv, ReplayCompletes, StatusReplayed
<1>2. Received(n, z) = V!PacketInNode(replay, n, z, down, now)
  BY DEF Received
<1> HIDE DEF down
<1>3. LET w == V!PacketInNode(replay, n, z, down, now)
      IN  /\ Becomes(replay, w, n, replay.node[n].packets \union {Entry(z, now)}, replay.in_flight)
          /\ \A e \in w.errors :
               e \in replay.errors \/ (e = "NodeDownPacketReceive" /\ ~replay.node[n].up)
  BY <1>1, CreatedEffect
<1> QED
  BY <1>1, <1>2, <1>3

LEMMA ReceivedFromLink ==
  ASSUME TypeOK, ReplayInv, NEW n \in Nodes, NEW z, z.id \in Ids, z.size \in Nat,
         \E g \in replay.in_flight : g.id = z.id,
         \A g \in replay.in_flight : g.id = z.id => n = Target[g.link],
         \A q \in replay.node[n].packets : q.id # z.id
  PROVE  /\ nodeUp[n] =>
              Becomes(replay, Received(n, z), n, replay.node[n].packets \union {Entry(z, now)},
                      Without(replay.in_flight, z.id))
         /\ ~nodeUp[n] =>
              Becomes(replay, Received(n, z), n, replay.node[n].packets,
                      Without(replay.in_flight, z.id))
         /\ \A e \in Received(n, z).errors :
              e \in replay.errors \/ e \in {"TooFastPacketReceive", "OfflinePacketReceive"}
         /\ (\A g \in replay.in_flight : g.id = z.id => V!down_since(replay, g)) =>
              "OfflinePacketReceive" \in Received(n, z).errors
<1> DEFINE down == ~nodeUp[n]
<1>1. replay \in Verifier /\ ~replay.fatal /\ now \in Nat /\ replay.node[n].up = nodeUp[n]
  BY DEF TypeOK, ReplayInv, ReplayCompletes, StatusReplayed
<1>2. Received(n, z) = V!PacketInNode(replay, n, z, down, now)
  BY DEF Received
<1>3. down <=> ~replay.node[n].up
  BY <1>1
<1> HIDE DEF down
<1>4. LET w == V!PacketInNode(replay, n, z, down, now)
      IN  /\ replay.node[n].up =>
               Becomes(replay, w, n, replay.node[n].packets \union {Entry(z, now)},
                       Without(replay.in_flight, z.id))
          /\ ~replay.node[n].up =>
               Becomes(replay, w, n, replay.node[n].packets, Without(replay.in_flight, z.id))
          /\ \A e \in w.errors :
               e \in replay.errors \/ e \in {"TooFastPacketReceive", "OfflinePacketReceive"}
          /\ (\A g \in replay.in_flight : g.id = z.id => V!down_since(replay, g)) =>
               "OfflinePacketReceive" \in w.errors
  BY <1>1, <1>3, ReceivedEffect
<1> QED
  BY <1>1, <1>2, <1>4

\* The verifier after all of them: the node's buffer holds the copies that have
\* not been dropped.
LEMMA ForwardedEffect ==
  ASSUME TypeOK, ReplayInv, NEW n \in Nodes, NEW p \in Packet, NEW fresh \in Nat, p.id # fresh,
         fresh \in Ids => fate[fresh] = "unborn", Settled(n, p, fresh),
         \A q \in replay.node[n].packets : q.id # p.id,
         NEW z, z.id = p.id, z.size = p.size,
         [z EXCEPT !.id = fresh].id = fresh, [z EXCEPT !.id = fresh].size = p.size,
         NEW P, NEW F, Becomes(replay, Received(n, z), n, P, F),
         \/ P = replay.node[n].packets \union {Entry(p, now)}
         \/ P = replay.node[n].packets /\ ~nodeUp[n],
         Forwarded(n, z, fresh)
  PROVE  \E Q : /\ Becomes(replay, replay', n, Q, F)
                /\ replay'.errors = Received(n, z).errors
                /\ \A q \in replay.node[n].packets : q \in Q
                /\ \A q \in Q : \/ q \in replay.node[n].packets
                                 \/ /\ q.id = p.id /\ q.arrived_at = now
                                    /\ fate'[p.id] \in {"live", "delivered", "node_down", "stranded"}
                                 \/ /\ q.id = fresh /\ q.arrived_at = now
                                    /\ fresh \in Ids /\ fate'[fresh] = "live"
                /\ fate'[p.id] \in {"live", "delivered"} => \E q \in Q : q.id = p.id
                /\ fresh \in Ids /\ fate'[fresh] = "live" => \E q \in Q : q.id = fresh
<1> DEFINE v == Received(n, z)
           O == replay.node[n].packets
           E == Entry(p, now)
           d == [z EXCEPT !.id = fresh]
           w == IF nodeUp[n] THEN Dropped(v, n, z.id) ELSE v
           x == V!PacketDuplicated(w, n, d, now)
           P2 == IF nodeUp[n] /\ fate'[p.id] \in DropReasons THEN O ELSE P
           G == Entry(d, now)
<1>1. /\ replay \in Verifier /\ ~replay.fatal /\ now \in Nat /\ p.id \in Ids /\ p.size \in Nat
      /\ v \in Verifier /\ ~v.fatal /\ v.node[n].packets = P /\ v.in_flight = F
      /\ v.node[n].up = nodeUp[n]
  BY DEF ReplayInv, ReplayCompletes, StatusReplayed, TypeOK, Packet, Becomes
<1>2. E.id = p.id /\ E.arrived_at = now
  BY DEF Entry
<1>3. \A q \in O : fate[q.id] # "unborn" /\ q.id \in Ids
  <2>1. \A q \in O : q.id \in Ids
    BY <1>1 DEF Verifier, StoredPacket
  <2>2. \A q \in O : fate[q.id] \in {"live", "delivered", "node_down", "stranded"}
    BY DEF ReplayInv, StoresReplayed
  <2> QED
    BY <2>1, <2>2
<1>4. /\ Becomes(replay, w, n, P2, F) /\ w.errors = v.errors
  <2>1. CASE nodeUp[n] /\ fate'[p.id] \in DropReasons
    <3>1. w = V!PacketDropped(v, n, p.id, fate'[p.id]) /\ P = O \union {E}
      BY <2>1 DEF Dropped
    <3>2. /\ Becomes(v, w, n, Without(P, p.id), F)
          /\ w.errors = v.errors
      <4> DEFINE why == fate'[p.id]
      <4>1. why \in DropReasons /\ \E q \in P : q.id = p.id
        BY <1>2, <2>1, <3>1
      <4>2. w = V!PacketDropped(v, n, p.id, why)
        BY <3>1
      <4> HIDE DEF why, w
      <4> QED
        BY <1>1, <4>1, <4>2, DroppedEffect
    <3>3. Without(P, p.id) = O
      BY <1>2, <3>1 DEF Without
    <3> HIDE DEF w
    <3> QED
      BY <2>1, <3>2, <3>3, BecomesTwice
  <2>2. CASE ~(nodeUp[n] /\ fate'[p.id] \in DropReasons)
    <3>1. w = v
      BY <2>2 DEF Dropped
    <3> QED
      BY <2>2, <3>1
  <2> QED
    BY <2>1, <2>2
<1>5. /\ w \in Verifier /\ ~w.fatal /\ w.node[n].packets = P2 /\ w.in_flight = F
      /\ w.node[n].up = nodeUp[n]
  BY <1>1, <1>4 DEF Becomes, ReplayInv, StatusReplayed
<1>6. /\ \A q \in O : q \in P2
      /\ \A q \in P2 : \/ q \in O
                       \/ /\ q.id = p.id /\ q.arrived_at = now
                          /\ fate'[p.id] \in {"live", "delivered", "node_down", "stranded"}
      /\ fate'[p.id] \in {"live", "delivered"} => \E q \in P2 : q.id = p.id
  BY <1>2 DEF DropReasons, Settled
<1>7. CASE fresh \in Ids /\ fate'[fresh] # "unborn"
  <2>1. nodeUp[n] /\ fate'[fresh] \in {"live", "buffer_full"}
    BY <1>7 DEF Settled
  <2>2. \A q \in P2 : q.id # fresh
    BY <1>3, <1>6, <1>7
  <2>3. replay' = Dropped(x, n, fresh)
    BY <1>7 DEF Forwarded, Received
  <2> HIDE DEF w, d, P2
  <2>4. d.id \in Ids /\ d.size \in Nat /\ d.id = fresh
    BY <1>1, <1>7 DEF d
  <2>5. x = V!add_packet_to_buffer(w, n, d.id, d.size, now)
    BY <1>5 DEF V!PacketDuplicated, V!TryFatal
  <2>6. /\ Becomes(w, x, n, P2 \union {G}, F)
        /\ \A e \in x.errors : e \in w.errors
    <3>1. G = [id |-> d.id, size |-> d.size, arrived_at |-> now]
      BY DEF Entry
    <3>2. /\ \A q \in w.node[n].packets : q.id # d.id
          /\ w.node[n].up
      BY <1>5, <2>1, <2>2, <2>4
    <3> HIDE DEF x, G
    <3>3. /\ Becomes(w, x, n, w.node[n].packets \union {G}, w.in_flight)
          /\ \A e \in x.errors : e \in w.errors
      BY <1>1, <1>5, <2>4, <2>5, <3>1, <3>2, AddEffect
    <3> QED
      BY <1>5, <3>3
  <2>7. G.id = fresh /\ G.arrived_at = now
    BY <2>4 DEF Entry
  <2> HIDE DEF x, G
  <2>8. /\ Becomes(replay, x, n, P2 \union {G}, F) /\ x.errors = v.errors
        /\ x \in Verifier /\ ~x.fatal /\ x.node[n].packets = P2 \union {G} /\ x.in_flight = F
    <3>1. Becomes(replay, x, n, P2 \union {G}, F)
      BY <1>4, <2>6, BecomesTwice
    <3>2. x.errors = w.errors
      BY <2>6 DEF Becomes
    <3> QED
      BY <1>1, <1>4, <3>1, <3>2 DEF Becomes
  <2>9. CASE fate'[fresh] = "live"
    <3>1. replay' = x
      BY <2>3, <2>9 DEF Dropped, DropReasons
    <3> DEFINE Q == P2 \union {G}
    <3>2. /\ \A q \in O : q \in Q
          /\ \A q \in Q : \/ q \in O
                          \/ /\ q.id = p.id /\ q.arrived_at = now
                             /\ fate'[p.id] \in {"live", "delivered", "node_down", "stranded"}
                          \/ /\ q.id = fresh /\ q.arrived_at = now
                             /\ fresh \in Ids /\ fate'[fresh] = "live"
          /\ fate'[p.id] \in {"live", "delivered"} => \E q \in Q : q.id = p.id
          /\ \E q \in Q : q.id = fresh
      BY <1>6, <1>7, <2>7, <2>9
    <3>3. Becomes(replay, replay', n, Q, F) /\ replay'.errors = v.errors
      BY <2>8, <3>1
    <3> HIDE DEF Q
    <3> QED
      BY <3>2, <3>3
  <2>10. CASE fate'[fresh] = "buffer_full"
    <3>1. replay' = V!PacketDropped(x, n, fresh, "buffer_full")
      BY <2>3, <2>10 DEF Dropped, DropReasons
    <3>2. /\ Becomes(x, replay', n, Without(P2 \union {G}, fresh), F)
          /\ replay'.errors = x.errors
      BY <2>7, <2>8, <3>1, DroppedEffect DEF DropReasons
    <3>3. Without(P2 \union {G}, fresh) = P2
      BY <2>2, <2>7 DEF Without
    <3>4. Becomes(replay, replay', n, P2, F) /\ replay'.errors = v.errors
      BY <2>8, <3>2, <3>3, BecomesTwice
    <3> QED
      BY <1>6, <2>10, <3>4
  <2> QED
    BY <2>1, <2>9, <2>10
<1>8. CASE ~(fresh \in Ids /\ fate'[fresh] # "unborn")
  <2>1. replay' = w
    BY <1>8 DEF Forwarded, Received
  <2>2. Becomes(replay, replay', n, P2, F) /\ replay'.errors = v.errors
    BY <1>4, <2>1
  <2> HIDE DEF P2, w
  <2> QED
    BY <1>6, <1>8, <2>2
<1> QED
  BY <1>7, <1>8

\* Packet p, new or from a link, is in node n, and all that is in Q is in the
\* node's buffer of the replay.
LEMMA EnteredReplayed ==
  ASSUME TypeOK, CopyInv, ReplayInv, NEW n \in Nodes, NEW p \in Packet, NEW fresh \in Nat,
         p.id # fresh, fresh \in Ids => fate[fresh] = "unborn", Settled(n, p, fresh),
         UNCHANGED <<nodeUp, last_buffer_clear, linkUp, last_down, outgoing, handled>>,
         fate[p.id] \in {"unborn", "live"},
         \A m \in Nodes : \A q \in replay.node[m].packets : q.id # p.id,
         \A m \in Nodes : \A b \in Waiting(m) : b.pkt.id # p.id,
         \A k \in Links : \A r : r \in in_transit'[k] <=> r \in in_transit[k] /\ r.pkt.id # p.id,
         NEW z, z.id = p.id, z.size = p.size,
         [z EXCEPT !.id = fresh].id = fresh, [z EXCEPT !.id = fresh].size = p.size,
         \A e \in Received(n, z).errors : e \in replay.errors \/
           e \in {"TooFastPacketReceive", "OfflinePacketReceive", "NodeDownPacketReceive"},
         NEW P, Becomes(replay, Received(n, z), n, P, Without(replay.in_flight, p.id)),
         \/ P = replay.node[n].packets \union {Entry(p, now)}
         \/ P = replay.node[n].packets /\ ~nodeUp[n],
         Forwarded(n, z, fresh)
  PROVE  ReplayInv' /\ replay'.errors = Received(n, z).errors
<1> DEFINE F == Without(replay.in_flight, p.id)
<1>0. \A q \in replay.node[n].packets : q.id # p.id
  OBVIOUS
<1>1. PICK Q : /\ Becomes(replay, replay', n, Q, F)
               /\ replay'.errors = Received(n, z).errors
               /\ \A q \in replay.node[n].packets : q \in Q
               /\ \A q \in Q : \/ q \in replay.node[n].packets
                                \/ /\ q.id = p.id /\ q.arrived_at = now
                                   /\ fate'[p.id] \in {"live", "delivered", "node_down", "stranded"}
                                \/ /\ q.id = fresh /\ q.arrived_at = now
                                   /\ fresh \in Ids /\ fate'[fresh] = "live"
               /\ fate'[p.id] \in {"live", "delivered"} => \E q \in Q : q.id = p.id
               /\ fresh \in Ids /\ fate'[fresh] = "live" => \E q \in Q : q.id = fresh
  BY <1>0, ForwardedEffect
<1>2. /\ replay' \in Verifier /\ ~replay'.fatal /\ replay'.in_flight = F
      /\ replay'.node[n].packets = Q
      /\ \A m \in Nodes \ {n} : replay'.node[m].packets = replay.node[m].packets
  BY <1>1 DEF Becomes, ReplayInv, ReplayCompletes
<1>3. StatusReplayed'
  BY <1>1, BecomesStatus DEF ReplayInv
<1>4. RulesKept'
  BY <1>1 DEF ReplayInv, RulesKept
<1>5. FlightsReplayed'
  <2>1. ASSUME NEW f \in F
        PROVE  \E r \in in_transit'[f.link] : r.pkt.id = f.id /\ r.sent = f.sent_at
    <3>1. f \in replay.in_flight /\ f.id # p.id /\ f.link \in Links
      BY DEF Without, ReplayInv, Verifier
    <3>2. PICK r \in in_transit[f.link] : r.pkt.id = f.id /\ r.sent = f.sent_at
      BY <3>1 DEF ReplayInv, FlightsReplayed
    <3> QED
      BY <3>1, <3>2
  <2>2. ASSUME NEW l \in Links, NEW r \in in_transit'[l]
        PROVE  \E f \in F : f.id = r.pkt.id /\ f.link = l /\ f.sent_at = r.sent
    <3>1. r \in in_transit[l] /\ r.pkt.id # p.id
      OBVIOUS
    <3>2. PICK f \in replay.in_flight : f.id = r.pkt.id /\ f.link = l /\ f.sent_at = r.sent
      BY <3>1 DEF ReplayInv, FlightsReplayed
    <3> QED
      BY <3>1, <3>2 DEF Without
  <2> QED
    BY <1>2, <2>1, <2>2 DEF FlightsReplayed
\* What was in a node before is neither p nor the duplicate.
<1>6. \A m \in Nodes : \A q \in replay.node[m].packets :
        q.id \in Ids /\ q.id # p.id /\ q.id # fresh /\ fate'[q.id] = fate[q.id]
  <2> SUFFICES ASSUME NEW m \in Nodes, NEW q \in replay.node[m].packets
               PROVE  q.id \in Ids /\ q.id # p.id /\ q.id # fresh /\ fate'[q.id] = fate[q.id]
    OBVIOUS
  <2>1. q.id \in Ids /\ fate[q.id] # "unborn"
    <3>1. q \in StoredPacket
      BY DEF ReplayInv, Verifier
    <3>2. fate[q.id] \in {"live", "delivered", "node_down", "stranded"}
      BY DEF ReplayInv, StoresReplayed
    <3> QED
      BY <3>1, <3>2 DEF StoredPacket
  <2> QED
    BY <2>1 DEF Settled
<1>7. \A m \in Nodes : \A b \in Waiting(m) : b.pkt.id # p.id /\ b.pkt.id # fresh
  <2>1. \A m \in Nodes : \A b \in Waiting(m) : b.pkt.id \in Ids /\ fate[b.pkt.id] = "live"
    BY PlacesApart
  <2> QED
    BY <2>1
<1>8. \A l \in Links : \A r \in in_transit'[l] : r.pkt.id # p.id /\ r.pkt.id # fresh /\ r \in in_transit[l]
  <2>1. \A l \in Links : \A r \in in_transit[l] : r.pkt.id \in Ids /\ fate[r.pkt.id] = "live"
    BY PlacesApart
  <2> QED
    BY <2>1
<1>9. ASSUME NEW m \in Nodes, NEW b \in Waiting(m)'
      PROVE  \/ b \in Waiting(m)
             \/ /\ m = n /\ b.since = now /\ fate'[b.pkt.id] = "live"
                /\ b.pkt.id = p.id \/ (b.pkt.id = fresh /\ fresh \in Ids)
  <2>1. IsWaiting(m, b)'
    BY WaitingNext
  <2>2. CASE \E l \in Links : Source[l] = m /\ b \in Offered(l)' /\ Key(b.pkt) \notin handled'
    BY <2>2, WaitingNow DEF IsWaiting, Offered
  <2>3. CASE b \in Entries(outbound'[m])
    <3>1. CASE m # n
      BY <2>3, <3>1, WaitingNow DEF IsWaiting, Settled
    <3>2. CASE m = n
      BY <2>3, <3>2, WaitingNow DEF IsWaiting, Settled
    <3> QED
      BY <3>1, <3>2
  <2> QED
    BY <2>1, <2>2, <2>3 DEF IsWaiting
<1>10. WaitingReplayed'
  <2> SUFFICES ASSUME NEW m \in Nodes, NEW b \in Waiting(m)'
               PROVE  /\ \E q \in replay'.node[m].packets : q.id = b.pkt.id
                      /\ \A q \in replay'.node[m].packets : q.id = b.pkt.id => q.arrived_at = b.since
    BY DEF WaitingReplayed
  <2>1. CASE b \in Waiting(m)
    <3>1. /\ \E q \in replay.node[m].packets : q.id = b.pkt.id
          /\ \A q \in replay.node[m].packets : q.id = b.pkt.id => q.arrived_at = b.since
      BY <2>1 DEF ReplayInv, WaitingReplayed
    <3> QED
      BY <1>1, <1>2, <1>7, <2>1, <3>1
  <2>2. CASE /\ m = n /\ b.since = now /\ fate'[b.pkt.id] = "live"
             /\ b.pkt.id = p.id \/ (b.pkt.id = fresh /\ fresh \in Ids)
    <3>1. \E q \in Q : q.id = b.pkt.id
      BY <1>1, <2>2
    <3>2. \A q \in Q : q.id = b.pkt.id => q.arrived_at = now
      BY <1>1, <1>6, <2>2
    <3> QED
      BY <1>2, <2>2, <3>1, <3>2
  <2> QED
    BY <1>9, <2>1, <2>2
<1>11. /\ unread' \in [Nodes -> SUBSET Ids]
       /\ \A m \in Nodes : \A i : i \in unread'[m] <=>
            i \in unread[m] \/ (m = n /\ i = p.id /\ fate'[p.id] = "delivered")
  <2>1. unread \in [Nodes -> SUBSET Ids] /\ p.id \in Ids
    BY DEF ReplayInv, Packet
  <2>2. unread' = IF fate'[p.id] = "delivered"
                  THEN [unread EXCEPT ![n] = @ \union {p.id}] ELSE unread
    BY DEF Forwarded
  <2> QED
    BY <2>1, <2>2
<1>12. StoresReplayed'
  <2> SUFFICES ASSUME NEW m \in Nodes, NEW q \in replay'.node[m].packets
               PROVE  /\ fate'[q.id] \in {"live", "delivered", "node_down", "stranded"}
                      /\ fate'[q.id] = "delivered" => q.id \in unread'[m]
                      /\ fate'[q.id] = "stranded" => crashed' # {}
                      /\ \A l \in Links : \A r \in in_transit'[l] : r.pkt.id # q.id
                      /\ \A k \in Nodes : \A b \in Waiting(k)' : b.pkt.id = q.id => k = m
    BY DEF StoresReplayed
  <2>1. CASE q \in replay.node[m].packets
    <3>1. /\ fate[q.id] \in {"live", "delivered", "node_down", "stranded"}
          /\ fate[q.id] = "delivered" => q.id \in unread[m]
          /\ fate[q.id] = "stranded" => crashed # {}
          /\ \A l \in Links : \A r \in in_transit[l] : r.pkt.id # q.id
          /\ \A k \in Nodes : \A b \in Waiting(k) : b.pkt.id = q.id => k = m
      BY <2>1 DEF ReplayInv, StoresReplayed
    <3>2. q.id # p.id /\ q.id # fresh /\ fate'[q.id] = fate[q.id] /\ crashed \subseteq crashed'
      BY <1>6, <2>1 DEF Settled
    <3> QED
      BY <1>8, <1>9, <1>11, <3>1, <3>2
  <2>2. CASE q \notin replay.node[m].packets
    <3>1. /\ m = n
          /\ \/ /\ q.id = p.id
                /\ fate'[p.id] \in {"live", "delivered", "node_down", "stranded"}
             \/ q.id = fresh /\ fresh \in Ids /\ fate'[fresh] = "live"
      BY <1>1, <1>2, <2>2
    <3>2. fate'[p.id] = "stranded" => crashed' # {}
      BY DEF Settled
    <3>3. \A k \in Nodes : \A b \in Waiting(k)' : b.pkt.id = q.id => k = m
      BY <1>7, <1>9, <3>1
    <3> QED
      BY <1>8, <1>11, <3>1, <3>2, <3>3
  <2> QED
    BY <2>1, <2>2
<1>13. UnreadReplayed'
  <2> SUFFICES ASSUME NEW m \in Nodes, NEW i \in unread'[m]
               PROVE  fate'[i] = "delivered" /\ \E q \in replay'.node[m].packets : q.id = i
    BY DEF UnreadReplayed
  <2>1. CASE i \in unread[m]
    <3>1. fate[i] = "delivered" /\ \E q \in replay.node[m].packets : q.id = i
      BY <2>1 DEF ReplayInv, UnreadReplayed
    <3> QED
      BY <1>1, <1>2, <1>6, <3>1
  <2>2. CASE m = n /\ i = p.id /\ fate'[p.id] = "delivered"
    BY <1>1, <1>2, <2>2
  <2> QED
    BY <1>11, <2>1, <2>2
<1> QED
  BY <1>1, <1>2, <1>3, <1>4, <1>5, <1>10, <1>11, <1>12, <1>13 DEF ReplayInv, ReplayCompletes

LEMMA SendReplayed ==
  ASSUME NetworkInv, CopyInv, ReplayInv, NEW f \in Flows, VSend(f)
  PROVE  ReplayInv' /\ BreachReports
<1> DEFINE n     == f.from
           fresh == nextId + 1
           p     == [id |-> nextId, number |-> nextId, to |-> f.to, size |-> f.size,
                     ecn |-> f.ecn, ttl |-> DEFAULT_TTL]
           z     == [id |-> nextId, size |-> f.size]
<1>1. /\ TypeOK /\ replay \in Verifier /\ ~replay.fatal /\ now \in Nat /\ nextId \in Nat
      /\ n \in Nodes /\ f.size \in Nat /\ nextId \in Ids
      /\ replay.node[n].up = nodeUp[n]
  BY NetworkAssumption DEF NetworkInv, ReplayInv, ReplayCompletes, StatusReplayed, TypeOK, VSend, send_udp
<1>2. p \in Packet /\ p.id = nextId /\ p.size = f.size
  BY <1>1, NetworkAssumption DEF Packet, Ecn
<1>3. /\ z.id = p.id /\ z.size = p.size
      /\ [z EXCEPT !.id = fresh].id = fresh /\ [z EXCEPT !.id = fresh].size = p.size
  OBVIOUS
<1>4. /\ UNCHANGED <<nodeUp, last_buffer_clear, linkUp, last_down, outgoing, in_transit, handled>>
      /\ forward(n, p, <<"app", n>>, fresh)
      /\ Forwarded(n, z, fresh)
  BY DEF VSend, send_udp, linkVars
<1>5. /\ fresh \in Nat /\ p.id # fresh
      /\ fate[p.id] = "unborn" /\ (fresh \in Ids => fate[fresh] = "unborn")
  BY <1>1, <1>2 DEF CopyInv, Tracked, Ids
<1> HIDE DEF p, z, fresh, n
<1>6. Settled(n, p, fresh)
  BY <1>1, <1>2, <1>4, <1>5, ForwardSettled
<1>7. /\ \A m \in Nodes : \A q \in replay.node[m].packets : q.id # p.id
      /\ \A m \in Nodes : \A b \in Waiting(m) : b.pkt.id # p.id
      /\ \A k \in Links : \A r \in in_transit[k] : r.pkt.id # p.id
      /\ \A g \in replay.in_flight : g.id # p.id
  <2>1. \A m \in Nodes : \A q \in replay.node[m].packets :
          fate[q.id] \in {"live", "delivered", "node_down", "stranded"}
    BY DEF ReplayInv, StoresReplayed
  <2>2. /\ \A m \in Nodes : \A b \in Waiting(m) : fate[b.pkt.id] = "live"
        /\ \A k \in Links : \A r \in in_transit[k] : fate[r.pkt.id] = "live"
    BY <1>1, PlacesApart
  <2>3. \A g \in replay.in_flight : g.link \in Links /\ \E r \in in_transit[g.link] : r.pkt.id = g.id
    BY <1>1 DEF ReplayInv, FlightsReplayed, Verifier
  <2> QED
    BY <1>5, <2>1, <2>2, <2>3
<1>8. Without(replay.in_flight, p.id) = replay.in_flight
  BY <1>7 DEF Without
<1>9. /\ Becomes(replay, Received(n, z), n, replay.node[n].packets \union {Entry(p, now)}, replay.in_flight)
      /\ \A e \in Received(n, z).errors :
           e \in replay.errors \/ (e = "NodeDownPacketReceive" /\ ~replay.node[n].up)
  <2>1. Entry(z, now) = Entry(p, now) /\ z.id \in Ids /\ z.size \in Nat
    BY <1>1, <1>2, <1>3 DEF Entry
  <2>2. /\ \A g \in replay.in_flight : g.id # z.id
        /\ \A q \in replay.node[n].packets : q.id # z.id
    BY <1>1, <1>3, <1>7
  <2> QED
    BY <1>1, <2>1, <2>2, ReceivedNew
<1>10. ReplayInv' /\ replay'.errors = Received(n, z).errors
  <2>1. TypeOK /\ n \in Nodes /\ p \in Packet /\ fresh \in Nat /\ p.id # fresh
    BY <1>1, <1>2, <1>5
  <2>2. fresh \in Ids => fate[fresh] = "unborn"
    BY <1>5
  <2>3. UNCHANGED <<nodeUp, last_buffer_clear, linkUp, last_down, outgoing, handled>>
    BY <1>4
  <2>4. fate[p.id] \in {"unborn", "live"}
    BY <1>5
  <2>5. \A m \in Nodes : \A q \in replay.node[m].packets : q.id # p.id
    BY <1>7
  <2>6. \A m \in Nodes : \A b \in Waiting(m) : b.pkt.id # p.id
    BY <1>7
  <2>7. \A k \in Links : \A r : r \in in_transit'[k] <=> r \in in_transit[k] /\ r.pkt.id # p.id
    BY <1>4, <1>7
  <2>8. \A e \in Received(n, z).errors : e \in replay.errors \/
          e \in {"TooFastPacketReceive", "OfflinePacketReceive", "NodeDownPacketReceive"}
    BY <1>9
  <2> DEFINE P == replay.node[n].packets \union {Entry(p, now)}
  <2>9. Becomes(replay, Received(n, z), n, P, Without(replay.in_flight, p.id))
    BY <1>8, <1>9
  <2>10. \/ P = replay.node[n].packets \union {Entry(p, now)}
         \/ P = replay.node[n].packets /\ ~nodeUp[n]
    OBVIOUS
  <2>11. Forwarded(n, z, fresh)
    BY <1>4
  <2> HIDE DEF P
  <2> QED
    BY <1>3, <1>6, <2>1, <2>2, <2>3, <2>4, <2>5, <2>6, <2>7, <2>8, <2>9, <2>10, <2>11, EnteredReplayed, SMTT(40)
<1>11. ASSUME "NodeDownPacketReceive" \in replay'.errors, "NodeDownPacketReceive" \notin replay.errors
       PROVE  \E i \in Ids : fate[i] = "unborn" /\ fate'[i] = "node_down"
  <2>1. ~nodeUp[n]
    BY <1>1, <1>9, <1>10, <1>11
  <2>2. fate'[p.id] = "node_down" /\ p.id \in Ids
    BY <1>1, <1>2, <1>6, <2>1 DEF Settled
  <2> QED
    BY <1>5, <2>2
<1>12. BreachReports
  BY <1>4, <1>11 DEF BreachReports
<1> QED
  BY <1>10, <1>12

LEMMA ForwarderReplayed ==
  ASSUME NetworkInv, CopyInv, ReplayInv, NEW l \in Links, VForward(l)
  PROVE  ReplayInv' /\ BreachReports
<1> DEFINE n == Target[l]
<1>1. /\ TypeOK /\ replay \in Verifier /\ ~replay.fatal /\ now \in Nat /\ nextId \in Nat
      /\ n \in Nodes /\ replay.node[n].up = nodeUp[n]
  BY NetworkAssumption DEF NetworkInv, ReplayInv, ReplayCompletes, StatusReplayed, TypeOK
<1>2. PICK r \in in_transit[l] :
        /\ in_transit' = [in_transit EXCEPT ![l] = @ \ {r}]
        /\ \/ End(r.pkt, "lost_in_transit", nextId)
           \/ /\ ~was_down_after(l, r.sent)
              /\ forward(n, r.pkt, <<"forwarder", l>>, nextId)
  BY DEF VForward, forward_packet, NextArrivals
<1> DEFINE p == r.pkt
<1>3. /\ UNCHANGED <<nodeUp, last_buffer_clear, linkUp, last_down, outgoing, handled>>
  BY DEF VForward, forward_packet
<1>4. /\ in_transit'[l] = in_transit[l] \ {r}
      /\ \A k \in Links \ {l} : in_transit'[k] = in_transit[k]
  BY <1>1, <1>2 DEF TypeOK
<1>5. /\ r \in Transit /\ p \in Packet /\ p.id \in Ids /\ p.size \in Nat /\ fate[p.id] = "live"
      /\ \A k \in Links : \A s \in in_transit[k] : s.pkt.id = p.id => k = l /\ s = r
      /\ \A m \in Nodes : \A b \in Waiting(m) : b.pkt.id # p.id
  BY <1>1, PlacesApart DEF Packet
<1>6. IF fate'[p.id] = "lost_in_transit"
      THEN replay' = V!PacketLostInTransit(replay, p.id) /\ UNCHANGED unread
      ELSE Forwarded(n, p, nextId)
  BY <1>4 DEF VForward
<1>7. /\ \A m \in Nodes : \A q \in replay.node[m].packets : q.id # p.id
  BY DEF ReplayInv, StoresReplayed
<1>8. \A k \in Links : \A s : s \in in_transit'[k] <=> s \in in_transit[k] /\ s.pkt.id # p.id
  BY <1>4, <1>5
<1>9. \A k \in Links : \A s \in in_transit[k] \ in_transit'[k] : k = l /\ s = r
  BY <1>4
<1>10. \A g \in replay.in_flight : g.id = p.id => g.link = l /\ g.sent_at = r.sent
  <2> SUFFICES ASSUME NEW g \in replay.in_flight, g.id = p.id
               PROVE  g.link = l /\ g.sent_at = r.sent
    OBVIOUS
  <2>1. g.link \in Links
    BY <1>1 DEF Verifier
  <2>2. PICK s \in in_transit[g.link] : s.pkt.id = g.id /\ s.sent = g.sent_at
    BY DEF ReplayInv, FlightsReplayed
  <2> QED
    BY <1>5, <2>1, <2>2
<1>11. \E g \in replay.in_flight : g.id = p.id
  BY DEF ReplayInv, FlightsReplayed
<1> HIDE DEF p, n
<1>12. CASE End(r.pkt, "lost_in_transit", nextId)
  <2>1. /\ fate' = [fate EXCEPT ![p.id] = "lost_in_transit"] /\ UNCHANGED <<outbound, crashed>>
        /\ fate'[p.id] = "lost_in_transit"
    BY <1>1, <1>5, <1>12 DEF End, TypeOK, p
  <2>2. /\ Becomes(replay, replay', n, replay.node[n].packets, Without(replay.in_flight, p.id))
        /\ replay'.errors = replay.errors
    BY <1>1, <1>6, <1>11, <2>1, LostEffect
  <2>3. /\ replay' \in Verifier /\ ~replay'.fatal
        /\ \A m \in Nodes : replay'.node[m].packets = replay.node[m].packets
        /\ replay'.in_flight = Without(replay.in_flight, p.id)
    BY <1>1, <2>2 DEF Becomes
  <2>4. StatusReplayed'
    BY <1>3, <2>2, BecomesStatus DEF ReplayInv
  <2>5. RulesKept'
    BY <2>2 DEF ReplayInv, RulesKept
  <2>6. FlightsReplayed'
    <3>1. ASSUME NEW g \in Without(replay.in_flight, p.id)
          PROVE  \E s \in in_transit'[g.link] : s.pkt.id = g.id /\ s.sent = g.sent_at
      <4>1. g \in replay.in_flight /\ g.id # p.id /\ g.link \in Links
        BY <1>1 DEF Without, Verifier
      <4>2. PICK s \in in_transit[g.link] : s.pkt.id = g.id /\ s.sent = g.sent_at
        BY <4>1 DEF ReplayInv, FlightsReplayed
      <4> QED
        BY <1>8, <4>1, <4>2
    <3>2. ASSUME NEW k \in Links, NEW s \in in_transit'[k]
          PROVE  \E g \in Without(replay.in_flight, p.id) :
                   g.id = s.pkt.id /\ g.link = k /\ g.sent_at = s.sent
      <4>1. s \in in_transit[k] /\ s.pkt.id # p.id
        BY <1>8
      <4>2. PICK g \in replay.in_flight : g.id = s.pkt.id /\ g.link = k /\ g.sent_at = s.sent
        BY <4>1 DEF ReplayInv, FlightsReplayed
      <4> QED
        BY <4>1, <4>2 DEF Without
    <3> QED
      BY <2>3, <3>1, <3>2 DEF FlightsReplayed
  <2>7. \A m \in Nodes : Waiting(m)' = Waiting(m)
    BY <1>3, <2>1 DEF Waiting, Offered
  <2>8. \A i \in Ids : i # p.id => fate'[i] = fate[i]
    BY <1>1, <2>1 DEF TypeOK
  <2>9. unread' \in [Nodes -> SUBSET Ids] /\ unread' = unread
    BY <1>6, <2>1 DEF ReplayInv
  <2>10. \A m \in Nodes : \A q \in replay'.node[m].packets :
           /\ q \in replay.node[m].packets
           /\ fate'[q.id] = fate[q.id]
           /\ \A k \in Links : \A s \in in_transit'[k] : s.pkt.id # q.id
    <3>1. \A m \in Nodes : \A q \in replay.node[m].packets : q.id \in Ids
      BY <1>1 DEF Verifier, StoredPacket
    <3> QED
      BY <1>7, <1>8, <2>3, <2>8, <3>1 DEF ReplayInv, StoresReplayed
  <2>11. \A m \in Nodes : \A i \in unread'[m] :
           i \in unread[m] /\ fate'[i] = fate[i] /\ \E q \in replay'.node[m].packets : q.id = i
    BY <1>5, <2>3, <2>8, <2>9 DEF ReplayInv, UnreadReplayed
  <2>12. \A m \in Nodes : \A b \in Waiting(m)' :
           b \in Waiting(m) /\ \E q \in replay'.node[m].packets : q.id = b.pkt.id
    BY <2>3, <2>7 DEF ReplayInv, WaitingReplayed
  <2>13. ReplayInv'
    BY <2>1, <2>3, <2>4, <2>5, <2>6, <2>9, <2>10, <2>11, <2>12, ReplayKeeps
  <2>14. BreachReports
    BY <1>8, <1>9, <2>1, <2>2 DEF BreachReports, p
  <2> QED
    BY <2>13, <2>14
<1>13. CASE ~was_down_after(l, r.sent) /\ forward(n, r.pkt, <<"forwarder", l>>, nextId)
  <2>1. nextId \in Nat /\ p.id # nextId /\ (nextId \in Ids => fate[nextId] = "unborn")
    BY <1>1, <1>5 DEF CopyInv, Tracked, Ids
  <2>2. Settled(n, p, nextId)
    BY <1>1, <1>5, <1>13, <2>1, ForwardSettled DEF p
  <2>3. Forwarded(n, p, nextId)
    BY <1>6, <2>2 DEF Settled
  <2>4. [p EXCEPT !.id = nextId].id = nextId /\ [p EXCEPT !.id = nextId].size = p.size
    BY <1>5 DEF Packet
  <2>5. /\ nodeUp[n] =>
             Becomes(replay, Received(n, p), n, replay.node[n].packets \union {Entry(p, now)},
                     Without(replay.in_flight, p.id))
        /\ ~nodeUp[n] =>
             Becomes(replay, Received(n, p), n, replay.node[n].packets, Without(replay.in_flight, p.id))
        /\ \A e \in Received(n, p).errors :
             e \in replay.errors \/ e \in {"TooFastPacketReceive", "OfflinePacketReceive"}
        /\ (\A g \in replay.in_flight : g.id = p.id => V!down_since(replay, g)) =>
             "OfflinePacketReceive" \in Received(n, p).errors
    <3>1. /\ \A g \in replay.in_flight : g.id = p.id => n = Target[g.link]
          /\ \A q \in replay.node[n].packets : q.id # p.id
      BY <1>1, <1>7, <1>10 DEF n
    <3> QED
      BY <1>1, <1>5, <1>11, <3>1, ReceivedFromLink
  <2>6. PICK P : /\ Becomes(replay, Received(n, p), n, P, Without(replay.in_flight, p.id))
                 /\ \/ P = replay.node[n].packets \union {Entry(p, now)}
                    \/ P = replay.node[n].packets /\ ~nodeUp[n]
    BY <2>5
  <2>7. ReplayInv' /\ replay'.errors = Received(n, p).errors
    <3>1. TypeOK /\ n \in Nodes /\ p \in Packet
      BY <1>1, <1>5
    <3>2. UNCHANGED <<nodeUp, last_buffer_clear, linkUp, last_down, outgoing, handled>>
      BY <1>3
    <3>3. fate[p.id] \in {"unborn", "live"} /\ p.id = p.id /\ p.size = p.size
      BY <1>5
    <3>4. \A m \in Nodes : \A b \in Waiting(m) : b.pkt.id # p.id
      BY <1>5
    <3>5. \A e \in Received(n, p).errors : e \in replay.errors \/
            e \in {"TooFastPacketReceive", "OfflinePacketReceive", "NodeDownPacketReceive"}
      BY <2>5
    <3> QED
      BY <1>7, <1>8, <2>1, <2>2, <2>3, <2>4, <2>6, <3>1, <3>2, <3>3, <3>4, <3>5, EnteredReplayed, ZenonT(60)
  <2>8. r.cut => "OfflinePacketReceive" \in replay'.errors
    <3> SUFFICES ASSUME r.cut PROVE "OfflinePacketReceive" \in replay'.errors
      OBVIOUS
    <3>1. last_down[l] = r.sent
      BY <1>13 DEF NetworkInv, LossVerdictComplete
    <3>2. replay.link[l].last_down >= r.sent
      BY <3>1 DEF ReplayInv, StatusReplayed
    <3>3. \A g \in replay.in_flight : g.id = p.id => V!down_since(replay, g)
      BY <1>10, <3>2 DEF V!down_since
    <3> QED
      BY <2>5, <2>7, <3>3
  <2>9. "NodeDownPacketReceive" \in replay'.errors => "NodeDownPacketReceive" \in replay.errors
    BY <2>5, <2>7
  <2>10. BreachReports
    BY <1>8, <1>9, <2>8, <2>9 DEF BreachReports
  <2> QED
    BY <2>7, <2>10
<1> QED
  BY <1>2, <1>12, <1>13 DEF n

----------------------------------------------------------------------------
(* All steps *)

LEMMA ReplayInit == VInit => ReplayInv
<1> SUFFICES ASSUME VInit PROVE ReplayInv
  OBVIOUS
<1>1. Init /\ TypeOK
  BY NetworkInit DEF VInit, NetworkInv
<1>2. /\ replay.node = [n \in Nodes |-> [up |-> nodeUp[n], last_buffer_clear |-> NoTime, packets |-> {}]]
      /\ replay.link = [l \in Links |-> [up |-> linkUp[l], last_down |-> last_down[l]]]
      /\ replay.in_flight = {} /\ replay.errors = {} /\ replay.fatal = FALSE
      /\ replay.dropped = [n \in Nodes |-> [c \in V!Counters |-> 0]]
      /\ replay = [node |-> replay.node, link |-> replay.link, in_flight |-> replay.in_flight,
                   dropped |-> replay.dropped, errors |-> replay.errors, fatal |-> replay.fatal]
  <2> DEFINE N == [n \in Nodes |-> [V!NewVerifier.node[n] EXCEPT !.up = nodeUp[n]]]
             K == [l \in Links |-> [up |-> linkUp[l], last_down |-> last_down[l]]]
  <2>1. replay = [V!NewVerifier EXCEPT !.node = N, !.link = K]
    BY DEF VInit, V!NewVerifier
  <2>2. N = [n \in Nodes |-> [up |-> nodeUp[n], last_buffer_clear |-> NoTime, packets |-> {}]]
    BY DEF V!NewVerifier, V!NoTime, NoTime
  <2> HIDE DEF N, K
  <2>3. /\ replay.node = N /\ replay.link = K
        /\ replay.in_flight = {} /\ replay.errors = {} /\ replay.fatal = FALSE
        /\ replay.dropped = [n \in Nodes |-> [c \in V!Counters |-> 0]]
        /\ replay = [node |-> replay.node, link |-> replay.link, in_flight |-> replay.in_flight,
                     dropped |-> replay.dropped, errors |-> replay.errors, fatal |-> replay.fatal]
    BY <2>1 DEF V!NewVerifier
  <2> QED
    BY <2>2, <2>3 DEF K
<1>3. replay \in Verifier
  <2>1. replay.node \in [Nodes -> [up : BOOLEAN, last_buffer_clear : Nat \union {NoTime},
                                   packets : SUBSET StoredPacket]]
    BY <1>1, <1>2 DEF TypeOK
  <2>2. replay.link \in [Links -> [up : BOOLEAN, last_down : Nat \union {NoTime}]]
    BY <1>1, <1>2 DEF TypeOK
  <2>3. replay.dropped \in [Nodes -> [V!Counters -> Nat]]
    BY <1>2
  <2> QED
    BY <1>2, <2>1, <2>2, <2>3 DEF Verifier
<1>4. \A n \in Nodes : Waiting(n) = {}
  <2>1. /\ \A n \in Nodes : Len(outbound[n]) = 0
        /\ \A l \in Links : Len(outgoing[l]) = 0
    BY <1>1 DEF Init
  <2>2. \A l \in Links : Offered(l) = {}
    BY <2>1 DEF Offered
  <2> QED
    BY <2>1, <2>2, WaitingNow DEF IsWaiting, Entries
<1>5. \A l \in Links : in_transit[l] = {}
  BY <1>1 DEF Init
<1>6. unread \in [Nodes -> SUBSET Ids] /\ \A n \in Nodes : unread[n] = {}
  BY DEF VInit
<1>7. StatusReplayed
  BY <1>1, <1>2 DEF StatusReplayed, Init, NoTime
<1> QED
  BY <1>2, <1>3, <1>4, <1>5, <1>6, <1>7
     DEF ReplayInv, ReplayCompletes, FlightsReplayed, WaitingReplayed, StoresReplayed,
         UnreadReplayed, RulesKept

\* The steps of the network with its verifier are steps of the network.
LEMMA VerifiedSteps == [VNext]_vvars => [Next]_vars
<1>1. ASSUME NEW f \in Flows, VSend(f) PROVE Next
  BY <1>1 DEF VSend, Next
<1>2. ASSUME NEW l \in Links, VLinkTask(l) PROVE Next
  BY <1>2 DEF VLinkTask, Next
<1>3. ASSUME NEW l \in Links, VForward(l) PROVE Next
  BY <1>3 DEF VForward, Next
<1>4. ASSUME NEW e \in LinkEvents, VLinkEvent(e) PROVE Next
  BY <1>4 DEF VLinkEvent, Next
<1>5. ASSUME NEW e \in NodeEvents, VNodeEvent(e) PROVE Next
  BY <1>5 DEF VNodeEvent, Next
<1>6. ASSUME NEW n \in Nodes, poll_recv(n) PROVE UNCHANGED vars
  BY <1>6 DEF poll_recv
<1>7. ASSUME VTick PROVE Next
  BY <1>7 DEF VTick, Next
<1>8. ASSUME NEW n \in Nodes, process_buffer(n) PROVE Next
  BY <1>8 DEF Next
<1>9. ASSUME NEW l \in Links, forwarder_sleeps(l) PROVE Next
  BY <1>9 DEF Next
<1>10. UNCHANGED vvars => UNCHANGED vars
  BY DEF vvars
<1> QED
  BY <1>1, <1>2, <1>3, <1>4, <1>5, <1>6, <1>7, <1>8, <1>9, <1>10 DEF VNext

LEMMA ReplayNext ==
  ASSUME NetworkInv, CopyInv, ReplayInv, VNext
  PROVE  ReplayInv' /\ BreachReports
<1>1. ASSUME NEW f \in Flows, VSend(f) PROVE ReplayInv' /\ BreachReports
  BY <1>1, SendReplayed
<1>2. ASSUME NEW n \in Nodes, process_buffer(n), UNCHANGED <<unread, replay>>
      PROVE  ReplayInv' /\ BreachReports
  BY <1>2, BufferTaskReplayed
<1>3. ASSUME NEW l \in Links, VLinkTask(l) PROVE ReplayInv' /\ BreachReports
  BY <1>3, LinkTaskReplayed
<1>4. ASSUME NEW l \in Links, forwarder_sleeps(l), UNCHANGED <<unread, replay>>
      PROVE  ReplayInv' /\ BreachReports
  BY <1>4, SleepReplayed
<1>5. ASSUME NEW l \in Links, VForward(l) PROVE ReplayInv' /\ BreachReports
  BY <1>5, ForwarderReplayed
<1>6. ASSUME NEW e \in LinkEvents, VLinkEvent(e) PROVE ReplayInv' /\ BreachReports
  BY <1>6, LinkEventReplayed
<1>7. ASSUME NEW e \in NodeEvents, VNodeEvent(e) PROVE ReplayInv' /\ BreachReports
  BY <1>7, NodeEventReplayed
<1>8. ASSUME NEW n \in Nodes, poll_recv(n) PROVE ReplayInv' /\ BreachReports
  BY <1>8, ReadReplayed
<1>9. ASSUME VTick PROVE ReplayInv' /\ BreachReports
  BY <1>9, TickReplayed
<1> QED
  BY <1>1, <1>2, <1>3, <1>4, <1>5, <1>6, <1>7, <1>8, <1>9 DEF VNext

LEMMA ReplayStutter == ReplayInv /\ UNCHANGED vvars => ReplayInv'
<1> SUFFICES ASSUME ReplayInv, UNCHANGED vvars PROVE ReplayInv'
  OBVIOUS
<1>1. UNCHANGED <<unread, replay, fate, crashed, nodeUp, last_buffer_clear, linkUp, last_down,
                  in_transit, outbound, outgoing, handled>>
  BY DEF vvars, vars, linkVars, nodeVars
<1>2. \A n \in Nodes : Waiting(n)' = Waiting(n)
  BY <1>1 DEF Waiting, Offered
<1> QED
  BY <1>1, <1>2 DEF ReplayInv, ReplayCompletes, StatusReplayed, FlightsReplayed, WaitingReplayed,
                    StoresReplayed, UnreadReplayed, RulesKept

LEMMA ReplayInvariant == VSpec => [](NetworkInv /\ CopyInv /\ ReplayInv)
<1> DEFINE Inv == NetworkInv /\ CopyInv /\ ReplayInv
<1>1. VInit => Inv
  BY NetworkInit, CopyInit, ReplayInit DEF VInit
<1>2. Inv /\ [VNext]_vvars => Inv'
  <2> SUFFICES ASSUME NetworkInv, CopyInv, ReplayInv, [VNext]_vvars PROVE Inv'
    OBVIOUS
  <2>1. NetworkInv' /\ CopyInv'
    BY VerifiedSteps, NetworkStep, CopyStep
  <2>2. ReplayInv'
    BY ReplayNext, ReplayStutter
  <2> QED
    BY <2>1, <2>2
<1> QED
  BY <1>1, <1>2, PTL DEF VSpec

----------------------------------------------------------------------------
(* What the replay establishes *)

\* verify() never stops with a fatal error: in every network, whatever tasks
\* crash and however packets are duplicated, no packet is received twice in one
\* node, and none is missing where it is sent, dropped or read.
THEOREM ReplayNeverStops == VSpec => []ReplayCompletes
<1>1. ReplayInv => ReplayCompletes
  BY DEF ReplayInv
<1> QED
  BY <1>1, ReplayInvariant, PTL

\* While no task has crashed, the verifier knows of every packet in which node
\* or on which link it is, and since when it is there.
THEOREM ReplayFollowsNetwork == VSpec => []ReplayAgrees
<1>1. NetworkInv /\ CopyInv /\ ReplayInv => ReplayAgrees
  <2> SUFFICES ASSUME NetworkInv, CopyInv, ReplayInv, crashed = {}
               PROVE  /\ \A n \in Nodes :
                           {q.id : q \in {q \in replay.node[n].packets : fate[q.id] # "node_down"}}
                             = {b.pkt.id : b \in Waiting(n)} \union unread[n]
                      /\ {<<f.id, f.link, f.sent_at>> : f \in replay.in_flight}
                           = UNION {{<<r.pkt.id, l, r.sent>> : r \in in_transit[l]} : l \in Links}
    BY DEF ReplayAgrees, ReplayInv
  <2>1. TypeOK /\ replay \in Verifier
    BY DEF NetworkInv, ReplayInv
  <2>2. ASSUME NEW n \in Nodes, NEW q \in replay.node[n].packets, fate[q.id] # "node_down"
        PROVE  q.id \in unread[n] \/ \E b \in Waiting(n) : b.pkt.id = q.id
    <3>1. /\ fate[q.id] = "delivered" => q.id \in unread[n]
          /\ fate[q.id] \in {"live", "delivered"} /\ q.id \in Ids
          /\ \A l \in Links : \A r \in in_transit[l] : r.pkt.id # q.id
          /\ \A m \in Nodes : \A b \in Waiting(m) : b.pkt.id = q.id => m = n
      BY <2>1, <2>2 DEF ReplayInv, StoresReplayed, Verifier, StoredPacket
    <3>2. CASE fate[q.id] = "live"
      <4>1. PICK x \in Whereabouts : x[3].id = q.id
        BY <3>1, <3>2 DEF CopyInv, Accounted
      <4>2. ASSUME NEW m \in Nodes, NEW p, InBuffer(m, p), x = <<"buffer", m, p>>
            PROVE  \E b \in Waiting(n) : b.pkt.id = q.id
        <5>1. PICK b \in Entries(outbound[m]) : b.pkt = p
          BY <4>2 DEF InBuffer, Entries
        <5>2. b \in Waiting(m) /\ b.pkt.id = q.id
          BY <4>1, <4>2, <5>1, WaitingNow DEF IsWaiting
        <5> QED
          BY <3>1, <5>2
      <4>3. ASSUME NEW l \in Links, NEW p, Pending(l, p), x = <<"offer", Source[l], p>>
            PROVE  \E b \in Waiting(n) : b.pkt.id = q.id
        <5>1. PICK o \in Offered(l) : o.pkt = p /\ Key(p) \notin handled
          BY <4>3 DEF Pending
        <5>2. o \in Waiting(Source[l]) /\ o.pkt.id = q.id /\ Source[l] \in Nodes
          BY <4>1, <4>3, <5>1, WaitingNow, NetworkAssumption DEF IsWaiting
        <5> QED
          BY <3>1, <5>2
      <4>4. ASSUME NEW l \in Links, NEW p, Flying(l, p), x = <<"link", l, p>>
            PROVE  FALSE
        BY <3>1, <4>1, <4>4 DEF Flying
      <4>5. InSomePlace(x)
        BY <4>1, WhereaboutsNow
      <4> QED
        BY <4>2, <4>3, <4>4, <4>5 DEF InSomePlace
    <3> QED
      BY <3>1, <3>2
  <2>3. ASSUME NEW n \in Nodes, NEW b \in Waiting(n)
        PROVE  \E q \in replay.node[n].packets : q.id = b.pkt.id /\ fate[q.id] # "node_down"
    <3>1. fate[b.pkt.id] = "live"
      BY <2>1, PlacesApart
    <3> QED
      BY <3>1 DEF ReplayInv, WaitingReplayed
  <2>4. ASSUME NEW n \in Nodes, NEW i \in unread[n]
        PROVE  \E q \in replay.node[n].packets : q.id = i /\ fate[q.id] # "node_down"
    BY DEF ReplayInv, UnreadReplayed
  <2>5. ASSUME NEW n \in Nodes
        PROVE  {q.id : q \in {q \in replay.node[n].packets : fate[q.id] # "node_down"}}
                 = {b.pkt.id : b \in Waiting(n)} \union unread[n]
    BY <2>2, <2>3, <2>4
  <2>6. \A f \in replay.in_flight : f.link \in Links
    BY <2>1 DEF Verifier
  <2>7. {<<f.id, f.link, f.sent_at>> : f \in replay.in_flight}
          = UNION {{<<r.pkt.id, l, r.sent>> : r \in in_transit[l]} : l \in Links}
    BY <2>6 DEF ReplayInv, FlightsReplayed
  <2> QED
    BY <2>5, <2>7
<1> QED
  BY <1>1, ReplayInvariant, PTL

\* The simulator never breaks six rules of its verifier: packets use links of
\* their node, never one that is down, and arrive where the link leads; only
\* packets in flight are lost, only nodes that are down refuse packets, and none
\* survives the clearing of its buffer.
THEOREM SimulatorKeepsRules == VSpec => []RulesKept
<1>1. ReplayInv => RulesKept
  BY DEF ReplayInv
<1> QED
  BY <1>1, ReplayInvariant, PTL

\* The simulator does break three other rules, but not behind the verifier's
\* back: what a link lets through after a failure and what a link sends for a
\* node that went down is reported, and a node that is down receives nothing
\* but what its own applications sent.
THEOREM BreachesAreReported == VSpec => BreachesReported
<1>1. NetworkInv /\ CopyInv /\ ReplayInv /\ [VNext]_vvars => [BreachReports]_vvars
  BY ReplayNext
<1> QED
  BY <1>1, ReplayInvariant, PTL DEF VSpec, BreachesReported

----------------------------------------------------------------------------
(* Bytes in buffers *)

\* A set of buffered packets, each in it once
Unrepeated(W) ==
  /\ W \subseteq Buffered
  /\ \A b, c \in W : b.pkt.id = c.pkt.id => b.pkt = c.pkt

LEMMA BytesOfOne ==
  ASSUME NEW W, Unrepeated(W), NEW i \in Ids
  PROVE  /\ BytesOf(W, i) \in Nat
         /\ \A b \in W : b.pkt.id = i => BytesOf(W, i) = b.pkt.size
         /\ (\A b \in W : b.pkt.id # i) => BytesOf(W, i) = 0
<1>1. \A b \in W : b.pkt \in Packet /\ b.pkt.size \in Nat
  BY DEF Unrepeated, Buffered, Packet
<1>2. CASE \A b \in W : b.pkt.id # i
  BY <1>2 DEF BytesOf
<1>3. CASE \E b \in W : b.pkt.id = i
  <2> DEFINE c == CHOOSE b \in W : b.pkt.id = i
  <2>1. c \in W /\ c.pkt.id = i
    BY <1>3
  <2>2. BytesOf(W, i) = c.pkt.size
    BY <1>3 DEF BytesOf
  <2> HIDE DEF c
  <2>3. \A b \in W : b.pkt.id = i => b.pkt = c.pkt
    BY <2>1 DEF Unrepeated
  <2> QED
    BY <1>1, <1>3, <2>1, <2>2, <2>3
<1> QED
  BY <1>2, <1>3

Bill(W) == [i \in Ids |-> BytesOf(W, i)]

LEMMA BillOf ==
  ASSUME NEW W, Unrepeated(W)
  PROVE  /\ Bill(W) \in Seq(Nat) /\ Bill(W) \in Seq(Int) /\ Len(Bill(W)) = MaxPackets
         /\ \A i \in Ids : Bill(W)[i] = BytesOf(W, i)
         /\ Bytes(W) = SumSeq(Bill(W)) /\ Bytes(W) \in Nat
<1>1. Ids = 1 .. MaxPackets /\ MaxPackets \in Nat
  BY NetworkAssumption DEF Ids
<1>2. \A i \in Ids : BytesOf(W, i) \in Nat
  BY BytesOfOne
<1>3. /\ Bill(W) \in Seq(Nat) /\ Len(Bill(W)) = MaxPackets
      /\ \A i \in Ids : Bill(W)[i] = BytesOf(W, i)
  BY <1>1, <1>2 DEF Bill
<1>4. Bill(W) \in Seq(Int)
  BY <1>3
<1>5. Bytes(W) = SumSeq(Bill(W))
  BY DEF Bytes, SumSeq, Bill
<1> QED
  BY <1>3, <1>4, <1>5, SumOfNaturals

\* A node that stores less has fewer bytes in its buffer.
LEMMA FewerBytes ==
  ASSUME NEW W, Unrepeated(W), NEW S, S \subseteq W
  PROVE  Unrepeated(S) /\ Bytes(S) <= Bytes(W)
<1>1. Unrepeated(S)
  BY DEF Unrepeated
<1>2. \A i \in Ids : BytesOf(S, i) <= BytesOf(W, i)
  <2> SUFFICES ASSUME NEW i \in Ids PROVE BytesOf(S, i) <= BytesOf(W, i)
    OBVIOUS
  <2>1. BytesOf(W, i) \in Nat
    BY BytesOfOne
  <2>2. CASE \A b \in S : b.pkt.id # i
    BY <1>1, <2>1, <2>2, BytesOfOne
  <2>3. ASSUME NEW b \in S, b.pkt.id = i PROVE BytesOf(S, i) <= BytesOf(W, i)
    <3>1. BytesOf(S, i) = b.pkt.size
      BY <1>1, <2>3, BytesOfOne
    <3>2. BytesOf(W, i) = b.pkt.size
      BY <2>3, BytesOfOne
    <3> QED
      BY <2>1, <3>1, <3>2
  <2> QED
    BY <2>2, <2>3
<1>3. /\ Bill(S) \in Seq(Int) /\ Bill(W) \in Seq(Int) /\ Len(Bill(S)) = Len(Bill(W))
      /\ 1 .. Len(Bill(W)) = Ids
      /\ Bytes(S) = SumSeq(Bill(S)) /\ Bytes(W) = SumSeq(Bill(W))
  BY <1>1, BillOf DEF Ids
<1>4. \A i \in 1 .. Len(Bill(W)) : Bill(S)[i] <= Bill(W)[i]
  BY <1>1, <1>2, <1>3, BillOf
<1>5. SumSeq(Bill(S)) <= SumSeq(Bill(W))
  BY <1>3, <1>4, SumOfSmaller
<1> QED
  BY <1>1, <1>3, <1>5

\* A packet's share of them is its size.
LEMMA BytesWithout ==
  ASSUME NEW W, Unrepeated(W), NEW c \in W, NEW S,
         \A b : b \in S <=> b \in W /\ b.pkt.id # c.pkt.id
  PROVE  Unrepeated(S) /\ Bytes(W) = Bytes(S) + c.pkt.size
<1> DEFINE x == c.pkt.id
<1>1. Unrepeated(S)
  BY DEF Unrepeated
<1>2. x \in Ids /\ c.pkt.size \in Nat
  BY DEF Unrepeated, Buffered, Packet
<1>3. BytesOf(W, x) = c.pkt.size /\ BytesOf(S, x) = 0
  BY <1>1, <1>2, BytesOfOne
<1>4. \A i \in Ids : i # x => BytesOf(S, i) = BytesOf(W, i)
  <2> SUFFICES ASSUME NEW i \in Ids, i # x PROVE BytesOf(S, i) = BytesOf(W, i)
    OBVIOUS
  <2>1. CASE \A b \in W : b.pkt.id # i
    <3>1. \A b \in S : b.pkt.id # i
      BY <2>1
    <3> QED
      BY <1>1, <2>1, <3>1, BytesOfOne
  <2>2. ASSUME NEW b \in W, b.pkt.id = i PROVE BytesOf(S, i) = BytesOf(W, i)
    <3>1. b \in S
      BY <2>2
    <3>2. BytesOf(S, i) = b.pkt.size
      BY <1>1, <2>2, <3>1, BytesOfOne
    <3>3. BytesOf(W, i) = b.pkt.size
      BY <2>2, BytesOfOne
    <3> QED
      BY <3>2, <3>3
  <2> QED
    BY <2>1, <2>2
<1> HIDE DEF x
<1>5. /\ Bill(S) \in Seq(Int) /\ Bill(W) \in Seq(Int) /\ Len(Bill(S)) = Len(Bill(W))
      /\ 1 .. Len(Bill(W)) = Ids
      /\ Bytes(S) = SumSeq(Bill(S)) /\ Bytes(W) = SumSeq(Bill(W))
      /\ Bytes(S) \in Nat /\ Bytes(W) \in Nat
      /\ \A i \in Ids : Bill(S)[i] = BytesOf(S, i) /\ Bill(W)[i] = BytesOf(W, i)
  BY <1>1, BillOf DEF Ids
<1>6. /\ x \in 1 .. Len(Bill(W))
      /\ \A i \in 1 .. Len(Bill(W)) : i # x => Bill(S)[i] = Bill(W)[i]
  BY <1>2, <1>4, <1>5
<1>7. SumSeq(Bill(S)) = SumSeq(Bill(W)) - Bill(W)[x] + Bill(S)[x]
  BY <1>5, <1>6, SumUpdate
<1> QED
  BY <1>1, <1>2, <1>3, <1>5, <1>7, SMTT(40)

LEMMA WaitingUnrepeated == TypeOK /\ CopyInv => \A n \in Nodes : Unrepeated(Waiting(n))
BY PlacesApart DEF Unrepeated

LEMMA WaitingUnrepeatedNext ==
  (TypeOK /\ CopyInv => \A n \in Nodes : Unrepeated(Waiting(n)))'
BY WaitingUnrepeated, PTL

\* What is stored and what is available change together, unless a buffer was
\* cleared or a task crashed; both leave a trace.
BooksKept ==
  /\ crashed \subseteq crashed'
  /\ \A i \in Ids : fate[i] = "buffer_cleared" => fate'[i] = "buffer_cleared"
  /\ \A n \in Nodes :
       /\ available_capacity'[n] + Bytes(Waiting(n)')
            <= available_capacity[n] + Bytes(Waiting(n))
       /\ (crashed' = {} /\ \A i \in Ids : fate'[i] # "buffer_cleared") =>
            available_capacity'[n] + Bytes(Waiting(n)')
              = available_capacity[n] + Bytes(Waiting(n))

LEMMA BooksBalance ==
  ASSUME NetworkInv, CopyInv, NetworkInv', CopyInv', BufferAccounting, BooksKept
  PROVE  BufferAccounting'
<1>1. ASSUME NEW n \in Nodes
      PROVE  /\ available_capacity[n] \in Nat /\ available_capacity'[n] \in Nat
             /\ Bytes(Waiting(n)) \in Nat /\ Bytes(Waiting(n)') \in Nat /\ Capacity[n] \in Nat
  <2>1. available_capacity[n] \in Nat /\ available_capacity'[n] \in Nat /\ Capacity[n] \in Nat
    BY NetworkAssumption DEF NetworkInv, TypeOK
  <2>2. Unrepeated(Waiting(n)) /\ Unrepeated(Waiting(n)')
    BY WaitingUnrepeated, WaitingUnrepeatedNext DEF NetworkInv
  <2> QED
    BY <2>1, <2>2, BillOf
<1>2. ASSUME NEW n \in Nodes
      PROVE  /\ available_capacity'[n] + Bytes(Waiting(n)') <= Capacity[n]
             /\ (crashed' = {} /\ \A i \in Ids : fate'[i] # "buffer_cleared") =>
                  available_capacity'[n] + Bytes(Waiting(n)') = Capacity[n]
  <2>1. /\ available_capacity'[n] + Bytes(Waiting(n)')
             <= available_capacity[n] + Bytes(Waiting(n))
        /\ available_capacity[n] + Bytes(Waiting(n)) <= Capacity[n]
    BY DEF BooksKept, BufferAccounting
  <2>2. ASSUME crashed' = {}, \A i \in Ids : fate'[i] # "buffer_cleared"
        PROVE  available_capacity'[n] + Bytes(Waiting(n)') = Capacity[n]
    <3>1. crashed = {} /\ \A i \in Ids : fate[i] # "buffer_cleared"
      BY <2>2 DEF BooksKept
    <3>2. available_capacity[n] + Bytes(Waiting(n)) = Capacity[n]
      BY <3>1 DEF BufferAccounting
    <3>3. available_capacity'[n] + Bytes(Waiting(n)') = available_capacity[n] + Bytes(Waiting(n))
      BY <2>2 DEF BooksKept
    <3> QED
      BY <3>2, <3>3
  <2>3. available_capacity'[n] + Bytes(Waiting(n)') <= Capacity[n]
    BY <1>1, <2>1
  <2> QED
    BY <2>2, <2>3
<1> QED
  BY <1>2 DEF BufferAccounting

\* Steps that only take packets away
LEMMA FewerStored ==
  ASSUME NetworkInv, CopyInv, UNCHANGED available_capacity, crashed \subseteq crashed',
         \A i \in Ids : fate[i] = "buffer_cleared" => fate'[i] = "buffer_cleared",
         \A n \in Nodes : \A b \in Waiting(n)' : b \in Waiting(n),
         crashed' = {} /\ (\A i \in Ids : fate'[i] # "buffer_cleared") =>
           \A n \in Nodes : \A b \in Waiting(n) : b \in Waiting(n)'
  PROVE  BooksKept
<1>1. ASSUME NEW n \in Nodes
      PROVE  /\ available_capacity'[n] + Bytes(Waiting(n)')
                  <= available_capacity[n] + Bytes(Waiting(n))
             /\ (crashed' = {} /\ \A i \in Ids : fate'[i] # "buffer_cleared") =>
                  available_capacity'[n] + Bytes(Waiting(n)')
                    = available_capacity[n] + Bytes(Waiting(n))
  <2>1. available_capacity[n] \in Nat
    BY DEF NetworkInv, TypeOK
  <2>2. Unrepeated(Waiting(n)) /\ Waiting(n)' \subseteq Waiting(n)
    BY WaitingUnrepeated DEF NetworkInv
  <2>3. Unrepeated(Waiting(n)') /\ Bytes(Waiting(n)') <= Bytes(Waiting(n))
    BY <2>2, FewerBytes
  <2>4. Bytes(Waiting(n)) \in Nat /\ Bytes(Waiting(n)') \in Nat
    BY <2>2, <2>3, BillOf
  <2>5. ASSUME crashed' = {}, \A i \in Ids : fate'[i] # "buffer_cleared"
        PROVE  Bytes(Waiting(n)') = Bytes(Waiting(n))
    <3>1. Waiting(n)' = Waiting(n)
      BY <2>2, <2>5
    <3> QED
      BY <3>1
  <2>6. available_capacity'[n] = available_capacity[n]
    OBVIOUS
  <2>7. available_capacity'[n] + Bytes(Waiting(n)')
          <= available_capacity[n] + Bytes(Waiting(n))
    BY <2>1, <2>3, <2>4, <2>6
  <2> QED
    BY <2>5, <2>6, <2>7
<1> QED
  BY <1>1 DEF BooksKept

LEMMA QuietBooks ==
  ASSUME NetworkInv, CopyInv,
         UNCHANGED <<available_capacity, crashed, fate, outbound, outgoing, handled>>
  PROVE  BooksKept
<1>1. \A n \in Nodes : \A b : b \in Waiting(n)' <=> b \in Waiting(n)
  BY WaitingNow, WaitingNext DEF IsWaiting, Offered
<1> QED
  BY <1>1, FewerStored

LEMMA LinkTaskBooks ==
  ASSUME NetworkInv, CopyInv, NEW l \in Links, process_link_queue(l)
  PROVE  BooksKept
<1> DEFINE c == Current(l)
           n == Source[l]
<1>1. TypeOK /\ LinkOutcome(l)
  BY LinkQueueOutcome DEF NetworkInv
<1>2. /\ \A k \in Links : \A o \in Offered(k)' : o \in Offered(k)
      /\ outbound' = outbound /\ crashed \subseteq crashed' /\ handled \subseteq handled'
  BY <1>1 DEF LinkOutcome
<1>3. \A m \in Nodes : \A b \in Waiting(m)' : b \in Waiting(m)
  BY <1>2, WaitingNow, WaitingNext DEF IsWaiting
<1>4. CASE /\ UNCHANGED <<fate, in_transit, available_capacity, handled>>
           /\ crashed' = {} => \A k \in Links : \A o \in Offered(k) :
                                 Key(o.pkt) \in handled \/ o \in Offered(k)'
  <2>1. crashed' = {} => \A m \in Nodes : \A b \in Waiting(m) : b \in Waiting(m)'
    BY <1>2, <1>4, WaitingNow, WaitingNext DEF IsWaiting
  <2> QED
    BY <1>2, <1>3, <1>4, <2>1, FewerStored
<1>5. ASSUME c \in Offered(l), c \in Buffered, n \in Nodes,
             Key(c.pkt) \notin handled, Key(c.pkt) \in handled'
      PROVE  /\ c \in Waiting(n) /\ c.pkt.id \in Ids /\ fate[c.pkt.id] = "live"
             /\ \A m \in Nodes : \A b \in Waiting(m)' : b \in Waiting(m) /\ b.pkt.id # c.pkt.id
  <2>1. /\ c \in Waiting(n)
        /\ \A m \in Nodes : \A b \in Waiting(m)' : b \in Waiting(m) /\ b.pkt.id # c.pkt.id
    BY <1>1, <1>2, <1>5, ClaimedLeaves
  <2> QED
    BY <1>1, <1>5, <2>1, PlacesApart
<1>6. ASSUME c \in Offered(l), c \in Buffered, n \in Nodes,
             Key(c.pkt) \notin handled, Key(c.pkt) \in handled', UNCHANGED available_capacity,
             \/ fate' = [fate EXCEPT ![c.pkt.id] = "buffer_cleared"]
             \/ fate' = [fate EXCEPT ![c.pkt.id] = "stranded"] /\ crashed' # {}
      PROVE  BooksKept
  <2>1. c.pkt.id \in Ids /\ fate[c.pkt.id] = "live"
    BY <1>5, <1>6
  <2> HIDE DEF c
  <2>2. \A i \in Ids : fate[i] = "buffer_cleared" => fate'[i] = "buffer_cleared"
    BY <1>1, <1>6, <2>1 DEF TypeOK
  <2>3. crashed' # {} \/ \E i \in Ids : fate'[i] = "buffer_cleared"
    BY <1>1, <1>6, <2>1 DEF TypeOK
  <2> QED
    BY <1>2, <1>3, <1>6, <2>2, <2>3, FewerStored
<1>7. ASSUME c \in Offered(l), c \in Buffered, n \in Nodes,
             Key(c.pkt) \notin handled, UNCHANGED fate,
             handled' = handled \union {Key(c.pkt)},
             \A k \in Links : \A o \in Offered(k) : o = c \/ o \in Offered(k)',
             available_capacity' = [available_capacity EXCEPT ![n] = @ + c.pkt.size]
      PROVE  BooksKept
  <2>1. /\ c \in Waiting(n) /\ c.pkt.id \in Ids
        /\ \A m \in Nodes : \A b \in Waiting(m)' : b \in Waiting(m) /\ b.pkt.id # c.pkt.id
    BY <1>5, <1>7
  <2>2. ASSUME NEW m \in Nodes, NEW b \in Waiting(m), b.pkt.id # c.pkt.id
        PROVE  b \in Waiting(m)'
    <3>1. Key(b.pkt) # Key(c.pkt)
      BY <2>2 DEF Key
    <3> QED
      BY <1>2, <1>7, <2>2, <3>1, WaitingNow, WaitingNext DEF IsWaiting
  <2> HIDE DEF c, n
  <2>3. \A m \in Nodes : Unrepeated(Waiting(m))
    BY <1>1, WaitingUnrepeated
  <2>4. Unrepeated(Waiting(n)') /\ Bytes(Waiting(n)) = Bytes(Waiting(n)') + c.pkt.size
    <3>1. \A b : b \in Waiting(n)' <=> b \in Waiting(n) /\ b.pkt.id # c.pkt.id
      BY <1>7, <2>1, <2>2
    <3>2. Unrepeated(Waiting(n))
      BY <1>7, <2>3
    <3> QED
      BY <2>1, <3>1, <3>2, BytesWithout
  <2>5. Bytes(Waiting(n)') \in Nat /\ c.pkt.size \in Nat
    BY <1>7, <2>4, BillOf DEF Buffered, Packet
  <2>6. ASSUME NEW m \in Nodes
        PROVE  available_capacity'[m] + Bytes(Waiting(m)') = available_capacity[m] + Bytes(Waiting(m))
    <3>1. CASE m = n
      <4>1. available_capacity[n] \in Nat /\ available_capacity'[n] = available_capacity[n] + c.pkt.size
        BY <1>1, <1>7 DEF TypeOK
      <4> QED
        BY <2>4, <2>5, <3>1, <4>1
    <3>2. CASE m # n
      <4>1. available_capacity'[m] = available_capacity[m]
        BY <1>1, <1>7, <3>2 DEF TypeOK
      <4>2. \A b \in Waiting(m) : b.pkt.id # c.pkt.id
        BY <1>1, <1>7, <2>1, <3>2, PlacesApart
      <4>3. Waiting(m)' = Waiting(m)
        BY <2>1, <2>2, <4>2
      <4> QED
        BY <4>1, <4>3
    <3> QED
      BY <3>1, <3>2
  <2>7. ASSUME NEW m \in Nodes
        PROVE  available_capacity[m] + Bytes(Waiting(m)) \in Int
    BY <1>1, <2>3, BillOf DEF TypeOK
  <2> QED
    BY <1>2, <1>7, <2>6, <2>7 DEF BooksKept
<1> QED
  BY <1>1, <1>4, <1>6, <1>7 DEF LinkOutcome

LEMMA BufferTaskBooks ==
  ASSUME NetworkInv, CopyInv, NEW n \in Nodes, process_buffer(n)
  PROVE  BooksKept
<1>1. PICK h : h = Head(outbound[n])
  OBVIOUS
<1> DEFINE route == Routes[n][h.pkt.to]
           offer == Reachable(route)
<1>2. TypeOK /\ outbound[n] \in Seq(Buffered) /\ outbound[n] # <<>>
  BY DEF NetworkInv, TypeOK, process_buffer
<1>3. h \in Entries(outbound[n]) /\ Entries(outbound[n]) = {h} \union Entries(Tail(outbound[n]))
  BY <1>1, <1>2, ElementsOfTail
<1>4. h \in Waiting(n)
  BY <1>3, WaitingNow DEF IsWaiting
<1>5. h \in Buffered /\ h.pkt \in Packet /\ h.pkt.id \in Ids /\ h.pkt.to \in Nodes /\ fate[h.pkt.id] = "live"
  BY <1>2, <1>4, PlacesApart DEF Packet
<1>6. route \in Seq(Links) /\ offer \in Seq(Links)
  BY <1>5, NetworkAssumption, ReachableType
<1>7. /\ UNCHANGED <<handled, available_capacity>>
      /\ outgoing' = [l \in Links |-> outgoing[l] \o [i \in 1 .. Times(offer, l) |-> h]]
      /\ \/ /\ route # <<>> /\ offer = route
            /\ outbound' = [outbound EXCEPT ![n] = Tail(@)]
            /\ UNCHANGED <<fate, crashed>>
         \/ /\ crashed' = crashed \union {<<"buffer", n>>}
            /\ fate' = IF offer = <<>>
                       THEN [fate EXCEPT ![h.pkt.id] = "stranded"] ELSE fate
  BY <1>1, Zenon DEF process_buffer
<1> HIDE DEF route
<1>8. \A m \in Nodes : \A b \in Waiting(m)' : b \in Waiting(m)
  BY <1>2, BufferTaskWaits
<1>9. \A i \in Ids : fate[i] = "buffer_cleared" => fate'[i] = "buffer_cleared"
  BY <1>2, <1>5, <1>7 DEF TypeOK
<1>10. crashed \subseteq crashed'
  BY <1>7
<1>11. ASSUME crashed' = {} PROVE \A m \in Nodes : \A b \in Waiting(m) : b \in Waiting(m)'
  <2>1. /\ offer # <<>> /\ outbound' = [outbound EXCEPT ![n] = Tail(@)]
    BY <1>7, <1>11
  <2> HIDE DEF offer
  <2>2. \A l \in Links : \A o : o \in Offered(l)' <=> o \in Offered(l) \/ (Times(offer, l) # 0 /\ o = h)
    <3> SUFFICES ASSUME NEW l \in Links
                 PROVE  \A o : o \in Offered(l)' <=> o \in Offered(l) \/ (Times(offer, l) # 0 /\ o = h)
      OBVIOUS
    <3>1. PICK times : times = Times(offer, l)
      OBVIOUS
    <3>2. times \in Nat /\ outgoing'[l] = outgoing[l] \o [i \in 1 .. times |-> h]
      BY <1>6, <1>7, <3>1, TimesType
    <3> QED
      BY <1>2, <1>5, <3>1, <3>2, GrownOffers
  <2>3. PICK k \in Links : Times(offer, k) # 0
    BY <1>6, <2>1, SomeLinkOffered
  <2>4. Source[k] = n
    BY <1>5, <2>3, OfferedByOwner DEF offer, route
  <2>5. Key(h.pkt) \notin handled
    <3> SUFFICES ASSUME Key(h.pkt) \in handled PROVE FALSE
      OBVIOUS
    <3>1. InBuffer(n, h.pkt)
      BY <1>3 DEF InBuffer, Entries
    <3>2. <<"buffer", n, h.pkt>> \in Whereabouts
      BY <3>1, WhereaboutsNow DEF InSomePlace
    <3>3. PICK x \in Whereabouts : x = <<"buffer", n, h.pkt>>
      BY <3>2
    <3>4. x[1] = "buffer" /\ x[3] = h.pkt
      BY <3>3
    <3>5. Key(h.pkt)[1] = h.pkt.id /\ Key(h.pkt)[2] = h.pkt.ttl /\ h.pkt.ttl \in Nat
      BY <1>5 DEF Key, Packet
    <3>6. x[3].ttl < Key(h.pkt)[2] \/ (x[1] = "link" /\ x[3].ttl = Key(h.pkt)[2])
      BY <3>4, <3>5 DEF CopyInv, HopsDescend
    <3> QED
      BY <3>4, <3>5, <3>6
  <2>6. h \in Waiting(n)'
    BY <1>7, <2>2, <2>3, <2>4, <2>5, WaitingNext DEF IsWaiting
  <2>7. /\ outbound'[n] = Tail(outbound[n])
        /\ \A m \in Nodes \ {n} : outbound'[m] = outbound[m]
    BY <1>2, <2>1 DEF TypeOK
  <2>8. ASSUME NEW m \in Nodes, NEW b \in Entries(outbound[m]) PROVE b \in Waiting(m)'
    BY <1>3, <2>6, <2>7, WaitingNext DEF IsWaiting
  <2> QED
    BY <1>7, <2>2, <2>8, WaitingNow, WaitingNext DEF IsWaiting
<1> QED
  BY <1>7, <1>8, <1>9, <1>10, <1>11, FewerStored

LEMMA EndBooks ==
  ASSUME NetworkInv, CopyInv, NEW p \in Packet, fate[p.id] # "buffer_cleared",
         NEW why, NEW next, End(p, why, next), UNCHANGED <<outgoing, handled>>
  PROVE  BooksKept
<1>1. p.id \in Ids /\ fate' = [fate EXCEPT ![p.id] = why] /\ fate \in [Ids -> Fates]
  BY DEF Packet, End, NetworkInv, TypeOK
<1>2. \A i \in Ids : fate[i] = "buffer_cleared" => fate'[i] = "buffer_cleared"
  BY <1>1
<1>3. UNCHANGED <<available_capacity, outbound, crashed>>
  BY DEF End
<1>4. \A n \in Nodes : \A b : b \in Waiting(n)' <=> b \in Waiting(n)
  BY <1>3, WaitingNow, WaitingNext DEF IsWaiting, Offered
<1> QED
  BY <1>2, <1>3, <1>4, FewerStored

\* Bytes of one or two new packets
LEMMA MoreBytes ==
  ASSUME NEW W, NEW S, Unrepeated(W), Unrepeated(S), NEW e, NEW size \in Nat,
         \A b : b \in W <=> b \in S \/ b = e, \A b \in S : b.pkt.id # e.pkt.id, e.pkt.size = size
  PROVE  Bytes(W) = Bytes(S) + size
<1>1. \A b : b \in S <=> b \in W /\ b.pkt.id # e.pkt.id
  OBVIOUS
<1>2. e \in W
  OBVIOUS
<1> QED
  BY <1>1, <1>2, BytesWithout

LEMMA EnqueueBooks ==
  ASSUME NetworkInv, CopyInv, TypeOK', CopyInv', NEW n \in Nodes,
         NEW copies \in Seq(Packet), Len(copies) \in {1, 2},
         \A i \in 1 .. Len(copies) :
           /\ fate[copies[i].id] # "buffer_cleared" /\ copies[i].size = copies[1].size
           /\ \A m \in Nodes : \A b \in Waiting(m) : b.pkt.id # copies[i].id,
         Len(copies) = 2 => copies[1].id # copies[2].id,
         NEW caller, enqueue_outbound(n, copies, caller), UNCHANGED <<outgoing, handled>>
  PROVE  BooksKept
<1> DEFINE size == copies[1].size
           fit  == Fits(n, size, Len(copies))
           kept == {copies[i].id : i \in 1 .. fit}
           all  == {copies[i].id : i \in 1 .. Len(copies)}
           more == [i \in 1 .. fit |-> [pkt |-> copies[i], since |-> now]]
<1>1. /\ TypeOK /\ size \in Nat /\ fit \in 0 .. 2 /\ fit \in 0 .. Len(copies)
      /\ \A i \in 1 .. Len(copies) : copies[i] \in Packet /\ copies[i].id \in Ids
      /\ \A m \in Nodes : available_capacity[m] \in Nat
  <2>1. \A i \in 1 .. Len(copies) : copies[i] \in Packet
    BY ElementOfSeq
  <2>2. 1 \in 1 .. Len(copies)
    OBVIOUS
  <2>3. size \in Nat /\ \A i \in 1 .. Len(copies) : copies[i].id \in Ids
    BY <2>1, <2>2 DEF Packet
  <2>4. fit \in 0 .. 2 /\ fit \in 0 .. Len(copies)
    BY DEF Fits
  <2>5. TypeOK /\ \A m \in Nodes : available_capacity[m] \in Nat
    BY DEF NetworkInv, TypeOK
  <2> QED
    BY <2>1, <2>3, <2>4, <2>5
<1>2. \/ /\ outbound' = [outbound EXCEPT ![n] = @ \o more]
         /\ available_capacity' = [available_capacity EXCEPT ![n] = @ - fit * size]
         /\ fate' = [i \in Ids |-> IF i \in kept THEN "live"
                                   ELSE IF i \in all THEN "buffer_full" ELSE fate[i]]
         /\ crashed' = crashed
      \/ /\ available_capacity' = [available_capacity EXCEPT ![n] = @ - size]
         /\ fate' = [fate EXCEPT ![copies[1].id] = "stranded"]
         /\ crashed' = crashed \union {caller}
         /\ outbound' = outbound
  BY DEF enqueue_outbound
<1>3. \A m \in Nodes : Unrepeated(Waiting(m)) /\ Unrepeated(Waiting(m)')
  BY <1>1, WaitingUnrepeated, WaitingUnrepeatedNext
<1>4. \A m \in Nodes : Bytes(Waiting(m)) \in Nat /\ Bytes(Waiting(m)') \in Nat
  BY <1>3, BillOf
<1>5. \A i \in all : fate[i] # "buffer_cleared"
  OBVIOUS
<1>6. \A i \in kept : i \in all
  BY <1>1
<1> HIDE DEF size, fit, all, kept
<1>7. CASE /\ outbound' = [outbound EXCEPT ![n] = @ \o more]
           /\ available_capacity' = [available_capacity EXCEPT ![n] = @ - fit * size]
           /\ fate' = [i \in Ids |-> IF i \in kept THEN "live"
                                     ELSE IF i \in all THEN "buffer_full" ELSE fate[i]]
           /\ crashed' = crashed
  <2>1. \A i \in Ids : fate[i] = "buffer_cleared" => fate'[i] = "buffer_cleared"
    BY <1>5, <1>6, <1>7
  <2>2. more \in Seq(Buffered) /\ outbound[n] \in Seq(Buffered)
    <3>1. fit \in Nat /\ now \in Nat /\ outbound[n] \in Seq(Buffered)
      BY <1>1 DEF TypeOK
    <3>2. \A i \in 1 .. fit : copies[i] \in Packet
      BY <1>1
    <3>3. \A i \in 1 .. fit : [pkt |-> copies[i], since |-> now] \in Buffered
      BY <3>1, <3>2 DEF Buffered
    <3> QED
      BY <3>1, <3>3
  <2>3. Entries(more) = {more[i] : i \in 1 .. fit}
    BY <1>1 DEF Entries
  <2>4. Entries(outbound[n] \o more) = Entries(outbound[n]) \union Entries(more)
    <3> HIDE DEF more
    <3> QED
      BY <2>2, ElementsOfConcat
  <2>5. outbound'[n] = outbound[n] \o more /\ \A m \in Nodes \ {n} : outbound'[m] = outbound[m]
    <3> HIDE DEF more
    <3> QED
      BY <1>1, <1>7 DEF TypeOK
  <2>6. \A m \in Nodes \ {n} : Waiting(m)' = Waiting(m)
    <3>1. \A m \in Nodes \ {n} : \A b : b \in Waiting(m)' <=> b \in Waiting(m)
      BY <2>5, WaitingNow, WaitingNext DEF IsWaiting, Offered
    <3> QED
      BY <3>1
  <2>7. \A b : b \in Waiting(n)' <=> b \in Waiting(n) \/ b \in Entries(more)
    <3> HIDE DEF more
    <3>1. Entries(outbound'[n]) = Entries(outbound[n]) \union Entries(more)
      BY <2>4, <2>5
    <3>2. \A l \in Links : Offered(l)' = Offered(l)
      BY DEF Offered
    <3> QED
      BY <3>1, <3>2, WaitingNow, WaitingNext DEF IsWaiting
  <2>8. Bytes(Waiting(n)') = Bytes(Waiting(n)) + fit * size
    <3> DEFINE e1 == [pkt |-> copies[1], since |-> now]
               e2 == [pkt |-> copies[2], since |-> now]
    <3>1. CASE fit = 0
      <4>1. Entries(more) = {}
        BY <2>3, <3>1
      <4>2. Waiting(n)' = Waiting(n)
        BY <2>7, <4>1
      <4> QED
        BY <1>1, <1>4, <3>1, <4>2
    <3>2. CASE fit = 1
      <4>1. \A b : b \in Entries(more) <=> b = e1
        BY <2>3, <3>2
      <4>2. e1.pkt.size = size /\ \A b \in Waiting(n) : b.pkt.id # e1.pkt.id
        BY DEF size
      <4> HIDE DEF e1, more
      <4>3. \A b : b \in Waiting(n)' <=> b \in Waiting(n) \/ b = e1
        BY <2>7, <4>1
      <4>4. Unrepeated(Waiting(n)') /\ Unrepeated(Waiting(n))
        BY <1>3
      <4>5. Bytes(Waiting(n)') = Bytes(Waiting(n)) + size
        BY <1>1, <4>2, <4>3, <4>4, MoreBytes
      <4> QED
        BY <1>1, <3>2, <4>5
    <3>3. CASE fit = 2
      <4> DEFINE S == Waiting(n) \union {e1}
      <4>1. \A b : b \in Entries(more) <=> b = e1 \/ b = e2
        <5>1. 1 .. fit = {1, 2}
          BY <3>3
        <5> QED
          BY <2>3, <5>1
      <4>2. /\ Len(copies) = 2 /\ 1 \in 1 .. Len(copies) /\ 2 \in 1 .. Len(copies)
        BY <1>1, <3>3
      <4>3. /\ e1.pkt.size = size /\ e2.pkt.size = size /\ e1.pkt.id # e2.pkt.id
            /\ \A b \in Waiting(n) : b.pkt.id # e1.pkt.id /\ b.pkt.id # e2.pkt.id
        BY <4>2 DEF size
      <4> HIDE DEF e1, e2, more
      <4>4. Unrepeated(Waiting(n)') /\ Unrepeated(Waiting(n))
        BY <1>3
      <4>5. S \subseteq Waiting(n)'
        BY <2>7, <4>1
      <4>6. Unrepeated(S)
        BY <4>4, <4>5, FewerBytes
      <4>7. /\ \A b : b \in S <=> b \in Waiting(n) \/ b = e1
            /\ \A b : b \in Waiting(n)' <=> b \in S \/ b = e2
            /\ \A b \in S : b.pkt.id # e2.pkt.id
        BY <2>7, <4>1, <4>3
      <4> HIDE DEF S
      <4>8. Bytes(S) = Bytes(Waiting(n)) + size
        BY <1>1, <4>3, <4>4, <4>6, <4>7, MoreBytes
      <4>9. Bytes(Waiting(n)') = Bytes(S) + size
        BY <1>1, <4>3, <4>4, <4>6, <4>7, MoreBytes
      <4> QED
        BY <1>1, <1>4, <3>3, <4>8, <4>9
    <3> QED
      BY <1>1, <3>1, <3>2, <3>3
  <2>9. /\ available_capacity'[n] = available_capacity[n] - fit * size
        /\ \A m \in Nodes \ {n} : available_capacity'[m] = available_capacity[m]
    BY <1>1, <1>7 DEF TypeOK
  <2>10. fit * size \in Nat
    BY <1>1
  <2>11. ASSUME NEW m \in Nodes
         PROVE  /\ available_capacity'[m] + Bytes(Waiting(m)') = available_capacity[m] + Bytes(Waiting(m))
                /\ available_capacity[m] + Bytes(Waiting(m)) \in Int
    <3>1. PICK d : d = fit * size
      OBVIOUS
    <3>2. CASE m = n
      <4>1. PICK a \in Int, w \in Int : a = available_capacity[n] /\ w = Bytes(Waiting(n))
        BY <1>1, <1>4
      <4>2. available_capacity'[n] = a - d /\ Bytes(Waiting(n)') = w + d /\ d \in Int
        BY <2>8, <2>9, <2>10, <3>1, <4>1
      <4>3. (a - d) + (w + d) = a + w /\ a + w \in Int
        BY <4>2
      <4> QED
        BY <3>2, <4>1, <4>2, <4>3
    <3>3. CASE m # n
      BY <1>1, <1>4, <2>6, <2>9, <3>3
    <3> QED
      BY <3>2, <3>3
  <2> QED
    BY <1>7, <2>1, <2>11 DEF BooksKept
<1>8. CASE /\ available_capacity' = [available_capacity EXCEPT ![n] = @ - size]
           /\ fate' = [fate EXCEPT ![copies[1].id] = "stranded"]
           /\ crashed' = crashed \union {caller}
           /\ outbound' = outbound
  <2>1. \A m \in Nodes : Waiting(m)' = Waiting(m)
    <3>1. \A m \in Nodes : \A b : b \in Waiting(m)' <=> b \in Waiting(m)
      BY <1>8, WaitingNow, WaitingNext DEF IsWaiting, Offered
    <3> QED
      BY <3>1
  <2>2. \A i \in Ids : fate[i] = "buffer_cleared" => fate'[i] = "buffer_cleared"
    BY <1>1, <1>8 DEF TypeOK
  <2>3. /\ available_capacity'[n] = available_capacity[n] - size
        /\ \A m \in Nodes \ {n} : available_capacity'[m] = available_capacity[m]
    BY <1>1, <1>8 DEF TypeOK
  <2>4. ASSUME NEW m \in Nodes
        PROVE  available_capacity'[m] + Bytes(Waiting(m)') <= available_capacity[m] + Bytes(Waiting(m))
    <3>1. available_capacity'[m] \in Int /\ available_capacity'[m] <= available_capacity[m]
      BY <1>1, <2>3
    <3> QED
      BY <1>1, <1>4, <2>1, <3>1
  <2>5. crashed' # {} /\ crashed \subseteq crashed'
    BY <1>8
  <2> QED
    BY <2>2, <2>4, <2>5 DEF BooksKept
<1> QED
  BY <1>2, <1>7, <1>8

LEMMA ForwardBooks ==
  ASSUME NetworkInv, CopyInv, TypeOK', CopyInv', NEW n \in Nodes, NEW p \in Packet,
         NEW fresh \in Nat, p.id # fresh, fate[p.id] \in {"unborn", "live"},
         \A m \in Nodes : \A b \in Waiting(m) : b.pkt.id # p.id,
         fresh \in Ids => fate[fresh] = "unborn",
         NEW caller, forward(n, p, caller, fresh), UNCHANGED <<outgoing, handled>>
  PROVE  BooksKept
<1> DEFINE hop == [p EXCEPT !.ttl = @ - 1]
           dup == [hop EXCEPT !.id = fresh]
<1>1. ASSUME NEW why, End(p, why, fresh) PROVE BooksKept
  BY <1>1, EndBooks
<1>2. ASSUME p.ttl > 1, enqueue_outbound(n, <<hop>>, caller) PROVE BooksKept
  <2>1. hop \in Packet /\ hop.id = p.id
    BY <1>2 DEF Packet
  <2> HIDE DEF hop
  <2>2. <<hop>> \in Seq(Packet) /\ Len(<<hop>>) = 1 /\ <<hop>>[1] = hop /\ 1 .. 1 = {1}
    BY <2>1
  <2>3. \A i \in 1 .. Len(<<hop>>) :
          /\ fate[<<hop>>[i].id] # "buffer_cleared" /\ <<hop>>[i].size = <<hop>>[1].size
          /\ \A m \in Nodes : \A b \in Waiting(m) : b.pkt.id # <<hop>>[i].id
    BY <2>1, <2>2
  <2>4. Len(<<hop>>) \in {1, 2} /\ Len(<<hop>>) # 2
    BY <2>2
  <2> QED
    BY <1>2, <2>2, <2>3, <2>4, EnqueueBooks
<1>3. ASSUME p.ttl > 1, fresh \in Ids, enqueue_outbound(n, <<hop, dup>>, caller) PROVE BooksKept
  <2>1. hop \in Packet /\ hop.id = p.id
    BY <1>3 DEF Packet
  <2>2. dup \in Packet /\ dup.id = fresh /\ dup.size = hop.size
    BY <1>3, <2>1 DEF Packet
  <2>3. \A m \in Nodes : \A b \in Waiting(m) : b.pkt.id # fresh
    BY <1>3, PlacesApart DEF NetworkInv
  <2> HIDE DEF hop, dup
  <2>4. /\ <<hop, dup>> \in Seq(Packet) /\ Len(<<hop, dup>>) = 2
        /\ <<hop, dup>>[1] = hop /\ <<hop, dup>>[2] = dup /\ 1 .. 2 = {1, 2}
    BY <2>1, <2>2
  <2>5. \A i \in 1 .. Len(<<hop, dup>>) :
          /\ fate[<<hop, dup>>[i].id] # "buffer_cleared" /\ <<hop, dup>>[i].size = <<hop, dup>>[1].size
          /\ \A m \in Nodes : \A b \in Waiting(m) : b.pkt.id # <<hop, dup>>[i].id
    BY <1>3, <2>1, <2>2, <2>3, <2>4
  <2>6. <<hop, dup>>[1].id # <<hop, dup>>[2].id
    BY <2>1, <2>2, <2>4
  <2> QED
    BY <1>3, <2>4, <2>5, <2>6, EnqueueBooks
<1> QED
  BY <1>1, <1>2, <1>3 DEF forward

LEMMA SendBooks ==
  ASSUME NetworkInv, CopyInv, TypeOK', CopyInv', NEW f \in Flows, send_udp(f)
  PROVE  BooksKept
<1>1. PICK p : p = [id |-> nextId, number |-> nextId, to |-> f.to, size |-> f.size,
                    ecn |-> f.ecn, ttl |-> DEFAULT_TTL]
  OBVIOUS
<1>2. /\ TypeOK /\ f.from \in Nodes /\ f.to \in Nodes /\ f.size \in Nat /\ f.ecn \in Ecn
      /\ DEFAULT_TTL \in Nat /\ nextId \in Ids /\ nextId \in Nat
  BY NetworkAssumption DEF Ecn, send_udp, TypeOK, NetworkInv
<1>3. p \in Packet /\ p.id = nextId
  BY <1>1, <1>2 DEF Packet
<1>4. /\ forward(f.from, p, <<"app", f.from>>, nextId + 1)
      /\ UNCHANGED <<outgoing, handled>>
  BY <1>1 DEF send_udp, linkVars
<1>5. /\ nextId + 1 \in Nat /\ p.id # nextId + 1 /\ fate[p.id] = "unborn"
      /\ nextId + 1 \in Ids => fate[nextId + 1] = "unborn"
  BY <1>2, <1>3 DEF CopyInv, Tracked
<1>6. \A m \in Nodes : \A b \in Waiting(m) : b.pkt.id # p.id
  BY <1>2, <1>5, PlacesApart
<1> QED
  BY <1>2, <1>3, <1>4, <1>5, <1>6, ForwardBooks

LEMMA ForwarderBooks ==
  ASSUME NetworkInv, CopyInv, TypeOK', CopyInv', NEW l \in Links, forward_packet(l)
  PROVE  BooksKept
<1>1. PICK r \in in_transit[l] :
        \/ End(r.pkt, "lost_in_transit", nextId)
        \/ forward(Target[l], r.pkt, <<"forwarder", l>>, nextId)
  BY DEF forward_packet, NextArrivals
<1>2. UNCHANGED <<outgoing, handled>> /\ TypeOK /\ Target[l] \in Nodes /\ nextId \in Nat
  BY NetworkAssumption DEF forward_packet, NetworkInv, TypeOK
<1>3. /\ r.pkt \in Packet /\ r.pkt.id \in Ids /\ fate[r.pkt.id] = "live"
      /\ \A m \in Nodes : \A b \in Waiting(m) : b.pkt.id # r.pkt.id
  BY <1>2, PlacesApart
<1>4. /\ nextId \in Ids => fate[nextId] = "unborn"
      /\ r.pkt.id # nextId
  BY <1>2, <1>3 DEF CopyInv, Tracked
<1>5. CASE End(r.pkt, "lost_in_transit", nextId)
  BY <1>2, <1>3, <1>5, EndBooks
<1>6. CASE forward(Target[l], r.pkt, <<"forwarder", l>>, nextId)
  BY <1>2, <1>3, <1>4, <1>6, ForwardBooks
<1> QED
  BY <1>1, <1>5, <1>6

\* Every step of the network keeps the books.
LEMMA StepBooks ==
  ASSUME NetworkInv, CopyInv, TypeOK', CopyInv', [Next]_vars
  PROVE  BooksKept
<1>1. ASSUME NEW f \in Flows, send_udp(f) PROVE BooksKept
  BY <1>1, SendBooks
<1>2. ASSUME NEW n \in Nodes, process_buffer(n) PROVE BooksKept
  BY <1>2, BufferTaskBooks
<1>3. ASSUME NEW l \in Links, process_link_queue(l) PROVE BooksKept
  BY <1>3, LinkTaskBooks
<1>4. ASSUME NEW l \in Links, forwarder_sleeps(l) PROVE BooksKept
  BY <1>4, QuietBooks DEF forwarder_sleeps, nodeVars
<1>5. ASSUME NEW l \in Links, forward_packet(l) PROVE BooksKept
  BY <1>5, ForwarderBooks
<1>6. ASSUME NEW e \in LinkEvents, process_link_event(e) PROVE BooksKept
  BY <1>6, QuietBooks DEF process_link_event, nodeVars
<1>7. ASSUME NEW e \in NodeEvents, process_node_event(e) PROVE BooksKept
  BY <1>7, QuietBooks DEF process_node_event
<1>8. ASSUME Tick PROVE BooksKept
  BY <1>8, QuietBooks DEF Tick, nodeVars, linkVars
<1>9. ASSUME UNCHANGED vars PROVE BooksKept
  BY <1>9, QuietBooks DEF vars, nodeVars, linkVars
<1> QED
  BY <1>1, <1>2, <1>3, <1>4, <1>5, <1>6, <1>7, <1>8, <1>9 DEF Next

LEMMA EmptyBooks == Init => BufferAccounting
<1> SUFFICES ASSUME Init PROVE BufferAccounting
  OBVIOUS
<1>1. \A n \in Nodes : Waiting(n) = {}
  <2>1. /\ \A n \in Nodes : Len(outbound[n]) = 0
        /\ \A l \in Links : Len(outgoing[l]) = 0
    BY DEF Init
  <2>2. \A l \in Links : Offered(l) = {}
    BY <2>1 DEF Offered
  <2> QED
    BY <2>1, <2>2, WaitingNow DEF IsWaiting, Entries
<1>2. Unrepeated({})
  BY DEF Unrepeated
<1>3. \A i \in Ids : BytesOf({}, i) = 0
  BY <1>2, BytesOfOne
<1>4. Bytes({}) = 0
  <2>1. /\ Bill({}) \in Seq(Int) /\ Bytes({}) = SumSeq(Bill({}))
        /\ 1 .. Len(Bill({})) = Ids /\ \A i \in Ids : Bill({})[i] = BytesOf({}, i)
    BY <1>2, BillOf DEF Ids
  <2>2. \A i \in 1 .. Len(Bill({})) : Bill({})[i] = 0
    BY <1>3, <2>1
  <2> QED
    BY <2>1, <2>2, SumOfZeros
<1>5. \A n \in Nodes : available_capacity[n] = Capacity[n] /\ Capacity[n] \in Nat
  BY NetworkAssumption DEF Init
<1>6. \A n \in Nodes : Bytes(Waiting(n)) = 0
  BY <1>1, <1>4
<1> QED
  BY <1>5, <1>6 DEF BufferAccounting

\* For every topology, capacity, traffic and schedule of events: the packets that
\* a node stores never need more than the node's buffer, each byte that reserve()
\* took is given back by the link that claims the packet, once, and none is lost
\* unless a buffer was cleared or a task crashed.
THEOREM BuffersAccounted == Spec => []BufferAccounting
<1> DEFINE Inv == NetworkInv /\ CopyInv /\ BufferAccounting
<1>1. Init => Inv
  BY NetworkInit, CopyInit, EmptyBooks
<1>2. Inv /\ [Next]_vars => Inv'
  <2> SUFFICES ASSUME NetworkInv, CopyInv, BufferAccounting, [Next]_vars PROVE Inv'
    OBVIOUS
  <2>1. NetworkInv' /\ CopyInv'
    BY NetworkStep, CopyStep
  <2>2. TypeOK'
    BY <2>1 DEF NetworkInv
  <2>3. BooksKept
    BY <2>1, <2>2, StepBooks
  <2> QED
    BY <2>1, <2>3, BooksBalance
<1> QED
  BY <1>1, <1>2, PTL DEF Spec

----------------------------------------------------------------------------
(* The report's drops *)

\* Nodes are counted once each.
LEMMA NodeOrderIs ==
  /\ Cardinality(Nodes) \in Nat
  /\ NodeOrder \in [1 .. Cardinality(Nodes) -> Nodes]
  /\ \A i, j \in 1 .. Cardinality(Nodes) : NodeOrder[i] = NodeOrder[j] => i = j
  /\ \A n \in Nodes : \E i \in 1 .. Cardinality(Nodes) : NodeOrder[i] = n
<1> DEFINE N == Cardinality(Nodes)
           S == 1 .. N
<1>1. N \in Nat /\ ExistsBijection(S, Nodes)
  BY NodesAssumption, FS_CardinalityType
<1> HIDE DEF N
<1>2. \E f \in [S -> Nodes] : IsInjective(f)
  BY <1>1 DEF ExistsBijection, Bijection, Injection
<1>3. NodeOrder = CHOOSE f \in [S -> Nodes] : IsInjective(f)
  BY DEF NodeOrder, SetToSeq, N
<1>4. NodeOrder \in [S -> Nodes] /\ IsInjective(NodeOrder)
  BY <1>2, <1>3
<1>5. NodeOrder \in Injection(S, Nodes)
  BY <1>4 DEF Injection
<1>6. Cardinality(S) = N
  BY <1>1, FS_Interval
<1>7. NodeOrder \in Surjection(S, Nodes)
  <2>1. Cardinality(S) = Cardinality(Nodes) <=> NodeOrder \in Surjection(S, Nodes)
    BY <1>5, NodesAssumption, FS_Injection
  <2> QED
    BY <1>6, <2>1 DEF N
<1>8. \A n \in Nodes : \E i \in S : NodeOrder[i] = n
  BY <1>7 DEF Surjection
<1>9. \A i, j \in S : NodeOrder[i] = NodeOrder[j] => i = j
  BY <1>4 DEF IsInjective
<1> QED
  BY <1>1, <1>4, <1>8, <1>9 DEF N

\* The sum of a counter over all nodes
Tally(D, c) == [i \in 1 .. Cardinality(Nodes) |-> D[NodeOrder[i]][c]]
Total(D, c) == SumSeq(Tally(D, c))

Drops == [Nodes -> [V!Counters -> Nat]]

\* One more drop in node n
Bump(D, n, c) == [D EXCEPT ![n] = [D[n] EXCEPT ![c] = D[n][c] + 1]]

LEMMA ReportedTotal == \A c : Reported(c) = Total(replay.dropped, c)
  BY DEF Reported, Total, Tally, SumSeq

LEMMA TallyOf ==
  ASSUME NEW D \in Drops, NEW c \in V!Counters
  PROVE  /\ Tally(D, c) \in Seq(Int) /\ Len(Tally(D, c)) = Cardinality(Nodes)
         /\ \A i \in 1 .. Cardinality(Nodes) : Tally(D, c)[i] = D[NodeOrder[i]][c]
         /\ Total(D, c) \in Int
<1>1. \A i \in 1 .. Cardinality(Nodes) : D[NodeOrder[i]][c] \in Int
  BY NodeOrderIs DEF Drops
<1>2. /\ Tally(D, c) \in Seq(Int) /\ Len(Tally(D, c)) = Cardinality(Nodes)
      /\ \A i \in 1 .. Cardinality(Nodes) : Tally(D, c)[i] = D[NodeOrder[i]][c]
  BY <1>1, NodeOrderIs DEF Tally
<1>3. Total(D, c) \in Int
  BY <1>2, SumType DEF Total
<1> QED
  BY <1>2, <1>3

LEMMA BumpTotal ==
  ASSUME NEW D \in Drops, NEW n \in Nodes, NEW k \in V!Counters, NEW c \in V!Counters
  PROVE  /\ Bump(D, n, k) \in Drops
         /\ Total(Bump(D, n, k), c) = Total(D, c) + (IF c = k THEN 1 ELSE 0)
<1> DEFINE E == Bump(D, n, k)
<1>1. /\ E \in Drops /\ D[n][k] \in Nat /\ D[n][c] \in Nat
      /\ \A m \in Nodes : m # n => E[m] = D[m]
      /\ E[n][c] = IF c = k THEN D[n][c] + 1 ELSE D[n][c]
  BY DEF Bump, Drops
<1> HIDE DEF E
<1>2. PICK x \in 1 .. Cardinality(Nodes) : NodeOrder[x] = n
  BY NodeOrderIs
<1>3. /\ Tally(D, c) \in Seq(Int) /\ Len(Tally(D, c)) = Cardinality(Nodes)
      /\ \A i \in 1 .. Cardinality(Nodes) : Tally(D, c)[i] = D[NodeOrder[i]][c]
      /\ Total(D, c) \in Int
  BY TallyOf
<1>4. /\ Tally(E, c) \in Seq(Int) /\ Len(Tally(E, c)) = Cardinality(Nodes)
      /\ \A i \in 1 .. Cardinality(Nodes) : Tally(E, c)[i] = E[NodeOrder[i]][c]
  BY <1>1, TallyOf
<1>5. \A i \in 1 .. Cardinality(Nodes) : i # x => Tally(E, c)[i] = Tally(D, c)[i]
  <2> SUFFICES ASSUME NEW i \in 1 .. Cardinality(Nodes), i # x
               PROVE  Tally(E, c)[i] = Tally(D, c)[i]
    OBVIOUS
  <2>1. NodeOrder[i] \in Nodes /\ NodeOrder[i] # n
    BY <1>2, NodeOrderIs
  <2> QED
    BY <1>1, <1>3, <1>4, <2>1
<1>6. SumSeq(Tally(E, c)) = SumSeq(Tally(D, c)) - Tally(D, c)[x] + Tally(E, c)[x]
  <2>1. Len(Tally(E, c)) = Len(Tally(D, c)) /\ x \in 1 .. Len(Tally(D, c))
    BY <1>2, <1>3, <1>4
  <2>2. \A i \in 1 .. Len(Tally(D, c)) : i # x => Tally(E, c)[i] = Tally(D, c)[i]
    BY <1>3, <1>5
  <2> QED
    BY <1>3, <1>4, <2>1, <2>2, SumUpdate
<1>7. Tally(D, c)[x] = D[n][c] /\ Tally(E, c)[x] = E[n][c]
  BY <1>2, <1>3, <1>4
<1> QED
  BY <1>1, <1>3, <1>6, <1>7 DEF Total, E

\* The packets that ended for one of the reasons whys
Gone(f, whys) == {i \in Ids : f[i] \in whys}

\* The reasons that the report counts
Counted == DropReasons \union {"node_down"}

LEMMA OneEnds ==
  ASSUME NEW f \in [Ids -> Fates], NEW i \in Ids, f[i] \notin Counted, NEW why \in Fates,
         NEW whys \in SUBSET Counted
  PROVE  LET g == [f EXCEPT ![i] = why]
         IN  /\ Cardinality(Gone(g, whys)) =
                  Cardinality(Gone(f, whys)) + (IF why \in whys THEN 1 ELSE 0)
             /\ Cardinality(Gone(f, whys)) \in Nat
<1> DEFINE g == [f EXCEPT ![i] = why]
           S == Gone(f, whys)
<1>1. IsFiniteSet(S) /\ Cardinality(S) \in Nat
  <2>1. IsFiniteSet(Ids)
    BY NetworkAssumption, FS_Interval DEF Ids
  <2>2. S \in SUBSET Ids
    BY DEF Gone
  <2> QED
    BY <2>1, <2>2, FS_Subset, FS_CardinalityType
<1>2. i \notin S
  BY DEF Gone
<1>3. CASE why \in whys
  <2>1. Gone(g, whys) = S \union {i}
    BY <1>3 DEF Gone
  <2> QED
    BY <1>1, <1>2, <1>3, <2>1, FS_AddElement
<1>4. CASE why \notin whys
  <2>1. Gone(g, whys) = S
    BY <1>2, <1>4 DEF Gone
  <2> QED
    BY <1>1, <1>4, <2>1
<1> QED
  BY <1>3, <1>4

\* The packets, of those in T, that a node refused
Refused(f, T) == {i \in Ids : f[i] = "node_down" /\ i \in T}

\* One packet more ends; if it is refused and in T, it is one more of those.
LEMMA OneRefused ==
  ASSUME NEW f \in [Ids -> Fates], NEW T, NEW i \in Ids, f[i] \notin Counted, NEW why \in Fates
  PROVE  /\ Cardinality(Refused([f EXCEPT ![i] = why], T)) =
              Cardinality(Refused(f, T)) + (IF why = "node_down" /\ i \in T THEN 1 ELSE 0)
         /\ Cardinality(Refused(f, T)) \in Nat
<1> DEFINE g == [f EXCEPT ![i] = why]
           S == Refused(f, T)
<1>1. IsFiniteSet(S) /\ Cardinality(S) \in Nat
  <2>1. IsFiniteSet(Ids)
    BY NetworkAssumption, FS_Interval DEF Ids
  <2>2. S \in SUBSET Ids
    BY DEF Refused
  <2> QED
    BY <2>1, <2>2, FS_Subset, FS_CardinalityType
<1>2. i \notin S
  BY DEF Refused, Counted
<1>3. CASE why = "node_down" /\ i \in T
  <2>1. Refused(g, T) = S \union {i}
    BY <1>3 DEF Refused
  <2> QED
    BY <1>1, <1>2, <1>3, <2>1, FS_AddElement
<1>4. CASE ~(why = "node_down" /\ i \in T)
  <2>1. Refused(g, T) = S
    BY <1>2, <1>4 DEF Refused
  <2> QED
    BY <1>1, <1>4, <2>1
<1> QED
  BY <1>3, <1>4

\* DropsCounted, of the counters D, the fates f and the packets T that were taken
Agree(D, f, T) ==
  /\ Total(D, "injected") + Total(D, "zero_ttl") = Cardinality(Gone(f, {"random", "zero_ttl"}))
  /\ Total(D, "buffer_full") = Cardinality(Gone(f, {"buffer_full"}))
  /\ Total(D, "buffer_cleared") = Cardinality(Gone(f, {"buffer_cleared"}))
  /\ Total(D, "down") = Cardinality(Refused(f, T))

\* Packets that are not refused may be taken.
LEMMA MoreTaken ==
  ASSUME NEW D, NEW f, NEW T, NEW U, Agree(D, f, T), T \subseteq U,
         \A i \in Ids : i \in U \ T => f[i] # "node_down"
  PROVE  Agree(D, f, U)
<1>1. Refused(f, U) = Refused(f, T)
  BY DEF Refused
<1> QED
  BY <1>1 DEF Agree

LEMMA CountedNow == DropsCounted <=> Agree(replay.dropped, fate, Taken)
<1>1. \A whys : Ended(whys) = Cardinality(Gone(fate, whys))
  BY DEF Ended, Gone
<1>2. RefusedOnArrival = Refused(fate, Taken)
  BY DEF RefusedOnArrival, Refused
<1> QED
  BY <1>1, <1>2, ReportedTotal DEF DropsCounted, Agree

LEMMA CountedNext == DropsCounted' <=> Agree(replay'.dropped, fate', Taken')
<1>1. (DropsCounted <=> Agree(replay.dropped, fate, Taken))'
  BY CountedNow, PTL
<1> QED
  BY <1>1

\* A packet that ends for a reason is counted under it, and a packet that is
\* refused is counted if it was taken.
LEMMA EndCounted ==
  ASSUME NEW D \in Drops, NEW f \in [Ids -> Fates], NEW T, Agree(D, f, T), NEW n \in Nodes,
         NEW i \in Ids, f[i] \notin Counted, NEW why \in Fates
  PROVE  /\ why \in DropReasons => Agree(Bump(D, n, V!counter(why)), [f EXCEPT ![i] = why], T)
         /\ why \notin Counted => Agree(D, [f EXCEPT ![i] = why], T)
         /\ why = "node_down" => Agree(IF i \in T THEN Bump(D, n, "down") ELSE D, [f EXCEPT ![i] = why], T)
<1> DEFINE g == [f EXCEPT ![i] = why]
           k == IF why = "node_down" THEN "down" ELSE V!counter(why)
           E == Bump(D, n, k)
           C(h, whys) == Cardinality(Gone(h, whys))
           R(h) == Cardinality(Refused(h, T))
<1>1. /\ {"random", "zero_ttl"} \in SUBSET Counted /\ {"buffer_full"} \in SUBSET Counted
      /\ {"buffer_cleared"} \in SUBSET Counted
  BY DEF Counted, DropReasons
<1>2. \A whys \in SUBSET Counted :
        C(g, whys) = C(f, whys) + (IF why \in whys THEN 1 ELSE 0) /\ C(f, whys) \in Nat
  BY OneEnds
<1>3. R(g) = R(f) + (IF why = "node_down" /\ i \in T THEN 1 ELSE 0) /\ R(f) \in Nat
  BY OneRefused
<1>4. why \in Counted => k \in V!Counters
  BY DEF Counted, DropReasons, V!counter, V!Counters
<1>5. why \in Counted => \A c \in V!Counters : Total(E, c) = Total(D, c) + (IF c = k THEN 1 ELSE 0)
  BY <1>4, BumpTotal
<1>6. /\ {"injected", "zero_ttl", "buffer_full", "buffer_cleared", "down"} \subseteq V!Counters
      /\ \A c \in V!Counters : Total(D, c) \in Int
  BY TallyOf DEF V!Counters
<1>7. /\ Total(D, "injected") + Total(D, "zero_ttl") = C(f, {"random", "zero_ttl"})
      /\ Total(D, "buffer_full") = C(f, {"buffer_full"})
      /\ Total(D, "buffer_cleared") = C(f, {"buffer_cleared"})
      /\ Total(D, "down") = R(f)
  BY DEF Agree
<1> HIDE DEF g, E, C, R
<1>8. ASSUME why \in Counted, why = "node_down" => i \in T PROVE Agree(E, g, T)
  <2>1. /\ k # "zero_ttl"
        /\ k = "injected" <=> why \in {"random", "zero_ttl"}
        /\ k = "buffer_full" <=> why = "buffer_full"
        /\ k = "buffer_cleared" <=> why = "buffer_cleared"
        /\ k = "down" <=> why = "node_down"
    BY <1>8 DEF V!counter, Counted, DropReasons
  <2> HIDE DEF k
  <2>2. Total(E, "injected") + Total(E, "zero_ttl") = C(g, {"random", "zero_ttl"})
    BY <1>1, <1>2, <1>5, <1>6, <1>7, <1>8, <2>1
  <2>3. Total(E, "buffer_full") = C(g, {"buffer_full"})
    BY <1>1, <1>2, <1>5, <1>6, <1>7, <1>8, <2>1
  <2>4. Total(E, "buffer_cleared") = C(g, {"buffer_cleared"})
    BY <1>1, <1>2, <1>5, <1>6, <1>7, <1>8, <2>1
  <2>5. Total(E, "down") = R(g)
    BY <1>3, <1>5, <1>6, <1>7, <1>8, <2>1
  <2> QED
    BY <2>2, <2>3, <2>4, <2>5 DEF Agree, C, R
<1>9. ASSUME why \notin DropReasons, why = "node_down" => i \notin T PROVE Agree(D, g, T)
  <2>1. why \notin {"random", "zero_ttl"} /\ why \notin {"buffer_full"} /\ why \notin {"buffer_cleared"}
    BY <1>9 DEF DropReasons
  <2>2. /\ C(g, {"random", "zero_ttl"}) = C(f, {"random", "zero_ttl"})
        /\ C(g, {"buffer_full"}) = C(f, {"buffer_full"})
        /\ C(g, {"buffer_cleared"}) = C(f, {"buffer_cleared"})
    BY <1>1, <1>2, <2>1
  <2>3. R(g) = R(f)
    BY <1>3, <1>9
  <2> QED
    BY <1>7, <2>2, <2>3 DEF Agree, C, R
<1>10. why \in DropReasons => why \in Counted /\ why # "node_down" /\ k = V!counter(why)
  BY DEF Counted, DropReasons
<1>11. why = "node_down" => why \in Counted /\ why \notin DropReasons /\ k = "down"
  BY DEF Counted, DropReasons
<1>12. why \notin Counted => why \notin DropReasons /\ why # "node_down"
  BY DEF Counted
<1> QED
  BY <1>8, <1>9, <1>10, <1>11, <1>12 DEF g, E

----------------------------------------------------------------------------
(* What each step of the verifier counts *)

\* The counters stay as they are, and a fatal error stays.
SameDrops(v, w) == w \in Verifier /\ w.dropped = v.dropped /\ (v.fatal => w.fatal)

LEMMA TrackDrops ==
  ASSUME NEW v \in Verifier, NEW wrong, NEW error \in ErrorKinds
  PROVE  SameDrops(v, V!Track(v, wrong, error))
BY DEF SameDrops, V!Track, Verifier

LEMMA StoreDrops ==
  ASSUME NEW v \in Verifier, NEW n \in Nodes, NEW P \in SUBSET StoredPacket
  PROVE  SameDrops(v, [v EXCEPT !.node = [v.node EXCEPT ![n] = [v.node[n] EXCEPT !.packets = P]]])
BY ZenonT(60) DEF SameDrops, Verifier

LEMMA FatalDrops ==
  ASSUME NEW v \in Verifier
  PROVE  SameDrops(v, V!Fatal(v)) /\ V!Fatal(v).fatal
BY DEF SameDrops, V!Fatal, Verifier

LEMMA AddDrops ==
  ASSUME NEW v \in Verifier, NEW n \in Nodes, NEW id \in Ids, NEW size \in Nat, NEW t \in Nat
  PROVE  SameDrops(v, V!add_packet_to_buffer(v, n, id, size, t))
<1> DEFINE w == V!Track(v, ~v.node[n].up, "NodeDownPacketReceive")
           q == [id |-> id, size |-> size, arrived_at |-> t]
           P == w.node[n].packets \union {q}
           x == [w EXCEPT !.node = [w.node EXCEPT ![n] = [w.node[n] EXCEPT !.packets = P]]]
           a == V!add_packet_to_buffer(v, n, id, size, t)
<1>1. SameDrops(v, w)
  BY TrackDrops DEF ErrorKinds
<1>2. q \in StoredPacket
  BY DEF StoredPacket
<1>3. a = V!Fatal(w) \/ a = x
  BY DEF V!add_packet_to_buffer
<1> HIDE DEF w, q, a
<1>4. w \in Verifier
  BY <1>1 DEF SameDrops
<1>5. P \in SUBSET StoredPacket
  BY <1>2, <1>4 DEF Verifier
<1> HIDE DEF P
<1>6. SameDrops(w, V!Fatal(w)) /\ SameDrops(w, x)
  BY <1>4, <1>5, FatalDrops, StoreDrops
<1> HIDE DEF x
<1>7. SameDrops(v, a)
  BY <1>1, <1>3, <1>6 DEF SameDrops
<1> QED
  BY <1>7 DEF a

LEMMA RemoveDrops ==
  ASSUME NEW v \in Verifier, NEW n \in Nodes, NEW id
  PROVE  SameDrops(v, V!remove_packet_from_buffer(v, n, id))
<1> DEFINE P == {q \in v.node[n].packets : q.id # id}
           x == [v EXCEPT !.node = [v.node EXCEPT ![n] = [v.node[n] EXCEPT !.packets = P]]]
           a == V!remove_packet_from_buffer(v, n, id)
<1>1. P \in SUBSET StoredPacket
  BY DEF Verifier
<1>2. v.node[n].packets \ {q \in v.node[n].packets : q.id = id} = P
  OBVIOUS
<1>3. a = V!Fatal(v) \/ a = x
  BY <1>2, ZenonT(60) DEF V!remove_packet_from_buffer, V!WithId
<1> HIDE DEF P, a
<1>4. SameDrops(v, V!Fatal(v)) /\ SameDrops(v, x)
  BY <1>1, FatalDrops, StoreDrops
<1> HIDE DEF x
<1> QED
  BY <1>3, <1>4 DEF a

LEMMA CountDrops ==
  ASSUME NEW v \in Verifier, NEW n \in Nodes, NEW c \in V!Counters
  PROVE  LET w == V!Count(v, n, c)
         IN  w \in Verifier /\ w.dropped = Bump(v.dropped, n, c) /\ w.fatal = v.fatal
<1>1. v.dropped \in Drops
  BY DEF Verifier, Drops
<1>2. Bump(v.dropped, n, c) \in Drops
  BY <1>1, BumpTotal
<1>3. V!Count(v, n, c) = [v EXCEPT !.dropped = Bump(v.dropped, n, c)]
  BY DEF V!Count, Bump
<1> QED
  BY <1>2, <1>3 DEF Verifier, Drops

LEMMA DroppedDrops ==
  ASSUME NEW v \in Verifier, NEW n \in Nodes, NEW id, NEW reason \in DropReasons
  PROVE  LET w == V!PacketDropped(v, n, id, reason)
         IN  /\ w \in Verifier /\ (v.fatal => w.fatal)
             /\ ~w.fatal => w.dropped = Bump(v.dropped, n, V!counter(reason))
<1> DEFINE r == V!remove_packet_from_buffer(v, n, id)
           c == V!counter(reason)
           w == V!PacketDropped(v, n, id, reason)
<1>1. SameDrops(v, r)
  BY RemoveDrops
<1>2. c \in V!Counters
  BY DEF V!counter, V!Counters, DropReasons
<1>3. w = IF v.fatal THEN v ELSE IF r.fatal THEN r ELSE V!Count(r, n, c)
  BY DEF V!PacketDropped, V!TryFatal
<1> HIDE DEF r, c, w
<1>4. r \in Verifier /\ r.dropped = v.dropped
  BY <1>1 DEF SameDrops
<1>5. /\ V!Count(r, n, c) \in Verifier /\ V!Count(r, n, c).dropped = Bump(v.dropped, n, c)
      /\ V!Count(r, n, c).fatal = r.fatal
  BY <1>2, <1>4, CountDrops
<1>6. w \in Verifier /\ (v.fatal => w.fatal) /\ (~w.fatal => w.dropped = Bump(v.dropped, n, c))
  BY <1>3, <1>4, <1>5
<1> QED
  BY <1>6 DEF c, w

LEMMA ReceivedDrops ==
  ASSUME NEW v \in Verifier, NEW n \in Nodes, NEW p, p.id \in Ids, p.size \in Nat,
         NEW t \in Nat, NEW refused \in BOOLEAN, ~v.fatal
  PROVE  LET w       == V!PacketInNode(v, n, p, refused, t)
             counted == refused /\ V!WithId(v.in_flight, p.id) # {}
         IN  /\ w \in Verifier
             /\ counted => w.dropped = Bump(v.dropped, n, "down")
             /\ ~counted => w.dropped = v.dropped
<1> DEFINE arriving == V!WithId(v.in_flight, p.id)
           f  == CHOOSE q \in arriving : TRUE
           v1 == [v EXCEPT !.in_flight = @ \ arriving]
           lost    == n # Target[f.link]
           early   == t - f.sent_at < Delay[f.link]
           offline == V!down_since(v, f)
           v2 == V!Track(v1, lost, "DisconnectedPacketReceive")
           v3 == V!Track(v2, early, "TooFastPacketReceive")
           v4 == V!Track(v3, offline, "OfflinePacketReceive")
           k  == V!Count(v4, n, "down")
           x  == V!Track(k, v4.node[n].up, "NodeUpPacketDroppedOnArrival")
           a  == V!add_packet_to_buffer(v, n, p.id, p.size, t)
           b  == V!add_packet_to_buffer(v4, n, p.id, p.size, t)
           w  == V!PacketInNode(v, n, p, refused, t)
           counted == refused /\ arriving # {}
<1>1. (counted => w = x) /\ (~counted => w \in {a, b})
  BY DEF V!PacketInNode, V!TryFatal, V!packet_received
<1>2. counted <=> refused /\ V!WithId(v.in_flight, p.id) # {}
  OBVIOUS
<1>3. SameDrops(v, v1)
  BY DEF SameDrops, Verifier
<1>4. SameDrops(v, a)
  BY AddDrops
<1>5. /\ "DisconnectedPacketReceive" \in ErrorKinds /\ "TooFastPacketReceive" \in ErrorKinds
      /\ "OfflinePacketReceive" \in ErrorKinds /\ "NodeUpPacketDroppedOnArrival" \in ErrorKinds
      /\ "down" \in V!Counters
  BY DEF ErrorKinds, V!Counters
<1> HIDE DEF arriving, f, v1, lost, early, offline, w, a, counted
<1>6. SameDrops(v1, v2)
  BY <1>3, <1>5, TrackDrops DEF SameDrops
<1> HIDE DEF v2
<1>7. SameDrops(v2, v3)
  BY <1>5, <1>6, TrackDrops DEF SameDrops
<1> HIDE DEF v3
<1>8. SameDrops(v3, v4)
  BY <1>5, <1>7, TrackDrops DEF SameDrops
<1> HIDE DEF v4
<1>9. v4 \in Verifier /\ v4.dropped = v.dropped
  BY <1>3, <1>6, <1>7, <1>8 DEF SameDrops
<1>10. SameDrops(v4, b)
  BY <1>9, AddDrops
<1>11. k \in Verifier /\ k.dropped = Bump(v.dropped, n, "down")
  BY <1>5, <1>9, CountDrops
<1> HIDE DEF k, b
<1>12. SameDrops(k, x)
  BY <1>5, <1>11, TrackDrops
<1> HIDE DEF x
<1>13. CASE counted
  <2>1. w \in Verifier /\ w.dropped = Bump(v.dropped, n, "down")
    BY <1>1, <1>11, <1>12, <1>13 DEF SameDrops
  <2> QED
    BY <1>2, <1>13, <2>1 DEF w
<1>14. CASE ~counted
  <2>1. w \in Verifier /\ w.dropped = v.dropped
    BY <1>1, <1>4, <1>9, <1>10, <1>14 DEF SameDrops
  <2> QED
    BY <1>2, <1>14, <2>1 DEF w
<1> QED
  BY <1>13, <1>14

LEMMA OtherSteps ==
  ASSUME NEW v \in Verifier
  PROVE  /\ \A id : V!PacketLostInTransit(v, id).dropped = v.dropped
         /\ \A l \in Links : \A status, t : V!LinkEvent(v, l, status, t).dropped = v.dropped
         /\ \A n \in Nodes : \A status, clear, t : V!NodeEvent(v, n, status, clear, t).dropped = v.dropped
         /\ V!update_max_buffer_usage(v).dropped = v.dropped
<1>1. ASSUME NEW id PROVE V!PacketLostInTransit(v, id).dropped = v.dropped
  <2>1. "MissingLostPacket" \in ErrorKinds
    BY DEF ErrorKinds
  <2> DEFINE wrong == V!WithId(v.in_flight, id) = {}
             w == V!Track(v, wrong, "MissingLostPacket")
  <2>2. V!PacketLostInTransit(v, id) \in {v, [w EXCEPT !.in_flight = w.in_flight \ V!WithId(w.in_flight, id)]}
    BY DEF V!PacketLostInTransit, V!TryFatal
  <2> HIDE DEF wrong
  <2>3. SameDrops(v, w)
    BY <2>1, TrackDrops
  <2> HIDE DEF w
  <2> QED
    BY <2>2, <2>3 DEF SameDrops, Verifier
<1>2. \A l \in Links : \A status, t : V!LinkEvent(v, l, status, t).dropped = v.dropped
  BY DEF V!LinkEvent, V!TryFatal, Verifier
<1>3. \A n \in Nodes : \A status, clear, t : V!NodeEvent(v, n, status, clear, t).dropped = v.dropped
  BY DEF V!NodeEvent, V!TryFatal, Verifier
<1>4. V!update_max_buffer_usage(v).dropped = v.dropped
  <2> DEFINE wrong == \E n \in Nodes : V!buffer_usage(v, n) > Capacity[n]
  <2>1. V!update_max_buffer_usage(v) \in {v, V!Track(v, wrong, "NodeExceedsBufferSize")}
    BY DEF V!update_max_buffer_usage, V!TryFatal
  <2> HIDE DEF wrong
  <2>2. SameDrops(v, V!Track(v, wrong, "NodeExceedsBufferSize"))
    BY TrackDrops DEF ErrorKinds
  <2> QED
    BY <2>1, <2>2 DEF SameDrops
<1> QED
  BY <1>1, <1>2, <1>3, <1>4

LEMMA InTransitDrops ==
  ASSUME NEW v \in Verifier, NEW n \in Nodes, NEW l, NEW p, NEW t
  PROVE  V!PacketInTransit(v, n, l, p, t).dropped = v.dropped
<1> DEFINE down  == ~v.node[n].up
           old   == \E q \in V!WithId(v.node[n].packets, p.id) : V!survived(v, n, q)
           far   == n # Source[l]
           off   == ~v.link[l].up
           w     == V!Track(v, down, "NodeDownPacketSend")
           r     == V!remove_packet_from_buffer(w, n, p.id)
           v1    == V!Track(r, old, "PacketSurvivedBufferCorruption")
           v2    == V!Track(v1, far, "DisconnectedPacketSend")
           v3    == V!Track(v2, off, "OfflinePacketSend")
           F     == (v3.in_flight \ V!WithId(v3.in_flight, p.id)) \union
                      {[id |-> p.id, size |-> p.size, sent_at |-> t, link |-> l]}
<1>1. V!PacketInTransit(v, n, l, p, t) \in {v, v1, [v3 EXCEPT !.in_flight = F]}
  BY DEF V!PacketInTransit, V!packet_sent, V!TryFatal
<1>2. /\ "NodeDownPacketSend" \in ErrorKinds /\ "PacketSurvivedBufferCorruption" \in ErrorKinds
      /\ "DisconnectedPacketSend" \in ErrorKinds /\ "OfflinePacketSend" \in ErrorKinds
  BY DEF ErrorKinds
<1> HIDE DEF down, old, far, off
<1>3. SameDrops(v, w)
  BY <1>2, TrackDrops
<1> HIDE DEF w
<1>4. SameDrops(w, r)
  BY <1>3, RemoveDrops DEF SameDrops
<1> HIDE DEF r
<1>5. SameDrops(r, v1)
  BY <1>2, <1>4, TrackDrops DEF SameDrops
<1> HIDE DEF v1
<1>6. SameDrops(v1, v2)
  BY <1>2, <1>5, TrackDrops DEF SameDrops
<1> HIDE DEF v2
<1>7. SameDrops(v2, v3)
  BY <1>2, <1>6, TrackDrops DEF SameDrops
<1> HIDE DEF v3, F
<1>8. v3 \in Verifier /\ v3.dropped = v.dropped /\ v1.dropped = v.dropped
  BY <1>3, <1>4, <1>5, <1>6, <1>7 DEF SameDrops
<1>9. [v3 EXCEPT !.in_flight = F].dropped = v3.dropped
  BY <1>8 DEF Verifier
<1> QED
  BY <1>1, <1>8, <1>9

\* The steps that forward() records
LEMMA ForwardedCounted ==
  ASSUME fate \in [Ids -> Fates], fate' \in [Ids -> Fates], now \in Nat,
         replay \in Verifier, ~replay.fatal, ~replay'.fatal, Agree(replay.dropped, fate, Taken),
         NEW n \in Nodes, NEW p \in Packet, NEW fresh, p.id # fresh, fate[p.id] \notin Counted,
         fresh \in Ids => fate[fresh] = "unborn", Settled(n, p, fresh),
         NEW z, z.id = p.id, z.size = p.size,
         [z EXCEPT !.id = fresh].id = fresh, [z EXCEPT !.id = fresh].size = p.size,
         Forwarded(n, z, fresh), V!WithId(replay.in_flight, p.id) # {} <=> p.id \in Taken
  PROVE  Agree(replay'.dropped, fate', Taken)
<1> DEFINE D     == replay.dropped
           down  == ~nodeUp[n]
           v     == V!PacketInNode(replay, n, z, down, now)
           why   == fate'[p.id]
           w     == IF nodeUp[n] THEN Dropped(v, n, p.id) ELSE v
           d     == [z EXCEPT !.id = fresh]
           x     == V!PacketDuplicated(w, n, d, now)
           twice == fresh \in Ids /\ fate'[fresh] # "unborn"
           f1    == [fate EXCEPT ![p.id] = why]
<1>1. p.id \in Ids /\ p.size \in Nat /\ why \in Fates /\ D \in Drops
  BY DEF Packet, Verifier, Drops
<1>2. replay' = IF twice THEN Dropped(x, n, fresh) ELSE w
  BY DEF Forwarded
<1>3. /\ v \in Verifier
      /\ down /\ p.id \in Taken => v.dropped = Bump(D, n, "down")
      /\ ~(down /\ p.id \in Taken) => v.dropped = D
  <2>1. z.id \in Ids /\ z.size \in Nat /\ (V!WithId(replay.in_flight, z.id) # {} <=> p.id \in Taken)
    BY <1>1
  <2> HIDE DEF down
  <2>2. /\ v \in Verifier
        /\ down /\ V!WithId(replay.in_flight, z.id) # {} => v.dropped = Bump(replay.dropped, n, "down")
        /\ ~(down /\ V!WithId(replay.in_flight, z.id) # {}) => v.dropped = replay.dropped
    <3>1. replay \in Verifier /\ n \in Nodes /\ z.id \in Ids /\ z.size \in Nat /\ now \in Nat /\ ~replay.fatal
      BY <2>1
    <3>2. down \in BOOLEAN
      BY DEF down
    <3> QED
      BY ONLY <3>1, <3>2, ReceivedDrops, ZenonT(180)
  <2> QED
    BY <2>1, <2>2
<1>4. v.dropped \in Drops
  BY <1>3 DEF Verifier, Drops
<1>5. /\ why = "node_down" <=> down
      /\ fresh \in Ids /\ down => ~twice
      /\ \A i \in Ids : i # p.id /\ i # fresh => fate'[i] = fate[i]
  BY DEF Settled
<1>6. /\ why \in DropReasons => why # "node_down"
      /\ why \notin DropReasons /\ why # "node_down" => why \notin Counted
  BY DEF DropReasons, Counted
<1>7. f1 \in [Ids -> Fates] /\ f1[p.id] = why /\ \A i \in Ids \ {p.id} : f1[i] = fate[i]
  BY <1>1
<1>8. /\ why \in DropReasons => Agree(Bump(D, n, V!counter(why)), f1, Taken)
      /\ why \notin Counted => Agree(D, f1, Taken)
      /\ why = "node_down" => Agree(IF p.id \in Taken THEN Bump(D, n, "down") ELSE D, f1, Taken)
  <2> HIDE DEF D, why
  <2> QED
    BY <1>1, EndCounted DEF D
<1>9. nodeUp[n] => w = IF why \in DropReasons THEN V!PacketDropped(v, n, p.id, why) ELSE v
  BY DEF Dropped
<1> HIDE DEF v, why, f1, D
<1>10. w \in Verifier /\ (~w.fatal => Agree(w.dropped, f1, Taken))
  <2>1. CASE down
    BY <1>3, <1>5, <1>6, <1>8, <2>1
  <2>2. CASE ~down /\ why \in DropReasons
    <3> DEFINE u == V!PacketDropped(v, n, p.id, why)
    <3>1. w = u /\ v.dropped = D
      BY <1>3, <1>9, <2>2
    <3> HIDE DEF w, u
    <3>2. u \in Verifier /\ (~u.fatal => u.dropped = Bump(v.dropped, n, V!counter(why)))
      BY <1>3, <2>2, DroppedDrops DEF u
    <3> QED
      BY <1>8, <2>2, <3>1, <3>2
  <2>3. CASE ~down /\ why \notin DropReasons
    BY <1>3, <1>5, <1>6, <1>8, <1>9, <2>3
  <2> QED
    BY <2>1, <2>2, <2>3
<1> HIDE DEF w
<1>11. CASE ~twice
  <2>1. fate' = f1
    <3>1. \A i \in Ids : fate'[i] = f1[i]
      BY <1>5, <1>7, <1>11 DEF why
    <3> QED
      BY <1>7, <3>1
  <2> QED
    BY <1>2, <1>10, <1>11, <2>1
<1>12. CASE twice
  <2> DEFINE y  == fate'[fresh]
             u  == V!PacketDropped(x, n, fresh, y)
             f2 == [f1 EXCEPT ![fresh] = y]
  <2>1. fresh \in Ids /\ y \in Fates
    BY <1>12
  <2>2. f2 = fate'
    <3>1. f2 \in [Ids -> Fates] /\ f2[fresh] = y /\ \A i \in Ids \ {fresh} : f2[i] = f1[i]
      BY <1>7, <2>1
    <3>2. \A i \in Ids : fate'[i] = f2[i]
      BY <1>5, <1>7, <3>1 DEF why
    <3> QED
      BY <3>1, <3>2
  <2>3. f1[fresh] \notin Counted
    BY <1>7, <2>1 DEF Counted, DropReasons
  <2>4. SameDrops(w, x)
    <3>1. d.id \in Ids /\ d.size \in Nat
      BY <1>1, <2>1
    <3> DEFINE a == V!add_packet_to_buffer(w, n, d.id, d.size, now)
    <3>2. x \in {w, a} /\ (w.fatal => x = w)
      BY DEF V!PacketDuplicated, V!TryFatal
    <3> HIDE DEF x, d
    <3>3. SameDrops(w, a)
      BY <1>10, <3>1, AddDrops
    <3> HIDE DEF a
    <3> QED
      BY <1>10, <3>2, <3>3 DEF SameDrops
  <2>5. replay' = IF y \in DropReasons THEN u ELSE x
    BY <1>2, <1>12 DEF Dropped
  <2> HIDE DEF x, y, f2
  <2>6. /\ x \in Verifier /\ x.dropped = w.dropped /\ (w.fatal => x.fatal) /\ x.dropped \in Drops
    BY <2>4 DEF SameDrops, Verifier, Drops
  <2>7. y \in DropReasons => /\ u \in Verifier /\ (x.fatal => u.fatal)
                             /\ ~u.fatal => u.dropped = Bump(x.dropped, n, V!counter(y))
    BY <2>6, DroppedDrops
  <2> HIDE DEF u
  <2>8. /\ ~w.fatal
        /\ replay'.dropped = IF y \in DropReasons THEN Bump(x.dropped, n, V!counter(y)) ELSE x.dropped
    BY <2>5, <2>6, <2>7
  <2>9. Agree(x.dropped, f1, Taken) /\ (y \in DropReasons \/ y \notin Counted)
    <3>1. y # "node_down"
      BY <2>1 DEF Settled, y
    <3> QED
      BY <1>10, <2>6, <2>8, <3>1 DEF Counted
  <2>10. Agree(IF y \in DropReasons THEN Bump(x.dropped, n, V!counter(y)) ELSE x.dropped, f2, Taken)
    <3> DEFINE X == x.dropped
    <3>1. X \in Drops /\ Agree(X, f1, Taken)
      BY <2>6, <2>9
    <3> HIDE DEF X
    <3>2. /\ y \in DropReasons => Agree(Bump(X, n, V!counter(y)), [f1 EXCEPT ![fresh] = y], Taken)
          /\ y \notin Counted => Agree(X, [f1 EXCEPT ![fresh] = y], Taken)
      BY <1>7, <2>1, <2>3, <3>1, EndCounted
    <3> QED
      BY <2>9, <3>2 DEF X, f2
  <2> QED
    BY <2>2, <2>8, <2>10
<1> QED
  BY <1>11, <1>12

\* A step that counts nothing: a packet may be lost on its way, or stranded.
LEMMA NothingCounted ==
  ASSUME fate \in [Ids -> Fates], Agree(replay.dropped, fate, Taken), replay \in Verifier,
         NEW n \in Nodes, replay'.dropped = replay.dropped,
         \/ fate' = fate
         \/ \E i \in Ids, why \in Fates \ Counted :
              fate[i] \notin Counted /\ fate' = [fate EXCEPT ![i] = why]
  PROVE  Agree(replay'.dropped, fate', Taken)
<1> DEFINE D == replay.dropped
<1>1. D \in Drops
  BY DEF Verifier, Drops
<1>2. CASE fate' = fate
  BY <1>2
<1>3. CASE fate' # fate
  <2>1. PICK i \in Ids, why \in Fates \ Counted :
          fate[i] \notin Counted /\ fate' = [fate EXCEPT ![i] = why]
    BY <1>3
  <2> QED
    BY <1>1, <2>1, EndCounted
<1> QED
  BY <1>2, <1>3

LEMMA SendCounted ==
  ASSUME NetworkInv, CopyInv, ReplayInv, NetworkInv', ReplayInv', Agree(replay.dropped, fate, Taken),
         NEW f \in Flows, VSend(f)
  PROVE  Agree(replay'.dropped, fate', Taken)
<1> DEFINE n     == f.from
           fresh == nextId + 1
           p     == [id |-> nextId, number |-> nextId, to |-> f.to, size |-> f.size,
                     ecn |-> f.ecn, ttl |-> DEFAULT_TTL]
           z     == [id |-> nextId, size |-> f.size]
<1>1. /\ TypeOK /\ replay \in Verifier /\ ~replay.fatal /\ ~replay'.fatal /\ now \in Nat /\ nextId \in Nat
      /\ n \in Nodes /\ f.size \in Nat /\ nextId \in Ids
      /\ fate \in [Ids -> Fates] /\ fate' \in [Ids -> Fates]
  BY NetworkAssumption DEF NetworkInv, ReplayInv, ReplayCompletes, TypeOK, VSend, send_udp
<1>2. p \in Packet /\ p.id = nextId /\ p.size = f.size
  BY <1>1, NetworkAssumption DEF Packet, Ecn
<1>3. /\ z.id = p.id /\ z.size = p.size
      /\ [z EXCEPT !.id = fresh].id = fresh /\ [z EXCEPT !.id = fresh].size = p.size
  OBVIOUS
<1>4. forward(n, p, <<"app", n>>, fresh) /\ Forwarded(n, z, fresh)
  BY DEF VSend, send_udp
<1>5. /\ fresh \in Nat /\ p.id # fresh
      /\ fate[p.id] = "unborn" /\ (fresh \in Ids => fate[fresh] = "unborn")
  BY <1>1, <1>2 DEF CopyInv, Tracked, Ids
<1> HIDE DEF p, z, fresh, n
<1>6. Settled(n, p, fresh)
  BY <1>1, <1>2, <1>4, <1>5, ForwardSettled
<1>7. fate[p.id] \notin Counted
  BY <1>5 DEF Counted, DropReasons
\* A new packet is in no link and was in none.
<1>8. p.id \notin Taken
  BY <1>5 DEF CopyInv, Tracked, Taken
<1>9. V!WithId(replay.in_flight, p.id) = {}
  <2>1. \A l \in Links : \A r \in in_transit[l] : fate[r.pkt.id] = "live"
    BY <1>1, PlacesApart
  <2>2. \A q \in replay.in_flight : \E r \in in_transit[q.link] : r.pkt.id = q.id
    BY DEF ReplayInv, FlightsReplayed
  <2>3. \A q \in replay.in_flight : q.link \in Links
    BY <1>1 DEF Verifier
  <2>4. \A q \in replay.in_flight : q.id # p.id
    BY <1>5, <2>1, <2>2, <2>3
  <2> QED
    BY <2>4 DEF V!WithId
<1> QED
  BY <1>1, <1>2, <1>3, <1>4, <1>5, <1>6, <1>7, <1>8, <1>9, ForwardedCounted

LEMMA ForwarderCounted ==
  ASSUME NetworkInv, CopyInv, ReplayInv, NetworkInv', ReplayInv', Agree(replay.dropped, fate, Taken),
         TransitsTaken, NEW l \in Links, VForward(l)
  PROVE  Agree(replay'.dropped, fate', Taken)
<1> DEFINE n == Target[l]
<1>1. /\ TypeOK /\ replay \in Verifier /\ ~replay.fatal /\ ~replay'.fatal /\ now \in Nat /\ nextId \in Nat
      /\ n \in Nodes /\ fate \in [Ids -> Fates] /\ fate' \in [Ids -> Fates]
  BY NetworkAssumption DEF NetworkInv, ReplayInv, ReplayCompletes, TypeOK
<1>2. PICK r \in in_transit[l] :
        /\ in_transit' = [in_transit EXCEPT ![l] = @ \ {r}]
        /\ \/ End(r.pkt, "lost_in_transit", nextId)
           \/ forward(n, r.pkt, <<"forwarder", l>>, nextId)
  BY DEF VForward, forward_packet, NextArrivals
<1> DEFINE p == r.pkt
<1>3. in_transit'[l] = in_transit[l] \ {r}
  BY <1>1, <1>2 DEF TypeOK
<1>4. p \in Packet /\ p.id \in Ids /\ p.size \in Nat /\ fate[p.id] = "live"
  BY <1>1, PlacesApart DEF Packet
<1>5. fate[p.id] \notin Counted
  BY <1>4 DEF Counted, DropReasons
<1>6. IF fate'[p.id] = "lost_in_transit"
      THEN replay' = V!PacketLostInTransit(replay, p.id) /\ UNCHANGED unread
      ELSE Forwarded(n, p, nextId)
  BY <1>3 DEF VForward
<1> HIDE DEF n
<1>7. CASE End(p, "lost_in_transit", nextId)
  <2>1. fate' = [fate EXCEPT ![p.id] = "lost_in_transit"] /\ fate'[p.id] = "lost_in_transit"
    BY <1>1, <1>4, <1>7 DEF End
  <2>2. replay'.dropped = replay.dropped
    BY <1>1, <1>6, <2>1, OtherSteps
  <2>3. "lost_in_transit" \in Fates \ Counted
    BY DEF Fates, Counted, DropReasons
  <2> HIDE DEF p
  <2> QED
    BY <1>1, <1>4, <1>5, <2>1, <2>2, <2>3, NothingCounted
<1>8. CASE forward(n, p, <<"forwarder", l>>, nextId)
  <2>1. p.id # nextId /\ (nextId \in Ids => fate[nextId] = "unborn")
    BY <1>1, <1>4 DEF CopyInv, Tracked, Ids
  <2>2. Settled(n, p, nextId)
    BY <1>1, <1>4, <1>8, <2>1, ForwardSettled
  <2>3. fate'[p.id] # "lost_in_transit"
    BY <2>2 DEF Settled
  <2>4. /\ [p EXCEPT !.id = nextId].id = nextId
        /\ [p EXCEPT !.id = nextId].size = p.size
    BY <1>4 DEF Packet
  <2>5. p.id \in Taken
    BY DEF TransitsTaken
  <2>6. V!WithId(replay.in_flight, p.id) # {}
    <3>1. \E q \in replay.in_flight : q.id = p.id
      BY DEF ReplayInv, FlightsReplayed
    <3> QED
      BY <3>1 DEF V!WithId
  <2> HIDE DEF p
  <2>7. Forwarded(n, p, nextId)
    BY <1>6, <2>3
  <2> QED
    BY <1>1, <1>4, <1>5, <2>1, <2>2, <2>4, <2>5, <2>6, <2>7, ForwardedCounted
<1> QED
  BY <1>2, <1>7, <1>8

LEMMA LinkTaskCounted ==
  ASSUME NetworkInv, CopyInv, ReplayInv, NetworkInv', ReplayInv', Agree(replay.dropped, fate, Taken),
         NEW l \in Links, VLinkTask(l)
  PROVE  Agree(replay'.dropped, fate', Taken)
<1> DEFINE n == Source[l]
           c == Current(l)
           i == c.pkt.id
<1>1. LinkOutcome(l)
  BY LinkQueueOutcome DEF VLinkTask
<1>2. /\ TypeOK /\ replay \in Verifier /\ ~replay'.fatal /\ n \in Nodes
      /\ fate \in [Ids -> Fates]
  BY NetworkAssumption DEF NetworkInv, ReplayInv, ReplayCompletes, TypeOK
<1>3. /\ in_transit' # in_transit =>
           fate' = fate
      /\ in_transit'[l] # in_transit[l] => replay' = V!PacketInTransit(replay, n, l, c.pkt, now)
      /\ in_transit'[l] = in_transit[l] =>
           replay' = IF fate' # fate THEN Dropped(replay, n, i) ELSE replay
  BY <1>1 DEF LinkOutcome, VLinkTask
<1>4. CASE in_transit'[l] # in_transit[l]
  <2>1. replay'.dropped = replay.dropped
    BY <1>2, <1>3, <1>4, InTransitDrops
  <2> QED
    BY <1>2, <1>3, <1>4, <2>1, NothingCounted
<1>5. CASE in_transit'[l] = in_transit[l] /\ fate' = fate
  BY <1>3, <1>5
<1>6. CASE in_transit'[l] = in_transit[l] /\ fate' # fate
  <2>1. /\ c \in Offered(l) /\ c \in Buffered
        /\ Key(c.pkt) \notin handled /\ Key(c.pkt) \in handled'
    BY <1>1, <1>6 DEF LinkOutcome
  <2>2. c \in Waiting(n)
    BY <1>1, <1>2, <2>1, ClaimedLeaves DEF LinkOutcome
  <2>3. i \in Ids /\ fate[i] = "live"
    BY <1>2, <2>1, <2>2, PlacesApart DEF Packet, Buffered
  <2>4. fate[i] \notin Counted
    BY <2>3 DEF Counted, DropReasons
  <2>5. fate' \in {[fate EXCEPT ![i] = "buffer_cleared"], [fate EXCEPT ![i] = "stranded"]}
    BY <1>1, <1>6 DEF LinkOutcome
  <2> HIDE DEF i, n, c
  <2>6. CASE fate' = [fate EXCEPT ![i] = "buffer_cleared"]
    <3> DEFINE D == replay.dropped
    <3>1. fate'[i] = "buffer_cleared" /\ "buffer_cleared" \in DropReasons
          /\ "buffer_cleared" \in Fates
      BY <1>2, <2>3, <2>6 DEF DropReasons, Fates
    <3>2. replay' = V!PacketDropped(replay, n, i, "buffer_cleared")
      BY <1>3, <1>6, <3>1 DEF Dropped
    <3>3. replay'.dropped = Bump(D, n, V!counter("buffer_cleared"))
      BY <1>2, <3>1, <3>2, DroppedDrops
    <3>4. D \in Drops
      BY <1>2 DEF Verifier, Drops
    <3> HIDE DEF D
    <3>5. Agree(D, fate, Taken)
      BY DEF D
    <3>6. Agree(Bump(D, n, V!counter("buffer_cleared")), [fate EXCEPT ![i] = "buffer_cleared"], Taken)
      BY <1>2, <2>3, <2>4, <3>1, <3>4, <3>5, EndCounted
    <3> QED
      BY <2>6, <3>1, <3>3, <3>6
  <2>7. CASE fate' = [fate EXCEPT ![i] = "stranded"]
    <3>1. /\ fate'[i] = "stranded" /\ "stranded" \notin DropReasons
          /\ "stranded" \in Fates \ Counted
      BY <1>2, <2>3, <2>7 DEF Counted, DropReasons, Fates
    <3>2. replay' = replay
      BY <1>3, <1>6, <3>1 DEF Dropped
    <3> QED
      BY <1>2, <2>3, <2>4, <2>7, <3>1, <3>2, NothingCounted
  <2> QED
    BY <2>5, <2>6, <2>7
<1> QED
  BY <1>4, <1>5, <1>6

LEMMA BufferTaskCounted ==
  ASSUME NetworkInv, CopyInv, ReplayInv, Agree(replay.dropped, fate, Taken),
         NEW n \in Nodes, process_buffer(n), UNCHANGED replay
  PROVE  Agree(replay'.dropped, fate', Taken)
<1> DEFINE h == Head(outbound[n])
           i == h.pkt.id
<1>1. TypeOK /\ replay \in Verifier /\ fate \in [Ids -> Fates]
  BY DEF NetworkInv, ReplayInv, TypeOK
<1>2. i \in Ids /\ fate[i] = "live"
  <2>1. outbound[n] \in Seq(Buffered) /\ outbound[n] # <<>>
    BY <1>1 DEF TypeOK, process_buffer
  <2>2. Len(outbound[n]) \in Nat \ {0} /\ h = outbound[n][1]
    BY <2>1, EmptySeq
  <2>3. h \in Waiting(n)
    BY <2>2, WaitingNow DEF IsWaiting, Entries
  <2> QED
    BY <1>1, <2>3, PlacesApart
<1>3. fate' = fate \/ fate' = [fate EXCEPT ![i] = "stranded"]
  BY DEF process_buffer
<1>4. fate[i] \notin Counted
  BY <1>2 DEF Counted, DropReasons
<1>5. "stranded" \in Fates \ Counted
  BY DEF Fates, Counted, DropReasons
<1>6. replay'.dropped = replay.dropped
  OBVIOUS
<1> HIDE DEF i
<1> QED
  BY <1>1, <1>2, <1>3, <1>4, <1>5, <1>6, NothingCounted

LEMMA NoFateCounted ==
  ASSUME Agree(replay.dropped, fate, Taken), fate' = fate, replay'.dropped = replay.dropped
  PROVE  Agree(replay'.dropped, fate', Taken)
OBVIOUS

LEMMA ReadCounted ==
  ASSUME ReplayInv, Agree(replay.dropped, fate, Taken), NEW n \in Nodes, poll_recv(n)
  PROVE  Agree(replay'.dropped, fate', Taken)
<1>1. replay \in Verifier /\ fate' = fate
  BY DEF ReplayInv, poll_recv, vars
<1>2. PICK i \in unread[n] : replay' = V!PacketDeliveredToApplication(replay, n, i)
  BY DEF poll_recv
<1> DEFINE r == V!remove_packet_from_buffer(replay, n, i)
<1>3. replay' \in {replay, r}
  BY <1>2 DEF V!PacketDeliveredToApplication, V!TryFatal
<1>4. SameDrops(replay, r)
  BY <1>1, RemoveDrops
<1> HIDE DEF r
<1>5. replay'.dropped = replay.dropped
  BY <1>3, <1>4 DEF SameDrops
<1> QED
  BY <1>1, <1>5

LEMMA CountedStep ==
  ASSUME NetworkInv, CopyInv, ReplayInv, NetworkInv', ReplayInv', TransitsTaken,
         Agree(replay.dropped, fate, Taken), [VNext]_vvars
  PROVE  Agree(replay'.dropped, fate', Taken)
<1>1. replay \in Verifier
  BY DEF ReplayInv
<1>2. ASSUME NEW f \in Flows, VSend(f) PROVE Agree(replay'.dropped, fate', Taken)
  BY <1>2, SendCounted
<1>3. ASSUME NEW n \in Nodes, process_buffer(n), UNCHANGED <<unread, replay>>
      PROVE  Agree(replay'.dropped, fate', Taken)
  BY <1>3, BufferTaskCounted
<1>4. ASSUME NEW l \in Links, VLinkTask(l) PROVE Agree(replay'.dropped, fate', Taken)
  BY <1>4, LinkTaskCounted
<1>5. ASSUME NEW l \in Links, forwarder_sleeps(l), UNCHANGED <<unread, replay>>
      PROVE  Agree(replay'.dropped, fate', Taken)
  BY <1>5, NoFateCounted DEF forwarder_sleeps
<1>6. ASSUME NEW l \in Links, VForward(l) PROVE Agree(replay'.dropped, fate', Taken)
  BY <1>6, ForwarderCounted
<1>7. ASSUME NEW e \in LinkEvents, VLinkEvent(e) PROVE Agree(replay'.dropped, fate', Taken)
  <2>1. e.link \in Links /\ fate' = fate /\ replay' = V!LinkEvent(replay, e.link, e.status, now)
    BY <1>7, NetworkAssumption DEF VLinkEvent, process_link_event
  <2> QED
    BY <1>1, <2>1, OtherSteps, NoFateCounted
<1>8. ASSUME NEW e \in NodeEvents, VNodeEvent(e) PROVE Agree(replay'.dropped, fate', Taken)
  <2>1. /\ e.node \in Nodes /\ fate' = fate
        /\ replay' = V!NodeEvent(replay, e.node, e.status, e.clear_buffer, now)
    BY <1>8, NetworkAssumption DEF VNodeEvent, process_node_event
  <2> QED
    BY <1>1, <2>1, OtherSteps, NoFateCounted
<1>9. ASSUME NEW n \in Nodes, poll_recv(n) PROVE Agree(replay'.dropped, fate', Taken)
  BY <1>9, ReadCounted
<1>10. ASSUME VTick PROVE Agree(replay'.dropped, fate', Taken)
  <2>1. fate' = fate /\ replay' = V!update_max_buffer_usage(replay)
    BY <1>10 DEF VTick, Tick
  <2> QED
    BY <1>1, <2>1, OtherSteps, NoFateCounted
<1>11. ASSUME UNCHANGED vvars PROVE Agree(replay'.dropped, fate', Taken)
  BY <1>11, NoFateCounted DEF vvars, vars
<1> QED
  BY <1>2, <1>3, <1>4, <1>5, <1>6, <1>7, <1>8, <1>9, <1>10, <1>11 DEF VNext

\* A link takes a packet that waits, and a packet that it took from a node, or
\* dropped, was not refused.
LEMMA LinkTaskTakes ==
  ASSUME NetworkInv, CopyInv, TransitsTaken, NEW l \in Links, process_link_queue(l)
  PROVE  /\ Taken \subseteq Taken' /\ TransitsTaken'
         /\ \A i \in Taken' \ Taken : fate'[i] # "node_down"
<1> DEFINE c == Current(l)
           i == c.pkt.id
<1>1. LinkOutcome(l)
  BY LinkQueueOutcome
<1>2. TypeOK /\ fate \in [Ids -> Fates] /\ in_transit \in [Links -> SUBSET Transit]
  BY DEF NetworkInv, TypeOK
<1>3. Taken \subseteq Taken'
  BY <1>1 DEF LinkOutcome, Taken
<1>4. CASE UNCHANGED <<in_transit, handled>>
  BY <1>3, <1>4 DEF Taken, TransitsTaken
<1>5. CASE ~UNCHANGED <<in_transit, handled>>
  <2>1. /\ c \in Offered(l) /\ c \in Buffered
        /\ Key(c.pkt) \notin handled /\ Key(c.pkt) \in handled'
        /\ handled' = handled \union {Key(c.pkt)}
    BY <1>1, <1>5 DEF LinkOutcome
  <2>2. c \in Waiting(Source[l])
    BY <1>1, <1>2, <2>1, ClaimedLeaves DEF LinkOutcome
  <2>3. i \in Ids /\ fate[i] = "live"
    <3>1. Source[l] \in Nodes
      BY NetworkAssumption
    <3> QED
      BY <1>2, <2>2, <3>1, PlacesApart
  <2>4. fate' \in {fate, [fate EXCEPT ![i] = "buffer_cleared"], [fate EXCEPT ![i] = "stranded"]}
    BY <1>1 DEF LinkOutcome
  <2>5. Taken' = Taken \union {i}
    BY <2>1 DEF Taken, Key
  <2>6. fate'[i] # "node_down"
    BY <1>2, <2>3, <2>4
  <2>7. \A k \in Links : \A r \in in_transit'[k] : r \in in_transit[k] \/ r.pkt.id = i
    <3>1. \/ in_transit' = in_transit
          \/ \E r : r.pkt.id = i /\ in_transit' = [in_transit EXCEPT ![l] = @ \union {r}]
      BY <1>1 DEF LinkOutcome
    <3> QED
      BY <1>2, <3>1
  <2> QED
    BY <1>3, <2>5, <2>6, <2>7 DEF TransitsTaken
<1> QED
  BY <1>4, <1>5

\* No other step takes a packet or puts one in transit.
LEMMA StepTakes ==
  ASSUME NetworkInv, CopyInv, TransitsTaken, [VNext]_vvars
  PROVE  /\ Taken \subseteq Taken' /\ TransitsTaken'
         /\ \A i \in Taken' \ Taken : fate'[i] # "node_down"
<1>1. in_transit \in [Links -> SUBSET Transit] /\ Transit = [pkt : Packet, sent : Nat, arrival : Nat, cut : BOOLEAN]
  BY DEF NetworkInv, TypeOK, Transit
<1>2. ASSUME handled' = handled,
             \A l \in Links : \A r \in in_transit'[l] : \E q \in in_transit[l] : r.pkt.id = q.pkt.id
      PROVE  /\ Taken \subseteq Taken' /\ TransitsTaken'
             /\ \A i \in Taken' \ Taken : fate'[i] # "node_down"
  <2>1. Taken' = Taken
    BY <1>2 DEF Taken
  <2> QED
    BY <1>2, <2>1 DEF TransitsTaken
<1>3. CASE \E l \in Links : VLinkTask(l)
  BY <1>3, LinkTaskTakes DEF VLinkTask
<1>4. CASE \E f \in Flows : VSend(f)
  <2>1. UNCHANGED <<handled, in_transit>>
    BY <1>4 DEF VSend, send_udp, linkVars
  <2> QED
    BY <1>2, <2>1
<1>5. CASE \E n \in Nodes : process_buffer(n) /\ UNCHANGED <<unread, replay>>
  BY <1>2, <1>5 DEF process_buffer
<1>6. CASE \E l \in Links : forwarder_sleeps(l) /\ UNCHANGED <<unread, replay>>
  BY <1>2, <1>6 DEF forwarder_sleeps
<1>7. CASE \E l \in Links : VForward(l)
  <2>1. PICK l \in Links : VForward(l)
    BY <1>7
  <2>2. handled' = handled /\ \E r \in in_transit[l] : in_transit' = [in_transit EXCEPT ![l] = @ \ {r}]
    BY <2>1 DEF VForward, forward_packet, NextArrivals
  <2> QED
    BY <1>1, <1>2, <2>2
<1>8. CASE \E e \in LinkEvents : VLinkEvent(e)
  <2>1. PICK e \in LinkEvents : VLinkEvent(e)
    BY <1>8
  <2> DEFINE k == e.link
  <2>2. /\ k \in Links /\ handled' = handled
        /\ \/ in_transit' = in_transit
           \/ in_transit' = [in_transit EXCEPT ![k] = {[r EXCEPT !.cut = TRUE] : r \in in_transit[k]}]
    BY <2>1, NetworkAssumption DEF VLinkEvent, process_link_event, update_link_status
  <2> HIDE DEF k
  <2>3. \A r \in Transit : [r EXCEPT !.cut = TRUE].pkt = r.pkt
    BY <1>1
  <2> QED
    BY <1>1, <1>2, <2>2, <2>3
<1>9. CASE \E e \in NodeEvents : VNodeEvent(e)
  BY <1>2, <1>9 DEF VNodeEvent, process_node_event
<1>10. CASE (\E n \in Nodes : poll_recv(n)) \/ VTick \/ UNCHANGED vvars
  <2>1. UNCHANGED <<handled, in_transit>>
    BY <1>10 DEF poll_recv, VTick, Tick, vvars, vars, linkVars
  <2> QED
    BY <1>2, <2>1
<1> QED
  BY <1>3, <1>4, <1>5, <1>6, <1>7, <1>8, <1>9, <1>10 DEF VNext

\* Nothing is counted, and nothing has ended.
LEMMA NothingYet == VInit => Agree(replay.dropped, fate, Taken)
<1> SUFFICES ASSUME VInit PROVE Agree(replay.dropped, fate, Taken)
  OBVIOUS
<1> DEFINE D == [n \in Nodes |-> [c \in V!Counters |-> 0]]
<1>1. replay.dropped = D
  BY DEF VInit, V!NewVerifier
<1>2. D \in Drops
  BY DEF Drops
<1>3. \A n \in Nodes, c \in V!Counters : D[n][c] = 0
  OBVIOUS
<1> HIDE DEF D
<1>4. ASSUME NEW c \in V!Counters PROVE Total(D, c) = 0
  <2>1. /\ Tally(D, c) \in Seq(Int) /\ Len(Tally(D, c)) = Cardinality(Nodes)
        /\ \A i \in 1 .. Cardinality(Nodes) : Tally(D, c)[i] = D[NodeOrder[i]][c]
    BY <1>2, TallyOf
  <2>2. \A i \in 1 .. Len(Tally(D, c)) : Tally(D, c)[i] = 0
    BY <1>3, <2>1, NodeOrderIs
  <2> QED
    BY <2>1, <2>2, SumOfZeros DEF Total
<1>5. \A i \in Ids : fate[i] = "unborn"
  BY DEF VInit, Init
<1>6. /\ Gone(fate, {"random", "zero_ttl"}) = {} /\ Gone(fate, {"buffer_full"}) = {}
      /\ Gone(fate, {"buffer_cleared"}) = {} /\ Refused(fate, Taken) = {}
  BY <1>5 DEF Gone, Refused
<1>7. {"injected", "zero_ttl", "buffer_full", "buffer_cleared", "down"} \subseteq V!Counters
  BY DEF V!Counters
<1>8. Cardinality({}) = 0
  BY FS_EmptySet
<1> QED
  BY <1>1, <1>4, <1>6, <1>7, <1>8 DEF Agree

\* No drop is missing in the report of verify() and none is counted twice,
\* whatever the order in which tasks, events and applications act: full buffers,
\* cleared buffers and the packets that a node refuses when they arrive over a
\* link are each reported exactly, and the packets that are lost at random or
\* whose TTL runs out are exactly those in the two counters for them.  That the
\* second of the two counters stays at 0 is not part of this theorem: see
\* TtlDropsReported.
THEOREM DropsAreCounted == VSpec => []DropsCounted
<1> DEFINE Inv == NetworkInv /\ CopyInv /\ ReplayInv
           Acc == DropsCounted /\ TransitsTaken
<1>1. VInit => Acc
  <2>1. VInit => TransitsTaken
    BY DEF VInit, Init, TransitsTaken
  <2> QED
    BY <2>1, NothingYet, CountedNow
<1>2. Inv /\ Inv' /\ Acc /\ [VNext]_vvars => Acc'
  <2> SUFFICES ASSUME Inv, Inv', Acc, [VNext]_vvars PROVE Acc'
    OBVIOUS
  <2>1. Agree(replay.dropped, fate, Taken)
    BY CountedNow
  <2>2. Agree(replay'.dropped, fate', Taken)
    BY <2>1, CountedStep
  <2>3. /\ Taken \subseteq Taken' /\ TransitsTaken'
        /\ \A i \in Taken' \ Taken : fate'[i] # "node_down"
    BY StepTakes
  <2>4. Agree(replay'.dropped, fate', Taken')
    BY <2>2, <2>3, MoreTaken
  <2> QED
    BY <2>3, <2>4, CountedNext
<1>3. VSpec => []Inv
  BY ReplayInvariant
<1>4. Acc => DropsCounted
  OBVIOUS
<1> QED
  BY <1>1, <1>2, <1>3, <1>4, PTL DEF VSpec
=============================================================================
