--------------------------- MODULE PacketJourney ---------------------------
(***************************************************************************)
(* What the network promises about packets, without buffers, queues,       *)
(* tasks, bandwidth or time: a packet is in one place at a time, moves     *)
(* along links, loses one hop of its TTL at every node that stores it, and *)
(* ends once, at its destination or anywhere else.                         *)
(***************************************************************************)
EXTENDS Naturals

CONSTANTS
  Packets, Nodes, Links,
  Source, Target,       \* the nodes at the ends of each link
  DEFAULT_TTL

VARIABLE journey        \* of each packet: one of the places below

Unborn    == <<"unborn">>
Delivered == <<"delivered">>
Gone      == <<"gone">>
Stored(n, to, ttl) == <<"node", n, to, ttl>>
OnLink(l, to, ttl) == <<"link", l, to, ttl>>

JourneyInit == journey = [i \in Packets |-> Unborn]

\* What may become of a packet to node to that enters node n with ttl hops left
Outcomes(n, to, ttl) ==
  {Gone} \union (IF n = to THEN {Delivered}
                 ELSE IF ttl > 1 THEN {Stored(n, to, ttl - 1)} ELSE {})

\* Packet i enters node n.  A node that stores a packet may create a copy of it.
Enter(i, n, to, ttl) ==
  \E here \in Outcomes(n, to, ttl) :
    \/ journey' = [journey EXCEPT ![i] = here]
    \/ /\ n # to /\ ttl > 1
       /\ \E copy \in Packets, there \in {Gone, Stored(n, to, ttl - 1)} :
            /\ copy # i /\ journey[copy] = Unborn
            /\ journey' = [journey EXCEPT ![i] = here, ![copy] = there]

Send(i) ==
  /\ journey[i] = Unborn
  /\ \E n, to \in Nodes : Enter(i, n, to, DEFAULT_TTL)

Depart(i) ==
  LET place == journey[i]
  IN  /\ place[1] = "node"
      /\ \E l \in {l \in Links : Source[l] = place[2]} :
           journey' = [journey EXCEPT ![i] = OnLink(l, place[3], place[4])]

Arrive(i) ==
  LET place == journey[i]
  IN  place[1] = "link" /\ Enter(i, Target[place[2]], place[3], place[4])

\* A packet is dropped; a task that crashes takes several with it, all of one
\* node.
Vanish ==
  \E n \in Nodes :
    \E S \in SUBSET {i \in Packets : journey[i][1] = "node" /\ journey[i][2] = n} :
      journey' = [i \in Packets |-> IF i \in S THEN Gone ELSE journey[i]]

JourneyNext ==
  \/ \E i \in Packets : Send(i) \/ Depart(i) \/ Arrive(i)
  \/ Vanish

JourneySpec == JourneyInit /\ [][JourneyNext]_journey
=============================================================================
