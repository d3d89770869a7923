-------------------------- MODULE NetworkJourneys --------------------------
(***************************************************************************)
(* The network implements PacketJourney.                                   *)
(***************************************************************************)
EXTENDS Network

\* The places of packet i in the abstract network.  A packet in a buffer and one
\* that links have been offered are both stored in the node.  OneCopy says that
\* a packet has one place at most.
Places(i) ==
  {<<IF x[1] = "link" THEN "link" ELSE "node", x[2], x[3].to, x[3].ttl>> :
     x \in {x \in Whereabouts : x[3].id = i}}

\* A packet whose task crashed is live for the tracer and nowhere.
Journey ==
  [i \in Ids |->
     IF fate[i] = "unborn" THEN <<"unborn">>
     ELSE IF Places(i) # {} THEN CHOOSE place \in Places(i) : TRUE
     ELSE IF fate[i] = "delivered" THEN <<"delivered">>
     ELSE <<"gone">>]

Abstract == INSTANCE PacketJourney WITH Packets <- Ids, journey <- Journey

\* Races between links, cleared buffers, duplicates, failures and crashed tasks
\* do nothing to a packet but what PacketJourney allows: every step of the
\* network moves one packet by one hop at the cost of one TTL, copies it where
\* it is stored, ends it, or leaves all packets where they are.
JourneysRefined == Abstract!JourneySpec
=============================================================================
