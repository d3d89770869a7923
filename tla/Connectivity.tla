---------------------------- MODULE Connectivity ----------------------------
(***************************************************************************)
(* The connectivity check that precedes a simulation                       *)
(* (assert_connectivity_between_nodes in in-memory-network's network/mod.rs *)
(* and its caller in quinn-workbench/src/simulation.rs).                   *)
(*                                                                         *)
(* The check has a network of its own.  What that network does to packets  *)
(* is the subject of PacketJourney; here a packet from one node to another *)
(* is on its way, until it arrives or vanishes.                            *)
(***************************************************************************)
EXTENDS Integers, Sequences, FiniteSets, SequencesExt

CONSTANTS
  Nodes,          \* the nodes of the network: numbers, ordered as their addresses
  Attempts,       \* packets sent each way for every pair (100 in the code)
  MaxDuplicates   \* bound: packets that nodes duplicate

ASSUME ConnectivityAssumption ==
  Nodes \subseteq Nat /\ Attempts \in Nat \ {0} /\ MaxDuplicates \in Nat

VARIABLES
  patterns,       \* the traffic patterns, with their client and server sockets
  faulty,         \* whether the network loses or duplicates packets
  check,          \* the check: [result, left, attempt, got]
  inbound,        \* of each node: the queue of its UDP endpoint
  flying,         \* of each direction: how many packets are on their way
  trace           \* recorded steps: [arrived, duplicates, orphans]

connectivityVars == <<check, inbound, flying, trace>>

Directions == Nodes \X Nodes

\* A bug: pairs are taken as they are in the traffic file.
UnorderedPairs == {<<patterns[p].client[1], patterns[p].server[1]>> : p \in DOMAIN patterns}

\* socket_pairs_from_traffic: the unordered pairs, each once, ...
Pairs ==
  LET ends(p) == {patterns[p].client[1], patterns[p].server[1]}
  IN  {<<Min(ends(p)), Max(ends(p))>> : p \in DOMAIN patterns}

\* ... and sorted.
Lower(p, q) == p[1] < q[1] \/ (p[1] = q[1] /\ p[2] < q[2])

\* A new check with a new network
NewCheck(c, queues, packets, steps) ==
  /\ c = [result |-> "none", left |-> Pairs, attempt |-> 0, got |-> <<>>]
  /\ queues = [n \in Nodes |-> <<>>]
  /\ packets = [d \in Directions |-> 0]
  /\ steps = [arrived |-> {}, duplicates |-> 0, orphans |-> 0]

ConnectivityInit == NewCheck(check, inbound, flying, trace)

\* The pair that is checked: the first of those left
Pair == CHOOSE p \in check.left : \A q \in check.left : ~Lower(q, p)
Direction(i) == IF i = 1 THEN Pair ELSE <<Pair[2], Pair[1]>>

Checking == check.result = "none"

\* network.node(ip)? of either end
UnknownNode ==
  /\ Checking /\ ~({Pair[1], Pair[2]} \subseteq Nodes)
  /\ check' = [check EXCEPT !.result = "failed"]
  /\ UNCHANGED <<inbound, flying, trace>>

KnownNodes == {Pair[1], Pair[2]} \subseteq Nodes

\* One packet each way, then a minute of sleep
send_both_ways ==
  /\ Checking /\ KnownNodes /\ check.attempt < Attempts
  /\ check' = [check EXCEPT !.attempt = @ + 1]
  /\ flying' = [d \in Directions |->
       flying[d] + Cardinality({i \in {1, 2} : Direction(i) = d})]
  /\ UNCHANGED <<inbound, trace>>

Timeout == <<>>

\* InboundQueue::receive(.., 1) under a timeout of 90 days, first of the packets
\* to the second node of the pair, then of those to the first
receive ==
  LET i      == Len(check.got) + 1
      target == Direction(i)[2]
  IN  /\ Checking /\ KnownNodes /\ check.attempt = Attempts /\ i <= 2
      /\ \/ /\ inbound[target] # <<>>
            /\ check' = [check EXCEPT !.got = Append(@, Head(inbound[target]))]
            /\ inbound' = [inbound EXCEPT ![target] = Tail(@)]
         \/ /\ inbound[target] = <<>> /\ faulty
            /\ check' = [check EXCEPT !.got = Append(@, Timeout)]
            /\ UNCHANGED inbound
      /\ UNCHANGED <<flying, trace>>

\* A bug: one direction is enough.
AnyArrived(got) == \E i \in DOMAIN got : got[i] # Timeout

AllArrived(got) == \A i \in DOMAIN got : got[i] # Timeout

\* get_dropped_packet_info looks for the sender of every packet that was
\* dropped; a duplicate that its own node dropped was never in a node.
ReportPanics == trace.orphans > 0

verdict ==
  /\ Checking /\ KnownNodes /\ Len(check.got) = 2
  /\ \/ /\ AllArrived(check.got)
        /\ check' = [check EXCEPT !.left = @ \ {Pair}, !.attempt = 0, !.got = <<>>,
                       !.result = IF check.left = {Pair} THEN "passed" ELSE "none"]
     \/ /\ ~AllArrived(check.got)
        /\ check' = [check EXCEPT !.result = IF ReportPanics THEN "panic" ELSE "failed"]
  /\ UNCHANGED <<inbound, flying, trace>>

----------------------------------------------------------------------------
(* The network *)

arrive(d) ==
  /\ Checking /\ flying[d] > 0
  /\ flying' = [flying EXCEPT ![d] = @ - 1]
  /\ inbound' = [inbound EXCEPT ![d[2]] = Append(@, d)]
  /\ trace' = [trace EXCEPT !.arrived = @ \union {d}]
  /\ UNCHANGED check

\* The packet is dropped, lost, or held up for longer than the check lasts.
vanish(d) ==
  /\ Checking /\ faulty /\ flying[d] > 0
  /\ flying' = [flying EXCEPT ![d] = @ - 1]
  /\ UNCHANGED <<check, inbound, trace>>

\* A node duplicates the packet, and drops the copy if its buffer is full.
duplicate(d) ==
  /\ Checking /\ faulty /\ flying[d] > 0 /\ trace.duplicates < MaxDuplicates
  /\ \/ /\ flying' = [flying EXCEPT ![d] = @ + 1]
        /\ trace' = [trace EXCEPT !.duplicates = @ + 1]
     \/ /\ trace' = [trace EXCEPT !.duplicates = @ + 1, !.orphans = @ + 1]
        /\ UNCHANGED flying
  /\ UNCHANGED <<check, inbound>>

\* What the check itself does, and what the network does meanwhile
CheckStep   == UnknownNode \/ send_both_ways \/ receive \/ verdict
NetworkStep == \E d \in Directions : arrive(d) \/ vanish(d) \/ duplicate(d)

----------------------------------------------------------------------------
(* Properties *)

Passed == Pairs \ check.left
BothWays(p) == {p, <<p[2], p[1]>>}

\* The comment of the check: "Ensure the packets arrived at each node (one
\* successful delivery is sufficient)".
PassedMeansConnected == \A p \in Passed : BothWays(p) \subseteq trace.arrived

\* The nodes of the pairs before p
Earlier(p) == UNION {{q[1], q[2]} : q \in {r \in Pairs : Lower(r, p)}}

\* A pair passes only if packets of its own arrived at those of its nodes that
\* no earlier pair contains: an empty queue is never taken for an answer.
FreshNodesConnected ==
  \A p \in Passed : \A d \in BothWays(p) : d[2] \notin Earlier(p) => d \in trace.arrived

\* A direction between two nodes is reported as broken only if none of its
\* packets arrived before the timeout, although all pairs of a node share one
\* endpoint and every pair takes a packet from it.  (A node that is paired with
\* itself reads twice from one queue, whose only packet the first read takes.)
FailureIsReal ==
  [][\A i \in {1, 2} :
       /\ Len(check.got) = i - 1 /\ Len(check.got') = i /\ check.got'[i] = Timeout
       /\ Pair[1] # Pair[2]
       => Direction(i) \notin trace.arrived]_connectivityVars

----------------------------------------------------------------------------
(* What the properties depend on *)

CheckTypeOK ==
  /\ check \in [result : {"none", "passed", "failed", "panic"}, left : SUBSET Pairs,
                attempt : 0 .. Attempts, got : Seq(Directions \union {Timeout})]
  /\ Len(check.got) <= 2
  /\ check.got # <<>> => check.attempt = Attempts
  /\ check.attempt > 0 \/ (Checking /\ patterns # <<>>) => check.left # {}
  /\ inbound \in [Nodes -> Seq(Directions)]
  /\ flying \in [Directions -> Nat]
  /\ trace \in [arrived : SUBSET Directions, duplicates : Nat, orphans : Nat]

PassedInOrder == \A p \in Passed, q \in check.left : Lower(p, q)

\* Packets belong to a pair that passed or is being checked.
Started == Passed \union IF check.attempt > 0 THEN {Pair} ELSE {}
PacketsOfPairs ==
  \A d \in Directions :
    flying[d] > 0 \/ d \in trace.arrived => \E p \in Started : d \in BothWays(p)

QueuesHoldArrivals ==
  \A n \in Nodes : \A i \in DOMAIN inbound[n] :
    inbound[n][i][2] = n /\ inbound[n][i] \in trace.arrived

\* What FreshNodesConnected will say of the pair that is being checked
ReadsAreFresh ==
  \A i \in DOMAIN check.got :
    check.got[i] # Timeout /\ Direction(i)[2] \notin Earlier(Pair) => Direction(i) \in trace.arrived

\* What arrived of a direction that is yet to be read keeps its queue filled.
UnreadArrivals ==
  check.left # {} /\ Pair[1] # Pair[2] =>
    \A i \in {1, 2} :
      i > Len(check.got) /\ Direction(i) \in trace.arrived => inbound[Direction(i)[2]] # <<>>

CheckInv ==
  /\ CheckTypeOK /\ PassedInOrder /\ PacketsOfPairs /\ QueuesHoldArrivals
  /\ ReadsAreFresh /\ UnreadArrivals /\ FreshNodesConnected
=============================================================================
