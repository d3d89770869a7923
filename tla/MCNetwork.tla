----------------------------- MODULE MCNetwork -----------------------------
(***************************************************************************)
(* Small networks for TLC.                                                 *)
(*                                                                         *)
(* Parallel: A reaches B over two links, the first cheaper.                *)
(* Relay:    A reaches B through R, and sends packets for C the same way,  *)
(*           although B has no link to it.                                 *)
(* Loop:     A, over two links, and R take each other for the way to B.    *)
(***************************************************************************)
EXTENDS NetworkJourneys, FiniteSetsExt

NoEvents == {}

ParallelNodes  == {"A", "B"}
ParallelLinks  == {"l1", "l2"}
ParallelSource == [l \in ParallelLinks |-> "A"]
ParallelTarget == [l \in ParallelLinks |-> "B"]
ParallelRoutes ==
  [n \in ParallelNodes |-> [dest \in ParallelNodes |->
     IF n = "A" /\ dest = "B" THEN <<"l1", "l2">> ELSE <<>>]]
\* The cheaper link also appears as the connected route of its interface.
RepeatedRoutes ==
  [n \in ParallelNodes |-> [dest \in ParallelNodes |->
     IF n = "A" /\ dest = "B" THEN <<"l1", "l2", "l1">> ELSE <<>>]]
ParallelCapacity == [n \in ParallelNodes |-> 2]
ParallelDelay    == [l \in ParallelLinks |-> 1]
ParallelExtra    == [l \in ParallelLinks |-> {0}]

RelayNodes  == {"A", "R", "B", "C"}
RelayLinks  == {"l1", "l2"}
RelaySource == [l \in RelayLinks |-> IF l = "l1" THEN "A" ELSE "R"]
RelayTarget == [l \in RelayLinks |-> IF l = "l1" THEN "R" ELSE "B"]
RelayRoutes ==
  [n \in RelayNodes |-> [dest \in RelayNodes |->
     IF dest \in {"B", "C"} /\ n = "A" THEN <<"l1">>
     ELSE IF dest \in {"B", "C"} /\ n = "R" THEN <<"l2">> ELSE <<>>]]
RelayCapacity == [n \in RelayNodes |-> 3]
RelayDelay    == [l \in RelayLinks |-> 1]
RelayExtra    == [l \in RelayLinks |-> {0}]
RelayJitter   == [l \in RelayLinks |-> IF l = "l2" THEN {0, 1} ELSE {0}]

LoopNodes  == {"A", "R", "B"}
LoopLinks  == {"l1", "l2", "l3"}
LoopSource == [l \in LoopLinks |-> IF l = "l3" THEN "R" ELSE "A"]
LoopTarget == [l \in LoopLinks |-> IF l = "l3" THEN "A" ELSE "R"]
LoopRoutes ==
  [n \in LoopNodes |-> [dest \in LoopNodes |->
     IF dest # n /\ n = "A" THEN <<"l1", "l2">>
     ELSE IF dest # n /\ n = "R" THEN <<"l3">> ELSE <<>>]]
LoopCapacity == [n \in LoopNodes |-> 2]
LoopDelay    == [l \in LoopLinks |-> 1]
LoopExtra    == [l \in LoopLinks |-> {0}]

LinkUpDown(ls) == [link : ls, status : {"up", "down"}, delay : {NoTime}]
NodeUpDown(ns) == [node : ns, status : {"up", "down"}, clear_buffer : {FALSE}]
Clear(ns)      == [node : ns, status : {"unchanged"}, clear_buffer : {TRUE}]

AllLinksFlap  == LinkUpDown(Links)
TwoLinksFlap  == LinkUpDown({"l1", "l2"})
LastLinkFlaps == LinkUpDown({"l2"})
Redelayed     == LastLinkFlaps \union [link : {"l2"}, status : {"up"}, delay : {2}]
AFlaps        == NodeUpDown({"A"})
RFlapsClears  == NodeUpDown({"R"}) \union Clear({"R"})
RClears       == Clear({"R"})
RelayEvents   == RFlapsClears \union [node : {"A"}, status : {"down"}, clear_buffer : {FALSE}]

Flow(from, to, sizes, ecns) == [from : {from}, to : {to}, size : sizes, ecn : ecns]
AtoB       == Flow("A", "B", {1}, {"none"})
AtoBandC   == Flow("A", "B", {2}, {"none"}) \union Flow("A", "C", {1}, {"none"})
BothWays   == Flow("A", "B", {1}, {"none"}) \union Flow("B", "A", {1}, {"none"})

----------------------------------------------------------------------------
\* A packet is dropped only "if the node's buffer does not have enough
\* capacity": what is not stored in the buffer is available.
UnusedCapacityIsAvailable ==
  crashed = {} =>
    \A n \in Nodes : available_capacity[n] + Bytes(Waiting(n)) = Capacity[n]
=============================================================================
