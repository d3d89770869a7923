------------------------------ MODULE Routing ------------------------------
(***************************************************************************)
(* Addresses, address ranges and routing tables                            *)
(* (in-memory-network/src/network/{ip,route,node,spec}.rs).                *)
(*                                                                         *)
(* An IPv4 address is a number of Width bits (32 in the code); the masks   *)
(* of a range are computed modulo 2^Width, as u32 arithmetic does.         *)
(***************************************************************************)
EXTENDS Integers, Sequences, SequencesExt, Bitwise

CONSTANT Width

ASSUME WidthAssumption == Width \in Nat \ {0}

Addresses == 0 .. 2^Width - 1
MAX       == 2^Width - 1      \* u32::MAX
Error     == [ok |-> FALSE]   \* Err(_)
Ok(v)     == [ok |-> TRUE, value |-> v]
None      == -1               \* Option::<IpAddr>::None

\* slice::sort_by: a stable sort
StableSort(s, Less(_, _)) ==
  LET order == SetToSortSeq(DOMAIN s, LAMBDA i, j :
                 Less(s[i], s[j]) \/ (~Less(s[j], s[i]) /\ i < j))
  IN  [k \in DOMAIN order |-> s[order[k]]]

----------------------------------------------------------------------------
(* Ipv4Cidr and IpRange *)

\* Ipv4Cidr::from_str, on the parts of the text between slashes
ParseCidr(parts) ==
  LET prefix == IF Len(parts) > 1 THEN parts[2] ELSE Width
  IN  IF \/ parts[1] \notin Addresses
         \/ prefix \notin 1 .. Width
         \/ Len(parts) > 2
      THEN Error ELSE Ok([address |-> parts[1], prefix |-> prefix])

\* A bug: the mask drops one bit too many.
WideRange(cidr) ==
  LET mask == (MAX * 2^(Width - cidr.prefix + 1)) % 2^Width
  IN  [start |-> cidr.address & mask, end |-> cidr.address | (MAX - mask)]

\* IpRange::from_cidr
FromCidr(cidr) ==
  LET mask == (MAX * 2^(Width - cidr.prefix)) % 2^Width
  IN  [start |-> cidr.address & mask, end |-> cidr.address | (MAX - mask)]

\* Route::next_hop_towards_destination
NextHop(route, dest) ==
  IF dest \in route.destination.start .. route.destination.end
  THEN route.next ELSE None

----------------------------------------------------------------------------
(* Node::new: the routing table of a node *)

\* NetworkNodeSpec::addresses
NodeAddresses(node) ==
  FlattenSeq([i \in DOMAIN node.interfaces |->
    [k \in DOMAIN node.interfaces[i].addresses |->
       node.interfaces[i].addresses[k].address]])

\* The subnets of a node's addresses, through the link that starts there
ConnectedRoutes(node, links_addr_map) ==
  LET cidrs == FlattenSeq([i \in DOMAIN node.interfaces |-> node.interfaces[i].addresses])
      linked == SelectSeq(cidrs, LAMBDA c : c.address \in DOMAIN links_addr_map)
  IN  [k \in DOMAIN linked |->
         <<linked[k].address, [destination |-> FromCidr(linked[k]),
                               next |-> links_addr_map[linked[k].address],
                               cost |-> 0]>>]

\* Every route of an interface, through each of the interface's addresses
ConfiguredRoutes(node) ==
  FlattenSeq([i \in DOMAIN node.interfaces |->
    LET face == node.interfaces[i]
    IN  FlattenSeq([r \in DOMAIN face.routes |->
          [k \in DOMAIN face.addresses |->
             <<face.addresses[k].address, face.routes[r]>>]])])

\* A bug: routes keep the order of the configuration.
Unsorted(routes) == routes

\* Cheapest first, and by address among equals
SortRoutes(routes) ==
  StableSort(routes, LAMBDA x, y :
    \/ x[2].cost < y[2].cost
    \/ x[2].cost = y[2].cost /\ x[1] < y[1])

RoutingTable(node, links_addr_map) ==
  ConnectedRoutes(node, links_addr_map) \o SortRoutes(ConfiguredRoutes(node))

----------------------------------------------------------------------------
(* InMemoryNetwork::walk_links *)

\* The address pairs of the links with a route to dest, in order
NextHops(routes, dest) ==
  LET hops == SelectSeq(routes, LAMBDA r : NextHop(r[2], dest) # None)
  IN  [k \in DOMAIN hops |-> <<hops[k][1], hops[k][2].next>>]

\* A full walk fails when any of those links does not exist.
walk_links(routes, pairs, dest) ==
  LET hops == NextHops(routes, dest)
  IN  IF ToSet(hops) \subseteq pairs THEN Ok(hops) ELSE Error

\* has_route_to breaks off the walk at the first link.
has_route_to(routes, pairs, dest) ==
  LET hops == NextHops(routes, dest)
  IN  hops # <<>> /\ hops[1] \in pairs

\* What process_buffer_for_node does with a packet to dest: the links it is
\* offered to, or an error that ends the task
Offer(routes, pairs, dest) ==
  IF has_route_to(routes, pairs, dest) THEN walk_links(routes, pairs, dest) ELSE Error
=============================================================================
