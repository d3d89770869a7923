------------------------------ MODULE Startup ------------------------------
(***************************************************************************)
(* How a simulation's network comes up: InMemoryNetwork::initialize builds *)
(* links and nodes from the specification, refuses an inconsistent one,    *)
(* gives every link and node its initial status and starts the task that   *)
(* processes the network events, each at its time                          *)
(* (in-memory-network/src/network/mod.rs).                                 *)
(***************************************************************************)
EXTENDS NetworkEvents

CONSTANTS
  Inputs,     \* the specifications and event lists to start from
  MaxTime     \* bound: the last instant of a behaviour

VARIABLES
  input,                      \* the files: [nodes, links, events]
  pc,                         \* what initialize() is doing
  todo,                       \* what its current loop has left
  links_by_addr, links_addr_map, links_by_id,
  nodes_by_addr, routes,      \* routes: the routing table of each node
  queue,                      \* events that the task has not processed
  linkUp, last_down, delay, nodeUp, last_buffer_clear,
  now

tables == <<links_by_addr, links_addr_map, links_by_id, nodes_by_addr, routes>>
status == <<linkUp, last_down, delay, nodeUp, last_buffer_clear>>
vars   == <<input, pc, todo, tables, queue, status, now>>

Empty == <<>>       \* the function with an empty domain
NoTime == -1

\* A function that also maps k to v: HashMap::insert
Insert(f, k, v) == [x \in DOMAIN f \union {k} |-> IF x = k THEN v ELSE f[x]]

\* The tables are created empty.  (initialize first refuses an old tracer and an
\* old start instant; its callers create both in the same instant.)
StartupInit ==
  /\ input \in Inputs
  /\ pc = "config"
  /\ todo = <<>> /\ queue = <<>>
  /\ links_by_addr = Empty /\ links_addr_map = Empty /\ links_by_id = {}
  /\ nodes_by_addr = Empty /\ routes = Empty
  /\ linkUp = Empty /\ last_down = Empty /\ delay = Empty
  /\ nodeUp = Empty /\ last_buffer_clear = Empty
  /\ now = 0

----------------------------------------------------------------------------
(* Reading the files *)

\* NetworkSpecJson into NetworkSpec, with every address and range parsed
Cidrs(node) ==
  UNION {ToSet(node.interfaces[i].addresses)
         \union {r.destination : r \in ToSet(node.interfaces[i].routes)} :
         i \in DOMAIN node.interfaces}

ReadNode(node) ==
  [id |-> node.id,
   interfaces |-> [i \in DOMAIN node.interfaces |->
     LET face == node.interfaces[i]
     IN  [addresses |-> [k \in DOMAIN face.addresses |-> ParseCidr(face.addresses[k]).value],
          routes    |-> [k \in DOMAIN face.routes |->
                          [destination |-> FromCidr(ParseCidr(face.routes[k].destination).value),
                           next |-> face.routes[k].next, cost |-> face.routes[k].cost]]]]]

Readable ==
  /\ \A n \in ToSet(input.nodes) : \A c \in Cidrs(n) : ParseCidr(c).ok
  /\ \A e \in ToSet(input.events) : ReadEvent(e).ok

Events == SortEvents([k \in DOMAIN input.events |-> ReadEvent(input.events[k]).value])

read_config ==
  /\ pc = "config"
  /\ \/ ~Readable /\ pc' = "refused" /\ UNCHANGED <<todo, queue>>
     \/ Readable /\ pc' = "links" /\ todo' = input.links /\ queue' = Events
  /\ UNCHANGED <<input, tables, status, now>>

----------------------------------------------------------------------------
(* initialize() *)

refuse ==
  /\ pc' = "refused"
  /\ UNCHANGED <<input, todo, tables, queue, status, now>>

\* The loop over the links.  The map from source to target keeps only the last
\* link of an address.
insert_link ==
  LET l == Head(todo)
      pair == <<l.source, l.target>>
  IN  /\ pc = "links" /\ todo # <<>>
      /\ \/ (pair \in DOMAIN links_by_addr \/ l.id \in links_by_id) /\ refuse
         \/ /\ pair \notin DOMAIN links_by_addr /\ l.id \notin links_by_id
            /\ links_addr_map' = Insert(links_addr_map, l.source, l.target)
            /\ links_by_addr' = Insert(links_by_addr, pair, l.id)
            /\ links_by_id' = links_by_id \union {l.id}
            /\ linkUp' = Insert(linkUp, l.id, TRUE)
            /\ last_down' = Insert(last_down, l.id, NoTime)
            /\ delay' = Insert(delay, l.id, l.delay)
            /\ todo' = Tail(todo)
            /\ UNCHANGED <<input, pc, nodes_by_addr, routes, queue, nodeUp,
                           last_buffer_clear, now>>

links_done ==
  /\ pc = "links" /\ todo = <<>>
  /\ \/ Len(input.nodes) < 2 /\ refuse
     \/ /\ Len(input.nodes) >= 2
        /\ pc' = "nodes"
        /\ todo' = [k \in DOMAIN input.nodes |-> ReadNode(input.nodes[k])]
        /\ UNCHANGED <<input, tables, queue, status, now>>

\* Node::new needs an address on the first interface.
HasAddress(node) == node.interfaces # <<>> /\ node.interfaces[1].addresses # <<>>

\* A bug: only the node's first address is looked at.
CanonicalFree(node) ==
  LET addrs == NodeAddresses(node) IN addrs[1] \notin DOMAIN nodes_by_addr

\* No address is taken, by another node or by the node itself.
AddressesFree(node) ==
  LET addrs == NodeAddresses(node)
  IN  /\ ToSet(addrs) \intersect DOMAIN nodes_by_addr = {}
      /\ IsInjective(addrs)

insert_node ==
  LET n == Head(todo)
  IN  /\ pc = "nodes" /\ todo # <<>>
      /\ \/ ~HasAddress(n) /\ refuse
         \/ HasAddress(n) /\ (~AddressesFree(n) \/ n.id \in DOMAIN nodeUp) /\ refuse
         \/ /\ HasAddress(n) /\ AddressesFree(n) /\ n.id \notin DOMAIN nodeUp
            /\ nodes_by_addr' = [a \in DOMAIN nodes_by_addr \union ToSet(NodeAddresses(n)) |->
                 IF a \in DOMAIN nodes_by_addr THEN nodes_by_addr[a] ELSE n.id]
            /\ routes' = Insert(routes, n.id, RoutingTable(n, links_addr_map))
            /\ nodeUp' = Insert(nodeUp, n.id, TRUE)
            /\ last_buffer_clear' = Insert(last_buffer_clear, n.id, NoTime)
            /\ todo' = Tail(todo)
            /\ UNCHANGED <<input, pc, links_by_addr, links_addr_map, links_by_id,
                           queue, linkUp, last_down, delay, now>>

Ids(s) == [k \in DOMAIN s |-> s[k].id]

nodes_done ==
  /\ pc = "nodes" /\ todo = <<>>
  /\ pc' = "initial"
  /\ todo' = InitialLinkEvents(queue, Ids(input.links))
             \o InitialNodeEvents(queue, Ids(input.nodes))
  /\ UNCHANGED <<input, tables, queue, status, now>>

----------------------------------------------------------------------------
(* Events *)

\* process_link_event: the delay first, and only if the link is down already
process_link_event(e) ==
  /\ delay' = IF e.delay # NoTime /\ ~linkUp[e.id]
              THEN [delay EXCEPT ![e.id] = e.delay] ELSE delay
  /\ linkUp' = IF e.status = "unchanged" THEN linkUp
               ELSE [linkUp EXCEPT ![e.id] = e.status = "up"]
  /\ last_down' = IF e.status = "down" /\ linkUp[e.id]
                  THEN [last_down EXCEPT ![e.id] = now] ELSE last_down
  /\ UNCHANGED <<nodeUp, last_buffer_clear>>

process_node_event(e) ==
  /\ nodeUp' = IF e.status = "unchanged" THEN nodeUp
               ELSE [nodeUp EXCEPT ![e.id] = e.status = "up"]
  /\ last_buffer_clear' = IF e.clear_buffer
                          THEN [last_buffer_clear EXCEPT ![e.id] = now]
                          ELSE last_buffer_clear
  /\ UNCHANGED <<linkUp, last_down, delay>>

\* An event for something that does not exist is skipped.
process(e) ==
  \/ e.kind = "link" /\ e.id \in links_by_id /\ process_link_event(e)
  \/ e.kind = "node" /\ e.id \in DOMAIN nodeUp /\ process_node_event(e)
  \/ /\ e.id \notin IF e.kind = "link" THEN links_by_id ELSE DOMAIN nodeUp
     /\ UNCHANGED status

initial_event ==
  /\ pc = "initial" /\ todo # <<>>
  /\ process(Head(todo))
  /\ todo' = Tail(todo)
  /\ UNCHANGED <<input, pc, tables, queue, now>>

\* initialize() returns; its background tasks run from now on.
initialized ==
  /\ pc = "initial" /\ todo = <<>>
  /\ pc' = "running"
  /\ UNCHANGED <<input, todo, tables, queue, status, now>>

Due(e) == now >= e.time

\* The background task, woken at the time of the next event
background_event ==
  /\ pc = "running" /\ queue # <<>>
  /\ Due(Head(queue))
  /\ process(Head(queue))
  /\ queue' = Tail(queue)
  /\ UNCHANGED <<input, pc, todo, tables, now>>

\* Nothing is left to do at this instant.
CaughtUp == pc = "running" /\ (queue # <<>> => ~Due(Head(queue)))

\* Time passes once the event task sleeps.
Tick ==
  /\ CaughtUp /\ now < MaxTime
  /\ now' = now + 1
  /\ UNCHANGED <<input, pc, todo, tables, queue, status>>

StartupNext ==
  \/ read_config \/ insert_link \/ links_done \/ insert_node \/ nodes_done
  \/ initial_event \/ initialized \/ background_event \/ Tick

StartupSpec == StartupInit /\ [][StartupNext]_vars

----------------------------------------------------------------------------
(* Properties.  They are stated on the files, not on what the code made of  *)
(* them.                                                                    *)

\* The same prefix of an address, the meaning of CIDR notation
InPrefix(parts, addr) ==
  LET host == Width - (IF Len(parts) > 1 THEN parts[2] ELSE Width)
  IN  parts[1] \div 2^host = addr \div 2^host

Faces(node) == {node.interfaces[i] : i \in DOMAIN node.interfaces}

AddrsOf(node) == UNION {{p[1] : p \in ToSet(f.addresses)} : f \in Faces(node)}

\* The next hops that node's configuration gives for dest: [via, next, cost]
Configured(node, dest) ==
  UNION {{[via |-> a[1], next |-> r.next, cost |-> r.cost] :
            a \in ToSet(f.addresses),
            r \in {q \in ToSet(f.routes) : InPrefix(q.destination, dest)}} : f \in Faces(node)}

\* Links out of an address whose subnet contains dest.  Of several links that
\* leave one address, only the last of the file counts.
Connected(node, dest) ==
  LET last(a) == SelectLastInSeq(input.links, LAMBDA l : l.source = a)
  IN  {<<a[1], input.links[last(a[1])].target>> :
         a \in {b \in UNION {ToSet(f.addresses) : f \in Faces(node)} :
                  InPrefix(b, dest) /\ last(b[1]) # 0}}

Pairs == DOMAIN links_by_addr

\* A packet is offered to exactly the links that the configuration names for
\* its destination, by CIDR prefix: the mask arithmetic of from_cidr loses no
\* route and adds none, and the task fails only for a destination without a
\* route or with a route over a link that does not exist.
OffersMatchConfiguration ==
  pc = "running" /\ now = 0 =>
    \A k \in DOMAIN input.nodes : \A dest \in Addresses :
      LET node  == input.nodes[k]
          hops  == {<<c.via, c.next>> : c \in Configured(node, dest)}
                   \union Connected(node, dest)
          offer == Offer(routes[node.id], Pairs, dest)
      IN  IF hops # {} /\ hops \subseteq Pairs
          THEN offer.ok /\ ToSet(offer.value) = hops
          ELSE ~offer.ok

\* "In order of priority (cheaper = better)": connected links come first, and
\* the first link that a packet is offered to otherwise is one with a route of
\* the least cost.
CheapestLinkFirst ==
  pc = "running" /\ now = 0 =>
    \A k \in DOMAIN input.nodes : \A dest \in Addresses :
      LET node  == input.nodes[k]
          offer == Offer(routes[node.id], Pairs, dest)
          confs == Configured(node, dest)
          first == offer.value[1]
      IN  offer.ok =>
            \/ first \in Connected(node, dest)
            \/ /\ Connected(node, dest) = {}
               /\ \E c \in confs : /\ <<c.via, c.next>> = first
                                   /\ \A d \in confs : c.cost <= d.cost

Twice(s) == ~IsInjective(s)

\* initialize() refuses exactly the inconsistent networks: an unreadable range
\* or event, fewer than two nodes, a node without an address, an address, a
\* pair of addresses or an id given twice.  Nothing of the order in which the
\* code looks at them matters.
RefusesInconsistentOnly ==
  pc \in {"running", "refused"} =>
    (pc = "refused" <=>
      \/ \E n \in ToSet(input.nodes) : \E c \in Cidrs(n) :
           \/ Len(c) > 2 \/ c[1] \notin Addresses
           \/ Len(c) = 2 /\ ~(0 < c[2] /\ c[2] <= Width)
      \/ \E e \in ToSet(input.events) : (e.link = "") = (e.node = "")
      \/ Len(input.nodes) < 2
      \/ \E n \in ToSet(input.nodes) :
           n.interfaces = <<>> \/ n.interfaces[1].addresses = <<>>
      \/ Twice(FlattenSeq([k \in DOMAIN input.nodes |->
           FlattenSeq([i \in DOMAIN input.nodes[k].interfaces |->
             [a \in DOMAIN input.nodes[k].interfaces[i].addresses |->
                input.nodes[k].interfaces[i].addresses[a][1]]])]))
      \/ Twice(Ids(input.nodes)) \/ Twice(Ids(input.links))
      \/ Twice([k \in DOMAIN input.links |->
                 <<input.links[k].source, input.links[k].target>>]))

\* The events of the file about the status of x, and those up to instant t
StatusEvents(x) ==
  {k \in DOMAIN input.events :
     /\ x \in {input.events[k].link, input.events[k].node}
     /\ input.events[k].status # "unchanged"}

StatusEventsUntil(x, t) == {k \in StatusEvents(x) : input.events[k].time <= t}

Before(j, k) ==
  \/ input.events[j].time < input.events[k].time
  \/ input.events[j].time = input.events[k].time /\ j < k

\* The status x should have: that of the last event so far, the opposite of the
\* first event to come, up when there is none
UpByEvents(x) ==
  LET past == StatusEventsUntil(x, now)
      all  == StatusEvents(x)
  IN  IF past # {}
      THEN \E k \in past : /\ input.events[k].status = "up"
                           /\ \A j \in past : j = k \/ Before(j, k)
      ELSE \A k \in all : (\A j \in all : j = k \/ Before(k, j)) =>
             input.events[k].status = "down"

\* "If an event is present at time 0, that event itself becomes the init
\* event": a link whose events at time 0 agree has that status as soon as the
\* network exists, before any background task runs.
LinksStartInTheirStatus ==
  pc = "running" /\ now = 0 =>
    \A l \in links_by_id : \A k \in StatusEventsUntil(l, 0) :
      (\A j \in StatusEventsUntil(l, 0) : input.events[j].status = input.events[k].status)
        => linkUp[l] = (input.events[k].status = "up")

\* Whenever the event task has caught up with the clock, every link and every
\* node has the status the file of events gives it for this instant, whatever
\* the order of the file.  In particular a node whose first event is at time 0,
\* which starts with the opposite status, has the right one before time passes;
\* a link has it even before the event task runs.
StatusFollowsEvents ==
  /\ CaughtUp => /\ \A l \in links_by_id : linkUp[l] = UpByEvents(l)
                 /\ \A n \in DOMAIN nodeUp : nodeUp[n] = UpByEvents(n)
  /\ LinksStartInTheirStatus
=============================================================================
