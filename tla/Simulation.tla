----------------------------- MODULE Simulation -----------------------------
(***************************************************************************)
(* The simulate command: the driver that starts all traffic patterns and   *)
(* waits for them (quinn-workbench/src/simulation.rs) and the QUIC         *)
(* request/response pattern, client and server                             *)
(* (quinn-workbench/src/quic/{client,server}.rs).                          *)
(*                                                                         *)
(* Quinn is external: a handshake, a request or a response takes any time; *)
(* in a faulty simulation either end may lose the connection (the idle     *)
(* timeout), also after the other one has closed it.  Sleeps take any      *)
(* time, so there is no clock.  The UDP patterns are in UdpTraffic; here   *)
(* they are tasks that end.                                                *)
(***************************************************************************)
EXTENDS Connectivity

CONSTANTS
  Simulations,        \* [patterns, faulty]: lists of patterns to run (records [kind,
                      \* client, server, connections, requests, streams, interval]),
                      \* and whether connections may be lost
  MaxPatterns,        \* bound: patterns of a list
  MAX_CONNECTIONS     \* 'Z' - 'A'

PatternRecords ==
  [kind : {"quic", "ping", "udp"}, client : Nat \X Nat, server : Nat \X Nat,
   connections : Nat, requests : Nat, streams : Nat, interval : BOOLEAN]

ASSUME SimulationAssumption ==
  /\ \A s \in Simulations : s.patterns \in Seq(PatternRecords) /\ s.faulty \in BOOLEAN
  /\ MaxPatterns \in Nat /\ MAX_CONNECTIONS \in Nat

VARIABLES
  driver,             \* what the driver is doing
  step,               \* the pattern its current loop looks at
  result,             \* "none", "ok", "error" or "panic"
  sockets,            \* udp_socket_created
  background,         \* UDP patterns whose task runs
  pattern_task,       \* of each QUIC pattern: "none", "running", "ok", "error"
  spawned,            \* connections spawned by each pattern
  requests_left,
  conn,               \* client connections: [pc, net, permits, made]
  streams,            \* request tasks of each connection: [client, server]
  server,             \* server connections: [pc, net]
  handled             \* the channel of server tasks, and how many were joined

setup == <<patterns, faulty, connectivityVars>>
clientVars == <<pattern_task, spawned, requests_left, conn>>
driverVars == <<driver, step, result, sockets, background>>
vars == <<setup, driverVars, clientVars, streams, server, handled>>

Quic == {p \in DOMAIN patterns : patterns[p].kind = "quic"}
ConnsOf(p) == {p} \X (1 .. patterns[p].connections)
Conns == UNION {ConnsOf(p) : p \in Quic}

SimulationInit ==
  /\ \E s \in Simulations : patterns = s.patterns /\ faulty = s.faulty
  /\ ConnectivityInit
  /\ driver = "validate" /\ step = 1 /\ result = "none"
  /\ sockets = {} /\ background = {}
  /\ pattern_task = [p \in Quic |-> "none"]
  /\ spawned = [p \in Quic |-> 0]
  /\ requests_left = [p \in Quic |-> patterns[p].requests]
  /\ conn = [c \in Conns |->
       [pc |-> "none", net |-> "none", permits |-> patterns[c[1]].streams, made |-> 0]]
  /\ streams = [c \in Conns |-> <<>>]
  /\ server = [c \in Conns |-> [pc |-> "none", net |-> "none"]]
  /\ handled = [queue |-> <<>>, joined |-> 0]

----------------------------------------------------------------------------
(* The driver: validation and setup *)

\* run() returns; what was spawned is abandoned.
Return(res) ==
  /\ driver' = "report" /\ result' = res
  /\ UNCHANGED <<setup, step, sockets, background, clientVars, streams,
                 server, handled>>

validate_traffic(p) == ~(p.interval /\ p.streams # 1)

driverOthers == <<patterns, faulty, step, sockets, background, clientVars, streams,
                  server, handled>>

\* An empty list or an incompatible option ends the command at once.  There is
\* no connectivity check when time warping is disabled.
validate ==
  LET valid == /\ patterns # <<>>
               /\ \A p \in DOMAIN patterns :
                    patterns[p].kind = "quic" => validate_traffic(patterns[p])
  IN  /\ driver = "validate"
      /\ \/ ~valid /\ driver' = "finished" /\ result' = "error"
         \/ valid /\ driver' \in {"connectivity", "servers"} /\ UNCHANGED result
      /\ UNCHANGED <<driverOthers, connectivityVars>>

check_connectivity ==
  /\ driver = "connectivity" /\ CheckStep
  /\ UNCHANGED <<driver, result, driverOthers>>

check_network ==
  /\ driver = "connectivity" /\ NetworkStep
  /\ UNCHANGED <<driver, result, driverOthers>>

\* The network of the check is dropped.
connectivity_checked ==
  /\ driver = "connectivity" /\ check.result # "none"
  /\ \/ check.result = "passed" /\ driver' = "servers" /\ UNCHANGED result
     \/ check.result = "failed" /\ driver' = "finished" /\ result' = "error"
     \/ check.result = "panic" /\ driver' = "finished" /\ result' = "panic"
  /\ NewCheck(check', inbound', flying', trace')
  /\ UNCHANGED driverOthers

\* udp_socket_for_node(..).unwrap() panics when the socket exists.
Panics(socket) == socket \in sockets

\* The loop over the servers: one-direction traffic has none.
start_server ==
  LET p == patterns[step]
  IN  /\ driver = "servers" /\ step <= Len(patterns)
      /\ p.kind # "udp" => p.server[1] \in Nodes
      /\ \/ p.kind = "udp" /\ UNCHANGED <<sockets, driver, result>>
         \/ /\ p.kind # "udp" /\ ~Panics(p.server)
            /\ sockets' = sockets \union {p.server}
            /\ UNCHANGED <<driver, result>>
         \/ /\ p.kind # "udp" /\ Panics(p.server)
            /\ driver' = "finished" /\ result' = "panic" /\ UNCHANGED sockets
      /\ step' = step + 1
      /\ UNCHANGED <<setup, background, clientVars, streams, server, handled>>

\* network.node(ip)? in either loop; the check would have found out earlier.
node_unknown ==
  /\ step <= Len(patterns)
  /\ \/ /\ driver = "servers" /\ patterns[step].kind # "udp"
        /\ patterns[step].server[1] \notin Nodes
     \/ driver = "clients" /\ patterns[step].client[1] \notin Nodes
  /\ Return("error")

servers_started ==
  /\ driver = "servers" /\ step > Len(patterns)
  /\ driver' = "clients" /\ step' = 1
  /\ UNCHANGED <<setup, result, sockets, background, clientVars, streams,
                 server, handled>>

start_client ==
  LET p == patterns[step]
  IN  /\ driver = "clients" /\ step <= Len(patterns) /\ p.client[1] \in Nodes
      /\ \/ /\ p.kind = "udp"
            /\ background' = background \union {step}
            /\ UNCHANGED <<sockets, pattern_task, driver, result>>
         \/ /\ p.kind = "ping" /\ ~Panics(p.client)
            /\ sockets' = sockets \union {p.client}
            /\ background' = background \union {step}
            /\ UNCHANGED <<pattern_task, driver, result>>
         \/ /\ p.kind = "quic" /\ ~Panics(p.client)
            /\ sockets' = sockets \union {p.client}
            /\ pattern_task' = [pattern_task EXCEPT ![step] = "running"]
            /\ UNCHANGED <<background, driver, result>>
         \/ /\ p.kind # "udp" /\ Panics(p.client)
            /\ driver' = "finished" /\ result' = "panic"
            /\ UNCHANGED <<sockets, background, pattern_task>>
      /\ step' = step + 1
      /\ UNCHANGED <<setup, spawned, requests_left, conn, streams, server,
                     handled>>

clients_started ==
  /\ driver = "clients" /\ step > Len(patterns)
  /\ driver' = "udp" /\ step' = 1
  /\ UNCHANGED <<setup, result, sockets, background, clientVars, streams,
                 server, handled>>

\* One thread runs everything: tasks run while the driver waits for something.
Alive == driver \in {"udp", "quic", "handled"}

background_ends(p) ==
  /\ p \in background /\ Alive
  /\ background' = background \ {p}
  /\ UNCHANGED <<setup, driver, step, result, sockets, clientVars, streams,
                 server, handled>>

----------------------------------------------------------------------------
(* The driver: waiting *)

udp_joined ==
  /\ driver = "udp" /\ background = {}
  /\ driver' = "quic"
  /\ UNCHANGED <<setup, step, result, sockets, background, clientVars,
                 streams, server, handled>>

\* The client tasks are joined in order; the first error ends the run.
quic_joined ==
  LET pending == {p \in Quic : pattern_task[p] # "ok"}
      next    == CHOOSE p \in pending : \A q \in pending : p <= q
  IN  /\ driver = "quic"
      /\ \/ pending # {} /\ pattern_task[next] = "error" /\ Return("error")
         \/ /\ pending = {}
            /\ driver' = "handled"
            /\ UNCHANGED <<setup, step, result, sockets, background,
                           clientVars, streams, server, handled>>

\* A bug: one server task less is waited for.
FewerConnections == Cardinality(Conns) - 1

TotalConnections == Cardinality(Conns)

\* As many server tasks are joined as there are client connections, in the
\* order in which the servers accepted them.
server_task_joined ==
  /\ driver = "handled"
  /\ \/ handled.joined >= TotalConnections /\ Return("ok")
     \/ /\ handled.joined < Len(handled.queue) /\ handled.joined < TotalConnections
        /\ LET pc == server[handled.queue[handled.joined + 1]].pc
           IN  \/ pc \in {"error", "panic"} /\ Return("error")
               \/ /\ pc = "ok"
                  /\ handled' = [handled EXCEPT !.joined = @ + 1]
                  /\ UNCHANGED <<setup, driverVars, clientVars, streams,
                                 server>>

NodesUnknown ==
  \E p \in DOMAIN patterns : ~({patterns[p].client[1], patterns[p].server[1]} \subseteq Nodes)

\* A node may have one role, unless all traffic is one-direction.
NodesReused ==
  /\ \E p \in DOMAIN patterns : patterns[p].kind # "udp"
  /\ Cardinality({patterns[p].client[1] : p \in DOMAIN patterns}
                 \union {patterns[p].server[1] : p \in DOMAIN patterns})
       < 2 * Len(patterns)

\* Also network.node(ip)? of every node with a role
report_stats ==
  /\ driver = "report"
  /\ driver' = "finished"
  /\ result' = IF NodesReused \/ NodesUnknown THEN "error" ELSE result
  /\ UNCHANGED <<setup, step, sockets, background, clientVars, streams,
                 server, handled>>

----------------------------------------------------------------------------
(* The client *)

\* run_traffic_pattern spawns the connections one by one, ...
spawn_connection(p) ==
  LET c == <<p, spawned[p] + 1>>
  IN  /\ Alive /\ pattern_task[p] = "running"
      /\ patterns[p].connections <= MAX_CONNECTIONS
      /\ spawned[p] < patterns[p].connections
      /\ spawned' = [spawned EXCEPT ![p] = @ + 1]
      /\ conn' = [conn EXCEPT ![c].pc = "connecting"]
      /\ UNCHANGED <<setup, driverVars, pattern_task, requests_left, streams,
                     server, handled>>

\* The first task that is not fine decides, once those before it are done.
FirstFailed(states) ==
  \E k \in DOMAIN states : states[k] = "failed" /\ \A j \in 1 .. k - 1 : states[j] = "ok"

\* ... and joins them in order.
pattern_ends(p) ==
  LET states == [i \in 1 .. patterns[p].connections |-> conn[<<p, i>>].pc]
      refused == patterns[p].connections > MAX_CONNECTIONS
  IN  /\ Alive /\ pattern_task[p] = "running"
      /\ \/ /\ refused \/ (spawned[p] = patterns[p].connections /\ FirstFailed(states))
            /\ pattern_task' = [pattern_task EXCEPT ![p] = "error"]
         \/ /\ ~refused /\ \A i \in DOMAIN states : states[i] = "ok"
            /\ pattern_task' = [pattern_task EXCEPT ![p] = "ok"]
      /\ UNCHANGED <<setup, driverVars, spawned, requests_left, conn, streams,
                     server, handled>>

\* The handshake needs an answer of the server.
connect(c) ==
  /\ Alive /\ conn[c].pc = "connecting"
  /\ \/ /\ server[c].pc # "none"
        /\ conn' = [conn EXCEPT ![c].pc = "loop", ![c].net = "open"]
     \/ /\ faulty
        /\ conn' = [conn EXCEPT ![c].pc = "failed", ![c].net = "lost"]
  /\ UNCHANGED <<setup, driverVars, pattern_task, spawned, requests_left,
                 streams, server, handled>>

\* A bug: the counter is looked at here and decremented when the request is sent.
PeekRequest(c) ==
  LET p == c[1]
  IN  \/ /\ requests_left[p] = 0
         /\ conn' = [conn EXCEPT ![c].pc = "joining"]
         /\ UNCHANGED requests_left
      \/ /\ requests_left[p] > 0
         /\ conn' = [conn EXCEPT ![c].pc = "acquire"]
         /\ requests_left' = [requests_left EXCEPT
              ![p] = IF conn[c].made > 0 THEN @ - 1 ELSE @]

\* Take one of the requests that all connections of the pattern share.
TakeRequest(c) ==
  LET p == c[1]
  IN  \/ /\ requests_left[p] = 0
         /\ conn' = [conn EXCEPT ![c].pc = "joining"]
         /\ UNCHANGED requests_left
      \/ /\ requests_left[p] > 0
         /\ requests_left' = [requests_left EXCEPT ![p] = @ - 1]
         /\ conn' = [conn EXCEPT ![c].pc = "acquire"]

take_request(c) ==
  /\ Alive /\ conn[c].pc = "loop"
  /\ TakeRequest(c)
  /\ UNCHANGED <<setup, driverVars, pattern_task, spawned, streams, server,
                 handled>>

NewStream == [client |-> "spawned", server |-> "none"]

\* Wait for a permit; before any request but the first, sleep for the interval.
acquire_permit(c) ==
  LET sleeps == patterns[c[1]].interval /\ conn[c].made > 0
  IN  /\ Alive /\ conn[c].pc = "acquire" /\ conn[c].permits > 0
      /\ \/ /\ sleeps
            /\ conn' = [conn EXCEPT ![c].pc = "sleep", ![c].permits = @ - 1]
            /\ UNCHANGED streams
         \/ /\ ~sleeps
            /\ conn' = [conn EXCEPT ![c].pc = "loop", ![c].permits = @ - 1, ![c].made = @ + 1]
            /\ streams' = [streams EXCEPT ![c] = Append(@, NewStream)]
      /\ UNCHANGED <<setup, driverVars, pattern_task, spawned, requests_left,
                     server, handled>>

interval_elapsed(c) ==
  /\ Alive /\ conn[c].pc = "sleep"
  /\ conn' = [conn EXCEPT ![c].pc = "loop", ![c].made = @ + 1]
  /\ streams' = [streams EXCEPT ![c] = Append(@, NewStream)]
  /\ UNCHANGED <<setup, driverVars, pattern_task, spawned, requests_left,
                 server, handled>>

\* A bug: the permit comes back with the request, not with the response.
EarlyRelease(c, to) == IF to = "requested" THEN 1 ELSE 0

\* A bug: a request that fails keeps its permit.
ReleaseOnSuccess(c, to) == IF to = "ok" THEN 1 ELSE 0

\* The permit is dropped with the task.
Release(c, to) == IF to \in {"ok", "failed"} THEN 1 ELSE 0

\* The task of request k on connection c
request(c, k) ==
  LET s == streams[c][k]
      advance(to) ==
        /\ streams' = [streams EXCEPT ![c][k].client = to]
        /\ conn' = [conn EXCEPT ![c].permits = @ + Release(c, to)]
  IN  /\ Alive
      /\ \/ s.client = "spawned" /\ conn[c].net = "open" /\ advance("requested")
         \/ /\ s.client = "requested" /\ conn[c].net = "open" /\ s.server = "answered"
            /\ advance("ok")
         \/ s.client \in {"spawned", "requested"} /\ conn[c].net = "lost" /\ advance("failed")
      /\ UNCHANGED <<setup, driverVars, pattern_task, spawned, requests_left,
                     server, handled>>

\* What close() makes of a connection: nothing, if quinn has given it up already
Closed(net) == IF net = "lost" THEN "lost" ELSE "closed"

\* The request tasks are joined in order; the connection is closed if all is well.
connection_ends(c) ==
  LET states == [k \in DOMAIN streams[c] |-> streams[c][k].client]
  IN  /\ Alive /\ conn[c].pc = "joining"
      /\ \/ /\ FirstFailed(states)
            /\ conn' = [conn EXCEPT ![c].pc = "failed"]
         \/ /\ \A k \in DOMAIN states : states[k] = "ok"
            /\ conn' = [conn EXCEPT ![c].pc = "ok", ![c].net = Closed(@)]
      /\ UNCHANGED <<setup, driverVars, pattern_task, spawned, requests_left,
                     streams, server, handled>>

\* Quinn gives up the connection.
client_loses(c) ==
  /\ Alive /\ faulty /\ conn[c].net = "open"
  /\ conn' = [conn EXCEPT ![c].net = "lost"]
  /\ UNCHANGED <<setup, driverVars, pattern_task, spawned, requests_left,
                 streams, server, handled>>

----------------------------------------------------------------------------
(* The server *)

serverOthers == <<setup, driverVars, clientVars>>

\* The accept loop spawns a task per connection and reports it to the driver.
accept_connection(c) ==
  /\ Alive /\ conn[c].pc = "connecting" /\ server[c].pc = "none"
  /\ server' = [server EXCEPT ![c].pc = "handshake"]
  /\ handled' = [handled EXCEPT !.queue = Append(@, c)]
  /\ UNCHANGED <<serverOthers, streams>>

handshake(c) ==
  /\ Alive /\ server[c].pc = "handshake"
  /\ \/ /\ conn[c].net \in {"open", "closed"}
        /\ server' = [server EXCEPT ![c].pc = "accepting", ![c].net = "open"]
     \/ faulty /\ server' = [server EXCEPT ![c].pc = "error", ![c].net = "lost"]
  /\ UNCHANGED <<serverOthers, streams, handled>>

accept_stream(c, k) ==
  /\ Alive /\ server[c].pc = "accepting" /\ server[c].net = "open"
  /\ streams[c][k].server = "none" /\ streams[c][k].client \in {"requested", "failed"}
  /\ streams' = [streams EXCEPT ![c][k].server = "accepted"]
  /\ UNCHANGED <<serverOthers, server, handled>>

respond(c, k) ==
  /\ Alive /\ streams[c][k].server = "accepted"
  /\ streams' = [streams EXCEPT ![c][k].server =
       IF server[c].net = "open" THEN "answered" ELSE "failed"]
  /\ UNCHANGED <<serverOthers, server, handled>>

\* The server learns of the end of the connection.
server_closed(c) ==
  /\ Alive /\ server[c].net = "open"
  /\ \/ conn[c].net = "closed" /\ server' = [server EXCEPT ![c].net = "closed"]
     \/ faulty /\ server' = [server EXCEPT ![c].net = "lost"]
  /\ UNCHANGED <<serverOthers, streams, handled>>

\* A bug: a connection without requests counts as one that broke.
IdleIsError(c) ==
  IF streams[c] = <<>> THEN "error" ELSE IF server[c].net = "closed" THEN "ok" ELSE "panic"

\* accept_bi has failed: all stream tasks are joined, then the reason of the
\* end is looked at.  Anything but a close by the client is a panic.
Verdict(c) ==
  LET tasks == {k \in DOMAIN streams[c] : streams[c][k].server # "none"}
  IN  IF \E k \in tasks : streams[c][k].server = "failed" THEN "error"
      ELSE IF server[c].net = "closed" THEN "ok" ELSE "panic"

server_ends(c) ==
  /\ Alive /\ server[c].pc = "accepting" /\ server[c].net # "open"
  /\ \A k \in DOMAIN streams[c] : streams[c][k].server # "accepted"
  /\ server' = [server EXCEPT ![c].pc = Verdict(c)]
  /\ UNCHANGED <<serverOthers, streams, handled>>

----------------------------------------------------------------------------

Driver ==
  \/ validate \/ check_connectivity \/ connectivity_checked
  \/ start_server \/ node_unknown \/ servers_started \/ start_client \/ clients_started
  \/ udp_joined \/ quic_joined \/ server_task_joined \/ report_stats

ClientTask(c) ==
  \/ connect(c) \/ take_request(c) \/ acquire_permit(c) \/ interval_elapsed(c)
  \/ connection_ends(c)
  \/ \E k \in DOMAIN streams[c] : request(c, k)

ServerTask(c) ==
  \/ accept_connection(c) \/ handshake(c) \/ server_ends(c)
  \/ \E k \in DOMAIN streams[c] : accept_stream(c, k) \/ respond(c, k)

SimulationNext ==
  \/ Driver \/ check_network
  \/ \E p \in DOMAIN patterns : background_ends(p)
  \/ \E p \in Quic : spawn_connection(p) \/ pattern_ends(p)
  \/ \E c \in Conns : ClientTask(c) \/ client_loses(c)
  \/ \E c \in Conns : ServerTask(c) \/ server_closed(c)

AllConns == (1 .. MaxPatterns) \X (1 .. MAX_CONNECTIONS)

\* Tasks that can run do; UDP patterns end (UdpTraffic shows it).  Of quinn it is
\* assumed that it carries on or gives up: a connection whose other end is gone
\* is lost after its idle timeout.
SimulationSpec ==
  /\ SimulationInit /\ [][SimulationNext]_vars
  /\ WF_vars(Driver) /\ WF_vars(check_network)
  /\ WF_vars(\E p \in DOMAIN patterns : background_ends(p))
  /\ WF_vars(\E p \in Quic : spawn_connection(p) \/ pattern_ends(p))
  /\ \A c \in AllConns : /\ WF_vars(c \in Conns /\ ClientTask(c))
                         /\ WF_vars(c \in Conns /\ ServerTask(c))
                         /\ WF_vars(/\ c \in Conns
                                    /\ conn[c].net # "open" /\ server_closed(c))
                         /\ WF_vars(/\ c \in Conns
                                    /\ server[c].net = "lost" /\ client_loses(c))

----------------------------------------------------------------------------
(* Properties *)

Tasks(c, what) == {k \in DOMAIN streams[c] : streams[c][k].client \in what}

\* Requests that connection c has taken from the shared counter
Taken(c) == conn[c].made + IF conn[c].pc \in {"acquire", "sleep"} THEN 1 ELSE 0

\* The requests of a pattern are shared out among its connections: none is
\* taken twice or forgotten, whatever the connections wait for in between.
RequestsConserved ==
  \A p \in Quic :
    requests_left[p] + FoldLeft(+, 0, [i \in 1 .. patterns[p].connections |-> Taken(<<p, i>>)])
      = patterns[p].requests

\* "Requests are sent sequentially, so each new request is sent when the
\* response of the previous one is received": a connection has at most as many
\* requests without a response as it may have streams, and every permit is
\* accounted for, also when requests fail.
StreamsLimited ==
  \A c \in Conns :
    conn[c].permits + Cardinality(Tasks(c, {"spawned", "requested"}))
      + (IF conn[c].pc = "sleep" THEN 1 ELSE 0) = patterns[c[1]].streams

\* A simulation that succeeds has made every request of every pattern (unless it
\* was to use no connections) and got every response, all servers saw their connections closed by the client, and
\* no node had two roles.
SuccessIsComplete ==
  driver = "finished" /\ result = "ok" =>
    /\ \A p \in Quic : patterns[p].connections > 0 =>
         FoldLeft(+, 0, [i \in 1 .. patterns[p].connections |->
                           Cardinality(Tasks(<<p, i>>, {"ok"}))]) = patterns[p].requests
    /\ \A c \in Conns : server[c] = [pc |-> "ok", net |-> "closed"]
    /\ background = {}
    /\ ~NodesReused

\* Without faults, the end of a simulation is decided by the traffic file: it
\* succeeds unless the file is refused, and it panics only when two patterns
\* want one socket.  In particular no server task fails or panics because the
\* client closes the connection as soon as it has the last response.
NoFalseAlarm ==
  driver = "finished" /\ ~faulty =>
    /\ result = "error" =>
         \/ patterns = <<>> \/ NodesReused \/ NodesUnknown
         \/ \E p \in DOMAIN patterns :
              \/ patterns[p].kind = "quic" /\ patterns[p].interval /\ patterns[p].streams # 1
              \/ patterns[p].kind = "quic" /\ patterns[p].connections > MAX_CONNECTIONS
    /\ result = "panic" => NodesReused

\* The simulation ends: no task waits for one that is gone, whichever end of
\* which connection is lost and when.
SimulationFinishes == <>(driver = "finished")

----------------------------------------------------------------------------
(* What the properties of requests and streams depend on *)

ConnRecords ==
  [pc : {"none", "connecting", "loop", "acquire", "sleep", "joining", "ok", "failed"},
   net : {"none", "open", "closed", "lost"}, permits : Nat, made : Nat]
StreamRecords ==
  [client : {"spawned", "requested", "ok", "failed"},
   server : {"none", "accepted", "answered", "failed"}]
ServerRecords ==
  [pc : {"none", "handshake", "accepting", "ok", "error", "panic"},
   net : {"none", "open", "closed", "lost"}]

TrafficTypeOK ==
  /\ patterns \in Seq(PatternRecords)
  /\ pattern_task \in [Quic -> {"none", "running", "ok", "error"}]
  /\ spawned \in [Quic -> Nat] /\ requests_left \in [Quic -> Nat]
  /\ conn \in [Conns -> ConnRecords]
  /\ streams \in [Conns -> Seq(StreamRecords)]
  /\ server \in [Conns -> ServerRecords]

\* Connections are spawned in order.
SpawnedInOrder == \A c \in Conns : c[2] > spawned[c[1]] => conn[c].pc = "none"

RequestInv == TrafficTypeOK /\ SpawnedInOrder /\ RequestsConserved /\ StreamsLimited

\* A connection that joins its requests has found none left, and the counter
\* never rises; a pattern is done when its connections are.
JoinsComplete ==
  /\ \A c \in Conns :
       /\ conn[c].made = Len(streams[c])
       /\ conn[c].pc \in {"joining", "ok"} => requests_left[c[1]] = 0
       /\ conn[c].pc = "ok" => \A k \in DOMAIN streams[c] : streams[c][k].client = "ok"
  /\ \A p \in Quic : pattern_task[p] = "ok" => \A c \in ConnsOf(p) : conn[c].pc = "ok"

\* The driver has waited for all patterns.
TrafficDone == background = {} /\ \A p \in Quic : pattern_task[p] = "ok"

\* Every connection is accepted once, and those joined were closed by the client.
ServersJoined ==
  /\ DOMAIN handled = {"queue", "joined"}
  /\ handled.queue \in Seq(Conns) /\ handled.joined \in 0 .. Len(handled.queue)
  /\ \A i \in DOMAIN handled.queue : server[handled.queue[i]].pc # "none"
  /\ \A i, j \in DOMAIN handled.queue : handled.queue[i] = handled.queue[j] => i = j
  /\ \A i \in 1 .. handled.joined : server[handled.queue[i]].pc = "ok"
  /\ \A c \in Conns : server[c].pc = "ok" => server[c].net = "closed"

SuccessInv ==
  /\ RequestInv /\ JoinsComplete /\ ServersJoined
  /\ driver \in {"quic", "handled"} => background = {}
  /\ driver = "handled" => TrafficDone
  /\ result = "ok" =>
       /\ driver \in {"report", "finished"}
       /\ TrafficDone /\ handled.joined >= TotalConnections
       /\ driver = "finished" => ~NodesReused

\* Without faults nothing is lost, so nothing fails: ...
NothingLost(c) ==
  /\ conn[c].pc # "failed" /\ conn[c].net # "lost"
  /\ server[c].net # "lost" /\ server[c].pc \notin {"error", "panic"}
  /\ conn[c].net = "closed" => conn[c].pc = "ok"
  /\ server[c].net = "closed" => conn[c].net = "closed"
  /\ server[c].pc = "accepting" => server[c].net \in {"open", "closed"}
  /\ \A k \in DOMAIN streams[c] :
       /\ streams[c][k].client # "failed" /\ streams[c][k].server # "failed"
       /\ streams[c][k].client = "ok" => streams[c][k].server = "answered"
       /\ streams[c][k].server # "none" => server[c].net # "none"

\* ... what refuses a traffic file is in it, ...
Refused ==
  \/ patterns = <<>> \/ NodesReused \/ NodesUnknown
  \/ \E p \in Quic : \/ ~validate_traffic(patterns[p])
                     \/ patterns[p].connections > MAX_CONNECTIONS

CalmInv ==
  ~faulty =>
    /\ \A c \in Conns : NothingLost(c)
    /\ \A p \in Quic : pattern_task[p] = "error" => patterns[p].connections > MAX_CONNECTIONS
    /\ \A i \in DOMAIN check.got : check.got[i] # Timeout
    /\ check.result # "panic" /\ (check.result = "failed" => NodesUnknown)
    /\ result = "error" => Refused
    /\ result = "panic" => NodesReused

\* ... and sockets are those of the patterns that have been started.
Bound(n) == {q \in DOMAIN patterns : q < n /\ patterns[q].kind # "udp"}
Servers(n) == {patterns[q].server : q \in Bound(n)}
Clients(n) == {patterns[q].client : q \in Bound(n)}

StartedSockets ==
  /\ step \in Nat \ {0}
  /\ driver \in {"validate", "connectivity"} => sockets = {}
  /\ driver = "servers" => sockets \subseteq Servers(step)
  /\ driver = "clients" => sockets \subseteq Servers(Len(patterns) + 1) \union Clients(step)

\* A list of patterns that is checked is not empty.
ConnectivityInv ==
  /\ patterns \in Seq(PatternRecords) /\ CheckInv
  /\ driver = "connectivity" => patterns # <<>>

DriverInv == SuccessInv /\ ConnectivityInv /\ StartedSockets /\ CalmInv
=============================================================================
