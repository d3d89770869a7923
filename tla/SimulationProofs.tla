-------------------------- MODULE SimulationProofs --------------------------
(***************************************************************************)
(* Proofs about the simulation driver, the QUIC applications and the       *)
(* connectivity check, for every traffic file.                             *)
(***************************************************************************)
EXTENDS Simulation, SumLemmas, FiniteSetTheorems, TLAPS

\* The traffic file does not change.
LEMMA PatternsFixed ==
  ASSUME [SimulationNext]_vars
  PROVE  /\ patterns' = patterns /\ faulty' = faulty
         /\ Quic' = Quic /\ Conns' = Conns
<1>1. patterns' = patterns /\ faulty' = faulty
  BY DEF SimulationNext, Driver, validate, check_connectivity, connectivity_checked,
         start_server, node_unknown, servers_started, start_client, clients_started, udp_joined,
         quic_joined, server_task_joined, report_stats, check_network, background_ends,
         spawn_connection, pattern_ends, ClientTask, client_loses, ServerTask, server_closed,
         connect, take_request, acquire_permit, interval_elapsed, connection_ends, request,
         accept_connection, handshake, server_ends, accept_stream, respond,
         Return, driverOthers, setup, serverOthers, vars
<1> QED
  BY <1>1 DEF Quic, Conns, ConnsOf

----------------------------------------------------------------------------
(* What a step does to the connections *)

\* Steps of the driver, of the check and of a pattern leave connections alone.
LEMMA StepCases ==
  ASSUME [SimulationNext]_vars
  PROVE  \/ UNCHANGED <<spawned, requests_left, conn, streams, server>>
         \/ \E p \in Quic : spawn_connection(p)
         \/ \E c \in Conns : ClientTask(c) \/ client_loses(c)
         \/ \E c \in Conns : ServerTask(c) \/ server_closed(c)
BY DEF SimulationNext, Driver, validate, check_connectivity, connectivity_checked,
       start_server, node_unknown, servers_started, start_client, clients_started, udp_joined,
       quic_joined, server_task_joined, report_stats, check_network, background_ends,
       pattern_ends, Return, driverOthers, clientVars, vars

\* Of the connections, c alone changes.
OnlyConn(c) ==
  \A d \in Conns : d # c => /\ conn'[d] = conn[d] /\ streams'[d] = streams[d]
                            /\ server'[d] = server[d]

LEMMA PatternOf ==
  ASSUME NEW c \in Conns, TrafficTypeOK
  PROVE  /\ c[1] \in Quic /\ c[2] \in 1 .. patterns[c[1]].connections /\ c = <<c[1], c[2]>>
         /\ patterns[c[1]] \in PatternRecords /\ patterns[c[1]].connections \in Nat
         /\ conn[c] \in ConnRecords /\ server[c] \in ServerRecords
         /\ streams[c] \in Seq(StreamRecords)
<1>1. PICK p \in Quic : c \in ConnsOf(p)
  BY DEF Conns
<1>2. c[1] = p /\ c[2] \in 1 .. patterns[p].connections /\ c = <<c[1], c[2]>>
  BY <1>1 DEF ConnsOf
<1>3. p \in DOMAIN patterns /\ patterns[p] \in PatternRecords
  BY DEF Quic, TrafficTypeOK
<1> QED
  BY <1>1, <1>2, <1>3 DEF TrafficTypeOK, PatternRecords

----------------------------------------------------------------------------
(* Types *)

LEMMA TypeInit == SimulationInit => TrafficTypeOK
<1> SUFFICES ASSUME SimulationInit PROVE TrafficTypeOK
  OBVIOUS
<1>1. patterns \in Seq(PatternRecords)
  BY SimulationAssumption DEF SimulationInit
<1>2. ASSUME NEW p \in Quic
      PROVE  patterns[p].requests \in Nat /\ patterns[p].streams \in Nat
  <2>1. patterns[p] \in PatternRecords
    BY <1>1 DEF Quic
  <2> QED
    BY <2>1 DEF PatternRecords
<1>3. ASSUME NEW c \in Conns PROVE c[1] \in Quic
  BY DEF Conns, ConnsOf
<1>4. pattern_task \in [Quic -> {"none", "running", "ok", "error"}] /\ spawned \in [Quic -> Nat]
  BY DEF SimulationInit
<1>5. requests_left \in [Quic -> Nat]
  BY <1>2 DEF SimulationInit
<1>6. conn \in [Conns -> ConnRecords]
  BY <1>2, <1>3 DEF SimulationInit, ConnRecords
<1>7. streams \in [Conns -> Seq(StreamRecords)] /\ server \in [Conns -> ServerRecords]
  BY DEF SimulationInit, ServerRecords
<1> QED
  BY <1>1, <1>4, <1>5, <1>6, <1>7 DEF TrafficTypeOK

\* Connection c has a new record, of the right type; the others keep theirs.
NewConn(c, pc, net, permits, made) ==
  /\ conn' \in [Conns -> ConnRecords]
  /\ conn'[c].pc = pc /\ conn'[c].net = net
  /\ conn'[c].permits = permits /\ conn'[c].made = made
  /\ \A d \in Conns : d # c => conn'[d] = conn[d]

LEMMA ConnDomain ==
  ASSUME TrafficTypeOK, NEW c \in Conns
  PROVE  /\ conn \in [Conns -> ConnRecords] /\ conn[c] \in ConnRecords
         /\ DOMAIN conn[c] = {"pc", "net", "permits", "made"}
         /\ conn[c].permits \in Nat /\ conn[c].made \in Nat
BY DEF TrafficTypeOK, ConnRecords

LEMMA ConnectEffect ==
  ASSUME TrafficTypeOK, NEW c \in Conns, connect(c)
  PROVE  \/ NewConn(c, "loop", "open", conn[c].permits, conn[c].made)
         \/ faulty /\ NewConn(c, "failed", "lost", conn[c].permits, conn[c].made)
<1>1. CASE conn' = [conn EXCEPT ![c].pc = "loop", ![c].net = "open"]
  BY <1>1, ConnDomain DEF NewConn, ConnRecords
<1>2. CASE faulty /\ conn' = [conn EXCEPT ![c].pc = "failed", ![c].net = "lost"]
  BY <1>2, ConnDomain DEF NewConn, ConnRecords
<1> QED
  BY <1>1, <1>2 DEF connect

LEMMA TakeEffect ==
  ASSUME TrafficTypeOK, NEW c \in Conns, take_request(c)
  PROVE  \/ /\ requests_left[c[1]] = 0 /\ requests_left' = requests_left
            /\ NewConn(c, "joining", conn[c].net, conn[c].permits, conn[c].made)
         \/ /\ requests_left[c[1]] > 0
            /\ requests_left' = [requests_left EXCEPT ![c[1]] = @ - 1]
            /\ NewConn(c, "acquire", conn[c].net, conn[c].permits, conn[c].made)
<1>1. conn' = [conn EXCEPT ![c].pc = "joining"] =>
        NewConn(c, "joining", conn[c].net, conn[c].permits, conn[c].made)
  BY ConnDomain DEF NewConn, ConnRecords
<1>2. conn' = [conn EXCEPT ![c].pc = "acquire"] =>
        NewConn(c, "acquire", conn[c].net, conn[c].permits, conn[c].made)
  BY ConnDomain DEF NewConn, ConnRecords
<1> QED
  BY <1>1, <1>2 DEF take_request, TakeRequest

LEMMA AcquireEffect ==
  ASSUME TrafficTypeOK, NEW c \in Conns, acquire_permit(c)
  PROVE  \/ /\ NewConn(c, "sleep", conn[c].net, conn[c].permits - 1, conn[c].made)
            /\ streams' = streams
         \/ /\ NewConn(c, "loop", conn[c].net, conn[c].permits - 1, conn[c].made + 1)
            /\ streams' = [streams EXCEPT ![c] = Append(@, NewStream)]
<1>1. conn[c].permits > 0
  BY DEF acquire_permit
<1>2. conn' = [conn EXCEPT ![c].pc = "sleep", ![c].permits = @ - 1] =>
        NewConn(c, "sleep", conn[c].net, conn[c].permits - 1, conn[c].made)
  BY <1>1, ConnDomain DEF NewConn, ConnRecords
<1>3. conn' = [conn EXCEPT ![c].pc = "loop", ![c].permits = @ - 1, ![c].made = @ + 1] =>
        NewConn(c, "loop", conn[c].net, conn[c].permits - 1, conn[c].made + 1)
  BY <1>1, ConnDomain DEF NewConn, ConnRecords
<1> QED
  BY <1>2, <1>3 DEF acquire_permit

LEMMA SleptEffect ==
  ASSUME TrafficTypeOK, NEW c \in Conns, interval_elapsed(c)
  PROVE  /\ NewConn(c, "loop", conn[c].net, conn[c].permits, conn[c].made + 1)
         /\ streams' = [streams EXCEPT ![c] = Append(@, NewStream)]
<1>1. conn' = [conn EXCEPT ![c].pc = "loop", ![c].made = @ + 1] =>
        NewConn(c, "loop", conn[c].net, conn[c].permits, conn[c].made + 1)
  BY ConnDomain DEF NewConn, ConnRecords
<1> QED
  BY <1>1 DEF interval_elapsed

LEMMA EndEffect ==
  ASSUME TrafficTypeOK, NEW c \in Conns, connection_ends(c)
  PROVE  \/ /\ \E k \in DOMAIN streams[c] : streams[c][k].client = "failed"
            /\ NewConn(c, "failed", conn[c].net, conn[c].permits, conn[c].made)
         \/ /\ \A k \in DOMAIN streams[c] : streams[c][k].client = "ok"
            /\ NewConn(c, "ok", Closed(conn[c].net), conn[c].permits, conn[c].made)
<1>1. conn' = [conn EXCEPT ![c].pc = "failed"] =>
        NewConn(c, "failed", conn[c].net, conn[c].permits, conn[c].made)
  BY ConnDomain DEF NewConn, ConnRecords
<1>2. conn' = [conn EXCEPT ![c].pc = "ok", ![c].net = Closed(conn[c].net)] =>
        NewConn(c, "ok", Closed(conn[c].net), conn[c].permits, conn[c].made)
  BY ConnDomain DEF NewConn, ConnRecords, Closed
<1>3. \/ /\ \E k \in DOMAIN streams[c] : streams[c][k].client = "failed"
         /\ conn' = [conn EXCEPT ![c].pc = "failed"]
      \/ /\ \A k \in DOMAIN streams[c] : streams[c][k].client = "ok"
         /\ conn' = [conn EXCEPT ![c].pc = "ok", ![c].net = Closed(conn[c].net)]
  BY DEF connection_ends, FirstFailed
<1> QED
  BY <1>1, <1>2, <1>3

LEMMA LosesEffect ==
  ASSUME TrafficTypeOK, NEW c \in Conns, client_loses(c)
  PROVE  faulty /\ NewConn(c, conn[c].pc, "lost", conn[c].permits, conn[c].made)
BY ConnDomain DEF client_loses, NewConn, ConnRecords

\* Stream k of connection c has new states.
NewStreams(c, k, client, srv) ==
  /\ streams' \in [Conns -> Seq(StreamRecords)]
  /\ DOMAIN streams'[c] = DOMAIN streams[c]
  /\ streams'[c][k].client = client /\ streams'[c][k].server = srv
  /\ \A j \in DOMAIN streams[c] : j # k => streams'[c][j] = streams[c][j]
  /\ \A d \in Conns : d # c => streams'[d] = streams[d]

LEMMA StreamUpdate ==
  ASSUME TrafficTypeOK, NEW c \in Conns, NEW k \in DOMAIN streams[c],
         NEW s \in StreamRecords, streams' = [streams EXCEPT ![c] = [@ EXCEPT ![k] = s]]
  PROVE  NewStreams(c, k, s.client, s.server)
<1>1. streams \in [Conns -> Seq(StreamRecords)]
  BY DEF TrafficTypeOK
<1>2. PICK u : u = [streams[c] EXCEPT ![k] = s]
  OBVIOUS
<1>3. /\ u \in Seq(StreamRecords) /\ DOMAIN u = DOMAIN streams[c] /\ u[k] = s
      /\ \A j \in DOMAIN streams[c] : j # k => u[j] = streams[c][j]
  BY <1>1, <1>2
<1>4. streams' = [streams EXCEPT ![c] = u]
  BY <1>2
<1> QED
  BY <1>1, <1>3, <1>4 DEF NewStreams

LEMMA RequestEffect ==
  ASSUME TrafficTypeOK, NEW c \in Conns, NEW k \in DOMAIN streams[c], request(c, k)
  PROVE  \E to \in {"requested", "ok", "failed"} :
           /\ NewStreams(c, k, to, streams[c][k].server)
           /\ streams[c][k].client \in {"spawned", "requested"}
           /\ to = "ok" => streams[c][k].server = "answered"
           /\ to = "failed" => conn[c].net = "lost"
           /\ NewConn(c, conn[c].pc, conn[c].net,
                      conn[c].permits + (IF to = "requested" THEN 0 ELSE 1), conn[c].made)
<1>1. PICK to \in {"requested", "ok", "failed"} :
        /\ streams' = [streams EXCEPT ![c][k].client = to]
        /\ conn' = [conn EXCEPT ![c].permits = @ + Release(c, to)]
        /\ streams[c][k].client \in {"spawned", "requested"}
        /\ to = "ok" => streams[c][k].server = "answered"
        /\ to = "failed" => conn[c].net = "lost"
  BY DEF request
<1>2. PICK r \in Nat : r = Release(c, to) /\ r = IF to = "requested" THEN 0 ELSE 1
  BY DEF Release
<1>3. conn' = [conn EXCEPT ![c].permits = @ + r]
  BY <1>1, <1>2
<1>4. NewConn(c, conn[c].pc, conn[c].net, conn[c].permits + r, conn[c].made)
  BY <1>3, ConnDomain DEF NewConn, ConnRecords
<1>5. PICK s : s = [streams[c][k] EXCEPT !.client = to]
  OBVIOUS
<1>6. streams' = [streams EXCEPT ![c] = [@ EXCEPT ![k] = s]]
  BY <1>1, <1>5
<1>7. streams[c][k] \in StreamRecords
  BY DEF TrafficTypeOK
<1>8. s \in StreamRecords /\ s.client = to /\ s.server = streams[c][k].server
  BY <1>5, <1>7 DEF StreamRecords
<1>9. NewStreams(c, k, to, streams[c][k].server)
  BY <1>6, <1>8, StreamUpdate
<1> QED
  BY <1>1, <1>2, <1>4, <1>9

NewServer(c, pc, net) ==
  /\ server' \in [Conns -> ServerRecords]
  /\ server'[c].pc = pc /\ server'[c].net = net
  /\ \A d \in Conns : d # c => server'[d] = server[d]

LEMMA ServerDomain ==
  ASSUME TrafficTypeOK, NEW c \in Conns
  PROVE  /\ server \in [Conns -> ServerRecords] /\ server[c] \in ServerRecords
         /\ DOMAIN server[c] = {"pc", "net"}
BY DEF TrafficTypeOK, ServerRecords

LEMMA ServerEffects ==
  ASSUME TrafficTypeOK, NEW c \in Conns
  PROVE  /\ accept_connection(c) => NewServer(c, "handshake", server[c].net)
         /\ handshake(c) =>
              \/ /\ conn[c].net \in {"open", "closed"}
                 /\ NewServer(c, "accepting", "open")
              \/ faulty /\ NewServer(c, "error", "lost")
         /\ server_closed(c) =>
              \/ conn[c].net = "closed" /\ NewServer(c, server[c].pc, "closed")
              \/ faulty /\ NewServer(c, server[c].pc, "lost")
         /\ server_ends(c) => NewServer(c, Verdict(c), server[c].net)
<1>1. accept_connection(c) => NewServer(c, "handshake", server[c].net)
  BY ServerDomain DEF accept_connection, NewServer, ServerRecords
<1>2. server' = [server EXCEPT ![c].pc = "accepting", ![c].net = "open"] =>
        NewServer(c, "accepting", "open")
  BY ServerDomain DEF NewServer, ServerRecords
<1>3. server' = [server EXCEPT ![c].pc = "error", ![c].net = "lost"] => NewServer(c, "error", "lost")
  BY ServerDomain DEF NewServer, ServerRecords
<1>4. server' = [server EXCEPT ![c].net = "closed"] => NewServer(c, server[c].pc, "closed")
  BY ServerDomain DEF NewServer, ServerRecords
<1>5. server' = [server EXCEPT ![c].net = "lost"] => NewServer(c, server[c].pc, "lost")
  BY ServerDomain DEF NewServer, ServerRecords
<1>6. PICK v : v = Verdict(c) /\ v \in {"error", "ok", "panic"}
  BY DEF Verdict
<1>7. server' = [server EXCEPT ![c].pc = v] => NewServer(c, v, server[c].net)
  BY <1>6, ServerDomain DEF NewServer, ServerRecords
<1>8. handshake(c) =>
        \/ /\ conn[c].net \in {"open", "closed"}
           /\ NewServer(c, "accepting", "open")
        \/ faulty /\ NewServer(c, "error", "lost")
  BY <1>2, <1>3 DEF handshake
<1>9. server_closed(c) =>
        \/ conn[c].net = "closed" /\ NewServer(c, server[c].pc, "closed")
        \/ faulty /\ NewServer(c, server[c].pc, "lost")
  BY <1>4, <1>5 DEF server_closed
<1>10. server_ends(c) => NewServer(c, Verdict(c), server[c].net)
  BY <1>6, <1>7 DEF server_ends
<1> QED
  BY <1>1, <1>8, <1>9, <1>10

LEMMA ResponseEffect ==
  ASSUME TrafficTypeOK, NEW c \in Conns, NEW k \in DOMAIN streams[c],
         accept_stream(c, k) \/ respond(c, k)
  PROVE  \E to \in {"accepted", "answered", "failed"} :
           /\ NewStreams(c, k, streams[c][k].client, to)
           /\ streams[c][k].server \in {"none", "accepted"}
           /\ to = "failed" => server[c].net # "open" /\ streams[c][k].server = "accepted"
           /\ to = "accepted" => streams[c][k].server = "none" /\ server[c].net = "open"
<1>1. PICK to \in {"accepted", "answered", "failed"} :
        /\ streams' = [streams EXCEPT ![c][k].server = to]
        /\ streams[c][k].server \in {"none", "accepted"}
        /\ to = "failed" => server[c].net # "open" /\ streams[c][k].server = "accepted"
        /\ to = "accepted" => streams[c][k].server = "none" /\ server[c].net = "open"
  <2>1. CASE accept_stream(c, k)
    BY <2>1 DEF accept_stream
  <2>2. CASE respond(c, k) /\ server[c].net = "open"
    BY <2>2 DEF respond
  <2>3. CASE respond(c, k) /\ server[c].net # "open"
    BY <2>3 DEF respond
  <2> QED
    BY <2>1, <2>2, <2>3
<1>2. PICK s : s = [streams[c][k] EXCEPT !.server = to]
  OBVIOUS
<1>3. streams' = [streams EXCEPT ![c] = [@ EXCEPT ![k] = s]]
  BY <1>1, <1>2
<1>4. streams[c][k] \in StreamRecords
  BY DEF TrafficTypeOK
<1>5. s \in StreamRecords /\ s.client = streams[c][k].client /\ s.server = to
  BY <1>2, <1>4 DEF StreamRecords
<1>6. NewStreams(c, k, streams[c][k].client, to)
  BY <1>3, <1>5, StreamUpdate
<1> QED
  BY <1>1, <1>6

LEMMA ClientFrame ==
  ASSUME NEW c \in Conns, ClientTask(c) \/ client_loses(c)
  PROVE  /\ UNCHANGED <<spawned, server, handled, pattern_task, driver, step, result, background>>
         /\ driver \in {"udp", "quic", "handled"}
BY DEF ClientTask, client_loses, connect, take_request, acquire_permit, interval_elapsed,
       connection_ends, request, driverVars, Alive

LEMMA ServerFrame ==
  ASSUME NEW c \in Conns, ServerTask(c) \/ server_closed(c)
  PROVE  /\ UNCHANGED <<conn, requests_left, spawned, pattern_task, driver, step, result, background>>
         /\ driver \in {"udp", "quic", "handled"}
BY DEF ServerTask, server_closed, accept_connection, handshake, server_ends, accept_stream,
       respond, serverOthers, driverVars, clientVars, Alive

\* What every step does to the connections
LEMMA SpawnEffect ==
  ASSUME TrafficTypeOK, SpawnedInOrder, NEW p \in Quic, spawn_connection(p)
  PROVE  LET c == <<p, spawned[p] + 1>>
         IN  /\ c \in Conns /\ conn[c].pc = "none" /\ spawned[p] < patterns[p].connections
             /\ NewConn(c, "connecting", conn[c].net, conn[c].permits, conn[c].made)
             /\ spawned' = [spawned EXCEPT ![p] = @ + 1] /\ spawned'[p] = spawned[p] + 1
             /\ spawned' \in [Quic -> Nat]
             /\ UNCHANGED <<requests_left, streams, server, handled, pattern_task>>
             /\ UNCHANGED <<driver, step, result, background>>
<1> DEFINE c == <<p, spawned[p] + 1>>
<1>1. spawned \in [Quic -> Nat] /\ p \in DOMAIN patterns /\ patterns[p] \in PatternRecords
  BY DEF TrafficTypeOK, Quic
<1>2. patterns[p].connections \in Nat /\ spawned[p] < patterns[p].connections
  BY <1>1 DEF PatternRecords, spawn_connection
<1>3. c \in ConnsOf(p)
  BY <1>1, <1>2 DEF ConnsOf
<1>4. c \in Conns /\ c[1] = p /\ c[2] = spawned[p] + 1
  BY <1>3 DEF Conns
<1>5. conn[c].pc = "none"
  BY <1>1, <1>4 DEF SpawnedInOrder
<1>6. conn' = [conn EXCEPT ![c].pc = "connecting"] /\ spawned' = [spawned EXCEPT ![p] = @ + 1]
  BY DEF spawn_connection
<1> HIDE DEF c
<1>7. NewConn(c, "connecting", conn[c].net, conn[c].permits, conn[c].made)
  BY <1>4, <1>6, ConnDomain DEF NewConn, ConnRecords
<1>8. spawned'[p] = spawned[p] + 1 /\ spawned' \in [Quic -> Nat]
  BY <1>1, <1>6
<1>9. /\ UNCHANGED <<requests_left, streams, server, handled, pattern_task>>
      /\ UNCHANGED <<driver, step, result, background>>
  BY DEF spawn_connection, driverVars
<1> QED
  BY <1>2, <1>4, <1>5, <1>6, <1>7, <1>8, <1>9 DEF c

\* A task appends to the streams of its connection.
LEMMA StreamAppended ==
  ASSUME TrafficTypeOK, NEW c \in Conns, streams' = [streams EXCEPT ![c] = Append(@, NewStream)]
  PROVE  /\ streams' \in [Conns -> Seq(StreamRecords)]
         /\ streams'[c] = Append(streams[c], NewStream)
         /\ \A d \in Conns : d # c => streams'[d] = streams[d]
<1>1. NewStream \in StreamRecords
  BY DEF NewStream, StreamRecords
<1> QED
  BY <1>1 DEF TrafficTypeOK

LEMMA ClientTypes ==
  ASSUME TrafficTypeOK, NEW c \in Conns, ClientTask(c) \/ client_loses(c)
  PROVE  /\ conn' \in [Conns -> ConnRecords] /\ streams' \in [Conns -> Seq(StreamRecords)]
         /\ requests_left' \in [Quic -> Nat]
         /\ \A d \in Conns : d # c => conn'[d] = conn[d] /\ streams'[d] = streams[d]
         /\ conn[c].pc # "none" \/ conn'[c].pc = "none"
<1>1. streams \in [Conns -> Seq(StreamRecords)] /\ requests_left \in [Quic -> Nat]
  BY DEF TrafficTypeOK
<1>2. CASE connect(c)
  <2>1. conn[c].pc = "connecting" /\ streams' = streams /\ requests_left' = requests_left
    BY <1>2 DEF connect
  <2> QED
    BY <1>1, <1>2, <2>1, ConnectEffect DEF NewConn
<1>3. CASE take_request(c)
  <2>1. conn[c].pc = "loop" /\ streams' = streams /\ c[1] \in Quic
    BY <1>3, PatternOf DEF take_request
  <2>2. requests_left' \in [Quic -> Nat]
    BY <1>1, <1>3, <2>1, TakeEffect
  <2>3. conn' \in [Conns -> ConnRecords] /\ \A d \in Conns : d # c => conn'[d] = conn[d]
    BY <1>3, TakeEffect DEF NewConn
  <2> QED
    BY <1>1, <2>1, <2>2, <2>3
<1>4. CASE acquire_permit(c)
  <2>1. conn[c].pc = "acquire" /\ requests_left' = requests_left
    BY <1>4 DEF acquire_permit
  <2> QED
    BY <1>1, <1>4, <2>1, AcquireEffect, StreamAppended DEF NewConn
<1>5. CASE interval_elapsed(c)
  <2>1. conn[c].pc = "sleep" /\ requests_left' = requests_left
    BY <1>5 DEF interval_elapsed
  <2> QED
    BY <1>1, <1>5, <2>1, SleptEffect, StreamAppended DEF NewConn
<1>6. CASE connection_ends(c)
  <2>1. conn[c].pc = "joining" /\ streams' = streams /\ requests_left' = requests_left
    BY <1>6 DEF connection_ends
  <2> QED
    BY <1>1, <1>6, <2>1, EndEffect DEF NewConn
<1>7. CASE client_loses(c)
  <2>1. streams' = streams /\ requests_left' = requests_left
    BY <1>7 DEF client_loses
  <2> QED
    BY <1>1, <1>7, <2>1, LosesEffect DEF NewConn
<1>8. CASE \E k \in DOMAIN streams[c] : request(c, k)
  <2>1. PICK k \in DOMAIN streams[c] : request(c, k)
    BY <1>8
  <2>2. requests_left' = requests_left
    BY <2>1 DEF request
  <2> QED
    BY <1>1, <2>1, <2>2, RequestEffect DEF NewConn, NewStreams
<1> QED
  BY <1>2, <1>3, <1>4, <1>5, <1>6, <1>7, <1>8 DEF ClientTask

LEMMA ServerTypes ==
  ASSUME TrafficTypeOK, NEW c \in Conns, ServerTask(c) \/ server_closed(c)
  PROVE  /\ server' \in [Conns -> ServerRecords] /\ streams' \in [Conns -> Seq(StreamRecords)]
         /\ \A d \in Conns : d # c => server'[d] = server[d] /\ streams'[d] = streams[d]
<1>1. streams \in [Conns -> Seq(StreamRecords)] /\ server \in [Conns -> ServerRecords]
  BY DEF TrafficTypeOK
<1>2. CASE accept_connection(c) \/ handshake(c) \/ server_ends(c) \/ server_closed(c)
  <2>1. streams' = streams
    BY <1>2 DEF accept_connection, handshake, server_ends, server_closed
  <2> QED
    BY <1>1, <1>2, <2>1, ServerEffects DEF NewServer
<1>3. CASE \E k \in DOMAIN streams[c] : accept_stream(c, k) \/ respond(c, k)
  <2>1. PICK k \in DOMAIN streams[c] : accept_stream(c, k) \/ respond(c, k)
    BY <1>3
  <2>2. server' = server
    BY <2>1 DEF accept_stream, respond
  <2> QED
    BY <1>1, <2>1, <2>2, ResponseEffect DEF NewStreams
<1> QED
  BY <1>2, <1>3 DEF ServerTask

LEMMA PatternTaskType ==
  ASSUME TrafficTypeOK, [SimulationNext]_vars
  PROVE  pattern_task' \in [Quic -> {"none", "running", "ok", "error"}]
<1>1. \/ pattern_task' = pattern_task
      \/ \E p, v : v \in {"running", "ok", "error"} /\ pattern_task' = [pattern_task EXCEPT ![p] = v]
  <2>1. CASE start_client
    BY <2>1 DEF start_client
  <2>2. CASE \E p \in Quic : pattern_ends(p)
    BY <2>2 DEF pattern_ends
  <2>3. CASE \E p \in Quic : spawn_connection(p)
    BY <2>3 DEF spawn_connection
  <2>4. CASE \E c \in Conns : ClientTask(c) \/ client_loses(c)
    BY <2>4, ClientFrame
  <2>5. CASE \E c \in Conns : ServerTask(c) \/ server_closed(c)
    BY <2>5, ServerFrame
  <2> QED
    BY <2>1, <2>2, <2>3, <2>4, <2>5
       DEF SimulationNext, Driver, validate, check_connectivity, connectivity_checked,
           start_server, node_unknown, servers_started, clients_started, udp_joined,
           quic_joined, server_task_joined, report_stats, check_network, background_ends,
           Return, driverOthers, clientVars, vars
<1>2. pattern_task \in [Quic -> {"none", "running", "ok", "error"}]
  BY DEF TrafficTypeOK
<1>3. CASE pattern_task' = pattern_task
  BY <1>2, <1>3
<1>4. ASSUME NEW p, NEW v \in {"running", "ok", "error"},
             pattern_task' = [pattern_task EXCEPT ![p] = v]
      PROVE  pattern_task' \in [Quic -> {"none", "running", "ok", "error"}]
  BY <1>2, <1>4
<1> QED
  BY <1>1, <1>3, <1>4

LEMMA TypeStep ==
  ASSUME TrafficTypeOK, SpawnedInOrder, [SimulationNext]_vars
  PROVE  TrafficTypeOK' /\ SpawnedInOrder'
<1>1. /\ patterns' = patterns /\ Quic' = Quic /\ Conns' = Conns
      /\ pattern_task' \in [Quic -> {"none", "running", "ok", "error"}]
  BY PatternsFixed, PatternTaskType
<1>2. SUFFICES /\ spawned' \in [Quic -> Nat] /\ requests_left' \in [Quic -> Nat]
               /\ conn' \in [Conns -> ConnRecords]
               /\ streams' \in [Conns -> Seq(StreamRecords)]
               /\ server' \in [Conns -> ServerRecords]
               /\ \A c \in Conns : c[2] > spawned'[c[1]] => conn'[c].pc = "none"
  BY <1>1 DEF TrafficTypeOK, SpawnedInOrder
<1>3. /\ spawned \in [Quic -> Nat] /\ requests_left \in [Quic -> Nat]
      /\ conn \in [Conns -> ConnRecords]
      /\ streams \in [Conns -> Seq(StreamRecords)]
      /\ server \in [Conns -> ServerRecords]
      /\ \A c \in Conns : c[2] > spawned[c[1]] => conn[c].pc = "none"
  BY DEF TrafficTypeOK, SpawnedInOrder
<1>4. CASE UNCHANGED <<spawned, requests_left, conn, streams, server>>
  BY <1>3, <1>4
<1>5. ASSUME NEW p \in Quic, spawn_connection(p)
      PROVE  /\ spawned' \in [Quic -> Nat] /\ requests_left' \in [Quic -> Nat]
             /\ conn' \in [Conns -> ConnRecords]
             /\ streams' \in [Conns -> Seq(StreamRecords)]
             /\ server' \in [Conns -> ServerRecords]
             /\ \A c \in Conns : c[2] > spawned'[c[1]] => conn'[c].pc = "none"
  <2>1. PICK e : e = <<p, spawned[p] + 1>>
    OBVIOUS
  <2>2. /\ e \in Conns /\ spawned' = [spawned EXCEPT ![p] = @ + 1]
        /\ spawned' \in [Quic -> Nat]
        /\ requests_left' = requests_left /\ streams' = streams /\ server' = server
        /\ conn' \in [Conns -> ConnRecords] /\ \A d \in Conns : d # e => conn'[d] = conn[d]
    BY <1>5, <2>1, SpawnEffect DEF NewConn
  <2>3. ASSUME NEW c \in Conns, c[2] > spawned'[c[1]] PROVE conn'[c].pc = "none"
    <3>1. c[1] \in Quic /\ c[2] \in Nat /\ c = <<c[1], c[2]>>
      BY PatternOf
    <3>2. c[2] > spawned[c[1]] /\ (c[1] = p => c[2] > spawned[p] + 1)
      BY <1>3, <2>2, <2>3, <3>1
    <3>3. c # e
      BY <1>3, <2>1, <3>1, <3>2
    <3> QED
      BY <1>3, <2>2, <3>2, <3>3
  <2> QED
    BY <1>3, <2>2, <2>3
<1>6. ASSUME NEW e \in Conns, ClientTask(e) \/ client_loses(e)
      PROVE  /\ spawned' \in [Quic -> Nat] /\ requests_left' \in [Quic -> Nat]
             /\ conn' \in [Conns -> ConnRecords]
             /\ streams' \in [Conns -> Seq(StreamRecords)]
             /\ server' \in [Conns -> ServerRecords]
             /\ \A c \in Conns : c[2] > spawned'[c[1]] => conn'[c].pc = "none"
  BY <1>3, <1>6, ClientTypes, ClientFrame
<1>7. ASSUME NEW e \in Conns, ServerTask(e) \/ server_closed(e)
      PROVE  /\ spawned' \in [Quic -> Nat] /\ requests_left' \in [Quic -> Nat]
             /\ conn' \in [Conns -> ConnRecords]
             /\ streams' \in [Conns -> Seq(StreamRecords)]
             /\ server' \in [Conns -> ServerRecords]
             /\ \A c \in Conns : c[2] > spawned'[c[1]] => conn'[c].pc = "none"
  BY <1>3, <1>7, ServerTypes, ServerFrame
<1> QED
  BY <1>4, <1>5, <1>6, <1>7, StepCases

----------------------------------------------------------------------------
(* Streams *)

\* The requests without a response, of a connection with streams s
Busy(s) == {k \in DOMAIN s : s[k].client \in {"spawned", "requested"}}

Occupied(c) ==
  conn[c].permits + Cardinality(Busy(streams[c])) + IF conn[c].pc = "sleep" THEN 1 ELSE 0

LEMMA StreamsLimitedIs == StreamsLimited <=> \A c \in Conns : Occupied(c) = patterns[c[1]].streams
BY DEF StreamsLimited, Occupied, Busy, Tasks

LEMMA BusyFinite ==
  ASSUME NEW s \in Seq(StreamRecords)
  PROVE  IsFiniteSet(Busy(s)) /\ Cardinality(Busy(s)) \in Nat
<1>1. Len(s) \in Nat /\ DOMAIN s = 1 .. Len(s)
  OBVIOUS
<1>2. IsFiniteSet(1 .. Len(s))
  BY <1>1, FS_Interval
<1>3. Busy(s) \in SUBSET (1 .. Len(s))
  BY <1>1 DEF Busy
<1>4. IsFiniteSet(Busy(s))
  BY <1>2, <1>3, FS_Subset
<1> QED
  BY <1>4, FS_CardinalityType

LEMMA BusyAppended ==
  ASSUME NEW s \in Seq(StreamRecords)
  PROVE  Cardinality(Busy(Append(s, NewStream))) = Cardinality(Busy(s)) + 1
<1>1. PICK n \in Nat : n = Len(s)
  OBVIOUS
<1>2. PICK u : u = Append(s, NewStream)
  OBVIOUS
<1>3. /\ DOMAIN s = 1 .. n /\ DOMAIN u = 1 .. n + 1
      /\ u[n + 1] = NewStream /\ \A i \in 1 .. n : u[i] = s[i]
  <2>1. NewStream \in StreamRecords
    BY DEF NewStream, StreamRecords
  <2> QED
    BY <1>1, <1>2, <2>1
<1>4. Busy(u) = Busy(s) \union {n + 1} /\ n + 1 \notin Busy(s)
  <2>1. NewStream.client = "spawned"
    BY DEF NewStream
  <2> QED
    BY <1>3, <2>1 DEF Busy
<1> QED
  BY <1>2, <1>4, BusyFinite, FS_AddElement

LEMMA StreamsClient ==
  ASSUME TrafficTypeOK, NEW c \in Conns, ClientTask(c) \/ client_loses(c)
  PROVE  Occupied(c)' = Occupied(c)
<1>1. PICK s \in Seq(StreamRecords), m \in Nat, n \in Nat :
        s = streams[c] /\ m = conn[c].permits /\ n = Cardinality(Busy(s))
  BY BusyFinite, PatternOf, ConnDomain
<1>2. CASE connect(c)
  <2>1. conn[c].pc = "connecting" /\ streams' = streams
    BY <1>2 DEF connect
  <2> QED
    BY <1>2, <2>1, ConnectEffect DEF NewConn, Occupied
<1>3. CASE take_request(c)
  <2>1. conn[c].pc = "loop" /\ streams' = streams
    BY <1>3 DEF take_request
  <2> QED
    BY <1>3, <2>1, TakeEffect DEF NewConn, Occupied
<1>4. CASE acquire_permit(c)
  <2>1. conn[c].pc = "acquire" /\ conn[c].permits > 0
    BY <1>4 DEF acquire_permit
  <2>2. CASE streams' = streams /\ conn'[c].pc = "sleep" /\ conn'[c].permits = m - 1
    BY <1>1, <2>1, <2>2 DEF Occupied
  <2>3. CASE /\ streams' = [streams EXCEPT ![c] = Append(@, NewStream)]
             /\ conn'[c].pc = "loop" /\ conn'[c].permits = m - 1
    <3>1. Cardinality(Busy(streams'[c])) = n + 1
      BY <1>1, <2>3, StreamAppended, BusyAppended
    <3> QED
      BY <1>1, <2>1, <2>3, <3>1, SMTT(40) DEF Occupied
  <2> QED
    BY <1>1, <1>4, <2>2, <2>3, AcquireEffect DEF NewConn
<1>5. CASE interval_elapsed(c)
  <2>1. conn[c].pc = "sleep"
    BY <1>5 DEF interval_elapsed
  <2>2. /\ streams' = [streams EXCEPT ![c] = Append(@, NewStream)]
        /\ conn'[c].pc = "loop" /\ conn'[c].permits = m
    BY <1>1, <1>5, SleptEffect DEF NewConn
  <2>3. Cardinality(Busy(streams'[c])) = n + 1
    BY <1>1, <2>2, StreamAppended, BusyAppended
  <2>4. Occupied(c)' = m + (n + 1) + 0
    BY <2>2, <2>3 DEF Occupied
  <2>5. Occupied(c) = m + n + 1
    BY <1>1, <2>1 DEF Occupied
  <2> QED
    BY <1>1, <2>4, <2>5
<1>6. CASE connection_ends(c)
  <2>1. conn[c].pc = "joining" /\ streams' = streams
    BY <1>6 DEF connection_ends
  <2> QED
    BY <1>6, <2>1, EndEffect DEF NewConn, Occupied
<1>7. CASE client_loses(c)
  <2>1. streams' = streams
    BY <1>7 DEF client_loses
  <2> QED
    BY <1>7, <2>1, LosesEffect DEF NewConn, Occupied
<1>8. CASE \E k \in DOMAIN streams[c] : request(c, k)
  <2>1. PICK k \in DOMAIN streams[c] : request(c, k)
    BY <1>8
  <2>2. PICK to \in {"requested", "ok", "failed"} :
          /\ DOMAIN streams'[c] = DOMAIN s /\ streams'[c][k].client = to
          /\ \A j \in DOMAIN s : j # k => streams'[c][j] = s[j]
          /\ s[k].client \in {"spawned", "requested"}
          /\ conn'[c].pc = conn[c].pc
          /\ conn'[c].permits = m + IF to = "requested" THEN 0 ELSE 1
    BY <1>1, <2>1, RequestEffect DEF NewConn, NewStreams
  <2>3. CASE to = "requested"
    <3>1. Busy(streams'[c]) = Busy(s)
      BY <2>2, <2>3 DEF Busy
    <3> QED
      BY <1>1, <2>2, <2>3, <3>1 DEF Occupied
  <2>4. CASE to # "requested"
    <3>1. Busy(streams'[c]) = Busy(s) \ {k} /\ k \in Busy(s)
      BY <1>1, <2>2, <2>4 DEF Busy
    <3>2. Cardinality(Busy(streams'[c])) = n - 1
      BY <1>1, <3>1, BusyFinite, FS_RemoveElement
    <3>3. PICK x \in {0, 1} : x = IF conn[c].pc = "sleep" THEN 1 ELSE 0
      OBVIOUS
    <3>4. Occupied(c)' = (m + 1) + (n - 1) + x
      BY <2>2, <2>4, <3>2, <3>3 DEF Occupied
    <3>5. Occupied(c) = m + n + x
      BY <1>1, <3>3 DEF Occupied
    <3> QED
      BY <1>1, <3>4, <3>5, SMTT(30)
  <2> QED
    BY <2>3, <2>4
<1> QED
  BY <1>2, <1>3, <1>4, <1>5, <1>6, <1>7, <1>8 DEF ClientTask

LEMMA StreamsServer ==
  ASSUME TrafficTypeOK, NEW c \in Conns, ServerTask(c) \/ server_closed(c)
  PROVE  Occupied(c)' = Occupied(c)
<1>1. conn' = conn
  BY ServerFrame
<1>2. CASE accept_connection(c) \/ handshake(c) \/ server_ends(c) \/ server_closed(c)
  <2>1. streams' = streams
    BY <1>2 DEF accept_connection, handshake, server_ends, server_closed
  <2> QED
    BY <1>1, <2>1 DEF Occupied
<1>3. CASE \E k \in DOMAIN streams[c] : accept_stream(c, k) \/ respond(c, k)
  <2>1. PICK k \in DOMAIN streams[c] : accept_stream(c, k) \/ respond(c, k)
    BY <1>3
  <2>2. /\ DOMAIN streams'[c] = DOMAIN streams[c]
        /\ streams'[c][k].client = streams[c][k].client
        /\ \A j \in DOMAIN streams[c] : j # k => streams'[c][j] = streams[c][j]
    BY <2>1, ResponseEffect DEF NewStreams
  <2>3. Busy(streams'[c]) = Busy(streams[c])
    BY <2>2 DEF Busy
  <2> QED
    BY <1>1, <2>3 DEF Occupied
<1> QED
  BY <1>2, <1>3 DEF ServerTask

LEMMA StreamsStep ==
  ASSUME TrafficTypeOK, SpawnedInOrder, StreamsLimited, [SimulationNext]_vars
  PROVE  StreamsLimited'
<1>1. patterns' = patterns /\ Conns' = Conns
  BY PatternsFixed
<1>2. \A c \in Conns : Occupied(c) = patterns[c[1]].streams
  BY StreamsLimitedIs
<1>3. SUFFICES \A c \in Conns : Occupied(c)' = Occupied(c)
  <2>1. StreamsLimited' <=> (\A c \in Conns : Occupied(c) = patterns[c[1]].streams)'
    BY StreamsLimitedIs, PTL
  <2>2. (\A c \in Conns : Occupied(c) = patterns[c[1]].streams)'
    BY <1>1, <1>2, <1>3
  <2> QED
    BY <2>1, <2>2
<1>4. CASE UNCHANGED <<spawned, requests_left, conn, streams, server>>
  BY <1>4 DEF Occupied
<1>5. ASSUME NEW p \in Quic, spawn_connection(p) PROVE \A c \in Conns : Occupied(c)' = Occupied(c)
  <2>1. PICK e : e = <<p, spawned[p] + 1>>
    OBVIOUS
  <2>2. /\ e \in Conns /\ streams' = streams /\ conn[e].pc = "none"
        /\ conn'[e].pc = "connecting" /\ conn'[e].permits = conn[e].permits
        /\ \A d \in Conns : d # e => conn'[d] = conn[d]
    BY <1>5, <2>1, SpawnEffect DEF NewConn
  <2> QED
    BY <2>2 DEF Occupied
<1>6. ASSUME NEW e \in Conns, ClientTask(e) \/ client_loses(e)
      PROVE  \A c \in Conns : Occupied(c)' = Occupied(c)
  <2>1. \A c \in Conns : c # e => conn'[c] = conn[c] /\ streams'[c] = streams[c]
    BY <1>6, ClientTypes
  <2>2. \A c \in Conns : c # e => Occupied(c)' = Occupied(c)
    BY <2>1 DEF Occupied
  <2> QED
    BY <1>6, <2>2, StreamsClient
<1>7. ASSUME NEW e \in Conns, ServerTask(e) \/ server_closed(e)
      PROVE  \A c \in Conns : Occupied(c)' = Occupied(c)
  <2>1. \A c \in Conns : c # e => conn'[c] = conn[c] /\ streams'[c] = streams[c]
    BY <1>7, ServerTypes, ServerFrame
  <2>2. \A c \in Conns : c # e => Occupied(c)' = Occupied(c)
    BY <2>1 DEF Occupied
  <2> QED
    BY <1>7, <2>2, StreamsServer
<1> QED
  BY <1>4, <1>5, <1>6, <1>7, StepCases

----------------------------------------------------------------------------
(* Requests *)

LEMMA SequenceOf ==
  ASSUME NEW n \in Nat, NEW u, u = [i \in 1 .. n |-> u[i]], \A i \in 1 .. n : u[i] \in Int
  PROVE  u \in Seq(Int) /\ Len(u) = n
<1>1. u \in [1 .. n -> Int]
  OBVIOUS
<1> QED
  BY <1>1

\* What the connections of pattern p have taken, as a sequence
TakenBy(p) == [i \in 1 .. patterns[p].connections |-> Taken(<<p, i>>)]

LEMMA RequestsConservedIs ==
  RequestsConserved <=>
    \A p \in Quic : requests_left[p] + SumSeq(TakenBy(p)) = patterns[p].requests
BY DEF RequestsConserved, TakenBy, SumSeq

LEMMA TakenType ==
  ASSUME TrafficTypeOK, NEW c \in Conns
  PROVE  Taken(c) \in Nat
BY ConnDomain DEF Taken

\* A pattern and its connections
LEMMA ConnOf ==
  ASSUME TrafficTypeOK, NEW p \in Quic
  PROVE  /\ patterns[p].connections \in Nat /\ patterns[p].requests \in Nat
         /\ \A i \in 1 .. patterns[p].connections : <<p, i>> \in Conns
<1>1. p \in DOMAIN patterns /\ patterns[p] \in PatternRecords
  BY DEF TrafficTypeOK, Quic
<1>2. patterns[p].connections \in Nat /\ patterns[p].requests \in Nat
  BY <1>1 DEF PatternRecords
<1> QED
  BY <1>2 DEF Conns, ConnsOf

LEMMA TakenByType ==
  ASSUME TrafficTypeOK, NEW p \in Quic
  PROVE  /\ TakenBy(p) \in Seq(Int) /\ Len(TakenBy(p)) = patterns[p].connections
         /\ \A i \in 1 .. patterns[p].connections : TakenBy(p)[i] = Taken(<<p, i>>)
<1>1. PICK n \in Nat : n = patterns[p].connections
  BY ConnOf
<1>2. \A i \in 1 .. n : Taken(<<p, i>>) \in Int
  BY <1>1, ConnOf, TakenType
<1>3. PICK u : u = TakenBy(p)
  OBVIOUS
<1>4. u = [i \in 1 .. n |-> u[i]] /\ \A i \in 1 .. n : u[i] = Taken(<<p, i>>)
  BY <1>1, <1>3, Zenon DEF TakenBy
<1>5. u \in Seq(Int) /\ Len(u) = n
  BY <1>2, <1>4, SequenceOf
<1> QED
  BY <1>1, <1>3, <1>4, <1>5

\* Only taking a request changes what a connection has taken.
LEMMA TakenClient ==
  ASSUME TrafficTypeOK, NEW c \in Conns, ClientTask(c) \/ client_loses(c)
  PROVE  \/ Taken(c)' = Taken(c) /\ requests_left' = requests_left
         \/ /\ Taken(c)' = Taken(c) + 1 /\ requests_left[c[1]] > 0
            /\ requests_left' = [requests_left EXCEPT ![c[1]] = @ - 1]
<1>1. PICK n \in Nat : n = conn[c].made
  BY ConnDomain
<1>2. CASE connect(c)
  <2>1. conn[c].pc = "connecting" /\ requests_left' = requests_left
    BY <1>2 DEF connect
  <2> QED
    BY <1>1, <1>2, <2>1, ConnectEffect DEF NewConn, Taken
<1>3. CASE take_request(c)
  <2>1. conn[c].pc = "loop"
    BY <1>3 DEF take_request
  <2> QED
    BY <1>1, <1>3, <2>1, TakeEffect DEF NewConn, Taken
<1>4. CASE acquire_permit(c)
  <2>1. conn[c].pc = "acquire" /\ requests_left' = requests_left
    BY <1>4 DEF acquire_permit
  <2> QED
    BY <1>1, <1>4, <2>1, AcquireEffect DEF NewConn, Taken
<1>5. CASE interval_elapsed(c)
  <2>1. conn[c].pc = "sleep" /\ requests_left' = requests_left
    BY <1>5 DEF interval_elapsed
  <2> QED
    BY <1>1, <1>5, <2>1, SleptEffect DEF NewConn, Taken
<1>6. CASE connection_ends(c)
  <2>1. conn[c].pc = "joining" /\ requests_left' = requests_left
    BY <1>6 DEF connection_ends
  <2> QED
    BY <1>1, <1>6, <2>1, EndEffect DEF NewConn, Taken
<1>7. CASE client_loses(c)
  <2>1. requests_left' = requests_left
    BY <1>7 DEF client_loses
  <2> QED
    BY <1>7, <2>1, LosesEffect DEF NewConn, Taken
<1>8. CASE \E k \in DOMAIN streams[c] : request(c, k)
  <2>1. PICK k \in DOMAIN streams[c] : request(c, k)
    BY <1>8
  <2>2. requests_left' = requests_left
    BY <2>1 DEF request
  <2> QED
    BY <2>1, <2>2, RequestEffect DEF NewConn, Taken
<1> QED
  BY <1>2, <1>3, <1>4, <1>5, <1>6, <1>7, <1>8 DEF ClientTask

\* Steps that take nothing
LEMMA NothingTaken ==
  ASSUME TrafficTypeOK, patterns' = patterns, requests_left' = requests_left,
         \A c \in Conns : Taken(c)' = Taken(c)
  PROVE  \A p \in Quic : TakenBy(p)' = TakenBy(p)
<1> SUFFICES ASSUME NEW p \in Quic PROVE TakenBy(p)' = TakenBy(p)
  OBVIOUS
<1>1. \A i \in 1 .. patterns[p].connections : Taken(<<p, i>>)' = Taken(<<p, i>>)
  BY ConnOf
<1> QED
  BY <1>1 DEF TakenBy

LEMMA RequestsStep ==
  ASSUME TrafficTypeOK, SpawnedInOrder, RequestsConserved, [SimulationNext]_vars
  PROVE  RequestsConserved'
<1>1. patterns' = patterns /\ Conns' = Conns /\ Quic' = Quic
  BY PatternsFixed
<1>2. \A p \in Quic : requests_left[p] + SumSeq(TakenBy(p)) = patterns[p].requests
  BY RequestsConservedIs
<1>3. SUFFICES \A p \in Quic : requests_left'[p] + SumSeq(TakenBy(p)') = patterns[p].requests
  <2>1. RequestsConserved' <=>
          (\A p \in Quic : requests_left[p] + SumSeq(TakenBy(p)) = patterns[p].requests)'
    BY RequestsConservedIs, PTL
  <2>2. (\A p \in Quic : requests_left[p] + SumSeq(TakenBy(p)) = patterns[p].requests)'
    BY <1>1, <1>3
  <2> QED
    BY <2>1, <2>2
<1>4. CASE requests_left' = requests_left /\ \A c \in Conns : Taken(c)' = Taken(c)
  BY <1>1, <1>2, <1>4, NothingTaken
<1>5. CASE UNCHANGED <<spawned, requests_left, conn, streams, server>>
  BY <1>4, <1>5 DEF Taken
<1>6. ASSUME NEW p \in Quic, spawn_connection(p)
      PROVE  requests_left' = requests_left /\ \A c \in Conns : Taken(c)' = Taken(c)
  <2>1. PICK e : e = <<p, spawned[p] + 1>>
    OBVIOUS
  <2>2. /\ e \in Conns /\ requests_left' = requests_left /\ conn[e].pc = "none"
        /\ conn'[e].pc = "connecting" /\ conn'[e].made = conn[e].made
        /\ \A d \in Conns : d # e => conn'[d] = conn[d]
    BY <1>6, <2>1, SpawnEffect DEF NewConn
  <2> QED
    BY <2>2 DEF Taken
<1>7. ASSUME NEW e \in Conns, ServerTask(e) \/ server_closed(e)
      PROVE  requests_left' = requests_left /\ \A c \in Conns : Taken(c)' = Taken(c)
  BY <1>7, ServerFrame DEF Taken
<1>8. ASSUME NEW e \in Conns, ClientTask(e) \/ client_loses(e)
      PROVE  \A p \in Quic : requests_left'[p] + SumSeq(TakenBy(p)') = patterns[p].requests
  <2>1. \A c \in Conns : c # e => Taken(c)' = Taken(c)
    BY <1>8, ClientTypes DEF Taken
  <2>2. CASE Taken(e)' = Taken(e) /\ requests_left' = requests_left
    BY <1>4, <2>1, <2>2
  <2>3. CASE /\ Taken(e)' = Taken(e) + 1 /\ requests_left[e[1]] > 0
             /\ requests_left' = [requests_left EXCEPT ![e[1]] = @ - 1]
    <3> SUFFICES ASSUME NEW p \in Quic
                 PROVE  requests_left'[p] + SumSeq(TakenBy(p)') = patterns[p].requests
      OBVIOUS
    <3>1. PICK s : s = TakenBy(p)
      OBVIOUS
    <3>2. PICK u : u = TakenBy(p)'
      OBVIOUS
    <3>3. PICK n \in Nat : n = patterns[p].connections
      BY ConnOf
    <3>4. /\ s \in Seq(Int) /\ Len(s) = n /\ \A i \in 1 .. n : s[i] = Taken(<<p, i>>)
          /\ \A i \in 1 .. n : <<p, i>> \in Conns
      BY <3>1, <3>3, TakenByType, ConnOf
    <3>5. e[1] \in Quic /\ e = <<e[1], e[2]>> /\ (e[1] = p => e[2] \in 1 .. n)
      BY <3>3, PatternOf
    <3>6. \A i \in 1 .. n : Taken(<<p, i>>)' = IF <<p, i>> = e THEN s[i] + 1 ELSE s[i]
      BY <2>1, <2>3, <3>4
    <3>7. u = [i \in 1 .. n |-> Taken(<<p, i>>)']
      BY <1>1, <3>2, <3>3 DEF TakenBy
    <3>8. /\ u \in Seq(Int) /\ Len(u) = Len(s)
          /\ \A i \in 1 .. n : u[i] = IF <<p, i>> = e THEN s[i] + 1 ELSE s[i]
      <4>1. \A i \in 1 .. n : s[i] \in Int
        BY <3>4
      <4>2. \A i \in 1 .. n : Taken(<<p, i>>)' \in Int
        BY <3>6, <4>1
      <4>3. u = [i \in 1 .. n |-> u[i]] /\ \A i \in 1 .. n : u[i] = Taken(<<p, i>>)'
        BY <3>7, Zenon
      <4>4. u \in Seq(Int) /\ Len(u) = n
        BY <4>2, <4>3, SequenceOf
      <4> QED
        BY <3>4, <3>6, <4>3, <4>4
    <3>9. CASE e[1] # p
      <4>1. \A i \in 1 .. n : u[i] = s[i]
        BY <3>5, <3>8, <3>9
      <4>2. u = s
        BY <3>4, <3>8, <4>1
      <4>3. requests_left'[p] = requests_left[p]
        BY <2>3, <3>9 DEF TrafficTypeOK
      <4> QED
        BY <1>2, <3>1, <3>2, <4>2, <4>3
    <3>10. CASE e[1] = p
      <4>1. PICK x \in 1 .. n : x = e[2] /\ e = <<p, x>>
        BY <3>5, <3>10
      <4>2. u[x] = s[x] + 1 /\ \A i \in 1 .. n : i # x => u[i] = s[i]
        BY <3>8, <4>1
      <4>3. SumSeq(u) = SumSeq(s) - s[x] + u[x]
        BY <3>4, <3>8, <4>1, <4>2, SumUpdate
      <4>4. SumSeq(s) \in Int /\ s[x] \in Int
        BY <3>4, <4>1, SumType
      <4>5. requests_left'[p] = requests_left[p] - 1 /\ requests_left[p] \in Nat
        BY <2>3, <3>10 DEF TrafficTypeOK
      <4>6. requests_left[p] + SumSeq(s) = patterns[p].requests
        BY <1>2, <3>1
      <4>7. SumSeq(u) = SumSeq(s) + 1
        BY <4>2, <4>3, <4>4
      <4> QED
        BY <3>2, <4>4, <4>5, <4>6, <4>7
    <3> QED
      BY <3>9, <3>10
  <2> QED
    BY <1>8, <2>2, <2>3, TakenClient
<1> QED
  BY <1>4, <1>5, <1>6, <1>7, <1>8, StepCases

LEMMA RequestInit == SimulationInit => RequestInv
<1> SUFFICES ASSUME SimulationInit PROVE RequestInv
  OBVIOUS
<1>1. TrafficTypeOK
  BY TypeInit
<1>2. \A c \in Conns :
        /\ conn[c].pc = "none" /\ conn[c].permits = patterns[c[1]].streams /\ conn[c].made = 0
        /\ streams[c] = <<>>
  BY DEF SimulationInit
<1>3. SpawnedInOrder
  BY <1>2 DEF SpawnedInOrder
<1>4. ASSUME NEW c \in Conns PROVE Occupied(c) = patterns[c[1]].streams
  <2>1. Cardinality(Busy(streams[c])) = 0
    <3>1. Busy(streams[c]) = {}
      BY <1>2 DEF Busy
    <3> QED
      BY <3>1, FS_EmptySet
  <2>2. conn[c].permits \in Nat
    BY <1>1, ConnDomain
  <2> QED
    BY <1>2, <2>1, <2>2 DEF Occupied
<1>5. StreamsLimited
  BY <1>4, StreamsLimitedIs
<1>6. ASSUME NEW p \in Quic PROVE requests_left[p] + SumSeq(TakenBy(p)) = patterns[p].requests
  <2>1. \A i \in 1 .. patterns[p].connections : Taken(<<p, i>>) = 0
    BY <1>1, <1>2, ConnOf DEF Taken
  <2>2. \A i \in 1 .. Len(TakenBy(p)) : TakenBy(p)[i] = 0
    BY <1>1, <2>1, TakenByType
  <2>3. SumSeq(TakenBy(p)) = 0
    BY <1>1, <2>2, TakenByType, SumOfZeros
  <2>4. requests_left[p] = patterns[p].requests
    BY DEF SimulationInit
  <2> QED
    BY <1>1, <2>3, <2>4, ConnOf
<1> QED
  BY <1>1, <1>3, <1>5, <1>6, RequestsConservedIs DEF RequestInv

LEMMA RequestStep == RequestInv /\ [SimulationNext]_vars => RequestInv'
BY TypeStep, StreamsStep, RequestsStep DEF RequestInv

\* For every traffic file and every interleaving of the connections of a
\* pattern: the requests that are left and those the connections have taken add
\* up to the requests of the pattern.
THEOREM RequestsSharedOut == SimulationSpec => []RequestsConserved
<1>1. RequestInv => RequestsConserved
  BY DEF RequestInv
<1> QED
  BY <1>1, RequestInit, RequestStep, PTL DEF SimulationSpec

\* For every number of streams, of requests and of connections: the permits that
\* are left, the requests without a response and the request that sleeps add up
\* to the streams a connection may have, also when requests fail.
THEOREM PermitsAccounted == SimulationSpec => []StreamsLimited
<1>1. RequestInv => StreamsLimited
  BY DEF RequestInv
<1> QED
  BY <1>1, RequestInit, RequestStep, PTL DEF SimulationSpec

----------------------------------------------------------------------------
(* Success *)

\* What JoinsComplete says of one connection
Joined(c) ==
  /\ conn[c].made = Len(streams[c])
  /\ conn[c].pc \in {"joining", "ok"} => requests_left[c[1]] = 0
  /\ conn[c].pc = "ok" => \A k \in DOMAIN streams[c] : streams[c][k].client = "ok"

LEMMA JoinedClient ==
  ASSUME TrafficTypeOK, NEW c \in Conns, Joined(c), ClientTask(c) \/ client_loses(c)
  PROVE  Joined(c)' /\ (conn[c].pc = "ok" => conn'[c].pc = "ok")
<1>1. PICK s \in Seq(StreamRecords), n \in Nat : s = streams[c] /\ n = conn[c].made /\ n = Len(s)
  BY PatternOf, ConnDomain DEF Joined
<1>2. CASE connect(c)
  <2>1. conn[c].pc = "connecting" /\ streams' = streams
    BY <1>2 DEF connect
  <2> QED
    BY <1>2, <2>1, ConnectEffect DEF NewConn, Joined
<1>3. CASE take_request(c)
  <2>1. conn[c].pc = "loop" /\ streams' = streams
    BY <1>3 DEF take_request
  <2> QED
    BY <1>3, <2>1, TakeEffect DEF NewConn, Joined
<1>4. ASSUME streams' = [streams EXCEPT ![c] = Append(@, NewStream)] PROVE Len(streams'[c]) = n + 1
  <2>1. NewStream \in StreamRecords
    BY DEF NewStream, StreamRecords
  <2>2. streams'[c] = Append(s, NewStream)
    BY <1>1, <1>4, StreamAppended
  <2> QED
    BY <1>1, <2>1, <2>2
<1>5. CASE acquire_permit(c)
  <2>1. conn[c].pc = "acquire"
    BY <1>5 DEF acquire_permit
  <2> QED
    BY <1>1, <1>4, <1>5, <2>1, AcquireEffect DEF NewConn, Joined
<1>6. CASE interval_elapsed(c)
  <2>1. conn[c].pc = "sleep"
    BY <1>6 DEF interval_elapsed
  <2> QED
    BY <1>1, <1>4, <1>6, <2>1, SleptEffect DEF NewConn, Joined
<1>7. CASE connection_ends(c)
  <2>1. conn[c].pc = "joining" /\ streams' = streams /\ requests_left' = requests_left
    BY <1>7 DEF connection_ends
  <2> QED
    BY <1>7, <2>1, EndEffect DEF NewConn, Joined
<1>8. CASE client_loses(c)
  <2>1. streams' = streams /\ requests_left' = requests_left
    BY <1>8 DEF client_loses
  <2> QED
    BY <1>8, <2>1, LosesEffect DEF NewConn, Joined
<1>9. CASE \E k \in DOMAIN streams[c] : request(c, k)
  <2>1. PICK k \in DOMAIN streams[c] : request(c, k)
    BY <1>9
  <2>2. /\ streams'[c] \in Seq(StreamRecords) /\ DOMAIN streams'[c] = DOMAIN s
        /\ s[k].client \in {"spawned", "requested"}
        /\ conn'[c].pc = conn[c].pc /\ conn'[c].made = n /\ requests_left' = requests_left
    BY <1>1, <2>1, RequestEffect DEF NewConn, NewStreams, request
  <2>3. Len(streams'[c]) = n
    BY <1>1, <2>2
  <2>4. conn[c].pc # "ok"
    BY <1>1, <2>1, <2>2 DEF Joined
  <2> QED
    BY <2>2, <2>3, <2>4 DEF Joined
<1> QED
  BY <1>2, <1>3, <1>5, <1>6, <1>7, <1>8, <1>9 DEF ClientTask

LEMMA JoinedServer ==
  ASSUME TrafficTypeOK, NEW c \in Conns, Joined(c), ServerTask(c) \/ server_closed(c)
  PROVE  Joined(c)'
<1>1. conn' = conn /\ requests_left' = requests_left
  BY ServerFrame
<1>2. CASE accept_connection(c) \/ handshake(c) \/ server_ends(c) \/ server_closed(c)
  <2>1. streams' = streams
    BY <1>2 DEF accept_connection, handshake, server_ends, server_closed
  <2> QED
    BY <1>1, <2>1 DEF Joined
<1>3. CASE \E k \in DOMAIN streams[c] : accept_stream(c, k) \/ respond(c, k)
  <2>1. PICK k \in DOMAIN streams[c] : accept_stream(c, k) \/ respond(c, k)
    BY <1>3
  <2>2. /\ streams'[c] \in Seq(StreamRecords) /\ DOMAIN streams'[c] = DOMAIN streams[c]
        /\ streams'[c][k].client = streams[c][k].client
        /\ \A j \in DOMAIN streams[c] : j # k => streams'[c][j] = streams[c][j]
    BY <2>1, ResponseEffect DEF NewStreams
  <2>3. Len(streams'[c]) = Len(streams[c])
    BY <2>2, PatternOf
  <2> QED
    BY <1>1, <2>2, <2>3 DEF Joined
<1> QED
  BY <1>2, <1>3 DEF ServerTask

\* What the steps do to pattern_task
LEMMA PatternSteps ==
  ASSUME TrafficTypeOK, [SimulationNext]_vars, NEW p \in Quic,
         pattern_task'[p] = "ok", pattern_task[p] # "ok"
  PROVE  pattern_ends(p) /\ \A c \in ConnsOf(p) : conn[c].pc = "ok"
<1>1. pattern_task \in [Quic -> {"none", "running", "ok", "error"}]
  BY DEF TrafficTypeOK
<1>2. CASE start_client
  BY <1>1, <1>2 DEF start_client
<1>3. CASE \E q \in Quic : pattern_ends(q)
  <2>1. PICK q \in Quic : pattern_ends(q)
    BY <1>3
  <2>2. q = p
    BY <1>1, <2>1 DEF pattern_ends
  <2>3. \A i \in 1 .. patterns[p].connections : conn[<<p, i>>].pc = "ok"
    BY <1>1, <2>1, <2>2 DEF pattern_ends
  <2> QED
    BY <2>1, <2>2, <2>3 DEF ConnsOf
<1>4. CASE \E q \in Quic : spawn_connection(q)
  BY <1>4 DEF spawn_connection
<1>5. CASE \E c \in Conns : ClientTask(c) \/ client_loses(c)
  BY <1>5, ClientFrame
<1>6. CASE \E c \in Conns : ServerTask(c) \/ server_closed(c)
  BY <1>6, ServerFrame
<1> QED
  BY <1>2, <1>3, <1>4, <1>5, <1>6
     DEF SimulationNext, Driver, validate, check_connectivity, connectivity_checked,
         start_server, node_unknown, servers_started, clients_started, udp_joined,
         quic_joined, server_task_joined, report_stats, check_network, background_ends,
         Return, driverOthers, clientVars, vars

LEMMA JoinsIs ==
  JoinsComplete <=>
    /\ \A c \in Conns : Joined(c)
    /\ \A p \in Quic : pattern_task[p] = "ok" => \A c \in ConnsOf(p) : conn[c].pc = "ok"
BY DEF JoinsComplete, Joined

LEMMA JoinsStep ==
  ASSUME TrafficTypeOK, SpawnedInOrder, JoinsComplete, [SimulationNext]_vars
  PROVE  JoinsComplete'
<1>1. /\ patterns' = patterns /\ Conns' = Conns /\ Quic' = Quic
      /\ \A p \in Quic : ConnsOf(p)' = ConnsOf(p) /\ ConnsOf(p) \subseteq Conns
  BY PatternsFixed DEF ConnsOf, Conns
<1>2. /\ \A c \in Conns : Joined(c)
      /\ \A p \in Quic : pattern_task[p] = "ok" => \A c \in ConnsOf(p) : conn[c].pc = "ok"
  BY JoinsIs
<1>3. (\A c \in Conns : Joined(c)' /\ (conn[c].pc = "ok" => conn'[c].pc = "ok")) => JoinsComplete'
  <2> SUFFICES ASSUME \A c \in Conns : Joined(c)' /\ (conn[c].pc = "ok" => conn'[c].pc = "ok")
               PROVE  JoinsComplete'
    OBVIOUS
  <2>1. ASSUME NEW p \in Quic, pattern_task'[p] = "ok", NEW c \in ConnsOf(p)
        PROVE  conn'[c].pc = "ok"
    <3>1. conn[c].pc = "ok"
      BY <1>2, <2>1, PatternSteps
    <3> QED
      BY <1>1, <3>1
  <2>2. (/\ \A c \in Conns : Joined(c)
         /\ \A p \in Quic : pattern_task[p] = "ok" => \A c \in ConnsOf(p) : conn[c].pc = "ok")'
    BY <1>1, <2>1
  <2> QED
    BY <2>2, JoinsIs, PTL
<1>4. CASE UNCHANGED <<spawned, requests_left, conn, streams, server>>
  BY <1>2, <1>3, <1>4 DEF Joined
<1>5. ASSUME NEW p \in Quic, spawn_connection(p)
      PROVE  \A c \in Conns : Joined(c)' /\ (conn[c].pc = "ok" => conn'[c].pc = "ok")
  <2>1. PICK e : e = <<p, spawned[p] + 1>>
    OBVIOUS
  <2>2. /\ e \in Conns /\ requests_left' = requests_left /\ streams' = streams
        /\ conn[e].pc = "none" /\ conn'[e].pc = "connecting" /\ conn'[e].made = conn[e].made
        /\ \A d \in Conns : d # e => conn'[d] = conn[d]
    BY <1>5, <2>1, SpawnEffect DEF NewConn
  <2> QED
    BY <1>2, <2>2 DEF Joined
<1>6. ASSUME NEW e \in Conns, ServerTask(e) \/ server_closed(e)
      PROVE  \A c \in Conns : Joined(c)' /\ (conn[c].pc = "ok" => conn'[c].pc = "ok")
  <2>1. conn' = conn /\ requests_left' = requests_left
    BY <1>6, ServerFrame
  <2>2. \A c \in Conns : c # e => streams'[c] = streams[c]
    BY <1>6, ServerTypes
  <2>3. Joined(e)'
    BY <1>2, <1>6, JoinedServer
  <2>4. \A c \in Conns : c # e => Joined(c)'
    BY <1>2, <2>1, <2>2 DEF Joined
  <2> QED
    BY <2>1, <2>3, <2>4
<1>7. ASSUME NEW e \in Conns, ClientTask(e) \/ client_loses(e)
      PROVE  \A c \in Conns : Joined(c)' /\ (conn[c].pc = "ok" => conn'[c].pc = "ok")
  <2>1. Joined(e)' /\ (conn[e].pc = "ok" => conn'[e].pc = "ok")
    BY <1>2, <1>7, JoinedClient
  <2>2. ASSUME NEW c \in Conns, c # e
        PROVE  Joined(c)' /\ (conn[c].pc = "ok" => conn'[c].pc = "ok")
    <3>1. conn'[c] = conn[c] /\ streams'[c] = streams[c] /\ c[1] \in Quic
      BY <1>7, <2>2, ClientTypes, PatternOf
    <3>2. requests_left[c[1]] = 0 => requests_left'[c[1]] = 0
      <4>1. PICK p, q : p = e[1] /\ q = c[1]
        OBVIOUS
      <4>2. \/ requests_left' = requests_left
            \/ requests_left[p] > 0 /\ requests_left' = [requests_left EXCEPT ![p] = @ - 1]
        BY <1>7, <4>1, TakenClient
      <4>3. requests_left[q] = 0 => requests_left'[q] = 0
        BY <3>1, <4>1, <4>2 DEF TrafficTypeOK
      <4> QED
        BY <4>1, <4>3
    <3> QED
      BY <1>2, <3>1, <3>2 DEF Joined
  <2> QED
    BY <2>1, <2>2
<1> QED
  BY <1>3, <1>4, <1>5, <1>6, <1>7, StepCases

\* Queues of server tasks
LEMMA HandledCases ==
  ASSUME [SimulationNext]_vars
  PROVE  \/ handled' = handled
         \/ server_task_joined /\ handled' = [handled EXCEPT !.joined = @ + 1]
         \/ \E c \in Conns : accept_connection(c)
<1>1. CASE \E q \in Quic : spawn_connection(q) \/ pattern_ends(q)
  BY <1>1 DEF spawn_connection, pattern_ends
<1>2. CASE \E c \in Conns : ClientTask(c) \/ client_loses(c)
  BY <1>2, ClientFrame
<1>3. CASE \E c \in Conns : ServerTask(c) \/ server_closed(c)
  BY <1>3 DEF ServerTask, server_closed, handshake, server_ends, accept_stream, respond
<1> QED
  BY <1>1, <1>2, <1>3
     DEF SimulationNext, Driver, validate, check_connectivity, connectivity_checked,
         start_server, node_unknown, servers_started, start_client, clients_started, udp_joined,
         quic_joined, server_task_joined, report_stats, check_network, background_ends,
         Return, driverOthers, vars

\* A server task that has ended keeps its verdict; an accepted one stays.
LEMMA ServerProgress ==
  ASSUME TrafficTypeOK, SpawnedInOrder, [SimulationNext]_vars, NEW c \in Conns,
         server[c].pc = "ok" => server[c].net = "closed"
  PROVE  /\ server[c].pc # "none" => server'[c].pc # "none"
         /\ server[c].pc = "ok" => server'[c].pc = "ok"
         /\ server'[c].pc = "ok" => server'[c].net = "closed"
<1>1. CASE server' = server
  BY <1>1
<1>2. ASSUME NEW e \in Conns, ServerTask(e) \/ server_closed(e)
      PROVE  /\ server[c].pc # "none" => server'[c].pc # "none"
             /\ server[c].pc = "ok" => server'[c].pc = "ok"
             /\ server'[c].pc = "ok" => server'[c].net = "closed"
  <2>1. CASE c # e
    BY <1>2, <2>1, ServerTypes
  <2>2. CASE c = e
    <3>1. CASE accept_connection(c)
      BY <3>1, ServerEffects DEF NewServer, accept_connection
    <3>2. CASE handshake(c)
      BY <3>2, ServerEffects DEF NewServer, handshake
    <3>3. CASE server_closed(c)
      <4>1. server[c].net = "open"
        BY <3>3 DEF server_closed
      <4>2. server'[c].pc = server[c].pc
        BY <3>3, ServerEffects DEF NewServer
      <4> QED
        BY <4>1, <4>2
    <3>4. CASE server_ends(c)
      <4>1. server[c].pc = "accepting"
        BY <3>4 DEF server_ends
      <4>2. server'[c].pc = Verdict(c) /\ server'[c].net = server[c].net
        BY <3>4, ServerEffects DEF NewServer
      <4>3. Verdict(c) # "none" /\ (Verdict(c) = "ok" => server[c].net = "closed")
        BY DEF Verdict
      <4> QED
        BY <4>1, <4>2, <4>3
    <3>5. CASE \E k \in DOMAIN streams[c] : accept_stream(c, k) \/ respond(c, k)
      BY <1>1, <3>5 DEF accept_stream, respond
    <3> QED
      BY <1>2, <2>2, <3>1, <3>2, <3>3, <3>4, <3>5 DEF ServerTask
  <2> QED
    BY <2>1, <2>2
<1>3. ASSUME NEW p \in Quic, spawn_connection(p) PROVE server' = server
  BY <1>3 DEF spawn_connection
<1>4. ASSUME NEW e \in Conns, ClientTask(e) \/ client_loses(e) PROVE server' = server
  BY <1>4, ClientFrame
<1> QED
  BY <1>1, <1>2, <1>3, <1>4, StepCases

LEMMA ServersStep ==
  ASSUME TrafficTypeOK, SpawnedInOrder, ServersJoined, [SimulationNext]_vars
  PROVE  ServersJoined'
<1>1. Conns' = Conns
  BY PatternsFixed
<1>2. PICK q, n : q = handled.queue /\ n = handled.joined
  OBVIOUS
<1>3. /\ DOMAIN handled = {"queue", "joined"}
      /\ q \in Seq(Conns) /\ n \in 0 .. Len(q) /\ n \in Nat /\ Len(q) \in Nat /\ DOMAIN q = 1 .. Len(q)
      /\ \A i \in DOMAIN q : server[q[i]].pc # "none"
      /\ \A i, j \in DOMAIN q : q[i] = q[j] => i = j
      /\ \A i \in 1 .. n : server[q[i]].pc = "ok"
      /\ \A c \in Conns : server[c].pc = "ok" => server[c].net = "closed"
  BY <1>2 DEF ServersJoined
<1>4. \A c \in Conns : /\ server[c].pc # "none" => server'[c].pc # "none"
                       /\ server[c].pc = "ok" => server'[c].pc = "ok"
                       /\ server'[c].pc = "ok" => server'[c].net = "closed"
  BY <1>3, ServerProgress
<1>5. \A i \in DOMAIN q : q[i] \in Conns /\ server'[q[i]].pc # "none"
  BY <1>3, <1>4
<1>6. \A i \in 1 .. n : server'[q[i]].pc = "ok"
  BY <1>3, <1>4
<1>7. CASE handled' = handled
  BY <1>1, <1>2, <1>3, <1>4, <1>5, <1>6, <1>7 DEF ServersJoined
<1>8. CASE server_task_joined /\ handled' = [handled EXCEPT !.joined = @ + 1]
  <2>1. DOMAIN handled' = DOMAIN handled /\ handled'.queue = q /\ handled'.joined = n + 1
    BY <1>2, <1>3, <1>8
  <2>2. n < Len(q) /\ server[q[n + 1]].pc = "ok"
    BY <1>2, <1>3, <1>8, <2>1 DEF server_task_joined, Return
  <2>3. n + 1 \in 0 .. Len(q) /\ n + 1 \in DOMAIN q
    BY <1>3, <2>2
  <2>4. \A i \in 1 .. n + 1 : server'[q[i]].pc = "ok"
    <3>1. server'[q[n + 1]].pc = "ok"
      BY <1>4, <1>5, <2>2, <2>3
    <3>2. \A i \in 1 .. n + 1 : i \in 1 .. n \/ i = n + 1
      BY <1>3
    <3> QED
      BY <1>6, <3>1, <3>2
  <2> QED
    BY <1>1, <1>3, <1>4, <1>5, <2>1, <2>3, <2>4 DEF ServersJoined
<1>9. ASSUME NEW c \in Conns, accept_connection(c) PROVE ServersJoined'
  <2>1. /\ handled' = [handled EXCEPT !.queue = Append(@, c)] /\ server[c].pc = "none"
    BY <1>9 DEF accept_connection
  <2>2. PICK u : u = Append(q, c)
    OBVIOUS
  <2>3. DOMAIN handled' = DOMAIN handled /\ handled'.queue = u /\ handled'.joined = n
    BY <1>2, <1>3, <2>1, <2>2
  <2>4. /\ u \in Seq(Conns) /\ Len(u) = Len(q) + 1 /\ DOMAIN u = 1 .. Len(q) + 1
        /\ u[Len(q) + 1] = c /\ \A i \in DOMAIN q : u[i] = q[i]
    BY <1>3, <2>2
  <2>5. \A i \in DOMAIN u : i \in DOMAIN q \/ i = Len(q) + 1
    BY <1>3, <2>4
  <2>6. \A i \in DOMAIN q : q[i] # c
    BY <1>3, <2>1
  <2>7. \A i, j \in DOMAIN u : u[i] = u[j] => i = j
    BY <1>3, <2>4, <2>5, <2>6
  <2>8. server'[c].pc # "none"
    BY <1>9, ServerEffects DEF NewServer
  <2>9. \A i \in DOMAIN u : server'[u[i]].pc # "none"
    BY <1>5, <2>4, <2>5, <2>8
  <2>10. n \in 0 .. Len(u) /\ \A i \in 1 .. n : i \in DOMAIN q
    BY <1>3, <2>4
  <2>11. \A i \in 1 .. n : server'[u[i]].pc = "ok"
    BY <1>6, <2>4, <2>10
  <2> QED
    BY <1>1, <1>3, <1>4, <2>3, <2>4, <2>7, <2>9, <2>10, <2>11 DEF ServersJoined
<1> QED
  BY <1>7, <1>8, <1>9, HandledCases

\* The driver
LEMMA DriverStep ==
  ASSUME SuccessInv, [SimulationNext]_vars
  PROVE  /\ driver' \in {"quic", "handled"} => background' = {}
         /\ driver' = "handled" => \A p \in Quic : pattern_task'[p] = "ok"
         /\ result' = "ok" =>
              /\ driver' \in {"report", "finished"} /\ background' = {}
              /\ \A p \in Quic : pattern_task'[p] = "ok"
              /\ handled'.joined >= TotalConnections
              /\ driver' = "finished" => ~NodesReused
<1>1. /\ driver \in {"quic", "handled"} => background = {}
      /\ driver = "handled" => \A p \in Quic : pattern_task[p] = "ok"
      /\ result = "ok" =>
           /\ driver \in {"report", "finished"} /\ background = {}
           /\ \A p \in Quic : pattern_task[p] = "ok"
           /\ handled.joined >= TotalConnections
           /\ driver = "finished" => ~NodesReused
  BY DEF SuccessInv, TrafficDone
<1>2. CASE UNCHANGED vars \/ check_connectivity \/ check_network
  BY <1>1, <1>2 DEF vars, driverVars, clientVars, check_connectivity, check_network, driverOthers
<1>3. CASE validate \/ connectivity_checked
  BY <1>1, <1>3 DEF validate, connectivity_checked, driverOthers, clientVars
<1>4. CASE start_server \/ servers_started \/ clients_started \/ start_client
  BY <1>1, <1>4 DEF start_server, servers_started, clients_started, start_client, clientVars
<1>5. CASE node_unknown \/ udp_joined
  BY <1>1, <1>5 DEF node_unknown, udp_joined, Return, clientVars
<1>6. CASE quic_joined
  <2>1. CASE Return("error")
    BY <1>1, <2>1 DEF Return
  <2>2. CASE /\ {p \in Quic : pattern_task[p] # "ok"} = {} /\ driver = "quic" /\ driver' = "handled"
             /\ UNCHANGED <<result, background, pattern_task>>
    BY <1>1, <2>2
  <2> QED
    BY <1>6, <2>1, <2>2 DEF quic_joined, clientVars
<1>7. CASE server_task_joined
  <2>1. driver = "handled" /\ background = {} /\ \A p \in Quic : pattern_task[p] = "ok"
    BY <1>1, <1>7 DEF server_task_joined
  <2>2. CASE handled.joined >= TotalConnections /\ Return("ok")
    BY <1>1, <2>1, <2>2 DEF Return, clientVars
  <2>3. CASE Return("error")
    BY <1>1, <2>1, <2>3 DEF Return, clientVars
  <2>4. CASE UNCHANGED <<driverVars, clientVars>>
    BY <1>1, <2>1, <2>4 DEF driverVars, clientVars
  <2> QED
    BY <1>7, <2>2, <2>3, <2>4 DEF server_task_joined
<1>8. CASE report_stats
  BY <1>1, <1>8 DEF report_stats, clientVars
<1>9. CASE \E p \in DOMAIN patterns : background_ends(p)
  BY <1>1, <1>9 DEF background_ends, clientVars, Alive
<1>10. CASE \E p \in Quic : spawn_connection(p) \/ pattern_ends(p)
  <2>1. PICK p \in Quic : spawn_connection(p) \/ pattern_ends(p)
    BY <1>10
  <2>2. UNCHANGED driverVars /\ handled' = handled /\ Alive /\ pattern_task[p] = "running"
    BY <2>1 DEF spawn_connection, pattern_ends
  <2> QED
    BY <1>1, <2>2 DEF driverVars, Alive
<1>11. CASE \E c \in Conns : ClientTask(c) \/ client_loses(c)
  BY <1>1, <1>11, ClientFrame
<1>12. CASE \E c \in Conns : ServerTask(c) \/ server_closed(c)
  BY <1>1, <1>12, ServerFrame
<1> QED
  BY <1>2, <1>3, <1>4, <1>5, <1>6, <1>7, <1>8, <1>9, <1>10, <1>11, <1>12
     DEF SimulationNext, Driver

LEMMA SuccessStep == SuccessInv /\ [SimulationNext]_vars => SuccessInv'
<1> SUFFICES ASSUME SuccessInv, [SimulationNext]_vars PROVE SuccessInv'
  OBVIOUS
<1>1. RequestInv' /\ JoinsComplete' /\ ServersJoined'
  BY RequestStep, JoinsStep, ServersStep DEF SuccessInv, RequestInv
<1>2. Quic' = Quic /\ TotalConnections' = TotalConnections /\ NodesReused' = NodesReused
  <2>1. patterns' = patterns /\ Quic' = Quic /\ Conns' = Conns
    BY PatternsFixed
  <2>2. TotalConnections' = TotalConnections
    BY <2>1 DEF TotalConnections
  <2>3. NodesReused' = NodesReused
    BY <2>1 DEF NodesReused
  <2> QED
    BY <2>1, <2>2, <2>3
<1> QED
  BY <1>1, <1>2, DriverStep DEF SuccessInv, TrafficDone

LEMMA SuccessInit == SimulationInit => SuccessInv
<1> SUFFICES ASSUME SimulationInit PROVE SuccessInv
  OBVIOUS
<1>1. RequestInv
  BY RequestInit
<1>2. JoinsComplete
  BY DEF SimulationInit, JoinsComplete
<1>3. ServersJoined
  BY DEF SimulationInit, ServersJoined
<1> QED
  BY <1>1, <1>2, <1>3 DEF SimulationInit, SuccessInv

LEMMA ConnsFinite ==
  ASSUME TrafficTypeOK
  PROVE  IsFiniteSet(Conns)
<1>1. IsFiniteSet(Quic)
  <2>1. Len(patterns) \in Nat /\ Quic \in SUBSET (1 .. Len(patterns))
    BY DEF TrafficTypeOK, Quic
  <2>2. IsFiniteSet(1 .. Len(patterns))
    BY <2>1, FS_Interval
  <2> QED
    BY <2>1, <2>2, FS_Subset
<1>2. ASSUME NEW p \in Quic PROVE IsFiniteSet(ConnsOf(p))
  <2>1. patterns[p].connections \in Nat
    BY ConnOf
  <2>2. IsFiniteSet(1 .. patterns[p].connections) /\ IsFiniteSet({p})
    <3>1. IsFiniteSet(1 .. patterns[p].connections)
      BY <2>1, FS_Interval
    <3>2. IsFiniteSet({p})
      BY FS_Singleton
    <3> QED
      BY <3>1, <3>2
  <2> QED
    BY <2>2, FS_Product DEF ConnsOf
<1>3. IsFiniteSet({ConnsOf(p) : p \in Quic})
  <2>1. PICK f : f = [p \in Quic |-> ConnsOf(p)]
    OBVIOUS
  <2>2. f \in Surjection(Quic, {ConnsOf(p) : p \in Quic})
    BY <2>1 DEF Surjection
  <2> QED
    BY <1>1, <2>2, FS_Surjection
<1> QED
  BY <1>2, <1>3, FS_UNION DEF Conns

\* As many server tasks were joined as there are connections: all of them.
LEMMA AllServersJoined ==
  ASSUME TrafficTypeOK, ServersJoined, handled.joined >= TotalConnections
  PROVE  \A c \in Conns : server[c].pc = "ok"
<1>1. PICK q, n : q = handled.queue /\ n = handled.joined
  OBVIOUS
<1>2. /\ q \in Seq(Conns) /\ n \in Nat /\ \A i \in 1 .. n : i \in DOMAIN q /\ q[i] \in Conns
      /\ \A i, j \in DOMAIN q : q[i] = q[j] => i = j
      /\ \A i \in 1 .. n : server[q[i]].pc = "ok"
  BY <1>1 DEF ServersJoined
<1>3. IsFiniteSet(Conns) /\ Cardinality(Conns) \in Nat /\ n >= Cardinality(Conns)
  BY <1>1, ConnsFinite, FS_CardinalityType DEF TotalConnections
<1>4. IsFiniteSet(1 .. n) /\ Cardinality(1 .. n) = n
  BY <1>2, FS_Interval
<1> SUFFICES ASSUME NEW c \in Conns, \A i \in 1 .. n : q[i] # c PROVE FALSE
  BY <1>2
<1>5. IsFiniteSet(Conns \ {c}) /\ Cardinality(Conns \ {c}) = Cardinality(Conns) - 1
  BY <1>3, FS_RemoveElement
<1>6. PICK f : f = [i \in 1 .. n |-> q[i]]
  OBVIOUS
<1>7. f \in [1 .. n -> Conns \ {c}]
  BY <1>2, <1>6
<1>8. Cardinality(Conns \ {c}) < Cardinality(1 .. n)
  BY <1>2, <1>3, <1>4, <1>5
<1>9. \E i, j \in 1 .. n : i # j /\ f[i] = f[j]
  <2>1. PICK S, T : S = 1 .. n /\ T = Conns \ {c}
    OBVIOUS
  <2>2. IsFiniteSet(S) /\ IsFiniteSet(T) /\ Cardinality(T) < Cardinality(S) /\ f \in [S -> T]
    BY <1>4, <1>5, <1>7, <1>8, <2>1
  <2>3. \E i, j \in S : i # j /\ f[i] = f[j]
    BY <2>2, FS_PigeonHole
  <2> QED
    BY <2>1, <2>3
<1> QED
  BY <1>2, <1>6, <1>9

LEMMA SuccessImplied == SuccessInv => SuccessIsComplete
<1> SUFFICES ASSUME SuccessInv, driver = "finished", result = "ok"
             PROVE  /\ \A p \in Quic : patterns[p].connections > 0 =>
                         FoldLeft(+, 0, [i \in 1 .. patterns[p].connections |->
                                   Cardinality(Tasks(<<p, i>>, {"ok"}))]) = patterns[p].requests
                    /\ \A c \in Conns : server[c] = [pc |-> "ok", net |-> "closed"]
                    /\ background = {}
                    /\ ~NodesReused
  BY DEF SuccessIsComplete
<1>1. /\ TrafficTypeOK /\ RequestsConserved /\ JoinsComplete /\ ServersJoined /\ background = {}
      /\ \A p \in Quic : pattern_task[p] = "ok"
      /\ handled.joined >= TotalConnections /\ ~NodesReused
  BY DEF SuccessInv, RequestInv, TrafficDone
<1>2. ASSUME NEW c \in Conns PROVE server[c] = [pc |-> "ok", net |-> "closed"]
  <2>1. server[c] \in ServerRecords /\ server[c].pc = "ok" /\ server[c].net = "closed"
    BY <1>1, AllServersJoined, PatternOf DEF ServersJoined
  <2> QED
    BY <2>1 DEF ServerRecords
<1>3. ASSUME NEW p \in Quic, patterns[p].connections > 0
      PROVE  FoldLeft(+, 0, [i \in 1 .. patterns[p].connections |->
                               Cardinality(Tasks(<<p, i>>, {"ok"}))]) = patterns[p].requests
  <2>1. PICK n \in Nat : n = patterns[p].connections /\ n > 0
    BY <1>1, <1>3, ConnOf
  <2>2. ASSUME NEW i \in 1 .. n
        PROVE  /\ Cardinality(Tasks(<<p, i>>, {"ok"})) = Taken(<<p, i>>)
               /\ requests_left[p] = 0
    <3>1. PICK c : c = <<p, i>>
      OBVIOUS
    <3>2. c \in Conns /\ c \in ConnsOf(p) /\ c[1] = p
      BY <1>1, <2>1, <3>1, ConnOf DEF ConnsOf
    <3>3. /\ conn[c].pc = "ok" /\ conn[c].made = Len(streams[c]) /\ requests_left[p] = 0
          /\ \A k \in DOMAIN streams[c] : streams[c][k].client = "ok"
      BY <1>1, <3>2 DEF JoinsComplete
    <3>4. streams[c] \in Seq(StreamRecords) /\ Len(streams[c]) \in Nat
      BY <1>1, <3>2, PatternOf
    <3>5. Tasks(c, {"ok"}) = 1 .. Len(streams[c])
      BY <3>3, <3>4 DEF Tasks
    <3>6. Cardinality(1 .. Len(streams[c])) = Len(streams[c])
      BY <3>4, FS_Interval
    <3>7. Taken(c) = Len(streams[c])
      BY <3>3, <3>4 DEF Taken
    <3> QED
      BY <3>1, <3>3, <3>5, <3>6, <3>7
  <2>3. [i \in 1 .. n |-> Cardinality(Tasks(<<p, i>>, {"ok"}))] = TakenBy(p)
    BY <2>1, <2>2, Zenon DEF TakenBy
  <2>4. requests_left[p] = 0
    <3>1. 1 \in 1 .. n
      BY <2>1
    <3> QED
      BY <2>2, <3>1
  <2>5. requests_left[p] + SumSeq(TakenBy(p)) = patterns[p].requests
    BY <1>1, RequestsConservedIs
  <2>6. SumSeq(TakenBy(p)) \in Int
    BY <1>1, TakenByType, SumType
  <2>7. SumSeq(TakenBy(p)) = patterns[p].requests
    BY <2>4, <2>5, <2>6
  <2> QED
    BY <2>1, <2>3, <2>7 DEF SumSeq
<1> QED
  BY <1>1, <1>2, <1>3

\* For every traffic file: a simulation that succeeds has made every request of
\* every pattern and got every response, every server task ended because the
\* client closed the connection, no UDP task runs and no node had two roles.
THEOREM SuccessMeansComplete == SimulationSpec => []SuccessIsComplete
BY SuccessInit, SuccessStep, SuccessImplied, PTL DEF SimulationSpec

----------------------------------------------------------------------------
(* The connectivity check: pairs and their order *)

LEMMA PairsType ==
  ASSUME patterns \in Seq(PatternRecords), NEW q \in Pairs
  PROVE  /\ q \in Nat \X Nat /\ q = <<q[1], q[2]>> /\ q[1] <= q[2]
         /\ \E p \in DOMAIN patterns : {q[1], q[2]} = {patterns[p].client[1], patterns[p].server[1]}
<1>1. PICK p \in DOMAIN patterns :
        q = <<Min({patterns[p].client[1], patterns[p].server[1]}),
              Max({patterns[p].client[1], patterns[p].server[1]})>>
  BY DEF Pairs
<1>2. patterns[p] \in PatternRecords
  OBVIOUS
<1>3. PICK a \in Nat, b \in Nat : a = patterns[p].client[1] /\ b = patterns[p].server[1]
  BY <1>2 DEF PatternRecords
<1>4. /\ Min({a, b}) = IF a <= b THEN a ELSE b
      /\ Max({a, b}) = IF a <= b THEN b ELSE a
  BY <1>3 DEF Min, Max
<1>5. q = <<Min({a, b}), Max({a, b})>>
  BY <1>1, <1>3
<1>6. \E x, y \in Nat : q = <<x, y>> /\ x <= y /\ {x, y} = {a, b}
  <2>1. CASE a <= b
    <3>1. q = <<a, b>> /\ {a, b} = {a, b}
      BY <1>4, <1>5, <2>1
    <3> QED
      BY <1>3, <2>1, <3>1
  <2>2. CASE ~(a <= b)
    <3>1. q = <<b, a>> /\ {b, a} = {a, b} /\ b <= a
      BY <1>3, <1>4, <1>5, <2>2
    <3> QED
      BY <1>3, <3>1
  <2> QED
    BY <2>1, <2>2
<1>8. PICK x \in Nat, y \in Nat : q = <<x, y>> /\ x <= y /\ {x, y} = {a, b}
  BY <1>6
<1>7. q[1] = x /\ q[2] = y
  BY <1>8
<1> QED
  BY <1>3, <1>8, <1>7

LEMMA LowerTotal ==
  ASSUME NEW p \in Nat \X Nat, NEW q \in Nat \X Nat
  PROVE  /\ p # q => Lower(p, q) \/ Lower(q, p)
         /\ ~(Lower(p, q) /\ Lower(q, p)) /\ ~Lower(p, p)
<1>1. p = <<p[1], p[2]>> /\ q = <<q[1], q[2]>> /\ {p[1], p[2], q[1], q[2]} \subseteq Nat
  OBVIOUS
<1> QED
  BY <1>1 DEF Lower

\* A set of pairs has a first one.
LEMMA FirstPair ==
  ASSUME NEW S, S \subseteq Nat \X Nat, S # {}
  PROVE  \E p \in S : \A q \in S : ~Lower(q, p)
<1> DEFINE A == {p[1] : p \in S}
<1>1. A \subseteq Nat /\ A # {}
  OBVIOUS
<1>2. PICK a \in A : \A x \in A : a <= x
  BY <1>1, LeastNatural
<1> DEFINE B == {p[2] : p \in {q \in S : q[1] = a}}
<1>3. B \subseteq Nat /\ B # {}
  OBVIOUS
<1>4. PICK b \in B : \A x \in B : b <= x
  BY <1>3, LeastNatural
<1>5. PICK p \in S : p[1] = a /\ p[2] = b
  BY <1>4
<1>6. ASSUME NEW q \in S PROVE ~Lower(q, p)
  <2>1. a <= q[1] /\ (q[1] = a => b <= q[2])
    BY <1>2, <1>4
  <2>2. q[1] \in Nat /\ q[2] \in Nat /\ a \in Nat /\ b \in Nat
    BY <1>1, <1>3
  <2> QED
    BY <1>5, <2>1, <2>2 DEF Lower
<1> QED
  BY <1>6

LEMMA PairIsFirst ==
  ASSUME patterns \in Seq(PatternRecords), CheckTypeOK, check.left # {}
  PROVE  /\ Pair \in check.left /\ Pair \in Pairs
         /\ \A q \in check.left : ~Lower(q, Pair)
         /\ \A q \in check.left \ {Pair} : Lower(Pair, q)
<1>1. check.left \subseteq Pairs /\ Pairs \subseteq Nat \X Nat
  BY PairsType DEF CheckTypeOK
<1>2. \E p \in check.left : \A q \in check.left : ~Lower(q, p)
  BY <1>1, FirstPair
<1>3. Pair \in check.left /\ \A q \in check.left : ~Lower(q, Pair)
  BY <1>2 DEF Pair
<1> QED
  BY <1>1, <1>3, LowerTotal

\* The pairs before the one that is checked are those that passed.
LEMMA EarlierPassed ==
  ASSUME patterns \in Seq(PatternRecords), CheckTypeOK, PassedInOrder, check.left # {}
  PROVE  \A r \in Pairs : Lower(r, Pair) <=> r \in Passed
BY PairIsFirst DEF PassedInOrder, Passed

\* The directions of different pairs differ.
LEMMA DirectionsDiffer ==
  ASSUME patterns \in Seq(PatternRecords), NEW p \in Pairs, NEW q \in Pairs, p # q
  PROVE  BothWays(p) \cap BothWays(q) = {}
<1>1. PICK a \in Nat, b \in Nat : p = <<a, b>> /\ a <= b
  BY PairsType
<1>2. PICK c \in Nat, d \in Nat : q = <<c, d>> /\ c <= d
  BY PairsType
<1> QED
  BY <1>1, <1>2 DEF BothWays

LEMMA DirectionIs ==
  ASSUME NEW i \in {1, 2}
  PROVE  Direction(i) \in BothWays(Pair)
BY DEF Direction, BothWays

----------------------------------------------------------------------------
(* The steps of the check *)

\* The pair that is checked stays, and so do the pairs that passed.
LEMMA SamePair ==
  ASSUME patterns' = patterns, check'.left = check.left
  PROVE  /\ Pairs' = Pairs /\ Passed' = Passed /\ Pair' = Pair
         /\ \A i \in {1, 2} : Direction(i)' = Direction(i)
         /\ \A p : Earlier(p)' = Earlier(p)
<1>1. Pairs' = Pairs
  BY DEF Pairs
<1>2. Pair' = Pair
  BY DEF Pair
<1> QED
  BY <1>1, <1>2 DEF Passed, Direction, Earlier

LEMMA CheckFields ==
  ASSUME CheckTypeOK
  PROVE  /\ DOMAIN check = {"result", "left", "attempt", "got"}
         /\ check.result \in {"none", "passed", "failed", "panic"} /\ check.left \subseteq Pairs
         /\ check.attempt \in 0 .. Attempts /\ check.got \in Seq(Directions \union {Timeout})
BY DEF CheckTypeOK

\* The check stops.
LEMMA CheckStops ==
  ASSUME CheckInv, patterns' = patterns, NEW v \in {"failed", "panic"},
         check' = [check EXCEPT !.result = v], UNCHANGED <<inbound, flying, trace>>
  PROVE  CheckInv'
<1>1. /\ check'.result = v /\ check'.left = check.left /\ check'.attempt = check.attempt
      /\ check'.got = check.got
  BY CheckFields DEF CheckInv
<1>2. /\ Pairs' = Pairs /\ Passed' = Passed /\ Pair' = Pair
      /\ \A i \in {1, 2} : Direction(i)' = Direction(i)
      /\ \A p : Earlier(p)' = Earlier(p)
  BY <1>1, SamePair
<1>3. CheckTypeOK'
  <2>1. check' \in [result : {"none", "passed", "failed", "panic"}, left : SUBSET Pairs,
                    attempt : 0 .. Attempts, got : Seq(Directions \union {Timeout})]
    BY DEF CheckInv, CheckTypeOK
  <2> QED
    BY <1>1, <1>2, <2>1 DEF CheckInv, CheckTypeOK, Checking
<1>4. DOMAIN check.got \subseteq {1, 2}
  BY DEF CheckInv, CheckTypeOK
<1>5. PassedInOrder' /\ QueuesHoldArrivals' /\ FreshNodesConnected'
  BY <1>1, <1>2 DEF CheckInv, PassedInOrder, QueuesHoldArrivals, FreshNodesConnected
<1>6. PacketsOfPairs'
  BY <1>1, <1>2 DEF CheckInv, PacketsOfPairs, Started
<1>7. ReadsAreFresh'
  BY <1>1, <1>2, <1>4 DEF CheckInv, ReadsAreFresh
<1>8. UnreadArrivals'
  BY <1>1, <1>2 DEF CheckInv, UnreadArrivals
<1> QED
  BY <1>3, <1>5, <1>6, <1>7, <1>8 DEF CheckInv

\* Packets are sent.
LEMMA CheckSends ==
  ASSUME CheckInv, patterns \in Seq(PatternRecords), patterns # <<>>,
         patterns' = patterns, send_both_ways
  PROVE  CheckInv'
<1>1. /\ check' = [check EXCEPT !.attempt = @ + 1] /\ check.attempt < Attempts
      /\ inbound' = inbound /\ trace' = trace /\ Checking /\ KnownNodes
      /\ flying' = [d \in Directions |->
           flying[d] + Cardinality({i \in {1, 2} : Direction(i) = d})]
  BY DEF send_both_ways
<1>2. /\ check'.result = check.result /\ check'.left = check.left
      /\ check'.attempt = check.attempt + 1 /\ check'.got = check.got
  BY <1>1, CheckFields DEF CheckInv
<1>3. /\ Pairs' = Pairs /\ Passed' = Passed /\ Pair' = Pair
      /\ \A i \in {1, 2} : Direction(i)' = Direction(i)
      /\ \A p : Earlier(p)' = Earlier(p)
  BY <1>2, SamePair
<1>4. check.left # {} /\ check.got = <<>>
  BY <1>1, ConnectivityAssumption DEF CheckInv, CheckTypeOK
<1>5. ASSUME NEW d \in Directions
      PROVE  /\ flying'[d] \in Nat
             /\ flying'[d] > 0 => flying[d] > 0 \/ \E i \in {1, 2} : Direction(i) = d
  <2> DEFINE I == {i \in {1, 2} : Direction(i) = d}
  <2>1. IsFiniteSet({1, 2})
    <3>1. IsFiniteSet({1}) /\ {1, 2} = {1} \union {2}
      BY FS_Singleton
    <3>2. IsFiniteSet({1} \union {2})
      BY <3>1, FS_AddElement, Zenon
    <3> QED
      BY <3>1, <3>2
  <2>2. IsFiniteSet(I) /\ Cardinality(I) \in Nat
    BY <2>1, FS_Subset, FS_CardinalityType
  <2>3. Cardinality(I) > 0 => I # {}
    <3> HIDE DEF I
    <3>1. ASSUME I = {} PROVE Cardinality(I) = 0
      BY <3>1, FS_EmptySet, Zenon
    <3> QED
      BY <3>1
  <2>4. flying'[d] = flying[d] + Cardinality(I) /\ flying[d] \in Nat
    BY <1>1 DEF CheckInv, CheckTypeOK
  <2>5. I # {} => \E i \in {1, 2} : Direction(i) = d
    OBVIOUS
  <2> HIDE DEF I
  <2> QED
    BY <2>2, <2>3, <2>4, <2>5
<1>6. CheckTypeOK'
  <2>1. check.attempt \in 0 .. Attempts /\ check.attempt + 1 \in 0 .. Attempts
    BY <1>1, ConnectivityAssumption, CheckFields DEF CheckInv
  <2>2. check' \in [result : {"none", "passed", "failed", "panic"}, left : SUBSET Pairs,
                    attempt : 0 .. Attempts, got : Seq(Directions \union {Timeout})]
    BY <1>1, <2>1 DEF CheckInv, CheckTypeOK
  <2>3. flying' \in [Directions -> Nat]
    BY <1>1, <1>5
  <2> QED
    BY <1>1, <1>2, <1>3, <1>4, <2>2, <2>3 DEF CheckInv, CheckTypeOK, Checking
<1>7. PassedInOrder' /\ QueuesHoldArrivals' /\ FreshNodesConnected'
  BY <1>1, <1>2, <1>3 DEF CheckInv, PassedInOrder, QueuesHoldArrivals, FreshNodesConnected
<1>8. ReadsAreFresh'
  BY <1>2, <1>4 DEF ReadsAreFresh
<1>9. UnreadArrivals'
  BY <1>1, <1>2, <1>3 DEF CheckInv, UnreadArrivals
<1>10. PacketsOfPairs'
  <2>1. check'.attempt > 0
    BY <1>2, CheckFields, ConnectivityAssumption DEF CheckInv
  <2>2. Started' = Passed \union {Pair} /\ Started \subseteq Passed \union {Pair}
    BY <1>3, <2>1 DEF Started
  <2>3. ASSUME NEW d \in Directions, flying'[d] > 0 \/ d \in trace'.arrived
        PROVE  \E p \in Started' : d \in BothWays(p)
    <3>1. CASE \E i \in {1, 2} : Direction(i) = d
      BY <2>2, <3>1, DirectionIs
    <3>2. CASE flying[d] > 0 \/ d \in trace.arrived
      BY <2>2, <3>2 DEF CheckInv, PacketsOfPairs
    <3> QED
      BY <1>1, <1>5, <2>3, <3>1, <3>2
  <2> QED
    BY <2>3 DEF PacketsOfPairs, Directions, BothWays
<1> QED
  BY <1>6, <1>7, <1>8, <1>9, <1>10 DEF CheckInv

\* A packet is read, or the timeout passes.
LEMMA CheckReceives ==
  ASSUME CheckInv, patterns \in Seq(PatternRecords), patterns # <<>>,
         patterns' = patterns, receive
  PROVE  CheckInv'
<1> DEFINE i == Len(check.got) + 1
           target == Direction(i)[2]
<1>1. /\ Checking /\ KnownNodes /\ check.attempt = Attempts /\ i <= 2
      /\ flying' = flying /\ trace' = trace
  BY DEF receive
<1>2. /\ check.left # {} /\ check.attempt > 0 /\ check.got \in Seq(Directions \union {Timeout})
      /\ i \in {1, 2}
  BY <1>1, ConnectivityAssumption DEF CheckInv, CheckTypeOK
<1>3. PICK a \in Nat, b \in Nat : Pair = <<a, b>>
  BY <1>2, PairIsFirst, PairsType DEF CheckInv
<1>4. a \in Nodes /\ b \in Nodes /\ Pair[1] = a /\ Pair[2] = b
  BY <1>1, <1>3 DEF KnownNodes
<1>5. target \in Nodes /\ Direction(1) = <<a, b>> /\ Direction(2) = <<b, a>>
  BY <1>2, <1>3, <1>4 DEF Direction
<1>6. PICK read \in Directions \union {Timeout} :
        /\ check' = [check EXCEPT !.got = Append(@, read)]
        /\ \/ read = Timeout /\ inbound' = inbound
           \/ /\ inbound[target] # <<>> /\ read = Head(inbound[target])
              /\ inbound' = [inbound EXCEPT ![target] = Tail(@)]
  <2>1. inbound[target] \in Seq(Directions)
    BY <1>5 DEF CheckInv, CheckTypeOK
  <2>2. inbound[target] # <<>> => Head(inbound[target]) \in Directions
    BY <2>1
  <2> QED
    BY <2>2 DEF receive
<1>7. /\ check'.result = check.result /\ check'.left = check.left
      /\ check'.attempt = check.attempt /\ check'.got = Append(check.got, read)
  BY <1>6, CheckFields DEF CheckInv
<1>8. /\ Pairs' = Pairs /\ Passed' = Passed /\ Pair' = Pair
      /\ \A j \in {1, 2} : Direction(j)' = Direction(j)
      /\ \A p : Earlier(p)' = Earlier(p)
  BY <1>7, SamePair
<1>9. /\ check'.got \in Seq(Directions \union {Timeout}) /\ Len(check'.got) = i
      /\ check'.got[i] = read /\ \A j \in 1 .. Len(check.got) : check'.got[j] = check.got[j]
  BY <1>2, <1>6, <1>7
<1>10. inbound \in [Nodes -> Seq(Directions)]
  BY DEF CheckInv, CheckTypeOK
<1>11. /\ inbound' \in [Nodes -> Seq(Directions)]
       /\ \A n \in Nodes : n # target => inbound'[n] = inbound[n]
  <2>1. inbound[target] # <<>> => Tail(inbound[target]) \in Seq(Directions)
    BY <1>5, <1>10
  <2> HIDE DEF target
  <2> QED
    BY <1>5, <1>6, <1>10, <2>1
<1>12. CheckTypeOK'
  <2>1. check' \in [result : {"none", "passed", "failed", "panic"}, left : SUBSET Pairs,
                    attempt : 0 .. Attempts, got : Seq(Directions \union {Timeout})]
    <3>1. check \in [result : {"none", "passed", "failed", "panic"}, left : SUBSET Pairs,
                     attempt : 0 .. Attempts, got : Seq(Directions \union {Timeout})]
      BY DEF CheckInv, CheckTypeOK
    <3> QED
      BY <1>6, <1>7, <1>9, <3>1
  <2> QED
    BY <1>1, <1>2, <1>7, <1>8, <1>9, <1>11, <2>1 DEF CheckInv, CheckTypeOK, Checking
<1>13. PassedInOrder' /\ FreshNodesConnected'
  BY <1>1, <1>7, <1>8 DEF CheckInv, PassedInOrder, FreshNodesConnected
<1>14. PacketsOfPairs'
  BY <1>1, <1>7, <1>8 DEF CheckInv, PacketsOfPairs, Started
<1>15. QueuesHoldArrivals'
  <2>1. ASSUME NEW n \in Nodes, NEW j \in DOMAIN inbound'[n]
        PROVE  inbound'[n][j][2] = n /\ inbound'[n][j] \in trace'.arrived
    <3>1. \E k \in DOMAIN inbound[n] : inbound'[n][j] = inbound[n][k]
      <4>1. CASE inbound'[n] = inbound[n]
        BY <4>1
      <4>2. CASE inbound[n] # <<>> /\ inbound'[n] = Tail(inbound[n])
        <5>1. inbound[n] \in Seq(Directions)
          BY <1>10
        <5>2. j + 1 \in DOMAIN inbound[n] /\ inbound'[n][j] = inbound[n][j + 1]
          BY <4>2, <5>1
        <5> QED
          BY <5>2
      <4> QED
        BY <1>5, <1>6, <1>10, <4>1, <4>2
    <3> QED
      BY <1>1, <3>1 DEF CheckInv, QueuesHoldArrivals
  <2> QED
    BY <2>1 DEF QueuesHoldArrivals
<1>16. ReadsAreFresh'
  <2>1. ASSUME read # Timeout, target \notin Earlier(Pair)
        PROVE  Direction(i) \in trace.arrived
    <3>1. inbound[target] # <<>> /\ read = Head(inbound[target])
      BY <1>6, <2>1
    <3>2. inbound[target] \in Seq(Directions)
      BY <1>5, <1>10
    <3>3. 1 \in DOMAIN inbound[target] /\ read = inbound[target][1] /\ read \in Directions
      BY <3>1, <3>2
    <3>4. read[2] = target /\ read \in trace.arrived
      BY <1>5, <3>3 DEF CheckInv, QueuesHoldArrivals
    <3>5. PICK p \in Started : read \in BothWays(p)
      BY <3>3, <3>4 DEF CheckInv, PacketsOfPairs
    <3>6. p = Pair
      <4>1. ASSUME p \in Passed PROVE FALSE
        <5>1. Lower(p, Pair) /\ p \in Pairs
          BY <1>2, <4>1, EarlierPassed DEF CheckInv, Passed
        <5>2. PICK x \in Nat, y \in Nat : p = <<x, y>>
          BY <5>1, PairsType
        <5>3. target \in {p[1], p[2]}
          BY <3>4, <3>5, <5>2 DEF BothWays
        <5>4. target \in Earlier(Pair)
          BY <5>1, <5>3 DEF Earlier
        <5> QED
          BY <2>1, <5>4
      <4> QED
        BY <1>2, <3>5, <4>1 DEF Started
    <3>7. read = Direction(i)
      <4>1. read \in {<<a, b>>, <<b, a>>}
        BY <1>3, <3>5, <3>6 DEF BothWays
      <4>2. CASE i = 1
        <5>1. read[2] = b
          BY <1>5, <3>4, <4>2
        <5> QED
          BY <1>5, <4>1, <4>2, <5>1
      <4>3. CASE i = 2
        <5>1. read[2] = a
          BY <1>5, <3>4, <4>3
        <5> QED
          BY <1>5, <4>1, <4>3, <5>1
      <4> QED
        BY <1>2, <4>2, <4>3
    <3> QED
      BY <3>4, <3>7
  <2>2. ASSUME NEW j \in DOMAIN check'.got, check'.got[j] # Timeout,
               Direction(j)'[2] \notin Earlier(Pair)'
        PROVE  Direction(j)' \in trace'.arrived
    <3>1. j \in 1 .. i /\ j \in {1, 2}
      BY <1>2, <1>9
    <3>2. Direction(j)' = Direction(j) /\ Earlier(Pair)' = Earlier(Pair)
      BY <1>8, <3>1 DEF Earlier
    <3>3. CASE j = i
      BY <1>1, <1>9, <2>1, <2>2, <3>2, <3>3
    <3>4. CASE j # i
      <4>1. j \in 1 .. Len(check.got) /\ check'.got[j] = check.got[j]
        BY <1>2, <1>9, <3>1, <3>4
      <4>2. j \in DOMAIN check.got
        BY <1>2, <4>1
      <4> QED
        BY <1>1, <2>2, <3>2, <4>1, <4>2 DEF CheckInv, ReadsAreFresh
    <3> QED
      BY <3>3, <3>4
  <2> QED
    BY <2>2 DEF ReadsAreFresh
<1>17. UnreadArrivals'
  <2>1. ASSUME a # b, NEW j \in {1, 2}, j > i, Direction(j) \in trace.arrived
        PROVE  inbound'[Direction(j)[2]] # <<>>
    <3>1. j = 2 /\ i = 1
      BY <1>2, <2>1
    <3>2. Direction(j)[2] # target /\ Direction(j)[2] \in Nodes
      BY <1>4, <1>5, <2>1, <3>1
    <3>3. j > Len(check.got)
      BY <1>2, <3>1
    <3>4. inbound[Direction(j)[2]] # <<>>
      BY <1>2, <1>4, <2>1, <3>3 DEF CheckInv, UnreadArrivals
    <3> QED
      BY <1>11, <3>2, <3>4
  <2> HIDE DEF i, target
  <2> QED
    BY <1>1, <1>4, <1>7, <1>8, <1>9, <2>1 DEF UnreadArrivals
<1> QED
  BY <1>12, <1>13, <1>14, <1>15, <1>16, <1>17 DEF CheckInv

\* A pair passes.
LEMMA CheckPasses ==
  ASSUME CheckInv, patterns \in Seq(PatternRecords), patterns # <<>>, patterns' = patterns,
         Checking, Len(check.got) = 2, AllArrived(check.got),
         check' = [check EXCEPT !.left = @ \ {Pair}, !.attempt = 0, !.got = <<>>,
                     !.result = IF check.left = {Pair} THEN "passed" ELSE "none"],
         UNCHANGED <<inbound, flying, trace>>
  PROVE  CheckInv'
<1>1. /\ check'.left = check.left \ {Pair} /\ check'.attempt = 0 /\ check'.got = <<>>
      /\ check'.result = IF check.left = {Pair} THEN "passed" ELSE "none"
  BY CheckFields DEF CheckInv
<1>2. Pairs' = Pairs /\ \A p : Earlier(p)' = Earlier(p)
  BY DEF Pairs, Earlier
<1>3. check.left # {} /\ check.attempt > 0 /\ check.left \subseteq Pairs /\ DOMAIN check.got = {1, 2}
  <2>1. check.got \in Seq(Directions \union {Timeout}) /\ check.left \subseteq Pairs
    BY CheckFields DEF CheckInv
  <2>2. DOMAIN check.got = 1 .. 2 /\ check.got # <<>>
    <3>1. DOMAIN check.got = 1 .. 2
      BY <2>1
    <3>2. ASSUME check.got = <<>> PROVE FALSE
      <4>1. Len(<<>>) = 0
        OBVIOUS
      <4> QED
        BY <3>2, <4>1
    <3> QED
      BY <3>1, <3>2
  <2>3. check.attempt > 0
    BY <2>2, ConnectivityAssumption DEF CheckInv, CheckTypeOK
  <2> QED
    BY <2>1, <2>2, <2>3 DEF CheckInv, CheckTypeOK
<1>4. /\ Pair \in check.left /\ Pair \in Pairs
      /\ \A q \in check.left \ {Pair} : Lower(Pair, q)
  BY <1>3, PairIsFirst DEF CheckInv
<1>5. Passed' = Passed \union {Pair} /\ Started = Passed \union {Pair} /\ Started' = Passed'
  BY <1>1, <1>2, <1>3, <1>4 DEF Passed, Started
<1>6. CheckTypeOK'
  <2>1. check' \in [result : {"none", "passed", "failed", "panic"}, left : SUBSET Pairs,
                    attempt : 0 .. Attempts, got : Seq(Directions \union {Timeout})]
    <3>1. check \in [result : {"none", "passed", "failed", "panic"}, left : SUBSET Pairs,
                     attempt : 0 .. Attempts, got : Seq(Directions \union {Timeout})]
      BY DEF CheckInv, CheckTypeOK
    <3>2. 0 \in 0 .. Attempts /\ <<>> \in Seq(Directions \union {Timeout})
      BY ConnectivityAssumption
    <3> QED
      BY <3>1, <3>2
  <2>2. check'.left = {} => ~Checking'
    BY <1>1, <1>4 DEF Checking
  <2> QED
    <3>1. Len(check'.got) = 0 /\ ~(check'.attempt > 0)
      BY <1>1
    <3>2. /\ inbound' \in [Nodes -> Seq(Directions)] /\ flying' \in [Directions -> Nat]
          /\ trace' \in [arrived : SUBSET Directions, duplicates : Nat, orphans : Nat]
      BY DEF CheckInv, CheckTypeOK
    <3>3. Len(check'.got) <= 2
      BY <3>1
    <3>4. check'.attempt > 0 \/ (Checking' /\ patterns' # <<>>) => check'.left # {}
      BY <2>2, <3>1
    <3> QED
      BY <1>1, <1>2, <2>1, <3>2, <3>3, <3>4, Zenon DEF CheckTypeOK
<1>7. PassedInOrder'
  BY <1>1, <1>4, <1>5 DEF CheckInv, PassedInOrder
<1>8. PacketsOfPairs'
  BY <1>5 DEF CheckInv, PacketsOfPairs
<1>9. QueuesHoldArrivals' /\ ReadsAreFresh'
  BY <1>1 DEF CheckInv, QueuesHoldArrivals, ReadsAreFresh
<1>10. UnreadArrivals'
  <2>1. ASSUME check'.left # {}, NEW i \in {1, 2}, Direction(i)' \in trace.arrived
        PROVE  FALSE
    <3>1. check'.left \subseteq Pairs /\ Pairs \subseteq Nat \X Nat
      BY <1>1, <1>3, PairsType
    <3>2. Pair' \in check'.left
      <4>1. \E p \in check'.left : \A q \in check'.left : ~Lower(q, p)
        BY <2>1, <3>1, FirstPair
      <4> QED
        BY <4>1 DEF Pair
    <3>3. Direction(i)' \in BothWays(Pair')
      BY DEF Direction, BothWays
    <3>4. trace.arrived \subseteq Directions
      BY DEF CheckInv, CheckTypeOK
    <3>5. PICK p \in Passed \union {Pair} : Direction(i)' \in BothWays(p)
      BY <1>5, <2>1, <3>4 DEF CheckInv, PacketsOfPairs
    <3>6. p # Pair' /\ p \in Pairs /\ Pair' \in Pairs
      BY <1>1, <1>4, <3>1, <3>2 DEF Passed
    <3>7. BothWays(p) \cap BothWays(Pair') = {}
      BY <3>6, DirectionsDiffer
    <3> QED
      BY <3>3, <3>5, <3>7
  <2> QED
    BY <2>1 DEF UnreadArrivals
<1>11. FreshNodesConnected'
  <2>1. ASSUME NEW d \in BothWays(Pair), d[2] \notin Earlier(Pair)
        PROVE  d \in trace.arrived
    <3>1. PICK i \in {1, 2} : d = Direction(i)
      BY DEF BothWays, Direction
    <3>2. check.got[i] # Timeout
      BY <1>3 DEF AllArrived
    <3> QED
      BY <1>3, <2>1, <3>1, <3>2 DEF CheckInv, ReadsAreFresh
  <2> QED
    BY <1>2, <1>5, <2>1 DEF CheckInv, FreshNodesConnected
<1> QED
  BY <1>6, <1>7, <1>8, <1>9, <1>10, <1>11 DEF CheckInv

LEMMA CheckStepInv ==
  ASSUME CheckInv, patterns \in Seq(PatternRecords), patterns # <<>>,
         patterns' = patterns, CheckStep
  PROVE  CheckInv'
<1>1. CASE UnknownNode
  BY <1>1, CheckStops DEF UnknownNode
<1>2. CASE send_both_ways
  BY <1>2, CheckSends
<1>3. CASE receive
  BY <1>3, CheckReceives
<1>4. CASE verdict
  <2>1. CASE AllArrived(check.got)
    BY <1>4, <2>1, CheckPasses DEF verdict
  <2>2. CASE ~AllArrived(check.got)
    <3>1. /\ check' = [check EXCEPT !.result = IF ReportPanics THEN "panic" ELSE "failed"]
          /\ UNCHANGED <<inbound, flying, trace>>
      BY <1>4, <2>2 DEF verdict
    <3>2. (IF ReportPanics THEN "panic" ELSE "failed") \in {"failed", "panic"}
      OBVIOUS
    <3> QED
      BY <3>1, <3>2, CheckStops
  <2> QED
    BY <2>1, <2>2
<1> QED
  BY <1>1, <1>2, <1>3, <1>4 DEF CheckStep

\* What the network does keeps the packets of pairs, and fills queues.
LEMMA CheckNetworkInv ==
  ASSUME CheckInv, patterns' = patterns, check' = check,
         inbound' \in [Nodes -> Seq(Directions)], flying' \in [Directions -> Nat],
         trace' \in [arrived : SUBSET Directions, duplicates : Nat, orphans : Nat],
         \A d \in Directions : flying'[d] > 0 \/ d \in trace'.arrived =>
                                 flying[d] > 0 \/ d \in trace.arrived,
         trace.arrived \subseteq trace'.arrived, QueuesHoldArrivals',
         \A d \in trace'.arrived : d \in trace.arrived \/ inbound'[d[2]] # <<>>,
         \A n \in Nodes : inbound[n] # <<>> => inbound'[n] # <<>>
  PROVE  CheckInv'
<1>1. /\ Pairs' = Pairs /\ Passed' = Passed /\ Pair' = Pair
      /\ \A i \in {1, 2} : Direction(i)' = Direction(i)
      /\ \A p : Earlier(p)' = Earlier(p)
  BY SamePair
<1>2. CheckTypeOK'
  BY <1>1 DEF CheckInv, CheckTypeOK, Checking
<1>3. PassedInOrder' /\ FreshNodesConnected'
  BY <1>1 DEF CheckInv, PassedInOrder, FreshNodesConnected
<1>4. PacketsOfPairs'
  BY <1>1 DEF CheckInv, PacketsOfPairs, Started
<1>5. ReadsAreFresh'
  <2>1. DOMAIN check.got \subseteq {1, 2}
    BY DEF CheckInv, CheckTypeOK
  <2> QED
    BY <1>1, <2>1 DEF CheckInv, ReadsAreFresh
<1>6. UnreadArrivals'
  <2>1. ASSUME check.left # {}, Pair[1] # Pair[2], NEW i \in {1, 2}, i > Len(check.got),
               Direction(i) \in trace'.arrived
        PROVE  inbound'[Direction(i)[2]] # <<>>
    <3>1. Direction(i) \in Directions
      BY <2>1
    <3>2. Direction(i)[2] \in Nodes
      BY <3>1 DEF Directions
    <3>3. CASE Direction(i) \in trace.arrived
      BY <2>1, <3>2, <3>3 DEF CheckInv, UnreadArrivals
    <3> QED
      BY <2>1, <3>3
  <2> QED
    BY <1>1, <2>1 DEF UnreadArrivals
<1> QED
  BY <1>2, <1>3, <1>4, <1>5, <1>6 DEF CheckInv

LEMMA CheckMeanwhile ==
  ASSUME CheckInv, patterns' = patterns, NetworkStep
  PROVE  CheckInv'
<1>1. PICK d \in Directions : arrive(d) \/ vanish(d) \/ duplicate(d)
  BY DEF NetworkStep
<1>2. /\ inbound \in [Nodes -> Seq(Directions)] /\ flying \in [Directions -> Nat]
      /\ trace \in [arrived : SUBSET Directions, duplicates : Nat, orphans : Nat]
      /\ d[2] \in Nodes /\ flying[d] \in Nat /\ QueuesHoldArrivals
  BY DEF CheckInv, CheckTypeOK, Directions
<1>3. CASE arrive(d)
  <2>1. /\ flying[d] > 0 /\ flying' = [flying EXCEPT ![d] = @ - 1] /\ check' = check
        /\ inbound' = [inbound EXCEPT ![d[2]] = Append(@, d)]
        /\ trace' = [trace EXCEPT !.arrived = @ \union {d}]
    BY <1>3 DEF arrive
  <2>2. trace'.arrived = trace.arrived \union {d} /\ d \in Directions
    BY <1>2, <2>1
  <2>3. trace' \in [arrived : SUBSET Directions, duplicates : Nat, orphans : Nat]
    BY <1>2, <2>1, <2>2
  <2>4. flying' \in [Directions -> Nat] /\ \A e \in Directions : flying'[e] > 0 => flying[e] > 0
    BY <1>2, <2>1
  <2>5. /\ inbound' \in [Nodes -> Seq(Directions)]
        /\ inbound'[d[2]] = Append(inbound[d[2]], d)
        /\ \A n \in Nodes : n # d[2] => inbound'[n] = inbound[n]
    BY <1>2, <2>1
  <2>6. inbound'[d[2]] # <<>>
    <3>1. inbound[d[2]] \in Seq(Directions)
      BY <1>2
    <3>2. Len(Append(inbound[d[2]], d)) = Len(inbound[d[2]]) + 1 /\ Len(inbound[d[2]]) \in Nat
      BY <3>1
    <3>3. Len(<<>>) = 0
      OBVIOUS
    <3> QED
      BY <2>5, <3>2, <3>3
  <2>7. QueuesHoldArrivals'
    <3>1. ASSUME NEW n \in Nodes, NEW i \in DOMAIN inbound'[n]
          PROVE  inbound'[n][i][2] = n /\ inbound'[n][i] \in trace'.arrived
      <4>1. CASE n # d[2]
        BY <1>2, <2>2, <2>5, <4>1 DEF QueuesHoldArrivals
      <4>2. CASE n = d[2]
        <5>1. inbound[n] \in Seq(Directions) /\ inbound'[n] = Append(inbound[n], d)
          BY <1>2, <2>5, <4>2
        <5>2. CASE i = Len(inbound[n]) + 1
          BY <2>2, <4>2, <5>1, <5>2
        <5>3. CASE i # Len(inbound[n]) + 1
          <6>1. i \in DOMAIN inbound[n] /\ inbound'[n][i] = inbound[n][i]
            BY <5>1, <5>3
          <6> QED
            BY <1>2, <2>2, <6>1 DEF QueuesHoldArrivals
        <5> QED
          BY <5>2, <5>3
      <4> QED
        BY <4>1, <4>2
    <3> QED
      BY <3>1 DEF QueuesHoldArrivals
  <2>8. \A n \in Nodes : inbound[n] # <<>> => inbound'[n] # <<>>
    BY <2>5, <2>6
  <2>9. \A e \in trace'.arrived : e \in trace.arrived \/ inbound'[e[2]] # <<>>
    BY <2>2, <2>6
  <2>10. \A e \in Directions : flying'[e] > 0 \/ e \in trace'.arrived =>
                                 flying[e] > 0 \/ e \in trace.arrived
    BY <2>1, <2>2, <2>4
  <2>11. trace.arrived \subseteq trace'.arrived
    BY <2>2
  <2> QED
    BY <2>1, <2>3, <2>4, <2>5, <2>7, <2>8, <2>9, <2>10, <2>11, CheckNetworkInv
<1>4. ASSUME vanish(d) \/ duplicate(d) PROVE CheckInv'
  <2>1. check' = check /\ inbound' = inbound /\ flying[d] > 0
    BY <1>4 DEF vanish, duplicate
  <2>2. /\ trace' \in [arrived : SUBSET Directions, duplicates : Nat, orphans : Nat]
        /\ trace'.arrived = trace.arrived
    <3>1. \/ trace' = trace
          \/ trace' = [trace EXCEPT !.duplicates = @ + 1]
          \/ trace' = [trace EXCEPT !.duplicates = @ + 1, !.orphans = @ + 1]
      BY <1>4 DEF vanish, duplicate
    <3>2. trace.duplicates + 1 \in Nat /\ trace.orphans + 1 \in Nat
      BY <1>2
    <3> QED
      BY <1>2, <3>1, <3>2
  <2>3. flying' \in [Directions -> Nat] /\ \A e \in Directions : flying'[e] > 0 => flying[e] > 0
    <3>1. \/ flying' = flying
          \/ flying' = [flying EXCEPT ![d] = @ - 1]
          \/ flying' = [flying EXCEPT ![d] = @ + 1]
      BY <1>4 DEF vanish, duplicate
    <3>2. CASE flying' = flying
      BY <1>2, <3>2
    <3>3. CASE flying' = [flying EXCEPT ![d] = @ - 1]
      BY <1>2, <2>1, <3>3
    <3>4. CASE flying' = [flying EXCEPT ![d] = @ + 1]
      <4>1. flying' \in [Directions -> Nat]
        BY <1>2, <3>4
      <4>2. \A e \in Directions : e # d => flying'[e] = flying[e]
        BY <1>2, <3>4
      <4> QED
        BY <2>1, <4>1, <4>2
    <3> QED
      BY <3>1, <3>2, <3>3, <3>4
  <2>4. QueuesHoldArrivals'
    BY <1>2, <2>1, <2>2 DEF QueuesHoldArrivals
  <2> QED
    BY <1>2, <2>1, <2>2, <2>3, <2>4, CheckNetworkInv
<1> QED
  BY <1>1, <1>3, <1>4

\* A check that has not begun
LEMMA CheckBegins ==
  ASSUME patterns \in Seq(PatternRecords), ConnectivityInit
  PROVE  CheckInv
<1>1. /\ check = [result |-> "none", left |-> Pairs, attempt |-> 0, got |-> <<>>]
      /\ inbound = [n \in Nodes |-> <<>>] /\ flying = [d \in Directions |-> 0]
      /\ trace = [arrived |-> {}, duplicates |-> 0, orphans |-> 0]
  BY DEF ConnectivityInit, NewCheck
<1>2. check.left = Pairs /\ check.attempt = 0 /\ check.got = <<>> /\ trace.arrived = {}
  BY <1>1
<1>3. Passed = {} /\ Started = {}
  BY <1>2 DEF Passed, Started
<1>4. patterns # <<>> => Pairs # {}
  <2>1. ASSUME patterns # <<>> PROVE 1 \in DOMAIN patterns
    BY <2>1
  <2> QED
    BY <2>1 DEF Pairs
<1>5. CheckTypeOK
  <2>1. 0 \in 0 .. Attempts
    BY ConnectivityAssumption
  <2>2. check \in [result : {"none", "passed", "failed", "panic"}, left : SUBSET Pairs,
                   attempt : 0 .. Attempts, got : Seq(Directions \union {Timeout})]
    BY <1>1, <2>1
  <2>3. inbound \in [Nodes -> Seq(Directions)] /\ flying \in [Directions -> Nat]
    BY <1>1
  <2>4. trace \in [arrived : SUBSET Directions, duplicates : Nat, orphans : Nat]
    BY <1>1
  <2> QED
    BY <1>2, <1>4, <2>2, <2>3, <2>4 DEF CheckTypeOK
<1>6. PassedInOrder /\ FreshNodesConnected
  BY <1>3 DEF PassedInOrder, FreshNodesConnected
<1>7. PacketsOfPairs
  BY <1>1, <1>2 DEF PacketsOfPairs
<1>8. QueuesHoldArrivals /\ ReadsAreFresh /\ UnreadArrivals
  BY <1>1, <1>2 DEF QueuesHoldArrivals, ReadsAreFresh, UnreadArrivals
<1> QED
  BY <1>5, <1>6, <1>7, <1>8 DEF CheckInv

\* Only the driver's check and its network touch the state of the check.
LEMMA CheckCases ==
  ASSUME [SimulationNext]_vars
  PROVE  /\ \/ UNCHANGED connectivityVars
            \/ driver = "connectivity" /\ (CheckStep \/ NetworkStep)
            \/ driver = "connectivity" /\ NewCheck(check', inbound', flying', trace')
         /\ driver' = "connectivity" => driver = "connectivity" \/ patterns # <<>>
<1>1. CASE UNCHANGED vars
  BY <1>1 DEF vars, setup, driverVars
<1>2. CASE validate \/ check_connectivity \/ connectivity_checked \/ check_network
  BY <1>2 DEF validate, check_connectivity, connectivity_checked, check_network
<1>3. CASE start_server \/ servers_started \/ clients_started \/ start_client
  BY <1>3 DEF start_server, servers_started, clients_started, start_client, setup
<1>4. CASE node_unknown \/ udp_joined \/ quic_joined \/ server_task_joined \/ report_stats
  BY <1>4 DEF node_unknown, udp_joined, quic_joined, server_task_joined, report_stats, Return,
              setup, driverVars
<1>5. CASE \/ \E p \in DOMAIN patterns : background_ends(p)
           \/ \E p \in Quic : spawn_connection(p) \/ pattern_ends(p)
  BY <1>5 DEF background_ends, spawn_connection, pattern_ends, setup, driverVars
<1>6. CASE \E c \in Conns : ClientTask(c) \/ client_loses(c)
  BY <1>6 DEF ClientTask, client_loses, connect, take_request, acquire_permit, interval_elapsed,
              connection_ends, request, setup, driverVars
<1>7. CASE \E c \in Conns : ServerTask(c) \/ server_closed(c)
  BY <1>7 DEF ServerTask, server_closed, accept_connection, handshake, server_ends,
              accept_stream, respond, serverOthers, setup, driverVars
<1> QED
  BY <1>1, <1>2, <1>3, <1>4, <1>5, <1>6, <1>7 DEF SimulationNext, Driver

LEMMA CheckInit == SimulationInit => ConnectivityInv
<1> SUFFICES ASSUME SimulationInit PROVE ConnectivityInv
  OBVIOUS
<1>1. patterns \in Seq(PatternRecords) /\ ConnectivityInit /\ driver = "validate"
  BY SimulationAssumption DEF SimulationInit
<1> QED
  BY <1>1, CheckBegins DEF ConnectivityInv

LEMMA CheckInvStep == ConnectivityInv /\ [SimulationNext]_vars => ConnectivityInv'
<1>1. (patterns \in Seq(PatternRecords) /\ ConnectivityInit => CheckInv)'
  <2>1. patterns \in Seq(PatternRecords) /\ ConnectivityInit => CheckInv
    BY CheckBegins
  <2> QED
    BY <2>1, PTL
<1> SUFFICES ASSUME ConnectivityInv, [SimulationNext]_vars PROVE ConnectivityInv'
  OBVIOUS
<1>2. patterns' = patterns /\ patterns \in Seq(PatternRecords) /\ CheckInv
  BY PatternsFixed DEF ConnectivityInv
<1>3. CASE UNCHANGED connectivityVars
  <2>1. CheckInv'
    <3>1. check' = check /\ inbound' = inbound /\ flying' = flying /\ trace' = trace
      BY <1>3 DEF connectivityVars
    <3>2. QueuesHoldArrivals' /\ CheckTypeOK
      BY <1>2, <3>1 DEF CheckInv, QueuesHoldArrivals
    <3> QED
      BY <1>2, <3>1, <3>2, CheckNetworkInv DEF CheckTypeOK
  <2> QED
    BY <1>2, <2>1, CheckCases DEF ConnectivityInv
<1>4. CASE driver = "connectivity" /\ (CheckStep \/ NetworkStep)
  <2>1. patterns # <<>>
    BY <1>4 DEF ConnectivityInv
  <2>2. CheckInv'
    BY <1>2, <1>4, <2>1, CheckStepInv, CheckMeanwhile
  <2> QED
    BY <1>2, <2>1, <2>2 DEF ConnectivityInv
<1>5. CASE driver = "connectivity" /\ NewCheck(check', inbound', flying', trace')
  <2>1. Pairs' = Pairs
    BY <1>2 DEF Pairs
  <2>2. ConnectivityInit'
    BY <1>5, <2>1 DEF ConnectivityInit, NewCheck
  <2>3. patterns' # <<>>
    BY <1>2, <1>5 DEF ConnectivityInv
  <2> QED
    BY <1>1, <1>2, <2>2, <2>3 DEF ConnectivityInv
<1> QED
  BY <1>3, <1>4, <1>5, CheckCases

\* For every traffic file and network: a pair that passes the check has received
\* packets of its own at every node that no earlier pair reads from.
THEOREM PassedNodesConnected == SimulationSpec => []FreshNodesConnected
<1>1. ConnectivityInv => FreshNodesConnected
  BY DEF ConnectivityInv, CheckInv
<1> QED
  BY <1>1, CheckInit, CheckInvStep, PTL DEF SimulationSpec

\* A read that times out finds an empty queue, into which nothing of its
\* direction has arrived.
LEMMA TimeoutIsReal ==
  ASSUME ConnectivityInv, [SimulationNext]_vars, NEW i \in {1, 2},
         Len(check.got) = i - 1, Len(check'.got) = i, check'.got[i] = Timeout, Pair[1] # Pair[2]
  PROVE  Direction(i) \notin trace.arrived
<1>1. /\ CheckTypeOK /\ QueuesHoldArrivals /\ UnreadArrivals
      /\ check.got \in Seq(Directions \union {Timeout})
  BY CheckFields DEF ConnectivityInv, CheckInv
<1>2. check'.got # check.got
  OBVIOUS
<1>3. Len(check'.got) # 0
  OBVIOUS
<1>4. driver = "connectivity" /\ receive
  <2>1. ~NewCheck(check', inbound', flying', trace')
    BY <1>3 DEF NewCheck
  <2>2. driver = "connectivity" /\ (CheckStep \/ NetworkStep)
    BY <1>2, <2>1, CheckCases DEF connectivityVars
  <2>3. ~NetworkStep
    BY <1>2 DEF NetworkStep, arrive, vanish, duplicate
  <2>4. ~UnknownNode /\ ~send_both_ways
    BY <1>1, <1>2, CheckFields DEF UnknownNode, send_both_ways
  <2>5. ~verdict
    <3>1. Len(check.got) # 2
      OBVIOUS
    <3> QED
      BY <3>1 DEF verdict
  <2> QED
    BY <2>2, <2>3, <2>4, <2>5 DEF CheckStep
<1>5. /\ check.left # {} /\ Len(check.got) + 1 = i /\ KnownNodes /\ i > Len(check.got)
  <2>1. Checking /\ KnownNodes /\ patterns # <<>>
    BY <1>4 DEF receive, ConnectivityInv
  <2>2. check.left # {}
    BY <1>1, <2>1 DEF CheckTypeOK
  <2> QED
    BY <2>1, <2>2
<1>6. PICK a \in Nat, b \in Nat : Pair = <<a, b>>
  BY <1>1, <1>5, PairIsFirst, PairsType DEF ConnectivityInv
<1>7. Direction(i)[2] \in Nodes
  BY <1>5, <1>6 DEF KnownNodes, Direction
<1>8. inbound[Direction(i)[2]] = <<>>
  <2>1. SUFFICES ASSUME inbound[Direction(i)[2]] # <<>> PROVE FALSE
    OBVIOUS
  <2>2. check' = [check EXCEPT !.got = Append(@, Head(inbound[Direction(i)[2]]))]
    BY <1>4, <1>5, <2>1 DEF receive
  <2>3. check'.got = Append(check.got, Head(inbound[Direction(i)[2]]))
    BY <1>1, <2>2, CheckFields
  <2>4. check'.got[i] = Head(inbound[Direction(i)[2]])
    BY <1>1, <1>5, <2>3
  <2>5. inbound[Direction(i)[2]] \in Seq(Directions)
    BY <1>1, <1>7 DEF CheckTypeOK
  <2>6. Head(inbound[Direction(i)[2]]) \in Directions
    BY <2>1, <2>5
  <2>7. Timeout \notin Directions
    BY DEF Timeout, Directions
  <2> QED
    BY <2>4, <2>6, <2>7
<1> QED
  BY <1>1, <1>5, <1>8 DEF UnreadArrivals

\* For every traffic file and network: the check reports a direction between two
\* nodes as broken only if none of its packets has arrived.
THEOREM FailuresAreReal == SimulationSpec => FailureIsReal
<1>1. ConnectivityInv /\ [SimulationNext]_vars =>
        [\A i \in {1, 2} :
           /\ Len(check.got) = i - 1 /\ Len(check.got') = i /\ check.got'[i] = Timeout
           /\ Pair[1] # Pair[2]
           => Direction(i) \notin trace.arrived]_connectivityVars
  BY TimeoutIsReal
<1> QED
  BY <1>1, CheckInit, CheckInvStep, PTL DEF SimulationSpec, FailureIsReal

----------------------------------------------------------------------------
(* Simulations without faults: connections *)

LEMMA CalmClient ==
  ASSUME TrafficTypeOK, ~faulty, NEW c \in Conns, NothingLost(c), ClientTask(c) \/ client_loses(c)
  PROVE  NothingLost(c)'
<1>1. server' = server
  BY ClientFrame
<1>2. PICK s \in Seq(StreamRecords) : s = streams[c]
  BY PatternOf
<1>3. CASE connect(c)
  <2>1. conn[c].pc = "connecting" /\ streams' = streams
    BY <1>3 DEF connect
  <2> QED
    BY <1>1, <1>3, <2>1, ConnectEffect DEF NewConn, NothingLost
<1>4. CASE take_request(c)
  <2>1. conn[c].pc = "loop" /\ streams' = streams
    BY <1>4 DEF take_request
  <2> QED
    BY <1>1, <1>4, <2>1, TakeEffect DEF NewConn, NothingLost
<1>5. ASSUME streams' = [streams EXCEPT ![c] = Append(@, NewStream)],
             NEW k \in DOMAIN streams'[c]
      PROVE  \/ k \in DOMAIN s /\ streams'[c][k] = s[k]
             \/ streams'[c][k] = NewStream
  <2>1. NewStream \in StreamRecords
    BY DEF NewStream, StreamRecords
  <2>2. streams'[c] = Append(s, NewStream)
    BY <1>2, <1>5, StreamAppended
  <2> QED
    BY <1>2, <1>5, <2>1, <2>2
<1>6. CASE acquire_permit(c)
  <2>1. conn[c].pc = "acquire"
    BY <1>6 DEF acquire_permit
  <2>2. CASE streams' = streams
    BY <1>1, <1>6, <2>1, <2>2, AcquireEffect DEF NewConn, NothingLost
  <2>3. CASE streams' = [streams EXCEPT ![c] = Append(@, NewStream)]
    <3>1. conn'[c].pc \in {"sleep", "loop"} /\ conn'[c].net = conn[c].net
      BY <1>6, AcquireEffect DEF NewConn
    <3>2. \A k \in DOMAIN streams'[c] : \/ k \in DOMAIN s /\ streams'[c][k] = s[k]
                                        \/ streams'[c][k] = NewStream
      BY <1>5, <2>3
    <3> QED
      BY <1>1, <1>2, <2>1, <3>1, <3>2 DEF NothingLost, NewStream
  <2> QED
    BY <1>6, <2>2, <2>3, AcquireEffect
<1>7. CASE interval_elapsed(c)
  <2>1. conn[c].pc = "sleep"
    BY <1>7 DEF interval_elapsed
  <2> QED
    BY <1>1, <1>2, <1>5, <1>7, <2>1, SleptEffect DEF NewConn, NothingLost, NewStream
<1>8. CASE connection_ends(c)
  <2>1. streams' = streams
    BY <1>8 DEF connection_ends
  <2> QED
    BY <1>1, <1>8, <2>1, EndEffect DEF NewConn, NothingLost, Closed
<1>9. CASE client_loses(c)
  BY <1>9 DEF client_loses
<1>10. CASE \E k \in DOMAIN streams[c] : request(c, k)
  <2>1. PICK k \in DOMAIN streams[c] : request(c, k)
    BY <1>10
  <2>2. PICK to \in {"requested", "ok", "failed"} :
          /\ NewStreams(c, k, to, streams[c][k].server)
          /\ to = "ok" => streams[c][k].server = "answered"
          /\ to = "failed" => conn[c].net = "lost"
          /\ conn'[c].pc = conn[c].pc /\ conn'[c].net = conn[c].net
    BY <2>1, RequestEffect DEF NewConn
  <2>3. to # "failed"
    BY <2>2 DEF NothingLost
  <2>4. /\ DOMAIN streams'[c] = DOMAIN streams[c]
        /\ streams'[c][k].client = to /\ streams'[c][k].server = streams[c][k].server
        /\ \A j \in DOMAIN streams[c] : j # k => streams'[c][j] = streams[c][j]
    BY <2>2 DEF NewStreams
  <2> QED
    BY <1>1, <2>1, <2>2, <2>3, <2>4 DEF NothingLost
<1> QED
  BY <1>3, <1>4, <1>6, <1>7, <1>8, <1>9, <1>10 DEF ClientTask

LEMMA CalmServer ==
  ASSUME TrafficTypeOK, ~faulty, NEW c \in Conns, NothingLost(c), Joined(c),
         ServerTask(c) \/ server_closed(c)
  PROVE  NothingLost(c)'
<1>1. conn' = conn
  BY ServerFrame
<1>2. CASE accept_connection(c)
  <2>1. streams' = streams
    BY <1>2 DEF accept_connection
  <2> QED
    BY <1>1, <1>2, <2>1, ServerEffects DEF NewServer, NothingLost
<1>3. CASE handshake(c)
  <2>1. streams' = streams
    BY <1>3 DEF handshake
  <2> QED
    BY <1>1, <1>3, <2>1, ServerEffects DEF NewServer, NothingLost
<1>4. CASE server_closed(c)
  <2>1. streams' = streams
    BY <1>4 DEF server_closed
  <2> QED
    BY <1>1, <1>4, <2>1, ServerEffects DEF NewServer, NothingLost
<1>5. CASE server_ends(c)
  <2>1. streams' = streams /\ server[c].pc = "accepting" /\ server[c].net # "open"
    BY <1>5 DEF server_ends
  <2>2. Verdict(c) = "ok"
    BY <2>1 DEF Verdict, NothingLost
  <2> QED
    BY <1>1, <1>5, <2>1, <2>2, ServerEffects DEF NewServer, NothingLost
<1>6. CASE \E k \in DOMAIN streams[c] : accept_stream(c, k) \/ respond(c, k)
  <2>1. PICK k \in DOMAIN streams[c] : accept_stream(c, k) \/ respond(c, k)
    BY <1>6
  <2>2. PICK to \in {"accepted", "answered", "failed"} :
          /\ NewStreams(c, k, streams[c][k].client, to)
          /\ streams[c][k].server \in {"none", "accepted"}
          /\ to = "failed" => server[c].net # "open" /\ streams[c][k].server = "accepted"
          /\ to = "accepted" => streams[c][k].server = "none" /\ server[c].net = "open"
    BY <2>1, ResponseEffect
  <2>3. /\ DOMAIN streams'[c] = DOMAIN streams[c]
        /\ streams'[c][k].client = streams[c][k].client /\ streams'[c][k].server = to
        /\ \A j \in DOMAIN streams[c] : j # k => streams'[c][j] = streams[c][j]
    BY <2>2 DEF NewStreams
  <2>4. streams[c][k].client # "ok"
    BY <2>2 DEF NothingLost
  \* A server that knows of the close has answered everything.
  <2>5. to # "failed"
    <3>1. SUFFICES ASSUME to = "failed" PROVE FALSE
      OBVIOUS
    <3>2. server[c] \in ServerRecords
      BY PatternOf
    <3>3. server[c].net = "closed"
      BY <2>2, <3>1, <3>2 DEF NothingLost, ServerRecords
    <3>4. conn[c].pc = "ok"
      BY <3>3 DEF NothingLost
    <3> QED
      BY <2>4, <3>4 DEF Joined
  <2>6. server' = server /\ server[c].net # "none"
    <3>1. CASE accept_stream(c, k)
      BY <3>1 DEF accept_stream
    <3>2. CASE respond(c, k)
      BY <3>2 DEF respond, NothingLost
    <3> QED
      BY <2>1, <3>1, <3>2
  <2> QED
    BY <1>1, <2>3, <2>4, <2>5, <2>6 DEF NothingLost
<1> QED
  BY <1>2, <1>3, <1>4, <1>5, <1>6 DEF ServerTask

LEMMA CalmStep ==
  ASSUME TrafficTypeOK, SpawnedInOrder, JoinsComplete, ~faulty, \A c \in Conns : NothingLost(c),
         [SimulationNext]_vars
  PROVE  \A c \in Conns : NothingLost(c)'
<1>1. \A c \in Conns : Joined(c)
  BY JoinsIs
<1>2. CASE UNCHANGED <<spawned, requests_left, conn, streams, server>>
  BY <1>2 DEF NothingLost
<1>3. ASSUME NEW p \in Quic, spawn_connection(p) PROVE \A c \in Conns : NothingLost(c)'
  <2>1. PICK e : e = <<p, spawned[p] + 1>>
    OBVIOUS
  <2>2. /\ e \in Conns /\ streams' = streams /\ server' = server
        /\ conn[e].pc = "none" /\ conn'[e].pc = "connecting" /\ conn'[e].net = conn[e].net
        /\ \A d \in Conns : d # e => conn'[d] = conn[d]
    BY <1>3, <2>1, SpawnEffect DEF NewConn
  <2> QED
    BY <2>2 DEF NothingLost
<1>4. ASSUME NEW e \in Conns, ClientTask(e) \/ client_loses(e) PROVE \A c \in Conns : NothingLost(c)'
  <2>1. NothingLost(e)'
    BY <1>4, CalmClient
  <2>2. server' = server /\ \A c \in Conns : c # e => conn'[c] = conn[c] /\ streams'[c] = streams[c]
    BY <1>4, ClientTypes, ClientFrame
  <2> QED
    BY <2>1, <2>2 DEF NothingLost
<1>5. ASSUME NEW e \in Conns, ServerTask(e) \/ server_closed(e) PROVE \A c \in Conns : NothingLost(c)'
  <2>1. NothingLost(e)'
    BY <1>1, <1>5, CalmServer
  <2>2. conn' = conn /\ \A c \in Conns : c # e => server'[c] = server[c] /\ streams'[c] = streams[c]
    BY <1>5, ServerTypes, ServerFrame
  <2> QED
    BY <2>1, <2>2 DEF NothingLost
<1> QED
  BY <1>2, <1>3, <1>4, <1>5, StepCases

----------------------------------------------------------------------------
(* Simulations without faults: sockets and nodes *)

\* The roles of the patterns' nodes: client (1) or server (2) of a pattern
Roles == {1, 2} \X (1 .. Len(patterns))
NodeOf(r) == IF r[1] = 1 THEN patterns[r[2]].client[1] ELSE patterns[r[2]].server[1]

LEMMA RolesFinite ==
  ASSUME patterns \in Seq(PatternRecords)
  PROVE  IsFiniteSet(Roles) /\ Cardinality(Roles) = 2 * Len(patterns)
<1>1. Len(patterns) \in Nat
  OBVIOUS
<1>2. IsFiniteSet(1 .. Len(patterns)) /\ Cardinality(1 .. Len(patterns)) = Len(patterns)
  <2>1. /\ IsFiniteSet(1 .. Len(patterns))
        /\ Cardinality(1 .. Len(patterns)) = IF 1 > Len(patterns) THEN 0 ELSE Len(patterns) - 1 + 1
    BY <1>1, FS_Interval, SMTT(30)
  <2> QED
    BY <1>1, <2>1
<1>3. IsFiniteSet({1, 2}) /\ Cardinality({1, 2}) = 2
  <2>1. PICK n \in Nat : n = 2
    OBVIOUS
  <2>2. IsFiniteSet(1 .. n) /\ Cardinality(1 .. n) = IF 1 > n THEN 0 ELSE n - 1 + 1
    BY FS_Interval
  <2>3. 1 .. n = {1, 2} /\ Cardinality(1 .. n) = 2
    BY <2>1, <2>2
  <2> QED
    BY <2>2, <2>3
<1>4. /\ IsFiniteSet({1, 2} \X (1 .. Len(patterns)))
      /\ Cardinality({1, 2} \X (1 .. Len(patterns))) =
           Cardinality({1, 2}) * Cardinality(1 .. Len(patterns))
  BY <1>2, <1>3, FS_Product
<1> QED
  BY <1>2, <1>3, <1>4 DEF Roles

\* A node with two roles: there are fewer nodes than roles.
LEMMA SharedNode ==
  ASSUME patterns \in Seq(PatternRecords), NEW r \in Roles, NEW t \in Roles,
         r # t, NodeOf(r) = NodeOf(t), \E p \in DOMAIN patterns : patterns[p].kind # "udp"
  PROVE  NodesReused
<1> DEFINE N == {patterns[p].client[1] : p \in DOMAIN patterns}
                  \union {patterns[p].server[1] : p \in DOMAIN patterns}
           R == Roles \ {r}
<1>1. Len(patterns) \in Nat /\ DOMAIN patterns = 1 .. Len(patterns)
  OBVIOUS
<1>2. /\ IsFiniteSet(R) /\ Cardinality(R) = 2 * Len(patterns) - 1
  BY RolesFinite, FS_RemoveElement
<1>3. \E f : f \in Surjection(R, N)
  <2>1. PICK f : f = [x \in R |-> NodeOf(x)]
    OBVIOUS
  <2>2. ASSUME NEW x \in R PROVE NodeOf(x) \in N
    <3>1. x[1] \in {1, 2} /\ x[2] \in DOMAIN patterns
      BY <1>1 DEF Roles
    <3> QED
      BY <3>1 DEF NodeOf
  <2>3. ASSUME NEW n \in N PROVE \E x \in R : NodeOf(x) = n
    <3>1. PICK y \in Roles : NodeOf(y) = n
      <4>1. CASE n \in {patterns[p].client[1] : p \in DOMAIN patterns}
        <5>1. PICK p \in DOMAIN patterns : n = patterns[p].client[1]
          BY <4>1
        <5>2. <<1, p>> \in Roles /\ NodeOf(<<1, p>>) = n
          BY <1>1, <5>1 DEF Roles, NodeOf
        <5> QED
          BY <5>2
      <4>2. CASE n \in {patterns[p].server[1] : p \in DOMAIN patterns}
        <5>1. PICK p \in DOMAIN patterns : n = patterns[p].server[1]
          BY <4>2
        <5>2. <<2, p>> \in Roles /\ NodeOf(<<2, p>>) = n
          BY <1>1, <5>1 DEF Roles, NodeOf
        <5> QED
          BY <5>2
      <4> QED
        BY <4>1, <4>2
    <3>2. CASE y = r
      BY <3>1, <3>2
    <3>3. CASE y # r
      BY <3>1, <3>3
    <3> QED
      BY <3>2, <3>3
  <2> HIDE DEF N, R
  <2> QED
    BY <2>1, <2>2, <2>3 DEF Surjection
<1>4. IsFiniteSet(N) /\ Cardinality(N) <= Cardinality(R)
  <2> HIDE DEF N, R
  <2> QED
    BY <1>2, <1>3, FS_Surjection
<1>5. Cardinality(N) \in Nat
  BY <1>4, FS_CardinalityType
<1>6. Cardinality(N) < 2 * Len(patterns)
  <2> HIDE DEF N, R
  <2> QED
    BY <1>1, <1>2, <1>4, <1>5
<1> QED
  BY <1>6 DEF NodesReused

\* A socket that is wanted twice
LEMMA SharedSocket ==
  ASSUME patterns \in Seq(PatternRecords), NEW p \in DOMAIN patterns, patterns[p].kind # "udp"
  PROVE  /\ patterns[p].server \in Servers(p) => NodesReused
         /\ patterns[p].client \in Servers(Len(patterns) + 1) \union Clients(p) => NodesReused
<1>1. DOMAIN patterns = 1 .. Len(patterns)
  OBVIOUS
<1>2. \A q \in DOMAIN patterns : <<1, q>> \in Roles /\ <<2, q>> \in Roles
  BY <1>1 DEF Roles
<1>3. ASSUME NEW q \in Bound(p), patterns[p].server = patterns[q].server PROVE NodesReused
  <2>1. q \in DOMAIN patterns /\ q # p
    BY <1>3 DEF Bound
  <2>2. NodeOf(<<2, p>>) = NodeOf(<<2, q>>) /\ <<2, p>> # <<2, q>>
    BY <1>3, <2>1 DEF NodeOf
  <2> QED
    BY <1>2, <2>1, <2>2, SharedNode
<1>4. ASSUME NEW q \in Bound(p), patterns[p].client = patterns[q].client PROVE NodesReused
  <2>1. q \in DOMAIN patterns /\ q # p
    BY <1>4 DEF Bound
  <2>2. NodeOf(<<1, p>>) = NodeOf(<<1, q>>) /\ <<1, p>> # <<1, q>>
    BY <1>4, <2>1 DEF NodeOf
  <2> QED
    BY <1>2, <2>1, <2>2, SharedNode
<1>5. ASSUME NEW q \in DOMAIN patterns, patterns[p].client = patterns[q].server PROVE NodesReused
  <2>1. NodeOf(<<1, p>>) = NodeOf(<<2, q>>) /\ <<1, p>> # <<2, q>>
    BY <1>5 DEF NodeOf
  <2> QED
    BY <1>2, <2>1, SharedNode
<1> QED
  BY <1>3, <1>4, <1>5 DEF Servers, Clients, Bound

LEMMA SocketsStep ==
  ASSUME patterns \in Seq(PatternRecords), StartedSockets, [SimulationNext]_vars
  PROVE  StartedSockets'
<1>1. /\ patterns' = patterns /\ Len(patterns) \in Nat /\ step \in Nat \ {0}
      /\ DOMAIN patterns = 1 .. Len(patterns)
  BY PatternsFixed DEF StartedSockets
<1>2. \A n \in Nat : Servers(n)' = Servers(n) /\ Clients(n)' = Clients(n)
  BY <1>1 DEF Servers, Clients, Bound
<1>3. CASE UNCHANGED <<driver, step, sockets>>
  BY <1>1, <1>2, <1>3 DEF StartedSockets
<1>4. CASE driver' \notin {"validate", "connectivity", "servers", "clients"} /\ step' \in Nat \ {0}
  BY <1>4 DEF StartedSockets
<1>5. CASE validate \/ connectivity_checked
  <2>1. driver \in {"validate", "connectivity"} /\ sockets' = sockets /\ step' = step
    BY <1>5 DEF validate, connectivity_checked, driverOthers
  <2>2. driver' \in {"connectivity", "servers", "finished"}
    BY <1>5 DEF validate, connectivity_checked
  <2> QED
    BY <1>1, <2>1, <2>2 DEF StartedSockets
<1>6. CASE start_server /\ driver' = "servers"
  <2>1. /\ driver = "servers" /\ step <= Len(patterns) /\ step' = step + 1
        /\ \/ sockets' = sockets
           \/ patterns[step].kind # "udp" /\ sockets' = sockets \union {patterns[step].server}
    BY <1>6 DEF start_server
  <2>2. step \in DOMAIN patterns
    BY <1>1, <2>1
  <2>3. Bound(step) \subseteq Bound(step + 1)
    BY <1>1 DEF Bound
  <2>4. patterns[step].kind # "udp" => step \in Bound(step + 1)
    BY <1>1, <2>2 DEF Bound
  <2>5. sockets' \subseteq Servers(step + 1)
    BY <2>1, <2>3, <2>4 DEF StartedSockets, Servers
  <2> QED
    BY <1>1, <1>2, <1>6, <2>1, <2>5 DEF StartedSockets
<1>7. CASE servers_started
  <2>1. driver = "servers" /\ step > Len(patterns) /\ driver' = "clients" /\ step' = 1 /\ sockets' = sockets
    BY <1>7 DEF servers_started
  <2>2. Bound(step) \subseteq Bound(Len(patterns) + 1)
    BY <1>1 DEF Bound
  <2>3. sockets \subseteq Servers(Len(patterns) + 1)
    BY <2>1, <2>2 DEF StartedSockets, Servers
  <2> QED
    BY <1>1, <1>2, <2>1, <2>3 DEF StartedSockets
<1>8. CASE start_client /\ driver' = "clients"
  <2>1. /\ driver = "clients" /\ step <= Len(patterns) /\ step' = step + 1
        /\ \/ sockets' = sockets
           \/ patterns[step].kind # "udp" /\ sockets' = sockets \union {patterns[step].client}
    BY <1>8 DEF start_client
  <2>2. step \in DOMAIN patterns
    BY <1>1, <2>1
  <2>3. Bound(step) \subseteq Bound(step + 1)
    BY <1>1 DEF Bound
  <2>4. patterns[step].kind # "udp" => step \in Bound(step + 1)
    BY <1>1, <2>2 DEF Bound
  <2>5. sockets' \subseteq Servers(Len(patterns) + 1) \union Clients(step + 1)
    BY <2>1, <2>3, <2>4 DEF StartedSockets, Clients
  <2> QED
    BY <1>1, <1>2, <1>8, <2>1, <2>5 DEF StartedSockets
<1>9. CASE UNCHANGED vars \/ check_connectivity \/ check_network
  BY <1>3, <1>9 DEF vars, driverVars, check_connectivity, check_network, driverOthers
<1>10. CASE start_server \/ start_client
  <2>1. /\ step' = step + 1
        /\ driver' = "finished" \/ (start_server /\ driver' = "servers")
                                \/ (start_client /\ driver' = "clients")
    BY <1>10 DEF start_server, start_client
  <2> QED
    BY <1>1, <1>4, <1>6, <1>8, <2>1
<1>11. CASE node_unknown \/ clients_started \/ udp_joined \/ report_stats
  BY <1>1, <1>4, <1>11 DEF node_unknown, clients_started, udp_joined, report_stats, Return
<1>12. CASE quic_joined \/ server_task_joined
  BY <1>1, <1>3, <1>4, <1>12 DEF quic_joined, server_task_joined, Return, driverVars
<1>13. CASE \/ \E p \in DOMAIN patterns : background_ends(p)
            \/ \E p \in Quic : spawn_connection(p) \/ pattern_ends(p)
  BY <1>3, <1>13 DEF background_ends, spawn_connection, pattern_ends, driverVars
<1>14. CASE \E c \in Conns : ClientTask(c) \/ client_loses(c)
  BY <1>1, <1>4, <1>14, ClientFrame
<1>15. CASE \E c \in Conns : ServerTask(c) \/ server_closed(c)
  BY <1>1, <1>4, <1>15, ServerFrame
<1> QED
  BY <1>5, <1>7, <1>9, <1>10, <1>11, <1>12, <1>13, <1>14, <1>15 DEF SimulationNext, Driver

----------------------------------------------------------------------------
(* Simulations without faults: the result *)

\* What CalmInv says of the check
CalmCheck ==
  /\ \A i \in DOMAIN check.got : check.got[i] # Timeout
  /\ check.result # "panic" /\ (check.result = "failed" => NodesUnknown)

LEMMA CalmCheckStep ==
  ASSUME ConnectivityInv, ~faulty, CalmCheck, [SimulationNext]_vars
  PROVE  CalmCheck'
<1>1. /\ patterns' = patterns /\ CheckTypeOK /\ patterns \in Seq(PatternRecords)
      /\ check.got \in Seq(Directions \union {Timeout}) /\ NodesUnknown' = NodesUnknown
      /\ DOMAIN check = {"result", "left", "attempt", "got"}
  BY PatternsFixed, CheckFields DEF ConnectivityInv, CheckInv, NodesUnknown
<1>2. CASE check' = check
  BY <1>1, <1>2 DEF CalmCheck
<1>3. CASE NewCheck(check', inbound', flying', trace')
  BY <1>3 DEF NewCheck, CalmCheck
<1>4. CASE UnknownNode /\ patterns # <<>>
  <2>1. check'.result = "failed" /\ check'.got = check.got
    BY <1>1, <1>4 DEF UnknownNode
  <2>2. check.left # {}
    BY <1>1, <1>4 DEF UnknownNode, CheckTypeOK
  <2>3. Pair \in Pairs
    BY <1>1, <2>2, PairIsFirst
  <2>4. PICK p \in DOMAIN patterns :
          {Pair[1], Pair[2]} = {patterns[p].client[1], patterns[p].server[1]}
    BY <1>1, <2>3, PairsType
  <2>5. NodesUnknown
    BY <1>4, <2>4 DEF UnknownNode, NodesUnknown
  <2> QED
    BY <1>1, <2>1, <2>5 DEF CalmCheck
<1>5. CASE send_both_ways
  BY <1>1, <1>5 DEF send_both_ways, CalmCheck
<1>6. CASE receive /\ patterns # <<>>
  <2>1. PICK t : t = Direction(Len(check.got) + 1)[2]
    OBVIOUS
  <2>2. /\ inbound[t] # <<>> /\ check' = [check EXCEPT !.got = Append(@, Head(inbound[t]))]
        /\ Checking /\ KnownNodes /\ Len(check.got) + 1 <= 2
    BY <1>6, <2>1 DEF receive
  <2>3. t \in Nodes
    <3>1. check.left # {}
      BY <1>1, <1>6, <2>2 DEF CheckTypeOK
    <3>2. PICK a \in Nat, b \in Nat : Pair = <<a, b>>
      BY <1>1, <3>1, PairIsFirst, PairsType
    <3> QED
      BY <2>1, <2>2, <3>2 DEF Direction, KnownNodes
  <2>4. inbound[t] \in Seq(Directions)
    BY <1>1, <2>3 DEF CheckTypeOK
  <2>5. Head(inbound[t]) \in Directions
    BY <2>2, <2>4
  <2>6. Head(inbound[t]) # Timeout
    BY <2>5 DEF Timeout, Directions
  <2>7. check'.got = Append(check.got, Head(inbound[t])) /\ check'.result = check.result
    BY <1>1, <2>2
  <2>8. \A i \in DOMAIN check'.got : check'.got[i] # Timeout
    <3>1. ASSUME NEW i \in DOMAIN check'.got PROVE check'.got[i] # Timeout
      <4>1. CASE i = Len(check.got) + 1
        BY <1>1, <2>5, <2>6, <2>7, <4>1
      <4>2. CASE i # Len(check.got) + 1
        <5>1. i \in DOMAIN check.got /\ check'.got[i] = check.got[i]
          BY <1>1, <2>5, <2>7, <4>2
        <5> QED
          BY <5>1 DEF CalmCheck
      <4> QED
        BY <4>1, <4>2
    <3> QED
      BY <3>1
  <2> QED
    BY <1>1, <2>7, <2>8 DEF CalmCheck
<1>7. CASE verdict
  <2>1. AllArrived(check.got)
    BY DEF CalmCheck, AllArrived
  <2>2. check' = [check EXCEPT !.left = @ \ {Pair}, !.attempt = 0, !.got = <<>>,
                    !.result = IF check.left = {Pair} THEN "passed" ELSE "none"]
    BY <1>7, <2>1 DEF verdict
  <2>3. check'.got = <<>> /\ check'.result \in {"passed", "none"}
    BY <1>1, <2>2
  <2> QED
    BY <2>3 DEF CalmCheck
<1>8. CASE NetworkStep
  BY <1>2, <1>8 DEF NetworkStep, arrive, vanish, duplicate
<1>9. CASE UNCHANGED connectivityVars
  BY <1>2, <1>9 DEF connectivityVars
<1> QED
  BY <1>3, <1>4, <1>5, <1>6, <1>7, <1>8, <1>9, CheckCases DEF CheckStep, ConnectivityInv

\* Only a pattern with too many connections fails.
LEMMA CalmPatterns ==
  ASSUME TrafficTypeOK, \A c \in Conns : NothingLost(c), [SimulationNext]_vars, NEW p \in Quic,
         pattern_task[p] = "error" => patterns[p].connections > MAX_CONNECTIONS,
         pattern_task'[p] = "error"
  PROVE  patterns[p].connections > MAX_CONNECTIONS
<1>1. pattern_task \in [Quic -> {"none", "running", "ok", "error"}]
  BY DEF TrafficTypeOK
<1>2. CASE start_client
  BY <1>1, <1>2 DEF start_client
<1>3. CASE \E q \in Quic : pattern_ends(q)
  <2>1. PICK q \in Quic : pattern_ends(q)
    BY <1>3
  <2>2. CASE q # p
    BY <1>1, <2>1, <2>2 DEF pattern_ends
  <2>3. CASE q = p
    <3>1. \A i \in 1 .. patterns[p].connections : conn[<<p, i>>].pc # "failed"
      <4>1. \A i \in 1 .. patterns[p].connections : <<p, i>> \in Conns
        BY DEF Conns, ConnsOf
      <4> QED
        BY <4>1 DEF NothingLost
    <3> QED
      BY <1>1, <2>1, <2>3, <3>1 DEF pattern_ends, FirstFailed
  <2> QED
    BY <2>2, <2>3
<1>4. CASE \E q \in Quic : spawn_connection(q)
  BY <1>4 DEF spawn_connection
<1>5. CASE \E c \in Conns : ClientTask(c) \/ client_loses(c)
  BY <1>5, ClientFrame
<1>6. CASE \E c \in Conns : ServerTask(c) \/ server_closed(c)
  BY <1>6, ServerFrame
<1> QED
  BY <1>2, <1>3, <1>4, <1>5, <1>6
     DEF SimulationNext, Driver, validate, check_connectivity, connectivity_checked,
         start_server, node_unknown, servers_started, clients_started, udp_joined,
         quic_joined, server_task_joined, report_stats, check_network, background_ends,
         Return, driverOthers, clientVars, vars

LEMMA CalmResult ==
  ASSUME DriverInv, ~faulty, [SimulationNext]_vars
  PROVE  (result' = "error" => Refused) /\ (result' = "panic" => NodesReused)
<1>1. /\ TrafficTypeOK /\ ServersJoined /\ StartedSockets /\ CalmCheck
      /\ \A c \in Conns : NothingLost(c)
      /\ \A p \in Quic : pattern_task[p] = "error" => patterns[p].connections > MAX_CONNECTIONS
      /\ result = "error" => Refused
      /\ result = "panic" => NodesReused
  BY DEF DriverInv, SuccessInv, RequestInv, CalmInv, CalmCheck
<1>2. CASE result' = result
  BY <1>1, <1>2
<1>3. /\ patterns \in Seq(PatternRecords) /\ Len(patterns) \in Nat /\ step \in Nat \ {0}
      /\ DOMAIN patterns = 1 .. Len(patterns)
  BY <1>1 DEF TrafficTypeOK, StartedSockets
<1>4. CASE validate
  BY <1>1, <1>4 DEF validate, Refused, Quic
<1>5. CASE connectivity_checked
  BY <1>1, <1>5 DEF connectivity_checked, CalmCheck, Refused
<1>6. CASE node_unknown
  <2>1. step \in DOMAIN patterns
    BY <1>3, <1>6 DEF node_unknown
  <2>2. NodesUnknown
    BY <1>6, <2>1 DEF node_unknown, NodesUnknown
  <2> QED
    BY <1>6, <2>2 DEF node_unknown, Return, Refused
<1>7. CASE start_server
  <2>1. CASE /\ driver = "servers" /\ step <= Len(patterns) /\ result' = "panic"
             /\ patterns[step].kind # "udp" /\ patterns[step].server \in sockets
    <3>1. step \in DOMAIN patterns /\ patterns[step].server \in Servers(step)
      BY <1>1, <1>3, <2>1 DEF StartedSockets
    <3> QED
      BY <1>3, <2>1, <3>1, SharedSocket
  <2> QED
    BY <1>2, <1>7, <2>1 DEF start_server, Panics
<1>8. CASE start_client
  <2>1. CASE /\ driver = "clients" /\ step <= Len(patterns) /\ result' = "panic"
             /\ patterns[step].kind # "udp" /\ patterns[step].client \in sockets
    <3>1. /\ step \in DOMAIN patterns
          /\ patterns[step].client \in Servers(Len(patterns) + 1) \union Clients(step)
      BY <1>1, <1>3, <2>1 DEF StartedSockets
    <3> QED
      BY <1>3, <2>1, <3>1, SharedSocket
  <2> QED
    BY <1>2, <1>8, <2>1 DEF start_client, Panics
<1>9. CASE quic_joined
  <2> DEFINE pending == {p \in Quic : pattern_task[p] # "ok"}
             next == CHOOSE p \in pending : \A q \in pending : p <= q
  <2>1. CASE pending # {} /\ pattern_task[next] = "error" /\ Return("error")
    <3>1. pending \subseteq Nat
      BY <1>3 DEF Quic
    <3>2. \E p \in pending : \A q \in pending : p <= q
      BY <2>1, <3>1, LeastNatural
    <3>3. next \in Quic
      BY <3>2
    <3>4. Refused
      BY <1>1, <2>1, <3>3 DEF Refused
    <3> QED
      BY <2>1, <3>4 DEF Return
  <2> QED
    BY <1>2, <1>9, <2>1 DEF quic_joined
<1>10. CASE server_task_joined
  <2>1. CASE handled.joined >= TotalConnections /\ Return("ok")
    BY <2>1 DEF Return
  <2>2. CASE /\ handled.joined < Len(handled.queue)
             /\ server[handled.queue[handled.joined + 1]].pc \in {"error", "panic"}
    <3>1. PICK q, n : q = handled.queue /\ n = handled.joined
      OBVIOUS
    <3>2. q \in Seq(Conns) /\ n \in 0 .. Len(q) /\ n < Len(q) /\ server[q[n + 1]].pc \in {"error", "panic"}
      BY <1>1, <2>2, <3>1 DEF ServersJoined
    <3>3. q[n + 1] \in Conns
      BY <3>2
    <3> QED
      BY <1>1, <3>2, <3>3 DEF NothingLost
  <2> QED
    BY <1>2, <1>10, <2>1, <2>2 DEF server_task_joined, driverVars
<1>11. CASE report_stats
  BY <1>1, <1>11 DEF report_stats, Refused
<1>12. CASE UNCHANGED vars \/ check_connectivity \/ check_network
  BY <1>2, <1>12 DEF vars, driverVars, check_connectivity, check_network
<1>13. CASE servers_started \/ clients_started \/ udp_joined
  BY <1>2, <1>13 DEF servers_started, clients_started, udp_joined
<1>14. CASE \/ \E p \in DOMAIN patterns : background_ends(p)
            \/ \E p \in Quic : spawn_connection(p) \/ pattern_ends(p)
  BY <1>2, <1>14 DEF background_ends, spawn_connection, pattern_ends, driverVars
<1>15. CASE \E c \in Conns : ClientTask(c) \/ client_loses(c)
  BY <1>2, <1>15, ClientFrame
<1>16. CASE \E c \in Conns : ServerTask(c) \/ server_closed(c)
  BY <1>2, <1>16, ServerFrame
<1> QED
  BY <1>4, <1>5, <1>6, <1>7, <1>8, <1>9, <1>10, <1>11, <1>12, <1>13, <1>14, <1>15, <1>16
     DEF SimulationNext, Driver

LEMMA DriverInit == SimulationInit => DriverInv
<1> SUFFICES ASSUME SimulationInit PROVE DriverInv
  OBVIOUS
<1>1. SuccessInv /\ ConnectivityInv
  BY SuccessInit, CheckInit
<1>2. StartedSockets
  BY DEF SimulationInit, StartedSockets
<1>3. \A c \in Conns : NothingLost(c)
  BY DEF SimulationInit, NothingLost
<1>4. check.got = <<>> /\ check.result = "none"
  BY DEF SimulationInit, ConnectivityInit, NewCheck
<1> QED
  BY <1>1, <1>2, <1>3, <1>4 DEF SimulationInit, DriverInv, CalmInv

LEMMA DriverInvStep == DriverInv /\ [SimulationNext]_vars => DriverInv'
<1> SUFFICES ASSUME DriverInv, [SimulationNext]_vars PROVE DriverInv'
  OBVIOUS
<1>1. SuccessInv' /\ ConnectivityInv'
  BY SuccessStep, CheckInvStep DEF DriverInv
<1>2. StartedSockets'
  BY SocketsStep DEF DriverInv, ConnectivityInv
<1>3. patterns' = patterns /\ faulty' = faulty /\ Quic' = Quic /\ Conns' = Conns
  BY PatternsFixed
<1>4. Refused' = Refused /\ NodesReused' = NodesReused /\ NodesUnknown' = NodesUnknown
  BY <1>3 DEF Refused, NodesReused, NodesUnknown
<1>5. CalmInv'
  <2> SUFFICES ASSUME ~faulty PROVE CalmInv'
    BY <1>3 DEF CalmInv
  <2>1. /\ TrafficTypeOK /\ SpawnedInOrder /\ JoinsComplete /\ CalmCheck /\ ConnectivityInv
        /\ \A c \in Conns : NothingLost(c)
        /\ \A p \in Quic : pattern_task[p] = "error" => patterns[p].connections > MAX_CONNECTIONS
    BY DEF DriverInv, SuccessInv, RequestInv, CalmInv, CalmCheck
  <2>2. \A c \in Conns : NothingLost(c)'
    BY <2>1, CalmStep
  <2>3. CalmCheck'
    BY <2>1, CalmCheckStep
  <2>4. \A p \in Quic : pattern_task'[p] = "error" => patterns[p].connections > MAX_CONNECTIONS
    BY <2>1, CalmPatterns
  <2>5. (result' = "error" => Refused) /\ (result' = "panic" => NodesReused)
    BY CalmResult
  <2> QED
    BY <1>3, <1>4, <2>2, <2>3, <2>4, <2>5 DEF CalmInv, CalmCheck
<1> QED
  BY <1>1, <1>2, <1>5 DEF DriverInv

\* For every traffic file, without faults: a simulation fails only if the file
\* is refused, and panics only if a node has two roles.
THEOREM CalmSimulationsSucceed == SimulationSpec => []NoFalseAlarm
<1>1. DriverInv => NoFalseAlarm
  BY DEF DriverInv, CalmInv, NoFalseAlarm, Refused, validate_traffic, Quic
<1> QED
  BY <1>1, DriverInit, DriverInvStep, PTL DEF SimulationSpec

=============================================================================
