---------------------------- MODULE MCSimulation ----------------------------
(***************************************************************************)
(* The traffic files that Simulation is checked on.                        *)
(***************************************************************************)
EXTENDS Simulation

Pattern(kind, client, server_, cs, rs, ss, interval) ==
  [kind |-> kind, client |-> client, server |-> server_, connections |-> cs,
   requests |-> rs, streams |-> ss, interval |-> interval]

A == <<1, 1>>
B == <<2, 1>>
C == <<3, 1>>
D == <<4, 1>>

Idle(kind, client, server_) == Pattern(kind, client, server_, 0, 0, 0, FALSE)

SharedNode == <<Idle("udp", A, B), Idle("udp", A, C)>>

\* Traffic whose connections may be lost, ...
Faulty ==
  {<<Pattern("quic", A, B, 1, 3, 2, FALSE)>>,       \* concurrent streams
   <<Pattern("quic", A, B, 2, 1, 1, FALSE)>>,       \* more connections than requests
   <<Pattern("quic", A, B, 1, 2, 1, TRUE)>>,        \* an interval
   <<Pattern("quic", A, B, 1, 1, 1, FALSE), Idle("ping", C, D)>>,
   SharedNode,
   <<Idle("udp", A, B), Idle("udp", B, A)>>}        \* one pair twice

\* ... and traffic that meets no faults.
Calm ==
  Faulty \union
  {<<>>,
   <<Pattern("quic", A, B, 2, 3, 2, FALSE)>>,       \* concurrent connections and streams
   <<Pattern("quic", A, B, 2, 2, 1, TRUE)>>,
   <<Pattern("quic", A, B, 1, 1, 2, TRUE)>>,        \* incompatible options
   <<Pattern("quic", A, B, 3, 1, 1, FALSE)>>,       \* too many connections
   <<Pattern("quic", A, B, 0, 1, 1, FALSE)>>,       \* no connections
   <<Pattern("quic", A, <<5, 1>>, 1, 1, 1, FALSE)>>,   \* an unknown node
   <<Pattern("quic", A, B, 1, 1, 1, FALSE), Pattern("quic", C, D, 1, 2, 1, FALSE)>>,
   <<Pattern("quic", A, B, 1, 1, 1, FALSE), Idle("ping", <<1, 2>>, D)>>,
   <<Idle("ping", A, B), Idle("udp", C, D)>>,
   <<Idle("ping", A, B), Idle("ping", C, B)>>,      \* one server twice
   <<Idle("ping", A, B), Idle("ping", A, D)>>,      \* one client twice
   <<Idle("udp", A, B), Idle("udp", A, B)>>}

MCSimulations ==
  {[patterns |-> f, faulty |-> TRUE] : f \in Faulty}
    \union {[patterns |-> f, faulty |-> FALSE] : f \in Calm}

\* One node in two pairs, over a network that loses packets
SharedNodeSimulations == {[patterns |-> SharedNode, faulty |-> TRUE]}
=============================================================================
