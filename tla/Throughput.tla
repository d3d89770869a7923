----------------------------- MODULE Throughput -----------------------------
(***************************************************************************)
(* The throughput command (quinn-workbench/src/udp/throughput.rs): a       *)
(* sender that saturates the network, a server that records arrivals until *)
(* the CancellationToken (quinn-workbench/src/util.rs) stops it, and the   *)
(* main task that reports the best window of 100 ms.                       *)
(*                                                                         *)
(* The command always warps time: the clock moves only when no task runs.  *)
(***************************************************************************)
EXTENDS Integers, Sequences, SequencesExt

CONSTANTS
  SendBps,                 \* send_bps
  max_bytes_per_transmit,
  IntervalsPerSecond,      \* 1000 / send_interval_ms
  SendInterval,            \* send_interval_ms, in ticks
  WindowDuration,          \* window_duration, in ticks
  Duration,                \* duration_ms, in ticks
  MAX_READ,                \* packets per read
  MaxTime                  \* bound: the last instant of a behaviour

ASSUME ThroughputAssumption ==
  /\ {SendBps, Duration, WindowDuration, MaxTime} \subseteq Nat
  /\ {max_bytes_per_transmit, IntervalsPerSecond, SendInterval, MAX_READ} \subseteq Nat \ {0}

VARIABLES
  now,
  main,           \* "sleeping", "joining", "reporting" or "reported"
  sender, wake,   \* "sending" or "done", and when its sleep ends
  server,         \* "running", "waiting" or "done"
  cancelled,      \* CancellationToken::cancelled
  notified,       \* the event has notified the server's listener
  wire,           \* how many packets of each size the network holds
  inbox,          \* readable packets: <<arrival, bytes>>
  arrived_packets,
  next,           \* packets the report has looked at
  window, bytes_in_window,
  report          \* max_smoothed_throughput_bps

reportVars == <<next, window, bytes_in_window, report>>
vars == <<now, main, sender, wake, server, cancelled, notified, wire, inbox,
          arrived_packets, reportVars>>

Sizes == 1 .. max_bytes_per_transmit

ThroughputInit ==
  /\ now = 0
  /\ main = "sleeping"
  /\ sender = "sending" /\ wake = 0
  /\ server = "running"
  /\ cancelled = FALSE /\ notified = FALSE
  /\ wire = [b \in Sizes |-> 0]
  /\ inbox = <<>> /\ arrived_packets = <<>>
  /\ next = 0 /\ window = <<>> /\ bytes_in_window = 0 /\ report = 0

----------------------------------------------------------------------------
(* The server's loop.  Every round asks the token afresh, first. *)

\* cancelled() is ready: the flag was set before, or the listener was notified.
Cancelled == cancelled \/ notified

server_stops ==
  /\ server = "running" /\ Cancelled
  /\ server' = "done"
  /\ UNCHANGED <<now, main, sender, wake, cancelled, notified, wire, inbox,
                 arrived_packets, reportVars>>

server_receives ==
  LET n == IF Len(inbox) < MAX_READ THEN Len(inbox) ELSE MAX_READ
  IN  /\ server = "running" /\ ~Cancelled /\ inbox # <<>>
      /\ inbox' = SubSeq(inbox, n + 1, Len(inbox))
      /\ arrived_packets' = arrived_packets \o [k \in 1 .. n |-> <<now, inbox[k][2]>>]
      /\ UNCHANGED <<now, main, sender, wake, server, cancelled, notified, wire,
                     reportVars>>

\* Nothing is ready: the task waits with a listener of the event registered.
server_waits ==
  /\ server = "running" /\ ~Cancelled /\ inbox = <<>>
  /\ server' = "waiting"
  /\ UNCHANGED <<now, main, sender, wake, cancelled, notified, wire, inbox,
                 arrived_packets, reportVars>>

ServerWoken == server = "waiting" /\ (notified \/ inbox # <<>>)

server_wakes ==
  /\ ServerWoken
  /\ server' = "running"
  /\ UNCHANGED <<now, main, sender, wake, cancelled, notified, wire, inbox,
                 arrived_packets, reportVars>>

----------------------------------------------------------------------------
(* The sender *)

SendBytesPerInterval == (SendBps \div 8) \div IntervalsPerSecond

\* The packets of each size that bytes_left is cut into
Chunks(bytes) ==
  [b \in Sizes |->
     (IF b = max_bytes_per_transmit THEN bytes \div max_bytes_per_transmit ELSE 0)
     + (IF b = bytes % max_bytes_per_transmit THEN 1 ELSE 0)]

sender_sends ==
  /\ sender = "sending" /\ now >= wake /\ ~cancelled
  /\ wire' = [b \in Sizes |-> wire[b] + Chunks(SendBytesPerInterval)[b]]
  /\ wake' = now + SendInterval
  /\ UNCHANGED <<now, main, sender, server, cancelled, notified, inbox,
                 arrived_packets, reportVars>>

sender_stops ==
  /\ sender = "sending" /\ now >= wake /\ cancelled
  /\ sender' = "done"
  /\ UNCHANGED <<now, main, wake, server, cancelled, notified, wire, inbox,
                 arrived_packets, reportVars>>

\* The network may deliver a packet at any time, or never.
deliver(b) ==
  /\ main \in {"sleeping", "joining"} /\ wire[b] > 0
  /\ wire' = [wire EXCEPT ![b] = @ - 1]
  /\ inbox' = Append(inbox, <<now, b>>)
  /\ UNCHANGED <<now, main, sender, wake, server, cancelled, notified,
                 arrived_packets, reportVars>>

----------------------------------------------------------------------------
(* The main task *)

\* A bug: the flag is set and nobody is told.
SilentCancel == cancelled' = TRUE /\ UNCHANGED notified

\* CancellationToken::cancel; only a registered listener is notified.
cancel == cancelled' = TRUE /\ notified' = (notified \/ server = "waiting")

cancel_server ==
  /\ main = "sleeping" /\ now >= Duration
  /\ cancel
  /\ main' = "joining"
  /\ UNCHANGED <<now, sender, wake, server, wire, inbox, arrived_packets, reportVars>>

\* A bug: a packet leaves the window at its very edge.
OldAtEdge(w, arrival) == w[1] + WindowDuration <= arrival

\* Packet w has left the window when another one arrives.
Old(w, arrival) == w[1] + WindowDuration < arrival

Bytes(packets) == FoldLeft(+, 0, [i \in 1 .. Len(packets) |-> packets[i][2]])

\* The server's task is joined.
join_server ==
  /\ main = "joining" /\ server = "done"
  /\ main' = "reporting"
  /\ UNCHANGED <<now, sender, wake, server, cancelled, notified, wire, inbox,
                 arrived_packets, reportVars>>

\* One round of the loop over the packets: while the packet in front is no longer
\* in the window it is popped, which happens k times.
smooth_packet ==
  LET packet == arrived_packets[next + 1]
  IN  /\ main = "reporting" /\ next < Len(arrived_packets)
      /\ next' = next + 1
      /\ \E k \in 0 .. Len(window) :
           /\ \A i \in 1 .. k : Old(window[i], packet[1])
           /\ k < Len(window) => ~Old(window[k + 1], packet[1])
           /\ window' = Append(SubSeq(window, k + 1, Len(window)), packet)
           /\ bytes_in_window' = bytes_in_window - Bytes(SubSeq(window, 1, k)) + packet[2]
      /\ report' = IF bytes_in_window' * 8 * 10 > report
                   THEN bytes_in_window' * 8 * 10 ELSE report
      /\ UNCHANGED <<now, main, sender, wake, server, cancelled, notified, wire, inbox,
                     arrived_packets>>

print_report ==
  /\ main = "reporting" /\ next = Len(arrived_packets)
  /\ main' = "reported"
  /\ UNCHANGED <<now, sender, wake, server, cancelled, notified, wire, inbox,
                 arrived_packets, reportVars>>

TaskReady ==
  \/ server = "running" \/ ServerWoken
  \/ sender = "sending" /\ now >= wake
  \/ main = "sleeping" /\ now >= Duration
  \/ main = "joining" /\ server = "done"
  \/ main = "reporting"

Tick ==
  /\ main # "reported" /\ ~TaskReady /\ now < MaxTime
  /\ now' = now + 1
  /\ UNCHANGED <<main, sender, wake, server, cancelled, notified, wire, inbox,
                 arrived_packets, reportVars>>

Server == server_stops \/ server_receives \/ server_waits \/ server_wakes
Main   == cancel_server \/ join_server \/ smooth_packet \/ print_report

ThroughputNext ==
  \/ Server \/ sender_sends \/ sender_stops \/ Main
  \/ \E b \in Sizes : deliver(b)
  \/ Tick

\* Every task that was woken runs, and time then moves.  Nothing is assumed of
\* the network.
ThroughputSpec ==
  /\ ThroughputInit /\ [][ThroughputNext]_vars
  /\ WF_vars(Server) /\ WF_vars(sender_sends \/ sender_stops) /\ WF_vars(Main)
  /\ WF_vars(Tick)

----------------------------------------------------------------------------
(* Properties *)

\* The bytes that arrived in the window that ends with packet i
InWindow(i) ==
  FoldLeft(+, 0, [k \in 1 .. i |->
    IF arrived_packets[k][1] >= arrived_packets[i][1] - WindowDuration
    THEN arrived_packets[k][2] ELSE 0])

\* Arrivals are recorded at the instant they were readable: no packet waits in
\* the socket while the server sleeps.  The server prefers the cancellation to
\* the socket, but what it leaves unread arrived at the very end of the run.
RecordedOnArrival ==
  \A k \in DOMAIN inbox :
    IF server = "done" THEN inbox[k][1] >= Duration ELSE inbox[k][1] = now

\* The report is the best window of 100 ms, both of its ends included: while
\* the window slides over the packets, the running sum neither loses a packet
\* nor keeps an old one, and it never underflows.
\* It is a window of arrivals, because of RecordedOnArrival.
WindowIsExact ==
  /\ RecordedOnArrival
  /\ next > 0 =>
       /\ bytes_in_window = InWindow(next)
       /\ \A i \in 1 .. next : report >= 80 * InWindow(i)
       /\ \E i \in 1 .. next : report = 80 * InWindow(i)

Arrival == Nat \X Sizes

\* The strengthening of WindowIsExact.  The clock stands still while the server
\* has something to read; packets are recorded in the order of their arrival
\* and the report begins when the last one is recorded.
ServerInv ==
  /\ now \in Nat
  /\ inbox \in Seq(Arrival)
  /\ arrived_packets \in Seq(Arrival)
  /\ \A i \in 1 .. Len(arrived_packets) : arrived_packets[i][1] <= now
  /\ \A i, j \in 1 .. Len(arrived_packets) :
       i <= j => arrived_packets[i][1] <= arrived_packets[j][1]
  /\ Cancelled \/ server = "done" => now >= Duration
  /\ server \in {"running", "waiting", "done"}
  /\ main \in {"sleeping", "joining", "reporting", "reported"}
  /\ main \in {"sleeping", "joining"} => next = 0
  /\ main \in {"reporting", "reported"} => server = "done"
  /\ RecordedOnArrival

\* The window is the end of what the report has looked at, up to the first packet
\* that is too old.
SlideInv ==
  /\ next \in 0 .. Len(arrived_packets)
  /\ window \in Seq(Arrival) /\ Len(window) <= next
  /\ \A i \in 1 .. Len(window) : window[i] = arrived_packets[(next - Len(window)) + i]
  /\ \A i \in 1 .. next :
       Old(arrived_packets[i], arrived_packets[next][1]) <=> i <= next - Len(window)
  /\ bytes_in_window = Bytes(window)
  /\ report \in Nat /\ (next = 0 => report = 0)

ThroughputInv == ServerInv /\ SlideInv /\ WindowIsExact

\* No wake-up is lost between the server's look at the flag and its wait for
\* the event: the command ends, even if no packet ever arrives.
CommandEnds == <>(main = "reported")
=============================================================================
