----------------------------- MODULE UdpTraffic -----------------------------
(***************************************************************************)
(* The udp_ping and udp_one_direction traffic patterns                     *)
(* (quinn-workbench/src/udp/{ping,one_direction}.rs) and the simulation    *)
(* that waits for them (quinn-workbench/src/simulation.rs).                *)
(*                                                                         *)
(* A ping pattern is four kinds of task: a sender, one deadline task per   *)
(* ping, a receiver, and the echo server.  Sender, receiver and deadline   *)
(* tasks share the map of pings in flight.  The network between the        *)
(* sockets may lose, delay, reorder and duplicate.                         *)
(*                                                                         *)
(* The runtime warps time: the clock moves only when no task can run.  A   *)
(* read returns up to five packets; they are taken one per step here.      *)
(***************************************************************************)
EXTENDS Integers, Sequences

CONSTANTS
  StartAt, Interval, Duration, Deadline,     \* of the ping pattern
  UdpStartAt, UdpInterval, UdpDuration,      \* of the one-direction pattern
  Payload, PAYLOAD_CHUNK_SIZE_BYTES,
  MaxDuplicates,      \* bound: how often the network delivers a ping
  MaxPings,           \* bound: pings of a run
  MaxTime             \* bound: the last instant of a behaviour

ASSUME UdpAssumption ==
  /\ StartAt \in Nat /\ Duration \in Nat /\ Deadline \in Nat
  /\ UdpStartAt \in Nat /\ UdpDuration \in Nat /\ Payload \in Nat
  /\ Interval \in Nat \ {0} /\ UdpInterval \in Nat \ {0}
  /\ PAYLOAD_CHUNK_SIZE_BYTES \in Nat \ {0}
  /\ MaxDuplicates \in Nat \ {0} /\ MaxPings \in Nat /\ MaxTime \in Nat

Nrs    == 0 .. MaxPings - 1
NoTime == -1

VARIABLES
  now,
  driver,         \* what the simulation waits for: "ping", "udp" or "ended"
  pc, wake,       \* of the ping sender: "starting", "sending" or "done"
  ping_start, ping_nr,
  sent_at,        \* when each ping was sent, the values of the in_flight map
  in_flight,      \* the keys of the map
  deadlines,      \* pings whose deadline task sleeps
  log,            \* verdicts: [nr, what, at]
  receiver,       \* "listening" or "done"
  wire,           \* how often the network will still deliver a ping or a reply
  server_inbox, client_inbox,
  arrived,        \* history: when a reply was first readable by the client
  udp             \* the one-direction sender: [pc, wake, start, batches, packets, bytes]

pingVars == <<pc, wake, ping_start, ping_nr, sent_at, in_flight, deadlines, log, receiver>>
netVars  == <<wire, server_inbox, client_inbox, arrived>>
vars     == <<now, driver, pingVars, netVars, udp>>

UdpInit ==
  /\ now = 0
  /\ driver = "ping"
  /\ pc = "starting" /\ wake = StartAt /\ ping_start = 0 /\ ping_nr = 0
  /\ sent_at = [n \in Nrs |-> NoTime]
  /\ in_flight = {} /\ deadlines = {} /\ log = <<>>
  /\ receiver = "listening"
  /\ wire = [m \in {"ping", "reply"} \X Nrs |-> 0]
  /\ server_inbox = <<>> /\ client_inbox = <<>>
  /\ arrived = [n \in Nrs |-> NoTime]
  /\ udp = [pc |-> "starting", wake |-> UdpStartAt, start |-> 0,
            batches |-> 0, packets |-> 0, bytes |-> 0]

Running == driver # "ended"

----------------------------------------------------------------------------
(* The ping pattern *)

\* The sender's sleep until the start, or until the next ping, is over.
Awake == pc # "done" /\ now >= wake

sender_starts ==
  /\ Running /\ pc = "starting" /\ Awake
  /\ pc' = "sending"
  /\ ping_start' = now /\ wake' = now
  /\ UNCHANGED <<now, driver, ping_nr, sent_at, in_flight, deadlines, log, receiver,
                 netVars, udp>>

\* The ping goes out, then enters the map; its deadline task is spawned.  There
\* is no await in between.
track_ping(k) ==
  /\ wire' = [wire EXCEPT ![<<"ping", ping_nr>>] = k]
  /\ sent_at' = [sent_at EXCEPT ![ping_nr] = now]
  /\ in_flight' = in_flight \union {ping_nr}
  /\ deadlines' = deadlines \union {ping_nr}
  /\ ping_nr' = ping_nr + 1

\* A bug: the loop runs once more at the very end of the duration.
InclusiveEnd == now - ping_start <= Duration

\* A bug: the time since the last ping counts, not since the first.
SinceLastPing == now - wake < Duration

SendingTime == now - ping_start < Duration

send_ping ==
  /\ Running /\ pc = "sending" /\ Awake
  /\ SendingTime
  /\ ping_nr \in Nrs
  /\ \E k \in 1 .. MaxDuplicates : track_ping(k)
  /\ wake' = now + Interval
  /\ UNCHANGED <<now, driver, pc, ping_start, log, receiver, server_inbox,
                 client_inbox, arrived, udp>>

sender_done ==
  /\ Running /\ pc = "sending" /\ Awake
  /\ ~SendingTime
  /\ pc' = "done"
  /\ UNCHANGED <<now, driver, wake, ping_start, ping_nr, sent_at, in_flight, deadlines,
                 log, receiver, netVars, udp>>

Verdict(nr, what) == [nr |-> nr, what |-> what, at |-> now]

\* A bug: the deadline task does not look at the map.
DeclareLost(nr) ==
  /\ in_flight' = in_flight \ {nr}
  /\ log' = Append(log, Verdict(nr, "LOST"))

\* Whoever removes the ping from the map writes the verdict.
Expire(nr) ==
  /\ in_flight' = in_flight \ {nr}
  /\ log' = IF nr \in in_flight THEN Append(log, Verdict(nr, "LOST")) ELSE log

\* A bug: the deadline is one instant early.
EarlyDeadline(nr) == now + 1 >= sent_at[nr] + Deadline

\* A bug: the deadline is one instant late.
LateDeadline(nr) == now > sent_at[nr] + Deadline

DeadlineOver(nr) == now >= sent_at[nr] + Deadline

deadline_passes(nr) ==
  /\ Running
  /\ nr \in deadlines /\ DeadlineOver(nr)
  /\ deadlines' = deadlines \ {nr}
  /\ Expire(nr)
  /\ UNCHANGED <<now, driver, pc, wake, ping_start, ping_nr, sent_at, receiver,
                 netVars, udp>>

TakeReply(nr) ==
  /\ in_flight' = in_flight \ {nr}
  /\ log' = IF nr \in in_flight THEN Append(log, Verdict(nr, "RECEIVED")) ELSE log

\* The receiver's select! takes any branch that is ready: a reply ...
receive_reply ==
  /\ Running /\ receiver = "listening" /\ client_inbox # <<>>
  /\ TakeReply(Head(client_inbox))
  /\ client_inbox' = Tail(client_inbox)
  /\ UNCHANGED <<now, driver, pc, wake, ping_start, ping_nr, sent_at, deadlines,
                 receiver, wire, server_inbox, arrived, udp>>

\* ... or the news that the sender is done.
receiver_stops ==
  /\ Running /\ receiver = "listening" /\ pc = "done"
  /\ receiver' = "done"
  /\ UNCHANGED <<now, driver, pc, wake, ping_start, ping_nr, sent_at, in_flight,
                 deadlines, log, netVars, udp>>

\* run_server_forever: every copy of a ping is echoed.
echo ==
  /\ Running /\ server_inbox # <<>>
  /\ server_inbox' = Tail(server_inbox)
  /\ wire' = [wire EXCEPT ![<<"reply", Head(server_inbox)>>] = @ + 1]
  /\ UNCHANGED <<now, driver, pingVars, client_inbox, arrived, udp>>

----------------------------------------------------------------------------
(* The network: any packet on the wire may be delivered at any time, or never *)

deliver_ping(nr) ==
  /\ Running /\ wire[<<"ping", nr>>] > 0
  /\ wire' = [wire EXCEPT ![<<"ping", nr>>] = @ - 1]
  /\ server_inbox' = Append(server_inbox, nr)
  /\ UNCHANGED <<now, driver, pingVars, client_inbox, arrived, udp>>

deliver_reply(nr) ==
  /\ Running /\ wire[<<"reply", nr>>] > 0
  /\ wire' = [wire EXCEPT ![<<"reply", nr>>] = @ - 1]
  /\ client_inbox' = Append(client_inbox, nr)
  /\ arrived' = [arrived EXCEPT ![nr] = IF @ = NoTime THEN now ELSE @]
  /\ UNCHANGED <<now, driver, pingVars, server_inbox, udp>>

----------------------------------------------------------------------------
(* The one-direction pattern *)

Min2(a, b) == IF a < b THEN a ELSE b

\* The number of packets that the loop over pending_send makes of a payload
CountChunks(p) ==
  LET chunks[k \in Nat] ==
        IF k = 0 THEN 0 ELSE 1 + chunks[k - Min2(k, PAYLOAD_CHUNK_SIZE_BYTES)]
  IN  chunks[p]

UdpAwake == udp.pc # "done" /\ now >= udp.wake

udp_starts ==
  /\ Running /\ udp.pc = "starting" /\ UdpAwake
  /\ udp' = [udp EXCEPT !.pc = "sending", !.start = now, !.wake = now]
  /\ UNCHANGED <<now, driver, pingVars, netVars>>

\* Send the payload in chunks and sleep, or stop.
udp_sends ==
  /\ Running /\ udp.pc = "sending" /\ UdpAwake
  /\ udp' = IF now - udp.start < UdpDuration
            THEN [udp EXCEPT !.wake = now + UdpInterval, !.batches = @ + 1,
                             !.packets = @ + CountChunks(Payload), !.bytes = @ + Payload]
            ELSE [udp EXCEPT !.pc = "done"]
  /\ UNCHANGED <<now, driver, pingVars, netVars>>

----------------------------------------------------------------------------
(* The simulation joins the ping senders, then the one-direction senders, and *)
(* ends; the other tasks end with it.                                         *)

joins ==
  \/ driver = "ping" /\ pc = "done" /\ driver' = "udp"
  \/ driver = "udp" /\ udp.pc = "done" /\ driver' = "ended"

drive == joins /\ UNCHANGED <<now, pingVars, netVars, udp>>

TaskReady ==
  \/ Awake \/ UdpAwake
  \/ \E nr \in deadlines : DeadlineOver(nr)
  \/ receiver = "listening" /\ (client_inbox # <<>> \/ pc = "done")
  \/ server_inbox # <<>>
  \/ driver = "ping" /\ pc = "done"
  \/ driver = "udp" /\ udp.pc = "done"

Tick ==
  /\ Running /\ ~TaskReady /\ now < MaxTime
  /\ now' = now + 1
  /\ UNCHANGED <<driver, pingVars, netVars, udp>>

PingTasks ==
  \/ sender_starts \/ send_ping \/ sender_done
  \/ receive_reply \/ receiver_stops \/ echo
  \/ \E nr \in Nrs : deadline_passes(nr)

UdpNext ==
  \/ PingTasks
  \/ \E nr \in Nrs : deliver_ping(nr) \/ deliver_reply(nr)
  \/ udp_starts \/ udp_sends
  \/ drive
  \/ Tick

UdpSpec == UdpInit /\ [][UdpNext]_vars

\* The executor runs every task that was woken, and the clock then moves.  The
\* network need not deliver anything.
UdpFairSpec ==
  /\ UdpSpec
  /\ WF_vars(PingTasks) /\ WF_vars(udp_starts \/ udp_sends) /\ WF_vars(drive)
  /\ WF_vars(Tick)

----------------------------------------------------------------------------
(* Properties *)

VerdictRecords == [nr : Nrs, what : {"LOST", "RECEIVED"}, at : Nat]

Verdicts(nr) == {i \in 1 .. Len(log) : log[i].nr = nr}

\* A ping is reported as received or as lost, never both and never twice, and
\* it is in the map until then: a duplicated reply, or one that arrives at the
\* very instant of the deadline, finds the map empty.
OneVerdict ==
  \A nr \in Nrs :
    /\ \A i, j \in Verdicts(nr) : i = j
    /\ nr < ping_nr => (nr \in in_flight <=> Verdicts(nr) = {})
    /\ nr >= ping_nr => nr \notin in_flight /\ Verdicts(nr) = {}

\* A reply that the client could read before the deadline, while the receiver
\* was listening, is never reported as lost.  (The receiver listens until the
\* sender is done; a reply that arrives at that instant or later may go unread.)
LostMeansLate ==
  \A i \in 1 .. Len(log) :
    LET nr == log[i].nr
    IN  log[i].what = "LOST" =>
          \/ arrived[nr] = NoTime
          \/ arrived[nr] >= sent_at[nr] + Deadline
          \/ pc = "done" /\ arrived[nr] >= wake

\* "The deadline between sending a ping and receiving a reply": a ping that is
\* reported as received was answered within its deadline.
ReceivedInTime ==
  \A i \in 1 .. Len(log) : log[i].at <= sent_at[log[i].nr] + Deadline

Ceil(a, b) == (a + b - 1) \div b

\* Pings leave at StartAt, StartAt + Interval, ... and none at or after
\* StartAt + Duration, whatever the receiver and the other pattern do, and the
\* simulation does not end before the last one was sent.
PingsOnSchedule ==
  /\ \A nr \in Nrs : nr < ping_nr => sent_at[nr] = StartAt + nr * Interval
  /\ pc = "done" => ping_nr = Ceil(Duration, Interval)
  /\ driver = "ended" => pc = "done"

\* One-direction traffic sends one batch per interval, each with the whole
\* payload.
BatchesOnSchedule ==
  /\ udp.bytes = udp.batches * Payload
  /\ udp.pc = "done" => udp.batches = Ceil(UdpDuration, UdpInterval)

\* What either pattern announces is what it sends, and when; the one-direction
\* pattern cuts every payload into ceil(payload / chunk) packets.
TrafficOnSchedule ==
  /\ PingsOnSchedule
  /\ BatchesOnSchedule
  /\ udp.packets = udp.batches * Ceil(Payload, PAYLOAD_CHUNK_SIZE_BYTES)

\* The simulation ends, even if the network loses every packet.
SimulationEnds == <>(driver = "ended")

\* What the verdicts depend on: state of the right types, ...
VerdictTypeOK ==
  /\ now \in Nat /\ ping_nr \in Nat
  /\ sent_at \in [Nrs -> Nat \union {NoTime}]
  /\ in_flight \in SUBSET Nrs /\ deadlines \in SUBSET Nrs
  /\ log \in Seq(VerdictRecords)

\* ... and a task for every ping in flight that takes it out of the map before
\* the clock can pass its deadline.
DeadlinesWatched ==
  /\ \A nr \in Nrs : nr < ping_nr => sent_at[nr] \in Nat
  /\ \A nr \in deadlines : nr < ping_nr
  /\ \A nr \in in_flight : nr \in deadlines /\ now <= sent_at[nr] + Deadline

\* The inductive invariant behind OneVerdict and ReceivedInTime
VerdictInv == VerdictTypeOK /\ OneVerdict /\ DeadlinesWatched /\ ReceivedInTime

\* What becomes of replies: only pings that were sent have any, ...
RepliesKnown ==
  /\ wire \in [{"ping", "reply"} \X Nrs -> Nat]
  /\ server_inbox \in Seq(Nrs) /\ client_inbox \in Seq(Nrs)
  /\ arrived \in [Nrs -> Nat \union {NoTime}]
  /\ wake \in Nat
  /\ \A nr \in Nrs : \/ wire[<<"ping", nr>>] > 0 \/ wire[<<"reply", nr>>] > 0
                      \/ arrived[nr] # NoTime
                    => nr < ping_nr
  /\ \A i \in 1 .. Len(server_inbox) : server_inbox[i] < ping_nr

\* ... a receiver that listens reads a reply at the instant at which it arrives,
\* and one that stops has listened until the sender's last sleep was over.
RepliesRead ==
  /\ pc = "done" => now >= wake
  /\ receiver # "listening" => pc = "done"
  /\ \A nr \in in_flight : arrived[nr] # NoTime =>
       \/ /\ receiver = "listening" /\ arrived[nr] = now
          /\ \E i \in 1 .. Len(client_inbox) : client_inbox[i] = nr
       \/ receiver # "listening" /\ arrived[nr] >= wake

\* The inductive invariant behind LostMeansLate
ReplyInv ==
  /\ RepliesKnown /\ RepliesRead /\ LostMeansLate
  /\ \A i \in 1 .. Len(log) : log[i].what = "LOST" => now >= sent_at[log[i].nr] + Deadline

\* The inductive strengthening of PingsOnSchedule: time never passes the end of
\* a sleep before the sender has run.
PingScheduleInv ==
  /\ now \in Nat /\ ping_nr \in Nat /\ pc \in {"starting", "sending", "done"}
  /\ sent_at \in [Nrs -> Nat \union {NoTime}]
  /\ pc = "starting" => ping_nr = 0 /\ wake = StartAt /\ now <= wake
  /\ pc = "sending" =>
       /\ ping_start = StartAt
       /\ wake = StartAt + ping_nr * Interval /\ now <= wake
       /\ ping_nr > 0 => (ping_nr - 1) * Interval < Duration
  /\ driver # "ping" => pc = "done"
  /\ PingsOnSchedule

\* The same of BatchesOnSchedule
BatchScheduleInv ==
  /\ now \in Nat
  /\ DOMAIN udp = {"pc", "wake", "start", "batches", "packets", "bytes"}
  /\ udp.pc \in {"starting", "sending", "done"}
  /\ {udp.wake, udp.start, udp.batches, udp.bytes} \subseteq Nat
  /\ udp.pc = "starting" => udp.batches = 0 /\ udp.wake = UdpStartAt /\ now <= udp.wake
  /\ udp.pc = "sending" =>
       /\ udp.start = UdpStartAt
       /\ udp.wake = UdpStartAt + udp.batches * UdpInterval /\ now <= udp.wake
       /\ udp.batches > 0 => (udp.batches - 1) * UdpInterval < UdpDuration
  /\ BatchesOnSchedule
=============================================================================
