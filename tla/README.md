# A TLA+ model of the workbench

The program simulates an IP network in memory, with links that fail, delays of
hours and nodes that store packets, and runs QUIC and UDP applications on it.
This directory holds specifications of the network simulator
(`in-memory-network/src`) and of the applications and commands that run on it
(`quinn-workbench/src`), TLC configurations that check them on small instances,
and proofs that hold for all instances.

## The system

| Part | State | Operations | Interacts with |
|------|-------|------------|----------------|
| `PacketPacer` (link.rs) | the current batch: creation time and transmission time | `can_send`, `duration_until_can_send`, `track_send` | its link |
| `InboundQueue` (inbound_queue.rs) | a heap of packets with arrival times, wakers of readers | `send`, `NextPacketDelivery::poll` | a link (packets in transit) or a UDP endpoint (packets to read) |
| `NetworkLink` (link.rs) | status, last failure, delay, outgoing queue, packets in transit | `send`, `sleep_until_ready_to_send`, `update_status`, `update_delay` | its task, its forwarder, the events task |
| `Node`, `OutboundBuffer` (node.rs, outbound_buffer.rs) | status, last buffer clear, available capacity, buffer | `enqueue_outbound`, `reserve`, `release`, `update_status`, `clear_buffer` | its buffer task, its links, the events task |
| `InMemoryNetwork` (mod.rs) | tables of nodes and links | `forward`, `send_udp`, the tasks `process_buffer_for_node`, `process_link_queue`, `forward_packets_from_link_to_node`, the events task | all of the above, the tracer |
| `NetworkEvents` (event.rs) | sorted events, initial statuses | construction | the events task |
| tracer, stepper, verifier (tracing/) | recorded steps; replayed nodes and links | `track_*`, `verify` | called from all tasks; the verifier runs after the simulation |
| routing (route.rs, ip.rs, spec.rs) | routes of a node, ordered by cost | `from_cidr`, `next_hop_towards_destination`, `walk_links` | `forward`'s tasks |
| initialization (mod.rs, config/network.rs) | tables under construction | `initialize`, conversion of the files | routing, events |
| connectivity check (mod.rs, simulation_stepper.rs) | a network of its own, its endpoints and its recorded steps | `assert_connectivity_between_nodes`, for every pair of the traffic file | the driver |
| driver (simulation.rs) | sockets created, tasks to join, the result | `run_and_report_stats`, `run` | the check, the applications, the verifier |
| QUIC applications (quic/client.rs, quic/server.rs) | requests left, permits, request and stream tasks | clients, the accept loop, connection tasks | Quinn, the driver |
| UDP applications (udp/ping.rs, one_direction.rs, throughput.rs) | pings in flight, verdicts, arrivals, a sliding window | senders, receivers, deadline tasks, the echo server, cancellation | sockets, the driver |

Tasks run on one thread. They interleave at every `await`: a link's task waits
for packets, for bandwidth, for the link, for its node, and yields to cheaper
links; any other task may run in between. The clock is paused while a task can
run ("time warping"), so many things happen at the same instant, in any order;
with time warping disabled it is the real clock.

What is hard here:

* all links with a route are offered each packet and race to claim it;
* the check for bandwidth, link and node is separated from the send by up to
  three sleeps and a number of yields;
* sends, failures and buffer clears at one instant are told apart by strict
  comparisons of instants;
* buffer capacity is reserved by one task and released by another;
* wake-ups go through one-shot channels and wakers that may be missed or stale;
* a task that panics takes its queue with it, and the tasks that feed it follow;
* the initial statuses are inverted from events that are processed again later;
* replies race the deadlines of their pings, and the receiver's end;
* connections share a counter of requests, and either end of a connection may be
  lost at any point while the driver joins tasks in a fixed order;
* all pairs of the connectivity check share the endpoints of their nodes.

`PROJECT.json` lists these hazards at the lines where they bite.

## Modules

| Module | Models | Runs |
|--------|--------|------|
| `Pacer` | the arithmetic of `PacketBatch` and `PacketPacer`, as operators | |
| `PacketPacer` | a link's task and its pacer, with an observer that counts what is sent in an arbitrary window | |
| `BandwidthReplay` | `PacketPacer`, and the verifier's bandwidth window replaying its sends | `bandwidth` |
| `InboundQueue` | the delayed queue, its reading future and their wake-ups | `inbound_queue` |
| `Network` | nodes, links, the tasks, network events, sends by applications (uses `Pacer`) | |
| `PacketJourney` | the abstract specification: where a packet may be and how it may move | |
| `NetworkJourneys` | the mapping from `Network` to `PacketJourney` | `loop_liveness` |
| `SimulationVerifier` | the replay of recorded steps by the verifier, as operators on its state, one per kind of step | |
| `VerifiedNetwork` | `Network`, applications that read from sockets, and the verifier, which takes the steps that each action records | |
| `MCNetwork` | small networks for TLC | `loop_liveness`, `buffer_leak`, `yield_panic` |
| `MCVerified` | the same networks with the verifier | `parallel_links`, `relay` |
| `Routing` | addresses, ranges and routing tables, as operators | |
| `NetworkEvents` | reading and sorting of events, initial statuses, as operators (extends `Routing`) | |
| `Startup` | `initialize`, one table entry per step, and the events task (extends `NetworkEvents`) | |
| `MCStartup` | network and event files for TLC | `startup` |
| `UdpTraffic` | the ping and one-direction patterns and the driver that waits for them | `udp_traffic` |
| `Throughput` | the throughput command and the cancellation token | `throughput` |
| `Connectivity` | the connectivity check | |
| `Simulation` | the simulate command: driver, check, QUIC clients and servers (extends `Connectivity`) | |
| `MCSimulation` | traffic files for TLC | `quic`, `connectivity_stale` |
| `SumLemmas` | induction over numbers, and sums | |
| `PacketPacerProofs` | proofs about `Pacer`, `PacketPacer` and `BandwidthReplay` | |
| `InboundQueueProofs` | proofs about `InboundQueue` | |
| `NetworkProofs` | proofs about `Network`, and that it implements `PacketJourney` | |
| `VerifiedProofs` | proofs about `VerifiedNetwork`, and about the bytes in buffers | |
| `UdpTrafficProofs`, `ThroughputProofs` | proofs about the UDP applications | |
| `SimulationProofs` | proofs about `Simulation` and `Connectivity` | |

Definitions that begin with "A bug:" are variants of the definition that
follows them; they document what the properties detect and take no part in the
specifications.

### `Network`

The state of a link's task is `task[l]`. The packet it works on is the head of
`outgoing[l]`. `pc` is the `await` it is suspended at:

| `pc` | `await` |
|------|---------|
| `idle` | `packet_rx.next()` in `process_link_queue` |
| `bandwidth` | the sleep of `sleep_until_ready_to_send`, until `wake` |
| `link`, `node` | the notifier of the link, of the node |
| `link_up`, `node_up` | the same, notified and about to be polled |
| `yield` | `yield_now`, with `ahead` more links to give way to |

`handled` is the set of watch channels that were set to `true`; a channel
belongs to one stay of a packet in a node, identified by the packet's id and
its TTL there. `fate` is the last thing the tracer knows of a packet.
`in_transit` is the link's `InboundQueue` and `wakeup` the sleep of the
forwarder that reads it. `cut` is a history flag of a packet in transit, set
when the link goes down. `crashed` holds the tasks that panicked or returned
an error. `batch` is the pacer.

One action is what a task does for one packet between two awaits. In the code
a task that finds its next packet waiting goes on without giving way; in the
model other tasks may run first. This adds interleavings and removes none, so
the properties that hold in the model hold in the code; the counterexamples
described below do not need the added ones.

Data is abstract: a packet has an id, the number that orders packets with the
same arrival time, a destination node, a size, an ECN codepoint and a TTL.
Time and sizes are small numbers, and `TicksPerByte` is the inverse of the
bandwidth (one for all links). `Routes[n][d]` is the sequence of links that
`walk_links` visits, so a route without a link (an error of the input) is not
modelled. Random choices (loss, duplication, extra delay, congestion) are
nondeterministic. Anomalies are drawn when the packet is sent; the code draws
them when it is offered, and looks at them only then.

`TimeWarp` selects the paused clock. In real time the clock may also advance
inside a step; the one place where the code depends on that not happening is
modelled (`AssertionRaces`).

### `SimulationVerifier` and `VerifiedNetwork`

`verify()` goes through the recorded steps after the simulation, in the order of
their times, which is the order in which they were recorded. `VerifiedNetwork`
replays each step in the action that records it: `replay` is the verifier after
the steps so far, and every state is one in which a simulation may end. `Forwarded`
is the list of steps of `forward`. Errors are a set of kinds, so
`update_max_buffer_usage`, which runs when the time of a step differs from that of
the one before, can run with the clock (`VTick`); buffers do not change between
steps. `unread` holds the packets in the endpoints of a node until an application
reads them (`poll_recv`), one at a time and in any order.

### `InboundQueue`

The reader is the loop of the forwarder: poll a future until it is ready, then
create the next one. The future is runnable, asleep until an arrival, or
registered with the queue. `Network` contains the same reader in fewer states
(`wakeup`), without the limit on the number of packets per read, which is
unlimited there.

### `PacketJourney` and `NetworkJourneys`

`PacketJourney` has one variable: where every packet is. A packet is stored in a
node or on a link, with its destination and its TTL, or it is unborn, delivered
or gone. It enters a node at the cost of one hop, and a node that stores it may
create a copy. There are no buffers, tasks, bandwidth or time. `Journey` maps the
state of `Network` to it, one packet at a time, from the `Places` it has among
the `Whereabouts` of all packets: a packet is stored in a node while it is in the buffer
or offered to links and not handled, and on a link while it is in transit; a
packet that a crashed task held is gone. The refinement says that races, cleared
buffers, duplicates, failures and crashes never do more than that: no step moves
two packets, moves one by two hops, revives one or restores its TTL.

### `Routing`, `NetworkEvents` and `Startup`

An address is a number of `Width` bits, and masks are computed modulo `2^Width`
with the community module for bitwise operators. `Startup` runs `initialize` entry
by entry, because the order decides which clash is found first and what an input
error leaves behind, then processes the initial events and all others at their
times. Its properties compare the tables and statuses with definitions over the
files: which destinations a route covers (by counting, not by masks), which
status the last event up to now gives, or the opposite of the first one to come.

Its first two refusals, of an old tracer and of an old start instant (mod.rs:77), are
left out: its callers create both in the instant of the call.

Two things that the model shows and the properties allow for. `initialize` does not
check that links lead to addresses of nodes, although readme.md says they must;
the forwarder indexes its table of nodes (mod.rs:773) and would panic. And a
delay changes only while the link is already down (mod.rs:283), so an event at
time 0 that takes a link down and changes its delay works because initial events
are processed twice.

### `UdpTraffic` and `Throughput`

`wire` is the network between client and server: a ping or a reply on it is
delivered at any later time, or never, and a ping up to `MaxDuplicates` times.
`in_flight` is the map that sender, receiver and deadline tasks share; whoever
removes a ping writes its verdict. The receiver's `select!` picks any branch that
is ready. An interval of 0 is excluded (`UdpAssumption`): under the paused clock
such a sender never ends. Pings whose deadline lies after the end of the
simulation get no verdict.

In `Throughput` the server waits for packets or for the token; the flag and the
event of the token are two variables, and the check of the flag and the
registration of the listener are one step, as they are in one poll. The window
of the report is compared with the set of packets that it should hold.

### `Connectivity` and `Simulation`

A packet of the check is known by its direction, which identifies its pair, as
every unordered pair of nodes is checked once. `check.left` is the set of pairs
still to check and `Pair` the first of them in the order of the names (`Lower`).
`inbound` is the endpoint of a
node on port 8080. In a faulty network packets vanish (dropped, lost, or held up
for longer than 90 days) and are duplicated; otherwise all arrive. When the check is
over its network is dropped and its variables start afresh.

`driver` is what `run` is doing. One thread runs everything and setup does not
await, so tasks run from the first join on (`Alive`). A client's connection task
is `conn[c].pc`, its requests and the server's streams are `streams[c]`, and
`conn[c].net` and `server[c].net` are the two ends of the connection: in a faulty
simulation each end may be lost at any time. Quinn is external: whatever it does
takes any time.

What the model shows and the properties allow for: a close that is lost makes the
server's task panic although the client succeeded, and the run fails; nodes with
two roles are found out after the run, and shared sockets panic before it; a
pattern without connections succeeds without its requests; a pattern without
streams waits for a permit for ever (`MCSimulation` has none). A check
that fails after a node dropped a duplicate that it had just made panics in its
report (`unreachable!()`, simulation_stepper.rs:44), because the duplicate was
never recorded in a node. And the report counts all packets that a node sent,
to any peer, as dropped on their way to this one.

## What is checked

Passing runs:

* `bandwidth`: a grant of the pacer holds until the packet is sent
  (`GrantHolds`); in every window of time a link sends at most the window's
  length plus one burst (`WithinBandwidth`); no wait is longer than one burst
  (`BoundedWait`); the verifier's figure exceeds the bandwidth by at most one
  burst (`AlarmWithinBurst`; for links below 9984 bit/s the window is ten seconds
  and both sides of the comparison are kept for all of it). Packets that fit a batch, fill it and exceed it,
  over 9 ticks of which 5 are a second.
* `inbound_queue`: four packets, numbers in any order, delays of 1 to 3 ticks,
  reads of at most two. No wake-up is lost, lateness is at most the spread of
  the delays, equal delays are first in, first out, and everything is
  delivered.
* `parallel_links`: two links race for two packets, and two status events happen
  at any instant, in real time; a route visits one link twice, and tasks crash
  (no route back from B, a congested link and packets without ECN, the racing
  assertion). `OneCopy` (a packet is in one place while it is live and nowhere
  afterwards), `PacerGrantKept`, `LossVerdictSound` and `LossVerdictComplete`
  (what the forwarder blames on the link is what the link did), and
  `ReplayCompletes` (the verifier meets no fatal error).
* `relay`: three packets of two sizes (one may be a duplicate made by the relay)
  for B, at the other end of two links, or for C, which lies behind B and too far
  for their TTL. The relay goes down and up and has its buffer cleared, so that it
  refuses packets, drops them or has no room for them; A loses packets at random
  and goes down while its application sends; the second link fails, changes its
  delay and has extra delays. The types and `BufferAccounting`; `ReplayAgrees`
  (the replay does not stop and the verifier knows where every packet is),
  `RulesKept` (six of its rules are never broken), `BreachesReported` (a packet
  that survives a failure of its link is reported, so is one that leaves a node
  that is down, and a packet that reaches a node that is down raises no alarm) and
  `DropsCounted`: the report misses no drop and counts none twice. Full buffers,
  cleared buffers and packets refused when they come over a link have exact
  counters; random losses and TTLs that ran out are together in the two counters
  that the report has for them. Which of the two is wrong in the code, and the
  property does not accept it: see TTLs in the list of disagreements below.
* `loop_liveness`: A and R route to each other, A over two links. With two
  status events for the links and for A, a packet that is offered to a link
  leaves once that link and the node stay up; packets and duplicates end when
  their TTL does; and `Network` implements `PacketJourney` (`JourneysRefined`).
* `startup`: addresses of 3 bits, so that prefixes of every length occur; two nodes,
  three links, ranges and costs that vary; one defect of each kind that is
  refused; and up to two events in any order at times 0 to 2. Packets are offered
  to the links whose routes cover the destination (`OffersMatchConfiguration`),
  a cheapest one first (`CheapestLinkFirst`); exactly the
  inconsistent files are refused (`RefusesInconsistentOnly`); nodes and links have
  the status their events imply (`StatusFollowsEvents`).
* `udp_traffic`: two pings, each delivered up to twice, and a deadline that ends at
  and after the next ping; a one-direction pattern that outlasts them. One verdict
  per ping (`OneVerdict`), `LOST` only for replies that were late or came when
  nobody listened (`LostMeansLate`), no verdict after the deadline
  (`ReceivedInTime`), both schedules (`TrafficOnSchedule`), and
  the simulation ends (`SimulationEnds`).
* `throughput`: two intervals of sending, reads of two packets, packets of two sizes.
  The window is exact at its edges and its packets carry the time they became
  readable (`WindowIsExact`), and the command ends (`CommandEnds`).
* `quic`: nineteen traffic files, of which six also run with faults: concurrent
  connections and streams, more connections than requests, intervals, two
  patterns, shared nodes and sockets, unknown nodes, refused options; two packets
  each way for every pair of the check. `RequestsConserved`, `StreamsLimited`,
  `SuccessIsComplete` and `NoFalseAlarm` (what the result says is what happened),
  `FreshNodesConnected` and `FailureIsReal` (what of the check's verdict can be
  relied on), and `SimulationFinishes`. The properties name their exceptions: a
  pattern without connections succeeds without requests (`SuccessIsComplete`), and
  a node that is paired with itself reads twice from one queue, so that its
  failure proves nothing (`FailureIsReal`).

Runs that show a disagreement between the code and what the repository says of
it (`findings` in `PROJECT.json` quotes the lines):

* `buffer_leak`: a packet waits in a node, the buffer is cleared, the packet is
  dropped and its capacity is never released.
* `yield_panic`: the second link is ready, yields to the first, goes down, and
  its task panics in `send`.
* `connectivity_stale`: the pairs (1, 2) and (1, 3) are checked; nothing comes from 3
  to 1, and the check of the second pair reads what 2 sent to 1.

More of this kind happens in the models and has no run of its own:

* TTLs that run out are reported as random losses. The report has a counter for
  packets whose TTL reached 0 (`dropped_zero_ttl`, stats.rs:13) and a line for it,
  "TTL reached 0" (util.rs:126), but `packet_dropped` counts them with the others
  (simulation_verifier.rs:696), so that the line says 0 and the next one too many.
  (It is also printed on the condition of the next one, util.rs:124.) What
  the report promises is `TtlDropsReported` in `VerifiedNetwork`; with it as an
  invariant of `MCRelay.cfg`, TLC finds the first packet that reaches B with a TTL
  of 1. It is in no run, and no property or theorem states the opposite;
* a link marks a packet that an earlier link on its path has marked, and panics
  in `send` (link.rs:170);
* a packet with a shorter delay waits for one with a longer delay in front of
  which it arrived (`BoundedLateness` is what holds);
* the verifier's bandwidth window counts its oldest packet in full and rejects
  what the pacer allows (`AlarmWithinBurst` is what holds);
* a link sends from a node that went down after the packet was offered to it
  (`BreachesReported`: the verifier then says so);
* an application sends from a node that is down, and the verifier says that the
  node received the packet (simulation_verifier.rs:736).

And two more. A link that sends and goes down at the same instant does not lose the packet: that is the exception that
`LossVerdictComplete` names (readme.md:313 makes none). And with time warping
disabled, the batch may end between the check for bandwidth and the assertion
that repeats it (`AssertionRaces`), which ends the link's task; it happens in
`parallel_links`.

The rules that `RulesKept` leaves out are the ones with false alarms. Besides
those above: a delay that an
event lowers makes packets too fast (`TooFastPacketReceive`, the verifier knows
the delay of the network file only), packets that no application has read count
as buffered (`NodeExceedsBufferSize`), and a send at the instant of a failure is
reported (`OfflinePacketReceive`) although the forwarder allows it. Extra delays
and congestion marks are never recorded: the only call of
`track_injected_failures` (mod.rs:587) passes neither.

Bounds. In the network, `MaxPackets`, `MaxEvents`, `Horizon` (no send or event after it) and
`MaxTime` bound a behaviour. Two packets are enough for one to wait behind the
other and for two links to disagree about each; two events are enough for a
failure and a recovery; `Horizon` leaves room for a failure before, at and
after a send; `MaxTime` leaves time to deliver what is under way. Deadlock is
not checked in the runs that end at `MaxTime` with nothing left to do.

In the applications, two connections, two streams and three requests are enough
for connections to compete for the last request and for a stream to fail while
another is open; two pings and a deadline of two intervals let deadlines, replies
and the end of the sender meet at one instant. `MAX_CONNECTIONS` (25 in the code)
is 2, `Attempts` (100) is 2: what matters is that one packet is read and some are
left.

Fairness. `loop_liveness` uses `FairSpec`: weak fairness of every task, because
the executor polls every task that was woken, and of the clock, because a
paused clock advances when nothing can run. Nothing forces applications to send
or events to happen. `MaxTime` is late enough for all sleeps to end. The same holds
in `UdpTraffic` and `Throughput`, where the network need not deliver anything. In
`Simulation` the tasks and the driver are weakly fair, and of Quinn it is assumed
that a connection whose other end is gone is lost after its idle timeout;
nothing forces faults to happen. The packets of a connectivity check without
faults arrive, and its timeouts end.

## What is proved

For all values of the constants, with TLAPS:

* `PacketPacerProofs`: `GrantHolds`, `WithinBandwidth`, `BoundedWait`. The
  inductive invariant `PacerInv` adds that the batch covers the transmission
  time of everything sent in the window, is never longer than a burst, and
  that a sleeping task will find its batch sent when it wakes. And
  `AlarmWithinBurst`, for the window of the verifier that replays the sends:
  `WindowInv` says that its running usage is the sum of its packets, and that,
  whichever packet of the window one starts at, the batch covers the time of that
  packet and of all later ones.
* `InboundQueueProofs`: `NoLostWakeup`, `BoundedLateness`, `SameDelayFifo` and, when
  all delays are equal, `DeliveredOnTime`. `QueueInv` adds that a sleeping reader
  wakes no later than the longest delay after any packet in the queue was sent.
* `NetworkProofs`: `TypeOK`, `PacerGrantKept`, `LossVerdictSound` and
  `LossVerdictComplete`, for every topology, all routes, traffic and events.
  `NetworkInv` adds that no recorded instant (the last failure, the send times,
  the creation of a batch) is in the future, that a task that is not idle has
  a packet, and what its grant rests on (`GrantCovers`): the batch is empty,
  has room, or will be sent when the sleep ends. Without the last part the
  grant could not be carried over the waits for the link and the node.
  Also `OneCopy`, and that `Network` implements `PacketJourney`
  (`JourneysRefined`). `CopyInv` says that the packets in buffers, offers and
  links are those that the tracer calls live (`Tracked`), that no packet has two
  places (`OnePlace`), that the settled stays of a packet have higher TTLs than the
  one it is in or on its way to (`HopsDescend`), and that a live packet has a place
  unless a task crashed (`Accounted`). `HopsDescend` is the heart of it: links race for a packet
  through a watch channel, and a second visit to a node would find the channel of
  the first if TTLs did not descend. Every action is shown to
  lose places, to offer one packet to links, to take one from a node to a link, or to
  let one into a node (`StepMoves`); each of the four maps to a step of the abstract
  specification or to a stutter.
* `VerifiedProofs`, for every network and all that happens in it:
  * `ReplayCompletes`, `ReplayAgrees`, `RulesKept` and the action property
    `BreachesReported`. `ReplayInv` relates the verifier's picture to the network:
    it knows the status of nodes and links (`StatusReplayed`), its packets in flight
    are those in transit (`FlightsReplayed`), what waits in a node is in the
    replayed buffer since the same time (`WaitingReplayed`), and what is in a replayed buffer
    is nowhere else (`StoresReplayed`, `UnreadReplayed`). The last is what keeps the
    verifier from a fatal error: a packet that comes back to a node must have left
    it in the replay too. It rests on `CopyInv`, and it names the packets for
    which the picture differs, those refused by a node that is down and those of
    crashed tasks.
  * `BufferAccounting`: reservations and releases follow what waits in a node. The
    bytes are a sum over packet ids; every step adds the packet (and its duplicate) that it
    reserves for, removes one that it releases, or only loses packets.
  * `DropsCounted`: every action ends a packet exactly when the steps that it
    records count a drop. `Agree` compares the sums of the counters over all nodes
    with the numbers of ended packets, random losses and TTLs together; it is
    inductive with `ReplayInv`, because a packet that is dropped has not ended before
    and the replay never stops at a step that would count. A packet that is
    refused is counted if the verifier saw it in flight, that is, if a link had
    taken it: `TransitsTaken` (what is in transit was taken by a link) and the new
    packets, which no link has taken, make the two the same. Nothing is proved
    about the counter for TTLs alone, which does not do what it is for.
* `UdpTrafficProofs`: `OneVerdict`, `ReceivedInTime`, `LostMeansLate` and
  `TrafficOnSchedule`, for every schedule, deadline and number of pings and whatever
  the network does. `VerdictInv` adds `DeadlinesWatched`: every ping in the map has
  a deadline task, and the clock has not passed its deadline. It is needed because
  the paused clock is what keeps a verdict in time: it does not move while a
  deadline task can run. `ReplyInv` adds where the replies of a lost ping can be;
  `PingScheduleInv` and `BatchScheduleInv` say when a sender that sleeps will wake
  and what it has sent by then. That the chunks of a batch add up to its bytes is
  an induction over the bytes left.
* `ThroughputProofs`: `WindowIsExact`, for every schedule, all sizes and every order of
  arrivals, reads and cancellation. `ThroughputInv` has two parts: packets are recorded in the order
  of the clock, which stands still while the server can read (`ServerInv`), so that
  the old packets are a prefix of the window; and the window is the part of the record
  that ends at the packet just added and begins at the first that is not old
  (`SlideInv`), its running sum being the sum over that part.
* `SimulationProofs`, for every traffic file, with faults and without:
  * `RequestsConserved` and `StreamsLimited`. `RequestInv` counts requests and permits
    over all connections of a pattern: a request is left, taken, or done, and a
    permit is free or held by one open stream.
  * `SuccessIsComplete`. `SuccessInv` follows the driver: a task that was joined has
    ended (`JoinsComplete`), and servers are joined only after the clients
    (`ServersJoined`).
  * `FreshNodesConnected` and `FailureIsReal`. `CheckInv` says which packets can be
    in an endpoint while pairs are checked in order: only packets of pairs up to the
    current one (`PassedInOrder`, `PacketsOfPairs`, `QueuesHoldArrivals`), those read
    from nodes without an earlier pair are fresh (`ReadsAreFresh`), and what arrived
    and was not read is still there (`UnreadArrivals`).
  * `NoFalseAlarm`: a simulation without faults fails only for a reason that is in
    the traffic file. `DriverInv` adds that no connection has lost anything
    (`CalmInv`) and that the sockets created so far are those of the patterns
    started so far (`StartedSockets`), so that a socket that exists already belongs
    to a node with two roles.

Induction. No backend takes an operator as a parameter, so the induction theorems of
the library cannot be used. `SumLemmas` derives induction from a statement
about sets instead: every set of numbers has a least element (from the well-founded
order on numbers), so a set that holds 0 and every successor holds every number.
From that follow the equations of recursive functions, and facts about
the sums that a fold computes over a sequence: that they are numbers, what changing
or appending one term does, how the sums of two parts add up, and what smaller terms
and zeros do.

The assumptions are those named in the modules: the constants have their types,
a node routes through its own links (`RoutesAssumption`, used for the places of packets,
so for `OneCopy` and all that rests on `CopyInv`), and there are finitely many nodes
(`NodesAssumption`, used for the sums over nodes of `DropsCounted`).

Only model-checked:

* the liveness properties (`LeavesThroughAvailableLink`, `EveryPacketEnds`,
  `EventuallyDelivered`, `SimulationEnds`, `CommandEnds`, `SimulationFinishes`): they need
  fairness, which is outside this prover's reach;
* the properties of `Startup`: `Routing` uses bitwise operators, which exclude a
  module from proofs, and its tables are built with sorting and selection by an
  operator parameter, which the prover does not expand.

## What is not modelled, and the plan

Next: the statistics of the verifier (sent, received, out of order), and a
formulation of `Routing` by sets of addresses, without bitwise operators and shown
equal to the present one by TLC, so that the properties of `Startup` can be proved.

Left out: the QUIC protocol itself (the Quinn library), the congestion
controllers, PCAP export, statistics and reports, the command line, the syntax of
the JSON files and the golden-test harness. They are input and output, or code
of other projects. (readme.md calls the interval of UDP traffic `interval_ms`; the
code reads `send_interval_ms`.)
