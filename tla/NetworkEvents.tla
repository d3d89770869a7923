--------------------------- MODULE NetworkEvents ---------------------------
(***************************************************************************)
(* The list of network events: how it is read                              *)
(* (quinn-workbench/src/config/network.rs), sorted, and turned into the    *)
(* initial status of every link and node                                   *)
(* (in-memory-network/src/network/event.rs).                               *)
(*                                                                         *)
(* An event is [time, kind, id, status, delay, clear_buffer]; a link       *)
(* ignores clear_buffer and a node ignores delay.  The properties that     *)
(* events cannot change (bandwidth, ratios) are left out: the code prints  *)
(* a warning for them.                                                     *)
(***************************************************************************)
EXTENDS Routing

\* RawNetworkEventJson: exactly one of link and node must be given ("" is None)
ReadEvent(raw) ==
  IF (raw.link = "") = (raw.node = "") THEN Error
  ELSE Ok([time   |-> raw.time,
           kind   |-> IF raw.node = "" THEN "link" ELSE "node",
           id     |-> IF raw.node = "" THEN raw.link ELSE raw.node,
           status |-> raw.status, delay |-> raw.delay,
           clear_buffer |-> raw.clear_buffer])

SortEvents(events) == StableSort(events, LAMBDA e, f : e.time < f.time)

Opposite(status) == IF status = "up" THEN "down" ELSE "up"

\* The first event of the list, in time, that changes the status of a link or node
FirstStatusEvent(sorted, kind, id) ==
  SelectInSeq(sorted, LAMBDA e : e.kind = kind /\ e.id = id /\ e.status # "unchanged")

\* A synthetic event
Synthetic(kind, id, status) ==
  [time |-> 0, kind |-> kind, id |-> id, status |-> status, delay |-> None,
   clear_buffer |-> FALSE]

\* The events whose id has not been seen before, in order
FirstOfEach(sorted, kind) ==
  SelectSeq([i \in DOMAIN sorted |-> <<i, sorted[i]>>],
    LAMBDA p : p[2].kind = kind /\ FirstStatusEvent(sorted, kind, p[2].id) = p[1])

\* Those without any status event are up from the start.
Quiet(ids, sorted, kind) ==
  LET quiet == SelectSeq(ids, LAMBDA id : FirstStatusEvent(sorted, kind, id) = 0)
  IN  [k \in DOMAIN quiet |-> Synthetic(kind, quiet[k], "up")]

\* get_initial_status_for_links_with_events: the opposite of the first status,
\* except that an event at time 0 is itself the initial event.
InitialLinkEvents(sorted, ids) ==
  LET first == FirstOfEach(sorted, "link")
  IN  [k \in DOMAIN first |->
         LET e == first[k][2]
         IN  IF e.time = 0 THEN e ELSE Synthetic("link", e.id, Opposite(e.status))]
      \o Quiet(ids, sorted, "link")

\* A bug: nodes with events start up.
StartUp(sorted, ids) == [k \in DOMAIN ids |-> Synthetic("node", ids[k], "up")]

\* get_initial_status_for_nodes_with_events: no exception for time 0
InitialNodeEvents(sorted, ids) ==
  LET first == FirstOfEach(sorted, "node")
  IN  [k \in DOMAIN first |->
         Synthetic("node", first[k][2].id, Opposite(first[k][2].status))]
      \o Quiet(ids, sorted, "node")
=============================================================================
