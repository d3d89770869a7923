------------------------------- MODULE Pacer -------------------------------
(***************************************************************************)
(* The arithmetic of PacketPacer and PacketBatch, the bandwidth limiter    *)
(* every NetworkLink owns (in-memory-network/src/network/link.rs).         *)
(*                                                                         *)
(* Time is counted in clock ticks.  A packet is represented by the time    *)
(* its bits occupy the link, the result of packet_delay(); the conversion  *)
(* from bytes and bits per second is the only thing left out.  A batch is  *)
(* the record [created, delay] of the code.                                *)
(***************************************************************************)
EXTENDS Integers

CONSTANT BATCH_MAX_DELAY    \* how much transmission time a batch may hold

ASSUME BatchMaxDelayAssumption == BATCH_MAX_DELAY \in Nat

Batch == [created : Nat, delay : Nat]

\* PacketPacer::new: an empty batch
NewBatch(t) == [created |-> t, delay |-> 0]

SentAt(b) == b.created + b.delay

\* A bug: the batch is reset one tick before its last bit is on the wire.
EarlyRefresh(b, t) == IF t + 1 >= SentAt(b) THEN NewBatch(t) ELSE b

\* The state change of update_and_check_has_room: a batch that got sent
\* already makes place for an empty one.  Every query performs it.
Refresh(b, t) == IF t - b.created >= b.delay THEN NewBatch(t) ELSE b

\* The answer of update_and_check_has_room.  An empty batch takes any packet,
\* however long; a non-empty one takes packets while it stays short enough.
HasRoom(b, t, d) ==
  LET r == Refresh(b, t)
  IN  \/ r.delay = 0
      \/ r.delay + d < BATCH_MAX_DELAY

CanSend(b, t, d) == HasRoom(b, t, d)

\* A bug: the wait is computed from the delay of the packet.
WaitForOwnDelay(b, t, d) == IF HasRoom(b, t, d) THEN 0 ELSE d

\* A bug: the instant the batch is sent is taken for the time until then.
WaitForSentAt(b, t, d) == IF HasRoom(b, t, d) THEN 0 ELSE SentAt(Refresh(b, t))

DurationUntilCanSend(b, t, d) ==
  IF HasRoom(b, t, d) THEN 0 ELSE SentAt(Refresh(b, t)) - t

\* A bug: a packet of the batch replaces what the batch already holds.
ForgetfulTrackSend(b, t, d) == [Refresh(b, t) EXCEPT !.delay = d]

\* track_send, after its assertion
TrackSend(b, t, d) ==
  LET r       == Refresh(b, t)
      elapsed == t - r.created
  IN  [r EXCEPT !.delay = (IF @ < elapsed THEN elapsed ELSE @) + d]
=============================================================================
