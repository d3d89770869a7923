---------------------------- MODULE PacketPacer ----------------------------
(***************************************************************************)
(* One link's pacer driven by the link's task (process_link_queue).  The   *)
(* task takes a packet, asks whether the link has room for it, sleeps for  *)
(* duration_until_can_send if not, and finally calls track_send.  Between  *)
(* the moment the pacer grants the packet and the send any amount of time  *)
(* may pass: the task then waits for the link or its node to come up, or   *)
(* yields to the tasks of cheaper links.                                   *)
(***************************************************************************)
EXTENDS Pacer

CONSTANTS PacketDelays,     \* transmission times of the packets offered
          MaxPacketDelay,   \* an upper bound of PacketDelays
          MaxTime           \* bound: the last instant of a behaviour

ASSUME PacketDelaysAssumption ==
  /\ MaxPacketDelay \in Nat
  /\ PacketDelays \subseteq 0 .. MaxPacketDelay
  /\ MaxTime \in Nat

VARIABLES now,      \* Instant::now()
          batch,    \* the pacer's batch
          task,     \* the link's task: [pc, d, wake]
          start,    \* history: when an observer started to count ...
          sent      \* ... the transmission time of all packets sent since

vars == <<now, batch, task, start, sent>>

TypeOK ==
  /\ now \in Nat
  /\ batch \in Batch
  /\ task \in [pc : {"idle", "waiting"}, d : Nat, wake : Nat]
  /\ start \in Nat
  /\ sent \in Nat

IdleTask == [pc |-> "idle", d |-> 0, wake |-> 0]

Init ==
  /\ now = 0
  /\ batch = NewBatch(0)
  /\ task = IdleTask
  /\ start = 0
  /\ sent = 0

\* The task takes a packet: has_bandwidth_available and, when there is no
\* room, the sleep of sleep_until_ready_to_send.
Take(d) ==
  /\ task.pc = "idle"
  /\ task' = [pc   |-> "waiting",
              d    |-> d,
              wake |-> now + DurationUntilCanSend(batch, now, d)]
  /\ batch' = Refresh(batch, now)
  /\ UNCHANGED <<now, start, sent>>

\* NetworkLink::send, at any time after the sleep elapsed
Send ==
  /\ task.pc = "waiting"
  /\ now >= task.wake
  /\ batch' = TrackSend(batch, now, task.d)
  /\ sent' = sent + task.d
  /\ task' = IdleTask
  /\ UNCHANGED <<now, start>>

Tick ==
  /\ now < MaxTime
  /\ now' = now + 1
  /\ UNCHANGED <<batch, task, start, sent>>

\* The observer starts over: it may pick any window of time.
StartCounting ==
  /\ start' = now
  /\ sent' = 0
  /\ UNCHANGED <<now, batch, task>>

Next ==
  \/ Tick
  \/ Send
  \/ StartCounting
  \/ \E d \in PacketDelays : Take(d)

Spec == Init /\ [][Next]_vars

----------------------------------------------------------------------------
\* The assertions of NetworkLink::send and PacketPacer::track_send never
\* fail: once the pacer granted a packet, or the sleep it asked for elapsed,
\* there is room for the packet at whatever later instant it is sent.
GrantHolds ==
  task.pc = "waiting" /\ now >= task.wake => CanSend(batch, now, task.d)

\* What may be sent ahead of time: a batch, or one packet longer than that
MaxBurst ==
  IF MaxPacketDelay < BATCH_MAX_DELAY THEN BATCH_MAX_DELAY ELSE MaxPacketDelay

\* The link keeps to its bandwidth in every window of time: the packets sent
\* in it need no more transmission time than the window has, plus one burst.
WithinBandwidth == sent <= (now - start) + MaxBurst

\* The sleep that sleep_until_ready_to_send asks for is never longer than one
\* burst: a packet at the head of the queue of a link that is up waits for no
\* more than what is on the wire.
BoundedWait == task.pc = "waiting" => task.wake <= now + MaxBurst

\* Strengthening of the above that every step preserves: the batch covers the
\* time of everything sent, is never longer than a burst, and a task that
\* still sleeps will find the batch sent.
PacerInv ==
  /\ TypeOK
  /\ start <= now
  /\ batch.created <= now
  /\ batch.delay <= MaxBurst
  /\ sent = 0 \/ sent <= SentAt(batch) - start
  /\ task.pc = "waiting" =>
       /\ task.d <= MaxPacketDelay
       /\ task.wake <= now + MaxBurst
       /\ \/ SentAt(batch) <= task.wake
          \/ batch.delay = 0
          \/ batch.delay + task.d < BATCH_MAX_DELAY
=============================================================================
