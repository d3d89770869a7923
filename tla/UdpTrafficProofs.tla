-------------------------- MODULE UdpTrafficProofs --------------------------
(***************************************************************************)
(* Proofs about UDP traffic, for every start, interval, duration and       *)
(* deadline, every number of pings and every behaviour of the network.     *)
(* VerdictInv is inductive: a verdict is written by whoever takes the ping *)
(* out of the map, and a deadline task watches every ping in the map.      *)
(* ReplyInv adds where the replies to a lost ping can be; PingScheduleInv  *)
(* and BatchScheduleInv say what each sender has sent and when it wakes,   *)
(* and the chunks of a batch add up to its bytes.                          *)
(***************************************************************************)
EXTENDS UdpTraffic, SumLemmas, TLAPS

LEMMA VerdictInit == UdpInit => VerdictInv
BY UdpAssumption
   DEF UdpInit, VerdictInv, VerdictTypeOK, OneVerdict, DeadlinesWatched, ReceivedInTime,
       Verdicts, Nrs, NoTime

\* A step that leaves pings and verdicts alone; deadline tasks of pings that
\* are no longer in flight may end.
LEMMA NothingDecided ==
  ASSUME VerdictInv,
         UNCHANGED <<now, ping_nr, sent_at, in_flight, log>>,
         deadlines' \subseteq deadlines, in_flight \subseteq deadlines'
  PROVE  VerdictInv'
BY DEF VerdictInv, VerdictTypeOK, OneVerdict, DeadlinesWatched, ReceivedInTime, Verdicts

\* A step that takes ping nr out of the map and writes a verdict on it.
LEMMA VerdictWritten ==
  ASSUME VerdictInv,
         NEW nr \in in_flight, NEW what \in {"LOST", "RECEIVED"},
         in_flight' = in_flight \ {nr},
         log' = Append(log, Verdict(nr, what)),
         UNCHANGED <<now, ping_nr, sent_at>>,
         deadlines' \subseteq deadlines, deadlines \ {nr} \subseteq deadlines'
  PROVE  VerdictInv'
<1> DEFINE v == Verdict(nr, what)
<1>1. /\ VerdictTypeOK /\ OneVerdict /\ DeadlinesWatched /\ ReceivedInTime
      /\ nr \in Nrs /\ nr < ping_nr /\ nr \in Nat /\ ping_nr \in Nat
  BY UdpAssumption DEF VerdictInv, VerdictTypeOK, OneVerdict, Nrs
<1>2. /\ v \in VerdictRecords
      /\ v.nr = nr /\ v.at = now
  BY <1>1 DEF VerdictTypeOK, Verdict, VerdictRecords
<1> HIDE DEF v
<1>3. /\ Len(log') = Len(log) + 1
      /\ \A i \in 1 .. Len(log) : log'[i] = log[i]
      /\ log'[Len(log) + 1] = v
      /\ log' \in Seq(VerdictRecords)
      /\ Len(log) \in Nat
  BY <1>1, <1>2 DEF VerdictTypeOK, v
<1>4. VerdictTypeOK'
  BY <1>1, <1>3 DEF VerdictTypeOK
<1>5. Verdicts(nr)' = {Len(log) + 1}
  <2>1. Verdicts(nr) = {}
    BY <1>1 DEF OneVerdict
  <2> QED
    BY <1>2, <1>3, <2>1 DEF Verdicts
<1>6. ASSUME NEW m \in Nrs, m # nr PROVE Verdicts(m)' = Verdicts(m)
  BY <1>2, <1>3, <1>6 DEF Verdicts
<1>7. OneVerdict'
  <2> SUFFICES ASSUME NEW m \in Nrs
               PROVE  /\ \A i, j \in Verdicts(m)' : i = j
                      /\ m < ping_nr => (m \in in_flight' <=> Verdicts(m)' = {})
                      /\ m >= ping_nr => m \notin in_flight' /\ Verdicts(m)' = {}
    BY DEF OneVerdict
  <2>1. CASE m = nr
    <3>1. ~(nr >= ping_nr) /\ nr \notin in_flight'
      BY <1>1
    <3> QED
      BY <1>5, <2>1, <3>1
  <2>2. CASE m # nr
    BY <1>1, <1>6, <2>2 DEF OneVerdict
  <2> QED
    BY <2>1, <2>2
<1>8. DeadlinesWatched'
  BY <1>1 DEF DeadlinesWatched
<1>9. ReceivedInTime'
  <2> SUFFICES ASSUME NEW i \in 1 .. Len(log')
               PROVE  log'[i].at <= sent_at[log'[i].nr] + Deadline
    BY DEF ReceivedInTime
  <2>1. CASE i \in 1 .. Len(log)
    BY <1>1, <1>3, <2>1 DEF ReceivedInTime
  <2>2. CASE i = Len(log) + 1
    BY <1>1, <1>2, <1>3, <2>2 DEF DeadlinesWatched
  <2> QED
    BY <1>3, <2>1, <2>2
<1> QED
  BY <1>4, <1>7, <1>8, <1>9 DEF VerdictInv

\* A new ping has a number of its own and is not yet late.
LEMMA PingSent == VerdictInv /\ send_ping => VerdictInv'
<1> SUFFICES ASSUME VerdictInv, send_ping PROVE VerdictInv'
  OBVIOUS
<1>1. /\ ping_nr \in Nrs /\ ping_nr' = ping_nr + 1
      /\ sent_at' = [sent_at EXCEPT ![ping_nr] = now]
      /\ in_flight' = in_flight \union {ping_nr}
      /\ deadlines' = deadlines \union {ping_nr}
      /\ UNCHANGED <<now, log>>
  BY DEF send_ping, track_ping
<1>2. /\ now \in Nat /\ ping_nr \in Nat /\ Nrs \subseteq Nat /\ Deadline \in Nat
      /\ VerdictTypeOK /\ OneVerdict /\ DeadlinesWatched /\ ReceivedInTime
  BY UdpAssumption DEF VerdictInv, VerdictTypeOK, Nrs
<1>3. VerdictTypeOK'
  BY <1>1, <1>2 DEF VerdictTypeOK
<1>4. \A nr \in Nrs : Verdicts(nr)' = Verdicts(nr)
  BY <1>1 DEF Verdicts
<1>5. OneVerdict'
  BY <1>1, <1>2, <1>4 DEF OneVerdict
<1>6. sent_at'[ping_nr] = now /\ \A nr \in Nrs : nr < ping_nr => sent_at'[nr] = sent_at[nr]
  BY <1>1, <1>2 DEF VerdictTypeOK
<1>7. DeadlinesWatched'
  <2>1. \A nr \in in_flight : nr \in Nrs /\ nr < ping_nr
    BY <1>2 DEF VerdictTypeOK, OneVerdict
  <2>2. \A nr \in deadlines : nr \in Nrs /\ nr < ping_nr
    BY <1>2 DEF VerdictTypeOK, DeadlinesWatched
  <2>3. \A nr \in Nrs : nr < ping_nr' => sent_at'[nr] \in Nat
    <3> SUFFICES ASSUME NEW nr \in Nrs, nr < ping_nr + 1 PROVE sent_at'[nr] \in Nat
      BY <1>1
    <3>1. nr \in Nat /\ (nr < ping_nr \/ nr = ping_nr)
      BY <1>2
    <3> QED
      BY <1>2, <1>6, <3>1 DEF DeadlinesWatched
  <2>4. \A nr \in deadlines' : nr < ping_nr'
    <3> SUFFICES ASSUME NEW nr \in deadlines \union {ping_nr} PROVE nr < ping_nr + 1
      BY <1>1
    <3>1. nr \in Nat /\ (nr < ping_nr \/ nr = ping_nr)
      BY <1>2, <2>2
    <3> QED
      BY <1>2, <3>1
  <2>5. \A nr \in in_flight' : nr \in deadlines' /\ now' <= sent_at'[nr] + Deadline
    <3>1. now <= sent_at'[ping_nr] + Deadline
      BY <1>2, <1>6
    <3> QED
      BY <1>1, <1>2, <1>6, <2>1, <3>1 DEF DeadlinesWatched
  <2> QED
    BY <2>3, <2>4, <2>5 DEF DeadlinesWatched
<1>8. ReceivedInTime'
  <2> SUFFICES ASSUME NEW i \in 1 .. Len(log)
               PROVE  log[i].at <= sent_at'[log[i].nr] + Deadline
    BY <1>1 DEF ReceivedInTime
  <2>1. log[i].nr \in Nrs
    <3>1. log \in Seq(VerdictRecords)
      BY DEF VerdictInv, VerdictTypeOK
    <3>2. log[i] \in VerdictRecords
      BY <3>1
    <3> QED
      BY <3>2 DEF VerdictRecords
  <2>2. i \in Verdicts(log[i].nr)
    BY DEF Verdicts
  <2>3. log[i].nr < ping_nr
    <3>1. ~(log[i].nr >= ping_nr)
      BY <1>2, <2>1, <2>2 DEF OneVerdict
    <3>2. log[i].nr \in Nat
      BY <1>2, <2>1
    <3> QED
      BY <1>2, <3>1, <3>2
  <2> QED
    BY <1>2, <1>6, <2>1, <2>3 DEF ReceivedInTime
<1> QED
  BY <1>3, <1>5, <1>7, <1>8 DEF VerdictInv

\* The clock does not move while a deadline is over.
LEMMA TimePasses == VerdictInv /\ Tick => VerdictInv'
<1> SUFFICES ASSUME VerdictInv, Tick PROVE VerdictInv'
  OBVIOUS
<1>1. /\ now' = now + 1 /\ now \in Nat /\ Deadline \in Nat
      /\ UNCHANGED <<ping_nr, sent_at, in_flight, deadlines, log>>
      /\ \A nr \in deadlines : ~(now >= sent_at[nr] + Deadline)
  BY UdpAssumption DEF Tick, pingVars, TaskReady, DeadlineOver, VerdictInv, VerdictTypeOK
<1>2. \A nr \in in_flight : now' <= sent_at[nr] + Deadline
  <2> SUFFICES ASSUME NEW nr \in in_flight PROVE now + 1 <= sent_at[nr] + Deadline
    BY <1>1
  <2>1. nr \in deadlines /\ sent_at[nr] \in Nat
    BY UdpAssumption DEF VerdictInv, VerdictTypeOK, DeadlinesWatched
  <2> QED
    BY <1>1, <2>1
<1> QED
  BY <1>1, <1>2
     DEF VerdictInv, VerdictTypeOK, OneVerdict, DeadlinesWatched, ReceivedInTime, Verdicts

LEMMA VerdictStep == VerdictInv /\ [UdpNext]_vars => VerdictInv'
<1> SUFFICES ASSUME VerdictInv, [UdpNext]_vars PROVE VerdictInv'
  OBVIOUS
<1> DEFINE undecided == UNCHANGED <<now, ping_nr, sent_at, in_flight, deadlines, log>>
<1>1. in_flight \subseteq deadlines
  BY DEF VerdictInv, DeadlinesWatched
<1>2. CASE undecided
  BY <1>1, <1>2, NothingDecided
<1>3. CASE send_ping
  BY <1>3, PingSent
<1>4. ASSUME NEW nr \in Nrs, deadline_passes(nr) PROVE VerdictInv'
  <2>1. /\ deadlines' = deadlines \ {nr} /\ in_flight' = in_flight \ {nr}
        /\ log' = IF nr \in in_flight THEN Append(log, Verdict(nr, "LOST")) ELSE log
        /\ UNCHANGED <<now, ping_nr, sent_at>>
    BY <1>4 DEF deadline_passes, Expire
  <2>2. CASE nr \in in_flight
    BY <2>1, <2>2, VerdictWritten
  <2>3. CASE nr \notin in_flight
    BY <1>1, <2>1, <2>3, NothingDecided
  <2> QED
    BY <2>2, <2>3
<1>5. CASE receive_reply
  <2> DEFINE nr == Head(client_inbox)
  <2>1. /\ UNCHANGED <<now, ping_nr, sent_at, deadlines>>
        /\ in_flight' = in_flight \ {nr}
        /\ log' = IF nr \in in_flight THEN Append(log, Verdict(nr, "RECEIVED")) ELSE log
    BY <1>5 DEF receive_reply, TakeReply
  <2> HIDE DEF nr
  <2>2. CASE nr \in in_flight
    BY <2>1, <2>2, VerdictWritten
  <2>3. CASE nr \notin in_flight
    BY <1>1, <2>1, <2>3, NothingDecided
  <2> QED
    BY <2>2, <2>3
<1>6. CASE Tick
  BY <1>6, TimePasses
<1>7. CASE sender_starts \/ sender_done \/ receiver_stops \/ echo
  BY <1>2, <1>7 DEF sender_starts, sender_done, receiver_stops, echo, pingVars
<1>8. ASSUME NEW nr \in Nrs, deliver_ping(nr) \/ deliver_reply(nr) PROVE VerdictInv'
  BY <1>2, <1>8 DEF deliver_ping, deliver_reply, pingVars
<1>9. CASE udp_starts \/ udp_sends \/ drive
  BY <1>2, <1>9 DEF udp_starts, udp_sends, drive, pingVars
<1>10. CASE UNCHANGED vars
  BY <1>2, <1>10 DEF vars, pingVars
<1> QED
  BY <1>3, <1>4, <1>5, <1>6, <1>7, <1>8, <1>9, <1>10 DEF UdpNext, PingTasks

LEMMA VerdictInvariant == UdpSpec => []VerdictInv
<1>1. VerdictInv /\ [UdpNext]_vars => VerdictInv'
  BY VerdictStep
<1> QED
  BY <1>1, VerdictInit, PTL DEF UdpSpec

\* A ping is reported at most once, as received or as lost, and stays in the
\* map of pings in flight until then: for every deadline and interval, however
\* the network duplicates replies or lets them race with the deadline
\* (ping.rs, the deadline task and the receiver).
THEOREM PingsJudgedOnce == UdpSpec => []OneVerdict
<1>1. VerdictInv => OneVerdict
  BY DEF VerdictInv
<1> QED
  BY <1>1, VerdictInvariant, PTL

\* No verdict is written after the deadline of its ping, so a ping that is
\* reported as received was answered in time (ping.rs, the deadline task).
THEOREM VerdictsInTime == UdpSpec => []ReceivedInTime
<1>1. VerdictInv => ReceivedInTime
  BY DEF VerdictInv
<1> QED
  BY <1>1, VerdictInvariant, PTL

----------------------------------------------------------------------------
(* The schedules of both patterns *)

\* The number of intervals of length b that start in a duration a
LEMMA CeilIs ==
  ASSUME NEW a \in Nat, NEW b \in Nat \ {0}, NEW n \in Nat,
         n * b >= a, n > 0 => (n - 1) * b < a
  PROVE  n = Ceil(a, b)
<1>1. PICK d, r : d = (a + b - 1) \div b /\ r = (a + b - 1) % b
  OBVIOUS
<1>2. d \in Int /\ r \in 0 .. b - 1 /\ a + b - 1 = d * b + r
  BY <1>1
<1>3. ASSUME n > d PROVE FALSE
  <2>1. (n - 1) * b >= d * b
    BY <1>2, <1>3
  <2> QED
    BY <1>2, <1>3, <2>1
<1>4. ASSUME n < d PROVE FALSE
  <2>1. (n + 1) * b <= d * b
    BY <1>2, <1>4
  <2>2. (n + 1) * b = n * b + b
    OBVIOUS
  <2> QED
    BY <1>2, <2>1, <2>2
<1> QED
  BY <1>1, <1>2, <1>3, <1>4 DEF Ceil

LEMMA NextMultiple == \A n \in Nat, b \in Nat : (n + 1) * b = n * b + b
OBVIOUS

LEMMA PingScheduleStep == PingScheduleInv /\ [UdpNext]_vars => PingScheduleInv'
<1> SUFFICES ASSUME PingScheduleInv, [UdpNext]_vars PROVE PingScheduleInv'
  OBVIOUS
<1> USE UdpAssumption
<1>1. CASE UNCHANGED <<now, driver, pc, wake, ping_start, ping_nr, sent_at>>
  BY <1>1 DEF PingScheduleInv, PingsOnSchedule
<1>2. CASE sender_starts
  <2>1. now = StartAt /\ 0 * Interval = 0
    BY <1>2 DEF sender_starts, Awake, PingScheduleInv
  <2> QED
    BY <1>2, <2>1 DEF sender_starts, PingScheduleInv, PingsOnSchedule
<1>3. CASE send_ping
  <2>1. now = StartAt + ping_nr * Interval /\ ping_nr * Interval \in Nat /\ wake = now
    BY <1>3 DEF send_ping, Awake, PingScheduleInv
  <2>2. ping_nr * Interval < Duration
    BY <1>3, <2>1 DEF send_ping, SendingTime, PingScheduleInv
  <2>3. (ping_nr + 1) * Interval = ping_nr * Interval + Interval
    BY NextMultiple DEF PingScheduleInv
  <2>4. /\ ping_nr \in Nrs /\ ping_nr' = ping_nr + 1
        /\ sent_at' = [sent_at EXCEPT ![ping_nr] = now]
        /\ wake' = now + Interval /\ pc = "sending"
        /\ UNCHANGED <<now, driver, pc, ping_start>>
    BY <1>3 DEF send_ping, track_ping
  <2>5. ASSUME NEW nr \in Nrs, nr < ping_nr' PROVE sent_at'[nr] = StartAt + nr * Interval
    BY <2>1, <2>4, <2>5 DEF PingScheduleInv, PingsOnSchedule, Nrs
  <2> QED
    BY <2>1, <2>2, <2>3, <2>4, <2>5 DEF PingScheduleInv, PingsOnSchedule
<1>4. CASE sender_done
  <2>1. now = StartAt + ping_nr * Interval /\ ping_nr * Interval \in Nat
    BY <1>4 DEF sender_done, Awake, PingScheduleInv
  <2>2. ping_nr * Interval >= Duration
    BY <1>4, <2>1 DEF sender_done, SendingTime, PingScheduleInv
  <2>3. ping_nr = Ceil(Duration, Interval)
    BY <1>4, <2>2, CeilIs DEF sender_done, PingScheduleInv
  <2> QED
    BY <1>4, <2>3 DEF sender_done, PingScheduleInv, PingsOnSchedule
<1>5. CASE drive
  BY <1>5 DEF drive, joins, pingVars, PingScheduleInv, PingsOnSchedule
<1>6. CASE Tick
  BY <1>6 DEF Tick, TaskReady, Awake, pingVars, PingScheduleInv, PingsOnSchedule
<1> QED
  BY <1>1, <1>2, <1>3, <1>4, <1>5, <1>6
     DEF UdpNext, PingTasks, receive_reply, receiver_stops, echo, deadline_passes, deliver_ping,
         deliver_reply, udp_starts, udp_sends, vars, pingVars

LEMMA BatchScheduleStep == BatchScheduleInv /\ [UdpNext]_vars => BatchScheduleInv'
<1> SUFFICES ASSUME BatchScheduleInv, [UdpNext]_vars PROVE BatchScheduleInv'
  OBVIOUS
<1> USE UdpAssumption
<1>1. CASE UNCHANGED <<now, udp>>
  BY <1>1 DEF BatchScheduleInv, BatchesOnSchedule
<1>2. CASE udp_starts
  <2>1. now = UdpStartAt /\ 0 * UdpInterval = 0
    BY <1>2 DEF udp_starts, UdpAwake, BatchScheduleInv
  <2> QED
    BY <1>2, <2>1 DEF udp_starts, BatchScheduleInv, BatchesOnSchedule
<1>3. CASE udp_sends
  <2>1. /\ now = UdpStartAt + udp.batches * UdpInterval /\ udp.batches * UdpInterval \in Nat
        /\ udp.wake = now /\ udp.start = UdpStartAt
    BY <1>3 DEF udp_sends, UdpAwake, BatchScheduleInv
  <2>2. CASE now - udp.start < UdpDuration
    <3>1. udp.batches * UdpInterval < UdpDuration
      BY <2>1, <2>2
    <3>2. /\ (udp.batches + 1) * UdpInterval = udp.batches * UdpInterval + UdpInterval
          /\ (udp.batches + 1) * Payload = udp.batches * Payload + Payload
      BY NextMultiple DEF BatchScheduleInv
    <3>3. udp' = [udp EXCEPT !.wake = now + UdpInterval, !.batches = @ + 1,
                             !.packets = @ + CountChunks(Payload), !.bytes = @ + Payload]
      BY <1>3, <2>2 DEF udp_sends
    <3>4. /\ udp'.wake = now + UdpInterval /\ udp'.batches = udp.batches + 1
          /\ udp'.bytes = udp.bytes + Payload /\ udp'.pc = udp.pc /\ udp'.start = udp.start
          /\ DOMAIN udp' = DOMAIN udp /\ now' = now /\ udp.pc = "sending"
      BY <1>3, <3>3 DEF udp_sends, BatchScheduleInv
    <3>5. /\ now' \in Nat /\ now' = now
          /\ {udp'.wake, udp'.start, udp'.batches, udp'.bytes} \subseteq Nat
          /\ udp'.batches > 0 /\ udp'.batches - 1 = udp.batches
      <4>1. now \in Nat /\ {udp.wake, udp.start, udp.batches, udp.bytes} \subseteq Nat
        BY DEF BatchScheduleInv
      <4>2. now + UdpInterval \in Nat /\ udp.bytes + Payload \in Nat /\ udp.batches + 1 \in Nat
        BY <4>1
      <4>3. udp'.wake \in Nat /\ udp'.start \in Nat /\ udp'.batches \in Nat /\ udp'.bytes \in Nat
        BY <3>4, <4>1, <4>2
      <4>4. udp'.batches > 0 /\ udp'.batches - 1 = udp.batches
        BY <3>4, <4>1
      <4> QED
        BY <3>4, <4>1, <4>3, <4>4
    <3>6. udp'.wake = UdpStartAt + udp'.batches * UdpInterval /\ now <= udp'.wake
      BY <2>1, <3>2, <3>4
    <3>7. udp'.bytes = udp'.batches * Payload
      BY <3>2, <3>4 DEF BatchScheduleInv, BatchesOnSchedule
    <3>8. (udp'.batches - 1) * UdpInterval < UdpDuration
      BY <3>1, <3>5
    <3> QED
      BY <2>1, <3>4, <3>5, <3>6, <3>7, <3>8, Zenon DEF BatchScheduleInv, BatchesOnSchedule
  <2>3. CASE ~(now - udp.start < UdpDuration)
    <3>1. udp.batches * UdpInterval >= UdpDuration
      BY <2>1, <2>3
    <3>2. udp.batches = Ceil(UdpDuration, UdpInterval)
      BY <1>3, <3>1, CeilIs DEF udp_sends, BatchScheduleInv
    <3> QED
      BY <1>3, <2>3, <3>2 DEF udp_sends, BatchScheduleInv, BatchesOnSchedule
  <2> QED
    BY <2>2, <2>3
<1>4. CASE Tick
  BY <1>4 DEF Tick, TaskReady, UdpAwake, BatchScheduleInv, BatchesOnSchedule
<1> QED
  BY <1>1, <1>2, <1>3, <1>4
     DEF UdpNext, PingTasks, sender_starts, send_ping, sender_done, receive_reply, receiver_stops,
         echo, deadline_passes, deliver_ping, deliver_reply, drive, vars

\* For every interval and duration, the pings are sent at StartAt, StartAt +
\* Interval, ..., exactly ceil(Duration / Interval) of them, before the
\* simulation ends.
THEOREM PingsSentOnSchedule == UdpSpec => []PingsOnSchedule
<1>1. UdpInit => PingScheduleInv
  BY UdpAssumption DEF UdpInit, PingScheduleInv, PingsOnSchedule, NoTime, Nrs
<1>2. PingScheduleInv => PingsOnSchedule
  BY DEF PingScheduleInv
<1> QED
  BY <1>1, <1>2, PingScheduleStep, PTL DEF UdpSpec

\* For every interval and duration, one-direction traffic sends exactly
\* ceil(duration / interval) batches, each with the whole payload.
THEOREM BatchesSentOnSchedule == UdpSpec => []BatchesOnSchedule
<1>1. UdpInit => BatchScheduleInv
  BY UdpAssumption DEF UdpInit, BatchScheduleInv, BatchesOnSchedule
<1>2. BatchScheduleInv => BatchesOnSchedule
  BY DEF BatchScheduleInv
<1> QED
  BY <1>1, <1>2, BatchScheduleStep, PTL DEF UdpSpec

----------------------------------------------------------------------------
(* The packets of a payload *)

\* The equation that defines the number of packets
ChunksEquation(f) ==
  f = [k \in Nat |-> IF k = 0 THEN 0 ELSE 1 + f[k - Min2(k, PAYLOAD_CHUNK_SIZE_BYTES)]]

LEMMA CeilType ==
  ASSUME NEW a \in Nat, NEW b \in Nat \ {0}
  PROVE  Ceil(a, b) \in Nat
<1>1. PICK d, r : d = (a + b - 1) \div b /\ r = (a + b - 1) % b
  OBVIOUS
<1>2. d \in Int /\ r \in 0 .. b - 1 /\ a + b - 1 = d * b + r
  BY <1>1
<1>3. ASSUME d < 0 PROVE FALSE
  <2>1. d * b <= (-1) * b
    BY <1>2, <1>3
  <2> QED
    BY <1>2, <2>1
<1> QED
  BY <1>1, <1>2, <1>3 DEF Ceil

LEMMA CeilStep ==
  ASSUME NEW k \in Nat, NEW b \in Nat \ {0}
  PROVE  Ceil(k, b) = IF k = 0 THEN 0 ELSE 1 + Ceil(k - Min2(k, b), b)
<1>1. CASE k = 0
  <2>1. 0 * b >= 0
    OBVIOUS
  <2>2. 0 = Ceil(0, b)
    BY <2>1, CeilIs
  <2> QED
    BY <1>1, <2>2
<1>2. CASE k # 0 /\ k < b
  <2>1. Min2(k, b) = k /\ k - k = 0
    BY <1>2 DEF Min2
  <2>2. 0 = Ceil(0, b)
    BY CeilIs
  <2>3. 1 * b >= k /\ (1 - 1) * b < k
    BY <1>2
  <2>4. 1 = Ceil(k, b)
    BY <2>3, CeilIs
  <2> QED
    BY <1>2, <2>1, <2>2, <2>4
<1>3. CASE k # 0 /\ k >= b
  <2>1. Min2(k, b) = b /\ k - b \in Nat
    BY <1>3 DEF Min2
  <2>2. PICK d, r : d = (k + b - 1) \div b /\ r = (k + b - 1) % b
    OBVIOUS
  <2>3. d \in Int /\ r \in 0 .. b - 1 /\ k + b - 1 = d * b + r
    BY <2>2
  <2>4. d \in Nat /\ d - 1 \in Nat
    <3>1. ASSUME d < 1 PROVE FALSE
      <4>1. d * b <= 0
        BY <2>3, <3>1
      <4> QED
        BY <1>3, <2>3, <4>1
    <3> QED
      BY <2>3, <3>1
  <2>5. (d - 1) * b = d * b - b /\ (d - 2) * b = d * b - b - b
    BY <2>3
  <2>6. (d - 1) * b >= k - b
    BY <2>3, <2>5
  <2>7. d - 1 > 0 => (d - 1 - 1) * b < k - b
    <3>1. d - 1 - 1 = d - 2
      BY <2>3
    <3>2. d * b - b - b < k - b
      BY <2>3
    <3> QED
      BY <2>5, <3>1, <3>2
  <2>8. d - 1 = Ceil(k - b, b)
    BY <2>1, <2>4, <2>6, <2>7, CeilIs
  <2> QED
    BY <1>3, <2>1, <2>2, <2>4, <2>8 DEF Ceil
<1> QED
  BY <1>1, <1>2, <1>3

LEMMA ChunksSolution ==
  ASSUME NEW f, ChunksEquation(f), NEW p \in Nat
  PROVE  f[p] = Ceil(p, PAYLOAD_CHUNK_SIZE_BYTES)
<1> DEFINE C == PAYLOAD_CHUNK_SIZE_BYTES
           T == {k \in Nat : f[k] # Ceil(k, C)}
<1> SUFFICES ASSUME T # {} PROVE FALSE
  OBVIOUS
<1>1. PICK x \in T : \A y \in T : x <= y
  BY LeastNatural
<1>2. PICK y : y = x - Min2(x, C)
  OBVIOUS
<1>3. x # 0 => y \in Nat /\ y < x
  BY <1>2, UdpAssumption DEF Min2
<1>4. x # 0 => f[y] = Ceil(y, C)
  BY <1>1, <1>3
<1>5. f[x] = IF x = 0 THEN 0 ELSE 1 + f[y]
  BY <1>2 DEF ChunksEquation
<1>6. Ceil(x, C) = IF x = 0 THEN 0 ELSE 1 + Ceil(y, C)
  BY <1>2, UdpAssumption, CeilStep
<1> QED
  BY <1>4, <1>5, <1>6

\* The loop that cuts a payload into chunks makes ceil(payload / chunk) packets
\* of it, for every payload and chunk size.
LEMMA ChunksAreCeil ==
  ASSUME NEW p \in Nat
  PROVE  CountChunks(p) = Ceil(p, PAYLOAD_CHUNK_SIZE_BYTES)
<1> DEFINE C == PAYLOAD_CHUNK_SIZE_BYTES
<1>1. PICK f : f = [k \in Nat |-> Ceil(k, C)]
  OBVIOUS
<1>2. ASSUME NEW k \in Nat
      PROVE  Ceil(k, C) = IF k = 0 THEN 0 ELSE 1 + f[k - Min2(k, C)]
  <2>1. k - Min2(k, C) \in Nat
    BY UdpAssumption DEF Min2
  <2> QED
    BY <1>1, <2>1, UdpAssumption, CeilStep
<1>3. ChunksEquation(f)
  BY <1>1, <1>2 DEF ChunksEquation
<1>4. PICK g : CountChunks(p) = g[p] /\ g = CHOOSE h : ChunksEquation(h)
  BY DEF CountChunks, ChunksEquation
<1>5. ChunksEquation(g)
  BY <1>3, <1>4
<1> QED
  BY <1>4, <1>5, ChunksSolution

PacketInv == BatchScheduleInv /\ udp.packets = udp.batches * Ceil(Payload, PAYLOAD_CHUNK_SIZE_BYTES)

LEMMA PacketStep == PacketInv /\ [UdpNext]_vars => PacketInv'
<1> SUFFICES ASSUME PacketInv, [UdpNext]_vars PROVE PacketInv'
  OBVIOUS
<1>1. PICK n : n = Ceil(Payload, PAYLOAD_CHUNK_SIZE_BYTES)
  OBVIOUS
<1>2. n \in Nat /\ CountChunks(Payload) = n
  BY <1>1, UdpAssumption, CeilType, ChunksAreCeil
<1>3. BatchScheduleInv'
  BY BatchScheduleStep DEF PacketInv
<1>4. udp'.packets = udp'.batches * n
  <2>1. CASE udp_sends
    <3>1. CASE now - udp.start < UdpDuration
      <4>1. /\ udp'.packets = udp.packets + n
            /\ udp'.batches = udp.batches + 1
        BY <1>2, <2>1, <3>1 DEF udp_sends, PacketInv, BatchScheduleInv
      <4>2. udp.batches \in Nat
        BY DEF PacketInv, BatchScheduleInv
      <4>3. (udp.batches + 1) * n = udp.batches * n + n
        BY <1>2, <4>2, NextMultiple
      <4>4. udp.packets = udp.batches * n
        BY <1>1 DEF PacketInv
      <4> QED
        BY <4>1, <4>3, <4>4
    <3>2. CASE ~(now - udp.start < UdpDuration)
      BY <1>1, <2>1, <3>2 DEF udp_sends, PacketInv, BatchScheduleInv
    <3> QED
      BY <3>1, <3>2
  <2>2. CASE udp_starts
    BY <1>1, <2>2 DEF udp_starts, PacketInv, BatchScheduleInv
  <2>3. CASE udp' = udp
    BY <1>1, <2>3 DEF PacketInv
  <2> QED
    BY <2>1, <2>2, <2>3
       DEF UdpNext, PingTasks, sender_starts, send_ping, sender_done, receive_reply,
           receiver_stops, echo, deadline_passes, deliver_ping, deliver_reply, drive, Tick, vars
<1> QED
  BY <1>1, <1>3, <1>4 DEF PacketInv

\* For every interval, duration, payload and chunk size: the pings and the
\* batches are sent on schedule, as many as announced, and the loop over the
\* pending bytes cuts every payload into ceil(payload / chunk) packets.
THEOREM TrafficSentOnSchedule == UdpSpec => []TrafficOnSchedule
<1>1. UdpInit => PacketInv
  <2> SUFFICES ASSUME UdpInit PROVE PacketInv
    OBVIOUS
  <2>1. BatchScheduleInv
    BY UdpAssumption DEF UdpInit, BatchScheduleInv, BatchesOnSchedule
  <2>2. Ceil(Payload, PAYLOAD_CHUNK_SIZE_BYTES) \in Nat
    BY UdpAssumption, CeilType
  <2>3. udp.packets = 0 /\ udp.batches = 0
    BY DEF UdpInit
  <2> QED
    BY <2>1, <2>2, <2>3 DEF PacketInv
<1>2. PingsOnSchedule /\ PacketInv => TrafficOnSchedule
  BY DEF PacketInv, BatchScheduleInv, TrafficOnSchedule
<1> QED
  BY <1>1, <1>2, PacketStep, PingsSentOnSchedule, PTL DEF UdpSpec

----------------------------------------------------------------------------
(* Lost pings *)

\* What ReplyInv says of a verdict
LostRightly(v) ==
  v.what = "LOST" =>
    /\ now >= sent_at[v.nr] + Deadline
    /\ \/ arrived[v.nr] = NoTime
       \/ arrived[v.nr] >= sent_at[v.nr] + Deadline
       \/ pc = "done" /\ arrived[v.nr] >= wake

LEMMA ReplyParts ==
  ReplyInv <=> RepliesKnown /\ RepliesRead /\ \A i \in 1 .. Len(log) : LostRightly(log[i])
BY DEF ReplyInv, LostMeansLate, LostRightly

LEMMA ReplyPartsNext ==
  (ReplyInv <=> RepliesKnown /\ RepliesRead /\ \A i \in 1 .. Len(log) : LostRightly(log[i]))'
BY ReplyParts, PTL

\* Verdicts are about pings that were sent.
LEMMA JudgedPings ==
  ASSUME VerdictInv
  PROVE  /\ \A i \in 1 .. Len(log) : /\ log[i] \in VerdictRecords /\ log[i].nr \in Nrs
                                     /\ log[i].nr < ping_nr /\ sent_at[log[i].nr] \in Nat
         /\ \A nr \in in_flight : nr \in Nrs /\ nr < ping_nr /\ sent_at[nr] \in Nat
         /\ now \in Nat /\ ping_nr \in Nat /\ Deadline \in Nat /\ Nrs \subseteq Nat
         /\ sent_at \in [Nrs -> Nat \union {NoTime}]
<1>1. /\ VerdictTypeOK /\ OneVerdict /\ DeadlinesWatched
      /\ Deadline \in Nat /\ MaxPings \in Nat
  BY UdpAssumption DEF VerdictInv
<1>2. ASSUME NEW i \in 1 .. Len(log)
      PROVE  log[i] \in VerdictRecords /\ log[i].nr \in Nrs /\ log[i].nr < ping_nr
  <2>1. log[i] \in VerdictRecords
    BY <1>1 DEF VerdictTypeOK
  <2>2. log[i].nr \in Nrs
    BY <2>1 DEF VerdictRecords
  <2>3. Verdicts(log[i].nr) # {}
    BY DEF Verdicts
  <2>4. ~(log[i].nr >= ping_nr)
    BY <1>1, <2>2, <2>3 DEF OneVerdict
  <2> QED
    BY <1>1, <2>1, <2>2, <2>4 DEF VerdictTypeOK, Nrs
<1>3. ASSUME NEW nr \in in_flight PROVE nr \in Nrs /\ nr < ping_nr
  BY <1>1 DEF VerdictTypeOK, DeadlinesWatched
<1> QED
  BY <1>1, <1>2, <1>3 DEF VerdictTypeOK, DeadlinesWatched, Nrs

\* A verdict stays right while time passes and the sender goes on, ...
LEMMA VerdictsStayRight ==
  ASSUME VerdictInv, ReplyInv, now' \in Nat, now' >= now,
         pc = "done" => pc' = "done" /\ wake' = wake,
         \A nr \in Nrs : nr < ping_nr => sent_at'[nr] = sent_at[nr],
         \A nr \in Nrs : arrived'[nr] = arrived[nr] \/ (arrived[nr] = NoTime /\ arrived'[nr] = now),
         NEW i \in 1 .. Len(log), NEW v, v = log[i]
  PROVE  LostRightly(v)'
<1>1. LostRightly(v)
  BY ReplyParts
<1>2. v.nr \in Nrs /\ v.nr < ping_nr /\ sent_at[v.nr] \in Nat /\ now \in Nat /\ Deadline \in Nat
  BY JudgedPings
<1>3. sent_at'[v.nr] = sent_at[v.nr]
  BY <1>2
<1> QED
  BY <1>1, <1>2, <1>3 DEF LostRightly

\* ... and so does the log when nothing is added to it.
LEMMA LogStaysRight ==
  ASSUME VerdictInv, ReplyInv, now' \in Nat, now' >= now,
         pc = "done" => pc' = "done" /\ wake' = wake,
         \A nr \in Nrs : nr < ping_nr => sent_at'[nr] = sent_at[nr],
         \A nr \in Nrs : arrived'[nr] = arrived[nr] \/ (arrived[nr] = NoTime /\ arrived'[nr] = now),
         log' = log
  PROVE  (\A i \in 1 .. Len(log) : LostRightly(log[i]))'
<1> SUFFICES ASSUME NEW i \in 1 .. Len(log') PROVE LostRightly(log[i])'
  OBVIOUS
<1>1. PICK v : v = log[i]
  OBVIOUS
<1>2. LostRightly(v)' /\ i \in 1 .. Len(log)
  BY <1>1, VerdictsStayRight
<1> QED
  BY <1>1, <1>2 DEF LostRightly

\* Whoever takes ping nr out of the map writes a verdict that is right.
LEMMA NewVerdictRight ==
  ASSUME VerdictInv, ReplyInv, NEW nr \in Nrs, NEW what \in {"LOST", "RECEIVED"},
         UNCHANGED <<now, pc, wake, sent_at, arrived>>,
         what = "LOST" => now >= sent_at[nr] + Deadline,
         log' = IF nr \in in_flight THEN Append(log, Verdict(nr, what)) ELSE log
  PROVE  (\A i \in 1 .. Len(log) : LostRightly(log[i]))'
<1>1. CASE nr \notin in_flight
  <2>1. now' \in Nat /\ now' >= now
    BY JudgedPings
  <2> QED
    BY <1>1, <2>1, LogStaysRight
<1>2. CASE nr \in in_flight
  <2>1. PICK v : v = Verdict(nr, what)
    OBVIOUS
  <2>2. v.nr = nr /\ v.what = what /\ v \in VerdictRecords /\ log \in Seq(VerdictRecords)
    BY <2>1, JudgedPings DEF Verdict, VerdictRecords, VerdictInv, VerdictTypeOK
  <2>3. LostRightly(v)'
    <3>1. /\ sent_at[nr] \in Nat /\ now \in Nat /\ Deadline \in Nat
          /\ arrived[nr] \in Nat \union {NoTime}
      BY <1>2, JudgedPings DEF ReplyInv, RepliesKnown
    <3>2. \/ arrived[nr] = NoTime \/ arrived[nr] = now
          \/ pc = "done" /\ arrived[nr] >= wake
      BY <1>2 DEF ReplyInv, RepliesRead
    <3> QED
      BY <2>2, <3>1, <3>2 DEF LostRightly
  <2>4. ASSUME NEW i \in 1 .. Len(log') PROVE LostRightly(log[i])'
    <3>1. CASE i \in 1 .. Len(log)
      <4>1. PICK w : w = log[i]
        OBVIOUS
      <4>2. now' \in Nat /\ now' >= now
        BY JudgedPings
      <4>3. LostRightly(w)'
        BY <3>1, <4>1, <4>2, VerdictsStayRight
      <4>4. log'[i] = w
        BY <1>2, <2>1, <2>2, <3>1, <4>1
      <4> QED
        BY <4>3, <4>4 DEF LostRightly
    <3>2. CASE i = Len(log) + 1
      <4>1. log'[i] = v
        BY <1>2, <2>1, <2>2, <3>2
      <4> QED
        BY <2>3, <4>1 DEF LostRightly
    <3> QED
      BY <1>2, <2>1, <2>2, <3>1, <3>2
  <2> QED
    BY <2>4
<1> QED
  BY <1>1, <1>2

LEMMA ReplyInit == UdpInit => ReplyInv
BY UdpAssumption
   DEF UdpInit, ReplyInv, RepliesKnown, RepliesRead, LostMeansLate, NoTime, Nrs

LEMMA SendReply == VerdictInv /\ ReplyInv /\ send_ping => ReplyInv'
<1> SUFFICES ASSUME VerdictInv, ReplyInv, send_ping PROVE ReplyInv'
  OBVIOUS
<1>1. PICK k \in 1 .. MaxDuplicates : track_ping(k)
  BY DEF send_ping
<1>2. /\ ping_nr \in Nrs /\ ping_nr' = ping_nr + 1 /\ pc = "sending"
      /\ wire' = [wire EXCEPT ![<<"ping", ping_nr>>] = k]
      /\ sent_at' = [sent_at EXCEPT ![ping_nr] = now]
      /\ in_flight' = in_flight \union {ping_nr}
      /\ wake' = now + Interval
      /\ UNCHANGED <<now, pc, log, receiver, server_inbox, client_inbox, arrived>>
  BY <1>1 DEF send_ping, track_ping
<1>3. /\ now \in Nat /\ ping_nr \in Nat /\ Nrs \subseteq Nat /\ Interval \in Nat
      /\ sent_at \in [Nrs -> Nat \union {NoTime}] /\ RepliesKnown /\ RepliesRead
  BY UdpAssumption, JudgedPings DEF ReplyInv
<1>4. arrived[ping_nr] = NoTime
  <2>1. ~(ping_nr < ping_nr) /\ ping_nr \in Nrs
    BY <1>2, <1>3
  <2> QED
    BY <1>3, <2>1 DEF RepliesKnown
<1>5. RepliesKnown'
  <2>1. wire' \in [{"ping", "reply"} \X Nrs -> Nat] /\ wake' \in Nat
    BY <1>2, <1>3, UdpAssumption DEF RepliesKnown
  <2>2. ASSUME NEW nr \in Nrs,
               \/ wire'[<<"ping", nr>>] > 0 \/ wire'[<<"reply", nr>>] > 0
               \/ arrived'[nr] # NoTime
        PROVE  nr < ping_nr'
    <3>1. CASE nr = ping_nr
      BY <1>2, <1>3, <3>1
    <3>2. CASE nr # ping_nr
      <4>1. wire'[<<"ping", nr>>] = wire[<<"ping", nr>>] /\ wire'[<<"reply", nr>>] = wire[<<"reply", nr>>]
        BY <1>2, <1>3, <3>2 DEF RepliesKnown
      <4>2. nr < ping_nr
        BY <1>2, <1>3, <2>2, <4>1 DEF RepliesKnown
      <4> QED
        BY <1>2, <1>3, <4>2
    <3> QED
      BY <3>1, <3>2
  <2>3. ASSUME NEW i \in 1 .. Len(server_inbox') PROVE server_inbox'[i] < ping_nr'
    <3>1. server_inbox[i] < ping_nr /\ server_inbox[i] \in Nrs
      BY <1>2, <1>3 DEF RepliesKnown
    <3>2. server_inbox[i] \in Nat /\ ping_nr \in Nat
      BY <1>3, <3>1
    <3>3. server_inbox[i] < ping_nr + 1
      BY <3>1, <3>2
    <3> QED
      BY <1>2, <3>3
  <2> QED
    BY <1>2, <1>3, <2>1, <2>2, <2>3 DEF RepliesKnown
<1>6. RepliesRead'
  BY <1>2, <1>3, <1>4 DEF RepliesRead
<1>7. (\A i \in 1 .. Len(log) : LostRightly(log[i]))'
  <2>1. \A nr \in Nrs : nr < ping_nr => sent_at'[nr] = sent_at[nr]
    BY <1>2, <1>3
  <2>2. /\ now' \in Nat /\ now' >= now /\ log' = log /\ pc # "done"
        /\ \A nr \in Nrs : arrived'[nr] = arrived[nr] \/ (arrived[nr] = NoTime /\ arrived'[nr] = now)
    BY <1>2, <1>3
  <2> QED
    BY <2>1, <2>2, LogStaysRight
<1> QED
  BY <1>5, <1>6, <1>7, ReplyPartsNext

LEMMA DeliverReply ==
  ASSUME VerdictInv, ReplyInv, NEW n \in Nrs, deliver_reply(n)
  PROVE  ReplyInv'
<1>1. /\ wire[<<"reply", n>>] > 0
      /\ wire' = [wire EXCEPT ![<<"reply", n>>] = @ - 1]
      /\ client_inbox' = Append(client_inbox, n)
      /\ arrived' = [arrived EXCEPT ![n] = IF @ = NoTime THEN now ELSE @]
      /\ UNCHANGED <<now, pc, wake, ping_nr, sent_at, in_flight, log, receiver, server_inbox>>
  BY DEF deliver_reply, pingVars
<1>2. /\ now \in Nat /\ ping_nr \in Nat /\ Nrs \subseteq Nat /\ in_flight \subseteq Nrs
      /\ RepliesKnown /\ RepliesRead
  BY JudgedPings DEF ReplyInv
<1>3. /\ n < ping_nr /\ arrived'[n] \in Nat
      /\ \A m \in Nrs \ {n} : arrived'[m] = arrived[m]
      /\ arrived'[n] = arrived[n] \/ (arrived[n] = NoTime /\ arrived'[n] = now)
  BY <1>1, <1>2 DEF RepliesKnown
<1>4. RepliesKnown'
  <2>1. /\ wire' \in [{"ping", "reply"} \X Nrs -> Nat]
        /\ arrived' \in [Nrs -> Nat \union {NoTime}]
        /\ client_inbox' \in Seq(Nrs)
    <3>1. wire' \in [{"ping", "reply"} \X Nrs -> Nat]
      BY <1>1, <1>2 DEF RepliesKnown
    <3>2. arrived' \in [Nrs -> Nat \union {NoTime}]
      BY <1>1, <1>2 DEF RepliesKnown
    <3> QED
      BY <1>1, <1>2, <3>1, <3>2 DEF RepliesKnown
  <2>2. ASSUME NEW m \in Nrs,
               \/ wire'[<<"ping", m>>] > 0 \/ wire'[<<"reply", m>>] > 0
               \/ arrived'[m] # NoTime
        PROVE  m < ping_nr
    <3>1. CASE m # n
      <4>1. /\ wire'[<<"ping", m>>] = wire[<<"ping", m>>]
            /\ wire'[<<"reply", m>>] = wire[<<"reply", m>>]
        BY <1>1, <1>2, <3>1 DEF RepliesKnown
      <4> QED
        BY <1>2, <1>3, <2>2, <3>1, <4>1 DEF RepliesKnown
    <3> QED
      BY <1>3, <3>1
  <2> QED
    BY <1>1, <1>2, <2>1, <2>2 DEF RepliesKnown
<1>5. RepliesRead'
  <2>1. /\ \A i \in 1 .. Len(client_inbox) : i \in 1 .. Len(client_inbox')
                                           /\ client_inbox'[i] = client_inbox[i]
        /\ Len(client_inbox') \in 1 .. Len(client_inbox')
        /\ client_inbox'[Len(client_inbox')] = n
    BY <1>1, <1>2 DEF RepliesKnown
  <2>2. ASSUME NEW m \in in_flight, arrived'[m] # NoTime
        PROVE  \/ /\ receiver = "listening" /\ arrived'[m] = now
                  /\ \E i \in 1 .. Len(client_inbox') : client_inbox'[i] = m
               \/ receiver # "listening" /\ arrived'[m] >= wake
    <3>1. CASE m # n
      <4>1. arrived'[m] = arrived[m]
        BY <1>2, <1>3, <3>1
      <4> QED
        BY <1>2, <2>1, <2>2, <4>1 DEF RepliesRead
    <3>2. CASE m = n /\ arrived[n] = NoTime
      <4>1. arrived'[m] = now
        BY <1>1, <1>2, <3>2 DEF RepliesKnown
      <4>2. receiver # "listening" => now >= wake
        BY <1>2 DEF RepliesRead
      <4> QED
        BY <2>1, <3>2, <4>1, <4>2
    <3>3. CASE m = n /\ arrived[n] # NoTime
      <4>1. arrived'[m] = arrived[m]
        BY <1>3, <3>3
      <4> QED
        BY <1>2, <2>1, <3>3, <4>1 DEF RepliesRead
    <3> QED
      BY <3>1, <3>2, <3>3
  <2> QED
    BY <1>1, <1>2, <2>2 DEF RepliesRead
<1>6. (\A i \in 1 .. Len(log) : LostRightly(log[i]))'
  <2>1. \A m \in Nrs : arrived'[m] = arrived[m] \/ (arrived[m] = NoTime /\ arrived'[m] = now)
    BY <1>3
  <2>2. now' \in Nat /\ now' >= now
    BY <1>1, <1>2
  <2> QED
    BY <1>1, <2>1, <2>2, LogStaysRight
<1> QED
  BY <1>4, <1>5, <1>6, ReplyPartsNext

LEMMA ReceiveReply == VerdictInv /\ ReplyInv /\ receive_reply => ReplyInv'
<1> SUFFICES ASSUME VerdictInv, ReplyInv, receive_reply PROVE ReplyInv'
  OBVIOUS
<1>1. PICK n : n = Head(client_inbox)
  OBVIOUS
<1>2. /\ client_inbox # <<>> /\ client_inbox' = Tail(client_inbox)
      /\ in_flight' = in_flight \ {n}
      /\ log' = IF n \in in_flight THEN Append(log, Verdict(n, "RECEIVED")) ELSE log
      /\ UNCHANGED <<now, pc, wake, ping_nr, sent_at, receiver, wire, server_inbox, arrived>>
  BY <1>1 DEF receive_reply, TakeReply
<1>3. RepliesKnown /\ RepliesRead
  BY DEF ReplyInv
<1>4. n \in Nrs /\ client_inbox' \in Seq(Nrs)
  BY <1>1, <1>2, <1>3 DEF RepliesKnown
<1>5. RepliesKnown'
  BY <1>2, <1>3, <1>4 DEF RepliesKnown
<1>6. RepliesRead'
  <2>1. ASSUME NEW i \in 1 .. Len(client_inbox), client_inbox[i] # n
        PROVE  \E j \in 1 .. Len(client_inbox') : client_inbox'[j] = client_inbox[i]
    <3>1. client_inbox \in Seq(Nrs) /\ i # 1
      BY <1>1, <1>2, <1>3, <2>1 DEF RepliesKnown
    <3>2. i - 1 \in 1 .. Len(client_inbox') /\ client_inbox'[i - 1] = client_inbox[i]
      BY <1>2, <3>1
    <3> QED
      BY <3>2
  <2> QED
    BY <1>2, <1>3, <2>1 DEF RepliesRead
<1>7. (\A i \in 1 .. Len(log) : LostRightly(log[i]))'
  BY <1>2, <1>4, NewVerdictRight
<1> QED
  BY <1>5, <1>6, <1>7, ReplyPartsNext

LEMMA ReplyStep == VerdictInv /\ VerdictInv' /\ ReplyInv /\ [UdpNext]_vars => ReplyInv'
<1> SUFFICES ASSUME VerdictInv, VerdictInv', ReplyInv, [UdpNext]_vars PROVE ReplyInv'
  OBVIOUS
<1> USE UdpAssumption
<1>1. RepliesKnown /\ RepliesRead /\ now \in Nat
  BY JudgedPings DEF ReplyInv
<1>2. ASSUME UNCHANGED <<now, pc, wake, sent_at, log, arrived>>
      PROVE  (\A i \in 1 .. Len(log) : LostRightly(log[i]))'
  BY <1>1, <1>2, LogStaysRight
<1>3. CASE UNCHANGED <<now, pc, wake, ping_nr, sent_at, in_flight, log, receiver, wire, server_inbox,
                       client_inbox, arrived>>
  BY <1>1, <1>2, <1>3, ReplyPartsNext DEF RepliesKnown, RepliesRead
<1>4. CASE sender_starts
  <2>1. /\ pc = "starting" /\ pc' = "sending" /\ wake' = now
        /\ UNCHANGED <<now, ping_nr, sent_at, in_flight, log, receiver, netVars>>
    BY <1>4 DEF sender_starts
  <2>2. (\A i \in 1 .. Len(log) : LostRightly(log[i]))'
    BY <1>1, <2>1, LogStaysRight DEF netVars
  <2>3. RepliesKnown' /\ RepliesRead'
    BY <1>1, <2>1 DEF RepliesKnown, RepliesRead, netVars
  <2> QED
    BY <2>2, <2>3, ReplyPartsNext
<1>5. CASE send_ping
  BY <1>5, SendReply
<1>6. CASE sender_done
  <2>1. /\ pc = "sending" /\ pc' = "done" /\ now >= wake
        /\ UNCHANGED <<now, wake, ping_nr, sent_at, in_flight, log, receiver, netVars>>
    BY <1>6 DEF sender_done, Awake
  <2>2. (\A i \in 1 .. Len(log) : LostRightly(log[i]))'
    BY <1>1, <2>1, LogStaysRight DEF netVars
  <2>3. RepliesKnown' /\ RepliesRead'
    BY <1>1, <2>1 DEF RepliesKnown, RepliesRead, netVars
  <2> QED
    BY <2>2, <2>3, ReplyPartsNext
<1>7. CASE receive_reply
  BY <1>7, ReceiveReply
<1>8. CASE receiver_stops
  <2>1. /\ pc = "done" /\ receiver = "listening" /\ receiver' = "done"
        /\ UNCHANGED <<now, pc, wake, ping_nr, sent_at, in_flight, log, netVars>>
    BY <1>8 DEF receiver_stops
  <2>2. RepliesKnown' /\ RepliesRead'
    BY <1>1, <2>1 DEF RepliesKnown, RepliesRead, netVars
  <2> QED
    BY <1>2, <2>1, <2>2, ReplyPartsNext DEF netVars
<1>9. CASE echo
  <2>1. /\ server_inbox # <<>> /\ server_inbox' = Tail(server_inbox)
        /\ wire' = [wire EXCEPT ![<<"reply", Head(server_inbox)>>] = @ + 1]
        /\ UNCHANGED <<now, pc, wake, ping_nr, sent_at, in_flight, log, receiver, client_inbox,
                       arrived>>
    BY <1>9 DEF echo, pingVars
  <2>2. PICK n : n = Head(server_inbox)
    OBVIOUS
  <2>3. n \in Nrs /\ n < ping_nr
    BY <1>1, <2>1, <2>2 DEF RepliesKnown
  <2>4. /\ server_inbox' \in Seq(Nrs)
        /\ \A i \in 1 .. Len(server_inbox') : server_inbox'[i] < ping_nr
    BY <1>1, <2>1 DEF RepliesKnown
  <2>5. /\ wire' \in [{"ping", "reply"} \X Nrs -> Nat]
        /\ \A m \in Nrs : wire'[<<"ping", m>>] = wire[<<"ping", m>>]
        /\ \A m \in Nrs : m # n => wire'[<<"reply", m>>] = wire[<<"reply", m>>]
    BY <1>1, <2>1, <2>2, <2>3 DEF RepliesKnown
  <2>6. RepliesKnown'
    BY <1>1, <2>1, <2>3, <2>4, <2>5 DEF RepliesKnown
  <2>7. RepliesRead'
    BY <1>1, <2>1 DEF RepliesRead
  <2> QED
    BY <1>2, <2>1, <2>6, <2>7, ReplyPartsNext
<1>10. ASSUME NEW n \in Nrs, deadline_passes(n) PROVE ReplyInv'
  <2>1. /\ now >= sent_at[n] + Deadline
        /\ in_flight' = in_flight \ {n}
        /\ log' = IF n \in in_flight THEN Append(log, Verdict(n, "LOST")) ELSE log
        /\ UNCHANGED <<now, pc, wake, ping_nr, sent_at, receiver, netVars>>
    BY <1>10 DEF deadline_passes, DeadlineOver, Expire
  <2>2. (\A i \in 1 .. Len(log) : LostRightly(log[i]))'
    BY <2>1, NewVerdictRight DEF netVars
  <2>3. RepliesKnown' /\ RepliesRead'
    BY <1>1, <2>1 DEF RepliesKnown, RepliesRead, netVars
  <2> QED
    BY <2>2, <2>3, ReplyPartsNext
<1>11. ASSUME NEW n \in Nrs, deliver_ping(n) PROVE ReplyInv'
  <2>1. /\ wire[<<"ping", n>>] > 0
        /\ wire' = [wire EXCEPT ![<<"ping", n>>] = @ - 1]
        /\ server_inbox' = Append(server_inbox, n)
        /\ UNCHANGED <<now, pc, wake, ping_nr, sent_at, in_flight, log, receiver, client_inbox,
                       arrived>>
    BY <1>11 DEF deliver_ping, pingVars
  <2>2. n < ping_nr
    BY <1>1, <2>1 DEF RepliesKnown
  <2>3. /\ server_inbox' \in Seq(Nrs)
        /\ \A i \in 1 .. Len(server_inbox') : server_inbox'[i] < ping_nr
    BY <1>1, <2>1, <2>2 DEF RepliesKnown
  <2>4. /\ wire' \in [{"ping", "reply"} \X Nrs -> Nat]
        /\ \A m \in Nrs : m # n => wire'[<<"ping", m>>] = wire[<<"ping", m>>]
        /\ \A m \in Nrs : wire'[<<"reply", m>>] = wire[<<"reply", m>>]
    BY <1>1, <2>1 DEF RepliesKnown
  <2>5. RepliesKnown'
    BY <1>1, <2>1, <2>2, <2>3, <2>4 DEF RepliesKnown
  <2>6. RepliesRead'
    BY <1>1, <2>1 DEF RepliesRead
  <2> QED
    BY <1>2, <2>1, <2>5, <2>6, ReplyPartsNext
<1>12. ASSUME NEW n \in Nrs, deliver_reply(n) PROVE ReplyInv'
  BY <1>12, DeliverReply
<1>13. CASE Tick
  <2>1. /\ now' = now + 1 /\ ~(receiver = "listening" /\ client_inbox # <<>>)
        /\ UNCHANGED <<pc, wake, ping_nr, sent_at, in_flight, log, receiver, netVars>>
    BY <1>13 DEF Tick, TaskReady, pingVars
  <2>2. (\A i \in 1 .. Len(log) : LostRightly(log[i]))'
    BY <1>1, <2>1, LogStaysRight DEF netVars
  <2>3. RepliesKnown'
    BY <1>1, <2>1 DEF RepliesKnown, netVars
  <2>4. receiver = "listening" => \A i \in 1 .. Len(client_inbox) : FALSE
    BY <1>1, <2>1 DEF RepliesKnown
  <2>5. RepliesRead'
    BY <1>1, <2>1, <2>4 DEF RepliesKnown, RepliesRead, netVars
  <2> QED
    BY <2>2, <2>3, <2>5, ReplyPartsNext
<1>14. CASE udp_starts \/ udp_sends \/ drive \/ UNCHANGED vars
  BY <1>3, <1>14 DEF udp_starts, udp_sends, drive, vars, pingVars, netVars
<1> QED
  BY <1>4, <1>5, <1>6, <1>7, <1>8, <1>9, <1>10, <1>11, <1>12, <1>13, <1>14
     DEF UdpNext, PingTasks

\* For every timing and every behaviour of the network, a reply that could be
\* read before the deadline of its ping, while the receiver was listening, is
\* never reported as lost.
THEOREM LostPingsAreLate == UdpSpec => []LostMeansLate
<1>1. ReplyInv => LostMeansLate
  BY DEF ReplyInv
<1> QED
  BY <1>1, ReplyInit, ReplyStep, VerdictInvariant, PTL DEF UdpSpec
=============================================================================
