------------------------- MODULE PacketPacerProofs -------------------------
(***************************************************************************)
(* Proofs about the pacer, for every batch limit, every set of packet      *)
(* delays and every clock bound, and about the window in which the         *)
(* verifier counts what the pacer sent.  The inductive invariants are      *)
(* PacerInv and WindowInv.                                                 *)
(***************************************************************************)
EXTENDS BandwidthReplay, SumLemmas, SequenceTheorems

\* What a query and a send make of a batch that is not in the future: Refresh
\* empties exactly the batches that got sent, TrackSend adds the packet to what
\* is left.
LEMMA BatchUpdates ==
  ASSUME NEW b \in Batch, NEW t \in Nat, NEW d \in Nat, b.created <= t
  PROVE  /\ Refresh(b, t) \in Batch
         /\ Refresh(b, t) = b \/ Refresh(b, t).delay = 0
         /\ Refresh(b, t).created <= t
         /\ t <= SentAt(Refresh(b, t))
         /\ SentAt(b) <= SentAt(Refresh(b, t))
         /\ TrackSend(b, t, d) \in Batch
         /\ TrackSend(b, t, d).created = Refresh(b, t).created
         /\ TrackSend(b, t, d).delay = Refresh(b, t).delay + d
         /\ DurationUntilCanSend(b, t, d) \in Nat
BY DEF Batch, Refresh, NewBatch, SentAt, TrackSend, DurationUntilCanSend

LEMMA PacerInit == Init => PacerInv
BY BatchMaxDelayAssumption, PacketDelaysAssumption
   DEF Init, PacerInv, TypeOK, NewBatch, Batch, IdleTask, MaxBurst

\* The grant the pacer gave to a waiting packet is still good when it is sent.
LEMMA PacerInvGrant == PacerInv => GrantHolds
BY BatchMaxDelayAssumption, PacketDelaysAssumption
   DEF PacerInv, GrantHolds, CanSend, HasRoom, Refresh, NewBatch, SentAt,
       TypeOK, Batch

LEMMA PacerStep == PacerInv /\ [Next]_vars => PacerInv'
<1> SUFFICES ASSUME PacerInv, [Next]_vars PROVE PacerInv'
  OBVIOUS
<1> USE BatchMaxDelayAssumption, PacketDelaysAssumption
<1> DEFINE R == Refresh(batch, now)
<1>0. MaxBurst \in Nat /\ MaxPacketDelay <= MaxBurst /\ BATCH_MAX_DELAY <= MaxBurst
  BY DEF MaxBurst
<1>1. CASE Tick
  BY <1>0, <1>1 DEF Tick, PacerInv, TypeOK, Batch, SentAt
<1>2. CASE Send
  <2>1. R.delay = 0 \/ R.delay + task.d < BATCH_MAX_DELAY
    BY <1>2, PacerInvGrant DEF Send, GrantHolds, CanSend, HasRoom
  <2>2. /\ batch' \in Batch
        /\ batch'.created = R.created
        /\ batch'.delay = R.delay + task.d
        /\ R.created <= now
        /\ now <= SentAt(R)
        /\ SentAt(batch) <= SentAt(R)
        /\ R \in Batch
    <3>1. batch \in Batch /\ now \in Nat /\ task.d \in Nat /\ batch.created <= now
      BY DEF PacerInv, TypeOK
    <3> HIDE DEF R
    <3>2. /\ R \in Batch
          /\ R.created <= now
          /\ now <= SentAt(R)
          /\ SentAt(batch) <= SentAt(R)
      BY <3>1, BatchUpdates DEF R
    <3>3. /\ TrackSend(batch, now, task.d) \in Batch
          /\ TrackSend(batch, now, task.d).created = R.created
          /\ TrackSend(batch, now, task.d).delay = R.delay + task.d
      BY <3>1, BatchUpdates, SMTT(30) DEF R
    <3> QED
      BY <1>2, <3>2, <3>3 DEF Send
  <2>3. batch'.delay <= MaxBurst
    BY <1>0, <1>2, <2>1, <2>2 DEF Send, PacerInv, TypeOK, Batch
  <2>4. sent' <= SentAt(batch)' - start'
    BY <1>2, <2>2 DEF Send, PacerInv, TypeOK, Batch, SentAt
  <2> QED
    BY <1>0, <1>2, <2>2, <2>3, <2>4 DEF Send, PacerInv, TypeOK, IdleTask, Batch
<1>3. CASE StartCounting
  BY <1>0, <1>3 DEF StartCounting, PacerInv, TypeOK, Batch, SentAt
<1>4. ASSUME NEW d \in PacketDelays, Take(d)
      PROVE  PacerInv'
  <2>1. d \in Nat /\ d <= MaxPacketDelay
    OBVIOUS
  <2>2. /\ R \in Batch
        /\ R.created <= now
        /\ SentAt(batch) <= SentAt(R)
        /\ R = batch \/ R.delay = 0
        /\ DurationUntilCanSend(batch, now, d) \in Nat
    BY <2>1, BatchUpdates DEF PacerInv, TypeOK
  <2>3. R.delay <= MaxBurst
    BY <1>0, <2>2 DEF PacerInv
  <2>4. /\ now + DurationUntilCanSend(batch, now, d) <= now + MaxBurst
        /\ \/ SentAt(R) <= now + DurationUntilCanSend(batch, now, d)
           \/ R.delay = 0
           \/ R.delay + d < BATCH_MAX_DELAY
    BY <1>0, <2>1, <2>2, <2>3
       DEF DurationUntilCanSend, HasRoom, SentAt, Batch, PacerInv, TypeOK
  <2>5. sent = 0 \/ sent <= SentAt(R) - start
    BY <2>2 DEF PacerInv, TypeOK, SentAt, Batch
  <2> QED
    BY <1>0, <1>4, <2>1, <2>2, <2>3, <2>4, <2>5 DEF Take, PacerInv, TypeOK
<1>5. CASE UNCHANGED vars
  BY <1>0, <1>5 DEF vars, PacerInv, TypeOK, Batch, SentAt
<1> QED
  BY <1>1, <1>2, <1>3, <1>4, <1>5 DEF Next

LEMMA PacerInvariant == Spec => []PacerInv
BY PacerInit, PacerStep, PTL DEF Spec

\* NetworkLink::send's assertion that the pacer can send never fails, at
\* whatever instant after the grant the link's task gets to send.
THEOREM GrantsHold == Spec => []GrantHolds
BY PacerInvariant, PacerInvGrant, PTL

\* In every window of time a link sends no more than the window's worth of
\* bits plus one burst.
THEOREM BandwidthRespected == Spec => []WithinBandwidth
<1>1. PacerInv => WithinBandwidth
  BY BatchMaxDelayAssumption, PacketDelaysAssumption
     DEF PacerInv, WithinBandwidth, TypeOK, Batch, SentAt, MaxBurst
<1> QED
  BY <1>1, PacerInvariant, PTL

\* No packet sleeps for bandwidth longer than one burst.
THEOREM WaitsAreBounded == Spec => []BoundedWait
<1>1. PacerInv => BoundedWait
  BY DEF PacerInv, BoundedWait
<1> QED
  BY <1>1, PacerInvariant, PTL
----------------------------------------------------------------------------
(* The verifier's window *)

Sends     == [at : Nat, d : Nat]
Delays(w) == [i \in 1 .. Len(w) |-> w[i].d]

LEMMA BitsOf ==
  ASSUME NEW w \in Seq(Sends)
  PROVE  /\ Delays(w) \in Seq(Nat) /\ Delays(w) \in Seq(Int) /\ Len(Delays(w)) = Len(w)
         /\ \A i \in 1 .. Len(w) : Delays(w)[i] = w[i].d
         /\ Bits(w) = SumSeq(Delays(w))
         /\ Bits(w) \in Nat
<1>1. /\ Len(w) \in Nat
      /\ \A i \in 1 .. Len(w) : w[i].d \in Nat
  <2>1. \A i \in 1 .. Len(w) : w[i] \in Sends
    BY ElementOfSeq
  <2> QED
    BY <2>1 DEF Sends
<1>2. /\ Delays(w) \in Seq(Nat) /\ Delays(w) \in Seq(Int) /\ Len(Delays(w)) = Len(w)
      /\ \A i \in 1 .. Len(w) : Delays(w)[i] = w[i].d
  BY <1>1 DEF Delays
<1>3. Bits(w) = SumSeq(Delays(w))
  BY Zenon DEF Bits, SumSeq, Delays
<1> QED
  BY <1>2, <1>3, SumOfNaturals

LEMMA BitsOfAppend ==
  ASSUME NEW w \in Seq(Sends), NEW e \in Sends
  PROVE  Bits(Append(w, e)) = Bits(w) + e.d
<1>1. Append(w, e) \in Seq(Sends) /\ e.d \in Int
  BY DEF Sends
<1>2. Delays(Append(w, e)) = Append(Delays(w), e.d)
  BY DEF Delays
<1>3. SumSeq(Append(Delays(w), e.d)) = SumSeq(Delays(w)) + e.d
  BY <1>1, BitsOf, SumOfAppend
<1> QED
  BY <1>1, <1>2, <1>3, BitsOf

LEMMA BitsOfParts ==
  ASSUME NEW w \in Seq(Sends), NEW k \in 0 .. Len(w)
  PROVE  Bits(w) = Bits(SubSeq(w, 1, k)) + Bits(SubSeq(w, k + 1, Len(w)))
<1>1. /\ Len(w) \in Nat /\ k \in Nat /\ k <= Len(w)
      /\ SubSeq(w, 1, k) \in Seq(Sends) /\ SubSeq(w, k + 1, Len(w)) \in Seq(Sends)
  <2>1. /\ \A i \in 1 .. k : i \in 1 .. Len(w)
        /\ \A i \in k + 1 .. Len(w) : i \in 1 .. Len(w)
    OBVIOUS
  <2> QED
    BY <2>1
<1>2. /\ Delays(SubSeq(w, 1, k)) = SubSeq(Delays(w), 1, k)
      /\ Delays(SubSeq(w, k + 1, Len(w))) = SubSeq(Delays(w), k + 1, Len(w))
  BY <1>1 DEF Delays
<1>3. SumSeq(Delays(w)) = SumSeq(SubSeq(Delays(w), 1, k)) + SumSeq(SubSeq(Delays(w), k + 1, Len(w)))
  <2>1. Delays(w) \in Seq(Int) /\ Len(Delays(w)) = Len(w)
    BY BitsOf
  <2> QED
    BY <2>1, SumOfParts
<1>4. /\ Bits(w) = SumSeq(Delays(w))
      /\ Bits(SubSeq(w, 1, k)) = SumSeq(Delays(SubSeq(w, 1, k)))
      /\ Bits(SubSeq(w, k + 1, Len(w))) = SumSeq(Delays(SubSeq(w, k + 1, Len(w))))
  BY <1>1, BitsOf
<1> QED
  BY <1>2, <1>3, <1>4

LEMMA EmptyBits == Bits(<<>>) = 0
<1>1. <<>> \in Seq(Sends) /\ Len(<<>>) = 0
  OBVIOUS
<1>2. Delays(<<>>) \in Seq(Int) /\ Len(Delays(<<>>)) = 0
  BY <1>1, BitsOf
<1> QED
  BY <1>1, <1>2, BitsOf, SumOfZeros

LEMMA WindowStart == ReplayInit => WindowInv
<1> SUFFICES ASSUME ReplayInit PROVE WindowInv
  OBVIOUS
<1>1. <<>> \in Seq(Sends) /\ Len(<<>>) = 0
  OBVIOUS
<1>2. Bits(<<>>) = 0
  BY EmptyBits
<1>3. AlarmWithinBurst
  BY WindowAssumption, BatchMaxDelayAssumption, PacketDelaysAssumption
     DEF ReplayInit, AlarmWithinBurst, MaxBurst
<1> QED
  BY <1>1, <1>2, <1>3 DEF ReplayInit, WindowInv, Sends

\* The new packet and those that are still in the window
LEMMA WindowSlides ==
  ASSUME NEW w \in Seq(Sends), NEW k \in 0 .. Len(w), NEW e \in Sends,
         NEW j \in 1 .. (Len(w) - k) + 1
  PROVE  LET v == Append(SubSeq(w, k + 1, Len(w)), e)
         IN  /\ v \in Seq(Sends) /\ Len(v) = (Len(w) - k) + 1
             /\ v[j] = IF j <= Len(w) - k THEN w[k + j] ELSE e
             /\ Bits(SubSeq(v, j, Len(v))) = Bits(SubSeq(w, k + j, Len(w))) + e.d
<1> DEFINE K == SubSeq(w, k + 1, Len(w))
           v == Append(K, e)
           u == SubSeq(w, k + j, Len(w))
<1>1. Len(w) \in Nat /\ k \in Nat /\ k <= Len(w) /\ j \in Nat /\ 1 <= j /\ k + j <= Len(w) + 1
  OBVIOUS
<1>2. /\ K \in Seq(Sends) /\ Len(K) = Len(w) - k
      /\ \A i \in 1 .. Len(K) : K[i] = w[k + i]
  <2>1. \A i \in k + 1 .. Len(w) : i \in 1 .. Len(w)
    BY <1>1
  <2> QED
    BY <1>1, <2>1
<1>3. /\ u \in Seq(Sends) /\ Len(u) = (Len(w) - (k + j)) + 1
      /\ \A i \in 1 .. Len(u) : u[i] = w[(k + j - 1) + i]
  <2>1. \A i \in k + j .. Len(w) : i \in 1 .. Len(w)
    BY <1>1
  <2> QED
    BY <1>1, <2>1
<1> HIDE DEF K, u
<1>4. /\ v \in Seq(Sends) /\ Len(v) = (Len(w) - k) + 1
      /\ \A i \in 1 .. Len(v) : v[i] = IF i <= Len(w) - k THEN w[k + i] ELSE e
  BY <1>1, <1>2
<1> HIDE DEF v
<1>5. SubSeq(v, j, Len(v)) = Append(u, e)
  <2> DEFINE a == SubSeq(v, j, Len(v))
             b == Append(u, e)
  <2>1. /\ a \in Seq(Sends) /\ Len(a) = (Len(v) - j) + 1
        /\ \A i \in 1 .. Len(a) : a[i] = v[(j - 1) + i]
    <3>1. \A i \in j .. Len(v) : i \in 1 .. Len(v)
      BY <1>1, <1>4
    <3> QED
      BY <1>1, <1>4, <3>1
  <2>2. /\ b \in Seq(Sends) /\ Len(b) = Len(u) + 1
        /\ \A i \in 1 .. Len(b) : b[i] = IF i <= Len(u) THEN u[i] ELSE e
    <3>1. /\ b \in Seq(Sends) /\ Len(b) = Len(u) + 1 /\ b[Len(u) + 1] = e
          /\ \A i \in 1 .. Len(u) : b[i] = u[i]
      <4>1. u \in Seq(Sends)
        BY <1>3
      <4> QED
        BY <4>1, AppendProperties
    <3>2. Len(u) \in Nat
      BY <1>3
    <3> HIDE DEF b
    <3> QED
      BY <3>1, <3>2
  <2>3. Len(a) = Len(b)
    BY <1>1, <1>3, <1>4, <2>1, <2>2
  <2> HIDE DEF a, b
  <2>4. ASSUME NEW i \in 1 .. Len(a) PROVE a[i] = b[i]
    <3>1. (j - 1) + i \in 1 .. Len(v) /\ k + ((j - 1) + i) = (k + j - 1) + i
      BY <1>1, <1>4, <2>1, SMTT(40)
    <3>2. (j - 1) + i <= Len(w) - k <=> i <= Len(u)
      BY <1>1, <1>3, <1>4, <2>1
    <3>3. i \in 1 .. Len(b) /\ (i <= Len(u) => i \in 1 .. Len(u))
      BY <1>1, <1>3, <2>1, <2>3
    <3>4. a[i] = v[(j - 1) + i]
      BY <2>1
    <3>5. b[i] = IF i <= Len(u) THEN u[i] ELSE e
      BY <2>2, <3>3
    <3>6. v[(j - 1) + i] = IF (j - 1) + i <= Len(w) - k THEN w[k + ((j - 1) + i)] ELSE e
      BY <1>4, <3>1
    <3>7. i <= Len(u) => u[i] = w[(k + j - 1) + i]
      BY <1>3, <3>3
    <3> QED
      BY <3>1, <3>2, <3>4, <3>5, <3>6, <3>7
  <2>5. a = b
    BY <2>1, <2>2, <2>3, <2>4, SeqEqual
  <2> QED
    BY <2>5 DEF a, b
<1>6. Bits(Append(u, e)) = Bits(u) + e.d
  BY <1>3, BitsOfAppend
<1>7. j \in 1 .. Len(v)
  BY <1>4
<1> QED
  BY <1>4, <1>5, <1>6, <1>7 DEF v, K, u

LEMMA WindowSend ==
  ASSUME PacerInv, WindowInv, ReplaySend
  PROVE  WindowInv'
<1> DEFINE w == packets_in_bandwidth_window
           L == Len(w)
           e == [at |-> now, d |-> task.d]
           R == Refresh(batch, now)
<1> USE BatchMaxDelayAssumption, PacketDelaysAssumption, WindowAssumption
<1>1. w \in Seq(Sends) /\ L \in Nat
  BY DEF WindowInv, Sends
<1>2. now \in Nat /\ task.d \in Nat /\ batch \in Batch /\ batch.created <= now
  BY DEF PacerInv, TypeOK
<1>3. e \in Sends /\ e.at = now /\ e.d = task.d
  BY <1>2 DEF Sends
<1>4. PICK k \in 0 .. L :
        /\ \A i \in 1 .. k : w[i].at + Window < now
        /\ k < L => ~(w[k + 1].at + Window < now)
        /\ w' = Append(SubSeq(w, k + 1, L), e)
        /\ bandwidth_usage_bps' = bandwidth_usage_bps - Bits(SubSeq(w, 1, k)) + task.d
  BY DEF ReplaySend, packet_sent
<1>5. /\ MaxBurst \in Nat /\ task.d <= MaxBurst
      /\ SentAt(batch') \in Nat
      /\ SentAt(batch) + task.d <= SentAt(batch')
      /\ now + task.d <= SentAt(batch')
      /\ SentAt(batch') <= now + MaxBurst
  <2>1. batch' = TrackSend(batch, now, task.d) /\ task.pc = "waiting"
    BY DEF ReplaySend, Send
  <2>2. /\ batch' \in Batch /\ R \in Batch
        /\ batch'.created = R.created /\ batch'.delay = R.delay + task.d
        /\ R.created <= now /\ now <= SentAt(R) /\ SentAt(batch) <= SentAt(R)
    BY <1>2, <2>1, BatchUpdates
  <2>3. MaxBurst \in Nat /\ task.d <= MaxBurst
    BY <1>2, <2>1 DEF PacerInv, MaxBurst
  <2>4. batch'.delay <= MaxBurst
    <3>1. vars' = vars \/ Next
      BY DEF ReplaySend, Next
    <3> QED
      BY <3>1, PacerStep DEF PacerInv
  <2> HIDE DEF R
  <2>5. SentAt(R) \in Nat /\ SentAt(batch') = SentAt(R) + task.d /\ SentAt(batch) \in Nat
    BY <1>2, <2>2, SMTT(40) DEF Batch, SentAt
  <2>6. SentAt(batch') <= now + MaxBurst
    BY <1>2, <2>2, <2>3, <2>4, SMTT(40) DEF Batch, SentAt
  <2> QED
    BY <1>2, <2>2, <2>3, <2>5, <2>6
<1>6. /\ w' \in Seq(Sends) /\ Len(w') = (L - k) + 1
      /\ \A j \in 1 .. Len(w') :
           /\ w'[j] = IF j <= L - k THEN w[k + j] ELSE e
           /\ Bits(SubSeq(w', j, Len(w'))) = Bits(SubSeq(w, k + j, L)) + task.d
  <2>1. ASSUME NEW j \in 1 .. (L - k) + 1
        PROVE  /\ w' \in Seq(Sends) /\ Len(w') = (L - k) + 1
               /\ w'[j] = IF j <= L - k THEN w[k + j] ELSE e
               /\ Bits(SubSeq(w', j, Len(w'))) = Bits(SubSeq(w, k + j, L)) + task.d
    <3> HIDE DEF e
    <3>1. LET v == Append(SubSeq(w, k + 1, Len(w)), e)
          IN  /\ v \in Seq(Sends) /\ Len(v) = (Len(w) - k) + 1
              /\ v[j] = IF j <= Len(w) - k THEN w[k + j] ELSE e
              /\ Bits(SubSeq(v, j, Len(v))) = Bits(SubSeq(w, k + j, Len(w))) + e.d
      <4> HIDE DEF w
      <4> QED
        BY <1>1, <1>3, WindowSlides
    <3> QED
      BY <1>3, <1>4, <3>1
  <2>2. 1 \in 1 .. (L - k) + 1
    BY <1>1
  <2> HIDE DEF w, e
  <2> QED
    BY <2>1, <2>2
<1> HIDE DEF e, R
<1>7. \A j \in 1 .. L : /\ w[j].at \in Nat
                        /\ Bits(SubSeq(w, j, L)) \in Nat
                        /\ Bits(SubSeq(w, j, L)) <= SentAt(batch) - w[j].at
  <2> SUFFICES ASSUME NEW j \in 1 .. L
               PROVE  /\ w[j].at \in Nat
                      /\ Bits(SubSeq(w, j, L)) \in Nat
                      /\ Bits(SubSeq(w, j, L)) <= SentAt(batch) - w[j].at
    OBVIOUS
  <2>1. w[j] \in Sends
    BY <1>1, ElementOfSeq
  <2>2. SubSeq(w, j, L) \in Seq(Sends)
    <3>1. \A i \in j .. L : w[i] \in Sends
      BY <1>1, ElementOfSeq
    <3> QED
      BY <1>1, <3>1, SubSeqProperties
  <2>3. Bits(SubSeq(w, j, L)) \in Nat
    BY <2>2, BitsOf
  <2> QED
    BY <2>1, <2>3 DEF Sends, WindowInv
<1>8. ASSUME NEW j \in 1 .. Len(w')
      PROVE  /\ Bits(SubSeq(w', j, Len(w'))) <= SentAt(batch') - w'[j].at
             /\ w'[j].at \in Nat /\ Bits(SubSeq(w', j, Len(w'))) \in Nat
  <2>1. CASE j <= L - k
    <3>1. k + j \in 1 .. L /\ w'[j] = w[k + j]
      BY <1>1, <1>6, <2>1
    <3>2. /\ Bits(SubSeq(w, k + j, L)) \in Nat /\ w[k + j].at \in Nat
          /\ Bits(SubSeq(w, k + j, L)) <= SentAt(batch) - w[k + j].at
      BY <1>7, <3>1
    <3>3. Bits(SubSeq(w', j, Len(w'))) = Bits(SubSeq(w, k + j, L)) + task.d
      BY <1>6
    <3>4. SentAt(batch) \in Nat
      BY <1>2 DEF Batch, SentAt
    <3>5. PICK x, y \in Nat : x = Bits(SubSeq(w, k + j, L)) /\ y = w[k + j].at
      BY <3>2
    <3>6. x + task.d <= SentAt(batch') - y /\ x + task.d \in Nat
      <4>1. PICK a, b, c \in Nat : a = SentAt(batch) /\ b = SentAt(batch') /\ c = task.d
        BY <1>2, <1>5, <3>4
      <4>2. x <= a - y /\ a + c <= b
        BY <1>5, <3>2, <3>5, <4>1
      <4>3. x + c <= b - y /\ x + c \in Nat
        BY <4>2
      <4> QED
        BY <4>1, <4>3
    <3> QED
      BY <3>1, <3>3, <3>5, <3>6
  <2>2. CASE ~(j <= L - k)
    <3>1. /\ w'[j] = e /\ k + j = L + 1
          /\ Bits(SubSeq(w', j, Len(w'))) = Bits(SubSeq(w, k + j, L)) + task.d
      <4>1. j \in 1 .. (L - k) + 1
        BY <1>6
      <4>2. k + j = L + 1
        BY <1>1, <2>2, <4>1
      <4>3. /\ w'[j] = IF j <= L - k THEN w[k + j] ELSE e
            /\ Bits(SubSeq(w', j, Len(w'))) = Bits(SubSeq(w, k + j, L)) + task.d
        BY <1>6
      <4> QED
        BY <2>2, <4>2, <4>3
    <3>2. SubSeq(w, k + j, L) = <<>>
      BY <1>1, <3>1, SubSeqEmpty
    <3>3. Bits(<<>>) = 0
      BY EmptyBits
    <3>4. Bits(SubSeq(w', j, Len(w'))) = task.d /\ w'[j].at = now
      <4>1. Bits(SubSeq(w, k + j, L)) = 0
        BY <3>2, <3>3
      <4>2. Bits(SubSeq(w', j, Len(w'))) = 0 + task.d
        BY <3>1, <4>1
      <4>3. w'[j].at = now
        BY <1>3, <3>1
      <4> QED
        BY <1>2, <4>2, <4>3
    <3> QED
      BY <1>2, <1>5, <3>4
  <2> QED
    BY <2>1, <2>2
<1>9. bandwidth_usage_bps' = Bits(w')
  <2>1. 1 \in 1 .. Len(w') /\ SubSeq(w', 1, Len(w')) = w'
    BY <1>1, <1>6, SubSeqFull
  <2>2. Bits(w') = Bits(SubSeq(w, k + 1, L)) + task.d
    BY <1>6, <2>1
  <2>3. Bits(w) = Bits(SubSeq(w, 1, k)) + Bits(SubSeq(w, k + 1, L))
    BY <1>1, BitsOfParts
  <2>4. /\ SubSeq(w, 1, k) \in Seq(Sends) /\ SubSeq(w, k + 1, L) \in Seq(Sends)
    <3>1. /\ \A i \in 1 .. k : w[i] \in Sends
          /\ \A i \in k + 1 .. L : w[i] \in Sends
      BY <1>1, ElementOfSeq
    <3> QED
      BY <1>1, <3>1, SubSeqProperties
  <2>5. Bits(SubSeq(w, 1, k)) \in Nat /\ Bits(SubSeq(w, k + 1, L)) \in Nat
    BY <2>4, BitsOf
  <2>6. bandwidth_usage_bps = Bits(w)
    BY DEF WindowInv
  <2> QED
    BY <1>2, <1>4, <2>2, <2>3, <2>5, <2>6
<1>10. bandwidth_usage_bps' \in 0 .. Window + MaxBurst
  <2>1. 1 \in 1 .. Len(w') /\ SubSeq(w', 1, Len(w')) = w'
    BY <1>1, <1>6, SubSeqFull
  <2>2. bandwidth_usage_bps' \in Nat /\ bandwidth_usage_bps' <= SentAt(batch') - w'[1].at
        /\ w'[1].at \in Nat
    BY <1>8, <1>9, <2>1
  <2>3. w'[1].at + Window >= now
    <3>1. CASE k < L
      <4>1. w'[1] = w[k + 1] /\ w[k + 1].at \in Nat
        <5>1. 1 <= L - k /\ k + 1 \in 1 .. L
          BY <1>1, <3>1
        <5>2. w'[1] = IF 1 <= L - k THEN w[k + 1] ELSE e
          BY <1>6, <2>1
        <5> QED
          BY <1>7, <5>1, <5>2
      <4> QED
        BY <1>2, <1>4, <3>1, <4>1
    <3>2. CASE ~(k < L)
      <4>1. w'[1] = e
        BY <1>1, <1>6, <2>1, <3>2
      <4> QED
        BY <1>2, <1>3, <4>1
    <3> QED
      BY <3>1, <3>2
  <2> QED
    BY <1>2, <1>5, <2>2, <2>3
<1>11. MaxBurst' = MaxBurst
  BY DEF MaxBurst
<1> QED
  BY <1>6, <1>8, <1>9, <1>10 DEF WindowInv, AlarmWithinBurst, Sends, MaxBurst

LEMMA WindowStep == PacerInv /\ WindowInv /\ [ReplayNext]_replayVars => WindowInv'
<1> SUFFICES ASSUME PacerInv, WindowInv, [ReplayNext]_replayVars PROVE WindowInv'
  OBVIOUS
<1>1. CASE ReplaySend
  BY <1>1, WindowSend
<1>2. ASSUME UNCHANGED windowVars, SentAt(batch) \in Nat, SentAt(batch') \in Nat,
             SentAt(batch) <= SentAt(batch')
      PROVE  WindowInv'
  <2> DEFINE w == packets_in_bandwidth_window
  <2>1. w' = w /\ bandwidth_usage_bps' = bandwidth_usage_bps /\ w \in Seq(Sends)
    BY <1>2 DEF windowVars, WindowInv, Sends
  <2>2. ASSUME NEW j \in 1 .. Len(w)
        PROVE  Bits(SubSeq(w, j, Len(w))) <= SentAt(batch') - w[j].at
    <3>1. w[j] \in Sends /\ \A i \in j .. Len(w) : w[i] \in Sends
      BY <2>1, ElementOfSeq
    <3>2. SubSeq(w, j, Len(w)) \in Seq(Sends)
      BY <2>1, <3>1, SubSeqProperties
    <3>3. Bits(SubSeq(w, j, Len(w))) \in Nat /\ w[j].at \in Nat
      BY <3>1, <3>2, BitsOf DEF Sends
    <3>4. Bits(SubSeq(w, j, Len(w))) <= SentAt(batch) - w[j].at
      BY DEF WindowInv
    <3> HIDE DEF w
    <3> QED
      BY <1>2, <3>3, <3>4
  <2> QED
    BY <2>1, <2>2 DEF WindowInv, AlarmWithinBurst, MaxBurst
<1>3. SentAt(batch) \in Nat
  BY DEF PacerInv, TypeOK, Batch, SentAt
<1>4. ASSUME UNCHANGED batch PROVE SentAt(batch') \in Nat /\ SentAt(batch) <= SentAt(batch')
  BY <1>3, <1>4
<1>5. CASE ReplayOther
  <2>1. UNCHANGED windowVars
    BY <1>5 DEF ReplayOther
  <2>2. CASE Tick \/ StartCounting
    BY <1>2, <1>3, <1>4, <2>1, <2>2 DEF Tick, StartCounting
  <2>3. ASSUME NEW d \in PacketDelays, Take(d) PROVE WindowInv'
    <3>1. batch' = Refresh(batch, now)
      BY <2>3 DEF Take
    <3>2. batch \in Batch /\ now \in Nat /\ batch.created <= now
      BY DEF PacerInv, TypeOK
    <3>3. batch' \in Batch /\ SentAt(batch) <= SentAt(batch')
      BY <3>1, <3>2, BatchUpdates
    <3>4. SentAt(batch') \in Nat
      BY <3>3 DEF Batch, SentAt
    <3> QED
      BY <1>2, <1>3, <2>1, <3>3, <3>4
  <2> QED
    BY <1>5, <2>2, <2>3 DEF ReplayOther
<1>6. CASE UNCHANGED replayVars
  BY <1>2, <1>3, <1>4, <1>6 DEF replayVars, vars
<1> QED
  BY <1>1, <1>5, <1>6 DEF ReplayNext

\* "Links never exceed their configured bandwidth", as the verifier checks it
\* second by second: its figure exceeds the bandwidth by no more than one burst,
\* for every length of the window and whatever the pacer is asked to send.
THEOREM AlarmsAreWithinBurst == ReplaySpec => []AlarmWithinBurst
<1>1. ReplayInit => PacerInv
  BY PacerInit DEF ReplayInit
<1>2. [ReplayNext]_replayVars => [Next]_vars
  BY DEF ReplayNext, ReplaySend, ReplayOther, replayVars, Next
<1>3. PacerInv /\ [ReplayNext]_replayVars => PacerInv'
  BY <1>2, PacerStep
<1>4. WindowInv => AlarmWithinBurst
  BY DEF WindowInv
<1> QED
  BY <1>1, <1>3, <1>4, WindowStart, WindowStep, PTL DEF ReplaySpec
=============================================================================
