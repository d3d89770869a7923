-------------------------- MODULE ThroughputProofs --------------------------
(***************************************************************************)
(* Proofs about the throughput command, for every rate, packet size,       *)
(* duration and window, and whatever the network delivers.  The inductive  *)
(* invariant is ThroughputInv.                                             *)
(***************************************************************************)
EXTENDS Throughput, SumLemmas, SequenceTheorems

----------------------------------------------------------------------------
(* Bytes *)

Loads(packets) == [i \in 1 .. Len(packets) |-> packets[i][2]]

LEMMA LoadsOf ==
  ASSUME NEW packets \in Seq(Arrival)
  PROVE  /\ Loads(packets) \in Seq(Nat) /\ Loads(packets) \in Seq(Int)
         /\ Len(Loads(packets)) = Len(packets)
         /\ \A i \in 1 .. Len(packets) : Loads(packets)[i] = packets[i][2]
         /\ Bytes(packets) = SumSeq(Loads(packets)) /\ Bytes(packets) \in Nat
<1>1. Len(packets) \in Nat /\ \A i \in 1 .. Len(packets) : packets[i] \in Arrival
  BY ElementOfSeq
<1>2. \A i \in 1 .. Len(packets) : packets[i][2] \in Nat
  BY <1>1 DEF Arrival, Sizes
<1>3. /\ Loads(packets) \in Seq(Nat) /\ Len(Loads(packets)) = Len(packets)
      /\ \A i \in 1 .. Len(packets) : Loads(packets)[i] = packets[i][2]
  BY <1>1, <1>2 DEF Loads
<1>4. Loads(packets) \in Seq(Int)
  BY <1>3
<1>5. Bytes(packets) = SumSeq(Loads(packets))
  BY DEF Bytes, SumSeq, Loads
<1> QED
  BY <1>3, <1>4, <1>5, SumOfNaturals

LEMMA RangeOf ==
  ASSUME NEW T, NEW s \in Seq(T), NEW a \in Nat, NEW b \in Nat, 1 <= a, a <= b + 1, b <= Len(s)
  PROVE  /\ SubSeq(s, a, b) \in Seq(T) /\ Len(SubSeq(s, a, b)) = (b - a) + 1
         /\ \A i \in 1 .. (b - a) + 1 : SubSeq(s, a, b)[i] = s[(a - 1) + i]
<1>1. /\ a \in Int /\ b \in Int /\ (b - a) + 1 \in Nat
      /\ \A n \in a .. b : n \in 1 .. Len(s)
  OBVIOUS
<1> QED
  BY <1>1, SMTT(40)

LEMMA BytesOfParts ==
  ASSUME NEW s \in Seq(Arrival), NEW k \in 0 .. Len(s)
  PROVE  Bytes(s) = Bytes(SubSeq(s, 1, k)) + Bytes(SubSeq(s, k + 1, Len(s)))
<1> DEFINE L == Loads(s)
           u == SubSeq(s, 1, k)
           v == SubSeq(s, k + 1, Len(s))
<1>1. Len(s) \in Nat /\ k \in Nat /\ k + 1 \in Nat /\ k <= Len(s) /\ k + 1 <= Len(s) + 1 /\ 1 <= k + 1
  OBVIOUS
<1>2. L \in Seq(Int) /\ Len(L) = Len(s) /\ (\A i \in 1 .. Len(s) : L[i] = s[i][2]) /\ Bytes(s) = SumSeq(L)
  BY LoadsOf
<1>3. u \in Seq(Arrival) /\ Len(u) = k /\ \A i \in 1 .. k : u[i] = s[i]
  <2>1. /\ u \in Seq(Arrival) /\ Len(u) = (k - 1) + 1
        /\ \A i \in 1 .. (k - 1) + 1 : u[i] = s[(1 - 1) + i]
    BY <1>1, RangeOf
  <2> HIDE DEF u
  <2> QED
    BY <1>1, <2>1
<1>4. /\ v \in Seq(Arrival) /\ Len(v) = Len(s) - k
      /\ \A i \in 1 .. Len(s) - k : v[i] = s[k + i]
  <2>1. /\ v \in Seq(Arrival) /\ Len(v) = (Len(s) - (k + 1)) + 1
        /\ \A i \in 1 .. (Len(s) - (k + 1)) + 1 : v[i] = s[((k + 1) - 1) + i]
    BY <1>1, RangeOf
  <2> HIDE DEF v
  <2> QED
    BY <1>1, <2>1
<1>5. SumSeq(L) = SumSeq(SubSeq(L, 1, k)) + SumSeq(SubSeq(L, k + 1, Len(L)))
  BY <1>2, SumOfParts
<1> HIDE DEF L, u, v
<1>6. SubSeq(L, 1, k) = Loads(u)
  <2> DEFINE a == SubSeq(L, 1, k)
  <2>1. /\ a \in Seq(Int) /\ Len(a) = (k - 1) + 1
        /\ \A i \in 1 .. (k - 1) + 1 : a[i] = L[(1 - 1) + i]
    BY <1>1, <1>2, RangeOf
  <2>2. /\ Loads(u) \in Seq(Int) /\ Len(Loads(u)) = k
        /\ \A i \in 1 .. k : Loads(u)[i] = u[i][2]
    BY <1>3, LoadsOf
  <2> HIDE DEF a
  <2>3. Len(a) = Len(Loads(u))
    BY <1>1, <2>1, <2>2
  <2>4. ASSUME NEW i \in 1 .. Len(a) PROVE a[i] = Loads(u)[i]
    <3>1. i \in 1 .. k /\ i \in 1 .. Len(s) /\ (1 - 1) + i = i
      BY <1>1, <2>1
    <3>2. a[i] = L[i] /\ L[i] = s[i][2]
      BY <1>1, <1>2, <2>1, <3>1
    <3>3. Loads(u)[i] = u[i][2] /\ u[i] = s[i]
      BY <1>3, <2>2, <3>1
    <3> QED
      BY <3>2, <3>3
  <2>5. a = Loads(u)
    BY <2>1, <2>2, <2>3, <2>4, SeqEqual
  <2> QED
    BY <2>5 DEF a
<1>7. SubSeq(L, k + 1, Len(L)) = Loads(v)
  <2> DEFINE a == SubSeq(L, k + 1, Len(L))
  <2>1. /\ a \in Seq(Int) /\ Len(a) = (Len(L) - (k + 1)) + 1
        /\ \A i \in 1 .. (Len(L) - (k + 1)) + 1 : a[i] = L[((k + 1) - 1) + i]
    <3>1. Len(L) \in Nat /\ k + 1 <= Len(L) + 1 /\ Len(L) <= Len(L)
      BY <1>1, <1>2
    <3> QED
      BY <1>1, <1>2, <3>1, RangeOf
  <2>2. /\ Loads(v) \in Seq(Int) /\ Len(Loads(v)) = Len(s) - k
        /\ \A i \in 1 .. Len(s) - k : Loads(v)[i] = v[i][2]
    BY <1>4, LoadsOf
  <2> HIDE DEF a
  <2>3. Len(a) = Len(Loads(v))
    BY <1>1, <1>2, <2>1, <2>2
  <2>4. ASSUME NEW i \in 1 .. Len(a) PROVE a[i] = Loads(v)[i]
    <3>1. i \in 1 .. Len(s) - k /\ k + i \in 1 .. Len(s) /\ ((k + 1) - 1) + i = k + i
      BY <1>1, <1>2, <2>1
    <3>2. a[i] = L[k + i]
      BY <1>2, <2>1, <3>1
    <3> QED
      BY <1>2, <1>4, <2>2, <3>1, <3>2
  <2>5. a = Loads(v)
    BY <2>1, <2>2, <2>3, <2>4, SeqEqual
  <2> QED
    BY <2>5 DEF a
<1>8. Bytes(u) = SumSeq(Loads(u)) /\ Bytes(v) = SumSeq(Loads(v))
  BY <1>3, <1>4, LoadsOf
<1> QED
  BY <1>2, <1>5, <1>6, <1>7, <1>8 DEF u, v

LEMMA BytesOfAppend ==
  ASSUME NEW s \in Seq(Arrival), NEW p \in Arrival
  PROVE  Bytes(Append(s, p)) = Bytes(s) + p[2]
<1> DEFINE t == Append(s, p)
<1>1. /\ t \in Seq(Arrival) /\ Len(t) = Len(s) + 1 /\ t[Len(s) + 1] = p
      /\ \A i \in 1 .. Len(s) : t[i] = s[i]
  BY AppendProperties
<1>2. Len(s) \in Nat /\ p[2] \in Int
  BY DEF Arrival, Sizes
<1>3. /\ Loads(s) \in Seq(Int) /\ Len(Loads(s)) = Len(s) /\ Bytes(s) = SumSeq(Loads(s))
      /\ \A i \in 1 .. Len(s) : Loads(s)[i] = s[i][2]
  BY LoadsOf
<1>4. /\ Loads(t) \in Seq(Int) /\ Len(Loads(t)) = Len(t) /\ Bytes(t) = SumSeq(Loads(t))
      /\ \A i \in 1 .. Len(t) : Loads(t)[i] = t[i][2]
  BY <1>1, LoadsOf
<1> HIDE DEF t
<1>5. Loads(t) = Append(Loads(s), p[2])
  <2> DEFINE a == Append(Loads(s), p[2])
  <2>1. /\ a \in Seq(Int) /\ Len(a) = Len(s) + 1 /\ a[Len(s) + 1] = p[2]
        /\ \A i \in 1 .. Len(s) : a[i] = Loads(s)[i]
    BY <1>2, <1>3, AppendProperties
  <2> HIDE DEF a
  <2>2. ASSUME NEW i \in 1 .. Len(t) PROVE Loads(t)[i] = a[i]
    <3>1. CASE i = Len(s) + 1
      BY <1>1, <1>4, <2>1, <3>1
    <3>2. CASE i # Len(s) + 1
      <4>1. i \in 1 .. Len(s)
        BY <1>1, <1>2, <3>2
      <4>2. Loads(t)[i] = t[i][2] /\ t[i] = s[i]
        BY <1>1, <1>4, <4>1
      <4>3. a[i] = Loads(s)[i] /\ Loads(s)[i] = s[i][2]
        BY <1>3, <2>1, <4>1
      <4> QED
        BY <4>2, <4>3
    <3> QED
      BY <3>1, <3>2
  <2>3. Loads(t) = a
    BY <1>1, <1>4, <2>1, <2>2, SeqEqual
  <2> QED
    BY <2>3 DEF a
<1>6. SumSeq(Append(Loads(s), p[2])) = SumSeq(Loads(s)) + p[2]
  BY <1>2, <1>3, SumOfAppend
<1>7. Bytes(t) = Bytes(s) + p[2]
  BY <1>3, <1>4, <1>5, <1>6
<1> QED
  BY <1>7 DEF t

\* What is masked at the front does not count.
LEMMA MaskedSum ==
  ASSUME NEW m \in Seq(Int), NEW w \in Seq(Arrival), NEW low \in Nat, Len(m) = low + Len(w),
         \A i \in 1 .. low : m[i] = 0, \A i \in 1 .. Len(w) : m[low + i] = w[i][2]
  PROVE  SumSeq(m) = Bytes(w)
<1> DEFINE u == SubSeq(m, 1, low)
           v == SubSeq(m, low + 1, Len(m))
<1>1. /\ Len(w) \in Nat /\ Len(m) \in Nat /\ low \in 0 .. Len(m) /\ low <= Len(m)
      /\ low + 1 \in Nat /\ 1 <= low + 1 /\ low + 1 <= Len(m) + 1 /\ Len(m) <= Len(m)
  OBVIOUS
<1>2. SumSeq(m) = SumSeq(u) + SumSeq(v)
  BY <1>1, SumOfParts
<1>3. SumSeq(u) = 0
  <2>1. /\ u \in Seq(Int) /\ Len(u) = (low - 1) + 1
        /\ \A i \in 1 .. (low - 1) + 1 : u[i] = m[(1 - 1) + i]
    BY <1>1, RangeOf
  <2> HIDE DEF u
  <2>2. ASSUME NEW i \in 1 .. Len(u) PROVE u[i] = 0
    <3>1. i \in 1 .. (low - 1) + 1 /\ i \in 1 .. low /\ (1 - 1) + i = i
      BY <2>1
    <3> QED
      BY <2>1, <3>1
  <2> QED
    BY <2>1, <2>2, SumOfZeros
<1>4. v = Loads(w)
  <2>1. /\ v \in Seq(Int) /\ Len(v) = (Len(m) - (low + 1)) + 1
        /\ \A i \in 1 .. (Len(m) - (low + 1)) + 1 : v[i] = m[((low + 1) - 1) + i]
    BY <1>1, RangeOf
  <2>2. /\ Loads(w) \in Seq(Int) /\ Len(Loads(w)) = Len(w)
        /\ \A i \in 1 .. Len(w) : Loads(w)[i] = w[i][2]
    BY LoadsOf
  <2> HIDE DEF v
  <2>3. Len(v) = Len(w)
    BY <1>1, <2>1
  <2>4. ASSUME NEW i \in 1 .. Len(v) PROVE v[i] = Loads(w)[i]
    <3>1. /\ i \in 1 .. (Len(m) - (low + 1)) + 1 /\ i \in 1 .. Len(w)
          /\ ((low + 1) - 1) + i = low + i
      BY <1>1, <2>1, <2>3
    <3>2. v[i] = m[low + i]
      BY <2>1, <3>1
    <3>3. m[low + i] = w[i][2] /\ Loads(w)[i] = w[i][2]
      BY <2>2, <3>1
    <3> QED
      BY <3>2, <3>3
  <2> QED
    BY <2>1, <2>2, <2>3, <2>4, SeqEqual
<1>5. Bytes(w) = SumSeq(Loads(w)) /\ Bytes(w) \in Nat
  BY LoadsOf
<1> HIDE DEF u, v
<1> QED
  BY <1>2, <1>3, <1>4, <1>5

----------------------------------------------------------------------------
(* The report *)

\* The bytes recorded up to packet i, without the ones that are too old then
Counted(A, i) ==
  [k \in 1 .. i |-> IF A[k][1] >= A[i][1] - WindowDuration THEN A[k][2] ELSE 0]

Smoothed ==
  next > 0 =>
    /\ bytes_in_window = InWindow(next)
    /\ \A i \in 1 .. next : report >= 80 * InWindow(i)
    /\ \E i \in 1 .. next : report = 80 * InWindow(i)

LEMMA WindowParts == WindowIsExact <=> RecordedOnArrival /\ Smoothed
  BY DEF WindowIsExact, Smoothed

LEMMA InWindowSum == \A i : InWindow(i) = SumSeq(Counted(arrived_packets, i))
  BY DEF InWindow, Counted, SumSeq

LEMMA CountedBytes ==
  ASSUME arrived_packets \in Seq(Arrival), NEW i \in 1 .. Len(arrived_packets)
  PROVE  /\ Counted(arrived_packets, i) \in Seq(Int) /\ Len(Counted(arrived_packets, i)) = i
         /\ InWindow(i) = SumSeq(Counted(arrived_packets, i)) /\ InWindow(i) \in Nat
<1> DEFINE A == arrived_packets
           c == Counted(A, i)
<1>1. InWindow(i) = SumSeq(c)
  BY InWindowSum
<1>2. /\ i \in Nat /\ \A k \in 1 .. i : k \in 1 .. Len(A)
  OBVIOUS
<1>3. \A k \in 1 .. i : A[k] \in Arrival
  BY <1>2, ElementOfSeq
<1>4. \A k \in 1 .. i : A[k][2] \in Nat
  BY <1>3 DEF Arrival, Sizes
<1>5. c \in Seq(Nat) /\ Len(c) = i
  BY <1>2, <1>4 DEF Counted
<1> HIDE DEF c
<1>6. c \in Seq(Int) /\ SumSeq(c) \in Nat
  BY <1>5, SumOfNaturals
<1> QED
  BY <1>1, <1>5, <1>6 DEF c

\* The report does not change while nothing is recorded or looked at.
LEMMA ReportKept ==
  ASSUME SlideInv, Smoothed, UNCHANGED <<arrived_packets, reportVars>>
  PROVE  SlideInv' /\ Smoothed'
<1>1. /\ arrived_packets' = arrived_packets /\ next' = next /\ window' = window
      /\ bytes_in_window' = bytes_in_window /\ report' = report
  BY DEF reportVars
<1>2. SlideInv'
  BY <1>1 DEF SlideInv, Old
<1>3. \A i : InWindow(i)' = InWindow(i)
  <2>1. (\A i : InWindow(i) = SumSeq(Counted(arrived_packets, i)))'
    BY InWindowSum, PTL
  <2>2. \A i : InWindow(i)' = SumSeq(Counted(arrived_packets', i))
    BY <2>1
  <2> QED
    BY <1>1, <2>2, InWindowSum
<1> HIDE DEF Smoothed
<1>4. Smoothed'
  BY <1>1, <1>3 DEF Smoothed
<1> QED
  BY <1>2, <1>4

\* One round: k packets leave the window and the next one enters it.
Slides(k) ==
  LET packet == arrived_packets[next + 1]
  IN  /\ k \in 0 .. Len(window)
      /\ \A i \in 1 .. k : Old(window[i], packet[1])
      /\ k < Len(window) => ~Old(window[k + 1], packet[1])
      /\ window' = Append(SubSeq(window, k + 1, Len(window)), packet)
      /\ bytes_in_window' = bytes_in_window - Bytes(SubSeq(window, 1, k)) + packet[2]

\* The window is still the end of what was looked at.
LEMMA WindowSlides ==
  ASSUME ServerInv, SlideInv, next < Len(arrived_packets), NEW k, Slides(k)
  PROVE  /\ window' \in Seq(Arrival) /\ Len(window') = (Len(window) - k) + 1
         /\ \A i \in 1 .. Len(window') :
              window'[i] = arrived_packets[((next + 1) - Len(window')) + i]
         /\ bytes_in_window' = Bytes(window')
<1> DEFINE A == arrived_packets
           p == A[next + 1]
           rest == SubSeq(window, k + 1, Len(window))
<1>1. /\ A \in Seq(Arrival) /\ Len(A) \in Nat /\ window \in Seq(Arrival) /\ Len(window) \in Nat
      /\ next \in Nat /\ Len(window) <= next /\ next + 1 \in 1 .. Len(A)
      /\ k \in 0 .. Len(window)
      /\ \A i \in 1 .. Len(window) : window[i] = A[(next - Len(window)) + i]
      /\ bytes_in_window = Bytes(window)
      /\ window' = Append(rest, p)
      /\ bytes_in_window' = bytes_in_window - Bytes(SubSeq(window, 1, k)) + p[2]
  <2>1. A \in Seq(Arrival)
    BY DEF ServerInv
  <2>2. /\ next \in 0 .. Len(A) /\ window \in Seq(Arrival) /\ Len(window) <= next
        /\ bytes_in_window = Bytes(window)
    BY DEF SlideInv
  <2>3. \A i \in 1 .. Len(window) : window[i] = A[(next - Len(window)) + i]
    BY DEF SlideInv
  <2>4. k \in 0 .. Len(window) /\ window' = Append(rest, p)
    BY DEF Slides
  <2>5. bytes_in_window' = bytes_in_window - Bytes(SubSeq(window, 1, k)) + p[2]
    BY DEF Slides
  <2>6. Len(A) \in Nat /\ Len(window) \in Nat /\ next \in Nat /\ next + 1 \in 1 .. Len(A)
    BY <2>1, <2>2
  <2> QED
    BY <2>1, <2>2, <2>3, <2>4, <2>5, <2>6
<1>2. p \in Arrival
  BY <1>1, ElementOfSeq
<1>3. /\ k \in Nat /\ k + 1 \in Nat /\ 1 <= k + 1 /\ k + 1 <= Len(window) + 1 /\ k <= Len(window)
      /\ Len(window) <= Len(window) /\ 1 <= 1 /\ 1 <= k + 1
  BY <1>1
<1>4. /\ rest \in Seq(Arrival) /\ Len(rest) = (Len(window) - (k + 1)) + 1
      /\ \A i \in 1 .. (Len(window) - (k + 1)) + 1 : rest[i] = window[((k + 1) - 1) + i]
  BY <1>1, <1>3, RangeOf
<1>5. SubSeq(window, 1, k) \in Seq(Arrival)
  BY <1>1, <1>3, RangeOf
<1>6. Bytes(window) = Bytes(SubSeq(window, 1, k)) + Bytes(rest)
  BY <1>1, BytesOfParts
<1>7. Bytes(SubSeq(window, 1, k)) \in Nat /\ Bytes(rest) \in Nat /\ p[2] \in Nat
  <2>1. p[2] \in Nat
    BY <1>2 DEF Arrival, Sizes
  <2> QED
    BY <1>4, <1>5, <2>1, LoadsOf
<1>8. Bytes(Append(rest, p)) = Bytes(rest) + p[2]
  BY <1>2, <1>4, BytesOfAppend
<1>9. /\ Append(rest, p) \in Seq(Arrival) /\ Len(Append(rest, p)) = Len(rest) + 1
      /\ Append(rest, p)[Len(rest) + 1] = p
      /\ \A i \in 1 .. Len(rest) : Append(rest, p)[i] = rest[i]
  BY <1>2, <1>4, AppendProperties
<1> HIDE DEF A, p, rest
<1>10. Len(rest) = Len(window) - k /\ Len(window') = (Len(window) - k) + 1
  <2>1. Len(rest) = Len(window) - k
    BY <1>1, <1>3, <1>4, SMTT(40)
  <2>2. Len(window') = Len(rest) + 1
    BY <1>1, <1>9
  <2> QED
    BY <2>1, <2>2
<1>11. bytes_in_window' = Bytes(window')
  BY <1>1, <1>6, <1>7, <1>8
<1>12. ASSUME NEW i \in 1 .. Len(window')
       PROVE  window'[i] = A[((next + 1) - Len(window')) + i]
  <2>1. CASE i = Len(rest) + 1
    <3>1. ((next + 1) - Len(window')) + i = next + 1
      BY <1>1, <1>3, <1>10, <2>1
    <3>2. window'[i] = p
      BY <1>1, <1>9, <2>1
    <3> QED
      BY <3>1, <3>2 DEF p
  <2>2. CASE i # Len(rest) + 1
    <3>1. /\ i \in 1 .. Len(rest) /\ i \in 1 .. (Len(window) - (k + 1)) + 1
          /\ k + i \in 1 .. Len(window) /\ ((k + 1) - 1) + i = k + i
          /\ (next - Len(window)) + (k + i) = ((next + 1) - Len(window')) + i
      <4>1. PICK w \in Nat : w = Len(window)
        BY <1>1
      <4>2. Len(rest) = w - k /\ Len(window') = (w - k) + 1
        BY <1>10, <4>1
      <4> QED
        BY <1>1, <1>3, <2>2, <4>1, <4>2, SMTT(40)
    <3>2. window'[i] = rest[i]
      BY <1>1, <1>9, <3>1
    <3>3. rest[i] = window[k + i]
      BY <1>4, <3>1
    <3>4. window[k + i] = A[(next - Len(window)) + (k + i)]
      BY <1>1, <3>1
    <3> QED
      BY <3>1, <3>2, <3>3, <3>4
  <2> QED
    BY <2>1, <2>2
<1> QED
  BY <1>1, <1>9, <1>10, <1>11, <1>12 DEF A

\* Exactly the packets before the window are too old for the new one: packets
\* are recorded in order, so what was old stays old.
LEMMA OldSlides ==
  ASSUME ServerInv, SlideInv, next < Len(arrived_packets), NEW k, Slides(k),
         NEW i \in 1 .. next + 1
  PROVE  Old(arrived_packets[i], arrived_packets[next + 1][1])
           <=> i <= (next - Len(window)) + k
<1> DEFINE A == arrived_packets
           low == next - Len(window)
           T(j) == A[j][1]
<1>1. /\ A \in Seq(Arrival) /\ Len(A) \in Nat /\ window \in Seq(Arrival) /\ Len(window) \in Nat
      /\ next \in Nat /\ Len(window) <= next /\ next + 1 \in 1 .. Len(A)
      /\ k \in 0 .. Len(window)
      /\ \A j \in 1 .. Len(window) : window[j] = A[low + j]
      /\ \A j \in 1 .. next : Old(A[j], A[next][1]) <=> j <= low
      /\ \A j \in 1 .. k : Old(window[j], A[next + 1][1])
      /\ k < Len(window) => ~Old(window[k + 1], A[next + 1][1])
  <2>1. A \in Seq(Arrival)
    BY DEF ServerInv
  <2>2. next \in 0 .. Len(A) /\ window \in Seq(Arrival) /\ Len(window) <= next
    BY DEF SlideInv
  <2>3. \A j \in 1 .. Len(window) : window[j] = A[low + j]
    BY DEF SlideInv
  <2>4. \A j \in 1 .. next : Old(A[j], A[next][1]) <=> j <= low
    BY DEF SlideInv
  <2>5. /\ k \in 0 .. Len(window)
        /\ \A j \in 1 .. k : Old(window[j], A[next + 1][1])
        /\ k < Len(window) => ~Old(window[k + 1], A[next + 1][1])
    BY DEF Slides
  <2>6. Len(A) \in Nat /\ Len(window) \in Nat /\ next \in Nat /\ next + 1 \in 1 .. Len(A)
    BY <2>1, <2>2
  <2> QED
    BY <2>1, <2>2, <2>3, <2>4, <2>5, <2>6
<1>2. \A j, l \in 1 .. Len(A) : j <= l => T(j) <= T(l)
  BY DEF ServerInv
<1>3. \A j \in 1 .. Len(A) : T(j) \in Nat
  <2>1. \A j \in 1 .. Len(A) : A[j] \in Arrival
    BY <1>1, ElementOfSeq
  <2> QED
    BY <2>1 DEF Arrival
<1>4. WindowDuration \in Nat
  BY ThroughputAssumption
<1>5. /\ \A j \in 1 .. next : T(j) + WindowDuration < T(next) <=> j <= low
      /\ \A j \in 1 .. k : T(low + j) + WindowDuration < T(next + 1)
      /\ k < Len(window) => ~(T(low + k + 1) + WindowDuration < T(next + 1))
  <2>1. \A j \in 1 .. next : T(j) + WindowDuration < T(next) <=> j <= low
    BY <1>1 DEF Old
  <2>2. ASSUME NEW j \in 1 .. k PROVE T(low + j) + WindowDuration < T(next + 1)
    <3>1. j \in 1 .. Len(window)
      BY <1>1
    <3>2. Old(window[j], A[next + 1][1]) /\ window[j] = A[low + j]
      BY <1>1, <3>1
    <3> QED
      BY <3>2 DEF Old
  <2>3. ASSUME k < Len(window) PROVE ~(T(low + k + 1) + WindowDuration < T(next + 1))
    <3>1. k + 1 \in 1 .. Len(window) /\ low + (k + 1) = low + k + 1
      BY <1>1, <2>3
    <3>2. ~Old(window[k + 1], A[next + 1][1]) /\ window[k + 1] = A[low + (k + 1)]
      BY <1>1, <2>3, <3>1
    <3> QED
      BY <3>1, <3>2 DEF Old
  <2> QED
    BY <2>1, <2>2, <2>3
<1>6. Old(A[i], A[next + 1][1]) <=> T(i) + WindowDuration < T(next + 1)
  BY DEF Old
<1>7. low \in Nat /\ low <= next /\ k \in Nat /\ low + k <= next /\ i \in 1 .. Len(A)
      /\ (k < Len(window) <=> low + k < next)
  BY <1>1
<1> HIDE DEF A, low, T
<1>8. CASE i <= low
  <2>1. i \in 1 .. next /\ next \in 1 .. Len(A) /\ next <= next + 1
    BY <1>1, <1>7, <1>8
  <2>2. T(i) + WindowDuration < T(next) /\ T(next) <= T(next + 1)
    BY <1>1, <1>2, <1>5, <1>8, <2>1
  <2>3. T(i) + WindowDuration < T(next + 1)
    BY <1>1, <1>3, <1>4, <1>7, <2>1, <2>2
  <2> QED
    BY <1>6, <1>7, <1>8, <2>3 DEF A, low
<1>9. CASE i > low /\ i <= low + k
  <2>1. PICK j \in 1 .. k : i = low + j
    <3>1. i - low \in 1 .. k /\ i = low + (i - low)
      BY <1>7, <1>9
    <3> QED
      BY <3>1
  <2> QED
    BY <1>5, <1>6, <1>9, <2>1 DEF A, low
<1>10. CASE i > low + k
  <2>1. ~(T(i) + WindowDuration < T(next + 1))
    <3>1. CASE i = next + 1
      BY <1>1, <1>3, <1>4, <3>1
    <3>2. CASE i # next + 1
      <4>1. /\ k < Len(window) /\ low + k + 1 \in 1 .. Len(A) /\ low + k + 1 <= i
        BY <1>1, <1>7, <1>10, <3>2
      <4>2. T(low + k + 1) <= T(i) /\ ~(T(low + k + 1) + WindowDuration < T(next + 1))
        BY <1>2, <1>5, <1>7, <4>1
      <4>3. T(low + k + 1) \in Nat /\ T(i) \in Nat /\ T(next + 1) \in Nat
        BY <1>1, <1>3, <1>7, <4>1
      <4> QED
        BY <1>4, <4>2, <4>3
    <3> QED
      BY <3>1, <3>2
  <2> QED
    BY <1>6, <1>7, <1>10, <2>1 DEF A, low
<1> QED
  BY <1>7, <1>8, <1>9, <1>10

\* The running sum is what arrived in the window of the new packet.
LEMMA SumSlides ==
  ASSUME ServerInv, SlideInv, next < Len(arrived_packets), NEW k, Slides(k)
  PROVE  bytes_in_window' = InWindow(next + 1) /\ InWindow(next + 1) \in Nat
<1> DEFINE A == arrived_packets
           N == next + 1
           c == Counted(A, N)
           low == (next - Len(window)) + k
<1>1. /\ A \in Seq(Arrival) /\ Len(A) \in Nat /\ Len(window) \in Nat /\ next \in Nat
      /\ Len(window) <= next /\ N \in 1 .. Len(A) /\ k \in 0 .. Len(window)
  <2>1. A \in Seq(Arrival)
    BY DEF ServerInv
  <2>2. next \in 0 .. Len(A) /\ window \in Seq(Arrival) /\ Len(window) <= next
    BY DEF SlideInv
  <2>3. k \in 0 .. Len(window)
    BY DEF Slides
  <2> QED
    BY <2>1, <2>2, <2>3
<1>2. c \in Seq(Int) /\ Len(c) = N /\ InWindow(N) = SumSeq(c) /\ InWindow(N) \in Nat
  BY <1>1, CountedBytes
<1>3. /\ window' \in Seq(Arrival) /\ Len(window') = (Len(window) - k) + 1
      /\ \A i \in 1 .. Len(window') : window'[i] = A[(N - Len(window')) + i]
      /\ bytes_in_window' = Bytes(window')
  BY WindowSlides
<1>4. low \in Nat /\ N \in Nat /\ N - Len(window') = low /\ N = low + Len(window')
      /\ Len(window') \in Nat
  BY <1>1, <1>3
<1>5. \A i \in 1 .. N : Old(A[i], A[N][1]) <=> i <= low
  BY OldSlides
<1>6. \A i \in 1 .. N : A[i][1] \in Nat /\ A[i][2] \in Nat
  <2>1. \A i \in 1 .. N : A[i] \in Arrival
    BY <1>1, ElementOfSeq
  <2> QED
    BY <2>1 DEF Arrival, Sizes
<1>7. WindowDuration \in Nat
  BY ThroughputAssumption
<1>8. \A i \in 1 .. N : c[i] = IF A[i][1] >= A[N][1] - WindowDuration THEN A[i][2] ELSE 0
  BY DEF Counted
<1> HIDE DEF A, N, c, low
<1>9. \A i \in 1 .. N : c[i] = IF i <= low THEN 0 ELSE A[i][2]
  <2> SUFFICES ASSUME NEW i \in 1 .. N
               PROVE  c[i] = IF i <= low THEN 0 ELSE A[i][2]
    OBVIOUS
  <2>1. N \in 1 .. N
    BY <1>1, <1>4
  <2>2. A[i][1] \in Nat /\ A[N][1] \in Nat
    BY <1>6, <2>1
  <2>3. A[i][1] >= A[N][1] - WindowDuration <=> ~(i <= low)
    BY <1>5, <1>7, <2>2 DEF Old
  <2> QED
    BY <1>8, <2>3
<1>10. \A i \in 1 .. low : c[i] = 0
  <2>1. \A i \in 1 .. low : i \in 1 .. N /\ i <= low
    BY <1>4
  <2> QED
    BY <1>9, <2>1
<1>11. ASSUME NEW i \in 1 .. Len(window') PROVE c[low + i] = window'[i][2]
  <2>1. low + i \in 1 .. N /\ ~(low + i <= low)
    BY <1>4
  <2>2. c[low + i] = A[low + i][2]
    BY <1>9, <2>1
  <2>3. window'[i] = A[low + i]
    BY <1>3, <1>4
  <2> QED
    BY <2>2, <2>3
<1>12. Len(c) = low + Len(window')
  BY <1>2, <1>4
<1>13. SumSeq(c) = Bytes(window')
  BY <1>2, <1>3, <1>4, <1>10, <1>11, <1>12, MaskedSum
<1> QED
  BY <1>2, <1>3, <1>13 DEF N

LEMMA PacketSmoothed ==
  ASSUME ServerInv, SlideInv, Smoothed, smooth_packet
  PROVE  SlideInv' /\ Smoothed'
<1> DEFINE A == arrived_packets
           N == next + 1
<1>1. /\ next < Len(A) /\ next' = N /\ A' = A
      /\ report' = IF bytes_in_window' * 8 * 10 > report
                    THEN bytes_in_window' * 8 * 10 ELSE report
  BY DEF smooth_packet
<1>2. PICK k : Slides(k)
  BY DEF smooth_packet, Slides
<1>3. /\ A \in Seq(Arrival) /\ Len(A) \in Nat /\ Len(window) \in Nat /\ next \in Nat
      /\ Len(window) <= next /\ N \in 1 .. Len(A) /\ k \in 0 .. Len(window)
      /\ report \in Nat /\ (next = 0 => report = 0)
  <2>1. A \in Seq(Arrival)
    BY DEF ServerInv
  <2>2. /\ next \in 0 .. Len(A) /\ window \in Seq(Arrival) /\ Len(window) <= next
        /\ report \in Nat /\ (next = 0 => report = 0)
    BY DEF SlideInv
  <2>3. k \in 0 .. Len(window)
    BY <1>2 DEF Slides
  <2> QED
    BY <1>1, <2>1, <2>2, <2>3
<1>4. /\ window' \in Seq(Arrival) /\ Len(window') = (Len(window) - k) + 1
      /\ \A i \in 1 .. Len(window') : window'[i] = A[(N - Len(window')) + i]
      /\ bytes_in_window' = Bytes(window')
  BY <1>1, <1>2, WindowSlides
<1>5. \A i \in 1 .. N : Old(A[i], A[N][1]) <=> i <= (next - Len(window)) + k
  BY <1>1, <1>2, OldSlides
<1>6. bytes_in_window' = InWindow(N) /\ InWindow(N) \in Nat
  BY <1>1, <1>2, SumSlides
<1>7. \A i \in 1 .. Len(A) : InWindow(i) \in Nat
  BY <1>3, CountedBytes
<1>8. \A i : InWindow(i)' = InWindow(i)
  <2>1. (\A i : InWindow(i) = SumSeq(Counted(arrived_packets, i)))'
    BY InWindowSum, PTL
  <2>2. \A i : InWindow(i)' = SumSeq(Counted(arrived_packets', i))
    BY <2>1
  <2> QED
    BY <1>1, <2>2, InWindowSum
<1>9. report' \in Nat /\ report' >= report /\ report' >= 80 * InWindow(N)
      /\ (report' = report \/ report' = 80 * InWindow(N))
  BY <1>1, <1>3, <1>6
<1>10. SlideInv'
  <2>1. (next' - Len(window')) = (next - Len(window)) + k /\ Len(window') \in Nat
        /\ Len(window') <= next' /\ next' \in 0 .. Len(A') /\ next' # 0
    BY <1>1, <1>3, <1>4
  <2>2. \A i \in 1 .. Len(window') : window'[i] = A'[(next' - Len(window')) + i]
    BY <1>1, <1>4
  <2>3. \A i \in 1 .. next' : Old(A'[i], A'[next'][1]) <=> i <= next' - Len(window')
    BY <1>1, <1>5, <2>1
  <2>4. \A i \in 1 .. next' : Old(A[i], A[next][1])' <=> i <= next' - Len(window')
    BY <2>3 DEF Old
  <2>5. (bytes_in_window = Bytes(window))'
    BY <1>4
  <2> QED
    BY <1>4, <1>9, <2>1, <2>2, <2>4, <2>5 DEF SlideInv
<1>11. \A i \in 1 .. N : report' >= 80 * InWindow(i)
  <2> SUFFICES ASSUME NEW i \in 1 .. N PROVE report' >= 80 * InWindow(i)
    OBVIOUS
  <2>1. CASE i = N
    BY <1>9, <2>1
  <2>2. CASE i # N
    <3>1. i \in 1 .. next /\ next > 0 /\ i \in 1 .. Len(A)
      BY <1>3, <2>2
    <3>2. report >= 80 * InWindow(i) /\ InWindow(i) \in Nat
      BY <1>7, <3>1 DEF Smoothed
    <3> QED
      BY <1>3, <1>9, <3>2
  <2> QED
    BY <2>1, <2>2
<1>12. \E i \in 1 .. N : report' = 80 * InWindow(i)
  <2>1. N \in 1 .. N /\ \A i \in 1 .. next : i \in 1 .. N
    BY <1>3
  <2>2. CASE report' = 80 * InWindow(N)
    BY <2>1, <2>2
  <2>3. CASE report' # 80 * InWindow(N)
    <3>1. next > 0
      BY <1>3, <1>6, <1>9, <2>3
    <3>2. \E i \in 1 .. next : report = 80 * InWindow(i)
      BY <3>1 DEF Smoothed
    <3> QED
      BY <1>9, <2>1, <2>3, <3>2
  <2> QED
    BY <2>2, <2>3
<1>13. Smoothed'
  <2>1. bytes_in_window' = InWindow(next)'
    <3>1. (\A i : InWindow(i) = SumSeq(Counted(arrived_packets, i)))'
      BY InWindowSum, PTL
    <3>2. InWindow(next)' = SumSeq(Counted(arrived_packets', next'))
      BY <3>1
    <3> QED
      BY <1>1, <1>6, <3>2, InWindowSum
  <2>2. \A i \in 1 .. next' : report' >= 80 * InWindow(i)'
    BY <1>1, <1>8, <1>11
  <2>3. \E i \in 1 .. next' : report' = 80 * InWindow(i)'
    BY <1>1, <1>8, <1>12
  <2> QED
    BY <2>1, <2>2, <2>3 DEF Smoothed
<1> QED
  BY <1>10, <1>13

----------------------------------------------------------------------------
(* The server *)

\* Times are recorded in order.
InOrder(A, t) ==
  /\ \A i \in 1 .. Len(A) : A[i][1] <= t
  /\ \A i, j \in 1 .. Len(A) : i <= j => A[i][1] <= A[j][1]

LEMMA RecordedInOrder ==
  ASSUME NEW A \in Seq(Arrival), NEW t \in Nat, InOrder(A, t), NEW n \in Nat,
         NEW b \in [1 .. n -> Sizes]
  PROVE  LET B == A \o [k \in 1 .. n |-> <<t, b[k]>>]
         IN  B \in Seq(Arrival) /\ InOrder(B, t)
<1> DEFINE r == [k \in 1 .. n |-> <<t, b[k]>>]
           B == A \o r
<1>1. \A k \in 1 .. n : <<t, b[k]>> \in Arrival
  BY DEF Arrival
<1>2. r \in Seq(Arrival) /\ Len(r) = n /\ \A k \in 1 .. n : r[k][1] = t
  BY <1>1
<1>3. /\ B \in Seq(Arrival) /\ Len(B) = Len(A) + n /\ Len(A) \in Nat
      /\ \A i \in 1 .. Len(B) : B[i] = IF i <= Len(A) THEN A[i] ELSE r[i - Len(A)]
  BY <1>2, ConcatProperties
<1>4. \A i \in 1 .. Len(A) : A[i][1] \in Nat /\ A[i][1] <= t
  <2>1. \A i \in 1 .. Len(A) : A[i] \in Arrival
    BY ElementOfSeq
  <2> QED
    BY <2>1 DEF Arrival, InOrder
<1> HIDE DEF r, B
<1>5. ASSUME NEW i \in 1 .. Len(B)
      PROVE  /\ i \in 1 .. Len(A) => B[i][1] = A[i][1]
             /\ i \notin 1 .. Len(A) => B[i][1] = t
  <2>1. CASE i \in 1 .. Len(A)
    BY <1>3, <2>1
  <2>2. CASE i \notin 1 .. Len(A)
    <3>1. ~(i <= Len(A)) /\ i - Len(A) \in 1 .. n
      BY <1>3, <2>2
    <3> QED
      BY <1>2, <1>3, <2>2, <3>1
  <2> QED
    BY <2>1, <2>2
<1>6. \A i \in 1 .. Len(B) : B[i][1] <= t
  BY <1>4, <1>5
<1>7. ASSUME NEW i \in 1 .. Len(B), NEW j \in 1 .. Len(B), i <= j
      PROVE  B[i][1] <= B[j][1]
  <2>1. CASE j \in 1 .. Len(A)
    <3>1. i \in 1 .. Len(A)
      BY <1>3, <1>7, <2>1
    <3> QED
      BY <1>5, <1>7, <2>1, <3>1 DEF InOrder
  <2>2. CASE j \notin 1 .. Len(A)
    BY <1>5, <1>6, <2>2
  <2> QED
    BY <2>1, <2>2
<1> QED
  BY <1>3, <1>6, <1>7 DEF B, r, InOrder

\* The invariant of the server, without the packets it has recorded
Serving ==
  /\ now \in Nat
  /\ inbox \in Seq(Arrival)
  /\ Cancelled \/ server = "done" => now >= Duration
  /\ server \in {"running", "waiting", "done"}
  /\ main \in {"sleeping", "joining", "reporting", "reported"}
  /\ main \in {"sleeping", "joining"} => next = 0
  /\ main \in {"reporting", "reported"} => server = "done"
  /\ RecordedOnArrival

LEMMA ServerParts ==
  ServerInv <=> Serving /\ arrived_packets \in Seq(Arrival) /\ InOrder(arrived_packets, now)
  BY DEF ServerInv, Serving, InOrder

LEMMA ServingStops ==
  ASSUME Serving, server_stops PROVE Serving'
<1>1. Duration \in Nat
  BY ThroughputAssumption
<1>2. /\ now' = now /\ inbox' = inbox /\ main' = main /\ next' = next /\ server = "running"
      /\ server' = "done" /\ cancelled' = cancelled /\ notified' = notified /\ now >= Duration
  BY DEF server_stops, reportVars, Serving
<1>3. \A k \in DOMAIN inbox : inbox[k][1] = now
  BY <1>2 DEF Serving, RecordedOnArrival
<1>4. RecordedOnArrival'
  BY <1>2, <1>3 DEF RecordedOnArrival
<1> QED
  BY <1>2, <1>4 DEF Serving, Cancelled

LEMMA ServingReceives ==
  ASSUME Serving, server_receives PROVE Serving'
<1> DEFINE n == IF Len(inbox) < MAX_READ THEN Len(inbox) ELSE MAX_READ
<1>1. /\ now' = now /\ inbox' = SubSeq(inbox, n + 1, Len(inbox)) /\ main' = main /\ next' = next
      /\ server = "running" /\ server' = server /\ cancelled' = cancelled /\ notified' = notified
  BY DEF server_receives, reportVars
<1>2. inbox \in Seq(Arrival) /\ Len(inbox) \in Nat /\ \A k \in 1 .. Len(inbox) : inbox[k][1] = now
  BY <1>1 DEF Serving, RecordedOnArrival
<1>3. /\ n + 1 \in Nat /\ 1 <= n + 1 /\ n + 1 <= Len(inbox) + 1 /\ Len(inbox) <= Len(inbox)
      /\ n \in Nat
  BY <1>2, ThroughputAssumption
<1> HIDE DEF n
<1>4. /\ inbox' \in Seq(Arrival) /\ Len(inbox') = (Len(inbox) - (n + 1)) + 1
      /\ \A i \in 1 .. (Len(inbox) - (n + 1)) + 1 : inbox'[i] = inbox[((n + 1) - 1) + i]
  BY <1>1, <1>2, <1>3, RangeOf
<1>5. ASSUME NEW k \in DOMAIN inbox' PROVE inbox'[k][1] = now
  <2>1. k \in 1 .. Len(inbox')
    BY <1>4, LenProperties
  <2>2. k \in 1 .. (Len(inbox) - (n + 1)) + 1 /\ ((n + 1) - 1) + k \in 1 .. Len(inbox)
    BY <1>2, <1>3, <1>4, <2>1
  <2> QED
    BY <1>2, <1>4, <2>2
<1>6. RecordedOnArrival'
  BY <1>1, <1>5 DEF RecordedOnArrival
<1> QED
  BY <1>1, <1>4, <1>6 DEF Serving, Cancelled

LEMMA ServingDelivers ==
  ASSUME Serving, NEW b \in Sizes, deliver(b) PROVE Serving'
<1>1. /\ now' = now /\ inbox' = Append(inbox, <<now, b>>) /\ main' = main /\ next' = next
      /\ server' = server /\ cancelled' = cancelled /\ notified' = notified
  BY DEF deliver, reportVars
<1>2. <<now, b>> \in Arrival /\ inbox \in Seq(Arrival) /\ Len(inbox) \in Nat
  BY DEF Serving, Arrival
<1>3. /\ inbox' \in Seq(Arrival) /\ Len(inbox') = Len(inbox) + 1
      /\ inbox'[Len(inbox) + 1] = <<now, b>>
      /\ \A i \in 1 .. Len(inbox) : inbox'[i] = inbox[i]
  BY <1>1, <1>2, AppendProperties
<1>4. ASSUME NEW k \in DOMAIN inbox'
      PROVE  IF server = "done" THEN inbox'[k][1] >= Duration ELSE inbox'[k][1] = now
  <2>1. k \in 1 .. Len(inbox) + 1
    BY <1>3, LenProperties
  <2>2. CASE k = Len(inbox) + 1
    <3>1. inbox'[k][1] = now
      BY <1>3, <2>2
    <3> QED
      BY <3>1 DEF Serving
  <2>3. CASE k # Len(inbox) + 1
    <3>1. k \in 1 .. Len(inbox) /\ k \in DOMAIN inbox
      BY <1>2, <2>1, <2>3, LenProperties
    <3>2. inbox'[k] = inbox[k]
      BY <1>3, <3>1
    <3> QED
      BY <3>1, <3>2 DEF Serving, RecordedOnArrival
  <2> QED
    BY <2>2, <2>3
<1>5. RecordedOnArrival'
  BY <1>1, <1>4 DEF RecordedOnArrival
<1> QED
  BY <1>1, <1>3, <1>5 DEF Serving, Cancelled

\* Time moves only when the server has read everything, or is done.
LEMMA ServingTicks ==
  ASSUME Serving, Tick PROVE Serving'
<1>1. /\ now' = now + 1 /\ inbox' = inbox /\ main' = main /\ next' = next
      /\ server' = server /\ cancelled' = cancelled /\ notified' = notified
      /\ server # "running" /\ ~ServerWoken
  BY DEF Tick, TaskReady, reportVars
<1>2. server = "done" \/ inbox = <<>>
  BY <1>1 DEF ServerWoken, Serving
<1>3. RecordedOnArrival'
  <2>1. CASE server = "done"
    BY <1>1, <2>1 DEF Serving, RecordedOnArrival
  <2>2. CASE inbox = <<>>
    <3>1. DOMAIN inbox = {}
      BY <2>2
    <3> QED
      BY <1>1, <3>1 DEF RecordedOnArrival
  <2> QED
    BY <1>2, <2>1, <2>2
<1>4. now' \in Nat /\ (now >= Duration => now' >= Duration)
  BY <1>1, ThroughputAssumption DEF Serving
<1> QED
  BY <1>1, <1>3, <1>4 DEF Serving, Cancelled

\* What the other tasks do
LEMMA ServingStays ==
  ASSUME Serving,
         server_waits \/ server_wakes \/ sender_sends \/ sender_stops
           \/ cancel_server \/ join_server \/ print_report
           \/ smooth_packet \/ UNCHANGED vars
  PROVE  Serving'
<1>1. now' = now /\ inbox' = inbox /\ (server' = "done" <=> server = "done")
      /\ server' \in {"running", "waiting", "done"}
  BY DEF Serving, server_waits, server_wakes, ServerWoken, sender_sends, sender_stops, cancel_server,
         join_server, print_report, smooth_packet, vars, reportVars
<1>2. RecordedOnArrival'
  BY <1>1 DEF Serving, RecordedOnArrival
<1>3. Cancelled' \/ server' = "done" => now' >= Duration
  <2>1. CASE cancel_server
    BY <1>1, <2>1 DEF cancel_server
  <2>2. CASE ~cancel_server
    <3>1. cancelled' = cancelled /\ notified' = notified
      BY <2>2 DEF server_waits, server_wakes, sender_sends, sender_stops,
                  join_server, print_report, smooth_packet, vars
    <3> QED
      BY <1>1, <3>1 DEF Serving, Cancelled
  <2> QED
    BY <2>1, <2>2
<1>4. /\ main' \in {"sleeping", "joining"} => next' = 0
      /\ main' \in {"sleeping", "joining", "reporting", "reported"}
  BY DEF Serving, server_waits, server_wakes, sender_sends, sender_stops, cancel_server,
         join_server, print_report, smooth_packet, vars, reportVars
<1>5. main' \in {"reporting", "reported"} => server' = "done"
  BY <1>1 DEF Serving, server_waits, server_wakes, sender_sends, sender_stops, cancel_server,
         join_server, print_report, smooth_packet, vars, reportVars
<1> QED
  BY <1>1, <1>2, <1>3, <1>4, <1>5 DEF Serving

----------------------------------------------------------------------------
(* Every step *)

\* A batch is recorded before the report begins.
LEMMA BatchRecorded ==
  ASSUME ServerInv, SlideInv, Smoothed, server_receives
  PROVE  ServerInv' /\ SlideInv' /\ Smoothed'
<1> DEFINE A == arrived_packets
           n == IF Len(inbox) < MAX_READ THEN Len(inbox) ELSE MAX_READ
           b == [k \in 1 .. n |-> inbox[k][2]]
           B == A \o [k \in 1 .. n |-> <<now, b[k]>>]
<1>1. Serving /\ A \in Seq(Arrival) /\ InOrder(A, now) /\ now \in Nat /\ inbox \in Seq(Arrival)
  BY ServerParts DEF Serving
<1>2. Len(inbox) \in Nat /\ n \in Nat /\ n <= Len(inbox)
  BY <1>1, ThroughputAssumption
<1>3. b \in [1 .. n -> Sizes]
  <2>1. \A k \in 1 .. n : k \in 1 .. Len(inbox)
    BY <1>2
  <2>2. \A k \in 1 .. n : inbox[k] \in Arrival
    BY <1>1, <2>1, ElementOfSeq
  <2> QED
    BY <2>2 DEF Arrival
<1>4. B \in Seq(Arrival) /\ InOrder(B, now)
  BY <1>1, <1>2, <1>3, RecordedInOrder
<1>5. A' = B /\ now' = now
  <2>1. [k \in 1 .. n |-> <<now, b[k]>>] = [k \in 1 .. n |-> <<now, inbox[k][2]>>]
    OBVIOUS
  <2> QED
    BY <2>1 DEF server_receives
<1>6. Serving'
  BY <1>1, ServingReceives
<1>7. ServerInv'
  <2>1. (Serving /\ arrived_packets \in Seq(Arrival) /\ InOrder(arrived_packets, now))'
    BY <1>4, <1>5, <1>6 DEF InOrder
  <2>2. (ServerInv <=> Serving /\ arrived_packets \in Seq(Arrival)
                       /\ InOrder(arrived_packets, now))'
    BY ServerParts, PTL
  <2> QED
    BY <2>1, <2>2
<1>8. /\ next' = next /\ window' = window /\ bytes_in_window' = bytes_in_window /\ report' = report
      /\ server = "running" /\ main' = main
  BY DEF server_receives, reportVars
<1> HIDE DEF n, b, B
<1>9. next = 0
  <2>1. main \in {"sleeping", "joining"}
    BY <1>1, <1>8 DEF Serving
  <2> QED
    BY <1>1, <2>1 DEF Serving
<1>10. Len(window) = 0 /\ window \in Seq(Arrival) /\ Len(B) \in Nat
  <2>1. window \in Seq(Arrival) /\ Len(window) <= 0
    BY <1>9 DEF SlideInv
  <2>2. Len(window) \in Nat /\ Len(B) \in Nat
    BY <1>4, <2>1
  <2> QED
    BY <2>1, <2>2
<1>11. SlideInv'
  <2>1. \A i : i \notin 1 .. 0
    OBVIOUS
  <2>2. next' \in 0 .. Len(A') /\ Len(window') <= next' /\ window' \in Seq(Arrival)
        /\ 1 .. Len(window') = 1 .. 0 /\ 1 .. next' = 1 .. 0
    BY <1>5, <1>8, <1>9, <1>10
  <2>3. (bytes_in_window = Bytes(window))'
    BY <1>8 DEF SlideInv
  <2>4. (report \in Nat /\ (next = 0 => report = 0))'
    BY <1>8 DEF SlideInv
  <2> QED
    BY <2>1, <2>2, <2>3, <2>4 DEF SlideInv
<1>12. Smoothed'
  BY <1>8, <1>9 DEF Smoothed
<1> QED
  BY <1>7, <1>11, <1>12

\* Nothing but a batch changes what is recorded.
LEMMA RecordKept ==
  ASSUME ServerInv, Serving', UNCHANGED arrived_packets, now' \in {now, now + 1}
  PROVE  ServerInv'
<1>1. arrived_packets \in Seq(Arrival) /\ InOrder(arrived_packets, now) /\ now \in Nat
  BY ServerParts DEF Serving
<1>2. \A i \in 1 .. Len(arrived_packets) : arrived_packets[i][1] \in Nat
  <2>1. \A i \in 1 .. Len(arrived_packets) : arrived_packets[i] \in Arrival
    BY <1>1, ElementOfSeq
  <2> QED
    BY <2>1 DEF Arrival
<1>3. InOrder(arrived_packets, now')
  BY <1>1, <1>2 DEF InOrder
<1>4. (Serving /\ arrived_packets \in Seq(Arrival) /\ InOrder(arrived_packets, now))'
  BY <1>1, <1>3 DEF InOrder
<1>5. (ServerInv <=> Serving /\ arrived_packets \in Seq(Arrival)
                     /\ InOrder(arrived_packets, now))'
  BY ServerParts, PTL
<1> QED
  BY <1>4, <1>5

LEMMA ThroughputStep ==
  ASSUME ServerInv, SlideInv, Smoothed, [ThroughputNext]_vars
  PROVE  ServerInv' /\ SlideInv' /\ Smoothed'
<1>1. Serving
  BY ServerParts
<1>2. CASE server_receives
  BY <1>2, BatchRecorded
<1>3. CASE smooth_packet
  <2>1. Serving' /\ UNCHANGED arrived_packets /\ now' \in {now, now + 1}
    BY <1>1, <1>3, ServingStays DEF smooth_packet
  <2> QED
    BY <1>3, <2>1, RecordKept, PacketSmoothed
<1>4. CASE ~server_receives /\ ~smooth_packet
  <2>1. UNCHANGED <<arrived_packets, reportVars>> /\ Serving' /\ now' \in {now, now + 1}
    <3>1. CASE server_stops
      BY <1>1, <3>1, ServingStops DEF server_stops
    <3>2. CASE server_waits
      BY <1>1, <3>2, ServingStays DEF server_waits
    <3>3. CASE server_wakes
      BY <1>1, <3>3, ServingStays DEF server_wakes
    <3>4. CASE sender_sends
      BY <1>1, <3>4, ServingStays DEF sender_sends
    <3>5. CASE sender_stops
      BY <1>1, <3>5, ServingStays DEF sender_stops
    <3>6. CASE cancel_server
      BY <1>1, <3>6, ServingStays DEF cancel_server
    <3>7. CASE join_server
      BY <1>1, <3>7, ServingStays DEF join_server
    <3>8. CASE print_report
      BY <1>1, <3>8, ServingStays DEF print_report
    <3>9. CASE \E b \in Sizes : deliver(b)
      <4>1. PICK b \in Sizes : deliver(b)
        BY <3>9
      <4> QED
        BY <1>1, <4>1, ServingDelivers DEF deliver
    <3>10. CASE Tick
      BY <1>1, <3>10, ServingTicks DEF Tick
    <3>11. CASE UNCHANGED vars
      BY <1>1, <3>11, ServingStays DEF vars
    <3> QED
      BY <1>4, <3>1, <3>2, <3>3, <3>4, <3>5, <3>6, <3>7, <3>8, <3>9, <3>10, <3>11
         DEF ThroughputNext, Server, Main
  <2>2. ServerInv'
    BY <2>1, RecordKept
  <2> QED
    BY <2>1, <2>2, ReportKept
<1> QED
  BY <1>2, <1>3, <1>4

LEMMA ThroughputStart ==
  ASSUME ThroughputInit
  PROVE  ServerInv /\ SlideInv /\ Smoothed
<1>1. /\ now = 0 /\ inbox = <<>> /\ arrived_packets = <<>> /\ main = "sleeping"
      /\ server = "running" /\ next = 0 /\ window = <<>> /\ bytes_in_window = 0 /\ report = 0
      /\ ~Cancelled
  BY DEF ThroughputInit, Cancelled
<1>2. <<>> \in Seq(Arrival) /\ Len(<<>>) = 0 /\ DOMAIN <<>> = {}
  OBVIOUS
<1>3. ServerInv
  BY <1>1, <1>2 DEF ServerInv, RecordedOnArrival
<1>4. Bytes(<<>>) = 0
  <2>1. /\ Loads(<<>>) \in Seq(Int) /\ Len(Loads(<<>>)) = 0
        /\ Bytes(<<>>) = SumSeq(Loads(<<>>))
    BY <1>2, LoadsOf
  <2>2. \A i \in 1 .. Len(Loads(<<>>)) : Loads(<<>>)[i] = 0
    BY <2>1
  <2> QED
    BY <2>1, <2>2, SumOfZeros
<1>5. SlideInv
  BY <1>1, <1>2, <1>4 DEF SlideInv
<1>6. Smoothed
  BY <1>1 DEF Smoothed
<1> QED
  BY <1>3, <1>5, <1>6

\* Whatever the network delivers and when, and for every rate, packet size,
\* duration and length of the window: the server records packets at the instant
\* they were readable, the running sum of the report is the number of bytes in
\* the window that ends with the last packet looked at, and
\* max_smoothed_throughput_bps is the best of these windows.
THEOREM WindowsAreExact == ThroughputSpec => []WindowIsExact
<1>1. ThroughputInv <=> ServerInv /\ SlideInv /\ Smoothed
  BY WindowParts DEF ThroughputInv, ServerInv
<1>2. ThroughputInit => ThroughputInv
  BY <1>1, ThroughputStart
<1>3. ThroughputInv /\ [ThroughputNext]_vars => ServerInv' /\ SlideInv' /\ Smoothed'
  BY <1>1, ThroughputStep
<1>4. ThroughputInv => WindowIsExact
  BY DEF ThroughputInv
<1> QED
  BY <1>1, <1>2, <1>3, <1>4, PTL DEF ThroughputSpec
=============================================================================
