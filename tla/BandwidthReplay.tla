-------------------------- MODULE BandwidthReplay --------------------------
(***************************************************************************)
(* The pacer's sends as the simulation verifier replays them: the          *)
(* bandwidth window of ReplayedLink                                        *)
(* (in-memory-network/src/tracing/simulation_verifier.rs) run beside the   *)
(* pacer that produced the sends.  Transmission time stands for bits, so   *)
(* that a link of Window ticks per second carries Window ticks' worth of   *)
(* bits per second and "usage exceeds the bandwidth" is "the packets in    *)
(* the window need more than Window ticks".                                *)
(*                                                                         *)
(* For links below 9984 bit/s the code takes a window of ten seconds and   *)
(* divides the sum by ten before it compares it with the bandwidth.  Both  *)
(* sides are kept for the whole window here, whatever its length: Window   *)
(* is then ten seconds.                                                    *)
(***************************************************************************)
EXTENDS PacketPacer, SequencesExt

CONSTANT Window     \* the verifier's window in ticks: one second, or ten

ASSUME WindowAssumption == Window \in Nat \ {0}

VARIABLES packets_in_bandwidth_window,   \* Seq of [at, d], oldest first
          bandwidth_usage_bps            \* running sum over them

windowVars == <<packets_in_bandwidth_window, bandwidth_usage_bps>>
replayVars == <<vars, windowVars>>

ReplayInit == Init /\ packets_in_bandwidth_window = <<>> /\ bandwidth_usage_bps = 0

Bits(packets) == FoldLeft(+, 0, [i \in 1 .. Len(packets) |-> packets[i].d])

\* ReplayedLink::packet_sent: while the packet in front is older than the window
\* it is popped, which happens k times; then the new one is pushed at the back.
packet_sent(at, d) ==
  LET packets == packets_in_bandwidth_window
      old(i)  == packets[i].at + Window < at
  IN  \E k \in 0 .. Len(packets) :
        /\ \A i \in 1 .. k : old(i)
        /\ k < Len(packets) => ~old(k + 1)
        /\ packets_in_bandwidth_window' =
             Append(SubSeq(packets, k + 1, Len(packets)), [at |-> at, d |-> d])
        /\ bandwidth_usage_bps' = bandwidth_usage_bps - Bits(SubSeq(packets, 1, k)) + d

ReplaySend == Send /\ packet_sent(now, task.d)

ReplayOther ==
  /\ Tick \/ StartCounting \/ \E d \in PacketDelays : Take(d)
  /\ UNCHANGED windowVars

ReplayNext == ReplaySend \/ ReplayOther

ReplaySpec == ReplayInit /\ [][ReplayNext]_replayVars

----------------------------------------------------------------------------
\* "Links never exceed their configured bandwidth": the verifier's figure does,
\* because it counts the oldest packet of the window in full, but by no more than
\* one burst.  The running sum, unsigned in the code, never underflows.
AlarmWithinBurst == bandwidth_usage_bps \in 0 .. Window + MaxBurst

\* Strengthening that every step preserves: the running sum is the sum, and
\* whichever packet of the window one starts at, the batch covers the time of
\* that packet and of all later ones.
WindowInv ==
  /\ packets_in_bandwidth_window \in Seq([at : Nat, d : Nat])
  /\ bandwidth_usage_bps = Bits(packets_in_bandwidth_window)
  /\ AlarmWithinBurst
  /\ \A j \in 1 .. Len(packets_in_bandwidth_window) :
       Bits(SubSeq(packets_in_bandwidth_window, j, Len(packets_in_bandwidth_window)))
         <= SentAt(batch) - packets_in_bandwidth_window[j].at
=============================================================================
