----------------------------- MODULE AudioQueue -----------------------------
(***************************************************************************)
(* What the queues of audio packets in NXCordAudioPlayer and               *)
(* NXCordAudioCapture have in common.  A packet is [seq, time]: its number *)
(* among the packets of its source, standing for the samples, and the      *)
(* instant its AudioPacket was constructed.                                *)
(***************************************************************************)
EXTENDS Integers, Sequences

CONSTANTS QueueLimit,  \* packets that may be waiting before a push: 5 and 10
          MaxAge,      \* 100 ms
          MaxTime,     \* bound: last value of the clock
          MaxPackets   \* bound: packets per source

ASSUME AudioAssumption == /\ QueueLimit \in Nat /\ MaxAge \in Nat
                          /\ MaxTime \in Nat /\ MaxPackets \in Nat

Packet == [seq : 1..MaxPackets, time : 0..MaxTime]

\* Mutant: only a much longer queue is shortened.
TrimLate(q) == IF Len(q) > QueueLimit + 1 THEN SubSeq(q, Len(q) - QueueLimit + 1, Len(q)) ELSE q

\* while (queue.size() > QueueLimit) queue.pop();
Trim(q) == IF Len(q) > QueueLimit THEN SubSeq(q, Len(q) - QueueLimit + 1, Len(q)) ELSE q

\* Mutant: a packet is given up one clock step early.
ExpiredEarly(p, clock) == clock - p.time >= MaxAge

\* clock is what the thread read before it took the lock, so the packet may
\* be younger than that: the age is negative then, not huge (time_t is signed).
Expired(p, clock) == clock - p.time > MaxAge
=============================================================================
