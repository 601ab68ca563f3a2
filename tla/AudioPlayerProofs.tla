-------------------------- MODULE AudioPlayerProofs --------------------------
(***************************************************************************)
(* Proofs about the player's queues, for any set of sources, limit, age,   *)
(* time and number of packets: their bound, that the map has a key exactly *)
(* for the sources with packets, and that each source's queue implements   *)
(* LossyQueue.  While the player collects, a queue it has just emptied     *)
(* still has its key; KeysShape says which those are.                      *)
(***************************************************************************)
EXTENDS AudioPlayer, TLAPS

\* The player's clock is what it read before it took the lock; a thread that
\* is started does not hold the lock.
ThreadShape == clock <= now /\ (kernel = "created" => body = "off")

\* A key without a packet is one that this frame emptied, and is erased when
\* the frame unlocks; what the loop still has to visit has a packet.
KeysShape == /\ \A s \in Ssrcs : s \in keys <=> queue[s] # <<>> \/ s \in empty
             /\ \A s \in empty : queue[s] = <<>>
             /\ \A s \in todo : queue[s] # <<>>
             /\ ~mutex => empty = {} /\ todo = {}

IInv == TypeOK /\ ThreadShape /\ KeysShape

\* The limit leaves a suffix of the queue.
LEMMA TrimLeaves ==
  ASSUME NEW q \in Seq(Packet)
  PROVE  /\ Trim(q) \in Seq(Packet) /\ Len(Trim(q)) <= QueueLimit
         /\ \E over \in 0..Len(q) :
                /\ Len(q) - over <= QueueLimit
                /\ over > 0 => Len(q) - over = QueueLimit
                /\ Trim(q) = SubSeq(q, over + 1, Len(q))
  <1> USE AudioAssumption
  <1>1. CASE Len(q) > QueueLimit
    <2>1. Trim(q) = SubSeq(q, Len(q) - QueueLimit + 1, Len(q))
      BY <1>1 DEF Trim
    <2>2. Len(q) - QueueLimit \in 0..Len(q)
      BY <1>1
    <2>3. SubSeq(q, Len(q) - QueueLimit + 1, Len(q)) \in Seq(Packet)
      BY <1>1
    <2>4. Len(SubSeq(q, Len(q) - QueueLimit + 1, Len(q))) = QueueLimit
      BY <1>1
    <2>5. \E over \in 0..Len(q) : /\ Len(q) - over <= QueueLimit
                                  /\ over > 0 => Len(q) - over = QueueLimit
                                  /\ Trim(q) = SubSeq(q, over + 1, Len(q))
      <3>1. Len(q) - (Len(q) - QueueLimit) = QueueLimit /\ QueueLimit <= QueueLimit
        BY <1>1
      <3>2. WITNESS Len(q) - QueueLimit \in 0..Len(q)
      <3>3. QED
        BY <2>1, <3>1
    <2>6. Trim(q) \in Seq(Packet) /\ Len(Trim(q)) <= QueueLimit
      BY <2>1, <2>3, <2>4
    <2>7. QED
      BY <2>5, <2>6
  <1>2. CASE Len(q) <= QueueLimit
    <2>1. Trim(q) = q
      BY <1>2 DEF Trim
    <2>2. SubSeq(q, 1, Len(q)) = q
      OBVIOUS
    <2>3. \E over \in 0..Len(q) : /\ Len(q) - over <= QueueLimit
                                  /\ over > 0 => Len(q) - over = QueueLimit
                                  /\ Trim(q) = SubSeq(q, over + 1, Len(q))
      <3>1. WITNESS 0 \in 0..Len(q)
      <3>2. QED
        BY <1>2, <2>1, <2>2
    <2>4. QED
      BY <1>2, <2>1, <2>3
  <1>3. QED
    BY <1>1, <1>2

\* What a pop leaves of a queue.
LEMMA PopLeaves ==
  ASSUME NEW q \in Seq(Packet), q # <<>>
  PROVE  /\ Head(q) \in Packet /\ Tail(q) \in Seq(Packet)
         /\ Len(Tail(q)) = Len(q) - 1 /\ (Tail(q) = <<>> <=> Len(q) = 1)
  <1>1. Len(q) \in Nat \ {0}
    OBVIOUS
  <1>2. Head(q) \in Packet /\ Tail(q) \in Seq(Packet) /\ Len(Tail(q)) = Len(q) - 1
    OBVIOUS
  <1>3. \A t \in Seq(Packet) : t = <<>> <=> Len(t) = 0
    OBVIOUS
  <1>4. QED
    BY <1>1, <1>2, <1>3

LEMMA InitIInv == ASSUME Init PROVE IInv
  <1> USE AudioAssumption, SsrcAssumption DEF Init, ThreadInit
  <1>1. queue \in [Ssrcs -> Seq(Packet)] /\ \A s \in Ssrcs : Len(queue[s]) = 0
    OBVIOUS
  <1>2. sources \in [DOMAIN sources -> Packet] /\ DOMAIN sources = {}
    BY DEF NoSources
  <1>3. active \in BOOLEAN /\ mutex = (body = "collect")
    OBVIOUS
  <1>4. sent \in [Ssrcs -> 0..MaxPackets] /\ played \in [Ssrcs -> 0..MaxPackets]
    OBVIOUS
  <1>5. TypeOK
    BY <1>1, <1>2, <1>3, <1>4 DEF TypeOK, ThreadTypeOK
  <1>6. QED
    BY <1>1, <1>5 DEF IInv, ThreadShape, KeysShape

\* A packet comes in.
LEMMA QueueKeeps == ASSUME IInv, NEW s \in Ssrcs, Queue(s) PROVE IInv'
  <1> USE AudioAssumption DEF Queue, threadVars, frameVars
  <1> DEFINE packet == [seq |-> sent'[s], time |-> now]
  <1>1. sent' \in [Ssrcs -> 0..MaxPackets] /\ packet \in Packet
    BY DEF IInv, TypeOK, Packet
  <1>2. Trim(queue[s]) \in Seq(Packet) /\ Len(Trim(queue[s])) <= QueueLimit
    BY TrimLeaves DEF IInv, TypeOK
  <1> HIDE DEF packet
  <1>3. /\ Append(Trim(queue[s]), packet) \in Seq(Packet)
        /\ Append(Trim(queue[s]), packet) # <<>>
        /\ Len(Append(Trim(queue[s]), packet)) <= QueueLimit + 1
    BY <1>1, <1>2
  <1>4. queue' = [queue EXCEPT ![s] = Append(Trim(queue[s]), packet)]
    BY DEF packet
  <1>5. TypeOK'
    BY <1>1, <1>3, <1>4 DEF IInv, TypeOK, ThreadTypeOK
  <1>6. ThreadShape' /\ KeysShape'
    BY <1>3, <1>4 DEF IInv, TypeOK, ThreadShape, KeysShape
  <1>7. QED
    BY <1>5, <1>6 DEF IInv

\* The player takes a packet out or drops it.
LEMMA PopKeeps == ASSUME IInv, NEW s \in Ssrcs, PopExpired(s) \/ Take(s) PROVE IInv'
  <1>1. PICK finished \in BOOLEAN : Pop(s, finished) /\ s \in todo /\ body = "collect" /\ queue[s] # <<>>
    BY DEF PopExpired, Take, Current
  <1>2. /\ Head(queue[s]) \in Packet /\ Tail(queue[s]) \in Seq(Packet)
        /\ Len(Tail(queue[s])) = Len(queue[s]) - 1
        /\ Tail(queue[s]) = <<>> <=> Len(queue[s]) = 1
    BY <1>1, PopLeaves DEF IInv, TypeOK
  <1>3. queue' = [queue EXCEPT ![s] = Tail(queue[s])]
    BY <1>1 DEF Pop
  <1>4. DOMAIN sources' \subseteq Ssrcs /\ sources' \in [DOMAIN sources' -> Packet]
    BY <1>2 DEF PopExpired, Take, IInv, TypeOK
  <1>5. TypeOK'
    <2>1. /\ queue' \in [Ssrcs -> Seq(Packet)]
          /\ \A t \in Ssrcs : Len(queue'[t]) <= QueueLimit + 1
      <3>1. queue \in [Ssrcs -> Seq(Packet)] /\ \A t \in Ssrcs : Len(queue[t]) <= QueueLimit + 1
        BY DEF IInv, TypeOK
      <3>2. Len(Tail(queue[s])) <= QueueLimit + 1
        BY <1>2, <3>1, AudioAssumption
      <3>3. QED
        BY <1>2, <1>3, <3>1, <3>2
    <2>2. todo' \subseteq Ssrcs /\ empty' \subseteq Ssrcs
      BY <1>1 DEF Pop, IInv, TypeOK
    <2>3. UNCHANGED <<active, kernel, owner, body, now, keys, sent, mutex, clock, played>>
      BY <1>1 DEF Pop, threadVars
    <2>4. mutex' = (body' = "collect")
      BY <2>3 DEF IInv, TypeOK
    <2>6. active' \in BOOLEAN /\ kernel' \in {"created", "running", "exited"}
      BY <2>3 DEF IInv, TypeOK, ThreadTypeOK
    <2>5. QED
      BY <1>4, <2>1, <2>2, <2>3, <2>4, <2>6 DEF IInv, TypeOK, ThreadTypeOK
  <1>6. ThreadShape' /\ KeysShape'
    BY <1>1, <1>2, <1>3 DEF Pop, threadVars, IInv, TypeOK, ThreadShape, KeysShape
  <1>7. QED
    BY <1>5, <1>6 DEF IInv

LEMMA StepIInv == ASSUME IInv, [Next]_vars PROVE IInv'
  <1> USE AudioAssumption, SsrcAssumption DEF IInv, TypeOK, ThreadTypeOK, ThreadShape, KeysShape,
        threadVars, queueVars, frameVars
  <1>1. CASE LoopCheck("clock") /\ UNCHANGED <<now, queueVars, frameVars>>
    BY <1>1 DEF LoopCheck
  <1>2. CASE ReadClock
    BY <1>2 DEF ReadClock
  <1>3. CASE Lock
    BY <1>3 DEF Lock
  <1>4. CASE Unlock
    BY <1>4 DEF Unlock, Leave
  <1>5. CASE Play
    <2>1. sources' \in [DOMAIN sources' -> Packet] /\ DOMAIN sources' = {}
      BY <1>5 DEF Play, NoSources
    <2>2. played' \in [Ssrcs -> 0..MaxPackets]
      BY <1>5 DEF Play, Packet
    <2>3. QED
      BY <1>5, <2>1, <2>2 DEF Play
  <1>6. CASE OwnerStep
    <2> DEFINE Rest == UNCHANGED <<now, queueVars, frameVars>>
    <2>1. CASE (StartFlag \/ StartFails \/ StopFlag \/ StopperDone \/ Joined) /\ Rest
      BY <2>1 DEF StartFlag, StartFails, StopFlag, StopperDone, Joined
    <2>2. CASE ThreadStarts /\ Rest
      BY <2>2 DEF ThreadStarts
    <2>3. QED
      BY <1>6, <2>1, <2>2 DEF OwnerStep
  <1>7. CASE Release
    BY <1>7 DEF Release
  <1>8. CASE Pass
    BY <1>8 DEF Pass
  <1>9. CASE UNCHANGED vars
    BY <1>9 DEF vars
  <1>10. QED
    BY <1>1, <1>2, <1>3, <1>4, <1>5, <1>6, <1>7, <1>8, <1>9, QueueKeeps, PopKeeps DEF Next, PlayerStep
-----------------------------------------------------------------------------
\* No queue holds more than QueueLimit + 1 packets, and every state is well typed.
THEOREM Typing == Spec => []TypeOK
  <1>1. IInv => TypeOK
    BY DEF IInv
  <1>2. QED
    BY <1>1, InitIInv, StepIInv, PTL DEF Spec

\* While the player does not hold the lock the map has a key exactly for the
\* sources with packets.
THEOREM KeysExact == Spec => []KeysHavePackets
  <1>1. IInv => KeysHavePackets
    BY DEF IInv, TypeOK, KeysShape, KeysHavePackets
  <1>2. QED
    BY <1>1, InitIInv, StepIInv, PTL DEF Spec

\* The player's loop over the map finds a packet behind every key it visits,
\* so the code's branch for an empty queue is not taken.
THEOREM FrontBehindKeys == Spec => [](\A s \in todo : queue[s] # <<>>)
  <1>1. IInv => \A s \in todo : queue[s] # <<>>
    BY DEF IInv, KeysShape
  <1>2. QED
    BY <1>1, InitIInv, StepIInv, PTL DEF Spec
-----------------------------------------------------------------------------
\* The last packet of s that came out: last of the refinement mapping.
LastOf(s) == IF s \in DOMAIN sources THEN sources[s].seq ELSE played[s]

\* A push is the Put of its source.
LEMMA QueuePuts == ASSUME IInv, NEW s \in Ssrcs, Queue(s) PROVE Source(s)!Put
  <1> USE AudioAssumption DEF IInv, TypeOK, Queue, frameVars, threadVars
  <1>1. sent[s] < MaxPackets /\ sent'[s] = sent[s] + 1 /\ now \in 0..now
    OBVIOUS
  <1>2. PICK over \in 0..Len(queue[s]) :
           /\ Len(queue[s]) - over <= QueueLimit
           /\ over > 0 => Len(queue[s]) - over = QueueLimit
           /\ Trim(queue[s]) = SubSeq(queue[s], over + 1, Len(queue[s]))
    BY TrimLeaves
  <1>3. queue'[s] = Append(SubSeq(queue[s], over + 1, Len(queue[s])), [seq |-> sent'[s], time |-> now])
    BY <1>2
  <1>4. QED
    BY <1>1, <1>2, <1>3 DEF Source!Put

\* What the loop takes is the Get of its source, what it drops as too old is a
\* Lose: the clock it compares with is not ahead.
LEMMA PopGetsOrLoses ==
  ASSUME IInv, NEW s \in Ssrcs, PopExpired(s) \/ Take(s)
  PROVE  Source(s)!Get \/ Source(s)!Lose
  <1> USE DEF IInv, TypeOK, ThreadShape, Pop, threadVars
  <1>1. Head(queue[s]) \in Packet /\ queue[s] # <<>>
    BY PopLeaves DEF PopExpired, Take
  <1>2. CASE PopExpired(s)
    <2>1. now - Head(queue[s]).time > MaxAge
      <3>1. Head(queue[s]).time \in Int /\ clock \in Int /\ now \in Int /\ clock <= now
        BY <1>1, AudioAssumption DEF Packet
      <3>2. clock - Head(queue[s]).time > MaxAge
        BY <1>2 DEF PopExpired, Expired
      <3>3. QED
        BY <3>1, <3>2, AudioAssumption
    <2>2. Source(s)!Lose
      BY <1>1, <1>2, <2>1 DEF PopExpired, Source!Lose
    <2>3. QED
      BY <2>2
  <1>3. CASE Take(s)
    <2>1. Source(s)!Get
      BY <1>1, <1>3 DEF Take, Source!Get
    <2>2. QED
      BY <2>1
  <1>4. QED
    BY <1>2, <1>3

\* Every step is, for each source, a step of its LossyQueue or none.
LEMMA StepImplements ==
  ASSUME IInv, [Next]_vars, NEW s \in Ssrcs PROVE [Source(s)!Next]_(Source(s)!vars)
  <1> USE DEF threadVars, queueVars, frameVars
  <1>1. CASE Queue(s)
    BY <1>1, QueuePuts DEF Source!Next
  <1>2. CASE PopExpired(s) \/ Take(s)
    BY <1>2, PopGetsOrLoses DEF Source!Next
  <1>3. CASE Pass
    <2>1. now' \in now + 1 .. MaxTime
      BY <1>3, AudioAssumption DEF Pass, IInv, TypeOK
    <2>3. Source(s)!Pass
      BY <1>3, <2>1 DEF Pass, Source!Pass
    <2>2. QED
      BY <2>3 DEF Source!Next
  <1>4. CASE UNCHANGED <<now, queue[s], sent[s]>> /\ LastOf(s)' = LastOf(s)
    BY <1>4 DEF Source!vars, LastOf
  <1>5. ASSUME NEW t \in Ssrcs, t # s, Queue(t) \/ PopExpired(t) \/ Take(t)
        PROVE  UNCHANGED <<now, queue[s], sent[s]>> /\ LastOf(s)' = LastOf(s)
    BY <1>5 DEF Queue, PopExpired, Take, Pop, LastOf, IInv, TypeOK
  <1>6. CASE Play
    <2>1. LastOf(s)' = LastOf(s)
      BY <1>6 DEF Play, NoSources, LastOf, IInv, TypeOK
    <2>2. QED
      BY <1>4, <1>6, <2>1 DEF Play
  <1>7. ASSUME \/ LoopCheck("clock") /\ UNCHANGED <<now, queueVars, frameVars>>
               \/ ReadClock \/ Lock \/ Unlock \/ OwnerStep \/ Release \/ UNCHANGED vars
        PROVE  UNCHANGED <<now, queue[s], sent[s]>> /\ LastOf(s)' = LastOf(s)
    BY <1>7 DEF ReadClock, Lock, Unlock, Leave, OwnerStep, Release, vars, LastOf
  <1>8. QED
    BY <1>1, <1>2, <1>3, <1>4, <1>5, <1>6, <1>7 DEF Next, PlayerStep

\* Each source's queue implements LossyQueue: what is heard of a speaker is in
\* order, nothing is heard twice and nothing is dropped without cause.
THEOREM Implements == Spec => KeepsPromises
  <1>1. Init => \A s \in Ssrcs : Source(s)!Init
    BY DEF Init, NoSources, Source!Init
  <1>2. IInv /\ [Next]_vars => [\A s \in Ssrcs : [Source(s)!Next]_(Source(s)!vars)]_vars
    BY StepImplements
  <1>3. QED
    BY <1>1, <1>2, InitIInv, StepIInv, PTL DEF Spec, KeepsPromises
=============================================================================
