------------------------- MODULE AudioCaptureProofs -------------------------
(***************************************************************************)
(* Proofs about the microphone's queue, for any limit, age, time and       *)
(* number of recordings: its bound, and that the two threads with their    *)
(* lock implement LossyQueue.  Needed for both is that a packet on its way *)
(* to the queue was made before (PacketOnItsWay) and that poll()'s clock   *)
(* is not ahead.                                                           *)
(***************************************************************************)
EXTENDS AudioCapture, TLAPS

\* Both threads read the clock first, so what they read is past; a packet
\* about to be pushed is the last one recorded.
PacketOnItsWay ==
    /\ packet \in [seq : 0..MaxPackets, time : 0..MaxTime]
    /\ packet.time <= now /\ clock <= now
    /\ body \in {"lock", "push"} => recorded >= 1

\* The thread function does not run before the thread was started, so a start
\* does not cut into a push.
NotBeforeStart == kernel = "created" => body = "off"

IInv == TypeOK /\ PacketOnItsWay /\ NotBeforeStart

\* The limit leaves a suffix of the queue.
LEMMA TrimLeaves ==
  ASSUME NEW q \in Seq(Packet)
  PROVE  /\ Trim(q) \in Seq(Packet) /\ Len(Trim(q)) <= QueueLimit
         /\ \E over \in 0..Len(q) :
                /\ Len(q) - over <= QueueLimit
                /\ over > 0 => Len(q) - over = QueueLimit
                /\ Trim(q) = SubSeq(q, over + 1, Len(q))
  <1> USE AudioAssumption
  <1>1. CASE Len(q) > QueueLimit
    <2>1. Trim(q) = SubSeq(q, Len(q) - QueueLimit + 1, Len(q))
      BY <1>1 DEF Trim
    <2>2. Len(q) - QueueLimit \in 0..Len(q)
      BY <1>1
    <2>3. SubSeq(q, Len(q) - QueueLimit + 1, Len(q)) \in Seq(Packet)
      BY <1>1
    <2>4. Len(SubSeq(q, Len(q) - QueueLimit + 1, Len(q))) = QueueLimit
      BY <1>1
    <2>5. \E over \in 0..Len(q) : /\ Len(q) - over <= QueueLimit
                                  /\ over > 0 => Len(q) - over = QueueLimit
                                  /\ Trim(q) = SubSeq(q, over + 1, Len(q))
      <3>1. Len(q) - (Len(q) - QueueLimit) = QueueLimit /\ QueueLimit <= QueueLimit
        BY <1>1
      <3>2. WITNESS Len(q) - QueueLimit \in 0..Len(q)
      <3>3. QED
        BY <2>1, <3>1
    <2>6. Trim(q) \in Seq(Packet) /\ Len(Trim(q)) <= QueueLimit
      BY <2>1, <2>3, <2>4
    <2>7. QED
      BY <2>5, <2>6
  <1>2. CASE Len(q) <= QueueLimit
    <2>1. Trim(q) = q
      BY <1>2 DEF Trim
    <2>2. SubSeq(q, 1, Len(q)) = q
      OBVIOUS
    <2>3. \E over \in 0..Len(q) : /\ Len(q) - over <= QueueLimit
                                  /\ over > 0 => Len(q) - over = QueueLimit
                                  /\ Trim(q) = SubSeq(q, over + 1, Len(q))
      <3>1. WITNESS 0 \in 0..Len(q)
      <3>2. QED
        BY <1>2, <2>1, <2>2
    <2>4. QED
      BY <1>2, <2>1, <2>3
  <1>3. QED
    BY <1>1, <1>2

LEMMA InitIInv == ASSUME Init PROVE IInv
  <1> USE AudioAssumption DEF Init
  <1>1. queue \in Seq(Packet) /\ Len(queue) <= QueueLimit + 1
    OBVIOUS
  <1>2. packet \in [seq : 0..MaxPackets, time : 0..MaxTime]
    OBVIOUS
  <1>3. TypeOK
    BY <1>1, <1>2 DEF ThreadInit, TypeOK, ThreadTypeOK
  <1>4. QED
    BY <1>2, <1>3 DEF ThreadInit, IInv, PacketOnItsWay, NotBeforeStart

\* Every step of both threads and of the owner keeps the invariant.
LEMMA StepIInv == ASSUME IInv, [Next]_vars PROVE IInv'
  <1> USE AudioAssumption DEF IInv, TypeOK, ThreadTypeOK, PacketOnItsWay, NotBeforeStart,
        threadVars, captureVars, pollVars
  <1>1. CASE CaptureStep
    <2>1. CASE LoopCheck("wait") /\ UNCHANGED <<now, queue, mutex, captureVars, pollVars>>
      BY <2>1 DEF LoopCheck
    <2>2. CASE Records
      BY <2>2 DEF Records
    <2>3. CASE RecordsNothing
      BY <2>3 DEF RecordsNothing
    <2>4. CASE LockToPush
      BY <2>4 DEF LockToPush
    <2>5. CASE Push
      <3>1. packet \in Packet
        BY <2>5 DEF Push, Packet
      <3>2. queue' \in Seq(Packet) /\ Len(queue') <= QueueLimit + 1
        BY <2>5, <3>1, TrimLeaves DEF Push
      <3>3. QED
        BY <2>5, <3>2 DEF Push
    <2>6. QED
      BY <1>1, <2>1, <2>2, <2>3, <2>4, <2>5 DEF CaptureStep
  <1>2. CASE PollBegins
    BY <1>2 DEF PollBegins
  <1>3. CASE PollLocks
    BY <1>3 DEF PollLocks
  <1>4. CASE PollDropsExpired
    BY <1>4 DEF PollDropsExpired
  <1>5. CASE PollFindsNothing
    BY <1>5 DEF PollFindsNothing
  <1>6. CASE PollTakes
    <2>1. Head(queue) \in Packet
      BY <1>6 DEF PollTakes
    <2>2. Head(queue).seq \in 0..MaxPackets
      BY <2>1 DEF Packet
    <2>3. Tail(queue) \in Seq(Packet) /\ Len(Tail(queue)) <= QueueLimit + 1
      BY <1>6 DEF PollTakes
    <2>4. QED
      BY <1>6, <2>2, <2>3 DEF PollTakes
  <1>7. CASE OwnerStep
    <2> DEFINE Rest == UNCHANGED <<now, queue, mutex, captureVars, pollVars>>
    <2>1. CASE StartFlag /\ Rest
      BY <2>1 DEF StartFlag
    <2>2. CASE ThreadStarts /\ Rest
      BY <2>2 DEF ThreadStarts
    <2>3. CASE StartFails /\ Rest
      BY <2>3 DEF StartFails
    <2>4. CASE StopFlag /\ Rest
      BY <2>4 DEF StopFlag
    <2>5. CASE StopperDone /\ Rest
      BY <2>5 DEF StopperDone
    <2>6. CASE Joined /\ Rest
      BY <2>6 DEF Joined
    <2>7. CASE LastBuffer
      BY <2>7 DEF LastBuffer
    <2>8. QED
      BY <1>7, <2>1, <2>2, <2>3, <2>4, <2>5, <2>6, <2>7 DEF OwnerStep
  <1>8. CASE Release
    BY <1>8 DEF Release
  <1>9. CASE Pass
    BY <1>9 DEF Pass
  <1>10. CASE UNCHANGED vars
    BY <1>10 DEF vars
  <1>11. QED
    BY <1>1, <1>2, <1>3, <1>4, <1>5, <1>6, <1>7, <1>8, <1>9, <1>10 DEF Next, PollStep
-----------------------------------------------------------------------------
\* The queue is bounded by QueueLimit + 1, and every state is well typed.
THEOREM Typing == Spec => []TypeOK
  <1>1. IInv => TypeOK
    BY DEF IInv
  <1>2. QED
    BY <1>1, InitIInv, StepIInv, PTL DEF Spec

\* The last packet put in: newest of the refinement mapping.
Newest == IF body \in {"lock", "push"} THEN recorded - 1 ELSE recorded

\* A push is the only step that puts a packet in: the queue loses only what
\* exceeds the limit, and the packet was made a little earlier.
LEMMA PushPuts == ASSUME IInv, Push PROVE Recordings!Put
  <1> USE AudioAssumption DEF IInv, TypeOK, PacketOnItsWay, Push
  <1>1. Newest < MaxPackets /\ Newest' = Newest + 1 /\ packet.seq = Newest'
    BY DEF Newest, captureVars
  <1>2. packet = [seq |-> Newest', time |-> packet.time] /\ packet.time \in 0..now
    BY <1>1
  <1>3. PICK over \in 0..Len(queue) : /\ Len(queue) - over <= QueueLimit
                                      /\ over > 0 => Len(queue) - over = QueueLimit
                                      /\ Trim(queue) = SubSeq(queue, over + 1, Len(queue))
    BY TrimLeaves
  <1>4. queue' = Append(SubSeq(queue, over + 1, Len(queue)), [seq |-> Newest', time |-> packet.time])
    BY <1>2, <1>3
  <1>5. UNCHANGED <<now, given>>
    BY DEF pollVars
  <1>6. QED
    BY <1>1, <1>2, <1>3, <1>4, <1>5 DEF Recordings!Put, Newest

\* Every step of the two threads is one of LossyQueue or leaves it as it is.
LEMMA StepImplements == ASSUME IInv, [Next]_vars PROVE [Recordings!Next]_(Recordings!vars)
  <1> USE AudioAssumption DEF IInv, TypeOK, PacketOnItsWay, threadVars, captureVars, pollVars
  <1>1. CASE Push
    BY <1>1, PushPuts DEF Recordings!Next
  <1>2. CASE PollDropsExpired
    <2>1. Head(queue) \in Packet
      BY <1>2 DEF PollDropsExpired
    <2>2. now - Head(queue).time > MaxAge
      <3>1. clock \in Int /\ now \in Int /\ clock <= now /\ MaxAge \in Int
        BY <1>2 DEF PollDropsExpired
      <3> HIDE DEF IInv, TypeOK, PacketOnItsWay
      <3>2. Head(queue).time \in Int
        BY <2>1 DEF Packet
      <3>3. clock - Head(queue).time > MaxAge
        BY <1>2 DEF PollDropsExpired, Expired
      <3>4. QED
        BY <3>1, <3>2, <3>3
    <2>3. Recordings!Lose
      BY <1>2, <2>2 DEF PollDropsExpired, Recordings!Lose
    <2>4. QED
      BY <2>3 DEF Recordings!Next
  <1>3. CASE PollTakes
    <2>1. Recordings!Get
      BY <1>3 DEF PollTakes, Recordings!Get
    <2>2. QED
      BY <2>1 DEF Recordings!Next
  <1>4. CASE Pass
    <2>1. Recordings!Pass
      BY <1>4 DEF Pass, Recordings!Pass
    <2>2. QED
      BY <2>1 DEF Recordings!Next
  <1>5. CASE UNCHANGED <<now, queue, given>> /\ Newest' = Newest
    BY <1>5 DEF Recordings!vars, Newest
  <1>6. ASSUME CaptureStep, ~Push PROVE UNCHANGED <<now, queue, given>> /\ Newest' = Newest
    <2>1. CASE LoopCheck("wait") /\ UNCHANGED <<now, queue, mutex, captureVars, pollVars>>
      BY <2>1 DEF LoopCheck, Newest
    <2>2. CASE Records
      BY <2>2 DEF Records, Newest
    <2>3. CASE RecordsNothing
      BY <2>3 DEF RecordsNothing, Newest
    <2>4. CASE LockToPush
      BY <2>4 DEF LockToPush, Newest
    <2>5. QED
      BY <1>6, <2>1, <2>2, <2>3, <2>4 DEF CaptureStep
  <1>7. ASSUME OwnerStep PROVE UNCHANGED <<now, queue, given>> /\ Newest' = Newest
    <2> DEFINE Rest == UNCHANGED <<now, queue, mutex, captureVars, pollVars>>
    <2>1. CASE ThreadStarts /\ Rest
      BY <2>1 DEF ThreadStarts, Newest, NotBeforeStart
    <2>2. CASE (StartFlag \/ StartFails \/ StopFlag \/ StopperDone \/ Joined) /\ Rest
      <3>1. body' = body
        BY <2>2 DEF StartFlag, StartFails, StopFlag, StopperDone, Joined
      <3>2. QED
        BY <2>2, <3>1 DEF Newest
    <2>3. CASE LastBuffer
      BY <2>3 DEF LastBuffer, Newest
    <2>4. QED
      BY <1>7, <2>1, <2>2, <2>3 DEF OwnerStep
  <1>8. ASSUME PollBegins \/ PollLocks \/ PollFindsNothing \/ Release \/ UNCHANGED vars
        PROVE  UNCHANGED <<now, queue, given>> /\ Newest' = Newest
    BY <1>8 DEF PollBegins, PollLocks, PollFindsNothing, Release, vars, Newest
  <1>9. QED
    BY <1>1, <1>2, <1>3, <1>4, <1>5, <1>6, <1>7, <1>8 DEF Next, PollStep

\* The microphone's queue implements LossyQueue: recordings come out in order,
\* at most once, and none is dropped without cause.
THEOREM Implements == Spec => KeepsPromises
  <1>1. Init => Recordings!Init
    BY DEF Init, ThreadInit, Recordings!Init
  <1>2. QED
    BY <1>1, InitIInv, StepIInv, StepImplements, PTL DEF Spec, KeepsPromises, Recordings!Spec
=============================================================================
