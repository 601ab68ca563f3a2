---------------------------- MODULE AudioCapture ----------------------------
(***************************************************************************)
(* NXCordAudioCapture: the capture thread pushes what the microphone       *)
(* recorded, the client's thread polls it (AudioSender::frameAvailable).   *)
(* Both read the clock before they take _queue_mutex: the capture thread   *)
(* when it builds the packet, poll() on entry.  The samples are left out.  *)
(***************************************************************************)
EXTENDS LoopThread, AudioQueue

VARIABLES
    now,       \* Utils::current_time_millis()
    queue,     \* _queue
    mutex,     \* holder of _queue_mutex
    packet,    \* the capture thread's packet, not yet queued
    recorded,  \* history: packets built so far
    poll,      \* where the client's thread is in poll()
    clock,     \* current_time of poll()
    given      \* history: the last packet poll() returned

pollVars == <<poll, clock, given>>
captureVars == <<packet, recorded>>
vars == <<threadVars, now, queue, mutex, captureVars, pollVars>>

Init == /\ ThreadInit /\ owner = "start"
        /\ now = 0
        /\ queue = <<>> /\ mutex = "free"
        /\ packet = [seq |-> 0, time |-> 0] /\ recorded = 0
        /\ poll = "idle" /\ clock = 0 /\ given = 0
-----------------------------------------------------------------------------
\* audinWaitCaptureFinish: a buffer was released and copied, or none was.
Records ==
    /\ body = "wait" /\ recorded < MaxPackets
    /\ recorded' = recorded + 1
    /\ packet' = [seq |-> recorded', time |-> now]
    /\ body' = "lock"
    /\ UNCHANGED <<active, kernel, owner, now, queue, mutex, pollVars>>

RecordsNothing ==
    /\ body = "wait"
    /\ body' = "check"
    /\ UNCHANGED <<active, kernel, owner, now, queue, mutex, captureVars, pollVars>>

LockToPush ==
    /\ body = "lock" /\ mutex = "free"
    /\ mutex' = "capture"
    /\ body' = "push"
    /\ UNCHANGED <<active, kernel, owner, now, queue, captureVars, pollVars>>

\* Mutant: the matching unlock() is missing.
PushHolding ==
    /\ body = "push"
    /\ queue' = Append(Trim(queue), packet)
    /\ body' = "check"
    /\ UNCHANGED <<active, kernel, owner, now, mutex, captureVars, pollVars>>

Push ==
    /\ body = "push"
    /\ queue' = Append(Trim(queue), packet)
    /\ mutex' = "free"
    /\ body' = "check"
    /\ UNCHANGED <<active, kernel, owner, now, captureVars, pollVars>>
-----------------------------------------------------------------------------
\* poll() is called while the sender lives.
PollBegins ==
    /\ poll = "idle" /\ owner = "started"
    /\ clock' = now
    /\ poll' = "lock"
    /\ UNCHANGED <<threadVars, now, queue, mutex, captureVars, given>>

PollLocks ==
    /\ poll = "lock" /\ mutex = "free"
    /\ mutex' = "poll"
    /\ poll' = "scan"
    /\ UNCHANGED <<threadVars, now, queue, captureVars, clock, given>>

PollDropsExpired ==
    /\ poll = "scan" /\ queue # <<>>
    /\ Expired(Head(queue), clock)
    /\ queue' = Tail(queue)
    /\ UNCHANGED <<threadVars, now, mutex, captureVars, pollVars>>

PollFindsNothing ==
    /\ poll = "scan" /\ queue = <<>>
    /\ mutex' = "free"
    /\ poll' = "idle"
    /\ UNCHANGED <<threadVars, now, queue, captureVars, clock, given>>

\* Mutant: the data is handed out and the packet stays at the front.
PollCopies ==
    /\ poll = "scan" /\ queue # <<>>
    /\ ~Expired(Head(queue), clock)
    /\ given' = Head(queue).seq
    /\ mutex' = "free"
    /\ poll' = "idle"
    /\ UNCHANGED <<threadVars, now, queue, captureVars, clock>>

PollTakes ==
    /\ poll = "scan" /\ queue # <<>>
    /\ ~Expired(Head(queue), clock)
    /\ given' = Head(queue).seq
    /\ queue' = Tail(queue)
    /\ mutex' = "free"
    /\ poll' = "idle"
    /\ UNCHANGED <<threadVars, now, captureVars, clock>>

\* The destructor, on the thread that polls.
Release == /\ owner = "started" /\ poll = "idle"
           /\ owner' = "stop"
           /\ UNCHANGED <<active, kernel, body, now, queue, mutex, captureVars, pollVars>>

\* With the thread gone the destructor waits for the last buffer; the thread
\* had appended it again, so the service finishes it.
LastBuffer == /\ owner = "stopped"
              /\ owner' = "gone"
              /\ UNCHANGED <<active, kernel, body, now, queue, mutex, captureVars, pollVars>>

CaptureStep == \/ LoopCheck("wait") /\ UNCHANGED <<now, queue, mutex, captureVars, pollVars>>
               \/ Records \/ RecordsNothing \/ LockToPush \/ Push

PollStep == PollLocks \/ PollDropsExpired \/ PollFindsNothing \/ PollTakes

OwnerStep == \/ /\ StartFlag \/ ThreadStarts \/ StartFails \/ StopFlag \/ StopperDone \/ Joined
                /\ UNCHANGED <<now, queue, mutex, captureVars, pollVars>>
             \/ LastBuffer

Pass == /\ now < MaxTime
        /\ now' = now + 1
        /\ UNCHANGED <<threadVars, queue, mutex, captureVars, pollVars>>

Next == CaptureStep \/ PollBegins \/ PollStep \/ OwnerStep \/ Release \/ Pass

Spec == Init /\ [][Next]_vars

FairSpec == Spec /\ WF_vars(CaptureStep) /\ WF_vars(PollStep) /\ WF_vars(OwnerStep)
-----------------------------------------------------------------------------
\* The queue never exceeds QueueLimit + 1 packets, also when nobody polls (not
\* speaking) or poll() waits behind the capture thread.
TypeOK == /\ ThreadTypeOK
          /\ owner \in {"start", "starting", "started", "stop", "stopper", "join", "stopped", "gone"}
          /\ body \in {"off", "check", "wait", "lock", "push"}
          /\ poll \in {"idle", "lock", "scan"}
          /\ now \in 0..MaxTime /\ clock \in 0..MaxTime
          /\ queue \in Seq(Packet) /\ Len(queue) <= QueueLimit + 1
          /\ packet.seq = recorded /\ packet.time \in 0..MaxTime
          /\ recorded \in 0..MaxPackets /\ given \in 0..MaxPackets
          /\ mutex \in {"free", "capture", "poll"}
          /\ mutex = "capture" <=> body = "push"
          /\ mutex = "poll" <=> poll = "scan"

\* The queue is a LossyQueue to the microphone and to the sender: recordings are
\* sent in order, at most once, and none is dropped without cause, although a
\* recording is made before the capture thread has the lock and poll() looks at
\* the clock before it has it.
Recordings == INSTANCE LossyQueue WITH
    waiting <- queue, last <- given,
    newest <- IF body \in {"lock", "push"} THEN recorded - 1 ELSE recorded

KeepsPromises == Recordings!Spec

\* The client's thread, which holds client_mutex, is never stuck in poll() or in
\* the destructor, although the capture thread may be in the middle of a push.
CallsReturn == /\ poll = "lock" ~> poll = "idle"
               /\ owner = "stop" ~> owner = "gone"
=============================================================================
