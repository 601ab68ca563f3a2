----------------------------- MODULE AudioPlayer -----------------------------
(***************************************************************************)
(* NXCordAudioPlayer: one queue of packets per SSRC, filled by the UDP     *)
(* receive thread (AudioReceiver::write -> queue) and emptied by the       *)
(* player thread, one packet of each source per frame.  The player thread  *)
(* reads the clock before it takes _queue_mutex.  The owner is the voice   *)
(* connection, whose destruction stops the thread.  The samples, their     *)
(* mixing and the multipliers are left out.                                *)
(***************************************************************************)
EXTENDS LoopThread, AudioQueue, FiniteSets

CONSTANT Ssrcs  \* the sources, numbers as in the map's order
ASSUME SsrcAssumption == Ssrcs \subseteq Nat

VARIABLES
    now,      \* Utils::current_time_millis()
    keys,     \* the keys of _queue
    queue,    \* _queue[ssrc]; empty where ssrc is not a key
    mutex,    \* _queue_mutex is held by the player thread
    clock,    \* current_time
    todo,     \* keys that the loop over _queue has not finished
    empty,    \* empty_ssrc
    sources,  \* audio_sources: ssrc -> packet
    sent,     \* history: packets queued per source
    played    \* history: the last packet played per source

queueVars == <<keys, queue, sent>>
frameVars == <<mutex, clock, todo, empty, sources, played>>
vars == <<threadVars, now, queueVars, frameVars>>

NoSources == [s \in {} |-> [seq |-> 0, time |-> 0]]

Init == /\ ThreadInit /\ owner = "start"
        /\ now = 0
        /\ keys = {} /\ queue = [s \in Ssrcs |-> <<>>] /\ sent = [s \in Ssrcs |-> 0]
        /\ mutex = FALSE /\ clock = 0 /\ todo = {} /\ empty = {}
        /\ sources = NoSources
        /\ played = [s \in Ssrcs |-> 0]
-----------------------------------------------------------------------------
\* queue(): the whole body under the mutex.
Queue(s) ==
    /\ owner \notin {"start", "starting", "stopped"}
    /\ ~mutex
    /\ sent[s] < MaxPackets
    /\ sent' = [sent EXCEPT ![s] = @ + 1]
    /\ keys' = keys \cup {s}
    /\ queue' = [queue EXCEPT ![s] = Append(Trim(@), [seq |-> sent'[s], time |-> now])]
    /\ UNCHANGED <<threadVars, now, frameVars>>

ReadClock ==
    /\ body = "clock"
    /\ clock' = now
    /\ body' = "lock"
    /\ UNCHANGED <<active, kernel, owner, now, queueVars, mutex, todo, empty, sources, played>>

Lock ==
    /\ body = "lock" /\ ~mutex
    /\ mutex' = TRUE
    /\ todo' = keys
    /\ body' = "collect"
    /\ UNCHANGED <<active, kernel, owner, now, queueVars, clock, empty, sources, played>>

\* The range-for over _queue: the least key that is not finished.
Current(s) == s \in todo /\ \A t \in todo : s <= t

\* The packet at the front leaves the queue; the key is finished when the
\* packet is played or nothing is left of the queue.
Pop(s, finished) ==
    /\ queue' = [queue EXCEPT ![s] = Tail(@)]
    /\ empty' = IF Len(queue[s]) = 1 THEN empty \cup {s} ELSE empty
    /\ todo' = IF finished \/ Len(queue[s]) = 1 THEN todo \ {s} ELSE todo
    /\ UNCHANGED <<threadVars, now, keys, sent, mutex, clock, played>>

\* A key always has a packet (see KeysHavePackets), so the branch of the code
\* for a queue that is empty from the start is not reached.
PopExpired(s) ==
    /\ body = "collect" /\ Current(s) /\ queue[s] # <<>>
    /\ Expired(Head(queue[s]), clock)
    /\ Pop(s, FALSE)
    /\ UNCHANGED sources

Take(s) ==
    /\ body = "collect" /\ Current(s) /\ queue[s] # <<>>
    /\ ~Expired(Head(queue[s]), clock)
    /\ sources' = [t \in DOMAIN sources \cup {s} |->
                      IF t = s THEN Head(queue[s]) ELSE sources[t]]
    /\ Pop(s, TRUE)

Leave(gone) ==
    /\ body = "collect" /\ todo = {}
    /\ keys' = keys \ gone
    /\ empty' = {}
    /\ mutex' = FALSE
    /\ body' = "play"
    /\ UNCHANGED <<active, kernel, owner, now, queue, sent, clock, todo, sources, played>>

\* Mutants: the empty queues stay; every source that is played is erased.
UnlockKeeping == Leave({})
UnlockErasingPlayed == Leave(empty \cup DOMAIN sources)

Unlock == Leave(empty)

\* Mixing, audoutPlayBuffer and the sleep up to 20 ms.
Play ==
    /\ body = "play"
    /\ played' = [s \in Ssrcs |-> IF s \in DOMAIN sources THEN sources[s].seq ELSE played[s]]
    /\ sources' = NoSources
    /\ body' = "check"
    /\ UNCHANGED <<active, kernel, owner, now, queueVars, mutex, clock, todo, empty>>

PlayerStep == \/ LoopCheck("clock") /\ UNCHANGED <<now, queueVars, frameVars>>
              \/ ReadClock \/ Lock
              \/ \E s \in Ssrcs : PopExpired(s) \/ Take(s)
              \/ Unlock \/ Play

\* The destructor.
Release == /\ owner = "started"
           /\ owner' = "stop"
           /\ UNCHANGED <<active, kernel, body, now, queueVars, frameVars>>

OwnerStep == /\ StartFlag \/ ThreadStarts \/ StartFails \/ StopFlag \/ StopperDone \/ Joined
             /\ UNCHANGED <<now, queueVars, frameVars>>

Pass == /\ now < MaxTime
        /\ now' = now + 1
        /\ UNCHANGED <<threadVars, queueVars, frameVars>>

Next == PlayerStep \/ OwnerStep \/ Release \/ Pass \/ \E s \in Ssrcs : Queue(s)

Spec == Init /\ [][Next]_vars

FairSpec == Spec /\ WF_vars(PlayerStep) /\ WF_vars(OwnerStep)
-----------------------------------------------------------------------------
\* No queue ever holds more than QueueLimit + 1 packets, also while the player
\* thread is late or gone.
TypeOK == /\ ThreadTypeOK
          /\ owner \in {"start", "starting", "started", "stop", "stopper", "join", "stopped"}
          /\ body \in {"off", "check", "clock", "lock", "collect", "play"}
          /\ now \in 0..MaxTime /\ clock \in 0..MaxTime
          /\ keys \subseteq Ssrcs /\ todo \subseteq Ssrcs /\ empty \subseteq Ssrcs
          /\ queue \in [Ssrcs -> Seq(Packet)]
          /\ \A s \in Ssrcs : Len(queue[s]) <= QueueLimit + 1
          /\ mutex = (body = "collect")
          /\ DOMAIN sources \subseteq Ssrcs
          /\ sources \in [DOMAIN sources -> Packet]
          /\ sent \in [Ssrcs -> 0..MaxPackets] /\ played \in [Ssrcs -> 0..MaxPackets]

\* Outside the player's critical section the map has a key exactly for the
\* sources with a packet waiting: a speaker who left costs nothing, and the
\* player finds a front packet behind every key.
KeysHavePackets == ~mutex => \A s \in Ssrcs : s \in keys <=> queue[s] # <<>>

\* Each source's queue is a LossyQueue to the speaker who fills it from the UDP
\* thread and to the mixer: what is heard of a speaker is in order, nothing is
\* heard twice and nothing is dropped without cause, although the player looks
\* at the clock before it has the lock and erases keys of the map.
Source(s) == INSTANCE LossyQueue WITH
    waiting <- queue[s], newest <- sent[s],
    last <- IF s \in DOMAIN sources THEN sources[s].seq ELSE played[s]

KeepsPromises == /\ \A s \in Ssrcs : Source(s)!Init
                 /\ [][\A s \in Ssrcs : [Source(s)!Next]_(Source(s)!vars)]_vars

\* While the player runs, whatever waits is played or given up.
QueueDrains == \A s \in Ssrcs : queue[s] # <<>> ~> queue[s] = <<>> \/ ~active
=============================================================================
