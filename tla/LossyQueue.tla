----------------------------- MODULE LossyQueue -----------------------------
(***************************************************************************)
(* What the audio queues promise of one source: packets come out in the    *)
(* order they went in and at most once; one is lost only because it is     *)
(* older than MaxAge or because QueueLimit packets and a new one are       *)
(* behind it; so at most QueueLimit + 1 wait.  NXCordAudioPlayer and       *)
(* NXCordAudioCapture implement this with two threads and a lock.          *)
(***************************************************************************)
EXTENDS AudioQueue

VARIABLES
    now,      \* the clock
    waiting,  \* the packets that went in and are not out or lost
    newest,   \* the number of the last packet that went in
    last      \* the number of the last packet that came out

vars == <<now, waiting, newest, last>>

Init == now = 0 /\ waiting = <<>> /\ newest = 0 /\ last = 0

Pass == /\ now' \in now + 1 .. MaxTime
        /\ UNCHANGED <<waiting, newest, last>>

\* The packet was made now or a little earlier; only what exceeds the limit goes.
Put == /\ newest < MaxPackets /\ newest' = newest + 1
       /\ \E made \in 0..now, over \in 0..Len(waiting) :
              /\ Len(waiting) - over <= QueueLimit
              /\ over > 0 => Len(waiting) - over = QueueLimit
              /\ waiting' = Append(SubSeq(waiting, over + 1, Len(waiting)), [seq |-> newest', time |-> made])
       /\ UNCHANGED <<now, last>>

Lose == /\ waiting # <<>> /\ now - Head(waiting).time > MaxAge
        /\ waiting' = Tail(waiting)
        /\ UNCHANGED <<now, newest, last>>

Get == /\ waiting # <<>>
       /\ last' = Head(waiting).seq
       /\ waiting' = Tail(waiting)
       /\ UNCHANGED <<now, newest>>

Next == Pass \/ Put \/ Lose \/ Get

Spec == Init /\ [][Next]_vars
=============================================================================
