---------------------------- MODULE TimerService ----------------------------
(***************************************************************************)
(* What NXCord and sleepy-discord expect of a schedule handler: a task     *)
(* given to schedule() runs at most once, never before its delay elapsed,  *)
(* and never after its Timer was stopped or the handler was cleared.  The  *)
(* map, the countdowns and the scan of DiscordScheduleHandler are hidden.  *)
(***************************************************************************)
EXTENDS Integers

CONSTANTS Delays,     \* delays, in ticks of the clock, tasks are scheduled with
          MaxTimers,  \* bound: timers ever scheduled
          MaxTime     \* bound: last value of the clock

VARIABLES now,   \* the steady clock
          due,   \* due[id]: the earliest instant the task of timer id may run
          fate   \* fate[id]: what became of timer id

vars == <<now, due, fate>>

Ids == 0..(MaxTimers - 1)
Fates == {"unused", "armed", "fired", "stopped", "cleared"}

Init == /\ now = 0
        /\ due = [id \in Ids |-> 0]
        /\ fate = [id \in Ids |-> "unused"]

Arm(id, d) == /\ fate[id] = "unused"
              /\ fate' = [fate EXCEPT ![id] = "armed"]
              /\ due' = [due EXCEPT ![id] = now + d]
              /\ UNCHANGED now

Fire(id) == /\ fate[id] = "armed"
            /\ due[id] <= now
            /\ fate' = [fate EXCEPT ![id] = "fired"]
            /\ UNCHANGED <<now, due>>

StopTimer(id) == /\ fate[id] = "armed"
                 /\ fate' = [fate EXCEPT ![id] = "stopped"]
                 /\ UNCHANGED <<now, due>>

ClearAll == /\ fate' = [id \in Ids |-> IF fate[id] = "armed" THEN "cleared" ELSE fate[id]]
            /\ UNCHANGED <<now, due>>

Pass == /\ now < MaxTime
        /\ now' = now + 1
        /\ UNCHANGED <<due, fate>>

Next == \/ \E id \in Ids, d \in Delays : Arm(id, d)
        \/ \E id \in Ids : Fire(id) \/ StopTimer(id)
        \/ ClearAll
        \/ Pass

Spec == Init /\ [][Next]_vars
=============================================================================
