-------------------------- MODULE ScheduleHandler --------------------------
(***************************************************************************)
(* DiscordScheduleHandler: the std::map of scheduled functions, the tick   *)
(* that DiscordClient::tick runs every loop, and the Timer objects handed  *)
(* out.  The handler has one thread (the client's lock holder), but a task *)
(* runs in the middle of the scan and may call schedule() or Timer.stop(), *)
(* and the clock is read again for every entry of the scan.                *)
(***************************************************************************)
EXTENDS Integers

CONSTANTS Delays,     \* delays given to schedule()
          MaxTimers,  \* bound: timers ever scheduled (_schedule_counter)
          MaxTime     \* bound: last value of the clock

ASSUME BoundsAssumption == /\ Delays \subseteq Nat
                           /\ MaxTimers \in Nat
                           /\ MaxTime \in Nat

VARIABLES
    now,        \* Utils::current_time_millis(), a steady clock
    counter,    \* _schedule_counter
    functions,  \* _scheduled_functions: id -> scheduled_time, previous_time, enabled
    phase,      \* where the thread is: outside tick(), scanning, in a task
    at,         \* the last id the scan has reached
    disabled,   \* disabled_schedules
    began,      \* history: when the current tick began
    due,        \* history: when the task of each timer becomes due
    fate        \* history: what became of each timer

tickVars == <<phase, at, disabled, began>>
vars == <<now, counter, functions, phase, at, disabled, began, due, fate>>

Ids == 0..(MaxTimers - 1)
Entry == [scheduled_time : Nat, previous_time : Nat, enabled : BOOLEAN]

\* Mutant: erase(lower_bound(key), end()) in place of erase(key).
WithoutFrom(f, ids) == [id \in {i \in DOMAIN f : \A key \in ids : i < key} |-> f[id]]

Without(f, ids) == [id \in DOMAIN f \ ids |-> f[id]]

\* The iterator of the range-for stands at the least id after `at`.
IsNext(id) == /\ id \in DOMAIN functions
              /\ id > at
              /\ \A other \in DOMAIN functions : other > at => id <= other
AtEnd == \A id \in DOMAIN functions : id <= at

Diff(id) == now - functions[id].previous_time
\* Mutants of the comparison: strict, one step too generous.
IsDueStrict(id) == functions[id].scheduled_time < Diff(id)
IsDueEarly(id) == functions[id].scheduled_time <= Diff(id) + 1

IsDue(id) == functions[id].scheduled_time <= Diff(id)

\* Mutants: only one of the two fields is brought forward.
PostponedFromStart(id) == [functions[id] EXCEPT !.scheduled_time = @ - Diff(id)]
PostponedWhole(id) == [functions[id] EXCEPT !.previous_time = now]

\* The time that went by since the entry was last looked at is deducted.
Postponed(id) == [functions[id] EXCEPT !.scheduled_time = @ - Diff(id),
                                       !.previous_time = now]

Init == /\ now = 0
        /\ counter = 0
        /\ functions = [id \in {} |-> [scheduled_time |-> 0, previous_time |-> 0,
                                       enabled |-> TRUE]]
        /\ phase = "idle" /\ at = -1 /\ disabled = {} /\ began = 0
        /\ due = [id \in Ids |-> 0]
        /\ fate = [id \in Ids |-> "unused"]
-----------------------------------------------------------------------------
\* schedule(): from outside a tick, or from a task the tick is running.
Schedule(d) ==
    /\ phase \in {"idle", "call"}
    /\ counter < MaxTimers /\ now + d <= MaxTime
    /\ counter' = counter + 1
    /\ functions' = [id \in DOMAIN functions \cup {counter} |->
                        IF id = counter
                        THEN [scheduled_time |-> d, previous_time |-> now, enabled |-> TRUE]
                        ELSE functions[id]]
    /\ due' = [due EXCEPT ![counter] = now + d]
    /\ fate' = [fate EXCEPT ![counter] = "armed"]
    /\ UNCHANGED <<now, tickVars>>

\* The lambda of the returned Timer; it is a no-op once the entry is gone.
Stop(id) ==
    /\ phase \in {"idle", "call"}
    /\ id < counter
    /\ functions' = [i \in DOMAIN functions |->
                        IF i = id THEN [functions[i] EXCEPT !.enabled = FALSE]
                                  ELSE functions[i]]
    /\ fate' = IF fate[id] = "armed" THEN [fate EXCEPT ![id] = "stopped"] ELSE fate
    /\ UNCHANGED <<now, counter, tickVars, due>>

\* clear(), called by DiscordClient::stopClient.
Clear ==
    /\ phase = "idle"
    /\ functions' = Without(functions, DOMAIN functions)
    /\ fate' = [id \in Ids |-> IF fate[id] = "armed" THEN "cleared" ELSE fate[id]]
    /\ UNCHANGED <<now, counter, tickVars, due>>

TickBegin ==
    /\ phase = "idle"
    /\ phase' = "scan" /\ at' = -1 /\ disabled' = {} /\ began' = now
    /\ UNCHANGED <<now, counter, functions, due, fate>>

SkipDisabled(id) ==
    /\ phase = "scan" /\ IsNext(id)
    /\ ~functions[id].enabled
    /\ disabled' = disabled \cup {id}
    /\ at' = id
    /\ UNCHANGED <<now, counter, functions, phase, began, due, fate>>

RunDue(id) ==
    /\ phase = "scan" /\ IsNext(id)
    /\ functions[id].enabled /\ IsDue(id)
    /\ functions' = [functions EXCEPT ![id].enabled = FALSE]
    /\ disabled' = disabled \cup {id}
    /\ at' = id /\ phase' = "call"
    /\ fate' = [fate EXCEPT ![id] = "fired"]
    /\ UNCHANGED <<now, counter, began, due>>

Postpone(id) ==
    /\ phase = "scan" /\ IsNext(id)
    /\ functions[id].enabled /\ ~IsDue(id)
    /\ functions' = [functions EXCEPT ![id] = Postponed(id)]
    /\ at' = id
    /\ UNCHANGED <<now, counter, phase, disabled, began, due, fate>>

TaskReturn ==
    /\ phase = "call"
    /\ phase' = "scan"
    /\ UNCHANGED <<now, counter, functions, at, disabled, began, due, fate>>

TickEnd ==
    /\ phase = "scan" /\ AtEnd
    /\ functions' = Without(functions, disabled)
    /\ phase' = "idle" /\ at' = -1 /\ disabled' = {}
    /\ UNCHANGED <<now, counter, began, due, fate>>

\* The clock advances at any time, in the middle of a scan too.
Pass ==
    /\ now < MaxTime
    /\ now' = now + 1
    /\ UNCHANGED <<counter, functions, tickVars, due, fate>>

ScanStep == \/ \E id \in Ids : SkipDisabled(id) \/ RunDue(id) \/ Postpone(id)
            \/ TickEnd

Next == \/ \E d \in Delays : Schedule(d)
        \/ \E id \in Ids : Stop(id)
        \/ Clear
        \/ TickBegin \/ ScanStep \/ TaskReturn
        \/ Pass

Spec == Init /\ [][Next]_vars

\* The main loop keeps calling tick(), a scan and a task return, time passes.
FairSpec == Spec /\ WF_vars(TickBegin) /\ WF_vars(ScanStep)
                 /\ WF_vars(TaskReturn) /\ WF_vars(Pass)
-----------------------------------------------------------------------------
TypeOK == /\ now \in 0..MaxTime
          /\ counter \in 0..MaxTimers
          /\ DOMAIN functions \subseteq Ids
          /\ functions \in [DOMAIN functions -> Entry]
          /\ phase \in {"idle", "scan", "call"}
          /\ at \in -1..(MaxTimers - 1)
          /\ disabled \subseteq Ids
          /\ began \in 0..MaxTime
          /\ due \in [Ids -> Nat]
          /\ fate \in [Ids -> {"unused", "armed", "fired", "stopped", "cleared"}]

\* A timer that has neither run nor been cancelled is still in the map and
\* enabled, and an enabled entry is such a timer: the erase at the end of a
\* tick (which also runs for timers added or stopped by tasks of that tick)
\* loses none, and re-entrant schedule() calls never overwrite one.
NoLostTimer == \A id \in Ids : fate[id] = "armed" <=>
                   id \in DOMAIN functions /\ functions[id].enabled

\* The countdown kept in the map is exact: however often the entry was
\* postponed, what is left counts down to the instant schedule() promised.
CountdownExact == \A id \in DOMAIN functions : functions[id].enabled =>
                      functions[id].scheduled_time + functions[id].previous_time = due[id]

\* A tick serves everything that was due when it began, whatever its tasks
\* scheduled or stopped meanwhile: when it ends no such timer is still armed.
TickServesDue ==
    [][phase = "scan" /\ phase' = "idle" =>
          \A id \in Ids : fate'[id] = "armed" => due[id] > began]_vars

\* The handler keeps the promises of TimerService: no task runs early, twice,
\* or after it was stopped or cleared.
Timers == INSTANCE TimerService WITH now <- now, due <- due, fate <- fate
KeepsPromises == Timers!Spec

\* Every scheduled task is eventually run, stopped or cleared.
EveryTimerSettles == \A id \in Ids : fate[id] = "armed" ~> fate[id] # "armed"
=============================================================================
