----------------------- MODULE ScheduleHandlerProofs -----------------------
(***************************************************************************)
(* Proofs about ScheduleHandler for every set of delays and every bound.   *)
(***************************************************************************)
EXTENDS ScheduleHandler, TLAPS

(***************************************************************************)
(* The strengthening.  Ids are handed out in order and never reused; what  *)
(* the tick is about to erase is in the map and disabled; what the scan    *)
(* has passed is not due before the tick began.                            *)
(***************************************************************************)
IdsInOrder == /\ DOMAIN functions \subseteq 0..(counter - 1)
              /\ \A id \in Ids : fate[id] = "unused" <=> id >= counter
              /\ at < counter
              /\ disabled \subseteq 0..(counter - 1)

ErasesOnlyDisabled == \A id \in disabled :
                          id \in DOMAIN functions => ~functions[id].enabled

ScannedServed == phase \in {"scan", "call"} =>
                     /\ began <= now
                     /\ \A id \in Ids : id <= at /\ fate[id] = "armed" => due[id] > began

ReadInPast == \A id \in DOMAIN functions : functions[id].previous_time <= now

IInv == /\ TypeOK
        /\ NoLostTimer
        /\ CountdownExact
        /\ IdsInOrder
        /\ ErasesOnlyDisabled
        /\ ScannedServed
        /\ ReadInPast
-----------------------------------------------------------------------------
USE BoundsAssumption DEF Ids, Entry

\* The empty handler satisfies the strengthening.
LEMMA InitIInv == Init => IInv
  BY DEF Init, IInv, TypeOK, NoLostTimer, CountdownExact, IdsInOrder, ErasesOnlyDisabled,
         ScannedServed, ReadInPast

\* schedule() hands out a fresh id, above everything the scan has passed.
LEMMA ScheduleIInv == ASSUME IInv, NEW d \in Delays, Schedule(d) PROVE IInv'
  <1> USE DEF IInv, Schedule, tickVars
  <1>1. TypeOK'
    BY DEF TypeOK
  <1>2. NoLostTimer'
    BY DEF TypeOK, NoLostTimer
  <1>3. CountdownExact'
    BY DEF TypeOK, CountdownExact
  <1>4. IdsInOrder'
    BY DEF TypeOK, IdsInOrder
  <1>5. ErasesOnlyDisabled'
    BY DEF TypeOK, ErasesOnlyDisabled, IdsInOrder
  <1>6. ScannedServed'
    BY DEF TypeOK, ScannedServed, IdsInOrder
  <1>7. ReadInPast'
    BY DEF TypeOK, ReadInPast
  <1>8. QED
    BY <1>1, <1>2, <1>3, <1>4, <1>5, <1>6, <1>7

\* Timer.stop() disables at most one entry and erases none.
LEMMA StopIInv == ASSUME IInv, NEW id \in Ids, Stop(id) PROVE IInv'
  <1> USE DEF IInv, Stop, tickVars
  <1>1. TypeOK'
    BY DEF TypeOK
  <1>2. NoLostTimer'
    BY DEF TypeOK, NoLostTimer
  <1>3. CountdownExact'
    BY DEF TypeOK, CountdownExact
  <1>4. IdsInOrder'
    BY DEF TypeOK, IdsInOrder
  <1>5. ErasesOnlyDisabled'
    BY DEF TypeOK, ErasesOnlyDisabled
  <1>6. ScannedServed'
    BY DEF TypeOK, ScannedServed
  <1>7. ReadInPast'
    BY DEF TypeOK, ReadInPast
  <1>8. QED
    BY <1>1, <1>2, <1>3, <1>4, <1>5, <1>6, <1>7

\* clear() empties the map outside a tick.
LEMMA ClearIInv == ASSUME IInv, Clear PROVE IInv'
  <1> USE DEF IInv, Clear, Without, tickVars
  <1>1. TypeOK'
    BY DEF TypeOK
  <1>2. NoLostTimer'
    BY DEF TypeOK, NoLostTimer
  <1>3. CountdownExact'
    BY DEF TypeOK, CountdownExact
  <1>4. IdsInOrder'
    BY DEF TypeOK, IdsInOrder
  <1>5. ErasesOnlyDisabled'
    BY DEF TypeOK, ErasesOnlyDisabled
  <1>6. ScannedServed'
    BY DEF TypeOK, ScannedServed
  <1>7. ReadInPast'
    BY DEF TypeOK, ReadInPast
  <1>8. QED
    BY <1>1, <1>2, <1>3, <1>4, <1>5, <1>6, <1>7

\* Running a due task disables its entry before the call.
LEMMA RunDueIInv == ASSUME IInv, NEW id \in Ids, RunDue(id) PROVE IInv'
  <1> USE DEF IInv, RunDue, IsNext
  <1>1. TypeOK'
    <2>1. functions[id] \in Entry
      BY DEF TypeOK
    <2>2. [functions[id] EXCEPT !.enabled = FALSE] \in Entry
      BY <2>1
    <2>3. functions' \in [DOMAIN functions -> Entry] /\ DOMAIN functions' = DOMAIN functions
      BY <2>2 DEF TypeOK
    <2>4. fate' \in [Ids -> {"unused", "armed", "fired", "stopped", "cleared"}]
      BY DEF TypeOK
    <2>5. disabled' \subseteq Ids /\ at' \in -1..(MaxTimers - 1)
      BY DEF TypeOK
    <2>6. QED
      BY <2>3, <2>4, <2>5 DEF TypeOK
  <1>2. NoLostTimer'
    BY DEF TypeOK, NoLostTimer
  <1>3. CountdownExact'
    BY DEF TypeOK, CountdownExact
  <1>4. IdsInOrder'
    BY DEF TypeOK, IdsInOrder
  <1>5. ErasesOnlyDisabled'
    BY DEF TypeOK, ErasesOnlyDisabled
  <1>6. ScannedServed'
    <2>1. \A other \in Ids : at < other /\ other < id => fate[other] # "armed"
      BY DEF TypeOK, NoLostTimer
    <2>2. fate'[id] # "armed"
      BY DEF TypeOK, NoLostTimer
    <2>3. \A other \in Ids : other <= id /\ other # id => other <= at \/ (at < other /\ other < id)
      BY DEF TypeOK
    <2>4. QED
      BY <2>1, <2>2, <2>3 DEF TypeOK, ScannedServed
  <1>7. ReadInPast'
    BY DEF TypeOK, ReadInPast
  <1>8. QED
    BY <1>1, <1>2, <1>3, <1>4, <1>5, <1>6, <1>7

\* Postponing moves time from scheduled_time to previous_time, so their sum stays.
LEMMA PostponeIInv == ASSUME IInv, NEW id \in Ids, Postpone(id) PROVE IInv'
  <1> USE DEF IInv, Postpone, Postponed, IsDue, Diff, IsNext
  <1>1. TypeOK'
    <2>1. functions[id] \in Entry
      BY DEF TypeOK
    <2>2. Diff(id) \in Int /\ functions[id].scheduled_time - Diff(id) \in Nat /\ now \in Nat
      BY <2>1 DEF TypeOK
    <2>3. Postponed(id) \in Entry
      BY <2>1, <2>2
    <2>4. functions' \in [DOMAIN functions -> Entry] /\ DOMAIN functions' = DOMAIN functions
      BY <2>3 DEF TypeOK
    <2>5. at' \in -1..(MaxTimers - 1)
      BY DEF TypeOK
    <2>6. QED
      BY <2>4, <2>5 DEF TypeOK
  <1>2. NoLostTimer'
    BY DEF TypeOK, NoLostTimer
  <1>3. CountdownExact'
    <2>1. functions'[id].scheduled_time + functions'[id].previous_time = due'[id]
      <3>1. functions[id] \in Entry /\ now \in Int /\ functions'[id] = Postponed(id)
        BY DEF TypeOK
      <3>2. functions[id].scheduled_time \in Int /\ functions[id].previous_time \in Int
        BY <3>1 DEF Entry
      <3>3. functions'[id].scheduled_time = functions[id].scheduled_time - (now - functions[id].previous_time)
            /\ functions'[id].previous_time = now
        BY <3>1 DEF Entry
      <3>4. QED
        BY <3>1, <3>2, <3>3 DEF CountdownExact
    <2>2. \A other \in DOMAIN functions : other # id => functions'[other] = functions[other]
      BY DEF TypeOK
    <2>3. DOMAIN functions' = DOMAIN functions /\ due' = due
      BY DEF TypeOK
    <2>4. QED
      BY <2>1, <2>2, <2>3 DEF CountdownExact
  <1>4. IdsInOrder'
    BY DEF TypeOK, IdsInOrder
  <1>5. ErasesOnlyDisabled'
    BY DEF TypeOK, ErasesOnlyDisabled
  <1>6. ScannedServed'
    <2>1. due[id] > now
      BY DEF TypeOK, CountdownExact
    <2>2. \A other \in Ids : at < other /\ other < id => fate[other] # "armed"
      BY DEF TypeOK, NoLostTimer
    <2>3. \A other \in Ids : other <= id /\ other # id => other <= at \/ (at < other /\ other < id)
      BY DEF TypeOK
    <2>4. began <= now /\ now \in Nat /\ began \in Nat /\ due[id] \in Nat
      BY DEF TypeOK, ScannedServed
    <2>5. \A other \in Ids : other <= id /\ fate[other] = "armed" => due[other] > began
      <3> SUFFICES ASSUME NEW other \in Ids, other <= id, fate[other] = "armed"
                   PROVE due[other] > began
        OBVIOUS
      <3>1. CASE other = id
        BY <3>1, <2>1, <2>4
      <3>2. CASE other # id
        BY <3>2, <2>2, <2>3 DEF ScannedServed
      <3>3. QED
        BY <3>1, <3>2
    <2>6. QED
      BY <2>4, <2>5 DEF ScannedServed
  <1>7. ReadInPast'
    BY DEF TypeOK, ReadInPast
  <1>8. QED
    BY <1>1, <1>2, <1>3, <1>4, <1>5, <1>6, <1>7

\* The erase at the end of a tick removes disabled entries only.
LEMMA TickEndIInv == ASSUME IInv, TickEnd PROVE IInv'
  <1> USE DEF IInv, TickEnd, Without, AtEnd
  <1>1. TypeOK'
    BY DEF TypeOK
  <1>2. NoLostTimer'
    BY DEF TypeOK, NoLostTimer, ErasesOnlyDisabled
  <1>3. CountdownExact'
    BY DEF TypeOK, CountdownExact
  <1>4. IdsInOrder'
    BY DEF TypeOK, IdsInOrder
  <1>5. ErasesOnlyDisabled'
    BY DEF TypeOK, ErasesOnlyDisabled
  <1>6. ScannedServed'
    BY DEF TypeOK, ScannedServed
  <1>7. ReadInPast'
    BY DEF TypeOK, ReadInPast
  <1>8. QED
    BY <1>1, <1>2, <1>3, <1>4, <1>5, <1>6, <1>7

\* The clock moves forward only.
LEMMA PassIInv == ASSUME IInv, Pass PROVE IInv'
  <1> USE DEF IInv, Pass, tickVars
  <1>1. TypeOK'
    BY DEF TypeOK
  <1>2. NoLostTimer'
    BY DEF TypeOK, NoLostTimer
  <1>3. CountdownExact'
    BY DEF TypeOK, CountdownExact
  <1>4. IdsInOrder'
    BY DEF TypeOK, IdsInOrder
  <1>5. ErasesOnlyDisabled'
    BY DEF TypeOK, ErasesOnlyDisabled
  <1>6. ScannedServed'
    BY DEF TypeOK, ScannedServed
  <1>7. ReadInPast'
    BY DEF TypeOK, ReadInPast
  <1>8. QED
    BY <1>1, <1>2, <1>3, <1>4, <1>5, <1>6, <1>7

\* A tick begins with an empty disabled set, before the first entry.
LEMMA TickBeginIInv == ASSUME IInv, TickBegin PROVE IInv'
  <1> USE DEF IInv, TickBegin
  <1>1. TypeOK'
    BY DEF TypeOK
  <1>2. NoLostTimer'
    BY DEF TypeOK, NoLostTimer
  <1>3. CountdownExact'
    BY DEF TypeOK, CountdownExact
  <1>4. IdsInOrder'
    BY DEF TypeOK, IdsInOrder
  <1>5. ErasesOnlyDisabled'
    BY DEF TypeOK, ErasesOnlyDisabled
  <1>6. ScannedServed'
    BY DEF TypeOK, ScannedServed
  <1>7. ReadInPast'
    BY DEF TypeOK, ReadInPast
  <1>8. QED
    BY <1>1, <1>2, <1>3, <1>4, <1>5, <1>6, <1>7

\* A disabled entry is passed and remembered for the erase.
LEMMA SkipDisabledIInv == ASSUME IInv, NEW id \in Ids, SkipDisabled(id) PROVE IInv'
  <1> USE DEF IInv, SkipDisabled, IsNext
  <1>1. TypeOK'
    <2>1. at' \in -1..(MaxTimers - 1) /\ disabled' \subseteq Ids
      BY DEF TypeOK
    <2>2. functions' \in [DOMAIN functions' -> Entry] /\ DOMAIN functions' \subseteq Ids
      BY DEF TypeOK
    <2>3. QED
      BY <2>1, <2>2 DEF TypeOK
  <1>2. NoLostTimer'
    BY DEF TypeOK, NoLostTimer
  <1>3. CountdownExact'
    BY DEF TypeOK, CountdownExact
  <1>4. IdsInOrder'
    BY DEF TypeOK, IdsInOrder
  <1>5. ErasesOnlyDisabled'
    BY DEF TypeOK, ErasesOnlyDisabled
  <1>6. ScannedServed'
    <2>1. \A other \in Ids : at < other /\ other < id => fate[other] # "armed"
      BY DEF TypeOK, NoLostTimer
    <2>2. fate'[id] # "armed"
      BY DEF TypeOK, NoLostTimer
    <2>3. \A other \in Ids : other <= id /\ other # id => other <= at \/ (at < other /\ other < id)
      BY DEF TypeOK
    <2>4. QED
      BY <2>1, <2>2, <2>3 DEF TypeOK, ScannedServed
  <1>7. ReadInPast'
    BY DEF TypeOK, ReadInPast
  <1>8. QED
    BY <1>1, <1>2, <1>3, <1>4, <1>5, <1>6, <1>7

\* A task returning changes only where the thread is.
LEMMA TaskReturnIInv == ASSUME IInv, TaskReturn PROVE IInv'
  <1> USE DEF IInv, TaskReturn
  <1>1. TypeOK'
    BY DEF TypeOK
  <1>2. NoLostTimer'
    BY DEF TypeOK, NoLostTimer
  <1>3. CountdownExact'
    BY DEF TypeOK, CountdownExact
  <1>4. IdsInOrder'
    BY DEF TypeOK, IdsInOrder
  <1>5. ErasesOnlyDisabled'
    BY DEF TypeOK, ErasesOnlyDisabled
  <1>6. ScannedServed'
    BY DEF TypeOK, ScannedServed
  <1>7. ReadInPast'
    BY DEF TypeOK, ReadInPast
  <1>8. QED
    BY <1>1, <1>2, <1>3, <1>4, <1>5, <1>6, <1>7

\* The strengthening is inductive.
LEMMA Inductive == Spec => []IInv
  <1>1. ASSUME IInv, [Next]_vars PROVE IInv'
    <2>1. ASSUME NEW d \in Delays, Schedule(d) PROVE IInv'
      BY <1>1, <2>1, ScheduleIInv
    <2>2. ASSUME NEW id \in Ids, Stop(id) PROVE IInv'
      BY <1>1, <2>2, StopIInv
    <2>3. CASE Clear
      BY <1>1, <2>3, ClearIInv
    <2>4. CASE TickBegin
      BY <1>1, <2>4, TickBeginIInv
    <2>5. ASSUME NEW id \in Ids, SkipDisabled(id) \/ RunDue(id) \/ Postpone(id) PROVE IInv'
      BY <1>1, <2>5, SkipDisabledIInv, RunDueIInv, PostponeIInv
    <2>6. CASE TickEnd
      BY <1>1, <2>6, TickEndIInv
    <2>7. CASE TaskReturn
      BY <1>1, <2>7, TaskReturnIInv
    <2>8. CASE Pass
      BY <1>1, <2>8, PassIInv
    <2>9. CASE UNCHANGED vars
      BY <1>1, <2>9 DEF vars, IInv, TypeOK, NoLostTimer, CountdownExact, IdsInOrder,
                        ErasesOnlyDisabled, ScannedServed, ReadInPast
    <2>10. QED
      BY <1>1, <2>1, <2>2, <2>3, <2>4, <2>5, <2>6, <2>7, <2>8, <2>9 DEF Next, ScanStep
  <1>2. QED
    BY <1>1, InitIInv, PTL DEF Spec
-----------------------------------------------------------------------------
\* In particular a countdown kept in the map never becomes negative.
THEOREM Typing == Spec => []TypeOK
  <1>1. IInv => TypeOK
    BY DEF IInv
  <1>2. QED
    BY <1>1, Inductive, PTL

\* No tick, stop or re-entrant schedule() loses a timer: armed timers are
\* exactly the enabled entries of the map.
THEOREM NoTimerLost == Spec => []NoLostTimer
  <1>1. IInv => NoLostTimer
    BY DEF IInv
  <1>2. QED
    BY <1>1, Inductive, PTL

\* However often an entry is postponed its countdown still ends when
\* schedule() promised.
THEOREM CountdownsExact == Spec => []CountdownExact
  <1>1. IInv => CountdownExact
    BY DEF IInv
  <1>2. QED
    BY <1>1, Inductive, PTL

\* When a tick ends, no timer that was due when it began is still waiting.
THEOREM DueTimersServed == Spec => TickServesDue
  <1>1. ASSUME IInv, [Next]_vars, phase = "scan", phase' = "idle",
               NEW id \in Ids, fate'[id] = "armed"
        PROVE  due[id] > began
    <2>1. TickEnd
      BY <1>1 DEF Next, ScanStep, Schedule, Stop, Clear, TickBegin, SkipDisabled, RunDue,
                  Postpone, TaskReturn, Pass, tickVars, vars
    <2>2. id \in DOMAIN functions /\ fate[id] = "armed"
      BY <1>1, <2>1 DEF TickEnd, IInv, NoLostTimer
    <2>3. id <= at
      BY <2>1, <2>2 DEF TickEnd, AtEnd
    <2>4. QED
      BY <1>1, <2>2, <2>3 DEF IInv, ScannedServed
  <1>2. IInv /\ [Next]_vars => (phase = "scan" /\ phase' = "idle" =>
                                  \A id \in Ids : fate'[id] = "armed" => due[id] > began)
    BY <1>1
  <1>3. QED
    BY <1>2, Inductive, PTL DEF Spec, TickServesDue

\* DiscordScheduleHandler implements TimerService: every task runs at most
\* once, not before its delay, and not after it was stopped or cleared.
THEOREM Implements == Spec => KeepsPromises
  <1>1. Init => Timers!Init
    BY DEF Init, Timers!Init, Timers!Ids
  <1>2. ASSUME IInv, [Next]_vars PROVE [Timers!Next]_(Timers!vars)
    <2> USE DEF Timers!vars, Timers!Next, Timers!Ids
    <2>1. ASSUME NEW d \in Delays, Schedule(d) PROVE Timers!Arm(counter, d) /\ counter \in Ids
      BY <1>2, <2>1 DEF Schedule, Timers!Arm, IInv, TypeOK, IdsInOrder
    <2>2. ASSUME NEW id \in Ids, Stop(id) PROVE Timers!StopTimer(id) \/ UNCHANGED <<now, due, fate>>
      BY <2>2 DEF Stop, Timers!StopTimer
    <2>3. CASE Clear
      BY <2>3 DEF Clear, Timers!ClearAll
    <2>4. ASSUME NEW id \in Ids, RunDue(id) PROVE Timers!Fire(id)
      <3>1. id \in DOMAIN functions /\ fate[id] = "armed"
        BY <1>2, <2>4 DEF RunDue, IsNext, IInv, NoLostTimer
      <3>2. due[id] <= now
        BY <1>2, <2>4, <3>1 DEF RunDue, IsDue, Diff, IInv, TypeOK, CountdownExact
      <3>3. QED
        BY <2>4, <3>1, <3>2 DEF RunDue, Timers!Fire
    <2>5. CASE Pass
      BY <2>5 DEF Pass, Timers!Pass
    <2>6. CASE TickBegin \/ TaskReturn \/ TickEnd \/ UNCHANGED vars
      BY <2>6 DEF TickBegin, TaskReturn, TickEnd, vars
    <2>7. ASSUME NEW id \in Ids, SkipDisabled(id) \/ Postpone(id)
          PROVE UNCHANGED <<now, due, fate>>
      BY <2>7 DEF SkipDisabled, Postpone
    <2>8. QED
      BY <1>2, <2>1, <2>2, <2>3, <2>4, <2>5, <2>6, <2>7 DEF Next, ScanStep
  <1>3. QED
    BY <1>1, <1>2, Inductive, PTL DEF Spec, KeepsPromises, Timers!Spec
=============================================================================
