------------------------ MODULE ClientServiceProofs -------------------------
(***************************************************************************)
(* Two proofs about the client, for any callers, commands, values, lists   *)
(* and chunks, in both builds.  The teardown (ThreadEndsFirst) rests on    *)
(* where the thread is relative to its owner (ThreadShape), which step     *)
(* holds client_mutex (LockShape) and which callers may be inside the      *)
(* client (CallShape).  That the client implements NXCordCom rests besides *)
(* on how it and the file relate to the client as the lock was released    *)
(* last (ClientShape), and on how far each call is (RequestShape).         *)
(***************************************************************************)
EXTENDS ClientService, TLAPS

\* A running thread function has the flag set, unless the owner is between
\* clearing the flag and the join; it does not run past the join.
ThreadShape ==
    /\ kernel = "running" <=> body # "off"
    /\ active => kernel = "running" \/ owner = "starting"
    /\ ~active /\ body # "off" => owner \in {"stopper", "join"}
    /\ owner \in {"start", "stopped"} => ~active /\ body = "off"
    /\ owner = "starting" => active /\ body = "off"
    /\ owner \in {"stopper", "join"} => ~active

\* The caller's command is running.
Inside(p) == stage[p] \in {"received", "saving"}

\* client_mutex is held by a tick, or by the call that saves.
LockShape ==
    /\ holder \in Callers \cup {"nobody", "tick"}
    /\ holder = "tick" <=> owner = "ticking" \/ body = "ticking"
    /\ \A p \in Callers : holder = p <=> stage[p] = "saving"
    /\ owner = "ticking" => Sysmodule
    /\ body = "ticking" => ~Sysmodule

\* In the sysmodule one caller at most is inside the client, while the session
\* thread serves it; in the application only while the owner has not ended.
CallShape ==
    /\ stage \in [Callers -> {"idle", "sent", "received", "saving", "replied"}]
    /\ DOMAIN calls = Callers
    /\ \A p \in Callers : stage[p] # "idle" => DOMAIN calls[p] = {"cmd", "arg", "done", "ret"}
    /\ \A p \in Callers : Sysmodule /\ Inside(p) => body = "serving"
    /\ \A p, q \in Callers : Sysmodule /\ Inside(p) /\ Inside(q) => p = q
    /\ \A p \in Callers : ~Sysmodule /\ stage[p] # "idle" => p = Application /\ owner = "started"

IInv == active \in BOOLEAN /\ ThreadShape /\ LockShape /\ CallShape

LEMMA InitIInv == ASSUME Init PROVE IInv
  BY ServiceAssumption DEF Init, ThreadInit, Each, IInv, ThreadShape, LockShape, CallShape, Inside, Sysmodule

\* A call that has been answered is still a call.
LEMMA StillCalls ==
  ASSUME NEW p \in Callers, NEW ret, CallShape, stage[p] # "idle", Com!Done(p, ret)
  PROVE  /\ DOMAIN calls' = Callers
         /\ \A q \in Callers : stage[q] # "idle" => DOMAIN calls'[q] = {"cmd", "arg", "done", "ret"}
  BY DEF CallShape, Com!Done

\* Every step of the owner, of the ticks, of the session thread and of the
\* callers keeps the invariant.
LEMMA StepIInv == ASSUME IInv, [Next]_vars PROVE IInv'
  <1> USE ServiceAssumption DEF IInv, ThreadShape, LockShape, CallShape, Inside, Sysmodule,
        threadVars, clientVars, requestVars
  <1>1. CASE Owner
    <2>1. CASE EndLoop
      <3>1. ~Sysmodule => stage[Application] = "idle"
        <4>1. DOMAIN NoCall # {"cmd", "arg", "done", "ret"}
          BY DEF NoCall, Com!NoCall
        <4>2. QED
          BY <2>1, <4>1 DEF EndLoop
      <3>2. ThreadShape' /\ LockShape'
        BY <1>1, <2>1 DEF Owner, EndLoop
      <3>3. CallShape'
        BY <1>1, <2>1, <3>1 DEF Owner, EndLoop
      <3>4. QED
        BY <2>1, <3>2, <3>3 DEF EndLoop
    <2>2. CASE StartFlag
      BY <1>1, <2>2 DEF Owner, StartFlag
    <2>3. CASE ThreadStarts
      BY <1>1, <2>3 DEF Owner, ThreadStarts
    <2>4. CASE StartFails
      BY <1>1, <2>4 DEF Owner, StartFails
    <2>5. CASE StopFlag
      BY <1>1, <2>5 DEF Owner, StopFlag
    <2>6. CASE StopperDone
      BY <1>1, <2>6 DEF Owner, StopperDone
    <2>7. CASE Joined
      BY <1>1, <2>7 DEF Owner, Joined
    <2>8. QED
      BY <1>1, <2>1, <2>2, <2>3, <2>4, <2>5, <2>6, <2>7 DEF Owner, Starting
  <1>2. CASE TickBegins
    BY <1>2 DEF TickBegins, Free
  <1>3. CASE TickEnds
    BY <1>3 DEF TickEnds
  <1>4. CASE StopProcessing
    BY <1>4 DEF StopProcessing
  <1>5. CASE ThreadLoops
    BY <1>5 DEF ThreadLoops, LoopCheck
  <1>6. CASE Restart
    BY <1>6 DEF Restart, Each
  <1>7. ASSUME NEW p \in Callers, Call(p) PROVE IInv'
    BY <1>7 DEF Call, Com!Call, Com!NoCall
  <1>8. ASSUME NEW p \in Callers, SendFails(p) PROVE IInv'
    BY <1>8, StillCalls DEF SendFails
  <1>9. ASSUME NEW p \in Callers, Receive(p) PROVE IInv'
    BY <1>9 DEF Receive
  <1>10. ASSUME NEW p \in Callers, AnswerPing(p) PROVE IInv'
    BY <1>10, StillCalls DEF AnswerPing, Answer, Runs
  <1>11. ASSUME NEW p \in Callers, ExecuteOther(p) PROVE IInv'
    BY <1>11, StillCalls DEF ExecuteOther, Execute, Answer, Runs, Free
  <1>12. ASSUME NEW p \in Callers, GetChunk(p) PROVE IInv'
    BY <1>12, StillCalls DEF GetChunk, Execute, Answer, Runs, Free
  <1>13. ASSUME NEW p \in Callers, SaveBegins(p) PROVE IInv'
    BY <1>13 DEF SaveBegins, Runs, Free
  <1>14. ASSUME NEW p \in Callers, SaveEnds(p) PROVE IInv'
    BY <1>14, StillCalls DEF SaveEnds, Answer
  <1>15. ASSUME NEW p \in Callers, CallerGoesOn(p) PROVE IInv'
    BY <1>15 DEF CallerGoesOn, NextRequest, Return, NoCall, Com!NoCall
  <1>16. CASE UNCHANGED vars
    BY <1>16 DEF vars
  <1>17. QED
    BY <1>1, <1>2, <1>3, <1>4, <1>5, <1>6, <1>7, <1>8, <1>9, <1>10, <1>11, <1>12, <1>13, <1>14, <1>15,
       <1>16 DEF Next, Serve

\* When the owner's stop() has returned, no other thread ticks the client or
\* answers from it, and client_mutex is free: it may be destroyed.
THEOREM TeardownSafe == Spec => []ThreadEndsFirst
  <1>1. IInv => ThreadEndsFirst
    BY DEF IInv, ThreadShape, LockShape, CallShape, Inside, ThreadEndsFirst
  <1>2. QED
    BY <1>1, InitIInv, StepIInv, PTL DEF Spec
-----------------------------------------------------------------------------
(* The client, the file and the requests, relative to the client of the      *)
(* interface, which is the one that client_mutex was last released on.       *)

\* What a client holds when no tick is rewriting it.
Sound(c) == /\ c = [a \in Aspects |-> c[a]] /\ c["alive"] = 1
            /\ c["channels"] \in Lists \cup {Uncached}
            /\ \A a \in Driven \ {"channels"} : c[a] \in Values

\* While nobody has the lock the client is as it was released; a tick rewrites
\* what Discord drives; a call that saves has done all but the writing.
ClientShape ==
    /\ Sound(settled)
    /\ holder = "nobody" => client = settled
    /\ holder = "tick" => \A a \in Aspects \ (Driven \cap Ticked) : client[a] = settled[a]
    /\ holder \in {"nobody", "tick"} => file = Lines(settled, Settings)
    /\ \A p \in Callers : stage[p] = "saving" =>
           /\ client \in Outcomes(Cmd(p), calls[p].arg, settled) /\ Sound(client)
           /\ Saves(Cmd(p)) /\ ~calls[p].done

\* A call is done once its first request is answered; only getChannels() over
\* IPC sends more, and they add nothing to what it collected.
Request(p) ==
    /\ IF stage[p] = "idle" THEN calls[p] = NoCall
       ELSE /\ calls[p] = [cmd |-> calls[p].cmd, arg |-> calls[p].arg,
                           done |-> calls[p].done, ret |-> calls[p].ret]
            /\ calls[p].done \in BOOLEAN
    /\ stage[p] \in {"sent", "received"} =>
           IF calls[p].done THEN offset[p] >= 1 ELSE offset[p] = 0
    /\ stage[p] = "replied" => calls[p].done
    /\ \/ stage[p] \in {"sent", "received"} /\ calls[p].done
       \/ stage[p] = "replied" /\ size[p] > 0
       => Sysmodule /\ Cmd(p) = "GetChannels" /\ \E l \in Lists : calls[p].ret = [channels |-> l]

RequestShape ==
    /\ calls = [p \in Callers |-> calls[p]] /\ size = [p \in Callers |-> size[p]]
    /\ offset \in [Callers -> Nat]
    /\ \A p \in Callers : Request(p)

\* A list fits one reply (where it does not, ReplySize lets it overrun).
ListsFit(Item) == Lists \subseteq Seq(Item) /\ \A l \in Lists : Len(l) <= Chunk
-----------------------------------------------------------------------------
(* The tables.  NXCordCom has them from NXCordCommands too.                  *)

LEMMA SameTables ==
  ASSUME NEW c, NEW arg, NEW c1
  PROVE  /\ Com!Settings = Settings /\ Com!Driven = Driven /\ Com!Uncached = Uncached
         /\ Com!Saves(c) = Saves(c) /\ Com!With(c1, arg) = With(c1, arg)
         /\ Com!Outcomes(c, arg, c1) = Outcomes(c, arg, c1)
         /\ Com!Reply(c, c1) = Reply(c, c1) /\ Com!ZeroReply(c) = ZeroReply(c)
         /\ Com!Lines(c1, arg) = Lines(c1, arg) /\ Com!NoLines = NoLines
         /\ Com!Loaded(c1) = Loaded(c1)
  <1>1. Com!Settings = Settings /\ Com!Driven = Driven /\ Com!Uncached = Uncached
    BY DEF Com!Settings, Settings, Com!Driven, Driven, Com!Uncached, Uncached
  <1>2. Com!Aspects = Aspects
    BY <1>1 DEF Com!Aspects, Aspects
  <1>3. Com!SettingSet = SettingSet
    BY DEF Com!SettingSet, SettingSet
  <1>4. /\ Com!Changes = Changes /\ Com!ClientReads = ClientReads
        /\ Com!SettingReads = SettingReads /\ Com!VoiceReads = VoiceReads
    BY DEF Com!Changes, Changes, Com!ClientReads, ClientReads, Com!SettingReads, SettingReads,
           Com!VoiceReads, VoiceReads
  <1>5. \A table : Com!Lookup(table, c) = Lookup(table, c)
    BY DEF Com!Lookup, Lookup
  <1>6. Com!Told(c) = Told(c)
    BY <1>4, <1>5 DEF Com!Told, Told
  <1>7. Com!Saves(c) = Saves(c)
    BY <1>3 DEF Com!Saves, Saves
  <1>8. \A a, b : Com!With(a, b) = With(a, b)
    BY <1>2 DEF Com!With, With
  <1>9. Com!Assigns(c, arg, c1) = Assigns(c, arg, c1)
    BY <1>3 DEF Com!Assigns, Assigns
  <1>10. \A list : Com!Fetched(list) = Fetched(list)
    BY <1>1 DEF Com!Fetched, Fetched
  <1>11. Com!Outcomes(c, arg, c1) = Outcomes(c, arg, c1)
    <2>1. CASE c = "GetChannels"
      BY <1>10, <2>1 DEF Com!Outcomes, Outcomes
    <2>2. CASE c # "GetChannels"
      <3>1. [Com!Lookup(Com!Changes, c) -> Values] = [Lookup(Changes, c) -> Values]
        BY <1>4, <1>5
      <3>2. \A new : Com!With(Com!With(c1, new), Com!Assigns(c, arg, c1)) = With(With(c1, new), Assigns(c, arg, c1))
        BY <1>8, <1>9
      <3>3. {Com!With(Com!With(c1, new), Com!Assigns(c, arg, c1)) : new \in [Com!Lookup(Com!Changes, c) -> Values]}
            = {With(With(c1, new), Assigns(c, arg, c1)) : new \in [Lookup(Changes, c) -> Values]}
        BY <3>1, <3>2
      <3>4. QED
        BY <2>2, <3>3 DEF Com!Outcomes, Outcomes
    <2>3. QED
      BY <2>1, <2>2
  <1>12. Com!Reply(c, c1) = Reply(c, c1) /\ Com!ZeroReply(c) = ZeroReply(c)
    BY <1>6 DEF Com!Reply, Reply, Com!ZeroReply, ZeroReply
  <1>13. Com!Lines(c1, arg) = Lines(c1, arg) /\ Com!NoLines = NoLines
    BY <1>1 DEF Com!Lines, Lines, Com!NoLines, NoLines
  <1>14. Com!Loaded(c1) = Loaded(c1)
    BY <1>1, <1>2 DEF Com!Loaded, Loaded
  <1>15. QED
    BY <1>1, <1>7, <1>8, <1>11, <1>12, <1>13, <1>14

LEMMA Rows ==
  /\ Told("GetChannels") = {"channels"} /\ Told("Ping") = {"alive"}
  /\ ~Saves("GetChannels") /\ ~Saves("Ping")
  /\ Lookup(Changes, "Ping") = {}
  BY DEF Told, Lookup, ClientReads, SettingReads, VoiceReads, Saves, SettingSet, Changes

LEMMA ChangedOnly ==
  ASSUME NEW c, NEW arg, NEW c1
  PROVE  /\ Lookup(Changes, c) \subseteq {"login", "gateway", "voice"}
         /\ DOMAIN Assigns(c, arg, c1) \subseteq Settings \cup {"login"}
         /\ ~Saves(c) => DOMAIN Assigns(c, arg, c1) = {}
  <1>1. Lookup(Changes, c) \subseteq {"login", "gateway", "voice"}
    BY DEF Lookup, Changes
  <1>2. DOMAIN Assigns(c, arg, c1) \subseteq Settings \cup {"login"}
    BY DEF Assigns, Settings, SettingSet
  <1>3. ~Saves(c) => DOMAIN Assigns(c, arg, c1) = {}
    BY DEF Saves, Assigns
  <1>4. QED
    BY <1>1, <1>2, <1>3

\* A command leaves a sound client, and the settings alone unless it saves them.
LEMMA SoundOutcomes ==
  ASSUME NEW c, NEW arg, NEW old, Sound(old), NEW new \in Outcomes(c, arg, old)
  PROVE  Sound(new) /\ (~Saves(c) => \A s \in Settings : new[s] = old[s])
  <1>1. Aspects = Settings \cup Driven \cup {"login", "alive"}
    BY DEF Aspects
  <1>2. /\ "alive" \notin Settings \cup Driven \cup {"login"} /\ "channels" \in Driven
        /\ "login" \notin Driven /\ Settings \cap Driven = {} /\ "login" \notin Settings
        /\ "gateway" \notin Settings /\ "voice" \notin Settings
    BY DEF Settings, Driven
  <1>3. CASE c = "GetChannels"
    <2>1. PICK l \in Fetched(old["channels"]) : new = [old EXCEPT !["channels"] = l]
      BY <1>3 DEF Outcomes
    <2>2. l \in Lists \cup {Uncached}
      BY DEF Fetched, Sound
    <2>3. QED
      BY <1>1, <1>2, <2>1, <2>2 DEF Sound
  <1>4. CASE c # "GetChannels"
    <2>1. PICK v \in [Lookup(Changes, c) -> Values] : new = With(With(old, v), Assigns(c, arg, old))
      BY <1>4 DEF Outcomes
    <2>2. \A a \in Aspects : new[a] = IF a \in DOMAIN Assigns(c, arg, old) THEN Assigns(c, arg, old)[a]
                                      ELSE IF a \in Lookup(Changes, c) THEN v[a] ELSE old[a]
      BY <2>1 DEF With
    <2>3. new = [a \in Aspects |-> new[a]]
      BY <2>1 DEF With
    <2>4. \A a \in Lookup(Changes, c) : v[a] \in Values
      OBVIOUS
    <2>5. QED
      BY <1>1, <1>2, <2>2, <2>3, <2>4, ChangedOnly DEF Sound
  <1>5. QED
    BY <1>3, <1>4

\* A ping leaves the client as it is and tells that it is there.
LEMMA PingOutcome ==
  ASSUME NEW arg, NEW old, Sound(old)
  PROVE  old \in Outcomes("Ping", arg, old) /\ Reply("Ping", old) = Reply("Ping", [alive |-> 1])
  <1>1. Lookup(Changes, "Ping") = {}
    BY Rows
  <1>2. DOMAIN Assigns("Ping", arg, old) = {}
    BY Rows, ChangedOnly
  <1>3. PICK v : v \in [Lookup(Changes, "Ping") -> Values]
    <2>1. [a \in {} |-> 0] \in [{} -> Values]
      OBVIOUS
    <2>2. QED
      BY <1>1, <2>1
  <1>4. With(With(old, v), Assigns("Ping", arg, old)) = old
    BY <1>1, <1>2, <1>3 DEF With, Sound
  <1>5. old \in Outcomes("Ping", arg, old)
    BY <1>3, <1>4 DEF Outcomes
  <1>6. Reply("Ping", old) = Reply("Ping", [alive |-> 1])
    BY Rows DEF Reply, Sound
  <1>7. QED
    BY <1>5, <1>6

\* A client that starts is sound, and has the settings of the file.
LEMMA SoundLoaded ==
  ASSUME NEW f, f = [s \in Settings |-> f[s]]
  PROVE  Sound(Loaded(f)) /\ Lines(Loaded(f), Settings) = f
  <1>1. Sound(Loaded(f))
    BY ValuesAssumption DEF Sound, Loaded, Aspects, Settings, Driven
  <1>2. Lines(Loaded(f), Settings) = f
    <2>1. \A s \in Settings : Loaded(f)[s] = f[s]
      BY DEF Loaded, Aspects, Settings
    <2>2. QED
      BY <2>1 DEF Lines
  <1>3. QED
    BY <1>1, <1>2
-----------------------------------------------------------------------------
(* Every step is a step of the interface, or none of its business.           *)

Ready == IInv /\ ClientShape /\ RequestShape
ComStep == [Com!Next]_<<settled, calls>>

LEMMA InitReady == ASSUME Init PROVE Ready /\ Com!Init
  <1>1. NoLines = [s \in Settings |-> NoLines[s]] /\ NoLines = Lines(settled, Settings)
    <2>1. NoLines = [s \in Settings |-> NoLines[s]]
      BY DEF NoLines
    <2>2. QED
      BY <2>1, SoundLoaded DEF Init
  <1>2. Sound(settled)
    BY <1>1, SoundLoaded DEF Init
  <1>3. ClientShape
    BY <1>1, <1>2 DEF Init, ClientShape, Each
  <1>4. RequestShape
    BY DEF Init, RequestShape, Request, Each
  <1>5. Com!Init
    BY SameTables DEF Init, Com!Init, Each, NoCall
  <1>6. QED
    BY <1>3, <1>4, <1>5, InitIInv DEF Ready

\* Steps that leave the file, the lock and the requests alone.
LEMMA Aside ==
  ASSUME Ready, UNCHANGED <<build, clientVars, calls, requestVars>>
  PROVE  ClientShape' /\ RequestShape' /\ ComStep
  BY DEF Ready, clientVars, requestVars, ClientShape, RequestShape, Request, ComStep, Cmd, Sysmodule

LEMMA TicksImplement ==
  ASSUME Ready, TickBegins \/ TickEnds
  PROVE  ClientShape' /\ RequestShape' /\ ComStep
  <1>1. UNCHANGED <<calls, stage, offset, size, build, file>>
    BY DEF TickBegins, TickEnds, requestVars
  <1>2. RequestShape'
    BY <1>1 DEF Ready, RequestShape, Request, Cmd, Sysmodule
  <1>3. CASE TickBegins
    <2>1. \A a \in Aspects \ (Driven \cap Ticked) : client'[a] = settled'[a]
      BY <1>3 DEF TickBegins, Free, With, Ready, ClientShape
    <2>2. \A p \in Callers : stage[p] # "saving"
      BY <1>3, ServiceAssumption DEF Ready, IInv, LockShape, TickBegins, Free
    <2>3. ClientShape'
      BY <1>1, <1>3, <2>1, <2>2 DEF TickBegins, Free, Ready, ClientShape
    <2>4. QED
      BY <1>2, <1>3, <2>3 DEF TickBegins, ComStep
  <1>4. CASE TickEnds
    <2>1. PICK new \in [(Driven \cap Ticked) \ {"channels"} -> Values], list \in Lists \cup {Uncached} :
              client' = [With(client, new) EXCEPT !["channels"] = list]
      BY <1>4 DEF TickEnds
    <2>2. holder = "tick" /\ holder' = "nobody" /\ settled' = client'
      BY <1>4 DEF TickEnds, Ready, IInv, LockShape
    <2>3. "channels" \in Driven /\ "alive" \notin Driven /\ "alive" \in Aspects /\ Driven \subseteq Aspects
      BY DEF Driven, Aspects
    <2>4. client' = [With(settled, new) EXCEPT !["channels"] = list]
      <3>1. \A a \in Aspects \ {"channels"} : With(client, new)[a] = With(settled, new)[a]
        BY <2>2 DEF With, Ready, ClientShape
      <3>2. DOMAIN With(client, new) = Aspects /\ DOMAIN With(settled, new) = Aspects
        BY DEF With
      <3>3. QED
        BY <2>1, <3>1, <3>2 DEF With
    <2>5. Sound(client')
      <3>1. \A a \in Driven \ {"channels"} : client'[a] \in Values
        BY <2>1, <2>3, <2>4 DEF With, Ready, ClientShape, Sound
      <3>2. client' = [a \in Aspects |-> client'[a]] /\ client'["channels"] = list
        BY <2>3, <2>4 DEF With
      <3>3. client'["alive"] = 1
        BY <2>1, <2>3, <2>4 DEF With, Ready, ClientShape, Sound
      <3>4. QED
        BY <2>1, <3>1, <3>2, <3>3 DEF Sound
    <2>6. \A s \in Settings : client'[s] = settled[s]
      BY <2>1, <2>4 DEF With, Settings, Driven, Aspects
    <2>7. Lines(client', Settings) = Lines(settled, Settings)
      BY <2>6 DEF Lines
    <2>8. \A p \in Callers : stage[p] # "saving"
      BY <2>2, ServiceAssumption DEF Ready, IInv, LockShape
    <2>9. ClientShape'
      BY <1>1, <2>2, <2>5, <2>7, <2>8 DEF Ready, ClientShape
    <2>10. Com!Tick
      BY <1>1, <2>1, <2>2, <2>4, SameTables DEF Com!Tick
    <2>11. QED
      BY <1>2, <2>9, <2>10 DEF ComStep, Com!Next
  <1>5. QED
    BY <1>3, <1>4

\* What a restart finds is one of the files that the interface allows.
LEMMA RestartImplements ==
  ASSUME Ready, Restart
  PROVE  ClientShape' /\ RequestShape' /\ Com!Restart
  <1>1. file' = [s \in Settings |-> file'[s]]
    BY DEF Restart, Lines, Ready, IInv, LockShape, ClientShape
  <1>2. Sound(settled') /\ Lines(settled', Settings) = file'
    BY <1>1, SoundLoaded DEF Restart
  <1>3. ClientShape' /\ RequestShape'
    BY <1>2 DEF Restart, Each, ClientShape, RequestShape, Request
  <1>4. file' \in Com!Files
    <2>1. CASE \E p \in Callers : stage[p] = "saving"
      <3>1. PICK p \in Callers, kept \in SUBSET Settings :
                stage[p] = "saving" /\ file' = Lines(client, kept)
        BY <2>1 DEF Restart
      <3>2. /\ client \in Outcomes(calls[p].cmd, calls[p].arg, settled)
            /\ Saves(calls[p].cmd) /\ ~calls[p].done
        BY <3>1 DEF Ready, ClientShape, Cmd
      <3>3. calls[p] # Com!NoCall
        BY <3>1 DEF Ready, IInv, CallShape, Com!NoCall
      <3>4. client \in Com!Outcomes(calls[p].cmd, calls[p].arg, settled) /\ Com!Pending(p) /\ Com!Saves(calls[p].cmd)
        BY <3>2, <3>3, SameTables DEF Com!Pending
      <3>5. file' = Com!Lines(client, kept) /\ kept \in SUBSET Com!Settings
        BY <3>1, SameTables
      <3>6. QED
        BY <3>4, <3>5 DEF Com!Files
    <2>2. CASE ~ \E p \in Callers : stage[p] = "saving"
      <3>1. file' = Com!Lines(settled, Com!Settings)
        BY <2>2, SameTables DEF Restart, Ready, IInv, LockShape, ClientShape
      <3>2. QED
        BY <3>1 DEF Com!Files
    <2>3. QED
      BY <2>1, <2>2
  <1>5. settled' = Com!Loaded(file')
    BY SameTables DEF Restart
  <1>6. calls' = [p \in Callers |-> Com!NoCall]
    BY DEF Restart, Each, NoCall
  <1>7. QED
    BY <1>3, <1>4, <1>5, <1>6 DEF Com!Restart

\* A step of p's that leaves the other callers alone.
LEMMA OneCaller ==
  ASSUME Ready, NEW p \in Callers, UNCHANGED build,
         calls' = [q \in Callers |-> calls'[q]], size' = [q \in Callers |-> size'[q]],
         offset' \in [Callers -> Nat],
         \A q \in Callers \ {p} : /\ calls'[q] = calls[q] /\ stage'[q] = stage[q]
                                  /\ offset'[q] = offset[q] /\ size'[q] = size[q],
         Request(p)'
  PROVE  RequestShape'
  <1>1. ASSUME NEW q \in Callers, q # p PROVE Request(q)'
    BY <1>1 DEF Ready, RequestShape, Request, Cmd, Sysmodule
  <1>2. \A q \in Callers : Request(q)'
    BY <1>1
  <1>3. QED
    BY <1>2 DEF RequestShape

\* A step of p's that leaves the client, the file and the lock alone.
LEMMA ClientAside ==
  ASSUME Ready, UNCHANGED clientVars, NEW p \in Callers, stage[p] # "saving", stage'[p] # "saving",
         \A q \in Callers \ {p} : stage'[q] = stage[q] /\ calls'[q] = calls[q]
  PROVE  ClientShape'
  BY DEF clientVars, Ready, ClientShape, Cmd

LEMMA CallImplements ==
  ASSUME Ready, NEW p \in Callers, Call(p)
  PROVE  ClientShape' /\ RequestShape' /\ Com!Call(p)
  <1>1. PICK c \in Offered[p] : \E arg \in Com!Arguments(c) :
            calls' = [calls EXCEPT ![p] = [cmd |-> c, arg |-> arg, done |-> FALSE, ret |-> <<>>]]
    BY DEF Call, Com!Call
  <1>2. PICK arg : calls' = [calls EXCEPT ![p] = [cmd |-> c, arg |-> arg, done |-> FALSE, ret |-> <<>>]]
    BY <1>1
  <1>3. UNCHANGED <<build, clientVars, size>> /\ stage[p] = "idle"
    BY DEF Call, Com!Call, Com!NoCall, Ready, IInv, CallShape
  <1>4. calls'[p] = [cmd |-> c, arg |-> arg, done |-> FALSE, ret |-> <<>>]
    BY <1>2 DEF Ready, IInv, CallShape
  <1>5. calls' = [q \in Callers |-> calls'[q]] /\ \A q \in Callers \ {p} : calls'[q] = calls[q]
    BY <1>2 DEF Ready, RequestShape
  <1>6. /\ offset' \in [Callers -> Nat] /\ offset'[p] = 0 /\ stage'[p] = "sent"
        /\ \A q \in Callers \ {p} : offset'[q] = offset[q] /\ stage'[q] = stage[q]
    BY DEF Call, Ready, RequestShape, IInv, CallShape
  <1>7. Request(p)'
    BY <1>4, <1>6 DEF Request
  <1>8. RequestShape'
    BY <1>3, <1>5, <1>6, <1>7, OneCaller DEF Ready, RequestShape
  <1>9. ClientShape'
    BY <1>3, <1>5, <1>6, ClientAside
  <1>10. QED
    BY <1>8, <1>9 DEF Call

\* A reply of p's, to a request that was not answered before.
LEMMA Answered ==
  ASSUME Ready, NEW p \in Callers, stage[p] # "idle", NEW ret, NEW n, Answer(p, ret, n),
         n > 0 => Sysmodule /\ Cmd(p) = "GetChannels" /\ \E l \in Lists : ret = [channels |-> l]
  PROVE  /\ RequestShape'
         /\ \A q \in Callers \ {p} : stage'[q] = stage[q] /\ calls'[q] = calls[q]
         /\ stage'[p] = "replied"
  <1>1. calls' = [q \in Callers |-> calls'[q]] /\ \A q \in Callers \ {p} : calls'[q] = calls[q]
    BY DEF Answer, Com!Done, Ready, RequestShape
  <1>2. calls'[p] = [calls[p] EXCEPT !.done = TRUE, !.ret = ret]
    BY DEF Answer, Com!Done, Ready, RequestShape
  <1>3. calls[p] = [cmd |-> calls[p].cmd, arg |-> calls[p].arg, done |-> calls[p].done, ret |-> calls[p].ret]
    BY DEF Ready, RequestShape, Request
  <1>4. calls'[p] = [cmd |-> calls[p].cmd, arg |-> calls[p].arg, done |-> TRUE, ret |-> ret]
    BY <1>2, <1>3
  <1>5. /\ stage'[p] = "replied" /\ size'[p] = n /\ size' = [q \in Callers |-> size'[q]]
        /\ \A q \in Callers \ {p} : size'[q] = size[q] /\ stage'[q] = stage[q]
    BY DEF Answer, Ready, RequestShape, IInv, CallShape
  <1>6. Request(p)'
    BY <1>4, <1>5 DEF Answer, Request, Cmd, Sysmodule
  <1>7. RequestShape'
    BY <1>1, <1>5, <1>6, OneCaller DEF Answer, Ready, RequestShape
  <1>8. QED
    BY <1>1, <1>5, <1>7

\* A call that is being served has not been answered, except for the later
\* requests of getChannels().
LEMMA Unanswered ==
  ASSUME Ready, NEW p \in Callers, stage[p] # "idle", ~calls[p].done
  PROVE  Com!Pending(p)
  BY DEF Ready, IInv, CallShape, Com!Pending, Com!NoCall

\* Answering under client_mutex is performing the call.
LEMMA Performs ==
  ASSUME Ready, NEW p \in Callers, NEW c, Cmd(p) = c, stage[p] # "idle", ~calls[p].done,
         settled' \in Outcomes(c, calls[p].arg, settled), Com!Done(p, Reply(c, settled'))
  PROVE  Com!Perform(p)
  BY Unanswered, SameTables DEF Com!Perform, Cmd

LEMMA PingImplements ==
  ASSUME Ready, NEW p \in Callers, AnswerPing(p)
  PROVE  ClientShape' /\ RequestShape' /\ Com!Perform(p)
  <1>1. Cmd(p) = "Ping" /\ stage[p] \in {"sent", "received"} /\ ~calls[p].done
    BY DEF AnswerPing, Runs, Ready, RequestShape, Request
  <1>2. Com!Done(p, Reply("Ping", settled)) /\ settled' = settled
    BY PingOutcome DEF AnswerPing, Answer, Ready, ClientShape, clientVars
  <1>3. RequestShape' /\ ClientShape'
    BY <1>1, Answered, ClientAside DEF AnswerPing
  <1>4. Com!Perform(p)
    BY <1>1, <1>2, PingOutcome, Performs DEF Ready, ClientShape
  <1>5. QED
    BY <1>3, <1>4

\* A command that does not save leaves the settings, and what a save is about
\* to do, as they are.
LEMMA Executed ==
  ASSUME Ready, NEW p \in Callers, NEW c, ~Saves(c), Execute(p, c), stage'[p] # "saving",
         \A q \in Callers \ {p} : stage'[q] = stage[q] /\ calls'[q] = calls[q]
  PROVE  /\ ClientShape' /\ Cmd(p) = c /\ stage[p] \in {"sent", "received"}
         /\ settled' = client' /\ settled' \in Outcomes(c, calls[p].arg, settled)
  <1>1. holder = "nobody" /\ holder' = "nobody" /\ client = settled /\ file = Lines(settled, Settings) /\ file' = file
    BY DEF Execute, Free, Ready, ClientShape
  <1>2. Cmd(p) = c /\ stage[p] \in {"sent", "received"} /\ settled' = client' /\ client' \in Outcomes(c, calls[p].arg, client)
    BY DEF Execute, Runs
  <1>3. Sound(client') /\ \A s \in Settings : client'[s] = settled[s]
    BY <1>1, <1>2, SoundOutcomes DEF Ready, ClientShape
  <1>4. file' = Lines(settled', Settings)
    BY <1>1, <1>2, <1>3 DEF Lines
  <1>5. \A q \in Callers : stage'[q] # "saving"
    BY <1>1, ServiceAssumption DEF Ready, IInv, LockShape
  <1>6. QED
    BY <1>1, <1>2, <1>3, <1>4, <1>5 DEF ClientShape

LEMMA OtherImplements ==
  ASSUME Ready, NEW p \in Callers, ExecuteOther(p)
  PROVE  ClientShape' /\ RequestShape' /\ Com!Perform(p)
  <1>1. PICK c \in CommandId \ {"Ping"} : /\ ~Saves(c) /\ (c = "GetChannels" => ~Sysmodule)
                                         /\ Execute(p, c) /\ Answer(p, Reply(c, client'), 0)
    BY DEF ExecuteOther
  <1>2. Cmd(p) = c /\ stage[p] \in {"sent", "received"} /\ ~calls[p].done
    BY <1>1 DEF Execute, Runs, Ready, RequestShape, Request
  <1>3. /\ RequestShape' /\ stage'[p] = "replied"
        /\ \A q \in Callers \ {p} : stage'[q] = stage[q] /\ calls'[q] = calls[q]
    BY <1>1, <1>2, Answered
  <1>4. ClientShape' /\ settled' = client' /\ settled' \in Outcomes(c, calls[p].arg, settled)
    BY <1>1, <1>3, Executed
  <1>5. Com!Perform(p)
    BY <1>1, <1>2, <1>4, Performs DEF Answer
  <1>6. QED
    BY <1>3, <1>4, <1>5

LEMMA SaveImplements ==
  ASSUME Ready, NEW p \in Callers, SaveBegins(p) \/ SaveEnds(p)
  PROVE  ClientShape' /\ RequestShape' /\ (UNCHANGED <<settled, calls>> \/ Com!Perform(p))
  <1>1. CASE SaveBegins(p)
    <2>1. PICK c \in CommandId : /\ Saves(c) /\ Runs(p, c) /\ Free
                                /\ client' \in Outcomes(c, calls[p].arg, client)
      BY <1>1 DEF SaveBegins
    <2>2. Cmd(p) = c /\ stage[p] \in {"sent", "received"} /\ holder = "nobody" /\ client = settled
      BY <2>1 DEF Runs, Free, Ready, ClientShape
    <2>3. ~calls[p].done
      BY <2>1, <2>2, Rows DEF Ready, RequestShape, Request
    <2>4. holder' = p /\ UNCHANGED <<build, settled, calls, offset, size>> /\ stage' = [stage EXCEPT ![p] = "saving"]
      BY <1>1 DEF SaveBegins
    <2>5. stage'[p] = "saving" /\ \A q \in Callers \ {p} : stage'[q] = stage[q]
      BY <2>4 DEF Ready, IInv, CallShape
    <2>6. \A q \in Callers : stage'[q] = "saving" => q = p
      BY <2>2, <2>5, ServiceAssumption DEF Ready, IInv, LockShape
    <2>7. Sound(client') /\ Sound(settled')
      BY <2>1, <2>2, <2>4, SoundOutcomes DEF Ready, ClientShape
    <2>8. ClientShape'
      BY <2>1, <2>2, <2>3, <2>4, <2>6, <2>7, ServiceAssumption DEF ClientShape, Cmd
    <2>9. Request(p)'
      BY <2>2, <2>3, <2>4, <2>5 DEF Ready, RequestShape, Request
    <2>10. RequestShape'
      BY <2>4, <2>5, <2>9, OneCaller DEF Ready, RequestShape
    <2>11. QED
      BY <2>4, <2>8, <2>10
  <1>2. CASE SaveEnds(p)
    <2>1. /\ stage[p] = "saving" /\ client \in Outcomes(Cmd(p), calls[p].arg, settled) /\ Sound(client)
          /\ Saves(Cmd(p)) /\ ~calls[p].done
      BY <1>2 DEF SaveEnds, Ready, ClientShape
    <2>2. Answer(p, Reply(Cmd(p), client), 0) /\ settled' = client /\ client' = client /\ holder' = "nobody"
          /\ file' = Lines(client, Settings)
      BY <1>2 DEF SaveEnds
    <2>3. /\ RequestShape' /\ stage'[p] = "replied"
          /\ \A q \in Callers \ {p} : stage'[q] = stage[q] /\ calls'[q] = calls[q]
      BY <2>1, <2>2, Answered
    <2>4. \A q \in Callers : stage'[q] # "saving"
      BY <2>1, <2>3 DEF Ready, IInv, LockShape
    <2>5. ClientShape'
      BY <2>1, <2>2, <2>4 DEF ClientShape
    <2>6. Com!Perform(p)
      BY <2>1, <2>2, Performs DEF Answer
    <2>7. QED
      BY <2>3, <2>5, <2>6
  <1>3. QED
    BY <1>1, <1>2

\* A list that fits goes into the first reply, and leaves nothing for the next.
LEMMA OneReply ==
  ASSUME NEW Item, ListsFit(Item), NEW l \in Lists, NEW k \in Nat
  PROVE  ReplySize(l, k) = IF k = 0 THEN Len(l) ELSE 0
  <1>1. Len(l) \in Nat /\ Len(l) <= Chunk /\ Chunk \in Nat \ {0} /\ ItemBytes \in Nat \ {0}
    BY ServiceAssumption DEF ListsFit
  <1>2. \A a, b \in Nat : b # 0 => a * b \in Nat /\ a <= a * b
    OBVIOUS
  <1>3. Chunk * ItemBytes \in Nat /\ Chunk <= Chunk * ItemBytes
    BY <1>1, <1>2
  <1>4. k # 0 => Chunk * k \in Nat /\ Chunk <= Chunk * k
    BY <1>1, <1>2
  <1>5. k # 0 => Chunk <= k * Chunk /\ k * Chunk \in Nat
    BY <1>1, <1>4
  <1>6. Remaining(l, k) = IF k = 0 THEN Len(l) ELSE 0
    BY <1>1, <1>5 DEF Remaining
  <1>7. \A a, b \in Nat : a <= b => Min({a, b}) = a
    BY DEF Min
  <1>8. QED
    BY <1>1, <1>3, <1>6, <1>7 DEF ReplySize

LEMMA ChunkImplements ==
  ASSUME NEW Item, ListsFit(Item), Ready, NEW p \in Callers, GetChunk(p)
  PROVE  ClientShape' /\ RequestShape' /\ ComStep
  <1> DEFINE list == client'["channels"]
             n == ReplySize(list, offset[p])
             got == IF calls[p].done THEN calls[p].ret["channels"] ELSE <<>>
             ret == [channels |-> got \o SubSeq(list, offset[p] * Chunk + 1, offset[p] * Chunk + n)]
  <1>1. Sysmodule /\ Execute(p, "GetChannels") /\ Answer(p, ret, n)
    BY DEF GetChunk
  <1>2. /\ holder = "nobody" /\ client = settled /\ settled' = client' /\ stage[p] = "received" 
        /\ Cmd(p) = "GetChannels" /\ UNCHANGED offset /\ offset[p] \in Nat
    BY <1>1 DEF Execute, Runs, Free, Answer, Ready, ClientShape, RequestShape
  <1>3. PICK l \in Fetched(settled["channels"]) : client' = [settled EXCEPT !["channels"] = l]
    BY <1>1, <1>2 DEF Execute, Outcomes
  <1>4. l \in Lists /\ list = l
    BY <1>3 DEF Fetched, Ready, ClientShape, Sound, Aspects, Driven
  <1>5. l \in Seq(Item) /\ n = IF offset[p] = 0 THEN Len(l) ELSE 0
    BY <1>2, <1>4, OneReply DEF ListsFit
  <1>6. CASE ~calls[p].done
    <2>1. offset[p] = 0
      BY <1>2, <1>6 DEF Ready, RequestShape, Request
    <2>2. ret = [channels |-> l]
      BY <1>4, <1>5, <1>6, <2>1, ServiceAssumption
    <2>3. ret = Reply("GetChannels", settled')
      BY <1>2, <1>4, <2>2, Rows DEF Reply
    <2>4. /\ RequestShape' /\ stage'[p] = "replied"
          /\ \A q \in Callers \ {p} : stage'[q] = stage[q] /\ calls'[q] = calls[q]
      BY <1>1, <1>2, <1>4, <2>2, Answered
    <2>5. ClientShape' /\ settled' \in Outcomes("GetChannels", calls[p].arg, settled)
      BY <1>1, <2>4, Rows, Executed
    <2>6. Com!Perform(p)
      BY <1>1, <1>2, <1>6, <2>3, <2>5, Performs DEF Answer
    <2>7. QED
      BY <2>4, <2>5, <2>6 DEF ComStep, Com!Next
  <1>7. CASE calls[p].done
    <2>1. offset[p] >= 1
      BY <1>2, <1>7 DEF Ready, RequestShape, Request
    <2>2. PICK before \in Lists : calls[p].ret = [channels |-> before]
      BY <1>2, <1>7 DEF Ready, RequestShape, Request
    <2>3. ret = calls[p].ret /\ n = 0
      <3>1. n = 0 /\ before \in Seq(Item) /\ got = before
        BY <1>2, <1>5, <1>7, <2>1, <2>2 DEF ListsFit
      <3>2. SubSeq(l, offset[p] * Chunk + 1, offset[p] * Chunk + 0) = <<>>
        <4>1. \A k \in Int : SubSeq(l, k + 1, k + 0) = <<>>
          BY <1>5
        <4>2. offset[p] * Chunk \in Int
          BY <1>2, ServiceAssumption
        <4>3. QED
          BY <4>1, <4>2
      <3>3. SubSeq(list, offset[p] * Chunk + 1, offset[p] * Chunk + n) = <<>>
        BY <1>4, <3>1, <3>2
      <3>4. before \o <<>> = before
        BY <3>1
      <3>5. got \o SubSeq(list, offset[p] * Chunk + 1, offset[p] * Chunk + n) = before
        BY <3>1, <3>3, <3>4
      <3>6. QED
        BY <2>2, <3>1, <3>5
    <2>4. calls' = calls
      <3>1. calls'[p] = [calls[p] EXCEPT !.done = TRUE, !.ret = ret]
        BY <1>1 DEF Answer, Com!Done, Ready, RequestShape
      <3>2. calls[p] = [cmd |-> calls[p].cmd, arg |-> calls[p].arg, done |-> TRUE, ret |-> ret]
        BY <1>2, <1>7, <2>3 DEF Ready, RequestShape, Request
      <3>3. calls'[p] = calls[p]
        BY <3>1, <3>2
      <3>4. QED
        BY <1>1, <3>3 DEF Answer, Com!Done, Ready, RequestShape
    <2>5. /\ RequestShape' /\ stage'[p] = "replied"
          /\ \A q \in Callers \ {p} : stage'[q] = stage[q] /\ calls'[q] = calls[q]
      BY <1>1, <1>2, <2>3, Answered
    <2>6. ClientShape'
      BY <1>1, <2>5, Rows, Executed
    <2>7. settled' = settled \/ Com!Tick
      <3>1. DEFINE new == [a \in (Driven \cap Ticked) \ {"channels"} |-> settled[a]]
      <3>2. new \in [(Driven \cap Ticked) \ {"channels"} -> Values]
        BY DEF Ready, ClientShape, Sound
      <3>3. client' = [With(settled, new) EXCEPT !["channels"] = l]
        BY <1>3 DEF With, Ready, ClientShape, Sound
      <3>4. \E v \in [(Driven \cap Ticked) \ {"channels"} -> Values], any \in Lists \cup {Uncached} :
                settled' = [With(settled, v) EXCEPT !["channels"] = any]
        BY <1>2, <1>4, <3>2, <3>3
      <3>5. QED
        BY <2>4, <3>4, SameTables DEF Com!Tick
    <2>8. QED
      BY <2>4, <2>5, <2>6, <2>7 DEF ComStep, Com!Next
  <1>8. QED
    BY <1>6, <1>7

\* A send that fails before the first answer is a call that is refused.
LEMMA SendImplements ==
  ASSUME Ready, NEW p \in Callers, SendFails(p)
  PROVE  ClientShape' /\ RequestShape' /\ (UNCHANGED <<settled, calls>> \/ Com!Refuse(p))
  <1>1. /\ stage[p] = "sent" /\ UNCHANGED <<build, clientVars, offset>> /\ stage' = [stage EXCEPT ![p] = "replied"]
        /\ size' = [size EXCEPT ![p] = 0]
    BY DEF SendFails
  <1>2. /\ stage'[p] = "replied" /\ size'[p] = 0 /\ size' = [q \in Callers |-> size'[q]]
        /\ \A q \in Callers \ {p} : size'[q] = size[q] /\ stage'[q] = stage[q]
    BY <1>1 DEF Ready, RequestShape, IInv, CallShape
  <1>3. CASE calls[p].done
    <2>1. calls' = calls /\ settled' = settled
      BY <1>1, <1>3 DEF SendFails, clientVars
    <2>2. Request(p)'
      BY <1>1, <1>2, <1>3, <2>1 DEF Ready, RequestShape, Request
    <2>3. RequestShape'
      BY <1>1, <1>2, <2>1, <2>2, OneCaller DEF Ready, RequestShape
    <2>4. ClientShape'
      BY <1>1, <1>2, <2>1, ClientAside
    <2>5. QED
      BY <2>1, <2>3, <2>4
  <1>4. CASE ~calls[p].done
    <2>1. Com!Done(p, ZeroReply(Cmd(p)))
      BY <1>4 DEF SendFails
    <2>2. /\ calls' = [q \in Callers |-> calls'[q]] /\ \A q \in Callers \ {p} : calls'[q] = calls[q]
          /\ calls'[p] = [calls[p] EXCEPT !.done = TRUE, !.ret = ZeroReply(Cmd(p))]
      BY <2>1 DEF Com!Done, Ready, RequestShape
    <2>3. calls[p] = [cmd |-> calls[p].cmd, arg |-> calls[p].arg, done |-> calls[p].done, ret |-> calls[p].ret]
      BY <1>1 DEF Ready, RequestShape, Request
    <2>4. calls'[p] = [cmd |-> calls[p].cmd, arg |-> calls[p].arg, done |-> TRUE, ret |-> ZeroReply(Cmd(p))]
      BY <2>2, <2>3
    <2>5. Request(p)'
      BY <1>2, <2>4 DEF Request
    <2>6. RequestShape'
      BY <1>1, <1>2, <2>2, <2>5, OneCaller DEF Ready, RequestShape
    <2>7. ClientShape'
      BY <1>1, <1>2, <2>2, ClientAside
    <2>8. Com!Refuse(p)
      BY <1>1, <1>4, <2>1, Unanswered, SameTables DEF Com!Refuse, Cmd, clientVars
    <2>9. QED
      BY <2>6, <2>7, <2>8
  <1>5. QED
    BY <1>3, <1>4

\* Receiving a request, sending the next one and coming back.
LEMMA GoesOnImplements ==
  ASSUME Ready, NEW p \in Callers, Receive(p) \/ CallerGoesOn(p)
  PROVE  ClientShape' /\ RequestShape' /\ (UNCHANGED <<settled, calls>> \/ Com!Return(p))
  <1>1. UNCHANGED <<build, clientVars, settled, size>> /\ stage[p] \in {"sent", "replied"}
    BY DEF Receive, CallerGoesOn, NextRequest, Return, clientVars
  <1>2. CASE Receive(p)
    <2>1. /\ stage'[p] = "received" /\ stage[p] = "sent" /\ UNCHANGED <<calls, offset>>
          /\ \A q \in Callers \ {p} : stage'[q] = stage[q]
      BY <1>2 DEF Receive, Ready, IInv, CallShape
    <2>2. Request(p)'
      BY <1>1, <2>1 DEF Ready, RequestShape, Request, Cmd, Sysmodule
    <2>3. RequestShape' /\ ClientShape'
      BY <1>1, <2>1, <2>2, OneCaller, ClientAside DEF Ready, RequestShape
    <2>4. QED
      BY <1>1, <2>1, <2>3
  <1>3. CASE NextRequest(p)
    <2>1. /\ stage'[p] = "sent" /\ stage[p] = "replied" /\ size[p] > 0 /\ calls' = calls
          /\ \A q \in Callers \ {p} : stage'[q] = stage[q] /\ offset'[q] = offset[q]
          /\ offset'[p] = offset[p] + 1 /\ offset' \in [Callers -> Nat]
      BY <1>3 DEF NextRequest, Ready, RequestShape, IInv, CallShape
    <2>2. offset[p] \in Nat
      BY DEF Ready, RequestShape
    <2>3. Request(p)'
      BY <1>1, <2>1, <2>2 DEF Ready, RequestShape, Request, Cmd, Sysmodule
    <2>4. RequestShape' /\ ClientShape'
      BY <1>1, <2>1, <2>3, OneCaller, ClientAside DEF Ready, RequestShape
    <2>5. QED
      BY <1>1, <2>1, <2>4
  <1>4. CASE Return(p)
    <2>1. /\ stage'[p] = "idle" /\ stage[p] = "replied" /\ UNCHANGED offset
          /\ \A q \in Callers \ {p} : stage'[q] = stage[q] /\ calls'[q] = calls[q]
          /\ calls' = [calls EXCEPT ![p] = NoCall] /\ calls'[p] = NoCall
          /\ calls' = [q \in Callers |-> calls'[q]]
      BY <1>4 DEF Return, Ready, RequestShape, IInv, CallShape
    <2>2. Request(p)'
      BY <2>1 DEF Request, NoCall, Com!NoCall
    <2>3. RequestShape' /\ ClientShape'
      BY <1>1, <2>1, <2>2, OneCaller, ClientAside DEF Ready, RequestShape
    <2>4. Com!Return(p)
      BY <1>1, <2>1 DEF Com!Return, NoCall, Com!NoCall, Ready, RequestShape, Request, IInv, CallShape
    <2>5. QED
      BY <2>3, <2>4
  <1>5. QED
    BY <1>2, <1>3, <1>4 DEF CallerGoesOn

LEMMA StepReady ==
  ASSUME NEW Item, ListsFit(Item), Ready, [Next]_vars
  PROVE  Ready' /\ ComStep
  <1>1. SUFFICES ClientShape' /\ RequestShape' /\ ComStep
    BY StepIInv DEF Ready
  <1>2. ASSUME NEW p \in Callers, Call(p) \/ SendFails(p) \/ Receive(p) \/ Serve(p) \/ SaveEnds(p) \/ CallerGoesOn(p)
        PROVE  ClientShape' /\ RequestShape' /\ ComStep
    <2>1. \/ ClientShape' /\ RequestShape' /\ ComStep
          \/ /\ ClientShape' /\ RequestShape'
             /\ \/ UNCHANGED <<settled, calls>>
                \/ Com!Call(p) \/ Com!Perform(p) \/ Com!Refuse(p) \/ Com!Return(p)
      BY <1>2, CallImplements, SendImplements, GoesOnImplements, PingImplements, OtherImplements,
         ChunkImplements, SaveImplements DEF Serve
    <2>2. QED
      BY <2>1 DEF ComStep, Com!Next
  <1>3. CASE Owner \/ StopProcessing \/ ThreadLoops
    BY <1>3, Aside DEF Owner, StopProcessing, ThreadLoops
  <1>4. CASE TickBegins \/ TickEnds
    BY <1>4, TicksImplement
  <1>5. CASE Restart
    BY <1>5, RestartImplements DEF ComStep, Com!Next
  <1>6. CASE UNCHANGED vars
    BY <1>6, Aside DEF vars
  <1>7. QED
    BY <1>2, <1>3, <1>4, <1>5, <1>6 DEF Next

\* Both builds keep NXCordComInterface's promises: a call takes effect at one
\* moment, under client_mutex, or not at all; a tick is one step of the client;
\* and a restart, power loss included, finds the settings of every call that
\* has returned.  A list has to fit one reply, of which there are `Chunk` entries.
THEOREM KeepsInterface ==
  ASSUME NEW Item, ListsFit(Item)
  PROVE  Spec => Implements
  <1>1. Init => Ready /\ Com!Init
    BY InitReady
  <1>2. Ready /\ [Next]_vars => Ready' /\ [Com!Next]_<<settled, calls>>
    BY StepReady DEF ComStep
  <1>3. QED
    BY <1>1, <1>2, PTL DEF Spec, Implements, Com!Spec
=============================================================================
