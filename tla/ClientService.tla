---------------------------- MODULE ClientService ----------------------------
(***************************************************************************)
(* The client behind NXCordComInterface, in its two builds.  In the        *)
(* sysmodule the main thread ticks the client and a LoopThread answers     *)
(* the requests that the UI and the overlay send; in the application a     *)
(* LoopThread ticks it and the UI's thread calls it.  client_mutex is      *)
(* taken for a tick and for a command.  A command that changes a setting   *)
(* writes the file in place before it unlocks.                             *)
(*                                                                         *)
(* External (libstratosphere, the kernel): a waiting thread receives one   *)
(* request of some session or the request to stop; a failed send has not   *)
(* reached the service; a service that is gone fails the sends to it.      *)
(***************************************************************************)
EXTENDS NXCordCommands, LoopThread

CONSTANTS Callers,
          Application,  \* the caller that has the client in its own process
          Offered,      \* bound: the commands each caller uses
          Ticked,       \* bound: the aspects ticks change
          Chunk,        \* entries in a reply (100)
          ItemBytes     \* sizeof(IPCStruct::DiscordChannel)

ASSUME ServiceAssumption == /\ Application \in Callers /\ Callers \cap {"nobody", "tick"} = {}
                            /\ Offered \in [Callers -> SUBSET CommandId]
                            /\ Chunk \in Nat \ {0} /\ ItemBytes \in Nat \ {0}

VARIABLES
    build,    \* "sysmodule" or "application"
    holder,   \* who holds client_mutex: "nobody", "tick" or a caller
    client,   \* the client's aspects
    file,     \* the settings in nxcord.ini
    settled,  \* history: the client when client_mutex was released last
    calls,    \* of each caller: NoCall or its call
    stage,    \* where each call is
    offset,   \* request.offset of a call of getChannels()
    size      \* entries in the last reply

clientVars == <<holder, client, file, settled>>
requestVars == <<stage, offset, size>>
vars == <<threadVars, build, clientVars, calls, requestVars>>

\* The interface that this module implements.
Com == INSTANCE NXCordCom WITH com <- settled, calls <- calls

NoCall == Com!NoCall
Cmd(p) == calls[p].cmd
Sysmodule == build = "sysmodule"

Each(value) == [p \in Callers |-> value]

\* No file yet.
Init == /\ file = NoLines /\ client = Loaded(NoLines) /\ settled = client
        /\ holder = "nobody" /\ calls = Each(NoCall)
        /\ stage = Each("idle") /\ offset = Each(0) /\ size = Each(0)
        /\ build \in {"sysmodule", "application"} /\ ThreadInit /\ owner = "start"

\* Losing power in the middle of a write leaves any part of the file.
Restart == /\ file' \in IF \E p \in Callers : stage[p] = "saving"
                         THEN {Lines(client, kept) : kept \in SUBSET Settings}
                         ELSE {file}
           /\ client' = Loaded(file') /\ settled' = client'
           /\ holder' = "nobody" /\ calls' = Each(NoCall)
           /\ stage' = Each("idle") /\ offset' = Each(0) /\ size' = Each(0)
           /\ build' \in {"sysmodule", "application"}
           /\ active' = FALSE /\ kernel' = "created" /\ body' = "off" /\ owner' = "start"
-----------------------------------------------------------------------------
(* The main thread of the sysmodule, or the UI's, which owns the LoopThread. *)

Starting == StartFlag \/ ThreadStarts \/ StartFails

\* appletMainLoop() is false, or the UI deletes its client.
EndLoop == /\ owner = "started"
           /\ ~Sysmodule => calls[Application] = NoCall
           /\ owner' = "stop"
           /\ UNCHANGED <<active, kernel, body>>

Owner == /\ \/ Starting \/ EndLoop \/ StopFlag \/ StopperDone \/ Joined
         /\ UNCHANGED <<build, clientVars, calls, requestVars>>

\* Mutant: nobody locks client_mutex.
FreeAlways == TRUE
Free == holder = "nobody"

\* tick(): what its handlers rewrite is undefined until it ends.
TickBegins ==
    /\ Free /\ holder' = "tick"
    /\ IF Sysmodule
       THEN owner = "started" /\ owner' = "ticking" /\ UNCHANGED body
       ELSE body = "work" /\ body' = "ticking" /\ UNCHANGED owner
    /\ client' = With(client, [a \in Driven \cap Ticked |-> IF a = "channels" THEN <<"rewriting">> ELSE -1])
    /\ UNCHANGED <<active, kernel, build, file, settled, calls, requestVars>>

TickEnds ==
    /\ IF Sysmodule
       THEN owner = "ticking" /\ owner' = "started" /\ UNCHANGED body
       ELSE body = "ticking" /\ body' = "check" /\ UNCHANGED owner
    /\ holder' = "nobody"
    /\ \E new \in [(Driven \cap Ticked) \ {"channels"} -> Values], list \in Lists \cup {Uncached} :
           client' = [With(client, new) EXCEPT !["channels"] = list]
    /\ settled' = client'
    /\ UNCHANGED <<active, kernel, build, file, calls, requestVars>>
-----------------------------------------------------------------------------
(* The session thread of the sysmodule. *)

Receive(p) == /\ Sysmodule /\ body = "work" /\ stage[p] = "sent"
              /\ body' = "serving" /\ stage' = [stage EXCEPT ![p] = "received"]
              /\ UNCHANGED <<active, kernel, owner, build, clientVars, calls, offset, size>>

\* RequestStopProcessing() was called.
StopProcessing == /\ Sysmodule /\ body = "work" /\ owner = "join"
                  /\ body' = "check"
                  /\ UNCHANGED <<active, kernel, owner, build, clientVars, calls, requestVars>>

ThreadLoops == LoopCheck("work") /\ UNCHANGED <<build, clientVars, calls, requestVars>>

\* A command runs on the session thread or on the caller's own.
Runs(p, c) == /\ c \in CommandId /\ Cmd(p) = c
              /\ stage[p] = IF Sysmodule THEN "received" ELSE "sent"

Answer(p, ret, n) ==
    /\ Com!Done(p, ret) /\ size' = [size EXCEPT ![p] = n]
    /\ stage' = [stage EXCEPT ![p] = "replied"]
    /\ body' = IF Sysmodule THEN "check" ELSE body
    /\ UNCHANGED <<active, kernel, owner, build, offset>>

\* Ping is answered without client_mutex.
AnswerPing(p) == /\ Runs(p, "Ping")
                 /\ Answer(p, Reply("Ping", [alive |-> 1]), 0)
                 /\ UNCHANGED clientVars

\* executeFunction(), or LOCK_CLIENT: one step under client_mutex.
Execute(p, c) == /\ Runs(p, c) /\ Free
                 /\ client' \in Outcomes(c, calls[p].arg, client)
                 /\ settled' = client'
                 /\ UNCHANGED <<holder, file>>

ExecuteOther(p) == \E c \in CommandId \ {"Ping"} :
    /\ ~Saves(c) /\ (c = "GetChannels" => ~Sysmodule)
    /\ Execute(p, c)
    /\ Answer(p, Reply(c, client'), 0)

\* Entries from chunk number `from` on, 0 if the list has become shorter.
Remaining(list, from) == IF Len(list) < from * Chunk THEN 0 ELSE Len(list) - from * Chunk

\* The size is capped by the bytes of the array, not by its entries.
ReplySize(list, from) == Min({Remaining(list, from), Chunk * ItemBytes})

\* One request of getChannels() over IPC, with what the caller collects of it.
GetChunk(p) ==
    /\ Sysmodule /\ Execute(p, "GetChannels")
    /\ LET list == client'["channels"]
           n == ReplySize(list, offset[p])
           start == offset[p] * Chunk
           ret == IF calls[p].done THEN calls[p].ret["channels"] ELSE <<>>
       IN Answer(p, [channels |-> ret \o SubSeq(list, start + 1, start + n)], n)

\* The setting is changed in memory and the file truncated ...
SaveBegins(p) == \E c \in CommandId :
    /\ Saves(c) /\ Runs(p, c) /\ Free
    /\ holder' = p
    /\ client' \in Outcomes(c, calls[p].arg, client)
    /\ file' = NoLines
    /\ stage' = [stage EXCEPT ![p] = "saving"]
    /\ UNCHANGED <<threadVars, build, settled, calls, offset, size>>

\* ... and written again before the lock is released.
SaveEnds(p) == /\ stage[p] = "saving"
               /\ file' = Lines(client, Settings)
               /\ holder' = "nobody" /\ settled' = client
               /\ Answer(p, Reply(Cmd(p), client), 0)
               /\ UNCHANGED client
-----------------------------------------------------------------------------
(* The callers. *)

Call(p) == /\ ~Sysmodule => p = Application /\ owner = "started"
           /\ Com!Call(p)
           /\ stage' = [stage EXCEPT ![p] = "sent"] /\ offset' = [offset EXCEPT ![p] = 0]
           /\ UNCHANGED <<threadVars, build, clientVars, size>>

\* serviceDispatch() fails: the reply keeps its initial value.
SendFails(p) == /\ Sysmodule /\ stage[p] = "sent"
                /\ IF calls[p].done THEN UNCHANGED calls ELSE Com!Done(p, ZeroReply(Cmd(p)))
                /\ size' = [size EXCEPT ![p] = 0]
                /\ stage' = [stage EXCEPT ![p] = "replied"]
                /\ UNCHANGED <<threadVars, build, clientVars, offset>>

\* Mutant: a reply with entries makes the whole call start again.
NextRequestFirst(p) == /\ stage[p] = "replied" /\ size[p] > 0
                       /\ stage' = [stage EXCEPT ![p] = "sent"]
                       /\ calls' = [calls EXCEPT ![p].ret = [channels |-> <<>>]]
                       /\ offset' = [offset EXCEPT ![p] = 0]
                       /\ UNCHANGED <<threadVars, build, clientVars, size>>

\* getChannels() goes on until a reply is empty.
NextRequest(p) == /\ stage[p] = "replied" /\ size[p] > 0
                  /\ stage' = [stage EXCEPT ![p] = "sent"]
                  /\ offset' = [offset EXCEPT ![p] = @ + 1]
                  /\ UNCHANGED <<threadVars, build, clientVars, calls, size>>

Return(p) == /\ stage[p] = "replied" /\ size[p] = 0
             /\ calls' = [calls EXCEPT ![p] = NoCall]
             /\ stage' = [stage EXCEPT ![p] = "idle"]
             /\ UNCHANGED <<threadVars, build, clientVars, offset, size>>

CallerGoesOn(p) == NextRequest(p) \/ Return(p)
Serve(p) == AnswerPing(p) \/ ExecuteOther(p) \/ GetChunk(p) \/ SaveBegins(p)
-----------------------------------------------------------------------------
\* The array of a reply is in place.
RepliesFit == \A p \in Callers : size[p] <= Chunk

\* After an overrun the behaviour is undefined.
Next == RepliesFit /\
    \/ Owner \/ TickBegins \/ TickEnds \/ StopProcessing \/ ThreadLoops \/ Restart
    \/ \E p \in Callers : Call(p) \/ SendFails(p) \/ Receive(p) \/ Serve(p) \/ SaveEnds(p) \/ CallerGoesOn(p)

Spec == Init /\ [][Next]_vars

\* Threads go on and a tick ends.  client_mutex is free for the 20 ms between
\* two ticks, so who waits for it gets it; the kernel serves every session.  Sends
\* fail of themselves only after the service ended.
FairSpec ==
    /\ Spec
    /\ WF_vars(Owner /\ owner # "started") /\ WF_vars(StopProcessing) /\ WF_vars(ThreadLoops)
    /\ WF_vars(TickEnds)
    /\ \A p \in Callers :
           /\ SF_vars(Receive(p)) /\ SF_vars(Serve(p)) /\ WF_vars(SaveEnds(p))
           /\ WF_vars(CallerGoesOn(p)) /\ WF_vars(owner = "stopped" /\ SendFails(p))
-----------------------------------------------------------------------------
\* Both builds do what NXCordComInterface promises: each call takes effect at
\* one moment although getChannels() sends several requests, ticks of another
\* thread rewrite the same data and a send may fail, and a setting survives a
\* restart once its call has returned.  (Lists fit a reply here.)
Implements == Com!Spec

\* Every call comes back, the ones the service had not received when it ended
\* included, unless the session thread could not be started.
CallsReturn == \A p \in Callers :
    calls[p] # NoCall ~> (calls[p] = NoCall \/ (kernel = "created" /\ ~active))

\* The client is destroyed after its owner's stop(): then no other thread runs
\* that could tick it or answer from it, and nobody holds its lock.
ThreadEndsFirst == owner = "stopped" => body = "off" /\ holder = "nobody"
==============================================================================
