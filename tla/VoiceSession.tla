---------------------------- MODULE VoiceSession ----------------------------
(***************************************************************************)
(* Voice connections: how NXCordClient joins, leaves and rejoins, and how  *)
(* DiscordClient::tick walks through voiceConnections although a           *)
(* connection may remove itself while it is ticked.  The client's thread   *)
(* ticks under client_mutex; requests from the UI run between ticks.       *)
(*                                                                         *)
(* A connection and its context are named by their address, which the      *)
(* allocator may give out again after they are removed.                    *)
(*                                                                         *)
(* External (sleepy-discord): connectToVoiceChannel makes a context; when  *)
(* Discord answers over the gateway the context gets a connection in       *)
(* voiceConnections; a connection whose socket closes removes itself with  *)
(* removeVoiceConnectionAndContext.                                        *)
(***************************************************************************)
EXTENDS Integers, SequencesExt

CONSTANT Address
ASSUME AddressAssumption == IsFiniteSet(Address) /\ 0 \notin Address

VARIABLES
    phase,        \* where the client's thread is: idle, gateway, voice, schedule
    state,        \* what lives at an address: free, context, nosocket, connecting, ready
    connections,  \* voiceConnections: addresses in order
    current,      \* _current_voice_connection; 0 is nullptr
    saved,        \* _current_voice_context names a session and an endpoint
    index,        \* index of the loop
    called,       \* already_called
    due,          \* history: connections with a socket when the loop began
    ticks,        \* history: how often each was ticked in this tick
    orphaning,    \* history: something happened that can leave a second connection
    selfRemoved   \* history: the connection at current removed itself

listVars == <<state, connections>>
sessionVars == <<current, saved>>
loopVars == <<index, called, due, ticks>>
historyVars == <<orphaning, selfRemoved>>
vars == <<phase, listVars, sessionVars, loopVars, historyVars>>

Listed == {connections[i] : i \in 1..Len(connections)}

Init == /\ phase = "idle"
        /\ state = [a \in Address |-> "free"] /\ connections = <<>>
        /\ current = 0 /\ saved = FALSE
        /\ index = 0 /\ called = {} /\ due = {} /\ ticks = [a \in Address |-> 0]
        /\ orphaning = FALSE /\ selfRemoved = FALSE
-----------------------------------------------------------------------------
(* Requests, between two ticks. *)

\* What removeVoiceConnectionAndContext(c) may remove, as places in the list, 0
\* for nothing: when nothing lives at c any more the comparison reads freed
\* memory and may match any connection, or none.
Removable(c) == IF c = 0 THEN {0}
                ELSE IF state[c] # "free" THEN {i \in 1..Len(connections) : connections[i] = c}
                ELSE 0..Len(connections)

Erase(i) == connections' = IF i = 0 THEN connections ELSE RemoveAt(connections, i)
Freed(i) == IF i = 0 THEN state ELSE [state EXCEPT ![connections[i]] = "free"]
UnderWay == \E b \in Address : state[b] \in {"context", "nosocket", "connecting"}

\* Mutant: the pointer outlives the connection it names.
DisconnectVoiceChannelKeeping ==
    /\ phase = "idle" /\ current # 0
    /\ \E i \in Removable(current) : Erase(i) /\ state' = Freed(i)
    /\ saved' = FALSE
    /\ UNCHANGED <<phase, current, loopVars, historyVars>>

DisconnectVoiceChannel ==
    /\ phase = "idle" /\ current # 0
    /\ \E i \in Removable(current) : Erase(i) /\ state' = Freed(i)
    /\ current' = 0 /\ saved' = FALSE /\ selfRemoved' = FALSE
    /\ UNCHANGED <<phase, loopVars, orphaning>>

\* Mutant: the previous channel is not left.
JoinVoiceChannelOnly(a) ==
    /\ phase = "idle"
    /\ state[a] = "free"
    /\ state' = [state EXCEPT ![a] = "context"]
    /\ orphaning' = (orphaning \/ UnderWay)
    /\ UNCHANGED <<phase, connections, sessionVars, loopVars, selfRemoved>>

\* joinVoiceChannel() leaves the current channel first, if there is one; one
\* that was asked for and is not ready yet is not left.
JoinVoiceChannel(a) ==
    /\ phase = "idle"
    /\ \E i \in Removable(current) :
          /\ Erase(i)
          /\ Freed(i)[a] = "free"
          /\ state' = [Freed(i) EXCEPT ![a] = "context"]
    /\ orphaning' = (orphaning \/ UnderWay)
    /\ current' = 0 /\ selfRemoved' = FALSE
    /\ saved' = IF current = 0 THEN saved ELSE FALSE
    /\ UNCHANGED <<phase, loopVars>>
-----------------------------------------------------------------------------
(* The tick: the gateway's socket, then the voice connections, then timers. *)

TickBegin == /\ phase = "idle"
             /\ phase' = "gateway"
             /\ UNCHANGED <<listVars, sessionVars, loopVars, historyVars>>

\* The answer to a join: the context gets a connection, its socket connects
\* or does not.
VoiceServerUpdate(a) ==
    /\ phase = "gateway" /\ state[a] = "context"
    /\ \E s \in {"nosocket", "connecting"} : state' = [state EXCEPT ![a] = s]
    /\ connections' \in {<<a>> \o connections, Append(connections, a)}
    /\ UNCHANGED <<phase, sessionVars, loopVars, historyVars>>

\* onDisconnect() and onReady() of the gateway forget the connection and
\* leave it in voiceConnections.
ForgetConnection ==
    /\ phase = "gateway" /\ current # 0
    /\ current' = 0 /\ selfRemoved' = FALSE
    /\ orphaning' = TRUE
    /\ UNCHANGED <<phase, listVars, saved, loopVars>>

\* onResumed(): rejoins with the context it saved.
OnResumed ==
    /\ phase = "gateway"
    /\ current' = 0 /\ selfRemoved' = FALSE
    /\ IF saved
       THEN \E a \in Address, s \in {"nosocket", "connecting"} :
            /\ state[a] = "free"
            /\ state' = [state EXCEPT ![a] = s]
            /\ connections' \in {<<a>> \o connections, Append(connections, a)}
       ELSE UNCHANGED listVars
    /\ orphaning' = TRUE
    /\ UNCHANGED <<phase, saved, loopVars>>

VoiceLoopBegins ==
    /\ phase = "gateway"
    /\ phase' = "voice"
    /\ index' = 0 /\ called' = {}
    /\ due' = {a \in Listed : state[a] # "nosocket"}
    /\ ticks' = [a \in Address |-> 0]
    /\ UNCHANGED <<listVars, sessionVars, historyVars>>

At == connections[index + 1]

\* if (already_called.find(&context) != already_called.end()) ++index;
AlreadyCalled ==
    /\ phase = "voice" /\ index < Len(connections)
    /\ At \in called
    /\ index' = index + 1
    /\ UNCHANGED <<phase, listVars, sessionVars, called, due, ticks, historyVars>>

\* Mutant: the loop goes on behind the connection it ticked.
CalledGoesOn == called' = called \cup {At} /\ index' = index + 1

\* Mutant: the loop starts over and does not remember.
CalledForgets == called' = called /\ index' = 0

\* already_called.insert(&context); index = 0;
Called == called' = called \cup {At} /\ index' = 0

\* Counts up to two.
Ticked == ticks' = [ticks EXCEPT ![At] = IF @ < 2 THEN @ + 1 ELSE @]

CallNoSocket ==
    /\ phase = "voice" /\ index < Len(connections)
    /\ At \notin called /\ state[At] = "nosocket"
    /\ Called
    /\ UNCHANGED <<phase, listVars, sessionVars, due, ticks, historyVars>>

\* The websocket's tick received nothing that matters here.
CallQuietly ==
    /\ phase = "voice" /\ index < Len(connections)
    /\ At \notin called /\ state[At] # "nosocket"
    /\ Called /\ Ticked
    /\ UNCHANGED <<phase, listVars, sessionVars, due, historyVars>>

\* VoiceEventHandler::onReady: this is the current connection from now on.
CallReady ==
    /\ phase = "voice" /\ index < Len(connections)
    /\ At \notin called /\ state[At] = "connecting"
    /\ Called /\ Ticked
    /\ state' = [state EXCEPT ![At] = "ready"]
    /\ current' = At /\ saved' = TRUE /\ selfRemoved' = FALSE
    /\ UNCHANGED <<phase, connections, due, orphaning>>

\* The socket closed: the connection removes itself, and the reference that
\* the loop holds to its context is used as an address only.
CallRemovesItself ==
    /\ phase = "voice" /\ index < Len(connections)
    /\ At \notin called /\ state[At] # "nosocket"
    /\ Called /\ Ticked
    /\ Erase(index + 1)
    /\ state' = [state EXCEPT ![At] = "free"]
    /\ selfRemoved' = (selfRemoved \/ current = At)
    /\ UNCHANGED <<phase, sessionVars, due, orphaning>>

VoiceLoopEnds ==
    /\ phase = "voice" /\ index >= Len(connections)
    /\ phase' = "schedule"
    /\ UNCHANGED <<listVars, sessionVars, loopVars, historyVars>>

TickEnds ==
    /\ phase = "schedule"
    /\ phase' = "idle"
    /\ index' = 0 /\ called' = {} /\ due' = {} /\ ticks' = [a \in Address |-> 0]
    /\ UNCHANGED <<listVars, sessionVars, historyVars>>

VoiceLoop == \/ AlreadyCalled \/ CallNoSocket \/ CallQuietly \/ CallReady \/ CallRemovesItself
             \/ VoiceLoopEnds

Next == \/ DisconnectVoiceChannel \/ \E a \in Address : JoinVoiceChannel(a)
        \/ TickBegin
        \/ \E a \in Address : VoiceServerUpdate(a)
        \/ ForgetConnection \/ OnResumed
        \/ VoiceLoopBegins \/ VoiceLoop \/ TickEnds

Spec == Init /\ [][Next]_vars

\* A tick that began goes on: none of its steps waits.
FairSpec == Spec /\ WF_vars(VoiceLoop) /\ WF_vars(TickEnds)
-----------------------------------------------------------------------------
TypeOK == /\ phase \in {"idle", "gateway", "voice", "schedule"}
          /\ state \in [Address -> {"free", "context", "nosocket", "connecting", "ready"}]
          /\ connections \in Seq(Address)
          /\ Cardinality(Listed) = Len(connections)
          /\ Listed = {a \in Address : state[a] \notin {"free", "context"}}
          /\ current \in Address \cup {0}
          /\ saved \in BOOLEAN
          /\ index \in 0..Len(connections)
          /\ called \subseteq Address /\ due \subseteq Address
          /\ ticks \in [Address -> 0..2]

\* In one tick every connection that has a socket is ticked exactly once,
\* whichever of them remove themselves and however the list shrinks under the
\* loop's index.
EachTickedOnce == phase = "schedule" => \A a \in Address : ticks[a] = IF a \in due THEN 1 ELSE 0

\* The loop, which starts over after every call, ends.
VoiceLoopEnding == phase = "voice" ~> phase = "idle"

\* The client's pointer names a connection that is in the list and ready,
\* unless that connection removed itself.
CurrentIsReady == current = 0 \/ selfRemoved \/ (current \in Listed /\ state[current] = "ready")

\* Without a lost gateway connection and without a join while another is
\* under way there is never a second context or connection: joining leaves the
\* channel before.
OneAtATime == orphaning \/ Cardinality({a \in Address : state[a] # "free"}) <= 1

\* discord_client.cpp:265-266: "Voice connections can remove themselves from
\* the list.  Consider this when looping through".  The list is not the only
\* place that names a connection: so does _current_voice_connection.
CurrentIsListed == current = 0 \/ current \in Listed
=============================================================================
