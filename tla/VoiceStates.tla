----------------------------- MODULE VoiceStates -----------------------------
(***************************************************************************)
(* Who is shown in which voice channel (_voice_states): what each event's  *)
(* handler and each call of the UI does to it and to the voice connection, *)
(* and the channel that getCurrentVoiceStates() looks up in it.            *)
(*                                                                         *)
(* External: the member list of a GUILD_CREATE may lack some of the users  *)
(* in its voice states.                                                    *)
(***************************************************************************)
EXTENDS Discord

VARIABLES
    states,     \* _voice_states: channel -> the users listed
    connected,  \* _current_voice_connection # nullptr
    context,    \* _current_voice_context.channelID
    pending,    \* sleepy-discord (external): channels whose connection is being made
    \* history
    unnamed,    \* users whose state was passed over because their member was missing
    outage,     \* a server was left since READY
    mine        \* the user's own channel in the last own state handled since READY

callVars == <<connected, context, pending>>
voiceVars == <<states, callVars, unnamed, outage, mine>>

NoStates == [c \in {} |-> <<>>]

VoiceInit == /\ states = NoStates
             /\ connected = FALSE /\ context = None /\ pending = {}
             /\ unnamed = {} /\ outage = FALSE /\ mine = None
-----------------------------------------------------------------------------
Lists(list, u) == \E i \in 1..Len(list) : list[i] = u

\* _voice_states[c].emplace_back(u).
Entered(m, u, c) ==
    [d \in DOMAIN m \cup {c} |-> IF d # c THEN m[d]
                                 ELSE Append(IF c \in DOMAIN m THEN m[c] ELSE <<>>, u)]

\* The first entry of the user, in the order of the map, is erased, and with
\* its last entry the channel.
Left(m, u) ==
    LET of == {c \in DOMAIN m : Lists(m[c], u)}
        c == CHOOSE d \in of : \A e \in of : d <= e
        i == CHOOSE k \in 1..Len(m[c]) : m[c][k] = u /\ \A j \in 1..(k - 1) : m[c][j] # u
        rest == RemoveAt(m[c], i)
    IN IF of = {} THEN m
       ELSE [d \in DOMAIN m \ (IF rest = <<>> THEN {c} ELSE {}) |-> IF d = c THEN rest ELSE m[d]]

\* Mutant: the new channel is entered before the old entry is erased.
MovedSwapped(m, u, c) == Left(IF c = None THEN m ELSE Entered(m, u, c), u)

\* Mutant: a channel is kept when its last user left.
MovedKeeping(m, u, c) ==
    LET left == [d \in DOMAIN m |-> SelectSeq(m[d], LAMBDA v : v # u)]
    IN IF c = None THEN left ELSE Entered(left, u, c)

\* The user's old entry is erased, then the new channel entered.
Moved(m, u, c) == IF c = None THEN Left(m, u) ELSE Entered(Left(m, u), u, c)
-----------------------------------------------------------------------------
\* Mutant: the states of the old session stay.
VoiceOnReadyKeeping ==
    /\ connected' = FALSE
    /\ unnamed' = {} /\ outage' = FALSE /\ mine' = None
    /\ UNCHANGED <<states, context, pending>>

\* The voice context is kept, though nothing rejoins it.
VoiceOnReady ==
    /\ states' = NoStates
    /\ connected' = FALSE
    /\ unnamed' = {} /\ outage' = FALSE /\ mine' = None
    /\ UNCHANGED <<context, pending>>

\* The channel of before, if any, is joined again with the old context.
VoiceOnResumed ==
    /\ connected' = FALSE
    /\ pending' = IF context = None THEN pending ELSE pending \cup {context}
    /\ UNCHANGED <<states, context, unnamed, outage, mine>>

\* Every voice state whose user is among the members is listed, behind those
\* of its channel that are listed already.
VoiceOnServer ==
    /\ \E named \in SUBSET DOMAIN Event.voice :
        LET at == Event.voice IN
        /\ states' = [c \in DOMAIN states \cup {at[u] : u \in named} |->
                         (IF c \in DOMAIN states THEN states[c] ELSE <<>>)
                         \o SetToSeq({u \in named : at[u] = c})]
        /\ unnamed' = (unnamed \ named) \cup (DOMAIN at \ named)
    /\ UNCHANGED <<callVars, outage, mine>>

\* The voice states of the server are kept.
VoiceOnDeleteServer == outage' = TRUE /\ UNCHANGED <<states, callVars, unnamed, mine>>

VoiceOnEditVoiceState ==
    /\ states' = Moved(states, Event.user, Event.channel)
    /\ unnamed' = unnamed \ {Event.user}
    /\ mine' = IF Event.user = me THEN Event.channel ELSE mine
    /\ UNCHANGED <<callVars, outage>>

\* sleepy-discord has what it needs to connect to the voice server.
VoiceOnVoiceServer ==
    /\ pending' = pending \cup {Event.channel}
    /\ UNCHANGED <<states, connected, context, unnamed, outage, mine>>

\* VoiceEventHandler::onReady.
VoiceReady(c) ==
    /\ c \in pending
    /\ pending' = pending \ {c}
    /\ connected' = TRUE /\ context' = c
    /\ UNCHANGED <<states, unnamed, outage, mine>>

\* A connected channel is left before another is joined.
JoinVoiceChannel ==
    /\ connected' = FALSE
    /\ context' = IF connected THEN None ELSE context
    /\ UNCHANGED <<states, pending, unnamed, outage, mine>>

\* Discord takes the user out of the channel in its own time.
DisconnectVoiceChannel ==
    /\ connected
    /\ connected' = FALSE /\ context' = None
    /\ UNCHANGED <<states, pending, unnamed, outage, mine>>

\* onDisconnect forgets the connection and keeps the context.
VoiceOnDisconnect ==
    /\ connected' = FALSE
    /\ UNCHANGED <<states, context, pending, unnamed, outage, mine>>
-----------------------------------------------------------------------------
\* Among the types: no channel is kept without a user (the overlay takes a
\* key as a channel with somebody in it).
VoiceTypeOK == /\ DOMAIN states \subseteq VoiceChannels
               /\ \A c \in DOMAIN states : states[c] \in Seq(Users) /\ states[c] # <<>>
               /\ connected \in BOOLEAN /\ context \in VoiceChannels \cup {None}
               /\ pending \subseteq VoiceChannels
               /\ unnamed \subseteq Users /\ outage \in BOOLEAN
               /\ mine \in VoiceChannels \cup {None}

Entries(u) == UNION {{<<c, i>> : i \in {j \in 1..Len(states[c]) : states[c][j] = u}} :
                     c \in DOMAIN states}

\* Once every event is handled each user is listed exactly once, in the
\* channel the user is in, or not at all, through resumed and new sessions.
\* Not so for users the member list lacked, and after a server was left:
\* its states are kept, and GUILD_CREATE would list them a second time.
StatesAgree ==
    Quiet /\ ~outage =>
        \A u \in Users \ unnamed :
            IF u \in UNION {InVoice(s) : s \in member}
            THEN {e[1] : e \in Entries(u)} = {where[u]} /\ Cardinality(Entries(u)) = 1
            ELSE Entries(u) = {}

\* Once every event is handled a user is listed in the channel the user is in,
\* also after servers were left and their states, which are kept, were told
\* anew: who is listed twice, or where the user was before, does not hide it.
NobodyHidden ==
    Quiet => \A s \in member : \A u \in InVoice(s) \ unnamed :
                 where[u] \in DOMAIN states /\ Lists(states[where[u]], u)

\* getCurrentVoiceStates() dereferences what find() returns.  While the client
\* is connected that is the list of a channel with the user in it, provided
\* that the last own state handled names the channel: that the user was not
\* moved, disconnected by somebody else, or thrown back to READY meanwhile.
PanelHasStates == connected /\ mine = context =>
                      context \in DOMAIN states /\ Lists(states[context], me)
=============================================================================
