------------------------------- MODULE Discord -------------------------------
(***************************************************************************)
(* What Discord holds and tells the client about (external): the servers   *)
(* the client's user is in, their channels, and who is in which voice      *)
(* channel.  A user is in one voice channel at most, and a move to another *)
(* server is told as leaving and then joining.  Asked to join, Discord     *)
(* tells the user's own new state and then the voice server.               *)
(***************************************************************************)
EXTENDS Gateway, FiniteSets, SequencesExt

CONSTANTS Users, me,
          Servers,
          Channels,       \* channels whose life is followed
          VoiceChannels,  \* numbers, in the order of the keys of the client's map
          ServerOf,       \* the server of each channel of either kind
          MaxChanges      \* bound: changes on Discord's side

ASSUME DiscordAssumption == /\ me \in Users /\ IsFiniteSet(Users)
                            /\ IsFiniteSet(Servers) /\ IsFiniteSet(Channels)
                            /\ VoiceChannels \subseteq Nat \ {0}
                            /\ ServerOf \in [Channels \cup VoiceChannels -> Servers]
                            /\ MaxChanges \in Nat /\ MaxDrops \in Nat

None == 0  \* no voice channel

VARIABLES member,         \* the servers the client's user is in
          serverVersion,  \* the version of each server's data
          channel,        \* the version of each channel, 0 before it is created
          deleted,        \* deleted channels; Discord does not reuse an id
          where,          \* the voice channel of each user
          changes         \* changes so far

discordVars == <<member, serverVersion, channel, deleted, where, changes>>

DiscordInit == /\ GatewayInit
               /\ member = Servers
               /\ serverVersion = [s \in Servers |-> 1]
               /\ channel = [c \in Channels |-> 0] /\ deleted = {}
               /\ where = [u \in Users |-> None]
               /\ changes = 0

Live(s) == {c \in Channels : ServerOf[c] = s /\ channel[c] > 0 /\ c \notin deleted}
InVoice(s) == {u \in Users : where[u] # None /\ ServerOf[where[u]] = s}

Guild(s) == [kind |-> "GUILD_CREATE", id |-> s, version |-> serverVersion[s],
             voice |-> [u \in InVoice(s) |-> where[u]]]
State(u, c) == [kind |-> "VOICE_STATE_UPDATE", user |-> u, channel |-> c]
-----------------------------------------------------------------------------
Change == changes < MaxChanges /\ changes' = changes + 1

\* Only members of a server hear of it.
Tell(s, event) == IF s \in member THEN Send(event) ELSE UNCHANGED gatewayVars

\* Also the end of an outage.
JoinServer(s) ==
    /\ Change /\ s \notin member
    /\ member' = member \cup {s}
    /\ Send(Guild(s))
    /\ UNCHANGED <<serverVersion, channel, deleted, where>>

\* Also an outage of the server.
LeaveServer(s) ==
    /\ Change /\ s \in member
    /\ member' = member \ {s}
    /\ where' = IF me \in InVoice(s) THEN [where EXCEPT ![me] = None] ELSE where
    /\ Send([kind |-> "GUILD_DELETE", id |-> s])
    /\ UNCHANGED <<serverVersion, channel, deleted>>

EditServer(s) ==
    /\ Change
    /\ serverVersion' = [serverVersion EXCEPT ![s] = @ + 1]
    /\ Tell(s, [kind |-> "GUILD_UPDATE", id |-> s, version |-> serverVersion'[s]])
    /\ UNCHANGED <<member, channel, deleted, where>>

ChangeChannel(c, kind) ==
    /\ Change
    /\ c \notin deleted
    /\ kind = "CHANNEL_CREATE" <=> channel[c] = 0
    /\ channel' = [channel EXCEPT ![c] = @ + 1]
    /\ deleted' = IF kind = "CHANNEL_DELETE" THEN deleted \cup {c} ELSE deleted
    /\ Tell(ServerOf[c], [kind |-> kind, id |-> c, version |-> channel'[c]])
    /\ UNCHANGED <<member, serverVersion, where>>

\* A user joins, leaves or changes the channel within a server, or somebody
\* else moves or disconnects the user.
Move(u, c) ==
    /\ Change
    /\ where[u] # c
    /\ u = me => where[me] # None
    /\ where' = [where EXCEPT ![u] = c]
    /\ \E s \in Servers : /\ {ServerOf[d] : d \in {where[u], c} \ {None}} = {s}
                          /\ Tell(s, State(u, c))
    /\ UNCHANGED <<member, serverVersion, channel, deleted>>

\* The client asks to join a voice channel.
Enter(c) ==
    /\ Change
    /\ conn = "live" /\ ServerOf[c] \in member
    /\ where' = [where EXCEPT ![me] = c]
    /\ inbox' = inbox \o (IF where[me] # None /\ ServerOf[where[me]] # ServerOf[c]
                          THEN <<State(me, None)>> ELSE <<>>)
                      \o <<State(me, c), [kind |-> "VOICE_SERVER_UPDATE", channel |-> c]>>
    /\ UNCHANGED <<conn, drops, member, serverVersion, channel, deleted>>

Reconnect == /\ \/ Resume
                \/ Identify([i \in 1..Cardinality(member) |-> Guild(SetToSeq(member)[i])])
             /\ UNCHANGED discordVars

DiscordTypeOK == /\ conn \in {"live", "down"} /\ drops \in 0..MaxDrops
                 /\ member \subseteq Servers
                 /\ serverVersion \in [Servers -> 1..(MaxChanges + 1)]
                 /\ channel \in [Channels -> 0..MaxChanges] /\ deleted \subseteq Channels
                 /\ where \in [Users -> VoiceChannels \cup {None}]
                 /\ changes \in 0..MaxChanges
=============================================================================
