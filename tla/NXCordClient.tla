----------------------------- MODULE NXCordClient -----------------------------
(***************************************************************************)
(* NXCordClient's view of Discord: each gateway event is handled by one    *)
(* member function, which updates the cached servers and channels          *)
(* (ServerCache) and the voice states (VoiceStates) alike.  Ticks and      *)
(* requests of the UI exclude each other (client_mutex), so a handler with *)
(* its REST calls is one step.                                             *)
(***************************************************************************)
EXTENDS ServerCache, VoiceStates

vars == <<gatewayVars, discordVars, cacheVars, voiceVars>>
Init == DiscordInit /\ CacheInit /\ VoiceInit

\* Discord changes; the client has not heard of it.
DiscordStep ==
    /\ \/ /\ \E s \in Servers : JoinServer(s) \/ LeaveServer(s) \/ EditServer(s)
          /\ UNCHANGED cacheVars
       \/ /\ \E u \in Users, c \in VoiceChannels \cup {None} : Move(u, c)
          /\ UNCHANGED cacheVars
       \/ \E c \in Channels, k \in {"CHANNEL_CREATE", "CHANNEL_UPDATE", "CHANNEL_DELETE"} :
              ChangeChannel(c, k) /\ Miss(ServerOf[c])
    /\ UNCHANGED voiceVars

OnReady == Receiving("READY") /\ CacheReady /\ VoiceOnReady
OnResumed == Receiving("RESUMED") /\ CacheResumed /\ VoiceOnResumed
OnServer == Receiving("GUILD_CREATE") /\ CacheServer /\ VoiceOnServer
OnEditServer == Receiving("GUILD_UPDATE") /\ CacheEditServer /\ UNCHANGED voiceVars
OnDeleteServer == Receiving("GUILD_DELETE") /\ CacheDeleteServer /\ VoiceOnDeleteServer
OnChannel == Receiving("CHANNEL_CREATE") /\ CacheChannel /\ UNCHANGED voiceVars
OnEditChannel == Receiving("CHANNEL_UPDATE") /\ CacheEditChannel /\ UNCHANGED voiceVars
OnDeleteChannel == Receiving("CHANNEL_DELETE") /\ CacheDeleteChannel /\ UNCHANGED voiceVars
OnEditVoiceState == Receiving("VOICE_STATE_UPDATE") /\ VoiceOnEditVoiceState /\ UNCHANGED cacheVars
OnVoiceServer == Receiving("VOICE_SERVER_UPDATE") /\ VoiceOnVoiceServer /\ UNCHANGED cacheVars

Handle == /\ \/ OnReady \/ OnResumed
             \/ OnServer \/ OnEditServer \/ OnDeleteServer
             \/ OnChannel \/ OnEditChannel \/ OnDeleteChannel
             \/ OnEditVoiceState \/ OnVoiceServer
          /\ UNCHANGED discordVars

\* What the UI asks for.
Request ==
    \/ \E s \in Servers : GetCachedChannels(s) /\ UNCHANGED <<gatewayVars, discordVars, voiceVars>>
    \/ \E c \in VoiceChannels : Enter(c) /\ JoinVoiceChannel /\ UNCHANGED cacheVars
    \/ DisconnectVoiceChannel /\ UNCHANGED <<gatewayVars, discordVars, cacheVars>>

\* The connections' own events.
Connection ==
    \/ Drop /\ VoiceOnDisconnect /\ UNCHANGED <<discordVars, cacheVars>>
    \/ Reconnect /\ UNCHANGED <<cacheVars, voiceVars>>
    \/ \E c \in VoiceChannels : VoiceReady(c) /\ UNCHANGED <<gatewayVars, discordVars, cacheVars>>

Next == DiscordStep \/ Handle \/ Request \/ Connection

Spec == Init /\ [][Next]_vars
-----------------------------------------------------------------------------
\* The parts are of their types, and no voice channel is kept without a user.
TypeOK == DiscordTypeOK /\ CacheTypeOK /\ VoiceTypeOK
===============================================================================
