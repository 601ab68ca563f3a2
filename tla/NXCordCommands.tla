--------------------------- MODULE NXCordCommands ---------------------------
(***************************************************************************)
(* The 27 commands of NXCordComInterface as tables: which aspects of the   *)
(* client a command's reply tells, and which it changes.  What Discord     *)
(* makes of a request is left open (any value); the other modules model    *)
(* that.  Both builds of the client answer from these tables, the service  *)
(* of the sysmodule and the client inside the application.                 *)
(***************************************************************************)
EXTENDS Integers, SequencesExt

CONSTANTS Values,  \* of an aspect; 0 is the zero value and the default
          Lists    \* channel lists of the server that is asked for

ASSUME ValuesAssumption == 0 \in Values

\* The lines of nxcord.ini.
Settings == {"token", "mic_multiplier", "global_audio_volume", "mic_threshold"}

\* What Discord changes on a tick; "channels" is Uncached or one of Lists.
Driven == {"gateway", "servers", "channels", "voice", "states"}

\* "alive" is what a ping tells.
Aspects == Settings \cup Driven \cup {"login", "alive"}

Uncached == <<"uncached">>

SettingSet == [SetMicrophoneAmplifier |-> "mic_multiplier",
               SetGlobalAudioVolume |-> "global_audio_volume",
               SetMicrophoneThreshold |-> "mic_threshold"]

\* AttemptLogin and the requests about the connection, the servers and channels.
ClientReads == [Ping |-> {"alive"}, IsConnected |-> {"gateway"}, IsConnecting |-> {"gateway"},
                AttemptLogin |-> {"login"}, Submit2faCode |-> {"login"},
                TokenAvailable |-> {"login"},
                GetServers |-> {"servers"}, GetChannels |-> {"channels"}]

SettingReads == [GetMicrophoneAmplifier |-> {"mic_multiplier"},
                 GetGlobalAudioVolume |-> {"global_audio_volume"},
                 GetMicrophoneVolume |-> {"voice"},
                 GetMicrophoneThreshold |-> {"mic_threshold"}]

VoiceReads == [GetVoiceStates |-> {"voice", "states"}, GetUserID |-> {"gateway"},
               GetServer |-> {"servers"}, IsConnectedVoiceChannel |-> {"voice"},
               GetConnectedVoiceChannel |-> {"voice", "channels"},
               GetVoiceUserMultiplier |-> {"voice"}]

\* What a command changes in a way that Discord or the voice connection decides.
Changes == [AttemptLogin |-> {"login", "gateway", "voice"}, Submit2faCode |-> {"login"},
            StartConnection |-> {"gateway"}, StopConnection |-> {"gateway", "voice"},
            Logout |-> {"gateway", "voice"},
            JoinVoiceChannel |-> {"voice"}, DisconnectVoiceChannel |-> {"voice"},
            SetVoiceUserMultiplier |-> {"voice"}]

CommandId == UNION {DOMAIN ClientReads, DOMAIN SettingReads, DOMAIN VoiceReads,
                    DOMAIN Changes, DOMAIN SettingSet}

Lookup(table, c) == IF c \in DOMAIN table THEN table[c] ELSE {}

Told(c) == Lookup(ClientReads, c) \cup Lookup(SettingReads, c) \cup Lookup(VoiceReads, c)

\* What it assigns: a setting, the token in use, or none on logging out.
Assigns(c, arg, com) ==
    IF c \in DOMAIN SettingSet THEN [a \in {SettingSet[c]} |-> arg]
    ELSE IF c = "StartConnection" THEN [a \in {"token"} |-> com["login"]]
    ELSE IF c = "Logout" THEN [a \in {"login", "token"} |-> 0]
    ELSE <<>>

\* The client with new values for some aspects.
With(com, new) == [a \in Aspects |-> IF a \in DOMAIN new THEN new[a] ELSE com[a]]

Saves(c) == c \in DOMAIN SettingSet \cup {"StartConnection", "Logout"}

\* getCachedChannels() fetches a list it does not have.
Fetched(list) == IF list = Uncached THEN Lists ELSE {list}

\* The clients that command c may leave behind.
Outcomes(c, arg, com) ==
    IF c = "GetChannels" THEN {[com EXCEPT !["channels"] = l] : l \in Fetched(com["channels"])}
    ELSE {With(With(com, new), Assigns(c, arg, com)) : new \in [Lookup(Changes, c) -> Values]}

\* A reply: the aspects it tells, and the zero-initialised one.
Reply(c, com) == [a \in Told(c) |-> com[a]]
ZeroReply(c) == [a \in Told(c) |-> IF a = "channels" THEN <<>> ELSE 0]

\* The client that starts with the settings of a file.
Loaded(file) == [a \in Aspects |-> CASE a \in Settings -> file[a]
                                     [] a = "login" -> file["token"]
                                     [] a = "channels" -> Uncached
                                     [] a = "alive" -> 1
                                     [] OTHER -> 0]

\* Some lines of what a client writes; a setting without a line has its default.
Lines(com, kept) == [s \in Settings |-> IF s \in kept THEN com[s] ELSE 0]
NoLines == [s \in Settings |-> 0]
=============================================================================
