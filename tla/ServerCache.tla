----------------------------- MODULE ServerCache -----------------------------
(***************************************************************************)
(* The server list and the channel lists that NXCordClient caches for the  *)
(* UI (_servers, _channels): what each event's handler does to them.  A    *)
(* channel list is fetched over REST when it is first needed, which sees   *)
(* Discord as it is now, ahead of the gateway events still in flight; from *)
(* then on the events keep it up to date.                                  *)
(***************************************************************************)
EXTENDS Discord

VARIABLES
    servers,   \* _servers
    channels,  \* _channels
    \* history
    failed,    \* servers whose list was filled from a failed request
    missed     \* servers that changed while the user was out of them, since the list
               \* was last fetched

cacheVars == <<servers, channels, failed, missed>>

Listed(list) == {list[i].id : i \in 1..Len(list)}
NoChannels == [s \in {} |-> <<>>]

CacheInit == /\ servers = <<>> /\ channels = NoChannels
             /\ failed = {} /\ missed = {}
-----------------------------------------------------------------------------
Index(list, id) == CHOOSE i \in 1..Len(list) :
                       list[i].id = id /\ \A j \in 1..(i - 1) : list[j].id # id

\* *it = ... for the first entry with the id, if there is one.
Replaced(list, entry) == IF entry.id \in Listed(list)
                         THEN [list EXCEPT ![Index(list, entry.id)] = entry] ELSE list

\* remove_if() of the entries with the id.
Without(list, id) ==
    LET kept[n \in 0..Len(list)] ==
            IF n = 0 THEN <<>>
            ELSE IF list[n].id = id THEN kept[n - 1] ELSE Append(kept[n - 1], list[n])
    IN kept[Len(list)]

\* Mutant: the server is added although it is listed.
AddedAgain(list, entry) == Append(list, entry)

\* addServer(): a server that is listed stays as it is.
Added(list, entry) == IF entry.id \in Listed(list) THEN list ELSE Append(list, entry)

\* getServers(): the servers as they are now.
FetchedServers == [i \in 1..Cardinality(member) |->
                      LET s == SetToSeq(member)[i] IN [id |-> s, version |-> serverVersion[s]]]

\* getServerChannels(): the channels as they are now; nothing if the request
\* fails, as it does for a server the user is not in.
Fetched(s, ok) ==
    IF ok THEN [i \in 1..Cardinality(Live(s)) |->
                   [id |-> SetToSeq(Live(s))[i], version |-> channel[SetToSeq(Live(s))[i]]]]
          ELSE <<>>

Answers(s) == IF s \in member THEN BOOLEAN ELSE {FALSE}

\* The list of one server becomes `list`; a server without a list gets one.
SetChannels(s, list) ==
    channels' = [t \in DOMAIN channels \cup {s} |-> IF t = s THEN list ELSE channels[t]]

\* The client has yet to hear that the user left s: events from before that
\* are still to be applied to what is fetched now.
LeavePending(s) == \E i \in 1..Len(inbox) : inbox[i].kind = "GUILD_DELETE" /\ inbox[i].id = s

\* fillChannels(): a failed request leaves an empty list that counts as cached.
FillChannels(s) ==
    \E ok \in Answers(s) :
        /\ SetChannels(s, Fetched(s, ok))
        /\ failed' = IF ok THEN failed \ {s} ELSE failed \cup {s}
        /\ missed' = IF ok /\ ~LeavePending(s) THEN missed \ {s} ELSE missed

\* The list of the event's server, if it is cached, becomes `list`; a list
\* that is not cached is fetched, and then knows of the event already.
UpdateChannels(s, list) ==
    /\ IF s \in DOMAIN channels THEN SetChannels(s, list) /\ UNCHANGED <<failed, missed>>
                                ELSE FillChannels(s)
    /\ UNCHANGED servers

Cached(s) == IF s \in DOMAIN channels THEN channels[s] ELSE <<>>
Entry == [id |-> Event.id, version |-> Event.version]
-----------------------------------------------------------------------------
\* Mutant: the servers of the old session stay when getServers() fails.
CacheReadyKeeping ==
    /\ \E ok \in BOOLEAN : servers' = IF ok THEN FetchedServers ELSE servers
    /\ channels' = NoChannels /\ failed' = {}
    /\ UNCHANGED missed

\* Everything cached is dropped; the servers come from getServers(), whose
\* list may be ahead of the GUILD_CREATE events that follow READY.
CacheReady ==
    /\ \E ok \in BOOLEAN : servers' = IF ok THEN FetchedServers ELSE <<>>
    /\ channels' = NoChannels /\ failed' = {}
    /\ UNCHANGED missed

\* After a resume the servers stay; the channel lists are dropped.
CacheResumed == /\ channels' = NoChannels /\ failed' = {}
                /\ UNCHANGED <<servers, missed>>

CacheServer == /\ servers' = Added(servers, Entry)
               /\ UNCHANGED <<channels, failed, missed>>

CacheEditServer == /\ servers' = Replaced(servers, Entry)
                   /\ UNCHANGED <<channels, failed, missed>>

\* The channel list of the server is not dropped.
CacheDeleteServer == /\ servers' = Without(servers, Event.id)
                     /\ UNCHANGED <<channels, failed, missed>>

CacheChannel == LET s == ServerOf[Event.id] IN UpdateChannels(s, Append(Cached(s), Entry))

\* Mutant: an edit of a listed channel is appended.
CacheEditChannelAppending ==
    LET s == ServerOf[Event.id] IN UpdateChannels(s, Append(Cached(s), Entry))

CacheEditChannel == LET s == ServerOf[Event.id] IN UpdateChannels(s, Replaced(Cached(s), Entry))

CacheDeleteChannel == LET s == ServerOf[Event.id] IN UpdateChannels(s, Without(Cached(s), Event.id))

\* GetChannels over IPC, for a server whose list is not cached.
GetCachedChannels(s) == s \notin DOMAIN channels /\ FillChannels(s) /\ UNCHANGED servers

\* The channels of a server change while nobody tells the client.
Miss(s) == /\ missed' = IF s \in member THEN missed ELSE missed \cup {s}
           /\ UNCHANGED <<servers, channels, failed>>
-----------------------------------------------------------------------------
CacheTypeOK == /\ Listed(servers) \subseteq Servers
               /\ DOMAIN channels \subseteq Servers
               /\ \A s \in DOMAIN channels :
                      Listed(channels[s]) \subseteq {c \in Channels : ServerOf[c] = s}
               /\ failed \subseteq DOMAIN channels /\ missed \subseteq Servers

\* A server is listed at most once, although READY, its REST list and the
\* GUILD_CREATE events that follow all name it.  Once every event is handled
\* the list is exactly the servers the user is in, each in its latest
\* version, after reconnects of both kinds and a failed getServers().
ServersAgree ==
    /\ Len(servers) = Cardinality(Listed(servers))
    /\ Quiet => /\ Listed(servers) = member
                /\ \A i \in 1..Len(servers) : servers[i].version = serverVersion[servers[i].id]

\* Once every event is handled a cached channel list names exactly the
\* server's channels, and the first entry of each (the one lookups find) is
\* in its latest version, wherever among the events the list was fetched.  A
\* list that a failed request left may lack channels until the next
\* reconnect, but shows none that is gone or has changed.  Not so the list of
\* a server that changed while the user was out of it: it is the one of before.
ChannelsAgree ==
    Quiet => \A s \in (DOMAIN channels \cap member) \ missed :
                 /\ Listed(channels[s]) \subseteq Live(s)
                 /\ s \notin failed => Live(s) \subseteq Listed(channels[s])
                 /\ \A c \in Listed(channels[s]) :
                        channels[s][Index(channels[s], c)].version = channel[c]
=============================================================================
