---------------------------- MODULE MCClientService ----------------------------
(* The UI and the overlay with commands of every kind: one that is answered   *)
(* without the lock, a read of one aspect and of two that a tick rewrites, a  *)
(* list in chunks, a change, and writes to the settings.                      *)
EXTENDS ClientService

MCLists == {<<>>, <<"c1">>}
MCLongLists == {<<>>, <<"c1">>, <<"c1", "c2">>, <<"c1", "c2", "c3">>}
MCOffered == [ui |-> {"SetMicrophoneThreshold", "GetMicrophoneThreshold", "JoinVoiceChannel",
                      "GetChannels"},
              overlay |-> {"Ping", "GetConnectedVoiceChannel"}]
MCListings == [ui |-> {"GetChannels"}, overlay |-> {}]
================================================================================
