---------------------------- MODULE MCNXCordClient ----------------------------
(* Two servers; the first has a channel and two voice channels, the second a  *)
(* voice channel whose number is between theirs; the client's user and        *)
(* another.                                                                   *)
EXTENDS NXCordClient

CONSTANTS other, s1, s2, c1

MCServerOf == [c \in Channels \cup VoiceChannels |-> IF c = 2 THEN s2 ELSE s1]
===============================================================================
