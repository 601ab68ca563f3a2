--------------------------- MODULE MCAudioPlayer ---------------------------
(***************************************************************************)
(* Small instance of AudioPlayer: two sources, a limit of one waiting      *)
(* packet (so a third push drops the first) and packets that expire after  *)
(* one clock step.                                                         *)
(***************************************************************************)
EXTENDS AudioPlayer
=============================================================================
