--------------------------- MODULE MCVoiceSession ---------------------------
(***************************************************************************)
(* Small instance of VoiceSession: three addresses, so that connections    *)
(* remove themselves before, at and behind the loop's index.               *)
(***************************************************************************)
EXTENDS VoiceSession
=============================================================================
