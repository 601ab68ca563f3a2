--------------------------- MODULE MCAudioCapture ---------------------------
(***************************************************************************)
(* Small instance of AudioCapture: a limit of two waiting recordings and   *)
(* five recordings, so that the limit drops some, and recordings that      *)
(* expire after one clock step.                                            *)
(***************************************************************************)
EXTENDS AudioCapture
=============================================================================
