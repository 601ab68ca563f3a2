----------------------------- MODULE MCClientUI -----------------------------
(* Small instance of ClientUI: two logins, so that a second account follows *)
(* a first one that may be connected, connecting or waiting for its start.  *)
EXTENDS ClientUI
=============================================================================
