---------------------------- MODULE MCUdpClient ----------------------------
(***************************************************************************)
(* Small instance of UdpClient: three connects, so that a reconnect follows*)
(* both a working and a failed start; four handler replacements.           *)
(***************************************************************************)
EXTENDS UdpClient
=============================================================================
