-------------------------- MODULE MCWebsocketStream --------------------------
(* Small instance of WebsocketStream: messages of up to five bytes over an    *)
(* input buffer of two, so that a message is read in up to three times, with  *)
(* bytes that yield nothing, less than, and more than the output buffer holds. *)
EXTENDS WebsocketStream

MCMessages == {m \in UNION {[1..n -> {0, 1, 4}] : n \in 1..5} : m[Len(m)] = 0 /\ Sufficient(m)}
==============================================================================
