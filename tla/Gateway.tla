------------------------------ MODULE Gateway ------------------------------
(***************************************************************************)
(* The gateway connection as NXCordClient's handlers see it (external:     *)
(* sleepy-discord and Discord).  Events arrive in the order Discord sent   *)
(* them.  When the connection drops, a session that can be resumed replays *)
(* what was not handled and then says RESUMED; otherwise the client        *)
(* identifies anew and gets READY and one GUILD_CREATE per server.         *)
(***************************************************************************)
EXTENDS Integers, Sequences

CONSTANT MaxDrops  \* bound: connections lost

VARIABLES conn,   \* "live" or "down"
          inbox,  \* events sent and not handled yet
          drops   \* connections lost so far

gatewayVars == <<conn, inbox, drops>>

GatewayInit == conn = "down" /\ inbox = <<>> /\ drops = 0

Send(event) == /\ inbox' = Append(inbox, event)
               /\ UNCHANGED <<conn, drops>>

Drop == /\ conn = "live" /\ drops < MaxDrops
        /\ conn' = "down" /\ drops' = drops + 1
        /\ UNCHANGED inbox

Resume == /\ conn = "down" /\ drops > 0
          /\ conn' = "live"
          /\ inbox' = Append(inbox, [kind |-> "RESUMED"])
          /\ UNCHANGED drops

\* What was in flight of the old session is lost.
Identify(guilds) == /\ conn = "down"
                    /\ conn' = "live"
                    /\ inbox' = <<[kind |-> "READY"]>> \o guilds
                    /\ UNCHANGED drops

Receive == /\ conn = "live" /\ inbox # <<>>
           /\ inbox' = Tail(inbox)
           /\ UNCHANGED <<conn, drops>>

Event == Head(inbox)
Receiving(kind) == Receive /\ Event.kind = kind

Quiet == conn = "live" /\ inbox = <<>>
=============================================================================
