-------------------------- MODULE DiscordConnection --------------------------
(***************************************************************************)
(* The life of the gateway connection in DiscordClient and NXCordClient:   *)
(* log in, start, lose, stop and log out, with the token in memory and the *)
(* one in the settings.  startConnection() only schedules start(), which   *)
(* the next tick runs.  Requests and ticks exclude each other, so each is  *)
(* one step.  A token is the number of the login that gave it, 0 for none. *)
(*                                                                         *)
(* External (sleepy-discord): start() clears the quit flag and connects; a *)
(* failed connect or a lost connection schedules another connect; quit()   *)
(* sets the flag, disconnects and calls stopClient(), and may or may not   *)
(* call onDisconnect(); a rejected token quits.                            *)
(***************************************************************************)
EXTENDS Integers

CONSTANT MaxLogins  \* bound: tokens that logins give out

ASSUME ConnectionAssumption == MaxLogins \in Nat

VARIABLES
    token,       \* _token
    saved,       \* the token in the settings file
    ticket,      \* _ticket is set
    connection,  \* connection: "none" or "open"
    ready,       \* _ready
    quiting,     \* isQuiting()
    starts,      \* scheduled start() tasks
    retry,       \* sleepy-discord has a connect scheduled
    logins,      \* tokens given out
    used,        \* history: the token the connection was made with
    asked        \* history: startConnection() was called since the last quit()

sessionVars == <<connection, ready, quiting, starts, retry, used, asked>>
loginVars == <<token, saved, ticket, logins>>
clientVars == <<sessionVars, loginVars>>

\* The constructor quits.
ClientInit == /\ token = 0 /\ saved = 0 /\ ticket = FALSE /\ logins = 0
              /\ connection = "none" /\ ready = FALSE /\ quiting = TRUE
              /\ starts = 0 /\ retry = FALSE /\ used = 0 /\ asked = FALSE

IsConnected == ready /\ connection = "open"
IsConnecting == ~IsConnected /\ ~quiting
-----------------------------------------------------------------------------
(* Requests. *)

\* Mutant: the token is not written to the settings.
StartConnectionUnsaved ==
    /\ starts' = IF connection = "none" THEN starts + 1 ELSE starts
    /\ asked' = TRUE
    /\ UNCHANGED <<loginVars, connection, ready, quiting, retry, used>>

StartConnection ==
    /\ saved' = token
    /\ starts' = IF connection = "none" THEN starts + 1 ELSE starts
    /\ asked' = TRUE
    /\ UNCHANGED <<token, ticket, logins, connection, ready, quiting, retry, used>>

\* Mutant: stopClient() leaves the schedule as it is.
QuitKeepingSchedule ==
    /\ quiting' = TRUE /\ connection' = "none"
    /\ ready' \in {ready, FALSE}
    /\ asked' = FALSE
    /\ UNCHANGED <<used, starts, retry>>

\* quit() with stopClient(), which clears the schedule.
Quit == /\ quiting' = TRUE /\ connection' = "none"
        /\ ready' \in {ready, FALSE}
        /\ starts' = 0 /\ retry' = FALSE
        /\ asked' = FALSE
        /\ UNCHANGED used

StopConnection == Quit /\ UNCHANGED loginVars

Logout == Quit /\ token' = 0 /\ saved' = 0 /\ UNCHANGED <<ticket, logins>>

NewToken == /\ logins < MaxLogins
            /\ logins' = logins + 1
            /\ token' = logins'

\* setLoginCredentials: a refused login leaves the token of before, one that
\* asks for the second factor leaves a ticket too.
LoginAccepted == Quit /\ NewToken /\ UNCHANGED <<saved, ticket>>
LoginNeeds2fa == Quit /\ ticket' = TRUE /\ UNCHANGED <<token, saved, logins>>
LoginRefused == Quit /\ UNCHANGED loginVars

\* submit2faTicket
CodeAccepted == ticket /\ NewToken /\ UNCHANGED <<saved, ticket, sessionVars>>
CodeRefused == UNCHANGED clientVars
-----------------------------------------------------------------------------
(* Ticks. *)

\* The schedule runs every start() that waits, and a connect of sleepy-discord
\* whose time has come.  A connect that fails leaves an earlier connection as
\* it is, and is tried again later; one that succeeds replaces it.
ScheduleTick ==
    \E due \in {FALSE, retry}, failures \in {"none", "some", "all"} :
        LET attempts == starts + (IF due THEN 1 ELSE 0) IN
        /\ attempts > 0 /\ (failures = "some" => attempts > 1)
        /\ starts' = 0
        /\ quiting' = (quiting /\ starts = 0)
        /\ connection' = IF failures = "all" THEN connection ELSE "open"
        /\ used' = IF failures = "all" THEN used ELSE token
        /\ retry' = ((retry /\ ~due) \/ failures # "none")
        /\ UNCHANGED <<loginVars, ready, asked>>

\* READY or RESUMED.
BecomesReady ==
    /\ connection = "open"
    /\ ready' = TRUE
    /\ UNCHANGED <<loginVars, connection, quiting, starts, retry, used, asked>>

Lost ==
    /\ connection = "open"
    /\ connection' = "none" /\ ready' = FALSE /\ retry' = TRUE
    /\ UNCHANGED <<loginVars, quiting, starts, used, asked>>

TokenRejected == connection = "open" /\ StopConnection

Tick == ScheduleTick \/ BecomesReady \/ Lost \/ TokenRejected

\* Power loss: the sysmodule starts again and loads the settings.
Reboot == /\ token' = saved /\ ticket' = FALSE
          /\ connection' = "none" /\ ready' = FALSE /\ quiting' = TRUE
          /\ starts' = 0 /\ retry' = FALSE /\ used' = 0 /\ asked' = FALSE
          /\ UNCHANGED <<saved, logins>>
=============================================================================
