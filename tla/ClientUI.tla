------------------------------- MODULE ClientUI -------------------------------
(***************************************************************************)
(* UIMain and its layouts as a state machine over the connection.  The UI  *)
(* has one thread; between two of its requests the client may tick.  The   *)
(* connecting layout asks isConnected() and calls startConnection() when   *)
(* it is constructed, after the logged-in layout may just have called it.  *)
(* The UI may be closed and opened again while the sysmodule goes on.      *)
(***************************************************************************)
EXTENDS DiscordConnection

VARIABLES
    ui,    \* _current_state
    todo   \* where the connecting layout's constructor is

uiVars == <<ui, todo>>
vars == <<clientVars, uiVars>>

Init == ClientInit /\ ui = "Login" /\ todo = "none"

\* A handler runs on the screen `from` and ends on `to`.
Screen(from, to) == ui \in from /\ todo = "none" /\ ui' = to /\ UNCHANGED todo

\* showConnecting(): the state is set, then the layout constructed.
ShowConnecting(from) == ui \in from /\ todo = "none" /\ ui' = "Connecting" /\ todo' = "check"

Check == /\ todo = "check"
         /\ todo' = IF IsConnected THEN "none" ELSE "start"
         /\ UNCHANGED <<ui, clientVars>>

Start == /\ todo = "start"
         /\ todo' = "none"
         /\ StartConnection
         /\ UNCHANGED ui
-----------------------------------------------------------------------------
(* What the user does. *)

AttemptLogin == \/ LoginAccepted /\ Screen({"Login"}, "Logged_in")
                \/ LoginNeeds2fa /\ Screen({"Login"}, "Login_2fa")
                \/ LoginRefused /\ Screen({"Login"}, "Login")

Submit2fa == \/ CodeAccepted /\ Screen({"Login_2fa"}, "Logged_in")
             \/ CodeRefused /\ Screen({"Login_2fa"}, "Login_2fa")

PressConnect == StartConnection /\ ShowConnecting({"Logged_in"})

\* B or X on the connecting screen, X and Yes on the others.
PressStop == StopConnection /\ Screen({"Connecting", "Connected", "ShowChannels"}, "Logged_in")

PressLogout == Logout /\ Screen({"Logged_in"}, "Login")

Browse == /\ \/ Screen({"Login_2fa"}, "Login")
             \/ Screen({"Connected"}, "ShowChannels")
             \/ Screen({"ShowChannels", "Settings"}, "Connected")
             \/ Screen({"Connected", "ShowChannels"}, "Settings")
             \/ Screen({"Settings"}, "CustomLayout")
             \/ Screen({"CustomLayout"}, "Settings")
          /\ UNCHANGED clientVars

\* Close, and OnLoad when the UI is opened again, which takes longer than the
\* 20 ms between two ticks: no start() waits any more.
Reopen == /\ starts = 0
          /\ todo = "none" /\ ui' = "Login"
          /\ UNCHANGED <<clientVars, todo>>
-----------------------------------------------------------------------------
(* What the screens look up once in a second. *)

SeesToken == /\ token # 0 /\ Screen({"Login"}, "Logged_in")
             /\ UNCHANGED clientVars

\* Mutant: the logged-in screen only looks for a connection on its way.
SeesConnectedLate ==
    /\ IsConnected /\ Screen({"Connecting"}, "Connected")
    /\ UNCHANGED clientVars

SeesConnected == /\ IsConnected /\ Screen({"Logged_in", "Connecting"}, "Connected")
                 /\ UNCHANGED clientVars

SeesConnecting == /\ IsConnecting /\ ShowConnecting({"Logged_in", "Connected", "ShowChannels"})
                  /\ UNCHANGED clientVars

\* The server list's lookup finds no voice channels.
SeesNoChannels == Screen({"ShowChannels"}, "Connected") /\ UNCHANGED clientVars

PingFails == /\ ui # "NoSysmodule" /\ Screen({ui}, "NoSysmodule")
             /\ UNCHANGED clientVars

Lookup == Check \/ Start \/ SeesToken \/ SeesConnected \/ SeesConnecting

User == AttemptLogin \/ Submit2fa \/ PressConnect \/ PressStop \/ PressLogout \/ Browse \/ Reopen

Next == \/ User \/ Lookup \/ SeesNoChannels \/ PingFails
        \/ Tick /\ UNCHANGED uiVars
        \/ Reboot /\ ui' = "Login" /\ todo' = "none"

Spec == Init /\ [][Next]_vars

\* The UI's loop goes on; nobody has to press a key, Discord has to do nothing.
FairSpec == Spec /\ WF_vars(Lookup)
-----------------------------------------------------------------------------
\* Among the types: at most two start() wait for the tick, that of the
\* logged-in screen and that of the connecting screen.
TypeOK == /\ {token, saved, used} \subseteq 0..MaxLogins
          /\ ticket \in BOOLEAN /\ ready \in BOOLEAN /\ quiting \in BOOLEAN
          /\ retry \in BOOLEAN /\ asked \in BOOLEAN
          /\ connection \in {"none", "open"}
          /\ starts \in 0..2
          /\ logins \in 0..MaxLogins
          /\ ui \in {"Login", "Login_2fa", "Logged_in", "Connecting", "Connected", "ShowChannels",
                     "Settings", "CustomLayout", "NoSysmodule"}
          /\ todo \in {"none", "check", "start"}

\* What was stopped, logged out or given up stays so until startConnection()
\* is called again: no connection and nothing scheduled that would make one,
\* although starts are deferred and retries come from sleepy-discord.
StopsStay == connection = "open" \/ starts > 0 \/ retry => asked

\* The connection in force was made with the token in memory, and that token
\* is in the settings, so a power loss does not lose the login in use.
ConnectedTokenSaved == connection = "open" => used = token /\ saved = token

\* If the client is connected for good the UI does not stay on the logged-in
\* or the connecting screen, on whichever way it got there.
UiFollows == <>[]IsConnected => []<>(ui \notin {"Logged_in", "Connecting"})
==============================================================================
