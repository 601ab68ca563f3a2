--------------------------- MODULE ClientUIProofs ---------------------------
(***************************************************************************)
(* Proofs about the connection under the UI, for any number of logins: a   *)
(* stop is final, and the token in use is the one in the settings.         *)
(***************************************************************************)
EXTENDS ClientUI, TLAPS

\* Which token a start would use, and would save: startConnection() saves the
\* token in memory, and neither of the two changes before the next quit().
AskedWithSaved == asked => saved = token

\* The second factor is asked for after the login has quit, and the screen it
\* is asked on starts nothing: the new token meets no connection of the old.
TicketAfterQuit == ui = "Login_2fa" => ~asked

\* The connecting layout is constructed on its own screen.
Constructing == todo # "none" => ui = "Connecting"

\* Who has scheduled a start() that still waits: a connection in force lets
\* nobody, and the connecting screen is entered with one at most.
StartsShape == /\ connection = "open" => starts = 0
               /\ ui \notin {"Connecting", "NoSysmodule"} => starts = 0
               /\ todo # "none" => starts <= 1

\* TypeOK in the parts that the provers take one at a time.
Numbers == {token, saved, used} \subseteq 0..MaxLogins /\ logins \in 0..MaxLogins /\ starts \in 0..2
Flags == {ticket, ready, quiting, retry, asked} \subseteq BOOLEAN
Screens == /\ connection \in {"none", "open"} /\ todo \in {"none", "check", "start"}
           /\ ui \in {"Login", "Login_2fa", "Logged_in", "Connecting", "Connected", "ShowChannels",
                      "Settings", "CustomLayout", "NoSysmodule"}

\* What is true of the session, of the screens, and of both.
Session == StopsStay /\ ConnectedTokenSaved /\ AskedWithSaved
Walk == TicketAfterQuit /\ Constructing

IInv == Numbers /\ Flags /\ Screens /\ Session /\ Walk /\ StartsShape

LEMMA TypeParts == IInv => TypeOK
  BY DEF IInv, Numbers, Flags, Screens, TypeOK

LEMMA InitIInv == ASSUME Init PROVE IInv
  <1> USE DEF Init, ClientInit
  <1>1. Numbers
    BY ConnectionAssumption DEF Numbers
  <1>2. Flags /\ Screens
    BY DEF Flags, Screens
  <1>3. Session /\ Walk
    BY DEF Session, StopsStay, ConnectedTokenSaved, AskedWithSaved, Walk, TicketAfterQuit, Constructing
  <1>4. StartsShape
    BY DEF StartsShape
  <1>5. QED
    BY <1>1, <1>2, <1>3, <1>4 DEF IInv

\* quit() ends the connection and all that is scheduled.
LEMMA QuitStops ==
  ASSUME Flags, Quit
  PROVE /\ connection' = "none" /\ starts' = 0 /\ ~retry' /\ ~asked' /\ UNCHANGED used
        /\ {quiting', ready', retry', asked'} \subseteq BOOLEAN
  BY DEF Quit, Flags

\* Any step that quits keeps the invariant, whatever becomes of the token.
LEMMA QuitStep ==
  ASSUME IInv, Quit, {token', saved', logins'} \subseteq 0..MaxLogins, ticket' \in BOOLEAN,
         Screens', todo' = "none" \/ UNCHANGED uiVars
  PROVE IInv'
  <1> USE QuitStops DEF IInv
  <1>1. Numbers'
    BY DEF Numbers
  <1>2. Flags'
    BY DEF Flags
  <1>3. Session' /\ Walk'
    BY DEF Session, StopsStay, ConnectedTokenSaved, AskedWithSaved, Walk, TicketAfterQuit, Constructing, uiVars
  <1>4. StartsShape'
    BY DEF StartsShape
  <1>5. QED
    BY <1>1, <1>2, <1>3, <1>4

\* A step that only changes the screen, to one on which no more may wait.
LEMMA ScreenStep ==
  ASSUME IInv, UNCHANGED clientVars, Screens', Walk',
         ui' \notin {"Connecting", "NoSysmodule"} => starts = 0, todo' # "none" => starts <= 1
  PROVE IInv'
  <1> USE DEF IInv, clientVars, sessionVars, loginVars
  <1>1. Numbers'
    BY DEF Numbers
  <1>2. Flags'
    BY DEF Flags
  <1>3. Session'
    BY DEF Session, StopsStay, ConnectedTokenSaved, AskedWithSaved
  <1>4. StartsShape'
    BY DEF StartsShape
  <1>5. QED
    BY <1>1, <1>2, <1>3, <1>4

\* startConnection() on its way to, or on, the connecting screen.
LEMMA StartStep ==
  ASSUME IInv, StartConnection, ui' = "Connecting", Screens',
         starts = 0 \/ (starts <= 1 /\ todo' = "none")
  PROVE IInv'
  <1> USE DEF IInv, StartConnection, loginVars
  <1>1. Numbers'
    BY DEF Numbers
  <1>2. Flags'
    BY DEF Flags
  <1>3. Session' /\ Walk'
    BY DEF Session, StopsStay, ConnectedTokenSaved, AskedWithSaved, Walk, TicketAfterQuit, Constructing, Screens
  <1>4. StartsShape'
    BY DEF StartsShape, Numbers
  <1>5. QED
    BY <1>1, <1>2, <1>3, <1>4

\* A step of the user.
LEMMA UserStep == ASSUME IInv, User PROVE IInv'
  <1>1. {token, saved, logins} \subseteq 0..MaxLogins /\ ticket \in BOOLEAN
    BY DEF IInv, Numbers, Flags
  <1>2. NewToken => {token', logins'} \subseteq 0..MaxLogins
    BY <1>1, ConnectionAssumption DEF NewToken
  <1>3. CASE AttemptLogin
    <2>1. Quit /\ (NewToken \/ UNCHANGED <<token, logins>>) /\ UNCHANGED saved /\ ticket' \in {ticket, TRUE}
      BY <1>3 DEF AttemptLogin, LoginAccepted, LoginNeeds2fa, LoginRefused, loginVars
    <2>2. todo' = "none" /\ ui' \in {"Login", "Login_2fa", "Logged_in"}
      BY <1>3 DEF AttemptLogin, Screen
    <2>3. Screens'
      BY <2>1, <2>2, QuitStops DEF IInv, Screens
    <2>4. QED
      BY <1>1, <1>2, <2>1, <2>2, <2>3, QuitStep
  <1>4. CASE Submit2fa
    <2>1. CASE CodeRefused
      BY <1>4, <2>1, ScreenStep
      DEF Submit2fa, CodeRefused, Screen, IInv, Screens, Walk, TicketAfterQuit, Constructing, StartsShape,
          clientVars, sessionVars
    <2>2. CASE CodeAccepted /\ Screen({"Login_2fa"}, "Logged_in")
      \* The login before the code has quit: there is no connection, and nothing scheduled.
      <3>1. ~asked /\ connection = "none" /\ starts = 0 /\ ~retry
        BY <2>2 DEF Screen, IInv, Walk, TicketAfterQuit, Session, StopsStay, Screens, StartsShape
      <3>2. UNCHANGED <<sessionVars, saved, ticket>> /\ NewToken
        BY <2>2 DEF CodeAccepted
      <3>3. ui' = "Logged_in" /\ todo' = "none"
        BY <2>2 DEF Screen
      <3>4. Numbers'
        BY <1>2, <3>2 DEF IInv, Numbers, sessionVars
      <3>5. Flags' /\ Screens'
        BY <3>2, <3>3 DEF IInv, Flags, Screens, sessionVars
      <3>6. Session' /\ Walk' /\ StartsShape'
        BY <3>1, <3>2, <3>3
        DEF sessionVars, Session, StopsStay, ConnectedTokenSaved, AskedWithSaved, Walk, TicketAfterQuit,
            Constructing, StartsShape
      <3>7. QED
        BY <3>4, <3>5, <3>6 DEF IInv
    <2>3. QED
      BY <1>4, <2>1, <2>2 DEF Submit2fa
  <1>5. CASE PressConnect
    BY <1>5, StartStep
    DEF PressConnect, StartConnection, ShowConnecting, IInv, StartsShape, Screens
  <1>6. CASE PressStop
    <2>1. Quit /\ UNCHANGED loginVars /\ ui' = "Logged_in" /\ todo' = "none"
      BY <1>6 DEF PressStop, StopConnection, Screen
    <2>2. Screens'
      BY <2>1, QuitStops DEF IInv, Screens
    <2>3. QED
      BY <1>1, <2>1, <2>2, QuitStep DEF loginVars
  <1>7. CASE PressLogout
    <2>1. Quit /\ token' = 0 /\ saved' = 0 /\ UNCHANGED <<ticket, logins>> /\ ui' = "Login" /\ todo' = "none"
      BY <1>7 DEF PressLogout, Logout, Screen
    <2>2. Screens'
      BY <2>1, QuitStops DEF IInv, Screens
    <2>3. QED
      BY <1>1, <2>1, <2>2, QuitStep, ConnectionAssumption
  <1>8. CASE Browse
    <2>1. UNCHANGED clientVars /\ todo = "none" /\ todo' = "none" /\ ui \notin {"Connecting", "NoSysmodule"}
      BY <1>8 DEF Browse, Screen
    <2>2. ui' \in {"Login", "ShowChannels", "Connected", "Settings", "CustomLayout"}
      BY <1>8 DEF Browse, Screen
    <2>3. QED
      BY <2>1, <2>2, ScreenStep
      DEF IInv, Screens, Walk, TicketAfterQuit, Constructing, StartsShape, clientVars, sessionVars
  <1>9. CASE Reopen
    BY <1>9, ScreenStep
    DEF Reopen, IInv, Screens, Walk, TicketAfterQuit, Constructing, clientVars, sessionVars
  <1>10. QED
    BY <1>3, <1>4, <1>5, <1>6, <1>7, <1>8, <1>9 DEF User

\* A look at the connection.
LEMMA LookStep == ASSUME IInv, Lookup \/ SeesNoChannels \/ PingFails PROVE IInv'
  <1>1. CASE Check
    BY <1>1, ScreenStep
    DEF Check, IInv, Screens, Walk, TicketAfterQuit, Constructing, StartsShape, clientVars, sessionVars
  <1>2. CASE Start
    <2>1. ui' = "Connecting" /\ todo' = "none" /\ starts <= 1
      BY <1>2 DEF Start, IInv, Walk, Constructing, StartsShape
    <2>2. Screens'
      BY <1>2, <2>1 DEF Start, StartConnection, IInv, Screens
    <2>3. QED
      BY <1>2, <2>1, <2>2, StartStep DEF Start
  <1>3. CASE SeesToken \/ SeesConnected \/ SeesNoChannels \/ PingFails
    <2>1. UNCHANGED clientVars /\ todo = "none" /\ todo' = "none"
      BY <1>3 DEF SeesToken, SeesConnected, SeesNoChannels, PingFails, Screen
    <2>2. ui' \in {"Logged_in", "Connected", "NoSysmodule"}
      BY <1>3 DEF SeesToken, SeesConnected, SeesNoChannels, PingFails, Screen
    <2>3. ui' \notin {"Connecting", "NoSysmodule"} => starts = 0
      BY <1>3 DEF SeesToken, SeesConnected, SeesNoChannels, PingFails, Screen, IsConnected, IInv, StartsShape
    <2>4. Screens' /\ Walk'
      BY <2>1, <2>2 DEF IInv, Screens, Walk, TicketAfterQuit, Constructing, clientVars, sessionVars
    <2>5. QED
      BY <2>1, <2>2, <2>3, <2>4, ScreenStep
  <1>4. CASE SeesConnecting
    BY <1>4, ScreenStep
    DEF SeesConnecting, ShowConnecting, IInv, Screens, Walk, TicketAfterQuit, Constructing, StartsShape,
        clientVars, sessionVars
  <1>5. QED
    BY <1>1, <1>2, <1>3, <1>4 DEF Lookup

\* A tick, whatever Discord does in it, under a screen that stays.
LEMMA TickStep == ASSUME IInv, Tick, UNCHANGED uiVars PROVE IInv'
  <1>1. CASE ScheduleTick
    <2>1. PICK due \in {FALSE, retry}, failures \in {"none", "some", "all"} :
            /\ starts + (IF due THEN 1 ELSE 0) > 0
            /\ quiting' = (quiting /\ starts = 0) /\ retry' = ((retry /\ ~due) \/ failures # "none")
            /\ connection' = IF failures = "all" THEN connection ELSE "open"
            /\ used' = IF failures = "all" THEN used ELSE token
            /\ starts' = 0 /\ UNCHANGED <<loginVars, ready, asked>>
      BY <1>1 DEF ScheduleTick
    \* What was scheduled was asked for, and the token it takes is the saved one.
    <2>2. starts > 0 \/ retry
      <3>1. SUFFICES ASSUME ~retry PROVE starts > 0
        OBVIOUS
      <3>2. ~due
        BY <3>1
      <3>3. QED
        BY <2>1, <3>2 DEF IInv, Numbers
    <2>3. asked /\ saved = token
      BY <2>2 DEF IInv, Session, StopsStay, AskedWithSaved
    <2>4. \/ UNCHANGED <<connection, used>>
          \/ connection' = "open" /\ used' = token
      BY <2>1
    <2>5. UNCHANGED <<token, saved, ticket, logins, ready, asked, ui, todo>> /\ starts' = 0
      BY <2>1 DEF loginVars, uiVars
    <2>6. quiting' \in BOOLEAN /\ retry' \in BOOLEAN
      BY <2>1
    <2>7. Numbers' /\ Screens'
      BY <2>4, <2>5 DEF IInv, Numbers, Screens
    <2>8. Flags'
      BY <2>5, <2>6 DEF IInv, Flags
    <2>9. Session' /\ Walk' /\ StartsShape'
      BY <2>3, <2>4, <2>5
      DEF IInv, Session, StopsStay, ConnectedTokenSaved, AskedWithSaved, Walk, TicketAfterQuit, Constructing,
          StartsShape
    <2>10. QED
      BY <2>7, <2>8, <2>9 DEF IInv
  <1>2. CASE BecomesReady \/ Lost
    <2>1. connection = "open" /\ UNCHANGED <<token, saved, ticket, logins, quiting, starts, used, asked, ui, todo>>
      BY <1>2 DEF BecomesReady, Lost, loginVars, uiVars
    <2>2. connection' \in {"none", "open"} /\ ready' \in BOOLEAN /\ retry' \in {retry, TRUE}
      BY <1>2 DEF BecomesReady, Lost
    <2>3. Numbers' /\ Screens'
      BY <2>1, <2>2 DEF IInv, Numbers, Screens
    <2>4. Flags'
      BY <2>1, <2>2 DEF IInv, Flags
    <2>5. Session' /\ Walk' /\ StartsShape'
      BY <2>1, <2>2
      DEF IInv, Session, StopsStay, ConnectedTokenSaved, AskedWithSaved, Walk, TicketAfterQuit, Constructing,
          StartsShape
    <2>6. QED
      BY <2>3, <2>4, <2>5 DEF IInv
  <1>3. CASE TokenRejected
    <2>1. Quit /\ UNCHANGED <<token, saved, ticket, logins>>
      BY <1>3 DEF TokenRejected, StopConnection, loginVars
    <2>2. Screens' /\ {token, saved, logins} \subseteq 0..MaxLogins /\ ticket \in BOOLEAN
      BY <2>1, QuitStops DEF IInv, Screens, uiVars, Numbers, Flags
    <2>3. QED
      BY <2>1, <2>2, QuitStep
  <1>4. QED
    BY <1>1, <1>2, <1>3 DEF Tick

LEMMA StepIInv == ASSUME IInv, [Next]_vars PROVE IInv'
  <1>1. CASE User
    BY <1>1, UserStep
  <1>2. CASE Lookup \/ SeesNoChannels \/ PingFails
    BY <1>2, LookStep
  <1>3. CASE Tick /\ UNCHANGED uiVars
    BY <1>3, TickStep
  <1>4. CASE Reboot /\ ui' = "Login" /\ todo' = "none"
    <2>1. Numbers' /\ Screens'
      BY <1>4, ConnectionAssumption DEF Reboot, IInv, Numbers, Screens
    <2>2. Flags'
      BY <1>4 DEF Reboot, Flags
    <2>3. Session' /\ Walk' /\ StartsShape'
      BY <1>4
      DEF Reboot, Session, StopsStay, ConnectedTokenSaved, AskedWithSaved, Walk, TicketAfterQuit, Constructing,
          StartsShape
    <2>4. QED
      BY <2>1, <2>2, <2>3 DEF IInv
  <1>5. CASE UNCHANGED vars
    BY <1>5, ScreenStep
    DEF vars, uiVars, IInv, Screens, Walk, TicketAfterQuit, Constructing, StartsShape, clientVars, sessionVars
  <1>6. QED
    BY <1>1, <1>2, <1>3, <1>4, <1>5 DEF Next

\* The invariant behind the two properties (DiscordClient and UIMain).
THEOREM Inductive == Spec => []IInv
  <1>1. Init => IInv
    BY InitIInv
  <1>2. IInv /\ [Next]_vars => IInv'
    BY StepIInv
  <1>3. QED
    BY <1>1, <1>2, PTL DEF Spec

\* Every state is well typed; in particular no more than two start() wait for
\* a tick, however the screens are walked through (DiscordClient::startConnection).
THEOREM Typing == Spec => []TypeOK
  <1>1. IInv => TypeOK
    BY TypeParts
  <1>2. QED
    BY <1>1, Inductive, PTL

\* Nothing connects, and nothing is scheduled to, after a stop, a logout or a
\* login until startConnection() is called again (DiscordClient::stopClient).
THEOREM Stopped == Spec => []StopsStay
  <1>1. IInv => StopsStay
    BY DEF IInv, Session
  <1>2. QED
    BY <1>1, Inductive, PTL

\* A connection is made with the token that a power loss leaves on the card
\* (NXCordClient::startConnection), also when a second account logs in.
THEOREM TokenKept == Spec => []ConnectedTokenSaved
  <1>1. IInv => ConnectedTokenSaved
    BY DEF IInv, Session
  <1>2. QED
    BY <1>1, Inductive, PTL
=============================================================================
