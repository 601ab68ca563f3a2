------------------------------ MODULE UdpClient ------------------------------
(***************************************************************************)
(* DiscordUDPClient: the voice socket.  The owner (the client's thread)    *)
(* connects, replaces the receive handler and destroys the client; the     *)
(* receive thread reads datagrams and calls a copy of the handler that it  *)
(* takes under _receiver_func_mutex and calls outside it, so a handler may *)
(* itself replace the handler.                                             *)
(*                                                                         *)
(* External: recvfrom may return a datagram, time out (SO_RCVTIMEO) or     *)
(* fail while the descriptor is open, and fails once it is closed;         *)
(* socket() gives the least free descriptor or fails.                      *)
(***************************************************************************)
EXTENDS LoopThread

CONSTANTS MaxConnects,  \* bound: successful socket() calls
          MaxHandlers   \* bound: set/unset calls

ASSUME UdpAssumption == MaxConnects \in Nat /\ MaxHandlers \in Nat

VARIABLES
    call,      \* which call of the owner is in progress
    fd,        \* _fd
    sockets,   \* open descriptors of this client -> number of the connect that opened it
    connects,  \* connects so far
    deaf,      \* history: connects whose receive thread did not start
    mutex,     \* _receiver_func_mutex is held (by the receive thread)
    handler,   \* receive_handler: 0 for none, else the number of the set call
    handlers,  \* set and unset calls so far
    snapshot,  \* the receive thread's copy of the handler
    packet,    \* the connect whose socket the datagram in hand came from
    stale      \* history: calls of a handler since it was replaced

socketVars == <<call, fd, sockets, connects, deaf>>
handlerVars == <<mutex, handler, handlers, snapshot, packet, stale>>
vars == <<threadVars, socketVars, handlerVars>>

Descriptors == 0..MaxConnects
LeastFree(d) == d \in Descriptors \ DOMAIN sockets /\ \A e \in 0..(d - 1) : e \in DOMAIN sockets

Init == /\ ThreadInit /\ owner = "idle"
        /\ call = "none" /\ fd = -1 /\ connects = 0 /\ deaf = {}
        /\ sockets = [d \in {} |-> 0]
        /\ mutex = FALSE /\ handler = 0 /\ handlers = 0
        /\ snapshot = 0 /\ packet = 0 /\ stale = 0
-----------------------------------------------------------------------------
\* connect() and the destructor begin with disconnect(), which stops the
\* thread only if there is a descriptor.
Begin(what) ==
    /\ owner = "idle"
    /\ call' = what
    /\ owner' = IF fd >= 0 THEN "stop" ELSE "disconnected"
    /\ UNCHANGED <<active, kernel, body, fd, sockets, connects, deaf, handlerVars>>

Connect == connects < MaxConnects /\ Begin("connect")
Destroy == Begin("destroy")

\* Mutant: the stopper shuts the socket down and does not close it.
StopperShutdownOnly == StopperDone /\ UNCHANGED <<socketVars, handlerVars>>

\* The stopper closes the descriptor while the thread may be in recvfrom on it.
Stopper ==
    /\ StopperDone
    /\ sockets' = [d \in DOMAIN sockets \ {fd} |-> sockets[d]]
    /\ UNCHANGED <<call, fd, connects, deaf, handlerVars>>

Disconnected ==
    /\ owner = "stopped"
    /\ fd' = -1
    /\ owner' = "disconnected"
    /\ UNCHANGED <<active, kernel, body, call, sockets, connects, deaf, handlerVars>>

SocketFails ==
    /\ owner = "disconnected" /\ call = "connect"
    /\ owner' = "idle" /\ call' = "none"
    /\ UNCHANGED <<active, kernel, body, fd, sockets, connects, deaf, handlerVars>>

SocketOpens(d) ==
    /\ owner = "disconnected" /\ call = "connect"
    /\ LeastFree(d)
    /\ connects' = connects + 1
    /\ fd' = d
    /\ sockets' = [e \in DOMAIN sockets \cup {d} |-> IF e = d THEN connects' ELSE sockets[e]]
    /\ owner' = "start"
    /\ UNCHANGED <<active, kernel, body, call, deaf, handlerVars>>

\* The failure is logged only; connect() returns true whether or not the
\* thread could be started.
StartFailed == StartFails /\ deaf' = deaf \cup {connects}
               /\ UNCHANGED <<call, fd, sockets, connects, handlerVars>>

ConnectReturns ==
    /\ owner = "started"
    /\ owner' = "idle" /\ call' = "none"
    /\ UNCHANGED <<active, kernel, body, fd, sockets, connects, deaf, handlerVars>>

\* ~LoopThread: stop() finds the flag clear, threadClose.
Close ==
    /\ owner = "disconnected" /\ call = "destroy"
    /\ owner' = "gone"
    /\ UNCHANGED <<active, kernel, body, socketVars, handlerVars>>

\* setReceiveHandler and unsetReceiveHandler, under the mutex; called by the
\* owner, or by the handler that the receive thread is running.
ReplaceHandler(h) ==
    /\ owner = "idle" \/ body = "call"
    /\ ~mutex
    /\ handlers < MaxHandlers
    /\ handlers' = handlers + 1
    /\ handler' = h
    /\ stale' = 0
    /\ UNCHANGED <<threadVars, socketVars, mutex, snapshot, packet>>

Set == ReplaceHandler(handlers + 1)
Unset == handler # 0 /\ ReplaceHandler(0)
-----------------------------------------------------------------------------
Receives ==
    /\ body = "recv" /\ fd \in DOMAIN sockets
    /\ packet' = sockets[fd]
    /\ body' = "lock"
    /\ UNCHANGED <<active, kernel, owner, socketVars, mutex, handler, handlers, snapshot, stale>>

\* The receive times out: errno is EAGAIN, the flag is checked again.
TimesOut ==
    /\ body = "recv" /\ fd \in DOMAIN sockets
    /\ body' = "check"
    /\ UNCHANGED <<active, kernel, owner, socketVars, handlerVars>>

\* Any other failure, or an empty datagram: a second of sleep if still active.
ReceiveFails ==
    /\ body = "recv"
    /\ body' = IF active THEN "sleep" ELSE "check"
    /\ UNCHANGED <<active, kernel, owner, socketVars, handlerVars>>

Wakes ==
    /\ body = "sleep"
    /\ body' = "check"
    /\ UNCHANGED <<active, kernel, owner, socketVars, handlerVars>>

LockHandler ==
    /\ body = "lock" /\ ~mutex
    /\ mutex' = TRUE
    /\ body' = "copy"
    /\ UNCHANGED <<active, kernel, owner, socketVars, handler, handlers, snapshot, packet, stale>>

\* Mutant: the handler is copied for the first datagram only.
CopyHandlerOnce ==
    /\ body = "copy"
    /\ snapshot' = IF snapshot # 0 THEN snapshot ELSE handler
    /\ mutex' = FALSE
    /\ body' = IF snapshot' = 0 THEN "check" ELSE "dispatch"
    /\ UNCHANGED <<active, kernel, owner, socketVars, handler, handlers, packet, stale>>

CopyHandler ==
    /\ body = "copy"
    /\ snapshot' = handler
    /\ mutex' = FALSE
    /\ body' = IF handler = 0 THEN "check" ELSE "dispatch"
    /\ UNCHANGED <<active, kernel, owner, socketVars, handler, handlers, packet, stale>>

\* The copied handler is entered; by now it may have been replaced.
EnterHandler ==
    /\ body = "dispatch"
    /\ stale' = IF snapshot # handler THEN stale + 1 ELSE stale
    /\ body' = "call"
    /\ UNCHANGED <<active, kernel, owner, socketVars, mutex, handler, handlers, snapshot, packet>>

HandlerReturns ==
    /\ body = "call"
    /\ body' = "check"
    /\ UNCHANGED <<active, kernel, owner, socketVars, handlerVars>>

ThreadStep == \/ LoopCheck("recv") /\ UNCHANGED <<socketVars, handlerVars>>
              \/ Receives \/ TimesOut \/ ReceiveFails \/ Wakes
              \/ LockHandler \/ CopyHandler \/ EnterHandler \/ HandlerReturns

OwnerStep == \/ (StartFlag \/ ThreadStarts \/ StopFlag \/ Joined)
                /\ UNCHANGED <<socketVars, handlerVars>>
             \/ Stopper \/ Disconnected
             \/ SocketFails \/ \E d \in Descriptors : SocketOpens(d)
             \/ StartFailed \/ ConnectReturns \/ Close

Next == Connect \/ Destroy \/ OwnerStep \/ ThreadStep \/ Set \/ Unset

Spec == Init /\ [][Next]_vars

\* Both threads are scheduled; a handler returns; recvfrom does not block for
\* ever (SO_RCVTIMEO), which is why a fair thread always gets back to the flag.
FairSpec == Spec /\ WF_vars(ThreadStep) /\ WF_vars(OwnerStep)
-----------------------------------------------------------------------------
TypeOK == /\ ThreadTypeOK
          /\ owner \in {"idle", "start", "starting", "started", "stop", "stopper", "join",
                        "stopped", "disconnected", "gone"}
          /\ body \in {"off", "check", "recv", "sleep", "lock", "copy", "dispatch", "call"}
          /\ call \in {"none", "connect", "destroy"}
          /\ fd \in Descriptors \cup {-1}
          /\ connects \in 0..MaxConnects
          /\ DOMAIN sockets \subseteq Descriptors
          /\ sockets \in [DOMAIN sockets -> 1..MaxConnects]
          /\ deaf \subseteq 1..MaxConnects
          /\ mutex = (body = "copy")
          /\ handlers \in 0..MaxHandlers
          /\ {handler, snapshot} \subseteq 0..MaxHandlers
          /\ packet \in 0..MaxConnects
          /\ stale \in Nat

\* Once disconnect() is over no handler is running and none will be entered:
\* the voice connection that the handler belongs to may be destroyed.
QuietAfterDisconnect == owner \in {"disconnected", "gone"} => body = "off" /\ ~mutex

\* A datagram that reaches a handler came from the socket of the connect in
\* force, also when a later socket got the number of a closed one; a connect
\* whose thread did not start delivers nothing.
DeliversCurrentConnect ==
    body \in {"lock", "copy", "dispatch", "call"} => packet = connects /\ connects \notin deaf

\* A handler that was replaced runs at most once more: for the datagram that
\* was in hand.
AtMostOneStaleCall == stale <= 1

\* disconnect() forgets a descriptor without closing it only where the
\* thread of its connect did not start (stop() skips the stopper then).
LostOnlyIfDeaf == \A d \in DOMAIN sockets \ {fd} : sockets[d] \in deaf

\* A call of the owner returns although the thread is in the middle of a
\* receive or of a handler that replaces the handler.
OwnerReturns == owner \notin {"idle", "gone"} ~> owner \in {"idle", "gone"}
=============================================================================
