---------------------------- MODULE NetworkProofs ----------------------------
(***************************************************************************)
(* Proofs about the three components beside the sockets, each on its own:  *)
(* the voice UDP client (UdpClient), the HTTP session (HttpSession) and    *)
(* the gateway's compressed stream (WebsocketStream).                      *)
(***************************************************************************)
EXTENDS UdpClient, HttpSession, WebsocketStream, FiniteSetTheorems, SequenceTheorems,
        WellFoundedInduction, TLAPS

-----------------------------------------------------------------------------
(* UdpClient, for any number of connects and handlers: typing, quiet after *)
(* disconnect(), deliveries of the connect in force, at most one call of a *)
(* replaced handler, and no descriptor lost but that of a connect whose    *)
(* thread did not start.                                                   *)
(*                                                                         *)
(* None of these is inductive alone.  What carries them is how the flag,   *)
(* the kernel thread and the owner's place in its call fit together        *)
(* (ThreadShape), and which descriptor is of which connect (SocketShape). *)

\* A thread function that is running has the flag set, unless the owner is
\* between clearing the flag and the join; nothing runs where the owner is
\* past the join or has not started the thread.
ThreadShape ==
    /\ kernel = "running" <=> body # "off"
    /\ active => kernel = "running" \/ owner = "starting"
    /\ ~active /\ body # "off" => owner \in {"stopper", "join"}
    /\ owner \in {"start", "stopped", "disconnected", "gone"} => ~active /\ body = "off"
    /\ owner = "starting" => active /\ body = "off"
    /\ owner \in {"stopper", "join"} => ~active

\* The descriptor is of the connect in force, and where no thread serves it
\* it is closed or that connect is deaf.
SocketShape ==
    /\ fd = -1 => ~active /\ body = "off"
    /\ owner = "disconnected" => fd = -1
    /\ fd \in DOMAIN sockets => sockets[fd] = connects
    /\ deaf \subseteq 1..connects
    /\ owner \in {"start", "starting"} => connects > 0 /\ fd # -1
    /\ call = "connect" /\ owner \in {"stop", "stopper", "join", "stopped", "disconnected"} =>
          connects < MaxConnects
    /\ body # "off" \/ owner \in {"start", "starting"} => connects \notin deaf
    /\ owner = "join" => fd \notin DOMAIN sockets
    /\ owner \in {"idle", "started", "stop", "stopped"} /\ ~active =>
          fd \notin DOMAIN sockets \/ connects \in deaf

\* The one stale call is used up when a copy that is no longer the handler is
\* on its way to the call.
StaleOnceOnly == AtMostOneStaleCall /\ (body = "dispatch" /\ snapshot # handler => stale = 0)

IInv == TypeOK /\ ThreadShape /\ SocketShape /\ DeliversCurrentConnect /\ LostOnlyIfDeaf /\ StaleOnceOnly

LEMMA InitIInv == ASSUME Init PROVE IInv
  <1> USE UdpAssumption DEF Init, ThreadInit
  <1>1. sockets \in [DOMAIN sockets -> 1..MaxConnects] /\ DOMAIN sockets = {}
    OBVIOUS
  <1>2. TypeOK
    <2>1. mutex = (body = "copy")
      OBVIOUS
    <2>2. fd \in Descriptors \cup {-1} /\ {handler, snapshot} \subseteq 0..MaxHandlers
      BY DEF Descriptors
    <2>3. ThreadTypeOK
      BY DEF ThreadTypeOK
    <2>4. DOMAIN sockets \subseteq Descriptors /\ packet \in 0..connects /\ deaf \subseteq 1..MaxConnects
      BY <1>1
    <2>5. QED
      BY <1>1, <2>1, <2>2, <2>3, <2>4 DEF TypeOK
  <1>3. ThreadShape /\ SocketShape
    BY <1>1 DEF ThreadShape, SocketShape
  <1>4. DeliversCurrentConnect /\ LostOnlyIfDeaf /\ StaleOnceOnly
    BY <1>1 DEF DeliversCurrentConnect, LostOnlyIfDeaf, StaleOnceOnly, AtMostOneStaleCall
  <1>5. QED
    BY <1>2, <1>3, <1>4 DEF IInv

\* Every step of the owner, of the handler's setters and of the receive thread
\* keeps the invariant; only a start that the kernel refuses needs more than
\* the invariant and the action.
LEMMA StepIInv == ASSUME IInv, [Next]_vars PROVE IInv'
  <1> USE UdpAssumption DEF IInv, TypeOK, ThreadTypeOK, ThreadShape, SocketShape, DeliversCurrentConnect,
        LostOnlyIfDeaf, StaleOnceOnly, AtMostOneStaleCall, threadVars, socketVars, handlerVars, Descriptors
  <1>1. CASE Connect
    BY <1>1 DEF Connect, Begin
  <1>2. CASE Destroy
    BY <1>2 DEF Destroy, Begin
  <1>3. CASE Disconnected
    BY <1>3 DEF Disconnected
  <1>4. CASE SocketFails
    BY <1>4 DEF SocketFails
  <1>5. CASE ConnectReturns
    BY <1>5 DEF ConnectReturns
  <1>6. CASE Close
    BY <1>6 DEF Close
  <1>7. CASE Set
    BY <1>7 DEF Set, ReplaceHandler
  <1>8. CASE Unset
    BY <1>8 DEF Unset, ReplaceHandler
  <1>9. CASE Receives
    BY <1>9 DEF Receives
  <1>10. CASE TimesOut
    BY <1>10 DEF TimesOut
  <1>11. CASE ReceiveFails
    BY <1>11 DEF ReceiveFails
  <1>12. CASE Wakes
    BY <1>12 DEF Wakes
  <1>13. CASE LockHandler
    BY <1>13 DEF LockHandler
  <1>14. CASE CopyHandler
    BY <1>14 DEF CopyHandler
  <1>15. CASE EnterHandler
    BY <1>15 DEF EnterHandler
  <1>16. CASE HandlerReturns
    BY <1>16 DEF HandlerReturns
  <1>17. CASE StartFailed
    <2> USE <1>17 DEF StartFailed, StartFails
    <2>1. connects \in 1..MaxConnects /\ connects \in 1..connects
      OBVIOUS
    <2>2. deaf' \subseteq 1..MaxConnects /\ deaf' \subseteq 1..connects' /\ connects \in deaf'
      BY <2>1
    <2>3. TypeOK' /\ ThreadShape' /\ SocketShape'
      BY <2>2
    <2>4. DeliversCurrentConnect' /\ LostOnlyIfDeaf' /\ StaleOnceOnly'
      OBVIOUS
    <2>5. QED
      BY <2>3, <2>4
  <1>18. CASE Stopper
    BY <1>18 DEF Stopper, StopperDone
  <1>19. CASE StartFlag /\ UNCHANGED <<socketVars, handlerVars>>
    BY <1>19 DEF StartFlag
  <1>20. CASE ThreadStarts /\ UNCHANGED <<socketVars, handlerVars>>
    BY <1>20 DEF ThreadStarts
  <1>21. CASE StopFlag /\ UNCHANGED <<socketVars, handlerVars>>
    BY <1>21 DEF StopFlag
  <1>22. CASE Joined /\ UNCHANGED <<socketVars, handlerVars>>
    BY <1>22 DEF Joined
  <1>23. CASE LoopCheck("recv") /\ UNCHANGED <<socketVars, handlerVars>>
    BY <1>23 DEF LoopCheck
  <1>24. ASSUME NEW d \in Descriptors, SocketOpens(d) PROVE IInv'
    BY <1>24 DEF SocketOpens, LeastFree
  <1>25. CASE UNCHANGED vars
    BY <1>25 DEF vars
  <1>26. QED
    BY <1>1, <1>2, <1>3, <1>4, <1>5, <1>6, <1>7, <1>8, <1>9, <1>10, <1>11,
       <1>12, <1>13, <1>14, <1>15, <1>16, <1>17, <1>18, <1>19, <1>20, <1>21, <1>22, <1>23,
       <1>24, <1>25
    DEF Next, OwnerStep, ThreadStep

\* The invariant holds in every reachable state.
THEOREM Inductive == Spec => []IInv
  <1>1. Init => IInv
    BY InitIInv
  <1>2. IInv /\ [Next]_vars => IInv'
    BY StepIInv
  <1>3. QED
    BY <1>1, <1>2, PTL DEF Spec

\* Every reachable state of the client and its receive thread is well typed.
THEOREM Typing == Spec => []TypeOK
  <1>1. IInv => TypeOK
    BY DEF IInv
  <1>2. QED
    BY <1>1, Inductive, PTL

\* When disconnect() is over the receive thread is out of its handler for good,
\* so connect() and the destructor may reuse or free what the handler uses.
THEOREM Quiet == Spec => []QuietAfterDisconnect
  <1>1. IInv => QuietAfterDisconnect
    BY DEF IInv, ThreadShape, TypeOK, QuietAfterDisconnect
  <1>2. QED
    BY <1>1, Inductive, PTL

\* What reaches a handler came from the socket of the connect in force.
THEOREM Delivers == Spec => []DeliversCurrentConnect
  <1>1. IInv => DeliversCurrentConnect
    BY DEF IInv
  <1>2. QED
    BY <1>1, Inductive, PTL

\* connect() and disconnect() leave no descriptor open but that of a connect
\* whose receive thread did not start.
THEOREM LosesOnlyDeaf == Spec => []LostOnlyIfDeaf
  <1>1. IInv => LostOnlyIfDeaf
    BY DEF IInv
  <1>2. QED
    BY <1>1, Inductive, PTL

\* A handler that was replaced runs at most once more.
THEOREM StaleAtMostOnce == Spec => []AtMostOneStaleCall
  <1>1. IInv => AtMostOneStaleCall
    BY DEF IInv, StaleOnceOnly
  <1>2. QED
    BY <1>1, Inductive, PTL
-----------------------------------------------------------------------------
(* HttpSession, for any replies, addresses and number of requests: which   *)
(* variable owns which open socket.                                        *)

\* The wrapper of the request owns the new socket from the handshake on, and
\* before it the local variable alone does; the websocket's is another.
OwnerShape ==
    /\ {tcpFd, net, websocket} \subseteq Nat \cup {-1}
    /\ stage \in {"idle", "resolve", "connect", "failed", "write", "read", "parse", "returned"}
    /\ stage \in {"idle", "resolve", "connect"} => net = -1
    /\ stage = "resolve" => tcpFd = -1
    /\ stage # "connect" => tcpSockets = {websocket, net} \ {-1} /\ (net # -1 => net # websocket)
    /\ stage = "connect" => tcpSockets = {websocket, tcpFd} \ {-1} /\ (tcpFd # -1 => tcpFd # websocket)

\* socket() finds a free number among those it is given, as at most one is taken.
LEMMA Free ==
  ASSUME OwnerShape, stage = "connect", tcpFd = -1
  PROVE  FreeFd \in Nat /\ FreeFd # websocket
  <1> DEFINE IsLeast(n) == n \notin tcpSockets /\ \A k \in 3..(n - 1) : k \in tcpSockets
  <1>1. \A n : n \in tcpSockets <=> n = websocket /\ n # -1
    BY DEF OwnerShape
  <1>2. CASE websocket # 3
    <2>1. IsLeast(3) /\ 3 \in 3..(4 + MaxRequests)
      BY <1>1, <1>2, HttpAssumption
    <2>2. QED
      BY <1>1, <2>1 DEF FreeFd
  <1>3. CASE websocket = 3
    <2>1. IsLeast(4) /\ 4 \in 3..(4 + MaxRequests)
      BY <1>1, <1>3, HttpAssumption
    <2>2. QED
      BY <1>1, <2>1 DEF FreeFd
  <1>4. QED
    BY <1>2, <1>3

\* Between requests the websocket's socket is the only one that is open.
THEOREM Accounts == HttpSpec => []SocketsAccounted
  <1> USE DEF OwnerShape, Goes, tcpVars, replyVars, Closed, TriesNext
  <1>1. HttpInit => OwnerShape
    BY DEF HttpInit
  <1>2. OwnerShape /\ [HttpNext]_httpVars => OwnerShape'
    <2> SUFFICES ASSUME OwnerShape, [HttpNext]_httpVars PROVE OwnerShape'
      OBVIOUS
    <2>1. CASE Request
      BY <2>1 DEF Request
    <2>2. CASE ResolveFails
      BY <2>2 DEF ResolveFails
    <2>3. CASE Resolves
      BY <2>3 DEF Resolves
    <2>4. CASE NoSocket
      BY <2>4 DEF NoSocket
    <2>5. CASE ConnectFails
      BY <2>5 DEF ConnectFails
    <2>6. CASE Connects
      <3>1. FreeFd \in Nat /\ FreeFd # websocket
        BY <2>6, Free DEF Connects
      <3>2. QED
        BY <2>6, <3>1 DEF Connects
    <2>7. CASE NoneConnects
      BY <2>7 DEF NoneConnects
    <2>8. CASE Handshakes
      BY <2>8 DEF Handshakes
    <2>9. CASE WriteFails
      BY <2>9 DEF WriteFails
    <2>10. CASE Writes
      BY <2>10 DEF Writes
    <2>11. CASE ReadPiece
      BY <2>11 DEF ReadPiece, AfterRead
    <2>12. CASE ReadEnds
      BY <2>12 DEF ReadEnds
    <2>13. CASE Parses
      BY <2>13 DEF Parses
    <2>14. CASE Drops
      BY <2>14 DEF Drops
    <2>15. CASE Switches
      BY <2>15 DEF Switches
    <2>16. CASE Disconnects
      BY <2>16 DEF Disconnects
    <2>17. CASE UNCHANGED httpVars
      BY <2>17 DEF httpVars
    <2>18. QED
      BY <2>1, <2>2, <2>3, <2>4, <2>5, <2>6, <2>7, <2>8, <2>9, <2>10, <2>11, <2>12, <2>13,
         <2>14, <2>15, <2>16, <2>17
      DEF HttpNext
  <1>3. OwnerShape => SocketsAccounted
    BY DEF SocketsAccounted
  <1>4. QED
    BY <1>1, <1>2, <1>3, PTL DEF HttpSpec
-----------------------------------------------------------------------------
(* HttpSession, for any data, replies, and buffer: what comes out of a     *)
(* reply of one piece.  What carries it is where in the reply the read     *)
(* loop stands (Cut), and what stale bytes last_chars may hold there if    *)
(* nothing in the reply can be mistaken for the terminator (Stale).        *)

Byte == Data \cup {"0", "cr", "lf", "size", "nul"}

\* The front of the reply is in the buffer, the rest is to come.
Cut(all, front, rest) ==
    /\ front \in Seq(Byte) /\ rest \in Seq(Byte) /\ Len(front) + Len(rest) = Len(all)
    /\ \A i \in 1..Len(front) : front[i] = all[i]
    /\ \A i \in 1..Len(rest) : rest[i] = all[Len(front) + i]

\* Before the terminator last_chars does not hold the beginning of one.
Stale(r, chars, read, left) ==
    /\ chars \in Seq(Byte) /\ Len(chars) = 5
    /\ (r.kind = "length" \/ left >= 5) /\ chars[1] = "0" => read >= 10 /\ chars[2] # "cr"

\* All of the reply is in the buffer, or all but the terminator.
Enough(r, bytes) == \E rest : /\ Cut(Bytes(r), bytes, rest)
                             /\ (rest = <<>> \/ (r.kind = "chunked" /\ Len(rest) <= 5))

\* How much of the body is in so much of the reply.
InBuffer(r, l) == LET past == l - (IF r.kind = "length" THEN 5 ELSE 8)
                      n == Len(r.chunks[1])
                  IN IF past < 0 THEN 0 ELSE IF past < n THEN past ELSE n

ReadShape ==
    /\ OnePiece(reply) /\ Plain(reply) => ~fooled
    /\ stage \in {"read", "parse", "returned"} => reply \in Replies
    /\ OnePiece(reply) =>
           /\ stage = "read" => Cut(Bytes(reply), buffer, wire) /\ last \in Seq(Byte) /\ Len(last) = 5
           /\ stage = "read" /\ Plain(reply) => Stale(reply, last, Len(buffer), Len(wire))
           /\ stage = "parse" => /\ \E rest : Cut(Bytes(reply), buffer, rest)
                                 /\ ~mixed /\ ~fooled => Enough(reply, buffer)
           /\ stage = "returned" => /\ IsPrefix(text, reply.chunks[1])
                                    /\ ~mixed /\ ~fooled => text = reply.chunks[1]

\* A sequence of one sequence, flattened.
LEMMA FlatOfOne ==
  ASSUME NEW x, NEW X, x \in Seq(X), NEW s, s = <<x>>
  PROVE  FlattenSeq(s) = x
  <1> DEFINE IsFlat(f) == f = [i \in 1..1 |-> IF i = 1 THEN s[i] ELSE f[i - 1] \o s[i]]
             flat == CHOOSE f : IsFlat(f)
  <1>1. Len(s) = 1 /\ s[1] = x
    OBVIOUS
  <1>2. FlattenSeq(s) = flat[1]
    BY <1>1 DEF FlattenSeq
  <1>3. IsFlat([i \in 1..1 |-> x])
    BY <1>1
  <1>4. IsFlat(flat)
    BY <1>3
  <1> HIDE DEF flat
  <1>5. flat[1] = s[1]
    BY <1>4
  <1>6. QED
    BY <1>1, <1>2, <1>5

\* What a sequence and what another behind it have at which place.
LEMMA Joining ==
  ASSUME NEW S, NEW s \in Seq(S), NEW t \in Seq(S)
  PROVE  /\ s \o t \in Seq(S) /\ Len(s \o t) = Len(s) + Len(t)
         /\ \A i \in 1..Len(s) : (s \o t)[i] = s[i]
         /\ \A i \in 1..Len(t) : (s \o t)[Len(s) + i] = t[i]
  <1>1. /\ s \o t \in Seq(S) /\ Len(s \o t) = Len(s) + Len(t)
        /\ \A i \in 1..(Len(s) + Len(t)) : (s \o t)[i] = IF i <= Len(s) THEN s[i] ELSE t[i - Len(s)]
    BY ConcatProperties
  <1>2. Len(s) \in Nat /\ Len(t) \in Nat
    OBVIOUS
  <1>3. ASSUME NEW i \in 1..Len(s) PROVE i \in 1..(Len(s) + Len(t)) /\ i <= Len(s)
    BY <1>2
  <1>4. ASSUME NEW i \in 1..Len(t)
        PROVE  Len(s) + i \in 1..(Len(s) + Len(t)) /\ ~(Len(s) + i <= Len(s)) /\ (Len(s) + i) - Len(s) = i
    BY <1>2
  <1>5. QED
    BY <1>1, <1>3, <1>4

\* Where what is in a reply of one piece.
LEMMA Layout ==
  ASSUME NEW r \in Replies, OnePiece(r)
  PROVE  LET all == Bytes(r)
             d == r.chunks[1]
             n == Len(d)
         IN /\ d \in Seq(Data) /\ n \in Nat /\ all \in Seq(Byte) /\ r.value \in Data
            /\ all[1] = r.value
            /\ all[2] = "cr" /\ all[3] = "lf" /\ all[4] = "cr" /\ all[5] = "lf"
            /\ r.kind = "length" => Len(all) = 5 + n /\ \A i \in 1..n : all[5 + i] = d[i]
            /\ r.kind = "chunked" =>
                   /\ Len(all) = 15 + n
                   /\ all[6] = "size" /\ all[7] = "cr" /\ all[8] = "lf"
                   /\ \A i \in 1..n : all[8 + i] = d[i]
                   /\ all[9 + n] = "cr" /\ all[10 + n] = "lf" /\ all[11 + n] = "0"
                   /\ all[12 + n] = "cr" /\ all[13 + n] = "lf" /\ all[14 + n] = "cr" /\ all[15 + n] = "lf"
  <1> DEFINE d == r.chunks[1]
             n == Len(d)
             head == <<r.value>> \o HeaderEnd
  <1>1. /\ r.kind \in {"length", "chunked"} /\ r.value \in Data
        /\ r.chunks \in Seq(Seq(Data)) /\ Len(r.chunks) = 1
    BY HttpAssumption DEF OnePiece
  <1>2. d \in Seq(Data) /\ r.chunks = <<d>>
    BY <1>1
  <1>3. d \in Seq(Byte) /\ n \in Nat
    BY <1>2 DEF Byte
  <1>4. /\ head \in Seq(Byte) /\ Len(head) = 5 /\ head[1] = r.value
        /\ head[2] = "cr" /\ head[3] = "lf" /\ head[4] = "cr" /\ head[5] = "lf"
    <2> DEFINE v == <<r.value>>
    <2>1. v \in Seq(Byte) /\ Len(v) = 1 /\ v[1] = r.value
      BY <1>1 DEF Byte
    <2>2. /\ HeaderEnd \in Seq(Byte) /\ Len(HeaderEnd) = 4
          /\ HeaderEnd[1] = "cr" /\ HeaderEnd[2] = "lf" /\ HeaderEnd[3] = "cr" /\ HeaderEnd[4] = "lf"
      BY DEF HeaderEnd, Byte
    <2> HIDE DEF v
    <2>3. /\ v \o HeaderEnd \in Seq(Byte) /\ Len(v \o HeaderEnd) = 1 + 4
          /\ \A i \in 1..1 : (v \o HeaderEnd)[i] = v[i]
          /\ \A i \in 1..4 : (v \o HeaderEnd)[1 + i] = HeaderEnd[i]
      <3>1. v \in Seq(Byte) /\ HeaderEnd \in Seq(Byte)
        BY <2>1, <2>2
      <3>2. /\ v \o HeaderEnd \in Seq(Byte) /\ Len(v \o HeaderEnd) = Len(v) + Len(HeaderEnd)
            /\ \A i \in 1..Len(v) : (v \o HeaderEnd)[i] = v[i]
            /\ \A i \in 1..Len(HeaderEnd) : (v \o HeaderEnd)[Len(v) + i] = HeaderEnd[i]
        BY <3>1, Joining
      <3>3. QED
        BY <3>2, <2>1, <2>2
    <2>4. /\ (v \o HeaderEnd)[1] = r.value /\ (v \o HeaderEnd)[1 + 1] = "cr" /\ (v \o HeaderEnd)[1 + 2] = "lf"
          /\ (v \o HeaderEnd)[1 + 3] = "cr" /\ (v \o HeaderEnd)[1 + 4] = "lf"
      BY <2>1, <2>2, <2>3
    <2>5. QED
      BY <2>3, <2>4 DEF v
  <1> HIDE DEF head
  <1>5. CASE r.kind = "length"
    <2>1. FlattenSeq(r.chunks) = d
      BY <1>2, FlatOfOne
    <2>2. Bytes(r) = head \o d
      BY <1>5, <2>1 DEF Bytes, head
    <2> HIDE DEF d
    <2>3. /\ head \o d \in Seq(Byte) /\ Len(head \o d) = 5 + n
          /\ \A i \in 1..5 : (head \o d)[i] = head[i]
          /\ \A i \in 1..n : (head \o d)[5 + i] = d[i]
      <3>1. head \in Seq(Byte) /\ d \in Seq(Byte)
        BY <1>3, <1>4
      <3>2. /\ head \o d \in Seq(Byte) /\ Len(head \o d) = Len(head) + Len(d)
            /\ \A i \in 1..Len(head) : (head \o d)[i] = head[i]
            /\ \A i \in 1..Len(d) : (head \o d)[Len(head) + i] = d[i]
        BY <3>1, Joining
      <3>3. QED
        BY <3>2, <1>3, <1>4
    <2>4. QED
      BY <1>1, <1>2, <1>3, <1>4, <1>5, <2>2, <2>3 DEF d
  <1>6. CASE r.kind = "chunked"
    <2> DEFINE size == <<"size">> \o NewLine
               line == size \o d
               chunk == line \o NewLine
               tail == chunk \o Terminator
    <2>1. /\ NewLine \in Seq(Byte) /\ Len(NewLine) = 2 /\ NewLine[1] = "cr" /\ NewLine[2] = "lf"
          /\ Terminator \in Seq(Byte) /\ Len(Terminator) = 5 /\ Terminator[1] = "0" /\ Terminator[2] = "cr"
          /\ Terminator[3] = "lf" /\ Terminator[4] = "cr" /\ Terminator[5] = "lf"
      BY DEF NewLine, Terminator, Byte
    <2>2. /\ size \in Seq(Byte) /\ Len(size) = 3
          /\ size[1] = "size" /\ size[2] = "cr" /\ size[3] = "lf"
      BY DEF NewLine, Byte
    <2> HIDE DEF size
    <2>3. /\ line \in Seq(Byte) /\ Len(line) = 3 + n
          /\ \A i \in 1..3 : line[i] = size[i]
          /\ \A i \in 1..n : line[3 + i] = d[i]
      <3>1. size \in Seq(Byte) /\ d \in Seq(Byte)
        BY <1>3, <2>2
      <3>2. /\ size \o d \in Seq(Byte) /\ Len(size \o d) = Len(size) + Len(d)
            /\ \A i \in 1..Len(size) : (size \o d)[i] = size[i]
            /\ \A i \in 1..Len(d) : (size \o d)[Len(size) + i] = d[i]
        BY <3>1, Joining
      <3>3. QED
        BY <3>2, <1>3, <2>2 DEF line
    <2> HIDE DEF line
    <2>4. /\ chunk \in Seq(Byte) /\ Len(chunk) = (3 + n) + 2
          /\ \A i \in 1..(3 + n) : chunk[i] = line[i]
          /\ \A i \in 1..2 : chunk[(3 + n) + i] = NewLine[i]
      <3>1. line \in Seq(Byte) /\ NewLine \in Seq(Byte)
        BY <2>1, <2>3
      <3>2. /\ line \o NewLine \in Seq(Byte) /\ Len(line \o NewLine) = Len(line) + Len(NewLine)
            /\ \A i \in 1..Len(line) : (line \o NewLine)[i] = line[i]
            /\ \A i \in 1..Len(NewLine) : (line \o NewLine)[Len(line) + i] = NewLine[i]
        BY <3>1, Joining
      <3>3. QED
        BY <3>2, <1>3, <2>1, <2>3 DEF chunk
    <2>5. Chunk(d) = chunk
      BY DEF Chunk, chunk, line, size
    <2> HIDE DEF chunk
    <2>6. /\ tail \in Seq(Byte) /\ Len(tail) = ((3 + n) + 2) + 5
          /\ \A i \in 1..((3 + n) + 2) : tail[i] = chunk[i]
          /\ \A i \in 1..5 : tail[((3 + n) + 2) + i] = Terminator[i]
      <3>1. chunk \in Seq(Byte) /\ Terminator \in Seq(Byte)
        BY <2>1, <2>4
      <3>2. /\ chunk \o Terminator \in Seq(Byte) /\ Len(chunk \o Terminator) = Len(chunk) + Len(Terminator)
            /\ \A i \in 1..Len(chunk) : (chunk \o Terminator)[i] = chunk[i]
            /\ \A i \in 1..Len(Terminator) : (chunk \o Terminator)[Len(chunk) + i] = Terminator[i]
        BY <3>1, Joining
      <3>3. QED
        BY <3>2, <1>3, <2>1, <2>4 DEF tail
    <2>7. FlattenSeq([i \in 1..Len(r.chunks) |-> Chunk(r.chunks[i])]) = chunk
      <3>1. [i \in 1..Len(r.chunks) |-> Chunk(r.chunks[i])] = <<chunk>>
        BY <1>1, <2>5
      <3>2. QED
        BY <2>4, <3>1, FlatOfOne
    <2>8. Bytes(r) = head \o tail
      BY <1>6, <2>7 DEF Bytes, head
    <2> HIDE DEF tail
    <2>9. /\ head \o tail \in Seq(Byte) /\ Len(head \o tail) = 5 + (((3 + n) + 2) + 5)
          /\ \A i \in 1..5 : (head \o tail)[i] = head[i]
          /\ \A i \in 1..(((3 + n) + 2) + 5) : (head \o tail)[5 + i] = tail[i]
      <3>1. head \in Seq(Byte) /\ tail \in Seq(Byte)
        BY <1>4, <2>6
      <3>2. /\ head \o tail \in Seq(Byte) /\ Len(head \o tail) = Len(head) + Len(tail)
            /\ \A i \in 1..Len(head) : (head \o tail)[i] = head[i]
            /\ \A i \in 1..Len(tail) : (head \o tail)[Len(head) + i] = tail[i]
        BY <3>1, Joining
      <3>3. QED
        BY <3>2, <1>3, <1>4, <2>6
    <2> DEFINE all == head \o tail
    <2> HIDE DEF all
    <2>10. /\ all \in Seq(Byte) /\ Len(all) = 15 + n
           /\ \A i \in 1..5 : all[i] = head[i]
           /\ \A i \in 1..3 : all[5 + i] = size[i]
           /\ \A i \in 1..n : all[8 + i] = d[i]
           /\ \A i \in 1..2 : all[(8 + n) + i] = NewLine[i]
           /\ \A i \in 1..5 : all[(10 + n) + i] = Terminator[i]
      <3>0. n \in Nat
        BY <1>3
      <3> HIDE DEF d
      <3>1. /\ all \in Seq(Byte) /\ Len(all) = 5 + (((3 + n) + 2) + 5)
            /\ \A i \in 1..5 : all[i] = head[i]
            /\ \A i \in 1..(((3 + n) + 2) + 5) : all[5 + i] = tail[i]
        BY <2>9 DEF all
      <3>2. /\ all \in Seq(Byte) /\ Len(all) = 15 + n /\ \A i \in 1..5 : all[i] = head[i]
            /\ \A i \in 1..(10 + n) : all[5 + i] = tail[i]
        <4>1. 5 + (((3 + n) + 2) + 5) = 15 + n
          BY <3>0
        <4>2. ASSUME NEW i \in 1..(10 + n) PROVE i \in 1..(((3 + n) + 2) + 5)
          BY <3>0
        <4>3. QED
          BY <3>1, <4>1, <4>2
      <3>3. ASSUME NEW i \in 1..3 PROVE all[5 + i] = size[i]
        <4>1. i \in 1..(10 + n) /\ i \in 1..((3 + n) + 2) /\ i \in 1..(3 + n)
          BY <3>0
        <4>2. all[5 + i] = tail[i]
          BY <3>2, <4>1
        <4>3. tail[i] = chunk[i] /\ chunk[i] = line[i] /\ line[i] = size[i]
          BY <2>3, <2>4, <2>6, <4>1 DEF d
        <4>4. QED
          BY <4>2, <4>3
      <3>4. ASSUME NEW i \in 1..n PROVE all[8 + i] = d[i]
        <4>1. 3 + i \in 1..(10 + n) /\ 3 + i \in 1..((3 + n) + 2) /\ 3 + i \in 1..(3 + n) /\ 5 + (3 + i) = 8 + i
          BY <1>3 DEF d
        <4>2. all[5 + (3 + i)] = tail[3 + i]
          BY <3>2, <4>1
        <4>3. tail[3 + i] = chunk[3 + i] /\ chunk[3 + i] = line[3 + i] /\ line[3 + i] = d[i]
          BY <2>3, <2>4, <2>6, <4>1 DEF d
        <4>4. QED
          BY <4>1, <4>2, <4>3
      <3>5. ASSUME NEW i \in 1..2 PROVE all[(8 + n) + i] = NewLine[i]
        <4>1. /\ (3 + n) + i \in 1..(10 + n) /\ (3 + n) + i \in 1..((3 + n) + 2)
              /\ 5 + ((3 + n) + i) = (8 + n) + i
          BY <1>3 DEF d
        <4>2. all[5 + ((3 + n) + i)] = tail[(3 + n) + i]
          BY <3>2, <4>1
        <4>3. tail[(3 + n) + i] = chunk[(3 + n) + i] /\ chunk[(3 + n) + i] = NewLine[i]
          BY <2>4, <2>6, <4>1 DEF d
        <4>4. QED
          BY <4>1, <4>2, <4>3
      <3>6. ASSUME NEW i \in 1..5 PROVE all[(10 + n) + i] = Terminator[i]
        <4>1. ((3 + n) + 2) + i \in 1..(10 + n) /\ 5 + (((3 + n) + 2) + i) = (10 + n) + i
          BY <1>3 DEF d
        <4>2. all[5 + (((3 + n) + 2) + i)] = tail[((3 + n) + 2) + i]
          BY <3>2, <4>1
        <4>3. tail[((3 + n) + 2) + i] = Terminator[i]
          BY <2>6 DEF d
        <4>4. QED
          BY <4>1, <4>2, <4>3
      <3>7. QED
        BY <3>2, <3>3, <3>4, <3>5, <3>6 DEF d
    <2>11. /\ all[1] = r.value /\ all[2] = "cr" /\ all[3] = "lf" /\ all[4] = "cr" /\ all[5] = "lf"
      BY <1>4, <2>10
    <2>12. all[5 + 1] = "size" /\ all[5 + 2] = "cr" /\ all[5 + 3] = "lf"
      BY <2>2, <2>10
    <2>13. all[(8 + n) + 1] = "cr" /\ all[(8 + n) + 2] = "lf"
      BY <2>1, <2>10
    <2>14. /\ all[(10 + n) + 1] = "0" /\ all[(10 + n) + 2] = "cr" /\ all[(10 + n) + 3] = "lf"
           /\ all[(10 + n) + 4] = "cr" /\ all[(10 + n) + 5] = "lf"
      BY <2>1, <2>10
    <2>15. /\ (8 + n) + 1 = 9 + n /\ (8 + n) + 2 = 10 + n /\ (10 + n) + 1 = 11 + n /\ (10 + n) + 2 = 12 + n
           /\ (10 + n) + 3 = 13 + n /\ (10 + n) + 4 = 14 + n /\ (10 + n) + 5 = 15 + n
      BY <1>3
    <2>16. Bytes(r) = all
      BY <2>8 DEF all
    <2>17. /\ all[9 + n] = "cr" /\ all[10 + n] = "lf" /\ all[11 + n] = "0" /\ all[12 + n] = "cr"
           /\ all[13 + n] = "lf" /\ all[14 + n] = "cr" /\ all[15 + n] = "lf"
      BY <2>13, <2>14, <2>15
    <2>18. all[6] = "size" /\ all[7] = "cr" /\ all[8] = "lf"
      BY <2>12
    <2>19. QED
      BY <1>1, <1>2, <1>3, <1>6, <2>10, <2>11, <2>16, <2>17, <2>18
  <1>7. QED
    BY <1>1, <1>5, <1>6

\* Before the terminator no "0" has a line end behind it.
LEMMA Zone ==
  ASSUME NEW r \in Replies, OnePiece(r), Plain(r), NEW i \in 1..Len(Bytes(r)),
         r.kind = "length" \/ i + 8 <= Len(Bytes(r))
  PROVE  /\ Bytes(r)[i] = "0" => i >= 6
         /\ Bytes(r)[i] = "0" /\ i + 1 <= Len(Bytes(r)) => Bytes(r)[i + 1] # "cr"
         /\ i >= 9 => Bytes(r)[i] # "cr"
  <1> DEFINE all == Bytes(r)
             d == r.chunks[1]
             n == Len(d)
  <1>1. /\ d \in Seq(Data) /\ n \in Nat /\ all[1] = r.value
        /\ all[2] = "cr" /\ all[3] = "lf" /\ all[4] = "cr" /\ all[5] = "lf"
        /\ r.kind = "length" => Len(all) = 5 + n /\ \A k \in 1..n : all[5 + k] = d[k]
        /\ r.kind = "chunked" =>
               /\ Len(all) = 15 + n /\ all[6] = "size" /\ all[7] = "cr" /\ all[8] = "lf"
               /\ \A k \in 1..n : all[8 + k] = d[k]
    BY Layout
  <1>2. r.kind \in {"length", "chunked"} /\ r.value # "0"
    BY HttpAssumption DEF OnePiece, Plain
  <1>3. \A k \in 1..n : d[k] # "cr"
    BY <1>1 DEF Plain
  <1> HIDE DEF all, d
  <1>4. i \in 1..Len(all) /\ i \in Nat
    BY <1>1 DEF all
  <1>5. CASE r.kind = "length"
    <2>1. ASSUME NEW k \in 6..Len(all) PROVE all[k] # "cr"
      <3>1. k - 5 \in 1..n /\ 5 + (k - 5) = k
        BY <1>1, <1>5
      <3>2. QED
        BY <1>1, <1>3, <1>5, <3>1
    <2>2. all[i] = "0" => i >= 6
      BY <1>1, <1>2, <1>4
    <2>3. all[i] = "0" /\ i + 1 <= Len(all) => i + 1 \in 6..Len(all)
      BY <1>1, <1>4, <1>5, <2>2
    <2>4. i >= 9 => i \in 6..Len(all)
      BY <1>1, <1>4, <1>5
    <2>5. QED
      BY <2>1, <2>2, <2>3, <2>4 DEF all
  <1>6. CASE r.kind = "chunked"
    <2>1. i <= 7 + n
      BY <1>1, <1>4, <1>6 DEF all
    <2>2. ASSUME NEW k \in 9..(8 + n) PROVE all[k] # "cr"
      <3>1. k - 8 \in 1..n /\ 8 + (k - 8) = k
        BY <1>1
      <3>2. QED
        BY <1>1, <1>3, <1>6, <3>1
    <2>3. all[i] = "0" => i >= 9
      BY <1>1, <1>2, <1>4, <1>6
    <2>4. all[i] = "0" => i + 1 \in 9..(8 + n)
      BY <1>1, <1>4, <2>1, <2>3
    <2>5. i >= 9 => i \in 9..(8 + n)
      BY <1>1, <1>4, <2>1
    <2>6. QED
      BY <1>4, <2>2, <2>3, <2>4, <2>5 DEF all
  <1>7. QED
    BY <1>2, <1>5, <1>6

\* A sequence and its two parts.
LEMMA Halves ==
  ASSUME NEW S, NEW s \in Seq(S), NEW c \in 0..Len(s)
  PROVE  /\ SubSeq(s, 1, c) \in Seq(S) /\ Len(SubSeq(s, 1, c)) = c
         /\ \A i \in 1..c : SubSeq(s, 1, c)[i] = s[i]
         /\ SubSeq(s, c + 1, Len(s)) \in Seq(S) /\ Len(SubSeq(s, c + 1, Len(s))) = Len(s) - c
         /\ \A i \in 1..(Len(s) - c) : SubSeq(s, c + 1, Len(s))[i] = s[c + i]
  <1>1. Len(s) \in Nat /\ c \in Nat /\ c <= Len(s)
    OBVIOUS
  <1>2. /\ SubSeq(s, 1, c) \in Seq(S) /\ Len(SubSeq(s, 1, c)) = c
        /\ \A i \in 1..c : SubSeq(s, 1, c)[i] = s[i]
    BY <1>1
  <1>3. /\ SubSeq(s, c + 1, Len(s)) \in Seq(S) /\ Len(SubSeq(s, c + 1, Len(s))) = Len(s) - c
        /\ \A i \in 1..(Len(s) - c) : SubSeq(s, c + 1, Len(s))[i] = s[c + i]
    BY <1>1
  <1>4. QED
    BY <1>2, <1>3

\* What is where in last_chars after a read.
LEMMA Moved ==
  ASSUME last \in Seq(Byte), Len(last) = 5, NEW piece \in Seq(Byte), NEW n \in Nat \ {0}, Len(piece) = n
  PROVE  /\ LastChars(piece) \in Seq(Byte) /\ Len(LastChars(piece)) = 5
         /\ n >= 5 => LastChars(piece)[1] = piece[n - 4] /\ LastChars(piece)[2] = piece[n - 3]
         /\ n = 4 => LastChars(piece)[1] = last[1] /\ LastChars(piece)[2] = piece[1]
         /\ n < 4 => LastChars(piece)[1] = last[1] /\ LastChars(piece)[2] = last[2]
         /\ LastChars(piece)[5] = piece[n]
         /\ n >= 3 => LastChars(piece)[3] = piece[n - 2]
  <1> DEFINE c == IF n < 5 THEN n ELSE 5
             old == SubSeq(last, 1, 5 - c)
             new == SubSeq(piece, n - c + 1, n)
  <1>1. LastChars(piece) = old \o new
    <2>1. Len(Terminator) = 5
      BY DEF Terminator
    <2>2. QED
      BY <2>1 DEF LastChars
  <1>2. c \in 1..5 /\ c <= n /\ c \in Nat
    OBVIOUS
  <1>3. old \in Seq(Byte) /\ Len(old) = 5 - c /\ \A i \in 1..(5 - c) : old[i] = last[i]
    <2> HIDE DEF c
    <2>1. 5 - c \in 0..Len(last)
      BY <1>2
    <2>2. QED
      BY <1>2, <2>1, Halves
  <1>4. new \in Seq(Byte) /\ Len(new) = c /\ \A i \in 1..c : new[i] = piece[(n - c) + i]
    <2> HIDE DEF c
    <2>1. n - c \in 0..Len(piece) /\ n - c \in Nat /\ n - (n - c) = c
      BY <1>2
    <2>2. QED
      BY <1>2, <2>1, Halves
  <1> HIDE DEF old, new
  <1>5. /\ old \o new \in Seq(Byte) /\ Len(old \o new) = Len(old) + Len(new)
        /\ \A i \in 1..Len(old) : (old \o new)[i] = old[i]
        /\ \A i \in 1..Len(new) : (old \o new)[Len(old) + i] = new[i]
    <2>1. old \in Seq(Byte) /\ new \in Seq(Byte)
      BY <1>3, <1>4
    <2>2. QED
      BY <2>1, Joining
  <1>6. /\ LastChars(piece) \in Seq(Byte) /\ Len(LastChars(piece)) = 5
        /\ \A i \in 1..(5 - c) : LastChars(piece)[i] = last[i]
        /\ \A i \in 1..c : LastChars(piece)[(5 - c) + i] = piece[(n - c) + i]
    <2> HIDE DEF c
    <2>1. Len(old) = 5 - c /\ Len(new) = c /\ (5 - c) + c = 5
      BY <1>2, <1>3, <1>4
    <2>2. /\ \A i \in 1..(5 - c) : (old \o new)[i] = last[i]
          /\ \A i \in 1..c : (old \o new)[(5 - c) + i] = piece[(n - c) + i]
      BY <1>3, <1>4, <1>5, <2>1
    <2>3. QED
      BY <1>1, <1>5, <2>1, <2>2
  <1>7. ASSUME n >= 5 PROVE LastChars(piece)[1] = piece[n - 4] /\ LastChars(piece)[2] = piece[n - 3]
    <2>1. 1 \in 1..c /\ 2 \in 1..c /\ (5 - c) + 1 = 1 /\ (5 - c) + 2 = 2 /\ (n - c) + 1 = n - 4 /\ (n - c) + 2 = n - 3
      BY <1>7
    <2> HIDE DEF c
    <2>2. /\ LastChars(piece)[(5 - c) + 1] = piece[(n - c) + 1]
          /\ LastChars(piece)[(5 - c) + 2] = piece[(n - c) + 2]
      BY <1>6, <2>1
    <2>3. QED
      BY <1>6, <1>7, <2>1, <2>2
  <1>8. ASSUME n = 4 PROVE LastChars(piece)[1] = last[1] /\ LastChars(piece)[2] = piece[1]
    <2>1. 1 \in 1..(5 - c) /\ 1 \in 1..c /\ (5 - c) + 1 = 2 /\ (n - c) + 1 = 1
      BY <1>8
    <2> HIDE DEF c
    <2>2. LastChars(piece)[1] = last[1] /\ LastChars(piece)[(5 - c) + 1] = piece[(n - c) + 1]
      BY <1>6, <2>1
    <2>3. QED
      BY <1>6, <1>8, <2>1, <2>2
  <1>9. ASSUME n < 4 PROVE LastChars(piece)[1] = last[1] /\ LastChars(piece)[2] = last[2]
    <2>1. 1 \in 1..(5 - c) /\ 2 \in 1..(5 - c)
      BY <1>9
    <2> HIDE DEF c
    <2>2. LastChars(piece)[1] = last[1] /\ LastChars(piece)[2] = last[2]
      BY <1>6, <2>1
    <2>3. QED
      BY <1>6, <1>9, <2>2
  <1>10. LastChars(piece)[5] = piece[n]
    <2>1. c \in 1..c /\ (5 - c) + c = 5 /\ (n - c) + c = n
      BY <1>2
    <2> HIDE DEF c
    <2>2. LastChars(piece)[(5 - c) + c] = piece[(n - c) + c]
      BY <1>6, <2>1
    <2>3. QED
      BY <2>1, <2>2
  <1>11. ASSUME n >= 3 PROVE LastChars(piece)[3] = piece[n - 2]
    <2>1. c - 2 \in 1..c /\ (5 - c) + (c - 2) = 3 /\ (n - c) + (c - 2) = n - 2
      BY <1>11
    <2> HIDE DEF c
    <2>2. LastChars(piece)[(5 - c) + (c - 2)] = piece[(n - c) + (c - 2)]
      BY <1>6, <2>1
    <2>3. QED
      BY <2>1, <2>2
  <1>12. QED
    BY <1>6, <1>7, <1>8, <1>9, <1>10, <1>11

\* A read moves the cut.
LEMMA CutMoves ==
  ASSUME NEW all \in Seq(Byte), NEW front, NEW rest, Cut(all, front, rest), NEW n \in 1..Len(rest)
  PROVE  LET piece == SubSeq(rest, 1, n)
             left == SubSeq(rest, n + 1, Len(rest))
         IN /\ piece \in Seq(Byte) /\ Len(piece) = n
            /\ \A i \in 1..n : piece[i] = all[Len(front) + i]
            /\ Len(left) = Len(rest) - n
            /\ Cut(all, front \o piece, left) /\ Len(front \o piece) = Len(front) + n
  <1> DEFINE piece == SubSeq(rest, 1, n)
             left == SubSeq(rest, n + 1, Len(rest))
             m == Len(front)
             l == Len(rest)
  <1>1. /\ front \in Seq(Byte) /\ rest \in Seq(Byte) /\ m \in Nat /\ l \in Nat
        /\ m + l = Len(all) /\ n \in Nat /\ n \in 0..l
        /\ \A i \in 1..m : front[i] = all[i]
        /\ \A i \in 1..l : rest[i] = all[m + i]
    BY DEF Cut
  <1>2. /\ piece \in Seq(Byte) /\ Len(piece) = n
        /\ \A i \in 1..n : piece[i] = rest[i]
        /\ left \in Seq(Byte) /\ Len(left) = l - n
        /\ \A i \in 1..(l - n) : left[i] = rest[n + i]
    BY <1>1, Halves
  <1> HIDE DEF piece, left
  <1>3. /\ front \o piece \in Seq(Byte) /\ Len(front \o piece) = Len(front) + Len(piece)
        /\ \A i \in 1..Len(front) : (front \o piece)[i] = front[i]
        /\ \A i \in 1..Len(piece) : (front \o piece)[Len(front) + i] = piece[i]
    <2>1. front \in Seq(Byte) /\ piece \in Seq(Byte)
      BY <1>1, <1>2
    <2>2. QED
      BY <2>1, Joining
  <1>4. ASSUME NEW i \in 1..n PROVE piece[i] = all[m + i]
    <2>1. i \in 1..l
      BY <1>1
    <2>2. piece[i] = rest[i] /\ rest[i] = all[m + i]
      BY <1>1, <1>2, <2>1
    <2>3. QED
      BY <2>2
  <1>5. ASSUME NEW i \in 1..(m + n) PROVE (front \o piece)[i] = all[i]
    <2>1. CASE i <= m
      <3>1. i \in 1..m
        BY <1>1, <2>1
      <3>2. QED
        BY <1>1, <1>3, <3>1
    <2>2. CASE i > m
      <3>1. i - m \in 1..n /\ m + (i - m) = i
        BY <1>1, <2>2
      <3>2. (front \o piece)[m + (i - m)] = piece[i - m]
        BY <1>2, <1>3, <3>1
      <3>3. piece[i - m] = all[m + (i - m)]
        BY <1>4, <3>1
      <3>4. QED
        BY <3>1, <3>2, <3>3
    <2>3. m \in Nat /\ n \in Nat
      BY <1>1
    <2> HIDE DEF m
    <2>4. i <= m \/ i > m
      BY <2>3
    <2>5. QED
      BY <2>1, <2>2, <2>4
  <1>6. ASSUME NEW i \in 1..(l - n) PROVE left[i] = all[(m + n) + i]
    <2>1. n + i \in 1..l /\ m + (n + i) = (m + n) + i
      BY <1>1
    <2>2. left[i] = rest[n + i]
      BY <1>2
    <2>3. rest[n + i] = all[m + (n + i)]
      BY <1>1, <2>1
    <2>4. QED
      BY <2>1, <2>2, <2>3
  <1>7. Len(front \o piece) = m + n /\ (m + n) + (l - n) = Len(all)
    <2>1. m \in Nat /\ n \in Nat /\ l \in Nat /\ m + l = Len(all)
      BY <1>1
    <2>2. Len(front \o piece) = m + n
      BY <1>2, <1>3
    <2> HIDE DEF m, l
    <2>3. (m + n) + (l - n) = m + l
      BY <2>1
    <2>4. QED
      BY <2>1, <2>2, <2>3
  <1>8. Cut(all, front \o piece, left)
    BY <1>2, <1>3, <1>5, <1>6, <1>7 DEF Cut
  <1>9. QED
    BY <1>2, <1>4, <1>7, <1>8 DEF piece, left

\* A read before the terminator keeps what is known of last_chars, and does
\* not find the terminator there.
LEMMA StaleMoves ==
  ASSUME reply \in Replies, OnePiece(reply), Plain(reply), Cut(Bytes(reply), buffer, wire),
         Stale(reply, last, Len(buffer), Len(wire)), NEW n \in 1..Len(wire)
  PROVE  LET piece == SubSeq(wire, 1, n)
         IN /\ Stale(reply, LastChars(piece), Len(buffer) + n, Len(wire) - n)
            /\ ~Fools(piece)
  <1> DEFINE piece == SubSeq(wire, 1, n)
             all == Bytes(reply)
             m == Len(buffer)
             l == Len(wire)
             chars == LastChars(piece)
  <1>1. all \in Seq(Byte)
    BY Layout
  <1>2. /\ m \in Nat /\ l \in Nat /\ m + l = Len(all) /\ n \in Nat \ {0} /\ n <= l
        /\ last \in Seq(Byte) /\ Len(last) = 5
    BY DEF Cut, Stale
  <1>3. piece \in Seq(Byte) /\ Len(piece) = n /\ \A i \in 1..n : piece[i] = all[m + i]
    BY <1>1, CutMoves
  <1> HIDE DEF piece, all
  <1>4. /\ chars \in Seq(Byte) /\ Len(chars) = 5
        /\ n >= 5 => chars[1] = piece[n - 4] /\ chars[2] = piece[n - 3]
        /\ n = 4 => chars[1] = last[1] /\ chars[2] = piece[1]
        /\ n < 4 => chars[1] = last[1] /\ chars[2] = last[2]
    BY <1>2, <1>3, Moved
  <1>5. ASSUME reply.kind = "length" \/ l - n >= 5, chars[1] = "0"
        PROVE  m + n >= 10 /\ chars[2] # "cr"
    <2> HIDE DEF chars
    <2>1. last[1] = "0" => m >= 10 /\ last[2] # "cr"
      BY <1>2, <1>5 DEF Stale
    <2> HIDE DEF m, l
    <2>2. CASE n >= 5
      <3> DEFINE i == m + (n - 4)
      <3>1. n - 4 \in 1..n /\ n - 3 \in 1..n /\ m + (n - 3) = i + 1
        BY <1>2, <2>2
      <3>2. chars[1] = all[i] /\ chars[2] = all[i + 1]
        BY <1>3, <1>4, <2>2, <3>1 DEF m
      <3>3. i \in 1..Len(all) /\ i + 1 <= Len(all) /\ (reply.kind = "length" \/ i + 8 <= Len(all))
        BY <1>2, <1>5, <2>2
      <3>4. m + n = i + 4
        BY <1>2
      <3> HIDE DEF i
      <3>5. (all[i] = "0" => i >= 6) /\ (all[i] = "0" /\ i + 1 <= Len(all) => all[i + 1] # "cr")
        BY <3>3, Zone DEF all
      <3>6. i >= 6
        BY <1>5, <3>2, <3>5
      <3>7. i + 4 >= 10
        BY <3>3, <3>6
      <3>8. QED
        BY <1>5, <3>2, <3>3, <3>4, <3>5, <3>7
    <2>3. CASE n = 4
      <3> DEFINE i == m + 1
      <3>1. chars[1] = last[1] /\ chars[2] = piece[1] /\ piece[1] = all[i]
        BY <1>3, <1>4, <2>3 DEF m
      <3>2. m >= 10
        BY <1>5, <2>1, <3>1
      <3>3. i \in 1..Len(all) /\ i >= 9 /\ (reply.kind = "length" \/ i + 8 <= Len(all)) /\ m + n >= 10
        BY <1>2, <1>5, <2>3, <3>2
      <3> HIDE DEF i
      <3>4. all[i] # "cr"
        BY <3>3, Zone DEF all
      <3>5. QED
        BY <3>1, <3>3, <3>4
    <2>4. CASE n < 4
      <3>1. last[1] = "0" /\ chars[2] = last[2]
        BY <1>4, <1>5, <2>4
      <3>2. m >= 10 /\ last[2] # "cr"
        BY <2>1, <3>1
      <3>3. m + n >= 10
        BY <1>2, <3>2
      <3>4. QED
        BY <3>1, <3>2, <3>3
    <2>5. n >= 5 \/ n = 4 \/ n < 4
      BY <1>2
    <2>6. QED
      BY <2>2, <2>3, <2>4, <2>5
  <1>6. Stale(reply, chars, m + n, l - n)
    BY <1>4, <1>5 DEF Stale
  <1>7. ~Fools(piece)
    <2>1. SUFFICES ASSUME chars = Terminator, reply.kind # "chunked" \/ l - n >= 5 PROVE FALSE
      <3>1. Len(Terminator) = 5
        BY DEF Terminator
      <3>2. QED
        BY <1>3, <3>1 DEF Fools
    <2>2. reply.kind = "length" \/ l - n >= 5
      BY <2>1, HttpAssumption DEF OnePiece
    <2>3. Terminator[1] = "0" /\ Terminator[2] = "cr"
      BY DEF Terminator
    <2> HIDE DEF chars
    <2>4. QED
      BY <1>5, <2>1, <2>2, <2>3
  <1>8. QED
    BY <1>6, <1>7 DEF piece

\* A read that goes into the terminator and not to its end does not find it in
\* last_chars, if there is more in the read.
LEMMA NotInside ==
  ASSUME reply \in Replies, OnePiece(reply), reply.kind = "chunked", Cut(Bytes(reply), buffer, wire),
         last \in Seq(Byte), Len(last) = 5,
         NEW n \in 1..Len(wire), Len(wire) > 5, Len(wire) - n \in 1..4
  PROVE  LastChars(SubSeq(wire, 1, n)) # Terminator
  <1> DEFINE piece == SubSeq(wire, 1, n)
             chars == LastChars(piece)
             all == Bytes(reply)
             m == Len(buffer)
             l == Len(wire)
             k == Len(reply.chunks[1])
  <1>1. /\ all \in Seq(Byte) /\ k \in Nat /\ Len(all) = 15 + k
        /\ all[11 + k] = "0" /\ all[12 + k] = "cr" /\ all[14 + k] = "cr"
    BY Layout
  <1>2. m \in Nat /\ l \in Nat /\ m + l = Len(all) /\ n \in Nat \ {0} /\ (l - n = 2 => n >= 3)
    <2>1. m \in Nat /\ l \in Nat /\ m + l = Len(all)
      BY DEF Cut
    <2> HIDE DEF m, all
    <2>2. n \in Nat \ {0} /\ (l - n = 2 => n >= 3)
      BY <2>1
    <2>3. QED
      BY <2>1, <2>2
  <1>3. piece \in Seq(Byte) /\ Len(piece) = n /\ \A i \in 1..n : piece[i] = all[m + i]
    <2>1. all \in Seq(Byte)
      BY <1>1
    <2> HIDE DEF k
    <2>2. QED
      BY <2>1, CutMoves
  <1> HIDE DEF piece, all
  <1>4. chars[5] = piece[n] /\ (n >= 3 => chars[3] = piece[n - 2])
    BY <1>2, <1>3, Moved
  <1> HIDE DEF chars
  <1>5. Terminator[3] = "lf" /\ Terminator[5] = "lf"
    BY DEF Terminator
  <1>6. n \in 1..n /\ piece[n] = all[m + n] /\ (n >= 3 => piece[n - 2] = all[m + (n - 2)])
    BY <1>2, <1>3
  <1> HIDE DEF m, l, k
  <1>7. CASE l - n = 1
    <2>1. m + n = 14 + k
      BY <1>1, <1>2, <1>7
    <2>2. QED
      BY <1>1, <1>4, <1>5, <1>6, <2>1 DEF chars, piece
  <1>8. CASE l - n = 2
    <2>1. n >= 3 /\ m + (n - 2) = 11 + k
      BY <1>1, <1>2, <1>8
    <2>2. QED
      BY <1>1, <1>4, <1>5, <1>6, <2>1 DEF chars, piece
  <1>9. CASE l - n = 3
    <2>1. m + n = 12 + k
      BY <1>1, <1>2, <1>9
    <2>2. QED
      BY <1>1, <1>4, <1>5, <1>6, <2>1 DEF chars, piece
  <1>10. CASE l - n = 4
    <2>1. m + n = 11 + k
      BY <1>1, <1>2, <1>10
    <2>2. QED
      BY <1>1, <1>4, <1>5, <1>6, <2>1 DEF chars, piece
  <1>11. l - n \in 1..4
    BY DEF l
  <1>12. QED
    BY <1>7, <1>8, <1>9, <1>10, <1>11

\* However much of the reply is in the buffer, the text is the front of the
\* piece, as far as it is there.
LEMMA BodyOfFront ==
  ASSUME reply \in Replies, OnePiece(reply), NEW bytes, NEW left, Cut(Bytes(reply), bytes, left)
  PROVE  LET k == InBuffer(reply, Len(bytes))
         IN /\ k \in 0..Len(reply.chunks[1])
            /\ Body(bytes) \in Seq(Byte) /\ Len(Body(bytes)) = k
            /\ \A i \in 1..k : Body(bytes)[i] = reply.chunks[1][i]
  <1> DEFINE all == Bytes(reply)
             d == reply.chunks[1]
             n == Len(d)
             l == Len(bytes)
  <1>1. /\ d \in Seq(Data) /\ n \in Nat /\ all \in Seq(Byte)
        /\ all[2] = "cr" /\ all[3] = "lf" /\ all[4] = "cr" /\ all[5] = "lf"
        /\ reply.kind = "length" => Len(all) = 5 + n /\ \A i \in 1..n : all[5 + i] = d[i]
        /\ reply.kind = "chunked" =>
               /\ Len(all) = 15 + n
               /\ all[6] = "size" /\ all[7] = "cr" /\ all[8] = "lf"
               /\ \A i \in 1..n : all[8 + i] = d[i]
               /\ all[9 + n] = "cr" /\ all[10 + n] = "lf" /\ all[11 + n] = "0"
               /\ all[12 + n] = "cr" /\ all[13 + n] = "lf" /\ all[14 + n] = "cr" /\ all[15 + n] = "lf"
    BY Layout
  <1>2. /\ bytes \in Seq(Byte) /\ l \in Nat /\ l <= Len(all)
        /\ \A i \in 1..l : bytes[i] = all[i]
    <2>1. /\ bytes \in Seq(Byte) /\ left \in Seq(Byte) /\ l + Len(left) = Len(all)
          /\ \A i \in 1..l : bytes[i] = all[i]
      BY DEF Cut
    <2>2. QED
      BY <2>1
  <1> HIDE DEF all, d
  <1>3. reply.kind \in {"length", "chunked"} /\ reply.chunks[1] = d
    BY HttpAssumption DEF OnePiece, d
  <1> DEFINE ends == {i \in 1..l : i > 4 /\ SubSeq(bytes, i - 3, i) = HeaderEnd}
             first == CHOOSE i \in ends : \A j \in ends : i <= j
             rest == SubSeq(bytes, 6, l)
             sizes == {i \in 1..Len(rest) : rest[i] = "size"}
             mark == CHOOSE i \in sizes : \A j \in sizes : i >= j
             chunk == SubSeq(rest, 4, Len(rest))
  <1> DEFINE k == InBuffer(reply, l)
             IsFront(t) == t \in Seq(Byte) /\ Len(t) = k /\ \A i \in 1..k : t[i] = d[i]
  <1>4. k \in 0..n
    BY <1>1, <1>2, <1>3 DEF InBuffer, d
  <1> SUFFICES IsFront(Body(bytes))
    BY <1>3, <1>4
  <1>5. 5 + 1 = 6
    OBVIOUS
  <1>6. CASE l < 5
    <2>1. ends = {}
      BY <1>2, <1>6
    <2>2. AfterHeader(bytes) = <<>>
      BY <2>1 DEF AfterHeader
    <2>3. LastChunk(<<>>) = <<>>
      BY DEF LastChunk
    <2>4. Body(bytes) = <<>>
      BY <2>2, <2>3 DEF Body
    <2>5. k = 0
      BY <1>1, <1>2, <1>3, <1>6 DEF InBuffer
    <2> HIDE DEF k
    <2>6. QED
      BY <2>4, <2>5
  <1> HIDE DEF k
  <1>7. CASE l >= 5
    <2>1. SubSeq(bytes, 2, 5) = HeaderEnd
      <3> DEFINE four == SubSeq(bytes, 2, 5)
      <3>1. /\ four \in Seq(Byte) /\ Len(four) = 4
            /\ four[1] = bytes[2] /\ four[2] = bytes[3] /\ four[3] = bytes[4] /\ four[4] = bytes[5]
        <4>1. \A i \in 2..5 : bytes[i] \in Byte
          BY <1>2, <1>7
        <4>2. /\ four \in Seq(Byte) /\ Len(four) = IF 2 <= 5 THEN 5 - 2 + 1 ELSE 0
              /\ \A i \in 1..(5 - 2 + 1) : four[i] = bytes[2 + i - 1]
          BY <4>1, SubSeqProperties
        <4> HIDE DEF four
        <4>3. \A i \in 1..4 : four[i] = bytes[i + 1]
          BY <4>2
        <4>4. four[1] = bytes[1 + 1] /\ four[2] = bytes[2 + 1] /\ four[3] = bytes[3 + 1] /\ four[4] = bytes[4 + 1]
          BY <4>3
        <4>5. QED
          BY <4>2, <4>4
      <3>2. /\ HeaderEnd \in Seq(Byte) /\ Len(HeaderEnd) = 4 /\ HeaderEnd[1] = "cr" /\ HeaderEnd[2] = "lf"
            /\ HeaderEnd[3] = "cr" /\ HeaderEnd[4] = "lf"
        BY DEF HeaderEnd, Byte
      <3>3. bytes[2] = "cr" /\ bytes[3] = "lf" /\ bytes[4] = "cr" /\ bytes[5] = "lf"
        <4>1. 2 \in 1..l /\ 3 \in 1..l /\ 4 \in 1..l /\ 5 \in 1..l
          BY <1>2, <1>7
        <4>2. bytes[2] = all[2] /\ bytes[3] = all[3] /\ bytes[4] = all[4] /\ bytes[5] = all[5]
          BY <1>2, <4>1
        <4>3. QED
          BY <1>1, <4>2
      <3> HIDE DEF four
      <3>4. \A i \in 1..4 : four[i] = HeaderEnd[i]
        <4>1. four[1] = HeaderEnd[1] /\ four[2] = HeaderEnd[2] /\ four[3] = HeaderEnd[3] /\ four[4] = HeaderEnd[4]
          BY <3>1, <3>2, <3>3
        <4>2. \A i \in 1..4 : i = 1 \/ i = 2 \/ i = 3 \/ i = 4
          OBVIOUS
        <4>3. QED
          BY <4>1, <4>2
      <3>5. four = HeaderEnd
        BY <3>1, <3>2, <3>4, SeqEqual
      <3>6. QED
        BY <3>5 DEF four
    <2>2. 5 \in ends /\ \A i \in ends : i \in Nat /\ 5 <= i
      <3>1. 5 \in 1..l /\ 5 > 4 /\ 5 - 3 = 2
        BY <1>2, <1>7
      <3>2. 5 \in ends
        BY <2>1, <3>1
      <3>3. \A i \in 1..l : i > 4 => i \in Nat /\ 5 <= i
        BY <1>2
      <3>4. QED
        BY <3>2, <3>3
    <2>3. first = 5
      <3> HIDE DEF ends
      <3>1. \E i \in ends : \A j \in ends : i <= j
        BY <2>2
      <3>2. first \in ends /\ \A j \in ends : first <= j
        BY <3>1
      <3>3. first \in Nat /\ first <= 5 /\ 5 <= first
        BY <2>2, <3>2
      <3>4. QED
        BY <3>3
    <2>4. ends # {}
      BY <2>2
    <2>5. AfterHeader(bytes) = rest
      <3>1. AfterHeader(bytes) = SubSeq(bytes, 1 + first, l)
        BY <2>4 DEF AfterHeader
      <3> HIDE DEF first
      <3>2. 1 + first = 6
        BY <2>3
      <3>3. QED
        BY <3>1, <3>2
    <2>6. /\ rest \in Seq(Byte) /\ Len(rest) = l - 5 /\ l - 5 \in Nat
           /\ \A i \in 1..(l - 5) : rest[i] = all[5 + i]
      <3>1. bytes \in Seq(Byte) /\ 5 \in 0..Len(bytes)
        BY <1>2, <1>7
      <3>2. /\ SubSeq(bytes, 5 + 1, l) \in Seq(Byte) /\ Len(SubSeq(bytes, 5 + 1, l)) = l - 5
            /\ \A i \in 1..(l - 5) : SubSeq(bytes, 5 + 1, l)[i] = bytes[5 + i]
        BY <3>1, Halves
      <3>3. rest \in Seq(Byte) /\ Len(rest) = l - 5 /\ \A i \in 1..(l - 5) : rest[i] = bytes[5 + i]
        BY <1>5, <3>2
      <3>4. ASSUME NEW i \in 1..(l - 5) PROVE 5 + i \in 1..l
        BY <1>2
      <3>5. l - 5 \in Nat
        BY <1>2, <1>7
      <3> HIDE DEF rest
      <3>6. ASSUME NEW i \in 1..(l - 5) PROVE rest[i] = all[5 + i]
        <4>1. rest[i] = bytes[5 + i] /\ 5 + i \in 1..l
          BY <3>3, <3>4
        <4>2. QED
          BY <1>2, <4>1
      <3>7. QED
        BY <3>3, <3>5, <3>6
    <2> HIDE DEF rest, first, ends
    <2>7. CASE reply.kind = "length"
      <3>1. k = l - 5 /\ l - 5 <= n
        BY <1>1, <1>2, <1>7, <2>7 DEF InBuffer, d, k
      <3>2. Body(bytes) = rest
        BY <2>5, <2>7 DEF Body
      <3>3. \A i \in 1..k : rest[i] = d[i]
        <4>1. \A i \in 1..(l - 5) : i \in 1..n
          BY <1>1, <3>1
        <4>2. QED
          BY <1>1, <2>6, <2>7, <3>1, <4>1
      <3>4. QED
        BY <2>6, <3>1, <3>2, <3>3
    <2>8. CASE reply.kind = "chunked"
      <3> USE <2>8
      <3>1. Body(bytes) = LastChunk(rest)
        BY <2>5 DEF Body
      <3>2. l <= 15 + n
        BY <1>1, <1>2
      <3>3. ASSUME NEW i \in 2..(l - 5) PROVE rest[i] # "size"
        <4> DEFINE p == 5 + i
        <4>1. i \in 1..(l - 5) /\ p \in 7..(15 + n) /\ p \in Nat
          BY <1>1, <1>2, <3>2
        <4>2. rest[i] = all[p]
          BY <2>6, <4>1
        <4> HIDE DEF p
        <4>3. CASE p \in 9..(8 + n)
          <5>1. p - 8 \in 1..n /\ 8 + (p - 8) = p
            BY <1>1, <4>3
          <5>2. all[p] = d[p - 8] /\ d[p - 8] \in Data
            BY <1>1, <2>8, <5>1
          <5>3. QED
            BY <4>2, <5>2, HttpAssumption
        <4>4. CASE p \in 7..8
          BY <1>1, <2>8, <4>2, <4>4
        <4>5. CASE p \in (9 + n)..(15 + n)
          <5>1. \/ p = 9 + n \/ p = 10 + n \/ p = 11 + n \/ p = 12 + n
                \/ p = 13 + n \/ p = 14 + n \/ p = 15 + n
            BY <1>1, <4>5
          <5>2. all[p] \in {"cr", "lf", "0"}
            BY <1>1, <2>8, <5>1
          <5>3. QED
            BY <4>2, <5>2
        <4>6. p \in 9..(8 + n) \/ p \in 7..8 \/ p \in (9 + n)..(15 + n)
          BY <1>1, <4>1
        <4>7. QED
          BY <4>3, <4>4, <4>5, <4>6
      <3>4. CASE l = 5
        <4>1. sizes = {}
          BY <2>6, <3>4
        <4>2. LastChunk(rest) = <<>>
          BY <4>1 DEF LastChunk
        <4>3. k = 0
          BY <1>1, <3>4 DEF InBuffer, d, k
        <4>4. QED
          BY <3>1, <4>2, <4>3
      <3>5. CASE l > 5
        <4>1. sizes = {1}
          <5>1. rest[1] = "size" /\ 1 \in 1..Len(rest)
            <6>1. 1 \in 1..(l - 5) /\ 5 + 1 = 6
              BY <1>2, <3>5
            <6>2. QED
              BY <1>1, <2>6, <6>1
          <5>2. ASSUME NEW i \in 1..Len(rest), i # 1 PROVE i \in 2..(l - 5)
            BY <2>6, <5>2
          <5>3. QED
            BY <3>3, <5>1, <5>2
        <4> HIDE DEF sizes
        <4>2. mark = 1
          <5>1. \A i \in sizes : i = 1
            BY <4>1
          <5>2. 1 \in sizes /\ \A j \in sizes : 1 >= j
            BY <4>1
          <5>3. mark \in sizes
            BY <5>2
          <5>4. QED
            BY <5>1, <5>3
        <4>3. Cardinality(sizes) = 1
          BY <4>1, FS_Singleton
        <4>4. LastChunk(rest) = SubSeq(chunk, 1, IF Len(chunk) < n THEN Len(chunk) ELSE n)
          <5>1. LastChunk(rest) = IF sizes = {} THEN <<>>
                                  ELSE LET piece == SubSeq(rest, 3 + mark, Len(rest))
                                           of == reply.chunks[Cardinality(sizes)]
                                       IN SubSeq(piece, 1, IF Len(piece) < Len(of) THEN Len(piece) ELSE Len(of))
            BY DEF LastChunk, sizes
          <5> HIDE DEF mark
          <5>2. 3 + mark = 4 /\ sizes # {} /\ reply.chunks[Cardinality(sizes)] = d
            BY <1>3, <4>1, <4>2, <4>3
          <5>3. QED
            BY <5>1, <5>2
        <4>5. CASE l < 8
          <5>1. chunk = <<>>
            <6>1. Len(rest) < 4 /\ Len(rest) \in Nat
              BY <1>2, <2>6, <4>5
            <6>2. QED
              BY <2>6, <6>1
          <5>2. SubSeq(chunk, 1, IF Len(chunk) < n THEN Len(chunk) ELSE n) = <<>>
            BY <1>1, <5>1
          <5>3. k = 0
            BY <1>1, <1>2, <4>5 DEF InBuffer, d, k
          <5> HIDE DEF chunk
          <5>4. QED
            BY <3>1, <4>4, <5>2, <5>3
        <4>6. CASE l >= 8
          <5>1. /\ chunk \in Seq(Byte) /\ Len(chunk) = (l - 5) - 3
                /\ \A i \in 1..((l - 5) - 3) : chunk[i] = rest[3 + i]
            <6>1. 3 \in 0..Len(rest) /\ 3 + 1 = 4
              BY <1>2, <2>6, <4>6
            <6>2. /\ SubSeq(rest, 3 + 1, Len(rest)) \in Seq(Byte) /\ Len(SubSeq(rest, 3 + 1, Len(rest))) = Len(rest) - 3
                  /\ \A i \in 1..(Len(rest) - 3) : SubSeq(rest, 3 + 1, Len(rest))[i] = rest[3 + i]
              BY <2>6, <6>1, Halves
            <6>3. QED
              BY <2>6, <6>1, <6>2
          <5> HIDE DEF chunk
          <5>2. /\ k = (IF Len(chunk) < n THEN Len(chunk) ELSE n)
                /\ k \in 0..Len(chunk) /\ k <= n /\ k <= (l - 5) - 3
            <6>1. k = LET past == l - 8 IN IF past < 0 THEN 0 ELSE IF past < n THEN past ELSE n
              BY <2>8 DEF InBuffer, d, k
            <6>2. n \in Nat /\ l \in Nat /\ l >= 8 /\ Len(chunk) = (l - 5) - 3
              BY <1>1, <1>2, <4>6, <5>1
            <6> HIDE DEF n, l
            <6>3. QED
              BY <6>1, <6>2
          <5> DEFINE piece == SubSeq(chunk, 1, k)
          <5>3. piece \in Seq(Byte) /\ Len(piece) = k /\ \A i \in 1..k : piece[i] = chunk[i]
            BY <5>1, <5>2, Halves
          <5>4. Body(bytes) = piece
            BY <3>1, <4>4, <5>2
          <5> HIDE DEF piece
          <5>5. ASSUME NEW i \in 1..k PROVE piece[i] = d[i]
            <6>1. i \in 1..((l - 5) - 3) /\ 3 + i \in 1..(l - 5) /\ 5 + (3 + i) = 8 + i /\ i \in 1..n
              BY <1>1, <1>2, <4>6, <5>2
            <6>2. piece[i] = chunk[i] /\ chunk[i] = rest[3 + i]
              BY <5>1, <5>3, <6>1
            <6>3. rest[3 + i] = all[5 + (3 + i)]
              BY <2>6, <6>1
            <6>4. all[8 + i] = d[i]
              BY <1>1, <6>1
            <6>5. QED
              BY <6>1, <6>2, <6>3, <6>4
          <5>6. QED
            BY <5>3, <5>4, <5>5
        <4>7. QED
          BY <1>2, <4>5, <4>6
      <3>6. l = 5 \/ l > 5
        <4>1. l \in Nat /\ l >= 5
          BY <1>2, <1>7
        <4> HIDE DEF l
        <4>2. QED
          BY <4>1
      <3>7. QED
        BY <3>4, <3>5, <3>6
    <2>9. QED
      BY <1>3, <2>7, <2>8
  <1>8. QED
    BY <1>2, <1>6, <1>7

\* The text is a front of the piece, and all of it where all of the reply is
\* in the buffer or all but the terminator.
LEMMA BodyIsFront ==
  ASSUME reply \in Replies, OnePiece(reply), NEW bytes, NEW left, Cut(Bytes(reply), bytes, left)
  PROVE  IsPrefix(Body(bytes), reply.chunks[1])
  <1> DEFINE d == reply.chunks[1]
             k == InBuffer(reply, Len(bytes))
             kept == Body(bytes)
  <1>1. /\ k \in 0..Len(d) /\ kept \in Seq(Byte) /\ Len(kept) = k
        /\ \A i \in 1..k : kept[i] = d[i]
    BY BodyOfFront
  <1>2. d \in Seq(Byte)
    BY Layout DEF Byte
  <1> HIDE DEF d, k, kept
  <1>3. SubSeq(d, 1, k) \in Seq(Byte) /\ Len(SubSeq(d, 1, k)) = k /\ \A i \in 1..k : SubSeq(d, 1, k)[i] = d[i]
    BY <1>1, <1>2, Halves
  <1>4. SubSeq(kept, 1, k) \in Seq(Byte) /\ Len(SubSeq(kept, 1, k)) = k /\ \A i \in 1..k : SubSeq(kept, 1, k)[i] = kept[i]
    <2>1. k \in 0..Len(kept)
      BY <1>1
    <2>2. QED
      BY <1>1, <2>1, Halves
  <1>5. SubSeq(kept, 1, k) = SubSeq(d, 1, k)
    BY <1>1, <1>3, <1>4, SeqEqual
  <1>6. QED
    BY <1>1, <1>5 DEF IsPrefix, d, kept

LEMMA BodyOfEnough ==
  ASSUME reply \in Replies, OnePiece(reply), NEW bytes, Enough(reply, bytes)
  PROVE  Body(bytes) = reply.chunks[1]
  <1> DEFINE all == Bytes(reply)
             d == reply.chunks[1]
             n == Len(d)
             l == Len(bytes)
             k == InBuffer(reply, l)
  <1>1. PICK left : Cut(all, bytes, left) /\ (left = <<>> \/ (reply.kind = "chunked" /\ Len(left) <= 5))
    BY DEF Enough
  <1>2. /\ Body(bytes) \in Seq(Byte) /\ Len(Body(bytes)) = k
        /\ \A i \in 1..k : Body(bytes)[i] = d[i]
    BY <1>1, BodyOfFront
  <1>3. /\ d \in Seq(Byte) /\ n \in Nat
        /\ reply.kind = "length" => Len(all) = 5 + n
        /\ reply.kind = "chunked" => Len(all) = 15 + n
    BY Layout DEF Byte
  <1>4. reply.kind \in {"length", "chunked"}
    BY HttpAssumption DEF OnePiece
  <1>5. l \in Nat /\ Len(left) \in Nat /\ l + Len(left) = Len(all) /\ (left = <<>> => Len(left) = 0)
    BY <1>1 DEF Cut
  <1> HIDE DEF all, l
  <1>6. k = n
    <2> HIDE DEF d
    <2>1. k = LET past == l - (IF reply.kind = "length" THEN 5 ELSE 8)
              IN IF past < 0 THEN 0 ELSE IF past < n THEN past ELSE n
      BY DEF InBuffer, d
    <2>2. QED
      BY <1>1, <1>3, <1>4, <1>5, <2>1
  <1> HIDE DEF d, k
  <1>7. QED
    BY <1>2, <1>3, <1>6, SeqEqual DEF d

LEMMA StepReads == ASSUME ReadShape, [HttpNext]_httpVars PROVE ReadShape'
  <1> USE DEF Goes, tcpVars, replyVars
  <1>1. CASE Request
    BY <1>1 DEF Request, ReadShape
  <1>2. CASE ResolveFails
    BY <1>2 DEF ResolveFails, ReadShape
  <1>3. CASE Resolves
    BY <1>3 DEF Resolves, ReadShape
  <1>4. CASE NoSocket
    BY <1>4 DEF NoSocket, ReadShape
  <1>5. CASE ConnectFails
    BY <1>5 DEF ConnectFails, ReadShape
  <1>6. CASE Connects
    BY <1>6 DEF Connects, ReadShape
  <1>7. CASE NoneConnects
    BY <1>7 DEF NoneConnects, ReadShape
  <1>8. CASE Handshakes
    BY <1>8 DEF Handshakes, ReadShape
  <1>9. CASE WriteFails
    BY <1>9 DEF WriteFails, ReadShape
  <1>10. CASE Writes
    <2>1. /\ stage' = "read" /\ reply' \in Replies /\ wire' = Bytes(reply')
          /\ last' = Zeros /\ buffer' = <<>>
      BY <1>10 DEF Writes
    <2>0. ~mixed' /\ ~fooled' /\ last' = Zeros
      BY <1>10 DEF Writes
    <2>2. ASSUME OnePiece(reply') PROVE /\ Cut(Bytes(reply'), <<>>, wire') /\ Stale(reply', Zeros, 0, Len(wire'))
                                         /\ Zeros \in Seq(Byte) /\ Len(Zeros) = 5
      <3>1. Bytes(reply') \in Seq(Byte)
        BY <2>1, <2>2, Layout
      <3>2. <<>> \in Seq(Byte) /\ Len(<<>>) = 0
        OBVIOUS
      <3>3. Zeros \in Seq(Byte) /\ Len(Zeros) = 5 /\ Zeros[1] # "0"
        BY DEF Zeros, Byte
      <3> DEFINE all == Bytes(reply')
      <3> HIDE DEF all
      <3>4. all \in Seq(Byte) /\ Len(all) \in Nat
        BY <3>1 DEF all
      <3>5. 0 + Len(all) = Len(all) /\ \A i \in 1..Len(all) : 0 + i = i
        BY <3>4
      <3>6. Cut(all, <<>>, all)
        BY <3>2, <3>4, <3>5 DEF Cut
      <3>7. QED
        BY <2>1, <3>3, <3>6 DEF all, Stale
    <2>3. Len(<<>>) = 0
      OBVIOUS
    <2>4. QED
      BY <2>0, <2>1, <2>2, <2>3 DEF ReadShape
  <1>11. CASE ReadPiece
    <2>1. /\ stage = "read" /\ reply' = reply /\ text' = text
          /\ stage' \in {"read", "parse", "returned"} /\ reply \in Replies
      BY <1>11 DEF ReadPiece, AfterRead, ReadShape
    <2>2. SUFFICES ASSUME OnePiece(reply)
                   PROVE  /\ Plain(reply) => ~fooled'
                          /\ stage' = "read" => Cut(Bytes(reply), buffer', wire')
                          /\ last' \in Seq(Byte) /\ Len(last') = 5
                          /\ stage' = "read" /\ Plain(reply) => Stale(reply, last', Len(buffer'), Len(wire'))
                          /\ stage' = "parse" => /\ \E rest : Cut(Bytes(reply), buffer', rest)
                                                 /\ ~mixed' /\ ~fooled' => Enough(reply, buffer')
                          /\ stage' # "returned"
      BY <2>1 DEF ReadShape
    <2>3. reply.kind # "upgrade"
      BY <2>2 DEF OnePiece
    <2>4. PICK n \in 1..(IF Len(wire) < BufSize THEN Len(wire) ELSE BufSize) :
              LET piece == SubSeq(wire, 1, n)
              IN /\ wire' = SubSeq(wire, n + 1, Len(wire))
                 /\ last' = LastChars(piece)
                 /\ mixed' = (mixed \/ Mixes(n)) /\ fooled' = (fooled \/ Fools(piece))
                 /\ Terminated(piece) => buffer' = buffer /\ stage' = "parse"
                 /\ ~Terminated(piece) => buffer' = buffer \o piece /\ stage' = "read"
      BY <1>11, <2>3 DEF ReadPiece, AfterRead
    <2> DEFINE piece == SubSeq(wire, 1, n)
               left == Len(wire) - n
    <2>5. Cut(Bytes(reply), buffer, wire) /\ last \in Seq(Byte) /\ Len(last) = 5
      BY <2>1, <2>2 DEF ReadShape
    <2>6. n \in 1..Len(wire) /\ Len(wire) \in Nat /\ Len(buffer) \in Nat
      BY <2>4, <2>5, HttpAssumption DEF Cut
    <2>7. /\ Cut(Bytes(reply), buffer \o piece, wire') /\ Len(wire') = left
          /\ Len(buffer \o piece) = Len(buffer) + n /\ Len(piece) = n
          /\ last' \in Seq(Byte) /\ Len(last') = 5
      <3>1. Bytes(reply) \in Seq(Byte)
        BY <2>1, <2>2, Layout
      <3>2. /\ piece \in Seq(Byte) /\ Len(piece) = n
            /\ Cut(Bytes(reply), buffer \o piece, wire') /\ Len(wire') = left
            /\ Len(buffer \o piece) = Len(buffer) + n
        BY <2>4, <2>5, <2>6, <3>1, CutMoves
      <3>3. last' = LastChars(piece) /\ n \in Nat \ {0}
        BY <2>4, <2>6
      <3> HIDE DEF piece
      <3>4. LastChars(piece) \in Seq(Byte) /\ Len(LastChars(piece)) = 5
        BY <2>5, <3>2, <3>3, Moved
      <3>5. QED
        BY <3>2, <3>3, <3>4
    <2>8. Plain(reply) => Stale(reply, last', Len(buffer) + n, left) /\ ~Fools(piece)
      <3>1. Plain(reply) => Stale(reply, last, Len(buffer), Len(wire))
        BY <2>1, <2>2 DEF ReadShape
      <3>2. QED
        BY <2>1, <2>2, <2>4, <2>5, <2>6, <3>1, StaleMoves
    <2>9. Plain(reply) => ~fooled'
      BY <2>2, <2>4, <2>8 DEF ReadShape
    <2> HIDE DEF piece
    <2>10. CASE Terminated(piece)
      <3>1. ASSUME ~mixed', ~fooled' PROVE Enough(reply, buffer)
        <4>1. Len(Terminator) = 5
          BY DEF Terminator
        <4>2. ~Mixes(n) /\ ~Fools(piece)
          BY <2>4, <3>1 DEF piece
        <4>3. reply.kind = "chunked" /\ left < 5
          <5>1. ~(reply.kind # "chunked" \/ left >= 5)
            BY <2>7, <2>10, <4>1, <4>2 DEF Fools, Terminated
          <5>2. left \in Int
            BY <2>6
          <5>3. QED
            BY <5>1, <5>2
        <4>4. Len(wire) <= 5
          <5>1. SUFFICES ASSUME Len(wire) > 5 PROVE FALSE
            BY <2>6
          <5>2. left \in 1..4
            BY <2>6, <4>1, <4>2, <4>3, <5>1 DEF Mixes
          <5>3. LastChars(piece) # Terminator
            BY <2>1, <2>2, <2>5, <2>6, <4>3, <5>1, <5>2, NotInside DEF piece
          <5>4. QED
            BY <2>10, <5>3 DEF Terminated
        <4>5. QED
          BY <2>5, <4>3, <4>4 DEF Enough
      <3>2. buffer' = buffer /\ stage' = "parse"
        BY <2>4, <2>10 DEF piece
      <3>3. QED
        BY <2>5, <2>7, <2>9, <3>1, <3>2
    <2>11. CASE ~Terminated(piece)
      BY <2>4, <2>7, <2>8, <2>9, <2>11 DEF piece
    <2>12. QED
      BY <2>10, <2>11
  <1>12. CASE ReadEnds
    <2>1. /\ stage = "read" /\ stage' = "parse" /\ wire = <<>>
          /\ UNCHANGED <<reply, buffer, mixed, fooled>>
      BY <1>12 DEF ReadEnds
    <2>2. OnePiece(reply) => Cut(Bytes(reply), buffer, <<>>) /\ Enough(reply, buffer)
      BY <2>1 DEF ReadShape, Enough
    <2>3. QED
      BY <2>1, <2>2 DEF ReadShape
  <1>13. CASE Parses
    <2>1. /\ stage = "parse" /\ stage' = "returned" /\ text' = Body(buffer)
          /\ UNCHANGED <<reply, mixed, fooled>> /\ reply \in Replies
      BY <1>13 DEF Parses, ReadShape
    <2>2. OnePiece(reply) => IsPrefix(Body(buffer), reply.chunks[1])
      BY <2>1, BodyIsFront DEF ReadShape
    <2>3. OnePiece(reply) /\ ~mixed /\ ~fooled => Body(buffer) = reply.chunks[1]
      BY <2>1, BodyOfEnough DEF ReadShape
    <2>4. QED
      BY <2>1, <2>2, <2>3 DEF ReadShape
  <1>14. CASE Drops
    BY <1>14 DEF Drops, ReadShape
  <1>15. CASE Switches
    BY <1>15 DEF Switches, ReadShape
  <1>16. CASE Disconnects
    BY <1>16 DEF Disconnects, ReadShape
  <1>17. CASE UNCHANGED httpVars
    BY <1>17 DEF httpVars, ReadShape
  <1>18. QED
    BY <1>1, <1>2, <1>3, <1>4, <1>5, <1>6, <1>7, <1>8, <1>9, <1>10, <1>11, <1>12, <1>13, <1>14,
       <1>15, <1>16, <1>17
    DEF HttpNext

\* What the read loop keeps of a reply is always a front of it.
LEMMA FrontIsRead == HttpSpec => []ReadShape
  <1>1. HttpInit => ReadShape
    BY DEF HttpInit, ReadShape
  <1>2. ReadShape /\ [HttpNext]_httpVars => ReadShape'
    BY StepReads
  <1>3. QED
    BY <1>1, <1>2, PTL DEF HttpSpec

\* A body of any bytes in one piece comes out whole, however the reply is cut
\* into reads, unless the read that completes the terminator has bytes before
\* it, or the reply is not plain and last_chars holds a terminator ahead of that
\* of the reply.
THEOREM BodyKept == HttpSpec => []BodyWhole
  <1>1. ReadShape => BodyWhole
    BY DEF ReadShape, BodyWhole
  <1>2. QED
    BY <1>1, FrontIsRead, PTL

\* With those two exceptions as well, what request() returns of such a body is
\* a front of it.
THEOREM OnlyTheEndIsLost == HttpSpec => []BodyFront
  <1>1. ReadShape => BodyFront
    BY DEF ReadShape, BodyFront
  <1>2. QED
    BY <1>1, FrontIsRead, PTL
-----------------------------------------------------------------------------
(* WebsocketStream, for buffers of any size and messages of any length: by *)
(* what the bytes yield, where the message in hand is.  First the sum that *)
(* Yields computes.                                                        *)

\* A set of numbers has a least element.
LEMMA Least ==
  ASSUME NEW T \in SUBSET Nat, T # {}
  PROVE  \E x \in T : \A y \in T : x <= y
  <1>1. PICK x \in T : \A y \in T : ~(<<y, x>> \in OpToRel(<, Nat))
    BY NatLessThanWellFounded, WFMin
  <1>2. \A y \in T : ~(y < x)
    BY <1>1 DEF OpToRel
  <1>3. QED
    BY <1>2

\* Hence induction: a set with 0 and every successor holds every number.
LEMMA Induction ==
  ASSUME NEW S, 0 \in S, \A n \in Nat : n \in S => n + 1 \in S
  PROVE  Nat \subseteq S
  <1>1. SUFFICES ASSUME Nat \ S # {} PROVE FALSE
    OBVIOUS
  <1>2. PICK least \in Nat \ S : \A n \in Nat \ S : least <= n
    BY <1>1, Least
  <1>3. least # 0 /\ least - 1 \in Nat
    BY <1>2
  <1>4. least - 1 \in S
    BY <1>2, <1>3
  <1>5. least = (least - 1) + 1
    BY <1>2
  <1>6. QED
    BY <1>2, <1>3, <1>4, <1>5

\* The function in the definition of Yields: what the first n bytes yield.
Sum(bytes) == CHOOSE f : f = [n \in 0..Len(bytes) |-> IF n = 0 THEN 0 ELSE f[n - 1] + bytes[n]]

\* That function is the recursive one it is defined to be.
LEMMA Summing ==
  ASSUME NEW bytes \in Seq(Nat)
  PROVE  /\ Yields(bytes) = Sum(bytes)[Len(bytes)]
         /\ Sum(bytes)[0] = 0
         /\ \A n \in 1..Len(bytes) : Sum(bytes)[n] = Sum(bytes)[n - 1] + bytes[n]
  <1> DEFINE Made(k) == \E f : f = [n \in 0..k |-> IF n = 0 THEN 0 ELSE f[n - 1] + bytes[n]]
  <1>1. Made(0)
    <2>1. [n \in 0..0 |-> 0] = [n \in 0..0 |-> IF n = 0 THEN 0 ELSE [k \in 0..0 |-> 0][n - 1] + bytes[n]]
      OBVIOUS
    <2>2. QED
      BY <2>1
  <1>2. ASSUME NEW k \in Nat, Made(k) PROVE Made(k + 1)
    <2>1. PICK f : f = [n \in 0..k |-> IF n = 0 THEN 0 ELSE f[n - 1] + bytes[n]]
      BY <1>2
    <2> DEFINE g == [n \in 0..(k + 1) |-> IF n <= k THEN f[n] ELSE f[k] + bytes[n]]
    <2>2. ASSUME NEW n \in 0..(k + 1)
          PROVE  g[n] = IF n = 0 THEN 0 ELSE g[n - 1] + bytes[n]
      <3>1. CASE n <= k
        <4>1. g[n] = f[n] /\ f[n] = IF n = 0 THEN 0 ELSE f[n - 1] + bytes[n]
          BY <2>1, <3>1
        <4>2. n # 0 => n - 1 \in 0..(k + 1) /\ n - 1 <= k /\ g[n - 1] = f[n - 1]
          BY <3>1
        <4>3. QED
          BY <4>1, <4>2
      <3>2. CASE n = k + 1
        BY <3>2
      <3>3. QED
        BY <3>1, <3>2
    <2>3. g = [n \in 0..(k + 1) |-> IF n = 0 THEN 0 ELSE g[n - 1] + bytes[n]]
      <3>1. g = [n \in 0..(k + 1) |-> g[n]]
        OBVIOUS
      <3>2. HIDE DEF g
      <3>3. QED
        BY <2>2, <3>1
    <2> HIDE DEF g
    <2>4. QED
      BY <2>3
  <1>6. Len(bytes) \in Nat
    OBVIOUS
  <1>3. Made(Len(bytes))
    <2> HIDE DEF Made
    <2> DEFINE S == {k \in Nat : Made(k)}
    <2>1. 0 \in S /\ \A k \in Nat : k \in S => k + 1 \in S
      BY <1>1, <1>2
    <2>2. Nat \subseteq S
      <3> HIDE DEF S
      <3>1. QED
        BY <2>1, Induction
    <2>3. QED
      BY <2>2, <1>6
  <1>4. Sum(bytes) = [n \in 0..Len(bytes) |-> IF n = 0 THEN 0 ELSE Sum(bytes)[n - 1] + bytes[n]]
    BY <1>3, Zenon DEF Sum
  <1>5. Yields(bytes) = Sum(bytes)[Len(bytes)]
    BY DEF Yields, Sum
  <1> HIDE DEF Made
  <1>7. Sum(bytes)[0] = 0
    BY <1>4, <1>6
  <1>8. ASSUME NEW n \in 1..Len(bytes) PROVE Sum(bytes)[n] = Sum(bytes)[n - 1] + bytes[n]
    <2>1. n \in 0..Len(bytes) /\ n # 0
      BY <1>6
    <2>2. QED
      BY <1>4, <2>1
  <1>9. QED
    BY <1>5, <1>7, <1>8

\* A stretch of bytes yields the difference of what is up to its ends.
LEMMA Stretch ==
  ASSUME NEW bytes \in Seq(Nat), NEW part \in Seq(Nat), NEW c \in Nat, c + Len(part) <= Len(bytes),
         \A i \in 1..Len(part) : part[i] = bytes[c + i]
  PROVE  \A n \in 0..Len(part) :
             /\ Sum(part)[n] \in Nat /\ Sum(bytes)[c] \in Nat
             /\ Sum(bytes)[c + n] = Sum(bytes)[c] + Sum(part)[n]
  <1> DEFINE S == {n \in Nat : n <= Len(bytes) => Sum(bytes)[n] \in Nat}
             T == {n \in Nat : n <= Len(part) => /\ Sum(part)[n] \in Nat
                                                 /\ Sum(bytes)[c + n] = Sum(bytes)[c] + Sum(part)[n]}
  <1>1. /\ Len(bytes) \in Nat /\ Len(part) \in Nat
        /\ Sum(bytes)[0] = 0 /\ \A n \in 1..Len(bytes) : Sum(bytes)[n] = Sum(bytes)[n - 1] + bytes[n]
        /\ Sum(part)[0] = 0 /\ \A n \in 1..Len(part) : Sum(part)[n] = Sum(part)[n - 1] + part[n]
        /\ \A n \in 1..Len(bytes) : bytes[n] \in Nat
        /\ \A n \in 1..Len(part) : part[n] \in Nat
    <2>1. Len(bytes) \in Nat /\ Len(part) \in Nat /\ (\A n \in 1..Len(bytes) : bytes[n] \in Nat)
          /\ \A n \in 1..Len(part) : part[n] \in Nat
      OBVIOUS
    <2>2. QED
      BY <2>1, Summing
  <1>2. Sum(bytes)[c] \in Nat
    <2>1. 0 \in S
      BY <1>1
    <2>2. ASSUME NEW n \in Nat, n \in S PROVE n + 1 \in S
      <3>1. SUFFICES ASSUME n + 1 <= Len(bytes) PROVE Sum(bytes)[n + 1] \in Nat
        OBVIOUS
      <3>2. n + 1 \in 1..Len(bytes) /\ (n + 1) - 1 = n /\ Sum(bytes)[n] \in Nat
        BY <1>1, <2>2, <3>1
      <3>3. Sum(bytes)[n + 1] = Sum(bytes)[n] + bytes[n + 1] /\ bytes[n + 1] \in Nat
        BY <1>1, <3>2
      <3>4. \A x, y \in Nat : x + y \in Nat
        OBVIOUS
      <3>5. QED
        BY <3>2, <3>3, <3>4
    <2>3. c \in S
      <3> HIDE DEF S
      <3>1. QED
        BY <2>1, <2>2, Induction
    <2>4. QED
      BY <1>1, <2>3
  <1>3. 0 \in T
    BY <1>1, <1>2
  <1>4. ASSUME NEW n \in Nat, n \in T PROVE n + 1 \in T
    <2>1. SUFFICES ASSUME n + 1 <= Len(part)
                   PROVE  /\ Sum(part)[n + 1] \in Nat
                          /\ Sum(bytes)[c + (n + 1)] = Sum(bytes)[c] + Sum(part)[n + 1]
      OBVIOUS
    <2>2. Sum(part)[n] \in Nat /\ Sum(bytes)[c + n] = Sum(bytes)[c] + Sum(part)[n]
      BY <1>1, <1>4, <2>1
    <2>3. n + 1 \in 1..Len(part) /\ (n + 1) - 1 = n
      BY <1>1, <2>1
    <2>4. c + (n + 1) \in 1..Len(bytes) /\ (c + (n + 1)) - 1 = c + n
      BY <1>1, <2>1
    <2>5. Sum(part)[n + 1] = Sum(part)[n] + part[n + 1] /\ part[n + 1] \in Nat
      BY <1>1, <2>3
    <2>6. Sum(bytes)[c + (n + 1)] = Sum(bytes)[c + n] + bytes[c + (n + 1)]
      BY <1>1, <2>4
    <2>7. part[n + 1] = bytes[c + (n + 1)]
      BY <2>3
    <2>8. Sum(bytes)[c + (n + 1)] = (Sum(bytes)[c] + Sum(part)[n]) + part[n + 1]
      BY <2>2, <2>6, <2>7
    <2>9. \A x, y \in Nat : x + y \in Nat
      OBVIOUS
    <2>10. Sum(part)[n + 1] \in Nat
      BY <2>2, <2>5, <2>9
    <2>11. (Sum(bytes)[c] + Sum(part)[n]) + part[n + 1] = Sum(bytes)[c] + (Sum(part)[n] + part[n + 1])
      <3> DEFINE x == Sum(bytes)[c]
                 y == Sum(part)[n]
                 z == part[n + 1]
      <3>1. x \in Nat /\ y \in Nat /\ z \in Nat
        BY <1>2, <2>2, <2>5
      <3> HIDE DEF x, y, z
      <3>2. (x + y) + z = x + (y + z)
        BY <3>1
      <3>3. QED
        BY <3>2 DEF x, y, z
    <2>12. QED
      BY <2>5, <2>8, <2>10, <2>11
  <1>5. Nat \subseteq T
    <2> HIDE DEF T
    <2>1. QED
      BY <1>3, <1>4, Induction
  <1>6. QED
    BY <1>1, <1>2, <1>5

\* Cut anywhere, bytes yield what their two pieces do.
LEMMA Cutting ==
  ASSUME NEW bytes \in Seq(Nat), NEW c \in 0..Len(bytes)
  PROVE  LET front == SubSeq(bytes, 1, c)
             rest == SubSeq(bytes, c + 1, Len(bytes))
         IN /\ front \in Seq(Nat) /\ Len(front) = c /\ \A i \in 1..c : front[i] = bytes[i]
            /\ rest \in Seq(Nat) /\ Len(rest) = Len(bytes) - c
            /\ \A i \in 1..(Len(bytes) - c) : rest[i] = bytes[c + i]
            /\ {Yields(front), Yields(rest), Yields(bytes)} \subseteq Nat
            /\ Yields(front) = Sum(bytes)[c]
            /\ Yields(bytes) = Yields(front) + Yields(rest)
  <1> DEFINE front == SubSeq(bytes, 1, c)
             rest == SubSeq(bytes, c + 1, Len(bytes))
  <1>1. Len(bytes) \in Nat /\ c \in Nat /\ c <= Len(bytes)
    OBVIOUS
  <1>2. front \in Seq(Nat) /\ Len(front) = c /\ \A i \in 1..c : front[i] = bytes[i]
    BY <1>1
  <1>3. rest \in Seq(Nat) /\ Len(rest) = Len(bytes) - c
        /\ \A i \in 1..(Len(bytes) - c) : rest[i] = bytes[c + i]
    BY <1>1
  <1> HIDE DEF front, rest
  <1>4. Sum(front)[c] \in Nat /\ Sum(bytes)[0 + c] = Sum(bytes)[0] + Sum(front)[c]
    <2>1. 0 + Len(front) <= Len(bytes) /\ \A i \in 1..Len(front) : front[i] = bytes[0 + i]
      BY <1>1, <1>2
    <2>2. c \in 0..Len(front)
      BY <1>1, <1>2
    <2>3. \A n \in 0..Len(front) : Sum(front)[n] \in Nat /\ Sum(bytes)[0 + n] = Sum(bytes)[0] + Sum(front)[n]
      BY <1>2, <2>1, 0 \in Nat, Stretch
    <2>4. QED
      BY <2>2, <2>3
  <1>5. /\ Sum(rest)[Len(rest)] \in Nat
        /\ Sum(bytes)[c + Len(rest)] = Sum(bytes)[c] + Sum(rest)[Len(rest)]
    <2>1. c + Len(rest) <= Len(bytes)
      BY <1>1, <1>3
    <2>3. \A i \in 1..Len(rest) : rest[i] = bytes[c + i]
      BY <1>3
    <2>2. Len(rest) \in 0..Len(rest)
      BY <1>1, <1>3
    <2>4. QED
      BY <1>1, <1>3, <2>1, <2>2, <2>3, Stretch
  <1>6. /\ Yields(front) = Sum(front)[c] /\ Yields(rest) = Sum(rest)[Len(rest)]
        /\ Yields(bytes) = Sum(bytes)[Len(bytes)] /\ Sum(bytes)[0] = 0
    BY <1>2, <1>3, Summing
  <1>7. c + Len(rest) = Len(bytes) /\ 0 + c = c
    BY <1>1, <1>3
  <1>8. Sum(bytes)[c] = Sum(front)[c]
    BY <1>4, <1>6, <1>7
  <1>9. QED
    BY <1>2, <1>3, <1>4, <1>5, <1>6, <1>7, <1>8 DEF front, rest

\* One byte more yields what that byte does.
LEMMA OneMore ==
  ASSUME NEW bytes \in Seq(Nat), NEW c \in 1..Len(bytes)
  PROVE  /\ Sum(bytes)[c - 1] \in Nat /\ Sum(bytes)[c] \in Nat
         /\ Sum(bytes)[c] = Sum(bytes)[c - 1] + bytes[c]
  <1>1. c \in 0..Len(bytes) /\ c - 1 \in 0..Len(bytes)
    OBVIOUS
  <1>2. Sum(bytes)[c] \in Nat /\ Sum(bytes)[c - 1] \in Nat
    BY <1>1, Cutting
  <1>3. QED
    BY <1>2, Summing

\* No bytes yield nothing.
LEMMA Nothing == Yields(<<>>) = 0 /\ <<>> \in Seq(Nat)
  <1>1. <<>> \in Seq(Nat) /\ Len(<<>>) = 0
    OBVIOUS
  <1>2. QED
    BY <1>1, Summing

\* A byte that yields makes its bytes yield.
LEMMA Something ==
  ASSUME NEW bytes \in Seq(Nat), NEW c \in 1..Len(bytes), bytes[c] > 0
  PROVE  Yields(bytes) > 0
  <1>1. Sum(bytes)[c] > 0 /\ Sum(bytes)[c] \in Nat
    <2>1. /\ Sum(bytes)[c - 1] \in Nat /\ Sum(bytes)[c] \in Nat
          /\ Sum(bytes)[c] = Sum(bytes)[c - 1] + bytes[c]
      BY OneMore
    <2>2. bytes[c] \in Nat
      OBVIOUS
    <2>3. QED
      BY <2>1, <2>2
  <1>2. c \in 0..Len(bytes)
    OBVIOUS
  <1>3. QED
    BY <1>1, <1>2, Cutting
-----------------------------------------------------------------------------
(* What inflate() and read() do with what is on its way. *)

\* The last byte, that of the suffix, yields nothing.
Ends(bytes) == bytes # <<>> => bytes[Len(bytes)] = 0

\* inflate() puts all it was given somewhere.  It leaves input unused only
\* when it holds something back, holds nothing back behind the end of a
\* message, and yields nothing only when there is nothing.
LEMMA Inflating ==
  ASSUME OutBuf \in Nat \ {0}, held \in Nat, NEW bytes \in Seq(Nat), Inflate(bytes)
  PROVE  /\ input' \in Seq(Nat) /\ Len(input') <= Len(bytes)
         /\ buf' \in 0..OutBuf /\ held' \in Nat
         /\ buf' + held' + Yields(input') = held + Yields(bytes)
         /\ input' # <<>> => held' > 0
         /\ buf' = 0 => held' = 0 /\ held + Yields(bytes) = 0
         /\ Ends(bytes) => Ends(input')
         /\ Ends(bytes) /\ bytes # <<>> /\ held' > 0 => input' # <<>>
  <1> DEFINE Upto(c) == Yields(SubSeq(bytes, 1, c))
             stops == {c \in 0..Len(bytes) : held + Upto(c) > OutBuf}
             c == Consumed(bytes)
             out == held + Upto(c)
  <1>1. Len(bytes) \in Nat
    OBVIOUS
  <1>2. IF stops = {} THEN c = Len(bytes) ELSE c \in stops /\ \A d \in stops : c <= d
    <2>1. CASE stops = {}
      BY <2>1 DEF Consumed
    <2>2. CASE stops # {}
      <3>1. stops \subseteq Nat
        BY <1>1
      <3> DEFINE IsLeast(x) == x \in stops /\ \A d \in stops : x <= d
      <3>2. \E x : IsLeast(x)
        <4> HIDE DEF stops
        <4>1. QED
          BY <2>2, <3>1, Least
      <3>3. c = CHOOSE x \in stops : \A d \in stops : x <= d
        BY <2>2 DEF Consumed
      <3> HIDE DEF stops, c
      <3>4. QED
        BY <2>2, <3>2, <3>3
    <2>3. QED
      BY <2>1, <2>2
  <1>3. c \in 0..Len(bytes)
    BY <1>1, <1>2
  <1>4. /\ input' = SubSeq(bytes, c + 1, Len(bytes))
        /\ buf' = IF out > OutBuf THEN OutBuf ELSE out
        /\ held' = out - buf'
    BY DEF Inflate
  <1>5. \A d \in 0..Len(bytes) : Upto(d) = Sum(bytes)[d] /\ Upto(d) \in Nat
    BY Cutting
  <1> HIDE DEF c
  <1>6. /\ input' \in Seq(Nat) /\ Len(input') = Len(bytes) - c
        /\ \A i \in 1..(Len(bytes) - c) : input'[i] = bytes[c + i]
        /\ Yields(input') \in Nat /\ Yields(bytes) \in Nat
        /\ Yields(bytes) = Upto(c) + Yields(input')
    BY <1>3, <1>4, Cutting
  <1>7. out \in Nat /\ Upto(c) \in Nat /\ out = held + Upto(c)
    BY <1>3, <1>5
  <1>8. stops = {} => out <= OutBuf /\ input' = <<>>
    <2>1. SUFFICES ASSUME stops = {} PROVE out <= OutBuf /\ input' = <<>>
      OBVIOUS
    <2>2. c = Len(bytes) /\ c \notin stops
      BY <1>2, <2>1
    <2>3. ~(out > OutBuf)
      BY <1>3, <2>2
    <2>4. Len(input') = 0
      BY <1>1, <1>6, <2>2
    <2> HIDE DEF out
    <2>5. QED
      BY <1>6, <1>7, <2>3, <2>4
  <1>9. stops # {} => out > OutBuf
    BY <1>2
  <1>10. Ends(bytes) => Ends(input')
    <2>1. SUFFICES ASSUME Ends(bytes), input' # <<>> PROVE input'[Len(input')] = 0
      BY DEF Ends
    <2>2. Len(bytes) - c \in 1..(Len(bytes) - c) /\ Len(bytes) # 0 /\ c + (Len(bytes) - c) = Len(bytes)
      BY <1>1, <1>3, <1>6, <2>1
    <2>3. QED
      BY <1>6, <2>1, <2>2 DEF Ends
  <1>11. Ends(bytes) /\ bytes # <<>> /\ stops # {} => input' # <<>>
    <2>1. SUFFICES ASSUME Ends(bytes), bytes # <<>>, stops # {}, input' = <<>> PROVE FALSE
      OBVIOUS
    <2>2. c = Len(bytes) /\ c \in 1..Len(bytes) /\ c - 1 \in 0..Len(bytes) /\ bytes[c] = 0
      <3>1. Len(input') = 0 /\ Len(bytes) # 0
        BY <2>1
      <3>2. c = Len(bytes)
        BY <1>1, <1>3, <1>6, <3>1
      <3>3. QED
        BY <1>1, <2>1, <3>1, <3>2 DEF Ends
    <2>3. Sum(bytes)[c] = Sum(bytes)[c - 1]
      <3>1. Sum(bytes)[c - 1] \in Nat /\ Sum(bytes)[c] = Sum(bytes)[c - 1] + bytes[c]
        BY <2>2, OneMore
      <3>2. QED
        BY <2>2, <3>1
    <2>4. Upto(c) = Upto(c - 1)
      BY <1>3, <1>5, <2>2, <2>3
    <2> HIDE DEF Upto
    <2>5. c - 1 \in stops
      BY <1>2, <2>1, <2>2, <2>4
    <2>6. c <= c - 1
      BY <1>2, <2>1, <2>5
    <2>7. QED
      BY <1>1, <2>2, <2>6
  <1> HIDE DEF out, stops, Upto
  <1>12. CASE stops = {}
    <2>1. buf' = out /\ held' = 0 /\ input' = <<>> /\ buf' \in 0..OutBuf
      BY <1>4, <1>7, <1>8, <1>12
    <2>2. Yields(input') = 0
      BY <2>1, Nothing
    <2>3. Len(input') <= Len(bytes)
      BY <1>1, <1>3, <1>6
    <2>4. QED
      BY <1>6, <1>7, <1>10, <2>1, <2>2, <2>3
  <1>13. CASE stops # {}
    <2>1. buf' = OutBuf /\ held' = out - OutBuf /\ held' > 0 /\ held' \in Nat /\ buf' \in 0..OutBuf
      BY <1>4, <1>7, <1>9, <1>13
    <2>2. Len(input') <= Len(bytes)
      BY <1>1, <1>3, <1>6
    <2>3. buf' + held' = out
      BY <1>7, <2>1
    <2>4. QED
      BY <1>6, <1>7, <1>10, <1>11, <1>13, <2>1, <2>2, <2>3
  <1>14. QED
    BY <1>12, <1>13

\* A stream that a message may still come from.
Flows(stream) == Ends(stream) /\ Sufficient(stream)

\* What is behind any point of such a stream is such a stream.
LEMMA Behind ==
  ASSUME InBuf \in Nat \ {0}, NEW stream \in Seq(Nat), Flows(stream), NEW n \in 0..Len(stream)
  PROVE  Flows(SubSeq(stream, n + 1, Len(stream)))
  <1> DEFINE rest == SubSeq(stream, n + 1, Len(stream))
  <1>1. /\ Len(stream) \in Nat /\ n \in Nat /\ n <= Len(stream)
        /\ rest \in Seq(Nat) /\ Len(rest) = Len(stream) - n
        /\ \A i \in 1..(Len(stream) - n) : rest[i] = stream[n + i]
    <2>1. Len(stream) \in Nat /\ n \in Nat /\ n <= Len(stream)
      OBVIOUS
    <2> HIDE DEF rest
    <2>2. /\ rest \in Seq(Nat) /\ Len(rest) = Len(stream) - n
          /\ \A i \in 1..(Len(stream) - n) : rest[i] = stream[n + i]
      BY Cutting, Zenon DEF rest
    <2>3. QED
      BY <2>1, <2>2
  <1> HIDE DEF rest
  <1>2. Ends(rest)
    <2>1. SUFFICES ASSUME rest # <<>> PROVE rest[Len(rest)] = 0
      BY DEF Ends
    <2>2. Len(rest) # 0
      BY <1>1, <2>1
    <2>3. Len(rest) \in 1..(Len(stream) - n) /\ n + Len(rest) = Len(stream) /\ Len(stream) # 0
      BY <1>1, <2>2
    <2>4. stream # <<>> /\ stream[Len(stream)] = 0
      BY <2>3 DEF Flows, Ends
    <2>5. rest[Len(rest)] = stream[n + Len(rest)]
      BY <1>1, <2>3
    <2>6. QED
      BY <2>3, <2>4, <2>5
  <1>3. ASSUME NEW i \in 1..(Len(rest) - InBuf)
        PROVE  \E j \in i..(i + InBuf - 1) : rest[j] > 0
    <2>1. n + i \in 1..(Len(stream) - InBuf)
      BY <1>1, <1>3
    <2>2. PICK k \in (n + i)..((n + i) + InBuf - 1) : stream[k] > 0
      BY <2>1 DEF Flows, Sufficient
    <2>3. k - n \in i..(i + InBuf - 1) /\ k - n \in 1..(Len(stream) - n) /\ n + (k - n) = k
      BY <1>1, <1>3, <2>2
    <2>4. rest[k - n] > 0
      BY <1>1, <2>2, <2>3
    <2>5. QED
      BY <2>3, <2>4
  <1>4. QED
    BY <1>2, <1>3 DEF Flows, Sufficient, rest

\* What is between the file and the parser: input that is left means that
\* inflate() holds characters back, what it holds back is not behind the last
\* byte, and _buf is empty only at the end of the message.
InHand == /\ Flows(unread)
          /\ input # <<>> => held > 0
          /\ held > 0 => input # <<>> \/ unread # <<>>
          /\ unread = <<>> => Ends(input)
          /\ buf = 0 => held = 0 /\ input = <<>> /\ unread = <<>>

BufferTypes == /\ unread \in Seq(Nat) /\ input \in Seq(Nat) /\ Len(input) <= InBuf
               /\ held \in Nat /\ buf \in 0..OutBuf

\* read() keeps that so, and loses nothing.
LEMMA Reading ==
  ASSUME held \in Nat,
         NEW stream \in Seq(Nat), Flows(stream),
         NEW bytes \in Seq(Nat), Len(bytes) <= InBuf,
         bytes # <<>> => held > 0,
         held > 0 => bytes # <<>> \/ stream # <<>>,
         stream = <<>> => Ends(bytes),
         bytes = <<>> /\ stream = <<>> => input = <<>>,
         Read(stream, bytes)
  PROVE  /\ InHand' /\ BufferTypes'
         /\ buf' + held' + Yields(input') + Yields(unread')
                = held + Yields(bytes) + Yields(stream)
  <1>1. InBuf \in Nat \ {0} /\ OutBuf \in Nat \ {0}
    BY StreamAssumption
  <1>2. \A s \in Seq(Nat) : Len(s) \in Nat /\ (s = <<>> <=> Len(s) = 0)
    OBVIOUS
  <1>3. \A s \in Seq(Nat) : Yields(s) \in Nat
    <2>1. TAKE s \in Seq(Nat)
    <2>2. 0 \in 0..Len(s)
      BY <1>2
    <2>3. QED
      BY <2>2, Cutting
  <1>4. CASE bytes # <<>>
    <2>1. Inflate(bytes) /\ unread' = stream
      BY <1>4 DEF Read
    <2>2. /\ input' \in Seq(Nat) /\ Len(input') <= Len(bytes)
          /\ buf' \in 0..OutBuf /\ held' \in Nat
          /\ buf' + held' + Yields(input') = held + Yields(bytes)
          /\ input' # <<>> => held' > 0
          /\ buf' = 0 => held' = 0 /\ held + Yields(bytes) = 0
          /\ Ends(bytes) => Ends(input')
          /\ Ends(bytes) /\ bytes # <<>> /\ held' > 0 => input' # <<>>
      BY <1>1, <2>1, Inflating
    <2>3. buf' # 0
      BY <1>3, <1>4, <2>2
    <2>4. InHand'
      BY <1>4, <2>1, <2>2, <2>3 DEF InHand
    <2>5. BufferTypes'
      BY <1>1, <1>2, <2>1, <2>2 DEF BufferTypes
    <2>6. buf' + held' + Yields(input') + Yields(unread')
              = held + Yields(bytes) + Yields(stream)
      BY <2>1, <2>2
    <2>7. QED
      BY <2>4, <2>5, <2>6
  <1>5. CASE bytes = <<>> /\ stream = <<>>
    <2>1. unread' = <<>> /\ buf' = 0 /\ input' = <<>> /\ held' = 0 /\ held = 0
      <3>1. Len(stream) = 0
        BY <1>5
      <3>2. unread' = SubSeq(stream, 1, 0)
        BY <1>1, <1>5, <3>1 DEF Read
      <3>3. unread' = <<>>
        BY <1>5, <3>2
      <3>4. QED
        BY <1>1, <1>5, <3>1, <3>3 DEF Read
    <2>2. Flows(unread)'
      BY <1>5, <2>1 DEF Flows
    <2>3. QED
      BY <1>1, <1>5, <2>1, <2>2, Nothing DEF InHand, BufferTypes, Ends
  <1>6. CASE bytes = <<>> /\ stream # <<>>
    <2> DEFINE n == IF Len(stream) < InBuf THEN Len(stream) ELSE InBuf
               chunk == SubSeq(stream, 1, n)
    <2>1. n \in 0..Len(stream) /\ n \in Nat \ {0} /\ n <= InBuf
      BY <1>1, <1>2, <1>6
    <2>2. unread' = SubSeq(stream, n + 1, Len(stream)) /\ Inflate(chunk)
      BY <1>6, <2>1 DEF Read
    <2>3. n < Len(stream) => n = InBuf
      OBVIOUS
    <2> HIDE DEF n
    <2>4. /\ chunk \in Seq(Nat) /\ Len(chunk) = n /\ \A i \in 1..n : chunk[i] = stream[i]
          /\ unread' \in Seq(Nat) /\ Len(unread') = Len(stream) - n
          /\ Yields(stream) = Yields(chunk) + Yields(unread')
      BY <2>1, <2>2, Cutting
    <2>5. Flows(unread)'
      BY <1>1, <2>1, <2>2, Behind
    <2> HIDE DEF chunk
    <2>6. /\ input' \in Seq(Nat) /\ Len(input') <= Len(chunk)
          /\ buf' \in 0..OutBuf /\ held' \in Nat
          /\ buf' + held' + Yields(input') = held + Yields(chunk)
          /\ input' # <<>> => held' > 0
          /\ buf' = 0 => held' = 0 /\ held + Yields(chunk) = 0
          /\ Ends(chunk) => Ends(input')
          /\ Ends(chunk) /\ chunk # <<>> /\ held' > 0 => input' # <<>>
      BY <1>1, <2>2, <2>4, Inflating
    <2>7. unread' = <<>> => n = Len(stream) /\ Ends(chunk) /\ chunk # <<>>
      <3>1. SUFFICES ASSUME unread' = <<>> PROVE n = Len(stream) /\ Ends(chunk) /\ chunk # <<>>
        OBVIOUS
      <3>2. n = Len(stream)
        BY <1>2, <2>1, <2>4, <3>1
      <3>3. chunk[n] = stream[n] /\ stream[Len(stream)] = 0
        BY <1>6, <2>1, <2>4 DEF Flows, Ends
      <3>4. QED
        BY <1>2, <2>1, <2>4, <3>2, <3>3 DEF Ends
    <2>8. buf' = 0 => unread' = <<>>
      <3>1. SUFFICES ASSUME buf' = 0, unread' # <<>> PROVE FALSE
        OBVIOUS
      <3>2. Yields(chunk) = 0
        BY <1>3, <2>4, <2>6, <3>1
      <3>3. n = InBuf /\ 1 \in 1..(Len(stream) - InBuf)
        BY <1>1, <1>2, <2>1, <2>3, <2>4, <3>1
      <3>4. PICK j \in 1..(1 + InBuf - 1) : stream[j] > 0
        BY <3>3 DEF Flows, Sufficient
      <3>5. j \in 1..Len(chunk) /\ chunk[j] > 0
        BY <1>1, <2>4, <3>3, <3>4
      <3>6. Yields(chunk) > 0
        BY <2>4, <3>5, Something
      <3>7. QED
        BY <3>2, <3>6
    <2>9. InHand'
      BY <2>5, <2>6, <2>7, <2>8 DEF InHand
    <2>10. BufferTypes'
      BY <1>1, <1>2, <2>1, <2>4, <2>6 DEF BufferTypes
    <2>11. Yields(bytes) = 0
      BY <1>6, Nothing
    <2>12. buf' + held' + Yields(input') + Yields(unread')
               = held + Yields(bytes) + Yields(stream)
      <3>1. {held, buf', held', Yields(input'), Yields(unread'), Yields(chunk)} \subseteq Nat
        BY <1>3, <2>4, <2>6
      <3>2. Yields(stream) = Yields(chunk) + Yields(unread')
        BY <2>4
      <3>3. buf' + held' + Yields(input') = held + Yields(chunk)
        BY <2>6
      <3>4. QED
        BY <2>11, <3>1, <3>2, <3>3
    <2>13. QED
      BY <2>9, <2>10, <2>12
  <1>7. QED
    BY <1>4, <1>5, <1>6
-----------------------------------------------------------------------------
(* The invariant of the stream. *)

\* The cache file, where it counts, and what is to come make the message.
Collected == (IF isOpen THEN cache ELSE <<>>) \o coming

CollectShape == /\ coming # <<>> => Flows(Collected) /\ whole = Yields(Collected)
                /\ coming = <<>> => ~isOpen

\* What of the message in hand is not taken yet is all there.
HandShape == phase # "idle" =>
    /\ InHand
    /\ due = buf + held + Yields(input) + Yields(unread)

StreamInv == StreamTypeOK /\ CollectShape /\ HandShape /\ StreamSatisfied

LEMMA InitStream == ASSUME StreamInit PROVE StreamInv
  <1>1. <<>> \in Seq(Nat) /\ Len(<<>>) = 0
    OBVIOUS
  <1>2. StreamTypeOK
    <2>1. {coming, cache, unread, input} \subseteq Seq(Nat) /\ isOpen \in BOOLEAN
      BY <1>1 DEF StreamInit
    <2>2. QED
      BY <1>1, <2>1, StreamAssumption DEF StreamInit, StreamTypeOK
  <1>3. CollectShape /\ HandShape /\ StreamSatisfied
    BY DEF StreamInit, CollectShape, HandShape, StreamSatisfied
  <1>4. QED
    BY <1>2, <1>3 DEF StreamInv

\* A step keeps the parts that speak of what it leaves alone.
LEMMA Kept ==
  ASSUME StreamInv
  PROVE  /\ UNCHANGED <<coming, isOpen, cache, whole>> => CollectShape'
         /\ UNCHANGED <<phase, due>> /\ UNCHANGED inflateVars => (HandShape /\ StreamSatisfied)'
  BY DEF StreamInv, CollectShape, Collected, HandShape, InHand, StreamSatisfied, inflateVars

LEMMA StepSend == ASSUME StreamInv, Send PROVE StreamInv'
  <1>1. coming' \in Messages /\ coming = <<>> /\ ~isOpen /\ isOpen' = isOpen /\ whole' = Yields(coming')
    BY DEF Send, StreamInv, CollectShape
  <1>2. coming' \in Seq(Nat) /\ coming' # <<>> /\ Flows(coming')
    BY <1>1, StreamAssumption DEF Flows, Ends
  <1>3. Collected' = coming'
    BY <1>1, <1>2 DEF Collected
  <1>4. CollectShape'
    BY <1>1, <1>2, <1>3 DEF CollectShape
  <1>5. whole' \in Nat
    <2>1. 0 \in 0..Len(coming')
      BY <1>2
    <2>2. QED
      BY <1>1, <1>2, <2>1, Cutting
  <1>6. StreamTypeOK'
    BY <1>2, <1>5, StreamAssumption DEF Send, inflateVars, StreamTypeOK, StreamInv
  <1>7. (HandShape /\ StreamSatisfied)'
    BY Kept DEF Send
  <1>8. QED
    BY <1>4, <1>6, <1>7 DEF StreamInv

LEMMA StepPiece == ASSUME StreamInv, Piece PROVE StreamInv'
  <1> DEFINE file == IF isOpen THEN cache ELSE <<>>
  <1>1. PICK n \in 1..(Len(coming) - 1) : /\ cache' = Collect(n)
                                          /\ coming' = SubSeq(coming, n + 1, Len(coming))
    BY DEF Piece
  <1>2. /\ isOpen' = TRUE /\ phase' = phase
        /\ UNCHANGED <<sent, whole, due>> /\ UNCHANGED inflateVars
    BY DEF Piece
  <1>3. coming \in Seq(Nat) /\ cache \in Seq(Nat) /\ <<>> \in Seq(Nat) /\ file \in Seq(Nat)
    BY DEF StreamInv, StreamTypeOK
  <1>4. Len(coming) \in Nat /\ n \in 0..Len(coming) /\ n < Len(coming)
    BY <1>1, <1>3
  <1> DEFINE front == SubSeq(coming, 1, n)
  <1>5. /\ front \in Seq(Nat) /\ Len(front) = n /\ \A i \in 1..n : front[i] = coming[i]
        /\ coming' \in Seq(Nat) /\ Len(coming') = Len(coming) - n
        /\ \A i \in 1..(Len(coming) - n) : coming'[i] = coming[n + i]
    BY <1>1, <1>3, <1>4, Cutting
  <1>6. cache' = file \o front
    BY <1>1 DEF Collect
  <1> HIDE DEF file, front
  <1>7. cache' \in Seq(Nat)
    BY <1>3, <1>5, <1>6
  <1>8. coming # <<>> /\ coming' # <<>>
    BY <1>3, <1>4, <1>5
  <1>9. Collected' = Collected
    <2>1. Collected = file \o coming /\ Collected' = (file \o front) \o coming'
      BY <1>2, <1>6 DEF Collected, file
    <2>2. front \o coming' = coming
      <3>1. Len(front \o coming') = Len(coming) /\ front \o coming' \in Seq(Nat)
        <4>1. Len(front \o coming') = Len(front) + Len(coming') /\ front \o coming' \in Seq(Nat)
          BY <1>5, ConcatProperties
        <4>2. QED
          BY <1>4, <1>5, <4>1
      <3>2. \A i \in 1..Len(coming) : (front \o coming')[i] = coming[i]
        <4>1. TAKE i \in 1..Len(coming)
        <4>2. CASE i <= n
          BY <1>3, <1>4, <1>5, <4>2
        <4>3. CASE i > n
          <5>1. i - n \in 1..(Len(coming) - n) /\ n + (i - n) = i
            BY <1>3, <1>4, <4>3
          <5>2. (front \o coming')[i] = coming'[i - n]
            <6>1. i \in 1..(Len(front) + Len(coming'))
              BY <1>4, <1>5
            <6>2. (front \o coming')[i] = IF i <= Len(front) THEN front[i] ELSE coming'[i - Len(front)]
              BY <1>5, <6>1, ConcatProperties
            <6>3. QED
              BY <1>4, <1>5, <4>3, <6>2
          <5>3. coming'[i - n] = coming[n + (i - n)]
            BY <1>5, <5>1
          <5>4. QED
            BY <5>1, <5>2, <5>3
        <4>4. i <= n \/ i > n
          BY <1>4
        <4>5. QED
          BY <4>2, <4>3, <4>4
      <3> DEFINE joined == front \o coming'
      <3> HIDE DEF joined
      <3>3. joined \in Seq(Nat) /\ Len(joined) = Len(coming) /\ \A i \in 1..Len(joined) : joined[i] = coming[i]
        BY <3>1, <3>2 DEF joined
      <3>4. joined = coming
        BY <1>3, <3>3, SeqEqual
      <3>5. QED
        BY <3>4 DEF joined
    <2>3. (file \o front) \o coming' = file \o (front \o coming')
      <3> DEFINE rest == coming'
      <3>1. file \in Seq(Nat) /\ front \in Seq(Nat) /\ rest \in Seq(Nat)
        BY <1>3, <1>5
      <3> HIDE DEF file, front, rest
      <3>2. (file \o front) \o rest = file \o (front \o rest)
        BY <3>1, ConcatAssociative
      <3>3. QED
        BY <3>2 DEF rest
    <2>4. QED
      BY <2>1, <2>2, <2>3
  <1>10. CollectShape'
    BY <1>2, <1>8, <1>9 DEF CollectShape, StreamInv, Flows
  <1>11. StreamTypeOK'
    BY <1>2, <1>5, <1>7 DEF StreamTypeOK, inflateVars, StreamInv
  <1>12. (HandShape /\ StreamSatisfied)'
    BY <1>2, Kept
  <1>13. QED
    BY <1>10, <1>11, <1>12 DEF StreamInv

LEMMA StepLastPiece == ASSUME StreamInv, LastPiece PROVE StreamInv'
  <1> DEFINE message == Collect(Len(coming))
  <1>1. /\ phase = "idle" /\ coming # <<>> /\ cache' = message /\ Read(message, <<>>)
        /\ coming' = <<>> /\ due' = whole /\ isOpen' = FALSE /\ phase' = "parse"
        /\ UNCHANGED <<sent, whole>>
    BY DEF LastPiece
  <1>2. coming \in Seq(Nat) /\ cache \in Seq(Nat) /\ <<>> \in Seq(Nat) /\ Len(<<>>) = 0
    BY DEF StreamInv, StreamTypeOK
  <1>3. message = Collected
    <2>1. SubSeq(coming, 1, Len(coming)) = coming
      BY <1>2
    <2>2. QED
      BY <2>1 DEF Collect, Collected
  <1> HIDE DEF message
  <1>4. message \in Seq(Nat) /\ message # <<>>
    <2>1. Collected \in Seq(Nat) /\ Len(Collected) >= Len(coming) /\ Len(coming) > 0
      BY <1>1, <1>2 DEF Collected
    <2>2. QED
      BY <1>3, <2>1
  <1>5. Flows(message) /\ whole = Yields(message)
    BY <1>1, <1>3 DEF StreamInv, CollectShape
  <1>6. held = 0 /\ InBuf \in Nat
    BY <1>1, StreamAssumption DEF StreamInv, StreamSatisfied
  <1>7. /\ InHand' /\ BufferTypes'
        /\ buf' + held' + Yields(input') + Yields(unread')
               = held + Yields(<<>>) + Yields(message)
    <2>1. Len(<<>>) <= InBuf /\ held \in Nat /\ ~(held > 0)
      BY <1>2, <1>6
    <2>2. message # <<>> /\ Flows(message) /\ Read(message, <<>>)
      BY <1>1, <1>4, <1>5
    <2>3. QED
      BY <1>2, <1>4, <2>1, <2>2, Reading
  <1>8. whole \in Nat /\ sent \in 0..MaxMessages
    BY DEF StreamInv, StreamTypeOK
  <1>9. HandShape'
    BY <1>1, <1>5, <1>6, <1>7, <1>8, Nothing DEF HandShape
  <1>10. StreamTypeOK'
    BY <1>1, <1>2, <1>4, <1>7, <1>8 DEF StreamTypeOK, BufferTypes
  <1>11. CollectShape' /\ StreamSatisfied'
    BY <1>1 DEF CollectShape, StreamSatisfied
  <1>12. QED
    BY <1>9, <1>10, <1>11 DEF StreamInv

\* Take() makes the message in hand one character shorter.
LEMMA Taking ==
  ASSUME StreamInv, phase # "idle", TakeOne
  PROVE  /\ InHand' /\ BufferTypes' /\ due' \in Nat
         /\ due' = buf' + held' + Yields(input') + Yields(unread')
  <1>1. BufferTypes /\ InHand /\ due = buf + held + Yields(input) + Yields(unread)
    BY DEF StreamInv, HandShape, BufferTypes, StreamTypeOK
  <1>2. \A s \in Seq(Nat) : Yields(s) \in Nat
    <2>1. TAKE s \in Seq(Nat)
    <2>2. 0 \in 0..Len(s)
      OBVIOUS
    <2>3. QED
      BY <2>2, Cutting
  <1>3. /\ Yields(input) \in Nat /\ Yields(unread) \in Nat
        /\ OutBuf \in Nat /\ held \in Nat /\ buf \in Nat
    BY <1>1, <1>2, StreamAssumption DEF BufferTypes
  <1>4. buf > 0 /\ due' = due - 1
    BY DEF TakeOne
  <1>5. CASE buf > 1
    <2>1. buf' = buf - 1 /\ UNCHANGED <<unread, input, held>>
      BY <1>5 DEF TakeOne
    <2>2. InHand' /\ BufferTypes'
      BY <1>1, <1>3, <1>5, <2>1 DEF InHand, BufferTypes
    <2>3. QED
      BY <1>1, <1>3, <1>4, <1>5, <2>1, <2>2
  <1>6. CASE ~(buf > 1)
    <2>1. buf = 1 /\ Read(unread, input)
      BY <1>3, <1>4, <1>6 DEF TakeOne
    <2>2. /\ InHand' /\ BufferTypes'
          /\ buf' + held' + Yields(input') + Yields(unread')
                 = held + Yields(input) + Yields(unread)
      BY <1>1, <2>1, Reading DEF InHand, BufferTypes
    <2>3. due' = held + Yields(input) + Yields(unread)
      BY <1>1, <1>3, <1>4, <2>1
    <2>4. QED
      BY <1>3, <2>2, <2>3
  <1>7. QED
    BY <1>5, <1>6

LEMMA StepStream ==
  ASSUME StreamInv, [StreamNext]_streamVars
  PROVE  StreamInv'
  <1>1. CASE Send
    BY <1>1, StepSend
  <1>2. CASE Piece
    BY <1>2, StepPiece
  <1>3. CASE LastPiece
    BY <1>3, StepLastPiece
  <1>4. ASSUME phase # "idle", phase' = phase, TakeOne,
               UNCHANGED <<coming, sent, isOpen, cache, whole>>
        PROVE  StreamInv'
    <2>1. /\ InHand' /\ BufferTypes' /\ due' \in Nat
          /\ due' = buf' + held' + Yields(input') + Yields(unread')
      BY <1>4, Taking
    <2>2. CollectShape'
      BY <1>4, Kept
    <2>3. StreamTypeOK'
      BY <1>4, <2>1 DEF StreamInv, StreamTypeOK, BufferTypes
    <2>4. QED
      BY <1>4, <2>1, <2>2, <2>3 DEF StreamInv, HandShape, StreamSatisfied
  <1>5. CASE ParserTakes
    BY <1>4, <1>5 DEF ParserTakes
  <1>6. CASE ParserStops
    BY <1>6 DEF ParserStops, inflateVars, StreamInv, StreamTypeOK, CollectShape, Collected,
                HandShape, InHand, StreamSatisfied
  <1>7. CASE Drain
    <2>1. CASE buf > 0
      BY <1>4, <1>7, <2>1 DEF Drain
    <2>2. CASE ~(buf > 0)
      <3>1. buf = 0
        BY <2>2 DEF StreamInv, StreamTypeOK
      <3>2. QED
        BY <1>7, <2>2, <3>1
        DEF Drain, inflateVars, StreamInv, StreamTypeOK, CollectShape, Collected,
            HandShape, InHand, StreamSatisfied
    <2>3. QED
      BY <2>1, <2>2
  <1>8. CASE Reconnect
    <2>1. <<>> \in Seq(Nat) /\ Len(<<>>) = 0
      OBVIOUS
    <2>2. StreamTypeOK'
      <3>1. {coming', cache', unread', input'} \subseteq Seq(Nat) /\ isOpen' \in BOOLEAN
        BY <1>8, <2>1 DEF Reconnect, StreamInv, StreamTypeOK
      <3>2. QED
        BY <1>8, <2>1, <3>1, StreamAssumption DEF Reconnect, StreamInv, StreamTypeOK
    <2>3. (CollectShape /\ HandShape /\ StreamSatisfied)'
      BY <1>8 DEF Reconnect, CollectShape, HandShape, StreamSatisfied
    <2>4. QED
      BY <2>2, <2>3 DEF StreamInv
  <1>9. CASE UNCHANGED streamVars
    BY <1>9 DEF streamVars, inflateVars, StreamInv, StreamTypeOK, CollectShape, Collected,
                HandShape, InHand, StreamSatisfied
  <1>10. QED
    BY <1>1, <1>2, <1>3, <1>5, <1>6, <1>7, <1>8, <1>9 DEF StreamNext

THEOREM StreamInductive == StreamSpec => []StreamInv
  <1>1. StreamInit => StreamInv
    BY InitStream
  <1>2. StreamInv /\ [StreamNext]_streamVars => StreamInv'
    BY StepStream
  <1>3. QED
    BY <1>1, <1>2, PTL DEF StreamSpec

\* The stream and its buffers are well typed, and no buffer is filled over
\* its size.
THEOREM StreamTyping == StreamSpec => []StreamTypeOK
  <1>1. StreamInv => StreamTypeOK
    BY DEF StreamInv
  <1>2. QED
    BY <1>1, StreamInductive, PTL

\* The parser gets every character of the message once and sees the end where
\* the message ends, however the message is cut into pieces and buffers.
THEOREM Whole == StreamSpec => []MessageWhole
  <1>1. StreamInv => MessageWhole
    BY Nothing DEF StreamInv, HandShape, InHand, MessageWhole
  <1>2. QED
    BY <1>1, StreamInductive, PTL

\* Between messages inflate() has had every byte: the next one continues its
\* stream.
THEOREM Satisfied == StreamSpec => []StreamSatisfied
  <1>1. StreamInv => StreamSatisfied
    BY DEF StreamInv
  <1>2. QED
    BY <1>1, StreamInductive, PTL
==============================================================================
