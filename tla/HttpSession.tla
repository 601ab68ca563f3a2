----------------------------- MODULE HttpSession -----------------------------
(***************************************************************************)
(* DiscordSession::request(), and what its two kinds of callers do with    *)
(* the connection it returns: a REST call drops it, DiscordClient::connect *)
(* hands it to a new websocket if the server switched protocols.           *)
(*                                                                         *)
(* A reply is a sequence of bytes; read() returns any non-empty piece of   *)
(* what has come, up to a buffer, then the end: an error once the server   *)
(* has closed the TLS session.  http_parser and mbedtls are external.      *)
(***************************************************************************)
EXTENDS Integers, Sequences, FiniteSets, SequencesExt

CONSTANTS Data,         \* the bytes of values and bodies
          Replies,      \* replies: [kind, value, chunks], the value that of the last header
          Addresses,    \* addresses that getaddrinfo() returns
          MaxRequests,  \* bound: requests
          BufSize       \* bytes of buf

\* A body may be any bytes: it comes compressed.  "size" stands for the line
\* before a chunk, which the parser tells from the bytes of a chunk by counting.
ASSUME HttpAssumption ==
    /\ Addresses \in Nat /\ MaxRequests \in Nat /\ BufSize \in Nat \ {0}
    /\ "size" \notin Data
    /\ \A r \in Replies : /\ r.kind \in {"length", "chunked", "upgrade"}
                          /\ r.value \in Data /\ r.chunks \in Seq(Seq(Data))

Terminator == <<"0", "cr", "lf", "cr", "lf">>   \* HTTP_CHUNK_TERMINATION
HeaderEnd == <<"cr", "lf", "cr", "lf">>
NewLine == <<"cr", "lf">>

VARIABLES
    stage,       \* where request() or its caller is
    caller,      \* "rest" or "websocket"
    requests,
    addresses,   \* addresses not tried yet
    tcpSockets,  \* open sockets (the kernel)
    tcpFd,       \* fd of request()
    net,         \* _net.fd of the MBedTLSWrapper, -1 if there is no wrapper
    websocket,   \* _net.fd of the websocket's wrapper, -1 for none
    reply, wire, \* the reply, and what of it has not been read (external)
    last,        \* last_chars
    buffer,      \* response_buf
    headersDone, \* headers_done
    text,        \* response->text
    mixed,       \* history: a read had the end of the terminator behind other bytes
    fooled       \* history: last_chars held the terminator ahead of it

tcpVars == <<tcpSockets, tcpFd, net, websocket>>
replyVars == <<reply, wire, last, buffer, headersDone, text, mixed, fooled>>
httpVars == <<stage, caller, requests, addresses, tcpVars, replyVars>>

Chunk(data) == <<"size">> \o NewLine \o data \o NewLine

\* What the server sends.
Bytes(r) == <<r.value>> \o HeaderEnd \o
            (CASE r.kind = "length" -> FlattenSeq(r.chunks)
               [] r.kind = "chunked" -> FlattenSeq([i \in 1..Len(r.chunks) |-> Chunk(r.chunks[i])])
                                        \o Terminator
               [] OTHER -> <<>>)

NoReply == [kind |-> "length", value |-> "v", chunks |-> <<>>]
Zeros == <<"nul", "nul", "nul", "nul", "nul">>

HttpInit == /\ stage = "idle" /\ caller = "rest" /\ requests = 0 /\ addresses = 0
            /\ tcpSockets = {} /\ tcpFd = -1 /\ net = -1 /\ websocket = -1
            /\ reply = NoReply /\ wire = <<>> /\ last = Zeros /\ buffer = <<>>
            /\ headersDone = FALSE /\ text = <<>>
            /\ mixed = FALSE /\ fooled = FALSE
-----------------------------------------------------------------------------
(* request(). *)

Goes(from, to) == stage = from /\ stage' = to

\* The wrapper is made before the name is resolved.
Request == /\ Goes("idle", "resolve")
           /\ requests < MaxRequests
           /\ requests' = requests + 1
           /\ caller' \in {"rest", "websocket"}
           /\ tcpFd' = -1
           /\ UNCHANGED <<addresses, tcpSockets, net, websocket, replyVars>>

\* An invalid URL, a wrapper that is not usable, or a name that does not resolve.
ResolveFails == Goes("resolve", "failed")
                /\ UNCHANGED <<caller, requests, addresses, tcpVars, replyVars>>

Resolves == /\ Goes("resolve", "connect")
            /\ addresses' = Addresses
            /\ UNCHANGED <<caller, requests, tcpVars, replyVars>>

\* socket() gives the least free number.
FreeFd == CHOOSE n \in 3..(4 + MaxRequests) : n \notin tcpSockets /\ \A k \in 3..(n - 1) : k \in tcpSockets

TriesNext == addresses > 0 /\ tcpFd = -1 /\ addresses' = addresses - 1

NoSocket == /\ stage = "connect" /\ TriesNext
            /\ UNCHANGED <<stage, caller, requests, tcpVars, replyVars>>

\* Mutant: a socket that does not connect is not closed.
ConnectFailsOpen == /\ stage = "connect" /\ TriesNext
                    /\ tcpSockets' = tcpSockets \cup {FreeFd}
                    /\ UNCHANGED <<stage, caller, requests, tcpFd, net, websocket, replyVars>>

\* The socket is closed again.
ConnectFails == /\ stage = "connect" /\ TriesNext
                /\ UNCHANGED <<stage, caller, requests, tcpVars, replyVars>>

Connects == /\ stage = "connect" /\ TriesNext
            /\ tcpSockets' = tcpSockets \cup {FreeFd} /\ tcpFd' = FreeFd
            /\ UNCHANGED <<stage, caller, requests, net, websocket, replyVars>>

NoneConnects == /\ Goes("connect", "failed") /\ addresses = 0 /\ tcpFd = -1
                /\ UNCHANGED <<caller, requests, addresses, tcpVars, replyVars>>

\* setFd() gives the socket to the wrapper.
Handshakes == /\ stage = "connect" /\ tcpFd # -1
              /\ net' = tcpFd
              /\ stage' \in {"failed", "write"}
              /\ UNCHANGED <<caller, requests, addresses, tcpSockets, tcpFd, websocket, replyVars>>

WriteFails == /\ Goes("write", "failed")
              /\ UNCHANGED <<caller, requests, addresses, tcpVars, replyVars>>

\* The request is written, and a reply is on its way.
Writes == /\ Goes("write", "read")
          /\ \E r \in Replies : reply' = r /\ wire' = Bytes(r)
          /\ last' = Zeros /\ buffer' = <<>> /\ headersDone' = FALSE
          /\ text' = <<>> /\ mixed' = FALSE /\ fooled' = FALSE
          /\ UNCHANGED <<caller, requests, addresses, tcpVars>>
-----------------------------------------------------------------------------
(* The read loop. *)

\* Mutant: a shorter read overwrites the beginning.
LastCharsFront(piece) ==
    LET c == IF Len(piece) < Len(Terminator) THEN Len(piece) ELSE Len(Terminator)
    IN SubSeq(piece, Len(piece) - c + 1, Len(piece)) \o SubSeq(last, c + 1, Len(Terminator))

\* The memcpy into last_chars: a read that is shorter overwrites the end and
\* leaves the rest where it is.
LastChars(piece) ==
    LET c == IF Len(piece) < Len(Terminator) THEN Len(piece) ELSE Len(Terminator)
    IN SubSeq(last, 1, Len(Terminator) - c) \o SubSeq(piece, Len(piece) - c + 1, Len(piece))

Terminated(piece) == LastChars(piece) = Terminator

HasHeader(bytes) == \E i \in 1..(Len(bytes) - 3) : SubSeq(bytes, i, i + 3) = HeaderEnd

\* Mutant: the loop goes on, without the piece.
AfterReadOn(piece, upgrade) == IF upgrade THEN "returned" ELSE "read"

\* Both ways out of the loop.
AfterRead(piece, upgrade) ==
    IF Terminated(piece) THEN "parse" ELSE IF upgrade THEN "returned" ELSE "read"

Mixes(n) == reply.kind = "chunked" /\ n = Len(wire) /\ n > Len(Terminator)

Fools(piece) == LET left == Len(wire) - Len(piece) IN
                LastChars(piece) = Terminator /\ (reply.kind # "chunked" \/ left >= Len(Terminator))

\* The piece with the terminator ends the loop, and is not kept; so does the
\* header of a switch of protocols, without a look at the body.
ReadPiece ==
    /\ stage = "read"
    /\ \E n \in 1..(IF Len(wire) < BufSize THEN Len(wire) ELSE BufSize) :
        LET piece == SubSeq(wire, 1, n)
            all == buffer \o piece
            upgrade == ~headersDone /\ HasHeader(all) /\ reply.kind = "upgrade"
        IN /\ wire' = SubSeq(wire, n + 1, Len(wire))
           /\ last' = LastChars(piece)
           /\ mixed' = (mixed \/ Mixes(n)) /\ fooled' = (fooled \/ Fools(piece))
           /\ IF Terminated(piece) THEN UNCHANGED <<buffer, headersDone>>
              ELSE buffer' = all /\ headersDone' = (headersDone \/ HasHeader(all))
           /\ stage' = AfterRead(piece, upgrade)
    /\ UNCHANGED <<caller, requests, addresses, tcpVars, reply, text>>

\* Nothing more comes: read() fails.  (A peer that does not close the TLS
\* session makes it return 0, and the loop spins.)
ReadEnds == /\ Goes("read", "parse") /\ wire = <<>>
            /\ UNCHANGED <<caller, requests, addresses, tcpVars, replyVars>>

\* What comes after the header.
AfterHeader(bytes) ==
    LET ends == {i \in 1..Len(bytes) : i > 4 /\ SubSeq(bytes, i - 3, i) = HeaderEnd}
    IN IF ends = {} THEN <<>>
       ELSE SubSeq(bytes, 1 + CHOOSE i \in ends : \A j \in ends : i <= j, Len(bytes))

\* on_body is called with each chunk, as far as it is there, and overwrites
\* the text of the one before.
LastChunk(bytes) ==
    LET sizes == {i \in 1..Len(bytes) : bytes[i] = "size"}
        chunk == SubSeq(bytes, 3 + CHOOSE i \in sizes : \A j \in sizes : i >= j, Len(bytes))
        of == reply.chunks[Cardinality(sizes)]
    IN IF sizes = {} THEN <<>>
       ELSE SubSeq(chunk, 1, IF Len(chunk) < Len(of) THEN Len(chunk) ELSE Len(of))

Body(bytes) == IF reply.kind = "length" THEN AfterHeader(bytes) ELSE LastChunk(AfterHeader(bytes))

Parses == /\ Goes("parse", "returned")
          /\ text' = Body(buffer)
          /\ UNCHANGED <<caller, requests, addresses, tcpVars, reply, wire, last, buffer,
                         headersDone, mixed, fooled>>
-----------------------------------------------------------------------------
(* The callers. *)

\* ~MBedTLSWrapper
Closed(n) == tcpSockets \ {n}

\* A REST call, or a websocket that the server refuses: the wrapper goes out
\* of scope with its socket.
Drops == /\ stage \in {"failed", "returned"}
         /\ stage' = "idle"
         /\ tcpSockets' = Closed(net) /\ net' = -1
         /\ UNCHANGED <<caller, requests, addresses, tcpFd, websocket, replyVars>>

\* The new websocket replaces the old one, which closes its socket.
Switches == /\ Goes("returned", "idle")
            /\ caller = "websocket" /\ headersDone /\ reply.kind = "upgrade"
            /\ tcpSockets' = Closed(websocket)
            /\ websocket' = net /\ net' = -1
            /\ UNCHANGED <<caller, requests, addresses, tcpFd, replyVars>>

Disconnects == /\ stage = "idle" /\ websocket # -1
               /\ tcpSockets' = Closed(websocket) /\ websocket' = -1
               /\ UNCHANGED <<stage, caller, requests, addresses, tcpFd, net, replyVars>>

HttpNext == \/ Request \/ ResolveFails \/ Resolves \/ NoSocket \/ ConnectFails \/ Connects
            \/ NoneConnects \/ Handshakes \/ WriteFails \/ Writes
            \/ ReadPiece \/ ReadEnds \/ Parses \/ Drops \/ Switches \/ Disconnects

HttpSpec == HttpInit /\ [][HttpNext]_httpVars
-----------------------------------------------------------------------------
\* Between requests the only open socket is the websocket's, on whichever way
\* the requests before ended and whatever became of the websockets before.
SocketsAccounted == stage = "idle" => tcpSockets = {websocket} \ {-1}

\* The body in one piece, by its length or as one chunk.
OnePiece(r) == r.kind # "upgrade" /\ Len(r.chunks) = 1

\* The last header does not end in 0, and the body has no carriage return.
Plain(r) == r.value # "0" /\ \A i \in DOMAIN r.chunks[1] : r.chunks[1][i] # "cr"

\* Such a body comes out whole however the reply is cut into reads, with two
\* exceptions: the read that completes the terminator is dropped with what it has
\* before it, and if the reply is not plain, what looks like the terminator ahead
\* of it ends the loop.  In a plain one, the bytes that longer reads leave over in
\* last_chars make no terminator with those of shorter ones.
BodyWhole == stage = "returned" /\ OnePiece(reply) /\ ~mixed /\ (Plain(reply) \/ ~fooled)
             => text = reply.chunks[1]

\* With the two exceptions too, only the end is lost: request() returns no
\* body with a hole in it, and nothing of the header or the terminator.
BodyFront == stage = "returned" /\ OnePiece(reply) => IsPrefix(text, reply.chunks[1])
==============================================================================
