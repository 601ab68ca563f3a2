--------------------------- MODULE WebsocketStream ---------------------------
(***************************************************************************)
(* The gateway's compressed messages: on_msg_recv_callback collects the    *)
(* pieces in the cache file until one ends with the zlib suffix, and hands *)
(* the file, inflated as it is read, to the parser.  One zlib stream goes  *)
(* through the whole connection, so inflate() must be given every byte of  *)
(* every message, whether or not the parser wants to see what is in it.    *)
(*                                                                         *)
(* A compressed message is the sequence of what its bytes yield, a number  *)
(* of characters each; its last entry is the suffix, which yields nothing. *)
(* External: inflate() consumes input until it has output it cannot write, *)
(* the data is intact, pieces are not cut inside the suffix, and the       *)
(* parser stops wherever its document ends.                                *)
(***************************************************************************)
EXTENDS Integers, Sequences

CONSTANTS InBuf,        \* bytes of ZlibWrapper::_in_buf
          OutBuf,       \* characters of WebsocketZlibStream::_buf
          Messages,     \* the messages the gateway may send
          MaxMessages   \* bound: messages sent

\* A full input buffer yields something unless the message ends in it, as a
\* deflate block's header is shorter than the buffer.
Sufficient(m) == \A i \in 1..(Len(m) - InBuf) : \E j \in i..(i + InBuf - 1) : m[j] > 0

ASSUME StreamAssumption == /\ InBuf \in Nat \ {0} /\ OutBuf \in Nat \ {0} /\ MaxMessages \in Nat
                           /\ \A m \in Messages : /\ m \in Seq(Nat) /\ m # <<>> /\ m[Len(m)] = 0
                                                  /\ Sufficient(m)

VARIABLES
    coming,    \* what is still to come of the message being sent (external)
    sent,      \* messages sent
    isOpen,    \* _zlib_buf.is_open()
    cache,     \* the cache file
    unread,    \* what the input stream has not given out yet
    input,     \* avail_in bytes of _in_buf
    held,      \* characters inflate() has no room for (external)
    buf,       \* characters of _buf that are not taken
    phase,     \* "idle", "parse": in processStream(), "drain": in the loop behind it
    whole,     \* history: characters of the message being sent
    due        \* history: characters of the message in hand not taken yet

inflateVars == <<unread, input, held, buf>>
streamVars == <<coming, sent, isOpen, cache, inflateVars, phase, whole, due>>

StreamInit == /\ coming = <<>> /\ sent = 0 /\ whole = 0
              /\ isOpen = FALSE /\ cache = <<>>
              /\ unread = <<>> /\ input = <<>> /\ held = 0 /\ buf = 0
              /\ phase = "idle" /\ due = 0

\* What bytes yield together.
Yields(bytes) == LET sum[n \in 0..Len(bytes)] == IF n = 0 THEN 0 ELSE sum[n - 1] + bytes[n]
                 IN sum[Len(bytes)]
-----------------------------------------------------------------------------
(* ZlibWrapper and WebsocketZlibStream. *)

\* The bytes inflate() consumes: up to the one that yields more than there is room for.
Consumed(bytes) ==
    LET stops == {c \in 0..Len(bytes) : held + Yields(SubSeq(bytes, 1, c)) > OutBuf}
    IN IF stops = {} THEN Len(bytes) ELSE CHOOSE c \in stops : \A d \in stops : c <= d

\* Mutant: inflate() is told more room than _buf has.
InflateUnbounded(bytes) ==
    /\ input' = <<>> /\ held' = 0
    /\ buf' = held + Yields(bytes)

\* inflate() into an empty _buf.
Inflate(bytes) ==
    LET c == Consumed(bytes)
        out == held + Yields(SubSeq(bytes, 1, c))
    IN /\ input' = SubSeq(bytes, c + 1, Len(bytes))
       /\ buf' = IF out > OutBuf THEN OutBuf ELSE out
       /\ held' = out - buf'

\* read() from the stream `stream`: the next bytes are fetched when the last
\* are used up, and there is nothing to read when there are none.
Read(stream, bytes) ==
    IF bytes # <<>>
    THEN Inflate(bytes) /\ unread' = stream
    ELSE LET n == IF Len(stream) < InBuf THEN Len(stream) ELSE InBuf IN
         /\ unread' = SubSeq(stream, n + 1, Len(stream))
         /\ IF n = 0 THEN buf' = 0 /\ UNCHANGED <<input, held>>
                     ELSE Inflate(SubSeq(stream, 1, n))

\* Take(): the last character of _buf fetches the next.
TakeOne ==
    /\ buf > 0
    /\ due' = due - 1
    /\ IF buf > 1 THEN buf' = buf - 1 /\ UNCHANGED <<unread, input, held>>
                  ELSE Read(unread, input)
-----------------------------------------------------------------------------
(* The gateway and on_msg_recv_callback. *)

Send == /\ coming = <<>> /\ sent < MaxMessages
        /\ sent' = sent + 1
        /\ coming' \in Messages /\ whole' = Yields(coming')
        /\ UNCHANGED <<isOpen, cache, inflateVars, phase, due>>

\* Mutant: the cache file of before is not removed.
CollectAppending(n) == cache \o SubSeq(coming, 1, n)

\* The cache file with the next piece; it is removed before it is opened.
Collect(n) == (IF isOpen THEN cache ELSE <<>>) \o SubSeq(coming, 1, n)

\* A piece without the suffix.
Piece == /\ phase = "idle"
         /\ \E n \in 1..(Len(coming) - 1) :
              /\ cache' = Collect(n)
              /\ coming' = SubSeq(coming, n + 1, Len(coming))
         /\ isOpen' = TRUE
         /\ UNCHANGED <<sent, inflateVars, phase, whole, due>>

\* The piece with the suffix: the file is closed, set_stream() drops the input
\* of before, and the constructor of WebsocketZlibStream reads at once.
LastPiece == /\ phase = "idle" /\ coming # <<>>
             /\ LET message == Collect(Len(coming)) IN
                  /\ cache' = message
                  /\ Read(message, <<>>)
             /\ coming' = <<>> /\ due' = whole
             /\ isOpen' = FALSE
             /\ phase' = "parse"
             /\ UNCHANGED <<sent, whole>>

ParserTakes == /\ phase = "parse"
               /\ TakeOne
               /\ UNCHANGED <<coming, sent, isOpen, cache, phase, whole>>

\* Mutant: the rest of the stream is not read.
ParserStopsAll == /\ phase = "parse"
                  /\ phase' = "idle"
                  /\ UNCHANGED <<coming, sent, isOpen, cache, inflateVars, whole, due>>

\* processStream() returns.
ParserStops == /\ phase = "parse"
               /\ phase' = "drain"
               /\ UNCHANGED <<coming, sent, isOpen, cache, inflateVars, whole, due>>

\* while (Take() != '\0').
Drain == /\ phase = "drain"
         /\ IF buf > 0 THEN TakeOne /\ UNCHANGED phase
                       ELSE phase' = "idle" /\ UNCHANGED <<inflateVars, due>>
         /\ UNCHANGED <<coming, sent, isOpen, cache, whole>>

\* A new connection has a new DiscordWebsocket, with a zlib stream of its own;
\* what came of a message on the old one stays in the cache file.
Reconnect == /\ phase = "idle"
             /\ coming' = <<>> /\ isOpen' = FALSE
             /\ unread' = <<>> /\ input' = <<>> /\ held' = 0 /\ buf' = 0
             /\ UNCHANGED <<sent, cache, phase, whole, due>>

StreamNext == Send \/ Piece \/ LastPiece \/ ParserTakes \/ ParserStops \/ Drain \/ Reconnect

StreamSpec == StreamInit /\ [][StreamNext]_streamVars
-----------------------------------------------------------------------------
StreamTypeOK == /\ {coming, cache, unread, input} \subseteq Seq(Nat)
                /\ sent \in 0..MaxMessages
                /\ isOpen \in BOOLEAN
                /\ Len(input) <= InBuf
                /\ held \in Nat /\ buf \in 0..OutBuf
                /\ phase \in {"idle", "parse", "drain"}
                /\ whole \in Nat /\ due \in Nat

\* Every character of the message is somewhere on its way to the parser, once,
\* and none of another message; the stream ends where the message does, not
\* where a buffer does: '\0' is what rapidjson takes for the end.
MessageWhole == phase # "idle" => /\ due = buf + held + Yields(input) + Yields(unread)
                                  /\ buf = 0 => due = 0

\* Between messages inflate() has consumed every byte and holds nothing back,
\* so the next message continues the zlib stream where the last one ended.
StreamSatisfied == phase = "idle" => unread = <<>> /\ input = <<>> /\ held = 0
==============================================================================
