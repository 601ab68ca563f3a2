# NXCord verification

TLA+ specifications of NXCord, the Discord voice client for the Nintendo
Switch, with the TLC instances that check them and TLAPS proofs about the
components that everything else stands on. Paths below are relative to the
repository.

* `<Component>.tla` is the specification of a component and its properties;
* `MC<Component>.tla` and `MC*.cfg` are the small instances for TLC;
* `<Component>Proofs.tla` holds theorems and their proofs;
* `PROJECT.json` lists the components, the runs, the correspondence of every
  definition to source lines, the hazards and the findings.

To check one: `tlc -config MCUdpClient.cfg MCUdpClient.tla`; to prove:
`tlapm NetworkProofs.tla`.

## 1. The system

### Processes and threads

NXCord runs either as a **sysmodule** (`sysmodule/`), which ticks the Discord
client and serves the overlay and the UI over IPC, or **standalone** inside the
UI (`client/src/standalone_client.cpp`). Either way the actors are

| actor | code | what it does |
|---|---|---|
| client thread | `sysmodule/src/main.cpp:160-164`, `standalone_client.cpp:3-15` | `DiscordClient::tick` under `client_mutex`, again and again |
| request thread | `ipc_server.cpp`, the UI through `NXCordComInterface` | one request at a time under `client_mutex` |
| UDP receive thread | `discord_udp_client.cpp:11-39` | one per voice connection; calls the receive handler |
| player thread | `nxcord_audio_player.cpp:7-88` | one per voice connection; empties the queues, 20 ms frames |
| capture thread | `nxcord_audio_capture.cpp:7-39` | one per voice connection; fills the microphone queue |

All three inner threads are `LoopThread`s (`include/common/loop_thread.hpp`).
The client thread and the request thread exclude each other, so the handlers of
`NXCordClient`, with the REST calls they make, are steps of one actor; the
inner threads interleave with everything.

### Components, state, operations, what makes them correct

| component | state | operations | correct when | module |
|---|---|---|---|---|
| Schedule handler | `_functions`, `_schedule_counter`, `_last_updated` | `schedule`, `Timer.stop`, `tick`, `clear` | no task lost, early, twice, or after its stop, although tasks schedule and stop others in the middle of a tick | `ScheduleHandler`, `TimerService` |
| Loop thread | `_active`, the kernel thread | `start`, `stop`, the thread function | teardown ends, nothing runs after the join, failures of the kernel do no harm | `LoopThread` |
| Voice UDP client | `_fd`, the receive handler and its mutex | `connect`, `disconnect`, `setReceiveHandler`, the receive loop | quiet after `disconnect`, deliveries of the connect in force, no descriptor lost | `UdpClient` |
| Audio player | a queue per SSRC | `queue`, the player loop, destruction | bounded, in order, no packet dropped without a cause, drains | `AudioPlayer` |
| Audio capture | one queue | the capture loop, `poll`, destruction | the same, and `poll` never hangs the client thread | `AudioCapture` |
| Server and channel cache | `_servers`, `_channels` | the gateway handlers, `getCachedChannels` | agrees with Discord once all events are handled | `ServerCache`, composed in `NXCordClient` |
| Voice sessions | `voiceConnections`, `_current_voice_connection`, `_voice_channel_context`, `_saved...` | `joinVoiceChannel`, `disconnectVoiceChannel`, `onReady`, `tick`'s voice loop | one connection at a time, each ticked once per tick, the pointer is valid | `VoiceSession` |
| IPC service and client, the sysmodule's main loop, the standalone client | the client behind `client_mutex`, the session thread, each caller's request | the 27 commands of `NXCordComInterface`, `tick`, construction, destruction | a call takes effect at one moment or not at all, and comes back; nothing runs past the teardown | `ClientService`, `NXCordCommands`, `NXCordCom` |
| Voice states | `_voice_states`, `_current_voice_context` | `onServer`, `onEditVoiceState`, `getCurrentVoiceStates` | who is shown is who is there; the panel finds its channel | `VoiceStates`, composed in `NXCordClient` |
| Connection and login | `connection`, `_token`, `_ticket`, the saved token | login, two-factor, `startConnection`, `quit`, `logout` | a stop is final; the token in use is the saved one | `DiscordConnection` |
| Client UI | `_current_state`, the layouts | the keys, the lookups once in a second | the screens follow the connection | `ClientUI` |
| Gateway websocket, zlib stream | the cache file, the inflate buffers | `on_msg_recv_callback`, `read`, `Take` | messages arrive whole, the zlib stream stays in step | `WebsocketStream` |
| HTTP session, TLS wrapper | the sockets, the reply | `request`, `connect`, `disconnect` | no socket left open; the body is whole, and what the loop loses of it is its end | `HttpSession` |
| Settings | the settings file | getters, setters, loading | a setting whose call returned outlives a power loss outside a write | `ClientService`, `DiscordConnection` |
| Mixing and the microphone gain | samples, multipliers | `player_thread`, `AudioSender::frameAvailable` | no wrap-around, the setting is applied | not modelled |
| Base64 | - | encode, decode | inverse of each other | not modelled |
| Opus, logger, overlay menus | none of their own | forward to libraries, or to the service | - | not modelled (I/O); the overlay is a caller of `ClientService` |

### What is hard here

* *Interleaving*: the receive handler is copied under a lock and called outside
  it; the socket is closed by one thread under another's `recvfrom`; the audio
  player, and both sides of the capture queue, read the clock before they take the
  queue's lock (`NXCordAudioPlayer::queue` stamps its packet under it).
* *Re-entrancy*: a scheduled task schedules and stops others in the middle of the
  scan; a voice connection removes itself from the list that is being walked.
* *Ordering*: a channel list fetched over REST is ahead of gateway events that
  are still in flight and are then applied to it.
* *Failure*: `threadStart`, `socket` or a REST call fails after half of the
  operation is done; the gateway drops and resumes or identifies anew.
* *Atomicity*: one `getChannels()` of a UI is several IPC requests, with ticks
  between them; a tick rewrites in the middle what a call is about to read.
* *Teardown*: the service, or the standalone client, ends while requests wait, one
  is being answered, and a tick may be in progress.
* *Crash*: a setter rewrites the settings file in place.

`PROJECT.json`, `hazards`, lists each of these at its line, with the property
that would notice it going wrong, or why none does yet.

## 2. The modules

### TimerService, ScheduleHandler

`TimerService` is what callers rely on: each timer has an earliest instant (`due`)
and a `fate`; it may run once, after that instant, if it was not stopped or
cleared. `ScheduleHandler` is the code: `functions` is the `std::map` of enabled
flag and remaining time; `TickBegin`, `SkipDisabled`, `RunDue`, `Postpone`,
`TaskReturn` and `TickEnd` are the iterations of `tick()`'s range-for and the
erasure after it. The clock is read again for each entry, so `Pass` may happen
in the middle of a scan. While the scan is inside a task (`phase = "call"`),
`Schedule` and `Stop` may happen, and nothing else. `due` and `fate` are
history variables and are also the refinement mapping: `KeepsPromises` is
`TimerService`'s `Spec`.

### LoopThread, UdpClient

`LoopThread` has the flag, the kernel thread and the place of the owner in
`start()`/`stop()`. `start` is two steps (exchange, `threadStart`), `stop` three
(exchange, the stopper, the join). A libnx thread runs once: a second
`threadStart` after it exited fails, and so may the first. The modules of the
classes that own a LoopThread EXTEND it and give the thread function's body.

`UdpClient` adds the socket. `sockets` maps the open descriptors to the connect
that opened them, so that a reused number can be told apart from what it was;
`SocketOpens` takes the least free number, as the kernel does. `LockHandler`,
`CopyHandler` and `EnterHandler` are the copy under the mutex and the call
outside of it. `Set` and `Unset` come from the owner or from the running handler.
`stale` counts calls of a handler since it was replaced.

### AudioQueue, LossyQueue, AudioPlayer, AudioCapture

A packet is its number and the time of its construction. `Trim` and `Expired` are
what both classes do with a queue. In `AudioPlayer` the owner is the voice
connection, and `Queue(s)` is the receive thread; the player thread is
`ReadClock`, `Lock`, then per key of the map `PopExpired`, `Take` or `Leave`, then
`Unlock` (which erases empty keys) and `Play`. `AudioCapture` is `Records`,
`LockToPush` and `Push` against `PollBegins`, `PollLocks` and the pops of `poll()`.
`LastBuffer` is the destructor's release of the capture buffer.

`LossyQueue` is what one source of audio is promised: packets come out in order
and at most once, and one is lost only because it is older than the age or because
the limit's worth of packets and one more are behind it. `AudioCapture` implements
it with its queue and with the last packet that `poll()` returned; a recording
counts as put in when it is pushed, not when it is made. `AudioPlayer` implements
one for each SSRC; a packet is out when the player takes it for the frame.

### Gateway, Discord, ServerCache, VoiceStates, NXCordClient

`Gateway` is external: an ordered inbox, a connection that drops, a session that
is resumed (the unhandled events are replayed, then RESUMED) or replaced (READY
and one GUILD_CREATE per server). `Discord`, external too, is what the events are
about: servers and channels with a version that grows with each change, and the
voice channel each user is in.

`ServerCache` and `VoiceStates` say what a handler does to its part of the client;
`NXCordClient` has one action per handler, which receives the event and does both,
the REST calls included: those see Discord as it is now. Appending a channel that
is already there, erasing the first match and finding the first match are
modelled as the code does them, so duplicates are reachable. `Entered` and `Left`
are the two halves of `onEditVoiceState`; `VoiceOnServer` lists the voice states of a
GUILD_CREATE whose members it finds. `connected` and `context` are the parts of
the voice session that `getCurrentVoiceStates()` depends on (the sessions
themselves are `VoiceSession`).

History: `failed` and `missed` say which channel lists came from a failed request or
are of a server that changed while the user was out of it; `mine` is where the
client's user was in the last own state handled, `unnamed` whose member was
missing, `outage` that a server was left.

### VoiceSession

A voice connection and its context are one address. `state` says how far it is;
`connections` is sleepy-discord's `voiceConnections`. `VoiceLoopBegins`, `CallReady`,
`CallQuietly`, `CallNoSocket`, `CallRemovesItself` and `VoiceLoopEnds` are
`DiscordClient::tick`'s loop (`discord_client.cpp:265-287`) with its restart after
each call. An address is free to be given out again once it is removed.

### NXCordCommands, NXCordCom, ClientService

`NXCordCommands` is the table of the 27 commands. The client's state is divided
into *aspects* (the four settings, the login, what the gateway drives, ...); per
command the table says which aspects a reply tells, which it changes, what it
assigns and whether it saves. What Discord makes of a request is any value: that
is the business of the other modules. `Outcomes` is the set of clients a command
may leave behind, `Reply` what it returns, `ZeroReply` what a zero-initialised
reply holds.

`NXCordCom` is the interface as its users may see it: a call takes effect at one
moment (`Perform`) or not at all (`Refuse`), a tick is one step, and a restart finds
the settings of every call that has returned. Only a call that is saving at that
moment may cost some of the lines (`Files`).

`ClientService` is the code in both builds, which `build` tells apart. In the
sysmodule `owner` is the main thread (`TickBegins`, `TickEnds`) and `body` the session
thread (`Receive`, then the command, or `StopProcessing`); in the application
`body` ticks and the caller `Application` runs its commands itself. `Runs` says on
which thread a command runs, `Execute` is `executeFunction()` and `LOCK_CLIENT`. Between
`TickBegins` and `TickEnds` the aspects a tick changes hold a value of their own (-1),
so that a command that did not wait for the lock would tell it. `GetChunk`,
`NextRequest` are the requests of `getChannels()`; `SaveBegins` changes the memory
and truncates the file, `SaveEnds` has written it. `Restart` may come at any time.

The refinement mapping: the abstract client is `settled`, the client as it was when
`client_mutex` was released last, and a call of `getChannels()` is performed by its
first request. A command that saves is performed by `SaveEnds`.

### DiscordConnection, ClientUI

`DiscordConnection` has one action per request and per thing a tick may bring.
`startConnection()` saves the token and schedules; `ScheduleTick` runs all that is
scheduled. `Quit` is `quit()` with `stopClient()`. `Reboot` loads the settings.
`ClientUI` adds the screens: every action of the user and every lookup is a
screen's action together with the request it makes, and the constructor of
`UIConnectingLayout` is two requests (`Check`, `Start`) between which a tick may
come. `Reopen` needs no start waiting: opening the UI takes longer than the 20 ms
between ticks.

### WebsocketStream

A message is the sequence of what its bytes yield when inflated. `Piece` and
`LastPiece` are `on_msg_recv_callback`; `Read`, `Inflate` and `TakeOne` are
`ZlibWrapper::read` and `WebsocketZlibStream::Take` with both buffers; `Drain` is the
loop behind `processStream()`. `inflate()` is external: it consumes input until it
has output that it cannot write. `Yields`, how many characters some bytes make
together, is a recursive function, so that it can be proved about.

### HttpSession

`request()` with an action per way out (`stage` is where it is), and its two
callers: `Drops` (the wrapper goes out of scope) and `Switches` (it becomes the
websocket's). `tcpSockets` are the kernel's open sockets, `tcpFd`, `net` and `websocket` the
places that hold one. `ReadPiece` is the body of the read loop for a read of any
length; `LastChars` is the `memcpy` that looks for the last chunk, `Body` what
`on_body` leaves in the text: what is behind the header (`AfterHeader`), or the last
chunk in it. Values and bodies are any bytes (`Data`, in the run with the bytes of
the terminator among them): REST replies come compressed
(`discord_session.cpp:129-131`). Only the line before a chunk is a byte of its own
("size"), which stands for the parser's counting.

History: `mixed` says that the read with the end of the terminator had other bytes
before it, `fooled` that `last_chars` held a terminator ahead of the reply's own. The
loop drops the read of either.

## 3. The runs

| run | what it shows | bounds, and why they suffice |
|---|---|---|
| `schedule_handler` | no timer lost (`NoLostTimer`), countdowns lead to the promised instant (`CountdownExact`), a tick serves all that was due (`TickServesDue`), implements `TimerService` (`KeepsPromises`), every timer ends (`EveryTimerSettles`) | 3 timers: one that runs, one it stops, one it schedules; delays 0, 1, 2 and 3 clock steps give due-now, due-later and a clock that overshoots |
| `udp_client` | see section 2; `OwnerReturns`: no call of the owner hangs | 3 connects: after a working and after a failed one; 4 handlers: a copy two replacements old is possible |
| `audio_player` | bound (in `TypeOK`), `KeysHavePackets`, implements `LossyQueue` per source (`KeepsPromises`), `QueueDrains` | two sources; limit 1 and 3 packets, so the limit drops; age 1 and 2 clock steps, so age drops |
| `audio_capture` | implements `LossyQueue`; `CallsReturn`: neither `poll()` nor the destructor hangs | limit 2, 5 recordings, age 1, 3 clock steps |
| `nxcord_client` | `ServersAgree`, `ChannelsAgree`; `StatesAgree`: each user is listed once, where the user is; `NobodyHidden`: also after servers were left, who is in a voice channel is in its list; `PanelHasStates`: the unchecked `find()` of `nxcord_client.hpp:134-136` finds the channel while the last own voice state handled names it | two users; two servers, one with a channel and two voice channels around the other's in the map's order; 3 changes and one lost connection: a fetch before, between and after create, edit and delete; leave, change and rejoin; a join, a move of the other, and a reconnect between any two. The user starts as a member of both servers (leaving and joining are changes) |
| `voice_session` | `EachTickedOnce`, `CurrentIsReady`, `OneAtATime`, `VoiceLoopEnding` | three addresses: before, at and behind the index |
| `client_ui` | `StopsStay`, `ConnectedTokenSaved`, `UiFollows`; at most two starts wait (`TypeOK`) | two logins: an account that follows one that is connected, connecting or waiting |
| `websocket_stream` | `MessageWhole`, `StreamSatisfied`; no buffer is filled over its size (`StreamTypeOK`) | messages of up to 5 bytes over an input buffer of 2 and an output buffer of 3: bytes that yield nothing, less and more than there is room for, ends at, before and after a buffer's end; 2 messages: the second continues the first's zlib stream |
| `http_session` | `SocketsAccounted`; `BodyWhole`; `BodyFront`: where the body is not whole, only its end is missing | two addresses, two requests: a websocket replaced, refused or closed around a call; reads of 1..7 bytes cut the terminator (5) everywhere; a last header that ends in `0` or not; bodies by length and as one or two chunks, one of them with a whole terminator inside |
| `client_service` | implements `NXCordCom` (`Implements`); `CallsReturn`; `ThreadEndsFirst`: after `stop()` no thread can tick or answer | two callers, so that one waits while the other is served, with six of the 27 commands, one of every kind: without the lock, a read of one aspect, of two that a tick rewrites, a list in several requests, a change, a save. The others take the same paths with other rows of the table. Two values for an aspect, lists of 0 and 1 entries over replies of 1: a list that shrinks, stays or grows between two requests |
| `voice_dangling` | finding, below | two addresses |
| `ipc_overrun` | finding, below | replies of 2, lists of 0..3 |

`TypeOK` of `UdpClient` and of `VoiceSession` is proved (`Typing`) and needs no run.

Conditions in the properties, and why they are there:

* `LostOnlyIfDeaf` excepts connects whose thread did not start: `stop()` then
  finds the flag clear and does not run the stopper, which is what closes the
  socket, and `disconnect()` forgets the descriptor.
* `ChannelsAgree` speaks of the set of channels and of the first entry of each,
  which is the one that `find` reaches: a list fetched ahead of a CHANNEL_CREATE has
  the channel twice. It excepts channels of servers that changed while the user was
  out (`onDeleteServer` keeps the channel list), and of a list left by a failed fetch
  (an empty list counts as cached) it demands only that it shows nothing gone and
  nothing out of date: channels may be missing. Both stay so until READY clears the
  cache.
* `OneAtATime` excepts joins while another join is under way and a gateway
  reconnect, which forgets the connection without ending it.
* `CurrentIsReady` excepts a connection that removed itself: the finding.
* `StatesAgree` excepts users whose member the GUILD_CREATE lacked, and all after
  a server was left (`onDeleteServer` keeps its states, and coming back lists them
  a second time).
* `NobodyHidden` holds after that too: entries of before, and double ones, do not
  keep a user out of the list of the channel the user is in. It excepts only the
  users whose member the last GUILD_CREATE about them lacked.
* `PanelHasStates` excepts a user who was moved or disconnected by somebody else,
  or thrown back to READY, while the voice connection is still up: the saved
  channel is then not where the user is, and `find()` may come back empty.
* `BodyWhole` and `BodyFront` are about replies in one piece. Of several chunks the
  code keeps the last. `BodyWhole` has two exceptions, in both of which the code
  drops a read: `mixed`, the read that completes the terminator has bytes before it
  (so a reply that comes in one read is lost); and `fooled`, a read ends with what
  looks like the terminator ahead of it. The second counts only for a reply that is
  not plain, whose last header ends in `0` or whose body has a carriage return: what
  shorter reads leave over in `last_chars` must make no terminator in any other.
  `BodyFront` holds in both: what request() returns then lacks its end and nothing
  else.
* `Implements` of `ClientService` is checked over lists that fit a reply. One that
  is longer is the finding `ipc_overrun`; where the chunks work as intended, a list
  that outgrows a reply in the middle of a call would be mixed with the one before.
* `CallsReturn` of `ClientService` excepts a session thread that could not be
  started: requests then wait in the kernel until the service is gone.
* `TypeOK` is missing in `ClientService`: `Implements` would fail on a call or a
  client that is not well formed.

### Fairness

* `ScheduleHandler`: the main loop ticks for ever; weak fairness of the steps of
  a tick, of a task's return and of the clock.
* `UdpClient`, `AudioPlayer`, `AudioCapture`: weak fairness of each thread.
  `recvfrom` has a timeout, so a fair receive thread is back at its flag.
  `std::mutex` promises no fairness, and none is assumed of it: each step that
  waits for a mutex is only weakly fair. In `AudioPlayer` and `AudioCapture` the
  packets are bounded, so a waiter cannot be overtaken for ever there; starvation
  by an endless stream is not in scope of these runs.
* `VoiceSession`: a tick that began goes on (it never waits).
* `ClientService`: threads go on, a tick and a write end. A command waits for
  `client_mutex` under strong fairness: the ticking thread sleeps for 20 ms
  (`main.cpp:174`, `standalone_client.cpp:14`) after it has released it, and requests
  are answered one after the other, so who waits does get it. The kernel serves
  every session (strong fairness of `Receive`). A send fails for sure only once the
  service is gone; before, it may. The owner's loop need not end, nobody needs to
  call, and a restart may always come.
* `ClientUI`: the UI's loop goes on, so its lookups and the connecting layout's
  constructor are weakly fair. Nobody has to press a key, and Discord does not
  have to do anything: `UiFollows` is about a connection that stays.
* `NXCordClient`, `WebsocketStream`, `HttpSession`: safety only.

`CHECK_DEADLOCK FALSE` is in the runs where the system may stop: the owner is
destroyed and the clock or the number of packets is at its bound; the bounded
changes or requests are used up; the reply overran. `schedule_handler`, the two
runs of `VoiceSession`, those of `ClientService`, `client_ui` and `websocket_stream` check for
deadlock. `ClientService` can always restart, so there `CallsReturn` is what excludes it.

### Mutants

Each property of a passing run has a mutant in `PROJECT.json`: an operator
`Mutant: ...` in the module that changes an action the way a slip in the code
would, under which TLC finds the property violated.

## 4. The proofs

TLC covers the instances above. For every value of the constants TLAPS proves:

**`ScheduleHandlerProofs`** (any set of natural delays, any number of timers, any
length of time; assumption `BoundsAssumption`). The inductive invariant `IInv` adds
three facts to the properties: ids are handed out in order, so an id in the map
is below the counter (`IdsInOrder`); what the tick is about to erase is in the map
and disabled; and what the scan has passed is not due before the tick began.
Without the first, `schedule()` could overwrite an entry; without the last two,
the erasure after the scan could drop a timer and `TickServesDue` would not be
inductive. From it: `Typing`, `NoTimerLost`, `CountdownsExact`, `DueTimersServed` (an
action property: the step that ends a tick), and `Implements` - `ScheduleHandler`
refines `TimerService`, one step per action.

**`NetworkProofs`** joins the three components beside the sockets, each with its
own specification.

* The UDP client (any number of connects and handlers; assumption `UdpAssumption`).
  `IInv` is `TypeOK`, `ThreadShape` (how the flag, the kernel thread and the owner's
  place in its call fit: nothing runs past the join, a running body has its flag
  set unless the owner is between the exchange and the join), `SocketShape` (the
  descriptor is of the connect in force; where no thread serves it, it is closed
  or its connect is deaf) and `StaleOnceOnly` (the one stale call is used up by a
  copy on its way to the call). From it: `Typing`, `Quiet`, `Delivers`, `LosesOnlyDeaf`,
  `StaleAtMostOnce`.
* The HTTP session (replies of any bytes, any addresses, buffer and number of
  requests; assumption `HttpAssumption`). `Accounts` (`SocketsAccounted`) follows from
  `OwnerShape`: which variable owns which open socket at each stage. `ReadShape` carries
  the rest. It knows where in the reply the read loop stands (`Cut`: the buffer is the
  front of the reply, what is to come is the rest) and, of a reply in which nothing can
  be mistaken for the terminator (`Plain`), what is left in `last_chars` of reads
  before: a short read leaves old bytes in front of the new, so that the
  terminator might be put together from two places. `Stale` says that it is not: a
  digit in the first place, before the terminator, came with bytes behind it
  that are not its line break. So a plain reply does not fool the loop.
  Whatever ends the loop, a front of the reply
  is in the buffer, and what the parser makes of it is a front of the body
  (`BodyOfFront`, with `Layout` for where the bytes of a reply are): `OnlyTheEndIsLost`
  (`BodyFront`). If the loop was not fooled and no read was mixed, all of the reply is
  in the buffer, or all but the terminator (`Enough`), and the parser finds the whole
  body in that (`BodyOfEnough`; a read that ends inside of the terminator is not taken for
  its end, `NotInside`): `BodyKept` (`BodyWhole`).
* The compressed stream (buffers of any size, messages of any length; assumption
  `StreamAssumption`). The cache file and what is to come make up the message
  (`CollectShape`); what of it is not taken yet is in the buffers or in the file, and
  the buffer for the parser is empty only if nothing is left (`HandShape`). The
  second half rests on `Inflating` and `Reading`: a call of `inflate()` or `read()` neither
  loses a character nor makes one, and comes back with nothing only at the end
  of the message; and on `Cutting`, what two halves of some bytes yield. From them:
  `StreamTyping`, `Whole` (`MessageWhole`), `Satisfied` (`StreamSatisfied`).

**`ClientUIProofs`** (any number of logins; assumption `ConnectionAssumption`). A
second account logs in while the first is connected: what keeps its token away
from the old connection is that the login has quit, and that the screen for the
second factor starts nothing (`TicketAfterQuit`). `AskedWithSaved` says that what was
asked for goes with the saved token, `StartsShape` on which screens a start may
wait, which is what bounds the number of starts. From them: `Typing`, `Stopped`
(`StopsStay`), `TokenKept` (`ConnectedTokenSaved`).

**`ClientServiceProofs`** (any callers, commands, list lengths and chunks, in both
builds; assumption `ServiceAssumption`). That the other thread is out of the client
when `stop()` has returned needs `ThreadShape` (as in the UDP client: it runs only
between the start and the join, with its flag set unless the owner is in between),
`LockShape` (who holds `client_mutex` is where the lock is taken) and `CallShape`: in
the sysmodule one caller at most is inside the client, while the session thread
serves it; in the application only while the owner has not ended. From it:
`TeardownSafe` (`ThreadEndsFirst`).

`KeepsInterface` is the refinement of `NXCordCom`, for both builds at once: a step maps
to the abstract call, tick, write or restart that takes effect in it, or to a
stutter. `ClientShape` relates the client to the one that `client_mutex` was last released on
(`settled`, the abstract client): they are equal while nobody holds the lock, a tick
differs from it only in what Discord drives, the file on the card is of the
settled client, and a call that saves has done all but the writing. `RequestShape`
says where each caller's requests are: a call is done once its first request is
answered, and only `getChannels()` over IPC sends more. They add nothing, since a
list that fits is collected by the first. Two assumptions stand on constants (`ServiceAssumption`; `ValuesAssumption`:
0, the reply of a request that was not answered, is a value) and the theorem has
one hypothesis, `ListsFit`: no list is longer than a reply, which excludes what the
finding `ipc_overrun` is about and nothing else.

**`AudioCaptureProofs`** (any limit, age, time and number of recordings; assumption
`AudioAssumption`). Both threads read the clock before they lock, so a packet on its
way, and the time `poll()` compares with, are past (`PacketOnItsWay`); a thread
started again is not in the middle of a push (`NotBeforeStart`). From it: `Typing`,
with the bound of the queue, and `Implements`: `AudioCapture` refines `LossyQueue`,
with the push as `Put`, the drop by age as `Lose` and the taking as `Get`.

**`AudioPlayerProofs`** (any sources, limits, age and number of packets; assumptions
`AudioAssumption`, `SsrcAssumption`). The player's thread reads the clock before it
locks, so what it compares with is past, while `queue()` stamps its packet under the
lock; and a thread that is started does not hold the lock (`ThreadShape`). `KeysShape` says how the
keys of the map stand to the packets while the player goes through them: a key
without a packet is one this frame has emptied, and is erased before the lock is
released; what the loop still has to visit has a packet. From it: `Typing` with the bound of each queue,
`KeysExact` (`KeysHavePackets`), `Implements` (`LossyQueue` for each source), and
`FrontBehindKeys`: the loop finds a packet behind every key it visits, which is why
the code's branch for an empty queue has no action in the model.

**`VoiceSessionProofs`** (any set of addresses; assumption `AddressAssumption`). The
invariant joins `ListShape` (the list names each connection once, and exactly those
that live), `LoopShape` (what the loop has passed was called, so where it ends all
were; who is due and was not called is still listed and was not ticked),
`CurrentShape` (`_current_voice_connection` leads to a ready connection, or to a freed one
that removed itself) and `OneShape` (whatever is ready is the current connection, so
joining leaves it). From it: `Typing`, `TickedOnce`, `CurrentValid`,
`OnlyOne`. The exceptions of the last two are those of the finding `voice_dangling` and of
a join that does not wait.

**`NXCordClientProofs`** (any finite set of servers, any users and channels, any
number of changes and lost connections; assumption `DiscordAssumption`). `ServersAgree`
speaks of the moment when every event is handled; the invariant tells each
server's `Story` before it: the last event on its way about the server tells what
Discord holds (`LastTold`); a server without events on their way is listed as it is
(`NothingToTell`); the events alternate between leaving and coming back (`Alternates`);
and the next one finds the server listed unless it is a GUILD_CREATE
(`FirstFinds`). The last is where the REST list, ahead of the events, meets them: a
GUILD_CREATE that finds its server listed changes nothing, so if no event
follows the listed version must be the told one. READY starts the story anew
(`Starting`), whether `getServers()` succeeds or not; a resumed session continues it. Before
the first connection events are sent in vain, so the story is told only of a client
that was connected (`Known`). From it: `Agreement` (`ServersAgree`).

`Shapes` joins what the other parts keep: versions are bounded by the number of
changes (`Bounds`), each channel list is one of its server's channels, fetched or
updated (`ChannelShape`), and in `VoiceShape`, beside the types, that the client's user
is listed where the last own state handled says. The last survives every other
event because erasing one user's first entry leaves all others listed (`Leaving`),
entering another does too (`Entering`), and so does a whole GUILD_CREATE (`Listing`).
From it: `Typing` (`TypeOK`) and `PanelShown` (`PanelHasStates`).

`ChannelsAgree`, `StatesAgree` and `NobodyHidden` speak, like `ServersAgree`, of the moment
when every event is handled, and each has a story that holds before it.
`ChannelStory` has two halves. `ChannelTold` is about the inbox alone: nothing is said of
a channel before it is created or after it is deleted, and the last event about it
tells what it is now, unless the user has left its server since. `ChannelShown` is
about the list: a channel without events on their way is listed as it is, by the
first entry of its id (a fetch that was ahead of a CHANNEL_CREATE leaves a second one
behind it, which `find` never reaches); else the last event will make it so. Hence
`ChannelAgreement`, with the two exceptions of `ChannelsAgree`: a channel that was
`missed`, and of a list left by a failed request that it may lack channels.
`UserStory` says of each user (`VoiceStory`) that they are listed once at most, where
they are if no event about them is on its way, and not at all if a GUILD_CREATE, which
lists without looking for an entry of before, is the next event about them; an event
that a GUILD_CREATE about them follows next takes them out. A READY on its way will empty the states, so the
story is told of what will stand then (`Standing`, `PassedOver`); it ends for good with the
first server that is left (`Calm`). Hence `VoiceAgreement`.
`SightStory` is told on after that, and says less (`Sighting`): of a user in a voice
channel the last event on its way tells the channel, or if there is none the
channel's list has the user. It survives what `UserStory` does not, since a handler
lists the user its event is about whatever other entries there are, and erases the
entries of nobody else. Hence `NobodyIsHidden`.

Each inductive invariant was checked by TLC on the small instances before the
proof.

Every safety invariant that a run checks is stated by a theorem. Only
model-checked is liveness (`EveryTimerSettles`, `OwnerReturns`, `QueueDrains`, both
`CallsReturn`, `VoiceLoopEnding`, `UiFollows`), since TLAPS has no rules for fairness and
`ENABLED`.

The library's induction theorems take an operator as a parameter, which no prover
here can instantiate. Induction over the numbers is possible without them, since a
set of numbers has a least element (`Least` and `Induction` in `NXCordClientProofs` and in
`NetworkProofs`): that is how `Unfolding` and `Erasing` prove what the recursive `Without`
keeps, and `Summing` and `Stretch` what `Yields` adds up to.

## 5. Findings

* `voice_dangling` - `nxcord_client.cpp:335-341` against the comment at
  `discord_client.cpp:265-266`. Voice connections remove themselves from the list;
  the loop considers it, `_current_voice_connection` does not: it keeps pointing
  to the freed connection, `isConnectedVoiceChannel()` stays true, and the next
  leave uses it.
* `ipc_overrun` - `ipc_server.cpp:100` against `ipc_structures.hpp:99-100`. The
  list is to be passed in chunks of the array's 100 entries; the code caps the
  number of entries with `sizeof(channels.items)`, a number of bytes.

## 6. What is abstracted, what is left out

Names, tokens, samples and frames are numbers or model values. Logging, gzip of
REST replies, and failures of `inflate()` are left out; so is a client without a
valid settings file, which saves nothing. `send()` of the UDP client writes no state of the class. sleepy-discord,
libnx and Discord are modelled from how `src/` uses them (`external` in the
map). Undefined behaviour that follows a finding (the use of a freed connection,
the copy beyond the array) is not modelled further: `ClientService` stops at the
overrun, `VoiceSession` lets `Erase` of an address that is not listed do what an
erase of nothing does.

`ClientService` takes from the libraries: a thread that waits in
`WaitAndProcess()` gets one request or the request to stop; a send that fails has
not reached the service, so its reply is still zero-initialised (if it could fail
after the service had answered, a setter might report nothing and yet have been
done, which the interface allows: setters report nothing); and a write that
power interrupts leaves some of the lines. Which command returns what is the
table's; a code of the two-factor login, for instance, does not arrive over IPC
(`ipc_client.cpp:15` sends the address of the array, not the array), which in the
table is one of the results that a login may have.

**Not modelled.**

* Samples: mixing with its clipping, the volumes and multipliers, and
  `AudioSender`. Two things were met while reading: the amplifier is cut to an
  integer (`nxcord_client.cpp:45`), and an amplified sample wraps where a mixed one
  is clipped. They are arithmetic without state.
* The bytes of the two-factor code: `submit2faTicket()` (`ipc_client.cpp:15`) gives the
  template an array that decays to a pointer, so the service reads other bytes; the
  models have a refused code among the results.
* Base64 and the Opus decoder: conversions without state, the second one a
  library's.
* What happens when a handler of sleepy-discord disconnects from inside
  `wslay_event_recv` (`discord_websocket.cpp:162`): whether one does is not decided in
  this repository.
* A peer that closes its socket without closing the TLS session: the read loop
  (`discord_session.cpp:183`) then spins, holding `client_mutex`.
* Menus, dialogs, sliders and drawing, of the UI and of the overlay.

## 7. Plan

Done, in this order: `ScheduleHandler`, `LoopThread`, `UdpClient` and their proofs;
`AudioPlayer`, `AudioCapture`; `ServerCache` and `VoiceStates`, composed in
`NXCordClient`; `VoiceSession`; `DiscordConnection` with `ClientUI` and its proofs;
`WebsocketStream`, `HttpSession`; `ClientService` with the settings, the main loop and
the standalone client; the abstract specifications `LossyQueue` and `NXCordCom`; the proofs of `AudioCapture` and
of the client's teardown.
Then the proofs of `AudioPlayer`, `VoiceSession`, of the server list in `NXCordClient`, and
that `ClientService` implements `NXCordCom`; of the channel lists and the voice states in
`NXCordClient`; of `HttpSession` and `WebsocketStream`.

Next is composition: the UDP client feeding the player of its voice connection, as
`VoiceReady` sets them up.
