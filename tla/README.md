# A verification project for foo_sbs

`foo_sbs` is a Foobar2000 plug-in that emulates a Squeezebox server: hardware
players connect to it over the slim protocol, are told to fetch an HTTP stream,
and play whatever Foobar2000 plays. This directory holds TLA+ models of the
plug-in, the TLC configurations that check them on small instances, and proofs
checked by TLAPS.

## 1. The system

Three threads of one process, plus shared memory:

| thread | runs | code |
|---|---|---|
| host | Foobar2000's callbacks: init/quit, preferences, playback start/stop/pause, every audio chunk | `foo_sbs/` |
| slim | `io_service::run()` of the control server (port 3483) | `slim_server/` |
| http | `io_service::run()` of the stream and status server (port 9000) | `http_server/` |

| component | state | operations | interacts with |
|---|---|---|---|
| slim server, connection manager, connection | acceptor, set of connections, per connection: read loop, status timer, poll counter, MAC address, `device_initialized_`, native socket | accept, read (HELO, STAT, BYE!, the rest), status timer, stop, broadcast commands | players (TCP), shared memory list, host thread (broadcasts, stop) |
| client message parser, client messages | parse state, length, partial message | consume one byte, reset | slim connection's read loop |
| server messages | none (values) | encode `strm`, `audg`, `aude` | slim connection |
| http server, connection manager, connection | acceptor, set of connections, per connection: request, reply, `ready_for_stream_`, native socket | accept, read request, write reply, become a stream, stop, send data | players and browsers (TCP), host thread (chunks, stop_all) |
| request parser | state, partial request | consume one character | http connection |
| request handler, reply, MIME types | document root | decode URL, choose the stream or the status page (files are disabled), build reply | shared memory list |
| shared memory list (`shm.h`) | map from MAC address to client info, named mutex | insert, erase, list | slim connection writes, request handler reads, plug-in creates and removes |
| plug-in (`foo_sbs.cpp`) | server pointers, threads, `send_play`, `is_playing`, `callback_registered` | on_init, on_quit, apply, start/stop servers, on_chunk, playback callbacks | everything |
| preferences | dialog values, configuration variables | apply, reset, get_state | plug-in (`g_apply_preferences`) |

### What is hard

* A completion handler that is already queued runs although an earlier handler
  closed the socket or cancelled the timer: reads, accepts and waits all finish
  late. Cancelled waits run the status handler too, which ignores its error code.
* A player that reconnects is briefly there twice; both connections write the
  same entry of the client list.
* The host thread reads what the server threads write, without a lock: the two
  connection sets, `device_initialized_`, `native_socket_`, `ready_for_stream_`,
  the server pointers.
* A stop is asynchronous: `server::stop` posts, `join` waits for `run()` to run
  out of work, and anything that keeps one connection alive keeps it waiting.
* The list of clients, and the mutex that protects it, live outside the process.
* Message framing: TCP delivers any split of the byte stream.

### What makes each component correct

* slim server: the list of active clients is the set of players served; a
  connection is always being read; a silent player is dropped and one that
  answers is not; a stop ends.
* http server: a connection gets one reply, a stream gets only audio, a
  connection that fails is closed, and its player is told to come back.
* parsers: the same messages whatever the split of the bytes.
* plug-in: callbacks use a server only while it exists; enable, disable and
  quit leave the right things running and registered.

## 2. Modules

| module | models | checked by | proofs |
|---|---|---|---|
| `SlimServer` | acceptor, connection manager, connections (read loop, status timer, client state) of the control server, and the client list | `MCSlimServer` | `SlimServer_proofs` |
| `PlayerRegistry` | abstract specification of what the control server promises about players | `RegistrySpec` in `MCSlimServer` | `SlimServer_proofs` |
| `SlimRegistry` | the refinement mapping from `SlimServer` to `PlayerRegistry` | `MCSlimServer` | `SlimServer_proofs` |
| `SlimBroadcast` | `SlimServer` with the host as a second thread: sends in the middle of handlers, broadcasts, sends that time out | `MCSlimBroadcast` | `SlimServer_proofs` |
| `ClientMsgParser` | the bytes of a player's messages, their split into reads, the parser, and `handle_read`'s use of it | `MCSlimProtocol` | `ClientMsg_proofs` |
| `ClientMsg` | what a HELO's data become: device name, revision, MAC address, the entry of the client list | `MCSlimProtocol` | `ClientMsg_proofs` |
| `ServerMsg` | the bytes of the control server's messages, and a player that reads them | `MCSlimProtocol` | `ServerMsg_proofs` |
| `HttpServer` | acceptor, connection manager and connections of the streaming server, and the host thread that sends through it | `MCHttpServer` | `Streaming_proofs` |
| `Streaming` | `HttpServer` composed with the playback callbacks, the stream commands and the players that obey them | `MCStreaming` | `Streaming_proofs` |
| `RequestParser` | the HTTP request parser | `MCHttpRequest` | `RequestParser_proofs` |
| `Reply` | replies as they are written, and a client that reads them | `MCHttpRequest` | `RequestHandler_proofs` |
| `RequestHandler` | URL decoding, choice of the reply, the player named by a request | `MCHttpRequest` | `RequestHandler_proofs` |
| `Plugin` | threads, server pointers and callbacks of the plug-in, the named mutex and the segment | `Preferences`, and itself | `Preferences_proofs` |
| `Preferences` | `Plugin` with the settings page, the settings and the ports of the servers | itself | `Preferences_proofs` |

`DataInduction` models nothing: it has the lemmas on induction, folds and recursive
functions that the proofs share (section 4).

Names are the source's; the trailing underscore of C++ members is dropped.
Operators named `X_Something` before an `X` are wrong versions of it, each of
which some property must notice.

### SlimServer

Every completion handler runs on the one `io_service` thread and is one action:
`HandleAccept`/`HandleAcceptError` (`handle_accept`), `HandleStop`, `HandleRead`
by what was read (`HandleHelo`, `HandleStat`, `HandleBye`, `HandleOther`,
`HandleReadError`, `HandleReadAborted`), and `HandleStatusTimer`. The state of an
asynchronous operation is its completion: `readOp[c]` is `"pending"`, or what the
read completed with, queued for its handler, or `"none"`; `acceptOp` likewise.
The timer has `armed` (a wait is pending) and `queued` (handlers of expired or
cancelled waits: the code ignores which, so the model counts them together).
`Close(S)` is `connection::stop` on every connection of `S`, and what it queues is
in `CancelWaits` and `AbortReads`.

`disconnect` calls `remove_client`, then `connection_manager::stop`, which calls
`remove_client` again; the second call erases the entry of the empty MAC address,
which does not exist, so both calls are one `Close`. Messages are whole: framing
is the parser's business. `"OTHER"` stands for the commands with empty branches,
for incomplete input, and for input the parser rejects, which all change nothing
here but the read operation. The handlers of different operations may run in any
order; the `io_service` queue is more orderly than that, so what holds here holds
there.

The environment: players connect, send, leave (`"gone"` closes its end, `"dead"`
falls silent), accepts fail, polls expire. `Responsive` players are heard from at
least every `Slack` poll periods plus one. `quiet` counts poll periods since the
server last handled a `HELO` or `STAT`; it is not state of the program.

A `HELO` here is one whose data the server can handle; what it makes of the others
is in `ClientMsg`. `remote_endpoint` throws in its handler if the socket was closed
meanwhile, and may if the player has gone (`HandleHeloThrows`). A blocking `send` with its one second timeout, whose result the
callers ignore, has no effect on this state; `SlimBroadcast` has the sends.

Bounds: `Conn` is the number of connection objects ever created (two: an old and a
new connection of one player, or two players); when it is used up no further
connection is accepted. `MaxHelo` is 1, what players do (section 3 says
what 2 shows).

### SlimBroadcast

`SlimServer` has one thread. Here HELO and the poll begin with their sends
(`HeloBegins`, `PollBegins`, `SlimSends`) and end, in `SlimEnds`, as `SlimServer`'s
`HandleHelo` and `HandleStatusTimer`; the other handlers send nothing and are
`SlimServer`'s (`Silent`). Between any two steps the host's thread may take one of
its own: `HostCalls` begins a callback, whose sends (`Calls`) go through
`connections_` one connection at a time (`HostVisits`), ask `device_initialized_`
or not (`Ready`), and send (`HostSends`), or stray through a `native_socket_` that
HELO has not set yet, or whose socket was closed after the loop came to it and whose
handle another socket may have by now (`HostStrays`: no socket, or the socket of any
open connection; `misled` remembers who got a message through a closed one's
handle). `HostStops` is `server::stop`. A send is `Written` if the player's
socket has room, `TimedOut` after a second if not, when part of the message may
have gone (`torn`), or `Refused`. A torn player has lost its place, finds no more
polls and so answers none.

`SlimServerSpec` says that all this is still `SlimServer`: what holds there holds
here. It works because a HELO changes what others look at only at its end: the
client list is locked meanwhile, `mac_address_` is asked for only with
`device_initialized_`, which is set last. (`get_mac_address` reads the string
while a HELO may be assigning it, and the loop over the set may meet an insertion;
both are undefined, and outside the model: a visit is one step.)

Bounds: one connection object and one player, `Room` 1 (one message fits, the next
one waits), callbacks of one or two sends, `DISCONNECT_COUNT` 2. A connection's
sends, timer and removal involve no other connection but for stray sends, which
the proofs cover for any number of them.

Fairness (`BroadcastFairness`): the host's thread goes on with a callback it has
begun (but owes none), the `io_service` goes on with a handler it has begun and
runs every queued one, an armed timer expires, and a read on a connection whose
other end was closed completes. Handlers are SF because another handler's send
disables them for a while. Nothing is assumed of a player: one that never reads
costs each send a second.

### ClientMsgParser

`Send` puts a message on the stream, `Read(n)` delivers the next `n` bytes,
`Consume` is one call of `consume` by `handle_read`'s loop. `Complete` and
`ConsumeInvalid` are the two results: in both the message is cleared, the parser
reset and the rest of the read dropped (`Drop`), because `handle_read` ignores how
far `parse` got. A byte has `ByteBase` values instead of 256; what matters is that
the upper half is negative (`SignedByte`). With base 26 a length of one byte has
both halves, device codes go beyond the known ones, and the stream stays short
enough for every split of it into reads to be tried.
A `paced` player waits until its last message was read, which is what keeps two
messages out of one read. `Orderly` is what the code copes with: paced, and no
length byte in the upper half.

### ClientMsg

Extends the parser: the step that completes a message also does what
`handle_client_msg` does with a HELO's data (`HandleHelo`). `process` is terminated when
`sprintf_s` would not return (a revision in the upper half of the byte is a
negative `char`, which "%u" prints with ten digits) or when there is no MAC
address to index. Indexing an empty vector is undefined in the language; that it
ends the process is what the checked build does, and no property relies on
anything better. It may also be ended by the exception of `remote_endpoint` on a
socket that was closed or reset meanwhile (`"thrown"`); when that is so is
`SlimServer`'s business, and here it may happen at any HELO. `HeloListed` says that
the list shows what was sent, as long as the process runs.

### ServerMsg

A message is a record of the fields that the callers set; `ToVector*` is what goes
on the wire; `SendData` appends it, `PlayerReads` takes off what the first length
says. `Framed` says that a message's name is found there, `GainRight` reads the
gain back: the product of 65535 and the volume goes through a `short int` and an
arithmetic shift of a negative number, and still comes out right. Volumes are
those at the edges (0, 1, 63-65, 100, 127-129, 255), URLs may make the length need
both its bytes. `MCSlimProtocol` checks both directions in one run, one at a time:
they share no state.

### HttpServer

The completion handlers of the http thread are one action each, as in
`SlimServer`; `op[c]` is the connection's one asynchronous operation and `done[c]`
what it completed with. `handle_write_stream` is two actions,
`HandleStreamReady` and `HandleStreamSocket`, because the host's thread can come
between. The host's `on_chunk` copies the set (`OnChunk`) and then sends to one
connection after the other (`SendSkips`, `SendWorks`, `SendFails`, `SendStrays`);
`OnPlaybackStop`, `StopServer` and `Join` are its other calls. The first send to a
closed end succeeds, the next one fails (`client[c] = "reset"`), and one to a
stalled client fails after its second. An uninitialised `native_socket` is the
socket of any open connection (`SendStrays`). Objects are reused when nothing
refers to them (`Free`), so that two of them are enough for any number of
connections, two at a time; when none is free the next client waits.

Each operation on `connections_` is one step; the set has no lock, so that what
a real race inside it does is undefined and outside the model. The parser is what
it answers: `Request` is "more", a stream, a page, or a bad request.

With `AcceptMayFail` an accept may fail, and `run()` may then return and the server
be deleted under the host; nothing is said of the host's sends after that.

### Streaming

`HttpServer`'s actions with, beside them, `track` (what the host does),
`send_play`, `is_playing`, the commands under way to each player and what the
player does with them: "s" makes it drop its stream and open another, "q" drop it.
`Chunk` is the part of `on_chunk` before its loop, `ChunkSend` one turn of the
loop with the new play command after a failed send. The control server appears as
the set of registered players, `SlimServer`'s `device_initialized`. Left out: the
host between the two statements of `handle_write_stream` (`HttpServer`), volume and
status messages, cut sends (`SlimBroadcast`), `BYE!` and timeouts (`SlimServer`).

`CalmHost` lets the user act only when the players have settled, `EarlyHelo` lets
players register only while nothing plays; section 3 says what happens without. Bounds: `MaxCmds` is what fits in a player's socket,
`MaxLosses` the number of streams that are lost, `Conn` the streams at a time. A
stream is lost when its player stops reading, or closes or resets it without being
told to (`Loses`), once it has read the header unless `EarlyLoss`.
Fairness: the threads, the network and the players go on, chunks come while a
track plays; the user owes nothing.

### RequestParser

`To` is the next state and `Parsed` the request after one character; `Consume` is
one call of `consume`, and `text` remembers what was sent. The reference is
`IsRequest`, a description of requests without states: where their lines end
(`LineEnds`), and for each part, what stands from one place to another
(`IsRequestLine`, `IsVersion`, `IsHeader`, `IsValue`). `IsBegun` says that some end
of a complete request completes the text. There is one character for each kind the parser tells apart; leading
zeros of version numbers, which it forgets, are not sent (there is no digit 0).
`MaxExtra` counts what a request has beyond the shortest one; characters of the
request line count twice. With 4 there are up to four headers, or one with a name,
a value and a continuation line of several characters, or a request line with two
more characters. In headers only one character of those the parser does not tell
apart there is sent (`LikeP`).

### Reply and RequestHandler

`HandleRequest` is `url_decode`, the cut at "?", the check of the path, the
extension and the reply; `ClientsChange` is the control server's thread, which
changes the list while the reply is on its way. `GetMacAddress` is
`connection::get_mac_address`. `NumberIn` is what `istringstream >> hex` does with
two characters, a sign or a short number included. Characters stand for
themselves, but four names ("stream.pcm", "player", "html", a MAC address) are
one character each. Inputs: all URIs of up to four of nine characters, and every
spelling (each character escaped or not) of the URLs of play commands and of
paths with "..". `MCHttpRequest` checks the parser and the handler in one run, one at a
time: they share no state, and each has characters of its own.

`Reply` is the status line, the headers, the empty line and the content as
`to_buffers` puts them together, one item each, so that a length counts items. The
client passes over header lines it cannot read, such as the page's second one,
which has a value and no name (`request_handler.cpp:111`), and takes the content
by its length, or all of it until the connection is closed. `ReplyRead` relates
what it reads to the list as it was when the request was handled.

### Plugin and Preferences

`worker[s]` is where the thread of server `s` is, `main` where the main thread is
(`g_stop_server` is called by `apply` and by `on_quit`, and waits in `join`).
`pointer[s]` is what the global pointer points to; it is set by the thread and
never reset. A call through a pointer to nothing sets `fault` and ends the
behaviour. Handlers of both servers lock the named mutex (`WantLock`, `Lock`,
`Unlock`); `Crash` kills the process at any point and starts it again, and the
mutex and the segment outlive it.

`Preferences` adds the page: `box` is what its controls hold, `cfg` the settings,
`told` whether the host shows that there is something to apply, and `bound` the
ports the servers were constructed with, read by their threads some time after
`apply` (`PageConstruct`). `ShownRuns` relates the four. `apply` is Plugin's, in
the steps of `g_stop_server`, and ends with `OnChanged` (`PageApplied`).

`loop[s]` is what `run()` of a server still waits for, an abstraction of `SlimServer`
and `HttpServer`: the next accept (`"accept"`), only the players there are after an
accept has failed (`"failed"`, `AcceptFails`), one player that was accepted behind the
stop (`"late"`, one outcome of `HandleStop`), or nothing more (`"closed"`). `RunReturns`
follows `"closed"`, and `"failed"` without any stop: the thread then deletes the
server under the host. `NothingElseMissing` says that this (`EndedAlone`) and a call
before the server is constructed (`NotYet`) are the only ways to a bad pointer, and
that the segment is never missing. The host calls whenever it likes.

`CallbacksCount`: settings applied while the servers stay enabled register the
callbacks again, and `on_quit` unregisters them once. Nothing in the repository
says what the host does with a callback that is added twice; the run has one that
does not count it. Callbacks run between the steps of the main thread's other
calls, not inside them. `MaxRegistered` bounds the count where there is one.

Two ports, so that the page can swap them, or enter one twice: both servers then
bind the same port, which the acceptors' `reuse_address` lets them do; that a
constructor throws, because some other program has the port, is not modelled.

Fairness: threads are scheduled, a mutex that is released again and again is given
to each that waits for it, a posted `handle_stop` is run, and `run()` returns when
nothing is left to wait for. That an accept fails, a handler wants the mutex or a late
player leaves is not assumed. One strong fairness does for `handle_stop` and the end
of `run()` of both servers, since each comes once while the main thread waits.

## 3. Runs

| run | shows |
|---|---|
| `slim_server` | two connections, two players, early reconnects: `NoGhost`, `ReadOutstanding`, `Watched`, `CounterSane`, `CountsTimeouts`, `ResponsiveKept`, `ExitLeavesNoClient` |
| `slim_registry` | with orderly reconnects the control server implements `PlayerRegistry`: the list is the set of active players |
| `slim_broadcast` | the same server with the host's thread beside it: `SlimServerSpec` (it still is that server), `SetupFirst` (no stream command before the set-up), `HostReturns`, and what must happen in the end: silent players, those that lost their place and those that left are dropped, and a stopped server ends, unless a connection was accepted behind the stop, and then with that connection |
| `slim_half_open` (violation) | an early reconnect removes the player from the list |
| `slim_protocol` | three messages in every split into reads: from a player that sends one at a time each is handled, whole and in order, and its HELO is listed; sent back to back some are lost, none is made of two pieces; framing of any two server messages, the gain to the last bit |
| `helo_revision` (violation) | a complete HELO with a high firmware revision ends the process |
| `http_server` | two connections at a time, both threads, failing accepts: `AudioAfterHeader`, `SendsOnOpen`, `OpenManaged`, `NoDeaf` |
| `http_stray` (violation) | a chunk through an uninitialised socket |
| `streaming` | two players, two connections, two streams that stall or are closed or reset: never two streams of one player in the manager; lost streams are closed; known players get the track's audio and keep getting it |
| `http_request` | the parser accepts exactly the requests, and loses nothing of them; a browser reads each reply whole (`ReplyRead`), the player of a stream is found, no path leaves the root, however spelt |
| `plugin` | start, the settings page with every edit and apply, unloading, callbacks, failed accepts, late players and one crash: nothing is missing when it is used but a server that is not there yet or ended by itself, no leftover callback or thread, a page with nothing to apply shows what runs but for a server that ended by itself, the main thread gets back |
| `plugin_alone` (violation) | a server goes although nobody stopped it |

The instances are small and chosen for the case that matters: two connections show
an old and a new one, two players show whose entry is whose, in
`streaming` the two connections are a stream of each player, or an old and a new
one of the same player. Liveness runs use no symmetry.

`ResponsiveKept` has an edge worth knowing: a report that is handled between an
expiry and its handler resets the counter too early, so the counter can be one
ahead of the quiet periods (`CountsTimeouts`), and a player must report within
`DISCONNECT_COUNT - 1` periods, not `DISCONNECT_COUNT`, to be sure to be kept.

### What the assumptions hide

Several passing properties hold under an assumption that the code does not
enforce. Each can be lifted by changing the value named here, and TLC then finds
the counterexample described:

* `slim_server` with `MaxHelo = 2`: a second HELO cancels the pending wait, whose
  handler ignores its error code (`connection.cpp:436`) and counts a missed poll
  (`CountsTimeouts`), re-arms the timer and so cancels the next wait, until the
  player is dropped.
* `slim_broadcast`: `StopEnds` excepts a stop behind which a player was accepted. One
  that was accepted just before `handle_stop` ran is started after `stop_all`
  (`server.cpp:71`) and keeps `run()` from returning as long as it lives; when it has
  gone, `run()` returns (the second half of `StopEnds`). It also allows
  `thread = "terminated"`: a HELO read just before the stop is handled on a closed
  socket, `remote_endpoint` throws (`connection.cpp:495`), and nothing catches that.
* `slim_broadcast`: `SetupFirst` excepts a player that got a message meant for
  another one, through the handle of a socket that was closed between the host's look
  at the connection and its `send` (`connection.cpp:430`).
* Both servers' `handle_accept` go on accepting only after a success
  (`server.cpp:69`): after one failed accept no new client is served, and `run()`
  returns with the last connection that has an operation outstanding. In
  `HttpServer` a stream has none, so that the server can be deleted while the host
  sends through it. `plugin_alone` shows it, against the comments in `server::run`,
  which say that an accept is always outstanding. After it the pointers stay set, the
  next callback, apply or on_quit uses a deleted server (`NothingElseMissing` excepts
  it), and the page still shows the servers as enabled, with nothing to apply
  (`ShownRuns` excepts it).
* `plugin`: `HostGetsBack` excepts what keeps `join` for good: a mutex whose holder
  was killed (`connection.cpp:470`), a player accepted behind the stop that stays, and
  what comes after a call through a bad pointer.
* `slim_protocol` without `Orderly` in `AllHandled`: a second message in the same read is
  dropped with the rest of the read (`connection.cpp:382`), and a length byte of
  128 or more is negative (`client_msg_parser.cpp:42`).
* `streaming` with `EarlyHelo = FALSE`: a player that registers during a track gets
  no play command (`foo_sbs.cpp:85`) and stays silent (`Streamed`).
* `streaming` with `CalmHost = FALSE` (one player and no lost stream are enough): a stop and a start close together leave an old
  stream of a player in the manager; its failing sends make the player drop the
  stream that works, again and again (`foo_sbs.cpp:121`, `StaysTuned`).
* `streaming` with `EarlyLoss = TRUE`: a player that closes its connection before the
  server has answered is not in the set of streams, no send to it fails, and it gets no
  further play command (`Streamed`).
* `plugin`: `NothingElseMissing` excepts a server that was started and is not
  constructed yet: `stop` or a callback goes through a pointer that its thread has not
  set, or to the server deleted before (`foo_sbs.cpp:226`).
* `plugin` with `CallbacksCount = TRUE`: callbacks are registered twice and
  unregistered once (`QuitClean`).
* `slim_protocol`: `HeloListed` is about an orderly player and a process that goes
  on; a HELO with fewer than eight bytes of data or a revision of 128 or more ends
  it (`helo_revision`), and so does one whose socket is closed or reset by then.

Two disagreements between a comment and the code are about data that no property
mentions: 24 bits per sample are announced as '2', which `server_msg.hpp:99` says is
20 (players take it for 24), and `url_decode` accepts `%2g`, which
`request_handler.hpp:41` says it refuses.

## 4. Proofs

Each theorem holds for every value of the constants that satisfies the named
ASSUMEs of the modules, and under the hypotheses it states itself. TLC checks the
same properties on the runs of section 3, on small instances.

| module | theorems | hypotheses |
|---|---|---|
| `SlimServer_proofs` | `TypeOK`, `NoGhost`, `ReadOutstanding`, `ExitLeavesNoClient` | none |
| | `Watched`, `CounterSane`, `CountsTimeouts` | `MaxHelo = 1` |
| | `ResponsiveKept` | `MaxHelo = 1`, `Slack + 2 <= DISCONNECT_COUNT` |
| | of `SlimBroadcast`: `SlimServerSpec` (the refinement), `SetupFirst`, `NoGhost` | none |
| | `RegistrySpec`, of `SlimServer` and of `SlimBroadcast` | `MaxHelo = 1`, `~HalfOpen` |
| `Streaming_proofs` | of `HttpServer`: `TypeOK`, `AudioAfterHeader`, `SendsOnOpen`, `OpenManaged`, `NoDeaf` | none |
| | of `Streaming`: `HttpServer`'s again, but for `TypeOK`, with callbacks and players around it (`StreamingKeeps`) | none |
| | `OneStream` | `CalmHost` |
| `ClientMsg_proofs` | `Contiguous`, `AllHandled`, `HeloListed` | none (`Orderly` is in the second and the last) |
| `ServerMsg_proofs` | `Framed`, `GainRight` | none |
| `RequestParser_proofs` | `AcceptsExactly`, `NothingLost`, and `Kept`, from which the second follows | none |
| `RequestHandler_proofs` | `ReplyRead`, `PlayerFound`, `NoParent`; `ParentRefused` and `StreamFound`, for any path with ".." and any parameters of the stream | none; the last two are about URIs without "%" and "+" of their own, which `Escapes` has no spelling of |
| `Preferences_proofs` | `Preferences` implements `Plugin` (`PageIsPlugin`); `TypeOK`, `ShownRuns` | none |
| | `QuitClean` | `~CallbacksCount` |
| | `NothingElseMissing` | `~CallbacksCount` |

`DataInduction` holds no theorem about the program.

The hypotheses are values of the switches of section 3, which says under "What the
assumptions hide" what the code does without them.

### The control server

`TypeOK` is not inductive alone (`TypeInv` adds that an accepted player has an
object). `SafeInv` adds who owns each socket (`SocketInv`, `AcceptInv`), and that
a connection's client state is all set or all clear (`ClientInv`); `NoGhost` needs
it because erasing by MAC address is only right if the address is cleared once.
`WatchInv` counts the status waits of each connection and relates the counter to
the time gone by; it needs that a second HELO cannot come. `KeptInv` adds why a
socket may be closed at all: the player left, or the counter ran out.

`SlimBroadcast` implements `SlimServer` for any connections, players, callbacks and
room: every step is one of its steps or leaves its variables alone
(`BroadcastImplementsServer`). `SlimServer`'s theorems carry over
(`BroadcastNoGhost` is an instance). `SetupFirst` needs that a handler in the
middle of its sends is on the connection it began with, that a connection is ready
only after both messages were offered, and that this is never taken back:
`device_initialized_` is set by HELO's end alone (`ReadyNotOutside`), and a stray
send adds to what was offered, and to `misled` where it is no setup (`OfferGrows`).

`SlimServer` implements `PlayerRegistry` under the mapping of `SlimRegistry`
(`ServerImplementsRegistry`), one lemma per kind of step. What the mapping needs
beyond `SafeInv` and `WatchInv` is `RegInv`: a player has one open connection
(`OneOpen`), so that "the player's connection" means something; the entry of a
player that can be commanded was written by that connection (`OwnEntry`), so that
erasing it ends this session and no other; and the read loop ends a connection
that is still open only after its player has left (`LeftInv`), which is why a
registry step may say so. The two refinements compose.

### The streaming server

`SafeInv` of `HttpServer`, in `Streaming_proofs`, has four parts. `AcceptInv` says which object the
accept holds and that nobody else has it yet. `SocketInv` ties a socket to the
manager and to the operation: what is managed is open, what is open and not
managed waits for its accept handler, an aborted operation is on a closed socket.
`OpInv` says which completions an operation can have, and that a ready stream has
none but the one `handle_write_stream` is in the middle of. `GotInv` is what the
client has when the reply is about to be written and after the header was. The
part one would not guess is `HostInv`: a connection in the host's copy of the set
whose socket was closed meanwhile never becomes ready, because nobody but the
host itself stops a ready stream while the host is sending.

The second half carries `SafeInv` through the composition: every step of
`Streaming` is one of `HttpServer` or leaves it alone, except that a player may
drop a stream that the server has closed already (`DropSafe`). For `OneStream`
`PlayInv` counts what can become a stream of a player: a play command under way,
a stream about to be opened, and an open socket exclude one another (`OneOf`), and
before the first chunk of a track there is none of them (`Quiet`). `Placed` adds
that a request names the player at the other end. Two hypotheses one might expect
turned out not to be needed: accepts may fail, and players may register at any
time.

### Messages

`ParserInv` places the parser in the stream: what it has of a message are the bytes
behind `Base` (`PlaceInv`), and each handled message stands somewhere in the
stream (`HandledInv`); `Contiguous` follows. `AllHandled` needs `OrderInv`: of an
orderly player all but the last message were handled, and the last one is being
parsed from its first byte on.
`HeloListed` needs `ListInv`, which says of every message handled so far, not of
those sent, what it left in the list.

The wire of `ServerMsg` is cut at the ends of messages: `Wired` says that there are
positions between which the bytes are each pending message's, and `WellMade`, one
lemma per kind of message, that a message's first two bytes are the number of
those behind them. `GainRight` rests on `WordValue`, that a number below 65536 and
the short int it is cast to have the same two bytes, and on the volume's product
staying below 65536. URLs are at most 65000 bytes and ports below 65536
(`UrlAssumption`, `PortAssumption`).

### Induction over data

The library's induction theorems take a predicate as a parameter, which no prover
here can instantiate. `DataInduction` says the same of sets and functions: a set of
numbers that has 0 and each successor has all of them (`NatSetInduction`); a
recursive function whose arguments descend exists (`RecursionExists`) and is the
only one (`RecursionUnique`); `FoldLeft` of a sequence with one more element is one
more application (`FoldExists`, `FoldAppend`). A definition is used by showing that
it is such a function, and a predicate by the set of numbers that have it. So what
`Unfolded`, `RenderHeaders`, `Decimal`, `Decode` and `Spellings` make of inputs of any
length is proved, although they are recursive.

### The request parser

`NothingLost` is about accepted texts only. `Kept` says it of every state: the text
so far without its folds is what the parts of the request would be written as up to
the place where the parser is (`LineKept`, `HeaderKept`), with the white space of an
unfinished fold not counted and the line break before it taken back. The last is
why `LfEnds` is there: only where a fold may begin does the text end in a line
break. A new character adds to both sides alike, by the fold equations.

`AcceptsExactly` compares a state machine with a grammar that has none. Between them
is `Run`, the states that a text leads through, given by a table (`Goto`). The table
tells the first header line from the later ones, which `consume` tells by whether
`headers` is empty; `Tracks` says that the parser is where the run is, and needs
`Kept` for that (no header in the request line, one when a header line ends). What
is left is about texts:

* a request is read to its end (`RequestRuns`), part by part, by induction on places:
  for values the run is tied to the text character by character (`InValue`);
* a text that is read to its end is a request (`RequestFound`): the places that the
  grammar asks for are those where the run leaves a state for the first time
  (`FirstLeft`), and the lines of the grammar are those of the run (`EndsAre`);
* a text that is not refused can be completed (`Begun`): the completion is taken from
  the state that the run is in, and the completed text is a request by the second.

That a refused text cannot be completed follows from the first: nothing leads out of
a refusal (`NeverBad`).

### The request handler

`SpellingDecodes` says that `url_decode` gives back what was spelt, whatever was
escaped. `Decode` works from the left and `Spellings` grow on the right, so that the
induction needs the two facts in the middle: characters are decoded alike behind
whatever stands before them (`OutShift`), and what one spelt character and a rest
are decoded to is the character and what the rest is (`SpeltOne`, `SpellingMeans`).
The characters have to be those that `url_decode` does not read in some way of its
own, or to have an escape (`Plain`, `EscapesRight`).

`Answered` ties the reply, the path and the parameters to the URI of the request.
With `SplitAt` (what is cut at the first question mark) `ParentRefused` follows: every
path with two dots in a row, of any length and with any parameters, is a bad
request. `NoParent` is this for the paths of the run; `PlayerFound` adds what
`get_mac_address` finds in the parameters of a play command.

Proving it found a mistake in the model: two cases of the reply overlapped, so that
for an invalid escape behind the "?" of a stream's URL either could be chosen. In
the code the check for it comes first (`request_handler.cpp:37`), and now in
`HandleRequest` too.

### Replies

`ToBuffers` is four sequences one behind the other; `ReplyWritten` says which item
is where (`Written`), and from that `HeadersEnd`, `LengthsRead` and `ReadsWhole` say
what a client finds, for any number of headers and pieces of content. `ReplyRead`
follows for each of the three replies the handler makes. `ReplyInv` adds that a
page shows `seen`, the list at the time of the request; how the URI was decoded
and which reply was chosen do not matter to it.

### The plug-in

`ThreadInv` ties the thread, its loop, the pointer to its server and the pointer to
the thread of each server to each other and to the place the main thread is at;
`PlaceInv` says what has been done by then. `CountInv` (for a host that does not
count) relates registrations to `callback_registered`. `Gone` draws the conclusion for
a call: a thread that is set, on a server that is not live, has not constructed it
or has ended after a failed accept. They hold through crashes, since a crash resets
what they are about. `Preferences` implements `Plugin`
(`PageIsPlugin`), so that these theorems hold behind the page; `ShownRuns` needs
`PageInv`, what the host was told and which ports the servers took.

### What only TLC checks

Liveness under fairness and ENABLED are out of the prover's reach: `HostReturns`,
`SilentDropped`, `GoneDropped`, `StopEnds`, `HostGetsBack`, `LostStreamClosed`,
`Streamed` and `StaysTuned` are checked on the runs' instances only. Every invariant
and every refinement that a passing run checks is proved. The four runs that expect
a violation show what the code does on one instance; there is nothing to prove.

## 5. Not modelled, and the plan

Not modelled: the wording of stock pages and log lines; the time and address in a
client's entry; the SDK and Boost, except as their callers see them; races inside
`std::set` and `std::string`; exceptions of the servers' constructors; the capacity
of the segment; the sample rate of chunks against the one that was announced
(`foo_sbs.cpp:83`: it depends on when the host changes it).

Next:

1. The lifecycle of a player over the whole system: the set of registered players
   in `Streaming` against `SlimServer`'s list.
2. `GetMacAddress` for parameters of any number and order, as `ParentRefused` has
   every path: what is proved is about the three forms of a play command.
