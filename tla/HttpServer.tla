----------------------------- MODULE HttpServer -----------------------------
(***************************************************************************)
(* The streaming server (src/http_server: server, connection_manager,      *)
(* connection) and the calls foobar2000's thread makes into it             *)
(* (src/foo_sbs/foo_sbs.cpp: on_chunk, on_playback_stop, g_stop_server).   *)
(*                                                                         *)
(* Two threads: one runs the io_service, where a completion handler is one *)
(* action; the host's runs the callbacks.  They share connections_, and    *)
(* per connection ready_for_stream_, native_socket_ and the socket, with   *)
(* no lock.  One operation on the set is one step here; handle_write_stream*)
(* and the host's loop over the connections are steps of their own.        *)
(***************************************************************************)
EXTENDS Integers, FiniteSets

CONSTANTS
    Conn,           \* connection objects the server may create (a bound)
    Mac,            \* MAC addresses of the players
    NoConn, NoMac,  \* "no connection", a request without a player
    AcceptMayFail   \* may an accept fail for want of resources?

ASSUME SentinelAssumption == NoConn \notin Conn /\ NoMac \notin Mac
ASSUME AcceptAssumption == AcceptMayFail \in BOOLEAN

VARIABLES
    \* server
    thread,             \* the io_service thread: "running", "exited"
    stop,               \* handle_stop: "no", "posted", "handled"
    acceptOp,           \* async_accept: "none", "pending", or its completion
    new_connection,
    \* connection_manager
    connections,
    \* connection
    sock,               \* "none" (not accepted yet), "open", "closed"
    op,                 \* the asynchronous operation: "none", "read", "write",
                        \* "write_stream"
    done,               \* "pending", or what its handler will be called with
    url_params,         \* the player named by the request
    ready_for_stream,
    native_socket,      \* "uninit", "socket", "invalid"
    io,                 \* the connection in the middle of handle_write_stream
    \* host
    host,               \* "idle", "sending" (on_chunk), "joining", "joined"
    todo,               \* connections on_chunk has still to send to
    \* clients
    client,             \* "up", "stalled" (does not read), "gone" (closed its
                        \* end), "reset" (and a send has found out)
    asker,              \* the player at the other end, or NoMac
    got                 \* "nothing", "page", "header", "audio"; "garbled" when
                        \* these came in another order, "stray" when audio of
                        \* another connection came

serverVars == <<thread, stop, acceptOp, new_connection>>
opVars     == <<sock, op, done>>
streamVars == <<url_params, ready_for_stream, native_socket, io>>
hostVars   == <<host, todo>>
clientVars == <<client, asker, got>>
vars == <<serverVars, connections, opVars, streamVars, hostVars, clientVars>>

\* What a read may bring the parser to.
Request == {"more", "stream", "page", "bad"}

-----------------------------------------------------------------------------
(* The server's constructor has started the first accept. *)

Init ==
    /\ thread = "running"
    /\ stop = "no"
    /\ acceptOp = "pending"
    /\ new_connection \in Conn
    /\ connections = {}
    /\ sock = [c \in Conn |-> "none"]
    /\ op = [c \in Conn |-> "none"]
    /\ done = [c \in Conn |-> "pending"]
    /\ url_params = [c \in Conn |-> NoMac]
    /\ ready_for_stream = [c \in Conn |-> FALSE]
    /\ native_socket = [c \in Conn |-> "uninit"]
    /\ io = NoConn
    /\ host = "idle"
    /\ todo = {}
    /\ client = [c \in Conn |-> "up"]
    /\ asker = [c \in Conn |-> NoMac]
    /\ got = [c \in Conn |-> "nothing"]

-----------------------------------------------------------------------------
(* Parts of handlers. *)

\* Start operation o of c; on a closed socket it completes with an error.
StartOp(c, o) ==
    /\ op' = [op EXCEPT ![c] = o]
    /\ done' = [done EXCEPT ![c] = IF sock[c] = "open" THEN "pending" ELSE "failed"]

\* connection::stop on every connection of S: pending operations are aborted.
Close(S) ==
    /\ sock' = [c \in Conn |-> IF c \in S THEN "closed" ELSE sock[c]]
    /\ done' = [c \in Conn |-> IF c \in S /\ op[c] # "none" /\ done[c] = "pending"
                               THEN "aborted" ELSE done[c]]
    /\ UNCHANGED op

\* connection_manager::stop, called by the handler of c's last operation.
\* Mutant: the connection is erased and not stopped.
StopSelf_Open(c) ==
    /\ connections' = connections \ {c}
    /\ op' = [op EXCEPT ![c] = "none"]
    /\ done' = [done EXCEPT ![c] = "pending"]
    /\ UNCHANGED sock
StopSelf(c) ==
    /\ connections' = connections \ {c}
    /\ sock' = [sock EXCEPT ![c] = "closed"]
    /\ op' = [op EXCEPT ![c] = "none"]
    /\ done' = [done EXCEPT ![c] = "pending"]

\* An operation that was aborted: its connection has been stopped already.
Forget(c) ==
    /\ op' = [op EXCEPT ![c] = "none"]
    /\ done' = [done EXCEPT ![c] = "pending"]
    /\ UNCHANGED <<connections, sock>>

-----------------------------------------------------------------------------
(* The clients and the network. *)

ClientConnects(m) ==
    /\ acceptOp = "pending" /\ new_connection # NoConn
    /\ acceptOp' = "connected"
    /\ sock' = [sock EXCEPT ![new_connection] = "open"]
    /\ asker' = [asker EXCEPT ![new_connection] = m]
    /\ UNCHANGED <<thread, stop, new_connection, connections, op, done,
                   streamVars, hostVars, client, got>>

AcceptFails ==
    /\ AcceptMayFail
    /\ acceptOp = "pending"
    /\ acceptOp' = "failed"
    /\ UNCHANGED <<thread, stop, new_connection, connections, opVars, streamVars,
                   hostVars, clientVars>>

\* A read completes with data; nothing is read after the request.
ClientSends(c, r) ==
    /\ op[c] = "read" /\ done[c] = "pending" /\ client[c] = "up"
    /\ done' = [done EXCEPT ![c] = r]
    /\ UNCHANGED <<serverVars, connections, sock, op, streamVars, hostVars, clientVars>>

ClientLeaves(c) ==
    /\ sock[c] = "open" /\ client[c] \in {"up", "stalled"}
    /\ client' = [client EXCEPT ![c] = "gone"]
    /\ UNCHANGED <<serverVars, connections, opVars, streamVars, hostVars, asker, got>>

ClientStalls(c) ==
    /\ sock[c] = "open" /\ client[c] = "up" /\ got[c] \in {"header", "audio"}
    /\ client' = [client EXCEPT ![c] = "stalled"]
    /\ UNCHANGED <<serverVars, connections, opVars, streamVars, hostVars, asker, got>>

\* What arrives at a client that reads: a page; or a header, then audio.
Receive(c, what) ==
    LET next == CASE what = "stray" \/ got[c] = "stray" -> "stray"
                  [] what = "audio" /\ got[c] \in {"header", "audio"} -> "audio"
                  [] what \in {"page", "header"} /\ got[c] = "nothing" -> what
                  [] OTHER -> "garbled"
    IN  got' = [got EXCEPT ![c] = IF client[c] = "up" THEN next ELSE @]

ReadFails(c) ==
    /\ op[c] = "read" /\ done[c] = "pending" /\ client[c] = "gone"
    /\ done' = [done EXCEPT ![c] = "failed"]
    /\ UNCHANGED <<serverVars, connections, sock, op, streamVars, hostVars, clientVars>>

\* A reply is written whole, or the client has closed its end.
WriteCompletes(c) ==
    /\ op[c] \in {"write", "write_stream"} /\ done[c] = "pending"
    /\ done' = [done EXCEPT ![c] = "ok"]
    /\ Receive(c, IF op[c] = "write" THEN "page" ELSE "header")
    /\ UNCHANGED <<serverVars, connections, sock, op, streamVars, hostVars, client, asker>>

WriteFails(c) ==
    /\ op[c] \in {"write", "write_stream"} /\ done[c] = "pending" /\ client[c] = "gone"
    /\ done' = [done EXCEPT ![c] = "failed"]
    /\ UNCHANGED <<serverVars, connections, sock, op, streamVars, hostVars, clientVars>>

Network ==
    \E c \in Conn : ReadFails(c) \/ WriteCompletes(c) \/ WriteFails(c)

Clients ==
    \/ \E m \in Mac \cup {NoMac} : ClientConnects(m)
    \/ AcceptFails
    \/ \E c \in Conn : \/ ClientLeaves(c) \/ ClientStalls(c)
                       \/ \E r \in Request : ClientSends(c, r)

-----------------------------------------------------------------------------
(* The io_service thread: one handler at a time. *)

Runs == thread = "running" /\ io = NoConn

\* The next accept gets a new object, or waits until one is free (Free).
\* Mutant: the pointer is not reset to a new connection.
NextConnection_None == new_connection' = "null"
NextConnection ==
    LET unused == {c \in Conn : sock[c] = "none"}
    IN  IF unused = {} THEN new_connection' = NoConn ELSE new_connection' \in unused

\* The next accept fails at once when the acceptor was closed.
HandleAccept ==
    /\ Runs
    /\ acceptOp = "connected"
    /\ connections' = connections \cup {new_connection}
    /\ StartOp(new_connection, "read")
    /\ NextConnection
    /\ acceptOp' = IF stop = "handled" THEN "failed" ELSE "pending"
    /\ UNCHANGED <<thread, stop, sock, streamVars, hostVars, clientVars>>

HandleAcceptError ==
    /\ Runs
    /\ acceptOp \in {"failed", "aborted"}
    /\ acceptOp' = "none"
    /\ UNCHANGED <<thread, stop, new_connection, connections, opVars, streamVars,
                   hostVars, clientVars>>

HandleStop ==
    /\ Runs
    /\ stop = "posted"
    /\ stop' = "handled"
    /\ acceptOp' = IF acceptOp = "pending" THEN "aborted" ELSE acceptOp
    /\ Close(connections)
    /\ connections' = {}
    /\ UNCHANGED <<thread, new_connection, streamVars, hostVars, clientVars>>

\* The parser wants more.  Mutant: the connection waits for nothing.
ReadOn_Not(c) == op' = [op EXCEPT ![c] = "none"] /\ done' = [done EXCEPT ![c] = "pending"]
ReadOn(c) == StartOp(c, "read")

\* Mutant: the stream is declared ready before its header was written.
StartStream_Early(c) ==
    /\ StartOp(c, "write_stream")
    /\ ready_for_stream' = [ready_for_stream EXCEPT ![c] = TRUE]
    /\ native_socket' = [native_socket EXCEPT ![c] = "socket"]
StartStream(c) == StartOp(c, "write_stream") /\ UNCHANGED <<ready_for_stream, native_socket>>

\* handle_read of a completed request: handle_request, then the reply.  A bad
\* one may have been found bad before its parameters were read, or after.
HandleRequest(c) ==
    /\ Runs
    /\ op[c] = "read" /\ done[c] \in {"stream", "page", "bad"}
    /\ \E m \in {asker[c]} \cup IF done[c] = "bad" THEN {url_params[c]} ELSE {} :
           url_params' = [url_params EXCEPT ![c] = m]
    /\ IF done[c] = "stream"
       THEN StartStream(c)
       ELSE StartOp(c, "write") /\ UNCHANGED <<ready_for_stream, native_socket>>
    /\ UNCHANGED <<serverVars, connections, sock, io, hostVars, clientVars>>

HandleMore(c) ==
    /\ Runs
    /\ op[c] = "read" /\ done[c] = "more"
    /\ ReadOn(c)
    /\ UNCHANGED <<serverVars, connections, sock, streamVars, hostVars, clientVars>>

\* The error branches of handle_read and handle_write_stream, and all of
\* handle_write, which stops the connection when its page was written.
HandleLast(c) ==
    /\ Runs
    /\ op[c] # "none"
    /\ \/ done[c] = "failed" /\ StopSelf(c)
       \/ done[c] = "ok" /\ op[c] = "write" /\ StopSelf(c)
       \/ done[c] = "aborted" /\ Forget(c)
    /\ UNCHANGED <<serverVars, streamVars, hostVars, clientVars>>

\* handle_write_stream: first the connection is ready, then it has a socket.
HandleStreamReady(c) ==
    /\ Runs
    /\ op[c] = "write_stream" /\ done[c] = "ok"
    /\ ready_for_stream' = [ready_for_stream EXCEPT ![c] = TRUE]
    /\ io' = c
    /\ UNCHANGED <<serverVars, connections, opVars, url_params, native_socket,
                   hostVars, clientVars>>

HandleStreamSocket(c) ==
    /\ thread = "running" /\ io = c
    /\ native_socket' = [native_socket EXCEPT ![c] =
                            IF sock[c] = "open" THEN "socket" ELSE "invalid"]
    /\ io' = NoConn
    /\ Forget(c)
    /\ UNCHANGED <<serverVars, url_params, ready_for_stream, hostVars, clientVars>>

\* run returns when no work is left, and the thread's function deletes the
\* server with the sockets it still has.
RunExits ==
    /\ Runs
    /\ stop # "posted" /\ acceptOp = "none" /\ \A c \in Conn : op[c] = "none"
    /\ thread' = "exited"
    /\ connections' = {}
    /\ Close({c \in Conn : sock[c] = "open"})
    /\ UNCHANGED <<stop, acceptOp, new_connection, streamVars, hostVars, clientVars>>

\* Nothing refers to a connection any more: the shared pointers free the
\* object, which here may be that of the next connection.
Unused(c) ==
    /\ sock[c] = "closed" /\ op[c] = "none"
    /\ c \notin connections \cup todo /\ io # c

Free(c) ==
    /\ thread = "running" /\ Unused(c)
    /\ sock' = [sock EXCEPT ![c] = "none"]
    /\ url_params' = [url_params EXCEPT ![c] = NoMac]
    /\ ready_for_stream' = [ready_for_stream EXCEPT ![c] = FALSE]
    /\ native_socket' = [native_socket EXCEPT ![c] = "uninit"]
    /\ client' = [client EXCEPT ![c] = "up"]
    /\ asker' = [asker EXCEPT ![c] = NoMac]
    /\ got' = [got EXCEPT ![c] = "nothing"]
    /\ new_connection' = IF new_connection = NoConn THEN c ELSE new_connection
    /\ UNCHANGED <<thread, stop, acceptOp, connections, op, done, io, hostVars>>

Handlers ==
    \/ HandleAccept \/ HandleAcceptError \/ HandleStop \/ RunExits
    \/ \E c \in Conn : \/ HandleRequest(c) \/ HandleMore(c) \/ HandleLast(c)
                       \/ HandleStreamReady(c) \/ HandleStreamSocket(c)

-----------------------------------------------------------------------------
(* The host's thread. *)

\* The callbacks run while the server exists.
HostFree == host = "idle" /\ thread = "running"

\* on_chunk, while is_playing: a copy of the set is taken.
OnChunk ==
    /\ HostFree
    /\ connections # {}
    /\ host' = "sending"
    /\ todo' = connections
    /\ UNCHANGED <<serverVars, connections, opVars, streamVars, clientVars>>

\* on_chunk goes on with the next connection.
NextSend(c) ==
    /\ todo' = todo \ {c}
    /\ host' = IF todo = {c} THEN "idle" ELSE host

\* send_data returns 0.
SendSkips(c) ==
    /\ c \in todo /\ ~ready_for_stream[c]
    /\ NextSend(c)
    /\ UNCHANGED <<serverVars, connections, opVars, streamVars, clientVars>>

\* The socket takes the chunk; the first send to a closed end still works.
SendWorks(c) ==
    /\ c \in todo /\ ready_for_stream[c]
    /\ native_socket[c] = "socket" /\ sock[c] = "open" /\ client[c] \in {"up", "gone"}
    /\ Receive(c, "audio")
    /\ client' = [client EXCEPT ![c] = IF @ = "gone" THEN "reset" ELSE @]
    /\ NextSend(c)
    /\ UNCHANGED <<serverVars, connections, opVars, streamVars, asker>>

\* An uninitialised handle may be that of any open socket.
SendStrays(c, d) ==
    /\ c \in todo /\ ready_for_stream[c] /\ native_socket[c] = "uninit"
    /\ sock[d] = "open" /\ d # c
    /\ Receive(d, "stray")
    /\ NextSend(c)
    /\ UNCHANGED <<serverVars, connections, opVars, streamVars, client, asker>>

\* connection_manager::stop by the host.  Mutants: it does not erase; it does
\* not stop the connection.
HostStop_Open(c) == connections' = connections \ {c} /\ UNCHANGED opVars
HostStop_Keeps(c) == UNCHANGED connections /\ Close({c})
HostStop(c) == connections' = connections \ {c} /\ Close({c})

\* The send fails, or times out: on_chunk closes the connection.
SendFails(c) ==
    /\ c \in todo /\ ready_for_stream[c]
    /\ \/ native_socket[c] # "socket" \/ sock[c] # "open"
       \/ client[c] \in {"stalled", "reset"}
    /\ HostStop(c)
    /\ NextSend(c)
    /\ UNCHANGED <<serverVars, streamVars, clientVars>>

\* on_playback_stop calls stop_all.
OnPlaybackStop ==
    /\ HostFree
    /\ Close(connections)
    /\ connections' = {}
    /\ UNCHANGED <<serverVars, streamVars, hostVars, clientVars>>

\* g_stop_server posts handle_stop and joins the thread.
StopServer ==
    /\ HostFree
    /\ stop' = "posted"
    /\ host' = "joining"
    /\ UNCHANGED <<thread, acceptOp, new_connection, connections, opVars, streamVars,
                   todo, clientVars>>

Join ==
    /\ host = "joining" /\ thread = "exited"
    /\ host' = "joined"
    /\ UNCHANGED <<serverVars, connections, opVars, streamVars, todo, clientVars>>

Sends == \E c \in Conn : \/ SendSkips(c) \/ SendWorks(c) \/ SendFails(c)
                         \/ \E d \in Conn : SendStrays(c, d)

Next ==
    \/ Clients \/ Network \/ Handlers
    \/ \E c \in Conn : Free(c)
    \/ OnChunk \/ Sends \/ OnPlaybackStop \/ StopServer \/ Join

Spec == Init /\ [][Next]_vars

-----------------------------------------------------------------------------

TypeOK ==
    /\ thread \in {"running", "exited"}
    /\ stop \in {"no", "posted", "handled"}
    /\ acceptOp \in {"none", "pending", "connected", "failed", "aborted"}
    /\ new_connection \in Conn \cup {NoConn}
    /\ connections \subseteq Conn /\ todo \subseteq Conn
    /\ sock \in [Conn -> {"none", "open", "closed"}]
    /\ op \in [Conn -> {"none", "read", "write", "write_stream"}]
    /\ done \in [Conn -> Request \cup {"pending", "ok", "failed", "aborted"}]
    /\ url_params \in [Conn -> Mac \cup {NoMac}]
    /\ ready_for_stream \in [Conn -> BOOLEAN]
    /\ native_socket \in [Conn -> {"uninit", "socket", "invalid"}]
    /\ io \in Conn \cup {NoConn}
    /\ host \in {"idle", "sending", "joining", "joined"}
    /\ client \in [Conn -> {"up", "stalled", "gone", "reset"}]
    /\ asker \in [Conn -> Mac \cup {NoMac}]
    /\ got \in [Conn -> {"nothing", "page", "header", "audio", "garbled", "stray"}]

\* No client receives audio before the header of its stream, audio in a page,
\* or a reply after audio, although the reply is written by one thread and the
\* audio by the other (send_data's ready_for_stream_).
AudioAfterHeader == \A c \in Conn : got[c] # "garbled"

\* The host never sends on a socket that has been closed: every connection
\* on_chunk's copy of the set says is ready still has an open socket.  (After a
\* failed accept run may return, and the host goes on with a deleted server.)
SendsOnOpen ==
    thread = "running" => \A c \in todo : ready_for_stream[c] => sock[c] = "open"

\* Whatever thread stops a connection and whatever handler runs late, an open
\* socket is in the manager, where stop_all finds it, or its accept handler
\* has still to run.
OpenManaged ==
    \A c \in Conn : sock[c] = "open" => \/ c \in connections
                                        \/ c = new_connection /\ acceptOp = "connected"

\* A managed connection that is not a stream waits for something: a handler
\* that started no operation would leave it in the manager for good.
NoDeaf == \A c \in connections : ready_for_stream[c] \/ op[c] # "none"

\* A connection "ready to receive streaming data" is the only one to get any.
NoStrayAudio == \A c \in Conn : got[c] # "stray"
=============================================================================
