----------------------------- MODULE SlimServer -----------------------------
(***************************************************************************)
(* The Squeezebox control server (src/slim_server): the acceptor, the      *)
(* connection manager, the connections with their read loop and status     *)
(* timer, and the list of active clients they keep in shared memory.       *)
(*                                                                         *)
(* One thread runs the io_service, so every completion handler is one      *)
(* action.  The operating system, which completes the asynchronous         *)
(* operations, and the players at the other end of the sockets are the     *)
(* environment.  A handler that has been queued cannot be taken back: a    *)
(* read that has completed with data, or a timer that has expired, runs    *)
(* its handler even if an earlier handler has closed the socket or         *)
(* cancelled the timer.                                                    *)
(***************************************************************************)
EXTENDS Integers, FiniteSets

CONSTANTS
    Conn,               \* connection objects the server may create (a bound)
    Mac,                \* MAC addresses of the players
    NoConn, NoMac,      \* "no connection object left", the empty MAC string
    DISCONNECT_COUNT,   \* connection.hpp:25
    MaxHelo,            \* HELO messages a player sends per connection (a bound)
    HalfOpen,           \* may a player reconnect before its old connection is closed?
    Responsive,         \* players that report their status in time
    Slack               \* poll periods a responsive player may stay quiet

ASSUME SentinelAssumption == NoConn \notin Conn /\ NoMac \notin Mac
ASSUME CountAssumption == DISCONNECT_COUNT \in Nat \ {0} /\ MaxHelo \in Nat
ASSUME PlayerAssumption == Responsive \subseteq Mac /\ HalfOpen \in BOOLEAN /\ Slack \in Nat

VARIABLES
    \* server
    thread,               \* the io_service thread: "running", "exited", "terminated"
    stop,                 \* handle_stop: "no", "posted", "handled" (acceptor closed)
    acceptOp,             \* async_accept: "none", "pending", or its completion
    new_connection,       \* the object the next accept fills
    \* connection_manager
    connections,
    \* connection: socket and read loop
    sock,                 \* "none" (not accepted yet), "open", "closed"
    readOp,               \* async_read_some: "none", "pending", or its completion
    \* connection: status timer
    armed,                \* an async_wait is pending
    queued,               \* handle_status_timer calls queued by expired and by
                          \* cancelled waits
    status_timer_enabled,
    disconnection_counter,
    \* connection: client
    mac_address,
    device_initialized,
    native_socket,        \* has native_socket_ been assigned?
    \* shared memory
    shm_map,              \* the connection that wrote the entry of a MAC, or NoConn
    \* players
    player,               \* who is at the other end
    peer,                 \* "up", "gone" (closed its end), "dead" (fell silent)
    helos,                \* HELO messages sent on this connection
    quiet                 \* poll periods since the server last heard from the player

serverVars == <<thread, stop, acceptOp, new_connection>>
timerVars  == <<armed, queued, status_timer_enabled, disconnection_counter>>
clientVars == <<mac_address, device_initialized, native_socket, shm_map>>
playerVars == <<player, peer, helos, quiet>>
vars == <<serverVars, connections, sock, readOp, timerVars, clientVars, playerVars>>

Message == {"HELO", "STAT", "BYE!", "OTHER"}
Uninit == -1   \* disconnection_counter_ is not initialised by the constructor

-----------------------------------------------------------------------------
(* The server's constructor has started the first accept. *)

Init ==
    /\ thread = "running"
    /\ stop = "no"
    /\ acceptOp = "pending"
    /\ new_connection \in Conn
    /\ connections = {}
    /\ sock = [c \in Conn |-> "none"]
    /\ readOp = [c \in Conn |-> "none"]
    /\ armed = [c \in Conn |-> FALSE]
    /\ queued = [c \in Conn |-> 0]
    /\ status_timer_enabled = [c \in Conn |-> FALSE]
    /\ disconnection_counter = [c \in Conn |-> Uninit]
    /\ mac_address = [c \in Conn |-> NoMac]
    /\ device_initialized = [c \in Conn |-> FALSE]
    /\ native_socket = [c \in Conn |-> FALSE]
    /\ shm_map = [m \in Mac |-> NoConn]
    /\ player = [c \in Conn |-> NoMac]
    /\ peer = [c \in Conn |-> "up"]
    /\ helos = [c \in Conn |-> 0]
    /\ quiet = [c \in Conn |-> 0]

-----------------------------------------------------------------------------
(* Parts of handlers. *)

\* Mutants: the entry stays; its value is cleared.
ListWithout_Keeps(S) == shm_map
ListWithout_Blank(S) ==
    [m \in Mac |-> IF \E c \in S : mac_address[c] = m THEN NoMac ELSE shm_map[m]]

\* The client list once remove_client has run on every connection of S.
ListWithout(S) ==
    [m \in Mac |-> IF \E c \in S : mac_address[c] = m THEN NoConn ELSE shm_map[m]]

\* Mutant: the timer is not cancelled.
PendingWaits_NoCancel(S) == armed

\* Waits pending once the timers of S are cancelled.
PendingWaits(S) == [c \in Conn |-> c \notin S /\ armed[c]]

\* Cancelling a pending wait queues its handler (with operation_aborted).
CancelWaits(S) ==
    [c \in Conn |-> queued[c] + IF c \in S /\ armed[c] THEN 1 ELSE 0]

\* Mutant: closing the socket leaves the read pending.
AbortReads_Forgets(S) == readOp

\* So does closing a socket for a pending read.
AbortReads(S) ==
    [c \in Conn |-> IF c \in S /\ readOp[c] = "pending" THEN "aborted" ELSE readOp[c]]

\* connection::stop on every connection of S: remove_client, then close.
\* The handlers this queues (CancelWaits, AbortReads) are left to the caller,
\* which may be one of them.
Close(S) ==
    /\ device_initialized' = [c \in Conn |-> c \notin S /\ device_initialized[c]]
    /\ armed' = PendingWaits(S)
    /\ status_timer_enabled' = [c \in Conn |-> c \notin S /\ status_timer_enabled[c]]
    /\ shm_map' = ListWithout(S)
    /\ mac_address' = [c \in Conn |-> IF c \in S THEN NoMac ELSE mac_address[c]]
    /\ sock' = [c \in Conn |-> IF c \in S THEN "closed" ELSE sock[c]]

\* Mutant: the counter is not reset.
Hear_NoReset(c) ==
    /\ quiet' = [quiet EXCEPT ![c] = 0]
    /\ UNCHANGED disconnection_counter

\* The player was heard: it owes no answer to a poll.
Hear(c) ==
    /\ disconnection_counter' = [disconnection_counter EXCEPT ![c] = 0]
    /\ quiet' = [quiet EXCEPT ![c] = 0]

\* Mutant: the read loop ends after the first message.
ReadAgain_Once(c) == readOp' = [readOp EXCEPT ![c] = "none"]

\* async_read_some at the end of handle_read: on a closed socket the operation
\* completes at once with an error that is not operation_aborted.
ReadAgain(c) ==
    readOp' = [readOp EXCEPT ![c] = IF sock[c] = "open" THEN "pending" ELSE "error"]

-----------------------------------------------------------------------------
(* The players and the operating system. *)

Connected(m) == {c \in Conn : player[c] = m}

\* A player connects.  It has given up its earlier connections; unless
\* HalfOpen, the server has closed them as well.
PeerConnects(m) ==
    /\ thread = "running"
    /\ acceptOp = "pending"
    /\ new_connection # NoConn
    /\ \A c \in Connected(m) : peer[c] # "up" /\ (HalfOpen \/ sock[c] = "closed")
    /\ acceptOp' = "ok"
    /\ sock' = [sock EXCEPT ![new_connection] = "open"]
    /\ player' = [player EXCEPT ![new_connection] = m]
    /\ UNCHANGED <<thread, stop, new_connection, connections, readOp, timerVars,
                   clientVars, peer, helos, quiet>>

\* accept fails (no buffers, the client reset before it was accepted).
AcceptFails ==
    /\ thread = "running"
    /\ acceptOp = "pending"
    /\ acceptOp' = "error"
    /\ UNCHANGED <<thread, stop, new_connection, connections, sock, readOp,
                   timerVars, clientVars, playerVars>>

\* A player sends a message; a pending read completes with it.  "OTHER" stands
\* for the messages handle_client_msg ignores and for bytes that do not
\* complete a message.  After BYE! the player closes its end.
PeerSends(c, msg) ==
    /\ thread = "running"
    /\ readOp[c] = "pending"
    /\ peer[c] = "up"
    /\ msg = "HELO" => helos[c] < MaxHelo
    /\ helos' = [helos EXCEPT ![c] = IF msg = "HELO" THEN @ + 1 ELSE @]
    /\ peer' = [peer EXCEPT ![c] = IF msg = "BYE!" THEN "gone" ELSE @]
    /\ readOp' = [readOp EXCEPT ![c] = msg]
    /\ UNCHANGED <<serverVars, connections, sock, timerVars, clientVars, player, quiet>>

\* A player closes its connection, or falls silent without closing it.
PeerLeaves(c, how) ==
    /\ thread = "running"
    /\ sock[c] = "open"
    /\ peer[c] = "up"
    /\ peer' = [peer EXCEPT ![c] = how]
    /\ UNCHANGED <<serverVars, connections, sock, readOp, timerVars, clientVars,
                   player, helos, quiet>>

\* A pending read fails: end of file, reset, or retransmissions given up.
ReadFails(c) ==
    /\ thread = "running"
    /\ readOp[c] = "pending"
    /\ peer[c] # "up"
    /\ readOp' = [readOp EXCEPT ![c] = "error"]
    /\ UNCHANGED <<serverVars, connections, sock, timerVars, clientVars, playerVars>>

\* A poll period ends.  A responsive player has been heard from in the last
\* Slack periods.
TimerExpires(c) ==
    /\ thread = "running"
    /\ armed[c]
    /\ peer[c] = "up" /\ player[c] \in Responsive => quiet[c] < Slack
    /\ armed' = [armed EXCEPT ![c] = FALSE]
    /\ queued' = [queued EXCEPT ![c] = @ + 1]
    /\ quiet' = [quiet EXCEPT ![c] = @ + 1]
    /\ UNCHANGED <<serverVars, connections, sock, readOp, status_timer_enabled,
                   disconnection_counter, clientVars, player, peer, helos>>

-----------------------------------------------------------------------------
(* server *)

\* Objects for the next accept; NoConn once the bound Conn is used up.
NextConnection ==
    LET fresh == {c \in Conn : sock[c] = "none"} \ {new_connection}
    IN  IF fresh = {} THEN {NoConn} ELSE fresh

\* handle_accept without an error: connection_manager::start, then the next
\* accept, which fails at once if handle_stop has closed the acceptor.
HandleAccept ==
    /\ thread = "running"
    /\ acceptOp = "ok"
    /\ connections' = connections \cup {new_connection}
    /\ readOp' = [readOp EXCEPT ![new_connection] = "pending"]
    /\ new_connection' \in NextConnection
    /\ acceptOp' = IF stop = "handled" THEN "error" ELSE "pending"
    /\ UNCHANGED <<thread, stop, sock, timerVars, clientVars, playerVars>>

\* handle_accept with an error does nothing, and starts no other accept.
HandleAcceptError ==
    /\ thread = "running"
    /\ acceptOp = "error"
    /\ acceptOp' = "none"
    /\ UNCHANGED <<thread, stop, new_connection, connections, sock, readOp,
                   timerVars, clientVars, playerVars>>

\* server::stop, called by the host thread.
ServerStop ==
    /\ thread = "running"
    /\ stop = "no"
    /\ stop' = "posted"
    /\ UNCHANGED <<thread, acceptOp, new_connection, connections, sock, readOp,
                   timerVars, clientVars, playerVars>>

\* handle_stop: close the acceptor, then connection_manager::stop_all.
HandleStop ==
    /\ thread = "running"
    /\ stop = "posted"
    /\ stop' = "handled"
    /\ acceptOp' = IF acceptOp = "pending" THEN "error" ELSE acceptOp
    /\ Close(connections)
    /\ queued' = CancelWaits(connections)
    /\ readOp' = AbortReads(connections)
    /\ connections' = {}
    /\ UNCHANGED <<thread, new_connection, disconnection_counter,
                   native_socket, playerVars>>

\* io_service::run returns when nothing is outstanding.
NoWork ==
    /\ acceptOp = "none"
    /\ stop # "posted"
    /\ \A c \in Conn : readOp[c] = "none" /\ ~armed[c] /\ queued[c] = 0

RunExits ==
    /\ thread = "running"
    /\ NoWork
    /\ thread' = "exited"
    /\ UNCHANGED <<stop, acceptOp, new_connection, connections, sock, readOp,
                   timerVars, clientVars, playerVars>>

-----------------------------------------------------------------------------
(* connection: the read loop *)

\* HELO on an open socket.  expires_from_now cancels a wait that is pending.
HandleHelo(c) ==
    /\ thread = "running"
    /\ readOp[c] = "HELO"
    /\ sock[c] = "open"
    /\ native_socket' = [native_socket EXCEPT ![c] = TRUE]
    /\ mac_address' = [mac_address EXCEPT ![c] = player[c]]
    /\ shm_map' = [shm_map EXCEPT ![player[c]] = c]
    /\ device_initialized' = [device_initialized EXCEPT ![c] = TRUE]
    /\ Hear(c)
    /\ status_timer_enabled' = [status_timer_enabled EXCEPT ![c] = TRUE]
    /\ armed' = [armed EXCEPT ![c] = TRUE]
    /\ queued' = CancelWaits({c})
    /\ ReadAgain(c)
    /\ UNCHANGED <<serverVars, connections, sock, player, peer, helos>>

\* HELO whose handler runs after the socket was closed, or reset by the player:
\* remote_endpoint throws, nothing catches it, and the process terminates.
HandleHeloThrows(c) ==
    /\ thread = "running"
    /\ readOp[c] = "HELO"
    /\ sock[c] # "open" \/ peer[c] = "gone"
    /\ thread' = "terminated"
    /\ UNCHANGED <<stop, acceptOp, new_connection, connections, sock, readOp,
                   timerVars, clientVars, playerVars>>

HandleStat(c) ==
    /\ thread = "running"
    /\ readOp[c] = "STAT"
    /\ Hear(c)
    /\ ReadAgain(c)
    /\ UNCHANGED <<serverVars, connections, sock, armed, queued, status_timer_enabled,
                   clientVars, player, peer, helos>>

\* BYE!: disconnect, then the read loop goes on, on the closed socket.
HandleBye(c) ==
    /\ thread = "running"
    /\ readOp[c] = "BYE!"
    /\ Close({c})
    /\ queued' = CancelWaits({c})
    /\ connections' = connections \ {c}
    /\ readOp' = [readOp EXCEPT ![c] = "error"]
    /\ UNCHANGED <<serverVars, disconnection_counter, native_socket, playerVars>>

HandleOther(c) ==
    /\ thread = "running"
    /\ readOp[c] = "OTHER"
    /\ ReadAgain(c)
    /\ UNCHANGED <<serverVars, connections, sock, timerVars, clientVars, playerVars>>

\* Mutant: every error is taken for operation_aborted.
HandleReadError_Ignores(c) ==
    /\ thread = "running"
    /\ readOp[c] = "error"
    /\ readOp' = [readOp EXCEPT ![c] = "none"]
    /\ UNCHANGED <<serverVars, connections, sock, timerVars, clientVars, playerVars>>

\* A read error stops the connection; operation_aborted only ends the loop.
HandleReadError(c) ==
    /\ thread = "running"
    /\ readOp[c] = "error"
    /\ Close({c})
    /\ queued' = CancelWaits({c})
    /\ connections' = connections \ {c}
    /\ readOp' = [readOp EXCEPT ![c] = "none"]
    /\ UNCHANGED <<serverVars, disconnection_counter, native_socket, playerVars>>

HandleReadAborted(c) ==
    /\ thread = "running"
    /\ readOp[c] = "aborted"
    /\ readOp' = [readOp EXCEPT ![c] = "none"]
    /\ UNCHANGED <<serverVars, connections, sock, timerVars, clientVars, playerVars>>

-----------------------------------------------------------------------------
(* connection: the status timer *)

\* Mutants: the counter is compared before it is incremented; one poll early.
LastPoll_PostIncrement(c) == disconnection_counter[c] = DISCONNECT_COUNT
LastPoll_Early(c) == disconnection_counter[c] + 2 >= DISCONNECT_COUNT

\* handle_status_timer ignores its error code: an expired wait and a cancelled
\* one count the same.  The poll that reaches DISCONNECT_COUNT disconnects.
LastPoll(c) == disconnection_counter[c] + 1 = DISCONNECT_COUNT

StatusTimerDisconnects(c) ==
    /\ LastPoll(c)
    /\ Close({c})
    /\ queued' = [CancelWaits({c}) EXCEPT ![c] = @ - 1]
    /\ connections' = connections \ {c}
    /\ readOp' = AbortReads({c})

\* Mutant: the timer is not re-armed.
NextWait_Once(c) ==
    /\ queued' = [queued EXCEPT ![c] = @ - 1]
    /\ UNCHANGED armed

\* While the timer is enabled the handler waits for the next period.
NextWait(c) ==
    \/ /\ status_timer_enabled[c]
       /\ armed' = [armed EXCEPT ![c] = TRUE]
       /\ queued' = [CancelWaits({c}) EXCEPT ![c] = @ - 1]
    \/ /\ ~status_timer_enabled[c]
       /\ queued' = [queued EXCEPT ![c] = @ - 1]
       /\ UNCHANGED armed

\* Any other poll is sent; the outcome of the send is ignored.
StatusTimerPolls(c) ==
    /\ ~LastPoll(c)
    /\ NextWait(c)
    /\ UNCHANGED <<connections, sock, readOp, status_timer_enabled, mac_address,
                   device_initialized, shm_map>>

HandleStatusTimer(c) ==
    /\ thread = "running"
    /\ queued[c] > 0
    /\ disconnection_counter' = [disconnection_counter EXCEPT ![c] = @ + 1]
    /\ StatusTimerDisconnects(c) \/ StatusTimerPolls(c)
    /\ UNCHANGED <<serverVars, native_socket, playerVars>>

-----------------------------------------------------------------------------

HandleRead(c) ==
    \/ HandleHelo(c) \/ HandleHeloThrows(c)
    \/ HandleStat(c) \/ HandleBye(c) \/ HandleOther(c)
    \/ HandleReadError(c) \/ HandleReadAborted(c)

Environment ==
    \/ \E m \in Mac : PeerConnects(m)
    \/ AcceptFails
    \/ ServerStop
    \/ \E c \in Conn :
          \/ \E msg \in Message : PeerSends(c, msg)
          \/ \E how \in {"gone", "dead"} : PeerLeaves(c, how)
          \/ ReadFails(c)
          \/ TimerExpires(c)

Handlers ==
    \/ HandleAccept \/ HandleAcceptError
    \/ HandleStop
    \/ \E c \in Conn : HandleRead(c) \/ HandleStatusTimer(c)

\* The thread has ended: nothing more happens.
Ended == thread # "running" /\ UNCHANGED vars

Next == Environment \/ Handlers \/ RunExits \/ Ended

Spec == Init /\ [][Next]_vars

\* run() calls every handler that is queued and returns when there is none
\* left; timers expire; a read fails after the player closed its end.
Fairness ==
    /\ WF_vars(HandleAccept \/ HandleAcceptError)
    /\ WF_vars(HandleStop)
    /\ WF_vars(RunExits)
    /\ \A c \in Conn :
          /\ WF_vars(HandleRead(c))
          /\ WF_vars(HandleStatusTimer(c))
          /\ WF_vars(TimerExpires(c))
          /\ WF_vars(peer[c] = "gone" /\ ReadFails(c))

FairSpec == Spec /\ Fairness

-----------------------------------------------------------------------------
(* Properties *)

\* Every variable has its type; readOp holds a completion, and the handlers
\* queued by the timer are counted from zero.
TypeOK ==
    /\ thread \in {"running", "exited", "terminated"}
    /\ stop \in {"no", "posted", "handled"}
    /\ acceptOp \in {"none", "pending", "ok", "error"}
    /\ new_connection \in Conn \cup {NoConn}
    /\ connections \subseteq Conn
    /\ sock \in [Conn -> {"none", "open", "closed"}]
    /\ readOp \in [Conn -> Message \cup {"none", "pending", "error", "aborted"}]
    /\ armed \in [Conn -> BOOLEAN]
    /\ queued \in [Conn -> Nat]
    /\ status_timer_enabled \in [Conn -> BOOLEAN]
    /\ disconnection_counter \in [Conn -> Nat \cup {Uninit}]
    /\ mac_address \in [Conn -> Mac \cup {NoMac}]
    /\ device_initialized \in [Conn -> BOOLEAN]
    /\ native_socket \in [Conn -> BOOLEAN]
    /\ shm_map \in [Mac -> Conn \cup {NoConn}]
    /\ player \in [Conn -> Mac \cup {NoMac}]
    /\ peer \in [Conn -> {"up", "gone", "dead"}]
    /\ helos \in [Conn -> 0..MaxHelo]
    /\ quiet \in [Conn -> Nat]

\* The status page never lists a ghost: an entry of the client list belongs to
\* a connection that is still managed and still serves that player, however
\* reconnects, timeouts, BYE!, read errors and the shutdown interleave.
NoGhost ==
    \A m \in Mac : shm_map[m] # NoConn =>
        /\ shm_map[m] \in connections
        /\ device_initialized[shm_map[m]]
        /\ mac_address[shm_map[m]] = m

\* A managed connection is never deaf: its socket is open and a read is pending
\* or its completion is queued (so the end of the connection is noticed), and
\* a connection that left the manager has given its socket up.
ReadOutstanding ==
    \A c \in Conn :
        /\ c \in connections => sock[c] = "open" /\ readOp[c] \notin {"none", "aborted"}
        /\ sock[c] = "open" /\ c \notin connections => acceptOp = "ok" /\ c = new_connection

\* A player that can be commanded is watched by exactly one status wait
\* (pending, or its handler queued), its socket is open and configured, and it
\* is managed; a connection without a client has no wait pending.
Watched ==
    \A c \in Conn :
        IF device_initialized[c]
        THEN /\ c \in connections
             /\ native_socket[c]
             /\ queued[c] + (IF armed[c] THEN 1 ELSE 0) = 1
             /\ status_timer_enabled[c]
        ELSE ~armed[c]

\* The poll counter a handler increments was set by a message before, and it
\* never passes DISCONNECT_COUNT while the client is still there.
CounterSane ==
    \A c \in Conn :
        /\ queued[c] > 0 => disconnection_counter[c] # Uninit
        /\ device_initialized[c] => disconnection_counter[c] \in 0..(DISCONNECT_COUNT - 1)

\* connection.hpp:94 "Handle status timer timeout.": the counter of missed polls
\* counts the poll periods since the server last heard from the player, or one
\* more: a report handled between an expiry and its handler resets the counter
\* too early.
CountsTimeouts ==
    \A c \in Conn :
        device_initialized[c] => disconnection_counter[c] + queued[c] - quiet[c] \in {0, 1}

\* A player that is never quiet for DISCONNECT_COUNT - 1 poll periods keeps its
\* connection, whatever the order in which its reports and the expiries are
\* handled: only a stop of the server closes the socket of a player that is up.
ResponsiveKept ==
    \A c \in Conn :
        player[c] \in Responsive /\ peer[c] = "up" /\ stop # "handled" => sock[c] # "closed"

\* A client is gone from the list only when it is gone: whoever can be
\* commanded is listed.
ActiveListed ==
    \A c \in Conn : device_initialized[c] => shm_map[mac_address[c]] # NoConn

\* run() returns only when every client has been removed from the list that
\* outlives the thread.
ExitLeavesNoClient ==
    thread = "exited" => connections = {} /\ \A m \in Mac : shm_map[m] = NoConn

\* A stop ends run(), whoever is connected ("once all operations have finished",
\* server.cpp:81-83), or the process (HandleHeloThrows).  But for one player: an
\* accept that was completed when handle_stop ran has its handler behind it, and
\* the connection it starts is nobody's to close.  Once that player has gone, or
\* the watchdog has dropped it, run() ends as well.
StopEnds ==
    /\ stop = "posted" ~> thread # "running" \/ (stop = "handled" /\ acceptOp = "ok")
    /\ stop = "handled" /\ acceptOp # "ok" /\ connections = {} ~> thread # "running"

\* A player that closed its end is dropped, with or without HELO.
GoneDropped ==
    \A c \in Conn :
        c \in connections /\ peer[c] = "gone" ~> c \notin connections \/ thread = "terminated"
=============================================================================
