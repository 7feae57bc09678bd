----------------------------- MODULE SlimBroadcast -----------------------------
(***************************************************************************)
(* The control server with the host's thread beside its own: the           *)
(* playback callbacks send commands through the connections while the      *)
(* io_service thread handles a HELO or a poll, and either may wait in a    *)
(* send for a player that does not read.                                   *)
(*                                                                         *)
(* SlimServer's handlers that send, HELO and the poll, begin here with the *)
(* sends and end as in SlimServer.  What HELO writes besides               *)
(* native_socket_ nobody sees before it ends: the client list is locked,   *)
(* and mac_address_ is not used before device_initialized_.                *)
(***************************************************************************)
EXTENDS SlimServer, Sequences

CONSTANTS
    Calls,   \* what callbacks send: sequences of "strm", to all that are ready,
             \* "audg", to all, and a MAC address, a play command to that player
    Room     \* messages that fit in a player's socket (a bound)

ASSUME CallAssumption == Calls \subseteq Seq({"strm", "audg"} \cup Mac) \ {<<>>}
ASSUME RoomAssumption == Room \in Nat \ {0}

VARIABLES
    native_socket_set,   \* has native_socket_ been assigned?  SlimServer's
                         \* native_socket, from configure_socket on
    slim, on,            \* what the io_service thread is about to send, and to
                         \* which connection: "idle", "aude", "audg", "ready"
                         \* (nothing more for this HELO), "poll", "polled"
    todo,                \* what the host's callback still has to send
    at, visited,         \* its loop over connections: where it sends, where it was
    unread,              \* messages in a player's socket
    offered,             \* kinds of messages that were sent to a connection
    torn,                \* was a message to the player cut off?
    misled               \* connections whose socket has had the handle of a closed
                         \* one, and got a message meant for that

slimVars == <<slim, on>>
hostVars == <<todo, at, visited>>
wireVars == <<unread, offered, torn, misled>>
castVars == <<native_socket_set, slimVars, hostVars, wireVars>>
allVars  == <<vars, castVars>>

BroadcastInit ==
    /\ Init
    /\ native_socket_set = [c \in Conn |-> FALSE]
    /\ slim = "idle" /\ on = NoConn
    /\ todo = <<>> /\ at = NoConn /\ visited = {}
    /\ unread = [c \in Conn |-> 0]
    /\ offered = [c \in Conn |-> {}]
    /\ torn = [c \in Conn |-> FALSE]
    /\ misled = {}

-----------------------------------------------------------------------------
(* send on the native socket of c; the callers ignore what it returns. *)

Written(c) ==
    /\ sock[c] = "open" /\ unread[c] < Room
    /\ unread' = [unread EXCEPT ![c] = @ + 1]
    /\ UNCHANGED torn

\* The player did not read for a second: part of the message may have gone.
TimedOut(c) ==
    /\ sock[c] = "open" /\ unread[c] = Room
    /\ torn' \in {torn, [torn EXCEPT ![c] = TRUE]}
    /\ UNCHANGED unread

Refused(c) == (sock[c] # "open" \/ peer[c] = "gone") /\ UNCHANGED <<unread, torn>>

SendData(c, kind) ==
    /\ Written(c) \/ TimedOut(c) \/ Refused(c)
    /\ offered' = [offered EXCEPT ![c] = @ \cup {kind}]
    /\ UNCHANGED misled

-----------------------------------------------------------------------------
(* The io_service thread. *)

\* Mutant: the device is ready once the first message was sent.
AfterSend_Early == [aude |-> "ready", audg |-> "ready", poll |-> "polled"]
AfterSend == [aude |-> "audg", audg |-> "ready", poll |-> "polled"]

\* Mutant: device_initialized_ is set before the messages are sent.
HeloBegins_Early(c) ==
    /\ thread = "running" /\ slim = "idle"
    /\ readOp[c] = "HELO" /\ sock[c] = "open"
    /\ slim' = "aude" /\ on' = c
    /\ native_socket_set' = [native_socket_set EXCEPT ![c] = TRUE]
    /\ device_initialized' = [device_initialized EXCEPT ![c] = TRUE]
    /\ UNCHANGED <<serverVars, connections, sock, readOp, timerVars, mac_address,
                   native_socket, shm_map, playerVars, hostVars, wireVars>>

\* HELO up to the first message: configure_socket.
HeloBegins(c) ==
    /\ thread = "running" /\ slim = "idle"
    /\ readOp[c] = "HELO" /\ sock[c] = "open"
    /\ slim' = "aude" /\ on' = c
    /\ native_socket_set' = [native_socket_set EXCEPT ![c] = TRUE]
    /\ UNCHANGED <<vars, hostVars, wireVars>>

\* The poll that is not the last: send_stream_status.
PollBegins(c) ==
    /\ thread = "running" /\ slim = "idle"
    /\ queued[c] > 0 /\ ~LastPoll(c)
    /\ device_initialized[c]
    /\ slim' = "poll" /\ on' = c
    /\ UNCHANGED <<vars, native_socket_set, hostVars, wireVars>>

SlimSends ==
    /\ thread = "running" /\ slim \in DOMAIN AfterSend
    /\ SendData(on, IF slim = "poll" THEN "strm" ELSE slim)
    /\ slim' = AfterSend[slim]
    /\ UNCHANGED <<vars, native_socket_set, on, hostVars>>

\* The rest of the handler.
SlimEnds ==
    /\ \/ slim = "ready" /\ HandleHelo(on)
       \/ slim = "polled" /\ HandleStatusTimer(on)
    /\ slim' = "idle" /\ on' = NoConn
    /\ UNCHANGED <<native_socket_set, hostVars, wireVars>>

\* Handlers that send nothing.
Silent(A) == slim = "idle" /\ A /\ UNCHANGED castVars

SilentRead(c) ==
    \/ HandleHeloThrows(c)
    \/ HandleStat(c) \/ HandleBye(c) \/ HandleOther(c)
    \/ HandleReadError(c) \/ HandleReadAborted(c)

SilentTimer(c) == (LastPoll(c) \/ ~device_initialized[c]) /\ HandleStatusTimer(c)

-----------------------------------------------------------------------------
(* The host's thread: callbacks, then on_quit or apply stop the server. *)

HostCalls ==
    /\ thread = "running" /\ stop = "no"
    /\ todo = <<>>
    /\ todo' \in Calls
    /\ UNCHANGED <<vars, native_socket_set, slimVars, at, visited, wireVars>>

HostStops == todo = <<>> /\ ServerStop /\ UNCHANGED castVars

\* send_stream_play(mac_address, ...) asks get_mac_address.
Addressed(c) == Head(todo) \in Mac => mac_address[c] = Head(todo)

\* The stream commands ask device_initialized_, send_audio_gain does not.
Ready(c) == Head(todo) # "audg" => device_initialized[c]

\* The loop comes to c.
HostVisits(c) ==
    /\ thread = "running"
    /\ todo # <<>> /\ at = NoConn
    /\ c \in connections \ visited
    /\ visited' = visited \cup {c}
    /\ at' = IF Addressed(c) /\ Ready(c) THEN c ELSE NoConn
    /\ UNCHANGED <<vars, native_socket_set, slimVars, todo, wireVars>>

Kind == IF Head(todo) = "audg" THEN "audg" ELSE "strm"

\* Mutant: the host's sends have no timeout.
HostSends_Blocks ==
    /\ thread = "running" /\ at # NoConn
    /\ native_socket_set[at]
    /\ Written(at) \/ Refused(at)
    /\ offered' = [offered EXCEPT ![at] = @ \cup {Kind}]
    /\ at' = NoConn
    /\ UNCHANGED <<vars, native_socket_set, slimVars, todo, visited, misled>>

HostSends ==
    /\ thread = "running" /\ at # NoConn
    /\ native_socket_set[at]
    /\ SendData(at, Kind)
    /\ at' = NoConn
    /\ UNCHANGED <<vars, native_socket_set, slimVars, todo, visited>>

\* native_socket_ is not initialised, or the socket was closed after the loop
\* came to it and its handle given to another: it may be no socket of these, or
\* that of any open connection, its own included if it has one.
HostStrays ==
    /\ thread = "running" /\ at # NoConn
    /\ ~native_socket_set[at] \/ sock[at] # "open"
    /\ \/ UNCHANGED wireVars
       \/ \E d \in Conn :
             /\ Written(d) \/ TimedOut(d)
             /\ offered' = [offered EXCEPT ![d] = @ \cup {Kind}]
             /\ misled' = IF native_socket_set[at] THEN misled \cup {d} ELSE misled
    /\ at' = NoConn
    /\ UNCHANGED <<vars, native_socket_set, slimVars, todo, visited>>

\* The loop ends.
HostGoesOn ==
    /\ thread = "running"
    /\ todo # <<>> /\ at = NoConn /\ connections \subseteq visited
    /\ todo' = Tail(todo)
    /\ visited' = {}
    /\ UNCHANGED <<vars, native_socket_set, slimVars, at, wireVars>>

Host == (\E c \in Conn : HostVisits(c)) \/ HostSends \/ HostStrays \/ HostGoesOn

-----------------------------------------------------------------------------
(* The players read what they are sent; one that has lost its place in the *)
(* messages finds no more polls to answer.                                 *)

PlayerReads(c) ==
    /\ thread = "running" /\ peer[c] = "up" /\ unread[c] > 0
    /\ unread' = [unread EXCEPT ![c] = @ - 1]
    /\ UNCHANGED <<vars, native_socket_set, slimVars, hostVars, offered, torn, misled>>

Players ==
    \/ \E m \in Mac : PeerConnects(m)
    \/ \E c \in Conn :
          \/ \E msg \in Message : (torn[c] => msg # "STAT") /\ PeerSends(c, msg)
          \/ \E how \in {"gone", "dead"} : PeerLeaves(c, how)

System == AcceptFails \/ \E c \in Conn : ReadFails(c) \/ TimerExpires(c)

BroadcastNext ==
    \/ (Players \/ System) /\ UNCHANGED castVars
    \/ HostCalls \/ HostStops \/ Host
    \/ Silent(HandleAccept \/ HandleAcceptError \/ HandleStop \/ RunExits)
    \/ \E c \in Conn :
          \/ Silent(SilentRead(c) \/ SilentTimer(c))
          \/ HeloBegins(c) \/ PollBegins(c) \/ PlayerReads(c)
    \/ SlimSends \/ SlimEnds
    \/ Ended /\ UNCHANGED castVars

BroadcastSpec == BroadcastInit /\ [][BroadcastNext]_allVars

\* Both threads run.  The io_service gives every queued handler its turn, since
\* no handler that sends is kept waiting for more than a second a message.
BroadcastFairness ==
    /\ WF_allVars(Host)
    /\ WF_allVars(SlimSends \/ SlimEnds)
    /\ SF_allVars(Silent(HandleAccept \/ HandleAcceptError))
    /\ SF_allVars(Silent(HandleStop))
    /\ WF_allVars(Silent(RunExits))
    /\ \A c \in Conn :
          /\ SF_allVars(Silent(SilentRead(c)) \/ HeloBegins(c))
          /\ SF_allVars(Silent(SilentTimer(c)) \/ PollBegins(c))
          /\ WF_allVars(TimerExpires(c) /\ UNCHANGED castVars)
          /\ WF_allVars(peer[c] = "gone" /\ ReadFails(c) /\ UNCHANGED castVars)

BroadcastFairSpec == BroadcastSpec /\ BroadcastFairness

-----------------------------------------------------------------------------
(* Properties; SlimServer's hold as well, since every step is one of its own *)
(* or leaves its variables alone (SlimServerSpec).                           *)

\* Two threads make no state of the control server that one would not.
SlimServerSpec == Spec

\* "Indicates whether the device is ready to receive commands"
\* (connection.hpp:136): no stream command is sent to a player, by either
\* thread, before its outputs were switched on and its volume set; unless it was
\* meant for another, whose socket was closed in the middle of the host's loop.
SetupFirst ==
    \A c \in Conn \ misled : "strm" \in offered[c] => {"aude", "audg"} \subseteq offered[c]

\* A callback returns, whatever the players do: the host is not held up for
\* longer than its sends take to time out.
HostReturns == todo # <<>> ~> todo = <<>> \/ thread # "running"

\* A player that answers no polls any more is dropped, by the watchdog: its end
\* was lost, or a message to it was cut off and it finds no more polls.
SilentDropped ==
    \A c \in Conn :
        device_initialized[c] /\ (peer[c] = "dead" \/ torn[c])
            ~> ~device_initialized[c] \/ thread # "running"
=============================================================================
