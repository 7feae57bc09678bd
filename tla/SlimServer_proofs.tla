------------------------- MODULE SlimServer_proofs --------------------------
(***************************************************************************)
(* Proofs about the control server's modules, for any number of            *)
(* connections and players, any DISCONNECT_COUNT, reconnects as early as   *)
(* one likes (HalfOpen), any callbacks and any room in the sockets.        *)
(*                                                                         *)
(* First SlimServer alone.  Then SlimBroadcast implements it, so that what *)
(* was said of it holds with two threads; and no player is sent a stream   *)
(* command before it is set up.  SlimServer implements PlayerRegistry when *)
(* a player says HELO once per connection and reconnects only after its    *)
(* old connection was closed; so does SlimBroadcast.                       *)
(***************************************************************************)
EXTENDS SlimBroadcast, SlimRegistry, TLAPS

\* Close leaves the variables it changes in their types.
LEMMA CloseType ==
    ASSUME TypeOK, NEW S \in SUBSET Conn, Close(S)
    PROVE  /\ device_initialized' \in [Conn -> BOOLEAN]
           /\ armed' \in [Conn -> BOOLEAN]
           /\ status_timer_enabled' \in [Conn -> BOOLEAN]
           /\ shm_map' \in [Mac -> Conn \cup {NoConn}]
           /\ mac_address' \in [Conn -> Mac \cup {NoMac}]
           /\ sock' \in [Conn -> {"none", "open", "closed"}]
BY DEF TypeOK, Close, PendingWaits, ListWithout

\* The operators that queue handlers yield functions of the right type.
LEMMA QueueType ==
    ASSUME TypeOK, NEW S \in SUBSET Conn
    PROVE  /\ CancelWaits(S) \in [Conn -> Nat]
           /\ AbortReads(S) \in [Conn -> Message \cup {"none", "pending", "error", "aborted"}]
BY DEF TypeOK, CancelWaits, AbortReads, Message

\* TypeOK alone is not inductive: a player that was accepted sits on an object.
TypeInv == TypeOK /\ (acceptOp = "ok" => new_connection \in Conn)

\* Every step keeps every variable in its type.
LEMMA TypeStep == TypeInv /\ [Next]_vars => TypeInv'
<1> SUFFICES ASSUME TypeInv, [Next]_vars PROVE TypeInv'
    OBVIOUS
<1> USE DEF TypeInv, TypeOK, serverVars, timerVars, clientVars, playerVars
<1>1. ASSUME NEW m \in Mac, PeerConnects(m) PROVE TypeInv'
  BY <1>1 DEF PeerConnects
<1>2. CASE AcceptFails
  BY <1>2 DEF AcceptFails
<1>3. CASE ServerStop
  BY <1>3 DEF ServerStop
<1>4. ASSUME NEW c \in Conn, NEW msg \in Message, PeerSends(c, msg) PROVE TypeInv'
  <2>1. helos' \in [Conn -> 0..MaxHelo]
    BY <1>4, CountAssumption DEF PeerSends
  <2> QED BY <1>4, <2>1 DEF PeerSends
<1>5. ASSUME NEW c \in Conn, NEW how \in {"gone", "dead"}, PeerLeaves(c, how) PROVE TypeInv'
  BY <1>5 DEF PeerLeaves
<1>6. ASSUME NEW c \in Conn, ReadFails(c) PROVE TypeInv'
  BY <1>6 DEF ReadFails
<1>7. ASSUME NEW c \in Conn, TimerExpires(c) PROVE TypeInv'
  BY <1>7 DEF TimerExpires
<1>8. CASE HandleAccept
  <2>1. new_connection \in Conn \cup {NoConn} /\ new_connection' \in Conn \cup {NoConn}
    BY <1>8 DEF HandleAccept, NextConnection
  <2> QED BY <1>8, <2>1 DEF HandleAccept
<1>9. CASE HandleAcceptError
  BY <1>9 DEF HandleAcceptError
<1>10. CASE HandleStop
  BY <1>10, CloseType, QueueType DEF HandleStop
<1>11. ASSUME NEW c \in Conn, HandleRead(c) PROVE TypeInv'
  <2>1. CASE HandleHelo(c)
    BY <2>1, QueueType DEF HandleHelo, Hear, ReadAgain
  <2>2. CASE HandleHeloThrows(c)
    BY <2>2 DEF HandleHeloThrows
  <2>3. CASE HandleStat(c)
    BY <2>3 DEF HandleStat, Hear, ReadAgain
  <2>4. CASE HandleBye(c)
    BY <2>4, CloseType, QueueType DEF HandleBye
  <2>5. CASE HandleOther(c)
    BY <2>5 DEF HandleOther, ReadAgain
  <2>6. CASE HandleReadError(c)
    BY <2>6, CloseType, QueueType DEF HandleReadError
  <2>7. CASE HandleReadAborted(c)
    BY <2>7 DEF HandleReadAborted
  <2> QED BY <1>11, <2>1, <2>2, <2>3, <2>4, <2>5, <2>6, <2>7 DEF HandleRead
<1>12. ASSUME NEW c \in Conn, HandleStatusTimer(c) PROVE TypeInv'
  <2>1. disconnection_counter' \in [Conn -> Nat \cup {Uninit}]
    BY <1>12 DEF HandleStatusTimer, Uninit
  <2>2. /\ [queued EXCEPT ![c] = @ - 1] \in [Conn -> Nat]
        /\ [CancelWaits({c}) EXCEPT ![c] = @ - 1] \in [Conn -> Nat]
    BY <1>12 DEF HandleStatusTimer, CancelWaits
  <2>3. CASE StatusTimerDisconnects(c)
    BY <1>12, <2>1, <2>2, <2>3, CloseType, QueueType
       DEF HandleStatusTimer, StatusTimerDisconnects
  <2>4. CASE StatusTimerPolls(c)
    BY <1>12, <2>1, <2>2, <2>4 DEF HandleStatusTimer, StatusTimerPolls, NextWait
  <2> QED BY <1>12, <2>3, <2>4 DEF HandleStatusTimer
<1>13. CASE RunExits
  BY <1>13 DEF RunExits
<1>14. CASE UNCHANGED vars
  BY <1>14 DEF vars
<1> QED
  BY <1>1, <1>2, <1>3, <1>4, <1>5, <1>6, <1>7, <1>8, <1>9, <1>10, <1>11, <1>12,
     <1>13, <1>14 DEF Next, Environment, Handlers, Ended

\* Type correctness: every variable has its type in every reachable state.
THEOREM TypeCorrect == Spec => []TypeOK
<1>1. Init => TypeInv
  BY CountAssumption DEF Init, TypeInv, TypeOK, Uninit
<1>2. TypeInv => TypeOK
  BY DEF TypeInv
<1> QED BY <1>1, <1>2, TypeStep, PTL DEF Spec

-----------------------------------------------------------------------------
(***************************************************************************)
(* Sockets, reads and clients.  The inductive invariant says which object  *)
(* each socket belongs to (none, the accept in hand, a managed connection) *)
(* and ties the client state of a connection to it.                        *)
(***************************************************************************)

SocketInv ==
    \A c \in Conn :
        /\ c \in connections => sock[c] = "open" /\ readOp[c] \notin {"none", "aborted"}
        /\ sock[c] = "open" /\ c \notin connections => acceptOp = "ok" /\ c = new_connection
        /\ sock[c] = "none" => readOp[c] = "none" /\ queued[c] = 0
        /\ sock[c] # "none" => player[c] \in Mac

AcceptInv ==
    /\ acceptOp = "ok" => /\ sock[new_connection] = "open"
                          /\ readOp[new_connection] = "none"
                          /\ queued[new_connection] = 0
    /\ acceptOp # "ok" /\ new_connection \in Conn => sock[new_connection] = "none"

ClientInv ==
    \A c \in Conn :
        /\ device_initialized[c] => /\ c \in connections
                                    /\ native_socket[c]
                                    /\ mac_address[c] = player[c]
                                    /\ status_timer_enabled[c]
        /\ ~device_initialized[c] => /\ mac_address[c] = NoMac
                                     /\ ~armed[c]
                                     /\ ~status_timer_enabled[c]

ExitInv == thread = "exited" => \A c \in Conn : readOp[c] = "none"

SafeInv == TypeInv /\ SocketInv /\ AcceptInv /\ ClientInv /\ NoGhost /\ ExitInv

\* What a handler that stops connection c does to the other parts of SafeInv.
LEMMA CloseOne ==
    ASSUME SafeInv, TypeInv', NEW c \in Conn, Close({c}),
           thread = "running",
           readOp[c] # "none" \/ queued[c] > 0,
           connections' = connections \ {c},
           \A d \in Conn \ {c} : readOp'[d] = readOp[d] /\ queued'[d] = queued[d],
           UNCHANGED <<serverVars, native_socket, playerVars>>
    PROVE  SafeInv'
<1> USE DEF SafeInv, TypeInv, TypeOK, serverVars, playerVars
<1>1. sock[c] # "none" /\ ~(acceptOp = "ok" /\ c = new_connection)
  BY DEF SocketInv, AcceptInv
<1>2. /\ sock'[c] = "closed" /\ ~device_initialized'[c] /\ mac_address'[c] = NoMac
      /\ ~armed'[c] /\ ~status_timer_enabled'[c]
  BY DEF Close, PendingWaits
<1>3. \A d \in Conn \ {c} :
        /\ sock'[d] = sock[d] /\ device_initialized'[d] = device_initialized[d]
        /\ mac_address'[d] = mac_address[d] /\ armed'[d] = armed[d]
        /\ status_timer_enabled'[d] = status_timer_enabled[d]
  BY DEF Close, PendingWaits
<1>4. SocketInv'
  BY <1>1, <1>2, <1>3 DEF SocketInv
<1>5. AcceptInv'
  BY <1>1, <1>2, <1>3 DEF AcceptInv
<1>6. ClientInv'
  BY <1>2, <1>3 DEF ClientInv
<1>7. NoGhost'
  <2> SUFFICES ASSUME NEW m \in Mac, shm_map'[m] # NoConn
               PROVE  /\ shm_map'[m] \in connections'
                      /\ device_initialized'[shm_map'[m]]
                      /\ mac_address'[shm_map'[m]] = m
    BY DEF NoGhost
  <2>1. mac_address[c] # m /\ shm_map'[m] = shm_map[m]
    BY DEF Close, ListWithout
  <2>2. /\ shm_map[m] \in connections /\ device_initialized[shm_map[m]]
        /\ mac_address[shm_map[m]] = m
    BY <2>1 DEF NoGhost
  <2> QED BY <1>3, <2>1, <2>2
<1> QED BY <1>4, <1>5, <1>6, <1>7 DEF ExitInv

LEMMA StopStep ==
    ASSUME SafeInv, TypeInv', HandleStop
    PROVE  SafeInv'
<1> USE DEF SafeInv, TypeInv, TypeOK
<1>1. \A c \in Conn :
        /\ sock'[c] = IF c \in connections THEN "closed" ELSE sock[c]
        /\ device_initialized'[c] = (c \notin connections /\ device_initialized[c])
        /\ mac_address'[c] = IF c \in connections THEN NoMac ELSE mac_address[c]
        /\ armed'[c] = (c \notin connections /\ armed[c])
        /\ status_timer_enabled'[c] = (c \notin connections /\ status_timer_enabled[c])
        /\ c \notin connections => queued'[c] = queued[c] /\ readOp'[c] = readOp[c]
  BY DEF HandleStop, Close, PendingWaits, CancelWaits, AbortReads
<1>2. /\ connections' = {} /\ player' = player /\ new_connection' = new_connection
      /\ thread' = thread /\ native_socket' = native_socket
      /\ acceptOp' = "ok" <=> acceptOp = "ok"
  BY DEF HandleStop, playerVars
<1>3. SocketInv'
  BY <1>1, <1>2 DEF SocketInv
<1>4. AcceptInv'
  BY <1>1, <1>2 DEF AcceptInv, SocketInv
<1>5. ClientInv'
  BY <1>1, <1>2 DEF ClientInv
<1>6. NoGhost'
  <2>1. \A m \in Mac : shm_map'[m] = NoConn
    BY DEF HandleStop, Close, ListWithout, NoGhost
  <2> QED BY <2>1 DEF NoGhost
<1>7. ExitInv'
  BY <1>2 DEF ExitInv, HandleStop
<1> QED BY <1>3, <1>4, <1>5, <1>6, <1>7

LEMMA HeloStep ==
    ASSUME SafeInv, TypeInv', NEW c \in Conn, HandleHelo(c)
    PROVE  SafeInv'
<1> USE DEF SafeInv, TypeInv, TypeOK, serverVars
<1>1. c \in connections /\ player[c] \in Mac
  BY DEF HandleHelo, SocketInv, AcceptInv
<1>2. SocketInv'
  BY <1>1 DEF HandleHelo, ReadAgain, CancelWaits, SocketInv
<1>3. AcceptInv'
  BY <1>1 DEF HandleHelo, ReadAgain, CancelWaits, SocketInv, AcceptInv
<1>4. ClientInv'
  BY <1>1 DEF HandleHelo, ClientInv
<1>5. NoGhost'
  <2>1. \A m \in Mac : shm_map'[m] = IF m = player[c] THEN c ELSE shm_map[m]
    BY <1>1 DEF HandleHelo
  <2>2. \A d \in Conn :
          /\ mac_address'[d] = (IF d = c THEN player[c] ELSE mac_address[d])
          /\ device_initialized'[d] = (d = c \/ device_initialized[d])
    BY DEF HandleHelo
  <2>3. connections' = connections
    BY DEF HandleHelo
  <2>4. device_initialized[c] => mac_address[c] = player[c]
    BY DEF ClientInv
  <2> QED BY <1>1, <2>1, <2>2, <2>3, <2>4 DEF NoGhost
<1>6. ExitInv'
  BY DEF HandleHelo, ExitInv
<1> QED BY <1>2, <1>3, <1>4, <1>5, <1>6

LEMMA ReadCloseStep ==
    ASSUME SafeInv, TypeInv', NEW c \in Conn, HandleBye(c) \/ HandleReadError(c)
    PROVE  SafeInv'
<1>1. /\ Close({c}) /\ thread = "running" /\ readOp[c] # "none"
      /\ connections' = connections \ {c}
      /\ UNCHANGED <<serverVars, native_socket, playerVars>>
  BY DEF HandleBye, HandleReadError
<1>2. \A d \in Conn \ {c} : readOp'[d] = readOp[d] /\ queued'[d] = queued[d]
  BY DEF HandleBye, HandleReadError, CancelWaits, SafeInv, TypeInv, TypeOK
<1> QED BY <1>1, <1>2, CloseOne

LEMMA TimerStep ==
    ASSUME SafeInv, TypeInv', NEW c \in Conn, HandleStatusTimer(c)
    PROVE  SafeInv'
<1>1. CASE StatusTimerDisconnects(c)
  <2>1. /\ Close({c}) /\ thread = "running" /\ queued[c] > 0
        /\ connections' = connections \ {c}
        /\ UNCHANGED <<serverVars, native_socket, playerVars>>
    BY <1>1 DEF HandleStatusTimer, StatusTimerDisconnects
  <2>2. \A d \in Conn \ {c} : readOp'[d] = readOp[d] /\ queued'[d] = queued[d]
    BY <1>1 DEF StatusTimerDisconnects, CancelWaits, AbortReads, SafeInv, TypeInv, TypeOK
  <2> QED BY <2>1, <2>2, CloseOne
<1>2. CASE StatusTimerPolls(c)
  <2> USE DEF SafeInv, TypeInv, TypeOK, serverVars, playerVars
  <2>1. /\ queued[c] > 0
        /\ UNCHANGED <<thread, acceptOp, new_connection, connections, sock, readOp,
                       status_timer_enabled, mac_address, device_initialized,
                       shm_map, native_socket, player>>
    BY <1>2 DEF HandleStatusTimer, StatusTimerPolls
  <2>2. /\ \A d \in Conn \ {c} : armed'[d] = armed[d] /\ queued'[d] = queued[d]
        /\ ~status_timer_enabled[c] => armed' = armed
    <3>1. NextWait(c)
      BY <1>2 DEF StatusTimerPolls
    <3>2. CASE status_timer_enabled[c]
      <4>1. /\ armed' = [armed EXCEPT ![c] = TRUE]
            /\ queued' = [CancelWaits({c}) EXCEPT ![c] = @ - 1]
        BY <3>1, <3>2 DEF NextWait
      <4>2. \A d \in Conn \ {c} : queued'[d] = queued[d]
        BY <4>1 DEF CancelWaits
      <4>3. \A d \in Conn \ {c} : armed'[d] = armed[d]
        BY <4>1
      <4> QED BY <3>2, <4>2, <4>3
    <3>3. CASE ~status_timer_enabled[c]
      BY <3>1, <3>3 DEF NextWait
    <3> QED BY <3>2, <3>3
  <2>3. sock[c] # "none" /\ ~(acceptOp = "ok" /\ c = new_connection)
    BY <2>1 DEF SocketInv, AcceptInv
  <2>4. SocketInv'
    BY <2>1, <2>2, <2>3 DEF SocketInv
  <2>5. AcceptInv'
    BY <2>1, <2>2, <2>3 DEF AcceptInv
  <2>6. ClientInv' /\ NoGhost' /\ ExitInv'
    BY <2>1, <2>2 DEF ClientInv, NoGhost, ExitInv
  <2> QED BY <2>4, <2>5, <2>6
<1> QED BY <1>1, <1>2 DEF HandleStatusTimer

\* SafeInv is inductive.
LEMMA SafeStep == SafeInv /\ [Next]_vars => SafeInv'
<1> SUFFICES ASSUME SafeInv, [Next]_vars PROVE SafeInv'
    OBVIOUS
<1>t. TypeInv'
  BY TypeStep DEF SafeInv
<1> USE SentinelAssumption, <1>t DEF SafeInv, TypeInv, TypeOK, SocketInv, AcceptInv, ClientInv, NoGhost, ExitInv,
        serverVars, timerVars, clientVars, playerVars
<1>1. ASSUME NEW m \in Mac, PeerConnects(m) PROVE SafeInv'
  BY <1>1 DEF PeerConnects, Connected
<1>2. CASE AcceptFails
  BY <1>2 DEF AcceptFails
<1>3. CASE ServerStop
  BY <1>3 DEF ServerStop
<1>4. ASSUME NEW c \in Conn, NEW msg \in Message, PeerSends(c, msg) PROVE SafeInv'
  BY <1>4 DEF PeerSends, Message
<1>5. ASSUME NEW c \in Conn, NEW how \in {"gone", "dead"}, PeerLeaves(c, how) PROVE SafeInv'
  BY <1>5 DEF PeerLeaves
<1>6. ASSUME NEW c \in Conn, ReadFails(c) PROVE SafeInv'
  BY <1>6 DEF ReadFails
<1>7. ASSUME NEW c \in Conn, TimerExpires(c) PROVE SafeInv'
  BY <1>7 DEF TimerExpires
<1>8. CASE HandleAccept
  BY <1>8 DEF HandleAccept, NextConnection
<1>9. CASE HandleAcceptError
  BY <1>9 DEF HandleAcceptError
<1>10. CASE HandleStop
  BY <1>10, StopStep
<1>11. ASSUME NEW c \in Conn, HandleHelo(c) PROVE SafeInv'
  BY <1>11, HeloStep
<1>12. ASSUME NEW c \in Conn, HandleHeloThrows(c) PROVE SafeInv'
  BY <1>12 DEF HandleHeloThrows
<1>13. ASSUME NEW c \in Conn, HandleStat(c) PROVE SafeInv'
  BY <1>13 DEF HandleStat, ReadAgain
<1>14. ASSUME NEW c \in Conn, HandleBye(c) PROVE SafeInv'
  BY <1>14, ReadCloseStep
<1>15. ASSUME NEW c \in Conn, HandleOther(c) PROVE SafeInv'
  BY <1>15 DEF HandleOther, ReadAgain
<1>16. ASSUME NEW c \in Conn, HandleReadError(c) PROVE SafeInv'
  BY <1>16, ReadCloseStep
<1>17. ASSUME NEW c \in Conn, HandleReadAborted(c) PROVE SafeInv'
  BY <1>17 DEF HandleReadAborted
<1>18. ASSUME NEW c \in Conn, HandleStatusTimer(c) PROVE SafeInv'
  BY <1>18, TimerStep
<1>19. CASE RunExits
  BY <1>19 DEF RunExits, NoWork
<1>20. CASE UNCHANGED vars
  BY <1>20 DEF vars
<1> HIDE DEF SafeInv
<1> QED
  BY <1>1, <1>2, <1>3, <1>4, <1>5, <1>6, <1>7, <1>8, <1>9, <1>10, <1>11, <1>12, <1>13, <1>14, <1>15, <1>16, <1>17, <1>18, <1>19, <1>20
     DEF Next, Environment, Handlers, HandleRead, Ended

LEMMA SafeAlways == Spec => []SafeInv
<1>1. Init => SafeInv
  BY CountAssumption, SentinelAssumption
     DEF Init, SafeInv, TypeInv, TypeOK, SocketInv, AcceptInv, ClientInv, NoGhost, ExitInv, Uninit
<1> QED BY <1>1, SafeStep, PTL DEF Spec

\* The list of clients never holds an entry of a connection that is not managed
\* or serves somebody else.
THEOREM NoGhostAlways == Spec => []NoGhost
<1>1. SafeInv => NoGhost
  BY DEF SafeInv
<1> QED BY <1>1, SafeAlways, PTL

\* Every managed connection has an open socket and a read outstanding.
THEOREM ReadOutstandingAlways == Spec => []ReadOutstanding
<1>1. SafeInv => ReadOutstanding
  BY DEF SafeInv, SocketInv, ReadOutstanding
<1> QED BY <1>1, SafeAlways, PTL

\* When run() has returned, no client is left in the list.
THEOREM ExitLeavesNoClientAlways == Spec => []ExitLeavesNoClient
<1>1. SafeInv => ExitLeavesNoClient
  BY DEF SafeInv, SocketInv, ExitInv, NoGhost, TypeInv, TypeOK, ExitLeavesNoClient
<1> QED BY <1>1, SafeAlways, PTL
-----------------------------------------------------------------------------
(***************************************************************************)
(* The watchdog, for players that say HELO once per connection.  The       *)
(* invariant counts the status waits of a connection (one while it has a   *)
(* client) and compares the missed polls with the time gone by.            *)
(***************************************************************************)

WatchInv ==
    \A c \in Conn :
        /\ device_initialized[c] => queued[c] + (IF armed[c] THEN 1 ELSE 0) = 1
        /\ helos[c] = 0 => readOp[c] # "HELO" /\ ~device_initialized[c] /\ queued[c] = 0
        /\ readOp[c] = "HELO" => ~device_initialized[c] /\ queued[c] = 0
        /\ ~device_initialized[c] /\ queued[c] > 0 => sock[c] = "closed"
        /\ device_initialized[c] \/ queued[c] > 0 => disconnection_counter[c] \in Nat
        /\ device_initialized[c] => disconnection_counter[c] < DISCONNECT_COUNT
        /\ device_initialized[c] => disconnection_counter[c] + queued[c] - quiet[c] \in {0, 1}

\* The other connections, and the counter, in a run of the timer handler.
LEMMA TimerOthers ==
    ASSUME TypeOK, NEW c \in Conn, HandleStatusTimer(c)
    PROVE  /\ \A d \in Conn \ {c} :
                /\ device_initialized'[d] = device_initialized[d]
                /\ armed'[d] = armed[d]
                /\ queued'[d] = queued[d]
                /\ readOp'[d] = readOp[d]
                /\ sock'[d] = sock[d]
                /\ disconnection_counter'[d] = disconnection_counter[d]
           /\ disconnection_counter'[c] = disconnection_counter[c] + 1
           /\ readOp'[c] = "HELO" => readOp[c] = "HELO"
           /\ UNCHANGED <<helos, quiet>>
<1> USE DEF TypeOK, playerVars
<1>1. /\ disconnection_counter' = [disconnection_counter EXCEPT ![c] = @ + 1]
      /\ UNCHANGED <<helos, quiet>>
  BY DEF HandleStatusTimer
<1>2. queued' = [CancelWaits({c}) EXCEPT ![c] = @ - 1]
      => \A d \in Conn \ {c} : queued'[d] = queued[d]
  BY DEF CancelWaits
<1>3. CASE StatusTimerDisconnects(c)
  BY <1>1, <1>2, <1>3 DEF StatusTimerDisconnects, Close, PendingWaits, AbortReads
<1>4. CASE StatusTimerPolls(c)
  <2>1. UNCHANGED <<readOp, sock, device_initialized>>
    BY <1>4 DEF StatusTimerPolls
  <2>2. \A d \in Conn \ {c} : armed'[d] = armed[d] /\ queued'[d] = queued[d]
    BY <1>2, <1>4 DEF StatusTimerPolls, NextWait
  <2> QED BY <1>1, <2>1, <2>2
<1> QED BY <1>3, <1>4 DEF HandleStatusTimer

LEMMA WatchTimer ==
    ASSUME MaxHelo = 1, SafeInv, SafeInv', WatchInv, NEW c \in Conn, HandleStatusTimer(c)
    PROVE  WatchInv'
<1> USE CountAssumption DEF SafeInv, TypeInv, TypeOK
<1>1. queued[c] > 0 /\ disconnection_counter[c] \in Nat /\ helos[c] # 0 /\ readOp[c] # "HELO"
  BY DEF HandleStatusTimer, WatchInv
<1>2. CASE StatusTimerDisconnects(c)
  <2>1. ~device_initialized'[c] /\ sock'[c] = "closed"
    BY <1>2 DEF StatusTimerDisconnects, Close
  <2> QED BY <1>1, <2>1, TimerOthers DEF WatchInv
<1>3. CASE StatusTimerPolls(c) /\ device_initialized[c]
  <2>1. queued[c] = 1 /\ ~armed[c] /\ status_timer_enabled[c]
    BY <1>1, <1>3 DEF WatchInv, ClientInv
  <2>2. queued'[c] = 0 /\ armed'[c]
    BY <1>3, <2>1 DEF StatusTimerPolls, NextWait, CancelWaits
  <2>3. disconnection_counter[c] + 1 # DISCONNECT_COUNT
    BY <1>3 DEF StatusTimerPolls, LastPoll
  <2>4. device_initialized' = device_initialized /\ sock' = sock
    BY <1>3 DEF StatusTimerPolls
  <2>5. disconnection_counter'[c] = disconnection_counter[c] + 1 /\ UNCHANGED <<helos, quiet>>
    BY TimerOthers
  <2>6. /\ disconnection_counter'[c] \in Nat /\ disconnection_counter'[c] < DISCONNECT_COUNT
        /\ disconnection_counter'[c] + queued'[c] - quiet'[c] \in {0, 1}
    <3> HIDE DEF SafeInv, TypeInv, TypeOK
    <3>1. /\ disconnection_counter[c] < DISCONNECT_COUNT
          /\ disconnection_counter[c] + queued[c] - quiet[c] \in {0, 1}
      BY <1>3 DEF WatchInv
    <3>2. quiet[c] \in Nat /\ queued[c] \in Nat
      BY DEF SafeInv, TypeInv, TypeOK
    <3> QED BY <1>1, <2>1, <2>2, <2>3, <2>5, <3>1, <3>2
  <2>7. \A d \in Conn \ {c} :
          /\ device_initialized'[d] = device_initialized[d] /\ sock'[d] = sock[d]
          /\ armed'[d] = armed[d] /\ queued'[d] = queued[d] /\ readOp'[d] = readOp[d]
          /\ disconnection_counter'[d] = disconnection_counter[d]
          /\ helos'[d] = helos[d] /\ quiet'[d] = quiet[d]
    BY TimerOthers
  <2>8. helos'[c] # 0 /\ readOp'[c] # "HELO" /\ device_initialized'[c]
    BY <1>1, <1>3, <2>4, TimerOthers
  <2> HIDE DEF SafeInv, TypeInv, TypeOK
  <2> QED BY <2>2, <2>6, <2>7, <2>8 DEF WatchInv
<1>4. CASE StatusTimerPolls(c) /\ ~device_initialized[c]
  <2>1. ~device_initialized'[c] /\ sock'[c] = sock[c] /\ sock[c] = "closed"
    BY <1>1, <1>4 DEF StatusTimerPolls, WatchInv
  <2> QED BY <1>1, <2>1, TimerOthers DEF WatchInv
<1> QED BY <1>2, <1>3, <1>4 DEF HandleStatusTimer

\* WatchInv is inductive, given SafeInv.
LEMMA WatchStep ==
    ASSUME MaxHelo = 1, SafeInv, SafeInv', WatchInv, [Next]_vars
    PROVE  WatchInv'
<1> USE CountAssumption DEF SafeInv, TypeInv, TypeOK, SocketInv, AcceptInv, ClientInv, WatchInv,
        serverVars, timerVars, clientVars, playerVars
<1>1. ASSUME NEW m \in Mac, PeerConnects(m) PROVE WatchInv'
  BY <1>1 DEF PeerConnects
<1>2. CASE AcceptFails
  BY <1>2 DEF AcceptFails
<1>3. CASE ServerStop
  BY <1>3 DEF ServerStop
<1>4. ASSUME NEW c \in Conn, NEW msg \in Message, PeerSends(c, msg) PROVE WatchInv'
  BY <1>4 DEF PeerSends, Message
<1>5. ASSUME NEW c \in Conn, NEW how \in {"gone", "dead"}, PeerLeaves(c, how) PROVE WatchInv'
  BY <1>5 DEF PeerLeaves
<1>6. ASSUME NEW c \in Conn, ReadFails(c) PROVE WatchInv'
  BY <1>6 DEF ReadFails
<1>7. ASSUME NEW c \in Conn, TimerExpires(c) PROVE WatchInv'
  BY <1>7 DEF TimerExpires
<1>8. CASE HandleAccept
  BY <1>8 DEF HandleAccept
<1>9. CASE HandleAcceptError
  BY <1>9 DEF HandleAcceptError
<1>10. CASE HandleStop
  BY <1>10 DEF HandleStop, Close, PendingWaits, CancelWaits, AbortReads
<1>11. ASSUME NEW c \in Conn, HandleHelo(c) PROVE WatchInv'
  BY <1>11 DEF HandleHelo, Hear, ReadAgain, CancelWaits
<1>12. ASSUME NEW c \in Conn, HandleHeloThrows(c) PROVE WatchInv'
  BY <1>12 DEF HandleHeloThrows
<1>13. ASSUME NEW c \in Conn, HandleStat(c) PROVE WatchInv'
  BY <1>13 DEF HandleStat, Hear, ReadAgain
<1>14. ASSUME NEW c \in Conn, HandleBye(c) PROVE WatchInv'
  BY <1>14 DEF HandleBye, Close, PendingWaits, CancelWaits
<1>15. ASSUME NEW c \in Conn, HandleOther(c) PROVE WatchInv'
  BY <1>15 DEF HandleOther, ReadAgain
<1>16. ASSUME NEW c \in Conn, HandleReadError(c) PROVE WatchInv'
  BY <1>16 DEF HandleReadError, Close, PendingWaits, CancelWaits
<1>17. ASSUME NEW c \in Conn, HandleReadAborted(c) PROVE WatchInv'
  BY <1>17 DEF HandleReadAborted
<1>18. ASSUME NEW c \in Conn, HandleStatusTimer(c) PROVE WatchInv'
  BY <1>18, WatchTimer
<1>19. CASE RunExits
  BY <1>19 DEF RunExits
<1>20. CASE UNCHANGED vars
  BY <1>20 DEF vars
<1> QED
  BY <1>1, <1>2, <1>3, <1>4, <1>5, <1>6, <1>7, <1>8, <1>9, <1>10, <1>11, <1>12,
     <1>13, <1>14, <1>15, <1>16, <1>17, <1>18, <1>19, <1>20
     DEF Next, Environment, Handlers, HandleRead, Ended

LEMMA WatchAlways ==
    ASSUME MaxHelo = 1
    PROVE  Spec => [](SafeInv /\ WatchInv)
<1>1. Init => WatchInv
  BY CountAssumption DEF Init, WatchInv
<1>2. SafeInv /\ SafeInv' /\ WatchInv /\ [Next]_vars => WatchInv'
  BY WatchStep
<1> QED BY <1>1, <1>2, SafeAlways, PTL DEF Spec

\* A player that can be commanded is managed, its socket is configured, and
\* exactly one status wait watches it.
THEOREM WatchedAlways ==
    ASSUME MaxHelo = 1
    PROVE  Spec => []Watched
<1>1. SafeInv /\ WatchInv => Watched
  BY DEF SafeInv, ClientInv, WatchInv, Watched
<1> QED BY <1>1, WatchAlways, PTL

\* The counter of missed polls is set before it is incremented and stays below
\* DISCONNECT_COUNT while the client is there.
THEOREM CounterSaneAlways ==
    ASSUME MaxHelo = 1
    PROVE  Spec => []CounterSane
<1>1. SafeInv /\ WatchInv => CounterSane
  BY CountAssumption DEF WatchInv, CounterSane, Uninit
<1> QED BY <1>1, WatchAlways, PTL

\* The counter counts the poll periods since the player was heard, or one more.
THEOREM CountsTimeoutsAlways ==
    ASSUME MaxHelo = 1
    PROVE  Spec => []CountsTimeouts
<1>1. SafeInv /\ WatchInv => CountsTimeouts
  BY DEF WatchInv, CountsTimeouts
<1> QED BY <1>1, WatchAlways, PTL

-----------------------------------------------------------------------------
(***************************************************************************)
(* A responsive player is kept if its slack leaves room for two polls.     *)
(***************************************************************************)

KeptInv ==
    /\ ResponsiveKept
    /\ \A c \in Conn :
        /\ device_initialized[c] /\ peer[c] = "up" /\ player[c] \in Responsive => quiet[c] <= Slack
        /\ readOp[c] = "BYE!" => peer[c] # "up"
        /\ readOp[c] = "error" /\ sock[c] = "open" => peer[c] # "up"

LEMMA KeptTimer ==
    ASSUME MaxHelo = 1, Slack + 2 <= DISCONNECT_COUNT,
           SafeInv, WatchInv, KeptInv, NEW c \in Conn, HandleStatusTimer(c)
    PROVE  KeptInv'
<1> USE CountAssumption, PlayerAssumption DEF SafeInv, TypeInv, TypeOK
<1>1. /\ queued[c] > 0
      /\ UNCHANGED <<stop, player, peer, quiet>>
  BY DEF HandleStatusTimer, serverVars, playerVars
<1>2. CASE StatusTimerDisconnects(c)
  <2>1. /\ ~device_initialized'[c]
        /\ readOp'[c] \in {"BYE!", "error"} => readOp'[c] = readOp[c]
        /\ sock'[c] = "closed"
    BY <1>2 DEF StatusTimerDisconnects, Close, AbortReads
  <2>2. disconnection_counter[c] + 1 = DISCONNECT_COUNT
    BY <1>2 DEF StatusTimerDisconnects, LastPoll
  <2>3. CASE device_initialized[c]
    <3>1. disconnection_counter[c] \in Nat /\ queued[c] = 1
      BY <1>1, <2>3 DEF WatchInv
    <3>2. quiet[c] > Slack
      BY <2>2, <2>3, <3>1 DEF WatchInv
    <3>3. ~(peer[c] = "up" /\ player[c] \in Responsive)
      BY <2>3, <3>2 DEF KeptInv
    <3> QED BY <1>1, <2>1, <3>3, TimerOthers DEF KeptInv, ResponsiveKept
  <2>4. CASE ~device_initialized[c]
    <3>1. sock[c] = "closed"
      BY <1>1, <2>4 DEF WatchInv
    <3> QED BY <1>1, <2>1, <3>1, TimerOthers DEF KeptInv, ResponsiveKept
  <2> QED BY <2>3, <2>4
<1>3. CASE StatusTimerPolls(c)
  <2>1. UNCHANGED <<sock, readOp, device_initialized>>
    BY <1>3 DEF StatusTimerPolls
  <2> QED BY <1>1, <2>1 DEF KeptInv, ResponsiveKept
<1> QED BY <1>2, <1>3 DEF HandleStatusTimer

\* KeptInv is inductive, given the invariants before it.
LEMMA KeptStep ==
    ASSUME MaxHelo = 1, Slack + 2 <= DISCONNECT_COUNT,
           SafeInv, SafeInv', WatchInv, KeptInv, [Next]_vars
    PROVE  KeptInv'
<1> USE CountAssumption, PlayerAssumption
    DEF SafeInv, TypeInv, TypeOK, SocketInv, AcceptInv, ClientInv, KeptInv, ResponsiveKept,
        serverVars, timerVars, clientVars, playerVars
<1>1. ASSUME NEW m \in Mac, PeerConnects(m) PROVE KeptInv'
  BY <1>1 DEF PeerConnects
<1>2. CASE AcceptFails
  BY <1>2 DEF AcceptFails
<1>3. CASE ServerStop
  BY <1>3 DEF ServerStop
<1>4. ASSUME NEW c \in Conn, NEW msg \in Message, PeerSends(c, msg) PROVE KeptInv'
  BY <1>4 DEF PeerSends, Message
<1>5. ASSUME NEW c \in Conn, NEW how \in {"gone", "dead"}, PeerLeaves(c, how) PROVE KeptInv'
  BY <1>5 DEF PeerLeaves
<1>6. ASSUME NEW c \in Conn, ReadFails(c) PROVE KeptInv'
  BY <1>6 DEF ReadFails
<1>7. ASSUME NEW c \in Conn, TimerExpires(c) PROVE KeptInv'
  BY <1>7 DEF TimerExpires
<1>8. CASE HandleAccept
  BY <1>8 DEF HandleAccept
<1>9. CASE HandleAcceptError
  BY <1>9 DEF HandleAcceptError
<1>10. CASE HandleStop
  BY <1>10 DEF HandleStop, Close, PendingWaits, CancelWaits, AbortReads
<1>11. ASSUME NEW c \in Conn, HandleHelo(c) PROVE KeptInv'
  BY <1>11 DEF HandleHelo, Hear, ReadAgain, CancelWaits
<1>12. ASSUME NEW c \in Conn, HandleHeloThrows(c) PROVE KeptInv'
  BY <1>12 DEF HandleHeloThrows
<1>13. ASSUME NEW c \in Conn, HandleStat(c) PROVE KeptInv'
  BY <1>13 DEF HandleStat, Hear, ReadAgain
<1>14. ASSUME NEW c \in Conn, HandleBye(c) PROVE KeptInv'
  BY <1>14 DEF HandleBye, Close, PendingWaits, CancelWaits
<1>15. ASSUME NEW c \in Conn, HandleOther(c) PROVE KeptInv'
  BY <1>15 DEF HandleOther, ReadAgain
<1>16. ASSUME NEW c \in Conn, HandleReadError(c) PROVE KeptInv'
  BY <1>16 DEF HandleReadError, Close, PendingWaits, CancelWaits
<1>17. ASSUME NEW c \in Conn, HandleReadAborted(c) PROVE KeptInv'
  BY <1>17 DEF HandleReadAborted
<1>18. ASSUME NEW c \in Conn, HandleStatusTimer(c) PROVE KeptInv'
  BY <1>18, KeptTimer
<1>19. CASE RunExits
  BY <1>19 DEF RunExits
<1>20. CASE UNCHANGED vars
  BY <1>20 DEF vars
<1> QED
  BY <1>1, <1>2, <1>3, <1>4, <1>5, <1>6, <1>7, <1>8, <1>9, <1>10, <1>11, <1>12,
     <1>13, <1>14, <1>15, <1>16, <1>17, <1>18, <1>19, <1>20
     DEF Next, Environment, Handlers, HandleRead, Ended

LEMMA KeptAlways ==
    ASSUME MaxHelo = 1, Slack + 2 <= DISCONNECT_COUNT
    PROVE  Spec => []KeptInv
<1>1. Init => KeptInv
  BY PlayerAssumption DEF Init, KeptInv, ResponsiveKept
<1>2. SafeInv /\ SafeInv' /\ WatchInv /\ KeptInv /\ [Next]_vars => KeptInv'
  BY KeptStep
<1> QED BY <1>1, <1>2, WatchAlways, PTL DEF Spec

\* The watchdog never drops a player that reports at least every
\* DISCONNECT_COUNT - 1 poll periods.
THEOREM ResponsiveKeptAlways ==
    ASSUME MaxHelo = 1, Slack + 2 <= DISCONNECT_COUNT
    PROVE  Spec => []ResponsiveKept
<1>1. KeptInv => ResponsiveKept
  BY DEF KeptInv
<1> QED BY <1>1, KeptAlways, PTL
-----------------------------------------------------------------------------
\* The io_service thread sends to one of the connections, or to none.
SlimInv ==
    /\ slim \in {"idle", "aude", "audg", "ready", "poll", "polled"}
    /\ slim # "idle" => on \in Conn

\* Every step keeps track of the connection the io_service thread sends to.
LEMMA SlimStep == SlimInv /\ [BroadcastNext]_allVars => SlimInv'
<1> SUFFICES ASSUME SlimInv, [BroadcastNext]_allVars PROVE SlimInv'
    OBVIOUS
<1> USE DEF SlimInv, allVars, castVars, slimVars
<1>1. CASE UNCHANGED allVars \/ UNCHANGED castVars \/ UNCHANGED slimVars
  BY <1>1
<1>2. ASSUME NEW c \in Conn, HeloBegins(c) \/ PollBegins(c) PROVE SlimInv'
  BY <1>2 DEF HeloBegins, PollBegins
<1>3. CASE SlimSends
  BY <1>3 DEF SlimSends, AfterSend
<1>4. CASE SlimEnds
  BY <1>4 DEF SlimEnds
<1>5. CASE HostCalls \/ HostStops \/ Host
  BY <1>5, <1>1 DEF HostCalls, HostStops, Host, HostVisits, HostSends, HostStrays, HostGoesOn
<1>6. ASSUME NEW c \in Conn, PlayerReads(c) PROVE SlimInv'
  BY <1>6 DEF PlayerReads
<1> QED
  BY <1>1, <1>2, <1>3, <1>4, <1>5, <1>6 DEF BroadcastNext, Silent

\* Every step is a step of SlimServer, or leaves its variables alone.
LEMMA ServerStep == SlimInv /\ [BroadcastNext]_allVars => [Next]_vars
<1> SUFFICES ASSUME SlimInv, [BroadcastNext]_allVars PROVE [Next]_vars
    OBVIOUS
<1>1. CASE UNCHANGED allVars \/ UNCHANGED vars
  BY <1>1 DEF allVars
<1>2. CASE Players \/ System
  BY <1>2 DEF Players, System, Next, Environment
<1>3. CASE HostStops
  BY <1>3 DEF HostStops, Next, Environment
<1>4. CASE Silent(HandleAccept \/ HandleAcceptError \/ HandleStop \/ RunExits)
  BY <1>4 DEF Silent, Next, Handlers
<1>5. ASSUME NEW c \in Conn, Silent(SilentRead(c) \/ SilentTimer(c)) PROVE [Next]_vars
  BY <1>5 DEF Silent, SilentRead, SilentTimer, Next, Handlers, HandleRead
<1>6. CASE SlimEnds
  <2>1. on \in Conn
    BY <1>6 DEF SlimEnds, SlimInv
  <2> QED BY <1>6, <2>1 DEF SlimEnds, Next, Handlers, HandleRead
<1>7. ASSUME NEW c \in Conn, HeloBegins(c) \/ PollBegins(c) \/ PlayerReads(c) PROVE [Next]_vars
  BY <1>7, <1>1 DEF HeloBegins, PollBegins, PlayerReads
<1>8. CASE SlimSends \/ HostCalls \/ Host
  BY <1>8, <1>1 DEF SlimSends, HostCalls, Host, HostVisits, HostSends, HostStrays, HostGoesOn
<1>9. CASE Ended
  BY <1>9 DEF Next
<1> QED
  BY <1>1, <1>2, <1>3, <1>4, <1>5, <1>6, <1>7, <1>8, <1>9 DEF BroadcastNext

\* The callbacks and the split handlers make no state or step of the control
\* server that SlimServer does not have.
THEOREM BroadcastImplementsServer == BroadcastSpec => SlimServerSpec
<1>1. BroadcastInit => SlimInv /\ Init
  BY DEF BroadcastInit, SlimInv
<1> QED BY <1>1, SlimStep, ServerStep, PTL DEF BroadcastSpec, SlimServerSpec, Spec

-----------------------------------------------------------------------------

SetUp(c) == native_socket_set[c] /\ {"aude", "audg"} \subseteq offered[c]

\* SetupFirst is not inductive: what a thread is about to send goes to a player
\* whose setup it has seen, and that was sent both messages before.
SetupInv ==
    /\ SlimInv
    /\ native_socket_set \in [Conn -> BOOLEAN]
    /\ offered \in [Conn -> SUBSET {"aude", "audg", "strm"}]
    /\ SetupFirst
    /\ \A c \in Conn : device_initialized[c] => SetUp(c)
    /\ slim \in {"aude", "audg"} => native_socket_set[on]
    /\ slim = "audg" => "aude" \in offered[on]
    /\ slim \in {"ready", "poll"} => SetUp(on)
    /\ at # NoConn => at \in Conn /\ todo # <<>> /\ (Kind = "strm" => SetUp(at))

\* Sending to one connection takes nothing back from another.
LEMMA OfferGrows ==
    ASSUME SetupInv, NEW c \in Conn, NEW kind \in {"aude", "audg", "strm"},
           offered' = [offered EXCEPT ![c] = @ \cup {kind}],
           misled \subseteq misled',
           kind = "strm" => SetUp(c) \/ c \in misled'
    PROVE  /\ offered' \in [Conn -> SUBSET {"aude", "audg", "strm"}]
           /\ SetupFirst'
           /\ \A d \in Conn : offered[d] \subseteq offered'[d]
           /\ kind \in offered'[c]
BY DEF SetupInv, SetupFirst, SetUp

\* No step but the end of HELO makes a device ready: not those of the players
\* and of the system,
LEMMA ReadyNotOutside ==
    ASSUME Players \/ System \/ ServerStop \/ RunExits
    PROVE  UNCHANGED device_initialized
BY DEF Players, System, PeerConnects, AcceptFails, ServerStop, PeerSends, PeerLeaves,
       ReadFails, TimerExpires, RunExits, clientVars

\* and not the other handlers.
LEMMA ReadyKept ==
    ASSUME TypeOK, NEW c \in Conn,
           \/ HandleAccept \/ HandleAcceptError \/ HandleStop
           \/ SilentRead(c) \/ HandleStatusTimer(c)
    PROVE  \A d \in Conn : device_initialized'[d] => device_initialized[d]
<1>1. CASE HandleAccept \/ HandleAcceptError \/ HandleStop
  BY <1>1 DEF HandleAccept, HandleAcceptError, HandleStop, Close, clientVars
<1>2. CASE SilentRead(c)
  BY <1>2 DEF SilentRead, HandleHeloThrows, HandleStat, HandleBye, HandleOther,
              HandleReadError, HandleReadAborted, Close, clientVars
<1>3. CASE HandleStatusTimer(c)
  BY <1>3 DEF HandleStatusTimer, StatusTimerDisconnects, StatusTimerPolls, Close
<1> QED BY <1>1, <1>2, <1>3

\* A step that sends nothing, moves no thread and makes no device ready keeps
\* the setup.
LEMMA SetupQuiet ==
    ASSUME SetupInv, SlimInv', UNCHANGED <<native_socket_set, slim, on, offered, misled, todo, at>>,
           \A c \in Conn : device_initialized'[c] => device_initialized[c]
    PROVE  SetupInv'
BY DEF SetupInv, SetupFirst, SetUp, Kind

\* Every step keeps the setup ahead of the stream commands.
LEMMA SetupStep == TypeOK /\ SetupInv /\ [BroadcastNext]_allVars => SetupInv'
<1> SUFFICES ASSUME TypeOK, SetupInv, [BroadcastNext]_allVars PROVE SetupInv'
    OBVIOUS
<1>s. SlimInv /\ SlimInv'
  BY SlimStep DEF SetupInv
<1> USE DEF castVars, slimVars, hostVars, wireVars
<1>1. CASE UNCHANGED allVars
  BY <1>1, <1>s, SetupQuiet DEF allVars, vars, clientVars
<1>2. CASE (Players \/ System) /\ UNCHANGED castVars
  BY <1>2, <1>s, ReadyNotOutside, SetupQuiet
<1>3. CASE HostCalls
  BY <1>3, <1>s DEF HostCalls, SetupInv, SetupFirst, SetUp, Kind, vars, clientVars
<1>4. CASE HostStops
  BY <1>4, <1>s, ReadyNotOutside, SetupQuiet DEF HostStops
<1>5. ASSUME NEW c \in Conn, HostVisits(c) PROVE SetupInv'
  BY <1>5, <1>s DEF HostVisits, SetupInv, SetupFirst, SetUp, Kind, Ready, Addressed,
                    vars, clientVars
<1>6. CASE HostSends
  <2>1. at \in Conn /\ Kind \in {"audg", "strm"} /\ (Kind = "strm" => SetUp(at))
    BY <1>6 DEF HostSends, SetupInv, Kind
  <2>2. offered' = [offered EXCEPT ![at] = @ \cup {Kind}] /\ UNCHANGED misled
    BY <1>6 DEF HostSends, SendData
  <2>3. /\ offered' \in [Conn -> SUBSET {"aude", "audg", "strm"}]
        /\ SetupFirst'
        /\ \A d \in Conn : offered[d] \subseteq offered'[d]
    BY <2>1, <2>2, OfferGrows
  <2> QED BY <1>6, <1>s, <2>3 DEF HostSends, SetupInv, SetUp, vars, clientVars, SlimInv
<1>7. CASE HostStrays
  <2>1. CASE UNCHANGED wireVars
    BY <1>7, <1>s, <2>1 DEF HostStrays, SetupInv, SetupFirst, SetUp, vars, clientVars
  <2>2. ASSUME NEW d \in Conn, offered' = [offered EXCEPT ![d] = @ \cup {Kind}],
               misled' = IF native_socket_set[at] THEN misled \cup {d} ELSE misled
        PROVE  SetupInv'
    <3>1. Kind \in {"audg", "strm"} /\ (Kind = "strm" => native_socket_set[at])
      BY <1>7 DEF HostStrays, SetupInv, SetUp, Kind
    <3>2. misled \subseteq misled' /\ (Kind = "strm" => d \in misled')
      BY <2>2, <3>1
    <3>3. /\ offered' \in [Conn -> SUBSET {"aude", "audg", "strm"}]
          /\ SetupFirst'
          /\ \A e \in Conn : offered[e] \subseteq offered'[e]
      BY <2>2, <3>1, <3>2, OfferGrows
    <3> QED BY <1>7, <1>s, <3>3 DEF HostStrays, SetupInv, SetUp, vars, clientVars, SlimInv
  <2> QED BY <1>7, <2>1, <2>2 DEF HostStrays
<1>8. CASE HostGoesOn
  BY <1>8, <1>s DEF HostGoesOn, SetupInv, SetupFirst, SetUp, vars, clientVars
<1>9. CASE Silent(HandleAccept \/ HandleAcceptError \/ HandleStop \/ RunExits)
  BY <1>9, <1>s, ReadyNotOutside, ReadyKept, SetupQuiet DEF Silent
<1>10. ASSUME NEW c \in Conn, Silent(SilentRead(c) \/ SilentTimer(c)) PROVE SetupInv'
  BY <1>10, <1>s, ReadyKept, SetupQuiet DEF Silent, SilentTimer
<1>11. ASSUME NEW c \in Conn, HeloBegins(c) PROVE SetupInv'
  BY <1>11, <1>s DEF HeloBegins, SetupInv, SetupFirst, SetUp, Kind, vars, clientVars
<1>12. ASSUME NEW c \in Conn, PollBegins(c) PROVE SetupInv'
  BY <1>12, <1>s DEF PollBegins, SetupInv, SetupFirst, SetUp, Kind, vars, clientVars
<1>13. ASSUME NEW c \in Conn, PlayerReads(c) PROVE SetupInv'
  BY <1>13, <1>s, SetupQuiet DEF PlayerReads, vars, clientVars
<1>14. CASE SlimSends
  <2> DEFINE kind == IF slim = "poll" THEN "strm" ELSE slim
  <2>1. /\ on \in Conn /\ kind \in {"aude", "audg", "strm"} /\ (kind = "strm" => SetUp(on))
        /\ slim \in {"aude", "audg", "poll"}
    BY <1>14, <1>s DEF SlimSends, AfterSend, SetupInv, SlimInv
  <2>2. offered' = [offered EXCEPT ![on] = @ \cup {kind}] /\ UNCHANGED misled
    BY <1>14 DEF SlimSends, SendData
  <2>3. /\ offered' \in [Conn -> SUBSET {"aude", "audg", "strm"}]
        /\ SetupFirst'
        /\ \A d \in Conn : offered[d] \subseteq offered'[d]
        /\ kind \in offered'[on]
    <3> HIDE DEF kind
    <3> QED BY <2>1, <2>2, OfferGrows
  <2>4. slim' = IF slim = "aude" THEN "audg" ELSE IF slim = "audg" THEN "ready" ELSE "polled"
    BY <1>14, <2>1 DEF SlimSends, AfterSend
  <2> QED
    BY <1>14, <1>s, <2>1, <2>3, <2>4 DEF SlimSends, SetupInv, SetUp, Kind, vars, clientVars
<1>15. CASE SlimEnds
  <2>1. on \in Conn
    BY <1>15, <1>s DEF SlimEnds, SlimInv
  <2>2. CASE slim = "ready" /\ HandleHelo(on)
    <3>1. \A c \in Conn : device_initialized'[c] => device_initialized[c] \/ c = on
      BY <2>1, <2>2 DEF HandleHelo, TypeOK
    <3> QED BY <1>15, <1>s, <2>1, <2>2, <3>1 DEF SlimEnds, SetupInv, SetupFirst, SetUp, Kind
  <2>3. CASE slim = "polled" /\ HandleStatusTimer(on)
    <3>1. \A c \in Conn : device_initialized'[c] => device_initialized[c]
      BY <2>1, <2>3, ReadyKept
    <3> QED BY <1>15, <1>s, <2>3, <3>1 DEF SlimEnds, SetupInv, SetupFirst, SetUp, Kind
  <2> QED BY <1>15, <2>2, <2>3 DEF SlimEnds
<1>16. CASE Ended /\ UNCHANGED castVars
  BY <1>16, <1>s, SetupQuiet DEF Ended, vars, clientVars
<1> QED
  BY <1>1, <1>2, <1>3, <1>4, <1>5, <1>6, <1>7, <1>8, <1>9, <1>10, <1>11, <1>12, <1>13,
     <1>14, <1>15, <1>16
     DEF BroadcastNext, Host

\* Whatever the callbacks send, and whichever sends fail, a player gets no
\* stream command before its outputs are switched on and its volume is set.
THEOREM SetupFirstAlways == BroadcastSpec => []SetupFirst
<1>1. BroadcastInit => SetupInv
  BY DEF BroadcastInit, Init, SetupInv, SlimInv, SetupFirst, SetUp
<1>2. SetupInv => SetupFirst
  BY DEF SetupInv
<1>3. BroadcastSpec => []TypeOK
  BY BroadcastImplementsServer, TypeCorrect DEF SlimServerSpec
<1> QED BY <1>1, <1>2, <1>3, SetupStep, PTL DEF BroadcastSpec

\* With callbacks beside the handlers the client list still has no ghosts.
THEOREM BroadcastNoGhost == BroadcastSpec => []NoGhost
BY BroadcastImplementsServer, NoGhostAlways DEF SlimServerSpec
-----------------------------------------------------------------------------
(* The registry of players. *)

\* No player has two open connections.
OneOpen ==
    \A c, d \in Conn :
        sock[c] = "open" /\ sock[d] = "open" /\ player[c] = player[d] => c = d

\* The entry of a player that can be commanded was written by its connection.
OwnEntry == \A c \in Conn : device_initialized[c] => shm_map[player[c]] = c

\* The read loop ends a connection that is still open only after the player
\* has left.
LeftInv ==
    \A c \in Conn :
        /\ readOp[c] = "BYE!" => peer[c] # "up"
        /\ readOp[c] = "error" /\ sock[c] = "open" => peer[c] # "up"

RegInv == OneOpen /\ OwnEntry /\ LeftInv
-----------------------------------------------------------------------------
(* The invariant is inductive, given those of SlimServer alone. *)

LEMMA RegInvStep ==
    ASSUME ~HalfOpen, SafeInv, SafeInv', RegInv, [Next]_vars
    PROVE  RegInv'
<1> USE SentinelAssumption
    DEF RegInv, OneOpen, OwnEntry, LeftInv, SafeInv, TypeInv, TypeOK, SocketInv, AcceptInv, ClientInv,
        serverVars, timerVars, clientVars, playerVars
<1>1. ASSUME NEW m \in Mac, PeerConnects(m) PROVE RegInv'
  BY <1>1 DEF PeerConnects, Connected
<1>2. CASE AcceptFails
  BY <1>2 DEF AcceptFails
<1>3. CASE ServerStop
  BY <1>3 DEF ServerStop
<1>4. ASSUME NEW c \in Conn, NEW msg \in Message, PeerSends(c, msg) PROVE RegInv'
  BY <1>4 DEF PeerSends, Message
<1>5. ASSUME NEW c \in Conn, NEW how \in {"gone", "dead"}, PeerLeaves(c, how) PROVE RegInv'
  BY <1>5 DEF PeerLeaves
<1>6. ASSUME NEW c \in Conn, ReadFails(c) PROVE RegInv'
  BY <1>6 DEF ReadFails
<1>7. ASSUME NEW c \in Conn, TimerExpires(c) PROVE RegInv'
  BY <1>7 DEF TimerExpires
<1>8. CASE HandleAccept
  BY <1>8 DEF HandleAccept
<1>9. CASE HandleAcceptError
  BY <1>9 DEF HandleAcceptError
<1>10. CASE HandleStop
  BY <1>10 DEF HandleStop, Close, ListWithout, AbortReads
<1>11. ASSUME NEW c \in Conn, HandleHelo(c) PROVE RegInv'
  BY <1>11 DEF HandleHelo, ReadAgain
<1>12. ASSUME NEW c \in Conn, HandleHeloThrows(c) PROVE RegInv'
  BY <1>12 DEF HandleHeloThrows
<1>13. ASSUME NEW c \in Conn, HandleStat(c) PROVE RegInv'
  BY <1>13 DEF HandleStat, ReadAgain
<1>14. ASSUME NEW c \in Conn, HandleBye(c) PROVE RegInv'
  BY <1>14 DEF HandleBye, Close, ListWithout
<1>15. ASSUME NEW c \in Conn, HandleOther(c) PROVE RegInv'
  BY <1>15 DEF HandleOther, ReadAgain
<1>16. ASSUME NEW c \in Conn, HandleReadError(c) PROVE RegInv'
  BY <1>16 DEF HandleReadError, Close, ListWithout
<1>17. ASSUME NEW c \in Conn, HandleReadAborted(c) PROVE RegInv'
  BY <1>17 DEF HandleReadAborted
<1>18. ASSUME NEW c \in Conn, HandleStatusTimer(c) PROVE RegInv'
  BY <1>18 DEF HandleStatusTimer, StatusTimerDisconnects, StatusTimerPolls, Close, ListWithout, AbortReads
<1>19. CASE RunExits
  BY <1>19 DEF RunExits
<1>20. CASE UNCHANGED vars
  BY <1>20 DEF vars
<1> QED
  BY <1>1, <1>2, <1>3, <1>4, <1>5, <1>6, <1>7, <1>8, <1>9, <1>10, <1>11, <1>12, <1>13, <1>14, <1>15, <1>16, <1>17, <1>18, <1>19, <1>20
     DEF Next, Environment, Handlers, HandleRead, Ended

LEMMA RegInvAlways ==
    ASSUME MaxHelo = 1, ~HalfOpen
    PROVE  Spec => [](SafeInv /\ WatchInv /\ RegInv)
<1>1. Init => RegInv
  BY DEF Init, RegInv, OneOpen, OwnEntry, LeftInv
<1>2. SafeInv /\ SafeInv' /\ RegInv /\ [Next]_vars => RegInv'
  BY RegInvStep
<1> QED BY <1>1, <1>2, WatchAlways, PTL DEF Spec
-----------------------------------------------------------------------------
(***************************************************************************)
(* The refinement mapping.  The list of clients follows from the invariant *)
(* in every state; what is left to show of a step is what it does to the   *)
(* phase, the player and the missed polls of each connection.              *)
(***************************************************************************)

MapInv == SafeInv /\ WatchInv /\ RegInv

\* missed of the mapping.
Missed(c) == IF device_initialized[c] THEN disconnection_counter[c] ELSE 0

\* The mapped variables of connection c, but for up, do not change.
Same(c) == Phase(c)' = Phase(c) /\ mac_address'[c] = mac_address[c] /\ Missed(c)' = Missed(c)

\* Phases of the connections a handler may run for.
LEMMA Phases ==
    ASSUME MapInv, NEW c \in Conn
    PROVE  /\ device_initialized[c] <=> Phase(c) = "active"
           /\ Registry!Live(c) <=> c \in connections
           /\ c \notin connections /\ sock[c] = "closed" <=> Phase(c) = "closed"
           /\ c \notin connections => /\ mac_address[c] = NoMac /\ ~device_initialized[c]
                                      /\ Missed(c) = 0
BY DEF MapInv, SafeInv, TypeInv, TypeOK, SocketInv, ClientInv, Phase, Missed, Registry!Live

\* The client list is the set of active players.
ListIsActive ==
    {m \in Mac : shm_map[m] # NoConn} = {mac_address[c] : c \in {d \in Conn : Phase(d) = "active"}}

LEMMA ListMaps == MapInv => ListIsActive
<1> SUFFICES ASSUME MapInv PROVE ListIsActive
  OBVIOUS
<1>1. ASSUME NEW m \in Mac, shm_map[m] # NoConn
      PROVE  \E c \in Conn : Phase(c) = "active" /\ mac_address[c] = m
  <2>1. /\ shm_map[m] \in Conn
        /\ device_initialized[shm_map[m]] /\ mac_address[shm_map[m]] = m
    BY <1>1 DEF MapInv, SafeInv, TypeInv, TypeOK, NoGhost
  <2> QED BY <2>1, Phases
<1>2. ASSUME NEW c \in Conn, Phase(c) = "active"
      PROVE  mac_address[c] \in Mac /\ shm_map[mac_address[c]] # NoConn
  <2>1. device_initialized[c]
    BY <1>2, Phases
  <2> QED
    BY <2>1, SentinelAssumption
       DEF MapInv, SafeInv, ClientInv, SocketInv, TypeInv, TypeOK, RegInv, OwnEntry
<1> QED BY <1>1, <1>2 DEF ListIsActive

\* So the list follows in every step.
LEMMA Follows == MapInv' => Registry!ListFollows
<1>1. MapInv' => ListIsActive'
  BY ListMaps, PTL
<1> QED BY <1>1 DEF ListIsActive, Registry!ListFollows

\* A step that changes none of the mapped variables is a stutter.
LEMMA Stutters ==
    ASSUME MapInv, MapInv', \A c \in Conn : Same(c), peer' = peer
    PROVE  UNCHANGED Registry!vars
<1>1. {m \in Mac : shm_map[m] # NoConn}' = {m \in Mac : shm_map[m] # NoConn}
  <2>1. {mac_address[c] : c \in {d \in Conn : Phase(d) = "active"}}'
          = {mac_address[c] : c \in {d \in Conn : Phase(d) = "active"}}
    BY DEF Same
  <2>2. ListIsActive /\ ListIsActive'
    BY ListMaps, PTL
  <2> QED BY <2>1, <2>2 DEF ListIsActive
<1>2. mac_address' = mac_address
  BY DEF Same, MapInv, SafeInv, TypeInv, TypeOK
<1>3. /\ [c \in Conn |-> Phase(c)]' = [c \in Conn |-> Phase(c)]
      /\ [c \in Conn |-> peer[c] = "up"]' = [c \in Conn |-> peer[c] = "up"]
      /\ [c \in Conn |-> Missed(c)]' = [c \in Conn |-> Missed(c)]
  BY DEF Same
<1> QED BY <1>1, <1>2, <1>3 DEF Registry!vars, Missed

\* A handler that closes connection c and no other is a step of the registry,
\* or none if c was closed before.
LEMMA EndsOne ==
    ASSUME MapInv, MapInv', NEW c \in Conn, Close({c}), sock[c] # "none",
           ~(acceptOp = "ok" /\ c = new_connection),
           connections' = connections \ {c}, peer' = peer,
           \A d \in Conn \ {c} : disconnection_counter'[d] = disconnection_counter[d]
    PROVE  IF c \in connections THEN Registry!End({c}) ELSE UNCHANGED Registry!vars
<1> USE DEF MapInv, SafeInv, TypeInv, TypeOK
<1>1. \A d \in Conn \ {c} : Same(d)
  BY DEF Close, Same, Phase, Missed
<1>2. Phase(c)' = "closed" /\ mac_address'[c] = NoMac /\ Missed(c)' = 0
  BY DEF Close, Phase, Missed
<1>3. CASE c \in connections
  <2>1. [d \in Conn |-> Phase(d)]' = [d \in Conn |-> IF d \in {c} THEN "closed" ELSE Phase(d)]
    BY <1>1, <1>2 DEF Same
  <2>2. mac_address' = [d \in Conn |-> IF d \in {c} THEN NoMac ELSE mac_address[d]]
    BY DEF Close
  <2>3. [d \in Conn |-> Missed(d)]' = [d \in Conn |-> IF d \in {c} THEN 0 ELSE Missed(d)]
    BY <1>1, <1>2 DEF Same
  <2> QED BY <1>3, <2>1, <2>2, <2>3 DEF Registry!End, Missed
<1>4. CASE c \notin connections
  <2>1. sock[c] = "closed"
    BY <1>4 DEF SocketInv
  <2>2. Same(c)
    BY <1>2, <1>4, <2>1, Phases DEF Same
  <2> QED BY <1>1, <1>4, <2>2, Stutters
<1> QED BY <1>3, <1>4
-----------------------------------------------------------------------------
(* The steps. *)

\* A player leaves: up changes, the phase stays until a handler notices.
LEMMA LeaveStep ==
    ASSUME MapInv, MapInv', NEW c \in Conn,
           \/ PeerSends(c, "BYE!")
           \/ \E how \in {"gone", "dead"} : PeerLeaves(c, how)
    PROVE  Registry!PlayerLeaves(c)
<1> USE DEF MapInv, SafeInv, TypeInv, TypeOK, PeerSends, PeerLeaves, timerVars, clientVars
<1>1. \A d \in Conn : Same(d)
  BY DEF Same, Phase, Missed
<1>2. peer[c] = "up" /\ \A d \in Conn : peer'[d] = "up" <=> d # c /\ peer[d] = "up"
  OBVIOUS
<1>3. [d \in Conn |-> peer[d] = "up"]' = [[d \in Conn |-> peer[d] = "up"] EXCEPT ![c] = FALSE]
  BY <1>2
<1>4. [d \in Conn |-> Phase(d)]' = [d \in Conn |-> Phase(d)]
  BY <1>1 DEF Same
<1>5. [d \in Conn |-> Missed(d)]' = [d \in Conn |-> Missed(d)]
  BY <1>1 DEF Same
<1> QED BY <1>2, <1>3, <1>4, <1>5 DEF Registry!PlayerLeaves, Missed

\* handle_accept starts the connection that was accepted.
LEMMA AcceptStep ==
    ASSUME MapInv, MapInv', HandleAccept
    PROVE  \E c \in Conn : Registry!Connect(c)
<1> USE DEF MapInv, SafeInv, TypeInv, TypeOK, HandleAccept, timerVars, clientVars, playerVars
<1>0. PICK n \in Conn : n = new_connection
  OBVIOUS
<1>1. sock[n] = "open" /\ n \notin connections
  BY <1>0 DEF AcceptInv, SocketInv
<1>2. ~device_initialized[n]
  BY <1>1 DEF ClientInv
<1>3. Phase(n) = "idle" /\ Phase(n)' = "connected"
  BY <1>0, <1>1, <1>2 DEF Phase
<1>4. \A d \in Conn \ {n} : Phase(d)' = Phase(d)
  BY <1>0 DEF Phase
<1>5. [d \in Conn |-> Phase(d)]' = [[d \in Conn |-> Phase(d)] EXCEPT ![n] = "connected"]
  BY <1>1, <1>3, <1>4
<1>6. Registry!Connect(n)
  BY <1>3, <1>5 DEF Registry!Connect
<1> QED BY <1>6

\* HELO makes a connection active.
LEMMA HelloStep ==
    ASSUME MapInv, MapInv', NEW c \in Conn, HandleHelo(c)
    PROVE  \E m \in Mac : Registry!Hello(c, m)
<1> USE DEF MapInv, SafeInv, TypeInv, TypeOK, HandleHelo, Hear
<1>1. c \in connections /\ player[c] \in Mac /\ ~device_initialized[c]
  BY DEF SocketInv, AcceptInv, WatchInv
<1>2. Phase(c) = "connected" /\ Phase(c)' = "active"
  BY <1>1 DEF Phase
<1>3. \A d \in Conn \ {c} : Phase(d)' = Phase(d)
  BY DEF Phase
<1>4. \A d \in Conn : Missed(d)' = Missed(d)
  BY <1>1 DEF Missed
<1>5. [d \in Conn |-> Phase(d)]' = [[d \in Conn |-> Phase(d)] EXCEPT ![c] = "active"]
  BY <1>2, <1>3
<1>6. [d \in Conn |-> Missed(d)]' = [d \in Conn |-> Missed(d)]
  BY <1>4
<1>7. Registry!Hello(c, player[c])
  BY <1>2, <1>5, <1>6 DEF Registry!Hello, Missed
<1> QED BY <1>1, <1>7

\* A report of an active player forgives what it missed; one whose client is
\* gone changes nothing.
LEMMA ReportStep ==
    ASSUME MapInv, MapInv', NEW c \in Conn, HandleStat(c)
    PROVE  Registry!Report(c) \/ UNCHANGED Registry!vars
<1> USE DEF MapInv, SafeInv, TypeInv, TypeOK, HandleStat, Hear, clientVars
<1>1. /\ \A d \in Conn : Phase(d)' = Phase(d)
      /\ \A d \in Conn \ {c} : Missed(d)' = Missed(d)
      /\ Missed(c)' = 0
  BY DEF Phase, Missed
<1>2. CASE device_initialized[c]
  <2>1. [d \in Conn |-> Missed(d)]' = [[d \in Conn |-> Missed(d)] EXCEPT ![c] = 0]
    BY <1>1
  <2>2. [d \in Conn |-> Phase(d)]' = [d \in Conn |-> Phase(d)]
    BY <1>1
  <2>3. Phase(c) = "active"
    BY <1>2, Phases
  <2> QED BY <2>1, <2>2, <2>3 DEF Registry!Report, Missed
<1>3. CASE ~device_initialized[c]
  <2>1. \A d \in Conn : Same(d)
    BY <1>1, <1>3 DEF Same, Missed
  <2> QED BY <2>1, Stutters
<1> QED BY <1>2, <1>3

\* The end of the read loop ends the connection, if it is still there, of a
\* player that has left.
LEMMA LeftStep ==
    ASSUME MapInv, MapInv', NEW c \in Conn, HandleBye(c) \/ HandleReadError(c)
    PROVE  Registry!EndLeft(c) \/ UNCHANGED Registry!vars
<1> USE DEF MapInv, SafeInv, TypeInv, TypeOK
<1>1. /\ Close({c}) /\ readOp[c] \in {"BYE!", "error"}
      /\ connections' = connections \ {c} /\ peer' = peer
      /\ disconnection_counter' = disconnection_counter
  BY DEF HandleBye, HandleReadError, playerVars
<1>2. sock[c] # "none" /\ ~(acceptOp = "ok" /\ c = new_connection)
  BY <1>1 DEF SocketInv, AcceptInv
<1>3. IF c \in connections THEN Registry!End({c}) ELSE UNCHANGED Registry!vars
  BY <1>1, <1>2, EndsOne
<1>4. c \in connections => Registry!Live(c) /\ peer[c] # "up"
  BY <1>1, Phases DEF RegInv, LeftInv, SocketInv
<1> QED BY <1>3, <1>4 DEF Registry!EndLeft

\* A poll of an active player is a miss or its end; the wait of a client that is
\* gone changes nothing.
LEMMA PollStep ==
    ASSUME MapInv, MapInv', NEW c \in Conn, HandleStatusTimer(c)
    PROVE  Registry!Miss(c) \/ Registry!EndSilent(c) \/ UNCHANGED Registry!vars
<1> USE DEF MapInv, SafeInv, TypeInv, TypeOK
<1>1. /\ queued[c] > 0 /\ peer' = peer
      /\ \A d \in Conn \ {c} : disconnection_counter'[d] = disconnection_counter[d]
      /\ disconnection_counter'[c] = disconnection_counter[c] + 1
  BY TimerOthers DEF HandleStatusTimer, playerVars
<1>2. sock[c] # "none" /\ ~(acceptOp = "ok" /\ c = new_connection)
  BY <1>1 DEF SocketInv, AcceptInv
<1>3. CASE StatusTimerDisconnects(c)
  <2>1. Close({c}) /\ connections' = connections \ {c} /\ LastPoll(c)
    BY <1>3 DEF StatusTimerDisconnects
  <2>2. IF c \in connections THEN Registry!End({c}) ELSE UNCHANGED Registry!vars
    BY <1>1, <1>2, <2>1, EndsOne
  <2>3. c \in connections => device_initialized[c]
    BY <1>1 DEF WatchInv, SocketInv
  <2>4. c \in connections => Phase(c) = "active" /\ Missed(c) + 1 = DISCONNECT_COUNT
    BY <2>1, <2>3, Phases DEF Missed, LastPoll
  <2> QED BY <2>2, <2>4 DEF Registry!EndSilent, Missed
<1>4. CASE StatusTimerPolls(c)
  <2>1. /\ \A d \in Conn : Phase(d)' = Phase(d)
        /\ \A d \in Conn \ {c} : Missed(d)' = Missed(d)
        /\ mac_address' = mac_address /\ ~LastPoll(c)
        /\ device_initialized' = device_initialized
    BY <1>1, <1>4 DEF StatusTimerPolls, Phase, Missed
  <2>2. CASE device_initialized[c]
    <3>1. Phase(c) = "active"
      BY <2>2, Phases
    <3>2. Missed(c) + 1 < DISCONNECT_COUNT
      BY <2>1, <2>2, CountAssumption DEF WatchInv, Missed, LastPoll
    <3>3. Missed(c)' = Missed(c) + 1
      BY <1>1, <2>1, <2>2 DEF Missed
    <3>4. [d \in Conn |-> Missed(d)]' = [[d \in Conn |-> Missed(d)] EXCEPT ![c] = @ + 1]
      BY <2>1, <3>3
    <3>5. [d \in Conn |-> Phase(d)]' = [d \in Conn |-> Phase(d)]
      BY <2>1
    <3> QED BY <1>1, <2>1, <3>1, <3>2, <3>4, <3>5 DEF Registry!Miss, Missed
  <2>3. CASE ~device_initialized[c]
    <3>1. \A d \in Conn : Same(d)
      BY <2>1, <2>3 DEF Same, Missed
    <3> QED BY <1>1, <3>1, Stutters
  <2> QED BY <2>2, <2>3
<1> QED BY <1>3, <1>4 DEF HandleStatusTimer

\* handle_stop ends every connection that was started.
LEMMA StopAllStep ==
    ASSUME MapInv, MapInv', HandleStop
    PROVE  Registry!StopAll
<1> USE DEF MapInv, SafeInv, TypeInv, TypeOK
<1>1. /\ Close(connections) /\ connections' = {} /\ peer' = peer
      /\ disconnection_counter' = disconnection_counter
  BY DEF HandleStop, playerVars
<1>2. \A d \in connections : Phase(d)' = "closed" /\ mac_address'[d] = NoMac /\ Missed(d)' = 0
  BY <1>1 DEF Close, Phase, Missed
<1>3. \A d \in Conn \ connections : Same(d) /\ mac_address[d] = mac_address'[d]
  BY <1>1, Phases DEF Close, Same, Phase, Missed
<1>4. {d \in Conn : Registry!Live(d)} = connections
  BY Phases
<1>5. [d \in Conn |-> Phase(d)]' = [d \in Conn |-> IF d \in connections THEN "closed" ELSE Phase(d)]
  BY <1>2, <1>3 DEF Same
<1>6. mac_address' = [d \in Conn |-> IF d \in connections THEN NoMac ELSE mac_address[d]]
  BY <1>1 DEF Close
<1>7. [d \in Conn |-> Missed(d)]' = [d \in Conn |-> IF d \in connections THEN 0 ELSE Missed(d)]
  BY <1>2, <1>3 DEF Same
<1> QED
  BY <1>1, <1>4, <1>5, <1>6, <1>7 DEF Registry!StopAll, Registry!End, Missed

\* The steps that the registry does not see.
LEMMA UnseenStep ==
    ASSUME MapInv, MapInv',
           \/ \E m \in Mac : PeerConnects(m)
           \/ AcceptFails \/ ServerStop \/ HandleAcceptError \/ RunExits \/ UNCHANGED vars
           \/ \E c \in Conn : \/ \E msg \in Message \ {"BYE!"} : PeerSends(c, msg)
                              \/ ReadFails(c) \/ TimerExpires(c)
                              \/ HandleHeloThrows(c) \/ HandleOther(c) \/ HandleReadAborted(c)
    PROVE  UNCHANGED Registry!vars
<1> USE DEF MapInv, SafeInv, TypeInv, TypeOK, serverVars, timerVars, clientVars, playerVars
<1>1. /\ peer' = peer
      /\ UNCHANGED <<connections, mac_address, device_initialized, disconnection_counter>>
  BY DEF PeerConnects, AcceptFails, ServerStop, HandleAcceptError, RunExits, vars, PeerSends,
         ReadFails, TimerExpires, HandleHeloThrows, HandleOther, HandleReadAborted
<1>2. \/ sock' = sock
      \/ /\ new_connection \in Conn /\ sock[new_connection] = "none"
         /\ sock' = [sock EXCEPT ![new_connection] = "open"]
  BY DEF PeerConnects, AcceptFails, ServerStop, HandleAcceptError, RunExits, vars, PeerSends,
         ReadFails, TimerExpires, HandleHeloThrows, HandleOther, HandleReadAborted, AcceptInv
<1>3. \A d \in Conn : Same(d)
  BY <1>1, <1>2 DEF Same, Phase, Missed
<1> QED BY <1>1, <1>3, Stutters

\* Every step is one of the registry's, or none.
LEMMA RegistryStep ==
    ASSUME MapInv, MapInv', [Next]_vars
    PROVE  [Registry!Next]_Registry!vars
<1>0. Registry!ListFollows
  BY Follows
<1> USE <1>0 DEF Registry!Next
<1>1. ASSUME NEW c \in Conn, HandleRead(c) PROVE [Registry!Next]_Registry!vars
  BY <1>1, HelloStep, ReportStep, LeftStep, UnseenStep DEF HandleRead
<1>2. ASSUME NEW c \in Conn, HandleStatusTimer(c) PROVE [Registry!Next]_Registry!vars
  BY <1>2, PollStep
<1>3. CASE HandleAccept \/ HandleAcceptError \/ HandleStop \/ RunExits
  BY <1>3, AcceptStep, UnseenStep, StopAllStep
<1>4. CASE Environment
  BY <1>4, LeaveStep, UnseenStep DEF Environment
<1>5. CASE UNCHANGED vars
  BY <1>5, UnseenStep
<1> QED
  BY <1>1, <1>2, <1>3, <1>4, <1>5 DEF Next, Handlers, Ended

\* The control server implements the registry: the list of clients is at every
\* step the set of the players that said HELO on a connection that lasts, and a
\* connection ends only when its player left or missed DISCONNECT_COUNT polls
\* in a row, or when the server stops.
THEOREM ServerImplementsRegistry ==
    ASSUME MaxHelo = 1, ~HalfOpen
    PROVE  Spec => RegistrySpec
<1>1. ASSUME Init PROVE Registry!Init
  <2>1. \A c \in Conn : Phase(c) = "idle" /\ peer[c] = "up" /\ Missed(c) = 0
    BY <1>1 DEF Init, Phase, Missed
  <2>2. {m \in Mac : shm_map[m] # NoConn} = {}
    BY <1>1 DEF Init
  <2>3. mac_address = [c \in Conn |-> NoMac]
    BY <1>1 DEF Init
  <2> QED BY <2>1, <2>2, <2>3 DEF Registry!Init, Missed
<1>2. MapInv /\ MapInv' /\ [Next]_vars => [Registry!Next]_Registry!vars
  BY RegistryStep
<1>3. Spec => []MapInv
  BY RegInvAlways DEF MapInv
<1> QED BY <1>1, <1>2, <1>3, PTL DEF Spec, RegistrySpec, Registry!Spec

\* The host's thread, sending beside the handlers, takes nothing from this.
THEOREM BroadcastImplementsRegistry ==
    ASSUME MaxHelo = 1, ~HalfOpen
    PROVE  BroadcastSpec => RegistrySpec
BY BroadcastImplementsServer, ServerImplementsRegistry DEF SlimServerSpec
=============================================================================
