-------------------------- MODULE Streaming_proofs --------------------------
(***************************************************************************)
(* Proofs about the streaming server: HttpServer alone, for any number of  *)
(* connection objects and players, and accepts that may fail or not; then  *)
(* Streaming, for any bounds and players that register when they like.     *)
(***************************************************************************)
EXTENDS Streaming, SequenceTheorems, TLAPS

\* TypeOK alone is not inductive: a client that was accepted sits on an object.
TypeInv == TypeOK /\ (acceptOp = "connected" => new_connection \in Conn)

\* Which object is in the hands of the accept, and which it may be given next.
AcceptInv ==
    IF acceptOp = "connected"
    THEN /\ sock[new_connection] = "open"
         /\ new_connection \notin connections \cup todo
         /\ op[new_connection] = "none" /\ ~ready_for_stream[new_connection]
    ELSE new_connection \in Conn => sock[new_connection] = "none"

\* The socket and the operation of a connection: an unused object is as new, a
\* managed one is open, and nothing waits on a closed socket.
SocketInv(c) ==
    /\ c \in connections => sock[c] = "open"
    /\ sock[c] = "open" /\ c \notin connections =>
           c = new_connection /\ acceptOp = "connected"
    /\ sock[c] = "none" => /\ op[c] = "none" /\ ~ready_for_stream[c]
                           /\ client[c] = "up" /\ got[c] = "nothing"
                           /\ c \notin todo
    /\ done[c] = "aborted" => sock[c] = "closed"
    /\ sock[c] = "closed" /\ op[c] # "none" => done[c] # "pending"

\* What an operation may have completed with, and who waits for none.
OpInv(c) ==
    /\ op[c] = "none" => done[c] = "pending"
    /\ op[c] = "read" => done[c] # "ok"
    /\ ready_for_stream[c] =>
           op[c] = "none" \/ (io = c /\ op[c] = "write_stream" /\ done[c] = "ok")
    /\ io = c => ready_for_stream[c] /\ op[c] = "write_stream" /\ done[c] = "ok"
    /\ c \in connections => ready_for_stream[c] \/ op[c] # "none"

\* What the client has, before the reply is written and after the header was.
GotInv(c) ==
    /\ got[c] # "garbled"
    /\ sock[c] = "open" /\ ~ready_for_stream[c] /\ done[c] # "ok" =>
           got[c] \in {"nothing", "stray"}
    /\ client[c] = "up" /\ (ready_for_stream[c] \/ (op[c] = "write_stream" /\ done[c] = "ok")) =>
           got[c] \in {"header", "audio", "stray"}

\* While the host sends nobody stops the server, so that a connection it has
\* still to visit can only have been stopped before it was ready.
HostInv ==
    /\ host = "sending" <=> todo # {}
    /\ stop # "no" => host \in {"joining", "joined"}
    /\ thread = "running" =>
           \A c \in todo : sock[c] # "open" => op[c] = "none" /\ ~ready_for_stream[c]

ConnInv == \A c \in Conn : SocketInv(c) /\ OpInv(c) /\ GotInv(c)

SafeInv == TypeInv /\ AcceptInv /\ ConnInv /\ HostInv
-----------------------------------------------------------------------------

\* Every step keeps every variable in its type.
LEMMA TypeStep == TypeInv /\ [Next]_vars => TypeInv'
<1> SUFFICES ASSUME TypeInv, [Next]_vars PROVE TypeInv'
    OBVIOUS
<1> USE DEF TypeInv, TypeOK, serverVars, opVars, streamVars, hostVars, clientVars
<1>1. ASSUME NEW m \in Mac \cup {NoMac}, ClientConnects(m) PROVE TypeInv'
  BY <1>1 DEF ClientConnects
<1>2. CASE AcceptFails
  BY <1>2 DEF AcceptFails
<1>3. ASSUME NEW c \in Conn, ClientLeaves(c) PROVE TypeInv'
  BY <1>3 DEF ClientLeaves
<1>4. ASSUME NEW c \in Conn, ClientStalls(c) PROVE TypeInv'
  BY <1>4 DEF ClientStalls
<1>5. ASSUME NEW c \in Conn, NEW r \in Request, ClientSends(c, r) PROVE TypeInv'
  BY <1>5 DEF ClientSends
<1>6. ASSUME NEW c \in Conn, ReadFails(c) PROVE TypeInv'
  BY <1>6 DEF ReadFails
<1>7. ASSUME NEW c \in Conn, WriteCompletes(c) PROVE TypeInv'
  BY <1>7 DEF WriteCompletes, Receive
<1>8. ASSUME NEW c \in Conn, WriteFails(c) PROVE TypeInv'
  BY <1>8 DEF WriteFails
<1>9. CASE HandleAccept
  BY <1>9 DEF HandleAccept, StartOp, NextConnection
<1>10. CASE HandleAcceptError
  BY <1>10 DEF HandleAcceptError
<1>11. CASE HandleStop
  BY <1>11 DEF HandleStop, Close
<1>12. CASE RunExits
  BY <1>12 DEF RunExits, Close
<1>13. ASSUME NEW c \in Conn, HandleRequest(c) PROVE TypeInv'
  BY <1>13 DEF HandleRequest, StartOp, StartStream
<1>14. ASSUME NEW c \in Conn, HandleMore(c) PROVE TypeInv'
  BY <1>14 DEF HandleMore, StartOp, ReadOn
<1>15. ASSUME NEW c \in Conn, HandleLast(c) PROVE TypeInv'
  BY <1>15 DEF HandleLast, StopSelf, Forget
<1>16. ASSUME NEW c \in Conn, HandleStreamReady(c) PROVE TypeInv'
  BY <1>16 DEF HandleStreamReady
<1>17. ASSUME NEW c \in Conn, HandleStreamSocket(c) PROVE TypeInv'
  BY <1>17 DEF HandleStreamSocket, Forget
<1>18. ASSUME NEW c \in Conn, Free(c) PROVE TypeInv'
  BY <1>18 DEF Free
<1>19. CASE OnChunk
  BY <1>19 DEF OnChunk
<1>20. ASSUME NEW c \in Conn, SendSkips(c) PROVE TypeInv'
  BY <1>20 DEF SendSkips, NextSend
<1>21. ASSUME NEW c \in Conn, SendWorks(c) PROVE TypeInv'
  BY <1>21 DEF SendWorks, NextSend, Receive
<1>22. ASSUME NEW c \in Conn, SendFails(c) PROVE TypeInv'
  BY <1>22 DEF SendFails, NextSend, HostStop, Close
<1>23. ASSUME NEW c \in Conn, NEW d \in Conn, SendStrays(c, d) PROVE TypeInv'
  BY <1>23 DEF SendStrays, NextSend, Receive
<1>24. CASE OnPlaybackStop
  BY <1>24 DEF OnPlaybackStop, Close
<1>25. CASE StopServer
  BY <1>25 DEF StopServer
<1>26. CASE Join
  BY <1>26 DEF Join
<1>27. CASE UNCHANGED vars
  BY <1>27 DEF vars
<1> QED
  BY <1>1, <1>2, <1>3, <1>4, <1>5, <1>6, <1>7, <1>8, <1>9, <1>10, <1>11, <1>12,
     <1>13, <1>14, <1>15, <1>16, <1>17, <1>18, <1>19, <1>20, <1>21, <1>22, <1>23,
     <1>24, <1>25, <1>26, <1>27 DEF Next, Clients, Network, Handlers, Sends

\* Type correctness: every variable has its type in every reachable state.
THEOREM TypeCorrect == Spec => []TypeOK
<1>1. Init => TypeInv
  BY DEF Init, TypeInv, TypeOK
<1>2. TypeInv => TypeOK
  BY DEF TypeInv
<1> QED BY <1>1, <1>2, TypeStep, PTL DEF Spec
-----------------------------------------------------------------------------
(***************************************************************************)
(* Connections, what their clients have received, and the host's loop.     *)
(***************************************************************************)

\* What arrives changes what one client has, if that client reads.
LEMMA Received ==
    ASSUME TypeOK, NEW c \in Conn, NEW what, Receive(c, what)
    PROVE  /\ \A d \in Conn \ {c} : got'[d] = got[d]
           /\ client[c] # "up" => got'[c] = got[c]
           /\ got[c] = "stray" => got'[c] = "stray"
           /\ what = "stray" => got'[c] \in {got[c], "stray"}
           /\ what = "audio" /\ got[c] \in {"header", "audio"} => got'[c] \in {"header", "audio"}
           /\ what \in {"page", "header"} /\ got[c] = "nothing" =>
                  got'[c] = IF client[c] = "up" THEN what ELSE "nothing"
BY DEF Receive, TypeOK

\* Every step preserves the invariant.
LEMMA SafeStep == SafeInv /\ [Next]_vars => SafeInv'
<1> SUFFICES ASSUME SafeInv, [Next]_vars PROVE SafeInv'
    OBVIOUS
<1>0. TypeInv'
  BY TypeStep DEF SafeInv
<1> USE <1>0, SentinelAssumption
    DEF SafeInv, TypeInv, TypeOK, serverVars, opVars, streamVars, hostVars, clientVars
<1>1. ASSUME NEW m \in Mac \cup {NoMac}, ClientConnects(m) PROVE SafeInv'
  <2>1. AcceptInv'
    BY <1>1 DEF ClientConnects, AcceptInv, ConnInv, SocketInv
  <2>2. ConnInv'
    BY <1>1 DEF ClientConnects, ConnInv, SocketInv, OpInv, GotInv, AcceptInv
  <2>3. HostInv'
    BY <1>1 DEF ClientConnects, HostInv
  <2> QED BY <2>1, <2>2, <2>3
<1>2. CASE AcceptFails
  <2>1. AcceptInv'
    BY <1>2 DEF AcceptFails, AcceptInv
  <2>2. ConnInv'
    BY <1>2 DEF AcceptFails, ConnInv, SocketInv, OpInv, GotInv
  <2>3. HostInv'
    BY <1>2 DEF AcceptFails, HostInv
  <2> QED BY <2>1, <2>2, <2>3
<1>3. ASSUME NEW c \in Conn, ClientLeaves(c) PROVE SafeInv'
  <2>1. AcceptInv'
    BY <1>3 DEF ClientLeaves, AcceptInv
  <2>2. ConnInv'
    BY <1>3 DEF ClientLeaves, ConnInv, SocketInv, OpInv, GotInv
  <2>3. HostInv'
    BY <1>3 DEF ClientLeaves, HostInv
  <2> QED BY <2>1, <2>2, <2>3
<1>4. ASSUME NEW c \in Conn, ClientStalls(c) PROVE SafeInv'
  <2>1. AcceptInv'
    BY <1>4 DEF ClientStalls, AcceptInv
  <2>2. ConnInv'
    BY <1>4 DEF ClientStalls, ConnInv, SocketInv, OpInv, GotInv
  <2>3. HostInv'
    BY <1>4 DEF ClientStalls, HostInv
  <2> QED BY <2>1, <2>2, <2>3
<1>5. ASSUME NEW c \in Conn, NEW r \in Request, ClientSends(c, r) PROVE SafeInv'
  <2>1. AcceptInv'
    BY <1>5 DEF ClientSends, AcceptInv
  <2>2. ConnInv'
    BY <1>5 DEF ClientSends, Request, ConnInv, SocketInv, OpInv, GotInv
  <2>3. HostInv'
    BY <1>5 DEF ClientSends, HostInv
  <2> QED BY <2>1, <2>2, <2>3
<1>6. ASSUME NEW c \in Conn, ReadFails(c) PROVE SafeInv'
  <2>1. AcceptInv'
    BY <1>6 DEF ReadFails, AcceptInv
  <2>2. ConnInv'
    BY <1>6 DEF ReadFails, ConnInv, SocketInv, OpInv, GotInv
  <2>3. HostInv'
    BY <1>6 DEF ReadFails, HostInv
  <2> QED BY <2>1, <2>2, <2>3
<1>7. ASSUME NEW c \in Conn, WriteCompletes(c) PROVE SafeInv'
  <2>1. AcceptInv'
    BY <1>7 DEF WriteCompletes, AcceptInv
  <2>2. ConnInv'
    BY <1>7, Received DEF WriteCompletes, ConnInv, SocketInv, OpInv, GotInv
  <2>3. HostInv'
    BY <1>7 DEF WriteCompletes, HostInv
  <2> QED BY <2>1, <2>2, <2>3
<1>8. ASSUME NEW c \in Conn, WriteFails(c) PROVE SafeInv'
  <2>1. AcceptInv'
    BY <1>8 DEF WriteFails, AcceptInv
  <2>2. ConnInv'
    BY <1>8 DEF WriteFails, ConnInv, SocketInv, OpInv, GotInv
  <2>3. HostInv'
    BY <1>8 DEF WriteFails, HostInv
  <2> QED BY <2>1, <2>2, <2>3
<1>9. CASE HandleAccept
  <2>1. AcceptInv'
    BY <1>9 DEF HandleAccept, NextConnection, AcceptInv
  <2>2. ConnInv'
    BY <1>9 DEF HandleAccept, StartOp, ConnInv, SocketInv, OpInv, GotInv, AcceptInv
  <2>3. HostInv'
    BY <1>9 DEF HandleAccept, StartOp, HostInv, AcceptInv
  <2> QED BY <2>1, <2>2, <2>3
<1>10. CASE HandleAcceptError
  <2>1. AcceptInv'
    BY <1>10 DEF HandleAcceptError, AcceptInv
  <2>2. ConnInv'
    BY <1>10 DEF HandleAcceptError, ConnInv, SocketInv, OpInv, GotInv
  <2>3. HostInv'
    BY <1>10 DEF HandleAcceptError, HostInv
  <2> QED BY <2>1, <2>2, <2>3
<1>11. CASE HandleStop
  <2>1. AcceptInv'
    BY <1>11 DEF HandleStop, Close, AcceptInv, ConnInv, SocketInv
  <2>2. ConnInv'
    BY <1>11 DEF HandleStop, Close, ConnInv, SocketInv, OpInv, GotInv
  <2>3. HostInv'
    BY <1>11 DEF HandleStop, HostInv
  <2> QED BY <2>1, <2>2, <2>3
<1>12. CASE RunExits
  <2>1. AcceptInv'
    BY <1>12 DEF RunExits, Close, AcceptInv
  <2>2. ConnInv'
    BY <1>12 DEF RunExits, Close, ConnInv, SocketInv, OpInv, GotInv
  <2>3. HostInv'
    BY <1>12 DEF RunExits, HostInv
  <2> QED BY <2>1, <2>2, <2>3
<1>13. ASSUME NEW c \in Conn, HandleRequest(c) PROVE SafeInv'
  <2>1. AcceptInv'
    BY <1>13 DEF HandleRequest, StartOp, StartStream, AcceptInv
  <2>2. ConnInv'
    BY <1>13
       DEF HandleRequest, StartOp, StartStream, ConnInv, SocketInv, OpInv, GotInv
  <2>3. HostInv'
    BY <1>13 DEF HandleRequest, StartOp, StartStream, HostInv
  <2> QED BY <2>1, <2>2, <2>3
<1>14. ASSUME NEW c \in Conn, HandleMore(c) PROVE SafeInv'
  <2>1. AcceptInv'
    BY <1>14 DEF HandleMore, StartOp, ReadOn, AcceptInv
  <2>2. ConnInv'
    BY <1>14 DEF HandleMore, StartOp, ReadOn, ConnInv, SocketInv, OpInv, GotInv
  <2>3. HostInv'
    BY <1>14 DEF HandleMore, StartOp, ReadOn, HostInv
  <2> QED BY <2>1, <2>2, <2>3
<1>15. ASSUME NEW c \in Conn, HandleLast(c) PROVE SafeInv'
  <2>1. AcceptInv'
    BY <1>15 DEF HandleLast, StopSelf, Forget, AcceptInv, ConnInv, SocketInv
  <2>2. ConnInv'
    BY <1>15 DEF HandleLast, StopSelf, Forget, ConnInv, SocketInv, OpInv, GotInv
  <2>3. HostInv'
    BY <1>15 DEF HandleLast, StopSelf, Forget, HostInv, ConnInv, OpInv
  <2> QED BY <2>1, <2>2, <2>3
<1>16. ASSUME NEW c \in Conn, HandleStreamReady(c) PROVE SafeInv'
  <2>1. AcceptInv'
    BY <1>16 DEF HandleStreamReady, AcceptInv
  <2>2. ConnInv'
    BY <1>16 DEF HandleStreamReady, Runs, ConnInv, SocketInv, OpInv, GotInv
  <2>3. HostInv'
    BY <1>16 DEF HandleStreamReady, HostInv
  <2> QED BY <2>1, <2>2, <2>3
<1>17. ASSUME NEW c \in Conn, HandleStreamSocket(c) PROVE SafeInv'
  <2>1. AcceptInv'
    BY <1>17 DEF HandleStreamSocket, Forget, AcceptInv
  <2>2. ConnInv'
    BY <1>17 DEF HandleStreamSocket, Forget, ConnInv, SocketInv, OpInv, GotInv
  <2>3. HostInv'
    BY <1>17 DEF HandleStreamSocket, Forget, HostInv
  <2> QED BY <2>1, <2>2, <2>3
<1>18. ASSUME NEW c \in Conn, Free(c) PROVE SafeInv'
  <2>1. AcceptInv'
    BY <1>18 DEF Free, Unused, AcceptInv
  <2>2. ConnInv'
    BY <1>18 DEF Free, Unused, ConnInv, SocketInv, OpInv, GotInv
  <2>3. HostInv'
    BY <1>18 DEF Free, Unused, HostInv
  <2> QED BY <2>1, <2>2, <2>3
<1>19. CASE OnChunk
  <2>1. AcceptInv'
    BY <1>19 DEF OnChunk, AcceptInv
  <2>2. ConnInv'
    BY <1>19 DEF OnChunk, ConnInv, SocketInv, OpInv, GotInv
  <2>3. HostInv'
    BY <1>19 DEF OnChunk, HostFree, HostInv, ConnInv, SocketInv
  <2> QED BY <2>1, <2>2, <2>3
<1>20. ASSUME NEW c \in Conn, SendSkips(c) PROVE SafeInv'
  <2>1. AcceptInv'
    BY <1>20 DEF SendSkips, NextSend, AcceptInv
  <2>2. ConnInv'
    BY <1>20 DEF SendSkips, NextSend, ConnInv, SocketInv, OpInv, GotInv
  <2>3. HostInv'
    BY <1>20 DEF SendSkips, NextSend, HostInv
  <2> QED BY <2>1, <2>2, <2>3
<1>21. ASSUME NEW c \in Conn, SendWorks(c) PROVE SafeInv'
  <2>1. AcceptInv'
    BY <1>21 DEF SendWorks, NextSend, AcceptInv
  <2>2. ConnInv'
    BY <1>21, Received DEF SendWorks, NextSend, ConnInv, SocketInv, OpInv, GotInv
  <2>3. HostInv'
    BY <1>21 DEF SendWorks, NextSend, HostInv
  <2> QED BY <2>1, <2>2, <2>3
<1>22. ASSUME NEW c \in Conn, SendFails(c) PROVE SafeInv'
  <2>1. AcceptInv'
    BY <1>22 DEF SendFails, NextSend, HostStop, Close, AcceptInv, ConnInv, SocketInv
  <2>2. ConnInv'
    BY <1>22
       DEF SendFails, NextSend, HostStop, Close, ConnInv, SocketInv, OpInv, GotInv
  <2>3. HostInv'
    BY <1>22 DEF SendFails, NextSend, HostStop, Close, HostInv
  <2> QED BY <2>1, <2>2, <2>3
<1>23. ASSUME NEW c \in Conn, NEW d \in Conn, SendStrays(c, d) PROVE SafeInv'
  <2>1. AcceptInv'
    BY <1>23 DEF SendStrays, NextSend, AcceptInv
  <2>2. ConnInv'
    BY <1>23, Received DEF SendStrays, NextSend, ConnInv, SocketInv, OpInv, GotInv
  <2>3. HostInv'
    BY <1>23 DEF SendStrays, NextSend, HostInv
  <2> QED BY <2>1, <2>2, <2>3
<1>24. CASE OnPlaybackStop
  <2>1. AcceptInv'
    BY <1>24 DEF OnPlaybackStop, Close, AcceptInv, ConnInv, SocketInv
  <2>2. ConnInv'
    BY <1>24 DEF OnPlaybackStop, Close, ConnInv, SocketInv, OpInv, GotInv
  <2>3. HostInv'
    BY <1>24 DEF OnPlaybackStop, HostFree, HostInv
  <2> QED BY <2>1, <2>2, <2>3
<1>25. CASE StopServer
  <2>1. AcceptInv'
    BY <1>25 DEF StopServer, AcceptInv
  <2>2. ConnInv'
    BY <1>25 DEF StopServer, ConnInv, SocketInv, OpInv, GotInv
  <2>3. HostInv'
    BY <1>25 DEF StopServer, HostFree, HostInv
  <2> QED BY <2>1, <2>2, <2>3
<1>26. CASE Join
  <2>1. AcceptInv'
    BY <1>26 DEF Join, AcceptInv
  <2>2. ConnInv'
    BY <1>26 DEF Join, ConnInv, SocketInv, OpInv, GotInv
  <2>3. HostInv'
    BY <1>26 DEF Join, HostInv
  <2> QED BY <2>1, <2>2, <2>3
<1>27. CASE UNCHANGED vars
  BY <1>27 DEF vars, AcceptInv, ConnInv, SocketInv, OpInv, GotInv, HostInv
<1> QED
  BY <1>1, <1>2, <1>3, <1>4, <1>5, <1>6, <1>7, <1>8, <1>9, <1>10, <1>11, <1>12,
     <1>13, <1>14, <1>15, <1>16, <1>17, <1>18, <1>19, <1>20, <1>21, <1>22, <1>23,
     <1>24, <1>25, <1>26, <1>27 DEF Next, Clients, Network, Handlers, Sends
LEMMA SafeInit == Init => SafeInv
<1> SUFFICES ASSUME Init PROVE SafeInv
  OBVIOUS
<1> USE SentinelAssumption DEF Init
<1>1. TypeInv
  BY DEF TypeInv, TypeOK
<1>2. AcceptInv
  BY DEF AcceptInv
<1>3. ConnInv
  BY DEF ConnInv, SocketInv, OpInv, GotInv
<1>4. HostInv
  BY DEF HostInv
<1> QED BY <1>1, <1>2, <1>3, <1>4 DEF SafeInv

LEMMA SafeAlways == Spec => []SafeInv
BY SafeInit, SafeStep, PTL DEF Spec

\* handle_write_stream comes before send_data, whichever thread is first.
THEOREM AudioAfterHeaderAlways == Spec => []AudioAfterHeader
<1>1. SafeInv => AudioAfterHeader
  BY DEF SafeInv, ConnInv, GotInv, AudioAfterHeader
<1> QED BY <1>1, SafeAlways, PTL

\* on_chunk's copy of the set never leads it to a socket that was closed.
THEOREM SendsOnOpenAlways == Spec => []SendsOnOpen
<1>1. SafeInv => SendsOnOpen
  BY DEF SafeInv, HostInv, SendsOnOpen
<1> QED BY <1>1, SafeAlways, PTL

\* Whatever both threads stop, no open socket is lost to the manager.
THEOREM OpenManagedAlways == Spec => []OpenManaged
<1>1. SafeInv => OpenManaged
  BY DEF SafeInv, ConnInv, SocketInv, OpenManaged
<1> QED BY <1>1, SafeAlways, PTL

\* Every managed connection is a stream or waits for something.
THEOREM NoDeafAlways == Spec => []NoDeaf
<1>1. SafeInv => NoDeaf
  BY DEF SafeInv, TypeInv, TypeOK, ConnInv, OpInv, NoDeaf
<1> QED BY <1>1, SafeAlways, PTL
-----------------------------------------------------------------------------
\* The servers' other thread apart, what is under way between the host and the
\* players keeps to its types.
StreamTypes ==
    /\ track \in {"stopped", "playing", "paused"}
    /\ send_play \in BOOLEAN /\ is_playing \in BOOLEAN
    /\ registered \subseteq Mac
    /\ cmds \in [Mac -> Seq(Command)]
    /\ stream \in [Mac -> Conn \cup {NoConn}]
    /\ wants \in [Mac -> BOOLEAN]

\* A player's stream is an object in use, and a request names who asked.
Placed ==
    /\ \A m \in Mac : stream[m] \in Conn => sock[stream[m]] # "none"
    /\ \A c \in Conn : /\ url_params[c] \in {NoMac, asker[c]}
                       /\ sock[c] = "none" => url_params[c] = NoMac

\* A sequence of commands has no play command, or not more than one.
NoPlay(q) == \A i \in 1..Len(q) : q[i] # "s"
OnePlay(q) == \A i, j \in 1..Len(q) : q[i] = "s" /\ q[j] = "s" => i = j

\* m has no stream at the server; not more than one.
NoStream(m) == \A c \in Conn : ~(sock[c] = "open" /\ asker[c] = m)
OneOpen(m) ==
    \A c, d \in Conn : sock[c] = "open" /\ asker[c] = m /\ sock[d] = "open" /\ asker[d] = m
                           => c = d

\* Nothing is on its way to m that makes it open a stream, and it has none.
Quiet(m) == NoPlay(cmds[m]) /\ ~wants[m] /\ NoStream(m)

\* There is one of a play command under way, a stream about to be opened, and
\* an open stream.
OneOf(m) ==
    /\ OnePlay(cmds[m])
    /\ OneOpen(m)
    /\ wants[m] => NoPlay(cmds[m]) /\ NoStream(m)
    /\ NoPlay(cmds[m]) \/ NoStream(m)

\* All this while the server runs: a failed accept may end it.  Before the first
\* chunk of a track, which makes all players open a stream, there is nothing.
PlayInv ==
    thread = "running" =>
        /\ \A m \in Mac : OneOf(m)
        /\ send_play \/ track = "stopped" => \A m \in Mac : Quiet(m)

\* The server's destructor leaves nothing in the manager.
Exited == thread = "exited" => connections = {}

\* What holds whoever uses the player; and what a calm user adds to it.
ServerInv == SafeInv /\ StreamTypes /\ Placed
StreamInv == ServerInv /\ PlayInv /\ Exited
-----------------------------------------------------------------------------
(* Commands. *)

LEMMA PlayTail ==
    ASSUME NEW q \in Seq(Command), q # <<>>
    PROVE  /\ Tail(q) \in Seq(Command) /\ Head(q) \in Command
           /\ NoPlay(q) => NoPlay(Tail(q)) /\ Head(q) # "s"
           /\ OnePlay(q) => OnePlay(Tail(q))
           /\ OnePlay(q) /\ Head(q) = "s" => NoPlay(Tail(q))
<1> DEFINE t == Tail(q)
           n == Len(q)
<1>1. t \in Seq(Command) /\ Head(q) \in Command /\ Len(t) = n - 1
  BY HeadTailProperties
<1>2. \A i \in 1..(n - 1) : t[i] = q[i + 1]
  BY <1>1, HeadTailProperties
<1>3. Head(q) = q[1]
  OBVIOUS
<1>4. n \in Nat /\ n # 0
  BY EmptySeq, LenProperties
<1> HIDE DEF t, n
<1>5. 1 \in 1..n /\ \A i \in 1..(n - 1) : i + 1 \in 1..n /\ i + 1 # 1
  BY <1>4
<1>6. NoPlay(q) => NoPlay(t) /\ Head(q) # "s"
  BY <1>1, <1>2, <1>3, <1>5 DEF NoPlay, n
<1>7. OnePlay(q) => OnePlay(t)
  <2> SUFFICES ASSUME OnePlay(q), NEW i \in 1..(n - 1), NEW j \in 1..(n - 1),
                      t[i] = "s", t[j] = "s"
               PROVE  i = j
      BY <1>1 DEF OnePlay
  <2>1. i + 1 = j + 1
    BY <1>2, <1>5 DEF OnePlay, n
  <2> QED BY <2>1
<1>8. OnePlay(q) /\ Head(q) = "s" => NoPlay(t)
  <2> SUFFICES ASSUME OnePlay(q), q[1] = "s", NEW i \in 1..(n - 1), t[i] = "s"
               PROVE  FALSE
      BY <1>1, <1>3 DEF NoPlay
  <2>1. i + 1 = 1
    BY <1>2, <1>5 DEF OnePlay, n
  <2> QED BY <1>5, <2>1
<1> QED BY <1>1, <1>6, <1>7, <1>8 DEF t

\* A command that is not "s" changes nothing.
LEMMA PlayMore ==
    ASSUME NEW q \in Seq(Command), NEW x \in Command
    PROVE  /\ q \o <<x>> \in Seq(Command)
           /\ x # "s" /\ NoPlay(q) => NoPlay(q \o <<x>>)
           /\ x # "s" /\ OnePlay(q) => OnePlay(q \o <<x>>)
           /\ NoPlay(q) => OnePlay(q \o <<x>>)
<1> DEFINE t == Append(q, x)
           n == Len(q)
<1>1. q \o <<x>> = t
  BY AppendIsConcat
<1>2. t \in Seq(Command) /\ Len(t) = n + 1
  BY AppendProperties
<1>3. \A i \in 1..n : t[i] = q[i]
  BY AppendProperties
<1>4. t[n + 1] = x
  BY AppendProperties
<1>5. n \in Nat
  BY LenProperties
<1> HIDE DEF t, n
<1>6. \A i \in 1..(n + 1) : i \in 1..n \/ i = n + 1
  BY <1>5
<1>7. x # "s" /\ NoPlay(q) => NoPlay(t)
  BY <1>2, <1>3, <1>4, <1>6 DEF NoPlay, n
<1>8. x # "s" /\ OnePlay(q) => OnePlay(t)
  BY <1>2, <1>3, <1>4, <1>6 DEF OnePlay, n
<1>9. NoPlay(q) => OnePlay(t)
  BY <1>2, <1>3, <1>4, <1>6 DEF NoPlay, OnePlay, n
<1> QED BY <1>1, <1>2, <1>7, <1>8, <1>9

LEMMA PlayAnew ==
    ASSUME NEW q \in Seq(Command), NoPlay(q)
    PROVE  q \o <<"q", "s">> \in Seq(Command) /\ OnePlay(q \o <<"q", "s">>)
<1> DEFINE a == Append(q, "q")
           b == Append(a, "s")
<1>1. "q" \in Command /\ "s" \in Command
  BY DEF Command
<1>2. a \in Seq(Command) /\ a = q \o <<"q">>
  BY <1>1, AppendProperties, AppendIsConcat
<1>3. NoPlay(a)
  BY <1>1, <1>2, PlayMore
<1>4. b = a \o <<"s">>
  BY <1>1, <1>2, AppendIsConcat
<1>5. b \in Seq(Command) /\ OnePlay(b)
  <2> HIDE DEF a, b
  <2> QED BY <1>1, <1>2, <1>3, <1>4, PlayMore
<1>6. q \o <<"q", "s">> = b
  OBVIOUS
<1> QED BY <1>5, <1>6
-----------------------------------------------------------------------------
(* The streaming server under the players is the one of HttpServer, but for a *)
(* player that drops a stream which the server has closed already.            *)

LEMMA DropSafe ==
    ASSUME SafeInv, StreamTypes, Placed, NEW m \in Mac, Obeys(m)
    PROVE  SafeInv'
<1> USE SentinelAssumption
    DEF SafeInv, TypeInv, TypeOK, serverVars, opVars, streamVars, hostVars, clientVars
<1>1. /\ UNCHANGED <<serverVars, connections, opVars, streamVars, hostVars, asker, got>>
      /\ \/ UNCHANGED client
         \/ client' = [c \in Conn |-> IF c = stream[m] /\ client[c] \in {"up", "stalled"}
                                      THEN "gone" ELSE client[c]]
  BY DEF Obeys
<1>2. /\ client' \in [Conn -> {"up", "stalled", "gone", "reset"}]
      /\ \A c \in Conn : client'[c] = client[c] \/ (client'[c] = "gone" /\ c = stream[m])
  BY <1>1
<1>3. \A c \in Conn : c = stream[m] => sock[c] # "none"
  BY DEF Placed
<1>4. TypeInv'
  BY <1>1, <1>2
<1>5. AcceptInv'
  BY <1>1 DEF AcceptInv
<1>6. ConnInv'
  BY <1>1, <1>2, <1>3 DEF ConnInv, SocketInv, OpInv, GotInv
<1>7. HostInv'
  BY <1>1 DEF HostInv
<1> QED BY <1>4, <1>5, <1>6, <1>7

LEMMA HttpSafe ==
    ASSUME SafeInv, StreamTypes, Placed, [StreamingNext]_allVars
    PROVE  SafeInv'
<1>1. ASSUME [Next]_vars PROVE SafeInv'
  BY <1>1, SafeStep
<1>2. ASSUME NEW b \in BOOLEAN, OnPlaybackStarting(b) \/ OnPlaybackPause(b) PROVE SafeInv'
  BY <1>1, <1>2 DEF OnPlaybackStarting, OnPlaybackPause, httpVars
<1>3. CASE PlaybackStop
  BY <1>1, <1>3 DEF PlaybackStop, Next
<1>4. CASE Chunk
  BY <1>1, <1>4 DEF Chunk, Next, httpVars
<1>5. ASSUME NEW c \in Conn, ChunkSend(c) PROVE SafeInv'
  BY <1>1, <1>5 DEF ChunkSend, Next, Sends
<1>6. ASSUME NEW c \in Conn, Freed(c) PROVE SafeInv'
  BY <1>1, <1>6 DEF Freed, Next
<1>7. ASSUME NEW m \in Mac, Helo(m) PROVE SafeInv'
  BY <1>1, <1>7 DEF Helo, httpVars
<1>8. ASSUME NEW m \in Mac, Obeys(m) PROVE SafeInv'
  BY <1>8, DropSafe
<1>9. ASSUME NEW m \in Mac, OpensStream(m) PROVE SafeInv'
  BY <1>1, <1>9 DEF OpensStream, Next, Clients
<1>10. ASSUME NEW m \in Mac, Requests(m) PROVE SafeInv'
  <2>1. stream[m] \in Conn /\ ClientSends(stream[m], "stream")
    BY <1>10 DEF Requests, StreamTypes
  <2> QED BY <1>1, <2>1 DEF Next, Clients, Request
<1>11. ASSUME NEW m \in Mac, Loses(m) PROVE SafeInv'
  <2>1. stream[m] \in Conn /\ (ClientStalls(stream[m]) \/ ClientLeaves(stream[m]))
    BY <1>11 DEF Loses, StreamTypes
  <2> QED BY <1>1, <2>1 DEF Next, Clients
<1>12. CASE Network \/ Handlers
  BY <1>1, <1>12 DEF Next
<1>13. CASE UNCHANGED allVars
  BY <1>1, <1>13 DEF allVars, httpVars
<1> QED
  BY <1>2, <1>3, <1>4, <1>5, <1>6, <1>7, <1>8, <1>9, <1>10, <1>11, <1>12, <1>13
     DEF StreamingNext, Player

\* The streaming server's own steps open no stream and put no object back.
LEMMA HandlersFrame ==
    ASSUME SafeInv, Network \/ Handlers
    PROVE  /\ thread' = "running" => thread = "running"
           /\ UNCHANGED asker
           /\ \A c \in Conn : sock'[c] = sock[c] \/ (sock[c] # "none" /\ sock'[c] = "closed")
           /\ \A c \in Conn : \/ url_params'[c] = url_params[c]
                              \/ sock[c] # "none" /\ url_params'[c] = asker[c]
<1> USE DEF SafeInv, TypeInv, TypeOK, serverVars, opVars, streamVars, hostVars, clientVars
<1>1. ASSUME NEW c \in Conn, ReadFails(c) \/ WriteCompletes(c) \/ WriteFails(c)
      PROVE  UNCHANGED <<thread, asker, sock, url_params>>
  BY <1>1 DEF ReadFails, WriteCompletes, WriteFails
<1>2. CASE HandleAccept \/ HandleAcceptError
  BY <1>2 DEF HandleAccept, HandleAcceptError
<1>3. CASE HandleStop
  BY <1>3 DEF HandleStop, Close, ConnInv, SocketInv
<1>4. CASE RunExits
  BY <1>4 DEF RunExits, Close
<1>5. ASSUME NEW c \in Conn, HandleRequest(c)
      PROVE  /\ UNCHANGED <<thread, asker, sock>>
             /\ sock[c] # "none"
             /\ \A d \in Conn : url_params'[d] = url_params[d] \/ (d = c /\ url_params'[d] = asker[d])
  BY <1>5 DEF HandleRequest, ConnInv, SocketInv
<1>6. ASSUME NEW c \in Conn, HandleMore(c) \/ HandleStreamReady(c) \/ HandleStreamSocket(c)
      PROVE  UNCHANGED <<thread, asker, sock, url_params>>
  BY <1>6 DEF HandleMore, HandleStreamReady, HandleStreamSocket, Forget
<1>7. ASSUME NEW c \in Conn, HandleLast(c)
      PROVE  /\ UNCHANGED <<thread, asker, url_params>>
             /\ sock[c] # "none"
             /\ \A d \in Conn : sock'[d] = sock[d] \/ (d = c /\ sock'[d] = "closed")
  BY <1>7 DEF HandleLast, StopSelf, Forget, ConnInv, SocketInv
<1> QED BY <1>1, <1>2, <1>3, <1>4, <1>5, <1>6, <1>7 DEF Network, Handlers
-----------------------------------------------------------------------------
(* One stream per player. *)

\* A step that gives no player a command and opens no socket.
LEMMA Fewer ==
    ASSUME StreamTypes, PlayInv, UNCHANGED <<cmds, wants, track, send_play>>,
           thread' = "running" => thread = "running",
           \A c \in Conn : sock'[c] = "open" => sock[c] = "open" /\ asker'[c] = asker[c]
    PROVE  PlayInv'
<1> SUFFICES ASSUME thread' = "running" PROVE PlayInv'
    BY DEF PlayInv
<1>1. \A m \in Mac : NoStream(m) => NoStream(m)'
  BY DEF NoStream
<1>2. \A m \in Mac : OneOpen(m) => OneOpen(m)'
  BY DEF OneOpen
<1>3. \A m \in Mac : /\ NoPlay(cmds[m]) => NoPlay(cmds[m])'
                     /\ OnePlay(cmds[m]) => OnePlay(cmds[m])'
                     /\ wants'[m] = wants[m]
  BY DEF NoPlay, OnePlay
<1>4. \A m \in Mac : OneOf(m) => OneOf(m)'
  BY <1>1, <1>2, <1>3 DEF OneOf
<1>5. \A m \in Mac : Quiet(m) => Quiet(m)'
  BY <1>1, <1>3 DEF Quiet
<1> QED BY <1>4, <1>5 DEF PlayInv

\* Nothing is open for a quiet player, so OneOf follows.
LEMMA QuietOne == \A m \in Mac : Quiet(m) => OneOf(m)
<1> SUFFICES ASSUME NEW m \in Mac, Quiet(m) PROVE OneOf(m)
    OBVIOUS
<1>1. OnePlay(cmds[m])
  BY DEF Quiet, NoPlay, OnePlay
<1>2. OneOpen(m)
  BY DEF Quiet, NoStream, OneOpen
<1> QED BY <1>1, <1>2 DEF OneOf, Quiet

\* A stream that is sent to is open and its player's only one.
LEMMA SentTo ==
    ASSUME StreamInv, thread = "running", NEW c \in Conn, c \in todo, ready_for_stream[c]
    PROVE  sock[c] = "open" /\ host = "sending"
  BY DEF StreamInv, ServerInv, SafeInv, HostInv

LEMMA StreamTypesStep ==
    ASSUME ServerInv, [StreamingNext]_allVars
    PROVE  StreamTypes'
<1> USE DEF ServerInv, StreamTypes, playbackVars, playerVars
<1>c. {"s", "q", "p", "u"} = Command
  BY DEF Command
<1>s. ASSUME NEW S, NEW x \in Command, SendTo(S, <<x>>) PROVE cmds' \in [Mac -> Seq(Command)]
  <2>1. \A m \in Mac : cmds[m] \o <<x>> \in Seq(Command)
    BY PlayMore
  <2> QED BY <1>s, <2>1 DEF SendTo
<1>t. ASSUME NEW S, SendTo(S, <<"q", "s">>) PROVE cmds' \in [Mac -> Seq(Command)]
  <2>1. \A m \in Mac : cmds[m] \o <<"q", "s">> \in Seq(Command)
    <3> TAKE m \in Mac
    <3>1. cmds[m] \in Seq(Command) /\ <<"q", "s">> \in Seq(Command)
      BY DEF Command
    <3> QED BY <3>1, ConcatProperties
  <2> QED BY <1>t, <2>1 DEF SendTo
<1>2. ASSUME NEW b \in BOOLEAN, OnPlaybackStarting(b) PROVE StreamTypes'
  BY <1>2 DEF OnPlaybackStarting
<1>3. ASSUME NEW b \in BOOLEAN, OnPlaybackPause(b) PROVE StreamTypes'
  <2>1. cmds' \in [Mac -> Seq(Command)]
    BY <1>3, <1>c, <1>s DEF OnPlaybackPause
  <2> QED BY <1>3, <2>1 DEF OnPlaybackPause
<1>4. CASE PlaybackStop
  <2>1. cmds' \in [Mac -> Seq(Command)]
    BY <1>4, <1>c, <1>s DEF PlaybackStop, StopCommand
  <2> QED BY <1>4, <2>1 DEF PlaybackStop
<1>5. CASE Chunk
  <2>1. cmds' \in [Mac -> Seq(Command)]
    BY <1>5, <1>t DEF Chunk
  <2> QED BY <1>5, <2>1 DEF Chunk
<1>6. ASSUME NEW c \in Conn, ChunkSend(c) PROVE StreamTypes'
  <2>1. cmds' \in [Mac -> Seq(Command)]
    BY <1>6, <1>c, <1>s DEF ChunkSend, PlayAgain
  <2> QED BY <1>6, <2>1 DEF ChunkSend
<1>7. ASSUME NEW c \in Conn, Freed(c) PROVE StreamTypes'
  BY <1>7 DEF Freed
<1>8. ASSUME NEW m \in Mac, Helo(m) PROVE StreamTypes'
  BY <1>8 DEF Helo
<1>9. ASSUME NEW m \in Mac, Obeys(m) PROVE StreamTypes'
  <2>1. cmds' \in [Mac -> Seq(Command)]
    <3>1. cmds[m] \in Seq(Command) /\ cmds[m] # <<>> /\ cmds' = [cmds EXCEPT ![m] = Tail(@)]
      BY <1>9 DEF Obeys
    <3>2. Tail(cmds[m]) \in Seq(Command)
      BY <3>1, PlayTail
    <3> QED BY <3>1, <3>2
  <2>2. wants' \in [Mac -> BOOLEAN]
    BY <1>9, Zenon DEF Obeys
  <2> QED BY <1>9, <2>1, <2>2 DEF Obeys
<1>10. ASSUME NEW m \in Mac, OpensStream(m) PROVE StreamTypes'
  <2>1. new_connection \in Conn \cup {NoConn}
    BY DEF SafeInv, TypeInv, TypeOK
  <2> QED BY <1>10, <2>1 DEF OpensStream
<1>11. ASSUME NEW m \in Mac, Requests(m) \/ Loses(m) PROVE StreamTypes'
  BY <1>11 DEF Requests, Loses
<1>12. CASE (Network \/ Handlers) /\ UNCHANGED <<playbackVars, playerVars, losses>>
  BY <1>12
<1>13. CASE UNCHANGED allVars
  BY <1>13 DEF allVars
<1> QED
  BY <1>2, <1>3, <1>4, <1>5, <1>6, <1>7, <1>8, <1>9, <1>10, <1>11, <1>12, <1>13
     DEF StreamingNext, Player

LEMMA PlacedStep ==
    ASSUME ServerInv, [StreamingNext]_allVars
    PROVE  Placed'
<1> USE SentinelAssumption
    DEF ServerInv, Placed, StreamTypes, SafeInv, TypeInv, TypeOK, playbackVars, playerVars,
        serverVars, opVars, streamVars, hostVars, clientVars
<1>1. ASSUME UNCHANGED <<stream, url_params, asker>>,
             \A c \in Conn : sock'[c] = "none" <=> sock[c] = "none"
      PROVE  Placed'
  BY <1>1
<1>2. ASSUME NEW b \in BOOLEAN, OnPlaybackStarting(b) \/ OnPlaybackPause(b) PROVE Placed'
  BY <1>1, <1>2 DEF OnPlaybackStarting, OnPlaybackPause, httpVars, vars
<1>3. CASE PlaybackStop
  BY <1>1, <1>3 DEF PlaybackStop, OnPlaybackStop, Close, ConnInv, SocketInv
<1>4. CASE Chunk
  BY <1>1, <1>4 DEF Chunk, OnChunk, httpVars, vars
<1>5. ASSUME NEW c \in Conn, ChunkSend(c) PROVE Placed'
  <2>1. c \in todo => sock[c] # "none"
    BY DEF ConnInv, SocketInv
  <2> QED BY <1>1, <1>5, <2>1 DEF ChunkSend, SendFails, SendSkips, SendWorks, HostStop, Close
<1>6. ASSUME NEW c \in Conn, Freed(c) PROVE Placed'
  BY <1>6 DEF Freed, Free
<1>7. ASSUME NEW m \in Mac, Helo(m) PROVE Placed'
  BY <1>1, <1>7 DEF Helo, httpVars, vars
<1>8. ASSUME NEW m \in Mac, Obeys(m) PROVE Placed'
  BY <1>8 DEF Obeys
<1>9. ASSUME NEW m \in Mac, OpensStream(m) PROVE Placed'
  <2>1. new_connection \in Conn /\ sock[new_connection] = "none"
    BY <1>9 DEF OpensStream, ClientConnects, AcceptInv
  <2> QED BY <1>9, <2>1 DEF OpensStream, ClientConnects
<1>10. ASSUME NEW m \in Mac, Requests(m) \/ Loses(m) PROVE Placed'
  BY <1>1, <1>10 DEF Requests, Loses, ClientSends, ClientStalls, ClientLeaves
<1>11. CASE (Network \/ Handlers) /\ UNCHANGED <<playbackVars, playerVars, losses>>
  BY <1>11, HandlersFrame
<1>12. CASE UNCHANGED allVars
  BY <1>1, <1>12 DEF allVars, httpVars, vars
<1> QED
  BY <1>2, <1>3, <1>4, <1>5, <1>6, <1>7, <1>8, <1>9, <1>10, <1>11, <1>12
     DEF StreamingNext, Player

LEMMA PlayStep ==
    ASSUME StreamInv, CalmHost, [StreamingNext]_allVars
    PROVE  PlayInv'
<1> USE DEF playbackVars, playerVars, serverVars, opVars, streamVars, hostVars, clientVars
<1>0. StreamTypes /\ PlayInv
  BY DEF StreamInv, ServerInv
<1>c. "s" \in Command /\ "q" \in Command /\ "p" \in Command /\ "u" \in Command
  BY DEF Command
\* A command other than "s".
<1>s. ASSUME NEW S, NEW x \in Command, x # "s", SendTo(S, <<x>>)
      PROVE  \A m \in Mac : /\ NoPlay(cmds[m]) => NoPlay(cmds'[m])
                            /\ OnePlay(cmds[m]) => OnePlay(cmds'[m])
  <2> TAKE m \in Mac
  <2>1. cmds'[m] = cmds[m] \/ cmds'[m] = cmds[m] \o <<x>>
    BY <1>s DEF SendTo
  <2>2. cmds[m] \in Seq(Command)
    BY <1>0 DEF StreamTypes
  <2>3. /\ NoPlay(cmds[m]) => NoPlay(cmds[m] \o <<x>>)
        /\ OnePlay(cmds[m]) => OnePlay(cmds[m] \o <<x>>)
    BY <1>s, <2>2, PlayMore
  <2> QED BY <2>1, <2>3
<1>2. ASSUME NEW b \in BOOLEAN, OnPlaybackStarting(b) PROVE PlayInv'
  <2>1. track = "stopped" /\ UNCHANGED <<httpVars, playerVars>>
    BY <1>2 DEF OnPlaybackStarting
  <2>2. thread' = "running" => \A m \in Mac : Quiet(m)
    BY <1>0, <2>1 DEF PlayInv, httpVars, vars
  <2>3. thread' = "running" => \A m \in Mac : Quiet(m)' /\ OneOf(m)'
    BY <2>1, <2>2, QuietOne
       DEF Quiet, NoPlay, NoStream, OneOf, OnePlay, OneOpen, httpVars, vars
  <2> QED BY <2>3 DEF PlayInv
<1>3. ASSUME NEW b \in BOOLEAN, OnPlaybackPause(b) PROVE PlayInv'
  <2> DEFINE x == IF b THEN "p" ELSE "u"
  <2>1. x \in Command /\ x # "s" /\ SendTo(Mac, <<x>>)
    BY <1>3, <1>c DEF OnPlaybackPause
  <2> HIDE DEF x
  <2>2. \A m \in Mac : /\ NoPlay(cmds[m]) => NoPlay(cmds'[m])
                       /\ OnePlay(cmds[m]) => OnePlay(cmds'[m])
    BY <1>s, <2>1
  <2>3. UNCHANGED <<httpVars, send_play, wants>>
    BY <1>3 DEF OnPlaybackPause
  <2>5. track' = "stopped" => track = "stopped"
    BY <1>3 DEF OnPlaybackPause
  <2>6. \A m \in Mac : (OneOf(m) => OneOf(m)') /\ (Quiet(m) => Quiet(m)')
    BY <2>2, <2>3 DEF OneOf, Quiet, NoPlay, OnePlay, NoStream, OneOpen, httpVars, vars
  <2>7. thread' = thread
    BY <2>3 DEF httpVars, vars
  <2> QED BY <1>0, <2>3, <2>5, <2>6, <2>7 DEF PlayInv
<1>4. CASE PlaybackStop
  <2>1. Settled /\ thread = "running"
    BY <1>4 DEF PlaybackStop, UserActs, HostFree
  <2>2. SendTo(Mac, <<"q">>)
    BY <1>4 DEF PlaybackStop, StopCommand
  <2>3. \A m \in Mac : /\ NoPlay(cmds[m]) => NoPlay(cmds'[m])
                       /\ OnePlay(cmds[m]) => OnePlay(cmds'[m])
    BY <1>c, <1>s, <2>2
  <2>4. \A m \in Mac : cmds[m] = <<>> /\ ~wants[m]
    BY <2>1 DEF Settled
  <2>5. \A m \in Mac : NoPlay(cmds[m])
    <3>1. Len(<<>>) = 0
      BY EmptySeq, Zenon
    <3>2. NoPlay(<<>>)
      BY <3>1 DEF NoPlay
    <3> QED BY <2>4, <3>2
  <2>6. sock' = [c \in Conn |-> IF c \in connections THEN "closed" ELSE sock[c]]
    BY <1>4 DEF PlaybackStop, OnPlaybackStop, Close
  <2>7. \A c \in Conn : sock'[c] # "open"
    BY <2>1, <2>6 DEF Settled, StreamInv, ServerInv, SafeInv, ConnInv, SocketInv
  <2>8. UNCHANGED wants
    BY <1>4 DEF PlaybackStop
  <2>10. \A m \in Mac : NoPlay(cmds'[m]) /\ OnePlay(cmds'[m])
    BY <2>3, <2>5 DEF NoPlay, OnePlay
  <2>11. \A m \in Mac : NoStream(m)' /\ OneOpen(m)'
    BY <2>7 DEF NoStream, OneOpen
  <2>12. \A m \in Mac : Quiet(m)' /\ OneOf(m)'
    BY <2>4, <2>8, <2>10, <2>11 DEF Quiet, OneOf, NoPlay, OnePlay
  <2> QED BY <2>12 DEF PlayInv
<1>5. CASE Chunk
  <2>1. /\ UNCHANGED <<thread, sock, asker, wants, track>>
        /\ send_play' = FALSE /\ track = "playing"
    BY <1>5 DEF Chunk, OnChunk, httpVars, vars
  <2>2. CASE ~send_play
    <3>1. UNCHANGED <<cmds, send_play>>
      BY <1>5, <2>1, <2>2 DEF Chunk, PlayDue, StreamInv, ServerInv, StreamTypes
    <3> QED BY <1>0, <2>1, <3>1, Fewer
  <2>3. CASE send_play
    <3>1. SendTo(Mac, <<"q", "s">>)
      BY <1>5, <2>3 DEF Chunk, PlayDue
    <3>2. thread = "running" => \A m \in Mac : Quiet(m)
      BY <1>0, <2>3 DEF PlayInv
    <3>3. ASSUME thread = "running", NEW m \in Mac PROVE OneOf(m)'
      <4>1. Quiet(m)
        BY <3>2, <3>3
      <4>2. cmds[m] \in Seq(Command)
        BY <1>0 DEF StreamTypes
      <4>3. OnePlay(cmds[m])
        BY <4>1 DEF Quiet, NoPlay, OnePlay
      <4>4. OnePlay(cmds[m] \o <<"q", "s">>)
        BY <4>1, <4>2, PlayAnew DEF Quiet
      <4>5. cmds'[m] = cmds[m] \/ cmds'[m] = cmds[m] \o <<"q", "s">>
        BY <3>1 DEF SendTo
      <4>6. OnePlay(cmds'[m])
        BY <4>3, <4>4, <4>5
      <4>7. ~wants'[m] /\ NoStream(m)' /\ OneOpen(m)'
        BY <2>1, <4>1 DEF Quiet, NoStream, OneOpen
      <4> QED BY <4>6, <4>7 DEF OneOf, OnePlay
    <3> QED BY <2>1, <3>3 DEF PlayInv
  <2> QED BY <2>2, <2>3, <1>0 DEF StreamTypes
<1>6. ASSUME NEW c \in Conn, ChunkSend(c) PROVE PlayInv'
  <2>1. /\ UNCHANGED <<thread, asker, wants, track, send_play, url_params>>
        /\ \A d \in Conn : sock'[d] = "open" => sock[d] = "open"
    BY <1>6 DEF ChunkSend, SendFails, SendSkips, SendWorks, HostStop, Close
  <2>2. CASE UNCHANGED cmds
    BY <1>0, <2>1, <2>2, Fewer
  <2>3. CASE SendFails(c) /\ PlayAgain(c)
    <3> SUFFICES ASSUME thread = "running" PROVE PlayInv'
        BY <2>1 DEF PlayInv
    <3>1. sock[c] = "open" /\ SendTo({url_params[c]}, <<"s">>) /\ url_params[c] \in {NoMac, asker[c]}
      BY <2>3, SentTo DEF SendFails, PlayAgain, StreamInv, ServerInv, Placed
    <3>2. \A d \in Conn : sock'[d] = "open" => sock[d] = "open" /\ d # c
      BY <2>3 DEF SendFails, HostStop, Close
    <3>3. \A m \in Mac : OneOf(m)
      BY <1>0 DEF PlayInv
    <3>4. ASSUME NEW m \in Mac, m = asker[c] PROVE OneOf(m)' /\ ~Quiet(m)
      <4>1. ~NoStream(m) /\ NoPlay(cmds[m]) /\ ~wants[m]
        BY <3>1, <3>3, <3>4 DEF OneOf, NoStream
      <4>2. NoStream(m)' /\ OneOpen(m)'
        BY <2>1, <3>1, <3>2, <3>3, <3>4 DEF OneOf, OneOpen, NoStream
      <4>3. cmds[m] \in Seq(Command)
        BY <1>0 DEF StreamTypes
      <4>4. cmds'[m] = cmds[m] \/ cmds'[m] = cmds[m] \o <<"s">>
        BY <3>1 DEF SendTo
      <4>5. OnePlay(cmds[m]) /\ OnePlay(cmds[m] \o <<"s">>)
        BY <1>c, <4>1, <4>3, PlayMore DEF NoPlay, OnePlay
      <4>6. OnePlay(cmds'[m])
        BY <4>4, <4>5
      <4> QED BY <2>1, <4>1, <4>2, <4>6 DEF OneOf, OnePlay, Quiet
    <3>5. ASSUME NEW m \in Mac, m # asker[c]
          PROVE  (OneOf(m) => OneOf(m)') /\ (Quiet(m) => Quiet(m)')
      <4>1. cmds'[m] = cmds[m]
        BY <3>1, <3>5, SentinelAssumption DEF SendTo
      <4> QED BY <2>1, <3>2, <4>1 DEF OneOf, Quiet, NoPlay, OnePlay, NoStream, OneOpen
    <3>6. asker[c] \in Mac => ~(send_play \/ track = "stopped")
      BY <1>0, <3>4 DEF PlayInv
    <3> QED BY <1>0, <2>1, <3>3, <3>4, <3>5, <3>6 DEF PlayInv
  <2> QED BY <1>6, <2>2, <2>3 DEF ChunkSend
<1>7. ASSUME NEW c \in Conn, Freed(c) PROVE PlayInv'
  <2>1. \A d \in Conn : sock'[d] = "open" => sock[d] = "open" /\ asker'[d] = asker[d]
    BY <1>7 DEF Freed, Free, StreamInv, ServerInv, SafeInv, TypeInv, TypeOK
  <2>2. thread' = thread /\ UNCHANGED <<cmds, wants, track, send_play>>
    BY <1>7 DEF Freed, Free
  <2> QED BY <1>0, <2>1, <2>2, Fewer
<1>8. ASSUME NEW m \in Mac, Helo(m) PROVE PlayInv'
  BY <1>0, <1>8, Fewer DEF Helo, httpVars, vars
<1>9. ASSUME NEW m \in Mac, Obeys(m) PROVE PlayInv'
  <2>1. UNCHANGED <<thread, sock, asker, track, send_play>>
    BY <1>9 DEF Obeys
  <2>2. cmds[m] \in Seq(Command) /\ cmds[m] # <<>> /\ wants[m] \in BOOLEAN
    BY <1>0, <1>9 DEF Obeys, StreamTypes
  <2>3. cmds' = [cmds EXCEPT ![m] = Tail(@)]
    BY <1>9 DEF Obeys
  <2>4. /\ NoPlay(cmds[m]) => NoPlay(Tail(cmds[m])) /\ Head(cmds[m]) # "s"
        /\ OnePlay(cmds[m]) => OnePlay(Tail(cmds[m]))
        /\ OnePlay(cmds[m]) /\ Head(cmds[m]) = "s" => NoPlay(Tail(cmds[m]))
    BY <2>2, PlayTail
  <2>5. cmds'[m] = Tail(cmds[m]) /\ \A n \in Mac \ {m} : cmds'[n] = cmds[n]
    BY <1>0, <2>3 DEF StreamTypes
  <2>6. /\ wants'[m] => wants[m] \/ Head(cmds[m]) = "s"
        /\ \A n \in Mac \ {m} : wants'[n] = wants[n]
    BY <1>0, <1>9 DEF Obeys, StreamTypes
  <2>7. \A n \in Mac : (NoStream(n) => NoStream(n)') /\ (OneOpen(n) => OneOpen(n)')
    BY <2>1 DEF NoStream, OneOpen
  <2>8. Quiet(m) => Quiet(m)'
    BY <2>4, <2>5, <2>6, <2>7 DEF Quiet, NoPlay
  <2>9. OneOf(m) => OneOf(m)'
    <3> SUFFICES ASSUME OneOf(m) PROVE OneOf(m)'
        OBVIOUS
    <3>1. OnePlay(cmds[m])' /\ OneOpen(m)'
      BY <2>4, <2>5, <2>7 DEF OneOf, OnePlay
    <3>2. ASSUME wants'[m] PROVE NoPlay(cmds[m])' /\ NoStream(m)'
      <4>1. CASE wants[m]
        BY <2>4, <2>5, <2>7, <4>1 DEF OneOf, NoPlay
      <4>2. CASE Head(cmds[m]) = "s"
        BY <2>4, <2>5, <2>7, <4>2 DEF OneOf, NoPlay
      <4> QED BY <2>6, <3>2, <4>1, <4>2
    <3>3. NoPlay(cmds[m])' \/ NoStream(m)'
      BY <2>4, <2>5, <2>7 DEF OneOf, NoPlay
    <3> QED BY <3>1, <3>2, <3>3 DEF OneOf
  <2>10. \A n \in Mac \ {m} : (Quiet(n) => Quiet(n)') /\ (OneOf(n) => OneOf(n)')
    BY <2>5, <2>6, <2>7 DEF Quiet, OneOf, NoPlay, OnePlay
  <2> QED BY <1>0, <2>1, <2>8, <2>9, <2>10 DEF PlayInv
<1>10. ASSUME NEW m \in Mac, OpensStream(m) PROVE PlayInv'
  <2> DEFINE c == new_connection
  <2>1. c \in Conn /\ sock[c] = "none" /\ wants[m]
    BY <1>10 DEF OpensStream, ClientConnects, StreamInv, ServerInv, SafeInv, TypeInv, TypeOK, AcceptInv
  <2>2. /\ UNCHANGED <<thread, track, send_play, cmds>>
        /\ \A d \in Conn \ {c} : sock'[d] = sock[d] /\ asker'[d] = asker[d]
        /\ asker'[c] = m
    BY <1>10 DEF OpensStream, ClientConnects, StreamInv, ServerInv, SafeInv, TypeInv, TypeOK
  <2>3. ~wants'[m] /\ \A n \in Mac \ {m} : wants'[n] = wants[n]
    BY <1>0, <1>10 DEF OpensStream, StreamTypes
  <2> HIDE DEF c
  <2>4. \A n \in Mac \ {m} : (NoStream(n) => NoStream(n)') /\ (OneOpen(n) => OneOpen(n)')
    BY <2>1, <2>2 DEF NoStream, OneOpen
  <2>5. \A n \in Mac \ {m} : (Quiet(n) => Quiet(n)') /\ (OneOf(n) => OneOf(n)')
    BY <2>2, <2>3, <2>4 DEF Quiet, OneOf, NoPlay, OnePlay
  <2>6. OneOf(m) => OneOf(m)'
    <3> SUFFICES ASSUME OneOf(m) PROVE OneOf(m)'
        OBVIOUS
    <3>1. NoPlay(cmds[m]) /\ NoStream(m)
      BY <2>1 DEF OneOf
    <3>2. OneOpen(m)'
      BY <2>1, <2>2, <3>1 DEF NoStream, OneOpen
    <3> QED BY <2>2, <2>3, <3>1, <3>2 DEF OneOf, NoPlay, OnePlay
  <2>7. ~Quiet(m)
    BY <2>1 DEF Quiet
  <2> QED BY <1>0, <2>2, <2>5, <2>6, <2>7 DEF PlayInv
<1>11. ASSUME NEW m \in Mac, Requests(m) \/ Loses(m) PROVE PlayInv'
  BY <1>0, <1>11, Fewer DEF Requests, Loses, ClientSends, ClientStalls, ClientLeaves
<1>12. CASE (Network \/ Handlers) /\ UNCHANGED <<playbackVars, playerVars, losses>>
  <2>1. SafeInv
    BY DEF StreamInv, ServerInv
  <2>2. \A c \in Conn : sock'[c] = "open" => sock[c] = "open" /\ asker'[c] = asker[c]
    BY <1>12, <2>1, HandlersFrame
  <2>3. thread' = "running" => thread = "running"
    BY <1>12, <2>1, HandlersFrame
  <2> QED BY <1>0, <1>12, <2>2, <2>3, Fewer
<1>13. CASE UNCHANGED allVars
  BY <1>0, <1>13, Fewer DEF allVars, httpVars, vars
<1> QED
  BY <1>2, <1>3, <1>4, <1>5, <1>6, <1>7, <1>8, <1>9, <1>10, <1>11, <1>12, <1>13
     DEF StreamingNext, Player

\* Only a running thread accepts, and it never runs again.
LEMMA ExitedStep ==
    ASSUME StreamInv, [StreamingNext]_allVars
    PROVE  Exited'
<1> DEFINE Kept == thread' = thread /\ connections' \subseteq connections
<1> USE DEF serverVars
<1>1. Kept => Exited'
  BY DEF StreamInv, ServerInv, Exited
<1>2. ASSUME NEW b \in BOOLEAN, OnPlaybackStarting(b) \/ OnPlaybackPause(b) PROVE Kept
  BY <1>2 DEF OnPlaybackStarting, OnPlaybackPause, httpVars, vars
<1>3. CASE PlaybackStop
  BY <1>1, <1>3 DEF PlaybackStop, OnPlaybackStop
<1>4. CASE Chunk
  BY <1>1, <1>4 DEF Chunk, OnChunk, httpVars, vars
<1>5. ASSUME NEW c \in Conn, ChunkSend(c) PROVE Kept
  BY <1>5 DEF ChunkSend, SendFails, SendSkips, SendWorks, HostStop
<1>6. ASSUME NEW c \in Conn, Freed(c) PROVE Kept
  BY <1>6 DEF Freed, Free
<1>7. ASSUME NEW m \in Mac, Helo(m) \/ Obeys(m) PROVE Kept
  BY <1>7 DEF Helo, Obeys, httpVars, vars
<1>8. ASSUME NEW m \in Mac, OpensStream(m) \/ Requests(m) \/ Loses(m) PROVE Kept
  BY <1>8 DEF OpensStream, ClientConnects, Requests, ClientSends, Loses, ClientStalls, ClientLeaves
<1>9. CASE Network
  BY <1>1, <1>9 DEF Network, ReadFails, WriteCompletes, WriteFails
<1>10. CASE HandleAccept
  BY <1>10 DEF HandleAccept, Runs, Exited
<1>11. CASE HandleAcceptError \/ HandleStop
  BY <1>1, <1>11 DEF HandleAcceptError, HandleStop
<1>12. CASE RunExits
  BY <1>12 DEF RunExits, Exited
<1>13. ASSUME NEW c \in Conn, HandleRequest(c) \/ HandleMore(c) \/ HandleLast(c) PROVE Kept
  BY <1>13 DEF HandleRequest, HandleMore, HandleLast, StopSelf, Forget
<1>14. ASSUME NEW c \in Conn, HandleStreamReady(c) \/ HandleStreamSocket(c) PROVE Kept
  BY <1>14 DEF HandleStreamReady, HandleStreamSocket, Forget
<1>15. CASE UNCHANGED allVars
  BY <1>1, <1>15 DEF allVars, httpVars, vars
<1> HIDE DEF Kept
<1> QED
  BY <1>1, <1>2, <1>3, <1>4, <1>5, <1>6, <1>7, <1>8, <1>9, <1>10, <1>11, <1>12, <1>13,
     <1>14, <1>15 DEF StreamingNext, Player, Handlers
-----------------------------------------------------------------------------
LEMMA ServerInit == StreamingInit => ServerInv
<1> SUFFICES ASSUME StreamingInit PROVE ServerInv
    OBVIOUS
<1>1. SafeInv
  BY SafeInit DEF StreamingInit
<1>2. StreamTypes
  <2>1. <<>> \in Seq(Command)
    BY EmptySeq
  <2> QED BY <2>1 DEF StreamingInit, StreamTypes
<1>3. Placed
  BY SentinelAssumption DEF StreamingInit, Init, Placed
<1> QED BY <1>1, <1>2, <1>3 DEF ServerInv

LEMMA ServerStep == ServerInv /\ [StreamingNext]_allVars => ServerInv'
<1> SUFFICES ASSUME ServerInv, [StreamingNext]_allVars PROVE ServerInv'
    OBVIOUS
<1>1. SafeInv'
  BY HttpSafe DEF ServerInv
<1> QED BY <1>1, StreamTypesStep, PlacedStep DEF ServerInv

\* Fed by the callbacks and emptied by players that come and go as they are told,
\* the streaming server keeps what it promises on its own: audio after its header,
\* no send on a closed socket, no open socket lost, no connection that waits for
\* nothing.  This holds for any user, calm or not.
THEOREM StreamingKeeps ==
    StreamingSpec => [](AudioAfterHeader /\ SendsOnOpen /\ OpenManaged /\ NoDeaf)
<1>1. ServerInv => AudioAfterHeader /\ SendsOnOpen /\ OpenManaged /\ NoDeaf
  <2> SUFFICES ASSUME ServerInv
               PROVE  AudioAfterHeader /\ SendsOnOpen /\ OpenManaged /\ NoDeaf
      OBVIOUS
  <2> USE DEF ServerInv, SafeInv
  <2>1. AudioAfterHeader
    BY DEF ConnInv, GotInv, AudioAfterHeader
  <2>2. SendsOnOpen
    BY DEF HostInv, SendsOnOpen
  <2>3. OpenManaged
    BY DEF ConnInv, SocketInv, OpenManaged
  <2>4. NoDeaf
    BY DEF TypeInv, TypeOK, ConnInv, OpInv, NoDeaf
  <2> QED BY <2>1, <2>2, <2>3, <2>4
<1> QED BY <1>1, ServerInit, ServerStep, PTL DEF StreamingSpec

LEMMA StreamInit == StreamingInit => StreamInv
<1> SUFFICES ASSUME StreamingInit PROVE StreamInv
    OBVIOUS
<1>1. ServerInv
  BY ServerInit
<1>2. PlayInv
  <2>1. Len(<<>>) = 0
    BY EmptySeq, Zenon
  <2>2. NoPlay(<<>>)
    BY <2>1 DEF NoPlay
  <2>3. \A m \in Mac : Quiet(m)
    BY <2>2 DEF StreamingInit, Init, Quiet, NoStream
  <2> QED BY <2>3, QuietOne DEF PlayInv
<1>3. Exited
  BY DEF StreamingInit, Init, Exited
<1> QED BY <1>1, <1>2, <1>3 DEF StreamInv

\* At most one stream per player is in the manager, so that no chunk is sent to a
\* player twice and no failing send makes it drop a stream that works, if the
\* user acts when the players have settled: whatever stalls, is lost or fails,
\* and whenever players register.
THEOREM OneStreamAlways ==
    ASSUME CalmHost PROVE StreamingSpec => []OneStream
<1>1. StreamInv /\ [StreamingNext]_allVars => StreamInv'
  <2> SUFFICES ASSUME StreamInv, [StreamingNext]_allVars PROVE StreamInv'
      OBVIOUS
  <2>1. ServerInv'
    BY ServerStep DEF StreamInv
  <2>2. PlayInv'
    BY PlayStep
  <2>3. Exited'
    BY ExitedStep
  <2> QED BY <2>1, <2>2, <2>3 DEF StreamInv
<1>2. StreamInv => OneStream
  <2> SUFFICES ASSUME StreamInv, NEW c \in connections, NEW d \in connections,
                      url_params[c] \in Mac, url_params[c] = url_params[d]
               PROVE  c = d
      BY DEF OneStream
  <2>1. c \in Conn /\ d \in Conn /\ sock[c] = "open" /\ sock[d] = "open"
    BY DEF StreamInv, ServerInv, SafeInv, TypeInv, TypeOK, ConnInv, SocketInv
  <2>2. url_params[c] = asker[c] /\ url_params[d] = asker[d]
    BY <2>1, SentinelAssumption DEF StreamInv, ServerInv, Placed
  <2>3. CASE thread = "running"
    BY <2>1, <2>2, <2>3 DEF StreamInv, ServerInv, PlayInv, OneOf, OneOpen
  <2>4. CASE thread = "exited"
    BY <2>4 DEF StreamInv, ServerInv, Exited
  <2> QED BY <2>3, <2>4 DEF StreamInv, ServerInv, SafeInv, TypeInv, TypeOK
<1> QED BY <1>1, <1>2, StreamInit, PTL DEF StreamingSpec
=============================================================================
