------------------------------ MODULE Streaming ------------------------------
(***************************************************************************)
(* From a track to the players: foobar2000's playback callbacks            *)
(* (src/foo_sbs/foo_sbs.cpp), the commands they make the control server    *)
(* send, the players that open and drop streams as they are told, and the  *)
(* streaming server (HttpServer) that feeds them.                          *)
(*                                                                         *)
(* The control server appears by what the callbacks use: the players that  *)
(* have sent HELO, and the commands under way to each.  Volume and status  *)
(* messages do not move a player between streams and are left out.         *)
(***************************************************************************)
EXTENDS HttpServer, Sequences

CONSTANTS
    MaxCmds,     \* commands under way to a player (a bound: its socket buffer)
    MaxLosses,   \* streams that are lost (a bound)
    EarlyLoss,   \* may a stream be lost before its header is read?
    EarlyHelo,   \* do players send HELO only while nothing is played?
    CalmHost     \* does the user wait until the players have settled?

ASSUME StreamingBounds == MaxCmds \in Nat /\ MaxLosses \in Nat
ASSUME StreamingCases == {EarlyLoss, EarlyHelo, CalmHost} \subseteq BOOLEAN

VARIABLES
    track,        \* the host: "stopped", "playing", "paused"
    send_play,
    is_playing,
    registered,   \* players with device_initialized_
    cmds,         \* stream commands under way to a player: "s", "q", "p", "u"
    stream,       \* the connection a player takes its audio from, or NoConn
    wants,        \* is the player about to open a stream?
    losses        \* streams lost so far

httpVars     == vars
playbackVars == <<track, send_play, is_playing>>
playerVars   == <<registered, cmds, stream, wants>>
allVars      == <<httpVars, playbackVars, playerVars, losses>>

StreamingInit ==
    /\ Init
    /\ track = "stopped"
    /\ send_play = FALSE /\ is_playing = FALSE
    /\ registered = {}
    /\ cmds = [m \in Mac |-> <<>>]
    /\ stream = [m \in Mac |-> NoConn]
    /\ wants = [m \in Mac |-> FALSE]
    /\ losses = 0

-----------------------------------------------------------------------------
(* Commands. *)

\* A loop of connection_manager::send_stream_* over the players of S: only a
\* player with device_initialized_ is sent to.
SendTo(S, seq) ==
    cmds' = [m \in Mac |-> IF m \in S \cap registered THEN cmds[m] \o seq ELSE cmds[m]]

Room(S, n) == \A m \in S : Len(cmds[m]) + n <= MaxCmds

\* Nothing is under way between the host, the servers and the players.
Settled ==
    /\ \A m \in Mac : cmds[m] = <<>> /\ ~wants[m]
    /\ acceptOp = "pending" /\ \A c \in Conn : op[c] = "none"

UserActs == HostFree /\ (CalmHost => Settled)

-----------------------------------------------------------------------------
(* The playback callbacks.  Each is a call the host makes on its thread. *)

OnPlaybackStarting(paused) ==
    /\ UserActs
    /\ track = "stopped"
    /\ track' = IF paused THEN "paused" ELSE "playing"
    /\ send_play' = TRUE
    /\ is_playing' = TRUE
    /\ UNCHANGED <<httpVars, playerVars, losses>>

\* send_stream_stop_all
StopCommand == SendTo(Mac, <<"q">>)

PlaybackStop ==
    /\ UserActs
    /\ track # "stopped"
    /\ track' = "stopped"
    /\ is_playing' = FALSE
    /\ Room(Mac, 1)
    /\ StopCommand
    /\ OnPlaybackStop
    /\ UNCHANGED <<send_play, registered, stream, wants, losses>>

OnPlaybackPause(p_state) ==
    /\ UserActs
    /\ track = IF p_state THEN "playing" ELSE "paused"
    /\ track' = IF p_state THEN "paused" ELSE "playing"
    /\ is_playing' = ~p_state
    /\ Room(Mac, 1)
    /\ SendTo(Mac, <<IF p_state THEN "p" ELSE "u">>)
    /\ UNCHANGED <<httpVars, send_play, registered, stream, wants, losses>>

\* on_chunk: the first chunk of a track sends the play command; then, while
\* is_playing, the chunk goes to every connection (Sends).
\* Mutant: it never does.
PlayDue_Never == FALSE
PlayDue == send_play

Chunk ==
    /\ HostFree
    /\ track = "playing"
    /\ PlayDue => Room(Mac, 2)
    /\ send_play' = FALSE
    /\ IF PlayDue THEN SendTo(Mac, <<"q", "s">>) ELSE UNCHANGED cmds
    /\ IF is_playing /\ connections # {} THEN OnChunk ELSE UNCHANGED httpVars
    /\ UNCHANGED <<track, is_playing, registered, stream, wants, losses>>

\* on_chunk sends to c; if that fails it has closed c and asks the player of
\* the request to open another stream.  Mutant: it does not.  That the host may
\* come between the statements of handle_write_stream is HttpServer's subject
\* (NoStrayAudio) and is left out here.
PlayAgain_Not(c) == UNCHANGED cmds
PlayAgain(c) == Room({url_params[c]} \cap Mac, 1) /\ SendTo({url_params[c]}, <<"s">>)

ChunkSend(c) ==
    /\ io # c
    /\ \/ SendFails(c) /\ PlayAgain(c)
       \/ (SendSkips(c) \/ SendWorks(c)) /\ UNCHANGED cmds
    /\ UNCHANGED <<playbackVars, registered, stream, wants, losses>>

-----------------------------------------------------------------------------
(* The players: one stream at a time, opened on "s", dropped on "q" and "s". *)

\* HELO was handled: device_initialized_.  No play command follows from it.
Helo(m) ==
    /\ m \notin registered
    /\ EarlyHelo => track = "stopped"
    /\ registered' = registered \cup {m}
    /\ UNCHANGED <<httpVars, playbackVars, cmds, stream, wants, losses>>

Obeys(m) ==
    /\ cmds[m] # <<>>
    /\ cmds' = [cmds EXCEPT ![m] = Tail(@)]
    /\ IF Head(cmds[m]) \in {"s", "q"}
       THEN /\ wants' = [wants EXCEPT ![m] = Head(cmds[m]) = "s"]
            /\ stream' = [stream EXCEPT ![m] = NoConn]
            /\ client' = [c \in Conn |-> IF c = stream[m] /\ client[c] \in {"up", "stalled"}
                                         THEN "gone" ELSE client[c]]
       ELSE UNCHANGED <<wants, stream, client>>
    /\ UNCHANGED <<serverVars, connections, opVars, streamVars, hostVars, asker, got,
                   playbackVars, registered, losses>>

OpensStream(m) ==
    /\ wants[m]
    /\ ClientConnects(m)
    /\ stream' = [stream EXCEPT ![m] = new_connection]
    /\ wants' = [wants EXCEPT ![m] = FALSE]
    /\ UNCHANGED <<playbackVars, registered, cmds, losses>>

\* The request names the player; only the whole request matters here.
Requests(m) ==
    /\ stream[m] # NoConn
    /\ ClientSends(stream[m], "stream")
    /\ UNCHANGED <<playbackVars, playerVars, losses>>

\* A stream is lost: the player reads no more, or its end is closed.  It opens
\* another one when it is told to.
Loses(m) ==
    /\ losses < MaxLosses
    /\ stream[m] # NoConn
    /\ EarlyLoss \/ got[stream[m]] \in {"header", "audio"}
    /\ ClientStalls(stream[m]) \/ ClientLeaves(stream[m])
    /\ losses' = losses + 1
    /\ UNCHANGED <<playbackVars, playerVars>>

Freed(c) ==
    /\ Free(c)
    /\ stream' = [m \in Mac |-> IF stream[m] = c THEN NoConn ELSE stream[m]]
    /\ UNCHANGED <<playbackVars, registered, cmds, wants, losses>>

Player(m) == Obeys(m) \/ OpensStream(m) \/ Requests(m)

StreamingNext ==
    \/ \E b \in BOOLEAN : OnPlaybackStarting(b) \/ OnPlaybackPause(b)
    \/ PlaybackStop \/ Chunk
    \/ \E c \in Conn : ChunkSend(c) \/ Freed(c)
    \/ \E m \in Mac : Helo(m) \/ Player(m) \/ Loses(m)
    \/ (Network \/ Handlers) /\ UNCHANGED <<playbackVars, playerVars, losses>>

StreamingSpec == StreamingInit /\ [][StreamingNext]_allVars

\* Both threads run, chunks come while a track plays, the network delivers and
\* the players do as they are told.
StreamingFairSpec ==
    /\ StreamingSpec
    /\ WF_allVars(Chunk) /\ WF_allVars(\E c \in Conn : ChunkSend(c))
    /\ WF_allVars(Handlers /\ UNCHANGED <<playbackVars, playerVars, losses>>)
    /\ \A c \in Conn : /\ WF_allVars(Freed(c))
                       /\ WF_allVars(/\ ReadFails(c) \/ WriteCompletes(c) \/ WriteFails(c)
                                     /\ UNCHANGED <<playbackVars, playerVars, losses>>)
    /\ \A m \in Mac : WF_allVars(Player(m))

-----------------------------------------------------------------------------

Command == {"s", "q", "p", "u"}

Hears(m) ==
    /\ stream[m] # NoConn /\ sock[stream[m]] = "open"
    /\ client[stream[m]] = "up" /\ got[stream[m]] = "audio"

\* "Whatever that is being played will be streamed to the player": a player the
\* server knows gets the audio of the track, unless the host stops or pauses.
Streamed ==
    \A m \in Mac : m \in registered /\ track = "playing" ~> Hears(m) \/ track # "playing"

\* ... and goes on getting it: a track that plays on ends up in one stream per
\* player, whatever was lost on the way.
StaysTuned ==
    \A m \in Mac : <>[](m \in registered /\ track = "playing") => <>[]Hears(m)

\* A stream whose client has gone, or does not read, is closed while the track
\* plays on.  Nothing is read from it, so that only a send can find out; the
\* first one after the client has gone succeeds.
LostStreamClosed ==
    \A c \in Conn : ready_for_stream[c] /\ client[c] \in {"stalled", "gone", "reset"}
                        ~> sock[c] # "open" \/ track # "playing"

\* At most one stream per player is in the manager, so that a chunk is sent to
\* the player once, and a failed send never is the failure of an old stream.
OneStream ==
    \A c, d \in connections :
        ready_for_stream[c] /\ ready_for_stream[d] /\ url_params[c] \in Mac =>
            (url_params[c] = url_params[d] => c = d)
=============================================================================
