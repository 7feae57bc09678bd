---------------------------- MODULE MCSlimProtocol ----------------------------
(***************************************************************************)
(* Both directions of a connection for TLC, one at a time: they share no   *)
(* state.  The data bytes and the commands are chosen so that bytes of one *)
(* message look like command and length bytes of another when the parser   *)
(* loses its place.                                                        *)
(***************************************************************************)
EXTENDS ClientMsg, ServerMsg

Command(b) == [i \in 1..4 |-> b]
Msg(b, d) == [command |-> Command(b), data |-> d]

MCHelo == Command(1)
Player(device, revision, n) == Msg(1, <<device, revision, 0, 0, 0, 1, 1, n>>)

\* HELO messages that the server cannot handle: with ByteBase 26, a revision or
\* a length of 13 is the code's 128.
BadHelo == {Player(4, 13, 1), Msg(1, <<2, 3>>)}

\* Two players, one of them with two revisions.
MCMessages ==
    {Msg(0, <<>>), Msg(2, <<0, 1>>), Msg(3, [i \in 1..13 |-> IF i = 4 THEN 2 ELSE i % 2]),
     Player(4, 12, 1), Player(12, 7, 1), Player(13, 1, 3)} \cup BadHelo

protocolVars == <<msgVars, wireVars>>

ProtocolInit == MsgInit /\ WireInit

ProtocolNext ==
    \/ pending = <<>> /\ MsgNext /\ UNCHANGED wireVars
    \/ stream = <<>> /\ WireNext /\ UNCHANGED msgVars

ProtocolSpec == ProtocolInit /\ [][ProtocolNext]_protocolVars
=============================================================================
