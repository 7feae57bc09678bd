------------------------------ MODULE ServerMsg ------------------------------
(***************************************************************************)
(* The messages the control server writes (src/slim_server/server_msg.*,   *)
(* and the fields connection.cpp gives them), as bytes on the wire, and    *)
(* what a player reads from these bytes.                                   *)
(*                                                                         *)
(* A byte is a number or, where it is a letter or a digit of the protocol, *)
(* that character; the bytes of a URL are all alike.                       *)
(***************************************************************************)
EXTENDS Integers, Sequences

CONSTANTS
    Volumes,      \* volumes a message may carry: an unsigned char
    Rates,        \* sample rates of the chunks
    UrlLengths,   \* lengths of stream_url; 0 is the empty string
    Ports,        \* the streaming port: an unsigned short
    MaxPending    \* messages the player has not read yet (a bound)

ASSUME VolumeAssumption == Volumes \subseteq 0..255
ASSUME UrlAssumption == \A url \in UrlLengths : url \in Nat /\ url <= 65000
ASSUME PortAssumption == \A port \in Ports : port \in Nat /\ port < 65536

\* (char)(x >> 8) and (char)x: the shift of a negative number keeps its sign.
\* Mutant: the division rounds towards 0.
HighByte_Rounds(x) == (IF x < 0 THEN 0 - ((0 - x) \div 256) ELSE x \div 256) % 256
HighByte(x) == (x \div 256) % 256
LowByte(x) == x % 256

\* (short int)x
Short(x) == LET u == x % 65536 IN IF u > 32767 THEN u - 65536 ELSE u

Word(x) == <<HighByte(x), LowByte(x)>>
Bit(b) == IF b THEN 1 ELSE 0

-----------------------------------------------------------------------------
(* The messages. *)

Aude == [kind : {"aude"}, spdif_enable : BOOLEAN, dac_enable : BOOLEAN]
Audg == [kind : {"audg"}, volume : Volumes, dvc_enable : BOOLEAN, preamp : {255}]

\* send_stream_play is 's'; pause, unpause, stop and status differ in the
\* command only.
Strm ==
    [kind : {"strm"}, strm_command : {"s"}, bps : {16, 24}, rate : Rates,
     server_port : Ports, url : UrlLengths \ {0}]
    \cup [kind : {"strm"}, strm_command : {"p", "u", "q", "t"}, bps : {0}, rate : {0},
          server_port : {0}, url : {0}]

ServerMessage == Aude \cup Audg \cup Strm

\* server_msg_aude::to_vector; length_ is 6.  Mutant: the length counts itself.
ToVectorAude_Long(m) ==
    Word(8) \o <<"a", "u", "d", "e", Bit(m.spdif_enable), Bit(m.dac_enable)>>
ToVectorAude(m) ==
    Word(6) \o <<"a", "u", "d", "e", Bit(m.spdif_enable), Bit(m.dac_enable)>>

\* One channel of the new style volume, 16.16 fixed point.
Gain(vol) ==
    IF vol = 128 THEN <<0, 1, 0, 0>>
    ELSE <<0, 0>> \o Word(Short((65535 * vol) \div 128))

Limited(volume) == IF volume > 128 THEN 128 ELSE volume

\* server_msg_audg::to_vector; length_ is 22.
ToVectorAudg(m) ==
    LET vol == Limited(m.volume)
        old == <<0, 0, 0, vol>>
    IN  Word(22) \o <<"a", "u", "d", "g">> \o old \o old
        \o <<Bit(m.dvc_enable), m.preamp>> \o Gain(vol) \o Gain(vol)

\* get_pcm_sample_size, get_pcm_sample_rate
SampleSize(bps) == CASE bps = 16 -> "1" [] bps = 24 -> "2" [] OTHER -> "?"
SampleRate(rate) ==
    CASE rate = 44100 -> "3" [] rate = 48000 -> "4" [] rate = 96000 -> "9" [] OTHER -> "?"

\* "GET " stream_url " HTTP/1.0\r\n\r\n", if there is a URL.
HttpHeader(m) == IF m.url = 0 THEN <<>> ELSE [i \in 1..(m.url + 17) |-> "x"]

\* The fields that connection.cpp sets for a play command, and for the others.
Fields(m) ==
    IF m.strm_command = "s"
    THEN <<"1", "p", SampleSize(m.bps), SampleRate(m.rate), "2", "1", 255>>
    ELSE <<"0", "m", "?", "?", "?", "?", 0>>

\* server_msg_strm::to_vector: spdif_enable to output_threshold, one reserved
\* byte, replay_gain, the port and the address follow; the length is put last.
ToVectorStrm(m) ==
    LET body == <<"s", "t", "r", "m", m.strm_command>> \o Fields(m)
                \o <<0, 0, "0", 0, 0, 0>> \o <<0, 0, 0, 0>>
                \o Word(m.server_port) \o <<0, 0, 0, 0>> \o HttpHeader(m)
    IN  Word(Len(body)) \o body

ToVector(m) ==
    CASE m.kind = "aude" -> ToVectorAude(m)
      [] m.kind = "audg" -> ToVectorAudg(m)
      [] m.kind = "strm" -> ToVectorStrm(m)

-----------------------------------------------------------------------------
(* The wire: send_data writes the messages one after the other, and the    *)
(* player takes them off by the protocol as server_msg.hpp has it.         *)

VARIABLES
    pending,   \* messages the player has not read yet
    wire       \* their bytes

wireVars == <<pending, wire>>

WireInit == pending = <<>> /\ wire = <<>>

SendData(m) ==
    /\ Len(pending) < MaxPending
    /\ pending' = Append(pending, m)
    /\ wire' = wire \o ToVector(m)

NumberAt(s, i) == 256 * s[i] + s[i + 1]

\* A message starts with the number of bytes that follow.
FrameLength == 2 + NumberAt(wire, 1)

PlayerReads ==
    /\ wire # <<>>
    /\ wire' = SubSeq(wire, FrameLength + 1, Len(wire))
    /\ pending' = Tail(pending)

WireNext == (\E m \in ServerMessage : SendData(m)) \/ PlayerReads

WireSpec == WireInit /\ [][WireNext]_wireVars

-----------------------------------------------------------------------------

\* Every message starts where the length of the message before says, whatever
\* was sent in which order: the player never loses its place.
Framed ==
    /\ wire = <<>> <=> pending = <<>>
    /\ pending # <<>> =>
          SubSeq(wire, 3, 6) =
              CASE Head(pending).kind = "aude" -> <<"a", "u", "d", "e">>
                [] Head(pending).kind = "audg" -> <<"a", "u", "d", "g">>
                [] Head(pending).kind = "strm" -> <<"s", "t", "r", "m">>

\* The new style gain a player finds, out of 65536.
GainAt(i) == 65536 * NumberAt(wire, i) + NumberAt(wire, i + 2)

\* The gain is the volume's share of full scale, to the last bit and in both
\* channels, although the product overflows the short int it passes through;
\* full scale from 128 on.
GainRight ==
    pending # <<>> /\ Head(pending).kind = "audg" =>
        LET v == Head(pending).volume IN
        /\ GainAt(17) = IF v >= 128 THEN 65536 ELSE (65535 * v) \div 128
        /\ GainAt(21) = GainAt(17)
        /\ wire[10] <= 128 /\ wire[14] = wire[10]
=============================================================================
