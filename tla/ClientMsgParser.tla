--------------------------- MODULE ClientMsgParser ---------------------------
(***************************************************************************)
(* How the bytes a player sends become the messages the control server     *)
(* handles (src/slim_server/client_msg_parser.*, and the part of           *)
(* connection::handle_read that drives it).                                *)
(*                                                                         *)
(* A message is four bytes of command, four bytes of length, most          *)
(* significant first, and length bytes of data.  TCP delivers any split    *)
(* of the byte stream.  handle_read gives the parser what one read         *)
(* returned, and after a result drops what the parser did not consume.     *)
(***************************************************************************)
EXTENDS Integers, Sequences

CONSTANTS
    ByteBase,      \* number of byte values: 256 in the code
    Messages,      \* messages a player may send
    MaxMessages,   \* how many it sends (a bound)
    ReadSize       \* size of buffer_: 8192 in the code

Byte == 0..(ByteBase - 1)

ASSUME ByteAssumption == ByteBase \in Nat /\ ByteBase > 1 /\ ByteBase % 2 = 0
ASSUME MessageAssumption ==
    \A m \in Messages :
        /\ m \in [command : [1..4 -> Byte], data : Seq(Byte)]
        /\ Len(m.data) < ByteBase
ASSUME BoundAssumption == MaxMessages \in Nat /\ ReadSize \in Nat \ {0}

VARIABLES
    paced,       \* does the player wait until its last message was read?
    sent,        \* messages the player has sent
    stream,      \* the bytes of these messages
    delivered,   \* bytes that reads have returned
    consumed,    \* bytes that were parsed or dropped
    index,       \* client_msg_parser::index_
    command, length, data,   \* client_msg_
    handled      \* messages passed to handle_client_msg

message == <<index, command, length, data>>
vars == <<paced, sent, stream, delivered, consumed, message, handled>>

\* The wire format; a length below ByteBase needs only the last length byte.
Encode(m) == m.command \o <<0, 0, 0, Len(m.data)>> \o m.data

\* The parser adds the length bytes as char, which is signed.
SignedByte(b) == IF b >= ByteBase \div 2 THEN b - ByteBase ELSE b

Init ==
    /\ paced \in BOOLEAN
    /\ sent = <<>> /\ stream = <<>> /\ delivered = 0 /\ consumed = 0
    /\ index = 0 /\ command = <<>> /\ length = 0 /\ data = <<>>
    /\ handled = <<>>

-----------------------------------------------------------------------------

\* The player sends a message; a paced one after its last message was read.
Send(m) ==
    /\ Len(sent) < MaxMessages
    /\ paced => consumed = Len(stream)
    /\ sent' = Append(sent, m)
    /\ stream' = stream \o Encode(m)
    /\ UNCHANGED <<paced, delivered, consumed, message, handled>>

\* A read returns the next n bytes, whatever messages they belong to.
Read(n) ==
    /\ consumed = delivered
    /\ delivered + n <= Len(stream)
    /\ delivered' = delivered + n
    /\ UNCHANGED <<paced, sent, stream, consumed, message, handled>>

Input == stream[consumed + 1]

\* The result of consume is indeterminate: go on with the next byte.
More == consumed' = consumed + 1 /\ UNCHANGED handled

\* handle_read drops the rest of the read once there is a result.
Drop == consumed' = delivered

\* client_msg_.clear and client_msg_parser_.reset; the mutant forgets
\* the data.
Clear_KeepsData == index' = 0 /\ command' = <<>> /\ length' = 0 /\ UNCHANGED data
Clear == index' = 0 /\ command' = <<>> /\ length' = 0 /\ data' = <<>>

\* The result is true: the message, with its last byte d, is handled.
Complete(d) ==
    /\ handled' = Append(handled, [command |-> command, data |-> d])
    /\ Clear
    /\ Drop

\* consume: one of the four command bytes.
ConsumeCommand ==
    /\ index < 4
    /\ command' = Append(command, Input)
    /\ index' = index + 1
    /\ length' = IF index = 3 THEN 0 ELSE length
    /\ UNCHANGED data
    /\ More

\* consume: one of the four length bytes.
ConsumeLength ==
    /\ index \in 4..7
    /\ LET l == length * ByteBase + SignedByte(Input)
       IN  \/ /\ index = 7 /\ l = 0
              /\ Complete(data)
           \/ /\ ~(index = 7 /\ l = 0)
              /\ length' = l
              /\ index' = index + 1
              /\ UNCHANGED <<command, data>>
              /\ More

\* Is the next byte the last one of the data?  The mutant asks too late.
LastByte_Late == index - 8 = length
LastByte == index - 7 = length

\* consume: one of the length data bytes.
ConsumeData ==
    /\ index >= 8
    /\ index - 8 < length
    /\ IF LastByte
       THEN Complete(Append(data, Input))
       ELSE /\ data' = Append(data, Input)
            /\ index' = index + 1
            /\ UNCHANGED <<command, length>>
            /\ More

\* consume: there is no data to come, the message is invalid.
ConsumeInvalid ==
    /\ index >= 8
    /\ ~(index - 8 < length)
    /\ UNCHANGED handled
    /\ Clear
    /\ Drop

\* handle_read's loop over the bytes of the last read.
Consume ==
    /\ consumed < delivered
    /\ ConsumeCommand \/ ConsumeLength \/ ConsumeData \/ ConsumeInvalid
    /\ UNCHANGED <<paced, sent, stream, delivered>>

Next ==
    \/ \E m \in Messages : Send(m)
    \/ \E n \in 1..ReadSize : Read(n)
    \/ Consume

Spec == Init /\ [][Next]_vars

-----------------------------------------------------------------------------

\* What the parser can cope with: one message at a time, no length byte that
\* is negative as a char (SignedByte).
Orderly == paced /\ \A i \in 1..Len(sent) : Len(sent[i].data) < ByteBase \div 2

\* parse is "true when a complete request has been parsed": however TCP splits
\* the stream into reads, once every byte was read, the messages handled are
\* those sent, in order, and no byte has moved to the next message.
AllHandled == Orderly /\ consumed = Len(stream) => handled = sent

\* Whatever the parser drops, resumes in the middle of, or finds invalid, it
\* never joins bytes from before and after a gap into one message: command
\* and data of a handled message stand in the stream as in the wire format.
Contiguous ==
    \A i \in 1..Len(handled) : LET h == handled[i] IN
        \E k \in 0..(Len(stream) - 8 - Len(h.data)) :
            /\ SubSeq(stream, k + 1, k + 4) = h.command
            /\ SubSeq(stream, k + 9, k + 8 + Len(h.data)) = h.data
=============================================================================
