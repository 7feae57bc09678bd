--------------------------- MODULE ClientMsg_proofs ---------------------------
(***************************************************************************)
(* Proofs about ClientMsgParser and ClientMsg: for any messages, any       *)
(* number of them, any width of a byte and any split of the stream into    *)
(* reads.                                                                  *)
(***************************************************************************)
EXTENDS ClientMsg, SequenceTheorems, TLAPS

Handled == [command : Seq(Byte), data : Seq(Byte)]

TypeInv ==
    /\ paced \in BOOLEAN
    /\ sent \in Seq(Messages) /\ stream \in Seq(Byte)
    /\ delivered \in Nat /\ delivered <= Len(stream)
    /\ consumed \in Nat /\ consumed <= delivered
    /\ index \in Nat /\ index <= consumed
    /\ command \in Seq(Byte) /\ length \in Int /\ data \in Seq(Byte)
    /\ handled \in Seq(Handled)

\* Where the message that is being parsed begins in the stream.
Base == consumed - index

\* What the parser has of a message stands in the stream as in the wire format.
PlaceInv ==
    /\ Len(command) = IF index < 4 THEN index ELSE 4
    /\ Len(data) = IF index < 8 THEN 0 ELSE index - 8
    /\ \A i \in 1..Len(command) : command[i] = stream[Base + i]
    /\ \A i \in 1..Len(data) : data[i] = stream[Base + 8 + i]

\* A message with command c and data d stands in stream s behind its first k bytes.
Stands(c, d, s, k) ==
    /\ k + 8 + Len(d) <= Len(s)
    /\ \A i \in 1..4 : s[k + i] = c[i]
    /\ \A i \in 1..Len(d) : s[k + 8 + i] = d[i]

HandledInv ==
    \A n \in 1..Len(handled) :
        /\ Len(handled[n].command) = 4
        /\ \E k \in Nat : Stands(handled[n].command, handled[n].data, stream, k)

ParserInv == TypeInv /\ PlaceInv /\ HandledInv
-----------------------------------------------------------------------------
(* The wire format. *)

LEMMA Bytes == ByteBase \in Nat /\ ByteBase > 1 /\ Byte = 0..(ByteBase - 1)
BY ByteAssumption DEF Byte

LEMMA Four == ASSUME NEW S, NEW s \in [1..4 -> S] PROVE s \in Seq(S) /\ Len(s) = 4
<1>1. s \in Seq(S)
  BY SeqDef
<1>2. Len(s) \in Nat /\ 1..Len(s) = 1..4
  BY <1>1, LenProperties
<1>3. 4 \in 1..Len(s) /\ (Len(s) > 0 => Len(s) \in 1..4)
  BY <1>2
<1> QED BY <1>1, <1>2, <1>3

LEMMA EncodeProperties ==
    ASSUME NEW m \in Messages
    PROVE  /\ Encode(m) \in Seq(Byte)
           /\ Len(Encode(m)) = 8 + Len(m.data)
           /\ \A i \in 1..4 : Encode(m)[i] = m.command[i]
           /\ \A i \in 5..7 : Encode(m)[i] = 0
           /\ Encode(m)[8] = Len(m.data)
           /\ \A i \in 1..Len(m.data) : Encode(m)[8 + i] = m.data[i]
<1> DEFINE c == m.command
           z == <<0, 0, 0, Len(m.data)>>
           d == m.data
           front == c \o z
           e == Encode(m)
<1>1. c \in Seq(Byte) /\ Len(c) = 4
  BY MessageAssumption, Four
<1>2. d \in Seq(Byte) /\ Len(d) \in Nat /\ Len(d) < ByteBase
  BY MessageAssumption, LenProperties
<1>3. z \in [1..4 -> Byte]
  BY <1>2, Bytes
<1>4. z \in Seq(Byte) /\ Len(z) = 4
  BY <1>3, Four
<1>5. z[1] = 0 /\ z[2] = 0 /\ z[3] = 0 /\ z[4] = Len(d)
  OBVIOUS
<1>6. e = front \o d
  BY DEF Encode
<1>a. front = c \o z
  OBVIOUS
<1> HIDE DEF c, z, d, e, front
<1>b. /\ front \in Seq(Byte) /\ Len(front) = 8
      /\ \A i \in 1..8 : front[i] = IF i <= 4 THEN c[i] ELSE z[i - 4]
  <2>1. /\ front \in Seq(Byte) /\ Len(front) = Len(c) + Len(z)
        /\ \A i \in 1..Len(c) + Len(z) :
               front[i] = IF i <= Len(c) THEN c[i] ELSE z[i - Len(c)]
    BY <1>1, <1>4, <1>a, ConcatProperties, Zenon
  <2> QED BY <1>1, <1>4, <2>1
<1>c. /\ e \in Seq(Byte) /\ Len(e) = 8 + Len(d)
      /\ \A i \in 1..8 + Len(d) : e[i] = IF i <= 8 THEN front[i] ELSE d[i - 8]
  <2>1. /\ e \in Seq(Byte) /\ Len(e) = Len(front) + Len(d)
        /\ \A i \in 1..Len(front) + Len(d) :
               e[i] = IF i <= Len(front) THEN front[i] ELSE d[i - Len(front)]
    BY <1>2, <1>6, <1>b, ConcatProperties, Zenon
  <2> QED BY <1>2, <1>b, <2>1
<1>7. /\ \A i \in 1..4 : e[i] = c[i] /\ e[4 + i] = z[i]
      /\ \A i \in 1..Len(d) : e[8 + i] = d[i]
  BY <1>2, <1>b, <1>c
<1>8. e[4 + 1] = 0 /\ e[4 + 2] = 0 /\ e[4 + 3] = 0 /\ e[4 + 4] = Len(d)
  BY <1>5, <1>7
<1> QED BY <1>c, <1>7, <1>8 DEF c, d, e

LEMMA Signed == \A b \in Byte : SignedByte(b) \in Int /\ (b < ByteBase \div 2 => SignedByte(b) = b)
BY ByteAssumption DEF SignedByte, Byte
-----------------------------------------------------------------------------
(* The parser, whatever it is sent. *)

LEMMA ParserInit == Init => ParserInv
<1> SUFFICES ASSUME Init PROVE ParserInv
    OBVIOUS
<1>1. TypeInv
  BY DEF Init, TypeInv
<1>2. PlaceInv
  BY DEF Init, PlaceInv, Base
<1>3. HandledInv
  BY DEF Init, HandledInv
<1> QED BY <1>1, <1>2, <1>3 DEF ParserInv

\* The byte that is parsed next.
LEMMA InputByte == TypeInv /\ consumed < delivered => Input \in Byte /\ consumed + 1 \in 1..Len(stream)
BY DEF TypeInv, Input

\* A message that is sent stands behind what was sent before.
LEMMA SendProperties ==
    ASSUME TypeInv, NEW m \in Messages, Send(m)
    PROVE  /\ stream' \in Seq(Byte) /\ Len(stream) \in Nat /\ Len(m.data) \in Nat
           /\ Len(stream') = Len(stream) + 8 + Len(m.data)
           /\ \A i \in 1..Len(stream) : stream'[i] = stream[i]
           /\ \A i \in 1..8 + Len(m.data) : stream'[Len(stream) + i] = Encode(m)[i]
<1> DEFINE e == Encode(m)
           n == Len(m.data)
<1>1. stream \in Seq(Byte) /\ Len(stream) \in Nat
  BY LenProperties DEF TypeInv
<1>2. e \in Seq(Byte) /\ Len(e) = 8 + n /\ n \in Nat
  BY EncodeProperties, MessageAssumption, LenProperties
<1>3. stream' = stream \o e
  BY DEF Send
<1> HIDE DEF e, n
<1>4. /\ stream' \in Seq(Byte) /\ Len(stream') = Len(stream) + Len(e)
      /\ \A i \in 1..Len(stream) + Len(e) :
             stream'[i] = IF i <= Len(stream) THEN stream[i] ELSE e[i - Len(stream)]
  BY <1>1, <1>2, <1>3, ConcatProperties, Zenon
<1>5. \A i \in 1..Len(stream) : stream'[i] = stream[i]
  BY <1>1, <1>2, <1>4
<1>7. ASSUME NEW i \in 1..8 + n PROVE stream'[Len(stream) + i] = e[i]
  <2>1. Len(stream) + i \in 1..Len(stream) + Len(e) /\ ~(Len(stream) + i <= Len(stream))
        /\ Len(stream) + i - Len(stream) = i
    BY <1>1, <1>2
  <2> QED BY <1>4, <2>1
<1>6. Len(stream') = Len(stream) + 8 + n
  BY <1>1, <1>2, <1>4
<1> QED BY <1>1, <1>2, <1>4, <1>5, <1>6, <1>7 DEF e, n

\* Every step keeps every variable in its type.
LEMMA TypeStep == TypeInv /\ [Next]_vars => TypeInv'
<1> SUFFICES ASSUME TypeInv, [Next]_vars PROVE TypeInv'
    OBVIOUS
<1> USE DEF TypeInv
<1>1. ASSUME NEW m \in Messages, Send(m) PROVE TypeInv'
  <2>1. sent' \in Seq(Messages)
    BY <1>1, AppendProperties DEF Send
  <2>2. stream' \in Seq(Byte) /\ Len(stream') >= Len(stream) /\ Len(stream) \in Nat /\ Len(stream') \in Nat
    <3>1. /\ stream' \in Seq(Byte) /\ Len(stream) \in Nat /\ Len(m.data) \in Nat
          /\ Len(stream') = Len(stream) + 8 + Len(m.data)
      BY <1>1, SendProperties, Zenon
    <3> DEFINE n == Len(m.data)
    <3>2. n \in Nat /\ Len(stream) \in Nat /\ Len(stream') = Len(stream) + 8 + n
      BY <3>1
    <3> HIDE DEF n
    <3>3. Len(stream') >= Len(stream) /\ Len(stream) \in Nat /\ Len(stream') \in Nat
      BY <3>2
    <3> QED BY <3>1, <3>3, Zenon
  <2> QED BY <1>1, <2>1, <2>2 DEF Send, message
<1>2. ASSUME NEW n \in 1..ReadSize, Read(n) PROVE TypeInv'
  <2>1. n \in Nat /\ Len(stream) \in Nat
    BY BoundAssumption, LenProperties
  <2> QED BY <1>2, <2>1 DEF Read, message
<1>3. CASE Consume
  <2>1. Input \in Byte /\ Len(stream) \in Nat
    BY <1>3, InputByte, LenProperties DEF Consume
  <2>2. SignedByte(Input) \in Int /\ ByteBase \in Nat
    BY <2>1, Signed, Bytes
  <2>3. ASSUME NEW d \in Seq(Byte), Complete(d), UNCHANGED <<paced, sent, stream, delivered>> PROVE TypeInv'
    <3>1. [command |-> command, data |-> d] \in Handled
      BY DEF Handled
    <3>2. handled' \in Seq(Handled)
      BY <2>3, <3>1, AppendProperties DEF Complete
    <3> QED BY <2>3, <3>2 DEF Complete, Clear, Drop
  <2>4. CASE ConsumeCommand
    <3>1. command' \in Seq(Byte)
      BY <2>1, <2>4, AppendProperties DEF ConsumeCommand
    <3>2. length' \in Int
      BY <2>4 DEF ConsumeCommand
    <3> QED BY <1>3, <2>1, <2>4, <3>1, <3>2 DEF ConsumeCommand, More, Consume
  <2>5. CASE ConsumeLength
    <3> DEFINE l == length * ByteBase + SignedByte(Input)
    <3>1. l \in Int
      BY <2>2
    <3>2. \/ Complete(data)
          \/ length' = l /\ index' = index + 1 /\ UNCHANGED <<command, data>> /\ More
      BY <2>5 DEF ConsumeLength
    <3> HIDE DEF l
    <3> QED BY <1>3, <2>1, <2>3, <3>1, <3>2 DEF More, Consume
  <2>6. CASE ConsumeData
    <3>1. Append(data, Input) \in Seq(Byte)
      BY <2>1, AppendProperties
    <3>2. UNCHANGED <<paced, sent, stream, delivered>> /\ consumed < delivered
      BY <1>3 DEF Consume
    <3>3. CASE LastByte
      BY <2>3, <2>6, <3>1, <3>2, <3>3 DEF ConsumeData
    <3>4. CASE ~LastByte
      <4>1. data' = Append(data, Input) /\ index' = index + 1
            /\ UNCHANGED <<command, length, handled>> /\ consumed' = consumed + 1
        BY <2>6, <3>4 DEF ConsumeData, More
      <4> QED BY <2>1, <3>1, <3>2, <4>1
    <3> QED BY <3>3, <3>4
  <2>7. CASE ConsumeInvalid
    BY <1>3, <2>1, <2>7 DEF ConsumeInvalid, Clear, Drop, Consume
  <2> QED BY <1>3, <2>4, <2>5, <2>6, <2>7 DEF Consume
<1>4. CASE UNCHANGED vars
  BY <1>4 DEF vars, message
<1> QED BY <1>1, <1>2, <1>3, <1>4 DEF Next

\* Each byte is put behind those of its message.
LEMMA PlaceStep == TypeInv /\ PlaceInv /\ [Next]_vars => PlaceInv'
<1> SUFFICES ASSUME TypeInv, PlaceInv, [Next]_vars PROVE PlaceInv'
    OBVIOUS
<1>0. /\ consumed \in Nat /\ index \in Nat /\ index <= consumed /\ consumed <= delivered
      /\ delivered \in Nat /\ delivered <= Len(stream) /\ Len(stream) \in Nat
      /\ Len(command) \in Nat /\ Len(data) \in Nat /\ command \in Seq(Byte) /\ data \in Seq(Byte)
  BY LenProperties DEF TypeInv
<1>a. command \in Seq(Byte) /\ data \in Seq(Byte)
  BY DEF TypeInv
<1>1. ASSUME NEW m \in Messages, Send(m) PROVE PlaceInv'
  <2>1. \A i \in 1..Len(stream) : stream'[i] = stream[i]
    BY <1>1, SendProperties, Zenon
  <2>2. UNCHANGED <<consumed, index, command, data>>
    BY <1>1 DEF Send, message
  <2>3. \A i \in 1..Len(command) : Base + i \in 1..Len(stream)
    BY <1>0 DEF PlaceInv, Base
  <2>4. \A i \in 1..Len(data) : Base + 8 + i \in 1..Len(stream)
    BY <1>0 DEF PlaceInv, Base
  <2> QED BY <2>1, <2>2, <2>3, <2>4 DEF PlaceInv, Base
<1>2. ASSUME NEW n \in 1..ReadSize, Read(n) PROVE PlaceInv'
  BY <1>2 DEF Read, message, PlaceInv, Base
<1>3. CASE Consume
  <2>1. Input \in Byte /\ Input = stream[consumed + 1] /\ stream' = stream
    BY <1>3, InputByte DEF Consume, Input
  <2>2. ASSUME Clear PROVE PlaceInv'
    BY <2>2 DEF Clear, PlaceInv
  <2>3. CASE ConsumeCommand
    <3>1. /\ command' = Append(command, Input) /\ data' = data /\ index < 4
          /\ index' = index + 1 /\ consumed' = consumed + 1
      BY <2>3 DEF ConsumeCommand, More
    <3> DEFINE c == Append(command, Input)
    <3>a. /\ Len(c) = Len(command) + 1
          /\ \A i \in 1..Len(command) : c[i] = command[i]
          /\ c[Len(command) + 1] = Input
      BY <1>a, <2>1, AppendProperties
    <3>2. /\ Len(command') = Len(command) + 1
          /\ \A i \in 1..Len(command) : command'[i] = command[i]
          /\ command'[Len(command) + 1] = Input
      BY <3>1, <3>a, Zenon
    <3>3. Len(command) = index /\ Len(data) = 0
      BY <1>0, <3>1 DEF PlaceInv
    <3>4. Base' = Base /\ Base + (index + 1) = consumed + 1
      BY <1>0, <3>1 DEF Base
    <3>5. \A i \in 1..Len(command') : command'[i] = stream[Base + i]
      BY <1>0, <2>1, <3>2, <3>3, <3>4 DEF PlaceInv
    <3> QED BY <1>0, <2>1, <3>1, <3>2, <3>3, <3>4, <3>5 DEF PlaceInv
  <2>4. CASE ConsumeLength
    <3>1. Clear \/ /\ UNCHANGED <<command, data>> /\ index \in 4..7
                   /\ index' = index + 1 /\ consumed' = consumed + 1
      BY <2>4 DEF ConsumeLength, More, Complete
    <3>2. ASSUME UNCHANGED <<command, data>>, index \in 4..7, index' = index + 1, consumed' = consumed + 1
          PROVE  PlaceInv'
      <4>1. Base' = Base
        BY <1>0, <3>2 DEF Base
      <4>2. Len(command) = 4 /\ Len(data) = 0
        BY <1>0, <3>2 DEF PlaceInv
      <4>3. index' >= 4 /\ (IF index' < 8 THEN 0 ELSE index' - 8) = 0
        BY <1>0, <3>2
      <4>4. /\ Len(command') = IF index' < 4 THEN index' ELSE 4
            /\ Len(data') = IF index' < 8 THEN 0 ELSE index' - 8
        BY <3>2, <4>2, <4>3
      <4> QED BY <2>1, <3>2, <4>1, <4>4 DEF PlaceInv
    <3> QED BY <2>2, <3>1, <3>2
  <2>5. CASE ConsumeData
    <3>1. Clear \/ /\ data' = Append(data, Input) /\ command' = command /\ index >= 8
                   /\ index' = index + 1 /\ consumed' = consumed + 1
      BY <2>5 DEF ConsumeData, More, Complete
    <3>2. ASSUME data' = Append(data, Input), command' = command, index >= 8,
                 index' = index + 1, consumed' = consumed + 1
          PROVE  PlaceInv'
      <4> DEFINE d == Append(data, Input)
      <4>a. /\ Len(d) = Len(data) + 1
            /\ \A i \in 1..Len(data) : d[i] = data[i]
            /\ d[Len(data) + 1] = Input
        BY <1>a, <2>1, AppendProperties
      <4>2. /\ Len(data') = Len(data) + 1
            /\ \A i \in 1..Len(data) : data'[i] = data[i]
            /\ data'[Len(data) + 1] = Input
        BY <3>2, <4>a, Zenon
      <4>3. Len(data) = index - 8 /\ Len(command) = 4
        BY <1>0, <3>2 DEF PlaceInv
      <4>4. Base' = Base /\ Base + 8 + (index - 7) = consumed + 1
        BY <1>0, <3>2 DEF Base
      <4>5. \A i \in 1..Len(data') : data'[i] = stream[Base + 8 + i]
        BY <1>0, <2>1, <3>2, <4>2, <4>3, <4>4 DEF PlaceInv
      <4>6. Len(data') = index' - 8 /\ index' > 8
        BY <1>0, <3>2, <4>2, <4>3
      <4>7. /\ Len(command') = IF index' < 4 THEN index' ELSE 4
            /\ Len(data') = IF index' < 8 THEN 0 ELSE index' - 8
        BY <3>2, <4>3, <4>6
      <4>8. \A i \in 1..Len(command') : command'[i] = stream'[Base' + i]
        BY <2>1, <3>2, <4>4 DEF PlaceInv
      <4> QED BY <2>1, <4>4, <4>5, <4>7, <4>8 DEF PlaceInv
    <3> QED BY <2>2, <3>1, <3>2
  <2>6. CASE ConsumeInvalid
    BY <2>2, <2>6 DEF ConsumeInvalid
  <2> QED BY <1>3, <2>3, <2>4, <2>5, <2>6 DEF Consume
<1>4. CASE UNCHANGED vars
  BY <1>4 DEF vars, message, PlaceInv, Base
<1> QED BY <1>1, <1>2, <1>3, <1>4 DEF Next

\* A message that is handled was put together behind Base.
LEMMA CompleteStands ==
    TypeInv /\ PlaceInv /\ Consume /\ handled' # handled =>
        \E d \in Seq(Byte) :
            /\ handled' = Append(handled, [command |-> command, data |-> d])
            /\ Len(command) = 4
            /\ Stands(command, d, stream, Base)
<1> SUFFICES ASSUME TypeInv, PlaceInv, Consume, handled' # handled
             PROVE  \E d \in Seq(Byte) :
                        /\ handled' = Append(handled, [command |-> command, data |-> d])
                        /\ Len(command) = 4
                        /\ Stands(command, d, stream, Base)
    OBVIOUS
<1>0. /\ consumed \in Nat /\ index \in Nat /\ index <= consumed /\ consumed < delivered
      /\ delivered \in Nat /\ delivered <= Len(stream) /\ Len(stream) \in Nat
      /\ Len(data) \in Nat /\ data \in Seq(Byte)
  BY LenProperties DEF TypeInv, Consume
<1>1. Input \in Byte /\ Input = stream[consumed + 1]
  BY InputByte DEF Consume, Input
<1>2. CASE ConsumeLength
  <2>1. index = 7 /\ Complete(data)
    BY <1>2 DEF ConsumeLength, More
  <2>2. Len(command) = 4 /\ Len(data) = 0
    BY <1>0, <2>1 DEF PlaceInv
  <2>3. Stands(command, data, stream, Base)
    BY <1>0, <2>1, <2>2 DEF PlaceInv, Stands, Base
  <2> QED BY <1>0, <2>1, <2>2, <2>3 DEF Complete
<1>3. CASE ConsumeData
  <2> DEFINE d == Append(data, Input)
  <2>1. index >= 8 /\ Complete(d)
    BY <1>3 DEF ConsumeData, More
  <2>2. /\ d \in Seq(Byte) /\ Len(d) = Len(data) + 1
        /\ \A i \in 1..Len(data) : d[i] = data[i]
        /\ d[Len(data) + 1] = Input
    BY <1>1, AppendProperties DEF TypeInv
  <2> HIDE DEF d
  <2>3. Len(command) = 4 /\ Len(data) = index - 8
    BY <1>0, <2>1 DEF PlaceInv
  <2>4. Base + 8 + (index - 7) = consumed + 1 /\ Base \in Nat
    BY <1>0 DEF Base
  <2>5. \A i \in 1..Len(d) : d[i] = stream[Base + 8 + i]
    BY <1>0, <1>1, <2>2, <2>3, <2>4 DEF PlaceInv
  <2>6. Stands(command, d, stream, Base)
    BY <1>0, <2>1, <2>2, <2>3, <2>4, <2>5 DEF PlaceInv, Stands
  <2> QED BY <2>1, <2>2, <2>3, <2>6 DEF Complete
<1> QED BY <1>2, <1>3 DEF Consume, ConsumeCommand, ConsumeInvalid, More

LEMMA HandledData ==
    TypeInv => /\ Len(handled) \in Nat
               /\ \A n \in 1..Len(handled) : /\ handled[n].command \in Seq(Byte)
                                              /\ handled[n].data \in Seq(Byte)
                                              /\ Len(handled[n].data) \in Nat
<1> SUFFICES ASSUME TypeInv
             PROVE  /\ Len(handled) \in Nat
                    /\ \A n \in 1..Len(handled) : /\ handled[n].command \in Seq(Byte)
                                                   /\ handled[n].data \in Seq(Byte)
                                                   /\ Len(handled[n].data) \in Nat
    OBVIOUS
<1>1. handled \in Seq(Handled) /\ Len(handled) \in Nat
  BY LenProperties DEF TypeInv
<1>2. ASSUME NEW n \in 1..Len(handled)
      PROVE  /\ handled[n].command \in Seq(Byte)
             /\ handled[n].data \in Seq(Byte)
             /\ Len(handled[n].data) \in Nat
  <2>1. handled[n] \in Handled
    BY <1>1, ElementOfSeq
  <2> QED BY <2>1, LenProperties DEF Handled
<1> QED BY <1>1, <1>2

LEMMA HandledStep == ParserInv /\ [Next]_vars => HandledInv'
<1> SUFFICES ASSUME ParserInv, [Next]_vars PROVE HandledInv'
    OBVIOUS
<1> USE DEF ParserInv
<1>0. /\ handled \in Seq(Handled) /\ Len(handled) \in Nat /\ stream \in Seq(Byte) /\ Len(stream) \in Nat
  BY LenProperties DEF TypeInv
<1>1. ASSUME NEW m \in Messages, Send(m) PROVE HandledInv'
  <2>1. handled' = handled
    BY <1>1 DEF Send
  <2>2. /\ Len(stream) <= Len(stream') /\ Len(stream') \in Nat
        /\ \A i \in 1..Len(stream) : stream'[i] = stream[i]
    <3> DEFINE k == Len(m.data)
    <3>1. k \in Nat /\ Len(stream') = Len(stream) + 8 + k
      BY <1>1, SendProperties, Zenon DEF ParserInv
    <3> HIDE DEF k
    <3>2. Len(stream) <= Len(stream') /\ Len(stream') \in Nat
      BY <1>0, <3>1
    <3>3. \A i \in 1..Len(stream) : stream'[i] = stream[i]
      BY <1>1, SendProperties, Zenon DEF ParserInv
    <3> QED BY <3>2, <3>3
  <2>3. ASSUME NEW n \in 1..Len(handled), NEW k \in Nat,
               Stands(handled[n].command, handled[n].data, stream, k)
        PROVE  Stands(handled[n].command, handled[n].data, stream', k)
    <3> DEFINE c == handled[n].command
               d == handled[n].data
    <3>1. Len(d) \in Nat
      BY HandledData
    <3>2. Stands(c, d, stream, k)
      BY <2>3
    <3> HIDE DEF c, d
    <3>3. k + 8 + Len(d) <= Len(stream')
      BY <1>0, <2>2, <3>1, <3>2 DEF Stands
    <3>4. ASSUME NEW i \in 1..4 PROVE stream'[k + i] = c[i]
      <4>1. k + i \in 1..Len(stream)
        BY <1>0, <3>1, <3>2 DEF Stands
      <4> QED BY <2>2, <3>2, <4>1 DEF Stands
    <3>5. \A i \in 1..Len(d) : stream'[k + 8 + i] = d[i]
      BY <1>0, <2>2, <3>1, <3>2 DEF Stands
    <3> QED BY <3>3, <3>4, <3>5 DEF Stands, c, d
  <2> QED BY <2>1, <2>3 DEF HandledInv
<1>2. CASE Consume
  <2>1. stream' = stream
    BY <1>2 DEF Consume
  <2>2. CASE handled' = handled
    BY <2>1, <2>2 DEF HandledInv
  <2>3. CASE handled' # handled
    <3>1. PICK d \in Seq(Byte) :
              /\ handled' = Append(handled, [command |-> command, data |-> d])
              /\ Len(command) = 4
              /\ Stands(command, d, stream, Base)
      BY <1>2, <2>3, CompleteStands
    <3> DEFINE h == [command |-> command, data |-> d]
    <3>2. h \in Handled /\ h.command = command /\ h.data = d
      BY DEF TypeInv, Handled
    <3>3. handled' = Append(handled, h)
      BY <3>1
    <3> HIDE DEF h
    <3>4. /\ Len(handled') = Len(handled) + 1
          /\ \A n \in 1..Len(handled) : handled'[n] = handled[n]
          /\ handled'[Len(handled) + 1] = h
      BY <1>0, <3>2, <3>3, AppendProperties
    <3>5. Base \in Nat
      BY DEF TypeInv, Base
    <3>6. Len(h.command) = 4 /\ \E k \in Nat : Stands(h.command, h.data, stream, k)
      BY <3>1, <3>2, <3>5
    <3>7. ASSUME NEW n \in 1..Len(handled')
          PROVE  /\ Len(handled'[n].command) = 4
                 /\ \E k \in Nat : Stands(handled'[n].command, handled'[n].data, stream, k)
      <4>1. n \in 1..Len(handled) \/ n = Len(handled) + 1
        BY <1>0, <3>4
      <4>2. CASE n \in 1..Len(handled)
        <5>1. handled'[n] = handled[n]
          BY <3>4, <4>2
        <5> QED BY <4>2, <5>1 DEF HandledInv
      <4>3. CASE n = Len(handled) + 1
        BY <3>4, <3>6, <4>3
      <4> QED BY <4>1, <4>2, <4>3
    <3> QED BY <2>1, <3>7 DEF HandledInv
  <2> QED BY <2>2, <2>3
<1>3. CASE (\E n \in 1..ReadSize : Read(n)) \/ UNCHANGED vars
  BY <1>3 DEF Read, vars, HandledInv
<1> QED BY <1>1, <1>2, <1>3 DEF Next

LEMMA Parsed == Spec => []ParserInv
<1>1. ParserInv /\ [Next]_vars => ParserInv'
  BY TypeStep, PlaceStep, HandledStep DEF ParserInv
<1> QED BY <1>1, ParserInit, PTL DEF Spec

\* A piece of a sequence, given by its elements.
LEMMA Piece ==
    ASSUME NEW S, NEW s \in Seq(S), NEW p \in Seq(S), NEW k \in Nat, NEW n \in Nat,
           Len(p) = n, k + n <= Len(s), \A i \in 1..n : s[k + i] = p[i]
    PROVE  SubSeq(s, k + 1, k + n) = p
<1> DEFINE q == SubSeq(s, k + 1, k + n)
<1>0. Len(s) \in Nat
  BY LenProperties
<1>1. \A i \in (k + 1)..(k + n) : s[i] \in S
  <2>1. \A i \in 1..Len(s) : s[i] \in S
    BY ElementOfSeq
  <2> QED BY <1>0, <2>1
<1>2. /\ q \in Seq(S)
      /\ Len(q) = IF k + 1 <= k + n THEN (k + n) - (k + 1) + 1 ELSE 0
      /\ \A i \in 1..((k + n) - (k + 1) + 1) : q[i] = s[(k + 1) + i - 1]
  BY <1>1, SubSeqProperties
<1> HIDE DEF q
<1>3. Len(q) = n
  BY <1>2
<1>4. \A i \in 1..n : q[i] = s[k + i]
  BY <1>2
<1>5. q = p
  BY <1>2, <1>3, <1>4, SeqEqual
<1> QED BY <1>5 DEF q

\* Whatever the player sends, and however its bytes are split into reads, the
\* parser never joins bytes from before and after a gap: command and data of
\* each message that is handled stand in the stream as in the wire format.
THEOREM ContiguousAlways == Spec => []Contiguous
<1>1. ParserInv => Contiguous
  <2> SUFFICES ASSUME ParserInv, NEW n \in 1..Len(handled)
               PROVE  \E k \in 0..(Len(stream) - 8 - Len(handled[n].data)) :
                          /\ SubSeq(stream, k + 1, k + 4) = handled[n].command
                          /\ SubSeq(stream, k + 9, k + 8 + Len(handled[n].data)) = handled[n].data
      BY DEF Contiguous
  <2> DEFINE c == handled[n].command
             d == handled[n].data
  <2>1. c \in Seq(Byte) /\ d \in Seq(Byte) /\ stream \in Seq(Byte)
    BY HandledData DEF ParserInv, TypeInv
  <2>2. PICK k \in Nat : Len(c) = 4 /\ Stands(c, d, stream, k)
    BY DEF ParserInv, HandledInv
  <2> HIDE DEF c, d
  <2>3. Len(stream) \in Nat /\ Len(d) \in Nat
    BY <2>1, LenProperties
  <2>4. SubSeq(stream, k + 1, k + 4) = c
    <3>1. Len(c) = 4 /\ k + 4 <= Len(stream) /\ \A i \in 1..4 : stream[k + i] = c[i]
      BY <2>2, <2>3 DEF Stands
    <3>2. 4 \in Nat
      OBVIOUS
    <3> QED BY <2>1, <3>1, <3>2, Piece
  <2>5. SubSeq(stream, (k + 8) + 1, (k + 8) + Len(d)) = d
    <3>1. k + 8 \in Nat /\ (k + 8) + Len(d) <= Len(stream)
          /\ \A i \in 1..Len(d) : stream[(k + 8) + i] = d[i]
      BY <2>2, <2>3 DEF Stands
    <3> QED BY <2>1, <2>3, <3>1, Piece
  <2>6. k \in 0..(Len(stream) - 8 - Len(d)) /\ (k + 8) + 1 = k + 9
    BY <2>2, <2>3 DEF Stands
  <2> QED BY <2>4, <2>5, <2>6 DEF c, d
<1> QED BY <1>1, Parsed, PTL
-----------------------------------------------------------------------------
(* The parser with an orderly player. *)

LastSent == sent[Len(sent)]
Start == Len(stream) - 8 - Len(LastSent.data)

\* The message sent last has not been read to its end: it is the one that is
\* parsed, and those before it were handled.
OneToCome ==
    /\ Len(sent) > 0 /\ Len(handled) = Len(sent) - 1
    /\ \A n \in 1..Len(handled) : handled[n] = sent[n]
    /\ Base = Start /\ index < 8 + Len(LastSent.data)
    /\ \A i \in 1..4 : stream[Start + i] = LastSent.command[i]
    /\ \A i \in 5..7 : stream[Start + i] = 0
    /\ stream[Start + 8] = Len(LastSent.data)
    /\ \A i \in 1..Len(LastSent.data) : stream[Start + 8 + i] = LastSent.data[i]
    /\ length = IF index < 8 THEN 0 ELSE Len(LastSent.data)

OrderInv ==
    Orderly => IF consumed = Len(stream) THEN handled = sent /\ index = 0 /\ length = 0
                                         ELSE OneToCome

LEMMA MessageParts ==
    \A m \in Messages : /\ m.command \in Seq(Byte) /\ Len(m.command) = 4
                        /\ m.data \in Seq(Byte) /\ Len(m.data) \in Nat /\ Len(m.data) \in Byte
                        /\ m = [command |-> m.command, data |-> m.data]
<1> SUFFICES ASSUME NEW m \in Messages
             PROVE  /\ m.command \in Seq(Byte) /\ Len(m.command) = 4
                    /\ m.data \in Seq(Byte) /\ Len(m.data) \in Nat /\ Len(m.data) \in Byte
                    /\ m = [command |-> m.command, data |-> m.data]
    OBVIOUS
<1>1. m.command \in [1..4 -> Byte] /\ m.data \in Seq(Byte)
  BY MessageAssumption
<1>2. m.command \in Seq(Byte) /\ Len(m.command) = 4
  BY <1>1, Four
<1>3. Len(m.data) \in Nat
  BY <1>1, LenProperties
<1>4. Len(m.data) \in Byte
  BY <1>3, MessageAssumption, Bytes
<1>5. m = [command |-> m.command, data |-> m.data]
  BY MessageAssumption
<1> QED BY <1>1, <1>2, <1>3, <1>4, <1>5

\* When the last byte of the message is there, it is the one that was sent.
LEMMA Completion ==
    ASSUME TypeInv, OneToCome, NEW d \in Seq(Byte), Len(d) = Len(LastSent.data), Len(command) = 4,
           Stands(command, d, stream, Base),
           handled' = Append(handled, [command |-> command, data |-> d])
    PROVE  handled' = sent
<1> DEFINE m == LastSent
           h == [command |-> command, data |-> d]
<1>1. /\ sent \in Seq(Messages) /\ Len(sent) \in Nat /\ handled \in Seq(Handled) /\ Len(handled) \in Nat
      /\ command \in Seq(Byte)
  BY LenProperties DEF TypeInv
<1>2. Len(sent) \in 1..Len(sent) /\ m \in Messages
  BY <1>1, ElementOfSeq DEF OneToCome, LastSent
<1>3. /\ m.command \in Seq(Byte) /\ Len(m.command) = 4
      /\ m.data \in Seq(Byte) /\ Len(m.data) \in Nat
      /\ m = [command |-> m.command, data |-> m.data]
  BY <1>2, MessageParts
<1>4. command = m.command
  <2>1. \A i \in 1..4 : command[i] = m.command[i]
    BY DEF OneToCome, Stands
  <2> QED BY <1>1, <1>3, <2>1, SeqEqual
<1>5. d = m.data
  <2>1. Base = Start /\ Base + 8 = Start + 8
    BY DEF OneToCome
  <2>2. \A i \in 1..Len(d) : stream[Base + 8 + i] = m.data[i]
    BY <2>1 DEF OneToCome
  <2>3. \A i \in 1..Len(d) : d[i] = m.data[i]
    BY <2>2 DEF Stands
  <2> QED BY <1>3, <2>3, SeqEqual
<1>6. h = m
  BY <1>3, <1>4, <1>5
<1> HIDE DEF m
<1>7. h \in Handled
  BY <1>1 DEF Handled
<1>8. handled' = Append(handled, h)
  OBVIOUS
<1> HIDE DEF h
<1>9. /\ handled' \in Seq(Handled) /\ Len(handled') = Len(handled) + 1
      /\ \A n \in 1..Len(handled) : handled'[n] = handled[n]
      /\ handled'[Len(handled) + 1] = h
  BY <1>1, <1>7, <1>8, AppendProperties
<1>10. Len(handled') = Len(sent)
  BY <1>1, <1>9 DEF OneToCome
<1>11. ASSUME NEW n \in 1..Len(handled') PROVE handled'[n] = sent[n]
  <2>1. CASE n \in 1..Len(handled)
    BY <1>9, <2>1 DEF OneToCome
  <2>2. CASE n = Len(sent)
    BY <1>1, <1>6, <1>9, <2>2 DEF OneToCome, m, LastSent
  <2> QED BY <1>1, <1>9, <1>10, <2>1, <2>2 DEF OneToCome
<1>12. sent \in Seq(Messages \cup Handled) /\ handled' \in Seq(Messages \cup Handled)
  BY <1>1, <1>9, SeqMonotonic
<1> QED BY <1>10, <1>11, <1>12, SeqEqual

LEMMA OrderStep == ParserInv /\ OrderInv /\ [Next]_vars => OrderInv'
<1> SUFFICES ASSUME ParserInv, OrderInv, [Next]_vars, Orderly'
             PROVE  (IF consumed = Len(stream) THEN handled = sent /\ index = 0 /\ length = 0
                                               ELSE OneToCome)'
    BY DEF OrderInv
<1> DEFINE Read1 == consumed = Len(stream) /\ handled = sent /\ index = 0 /\ length = 0
           ToRead == consumed # Len(stream) /\ OneToCome
<1> SUFFICES Read1' \/ ToRead'
    OBVIOUS
<1>0. /\ TypeInv /\ PlaceInv
      /\ sent \in Seq(Messages) /\ Len(sent) \in Nat /\ Len(stream) \in Nat
      /\ consumed \in Nat /\ index \in Nat /\ index <= consumed
      /\ delivered \in Nat /\ consumed <= delivered /\ delivered <= Len(stream)
  BY LenProperties DEF ParserInv, TypeInv
<1>1. ASSUME NEW m \in Messages, Send(m) PROVE ToRead'
  <2> DEFINE k == Len(m.data)
  <2>1. /\ Len(sent') = Len(sent) + 1 /\ sent'[Len(sent) + 1] = m
        /\ \A n \in 1..Len(sent) : sent'[n] = sent[n]
    BY <1>0, <1>1, AppendProperties DEF Send
  <2>2. Orderly /\ consumed = Len(stream)
    <3>1. paced /\ consumed = Len(stream)
      BY <1>1 DEF Orderly, Send
    <3>2. ASSUME NEW i \in 1..Len(sent) PROVE Len(sent[i].data) < ByteBase \div 2
      <4>1. i \in 1..Len(sent') /\ sent'[i] = sent[i]
        BY <1>0, <2>1
      <4>2. Len(sent'[i].data) < ByteBase \div 2
        BY <4>1 DEF Orderly
      <4> QED BY <4>1, <4>2
    <3> QED BY <3>1, <3>2 DEF Orderly
  <2>3. handled = sent /\ index = 0 /\ length = 0
    BY <2>2 DEF OrderInv
  <2>4. k \in Nat /\ Len(stream') = Len(stream) + 8 + k
    BY <1>0, <1>1, SendProperties, Zenon
  <2>5. \A i \in 1..8 + k : stream'[Len(stream) + i] = Encode(m)[i]
    BY <1>0, <1>1, SendProperties, Zenon
  <2>6. LastSent' = m
    BY <2>1 DEF LastSent
  <2>7. /\ \A i \in 1..4 : Encode(m)[i] = m.command[i]
        /\ \A i \in 5..7 : Encode(m)[i] = 0
        /\ Encode(m)[8] = k
        /\ \A i \in 1..k : Encode(m)[8 + i] = m.data[i]
    BY EncodeProperties, Zenon
  <2>8. /\ UNCHANGED <<index, length, handled, consumed>>
    BY <1>1 DEF Send, message
  <2> HIDE DEF k
  <2>9. Start' = Len(stream)
    <3>1. Start' = Len(stream') - 8 - k
      BY <2>6, Zenon DEF Start, k
    <3> QED BY <1>0, <2>4, <3>1
  <2>10. Base' = Len(stream)
    BY <1>0, <2>2, <2>3, <2>8 DEF Base
  <2>11. /\ \A i \in 1..4 : stream'[Len(stream) + i] = m.command[i]
         /\ \A i \in 5..7 : stream'[Len(stream) + i] = 0
         /\ stream'[Len(stream) + 8] = k
         /\ \A i \in 1..k : stream'[Len(stream) + 8 + i] = m.data[i]
    <3>1. ASSUME NEW i \in 1..k PROVE stream'[Len(stream) + 8 + i] = m.data[i]
      <4>1. 8 + i \in 1..8 + k /\ Len(stream) + 8 + i = Len(stream) + (8 + i)
        BY <1>0, <2>4
      <4> QED BY <2>5, <2>7, <4>1
    <3>2. \A i \in 1..8 : stream'[Len(stream) + i] = Encode(m)[i]
      BY <2>4, <2>5
    <3> QED BY <2>7, <3>1, <3>2
  <2>12. index' < 8 + k /\ length' = 0 /\ index' < 8
    BY <2>3, <2>4, <2>8
  <2>13. /\ Len(sent') > 0 /\ Len(handled') = Len(sent') - 1
         /\ \A n \in 1..Len(handled') : handled'[n] = sent'[n]
    BY <1>0, <2>1, <2>3, <2>8
  <2>14. OneToCome'
    BY <2>6, <2>9, <2>10, <2>11, <2>12, <2>13 DEF OneToCome, k
  <2>15. consumed' # Len(stream')
    BY <1>0, <2>2, <2>4, <2>8
  <2> QED BY <2>14, <2>15
<1>2. CASE (\E n \in 1..ReadSize : Read(n)) \/ UNCHANGED vars
  <2>1. UNCHANGED <<paced, sent, stream, consumed, index, length, handled>>
    BY <1>2 DEF Read, vars, message
  <2>2. Read1 \/ ToRead
    BY <2>1 DEF Orderly, OrderInv
  <2> QED BY <2>1, <2>2 DEF OneToCome, LastSent, Start, Base
<1>3. CASE Consume
  <2>0. /\ UNCHANGED <<sent, stream>> /\ consumed < delivered /\ consumed # Len(stream) /\ Orderly
        /\ consumed < Len(stream)
    BY <1>0, <1>3 DEF Consume, Orderly
  <2> DEFINE m == LastSent
             k == Len(m.data)
  <2>1. OneToCome
    BY <2>0 DEF OrderInv
  <2>2. m \in Messages /\ k \in Nat /\ k \in Byte /\ k < ByteBase \div 2
    <3>1. Len(sent) \in 1..Len(sent) /\ m \in Messages
      <4>1. Len(sent) > 0
        BY <2>1 DEF OneToCome
      <4>2. Len(sent) \in 1..Len(sent)
        BY <1>0, <4>1
      <4> QED BY <1>0, <4>2, ElementOfSeq DEF LastSent
    <3>2. k < ByteBase \div 2
      BY <2>0, <3>1 DEF Orderly, LastSent
    <3> QED BY <3>1, <3>2, MessageParts
  <2>3. LastSent' = m /\ Start' = Start
    BY <2>0 DEF LastSent, Start
  <2>4. /\ Base = Start /\ index < 8 + k /\ stream[Start + 8] = k
        /\ \A i \in 5..7 : stream[Start + i] = 0
        /\ length = IF index < 8 THEN 0 ELSE k
        /\ Start = Len(stream) - 8 - k
    BY <2>1 DEF OneToCome, Start
  <2>5. consumed + 1 = Start + (index + 1) /\ Start \in Int /\ Input = stream[Start + (index + 1)]
    <3> HIDE DEF k
    <3>1. consumed + 1 = Start + (index + 1) /\ Start \in Int
      <4>1. consumed - index = Start
        BY <2>4 DEF Base
      <4> QED BY <1>0, <4>1
    <3> QED BY <3>1 DEF Input
  <2> HIDE DEF k
  \* One byte more, and more to come.
  <2>6. ASSUME handled' = handled, index' = index + 1, consumed' = consumed + 1, index' < 8 + k,
               length' = IF index' < 8 THEN 0 ELSE k
        PROVE  ToRead'
    <3>1. Base' = Start
      BY <1>0, <2>4, <2>6 DEF Base
    <3>2. consumed' # Len(stream')
      BY <1>0, <2>0, <2>2, <2>4, <2>5, <2>6
    <3>3. OneToCome'
      BY <2>0, <2>1, <2>3, <2>6, <3>1 DEF OneToCome, k
    <3> QED BY <3>2, <3>3
  \* The last byte.
  <2>7. ASSUME NEW d \in Seq(Byte), Complete(d), Len(d) = k, index + 1 = 8 + k, Len(command) = 4,
               Stands(command, d, stream, Base)
        PROVE  Read1'
    <3>1. handled' = sent
      BY <1>0, <2>1, <2>7, Completion DEF Complete, k
    <3>2. consumed' = Len(stream)
      BY <1>0, <2>0, <2>2, <2>4, <2>5, <2>7 DEF Complete, Drop
    <3> QED BY <2>0, <2>7, <3>1, <3>2 DEF Complete, Clear
  <2>8. CASE ConsumeCommand
    <3>1. handled' = handled /\ index' = index + 1 /\ consumed' = consumed + 1 /\ index < 4
          /\ length' = IF index = 3 THEN 0 ELSE length
      BY <2>8 DEF ConsumeCommand, More
    <3>2. index' < 8 + k /\ length' = 0 /\ index' < 8
      BY <1>0, <2>2, <2>4, <3>1
    <3> QED BY <2>6, <3>1, <3>2
  <2>9. CASE ConsumeLength
    <3> DEFINE l == length * ByteBase + SignedByte(Input)
    <3>1. index \in 4..7 /\ length = 0
      BY <2>4, <2>9 DEF ConsumeLength
    <3>2. l = IF index = 7 THEN k ELSE 0
      <4>1. Input = IF index = 7 THEN k ELSE 0
        BY <2>4, <2>5, <3>1
      <4>2. 0 \in Byte /\ 0 < ByteBase \div 2
        BY <2>2, Bytes
      <4>3. SignedByte(Input) = IF index = 7 THEN k ELSE 0
        BY <2>2, <4>1, <4>2, Signed
      <4>4. length * ByteBase = 0
        BY <3>1, Bytes
      <4> QED BY <2>2, <4>3, <4>4
    <3>3. \/ index = 7 /\ l = 0 /\ Complete(data)
          \/ /\ ~(index = 7 /\ l = 0) /\ length' = l /\ handled' = handled
             /\ index' = index + 1 /\ consumed' = consumed + 1
      BY <2>9 DEF ConsumeLength, More
    <3> HIDE DEF l
    <3>4. CASE index = 7 /\ l = 0 /\ Complete(data)
      <4>1. k = 0 /\ index + 1 = 8 + k
        BY <3>2, <3>4
      <4>2. handled' # handled
        <5>1. [command |-> command, data |-> data] \in Handled /\ handled \in Seq(Handled)
              /\ Len(handled) \in Nat
          BY <1>0, LenProperties DEF TypeInv, Handled
        <5>2. Len(handled') = Len(handled) + 1
          BY <3>4, <5>1, AppendProperties DEF Complete
        <5> QED BY <5>1, <5>2
      <4>3. Len(command) = 4 /\ Len(data) = 0 /\ data \in Seq(Byte)
        BY <1>0, <3>4 DEF PlaceInv, TypeInv
      <4>4. Stands(command, data, stream, Base)
        <5>1. Base + 8 + Len(data) <= Len(stream)
          BY <1>0, <2>4, <4>1, <4>3
        <5>2. \A i \in 1..4 : stream[Base + i] = command[i]
          BY <1>0, <4>3 DEF PlaceInv
        <5> QED BY <4>3, <5>1, <5>2 DEF Stands
      <4> QED BY <2>7, <3>4, <4>1, <4>3, <4>4
    <3>5. CASE ~(index = 7 /\ l = 0) /\ length' = l /\ handled' = handled
               /\ index' = index + 1 /\ consumed' = consumed + 1
      <4>1. index' < 8 + k /\ length' = IF index' < 8 THEN 0 ELSE k
        BY <2>2, <3>1, <3>2, <3>5
      <4> QED BY <2>6, <3>5, <4>1
    <3> QED BY <3>3, <3>4, <3>5
  <2>10. CASE ConsumeData
    <3>1. index >= 8 /\ length = k /\ index - 8 < k
      BY <1>0, <2>4, <2>10 DEF ConsumeData
    <3>2. CASE LastByte
      <4> DEFINE d == Append(data, Input)
      <4>1. Complete(d)
        BY <2>10, <3>2 DEF ConsumeData
      <4>2. Len(data) = index - 8 /\ Len(command) = 4 /\ data \in Seq(Byte) /\ Len(data) \in Nat
        BY <1>0, <3>1, LenProperties DEF PlaceInv, TypeInv
      <4>3. Input \in Byte
        BY <1>0, <2>0, InputByte
      <4>4. /\ d \in Seq(Byte) /\ Len(d) = Len(data) + 1
            /\ \A i \in 1..Len(data) : d[i] = data[i]
            /\ d[Len(data) + 1] = Input
        BY <4>2, <4>3, AppendProperties
      <4> HIDE DEF d
      <4>5. index - 7 = k /\ Len(d) = k /\ index + 1 = 8 + k
        BY <1>0, <3>1, <3>2, <4>2, <4>4 DEF LastByte
      <4>6. Stands(command, d, stream, Base)
        <5>1. Base + 8 + Len(d) <= Len(stream)
          BY <1>0, <2>2, <2>4, <4>5
        <5>2. \A i \in 1..4 : stream[Base + i] = command[i]
          BY <1>0, <4>2 DEF PlaceInv
        <5>3. ASSUME NEW i \in 1..Len(d) PROVE stream[Base + 8 + i] = d[i]
          <6>1. i \in 1..Len(data) \/ i = Len(data) + 1
            BY <4>2, <4>4
          <6>2. CASE i \in 1..Len(data)
            BY <1>0, <4>4, <6>2 DEF PlaceInv
          <6>3. CASE i = Len(data) + 1
            <7>1. Base + 8 + i = Start + (index + 1)
              BY <1>0, <2>4, <2>5, <4>2, <6>3
            <7> QED BY <2>5, <4>4, <6>3, <7>1
          <6> QED BY <6>1, <6>2, <6>3
        <5> QED BY <5>1, <5>2, <5>3 DEF Stands
      <4> QED BY <2>7, <4>1, <4>2, <4>4, <4>5, <4>6
    <3>3. CASE ~LastByte
      <4>1. handled' = handled /\ index' = index + 1 /\ consumed' = consumed + 1 /\ length' = length
        BY <2>10, <3>3 DEF ConsumeData, More
      <4>2. index' < 8 + k /\ length' = IF index' < 8 THEN 0 ELSE k
        BY <1>0, <2>2, <3>1, <3>3, <4>1 DEF LastByte
      <4> QED BY <2>6, <4>1, <4>2
    <3> QED BY <3>2, <3>3
  <2>11. CASE ConsumeInvalid
    BY <1>0, <2>2, <2>4, <2>11 DEF ConsumeInvalid
  <2> QED BY <1>3, <2>8, <2>9, <2>10, <2>11 DEF Consume
<1> QED BY <1>1, <1>2, <1>3 DEF Next

\* However TCP splits the stream into reads: once every byte an orderly player
\* has sent was read, the messages handled are those sent, in order.
THEOREM AllHandledAlways == Spec => []AllHandled
<1>1. Init => OrderInv
  BY DEF Init, OrderInv
<1>2. OrderInv => AllHandled
  BY DEF OrderInv, AllHandled
<1> QED BY <1>1, <1>2, OrderStep, Parsed, PTL DEF Spec
-----------------------------------------------------------------------------
(* What is made of the messages. *)

LEMMA MsgIsParser == MsgSpec => Spec
<1>1. MsgInit => Init
  BY DEF MsgInit
<1>2. [MsgNext]_msgVars => [Next]_vars
  BY DEF MsgNext, msgVars
<1> QED BY <1>1, <1>2, PTL DEF MsgSpec, Spec

\* A HELO the server can handle.
Good(d) == MacAddress(d) # <<>> /\ RevisionFits(FirmwareRevision(d))

LEMMA GoodHelo ==
    \A d \in Seq(Byte) : /\ Good(d) => /\ Len(d) \in Nat /\ Len(d) >= 8 /\ d[1] \in Byte
                                       /\ MacAddress(d) = SubSeq(d, 3, 8) /\ FirmwareRevision(d) = d[2]
                         /\ ~Good(d) => Len(d) < 8 \/ d[2] >= ByteBase \div 2
<1> SUFFICES ASSUME NEW d \in Seq(Byte)
             PROVE  /\ Good(d) => /\ Len(d) \in Nat /\ Len(d) >= 8 /\ d[1] \in Byte
                                  /\ MacAddress(d) = SubSeq(d, 3, 8) /\ FirmwareRevision(d) = d[2]
                    /\ ~Good(d) => Len(d) < 8 \/ d[2] >= ByteBase \div 2
    OBVIOUS
<1>1. Len(d) \in Nat /\ \A i \in 1..Len(d) : d[i] \in Byte
  BY LenProperties, ElementOfSeq
<1>2. CASE Len(d) < 8
  <2>1. MacAddress(d) = <<>>
    BY <1>1, <1>2 DEF MacAddress
  <2> QED BY <1>2, <2>1 DEF Good
<1>3. CASE Len(d) >= 8
  <2>1. d[1] \in Byte /\ d[2] \in Byte
    BY <1>1, <1>3
  <2>2. MacAddress(d) = SubSeq(d, 3, 8) /\ FirmwareRevision(d) = SignedByte(d[2])
    BY <1>1, <1>3 DEF MacAddress, FirmwareRevision
  <2>3. MacAddress(d) # <<>>
    <3> DEFINE mac == SubSeq(d, 3, 8)
    <3>1. \A i \in 3..8 : d[i] \in Byte
      BY <1>1, <1>3
    <3>2. Len(mac) = IF 3 <= 8 THEN 8 - 3 + 1 ELSE 0
      BY <3>1, SubSeqProperties
    <3> HIDE DEF mac
    <3>3. ASSUME mac = <<>> PROVE FALSE
      <4>1. Len(mac) = Len(<<>>)
        BY <3>3, Zenon
      <4>2. Len(mac) = 0
        BY <4>1, EmptySeq
      <4> QED BY <3>2, <4>2
    <3> QED BY <2>2, <3>3 DEF mac
  <2>4. RevisionFits(SignedByte(d[2])) <=> d[2] < ByteBase \div 2
    BY <2>1, ByteAssumption DEF RevisionFits, SignedByte, Byte
  <2>5. d[2] < ByteBase \div 2 \/ d[2] >= ByteBase \div 2
    BY <2>1, ByteAssumption DEF Byte
  <2>6. d[2] < ByteBase \div 2 => SignedByte(d[2]) = d[2]
    BY <2>1, Signed
  <2> QED BY <1>1, <1>3, <2>1, <2>2, <2>3, <2>4, <2>5, <2>6 DEF Good
<1> QED BY <1>1, <1>2, <1>3

\* A step hands on one message or none.
LEMMA OneMessage ==
    ParserInv /\ MsgNext =>
        \/ handled' = handled /\ UNCHANGED <<clients, process>>
        \/ \E h \in Handled :
              /\ handled' \in Seq(Handled) /\ Len(handled') = Len(handled) + 1
              /\ \A n \in 1..Len(handled) : handled'[n] = handled[n]
              /\ handled'[Len(handled')] = h
              /\ IF h.command = Helo THEN HandleHelo(h.data) ELSE UNCHANGED <<clients, process>>
<1> SUFFICES ASSUME ParserInv, MsgNext, ~(handled' = handled /\ UNCHANGED <<clients, process>>)
             PROVE  \E h \in Handled :
                        /\ handled' \in Seq(Handled) /\ Len(handled') = Len(handled) + 1
                        /\ \A n \in 1..Len(handled) : handled'[n] = handled[n]
                        /\ handled'[Len(handled')] = h
                        /\ IF h.command = Helo THEN HandleHelo(h.data)
                                               ELSE UNCHANGED <<clients, process>>
    OBVIOUS
<1>1. handled' # handled
  BY DEF MsgNext, HandleClientMsg
<1>2. Consume
  BY <1>1 DEF MsgNext, Next, Send, Read
<1>3. PICK d \in Seq(Byte) : handled' = Append(handled, [command |-> command, data |-> d])
  BY <1>1, <1>2, CompleteStands DEF ParserInv
<1> DEFINE h == [command |-> command, data |-> d]
<1>4. h \in Handled /\ handled \in Seq(Handled) /\ Len(handled) \in Nat
  BY LenProperties DEF Handled, ParserInv, TypeInv
<1>5. handled' = Append(handled, h)
  BY <1>3
<1> HIDE DEF h
<1>6. /\ handled' \in Seq(Handled) /\ Len(handled') = Len(handled) + 1
      /\ \A n \in 1..Len(handled) : handled'[n] = handled[n]
      /\ handled'[Len(handled) + 1] = h
  BY <1>4, <1>5, AppendProperties
<1>7. IF h.command = Helo THEN HandleHelo(h.data) ELSE UNCHANGED <<clients, process>>
  BY <1>1, <1>6 DEF MsgNext, HandleClientMsg
<1> QED BY <1>4, <1>6, <1>7

\* The HELO messages of a sequence, and the MAC address of one.
Helos(s) == {i \in 1..Len(s) : s[i].command = Helo}
Mac(s, i) == SubSeq(s[i].data, 3, 8)

\* The client list has what the messages handled so far said last.
ListInv ==
    process = "running" =>
        /\ \A i \in Helos(handled) : Good(handled[i].data)
        /\ DOMAIN clients = {Mac(handled, i) : i \in Helos(handled)}
        /\ \A i \in Helos(handled) :
              (\A j \in Helos(handled) : j > i => Mac(handled, j) # Mac(handled, i)) =>
                  clients[Mac(handled, i)] = ClientInfo(handled[i].data)

LEMMA ListStep == ParserInv /\ ListInv /\ [MsgNext]_msgVars => ListInv'
<1> SUFFICES ASSUME ParserInv, ListInv, [MsgNext]_msgVars PROVE ListInv'
    OBVIOUS
<1>1. CASE handled' = handled /\ UNCHANGED <<clients, process>>
  BY <1>1 DEF ListInv, Helos, Mac
<1>2. ASSUME MsgNext, process' = "running", NEW h \in Handled,
             handled' \in Seq(Handled), Len(handled') = Len(handled) + 1,
             \A n \in 1..Len(handled) : handled'[n] = handled[n],
             handled'[Len(handled')] = h,
             IF h.command = Helo THEN HandleHelo(h.data) ELSE UNCHANGED <<clients, process>>
      PROVE  ListInv'
  <2> DEFINE n == Len(handled) + 1
             mac == SubSeq(h.data, 3, 8)
  <2>1. process = "running" /\ Len(handled) \in Nat
    BY <1>2, LenProperties DEF MsgNext, ParserInv, TypeInv
  <2>2. /\ \A i \in Helos(handled) : Good(handled[i].data)
        /\ DOMAIN clients = {Mac(handled, i) : i \in Helos(handled)}
        /\ \A i \in Helos(handled) :
              (\A j \in Helos(handled) : j > i => Mac(handled, j) # Mac(handled, i)) =>
                  clients[Mac(handled, i)] = ClientInfo(handled[i].data)
    BY <2>1 DEF ListInv
  <2>3. \A i \in Helos(handled) : /\ i \in Helos(handled') /\ i < n /\ handled'[i] = handled[i]
                                 /\ Mac(handled', i) = Mac(handled, i)
    BY <1>2, <2>1 DEF Helos, Mac
  <2>4. CASE h.command = Helo
    <3>1. Good(h.data) /\ MacAddress(h.data) = mac
      <4>1. h.data \in Seq(Byte)
        BY DEF Handled
      <4>2. Good(h.data)
        BY <1>2, <2>1, <2>4 DEF HandleHelo, Good
      <4> QED BY <4>1, <4>2, GoodHelo
    <3>2. Helos(handled') = Helos(handled) \cup {n}
      BY <1>2, <2>1, <2>4 DEF Helos
    <3>3. Mac(handled', n) = mac /\ handled'[n] = h
      BY <1>2, <2>1 DEF Mac
    <3>4. clients' = [m \in DOMAIN clients \cup {mac} |->
                          IF m = mac THEN ClientInfo(h.data) ELSE clients[m]]
      BY <1>2, <2>4, <3>1 DEF HandleHelo, Good
    <3> HIDE DEF mac
    <3>5. \A i \in Helos(handled') : Good(handled'[i].data)
      BY <2>2, <2>3, <3>1, <3>2, <3>3
    <3>6. DOMAIN clients' = {Mac(handled', i) : i \in Helos(handled')}
      <4>1. DOMAIN clients' = DOMAIN clients \cup {mac}
        BY <3>4
      <4> QED BY <2>2, <2>3, <3>2, <3>3, <4>1
    <3>7. ASSUME NEW i \in Helos(handled'),
                 \A j \in Helos(handled') : j > i => Mac(handled', j) # Mac(handled', i)
          PROVE  clients'[Mac(handled', i)] = ClientInfo(handled'[i].data)
      <4>1. CASE i = n
        BY <3>3, <3>4, <4>1
      <4>2. CASE i \in Helos(handled)
        <5>1. n > i /\ n \in Helos(handled')
          BY <2>3, <3>2, <4>2 DEF Helos
        <5>2. Mac(handled, i) # mac
          BY <2>3, <3>3, <3>7, <4>2, <5>1
        <5>3. \A j \in Helos(handled) : j > i => Mac(handled, j) # Mac(handled, i)
          BY <2>3, <3>7, <4>2
        <5>4. clients[Mac(handled, i)] = ClientInfo(handled[i].data)
          BY <2>2, <4>2, <5>3
        <5>5. Mac(handled, i) \in DOMAIN clients
          BY <2>2, <4>2
        <5>6. clients'[Mac(handled, i)] = clients[Mac(handled, i)]
          BY <3>4, <5>2, <5>5
        <5> QED BY <2>3, <4>2, <5>4, <5>6
      <4> QED BY <3>2, <4>1, <4>2
    <3> QED BY <3>5, <3>6, <3>7 DEF ListInv
  <2>5. CASE h.command # Helo
    <3>1. Helos(handled') = Helos(handled)
      BY <1>2, <2>1, <2>5 DEF Helos
    <3>2. UNCHANGED clients
      BY <1>2, <2>5
    <3> QED BY <2>2, <2>3, <3>1, <3>2 DEF ListInv
  <2> QED BY <2>4, <2>5
<1>3. CASE UNCHANGED msgVars
  BY <1>1, <1>3 DEF msgVars, vars
<1>4. CASE MsgNext
  <2>1. CASE process' = "running"
    BY <1>1, <1>2, <1>4, <2>1, OneMessage
  <2>2. CASE process' # "running"
    BY <2>2 DEF ListInv
  <2> QED BY <2>1, <2>2
<1> QED BY <1>3, <1>4

\* Once all that an orderly player said was read, and the process still runs, the
\* client list has its MAC addresses, each with the revision and the name of
\* the device it was last said to be, and nothing else.
THEOREM HeloListedAlways == MsgSpec => []HeloListed
<1>1. MsgInit => ListInv
  <2> SUFFICES ASSUME MsgInit PROVE ListInv
      OBVIOUS
  <2>1. Len(handled) = 0
    BY DEF MsgInit, Init
  <2>2. Helos(handled) = {}
    BY <2>1 DEF Helos
  <2>3. DOMAIN clients = {}
    <3>1. clients = <<>> /\ DOMAIN <<>> = 1..0
      BY DEF MsgInit
    <3> QED BY <3>1
  <2> QED BY <2>2, <2>3 DEF ListInv
<1>2. ParserInv /\ ListInv /\ AllHandled => HeloListed
  <2> SUFFICES ASSUME ParserInv, ListInv, AllHandled,
                      Orderly, consumed = Len(stream), process = "running"
               PROVE  /\ DOMAIN clients = {Mac(sent, i) : i \in Helos(sent)}
                      /\ \A i \in Helos(sent) :
                            (\A j \in Helos(sent) : j > i => Mac(sent, j) # Mac(sent, i)) =>
                                /\ clients[Mac(sent, i)].revision = sent[i].data[2]
                                /\ clients[Mac(sent, i)].name # "" <=> sent[i].data[1] \in 2..12
      BY DEF HeloListed, Helos, Mac
  <2>1. handled = sent
    BY DEF AllHandled
  <2>2. ASSUME NEW i \in Helos(sent)
        PROVE  /\ ClientInfo(sent[i].data).revision = sent[i].data[2]
               /\ ClientInfo(sent[i].data).name # "" <=> sent[i].data[1] \in 2..12
    <3> DEFINE d == sent[i].data
    <3>1. d \in Seq(Byte) /\ Good(d)
      BY <2>1, HandledData DEF ListInv, Helos, ParserInv
    <3> HIDE DEF d
    <3>2. Len(d) \in Nat /\ Len(d) >= 8 /\ d[1] \in Byte /\ FirmwareRevision(d) = d[2]
      BY <3>1, GoodHelo
    <3>3. d # <<>>
      <4>1. Len(<<>>) = 0
        BY EmptySeq
      <4> QED BY <3>2, <4>1
    <3>4. d[1] \in 2..12 => DeviceNames[d[1]] # ""
      <4>1. \A k \in {2, 3, 4, 5, 6, 7, 8, 9, 10, 11, 12} : DeviceNames[k] # ""
        <5>1. /\ DeviceNames[2] # "" /\ DeviceNames[3] # "" /\ DeviceNames[4] # ""
              /\ DeviceNames[5] # "" /\ DeviceNames[6] # "" /\ DeviceNames[7] # ""
          BY DEF DeviceNames
        <5>2. /\ DeviceNames[8] # "" /\ DeviceNames[9] # "" /\ DeviceNames[10] # ""
              /\ DeviceNames[11] # "" /\ DeviceNames[12] # ""
          BY DEF DeviceNames
        <5> QED BY <5>1, <5>2
      <4>2. d[1] \in 2..12 => d[1] \in {2, 3, 4, 5, 6, 7, 8, 9, 10, 11, 12}
        OBVIOUS
      <4> QED BY <4>1, <4>2
    <3>5. DeviceName(d) # "" <=> d[1] \in 2..12
      BY <3>3, <3>4 DEF DeviceName
    <3> QED BY <3>2, <3>5 DEF ClientInfo, d
  <2> QED BY <2>1, <2>2 DEF ListInv
<1> QED BY <1>1, <1>2, ListStep, MsgIsParser, Parsed, AllHandledAlways, PTL DEF MsgSpec
=============================================================================
