--------------------------- MODULE ServerMsg_proofs ---------------------------
(***************************************************************************)
(* Proofs about ServerMsg: for any volumes, rates, ports, lengths of the   *)
(* URL and any number of messages on the wire.                             *)
(***************************************************************************)
EXTENDS ServerMsg, SequenceTheorems, TLAPS

\* What may be on the wire.
WireByte == 0..255 \cup {"a", "u", "d", "e", "g", "s", "t", "r", "m", "p", "q", "x",
                         "0", "1", "2", "3", "4", "9", "?"}

\* The four letters of a message.
Letters(m) ==
    CASE m.kind = "aude" -> <<"a", "u", "d", "e">>
      [] m.kind = "audg" -> <<"a", "u", "d", "g">>
      [] m.kind = "strm" -> <<"s", "t", "r", "m">>
-----------------------------------------------------------------------------
(* Numbers. *)

\* A number of 16 bits is the value of its two bytes, and so is the short int it
\* is cast to, negative or not.
LEMMA WordValue ==
    ASSUME NEW x \in Int, 0 <= x, x < 65536
    PROVE  /\ HighByte(x) \in 0..255 /\ LowByte(x) \in 0..255
           /\ 256 * HighByte(x) + LowByte(x) = x
           /\ HighByte(Short(x)) = HighByte(x) /\ LowByte(Short(x)) = LowByte(x)
<1>1. (x \div 256) \in Int /\ 0 <= (x \div 256) /\ (x \div 256) <= 255
  OBVIOUS
<1>2. (x % 256) \in 0..255
  OBVIOUS
<1>3. x = 256 * (x \div 256) + (x % 256)
  OBVIOUS
<1>4. (x \div 256) % 256 = x \div 256
  BY <1>1
<1>5. HighByte(x) = x \div 256 /\ LowByte(x) = x % 256
  BY <1>4 DEF HighByte, LowByte
<1>6. x % 65536 = x
  OBVIOUS
<1>7. HighByte(Short(x)) = HighByte(x) /\ LowByte(Short(x)) = LowByte(x)
  <2>1. CASE x > 32767
    <3>1. Short(x) = x - 65536
      BY <1>6, <2>1 DEF Short
    <3>2. (x - 65536) \div 256 = (x \div 256) - 256
      OBVIOUS
    <3>3. (x - 65536) % 256 = x % 256
      OBVIOUS
    <3>4. ((x \div 256) - 256) % 256 = x \div 256
      BY <1>1
    <3> QED BY <1>5, <3>1, <3>2, <3>3, <3>4 DEF HighByte, LowByte
  <2>2. CASE ~(x > 32767)
    <3>1. Short(x) = x
      BY <1>6, <2>2 DEF Short
    <3> QED BY <3>1
  <2> QED BY <2>1, <2>2
<1>8. HighByte(x) \in 0..255 /\ LowByte(x) \in 0..255
  BY <1>1, <1>2, <1>5
<1>9. 256 * HighByte(x) + LowByte(x) = x
  BY <1>3, <1>5
<1> QED BY <1>7, <1>8, <1>9

\* s is a sequence of n bytes.
Bytes(s, n) == s \in Seq(WireByte) /\ Len(s) = n

\* v is the n bytes of a and the k bytes of b.
Joined(v, a, n, b, k) ==
    /\ Bytes(v, n + k)
    /\ \A i \in 1..n : v[i] = a[i]
    /\ \A i \in 1..k : v[n + i] = b[i]

LEMMA Tuple == \A n \in Nat : \A s \in [1..n -> WireByte] : Bytes(s, n)
<1> SUFFICES ASSUME NEW n \in Nat, NEW s \in [1..n -> WireByte] PROVE Bytes(s, n)
    OBVIOUS
<1>1. s \in Seq(WireByte)
  BY SeqDef
<1>2. Len(s) \in Nat /\ 1..Len(s) = 1..n
  BY <1>1, LenProperties
<1>3. (n > 0 => n \in 1..Len(s)) /\ (Len(s) > 0 => Len(s) \in 1..n)
  BY <1>2
<1> QED BY <1>1, <1>2, <1>3 DEF Bytes

\* One tuple after another.
LEMMA Cat ==
    \A a, b : \A n, k \in Nat : Bytes(a, n) /\ Bytes(b, k) => Joined(a \o b, a, n, b, k)
<1> SUFFICES ASSUME NEW a, NEW b, NEW n \in Nat, NEW k \in Nat, Bytes(a, n), Bytes(b, k)
             PROVE  Joined(a \o b, a, n, b, k)
    OBVIOUS
<1> DEFINE v == a \o b
<1>0. a \in Seq(WireByte) /\ Len(a) = n /\ b \in Seq(WireByte) /\ Len(b) = k
  BY DEF Bytes
<1>1. v = a \o b
  OBVIOUS
<1> HIDE DEF v
<1>2. /\ v \in Seq(WireByte) /\ Len(v) = Len(a) + Len(b)
      /\ \A i \in 1..Len(a) + Len(b) : v[i] = IF i <= Len(a) THEN a[i] ELSE b[i - Len(a)]
  BY <1>0, <1>1, ConcatProperties, Zenon
<1>3. Len(v) = n + k /\ \A i \in 1..(n + k) : v[i] = IF i <= n THEN a[i] ELSE b[i - n]
  BY <1>0, <1>2
<1>4. \A i \in 1..n : v[i] = a[i]
  BY <1>3
<1>5. \A i \in 1..k : v[n + i] = b[i]
  <2> TAKE i \in 1..k
  <2>1. n + i \in 1..(n + k) /\ ~(n + i <= n) /\ (n + i) - n = i
    OBVIOUS
  <2> QED BY <1>3, <2>1
<1>6. Joined(v, a, n, b, k)
  BY <1>2, <1>3, <1>4, <1>5 DEF Joined, Bytes
<1> QED BY <1>6 DEF v

LEMMA Pair == \A p, q \in WireByte : Bytes(<<p, q>>, 2)
<1> SUFFICES ASSUME NEW p \in WireByte, NEW q \in WireByte PROVE Bytes(<<p, q>>, 2)
    OBVIOUS
<1> DEFINE w == <<p, q>>
<1>1. w \in [1..2 -> WireByte]
  OBVIOUS
<1>2. 2 \in Nat
  OBVIOUS
<1> HIDE DEF w
<1>3. Bytes(w, 2)
  BY <1>1, <1>2, Tuple, Zenon
<1> QED BY <1>3 DEF w

LEMMA WordTuple ==
    ASSUME NEW x \in Int, 0 <= x, x < 65536
    PROVE  Bytes(Word(x), 2) /\ 256 * Word(x)[1] + Word(x)[2] = x
<1>1. HighByte(x) \in 0..255 /\ LowByte(x) \in 0..255
  BY WordValue
<1>2. 256 * HighByte(x) + LowByte(x) = x
  BY WordValue
<1>3. Word(x)[1] = HighByte(x) /\ Word(x)[2] = LowByte(x)
  BY DEF Word
<1>4. HighByte(x) \in WireByte /\ LowByte(x) \in WireByte
  BY <1>1 DEF WireByte
<1>5. Bytes(Word(x), 2)
  BY <1>4, Pair DEF Word
<1> QED BY <1>2, <1>3, <1>5
-----------------------------------------------------------------------------
(* The messages: each begins with the number of bytes that follow. *)

WellMade(m, v) ==
    /\ v \in Seq(WireByte) /\ Len(v) \in Nat /\ Len(v) >= 8
    /\ Len(v) = 2 + (256 * v[1] + v[2])
    /\ v[3] = Letters(m)[1] /\ v[4] = Letters(m)[2] /\ v[5] = Letters(m)[3] /\ v[6] = Letters(m)[4]

LEMMA AudeMade == \A m \in Aude : WellMade(m, ToVector(m))
<1> SUFFICES ASSUME NEW m \in Aude PROVE WellMade(m, ToVector(m))
    OBVIOUS
<1> DEFINE a == Word(6)
           b == <<"a", "u", "d", "e", Bit(m.spdif_enable), Bit(m.dac_enable)>>
           v == ToVector(m)
<1>1. Bytes(a, 2) /\ 256 * a[1] + a[2] = 6
  BY WordTuple
<1>2. b \in [1..6 -> WireByte]
  BY DEF Bit, WireByte
<1>3. 2 \in Nat /\ 6 \in Nat
  OBVIOUS
<1>4. b[1] = "a" /\ b[2] = "u" /\ b[3] = "d" /\ b[4] = "e"
  OBVIOUS
<1>5. m.kind = "aude"
  BY DEF Aude
<1>6. v = a \o b
  BY <1>5 DEF ToVector, ToVectorAude
<1>7. Letters(m)[1] = "a" /\ Letters(m)[2] = "u" /\ Letters(m)[3] = "d" /\ Letters(m)[4] = "e"
  BY <1>5 DEF Letters
<1> HIDE DEF a, b, v
<1>8. Bytes(b, 6)
  BY <1>2, <1>3, Tuple, Zenon
<1>9. Joined(v, a, 2, b, 6)
  BY <1>1, <1>3, <1>6, <1>8, Cat, Zenon
<1>10. v[1] = a[1] /\ v[2] = a[2] /\ v[3] = b[1] /\ v[4] = b[2] /\ v[5] = b[3] /\ v[6] = b[4]
  BY <1>9 DEF Joined
<1>11. v \in Seq(WireByte) /\ Len(v) = 8
  BY <1>9 DEF Joined, Bytes
<1>12. WellMade(m, v)
  BY <1>1, <1>4, <1>7, <1>10, <1>11 DEF WellMade
<1> QED BY <1>12 DEF v

\* The gain c is that of a volume vol which is limited already.
GainOf(c, vol) ==
    65536 * (256 * c[1] + c[2]) + (256 * c[3] + c[4]) =
        IF vol >= 128 THEN 65536 ELSE (65535 * vol) \div 128

LEMMA GainMade == \A vol \in 0..128 : Bytes(Gain(vol), 4) /\ GainOf(Gain(vol), vol)
<1> SUFFICES ASSUME NEW vol \in Int, 0 <= vol, vol <= 128
             PROVE  Bytes(Gain(vol), 4) /\ GainOf(Gain(vol), vol)
    OBVIOUS
<1>1. CASE vol = 128
  <2> DEFINE c == <<0, 1, 0, 0>>
  <2>1. c \in [1..4 -> WireByte]
    BY DEF WireByte
  <2>2. c[1] = 0 /\ c[2] = 1 /\ c[3] = 0 /\ c[4] = 0
    OBVIOUS
  <2>3. Gain(vol) = c
    BY <1>1 DEF Gain
  <2>4. 4 \in Nat
    OBVIOUS
  <2> HIDE DEF c
  <2>5. Bytes(c, 4)
    BY <2>1, <2>4, Tuple, Zenon
  <2>6. GainOf(c, vol)
    BY <2>2, <1>1 DEF GainOf
  <2> QED BY <2>3, <2>5, <2>6
<1>2. CASE vol # 128
  <2> DEFINE g == (65535 * vol) \div 128
             z == <<0, 0>>
             w == Word(Short(g))
             c == Gain(vol)
  <2>1. g \in Int /\ 0 <= g /\ g < 65536
    BY <1>2
  <2>2. z[1] = 0 /\ z[2] = 0
    OBVIOUS
  <2>3. Bytes(z, 2)
    <3>1. 0 \in WireByte
      BY DEF WireByte
    <3> QED BY <3>1, Pair
  <2>4. c = z \o w
    BY <1>2 DEF Gain
  <2> HIDE DEF g
  <2>5. w = Word(g)
    BY <2>1, WordValue DEF Word
  <2>6. Bytes(w, 2) /\ 256 * w[1] + w[2] = g
    BY <2>1, <2>5, WordTuple
  <2>7. 2 \in Nat
    OBVIOUS
  <2> HIDE DEF z, w, c
  <2>8. Joined(c, z, 2, w, 2)
    <3> HIDE <1>2
    <3> QED BY <2>3, <2>4, <2>6, <2>7, Cat
  <2>9. Bytes(c, 4) /\ c[1] = 0 /\ c[2] = 0 /\ c[3] = w[1] /\ c[4] = w[2]
    BY <2>2, <2>8 DEF Joined, Bytes
  <2>10. ~(vol >= 128)
    BY <1>2
  <2>11. GainOf(c, vol)
    BY <2>6, <2>9, <2>10 DEF GainOf, g
  <2> QED BY <2>9, <2>11 DEF c
<1> QED BY <1>1, <1>2

\* What a player reads of an audg message.
AudgBytes(m, v) ==
    /\ v[10] = Limited(m.volume) /\ v[14] = Limited(m.volume)
    /\ GainOf([i \in 1..4 |-> v[16 + i]], Limited(m.volume))
    /\ GainOf([i \in 1..4 |-> v[20 + i]], Limited(m.volume))

LEMMA AudgMade == \A m \in Audg : WellMade(m, ToVector(m)) /\ AudgBytes(m, ToVector(m)) /\ Len(ToVector(m)) = 24
<1> SUFFICES ASSUME NEW m \in Audg
             PROVE  WellMade(m, ToVector(m)) /\ AudgBytes(m, ToVector(m)) /\ Len(ToVector(m)) = 24
    OBVIOUS
<1> DEFINE vol == Limited(m.volume)
           a == Word(22)
           l == <<"a", "u", "d", "g">>
           old == <<0, 0, 0, vol>>
           p == <<Bit(m.dvc_enable), m.preamp>>
           c == Gain(vol)
           v1 == a \o l
           v2 == v1 \o old
           v3 == v2 \o old
           v4 == v3 \o p
           v5 == v4 \o c
           v == v5 \o c
<1>1. m.kind = "audg" /\ m.volume \in 0..255 /\ m.preamp = 255
  BY VolumeAssumption DEF Audg
<1>2. vol \in 0..128
  BY <1>1 DEF Limited
<1>3. Bytes(a, 2) /\ 256 * a[1] + a[2] = 22
  BY WordTuple
<1>4. l[1] = "a" /\ l[2] = "u" /\ l[3] = "d" /\ l[4] = "g"
  OBVIOUS
<1>5. l \in [1..4 -> WireByte]
  BY DEF WireByte
<1>6. old[4] = vol
  OBVIOUS
<1> HIDE DEF vol
<1>7. old \in [1..4 -> WireByte]
  BY <1>2 DEF WireByte
<1>8. Bytes(p, 2)
  <2>1. Bit(m.dvc_enable) \in WireByte /\ m.preamp \in WireByte
    BY <1>1 DEF Bit, WireByte
  <2> QED BY <2>1, Pair
<1>9. Bytes(c, 4) /\ GainOf(c, vol)
  BY <1>2, GainMade
<1>10. ToVector(m) = v
  BY <1>1 DEF ToVector, ToVectorAudg, vol
<1>11. Letters(m)[1] = "a" /\ Letters(m)[2] = "u" /\ Letters(m)[3] = "d" /\ Letters(m)[4] = "g"
  BY <1>1 DEF Letters
<1>12. 2 \in Nat /\ 4 \in Nat /\ 6 \in Nat /\ 10 \in Nat /\ 14 \in Nat /\ 16 \in Nat /\ 20 \in Nat
  OBVIOUS
<1> HIDE DEF a, l, old, p, c
<1>13. Bytes(l, 4) /\ Bytes(old, 4)
  BY <1>5, <1>7, <1>12, Tuple, Zenon
<1>14. Joined(v1, a, 2, l, 4)
  BY <1>3, <1>12, <1>13, Cat, Zenon
<1> HIDE DEF v1
<1>15. Bytes(v1, 6)
  BY <1>14 DEF Joined
<1>16. Joined(v2, v1, 6, old, 4)
  BY <1>12, <1>13, <1>15, Cat, Zenon
<1> HIDE DEF v2
<1>17. Bytes(v2, 10)
  BY <1>16 DEF Joined
<1>18. Joined(v3, v2, 10, old, 4)
  BY <1>12, <1>13, <1>17, Cat, Zenon
<1> HIDE DEF v3
<1>19. Bytes(v3, 14)
  BY <1>18 DEF Joined
<1>20. Joined(v4, v3, 14, p, 2)
  BY <1>8, <1>12, <1>19, Cat, Zenon
<1> HIDE DEF v4
<1>21. Bytes(v4, 16)
  BY <1>20 DEF Joined
<1>22. Joined(v5, v4, 16, c, 4)
  BY <1>9, <1>12, <1>21, Cat, Zenon
<1> HIDE DEF v5
<1>23. Bytes(v5, 20)
  BY <1>22 DEF Joined
<1>24. Joined(v, v5, 20, c, 4)
  BY <1>9, <1>12, <1>23, Cat, Zenon
<1> HIDE DEF v
<1>25. Bytes(v, 24)
  BY <1>24 DEF Joined
<1>26. \A i \in 1..20 : v[i] = v5[i]
  BY <1>24 DEF Joined
<1>27. \A i \in 1..16 : v[i] = v4[i]
  BY <1>22, <1>26 DEF Joined
<1>28. \A i \in 1..14 : v[i] = v3[i]
  BY <1>20, <1>27 DEF Joined
<1>29. \A i \in 1..10 : v[i] = v2[i]
  BY <1>18, <1>28 DEF Joined
<1>30. \A i \in 1..6 : v[i] = v1[i]
  BY <1>16, <1>29 DEF Joined
<1>31. v[1] = a[1] /\ v[2] = a[2] /\ v[3] = l[1] /\ v[4] = l[2] /\ v[5] = l[3] /\ v[6] = l[4]
  BY <1>14, <1>30 DEF Joined
<1>32. v[10] = vol
  BY <1>6, <1>16, <1>29 DEF Joined
<1>33. v[14] = vol
  BY <1>6, <1>18, <1>28 DEF Joined
<1>34. v[17] = c[1] /\ v[18] = c[2] /\ v[19] = c[3] /\ v[20] = c[4]
  BY <1>22, <1>26 DEF Joined
<1>35. v[21] = c[1] /\ v[22] = c[2] /\ v[23] = c[3] /\ v[24] = c[4]
  BY <1>24 DEF Joined
<1>36. WellMade(m, v)
  BY <1>3, <1>4, <1>11, <1>25, <1>31 DEF WellMade, Bytes
<1>37. AudgBytes(m, v)
  <2>1. GainOf([i \in 1..4 |-> v[16 + i]], vol)
    BY <1>9, <1>34 DEF GainOf
  <2>2. GainOf([i \in 1..4 |-> v[20 + i]], vol)
    BY <1>9, <1>35 DEF GainOf
  <2> QED BY <1>32, <1>33, <2>1, <2>2 DEF AudgBytes, vol
<1> QED BY <1>10, <1>25, <1>36, <1>37 DEF Bytes

LEMMA HeaderMade ==
    ASSUME NEW u \in Int, 0 <= u, u <= 65000, NEW m, m.url = u
    PROVE  \E n \in Nat : n <= 65017 /\ Bytes(HttpHeader(m), n)
<1>1. CASE u = 0
  <2>1. HttpHeader(m) = <<>>
    BY <1>1 DEF HttpHeader
  <2>2. <<>> \in Seq(WireByte) /\ Len(<<>>) = 0
    BY EmptySeq
  <2>3. Bytes(HttpHeader(m), 0)
    BY <2>1, <2>2 DEF Bytes
  <2> QED BY <2>3
<1>2. CASE u # 0
  <2> DEFINE n == u + 17
             h == [i \in 1..n |-> "x"]
  <2>1. HttpHeader(m) = h
    BY <1>2 DEF HttpHeader
  <2>2. n \in Nat /\ n <= 65017
    OBVIOUS
  <2> HIDE DEF n
  <2>3. h \in [1..n -> WireByte]
    BY DEF WireByte
  <2> HIDE DEF h
  <2>4. Bytes(h, n)
    BY <2>2, <2>3, Tuple
  <2> QED BY <2>1, <2>2, <2>4
<1> QED BY <1>1, <1>2

LEMMA Limits ==
    /\ \A x \in Ports \cup {0} : x \in Int /\ 0 <= x /\ x < 65536
    /\ \A x \in UrlLengths \cup {0} : x \in Int /\ 0 <= x /\ x <= 65000
<1>1. \A x \in Ports : x \in Int /\ 0 <= x /\ x < 65536
  BY PortAssumption
<1>2. \A x \in UrlLengths : x \in Int /\ 0 <= x /\ x <= 65000
  BY UrlAssumption
<1> QED BY <1>1, <1>2

LEMMA StrmMade == \A m \in Strm : WellMade(m, ToVector(m))
<1> SUFFICES ASSUME NEW m \in Strm PROVE WellMade(m, ToVector(m))
    OBVIOUS
<1> DEFINE l == <<"s", "t", "r", "m", m.strm_command>>
           f == Fields(m)
           r == <<0, 0, "0", 0, 0, 0>>
           z == <<0, 0, 0, 0>>
           d == Word(m.server_port)
           h == HttpHeader(m)
           b1 == l \o f
           b2 == b1 \o r
           b3 == b2 \o z
           b4 == b3 \o d
           b5 == b4 \o z
           body == b5 \o h
           a == Word(Len(body))
           v == a \o body
<1> DEFINE port == m.server_port
           u == m.url
<1>port. port \in Int /\ 0 <= port /\ port < 65536
  <2>1. m.server_port \in Ports \cup {0}
    BY DEF Strm
  <2> HIDE DEF port
  <2>2. port \in Ports \cup {0}
    BY <2>1 DEF port
  <2> QED BY <2>2, Limits
<1>url. u \in Int /\ 0 <= u /\ u <= 65000
  <2>1. m.url \in UrlLengths \cup {0}
    BY DEF Strm
  <2> HIDE DEF u
  <2>2. u \in UrlLengths \cup {0}
    BY <2>1 DEF u
  <2> QED BY <2>2, Limits
<1>1. m.kind = "strm" /\ m.strm_command \in {"s", "p", "u", "q", "t"}
  BY DEF Strm
<1> HIDE DEF port, u
<1>2. l \in [1..5 -> WireByte]
  BY <1>1 DEF WireByte
<1>3. l[1] = "s" /\ l[2] = "t" /\ l[3] = "r" /\ l[4] = "m"
  OBVIOUS
<1>4. f \in [1..7 -> WireByte]
  <2>1. SampleSize(m.bps) \in {"1", "2", "?"}
    BY DEF SampleSize
  <2>2. SampleRate(m.rate) \in {"3", "4", "9", "?"}
    BY DEF SampleRate
  <2> QED BY <2>1, <2>2 DEF Fields, WireByte
<1>5. r \in [1..6 -> WireByte] /\ z \in [1..4 -> WireByte]
  BY DEF WireByte
<1>6. Bytes(d, 2)
  <2>1. Bytes(Word(port), 2)
    BY <1>port, WordTuple
  <2> QED BY <2>1 DEF port
<1>7. PICK k \in Nat : k <= 65017 /\ Bytes(h, k)
  <2>1. m.url = u
    BY DEF u
  <2> QED BY <1>url, <2>1, HeaderMade
<1>8. ToVector(m) = v
  BY <1>1 DEF ToVector, ToVectorStrm
<1>9. Letters(m)[1] = "s" /\ Letters(m)[2] = "t" /\ Letters(m)[3] = "r" /\ Letters(m)[4] = "m"
  BY <1>1 DEF Letters
<1>10. /\ 2 \in Nat /\ 4 \in Nat /\ 5 \in Nat /\ 6 \in Nat /\ 7 \in Nat
       /\ 12 \in Nat /\ 18 \in Nat /\ 22 \in Nat /\ 24 \in Nat /\ 28 \in Nat
  OBVIOUS
<1> HIDE DEF l, f, r, z, d, h
<1>11. Bytes(l, 5) /\ Bytes(f, 7) /\ Bytes(r, 6) /\ Bytes(z, 4)
  BY <1>2, <1>4, <1>5, <1>10, Tuple, Zenon
<1>12. Joined(b1, l, 5, f, 7)
  BY <1>10, <1>11, Cat, Zenon
<1> HIDE DEF b1
<1>13. Bytes(b1, 12)
  BY <1>12 DEF Joined
<1>14. Joined(b2, b1, 12, r, 6)
  BY <1>10, <1>11, <1>13, Cat, Zenon
<1> HIDE DEF b2
<1>15. Bytes(b2, 18)
  BY <1>14 DEF Joined
<1>16. Joined(b3, b2, 18, z, 4)
  BY <1>10, <1>11, <1>15, Cat, Zenon
<1> HIDE DEF b3
<1>17. Bytes(b3, 22)
  BY <1>16 DEF Joined
<1>18. Joined(b4, b3, 22, d, 2)
  BY <1>6, <1>10, <1>17, Cat, Zenon
<1> HIDE DEF b4
<1>19. Bytes(b4, 24)
  BY <1>18 DEF Joined
<1>20. Joined(b5, b4, 24, z, 4)
  BY <1>10, <1>11, <1>19, Cat, Zenon
<1> HIDE DEF b5
<1>21. Bytes(b5, 28)
  BY <1>20 DEF Joined
<1>22. Bytes(h, k)
  BY <1>7
<1>23. Joined(body, b5, 28, h, k)
  BY <1>10, <1>21, <1>22, Cat, Zenon
<1> HIDE DEF body
<1>24. Bytes(body, 28 + k)
  BY <1>23 DEF Joined
<1>25. Len(body) = 28 + k /\ Len(body) \in Nat /\ Len(body) < 65536
  BY <1>7, <1>24 DEF Bytes
<1>26. Bytes(a, 2) /\ 256 * a[1] + a[2] = 28 + k
  BY <1>25, WordTuple
<1> HIDE DEF a
<1>27. 28 + k \in Nat
  OBVIOUS
<1>28. Joined(v, a, 2, body, 28 + k)
  BY <1>10, <1>24, <1>26, <1>27, Cat, Zenon
<1> HIDE DEF v
<1>29. v \in Seq(WireByte) /\ Len(v) = 30 + k
  BY <1>28 DEF Joined, Bytes
<1>30. v[1] = a[1] /\ v[2] = a[2]
  BY <1>28 DEF Joined
<1>31. \A i \in 1..4 : v[2 + i] = body[i]
  BY <1>28 DEF Joined
<1>32. \A i \in 1..4 : body[i] = b5[i] /\ b5[i] = b4[i] /\ b4[i] = b3[i]
  BY <1>18, <1>20, <1>23 DEF Joined
<1>33. \A i \in 1..4 : b3[i] = b2[i] /\ b2[i] = b1[i] /\ b1[i] = l[i]
  BY <1>12, <1>14, <1>16 DEF Joined
<1>34. v[3] = l[1] /\ v[4] = l[2] /\ v[5] = l[3] /\ v[6] = l[4]
  BY <1>31, <1>32, <1>33
<1>35. WellMade(m, v)
  BY <1>3, <1>9, <1>26, <1>29, <1>30, <1>34 DEF WellMade
<1> QED BY <1>8, <1>35

LEMMA MessageMade == \A m \in ServerMessage : WellMade(m, ToVector(m))
  BY AudeMade, AudgMade, StrmMade DEF ServerMessage
-----------------------------------------------------------------------------
(* The wire: the vectors of the messages, one behind the other.            *)

\* The bytes of w after the first c, up to d, are v.
Here(v, w, c, d) == d = c + Len(v) /\ \A j \in 1..Len(v) : w[c + j] = v[j]

\* cuts has where each message of p begins in w, and where the last one ends.
Laid(p, w, cuts) ==
    /\ cuts \in [1..(Len(p) + 1) -> Nat]
    /\ cuts[1] = 0
    /\ cuts[Len(p) + 1] = Len(w)
    /\ \A i, j \in 1..(Len(p) + 1) : i <= j => cuts[i] <= cuts[j]
    /\ \A i \in 1..Len(p) : Here(ToVector(p[i]), w, cuts[i], cuts[i + 1])

Wired(p, w) ==
    /\ p \in Seq(ServerMessage)
    /\ w \in Seq(WireByte)
    /\ \E cuts : Laid(p, w, cuts)

LEMMA HereGrows ==
    ASSUME NEW w, NEW n \in Nat, NEW x, NEW v, NEW k \in Nat, Joined(x, w, n, v, k),
           NEW u, Len(u) \in Nat, NEW c \in Nat, NEW d \in Nat, d <= n, Here(u, w, c, d)
    PROVE  Here(u, x, c, d)
<1>1. d = c + Len(u)
  BY DEF Here
<1>2. ASSUME NEW j \in 1..Len(u) PROVE x[c + j] = u[j]
  <2>1. w[c + j] = u[j]
    BY DEF Here
  <2>2. c + j \in 1..n
    BY <1>1
  <2> QED BY <2>1, <2>2 DEF Joined
<1> QED BY <1>1, <1>2 DEF Here

\* Writing one more message.
LEMMA WireGrows ==
    ASSUME NEW p, NEW w, Wired(p, w), NEW m \in ServerMessage
    PROVE  Wired(Append(p, m), w \o ToVector(m))
<1> DEFINE v == ToVector(m)
           k == Len(v)
           n == Len(p)
           l == Len(w)
           q == Append(p, m)
           x == w \o v
<1>1. WellMade(m, v)
  BY MessageMade
<1>2. p \in Seq(ServerMessage) /\ w \in Seq(WireByte)
  BY DEF Wired
<1>3. PICK cuts : Laid(p, w, cuts)
  BY DEF Wired
<1> HIDE DEF v
<1>4. Bytes(v, k) /\ k \in Nat
  BY <1>1 DEF WellMade, Bytes
<1>5. l \in Nat /\ n \in Nat
  BY <1>2, LenProperties
<1>6. Bytes(w, l)
  BY <1>2 DEF Bytes
<1>7. q \in Seq(ServerMessage) /\ Len(q) = n + 1
  BY <1>2, AppendProperties
<1>8. \A i \in 1..n : q[i] = p[i]
  BY <1>2, AppendProperties
<1>9. q[n + 1] = m
  BY <1>2, AppendProperties
<1> HIDE DEF k, l, n, q
<1>10. Joined(x, w, l, v, k)
  BY <1>4, <1>5, <1>6, Cat, Zenon
<1> HIDE DEF x
<1>11. x \in Seq(WireByte) /\ Len(x) = l + k
  BY <1>10 DEF Joined, Bytes
<1> DEFINE new == [i \in 1..(n + 2) |-> IF i <= n + 1 THEN cuts[i] ELSE l + k]
<1>12. /\ cuts \in [1..(n + 1) -> Nat]
       /\ cuts[1] = 0
       /\ cuts[n + 1] = l
       /\ \A i, j \in 1..(n + 1) : i <= j => cuts[i] <= cuts[j]
       /\ \A i \in 1..n : Here(ToVector(p[i]), w, cuts[i], cuts[i + 1])
  BY <1>3 DEF Laid, n, l
<1>13. new \in [1..(n + 2) -> Nat]
  BY <1>4, <1>5, <1>12
<1>14. (\A i \in 1..(n + 1) : new[i] = cuts[i]) /\ new[n + 2] = l + k
  BY <1>5
<1> HIDE DEF new
<1>15. \A i, j \in 1..(n + 2) : i <= j => new[i] <= new[j]
  <2> SUFFICES ASSUME NEW i \in 1..(n + 2), NEW j \in 1..(n + 2), i <= j
               PROVE  new[i] <= new[j]
      OBVIOUS
  <2>1. CASE j <= n + 1
    <3>1. i \in 1..(n + 1) /\ j \in 1..(n + 1)
      BY <1>5, <2>1
    <3> QED BY <1>12, <1>14, <3>1
  <2>2. CASE j = n + 2 /\ i <= n + 1
    <3>1. i \in 1..(n + 1) /\ n + 1 \in 1..(n + 1) /\ i <= n + 1
      BY <1>5, <2>2
    <3>2. cuts[i] <= cuts[n + 1]
      BY <1>12, <3>1
    <3>3. cuts[i] \in Nat
      BY <1>12, <3>1
    <3> QED BY <1>4, <1>5, <1>12, <1>14, <2>2, <3>1, <3>2, <3>3
  <2>3. CASE j = n + 2 /\ i = n + 2
    BY <1>4, <1>5, <1>14, <2>3
  <2> QED BY <1>5, <2>1, <2>2, <2>3
<1>16. \A i \in 1..(n + 1) : Here(ToVector(q[i]), x, new[i], new[i + 1])
  <2> TAKE i \in 1..(n + 1)
  <2>1. CASE i <= n
    <3>1. i \in 1..n /\ i \in 1..(n + 1) /\ i + 1 \in 1..(n + 1) /\ n + 1 \in 1..(n + 1)
      BY <1>5, <2>1
    <3>2. new[i] = cuts[i] /\ new[i + 1] = cuts[i + 1] /\ q[i] = p[i]
      BY <1>8, <1>14, <3>1
    <3>3. Here(ToVector(p[i]), w, cuts[i], cuts[i + 1])
      BY <1>12, <3>1
    <3>4. cuts[i] \in Nat /\ cuts[i + 1] \in Nat
      BY <1>12, <3>1
    <3>5. cuts[i + 1] <= l
      BY <1>12, <3>1
    <3>6. p[i] \in ServerMessage
      BY <1>2, <3>1, ElementOfSeq DEF n
    <3>7. Len(ToVector(p[i])) \in Nat
      BY <3>6, MessageMade DEF WellMade
    <3>8. Here(ToVector(p[i]), x, cuts[i], cuts[i + 1])
      BY <1>4, <1>5, <1>10, <3>3, <3>4, <3>5, <3>7, HereGrows
    <3> QED BY <3>2, <3>8
  <2>2. CASE i = n + 1
    <3>1. new[i] = l /\ new[i + 1] = l + k
      BY <1>5, <1>12, <1>14, <2>2
    <3>2. q[i] = m
      BY <1>9, <2>2
    <3>3. Here(v, x, l, l + k)
      BY <1>10 DEF Here, Joined, k
    <3> QED BY <3>1, <3>2, <3>3 DEF v
  <2> QED BY <1>5, <2>1, <2>2
<1>17. Laid(q, x, new)
  <2>1. new[1] = 0
    BY <1>5, <1>12, <1>14
  <2>2. Len(q) + 1 = n + 2
    BY <1>5, <1>7
  <2> QED BY <1>7, <1>11, <1>13, <1>14, <1>15, <1>16, <2>1, <2>2 DEF Laid
<1>18. Wired(q, x)
  BY <1>7, <1>11, <1>17 DEF Wired
<1> QED BY <1>18 DEF q, x, v

\* The wire begins with the first message that is pending.
LEMMA WireBegins ==
    ASSUME NEW p, NEW w, Wired(p, w), p # <<>>
    PROVE  /\ Head(p) \in ServerMessage
           /\ Len(ToVector(Head(p))) = 2 + (256 * w[1] + w[2])
           /\ Len(ToVector(Head(p))) <= Len(w)
           /\ \A j \in 1..Len(ToVector(Head(p))) : w[j] = ToVector(Head(p))[j]
<1> DEFINE m == Head(p)
           v == ToVector(m)
           k == Len(v)
           n == Len(p)
           l == Len(w)
<1>1. p \in Seq(ServerMessage) /\ w \in Seq(WireByte)
  BY DEF Wired
<1>2. PICK cuts : Laid(p, w, cuts)
  BY DEF Wired
<1>3. m \in ServerMessage
  BY <1>1, HeadTailProperties
<1>4. m = p[1]
  BY <1>1
<1>5. n \in Nat /\ n # 0 /\ l \in Nat
  BY <1>1, EmptySeq, LenProperties
<1> HIDE DEF m
<1>6. WellMade(m, v)
  BY <1>3, MessageMade
<1> HIDE DEF v, n, l
<1>7. /\ cuts \in [1..(n + 1) -> Nat]
      /\ cuts[1] = 0
      /\ cuts[n + 1] = l
      /\ \A i, j \in 1..(n + 1) : i <= j => cuts[i] <= cuts[j]
      /\ \A i \in 1..n : Here(ToVector(p[i]), w, cuts[i], cuts[i + 1])
  BY <1>2 DEF Laid, n, l
<1>8. 1 \in 1..n /\ 2 \in 1..(n + 1) /\ n + 1 \in 1..(n + 1) /\ 2 <= n + 1
  BY <1>5
<1>9. Here(v, w, cuts[1], cuts[2])
  BY <1>4, <1>7, <1>8 DEF v
<1>10. k \in Nat /\ k >= 8 /\ k = 2 + (256 * v[1] + v[2])
  BY <1>6 DEF WellMade
<1> HIDE DEF k
<1>11. cuts[2] = k
  BY <1>7, <1>9, <1>10 DEF Here, k
<1>12. \A j \in 1..k : w[j] = v[j]
  BY <1>7, <1>9, <1>10 DEF Here, k
<1>13. k <= l
  BY <1>7, <1>8, <1>11
<1>14. w[1] = v[1] /\ w[2] = v[2]
  BY <1>10, <1>12
<1>15. k = 2 + (256 * w[1] + w[2])
  BY <1>10, <1>14
<1> QED BY <1>3, <1>12, <1>13, <1>15 DEF k, v, m, l

\* Both ends run out together.
LEMMA WireEmpty ==
    ASSUME NEW p, NEW w, Wired(p, w)
    PROVE  p = <<>> <=> w = <<>>
<1>1. p \in Seq(ServerMessage) /\ w \in Seq(WireByte)
  BY DEF Wired
<1>2. ASSUME p = <<>> PROVE w = <<>>
  <2>1. PICK cuts : Laid(p, w, cuts)
    BY DEF Wired
  <2>2. Len(p) = 0
    BY <1>2, EmptySeq, Zenon
  <2>3. Len(w) = 0
    BY <2>1, <2>2 DEF Laid
  <2> QED BY <1>1, <2>3, EmptySeq
<1>3. ASSUME p # <<>> PROVE w # <<>>
  <2>1. Len(ToVector(Head(p))) <= Len(w) /\ Head(p) \in ServerMessage
    BY <1>3, WireBegins
  <2>2. Len(ToVector(Head(p))) \in Nat /\ Len(ToVector(Head(p))) >= 8
    BY <2>1, MessageMade DEF WellMade
  <2>3. Len(w) # 0
    BY <1>1, <2>1, <2>2, LenProperties
  <2>4. Len(<<>>) = 0
    BY EmptySeq, Zenon
  <2> QED BY <2>3, <2>4
<1> QED BY <1>2, <1>3

\* Taking off the first message, by the length it begins with.
LEMMA WireShrinks ==
    ASSUME NEW p, NEW w, Wired(p, w), p # <<>>
    PROVE  Wired(Tail(p), SubSeq(w, 2 + (256 * w[1] + w[2]) + 1, Len(w)))
<1> DEFINE v == ToVector(Head(p))
           k == Len(v)
           n == Len(p)
           l == Len(w)
           q == Tail(p)
           x == SubSeq(w, k + 1, l)
<1>1. p \in Seq(ServerMessage) /\ w \in Seq(WireByte)
  BY DEF Wired
<1>2. PICK cuts : Laid(p, w, cuts)
  BY DEF Wired
<1>3. Head(p) \in ServerMessage
  BY WireBegins
<1>4. k = 2 + (256 * w[1] + w[2])
  BY WireBegins
<1>5. k <= l
  BY WireBegins
<1>6. n \in Nat /\ n # 0 /\ l \in Nat
  BY <1>1, EmptySeq, LenProperties
<1>7. k \in Nat
  BY <1>3, MessageMade DEF WellMade
<1>8. q \in Seq(ServerMessage) /\ Len(q) = n - 1
  BY <1>1, HeadTailProperties
<1>9. \A i \in 1..(n - 1) : q[i] = p[i + 1]
  BY <1>1, <1>8, HeadTailProperties
<1>10. Head(p) = p[1]
  BY <1>1
<1>11. Here(v, w, cuts[1], cuts[2])
  <2>1. 1 \in 1..n
    BY <1>6
  <2> QED BY <1>2, <1>10, <2>1 DEF Laid
<1>12. \A i \in 1..l : w[i] \in WireByte
  BY <1>1, ElementOfSeq
<1> HIDE DEF v, k, n, l, q
<1>13. /\ cuts \in [1..(n + 1) -> Nat]
       /\ cuts[1] = 0
       /\ cuts[n + 1] = l
       /\ \A i, j \in 1..(n + 1) : i <= j => cuts[i] <= cuts[j]
       /\ \A i \in 1..n : Here(ToVector(p[i]), w, cuts[i], cuts[i + 1])
  BY <1>2 DEF Laid, n, l
<1>14. cuts[2] = k
  BY <1>7, <1>11, <1>13 DEF Here, k
<1>15. k + 1 \in Int /\ l \in Int /\ \A i \in (k + 1)..l : w[i] \in WireByte
  BY <1>6, <1>7, <1>12
<1>16. x \in Seq(WireByte)
  BY <1>15, SubSeqProperties
<1>17. Len(x) = IF k + 1 <= l THEN l - (k + 1) + 1 ELSE 0
  BY <1>15, SubSeqProperties, Zenon
<1>18. \A i \in 1..(l - (k + 1) + 1) : x[i] = w[(k + 1) + i - 1]
  BY <1>15, SubSeqProperties
<1> HIDE DEF x
<1>19. Len(x) = l - k
  BY <1>5, <1>6, <1>7, <1>17
<1>20. \A i \in 1..(l - k) : x[i] = w[k + i]
  <2> TAKE i \in 1..(l - k)
  <2>1. i \in 1..(l - (k + 1) + 1) /\ (k + 1) + i - 1 = k + i
    BY <1>6, <1>7
  <2> QED BY <1>18, <2>1
<1> DEFINE new == [i \in 1..n |-> cuts[i + 1] - k]
<1>21. \A i \in 1..n : cuts[i + 1] \in Nat /\ k <= cuts[i + 1]
  <2> TAKE i \in 1..n
  <2>1. i + 1 \in 1..(n + 1) /\ 2 \in 1..(n + 1) /\ 2 <= i + 1
    BY <1>6
  <2> QED BY <1>13, <1>14, <2>1
<1>22. new \in [1..n -> Nat]
  <2>1. \A i \in 1..n : cuts[i + 1] - k \in Nat
    BY <1>7, <1>21
  <2> QED BY <2>1
<1>23. \A i \in 1..n : new[i] = cuts[i + 1] - k
  OBVIOUS
<1> HIDE DEF new
<1>24. \A i, j \in 1..n : i <= j => new[i] <= new[j]
  <2> SUFFICES ASSUME NEW i \in 1..n, NEW j \in 1..n, i <= j PROVE new[i] <= new[j]
      OBVIOUS
  <2>1. i + 1 \in 1..(n + 1) /\ j + 1 \in 1..(n + 1) /\ i + 1 <= j + 1
    BY <1>6
  <2>2. cuts[i + 1] <= cuts[j + 1]
    BY <1>13, <2>1
  <2>3. new[i] = cuts[i + 1] - k /\ new[j] = cuts[j + 1] - k
    BY <1>23
  <2> QED BY <1>7, <1>21, <2>2, <2>3
<1>25. \A i \in 1..(n - 1) : Here(ToVector(q[i]), x, new[i], new[i + 1])
  <2> TAKE i \in 1..(n - 1)
  <2> DEFINE u == ToVector(p[i + 1])
             c == cuts[i + 1]
             d == cuts[i + 2]
  <2>1. i \in 1..n /\ i + 1 \in 1..n /\ i + 2 \in 1..(n + 1) /\ n + 1 \in 1..(n + 1) /\ (i + 1) + 1 = i + 2
    BY <1>6
  <2>2. new[i] = c - k /\ new[i + 1] = d - k
    BY <1>23, <2>1
  <2>3. Here(u, w, c, d)
    BY <1>13, <2>1
  <2>4. q[i] = p[i + 1]
    BY <1>9
  <2>5. p[i + 1] \in ServerMessage
    BY <1>1, <2>1, ElementOfSeq DEF n
  <2>6. Len(u) \in Nat
    BY <2>5, MessageMade DEF WellMade
  <2>7. c \in Nat /\ d \in Nat /\ k <= c
    BY <1>13, <1>21, <2>1
  <2>8. d <= l
    BY <1>13, <2>1
  <2> HIDE DEF u, c, d
  <2>9. d = c + Len(u)
    BY <2>3 DEF Here
  <2>10. ASSUME NEW j \in 1..Len(u) PROVE x[(c - k) + j] = u[j]
    <3>1. w[c + j] = u[j]
      BY <2>3 DEF Here
    <3>2. (c - k) + j \in 1..(l - k) /\ k + ((c - k) + j) = c + j
      BY <1>6, <1>7, <2>6, <2>7, <2>8, <2>9
    <3> QED BY <1>20, <3>1, <3>2
  <2>11. d - k = (c - k) + Len(u)
    BY <1>7, <2>6, <2>7, <2>9
  <2>12. Here(u, x, c - k, d - k)
    BY <2>10, <2>11 DEF Here
  <2> QED BY <2>2, <2>4, <2>12 DEF u
<1>26. Laid(q, x, new)
  <2>1. Len(q) + 1 = n
    BY <1>6, <1>8
  <2>2. 1 \in 1..n /\ n \in 1..n
    BY <1>6
  <2>3. new[1] = 0
    <3>1. new[1] = cuts[1 + 1] - k /\ 1 + 1 = 2
      BY <1>23, <2>2
    <3> QED BY <1>7, <1>14, <3>1
  <2>4. new[n] = l - k
    BY <1>13, <1>23, <2>2
  <2>5. \A i \in 1..Len(q) : Here(ToVector(q[i]), x, new[i], new[i + 1])
    BY <1>8, <1>25
  <2> QED BY <1>19, <1>22, <1>24, <2>1, <2>3, <2>4, <2>5 DEF Laid
<1>27. Wired(q, x)
  BY <1>8, <1>16, <1>26 DEF Wired
<1> QED BY <1>4, <1>27 DEF q, x, l
-----------------------------------------------------------------------------
WireInv == Wired(pending, wire)

LEMMA WireInvInvariant == WireSpec => []WireInv
<1>1. WireInit => WireInv
  <2> SUFFICES ASSUME WireInit PROVE WireInv
      OBVIOUS
  <2>1. pending = <<>> /\ wire = <<>>
    BY DEF WireInit
  <2>2. pending \in Seq(ServerMessage) /\ wire \in Seq(WireByte)
    BY <2>1, EmptySeq
  <2>3. Len(pending) = 0 /\ Len(wire) = 0
    BY <2>1, EmptySeq, Zenon
  <2> DEFINE cuts == [i \in 1..1 |-> 0]
  <2>4. cuts \in [1..1 -> Nat] /\ cuts[1] = 0 /\ \A i, j \in 1..1 : cuts[i] <= cuts[j]
    OBVIOUS
  <2> HIDE DEF cuts
  <2>5. Laid(pending, wire, cuts)
    BY <2>3, <2>4 DEF Laid
  <2> QED BY <2>2, <2>5 DEF WireInv, Wired
<1>2. WireInv /\ [WireNext]_wireVars => WireInv'
  <2> SUFFICES ASSUME WireInv, [WireNext]_wireVars PROVE WireInv'
      OBVIOUS
  <2>1. Wired(pending, wire)
    BY DEF WireInv
  <2>2. ASSUME NEW m \in ServerMessage, SendData(m) PROVE WireInv'
    <3>1. Wired(Append(pending, m), wire \o ToVector(m))
      BY <2>1, WireGrows
    <3>2. pending' = Append(pending, m) /\ wire' = wire \o ToVector(m)
      BY <2>2 DEF SendData
    <3>3. Wired(pending', wire')
      BY <3>1, <3>2
    <3> QED BY <3>3 DEF WireInv, Wired, Laid, Here
  <2>3. CASE PlayerReads
    <3>1. wire # <<>> /\ wire' = SubSeq(wire, FrameLength + 1, Len(wire)) /\ pending' = Tail(pending)
      BY <2>3 DEF PlayerReads
    <3>2. pending # <<>>
      BY <2>1, <3>1, WireEmpty
    <3>3. FrameLength = 2 + (256 * wire[1] + wire[2])
      BY DEF FrameLength, NumberAt
    <3>4. Wired(Tail(pending), SubSeq(wire, 2 + (256 * wire[1] + wire[2]) + 1, Len(wire)))
      BY <2>1, <3>2, WireShrinks
    <3>5. Wired(pending', wire')
      BY <3>1, <3>3, <3>4
    <3> QED BY <3>5 DEF WireInv, Wired, Laid, Here
  <2>4. CASE UNCHANGED wireVars
    BY <2>1, <2>4 DEF WireInv, wireVars, Wired, Laid, Here
  <2> QED BY <2>2, <2>3, <2>4 DEF WireNext
<1> QED BY <1>1, <1>2, PTL DEF WireSpec
-----------------------------------------------------------------------------
\* Whatever was sent in which order, a player that takes the messages off by
\* their lengths finds the four letters of the next one where they belong.
THEOREM FramedAlways == WireSpec => []Framed
<1>1. WireInv => Framed
  <2> SUFFICES ASSUME WireInv PROVE Framed
      OBVIOUS
  <2>1. Wired(pending, wire)
    BY DEF WireInv
  <2>2. wire = <<>> <=> pending = <<>>
    BY <2>1, WireEmpty
  <2>3. ASSUME pending # <<>> PROVE SubSeq(wire, 3, 6) = Letters(Head(pending))
    <3> DEFINE m == Head(pending)
               v == ToVector(m)
               s == SubSeq(wire, 3, 6)
               t == Letters(m)
    <3>1. m \in ServerMessage /\ \A j \in 1..Len(v) : wire[j] = v[j]
      BY <2>1, <2>3, WireBegins
    <3>2. Len(v) \in Nat /\ Len(v) <= Len(wire)
      BY <2>1, <2>3, <3>1, WireBegins, MessageMade DEF WellMade
    <3>3. Len(v) >= 8 /\ v[3] = t[1] /\ v[4] = t[2] /\ v[5] = t[3] /\ v[6] = t[4]
      BY <3>1, MessageMade DEF WellMade
    <3>4. t \in [1..4 -> WireByte]
      <4>1. m.kind \in {"aude", "audg", "strm"}
        BY <3>1 DEF ServerMessage, Aude, Audg, Strm
      <4>2. CASE m.kind = "aude"
        BY <4>2 DEF Letters, WireByte
      <4>3. CASE m.kind = "audg"
        BY <4>3 DEF Letters, WireByte
      <4>4. CASE m.kind = "strm"
        BY <4>4 DEF Letters, WireByte
      <4> QED BY <4>1, <4>2, <4>3, <4>4
    <3>5. wire \in Seq(WireByte)
      BY <2>1 DEF Wired
    <3>6. \A i \in 1..Len(wire) : wire[i] \in WireByte
      BY <3>5, ElementOfSeq
    <3> HIDE DEF m, v, t
    <3>7. wire[3] = t[1] /\ wire[4] = t[2] /\ wire[5] = t[3] /\ wire[6] = t[4]
      BY <3>1, <3>2, <3>3
    <3>8. Len(wire) \in Nat
      BY <3>5, LenProperties
    <3>9. \A i \in 3..6 : wire[i] \in WireByte
      BY <3>2, <3>3, <3>6, <3>8
    <3>10. 3 \in Int /\ 6 \in Int
      OBVIOUS
    <3>11. /\ s \in Seq(WireByte)
           /\ Len(s) = IF 3 <= 6 THEN 6 - 3 + 1 ELSE 0
           /\ \A i \in 1..(6 - 3 + 1) : s[i] = wire[3 + i - 1]
      BY <3>9, <3>10, SubSeqProperties
    <3> HIDE DEF s
    <3>12. Len(s) = 4 /\ s[1] = wire[3] /\ s[2] = wire[4] /\ s[3] = wire[5] /\ s[4] = wire[6]
      BY <3>11
    <3>13. 4 \in Nat
      OBVIOUS
    <3>14. t \in Seq(WireByte) /\ Len(t) = 4
      <4>1. Bytes(t, 4)
        BY <3>4, <3>13, Tuple, Zenon
      <4> QED BY <4>1 DEF Bytes
    <3>15. \A i \in 1..Len(s) : s[i] = t[i]
      BY <3>7, <3>12
    <3>16. s = t
      BY <3>11, <3>12, <3>14, <3>15, SeqEqual
    <3> QED BY <3>16 DEF s, t, m
  <2> QED BY <2>2, <2>3 DEF Framed, Letters
<1> QED BY <1>1, WireInvInvariant, PTL

LEMMA LimitedIs ==
    \A u \in 0..255 : /\ Limited(u) <= 128
                      /\ Limited(u) >= 128 <=> u >= 128
                      /\ u < 128 => Limited(u) = u
  BY DEF Limited

\* The gain a player finds in an audg message is the volume's share of full
\* scale, for every volume an unsigned char has.
THEOREM GainRightAlways == WireSpec => []GainRight
<1>1. WireInv => GainRight
  <2> SUFFICES ASSUME WireInv, pending # <<>>, Head(pending).kind = "audg"
               PROVE  LET u == Head(pending).volume IN
                      /\ GainAt(17) = IF u >= 128 THEN 65536 ELSE (65535 * u) \div 128
                      /\ GainAt(21) = GainAt(17)
                      /\ wire[10] <= 128 /\ wire[14] = wire[10]
      BY DEF GainRight
  <2> DEFINE m == Head(pending)
             v == ToVector(m)
             u == m.volume
             vol == Limited(u)
  <2>1. Wired(pending, wire)
    BY DEF WireInv
  <2>2. m \in ServerMessage /\ \A j \in 1..Len(v) : wire[j] = v[j]
    BY <2>1, WireBegins
  <2>3. m \in Audg
    BY <2>2 DEF ServerMessage, Aude, Strm
  <2>4. u \in 0..255
    BY <2>3, VolumeAssumption DEF Audg
  <2>5. AudgBytes(m, v) /\ Len(v) = 24
    BY <2>3, AudgMade
  <2> HIDE DEF v
  <2>6. \A j \in 1..24 : wire[j] = v[j]
    BY <2>2, <2>5
  <2>7. v[10] = vol /\ v[14] = vol
    BY <2>5 DEF AudgBytes
  <2>8. GainOf([i \in 1..4 |-> v[16 + i]], vol) /\ GainOf([i \in 1..4 |-> v[20 + i]], vol)
    BY <2>5 DEF AudgBytes
  <2>9. vol <= 128 /\ (vol >= 128 <=> u >= 128) /\ (u < 128 => vol = u)
    BY <2>4, LimitedIs
  <2> HIDE DEF vol
  <2> HIDE DEF u
  <2>int. u \in Int
    BY <2>4
  <2> DEFINE g == IF vol >= 128 THEN 65536 ELSE (65535 * vol) \div 128
  <2>10. 65536 * (256 * v[17] + v[18]) + (256 * v[19] + v[20]) = g
    BY <2>8 DEF GainOf
  <2>11. 65536 * (256 * v[21] + v[22]) + (256 * v[23] + v[24]) = g
    BY <2>8 DEF GainOf
  <2> HIDE DEF g
  <2>12. GainAt(17) = g
    BY <2>6, <2>10 DEF GainAt, NumberAt
  <2>13. GainAt(21) = g
    BY <2>6, <2>11 DEF GainAt, NumberAt
  <2>14. g = IF u >= 128 THEN 65536 ELSE (65535 * u) \div 128
    BY <2>int, <2>9 DEF g
  <2>15. wire[10] = vol /\ wire[14] = vol
    BY <2>6, <2>7
  <2> QED BY <2>9, <2>12, <2>13, <2>14, <2>15 DEF u, m
<1> QED BY <1>1, WireInvInvariant, PTL
=============================================================================
