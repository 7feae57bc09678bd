------------------------ MODULE RequestHandler_proofs ------------------------
(***************************************************************************)
(* Proofs about Reply and RequestHandler: for any URIs, any client list    *)
(* and any change of it while a reply is written.                          *)
(*                                                                         *)
(* First what is written for a reply (ReplyInv), then what a URI is        *)
(* answered with (Answered): url_decode takes every spelling of a URI back *)
(* to it (SpellingDecodes, by induction on the URI), the decoded URI is    *)
(* cut at its first question mark (SplitAt), and what is before decides.   *)
(***************************************************************************)
EXTENDS RequestHandler, SequenceTheorems, DataInduction

\* What a reply is at most: so many headers, so many pieces of content.
Shaped(r, h, k) ==
    /\ r.headers = [i \in 1..h |-> r.headers[i]]
    /\ r.content = [i \in 1..k |-> r.content[i]]

\* s are the lines of r, one behind the other.
Written(s, r, h, k) ==
    /\ Len(s) = h + k + 2
    /\ s[1] = StatusLine(r.status)
    /\ \A i \in 1..h : s[1 + i] = [line |-> "header", header |-> r.headers[i]]
    /\ s[h + 2] = [line |-> "empty"]
    /\ \A i \in 1..k : s[h + 2 + i] = [line |-> "content", text |-> r.content[i]]
-----------------------------------------------------------------------------
(* Sequences. *)

\* A function on 1..n is a sequence of length n.
LEMMA Listed ==
    ASSUME NEW n \in Nat, NEW S, NEW f \in [1..n -> S]
    PROVE  f \in Seq(S) /\ Len(f) = n
<1>1. f \in Seq(S)
  BY SeqDef
<1>2. Len(f) \in Nat /\ 1..Len(f) = 1..n
  BY <1>1, LenProperties
<1>3. n > 0 => n \in 1..Len(f)
  BY <1>2
<1>4. Len(f) > 0 => Len(f) \in 1..n
  BY <1>2
<1> QED BY <1>1, <1>2, <1>3, <1>4

\* x is a and then b, sequences over S of lengths n and k.
Chain(x, a, n, b, k, S) ==
    /\ x \in Seq(S) /\ Len(x) = n + k
    /\ \A i \in 1..n : x[i] = a[i]
    /\ \A i \in 1..k : x[n + i] = b[i]

\* What two sequences give, one behind the other.
LEMMA Chained ==
    ASSUME NEW S, NEW n \in Nat, NEW a \in Seq(S), Len(a) = n,
           NEW k \in Nat, NEW b \in Seq(S), Len(b) = k
    PROVE  Chain(a \o b, a, n, b, k, S)
<1>1. /\ a \o b \in Seq(S) /\ Len(a \o b) = n + k
      /\ \A i \in 1..(n + k) : (a \o b)[i] = IF i <= n THEN a[i] ELSE b[i - n]
  BY ConcatProperties
<1>2. \A i \in 1..n : i \in 1..(n + k) /\ i <= n
  OBVIOUS
<1>3. \A i \in 1..k : n + i \in 1..(n + k) /\ ~(n + i <= n) /\ (n + i) - n = i
  OBVIOUS
<1> QED BY <1>1, <1>2, <1>3 DEF Chain
-----------------------------------------------------------------------------
(* A reply and its reader. *)

\* to_buffers writes a reply line by line, and the content after an empty line.
LEMMA ReplyWritten ==
    ASSUME NEW r, NEW h \in Nat, NEW k \in Nat, Shaped(r, h, k)
    PROVE  Written(ToBuffers(r), r, h, k)
<1> DEFINE a == <<StatusLine(r.status)>>
           b == [i \in 1..Len(r.headers) |-> [line |-> "header", header |-> r.headers[i]]]
           c == [i \in 1..Len(r.content) |-> [line |-> "content", text |-> r.content[i]]]
           H == {[line |-> "header", header |-> r.headers[i]] : i \in 1..h}
           K == {[line |-> "content", text |-> r.content[i]] : i \in 1..k}
           S == H \cup K \cup {StatusLine(r.status), [line |-> "empty"]}
<1>1. Len(r.headers) = h /\ Len(r.content) = k
  <2>1. r.headers \in [1..h -> {r.headers[i] : i \in 1..h}]
    BY DEF Shaped
  <2>2. r.content \in [1..k -> {r.content[i] : i \in 1..k}]
    BY DEF Shaped
  <2> QED BY <2>1, <2>2, Listed
<1>2. a \in [1..1 -> S] /\ a[1] = StatusLine(r.status)
  OBVIOUS
<1>3. b \in [1..h -> S]
  BY <1>1
<1>4. c \in [1..k -> S]
  BY <1>1
<1>5. EmptyLine \in [1..1 -> S] /\ EmptyLine[1] = [line |-> "empty"]
  BY DEF EmptyLine
<1>6. \A i \in 1..h : b[i] = [line |-> "header", header |-> r.headers[i]]
  BY <1>1
<1>7. \A i \in 1..k : c[i] = [line |-> "content", text |-> r.content[i]]
  BY <1>1
<1>8. ToBuffers(r) = ((a \o b) \o EmptyLine) \o c
  BY DEF ToBuffers
<1>9. 1 \in Nat /\ 1 + h \in Nat /\ 1 + h + 1 \in Nat
  OBVIOUS
<1> HIDE DEF a, b, c, S
<1>10. /\ a \in Seq(S) /\ Len(a) = 1 /\ b \in Seq(S) /\ Len(b) = h
       /\ EmptyLine \in Seq(S) /\ Len(EmptyLine) = 1 /\ c \in Seq(S) /\ Len(c) = k
  BY <1>2, <1>3, <1>4, <1>5, <1>9, Listed
<1> DEFINE d == a \o b
           e == d \o EmptyLine
           s == e \o c
<1>11. Chain(d, a, 1, b, h, S)
  BY <1>9, <1>10, Chained
<1>12. d \in Seq(S) /\ Len(d) = 1 + h
  BY <1>11 DEF Chain
<1> HIDE DEF d
<1>13. Chain(e, d, 1 + h, EmptyLine, 1, S)
  BY <1>9, <1>10, <1>12, Chained
<1>14. e \in Seq(S) /\ Len(e) = 1 + h + 1
  BY <1>13 DEF Chain
<1> HIDE DEF e
<1>15. Chain(s, e, 1 + h + 1, c, k, S)
  BY <1>9, <1>10, <1>14, Chained
<1> HIDE DEF s
<1>16. ToBuffers(r) = s
  BY <1>8 DEF d, e, s
<1>17. \A i \in 1..(1 + h) : s[i] = d[i]
  <2>1. \A i \in 1..(1 + h) : i \in 1..(1 + h + 1)
    OBVIOUS
  <2> QED BY <1>13, <1>15, <2>1 DEF Chain
<1>18. s[1] = StatusLine(r.status)
  <2>1. 1 \in 1..1 /\ 1 \in 1..(1 + h)
    OBVIOUS
  <2> QED BY <1>2, <1>11, <1>17, <2>1 DEF Chain
<1>19. \A i \in 1..h : s[1 + i] = b[i]
  <2>1. \A i \in 1..h : 1 + i \in 1..(1 + h)
    OBVIOUS
  <2> QED BY <1>11, <1>17, <2>1 DEF Chain
<1>20. s[h + 2] = [line |-> "empty"]
  <2>1. 1 + h + 1 = h + 2 /\ 1 \in 1..1 /\ h + 2 \in 1..(1 + h + 1)
    OBVIOUS
  <2>2. e[1 + h + 1] = EmptyLine[1]
    BY <1>13, <2>1 DEF Chain
  <2>3. s[h + 2] = e[h + 2]
    BY <1>15, <2>1 DEF Chain
  <2> QED BY <1>5, <2>1, <2>2, <2>3
<1>21. \A i \in 1..k : s[h + 2 + i] = c[i]
  <2>1. 1 + h + 1 = h + 2
    OBVIOUS
  <2> QED BY <1>15, <2>1 DEF Chain
<1>22. Len(s) = h + k + 2
  BY <1>15 DEF Chain
<1> QED BY <1>6, <1>7, <1>16, <1>18, <1>19, <1>20, <1>21, <1>22 DEF Written

\* The first empty line ends the headers, whatever they and the content are.
LEMMA HeadersEnd ==
    ASSUME NEW r, NEW h \in Nat, NEW k \in Nat, NEW s, Written(s, r, h, k)
    PROVE  EndOfHeaders(s) = h + 2
<1> DEFINE I == {i \in 1..Len(s) : s[i].line = "empty"}
<1>1. \A i \in 1..(h + k + 2) : \/ i = 1 \/ i = h + 2
                                \/ i - 1 \in 1..h /\ i = 1 + (i - 1)
                                \/ i - (h + 2) \in 1..k /\ i = h + 2 + (i - (h + 2))
  OBVIOUS
<1>2. s[1].line = "status" /\ s[h + 2].line = "empty"
  BY DEF Written, StatusLine
<1>3. ASSUME NEW i \in 1..h PROVE s[1 + i].line = "header"
  <2>1. s[1 + i] = [line |-> "header", header |-> r.headers[i]]
    BY DEF Written
  <2> QED BY <2>1
<1>4. ASSUME NEW i \in 1..k PROVE s[h + 2 + i].line = "content"
  <2>1. s[h + 2 + i] = [line |-> "content", text |-> r.content[i]]
    BY DEF Written
  <2> QED BY <2>1
<1>5. Len(s) = h + k + 2 /\ h + 2 \in 1..(h + k + 2)
  BY DEF Written
<1>6. \A i \in 1..(h + k + 2) : s[i].line = "empty" <=> i = h + 2
  <2> TAKE i \in 1..(h + k + 2)
  <2>1. CASE i = 1
    BY <1>2, <2>1
  <2>2. CASE i = h + 2
    BY <1>2, <2>2
  <2>3. CASE i - 1 \in 1..h /\ i = 1 + (i - 1)
    <3>1. s[i].line = "header" /\ i # h + 2
      BY <1>3, <2>3
    <3> QED BY <3>1
  <2>4. CASE i - (h + 2) \in 1..k /\ i = h + 2 + (i - (h + 2))
    <3>1. s[i].line = "content"
      BY <1>4, <2>4
    <3>2. i # h + 2
      BY <2>4
    <3> QED BY <3>1, <3>2
  <2> QED BY <1>1, <2>1, <2>2, <2>3, <2>4
<1>7. I = {h + 2}
  BY <1>5, <1>6
<1>8. Min(I) = h + 2
  BY <1>7 DEF Min
<1>9. EndOfHeaders(s) = IF I # {} THEN Min(I) ELSE 0
  BY DEF EndOfHeaders, SelectInSeq
<1> QED BY <1>7, <1>8, <1>9

\* The lengths a reader finds are those the reply gives.
LEMMA LengthsRead ==
    ASSUME NEW r, NEW h \in Nat, NEW k \in Nat, NEW s, Written(s, r, h, k)
    PROVE  Lengths(s) = {r.headers[i].value : i \in {j \in 1..h : r.headers[j].name = "Content-Length"}}
<1> DEFINE J == {j \in 1..h : r.headers[j].name = "Content-Length"}
           G == {j \in 2..(h + 1) : s[j].header.name = "Content-Length"}
<1>1. EndOfHeaders(s) - 1 = h + 1
  BY HeadersEnd
<1>2. ASSUME NEW i \in 1..h PROVE s[1 + i].header = r.headers[i]
  <2>1. s[1 + i] = [line |-> "header", header |-> r.headers[i]]
    BY DEF Written
  <2> QED BY <2>1
<1>3. \A i \in 1..h : 1 + i \in 2..(h + 1)
  OBVIOUS
<1>4. \A j \in 2..(h + 1) : j - 1 \in 1..h /\ j = 1 + (j - 1)
  OBVIOUS
<1>5. \A i \in J : 1 + i \in G
  BY <1>2, <1>3
<1>6. \A j \in G : j - 1 \in J
  BY <1>2, <1>4
<1>7. Lengths(s) = {s[i].header.value : i \in G}
  BY <1>1 DEF Lengths
<1>8. {s[i].header.value : i \in G} = {r.headers[i].value : i \in J}
  BY <1>2, <1>4, <1>5, <1>6
<1> QED BY <1>7, <1>8

\* A reply whose only length is that of its content is read whole.
LEMMA ReadsWhole ==
    ASSUME NEW r, NEW h \in Nat, NEW k \in Nat, Shaped(r, h, k),
           NEW s, Written(s, r, h, k), Lengths(s) = {k}
    PROVE  ContentRead(s) = r.content
<1>1. EndOfHeaders(s) = h + 2
  BY HeadersEnd
<1>2. (CHOOSE n \in {k} : TRUE) = k
  OBVIOUS
<1>3. (h + 2 + 1 + k - 1) - (h + 2 + 1) + 1 = k
  OBVIOUS
<1>4. \A i \in 1..k : s[h + 2 + 1 + i - 1].text = r.content[i]
  <2>1. \A i \in 1..k : h + 2 + 1 + i - 1 = h + 2 + i
    OBVIOUS
  <2>2. ASSUME NEW i \in 1..k PROVE s[h + 2 + i].text = r.content[i]
    <3>1. s[h + 2 + i] = [line |-> "content", text |-> r.content[i]]
      BY DEF Written
    <3> QED BY <3>1
  <2> QED BY <2>1, <2>2
<1>5. ContentRead(s) = [i \in 1..k |-> s[h + 2 + 1 + i - 1].text]
  BY <1>1, <1>2, <1>3 DEF ContentRead
<1> QED BY <1>4, <1>5 DEF Shaped

\* r says how long its content of k pieces is, among h headers.
Tells(r, h, k) ==
    /\ Shaped(r, h, k)
    /\ {r.headers[i].value : i \in {j \in 1..h : r.headers[j].name = "Content-Length"}} = {k}

\* A reply that tells its length once is read to its end and no further.
LEMMA TellsWhole ==
    ASSUME NEW r, NEW h \in Nat, NEW k \in Nat, Tells(r, h, k)
    PROVE  /\ ContentRead(ToBuffers(r)) = r.content
           /\ Lengths(ToBuffers(r)) = {k}
           /\ ToBuffers(r)[1] = StatusLine(r.status)
<1> DEFINE s == ToBuffers(r)
<1>1. Written(s, r, h, k)
  BY ReplyWritten DEF Tells
<1> HIDE DEF s
<1>2. Lengths(s) = {k}
  BY <1>1, LengthsRead DEF Tells
<1>3. ContentRead(s) = r.content
  BY <1>1, <1>2, ReadsWhole DEF Tells
<1>4. s[1] = StatusLine(r.status)
  BY <1>1 DEF Written
<1> QED BY <1>2, <1>3, <1>4 DEF s
-----------------------------------------------------------------------------
(* The replies of the request handler. *)

\* Two headers, of which the first alone is the length.
LEMMA TwoHeaders ==
    ASSUME NEW r, NEW k \in Nat, NEW name, NEW value, name # "Content-Length",
           r.headers = <<Header("Content-Length", k), Header(name, value)>>,
           r.content = [i \in 1..k |-> r.content[i]]
    PROVE  Tells(r, 2, k)
<1> DEFINE J == {j \in 1..2 : r.headers[j].name = "Content-Length"}
<1>1. r.headers = [i \in 1..2 |-> r.headers[i]]
  OBVIOUS
<1>2. r.headers[1].name = "Content-Length" /\ r.headers[1].value = k
  BY DEF Header
<1>3. r.headers[2].name # "Content-Length"
  BY DEF Header
<1>4. \A i \in 1..2 : i = 1 \/ i = 2
  OBVIOUS
<1>5. J = {1}
  BY <1>2, <1>3, <1>4
<1>6. {r.headers[i].value : i \in J} = {k}
  BY <1>2, <1>5
<1> QED BY <1>1, <1>6 DEF Tells, Shaped

\* A stock reply tells its length.
LEMMA StockTells == Tells(StockReply(400), 2, 3) /\ StockReply(400).status = 400
<1> DEFINE r == StockReply(400)
<1>1. StockContent(400) = <<"<html>", 400, "</html>">>
  BY DEF StockContent, Status
<1>2. Len(StockContent(400)) = 3
  BY <1>1
<1>3. r.content = [i \in 1..3 |-> r.content[i]]
  BY <1>1 DEF StockReply
<1>4. r.headers = <<Header("Content-Length", 3), Header("Content-Type", "text/html")>>
  BY <1>2 DEF StockReply
<1>5. r.status = 400
  BY DEF StockReply
<1> HIDE DEF r
<1>6. Tells(r, 2, 3)
  BY <1>3, <1>4, TwoHeaders
<1> QED BY <1>5, <1>6 DEF r

\* The page of the clients tells its length, however many they are.
LEMMA PageTells ==
    ASSUME NEW clients \in Seq(STRING), NEW type
    PROVE  PageLength(clients) \in Nat /\ Tells(PageReply(clients, type), 2, PageLength(clients))
<1> DEFINE r == PageReply(clients, type)
           k == PageLength(clients)
<1> DEFINE T == STRING \cup {"<html>", "</html>"}
           front == <<"<html>">>
           back == <<"</html>">>
<1>1. PageContent(clients) \in Seq(T)
  <2>1. front \in [1..1 -> T] /\ back \in [1..1 -> T]
    OBVIOUS
  <2>2. Len(clients) \in Nat /\ clients \in [1..Len(clients) -> T]
    BY LenProperties
  <2>3. PageContent(clients) = (front \o clients) \o back
    BY DEF PageContent
  <2> HIDE DEF T, front, back
  <2>4. front \in Seq(T) /\ back \in Seq(T) /\ clients \in Seq(T)
    BY <2>1, <2>2, Listed
  <2> QED BY <2>3, <2>4, ConcatProperties
<1>2. k \in Nat /\ PageContent(clients) = [i \in 1..k |-> PageContent(clients)[i]]
  BY <1>1, LenProperties DEF PageLength
<1>3. r.content = PageContent(clients)
  BY DEF PageReply
<1>4. r.headers = <<Header("Content-Length", k), Header("", type)>>
  BY DEF PageReply
<1> HIDE DEF r, k
<1>5. Tells(r, 2, k)
  BY <1>2, <1>3, <1>4, TwoHeaders
<1> QED BY <1>2, <1>5 DEF r, k

\* The stream has no length.
LEMMA StreamUntold ==
    /\ Lengths(ToBuffers(StreamReply)) = {}
    /\ ToBuffers(StreamReply)[1] = StatusLine(200)
<1> DEFINE r == StreamReply
           s == ToBuffers(r)
           J == {j \in 1..2 : r.headers[j].name = "Content-Length"}
<1>1. r.headers = [i \in 1..2 |-> r.headers[i]] /\ r.content = [i \in 1..0 |-> r.content[i]]
  BY DEF StreamReply
<1>2. r.headers[1].name # "Content-Length" /\ r.headers[2].name # "Content-Length"
  BY DEF StreamReply, Header
<1>3. r.status = 200
  BY DEF StreamReply
<1>4. \A i \in 1..2 : i = 1 \/ i = 2
  OBVIOUS
<1>5. J = {}
  BY <1>2, <1>4
<1>6. Shaped(r, 2, 0)
  BY <1>1 DEF Shaped
<1> HIDE DEF r
<1>7. Written(s, r, 2, 0)
  BY <1>6, ReplyWritten
<1> HIDE DEF s
<1>8. Lengths(s) = {}
  <2>1. Lengths(s) = {r.headers[i].value : i \in J}
    BY <1>7, LengthsRead
  <2> QED BY <1>5, <2>1
<1>9. s[1] = StatusLine(200)
  BY <1>3, <1>7 DEF Written
<1> QED BY <1>8, <1>9 DEF r, s
-----------------------------------------------------------------------------
\* What a request may be answered, and with which list.
ReplyInv ==
    /\ shm_map \in ClientLists /\ seen \in ClientLists
    /\ \/ reply \in {NoReply, StockReply(400), StreamReply}
       \/ \E type : reply = PageReply(seen, type)

\* No step changes a reply, nor what it was made of.
LEMMA ReplyStep == ReplyInv /\ [HandlerNext]_handlerVars => ReplyInv'
<1> SUFFICES ASSUME ReplyInv, [HandlerNext]_handlerVars PROVE ReplyInv'
    OBVIOUS
<1>1. ASSUME NEW uri \in Uris, HandleRequest(uri) PROVE ReplyInv'
  <2> DEFINE path == Before(Decode(uri), "?")
             type == MimeType(Extension(path))
  <2>1. reply' \in {StockReply(400), StreamReply, PageReply(shm_map, type)}
    BY <1>1 DEF HandleRequest
  <2>2. seen' = shm_map /\ shm_map' = shm_map
    BY <1>1 DEF HandleRequest
  <2> HIDE DEF type
  <2> QED BY <2>1, <2>2 DEF ReplyInv
<1>2. CASE ClientsChange
  BY <1>2 DEF ClientsChange, ReplyInv
<1>3. CASE UNCHANGED handlerVars
  BY <1>3 DEF handlerVars, ReplyInv
<1> QED BY <1>1, <1>2, <1>3 DEF HandlerNext

\* What ReplyInv says of a reply is enough for its reader.
LEMMA ReplyReadNow == ReplyInv => ReplyRead
<1> SUFFICES ASSUME ReplyInv, reply # NoReply
             PROVE  /\ ToBuffers(reply)[1].code = reply.status
                    /\ reply.keep_open <=> Lengths(ToBuffers(reply)) = {}
                    /\ ~reply.keep_open =>
                           ContentRead(ToBuffers(reply)) =
                               IF reply.status = 400 THEN StockContent(400) ELSE PageContent(seen)
    BY DEF ReplyRead, Streams, PageContent
<1>1. StatusLine(200).code = 200 /\ StatusLine(400).code = 400
  BY DEF StatusLine, Status
<1>2. CASE reply = StockReply(400)
  <2>1. /\ StockReply(400).status = 400 /\ StockReply(400).keep_open = FALSE
        /\ StockReply(400).content = StockContent(400)
    BY DEF StockReply
  <2>2. /\ ContentRead(ToBuffers(StockReply(400))) = StockReply(400).content
        /\ Lengths(ToBuffers(StockReply(400))) = {3}
        /\ ToBuffers(StockReply(400))[1] = StatusLine(400)
    BY <2>1, StockTells, TellsWhole
  <2> QED BY <1>1, <1>2, <2>1, <2>2
<1>3. CASE reply = StreamReply
  <2>1. StreamReply.status = 200 /\ StreamReply.keep_open = TRUE
    BY DEF StreamReply
  <2> QED BY <1>1, <1>3, <2>1, StreamUntold
<1>4. ASSUME NEW type, reply = PageReply(seen, type)
      PROVE  /\ ToBuffers(reply)[1].code = reply.status
             /\ reply.keep_open <=> Lengths(ToBuffers(reply)) = {}
             /\ ~reply.keep_open =>
                    ContentRead(ToBuffers(reply)) =
                        IF reply.status = 400 THEN StockContent(400) ELSE PageContent(seen)
  <2>1. reply.status = 200 /\ reply.keep_open = FALSE /\ reply.content = PageContent(seen)
    BY <1>4 DEF PageReply
  <2>2. seen \in Seq(STRING)
    BY ListAssumption DEF ReplyInv
  <2>3. PageLength(seen) \in Nat /\ Tells(reply, 2, PageLength(seen))
    BY <1>4, <2>2, PageTells
  <2>4. /\ ContentRead(ToBuffers(reply)) = reply.content
        /\ Lengths(ToBuffers(reply)) = {PageLength(seen)}
        /\ ToBuffers(reply)[1] = StatusLine(reply.status)
    BY <2>3, TellsWhole
  <2> QED BY <1>1, <2>1, <2>4
<1> QED BY <1>2, <1>3, <1>4 DEF ReplyInv

\* A browser that goes by the length reads all of each page, with the clients that
\* were in the list when it asked, however long the list is and whatever becomes
\* of it while the page is written; the stream alone has no end.
THEOREM ReplyReadAlways == HandlerSpec => []ReplyRead
<1>1. HandlerInit => ReplyInv
  BY DEF HandlerInit, ReplyInv
<1> QED BY <1>1, ReplyStep, ReplyReadNow, PTL DEF HandlerSpec
-----------------------------------------------------------------------------
(* What url_decode computes. *)

\* Is there an escape at i that url_decode accepts?
Escaped(w, i) == i + 2 <= Len(w) /\ NumberIn(w[i + 1], w[i + 2]) < 256

\* o is the function that Decode recurs over.
IsOut(o, w) ==
    o = [i \in 1..(Len(w) + 3) |->
            CASE i > Len(w) -> <<>>
              [] i <= Len(w) /\ w[i] = "%" ->
                    IF i + 2 <= Len(w) /\ NumberIn(w[i + 1], w[i + 2]) < 256
                    THEN <<CharOf(NumberIn(w[i + 1], w[i + 2]))>> \o o[i + EscapeLength]
                    ELSE <<"invalid">>
              [] i <= Len(w) /\ w[i] = "+" -> <<"SP">> \o o[i + 1]
              [] OTHER -> <<w[i]>> \o o[i + 1]]
Out(w) == CHOOSE o : IsOut(o, w)

\* Its value at i, in a form without overlapping cases.
At(o, w, i) ==
    IF w[i] = "%"
    THEN IF Escaped(w, i) THEN <<CharOf(NumberIn(w[i + 1], w[i + 2]))>> \o o[i + 3]
         ELSE <<"invalid">>
    ELSE IF w[i] = "+" THEN <<"SP">> \o o[i + 1] ELSE <<w[i]>> \o o[i + 1]

\* What it is at each place, up to the end.
Decodes(o, w) == o[Len(w) + 1] = <<>> /\ \A i \in 1..Len(w) : o[i] = At(o, w, i)

\* At is what Decode recurs by.
LEMMA OutIs ==
    ASSUME NEW C, NEW w \in Seq(C), NEW o
    PROVE  IsOut(o, w) <=>
               o = [i \in 1..(Len(w) + 3) |-> IF i > Len(w) THEN <<>> ELSE At(o, w, i)]
<1> DEFINE Body(i) == CASE i > Len(w) -> <<>>
              [] i <= Len(w) /\ w[i] = "%" ->
                    IF i + 2 <= Len(w) /\ NumberIn(w[i + 1], w[i + 2]) < 256
                    THEN <<CharOf(NumberIn(w[i + 1], w[i + 2]))>> \o o[i + EscapeLength]
                    ELSE <<"invalid">>
              [] i <= Len(w) /\ w[i] = "+" -> <<"SP">> \o o[i + 1]
              [] OTHER -> <<w[i]>> \o o[i + 1]
           Plain(i) == IF i > Len(w) THEN <<>> ELSE At(o, w, i)
<1>1. Len(w) \in Nat
  BY LenProperties
<1>2. ASSUME NEW i \in 1..(Len(w) + 3) PROVE Body(i) = Plain(i)
  <2>1. i <= Len(w) <=> ~(i > Len(w))
    BY <1>1
  <2>2. CASE i > Len(w)
    BY <2>1, <2>2
  <2>3. CASE ~(i > Len(w)) /\ w[i] = "%"
    BY <2>1, <2>3 DEF At, Escaped, EscapeLength
  <2>4. CASE ~(i > Len(w)) /\ w[i] # "%"
    BY <2>1, <2>4 DEF At
  <2> QED BY <2>2, <2>3, <2>4
<1>3. IsOut(o, w) <=> o = [i \in 1..(Len(w) + 3) |-> Body(i)]
  BY DEF IsOut
<1> HIDE DEF Body, Plain
<1>4. [i \in 1..(Len(w) + 3) |-> Body(i)] = [i \in 1..(Len(w) + 3) |-> Plain(i)]
  BY <1>2
<1> QED BY <1>3, <1>4 DEF Plain

\* What url_decode may write in place of another character.
Codes == {Ascii[v] : v \in DOMAIN Ascii} \cup {"#", "SP", "invalid"}

\* An escape is written as one of Codes.
LEMMA CharIsCode == \A v : CharOf(v) \in Codes
BY DEF CharOf, Codes

\* The function that Decode recurs over exists, although it goes on one or three
\* characters further on: it is built from the end of w.
LEMMA OutDecodes ==
    ASSUME NEW C, Codes \subseteq C, NEW w \in Seq(C)
    PROVE  IsOut(Out(w), w) /\ Decodes(Out(w), w) /\ Decode(w) = Out(w)[1]
<1> DEFINE n == Len(w)
           S == Seq(C)
           Place(m) == n + 1 - m
           g == [m \in Nat |-> [s \in S |->
                   IF m \in 1..n
                   THEN IF w[Place(m)] = "%"
                        THEN IF Escaped(w, Place(m))
                             THEN <<CharOf(NumberIn(w[Place(m) + 1], w[Place(m) + 2]))>> \o s
                             ELSE <<"invalid">>
                        ELSE IF w[Place(m)] = "+" THEN <<"SP">> \o s ELSE <<w[Place(m)]>> \o s
                   ELSE s]]
           p == [m \in Nat |-> IF m > 2 /\ m <= n /\ w[Place(m)] = "%" THEN m - 3
                               ELSE IF m = 0 THEN 0 ELSE m - 1]
<1>1. n \in Nat /\ \A i \in 1..n : w[i] \in C
  BY LenProperties, ElementOfSeq
<1>2. <<>> \in S
  BY EmptySeq
<1>3. g \in [Nat -> [S -> S]]
  <2>1. ASSUME NEW x \in C, NEW s \in S PROVE <<x>> \in S /\ <<x>> \o s \in S
    BY ConcatProperties
  <2>2. \A m \in 1..n : w[Place(m)] \in C
    BY <1>1
  <2>3. "invalid" \in C /\ "SP" \in C /\ Codes \subseteq C
    BY DEF Codes
  <2> HIDE DEF S, Place, n
  <2>4. ASSUME NEW m \in Nat, NEW s \in S
        PROVE  (IF m \in 1..n
                THEN IF w[Place(m)] = "%"
                     THEN IF Escaped(w, Place(m))
                          THEN <<CharOf(NumberIn(w[Place(m) + 1], w[Place(m) + 2]))>> \o s
                          ELSE <<"invalid">>
                     ELSE IF w[Place(m)] = "+" THEN <<"SP">> \o s ELSE <<w[Place(m)]>> \o s
                ELSE s) \in S
    BY <2>1, <2>2, <2>3, CharIsCode
  <2> QED BY <2>4
<1>4. Descends(p)
  <2>1. p \in [Nat -> Nat] /\ \A m \in Nat : m > 0 => p[m] < m
    BY <1>1
  <2> QED BY <2>1 DEF Descends
<1>5. PICK f \in [Nat -> S] : Recurs(f, Nat, <<>>, g, p)
  <2> HIDE DEF g, p, S
  <2> QED BY <1>2, <1>3, <1>4, RecursionExists
<1> DEFINE o == [i \in 1..(n + 3) |-> IF i > n THEN <<>> ELSE f[n + 1 - i]]
<1>6. Decodes(o, w)
  <2>1. o[n + 1] = <<>>
    BY <1>1
  <2>2. f[0] = <<>>
    BY <1>5 DEF Recurs
  <2>3. \A i \in 1..(n + 1) : o[i] = f[n + 1 - i] /\ f[n + 1 - i] \in S
    <3> SUFFICES ASSUME NEW i \in 1..(n + 1)
                 PROVE  o[i] = f[n + 1 - i] /\ f[n + 1 - i] \in S
        OBVIOUS
    <3>1. i \in 1..(n + 3) /\ n + 1 - i \in Nat /\ (i > n => n + 1 - i = 0)
      <4>1. n \in Nat
        BY <1>1
      <4> HIDE DEF n
      <4> QED BY <4>1
    <3>2. f[n + 1 - i] \in S
      BY <3>1
    <3> HIDE DEF S
    <3> QED BY <2>2, <3>1, <3>2
  <2>4. ASSUME NEW i \in 1..n
        PROVE  o[i] = At(o, w, i)
    <3> DEFINE m == n + 1 - i
    <3>1. m \in Nat /\ m \in 1..n /\ m # 0 /\ Place(m) = i /\ i \in 1..(n + 1)
      <4>1. n \in Nat
        BY <1>1
      <4> HIDE DEF n
      <4> QED BY <4>1
    <3>2. f[m] = g[m][f[p[m]]]
      BY <1>5, <3>1 DEF Recurs
    <3>3. o[i] = f[m]
      BY <2>3, <3>1
    <3>4. CASE w[i] = "%" /\ Escaped(w, i)
      <4>1. i + 2 <= n /\ i + 3 \in 1..(n + 1) /\ m > 2 /\ m - 3 = n + 1 - (i + 3)
        <5>1. n \in Nat /\ i + 2 <= n
          BY <1>1, <3>4 DEF Escaped
        <5> HIDE DEF n
        <5> QED BY <5>1
      <4>2. p[m] = m - 3
        BY <3>1, <3>4, <4>1
      <4>3. f[p[m]] = o[i + 3] /\ f[p[m]] \in S
        BY <2>3, <4>1, <4>2
      <4>4. g[m][f[p[m]]] = <<CharOf(NumberIn(w[i + 1], w[i + 2]))>> \o f[p[m]]
        BY <3>1, <3>4, <4>3
      <4> QED BY <3>2, <3>3, <3>4, <4>3, <4>4 DEF At
    <3>5. CASE w[i] = "%" /\ ~Escaped(w, i)
      <4>1. f[p[m]] \in S
        <5>1. p[m] \in Nat
          BY <1>4, <3>1 DEF Descends
        <5> QED BY <5>1
      <4>2. g[m][f[p[m]]] = <<"invalid">>
        BY <3>1, <3>5, <4>1
      <4> QED BY <3>2, <3>3, <3>5, <4>2 DEF At
    <3>6. CASE w[i] # "%"
      <4>1. i + 1 \in 1..(n + 1) /\ m - 1 = n + 1 - (i + 1)
        BY <1>1
      <4>2. p[m] = m - 1
        BY <3>1, <3>6
      <4>3. f[p[m]] = o[i + 1] /\ f[p[m]] \in S
        BY <2>3, <4>1, <4>2
      <4>4. g[m][f[p[m]]] = IF w[i] = "+" THEN <<"SP">> \o f[p[m]] ELSE <<w[i]>> \o f[p[m]]
        BY <3>1, <3>6, <4>3
      <4> QED BY <3>2, <3>3, <3>6, <4>3, <4>4 DEF At
    <3> QED BY <3>4, <3>5, <3>6
  <2> HIDE DEF o
  <2> QED BY <2>1, <2>4 DEF Decodes
<1>7. IsOut(o, w)
  <2>1. o = [i \in 1..(n + 3) |-> IF i > n THEN <<>> ELSE At(o, w, i)]
    <3>1. \A i \in 1..(n + 3) : i > n \/ i \in 1..n
      BY <1>1
    <3>2. o = [i \in 1..(n + 3) |-> IF i > n THEN <<>> ELSE o[i]]
      BY <1>1
    <3> HIDE DEF o
    <3> QED BY <1>6, <3>1, <3>2 DEF Decodes
  <2> HIDE DEF o
  <2> QED BY <2>1, OutIs
<1>8. IsOut(Out(w), w)
  <2> HIDE DEF o
  <2> QED BY <1>7 DEF Out
<1>10. Decodes(Out(w), w)
  <2> DEFINE e == Out(w)
  <2>1. e = [i \in 1..(n + 3) |-> IF i > n THEN <<>> ELSE At(e, w, i)]
    BY <1>8, OutIs
  <2> HIDE DEF e
  <2>2. n + 1 \in 1..(n + 3) /\ n + 1 > n /\ \A i \in 1..n : i \in 1..(n + 3) /\ ~(i > n)
    <3>1. n \in Nat
      BY <1>1
    <3> HIDE DEF n
    <3> QED BY <3>1
  <2>3. Decodes(e, w)
    BY <2>1, <2>2 DEF Decodes
  <2> QED BY <2>3 DEF e
<1>9. Decode(w) = Out(w)[1]
  BY DEF Decode, Out, IsOut
<1> QED BY <1>8, <1>9, <1>10

\* The last characters are decoded alike behind whatever stands before them.
LEMMA OutShift ==
    ASSUME NEW C, Codes \subseteq C, NEW e \in Seq(C), NEW w \in Seq(C)
    PROVE  Out(e \o w)[Len(e) + 1] = Decode(w)
<1> DEFINE v == e \o w
           n == Len(w)
           k == Len(e)
           a == Out(v)
           b == Out(w)
           T == {m \in 0..n : \A j \in 0..m : a[k + n + 1 - j] = b[n + 1 - j]}
<1>1. /\ n \in Nat /\ k \in Nat /\ v \in Seq(C) /\ Len(v) = k + n
      /\ \A i \in 1..n : k + i \in 1..(k + n) /\ v[k + i] = w[i]
  BY LenProperties, ConcatProperties
<1>2. Decodes(a, v) /\ Decodes(b, w) /\ Decode(w) = b[1]
  BY <1>1, OutDecodes
<1> HIDE DEF v, n, k, a, b
<1>3. 0 \in T
  <2>1. a[k + n + 1] = <<>> /\ b[n + 1] = <<>>
    BY <1>1, <1>2 DEF Decodes, n
  <2>2. \A j \in 0..0 : a[k + n + 1 - j] = b[n + 1 - j]
    BY <1>1, <2>1
  <2> QED BY <1>1, <2>2
<1>4. ASSUME NEW m \in 1..n, m - 1 \in T PROVE m \in T
  <2>1. \A j \in 0..(m - 1) : a[k + n + 1 - j] = b[n + 1 - j]
    BY <1>4
  <2> DEFINE i == n + 1 - m
  <2>2. i \in 1..n /\ k + i \in 1..(k + n) /\ v[k + i] = w[i]
    BY <1>1
  <2>3. a[k + i + 1] = b[i + 1]
    <3>1. m - 1 \in 0..(m - 1) /\ k + n + 1 - (m - 1) = k + i + 1 /\ n + 1 - (m - 1) = i + 1
      BY <1>1
    <3> QED BY <2>1, <3>1
  <2>4. i + 2 <= n => /\ a[k + i + 3] = b[i + 3] /\ v[k + i + 1] = w[i + 1]
                      /\ v[k + i + 2] = w[i + 2]
    <3> SUFFICES ASSUME i + 2 <= n
                 PROVE  /\ a[k + i + 3] = b[i + 3] /\ v[k + i + 1] = w[i + 1]
                        /\ v[k + i + 2] = w[i + 2]
        OBVIOUS
    <3>1. /\ m - 3 \in 0..(m - 1) /\ k + n + 1 - (m - 3) = k + i + 3 /\ n + 1 - (m - 3) = i + 3
          /\ i + 1 \in 1..n /\ i + 2 \in 1..n /\ k + i + 1 = k + (i + 1) /\ k + i + 2 = k + (i + 2)
      BY <1>1
    <3>2. a[k + n + 1 - (m - 3)] = b[n + 1 - (m - 3)]
      BY <2>1, <3>1
    <3>3. v[k + (i + 1)] = w[i + 1] /\ v[k + (i + 2)] = w[i + 2]
      BY <1>1, <3>1
    <3> HIDE DEF i
    <3> QED BY <3>1, <3>2, <3>3
  <2>5. Escaped(v, k + i) <=> Escaped(w, i)
    <3>1. k + i + 2 <= k + n <=> i + 2 <= n
      BY <1>1, <2>2
    <3> QED BY <1>1, <2>4, <3>1 DEF Escaped, n
  <2>6. a[k + i] = b[i]
    <3>1. a[k + i] = At(a, v, k + i)
      BY <1>1, <1>2, <2>2 DEF Decodes
    <3>2. b[i] = At(b, w, i)
      BY <1>2, <2>2 DEF Decodes, n
    <3>3. Escaped(w, i) => i + 2 <= n
      BY DEF Escaped, n
    <3> QED BY <2>2, <2>3, <2>4, <2>5, <3>1, <3>2, <3>3 DEF At
  <2>7. \A j \in 0..m : j = m \/ j \in 0..(m - 1)
    OBVIOUS
  <2>8. k + n + 1 - m = k + i /\ n + 1 - m = i /\ m \in 0..n
    BY <1>1
  <2> QED BY <2>1, <2>6, <2>7, <2>8
<1> HIDE DEF T
<1>5. n \in T
  <2>1. 0..n \subseteq T
    BY <1>1, <1>3, <1>4, UpTo
  <2> QED BY <1>1, <2>1
<1>6. a[k + n + 1 - n] = b[n + 1 - n]
  BY <1>1, <1>5 DEF T
<1>7. k + n + 1 - n = k + 1 /\ n + 1 - n = 1
  BY <1>1
<1> QED BY <1>2, <1>6, <1>7 DEF a, v, k

\* What is decoded is made of the characters there are.
LEMMA DecodeType ==
    ASSUME NEW C, Codes \subseteq C, NEW w \in Seq(C)
    PROVE  Decode(w) \in Seq(C) /\ Decode(<<>>) = <<>>
<1> DEFINE n == Len(w)
           b == Out(w)
           S == Seq(C)
           T == {m \in 0..n : \A j \in 0..m : b[n + 1 - j] \in S}
<1>1. n \in Nat /\ (\A i \in 1..n : w[i] \in C) /\ <<>> \in S
  BY LenProperties, ElementOfSeq, EmptySeq
<1>2. Decodes(b, w) /\ Decode(w) = b[1]
  BY OutDecodes
<1>3. ASSUME NEW x \in C, NEW s \in S PROVE <<x>> \in S /\ <<x>> \o s \in S
  BY ConcatProperties
<1>4. "invalid" \in C /\ "SP" \in C
  BY DEF Codes
<1> HIDE DEF n, b, S
<1>5. 0 \in T
  <2>1. \A j \in 0..0 : n + 1 - j = n + 1
    BY <1>1
  <2>2. b[n + 1] \in S
    BY <1>1, <1>2 DEF Decodes, n
  <2> QED BY <1>1, <2>1, <2>2
<1>6. ASSUME NEW m \in 1..n, m - 1 \in T PROVE m \in T
  <2> DEFINE i == n + 1 - m
  <2>1. i \in 1..n /\ m \in 0..n /\ \A j \in 0..m : j = m \/ j \in 0..(m - 1)
    BY <1>1
  <2>2. \A j \in 0..(m - 1) : b[n + 1 - j] \in S
    BY <1>6
  <2>3. b[i + 1] \in S
    <3>1. m - 1 \in 0..(m - 1) /\ n + 1 - (m - 1) = i + 1
      BY <1>1
    <3> QED BY <2>2, <3>1
  <2>4. ASSUME i + 2 <= n PROVE b[i + 3] \in S
    <3>1. m - 3 \in 0..(m - 1) /\ n + 1 - (m - 3) = i + 3
      BY <1>1, <2>4
    <3> QED BY <2>2, <3>1
  <2>5. b[i] = At(b, w, i)
    BY <1>2, <2>1 DEF Decodes, n
  <2> HIDE DEF i
  <2>6. Escaped(w, i) => i + 2 <= n
    BY DEF Escaped, n
  <2>7. At(b, w, i) \in S
    <3>1. CharOf(NumberIn(w[i + 1], w[i + 2])) \in C
      BY CharIsCode
    <3>2. <<"invalid">> \in S
      BY <1>1, <1>3, <1>4
    <3> QED BY <1>1, <1>3, <1>4, <2>1, <2>3, <2>4, <2>6, <3>1, <3>2 DEF At
  <2>8. b[n + 1 - m] \in S
    BY <2>5, <2>7 DEF i
  <2> QED BY <2>1, <2>2, <2>8
<1> HIDE DEF T
<1>7. n \in T
  <2>1. 0..n \subseteq T
    BY <1>1, <1>5, <1>6, UpTo
  <2> QED BY <1>1, <2>1
<1>8. Decode(w) \in S
  <2>1. b[n + 1 - n] \in S
    BY <1>1, <1>7 DEF T
  <2>2. n + 1 - n = 1
    BY <1>1
  <2> QED BY <1>2, <2>1, <2>2
<1>9. Decode(<<>>) = <<>>
  <2>1. <<>> \in Seq(C) /\ Len(<<>>) = 0
    BY EmptySeq, Zenon
  <2>2. Decodes(Out(<<>>), <<>>) /\ Decode(<<>>) = Out(<<>>)[1]
    BY <2>1, OutDecodes
  <2>3. Len(<<>>) + 1 = 1
    BY <2>1
  <2> QED BY <2>2, <2>3 DEF Decodes
<1> QED BY <1>8, <1>9 DEF S

\* A character that is none of url_decode's own stands for itself.
LEMMA DecodePlain ==
    ASSUME NEW C, Codes \subseteq C, NEW w \in Seq(C), NEW c \in C, c \notin {"%", "+"}
    PROVE  Decode(<<c>> \o w) = <<c>> \o Decode(w)
<1> DEFINE e == <<c>>
           v == e \o w
<1>1. e \in Seq(C) /\ Len(e) = 1 /\ e[1] = c
  OBVIOUS
<1> HIDE DEF e
<1>2. v \in Seq(C) /\ v[1] = c /\ 1 \in 1..Len(v)
  <2>1. /\ v \in Seq(C) /\ Len(v) = Len(e) + Len(w) /\ Len(w) \in Nat
        /\ \A i \in 1..(Len(e) + Len(w)) : v[i] = IF i <= Len(e) THEN e[i] ELSE w[i - Len(e)]
    BY <1>1, ConcatProperties, LenProperties
  <2> HIDE DEF v
  <2> QED BY <1>1, <2>1
<1>3. Out(v)[Len(e) + 1] = Decode(w)
  BY <1>1, OutShift
<1> HIDE DEF v
<1>4. Decode(v) = At(Out(v), v, 1)
  BY <1>2, OutDecodes DEF Decodes
<1>5. At(Out(v), v, 1) = <<c>> \o Out(v)[2]
  BY <1>2 DEF At
<1> QED BY <1>1, <1>3, <1>4, <1>5 DEF v, e

\* An escape stands for the character whose code it has.
EscapeMeans(x, y, w) ==
    Decode(<<"%", x, y>> \o w) = <<CharOf(NumberIn(x, y))>> \o Decode(w)

LEMMA DecodeEscape ==
    ASSUME NEW C, Codes \subseteq C, NEW w \in Seq(C), "%" \in C, NEW x \in C, NEW y \in C,
           NumberIn(x, y) < 256
    PROVE  EscapeMeans(x, y, w)
<1> DEFINE e == <<"%", x, y>>
           v == e \o w
<1>1. e \in Seq(C) /\ Len(e) = 3 /\ e[1] = "%" /\ e[2] = x /\ e[3] = y
  OBVIOUS
<1> HIDE DEF e
<1>2. v \in Seq(C) /\ v[1] = "%" /\ v[2] = x /\ v[3] = y /\ 1 \in 1..Len(v) /\ 1 + 2 <= Len(v)
  <2>1. /\ v \in Seq(C) /\ Len(v) = Len(e) + Len(w) /\ Len(w) \in Nat
        /\ \A i \in 1..(Len(e) + Len(w)) : v[i] = IF i <= Len(e) THEN e[i] ELSE w[i - Len(e)]
    BY <1>1, ConcatProperties, LenProperties
  <2> HIDE DEF v
  <2>2. \A i \in 1..3 : v[i] = e[i]
    BY <1>1, <2>1
  <2> QED BY <1>1, <2>1, <2>2
<1>3. Out(v)[Len(e) + 1] = Decode(w)
  BY <1>1, OutShift
<1> HIDE DEF v
<1>4. Decode(v) = At(Out(v), v, 1)
  BY <1>2, OutDecodes DEF Decodes
<1>5. At(Out(v), v, 1) = <<CharOf(NumberIn(x, y))>> \o Out(v)[4]
  <2>1. 1 + 1 = 2 /\ 1 + 2 = 3 /\ 1 + 3 = 4
    OBVIOUS
  <2> QED BY <1>2, <2>1 DEF At, Escaped
<1>6. Len(e) + 1 = 4
  BY <1>1
<1> QED BY <1>3, <1>4, <1>5, <1>6 DEF EscapeMeans, v, e

\* Escapes are the codes of their characters.
LEMMA EscapesRight ==
    \A c \in DOMAIN Escapes : \E x, y \in {"2", "3", "6", "d", "e", "f"} :
        /\ Escapes[c] = <<"%", x, y>>
        /\ NumberIn(x, y) < 256 /\ CharOf(NumberIn(x, y)) = c
<1>1. NumberIn("2", "f") = 47 /\ NumberIn("2", "e") = 46 /\ NumberIn("3", "f") = 63
      /\ NumberIn("3", "d") = 61 /\ NumberIn("2", "6") = 38
  BY DEF NumberIn, HexValue
<1>2. CharOf(47) = "/" /\ CharOf(46) = "." /\ CharOf(63) = "?" /\ CharOf(61) = "=" /\ CharOf(38) = "&"
  BY DEF CharOf, Ascii
<1>3. DOMAIN Escapes = {"/", ".", "?", "=", "&"}
  BY DEF Escapes
<1>4. /\ Escapes["/"] = <<"%", "2", "f">> /\ Escapes["."] = <<"%", "2", "e">>
      /\ Escapes["?"] = <<"%", "3", "f">> /\ Escapes["="] = <<"%", "3", "d">>
      /\ Escapes["&"] = <<"%", "2", "6">>
  BY DEF Escapes
<1> HIDE DEF Escapes
<1>5. 47 < 256 /\ 46 < 256 /\ 63 < 256 /\ 61 < 256 /\ 38 < 256
  OBVIOUS
<1>6. ASSUME NEW c \in DOMAIN Escapes
      PROVE  \E x, y \in {"2", "3", "6", "d", "e", "f"} :
                 /\ Escapes[c] = <<"%", x, y>>
                 /\ NumberIn(x, y) < 256 /\ CharOf(NumberIn(x, y)) = c
  <2>1. CASE c = "/"
    <3> WITNESS "2" \in {"2", "3", "6", "d", "e", "f"}, "f" \in {"2", "3", "6", "d", "e", "f"}
    <3> QED BY <1>1, <1>2, <1>4, <1>5, <2>1
  <2>2. CASE c = "."
    <3> WITNESS "2" \in {"2", "3", "6", "d", "e", "f"}, "e" \in {"2", "3", "6", "d", "e", "f"}
    <3> QED BY <1>1, <1>2, <1>4, <1>5, <2>2
  <2>3. CASE c = "?"
    <3> WITNESS "3" \in {"2", "3", "6", "d", "e", "f"}, "f" \in {"2", "3", "6", "d", "e", "f"}
    <3> QED BY <1>1, <1>2, <1>4, <1>5, <2>3
  <2>4. CASE c = "="
    <3> WITNESS "3" \in {"2", "3", "6", "d", "e", "f"}, "d" \in {"2", "3", "6", "d", "e", "f"}
    <3> QED BY <1>1, <1>2, <1>4, <1>5, <2>4
  <2>5. CASE c = "&"
    <3> WITNESS "2" \in {"2", "3", "6", "d", "e", "f"}, "6" \in {"2", "3", "6", "d", "e", "f"}
    <3> QED BY <1>1, <1>2, <1>4, <1>5, <2>5
  <2> QED BY <1>3, <2>1, <2>2, <2>3, <2>4, <2>5
<1> QED BY <1>6

\* The characters that an escape may be made of.
Digits == {"%", "2", "3", "6", "d", "e", "f"}

\* What may stand for the character c: itself or its escape.
IsSpelt(e, c) == e = <<c>> \/ (c \in DOMAIN Escapes /\ e = Escapes[c])

\* x is r and then c, spelt.
SpeltAfter(x, r, c) == \E e : x = r \o e /\ IsSpelt(e, c)

\* One more character of a URI is spelt as itself or as its escape.
LEMMA SpeltCases ==
    ASSUME NEW R, NEW c, NEW x \in Spelt(R, c)
    PROVE  \E r \in R : SpeltAfter(x, r, c)
<1>1. CASE \E r \in R : x = r \o <<c>>
  <2>1. PICK r \in R : x = r \o <<c>>
    BY <1>1
  <2>2. IsSpelt(<<c>>, c)
    BY DEF IsSpelt
  <2> QED BY <2>1, <2>2 DEF SpeltAfter
<1>2. CASE c \in DOMAIN Escapes /\ \E r \in R : x = r \o Escapes[c]
  <2>1. PICK r \in R : x = r \o Escapes[c]
    BY <1>2
  <2>2. IsSpelt(Escapes[c], c)
    BY <1>2 DEF IsSpelt
  <2> QED BY <2>1, <2>2 DEF SpeltAfter
<1> QED BY <1>1, <1>2, Zenon DEF Spelt

\* Either of them is decoded as the character, before whatever follows.
LEMMA SpeltOne ==
    ASSUME NEW C, Codes \subseteq C, Digits \subseteq C, NEW c \in C, c \notin {"%", "+"},
           NEW e, IsSpelt(e, c)
    PROVE  e \in Seq(C) /\ \A w \in Seq(C) : Decode(e \o w) = <<c>> \o Decode(w)
<1>1. CASE e = <<c>>
  <2>1. <<c>> \in Seq(C)
    OBVIOUS
  <2> QED BY <1>1, <2>1, DecodePlain
<1>2. CASE c \in DOMAIN Escapes /\ e = Escapes[c]
  <2>1. PICK x, y \in {"2", "3", "6", "d", "e", "f"} :
            /\ Escapes[c] = <<"%", x, y>>
            /\ NumberIn(x, y) < 256 /\ CharOf(NumberIn(x, y)) = c
    BY <1>2, EscapesRight
  <2>2. "%" \in C /\ x \in C /\ y \in C
    BY DEF Digits
  <2>3. <<"%", x, y>> \in Seq(C)
    BY <2>2
  <2>4. ASSUME NEW w \in Seq(C) PROVE Decode(<<"%", x, y>> \o w) = <<c>> \o Decode(w)
    <3>1. NumberIn(x, y) < 256 /\ CharOf(NumberIn(x, y)) = c
      BY <2>1
    <3>2. EscapeMeans(x, y, w)
      BY <2>2, <3>1, DecodeEscape
    <3> QED BY <3>1, <3>2 DEF EscapeMeans
  <2> QED BY <1>2, <2>1, <2>3, <2>4
<1> QED BY <1>1, <1>2 DEF IsSpelt

\* The spellings of one more character.
LEMMA SpellingsAppend ==
    ASSUME NEW C, Digits \subseteq C, NEW t \in Seq(C), NEW c \in C
    PROVE  /\ Spellings(t) \in SUBSET Seq(C)
           /\ Spellings(<<>>) = {<<>>}
           /\ Spellings(Append(t, c)) = Spelt(Spellings(t), c)
<1> DEFINE A == SUBSET Seq(C)
           base == {<<>>}
           g == [x \in C |-> [a \in A |-> Spelt(a, x)]]
           Solves(f, u) == f = [s \in SUBSET DOMAIN u |->
               IF s = {} THEN base ELSE Spelt(f[s \ {Max(s)}], u[Max(s)])]
           Iter(u) == CHOOSE f : Solves(f, u)
<1>1. base \in A
  BY EmptySeq
<1>2. ASSUME NEW a \in A, NEW x \in C PROVE Spelt(a, x) \in A
  <2>1. <<x>> \in Seq(C)
    OBVIOUS
  <2>2. x \in DOMAIN Escapes => Escapes[x] \in Seq(C)
    <3> SUFFICES ASSUME x \in DOMAIN Escapes PROVE Escapes[x] \in Seq(C)
        OBVIOUS
    <3>1. PICK y, z \in {"2", "3", "6", "d", "e", "f"} : Escapes[x] = <<"%", y, z>>
      BY EscapesRight
    <3>2. "%" \in C /\ y \in C /\ z \in C
      BY DEF Digits
    <3> QED BY <3>1, <3>2
  <2>3. \A s \in a : s \o <<x>> \in Seq(C)
    BY <2>1, ConcatProperties
  <2>4. x \in DOMAIN Escapes => \A s \in a : s \o Escapes[x] \in Seq(C)
    BY <2>2, ConcatProperties
  <2> QED BY <2>3, <2>4 DEF Spelt
<1>3. g \in [C -> [A -> A]] /\ \A x \in C, a \in A : g[x][a] = Spelt(a, x)
  BY <1>2
<1> HIDE DEF g, A, base
<1>4. ASSUME NEW u \in Seq(C), NEW s \in SUBSET DOMAIN u, s # {} PROVE u[Max(s)] \in C
  BY <1>4, MaxOf, LenProperties
<1>5. ASSUME NEW u \in Seq(C) PROVE Follows(Iter(u), u, A, base, g)
  <2>1. PICK f \in [SUBSET DOMAIN u -> A] : IsFold(f, u, base, g)
    BY <1>1, <1>3, FoldExists
  <2>2. Solves(f, u)
    BY <1>3, <1>4, <2>1 DEF IsFold
  <2>3. Solves(Iter(u), u)
    BY <2>2
  <2>4. \A s \in SUBSET DOMAIN u :
            Iter(u)[s] = IF s = {} THEN base ELSE Spelt(Iter(u)[s \ {Max(s)}], u[Max(s)])
    BY <2>3
  <2> HIDE DEF Iter
  <2>5. {} \in SUBSET DOMAIN u
    OBVIOUS
  <2> QED BY <1>3, <1>4, <2>4, <2>5 DEF Follows
<1>6. \A u \in Seq(C) : Spellings(u) = Iter(u)[DOMAIN u]
  BY DEF Spellings, FoldLeft, MapThenFoldSet, base
<1>7. Append(t, c) \in Seq(C)
  BY AppendProperties
<1> HIDE DEF Iter
<1>8. /\ Iter(t)[DOMAIN t] \in A
      /\ Iter(Append(t, c))[DOMAIN Append(t, c)] = g[c][Iter(t)[DOMAIN t]]
  <2> DEFINE f == Iter(t)
             f1 == Iter(Append(t, c))
  <2>1. Follows(f, t, A, base, g) /\ Follows(f1, Append(t, c), A, base, g)
    BY <1>5, <1>7
  <2>2. g \in [C -> [A -> A]]
    BY <1>3
  <2> HIDE DEF f, f1
  <2>3. f[DOMAIN t] \in A /\ f1[DOMAIN Append(t, c)] = g[c][f[DOMAIN t]]
    BY <1>1, <2>1, <2>2, FoldAppend
  <2> QED BY <2>3 DEF f, f1
<1>9. Spellings(<<>>) = base
  <2>1. <<>> \in Seq(C) /\ DOMAIN <<>> = {}
    BY EmptySeq
  <2> QED BY <1>5, <1>6, <2>1 DEF Follows
<1> QED BY <1>3, <1>6, <1>7, <1>8, <1>9 DEF A, base

\* url_decode takes any spelling of u back to u, and then goes on.
Means(s, u, C) == s \in Seq(C) /\ \A w \in Seq(C) : Decode(s \o w) = u \o Decode(w)

\* Three sequences may be put together in either order.
Associates(x, y, z) == (x \o y) \o z = x \o (y \o z)

LEMMA Associative ==
    ASSUME NEW C, NEW x \in Seq(C), NEW y \in Seq(C), NEW z \in Seq(C)
    PROVE  Associates(x, y, z)
<1>1. (x \o y) \o z = x \o (y \o z)
  BY ConcatAssociative
<1> QED BY <1>1 DEF Associates

\* A spelling with one more character in it.
LEMMA SpellingStep ==
    ASSUME NEW C, Codes \subseteq C, Digits \subseteq C, NEW c \in C, c \notin {"%", "+"},
           NEW t \in Seq(C), NEW r, Means(r, t, C), NEW e, IsSpelt(e, c)
    PROVE  Means(r \o e, Append(t, c), C)
<1>1. \A x, y \in Seq(C) : x \o y \in Seq(C)
  BY ConcatProperties
<1>2. e \in Seq(C) /\ \A w \in Seq(C) : Decode(e \o w) = <<c>> \o Decode(w)
  BY SpeltOne
<1>3. r \in Seq(C) /\ r \o e \in Seq(C)
  BY <1>1, <1>2 DEF Means
<1>4. ASSUME NEW w \in Seq(C) PROVE Decode((r \o e) \o w) = Append(t, c) \o Decode(w)
  <2> DEFINE d == Decode(w)
             k == <<c>>
  <2>1. d \in Seq(C) /\ k \in Seq(C) /\ e \o w \in Seq(C)
    <3>1. k \in Seq(C)
      OBVIOUS
    <3>2. d \in Seq(C)
      BY DecodeType
    <3>3. e \o w \in Seq(C)
      BY <1>1, <1>2
    <3> QED BY <3>1, <3>2, <3>3
  <2>2. (r \o e) \o w = r \o (e \o w)
    <3>1. r \in Seq(C) /\ e \in Seq(C) /\ w \in Seq(C)
      BY <1>2, <1>3
    <3>2. Associates(r, e, w)
      BY <3>1, Associative
    <3> QED BY <3>2 DEF Associates
  <2>3. Decode(r \o (e \o w)) = t \o Decode(e \o w)
    BY <2>1 DEF Means
  <2>4. Decode(e \o w) = k \o d
    BY <1>2
  <2>5. Append(t, c) = t \o k
    BY AppendIsConcat
  <2> HIDE DEF d, k
  <2>6. (t \o k) \o d = t \o (k \o d)
    <3>1. Associates(t, k, d)
      BY <2>1, Associative
    <3> QED BY <3>1 DEF Associates
  <2> QED BY <2>2, <2>3, <2>4, <2>5, <2>6 DEF d
<1> QED BY <1>3, <1>4 DEF Means

\* Every spelling of u means u: by induction on the length of u.
LEMMA SpellingMeans ==
    ASSUME NEW C, Codes \subseteq C, Digits \subseteq C,
           NEW u \in Seq(C \ {"%", "+"}), NEW s \in Spellings(u)
    PROVE  Means(s, u, C)
<1> DEFINE P == C \ {"%", "+"}
           T == {n \in Nat : \A t \in Seq(P) : Len(t) = n =>
                                \A r \in Spellings(t) : Means(r, t, C)}
<1>1. \A t \in Seq(P) : t \in Seq(C)
  <2>1. P \subseteq C
    OBVIOUS
  <2> HIDE DEF P
  <2> QED BY <2>1, SeqMonotonic
<1>2. 0 \in T
  <2>1. ASSUME NEW t \in Seq(P), Len(t) = 0, NEW r \in Spellings(t) PROVE Means(r, t, C)
    <3>1. t = <<>>
      BY <2>1, EmptySeq
    <3>2. \E x : x \in C
      BY DEF Codes
    <3>3. r = <<>>
      BY <1>1, <2>1, <3>1, <3>2, SpellingsAppend
    <3>4. \A w \in Seq(C) : <<>> \o w = w /\ <<>> \o Decode(w) = Decode(w)
      BY DecodeType, ConcatEmptySeq
    <3>5. <<>> \in Seq(C)
      BY EmptySeq
    <3> QED BY <3>1, <3>3, <3>4, <3>5 DEF Means
  <2> QED BY <2>1
<1>3. ASSUME NEW n \in Nat, n \in T PROVE n + 1 \in T
  <2>1. ASSUME NEW t1 \in Seq(P), Len(t1) = n + 1, NEW r1 \in Spellings(t1)
        PROVE  Means(r1, t1, C)
    <3>1. t1 # <<>>
      <4>1. Len(<<>>) = 0
        BY EmptySeq, Zenon
      <4> QED BY <2>1, <4>1
    <3>2. PICK t \in Seq(P), c \in P : t1 = Append(t, c)
      BY <3>1, SequenceEmptyOrAppend
    <3>3. Len(t) = n /\ t \in Seq(C) /\ c \in C /\ c \notin {"%", "+"}
      <4>1. Len(t1) = Len(t) + 1 /\ Len(t) \in Nat
        BY <3>2, AppendProperties, LenProperties
      <4>2. t \in Seq(C)
        BY <1>1
      <4> QED BY <2>1, <4>1, <4>2
    <3>4. r1 \in Spelt(Spellings(t), c)
      BY <2>1, <3>2, <3>3, SpellingsAppend
    <3>5. PICK r \in Spellings(t) : SpeltAfter(r1, r, c)
      BY <3>4, SpeltCases
    <3>6. PICK e : r1 = r \o e /\ IsSpelt(e, c)
      BY <3>5 DEF SpeltAfter
    <3>7. Means(r, t, C)
      BY <1>3, <3>3
    <3> HIDE DEF P
    <3> QED BY <3>2, <3>3, <3>6, <3>7, SpellingStep
  <2> QED BY <2>1
<1> HIDE DEF T
<1>4. Nat \subseteq T
  BY <1>2, <1>3, NatSetInduction
<1>5. Len(u) \in Nat
  BY LenProperties
<1> QED BY <1>4, <1>5 DEF T

\* However u is spelt, it is u that is decoded.
LEMMA SpellingDecodes ==
    ASSUME NEW C, Codes \subseteq C, Digits \subseteq C,
           NEW u \in Seq(C \ {"%", "+"}), NEW s \in Spellings(u)
    PROVE  Decode(s) = u
<1>1. s \in Seq(C) /\ \A w \in Seq(C) : Decode(s \o w) = u \o Decode(w)
  BY SpellingMeans DEF Means
<1>2. <<>> \in Seq(C) /\ Decode(<<>>) = <<>>
  BY <1>1, EmptySeq, DecodeType
<1>3. u \in Seq(C)
  <2>1. C \ {"%", "+"} \subseteq C
    OBVIOUS
  <2> QED BY <2>1, SeqMonotonic
<1>4. Decode(s \o <<>>) = u \o <<>>
  BY <1>1, <1>2
<1> QED BY <1>1, <1>3, <1>4, ConcatEmptySeq
-----------------------------------------------------------------------------
(* Where a sequence is cut. *)

\* s is a, c and b, one behind the other.
Joins(s, a, c, b, n, k, C) ==
    /\ s \in Seq(C) /\ Len(s) = n + 1 + k
    /\ \A i \in 1..n : s[i] = a[i]
    /\ s[n + 1] = c
    /\ \A i \in 1..k : s[n + 1 + i] = b[i]

\* What is put together is joined.
LEMMA Joined ==
    ASSUME NEW C, NEW n \in Nat, NEW a \in Seq(C), Len(a) = n, NEW c \in C,
           NEW k \in Nat, NEW b \in Seq(C), Len(b) = k
    PROVE  Joins((a \o <<c>>) \o b, a, c, b, n, k, C)
<1> DEFINE e == <<c>>
           d == a \o e
           s == d \o b
<1>1. e \in Seq(C) /\ Len(e) = 1 /\ e[1] = c /\ 1 \in Nat /\ 1 \in 1..1
  OBVIOUS
<1> HIDE DEF e
<1>2. Chain(a \o e, a, n, e, 1, C)
  BY <1>1, Chained
<1>3. d \in Seq(C) /\ Len(d) = n + 1 /\ (\A i \in 1..n : d[i] = a[i]) /\ d[n + 1] = c
  BY <1>1, <1>2 DEF Chain
<1> HIDE DEF d
<1> DEFINE m == n + 1
<1>4. m \in Nat /\ Len(d) = m
  BY <1>3
<1> HIDE DEF m
<1>5. Chain(d \o b, d, m, b, k, C)
  BY <1>3, <1>4, Chained
<1> HIDE DEF s
<1>6. /\ s \in Seq(C) /\ Len(s) = m + k
      /\ \A i \in 1..m : s[i] = d[i]
      /\ \A i \in 1..k : s[m + i] = b[i]
  BY <1>5 DEF Chain, s
<1>7. n + 1 \in 1..m /\ \A i \in 1..n : i \in 1..m
  BY DEF m
<1>8. Joins(s, a, c, b, n, k, C)
  BY <1>3, <1>6, <1>7 DEF Joins, m
<1> QED BY <1>8 DEF s, d, e

\* A sequence that is joined is what is put together.
LEMMA JoinsIs ==
    ASSUME NEW C, NEW n \in Nat, NEW a \in Seq(C), Len(a) = n, NEW c \in C,
           NEW k \in Nat, NEW b \in Seq(C), Len(b) = k, NEW s, Joins(s, a, c, b, n, k, C)
    PROVE  s = (a \o <<c>>) \o b
<1> DEFINE t == (a \o <<c>>) \o b
<1>1. Joins(t, a, c, b, n, k, C)
  BY Joined
<1> HIDE DEF t
<1>2. /\ s \in Seq(C) /\ t \in Seq(C) /\ Len(s) = n + 1 + k /\ Len(t) = Len(s)
      /\ \A i \in 1..n : s[i] = t[i]
      /\ s[n + 1] = t[n + 1]
      /\ \A i \in 1..k : s[n + 1 + i] = t[n + 1 + i]
  BY <1>1 DEF Joins
<1>3. \A i \in 1..(n + 1 + k) : \/ i \in 1..n \/ i = n + 1
                                \/ i - (n + 1) \in 1..k /\ i = n + 1 + (i - (n + 1))
  OBVIOUS
<1>4. ASSUME NEW i \in 1..Len(s) PROVE s[i] = t[i]
  <2>1. i \in 1..(n + 1 + k)
    BY <1>2
  <2>2. CASE i \in 1..n
    BY <1>2, <2>2
  <2>3. CASE i = n + 1
    BY <1>2, <2>3
  <2>4. CASE i - (n + 1) \in 1..k /\ i = n + 1 + (i - (n + 1))
    <3> DEFINE j == i - (n + 1)
    <3>1. j \in 1..k /\ i = n + 1 + j
      BY <2>4
    <3> HIDE DEF j
    <3> QED BY <1>2, <3>1
  <2> QED BY <1>3, <2>1, <2>2, <2>3, <2>4
<1>5. s = t
  <2>1. \A i \in 1..Len(s) : s[i] = t[i]
    BY <1>4
  <2> QED BY <1>2, <2>1, SeqEqual
<1> QED BY <1>5 DEF t

\* x is the part of s behind the first l elements, k long.
Part(x, s, l, k, C) ==
    x \in Seq(C) /\ Len(x) = k /\ \A i \in 1..k : x[i] = s[l + i]

LEMMA PartOf ==
    ASSUME NEW C, NEW s \in Seq(C), NEW l \in Nat, NEW k \in Nat, l + k <= Len(s),
           NEW first \in Int, first = l + 1, NEW last \in Int, last = l + k
    PROVE  Part(SubSeq(s, first, last), s, l, k, C)
<1> DEFINE x == SubSeq(s, first, last)
<1>1. \A i \in first..last : s[i] \in C
  <2>1. Len(s) \in Nat
    BY LenProperties
  <2>2. \A i \in first..last : i \in 1..Len(s)
    BY <2>1
  <2> QED BY <2>2, ElementOfSeq
<1>2. /\ x \in Seq(C)
      /\ Len(x) = IF first <= last THEN last - first + 1 ELSE 0
      /\ \A i \in 1..(last - first + 1) : x[i] = s[first + i - 1]
  BY <1>1, SubSeqProperties, SMTT(20)
<1> HIDE DEF x
<1>3. last - first + 1 = k /\ (first <= last \/ k = 0)
  OBVIOUS
<1>4. \A i \in 1..k : first + i - 1 = l + i
  OBVIOUS
<1>5. Part(x, s, l, k, C)
  BY <1>2, <1>3, <1>4 DEF Part
<1> QED BY <1>5 DEF x

\* The first c of s is behind a, and b behind it.
Splits(s, c, a, b) == Position(s, c) = Len(a) + 1 /\ Before(s, c) = a /\ After(s, c) = b

\* find_first_of finds c behind a, where a has none, and cuts s there.
LEMMA SplitAt ==
    ASSUME NEW C, NEW a \in Seq(C), NEW c \in C, \A i \in 1..Len(a) : a[i] # c,
           NEW b \in Seq(C), NEW s, s = (a \o <<c>>) \o b
    PROVE  Splits(s, c, a, b)
<1> DEFINE n == Len(a)
           k == Len(b)
           I == {i \in 1..Len(s) : s[i] = c}
<1>1. /\ n \in Nat /\ k \in Nat /\ s \in Seq(C) /\ Len(s) = n + 1 + k
      /\ \A i \in 1..n : s[i] = a[i] /\ a[i] # c
      /\ s[n + 1] = c
      /\ \A i \in 1..k : s[n + 1 + i] = b[i]
  <2>1. n \in Nat /\ k \in Nat /\ Len(a) = n /\ Len(b) = k /\ \A i \in 1..n : a[i] # c
    BY LenProperties
  <2> HIDE DEF n, k
  <2>2. Joins(s, a, c, b, n, k, C)
    BY <2>1, Joined
  <2> QED BY <2>1, <2>2 DEF Joins
<1> HIDE DEF n, k
<1>2. Position(s, c) = n + 1
  <2>1. n + 1 \in I /\ \A i \in I : n + 1 <= i
    <3>1. \A i \in 1..(n + 1 + k) : i \in 1..n \/ n + 1 <= i
      BY <1>1
    <3> QED BY <1>1, <3>1
  <2>2. I \subseteq Nat
    BY <1>1
  <2>3. Position(s, c) = IF I # {} THEN Min(I) ELSE 0
    BY DEF Position, SelectInSeq
  <2> HIDE DEF I
  <2>4. Min(I) = n + 1
    <3>1. \A x \in I : (\A y \in I : x <= y) => x = n + 1
      BY <1>1, <2>1, <2>2
    <3> QED BY <2>1, <3>1 DEF Min
  <2> QED BY <2>1, <2>3, <2>4
<1>3. n + 1 # 0 /\ (n + 1) - 1 = n /\ (n + 1) + 1 = n + 2
  <2>1. n \in Nat
    BY <1>1
  <2> QED BY <2>1
<1>4. SubSeq(s, 1, n) = a
  <2> DEFINE x == SubSeq(s, 1, n)
  <2>1. 0 \in Nat /\ 0 + n <= Len(s) /\ 1 \in Int /\ 1 = 0 + 1 /\ n \in Int /\ n = 0 + n
    BY <1>1
  <2>2. Part(x, s, 0, n, C)
    BY <1>1, <2>1, PartOf
  <2>3. Len(a) = n /\ \A i \in 1..n : 0 + i = i
    BY DEF n
  <2> HIDE DEF x
  <2>4. x \in Seq(C) /\ Len(x) = Len(a) /\ \A i \in 1..Len(x) : x[i] = a[i]
    BY <1>1, <2>2, <2>3 DEF Part
  <2>5. x = a
    BY <2>4, SeqEqual
  <2> QED BY <2>5 DEF x
<1>5. SubSeq(s, n + 2, n + 1 + k) = b
  <2> DEFINE x == SubSeq(s, n + 2, n + 1 + k)
             l == n + 1
  <2>1. l \in Nat /\ l + k <= Len(s) /\ n + 2 \in Int /\ n + 2 = l + 1
        /\ n + 1 + k \in Int /\ n + 1 + k = l + k
    BY <1>1
  <2> HIDE DEF l
  <2>2. Part(x, s, l, k, C)
    BY <1>1, <2>1, PartOf
  <2> HIDE DEF x
  <2>3. Len(b) = k
    BY DEF k
  <2>4. x \in Seq(C) /\ Len(x) = Len(b) /\ \A i \in 1..Len(x) : x[i] = b[i]
    BY <1>1, <2>2, <2>3 DEF Part, l
  <2>5. x = b
    BY <2>4, SeqEqual
  <2> QED BY <2>5 DEF x
<1>6. Before(s, c) = a
  BY <1>2, <1>3, <1>4 DEF Before
<1>7. After(s, c) = b
  BY <1>1, <1>2, <1>3, <1>5 DEF After
<1> QED BY <1>2, <1>6, <1>7 DEF n, Splits

\* Without c it is whole.
LEMMA SplitNone ==
    ASSUME NEW s, NEW c, \A i \in 1..Len(s) : s[i] # c
    PROVE  Position(s, c) = 0 /\ Before(s, c) = s /\ After(s, c) = <<>>
<1> DEFINE I == {i \in 1..Len(s) : s[i] = c}
<1>1. I = {}
  OBVIOUS
<1>2. Position(s, c) = IF I # {} THEN Min(I) ELSE 0
  BY DEF Position, SelectInSeq
<1> HIDE DEF I
<1>3. Position(s, c) = 0
  BY <1>1, <1>2
<1> QED BY <1>3 DEF Before, After

\* The address of a player is the value of the first parameter of its name.
LEMMA MacAt ==
    ASSUME NEW params, NEW k \in 1..Len(params), Len(params) \in Nat,
           k = 1 \/ params[k - 1] = "&",
           NEW x, x = Before(SubSeq(params, k, Len(params)), "&"),
           Before(x, "=") = <<"p">>, Position(x, "=") # 0,
           \A j \in 1..(k - 1) : (j = 1 \/ params[j - 1] = "&") =>
               Before(Before(SubSeq(params, j, Len(params)), "&"), "=") # <<"p">>
    PROVE  GetMacAddress(params) = After(x, "=")
<1> DEFINE starts == {i \in 1..Len(params) : i = 1 \/ params[i - 1] = "&"}
           Param(i) == Before(SubSeq(params, i, Len(params)), "&")
           named == {i \in starts : Before(Param(i), "=") = <<"p">> /\ Position(Param(i), "=") # 0}
<1>1. k \in named
  OBVIOUS
<1>2. \A j \in named : k <= j
  <2>1. \A j \in named : j \in 1..Len(params) /\ (j = 1 \/ params[j - 1] = "&")
                         /\ Before(Before(SubSeq(params, j, Len(params)), "&"), "=") = <<"p">>
    OBVIOUS
  <2> HIDE DEF named
  <2>2. \A j \in named : j \notin 1..(k - 1)
    BY <2>1
  <2> QED BY <2>1, <2>2
<1>3. GetMacAddress(params) =
          IF named = {} THEN <<>> ELSE After(Param(CHOOSE i \in named : \A j \in named : i <= j), "=")
  BY DEF GetMacAddress, EndOfParam
<1>4. named \subseteq Int
  OBVIOUS
<1> HIDE DEF named
<1>5. (CHOOSE i \in named : \A j \in named : i <= j) = k
  <2>1. \A i \in named : (\A j \in named : i <= j) => i = k
    BY <1>1, <1>2, <1>4
  <2> QED BY <1>1, <1>2, <2>1
<1> QED BY <1>1, <1>3, <1>5
-----------------------------------------------------------------------------
(* What a URI is answered with. *)

\* What was replied, as far as a property of the URI depends on it.
Answered ==
    IF reply = NoReply THEN request = <<>>
    ELSE LET decoded == Decode(request)
             path == Before(decoded, "?")
         IN  /\ ~IsInvalid(decoded) => url_params = After(decoded, "?")
             /\ IsInvalid(decoded) \/ ~IsAllowed(path) => reply = StockReply(400)
             /\ ~IsInvalid(decoded) /\ IsAllowed(path) /\ path = <<"/", "s">> => reply = StreamReply

\* The reply goes by what is decoded.
LEMMA AnsweredAlways == HandlerSpec => []Answered
<1>1. HandlerInit => Answered
  BY DEF HandlerInit, Answered
<1>2. Answered /\ [HandlerNext]_handlerVars => Answered'
  <2> SUFFICES ASSUME Answered, [HandlerNext]_handlerVars PROVE Answered'
      OBVIOUS
  <2>1. ASSUME NEW uri \in Uris, HandleRequest(uri) PROVE Answered'
    <3> DEFINE decoded == Decode(uri)
               path == Before(decoded, "?")
               type == MimeType(Extension(path))
    <3>1. /\ request' = uri
          /\ url_params' = IF IsInvalid(decoded) THEN <<>> ELSE After(decoded, "?")
          /\ reply' = IF IsInvalid(decoded) \/ ~IsAllowed(path) THEN StockReply(400)
                      ELSE IF path = <<"/", "s">> THEN StreamReply
                      ELSE PageReply(shm_map, type)
      BY <2>1 DEF HandleRequest
    <3> HIDE DEF decoded, path, type
    <3>2. reply' \in {StockReply(400), StreamReply, PageReply(shm_map, type)}
      BY <3>1
    <3>3. reply'.status \in {200, 400}
      <4>1. StockReply(400).status = 400
        BY DEF StockReply
      <4>2. StreamReply.status = 200
        BY DEF StreamReply
      <4>3. PageReply(shm_map, type).status = 200
        BY DEF PageReply
      <4> QED BY <3>2, <4>1, <4>2, <4>3
    <3>4. reply' # NoReply
      BY <3>3 DEF NoReply
    <3>5. IsInvalid(decoded) \/ ~IsAllowed(path) => reply' = StockReply(400)
      BY <3>1
    <3>6. ~(IsInvalid(decoded) \/ ~IsAllowed(path)) /\ path = <<"/", "s">> => reply' = StreamReply
      BY <3>1
    <3>7. ~IsInvalid(decoded) => url_params' = After(decoded, "?")
      BY <3>1
    <3> QED BY <3>1, <3>4, <3>5, <3>6, <3>7 DEF Answered, decoded, path
  <2>2. CASE UNCHANGED <<request, reply, url_params>>
    BY <2>2 DEF Answered
  <2> QED BY <2>1, <2>2 DEF HandlerNext, ClientsChange, handlerVars
<1> QED BY <1>1, <1>2, PTL DEF HandlerSpec

\* A request that spells something was handled.
LEMMA SpellingAnswered ==
    ASSUME Answered, NEW C, Codes \subseteq C, Digits \subseteq C,
           NEW u \in Seq(C \ {"%", "+"}), u # <<>>, request \in Spellings(u)
    PROVE  reply # NoReply /\ Decode(request) = u
<1>1. Decode(request) = u
  BY SpellingDecodes
<1>2. request # <<>>
  <2>1. Decode(<<>>) = <<>>
    <3>1. <<>> \in Seq(C)
      BY EmptySeq
    <3> QED BY <3>1, DecodeType
  <2> QED BY <1>1, <2>1
<1> QED BY <1>1, <1>2 DEF Answered

\* a is u up to a question mark, if there is one.
IsPath(a, u, C) == u = a \/ \E q \in Seq(C) : u = (a \o <<"?">>) \o q

\* The path is what is before the question mark.
LEMMA PathBefore ==
    ASSUME NEW C, "?" \in C, NEW a \in Seq(C), \A i \in 1..Len(a) : a[i] # "?",
           NEW u, IsPath(a, u, C)
    PROVE  Before(u, "?") = a
<1>1. CASE u = a
  BY <1>1, SplitNone
<1>2. CASE \E q \in Seq(C) : u = (a \o <<"?">>) \o q
  <2>1. PICK q \in Seq(C) : u = (a \o <<"?">>) \o q
    BY <1>2
  <2>2. Splits(u, "?", a, q)
    BY <2>1, SplitAt
  <2> QED BY <2>2 DEF Splits
<1> QED BY <1>1, <1>2 DEF IsPath

\* Two dots in a path are seen.
LEMMA DotsSeen ==
    ASSUME NEW C, NEW a \in Seq(C), NEW i \in 1..(Len(a) - 1), a[i] = ".", a[i + 1] = "."
    PROVE  ~IsAllowed(a)
<1>1. Len(a) \in Nat
  BY LenProperties
<1> DEFINE x == SubSeq(a, i, i + 1)
           y == <<".", ".">>
<1>2. x \in Seq(C) /\ Len(x) = 2 /\ x[1] = "." /\ x[2] = "."
  <2>1. i \in 1..(Len(a) + 1) /\ i + 1 \in 0..Len(a) /\ (i + 1) - i + 1 = 2
    BY <1>1
  <2>2. \A j \in i..(i + 1) : a[j] \in C
    <3>1. \A j \in i..(i + 1) : j \in 1..Len(a)
      BY <1>1
    <3> QED BY <3>1, ElementOfSeq
  <2>3. x \in Seq(C) /\ Len(x) = 2 /\ \A j \in 1..2 : x[j] = a[i + j - 1]
    <3>1. i \in Int /\ i + 1 \in Int /\ i <= i + 1
      OBVIOUS
    <3> HIDE DEF x
    <3>2. x \in Seq(C) /\ Len(x) = (i + 1) - i + 1 /\ \A j \in 1..((i + 1) - i + 1) : x[j] = a[i + j - 1]
      BY <2>1, <2>2, <3>1, SubSeqProperties DEF x
    <3> QED BY <2>1, <3>2
  <2>4. i + 1 - 1 = i /\ i + 2 - 1 = i + 1
    OBVIOUS
  <2> HIDE DEF x
  <2> QED BY <2>3, <2>4
<1>3. y \in Seq({"."}) /\ Len(y) = 2 /\ y[1] = "." /\ y[2] = "."
  OBVIOUS
<1> HIDE DEF x, y
<1>4. x = y
  <2>1. \A j \in 1..2 : j = 1 \/ j = 2
    OBVIOUS
  <2>2. \A j \in 1..Len(x) : x[j] = y[j]
    BY <1>2, <1>3, <2>1
  <2>3. x \in Seq(C \cup {"."}) /\ y \in Seq(C \cup {"."})
    <3>1. C \subseteq C \cup {"."} /\ {"."} \subseteq C \cup {"."}
      OBVIOUS
    <3> QED BY <1>2, <1>3, <3>1, SeqMonotonic
  <2> QED BY <1>2, <1>3, <2>2, <2>3, SeqEqual
<1> QED BY <1>4 DEF IsAllowed, x, y

\* However it is spelt, and whatever the characters: no path with two dots in a
\* row is served.
ParentRefused(u) == request \in Spellings(u) => reply.status = 400

\* What a path with two dots in a row is answered with.
LEMMA ParentNow ==
    ASSUME Answered, NEW C, Codes \subseteq C, Digits \subseteq C,
           NEW u \in Seq(C \ {"%", "+"}), NEW a \in Seq(C), IsPath(a, u, C),
           \A j \in 1..Len(a) : a[j] # "?",
           NEW i \in 1..(Len(a) - 1), a[i] = ".", a[i + 1] = "."
    PROVE  ParentRefused(u)
<1> SUFFICES ASSUME request \in Spellings(u) PROVE reply.status = 400
    BY DEF ParentRefused
<1>1. "?" \in C
  BY DEF Codes, Ascii
<1>2. Before(u, "?") = a
  BY <1>1, PathBefore
<1>3. ~IsAllowed(Before(u, "?"))
  BY <1>2, DotsSeen
<1>4. u # <<>>
  <2>1. Before(<<>>, "?") = <<>>
    <3>1. \A j \in 1..Len(<<>>) : FALSE
      <4>1. Len(<<>>) = 0
        BY EmptySeq, Zenon
      <4> QED BY <4>1
    <3> QED BY <3>1, SplitNone
  <2>2. ~(a = <<>>)
    <3>1. Len(<<>>) = 0
      BY EmptySeq, Zenon
    <3>2. Len(a) # 0
      BY LenProperties
    <3> QED BY <3>1, <3>2
  <2> QED BY <1>2, <2>1, <2>2
<1>5. reply # NoReply /\ Decode(request) = u
  BY <1>4, SpellingAnswered
<1>6. reply = StockReply(400)
  BY <1>3, <1>5 DEF Answered
<1> QED BY <1>6 DEF StockReply

\* A request whose path has two dots in a row, whatever its other characters and
\* parameters and however it is spelt, is answered with "bad request".
THEOREM ParentRefusedAlways ==
    ASSUME NEW C, Codes \subseteq C, Digits \subseteq C,
           NEW u \in Seq(C \ {"%", "+"}), NEW a \in Seq(C), IsPath(a, u, C),
           \A j \in 1..Len(a) : a[j] # "?",
           NEW i \in 1..(Len(a) - 1), a[i] = ".", a[i + 1] = "."
    PROVE  HandlerSpec => []ParentRefused(u)
<1>1. Answered => ParentRefused(u)
  BY ParentNow
<1> QED BY <1>1, AnsweredAlways, PTL

\* The URL of the stream with the parameters q, however it is spelt.
StreamFound(q) ==
    request \in Spellings((<<"/", "s">> \o <<"?">>) \o q) => Streams /\ url_params = q

\* What the URL of the stream is answered with.
LEMMA StreamNow ==
    ASSUME Answered, NEW C, Codes \subseteq C, Digits \subseteq C, "s" \in C,
           NEW q \in Seq(C \ {"%", "+", "invalid"})
    PROVE  StreamFound(q)
<1> DEFINE S == C \ {"%", "+", "invalid"}
           a == <<"/", "s">>
           b == <<"?">>
           u == (a \o b) \o q
<1>1. "/" \in S /\ "s" \in S /\ "?" \in S
  <2>1. "/" \in C /\ "?" \in C
    BY DEF Codes, Ascii
  <2> QED BY <2>1
<1>2. a \in Seq(S) /\ Len(a) = 2 /\ a[1] = "/" /\ a[2] = "s" /\ b \in Seq(S)
  BY <1>1
<1> SUFFICES ASSUME request \in Spellings(u) PROVE Streams /\ url_params = q
    BY DEF StreamFound
<1>3. \A i \in 1..Len(a) : a[i] # "?"
  <2>1. \A i \in 1..2 : i = 1 \/ i = 2
    OBVIOUS
  <2> HIDE DEF a
  <2> QED BY <1>2, <2>1
<1>4. q \in Seq(S)
  OBVIOUS
<1>5. u = (a \o <<"?">>) \o q
  OBVIOUS
<1> HIDE DEF u, b
<1>6. Before(u, "?") = a /\ After(u, "?") = q
  <2> HIDE DEF S, a
  <2>1. Splits(u, "?", a, q)
    BY <1>1, <1>2, <1>3, <1>4, <1>5, SplitAt
  <2> QED BY <2>1 DEF Splits
<1>7. u \in Seq(S)
  <2> HIDE DEF S, a
  <2>1. a \o b \in Seq(S)
    BY <1>2, ConcatProperties
  <2> QED BY <1>4, <1>5, <2>1, ConcatProperties DEF b
<1>8. u # <<>> /\ ~IsInvalid(u)
  <2>1. \A i \in 1..Len(u) : u[i] # "invalid"
    <3>1. \A i \in 1..Len(u) : u[i] \in S
      BY <1>7, ElementOfSeq
    <3> QED BY <3>1
  <2>2. u # <<>>
    <3>1. Before(<<>>, "?") = <<>>
      <4>1. \A j \in 1..Len(<<>>) : FALSE
        <5>1. Len(<<>>) = 0
          BY EmptySeq, Zenon
        <5> QED BY <5>1
      <4> QED BY <4>1, SplitNone
    <3>2. a # <<>>
      OBVIOUS
    <3> QED BY <1>6, <3>1, <3>2
  <2>3. Len(u) \in 1..Len(u)
    <3>1. Len(u) \in Nat /\ Len(u) # 0
      BY <1>7, <2>2, LenProperties, EmptySeq
    <3> QED BY <3>1
  <2> QED BY <2>1, <2>2, <2>3 DEF IsInvalid, Last
<1>9. reply # NoReply /\ Decode(request) = u
  <2>1. u \in Seq(C \ {"%", "+"})
    <3>1. S \subseteq C \ {"%", "+"}
      OBVIOUS
    <3> HIDE DEF S
    <3> QED BY <1>7, <3>1, SeqMonotonic
  <2> QED BY <1>8, <2>1, SpellingAnswered
<1>10. IsAllowed(a)
  <2>1. SubSeq(a, 1, 2) # <<".", ".">>
    <3>1. SubSeq(a, 1, 2)[1] = "/"
      BY <1>2
    <3>2. <<".", ".">>[1] = "."
      OBVIOUS
    <3> QED BY <3>1, <3>2
  <2>2. \A i \in 1..(2 - 1) : i = 1 /\ i + 1 = 2
    OBVIOUS
  <2>3. a # <<>>
    OBVIOUS
  <2> HIDE DEF a
  <2> QED BY <1>2, <2>1, <2>2, <2>3 DEF IsAllowed
<1>11. reply = StreamReply /\ url_params = q
  BY <1>6, <1>8, <1>9, <1>10 DEF Answered
<1> QED BY <1>9, <1>11 DEF Streams, StreamReply

\* A request for the stream, however it is spelt and whatever parameters come with
\* it, is answered with the stream, and the parameters are kept as they were meant.
THEOREM StreamFoundAlways ==
    ASSUME NEW C, Codes \subseteq C, Digits \subseteq C, "s" \in C,
           NEW q \in Seq(C \ {"%", "+", "invalid"})
    PROVE  HandlerSpec => []StreamFound(q)
<1>1. Answered => StreamFound(q)
  BY StreamNow
<1> QED BY <1>1, AnsweredAlways, PTL
-----------------------------------------------------------------------------
(* The URIs that the properties name. *)

\* The characters of the URIs that the properties name.
Letters == Codes \cup Digits \cup {"s", "p", "m", "b", "=", "&"}
Plain == Letters \ {"%", "+"}

\* They are characters that stand for themselves.
LEMMA PlainLetters ==
    /\ Codes \subseteq Letters /\ Digits \subseteq Letters /\ Plain \subseteq Letters
    /\ {"/", ".", "?", "=", "&", "2", "s", "p", "m", "b"} \subseteq Plain \ {"invalid"}
<1>1. {"/", ".", "?", "=", "&", "2"} \subseteq Codes
  <2>1. /\ Ascii[47] = "/" /\ Ascii[46] = "." /\ Ascii[63] = "?" /\ Ascii[61] = "="
        /\ Ascii[38] = "&" /\ Ascii[50] = "2" /\ {47, 46, 63, 61, 38, 50} \subseteq DOMAIN Ascii
    BY DEF Ascii
  <2> QED BY <2>1 DEF Codes
<1> QED BY <1>1 DEF Letters, Plain

\* None of the paths that leave the root is served.
LEMMA ParentsRefused ==
    ASSUME Answered, NEW u \in Parents
    PROVE  ParentRefused(u)
<1> DEFINE a1 == <<".", ".">>
           a2 == <<"/", ".", ".">>
           a3 == <<"/", ".", ".", "/", "s">>
           a4 == <<"/", "s", "/", ".", ".">>
           q == <<"p", "=", "m">>
           u4 == <<"/", "s", "/", ".", ".", "?", "p", "=", "m">>
<1>1. \A c \in {"/", ".", "?", "=", "&", "2", "s", "p", "m", "b"} : c \in Plain
  BY PlainLetters
<1>2. CASE u = a1
  <2>1. a1 \in Seq(Plain) /\ 1 \in 1..(Len(a1) - 1) /\ a1[1] = "." /\ a1[1 + 1] = "."
        /\ \A j \in 1..Len(a1) : a1[j] # "?"
    BY <1>1
  <2> HIDE DEF a1
  <2>2. a1 \in Seq(Letters)
    BY <2>1, PlainLetters, SeqMonotonic
  <2>3. IsPath(a1, u, Letters)
    BY <1>2 DEF IsPath
  <2> QED BY <1>2, <2>1, <2>2, <2>3, PlainLetters, ParentNow DEF Plain
<1>3. CASE u = a2
  <2>1. a2 \in Seq(Plain) /\ 2 \in 1..(Len(a2) - 1) /\ a2[2] = "." /\ a2[2 + 1] = "."
        /\ \A j \in 1..Len(a2) : a2[j] # "?"
    BY <1>1
  <2> HIDE DEF a2
  <2>2. a2 \in Seq(Letters)
    BY <2>1, PlainLetters, SeqMonotonic
  <2>3. IsPath(a2, u, Letters)
    BY <1>3 DEF IsPath
  <2> QED BY <1>3, <2>1, <2>2, <2>3, PlainLetters, ParentNow DEF Plain
<1>4. CASE u = a3
  <2>1. a3 \in Seq(Plain) /\ 2 \in 1..(Len(a3) - 1) /\ a3[2] = "." /\ a3[2 + 1] = "."
        /\ \A j \in 1..Len(a3) : a3[j] # "?"
    BY <1>1
  <2> HIDE DEF a3
  <2>2. a3 \in Seq(Letters)
    BY <2>1, PlainLetters, SeqMonotonic
  <2>3. IsPath(a3, u, Letters)
    BY <1>4 DEF IsPath
  <2> QED BY <1>4, <2>1, <2>2, <2>3, PlainLetters, ParentNow DEF Plain
<1>5. CASE u = u4
  <2>1. a4 \in Seq(Plain) /\ 4 \in 1..(Len(a4) - 1) /\ a4[4] = "." /\ a4[4 + 1] = "."
        /\ Len(a4) = 5 /\ \A j \in 1..Len(a4) : a4[j] # "?"
    BY <1>1
  <2>2. q \in Seq(Plain) /\ Len(q) = 3 /\ u4 \in Seq(Plain) /\ Len(u4) = 9
    BY <1>1
  <2>3. /\ u4[1] = a4[1] /\ u4[2] = a4[2] /\ u4[3] = a4[3] /\ u4[4] = a4[4] /\ u4[5] = a4[5]
        /\ u4[6] = "?" /\ u4[7] = q[1] /\ u4[8] = q[2] /\ u4[9] = q[3]
    OBVIOUS
  <2> HIDE DEF a4, q, u4
  <2>4. Joins(u4, a4, "?", q, 5, 3, Letters)
    <3>1. u4 \in Seq(Letters)
      BY <2>2, PlainLetters, SeqMonotonic
    <3>2. \A i \in 1..5 : i = 1 \/ i = 2 \/ i = 3 \/ i = 4 \/ i = 5
      OBVIOUS
    <3>3. \A i \in 1..3 : i = 1 \/ i = 2 \/ i = 3
      OBVIOUS
    <3> QED BY <2>2, <2>3, <3>1, <3>2, <3>3 DEF Joins
  <2>5. a4 \in Seq(Letters) /\ q \in Seq(Letters) /\ "?" \in Letters
    <3>1. "?" \in Plain
      BY <1>1
    <3> QED BY <2>1, <2>2, <3>1, PlainLetters, SeqMonotonic
  <2>6. u4 = (a4 \o <<"?">>) \o q
    BY <2>1, <2>2, <2>4, <2>5, JoinsIs
  <2>7. IsPath(a4, u, Letters)
    BY <1>5, <2>5, <2>6 DEF IsPath
  <2> QED BY <1>5, <2>1, <2>2, <2>5, <2>7, PlainLetters, ParentNow DEF Plain
<1> QED BY <1>2, <1>3, <1>4, <1>5 DEF Parents

\* No spelling of a path that leaves the root is served.
THEOREM NoParentAlways == HandlerSpec => []NoParent
<1>1. Answered => NoParent
  BY ParentsRefused DEF NoParent, ParentRefused
<1> QED BY <1>1, AnsweredAlways, PTL

\* The stream's URL of a play command, with the parameters q.
LEMMA PlayUrl ==
    ASSUME NEW q \in Seq(Letters), NEW k \in Nat, Len(q) = k,
           NEW u \in Seq(Letters), Len(u) = 3 + k,
           u[1] = "/", u[2] = "s", u[3] = "?", \A i \in 1..k : u[3 + i] = q[i]
    PROVE  u = (<<"/", "s">> \o <<"?">>) \o q
<1> DEFINE a == <<"/", "s">>
<1>1. a \in Seq(Letters) /\ Len(a) = 2 /\ a[1] = "/" /\ a[2] = "s" /\ "?" \in Letters /\ 2 \in Nat
  BY PlainLetters
<1> HIDE DEF a
<1>2. Joins(u, a, "?", q, 2, k, Letters)
  <2>1. \A i \in 1..2 : i = 1 \/ i = 2
    OBVIOUS
  <2>2. 3 + k = 2 + 1 + k /\ 2 + 1 = 3
    OBVIOUS
  <2> QED BY <1>1, <2>1, <2>2 DEF Joins
<1>3. u = (a \o <<"?">>) \o q
  BY <1>1, <1>2, JoinsIs
<1> QED BY <1>3 DEF a

\* The player's address in the parameters of the play command.
MacIn(q) == q \in Seq(Plain \ {"invalid"}) /\ GetMacAddress(q) = <<"m">>

\* The parameter with the player's address, taken apart.
LEMMA PlayerParam ==
    LET x == <<"p", "=", "m">>
    IN  Before(x, "=") = <<"p">> /\ After(x, "=") = <<"m">> /\ Position(x, "=") # 0
        /\ x \in Seq(Letters) /\ \A i \in 1..Len(x) : x[i] # "&"
<1> DEFINE x == <<"p", "=", "m">>
           a == <<"p">>
           b == <<"m">>
<1>1. /\ x \in Seq(Letters) /\ Len(x) = 3 /\ x[1] = a[1] /\ x[2] = "=" /\ x[3] = b[1]
      /\ a \in Seq(Letters) /\ Len(a) = 1 /\ b \in Seq(Letters) /\ Len(b) = 1
      /\ "=" \in Letters /\ a[1] = "p" /\ 1 \in Nat /\ b[1] = "m"
  <2>1. "p" \in Letters /\ "=" \in Letters /\ "m" \in Letters
    BY DEF Letters
  <2> QED BY <2>1
<1> HIDE DEF x, a, b
<1>2. Joins(x, a, "=", b, 1, 1, Letters)
  <2>1. \A i \in 1..1 : i = 1
    OBVIOUS
  <2>2. 1 + 1 = 2 /\ 1 + 1 + 1 = 3
    OBVIOUS
  <2> QED BY <1>1, <2>1, <2>2 DEF Joins
<1>3. x = (a \o <<"=">>) \o b
  BY <1>1, <1>2, JoinsIs
<1>4. Splits(x, "=", a, b)
  <2>1. \A i \in 1..Len(a) : a[i] # "="
    <3>1. \A i \in 1..1 : i = 1
      OBVIOUS
    <3> QED BY <1>1, <3>1
  <2> QED BY <1>1, <1>3, <2>1, SplitAt
<1>5. \A i \in 1..Len(x) : x[i] # "&"
  <2>1. \A i \in 1..3 : i = 1 \/ i = 2 \/ i = 3
    OBVIOUS
  <2> QED BY <1>1, <2>1
<1>6. Position(x, "=") # 0
  BY <1>1, <1>4 DEF Splits
<1> QED BY <1>1, <1>4, <1>5, <1>6 DEF Splits, x, a, b

\* The play command as it was sent.
LEMMA MacAlone == MacIn(<<"p", "=", "m">>)
<1> DEFINE x == <<"p", "=", "m">>
<1>1. x \in Seq(Plain \ {"invalid"}) /\ Len(x) = 3 /\ 1 \in 1..Len(x) /\ Len(x) \in Nat
  <2>1. \A c \in {"p", "=", "m"} : c \in Plain \ {"invalid"}
    BY PlainLetters
  <2> QED BY <2>1
<1>2. /\ Before(x, "=") = <<"p">> /\ After(x, "=") = <<"m">> /\ Position(x, "=") # 0
      /\ x \in Seq(Letters) /\ \A i \in 1..Len(x) : x[i] # "&"
  BY PlayerParam
<1> HIDE DEF x
<1>3. SubSeq(x, 1, Len(x)) = x
  BY <1>2, SubSeqFull
<1>4. x = Before(SubSeq(x, 1, Len(x)), "&")
  BY <1>2, <1>3, SplitNone
<1>5. \A j \in 1..(1 - 1) : FALSE
  OBVIOUS
<1>6. GetMacAddress(x) = After(x, "=")
  BY <1>1, <1>2, <1>4, <1>5, MacAt
<1> QED BY <1>1, <1>2, <1>6 DEF MacIn, x

\* With another parameter after it.
LEMMA MacFirst == MacIn(<<"p", "=", "m", "&", "2">>)
<1> DEFINE x == <<"p", "=", "m">>
           b == <<"2">>
           q == <<"p", "=", "m", "&", "2">>
<1>1. /\ q \in Seq(Plain \ {"invalid"}) /\ Len(q) = 5 /\ 1 \in 1..Len(q) /\ Len(q) \in Nat
      /\ Len(x) = 3 /\ q[1] = x[1] /\ q[2] = x[2] /\ q[3] = x[3] /\ q[4] = "&" /\ q[5] = b[1]
      /\ b \in Seq(Letters) /\ Len(b) = 1 /\ "&" \in Letters
  <2>1. \A c \in {"p", "=", "m", "&", "2"} : c \in Plain \ {"invalid"}
    BY PlainLetters
  <2>2. "2" \in Letters /\ "&" \in Letters
    BY DEF Letters, Digits
  <2> QED BY <2>1, <2>2
<1>2. /\ Before(x, "=") = <<"p">> /\ After(x, "=") = <<"m">> /\ Position(x, "=") # 0
      /\ x \in Seq(Letters) /\ \A i \in 1..Len(x) : x[i] # "&"
  BY PlayerParam
<1> HIDE DEF x, b, q
<1>3. q \in Seq(Letters)
  <2>1. Plain \ {"invalid"} \subseteq Letters
    BY PlainLetters
  <2> QED BY <1>1, <2>1, SeqMonotonic
<1>4. SubSeq(q, 1, Len(q)) = q
  BY <1>3, SubSeqFull
<1>5. Joins(q, x, "&", b, 3, 1, Letters)
  <2>1. (\A i \in 1..3 : i = 1 \/ i = 2 \/ i = 3) /\ \A i \in 1..1 : i = 1
    OBVIOUS
  <2>2. 3 + 1 = 4 /\ 3 + 1 + 1 = 5
    OBVIOUS
  <2> QED BY <1>1, <1>3, <2>1, <2>2 DEF Joins
<1>6. q = (x \o <<"&">>) \o b
  <2>1. 3 \in Nat /\ 1 \in Nat
    OBVIOUS
  <2> QED BY <1>1, <1>2, <1>5, <2>1, JoinsIs
<1>7. Splits(q, "&", x, b)
  BY <1>1, <1>2, <1>6, SplitAt
<1>8. x = Before(SubSeq(q, 1, Len(q)), "&")
  BY <1>4, <1>7 DEF Splits
<1>9. \A j \in 1..(1 - 1) : FALSE
  OBVIOUS
<1>10. GetMacAddress(q) = After(x, "=")
  BY <1>1, <1>2, <1>8, <1>9, MacAt
<1> QED BY <1>1, <1>2, <1>10 DEF MacIn, q

\* With another parameter before it.
LEMMA MacLast == MacIn(<<"2", "=", "b", "&", "p", "=", "m">>)
<1> DEFINE x == <<"p", "=", "m">>
           a == <<"2", "=", "b">>
           d == <<"2">>
           b == <<"b">>
           q == <<"2", "=", "b", "&", "p", "=", "m">>
<1>1. /\ q \in Seq(Plain \ {"invalid"}) /\ Len(q) = 7 /\ 5 \in 1..Len(q) /\ Len(q) \in Nat
      /\ Len(x) = 3 /\ q[5] = x[1] /\ q[6] = x[2] /\ q[7] = x[3] /\ q[4] = "&"
      /\ Len(a) = 3 /\ q[1] = a[1] /\ q[2] = a[2] /\ q[3] = a[3]
      /\ q[1] # "&" /\ q[2] # "&" /\ q[3] # "&"
  <2>1. \A c \in {"2", "=", "b", "&", "p", "m"} : c \in Plain \ {"invalid"}
    BY PlainLetters
  <2> QED BY <2>1
<1>2. /\ a \in Seq(Letters) /\ d \in Seq(Letters) /\ b \in Seq(Letters)
      /\ Len(d) = 1 /\ Len(b) = 1 /\ "&" \in Letters /\ "=" \in Letters
      /\ a[1] = d[1] /\ a[2] = "=" /\ a[3] = b[1] /\ d[1] = "2" /\ a[1] = "2" /\ b[1] = "b"
  <2>1. "2" \in Letters /\ "&" \in Letters /\ "=" \in Letters /\ "b" \in Letters
    BY DEF Letters, Digits
  <2> QED BY <2>1
<1>3. d # <<"p">>
  OBVIOUS
<1>4. /\ Before(x, "=") = <<"p">> /\ After(x, "=") = <<"m">> /\ Position(x, "=") # 0
      /\ x \in Seq(Letters) /\ \A i \in 1..Len(x) : x[i] # "&"
  BY PlayerParam
<1> HIDE DEF x, a, b, d, q
<1>5. q \in Seq(Letters) /\ SubSeq(q, 1, Len(q)) = q
  <2>1. Plain \ {"invalid"} \subseteq Letters
    BY PlainLetters
  <2>2. q \in Seq(Letters)
    BY <1>1, <2>1, SeqMonotonic
  <2> QED BY <2>2, SubSeqFull
<1>6. /\ (\A i \in 1..3 : i = 1 \/ i = 2 \/ i = 3) /\ (\A i \in 1..1 : i = 1)
      /\ 3 \in Nat /\ 1 \in Nat
  OBVIOUS
<1>7. Splits(q, "&", a, x)
  <2>1. Joins(q, a, "&", x, 3, 3, Letters)
    <3>1. 3 + 1 = 4 /\ 3 + 1 + 3 = 7 /\ 3 + 1 + 1 = 5 /\ 3 + 1 + 2 = 6
      OBVIOUS
    <3> QED BY <1>1, <1>5, <1>6, <3>1 DEF Joins
  <2>2. q = (a \o <<"&">>) \o x
    <3>1. /\ 3 \in Nat /\ a \in Seq(Letters) /\ Len(a) = 3 /\ "&" \in Letters
          /\ x \in Seq(Letters) /\ Len(x) = 3
      BY <1>1, <1>2, <1>4
    <3> QED BY <2>1, <3>1, JoinsIs
  <2>3. \A i \in 1..Len(a) : a[i] # "&"
    BY <1>1, <1>6
  <2> QED BY <1>2, <1>4, <2>2, <2>3, SplitAt
<1>8. Splits(a, "=", d, b)
  <2>1. Joins(a, d, "=", b, 1, 1, Letters)
    <3>1. 1 + 1 = 2 /\ 1 + 1 + 1 = 3
      OBVIOUS
    <3> QED BY <1>1, <1>2, <1>6, <3>1 DEF Joins
  <2>2. a = (d \o <<"=">>) \o b
    BY <1>2, <1>6, <2>1, JoinsIs
  <2>3. \A i \in 1..Len(d) : d[i] # "="
    BY <1>2, <1>6
  <2> QED BY <1>2, <2>2, <2>3, SplitAt
<1>9. x = Before(SubSeq(q, 5, Len(q)), "&")
  <2>1. After(q, "&") = SubSeq(q, 5, Len(q))
    <3>1. Position(q, "&") = 4
      BY <1>1, <1>7 DEF Splits
    <3> QED BY <3>1 DEF After
  <2>2. SubSeq(q, 5, Len(q)) = x
    BY <1>7, <2>1 DEF Splits
  <2> QED BY <1>4, <2>2, SplitNone
<1>10. ASSUME NEW j \in 1..(5 - 1), j = 1 \/ q[j - 1] = "&"
       PROVE  Before(Before(SubSeq(q, j, Len(q)), "&"), "=") # <<"p">>
  <2>1. j = 1
    <3>1. j = 1 \/ j - 1 = 1 \/ j - 1 = 2 \/ j - 1 = 3
      OBVIOUS
    <3> QED BY <1>1, <1>10, <3>1
  <2>2. Before(Before(q, "&"), "=") = d
    BY <1>7, <1>8 DEF Splits
  <2> QED BY <1>3, <1>5, <2>1, <2>2
<1>11. q[5 - 1] = "&"
  <2>1. 5 - 1 = 4
    OBVIOUS
  <2> QED BY <1>1, <2>1
<1>12. GetMacAddress(q) = After(x, "=")
  BY <1>1, <1>4, <1>9, <1>10, <1>11, MacAt
<1> QED BY <1>1, <1>4, <1>12 DEF MacIn, q

\* The stream of a play command is found, and the player by its parameters.
LEMMA PlayNow ==
    ASSUME Answered, NEW q, MacIn(q), NEW u, NEW k \in Nat, Len(q) = k,
           u \in Seq(Letters), Len(u) = 3 + k,
           u[1] = "/", u[2] = "s", u[3] = "?", \A i \in 1..k : u[3 + i] = q[i],
           request \in Spellings(u)
    PROVE  Streams /\ GetMacAddress(url_params) = <<"m">>
<1>1. q \in Seq(Letters \ {"%", "+", "invalid"}) /\ GetMacAddress(q) = <<"m">>
  <2>1. Plain \ {"invalid"} = Letters \ {"%", "+", "invalid"}
    BY DEF Plain
  <2> QED BY <2>1 DEF MacIn
<1>2. q \in Seq(Letters)
  <2>1. Letters \ {"%", "+", "invalid"} \subseteq Letters
    OBVIOUS
  <2> QED BY <1>1, <2>1, SeqMonotonic
<1>3. u = (<<"/", "s">> \o <<"?">>) \o q
  BY <1>2, PlayUrl
<1>4. "s" \in Letters
  BY DEF Letters
<1>5. StreamFound(q)
  BY <1>1, <1>4, PlainLetters, StreamNow
<1> QED BY <1>1, <1>3, <1>5 DEF StreamFound

\* The player that opens the stream it was told to play is known by its MAC
\* address, however its URL is spelt and whatever parameters come with it.
THEOREM PlayerFoundAlways == HandlerSpec => []PlayerFound
<1>1. ASSUME Answered, NEW u \in PlayUrls, request \in Spellings(u)
      PROVE  Streams /\ GetMacAddress(url_params) = <<"m">>
  <2>1. \A c \in {"/", "?", "=", "&", "2", "s", "p", "m", "b"} : c \in Letters
    BY PlainLetters
  <2>2. CASE u = <<"/", "s", "?", "p", "=", "m">>
    <3> DEFINE q == <<"p", "=", "m">>
               v == <<"/", "s", "?", "p", "=", "m">>
    <3>1. v \in Seq(Letters) /\ Len(v) = 3 + 3 /\ v[1] = "/" /\ v[2] = "s" /\ v[3] = "?" /\ Len(q) = 3
      BY <2>1
    <3>2. v[4] = q[1] /\ v[5] = q[2] /\ v[6] = q[3]
      OBVIOUS
    <3>3. MacIn(q)
      BY MacAlone
    <3> HIDE DEF q, v
    <3>4. \A i \in 1..3 : v[3 + i] = q[i]
      <4>1. \A i \in 1..3 : i = 1 \/ i = 2 \/ i = 3
        OBVIOUS
      <4>2. 3 + 1 = 4 /\ 3 + 2 = 5 /\ 3 + 3 = 6
        OBVIOUS
      <4> QED BY <3>2, <4>1, <4>2
    <3>5. request \in Spellings(v) /\ 3 \in Nat
      BY <1>1, <2>2 DEF v
    <3> QED BY <1>1, <3>1, <3>3, <3>4, <3>5, PlayNow
  <2>3. CASE u = <<"/", "s", "?", "p", "=", "m", "&", "2">>
    <3> DEFINE q == <<"p", "=", "m", "&", "2">>
               v == <<"/", "s", "?", "p", "=", "m", "&", "2">>
    <3>1. v \in Seq(Letters) /\ Len(v) = 3 + 5 /\ v[1] = "/" /\ v[2] = "s" /\ v[3] = "?" /\ Len(q) = 5
      BY <2>1
    <3>2. v[4] = q[1] /\ v[5] = q[2] /\ v[6] = q[3] /\ v[7] = q[4] /\ v[8] = q[5]
      OBVIOUS
    <3>3. MacIn(q)
      BY MacFirst
    <3> HIDE DEF q, v
    <3>4. \A i \in 1..5 : v[3 + i] = q[i]
      <4>1. \A i \in 1..5 : i = 1 \/ i = 2 \/ i = 3 \/ i = 4 \/ i = 5
        OBVIOUS
      <4>2. 3 + 1 = 4 /\ 3 + 2 = 5 /\ 3 + 3 = 6 /\ 3 + 4 = 7 /\ 3 + 5 = 8
        OBVIOUS
      <4> QED BY <3>2, <4>1, <4>2
    <3>5. request \in Spellings(v) /\ 5 \in Nat
      BY <1>1, <2>3 DEF v
    <3> QED BY <1>1, <3>1, <3>3, <3>4, <3>5, PlayNow
  <2>4. CASE u = <<"/", "s", "?", "2", "=", "b", "&", "p", "=", "m">>
    <3> DEFINE q == <<"2", "=", "b", "&", "p", "=", "m">>
               v == <<"/", "s", "?", "2", "=", "b", "&", "p", "=", "m">>
    <3>1. v \in Seq(Letters) /\ Len(v) = 3 + 7 /\ v[1] = "/" /\ v[2] = "s" /\ v[3] = "?" /\ Len(q) = 7
      BY <2>1
    <3>2. /\ v[4] = q[1] /\ v[5] = q[2] /\ v[6] = q[3] /\ v[7] = q[4]
          /\ v[8] = q[5] /\ v[9] = q[6] /\ v[10] = q[7]
      OBVIOUS
    <3>3. MacIn(q)
      BY MacLast
    <3> HIDE DEF q, v
    <3>4. \A i \in 1..7 : v[3 + i] = q[i]
      <4>1. \A i \in 1..7 : i = 1 \/ i = 2 \/ i = 3 \/ i = 4 \/ i = 5 \/ i = 6 \/ i = 7
        OBVIOUS
      <4>2. 3 + 1 = 4 /\ 3 + 2 = 5 /\ 3 + 3 = 6 /\ 3 + 4 = 7 /\ 3 + 5 = 8 /\ 3 + 6 = 9 /\ 3 + 7 = 10
        OBVIOUS
      <4> QED BY <3>2, <4>1, <4>2
    <3>5. request \in Spellings(v) /\ 7 \in Nat
      BY <1>1, <2>4 DEF v
    <3> QED BY <1>1, <3>1, <3>3, <3>4, <3>5, PlayNow
  <2> QED BY <2>2, <2>3, <2>4 DEF PlayUrls
<1>2. Answered => PlayerFound
  BY <1>1 DEF PlayerFound
<1> QED BY <1>2, AnsweredAlways, PTL
=============================================================================
