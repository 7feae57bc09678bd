---------------------------- MODULE RequestHandler ----------------------------
(***************************************************************************)
(* What the streaming server makes of a request's URI                      *)
(* (request_handler in src/http_server): url_decode, the choice of the     *)
(* reply (Reply), and the player that connection::get_mac_address finds in *)
(* the parameters, by which on_chunk repeats the play command.             *)
(*                                                                         *)
(* A character stands for itself, but "s" for "stream.pcm", "p" for        *)
(* "player", "m" for a player's MAC address, "h" for "html", and "#" for   *)
(* any character that has no name here.                                    *)
(***************************************************************************)
EXTENDS Reply

CONSTANTS
    Uris,         \* URIs of requests, as the parser has accepted them
    ClientLists   \* the infos in the client list

ASSUME ListAssumption == \A list \in ClientLists : list \in Seq(STRING)

HexValue == [c \in {"2", "3", "5", "6", "b", "d", "e", "f"} |->
    CASE c = "2" -> 2 [] c = "3" -> 3 [] c = "5" -> 5 [] c = "6" -> 6
      [] c = "b" -> 11 [] c = "d" -> 13 [] c = "e" -> 14 [] c = "f" -> 15]

Ascii ==
    [v \in {32, 37, 38, 43, 46, 47, 50, 51, 53, 54, 61, 63} |->
        CASE v = 32 -> "SP" [] v = 37 -> "%" [] v = 38 -> "&" [] v = 43 -> "+" [] v = 46 -> "."
          [] v = 47 -> "/" [] v = 50 -> "2" [] v = 51 -> "3" [] v = 53 -> "5" [] v = 54 -> "6"
          [] v = 61 -> "=" [] v = 63 -> "?"]

VARIABLES
    request,     \* the connection's request: its URI
    reply,
    url_params,
    shm_map,     \* the client list, which the control server changes
    seen         \* the client list when the request was handled

handlerVars == <<request, reply, url_params, shm_map, seen>>

NoReply == [status |-> 0]

HandlerInit ==
    /\ request = <<>> /\ reply = NoReply /\ url_params = <<>>
    /\ shm_map \in ClientLists /\ seen = shm_map

\* is >> std::hex >> value: a number ends before what is not a digit, and may
\* have a sign.  A character without a name is what other values give.
NumberIn(x, y) ==
    LET hex == DOMAIN HexValue
    IN  CASE x \in hex /\ y \in hex -> 16 * HexValue[x] + HexValue[y]
          [] x \in hex /\ y \notin hex -> HexValue[x]
          [] x \in {"+", "-"} /\ y \in hex -> HexValue[y]
          [] OTHER -> 256
CharOf(v) == IF v \in DOMAIN Ascii THEN Ascii[v] ELSE "#"

\* How far url_decode goes on after an escape.
EscapeLength == 3

\* url_decode; "invalid" is last if it returns false.
Decode(in) ==
    LET out[i \in 1..(Len(in) + 3)] ==
            CASE i > Len(in) -> <<>>
              [] i <= Len(in) /\ in[i] = "%" ->
                    IF i + 2 <= Len(in) /\ NumberIn(in[i + 1], in[i + 2]) < 256
                    THEN <<CharOf(NumberIn(in[i + 1], in[i + 2]))>> \o out[i + EscapeLength]
                    ELSE <<"invalid">>
              [] i <= Len(in) /\ in[i] = "+" -> <<"SP">> \o out[i + 1]
              [] OTHER -> <<in[i]>> \o out[i + 1]
    IN  out[1]

\* find_first_of, and the parts before and after; the whole if there is none.
Position(s, c) == SelectInSeq(s, LAMBDA x : x = c)
Before(s, c) == IF Position(s, c) = 0 THEN s ELSE SubSeq(s, 1, Position(s, c) - 1)
After(s, c) == IF Position(s, c) = 0 THEN <<>> ELSE SubSeq(s, Position(s, c) + 1, Len(s))

\* The path is absolute and does not contain "..".  Mutant: it may end so.
IsAllowed_End(path) ==
    /\ path # <<>> /\ path[1] = "/"
    /\ \A i \in 1..(Len(path) - 2) : SubSeq(path, i, i + 1) # <<".", ".">>
IsAllowed(path) ==
    /\ path # <<>> /\ path[1] = "/"
    /\ \A i \in 1..(Len(path) - 1) : SubSeq(path, i, i + 1) # <<".", ".">>

IsInvalid(decoded) == decoded # <<>> /\ Last(decoded) = "invalid"

\* What follows the last dot, if that is in the last segment of the path.
Extension(path) ==
    LET dot == SelectLastInSeq(path, LAMBDA x : x = ".")
        slash == SelectLastInSeq(path, LAMBDA x : x = "/")
    IN  IF dot > slash THEN SubSeq(path, dot + 1, Len(path)) ELSE <<>>

\* handle_read goes on reading only before the request.
HandleRequest(uri) ==
    LET decoded == Decode(uri)
        path == Before(decoded, "?")
    IN  /\ reply = NoReply
        /\ request' = uri
        /\ url_params' = IF IsInvalid(decoded) THEN <<>> ELSE After(decoded, "?")
        /\ reply' = IF IsInvalid(decoded) \/ ~IsAllowed(path) THEN StockReply(400)
                    ELSE IF path = <<"/", "s">> THEN StreamReply
                    ELSE PageReply(shm_map, MimeType(Extension(path)))
        /\ seen' = shm_map
        /\ UNCHANGED shm_map

\* Players come and go while the reply is written.
ClientsChange ==
    /\ reply # NoReply
    /\ shm_map' \in ClientLists
    /\ UNCHANGED <<request, reply, url_params, seen>>

HandlerNext == (\E uri \in Uris : HandleRequest(uri)) \/ ClientsChange

HandlerSpec == HandlerInit /\ [][HandlerNext]_handlerVars

\* connection::get_mac_address: the value of the first parameter "player".
\* Mutant: the value ends at the last parameter's end.
EndOfParam_None(params) == params
EndOfParam(params) == Before(params, "&")
GetMacAddress(params) ==
    LET starts == {i \in 1..Len(params) : i = 1 \/ params[i - 1] = "&"}
        Param(i) == EndOfParam(SubSeq(params, i, Len(params)))
        named == {i \in starts : Before(Param(i), "=") = <<"p">> /\ Position(Param(i), "=") # 0}
    IN  IF named = {} THEN <<>>
        ELSE After(Param(CHOOSE i \in named : \A j \in named : i <= j), "=")

-----------------------------------------------------------------------------

\* A URI in which some characters are escaped.
Escapes == [c \in {"/", ".", "?", "=", "&"} |->
    CASE c = "/" -> <<"%", "2", "f">> [] c = "." -> <<"%", "2", "e">>
      [] c = "?" -> <<"%", "3", "f">> [] c = "=" -> <<"%", "3", "d">>
      [] c = "&" -> <<"%", "2", "6">>]
Spelt(S, c) ==
    {s \o <<c>> : s \in S} \cup IF c \in DOMAIN Escapes THEN {s \o Escapes[c] : s \in S} ELSE {}
Spellings(uri) == FoldLeft(Spelt, {<<>>}, uri)

\* The URL of a play command, and what a player may add to it; paths that leave
\* the root.
PlayUrls == {<<"/", "s", "?", "p", "=", "m">>, <<"/", "s", "?", "p", "=", "m", "&", "2">>,
             <<"/", "s", "?", "2", "=", "b", "&", "p", "=", "m">>}
Parents == {<<".", ".">>, <<"/", ".", ".">>, <<"/", ".", ".", "/", "s">>,
            <<"/", "s", "/", ".", ".", "?", "p", "=", "m">>}

\* Is it the stream that is sent?
Streams == reply # NoReply /\ reply.keep_open

\* "Convert the reply into a vector of buffers" (reply.hpp:57): a browser that
\* follows the Content-Length reads all of the page, with a line for each client
\* that was active when it asked, and nothing more; the stream has no end, and
\* its client is not told one.
ReplyRead ==
    reply # NoReply =>
        LET s == ToBuffers(reply) IN
        /\ s[1].code = reply.status
        /\ Streams <=> Lengths(s) = {}
        /\ ~Streams => ContentRead(s) = IF reply.status = 400 THEN StockContent(400)
                                        ELSE <<"<html>">> \o seen \o <<"</html>">>

\* The player that opens the stream it was told to play is known by the MAC
\* address it sent in its HELO, however its URL is spelt and whatever
\* parameters come with it: on_chunk's new play command goes to it.
PlayerFound ==
    (\E u \in PlayUrls : request \in Spellings(u))
        => Streams /\ GetMacAddress(url_params) = <<"m">>

\* No spelling of a path that leaves the root is served.
NoParent == (\E u \in Parents : request \in Spellings(u)) => reply.status = 400
=============================================================================
