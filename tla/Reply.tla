-------------------------------- MODULE Reply --------------------------------
(***************************************************************************)
(* The replies of the streaming server as it writes them                   *)
(* (src/http_server/reply.*, mime_types.*, and the two replies that        *)
(* request_handler fills out itself), and how an HTTP/1.0 client reads     *)
(* them.  A status line, a header line, the empty line and a piece of the  *)
(* content are one item each; a length counts items.                       *)
(***************************************************************************)
EXTENDS Naturals, Sequences, SequencesExt

\* status_type
Status == {200, 201, 202, 204, 300, 301, 302, 304, 400, 401, 403, 404, 500, 501, 502, 503}

\* stock_replies::to_string; "ok" has no content.
StockContent(s) ==
    IF s = 200 THEN <<>>
    ELSE <<"<html>", IF s \in Status THEN s ELSE 500, "</html>">>

Header(name, value) == [name |-> name, value |-> value]

StockReply(s) ==
    [status |-> s,
     headers |-> <<Header("Content-Length", Len(StockContent(s))),
                   Header("Content-Type", "text/html")>>,
     content |-> StockContent(s),
     keep_open |-> FALSE]

\* What handle_request fills out for the stream: it ends with the connection.
StreamReply ==
    [status |-> 200,
     headers |-> <<Header("Connection", "close"), Header("Content-Type", "audio/x-pcm")>>,
     content |-> <<>>,
     keep_open |-> TRUE]

\* The status page: a line for each entry of the client list.
PageContent(clients) == <<"<html>">> \o clients \o <<"</html>">>

\* Mutant: the length is taken before the end of the page is appended.
PageLength_Early(clients) == Len(clients) + 1
PageLength(clients) == Len(PageContent(clients))

\* The second header of the page gets a value and no name.
PageReply(clients, type) ==
    [status |-> 200,
     headers |-> <<Header("Content-Length", PageLength(clients)), Header("", type)>>,
     content |-> PageContent(clients),
     keep_open |-> FALSE]

\* mime_types: "g" stands for the extensions of images, "h" for htm and html.
MimeType(extension) ==
    CASE extension = <<"g">> -> "image" [] extension = <<"h">> -> "text/html"
      [] OTHER -> "text/plain"

\* status_strings::to_buffer: any other status is sent as 500.
StatusLine(s) == [line |-> "status", code |-> IF s \in Status THEN s ELSE 500]

EmptyLine == <<[line |-> "empty"]>>

ToBuffers(r) ==
    <<StatusLine(r.status)>>
    \o [i \in 1..Len(r.headers) |-> [line |-> "header", header |-> r.headers[i]]]
    \o EmptyLine
    \o [i \in 1..Len(r.content) |-> [line |-> "content", text |-> r.content[i]]]

-----------------------------------------------------------------------------
(* The client: it passes over header lines it cannot read. *)

EndOfHeaders(s) == SelectInSeq(s, LAMBDA x : x.line = "empty")
Lengths(s) ==
    {s[i].header.value :
        i \in {j \in 2..(EndOfHeaders(s) - 1) : s[j].header.name = "Content-Length"}}

\* The content by its length; without one, all until the connection is closed.
ContentRead(s) ==
    LET from == EndOfHeaders(s) + 1
        to == IF Lengths(s) = {} THEN Len(s) ELSE from + (CHOOSE n \in Lengths(s) : TRUE) - 1
    IN  [i \in 1..(to - from + 1) |-> s[from + i - 1].text]
=============================================================================
