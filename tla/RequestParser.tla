---------------------------- MODULE RequestParser ----------------------------
(***************************************************************************)
(* The streaming server's request parser                                   *)
(* (request_parser in src/http_server): a state machine that is fed one    *)
(* character at a time, whatever reads they came in, and fills a request.  *)
(*                                                                         *)
(* Of the characters that the parser does not tell apart there is one:     *)
(* "P" stands for other letters too, "/" for what is special in a token,   *)
(* "TAB" for a control character, and "high" is a char below 0.            *)
(***************************************************************************)
EXTENDS Naturals, Sequences, FiniteSets, SequencesExt

CONSTANTS
    Char,       \* the characters that are sent
    MaxExtra    \* what a request has beyond the shortest one (a bound)

Ctl == {"CR", "LF", "TAB"}
Tspecial == {"SP", "TAB", "/", ":"}
Lws == {"SP", "TAB"}
DigitValue == [c \in {"1"} |-> 1]

VARIABLES
    state,   \* state_; "bad" and "done" for the results false and true
    req,     \* request
    text     \* what was sent

vars == <<state, req, text>>

Init ==
    /\ state = "method_start"
    /\ req = [method |-> <<>>, uri |-> <<>>, major |-> 0, minor |-> 0, headers |-> <<>>]
    /\ text = <<>>

\* is_char, is_ctl and is_tspecial together.  Mutant: one is forgotten.
IsToken_Specials(c) == c \notin Ctl \cup {"high"}
IsToken(c) == c \notin Ctl \cup Tspecial \cup {"high"}

IsDigit(c) == c \in DOMAIN DigitValue

\* A header line may go on in the next one.  Only LWS after
\* a header does.
Continues(c) == req.headers # <<>> /\ c \in Lws

\* The states that wait for one character, and what comes after it.
Expected ==
    [http_version_h |-> "H", http_version_t_1 |-> "T", http_version_t_2 |-> "T",
     http_version_p |-> "P", http_version_slash |-> "/", expecting_newline_1 |-> "LF",
     expecting_newline_2 |-> "LF", expecting_newline_3 |-> "LF",
     space_before_header_value |-> "SP"]
Following ==
    [http_version_h |-> "http_version_t_1", http_version_t_1 |-> "http_version_t_2",
     http_version_t_2 |-> "http_version_p", http_version_p |-> "http_version_slash",
     http_version_slash |-> "http_version_major_start",
     expecting_newline_1 |-> "header_line_start", expecting_newline_2 |-> "header_line_start",
     expecting_newline_3 |-> "done", space_before_header_value |-> "header_value"]

\* consume: the next state.  The state uri_start is never entered.
To(c) ==
    CASE state \in DOMAIN Expected /\ c = Expected[state] -> Following[state]
      [] state \in {"method_start", "method"} /\ IsToken(c) -> "method"
      [] state = "method" /\ c = "SP" -> "uri"
      [] state = "uri" /\ c = "SP" -> "http_version_h"
      [] state = "uri" /\ c \notin Ctl \cup {"SP"} -> "uri"
      [] state \in {"http_version_major_start", "http_version_major"} /\ IsDigit(c)
            -> "http_version_major"
      [] state = "http_version_major" /\ c = "." -> "http_version_minor_start"
      [] state \in {"http_version_minor_start", "http_version_minor"} /\ IsDigit(c)
            -> "http_version_minor"
      [] state = "http_version_minor" /\ c = "CR" -> "expecting_newline_1"
      [] state = "header_line_start" /\ c = "CR" -> "expecting_newline_3"
      [] state = "header_line_start" /\ Continues(c) -> "header_lws"
      [] state \in {"header_line_start", "header_name"} /\ IsToken(c) -> "header_name"
      [] state = "header_name" /\ c = ":" -> "space_before_header_value"
      [] state \in {"header_lws", "header_value"} /\ c = "CR" -> "expecting_newline_2"
      [] state = "header_lws" /\ c \in Lws -> "header_lws"
      [] state = "header_lws" /\ c \notin Ctl \cup Lws -> "header_value"
      [] state = "header_value" /\ c \notin Ctl -> "header_value"
      [] OTHER -> "bad"

\* headers.back()
LastHeader == Len(req.headers)

\* consume: what becomes of the request.  Mutant: the first character of a
\* continuation line is not kept.
Keeps_Continued == state \notin {"space_before_header_value", "header_lws"}
Keeps == state # "space_before_header_value"

Parsed(c) ==
    CASE To(c) = "method" -> [req EXCEPT !.method = Append(@, c)]
      [] To(c) = "uri" /\ state = "uri" -> [req EXCEPT !.uri = Append(@, c)]
      [] To(c) = "http_version_major_start" -> [req EXCEPT !.major = 0, !.minor = 0]
      [] To(c) = "http_version_major" -> [req EXCEPT !.major = 10 * @ + DigitValue[c]]
      [] To(c) = "http_version_minor" -> [req EXCEPT !.minor = 10 * @ + DigitValue[c]]
      [] To(c) = "header_name" /\ state = "header_line_start" ->
            [req EXCEPT !.headers = Append(@, [name |-> <<c>>, value |-> <<>>])]
      [] To(c) = "header_name" /\ state = "header_name" ->
            [req EXCEPT !.headers[LastHeader].name = Append(@, c)]
      [] To(c) = "header_value" /\ Keeps ->
            [req EXCEPT !.headers[LastHeader].value = Append(@, c)]
      [] OTHER -> req

-----------------------------------------------------------------------------

\* Bounds on what is sent: headers, the characters of their values, longer names
\* and continuation lines count one each, characters of the request line two.
\* White space that continues a header is one or two characters long.  In headers
\* the parser does not tell the characters LikeP from "P".
LikeP == {"H", "T", ".", "1"}
Beyond(n, s) == IF Len(s) > n THEN Len(s) - n ELSE 0
LineExtra ==
    Beyond(1, req.method) + Len(req.uri)
    + req.major \div 10 + req.minor \div 10
HeaderExtra ==
    FoldLeft(LAMBDA n, h : n + 1 + Beyond(1, h.name) + Len(h.value), 0, req.headers)
Folds == Cardinality({i \in 2..Len(text) : text[i - 1] = "LF" /\ text[i] \in Lws})
LineEnded == "LF" \in {text[i] : i \in 1..Len(text)}
LongLws == Len(text) > 2 /\ state = "header_lws" /\ text[Len(text) - 2] \in Lws
WithinBounds == 2 * LineExtra + HeaderExtra + Folds <= MaxExtra /\ ~LongLws

Consume(c) ==
    /\ state \notin {"bad", "done"}
    /\ LineEnded => c \notin LikeP
    /\ state' = To(c)
    /\ req' = Parsed(c)
    /\ text' = Append(text, c)
    /\ WithinBounds'

Next == \E c \in Char : Consume(c)

Spec == Init /\ [][Next]_vars

-----------------------------------------------------------------------------
(* A request, described without a state machine: by the places of its parts, each
   of which is what t has from place a to place b. *)

IsTokens(t, a, b) == a <= b /\ \A k \in a..b : t[k] \notin Ctl \cup Tspecial \cup {"high"}
IsNumber(t, a, b) == a <= b /\ \A k \in a..b : t[k] = "1"

Protocol == <<"H", "T", "T", "P", "/">>
IsVersion(t, a, b) ==
    \E d \in (a + 5)..b :
        /\ \A k \in 1..5 : t[a + k - 1] = Protocol[k]
        /\ IsNumber(t, a + 5, d - 1) /\ t[d] = "." /\ IsNumber(t, d + 1, b)

IsRequestLine(t, b) ==
    \E i, j \in {k \in 1..b : t[k] = "SP"} :
        /\ i < j
        /\ IsTokens(t, 1, i - 1)
        /\ \A k \in (i + 1)..(j - 1) : t[k] \notin Ctl \cup {"SP"}
        /\ IsVersion(t, j + 1, b)

\* Control characters are those of a line break before white space, or tabs
\* after one.
IsValue(t, a, b) ==
    \A k \in a..b : t[k] \in Ctl =>
        \/ t[k] = "CR" /\ k + 2 <= b /\ t[k + 1] = "LF" /\ t[k + 2] \in Lws
        \/ t[k] = "LF" /\ a < k /\ t[k - 1] = "CR"
        \/ t[k] = "TAB" /\ \E j \in a..(k - 1) : t[j] = "LF" /\ \A l \in (j + 1)..k : t[l] \in Lws

IsHeader(t, a, b) ==
    \E i \in a..(b - 1) :
        /\ IsTokens(t, a, i - 1) /\ t[i] = ":" /\ t[i + 1] = "SP"
        /\ IsValue(t, i + 2, b)

\* Where lines end that do not go on in the next one.
LineEnds(t) ==
    {k \in 2..Len(t) : t[k - 1] = "CR" /\ t[k] = "LF" /\ (k < Len(t) => t[k + 1] \notin Lws)}

\* A request line, headers, which may go on in lines that begin with white
\* space, and an empty line.
IsRequest(t) ==
    LET ends == LineEnds(t)
    IN  /\ {Len(t) - 2, Len(t)} \subseteq ends
        /\ \A b \in ends \ {Len(t)} :
              \E a \in {0} \cup ends :
                  /\ a < b /\ \A k \in ends : k <= a \/ b <= k
                  /\ IF a = 0 THEN IsRequestLine(t, b - 2) ELSE IsHeader(t, a + 1, b - 2)

\* Whatever has begun as a request can be completed by the end of one of these:
\* of the shortest request, or, after its first line, of a header.
ShortRequest ==
    <<"P", "SP", "SP", "H", "T", "T", "P", "/", "1", ".", "1", "CR", "LF", "CR", "LF">>
ShortHeader == <<":", "SP", "CR", "LF", "CR", "LF">>
Completions(t) ==
    LET s == IF \E k \in 1..Len(t) : t[k] = "LF" THEN ShortHeader ELSE ShortRequest
    IN  {SubSeq(s, n, Len(s)) : n \in 1..Len(s)}
IsBegun(t) == \E s \in Completions(t) : IsRequest(t \o s)

CrLf == <<"CR", "LF">>

\* A text without its line breaks before white space, and that white space: out
\* so far; what is skipped is white space that follows such a line break.
UnfoldStep(acc, c) ==
    IF c \in Lws /\ (acc.skip \/ IsSuffix(CrLf, acc.out))
    THEN [skip |-> TRUE,
          out |-> IF acc.skip THEN acc.out ELSE SubSeq(acc.out, 1, Len(acc.out) - 2)]
    ELSE [skip |-> FALSE, out |-> Append(acc.out, c)]
Unfolded(t) == FoldLeft(UnfoldStep, [skip |-> FALSE, out |-> <<>>], t)
Unfold(t) == Unfolded(t).out

\* A number as it is sent; there is no digit 0.
Decimal[n \in Nat] ==
    IF n = 0 THEN <<>>
    ELSE Append(Decimal[n \div 10], CHOOSE c \in DOMAIN DigitValue : DigitValue[c] = n % 10)

\* A request as it would be sent on one line per header.
RenderHeader(acc, h) == acc \o h.name \o <<":", "SP">> \o h.value \o CrLf
RenderHeaders(headers) == FoldLeft(RenderHeader, <<>>, headers)
RenderLine(r) ==
    r.method \o <<"SP">> \o r.uri \o <<"SP", "H", "T", "T", "P", "/">>
    \o Decimal[r.major] \o <<".">> \o Decimal[r.minor] \o CrLf
Render(r) == RenderLine(r) \o RenderHeaders(r.headers) \o CrLf

-----------------------------------------------------------------------------

\* parse is "true when a complete request has been parsed, false if the data is
\* invalid, indeterminate when more data is required": the parser's answer after
\* each character is the grammar's.
AcceptsExactly ==
    /\ state = "done" <=> IsRequest(text)
    /\ state \notin {"bad", "done"} <=> IsBegun(text)

\* Nothing that was sent is lost or put in another part of the request: what an
\* accepted request holds, written out again, is the text without its folds.
NothingLost == state = "done" => Unfold(text) = Render(req)
=============================================================================
