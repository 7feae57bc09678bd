------------------------ MODULE RequestParser_proofs ------------------------
(***************************************************************************)
(* Proofs about RequestParser, for any set of characters and requests of   *)
(* any length.                                                             *)
(*                                                                         *)
(* What the parser keeps of a request, written out again, is the text      *)
(* without its folds, in every state and not only at the end (Kept).       *)
(*                                                                         *)
(* What the parser accepts is what the grammar says, which describes a     *)
(* request by the places of its parts.  A text determines the states that  *)
(* the parser goes through (Run), and the parser is in the last of them    *)
(* (Tracks).  A request is read to its end (RequestRuns), a text that is   *)
(* read to its end is a request (RequestFound), and one that is not        *)
(* refused can be continued to its end (Begun).                            *)
(***************************************************************************)
EXTENDS RequestParser, SequenceTheorems, DataInduction

\* What one more character makes of a text without its folds.
LEMMA UnfoldAppend ==
    ASSUME NEW S, NEW t \in Seq(S), NEW c \in S
    PROVE  /\ Unfolded(t) \in [skip : BOOLEAN, out : Seq(S)]
           /\ Unfolded(<<>>) = [skip |-> FALSE, out |-> <<>>]
           /\ Unfolded(Append(t, c)) = UnfoldStep(Unfolded(t), c)
<1> DEFINE A == [skip : BOOLEAN, out : Seq(S)]
           base == [skip |-> FALSE, out |-> <<>>]
           g == [x \in S |-> [a \in A |-> UnfoldStep(a, x)]]
           Solves(f, u) == f = [s \in SUBSET DOMAIN u |->
               IF s = {} THEN base ELSE UnfoldStep(f[s \ {Max(s)}], u[Max(s)])]
           Iter(u) == CHOOSE f : Solves(f, u)
<1>1. base \in A
  BY EmptySeq
<1>2. ASSUME NEW a \in A, NEW x \in S PROVE UnfoldStep(a, x) \in A
  <2>1. Len(a.out) \in Nat
    BY LenProperties
  <2>2. SubSeq(a.out, 1, Len(a.out) - 2) \in Seq(S)
    <3>1. \A i \in 1..(Len(a.out) - 2) : a.out[i] \in S
      BY <2>1, ElementOfSeq
    <3> QED BY <2>1, <3>1, SubSeqProperties
  <2>3. Append(a.out, x) \in Seq(S)
    BY AppendProperties
  <2> QED BY <2>2, <2>3 DEF UnfoldStep
<1>3. g \in [S -> [A -> A]] /\ \A x \in S, a \in A : g[x][a] = UnfoldStep(a, x)
  BY <1>2
<1> HIDE DEF g, A, base
<1>4. ASSUME NEW u \in Seq(S), NEW s \in SUBSET DOMAIN u, s # {} PROVE u[Max(s)] \in S
  BY <1>4, MaxOf, LenProperties
<1>5. ASSUME NEW u \in Seq(S) PROVE Follows(Iter(u), u, A, base, g)
  <2>1. PICK f \in [SUBSET DOMAIN u -> A] : IsFold(f, u, base, g)
    BY <1>1, <1>3, FoldExists
  <2>2. Solves(f, u)
    BY <1>3, <1>4, <2>1 DEF IsFold
  <2>3. Solves(Iter(u), u)
    BY <2>2
  <2>4. \A s \in SUBSET DOMAIN u :
            Iter(u)[s] = IF s = {} THEN base ELSE UnfoldStep(Iter(u)[s \ {Max(s)}], u[Max(s)])
    BY <2>3
  <2> HIDE DEF Iter
  <2>5. {} \in SUBSET DOMAIN u
    OBVIOUS
  <2> QED BY <1>3, <1>4, <2>4, <2>5 DEF Follows
<1>6. \A u \in Seq(S) : Unfolded(u) = Iter(u)[DOMAIN u]
  BY DEF Unfolded, FoldLeft, MapThenFoldSet, base
<1>7. Append(t, c) \in Seq(S)
  BY AppendProperties
<1> HIDE DEF Iter
<1>8. /\ Iter(t)[DOMAIN t] \in A
      /\ Iter(Append(t, c))[DOMAIN Append(t, c)] = g[c][Iter(t)[DOMAIN t]]
  <2> DEFINE h == Iter(t)
             h1 == Iter(Append(t, c))
  <2>1. Follows(h, t, A, base, g) /\ Follows(h1, Append(t, c), A, base, g)
    BY <1>5, <1>7
  <2>2. g \in [S -> [A -> A]]
    BY <1>3
  <2> HIDE DEF h, h1
  <2>3. h[DOMAIN t] \in A /\ h1[DOMAIN Append(t, c)] = g[c][h[DOMAIN t]]
    BY <1>1, <2>1, <2>2, FoldAppend
  <2> QED BY <2>3 DEF h, h1
<1>9. Unfolded(<<>>) = base
  <2>1. <<>> \in Seq(S) /\ DOMAIN <<>> = {}
    BY EmptySeq
  <2> QED BY <1>5, <1>6, <2>1 DEF Follows
<1> QED BY <1>3, <1>6, <1>7, <1>8, <1>9 DEF A, base

Header == [name : Seq(Char), value : Seq(Char)]
Request == [method : Seq(Char), uri : Seq(Char), major : Nat, minor : Nat, headers : Seq(Header)]

\* The characters of a request written out.
T == Char \cup {"SP", "H", "T", "P", "/", ".", ":", "CR", "LF", "1"}

\* What one more header makes of the headers written out.
LEMMA RenderAppend ==
    ASSUME NEW hs \in Seq(Header), NEW h \in Header
    PROVE  /\ RenderHeaders(hs) \in Seq(T)
           /\ RenderHeaders(<<>>) = <<>>
           /\ RenderHeaders(Append(hs, h)) = RenderHeader(RenderHeaders(hs), h)
<1> DEFINE A == Seq(T)
           base == <<>>
           g == [x \in Header |-> [a \in A |-> RenderHeader(a, x)]]
           Solves(f, u) == f = [s \in SUBSET DOMAIN u |->
               IF s = {} THEN base ELSE RenderHeader(f[s \ {Max(s)}], u[Max(s)])]
           Iter(u) == CHOOSE f : Solves(f, u)
<1>1. base \in A
  BY EmptySeq
<1>2. ASSUME NEW a \in A, NEW x \in Header PROVE RenderHeader(a, x) \in A
  <2>1. Char \subseteq T
    BY DEF T
  <2>2. x.name \in Seq(T) /\ x.value \in Seq(T)
    BY <2>1, SeqMonotonic DEF Header
  <2>3. <<":", "SP">> \in Seq(T) /\ CrLf \in Seq(T)
    BY DEF T, CrLf
  <2> QED BY <2>2, <2>3, ConcatProperties DEF RenderHeader
<1>3. g \in [Header -> [A -> A]] /\ \A x \in Header, a \in A : g[x][a] = RenderHeader(a, x)
  BY <1>2
<1> HIDE DEF g, A, base
<1>4. ASSUME NEW u \in Seq(Header), NEW s \in SUBSET DOMAIN u, s # {} PROVE u[Max(s)] \in Header
  BY <1>4, MaxOf, LenProperties
<1>5. ASSUME NEW u \in Seq(Header) PROVE Follows(Iter(u), u, A, base, g)
  <2>1. PICK f \in [SUBSET DOMAIN u -> A] : IsFold(f, u, base, g)
    BY <1>1, <1>3, FoldExists
  <2>2. Solves(f, u)
    BY <1>3, <1>4, <2>1 DEF IsFold
  <2>3. Solves(Iter(u), u)
    BY <2>2
  <2>4. \A s \in SUBSET DOMAIN u :
            Iter(u)[s] = IF s = {} THEN base ELSE RenderHeader(Iter(u)[s \ {Max(s)}], u[Max(s)])
    BY <2>3
  <2> HIDE DEF Iter
  <2>5. {} \in SUBSET DOMAIN u
    OBVIOUS
  <2> QED BY <1>3, <1>4, <2>4, <2>5 DEF Follows
<1>6. \A u \in Seq(Header) : RenderHeaders(u) = Iter(u)[DOMAIN u]
  BY DEF RenderHeaders, FoldLeft, MapThenFoldSet, base
<1>7. Append(hs, h) \in Seq(Header)
  BY AppendProperties
<1> HIDE DEF Iter
<1>8. /\ Iter(hs)[DOMAIN hs] \in A
      /\ Iter(Append(hs, h))[DOMAIN Append(hs, h)] = g[h][Iter(hs)[DOMAIN hs]]
  <2> DEFINE f == Iter(hs)
             f1 == Iter(Append(hs, h))
  <2>1. Follows(f, hs, A, base, g) /\ Follows(f1, Append(hs, h), A, base, g)
    BY <1>5, <1>7
  <2>2. g \in [Header -> [A -> A]]
    BY <1>3
  <2> HIDE DEF f, f1
  <2>3. f[DOMAIN hs] \in A /\ f1[DOMAIN Append(hs, h)] = g[h][f[DOMAIN hs]]
    BY <1>1, <2>1, <2>2, FoldAppend
  <2> QED BY <2>3 DEF f, f1
<1>9. RenderHeaders(<<>>) = base
  <2>1. <<>> \in Seq(Header) /\ DOMAIN <<>> = {}
    BY EmptySeq
  <2> QED BY <1>5, <1>6, <2>1 DEF Follows
<1> QED BY <1>3, <1>6, <1>7, <1>8, <1>9 DEF A, base

\* No header is nothing written.
LEMMA RenderNone == RenderHeaders(<<>>) = <<>>
<1>1. <<>> \in Seq(Header) /\ [name |-> <<>>, value |-> <<>>] \in Header
  BY EmptySeq DEF Header
<1> QED BY <1>1, RenderAppend

\* The digits of 0 are none, and those of what a digit makes of n are n's and it.
LEMMA DecimalAppend ==
    /\ Decimal[0] = <<>>
    /\ \A n \in Nat : Decimal[10 * n + 1] = Append(Decimal[n], "1")
<1> DEFINE Digit(d) == CHOOSE c \in DOMAIN DigitValue : DigitValue[c] = d
           C == {Digit(n % 10) : n \in Nat}
           S == Seq(C)
           g == [n \in Nat |-> [s \in S |-> Append(s, Digit(n % 10))]]
           p == [n \in Nat |-> n \div 10]
           Solves(f) == f = [n \in Nat |-> IF n = 0 THEN <<>> ELSE Append(f[n \div 10], Digit(n % 10))]
<1>1. <<>> \in S
  BY EmptySeq
<1>2. g \in [Nat -> [S -> S]]
  <2>1. \A n \in Nat : Digit(n % 10) \in C
    OBVIOUS
  <2> HIDE DEF C
  <2>2. \A s \in S, n \in Nat : Append(s, Digit(n % 10)) \in S
    BY <2>1, AppendProperties
  <2> QED BY <2>2
<1>3. p \in [Nat -> Nat] /\ \A n \in Nat : n > 0 => p[n] < n
  OBVIOUS
<1>4. PICK f \in [Nat -> S] : Recurs(f, Nat, <<>>, g, p)
  <2> HIDE DEF g, p, S
  <2> QED BY <1>1, <1>2, <1>3, RecursionExists DEF Descends
<1>5. Solves(f)
  <2>1. ASSUME NEW n \in Nat PROVE n \div 10 \in Nat /\ f[n \div 10] \in S
    <3>1. n \div 10 \in Nat
      OBVIOUS
    <3> HIDE DEF S
    <3> QED BY <3>1
  <2>2. ASSUME NEW n \in Nat
        PROVE  f[n] = IF n = 0 THEN <<>> ELSE Append(f[n \div 10], Digit(n % 10))
    <3>1. f[n] = IF n = 0 THEN <<>> ELSE g[n][f[p[n]]]
      BY <1>4 DEF Recurs
    <3> HIDE DEF S, Digit
    <3>2. p[n] = n \div 10 /\ g[n][f[n \div 10]] = Append(f[n \div 10], Digit(n % 10))
      BY <2>1
    <3> QED BY <3>1, <3>2
  <2> HIDE DEF S, Digit
  <2> QED BY <2>2
<1>6. Solves(Decimal)
  <2>1. Decimal = CHOOSE h : Solves(h)
    BY DEF Decimal
  <2> HIDE DEF Solves
  <2> QED BY <1>5, <2>1
<1> HIDE DEF Digit
<1>7. ASSUME NEW n \in Nat PROVE Decimal[10 * n + 1] = Append(Decimal[n], "1")
  <2>1. 10 * n + 1 \in Nat /\ 10 * n + 1 # 0 /\ (10 * n + 1) \div 10 = n /\ (10 * n + 1) % 10 = 1
    OBVIOUS
  <2>2. Digit(1) = "1"
    BY DEF Digit, DigitValue
  <2> QED BY <1>6, <2>1, <2>2
<1> QED BY <1>6, <1>7
-----------------------------------------------------------------------------
\* Where a character leads, state by state.
LineMoves(c) ==
    /\ state = "method_start" => To(c) = IF IsToken(c) THEN "method" ELSE "bad"
    /\ state = "method" =>
           To(c) = IF IsToken(c) THEN "method" ELSE IF c = "SP" THEN "uri" ELSE "bad"
    /\ state = "uri" =>
           To(c) = IF c = "SP" THEN "http_version_h" ELSE IF c \notin Ctl THEN "uri" ELSE "bad"
    /\ state = "http_version_h" => To(c) = IF c = "H" THEN "http_version_t_1" ELSE "bad"
    /\ state = "http_version_t_1" => To(c) = IF c = "T" THEN "http_version_t_2" ELSE "bad"
    /\ state = "http_version_t_2" => To(c) = IF c = "T" THEN "http_version_p" ELSE "bad"
    /\ state = "http_version_p" => To(c) = IF c = "P" THEN "http_version_slash" ELSE "bad"
    /\ state = "http_version_slash" =>
           To(c) = IF c = "/" THEN "http_version_major_start" ELSE "bad"
    /\ state = "http_version_major_start" =>
           To(c) = IF c = "1" THEN "http_version_major" ELSE "bad"
    /\ state = "http_version_major" =>
           To(c) = IF c = "1" THEN "http_version_major"
                   ELSE IF c = "." THEN "http_version_minor_start" ELSE "bad"
    /\ state = "http_version_minor_start" =>
           To(c) = IF c = "1" THEN "http_version_minor" ELSE "bad"
    /\ state = "http_version_minor" =>
           To(c) = IF c = "1" THEN "http_version_minor"
                   ELSE IF c = "CR" THEN "expecting_newline_1" ELSE "bad"
    /\ state = "expecting_newline_1" => To(c) = IF c = "LF" THEN "header_line_start" ELSE "bad"

HeaderMoves(c) ==
    /\ state = "header_line_start" =>
           To(c) = IF c = "CR" THEN "expecting_newline_3"
                   ELSE IF req.headers # <<>> /\ c \in Lws THEN "header_lws"
                   ELSE IF IsToken(c) THEN "header_name" ELSE "bad"
    /\ state = "header_name" =>
           To(c) = IF IsToken(c) THEN "header_name"
                   ELSE IF c = ":" THEN "space_before_header_value" ELSE "bad"
    /\ state = "space_before_header_value" => To(c) = IF c = "SP" THEN "header_value" ELSE "bad"
    /\ state = "header_value" =>
           To(c) = IF c = "CR" THEN "expecting_newline_2"
                   ELSE IF c \notin Ctl THEN "header_value" ELSE "bad"
    /\ state = "header_lws" =>
           To(c) = IF c = "CR" THEN "expecting_newline_2"
                   ELSE IF c \in Lws THEN "header_lws"
                   ELSE IF c \notin Ctl THEN "header_value" ELSE "bad"
    /\ state = "expecting_newline_2" => To(c) = IF c = "LF" THEN "header_line_start" ELSE "bad"
    /\ state = "expecting_newline_3" => To(c) = IF c = "LF" THEN "done" ELSE "bad"

\* The two tables are what To says, whose cases are by character.
LEMMA Moves == ASSUME NEW c PROVE LineMoves(c) /\ HeaderMoves(c)
<1> USE DEF Expected, Following
<1>1. DOMAIN Expected = {"http_version_h", "http_version_t_1", "http_version_t_2",
           "http_version_p", "http_version_slash", "expecting_newline_1",
           "expecting_newline_2", "expecting_newline_3", "space_before_header_value"}
  OBVIOUS
<1>2. IsDigit(c) <=> c = "1"
  BY DEF IsDigit, DigitValue
<1>3. LineMoves(c)
  BY <1>1, <1>2 DEF LineMoves, To, IsToken, Ctl, Tspecial
<1>4. HeaderMoves(c)
  BY <1>1, <1>2 DEF HeaderMoves, To, IsToken, Ctl, Tspecial, Lws, Continues
<1> QED BY <1>3, <1>4

\* The parts of a request line that are written one after the other.
UriPart(r) == r.method \o <<"SP">> \o r.uri
Http == <<"SP", "H", "T", "T", "P", "/">>
MajorPart(r) == UriPart(r) \o Http \o Decimal[r.major]
MinorPart(r) == MajorPart(r) \o <<".">> \o Decimal[r.minor]
NamePart(hs, h) == RenderHeaders(hs) \o h.name
ValuePart(hs, h) == NamePart(hs, h) \o <<":", "SP">> \o h.value

\* How much of that was read in the states for one character of it.
VersionRead == [http_version_h |-> 1, http_version_t_1 |-> 2, http_version_t_2 |-> 3,
                http_version_p |-> 4, http_version_slash |-> 5]

\* What the parser has kept of the request line's text.
LineKept(out) ==
    /\ state = "method_start" => out = <<>> /\ req.method = <<>>
    /\ state = "method" => out = req.method
    /\ state \in {"method_start", "method"} => req.uri = <<>>
    /\ state = "uri" => out = UriPart(req)
    /\ state \in DOMAIN VersionRead =>
           out = UriPart(req) \o SubSeq(Http, 1, VersionRead[state])
    /\ state \in {"http_version_major_start", "http_version_major"} => out = MajorPart(req)
    /\ state = "http_version_major_start" => req.major = 0
    /\ state = "http_version_minor_start" => out = MajorPart(req) \o <<".">>
    /\ state \in {"http_version_major_start", "http_version_major", "http_version_minor_start"}
           => req.minor = 0
    /\ state = "http_version_minor" => out = MinorPart(req)
    /\ state = "expecting_newline_1" => out = MinorPart(req) \o <<"CR">>

\* The states in which a header is read, and how much of it was written.
Reading == {"header_name", "space_before_header_value", "header_value", "header_lws",
            "expecting_newline_2"}
HeaderKept(out, hs, h) ==
    /\ req.headers = Append(hs, h)
    /\ state \in {"header_name", "space_before_header_value"} => h.value = <<>>
    /\ state = "header_name" => out = RenderLine(req) \o NamePart(hs, h)
    /\ state = "space_before_header_value" =>
           out = RenderLine(req) \o (NamePart(hs, h) \o <<":">>)
    /\ state \in {"header_value", "header_lws"} => out = RenderLine(req) \o ValuePart(hs, h)
    /\ state = "expecting_newline_2" => out = RenderLine(req) \o (ValuePart(hs, h) \o <<"CR">>)

HeadersKept(out) ==
    /\ state \in Reading => \E hs \in Seq(Header), h \in Header : HeaderKept(out, hs, h)
    /\ state = "header_line_start" => out = RenderLine(req) \o RenderHeaders(req.headers)
    /\ state = "expecting_newline_3" =>
           out = RenderLine(req) \o RenderHeaders(req.headers) \o <<"CR">>
    /\ state = "done" => out = Render(req)

\* Only a line's end ends in LF.
LfEnds(out) ==
    state \notin {"method_start", "header_line_start", "header_lws", "done"} =>
        out # <<>> /\ out[Len(out)] # "LF"

InLine == {"method_start", "method", "uri", "http_version_h", "http_version_t_1",
           "http_version_t_2", "http_version_p", "http_version_slash",
           "http_version_major_start", "http_version_major", "http_version_minor_start",
           "http_version_minor", "expecting_newline_1"}
States == InLine \cup Reading \cup {"header_line_start", "expecting_newline_3", "done", "bad"}

Kept ==
    LET acc == Unfolded(text) IN
    state # "bad" =>
        /\ acc.skip <=> state = "header_lws"
        /\ LineKept(acc.out) /\ HeadersKept(acc.out) /\ LfEnds(acc.out)
        /\ state \in InLine => req.headers = <<>>

Typed ==
    /\ state \in States
    /\ req \in Request /\ text \in Seq(Char)
    /\ Decimal[req.major] \in Seq(T) /\ Decimal[req.minor] \in Seq(T)
-----------------------------------------------------------------------------
\* A character behind two texts.
LEMMA TextAppend == \A a, b \in Seq(T), c \in T : Append(a \o b, c) = a \o Append(b, c)
<1> TAKE a, b \in Seq(T), c \in T
<1>1. a \o b \in Seq(T) /\ <<c>> \in Seq(T)
  BY ConcatProperties
<1>2. Append(a \o b, c) = (a \o b) \o <<c>> /\ Append(b, c) = b \o <<c>>
  BY <1>1, AppendIsConcat
<1> QED BY <1>1, <1>2, ConcatAssociative

\* Three texts.
LEMMA TextAssociative == \A a, b, x \in Seq(T) : a \o (b \o x) = (a \o b) \o x
<1> TAKE a, b, x \in Seq(T)
<1>1. (a \o b) \o x = a \o (b \o x)
  BY ConcatAssociative
<1> QED BY <1>1

\* b is a and one more element.
LEMMA Appended ==
    ASSUME NEW S, NEW n \in Nat, NEW m, m = n + 1, NEW a \in Seq(S), Len(a) = n, NEW c \in S,
           NEW b \in Seq(S), Len(b) = m, \A i \in 1..n : b[i] = a[i], b[m] = c
    PROVE  Append(a, c) = b
<1>1. /\ Append(a, c) \in Seq(S) /\ Len(Append(a, c)) = n + 1 /\ Append(a, c)[n + 1] = c
      /\ \A i \in 1..n : Append(a, c)[i] = a[i]
  BY AppendProperties
<1>2. \A i \in 1..(n + 1) : i = n + 1 \/ i \in 1..n
  OBVIOUS
<1>3. Len(Append(a, c)) = Len(b) /\ \A i \in 1..Len(Append(a, c)) : Append(a, c)[i] = b[i]
  BY <1>1, <1>2
<1> QED BY <1>1, <1>3, SeqEqual

\* Two elements, one behind the other.
LEMMA Append2 == ASSUME NEW a, NEW b PROVE Append(<<a>>, b) = <<a, b>>
<1> DEFINE S == {a, b}
           s == <<a>>
           t == <<a, b>>
<1>1. s \in Seq(S) /\ Len(s) = 1 /\ t \in Seq(S) /\ Len(t) = 2
  OBVIOUS
<1>2. t[2] = b /\ \A i \in 1..1 : t[i] = s[i]
  OBVIOUS
<1>3. 2 = 1 + 1 /\ 1 \in Nat /\ b \in S
  OBVIOUS
<1> HIDE DEF s, t, S
<1>4. Append(s, b) = t
  BY <1>1, <1>2, <1>3, Appended
<1> QED BY <1>4 DEF s, t

\* A text that ends in a line break ends in LF, and has what is before it.
LEMMA Suffix ==
    ASSUME NEW S, NEW a \in Seq(S), "CR" \in S, "LF" \in S
    PROVE  /\ IsSuffix(CrLf, a) => a # <<>> /\ a[Len(a)] = "LF"
           /\ IsSuffix(CrLf, a \o CrLf)
           /\ SubSeq(a \o CrLf, 1, Len(a \o CrLf) - 2) = a
<1>1. CrLf \in Seq(S) /\ Len(CrLf) = 2 /\ CrLf[1] = "CR" /\ CrLf[2] = "LF"
  BY DEF CrLf
<1>2. ASSUME NEW t \in Seq(S)
      PROVE  IsSuffix(CrLf, t) <=> Len(t) >= 2 /\ t[Len(t) - 1] = "CR" /\ t[Len(t)] = "LF"
  <2>1. Len(t) \in Nat
    BY LenProperties
  <2> QED BY <1>1, <2>1 DEF IsSuffix, IsPrefix, Reverse
<1> DEFINE b == a \o CrLf
<1>3. /\ b \in Seq(S) /\ Len(b) = Len(a) + 2
      /\ b[Len(a) + 1] = "CR" /\ b[Len(a) + 2] = "LF" /\ Len(a) \in Nat
      /\ \A i \in 1..Len(a) : b[i] = a[i] /\ b[i] \in S
  <2>1. Len(a) \in Nat
    BY LenProperties
  <2>2. \A i \in 1..Len(a) : a[i] \in S
    BY ElementOfSeq
  <2>3. /\ b \in Seq(S) /\ Len(b) = Len(a) + 2
        /\ \A i \in 1..(Len(a) + 2) : b[i] = IF i <= Len(a) THEN a[i] ELSE CrLf[i - Len(a)]
    <3>1. /\ b \in Seq(S) /\ Len(b) = Len(a) + Len(CrLf)
          /\ \A i \in 1..Len(a) + Len(CrLf) :
                 b[i] = IF i <= Len(a) THEN a[i] ELSE CrLf[i - Len(a)]
      BY <1>1, ConcatProperties
    <3> QED BY <1>1, <3>1
  <2> HIDE DEF b
  <2>4. /\ Len(a) + 1 \in 1..(Len(a) + 2) /\ Len(a) + 2 \in 1..(Len(a) + 2)
        /\ ~(Len(a) + 1 <= Len(a)) /\ ~(Len(a) + 2 <= Len(a))
        /\ (Len(a) + 1) - Len(a) = 1 /\ (Len(a) + 2) - Len(a) = 2
    BY <2>1
  <2>5. b[Len(a) + 1] = "CR" /\ b[Len(a) + 2] = "LF"
    BY <1>1, <2>3, <2>4
  <2>6. \A i \in 1..Len(a) : i \in 1..(Len(a) + 2) /\ i <= Len(a)
    BY <2>1
  <2> QED BY <2>1, <2>2, <2>3, <2>5, <2>6
<1> HIDE DEF b
<1>4. SubSeq(b, 1, Len(a)) = a
  <2>1. /\ SubSeq(b, 1, Len(a)) \in Seq(S) /\ Len(SubSeq(b, 1, Len(a))) = Len(a)
        /\ \A i \in 1..Len(a) : SubSeq(b, 1, Len(a))[i] = b[i]
    BY <1>3, SubSeqProperties
  <2> QED BY <1>3, <2>1, SeqEqual
<1>5. IsSuffix(CrLf, b)
  BY <1>2, <1>3
<1>6. Len(b) - 2 = Len(a)
  BY <1>3
<1>7. IsSuffix(CrLf, a) => a # <<>> /\ a[Len(a)] = "LF"
  <2>1. Len(<<>>) = 0
    BY EmptySeq, Zenon
  <2> QED BY <1>2, <2>1
<1> QED BY <1>4, <1>5, <1>6, <1>7 DEF b

\* A part of the last header is replaced.
LEMMA ExceptLast ==
    ASSUME NEW S, NEW hs \in Seq(S), NEW h \in S, NEW k \in S
    PROVE  /\ Append(hs, h)[Len(Append(hs, h))] = h
           /\ [Append(hs, h) EXCEPT ![Len(Append(hs, h))] = k] = Append(hs, k)
<1> DEFINE a == Append(hs, h)
           b == Append(hs, k)
           e == [a EXCEPT ![Len(a)] = k]
<1>1. /\ a \in Seq(S) /\ Len(a) = Len(hs) + 1 /\ a[Len(hs) + 1] = h
      /\ \A i \in 1..Len(hs) : a[i] = hs[i]
  BY AppendProperties
<1>2. /\ b \in Seq(S) /\ Len(b) = Len(hs) + 1 /\ b[Len(hs) + 1] = k
      /\ \A i \in 1..Len(hs) : b[i] = hs[i]
  BY AppendProperties
<1>3. Len(hs) \in Nat
  BY LenProperties
<1> HIDE DEF a, b
<1>4. /\ e \in Seq(S) /\ Len(e) = Len(a)
      /\ \A j \in 1..Len(a) : e[j] = IF j = Len(a) THEN k ELSE a[j]
  <2>1. Len(a) \in 1..Len(a)
    BY <1>1, <1>3
  <2> QED BY <1>1, <2>1, ExceptSeq
<1> HIDE DEF e
<1>5. \A j \in 1..Len(e) : e[j] = b[j]
  <2>1. \A j \in 1..(Len(hs) + 1) : j = Len(hs) + 1 \/ j \in 1..Len(hs)
    BY <1>3
  <2>2. \A j \in 1..Len(hs) : j # Len(hs) + 1 /\ j \in 1..(Len(hs) + 1)
    BY <1>3
  <2> QED BY <1>1, <1>2, <1>4, <2>1, <2>2
<1>6. e = b
  BY <1>1, <1>2, <1>4, <1>5, SeqEqual
<1> QED BY <1>1, <1>6 DEF a, b, e

\* The parts that are written are texts.
LEMMA PartTypes ==
    ASSUME Typed
    PROVE  /\ req.method \in Seq(T) /\ req.uri \in Seq(T) /\ UriPart(req) \in Seq(T)
           /\ MajorPart(req) \in Seq(T) /\ MinorPart(req) \in Seq(T) /\ RenderLine(req) \in Seq(T)
           /\ RenderLine(req) = MinorPart(req) \o CrLf
<1>1. Char \subseteq T
  BY DEF T
<1>2. req.method \in Seq(T) /\ req.uri \in Seq(T)
  BY <1>1, SeqMonotonic DEF Typed, Request
<1>3. /\ <<"SP">> \in Seq(T) /\ Http \in Seq(T)
      /\ <<".">> \in Seq(T) /\ CrLf \in Seq(T)
  BY DEF T, CrLf, Http
<1>4. UriPart(req) \in Seq(T)
  BY <1>2, <1>3, ConcatProperties DEF UriPart
<1>5. MajorPart(req) \in Seq(T)
  BY <1>3, <1>4, ConcatProperties DEF MajorPart, Typed
<1>6. MinorPart(req) \in Seq(T)
  BY <1>3, <1>5, ConcatProperties DEF MinorPart, Typed
<1>7. RenderLine(req) = MinorPart(req) \o CrLf
  BY DEF RenderLine, MinorPart, MajorPart, UriPart, Http
<1> QED BY <1>2, <1>3, <1>4, <1>5, <1>6, <1>7, ConcatProperties

\* The headers written out, by part, are texts.
LEMMA HeaderTypes ==
    ASSUME NEW hs \in Seq(Header), NEW h \in Header
    PROVE  /\ h.name \in Seq(T) /\ h.value \in Seq(T) /\ NamePart(hs, h) \in Seq(T)
           /\ ValuePart(hs, h) \in Seq(T)
           /\ RenderHeaders(Append(hs, h)) = ValuePart(hs, h) \o CrLf
<1>1. Char \subseteq T
  BY DEF T
<1>2. h.name \in Seq(T) /\ h.value \in Seq(T)
  BY <1>1, SeqMonotonic DEF Header
<1>3. <<":", "SP">> \in Seq(T)
  BY DEF T
<1>4. RenderHeaders(hs) \in Seq(T) /\ RenderHeaders(Append(hs, h)) = RenderHeader(RenderHeaders(hs), h)
  BY RenderAppend
<1>5. NamePart(hs, h) \in Seq(T)
  BY <1>2, <1>4, ConcatProperties DEF NamePart
<1>6. ValuePart(hs, h) \in Seq(T)
  BY <1>2, <1>3, <1>5, ConcatProperties DEF ValuePart
<1> QED BY <1>2, <1>4, <1>5, <1>6 DEF RenderHeader, ValuePart, NamePart

\* One more character of the version's beginning.
LEMMA HttpAppend ==
    /\ Http \in Seq(T) /\ Len(Http) = 6 /\ SubSeq(Http, 1, 6) = Http
    /\ SubSeq(Http, 1, 1) = <<"SP">>
    /\ \A k \in 1..5 : /\ SubSeq(Http, 1, k) \in Seq(T)
                       /\ Append(SubSeq(Http, 1, k), Http[k + 1]) = SubSeq(Http, 1, k + 1)
<1>1. Http \in Seq(T) /\ Len(Http) = 6
  BY DEF Http, T
<1>2. ASSUME NEW k \in 1..5
      PROVE  /\ SubSeq(Http, 1, k) \in Seq(T)
             /\ Append(SubSeq(Http, 1, k), Http[k + 1]) = SubSeq(Http, 1, k + 1)
  <2>1. \A i \in 1..6 : Http[i] \in T
    <3>1. \A i \in 1..Len(Http) : Http[i] \in T
      BY <1>1, ElementOfSeq
    <3> QED BY <1>1, <3>1
  <2>2. SubSeq(Http, 1, k) \in Seq(T) /\ Http[k + 1] \in T
    <3>1. k \in Int /\ 1 \in Int /\ k + 1 \in 1..6 /\ \A i \in 1..k : Http[i] \in T
      BY <2>1
    <3> QED BY <2>1, <3>1, SubSeqProperties
  <2>3. 1 \in 1..Len(Http) /\ k + 1 \in 1..Len(Http) /\ (k + 1) - 1 = k
    BY <1>1
  <2>4. SubSeq(Http, 1, k + 1) = SubSeq(Http, 1, k) \o <<Http[k + 1]>>
    BY <1>1, <2>3, SubSeqRecursiveSecond
  <2> QED BY <2>2, <2>4, AppendIsConcat
<1>3. SubSeq(Http, 1, 6) = Http
  BY <1>1, SubSeqFull
<1>4. SubSeq(Http, 1, 1) = <<"SP">>
  <2> DEFINE a == SubSeq(Http, 1, 1)
             b == <<"SP">>
  <2>1. a \in Seq(T)
    <3>1. 1 \in 1..5
      OBVIOUS
    <3> QED BY <1>2, <3>1
  <2>2. Len(a) = 1 /\ a[1] = "SP"
    BY DEF Http
  <2>3. b \in Seq(T) /\ Len(b) = 1 /\ b[1] = "SP"
    BY DEF T
  <2> HIDE DEF a, b
  <2>4. \A i \in 1..Len(a) : a[i] = b[i]
    BY <2>2, <2>3
  <2>5. a = b
    BY <2>1, <2>2, <2>3, <2>4, SeqEqual
  <2> QED BY <2>5 DEF a, b
<1> QED BY <1>1, <1>2, <1>3, <1>4

\* A character of the request line is kept in the part that is being read.
LEMMA LineStep ==
    ASSUME Typed, state \in InLine, req.headers = <<>>, NEW out \in Seq(T), LineKept(out),
           NEW c \in Char, Consume(c), state' # "bad"
    PROVE  /\ LineKept(Append(out, c))' /\ HeadersKept(Append(out, c))' /\ Typed'
           /\ state' \in InLine \cup {"header_line_start"} /\ req'.headers = <<>>
<1>1. LineMoves(c) /\ state' = To(c) /\ req' = Parsed(c) /\ text' = Append(text, c)
  BY Moves DEF Consume
<1>2. text' \in Seq(Char)
  BY <1>1, AppendProperties DEF Typed
<1>3. /\ req.method \in Seq(T) /\ req.uri \in Seq(T) /\ UriPart(req) \in Seq(T)
      /\ MajorPart(req) \in Seq(T) /\ MinorPart(req) \in Seq(T) /\ c \in T /\ "1" \in T
  BY PartTypes DEF T
<1>4. /\ req \in Request /\ req.headers = <<>> /\ Decimal[0] = <<>>
      /\ Decimal[req.major] \in Seq(T) /\ Decimal[req.minor] \in Seq(T)
      /\ <<>> \in Seq(Header) /\ <<>> \in Seq(T)
  BY EmptySeq, DecimalAppend DEF Typed
<1>5. CASE state \in DOMAIN VersionRead
  <2> DEFINE k == VersionRead[state]
  <2>1. /\ k \in 1..5 /\ c = Http[k + 1]
        /\ k = 5 => state' = "http_version_major_start" /\ req' = [req EXCEPT !.major = 0, !.minor = 0]
        /\ k < 5 => state' \in DOMAIN VersionRead /\ VersionRead[state'] = k + 1 /\ req' = req
    BY <1>1, <1>5 DEF LineMoves, VersionRead, Http, Parsed
  <2>2. out = UriPart(req) \o SubSeq(Http, 1, k)
    BY <1>5 DEF LineKept
  <2> HIDE DEF k
  <2>3. Append(out, c) = UriPart(req) \o SubSeq(Http, 1, k + 1)
    <3> DEFINE h == SubSeq(Http, 1, k)
    <3>1. h \in Seq(T) /\ Append(h, c) = SubSeq(Http, 1, k + 1)
      BY <2>1, HttpAppend
    <3> HIDE DEF h
    <3>2. out = UriPart(req) \o h
      BY <2>2 DEF h
    <3>3. Append(UriPart(req) \o h, c) = UriPart(req) \o Append(h, c)
      <4>1. UriPart(req) \in Seq(T) /\ h \in Seq(T) /\ c \in T
        BY <1>3, <3>1
      <4> QED BY <4>1, TextAppend
    <3> QED BY <3>1, <3>2, <3>3
  <2>4. CASE k < 5
    <3>1. LineKept(Append(out, c))'
      BY <1>4, <2>1, <2>3, <2>4 DEF LineKept, VersionRead
    <3>2. HeadersKept(Append(out, c))' /\ Typed' /\ state' \in InLine
      BY <1>2, <1>4, <2>1, <2>4 DEF HeadersKept, Typed, VersionRead, InLine, States, Reading
    <3>3. req' = req
      BY <2>1, <2>4
    <3> QED BY <1>4, <3>1, <3>2, <3>3
  <2>5. CASE k = 5
    <3>0. /\ state' = "http_version_major_start"
          /\ req' = [req EXCEPT !.major = 0, !.minor = 0] /\ k + 1 = 6
      BY <2>1, <2>5
    <3>1. MajorPart(req') = UriPart(req) \o Http
      <4>1. UriPart(req) \o Http \in Seq(T)
        BY <1>3, HttpAppend, ConcatProperties
      <4>2. UriPart(req') = UriPart(req) /\ req'.major = 0
        BY <1>4, <3>0 DEF Request, UriPart
      <4> QED BY <1>4, <4>1, <4>2, ConcatEmptySeq DEF MajorPart
    <3>2. Append(out, c) = UriPart(req) \o Http
      BY <2>3, <3>0, HttpAppend
    <3>3. req' \in Request /\ req'.major = 0 /\ req'.minor = 0 /\ req'.headers = <<>>
      BY <1>4, <3>0 DEF Request
    <3>4. LineKept(Append(out, c))'
      BY <1>4, <3>0, <3>1, <3>2, <3>3 DEF LineKept, VersionRead
    <3>5. HeadersKept(Append(out, c))' /\ Typed' /\ state' \in InLine
      BY <1>2, <1>4, <3>0, <3>3 DEF HeadersKept, Typed, States, InLine, Reading
    <3> QED BY <3>3, <3>4, <3>5
  <2>6. k < 5 \/ k = 5
    BY <2>1
  <2> QED BY <2>4, <2>5, <2>6
<1>6. CASE state \in {"method_start", "method"} /\ c # "SP"
  <2>1. state' = "method" /\ req' = [req EXCEPT !.method = Append(@, c)]
    BY <1>1, <1>6 DEF LineMoves, Parsed
  <2>2. req.method = out /\ req.uri = <<>>
    BY <1>6 DEF LineKept
  <2>3. req' \in Request /\ req'.method = Append(out, c) /\ req'.uri = <<>>
        /\ req'.headers = <<>> /\ req'.major = req.major /\ req'.minor = req.minor
    <3>1. Append(req.method, c) \in Seq(Char)
      BY <1>4, AppendProperties DEF Request
    <3> QED BY <1>4, <2>1, <2>2, <3>1 DEF Request
  <2>4. LineKept(Append(out, c))'
    BY <2>1, <2>3 DEF LineKept, VersionRead
  <2>5. HeadersKept(Append(out, c))' /\ Typed' /\ state' \in InLine
    BY <1>2, <1>4, <2>1, <2>3 DEF HeadersKept, Typed, States, InLine, Reading
  <2> QED BY <2>3, <2>4, <2>5
<1>7. CASE state = "method" /\ c = "SP"
  <2>1. state' = "uri" /\ req' = req
    BY <1>1, <1>7 DEF LineMoves, Parsed, IsToken, Tspecial
  <2>2. req.method = out /\ req.uri = <<>>
    BY <1>7 DEF LineKept
  <2>3. Append(out, c) = UriPart(req)
    <3>1. out \o <<"SP">> \in Seq(T)
      BY <1>3, <1>7, ConcatProperties
    <3>2. Append(out, "SP") = out \o <<"SP">>
      BY <1>3, <1>7, AppendIsConcat
    <3> QED BY <1>7, <2>2, <3>1, <3>2, ConcatEmptySeq DEF UriPart
  <2>4. LineKept(Append(out, c))'
    BY <2>1, <2>3 DEF LineKept, VersionRead
  <2>5. HeadersKept(Append(out, c))' /\ Typed' /\ state' \in InLine
    BY <1>2, <1>4, <2>1 DEF HeadersKept, Typed, States, InLine, Reading
  <2> QED BY <1>4, <2>1, <2>4, <2>5
<1>8. CASE state = "uri"
  <2>1. out = UriPart(req)
    BY <1>8 DEF LineKept
  <2>2. CASE c = "SP"
    <3>1. state' = "http_version_h" /\ req' = req
      BY <1>1, <1>8, <2>2 DEF LineMoves, Parsed
    <3>2. Append(out, c) = UriPart(req) \o SubSeq(Http, 1, 1)
      BY <1>3, <2>1, <2>2, HttpAppend, AppendIsConcat
    <3>3. LineKept(Append(out, c))'
      BY <3>1, <3>2 DEF LineKept, VersionRead
    <3>4. HeadersKept(Append(out, c))' /\ Typed' /\ state' \in InLine
      BY <1>2, <1>4, <3>1 DEF HeadersKept, Typed, States, InLine, Reading
    <3> QED BY <1>4, <3>1, <3>3, <3>4
  <2>3. CASE c # "SP"
    <3>1. state' = "uri" /\ req' = [req EXCEPT !.uri = Append(@, c)]
      BY <1>1, <1>8, <2>3 DEF LineMoves, Parsed
    <3>2. Append(req.uri, c) \in Seq(Char)
      BY <1>4, AppendProperties DEF Request
    <3>3. /\ req' \in Request /\ req'.headers = <<>> /\ req'.major = req.major
          /\ req'.minor = req.minor /\ req'.method = req.method /\ req'.uri = Append(req.uri, c)
      BY <1>4, <3>1, <3>2 DEF Request
    <3>4. Append(out, c) = UriPart(req')
      <4>1. req.method \o <<"SP">> \in Seq(T)
        <5>1. <<"SP">> \in Seq(T)
          BY DEF T
        <5> QED BY <1>3, <5>1, ConcatProperties
      <4> DEFINE x == req.method \o <<"SP">>
      <4> HIDE DEF x
      <4>2. UriPart(req) = x \o req.uri /\ UriPart(req') = x \o Append(req.uri, c)
        BY <3>3 DEF UriPart, x
      <4>3. x \in Seq(T) /\ req.uri \in Seq(T) /\ c \in T
        BY <1>3, <4>1 DEF x
      <4>4. Append(x \o req.uri, c) = x \o Append(req.uri, c)
        BY <4>3, TextAppend
      <4> QED BY <2>1, <4>2, <4>4
    <3>5. LineKept(Append(out, c))'
      BY <3>1, <3>4 DEF LineKept, VersionRead
    <3>6. HeadersKept(Append(out, c))' /\ Typed' /\ state' \in InLine
      BY <1>2, <1>4, <3>1, <3>3 DEF HeadersKept, Typed, States, InLine, Reading
    <3> QED BY <3>3, <3>5, <3>6
  <2> QED BY <2>2, <2>3
<1>9. CASE state \in {"http_version_major_start", "http_version_major"} /\ c = "1"
  <2>1. state' = "http_version_major" /\ req' = [req EXCEPT !.major = 10 * @ + 1]
    BY <1>1, <1>9 DEF LineMoves, Parsed, DigitValue
  <2>2. out = MajorPart(req) /\ req.minor = 0
    BY <1>9 DEF LineKept
  <2>3. /\ req' \in Request /\ req'.headers = <<>> /\ req'.major = 10 * req.major + 1
        /\ req'.minor = 0 /\ UriPart(req') = UriPart(req)
    <3>1. req.major \in Nat /\ 10 * req.major + 1 \in Nat
      BY <1>4 DEF Request
    <3> QED BY <1>4, <2>1, <2>2, <3>1 DEF Request, UriPart
  <2>4. Decimal[req'.major] = Append(Decimal[req.major], "1") /\ Decimal[req'.major] \in Seq(T)
    <3>1. req.major \in Nat
      BY <1>4 DEF Request
    <3>2. Append(Decimal[req.major], "1") \in Seq(T)
      BY <1>3, <1>4, AppendProperties
    <3> QED BY <2>3, <3>1, <3>2, DecimalAppend
  <2>5. Append(out, c) = MajorPart(req')
    <3> DEFINE x == UriPart(req) \o Http
               d == Decimal[req.major]
    <3>1. x \in Seq(T)
      BY <1>3, HttpAppend, ConcatProperties
    <3>2. MajorPart(req) = x \o d /\ MajorPart(req') = x \o Append(d, "1")
      BY <2>3, <2>4 DEF MajorPart
    <3> HIDE DEF x, d
    <3>3. Append(x \o d, "1") = x \o Append(d, "1")
      <4>1. d \in Seq(T) /\ "1" \in T
        BY <1>3, <1>4 DEF d
      <4> QED BY <3>1, <4>1, TextAppend
    <3> QED BY <1>9, <2>2, <3>2, <3>3
  <2>6. LineKept(Append(out, c))'
    BY <2>1, <2>3, <2>5 DEF LineKept, VersionRead
  <2>7. HeadersKept(Append(out, c))' /\ Typed' /\ state' \in InLine
    BY <1>2, <1>4, <2>1, <2>3, <2>4 DEF HeadersKept, Typed, States, InLine, Reading
  <2> QED BY <2>3, <2>6, <2>7
<1>10. CASE state = "http_version_major" /\ c # "1"
  <2>1. state' = "http_version_minor_start" /\ req' = req /\ c = "."
    BY <1>1, <1>10 DEF LineMoves, Parsed
  <2>2. out = MajorPart(req) /\ req.minor = 0
    BY <1>10 DEF LineKept
  <2>3. Append(out, c) = MajorPart(req) \o <<".">>
    BY <1>3, <2>1, <2>2, AppendIsConcat
  <2>4. LineKept(Append(out, c))'
    BY <2>1, <2>2, <2>3 DEF LineKept, VersionRead
  <2>5. HeadersKept(Append(out, c))' /\ Typed' /\ state' \in InLine
    BY <1>2, <1>4, <2>1 DEF HeadersKept, Typed, States, InLine, Reading
  <2> QED BY <1>4, <2>1, <2>4, <2>5
<1>11. CASE state \in {"http_version_minor_start", "http_version_minor"} /\ c = "1"
  <2> DEFINE x == MajorPart(req) \o <<".">>
             d == Decimal[req.minor]
  <2>1. state' = "http_version_minor" /\ req' = [req EXCEPT !.minor = 10 * @ + 1]
    BY <1>1, <1>11 DEF LineMoves, Parsed, DigitValue
  <2>2. x \in Seq(T) /\ d \in Seq(T) /\ "1" \in T
    <3>1. <<".">> \in Seq(T)
      BY DEF T
    <3> QED BY <1>3, <1>4, <3>1, ConcatProperties
  <2>3. out = x \o d
    <3>1. CASE state = "http_version_minor_start"
      <4>1. out = x /\ d = <<>>
        BY <1>4, <3>1 DEF LineKept
      <4> HIDE DEF x, d
      <4> QED BY <2>2, <4>1, ConcatEmptySeq
    <3>2. CASE state = "http_version_minor"
      BY <3>2 DEF LineKept, MinorPart
    <3> QED BY <1>11, <3>1, <3>2
  <2>4. /\ req' \in Request /\ req'.headers = <<>> /\ req'.major = req.major
        /\ req'.minor = 10 * req.minor + 1 /\ MajorPart(req') = MajorPart(req)
    <3>1. req.minor \in Nat /\ 10 * req.minor + 1 \in Nat
      BY <1>4 DEF Request
    <3> QED BY <1>4, <2>1, <3>1 DEF Request, UriPart, MajorPart
  <2>5. Decimal[req'.minor] = Append(d, "1") /\ Decimal[req'.minor] \in Seq(T)
    <3>1. req.minor \in Nat
      BY <1>4 DEF Request
    <3>2. Append(d, "1") \in Seq(T)
      BY <2>2, AppendProperties
    <3> QED BY <2>4, <3>1, <3>2, DecimalAppend
  <2>6. Append(out, c) = MinorPart(req')
    <3>1. MinorPart(req') = x \o Append(d, "1")
      BY <2>4, <2>5 DEF MinorPart
    <3> HIDE DEF x, d
    <3>2. Append(x \o d, "1") = x \o Append(d, "1")
      BY <2>2, TextAppend
    <3> QED BY <1>11, <2>3, <3>1, <3>2
  <2>7. LineKept(Append(out, c))'
    BY <2>1, <2>6 DEF LineKept, VersionRead
  <2>8. HeadersKept(Append(out, c))' /\ Typed' /\ state' \in InLine
    BY <1>2, <1>4, <2>1, <2>4, <2>5 DEF HeadersKept, Typed, States, InLine, Reading
  <2> QED BY <2>4, <2>7, <2>8
<1>12. CASE state = "http_version_minor" /\ c # "1"
  <2>1. state' = "expecting_newline_1" /\ req' = req /\ c = "CR"
    BY <1>1, <1>12 DEF LineMoves, Parsed
  <2>2. out = MinorPart(req)
    BY <1>12 DEF LineKept
  <2>3. Append(out, c) = MinorPart(req) \o <<"CR">>
    BY <1>3, <2>1, <2>2, AppendIsConcat
  <2>4. LineKept(Append(out, c))'
    BY <2>1, <2>3 DEF LineKept, VersionRead
  <2>5. HeadersKept(Append(out, c))' /\ Typed' /\ state' \in InLine
    BY <1>2, <1>4, <2>1 DEF HeadersKept, Typed, States, InLine, Reading
  <2> QED BY <1>4, <2>1, <2>4, <2>5
<1>13. CASE state = "expecting_newline_1"
  <2>1. state' = "header_line_start" /\ req' = req /\ c = "LF"
    BY <1>1, <1>13 DEF LineMoves, Parsed
  <2>2. out = MinorPart(req) \o <<"CR">>
    BY <1>13 DEF LineKept
  <2>3. Append(out, c) = RenderLine(req) \o <<>>
    <3>1. Append(out, c) = MinorPart(req) \o Append(<<"CR">>, "LF")
      <4> DEFINE a == MinorPart(req)
                 b == <<"CR">>
      <4>1. a \in Seq(T) /\ b \in Seq(T) /\ "LF" \in T
        BY <1>3 DEF T
      <4>2. out = a \o b
        BY <2>2
      <4> HIDE DEF a, b
      <4>3. Append(a \o b, "LF") = a \o Append(b, "LF")
        BY <4>1, TextAppend
      <4> QED BY <2>1, <4>2, <4>3 DEF a, b
    <3>2. Append(<<"CR">>, "LF") = CrLf
      BY Append2 DEF CrLf
    <3>3. RenderLine(req) = MinorPart(req) \o CrLf /\ RenderLine(req) \in Seq(T)
      BY PartTypes
    <3> QED BY <3>1, <3>2, <3>3, ConcatEmptySeq
  <2>4. RenderHeaders(req.headers) = <<>>
    BY <1>4, RenderNone
  <2>5. LineKept(Append(out, c))' /\ HeadersKept(Append(out, c))'
    BY <2>1, <2>3, <2>4 DEF LineKept, VersionRead, HeadersKept, Reading
  <2>6. Typed'
    BY <1>2, <1>4, <2>1 DEF Typed, States
  <2> QED BY <1>4, <2>1, <2>5, <2>6
<1>14. /\ state = "method_start" => c # "SP"
       /\ state \in {"http_version_major_start", "http_version_minor_start"} => c = "1"
  BY <1>1 DEF LineMoves, IsToken, Tspecial
<1> QED
  BY <1>5, <1>6, <1>7, <1>8, <1>9, <1>10, <1>11, <1>12, <1>13, <1>14 DEF InLine, VersionRead

\* A character of a header changes only that header.
LEMMA HeaderStep ==
    ASSUME Typed, state \in Reading, NEW out \in Seq(T), NEW c \in Char, Consume(c),
           state' # "bad", state' # "header_lws",
           NEW hs \in Seq(Header), NEW h \in Header, HeaderKept(out, hs, h)
    PROVE  /\ LineKept(Append(out, c))' /\ HeadersKept(Append(out, c))' /\ Typed'
           /\ state' \in Reading \cup {"header_line_start"}
<1>1. HeaderMoves(c) /\ state' = To(c) /\ req' = Parsed(c) /\ text' = Append(text, c)
  BY Moves DEF Consume
<1>2. text' \in Seq(Char)
  BY <1>1, AppendProperties DEF Typed
<1>3. /\ RenderLine(req) \in Seq(T) /\ h.name \in Seq(T) /\ h.value \in Seq(T)
      /\ NamePart(hs, h) \in Seq(T) /\ ValuePart(hs, h) \in Seq(T) /\ RenderHeaders(hs) \in Seq(T)
      /\ RenderHeaders(Append(hs, h)) = ValuePart(hs, h) \o CrLf
  BY PartTypes, HeaderTypes, RenderAppend
<1>4. c \in T /\ ":" \in T /\ "SP" \in T /\ "CR" \in T /\ "LF" \in T
  BY DEF T
<1>5. /\ <<":">> \in Seq(T) /\ <<"CR">> \in Seq(T) /\ <<":", "SP">> \in Seq(T)
      /\ Append(<<":">>, "SP") = <<":", "SP">> /\ Append(<<"CR">>, "LF") = CrLf
  BY <1>4, Append2 DEF CrLf
<1>6. req \in Request /\ req.headers = Append(hs, h) /\ Append(hs, h) \in Seq(Header)
  BY AppendProperties DEF Typed, HeaderKept
\* When the headers stay as they are, or the last becomes k.
<1>7. ASSUME req' = req, state' \in Reading \cup {"header_line_start"}
      PROVE  LineKept(Append(out, c))' /\ Typed'
  BY <1>2, <1>7 DEF LineKept, Typed, Reading, States, VersionRead
<1>8. ASSUME NEW k \in Header, req' = [req EXCEPT !.headers = Append(hs, k)], state' \in Reading
      PROVE  /\ LineKept(Append(out, c))' /\ Typed' /\ req'.headers = Append(hs, k)
             /\ RenderLine(req') = RenderLine(req)
  <2>1. Append(hs, k) \in Seq(Header)
    BY AppendProperties
  <2>2. /\ req' \in Request /\ req'.headers = Append(hs, k) /\ req'.major = req.major
        /\ req'.minor = req.minor /\ req'.method = req.method /\ req'.uri = req.uri
    BY <1>6, <1>8, <2>1 DEF Request
  <2>3. Typed' /\ LineKept(Append(out, c))'
    BY <1>2, <1>8, <2>2 DEF Typed, LineKept, Reading, States, VersionRead
  <2>4. RenderLine(req') = RenderLine(req)
    BY <2>2 DEF RenderLine
  <2> QED BY <2>2, <2>3, <2>4
<1>9. ASSUME NEW a \in Seq(T), out = RenderLine(req) \o a
      PROVE  Append(out, c) = RenderLine(req) \o Append(a, c)
  <2> DEFINE b == RenderLine(req)
  <2>1. b \in Seq(T) /\ c \in T
    BY <1>3, <1>4
  <2> HIDE DEF b
  <2>2. Append(b \o a, c) = b \o Append(a, c)
    BY <2>1, <1>9, TextAppend
  <2> QED BY <1>9, <2>2 DEF b
<1>10. CASE state = "header_name" /\ c # ":"
  <2> DEFINE k == [h EXCEPT !.name = Append(@, c)]
  <2>1. k \in Header /\ k.name = Append(h.name, c) /\ k.value = h.value
    <3>1. Append(h.name, c) \in Seq(Char)
      BY AppendProperties DEF Header
    <3> QED BY <3>1 DEF Header
  <2>2. state' = "header_name" /\ req' = [req EXCEPT !.headers[LastHeader].name = Append(@, c)]
    BY <1>1, <1>10 DEF HeaderMoves, Parsed
  <2>3. req' = [req EXCEPT !.headers = Append(hs, k)]
    <3>1. [req.headers EXCEPT ![LastHeader].name = Append(@, c)] = Append(hs, k)
      <4>1. /\ req.headers[LastHeader] = h
            /\ [req.headers EXCEPT ![LastHeader] = k] = Append(hs, k)
        <5> HIDE DEF k
        <5>1. /\ Append(hs, h)[Len(Append(hs, h))] = h
              /\ [Append(hs, h) EXCEPT ![Len(Append(hs, h))] = k] = Append(hs, k)
          BY <2>1, ExceptLast
        <5> QED BY <1>6, <5>1 DEF LastHeader
      <4> QED BY <4>1
    <3> QED BY <2>2, <3>1
  <2>4. Append(out, c) = RenderLine(req) \o NamePart(hs, k)
    <3>1. out = RenderLine(req) \o NamePart(hs, h)
      BY <1>10 DEF HeaderKept
    <3>2. Append(NamePart(hs, h), c) = NamePart(hs, k)
      <4> DEFINE a == RenderHeaders(hs)
      <4>1. a \in Seq(T) /\ h.name \in Seq(T) /\ c \in T
        BY <1>3, <1>4
      <4> HIDE DEF a, k
      <4>2. Append(a \o h.name, c) = a \o Append(h.name, c)
        BY <4>1, TextAppend
      <4> QED BY <2>1, <4>2 DEF NamePart, a
    <3> QED BY <1>3, <1>9, <3>1, <3>2
  <2>5. h.value = <<>>
    BY <1>10 DEF HeaderKept
  <2> HIDE DEF k
  <2>6. /\ LineKept(Append(out, c))' /\ Typed' /\ req'.headers = Append(hs, k)
        /\ RenderLine(req') = RenderLine(req)
    BY <1>8, <2>1, <2>2, <2>3 DEF Reading
  <2>7. HeaderKept(Append(out, c), hs, k)'
    BY <2>1, <2>2, <2>4, <2>5, <2>6 DEF HeaderKept
  <2>8. HeadersKept(Append(out, c))'
    BY <2>1, <2>2, <2>7 DEF HeadersKept, Reading
  <2> QED BY <2>2, <2>6, <2>8 DEF Reading
<1>11. CASE state = "header_name" /\ c = ":"
  <2>1. state' = "space_before_header_value" /\ req' = req
    BY <1>1, <1>11 DEF HeaderMoves, Parsed, IsToken, Tspecial
  <2>2. Append(out, c) = RenderLine(req) \o (NamePart(hs, h) \o <<":">>)
    <3>1. out = RenderLine(req) \o NamePart(hs, h)
      BY <1>11 DEF HeaderKept
    <3>2. Append(NamePart(hs, h), c) = NamePart(hs, h) \o <<":">>
      BY <1>3, <1>4, <1>11, AppendIsConcat
    <3> QED BY <1>3, <1>9, <3>1, <3>2
  <2>3. h.value = <<>>
    BY <1>11 DEF HeaderKept
  <2>4. HeaderKept(Append(out, c), hs, h)'
    BY <1>6, <2>1, <2>2, <2>3 DEF HeaderKept
  <2>5. HeadersKept(Append(out, c))'
    BY <2>1, <2>4 DEF HeadersKept, Reading
  <2> QED BY <1>7, <2>1, <2>5 DEF Reading
<1>12. CASE state = "space_before_header_value"
  <2>1. state' = "header_value" /\ req' = req /\ c = "SP"
    BY <1>1, <1>12 DEF HeaderMoves, Parsed, Keeps
  <2>2. out = RenderLine(req) \o (NamePart(hs, h) \o <<":">>) /\ h.value = <<>>
    BY <1>12 DEF HeaderKept
  <2>3. NamePart(hs, h) \o <<":">> \in Seq(T) /\ NamePart(hs, h) \o <<":", "SP">> \in Seq(T)
    BY <1>3, <1>5, ConcatProperties
  <2>4. Append(NamePart(hs, h) \o <<":">>, c) = ValuePart(hs, h)
    <3> DEFINE a == NamePart(hs, h)
               b == <<":">>
    <3>1. a \in Seq(T) /\ b \in Seq(T) /\ c \in T
      BY <1>3, <1>4, <1>5
    <3>2. Append(b, c) = <<":", "SP">> /\ a \o <<":", "SP">> \in Seq(T)
      BY <1>5, <2>1, <2>3
    <3>3. ValuePart(hs, h) = (a \o <<":", "SP">>) \o <<>>
      BY <2>2 DEF ValuePart
    <3> HIDE DEF a, b
    <3>4. Append(a \o b, c) = a \o Append(b, c)
      BY <3>1, TextAppend
    <3> QED BY <3>2, <3>3, <3>4, ConcatEmptySeq DEF a, b
  <2>5. Append(out, c) = RenderLine(req) \o ValuePart(hs, h)
    BY <1>9, <2>2, <2>3, <2>4
  <2>6. HeaderKept(Append(out, c), hs, h)'
    BY <1>6, <2>1, <2>5 DEF HeaderKept
  <2>7. HeadersKept(Append(out, c))'
    BY <2>1, <2>6 DEF HeadersKept, Reading
  <2> QED BY <1>7, <2>1, <2>7 DEF Reading
<1>13. CASE state \in {"header_value", "header_lws"} /\ c # "CR"
  <2> DEFINE k == [h EXCEPT !.value = Append(@, c)]
  <2>1. k \in Header /\ k.value = Append(h.value, c) /\ k.name = h.name
    <3>1. Append(h.value, c) \in Seq(Char)
      BY AppendProperties DEF Header
    <3> QED BY <3>1 DEF Header
  <2>2. state' = "header_value" /\ req' = [req EXCEPT !.headers[LastHeader].value = Append(@, c)]
    BY <1>1, <1>13 DEF HeaderMoves, Parsed, Keeps
  <2>3. req' = [req EXCEPT !.headers = Append(hs, k)]
    <3>1. [req.headers EXCEPT ![LastHeader].value = Append(@, c)] = Append(hs, k)
      <4>1. /\ req.headers[LastHeader] = h
            /\ [req.headers EXCEPT ![LastHeader] = k] = Append(hs, k)
        <5> HIDE DEF k
        <5>1. /\ Append(hs, h)[Len(Append(hs, h))] = h
              /\ [Append(hs, h) EXCEPT ![Len(Append(hs, h))] = k] = Append(hs, k)
          BY <2>1, ExceptLast
        <5> QED BY <1>6, <5>1 DEF LastHeader
      <4> QED BY <4>1
    <3> QED BY <2>2, <3>1
  <2>4. Append(out, c) = RenderLine(req) \o ValuePart(hs, k)
    <3>1. out = RenderLine(req) \o ValuePart(hs, h)
      BY <1>13 DEF HeaderKept
    <3>2. Append(ValuePart(hs, h), c) = ValuePart(hs, k)
      <4> DEFINE a == NamePart(hs, h) \o <<":", "SP">>
      <4>1. a \in Seq(T) /\ h.value \in Seq(T) /\ c \in T
        BY <1>3, <1>4, <1>5, ConcatProperties
      <4>2. ValuePart(hs, h) = a \o h.value /\ ValuePart(hs, k) = a \o Append(h.value, c)
        BY <2>1 DEF ValuePart, NamePart
      <4> HIDE DEF a, k
      <4>3. Append(a \o h.value, c) = a \o Append(h.value, c)
        BY <4>1, TextAppend
      <4> QED BY <4>2, <4>3
    <3> QED BY <1>3, <1>9, <3>1, <3>2
  <2> HIDE DEF k
  <2>5. /\ LineKept(Append(out, c))' /\ Typed' /\ req'.headers = Append(hs, k)
        /\ RenderLine(req') = RenderLine(req)
    BY <1>8, <2>1, <2>2, <2>3 DEF Reading
  <2>6. HeaderKept(Append(out, c), hs, k)'
    BY <2>1, <2>2, <2>4, <2>5 DEF HeaderKept
  <2>7. HeadersKept(Append(out, c))'
    BY <2>1, <2>2, <2>6 DEF HeadersKept, Reading
  <2> QED BY <2>2, <2>5, <2>7 DEF Reading
<1>14. CASE state \in {"header_value", "header_lws"} /\ c = "CR"
  <2>1. state' = "expecting_newline_2" /\ req' = req
    BY <1>1, <1>14 DEF HeaderMoves, Parsed
  <2>2. Append(out, c) = RenderLine(req) \o (ValuePart(hs, h) \o <<"CR">>)
    <3>1. out = RenderLine(req) \o ValuePart(hs, h)
      BY <1>14 DEF HeaderKept
    <3>2. Append(ValuePart(hs, h), c) = ValuePart(hs, h) \o <<"CR">>
      BY <1>3, <1>4, <1>14, AppendIsConcat
    <3> QED BY <1>3, <1>9, <3>1, <3>2
  <2>3. HeaderKept(Append(out, c), hs, h)'
    BY <1>6, <2>1, <2>2 DEF HeaderKept
  <2>4. HeadersKept(Append(out, c))'
    BY <2>1, <2>3 DEF HeadersKept, Reading
  <2> QED BY <1>7, <2>1, <2>4 DEF Reading
<1>15. CASE state = "expecting_newline_2"
  <2>1. state' = "header_line_start" /\ req' = req /\ c = "LF"
    BY <1>1, <1>15 DEF HeaderMoves, Parsed
  <2>2. out = RenderLine(req) \o (ValuePart(hs, h) \o <<"CR">>)
    BY <1>15 DEF HeaderKept
  <2>3. Append(ValuePart(hs, h) \o <<"CR">>, c) = RenderHeaders(req.headers)
    <3> DEFINE a == ValuePart(hs, h)
               b == <<"CR">>
    <3>1. a \in Seq(T) /\ b \in Seq(T) /\ c \in T
      BY <1>3, <1>4, <1>5
    <3>2. Append(b, c) = CrLf /\ RenderHeaders(req.headers) = a \o CrLf
      BY <1>3, <1>5, <1>6, <2>1
    <3> HIDE DEF a, b
    <3>3. Append(a \o b, c) = a \o Append(b, c)
      BY <3>1, TextAppend
    <3> QED BY <3>2, <3>3 DEF a, b
  <2>4. Append(out, c) = RenderLine(req) \o RenderHeaders(req.headers)
    <3>1. ValuePart(hs, h) \o <<"CR">> \in Seq(T)
      BY <1>3, <1>5, ConcatProperties
    <3> QED BY <1>9, <2>2, <2>3, <3>1
  <2>5. HeadersKept(Append(out, c))'
    BY <2>1, <2>4 DEF HeadersKept, Reading
  <2> QED BY <1>7, <2>1, <2>5
<1> QED BY <1>10, <1>11, <1>12, <1>13, <1>14, <1>15 DEF Reading

\* At the beginning of a line: a header begins, or the empty line.
LEMMA BetweenStep ==
    ASSUME Typed, state \in {"header_line_start", "expecting_newline_3"},
           NEW out \in Seq(T), HeadersKept(out), NEW c \in Char, Consume(c),
           state' # "bad", state' # "header_lws"
    PROVE  /\ LineKept(Append(out, c))' /\ HeadersKept(Append(out, c))' /\ Typed'
           /\ state' \in {"header_name", "expecting_newline_3", "done"}
<1> DEFINE a == RenderHeaders(req.headers)
           b == RenderLine(req)
<1>1. HeaderMoves(c) /\ state' = To(c) /\ req' = Parsed(c) /\ text' = Append(text, c)
  BY Moves DEF Consume
<1>2. text' \in Seq(Char)
  BY <1>1, AppendProperties DEF Typed
<1>3. req \in Request /\ req.headers \in Seq(Header)
  BY DEF Typed, Request
<1>4. a \in Seq(T) /\ b \in Seq(T) /\ b \o a \in Seq(T) /\ c \in T
  <2>1. [name |-> <<>>, value |-> <<>>] \in Header
    BY EmptySeq DEF Header
  <2>2. a \in Seq(T)
    BY <1>3, <2>1, RenderAppend
  <2>3. c \in T
    BY DEF T
  <2> QED BY <2>2, <2>3, PartTypes, ConcatProperties
<1>5. ASSUME req' = req, state' \in {"expecting_newline_3", "done"}
      PROVE  LineKept(Append(out, c))' /\ Typed'
  BY <1>2, <1>5 DEF LineKept, Typed, States, VersionRead, Reading, InLine
<1>6. CASE state = "header_line_start" /\ c = "CR"
  <2>1. state' = "expecting_newline_3" /\ req' = req
    BY <1>1, <1>6 DEF HeaderMoves, Parsed
  <2>2. out = b \o a
    BY <1>6 DEF HeadersKept
  <2>3. Append(out, c) = b \o a \o <<"CR">>
    BY <1>4, <1>6, <2>2, AppendIsConcat
  <2>4. HeadersKept(Append(out, c))'
    BY <2>1, <2>3 DEF HeadersKept, Reading
  <2> QED BY <1>5, <2>1, <2>4
<1>7. CASE state = "header_line_start" /\ c # "CR"
  <2> DEFINE k == [name |-> <<c>>, value |-> <<>>]
  <2>1. /\ state' = "header_name"
        /\ req' = [req EXCEPT !.headers = Append(@, k)]
    BY <1>1, <1>7 DEF HeaderMoves, Parsed
  <2>2. k \in Header /\ k.value = <<>> /\ k.name = <<c>>
    BY EmptySeq DEF Header
  <2> HIDE DEF k
  <2>3. /\ req' \in Request /\ req'.headers = Append(req.headers, k) /\ req'.major = req.major
        /\ req'.minor = req.minor /\ req'.method = req.method /\ req'.uri = req.uri
    <3>1. Append(req.headers, k) \in Seq(Header)
      BY <1>3, <2>2, AppendProperties
    <3> QED BY <1>3, <2>1, <3>1 DEF Request
  <2>4. LineKept(Append(out, c))' /\ Typed' /\ RenderLine(req') = b
    <3>1. LineKept(Append(out, c))'
      BY <2>1 DEF LineKept, VersionRead
    <3>2. Typed'
      BY <1>2, <2>1, <2>3 DEF Typed, States, Reading
    <3>3. RenderLine(req') = b
      BY <2>3 DEF RenderLine
    <3> QED BY <3>1, <3>2, <3>3
  <2>5. Append(out, c) = b \o NamePart(req.headers, k)
    <3>1. out = b \o a
      BY <1>7 DEF HeadersKept
    <3>2. NamePart(req.headers, k) = a \o <<c>>
      BY <2>2 DEF NamePart
    <3> HIDE DEF a, b
    <3>3. Append(b \o a, c) = b \o Append(a, c)
      BY <1>4, TextAppend
    <3>4. Append(a, c) = a \o <<c>>
      BY <1>4, AppendIsConcat
    <3> QED BY <3>1, <3>2, <3>3, <3>4
  <2>6. PICK hs \in Seq(Header) : hs = req.headers
    BY <1>3
  <2>7. HeaderKept(Append(out, c), hs, k)'
    BY <2>1, <2>2, <2>3, <2>4, <2>5, <2>6 DEF HeaderKept
  <2>8. HeadersKept(Append(out, c))'
    BY <2>1, <2>2, <2>7 DEF HeadersKept, Reading
  <2> QED BY <2>1, <2>4, <2>8
<1>8. CASE state = "expecting_newline_3"
  <2>1. state' = "done" /\ req' = req /\ c = "LF"
    BY <1>1, <1>8 DEF HeaderMoves, Parsed
  <2>2. out = b \o a \o <<"CR">>
    BY <1>8 DEF HeadersKept
  <2>3. Append(out, c) = Render(req)
    <3> DEFINE x == b \o a
               y == <<"CR">>
    <3>1. x \in Seq(T) /\ y \in Seq(T)
      BY <1>4 DEF T
    <3>2. Append(y, "LF") = CrLf
      BY Append2 DEF CrLf
    <3>3. Render(req) = x \o CrLf /\ out = x \o y
      BY <2>2 DEF Render
    <3> HIDE DEF x, y
    <3>4. Append(x \o y, c) = x \o Append(y, c)
      BY <1>4, <3>1, TextAppend
    <3> QED BY <2>1, <3>2, <3>3, <3>4
  <2>4. HeadersKept(Append(out, c))'
    BY <2>1, <2>3 DEF HeadersKept, Reading
  <2> QED BY <1>5, <2>1, <2>4
<1> QED BY <1>6, <1>7, <1>8

\* White space at the beginning of a line takes the line break back; so does what
\* follows it.
LEMMA FoldStep ==
    ASSUME Typed, state \notin InLine, NEW acc \in [skip : BOOLEAN, out : Seq(T)],
           acc.skip <=> state = "header_lws", HeadersKept(acc.out),
           NEW c \in Char, Consume(c), state' = "header_lws"
    PROVE  /\ UnfoldStep(acc, c).skip
           /\ LineKept(UnfoldStep(acc, c).out)' /\ HeadersKept(UnfoldStep(acc, c).out)' /\ Typed'
<1> DEFINE out == UnfoldStep(acc, c).out
<1>1. HeaderMoves(c) /\ state' = To(c) /\ req' = Parsed(c) /\ text' = Append(text, c)
  BY Moves DEF Consume
<1>2. text' \in Seq(Char)
  BY <1>1, AppendProperties DEF Typed
<1>3. state \in {"header_line_start", "header_lws"} /\ c \in Lws
  <2>1. state \in Reading \cup {"header_line_start", "expecting_newline_3"}
    BY DEF Consume, Typed, States
  <2> QED BY <1>1, <2>1 DEF HeaderMoves, Reading
<1>4. req' = req
  BY <1>1, <1>3 DEF Parsed
<1>5. LineKept(out)' /\ Typed'
  BY <1>2, <1>4 DEF LineKept, Typed, States, VersionRead, Reading
<1>6. /\ UnfoldStep(acc, c).skip
      /\ \E hs \in Seq(Header), h \in Header :
             req.headers = Append(hs, h) /\ out = RenderLine(req) \o ValuePart(hs, h)
  <2>1. CASE state = "header_lws"
    <3>1. out = acc.out /\ UnfoldStep(acc, c).skip
      BY <1>3, <2>1 DEF UnfoldStep
    <3> QED BY <2>1, <3>1 DEF HeadersKept, HeaderKept, Reading
  <2>2. CASE state = "header_line_start"
    <3>1. req.headers \in Seq(Header) /\ req.headers # <<>>
      BY <1>1, <2>2 DEF HeaderMoves, Typed, Request, Lws, IsToken, Tspecial
    <3>2. PICK hs \in Seq(Header), h \in Header : req.headers = Append(hs, h)
      BY <3>1, SequenceEmptyOrAppend
    <3> DEFINE a == ValuePart(hs, h)
               b == RenderLine(req)
    <3>3. acc.out = b \o RenderHeaders(req.headers) /\ ~acc.skip
      BY <2>2 DEF HeadersKept
    <3>4. a \in Seq(T) /\ b \in Seq(T) /\ RenderHeaders(req.headers) = a \o CrLf
      BY <3>2, PartTypes, HeaderTypes
    <3>5. CrLf \in Seq(T) /\ "CR" \in T /\ "LF" \in T
      BY DEF T, CrLf
    <3> HIDE DEF a, b
    <3>6. b \o a \in Seq(T) /\ acc.out = (b \o a) \o CrLf
      <4>1. b \o a \in Seq(T)
        BY <3>4, ConcatProperties
      <4>2. b \o (a \o CrLf) = (b \o a) \o CrLf
        BY <3>4, <3>5, TextAssociative
      <4> QED BY <3>3, <3>4, <4>1, <4>2
    <3>7. IsSuffix(CrLf, acc.out) /\ SubSeq(acc.out, 1, Len(acc.out) - 2) = b \o a
      BY <3>5, <3>6, Suffix
    <3>8. out = b \o a /\ UnfoldStep(acc, c).skip
      BY <1>3, <3>3, <3>7 DEF UnfoldStep
    <3> QED BY <3>2, <3>8 DEF a, b
  <2> QED BY <1>3, <2>1, <2>2
<1>7. PICK hs \in Seq(Header), h \in Header :
          req.headers = Append(hs, h) /\ out = RenderLine(req) \o ValuePart(hs, h)
  BY <1>6
<1>8. HeadersKept(out)'
  <2> HIDE DEF out
  <2>1. HeaderKept(out, hs, h)'
    BY <1>1, <1>4, <1>7 DEF HeaderKept
  <2> QED BY <2>1 DEF HeadersKept
<1> QED BY <1>5, <1>6, <1>8
\* Any other character is kept by Unfold, and ends a line only if it is LF.
LEMMA PlainStep ==
    ASSUME Typed, NEW acc \in [skip : BOOLEAN, out : Seq(T)], acc.skip <=> state = "header_lws",
           LfEnds(acc.out), NEW c \in Char, Consume(c), state' # "bad", state' # "header_lws"
    PROVE  /\ UnfoldStep(acc, c) = [skip |-> FALSE, out |-> Append(acc.out, c)]
           /\ LfEnds(Append(acc.out, c))'
<1>1. LineMoves(c) /\ HeaderMoves(c) /\ state' = To(c)
  BY Moves DEF Consume
<1>2. state \in InLine \cup Reading \cup {"header_line_start", "expecting_newline_3"}
  BY DEF Consume, Typed, States
<1>3. c \in T /\ "CR" \in T /\ "LF" \in T
  BY DEF T
<1>4. UnfoldStep(acc, c) = [skip |-> FALSE, out |-> Append(acc.out, c)]
  <2>1. CASE c \notin Lws
    BY <2>1 DEF UnfoldStep
  <2>2. CASE c \in Lws
    <3>1. state \notin {"method_start", "header_line_start", "header_lws", "done"}
      BY <1>1, <1>2, <2>2 DEF LineMoves, HeaderMoves, Lws, IsToken, Tspecial, InLine, Reading
    <3>2. ~IsSuffix(CrLf, acc.out)
      BY <1>3, <3>1, Suffix DEF LfEnds
    <3> QED BY <3>1, <3>2 DEF UnfoldStep
  <2> QED BY <2>1, <2>2
<1>5. LfEnds(Append(acc.out, c))'
  <2> DEFINE b == Append(acc.out, c)
  <2>1. /\ b \in Seq(T) /\ Len(b) = Len(acc.out) + 1 /\ b[Len(acc.out) + 1] = c
        /\ Len(acc.out) \in Nat
    BY <1>3, AppendProperties, LenProperties
  <2> HIDE DEF b
  <2>2. b # <<>> /\ b[Len(b)] = c
    <3>1. b[Len(b)] = c
      BY <2>1
    <3>2. Len(b) # 0
      BY <2>1
    <3>3. Len(<<>>) = 0
      BY EmptySeq, Zenon
    <3> QED BY <3>1, <3>2, <3>3
  <2>3. c = "LF" => state' \in {"header_line_start", "done"}
    BY <1>1, <1>2 DEF LineMoves, HeaderMoves, Lws, IsToken, Ctl, InLine, Reading
  <2> QED BY <2>2, <2>3 DEF LfEnds
<1> QED BY <1>4, <1>5

\* What the parser has kept and what Unfold makes of the text change together.
LEMMA ConsumeKept ==
    ASSUME Typed, Kept, NEW c \in Char, Consume(c)
    PROVE  Typed' /\ Kept'
<1>1. PICK acc \in [skip : BOOLEAN, out : Seq(T)] :
           acc = Unfolded(text) /\ Unfolded(text') = UnfoldStep(acc, c)
  <2>1. text \in Seq(T) /\ c \in T
    <3>1. Char \subseteq T
      BY DEF T
    <3> QED BY <3>1, SeqMonotonic DEF Typed
  <2> QED BY <2>1, UnfoldAppend DEF Consume
<1>2. state \notin {"bad", "done"} /\ c \in T
  BY DEF Consume, T
<1>3. /\ acc.skip <=> state = "header_lws"
      /\ LineKept(acc.out) /\ HeadersKept(acc.out) /\ LfEnds(acc.out)
      /\ state \in InLine => req.headers = <<>>
  BY <1>1, <1>2 DEF Kept
<1>4. text' \in Seq(Char) /\ state' = To(c) /\ LineMoves(c) /\ HeaderMoves(c) /\ req' = Parsed(c)
  <2>1. text' \in Seq(Char)
    BY AppendProperties DEF Consume, Typed
  <2> QED BY <2>1, Moves DEF Consume
<1> DEFINE nxt == UnfoldStep(acc, c)
<1> HIDE DEF nxt
<1>5. CASE state' = "bad"
  <2>1. req' = req
    BY <1>4, <1>5 DEF Parsed
  <2> QED BY <1>4, <1>5, <2>1 DEF Typed, Kept, States
<1>6. CASE state' = "header_lws"
  <2>1. state \notin InLine
    BY <1>4, <1>6 DEF LineMoves, InLine
  <2>2. nxt.skip /\ LineKept(nxt.out)' /\ HeadersKept(nxt.out)' /\ Typed'
    BY <1>1, <1>3, <1>6, <2>1, FoldStep DEF nxt
  <2>3. LfEnds(nxt.out)' /\ state' \notin InLine
    BY <1>6 DEF LfEnds, InLine
  <2>4. Unfolded(text') = nxt
    BY <1>1 DEF nxt
  <2> QED BY <1>6, <2>2, <2>3, <2>4 DEF Kept
<1>7. CASE state' \notin {"bad", "header_lws"}
  <2>1. nxt = [skip |-> FALSE, out |-> Append(acc.out, c)] /\ LfEnds(Append(acc.out, c))'
    BY <1>1, <1>3, <1>7, PlainStep DEF nxt
  <2>2. /\ LineKept(Append(acc.out, c))' /\ HeadersKept(Append(acc.out, c))' /\ Typed'
        /\ state' \in InLine => req'.headers = <<>>
    <3>1. PICK out \in Seq(T) : out = acc.out /\ LineKept(out) /\ HeadersKept(out)
      BY <1>3
    <3>2. CASE state \in InLine
      BY <1>3, <1>7, <3>1, <3>2, LineStep
    <3>3. CASE state \in Reading
      <4>1. PICK hs \in Seq(Header), h \in Header : HeaderKept(out, hs, h)
        BY <3>1, <3>3 DEF HeadersKept
      <4>2. /\ LineKept(Append(out, c))' /\ HeadersKept(Append(out, c))' /\ Typed'
            /\ state' \in Reading \cup {"header_line_start"}
        BY <1>7, <3>1, <3>3, <4>1, HeaderStep
      <4> QED BY <3>1, <4>2 DEF InLine, Reading
    <3>4. CASE state \in {"header_line_start", "expecting_newline_3"}
      <4>1. /\ LineKept(Append(out, c))' /\ HeadersKept(Append(out, c))' /\ Typed'
            /\ state' \in {"header_name", "expecting_newline_3", "done"}
        BY <1>7, <3>1, <3>4, BetweenStep
      <4> QED BY <3>1, <4>1 DEF InLine
    <3> QED BY <1>2, <3>2, <3>3, <3>4 DEF Typed, States
  <2>3. Unfolded(text') = nxt
    BY <1>1 DEF nxt
  <2> QED BY <1>7, <2>1, <2>2, <2>3 DEF Kept
<1> QED BY <1>5, <1>6, <1>7

\* The request the parser has read so far is well formed, and the text without
\* its folds is what was put in its parts.
THEOREM KeptAlways == Spec => [](Typed /\ Kept)
<1>1. Init => Typed /\ Kept
  <2> SUFFICES ASSUME Init PROVE Typed /\ Kept
      OBVIOUS
  <2>1. <<>> \in Seq(Char) /\ <<>> \in Seq(Header) /\ <<>> \in Seq(T)
    BY EmptySeq
  <2>2. Typed
    BY <2>1, DecimalAppend DEF Init, Typed, Request, States, InLine
  <2>3. Unfolded(<<>>) = [skip |-> FALSE, out |-> <<>>]
    <3>1. "CR" \in T
      BY DEF T
    <3> QED BY <2>1, <3>1, UnfoldAppend
  <2>4. Kept
    BY <2>3 DEF Init, Kept, LineKept, HeadersKept, LfEnds, Reading, VersionRead
  <2> QED BY <2>2, <2>4
<1>2. Typed /\ Kept /\ [Next]_vars => (Typed /\ Kept)'
  <2>1. ASSUME Typed, Kept, NEW c \in Char, Consume(c) PROVE (Typed /\ Kept)'
    BY <2>1, ConsumeKept
  <2>2. ASSUME Typed, Kept, UNCHANGED vars PROVE (Typed /\ Kept)'
    <3>1. state' = state /\ req' = req /\ text' = text
      BY <2>2 DEF vars
    <3>2. Typed'
      BY <2>2, <3>1 DEF Typed
    <3>3. Kept'
      BY <2>2, <3>1 DEF Kept, LineKept, HeadersKept, HeaderKept, LfEnds
    <3> QED BY <3>2, <3>3
  <2> QED BY <2>1, <2>2 DEF Next
<1> QED BY <1>1, <1>2, PTL DEF Spec

\* Whatever is sent, in requests of any length: what an accepted request holds,
\* written out again, is the text without its folds.
THEOREM NothingLostAlways == Spec => []NothingLost
<1>1. Typed /\ Kept => NothingLost
  BY DEF Kept, HeadersKept, NothingLost, Unfold
<1> QED BY <1>1, KeptAlways, PTL
-----------------------------------------------------------------------------
\* Where a character leads from each state.  The first line after the request
\* line is told apart from the others: there is no header yet that goes on in it.
Table(c) ==
    [method_start |-> IF IsToken(c) THEN "method" ELSE "bad",
     method |-> IF IsToken(c) THEN "method" ELSE IF c = "SP" THEN "uri" ELSE "bad",
     uri |-> IF c = "SP" THEN "http_version_h" ELSE IF c \notin Ctl THEN "uri" ELSE "bad",
     http_version_h |-> IF c = "H" THEN "http_version_t_1" ELSE "bad",
     http_version_t_1 |-> IF c = "T" THEN "http_version_t_2" ELSE "bad",
     http_version_t_2 |-> IF c = "T" THEN "http_version_p" ELSE "bad",
     http_version_p |-> IF c = "P" THEN "http_version_slash" ELSE "bad",
     http_version_slash |-> IF c = "/" THEN "http_version_major_start" ELSE "bad",
     http_version_major_start |-> IF c = "1" THEN "http_version_major" ELSE "bad",
     http_version_major |-> IF c = "1" THEN "http_version_major"
                            ELSE IF c = "." THEN "http_version_minor_start" ELSE "bad",
     http_version_minor_start |-> IF c = "1" THEN "http_version_minor" ELSE "bad",
     http_version_minor |-> IF c = "1" THEN "http_version_minor"
                            ELSE IF c = "CR" THEN "expecting_newline_1" ELSE "bad",
     expecting_newline_1 |-> IF c = "LF" THEN "first_line_start" ELSE "bad",
     first_line_start |-> IF c = "CR" THEN "expecting_newline_3"
                          ELSE IF IsToken(c) THEN "header_name" ELSE "bad",
     header_line_start |-> IF c = "CR" THEN "expecting_newline_3"
                           ELSE IF c \in Lws THEN "header_lws"
                           ELSE IF IsToken(c) THEN "header_name" ELSE "bad",
     header_name |-> IF IsToken(c) THEN "header_name"
                     ELSE IF c = ":" THEN "space_before_header_value" ELSE "bad",
     space_before_header_value |-> IF c = "SP" THEN "header_value" ELSE "bad",
     header_value |-> IF c = "CR" THEN "expecting_newline_2"
                      ELSE IF c \notin Ctl THEN "header_value" ELSE "bad",
     header_lws |-> IF c = "CR" THEN "expecting_newline_2"
                    ELSE IF c \in Lws THEN "header_lws"
                    ELSE IF c \notin Ctl THEN "header_value" ELSE "bad",
     expecting_newline_2 |-> IF c = "LF" THEN "header_line_start" ELSE "bad",
     expecting_newline_3 |-> IF c = "LF" THEN "done" ELSE "bad",
     done |-> "bad", bad |-> "bad"]

Goto(q, c) == Table(c)[q]
LineStart == {"first_line_start", "header_line_start"}
Places == States \cup LineStart

\* r are the states of the parser that reads t, by the number of characters read.
Run(t, r) ==
    /\ r \in [0..Len(t) -> Places] /\ r[0] = "method_start"
    /\ \A k \in 1..Len(t) : r[k] = Goto(r[k - 1], t[k])

\* A character leads to a state.
LEMMA GotoPlace == \A q \in Places : \A c : Goto(q, c) \in Places
<1>1. ASSUME NEW c PROVE \A q \in Places : Goto(q, c) \in Places
  <2> DEFINE f == Table(c)
  <2>1. f \in [Places -> Places]
    BY DEF Table, Places, States, InLine, Reading, LineStart
  <2> HIDE DEF f
  <2>2. \A q \in Places : f[q] \in Places
    BY <2>1
  <2> QED BY <2>2 DEF f, Goto
<1> QED BY <1>1

\* Every text can be read.
LEMMA RunExists ==
    ASSUME NEW C, NEW t \in Seq(C)
    PROVE  \E r : Run(t, r)
<1> DEFINE n == Len(t)
           g == [m \in Nat |-> [q \in Places |-> Goto(q, t[m])]]
           p == [m \in Nat |-> IF m = 0 THEN 0 ELSE m - 1]
<1>1. n \in Nat
  BY LenProperties
<1>2. g \in [Nat -> [Places -> Places]]
  BY GotoPlace
<1>3. Descends(p)
  <2>1. p \in [Nat -> Nat] /\ \A m \in Nat : m > 0 => p[m] < m
    OBVIOUS
  <2> QED BY <2>1 DEF Descends
<1>4. "method_start" \in Places
  BY DEF Places, States, InLine
<1>5. PICK f \in [Nat -> Places] : Recurs(f, Nat, "method_start", g, p)
  <2> HIDE DEF g, p
  <2> QED BY <1>2, <1>3, <1>4, RecursionExists
<1> DEFINE r == [m \in 0..n |-> f[m]]
<1>6. f[0] = "method_start" /\ \A k \in Nat : k > 0 => f[k] = Goto(f[k - 1], t[k])
  <2>1. f[0] = "method_start"
    BY <1>5 DEF Recurs
  <2>2. ASSUME NEW k \in Nat, k > 0 PROVE f[k] = Goto(f[k - 1], t[k])
    <3>1. k # 0 /\ p[k] = k - 1 /\ k - 1 \in Nat
      BY <2>2
    <3>2. f[k] = g[k][f[p[k]]]
      BY <1>5, <3>1 DEF Recurs
    <3>3. f[k - 1] \in Places
      BY <3>1
    <3> QED BY <3>1, <3>2, <3>3
  <2> QED BY <2>1, <2>2
<1> HIDE DEF n
<1>7. r \in [0..n -> Places] /\ r[0] = "method_start"
  BY <1>1, <1>6
<1>8. ASSUME NEW k \in 1..n PROVE r[k] = Goto(r[k - 1], t[k])
  <2>1. k \in 0..n /\ k - 1 \in 0..n /\ k \in Nat /\ k > 0
    BY <1>1
  <2> QED BY <1>6, <2>1
<1> HIDE DEF r
<1>9. Run(t, r)
  BY <1>7, <1>8 DEF Run, n
<1> QED BY <1>9

\* What is read of the beginning of a text.
LEMMA RunCut ==
    ASSUME NEW u, NEW r, Run(u, r), NEW t, Len(t) \in Nat, Len(u) \in Nat, Len(t) <= Len(u),
           \A k \in 1..Len(t) : u[k] = t[k]
    PROVE  Run(t, [k \in 0..Len(t) |-> r[k]])
<1> DEFINE x == [k \in 0..Len(t) |-> r[k]]
<1>1. \A k \in 0..Len(t) : k \in 0..Len(u) /\ (k # 0 => k \in 1..Len(u))
  OBVIOUS
<1>2. x \in [0..Len(t) -> Places] /\ x[0] = "method_start"
  BY <1>1 DEF Run
<1>3. ASSUME NEW k \in 1..Len(t) PROVE x[k] = Goto(x[k - 1], t[k])
  <2>1. k \in 0..Len(t) /\ k - 1 \in 0..Len(t) /\ k \in 1..Len(u)
    BY <1>1
  <2>2. r[k] = Goto(r[k - 1], u[k])
    BY <2>1 DEF Run
  <2> QED BY <2>1, <2>2
<1> HIDE DEF x
<1>4. Run(t, x)
  BY <1>2, <1>3 DEF Run
<1> QED BY <1>4 DEF x

\* How a state is reached.
Newline == {"expecting_newline_1", "expecting_newline_2", "expecting_newline_3"}
AfterLf == LineStart \cup {"done"}
Reached(q, c) ==
    LET n == Goto(q, c) IN
    /\ n \in AfterLf => q \in Newline
    /\ n = "first_line_start" <=> q = "expecting_newline_1" /\ c = "LF"
    /\ n = "header_line_start" <=> q = "expecting_newline_2" /\ c = "LF"
    /\ n = "done" <=> q = "expecting_newline_3" /\ c = "LF"
    /\ n = "expecting_newline_3" <=> q \in LineStart /\ c = "CR"
    /\ n \in InLine => q \in InLine
    /\ q \in InLine => n \in InLine \cup {"first_line_start", "bad"}
    /\ n = "header_lws" => c \in Lws /\ q \in {"header_line_start", "header_lws"}
    /\ q \in {"bad", "done"} => n = "bad"
    /\ n # "bad" => /\ c = "LF" <=> q \in Newline
                    /\ c = "LF" <=> n \in AfterLf
                    /\ c = "CR" <=> n \in Newline
                    /\ c = "TAB" => n = "header_lws"

\* Each row of the table, read backwards.
LEMMA GotoReached == \A q \in Places : \A c : Reached(q, c)
<1> SUFFICES ASSUME NEW q \in Places, NEW c PROVE Reached(q, c)
    OBVIOUS
<1>1. /\ IsToken(c) => c \notin {"CR", "LF", "SP", "TAB", ":"}
      /\ c \in Ctl <=> c \in {"CR", "LF", "TAB"}
      /\ c \in Lws <=> c \in {"SP", "TAB"}
  BY DEF IsToken, Ctl, Tspecial, Lws
<1>2. CASE q \in InLine
  BY <1>1, <1>2 DEF Reached, Goto, Table, InLine, Newline, AfterLf, LineStart
<1>3. CASE q \in Reading \cup LineStart \cup {"expecting_newline_3", "done", "bad"}
  BY <1>1, <1>3 DEF Reached, Goto, Table, InLine, Reading, Newline, AfterLf, LineStart
<1> QED BY <1>2, <1>3 DEF Places, States, LineStart
-----------------------------------------------------------------------------
\* r goes on from place k.
LEMMA NextPlace ==
    ASSUME NEW C, NEW t \in Seq(C), NEW r, Run(t, r), NEW k \in Nat, k < Len(t)
    PROVE  r[k + 1] = Goto(r[k], t[k + 1]) /\ r[k] \in Places
<1>1. Len(t) \in Nat
  BY LenProperties
<1>2. k + 1 \in 1..Len(t) /\ (k + 1) - 1 = k /\ k \in 0..Len(t)
  BY <1>1
<1> QED BY <1>2 DEF Run

\* A state that its characters do not leave.
Constant(r, q, a, b) == \A k \in a..b : r[k] = q

\* A state that no character leaves lasts.
LEMMA Stays ==
    ASSUME NEW C, NEW t \in Seq(C), NEW r, Run(t, r),
           NEW a \in Nat, NEW b \in Nat, a <= b, b <= Len(t),
           NEW q, r[a] = q, \A k \in (a + 1)..b : Goto(q, t[k]) = q
    PROVE  Constant(r, q, a, b)
<1> DEFINE P == {m \in Nat : a + m <= b => r[a + m] = q}
<1>1. 0 \in P
  <2>1. a + 0 = a
    OBVIOUS
  <2> QED BY <2>1
<1>2. ASSUME NEW m \in Nat, m \in P PROVE m + 1 \in P
  <2> SUFFICES ASSUME a + (m + 1) <= b PROVE r[a + (m + 1)] = q
      OBVIOUS
  <2>1. Len(t) \in Nat
    BY LenProperties
  <2>2. a + m \in Nat /\ a + m < Len(t) /\ a + m <= b /\ a + m + 1 = a + (m + 1) /\ a + m + 1 \in (a + 1)..b
    BY <2>1
  <2>3. r[a + m] = q
    BY <1>2, <2>2
  <2>4. r[a + m + 1] = Goto(r[a + m], t[a + m + 1])
    BY <2>2, NextPlace
  <2> QED BY <2>2, <2>3, <2>4
<1> HIDE DEF P
<1>3. Nat \subseteq P
  BY <1>1, <1>2, NatSetInduction
<1>4. ASSUME NEW k \in a..b PROVE r[k] = q
  <2>1. k - a \in Nat /\ a + (k - a) = k /\ a + (k - a) <= b
    OBVIOUS
  <2> QED BY <1>3, <2>1 DEF P
<1> QED BY <1>4 DEF Constant

\* Where a character leads, state by state.
FromLine(c) ==
    /\ Goto("method_start", c) = IF IsToken(c) THEN "method" ELSE "bad"
    /\ Goto("method", c) = IF IsToken(c) THEN "method" ELSE IF c = "SP" THEN "uri" ELSE "bad"
    /\ Goto("uri", c) = IF c = "SP" THEN "http_version_h" ELSE IF c \notin Ctl THEN "uri" ELSE "bad"
    /\ Goto("http_version_h", c) = IF c = "H" THEN "http_version_t_1" ELSE "bad"
    /\ Goto("http_version_t_1", c) = IF c = "T" THEN "http_version_t_2" ELSE "bad"
    /\ Goto("http_version_t_2", c) = IF c = "T" THEN "http_version_p" ELSE "bad"
    /\ Goto("http_version_p", c) = IF c = "P" THEN "http_version_slash" ELSE "bad"
    /\ Goto("http_version_slash", c) = IF c = "/" THEN "http_version_major_start" ELSE "bad"
    /\ Goto("http_version_major_start", c) = IF c = "1" THEN "http_version_major" ELSE "bad"
    /\ Goto("http_version_major", c) = IF c = "1" THEN "http_version_major"
                                       ELSE IF c = "." THEN "http_version_minor_start" ELSE "bad"
    /\ Goto("http_version_minor_start", c) = IF c = "1" THEN "http_version_minor" ELSE "bad"
    /\ Goto("http_version_minor", c) = IF c = "1" THEN "http_version_minor"
                                       ELSE IF c = "CR" THEN "expecting_newline_1" ELSE "bad"
    /\ Goto("expecting_newline_1", c) = IF c = "LF" THEN "first_line_start" ELSE "bad"

FromHeader(c) ==
    /\ Goto("first_line_start", c) = IF c = "CR" THEN "expecting_newline_3"
                                     ELSE IF IsToken(c) THEN "header_name" ELSE "bad"
    /\ Goto("header_line_start", c) = IF c = "CR" THEN "expecting_newline_3"
                                      ELSE IF c \in Lws THEN "header_lws"
                                      ELSE IF IsToken(c) THEN "header_name" ELSE "bad"
    /\ Goto("header_name", c) = IF IsToken(c) THEN "header_name"
                                ELSE IF c = ":" THEN "space_before_header_value" ELSE "bad"
    /\ Goto("space_before_header_value", c) = IF c = "SP" THEN "header_value" ELSE "bad"
    /\ Goto("header_value", c) = IF c = "CR" THEN "expecting_newline_2"
                                 ELSE IF c \notin Ctl THEN "header_value" ELSE "bad"
    /\ Goto("header_lws", c) = IF c = "CR" THEN "expecting_newline_2"
                               ELSE IF c \in Lws THEN "header_lws"
                               ELSE IF c \notin Ctl THEN "header_value" ELSE "bad"
    /\ Goto("expecting_newline_2", c) = IF c = "LF" THEN "header_line_start" ELSE "bad"
    /\ Goto("expecting_newline_3", c) = IF c = "LF" THEN "done" ELSE "bad"
    /\ Goto("done", c) = "bad" /\ Goto("bad", c) = "bad"

\* Each row of the table.
LEMMA Gotos == \A c : FromLine(c) /\ FromHeader(c)
<1> SUFFICES ASSUME NEW c PROVE FromLine(c) /\ FromHeader(c)
    OBVIOUS
<1>1. FromLine(c)
  BY DEF FromLine, Goto, Table
<1>2. FromHeader(c)
  BY DEF FromHeader, Goto, Table
<1> QED BY <1>1, <1>2

\* What is special in a token, and what is not.
LEMMA TokenKinds ==
    /\ \A c : IsToken(c) <=> c \notin Ctl \cup Tspecial \cup {"high"}
    /\ \A c : IsToken(c) => c \notin {"CR", "LF", "SP", "TAB", ":"}
    /\ \A c : c \in Ctl <=> c \in {"CR", "LF", "TAB"}
    /\ \A c : c \in Lws <=> c \in {"SP", "TAB"}
    /\ ~IsToken(":") /\ ~IsToken("SP") /\ ~IsToken("CR")
BY DEF IsToken, Ctl, Tspecial, Lws

\* The parser reads the version of a request line.
LEMMA VersionRuns ==
    ASSUME NEW C, NEW t \in Seq(C), NEW r, Run(t, r),
           NEW j \in Nat, NEW b \in Nat, b < Len(t), r[j] = "http_version_h", IsVersion(t, j + 1, b)
    PROVE  r[b] = "http_version_minor"
<1>1. Len(t) \in Nat
  BY LenProperties
<1>2. PICK d \in (j + 1 + 5)..b :
          /\ \A k \in 1..5 : t[j + 1 + k - 1] = Protocol[k]
          /\ IsNumber(t, j + 1 + 5, d - 1) /\ t[d] = "." /\ IsNumber(t, d + 1, b)
  BY DEF IsVersion
<1>3. t[j + 1] = "H" /\ t[j + 2] = "T" /\ t[j + 3] = "T" /\ t[j + 4] = "P" /\ t[j + 5] = "/"
  <2>1. /\ j + 1 + 1 - 1 = j + 1 /\ j + 1 + 2 - 1 = j + 2 /\ j + 1 + 3 - 1 = j + 3
        /\ j + 1 + 4 - 1 = j + 4 /\ j + 1 + 5 - 1 = j + 5
    OBVIOUS
  <2>2. /\ Protocol[1] = "H" /\ Protocol[2] = "T" /\ Protocol[3] = "T" /\ Protocol[4] = "P"
        /\ Protocol[5] = "/"
    BY DEF Protocol
  <2>3. 1 \in 1..5 /\ 2 \in 1..5 /\ 3 \in 1..5 /\ 4 \in 1..5 /\ 5 \in 1..5
    OBVIOUS
  <2> QED BY <1>2, <2>1, <2>2, <2>3
<1>4. /\ d \in Nat /\ j + 6 <= d - 1 /\ d + 1 <= b
      /\ (\A k \in (j + 6)..(d - 1) : t[k] = "1") /\ \A k \in (d + 1)..b : t[k] = "1"
  <2>1. j + 1 + 5 = j + 6
    OBVIOUS
  <2> QED BY <1>2, <2>1 DEF IsNumber
<1>5. ASSUME NEW k \in Nat, k < b PROVE r[k + 1] = Goto(r[k], t[k + 1])
  BY <1>1, <1>5, NextPlace
<1>6. r[j + 1] = "http_version_t_1"
  <2>1. j < b
    BY <1>4
  <2>5. r[j + 1] = Goto(r[j], t[j + 1])
    BY <1>3, <1>4, <1>5, <2>1
  <2> QED BY <1>3, <2>1, <2>5, Gotos DEF FromLine
<1>7. r[j + 2] = "http_version_t_2"
  <2>1. j + 1 \in Nat /\ j + 1 < b /\ (j + 1) + 1 = j + 2
    BY <1>4
  <2>5. r[j + 2] = Goto(r[j + 1], t[j + 2])
    BY <1>3, <1>4, <1>5, <2>1
  <2> QED BY <1>3, <1>6, <2>1, <2>5, Gotos DEF FromLine
<1>8. r[j + 3] = "http_version_p"
  <2>1. j + 2 \in Nat /\ j + 2 < b /\ (j + 2) + 1 = j + 3
    BY <1>4
  <2>5. r[j + 3] = Goto(r[j + 2], t[j + 3])
    BY <1>3, <1>4, <1>5, <2>1
  <2> QED BY <1>3, <1>7, <2>1, <2>5, Gotos DEF FromLine
<1>9. r[j + 4] = "http_version_slash"
  <2>1. j + 3 \in Nat /\ j + 3 < b /\ (j + 3) + 1 = j + 4
    BY <1>4
  <2>5. r[j + 4] = Goto(r[j + 3], t[j + 4])
    BY <1>3, <1>4, <1>5, <2>1
  <2> QED BY <1>3, <1>8, <2>1, <2>5, Gotos DEF FromLine
<1>10. r[j + 5] = "http_version_major_start"
  <2>1. j + 4 \in Nat /\ j + 4 < b /\ (j + 4) + 1 = j + 5
    BY <1>4
  <2>5. r[j + 5] = Goto(r[j + 4], t[j + 5])
    BY <1>3, <1>4, <1>5, <2>1
  <2> QED BY <1>3, <1>9, <2>1, <2>5, Gotos DEF FromLine
<1>11. r[j + 6] = "http_version_major"
  <2>1. j + 5 \in Nat /\ j + 5 < b /\ (j + 5) + 1 = j + 6 /\ j + 6 \in (j + 6)..(d - 1)
    BY <1>4
  <2>5. r[j + 6] = Goto(r[j + 5], t[j + 6])
    BY <1>3, <1>4, <1>5, <2>1
  <2> QED BY <1>4, <1>10, <2>1, <2>5, Gotos DEF FromLine
<1>12. r[d - 1] = "http_version_major"
  <2>1. j + 6 \in Nat /\ d - 1 \in Nat /\ j + 6 <= d - 1 /\ d - 1 <= Len(t)
    BY <1>1, <1>4
  <2>2. \A k \in (j + 6 + 1)..(d - 1) : Goto("http_version_major", t[k]) = "http_version_major"
    <3>1. \A k \in (j + 6 + 1)..(d - 1) : t[k] = "1"
      BY <1>4
    <3> QED BY <3>1, Gotos DEF FromLine
  <2>3. Constant(r, "http_version_major", j + 6, d - 1)
    BY <1>11, <2>1, <2>2, Stays
  <2>4. d - 1 \in (j + 6)..(d - 1)
    BY <2>1
  <2> QED BY <2>3, <2>4 DEF Constant
<1>13. r[d] = "http_version_minor_start"
  <2>1. d - 1 \in Nat /\ d - 1 < b /\ (d - 1) + 1 = d
    BY <1>4
  <2>5. r[d] = Goto(r[d - 1], t[d])
    BY <1>3, <1>4, <1>5, <2>1
  <2> QED BY <1>2, <1>12, <2>1, <2>5, Gotos DEF FromLine
<1>14. r[d + 1] = "http_version_minor"
  <2>1. d < b /\ d + 1 \in (d + 1)..b
    BY <1>4
  <2>5. r[d + 1] = Goto(r[d], t[d + 1])
    BY <1>3, <1>4, <1>5, <2>1
  <2> QED BY <1>4, <1>13, <2>1, <2>5, Gotos DEF FromLine
<1>15. r[b] = "http_version_minor"
  <2>1. d + 1 \in Nat /\ d + 1 <= b /\ b <= Len(t)
    BY <1>1, <1>4
  <2>2. \A k \in (d + 1 + 1)..b : Goto("http_version_minor", t[k]) = "http_version_minor"
    <3>1. \A k \in (d + 1 + 1)..b : t[k] = "1"
      BY <1>4
    <3> QED BY <3>1, Gotos DEF FromLine
  <2>3. Constant(r, "http_version_minor", d + 1, b)
    BY <1>14, <2>1, <2>2, Stays
  <2>4. b \in (d + 1)..b
    BY <2>1
  <2> QED BY <2>3, <2>4 DEF Constant
<1> QED BY <1>15

\* The parser reads a request line.
LEMMA RequestLineRuns ==
    ASSUME NEW C, NEW t \in Seq(C), NEW r, Run(t, r),
           NEW b \in 2..Len(t), IsRequestLine(t, b - 2), t[b - 1] = "CR", t[b] = "LF"
    PROVE  r[b] = "first_line_start"
<1>1. Len(t) \in Nat
  BY LenProperties
<1>2. PICK i, j \in {k \in 1..(b - 2) : t[k] = "SP"} :
          /\ i < j
          /\ IsTokens(t, 1, i - 1)
          /\ \A k \in (i + 1)..(j - 1) : t[k] \notin Ctl \cup {"SP"}
          /\ IsVersion(t, j + 1, b - 2)
  BY DEF IsRequestLine
<1>3. /\ i \in Nat /\ j \in Nat /\ 1 <= i - 1 /\ i < j /\ j <= b - 2 /\ b - 2 \in Nat /\ b \in Nat
      /\ t[i] = "SP" /\ t[j] = "SP"
  BY <1>2 DEF IsTokens
<1>4. \A k \in 1..(i - 1) : IsToken(t[k])
  BY <1>2, TokenKinds DEF IsTokens
<1>5. ASSUME NEW k \in Nat, k < b PROVE r[k + 1] = Goto(r[k], t[k + 1])
  BY <1>1, <1>5, NextPlace
<1>6. r[1] = "method"
  <2>1. 0 < b /\ 0 + 1 = 1 /\ 1 \in 1..(i - 1)
    BY <1>3
  <2>2. r[0] = "method_start"
    BY DEF Run
  <2>5. r[1] = Goto(r[0], t[1])
    BY <1>3, <1>4, <1>5, <2>1
  <2> QED BY <1>4, <2>2, <2>1, <2>5, Gotos DEF FromLine
<1>7. r[i - 1] = "method"
  <2>1. 1 \in Nat /\ i - 1 \in Nat /\ i - 1 <= Len(t) /\ i - 1 \in 1..(i - 1)
    BY <1>1, <1>3
  <2>2. \A k \in (1 + 1)..(i - 1) : Goto("method", t[k]) = "method"
    <3>1. \A k \in (1 + 1)..(i - 1) : IsToken(t[k])
      BY <1>4
    <3> QED BY <3>1, Gotos DEF FromLine
  <2>3. Constant(r, "method", 1, i - 1)
    BY <1>3, <1>6, <2>1, <2>2, Stays
  <2> QED BY <2>1, <2>3 DEF Constant
<1>8. r[i] = "uri"
  <2>1. i - 1 \in Nat /\ i - 1 < b /\ (i - 1) + 1 = i
    BY <1>3
  <2>5. r[i] = Goto(r[i - 1], t[i])
    BY <1>3, <1>4, <1>5, <2>1
  <2> QED BY <1>3, <1>7, TokenKinds, <2>1, <2>5, Gotos DEF FromLine
<1>9. r[j - 1] = "uri"
  <2>1. i <= j - 1 /\ j - 1 \in Nat /\ j - 1 <= Len(t) /\ j - 1 \in i..(j - 1)
    BY <1>1, <1>3
  <2>2. \A k \in (i + 1)..(j - 1) : Goto("uri", t[k]) = "uri"
    BY <1>2, Gotos DEF FromLine
  <2>3. Constant(r, "uri", i, j - 1)
    BY <1>3, <1>8, <2>1, <2>2, Stays
  <2> QED BY <2>1, <2>3 DEF Constant
<1>10. r[j] = "http_version_h"
  <2>1. j - 1 \in Nat /\ j - 1 < b /\ (j - 1) + 1 = j
    BY <1>3
  <2>5. r[j] = Goto(r[j - 1], t[j])
    BY <1>3, <1>4, <1>5, <2>1
  <2> QED BY <1>3, <1>9, <2>1, <2>5, Gotos DEF FromLine
<1>11. r[b - 2] = "http_version_minor"
  <2>1. b - 2 < Len(t)
    BY <1>1, <1>3
  <2> QED BY <1>2, <1>3, <1>10, <2>1, VersionRuns
<1>12. r[b - 1] = "expecting_newline_1"
  <2>1. b - 2 < b /\ (b - 2) + 1 = b - 1
    BY <1>3
  <2>2. r[b - 1] = Goto(r[b - 2], t[b - 1])
    BY <1>3, <1>5, <2>1
  <2> QED BY <1>11, <2>2, Gotos DEF FromLine
<1>13. r[b] = "first_line_start"
  <2>1. b - 1 \in Nat /\ b - 1 < b /\ (b - 1) + 1 = b
    BY <1>3
  <2>2. r[b] = Goto(r[b - 1], t[b])
    BY <1>5, <2>1
  <2> QED BY <1>12, <2>2, Gotos DEF FromLine
<1> QED BY <1>13
-----------------------------------------------------------------------------
\* Place k is in white space that continues a value that begins behind m.
Folded(t, m, k) ==
    \E j \in (m + 1)..(k - 1) : t[j] = "LF" /\ \A l \in (j + 1)..k : t[l] \in Lws

\* White space continues a value where it follows a line's end or such white space.
LEMMA FoldedNext ==
    ASSUME NEW t, NEW m \in Nat, NEW k \in Nat, m <= k, t[m] # "LF"
    PROVE  Folded(t, m, k + 1) <=> t[k + 1] \in Lws /\ (t[k] = "LF" \/ Folded(t, m, k))
<1>1. ASSUME Folded(t, m, k + 1) PROVE t[k + 1] \in Lws /\ (t[k] = "LF" \/ Folded(t, m, k))
  <2>1. PICK j \in (m + 1)..((k + 1) - 1) : t[j] = "LF" /\ \A l \in (j + 1)..(k + 1) : t[l] \in Lws
    BY <1>1 DEF Folded
  <2>2. k + 1 \in (j + 1)..(k + 1) /\ (j = k \/ j \in (m + 1)..(k - 1))
    OBVIOUS
  <2>3. \A l \in (j + 1)..k : l \in (j + 1)..(k + 1)
    OBVIOUS
  <2> QED BY <2>1, <2>2, <2>3 DEF Folded
<1>2. ASSUME t[k + 1] \in Lws, t[k] = "LF" PROVE Folded(t, m, k + 1)
  <2>1. k # m
    BY <1>2
  <2>2. k \in (m + 1)..((k + 1) - 1)
    BY <2>1
  <2>3. \A l \in (k + 1)..(k + 1) : l = k + 1
    OBVIOUS
  <2> QED BY <1>2, <2>2, <2>3 DEF Folded
<1>3. ASSUME t[k + 1] \in Lws, Folded(t, m, k) PROVE Folded(t, m, k + 1)
  <2>1. PICK j \in (m + 1)..(k - 1) : t[j] = "LF" /\ \A l \in (j + 1)..k : t[l] \in Lws
    BY <1>3 DEF Folded
  <2>2. j \in (m + 1)..((k + 1) - 1) /\ \A l \in (j + 1)..(k + 1) : l = k + 1 \/ l \in (j + 1)..k
    OBVIOUS
  <2> QED BY <1>3, <2>1, <2>2 DEF Folded
<1> QED BY <1>1, <1>2, <1>3

\* What the parser is doing at place k of a value behind m.
Value == {"header_value", "header_lws", "expecting_newline_2", "header_line_start"}
InValue(r, t, m, k) ==
    /\ r[k] \in Value
    /\ r[k] = "expecting_newline_2" <=> t[k] = "CR"
    /\ r[k] = "header_line_start" <=> t[k] = "LF"
    /\ r[k] = "header_lws" <=> Folded(t, m, k)

\* A control character where a value may have it.
CtlAt(t, m, e, k) ==
    t[k] \in Ctl =>
        \/ t[k] = "CR" /\ k + 2 <= e /\ t[k + 1] = "LF" /\ t[k + 2] \in Lws
        \/ t[k] = "LF" /\ m + 1 < k /\ t[k - 1] = "CR"
        \/ t[k] = "TAB" /\ Folded(t, m, k)

\* One character of a value more.
LEMMA ValueStep ==
    ASSUME NEW t, NEW r, NEW m \in Nat, NEW e \in Nat, t[m] = "SP",
           \A k \in (m + 1)..e : CtlAt(t, m, e, k),
           NEW k \in m..(e - 1), InValue(r, t, m, k), r[k + 1] = Goto(r[k], t[k + 1])
    PROVE  InValue(r, t, m, k + 1)
<1>1. k \in Nat /\ m <= k /\ k + 1 \in (m + 1)..e /\ (k = m \/ k \in (m + 1)..e)
  OBVIOUS
<1>2. Folded(t, m, k + 1) <=> t[k + 1] \in Lws /\ (t[k] = "LF" \/ Folded(t, m, k))
  <2>1. t[m] # "LF"
    OBVIOUS
  <2> QED BY <1>1, <2>1, FoldedNext
<1>3. t[k] = "CR" => t[k + 1] = "LF"
  <2> SUFFICES ASSUME t[k] = "CR" PROVE t[k + 1] = "LF"
      OBVIOUS
  <2>1. k \in (m + 1)..e
    BY <1>1
  <2> QED BY <2>1 DEF CtlAt, Ctl
<1>4. t[k] = "LF" => t[k + 1] \in Lws
  <2> SUFFICES ASSUME t[k] = "LF" PROVE t[k + 1] \in Lws
      OBVIOUS
  <2>1. k \in (m + 1)..e
    BY <1>1
  <2>2. m + 1 < k /\ t[k - 1] = "CR"
    BY <2>1 DEF CtlAt, Ctl
  <2>3. k - 1 \in (m + 1)..e /\ (k - 1) + 2 = k + 1
    BY <2>1, <2>2
  <2> QED BY <2>2, <2>3 DEF CtlAt, Ctl
<1>5. t[k + 1] = "LF" => t[k] = "CR"
  <2>1. (k + 1) - 1 = k
    OBVIOUS
  <2> QED BY <1>1, <2>1 DEF CtlAt, Ctl
<1>6. t[k + 1] = "TAB" => Folded(t, m, k + 1)
  BY <1>1 DEF CtlAt, Ctl
<1> DEFINE F == Folded(t, m, k)
           G == Folded(t, m, k + 1)
           q == r[k]
           p == r[k + 1]
           x == t[k]
           y == t[k + 1]
<1>7. /\ q \in Value /\ (q = "expecting_newline_2" <=> x = "CR")
      /\ (q = "header_line_start" <=> x = "LF") /\ (q = "header_lws" <=> F) /\ p = Goto(q, y)
      /\ (G <=> y \in Lws /\ (x = "LF" \/ F)) /\ (x = "CR" => y = "LF") /\ (x = "LF" => y \in Lws)
      /\ (y = "LF" => x = "CR") /\ (y = "TAB" => G)
  BY <1>2, <1>3, <1>4, <1>5, <1>6 DEF InValue
<1>8. FromHeader(y) /\ (y \in Lws <=> y \in {"SP", "TAB"}) /\ (y \in Ctl <=> y \in {"CR", "LF", "TAB"})
  BY Gotos, TokenKinds
<1> HIDE DEF F, G, p, q, x, y
<1>9. /\ p \in Value /\ (p = "expecting_newline_2" <=> y = "CR")
      /\ (p = "header_line_start" <=> y = "LF") /\ (p = "header_lws" <=> G)
  <2>1. CASE q = "expecting_newline_2"
    BY <1>7, <1>8, <2>1 DEF FromHeader, Value
  <2>2. CASE q = "header_line_start"
    BY <1>7, <1>8, <2>2 DEF FromHeader, Value
  <2>3. CASE q = "header_lws"
    BY <1>7, <1>8, <2>3 DEF FromHeader, Value
  <2>4. CASE q = "header_value"
    BY <1>7, <1>8, <2>4 DEF FromHeader, Value
  <2> QED BY <1>7, <2>1, <2>2, <2>3, <2>4 DEF Value
<1> QED BY <1>9 DEF InValue, G, p, y

\* The parser reads a value and the end of its line.
LEMMA ValueRuns ==
    ASSUME NEW C, NEW t \in Seq(C), NEW r, Run(t, r),
           NEW m \in Nat, r[m] = "header_value", t[m] = "SP",
           NEW e \in Nat, m <= e, e + 2 <= Len(t), IsValue(t, m + 1, e),
           t[e + 1] = "CR", t[e + 2] = "LF"
    PROVE  r[e + 2] = "header_line_start"
<1>1. Len(t) \in Nat
  BY LenProperties
<1>2. ASSUME NEW k \in (m + 1)..e PROVE CtlAt(t, m, e, k)
  BY DEF IsValue, CtlAt, Folded
<1>3. InValue(r, t, m, m)
  <2>1. ~Folded(t, m, m)
    BY DEF Folded
  <2> QED BY <2>1 DEF InValue, Value
<1> DEFINE P == {n \in Nat : m + n <= e => InValue(r, t, m, m + n)}
<1>4. 0 \in P
  <2>1. m + 0 = m
    OBVIOUS
  <2> QED BY <1>3, <2>1
<1>5. ASSUME NEW n \in Nat, n \in P PROVE n + 1 \in P
  <2> SUFFICES ASSUME m + (n + 1) <= e PROVE InValue(r, t, m, m + (n + 1))
      OBVIOUS
  <2>1. m + n \in Nat /\ m + n \in m..(e - 1) /\ m + n < Len(t) /\ m + n <= e /\ m + n + 1 = m + (n + 1)
    BY <1>1
  <2>2. InValue(r, t, m, m + n)
    BY <1>5, <2>1
  <2>3. r[m + n + 1] = Goto(r[m + n], t[m + n + 1])
    BY <2>1, NextPlace
  <2>4. InValue(r, t, m, m + n + 1)
    BY <1>2, <2>1, <2>2, <2>3, ValueStep
  <2> QED BY <2>1, <2>4
<1> HIDE DEF P
<1>6. InValue(r, t, m, e)
  <2>1. Nat \subseteq P
    BY <1>4, <1>5, NatSetInduction
  <2>2. e - m \in Nat /\ m + (e - m) = e
    OBVIOUS
  <2> QED BY <2>1, <2>2 DEF P
<1>7. t[e] # "CR" /\ t[e] # "LF"
  <2>1. CASE e = m
    BY <2>1
  <2>2. CASE e # m
    <3>1. e \in (m + 1)..e /\ ~(e + 2 <= e)
      BY <2>2
    <3>2. CtlAt(t, m, e, e)
      BY <1>2, <3>1
    <3>3. t[e] # "CR"
      BY <3>1, <3>2 DEF CtlAt, Ctl
    <3>4. ASSUME t[e] = "LF" PROVE FALSE
      <4>1. m + 1 < e /\ t[e - 1] = "CR"
        BY <3>2, <3>4 DEF CtlAt, Ctl
      <4>2. e - 1 \in (m + 1)..e /\ ~((e - 1) + 2 <= e)
        BY <4>1
      <4>3. CtlAt(t, m, e, e - 1)
        BY <1>2, <4>2
      <4> QED BY <4>1, <4>2, <4>3 DEF CtlAt, Ctl
    <3> QED BY <3>3, <3>4
  <2> QED BY <2>1, <2>2
<1>8. r[e] \in {"header_value", "header_lws"}
  BY <1>6, <1>7 DEF InValue, Value
<1>9. r[e + 1] = "expecting_newline_2"
  <2>1. e < Len(t)
    BY <1>1
  <2>2. r[e + 1] = Goto(r[e], t[e + 1])
    BY <2>1, NextPlace
  <2> QED BY <1>8, <2>2, Gotos DEF FromHeader
<1>10. r[e + 2] = "header_line_start"
  <2>1. e + 1 \in Nat /\ e + 1 < Len(t) /\ (e + 1) + 1 = e + 2
    BY <1>1
  <2>2. r[e + 2] = Goto(r[e + 1], t[e + 2])
    BY <2>1, NextPlace
  <2> QED BY <1>9, <2>2, Gotos DEF FromHeader
<1> QED BY <1>10

\* The parser reads a header and the end of its line.
LEMMA HeaderRuns ==
    ASSUME NEW C, NEW t \in Seq(C), NEW r, Run(t, r),
           NEW a \in Nat, r[a] \in LineStart,
           NEW b \in Nat, b <= Len(t), IsHeader(t, a + 1, b - 2), t[b - 1] = "CR", t[b] = "LF"
    PROVE  r[b] = "header_line_start"
<1>1. Len(t) \in Nat
  BY LenProperties
<1>2. PICK i \in (a + 1)..(b - 2 - 1) :
          /\ IsTokens(t, a + 1, i - 1) /\ t[i] = ":" /\ t[i + 1] = "SP"
          /\ IsValue(t, i + 2, b - 2)
  BY DEF IsHeader
<1>3. /\ i \in Nat /\ a + 1 <= i - 1 /\ i + 1 <= b - 2 /\ b - 2 \in Nat /\ b - 2 + 2 = b
      /\ b - 2 + 1 = b - 1 /\ i + 1 + 1 = i + 2 /\ t[i] = ":" /\ t[i + 1] = "SP"
  BY <1>2 DEF IsTokens
<1>4. \A k \in (a + 1)..(i - 1) : IsToken(t[k])
  BY <1>2, TokenKinds DEF IsTokens
<1>5. ASSUME NEW k \in Nat, k < b PROVE r[k + 1] = Goto(r[k], t[k + 1])
  BY <1>1, <1>5, NextPlace
<1>6. r[a + 1] = "header_name"
  <2>1. a < b /\ a + 1 \in (a + 1)..(i - 1)
    BY <1>3
  <2>2. r[a + 1] = Goto(r[a], t[a + 1]) /\ IsToken(t[a + 1])
    BY <1>4, <1>5, <2>1
  <2> QED BY <2>2, Gotos, TokenKinds DEF FromHeader, LineStart
<1>7. r[i - 1] = "header_name"
  <2>1. a + 1 \in Nat /\ i - 1 \in Nat /\ a + 1 <= i - 1 /\ i - 1 <= Len(t) /\ i - 1 \in (a + 1)..(i - 1)
    BY <1>1, <1>3
  <2>2. \A k \in (a + 1 + 1)..(i - 1) : Goto("header_name", t[k]) = "header_name"
    <3>1. \A k \in (a + 1 + 1)..(i - 1) : IsToken(t[k])
      BY <1>4
    <3> QED BY <3>1, Gotos DEF FromHeader
  <2>3. Constant(r, "header_name", a + 1, i - 1)
    BY <1>6, <2>1, <2>2, Stays
  <2> QED BY <2>1, <2>3 DEF Constant
<1>8. r[i] = "space_before_header_value"
  <2>1. i - 1 \in Nat /\ i - 1 < b /\ (i - 1) + 1 = i
    BY <1>3
  <2>2. r[i] = Goto(r[i - 1], t[i])
    BY <1>5, <2>1
  <2> QED BY <1>3, <1>7, <2>2, Gotos, TokenKinds DEF FromHeader
<1>9. r[i + 1] = "header_value"
  <2>1. i < b
    BY <1>3
  <2>2. r[i + 1] = Goto(r[i], t[i + 1])
    BY <1>3, <1>5, <2>1
  <2> QED BY <1>3, <1>8, <2>2, Gotos DEF FromHeader
<1>10. i + 1 \in Nat /\ b - 2 + 2 <= Len(t) /\ IsValue(t, i + 1 + 1, b - 2)
       /\ t[b - 2 + 1] = "CR" /\ t[b - 2 + 2] = "LF"
  BY <1>2, <1>3
<1>11. r[b - 2 + 2] = "header_line_start"
  BY <1>3, <1>9, <1>10, ValueRuns
<1> QED BY <1>3, <1>11

\* A request is read to its end.
LEMMA RequestRuns ==
    ASSUME NEW C, NEW t \in Seq(C), NEW r, Run(t, r), IsRequest(t)
    PROVE  r[Len(t)] = "done"
<1> DEFINE n == Len(t)
           ends == LineEnds(t)
           P == {m \in Nat : \A b \in ends \ {n} : b <= m => r[b] \in LineStart}
<1>1. n \in Nat
  BY LenProperties
<1>2. \A k \in ends : k \in 2..n /\ t[k - 1] = "CR" /\ t[k] = "LF"
  BY DEF LineEnds
<1>3. n - 2 \in ends /\ n \in ends
  BY DEF IsRequest
<1>4. 0 \in P
  BY <1>2
<1>5. ASSUME NEW m \in Nat, m \in P PROVE m + 1 \in P
  <2>1. ASSUME NEW b \in ends \ {n}, b <= m + 1 PROVE r[b] \in LineStart
    <3>1. PICK a \in {0} \cup ends :
              /\ a < b
              /\ IF a = 0 THEN IsRequestLine(t, b - 2) ELSE IsHeader(t, a + 1, b - 2)
      BY DEF IsRequest
    <3>2. b \in 2..Len(t) /\ b \in Nat /\ b <= Len(t) /\ t[b - 1] = "CR" /\ t[b] = "LF"
      BY <1>1, <1>2
    <3>3. CASE a = 0
      <4>1. r[b] = "first_line_start"
        BY <3>1, <3>2, <3>3, RequestLineRuns
      <4> QED BY <4>1 DEF LineStart
    <3>4. CASE a # 0
      <4>1. a \in ends /\ a \in Nat /\ a # n /\ a <= m
        BY <1>1, <1>2, <2>1, <3>1, <3>2, <3>4
      <4>2. r[a] \in LineStart
        BY <1>5, <4>1
      <4>3. r[b] = "header_line_start"
        BY <3>1, <3>2, <3>4, <4>1, <4>2, HeaderRuns
      <4> QED BY <4>3 DEF LineStart
    <3> QED BY <3>3, <3>4
  <2> QED BY <2>1
<1> HIDE DEF P
<1>6. r[n - 2] \in LineStart
  <2>1. Nat \subseteq P
    BY <1>4, <1>5, NatSetInduction
  <2>2. n - 2 \in Nat /\ n - 2 # n /\ n - 2 <= n - 2
    BY <1>1, <1>2, <1>3
  <2> QED BY <1>3, <2>1, <2>2 DEF P
<1> HIDE DEF ends
<1>7. n - 2 \in Nat /\ n - 2 < n /\ n - 2 + 1 = n - 1 /\ n - 1 \in Nat /\ n - 1 < n /\ n - 1 + 1 = n
  BY <1>1, <1>2, <1>3
<1>8. r[n - 1] = "expecting_newline_3"
  <2>1. r[n - 1] = Goto(r[n - 2], t[n - 1])
    BY <1>7, NextPlace
  <2>2. t[n - 1] = "CR"
    BY <1>2, <1>3
  <2> QED BY <1>6, <2>1, <2>2, Gotos DEF FromHeader, LineStart
<1>9. r[n] = "done"
  <2>1. r[n] = Goto(r[n - 1], t[n])
    BY <1>7, NextPlace
  <2>2. t[n] = "LF"
    BY <1>2, <1>3
  <2> QED BY <1>8, <2>1, <2>2, Gotos DEF FromHeader
<1> QED BY <1>9
-----------------------------------------------------------------------------
\* r accepts t: by its end, all of it was read.
Accepts(t, r) == Run(t, r) /\ r[Len(t)] = "done"

\* Nothing in an accepted text was refused, and nothing follows it.
LEMMA NeverBad ==
    ASSUME NEW C, NEW t \in Seq(C), NEW r, Accepts(t, r)
    PROVE  \A k \in 0..Len(t) : r[k] \in Places /\ r[k] # "bad" /\ (r[k] = "done" <=> k = Len(t))
<1> DEFINE n == Len(t)
           P == {m \in Nat : m <= n => r[n - m] # "bad" /\ (m > 0 => r[n - m] # "done")}
<1>1. n \in Nat /\ Run(t, r) /\ r[n] = "done"
  BY LenProperties DEF Accepts
<1> HIDE DEF n
<1>2. 0 \in P
  <2>1. n - 0 = n
    BY <1>1
  <2> QED BY <1>1, <2>1
<1>3. ASSUME NEW m \in Nat, m \in P PROVE m + 1 \in P
  <2> SUFFICES ASSUME m + 1 <= n PROVE r[n - (m + 1)] \notin {"bad", "done"}
      OBVIOUS
  <2> DEFINE k == n - (m + 1)
  <2>1. k \in Nat /\ k < n /\ k + 1 = n - m /\ m <= n
    BY <1>1
  <2> HIDE DEF k
  <2>2. r[k + 1] = Goto(r[k], t[k + 1]) /\ r[k] \in Places
    BY <1>1, <2>1, NextPlace DEF n
  <2>3. r[k + 1] # "bad"
    BY <1>3, <2>1
  <2>4. r[k] \notin {"bad", "done"}
    BY <2>2, <2>3, GotoReached DEF Reached
  <2> QED BY <2>4 DEF k
<1> HIDE DEF P
<1>4. Nat \subseteq P
  BY <1>2, <1>3, NatSetInduction
<1>5. ASSUME NEW k \in 0..n PROVE r[k] \in Places /\ r[k] # "bad" /\ (r[k] = "done" <=> k = n)
  <2>1. n - k \in Nat /\ n - k <= n /\ n - (n - k) = k /\ (k # n => n - k > 0)
    BY <1>1
  <2>2. r[k] # "bad" /\ (n - k > 0 => r[k] # "done")
    BY <1>4, <2>1 DEF P
  <2>3. r[k] \in Places
    BY <1>1 DEF Run, n
  <2> QED BY <1>1, <2>1, <2>2, <2>3
<1> QED BY <1>5 DEF n

\* A step of an accepted text.
Goes(t, r, k) ==
    /\ r[k + 1] = Goto(r[k], t[k + 1]) /\ r[k] \in Places /\ Reached(r[k], t[k + 1])
    /\ r[k + 1] # "bad" /\ r[k] \notin {"bad", "done"}

\* Every character of an accepted text leads on.
LEMMA AcceptGoes ==
    ASSUME NEW C, NEW t \in Seq(C), NEW r, Accepts(t, r), NEW k \in Nat, k < Len(t)
    PROVE  Goes(t, r, k)
<1>1. Len(t) \in Nat
  BY LenProperties
<1>2. r[k + 1] = Goto(r[k], t[k + 1]) /\ r[k] \in Places
  BY NextPlace DEF Accepts
<1>3. k \in 0..Len(t) /\ k + 1 \in 0..Len(t) /\ k # Len(t)
  BY <1>1
<1>4. r[k + 1] # "bad" /\ r[k] # "bad" /\ r[k] # "done"
  BY <1>3, NeverBad
<1> QED BY <1>2, <1>4, GotoReached DEF Goes

\* The lines' ends are where a line starts that does not go on, and the end.
EndsAt(t, r, k) ==
    k \in LineEnds(t) <=>
        k \in 1..Len(t) /\ r[k] \in AfterLf /\ (r[k] = "header_line_start" => t[k + 1] \notin Lws)

\* Where lines end in an accepted text.
LEMMA EndsAre ==
    ASSUME NEW C, NEW t \in Seq(C), NEW r, Accepts(t, r), NEW k
    PROVE  EndsAt(t, r, k)
<1> DEFINE n == Len(t)
<1>1. n \in Nat /\ r[n] = "done" /\ r[0] = "method_start"
  BY LenProperties DEF Accepts, Run
<1>2. ASSUME k \in 1..n, r[k] \in AfterLf, r[k] = "header_line_start" => t[k + 1] \notin Lws
      PROVE  k \in LineEnds(t)
  <2>1. k \in Nat /\ k - 1 \in Nat /\ k - 1 < n /\ (k - 1) + 1 = k
    BY <1>1, <1>2
  <2>2. Goes(t, r, k - 1)
    BY <2>1, AcceptGoes
  <2>3. t[k] = "LF" /\ r[k - 1] \in Newline
    BY <1>2, <2>1, <2>2 DEF Goes, Reached
  <2>4. k - 1 # 0
    BY <1>1, <2>3 DEF Newline
  <2>5. k - 2 \in Nat /\ k - 2 < n /\ (k - 2) + 1 = k - 1
    BY <2>1, <2>4
  <2>6. Goes(t, r, k - 2)
    BY <2>5, AcceptGoes
  <2>7. t[k - 1] = "CR"
    BY <2>3, <2>5, <2>6 DEF Goes, Reached
  <2>8. ASSUME k < n PROVE t[k + 1] \notin Lws
    <3>1. Goes(t, r, k)
      BY <2>1, <2>8, AcceptGoes
    <3>2. r[k] \in LineStart
      BY <1>2, <3>1 DEF AfterLf, Goes
    <3> QED BY <1>2, <3>1, <3>2, Gotos, TokenKinds DEF LineStart, Goes, FromHeader
  <2> QED BY <1>2, <2>3, <2>4, <2>7, <2>8 DEF LineEnds
<1>3. ASSUME k \in LineEnds(t)
      PROVE  k \in 1..n /\ r[k] \in AfterLf /\ (r[k] = "header_line_start" => t[k + 1] \notin Lws)
  <2>1. k \in 2..n /\ t[k] = "LF" /\ (k < n => t[k + 1] \notin Lws)
    BY <1>3 DEF LineEnds
  <2>2. k \in 1..n /\ k - 1 \in Nat /\ k - 1 < n /\ (k - 1) + 1 = k /\ (k # n => k < n)
    BY <1>1, <2>1
  <2>3. Goes(t, r, k - 1)
    BY <2>2, AcceptGoes
  <2>4. r[k] \in AfterLf
    BY <2>1, <2>2, <2>3 DEF Goes, Reached
  <2> QED BY <1>1, <2>1, <2>2, <2>4
<1> QED BY <1>2, <1>3 DEF EndsAt

\* The first place where a state is left.
Left(r, q, a, b) == \E i \in (a + 1)..b : r[i] # q /\ Constant(r, q, a, i - 1)

\* A state that is not that of a later place is left first somewhere.
LEMMA FirstLeft ==
    ASSUME NEW r, NEW a \in Nat, NEW b \in Nat, NEW q, a < b, r[a] = q, r[b] # q
    PROVE  Left(r, q, a, b)
<1> SUFFICES ASSUME ~Left(r, q, a, b) PROVE FALSE
    OBVIOUS
<1> DEFINE P == {m \in Nat : a + m <= b => Constant(r, q, a, a + m)}
<1>1. 0 \in P
  BY DEF Constant
<1>2. ASSUME NEW m \in Nat, m \in P PROVE m + 1 \in P
  <2> SUFFICES ASSUME a + (m + 1) <= b PROVE Constant(r, q, a, a + (m + 1))
      OBVIOUS
  <2>1. a + (m + 1) \in (a + 1)..b /\ a + m <= b /\ a + (m + 1) - 1 = a + m
    OBVIOUS
  <2>2. Constant(r, q, a, a + m)
    BY <1>2, <2>1
  <2>3. r[a + (m + 1)] = q
    BY <2>1, <2>2 DEF Left
  <2>4. \A k \in a..(a + (m + 1)) : k = a + (m + 1) \/ k \in a..(a + m)
    OBVIOUS
  <2> QED BY <2>2, <2>3, <2>4 DEF Constant
<1> HIDE DEF P
<1>3. Nat \subseteq P
  BY <1>1, <1>2, NatSetInduction
<1>4. b - a \in Nat /\ a + (b - a) = b /\ b \in a..b
  OBVIOUS
<1>5. Constant(r, q, a, b)
  BY <1>3, <1>4 DEF P
<1> QED BY <1>4, <1>5 DEF Constant

\* Before a place in the request line there is only the request line.
LEMMA LineBefore ==
    ASSUME NEW C, NEW t \in Seq(C), NEW r, Accepts(t, r), NEW b \in Nat, b <= Len(t), r[b] \in InLine
    PROVE  \A k \in 0..b : r[k] \in InLine
<1> DEFINE P == {m \in Nat : m <= b => r[b - m] \in InLine}
<1>1. 0 \in P
  <2>1. b - 0 = b
    OBVIOUS
  <2> QED BY <2>1
<1>2. ASSUME NEW m \in Nat, m \in P PROVE m + 1 \in P
  <2> SUFFICES ASSUME m + 1 <= b PROVE r[b - (m + 1)] \in InLine
      OBVIOUS
  <2> DEFINE k == b - (m + 1)
  <2>1. Len(t) \in Nat
    BY LenProperties
  <2>2. k \in Nat /\ k < Len(t) /\ k + 1 = b - m /\ m <= b
    BY <2>1
  <2>3. r[k + 1] \in InLine
    BY <1>2, <2>2
  <2> HIDE DEF k
  <2>4. Goes(t, r, k)
    BY <2>2, AcceptGoes
  <2>5. r[k] \in InLine
    BY <2>3, <2>4 DEF Goes, Reached
  <2> QED BY <2>5 DEF k
<1> HIDE DEF P
<1>3. Nat \subseteq P
  BY <1>1, <1>2, NatSetInduction
<1>4. \A k \in 0..b : b - k \in Nat /\ b - k <= b /\ b - (b - k) = k
  OBVIOUS
<1> QED BY <1>3, <1>4 DEF P

\* After the request line came its end.
LEMMA LineWasRead ==
    ASSUME NEW C, NEW t \in Seq(C), NEW r, Accepts(t, r), NEW b \in 0..Len(t), r[b] \notin InLine
    PROVE  \E f \in 1..b : r[f] = "first_line_start"
<1> DEFINE P == {m \in Nat : m <= Len(t) => r[m] \in InLine \/ \E f \in 1..m : r[f] = "first_line_start"}
<1>1. 0 \in P
  BY DEF Accepts, Run, InLine
<1>2. ASSUME NEW m \in Nat, m \in P PROVE m + 1 \in P
  <2> SUFFICES ASSUME m + 1 <= Len(t), ~(\E f \in 1..(m + 1) : r[f] = "first_line_start")
               PROVE  r[m + 1] \in InLine
      OBVIOUS
  <2>1. Len(t) \in Nat
    BY LenProperties
  <2>2. m < Len(t) /\ m <= Len(t) /\ m + 1 \in 1..(m + 1) /\ \A f \in 1..m : f \in 1..(m + 1)
    BY <2>1
  <2>3. r[m] \in InLine
    BY <1>2, <2>2
  <2>4. Goes(t, r, m)
    BY <2>2, AcceptGoes
  <2>5. r[m + 1] # "first_line_start"
    BY <2>2
  <2> QED BY <2>3, <2>4, <2>5 DEF Goes, Reached
<1> HIDE DEF P
<1>3. Nat \subseteq P
  BY <1>1, <1>2, NatSetInduction
<1>4. b \in Nat /\ b <= Len(t)
  OBVIOUS
<1> QED BY <1>3, <1>4 DEF P

\* The last two lines.
LEMMA LastEnds ==
    ASSUME NEW C, NEW t \in Seq(C), NEW r, Accepts(t, r)
    PROVE  {Len(t) - 2, Len(t)} \subseteq LineEnds(t)
<1> DEFINE n == Len(t)
<1>1. n \in Nat /\ r[n] = "done" /\ r[0] = "method_start"
  BY LenProperties DEF Accepts, Run
<1>2. n # 0
  BY <1>1
<1>3. n - 1 \in Nat /\ n - 1 < n /\ (n - 1) + 1 = n /\ n \in 1..n
  BY <1>1, <1>2
<1>4. Goes(t, r, n - 1)
  BY <1>3, AcceptGoes
<1>5. r[n - 1] = "expecting_newline_3"
  BY <1>1, <1>3, <1>4 DEF Goes, Reached
<1>6. n - 1 # 0
  BY <1>1, <1>5
<1>7. n - 2 \in Nat /\ n - 2 < n /\ (n - 2) + 1 = n - 1
  BY <1>3, <1>6
<1>8. Goes(t, r, n - 2)
  BY <1>7, AcceptGoes
<1>9. r[n - 2] \in LineStart /\ t[n - 1] = "CR"
  BY <1>5, <1>7, <1>8 DEF Goes, Reached
<1>10. n - 2 # 0
  BY <1>1, <1>9 DEF LineStart
<1>11. n - 2 \in 1..n
  BY <1>7, <1>10
<1>12. n - 2 \in LineEnds(t)
  BY <1>7, <1>9, <1>11, EndsAre, TokenKinds DEF EndsAt, AfterLf
<1>13. n \in LineEnds(t)
  BY <1>1, <1>3, EndsAre DEF EndsAt, AfterLf
<1> QED BY <1>12, <1>13
-----------------------------------------------------------------------------
\* What was accepted as a version is one.
LEMMA VersionFound ==
    ASSUME NEW C, NEW t \in Seq(C), NEW r, Accepts(t, r), NEW b \in Nat, b < Len(t),
           r[b] = "first_line_start", NEW j \in Nat, j < b, r[j] = "http_version_h"
    PROVE  IsVersion(t, j + 1, b - 2)
<1>1. Len(t) \in Nat
  BY LenProperties
<1>2. ASSUME NEW k \in Nat, k < b PROVE Goes(t, r, k)
  BY <1>1, <1>2, AcceptGoes
<1>3. r[b - 1] = "expecting_newline_1"
  <2>1. b - 1 \in Nat /\ b - 1 < b /\ (b - 1) + 1 = b
    OBVIOUS
  <2>2. Goes(t, r, b - 1)
    BY <1>2, <2>1
  <2> QED BY <2>1, <2>2 DEF Goes, Reached
<1>4. \A k \in 0..(b - 1) : r[k] \in InLine
  <2>1. b - 1 \in Nat /\ b - 1 <= Len(t)
    BY <1>1
  <2>2. r[b - 1] \in InLine
    BY <1>3 DEF InLine
  <2> QED BY <2>1, <2>2, LineBefore
\* A place in the version is not the line's end.
<1>5. ASSUME NEW k \in Nat, k < b, r[k] # "expecting_newline_1"
      PROVE  k < b - 1 /\ k + 1 \in Nat /\ k + 1 < b /\ Goes(t, r, k) /\ r[k + 1] \in InLine
  <2>1. k # b - 1
    BY <1>3, <1>5
  <2>2. k < b - 1 /\ k + 1 \in Nat /\ k + 1 < b /\ k + 1 \in 0..(b - 1)
    BY <1>5, <2>1
  <2> QED BY <1>2, <1>4, <1>5, <2>2
<1>6. t[j + 1] = "H" /\ r[j + 1] = "http_version_t_1" /\ j + 1 < b
  <2>1. Goes(t, r, j) /\ j + 1 < b
    BY <1>5
  <2> QED BY <2>1, Gotos DEF Goes, FromLine
<1>7. t[j + 2] = "T" /\ r[j + 2] = "http_version_t_2" /\ j + 2 < b
  <2>1. Goes(t, r, j + 1) /\ j + 1 + 1 < b /\ j + 1 + 1 = j + 2
    BY <1>5, <1>6
  <2> QED BY <1>6, <2>1, Gotos DEF Goes, FromLine
<1>8. t[j + 3] = "T" /\ r[j + 3] = "http_version_p" /\ j + 3 < b
  <2>1. Goes(t, r, j + 2) /\ j + 2 + 1 < b /\ j + 2 + 1 = j + 3
    BY <1>5, <1>7
  <2> QED BY <1>7, <2>1, Gotos DEF Goes, FromLine
<1>9. t[j + 4] = "P" /\ r[j + 4] = "http_version_slash" /\ j + 4 < b
  <2>1. Goes(t, r, j + 3) /\ j + 3 + 1 < b /\ j + 3 + 1 = j + 4
    BY <1>5, <1>8
  <2> QED BY <1>8, <2>1, Gotos DEF Goes, FromLine
<1>10. t[j + 5] = "/" /\ r[j + 5] = "http_version_major_start" /\ j + 5 < b
  <2>1. Goes(t, r, j + 4) /\ j + 4 + 1 < b /\ j + 4 + 1 = j + 5
    BY <1>5, <1>9
  <2> QED BY <1>9, <2>1, Gotos DEF Goes, FromLine
<1>11. t[j + 6] = "1" /\ r[j + 6] = "http_version_major" /\ j + 6 < b - 1
  <2>1. Goes(t, r, j + 5) /\ j + 5 + 1 < b /\ j + 5 + 1 = j + 6
    BY <1>5, <1>10
  <2>2. t[j + 6] = "1" /\ r[j + 6] = "http_version_major"
    BY <1>10, <2>1, Gotos DEF Goes, FromLine
  <2>3. j + 6 \in Nat /\ j + 6 < b
    BY <2>1
  <2> QED BY <1>5, <2>2, <2>3
<1>12. PICK d \in (j + 6 + 1)..(b - 1) :
           r[d] # "http_version_major" /\ Constant(r, "http_version_major", j + 6, d - 1)
  <2>1. j + 6 \in Nat /\ b - 1 \in Nat /\ r[b - 1] # "http_version_major"
    BY <1>3
  <2>2. Left(r, "http_version_major", j + 6, b - 1)
    BY <1>11, <2>1, FirstLeft
  <2> QED BY <2>2 DEF Left
<1>13. d \in Nat /\ d - 1 \in Nat /\ d - 1 < b /\ d < b /\ (d - 1) + 1 = d /\ d - 1 \in (j + 6)..(d - 1)
       /\ j + 6 <= d - 1
  OBVIOUS
<1>14. r[d] = "http_version_minor_start" /\ t[d] = "."
  <2>1. r[d - 1] = "http_version_major"
    BY <1>12, <1>13 DEF Constant
  <2>2. Goes(t, r, d - 1)
    BY <1>2, <1>13
  <2> QED BY <1>12, <1>13, <2>1, <2>2, Gotos DEF Goes, FromLine
<1>15. ASSUME NEW k \in (j + 6)..(d - 1) PROVE t[k] = "1"
  <2>1. CASE k = j + 6
    BY <1>11, <2>1
  <2>2. CASE k # j + 6
    <3>1. k - 1 \in (j + 6)..(d - 1) /\ k - 1 \in Nat /\ k - 1 < b /\ (k - 1) + 1 = k
      BY <1>13, <2>2
    <3>2. r[k - 1] = "http_version_major" /\ r[k] = "http_version_major"
      BY <1>12, <3>1 DEF Constant
    <3>3. Goes(t, r, k - 1)
      BY <1>2, <3>1
    <3> QED BY <3>1, <3>2, <3>3, Gotos DEF Goes, FromLine
  <2> QED BY <2>1, <2>2
<1>16. t[d + 1] = "1" /\ r[d + 1] = "http_version_minor" /\ d + 1 < b - 1
  <2>1. Goes(t, r, d) /\ d + 1 < b
    BY <1>5, <1>13, <1>14
  <2>2. t[d + 1] = "1" /\ r[d + 1] = "http_version_minor"
    BY <1>14, <2>1, Gotos DEF Goes, FromLine
  <2>3. d + 1 \in Nat /\ d + 1 < b
    BY <1>13, <2>1
  <2> QED BY <1>5, <2>2, <2>3
<1>17. PICK e \in (d + 1 + 1)..(b - 1) :
           r[e] # "http_version_minor" /\ Constant(r, "http_version_minor", d + 1, e - 1)
  <2>1. d + 1 \in Nat /\ b - 1 \in Nat /\ r[b - 1] # "http_version_minor"
    BY <1>3, <1>13
  <2>2. Left(r, "http_version_minor", d + 1, b - 1)
    BY <1>16, <2>1, FirstLeft
  <2> QED BY <2>2 DEF Left
<1>18. e \in Nat /\ e - 1 \in Nat /\ e - 1 < b /\ e < b /\ (e - 1) + 1 = e /\ e - 1 \in (d + 1)..(e - 1)
       /\ d + 1 <= e - 1
  BY <1>13
<1>19. r[e] = "expecting_newline_1"
  <2>1. r[e - 1] = "http_version_minor"
    BY <1>17, <1>18 DEF Constant
  <2>2. Goes(t, r, e - 1)
    BY <1>2, <1>18
  <2> QED BY <1>17, <1>18, <2>1, <2>2, Gotos DEF Goes, FromLine
<1>20. e = b - 1
  <2> SUFFICES ASSUME e # b - 1 PROVE FALSE
      OBVIOUS
  <2>1. e + 1 \in 0..(b - 1)
    BY <1>18
  <2>2. Goes(t, r, e)
    BY <1>2, <1>18
  <2>3. r[e + 1] = "first_line_start"
    BY <1>19, <2>2, Gotos DEF Goes, FromLine
  <2> QED BY <1>4, <2>1, <2>3 DEF InLine
<1>21. ASSUME NEW k \in (d + 1)..(e - 1) PROVE t[k] = "1"
  <2>1. CASE k = d + 1
    BY <1>16, <2>1
  <2>2. CASE k # d + 1
    <3>1. k - 1 \in (d + 1)..(e - 1) /\ k - 1 \in Nat /\ k - 1 < b /\ (k - 1) + 1 = k
      BY <1>13, <1>18, <2>2
    <3>2. r[k - 1] = "http_version_minor" /\ r[k] = "http_version_minor"
      BY <1>17, <3>1 DEF Constant
    <3>3. Goes(t, r, k - 1)
      BY <1>2, <3>1
    <3> QED BY <3>1, <3>2, <3>3, Gotos DEF Goes, FromLine
  <2> QED BY <2>1, <2>2
<1>22. \A k \in 1..5 : t[j + 1 + k - 1] = Protocol[k]
  <2>1. /\ j + 1 + 1 - 1 = j + 1 /\ j + 1 + 2 - 1 = j + 2 /\ j + 1 + 3 - 1 = j + 3
        /\ j + 1 + 4 - 1 = j + 4 /\ j + 1 + 5 - 1 = j + 5
    OBVIOUS
  <2>2. /\ Protocol[1] = "H" /\ Protocol[2] = "T" /\ Protocol[3] = "T" /\ Protocol[4] = "P"
        /\ Protocol[5] = "/"
    BY DEF Protocol
  <2>3. \A k \in 1..5 : k = 1 \/ k = 2 \/ k = 3 \/ k = 4 \/ k = 5
    OBVIOUS
  <2> QED BY <1>6, <1>7, <1>8, <1>9, <1>10, <2>1, <2>2, <2>3
<1>23. d \in (j + 1 + 5)..(b - 2) /\ j + 1 + 5 = j + 6 /\ b - 2 = e - 1
  BY <1>13, <1>18, <1>20
<1>24. IsNumber(t, j + 1 + 5, d - 1) /\ IsNumber(t, d + 1, b - 2)
  BY <1>13, <1>15, <1>18, <1>21, <1>23 DEF IsNumber
<1> QED BY <1>14, <1>22, <1>23, <1>24 DEF IsVersion

\* What was accepted as a request line is one, and it is the first line.
LEMMA RequestLineFound ==
    ASSUME NEW C, NEW t \in Seq(C), NEW r, Accepts(t, r), NEW b \in 1..Len(t),
           r[b] = "first_line_start"
    PROVE  IsRequestLine(t, b - 2) /\ \A k \in LineEnds(t) : b <= k
<1>1. Len(t) \in Nat /\ r[Len(t)] = "done" /\ r[0] = "method_start"
  BY LenProperties DEF Accepts, Run
<1>2. b \in Nat /\ b < Len(t) /\ b - 1 \in Nat /\ b - 1 < b /\ (b - 1) + 1 = b
  <2>1. b # Len(t)
    BY <1>1
  <2> QED BY <1>1, <2>1
<1>3. ASSUME NEW k \in Nat, k < b PROVE Goes(t, r, k)
  BY <1>1, <1>2, <1>3, AcceptGoes
<1>4. r[b - 1] = "expecting_newline_1"
  <2>1. Goes(t, r, b - 1)
    BY <1>2, <1>3
  <2> QED BY <1>2, <2>1 DEF Goes, Reached
<1>5. \A k \in LineEnds(t) : b <= k
  <2> SUFFICES ASSUME NEW k \in LineEnds(t), ~(b <= k) PROVE FALSE
      OBVIOUS
  <2>1. k \in 1..Len(t) /\ r[k] \in AfterLf
    BY EndsAre DEF EndsAt
  <2>2. k \in 0..(b - 1) /\ b - 1 <= Len(t)
    BY <1>1, <1>2, <2>1
  <2>3. r[b - 1] \in InLine
    BY <1>4 DEF InLine
  <2>4. r[k] \in InLine
    BY <1>2, <2>2, <2>3, LineBefore
  <2> QED BY <2>1, <2>4 DEF InLine, AfterLf, LineStart
<1>6. b - 1 # 0
  BY <1>1, <1>4
<1>7. r[1] = "method" /\ IsToken(t[1])
  <2>1. Goes(t, r, 0) /\ 0 + 1 = 1
    BY <1>2, <1>3
  <2> QED BY <1>1, <2>1, Gotos DEF Goes, FromLine
<1>8. b - 1 # 1
  BY <1>4, <1>7
<1>9. PICK i \in (1 + 1)..(b - 1) : r[i] # "method" /\ Constant(r, "method", 1, i - 1)
  <2>1. 1 \in Nat /\ 1 < b - 1 /\ r[b - 1] # "method"
    BY <1>2, <1>4, <1>6, <1>8
  <2>2. Left(r, "method", 1, b - 1)
    BY <1>2, <1>7, <2>1, FirstLeft
  <2> QED BY <2>2 DEF Left
<1>10. i \in Nat /\ i - 1 \in Nat /\ i - 1 < b /\ i < b /\ (i - 1) + 1 = i /\ i - 1 \in 1..(i - 1)
  OBVIOUS
<1>11. r[i] = "uri" /\ t[i] = "SP"
  <2>1. r[i - 1] = "method"
    BY <1>9, <1>10 DEF Constant
  <2>2. Goes(t, r, i - 1)
    BY <1>3, <1>10
  <2> QED BY <1>9, <1>10, <2>1, <2>2, Gotos DEF Goes, FromLine
<1>12. ASSUME NEW k \in 1..(i - 1) PROVE IsToken(t[k])
  <2>1. CASE k = 1
    BY <1>7, <2>1
  <2>2. CASE k # 1
    <3>1. k - 1 \in 1..(i - 1) /\ k - 1 \in Nat /\ k - 1 < b /\ (k - 1) + 1 = k
      BY <1>10, <2>2
    <3>2. r[k - 1] = "method" /\ r[k] = "method"
      BY <1>9, <3>1 DEF Constant
    <3>3. Goes(t, r, k - 1)
      BY <1>3, <3>1
    <3> QED BY <3>1, <3>2, <3>3, Gotos DEF Goes, FromLine
  <2> QED BY <2>1, <2>2
<1>13. i # b - 1
  BY <1>4, <1>11
<1>14. PICK j \in (i + 1)..(b - 1) : r[j] # "uri" /\ Constant(r, "uri", i, j - 1)
  <2>1. i < b - 1 /\ r[b - 1] # "uri"
    BY <1>4, <1>10, <1>13
  <2>2. Left(r, "uri", i, b - 1)
    BY <1>2, <1>10, <1>11, <2>1, FirstLeft
  <2> QED BY <2>2 DEF Left
<1>15. j \in Nat /\ j - 1 \in Nat /\ j - 1 < b /\ j < b /\ (j - 1) + 1 = j /\ j - 1 \in i..(j - 1)
  BY <1>10
<1>16. r[j] = "http_version_h" /\ t[j] = "SP"
  <2>1. r[j - 1] = "uri"
    BY <1>14, <1>15 DEF Constant
  <2>2. Goes(t, r, j - 1)
    BY <1>3, <1>15
  <2> QED BY <1>14, <1>15, <2>1, <2>2, Gotos DEF Goes, FromLine
<1>17. ASSUME NEW k \in (i + 1)..(j - 1) PROVE t[k] \notin Ctl \cup {"SP"}
  <2>1. k - 1 \in i..(j - 1) /\ k \in i..(j - 1) /\ k - 1 \in Nat /\ k - 1 < b /\ (k - 1) + 1 = k
    BY <1>10, <1>15
  <2>2. r[k - 1] = "uri" /\ r[k] = "uri"
    BY <1>14, <2>1 DEF Constant
  <2>3. Goes(t, r, k - 1)
    BY <1>3, <2>1
  <2> QED BY <2>1, <2>2, <2>3, Gotos DEF Goes, FromLine
<1>18. j # b - 1
  BY <1>4, <1>16
<1>19. IsVersion(t, j + 1, b - 2)
  BY <1>2, <1>15, <1>16, VersionFound
<1>20. i \in 1..(b - 2) /\ j \in 1..(b - 2) /\ i < j /\ 1 <= i - 1
  BY <1>2, <1>10, <1>13, <1>15, <1>18
<1>21. IsTokens(t, 1, i - 1)
  BY <1>12, <1>20, TokenKinds DEF IsTokens
<1>22. IsRequestLine(t, b - 2)
  BY <1>11, <1>16, <1>17, <1>19, <1>20, <1>21 DEF IsRequestLine
<1> QED BY <1>5, <1>22
-----------------------------------------------------------------------------
\* What was accepted as a value, up to the line's end at b, is one.
LEMMA ValueFound ==
    ASSUME NEW C, NEW t \in Seq(C), NEW r, Accepts(t, r), NEW b \in Nat, b < Len(t),
           NEW m \in Nat, 0 < m, m < b - 1, r[m] = "header_value", t[m] = "SP",
           r[b] = "header_line_start", t[b - 1] = "CR", r[b - 1] = "expecting_newline_2",
           \A k \in LineEnds(t) : k <= m \/ b <= k
    PROVE  IsValue(t, m + 1, b - 2)
<1>1. Len(t) \in Nat
  BY LenProperties
<1>2. ASSUME NEW k \in Nat, k < b PROVE Goes(t, r, k)
  BY <1>1, <1>2, AcceptGoes
\* A line that starts within the value goes on in it.
<1>3. ASSUME NEW k \in (m + 1)..(b - 1), r[k] = "header_line_start"
      PROVE  t[k + 1] \in Lws
  <2>1. k \notin LineEnds(t)
    <3>1. ~(k <= m) /\ ~(b <= k)
      OBVIOUS
    <3> QED BY <3>1
  <2>2. k \in 1..Len(t)
    BY <1>1
  <2> QED BY <1>3, <2>1, <2>2, EndsAre DEF EndsAt, AfterLf, LineStart
<1> DEFINE P == {n \in Nat : m + n <= b - 1 =>
                    r[m + n] \in Value /\ (r[m + n] = "header_lws" => Folded(t, m, m + n))}
<1>4. 0 \in P
  <2>1. m + 0 = m
    OBVIOUS
  <2> QED BY <2>1 DEF Value
<1>5. ASSUME NEW n \in Nat, n \in P PROVE n + 1 \in P
  <2> SUFFICES ASSUME m + (n + 1) <= b - 1
               PROVE  /\ r[m + (n + 1)] \in Value
                      /\ r[m + (n + 1)] = "header_lws" => Folded(t, m, m + (n + 1))
      OBVIOUS
  <2> DEFINE k == m + n
  <2>1. k \in Nat /\ m <= k /\ k <= b - 1 /\ k < b /\ k + 1 = m + (n + 1) /\ (k = m \/ k \in (m + 1)..(b - 1))
    OBVIOUS
  <2>2. r[k] \in Value /\ (r[k] = "header_lws" => Folded(t, m, k))
    BY <1>5, <2>1
  <2> HIDE DEF k
  <2>3. Goes(t, r, k)
    BY <1>2, <2>1
  <2>4. r[k] = "header_line_start" => t[k + 1] \in Lws /\ t[k] = "LF"
    <3> SUFFICES ASSUME r[k] = "header_line_start" PROVE t[k + 1] \in Lws /\ t[k] = "LF"
        OBVIOUS
    <3>1. k \in (m + 1)..(b - 1)
      BY <2>1
    <3>2. k - 1 \in Nat /\ k - 1 < b /\ (k - 1) + 1 = k
      BY <3>1
    <3>3. Goes(t, r, k - 1)
      BY <1>2, <3>2
    <3> QED BY <1>3, <3>1, <3>2, <3>3 DEF Goes, Reached
  <2>5. r[k + 1] \in Value
    <3>1. r[k + 1] = Goto(r[k], t[k + 1]) /\ r[k + 1] # "bad"
      BY <2>3 DEF Goes
    <3>2. CASE r[k] = "header_value"
      BY <3>1, <3>2, Gotos DEF FromHeader, Value
    <3>3. CASE r[k] = "header_lws"
      BY <3>1, <3>3, Gotos DEF FromHeader, Value
    <3>4. CASE r[k] = "expecting_newline_2"
      BY <3>1, <3>4, Gotos DEF FromHeader, Value
    <3>5. CASE r[k] = "header_line_start"
      <4>1. t[k + 1] # "CR" /\ t[k + 1] \in Lws
        BY <2>4, <3>5, TokenKinds
      <4> QED BY <3>1, <3>5, <4>1, Gotos DEF FromHeader, Value
    <3> QED BY <2>2, <3>2, <3>3, <3>4, <3>5 DEF Value
  <2>6. ASSUME r[k + 1] = "header_lws" PROVE Folded(t, m, k + 1)
    <3>1. t[k + 1] \in Lws /\ r[k] \in {"header_line_start", "header_lws"}
      BY <2>3, <2>6 DEF Goes, Reached
    <3>2. t[k] = "LF" \/ Folded(t, m, k)
      BY <2>2, <2>4, <3>1
    <3>3. t[m] # "LF"
      OBVIOUS
    <3> QED BY <2>1, <3>1, <3>2, <3>3, FoldedNext
  <2> QED BY <2>1, <2>5, <2>6
<1> HIDE DEF P
<1>6. ASSUME NEW k \in m..(b - 1)
      PROVE  r[k] \in Value /\ (r[k] = "header_lws" => Folded(t, m, k))
  <2>1. Nat \subseteq P
    BY <1>4, <1>5, NatSetInduction
  <2>2. k - m \in Nat /\ m + (k - m) = k /\ m + (k - m) <= b - 1
    OBVIOUS
  <2> QED BY <2>1, <2>2 DEF P
<1>7. ASSUME NEW k \in (m + 1)..(b - 2) PROVE CtlAt(t, m, b - 2, k)
  <2>1. /\ k \in m..(b - 1) /\ k - 1 \in m..(b - 1) /\ k \in (m + 1)..(b - 1) /\ k \in Nat /\ k - 1 \in Nat
        /\ k - 1 < b /\ k < b /\ (k - 1) + 1 = k
    OBVIOUS
  <2>2. Goes(t, r, k - 1) /\ Goes(t, r, k)
    BY <1>2, <2>1
  <2>3. r[k] \in Value /\ r[k - 1] \in Value
    BY <1>6, <2>1
  <2>4. CASE t[k] = "CR"
    <3>1. r[k] = "expecting_newline_2"
      BY <2>1, <2>2, <2>3, <2>4 DEF Goes, Reached, Newline, Value
    <3>2. t[k + 1] = "LF" /\ r[k + 1] = "header_line_start"
      BY <2>2, <3>1, Gotos DEF Goes, FromHeader
    <3>3. k + 1 \in (m + 1)..(b - 1) /\ (k + 1) + 1 = k + 2
      BY <2>1
    <3>4. t[k + 2] \in Lws
      BY <1>3, <3>2, <3>3
    <3>5. k + 2 # b - 1
      BY <3>4, TokenKinds
    <3>6. k + 2 <= b - 2
      <4>1. k + 1 # b - 1
        BY <3>2
      <4> QED BY <2>1, <3>5, <4>1
    <3> QED BY <2>4, <3>2, <3>4, <3>6 DEF CtlAt
  <2>5. CASE t[k] = "LF"
    <3>1. r[k] = "header_line_start"
      BY <2>1, <2>2, <2>3, <2>5 DEF Goes, Reached, AfterLf, LineStart, Value
    <3>2. r[k - 1] = "expecting_newline_2"
      BY <2>1, <2>2, <3>1 DEF Goes, Reached
    <3>3. k - 1 # m
      BY <3>2
    <3>4. k - 2 \in Nat /\ k - 2 < b /\ (k - 2) + 1 = k - 1 /\ m + 1 < k
      BY <2>1, <3>3
    <3>5. Goes(t, r, k - 2)
      BY <1>2, <3>4
    <3>6. t[k - 1] = "CR"
      BY <3>2, <3>4, <3>5 DEF Goes, Reached, Newline
    <3> QED BY <2>5, <3>4, <3>6 DEF CtlAt
  <2>6. CASE t[k] = "TAB"
    <3>1. r[k] = "header_lws"
      BY <2>1, <2>2, <2>6 DEF Goes, Reached
    <3>2. Folded(t, m, k)
      BY <1>6, <2>1, <3>1
    <3> QED BY <2>6, <3>2 DEF CtlAt
  <2> QED BY <2>4, <2>5, <2>6, TokenKinds DEF CtlAt
<1> QED BY <1>7 DEF IsValue, CtlAt, Folded

\* What was accepted as a header is one: b ends its last line, a the line before.
LEMMA HeaderFound ==
    ASSUME NEW C, NEW t \in Seq(C), NEW r, Accepts(t, r),
           NEW a \in LineEnds(t), NEW b \in LineEnds(t), a < b,
           \A k \in LineEnds(t) : k <= a \/ b <= k, r[b] = "header_line_start"
    PROVE  IsHeader(t, a + 1, b - 2)
<1>1. Len(t) \in Nat /\ r[Len(t)] = "done"
  BY LenProperties DEF Accepts
<1>2. /\ a \in 1..Len(t) /\ r[a] \in AfterLf /\ (r[a] = "header_line_start" => t[a + 1] \notin Lws)
      /\ b \in 1..Len(t)
  BY EndsAre DEF EndsAt
<1>3. a \in Nat /\ b \in Nat /\ b < Len(t) /\ a < Len(t) /\ b - 1 \in Nat /\ b - 1 < b /\ (b - 1) + 1 = b
  <2>1. b # Len(t)
    BY <1>1
  <2> QED BY <1>1, <1>2, <2>1
<1>4. ASSUME NEW k \in Nat, k < b PROVE Goes(t, r, k)
  BY <1>1, <1>3, <1>4, AcceptGoes
<1>5. r[b - 1] = "expecting_newline_2" /\ t[b] = "LF"
  <2>1. Goes(t, r, b - 1)
    BY <1>3, <1>4
  <2> QED BY <1>3, <2>1 DEF Goes, Reached
<1>6. b - 1 # 0
  BY <1>5 DEF Accepts, Run
<1>7. t[b - 1] = "CR"
  <2>1. b - 2 \in Nat /\ b - 2 < b /\ (b - 2) + 1 = b - 1
    BY <1>3, <1>6
  <2>2. Goes(t, r, b - 2)
    BY <1>4, <2>1
  <2> QED BY <1>5, <2>1, <2>2 DEF Goes, Reached, Newline
<1>8. r[a + 1] = "header_name" /\ IsToken(t[a + 1])
  <2>1. Goes(t, r, a)
    BY <1>3, <1>4
  <2>2. r[a] \in LineStart
    BY <1>2, <2>1 DEF AfterLf, Goes
  <2>3. t[a + 1] # "CR"
    <3> SUFFICES ASSUME t[a + 1] = "CR" PROVE FALSE
        OBVIOUS
    <3>1. r[a + 1] = "expecting_newline_3"
      BY <2>1, <2>2 DEF Goes, Reached
    <3>2. a + 1 # b /\ a + 1 \in Nat
      BY <1>3, <3>1
    <3>3. a + 1 < b /\ a + 1 + 1 \in 0..Len(t) /\ a + 1 + 1 # Len(t)
      BY <1>3, <3>2
    <3>4. Goes(t, r, a + 1)
      BY <1>4, <3>2, <3>3
    <3>5. r[a + 1 + 1] = "done"
      BY <3>1, <3>4, Gotos DEF Goes, FromHeader
    <3> QED BY <3>3, <3>5, NeverBad
  <2> QED BY <1>2, <2>1, <2>2, <2>3, Gotos DEF Goes, FromHeader, LineStart
<1>9. a + 1 \in Nat /\ a + 1 < b
  <2>1. a + 1 # b
    BY <1>8
  <2> QED BY <1>3, <2>1
<1>10. PICK i \in (a + 1 + 1)..b : r[i] # "header_name" /\ Constant(r, "header_name", a + 1, i - 1)
  <2>1. Left(r, "header_name", a + 1, b)
    BY <1>3, <1>8, <1>9, FirstLeft
  <2> QED BY <2>1 DEF Left
<1>11. i \in Nat /\ i - 1 \in Nat /\ i - 1 < b /\ (i - 1) + 1 = i /\ i - 1 \in (a + 1)..(i - 1) /\ i <= b
  BY <1>3
<1>12. r[i] = "space_before_header_value" /\ t[i] = ":"
  <2>1. r[i - 1] = "header_name"
    BY <1>10, <1>11 DEF Constant
  <2>2. Goes(t, r, i - 1)
    BY <1>4, <1>11
  <2> QED BY <1>10, <1>11, <2>1, <2>2, Gotos DEF Goes, FromHeader
<1>13. ASSUME NEW k \in (a + 1)..(i - 1) PROVE IsToken(t[k])
  <2>1. CASE k = a + 1
    BY <1>8, <2>1
  <2>2. CASE k # a + 1
    <3>1. k - 1 \in (a + 1)..(i - 1) /\ k - 1 \in Nat /\ k - 1 < b /\ (k - 1) + 1 = k
      BY <1>3, <1>11, <2>2
    <3>2. r[k - 1] = "header_name" /\ r[k] = "header_name"
      BY <1>10, <3>1 DEF Constant
    <3>3. Goes(t, r, k - 1)
      BY <1>4, <3>1
    <3> QED BY <3>1, <3>2, <3>3, Gotos DEF Goes, FromHeader
  <2> QED BY <2>1, <2>2
<1>14. i < b
  <2>1. i # b
    BY <1>12
  <2> QED BY <1>3, <1>11, <2>1
<1>15. r[i + 1] = "header_value" /\ t[i + 1] = "SP"
  <2>1. Goes(t, r, i)
    BY <1>4, <1>11, <1>14
  <2> QED BY <1>12, <2>1, Gotos DEF Goes, FromHeader
<1>16. i + 1 \in Nat /\ 0 < i + 1 /\ i + 1 < b - 1
  <2>1. i + 1 # b /\ i + 1 # b - 1
    BY <1>5, <1>15
  <2> QED BY <1>3, <1>11, <1>14, <2>1
<1>17. \A k \in LineEnds(t) : k <= i + 1 \/ b <= k
  <2>1. \A k \in LineEnds(t) : k \in Nat
    BY EndsAre DEF EndsAt
  <2> QED BY <1>3, <1>11, <2>1
<1>18. IsValue(t, i + 1 + 1, b - 2)
  BY <1>3, <1>5, <1>7, <1>15, <1>16, <1>17, ValueFound
<1>19. i + 1 + 1 = i + 2 /\ i \in (a + 1)..(b - 2 - 1) /\ a + 1 <= i - 1
  BY <1>3, <1>11, <1>16
<1>20. IsTokens(t, a + 1, i - 1)
  BY <1>13, <1>19, TokenKinds DEF IsTokens
<1> QED BY <1>12, <1>15, <1>18, <1>19, <1>20 DEF IsHeader

\* What was accepted is a request.
LEMMA RequestFound ==
    ASSUME NEW C, NEW t \in Seq(C), NEW r, Accepts(t, r)
    PROVE  IsRequest(t)
<1> DEFINE ends == LineEnds(t)
<1>1. Len(t) \in Nat /\ r[Len(t)] = "done"
  BY LenProperties DEF Accepts
<1>2. \A k \in ends : k \in 1..Len(t)
  BY EndsAre DEF EndsAt
<1> HIDE DEF ends
<1>3. ASSUME NEW b \in ends \ {Len(t)}
      PROVE  \E a \in {0} \cup ends :
                 /\ a < b /\ \A k \in ends : k <= a \/ b <= k
                 /\ IF a = 0 THEN IsRequestLine(t, b - 2) ELSE IsHeader(t, a + 1, b - 2)
  <2>1. b \in 1..Len(t) /\ r[b] \in LineStart
    <3>1. b \in 1..Len(t) /\ r[b] \in AfterLf
      BY EndsAre DEF EndsAt, ends
    <3>2. b \in 0..Len(t) /\ b # Len(t)
      BY <1>1, <3>1
    <3>3. r[b] # "done"
      BY <3>2, NeverBad
    <3> QED BY <3>1, <3>3 DEF AfterLf
  <2>2. CASE r[b] = "first_line_start"
    <3>1. IsRequestLine(t, b - 2) /\ \A k \in ends : b <= k
      BY <2>1, <2>2, RequestLineFound DEF ends
    <3> QED BY <2>1, <3>1
  <2>3. CASE r[b] = "header_line_start"
    <3> DEFINE before == {k \in ends : k < b}
    <3>1. \E f \in before : TRUE
      <4>1. b \in 0..Len(t) /\ r[b] \notin InLine
        BY <1>1, <2>1, <2>3 DEF InLine
      <4>2. PICK f \in 1..b : r[f] = "first_line_start"
        BY <4>1, LineWasRead
      <4>3. f \in 1..Len(t) /\ r[f] # "header_line_start"
        BY <1>1, <2>1, <4>2
      <4>4. f \in ends
        BY <4>2, <4>3, EndsAre DEF EndsAt, AfterLf, LineStart, ends
      <4>5. f # b
        BY <2>3, <4>2
      <4>6. f < b
        BY <2>1, <4>5
      <4> QED BY <4>4, <4>6
    <3>2. before \in SUBSET (1..Len(t)) /\ before # {}
      BY <1>2, <3>1
    <3> DEFINE a == Max(before)
    <3>3. a \in before /\ \A k \in before : a >= k
      <4> HIDE DEF before
      <4> QED BY <1>1, <3>2, MaxOf
    <3> HIDE DEF a
    <3>4. a \in ends /\ a < b /\ a # 0 /\ \A k \in ends : k <= a \/ b <= k
      <4>1. a \in 1..Len(t) /\ a \in ends /\ a < b
        BY <1>2, <3>3
      <4>2. ASSUME NEW k \in ends PROVE k <= a \/ b <= k
        <5>1. k \in 1..Len(t)
          BY <1>2
        <5> QED BY <2>1, <3>3, <4>1, <5>1
      <4> QED BY <4>1, <4>2
    <3>5. IsHeader(t, a + 1, b - 2)
      BY <2>3, <3>4, HeaderFound DEF ends
    <3> QED BY <3>4, <3>5
  <2> QED BY <2>1, <2>2, <2>3 DEF LineStart
<1>4. {Len(t) - 2, Len(t)} \subseteq ends
  BY LastEnds DEF ends
<1> QED BY <1>3, <1>4 DEF IsRequest, ends
-----------------------------------------------------------------------------
\* The states of the parser that reads the shortest request, and the rest of one
\* from a header on: p are the states between the characters of s.
LinePlaces ==
    <<"method_start", "method", "uri", "http_version_h", "http_version_t_1", "http_version_t_2",
      "http_version_p", "http_version_slash", "http_version_major_start", "http_version_major",
      "http_version_minor_start", "http_version_minor", "expecting_newline_1",
      "first_line_start", "expecting_newline_3", "done">>
HeaderPlaces ==
    <<"header_name", "space_before_header_value", "header_value", "expecting_newline_2",
      "header_line_start", "expecting_newline_3", "done">>
Leads(s, p, n) ==
    /\ s \in Seq(T) /\ Len(s) = n /\ p \in [1..(n + 1) -> Places] /\ p[n + 1] = "done"
    /\ \A m \in 1..n : Goto(p[m], s[m]) = p[m + 1]

\* The shortest request is read from the first state to the last.
LEMMA ShortRequestLeads == Leads(ShortRequest, LinePlaces, 15)
<1>1. ShortRequest \in Seq(T) /\ Len(ShortRequest) = 15
  BY DEF ShortRequest, T
<1>2. LinePlaces \in [1..16 -> Places] /\ LinePlaces[16] = "done"
  <2>1. \A m \in 1..16 : LinePlaces[m] \in InLine \cup {"first_line_start", "expecting_newline_3", "done"}
    BY DEF LinePlaces, InLine
  <2>2. LinePlaces = [m \in 1..16 |-> LinePlaces[m]] /\ LinePlaces[16] = "done"
    BY DEF LinePlaces
  <2>3. \A m \in 1..16 : LinePlaces[m] \in Places
    BY <2>1 DEF Places, States, LineStart
  <2> HIDE DEF LinePlaces
  <2> QED BY <2>2, <2>3
<1>3. ASSUME NEW m \in 1..15 PROVE Goto(LinePlaces[m], ShortRequest[m]) = LinePlaces[m + 1]
  <2>1. IsToken("P") /\ "SP" \notin Ctl
    BY DEF IsToken, Ctl, Tspecial
  <2>2. \/ m = 1 \/ m = 2 \/ m = 3 \/ m = 4 \/ m = 5 \/ m = 6 \/ m = 7 \/ m = 8
        \/ m = 9 \/ m = 10 \/ m = 11 \/ m = 12 \/ m = 13 \/ m = 14 \/ m = 15
    OBVIOUS
  <2>3. CASE m \in 1..4
    BY <2>1, <2>3, TokenKinds, Gotos DEF LinePlaces, ShortRequest, FromLine
  <2>4. CASE m \in 5..9
    BY <2>4, Gotos DEF LinePlaces, ShortRequest, FromLine
  <2>5. CASE m \in 10..13
    BY <2>5, Gotos DEF LinePlaces, ShortRequest, FromLine
  <2>6. CASE m \in 14..15
    BY <2>6, Gotos DEF LinePlaces, ShortRequest, FromHeader
  <2> QED BY <2>3, <2>4, <2>5, <2>6
<1>4. 15 + 1 = 16
  OBVIOUS
<1> QED BY <1>1, <1>2, <1>3, <1>4 DEF Leads

\* So is the rest of a header and of its request.
LEMMA ShortHeaderLeads == Leads(ShortHeader, HeaderPlaces, 6)
<1>1. ShortHeader \in Seq(T) /\ Len(ShortHeader) = 6
  BY DEF ShortHeader, T
<1>2. HeaderPlaces \in [1..7 -> Places] /\ HeaderPlaces[7] = "done"
  <2>1. \A m \in 1..7 : HeaderPlaces[m] \in Reading \cup {"header_line_start", "expecting_newline_3", "done"}
    BY DEF HeaderPlaces, Reading
  <2>2. HeaderPlaces = [m \in 1..7 |-> HeaderPlaces[m]] /\ HeaderPlaces[7] = "done"
    BY DEF HeaderPlaces
  <2>3. \A m \in 1..7 : HeaderPlaces[m] \in Places
    BY <2>1 DEF Places, States
  <2> HIDE DEF HeaderPlaces
  <2> QED BY <2>2, <2>3
<1>3. ASSUME NEW m \in 1..6 PROVE Goto(HeaderPlaces[m], ShortHeader[m]) = HeaderPlaces[m + 1]
  BY TokenKinds, Gotos DEF HeaderPlaces, ShortHeader, FromHeader
<1>4. 6 + 1 = 7
  OBVIOUS
<1> QED BY <1>1, <1>2, <1>3, <1>4 DEF Leads

\* A text that the parser reads to a place of p is accepted with what follows
\* that place in s.
LEMMA Completed ==
    ASSUME NEW t \in Seq(T), NEW r, Run(t, r), NEW s, NEW p, NEW l \in Nat, Leads(s, p, l),
           NEW n \in 1..l, Goto(r[Len(t)], s[n]) = p[n + 1]
    PROVE  \E x : /\ t \o SubSeq(s, n, l) \in Seq(T) /\ Accepts(t \o SubSeq(s, n, l), x)
                  /\ Len(t \o SubSeq(s, n, l)) \in Nat /\ Len(t) < Len(t \o SubSeq(s, n, l))
                  /\ \A k \in 0..Len(t) : x[k] = r[k]
                  /\ \A k \in 1..Len(t) : (t \o SubSeq(s, n, l))[k] = t[k]
<1> DEFINE e == SubSeq(s, n, l)
           u == t \o e
           d == Len(t)
           w == Len(u)
<1>1. e \in Seq(T) /\ Len(e) = l - n + 1 /\ \A i \in 1..(l - n + 1) : e[i] = s[n + i - 1]
  <2>1. \A i \in n..l : s[i] \in T
    <3>1. s \in Seq(T) /\ Len(s) = l
      BY DEF Leads
    <3>2. \A i \in n..l : i \in 1..l
      OBVIOUS
    <3> QED BY <3>1, <3>2, ElementOfSeq
  <2> QED BY <2>1, SubSeqProperties
<1> HIDE DEF e
<1>2. /\ u \in Seq(T) /\ w = d + (l - n + 1) /\ d \in Nat
      /\ \A i \in 1..w : u[i] = IF i <= d THEN t[i] ELSE e[i - d]
  <2>1. e \in Seq(T) /\ d \in Nat
    BY <1>1, LenProperties
  <2>2. /\ u \in Seq(T) /\ w = Len(t) + Len(e)
        /\ \A i \in 1..(Len(t) + Len(e)) : u[i] = IF i <= Len(t) THEN t[i] ELSE e[i - Len(t)]
    BY <2>1, ConcatProperties
  <2> HIDE DEF u, w
  <2> QED BY <1>1, <2>1, <2>2
<1> HIDE DEF u, w, d
<1>3. w \in Nat /\ d < w /\ w - d = l - n + 1
  BY <1>2
<1> DEFINE x == [k \in 0..w |-> IF k <= d THEN r[k] ELSE p[n + (k - d)]]
<1>4. r \in [0..d -> Places] /\ r[0] = "method_start" /\ \A k \in 1..d : r[k] = Goto(r[k - 1], t[k])
  BY DEF Run, d
<1>5. ASSUME NEW k \in 0..w PROVE x[k] \in Places
  <2>1. CASE k <= d
    <3>1. k \in 0..d
      BY <2>1
    <3> QED BY <1>4, <2>1, <3>1
  <2>2. CASE ~(k <= d)
    <3>1. n + (k - d) \in 1..(l + 1)
      BY <1>2, <1>3, <2>2
    <3>2. p[n + (k - d)] \in Places
      BY <3>1 DEF Leads
    <3> QED BY <2>2, <3>2
  <2> QED BY <2>1, <2>2
<1>6. ASSUME NEW k \in 1..w PROVE x[k] = Goto(x[k - 1], u[k])
  <2>1. k \in 0..w /\ k - 1 \in 0..w /\ k \in Nat
    BY <1>3
  <2>2. CASE k <= d
    <3>1. k \in 1..d /\ k - 1 <= d
      BY <1>2, <2>2
    <3>2. x[k] = r[k] /\ x[k - 1] = r[k - 1] /\ u[k] = t[k]
      BY <1>2, <2>1, <2>2, <3>1
    <3> QED BY <1>4, <3>1, <3>2
  <2>3. CASE k = d + 1
    <3>1. ~(k <= d) /\ k - 1 = d /\ k - 1 <= d /\ k - d = 1 /\ n + (k - d) = n + 1
      BY <1>2, <2>3
    <3>2. x[k] = p[n + 1] /\ x[k - 1] = r[d]
      BY <2>1, <3>1
    <3>3. 1 \in 1..(l - n + 1) /\ n + 1 - 1 = n
      OBVIOUS
    <3>4. u[k] = s[n]
      BY <1>1, <1>2, <3>1, <3>3
    <3> QED BY <3>2, <3>4 DEF d
  <2>4. CASE d + 1 < k
    <3>1. /\ ~(k <= d) /\ ~(k - 1 <= d) /\ k - d \in 1..(l - n + 1) /\ n + ((k - 1) - d) \in 1..l
          /\ n + ((k - 1) - d) + 1 = n + (k - d) /\ n + (k - d) - 1 = n + ((k - 1) - d)
      BY <1>2, <1>3, <2>1, <2>4
    <3>2. x[k] = p[n + (k - d)] /\ x[k - 1] = p[n + ((k - 1) - d)]
      BY <2>1, <3>1
    <3>3. u[k] = s[n + ((k - 1) - d)]
      BY <1>1, <1>2, <3>1
    <3>4. Goto(p[n + ((k - 1) - d)], s[n + ((k - 1) - d)]) = p[n + ((k - 1) - d) + 1]
      BY <3>1 DEF Leads
    <3> QED BY <3>1, <3>2, <3>3, <3>4
  <2> QED BY <1>2, <2>1, <2>2, <2>3, <2>4
<1>7. x[0] = "method_start" /\ x[w] = "done"
  <2>1. 0 \in 0..w /\ w \in 0..w /\ 0 <= d /\ ~(w <= d) /\ n + (w - d) = l + 1
    BY <1>2, <1>3
  <2>2. x[0] = r[0] /\ x[w] = p[l + 1]
    BY <2>1
  <2> QED BY <1>4, <2>2 DEF Leads
<1>8. \A k \in 0..d : x[k] = r[k]
  <2>1. \A k \in 0..d : k \in 0..w /\ k <= d
    BY <1>2, <1>3
  <2> QED BY <2>1
<1>9. x \in [0..w -> Places]
  BY <1>5
<1> HIDE DEF x
<1>10. Accepts(u, x)
  BY <1>6, <1>7, <1>9 DEF Accepts, Run, w
<1>11. \A k \in 1..d : u[k] = t[k]
  <2>1. \A k \in 1..d : k \in 1..w /\ k <= d
    BY <1>2, <1>3
  <2> QED BY <1>2, <2>1
<1> QED BY <1>2, <1>3, <1>8, <1>10, <1>11 DEF u, w, d, e

\* What follows can be chosen for every state in which more is expected.
Continued(q, s, p, l) == \E n \in 1..l : Goto(q, s[n]) = p[n + 1]

\* From a state of the request line, a part of the shortest request leads on.
LEMMA LineContinues ==
    ASSUME NEW q \in InLine
    PROVE  Continued(q, ShortRequest, LinePlaces, 15)
<1>1. \E n \in 1..13 : q = LinePlaces[n]
  <2>1. \A n \in 1..13 : n \in 1..13
    OBVIOUS
  <2>2. /\ LinePlaces[1] = "method_start" /\ LinePlaces[2] = "method" /\ LinePlaces[3] = "uri"
        /\ LinePlaces[4] = "http_version_h" /\ LinePlaces[5] = "http_version_t_1"
        /\ LinePlaces[6] = "http_version_t_2" /\ LinePlaces[7] = "http_version_p"
        /\ LinePlaces[8] = "http_version_slash" /\ LinePlaces[9] = "http_version_major_start"
        /\ LinePlaces[10] = "http_version_major" /\ LinePlaces[11] = "http_version_minor_start"
        /\ LinePlaces[12] = "http_version_minor" /\ LinePlaces[13] = "expecting_newline_1"
    BY DEF LinePlaces
  <2> QED BY <2>2 DEF InLine
<1>2. PICK n \in 1..13 : q = LinePlaces[n]
  BY <1>1
<1>3. n \in 1..15
  OBVIOUS
<1> QED BY <1>2, <1>3, ShortRequestLeads DEF Leads, Continued

\* From any later one, a part of the rest of a header does.
LEMMA HeaderContinues ==
    ASSUME NEW q \in Places, q \notin InLine \cup {"bad", "done"}
    PROVE  Continued(q, ShortHeader, HeaderPlaces, 6)
<1>1. CASE q = "header_lws"
  <2>1. Goto(q, ShortHeader[3]) = HeaderPlaces[3 + 1] /\ 3 \in 1..6
    BY <1>1, Gotos DEF FromHeader, ShortHeader, HeaderPlaces
  <2> QED BY <2>1 DEF Continued
<1>2. CASE q = "first_line_start"
  <2>1. Goto(q, ShortHeader[5]) = HeaderPlaces[5 + 1] /\ 5 \in 1..6
    BY <1>2, Gotos DEF FromHeader, ShortHeader, HeaderPlaces
  <2> QED BY <2>1 DEF Continued
<1>3. CASE q \notin {"header_lws", "first_line_start"}
  <2>1. \E n \in 1..6 : q = HeaderPlaces[n]
    <3>1. /\ HeaderPlaces[1] = "header_name" /\ HeaderPlaces[2] = "space_before_header_value"
          /\ HeaderPlaces[3] = "header_value" /\ HeaderPlaces[4] = "expecting_newline_2"
          /\ HeaderPlaces[5] = "header_line_start" /\ HeaderPlaces[6] = "expecting_newline_3"
      BY DEF HeaderPlaces
    <3> QED BY <1>3, <3>1 DEF Places, States, Reading, LineStart
  <2> QED BY <2>1, ShortHeaderLeads DEF Leads, Continued
<1> QED BY <1>1, <1>2, <1>3

\* What the parser has not refused is the beginning of a request.
LEMMA Begun ==
    ASSUME NEW t \in Seq(T), NEW r, Run(t, r), r[Len(t)] \notin {"bad", "done"}
    PROVE  IsBegun(t)
<1> DEFINE q == r[Len(t)]
<1>1. Len(t) \in Nat /\ q \in Places
  <2>1. Len(t) \in Nat
    BY LenProperties
  <2>2. Len(t) \in 0..Len(t)
    BY <2>1
  <2> QED BY <2>1, <2>2 DEF Run
<1>2. CASE q \in InLine
  <2>1. PICK n \in 1..15 : Goto(q, ShortRequest[n]) = LinePlaces[n + 1]
    BY <1>2, LineContinues DEF Continued
  <2> DEFINE s == SubSeq(ShortRequest, n, 15)
  <2>2. PICK x : /\ t \o s \in Seq(T) /\ Accepts(t \o s, x)
                 /\ Len(t \o s) \in Nat /\ Len(t) < Len(t \o s)
                 /\ \A k \in 0..Len(t) : x[k] = r[k]
                 /\ \A k \in 1..Len(t) : (t \o s)[k] = t[k]
    BY <2>1, ShortRequestLeads, Completed
  <2> HIDE DEF s
  <2>3. IsRequest(t \o s)
    BY <2>2, RequestFound
  <2>4. ~\E k \in 1..Len(t) : t[k] = "LF"
    <3> SUFFICES ASSUME NEW k \in 1..Len(t), t[k] = "LF" PROVE FALSE
        OBVIOUS
    <3>1. Len(t) \in 0..Len(t) /\ k \in 0..Len(t) /\ k - 1 \in Nat /\ k - 1 < Len(t \o s) /\ (k - 1) + 1 = k
      BY <1>1, <2>2
    <3>2. x[Len(t)] \in InLine
      BY <1>2, <2>2, <3>1
    <3>3. \A i \in 0..Len(t) : x[i] \in InLine
      <4>1. Len(t) <= Len(t \o s)
        BY <1>1, <2>2
      <4> QED BY <1>1, <2>2, <3>2, <4>1, LineBefore
    <3>4. Goes(t \o s, x, k - 1)
      BY <2>2, <3>1, AcceptGoes
    <3>5. x[k] \in AfterLf
      BY <2>2, <3>1, <3>4 DEF Goes, Reached
    <3>6. x[k] \in InLine
      BY <3>1, <3>3
    <3> QED BY <3>5, <3>6 DEF AfterLf, LineStart, InLine
  <2>5. s \in Completions(t)
    <3>1. Len(ShortRequest) = 15
      BY ShortRequestLeads DEF Leads
    <3> QED BY <2>4, <3>1 DEF Completions, s
  <2> QED BY <2>3, <2>5 DEF IsBegun
<1>3. CASE q \notin InLine
  <2>1. PICK n \in 1..6 : Goto(q, ShortHeader[n]) = HeaderPlaces[n + 1]
    BY <1>1, <1>3, HeaderContinues DEF Continued
  <2> DEFINE s == SubSeq(ShortHeader, n, 6)
  <2>2. PICK x : /\ t \o s \in Seq(T) /\ Accepts(t \o s, x)
                 /\ Len(t \o s) \in Nat /\ Len(t) < Len(t \o s)
                 /\ \A k \in 0..Len(t) : x[k] = r[k]
                 /\ \A k \in 1..Len(t) : (t \o s)[k] = t[k]
    BY <2>1, ShortHeaderLeads, Completed
  <2> HIDE DEF s
  <2>3. IsRequest(t \o s)
    BY <2>2, RequestFound
  <2>4. \E k \in 1..Len(t) : t[k] = "LF"
    <3>1. Len(t) \in 0..Len(t) /\ Len(t) \in 0..Len(t \o s)
      BY <1>1, <2>2
    <3>2. x[Len(t)] \notin InLine
      BY <1>3, <2>2, <3>1
    <3>3. PICK f \in 1..Len(t) : x[f] = "first_line_start"
      <4> DEFINE u == t \o s
      <4>1. u \in Seq(T) /\ Accepts(u, x) /\ Len(t) \in 0..Len(u)
        BY <2>2, <3>1
      <4> HIDE DEF u
      <4> QED BY <3>2, <4>1, LineWasRead
    <3>4. f - 1 \in Nat /\ f - 1 < Len(t \o s) /\ (f - 1) + 1 = f
      BY <1>1, <2>2
    <3>5. Goes(t \o s, x, f - 1)
      BY <2>2, <3>4, AcceptGoes
    <3>6. t[f] = "LF"
      BY <2>2, <3>3, <3>4, <3>5 DEF Goes, Reached
    <3> QED BY <3>6
  <2>5. s \in Completions(t)
    <3>1. Len(ShortHeader) = 6
      BY ShortHeaderLeads DEF Leads
    <3> QED BY <2>4, <3>1 DEF Completions, s
  <2> QED BY <2>3, <2>5 DEF IsBegun
<1> QED BY <1>2, <1>3

\* The parser is in the state that the text leads to.
Stands(q) ==
    /\ state = IF q = "first_line_start" THEN "header_line_start" ELSE q
    /\ q = "first_line_start" => req.headers = <<>>
    /\ q = "header_line_start" => req.headers # <<>>
Tracks == \A r : Run(text, r) => Stands(r[Len(text)])

\* One character more.
LEMMA StandsStep ==
    ASSUME Typed, Kept, NEW c \in Char, Consume(c), NEW q \in Places, Stands(q)
    PROVE  Stands(Goto(q, c))'
<1> DEFINE n == Goto(q, c)
<1>1. PICK s : s = state /\ s \notin {"bad", "done"}
  BY DEF Consume
<1>2. /\ s = IF q = "first_line_start" THEN "header_line_start" ELSE q
      /\ q = "first_line_start" => req.headers = <<>>
      /\ q = "header_line_start" => req.headers # <<>>
  BY <1>1 DEF Stands
<1>3. state' = To(c) /\ req' = Parsed(c) /\ LineMoves(c) /\ HeaderMoves(c)
  BY Moves DEF Consume
<1>4. state' = IF n = "first_line_start" THEN "header_line_start" ELSE n
  <2>1. CASE q \in InLine
    <3>1. s = q
      BY <1>2, <2>1 DEF InLine
    <3> QED BY <1>1, <1>3, <2>1, <3>1, Gotos DEF InLine, LineMoves, FromLine
  <2>2. CASE q \in LineStart
    <3>1. s = "header_line_start"
      BY <1>2, <2>2 DEF LineStart
    <3>2. c \in Lws => c # "CR" /\ ~IsToken(c)
      BY TokenKinds
    <3> QED BY <1>1, <1>2, <1>3, <2>2, <3>1, <3>2, Gotos DEF LineStart, HeaderMoves, FromHeader
  <2>3. CASE q \in Reading \cup {"expecting_newline_3"}
    <3>1. s = q
      BY <1>2, <2>3 DEF Reading
    <3> QED BY <1>1, <1>3, <2>3, <3>1, Gotos DEF Reading, HeaderMoves, FromHeader
  <2> QED BY <1>1, <1>2, <2>1, <2>2, <2>3 DEF Places, States, LineStart
<1>5. n \in LineStart => req' = req
  <2> SUFFICES ASSUME n \in LineStart PROVE req' = req
      OBVIOUS
  <2>1. To(c) = "header_line_start"
    BY <1>3, <1>4 DEF LineStart
  <2> HIDE DEF n
  <2> QED BY <1>3, <2>1 DEF Parsed
<1>6. n = "first_line_start" => req'.headers = <<>>
  <2> SUFFICES ASSUME n = "first_line_start" PROVE req'.headers = <<>>
      OBVIOUS
  <2>1. q = "expecting_newline_1"
    BY GotoReached DEF Reached
  <2>2. s \in InLine
    BY <1>2, <2>1 DEF InLine
  <2>3. req.headers = <<>>
    BY <1>1, <2>2 DEF Kept
  <2> QED BY <1>5, <2>3 DEF LineStart
<1>7. n = "header_line_start" => req'.headers # <<>>
  <2> SUFFICES ASSUME n = "header_line_start" PROVE req'.headers # <<>>
      OBVIOUS
  <2>1. q = "expecting_newline_2"
    BY GotoReached DEF Reached
  <2>2. state \in Reading /\ state # "bad"
    BY <1>1, <1>2, <2>1 DEF Reading
  <2>3. PICK hs \in Seq(Header), h \in Header : req.headers = Append(hs, h)
    BY <2>2 DEF Kept, HeadersKept, HeaderKept
  <2>4. Append(hs, h) # <<>>
    BY AppendProperties, EmptySeq
  <2> QED BY <1>5, <2>3, <2>4 DEF LineStart
<1> HIDE DEF n
<1>8. Stands(n)'
  BY <1>4, <1>6, <1>7 DEF Stands
<1> QED BY <1>8 DEF n

\* A character more leads the parser and the text to the same state.
LEMMA TracksStep ==
    ASSUME Typed, Kept, Tracks, NEW c \in Char, Consume(c)
    PROVE  Tracks'
<1>1. PICK t \in Seq(Char) : t = text /\ text' = Append(t, c)
  BY DEF Typed, Consume
<1>2. PICK u \in Seq(Char) : u = text' /\ Len(u) = Len(t) + 1 /\ u[Len(t) + 1] = c
                             /\ \A k \in 1..Len(t) : u[k] = t[k]
  BY <1>1, AppendProperties
<1>3. Len(t) \in Nat /\ Len(u) \in Nat /\ Len(t) <= Len(u) /\ Len(t) < Len(u) /\ Len(t) \in 0..Len(t)
  <2>1. Len(t) \in Nat
    BY LenProperties
  <2> QED BY <1>2, <2>1
<1>4. ASSUME NEW r, Run(u, r) PROVE Stands(r[Len(u)])'
  <2>1. Run(t, [k \in 0..Len(t) |-> r[k]])
    BY <1>2, <1>3, <1>4, RunCut
  <2>2. Stands([k \in 0..Len(t) |-> r[k]][Len(t)])
    BY <1>1, <2>1 DEF Tracks
  <2>3. PICK q : q = r[Len(t)] /\ Stands(q)
    BY <1>3, <2>2
  <2>4. r[Len(u)] = Goto(q, c) /\ q \in Places
    BY <1>2, <1>3, <1>4, <2>3, NextPlace
  <2>5. Stands(Goto(q, c))'
    BY <2>3, <2>4, StandsStep
  <2> QED BY <2>4, <2>5
<1> QED BY <1>2, <1>4 DEF Tracks

\* In every state of the parser it stands where the text leads.
LEMMA TracksAlways == Spec => []Tracks
<1>1. Init => Tracks
  <2> SUFFICES ASSUME Init PROVE Tracks
      OBVIOUS
  <2>1. Len(<<>>) = 0
    BY EmptySeq, Zenon
  <2>2. text = <<>> /\ Stands("method_start")
    BY DEF Init, Stands
  <2> QED BY <2>1, <2>2 DEF Tracks, Run
<1>2. Typed /\ Kept /\ Tracks /\ [Next]_vars => Tracks'
  <2>1. ASSUME Typed, Kept, Tracks, NEW c \in Char, Consume(c) PROVE Tracks'
    BY <2>1, TracksStep
  <2>2. ASSUME Tracks, UNCHANGED vars PROVE Tracks'
    BY <2>2 DEF vars, Tracks, Stands
  <2> QED BY <2>1, <2>2 DEF Next
<1> QED BY <1>1, <1>2, KeptAlways, PTL DEF Spec

\* Whatever is sent, in texts of any length: the parser's answer after each
\* character is the grammar's.
THEOREM AcceptsExactlyAlways == Spec => []AcceptsExactly
<1>1. ASSUME Typed, Tracks PROVE AcceptsExactly
  <2>1. PICK t \in Seq(T) : t = text
    <3>1. Char \subseteq T
      BY DEF T
    <3> QED BY <1>1, <3>1, SeqMonotonic DEF Typed
  <2>2. Len(t) \in Nat
    BY LenProperties
  <2>3. PICK r : Run(t, r)
    BY RunExists
  <2>4. state = IF r[Len(t)] = "first_line_start" THEN "header_line_start" ELSE r[Len(t)]
    BY <1>1, <2>1, <2>3 DEF Tracks, Stands
  <2>5. state = "done" <=> IsRequest(t)
    <3>1. ASSUME state = "done" PROVE IsRequest(t)
      <4>1. Accepts(t, r)
        BY <2>3, <2>4, <3>1 DEF Accepts
      <4> QED BY <4>1, RequestFound
    <3>2. ASSUME IsRequest(t) PROVE state = "done"
      BY <2>3, <2>4, <3>2, RequestRuns
    <3> QED BY <3>1, <3>2
  <2>6. ASSUME state \notin {"bad", "done"} PROVE IsBegun(t)
    <3>1. r[Len(t)] \notin {"bad", "done"}
      BY <2>4, <2>6
    <3> QED BY <2>3, <3>1, Begun
  <2>7. ASSUME IsBegun(t) PROVE state \notin {"bad", "done"}
    <3>1. PICK s \in Completions(t) : IsRequest(t \o s)
      BY <2>7 DEF IsBegun
    <3>2. s \in Seq(T) /\ Len(s) \in Nat /\ Len(s) > 0
      <4>1. PICK l \in {ShortHeader, ShortRequest} : \E n \in 1..Len(l) : s = SubSeq(l, n, Len(l))
        BY DEF Completions
      <4>2. l \in Seq(T)
        BY ShortHeaderLeads, ShortRequestLeads DEF Leads
      <4>3. PICK n \in 1..Len(l) : s = SubSeq(l, n, Len(l))
        BY <4>1
      <4>4. Len(l) \in Nat /\ \A i \in n..Len(l) : l[i] \in T
        BY <4>2, LenProperties, ElementOfSeq
      <4> QED BY <4>3, <4>4, SubSeqProperties
    <3> DEFINE u == t \o s
    <3>3. /\ u \in Seq(T) /\ Len(u) \in Nat /\ Len(t) <= Len(u) /\ Len(t) # Len(u)
          /\ \A k \in 1..Len(t) : u[k] = t[k]
      BY <2>2, <3>2, ConcatProperties
    <3> HIDE DEF u
    <3>4. PICK x : Run(u, x)
      BY <3>3, RunExists
    <3>5. Accepts(u, x)
      BY <3>1, <3>3, <3>4, RequestRuns DEF Accepts, u
    <3>6. Len(t) \in 0..Len(u) /\ Len(t) \in 0..Len(t)
      BY <2>2, <3>3
    <3>7. x[Len(t)] \notin {"bad", "done"}
      BY <3>3, <3>5, <3>6, NeverBad
    <3>8. Run(t, [k \in 0..Len(t) |-> x[k]])
      BY <2>2, <3>3, <3>4, RunCut
    <3>9. Stands([k \in 0..Len(t) |-> x[k]][Len(t)])
      BY <1>1, <2>1, <3>8 DEF Tracks
    <3> QED BY <3>6, <3>7, <3>9 DEF Stands
  <2> QED BY <2>1, <2>5, <2>6, <2>7 DEF AcceptsExactly
<1>2. Typed /\ Tracks => AcceptsExactly
  BY <1>1
<1> QED BY <1>2, KeptAlways, TracksAlways, PTL
=============================================================================
