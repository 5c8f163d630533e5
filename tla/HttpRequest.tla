----------------------------- MODULE HttpRequest -----------------------------
(***************************************************************************)
(* Requests as http/http_request.cpp packs and parses them, with the       *)
(* helpers of http/http_util.cpp.                                          *)
(*                                                                         *)
(* A text is a sequence of tokens: a separator the code looks for, a line  *)
(* end (the two characters of it), an escape (%3D and the like), the NUL   *)
(* character, a name or a piece of data without any of these.  Lengths count tokens: the code   *)
(* compares lengths with each other only, MIN_HTTP_LEN apart, which no     *)
(* text with a path falls short of.                                        *)
(*                                                                         *)
(* A request is a record: method, path, version, content, and the sets     *)
(* params and headers of <<key, value>> pairs.                             *)
(***************************************************************************)
EXTENDS Naturals, Sequences, FiniteSets, SequencesExt

\* Characters of a value that a parser would take for a separator, and their escapes.
Escapes == {<<" ", "%20">>, <<"%", "%25">>, <<"&", "%26">>, <<":", "%3A">>,
            <<"=", "%3D">>, <<"?", "%3F">>, <<"CRLF", "%0D%0A">>}

Separators == {e[1] : e \in Escapes}

\* str2escape of the base library.
Escape(text) ==
  [i \in DOMAIN text |->
     IF \E e \in Escapes : e[1] = text[i]
     THEN (CHOOSE e \in Escapes : e[1] = text[i])[2] ELSE text[i]]

\* escape2llstr: what follows a % that does not begin an escape is dropped.
Unescape(text) ==
  LET broken == SelectInSeq(text, LAMBDA t : t = "%")
      kept == IF broken = 0 THEN text ELSE SubSeq(text, 1, broken - 1)
  IN  [i \in DOMAIN kept |->
         IF \E e \in Escapes : e[2] = kept[i]
         THEN (CHOOSE e \in Escapes : e[2] = kept[i])[1] ELSE kept[i]]

-----------------------------------------------------------------------------
(* pack_get and pack_post *)

Parameters(params) ==
  LET p == SetToSeq(params)
  IN  FlattenSeq([i \in DOMAIN p |->
        <<IF i = 1 THEN "?" ELSE "&">> \o Escape(p[i][1]) \o <<"=">> \o Escape(p[i][2])])

FirstLine(req) ==
  <<req.method, " ">> \o req.path \o Parameters(req.params)
    \o <<" ", "HTTP", "/", req.version, "CRLF">>

Header(key, value) == key \o <<":", " ">> \o value \o <<"CRLF">>

HeaderLines(headers) ==
  LET h == SetToSeq(headers)
  IN  FlattenSeq([i \in DOMAIN h |-> Header(h[i][1], h[i][2])])

\* Headers are escaped, which parse does not undo.
PackGet(req) ==
  FirstLine(req) \o HeaderLines({<<Escape(h[1]), Escape(h[2])>> : h \in req.headers})
    \o <<"CRLF">>

HeadPost(req) == FirstLine(req) \o HeaderLines(req.headers) \o <<"CRLF">>

\* What snprintf with "%s" leaves of a text in a buffer: all of it, what comes before its
\* first NUL, or what the buffer has room for with the NUL that ends it.
Printed(text, room) ==
  LET ends == {n \in 0 .. Len(text) : n = Len(text) \/ text[n + 1] = "NUL" \/ n + 1 = room}
  IN  SubSeq(text, 1, CHOOSE n \in ends : \A m \in ends : n <= m)

\* What pack_post leaves in a buffer of some room: the content is printed like a string.
PackPost(req, room) == HeadPost(req) \o Printed(req.content, room - Len(HeadPost(req)))

\* What any other HTTP client sends.
PackWhole(req) == HeadPost(req) \o req.content

-----------------------------------------------------------------------------
(* parse, parse_get and parse_post *)

\* memchr and strstr: the first place of a token, 0 if there is none.
Find(text, token, from) == SelectInSubSeq(text, from, Len(text), LAMBDA t : t = token)
Between(text, i, j) == SubSeq(text, i + 1, j - 1)

\* The first of the two line ends that close the headers.
HeaderEnd(text) ==
  LET ends == {i \in 1 .. Len(text) - 1 : text[i] = "CRLF" /\ text[i + 1] = "CRLF"}
  IN  IF ends = {} THEN 0 ELSE CHOOSE i \in ends : \A j \in ends : i <= j

\* Where the pieces of a text end: at the first end with a middle since the piece began,
\* so that a part without a middle is taken into the next piece.
Ends(text, middle, end) ==
  {r \in DOMAIN text :
     /\ text[r] = end
     /\ \E m \in 1 .. r - 1 : text[m] = middle /\ \A i \in m .. r - 1 : text[i] # end}

\* The pieces, each as the place before it, its middle and its end.
Pieces(text, middle, end) ==
  LET ends == Ends(text, middle, end)
      Adjacent(b, r) == b < r /\ \A e \in ends : e <= b \/ r <= e
  IN  {<<p[1], Find(text, middle, p[1] + 1), p[2]>> :
         p \in {q \in ({0} \cup ends) \X ends : Adjacent(q[1], q[2])}}

\* The end of the text ends the last parameter, as an "&" would.
ParseParameter(text) ==
  LET params == Append(text, "&")
  IN  {<<Unescape(Between(params, p[1], p[2])), Unescape(Between(params, p[2], p[3]))>> :
         p \in Pieces(params, "=", "&")}

\* Mutant: the space after the colon is taken into the value.
ParseHeadersSpace(text) ==
  {<<Between(text, p[1], p[2]), Between(text, p[2], p[3])>> : p \in Pieces(text, ":", "CRLF")}

\* Whatever follows the colon is taken for the space.  An empty rest of the line throws
\* (Throws below).
ParseHeaders(text) ==
  {<<Between(text, p[1], p[2]), Between(text, p[2] + 1, p[3])>> : p \in Pieces(text, ":", "CRLF")}

Failed == [method |-> "failed"]

\* string(p, -1) of parse_headers, caught in parse.
Throws(text) == \E p \in Pieces(text, ":", "CRLF") : p[3] = p[2] + 1

\* parse_get: what both methods have.
ParseGet(text) ==
  LET line == Find(text, "CRLF", 1)
      space == Find(text, " ", 1)
      url == Find(text, " ", space + 1)
      qm == Find(text, "?", space + 1)
      path == IF qm \in 1 .. url - 1 THEN qm ELSE url
      slash == Find(text, "/", url + 1)
      end == HeaderEnd(text)
      headers == SubSeq(text, line + 1, end + 1)
  IN  IF /\ 0 < space /\ space < url /\ url < slash /\ slash < line /\ end > 0
         /\ Between(text, url, slash) = <<"HTTP">>
         /\ Between(text, slash, line) \in {<<"1.0">>, <<"1.1">>}
         /\ ~Throws(headers)
      THEN [method |-> text[1], path |-> Between(text, space, path),
            params |-> ParseParameter(Between(text, path, url)),
            version |-> text[slash + 1],
            headers |-> ParseHeaders(headers), content |-> <<>>]
      ELSE Failed

\* parse_post: the content is all that follows the headers.
ParsePost(text) ==
  IF ParseGet(text) = Failed THEN Failed
  ELSE [ParseGet(text) EXCEPT !.content = SubSeq(text, HeaderEnd(text) + 2, Len(text))]

Parse(text) ==
  CASE IsPrefix(<<"GET", " ">>, text) -> ParseGet(text)
    [] IsPrefix(<<"POST", " ">>, text) -> ParsePost(text)
    [] OTHER -> Failed
=============================================================================
