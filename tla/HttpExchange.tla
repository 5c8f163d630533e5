---------------------------- MODULE HttpExchange ----------------------------
(***************************************************************************)
(* One request and its answer over a TCP connection: a client packs a      *)
(* request with http_request, TCP delivers it in pieces, tcp_netio decides *)
(* after each read whether it is complete (recv_finished), the dispatcher  *)
(* parses it and looks for its handler, and the client parses the answer.  *)
(*                                                                         *)
(* PhotoService has what the handlers do, and the reads after the request  *)
(* was found complete.  A token arrives as a whole: a cut one matches      *)
(* nothing the code looks for, like one that has not arrived.              *)
(***************************************************************************)
EXTENDS HttpResponse, Integers

CONSTANTS
  Requests,         \* requests that clients make
  Answers,          \* contents of the answers
  ZippedSizes,      \* what zlib makes of a content, 0 if it fails or is not asked
  Room,             \* size of the buffer that a client of this repository packs into
  Registered        \* _dispatcher: the paths of the registered handlers

\* What a client may ask for: a path without separators, parameters and headers of any
\* text, of which only a POST leaves the headers as they are.  No data token is an escape,
\* and only the content has a NUL.
WellTyped(r) ==
  LET Printable == STRING \ {"NUL"}
      Name == Seq(Printable \ {":", "CRLF"})
      Value == Seq(Printable \ {"CRLF"})
      Data == Seq(Printable \ {e[2] : e \in Escapes})
  IN  /\ r \in [method : {"GET", "POST"}, path : Seq(Printable \ Separators),
                 params : SUBSET (Data \X Data), version : {"1.0", "1.1"},
                 headers : SUBSET (Seq(Printable) \X Seq(Printable)), content : Seq(STRING)]
      /\ IsFiniteSet(r.params) /\ IsFiniteSet(r.headers)
      /\ r.method = "GET" => r.content = <<>>
      /\ r.method = "POST" => r.headers \subseteq Name \X Value
      /\ Len(r.content) <= MaxLength

\* The head of a POST fits its buffer: pack_post writes behind the buffer if it does not.
ExchangeAssumption ==
  /\ Room \in Nat
  /\ \A r \in Requests : WellTyped(r) /\ (r.method = "POST" => Len(HeadPost(r)) < Room)
  /\ \A a \in Answers : a \in Seq(STRING) /\ Len(a) + Slack <= MaxLength
  /\ ZippedSizes \subseteq Nat

ASSUME ExchangeAssumption

VARIABLES
  request,          \* what the client asks for
  sent,             \* the text it sends
  arrived,          \* _request, as the number of tokens received
  contentLength,    \* _content_length, -1 while it is not known
  headerLength,     \* _header_length
  outcome,          \* "receiving", "closed" by handle_recv, "handled"
  handled,          \* the request the handler was given
  answer,           \* content and packed text of the answer
  read              \* what the client made of the answer

exchangeVars ==
  <<request, sent, arrived, contentLength, headerLength, outcome, handled, answer, read>>

\* A client packs with http_request, or is another one.
Sendings(r) == IF r.method = "POST" THEN {PackPost(r, Room), PackWhole(r)} ELSE {PackGet(r)}

NoAnswer == [content |-> <<>>, size |-> 0, text |-> <<>>]

ExchangeTypeOK ==
  /\ request \in Requests /\ sent \in Sendings(request)
  /\ arrived \in 0 .. Len(sent)
  /\ contentLength \in -1 .. MaxLength /\ headerLength \in 0 .. Len(sent)
  /\ outcome \in {"receiving", "closed", "handled"}
  /\ (handled # Failed) = (outcome = "handled")

ExchangeInit ==
  /\ request \in Requests /\ sent \in Sendings(request)
  /\ arrived = 0 /\ contentLength = -1 /\ headerLength = 0
  /\ outcome = "receiving" /\ handled = Failed
  /\ answer = NoAnswer /\ read = Unread

-----------------------------------------------------------------------------
(* recv_finished *)

\* extract_between: the text from key ": " to the end of the line, wherever it is.
Extract(data, key) ==
  LET starts == {i \in 1 .. Len(data) - 2 :
                   data[i] = key /\ data[i + 1] = ":" /\ data[i + 2] = " "}
      start == CHOOSE i \in starts : \A j \in starts : i <= j
      limit == Find(data, "CRLF", start + 3)
  IN  IF starts = {} \/ limit = 0 THEN {} ELSE {Between(data, start + 2, limit)}

Spellings == {"Content-Length", "Content-length"}

\* Mutant: one spelling only.
AnnouncedOnce(data) == Extract(data, "Content-Length")

\* The first spelling is looked for in all that has arrived before the second one is.
Announced(data) ==
  IF Extract(data, "Content-length") # {} THEN Extract(data, "Content-length")
  ELSE Extract(data, "Content-Length")

IsDigit(value) == Len(value) = 1 /\ value[1] \in Digits

\* Mutant: the two line ends are not counted.
LearnShort(data) ==
  IF contentLength < 0 /\ HeaderEnd(data) > 0
  THEN /\ headerLength' = HeaderEnd(data) - 1
       /\ contentLength' = IF \E v \in Announced(data) : IsDigit(v)
                           THEN Number((CHOOSE v \in Announced(data) : TRUE)[1]) ELSE -1
  ELSE UNCHANGED <<headerLength, contentLength>>

\* post_finished, up to its last test: the length is looked for until it is known.
Learn(data) ==
  IF contentLength < 0 /\ HeaderEnd(data) > 0
  THEN /\ headerLength' = HeaderEnd(data) + 1
       /\ contentLength' = IF \E v \in Announced(data) : IsDigit(v)
                           THEN Number((CHOOSE v \in Announced(data) : TRUE)[1]) ELSE -1
  ELSE UNCHANGED <<headerLength, contentLength>>

\* get_finished looks for the end of the headers only.
Finished(data) ==
  IF data[1] = "POST" THEN contentLength' >= 0 /\ contentLength' + headerLength' <= Len(data)
  ELSE HeaderEnd(data) > 0

\* proto_dispatcher::process.
Dispatch(data) ==
  LET req == Parse(data)
  IN  IF req # Failed /\ req.path \in Registered
      THEN outcome' = "handled" /\ handled' = req
      ELSE outcome' = "closed" /\ UNCHANGED handled

\* handle_recv, which takes all that has arrived.
HandleRecv(n) ==
  LET data == SubSeq(sent, 1, n) IN
  /\ outcome = "receiving" /\ n > arrived
  /\ arrived' = n
  /\ IF data[1] = "POST" THEN Learn(data) ELSE UNCHANGED <<headerLength, contentLength>>
  /\ IF Finished(data) THEN Dispatch(data) ELSE UNCHANGED <<outcome, handled>>
  /\ UNCHANGED <<request, sent, answer, read>>

-----------------------------------------------------------------------------
\* The handler packs an answer, with either function, zipped to some size or not.
Respond(content, size) ==
  /\ outcome = "handled" /\ answer = NoAnswer
  /\ \E text \in {Pack(content, size), PackBuffer(content, size)} :
       answer' = [content |-> content, size |-> size, text |-> text]
  /\ UNCHANGED <<request, sent, arrived, contentLength, headerLength, outcome, handled, read>>

\* The client reads to the end of the stream.
ReadAnswer ==
  /\ answer # NoAnswer /\ read = Unread
  /\ read' \in ParseResponse(answer.text, answer.content)
  /\ UNCHANGED <<request, sent, arrived, contentLength, headerLength, outcome, handled, answer>>

ExchangeNext ==
  \/ \E n \in 1 .. Len(sent) : HandleRecv(n)
  \/ \E content \in Answers, size \in ZippedSizes : Respond(content, size)
  \/ ReadAnswer

ExchangeSpec == ExchangeInit /\ [][ExchangeNext]_exchangeVars

-----------------------------------------------------------------------------
\* The headers announce the length of the content, in a spelling the code knows, and
\* nothing else in either spelling.
WellFormed ==
  request.method = "POST" =>
    LET length == <<Numeral[Len(request.content)]>>
        Says(h, key) == Extract(Header(h[1], h[2]), key)
    IN  /\ \E key \in Spellings : <<<<key>>, length>> \in request.headers
        /\ \A key \in Spellings, h \in request.headers : Says(h, key) \subseteq {length}

\* The content itself announces a length in the spelling that is looked for first.
Misleading ==
  /\ Extract(request.content, "Content-length") # {}
  /\ \A h \in request.headers : h[1] # <<"Content-length">>

\* pack_post left out a part of the content, whose whole length the headers announce.
Cut == request.method = "POST" /\ sent # PackWhole(request)

\* A request is handled as the client made it, with all of its content and nothing
\* else, however TCP cuts it and whatever characters its parameters have, and never
\* with the part of the content that pack_post left of it; and not rejected for anything
\* but its path.  Headers of a GET come back escaped.
HandledAsSent ==
  WellFormed /\ ~Misleading =>
    /\ ExchangeTypeOK
    /\ outcome = "handled" =>
         /\ handled.path = request.path /\ handled.params = request.params
         /\ handled.version = request.version
         /\ request.method = "POST" =>
              handled.headers = request.headers /\ handled.content = request.content
    /\ outcome = "closed" => request.path \notin Registered

\* A request that has arrived is found complete: no read event follows that could
\* find it later.  The one that is not is the one that pack_post cut: the service waits
\* for a rest that nobody sends.
FoundComplete ==
  WellFormed /\ ~Misleading /\ arrived = Len(sent) => (outcome = "receiving" <=> Cut)

\* What the service packs is read back, by length and by content, unless zlib is used.
\* A zipped answer of pack(string) passes the check of its length.
AnswerReadBack ==
  read # Unread =>
    /\ answer.size = 0 \/ answer.content = <<>> => read = Read("200", answer.content)
    /\ answer.text = Pack(answer.content, answer.size) => read # Failure
=============================================================================
