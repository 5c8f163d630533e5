---------------------------- MODULE HttpResponse ----------------------------
(***************************************************************************)
(* Responses as http/http_response.cpp packs and parses them, in the       *)
(* tokens of HttpRequest.  Compression is zlib's: a zipped content is as   *)
(* many "z" as it has bytes, and what it stands for is passed along.       *)
(***************************************************************************)
EXTENDS HttpRequest

CONSTANTS
  MaxLength,        \* the greatest length that is announced
  Numeral           \* how the lengths up to it are written, each as one token

\* Different lengths are written differently, and never like a separator.
NumeralAssumption ==
  /\ MaxLength \in Nat
  /\ Numeral \in [0 .. MaxLength -> STRING \ Separators]
  /\ \A m, n \in 0 .. MaxLength : Numeral[m] = Numeral[n] => m = n

ASSUME NumeralAssumption

Digits == {Numeral[n] : n \in 0 .. MaxLength}
Number(digit) == CHOOSE n \in 0 .. MaxLength : Numeral[n] = digit

\* What zlib makes of a content; a stream is whole when its end is there.
Zipped(size) == [i \in 1 .. size |-> IF i = size THEN "end" ELSE "z"]

\* The 64 bytes that the buffer for the zipped content has more than the content.
Slack == 1

\* gzip: <<>> if deflate fails.  Running out of room is no failure: deflate returns Z_OK,
\* and so does gzip, with as much of the stream as fits.
GzipInto(room, size) == SubSeq(Zipped(size), 1, IF size <= room THEN size ELSE room)

\* un_gzip: a buffer without room for the content and a stream without its end look alike.
UnGzip(room, zipped, original) ==
  IF "end" \in ToSet(zipped) /\ Len(original) <= room THEN "Z_OK" ELSE "Z_BUF_ERROR"

\* Status line and headers; the fixed ones are cut down to one.
Head200(length, encoding) ==
  <<"HTTP", "/", "1.1", " ", "200", " ", "OK", "CRLF">>
    \o encoding \o Header(<<"Content-Length">>, <<Numeral[length]>>)
    \o Header(<<"Connection">>, <<"Close">>) \o <<"CRLF">>

Gzip == Header(<<"Content-Encoding">>, <<"gzip", ",", " ", "deflate">>)

PackPlain(content) == Head200(Len(content), <<>>) \o content

\* pack(string&, ..., b_gzip), with the size zlib needs for the content, 0 if it fails or
\* is not asked.
Pack(content, size) ==
  LET zipped == GzipInto(Len(content) + Slack, size)
  IN  IF content = <<>> \/ zipped = <<>> THEN PackPlain(content)
      ELSE Head200(Len(zipped), Gzip) \o zipped

\* pack(char*, int&, ...): the zipped content is copied and the size of the other counted,
\* so that it is cut off or followed by what was in the buffer.
PackBuffer(content, size) ==
  LET zipped == GzipInto(Len(content) + Slack, size)
  IN  IF content = <<>> \/ zipped = <<>> THEN PackPlain(content)
      ELSE Head200(Len(zipped), Gzip)
             \o SubSeq(zipped \o [i \in 1 .. Len(content) |-> "left"], 1, Len(content))

Unread == [is |-> "unread"]
Failure == [is |-> "failed"]
Endless == [is |-> "endless"]
Read(code, content) == [is |-> "read", code |-> code, content |-> content]

\* The content is unzipped into three times its size.  If that is not enough, the loop
\* that enlarges the buffer hides the result it tests and never ends.  The content is
\* read after delete: as it was, or overwritten at its beginning.
Inflate(code, zipped, original) ==
  IF UnGzip(3 * Len(zipped), zipped, original) # "Z_OK" THEN {Endless}
  ELSE {Read(code, original), Read(code, <<"freed">> \o Tail(original))}

\* What parse can make of a text.
ParseResponse(text, original) ==
  LET line == Find(text, "CRLF", 1)
      slash == Find(text, "/", 1)
      version == Find(text, " ", 1)
      code == Find(text, " ", version + 1)
      end == HeaderEnd(text)
      headers == ParseHeaders(SubSeq(text, line + 1, end + 1))
      Value(key) == {h[2] : h \in {g \in headers : g[1] = <<key>>}}
      content == SubSeq(text, end + 2, Len(text))
  IN  IF \/ end = 0 \/ ~(0 < slash /\ slash < version /\ version < code /\ code < line)
         \/ Between(text, 0, slash) # <<"HTTP">>
         \/ Between(text, slash, version) \notin {<<"1.0">>, <<"1.1">>}
         \/ \E v \in Value("Content-Length") :
              v = <<>> \/ v[1] \notin Digits \/ Number(v[1]) # Len(content)
      THEN {Failure}
      ELSE IF Value("Content-Encoding") = {} THEN {Read(text[version + 1], content)}
      ELSE IF (\E v \in Value("Content-Encoding") : {"gzip", "deflate"} \cap ToSet(v) # {}) /\ content # <<>>
      THEN Inflate(text[version + 1], content, original)
      ELSE {Failure}
=============================================================================
