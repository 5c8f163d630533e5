--------------------------- MODULE MCHttpExchange ---------------------------
(* Requests with every combination of separators in parameters, of header   *)
(* spellings, and contents that have a NUL, look like headers or announce a *)
(* length.  A head of a POST takes 21 tokens of the room, or 27.            *)
EXTENDS HttpExchange, TLC

Paths == {<<"/upload">>, <<"/nowhere">>}
OnePath == {<<"/upload">>}
Contents == {<<>>, <<"x">>, <<"x", "NUL", "y">>, <<"x", "CRLF", "CRLF", "y">>,
             <<"Content-Length", ":", " ", "1", "CRLF">>,
             <<"Content-length", ":", " ", "1", "CRLF", "x">>}
Params == SUBSET {<<<<"k">>, <<"v">>>>, <<<<"k", "=">>, <<"&", " ", "v", "%">>>>, <<<<"l">>, <<>>>>}
Host == <<<<"Host">>, <<"a", ":", "b">>>>
Length(key, content) == <<<<key>>, <<ToString(Len(content))>>>>

Gets ==
  {[method |-> "GET", path |-> path, params |-> p, version |-> "1.1", content |-> <<>>, headers |-> h] :
     path \in Paths, p \in Params, h \in {{}, {Host}}}

Posts ==
  {[method |-> "POST", path |-> path, params |-> p, version |-> "1.0", content |-> c,
    headers |-> {Host, Length(key, c)}] :
     path \in Paths, p \in {{}, {<<<<"k", "=">>, <<"&", " ">>>>}}, c \in Contents,
     key \in {"Content-Length", "Content-length", "content-length"}}

Decimal == [n \in 0 .. 9 |-> ToString(n)]

AllRequests == Gets \cup Posts
SomeAnswers == {<<>>, <<"a">>, <<"a", "CRLF", "CRLF", "b">>}
=============================================================================
