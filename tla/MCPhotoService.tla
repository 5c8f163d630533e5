--------------------------- MODULE MCPhotoService ---------------------------
(* Two connections, with the pairs of requests that can get into each        *)
(* other's way; the order of a pair makes no difference.  Nothing tells the  *)
(* workers apart, so the one that gets s1 may be called w1.                  *)
EXTENDS PhotoService, TLC

CONSTANTS s1, s2, w1, w2
TwoSessions == {s1, s2}
TwoWorkers == {w1, w2}
SameOrOther == [s \in TwoSessions |-> IF s = s1 THEN {w1} ELSE {w1, w2}]
Pair(k, l) == [s \in TwoSessions |-> IF s = s1 THEN k ELSE l]
Pairs ==
  {Pair("upload", k) : k \in {"upload", "rendition"}}
    \cup {Pair("rendition", k) : k \in {"done", "failed"}}
    \cup {Pair("junk", "original"), Pair("bad", "junk"), Pair("silent", "garbled")}
=============================================================================
