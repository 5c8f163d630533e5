------------------------- MODULE PhotoServiceProofs -------------------------
(***************************************************************************)
(* What the peers of the photo service may rely on, for any number of      *)
(* connections, workers, failures and reads: an acknowledged upload is     *)
(* stored, the parts received are those of one answer, an empty picture    *)
(* and a report of success mean what they say, and few uploads store a     *)
(* copy of what is there.                                                  *)
(***************************************************************************)
EXTENDS PhotoService, SequenceTheorems, FiniteSetTheorems, TLAPS

Ack == <<Json("0"), 2>>
Acks(w) == Ack \in {w[i] : i \in 1 .. Len(w)}

AnswerType ==
  /\ resp \in [Sessions -> Responses]
  /\ sent \in [Sessions -> Nat] /\ data \in [Sessions -> Nat]
  /\ wire \in [Sessions -> Seq(Responses \X Nat)]

StoreInv ==
  /\ copies \in Nat
  /\ db \in [{"original", "rendition"} -> {"none", "fresh", "visible"}]
  /\ db["original"] # "none" => copies > 0

\* An acknowledgement on its way or blocked in _response is one of a stored picture.
AckInv ==
  \A s \in Sessions :
    kind[s] = "upload" /\ (Acks(wire[s]) \/ resp[s] = Json("0")) => copies > 0

KeptInv == AnswerType /\ StoreInv /\ AckInv

-----------------------------------------------------------------------------
\* The answers of the handlers, and which of them acknowledges.
LEMMA Answers ==
  /\ {NoResponse, Picture, Empty, Json("0"), Json("1")} \subseteq Responses
  /\ \A n \in Nat : Waited(n) \in Responses
  /\ Json("0") \notin {NoResponse, Picture, Empty, Json("1")}
  /\ \A n \in Nat : Waited(n) # Json("0")
<1>1. {NoResponse, Picture, Empty, Json("0"), Json("1")} \subseteq Responses
  BY DEF NoResponse, Picture, Empty, Json, Responses
<1>2. \A n \in Nat : Waited(n) \in Responses
  BY DEF Waited, Responses
<1>3. /\ Json("0").is = "0" /\ Json("1").is = "1" /\ NoResponse.is = "none"
      /\ Picture.is = "picture" /\ Empty.is = "picture"
  BY DEF NoResponse, Picture, Empty, Json
<1>4. \A n \in Nat : Waited(n).is = "waited"
  BY DEF Waited
<1>5. Json("0") \notin {NoResponse, Picture, Empty, Json("1")}
  BY <1>3
<1>6. QED
  BY <1>1, <1>2, <1>3, <1>4, <1>5

\* What a send adds to the wire are parts of the response it was given.
LEMMA WireAppend ==
  ASSUME NEW r \in Responses, NEW w \in Seq(Responses \X Nat),
         NEW g \in Seq(Responses \X Nat), \A i \in 1 .. Len(g) : g[i][1] = r
  PROVE  /\ w \o g \in Seq(Responses \X Nat)
         /\ Acks(w \o g) => Acks(w) \/ r = Json("0")
<1> DEFINE v == w \o g
<1>1. /\ v \in Seq(Responses \X Nat) /\ Len(v) = Len(w) + Len(g)
      /\ \A i \in 1 .. Len(v) : v[i] = IF i <= Len(w) THEN w[i] ELSE g[i - Len(w)]
      /\ Len(w) \in Nat /\ Len(g) \in Nat
  BY ConcatProperties, LenProperties
<1> HIDE DEF v
<1>2. ASSUME Acks(v) PROVE Acks(w) \/ r = Json("0")
  <2>1. PICK i \in 1 .. Len(v) : v[i] = Ack
    BY <1>2 DEF Acks
  <2>2. CASE i <= Len(w)
    <3>1. w[i] = Ack /\ i \in 1 .. Len(w)
      BY <1>1, <2>1, <2>2
    <3>2. QED
      BY <3>1 DEF Acks
  <2>3. CASE i > Len(w)
    <3>1. i \in Nat /\ i <= Len(w) + Len(g)
      BY <1>1
    <3>2. i - Len(w) \in 1 .. Len(g)
      BY <1>1, <2>3, <3>1
    <3>3. g[i - Len(w)] = Ack
      <4>1. v[i] = g[i - Len(w)]
        BY <1>1, <2>3, <3>1
      <4>2. QED
        BY <2>1, <4>1
    <3>4. Ack[1] = r
      BY <3>2, <3>3
    <3>5. QED
      BY <3>4 DEF Ack
  <2>4. QED
    BY <1>1, <2>1, <2>2, <2>3
<1>3. QED
  BY <1>1, <1>2 DEF v

\* A send keeps the types, changes no other connection, and acknowledges only if the
\* response does.
LEMMA SendKeeps ==
  ASSUME AnswerType, NEW s \in Sessions, NEW r \in Responses, HandleSend(s, r)
  PROVE  /\ resp' \in [Sessions -> Responses] /\ sent' \in [Sessions -> Nat]
         /\ wire' \in [Sessions -> Seq(Responses \X Nat)]
         /\ \A t \in Sessions :
              /\ Acks(wire'[t]) => Acks(wire[t]) \/ (t = s /\ r = Json("0"))
              /\ resp'[t] = Json("0") => resp[t] = Json("0") \/ (t = s /\ r = Json("0"))
<1> DEFINE last == IF sent[s] < Parts(r) THEN Parts(r) ELSE sent[s]
<1>1. sent[s] \in Nat /\ Parts(r) \in Nat /\ wire[s] \in Seq(Responses \X Nat)
  BY DEF AnswerType, Parts, Responses
<1>2. PICK n \in sent[s] .. last :
        /\ wire' = [wire EXCEPT ![s] = @ \o [i \in 1 .. n - sent[s] |-> <<r, sent[s] + i>>]]
        /\ sent' = [sent EXCEPT ![s] = n]
        /\ \/ n < Parts(r) /\ Goto(s, "idle") /\ resp' = [resp EXCEPT ![s] = r]
           \/ Goto(s, "closed") /\ resp' = [resp EXCEPT ![s] = NoResponse]
  BY Zenon DEF HandleSend
<1>3. n \in Nat /\ n - sent[s] \in Nat
  BY <1>1
<1> DEFINE g == [i \in 1 .. n - sent[s] |-> <<r, sent[s] + i>>]
<1> DEFINE v == wire[s] \o g
<1>4. v \in Seq(Responses \X Nat) /\ (Acks(v) => Acks(wire[s]) \/ r = Json("0"))
  <2>1. \A i \in 1 .. n - sent[s] : <<r, sent[s] + i>> \in Responses \X Nat
    BY <1>1
  <2>2. g \in Seq(Responses \X Nat) /\ Len(g) = n - sent[s]
    BY <1>3, <2>1, IsASeq
  <2>3. \A i \in 1 .. Len(g) : g[i][1] = r
    BY <2>2
  <2> HIDE DEF g
  <2>4. QED
    BY <1>1, <2>2, <2>3, WireAppend
<1>5. wire' = [wire EXCEPT ![s] = v]
  BY <1>2
<1> HIDE DEF v
<1> HIDE DEF last
<1>6. NoResponse \in Responses /\ NoResponse # Json("0")
  BY Answers
<1>7. resp' = [resp EXCEPT ![s] = r] \/ resp' = [resp EXCEPT ![s] = NoResponse]
  BY <1>2
<1>8. wire' \in [Sessions -> Seq(Responses \X Nat)]
  BY <1>4, <1>5 DEF AnswerType
<1>9. resp' \in [Sessions -> Responses] /\ sent' \in [Sessions -> Nat]
  BY <1>2, <1>3, <1>6, <1>7 DEF AnswerType
<1>10. ASSUME NEW t \in Sessions
       PROVE  /\ Acks(wire'[t]) => Acks(wire[t]) \/ (t = s /\ r = Json("0"))
              /\ resp'[t] = Json("0") => resp[t] = Json("0") \/ (t = s /\ r = Json("0"))
  <2>1. wire'[t] = IF t = s THEN v ELSE wire[t]
    BY <1>5 DEF AnswerType
  <2>2. resp'[t] = resp[t] \/ (t = s /\ (resp'[t] = r \/ resp'[t] = NoResponse))
    BY <1>7 DEF AnswerType
  <2>3. QED
    BY <1>4, <1>6, <2>1, <2>2
<1>11. QED
  BY <1>8, <1>9, <1>10

-----------------------------------------------------------------------------
\* Every step either leaves the answers alone or is one send; a send that says "0" to
\* an upload finds or leaves a stored picture.
LEMMA SendKeepsInv ==
  ASSUME KeptInv, NEW s \in Sessions, NEW r \in Responses, HandleSend(s, r),
         UNCHANGED kind, data' \in [Sessions -> Nat], StoreInv', copies' >= copies,
         kind[s] = "upload" /\ r = Json("0") => copies' > 0
  PROVE  KeptInv'
<1>1. /\ resp' \in [Sessions -> Responses] /\ sent' \in [Sessions -> Nat]
      /\ wire' \in [Sessions -> Seq(Responses \X Nat)]
      /\ \A t \in Sessions :
           /\ Acks(wire'[t]) => Acks(wire[t]) \/ (t = s /\ r = Json("0"))
           /\ resp'[t] = Json("0") => resp[t] = Json("0") \/ (t = s /\ r = Json("0"))
  BY SendKeeps DEF KeptInv
<1>2. AnswerType'
  BY <1>1 DEF AnswerType
<1>3. ASSUME NEW t \in Sessions, kind'[t] = "upload", Acks(wire'[t]) \/ resp'[t] = Json("0")
      PROVE  copies' > 0
  <2>1. CASE t = s /\ r = Json("0")
    BY <1>3, <2>1
  <2>2. CASE ~(t = s /\ r = Json("0"))
    <3>1. Acks(wire[t]) \/ resp[t] = Json("0")
      BY <1>1, <1>3, <2>2
    <3>2. copies > 0
      BY <1>3, <3>1 DEF KeptInv, AckInv
    <3>3. QED
      BY <3>2 DEF KeptInv, StoreInv
  <2>3. QED
    BY <2>1, <2>2
<1>4. AckInv'
  BY <1>3 DEF AckInv, Acks
<1>5. QED
  BY <1>2, <1>4 DEF KeptInv

LEMMA QuietKeepsInv ==
  ASSUME KeptInv, UNCHANGED <<kind, answer, data>>, StoreInv', copies' >= copies
  PROVE  KeptInv'
  BY DEF KeptInv, AnswerType, StoreInv, AckInv, Acks, answer

LEMMA InitKept == Init => KeptInv
<1> SUFFICES ASSUME Init PROVE KeptInv
  OBVIOUS
<1>1. NoResponse \in Responses /\ NoResponse # Json("0")
  BY Answers
<1>2. AnswerType
  BY <1>1 DEF Init, AnswerType
<1>3. StoreInv
  BY DEF Init, StoreInv
<1>4. \A s \in Sessions : ~Acks(wire[s]) /\ resp[s] # Json("0")
  BY <1>1 DEF Init, Acks
<1>5. QED
  BY <1>2, <1>3, <1>4 DEF KeptInv, AckInv

LEMMA NextKept == KeptInv /\ [Next]_vars => KeptInv'
<1> SUFFICES ASSUME KeptInv, [Next]_vars PROVE KeptInv'
  OBVIOUS
<1>1. /\ Picture \in Responses /\ Empty \in Responses
      /\ Json("0") \in Responses /\ Json("1") \in Responses
      /\ \A n \in Nat : Waited(n) \in Responses
  BY Answers
<1>2. /\ Picture # Json("0") /\ Empty # Json("0") /\ Json("1") # Json("0")
      /\ \A n \in Nat : Waited(n) # Json("0")
  BY Answers
<1>3. StoreInv /\ AnswerType /\ copies \in Nat /\ copies >= copies
  BY DEF KeptInv, StoreInv
<1>4. ASSUME UNCHANGED stored PROVE StoreInv' /\ copies' >= copies
  BY <1>3, <1>4 DEF stored, StoreInv
<1>5. \* A step that sends nothing.
      ASSUME UNCHANGED <<kind, answer, data, stored>> PROVE KeptInv'
  BY <1>4, <1>5, QuietKeepsInv
<1>6. \* A step that sends something else than an acknowledgement of an upload.
      ASSUME NEW s \in Sessions, NEW r \in Responses, HandleSend(s, r),
             UNCHANGED <<kind, stored>>, data' \in [Sessions -> Nat],
             kind[s] = "upload" /\ r = Json("0") => copies > 0
      PROVE  KeptInv'
  <2>1. StoreInv' /\ copies' >= copies /\ copies' = copies
    BY <1>4, <1>6 DEF stored
  <2>2. QED
    BY <1>6, <2>1, SendKeepsInv
<1>7. ASSUME UNCHANGED data PROVE data' \in [Sessions -> Nat]
  BY <1>3, <1>7 DEF AnswerType
<1>8. ASSUME NEW s \in Sessions, NEW n \in Nat, Resume(s, n), UNCHANGED <<kind, stored>>
      PROVE  KeptInv'
  <2>1. data' \in [Sessions -> Nat]
    BY <1>3, <1>8 DEF Resume, AnswerType
  <2>2. CASE HandleSend(s, Waited(n))
    <3>1. Waited(n) \in Responses /\ Waited(n) # Json("0")
      BY <1>1, <1>2
    <3>2. QED
      BY <1>6, <1>8, <2>1, <2>2, <3>1
  <2>3. CASE UNCHANGED answer
    <3>1. StoreInv' /\ copies' >= copies
      BY <1>4, <1>8
    <3>2. AnswerType'
      BY <1>3, <2>1, <2>3 DEF AnswerType, answer
    <3>3. AckInv'
      BY <1>3, <1>8, <2>3, <3>1 DEF KeptInv, AckInv, Acks, answer, stored
    <3>4. QED
      BY <3>1, <3>2, <3>3 DEF KeptInv
  <2>4. QED
    BY <1>8, <2>2, <2>3 DEF Resume
<1>9. ASSUME NEW s \in Sessions, Accept(s) \/ Hangup(s) \/ RunTake(s) \/ RunTimeout(s)
      PROVE  KeptInv'
  BY <1>5, <1>9 DEF Accept, Hangup, RunTake, RunTimeout, session
<1>10. ASSUME NEW s \in Sessions, HandleRecv(s) PROVE KeptInv'
  <2>1. UNCHANGED <<kind, data, stored>>
    BY <1>10 DEF HandleRecv
  <2>2. CASE UNCHANGED answer
    BY <1>5, <2>1, <2>2
  <2>3. CASE kind[s] # "upload" /\ (HandleSend(s, Json("0")) \/ HandleSend(s, Json("1")))
    BY <1>1, <1>6, <1>7, <2>1, <2>3
  <2>4. \/ UNCHANGED answer
        \/ kind[s] # "upload" /\ (HandleSend(s, Json("0")) \/ HandleSend(s, Json("1")))
    BY <1>10 DEF HandleRecv, Transcode
  <2>5. QED
    BY <2>2, <2>3, <2>4
<1>11. ASSUME NEW s \in Sessions, UploadFind(s) PROVE KeptInv'
  <2>1. UNCHANGED <<kind, data, stored>>
    BY <1>11 DEF UploadFind, session
  <2>2. CASE UNCHANGED answer
    BY <1>5, <2>1, <2>2
  <2>3. CASE Hit("original") /\ HandleSend(s, Json("0"))
    <3>1. copies > 0
      BY <1>3, <2>3 DEF Hit, StoreInv
    <3>2. QED
      BY <1>1, <1>6, <1>7, <2>1, <2>3, <3>1
  <2>4. CASE HandleSend(s, Json("1"))
    BY <1>1, <1>2, <1>6, <1>7, <2>1, <2>4
  <2>5. \/ UNCHANGED answer
        \/ Hit("original") /\ HandleSend(s, Json("0"))
        \/ HandleSend(s, Json("1"))
    BY <1>11 DEF UploadFind
  <2>6. QED
    BY <2>2, <2>3, <2>4, <2>5
<1>12. ASSUME NEW s \in Sessions, StoreFile(s) PROVE KeptInv'
  <2>1. UNCHANGED <<kind, data, stored>> /\ (UNCHANGED answer \/ HandleSend(s, Json("1")))
    BY <1>12 DEF StoreFile, session
  <2>2. QED
    BY <1>1, <1>2, <1>5, <1>6, <1>7, <2>1
<1>13. ASSUME NEW s \in Sessions, Tag(s) PROVE KeptInv'
  <2>1. UNCHANGED <<kind, data>>
    BY <1>13 DEF Tag, session
  <2>2. CASE SetOid(s) /\ HandleSend(s, Json("0"))
    <3>1. StoreInv' /\ copies' >= copies /\ copies' > 0
      BY <1>3, <2>2 DEF SetOid, StoreInv
    <3>2. QED
      BY <1>1, <1>7, <2>1, <2>2, <3>1, SendKeepsInv
  <2>3. CASE UNCHANGED stored /\ HandleSend(s, Json("1"))
    BY <1>1, <1>2, <1>6, <1>7, <2>1, <2>3
  <2>4. QED
    BY <1>13, <2>2, <2>3 DEF Tag
<1>14. ASSUME NEW s \in Sessions, Find(s) \/ FindOri(s) PROVE KeptInv'
  <2>1. UNCHANGED <<kind, answer, data, stored>>
    BY <1>14 DEF Find, FindOri, DownloadMissing, session
  <2>2. QED
    BY <1>5, <2>1
<1>15. ASSUME NEW s \in Sessions, Get(s) \/ GetOri(s) PROVE KeptInv'
  <2>1. /\ UNCHANGED <<kind, data, stored>>
        /\ UNCHANGED answer \/ HandleSend(s, Picture) \/ HandleSend(s, Empty)
    BY <1>15 DEF Get, GetOri, DownloadMissing, session
  <2>2. QED
    BY <1>1, <1>2, <1>5, <1>6, <1>7, <2>1
<1>16. ASSUME NEW s \in Sessions, RunAgain(s) PROVE KeptInv'
  <2>1. /\ UNCHANGED <<kind, data, stored>> /\ HandleSend(s, Waited(data[s]))
        /\ data[s] \in Nat
    BY <1>3, <1>16 DEF RunAgain, session, AnswerType
  <2>2. Waited(data[s]) \in Responses /\ Waited(data[s]) # Json("0")
    BY <1>1, <1>2, <2>1
  <2>3. QED
    BY <1>6, <1>7, <2>1, <2>2
<1>17. ASSUME NEW s \in Sessions, RunFind(s) \/ RunGet(s) PROVE KeptInv'
  <2>1. UNCHANGED <<kind, stored>> /\ data[s] \in Nat
    BY <1>3, <1>17 DEF RunFind, RunGet, session, AnswerType
  <2>2. \/ UNCHANGED <<answer, data>>
        \/ Resume(s, data[s]) \/ Resume(s, data[s] + 1) \/ Resume(s, data[s] + 2)
    BY <1>17 DEF RunFind, RunGet
  <2>3. data[s] + 1 \in Nat /\ data[s] + 2 \in Nat
    BY <2>1
  <2>4. QED
    BY <1>5, <1>8, <2>1, <2>2, <2>3
<1>18. ASSUME NEW s \in Sessions, HandleOut(s) PROVE KeptInv'
  <2>1. /\ UNCHANGED <<kind, data, stored>> /\ HandleSend(s, resp[s])
        /\ resp[s] \in Responses
    BY <1>3, <1>18 DEF HandleOut, session, AnswerType
  <2>2. kind[s] = "upload" /\ resp[s] = Json("0") => copies > 0
    BY DEF KeptInv, AckInv
  <2>3. QED
    BY <1>6, <1>7, <2>1, <2>2
<1>19. ASSUME RenditionStored \/ \E k \in {"original", "rendition"} : Replicate(k)
       PROVE  KeptInv'
  <2>1. UNCHANGED <<kind, answer, data, copies>>
    BY <1>19 DEF RenditionStored, Replicate, session
  <2>2. db' \in [{"original", "rendition"} -> {"none", "fresh", "visible"}]
    BY <1>3, <1>19 DEF RenditionStored, Replicate, StoreInv
  <2>3. db'["original"] # "none" => db["original"] # "none"
    BY <1>3, <1>19 DEF RenditionStored, Replicate, StoreInv
  <2>4. StoreInv' /\ copies' >= copies
    BY <1>3, <2>1, <2>2, <2>3 DEF StoreInv
  <2>5. QED
    BY <2>1, <2>4, QuietKeepsInv
<1>20. ASSUME UNCHANGED vars PROVE KeptInv'
  BY <1>5, <1>20 DEF vars, session
<1>21. QED
  BY <1>9, <1>10, <1>11, <1>12, <1>13, <1>14, <1>15, <1>16, <1>17, <1>18, <1>19, <1>20
     DEF Next, Step, HandleRun

\* An upload that was acknowledged is stored and named, whatever failed before and
\* after, and however its answer was delayed.
THEOREM UploadsKept == Spec => []UploadKept
<1>1. KeptInv => UploadKept
  BY DEF KeptInv, AckInv, UploadKept, Acks, Ack
<1>2. QED
  BY <1>1, InitKept, NextKept, PTL DEF Spec

-----------------------------------------------------------------------------
\* What a send does to its connection: it adds parts of its response, numbered on from those
\* that were sent before, and the connection is idle or closed.
Sends(s, r, n) ==
  /\ n \in Nat /\ n >= sent[s]
  /\ wire' \in [Sessions -> Seq(Responses \X Nat)] /\ Len(wire'[s]) = n
  /\ \A i \in 1 .. n : wire'[s][i] = IF i <= sent[s] THEN wire[s][i] ELSE <<r, i>>
  /\ \A t \in Sessions \ {s} : wire'[t] = wire[t]
  /\ sent' = [sent EXCEPT ![s] = n]
  /\ resp' \in {[resp EXCEPT ![s] = r], [resp EXCEPT ![s] = NoResponse]}
  /\ pc' \in {[pc EXCEPT ![s] = "idle"], [pc EXCEPT ![s] = "closed"]}

LEMMA Concatenated ==
  ASSUME NEW S, NEW w \in Seq(S), NEW g \in Seq(S)
  PROVE  /\ w \o g \in Seq(S) /\ Len(w \o g) = Len(w) + Len(g)
         /\ \A i \in 1 .. Len(w \o g) : (w \o g)[i] = IF i <= Len(w) THEN w[i] ELSE g[i - Len(w)]
  BY ConcatProperties, LenProperties

LEMMA SendEffect ==
  ASSUME TypeOK, NEW s \in Sessions, NEW r \in Responses, HandleSend(s, r)
  PROVE  \E n : Sends(s, r, n)
<1> DEFINE last == IF sent[s] < Parts(r) THEN Parts(r) ELSE sent[s]
<1>1. /\ sent[s] \in Nat /\ Parts(r) \in Nat /\ wire[s] \in Seq(Responses \X Nat)
      /\ Len(wire[s]) = sent[s]
  BY DEF TypeOK, Parts, Responses
<1>2. PICK n \in sent[s] .. last :
        /\ wire' = [wire EXCEPT ![s] = @ \o [i \in 1 .. n - sent[s] |-> <<r, sent[s] + i>>]]
        /\ sent' = [sent EXCEPT ![s] = n]
        /\ \/ n < Parts(r) /\ Goto(s, "idle") /\ resp' = [resp EXCEPT ![s] = r]
           \/ Goto(s, "closed") /\ resp' = [resp EXCEPT ![s] = NoResponse]
  BY Zenon DEF HandleSend
<1>3. n \in Nat /\ n >= sent[s] /\ n - sent[s] \in Nat
  BY <1>1
<1> HIDE DEF last
<1> DEFINE g == [i \in 1 .. n - sent[s] |-> <<r, sent[s] + i>>]
<1> DEFINE v == wire[s] \o g
<1>4. g \in Seq(Responses \X Nat) /\ Len(g) = n - sent[s]
  <2>1. \A i \in 1 .. n - sent[s] : <<r, sent[s] + i>> \in Responses \X Nat
    BY <1>1
  <2>2. QED
    BY <1>3, <2>1, IsASeq
<1>5. \A i \in 1 .. n - sent[s] : g[i] = <<r, sent[s] + i>>
  OBVIOUS
<1> HIDE DEF g
<1>6. /\ v \in Seq(Responses \X Nat) /\ Len(v) = n
      /\ \A i \in 1 .. n : v[i] = IF i <= sent[s] THEN wire[s][i] ELSE g[i - sent[s]]
  <2>1. /\ v \in Seq(Responses \X Nat) /\ Len(v) = Len(wire[s]) + Len(g)
        /\ \A i \in 1 .. Len(v) : v[i] = IF i <= Len(wire[s]) THEN wire[s][i]
                                         ELSE g[i - Len(wire[s])]
    BY <1>1, <1>4, Concatenated, Zenon
  <2> HIDE DEF v
  <2>2. Len(v) = n
    BY <1>1, <1>3, <1>4, <2>1
  <2>3. QED
    BY <1>1, <2>1, <2>2
<1>7. \A i \in 1 .. n : v[i] = IF i <= sent[s] THEN wire[s][i] ELSE <<r, i>>
  <2> SUFFICES ASSUME NEW i \in 1 .. n, ~(i <= sent[s]) PROVE v[i] = <<r, i>>
    BY <1>6
  <2>1. i - sent[s] \in 1 .. n - sent[s] /\ sent[s] + (i - sent[s]) = i
    BY <1>1, <1>3
  <2>2. QED
    BY <1>5, <1>6, <2>1
<1>8. wire' = [wire EXCEPT ![s] = v]
  BY <1>2 DEF g
<1> HIDE DEF v
<1>9. /\ wire' \in [Sessions -> Seq(Responses \X Nat)] /\ wire'[s] = v
      /\ \A t \in Sessions \ {s} : wire'[t] = wire[t]
  BY <1>6, <1>8 DEF TypeOK
<1>10. /\ resp' \in {[resp EXCEPT ![s] = r], [resp EXCEPT ![s] = NoResponse]}
       /\ pc' \in {[pc EXCEPT ![s] = "idle"], [pc EXCEPT ![s] = "closed"]}
  BY <1>2 DEF Goto
<1>11. Sends(s, r, n)
  BY <1>2, <1>3, <1>6, <1>7, <1>9, <1>10 DEF Sends
<1>12. QED
  BY <1>11

-----------------------------------------------------------------------------
\* The types in two parts: what a send changes, and the rest.
Labels == {"new", "idle", "closed"} \cup InCallback

AnswersOK ==
  /\ pc \in [Sessions -> Labels]
  /\ resp \in [Sessions -> Responses] /\ sent \in [Sessions -> Nat]
  /\ wire \in [Sessions -> Seq(Responses \X Nat)]
  /\ \A s \in Sessions : Len(wire[s]) = sent[s]

States == {"none", "fresh", "visible"}
Files == {"original", "rendition"}

RequestsOK ==
  /\ home \in [Sessions -> Workers \cup {NoWorker}] /\ kind \in [Sessions -> AllKinds]
  /\ inputs \in [Sessions -> Nat] /\ data \in [Sessions -> Nat]
  /\ took \in [Sessions -> BOOLEAN] /\ first \in [Sessions -> [Files -> States]]

StoredOK ==
  /\ db \in [Files -> States] /\ copies \in Nat /\ late \in Nat
  /\ db["original"] = "none" <=> copies = 0

ReportsOK == task \in Seq({0, 1}) /\ faults \in 0 .. MaxFaults

LEMMA TypeParts == TypeOK <=> AnswersOK /\ RequestsOK /\ StoredOK /\ ReportsOK
  BY DEF TypeOK, AnswersOK, RequestsOK, StoredOK, ReportsOK, Labels, States, Files

\* Who is at a label, and what is known there.  A connection looks for the original only if
\* the rendition was not to be seen, and acts on a report only if there was one.
Local(s) ==
  /\ pc[s] \in {"store", "tag"} => kind[s] = "upload"
  /\ pc[s] = "get" => kind[s] \in Files
  /\ pc[s] \in {"findOri", "getOri"}
       => kind[s] = "rendition" /\ (first[s]["rendition"] # "visible" \/ faults > 0)
  /\ pc[s] \in {"runFind", "runGet"} => took[s] /\ db["rendition"] # "none"
  /\ data[s] > 0 => took[s]
  /\ first[s]["rendition"] = "visible" => db["rendition"] = "visible"

Success == \E i \in 1 .. Len(task) : task[i] = 0

ControlInv ==
  /\ TypeOK
  /\ \A s \in Sessions : Local(s)
  /\ Success => db["rendition"] # "none"

\* What the other connections see of a step: files do not disappear.
Others(s) ==
  /\ kind' = kind /\ faults' \in 0 .. MaxFaults /\ faults' >= faults
  /\ db["rendition"] # "none" => db'["rendition"] # "none"
  /\ db["rendition"] = "visible" => db'["rendition"] = "visible"
  /\ \A t \in Sessions \ {s} : /\ pc'[t] = pc[t] /\ data'[t] = data[t]
                               /\ took'[t] = took[t] /\ first'[t] = first[t]

LEMMA OthersKeep ==
  ASSUME ControlInv, NEW s \in Sessions, Others(s), Local(s)'
  PROVE  \A t \in Sessions : Local(t)'
<1> SUFFICES ASSUME NEW t \in Sessions, t # s PROVE Local(t)'
  OBVIOUS
<1>1. Local(t) /\ faults \in 0 .. MaxFaults /\ MaxFaults \in Nat
  BY ServiceAssumption DEF ControlInv, TypeOK
<1>2. faults > 0 => faults' > 0
  BY <1>1 DEF Others
<1>3. QED
  BY <1>1, <1>2 DEF Others, Local

LEMMA MoveEffect ==
  ASSUME TypeOK, NEW s \in Sessions, NEW p \in Labels, Goto(s, p), UNCHANGED answer
  PROVE  AnswersOK' /\ pc'[s] = p /\ \A t \in Sessions \ {s} : pc'[t] = pc[t]
<1>1. AnswersOK
  BY TypeParts
<1>2. QED
  BY <1>1 DEF AnswersOK, Goto, answer

LEMMA SendMoves ==
  ASSUME TypeOK, NEW s \in Sessions, NEW r \in Responses, HandleSend(s, r)
  PROVE  /\ AnswersOK' /\ pc'[s] \in {"idle", "closed"}
         /\ \A t \in Sessions \ {s} : pc'[t] = pc[t]
<1>1. PICK n : Sends(s, r, n)
  BY SendEffect
<1>2. AnswersOK
  BY TypeParts
<1>3. NoResponse \in Responses /\ "idle" \in Labels /\ "closed" \in Labels
  BY Answers DEF Labels
<1>4. pc' \in [Sessions -> Labels] /\ resp' \in [Sessions -> Responses]
  BY <1>1, <1>2, <1>3 DEF Sends, AnswersOK
<1>5. sent' \in [Sessions -> Nat] /\ \A t \in Sessions : Len(wire'[t]) = sent'[t]
  BY <1>1, <1>2 DEF Sends, AnswersOK
<1>6. QED
  BY <1>1, <1>2, <1>4, <1>5 DEF Sends, AnswersOK

LEMMA InitControl == Init => ControlInv
<1> SUFFICES ASSUME Init PROVE ControlInv
  OBVIOUS
<1>1. NoResponse \in Responses
  BY Answers
<1>2. AnswersOK
  BY <1>1 DEF Init, AnswersOK, Labels
<1>3. RequestsOK
  BY ServiceAssumption DEF Init, RequestsOK, Files, States
<1>4. StoredOK /\ ReportsOK
  BY ServiceAssumption DEF Init, StoredOK, ReportsOK, Files, States
<1>5. \A s \in Sessions : Local(s)
  BY DEF Init, Local
<1>6. ~Success
  BY DEF Init, Success
<1>7. QED
  BY <1>2, <1>3, <1>4, <1>5, <1>6, TypeParts DEF ControlInv

LEMMA StepKeeps ==
  ASSUME ControlInv, NEW s \in Sessions,
         AnswersOK', RequestsOK', StoredOK', ReportsOK', Others(s), Local(s)',
         Success' => db'["rendition"] # "none"
  PROVE  ControlInv'
<1>1. \A t \in Sessions : Local(t)'
  BY OthersKeep
<1>2. TypeOK'
  BY TypeParts, PTL
<1>3. QED
  BY <1>1, <1>2 DEF ControlInv

\* A step of a connection that changes its label, its answer and at most the faults.
LEMMA CalmKeeps ==
  ASSUME ControlInv, NEW s \in Sessions, UNCHANGED <<session, data, task, stored, took, first>>,
         AnswersOK', \A t \in Sessions \ {s} : pc'[t] = pc[t],
         UNCHANGED faults \/ Throws,
         pc'[s] \in {"store", "tag"} => kind[s] = "upload",
         pc'[s] = "get" => kind[s] \in Files,
         pc'[s] \in {"findOri", "getOri"}
           => kind[s] = "rendition" /\ (first[s]["rendition"] # "visible" \/ faults' > 0),
         pc'[s] = "runGet" => pc[s] = "runFind",
         pc'[s] # "runFind"
  PROVE  ControlInv'
<1>1. AnswersOK /\ RequestsOK /\ StoredOK /\ ReportsOK /\ Local(s) /\ MaxFaults \in Nat
  BY TypeParts, ServiceAssumption DEF ControlInv
<1>2. RequestsOK' /\ StoredOK'
  BY <1>1 DEF RequestsOK, StoredOK, session, stored
<1>3. faults' \in 0 .. MaxFaults /\ faults' >= faults
  BY <1>1 DEF Throws, ReportsOK
<1>4. ReportsOK'
  BY <1>1, <1>3 DEF ReportsOK
<1>5. Others(s)
  BY <1>1, <1>3 DEF Others, session, stored
<1>6. Local(s)'
  BY <1>1 DEF Local, session, stored
<1>7. Success' => db'["rendition"] # "none"
  BY DEF ControlInv, Success, stored
<1>8. QED
  BY <1>2, <1>4, <1>5, <1>6, <1>7, StepKeeps

\* What the actions of a callback may answer.
LEMMA AnswerTypes ==
  /\ Picture \in Responses /\ Empty \in Responses /\ Json("0") \in Responses
  /\ Json("1") \in Responses /\ \A n \in Nat : Waited(n) \in Responses
  BY Answers

LEMMA UploadControl ==
  ASSUME ControlInv, NEW s \in Sessions, UploadFind(s) \/ StoreFile(s)
  PROVE  ControlInv'
<1>1. TypeOK /\ Local(s)
  BY DEF ControlInv
<1>2. UNCHANGED <<session, data, task, stored, took, first>>
  BY DEF UploadFind, StoreFile
<1>3. UNCHANGED faults \/ Throws
  BY DEF UploadFind, StoreFile, Hit, Miss
<1>4. CASE HandleSend(s, Json("0")) \/ HandleSend(s, Json("1"))
  <2>1. /\ AnswersOK' /\ pc'[s] \in {"idle", "closed"}
        /\ \A t \in Sessions \ {s} : pc'[t] = pc[t]
    BY <1>1, <1>4, AnswerTypes, SendMoves
  <2>2. QED
    BY <1>2, <1>3, <2>1, CalmKeeps
<1>5. CASE UNCHANGED answer /\ (Goto(s, "store") \/ Goto(s, "tag")) /\ kind[s] = "upload"
  <2>1. /\ AnswersOK' /\ pc'[s] \in {"store", "tag"}
        /\ \A t \in Sessions \ {s} : pc'[t] = pc[t]
    BY <1>1, <1>5, MoveEffect DEF Labels, InCallback
  <2>2. QED
    BY <1>2, <1>3, <1>5, <2>1, CalmKeeps
<1>6. QED
  BY <1>1, <1>4, <1>5 DEF UploadFind, StoreFile, Local

LEMMA DownloadControl ==
  ASSUME ControlInv, NEW s \in Sessions, Find(s) \/ Get(s) \/ FindOri(s) \/ GetOri(s)
  PROVE  ControlInv'
<1>1. TypeOK /\ Local(s) /\ faults \in Nat
  BY ServiceAssumption DEF ControlInv, TypeOK
<1>2. UNCHANGED <<session, data, task, stored, took, first>>
  BY DEF Find, Get, FindOri, GetOri
<1>3. UNCHANGED faults \/ Throws
  BY DEF Find, Get, FindOri, GetOri, Hit, Miss
<1>4. CASE HandleSend(s, Picture) \/ HandleSend(s, Empty)
  <2>1. /\ AnswersOK' /\ pc'[s] \in {"idle", "closed"}
        /\ \A t \in Sessions \ {s} : pc'[t] = pc[t]
    BY <1>1, <1>4, AnswerTypes, SendMoves
  <2>2. QED
    BY <1>2, <1>3, <2>1, CalmKeeps
<1>5. ASSUME NEW p \in {"get", "closed", "findOri", "getOri"}, Goto(s, p), UNCHANGED answer,
             p = "get" => kind[s] \in Files,
             p \in {"findOri", "getOri"}
               => kind[s] = "rendition" /\ (first[s]["rendition"] # "visible" \/ faults' > 0)
      PROVE  ControlInv'
  <2>1. AnswersOK' /\ pc'[s] = p /\ \A t \in Sessions \ {s} : pc'[t] = pc[t]
    BY <1>1, <1>5, MoveEffect DEF Labels, InCallback
  <2>2. QED
    BY <1>2, <1>3, <1>5, <2>1, CalmKeeps
<1>6. ASSUME Miss(kind[s]), DownloadMissing(s) PROVE ControlInv'
  <2>1. CASE kind[s] = "rendition"
    <3>1. first[s]["rendition"] # "visible" \/ faults' > 0
      BY <1>1, <1>6, <2>1 DEF Miss, Throws, Local
    <3>2. QED
      BY <1>5, <1>6, <2>1, <3>1 DEF DownloadMissing
  <2>2. CASE kind[s] # "rendition"
    BY <1>5, <1>6, <2>2 DEF DownloadMissing
  <2>3. QED
    BY <2>1, <2>2
<1>7. CASE Find(s)
  BY <1>5, <1>6, <1>7 DEF Find, Files
<1>8. CASE Get(s)
  BY <1>4, <1>6, <1>8 DEF Get
<1>9. CASE FindOri(s)
  <2>1. faults > 0 => faults' > 0
    BY <1>1, <1>3 DEF Throws
  <2>2. kind[s] = "rendition" /\ (first[s]["rendition"] # "visible" \/ faults' > 0)
    BY <1>1, <1>9, <2>1 DEF FindOri, Local
  <2>3. QED
    BY <1>5, <1>9, <2>2 DEF FindOri
<1>10. CASE GetOri(s)
  BY <1>4, <1>5, <1>10 DEF GetOri
<1>11. QED
  BY <1>7, <1>8, <1>9, <1>10
-----------------------------------------------------------------------------
LEMMA SuccessTail ==
  ASSUME NEW q \in Seq({0, 1}), q # <<>>
  PROVE  /\ Tail(q) \in Seq({0, 1}) /\ Head(q) = q[1] /\ 1 \in 1 .. Len(q)
         /\ \A i \in 1 .. Len(Tail(q)) : i + 1 \in 1 .. Len(q) /\ Tail(q)[i] = q[i + 1]
<1>1. Len(q) \in Nat /\ Len(q) > 0
  BY EmptySeq, LenProperties
<1>2. QED
  BY <1>1, HeadTailProperties

LEMMA ReportTaken ==
  ASSUME ControlInv, NEW s \in Sessions, RunTake(s)
  PROVE  ControlInv'
<1>1. AnswersOK /\ RequestsOK /\ StoredOK /\ ReportsOK /\ Local(s) /\ TypeOK
  BY TypeParts DEF ControlInv
<1>2. /\ Tail(task) \in Seq({0, 1}) /\ Head(task) = task[1] /\ 1 \in 1 .. Len(task)
      /\ \A i \in 1 .. Len(Tail(task)) : i + 1 \in 1 .. Len(task) /\ Tail(task)[i] = task[i + 1]
  BY <1>1, SuccessTail DEF RunTake, ReportsOK
<1>3. task' = Tail(task) /\ took' = [took EXCEPT ![s] = TRUE]
      /\ UNCHANGED <<session, answer, data, stored, faults, first>>
  BY DEF RunTake
<1>4. Success' => Success
  BY <1>2, <1>3 DEF Success
<1>5. PICK p \in {"runFind", "closed"} : Goto(s, p) /\ (p = "runFind" => Head(task) = 0)
  BY DEF RunTake
<1>6. AnswersOK' /\ pc'[s] = p /\ \A t \in Sessions \ {s} : pc'[t] = pc[t]
  BY <1>1, <1>3, <1>5, MoveEffect DEF Labels, InCallback
<1>7. p = "runFind" => db["rendition"] # "none"
  BY <1>2, <1>5 DEF ControlInv, Success
<1>8. RequestsOK' /\ StoredOK' /\ ReportsOK'
  BY <1>1, <1>2, <1>3 DEF RequestsOK, StoredOK, ReportsOK, session, stored
<1>9. Others(s)
  BY <1>1, <1>3, <1>6, ServiceAssumption DEF Others, ReportsOK, RequestsOK, session, stored
<1>10. Local(s)'
  BY <1>1, <1>3, <1>6, <1>7 DEF Local, RequestsOK, session, stored
<1>11. Success' => db'["rendition"] # "none"
  BY <1>3, <1>4 DEF ControlInv, stored
<1>12. QED
  BY <1>6, <1>8, <1>9, <1>10, <1>11, StepKeeps

LEMMA LookupControl ==
  ASSUME ControlInv, NEW s \in Sessions, RunFind(s) \/ RunGet(s)
  PROVE  ControlInv'
<1>1. AnswersOK /\ RequestsOK /\ StoredOK /\ ReportsOK /\ Local(s) /\ TypeOK
  BY TypeParts DEF ControlInv
<1>2. UNCHANGED <<session, task, stored, took, first>> /\ data[s] \in Nat
  BY <1>1 DEF RunFind, RunGet, RequestsOK
<1>3. UNCHANGED faults \/ Throws
  BY DEF RunFind, RunGet, Hit, Miss
<1>4. CASE Goto(s, "runGet") /\ UNCHANGED <<answer, data>>
  <2>1. pc[s] = "runFind"
    BY <1>1, <1>4 DEF RunFind, RunGet, Goto, Resume, AnswersOK, HandleSend
  <2>2. AnswersOK' /\ pc'[s] = "runGet" /\ \A t \in Sessions \ {s} : pc'[t] = pc[t]
    BY <1>1, <1>4, MoveEffect DEF Labels, InCallback
  <2>3. QED
    BY <1>2, <1>3, <1>4, <2>1, <2>2, CalmKeeps
<1>5. ASSUME NEW n \in Nat, Resume(s, n) PROVE ControlInv'
  <2>1. data' = [data EXCEPT ![s] = n]
    BY <1>5 DEF Resume
  <2>2. /\ AnswersOK' /\ pc'[s] \in {"idle", "closed"}
        /\ \A t \in Sessions \ {s} : pc'[t] = pc[t]
    <3>1. CASE HandleSend(s, Waited(n))
      BY <1>1, <3>1, AnswerTypes, SendMoves
    <3>2. CASE Goto(s, "closed") /\ UNCHANGED answer
      BY <1>1, <3>2, MoveEffect DEF Labels
    <3>3. QED
      BY <1>5, <3>1, <3>2 DEF Resume
  <2>3. RequestsOK' /\ StoredOK'
    BY <1>1, <1>2, <2>1 DEF RequestsOK, StoredOK, session, stored
  <2>4. faults' \in 0 .. MaxFaults /\ faults' >= faults
    BY <1>1, <1>3, ServiceAssumption DEF Throws, ReportsOK
  <2>5. ReportsOK'
    BY <1>1, <1>2, <2>4 DEF ReportsOK
  <2>6. Others(s)
    BY <1>1, <1>2, <2>1, <2>2, <2>4 DEF Others, RequestsOK, session, stored
  <2>7. took[s]
    BY <1>1 DEF Local, RunFind, RunGet
  <2>8. Local(s)'
    BY <1>1, <1>2, <2>2, <2>7 DEF Local, session, stored
  <2>9. Success' => db'["rendition"] # "none"
    BY <1>2 DEF ControlInv, Success, stored
  <2>10. QED
    BY <2>2, <2>3, <2>5, <2>6, <2>8, <2>9, StepKeeps
<1>6. data[s] + 1 \in Nat /\ data[s] + 2 \in Nat
  BY <1>2
<1>7. QED
  BY <1>2, <1>4, <1>5, <1>6 DEF RunFind, RunGet

LEMMA TagControl ==
  ASSUME ControlInv, NEW s \in Sessions, Tag(s)
  PROVE  ControlInv'
<1>1. AnswersOK /\ RequestsOK /\ StoredOK /\ ReportsOK /\ Local(s) /\ TypeOK
  BY TypeParts DEF ControlInv
<1>2. UNCHANGED <<session, data, task, took, first>>
  BY DEF Tag
<1>3. /\ AnswersOK' /\ pc'[s] \in {"idle", "closed"}
      /\ \A t \in Sessions \ {s} : pc'[t] = pc[t]
  BY <1>1, AnswerTypes, SendMoves DEF Tag
<1>4. CASE UNCHANGED stored
  BY <1>2, <1>3, <1>4, CalmKeeps DEF Tag
<1>5. CASE SetOid(s) /\ UNCHANGED faults
  <2>1. StoredOK' /\ db'["rendition"] = db["rendition"]
    BY <1>1, <1>5 DEF SetOid, StoredOK, Files, States
  <2>2. RequestsOK' /\ ReportsOK'
    BY <1>1, <1>2, <1>5 DEF RequestsOK, ReportsOK, session
  <2>3. Others(s)
    BY <1>1, <1>2, <1>3, <1>5, <2>1, ServiceAssumption DEF Others, ReportsOK, session
  <2>4. Local(s)'
    BY <1>1, <1>2, <1>3, <1>5, <2>1 DEF Local, session
  <2>5. Success' => db'["rendition"] # "none"
    BY <1>2, <2>1 DEF ControlInv, Success
  <2>6. QED
    BY <1>3, <2>1, <2>2, <2>3, <2>4, <2>5, StepKeeps
<1>6. QED
  BY <1>4, <1>5 DEF Tag

LEMMA RecvControl ==
  ASSUME ControlInv, NEW s \in Sessions, HandleRecv(s)
  PROVE  ControlInv'
<1>1. AnswersOK /\ RequestsOK /\ StoredOK /\ ReportsOK /\ Local(s) /\ TypeOK
  BY TypeParts DEF ControlInv
<1>2. /\ inputs' = [inputs EXCEPT ![s] = @ + 1]
      /\ first' = IF inputs[s] = 0 THEN [first EXCEPT ![s] = db] ELSE first
      /\ UNCHANGED <<home, kind, data, stored, faults, took>>
  BY Zenon DEF HandleRecv
<1>3. \/ UNCHANGED <<answer, task>> /\ (Goto(s, "closed") \/ Goto(s, "find"))
      \/ /\ kind[s] = "failed" \/ (kind[s] = "done" /\ db["rendition"] # "none")
         /\ PutRespStatus(s)
         /\ HandleSend(s, Json("0"))
      \/ UNCHANGED task /\ (HandleSend(s, Json("0")) \/ HandleSend(s, Json("1")))
  BY Zenon DEF HandleRecv, Transcode
<1>4. /\ AnswersOK' /\ \A t \in Sessions \ {s} : pc'[t] = pc[t]
      /\ pc'[s] \in {"find", "idle", "closed"}
  <2>1. CASE UNCHANGED answer /\ (Goto(s, "closed") \/ Goto(s, "find"))
    BY <1>1, <2>1, MoveEffect DEF Labels, InCallback
  <2>2. CASE HandleSend(s, Json("0")) \/ HandleSend(s, Json("1"))
    BY <1>1, <2>2, AnswerTypes, SendMoves
  <2>3. QED
    BY <1>3, <2>1, <2>2
<1>5. task' \in Seq({0, 1}) /\ (Success' => Success \/ db["rendition"] # "none")
  <2>1. CASE UNCHANGED task
    BY <1>1, <2>1 DEF ReportsOK, Success
  <2>2. CASE /\ kind[s] = "failed" \/ (kind[s] = "done" /\ db["rendition"] # "none")
             /\ PutRespStatus(s)
    <3>1. PICK e \in {0, 1} : task' = Append(task, e) /\ (e = 0 => db["rendition"] # "none")
      BY <2>2 DEF PutRespStatus
    <3>2. /\ task' \in Seq({0, 1}) /\ Len(task') = Len(task) + 1 /\ Len(task) \in Nat
          /\ \A i \in 1 .. Len(task) : task'[i] = task[i]
          /\ task'[Len(task) + 1] = e
      BY <1>1, <3>1, AppendProperties, LenProperties DEF ReportsOK
    <3>3. QED
      BY <3>1, <3>2 DEF Success
  <2>3. QED
    BY <1>3, <2>1, <2>2
<1>6. RequestsOK' /\ StoredOK' /\ ReportsOK'
  BY <1>1, <1>2, <1>5 DEF RequestsOK, StoredOK, ReportsOK, stored
<1>7. Others(s)
  BY <1>1, <1>2, <1>4, ServiceAssumption DEF Others, ReportsOK, RequestsOK, stored
<1>8. first'[s]["rendition"] = "visible" => db'["rendition"] = "visible"
  BY <1>1, <1>2 DEF Local, RequestsOK, stored
<1>9. Local(s)'
  BY <1>1, <1>2, <1>4, <1>8 DEF Local
<1>10. Success' => db'["rendition"] # "none"
  BY <1>2, <1>5 DEF ControlInv, stored
<1>11. QED
  BY <1>4, <1>6, <1>7, <1>9, <1>10, StepKeeps

LEMMA AcceptControl ==
  ASSUME ControlInv, NEW s \in Sessions, Accept(s)
  PROVE  ControlInv'
<1>1. AnswersOK /\ RequestsOK /\ StoredOK /\ ReportsOK /\ Local(s) /\ TypeOK
  BY TypeParts DEF ControlInv
<1>2. PICK w \in Turns[s] : home' = [home EXCEPT ![s] = w]
  BY DEF Accept
<1>3. w \in Workers
  BY ServiceAssumption
<1>4. Goto(s, "idle") /\ UNCHANGED <<kind, inputs, answer, data, task, stored, faults, took, first>>
  BY DEF Accept
<1>5. AnswersOK' /\ pc'[s] = "idle" /\ \A t \in Sessions \ {s} : pc'[t] = pc[t]
  BY <1>1, <1>4, MoveEffect DEF Labels
<1>6. RequestsOK' /\ StoredOK' /\ ReportsOK'
  BY <1>1, <1>2, <1>3, <1>4 DEF RequestsOK, StoredOK, ReportsOK, stored
<1>7. Others(s)
  BY <1>1, <1>4, <1>5, ServiceAssumption DEF Others, ReportsOK, stored
<1>8. Local(s)'
  BY <1>1, <1>4, <1>5 DEF Local, stored
<1>9. Success' => db'["rendition"] # "none"
  BY <1>4 DEF ControlInv, Success, stored
<1>10. QED
  BY <1>5, <1>6, <1>7, <1>8, <1>9, StepKeeps

LEMMA IdleControl ==
  ASSUME ControlInv, NEW s \in Sessions,
         Hangup(s) \/ RunTimeout(s) \/ RunAgain(s) \/ HandleOut(s)
  PROVE  ControlInv'
<1>1. TypeOK
  BY DEF ControlInv
<1>2. UNCHANGED <<session, data, task, stored, faults, took, first>>
  BY DEF Hangup, RunTimeout, RunAgain, HandleOut
<1>3. data[s] \in Nat /\ resp[s] \in Responses
  BY <1>1 DEF TypeOK
<1>4. /\ AnswersOK' /\ pc'[s] \in {"idle", "closed"}
      /\ \A t \in Sessions \ {s} : pc'[t] = pc[t]
  <2>1. CASE Hangup(s) \/ RunTimeout(s)
    BY <1>1, <2>1, MoveEffect DEF Labels, Hangup, RunTimeout
  <2>2. CASE RunAgain(s)
    BY <1>1, <1>3, <2>2, AnswerTypes, SendMoves DEF RunAgain
  <2>3. CASE HandleOut(s)
    BY <1>1, <1>3, <2>3, SendMoves DEF HandleOut
  <2>4. QED
    BY <2>1, <2>2, <2>3
<1>5. QED
  BY <1>2, <1>4, CalmKeeps

LEMMA DatabaseControl ==
  ASSUME ControlInv, RenditionStored \/ \E k \in Files : Replicate(k)
  PROVE  ControlInv'
<1>1. AnswersOK /\ RequestsOK /\ StoredOK /\ ReportsOK /\ TypeOK
  BY TypeParts DEF ControlInv
<1>2. UNCHANGED <<session, pc, answer, data, task, copies, late, faults, took, first>>
  BY DEF RenditionStored, Replicate
<1>3. /\ db' \in [Files -> States] /\ (db'["original"] = "none" <=> db["original"] = "none")
      /\ db["rendition"] # "none" => db'["rendition"] # "none"
      /\ db["rendition"] = "visible" => db'["rendition"] = "visible"
  BY <1>1 DEF RenditionStored, Replicate, StoredOK, Files, States
<1>4. StoredOK'
  BY <1>1, <1>2, <1>3 DEF StoredOK
<1>5. AnswersOK' /\ RequestsOK' /\ ReportsOK'
  BY <1>1, <1>2 DEF AnswersOK, RequestsOK, ReportsOK, session, answer
<1>6. TypeOK'
  BY <1>4, <1>5, TypeParts, PTL
<1>7. \A t \in Sessions : Local(t)'
  BY <1>2, <1>3 DEF ControlInv, Local, session
<1>8. QED
  BY <1>2, <1>3, <1>6, <1>7 DEF ControlInv, Success

LEMMA NextControl == ControlInv /\ [Next]_vars => ControlInv'
<1> SUFFICES ASSUME ControlInv, [Next]_vars PROVE ControlInv'
  OBVIOUS
<1>1. CASE UNCHANGED vars
  <2>1. TypeOK'
    BY <1>1 DEF ControlInv, TypeOK, vars, session, answer, stored
  <2>2. \A t \in Sessions : Local(t)'
    BY <1>1 DEF ControlInv, Local, vars, session, answer, stored
  <2>3. QED
    BY <1>1, <2>1, <2>2 DEF ControlInv, Success, vars, session, answer, stored
<1>2. ASSUME NEW s \in Sessions,
             \/ Accept(s) \/ HandleRecv(s) \/ HandleOut(s) \/ Hangup(s)
             \/ Step(s) \/ HandleRun(s)
      PROVE  ControlInv'
  BY <1>2, AcceptControl, RecvControl, IdleControl, UploadControl, TagControl, DownloadControl,
     LookupControl, ReportTaken DEF Step, HandleRun
<1>3. QED
  BY <1>1, <1>2, DatabaseControl DEF Next, Files

\* A report that says the rendition is done was sent after the rendition was stored, and
\* the callback that acts on it finds it stored, with any number of reports, connections
\* that take them, and failing lookups.
THEOREM ReportsAreTrue == Spec => []ReportsTrue
<1>1. ControlInv => ReportsTrue
  BY DEF ControlInv, ReportsTrue, Local, Success
<1>2. QED
  BY <1>1, InitControl, NextControl, PTL DEF Spec
-----------------------------------------------------------------------------
\* The answer of a connection that took no report, with no failed lookup and with its file
\* on the secondaries.
Expected(k) ==
  IF k \in {"junk", "garbled"} THEN Json("1") ELSE IF k \in Files THEN Picture ELSE Json("0")

Seen(s) == first[s]["rendition"] = "visible" /\ faults = 0

Regular(s) ==
  /\ ~took[s] /\ faults = 0
  /\ kind[s] = "rendition" => first[s]["rendition"] = "visible"

\* A connection that has not asked has no answer.
Unasked(s) ==
  inputs[s] = 0 => /\ pc[s] \in {"new", "idle", "closed"} /\ ~took[s]
                   /\ resp[s] = NoResponse /\ sent[s] = 0

Answered(s) ==
  /\ \A i \in 1 .. Len(wire[s]) : wire[s][i][2] = i
  /\ Regular(s) => /\ resp[s] \in {NoResponse, Expected(kind[s])}
                   /\ \A i \in 1 .. Len(wire[s]) : wire[s][i][1] = Expected(kind[s])
  /\ Seen(s) => /\ resp[s] # Empty
                /\ \A i \in 1 .. Len(wire[s]) : wire[s][i][1] # Empty

AnswerInv == \A s \in Sessions : Unasked(s) /\ Answered(s)

LEMMA Distinct ==
  /\ NoResponse # Empty /\ Picture # Empty /\ Json("0") # Empty /\ Json("1") # Empty
  /\ \A n \in Nat : Waited(n) # Empty
<1>1. /\ Json("0").is = "0" /\ Json("1").is = "1" /\ NoResponse.is = "none"
      /\ Empty.is = "picture" /\ Picture.body = 2 /\ Empty.body = 0
  BY DEF NoResponse, Picture, Empty, Json
<1>2. \A n \in Nat : Waited(n).is = "waited"
  BY DEF Waited
<1>3. QED
  BY <1>1, <1>2

\* What is sent by a step, and why.
Reason(s, r) ==
  /\ r \in Responses /\ inputs'[s] > 0
  /\ Regular(s)' => r = Expected(kind[s])
  /\ Seen(s)' => r # Empty

\* Nothing makes a connection regular again.
Onward(s) ==
  /\ kind' = kind /\ faults' \in Nat /\ faults' >= faults
  /\ \A t \in Sessions : /\ inputs'[t] \in Nat /\ inputs'[t] >= inputs[t]
                         /\ took[t] => took'[t]
                         /\ first'[t] = first[t] \/ inputs[t] = 0
  /\ \A t \in Sessions \ {s} : pc'[t] = pc[t] /\ took'[t] = took[t]
  /\ inputs'[s] = 0 => pc'[s] \in {"idle", "closed"} /\ ~took'[s] /\ UNCHANGED answer

LEMMA WasRegular ==
  ASSUME ControlInv, NEW s \in Sessions, Onward(s), NEW t \in Sessions, inputs[t] # 0
  PROVE  (Regular(t)' => Regular(t)) /\ (Seen(t)' => Seen(t))
<1>1. faults \in Nat /\ first'[t] = first[t] /\ kind'[t] = kind[t] /\ (took[t] => took'[t])
  BY ServiceAssumption DEF ControlInv, TypeOK, Onward
<1>2. faults' = 0 => faults = 0
  BY <1>1 DEF Onward
<1>3. QED
  BY <1>1, <1>2 DEF Regular, Seen

LEMMA SameAnswer ==
  ASSUME ControlInv, AnswerInv, NEW s \in Sessions, Onward(s), NEW t \in Sessions,
         resp'[t] = resp[t], wire'[t] = wire[t]
  PROVE  Answered(t)'
<1>1. Unasked(t) /\ Answered(t) /\ kind' = kind /\ Len(wire[t]) = sent[t]
  BY DEF AnswerInv, Onward, ControlInv, TypeOK
<1>2. CASE inputs[t] = 0
  <2>1. resp'[t] = NoResponse /\ Len(wire'[t]) = 0
    BY <1>1, <1>2 DEF Unasked
  <2>2. QED
    BY <2>1, Distinct DEF Answered
<1>3. CASE inputs[t] # 0
  <2>1. (Regular(t)' => Regular(t)) /\ (Seen(t)' => Seen(t))
    BY <1>3, WasRegular
  <2>2. QED
    BY <1>1, <2>1 DEF Answered
<1>4. QED
  BY <1>2, <1>3

LEMMA NewAnswer ==
  ASSUME ControlInv, AnswerInv, NEW s \in Sessions, Onward(s), NEW r, Reason(s, r),
         HandleSend(s, r)
  PROVE  Answered(s)' /\ \A t \in Sessions \ {s} : Answered(t)'
<1>1. PICK n : Sends(s, r, n)
  BY SendEffect DEF Reason, ControlInv
<1>2. /\ Unasked(s) /\ Answered(s) /\ kind' = kind /\ Len(wire[s]) = sent[s] /\ sent[s] \in Nat
      /\ resp \in [Sessions -> Responses]
  BY DEF AnswerInv, Onward, ControlInv, TypeOK
<1>3. ASSUME NEW t \in Sessions, t # s PROVE Answered(t)'
  <2>1. resp'[t] = resp[t] /\ wire'[t] = wire[t]
    BY <1>1, <1>2, <1>3 DEF Sends
  <2>2. QED
    BY <2>1, SameAnswer
<1>4. /\ n \in Nat /\ Len(wire'[s]) = n /\ resp'[s] \in {r, NoResponse}
      /\ \A i \in 1 .. n : \/ i \in 1 .. Len(wire[s]) /\ wire'[s][i] = wire[s][i]
                           \/ wire'[s][i] = <<r, i>>
  BY <1>1, <1>2 DEF Sends
<1>5. \A i \in 1 .. Len(wire'[s]) : wire'[s][i][2] = i
  BY <1>2, <1>4 DEF Answered
<1>6. \A i \in 1 .. Len(wire'[s]) : (i \in 1 .. Len(wire[s]) /\ wire'[s][i][1] = wire[s][i][1])
                                    \/ wire'[s][i][1] = r
  BY <1>4
<1>7. inputs[s] = 0 => Len(wire[s]) = 0
  BY <1>2 DEF Unasked
<1>8. Regular(s)' => /\ resp'[s] \in {NoResponse, Expected(kind'[s])}
                     /\ \A i \in 1 .. Len(wire'[s]) : wire'[s][i][1] = Expected(kind'[s])
  <2> SUFFICES ASSUME Regular(s)'
               PROVE  /\ resp'[s] \in {NoResponse, Expected(kind[s])}
                      /\ \A i \in 1 .. Len(wire'[s]) : wire'[s][i][1] = Expected(kind[s])
    BY <1>2
  <2>1. r = Expected(kind[s])
    BY DEF Reason
  <2>2. \A i \in 1 .. Len(wire[s]) : wire[s][i][1] = Expected(kind[s])
    BY <1>2, <1>7, WasRegular DEF Answered
  <2>3. QED
    BY <1>4, <1>6, <2>1, <2>2
<1>9. Seen(s)' => resp'[s] # Empty /\ \A i \in 1 .. Len(wire'[s]) : wire'[s][i][1] # Empty
  <2> SUFFICES ASSUME Seen(s)'
               PROVE  resp'[s] # Empty /\ \A i \in 1 .. Len(wire'[s]) : wire'[s][i][1] # Empty
    OBVIOUS
  <2>1. r # Empty /\ NoResponse # Empty
    BY Distinct DEF Reason
  <2>2. \A i \in 1 .. Len(wire[s]) : wire[s][i][1] # Empty
    BY <1>2, <1>7, WasRegular DEF Answered
  <2>3. QED
    BY <1>4, <1>6, <2>1, <2>2
<1>10. Answered(s)'
  BY <1>5, <1>8, <1>9 DEF Answered
<1>11. QED
  BY <1>3, <1>10

LEMMA AnswerKeeps ==
  ASSUME ControlInv, AnswerInv, NEW s \in Sessions, Onward(s),
         UNCHANGED answer \/ \E r : Reason(s, r) /\ HandleSend(s, r)
  PROVE  AnswerInv'
<1>1. \A t \in Sessions : Answered(t)'
  <2>1. CASE UNCHANGED answer
    BY <2>1, SameAnswer DEF answer
  <2>2. CASE \E r : Reason(s, r) /\ HandleSend(s, r)
    BY <2>2, NewAnswer
  <2>3. QED
    BY <2>1, <2>2
<1>2. ASSUME NEW t \in Sessions, t # s PROVE Unasked(t)'
  <2>1. resp'[t] = resp[t] /\ sent'[t] = sent[t]
    <3>1. CASE UNCHANGED answer
      BY <3>1 DEF answer
    <3>2. ASSUME NEW r, Reason(s, r), HandleSend(s, r)
          PROVE  resp'[t] = resp[t] /\ sent'[t] = sent[t]
      <4>1. PICK n : Sends(s, r, n)
        BY <3>2, SendEffect DEF Reason, ControlInv
      <4>2. QED
        BY <1>2, <4>1 DEF Sends, ControlInv, TypeOK
    <3>3. QED
      BY <3>1, <3>2
  <2>2. Unasked(t) /\ pc'[t] = pc[t] /\ took'[t] = took[t] /\ inputs[t] \in Nat
    BY <1>2 DEF AnswerInv, Onward, ControlInv, TypeOK
  <2>3. inputs'[t] = 0 => inputs[t] = 0
    BY <2>2 DEF Onward
  <2>4. QED
    BY <2>1, <2>2, <2>3 DEF Unasked
<1>3. Unasked(s)'
  <2>1. inputs'[s] = 0 => inputs[s] = 0
    BY DEF Onward, ControlInv, TypeOK
  <2>2. Unasked(s)
    BY DEF AnswerInv
  <2>3. QED
    BY <2>1, <2>2 DEF Unasked, Onward, answer
<1>4. QED
  BY <1>1, <1>2, <1>3 DEF AnswerInv
\* A callback that was begun ends with the answer to its request.
LEMMA CallbackAnswers ==
  ASSUME ControlInv, AnswerInv, NEW s \in Sessions, Step(s)
  PROVE  AnswerInv'
<1>1. /\ TypeOK /\ Local(s) /\ Unasked(s) /\ faults \in Nat /\ inputs[s] \in Nat
      /\ data[s] \in Nat
  BY ServiceAssumption DEF ControlInv, AnswerInv, TypeOK
<1>2. UNCHANGED <<session, took, first>> /\ pc[s] \in InCallback
  BY DEF Step, UploadFind, StoreFile, Tag, Find, Get, FindOri, GetOri, RunFind, RunGet, InCallback
<1>3. inputs[s] > 0 /\ inputs'[s] > 0
  BY <1>1, <1>2 DEF Unasked, InCallback, session
<1>4. UNCHANGED faults \/ Throws
  BY DEF Step, UploadFind, StoreFile, Tag, Find, Get, FindOri, GetOri, RunFind, RunGet, Hit, Miss
<1>5. faults' \in Nat /\ faults' >= faults
  BY <1>1, <1>4 DEF Throws
<1>6. Throws => ~Regular(s)' /\ ~Seen(s)'
  BY <1>1 DEF Throws, Regular, Seen
<1>7. \A r \in {Picture, Json("0"), Json("1")} : r \in Responses /\ r # Empty
  BY AnswerTypes, Distinct
<1>8. CASE UploadFind(s)
  <2>1. \/ UNCHANGED answer
        \/ kind[s] = "upload" /\ HandleSend(s, Json("0"))
        \/ kind[s] = "junk" /\ HandleSend(s, Json("1"))
    BY <1>8 DEF UploadFind
  <2>2. \A t \in Sessions \ {s} : pc'[t] = pc[t]
    BY <1>1, <1>8, AnswerTypes, SendMoves DEF UploadFind, Goto, TypeOK
  <2>3. Onward(s)
    BY <1>1, <1>2, <1>3, <1>5, <2>2 DEF Onward, session, TypeOK
  <2>4. kind[s] = "upload" => Expected(kind[s]) = Json("0")
    BY DEF Expected, Files
  <2>5. kind[s] = "junk" => Expected(kind[s]) = Json("1")
    BY DEF Expected
  <2>6. QED
    BY <1>3, <1>7, <2>1, <2>3, <2>4, <2>5, AnswerKeeps DEF Reason
<1>9. CASE StoreFile(s) \/ Tag(s)
  <2>1. \/ UNCHANGED answer
        \/ HandleSend(s, Json("0"))
        \/ Throws /\ HandleSend(s, Json("1"))
    BY <1>9 DEF StoreFile, Tag
  <2>2. \A t \in Sessions \ {s} : pc'[t] = pc[t]
    BY <1>1, <1>9, AnswerTypes, SendMoves DEF StoreFile, Tag, Goto, TypeOK
  <2>3. Onward(s)
    BY <1>1, <1>2, <1>3, <1>5, <2>2 DEF Onward, session, TypeOK
  <2>4. kind[s] = "upload"
    BY <1>1, <1>9 DEF StoreFile, Tag, Local
  <2>5. Expected(kind[s]) = Json("0")
    BY <2>4 DEF Expected, Files
  <2>6. QED
    BY <1>3, <1>6, <1>7, <2>1, <2>3, <2>5, AnswerKeeps DEF Reason
<1>10. CASE Find(s) \/ FindOri(s)
  <2>1. UNCHANGED answer /\ \A t \in Sessions \ {s} : pc'[t] = pc[t]
    BY <1>1, <1>10 DEF Find, FindOri, DownloadMissing, Goto, TypeOK
  <2>2. Onward(s)
    BY <1>1, <1>2, <1>3, <1>5, <2>1 DEF Onward, session, TypeOK
  <2>3. QED
    BY <2>1, <2>2, AnswerKeeps
<1>11. CASE Get(s) \/ GetOri(s)
  <2>1. \/ UNCHANGED answer
        \/ kind[s] \in Files /\ HandleSend(s, Picture)
        \/ /\ kind[s] = "rendition" /\ (first[s]["rendition"] # "visible" \/ faults > 0)
           /\ HandleSend(s, Empty)
    BY <1>1, <1>11 DEF Get, GetOri, DownloadMissing, Local
  <2>2. \A t \in Sessions \ {s} : pc'[t] = pc[t]
    BY <1>1, <1>11, AnswerTypes, SendMoves DEF Get, GetOri, DownloadMissing, Goto, TypeOK
  <2>3. Onward(s)
    BY <1>1, <1>2, <1>3, <1>5, <2>2 DEF Onward, session, TypeOK
  <2>4. kind[s] \in Files => Expected(kind[s]) = Picture
    BY DEF Expected, Files
  <2>5. CASE /\ kind[s] = "rendition" /\ (first[s]["rendition"] # "visible" \/ faults > 0)
             /\ HandleSend(s, Empty)
    <3>1. ~Regular(s)' /\ ~Seen(s)'
      BY <1>1, <1>2, <1>5, <2>5 DEF Regular, Seen, session
    <3>2. Reason(s, Empty)
      BY <1>3, <3>1, AnswerTypes DEF Reason
    <3>3. QED
      BY <2>3, <2>5, <3>2, AnswerKeeps
  <2>6. QED
    BY <1>3, <1>7, <2>1, <2>3, <2>4, <2>5, AnswerKeeps DEF Reason
<1>12. CASE RunFind(s) \/ RunGet(s)
  <2>1. UNCHANGED answer \/ \E n \in Nat : HandleSend(s, Waited(n))
    <3>1. data[s] + 1 \in Nat /\ data[s] + 2 \in Nat
      BY <1>1
    <3>2. QED
      BY <1>1, <1>12, <3>1 DEF RunFind, RunGet, Resume
  <2>2. \A t \in Sessions \ {s} : pc'[t] = pc[t]
    <3>1. Goto(s, "runGet") \/ Goto(s, "closed") \/ \E n \in Nat : HandleSend(s, Waited(n))
      <4>1. \/ Goto(s, "runGet")
            \/ Resume(s, data[s]) \/ Resume(s, data[s] + 1) \/ Resume(s, data[s] + 2)
        BY <1>12 DEF RunFind, RunGet
      <4>2. \A n \in Nat : Resume(s, n) => Goto(s, "closed") \/ HandleSend(s, Waited(n))
        BY DEF Resume
      <4>3. data[s] + 1 \in Nat /\ data[s] + 2 \in Nat
        BY <1>1
      <4>4. QED
        BY <1>1, <4>1, <4>2, <4>3
    <3>2. QED
      BY <1>1, <3>1, AnswerTypes, SendMoves DEF Goto, TypeOK
  <2>3. Onward(s)
    BY <1>1, <1>2, <1>3, <1>5, <2>2 DEF Onward, session, TypeOK
  <2>4. ~Regular(s)'
    BY <1>1, <1>2, <1>12 DEF RunFind, RunGet, Local, Regular
  <2>5. \A n \in Nat : Reason(s, Waited(n))
    BY <1>3, <2>4, AnswerTypes, Distinct DEF Reason
  <2>6. QED
    BY <2>1, <2>3, <2>5, AnswerKeeps
<1>13. QED
  BY <1>8, <1>9, <1>10, <1>11, <1>12 DEF Step

\* A callback that begins: a request, a report, a blocked send, or the end.
LEMMA EventAnswers ==
  ASSUME ControlInv, AnswerInv, NEW s \in Sessions,
         Accept(s) \/ HandleRecv(s) \/ HandleOut(s) \/ Hangup(s) \/ HandleRun(s)
  PROVE  AnswerInv'
<1>1. /\ TypeOK /\ Local(s) /\ Unasked(s) /\ Answered(s) /\ faults \in Nat /\ inputs[s] \in Nat
      /\ data[s] \in Nat /\ resp[s] \in Responses
  BY ServiceAssumption DEF ControlInv, AnswerInv, TypeOK
<1>2. UNCHANGED <<kind, faults>>
  BY Zenon DEF Accept, HandleRecv, HandleOut, Hangup, HandleRun, RunTake, RunTimeout, RunAgain,
               session
<1>3. CASE Accept(s) \/ Hangup(s) \/ RunTimeout(s)
  <2>1. UNCHANGED <<answer, inputs, took, first>> /\ (Goto(s, "idle") \/ Goto(s, "closed"))
    BY <1>3 DEF Accept, Hangup, RunTimeout, session
  <2>2. Onward(s)
    BY <1>1, <1>2, <2>1 DEF Onward, Goto, TypeOK, Unasked
  <2>3. QED
    BY <2>1, <2>2, AnswerKeeps
<1>4. CASE HandleRecv(s)
  <2>1. /\ inputs' = [inputs EXCEPT ![s] = @ + 1] /\ UNCHANGED took
        /\ first' = IF inputs[s] = 0 THEN [first EXCEPT ![s] = db] ELSE first
    BY <1>4, Zenon DEF HandleRecv
  <2>2. \/ UNCHANGED answer /\ (Goto(s, "closed") \/ Goto(s, "find"))
        \/ kind[s] \in {"failed", "done", "silent"} /\ HandleSend(s, Json("0"))
        \/ kind[s] = "garbled" /\ HandleSend(s, Json("1"))
    <3>1. \/ UNCHANGED answer /\ (Goto(s, "closed") \/ Goto(s, "find"))
          \/ /\ kind[s] = "failed" \/ kind[s] = "done" \/ kind[s] = "silent"
             /\ HandleSend(s, Json("0"))
          \/ kind[s] = "garbled" /\ HandleSend(s, Json("1"))
      BY <1>4, Zenon DEF HandleRecv, Transcode
    <3>2. QED
      BY <3>1
  <2>3. \A t \in Sessions \ {s} : pc'[t] = pc[t]
    BY <1>1, <2>2, AnswerTypes, SendMoves DEF Goto, TypeOK
  <2>4. inputs'[s] > 0
    BY <1>1, <2>1 DEF TypeOK
  <2>5. \A t \in Sessions : first'[t] = first[t] \/ inputs[t] = 0
    BY <1>1, <2>1 DEF TypeOK
  <2>6. Onward(s)
    BY <1>1, <1>2, <2>1, <2>3, <2>4, <2>5 DEF Onward, TypeOK
  <2>7. /\ kind[s] \in {"failed", "done", "silent"} => Expected(kind[s]) = Json("0")
        /\ kind[s] = "garbled" => Expected(kind[s]) = Json("1")
    BY DEF Expected, Files
  <2>8. QED
    BY <2>2, <2>4, <2>6, <2>7, AnswerTypes, Distinct, AnswerKeeps DEF Reason
<1>5. CASE HandleOut(s)
  <2>1. /\ UNCHANGED <<inputs, took, first>> /\ resp[s] # NoResponse
        /\ HandleSend(s, resp[s])
    BY <1>5 DEF HandleOut, session
  <2>2. inputs[s] > 0 /\ \A t \in Sessions \ {s} : pc'[t] = pc[t]
    BY <1>1, <2>1, SendMoves DEF Unasked
  <2>3. Onward(s)
    BY <1>1, <1>2, <2>1, <2>2 DEF Onward, TypeOK
  <2>4. (Regular(s)' => Regular(s)) /\ (Seen(s)' => Seen(s))
    BY <2>2, <2>3, WasRegular
  <2>5. Reason(s, resp[s])
    BY <1>1, <2>1, <2>2, <2>4 DEF Reason, Answered
  <2>6. QED
    BY <2>1, <2>3, <2>5, AnswerKeeps
<1>6. CASE RunTake(s)
  <2>1. /\ UNCHANGED <<answer, inputs, first>> /\ inputs[s] > 0
        /\ took' = [took EXCEPT ![s] = TRUE] /\ \E p : Goto(s, p)
    BY <1>6 DEF RunTake, OfRendition, session
  <2>2. Onward(s)
    BY <1>1, <1>2, <2>1 DEF Onward, Goto, TypeOK
  <2>3. QED
    BY <2>1, <2>2, AnswerKeeps
<1>7. CASE RunAgain(s)
  <2>1. /\ UNCHANGED <<inputs, took, first>> /\ took[s] /\ HandleSend(s, Waited(data[s]))
    BY <1>1, <1>7 DEF RunAgain, Local, session
  <2>2. inputs[s] > 0 /\ \A t \in Sessions \ {s} : pc'[t] = pc[t]
    BY <1>1, <2>1, AnswerTypes, SendMoves DEF Unasked
  <2>3. Onward(s)
    BY <1>1, <1>2, <2>1, <2>2 DEF Onward, TypeOK
  <2>4. ~Regular(s)'
    BY <2>1 DEF Regular
  <2>5. Reason(s, Waited(data[s]))
    BY <1>1, <2>1, <2>2, <2>4, AnswerTypes, Distinct DEF Reason
  <2>6. QED
    BY <2>1, <2>3, <2>5, AnswerKeeps
<1>8. QED
  BY <1>3, <1>4, <1>5, <1>6, <1>7 DEF HandleRun

LEMMA InitAnswers == Init => AnswerInv
  BY Distinct DEF Init, AnswerInv, Unasked, Answered

LEMMA NextAnswers == ControlInv /\ AnswerInv /\ [Next]_vars => AnswerInv'
<1> SUFFICES ASSUME ControlInv, AnswerInv, [Next]_vars PROVE AnswerInv'
  OBVIOUS
<1>1. CASE UNCHANGED vars \/ RenditionStored \/ \E k \in {"original", "rendition"} : Replicate(k)
  <2>1. UNCHANGED <<session, pc, answer, faults, took, first>>
    BY <1>1 DEF vars, RenditionStored, Replicate
  <2>2. QED
    BY <2>1 DEF AnswerInv, Unasked, Answered, Regular, Seen, session, answer
<1>2. QED
  BY <1>1, CallbackAnswers, EventAnswers DEF Next

\* The parts a peer receives are numbered as they were sent, none twice and none left out, and
\* belong to one answer, with any number of connections, blocked sends, repeated requests and
\* failures, with the three exceptions that the property names.
THEOREM OneAnswerEach == Spec => []OneAnswer
<1>1. ASSUME ControlInv, AnswerInv PROVE OneAnswer
  <2>1. faults \in Nat
    BY <1>1, ServiceAssumption DEF ControlInv, TypeOK
  <2>2. ASSUME NEW s \in Sessions
        PROVE  /\ Torn(s) => ~Regular(s)
               /\ \A i \in 1 .. Len(wire[s]) : wire[s][i][2] = i
    BY <1>1 DEF AnswerInv, Torn, Answered
  <2>3. ASSUME NEW s \in Sessions, ~Regular(s)
        PROVE  \/ took[s] \/ faults > 0
               \/ kind[s] = "rendition" /\ first[s]["rendition"] # "visible"
    BY <2>1, <2>3 DEF Regular
  <2>4. QED
    BY <2>2, <2>3, Zenon DEF OneAnswer
<1>2. QED
  BY <1>1, InitControl, NextControl, InitAnswers, NextAnswers, PTL DEF Spec

\* A connection that receives an empty picture asked for a rendition that was not to be seen
\* when it asked, or lost a lookup.
THEOREM EmptyMeansMissing == Spec => []EmptyOnlyIfMissing
<1>1. ASSUME ControlInv, AnswerInv PROVE EmptyOnlyIfMissing
  <2>1. faults \in Nat
    BY <1>1, ServiceAssumption DEF ControlInv, TypeOK
  <2>2. ASSUME NEW s \in Sessions, NEW i \in 1 .. Len(wire[s]), wire[s][i][1] = Empty
        PROVE  ~Seen(s)
    BY <1>1, <2>2 DEF AnswerInv, Answered
  <2>3. \A s \in Sessions : ~Seen(s) => first[s]["rendition"] # "visible" \/ faults > 0
    BY <2>1 DEF Seen
  <2>4. QED
    BY <2>2, <2>3, Zenon DEF EmptyOnlyIfMissing
<1>2. QED
  BY <1>1, InitControl, NextControl, InitAnswers, NextAnswers, PTL DEF Spec
-----------------------------------------------------------------------------
\* A worker is in at most one callback: this is what bounds the uploads that are between
\* the lookup and the store.
Turn ==
  /\ \A s \in Sessions : pc[s] # "new" => home[s] \in Workers
  /\ \A s, t \in Sessions :
       pc[s] \in InCallback /\ pc[t] \in InCallback /\ home[s] = home[t] => s = t

Storing == {s \in Sessions : pc[s] \in {"store", "tag"}}

\* The uploads between the two will be late, each of them, if the original is visible.
LateInv ==
  IF db["original"] = "visible"
  THEN late + Cardinality(Storing) <= Cardinality(Workers) + faults
  ELSE late = 0

CopiesInv == Turn /\ LateInv

\* A step of a connection goes on with its callback or begins one when its worker is free.
Goes(s) ==
  /\ \A t \in Sessions \ {s} : pc'[t] = pc[t] /\ home'[t] = home[t]
  /\ \/ home' = home /\ pc[s] # "new"
     \/ pc'[s] = "idle" /\ home'[s] \in Workers
  /\ pc'[s] # "new"
  /\ pc'[s] \in InCallback => pc[s] \in InCallback \/ Free(s)

LEMMA TurnKeeps ==
  ASSUME Turn, NEW s \in Sessions, Goes(s)
  PROVE  Turn'
<1>1. ASSUME NEW t \in Sessions, pc'[t] # "new" PROVE home'[t] \in Workers
  BY <1>1 DEF Turn, Goes
<1>2. "idle" \notin InCallback
  BY DEF InCallback
<1>3. ASSUME NEW t \in Sessions, t # s,
             pc'[s] \in InCallback, pc'[t] \in InCallback, home'[s] = home'[t]
      PROVE  FALSE
  <2>1. home'[s] = home[s] /\ pc[t] \in InCallback /\ home[t] = home[s]
    BY <1>2, <1>3 DEF Goes
  <2>2. pc[s] \notin InCallback
    BY <1>3, <2>1 DEF Turn
  <2>3. QED
    BY <1>3, <2>1, <2>2 DEF Goes, Free
<1>4. ASSUME NEW t \in Sessions, NEW u \in Sessions,
             pc'[t] \in InCallback, pc'[u] \in InCallback, home'[t] = home'[u]
      PROVE  t = u
  <2>1. CASE t # s /\ u # s
    BY <1>4, <2>1 DEF Turn, Goes
  <2>2. QED
    BY <1>3, <1>4, <2>1
<1>5. QED
  BY <1>1, <1>4 DEF Turn

LEMMA StoringBound ==
  ASSUME Turn
  PROVE  /\ IsFiniteSet(Storing) /\ Cardinality(Storing) \in Nat
         /\ Cardinality(Workers) \in Nat /\ Cardinality(Storing) <= Cardinality(Workers)
<1>1. IsFiniteSet(Workers)
  BY ServiceAssumption
<1> DEFINE f == [s \in Storing |-> home[s]]
<1>2. \A s \in Storing : s \in Sessions /\ pc[s] \in InCallback /\ pc[s] # "new"
  BY DEF Storing, InCallback
<1>3. f \in [Storing -> Workers]
  BY <1>2 DEF Turn
<1>4. \A s, t \in Storing : f[s] = f[t] => s = t
  BY <1>2 DEF Turn
<1>5. f \in Injection(Storing, Workers)
  BY <1>3, <1>4, Zenon DEF Injection, IsInjective
<1>6. IsFiniteSet(Storing) /\ Cardinality(Storing) <= Cardinality(Workers)
  BY <1>1, <1>5, FS_Injection
<1>7. QED
  BY <1>1, <1>6, FS_CardinalityType

\* No connection begins to store.
LEMMA NoneBegins ==
  ASSUME ControlInv, CopiesInv, NEW s \in Sessions, Goes(s),
         UNCHANGED late, db'["original"] = db["original"],
         faults' \in Nat, faults' >= faults,
         pc'[s] \in {"store", "tag"} => pc[s] \in {"store", "tag"}
  PROVE  CopiesInv'
<1>1. Turn'
  BY TurnKeeps DEF CopiesInv
<1>2. Storing' \subseteq Storing
  BY DEF Storing, Goes
<1>3. /\ IsFiniteSet(Storing) /\ Cardinality(Storing) \in Nat /\ Cardinality(Workers) \in Nat
      /\ late \in Nat /\ faults \in Nat
  BY StoringBound, ServiceAssumption DEF CopiesInv, ControlInv, TypeOK
<1>4. Cardinality(Storing') <= Cardinality(Storing) /\ Cardinality(Storing') \in Nat
  BY <1>2, <1>3, FS_Subset, FS_CardinalityType
<1>5. LateInv'
  BY <1>3, <1>4 DEF CopiesInv, LateInv
<1>6. QED
  BY <1>1, <1>5 DEF CopiesInv

\* One begins to store although the original is visible: its lookup failed.
LEMMA OneBegins ==
  ASSUME ControlInv, CopiesInv, NEW s \in Sessions, Goes(s),
         UNCHANGED stored, Miss("original")
  PROVE  CopiesInv'
<1>1. Turn'
  BY TurnKeeps DEF CopiesInv
<1>2. Storing' \in SUBSET (Storing \cup {s})
  BY DEF Storing, Goes
<1>3. /\ IsFiniteSet(Storing) /\ Cardinality(Storing) \in Nat /\ Cardinality(Workers) \in Nat
      /\ late \in Nat /\ faults \in Nat
  BY StoringBound, ServiceAssumption DEF CopiesInv, ControlInv, TypeOK
<1>4. /\ IsFiniteSet(Storing \cup {s})
      /\ Cardinality(Storing \cup {s}) \in {Cardinality(Storing), Cardinality(Storing) + 1}
  BY <1>3, FS_AddElement, Zenon
<1>5. /\ Cardinality(Storing') <= Cardinality(Storing \cup {s}) /\ Cardinality(Storing') \in Nat
  BY <1>2, <1>4, FS_Subset, FS_CardinalityType
<1>6. Cardinality(Storing') <= Cardinality(Storing) + 1
  BY <1>3, <1>4, <1>5
<1>7. db["original"] = "visible" => faults' = faults + 1
  BY DEF Miss, Throws
<1>8. LateInv'
  BY <1>3, <1>5, <1>6, <1>7 DEF CopiesInv, LateInv, stored
<1>9. QED
  BY <1>1, <1>8 DEF CopiesInv

\* One that stored names its copy.
LEMMA OneNames ==
  ASSUME ControlInv, CopiesInv, NEW s \in Sessions, Goes(s), pc[s] = "tag",
         pc'[s] \in {"idle", "closed"}, SetOid(s), UNCHANGED faults
  PROVE  CopiesInv'
<1>1. Turn'
  BY TurnKeeps DEF CopiesInv
<1>2. Storing' = Storing \ {s} /\ s \in Storing
  BY DEF Storing, Goes
<1>3. /\ IsFiniteSet(Storing) /\ Cardinality(Storing) \in Nat /\ Cardinality(Workers) \in Nat
      /\ late \in Nat /\ faults \in Nat /\ db \in [Files -> States]
  BY StoringBound, ServiceAssumption DEF CopiesInv, ControlInv, TypeOK, Files, States
<1>4. Cardinality(Storing') = Cardinality(Storing) - 1
  BY <1>2, <1>3, FS_RemoveElement, Zenon
<1>5. LateInv'
  <2>1. CASE db["original"] = "visible"
    <3>1. late' = late + 1 /\ db' = db
      BY <2>1 DEF SetOid
    <3>2. QED
      BY <1>3, <1>4, <2>1, <3>1 DEF CopiesInv, LateInv
  <2>2. CASE db["original"] # "visible"
    <3>1. late' = late /\ db'["original"] # "visible"
      BY <1>3, <2>2 DEF SetOid, Files
    <3>2. QED
      BY <2>2, <3>1 DEF CopiesInv, LateInv
  <2>3. QED
    BY <2>1, <2>2
<1>6. QED
  BY <1>1, <1>5 DEF CopiesInv

\* The labels of a step.
LEMMA CallbackGoes ==
  ASSUME ControlInv, NEW s \in Sessions, Step(s)
  PROVE  /\ Goes(s) /\ faults' \in Nat /\ faults' >= faults
         /\ \/ /\ UNCHANGED stored
               /\ pc'[s] \in {"store", "tag"} => pc[s] \in {"store", "tag"} \/ Miss("original")
            \/ /\ pc[s] = "tag" /\ pc'[s] \in {"idle", "closed"} /\ SetOid(s) /\ UNCHANGED faults
<1>1. TypeOK /\ faults \in Nat /\ data[s] \in Nat
  BY ServiceAssumption DEF ControlInv, TypeOK
<1>2. UNCHANGED session /\ pc[s] \in InCallback
  BY DEF Step, UploadFind, StoreFile, Tag, Find, Get, FindOri, GetOri, RunFind, RunGet, InCallback
<1>3. UNCHANGED faults \/ Throws
  BY DEF Step, UploadFind, StoreFile, Tag, Find, Get, FindOri, GetOri, RunFind, RunGet, Hit, Miss
<1>4. \/ \E r \in Responses : HandleSend(s, r)
      \/ UNCHANGED stored /\ Goto(s, "store") /\ Miss("original")
      \/ UNCHANGED stored /\ Goto(s, "tag") /\ pc[s] = "store"
      \/ UNCHANGED stored /\ \E p \in {"get", "closed", "findOri", "getOri", "runGet"} : Goto(s, p)
  <2>1. CASE UploadFind(s)
    BY <2>1, AnswerTypes DEF UploadFind
  <2>2. CASE StoreFile(s) \/ Tag(s)
    BY <2>2, AnswerTypes DEF StoreFile, Tag
  <2>3. CASE Find(s) \/ FindOri(s)
    BY <2>3 DEF Find, FindOri, DownloadMissing
  <2>4. CASE Get(s) \/ GetOri(s)
    BY <2>4, AnswerTypes DEF Get, GetOri, DownloadMissing
  <2>5. CASE RunFind(s) \/ RunGet(s)
    <3>1. \A n \in Nat : Resume(s, n) => Goto(s, "closed") \/ \E r \in Responses : HandleSend(s, r)
      BY AnswerTypes DEF Resume
    <3>2. data[s] + 1 \in Nat /\ data[s] + 2 \in Nat
      BY <1>1
    <3>3. UNCHANGED stored
      BY <2>5 DEF RunFind, RunGet
    <3>4. \/ Goto(s, "runGet")
          \/ Resume(s, data[s]) \/ Resume(s, data[s] + 1) \/ Resume(s, data[s] + 2)
      BY <2>5 DEF RunFind, RunGet
    <3>5. QED
      BY <1>1, <3>1, <3>2, <3>3, <3>4
  <2>6. QED
    BY <2>1, <2>2, <2>3, <2>4, <2>5 DEF Step
<1>5. UNCHANGED stored \/ (pc[s] = "tag" /\ SetOid(s) /\ UNCHANGED faults
                           /\ HandleSend(s, Json("0")))
  BY DEF Step, UploadFind, StoreFile, Tag, Find, Get, FindOri, GetOri, RunFind, RunGet
<1>6. /\ \A t \in Sessions \ {s} : pc'[t] = pc[t]
      /\ \/ pc'[s] \in {"idle", "closed"}
         \/ UNCHANGED stored /\ pc'[s] = "store" /\ Miss("original")
         \/ UNCHANGED stored /\ pc'[s] = "tag" /\ pc[s] = "store"
         \/ UNCHANGED stored /\ pc'[s] \in {"get", "closed", "findOri", "getOri", "runGet"}
  BY <1>1, <1>4, SendMoves DEF Goto, TypeOK
<1>7. HandleSend(s, Json("0")) => pc'[s] \in {"idle", "closed"}
  BY <1>1, AnswerTypes, SendMoves
<1>8. Goes(s)
  BY <1>2, <1>6 DEF Goes, InCallback, session
<1>9. faults' \in Nat /\ faults' >= faults
  BY <1>1, <1>3 DEF Throws
<1>10. QED
  BY <1>5, <1>6, <1>7, <1>8, <1>9

LEMMA EventGoes ==
  ASSUME ControlInv, NEW s \in Sessions,
         Accept(s) \/ HandleRecv(s) \/ HandleOut(s) \/ Hangup(s) \/ HandleRun(s)
  PROVE  Goes(s) /\ UNCHANGED <<stored, faults>> /\ pc'[s] \notin {"store", "tag"}
<1>1. TypeOK /\ data[s] \in Nat /\ resp[s] \in Responses
  BY DEF ControlInv, TypeOK
<1>2. UNCHANGED <<stored, faults>>
  BY Zenon DEF Accept, HandleRecv, HandleOut, Hangup, HandleRun, RunTake, RunTimeout, RunAgain
<1>3. CASE Accept(s)
  <2>1. PICK w \in Turns[s] : home' = [home EXCEPT ![s] = w]
    BY <1>3 DEF Accept
  <2>2. w \in Workers /\ Goto(s, "idle")
    BY <1>3, ServiceAssumption DEF Accept
  <2>3. QED
    BY <1>1, <1>2, <2>1, <2>2 DEF Goes, Goto, TypeOK, InCallback
<1>4. CASE HandleRecv(s) \/ HandleOut(s) \/ Hangup(s) \/ HandleRun(s)
  <2>1. pc[s] = "idle" /\ Free(s) /\ UNCHANGED home
    BY <1>4, Zenon DEF HandleRecv, HandleOut, Hangup, HandleRun, RunTake, RunTimeout, RunAgain,
                       session
  <2>2. \/ \E p \in {"closed", "find", "runFind"} : Goto(s, p)
        \/ \E r \in Responses : HandleSend(s, r)
    <3>1. CASE HandleRecv(s)
      <4>1. \/ Goto(s, "closed") \/ Goto(s, "find")
            \/ HandleSend(s, Json("0")) \/ HandleSend(s, Json("1"))
        BY <3>1, Zenon DEF HandleRecv, Transcode
      <4>2. QED
        BY <4>1, AnswerTypes
    <3>2. CASE HandleOut(s) \/ Hangup(s) \/ HandleRun(s)
      BY <1>1, <3>2, AnswerTypes DEF HandleOut, Hangup, HandleRun, RunTake, RunTimeout, RunAgain
    <3>3. QED
      BY <1>4, <3>1, <3>2
  <2>3. /\ \A t \in Sessions \ {s} : pc'[t] = pc[t]
        /\ pc'[s] \in {"closed", "find", "runFind", "idle"}
    BY <1>1, <2>2, SendMoves DEF Goto, TypeOK
  <2>4. QED
    BY <1>2, <2>1, <2>3 DEF Goes
<1>5. QED
  BY <1>3, <1>4

LEMMA NextCopies == ControlInv /\ CopiesInv /\ [Next]_vars => CopiesInv'
<1> SUFFICES ASSUME ControlInv, CopiesInv, [Next]_vars PROVE CopiesInv'
  OBVIOUS
<1>1. faults \in Nat /\ db \in [Files -> States]
  BY ServiceAssumption DEF ControlInv, TypeOK, Files, States
<1>2. ASSUME NEW s \in Sessions, Step(s) PROVE CopiesInv'
  BY <1>2, CallbackGoes, NoneBegins, OneBegins, OneNames DEF stored
<1>3. ASSUME NEW s \in Sessions,
             Accept(s) \/ HandleRecv(s) \/ HandleOut(s) \/ Hangup(s) \/ HandleRun(s)
      PROVE  CopiesInv'
  <2>1. Goes(s) /\ UNCHANGED <<stored, faults>> /\ pc'[s] \notin {"store", "tag"}
    BY <1>3, EventGoes
  <2>2. QED
    BY <1>1, <2>1, NoneBegins DEF stored
<1>4. CASE UNCHANGED vars \/ RenditionStored \/ \E k \in Files : Replicate(k)
  <2>1. UNCHANGED <<home, pc, late, faults>>
    BY <1>4 DEF vars, RenditionStored, Replicate, session, stored
  <2>2. Turn' /\ Storing' = Storing
    BY <2>1 DEF CopiesInv, Turn, Storing
  <2>3. \/ db'["original"] = db["original"]
        \/ db["original"] # "visible" /\ db'["original"] = "visible"
    BY <1>1, <1>4 DEF vars, RenditionStored, Replicate, stored, Files
  <2>4. Cardinality(Storing) <= Cardinality(Workers) + faults
    BY <1>1, StoringBound DEF CopiesInv
  <2>5. LateInv'
    BY <1>1, <2>1, <2>2, <2>3, <2>4, StoringBound DEF CopiesInv, LateInv
  <2>6. QED
    BY <2>2, <2>5 DEF CopiesInv
<1>5. QED
  BY <1>2, <1>3, <1>4 DEF Next, Files

\* However the lookups and stores of the workers interleave, the copies made although the
\* original was to be seen are at most one per worker and one per failed call.
THEOREM LateCopiesAreFew == Spec => []FewLateCopies
<1>1. Init => CopiesInv
  <2> SUFFICES ASSUME Init PROVE CopiesInv
    OBVIOUS
  <2>1. Turn /\ Storing = {}
    BY DEF Init, Turn, Storing, InCallback
  <2>2. late = 0 /\ faults = 0 /\ Cardinality(Storing) <= Cardinality(Workers) + 0
    BY <2>1, StoringBound DEF Init
  <2>3. QED
    BY <2>1, <2>2, StoringBound DEF CopiesInv, LateInv
<1>2. ASSUME ControlInv, CopiesInv PROVE FewLateCopies
  <2>1. late \in Nat /\ faults \in Nat /\ TypeOK
    BY <1>2, ServiceAssumption DEF ControlInv, TypeOK
  <2>2. QED
    BY <1>2, <2>1, StoringBound DEF CopiesInv, LateInv, FewLateCopies
<1>3. QED
  BY <1>1, <1>2, InitControl, NextControl, NextCopies, PTL DEF Spec
=============================================================================
