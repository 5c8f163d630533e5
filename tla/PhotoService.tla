---------------------------- MODULE PhotoService ----------------------------
(***************************************************************************)
(* The requests of the photo service: tcp_netio (one object per            *)
(* connection, run by the epoll worker that owns it), the handlers of      *)
(* /upload, /download and /transcode, session_mgr and, in the database,    *)
(* one picture and one rendition of it.                                    *)
(*                                                                         *)
(* A callback runs to its end before its worker runs another one; the      *)
(* database accesses of different workers interleave.  The database        *)
(* answers lookups from secondaries (readPreference secondaryPreferred),   *)
(* also the second one, so that a file may be missed until it is           *)
(* replicated.  EpollService models the threads and the sockets.           *)
(***************************************************************************)
EXTENDS Naturals, Sequences, FiniteSets, Functions

CONSTANTS
  Sessions,         \* connections of the run
  Workers,          \* epoll workers
  Peers,            \* what the connections may ask for together
  Turns,            \* Turns[s]: the workers whose turn it may be when s is accepted
  NoWorker,
  MaxFaults,        \* bound: database calls that throw
  MaxInputs         \* bound: read events with a complete request, all connections

\* upload of the picture, or of something that is no image; download of the original
\* or of the rendition; report that the rendition is done, or failed, or one that names
\* no error, or that is no JSON object; a request no handler accepts.
AllKinds == {"upload", "junk", "original", "rendition", "done", "failed", "silent",
             "garbled", "bad"}

ASSUME ServiceAssumption ==
  /\ Peers \subseteq [Sessions -> AllKinds]
  /\ Workers # {} /\ IsFiniteSet(Workers) /\ NoWorker \notin Workers
  /\ Turns \in [Sessions -> SUBSET Workers \ {{}}]
  /\ MaxFaults \in Nat /\ MaxInputs \in Nat

VARIABLES
  home, kind,       \* worker and request of a connection
  pc,               \* "idle": between callbacks; else the next step of its callback
  inputs,           \* read events that found a complete request
  resp, sent,       \* _response, and _snd_len in parts
  data,             \* _data, in chunks
  wire,             \* parts the peer has received
  task,             \* session_mgr::_task: the reports on the rendition, oldest first
  db,               \* db[k]: "none", "fresh" (not on the secondaries yet), "visible"
  copies,           \* tagged files of the original
  faults,           \* database calls that threw
  late, took, first \* auxiliary: copies made when the original was visible, whether a
                    \* report was taken, db when the request was first handled

session == <<home, kind, inputs>>
answer == <<resp, sent, wire>>
stored == <<db, copies, late>>
vars == <<session, pc, answer, data, task, stored, faults, took, first>>

\* A chunked body: two chunks are a picture.  handle_run packs other headers.
Picture == [is |-> "picture", body |-> 2]
Empty == [is |-> "picture", body |-> 0]
Json(error) == [is |-> error, body |-> 1]
Waited(n) == [is |-> "waited", body |-> n]
NoResponse == [is |-> "none", body |-> 0]
Responses == [is : {"none", "picture", "0", "1", "waited"}, body : Nat]
Parts(r) == 1 + r.body

InCallback == {"find", "get", "findOri", "getOri", "store", "tag", "runFind", "runGet"}

TypeOK ==
  /\ home \in [Sessions -> Workers \cup {NoWorker}]
  /\ kind \in [Sessions -> AllKinds]
  /\ pc \in [Sessions -> {"new", "idle", "closed"} \cup InCallback]
  /\ inputs \in [Sessions -> Nat]
  /\ resp \in [Sessions -> Responses]
  /\ sent \in [Sessions -> Nat] /\ data \in [Sessions -> Nat]
  /\ wire \in [Sessions -> Seq(Responses \X Nat)]
  /\ \A s \in Sessions : Len(wire[s]) = sent[s]
  /\ took \in [Sessions -> BOOLEAN]
  /\ task \in Seq({0, 1})
  /\ db \in [{"original", "rendition"} -> {"none", "fresh", "visible"}]
  /\ first \in [Sessions -> [{"original", "rendition"} -> {"none", "fresh", "visible"}]]
  /\ copies \in Nat /\ late \in Nat /\ faults \in 0 .. MaxFaults
  /\ db["original"] = "none" <=> copies = 0

Init ==
  /\ home = [s \in Sessions |-> NoWorker]
  /\ kind \in Peers
  /\ pc = [s \in Sessions |-> "new"]
  /\ inputs = [s \in Sessions |-> 0]
  /\ resp = [s \in Sessions |-> NoResponse]
  /\ sent = [s \in Sessions |-> 0] /\ data = [s \in Sessions |-> 0]
  /\ wire = [s \in Sessions |-> <<>>]
  /\ took = [s \in Sessions |-> FALSE]
  /\ task = <<>>
  /\ db \in [{"original", "rendition"} -> {"none", "visible"}]
  /\ db["original"] = "none" => db["rendition"] = "none"
  /\ copies = IF db["original"] = "none" THEN 0 ELSE 1
  /\ late = 0 /\ faults = 0
  /\ first = [s \in Sessions |-> db]

Goto(s, p) == pc' = [pc EXCEPT ![s] = p]
Free(s) == \A t \in Sessions : home[t] = home[s] => pc[t] \notin InCallback

-----------------------------------------------------------------------------
\* Mutant: _snd_len is not advanced when the send blocks.
HandleSendRestart(s, r) ==
  \E n \in 0 .. Parts(r) :
    /\ wire' = [wire EXCEPT ![s] = @ \o [i \in 1 .. n |-> <<r, i>>]]
    /\ sent' = [sent EXCEPT ![s] = @ + n]
    /\ \/ n < Parts(r) /\ Goto(s, "idle") /\ resp' = [resp EXCEPT ![s] = r]
       \/ Goto(s, "closed") /\ resp' = [resp EXCEPT ![s] = NoResponse]

\* handle_send with _response = r: sends what is left behind _snd_len, up to the part
\* at which the socket blocks or fails; all sent or failed, the connection is closed.
HandleSend(s, r) ==
  LET last == IF sent[s] < Parts(r) THEN Parts(r) ELSE sent[s]
  IN  \E n \in sent[s] .. last :
        /\ wire' = [wire EXCEPT ![s] = @ \o [i \in 1 .. n - sent[s] |-> <<r, sent[s] + i>>]]
        /\ sent' = [sent EXCEPT ![s] = n]
        /\ \/ n < Parts(r) /\ Goto(s, "idle") /\ resp' = [resp EXCEPT ![s] = r]
           \/ Goto(s, "closed") /\ resp' = [resp EXCEPT ![s] = NoResponse]

\* findfile or get_pic succeeds.
Hit(k) == db[k] # "none" /\ UNCHANGED faults

\* It does not find the file, or the driver throws.
Throws == faults < MaxFaults /\ faults' = faults + 1
Miss(k) ==
  \/ db[k] # "visible" /\ UNCHANGED faults
  \/ Throws

-----------------------------------------------------------------------------
Accept(s) ==
  /\ pc[s] = "new"
  /\ \E w \in Turns[s] : home' = [home EXCEPT ![s] = w]
  /\ Goto(s, "idle")
  /\ UNCHANGED <<kind, inputs, answer, data, task, stored, faults, took, first>>

\* The peer has gone with nothing received, or the socket has an error.
Hangup(s) ==
  /\ pc[s] = "idle" /\ Free(s)
  /\ Goto(s, "closed")
  /\ UNCHANGED <<session, answer, data, task, stored, faults, took, first>>

\* Mutant: the report of a failure is kept as one of success.
PutRespStatusOk(s) == task' = Append(task, 0)

PutRespStatus(s) == task' = Append(task, IF kind[s] = "done" THEN 0 ELSE 1)

\* The transcode handler keeps a report that names the rendition and an error.  The
\* notifier reports success only after a worker has stored the rendition.
Transcode(s) ==
  \/ /\ kind[s] = "failed" \/ (kind[s] = "done" /\ db["rendition"] # "none")
     /\ PutRespStatus(s) /\ HandleSend(s, Json("0"))
  \/ kind[s] = "silent" /\ HandleSend(s, Json("0")) /\ UNCHANGED task
  \/ kind[s] = "garbled" /\ HandleSend(s, Json("1")) /\ UNCHANGED task

\* handle_recv and proto_dispatcher::process.  The request stays in _request: every
\* later read event, of more bytes or of the end of the stream, handles it again.
HandleRecv(s) ==
  /\ pc[s] = "idle" /\ Free(s) /\ FoldFunction(+, 0, inputs) < MaxInputs
  /\ inputs' = [inputs EXCEPT ![s] = @ + 1]
  /\ first' = IF inputs[s] = 0 THEN [first EXCEPT ![s] = db] ELSE first
  /\ \/ /\ kind[s] = "bad" /\ Goto(s, "closed")
        /\ UNCHANGED <<answer, task>>
     \/ /\ kind[s] \in {"upload", "junk", "original", "rendition"} /\ Goto(s, "find")
        /\ UNCHANGED <<answer, task>>
     \/ Transcode(s)
  /\ UNCHANGED <<home, kind, data, stored, faults, took>>

\* Mutant: the picture is stored without looking for it.
UploadFindSkipped(s) ==
  /\ pc[s] = "find" /\ kind[s] \in {"upload", "junk"}
  /\ \/ kind[s] = "upload" /\ Goto(s, "store") /\ UNCHANGED answer
     \/ kind[s] = "junk" /\ HandleSend(s, Json("1"))
  /\ UNCHANGED <<session, data, task, stored, faults, took, first>>

\* The upload handler: findfile, and store_pic unless it was found; store_pic refuses
\* what is no image.
UploadFind(s) ==
  /\ pc[s] = "find" /\ kind[s] \in {"upload", "junk"}
  /\ \/ kind[s] = "upload" /\ Hit("original") /\ HandleSend(s, Json("0"))
     \/ kind[s] = "upload" /\ Miss("original") /\ Goto(s, "store") /\ UNCHANGED answer
     \/ kind[s] = "junk" /\ (UNCHANGED faults \/ Throws) /\ HandleSend(s, Json("1"))
  /\ UNCHANGED <<session, data, task, stored, took, first>>

\* storeFile: the file is there, but no lookup matches it before it has its oid.
StoreFile(s) ==
  /\ pc[s] = "store"
  /\ \/ UNCHANGED faults /\ Goto(s, "tag") /\ UNCHANGED answer
     \/ Throws /\ HandleSend(s, Json("1"))
  /\ UNCHANGED <<session, data, task, stored, took, first>>

\* The update of its oid, width and height.
SetOid(s) ==
  /\ copies' = copies + 1
  /\ late' = late + (IF db["original"] = "visible" THEN 1 ELSE 0)
  /\ db' = IF db["original"] = "none" THEN [db EXCEPT !["original"] = "fresh"] ELSE db

\* Mutant: the result of the update is not looked at.
TagUnchecked(s) ==
  /\ pc[s] = "tag"
  /\ \/ UNCHANGED faults /\ SetOid(s)
     \/ Throws /\ UNCHANGED stored
  /\ HandleSend(s, Json("0"))
  /\ UNCHANGED <<session, data, task, took, first>>

Tag(s) ==
  /\ pc[s] = "tag"
  /\ \/ UNCHANGED faults /\ SetOid(s) /\ HandleSend(s, Json("0"))
     \/ Throws /\ UNCHANGED stored /\ HandleSend(s, Json("1"))
  /\ UNCHANGED <<session, data, task, took, first>>

-----------------------------------------------------------------------------
\* The download handler.
DownloadMissing(s) ==
  /\ Goto(s, IF kind[s] = "rendition" THEN "findOri" ELSE "closed")
  /\ UNCHANGED answer

Find(s) ==
  /\ pc[s] = "find" /\ kind[s] \in {"original", "rendition"}
  /\ \/ Hit(kind[s]) /\ Goto(s, "get") /\ UNCHANGED answer
     \/ Miss(kind[s]) /\ DownloadMissing(s)
  /\ UNCHANGED <<session, data, task, stored, took, first>>

\* Mutant: what get_pic_info returns is not kept.
GetIgnored(s) ==
  /\ pc[s] = "get"
  /\ Hit(kind[s]) /\ DownloadMissing(s)
  /\ UNCHANGED <<session, data, task, stored, took, first>>

Get(s) ==
  /\ pc[s] = "get"
  /\ \/ Hit(kind[s]) /\ HandleSend(s, Picture)
     \/ Miss(kind[s]) /\ DownloadMissing(s)
  /\ UNCHANGED <<session, data, task, stored, took, first>>

FindOri(s) ==
  /\ pc[s] = "findOri"
  /\ \/ Hit("original") /\ Goto(s, "getOri")
     \/ Miss("original") /\ Goto(s, "closed")
  /\ UNCHANGED <<session, answer, data, task, stored, took, first>>

\* The call that would make the rendition is commented out: the answer is an empty
\* picture, which store_deal_pic does not store.
GetOri(s) ==
  /\ pc[s] = "getOri"
  /\ \/ Hit("original") /\ HandleSend(s, Empty)
     \/ Miss("original") /\ Goto(s, "closed") /\ UNCHANGED answer
  /\ UNCHANGED <<session, data, task, stored, took, first>>

-----------------------------------------------------------------------------
\* _task_id names the rendition: the request was one for it, and was handled.
OfRendition(s) ==
  kind[s] \in {"rendition", "done", "failed", "silent"} /\ inputs[s] > 0

\* handle_run: get_resp removes the oldest report on the task.
RunTake(s) ==
  /\ pc[s] = "idle" /\ Free(s)
  /\ OfRendition(s) /\ task # <<>>
  /\ task' = Tail(task)
  /\ took' = [took EXCEPT ![s] = TRUE]
  /\ Goto(s, IF Head(task) = 0 THEN "runFind" ELSE "closed")
  /\ UNCHANGED <<session, answer, data, stored, faults, first>>

\* Mutant: the age is looked at only while nothing is to be sent.
RunTimeoutQuiet(s) ==
  /\ pc[s] = "idle" /\ Free(s) /\ resp[s] = NoResponse
  /\ Goto(s, "closed")
  /\ UNCHANGED <<session, answer, data, task, stored, faults, took, first>>

\* The connection is older than http_timeout, which nothing else depends on: the clock
\* is left out, and any round of handle_run may be the one that finds it so.
RunTimeout(s) ==
  /\ pc[s] = "idle" /\ Free(s)
  /\ Goto(s, "closed")
  /\ UNCHANGED <<session, answer, data, task, stored, faults, took, first>>

\* No report: a _data left by an earlier one is packed and sent on.
RunAgain(s) ==
  /\ pc[s] = "idle" /\ Free(s)
  /\ ~(OfRendition(s) /\ task # <<>>)
  /\ data[s] > 0
  /\ HandleSend(s, Waited(data[s]))
  /\ UNCHANGED <<session, data, task, stored, faults, took, first>>

\* What follows a report of success, with n chunks in _data.
Resume(s, n) ==
  /\ data' = [data EXCEPT ![s] = n]
  /\ \/ n = 0 /\ Goto(s, "closed") /\ UNCHANGED answer
     \/ n > 0 /\ HandleSend(s, Waited(n))

RunFind(s) ==
  /\ pc[s] = "runFind"
  /\ \/ Hit("rendition") /\ Goto(s, "runGet") /\ UNCHANGED <<answer, data>>
     \/ Miss("rendition") /\ Resume(s, data[s])
  /\ UNCHANGED <<session, task, stored, took, first>>

\* get_pic appends chunk by chunk to _data, and keeps what it has when it throws.
RunGet(s) ==
  /\ pc[s] = "runGet"
  /\ \/ Hit("rendition") /\ Resume(s, data[s] + 2)
     \/ Miss("rendition") /\ Resume(s, data[s])
     \/ Throws /\ Resume(s, data[s] + 1)
  /\ UNCHANGED <<session, task, stored, took, first>>

\* The socket is writable again.
HandleOut(s) ==
  /\ pc[s] = "idle" /\ Free(s) /\ resp[s] # NoResponse
  /\ HandleSend(s, resp[s])
  /\ UNCHANGED <<session, data, task, stored, faults, took, first>>

-----------------------------------------------------------------------------
\* proc_image of a worker process stores the rendition.
RenditionStored ==
  /\ db["original"] # "none" /\ db["rendition"] = "none"
  /\ db' = [db EXCEPT !["rendition"] = "fresh"]
  /\ UNCHANGED <<session, pc, answer, data, task, copies, late, faults, took, first>>

Replicate(k) ==
  /\ db[k] = "fresh"
  /\ db' = [db EXCEPT ![k] = "visible"]
  /\ UNCHANGED <<session, pc, answer, data, task, copies, late, faults, took, first>>

Step(s) ==
  \/ UploadFind(s) \/ StoreFile(s) \/ Tag(s)
  \/ Find(s) \/ Get(s) \/ FindOri(s) \/ GetOri(s)
  \/ RunFind(s) \/ RunGet(s)

HandleRun(s) == RunTimeout(s) \/ RunTake(s) \/ RunAgain(s)

Next ==
  \/ \E s \in Sessions :
       \/ Accept(s) \/ HandleRecv(s) \/ HandleOut(s) \/ Hangup(s)
       \/ Step(s) \/ HandleRun(s)
  \/ RenditionStored
  \/ \E k \in {"original", "rendition"} : Replicate(k)

Spec == Init /\ [][Next]_vars

\* A callback ends; and every round of a worker calls handle_run of all its connections,
\* whatever events it has served before, so that one of them finds an old one.
Fairness ==
  \A s \in Sessions : WF_vars(Step(s)) /\ SF_vars(RunTimeout(s))

LiveSpec == Spec /\ Fairness

-----------------------------------------------------------------------------
\* A client that was told its upload is stored: the picture is stored, under its name,
\* also if the second of the two writes of another upload failed.
UploadKept ==
  \A s \in Sessions :
    kind[s] = "upload" /\ <<Json("0"), 2>> \in {wire[s][i] : i \in 1 .. Len(wire[s])}
      => copies > 0

\* Once the file is to be seen by every lookup, looking before storing adds at most one
\* copy per worker, by the uploads that were between the two then, and one per failed
\* lookup.  Copies made before that, while the file is there but on no secondary yet,
\* are not bounded: each upload that misses it stores another.
FewLateCopies == TypeOK /\ late <= Cardinality(Workers) + faults

Torn(s) == \E i, j \in 1 .. Len(wire[s]) : wire[s][i][1] # wire[s][j][1]

\* A peer receives the parts of one answer, each once and in order, although blocked
\* sends are resumed by other callbacks and the request is handled again by later
\* reads; unless it took a report, a lookup failed, or the rendition came meanwhile.
OneAnswer ==
  \A s \in Sessions :
    /\ Torn(s) => \/ took[s] \/ faults > 0
                  \/ kind[s] = "rendition" /\ first[s]["rendition"] # "visible"
    /\ ~Torn(s) => \A i \in 1 .. Len(wire[s]) : wire[s][i][2] = i

\* An empty picture is the answer only for a rendition that was not to be seen when
\* the request came.
EmptyOnlyIfMissing ==
  \A s \in Sessions : \A i \in 1 .. Len(wire[s]) :
    wire[s][i][1] = Empty => first[s]["rendition"] # "visible" \/ faults > 0

\* A report of success finds its rendition, however late it is taken: handle_run looks
\* up nothing that was never stored, and the reports of failure do not reach the lookup.
\* A stale report of failure still closes the later connection that takes it.
ReportsTrue ==
  /\ (\E i \in 1 .. Len(task) : task[i] = 0) => db["rendition"] # "none"
  /\ \A s \in Sessions : pc[s] \in {"runFind", "runGet"} => db["rendition"] # "none"

\* Every connection is closed in the end, be it by its answer, its peer or its age: one
\* whose peer reads nothing, one whose request never completes, one that waits for a
\* report that does not come.
SessionEnds == <>[](\A s \in Sessions : pc[s] \in {"new", "closed"})
=============================================================================
