---------------------------- MODULE TrimPipeline ----------------------------
(***************************************************************************)
(* The whole path of a trim: the client that posts /trim (outside of this  *)
(* repository), Master, the worker processes of work/worker.py, the HTTP   *)
(* calls between them, and the part of GridFS they write.  A worker polls  *)
(* the master for a job, renders and stores the rendition, and reports.    *)
(*                                                                         *)
(* What may go wrong: an HTTP call that times out on the worker's side     *)
(* (post_data, 3 s, never retried) while its request is lost, waits at the *)
(* master or is being handled; a database call that fails (find_object and *)
(* put_object swallow the exception and return None); a worker process     *)
(* that dies; a master that is restarted.  MaxFaults bounds the first      *)
(* three together, MaxRestarts the last.                                   *)
(***************************************************************************)
EXTENDS Master

CONSTANTS
  Workers,
  Renderable,       \* keys 1..10000 wide and high whose original exists and decodes;
                    \* {} where magic.from_buffer raises on the None that decode_data
                    \* passes as long as no original has been read
  MaxTrims,         \* bound: /trim requests of each key
  MaxFaults,        \* bound: lost calls, database failures and worker crashes
  MaxRestarts       \* bound: restarts of the master

ASSUME PipelineAssumption ==
  /\ IsFiniteSet(Workers)
  /\ Renderable \subseteq Keys
  /\ MaxTrims \in [Keys -> Nat] /\ MaxFaults \in Nat /\ MaxRestarts \in Nat

VARIABLES
  wPc,              \* where WorkProcess.run is
  wJob,             \* retInfo of the job in hand and the error of its result
  conn,             \* the worker's HTTP call: "none", "request", "busy", "reply"
  answer,           \* body of the reply to an apply, valid while conn = "reply"
  strayApply,       \* apply requests at the master whose worker has given up
  strayFinish,      \* [Report -> Nat], the same for finish requests
  renditions,       \* [Keys -> Nat], files in GridFS with this oid, width, height
  trims, faults,    \* used up so far, of MaxTrims and MaxFaults
  dbFaults,         \* find_object calls that failed (auxiliary)
  lost              \* keys whose job was dropped between two parties (auxiliary)

workerVars == <<wPc, wJob, conn, answer, strayApply, strayFinish, renditions,
                faults, dbFaults, lost>>
vars == <<masterVars, workerVars, trims>>

PipelineTypeOK ==
  /\ TypeOK
  /\ wPc \in [Workers -> {"idle", "apply", "check", "put", "finish"}]
  /\ wJob \in [Workers -> Report \cup {NoReport}]
  /\ \A w \in Workers : wPc[w] \in {"check", "put", "finish"} => wJob[w] \in Report
  /\ conn \in [Workers -> {"none", "request", "busy", "reply"}]
  /\ answer \in [Workers -> Keys \cup {NoKey}]
  /\ strayApply \in Nat
  /\ strayFinish \in [Report -> Nat]
  /\ renditions \in [Keys -> Nat]
  /\ trims \in [Keys -> Nat] /\ faults \in Nat /\ dbFaults \in Nat
  /\ lost \subseteq Keys

PipelineInit ==
  /\ Init
  /\ wPc = [w \in Workers |-> "idle"]
  /\ wJob = [w \in Workers |-> NoReport]
  /\ conn = [w \in Workers |-> "none"]
  /\ answer = [w \in Workers |-> NoKey]
  /\ strayApply = 0
  /\ strayFinish = [m \in Report |-> 0]
  /\ renditions = [k \in Keys |-> 0]
  /\ trims = [k \in Keys |-> 0] /\ faults = 0 /\ dbFaults = 0
  /\ lost = {}

Fault == faults < MaxFaults /\ faults' = faults + 1

-----------------------------------------------------------------------------
(* The client and the master.                                              *)

ClientTrim(k) ==
  /\ trims[k] < MaxTrims[k] /\ trims' = [trims EXCEPT ![k] = @ + 1]
  /\ Trim(k)
  /\ UNCHANGED workerVars

MasterApply(w) ==
  /\ wPc[w] = "apply" /\ conn[w] = "request"
  /\ \/ ApplyJob /\ answer' = [answer EXCEPT ![w] = Head(jobq)]
     \/ ApplyNone /\ answer' = [answer EXCEPT ![w] = NoKey]
  /\ conn' = [conn EXCEPT ![w] = "reply"]
  /\ UNCHANGED <<wPc, wJob, strayApply, strayFinish, renditions, faults, dbFaults,
                 lost, trims>>

\* A job handed to a worker that no longer listens is gone.
MasterStrayApply ==
  /\ strayApply > 0 /\ strayApply' = strayApply - 1
  /\ \/ ApplyJob /\ lost' = lost \cup {Head(jobq)}
     \/ ApplyNone /\ UNCHANGED lost
  /\ UNCHANGED <<wPc, wJob, conn, answer, strayFinish, renditions, faults, dbFaults,
                 trims>>

MasterFinish(w) ==
  /\ wPc[w] = "finish" /\ conn[w] = "request"
  /\ FinishPut(wJob[w])
  /\ conn' = [conn EXCEPT ![w] = "busy"]
  /\ UNCHANGED <<wPc, wJob, answer, strayApply, strayFinish, renditions, faults,
                 dbFaults, lost, trims>>

MasterStrayFinish(m) ==
  /\ strayFinish[m] > 0
  /\ strayFinish' = [strayFinish EXCEPT ![m] = @ - 1]
  /\ FinishPut(m)
  /\ UNCHANGED <<wPc, wJob, conn, answer, strayApply, renditions, faults, dbFaults,
                 lost, trims>>

MasterFinishReply ==
  /\ FinishRelease
  /\ conn' = [w \in Workers |-> IF conn[w] = "busy" THEN "reply" ELSE conn[w]]
  /\ UNCHANGED <<wPc, wJob, answer, strayApply, strayFinish, renditions, faults,
                 dbFaults, lost, trims>>

MasterNotifier == Notifier /\ UNCHANGED <<workerVars, trims>>

\* Calls in progress break; replies already sent still arrive.
MasterRestart ==
  /\ restarts < MaxRestarts
  /\ Restart
  /\ conn' = [w \in Workers |-> IF conn[w] = "reply" THEN "reply" ELSE "none"]
  /\ strayApply' = 0
  /\ strayFinish' = [m \in Report |-> 0]
  /\ UNCHANGED <<wPc, wJob, answer, renditions, faults, dbFaults, lost, trims>>

-----------------------------------------------------------------------------
(* A worker.                                                               *)

SendApply(w) ==
  /\ wPc[w] = "idle"
  /\ wPc' = [wPc EXCEPT ![w] = "apply"]
  /\ conn' = [conn EXCEPT ![w] = "request"]
  /\ UNCHANGED <<masterVars, wJob, answer, strayApply, strayFinish, renditions,
                 faults, dbFaults, lost, trims>>

TakeJob(w) ==
  /\ wPc[w] = "apply" /\ conn[w] = "reply"
  /\ conn' = [conn EXCEPT ![w] = "none"]
  /\ answer' = [answer EXCEPT ![w] = NoKey]
  /\ IF answer[w] = NoKey
     THEN wPc' = [wPc EXCEPT ![w] = "idle"] /\ UNCHANGED wJob
     ELSE /\ wPc' = [wPc EXCEPT ![w] = "check"]
          /\ wJob' = [wJob EXCEPT ![w] = [key |-> answer[w], ok |-> FALSE]]
  /\ UNCHANGED <<masterVars, strayApply, strayFinish, renditions, faults, dbFaults,
                 lost, trims>>

\* run sends the report as soon as get_result returns.
SendFinish(w, ok) ==
  /\ wPc' = [wPc EXCEPT ![w] = "finish"]
  /\ conn' = [conn EXCEPT ![w] = "request"]
  /\ wJob' = [wJob EXCEPT ![w].ok = ok]

\* Mutant: the image is dealt with without looking for the rendition first.
CheckNothing(w) ==
  /\ wPc[w] = "check"
  /\ wJob[w].key \in Renderable
  /\ wPc' = [wPc EXCEPT ![w] = "put"]
  /\ UNCHANGED <<masterVars, wJob, conn, answer, strayApply, strayFinish, renditions,
                 faults, dbFaults, lost, trims>>

\* get_image_fromDB finds the original but no rendition: deal with the image.
CheckMissing(w) ==
  /\ wPc[w] = "check"
  /\ wJob[w].key \in Renderable
  /\ renditions[wJob[w].key] = 0
  /\ wPc' = [wPc EXCEPT ![w] = "put"]
  /\ UNCHANGED <<masterVars, wJob, conn, answer, strayApply, strayFinish, renditions,
                 faults, dbFaults, lost, trims>>

\* A rendition that exists already is reported as an error, as is a rendition
\* that cannot be made.
CheckRefused(w) ==
  /\ wPc[w] = "check"
  /\ \/ wJob[w].key \notin Renderable
     \/ renditions[wJob[w].key] > 0
  /\ SendFinish(w, FALSE)
  /\ UNCHANGED <<masterVars, answer, strayApply, strayFinish, renditions, faults,
                 dbFaults, lost, trims>>

\* A failed find_object looks like a missing file: of the rendition, and the
\* image is dealt with again, or of the original, and the job fails.
CheckDbFault(w) ==
  /\ wPc[w] = "check"
  /\ Fault
  /\ dbFaults' = dbFaults + 1
  /\ \/ /\ wJob[w].key \in Renderable
        /\ wPc' = [wPc EXCEPT ![w] = "put"]
        /\ UNCHANGED <<wJob, conn>>
     \/ SendFinish(w, FALSE)
  /\ UNCHANGED <<masterVars, answer, strayApply, strayFinish, renditions, lost, trims>>

PutRendition(w) ==
  /\ wPc[w] = "put"
  /\ renditions' = [renditions EXCEPT ![wJob[w].key] = @ + 1]
  /\ SendFinish(w, TRUE)
  /\ UNCHANGED <<masterVars, answer, strayApply, strayFinish, faults, dbFaults, lost,
                 trims>>

\* Mutant: the None of put_object is not looked at.
PutDbFaultIgnored(w) ==
  /\ wPc[w] = "put"
  /\ Fault
  /\ \/ renditions' = [renditions EXCEPT ![wJob[w].key] = @ + 1]
     \/ UNCHANGED renditions
  /\ SendFinish(w, TRUE)
  /\ UNCHANGED <<masterVars, answer, strayApply, strayFinish, dbFaults, lost, trims>>

\* put_object returned None; the file may have been written all the same.
PutDbFault(w) ==
  /\ wPc[w] = "put"
  /\ Fault
  /\ \/ renditions' = [renditions EXCEPT ![wJob[w].key] = @ + 1]
     \/ UNCHANGED renditions
  /\ SendFinish(w, FALSE)
  /\ UNCHANGED <<masterVars, answer, strayApply, strayFinish, dbFaults, lost, trims>>

\* The reply to a finish is only logged.
EndJob(w) ==
  /\ wPc[w] = "finish" /\ conn[w] = "reply"
  /\ wPc' = [wPc EXCEPT ![w] = "idle"]
  /\ conn' = [conn EXCEPT ![w] = "none"]
  /\ wJob' = [wJob EXCEPT ![w] = NoReport]
  /\ UNCHANGED <<masterVars, answer, strayApply, strayFinish, renditions, faults,
                 dbFaults, lost, trims>>

\* The worker is back in its loop; what it held is dropped.
Reset(w) ==
  /\ wPc' = [wPc EXCEPT ![w] = "idle"]
  /\ conn' = [conn EXCEPT ![w] = "none"]
  /\ wJob' = [wJob EXCEPT ![w] = NoReport]
  /\ answer' = [answer EXCEPT ![w] = NoKey]

\* What becomes of the call of a worker that gives up or dies: the request is
\* lost, or still gets to the master; a reply, or a job in hand, is dropped.
AbandonCall(w) ==
  \/ /\ conn[w] = "request" /\ wPc[w] = "apply"
     /\ strayApply' \in {strayApply, strayApply + 1}
     /\ UNCHANGED <<strayFinish, lost>>
  \/ /\ conn[w] = "request" /\ wPc[w] = "finish"
     /\ \/ /\ strayFinish' = [strayFinish EXCEPT ![wJob[w]] = @ + 1]
           /\ UNCHANGED lost
        \/ /\ lost' = lost \cup {wJob[w].key}
           /\ UNCHANGED strayFinish
     /\ UNCHANGED strayApply
  \/ /\ conn[w] \in {"busy", "reply"}
     /\ lost' = lost \cup ({answer[w]} \ {NoKey})
     /\ UNCHANGED <<strayApply, strayFinish>>

\* post_data gives up after its timeout and returns '', or the process dies in
\* the call and is started again.
Timeout(w) ==
  /\ Fault
  /\ AbandonCall(w)
  /\ Reset(w)
  /\ UNCHANGED <<masterVars, renditions, dbFaults, trims>>

\* The connection was broken by a restart of the master: post_data returns ''.
Broken(w) ==
  /\ wPc[w] \in {"apply", "finish"} /\ conn[w] = "none"
  /\ Reset(w)
  /\ UNCHANGED <<masterVars, strayApply, strayFinish, renditions, faults, dbFaults,
                 lost, trims>>

\* The process dies with its job and is started again.
WorkerCrash(w) ==
  /\ wPc[w] \in {"check", "put"}
  /\ Fault
  /\ lost' = lost \cup {wJob[w].key}
  /\ Reset(w)
  /\ UNCHANGED <<masterVars, strayApply, strayFinish, renditions, dbFaults, trims>>

WorkerStep(w) ==
  \/ SendApply(w) \/ TakeJob(w)
  \/ CheckMissing(w) \/ CheckRefused(w) \/ PutRendition(w)
  \/ EndJob(w) \/ Broken(w)

WorkerFault(w) == CheckDbFault(w) \/ PutDbFault(w) \/ Timeout(w) \/ WorkerCrash(w)

MasterStep ==
  \/ \E w \in Workers : MasterApply(w) \/ MasterFinish(w)
  \/ MasterStrayApply
  \/ \E m \in Report : MasterStrayFinish(m)
  \/ MasterFinishReply
  \/ MasterNotifier
  \/ MasterRestart

PipelineNext ==
  \/ \E k \in Keys : ClientTrim(k)
  \/ MasterStep
  \/ \E w \in Workers : WorkerStep(w) \/ WorkerFault(w)

PipelineSpec == PipelineInit /\ [][PipelineNext]_vars

\* Worker processes never stop polling, the IOLoop serves every pending
\* request, the notifier is a thread that only waits on the semaphore.  Nothing
\* is assumed of clients, faults and restarts.
Fairness ==
  /\ \A w \in Workers :
       /\ WF_vars(WorkerStep(w))
       /\ WF_vars(MasterApply(w))
       /\ WF_vars(MasterFinish(w))
  /\ WF_vars(MasterStrayApply)
  /\ \A m \in Report : WF_vars(MasterStrayFinish(m))
  /\ WF_vars(MasterFinishReply)
  /\ WF_vars(MasterNotifier)

FairSpec == PipelineSpec /\ Fairness

-----------------------------------------------------------------------------
(* Where the one job of a recorded key can be.                             *)

Queued(k) == {i \in DOMAIN jobq : jobq[i] = k}
Answered(k) == {w \in Workers : answer[w] = k}
InHand(k) == {w \in Workers : wPc[w] \in {"check", "put"} /\ wJob[w].key = k}
Reporting(k) ==
  {w \in Workers : wPc[w] = "finish" /\ conn[w] = "request" /\ wJob[w].key = k}
Straying(k) == strayFinish[[key |-> k, ok |-> TRUE]] + strayFinish[[key |-> k, ok |-> FALSE]]
Reported(k) == {i \in DOMAIN finq : finq[i].key = k}
Resolving(k) == IF nPc \in {"get", "delete"} /\ nMsg.key = k THEN 1 ELSE 0

Jobs(k) ==
  Cardinality(Queued(k)) + Cardinality(Answered(k)) + Cardinality(InHand(k))
    + Cardinality(Reporting(k)) + Straying(k) + Cardinality(Reported(k)) + Resolving(k)

\* Until the master restarts, a recorded key has exactly one job, somewhere
\* between __job_queue and the notifier, unless a fault dropped it; a key that
\* is not recorded has none.  Merging trims, retries by polling, abandoned calls
\* and the notifier's get/delete never make a second one; so no report reaches
\* run_to_web whose key is not recorded, and its range(num) never sees None.
OneJobPerRecord ==
  restarts = 0 =>
    /\ nPc # "dead"
    /\ \A k \in Keys :
         Jobs(k) = IF record[k] > 0 /\ k \notin lost THEN 1 ELSE 0

\* A success posted to /transcode means the rendition is in GridFS, across
\* crashes, abandoned calls and restarts.
SuccessMeansStored == \A k \in Keys : posted[k]["secc"] > 0 => renditions[k] > 0

\* Every success on its way is about a stored rendition.
ReportSound(m) == m.ok => renditions[m.key] > 0
ReportsSound ==
  /\ \A w \in Workers : wJob[w] # NoReport => ReportSound(wJob[w])
  /\ \A m \in Report : strayFinish[m] > 0 => ReportSound(m)
  /\ \A i \in DOMAIN finq : ReportSound(finq[i])
  /\ nMsg # NoReport => ReportSound(nMsg)

\* find_object then put_object is not atomic, yet a rendition is stored once as
\* long as one job per key exists and no lookup fails.
StoredOnce == restarts = 0 /\ dbFaults = 0 => \A k \in Keys : renditions[k] <= 1

\* A key whose job was dropped is wedged: later trims are merged into the dead
\* record and nothing is posted for it, except the batch that was being posted
\* when the job was dropped, until the master restarts.
WedgedUntilRestart ==
  [][\A k \in Keys :
       restarts' = 0 /\ k \in lost =>
         /\ k \in lost'
         /\ record'[k] >= record[k]
         /\ Posting(k)' <= Posting(k)]_vars

\* Every accepted trim is answered, unless its job was dropped: the abandoned
\* and the merged ones, and those accepted while the notifier is posting.
EveryTrimAnswered ==
  \A k \in Keys :
    Owed(k) > 0 ~> (Owed(k) = 0 \/ k \in lost \/ restarts > 0)
=============================================================================
