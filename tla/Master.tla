------------------------------- MODULE Master -------------------------------
(***************************************************************************)
(* master/master.py: the job tracker between photo_service and the image   *)
(* workers.  Two threads share the singleton `job`: the Tornado IOLoop,    *)
(* which runs the /trim and /work handlers one at a time, and run_to_web,  *)
(* the notifier, which turns finished jobs into POSTs to /transcode.  They *)
(* meet at __job_fin_queue and a counting semaphore, and at __task_record, *)
(* which the mutex guards.                                                 *)
(*                                                                         *)
(* The module is the master in an arbitrary environment: any trim, any     *)
(* poll, any finish report, a restart at any time.  TrimPipeline puts the  *)
(* workers around it.                                                      *)
(***************************************************************************)
EXTENDS Naturals, Sequences, FiniteSets

CONSTANTS
  Keys,             \* renditions: json.dumps of {oid, width, height}
  NoKey             \* the reply {"oid":'0',...} of an empty queue

ASSUME NoKeyAssumption == NoKey \notin Keys

VARIABLES
  record,           \* __task_record: trims merged into the job; 0 = key absent
  jobq,             \* __job_queue
  finq,             \* __job_fin_queue
  sem,              \* value of the semaphore
  mutex,            \* the thread that holds the mutex between two steps
  io,               \* finish report the IOLoop is in the middle of handling
  nPc, nMsg, nNum,  \* run_to_web: where it is, `value`, and `num`
  stat,             \* counters that the UDP handler reads
  restarts,         \* times the process was started again
  accepted,         \* trims replied to with {"error":"0"}, seen by the client
  posted            \* /transcode posts, by outcome, seen by photo_service

masterVars == <<record, jobq, finq, sem, mutex, io, nPc, nMsg, nNum, stat,
                restarts, accepted, posted>>

Report == [key : Keys, ok : BOOLEAN]    \* ok: the "error" field is '0'
NoReport == [key |-> NoKey, ok |-> FALSE]
Outcome(m) == IF m.ok THEN "secc" ELSE "fail"

StatNames == {"worker_apply_num", "worker_finish_succ", "worker_finish_fail",
              "server_trim_record", "server_trim_queue",
              "server_transcode_secc", "server_transcode_fail"}

Bump(names) == [n \in StatNames |-> IF n \in names THEN stat[n] + 1 ELSE stat[n]]

TypeOK ==
  /\ record \in [Keys -> Nat]
  /\ jobq \in Seq(Keys)
  /\ finq \in Seq(Report)
  /\ sem \in Nat
  /\ mutex \in {"free", "notifier"}
  /\ io \in Report \cup {NoReport}
  /\ nPc \in {"acquire", "pop", "get", "delete", "post", "dead"}
  /\ nMsg \in Report \cup {NoReport}
  /\ nNum \in Nat
  /\ stat \in [StatNames -> Nat]
  /\ restarts \in Nat
  /\ accepted \in [Keys -> Nat]
  /\ posted \in [Keys -> [{"secc", "fail"} -> Nat]]

Init ==
  /\ record = [k \in Keys |-> 0]
  /\ jobq = <<>> /\ finq = <<>>
  /\ sem = 0 /\ mutex = "free"
  /\ io = NoReport
  /\ nPc = "acquire" /\ nMsg = NoReport /\ nNum = 0
  /\ stat = [n \in StatNames |-> 0]
  /\ restarts = 0
  /\ accepted = [k \in Keys |-> 0]
  /\ posted = [k \in Keys |-> [o \in {"secc", "fail"} |-> 0]]

-----------------------------------------------------------------------------
(* The IOLoop.  A handler runs to its end before the next one starts.      *)

notifierVars == <<nPc, nMsg, nNum, posted>>

\* POST /trim of a rendition no job is recorded for: queue one.
TrimNew(k) ==
  /\ io = NoReport /\ mutex = "free"
  /\ record[k] = 0
  /\ record' = [record EXCEPT ![k] = 1]
  /\ jobq' = Append(jobq, k)
  /\ stat' = Bump({"server_trim_queue", "server_trim_record"})
  /\ accepted' = [accepted EXCEPT ![k] = @ + 1]
  /\ UNCHANGED <<finq, sem, mutex, io, restarts, notifierVars>>

\* Mutant: every trim is queued, recorded or not.
TrimAgainQueued(k) ==
  /\ io = NoReport /\ mutex = "free"
  /\ record[k] > 0
  /\ record' = [record EXCEPT ![k] = @ + 1]
  /\ jobq' = Append(jobq, k)
  /\ stat' = Bump({"server_trim_queue", "server_trim_record"})
  /\ accepted' = [accepted EXCEPT ![k] = @ + 1]
  /\ UNCHANGED <<finq, sem, mutex, io, restarts, notifierVars>>

\* POST /trim of a rendition with a recorded job: merged into it.
TrimAgain(k) ==
  /\ io = NoReport /\ mutex = "free"
  /\ record[k] > 0
  /\ record' = [record EXCEPT ![k] = @ + 1]
  /\ stat' = Bump({"server_trim_record"})
  /\ accepted' = [accepted EXCEPT ![k] = @ + 1]
  /\ UNCHANGED <<jobq, finq, sem, mutex, io, restarts, notifierVars>>

Trim(k) == TrimNew(k) \/ TrimAgain(k)

\* POST /work {"apply"}: the oldest job, or the empty reply.
ApplyJob ==
  /\ io = NoReport
  /\ jobq # <<>>
  /\ jobq' = Tail(jobq)
  /\ stat' = Bump({"worker_apply_num"})
  /\ UNCHANGED <<record, finq, sem, mutex, io, restarts, accepted, notifierVars>>

ApplyNone ==
  /\ io = NoReport
  /\ jobq = <<>>
  /\ UNCHANGED masterVars

\* POST /work {"finish"}: queue the report ...
FinishPut(m) ==
  /\ io = NoReport
  /\ finq' = Append(finq, m)
  /\ io' = m
  /\ UNCHANGED <<record, jobq, sem, mutex, stat, restarts, accepted, notifierVars>>

\* Mutant: the notifier is woken for successes only.
FinishReleaseOnSuccess ==
  /\ io # NoReport
  /\ sem' = IF io.ok THEN sem + 1 ELSE sem
  /\ stat' = Bump({IF io.ok THEN "worker_finish_succ" ELSE "worker_finish_fail"})
  /\ io' = NoReport
  /\ UNCHANGED <<record, jobq, finq, mutex, restarts, accepted, notifierVars>>

\* ... then wake the notifier, count and reply.
FinishRelease ==
  /\ io # NoReport
  /\ sem' = sem + 1
  /\ stat' = Bump({IF io.ok THEN "worker_finish_succ" ELSE "worker_finish_fail"})
  /\ io' = NoReport
  /\ UNCHANGED <<record, jobq, finq, mutex, restarts, accepted, notifierVars>>

-----------------------------------------------------------------------------
(* run_to_web, one step per shared access.                                 *)

ioVars == <<jobq, io, restarts, accepted>>

SemAcquire ==
  /\ nPc = "acquire" /\ sem > 0
  /\ sem' = sem - 1
  /\ nPc' = "pop"
  /\ UNCHANGED <<record, finq, mutex, nMsg, nNum, stat, posted, ioVars>>

\* A wake-up that finds the queue empty would be dropped.
PopReport ==
  /\ nPc = "pop"
  /\ IF finq # <<>>
     THEN nMsg' = Head(finq) /\ finq' = Tail(finq) /\ nPc' = "get"
     ELSE nPc' = "acquire" /\ UNCHANGED <<nMsg, finq>>
  /\ UNCHANGED <<record, sem, mutex, nNum, stat, posted, ioVars>>

\* Mutant: the count is read before the mutex is taken.
GetRecordUnlocked ==
  /\ nPc = "get"
  /\ nNum' = record[nMsg.key]
  /\ nPc' = "delete"
  /\ UNCHANGED <<record, finq, sem, mutex, nMsg, stat, posted, ioVars>>

\* get_task_record returns None, here 0, for a key that is not recorded.
GetRecord ==
  /\ nPc = "get" /\ mutex = "free"
  /\ mutex' = "notifier"
  /\ nNum' = record[nMsg.key]
  /\ nPc' = "delete"
  /\ UNCHANGED <<record, finq, sem, nMsg, stat, posted, ioVars>>

\* delete_task_record swallows the KeyError, but range(None) raises outside
\* of the loop's body: the try statement surrounds the loop, so the thread ends.
DeleteRecord ==
  /\ nPc = "delete"
  /\ record' = [record EXCEPT ![nMsg.key] = 0]
  /\ mutex' = "free"
  /\ nPc' = IF nNum = 0 THEN "dead" ELSE "post"
  /\ UNCHANGED <<finq, sem, nMsg, nNum, stat, posted, ioVars>>

\* Mutant: one post per job, however many trims were merged into it.
PostTranscodeOnce ==
  /\ nPc = "post"
  /\ stat' = Bump({IF nMsg.ok THEN "server_transcode_secc" ELSE "server_transcode_fail"})
  /\ posted' = [posted EXCEPT ![nMsg.key][Outcome(nMsg)] = @ + 1]
  /\ nNum' = 0
  /\ nPc' = "acquire" /\ nMsg' = NoReport
  /\ UNCHANGED <<record, finq, sem, mutex, ioVars>>

\* One pass of the for loop; post_req swallows every failure of the post.
PostTranscode ==
  /\ nPc = "post"
  /\ stat' = Bump({IF nMsg.ok THEN "server_transcode_secc" ELSE "server_transcode_fail"})
  /\ posted' = [posted EXCEPT ![nMsg.key][Outcome(nMsg)] = @ + 1]
  /\ nNum' = nNum - 1
  /\ IF nNum = 1
     THEN nPc' = "acquire" /\ nMsg' = NoReport
     ELSE UNCHANGED <<nPc, nMsg>>
  /\ UNCHANGED <<record, finq, sem, mutex, ioVars>>

Notifier == SemAcquire \/ PopReport \/ GetRecord \/ DeleteRecord \/ PostTranscode

-----------------------------------------------------------------------------
\* Nothing of the state above outlives the process.
Restart ==
  /\ record' = [k \in Keys |-> 0]
  /\ jobq' = <<>> /\ finq' = <<>>
  /\ sem' = 0 /\ mutex' = "free"
  /\ io' = NoReport
  /\ nPc' = "acquire" /\ nMsg' = NoReport /\ nNum' = 0
  /\ stat' = [n \in StatNames |-> 0]
  /\ restarts' = restarts + 1
  /\ UNCHANGED <<accepted, posted>>

Next ==
  \/ \E k \in Keys : Trim(k)
  \/ ApplyJob
  \/ \E m \in Report : FinishPut(m)
  \/ FinishRelease
  \/ Notifier
  \/ Restart

Spec == Init /\ [][Next]_masterVars

-----------------------------------------------------------------------------
(* Properties of the master alone, in any environment.                     *)

\* Trims of k already taken from __task_record but not posted yet.
Posting(k) == IF nPc = "post" /\ nMsg.key = k THEN nNum ELSE 0
Owed(k) == record[k] + Posting(k)

\* What the notifier knows between two of its steps: the count it read is still
\* the recorded one when it deletes the record, the mutex is held in between
\* only, and it never goes through the loop without something to post.
NotifierInv ==
  /\ nPc \in {"get", "delete", "post"} => nMsg \in Report
  /\ mutex = "notifier" <=> nPc = "delete"
  /\ nPc = "delete" => nNum = record[nMsg.key]
  /\ nPc = "post" => nNum > 0

\* The abstract service: a trim is owed while it is recorded or being posted.
Service == INSTANCE TrimService WITH
  posted <- [k \in Keys |-> posted[k]["secc"] + posted[k]["fail"]],
  owed <- [k \in Keys |-> Owed(k)],
  epoch <- restarts

\* run_to_web answers every accepted trim exactly once, whatever the order of
\* trims, reports and its own get/delete: the detailed master implements the
\* abstract service.
ImplementsService == Service!Spec

\* One semaphore unit per queued report, except between append and release in
\* the handler, or acquire and popleft in the notifier: no wake-up is lost and
\* the emptiness test after acquire never fails.
WakeupPerReport ==
  Len(finq) = sem + (IF io # NoReport THEN 1 ELSE 0) + (IF nPc = "pop" THEN 1 ELSE 0)

\* One element for every trim that is owed.
OwedTrims == UNION {{k} \X (1 .. Owed(k)) : k \in Keys}

\* The counters and the queues agree whenever the IOLoop and the notifier are between
\* two steps: every trim counted by the /trim handler was counted by the notifier, is
\* recorded or is being posted; every job queued was applied for or waits; and no
\* more reports wait than were counted, whatever the two threads interleave.  The
\* UDP handler is a third thread that reads one counter after another without the
\* mutex, so what it sends need not balance like this.
TrimCounters ==
  /\ stat["server_trim_record"] =
       stat["server_transcode_secc"] + stat["server_transcode_fail"]
         + Cardinality(OwedTrims)
  /\ stat["server_trim_queue"] = stat["worker_apply_num"] + Len(jobq)
  /\ Len(finq) <=
       stat["worker_finish_succ"] + stat["worker_finish_fail"]
         + (IF io # NoReport THEN 1 ELSE 0)
=============================================================================
