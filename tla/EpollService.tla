---------------------------- MODULE EpollService ----------------------------
(***************************************************************************)
(* The TCP front end of the photo service, netsvc/linux: one accept thread *)
(* (epoll_accepter.h) makes a handler object for every connection and puts *)
(* it on the pending queue of a worker, round robin; each epoll_worker     *)
(* thread opens, runs and destroys the handlers it took from its queue;    *)
(* the thread that calls stop joins them all.                              *)
(*                                                                         *)
(* A handler is an object with an identity; its socket is a number that    *)
(* the kernel gives out again as soon as the destructor has closed it,     *)
(* while the worker has not erased the map entry under that number yet.    *)
(* The pending queue (RdWrQueue, in its non-blocking calls) is the bounded *)
(* FIFO that RdWrQueue implements.  What a callback returns is a free      *)
(* choice: tcp_netio and visitor_handler are two of its refinements.       *)
(***************************************************************************)
EXTENDS Naturals, Sequences, FiniteSets, SequencesExt

CONSTANTS
  NWorkers,         \* _worker_num
  Handlers,         \* handler objects the run may create
  Fds,              \* descriptors the kernel gives out
  NoHandler, NoFd,
  ConnLimits,       \* what worker_conn_limit may be set to
  PendSize,         \* size of _pendq, 8192
  MaxEvents         \* _max_events

ASSUME EpollAssumption ==
  /\ NWorkers \in Nat \ {0}
  /\ NoHandler \notin Handlers /\ NoFd \notin Fds
  /\ ConnLimits \subseteq Nat /\ PendSize \in Nat \ {0} /\ MaxEvents \in Nat \ {0}

Workers == 0 .. NWorkers - 1

VARIABLES
  used, heap,       \* handlers created so far, and those not deleted yet
  sock,             \* sock[h]: _sock
  open,             \* descriptors open in the process (the handlers' ones)
  opens, closes,    \* how often handle_open and handle_close were called on h
  aPc, fresh,       \* the accept thread, and the handler it has just made
  counter,          \* _hd_counter, modulo NWorkers
  pendq,            \* pendq[w]: _pendq
  handlers,         \* handlers[w][f]: _handlers, NoHandler where there is no entry
  interest,         \* interest[w]: handlers the epoll instance of w knows
  wPc, batch, todo, \* worker thread: where it is, events and entries left to do
  dead,             \* dead[w]: map entry whose handler is deleted, not erased yet
  mPc, aStop, wStop,\* the thread in stop, _accepter_stop and _worker_stop
  limit             \* _max_conns of the workers, set before start

objects == <<used, heap, sock, open, opens, closes>>
accepter == <<aPc, fresh, counter>>
worker == <<handlers, interest, wPc, batch, todo, dead>>
control == <<mPc, aStop, wStop, limit>>
vars == <<objects, accepter, pendq, worker, control>>

TypeOK ==
  /\ heap \subseteq used /\ used \subseteq Handlers
  /\ sock \in [Handlers -> Fds \cup {NoFd}]
  /\ open \subseteq Fds
  /\ opens \in [Handlers -> 0 .. 2] /\ closes \in [Handlers -> 0 .. 2]
  /\ aPc \in {"check", "accept", "dispatch", "exited"}
  /\ fresh \in Handlers \cup {NoHandler}
  /\ counter \in Workers
  /\ \A w \in Workers : pendq[w] \in Seq(Handlers) /\ Len(pendq[w]) <= PendSize
  /\ handlers \in [Workers -> [Fds -> Handlers \cup {NoHandler}]]
  /\ interest \in [Workers -> SUBSET Handlers]
  /\ wPc \in [Workers -> {"check", "accept", "wait", "events", "run", "free", "drain",
                          "exited"}]
  /\ batch \in [Workers -> SUBSET Handlers] /\ todo \in [Workers -> SUBSET Fds]
  /\ dead \in [Workers -> Fds \cup {NoFd}]
  /\ mPc \in {"serve", "join", "workers", "stopped"}
  /\ limit \in ConnLimits /\ aStop \in BOOLEAN /\ wStop \in [Workers -> BOOLEAN]

\* After a successful start.
Init ==
  /\ used = {} /\ heap = {} /\ open = {}
  /\ sock = [h \in Handlers |-> NoFd]
  /\ opens = [h \in Handlers |-> 0] /\ closes = [h \in Handlers |-> 0]
  /\ aPc = "check" /\ fresh = NoHandler /\ counter = 0
  /\ pendq = [w \in Workers |-> <<>>]
  /\ handlers = [w \in Workers |-> [f \in Fds |-> NoHandler]]
  /\ interest = [w \in Workers |-> {}]
  /\ wPc = [w \in Workers |-> "check"]
  /\ batch = [w \in Workers |-> {}] /\ todo = [w \in Workers |-> {}]
  /\ dead = [w \in Workers |-> NoFd]
  /\ limit \in ConnLimits
  /\ mPc = "serve" /\ aStop = FALSE /\ wStop = [w \in Workers |-> FALSE]

-----------------------------------------------------------------------------
\* delete hd: the destructor closes the socket, and the kernel forgets it.
Delete(h) ==
  /\ heap' = heap \ {h}
  /\ open' = open \ {sock[h]}
  /\ sock' = [sock EXCEPT ![h] = NoFd]

Forget(h) == [w \in Workers |-> interest[w] \ {h}]

\* The callbacks of a handler's end: opened or not before, closed now.
CallOpen(h) == opens' = [opens EXCEPT ![h] = @ + 1]
CallClose(h) == closes' = [closes EXCEPT ![h] = @ + 1]

Goto(w, label) == wPc' = [wPc EXCEPT ![w] = label]
At(w, label) == wPc[w] = label /\ dead[w] = NoFd
Entries(w) == {f \in Fds : handlers[w][f] # NoHandler}

-----------------------------------------------------------------------------
(* accept_thread *)

AcceptCheck ==
  /\ aPc = "check"
  /\ aPc' = IF aStop THEN "exited" ELSE "accept"
  /\ UNCHANGED <<objects, fresh, counter, pendq, worker, control>>

\* accept fails, or set_nonblock does and the new socket is closed again.
AcceptNothing ==
  /\ aPc = "accept"
  /\ aPc' = "check"
  /\ UNCHANGED <<objects, fresh, counter, pendq, worker, control>>

AcceptConn ==
  /\ aPc = "accept"
  /\ \E h \in Handlers \ used, f \in Fds \ open :
       /\ used' = used \cup {h} /\ heap' = heap \cup {h}
       /\ sock' = [sock EXCEPT ![h] = f]
       /\ open' = open \cup {f}
       /\ fresh' = h
  /\ aPc' = "dispatch"
  /\ UNCHANGED <<opens, closes, counter, pendq, worker, control>>

\* epoll_worker::dispatch
Full(w) == Len(pendq[w]) >= PendSize
Enqueue(w, h) == pendq' = [pendq EXCEPT ![w] = Append(@, h)]

\* Mutant: what dispatch returns is not looked at.
DispatchLost ==
  /\ aPc = "dispatch"
  /\ counter' = (counter + 1) % NWorkers
  /\ IF Full(counter) THEN UNCHANGED pendq ELSE Enqueue(counter, fresh)
  /\ aPc' = "check" /\ fresh' = NoHandler
  /\ UNCHANGED <<objects, worker, control>>

\* dispatch by round robin; a handler that finds the queue full is deleted.
Dispatch ==
  /\ aPc = "dispatch"
  /\ counter' = (counter + 1) % NWorkers
  /\ IF Full(counter)
     THEN Delete(fresh) /\ UNCHANGED pendq
     ELSE Enqueue(counter, fresh) /\ UNCHANGED <<heap, sock, open>>
  /\ aPc' = "check" /\ fresh' = NoHandler
  /\ UNCHANGED <<used, opens, closes, worker, control>>

AcceptThread == AcceptCheck \/ AcceptNothing \/ AcceptConn \/ Dispatch

-----------------------------------------------------------------------------
(* epoll_worker::accept, one handler at a time *)

WorkerCheck(w) ==
  /\ At(w, "check")
  /\ IF wStop[w] THEN Goto(w, "free") /\ todo' = [todo EXCEPT ![w] = Entries(w)]
                 ELSE Goto(w, "accept") /\ UNCHANGED todo
  /\ UNCHANGED <<objects, accepter, pendq, handlers, interest, batch, dead, control>>

NonePending(w) ==
  /\ At(w, "accept") /\ pendq[w] = <<>>
  /\ Goto(w, "wait")
  /\ UNCHANGED <<objects, accepter, pendq, handlers, interest, batch, todo, dead, control>>

\* Mutant: at its limit the worker leaves the queue alone.
RejectPendingLater(w) ==
  /\ At(w, "accept") /\ pendq[w] # <<>>
  /\ Cardinality(Entries(w)) >= limit
  /\ Goto(w, "wait")
  /\ UNCHANGED <<objects, accepter, pendq, handlers, interest, batch, todo, dead, control>>

\* The worker is at its limit: the handler is deleted, no callback is called.
RejectPending(w) ==
  /\ At(w, "accept") /\ pendq[w] # <<>>
  /\ Cardinality(Entries(w)) >= limit
  /\ pendq' = [pendq EXCEPT ![w] = Tail(@)]
  /\ Delete(Head(pendq[w]))
  /\ UNCHANGED <<used, opens, closes, accepter, worker, control>>

\* Mutant: a handler whose registration fails is kept in the map.
OpenPendingKept(w) ==
  /\ At(w, "accept") /\ pendq[w] # <<>>
  /\ Cardinality(Entries(w)) < limit
  /\ pendq' = [pendq EXCEPT ![w] = Tail(@)]
  /\ LET h == Head(pendq[w]) IN
       /\ CallOpen(h)
       /\ \/ CallClose(h) /\ Delete(h) /\ UNCHANGED interest
          \/ UNCHANGED <<closes, heap, sock, open>>
             /\ interest' = [interest EXCEPT ![w] = @ \cup {h}]
       /\ handlers' = [handlers EXCEPT ![w][sock[h]] = h]
  /\ UNCHANGED <<used, accepter, wPc, batch, todo, dead, control>>

\* handle_open or epoll_ctl fails and the handler is closed and deleted, or it is
\* registered; map::insert leaves an entry that is there already alone.
OpenPending(w) ==
  /\ At(w, "accept") /\ pendq[w] # <<>>
  /\ Cardinality(Entries(w)) < limit
  /\ pendq' = [pendq EXCEPT ![w] = Tail(@)]
  /\ LET h == Head(pendq[w]) IN
       /\ CallOpen(h)
       /\ \/ CallClose(h) /\ Delete(h) /\ UNCHANGED <<interest, handlers>>
          \/ /\ UNCHANGED <<closes, heap, sock, open>>
             /\ interest' = [interest EXCEPT ![w] = @ \cup {h}]
             /\ handlers' = [handlers EXCEPT ![w][sock[h]] = IF @ = NoHandler THEN h ELSE @]
  /\ UNCHANGED <<used, accepter, wPc, batch, todo, dead, control>>

-----------------------------------------------------------------------------
(* The event loop *)

EpollWait(w) ==
  /\ At(w, "wait")
  /\ \E ready \in SUBSET interest[w] :
       Cardinality(ready) <= MaxEvents /\ batch' = [batch EXCEPT ![w] = ready]
  /\ Goto(w, "events")
  /\ UNCHANGED <<objects, accepter, pendq, handlers, interest, todo, dead, control>>

\* The callbacks of h's events all return 0.
EventHandled(w) ==
  /\ At(w, "events")
  /\ \E h \in batch[w] : batch' = [batch EXCEPT ![w] = @ \ {h}]
  /\ UNCHANGED <<objects, accepter, pendq, handlers, interest, wPc, todo, dead, control>>

\* handle_close, delete: the entry under f still has to be erased.
Destroy(w, f) ==
  LET h == handlers[w][f] IN
    /\ CallClose(h)
    /\ Delete(h)
    /\ interest' = Forget(h)

\* A callback fails and the rest are skipped: remove(hd->sock()).
EventFailed(w) ==
  /\ At(w, "events")
  /\ \E h \in batch[w] :
       /\ batch' = [batch EXCEPT ![w] = @ \ {h}]
       /\ IF sock[h] \in Entries(w)
          THEN Destroy(w, sock[h]) /\ dead' = [dead EXCEPT ![w] = sock[h]]
          ELSE UNCHANGED <<closes, heap, open, sock, interest, dead>>
  /\ UNCHANGED <<used, opens, accepter, pendq, handlers, wPc, todo, control>>

EventsDone(w) ==
  /\ At(w, "events") /\ batch[w] = {}
  /\ todo' = [todo EXCEPT ![w] = Entries(w)]
  /\ Goto(w, "run")
  /\ UNCHANGED <<objects, accepter, pendq, handlers, interest, batch, dead, control>>

\* run_handlers: handle_timeout, if its timer is due, and handle_run return 0.
RunHandled(w) ==
  /\ At(w, "run")
  /\ \E f \in todo[w] : todo' = [todo EXCEPT ![w] = @ \ {f}]
  /\ UNCHANGED <<objects, accepter, pendq, handlers, interest, wPc, batch, dead, control>>

\* Mutant: the entry of a handler that failed is skipped and stays in the map.
RunFailedKept(w) ==
  /\ At(w, "run")
  /\ \E f \in todo[w] : Destroy(w, f) /\ todo' = [todo EXCEPT ![w] = @ \ {f}]
  /\ UNCHANGED <<used, opens, accepter, pendq, handlers, wPc, batch, dead, control>>

RunFailed(w) ==
  /\ At(w, "run")
  /\ \E f \in todo[w] :
       /\ Destroy(w, f)
       /\ todo' = [todo EXCEPT ![w] = @ \ {f}]
       /\ dead' = [dead EXCEPT ![w] = f]
  /\ UNCHANGED <<used, opens, accepter, pendq, handlers, wPc, batch, control>>

\* _handlers.erase, in remove and in run_handlers.
Erase(w) ==
  /\ dead[w] # NoFd
  /\ handlers' = [handlers EXCEPT ![w][dead[w]] = NoHandler]
  /\ dead' = [dead EXCEPT ![w] = NoFd]
  /\ UNCHANGED <<objects, accepter, pendq, interest, wPc, batch, todo, control>>

RunDone(w) ==
  /\ At(w, "run") /\ todo[w] = {}
  /\ Goto(w, "check")
  /\ UNCHANGED <<objects, accepter, pendq, handlers, interest, batch, todo, dead, control>>

-----------------------------------------------------------------------------
(* free_handlers, after the loop *)

FreeEntry(w) ==
  /\ At(w, "free")
  /\ \E f \in todo[w] : Destroy(w, f) /\ todo' = [todo EXCEPT ![w] = @ \ {f}]
  /\ UNCHANGED <<used, opens, accepter, pendq, handlers, wPc, batch, dead, control>>

FreeClear(w) ==
  /\ At(w, "free") /\ todo[w] = {}
  /\ handlers' = [handlers EXCEPT ![w] = [f \in Fds |-> NoHandler]]
  /\ Goto(w, "drain")
  /\ UNCHANGED <<objects, accepter, pendq, interest, batch, todo, dead, control>>

DrainPending(w) ==
  /\ At(w, "drain") /\ pendq[w] # <<>>
  /\ CallOpen(Head(pendq[w])) /\ CallClose(Head(pendq[w])) /\ Delete(Head(pendq[w]))
  /\ pendq' = [pendq EXCEPT ![w] = Tail(@)]
  /\ UNCHANGED <<used, accepter, worker, control>>

DrainDone(w) ==
  /\ At(w, "drain") /\ pendq[w] = <<>>
  /\ Goto(w, "exited")
  /\ UNCHANGED <<objects, accepter, pendq, handlers, interest, batch, todo, dead, control>>

WorkerThread(w) ==
  \/ WorkerCheck(w) \/ NonePending(w) \/ RejectPending(w) \/ OpenPending(w)
  \/ EpollWait(w) \/ EventHandled(w) \/ EventFailed(w) \/ EventsDone(w)
  \/ RunHandled(w) \/ RunFailed(w) \/ RunDone(w) \/ Erase(w)
  \/ FreeEntry(w) \/ FreeClear(w) \/ DrainPending(w) \/ DrainDone(w)

-----------------------------------------------------------------------------
(* epoll_accepter::stop *)

Stop ==
  /\ mPc = "serve"
  /\ mPc' = "join" /\ aStop' = TRUE
  /\ UNCHANGED <<objects, accepter, pendq, worker, limit, wStop>>

\* Mutant: the workers are stopped while the accept thread still runs.
JoinAccepterNot ==
  /\ mPc = "join"
  /\ mPc' = "workers"
  /\ UNCHANGED <<objects, accepter, pendq, worker, limit, aStop, wStop>>

JoinAccepter ==
  /\ mPc = "join" /\ aPc = "exited"
  /\ mPc' = "workers"
  /\ UNCHANGED <<objects, accepter, pendq, worker, limit, aStop, wStop>>

\* Mutant: the worker is joined without being told to stop.
StopWorkerUntold(w) == FALSE

\* epoll_worker::stop, one worker after the other.
StopWorker(w) ==
  /\ mPc = "workers" /\ ~wStop[w]
  /\ \A v \in Workers : v < w => wPc[v] = "exited"
  /\ wStop' = [wStop EXCEPT ![w] = TRUE]
  /\ UNCHANGED <<objects, accepter, pendq, worker, limit, mPc, aStop>>

Stopped ==
  /\ mPc = "workers" /\ \A w \in Workers : wPc[w] = "exited"
  /\ mPc' = "stopped"
  /\ UNCHANGED <<objects, accepter, pendq, worker, limit, aStop, wStop>>

StopThread == Stop \/ JoinAccepter \/ (\E w \in Workers : StopWorker(w)) \/ Stopped

Next == AcceptThread \/ (\E w \in Workers : WorkerThread(w)) \/ StopThread

Spec == Init /\ [][Next]_vars

\* Worker threads are scheduled and epoll_wait returns after _max_waittm at the
\* latest; accept may block for ever, and nobody has to call stop.
FairSpec ==
  /\ Spec
  /\ \A w \in Workers : WF_vars(WorkerThread(w)) /\ WF_vars(StopWorker(w))
  /\ WF_vars(JoinAccepter) /\ WF_vars(Stopped)

-----------------------------------------------------------------------------
\* No thread is about to call a handler that is deleted, and every map entry is
\* the handler of its socket, although another connection may get the number of a
\* socket before the entry under it is erased.
HandlersValid ==
  /\ TypeOK
  /\ \A w \in Workers :
    /\ ToSet(pendq[w]) \cup batch[w] \cup interest[w] \subseteq heap
    /\ \A f \in Entries(w) \ {dead[w]} :
         wPc[w] # "free" \/ f \in todo[w] =>
           handlers[w][f] \in heap /\ sock[handlers[w][f]] = f

\* A live handler is in one place, so one thread alone calls it: being dispatched,
\* once on one queue, or in the map of one worker.
Places(h) ==
  {<<"accepter">> : x \in {h} \cap {fresh}}
    \cup (UNION {{<<"queue", w, i>> : i \in {j \in 1 .. Len(pendq[w]) : pendq[w][j] = h}}
                 : w \in Workers})
    \cup (UNION {{<<"map", w, f>> : f \in {g \in Fds : handlers[w][g] = h}} : w \in Workers})

OneOwner == \A h \in heap : Cardinality(Places(h)) = 1

\* handle_open and handle_close come in pairs: neither is called twice, and a
\* handler that was opened is closed exactly once before it is deleted.
ClosedOnce ==
  \A h \in Handlers :
    /\ closes[h] <= opens[h] /\ opens[h] <= 1
    /\ h \in used \ heap => closes[h] = opens[h]

\* When stop returns, no handler and no socket is left, whatever was on the
\* queues and in flight when it was called.
NothingLeaked == mPc = "stopped" => heap = {} /\ open = {}

\* A connection that is queued is opened or turned away, also when the worker is at
\* its limit and no connection of it ever ends.
QueuedIsServed ==
  \A h \in Handlers, w \in Workers :
    h \in ToSet(pendq[w]) ~> (opens[h] > 0 \/ h \notin heap)

\* stop returns once the accept thread has ended: the workers notice the flag
\* whatever they are doing, and finish.
StopCompletes == mPc = "workers" ~> mPc = "stopped"

\* epoll_handler.h says of handle_close: "always invoked before the handler
\* destroyed".
CloseBeforeDestroy == \A h \in used \ heap : closes[h] > 0
=============================================================================
