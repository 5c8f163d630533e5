------------------------------ MODULE Connector ------------------------------
(***************************************************************************)
(* The client half of netsvc, netsvc/include/linux/epoll_connector.h: a    *)
(* caller starts connects, a connect thread waits for their outcome on an  *)
(* epoll instance of its own and hands the connected handlers to workers,  *)
(* round robin.  EpollService has the worker in detail; here a worker is   *)
(* the queue of handlers given to it and the set of those it has opened.   *)
(*                                                                         *)
(* The list of pending handlers is shared by caller and connect thread     *)
(* under _plock; a handler is known to the epoll instance before it is on  *)
(* the list.                                                               *)
(***************************************************************************)
EXTENDS Naturals, Sequences, FiniteSets, SequencesExt

CONSTANTS
  Handlers,         \* handler objects the run may create
  NoHandler,
  NWorkers,         \* _worker_num
  ConnLimit,        \* _max_conns/_worker_num
  PendSize          \* size of a worker's _pendq

ASSUME ConnectorAssumption ==
  /\ NoHandler \notin Handlers
  /\ NWorkers \in Nat \ {0} /\ ConnLimit \in Nat /\ PendSize \in Nat \ {0}

Workers == 0 .. NWorkers - 1

VARIABLES
  used, heap,       \* handlers created so far, and those not deleted yet
  cPc, fresh,       \* the calling thread, and the handler it is pushing
  pending,          \* _pending_handlers
  watched,          \* handlers the epoll instance knows
  plock,            \* holder of _plock: "free" or "caller"
  tPc, batch,       \* connect_thread, and the events it has still to look at
  current,          \* connected handler off the list, not dispatched yet
  counter,          \* _hd_counter, modulo NWorkers
  pendq, pool,      \* queue of each worker, and the handlers it has opened
  stop, wStop, wDone \* _connector_stop, and the workers told to stop and stopped

caller == <<cPc, fresh>>
list == <<pending, watched, plock>>
thread == <<tPc, batch, current, counter>>
workers == <<pendq, pool>>
stopping == <<stop, wStop, wDone>>
connectorVars == <<used, heap, caller, list, thread, workers, stopping>>

ConnectorTypeOK ==
  /\ heap \subseteq used /\ used \subseteq Handlers
  /\ cPc \in {"idle", "push", "joining", "workers", "stopped"}
  /\ {fresh, current} \subseteq Handlers \cup {NoHandler}
  /\ pending \subseteq Handlers /\ watched \subseteq Handlers
  /\ plock \in {"free", "caller"}
  /\ tPc \in {"check", "wait", "events", "dispatch", "exited"} /\ batch \subseteq Handlers
  /\ counter \in Workers
  /\ pendq \in [Workers -> Seq(Handlers)] /\ \A w \in Workers : Len(pendq[w]) <= PendSize
  /\ pool \in [Workers -> SUBSET Handlers]
  /\ stop \in BOOLEAN /\ wDone \subseteq wStop /\ wStop \subseteq Workers

\* After a successful start.
ConnectorInit ==
  /\ used = {} /\ heap = {}
  /\ cPc = "idle" /\ fresh = NoHandler
  /\ pending = {} /\ watched = {} /\ plock = "free"
  /\ tPc = "check" /\ batch = {} /\ current = NoHandler /\ counter = 0
  /\ pendq = [w \in Workers |-> <<>>] /\ pool = [w \in Workers |-> {}]
  /\ stop = FALSE /\ wStop = {} /\ wDone = {}

\* delete hd: the destructor closes the socket, and the kernel forgets it.
Delete(H) == heap' = heap \ H /\ watched' = watched \ H

-----------------------------------------------------------------------------
(* connect *)

\* socket, set_nonblock or ::connect fails; no handler has been made.
ConnectFails == cPc = "idle" /\ UNCHANGED connectorVars

\* push takes the lock and adds the handler to the epoll instance.
Connect(h) ==
  /\ cPc = "idle" /\ h \notin used /\ plock = "free"
  /\ used' = used \cup {h} /\ heap' = heap \cup {h}
  /\ plock' = "caller" /\ watched' = watched \cup {h}
  /\ cPc' = "push" /\ fresh' = h
  /\ UNCHANGED <<pending, thread, workers, stopping>>

\* epoll_ctl fails in push: the handler is deleted.
PushFails(h) ==
  /\ cPc = "idle" /\ h \notin used /\ plock = "free"
  /\ used' = used \cup {h}
  /\ UNCHANGED <<heap, caller, list, thread, workers, stopping>>

\* Mutant: the lock is given back before the handler is on the list.
PushUnlocked ==
  /\ cPc = "push"
  /\ IF plock = "caller"
     THEN plock' = "free" /\ UNCHANGED <<caller, pending>>
     ELSE pending' = pending \cup {fresh} /\ cPc' = "idle" /\ fresh' = NoHandler
          /\ UNCHANGED plock
  /\ UNCHANGED <<used, heap, watched, thread, workers, stopping>>

Push ==
  /\ cPc = "push"
  /\ pending' = pending \cup {fresh} /\ plock' = "free"
  /\ cPc' = "idle" /\ fresh' = NoHandler
  /\ UNCHANGED <<used, heap, watched, thread, workers, stopping>>

-----------------------------------------------------------------------------
(* connect_thread *)

\* Mutant: the flag is not looked at.
ThreadCheckBlind ==
  /\ tPc = "check"
  /\ tPc' = "wait"
  /\ UNCHANGED <<used, heap, caller, list, batch, current, counter, workers, stopping>>

ThreadCheck ==
  /\ tPc = "check"
  /\ tPc' = IF stop THEN "exited" ELSE "wait"
  /\ UNCHANGED <<used, heap, caller, list, batch, current, counter, workers, stopping>>

Wait ==
  /\ tPc = "wait"
  /\ batch' \in SUBSET watched
  /\ tPc' = "events"
  /\ UNCHANGED <<used, heap, caller, list, current, counter, workers, stopping>>

\* remove, under _plock.
OffList(h) == plock = "free" /\ pending' = pending \ {h}

\* EPOLLERR: the connect failed; handle_open, handle_close, delete.
EventError(h) ==
  /\ tPc = "events" /\ h \in batch
  /\ OffList(h)
  /\ batch' = batch \ {h}
  /\ Delete({h})
  /\ UNCHANGED <<used, caller, plock, tPc, current, counter, workers, stopping>>

\* EPOLLOUT: connected.  Off the list and out of the epoll instance.
EventConnected(h) ==
  /\ tPc = "events" /\ h \in batch
  /\ OffList(h)
  /\ batch' = batch \ {h} /\ watched' = watched \ {h}
  /\ current' = h /\ tPc' = "dispatch"
  /\ UNCHANGED <<used, heap, caller, plock, counter, workers, stopping>>

Room == Len(pendq[counter]) < PendSize
NextWorker == counter' = (counter + 1) % NWorkers /\ current' = NoHandler /\ tPc' = "events"

\* The handler is the worker's from now on.
Dispatch ==
  /\ tPc = "dispatch" /\ Room
  /\ pendq' = [pendq EXCEPT ![counter] = Append(@, current)]
  /\ NextWorker
  /\ UNCHANGED <<used, heap, caller, list, batch, pool, stopping>>

\* The worker's queue is full: remove once more, handle_open, handle_close, delete.
DispatchFails ==
  /\ tPc = "dispatch" /\ ~Room
  /\ OffList(current) /\ Delete({current})
  /\ NextWorker
  /\ UNCHANGED <<used, caller, plock, batch, workers, stopping>>

EventsDone ==
  /\ tPc = "events" /\ batch = {}
  /\ tPc' = "check"
  /\ UNCHANGED <<used, heap, caller, list, batch, current, counter, workers, stopping>>

-----------------------------------------------------------------------------
(* A worker, epoll_worker.cpp *)

Waiting(w, h) == w \notin wStop /\ pendq[w] # <<>> /\ h = Head(pendq[w])
TakeHead(w) == pendq' = [pendq EXCEPT ![w] = Tail(@)]
WorkerOnly == UNCHANGED <<used, caller, list, thread, stopping>>

\* At its limit the worker deletes the handler without a callback.
TurnAway(w, h) ==
  /\ Waiting(w, h) /\ Cardinality(pool[w]) >= ConnLimit
  /\ TakeHead(w) /\ heap' = heap \ {h}
  /\ UNCHANGED pool /\ WorkerOnly

Open(w, h) ==
  /\ Waiting(w, h) /\ Cardinality(pool[w]) < ConnLimit
  /\ TakeHead(w) /\ pool' = [pool EXCEPT ![w] = @ \cup {h}]
  /\ UNCHANGED heap /\ WorkerOnly

\* handle_open or epoll_ctl fails: handle_close, delete.
OpenFails(w, h) ==
  /\ Waiting(w, h) /\ Cardinality(pool[w]) < ConnLimit
  /\ TakeHead(w) /\ heap' = heap \ {h}
  /\ UNCHANGED pool /\ WorkerOnly

\* A callback of an open handler fails: handle_close, delete.
CloseOpen(w, h) ==
  /\ w \notin wDone /\ h \in pool[w]
  /\ pool' = [pool EXCEPT ![w] = @ \ {h}] /\ heap' = heap \ {h}
  /\ UNCHANGED pendq /\ WorkerOnly

-----------------------------------------------------------------------------
(* stop, called by the thread that calls connect *)

Stop ==
  /\ cPc = "idle" /\ ~stop
  /\ stop' = TRUE /\ cPc' = "joining"
  /\ UNCHANGED <<used, heap, fresh, list, thread, workers, wStop, wDone>>

\* The connect thread has ended: the pending handlers are closed and deleted.
FreePending ==
  /\ cPc = "joining" /\ tPc = "exited" /\ plock = "free"
  /\ pending' = {} /\ Delete(pending)
  /\ cPc' = "workers"
  /\ UNCHANGED <<used, fresh, plock, thread, workers, stopping>>

\* epoll_worker::stop, one worker after the other.
StopWorker(w) ==
  /\ cPc = "workers" /\ w \notin wStop /\ wStop = wDone
  /\ wStop' = wStop \cup {w}
  /\ UNCHANGED <<used, heap, caller, list, thread, workers, stop, wDone>>

\* free_handlers: open handlers are closed, queued ones opened and closed.
FreeWorker(w) ==
  /\ w \in wStop \ wDone
  /\ heap' = heap \ (pool[w] \cup ToSet(pendq[w]))
  /\ pool' = [pool EXCEPT ![w] = {}] /\ pendq' = [pendq EXCEPT ![w] = <<>>]
  /\ wDone' = wDone \cup {w}
  /\ UNCHANGED <<used, caller, list, thread, stop, wStop>>

Stopped ==
  /\ cPc = "workers" /\ wDone = Workers
  /\ cPc' = "stopped"
  /\ UNCHANGED <<used, heap, fresh, list, thread, workers, stopping>>

-----------------------------------------------------------------------------
\* Where a handler is referred to.
Places(h) ==
  {<<"caller">> : x \in {h} \cap {fresh}} \cup {<<"list">> : x \in {h} \cap pending}
    \cup {<<"thread">> : x \in {h} \cap {current}}
    \cup (UNION {{<<"queue", w, i>> : i \in {j \in 1 .. Len(pendq[w]) : pendq[w][j] = h}}
                 : w \in Workers})
    \cup {<<"pool", w>> : w \in {v \in Workers : h \in pool[v]}}

\* A live handler is in one place, the pending list, a thread's hands, a queue or a
\* worker's pool, and a deleted one in none and in no event to come: no thread calls a
\* handler that another one has, or that is gone, and none is forgotten.  The list and
\* the epoll instance are updated in two steps, under a lock only one of them needs.
OneOwner ==
  /\ ConnectorTypeOK
  /\ \A h \in Handlers : Cardinality(Places(h)) = IF h \in heap THEN 1 ELSE 0
  /\ batch \subseteq watched /\ watched \subseteq pending \cup {fresh}
  /\ cPc = "stopped" => heap = {}
=============================================================================
