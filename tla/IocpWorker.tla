----------------------------- MODULE IocpWorker -----------------------------
(***************************************************************************)
(* The Windows worker of netsvc (win/iocp_worker.cpp): it registers the    *)
(* handlers it takes from its pending queue with its completion port, and  *)
(* calls them for the completions that it takes from the port.  A          *)
(* completion names its connection twice: by the handler's address, the    *)
(* completion key, and by the socket number in the iocp_overlapped.  Both  *)
(* are given out again once the handler is deleted, while an operation it  *)
(* started may still be on its way.                                        *)
(*                                                                         *)
(* Nobody else looks at the map of a worker, so deleting a handler and     *)
(* erasing its entry are one step.  A handler keeps at most one operation  *)
(* in flight.                                                              *)
(***************************************************************************)
EXTENDS Naturals, Sequences, FiniteSets, SequencesExt

CONSTANTS
  NWorkers,         \* _worker_num
  Handlers,         \* handler objects the run may create
  Socks, Addrs,     \* socket numbers and addresses of objects, given out again
  None,
  ConnLimit,        \* worker_conn_limit
  PendSize,         \* size of _pendq, 8192
  MaxEvents         \* _max_events

ASSUME IocpAssumption ==
  /\ NWorkers \in Nat \ {0} /\ None \notin Handlers \cup Socks \cup Addrs
  /\ ConnLimit \in Nat /\ PendSize \in Nat \ {0} /\ MaxEvents \in Nat \ {0}

Workers == 0 .. NWorkers - 1

VARIABLES
  used, heap,       \* handlers created so far, and those not deleted yet
  sock, addr,       \* _sock and the address, kept here after the deletion
  opens, closes,    \* how often on_open and on_close were called on h
  pendq,            \* pendq[w]: _pendq
  handlers,         \* handlers[w]: _handlers, the key of h is sock[h]
  posted, port,     \* operations in flight at the port of w, and completed ones
  mixed,            \* mixed[h]: what the completions of others did to h
  wPc, counter, todo, wStop   \* worker thread, events taken, entries left

objects == <<used, heap, sock, addr, opens, closes>>
completions == <<posted, port, mixed>>
worker == <<handlers, wPc, counter, todo>>

\* async_send and async_recv do not look for an operation in flight; the model lets a
\* callback start one only where there is none.
Idle(w, h) == h \notin posted[w] /\ \A i \in DOMAIN port[w] : port[w][i][1] # h

\* _read and _write of the pending queue (RdWrQueue), and a timed read that comes to
\* nothing: whoever could write has been joined by then.
Take(w) == pendq[w] # <<>> /\ pendq' = [pendq EXCEPT ![w] = Tail(@)]
Put(w, h) == Len(pendq[w]) < PendSize /\ pendq' = [pendq EXCEPT ![w] = Append(@, h)]
NothingLeft(w) == pendq[w] = <<>>

Goto(w, label) == wPc' = [wPc EXCEPT ![w] = label]

\* on_close and delete of the handlers in S, and the erasing of their entries.
RemoveAll(w, S) ==
  /\ closes' = [h \in Handlers |-> closes[h] + Cardinality(S \cap {h})]
  /\ heap' = heap \ S
  /\ handlers' = [handlers EXCEPT ![w] = @ \ S]

-----------------------------------------------------------------------------
Check(w) ==
  /\ wPc[w] = "check"
  /\ counter' = [counter EXCEPT ![w] = 0]
  /\ Goto(w, IF wStop[w] THEN "free" ELSE "accept")
  /\ UNCHANGED <<objects, pendq, handlers, completions, todo>>

\* The handler is over the limit or cannot be registered: no callback.
AcceptRefused(w) ==
  /\ wPc[w] = "accept" /\ Take(w)
  /\ heap' = heap \ {Head(pendq[w])}
  /\ UNCHANGED <<used, sock, addr, opens, closes, completions, worker>>

\* Registered and opened; on_open may start an operation, also when it fails. An
\* entry under the same number would be left alone by map::insert.
AcceptOpened(w) ==
  /\ wPc[w] = "accept" /\ Take(w)
  /\ Cardinality(handlers[w]) < ConnLimit
  /\ LET h == Head(pendq[w]) IN
       /\ opens' = [opens EXCEPT ![h] = @ + 1]
       /\ \E started \in SUBSET {h} : posted' = [posted EXCEPT ![w] = @ \cup started]
       /\ \/ RemoveAll(w, {h})
          \/ /\ UNCHANGED <<closes, heap>>
             /\ handlers' = [handlers EXCEPT ![w] =
                               IF \E e \in @ : sock[e] = sock[h] THEN @ ELSE @ \cup {h}]
  /\ UNCHANGED <<used, sock, addr, port, mixed, wPc, counter, todo>>

AcceptDone(w) ==
  /\ wPc[w] = "accept" /\ NothingLeft(w)
  /\ Goto(w, "get")
  /\ UNCHANGED <<objects, pendq, completions, handlers, counter, todo>>

-----------------------------------------------------------------------------
(* The completion port.  Packets come out in the order they went in.       *)

\* Data or the end of the stream arrive for a live socket, or the operation fails,
\* as it does in the end once the socket is closed.
Complete(w) ==
  /\ wPc[w] # "exited"
  /\ \E h \in posted[w], result \in {"data", "eof", "failed"} :
       /\ result # "failed" => h \in heap
       /\ posted' = [posted EXCEPT ![w] = @ \ {h}]
       /\ port' = [port EXCEPT ![w] = Append(@, <<h, result>>)]
  /\ UNCHANGED <<objects, pendq, worker, mixed>>

\* handler(olp->_sock), as the set of at most one entry.
Found(w, h) == {e \in handlers[w] : sock[e] = sock[h]}

\* GetQueuedCompletionStatus gives a completion, of this handler and with this
\* result; after the events of one round the handlers are run.
Completed(w, result) ==
  {h \in used : wPc[w] = "get" /\ port[w] # <<>> /\ Head(port[w]) = <<h, result>>}

Taken(w) ==
  /\ port' = [port EXCEPT ![w] = Tail(@)]
  /\ counter' = [counter EXCEPT ![w] = @ + 1]
  /\ Goto(w, IF counter[w] + 1 < MaxEvents THEN "accept" ELSE "run")
  /\ todo' = [todo EXCEPT ![w] = handlers'[w]]

Note(h, S, what) ==
  mixed' = [e \in Handlers |-> IF e \in S \ {h} THEN mixed[e] \cup {what} ELSE mixed[e]]

\* Mutant: the handler is found by the socket number alone.
AddressedBySocket(w, h) == Found(w, h)

\* hd1 == hd: the entry under the socket number has the address of the key.
Addressed(w, h) == {e \in Found(w, h) : addr[e] = addr[h]}

\* on_send or on_recv, which may start the next operation, and may fail.
TakeData(w) ==
  \E h \in Completed(w, "data") :
    /\ Note(h, Addressed(w, h), "data")
    /\ \E failed, next \in SUBSET Addressed(w, h) :
         /\ RemoveAll(w, failed)
         /\ \A e \in next : e = h \/ Idle(w, e)
         /\ posted' = [posted EXCEPT ![w] = @ \cup next]
    /\ Taken(w)
    /\ UNCHANGED <<used, sock, addr, opens, pendq>>

\* transfered == 0: the peer has closed the connection.
TakeEof(w) ==
  \E h \in Completed(w, "eof") :
    /\ Note(h, Addressed(w, h), "end")
    /\ RemoveAll(w, Addressed(w, h))
    /\ Taken(w)
    /\ UNCHANGED <<used, sock, addr, opens, pendq, posted>>

\* A failed operation ends whatever has its socket number now.
TakeFailed(w) ==
  \E h \in Completed(w, "failed") :
    /\ Note(h, Found(w, h), "end")
    /\ RemoveAll(w, Found(w, h))
    /\ Taken(w)
    /\ UNCHANGED <<used, sock, addr, opens, pendq, posted>>

\* WSA_WAIT_TIMEOUT ends the round.
TakeNothing(w) ==
  /\ wPc[w] = "get" /\ port[w] = <<>>
  /\ Goto(w, "run")
  /\ todo' = [todo EXCEPT ![w] = handlers[w]]
  /\ UNCHANGED <<objects, pendq, completions, handlers, counter>>

-----------------------------------------------------------------------------
\* run_handlers: on_timeout, if its timer is due, and on_running may start an operation,
\* whether they then fail or not.
MayStart(w, h) ==
  \E started \in SUBSET {h} :
    /\ started # {} => Idle(w, h)
    /\ posted' = [posted EXCEPT ![w] = @ \cup started]

RunHandled(w) ==
  /\ wPc[w] = "run"
  /\ \E h \in todo[w] : MayStart(w, h) /\ todo' = [todo EXCEPT ![w] = @ \ {h}]
  /\ UNCHANGED <<objects, pendq, port, mixed, handlers, wPc, counter>>

RunFailed(w) ==
  /\ wPc[w] = "run"
  /\ \E h \in todo[w] :
       MayStart(w, h) /\ RemoveAll(w, {h}) /\ todo' = [todo EXCEPT ![w] = @ \ {h}]
  /\ UNCHANGED <<used, sock, addr, opens, pendq, port, mixed, wPc, counter>>

RunDone(w) ==
  /\ wPc[w] = "run" /\ todo[w] = {}
  /\ Goto(w, "check")
  /\ UNCHANGED <<objects, pendq, completions, handlers, counter, todo>>

\* free_handlers: the map, then the queue, whose handlers were never opened.
FreeHandlers(w) ==
  /\ wPc[w] = "free"
  /\ RemoveAll(w, handlers[w])
  /\ Goto(w, "drain")
  /\ UNCHANGED <<used, sock, addr, opens, pendq, completions, counter, todo>>

DrainPending(w) ==
  /\ wPc[w] = "drain" /\ Take(w)
  /\ RemoveAll(w, {Head(pendq[w])})
  /\ UNCHANGED <<used, sock, addr, opens, completions, wPc, counter, todo>>

DrainDone(w) ==
  /\ wPc[w] = "drain" /\ NothingLeft(w)
  /\ Goto(w, "exited")
  /\ UNCHANGED <<objects, pendq, completions, handlers, counter, todo>>

WorkThread(w) ==
  \/ Check(w) \/ AcceptRefused(w) \/ AcceptOpened(w) \/ AcceptDone(w)
  \/ TakeData(w) \/ TakeEof(w) \/ TakeFailed(w) \/ TakeNothing(w)
  \/ RunHandled(w) \/ RunFailed(w) \/ RunDone(w)
  \/ FreeHandlers(w) \/ DrainPending(w) \/ DrainDone(w)

WorkerInit ==
  /\ used = {} /\ heap = {}
  /\ sock = [h \in Handlers |-> None]
  /\ addr = [h \in Handlers |-> None]
  /\ opens = [h \in Handlers |-> 0] /\ closes = [h \in Handlers |-> 0]
  /\ pendq = [w \in Workers |-> <<>>]
  /\ handlers = [w \in Workers |-> {}] /\ todo = [w \in Workers |-> {}]
  /\ posted = [w \in Workers |-> {}] /\ port = [w \in Workers |-> <<>>]
  /\ mixed = [h \in Handlers |-> {}]
  /\ wPc = [w \in Workers |-> "check"] /\ counter = [w \in Workers |-> 0]
  /\ wStop = [w \in Workers |-> FALSE]
=============================================================================
