---------------------------- MODULE IocpService ----------------------------
(***************************************************************************)
(* The Windows front ends of netsvc over their workers: iocp_accepter,     *)
(* whose thread hands every accepted connection to a worker, and           *)
(* iocp_connector, whose connect queues a handler with a connection under  *)
(* way and whose thread hands it to a worker when the connection stands.   *)
(* A process has workers of its own for each; here one of the two is       *)
(* chosen at the start.                                                    *)
(***************************************************************************)
EXTENDS IocpWorker

VARIABLES
  front,            \* which of the two: "accepter" or "connector"
  fPc,              \* accept_thread or connect_thread
  fresh,            \* handler the accept thread has just made
  pending,          \* _pending_handlers
  hds, look,        \* the connect thread's list, and what is left to look at
  hdCounter,        \* _hd_counter, modulo NWorkers
  mPc, fStop        \* the thread in stop, _accepter_stop or _connector_stop

frontVars == <<front, fPc, fresh, pending, hds, look, hdCounter>>
control == <<mPc, fStop, wStop>>
vars == <<objects, pendq, completions, worker, frontVars, control>>

TypeOK ==
  /\ heap \subseteq used /\ used \subseteq Handlers
  /\ sock \in [Handlers -> Socks \cup {None}] /\ addr \in [Handlers -> Addrs \cup {None}]
  /\ opens \in [Handlers -> Nat] /\ closes \in [Handlers -> Nat]
  /\ pendq \in [Workers -> Seq(Handlers)] /\ \A w \in Workers : Len(pendq[w]) <= PendSize
  /\ port \in [Workers -> Seq(Handlers \X {"data", "eof", "failed"})]
  /\ {handlers, posted, todo} \subseteq [Workers -> SUBSET Handlers]
  /\ mixed \in [Handlers -> SUBSET {"data", "end"}]
  /\ wPc \in [Workers -> {"check", "accept", "get", "run", "free", "drain", "exited"}]
  /\ counter \in [Workers -> 0 .. MaxEvents] /\ wStop \in [Workers -> BOOLEAN]
  /\ front \in {"accepter", "connector"}
  /\ fPc \in {"check", "accept", "dispatch", "look", "exited"}
  /\ pending \cup hds \subseteq Handlers /\ look \subseteq hds
  /\ hdCounter \in Workers /\ fresh \in Handlers \cup {None}
  /\ mPc \in {"serve", "join", "pending", "workers", "stopped"}

Init ==
  /\ WorkerInit
  /\ front \in {"accepter", "connector"}
  /\ fPc = "check" /\ fresh = None
  /\ pending = {} /\ hds = {} /\ look = {} /\ hdCounter = 0
  /\ mPc = "serve" /\ fStop = FALSE

-----------------------------------------------------------------------------
\* new handler(), on a socket and at an address that nobody has.
Create(h) ==
  /\ h \in Handlers \ used
  /\ used' = used \cup {h} /\ heap' = heap \cup {h}
  /\ \E s \in Socks \ {sock[e] : e \in heap} : sock' = [sock EXCEPT ![h] = s]
  /\ \E a \in Addrs \ {addr[e] : e \in heap} : addr' = [addr EXCEPT ![h] = a]
  /\ UNCHANGED <<opens, closes>>

\* dispatch by round robin, on a queue that may be full.
Dispatch(h, ok) ==
  /\ hdCounter' = (hdCounter + 1) % NWorkers
  /\ \/ ok /\ Put(hdCounter, h)
     \/ ~ok /\ Len(pendq[hdCounter]) = PendSize /\ UNCHANGED pendq

-----------------------------------------------------------------------------
(* accept_thread *)

AcceptCheck ==
  /\ front = "accepter" /\ fPc = "check"
  /\ fPc' = IF fStop THEN "exited" ELSE "accept"
  /\ UNCHANGED <<objects, pendq, front, fresh, pending, hds, look, hdCounter>>

\* WSAAccept returns a connection, or fails.
Accept ==
  /\ fPc = "accept"
  /\ \/ \E h \in Handlers : Create(h) /\ fresh' = h /\ fPc' = "dispatch"
     \/ fPc' = "check" /\ UNCHANGED <<objects, fresh>>
  /\ UNCHANGED <<pendq, front, pending, hds, look, hdCounter>>

\* A handler that finds the queue full is deleted, no callback is called.
AcceptDispatch ==
  /\ fPc = "dispatch"
  /\ \E ok \in BOOLEAN : Dispatch(fresh, ok) /\ heap' = IF ok THEN heap ELSE heap \ {fresh}
  /\ fPc' = "check" /\ fresh' = None
  /\ UNCHANGED <<used, sock, addr, opens, closes, front, pending, hds, look>>

-----------------------------------------------------------------------------
(* connect and connect_thread *)

\* The owner of the connector calls connect, and not during stop.
Connect ==
  /\ front = "connector" /\ mPc = "serve"
  /\ \E h \in Handlers : Create(h) /\ pending' = pending \cup {h}
  /\ UNCHANGED <<pendq, front, fPc, fresh, hds, look, hdCounter>>

\* Mutant: fetch copies the pending handlers and leaves them in the list.
FetchCopy ==
  /\ front = "connector" /\ fPc = "check"
  /\ IF fStop THEN fPc' = "exited" /\ UNCHANGED <<pending, hds, look>>
     ELSE fPc' = "look" /\ hds' = hds \cup pending /\ look' = hds' /\ UNCHANGED pending
  /\ UNCHANGED <<objects, pendq, front, fresh, hdCounter>>

\* The end of the thread, or fetch: the pending handlers move to the thread's list.
Fetch ==
  /\ front = "connector" /\ fPc = "check"
  /\ IF fStop THEN fPc' = "exited" /\ UNCHANGED <<pending, hds, look>>
     ELSE fPc' = "look" /\ hds' = hds \cup pending /\ look' = hds' /\ pending' = {}
  /\ UNCHANGED <<objects, pendq, front, fresh, hdCounter>>

\* select, which does not wait: not ready yet.
LookPending ==
  /\ fPc = "look"
  /\ \E h \in look : look' = look \ {h}
  /\ UNCHANGED <<objects, pendq, front, fPc, fresh, pending, hds, hdCounter>>

\* The connection stands and goes to a worker.
LookConnected ==
  /\ fPc = "look"
  /\ \E h \in look : Dispatch(h, TRUE) /\ look' = look \ {h} /\ hds' = hds \ {h}
  /\ UNCHANGED <<objects, front, fPc, fresh, pending>>

\* It failed, select did, or the queue is full: opened only to be closed.
LookFailed ==
  /\ fPc = "look"
  /\ \E h \in look :
       /\ Dispatch(h, FALSE) \/ UNCHANGED <<hdCounter, pendq>>
       /\ opens' = [opens EXCEPT ![h] = @ + 1]
       /\ closes' = [closes EXCEPT ![h] = @ + 1]
       /\ heap' = heap \ {h}
       /\ look' = look \ {h} /\ hds' = hds \ {h}
  /\ UNCHANGED <<used, sock, addr, front, fPc, fresh, pending>>

LookDone ==
  /\ fPc = "look" /\ look = {}
  /\ fPc' = "check"
  /\ UNCHANGED <<objects, pendq, front, fresh, pending, hds, look, hdCounter>>

FrontThread ==
  \/ AcceptCheck \/ Accept \/ AcceptDispatch
  \/ Connect \/ Fetch \/ LookPending \/ LookConnected \/ LookFailed \/ LookDone

-----------------------------------------------------------------------------
(* stop of the accepter and of the connector *)

Stop ==
  /\ mPc = "serve"
  /\ mPc' = "join" /\ fStop' = TRUE
  /\ UNCHANGED <<objects, pending, wStop>>

JoinFront ==
  /\ mPc = "join" /\ fPc = "exited"
  /\ mPc' = "pending"
  /\ UNCHANGED <<objects, pending, fStop, wStop>>

\* The connector's pending handlers: closed, never opened.
FreePending ==
  /\ mPc = "pending"
  /\ closes' = [h \in Handlers |-> closes[h] + Cardinality(pending \cap {h})]
  /\ heap' = heap \ pending /\ pending' = {}
  /\ mPc' = "workers"
  /\ UNCHANGED <<used, sock, addr, opens, fStop, wStop>>

StopWorker(w) ==
  /\ mPc = "workers" /\ ~wStop[w]
  /\ \A v \in Workers : v < w => wPc[v] = "exited"
  /\ wStop' = [wStop EXCEPT ![w] = TRUE]
  /\ UNCHANGED <<objects, pending, mPc, fStop>>

Stopped ==
  /\ mPc = "workers" /\ \A w \in Workers : wPc[w] = "exited"
  /\ mPc' = "stopped"
  /\ UNCHANGED <<objects, pending, fStop, wStop>>

StopThread == Stop \/ JoinFront \/ FreePending \/ Stopped \/ \E w \in Workers : StopWorker(w)

Next ==
  \/ \E w \in Workers : (WorkThread(w) \/ Complete(w)) /\ UNCHANGED <<frontVars, control>>
  \/ FrontThread /\ UNCHANGED <<completions, worker, control>>
  \/ /\ StopThread
     /\ UNCHANGED <<pendq, completions, worker, front, fPc, fresh, hds, look, hdCounter>>

Spec == Init /\ [][Next]_vars

-----------------------------------------------------------------------------
\* Where the handler is: with the front end, on a queue or in a map.
Places(h) ==
  {<<"fresh">> : x \in {h} \cap {fresh}} \cup {<<"pending">> : x \in {h} \cap pending}
    \cup {<<"hds">> : x \in {h} \cap hds}
    \cup (UNION {{<<"queue", w, i>> : i \in {j \in 1 .. Len(pendq[w]) : pendq[w][j] = h}}
                 : w \in Workers})
    \cup {<<"map", w>> : w \in {v \in Workers : h \in handlers[v]}}

\* A live handler is in one place, so one thread calls and deletes it; it is opened
\* and closed at most once, and closed if it was opened. When stop returns what is
\* left are the connections that the connect thread still waited for.
OneOwner ==
  /\ TypeOK
  /\ \A h \in used :
       /\ Cardinality(Places(h)) = (IF h \in heap THEN 1 ELSE 0)
       /\ opens[h] <= 1 /\ closes[h] <= 1
       /\ h \notin heap => opens[h] <= closes[h]
  /\ mPc = "stopped" => heap = hds

\* A completion only reaches the connection it belongs to, but for two ways of
\* meeting a predecessor with the same socket number: data if the handler is also
\* at the same address, the end of the connection whatever the address is.
Predecessors(h) == {p \in used \ heap : p # h /\ sock[p] = sock[h] /\ opens[p] = 1}
CompletionsMatched ==
  \A h \in used :
    /\ mixed[h] # {} => Predecessors(h) # {}
    /\ "data" \in mixed[h] => \E p \in Predecessors(h) : addr[p] = addr[h]
=============================================================================
