------------------------ MODULE EpollServiceProofs ------------------------
(***************************************************************************)
(* The front end keeps every handler in one place, for any number of       *)
(* workers, handlers and descriptors and any queue size.  EInv says where  *)
(* a handler is in its life and which thread may touch it: Sockets and     *)
(* Calls are about the objects, Fresh and Queues about those not opened    *)
(* yet, Maps and Loops about the opened ones, Owned says that no live      *)
(* handler is anywhere else, and Ending orders the stopping of threads.    *)
(* A step ends, opens or creates one handler at most (StepObjects), and    *)
(* each part is kept with the help of the others.                          *)
(***************************************************************************)
EXTENDS EpollService, SequenceTheorems, FiniteSetTheorems, TLAPS

\* No element comes twice.
NoDup(s) == \A i, j \in 1 .. Len(s) : s[i] = s[j] => i = j

\* What is on the queue of w, and its entries whose handler is not deleted yet.
Queued(w) == ToSet(pendq[w])
Live(w) == {f \in Entries(w) \ {dead[w]} : wPc[w] = "free" => f \in todo[w]}

\* The sockets of the live handlers are the open ones, each of one handler.
Sockets ==
  /\ \A h \in Handlers \ heap : sock[h] = NoFd
  /\ \A h \in heap : sock[h] \in open
  /\ \A g, h \in heap : sock[g] = sock[h] => g = h
  /\ \A f \in open : \E h \in heap : sock[h] = f

\* Callbacks made so far, over a handler's life.
Calls ==
  /\ \A h \in Handlers \ used : opens[h] = 0 /\ closes[h] = 0
  /\ \A h \in used \ heap : closes[h] = opens[h] /\ opens[h] <= 1
  /\ \A h \in heap : closes[h] = 0 /\ opens[h] <= 1

\* The handler the accept thread has in hand.
Fresh ==
  /\ fresh # NoHandler <=> aPc = "dispatch"
  /\ fresh # NoHandler => fresh \in heap /\ opens[fresh] = 0

\* Queued handlers wait, unopened, on one queue.
Queues ==
  /\ pendq \in [Workers -> Seq(Handlers)]
  /\ \A w \in Workers :
       /\ NoDup(pendq[w])
       /\ \A h \in Queued(w) : h \in heap /\ opens[h] = 0 /\ h # fresh
  /\ \A v, w \in Workers : v # w => Queued(v) \cap Queued(w) = {}

\* Live entries are opened handlers, each in the map of one worker; behind the other
\* entries is a deleted one.
Maps ==
  /\ \A w \in Workers : \A f \in Entries(w) :
       /\ handlers[w][f] \in used
       /\ f \in Live(w) => LET h == handlers[w][f] IN h \in heap /\ sock[h] = f /\ opens[h] = 1
       /\ f \notin Live(w) => handlers[w][f] \notin heap
  /\ \A v, w \in Workers : \A f \in Live(v), g \in Live(w) :
       handlers[v][f] = handlers[w][g] => v = w

\* What a worker has gathered to do, at the point of its loop where it may have it.
Loop(w) ==
  /\ \A h \in interest[w] : h \in heap /\ handlers[w][sock[h]] = h
  /\ batch[w] \subseteq interest[w]
  /\ batch[w] # {} => wPc[w] = "events"
  /\ dead[w] # NoFd => wPc[w] \in {"events", "run"} /\ dead[w] \in Entries(w)
  /\ todo[w] \subseteq Entries(w) \ {dead[w]}
  /\ todo[w] # {} => wPc[w] \in {"run", "free"}
Loops == \A w \in Workers : Loop(w)

\* Every live handler is somewhere.
Owned == \A h \in heap : \/ h = fresh
                         \/ \E w \in Workers : h \in Queued(w)
                         \/ \E w \in Workers : handlers[w][sock[h]] = h

\* The order in which the threads end, and what an ended worker leaves behind.
Ending ==
  /\ mPc \in {"workers", "stopped"} => aPc = "exited"
  /\ \A w \in Workers :
       /\ wStop[w] => mPc \in {"workers", "stopped"}
       /\ wPc[w] \in {"free", "drain", "exited"} => wStop[w]
       /\ wPc[w] \in {"drain", "exited"} => Entries(w) = {}
       /\ wPc[w] = "exited" => pendq[w] = <<>>
       /\ mPc = "stopped" => wPc[w] = "exited"

EInv == Sockets /\ Calls /\ Fresh /\ Queues /\ Maps /\ Loops /\ Owned /\ Ending

\* The elements of a sequence, by their indices.
LEMMA ToSetIs == ASSUME NEW T, NEW s \in Seq(T) PROVE ToSet(s) = {s[i] : i \in 1 .. Len(s)}
  BY LenProperties DEF ToSet

\* Taking the first element off a queue without repetitions.
LEMMA TakeHead ==
  ASSUME NEW T, NEW s \in Seq(T), s # <<>>, NoDup(s)
  PROVE  /\ Head(s) \in T /\ Tail(s) \in Seq(T) /\ Len(Tail(s)) = Len(s) - 1
         /\ Head(s) \in ToSet(s) /\ NoDup(Tail(s)) /\ ToSet(Tail(s)) = ToSet(s) \ {Head(s)}
<1> DEFINE t == Tail(s)
<1>1. /\ Head(s) \in T /\ t \in Seq(T) /\ Len(t) = Len(s) - 1
      /\ \A i \in 1 .. Len(t) : t[i] = s[i + 1]
  BY HeadTailProperties
<1>2. Head(s) = s[1] /\ Len(s) \in Nat \ {0}
  BY EmptySeq, LenProperties
<1>3. ToSet(s) = {s[i] : i \in 1 .. Len(s)} /\ ToSet(t) = {t[i] : i \in 1 .. Len(t)}
  BY <1>1, ToSetIs
<1> HIDE DEF t
<1>4. NoDup(t)
  BY <1>1, <1>2 DEF NoDup
<1>5. ASSUME NEW x \in ToSet(t) PROVE x \in ToSet(s) \ {Head(s)}
  <2>1. PICK i \in 1 .. Len(t) : x = t[i]
    BY <1>3
  <2>2. i + 1 \in 1 .. Len(s) /\ x = s[i + 1] /\ i + 1 # 1 /\ 1 \in 1 .. Len(s)
    BY <1>1, <1>2, <2>1
  <2>3. QED
    BY <1>2, <1>3, <2>2 DEF NoDup
<1>6. ASSUME NEW x \in ToSet(s) \ {Head(s)} PROVE x \in ToSet(t)
  <2>1. PICK i \in 1 .. Len(s) : x = s[i]
    BY <1>3
  <2>2. i # 1
    BY <1>2, <2>1
  <2>3. i - 1 \in 1 .. Len(t) /\ (i - 1) + 1 = i
    BY <1>1, <1>2, <2>2
  <2>4. x = t[i - 1]
    BY <1>1, <2>1, <2>3
  <2>5. QED
    BY <1>3, <2>3, <2>4
<1>7. Head(s) \in ToSet(s)
  BY <1>2, <1>3
<1>8. QED
  BY <1>1, <1>4, <1>5, <1>6, <1>7 DEF t

\* Putting a new element on such a queue.
LEMMA AddLast ==
  ASSUME NEW T, NEW s \in Seq(T), NEW x \in T, x \notin ToSet(s), NoDup(s)
  PROVE  /\ Append(s, x) \in Seq(T) /\ Len(Append(s, x)) = Len(s) + 1
         /\ NoDup(Append(s, x)) /\ ToSet(Append(s, x)) = ToSet(s) \cup {x}
<1> DEFINE t == Append(s, x)
<1>1. /\ t \in Seq(T) /\ Len(t) = Len(s) + 1 /\ \A i \in 1 .. Len(s) : t[i] = s[i]
      /\ t[Len(s) + 1] = x
  BY AppendProperties
<1>2. Len(s) \in Nat
  BY LenProperties
<1>3. ToSet(s) = {s[i] : i \in 1 .. Len(s)} /\ ToSet(t) = {t[i] : i \in 1 .. Len(t)}
  BY <1>1, ToSetIs
<1> HIDE DEF t
<1>4. \A i \in 1 .. Len(t) : i = Len(s) + 1 \/ (i \in 1 .. Len(s) /\ t[i] = s[i] /\ s[i] \in ToSet(s))
  BY <1>1, <1>2, <1>3
<1>5. NoDup(t)
  BY <1>1, <1>2, <1>4 DEF NoDup
<1>6. ToSet(t) \subseteq ToSet(s) \cup {x}
  BY <1>1, <1>3, <1>4
<1>7. x \in ToSet(t)
  <2>1. Len(s) + 1 \in 1 .. Len(t)
    BY <1>1, <1>2
  <2>2. QED
    BY <1>1, <1>3, <2>1
<1>8. ASSUME NEW y \in ToSet(s) PROVE y \in ToSet(t)
  <2>1. PICK i \in 1 .. Len(s) : y = s[i]
    BY <1>3
  <2>2. i \in 1 .. Len(t) /\ t[i] = y
    BY <1>1, <1>2, <2>1
  <2>3. QED
    BY <1>3, <2>2
<1>9. QED
  BY <1>1, <1>5, <1>6, <1>7, <1>8 DEF t

\* An entry that is neither dead nor freed is the handler of its socket.
LEMMA LiveEntry ==
  ASSUME TypeOK, Maps, NEW w \in Workers, NEW f \in Live(w)
  PROVE  /\ f \in Entries(w) /\ handlers[w][f] \in heap /\ handlers[w][f] \in Handlers
         /\ sock[handlers[w][f]] = f /\ opens[handlers[w][f]] = 1
  BY DEF Live, Maps, TypeOK

\* What a worker has on its list is live.
LEMMA TodoLive ==
  ASSUME Loops, NEW w \in Workers, NEW f \in todo[w]
  PROVE  f \in Live(w)
  BY DEF Loops, Loop, Live

\* The entry of a handler whose event has come is its own.
LEMMA BatchLive ==
  ASSUME TypeOK, Maps, Loops, Sockets, NEW w \in Workers, At(w, "events"), NEW h \in batch[w]
  PROVE  /\ h \in heap /\ sock[h] \in Live(w) /\ handlers[w][sock[h]] = h
<1>1. h \in heap /\ handlers[w][sock[h]] = h /\ sock[h] \in Fds /\ h # NoHandler
  BY EpollAssumption DEF Loops, Loop, Sockets, TypeOK
<1>2. sock[h] \in Entries(w)
  BY <1>1 DEF Entries
<1>3. sock[h] \in Live(w)
  BY <1>2, EpollAssumption DEF At, Live, Entries
<1>4. QED
  BY <1>1, <1>3

\* The oldest pending handler of a worker.
LEMMA HeadPending ==
  ASSUME TypeOK, Queues, NEW w \in Workers, pendq[w] # <<>>
  PROVE  /\ Head(pendq[w]) \in Queued(w) /\ Head(pendq[w]) \in heap /\ Head(pendq[w]) \in Handlers
         /\ opens[Head(pendq[w])] = 0 /\ Head(pendq[w]) # fresh
<1>1. pendq[w] \in Seq(Handlers) /\ NoDup(pendq[w])
  BY DEF Queues
<1>2. Head(pendq[w]) \in Queued(w) /\ Head(pendq[w]) \in Handlers
  BY <1>1, TakeHead DEF Queued
<1>3. QED
  BY <1>2 DEF Queues

\* The inductive invariant.
EState == TypeOK /\ EInv

\* What a step does to the objects: nothing, or one step in the life of one handler.
Accepted(h, f) ==
  /\ h \in Handlers \ used /\ f \in Fds \ open
  /\ used' = used \cup {h} /\ heap' = heap \cup {h}
  /\ sock' = [sock EXCEPT ![h] = f] /\ open' = open \cup {f}
  /\ UNCHANGED <<opens, closes>>
Opened(h) ==
  /\ h \in heap /\ opens[h] = 0
  /\ CallOpen(h) /\ UNCHANGED <<used, heap, sock, open, closes>>
TurnedAway(h) ==
  /\ h \in heap /\ opens[h] = 0
  /\ Delete(h)
  /\ UNCHANGED <<used, opens, closes>> \/ (CallOpen(h) /\ CallClose(h) /\ UNCHANGED used)
Ended(h) ==
  /\ h \in heap /\ opens[h] = 1
  /\ Delete(h) /\ CallClose(h) /\ UNCHANGED <<used, opens>>

Taken(w) ==
  /\ pendq[w] # <<>> /\ pendq' = [pendq EXCEPT ![w] = Tail(@)]
  /\ Opened(Head(pendq[w])) \/ TurnedAway(Head(pendq[w]))

\* A step of the accept thread makes one handler, or turns its new one away.
LEMMA AcceptObjects ==
  ASSUME EState, AcceptThread
  PROVE  \/ UNCHANGED objects
         \/ \E h \in Handlers, f \in Fds : Accepted(h, f)
         \/ fresh \in heap /\ TurnedAway(fresh)
<1> USE DEF EState, EInv, objects
<1>1. CASE AcceptConn
  BY <1>1 DEF AcceptConn, Accepted
<1>2. CASE Dispatch /\ Full(counter)
  <2>1. fresh \in heap /\ opens[fresh] = 0
    BY <1>2 DEF Fresh, Dispatch
  <2>2. QED
    BY <1>2, <2>1 DEF Dispatch, TurnedAway
<1>3. QED
  BY <1>1, <1>2 DEF AcceptThread, AcceptCheck, AcceptNothing, Dispatch

\* A step of a worker takes the oldest handler of its queue, or ends one it had opened.
LEMMA WorkerObjects ==
  ASSUME EState, NEW w \in Workers, WorkerThread(w)
  PROVE  /\ UNCHANGED accepter
         /\ \/ UNCHANGED <<objects, pendq>>
            \/ Taken(w)
            \/ UNCHANGED pendq /\ \E h \in heap : Ended(h)
<1> USE DEF EState, EInv, objects
<1>1. UNCHANGED accepter
  BY DEF WorkerThread, WorkerCheck, NonePending, RejectPending, OpenPending, EpollWait,
         EventHandled, EventFailed, EventsDone, RunHandled, RunFailed, RunDone, Erase, FreeEntry,
         FreeClear, DrainPending, DrainDone
<1>2. CASE RejectPending(w) \/ OpenPending(w) \/ DrainPending(w)
  <2>1. Head(pendq[w]) \in heap /\ opens[Head(pendq[w])] = 0
    BY <1>2, HeadPending DEF RejectPending, OpenPending, DrainPending
  <2>2. Taken(w)
    BY <1>2, <2>1 DEF RejectPending, OpenPending, DrainPending, TurnedAway, Opened, Taken
  <2>3. QED
    BY <1>1, <2>2
<1>3. CASE RunFailed(w) \/ FreeEntry(w)
  <2>1. PICK f \in todo[w] : Destroy(w, f)
    BY <1>3 DEF RunFailed, FreeEntry
  <2>2. /\ handlers[w][f] \in heap /\ opens[handlers[w][f]] = 1 /\ UNCHANGED <<used, opens, pendq>>
    BY <1>3, TodoLive, LiveEntry DEF RunFailed, FreeEntry
  <2>3. QED
    BY <1>1, <2>1, <2>2 DEF Destroy, Ended
<1>4. CASE EventFailed(w)
  <2>1. PICK h \in batch[w] :
          IF sock[h] \in Entries(w) THEN Destroy(w, sock[h])
                                    ELSE UNCHANGED <<closes, heap, open, sock>>
    BY <1>4 DEF EventFailed
  <2>2. /\ h \in heap /\ handlers[w][sock[h]] = h /\ opens[h] = 1
        /\ UNCHANGED <<used, opens, pendq>>
    BY <1>4, BatchLive, LiveEntry DEF EventFailed
  <2>3. QED
    BY <1>1, <2>1, <2>2 DEF Destroy, Ended
<1>5. QED
  BY <1>1, <1>2, <1>3, <1>4
     DEF WorkerThread, WorkerCheck, NonePending, EpollWait, EventHandled, EventsDone,
         RunHandled, RunDone, Erase, FreeClear, DrainDone

\* A step of the service moves one handler at most in its life.
LEMMA StepObjects ==
  ASSUME EState, [Next]_vars
  PROVE  \/ UNCHANGED objects
         \/ \E h \in Handlers, f \in Fds : Accepted(h, f)
         \/ \E h \in heap : Opened(h) \/ TurnedAway(h) \/ Ended(h)
<1>1. CASE AcceptThread
  BY <1>1, AcceptObjects
<1>2. ASSUME NEW w \in Workers, WorkerThread(w)
      PROVE  UNCHANGED objects \/ \E h \in heap : Opened(h) \/ TurnedAway(h) \/ Ended(h)
  BY <1>2, WorkerObjects DEF Taken, Opened, TurnedAway
<1>3. CASE StopThread
  BY <1>3 DEF StopThread, Stop, JoinAccepter, StopWorker, Stopped
<1>4. QED
  BY <1>1, <1>2, <1>3 DEF Next, vars

\* A live handler keeps a socket of its own, and its calls stay paired.
LEMMA NextSockets == EState /\ [Next]_vars => Sockets' /\ Calls'
<1> SUFFICES ASSUME EState, [Next]_vars PROVE Sockets' /\ Calls'
  OBVIOUS
<1>0. /\ Sockets /\ Calls /\ heap \subseteq Handlers /\ heap \subseteq used
      /\ sock \in [Handlers -> Fds \cup {NoFd}] /\ open \subseteq Fds
      /\ opens \in [Handlers -> 0 .. 2] /\ closes \in [Handlers -> 0 .. 2]
  BY DEF EState, EInv, TypeOK
<1>1. CASE UNCHANGED objects
  BY <1>0, <1>1 DEF objects, Sockets, Calls
<1>2. ASSUME NEW h \in Handlers, NEW f \in Fds, Accepted(h, f) PROVE Sockets' /\ Calls'
  BY <1>0, <1>2 DEF Accepted, Sockets, Calls
<1>3. ASSUME NEW h \in heap, Opened(h) PROVE Sockets' /\ Calls'
  BY <1>0, <1>3 DEF Opened, CallOpen, Sockets, Calls
<1>4. ASSUME NEW h \in heap, TurnedAway(h) \/ Ended(h) PROVE Sockets'
  BY <1>0, <1>4 DEF TurnedAway, Ended, Delete, Sockets
<1>5. ASSUME NEW h \in heap, TurnedAway(h) \/ Ended(h) PROVE Calls'
  <2>1. used' = used /\ heap' = heap \ {h} /\ closes[h] = 0
    BY <1>0, <1>5 DEF TurnedAway, Ended, Delete, Calls
  <2>2. closes'[h] = opens'[h] /\ opens'[h] <= 1
    BY <1>0, <1>5, <2>1 DEF TurnedAway, Ended, CallOpen, CallClose
  <2>3. \A g \in Handlers \ {h} : opens'[g] = opens[g] /\ closes'[g] = closes[g]
    BY <1>0, <1>5 DEF TurnedAway, Ended, CallOpen, CallClose
  <2>4. used \subseteq Handlers
    BY DEF EState, TypeOK
  <2>5. QED
    BY <1>0, <2>1, <2>2, <2>3, <2>4 DEF Calls
<1>6. QED
  BY <1>1, <1>2, <1>3, <1>4, <1>5, StepObjects DEF vars

\* The accept thread holds a handler only while it dispatches it.
LEMMA NextFresh == EState /\ [Next]_vars => Fresh'
<1> SUFFICES ASSUME EState, [Next]_vars PROVE Fresh'
  OBVIOUS
<1>0. /\ Fresh /\ heap \subseteq Handlers /\ opens \in [Handlers -> 0 .. 2] /\ Calls
      /\ heap \subseteq used /\ NoHandler \notin Handlers
  BY EpollAssumption DEF EState, EInv, TypeOK
<1>1. CASE AcceptThread
  BY <1>0, <1>1
     DEF AcceptThread, AcceptCheck, AcceptNothing, AcceptConn, Dispatch, Fresh, objects, Calls
<1>2. CASE UNCHANGED <<objects, accepter>>
  BY <1>0, <1>2 DEF Fresh, accepter, objects
<1>3. ASSUME NEW w \in Workers, WorkerThread(w) PROVE Fresh'
  <2>1. UNCHANGED accepter
    BY <1>3, WorkerObjects
  <2>2. ASSUME NEW h \in heap \ {fresh}, Opened(h) \/ TurnedAway(h) \/ Ended(h) PROVE Fresh'
    BY <1>0, <2>1, <2>2 DEF Opened, TurnedAway, Ended, Delete, CallOpen, Fresh, accepter
  <2>3. ASSUME NEW h \in heap, Ended(h) PROVE h # fresh
    BY <1>0, <2>3 DEF Ended, Fresh
  <2>4. ASSUME Taken(w) PROVE Head(pendq[w]) \in heap \ {fresh}
    BY <2>4, HeadPending DEF Taken, EState, EInv
  <2>5. QED
    BY <1>2, <1>3, <2>1, <2>2, <2>3, <2>4, WorkerObjects DEF Taken
<1>4. CASE StopThread
  BY <1>2, <1>4 DEF StopThread, Stop, JoinAccepter, StopWorker, Stopped
<1>5. QED
  BY <1>1, <1>2, <1>3, <1>4 DEF Next, vars

\* What is on the queues stays there, fresh and unopened.
LEMMA QueuesKept ==
  ASSUME EState, UNCHANGED pendq,
         \/ UNCHANGED <<heap, opens>>
         \/ \E h \in Handlers : heap' = heap \cup {h} /\ UNCHANGED opens
         \/ \E h \in heap : heap' = heap \ {h} /\ UNCHANGED opens /\ (opens[h] = 1 \/ h = fresh),
         fresh' \in {fresh, NoHandler} \/ fresh' \notin heap
  PROVE  Queues'
<1>1. Queues /\ NoHandler \notin Handlers /\ heap \subseteq Handlers
  BY EpollAssumption DEF EState, EInv, TypeOK
<1>2. pendq' = pendq /\ \A w \in Workers : Queued(w)' = Queued(w)
  BY DEF Queued
<1>3. ASSUME NEW w \in Workers, NEW h \in Queued(w)
      PROVE  h \in heap' /\ opens'[h] = 0 /\ h # fresh'
  BY <1>1, <1>3 DEF Queues
<1>4. QED
  BY <1>1, <1>2, <1>3 DEF Queues, NoDup

\* A worker takes the oldest handler off its queue.
LEMMA QueuesTaken ==
  ASSUME EState, NEW w \in Workers, Taken(w), UNCHANGED fresh
  PROVE  Queues'
<1> DEFINE q == pendq[w]
           x == Head(q)
<1>1. /\ Queues /\ heap \subseteq Handlers /\ opens \in [Handlers -> 0 .. 2]
      /\ q \in Seq(Handlers) /\ NoDup(q) /\ q # <<>>
  BY DEF EState, EInv, TypeOK, Queues, Taken
<1>2. /\ x \in ToSet(q) /\ Tail(q) \in Seq(Handlers) /\ NoDup(Tail(q))
      /\ ToSet(Tail(q)) = ToSet(q) \ {x}
  BY <1>1, TakeHead
<1>3. /\ pendq' \in [Workers -> Seq(Handlers)] /\ pendq'[w] = Tail(q)
      /\ \A v \in Workers \ {w} : pendq'[v] = pendq[v]
  BY <1>1, <1>2 DEF Queues, Taken
<1>4. Queued(w)' = Queued(w) \ {x} /\ \A v \in Workers \ {w} : Queued(v)' = Queued(v)
  BY <1>2, <1>3 DEF Queued
<1>5. \A v \in Workers : Queued(v)' \subseteq Queued(v) \ {x}
  BY <1>1, <1>2, <1>4 DEF Queues, Queued
<1>6. \A v \in Workers : NoDup(pendq[v])'
  BY <1>1, <1>2, <1>3 DEF Queues, NoDup
<1>7. x \in heap /\ \A h \in heap \ {x} : h \in heap' /\ opens'[h] = opens[h]
  BY <1>1 DEF Taken, Opened, TurnedAway, CallOpen, Delete
<1> HIDE DEF q, x
<1>8. ASSUME NEW v \in Workers, NEW h \in Queued(v)'
      PROVE  h \in heap' /\ opens'[h] = 0 /\ h # fresh'
  BY <1>1, <1>5, <1>7 DEF Queues
<1>9. QED
  BY <1>1, <1>3, <1>5, <1>6, <1>8 DEF Queues

\* The accepter puts its new handler on a queue.
LEMMA QueuesAdded ==
  ASSUME EState, NEW w \in Workers, fresh # NoHandler, Enqueue(w, fresh), fresh' = NoHandler,
         UNCHANGED <<heap, opens>>
  PROVE  Queues'
<1> DEFINE q == pendq[w]
<1>1. /\ Queues /\ heap \subseteq Handlers /\ NoHandler \notin Handlers
      /\ q \in Seq(Handlers) /\ NoDup(q) /\ fresh \in heap /\ opens[fresh] = 0
      /\ fresh \notin ToSet(q)
  BY EpollAssumption DEF EState, EInv, TypeOK, Queues, Fresh, Queued
<1>2. /\ Append(q, fresh) \in Seq(Handlers) /\ NoDup(Append(q, fresh))
      /\ ToSet(Append(q, fresh)) = ToSet(q) \cup {fresh}
  BY <1>1, AddLast
<1>3. /\ pendq' \in [Workers -> Seq(Handlers)] /\ pendq'[w] = Append(q, fresh)
      /\ \A v \in Workers \ {w} : pendq'[v] = pendq[v]
  BY <1>1, <1>2 DEF Queues, Enqueue
<1>4. Queued(w)' = Queued(w) \cup {fresh} /\ \A v \in Workers \ {w} : Queued(v)' = Queued(v)
  BY <1>2, <1>3 DEF Queued
<1>5. ASSUME NEW v \in Workers PROVE NoDup(pendq[v])'
  <2>1. \A u \in Workers : NoDup(pendq[u])
    BY <1>1 DEF Queues
  <2>2. CASE v = w
    BY <1>2, <1>3, <2>2 DEF NoDup
  <2>3. CASE v # w
    BY <1>3, <2>1, <2>3 DEF NoDup
  <2>4. QED
    BY <2>2, <2>3
<1> HIDE DEF q
<1>6. ASSUME NEW v \in Workers, NEW h \in Queued(v)'
      PROVE  h \in heap' /\ opens'[h] = 0 /\ h # fresh'
  BY <1>1, <1>4 DEF Queues
<1>7. \A u, v \in Workers : u # v => Queued(u)' \cap Queued(v)' = {}
  BY <1>1, <1>4 DEF Queues
<1>8. QED
  BY <1>3, <1>5, <1>6, <1>7 DEF Queues

\* What is queued stays live, unopened and on one queue only.
LEMMA NextQueues == EState /\ [Next]_vars => Queues'
<1> SUFFICES ASSUME EState, [Next]_vars PROVE Queues'
  OBVIOUS
<1>0. /\ heap \subseteq Handlers /\ heap \subseteq used /\ opens \in [Handlers -> 0 .. 2]
      /\ Fresh /\ counter \in Workers
  BY DEF EState, EInv, TypeOK
<1>1. CASE UNCHANGED <<objects, pendq, fresh>>
  BY <1>1, QueuesKept DEF objects
<1>2. CASE AcceptThread
  <2>1. CASE AcceptConn
    BY <1>0, <2>1, QueuesKept DEF AcceptConn
  <2>2. CASE Dispatch /\ Full(counter)
    <3>1. /\ fresh \in heap /\ heap' = heap \ {fresh} /\ UNCHANGED <<pendq, opens>>
          /\ fresh' = NoHandler
      BY <1>0, <2>2 DEF Dispatch, Delete, Fresh
    <3>2. QED
      BY <3>1, QueuesKept
  <2>3. CASE Dispatch /\ ~Full(counter)
    BY <1>0, <2>3, QueuesAdded DEF Dispatch, Fresh
  <2>4. QED
    BY <1>1, <1>2, <2>1, <2>2, <2>3 DEF AcceptThread, AcceptCheck, AcceptNothing
<1>3. ASSUME NEW w \in Workers, WorkerThread(w) PROVE Queues'
  <2>1. UNCHANGED fresh
    BY <1>3, WorkerObjects DEF accepter
  <2>2. ASSUME UNCHANGED pendq, NEW h \in heap, Ended(h) PROVE Queues'
    BY <2>1, <2>2, QueuesKept DEF Ended, Delete
  <2>3. QED
    BY <1>1, <1>3, <2>1, <2>2, QueuesTaken, WorkerObjects
<1>4. CASE StopThread
  BY <1>1, <1>4 DEF StopThread, Stop, JoinAccepter, StopWorker, Stopped, accepter
<1>5. QED
  BY <1>1, <1>2, <1>3, <1>4 DEF Next, vars, accepter

\* A live entry and the handler behind it.
Known(w, h) == h \in heap /\ sock[h] \in Live(w) /\ handlers[w][sock[h]] = h /\ opens[h] = 1

\* A handler found under its own socket is a live entry.
LEMMA MappedKnown ==
  ASSUME EState, NEW w \in Workers, NEW h \in heap, handlers[w][sock[h]] = h
  PROVE  Known(w, h)
<1>1. sock[h] \in Fds /\ h \in Handlers /\ NoHandler \notin Handlers
  BY EpollAssumption DEF EState, EInv, TypeOK, Sockets
<1>2. sock[h] \in Entries(w)
  BY <1>1 DEF Entries
<1>3. QED
  BY <1>2 DEF EState, EInv, Maps, Known

\* What is behind a live entry.
LEMMA LiveKnown ==
  ASSUME EState, NEW w \in Workers, NEW f \in Live(w)
  PROVE  Known(w, handlers[w][f]) /\ sock[handlers[w][f]] = f
  BY LiveEntry DEF EState, EInv, Known

\* Two workers never know the same handler.
LEMMA KnownOnce ==
  ASSUME EState, NEW v \in Workers, NEW w \in Workers, NEW h, Known(v, h), Known(w, h)
  PROVE  v = w
  BY DEF EState, EInv, Maps, Known

\* The epoll instance of a worker knows live handlers of its map only.
LEMMA InterestKnown ==
  ASSUME EState, NEW w \in Workers, NEW h \in interest[w]
  PROVE  Known(w, h)
  BY MappedKnown DEF EState, EInv, Loops, Loop

\* What a worker does leaves the others' maps alone.
LEMMA Elsewhere ==
  ASSUME TypeOK, NEW w \in Workers, WorkerThread(w), NEW v \in Workers \ {w}
  PROVE  /\ handlers'[v] = handlers[v] /\ wPc'[v] = wPc[v] /\ batch'[v] = batch[v]
         /\ todo'[v] = todo[v] /\ dead'[v] = dead[v]
         /\ Entries(v)' = Entries(v) /\ Live(v)' = Live(v)
<1>1. /\ handlers'[v] = handlers[v] /\ wPc'[v] = wPc[v] /\ batch'[v] = batch[v]
      /\ todo'[v] = todo[v] /\ dead'[v] = dead[v]
  <2> USE DEF TypeOK, worker, Goto
  <2>1. CASE WorkerCheck(w) \/ NonePending(w) \/ EpollWait(w) \/ EventHandled(w) \/ EventsDone(w)
    BY <2>1 DEF WorkerCheck, NonePending, EpollWait, EventHandled, EventsDone
  <2>2. CASE RejectPending(w) \/ DrainPending(w) \/ DrainDone(w) \/ RunHandled(w) \/ RunDone(w)
    BY <2>2 DEF RejectPending, DrainPending, DrainDone, RunHandled, RunDone
  <2>3. CASE OpenPending(w)
    BY <2>3 DEF OpenPending
  <2>4. CASE EventFailed(w)
    BY <2>4 DEF EventFailed
  <2>5. CASE RunFailed(w) \/ FreeEntry(w)
    BY <2>5 DEF RunFailed, FreeEntry
  <2>6. CASE Erase(w) \/ FreeClear(w)
    BY <2>6 DEF Erase, FreeClear
  <2>7. QED
    BY <2>1, <2>2, <2>3, <2>4, <2>5, <2>6 DEF WorkerThread
<1>2. Entries(v)' = Entries(v)
  BY <1>1 DEF Entries
<1>3. QED
  BY <1>1, <1>2 DEF Live

\* The maps shrink, and the handlers that stay mapped are not touched.
LEMMA MapsShrink ==
  ASSUME EState, used \subseteq used',
         \A v \in Workers :
           /\ Entries(v)' \subseteq Entries(v) /\ Live(v)' \subseteq Live(v)
           /\ \A f \in Entries(v)' : handlers'[v][f] = handlers[v][f]
           /\ \A f \in Live(v)' : LET h == handlers[v][f] IN
                h \in heap' /\ sock'[h] = sock[h] /\ opens'[h] = opens[h]
           /\ \A f \in Entries(v)' \ Live(v)' : handlers[v][f] \notin heap'
  PROVE  Maps'
<1>1. Maps /\ \A v \in Workers : Live(v)' \subseteq Entries(v)'
  BY DEF EState, EInv, Live
<1>2. ASSUME NEW w \in Workers, NEW f \in Entries(w)'
      PROVE  /\ handlers'[w][f] \in used'
             /\ f \in Live(w)' => LET h == handlers'[w][f] IN
                                    h \in heap' /\ sock'[h] = f /\ opens'[h] = 1
             /\ f \notin Live(w)' => handlers'[w][f] \notin heap'
  BY <1>1, <1>2 DEF Maps
<1>3. ASSUME NEW v \in Workers, NEW w \in Workers, NEW f \in Live(v)', NEW g \in Live(w)',
             handlers'[v][f] = handlers'[w][g]
      PROVE  v = w
  BY <1>1, <1>3 DEF Maps
<1>4. QED
  BY <1>2, <1>3 DEF Maps

\* Nothing but the objects changes, and no object that is mapped.
LEMMA MapsKept ==
  ASSUME EState, used \subseteq used', UNCHANGED worker,
         heap' \cap used \subseteq heap,
         \A h \in heap : opens[h] = 1 => h \in heap' /\ sock'[h] = sock[h] /\ opens'[h] = opens[h]
  PROVE  Maps' /\ Loops'
<1>1. \A v \in Workers : Entries(v)' = Entries(v) /\ Live(v)' = Live(v)
  BY DEF worker, Entries, Live
<1>2. Maps /\ Loops
  BY DEF EState, EInv
<1>3. Maps'
  <2>1. ASSUME NEW v \in Workers, NEW f \in Live(v)
        PROVE  LET h == handlers[v][f] IN
                 h \in heap' /\ sock'[h] = sock[h] /\ opens'[h] = opens[h]
    BY <2>1, LiveKnown DEF Known
  <2>2. ASSUME NEW v \in Workers, NEW f \in Entries(v) \ Live(v)
        PROVE  handlers[v][f] \notin heap'
    BY <1>2 DEF Maps
  <2>3. QED
    BY <1>1, <2>1, <2>2, MapsShrink DEF worker
<1>4. ASSUME NEW v \in Workers PROVE Loop(v)'
  <2>1. ASSUME NEW h \in interest[v] PROVE h \in heap' /\ handlers'[v][sock'[h]] = h
    BY InterestKnown DEF worker, Known
  <2>2. QED
    BY <1>1, <1>2, <2>1 DEF Loops, Loop, worker
<1>5. QED
  BY <1>3, <1>4 DEF Loops

\* Another worker's loop: at most, one handler of this worker has ended.
LEMMA LoopElsewhere ==
  ASSUME EState, NEW w \in Workers, WorkerThread(w), NEW v \in Workers \ {w},
         NEW x, x \notin heap \/ opens[x] = 0 \/ Known(w, x),
         interest'[v] \in {interest[v], interest[v] \ {x}},
         \A h \in heap \ {x} : h \in heap' /\ sock'[h] = sock[h]
  PROVE  Loop(v)'
<1>1. /\ handlers'[v] = handlers[v] /\ wPc'[v] = wPc[v] /\ batch'[v] = batch[v]
      /\ todo'[v] = todo[v] /\ dead'[v] = dead[v] /\ Entries(v)' = Entries(v) /\ Loop(v)
  BY Elsewhere DEF EState, EInv, Loops
<1>2. ASSUME NEW h \in interest[v] PROVE h # x /\ h \in heap /\ handlers[v][sock[h]] = h
  <2>1. Known(v, h)
    BY InterestKnown
  <2>2. h # x
    BY <2>1, KnownOnce DEF Known
  <2>3. QED
    BY <2>1, <2>2 DEF Known
<1>3. interest'[v] = interest[v]
  BY <1>2
<1>4. QED
  BY <1>1, <1>2, <1>3 DEF Loop

Owner(h) == \/ h = fresh
            \/ \E w \in Workers : h \in Queued(w)
            \/ \E w \in Workers : handlers[w][sock[h]] = h

\* No handler is lost by a step that creates none and moves none.
LEMMA OwnedKept ==
  ASSUME EState, UNCHANGED <<fresh, pendq, handlers>>,
         \A h \in heap' : h \in heap /\ sock'[h] = sock[h]
  PROVE  Owned'
<1>1. \A w \in Workers : Queued(w)' = Queued(w)
  BY DEF Queued
<1>2. QED
  BY <1>1 DEF EState, EInv, Owned

\* The steps of a worker that only move it in its loop.
QuietStep(w) ==
  \/ WorkerCheck(w) \/ NonePending(w) \/ EpollWait(w) \/ EventHandled(w) \/ EventsDone(w)
  \/ RunHandled(w) \/ RunDone(w) \/ DrainDone(w)

\* Such a step changes no handler and keeps the loop in order.
LEMMA QuietLoop ==
  ASSUME EState, NEW w \in Workers, QuietStep(w)
  PROVE  /\ UNCHANGED <<objects, accepter, pendq, handlers, interest, dead>>
         /\ Live(w)' = Live(w) /\ Loop(w)'
<1>1. UNCHANGED <<objects, accepter, pendq, handlers, interest, dead>>
  BY DEF QuietStep, WorkerCheck, NonePending, EpollWait, EventHandled, EventsDone, RunHandled,
         RunDone, DrainDone
<1>2. /\ wPc \in [Workers -> {"check", "accept", "wait", "events", "run", "free", "drain", "exited"}]
      /\ todo \in [Workers -> SUBSET Fds] /\ batch \in [Workers -> SUBSET Handlers]
      /\ Loop(w)
  BY DEF EState, EInv, TypeOK, Loops
<1>3. Entries(w)' = Entries(w)
  BY <1>1 DEF Entries
<1>4. CASE WorkerCheck(w)
  BY <1>1, <1>2, <1>3, <1>4, EpollAssumption DEF WorkerCheck, Live, Loop, At, Goto, Entries, objects
<1>5. CASE NonePending(w) \/ EpollWait(w) \/ EventHandled(w) \/ DrainDone(w)
  <2>1. todo' = todo /\ wPc'[w] \notin {"free"} /\ wPc[w] \notin {"free", "run"}
    BY <1>2, <1>5 DEF NonePending, EpollWait, EventHandled, DrainDone, At, Goto
  <2>2. batch'[w] # {} => wPc'[w] = "events"
    BY <1>2, <1>5 DEF NonePending, EpollWait, EventHandled, DrainDone, At, Goto, Loop
  <2>3. batch'[w] \subseteq interest[w]
    BY <1>2, <1>5 DEF NonePending, EpollWait, EventHandled, DrainDone, At, Goto, Loop
  <2>4. dead[w] = NoFd
    BY <1>5 DEF NonePending, EpollWait, EventHandled, DrainDone, At
  <2>5. QED
    BY <1>1, <1>2, <1>3, <2>1, <2>2, <2>3, <2>4 DEF Live, Loop, objects
<1>6. CASE EventsDone(w) \/ RunHandled(w) \/ RunDone(w)
  <2>1. batch' = batch /\ batch[w] = {} /\ dead[w] = NoFd /\ wPc[w] # "free" /\ wPc'[w] # "free"
    BY <1>2, <1>6 DEF EventsDone, RunHandled, RunDone, At, Goto, Loop
  <2>2. /\ todo'[w] # {} => wPc'[w] = "run"
        /\ todo'[w] \subseteq Entries(w)
    BY <1>2, <1>6 DEF EventsDone, RunHandled, RunDone, At, Goto, Loop
  <2>3. NoFd \notin Entries(w)
    BY EpollAssumption DEF Entries
  <2>4. QED
    BY <1>1, <1>2, <1>3, <2>1, <2>2, <2>3 DEF Live, Loop, objects
<1>7. QED
  BY <1>1, <1>4, <1>5, <1>6 DEF QuietStep

\* Such a step leaves every map as it was.
LEMMA QuietMaps ==
  ASSUME EState, NEW w \in Workers, QuietStep(w)
  PROVE  Maps' /\ Loops' /\ Owned'
<1>1. /\ UNCHANGED <<objects, accepter, pendq, handlers, interest, dead>>
      /\ Live(w)' = Live(w) /\ Loop(w)' /\ WorkerThread(w) /\ TypeOK
  BY QuietLoop DEF QuietStep, WorkerThread, EState
<1>2. \A v \in Workers : Live(v)' = Live(v) /\ Entries(v)' = Entries(v)
  BY <1>1, Elsewhere DEF Entries
<1>3. Maps'
  <2>1. ASSUME NEW v \in Workers, NEW f \in Live(v) PROVE handlers[v][f] \in heap
    BY LiveKnown DEF Known
  <2>2. ASSUME NEW v \in Workers, NEW f \in Entries(v) \ Live(v) PROVE handlers[v][f] \notin heap
    BY DEF EState, EInv, Maps
  <2>3. QED
    BY <1>1, <1>2, <2>1, <2>2, MapsShrink DEF objects
<1>4. ASSUME NEW v \in Workers \ {w} PROVE Loop(v)'
  <2>1. /\ NoHandler \notin heap /\ interest'[v] = interest[v]
        /\ \A h \in heap : h \in heap' /\ sock'[h] = sock[h]
    BY <1>1, EpollAssumption DEF EState, TypeOK, objects
  <2>2. QED
    BY <1>1, <2>1, LoopElsewhere
<1>5. Owned'
  BY <1>1, OwnedKept DEF objects, accepter
<1>6. QED
  BY <1>1, <1>3, <1>4, <1>5 DEF Loops

\* A handler is taken off the queue and turned away.
LEMMA TurnedMaps ==
  ASSUME EState, NEW w \in Workers, Taken(w), TurnedAway(Head(pendq[w])), UNCHANGED worker,
         UNCHANGED accepter
  PROVE  Maps' /\ Loops' /\ Owned'
<1> DEFINE x == Head(pendq[w])
<1>1. /\ x \in heap /\ opens[x] = 0 /\ used' = used /\ heap' = heap \ {x}
      /\ \A h \in heap \ {x} : sock'[h] = sock[h] /\ opens'[h] = opens[h]
      /\ heap \subseteq Handlers /\ Owned
  BY DEF TurnedAway, Delete, CallOpen, EState, EInv, TypeOK
<1>2. Maps' /\ Loops'
  BY <1>1, MapsKept
<1>3. /\ ToSet(Tail(pendq[w])) = ToSet(pendq[w]) \ {x} /\ pendq \in [Workers -> Seq(Handlers)]
  BY TakeHead DEF EState, EInv, Queues, Taken
<1>4. /\ Queued(w)' = Queued(w) \ {x} /\ \A v \in Workers \ {w} : Queued(v)' = Queued(v)
  BY <1>3 DEF Queued, Taken
<1>5. fresh' = fresh /\ handlers' = handlers
  BY DEF worker, accepter
<1> HIDE DEF x
<1>6. ASSUME NEW h \in heap'
      PROVE  \/ h = fresh'
             \/ \E v \in Workers : h \in Queued(v)'
             \/ \E v \in Workers : handlers'[v][sock'[h]] = h
  BY <1>1, <1>4, <1>5 DEF Owned
<1>7. QED
  BY <1>2, <1>6 DEF Owned

\* A handler is opened, registered and mapped.
LEMMA OpenedMaps ==
  ASSUME EState, NEW w \in Workers, At(w, "accept"), Taken(w), Opened(Head(pendq[w])),
         UNCHANGED <<accepter, wPc, batch, todo, dead>>, WorkerThread(w),
         LET h == Head(pendq[w]) IN
           /\ interest' = [interest EXCEPT ![w] = @ \cup {h}]
           /\ handlers' = [handlers EXCEPT ![w][sock[h]] = IF @ = NoHandler THEN h ELSE @]
  PROVE  Maps' /\ Loops' /\ Owned'
<1> DEFINE x == Head(pendq[w])
           f == sock[x]
<1>1. /\ x \in heap /\ opens[x] = 0 /\ used' = used /\ heap' = heap /\ sock' = sock
      /\ opens' = [opens EXCEPT ![x] = @ + 1] /\ opens'[x] = 1
      /\ heap \subseteq Handlers /\ heap \subseteq used
      /\ opens \in [Handlers -> 0 .. 2] /\ sock \in [Handlers -> Fds \cup {NoFd}] /\ Loop(w)
  BY DEF Opened, CallOpen, EState, EInv, TypeOK, Loops
<1>2. f \in Fds /\ NoHandler \notin Handlers /\ NoFd \notin Fds
  BY <1>1, EpollAssumption DEF EState, EInv, Sockets, TypeOK
<1>3. Live(w) = Entries(w) /\ todo[w] = {} /\ batch[w] = {} /\ dead[w] = NoFd /\ wPc[w] = "accept"
  BY <1>1, <1>2 DEF Live, At, Loop, Entries
<1>4. f \notin Entries(w)
  <2>1. SUFFICES ASSUME f \in Live(w) PROVE FALSE
    BY <1>3
  <2>2. Known(w, handlers[w][f]) /\ sock[handlers[w][f]] = sock[x]
    BY <2>1, LiveKnown
  <2>3. QED
    BY <1>1, <2>2 DEF Known, EState, EInv, Sockets
<1>5. /\ handlers \in [Workers -> [Fds -> Handlers \cup {NoHandler}]]
      /\ handlers'[w] = [handlers[w] EXCEPT ![f] = x]
      /\ interest'[w] = interest[w] \cup {x}
      /\ \A v \in Workers \ {w} : handlers'[v] = handlers[v] /\ interest'[v] = interest[v]
  BY <1>2, <1>4 DEF Entries, EState, TypeOK
<1> HIDE DEF x, f
<1>6. /\ Entries(w)' = Entries(w) \cup {f} /\ Live(w)' = Live(w) \cup {f}
      /\ \A g \in Entries(w) : handlers'[w][g] = handlers[w][g]
      /\ handlers'[w][f] = x
  <2>1. /\ handlers'[w][f] = x /\ \A g \in Fds \ {f} : handlers'[w][g] = handlers[w][g]
    BY <1>2, <1>5
  <2>2. Entries(w)' = Entries(w) \cup {f}
    BY <1>1, <1>2, <2>1 DEF Entries
  <2>3. Live(w)' = Live(w) \cup {f}
    BY <1>2, <1>3, <2>2 DEF Live
  <2>4. QED
    BY <1>4, <2>1, <2>2, <2>3 DEF Entries
<1>7. \A v \in Workers \ {w} : Entries(v)' = Entries(v) /\ Live(v)' = Live(v)
  BY Elsewhere DEF EState
<1>8. \A v \in Workers : \A g \in Live(v) :
        /\ handlers'[v][g] = handlers[v][g] /\ handlers[v][g] \in heap /\ handlers[v][g] # x
        /\ sock[handlers[v][g]] = g /\ opens'[handlers[v][g]] = 1
  <2>1. \A v \in Workers : \A g \in Live(v) : /\ Known(v, handlers[v][g])
                                             /\ sock[handlers[v][g]] = g /\ g \in Entries(v)
    BY LiveKnown DEF Live
  <2>2. QED
    BY <1>1, <1>5, <1>6, <2>1 DEF Known
<1>9. Maps'
  <2>1. ASSUME NEW v \in Workers, NEW g \in Entries(v)'
        PROVE  /\ handlers'[v][g] \in used'
               /\ g \in Live(v)' => LET h == handlers'[v][g] IN
                                      h \in heap' /\ sock'[h] = g /\ opens'[h] = 1
               /\ g \notin Live(v)' => handlers'[v][g] \notin heap'
    <3>1. CASE v = w /\ g = f
      BY <1>1, <1>6, <3>1 DEF f
    <3>2. CASE ~(v = w /\ g = f)
      <4>1. g \in Entries(v) /\ handlers'[v][g] = handlers[v][g] /\ (g \in Live(v)' <=> g \in Live(v))
        BY <1>5, <1>6, <1>7, <2>1, <3>2
      <4>2. QED
        BY <1>1, <1>8, <4>1 DEF EState, EInv, Maps
    <3>3. QED
      BY <3>1, <3>2
  <2>2. ASSUME NEW u \in Workers, NEW v \in Workers, NEW g \in Live(u)', NEW k \in Live(v)',
               handlers'[u][g] = handlers'[v][k]
        PROVE  u = v
    <3>1. (u = w /\ g = f) \/ (g \in Live(u) /\ handlers'[u][g] = handlers[u][g])
      BY <1>6, <1>7, <1>8
    <3>2. (v = w /\ k = f) \/ (k \in Live(v) /\ handlers'[v][k] = handlers[v][k])
      BY <1>6, <1>7, <1>8
    <3>3. QED
      BY <1>6, <1>8, <2>2, <3>1, <3>2 DEF EState, EInv, Maps
  <2>3. QED
    BY <2>1, <2>2 DEF Maps
<1>10. Loop(w)'
  <2>1. ASSUME NEW h \in interest[w] \cup {x} PROVE h \in heap' /\ handlers'[w][sock'[h]] = h
    <3>1. CASE h = x
      BY <1>1, <1>6, <3>1 DEF f
    <3>2. CASE h # x
      BY <1>1, <1>8, <3>2, InterestKnown DEF Known
    <3>3. QED
      BY <3>1, <3>2
  <2>2. QED
    BY <1>3, <1>5, <2>1 DEF Loop
<1>11. ASSUME NEW v \in Workers \ {w} PROVE Loop(v)'
  BY <1>1, <1>5, LoopElsewhere
<1>12. /\ Queued(w)' = Queued(w) \ {x} /\ \A v \in Workers \ {w} : Queued(v)' = Queued(v)
  <2>1. /\ ToSet(Tail(pendq[w])) = ToSet(pendq[w]) \ {x} /\ pendq \in [Workers -> Seq(Handlers)]
    BY TakeHead DEF EState, EInv, Queues, Taken, x
  <2>2. QED
    BY <2>1 DEF Queued, Taken
<1>13. ASSUME NEW h \in heap'
       PROVE  \/ h = fresh'
              \/ \E v \in Workers : h \in Queued(v)'
              \/ \E v \in Workers : handlers'[v][sock'[h]] = h
  <2>1. CASE h = x
    BY <1>1, <1>6, <2>1 DEF f
  <2>2. CASE h # x /\ \E v \in Workers : handlers[v][sock[h]] = h
    <3>1. PICK v \in Workers : Known(v, h)
      BY <1>1, <2>2, MappedKnown
    <3>2. handlers'[v][sock'[h]] = h
      BY <1>1, <1>8, <3>1 DEF Known
    <3>3. QED
      BY <3>2
  <2>3. CASE h # x /\ ~\E v \in Workers : handlers[v][sock[h]] = h
    <3>1. h = fresh \/ \E v \in Workers : h \in Queued(v)
      BY <1>1, <1>13, <2>3 DEF EState, EInv, Owned
    <3>2. QED
      BY <1>12, <2>3, <3>1 DEF accepter
  <2>4. QED
    BY <2>1, <2>2, <2>3
<1>14. QED
  BY <1>9, <1>10, <1>11, <1>13 DEF Loops, Owned

\* The handler of a live entry is closed and deleted.
LEMMA DestroyedMaps ==
  ASSUME EState, NEW w \in Workers, WorkerThread(w), NEW f \in Live(w), Destroy(w, f),
         UNCHANGED <<used, opens, accepter, pendq, handlers>>,
         Live(w)' = Live(w) \ {f}
  PROVE  /\ Maps' /\ Owned' /\ \A v \in Workers \ {w} : Loop(v)'
         /\ \A h \in interest'[w] : h \in heap' /\ handlers'[w][sock'[h]] = h
         /\ interest'[w] = interest[w] \ {handlers[w][f]}
<1> DEFINE x == handlers[w][f]
<1>1. /\ Known(w, x) /\ sock[x] = f /\ heap' = heap \ {x} /\ heap \subseteq Handlers
      /\ \A h \in heap \ {x} : sock'[h] = sock[h]
      /\ \A v \in Workers : interest'[v] = interest[v] \ {x}
  BY LiveKnown DEF Destroy, Delete, Forget, EState, TypeOK
<1>2. \A v \in Workers \ {w} : Entries(v)' = Entries(v) /\ Live(v)' = Live(v)
  BY Elsewhere DEF EState
<1>3. Entries(w)' = Entries(w)
  BY DEF Entries
<1> HIDE DEF x
<1>4. Maps'
  <2>1. ASSUME NEW v \in Workers, NEW g \in Live(v)'
        PROVE  LET h == handlers[v][g] IN h \in heap' /\ sock'[h] = sock[h] /\ opens'[h] = opens[h]
    <3>1. g \in Live(v) /\ ~(v = w /\ g = f)
      BY <1>2
    <3>2. Known(v, handlers[v][g]) /\ sock[handlers[v][g]] = g
      BY <3>1, LiveKnown
    <3>3. handlers[v][g] # x
      BY <1>1, <3>1, <3>2, KnownOnce
    <3>4. QED
      BY <1>1, <3>2, <3>3 DEF Known
  <2>2. ASSUME NEW v \in Workers, NEW g \in Entries(v)' \ Live(v)' PROVE handlers[v][g] \notin heap'
    <3>1. g \in Entries(v) \ Live(v) \/ (v = w /\ g = f)
      BY <1>2, <1>3
    <3>2. QED
      BY <1>1, <3>1 DEF EState, EInv, Maps, x
  <2>3. QED
    BY <1>2, <1>3, <2>1, <2>2, MapsShrink
<1>5. Owned'
  BY <1>1, OwnedKept DEF accepter
<1>6. ASSUME NEW v \in Workers \ {w} PROVE Loop(v)'
  BY <1>1, LoopElsewhere
<1>7. ASSUME NEW h \in interest[w] \ {x} PROVE h \in heap' /\ handlers'[w][sock'[h]] = h
  BY <1>1, InterestKnown DEF Known
<1>8. QED
  BY <1>1, <1>4, <1>5, <1>6, <1>7 DEF x

\* The steps that end a handler: a failed callback, and free_handlers.
LEMMA FailedMaps ==
  ASSUME EState, NEW w \in Workers, RunFailed(w) \/ FreeEntry(w) \/ EventFailed(w)
  PROVE  Maps' /\ Loops' /\ Owned'
<1> USE EpollAssumption
<1>1. /\ wPc \in [Workers -> {"check", "accept", "wait", "events", "run", "free", "drain", "exited"}]
      /\ todo \in [Workers -> SUBSET Fds] /\ batch \in [Workers -> SUBSET Handlers]
      /\ dead \in [Workers -> Fds \cup {NoFd}] /\ Loop(w) /\ WorkerThread(w)
  BY DEF EState, EInv, TypeOK, Loops, WorkerThread
<1>2. /\ UNCHANGED <<used, opens, accepter, pendq, handlers, wPc>>
      /\ Entries(w)' = Entries(w) /\ NoFd \notin Entries(w)
  BY DEF RunFailed, FreeEntry, EventFailed, Entries
<1>3. ASSUME NEW f \in Live(w), Destroy(w, f), Live(w)' = Live(w) \ {f},
             handlers[w][f] \notin batch'[w], batch'[w] \subseteq batch[w],
             dead'[w] # NoFd => wPc[w] \in {"events", "run"} /\ dead'[w] \in Entries(w),
             todo'[w] \subseteq todo[w] \ {dead'[w]}
      PROVE  Maps' /\ Loops' /\ Owned'
  <2>1. Maps' /\ Owned' /\ \A v \in Workers \ {w} : Loop(v)'
    BY <1>1, <1>2, <1>3, DestroyedMaps
  <2>2. /\ \A h \in interest'[w] : h \in heap' /\ handlers'[w][sock'[h]] = h
        /\ interest'[w] = interest[w] \ {handlers[w][f]}
    BY <1>1, <1>2, <1>3, DestroyedMaps
  <2>3. Loop(w)'
    BY <1>1, <1>2, <1>3, <2>2 DEF Loop
  <2>4. QED
    BY <2>1, <2>3 DEF Loops
<1>4. CASE RunFailed(w) \/ FreeEntry(w)
  <2>1. PICK f \in todo[w] : Destroy(w, f) /\ todo' = [todo EXCEPT ![w] = @ \ {f}]
                             /\ (RunFailed(w) => dead' = [dead EXCEPT ![w] = f])
    BY <1>4 DEF RunFailed, FreeEntry
  <2>2. f \in Live(w) /\ dead[w] = NoFd /\ batch' = batch /\ batch[w] = {} /\ f \in Entries(w)
    BY <1>1, <1>4, TodoLive DEF RunFailed, FreeEntry, At, Loop, EState, EInv
  <2>3. /\ Live(w)' = Live(w) \ {f} /\ todo'[w] = todo[w] \ {f} /\ todo'[w] \subseteq todo[w] \ {dead'[w]}
        /\ dead'[w] # NoFd => wPc[w] = "run" /\ dead'[w] = f
    <3>1. todo'[w] = todo[w] \ {f} /\ todo[w] \subseteq Fds
      BY <1>1, <2>1
    <3>2. CASE RunFailed(w)
      BY <1>1, <1>2, <2>1, <2>2, <3>1, <3>2 DEF RunFailed, Live, At
    <3>3. CASE FreeEntry(w)
      BY <1>1, <1>2, <2>1, <2>2, <3>1, <3>3 DEF FreeEntry, Live, At
    <3>4. QED
      BY <1>4, <3>2, <3>3
  <2>4. QED
    BY <1>3, <2>1, <2>2, <2>3
<1>5. CASE EventFailed(w)
  <2>1. PICK h \in batch[w] :
          /\ batch' = [batch EXCEPT ![w] = @ \ {h}]
          /\ IF sock[h] \in Entries(w)
             THEN Destroy(w, sock[h]) /\ dead' = [dead EXCEPT ![w] = sock[h]]
             ELSE UNCHANGED <<closes, heap, open, sock, interest, dead>>
    BY <1>5 DEF EventFailed
  <2>2. At(w, "events") /\ todo' = todo
    BY <1>5 DEF EventFailed
  <2>3. h \in heap /\ sock[h] \in Live(w) /\ handlers[w][sock[h]] = h
    BY <2>2, BatchLive DEF EState, EInv
  <2>4. Destroy(w, sock[h]) /\ dead'[w] = sock[h] /\ sock[h] \in Entries(w) /\ batch'[w] = batch[w] \ {h}
    BY <1>1, <2>1, <2>3 DEF Live
  <2>5. Live(w)' = Live(w) \ {sock[h]} /\ todo[w] = {} /\ wPc[w] = "events"
    BY <1>1, <1>2, <2>2, <2>4 DEF Live, At, Loop
  <2>6. QED
    BY <1>3, <2>2, <2>3, <2>4, <2>5
<1>6. QED
  BY <1>4, <1>5

\* The steps that erase entries touch none that is live.
LEMMA ErasedMaps ==
  ASSUME EState, NEW w \in Workers, Erase(w) \/ FreeClear(w)
  PROVE  Maps' /\ Loops' /\ Owned'
<1> USE EpollAssumption
<1>1. /\ wPc \in [Workers -> {"check", "accept", "wait", "events", "run", "free", "drain", "exited"}]
      /\ handlers \in [Workers -> [Fds -> Handlers \cup {NoHandler}]]
      /\ dead \in [Workers -> Fds \cup {NoFd}] /\ Loop(w) /\ WorkerThread(w) /\ heap \subseteq Handlers
  BY DEF EState, EInv, TypeOK, Loops, WorkerThread
<1>2. UNCHANGED <<objects, accepter, pendq, interest, batch, todo>> /\ NoFd \notin Entries(w)
  BY DEF Erase, FreeClear, Entries
<1>3. /\ Live(w)' = Live(w) /\ Live(w) \subseteq Entries(w)' /\ Entries(w)' \subseteq Entries(w)
      /\ \A f \in Entries(w)' : handlers'[w][f] = handlers[w][f]
      /\ Loop(w)' \/ \E h \in interest[w] : sock[h] \notin Entries(w)'
  <2>1. CASE Erase(w)
    <3>1. \A f \in Fds : handlers'[w][f] = IF f = dead[w] THEN NoHandler ELSE handlers[w][f]
      BY <1>1, <2>1 DEF Erase
    <3>2. Entries(w)' = Entries(w) \ {dead[w]} /\ dead'[w] = NoFd /\ wPc' = wPc
      BY <1>1, <2>1, <3>1 DEF Erase, Entries
    <3>3. Live(w)' = Live(w) /\ Live(w) \subseteq Entries(w)'
      BY <1>2, <3>2 DEF Live, Entries
    <3>4. \A f \in Entries(w)' : handlers'[w][f] = handlers[w][f]
      BY <3>1, <3>2 DEF Entries
    <3>5. \A h \in interest[w] : sock[h] \in Entries(w)' => handlers'[w][sock'[h]] = h
      BY <1>1, <1>2, <3>4 DEF Loop, objects
    <3>6. Loop(w)' \/ \E h \in interest[w] : sock[h] \notin Entries(w)'
      BY <1>1, <1>2, <3>2, <3>5 DEF Loop, objects
    <3>7. QED
      BY <3>2, <3>3, <3>4, <3>6
  <2>2. CASE FreeClear(w)
    <3>1. Entries(w)' = {} /\ wPc'[w] = "drain" /\ dead' = dead /\ dead[w] = NoFd /\ todo[w] = {}
          /\ wPc[w] = "free"
      BY <1>1, <2>2 DEF FreeClear, Entries, At, Goto
    <3>2. Live(w) = {} /\ Live(w)' = {}
      BY <3>1 DEF Live
    <3>3. Loop(w)' \/ \E h \in interest[w] : sock[h] \notin Entries(w)'
      BY <1>1, <1>2, <3>1 DEF Loop, objects
    <3>4. QED
      BY <3>1, <3>2, <3>3
  <2>3. QED
    BY <2>1, <2>2
<1>4. Loop(w)'
  <2>1. \A h \in interest[w] : sock[h] \in Live(w)
    BY InterestKnown DEF Known
  <2>2. QED
    BY <1>3, <2>1
<1>5. \A v \in Workers \ {w} : /\ Live(v)' = Live(v) /\ Entries(v)' = Entries(v)
                               /\ handlers'[v] = handlers[v]
  BY <1>1, Elsewhere DEF EState
<1>6. \A v \in Workers : \A f \in Live(v) : Known(v, handlers[v][f]) /\ sock[handlers[v][f]] = f
  BY LiveKnown
<1>7. \A v \in Workers : \A f \in Entries(v) \ Live(v) : handlers[v][f] \notin heap
  BY DEF EState, EInv, Maps
<1>8. Maps'
  <2>1. \A v \in Workers : \A f \in Live(v)' : handlers[v][f] \in heap'
    BY <1>2, <1>3, <1>5, <1>6 DEF Known, objects
  <2>2. \A v \in Workers : \A f \in Entries(v)' \ Live(v)' : handlers[v][f] \notin heap'
    BY <1>2, <1>3, <1>5, <1>7 DEF objects
  <2>3. QED
    BY <1>2, <1>3, <1>5, <2>1, <2>2, MapsShrink DEF objects
<1>9. ASSUME NEW v \in Workers \ {w} PROVE Loop(v)'
  <2>1. NoHandler \notin heap
    BY <1>1
  <2>2. QED
    BY <1>1, <1>2, <2>1, LoopElsewhere DEF objects
<1>10. ASSUME NEW h \in heap'
       PROVE  \/ h = fresh'
              \/ \E v \in Workers : h \in Queued(v)'
              \/ \E v \in Workers : handlers'[v][sock'[h]] = h
  <2>1. CASE \E v \in Workers : handlers[v][sock[h]] = h
    <3>1. PICK v \in Workers : Known(v, h)
      BY <1>2, <2>1, MappedKnown DEF objects
    <3>2. handlers'[v][sock'[h]] = h
      <4>1. CASE v = w
        BY <1>2, <1>3, <3>1, <4>1 DEF Known, objects
      <4>2. CASE v # w
        BY <1>2, <1>5, <3>1, <4>2 DEF Known, objects
      <4>3. QED
        BY <4>1, <4>2
    <3>3. QED
      BY <3>2
  <2>2. CASE ~\E v \in Workers : handlers[v][sock[h]] = h
    <3>1. h = fresh \/ \E v \in Workers : h \in Queued(v)
      BY <1>2, <2>2 DEF EState, EInv, Owned, objects
    <3>2. QED
      BY <1>2, <3>1 DEF accepter, Queued
  <2>3. QED
    BY <2>1, <2>2
<1>11. QED
  BY <1>4, <1>8, <1>9, <1>10 DEF Loops, Owned

\* The accept thread touches no handler that is mapped.
LEMMA AcceptMaps ==
  ASSUME EState, AcceptConn \/ Dispatch
  PROVE  Maps' /\ Loops' /\ Owned'
<1>1. /\ Fresh /\ Owned /\ heap \subseteq used /\ used \subseteq Handlers /\ NoHandler \notin Handlers
      /\ counter \in Workers /\ sock \in [Handlers -> Fds \cup {NoFd}]
  BY EpollAssumption DEF EState, EInv, TypeOK
<1>2. UNCHANGED <<worker, handlers>>
  BY DEF AcceptConn, Dispatch, worker
<1>3. CASE AcceptConn
  <2>1. PICK x \in Handlers \ used :
          /\ used' = used \cup {x} /\ heap' = heap \cup {x} /\ fresh' = x
          /\ \A h \in heap : sock'[h] = sock[h]
    BY <1>1, <1>3 DEF AcceptConn
  <2>2. UNCHANGED <<opens, pendq>> /\ fresh = NoHandler
    BY <1>1, <1>3 DEF AcceptConn, Fresh
  <2>3. Maps' /\ Loops'
    BY <1>1, <1>2, <2>1, <2>2, MapsKept
  <2>4. Owned'
    BY <1>1, <1>2, <2>1, <2>2 DEF Owned, Queued
  <2>5. QED
    BY <2>3, <2>4
<1>4. CASE Dispatch /\ Full(counter)
  <2>1. /\ fresh \in heap /\ opens[fresh] = 0 /\ heap' = heap \ {fresh}
        /\ UNCHANGED <<used, opens, pendq>> /\ fresh' = NoHandler
        /\ \A h \in heap \ {fresh} : sock'[h] = sock[h]
    BY <1>1, <1>4 DEF Dispatch, Delete, Fresh
  <2>2. Maps' /\ Loops'
    BY <1>1, <1>2, <2>1, MapsKept
  <2>3. Owned'
    BY <1>1, <1>2, <2>1 DEF Owned, Queued
  <2>4. QED
    BY <2>2, <2>3
<1>5. CASE Dispatch /\ ~Full(counter)
  <2>0. PICK c \in Workers : c = counter
    BY <1>1
  <2>1. /\ fresh \in heap /\ UNCHANGED <<used, heap, sock, opens>>
        /\ Enqueue(c, fresh)
    BY <1>1, <1>5, <2>0 DEF Dispatch, Fresh
  <2>2. Maps' /\ Loops'
    BY <1>1, <1>2, <2>1, MapsKept
  <2>3. /\ pendq \in [Workers -> Seq(Handlers)] /\ fresh \notin ToSet(pendq[c])
        /\ NoDup(pendq[c]) /\ fresh \in Handlers
    BY <1>1, <2>1 DEF EState, EInv, Queues, Queued
  <2>4. /\ Queued(c)' = Queued(c) \cup {fresh}
        /\ \A v \in Workers \ {c} : Queued(v)' = Queued(v)
    <3>1. ToSet(Append(pendq[c], fresh)) = ToSet(pendq[c]) \cup {fresh}
      BY <2>3, <1>1, AddLast
    <3>2. /\ pendq'[c] = Append(pendq[c], fresh)
          /\ \A v \in Workers \ {c} : pendq'[v] = pendq[v]
      BY <1>1, <2>1, <2>3 DEF Enqueue
    <3>3. QED
      BY <3>1, <3>2 DEF Queued
  <2>5. Owned'
    <3>1. \A v \in Workers : Queued(v) \subseteq Queued(v)'
      BY <2>4
    <3>2. ASSUME NEW h \in heap'
          PROVE  \/ \E v \in Workers : h \in Queued(v)'
                 \/ \E v \in Workers : handlers'[v][sock'[h]] = h
      <4>1. CASE h = fresh
        BY <1>1, <2>4, <4>1
      <4>2. CASE h # fresh
        BY <1>1, <1>2, <2>1, <3>1, <4>2 DEF Owned
      <4>3. QED
        BY <4>1, <4>2
    <3>3. QED
      BY <3>2 DEF Owned
  <2>6. QED
    BY <2>2, <2>5
<1>6. QED
  BY <1>3, <1>4, <1>5

\* The maps and the loops stay in order, and every live handler has an owner.
LEMMA NextMaps == EState /\ [Next]_vars => Maps' /\ Loops' /\ Owned'
<1> SUFFICES ASSUME EState, [Next]_vars PROVE Maps' /\ Loops' /\ Owned'
  OBVIOUS
<1>1. CASE UNCHANGED <<objects, fresh, pendq, worker>>
  <2>1. UNCHANGED <<used, heap, sock, opens, fresh, pendq, handlers>>
    BY <1>1 DEF objects, worker
  <2>2. QED
    BY <1>1, <2>1, MapsKept, OwnedKept
<1>2. CASE AcceptThread
  BY <1>1, <1>2, AcceptMaps DEF AcceptThread, AcceptCheck, AcceptNothing
<1>3. ASSUME NEW w \in Workers, WorkerThread(w) PROVE Maps' /\ Loops' /\ Owned'
  <2>1. CASE QuietStep(w)
    BY <2>1, QuietMaps
  <2>2. CASE RejectPending(w) \/ DrainPending(w) \/ OpenPending(w)
    <3> DEFINE x == Head(pendq[w])
    <3>1. /\ x \in heap /\ opens[x] = 0 /\ UNCHANGED <<accepter, wPc, batch, todo, dead, used>>
          /\ pendq[w] # <<>> /\ pendq' = [pendq EXCEPT ![w] = Tail(@)]
      BY <2>2, HeadPending DEF RejectPending, OpenPending, DrainPending, EState, EInv, worker
    <3>2. \/ TurnedAway(x) /\ UNCHANGED worker
          \/ /\ Opened(x) /\ At(w, "accept")
             /\ interest' = [interest EXCEPT ![w] = @ \cup {x}]
             /\ handlers' = [handlers EXCEPT ![w][sock[x]] = IF @ = NoHandler THEN x ELSE @]
      BY <2>2, <3>1 DEF RejectPending, OpenPending, DrainPending, TurnedAway, Opened, worker
    <3>3. Taken(w)
      BY <3>1, <3>2 DEF Taken
    <3>4. QED
      BY <1>3, <3>1, <3>2, <3>3, TurnedMaps, OpenedMaps
  <2>3. CASE RunFailed(w) \/ FreeEntry(w) \/ EventFailed(w)
    BY <2>3, FailedMaps
  <2>4. CASE Erase(w) \/ FreeClear(w)
    BY <2>4, ErasedMaps
  <2>5. QED
    BY <1>3, <2>1, <2>2, <2>3, <2>4 DEF WorkerThread, QuietStep
<1>4. CASE StopThread
  BY <1>1, <1>4 DEF StopThread, Stop, JoinAccepter, StopWorker, Stopped, accepter
<1>5. QED
  BY <1>1, <1>2, <1>3, <1>4 DEF Next, vars, accepter

\* The accept thread ends first, then every worker empties its map and its queue.
LEMMA NextEnding == EState /\ [Next]_vars => Ending'
<1> SUFFICES ASSUME EState, [Next]_vars PROVE Ending'
  OBVIOUS
<1>0. /\ Ending /\ Loops /\ counter \in Workers
      /\ wPc \in [Workers -> {"check", "accept", "wait", "events", "run", "free", "drain", "exited"}]
      /\ handlers \in [Workers -> [Fds -> Handlers \cup {NoHandler}]]
      /\ wStop \in [Workers -> BOOLEAN] /\ pendq \in [Workers -> Seq(Handlers)]
  BY DEF EState, EInv, TypeOK, Queues
<1>1. CASE UNCHANGED <<aPc, pendq, worker, control>>
  BY <1>0, <1>1 DEF Ending, Entries, worker, control
<1>2. CASE AcceptThread
  <2>1. aPc # "exited" /\ UNCHANGED <<worker, control>>
    BY <1>2 DEF AcceptThread, AcceptCheck, AcceptNothing, AcceptConn, Dispatch
  <2>2. mPc \notin {"workers", "stopped"} /\ \A w \in Workers : ~wStop[w] /\ wPc[w] \notin {"free", "drain", "exited"}
    BY <1>0, <2>1 DEF Ending
  <2>3. QED
    BY <2>1, <2>2 DEF Ending, worker, control
<1>3. ASSUME NEW w \in Workers, WorkerThread(w) PROVE Ending'
  <2>1. UNCHANGED <<accepter, control>>
    BY <1>3, WorkerObjects DEF WorkerThread, WorkerCheck, NonePending, RejectPending, OpenPending,
         EpollWait, EventHandled, EventFailed, EventsDone, RunHandled, RunFailed, RunDone, Erase,
         FreeEntry, FreeClear, DrainPending, DrainDone
  <2>2. wPc[w] # "exited"
    BY <1>0, <1>3 DEF WorkerThread, WorkerCheck, NonePending, RejectPending, OpenPending,
         EpollWait, EventHandled, EventFailed, EventsDone, RunHandled, RunFailed, RunDone, Erase,
         FreeEntry, FreeClear, DrainPending, DrainDone, At, Loops, Loop
  <2>3. /\ wPc'[w] \in {"free", "drain", "exited"} => wStop[w]
        /\ wPc'[w] \in {"drain", "exited"} => Entries(w)' = {}
        /\ wPc'[w] = "exited" => pendq'[w] = <<>>
    <3>1. CASE wPc'[w] \notin {"free", "drain", "exited"}
      BY <3>1
    <3>2. CASE WorkerCheck(w) \/ FreeEntry(w)
      BY <1>0, <3>2 DEF WorkerCheck, FreeEntry, Goto, At, Ending
    <3>3. CASE FreeClear(w) \/ DrainPending(w) \/ DrainDone(w)
      BY <1>0, <3>3 DEF FreeClear, DrainPending, DrainDone, Goto, At, Ending, Entries, worker
    <3>4. CASE Erase(w)
      BY <1>0, <3>1, <3>4 DEF Erase, Loops, Loop
    <3>5. CASE NonePending(w) \/ EpollWait(w) \/ EventHandled(w) \/ EventsDone(w) \/ RunHandled(w)
               \/ RunDone(w) \/ EventFailed(w) \/ RunFailed(w)
      <4>1. wPc'[w] \notin {"free", "drain", "exited"}
        BY <1>0, <3>5 DEF NonePending, EpollWait, EventHandled, EventsDone, RunHandled, RunDone,
           EventFailed, RunFailed, Goto, At
      <4>2. QED
        BY <4>1
    <3>6. CASE RejectPending(w) \/ OpenPending(w)
      BY <3>1, <3>6 DEF RejectPending, OpenPending, At, worker
    <3>7. QED
      BY <1>3, <3>2, <3>3, <3>4, <3>5, <3>6 DEF WorkerThread
  <2>4. ASSUME NEW v \in Workers \ {w}
        PROVE  wPc'[v] = wPc[v] /\ Entries(v)' = Entries(v) /\ pendq'[v] = pendq[v]
    <3>1. wPc'[v] = wPc[v] /\ Entries(v)' = Entries(v)
      BY <1>3, Elsewhere DEF EState
    <3>2. pendq'[v] = pendq[v]
      BY <1>0, <1>3, WorkerObjects DEF Taken
    <3>3. QED
      BY <3>1, <3>2
  <2>5. QED
    BY <1>0, <2>1, <2>2, <2>3, <2>4 DEF Ending, accepter, control
<1>4. CASE StopThread
  <2>1. UNCHANGED <<aPc, pendq, worker>> /\ \A w \in Workers : Entries(w)' = Entries(w)
    BY <1>4 DEF StopThread, Stop, JoinAccepter, StopWorker, Stopped, accepter, worker, Entries
  <2>2. QED
    BY <1>0, <1>4, <2>1 DEF StopThread, Stop, JoinAccepter, StopWorker, Stopped, Ending, worker
<1>5. QED
  BY <1>1, <1>2, <1>3, <1>4 DEF Next, vars, accepter

\* A remainder lies below its divisor.
LEMMA RemainderBound ==
  ASSUME NEW a \in Nat, NEW b \in Nat \ {0}
  PROVE  a % b \in 0 .. b - 1
  BY Z3

\* The initial states have their types.
LEMMA InitType == Init => TypeOK
<1> SUFFICES ASSUME Init PROVE TypeOK
  OBVIOUS
<1>1. 0 \in Workers
  BY EpollAssumption DEF Workers
<1>2. \A w \in Workers : pendq[w] \in Seq(Handlers) /\ Len(pendq[w]) <= PendSize
  <2>1. <<>> \in Seq(Handlers) /\ Len(<<>>) = 0 /\ 0 <= PendSize
    BY EmptySeq, EpollAssumption
  <2>2. QED
    BY <2>1 DEF Init
<1>3. /\ heap \subseteq used /\ used \subseteq Handlers /\ open \subseteq Fds
      /\ sock \in [Handlers -> Fds \cup {NoFd}]
      /\ opens \in [Handlers -> 0 .. 2] /\ closes \in [Handlers -> 0 .. 2]
  BY DEF Init
<1>4. /\ handlers \in [Workers -> [Fds -> Handlers \cup {NoHandler}]]
      /\ interest \in [Workers -> SUBSET Handlers] /\ dead \in [Workers -> Fds \cup {NoFd}]
      /\ batch \in [Workers -> SUBSET Handlers] /\ todo \in [Workers -> SUBSET Fds]
  BY DEF Init
<1>5. /\ wPc \in [Workers -> {"check", "accept", "wait", "events", "run", "free", "drain",
                             "exited"}]
      /\ wStop \in [Workers -> BOOLEAN] /\ limit \in ConnLimits /\ aStop \in BOOLEAN
      /\ aPc \in {"check", "accept", "dispatch", "exited"}
      /\ fresh \in Handlers \cup {NoHandler} /\ counter \in Workers
      /\ mPc \in {"serve", "join", "workers", "stopped"}
  BY <1>1 DEF Init
<1>6. QED
  BY <1>2, <1>3, <1>4, <1>5 DEF TypeOK

\* The queues hold no more than PendSize handlers.
LEMMA NextLengths ==
  EState /\ [Next]_vars =>
    \A w \in Workers : pendq'[w] \in Seq(Handlers) /\ Len(pendq'[w]) <= PendSize
<1> SUFFICES ASSUME EState, [Next]_vars, NEW w \in Workers
             PROVE  pendq'[w] \in Seq(Handlers) /\ Len(pendq'[w]) <= PendSize
  OBVIOUS
<1>1. /\ pendq \in [Workers -> Seq(Handlers)] /\ Len(pendq[w]) <= PendSize /\ NoDup(pendq[w])
      /\ pendq[w] \in Seq(Handlers) /\ Len(pendq[w]) \in Nat /\ PendSize \in Nat /\ counter \in Workers
      /\ fresh \in Handlers \cup {NoHandler} /\ heap \subseteq Handlers /\ Fresh
  BY LenProperties, EpollAssumption DEF EState, EInv, TypeOK, Queues
<1>2. CASE pendq'[w] = pendq[w]
  BY <1>1, <1>2
<1>3. CASE AcceptThread
  <2>1. CASE Dispatch /\ ~Full(counter) /\ counter = w
    <3>1. pendq'[w] = Append(pendq[w], fresh) /\ fresh \in Handlers /\ ~(Len(pendq[w]) >= PendSize)
      BY <1>1, <2>1 DEF Dispatch, Enqueue, Fresh, Full
    <3>2. pendq'[w] \in Seq(Handlers) /\ Len(pendq'[w]) = Len(pendq[w]) + 1
      BY <1>1, <3>1, AppendProperties
    <3>3. QED
      BY <1>1, <3>1, <3>2
  <2>2. CASE ~(Dispatch /\ ~Full(counter) /\ counter = w)
    BY <1>1, <1>2, <1>3, <2>2
       DEF AcceptThread, AcceptCheck, AcceptNothing, AcceptConn, Dispatch, Enqueue
  <2>3. QED
    BY <2>1, <2>2
<1>4. ASSUME NEW v \in Workers, WorkerThread(v)
      PROVE  pendq'[w] \in Seq(Handlers) /\ Len(pendq'[w]) <= PendSize
  <2>1. CASE Taken(v) /\ v = w
    <3>1. pendq'[w] = Tail(pendq[w]) /\ pendq[w] # <<>>
      BY <1>1, <2>1 DEF Taken
    <3>2. pendq'[w] \in Seq(Handlers) /\ Len(pendq'[w]) = Len(pendq[w]) - 1
      BY <1>1, <3>1, HeadTailProperties
    <3>3. QED
      BY <1>1, <3>2
  <2>2. CASE ~(Taken(v) /\ v = w)
    BY <1>1, <1>2, <1>4, <2>2, WorkerObjects DEF Taken
  <2>3. QED
    BY <2>1, <2>2
<1>5. CASE StopThread
  BY <1>2, <1>5 DEF StopThread, Stop, JoinAccepter, StopWorker, Stopped
<1>6. QED
  BY <1>2, <1>3, <1>4, <1>5 DEF Next, vars

\* No callback is called a third time.
LEMMA NextObjectsType ==
  EState /\ [Next]_vars =>
    /\ heap' \subseteq used' /\ used' \subseteq Handlers
    /\ sock' \in [Handlers -> Fds \cup {NoFd}] /\ open' \subseteq Fds
    /\ opens' \in [Handlers -> 0 .. 2] /\ closes' \in [Handlers -> 0 .. 2]
<1> SUFFICES ASSUME EState, [Next]_vars
             PROVE  /\ heap' \subseteq used' /\ used' \subseteq Handlers
                    /\ sock' \in [Handlers -> Fds \cup {NoFd}] /\ open' \subseteq Fds
                    /\ opens' \in [Handlers -> 0 .. 2] /\ closes' \in [Handlers -> 0 .. 2]
  OBVIOUS
<1>0. /\ heap \subseteq used /\ used \subseteq Handlers
      /\ sock \in [Handlers -> Fds \cup {NoFd}] /\ open \subseteq Fds
      /\ opens \in [Handlers -> 0 .. 2] /\ closes \in [Handlers -> 0 .. 2]
      /\ \A h \in heap : closes[h] = 0 /\ opens[h] <= 1
  BY DEF EState, EInv, TypeOK, Calls
<1>1. CASE UNCHANGED objects
  BY <1>0, <1>1 DEF objects
<1>2. ASSUME NEW h \in Handlers, NEW f \in Fds, Accepted(h, f)
      PROVE  /\ heap' \subseteq used' /\ used' \subseteq Handlers
             /\ sock' \in [Handlers -> Fds \cup {NoFd}] /\ open' \subseteq Fds
             /\ opens' \in [Handlers -> 0 .. 2] /\ closes' \in [Handlers -> 0 .. 2]
  BY <1>0, <1>2 DEF Accepted
<1>3. ASSUME NEW h \in heap, Opened(h) \/ TurnedAway(h) \/ Ended(h)
      PROVE  /\ heap' \subseteq used' /\ used' \subseteq Handlers
             /\ sock' \in [Handlers -> Fds \cup {NoFd}] /\ open' \subseteq Fds
  BY <1>0, <1>3 DEF Opened, TurnedAway, Ended, Delete
<1>4. ASSUME NEW h \in heap, Opened(h) \/ TurnedAway(h) \/ Ended(h)
      PROVE  opens' \in [Handlers -> 0 .. 2] /\ closes' \in [Handlers -> 0 .. 2]
  <2>1. opens[h] \in {0, 1} /\ closes[h] = 0 /\ h \in Handlers
    BY <1>0
  <2>2. opens' = opens \/ opens' = [opens EXCEPT ![h] = @ + 1]
    BY <1>4 DEF Opened, TurnedAway, Ended, CallOpen
  <2>3. closes' = closes \/ closes' = [closes EXCEPT ![h] = @ + 1]
    BY <1>4 DEF Opened, TurnedAway, Ended, CallClose
  <2>4. QED
    BY <1>0, <2>1, <2>2, <2>3
<1>5. QED
  BY <1>1, <1>2, <1>3, <1>4, StepObjects

\* The round robin counter always names a worker.
LEMMA NextAccepterType ==
  EState /\ [Next]_vars =>
    /\ aPc' \in {"check", "accept", "dispatch", "exited"}
    /\ fresh' \in Handlers \cup {NoHandler} /\ counter' \in Workers
    /\ mPc' \in {"serve", "join", "workers", "stopped"}
    /\ limit' \in ConnLimits /\ aStop' \in BOOLEAN /\ wStop' \in [Workers -> BOOLEAN]
<1> SUFFICES ASSUME EState, [Next]_vars
             PROVE  /\ aPc' \in {"check", "accept", "dispatch", "exited"}
                    /\ fresh' \in Handlers \cup {NoHandler} /\ counter' \in Workers
                    /\ mPc' \in {"serve", "join", "workers", "stopped"}
                    /\ limit' \in ConnLimits /\ aStop' \in BOOLEAN /\ wStop' \in [Workers -> BOOLEAN]
  OBVIOUS
<1> USE DEF EState, TypeOK
<1>1. CASE AcceptThread
  <2>1. (counter + 1) % NWorkers \in Workers
    <3>1. counter + 1 \in Nat
      BY EpollAssumption DEF Workers
    <3>2. QED
      BY <3>1, RemainderBound, EpollAssumption DEF Workers
  <2>2. QED
    BY <1>1, <2>1 DEF AcceptThread, AcceptCheck, AcceptNothing, AcceptConn, Dispatch, control
<1>2. ASSUME NEW w \in Workers, WorkerThread(w) PROVE UNCHANGED <<accepter, control>>
  BY <1>2 DEF WorkerThread, WorkerCheck, NonePending, RejectPending, OpenPending,
       EpollWait, EventHandled, EventFailed, EventsDone, RunHandled, RunFailed, RunDone, Erase,
       FreeEntry, FreeClear, DrainPending, DrainDone
<1>3. CASE StopThread
  BY <1>3 DEF StopThread, Stop, JoinAccepter, StopWorker, Stopped, accepter
<1>4. QED
  BY <1>1, <1>2, <1>3 DEF Next, vars, accepter, control

\* The type of what a worker keeps to itself.
Labels == {"check", "accept", "wait", "events", "run", "free", "drain", "exited"}
LoopType ==
  /\ wPc \in [Workers -> Labels] /\ dead \in [Workers -> Fds \cup {NoFd}]
  /\ batch \in [Workers -> SUBSET Handlers] /\ todo \in [Workers -> SUBSET Fds]
MapType ==
  /\ handlers \in [Workers -> [Fds -> Handlers \cup {NoHandler}]]
  /\ interest \in [Workers -> SUBSET Handlers]

\* How a worker moves in its loop.
LEMMA LoopStep ==
  ASSUME EState, NEW w \in Workers, WorkerThread(w)
  PROVE  /\ wPc' = wPc \/ \E l \in Labels : wPc' = [wPc EXCEPT ![w] = l]
         /\ batch' = batch \/ \E S \in SUBSET Handlers : batch' = [batch EXCEPT ![w] = S]
         /\ todo' = todo \/ \E S \in SUBSET Fds : todo' = [todo EXCEPT ![w] = S]
         /\ dead' = dead \/ \E f \in Fds \cup {NoFd} : dead' = [dead EXCEPT ![w] = f]
<1>1. /\ Entries(w) \subseteq Fds /\ batch[w] \subseteq Handlers /\ todo[w] \subseteq Fds
      /\ interest[w] \subseteq Handlers
  BY DEF EState, TypeOK, Entries
<1>2. wPc' = wPc \/ \E l \in Labels : wPc' = [wPc EXCEPT ![w] = l]
  BY DEF WorkerThread, WorkerCheck, NonePending, RejectPending, OpenPending, EpollWait, EventHandled,
         EventFailed, EventsDone, RunHandled, RunFailed, RunDone, Erase, FreeEntry, FreeClear,
         DrainPending, DrainDone, Goto, worker, Labels
<1>3. batch' = batch \/ \E S \in SUBSET Handlers : batch' = [batch EXCEPT ![w] = S]
  <2>1. CASE EpollWait(w)
    <3>1. PICK S \in SUBSET interest[w] : batch' = [batch EXCEPT ![w] = S]
      BY <2>1 DEF EpollWait
    <3>2. QED
      BY <1>1, <3>1
  <2>2. CASE EventHandled(w) \/ EventFailed(w)
    <3>1. PICK h \in batch[w] : batch' = [batch EXCEPT ![w] = @ \ {h}]
      BY <2>2 DEF EventHandled, EventFailed
    <3>2. batch[w] \ {h} \in SUBSET Handlers
      BY <1>1
    <3>3. QED
      BY <3>1, <3>2
  <2>3. QED
    BY <2>1, <2>2 DEF WorkerThread, WorkerCheck, NonePending, RejectPending, OpenPending, EventsDone,
         RunHandled, RunFailed, RunDone, Erase, FreeEntry, FreeClear, DrainPending, DrainDone, worker
<1>4. todo' = todo \/ \E S \in SUBSET Fds : todo' = [todo EXCEPT ![w] = S]
  <2>1. CASE WorkerCheck(w) \/ EventsDone(w)
    BY <1>1, <2>1 DEF WorkerCheck, EventsDone
  <2>2. CASE RunHandled(w) \/ RunFailed(w) \/ FreeEntry(w)
    <3>1. PICK f \in todo[w] : todo' = [todo EXCEPT ![w] = @ \ {f}]
      BY <2>2 DEF RunHandled, RunFailed, FreeEntry
    <3>2. todo[w] \ {f} \in SUBSET Fds
      BY <1>1
    <3>3. QED
      BY <3>1, <3>2
  <2>3. QED
    BY <2>1, <2>2 DEF WorkerThread, NonePending, RejectPending, OpenPending, EpollWait, EventHandled,
         EventFailed, RunDone, Erase, FreeClear, DrainPending, DrainDone, worker
<1>5. dead' = dead \/ \E f \in Fds \cup {NoFd} : dead' = [dead EXCEPT ![w] = f]
  BY <1>1 DEF WorkerThread, WorkerCheck, NonePending, RejectPending, OpenPending, EpollWait,
         EventHandled, EventFailed, EventsDone, RunHandled, RunFailed, RunDone, Erase, FreeEntry,
         FreeClear, DrainPending, DrainDone, worker
<1>6. QED
  BY <1>2, <1>3, <1>4, <1>5

\* A worker maps handlers it took from its queue.
LEMMA MapStep ==
  ASSUME EState, NEW w \in Workers, WorkerThread(w)
  PROVE  MapType'
<1>1. MapType /\ heap \subseteq Handlers
  BY DEF EState, TypeOK, MapType
<1>2. CASE OpenPending(w)
  <2>1. Head(pendq[w]) \in Handlers
    BY <1>2, HeadPending DEF OpenPending, EState, EInv
  <2>2. QED
    BY <1>1, <1>2, <2>1 DEF OpenPending, MapType
<1>3. CASE RunFailed(w) \/ FreeEntry(w) \/ EventFailed(w)
  <2>1. handlers' = handlers /\ (interest' = interest \/ \E h : interest' = Forget(h))
    BY <1>3 DEF RunFailed, FreeEntry, EventFailed, Destroy
  <2>2. QED
    BY <1>1, <2>1 DEF MapType, Forget
<1>4. CASE Erase(w) \/ FreeClear(w)
  BY <1>1, <1>4 DEF Erase, FreeClear, MapType
<1>5. QED
  BY <1>1, <1>2, <1>3, <1>4 DEF WorkerThread, WorkerCheck, NonePending, RejectPending, EpollWait,
     EventHandled, EventsDone, RunHandled, RunDone, DrainPending, DrainDone, worker, MapType

\* Every variable of the workers keeps its type.
LEMMA NextWorkerType == EState /\ [Next]_vars => LoopType' /\ MapType'
<1> SUFFICES ASSUME EState, [Next]_vars PROVE LoopType' /\ MapType'
  OBVIOUS
<1>0. LoopType /\ MapType
  BY DEF EState, TypeOK, LoopType, MapType, Labels
<1>1. CASE UNCHANGED worker
  BY <1>0, <1>1 DEF LoopType, MapType, worker
<1>2. ASSUME NEW w \in Workers, WorkerThread(w) PROVE LoopType' /\ MapType'
  <2>1. wPc' \in [Workers -> Labels] /\ dead' \in [Workers -> Fds \cup {NoFd}]
    BY <1>0, <1>2, LoopStep DEF LoopType
  <2>2. batch' \in [Workers -> SUBSET Handlers] /\ todo' \in [Workers -> SUBSET Fds]
    BY <1>0, <1>2, LoopStep DEF LoopType
  <2>3. QED
    BY <1>2, <2>1, <2>2, MapStep DEF LoopType
<1>3. CASE AcceptThread
  BY <1>1, <1>3 DEF AcceptThread, AcceptCheck, AcceptNothing, AcceptConn, Dispatch
<1>4. CASE StopThread
  BY <1>1, <1>4 DEF StopThread, Stop, JoinAccepter, StopWorker, Stopped
<1>5. QED
  BY <1>1, <1>2, <1>3, <1>4 DEF Next, vars

\* Every variable keeps its type.
LEMMA NextType == EState /\ [Next]_vars => TypeOK'
  BY NextLengths, NextObjectsType, NextAccepterType, NextWorkerType
     DEF TypeOK, LoopType, MapType, Labels

\* The invariant holds of a service that has just been started.
LEMMA InitInv == Init => EInv
<1> SUFFICES ASSUME Init PROVE EInv
  OBVIOUS
<1>1. \A w \in Workers : Entries(w) = {} /\ Live(w) = {}
  BY DEF Init, Entries, Live
<1>2. \A w \in Workers : pendq[w] = <<>> /\ Queued(w) = {}
  BY DEF Init, Queued, ToSet
<1>3. Queues
  BY <1>2 DEF Init, Queues, NoDup
<1>4. Sockets /\ Calls /\ Fresh /\ Owned
  BY DEF Init, Sockets, Calls, Fresh, Owned
<1>5. Maps /\ Loops /\ Ending
  BY <1>1 DEF Init, Maps, Loops, Loop, Ending
<1>6. QED
  BY <1>3, <1>4, <1>5 DEF EInv

\* The invariant the theorems rest on: types, and where every handler is.
THEOREM EpollInvariant == Spec => []EState
<1>1. Init => EState
  BY InitType, InitInv DEF EState
<1>2. EState /\ [Next]_vars => EState'
  BY NextType, NextSockets, NextFresh, NextQueues, NextMaps, NextEnding DEF EState, EInv
<1>3. QED
  BY <1>1, <1>2, PTL DEF Spec

\* Every variable keeps its type, whatever the workers and the clients do.
THEOREM EpollTypeCorrect == Spec => []TypeOK
<1>1. EState => TypeOK
  BY DEF EState
<1>2. QED
  BY <1>1, EpollInvariant, PTL

\* No thread is about to call a handler that has been deleted, and a map entry is the
\* handler of its socket even after the number of a closed socket was given out again.
THEOREM EpollHandlersValid == Spec => []HandlersValid
<1>1. EState => HandlersValid
  <2> SUFFICES ASSUME EState PROVE HandlersValid
    OBVIOUS
  <2>1. \A w \in Workers : ToSet(pendq[w]) \subseteq heap
    BY DEF EState, EInv, Queues, Queued
  <2>2. \A w \in Workers : batch[w] \cup interest[w] \subseteq heap
    BY DEF EState, EInv, Loops, Loop
  <2>3. ASSUME NEW w \in Workers, NEW f \in Entries(w) \ {dead[w]},
               wPc[w] # "free" \/ f \in todo[w]
        PROVE  handlers[w][f] \in heap /\ sock[handlers[w][f]] = f
    BY <2>3, LiveEntry DEF EState, EInv, Live
  <2>4. QED
    BY <2>1, <2>2, <2>3 DEF HandlersValid, EState
<1>2. QED
  BY <1>1, EpollInvariant, PTL

\* handle_open and handle_close are called at most once each, and a handler that was
\* opened is closed exactly once before it is deleted.
THEOREM EpollClosedOnce == Spec => []ClosedOnce
<1>1. EState => ClosedOnce
  <2> SUFFICES ASSUME EState, NEW h \in Handlers
               PROVE  /\ closes[h] <= opens[h] /\ opens[h] <= 1
                      /\ h \in used \ heap => closes[h] = opens[h]
    BY DEF ClosedOnce
  <2>1. opens[h] \in 0 .. 2 /\ closes[h] \in 0 .. 2 /\ Calls
    BY DEF EState, EInv, TypeOK
  <2>2. QED
    BY <2>1 DEF Calls
<1>2. QED
  BY <1>1, EpollInvariant, PTL

\* epoll_accepter::stop returns with every handler deleted and every socket closed.
THEOREM EpollNothingLeaked == Spec => []NothingLeaked
<1>1. EState => NothingLeaked
  <2> SUFFICES ASSUME EState, mPc = "stopped" PROVE heap = {} /\ open = {}
    BY DEF NothingLeaked
  <2>1. fresh = NoHandler /\ \A w \in Workers : pendq[w] = <<>> /\ Entries(w) = {}
    BY DEF EState, EInv, Ending, Fresh
  <2>2. ASSUME NEW h \in heap PROVE FALSE
    <3>1. h # fresh
      BY <2>1, EpollAssumption DEF EState, TypeOK
    <3>2. \A w \in Workers : h \notin Queued(w)
      BY <2>1 DEF Queued, ToSet
    <3>3. PICK w \in Workers : handlers[w][sock[h]] = h
      BY <3>1, <3>2 DEF EState, EInv, Owned
    <3>4. sock[h] \in Entries(w)
      BY <3>3, MappedKnown DEF Known, Live
    <3>5. QED
      BY <2>1, <3>4
  <2>3. heap = {}
    BY <2>2
  <2>4. QED
    BY <2>3 DEF EState, EInv, Sockets
<1>2. QED
  BY <1>1, EpollInvariant, PTL

\* A live handler's places: the queue, the map or the accepter, and one of them.
LEMMA OnePlace ==
  ASSUME EState, NEW h \in heap
  PROVE  \E p : Places(h) = {p}
<1> DEFINE A == {<<"accepter">> : x \in {h} \cap {fresh}}
           Q(w) == {<<"queue", w, i>> : i \in {j \in 1 .. Len(pendq[w]) : pendq[w][j] = h}}
           M(w) == {<<"map", w, f>> : f \in {g \in Fds : handlers[w][g] = h}}
<1>0. Places(h) = A \cup (UNION {Q(w) : w \in Workers}) \cup (UNION {M(w) : w \in Workers})
  BY DEF Places
<1>2. h \in Handlers /\ NoHandler \notin Handlers /\ sock[h] \in Fds
  BY EpollAssumption DEF EState, EInv, TypeOK, Sockets
<1>3. \A w \in Workers : /\ pendq[w] \in Seq(Handlers) /\ NoDup(pendq[w])
                         /\ Queued(w) = {pendq[w][i] : i \in 1 .. Len(pendq[w])}
  BY ToSetIs DEF EState, EInv, Queues, Queued
<1>4. \A w \in Workers : h \notin Queued(w) => Q(w) = {}
  BY <1>3
<1>5. \A w \in Workers : handlers[w][sock[h]] # h => M(w) = {}
  <2>1. ASSUME NEW w \in Workers, NEW g \in Fds, handlers[w][g] = h PROVE g = sock[h]
    <3>1. g \in Entries(w)
      BY <1>2, <2>1 DEF Entries
    <3>2. g \in Live(w)
      BY <2>1, <3>1 DEF EState, EInv, Maps
    <3>3. QED
      BY <2>1, <3>2, LiveKnown
  <2>2. QED
    BY <2>1
<1>6. \A w \in Workers : handlers[w][sock[h]] = h => M(w) = {<<"map", w, sock[h]>>}
  <2>1. ASSUME NEW w \in Workers, NEW g \in Fds, handlers[w][g] = h PROVE g = sock[h]
    <3>1. g \in Entries(w)
      BY <1>2, <2>1 DEF Entries
    <3>2. g \in Live(w)
      BY <2>1, <3>1 DEF EState, EInv, Maps
    <3>3. QED
      BY <2>1, <3>2, LiveKnown
  <2>2. QED
    BY <1>2, <2>1
<1> HIDE DEF A, Q, M
<1>1. \A p : p \in Places(h) <=>
              p \in A \/ (\E w \in Workers : p \in Q(w)) \/ \E w \in Workers : p \in M(w)
  BY <1>0
<1>7. CASE h = fresh
  <2>1. /\ \A w \in Workers : Q(w) = {}
        /\ A = {<<"accepter">>}
    BY <1>4, <1>7 DEF EState, EInv, Queues, A
  <2>2. opens[h] = 0
    BY <1>2, <1>7 DEF EState, EInv, Fresh
  <2>3. \A w \in Workers : M(w) = {}
    BY <1>5, <2>2, MappedKnown DEF Known
  <2>4. Places(h) = {<<"accepter">>}
    BY <1>1, <2>1, <2>3
  <2>5. QED
    BY <2>4
<1>8. ASSUME NEW w \in Workers, h \in Queued(w) PROVE \E p : Places(h) = {p}
  <2>1. opens[h] = 0 /\ h # fresh /\ \A v \in Workers \ {w} : h \notin Queued(v)
    BY <1>8 DEF EState, EInv, Queues
  <2>2. A = {} /\ \A v \in Workers : M(v) = {}
    BY <1>5, <2>1, MappedKnown DEF Known, A
  <2>3. PICK i \in 1 .. Len(pendq[w]) : pendq[w][i] = h
    BY <1>3, <1>8
  <2>4. Q(w) = {<<"queue", w, i>>}
    BY <1>3, <2>3 DEF NoDup, Q
  <2>5. Places(h) = {<<"queue", w, i>>}
    BY <1>1, <1>4, <2>1, <2>2, <2>4
  <2>6. QED
    BY <2>5
<1>9. ASSUME NEW w \in Workers, handlers[w][sock[h]] = h PROVE \E p : Places(h) = {p}
  <2>1. Known(w, h) /\ \A v \in Workers \ {w} : handlers[v][sock[h]] # h
    BY <1>9, MappedKnown, KnownOnce
  <2>2. h # fresh /\ \A v \in Workers : h \notin Queued(v)
    BY <1>2, <2>1 DEF Known, EState, EInv, Fresh, Queues
  <2>3. A = {} /\ \A v \in Workers : Q(v) = {}
    BY <1>4, <2>2 DEF A
  <2>4. Places(h) = {<<"map", w, sock[h]>>}
    BY <1>1, <1>5, <1>6, <1>9, <2>1, <2>3
  <2>5. QED
    BY <2>4
<1>10. QED
  BY <1>7, <1>8, <1>9 DEF EState, EInv, Owned

\* A live handler is in one place only, so one thread alone may call it.
THEOREM EpollOneOwner == Spec => []OneOwner
<1>1. EState => OneOwner
  BY OnePlace, FS_Singleton DEF OneOwner
<1>2. QED
  BY <1>1, EpollInvariant, PTL
=============================================================================
