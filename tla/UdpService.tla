----------------------------- MODULE UdpService -----------------------------
(***************************************************************************)
(* The UDP server of netsvc, for both platforms (include/linux/udp_*.h,    *)
(* linux/udp_*.cpp and their twins under win): a receiver thread takes     *)
(* datagrams from the socket and hands them round to the workers, each     *)
(* with a queue and a thread of its own.  The two differ in what start     *)
(* starts first, and in how a thread waits on its queue (RdWrQueue has     *)
(* those steps one by one): on Linux it looks again every 10 ms, on        *)
(* Windows it sleeps until the writer wakes it.                            *)
(*                                                                         *)
(* Which of the sockets bound to the port gets a datagram is the system's  *)
(* choice; the model has those the receiver's socket gets.  A socket is    *)
(* not tracked (the workers' are never closed), nor is what a handler      *)
(* answers.  The caller starts a service that is stopped, and stops one    *)
(* that was started, successfully or not.                                  *)
(***************************************************************************)
EXTENDS Naturals, Sequences, SequencesExt

CONSTANTS
  Packets, NoPacket,   \* datagrams that arrive, one dpacket_t each
  Platforms,           \* which of the two is built: "linux", "windows"
  NWorkers,            \* _worknum
  QSize                \* _queue_sz, rounded up to a power of two

ASSUME UdpAssumption ==
  /\ NoPacket \notin Packets /\ Platforms \subseteq {"linux", "windows"}
  /\ NWorkers \in Nat \ {0} /\ QSize \in Nat \ {0}

Workers == 0 .. NWorkers - 1

VARIABLES
  platform,            \* never changes
  caller, size, next,  \* where start and stop are, size of _workers, index of stop's loop
  counter,             \* _counter modulo NWorkers; stop does not reset it
  rPc, rStop, packet,  \* receiver thread, its _stop, pkt
  to,                  \* the worker that packet is pushed to
  recvq, wPc, wStop, request,  \* of every worker: _recvq, its thread, _stop, req_pkt
  flag, event,         \* _rwflag and _cond1 of its queue, on Windows
  toCome,              \* packets not received yet
  handled, lost        \* how often handle was called, packets nobody frees

service == <<platform, caller, size, next>>
receiver == <<counter, rPc, rStop, packet, to, toCome>>
worker == <<recvq, wPc, wStop, request, flag, event, handled, lost>>
vars == <<service, receiver, worker>>

TypeOK ==
  /\ platform \in Platforms
  /\ caller \in {"down", "workers", "receiver", "up", "failed", "joinReceiver", "stop",
                 "join", "crashed"}
  /\ size \in 0 .. NWorkers /\ next \in 0 .. NWorkers
  /\ counter \in Workers /\ to \in Workers
  /\ rPc \in {"none", "loop", "receive", "dispatch", "write"} /\ rStop \in BOOLEAN
  /\ packet \in Packets \cup {NoPacket}
  /\ recvq \in [Workers -> Seq(Packets)]
  /\ wPc \in [Workers -> {"none", "loop", "read", "flag", "wait", "handle"}]
  /\ wStop \in [Workers -> BOOLEAN]
  /\ request \in [Workers -> Packets \cup {NoPacket}]
  /\ flag \in [Workers -> BOOLEAN] /\ event \in [Workers -> BOOLEAN]
  /\ toCome \subseteq Packets
  /\ handled \in [Packets -> Nat] /\ lost \subseteq Packets

\* Where a datagram is: which variables hold it.
Holders(p) ==
  {<<"receiver", 0>> : q \in {packet} \cap {p}}
    \cup {<<"queue", q>> : q \in {v \in Workers \X (1 .. QSize) :
                                   v[2] <= Len(recvq[v[1]]) /\ recvq[v[1]][v[2]] = p}}
    \cup {<<"worker", w>> : w \in {v \in Workers : request[v] = p}}
    \cup {<<"handled", n>> : n \in 1 .. handled[p]}
    \cup {<<"lost", 0>> : q \in lost \cap {p}}

\* The constructors of service, receiver and workers: a thread that does not run is told to
\* stop already.
ServiceInit == caller = "down" /\ size = 0 /\ next = 0 /\ counter = 0

ReceiverInit == rPc = "none" /\ rStop = TRUE /\ packet = NoPacket /\ to = 0

WorkerInit ==
  /\ recvq = [w \in Workers |-> <<>>]
  /\ wPc = [w \in Workers |-> "none"] /\ wStop = [w \in Workers |-> TRUE]
  /\ request = [w \in Workers |-> NoPacket]
  /\ flag = [w \in Workers |-> TRUE] /\ event = [w \in Workers |-> FALSE]

Init ==
  /\ platform \in Platforms
  /\ ServiceInit /\ ReceiverInit /\ WorkerInit
  /\ toCome = Packets /\ handled = [p \in Packets |-> 0] /\ lost = {}

-----------------------------------------------------------------------------
\* What start does, in its order.
LinuxOrder == <<"workers", "receiver", "up">>
WindowsOrder == <<"receiver", "workers", "up">>
Order == IF platform = "linux" THEN LinuxOrder ELSE WindowsOrder
After(step) == Order[(CHOOSE i \in 1 .. 2 : Order[i] = step) + 1]

Start ==
  /\ caller = "down"
  /\ caller' = Order[1]
  /\ UNCHANGED <<platform, size, next, receiver, worker>>

\* A new worker with its socket, handler, queue and thread is pushed to _workers.
StartWorker ==
  /\ caller = "workers"
  /\ size' = size + 1
  /\ caller' = IF size' = NWorkers THEN After("workers") ELSE caller
  /\ wPc' = [wPc EXCEPT ![size] = "loop"]
  /\ wStop' = [wStop EXCEPT ![size] = FALSE]
  /\ UNCHANGED <<platform, next, receiver, recvq, request, flag, event, handled, lost>>

StartReceiver ==
  /\ caller = "receiver"
  /\ rStop' = FALSE /\ rPc' = "loop"
  /\ caller' = After("receiver")
  /\ UNCHANGED <<platform, size, next, counter, packet, to, toCome, worker>>

\* bind_udp, the queue or the thread fails: start returns -1 and leaves running whatever
\* runs; the worker that failed is not in _workers.
StartFails ==
  /\ caller \in {"workers", "receiver"}
  /\ caller' = "failed"
  /\ UNCHANGED <<platform, size, next, receiver, worker>>

Starting == Start \/ StartWorker \/ StartReceiver \/ StartFails

-----------------------------------------------------------------------------
\* Mutant: the flag of the receiver is looked at only once.
NoLook == rPc = "loop" /\ rPc' = "receive"

\* while(!_stop), and the end of the thread.
Look ==
  /\ rPc = "loop"
  /\ rPc' = IF rStop THEN "none" ELSE "receive"

ReceiverLook ==
  /\ Look
  /\ UNCHANGED <<service, counter, rStop, packet, to, toCome, worker>>

Receive ==
  /\ rPc = "receive"
  /\ packet' \in toCome
  /\ toCome' = toCome \ {packet'}
  /\ rPc' = "dispatch"
  /\ UNCHANGED <<service, counter, rStop, to, worker>>

\* recvfrom returns 0 or -1: the packet, still empty, is deleted.
ReceiveFails ==
  /\ rPc = "receive"
  /\ rPc' = "loop"
  /\ UNCHANGED <<service, counter, rStop, packet, to, toCome, worker>>

\* _workers[_counter++ % _worknum]: past the end of the vector, or while start pushes the
\* next worker and moves the elements, it is undefined; the model takes it for the end of
\* the process.
Dispatch ==
  /\ rPc = "dispatch"
  /\ counter' = (counter + 1) % NWorkers
  /\ to' = counter
  /\ rPc' = "write"
  /\ \/ counter < size /\ UNCHANGED caller
     \/ (counter >= size \/ caller = "workers") /\ caller' = "crashed"
  /\ UNCHANGED <<platform, size, next, rStop, packet, toCome, worker>>

\* SetEvent if the reader's flag is raised, by a write that succeeds and by one that waits.
Wake ==
  /\ flag' = [flag EXCEPT ![to] = FALSE]
  /\ event' = [event EXCEPT ![to] = @ \/ flag[to]]

\* Mutant: the write has a timeout, _wait_qt, and nobody looks at its result.
WriteTimed ==
  /\ rPc = "write"
  /\ recvq' = [recvq EXCEPT ![to] = IF Len(@) < QSize THEN Append(@, packet) ELSE @]
  /\ packet' = NoPacket /\ rPc' = "loop"
  /\ Wake
  /\ UNCHANGED <<service, counter, rStop, to, toCome, wPc, wStop, request, handled, lost>>

\* The write of push waits for space.
Write ==
  /\ rPc = "write" /\ Len(recvq[to]) < QSize
  /\ recvq' = [recvq EXCEPT ![to] = Append(@, packet)]
  /\ packet' = NoPacket /\ rPc' = "loop"
  /\ Wake
  /\ UNCHANGED <<service, counter, rStop, to, toCome, wPc, wStop, request, handled, lost>>

WriteWaits ==
  /\ rPc = "write" /\ Len(recvq[to]) >= QSize /\ flag[to]
  /\ Wake
  /\ UNCHANGED <<service, receiver, recvq, wPc, wStop, request, handled, lost>>

ReceiverThread == ReceiverLook \/ ReceiveFails \/ Dispatch \/ Write \/ WriteWaits

-----------------------------------------------------------------------------
Goto(w, label) == wPc' = [wPc EXCEPT ![w] = label]

WorkerLook(w) ==
  /\ wPc[w] = "loop"
  /\ Goto(w, IF wStop[w] THEN "none" ELSE "read")
  /\ UNCHANGED <<service, receiver, recvq, wStop, request, flag, event, handled, lost>>

\* The read has no timeout either: it returns with a packet.
Read(w) ==
  /\ wPc[w] = "read" /\ recvq[w] # <<>>
  /\ request' = [request EXCEPT ![w] = Head(recvq[w])]
  /\ recvq' = [recvq EXCEPT ![w] = Tail(@)]
  /\ Goto(w, "handle")
  /\ UNCHANGED <<service, receiver, wStop, flag, event, handled, lost>>

\* On Windows the flag is raised after the queue was found empty: a write between the two
\* wakes nobody.
ReadEmpty(w) ==
  /\ wPc[w] = "read" /\ recvq[w] = <<>> /\ platform = "windows"
  /\ Goto(w, "flag")
  /\ UNCHANGED <<service, receiver, recvq, wStop, request, flag, event, handled, lost>>

RaiseFlag(w) ==
  /\ wPc[w] = "flag"
  /\ flag' = [flag EXCEPT ![w] = TRUE]
  /\ Goto(w, "wait")
  /\ UNCHANGED <<service, receiver, recvq, wStop, request, event, handled, lost>>

Woken(w) ==
  /\ wPc[w] = "wait" /\ event[w]
  /\ event' = [event EXCEPT ![w] = FALSE]
  /\ Goto(w, "read")
  /\ UNCHANGED <<service, receiver, recvq, wStop, request, flag, handled, lost>>

\* handle and delete.
Handle(w) ==
  /\ wPc[w] = "handle"
  /\ handled' = [handled EXCEPT ![request[w]] = @ + 1]
  /\ request' = [request EXCEPT ![w] = NoPacket]
  /\ Goto(w, "loop")
  /\ UNCHANGED <<service, receiver, recvq, wStop, flag, event, lost>>

WorkerThread(w) ==
  WorkerLook(w) \/ Read(w) \/ ReadEmpty(w) \/ RaiseFlag(w) \/ Woken(w) \/ Handle(w)

-----------------------------------------------------------------------------
\* The receiver is stopped first, unless it was not started.
Stop ==
  /\ caller \in {"up", "failed"}
  /\ rStop' = TRUE
  /\ caller' = IF rStop THEN "stop" ELSE "joinReceiver"
  /\ next' = 0
  /\ UNCHANGED <<platform, size, counter, rPc, packet, to, toCome, worker>>

JoinReceiver ==
  /\ caller = "joinReceiver" /\ rPc = "none"
  /\ caller' = "stop"
  /\ UNCHANGED <<platform, size, next, receiver, worker>>

\* stop of the next worker; there are as many as _worknum says only if start succeeded.
StopWorker ==
  /\ caller = "stop" /\ next < NWorkers
  /\ caller' = IF next < size THEN "join" ELSE "crashed"
  /\ wStop' = [wStop EXCEPT ![next] = TRUE]
  /\ UNCHANGED <<platform, size, next, receiver, recvq, wPc, request, flag, event, handled,
                 lost>>

\* The worker is deleted with its queue, but not the packets in it.
JoinWorker ==
  /\ caller = "join" /\ wPc[next] = "none"
  /\ caller' = "stop" /\ next' = next + 1
  /\ lost' = lost \cup ToSet(recvq[next])
  /\ recvq' = [recvq EXCEPT ![next] = <<>>]
  /\ flag' = [flag EXCEPT ![next] = TRUE] /\ event' = [event EXCEPT ![next] = FALSE]
  /\ UNCHANGED <<platform, size, receiver, wPc, wStop, request, handled>>

Stopped ==
  /\ caller = "stop" /\ next = NWorkers
  /\ caller' = "down" /\ size' = 0
  /\ UNCHANGED <<platform, next, receiver, worker>>

StopThread == JoinReceiver \/ StopWorker \/ JoinWorker \/ Stopped

-----------------------------------------------------------------------------
Next ==
  /\ caller # "crashed"
  /\ \/ Starting \/ Stop \/ StopThread
     \/ Receive \/ ReceiverThread
     \/ \E w \in Workers : WorkerThread(w)

Spec == Init /\ [][Next]_vars

\* Threads are scheduled, start and stop run on; nothing makes a datagram arrive, recvfrom
\* fail or the caller call.
FairSpec ==
  /\ Spec
  /\ WF_vars(caller # "crashed" /\ (StartWorker \/ StartReceiver \/ StopThread))
  /\ WF_vars(caller # "crashed" /\ (ReceiverLook \/ Dispatch \/ Write \/ WriteWaits))
  /\ \A w \in Workers : WF_vars(caller # "crashed" /\ WorkerThread(w))

-----------------------------------------------------------------------------
\* A datagram that was received is in one place, and there once: with the receiver, in one
\* queue, with one worker, handled once, or left behind in the queue of a stopped worker;
\* neither a full queue nor a stop under way drops or repeats one.  On Linux, where the
\* workers are started first, none goes to a worker that is not there; only a stop after a
\* failed start looks past the end of _workers.
PacketsAccounted ==
  IF caller = "crashed"
  THEN size < NWorkers /\ (platform = "linux" => rPc = "none")
  ELSE \A p \in Packets :
         IF p \in toCome THEN Holders(p) = {} ELSE \E h \in Holders(p) : Holders(p) = {h}

\* The worker that stop waits for has nothing to read, and nobody will write any more.
Idle ==
  caller = "join" /\ wPc[next] \in {"read", "flag", "wait"} /\ recvq[next] = <<>>

\* On Windows, a worker can sleep on a queue that is not empty.
Asleep(w) == platform = "windows" /\ wPc[w] \in {"flag", "wait"} /\ ~event[w]

\* A flag alone does not stop a thread that waits without a timeout: it takes one more
\* datagram.  With that one in hand the receiver and the workers end, and a worker that has
\* none when it is told never does: stop of a service without load does not return.
StopTakesAPacket ==
  /\ (caller = "joinReceiver" /\ packet # NoPacket) ~> caller # "joinReceiver"
  /\ \A w \in Workers :
       (caller = "join" /\ next = w /\ (recvq[w] # <<>> \/ request[w] # NoPacket))
         ~> (caller # "join" \/ next # w \/ Asleep(w))
  /\ [](Idle => []Idle)
=============================================================================
