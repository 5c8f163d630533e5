---------------------------- MODULE VisitorProofs ----------------------------
(***************************************************************************)
(* The visitor's handlers have one owner and its commands are accounted    *)
(* for, with any number of workers, handlers and commands.  Located is     *)
(* about where the live handlers are, Loops about the two threads that     *)
(* share the list and the epoll instance, Ending about stop, and Carried   *)
(* about the command of every handler.                                     *)
(***************************************************************************)
EXTENDS Visitor, SequenceTheorems, FiniteSetTheorems, TLAPS

\* No element comes twice.
NoDup(s) == \A i, j \in 1 .. Len(s) : s[i] = s[j] => i = j

Queued(w) == ToSet(pendq[w])
Held(w) == Queued(w) \cup pool[w]

\* A live handler is with the caller, on the list, with the connect thread, queued or open,
\* and in one of these places only.
Located ==
  /\ fresh # NoHandler => fresh \in heap /\ fresh \notin pending /\ fresh # current
  /\ current # NoHandler => current \in heap /\ current \notin pending
  /\ pending \subseteq heap
  /\ \A w \in Workers : /\ Held(w) \subseteq heap \ (pending \cup {fresh, current})
                        /\ Queued(w) \cap pool[w] = {}
  /\ \A v, w \in Workers : v # w => Held(v) \cap Held(w) = {}
  /\ \A h \in heap : h \in pending \cup {fresh, current} \/ \E w \in Workers : h \in Held(w)

Queues == \A w \in Workers : NoDup(pendq[w])

\* What the caller and the connect thread may rely on at each point.
Loops ==
  /\ fresh # NoHandler <=> cPc = "push"
  /\ plock = "caller" <=> cPc = "push"
  /\ current # NoHandler <=> tPc = "dispatch"
  /\ batch \subseteq watched /\ watched \subseteq pending \cup {fresh}
  /\ batch # {} => tPc \in {"events", "dispatch"}

\* The order in which stop ends the threads, and what each leaves behind.
Ending ==
  /\ stop <=> cPc \in {"joining", "workers", "stopped"}
  /\ tPc = "exited" => stop
  /\ cPc \in {"workers", "stopped"} => tPc = "exited" /\ pending = {}
  /\ wStop # {} => cPc \in {"workers", "stopped"}
  /\ \A w \in wDone : pendq[w] = <<>> /\ pool[w] = {}
  /\ cPc = "stopped" => wDone = Workers

CommandTypes ==
  /\ cmdq \subseteq Commands /\ dropped \subseteq Commands
  /\ userarg \in [Handlers -> Commands \cup {NoCommand}]
  /\ pcmd \in [Handlers -> Commands \cup {NoCommand}]
  /\ deletes \in [Commands -> Nat]

\* What became of a command that some handler was made for.
Fate(h) ==
  /\ userarg[h] \notin cmdq
  /\ deletes[userarg[h]] = IF h \in heap \/ userarg[h] \in dropped THEN 0 ELSE 1
  /\ h \in heap => userarg[h] \notin dropped

\* A live handler has a command of its own, and owns it once a worker has opened it.
Carried ==
  /\ \A h \in heap : userarg[h] \in Commands
  /\ \A h \in Handlers \ used : userarg[h] = NoCommand /\ pcmd[h] = NoCommand
  /\ \A g, h \in Handlers : userarg[g] = userarg[h] /\ userarg[g] # NoCommand => g = h
  /\ \A w \in Workers : \A h \in pool[w] : pcmd[h] = userarg[h]
  /\ \A h \in heap : (\A w \in Workers : h \notin pool[w]) => pcmd[h] = NoCommand
  /\ \A h \in Handlers : userarg[h] # NoCommand => Fate(h)
  /\ \A c \in Commands : (\A h \in Handlers : userarg[h] # c) => deletes[c] = 0
  /\ cmdq \cap dropped = {}

Owned == ConnectorTypeOK /\ Located /\ Queues /\ Loops /\ Ending
VState == Owned /\ CommandTypes /\ Carried
-----------------------------------------------------------------------------
\* The elements of a sequence, by their indices.
LEMMA ToSetIs == ASSUME NEW T, NEW s \in Seq(T) PROVE ToSet(s) = {s[i] : i \in 1 .. Len(s)}
  BY LenProperties DEF ToSet

\* Taking the first element off a queue without repetitions.
LEMMA HeadTaken ==
  ASSUME NEW T, NEW s \in Seq(T), s # <<>>, NoDup(s)
  PROVE  /\ Head(s) \in T /\ Tail(s) \in Seq(T) /\ Len(Tail(s)) = Len(s) - 1
         /\ Head(s) \in ToSet(s) /\ NoDup(Tail(s)) /\ ToSet(Tail(s)) = ToSet(s) \ {Head(s)}
<1> DEFINE t == Tail(s)
<1>1. /\ Head(s) \in T /\ t \in Seq(T) /\ Len(t) = Len(s) - 1
      /\ \A i \in 1 .. Len(t) : t[i] = s[i + 1]
  BY HeadTailProperties
<1>2. Head(s) = s[1] /\ Len(s) \in Nat \ {0}
  BY EmptySeq, LenProperties
<1>3. ToSet(s) = {s[i] : i \in 1 .. Len(s)} /\ ToSet(t) = {t[i] : i \in 1 .. Len(t)}
  BY <1>1, ToSetIs
<1> HIDE DEF t
<1>4. NoDup(t)
  BY <1>1, <1>2 DEF NoDup
<1>5. ASSUME NEW x \in ToSet(t) PROVE x \in ToSet(s) \ {Head(s)}
  <2>1. PICK i \in 1 .. Len(t) : x = t[i]
    BY <1>3
  <2>2. i + 1 \in 1 .. Len(s) /\ x = s[i + 1] /\ i + 1 # 1 /\ 1 \in 1 .. Len(s)
    BY <1>1, <1>2, <2>1
  <2>3. QED
    BY <1>2, <1>3, <2>2 DEF NoDup
<1>6. ASSUME NEW x \in ToSet(s) \ {Head(s)} PROVE x \in ToSet(t)
  <2>1. PICK i \in 1 .. Len(s) : x = s[i]
    BY <1>3
  <2>2. i # 1
    BY <1>2, <2>1
  <2>3. i - 1 \in 1 .. Len(t) /\ (i - 1) + 1 = i
    BY <1>1, <1>2, <2>2
  <2>4. x = t[i - 1]
    BY <1>1, <2>1, <2>3
  <2>5. QED
    BY <1>3, <2>3, <2>4
<1>7. Head(s) \in ToSet(s)
  BY <1>2, <1>3
<1>8. QED
  BY <1>1, <1>4, <1>5, <1>6, <1>7 DEF t

\* Putting a new element on such a queue.
LEMMA AddLast ==
  ASSUME NEW T, NEW s \in Seq(T), NEW x \in T, x \notin ToSet(s), NoDup(s)
  PROVE  /\ Append(s, x) \in Seq(T) /\ Len(Append(s, x)) = Len(s) + 1
         /\ NoDup(Append(s, x)) /\ ToSet(Append(s, x)) = ToSet(s) \cup {x}
<1> DEFINE t == Append(s, x)
<1>1. /\ t \in Seq(T) /\ Len(t) = Len(s) + 1 /\ \A i \in 1 .. Len(s) : t[i] = s[i]
      /\ t[Len(s) + 1] = x
  BY AppendProperties
<1>2. Len(s) \in Nat
  BY LenProperties
<1>3. ToSet(s) = {s[i] : i \in 1 .. Len(s)} /\ ToSet(t) = {t[i] : i \in 1 .. Len(t)}
  BY <1>1, ToSetIs
<1> HIDE DEF t
<1>4. \A i \in 1 .. Len(t) : i = Len(s) + 1 \/ (i \in 1 .. Len(s) /\ t[i] = s[i] /\ s[i] \in ToSet(s))
  BY <1>1, <1>2, <1>3
<1>5. NoDup(t)
  BY <1>1, <1>2, <1>4 DEF NoDup
<1>6. ToSet(t) \subseteq ToSet(s) \cup {x}
  BY <1>1, <1>3, <1>4
<1>7. x \in ToSet(t)
  <2>1. Len(s) + 1 \in 1 .. Len(t)
    BY <1>1, <1>2
  <2>2. QED
    BY <1>1, <1>3, <2>1
<1>8. ASSUME NEW y \in ToSet(s) PROVE y \in ToSet(t)
  <2>1. PICK i \in 1 .. Len(s) : y = s[i]
    BY <1>3
  <2>2. i \in 1 .. Len(t) /\ t[i] = y
    BY <1>1, <1>2, <2>1
  <2>3. QED
    BY <1>3, <2>2
<1>9. QED
  BY <1>1, <1>5, <1>6, <1>7, <1>8 DEF t

-----------------------------------------------------------------------------
\* What a step does to the connector underneath.
ConnectorStep ==
  \/ UNCHANGED connectorVars
  \/ \E h \in Handlers : Connect(h) \/ PushFails(h) \/ EventError(h) \/ EventConnected(h) \/ TimeOut(h)
  \/ Push \/ ThreadCheck \/ Wait \/ EventsDone \/ Dispatch \/ DispatchFails
  \/ \E w \in Workers, h \in Handlers : Open(w, h) \/ OpenFails(w, h) \/ TurnAway(w, h) \/ CloseOpen(w, h)
  \/ Stop \/ FreePending \/ Stopped \/ \E w \in Workers : StopWorker(w) \/ FreeWorker(w)

LEMMA NextIsConnectorStep == [Next]_vars => ConnectorStep
<1> SUFFICES ASSUME [Next]_vars PROVE ConnectorStep
  OBVIOUS
<1>1. CASE \E c \in Commands : Post(c)
  BY <1>1 DEF Post, ConnectorStep
<1>2. CASE VisitorThread
  BY <1>2 DEF VisitorThread, VisitorConnect, VisitorConnectFails, ConnectFails, VisitorPush, ConnectorStep
<1>3. CASE ConnectThread
  BY <1>3 DEF ConnectThread, Silent, ConnectRefused, Connected, HandOver, HandOverFails, ConnectorStep
<1>4. CASE StopThread
  BY <1>4 DEF StopThread, VisitorStop, VisitorFreePending, VisitorStopWorkers, ConnectorStep
<1>5. ASSUME NEW w \in Workers, WorkerThread(w) \/ VisitorFreeWorker(w) PROVE ConnectorStep
  BY <1>5 DEF WorkerThread, VisitorOpen, VisitorOpenFails, VisitorTurnAway, VisitorFails,
              VisitorFreeWorker, ConnectorStep
<1>6. CASE UNCHANGED vars
  BY <1>6 DEF vars, ConnectorStep
<1>7. QED
  BY <1>1, <1>2, <1>3, <1>4, <1>5, <1>6 DEF Next

-----------------------------------------------------------------------------
(* Queues. *)

LEMMA QueueTaken ==
  ASSUME ConnectorTypeOK, Queues, NEW w \in Workers, pendq[w] # <<>>, TakeHead(w)
  PROVE  /\ Queued(w)' = Queued(w) \ {Head(pendq[w])} /\ Head(pendq[w]) \in Queued(w)
         /\ \A v \in Workers \ {w} : pendq'[v] = pendq[v] /\ Queued(v)' = Queued(v)
         /\ Queues' /\ pendq' \in [Workers -> Seq(Handlers)]
         /\ \A v \in Workers : Len(pendq'[v]) <= PendSize
<1> DEFINE q == pendq[w]
<1>1. /\ q \in Seq(Handlers) /\ NoDup(q) /\ q # <<>> /\ pendq' = [pendq EXCEPT ![w] = Tail(q)]
      /\ Len(q) \in Nat /\ Len(q) <= PendSize
  BY LenProperties DEF ConnectorTypeOK, Queues, TakeHead
<1>2. /\ Tail(q) \in Seq(Handlers) /\ NoDup(Tail(q)) /\ Len(Tail(q)) = Len(q) - 1
      /\ ToSet(Tail(q)) = ToSet(q) \ {Head(q)} /\ Head(q) \in ToSet(q)
  BY <1>1, HeadTaken
<1>3. /\ pendq' \in [Workers -> Seq(Handlers)] /\ pendq'[w] = Tail(q)
      /\ \A v \in Workers \ {w} : pendq'[v] = pendq[v]
  BY <1>1, <1>2 DEF ConnectorTypeOK
<1>4. \A v \in Workers : Len(pendq'[v]) <= PendSize
  BY <1>1, <1>2, <1>3, ConnectorAssumption DEF ConnectorTypeOK
<1>5. Queues'
  BY <1>2, <1>3 DEF Queues, NoDup
<1>6. QED
  BY <1>2, <1>3, <1>4, <1>5 DEF Queued

LEMMA QueuePut ==
  ASSUME ConnectorTypeOK, Queues, Room, NEW h \in Handlers, h \notin Queued(counter),
         pendq' = [pendq EXCEPT ![counter] = Append(@, h)]
  PROVE  /\ ToSet(pendq'[counter]) = Queued(counter) \cup {h}
         /\ \A v \in Workers \ {counter} : pendq'[v] = pendq[v]
         /\ Queues' /\ pendq' \in [Workers -> Seq(Handlers)]
         /\ \A v \in Workers : Len(pendq'[v]) <= PendSize
<1> DEFINE q == pendq[counter]
<1>1. /\ q \in Seq(Handlers) /\ NoDup(q) /\ pendq' = [pendq EXCEPT ![counter] = Append(q, h)]
      /\ Len(q) \in Nat /\ Len(q) < PendSize /\ h \notin ToSet(q) /\ counter \in Workers
  BY LenProperties DEF ConnectorTypeOK, Queues, Queued, Room
<1>2. /\ Append(q, h) \in Seq(Handlers) /\ NoDup(Append(q, h)) /\ Len(Append(q, h)) = Len(q) + 1
      /\ ToSet(Append(q, h)) = ToSet(q) \cup {h}
  BY <1>1, AddLast
<1>3. /\ pendq' \in [Workers -> Seq(Handlers)] /\ pendq'[counter] = Append(q, h)
      /\ \A v \in Workers \ {counter} : pendq'[v] = pendq[v]
  BY <1>1, <1>2 DEF ConnectorTypeOK
<1>4. \A v \in Workers : Len(pendq'[v]) <= PendSize
  BY <1>1, <1>2, <1>3, ConnectorAssumption DEF ConnectorTypeOK
<1>5. Queues'
  BY <1>2, <1>3 DEF Queues, NoDup
<1>6. QED
  BY <1>2, <1>3, <1>4, <1>5 DEF Queued

-----------------------------------------------------------------------------
(* Where the handlers are. *)

LEMMA NobodyHeld ==
  ASSUME ConnectorTypeOK, Located
  PROVE  /\ NoHandler \notin heap /\ heap \subseteq Handlers /\ NoHandler \notin pending
         /\ \A w \in Workers : NoHandler \notin Held(w)
  BY ConnectorAssumption DEF ConnectorTypeOK, Located

LEMMA SameLocated ==
  ASSUME Located, UNCHANGED <<heap, fresh, current, pending, pendq, pool>>
  PROVE  Located'
  BY DEF Located, Held, Queued

\* The handlers of S are deleted, wherever they were.
Gone(S) ==
  /\ heap' = heap \ S /\ pending' = pending \ S
  /\ fresh' = (IF fresh \in S THEN NoHandler ELSE fresh)
  /\ current' = (IF current \in S THEN NoHandler ELSE current)
  /\ \A w \in Workers : Queued(w)' = Queued(w) \ S /\ pool'[w] = pool[w] \ S

LEMMA Shrunk ==
  ASSUME ConnectorTypeOK, Located, NEW S, Gone(S)
  PROVE  Located'
<1>1. \A w \in Workers : Held(w)' = Held(w) \ S
  BY DEF Held, Gone
<1>2. fresh' \in {fresh, NoHandler} /\ current' \in {current, NoHandler}
  BY DEF Gone
<1>3. /\ fresh' # NoHandler => fresh' \in heap' /\ fresh' \notin pending' /\ fresh' # current'
      /\ current' # NoHandler => current' \in heap' /\ current' \notin pending'
      /\ pending' \subseteq heap'
  BY DEF Gone, Located
<1>4. ASSUME NEW w \in Workers
      PROVE  /\ Held(w)' \subseteq heap' \ (pending' \cup {fresh', current'})
             /\ Queued(w)' \cap pool'[w] = {}
  BY <1>1, <1>2, NobodyHeld DEF Gone, Located
<1>5. \A v, w \in Workers : v # w => Held(v)' \cap Held(w)' = {}
  BY <1>1 DEF Located
<1>6. ASSUME NEW h \in heap'
      PROVE  h \in pending' \cup {fresh', current'} \/ \E w \in Workers : h \in Held(w)'
  BY <1>1 DEF Gone, Located
<1>7. QED
  BY <1>3, <1>4, <1>5, <1>6 DEF Located

\* The caller and the connect thread move a handler, or the caller makes one, while the workers
\* keep theirs.
LEMMA FrontMoved ==
  ASSUME ConnectorTypeOK, Located, UNCHANGED <<pendq, pool>>,
         \A w \in Workers : Held(w) \cap (pending' \cup {fresh', current'}) = {},
         heap \subseteq heap', pending' \subseteq heap',
         fresh' # NoHandler => fresh' \in heap' /\ fresh' \notin pending' /\ fresh' # current',
         current' # NoHandler => current' \in heap' /\ current' \notin pending',
         \A h \in heap' : h \in pending' \cup {fresh', current'} \/ \E w \in Workers : h \in Held(w)
  PROVE  Located'
<1>1. \A w \in Workers : Held(w)' = Held(w) /\ Queued(w)' = Queued(w)
  BY DEF Held, Queued
<1>2. \A w \in Workers : /\ Held(w)' \subseteq heap' \ (pending' \cup {fresh', current'})
                         /\ Queued(w)' \cap pool'[w] = {}
  BY <1>1 DEF Located
<1>3. \A v, w \in Workers : v # w => Held(v)' \cap Held(w)' = {}
  BY <1>1 DEF Located
<1>4. \A h \in heap' : h \in pending' \cup {fresh', current'} \/ \E w \in Workers : h \in Held(w)'
  BY <1>1
<1>5. QED
  BY <1>2, <1>3, <1>4 DEF Located

LEMMA ConnectLocated ==
  ASSUME Owned, NEW h \in Handlers, Connect(h)
  PROVE  Located'
<1>1. ConnectorTypeOK /\ Located /\ Loops
  BY DEF Owned
<1>2. /\ fresh = NoHandler /\ fresh' = h /\ h \notin heap /\ heap' = heap \cup {h} /\ h # NoHandler
      /\ UNCHANGED <<pending, current, pendq, pool>>
  BY <1>1, ConnectorAssumption DEF Connect, Loops, ConnectorTypeOK, thread, workers
<1>3. \A w \in Workers : Held(w) \cap (pending' \cup {fresh', current'}) = {}
  BY <1>1, <1>2 DEF Located
<1>4. \A g \in heap' : g \in pending' \cup {fresh', current'} \/ \E w \in Workers : g \in Held(w)
  BY <1>1, <1>2, NobodyHeld DEF Located
<1>5. /\ fresh' # NoHandler => fresh' \in heap' /\ fresh' \notin pending' /\ fresh' # current'
      /\ current' # NoHandler => current' \in heap' /\ current' \notin pending'
      /\ heap \subseteq heap' /\ pending' \subseteq heap'
  BY <1>1, <1>2 DEF Located
<1>6. QED
  BY <1>1, <1>2, <1>3, <1>4, <1>5, FrontMoved

LEMMA PushLocated ==
  ASSUME Owned, Push
  PROVE  Located'
<1>1. ConnectorTypeOK /\ Located /\ Loops
  BY DEF Owned
<1>2. /\ fresh # NoHandler /\ fresh' = NoHandler /\ pending' = pending \cup {fresh}
      /\ UNCHANGED <<heap, current, pendq, pool>>
  BY <1>1 DEF Push, Loops, thread, workers
<1>3. \A w \in Workers : Held(w) \cap (pending' \cup {fresh', current'}) = {}
  BY <1>1, <1>2, NobodyHeld DEF Located
<1>4. \A g \in heap' : g \in pending' \cup {fresh', current'} \/ \E w \in Workers : g \in Held(w)
  BY <1>1, <1>2 DEF Located
<1>5. /\ fresh' # NoHandler => fresh' \in heap' /\ fresh' \notin pending' /\ fresh' # current'
      /\ current' # NoHandler => current' \in heap' /\ current' \notin pending'
      /\ heap \subseteq heap' /\ pending' \subseteq heap'
  BY <1>1, <1>2 DEF Located
<1>6. QED
  BY <1>1, <1>2, <1>3, <1>4, <1>5, FrontMoved

\* An event is about a handler that is on the list, once the lock is free.
LEMMA EventListed ==
  ASSUME Owned, NEW h \in batch, plock = "free"
  PROVE  h \in pending /\ h \in Handlers /\ h \in heap /\ fresh = NoHandler
<1>1. ConnectorTypeOK /\ Located /\ Loops
  BY DEF Owned
<1>2. fresh = NoHandler /\ h \in pending \cup {fresh} /\ h \in Handlers
  BY <1>1 DEF Loops, ConnectorTypeOK
<1>3. QED
  BY <1>1, <1>2, ConnectorAssumption DEF Located

LEMMA ConnectedLocated ==
  ASSUME Owned, NEW h \in Handlers, EventConnected(h)
  PROVE  Located'
<1>1. ConnectorTypeOK /\ Located /\ Loops
  BY DEF Owned
<1>2. h \in pending /\ h \in heap
  BY EventListed DEF EventConnected, OffList
<1>3. /\ current = NoHandler /\ current' = h /\ pending' = pending \ {h} /\ fresh = NoHandler
      /\ UNCHANGED <<heap, fresh, pendq, pool>>
  BY <1>1, EventListed DEF EventConnected, OffList, Loops, caller, workers
<1>4. \A w \in Workers : Held(w) \cap (pending' \cup {fresh', current'}) = {}
  BY <1>1, <1>2, <1>3 DEF Located
<1>5. \A g \in heap' : g \in pending' \cup {fresh', current'} \/ \E w \in Workers : g \in Held(w)
  BY <1>1, <1>2, <1>3, NobodyHeld DEF Located
<1>6. /\ fresh' # NoHandler => fresh' \in heap' /\ fresh' \notin pending' /\ fresh' # current'
      /\ current' # NoHandler => current' \in heap' /\ current' \notin pending'
      /\ heap \subseteq heap' /\ pending' \subseteq heap'
  BY <1>1, <1>2, <1>3 DEF Located
<1>7. QED
  BY <1>1, <1>3, <1>4, <1>5, <1>6, FrontMoved

LEMMA DispatchLocated ==
  ASSUME Owned, Dispatch
  PROVE  Located'
<1>1. ConnectorTypeOK /\ Located /\ Loops /\ Queues
  BY DEF Owned
<1>2. /\ current # NoHandler /\ current' = NoHandler /\ UNCHANGED <<heap, fresh, pending, pool>>
      /\ counter \in Workers /\ Room /\ pendq' = [pendq EXCEPT ![counter] = Append(@, current)]
  BY <1>1 DEF Dispatch, NextWorker, Loops, caller, list, ConnectorTypeOK
<1>3. /\ current \in heap /\ current \in Handlers /\ current \notin pending /\ current # fresh
      /\ \A w \in Workers : current \notin Held(w)
  BY <1>1, <1>2, NobodyHeld DEF Located
<1>4. /\ ToSet(pendq'[counter]) = Queued(counter) \cup {current}
      /\ \A v \in Workers \ {counter} : pendq'[v] = pendq[v]
  BY <1>1, <1>2, <1>3, QueuePut DEF Held
<1>5. \A w \in Workers : Queued(w)' = (IF w = counter THEN Queued(w) \cup {current} ELSE Queued(w))
  BY <1>4 DEF Queued
<1>6. \A w \in Workers : Held(w)' = (IF w = counter THEN Held(w) \cup {current} ELSE Held(w))
  BY <1>2, <1>5 DEF Held
<1>7. ASSUME NEW w \in Workers
      PROVE  /\ Held(w)' \subseteq heap' \ (pending' \cup {fresh', current'})
             /\ Queued(w)' \cap pool'[w] = {}
  <2>1. Held(w) \subseteq heap \ (pending \cup {fresh}) /\ Queued(w) \cap pool[w] = {}
    BY <1>1 DEF Located
  <2>2. NoHandler \notin Held(w) /\ current \notin pool[w]
    BY <1>1, <1>3, NobodyHeld DEF Held
  <2>3. QED
    BY <1>2, <1>3, <1>5, <1>6, <2>1, <2>2
<1>8. \A v, w \in Workers : v # w => Held(v)' \cap Held(w)' = {}
  BY <1>1, <1>3, <1>6 DEF Located
<1>9. ASSUME NEW h \in heap'
      PROVE  h \in pending' \cup {fresh', current'} \/ \E w \in Workers : h \in Held(w)'
  BY <1>1, <1>2, <1>6 DEF Located
<1>10. /\ fresh' # NoHandler => fresh' \in heap' /\ fresh' \notin pending' /\ fresh' # current'
       /\ current' # NoHandler => current' \in heap' /\ current' \notin pending'
       /\ pending' \subseteq heap'
  BY <1>1, <1>2 DEF Located
<1>11. QED
  BY <1>7, <1>8, <1>9, <1>10 DEF Located

LEMMA WaitingHead ==
  ASSUME Owned, NEW w \in Workers, NEW h \in Handlers, Waiting(w, h), TakeHead(w)
  PROVE  /\ h \in Queued(w) /\ h \in heap /\ h \notin pending /\ h # fresh /\ h # current
         /\ \A v \in Workers : h \notin pool[v] /\ (v # w => h \notin Queued(v))
         /\ \A v \in Workers : Queued(v)' = Queued(v) \ {h}
         /\ Queues' /\ pendq' \in [Workers -> Seq(Handlers)]
         /\ \A v \in Workers : Len(pendq'[v]) <= PendSize
         /\ \A v \in Workers \ {w} : pendq'[v] = pendq[v]
<1>1. ConnectorTypeOK /\ Located /\ Queues /\ pendq[w] # <<>> /\ h = Head(pendq[w])
  BY DEF Owned, Waiting
<1>2. /\ Queued(w)' = Queued(w) \ {h} /\ h \in Queued(w)
      /\ \A v \in Workers \ {w} : pendq'[v] = pendq[v] /\ Queued(v)' = Queued(v)
      /\ Queues' /\ pendq' \in [Workers -> Seq(Handlers)]
      /\ \A v \in Workers : Len(pendq'[v]) <= PendSize
  BY <1>1, QueueTaken
<1>3. h \in heap /\ h \notin pending /\ h # fresh /\ h # current /\ h \notin pool[w]
  BY <1>1, <1>2 DEF Located, Held
<1>4. \A v \in Workers \ {w} : h \notin pool[v] /\ h \notin Queued(v)
  BY <1>1, <1>2 DEF Located, Held
<1>5. QED
  BY <1>2, <1>3, <1>4

LEMMA OpenLocated ==
  ASSUME Owned, NEW w \in Workers, NEW h \in Handlers, Open(w, h)
  PROVE  Located'
<1>1. ConnectorTypeOK /\ Located
  BY DEF Owned
<1>2. /\ pool' = [pool EXCEPT ![w] = @ \cup {h}] /\ UNCHANGED <<heap, fresh, current, pending>>
      /\ Waiting(w, h) /\ TakeHead(w)
  BY DEF Open, WorkerOnly, caller, list, thread
<1>3. /\ h \in Queued(w) /\ \A v \in Workers : h \notin pool[v] /\ (v # w => h \notin Queued(v))
      /\ \A v \in Workers : Queued(v)' = Queued(v) \ {h}
  BY <1>2, WaitingHead
<1>4. \A v \in Workers : pool'[v] = (IF v = w THEN pool[v] \cup {h} ELSE pool[v])
  BY <1>1, <1>2 DEF ConnectorTypeOK
<1>5. \A v \in Workers : Held(v)' = Held(v)
  BY <1>3, <1>4 DEF Held
<1>6. \A v \in Workers : /\ Held(v)' \subseteq heap' \ (pending' \cup {fresh', current'})
                         /\ Queued(v)' \cap pool'[v] = {}
  BY <1>1, <1>2, <1>3, <1>4, <1>5 DEF Located
<1>7. /\ \A u, v \in Workers : u # v => Held(u)' \cap Held(v)' = {}
      /\ \A g \in heap' : g \in pending' \cup {fresh', current'} \/ \E v \in Workers : g \in Held(v)'
      /\ fresh' # NoHandler => fresh' \in heap' /\ fresh' \notin pending' /\ fresh' # current'
      /\ current' # NoHandler => current' \in heap' /\ current' \notin pending'
      /\ pending' \subseteq heap'
  BY <1>1, <1>2, <1>5 DEF Located
<1>8. QED
  BY <1>6, <1>7 DEF Located

\* The handlers that each failing step deletes.
Deleted(S) == S \subseteq heap /\ Gone(S)

LEMMA ListedGone ==
  ASSUME Owned, NEW h \in pending, OffList(h), Delete({h}), UNCHANGED <<caller, current, workers>>
  PROVE  Deleted({h})
<1>1. ConnectorTypeOK /\ Located
  BY DEF Owned
<1>2. /\ h \in heap /\ h # fresh /\ h # current /\ \A w \in Workers : h \notin Held(w)
  BY <1>1, NobodyHeld DEF Located
<1>3. UNCHANGED <<fresh, current, pendq, pool>> /\ heap' = heap \ {h} /\ pending' = pending \ {h}
  BY DEF OffList, Delete, caller, workers
<1>4. \A w \in Workers : Queued(w)' = Queued(w)
  BY <1>3 DEF Queued
<1>5. QED
  BY <1>2, <1>3, <1>4 DEF Deleted, Gone, Held

LEMMA DispatchGone ==
  ASSUME Owned, DispatchFails
  PROVE  Deleted({current})
<1>1. ConnectorTypeOK /\ Located /\ Loops
  BY DEF Owned
<1>2. /\ current # NoHandler /\ current' = NoHandler /\ UNCHANGED <<fresh, pendq, pool>>
      /\ heap' = heap \ {current} /\ pending' = pending \ {current}
  BY <1>1 DEF DispatchFails, OffList, Delete, NextWorker, Loops, caller, workers
<1>3. current \in heap /\ current # fresh /\ \A w \in Workers : current \notin Held(w)
  BY <1>1, <1>2 DEF Located
<1>4. \A w \in Workers : Queued(w)' = Queued(w)
  BY <1>2 DEF Queued
<1>5. QED
  BY <1>2, <1>3, <1>4 DEF Deleted, Gone, Held

LEMMA WaitingGone ==
  ASSUME Owned, NEW w \in Workers, NEW h \in Handlers, TurnAway(w, h) \/ OpenFails(w, h)
  PROVE  Deleted({h})
<1>1. /\ Waiting(w, h) /\ TakeHead(w) /\ heap' = heap \ {h}
      /\ UNCHANGED <<pool, fresh, current, pending>>
  BY DEF TurnAway, OpenFails, WorkerOnly, caller, list, thread
<1>2. /\ h \in heap /\ h \notin pending /\ h # fresh /\ h # current
      /\ \A v \in Workers : h \notin pool[v] /\ Queued(v)' = Queued(v) \ {h}
  BY <1>1, WaitingHead
<1>3. QED
  BY <1>1, <1>2 DEF Deleted, Gone

LEMMA OpenGone ==
  ASSUME Owned, NEW w \in Workers, NEW h \in Handlers, CloseOpen(w, h)
  PROVE  Deleted({h})
<1>1. ConnectorTypeOK /\ Located
  BY DEF Owned
<1>2. /\ h \in pool[w] /\ pool' = [pool EXCEPT ![w] = @ \ {h}] /\ heap' = heap \ {h}
      /\ UNCHANGED <<pendq, fresh, current, pending>>
  BY DEF CloseOpen, WorkerOnly, caller, list, thread
<1>3. /\ h \in heap /\ h \notin pending /\ h # fresh /\ h # current
      /\ \A v \in Workers : h \notin Queued(v) /\ (v # w => h \notin pool[v])
  BY <1>1, <1>2 DEF Located, Held
<1>4. \A v \in Workers : Queued(v)' = Queued(v) \ {h}
  BY <1>2, <1>3 DEF Queued
<1>5. \A v \in Workers : pool'[v] = pool[v] \ {h}
  BY <1>1, <1>2, <1>3 DEF ConnectorTypeOK
<1>6. QED
  BY <1>2, <1>3, <1>4, <1>5 DEF Deleted, Gone

LEMMA PendingGone ==
  ASSUME Owned, FreePending
  PROVE  Deleted(pending)
<1>1. ConnectorTypeOK /\ Located
  BY DEF Owned
<1>2. heap' = heap \ pending /\ pending' = {} /\ UNCHANGED <<pendq, pool, fresh, current>>
  BY DEF FreePending, Delete, thread, workers
<1>3. /\ pending \subseteq heap /\ fresh \notin pending /\ current \notin pending
      /\ \A w \in Workers : Held(w) \cap pending = {}
  BY <1>1, NobodyHeld DEF Located
<1>4. \A w \in Workers : Queued(w)' = Queued(w)
  BY <1>2 DEF Queued
<1>5. QED
  BY <1>2, <1>3, <1>4 DEF Deleted, Gone, Held

LEMMA WorkerGone ==
  ASSUME Owned, NEW w \in Workers, FreeWorker(w)
  PROVE  Deleted(pool[w] \cup ToSet(pendq[w]))
<1>1. ConnectorTypeOK /\ Located
  BY DEF Owned
<1>2. /\ heap' = heap \ Held(w) /\ pool' = [pool EXCEPT ![w] = {}]
      /\ pendq' = [pendq EXCEPT ![w] = <<>>] /\ UNCHANGED <<pending, fresh, current>>
  BY DEF FreeWorker, Held, Queued, caller, list, thread
<1>3. /\ Held(w) \subseteq heap \ (pending \cup {fresh, current})
      /\ \A v \in Workers : v # w => Held(v) \cap Held(w) = {}
  BY <1>1 DEF Located
<1>4. ToSet(<<>>) = {}
  BY DEF ToSet
<1>5. \A v \in Workers : pendq'[v] = (IF v = w THEN <<>> ELSE pendq[v])
  BY <1>1, <1>2 DEF ConnectorTypeOK
<1>6. \A v \in Workers : pool'[v] = (IF v = w THEN {} ELSE pool[v])
  BY <1>1, <1>2 DEF ConnectorTypeOK
<1>7. \A v \in Workers : Queued(v)' = (IF v = w THEN {} ELSE Queued(v))
  BY <1>4, <1>5 DEF Queued
<1>8. \A v \in Workers : Queued(v)' = Queued(v) \ Held(w) /\ pool'[v] = pool[v] \ Held(w)
  BY <1>3, <1>6, <1>7 DEF Held
<1>9. /\ heap' = heap \ Held(w) /\ pending' = pending \ Held(w)
      /\ fresh' = (IF fresh \in Held(w) THEN NoHandler ELSE fresh)
      /\ current' = (IF current \in Held(w) THEN NoHandler ELSE current)
  BY <1>2, <1>3
<1>10. Deleted(Held(w))
  BY <1>3, <1>8, <1>9 DEF Deleted, Gone
<1>11. Held(w) = pool[w] \cup ToSet(pendq[w])
  BY DEF Held, Queued
<1>12. QED
  BY <1>10, <1>11

LEMMA NextLocated == Owned /\ ConnectorStep => Located'
<1> SUFFICES ASSUME Owned, ConnectorStep PROVE Located'
  OBVIOUS
<1>1. ConnectorTypeOK /\ Located
  BY DEF Owned
<1>2. ASSUME NEW S, Deleted(S) PROVE Located'
  BY <1>1, <1>2, Shrunk DEF Deleted
<1>3. ASSUME NEW h \in Handlers, EventError(h) \/ TimeOut(h) PROVE Located'
  <2>1. h \in pending
    BY <1>3, EventListed DEF EventError, TimeOut, OffList
  <2>2. OffList(h) /\ Delete({h}) /\ UNCHANGED <<caller, current, workers>>
    BY <1>3 DEF EventError, TimeOut, thread
  <2>3. QED
    BY <1>2, <2>1, <2>2, ListedGone
<1>4. CASE \/ UNCHANGED connectorVars \/ ThreadCheck \/ Wait \/ EventsDone \/ Stop \/ Stopped
           \/ (\E h \in Handlers : PushFails(h)) \/ \E w \in Workers : StopWorker(w)
  <2>1. UNCHANGED <<heap, fresh, current, pending, pendq, pool>>
    BY <1>4 DEF connectorVars, ThreadCheck, Wait, EventsDone, Stop, Stopped, PushFails, StopWorker,
                caller, list, thread, workers
  <2>2. QED
    BY <1>1, <2>1, SameLocated
<1>5. QED
  BY <1>2, <1>3, <1>4, ConnectLocated, PushLocated, ConnectedLocated, DispatchLocated, DispatchGone,
     OpenLocated, WaitingGone, OpenGone, PendingGone, WorkerGone DEF ConnectorStep

-----------------------------------------------------------------------------
(* Types, and the variables of the threads. *)

QueueTypes ==
  /\ pendq' \in [Workers -> Seq(Handlers)] /\ pool' \in [Workers -> SUBSET Handlers]
  /\ \A w \in Workers : Len(pendq'[w]) <= PendSize

LEMMA NextQueues == Owned /\ ConnectorStep => Queues' /\ QueueTypes
<1> SUFFICES ASSUME Owned, ConnectorStep PROVE Queues' /\ QueueTypes
  OBVIOUS
<1>1. ConnectorTypeOK /\ Queues /\ Located /\ Loops
  BY DEF Owned
<1>2. ASSUME UNCHANGED pendq, pool' \in [Workers -> SUBSET Handlers] PROVE Queues' /\ QueueTypes
  BY <1>1, <1>2 DEF ConnectorTypeOK, Queues, NoDup, QueueTypes
<1>3. pool \in [Workers -> SUBSET Handlers]
  BY <1>1 DEF ConnectorTypeOK
<1>4. ASSUME NEW h \in Handlers,
             Connect(h) \/ PushFails(h) \/ EventError(h) \/ EventConnected(h) \/ TimeOut(h)
      PROVE  UNCHANGED <<pendq, pool>>
  BY <1>4 DEF Connect, PushFails, EventError, EventConnected, TimeOut, workers
<1>5. CASE \/ UNCHANGED connectorVars \/ Push \/ ThreadCheck \/ Wait \/ EventsDone \/ DispatchFails
           \/ Stop \/ FreePending \/ Stopped \/ \E w \in Workers : StopWorker(w)
  <2>1. UNCHANGED <<pendq, pool>>
    BY <1>5 DEF connectorVars, Push, ThreadCheck, Wait, EventsDone, DispatchFails, Stop, FreePending,
                Stopped, StopWorker, workers
  <2>2. QED
    BY <1>2, <1>3, <2>1
<1>6. CASE Dispatch
  <2>1. /\ Room /\ pendq' = [pendq EXCEPT ![counter] = Append(@, current)] /\ UNCHANGED pool
        /\ current # NoHandler /\ current \in Handlers /\ counter \in Workers
    BY <1>1, <1>6 DEF Dispatch, Loops, ConnectorTypeOK
  <2>2. current \notin Queued(counter)
    BY <1>1, <2>1 DEF Located, Held
  <2>3. QED
    BY <1>1, <1>3, <2>1, <2>2, QueuePut DEF QueueTypes
<1>7. ASSUME NEW w \in Workers, NEW h \in Handlers, Open(w, h) \/ OpenFails(w, h) \/ TurnAway(w, h)
      PROVE  Queues' /\ QueueTypes
  <2>1. Waiting(w, h) /\ TakeHead(w)
    BY <1>7 DEF Open, OpenFails, TurnAway
  <2>2. pool' \in [Workers -> SUBSET Handlers]
    BY <1>3, <1>7 DEF Open, OpenFails, TurnAway
  <2>3. QED
    BY <2>1, <2>2, WaitingHead DEF QueueTypes
<1>8. ASSUME NEW w \in Workers, NEW h \in Handlers, CloseOpen(w, h) PROVE Queues' /\ QueueTypes
  <2>1. UNCHANGED pendq /\ pool' \in [Workers -> SUBSET Handlers]
    BY <1>3, <1>8 DEF CloseOpen
  <2>2. QED
    BY <1>2, <2>1
<1>9. ASSUME NEW w \in Workers, FreeWorker(w) PROVE Queues' /\ QueueTypes
  <2>1. pendq' = [pendq EXCEPT ![w] = <<>>] /\ pool' = [pool EXCEPT ![w] = {}]
    BY <1>9 DEF FreeWorker
  <2>2. <<>> \in Seq(Handlers) /\ Len(<<>>) = 0 /\ 0 <= PendSize
    BY EmptySeq, ConnectorAssumption
  <2>3. \A v \in Workers : pendq'[v] = (IF v = w THEN <<>> ELSE pendq[v])
    BY <1>1, <2>1 DEF ConnectorTypeOK
  <2>4. Queues'
    BY <1>1, <2>2, <2>3 DEF Queues, NoDup
  <2>5. QueueTypes
    BY <1>1, <1>3, <2>1, <2>2, <2>3 DEF ConnectorTypeOK, QueueTypes
  <2>6. QED
    BY <2>4, <2>5
<1>10. QED
  BY <1>2, <1>3, <1>4, <1>5, <1>6, <1>7, <1>8, <1>9 DEF ConnectorStep

\* A remainder lies below its divisor.
LEMMA RemainderBound ==
  ASSUME NEW a \in Nat, NEW b \in Nat \ {0}
  PROVE  a % b \in 0 .. b - 1
  BY Z3

LEMMA NextCounter == ConnectorTypeOK => (counter + 1) % NWorkers \in Workers
<1> SUFFICES ASSUME ConnectorTypeOK PROVE (counter + 1) % NWorkers \in Workers
  OBVIOUS
<1>1. counter + 1 \in Nat
  BY ConnectorAssumption DEF ConnectorTypeOK, Workers
<1>2. QED
  BY <1>1, RemainderBound, ConnectorAssumption DEF Workers

\* The types of everything but the queues.
ThreadTypes ==
  /\ heap' \subseteq used' /\ used' \subseteq Handlers
  /\ cPc' \in {"idle", "push", "joining", "workers", "stopped"}
  /\ fresh' \in Handlers \cup {NoHandler} /\ current' \in Handlers \cup {NoHandler}
  /\ pending' \subseteq Handlers /\ watched' \subseteq Handlers
  /\ plock' \in {"free", "caller"}
  /\ tPc' \in {"check", "wait", "events", "dispatch", "exited"} /\ batch' \subseteq Handlers
  /\ counter' \in Workers
  /\ stop' \in BOOLEAN /\ wDone' \subseteq wStop' /\ wStop' \subseteq Workers

LEMMA CallerStep ==
  ASSUME Owned,
         \/ UNCHANGED connectorVars \/ Push \/ Stop \/ FreePending \/ Stopped
         \/ (\E h \in Handlers : Connect(h) \/ PushFails(h))
         \/ (\E w \in Workers : StopWorker(w) \/ FreeWorker(w))
  PROVE  ThreadTypes /\ Loops' /\ Ending'
<1>1. ConnectorTypeOK /\ Loops /\ Ending /\ Located
  BY DEF Owned
<1>2. CASE UNCHANGED connectorVars
  <2>1. ThreadTypes
    BY <1>1, <1>2 DEF connectorVars, caller, list, thread, workers, stopping, ConnectorTypeOK, ThreadTypes
  <2>2. Loops' /\ Ending'
    BY <1>1, <1>2 DEF connectorVars, caller, list, thread, workers, stopping, Loops, Ending
  <2>3. QED
    BY <2>1, <2>2
<1>3. CASE Push
  <2>1. ThreadTypes
    BY <1>1, <1>3 DEF Push, thread, workers, stopping, ConnectorTypeOK, ThreadTypes, Loops
  <2>2. Loops'
    BY <1>1, <1>3 DEF Push, thread, Loops
  <2>3. Ending'
    BY <1>1, <1>3 DEF Push, thread, workers, stopping, Ending
  <2>4. QED
    BY <2>1, <2>2, <2>3
<1>4. CASE Stop \/ Stopped
  <2>1. ThreadTypes
    BY <1>1, <1>4 DEF Stop, Stopped, list, thread, stopping, ConnectorTypeOK, ThreadTypes
  <2>2. Loops'
    BY <1>1, <1>4 DEF Stop, Stopped, list, thread, Loops
  <2>3. Ending'
    BY <1>1, <1>4 DEF Stop, Stopped, list, thread, workers, stopping, Ending
  <2>4. QED
    BY <2>1, <2>2, <2>3
<1>5. CASE FreePending
  <2>1. ThreadTypes
    BY <1>1, <1>5 DEF FreePending, Delete, thread, stopping, ConnectorTypeOK, ThreadTypes
  <2>2. watched' = {} /\ batch = {}
    BY <1>1, <1>5, ConnectorAssumption DEF FreePending, Delete, Loops, ConnectorTypeOK
  <2>3. Loops'
    BY <1>1, <1>5, <2>2 DEF FreePending, thread, Loops
  <2>4. Ending'
    BY <1>1, <1>5 DEF FreePending, thread, workers, stopping, Ending
  <2>5. QED
    BY <2>1, <2>3, <2>4
<1>6. ASSUME NEW h \in Handlers, Connect(h) \/ PushFails(h) PROVE ThreadTypes /\ Loops' /\ Ending'
  <2>1. ThreadTypes
    BY <1>1, <1>6 DEF Connect, PushFails, caller, list, thread, stopping, ConnectorTypeOK, ThreadTypes
  <2>2. h # NoHandler /\ NoHandler \notin watched
    BY <1>1, ConnectorAssumption DEF ConnectorTypeOK
  <2>3. Loops'
    BY <1>1, <1>6, <2>2 DEF Connect, PushFails, caller, list, thread, Loops
  <2>4. Ending'
    BY <1>1, <1>6 DEF Connect, PushFails, caller, list, thread, workers, stopping, Ending
  <2>5. QED
    BY <2>1, <2>3, <2>4
<1>7. ASSUME NEW w \in Workers, StopWorker(w) \/ FreeWorker(w) PROVE ThreadTypes /\ Loops' /\ Ending'
  <2>1. ThreadTypes
    BY <1>1, <1>7 DEF StopWorker, FreeWorker, caller, list, thread, ConnectorTypeOK, ThreadTypes
  <2>2. Loops'
    BY <1>1, <1>7 DEF StopWorker, FreeWorker, caller, list, thread, Loops
  <2>3. UNCHANGED <<cPc, tPc, pending, stop>>
    BY <1>7 DEF StopWorker, FreeWorker, caller, list, thread
  <2>4. /\ wStop' # {} => cPc \in {"workers", "stopped"}
        /\ cPc = "stopped" => wDone' = Workers
    BY <1>1, <1>7 DEF StopWorker, FreeWorker, Ending, ConnectorTypeOK
  <2>5. \A v \in wDone' : pendq'[v] = <<>> /\ pool'[v] = {}
    <3>1. CASE StopWorker(w)
      BY <1>1, <3>1 DEF StopWorker, workers, Ending
    <3>2. CASE FreeWorker(w)
      <4>1. \A v \in Workers : /\ pendq'[v] = (IF v = w THEN <<>> ELSE pendq[v])
                               /\ pool'[v] = (IF v = w THEN {} ELSE pool[v])
        BY <1>1, <3>2 DEF FreeWorker, ConnectorTypeOK
      <4>2. wDone' = wDone \cup {w} /\ wDone \subseteq Workers
        BY <1>1, <3>2 DEF FreeWorker, ConnectorTypeOK
      <4>3. QED
        BY <1>1, <4>1, <4>2 DEF Ending
    <3>3. QED
      BY <1>7, <3>1, <3>2
  <2>6. Ending'
    BY <1>1, <2>3, <2>4, <2>5 DEF Ending
  <2>7. QED
    BY <2>1, <2>2, <2>6
<1>8. QED
  BY <1>2, <1>3, <1>4, <1>5, <1>6, <1>7

LEMMA ThreadStep ==
  ASSUME Owned,
         \/ ThreadCheck \/ Wait \/ EventsDone \/ Dispatch \/ DispatchFails
         \/ \E h \in Handlers : EventError(h) \/ EventConnected(h) \/ TimeOut(h)
  PROVE  ThreadTypes /\ Loops' /\ Ending'
<1>1. ConnectorTypeOK /\ Loops /\ Ending /\ Located
  BY DEF Owned
<1>2. (counter + 1) % NWorkers \in Workers
  BY <1>1, NextCounter
<1>3. tPc # "exited"
  BY DEF ThreadCheck, Wait, EventsDone, Dispatch, DispatchFails, EventError, EventConnected, TimeOut
<1>4. cPc \notin {"workers", "stopped"} /\ wStop = {} /\ wDone = {}
  BY <1>1, <1>3 DEF Ending, ConnectorTypeOK
<1>5. ASSUME UNCHANGED <<caller, stopping>>, tPc' = "exited" => stop PROVE Ending'
  BY <1>1, <1>4, <1>5 DEF Ending, caller, stopping
<1>6. CASE ThreadCheck \/ Wait \/ EventsDone
  <2>1. ThreadTypes /\ Loops'
    BY <1>1, <1>6 DEF ThreadCheck, Wait, EventsDone, caller, list, stopping, ConnectorTypeOK,
                      ThreadTypes, Loops
  <2>2. Ending'
    BY <1>5, <1>6 DEF ThreadCheck, Wait, EventsDone
  <2>3. QED
    BY <2>1, <2>2
<1>7. CASE Dispatch \/ DispatchFails
  <2>1. /\ tPc' = "events" /\ current' = NoHandler /\ counter' \in Workers
        /\ UNCHANGED <<used, fresh, cPc, plock, batch, stopping>>
        /\ current # NoHandler
    BY <1>1, <1>2, <1>7 DEF Dispatch, DispatchFails, NextWorker, caller, list, Loops
  <2>2. /\ heap' \in {heap, heap \ {current}} /\ pending' \in {pending, pending \ {current}}
        /\ watched' \in {watched, watched \ {current}}
    BY <1>7 DEF Dispatch, DispatchFails, OffList, Delete, caller, list
  <2>3. current \notin watched /\ current \notin pending
    BY <1>1, <2>1 DEF Loops, Located
  <2>4. ThreadTypes
    BY <1>1, <2>1, <2>2 DEF ConnectorTypeOK, ThreadTypes, stopping
  <2>5. Loops'
    BY <1>1, <2>1, <2>2, <2>3 DEF Loops
  <2>6. Ending'
    BY <1>5, <1>7, <2>1 DEF caller
  <2>7. QED
    BY <2>4, <2>5, <2>6
<1>8. ASSUME NEW h \in Handlers, EventError(h) \/ EventConnected(h) \/ TimeOut(h)
      PROVE  ThreadTypes /\ Loops' /\ Ending'
  <2>1. /\ plock = "free" /\ pending' = pending \ {h} /\ watched' = watched \ {h}
        /\ heap' \in {heap, heap \ {h}} /\ UNCHANGED <<used, caller, plock, counter, stopping>>
    BY <1>8 DEF EventError, EventConnected, TimeOut, OffList, Delete, thread
  <2>2. \/ tPc = "events" /\ h \in batch /\ batch' = batch \ {h} /\ tPc' = "events" /\ current' = current
        \/ tPc = "events" /\ h \in batch /\ batch' = batch \ {h} /\ tPc' = "dispatch" /\ current' = h
        \/ tPc = "check" /\ UNCHANGED <<batch, tPc, current>>
    BY <1>8 DEF EventError, EventConnected, TimeOut, thread
  <2>3. fresh = NoHandler /\ h # NoHandler
    BY <1>1, <2>1, ConnectorAssumption DEF Loops
  <2>4. ThreadTypes
    BY <1>1, <2>1, <2>2 DEF ConnectorTypeOK, ThreadTypes, caller, stopping
  <2>5. Loops'
    BY <1>1, <2>1, <2>2, <2>3 DEF Loops, caller
  <2>6. Ending'
    BY <1>5, <2>1, <2>2
  <2>7. QED
    BY <2>4, <2>5, <2>6
<1>9. QED
  BY <1>6, <1>7, <1>8

LEMMA WorkerStep ==
  ASSUME Owned, NEW w \in Workers, NEW h \in Handlers,
         Open(w, h) \/ OpenFails(w, h) \/ TurnAway(w, h) \/ CloseOpen(w, h)
  PROVE  ThreadTypes /\ Loops' /\ Ending'
<1>1. ConnectorTypeOK /\ Loops /\ Ending
  BY DEF Owned
<1>2. UNCHANGED <<used, caller, list, thread, stopping>> /\ heap' \in {heap, heap \ {h}}
  BY DEF Open, OpenFails, TurnAway, CloseOpen, WorkerOnly
<1>3. ThreadTypes
  BY <1>1, <1>2 DEF ConnectorTypeOK, ThreadTypes, caller, list, thread, stopping
<1>4. Loops'
  BY <1>1, <1>2 DEF Loops, caller, list, thread
<1>5. w \notin wDone
  BY <1>1 DEF Open, OpenFails, TurnAway, CloseOpen, Waiting, ConnectorTypeOK
<1>6. \A v \in Workers \ {w} : pendq'[v] = pendq[v] /\ pool'[v] = pool[v]
  BY <1>1 DEF Open, OpenFails, TurnAway, CloseOpen, TakeHead, ConnectorTypeOK
<1>7. \A v \in wDone' : pendq'[v] = <<>> /\ pool'[v] = {}
  BY <1>1, <1>2, <1>5, <1>6 DEF Ending, stopping, ConnectorTypeOK
<1>8. Ending'
  BY <1>1, <1>2, <1>7 DEF Ending, caller, list, thread, stopping
<1>9. QED
  BY <1>3, <1>4, <1>8

LEMMA NextOwned == Owned /\ ConnectorStep => Owned'
<1> SUFFICES ASSUME Owned, ConnectorStep PROVE Owned'
  OBVIOUS
<1>1. ThreadTypes /\ Loops' /\ Ending'
  BY CallerStep, ThreadStep, WorkerStep DEF ConnectorStep
<1>2. Located' /\ Queues' /\ QueueTypes
  BY NextLocated, NextQueues
<1>3. ConnectorTypeOK'
  BY <1>1, <1>2 DEF ThreadTypes, QueueTypes, ConnectorTypeOK
<1>4. QED
  BY <1>1, <1>2, <1>3 DEF Owned

-----------------------------------------------------------------------------
(* Commands. *)

LEMMA CommandsKept ==
  ASSUME CommandTypes, Carried, UNCHANGED <<cmdq, commands, heap, pool>>, used \subseteq used'
  PROVE  CommandTypes' /\ Carried'
<1>1. UNCHANGED <<userarg, pcmd, deletes, dropped>>
  BY DEF commands
<1>2. CommandTypes'
  BY <1>1 DEF CommandTypes
<1>3. Carried'
  BY <1>1 DEF Carried, Fate
<1>4. QED
  BY <1>2, <1>3

LEMMA CommandPosted ==
  ASSUME ConnectorTypeOK, CommandTypes, Carried, NEW c \in Commands, Post(c)
  PROVE  CommandTypes' /\ Carried'
<1>1. /\ cmdq' = cmdq \cup {c} /\ UNCHANGED <<userarg, pcmd, deletes, dropped, heap, used, pool>>
      /\ c \notin dropped /\ \A h \in Handlers : userarg[h] # c
  BY DEF Post, connectorVars, workers, commands
<1>2. \A h \in Handlers : Fate(h) => Fate(h)'
  BY <1>1 DEF Fate
<1>3. QED
  BY <1>1, <1>2 DEF CommandTypes, Carried

\* A command that the visitor has taken leaves its queue: for a new handler, or for nothing.
LEMMA CommandTaken ==
  ASSUME VState, NEW c \in Commands, NEW h \in Handlers, VisitorConnect(c, h)
  PROVE  CommandTypes' /\ Carried'
<1>1. CommandTypes /\ Carried /\ heap \subseteq used
  BY DEF VState, Owned, ConnectorTypeOK
<1>2. /\ c \in cmdq /\ cmdq' = cmdq \ {c} /\ userarg' = [userarg EXCEPT ![h] = c] /\ h \notin used
      /\ used' = used \cup {h} /\ heap' = heap \cup {h}
      /\ UNCHANGED <<pcmd, deletes, dropped, pool>>
  BY DEF VisitorConnect, Connect, workers
<1>3. c # NoCommand /\ userarg[h] = NoCommand
  BY <1>1, <1>2, CommandAssumption DEF Carried
<1>4. userarg'[h] = c /\ \A g \in Handlers \ {h} : userarg'[g] = userarg[g]
  BY <1>1, <1>2 DEF CommandTypes
<1>5. \A g \in Handlers : userarg[g] # c
  BY <1>1, <1>2, <1>3 DEF Carried, Fate
<1>6. deletes[c] = 0 /\ c \notin dropped
  BY <1>1, <1>2, <1>5 DEF Carried
<1>7. \A w \in Workers : h \notin pool[w]
  BY <1>1, <1>2 DEF VState, Owned, Located, Held
<1>8. pcmd[h] = NoCommand
  BY <1>1, <1>2 DEF Carried
<1>9. CommandTypes'
  BY <1>1, <1>2 DEF CommandTypes
<1>10. \A g \in heap' : userarg'[g] \in Commands
  BY <1>1, <1>2, <1>4 DEF Carried, VState, Owned, ConnectorTypeOK
<1>11. \A g \in Handlers \ used' : userarg'[g] = NoCommand /\ pcmd'[g] = NoCommand
  BY <1>1, <1>2, <1>4 DEF Carried
<1>12. \A g, e \in Handlers : userarg'[g] = userarg'[e] /\ userarg'[g] # NoCommand => g = e
  BY <1>1, <1>4, <1>5 DEF Carried
<1>13. \A w \in Workers : \A g \in pool'[w] : pcmd'[g] = userarg'[g]
  BY <1>1, <1>2, <1>4, <1>7 DEF Carried, VState, Owned, ConnectorTypeOK
<1>14. \A g \in heap' : (\A w \in Workers : g \notin pool'[w]) => pcmd'[g] = NoCommand
  BY <1>1, <1>2, <1>8 DEF Carried
<1>15. ASSUME NEW g \in Handlers, userarg'[g] # NoCommand PROVE Fate(g)'
  <2>1. CASE g = h
    BY <1>2, <1>4, <1>6, <2>1 DEF Fate
  <2>2. CASE g # h
    <3>1. userarg'[g] = userarg[g] /\ userarg[g] # c /\ Fate(g) /\ (g \in heap' <=> g \in heap)
      BY <1>1, <1>2, <1>4, <1>5, <1>15, <2>2 DEF Carried
    <3>2. QED
      BY <1>2, <3>1 DEF Fate
  <2>3. QED
    BY <2>1, <2>2
<1>16. \A d \in Commands : (\A g \in Handlers : userarg'[g] # d) => deletes'[d] = 0
  <2>1. ASSUME NEW d \in Commands, \A g \in Handlers : userarg'[g] # d PROVE deletes'[d] = 0
    <3>1. \A g \in Handlers : userarg[g] # d
      BY <1>3, <1>4, <2>1, CommandAssumption
    <3>2. QED
      BY <1>1, <1>2, <2>1, <3>1 DEF Carried
  <2>2. QED
    BY <2>1
<1>17. cmdq' \cap dropped' = {}
  BY <1>1, <1>2 DEF Carried
<1>18. QED
  BY <1>9, <1>10, <1>11, <1>12, <1>13, <1>14, <1>15, <1>16, <1>17 DEF Carried

LEMMA CommandLost ==
  ASSUME VState, NEW c \in Commands, VisitorConnectFails(c)
  PROVE  CommandTypes' /\ Carried'
<1>1. CommandTypes /\ Carried
  BY DEF VState
<1>2. /\ c \in cmdq /\ cmdq' = cmdq \ {c} /\ dropped' = dropped \cup {c} /\ used \subseteq used'
      /\ UNCHANGED <<userarg, pcmd, deletes, heap, pool>>
  BY DEF VisitorConnectFails, ConnectFails, PushFails, connectorVars, workers
<1>3. CommandTypes'
  BY <1>1, <1>2 DEF CommandTypes
<1>4. ASSUME NEW h \in Handlers, userarg'[h] # NoCommand PROVE Fate(h)'
  <2>1. Fate(h) /\ userarg[h] # c
    BY <1>1, <1>2, <1>4 DEF Carried, Fate
  <2>2. QED
    BY <1>2, <2>1 DEF Fate
<1>5. Carried'
  BY <1>1, <1>2, <1>4 DEF Carried
<1>6. QED
  BY <1>3, <1>5

LEMMA CommandOwned ==
  ASSUME VState, NEW w \in Workers, NEW h \in Handlers, VisitorOpen(w, h)
  PROVE  CommandTypes' /\ Carried'
<1>1. CommandTypes /\ Carried /\ pool \in [Workers -> SUBSET Handlers] /\ heap \subseteq Handlers
  BY DEF VState, Owned, ConnectorTypeOK
<1>2. /\ pool' = [pool EXCEPT ![w] = @ \cup {h}] /\ pcmd' = [pcmd EXCEPT ![h] = userarg[h]]
      /\ UNCHANGED <<cmdq, userarg, deletes, dropped, heap, used>>
      /\ Waiting(w, h) /\ TakeHead(w)
  BY DEF VisitorOpen, HandleOpen, Open, WorkerOnly
<1>3. \A v \in Workers : h \notin pool[v]
  BY <1>2, WaitingHead DEF VState
<1>4. h \in used
  BY <1>2, WaitingHead DEF VState, Owned, ConnectorTypeOK
<1>5. pcmd'[h] = userarg[h] /\ \A g \in Handlers \ {h} : pcmd'[g] = pcmd[g]
  BY <1>1, <1>2 DEF CommandTypes
<1>6. \A v \in Workers : pool'[v] = (IF v = w THEN pool[v] \cup {h} ELSE pool[v])
  BY <1>1, <1>2
<1>7. \A v \in Workers : \A g \in pool'[v] : pcmd'[g] = userarg'[g]
  BY <1>1, <1>2, <1>3, <1>5, <1>6 DEF Carried
<1>8. \A g \in heap' : (\A v \in Workers : g \notin pool'[v]) => pcmd'[g] = NoCommand
  BY <1>1, <1>2, <1>5, <1>6 DEF Carried
<1>9. CommandTypes'
  BY <1>1, <1>2 DEF CommandTypes
<1>10. \A g \in Handlers : Fate(g) => Fate(g)'
  BY <1>2 DEF Fate
<1>11. \A g \in Handlers \ used' : userarg'[g] = NoCommand /\ pcmd'[g] = NoCommand
  BY <1>1, <1>2, <1>4, <1>5 DEF Carried
<1>12. Carried'
  BY <1>1, <1>2, <1>7, <1>8, <1>10, <1>11 DEF Carried
<1>13. QED
  BY <1>9, <1>12

\* The handlers of H end: their commands are deleted, or dropped if nobody opened them.
Ended(H, drop) ==
  /\ H \subseteq heap /\ heap' = heap \ H /\ \A w \in Workers : pool'[w] = pool[w] \ H
  /\ UNCHANGED <<used, cmdq, userarg>>
  /\ \A c \in Commands :
       deletes'[c] = (IF ~drop /\ (\E h \in H : userarg[h] = c) THEN deletes[c] + 1 ELSE deletes[c])
  /\ deletes' \in [Commands -> Nat] /\ pcmd' \in [Handlers -> Commands \cup {NoCommand}]
  /\ dropped' = (IF drop THEN dropped \cup {userarg[h] : h \in H} ELSE dropped)
  /\ \A h \in Handlers \ H : pcmd'[h] = pcmd[h]

LEMMA CommandsEnded ==
  ASSUME VState, NEW H, NEW drop \in BOOLEAN, Ended(H, drop)
  PROVE  CommandTypes' /\ Carried'
<1>1. CommandTypes /\ Carried /\ heap \subseteq used /\ heap \subseteq Handlers
  BY DEF VState, Owned, ConnectorTypeOK
<1>2. /\ \A h \in H : h \in heap /\ userarg[h] \in Commands /\ Fate(h)
      /\ \A g, h \in Handlers : userarg[g] = userarg[h] /\ userarg[g] # NoCommand => g = h
  BY <1>1, CommandAssumption DEF Ended, Carried
<1>3. CommandTypes'
  BY <1>1, <1>2 DEF Ended, CommandTypes
<1>4. ASSUME NEW h \in Handlers, userarg'[h] # NoCommand PROVE Fate(h)'
  <2>1. /\ Fate(h) /\ userarg[h] \in Commands /\ userarg'[h] = userarg[h] /\ cmdq' = cmdq
        /\ heap' = heap \ H /\ userarg[h] # NoCommand
    BY <1>1, <1>4 DEF Carried, CommandTypes, Ended
  <2>2. CASE h \in H
    <3>1. h \in heap /\ h \notin heap' /\ deletes[userarg[h]] = 0 /\ userarg[h] \notin dropped
      BY <1>2, <2>1, <2>2 DEF Fate
    <3>2. CASE drop
      <4>1. deletes'[userarg[h]] = 0 /\ userarg[h] \in dropped'
        BY <2>1, <2>2, <3>1, <3>2 DEF Ended
      <4>2. QED
        BY <2>1, <3>1, <4>1 DEF Fate
    <3>3. CASE ~drop
      <4>1. deletes'[userarg[h]] = 1 /\ userarg[h] \notin dropped'
        BY <2>1, <2>2, <3>1, <3>3 DEF Ended
      <4>2. QED
        BY <2>1, <3>1, <4>1 DEF Fate
    <3>4. QED
      BY <3>2, <3>3
  <2>3. CASE h \notin H
    <3>1. \A g \in H : userarg[g] # userarg[h]
      BY <1>1, <1>2, <2>1, <2>3
    <3>2. deletes'[userarg[h]] = deletes[userarg[h]] /\ (userarg[h] \in dropped' <=> userarg[h] \in dropped)
      BY <2>1, <3>1 DEF Ended
    <3>3. QED
      BY <2>1, <2>3, <3>2 DEF Fate
  <2>4. QED
    BY <2>2, <2>3
<1>5. ASSUME NEW c \in Commands, \A h \in Handlers : userarg'[h] # c PROVE deletes'[c] = 0
  <2>1. deletes[c] = 0 /\ \A h \in H : userarg[h] # c
    BY <1>1, <1>2, <1>5 DEF Carried, Ended
  <2>2. QED
    BY <2>1 DEF Ended
<1>6. cmdq' \cap dropped' = {}
  BY <1>1, <1>2 DEF Ended, Carried, Fate
<1>7. /\ \A h \in heap' : userarg'[h] \in Commands
      /\ \A h \in Handlers \ used' : userarg'[h] = NoCommand /\ pcmd'[h] = NoCommand
      /\ \A g, h \in Handlers : userarg'[g] = userarg'[h] /\ userarg'[g] # NoCommand => g = h
  BY <1>1, <1>2 DEF Ended, Carried
<1>8. \A w \in Workers : \A h \in pool'[w] : pcmd'[h] = userarg'[h]
  <2>1. \A w \in Workers : pool[w] \subseteq Handlers
    BY DEF VState, Owned, ConnectorTypeOK
  <2>2. QED
    BY <1>1, <2>1 DEF Ended, Carried
<1>9. \A h \in heap' : (\A w \in Workers : h \notin pool'[w]) => pcmd'[h] = NoCommand
  BY <1>1 DEF Ended, Carried
<1>10. QED
  BY <1>3, <1>4, <1>5, <1>6, <1>7, <1>8, <1>9 DEF Carried

\* The ways in which the visitor's steps end handlers.
LEMMA OpenClosed ==
  ASSUME VState, NEW H, Deleted(H), OpenClose(H), UNCHANGED <<used, cmdq>>
  PROVE  Ended(H, FALSE)
<1>1. /\ CommandTypes /\ H \subseteq heap /\ heap' = heap \ H
      /\ \A w \in Workers : pool'[w] = pool[w] \ H
  BY DEF VState, Deleted, Gone
<1>2. /\ \A c \in Commands : deletes'[c] = (IF \E h \in H : userarg[h] = c THEN deletes[c] + 1 ELSE deletes[c])
      /\ UNCHANGED <<userarg, pcmd, dropped>>
  BY DEF OpenClose
<1>3. deletes' \in [Commands -> Nat]
  BY <1>1 DEF OpenClose, CommandTypes
<1>4. QED
  BY <1>1, <1>2, <1>3 DEF Ended, CommandTypes

LEMMA OpenHandlersClosed ==
  ASSUME VState, NEW H, Deleted(H), CloseOnly(H), \A h \in H : pcmd[h] = userarg[h],
         UNCHANGED <<used, cmdq, dropped>>
  PROVE  Ended(H, FALSE)
<1>1. /\ CommandTypes /\ H \subseteq heap /\ heap' = heap \ H
      /\ \A w \in Workers : pool'[w] = pool[w] \ H
  BY DEF VState, Deleted, Gone
<1>2. /\ \A c \in Commands : deletes'[c] = (IF \E h \in H : userarg[h] = c THEN deletes[c] + 1 ELSE deletes[c])
      /\ userarg' = userarg /\ \A h \in Handlers \ H : pcmd'[h] = pcmd[h]
  BY DEF CloseOnly, HandleClose
<1>3. deletes' \in [Commands -> Nat] /\ pcmd' \in [Handlers -> Commands \cup {NoCommand}]
  BY <1>1 DEF CloseOnly, HandleClose, CommandTypes
<1>4. QED
  BY <1>1, <1>2, <1>3 DEF Ended

LEMMA UnopenedClosed ==
  ASSUME VState, NEW H, Deleted(H), CloseOnly(H), Drop(H), \A h \in H : pcmd[h] = NoCommand,
         UNCHANGED <<used, cmdq>>
  PROVE  Ended(H, TRUE)
<1>1. /\ CommandTypes /\ H \subseteq heap /\ heap' = heap \ H
      /\ \A w \in Workers : pool'[w] = pool[w] \ H
  BY DEF VState, Deleted, Gone
<1>2. \A c \in Commands : ~ \E h \in H : pcmd[h] = c
  BY CommandAssumption
<1>3. /\ \A c \in Commands : deletes'[c] = deletes[c]
      /\ userarg' = userarg /\ \A h \in Handlers \ H : pcmd'[h] = pcmd[h]
  BY <1>2 DEF CloseOnly, HandleClose
<1>4. deletes' \in [Commands -> Nat] /\ pcmd' \in [Handlers -> Commands \cup {NoCommand}]
  BY <1>1 DEF CloseOnly, HandleClose, CommandTypes
<1>5. dropped' = dropped \cup {userarg[h] : h \in H}
  BY DEF Drop
<1>6. QED
  BY <1>1, <1>3, <1>4, <1>5 DEF Ended

\* No step of the visitor loses a command or deletes it twice.
LEMMA NextCommands == VState /\ [Next]_vars => CommandTypes' /\ Carried'
<1> SUFFICES ASSUME VState, [Next]_vars PROVE CommandTypes' /\ Carried'
  OBVIOUS
<1>1. Owned /\ CommandTypes /\ Carried /\ Located
  BY DEF VState, Owned
<1>2. ASSUME NEW c \in Commands, Post(c) PROVE CommandTypes' /\ Carried'
  BY <1>1, <1>2, CommandPosted DEF Owned
<1>3. CASE VisitorThread
  <2>1. CASE VisitorPush
    <3>1. UNCHANGED <<cmdq, commands, heap, pool, used>>
      BY <2>1 DEF VisitorPush, Push, workers
    <3>2. QED
      BY <1>1, <3>1, CommandsKept
  <2>2. QED
    BY <1>3, <2>1, CommandTaken, CommandLost DEF VisitorThread
<1>4. ASSUME NEW h \in Handlers, ConnectRefused(h) \/ TimeOut(h) PROVE CommandTypes' /\ Carried'
  <2>1. OffList(h) /\ Delete({h}) /\ UNCHANGED <<caller, current, workers>>
    BY <1>4 DEF ConnectRefused, EventError, TimeOut, thread
  <2>2. h \in pending
    BY <1>1, <1>4, EventListed DEF ConnectRefused, EventError, TimeOut, OffList
  <2>3. Deleted({h})
    BY <1>1, <2>1, <2>2, ListedGone
  <2>4. OpenClose({h}) /\ UNCHANGED <<used, cmdq>>
    BY <1>4 DEF ConnectRefused, EventError, TimeOut
  <2>5. QED
    BY <2>3, <2>4, OpenClosed, CommandsEnded
<1>5. ASSUME NEW h \in Handlers, Silent \/ HandOver \/ Connected(h) PROVE CommandTypes' /\ Carried'
  <2>1. UNCHANGED <<cmdq, commands, heap, pool, used>>
    BY <1>5 DEF Silent, ThreadCheck, Wait, EventsDone, HandOver, Dispatch, Connected, EventConnected, workers
  <2>2. QED
    BY <1>1, <2>1, CommandsKept
<1>6. CASE HandOverFails
  <2>1. Deleted({current}) /\ OpenClose({current}) /\ UNCHANGED <<used, cmdq>>
    BY <1>1, <1>6, DispatchGone DEF HandOverFails, DispatchFails
  <2>2. QED
    BY <2>1, OpenClosed, CommandsEnded
<1>7. CASE ConnectThread
  <2>1. CASE Silent \/ HandOver
    <3>1. UNCHANGED <<cmdq, commands, heap, pool, used>>
      BY <2>1 DEF Silent, ThreadCheck, Wait, EventsDone, HandOver, Dispatch, workers
    <3>2. QED
      BY <1>1, <3>1, CommandsKept
  <2>2. QED
    BY <1>4, <1>5, <1>6, <1>7, <2>1 DEF ConnectThread
<1>8. ASSUME NEW w \in Workers, NEW h \in Handlers, VisitorTurnAway(w, h)
      PROVE  CommandTypes' /\ Carried'
  <2>1. /\ TurnAway(w, h) /\ Waiting(w, h) /\ TakeHead(w) /\ CloseOnly({h}) /\ Drop({h})
        /\ UNCHANGED <<used, cmdq>>
    BY <1>8 DEF VisitorTurnAway, TurnAway, WorkerOnly
  <2>2. Deleted({h})
    BY <1>1, <2>1, WaitingGone
  <2>3. h \in heap /\ \A v \in Workers : h \notin pool[v]
    BY <1>1, <2>1, WaitingHead
  <2>4. pcmd[h] = NoCommand
    BY <1>1, <2>3 DEF Carried
  <2>5. Ended({h}, TRUE)
    BY <2>1, <2>2, <2>4, UnopenedClosed
  <2>6. QED
    BY <2>5, CommandsEnded
<1>9. ASSUME NEW w \in Workers, NEW h \in Handlers, VisitorFails(w, h)
      PROVE  CommandTypes' /\ Carried'
  <2>1. /\ CloseOpen(w, h) /\ h \in pool[w] /\ CloseOnly({h}) /\ UNCHANGED <<used, cmdq, dropped>>
    BY <1>9 DEF VisitorFails, CloseOpen, WorkerOnly
  <2>2. Deleted({h}) /\ pcmd[h] = userarg[h]
    BY <1>1, <2>1, OpenGone DEF Carried
  <2>3. Ended({h}, FALSE)
    BY <2>1, <2>2, OpenHandlersClosed
  <2>4. QED
    BY <2>3, CommandsEnded
<1>10. ASSUME NEW w \in Workers, NEW h \in Handlers, VisitorOpenFails(w, h)
       PROVE  CommandTypes' /\ Carried'
  <2>1. Deleted({h}) /\ OpenClose({h}) /\ UNCHANGED <<used, cmdq>>
    BY <1>1, <1>10, WaitingGone DEF VisitorOpenFails, OpenFails, WorkerOnly
  <2>2. QED
    BY <2>1, OpenClosed, CommandsEnded
<1>11. ASSUME NEW w \in Workers, VisitorFreeWorker(w) PROVE CommandTypes' /\ Carried'
  <2> DEFINE H == pool[w] \cup ToSet(pendq[w])
  <2>1. Deleted(H) /\ OpenClose(H) /\ UNCHANGED <<used, cmdq>>
    BY <1>1, <1>11, WorkerGone DEF VisitorFreeWorker, FreeWorker
  <2> HIDE DEF H
  <2>2. QED
    BY <2>1, OpenClosed, CommandsEnded
<1>12. CASE StopThread
  <2>1. CASE VisitorFreePending
    <3>1. FreePending /\ CloseOnly(pending) /\ Drop(pending) /\ UNCHANGED <<used, cmdq>>
      BY <2>1 DEF VisitorFreePending, FreePending
    <3>2. Deleted(pending)
      BY <1>1, <3>1, PendingGone
    <3>3. \A h \in pending : h \in heap /\ \A w \in Workers : h \notin pool[w]
      BY <1>1 DEF Located, Held
    <3>4. \A h \in pending : pcmd[h] = NoCommand
      BY <1>1, <3>3 DEF Carried
    <3>5. Ended(pending, TRUE)
      BY <3>1, <3>2, <3>4, UnopenedClosed
    <3>6. QED
      BY <3>5, CommandsEnded
  <2>2. CASE VisitorStop \/ VisitorStopWorkers
    <3>1. UNCHANGED <<cmdq, commands, heap, pool, used>>
      BY <2>2 DEF VisitorStop, Stop, VisitorStopWorkers, Stopped, StopWorker, workers
    <3>2. QED
      BY <1>1, <3>1, CommandsKept
  <2>3. QED
    BY <1>12, <2>1, <2>2 DEF StopThread
<1>13. CASE UNCHANGED vars
  <2>1. UNCHANGED <<cmdq, commands, heap, pool, used>>
    BY <1>13 DEF vars, connectorVars, workers
  <2>2. QED
    BY <1>1, <2>1, CommandsKept
<1>14. ASSUME NEW w \in Workers, WorkerThread(w) PROVE CommandTypes' /\ Carried'
  BY <1>8, <1>9, <1>10, <1>14, CommandOwned DEF WorkerThread
<1>15. QED
  BY <1>2, <1>3, <1>7, <1>11, <1>12, <1>13, <1>14 DEF Next

-----------------------------------------------------------------------------
LEMMA InitState == Init => VState
<1> SUFFICES ASSUME Init PROVE VState
  OBVIOUS
<1>1. ConnectorTypeOK
  <2>1. <<>> \in Seq(Handlers) /\ Len(<<>>) = 0
    BY EmptySeq
  <2>2. 0 \in Workers
    BY ConnectorAssumption DEF Workers
  <2>3. /\ pendq \in [Workers -> Seq(Handlers)] /\ \A w \in Workers : Len(pendq[w]) <= PendSize
        /\ pool \in [Workers -> SUBSET Handlers]
    BY <2>1, ConnectorAssumption DEF Init, ConnectorInit
  <2>4. QED
    BY <2>2, <2>3 DEF Init, ConnectorInit, ConnectorTypeOK
<1>2. \A w \in Workers : pendq[w] = <<>> /\ Queued(w) = {} /\ pool[w] = {} /\ Held(w) = {}
  BY DEF Init, ConnectorInit, Queued, Held, ToSet
<1>3. Located
  BY <1>2 DEF Init, ConnectorInit, Located
<1>4. Queues
  BY <1>2 DEF Queues, NoDup
<1>5. Loops /\ Ending
  BY DEF Init, ConnectorInit, Loops, Ending
<1>6. CommandTypes
  BY DEF Init, CommandTypes
<1>7. Carried
  BY DEF Init, ConnectorInit, Carried
<1>8. QED
  BY <1>1, <1>3, <1>4, <1>5, <1>6, <1>7 DEF VState, Owned

\* The inductive invariant: where the live handlers are, what the caller, the connect thread and
\* stop may rely on at each point, and which handler carries which command.
THEOREM VisitorInvariant == Spec => []VState
<1>1. ASSUME VState, [Next]_vars PROVE VState'
  <2>1. Owned'
    BY <1>1, NextIsConnectorStep, NextOwned DEF VState
  <2>2. CommandTypes' /\ Carried'
    BY <1>1, NextCommands
  <2>3. QED
    BY <2>1, <2>2 DEF VState
<1>2. QED
  BY <1>1, InitState, PTL DEF Spec

-----------------------------------------------------------------------------
(* One owner, in the terms of Connector. *)

\* A handler is in a queue at most once.
LEMMA QueuePlaces ==
  ASSUME Owned, NEW h \in Handlers
  PROVE  /\ \A w \in Workers : h \notin Queued(w) =>
                {<<"queue", w, i>> : i \in {j \in 1 .. Len(pendq[w]) : pendq[w][j] = h}} = {}
         /\ \A w \in Workers : h \in Queued(w) => \E k :
                {<<"queue", w, i>> : i \in {j \in 1 .. Len(pendq[w]) : pendq[w][j] = h}}
                  = {<<"queue", w, k>>}
<1>1. \A w \in Workers : /\ pendq[w] \in Seq(Handlers) /\ NoDup(pendq[w])
                         /\ Queued(w) = {pendq[w][i] : i \in 1 .. Len(pendq[w])}
  BY ToSetIs DEF Owned, ConnectorTypeOK, Queues, Queued
<1>2. ASSUME NEW w \in Workers, h \in Queued(w)
      PROVE  \E k : {<<"queue", w, i>> : i \in {j \in 1 .. Len(pendq[w]) : pendq[w][j] = h}}
                      = {<<"queue", w, k>>}
  <2>1. PICK k \in 1 .. Len(pendq[w]) : pendq[w][k] = h
    BY <1>1, <1>2
  <2>2. {j \in 1 .. Len(pendq[w]) : pendq[w][j] = h} = {k}
    BY <1>1, <2>1 DEF NoDup
  <2>3. QED
    BY <2>2
<1>3. ASSUME NEW w \in Workers, h \notin Queued(w)
      PROVE  {<<"queue", w, i>> : i \in {j \in 1 .. Len(pendq[w]) : pendq[w][j] = h}} = {}
  <2>1. {j \in 1 .. Len(pendq[w]) : pendq[w][j] = h} = {}
    BY <1>1, <1>3
  <2>2. QED
    BY <2>1
<1>4. QED
  BY <1>2, <1>3, Zenon

\* A live handler is in one place, a deleted one in none.
LEMMA OnePlace ==
  ASSUME Owned, NEW h \in Handlers
  PROVE  IF h \in heap THEN \E p : Places(h) = {p} ELSE Places(h) = {}
<1> DEFINE C == {<<"caller">> : x \in {h} \cap {fresh}}
           L == {<<"list">> : x \in {h} \cap pending}
           T == {<<"thread">> : x \in {h} \cap {current}}
           Q(w) == {<<"queue", w, i>> : i \in {j \in 1 .. Len(pendq[w]) : pendq[w][j] = h}}
           M == {<<"pool", w>> : w \in {v \in Workers : h \in pool[v]}}
<1>1. Places(h) = C \cup L \cup T \cup (UNION {Q(w) : w \in Workers}) \cup M
  BY DEF Places
<1>2. h # NoHandler /\ Located
  BY ConnectorAssumption DEF Owned
<1>3. /\ \A w \in Workers : h \notin Queued(w) => Q(w) = {}
      /\ \A w \in Workers : h \in Queued(w) => \E k : Q(w) = {<<"queue", w, k>>}
  BY QueuePlaces
<1>4. /\ C = IF h = fresh THEN {<<"caller">>} ELSE {}
      /\ L = IF h \in pending THEN {<<"list">>} ELSE {}
      /\ T = IF h = current THEN {<<"thread">>} ELSE {}
  OBVIOUS
<1>5. /\ (\A w \in Workers : h \notin pool[w]) => M = {}
      /\ \A w \in Workers : h \in pool[w] /\ (\A v \in Workers \ {w} : h \notin pool[v])
                              => M = {<<"pool", w>>}
  <2>1. ASSUME NEW w \in Workers, h \in pool[w], \A v \in Workers \ {w} : h \notin pool[v]
        PROVE  M = {<<"pool", w>>}
    <3>1. {v \in Workers : h \in pool[v]} = {w}
      BY <2>1
    <3>2. QED
      BY <3>1
  <2>2. ASSUME \A w \in Workers : h \notin pool[w] PROVE M = {}
    BY <2>2
  <2>3. QED
    BY <2>1, <2>2, Zenon
<1> HIDE DEF C, L, T, Q, M
<1>6. \A p : p \in Places(h) <=> p \in C \cup L \cup T \cup M \/ \E w \in Workers : p \in Q(w)
  BY <1>1
<1>7. CASE h \notin heap
  <2>1. /\ h \notin pending \cup {fresh, current}
        /\ \A w \in Workers : h \notin Queued(w) /\ h \notin pool[w]
    BY <1>2, <1>7 DEF Located, Held
  <2>2. Places(h) = {}
    BY <1>3, <1>4, <1>5, <1>6, <2>1
  <2>3. QED
    BY <1>7, <2>2
<1>8. CASE h \in pending \cup {fresh, current}
  <2>1. /\ h \in heap /\ \A w \in Workers : h \notin Queued(w) /\ h \notin pool[w]
        /\ h \in pending => h # current /\ h # fresh
        /\ h = fresh => h # current
    BY <1>2, <1>8 DEF Located, Held
  <2>2. M = {} /\ \A w \in Workers : Q(w) = {}
    BY <1>3, <1>5, <2>1
  <2>3. \E p : C \cup L \cup T = {p}
    BY <1>4, <1>8, <2>1
  <2>4. Places(h) = C \cup L \cup T
    BY <1>6, <2>2
  <2>5. QED
    BY <2>1, <2>3, <2>4
<1>9. ASSUME NEW w \in Workers, h \in Held(w) PROVE h \in heap /\ \E p : Places(h) = {p}
  <2>1. /\ h \in heap /\ h \notin pending \cup {fresh, current}
        /\ \A v \in Workers \ {w} : h \notin Queued(v) /\ h \notin pool[v]
        /\ h \in Queued(w) <=> h \notin pool[w]
    BY <1>2, <1>9 DEF Located, Held
  <2>2. C = {} /\ L = {} /\ T = {} /\ \A v \in Workers \ {w} : Q(v) = {}
    BY <1>3, <1>4, <2>1
  <2>3. Places(h) = Q(w) \cup M
    BY <1>6, <2>2
  <2>4. CASE h \in Queued(w)
    <3>1. M = {}
      BY <1>5, <2>1, <2>4
    <3>2. \E k : Q(w) = {<<"queue", w, k>>}
      BY <1>3, <2>4
    <3>3. QED
      BY <2>1, <2>3, <3>1, <3>2
  <2>5. CASE h \notin Queued(w)
    <3>1. Q(w) = {} /\ M = {<<"pool", w>>}
      BY <1>3, <1>5, <2>1, <2>5
    <3>2. QED
      BY <2>1, <2>3, <3>1
  <2>6. QED
    BY <2>4, <2>5
<1>10. QED
  BY <1>2, <1>7, <1>8, <1>9 DEF Located

\* No handler is with two threads, none is lost, a deleted one is nowhere and in no event to come,
\* and stop leaves none: through the lock that only the caller holds, the two lists that are not
\* updated together, refused, timed out and successful connects, full queues and stop.
THEOREM VisitorOneOwner == Spec => []OneOwner
<1>1. ASSUME VState PROVE OneOwner
  <2>1. Owned /\ ConnectorTypeOK /\ Located /\ Loops /\ Ending
    BY <1>1 DEF VState, Owned
  <2>2. ASSUME NEW h \in Handlers PROVE Cardinality(Places(h)) = IF h \in heap THEN 1 ELSE 0
    <3>1. CASE h \in heap
      BY <2>1, <3>1, OnePlace, FS_Singleton
    <3>2. CASE h \notin heap
      BY <2>1, <3>2, OnePlace, FS_EmptySet
    <3>3. QED
      BY <3>1, <3>2
  <2>3. ASSUME cPc = "stopped" PROVE heap = {}
    <3>1. /\ fresh = NoHandler /\ current = NoHandler /\ pending = {}
          /\ \A w \in Workers : Queued(w) = {} /\ pool[w] = {}
      BY <2>1, <2>3 DEF Ending, Loops, Queued, ToSet
    <3>2. NoHandler \notin heap
      BY <2>1, NobodyHeld
    <3>3. QED
      BY <2>1, <3>1, <3>2 DEF Located, Held
  <2>4. batch \subseteq watched /\ watched \subseteq pending \cup {fresh}
    BY <2>1 DEF Loops
  <2>5. QED
    BY <2>1, <2>2, <2>3, <2>4, Zenon DEF OneOwner
<1>2. VState => OneOwner
  BY <1>1
<1>3. QED
  BY <1>2, VisitorInvariant, PTL

-----------------------------------------------------------------------------
\* Every command the visitor took is with one live handler, or deleted once, or dropped by one of
\* the three failures that open no handler, however the connects, the callbacks and stop interleave.
THEOREM VisitorCommandsAccounted == Spec => []CommandsAccounted
<1>1. ASSUME VState, NEW c \in Commands
      PROVE  Cardinality({h \in heap : userarg[h] = c}) + deletes[c] + (IF c \in dropped THEN 1 ELSE 0)
               = IF \E h \in Handlers : userarg[h] = c THEN 1 ELSE IF c \in dropped THEN 1 ELSE 0
  <2> DEFINE S == {h \in heap : userarg[h] = c}
  <2>1. Carried /\ heap \subseteq Handlers /\ c # NoCommand
    BY <1>1, CommandAssumption DEF VState, Owned, ConnectorTypeOK
  <2>2. CASE \E h \in Handlers : userarg[h] = c
    <3>1. PICK h \in Handlers : userarg[h] = c
      BY <2>2
    <3>2. Fate(h) /\ \A g \in Handlers : userarg[g] = c => g = h
      BY <2>1, <3>1 DEF Carried
    <3>3. S = (IF h \in heap THEN {h} ELSE {})
      BY <2>1, <3>1, <3>2
    <3>4. Cardinality(S) = (IF h \in heap THEN 1 ELSE 0)
      BY <3>3, FS_Singleton, FS_EmptySet, Zenon
    <3> HIDE DEF S
    <3>5. Cardinality(S) + deletes[c] + (IF c \in dropped THEN 1 ELSE 0) = 1
      BY <3>1, <3>2, <3>4 DEF Fate
    <3>6. QED
      BY <2>2, <3>5 DEF S
  <2>3. CASE ~ \E h \in Handlers : userarg[h] = c
    <3>1. S = {} /\ deletes[c] = 0
      BY <2>1, <2>3 DEF Carried
    <3>2. Cardinality(S) = 0
      BY <3>1, FS_EmptySet
    <3> HIDE DEF S
    <3>3. Cardinality(S) + deletes[c] + (IF c \in dropped THEN 1 ELSE 0) = IF c \in dropped THEN 1 ELSE 0
      BY <3>1, <3>2
    <3>4. QED
      BY <2>3, <3>3 DEF S
  <2>4. QED
    BY <2>2, <2>3
<1>2. VState => CommandsAccounted
  BY <1>1 DEF CommandsAccounted
<1>3. QED
  BY <1>2, VisitorInvariant, PTL
=============================================================================
