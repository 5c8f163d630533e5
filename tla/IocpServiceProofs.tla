------------------------- MODULE IocpServiceProofs -------------------------
(***************************************************************************)
(* The Windows service keeps every handler in one place and gives every    *)
(* completion to the connection it belongs to, for any number of workers,  *)
(* handlers, socket numbers and addresses.  Calls and Ids are about the    *)
(* objects, Located about where the live ones are, Operations about what   *)
(* the completion ports still know of the others, and Ending about the     *)
(* order in which the threads stop.                                        *)
(***************************************************************************)
EXTENDS IocpService, SequenceTheorems, FiniteSetTheorems, TLAPS

\* No element comes twice.
NoDup(s) == \A i, j \in 1 .. Len(s) : s[i] = s[j] => i = j

Queued(w) == ToSet(pendq[w])

\* Two live connections have two socket numbers.
Ids == \A g, h \in heap : sock[g] = sock[h] => g = h

\* Callbacks made so far, over a handler's life.
Calls ==
  /\ \A h \in Handlers \ used : opens[h] = 0 /\ closes[h] = 0
  /\ \A h \in heap : closes[h] = 0 /\ opens[h] <= 1
  /\ \A h \in used \ heap : opens[h] <= closes[h] /\ closes[h] <= 1

\* A live handler is with the front end or queued, not opened yet, or in a map, opened; it
\* is in one of these places only.
Unopened(S) == \A h \in S : h \in heap /\ opens[h] = 0
Located ==
  /\ Unopened(pending) /\ Unopened(hds) /\ pending \cap hds = {}
  /\ fresh # None => Unopened({fresh}) /\ fresh \notin pending \cup hds
  /\ \A w \in Workers : Unopened(Queued(w)) /\ Queued(w) \cap (pending \cup hds \cup {fresh}) = {}
  /\ \A v, w \in Workers : v # w => Queued(v) \cap Queued(w) = {}
  /\ \A w \in Workers : \A h \in handlers[w] : h \in heap /\ opens[h] = 1
  /\ \A v, w \in Workers : v # w => handlers[v] \cap handlers[w] = {}
  /\ \A h \in heap : \/ h \in pending \cup hds \cup {fresh}
                     \/ \E w \in Workers : h \in Queued(w) \cup handlers[w]

\* At the points of their loops where the threads use them.
Loops ==
  /\ fresh # None <=> fPc = "dispatch"
  /\ \A w \in Workers : /\ NoDup(pendq[w])
                        /\ wPc[w] = "run" => todo[w] \subseteq handlers[w]
                        /\ wPc[w] \in {"accept", "get"} => counter[w] < MaxEvents

\* What is in flight or completed was started by a handler that had been opened.
Opened == {h \in used : opens[h] = 1}
Operations ==
  \A w \in Workers :
    posted[w] \subseteq Opened /\ \A i \in 1 .. Len(port[w]) : port[w][i][1] \in Opened

\* The order in which the threads end, and what an ended thread leaves behind.
Ending ==
  /\ mPc \in {"pending", "workers", "stopped"} => fPc = "exited"
  /\ mPc \in {"workers", "stopped"} => pending = {}
  /\ \A w \in Workers :
       /\ wStop[w] => mPc \in {"workers", "stopped"}
       /\ wPc[w] \in {"free", "drain", "exited"} => wStop[w]
       /\ wPc[w] \in {"drain", "exited"} => handlers[w] = {}
       /\ wPc[w] = "exited" => pendq[w] = <<>>
       /\ mPc = "stopped" => wPc[w] = "exited"

Matched == CompletionsMatched /\ \A h \in Handlers \ used : mixed[h] = {}

IState == /\ TypeOK /\ Ids /\ Calls /\ Located /\ Loops /\ Operations /\ Ending /\ Matched
-----------------------------------------------------------------------------
\* The elements of a sequence, by their indices.
LEMMA ToSetIs == ASSUME NEW T, NEW s \in Seq(T) PROVE ToSet(s) = {s[i] : i \in 1 .. Len(s)}
  BY LenProperties DEF ToSet

\* Taking the first element off a queue without repetitions.
LEMMA TakeHead ==
  ASSUME NEW T, NEW s \in Seq(T), s # <<>>, NoDup(s)
  PROVE  /\ Head(s) \in T /\ Tail(s) \in Seq(T) /\ Len(Tail(s)) = Len(s) - 1
         /\ Head(s) \in ToSet(s) /\ NoDup(Tail(s)) /\ ToSet(Tail(s)) = ToSet(s) \ {Head(s)}
<1> DEFINE t == Tail(s)
<1>1. /\ Head(s) \in T /\ t \in Seq(T) /\ Len(t) = Len(s) - 1
      /\ \A i \in 1 .. Len(t) : t[i] = s[i + 1]
  BY HeadTailProperties
<1>2. Head(s) = s[1] /\ Len(s) \in Nat \ {0}
  BY EmptySeq, LenProperties
<1>3. ToSet(s) = {s[i] : i \in 1 .. Len(s)} /\ ToSet(t) = {t[i] : i \in 1 .. Len(t)}
  BY <1>1, ToSetIs
<1> HIDE DEF t
<1>4. NoDup(t)
  BY <1>1, <1>2 DEF NoDup
<1>5. ASSUME NEW x \in ToSet(t) PROVE x \in ToSet(s) \ {Head(s)}
  <2>1. PICK i \in 1 .. Len(t) : x = t[i]
    BY <1>3
  <2>2. i + 1 \in 1 .. Len(s) /\ x = s[i + 1] /\ i + 1 # 1 /\ 1 \in 1 .. Len(s)
    BY <1>1, <1>2, <2>1
  <2>3. QED
    BY <1>2, <1>3, <2>2 DEF NoDup
<1>6. ASSUME NEW x \in ToSet(s) \ {Head(s)} PROVE x \in ToSet(t)
  <2>1. PICK i \in 1 .. Len(s) : x = s[i]
    BY <1>3
  <2>2. i # 1
    BY <1>2, <2>1
  <2>3. i - 1 \in 1 .. Len(t) /\ (i - 1) + 1 = i
    BY <1>1, <1>2, <2>2
  <2>4. x = t[i - 1]
    BY <1>1, <2>1, <2>3
  <2>5. QED
    BY <1>3, <2>3, <2>4
<1>7. Head(s) \in ToSet(s)
  BY <1>2, <1>3
<1>8. QED
  BY <1>1, <1>4, <1>5, <1>6, <1>7 DEF t

\* Putting a new element on such a queue.
LEMMA AddLast ==
  ASSUME NEW T, NEW s \in Seq(T), NEW x \in T, x \notin ToSet(s), NoDup(s)
  PROVE  /\ Append(s, x) \in Seq(T) /\ Len(Append(s, x)) = Len(s) + 1
         /\ NoDup(Append(s, x)) /\ ToSet(Append(s, x)) = ToSet(s) \cup {x}
<1> DEFINE t == Append(s, x)
<1>1. /\ t \in Seq(T) /\ Len(t) = Len(s) + 1 /\ \A i \in 1 .. Len(s) : t[i] = s[i]
      /\ t[Len(s) + 1] = x
  BY AppendProperties
<1>2. Len(s) \in Nat
  BY LenProperties
<1>3. ToSet(s) = {s[i] : i \in 1 .. Len(s)} /\ ToSet(t) = {t[i] : i \in 1 .. Len(t)}
  BY <1>1, ToSetIs
<1> HIDE DEF t
<1>4. \A i \in 1 .. Len(t) : i = Len(s) + 1 \/ (i \in 1 .. Len(s) /\ t[i] = s[i] /\ s[i] \in ToSet(s))
  BY <1>1, <1>2, <1>3
<1>5. NoDup(t)
  BY <1>1, <1>2, <1>4 DEF NoDup
<1>6. ToSet(t) \subseteq ToSet(s) \cup {x}
  BY <1>1, <1>3, <1>4
<1>7. x \in ToSet(t)
  <2>1. Len(s) + 1 \in 1 .. Len(t)
    BY <1>1, <1>2
  <2>2. QED
    BY <1>1, <1>3, <2>1
<1>8. ASSUME NEW y \in ToSet(s) PROVE y \in ToSet(t)
  <2>1. PICK i \in 1 .. Len(s) : y = s[i]
    BY <1>3
  <2>2. i \in 1 .. Len(t) /\ t[i] = y
    BY <1>1, <1>2, <2>1
  <2>3. QED
    BY <1>3, <2>2
<1>9. QED
  BY <1>1, <1>5, <1>6, <1>7, <1>8 DEF t

LEMMA One == \A S, h : Cardinality(S \cap {h}) = IF h \in S THEN 1 ELSE 0
<1>1. ASSUME NEW S, NEW h PROVE Cardinality(S \cap {h}) = IF h \in S THEN 1 ELSE 0
  <2>1. CASE h \in S
    <3>1. S \cap {h} = {h}
      BY <2>1
    <3>2. QED
      BY <2>1, <3>1, FS_Singleton
  <2>2. CASE h \notin S
    <3>1. S \cap {h} = {}
      BY <2>2
    <3>2. QED
      BY <2>2, <3>1, FS_EmptySet
  <2>3. QED
    BY <2>1, <2>2
<1>2. QED
  BY <1>1, Zenon

-----------------------------------------------------------------------------
\* What a step does to handlers: it ends those of S, with the calls made so far.
Counted(S, o, c) ==
  /\ \A h \in Handlers : opens'[h] = opens[h] + (IF h \in S THEN o ELSE 0)
  /\ \A h \in Handlers : closes'[h] = closes[h] + (IF h \in S THEN c ELSE 0)
  /\ opens' \in [Handlers -> Nat] /\ closes' \in [Handlers -> Nat]
  /\ UNCHANGED <<used, sock, addr>>

Same == UNCHANGED <<objects, pendq, handlers, mixed>>

\* A worker ends opened handlers; takes one off its queue and turns it away; or opens it.
Ends(w, S) ==
  /\ S \subseteq handlers[w] /\ Counted(S, 0, 1)
  /\ heap' = heap \ S /\ handlers' = [handlers EXCEPT ![w] = @ \ S] /\ UNCHANGED pendq
TurnsAway(w) ==
  /\ Take(w) /\ heap' = heap \ {Head(pendq[w])} /\ UNCHANGED <<handlers, mixed>>
  /\ \E o, c \in {0, 1} : o <= c /\ Counted({Head(pendq[w])}, o, c)
Opens(w) ==
  /\ Take(w) /\ UNCHANGED <<heap, mixed>> /\ Counted({Head(pendq[w])}, 1, 0)
  /\ handlers' = [handlers EXCEPT ![w] = @ \cup {Head(pendq[w])}]

\* The handler at the head of a queue.
LEMMA HeadQueued ==
  ASSUME TypeOK, Located, NEW w \in Workers, pendq[w] # <<>>
  PROVE  /\ Head(pendq[w]) \in Queued(w) /\ Head(pendq[w]) \in heap /\ Head(pendq[w]) \in Handlers
         /\ opens[Head(pendq[w])] = 0
<1>1. pendq[w] \in Seq(Handlers)
  BY DEF TypeOK
<1>2. Head(pendq[w]) = pendq[w][1] /\ 1 \in 1 .. Len(pendq[w]) /\ Head(pendq[w]) \in Handlers
  <2>1. Len(pendq[w]) \in Nat /\ Len(pendq[w]) # 0
    BY <1>1, EmptySeq, LenProperties
  <2>2. QED
    BY <1>1, <2>1, HeadTailProperties
<1>3. Head(pendq[w]) \in Queued(w)
  BY <1>1, <1>2, ToSetIs DEF Queued
<1>4. QED
  BY <1>2, <1>3 DEF Located, Unopened

LEMMA RemoveEffect ==
  ASSUME TypeOK, NEW w \in Workers, NEW S \in SUBSET Handlers, RemoveAll(w, S),
         UNCHANGED <<used, sock, addr, opens>>
  PROVE  /\ Counted(S, 0, 1) /\ heap' = heap \ S
         /\ handlers' = [handlers EXCEPT ![w] = @ \ S]
<1>1. closes' = [h \in Handlers |-> closes[h] + Cardinality(S \cap {h})]
  BY DEF RemoveAll
<1>2. \A h \in Handlers : closes'[h] = closes[h] + (IF h \in S THEN 1 ELSE 0)
  BY <1>1, One
<1>3. \A h \in Handlers : closes[h] \in Nat /\ opens[h] \in Nat
  BY DEF TypeOK
<1>4. closes' = [h \in Handlers |-> closes[h] + (IF h \in S THEN 1 ELSE 0)]
  BY <1>1, One, Zenon
<1>5. closes' \in [Handlers -> Nat]
  BY <1>3, <1>4
<1>6. QED
  BY <1>2, <1>3, <1>5 DEF RemoveAll, Counted, TypeOK

\* What each step of a worker does to the handlers.
LEMMA WorkerEffect ==
  ASSUME IState, NEW w \in Workers, WorkThread(w) \/ Complete(w)
  PROVE  \/ Same
         \/ \E S : Ends(w, S) /\ UNCHANGED mixed
         \/ TurnsAway(w)
         \/ Opens(w)
         \/ TakeData(w) /\ \E S : Ends(w, S)
         \/ TakeEof(w) /\ \E S : Ends(w, S)
         \/ TakeFailed(w) /\ \E S : Ends(w, S)
<1>1. TypeOK /\ Located /\ Loops /\ Ids /\ handlers[w] \subseteq Handlers
  BY DEF IState, TypeOK
<1>2. CASE Check(w) \/ AcceptDone(w) \/ Complete(w) \/ TakeNothing(w) \/ RunHandled(w)
           \/ RunDone(w) \/ DrainDone(w)
  BY <1>2 DEF Check, AcceptDone, Complete, TakeNothing, RunHandled, RunDone, DrainDone, Same,
              completions, worker
<1>3. CASE AcceptRefused(w)
  <2>1. \A h \in Handlers : opens[h] \in Nat /\ closes[h] \in Nat
    BY <1>1 DEF TypeOK
  <2>2. Counted({Head(pendq[w])}, 0, 0)
    BY <1>1, <1>3, <2>1 DEF AcceptRefused, Counted, TypeOK
  <2>3. TurnsAway(w)
    BY <1>3, <2>2 DEF AcceptRefused, TurnsAway, completions, worker
  <2>4. QED
    BY <2>3
<1>4. CASE AcceptOpened(w)
  <2> DEFINE x == Head(pendq[w])
  <2>1. /\ x \in Queued(w) /\ x \in heap /\ x \in Handlers /\ opens[x] = 0
    BY <1>1, <1>4, HeadQueued DEF AcceptOpened, Take
  <2>2. opens' = [opens EXCEPT ![x] = @ + 1] /\ UNCHANGED <<used, sock, addr, mixed>> /\ Take(w)
    BY <1>4 DEF AcceptOpened
  <2>3. x \notin handlers[w] /\ \A e \in handlers[w] : sock[e] # sock[x]
    BY <1>1, <2>1 DEF Located, Ids
  <2>4. CASE RemoveAll(w, {x})
    <3>1. /\ closes' = [h \in Handlers |-> closes[h] + Cardinality({x} \cap {h})]
          /\ heap' = heap \ {x} /\ handlers' = [handlers EXCEPT ![w] = @ \ {x}]
      BY <2>4 DEF RemoveAll
    <3>2. handlers' = handlers
      BY <1>1, <2>3, <3>1 DEF TypeOK
    <3>3. closes' = [h \in Handlers |-> closes[h] + (IF h \in {x} THEN 1 ELSE 0)]
      BY <3>1, One, Zenon
    <3>4. Counted({x}, 1, 1)
      BY <1>1, <2>1, <2>2, <3>3 DEF Counted, TypeOK
    <3>5. TurnsAway(w)
      BY <2>2, <3>1, <3>2, <3>4 DEF TurnsAway
    <3>6. QED
      BY <3>5
  <2>5. CASE /\ UNCHANGED <<closes, heap>>
             /\ handlers' = [handlers EXCEPT ![w] =
                               IF \E e \in @ : sock[e] = sock[x] THEN @ ELSE @ \cup {x}]
    <3>1. handlers' = [handlers EXCEPT ![w] = @ \cup {x}]
      BY <2>3, <2>5
    <3>2. Counted({x}, 1, 0)
      BY <1>1, <2>1, <2>2, <2>5 DEF Counted, TypeOK
    <3>3. Opens(w)
      BY <2>2, <2>5, <3>1, <3>2 DEF Opens
    <3>4. QED
      BY <3>3
  <2>6. QED
    BY <1>4, <2>4, <2>5 DEF AcceptOpened
<1>5. CASE DrainPending(w)
  <2>1. Head(pendq[w]) \in Handlers /\ Head(pendq[w]) \notin handlers[w]
    BY <1>1, <1>5, HeadQueued DEF DrainPending, Take, Located
  <2>2. /\ Counted({Head(pendq[w])}, 0, 1) /\ heap' = heap \ {Head(pendq[w])}
        /\ handlers' = [handlers EXCEPT ![w] = @ \ {Head(pendq[w])}]
    BY <1>1, <1>5, <2>1, RemoveEffect DEF DrainPending
  <2>3. handlers' = handlers
    BY <1>1, <2>1, <2>2 DEF TypeOK
  <2>4. TurnsAway(w)
    BY <1>5, <2>2, <2>3 DEF DrainPending, TurnsAway, completions
  <2>5. QED
    BY <2>4
<1>6. ASSUME NEW S, S \subseteq handlers[w], RemoveAll(w, S), UNCHANGED <<used, sock, addr, opens, pendq>>
      PROVE  Ends(w, S)
  BY <1>1, <1>6, RemoveEffect DEF Ends
<1>7. \A h : Addressed(w, h) \subseteq handlers[w] /\ Found(w, h) \subseteq handlers[w]
  BY DEF Addressed, Found
<1>8. CASE TakeData(w)
  <2>1. PICK h : \E failed \in SUBSET Addressed(w, h) : RemoveAll(w, failed)
    BY <1>8, Zenon DEF TakeData
  <2>2. QED
    BY <1>6, <1>7, <1>8, <2>1 DEF TakeData
<1>9. CASE TakeEof(w) \/ TakeFailed(w)
  BY <1>6, <1>7, <1>9 DEF TakeEof, TakeFailed
<1>10. CASE RunFailed(w)
  <2>1. PICK h \in todo[w] : RemoveAll(w, {h})
    BY <1>10 DEF RunFailed
  <2>2. {h} \subseteq handlers[w]
    BY <1>1, <1>10 DEF RunFailed, Loops
  <2>3. QED
    BY <1>6, <1>10, <2>1, <2>2 DEF RunFailed
<1>11. CASE FreeHandlers(w)
  BY <1>6, <1>11 DEF FreeHandlers, completions
<1>12. QED
  BY <1>2, <1>3, <1>4, <1>5, <1>8, <1>9, <1>10, <1>11 DEF WorkThread
-----------------------------------------------------------------------------
\* The front end makes a handler, hands one to a worker, deletes some, or moves the pending
\* ones to the list of its thread.
FrontSame == UNCHANGED <<objects, pendq, pending, hds, fresh>>
Makes(h) ==
  /\ Create(h) /\ UNCHANGED <<pendq, hds>>
  /\ \/ fresh = None /\ fresh' = h /\ UNCHANGED pending
     \/ pending' = pending \cup {h} /\ UNCHANGED fresh
Hands(w, h) ==
  /\ w \in Workers /\ Put(w, h) /\ UNCHANGED <<objects, pending>>
  /\ \/ fresh # None /\ h = fresh /\ fresh' = None /\ UNCHANGED hds
     \/ h \in hds /\ hds' = hds \ {h} /\ UNCHANGED fresh
Drops(S) ==
  /\ S \subseteq heap /\ S \subseteq pending \cup hds \cup {fresh} /\ \A h \in S : opens[h] = 0
  /\ heap' = heap \ S /\ UNCHANGED pendq
  /\ pending' = pending \ S /\ hds' = hds \ S /\ fresh' = IF fresh \in S THEN None ELSE fresh
  /\ \E o, c \in {0, 1} : o <= c /\ Counted(S, o, c)
Fetches == UNCHANGED <<objects, pendq, fresh>> /\ hds' = hds \cup pending /\ pending' = {}

LEMMA FrontEffect ==
  ASSUME IState, FrontThread
  PROVE  \/ FrontSame \/ (\E h \in Handlers : Makes(h)) \/ (\E w, h : Hands(w, h))
         \/ (\E S : Drops(S)) \/ Fetches
<1>1. TypeOK /\ Located /\ Loops
  BY DEF IState
<1>2. CASE AcceptCheck \/ LookPending \/ LookDone
  BY <1>2 DEF AcceptCheck, LookPending, LookDone, FrontSame, objects
<1>3. CASE Accept
  <2>1. fresh = None
    BY <1>1, <1>3 DEF Accept, Loops
  <2>2. QED
    BY <1>3, <2>1 DEF Accept, FrontSame, Makes
<1>4. CASE Connect
  BY <1>4 DEF Connect, Makes
<1>5. CASE Fetch
  BY <1>5 DEF Fetch, FrontSame, Fetches
<1>6. CASE AcceptDispatch
  <2>1. fresh # None /\ fresh \in heap /\ opens[fresh] = 0 /\ fresh \notin pending \cup hds
    BY <1>1, <1>6 DEF AcceptDispatch, Loops, Located, Unopened
  <2>2. PICK ok \in BOOLEAN : Dispatch(fresh, ok) /\ heap' = IF ok THEN heap ELSE heap \ {fresh}
    BY <1>6 DEF AcceptDispatch
  <2>3. UNCHANGED <<used, sock, addr, opens, closes, pending, hds>> /\ fresh' = None
    BY <1>6 DEF AcceptDispatch
  <2>4. CASE ok
    <3>1. Hands(hdCounter, fresh)
      BY <1>1, <2>1, <2>2, <2>3, <2>4 DEF Dispatch, Hands, objects, TypeOK
    <3>2. QED
      BY <3>1
  <2>5. CASE ~ok
    <3>1. Counted({fresh}, 0, 0)
      BY <1>1, <2>3 DEF Counted, TypeOK
    <3>2. Drops({fresh})
      BY <2>1, <2>2, <2>3, <2>5, <3>1 DEF Dispatch, Drops
    <3>3. QED
      BY <3>2
  <2>6. QED
    BY <2>4, <2>5
<1>7. CASE LookConnected
  <2>1. PICK h \in look : Dispatch(h, TRUE) /\ hds' = hds \ {h}
    BY <1>7 DEF LookConnected
  <2>2. Hands(hdCounter, h)
    BY <1>1, <1>7, <2>1 DEF LookConnected, Dispatch, Hands, TypeOK
  <2>3. QED
    BY <2>2
<1>8. CASE LookFailed
  <2>1. PICK h \in look :
          /\ Dispatch(h, FALSE) \/ UNCHANGED <<hdCounter, pendq>>
          /\ opens' = [opens EXCEPT ![h] = @ + 1] /\ closes' = [closes EXCEPT ![h] = @ + 1]
          /\ heap' = heap \ {h} /\ hds' = hds \ {h}
    BY <1>8 DEF LookFailed
  <2>2. h \in hds /\ h \in Handlers /\ h \in heap /\ opens[h] = 0 /\ h \notin pending /\ h # fresh
    BY <1>1, IocpAssumption DEF TypeOK, Located, Unopened
  <2>3. UNCHANGED <<used, sock, addr, fresh, pending, pendq>>
    BY <1>8, <2>1 DEF LookFailed, Dispatch
  <2>4. Counted({h}, 1, 1)
    BY <1>1, <2>1, <2>2, <2>3 DEF Counted, TypeOK
  <2>5. Drops({h})
    BY <2>1, <2>2, <2>3, <2>4 DEF Drops
  <2>6. QED
    BY <2>5
<1>9. QED
  BY <1>2, <1>3, <1>4, <1>5, <1>6, <1>7, <1>8 DEF FrontThread

LEMMA StopEffect ==
  ASSUME IState, StopThread, UNCHANGED <<pendq, fresh, hds>>
  PROVE  (UNCHANGED <<objects, pending>> /\ FrontSame) \/ (mPc = "pending" /\ Drops(pending))
<1>1. TypeOK /\ Located
  BY DEF IState
<1>2. CASE FreePending
  <2>1. closes' = [h \in Handlers |-> closes[h] + (IF h \in pending THEN 1 ELSE 0)]
    BY <1>2, One, Zenon DEF FreePending
  <2>2. Counted(pending, 0, 1)
    <3>1. \A h \in Handlers : closes[h] \in Nat /\ opens[h] \in Nat
      BY <1>1 DEF TypeOK
    <3>2. closes' \in [Handlers -> Nat] /\ opens' \in [Handlers -> Nat]
      <4>1. \A h \in Handlers : closes[h] + (IF h \in pending THEN 1 ELSE 0) \in Nat
        BY <3>1
      <4>2. closes' \in [Handlers -> Nat]
        BY <2>1, <4>1
      <4>3. opens' = opens
        BY <1>2 DEF FreePending
      <4>4. QED
        BY <1>1, <4>2, <4>3 DEF TypeOK
    <3>3. UNCHANGED <<used, sock, addr, opens>>
      BY <1>2 DEF FreePending
    <3>4. \A h \in Handlers : opens'[h] = opens[h] + (IF h \in pending THEN 0 ELSE 0)
      BY <3>1, <3>3
    <3>5. \A h \in Handlers : closes'[h] = closes[h] + (IF h \in pending THEN 1 ELSE 0)
      BY <2>1
    <3>6. QED
      BY <3>2, <3>3, <3>4, <3>5 DEF Counted
  <2>3. pending \cap hds = {} /\ fresh \notin pending /\ pending \subseteq heap
    BY <1>1, IocpAssumption DEF Located, Unopened, TypeOK
  <2>4. hds' = hds \ pending /\ pending' = pending \ pending /\ heap' = heap \ pending
    BY <1>2, <2>3 DEF FreePending
  <2>5. Drops(pending)
    BY <1>1, <2>2, <2>3, <2>4 DEF Drops, Located, Unopened
  <2>6. QED
    BY <1>2, <2>5 DEF FreePending
<1>3. QED
  BY <1>2 DEF StopThread, Stop, JoinFront, Stopped, StopWorker, FrontSame

-----------------------------------------------------------------------------
\* The life of handlers: they are made alive under a number of their own, opened at most once,
\* and closed at most once when they end, if they were opened.
Life ==
  /\ used \subseteq used' /\ used' \subseteq Handlers
  /\ heap' \subseteq heap \cup (used' \ used) /\ used' \ used \subseteq heap'
  /\ \A g, h \in used' \ used : g = h
  /\ \A h \in used' \ used : \A g \in heap : sock'[h] # sock[g]
  /\ \A h \in used : sock'[h] = sock[h] /\ addr'[h] = addr[h]
  /\ \A h \in Handlers \ heap : opens'[h] = opens[h] /\ closes'[h] = closes[h]
  /\ \A h \in heap :
       /\ opens'[h] >= opens[h] /\ opens'[h] \in Nat /\ closes'[h] \in Nat
       /\ h \in heap' => closes'[h] = 0 /\ opens'[h] <= 1
       /\ h \notin heap' => opens'[h] <= closes'[h] /\ closes'[h] <= 1

LEMMA EndedLife ==
  ASSUME TypeOK, Calls, NEW S \in SUBSET heap, heap' = heap \ S,
         NEW o \in {0, 1}, NEW c \in {0, 1}, Counted(S, o, c),
         \A h \in S : opens[h] + o <= c
  PROVE  Life
<1>1. /\ heap \subseteq used /\ used \subseteq Handlers /\ UNCHANGED <<used, sock, addr>>
      /\ \A h \in Handlers : /\ opens[h] \in Nat /\ closes[h] \in Nat
                             /\ opens'[h] \in Nat /\ closes'[h] \in Nat
  BY DEF TypeOK, Counted
<1>2. \A h \in Handlers \ heap : opens'[h] = opens[h] /\ closes'[h] = closes[h]
  BY <1>1 DEF Counted
<1>3. ASSUME NEW h \in heap
      PROVE  /\ opens'[h] >= opens[h] /\ opens'[h] \in Nat /\ closes'[h] \in Nat
             /\ h \in heap' => closes'[h] = 0 /\ opens'[h] <= 1
             /\ h \notin heap' => opens'[h] <= closes'[h] /\ closes'[h] <= 1
  <2>1. closes[h] = 0 /\ opens[h] <= 1 /\ h \in Handlers
    BY <1>1 DEF Calls
  <2>2. CASE h \in S
    <3>1. opens'[h] = opens[h] + o /\ closes'[h] = closes[h] + c /\ opens[h] + o <= c
      BY <2>1, <2>2 DEF Counted
    <3>2. QED
      BY <1>1, <2>1, <2>2, <3>1
  <2>3. CASE h \notin S
    <3>1. opens'[h] = opens[h] /\ closes'[h] = closes[h]
      BY <1>1, <2>1, <2>3 DEF Counted
    <3>2. QED
      BY <1>1, <2>1, <2>3, <3>1
  <2>4. QED
    BY <2>2, <2>3
<1>4. QED
  BY <1>1, <1>2, <1>3 DEF Life

LEMMA SameLife ==
  ASSUME TypeOK, Calls, UNCHANGED objects
  PROVE  Life
  BY DEF TypeOK, Calls, objects, Life

LEMMA MadeLife ==
  ASSUME TypeOK, Calls, NEW h \in Handlers, Create(h)
  PROVE  Life
<1>1. PICK s \in Socks \ {sock[e] : e \in heap} : sock' = [sock EXCEPT ![h] = s]
  BY Zenon DEF Create
<1>2. PICK a \in Addrs \ {addr[e] : e \in heap} : addr' = [addr EXCEPT ![h] = a]
  BY Zenon DEF Create
<1>3. /\ h \in Handlers \ used /\ used' = used \cup {h} /\ heap' = heap \cup {h}
      /\ UNCHANGED <<opens, closes>>
  BY DEF Create
<1>4. sock'[h] = s /\ \A g \in heap : sock'[h] # sock[g]
  BY <1>1 DEF TypeOK
<1>5. \A g \in used : sock'[g] = sock[g] /\ addr'[g] = addr[g]
  BY <1>1, <1>2, <1>3 DEF TypeOK
<1>6. QED
  BY <1>3, <1>4, <1>5 DEF Life, TypeOK, Calls

LEMMA NextLife == IState /\ [Next]_vars => Life
<1> SUFFICES ASSUME IState, [Next]_vars PROVE Life
  OBVIOUS
<1>1. TypeOK /\ Calls /\ Located /\ heap \subseteq Handlers
  BY DEF IState, TypeOK
<1>2. ASSUME NEW w \in Workers, WorkThread(w) \/ Complete(w) PROVE Life
  <2>1. CASE Same
    BY <1>1, <2>1, SameLife DEF Same
  <2>2. ASSUME NEW S, Ends(w, S) PROVE Life
    <3>1. S \in SUBSET heap /\ \A h \in S : opens[h] + 0 <= 1
      BY <1>1, <2>2 DEF Ends, Located
    <3>2. QED
      BY <1>1, <2>2, <3>1, EndedLife DEF Ends
  <2>3. CASE TurnsAway(w)
    <3>1. /\ {Head(pendq[w])} \in SUBSET heap /\ opens[Head(pendq[w])] = 0
      BY <1>1, <2>3, HeadQueued DEF TurnsAway, Take
    <3>2. PICK o \in {0, 1}, c \in {0, 1} : o <= c /\ Counted({Head(pendq[w])}, o, c)
      BY <2>3 DEF TurnsAway
    <3>3. \A h \in {Head(pendq[w])} : opens[h] + o <= c
      BY <3>1, <3>2
    <3>4. QED
      BY <1>1, <2>3, <3>1, <3>2, <3>3, EndedLife DEF TurnsAway
  <2>4. CASE Opens(w)
    <3>1. Head(pendq[w]) \in heap /\ opens[Head(pendq[w])] = 0 /\ Head(pendq[w]) \in Handlers
      BY <1>1, <2>4, HeadQueued DEF Opens, Take
    <3>2. /\ \A h \in Handlers : /\ opens[h] \in Nat /\ closes[h] \in Nat
                                 /\ closes'[h] = closes[h]
                                 /\ opens'[h] = opens[h] + (IF h = Head(pendq[w]) THEN 1 ELSE 0)
          /\ UNCHANGED <<used, heap, sock, addr>>
      BY <1>1, <2>4 DEF Opens, Counted, TypeOK
    <3>3. \A h \in heap : closes[h] = 0 /\ opens[h] <= 1 /\ h \in used /\ h \in Handlers
      BY <1>1 DEF Calls, TypeOK
    <3>4. ASSUME NEW h \in Handlers \ heap PROVE opens'[h] = opens[h]
      BY <3>1, <3>2
    <3>5. ASSUME NEW h \in heap
          PROVE  opens'[h] >= opens[h] /\ opens'[h] \in Nat /\ opens'[h] <= 1
      <4>1. CASE h = Head(pendq[w])
        BY <3>1, <3>2, <3>3, <4>1
      <4>2. CASE h # Head(pendq[w])
        BY <3>2, <3>3, <4>2
      <4>3. QED
        BY <4>1, <4>2
    <3>6. QED
      BY <1>1, <3>2, <3>3, <3>4, <3>5 DEF Life, TypeOK
  <2>5. QED
    BY <1>2, <2>1, <2>2, <2>3, <2>4, WorkerEffect
<1>3. ASSUME NEW S, Drops(S) PROVE Life
  <2>1. PICK o \in {0, 1}, c \in {0, 1} : o <= c /\ Counted(S, o, c)
    BY <1>3 DEF Drops
  <2>2. S \in SUBSET heap /\ heap' = heap \ S /\ \A h \in S : opens[h] + o <= c
    BY <1>3, <2>1 DEF Drops
  <2>3. QED
    BY <1>1, <2>1, <2>2, EndedLife
<1>4. CASE FrontThread
  BY <1>1, <1>3, <1>4, FrontEffect, SameLife, MadeLife DEF FrontSame, Makes, Hands, Fetches
<1>5. CASE StopThread /\ UNCHANGED <<pendq, fresh, hds>>
  BY <1>1, <1>3, <1>5, StopEffect, SameLife
<1>6. CASE UNCHANGED vars
  BY <1>1, <1>6, SameLife DEF vars
<1>7. QED
  BY <1>2, <1>4, <1>5, <1>6 DEF Next
\* Over such a life the callbacks stay paired and the socket numbers apart, and what was
\* opened remains so.
LEMMA LifeKeeps ==
  ASSUME TypeOK, Ids, Calls, Life
  PROVE  /\ Ids' /\ Calls' /\ Opened \subseteq Opened'
         /\ \A h \in used : Predecessors(h) \subseteq Predecessors(h)'
<1>1. /\ heap \subseteq used /\ used \subseteq Handlers
      /\ \A h \in Handlers : opens[h] \in Nat /\ closes[h] \in Nat
  BY DEF TypeOK
<1>2. Ids'
  <2>1. ASSUME NEW g \in heap', NEW h \in heap', sock'[g] = sock'[h] PROVE g = h
    <3>1. CASE g \in heap /\ h \in heap
      BY <1>1, <2>1, <3>1 DEF Ids, Life
    <3>2. CASE g \notin heap \/ h \notin heap
      BY <1>1, <2>1, <3>2 DEF Life
    <3>3. QED
      BY <3>1, <3>2
  <2>2. QED
    BY <2>1 DEF Ids
<1>3. Calls'
  <2>1. \A h \in Handlers \ used' : opens'[h] = 0 /\ closes'[h] = 0
    BY <1>1 DEF Life, Calls
  <2>2. \A h \in heap' : closes'[h] = 0 /\ opens'[h] <= 1
    BY <1>1 DEF Life, Calls
  <2>3. \A h \in used' \ heap' : opens'[h] <= closes'[h] /\ closes'[h] <= 1
    BY <1>1 DEF Life, Calls
  <2>4. QED
    BY <2>1, <2>2, <2>3 DEF Calls
<1>4. ASSUME NEW h \in used, opens[h] = 1 PROVE h \in used' /\ opens'[h] = 1
  <2>1. CASE h \in heap
    BY <1>1, <1>4, <2>1 DEF Life
  <2>2. CASE h \notin heap
    BY <1>1, <1>4, <2>2 DEF Life
  <2>3. QED
    BY <2>1, <2>2
<1>5. Opened \subseteq Opened'
  BY <1>4 DEF Opened
<1>6. ASSUME NEW h \in used, NEW p \in Predecessors(h) PROVE p \in Predecessors(h)'
  <2>1. p \in used \ heap /\ p # h /\ sock[p] = sock[h] /\ opens[p] = 1
    BY DEF Predecessors
  <2>2. p \in used' /\ opens'[p] = 1 /\ sock'[p] = sock'[h] /\ p \notin heap'
    BY <1>4, <2>1 DEF Life
  <2>3. QED
    BY <2>1, <2>2 DEF Predecessors
<1>7. QED
  BY <1>2, <1>3, <1>5, <1>6

-----------------------------------------------------------------------------
(* Where the handlers are. *)

LEMMA QueueTaken ==
  ASSUME TypeOK, Loops, NEW w \in Workers, Take(w)
  PROVE  /\ Queued(w)' = Queued(w) \ {Head(pendq[w])}
         /\ \A v \in Workers \ {w} : Queued(v)' = Queued(v)
         /\ \A v \in Workers : NoDup(pendq[v])'
         /\ pendq' \in [Workers -> Seq(Handlers)]
         /\ \A v \in Workers : Len(pendq'[v]) <= PendSize
<1> DEFINE q == pendq[w]
<1>1. /\ q \in Seq(Handlers) /\ NoDup(q) /\ q # <<>> /\ pendq' = [pendq EXCEPT ![w] = Tail(q)]
      /\ Len(q) \in Nat /\ Len(q) <= PendSize
  BY LenProperties DEF TypeOK, Loops, Take
<1>2. /\ Tail(q) \in Seq(Handlers) /\ NoDup(Tail(q)) /\ Len(Tail(q)) = Len(q) - 1
      /\ ToSet(Tail(q)) = ToSet(q) \ {Head(q)}
  BY <1>1, TakeHead
<1>3. /\ pendq' \in [Workers -> Seq(Handlers)] /\ pendq'[w] = Tail(q)
      /\ \A v \in Workers \ {w} : pendq'[v] = pendq[v]
  BY <1>1, <1>2 DEF TypeOK
<1>4. \A v \in Workers : Len(pendq'[v]) <= PendSize
  BY <1>1, <1>2, <1>3, IocpAssumption DEF TypeOK
<1>5. \A v \in Workers : NoDup(pendq[v])'
  BY <1>2, <1>3 DEF Loops, NoDup
<1>6. QED
  BY <1>2, <1>3, <1>4, <1>5 DEF Queued

LEMMA QueuePut ==
  ASSUME TypeOK, Loops, NEW w \in Workers, NEW h \in Handlers, h \notin Queued(w), Put(w, h)
  PROVE  /\ Queued(w)' = Queued(w) \cup {h}
         /\ \A v \in Workers \ {w} : Queued(v)' = Queued(v)
         /\ \A v \in Workers : NoDup(pendq[v])'
         /\ pendq' \in [Workers -> Seq(Handlers)]
         /\ \A v \in Workers : Len(pendq'[v]) <= PendSize
<1> DEFINE q == pendq[w]
<1>1. /\ q \in Seq(Handlers) /\ NoDup(q) /\ pendq' = [pendq EXCEPT ![w] = Append(q, h)]
      /\ Len(q) \in Nat /\ Len(q) < PendSize /\ h \notin ToSet(q)
  BY LenProperties DEF TypeOK, Loops, Put, Queued
<1>2. /\ Append(q, h) \in Seq(Handlers) /\ NoDup(Append(q, h)) /\ Len(Append(q, h)) = Len(q) + 1
      /\ ToSet(Append(q, h)) = ToSet(q) \cup {h}
  BY <1>1, AddLast
<1>3. /\ pendq' \in [Workers -> Seq(Handlers)] /\ pendq'[w] = Append(q, h)
      /\ \A v \in Workers \ {w} : pendq'[v] = pendq[v]
  BY <1>1, <1>2 DEF TypeOK
<1>4. \A v \in Workers : Len(pendq'[v]) <= PendSize
  BY <1>1, <1>2, <1>3, IocpAssumption DEF TypeOK
<1>5. \A v \in Workers : NoDup(pendq[v])'
  BY <1>2, <1>3 DEF Loops, NoDup
<1>6. QED
  BY <1>2, <1>3, <1>4, <1>5 DEF Queued

\* The handlers of S disappear from where they are.
LEMMA Shrunk ==
  ASSUME TypeOK, Located, NEW S, heap' = heap \ S, \A h \in heap \ S : opens'[h] = opens[h],
         \A w \in Workers : Queued(w)' = Queued(w) \ S /\ handlers'[w] = handlers[w] \ S,
         pending' = pending \ S, hds' = hds \ S, fresh' = IF fresh \in S THEN None ELSE fresh
  PROVE  Located'
<1>1. fresh' = fresh \/ fresh' = None
  OBVIOUS
<1>2. /\ Unopened(pending)' /\ Unopened(hds)' /\ pending' \cap hds' = {}
      /\ fresh' # None => Unopened({fresh})' /\ fresh' \notin pending' \cup hds'
  BY DEF Located, Unopened
<1>3. ASSUME NEW w \in Workers
      PROVE  Unopened(Queued(w))' /\ Queued(w)' \cap (pending' \cup hds' \cup {fresh'}) = {}
  <2>1. Unopened(Queued(w)) /\ Queued(w) \cap (pending \cup hds \cup {fresh}) = {}
    BY DEF Located
  <2>2. None \notin Queued(w)
    BY <2>1, IocpAssumption DEF Unopened, TypeOK
  <2>3. QED
    BY <1>1, <2>1, <2>2 DEF Unopened
<1>4. \A v, w \in Workers : v # w => Queued(v)' \cap Queued(w)' = {}
  BY DEF Located
<1>5. \A w \in Workers : \A h \in handlers'[w] : h \in heap' /\ opens'[h] = 1
  BY DEF Located
<1>6. \A v, w \in Workers : v # w => handlers'[v] \cap handlers'[w] = {}
  BY DEF Located
<1>7. ASSUME NEW h \in heap'
      PROVE  \/ h \in pending' \cup hds' \cup {fresh'}
             \/ \E w \in Workers : h \in Queued(w)' \cup handlers'[w]
  BY DEF Located
<1>8. QED
  BY <1>2, <1>3, <1>4, <1>5, <1>6, <1>7 DEF Located

\* A worker opens the handler at the head of its queue.
LEMMA LocatedOpened ==
  ASSUME TypeOK, Located, Loops, NEW w \in Workers, Opens(w), UNCHANGED <<pending, hds, fresh>>
  PROVE  Located'
<1> DEFINE x == Head(pendq[w])
<1>1. /\ x \in Queued(w) /\ x \in heap /\ x \in Handlers /\ opens[x] = 0
  BY HeadQueued DEF Opens, Take
<1>2. Queued(w)' = Queued(w) \ {x} /\ \A v \in Workers \ {w} : Queued(v)' = Queued(v)
  BY QueueTaken DEF Opens
<1>3. /\ heap' = heap /\ \A h \in Handlers : opens'[h] = opens[h] + (IF h \in {x} THEN 1 ELSE 0)
      /\ handlers'[w] = handlers[w] \cup {x}
      /\ \A v \in Workers \ {w} : handlers'[v] = handlers[v]
  BY DEF Opens, Counted, TypeOK
<1>4. \A h \in heap : opens[h] \in Nat /\ h \in Handlers
  BY DEF TypeOK
<1> HIDE DEF x
<1>5. opens'[x] = 1 /\ \A h \in heap \ {x} : opens'[h] = opens[h]
  BY <1>1, <1>3, <1>4
<1>6. x \notin pending \cup hds \cup {fresh} /\ \A v \in Workers : x \notin handlers[v]
  BY <1>1 DEF Located
<1>7. \A v \in Workers \ {w} : x \notin Queued(v)
  BY <1>1 DEF Located
<1>8. \A v \in Workers : Queued(v)' = Queued(v) \ {x}
  BY <1>2, <1>7
<1>9. /\ Unopened(pending)' /\ Unopened(hds)' /\ pending' \cap hds' = {}
      /\ fresh' # None => Unopened({fresh})' /\ fresh' \notin pending' \cup hds'
  BY <1>3, <1>5, <1>6 DEF Located, Unopened
<1>10. /\ \A v \in Workers : Unopened(Queued(v))'
       /\ \A v \in Workers : Queued(v)' \cap (pending' \cup hds' \cup {fresh'}) = {}
       /\ \A u, v \in Workers : u # v => Queued(u)' \cap Queued(v)' = {}
  BY <1>3, <1>5, <1>8 DEF Located, Unopened
<1>11. \A v \in Workers : \A h \in handlers'[v] : h \in heap' /\ opens'[h] = 1
  BY <1>1, <1>3, <1>5, <1>6 DEF Located
<1>12. \A u, v \in Workers : u # v => handlers'[u] \cap handlers'[v] = {}
  BY <1>3, <1>6 DEF Located
<1>13. ASSUME NEW h \in heap'
       PROVE  \/ h \in pending' \cup hds' \cup {fresh'}
              \/ \E v \in Workers : h \in Queued(v)' \cup handlers'[v]
  <2>1. CASE h = x
    BY <1>3, <2>1
  <2>2. CASE h # x
    BY <1>3, <1>8, <2>2 DEF Located
  <2>3. QED
    BY <2>1, <2>2
<1>14. QED
  BY <1>9, <1>10, <1>11, <1>12, <1>13 DEF Located

LEMMA LocatedMade ==
  ASSUME TypeOK, Calls, Located, NEW h \in Handlers, Makes(h), UNCHANGED handlers
  PROVE  Located'
<1>1. /\ h \notin used /\ heap' = heap \cup {h} /\ UNCHANGED <<opens, pendq, hds>> /\ opens[h] = 0
      /\ heap \subseteq used /\ h # None
  BY IocpAssumption DEF Makes, Create, Calls, TypeOK
<1>2. \A w \in Workers : Queued(w)' = Queued(w)
  BY <1>1 DEF Queued
<1>3. /\ \A w \in Workers : Queued(w) \subseteq heap
      /\ pending \subseteq heap /\ hds \subseteq heap
  BY DEF Located, Unopened
<1>4. CASE fresh = None /\ fresh' = h /\ UNCHANGED pending
  <2>1. h \notin pending \cup hds /\ \A w \in Workers : h \notin Queued(w)
    BY <1>1, <1>3
  <2>2. /\ Unopened(pending)' /\ Unopened(hds)' /\ pending' \cap hds' = {}
        /\ fresh' # None => Unopened({fresh})' /\ fresh' \notin pending' \cup hds'
    BY <1>1, <1>4, <2>1 DEF Located, Unopened
  <2>3. \A w \in Workers :
          Unopened(Queued(w))' /\ Queued(w)' \cap (pending' \cup hds' \cup {fresh'}) = {}
    BY <1>1, <1>2, <1>4, <2>1 DEF Located, Unopened
  <2>4. /\ \A v, w \in Workers : v # w => Queued(v)' \cap Queued(w)' = {}
        /\ \A w \in Workers : \A g \in handlers'[w] : g \in heap' /\ opens'[g] = 1
        /\ \A v, w \in Workers : v # w => handlers'[v] \cap handlers'[w] = {}
    BY <1>1, <1>2 DEF Located
  <2>5. \A g \in heap' : \/ g \in pending' \cup hds' \cup {fresh'}
                          \/ \E w \in Workers : g \in Queued(w)' \cup handlers'[w]
    <3>1. None \notin heap
      BY <1>1, IocpAssumption DEF TypeOK
    <3>2. QED
      BY <1>1, <1>2, <1>4, <3>1 DEF Located
  <2>6. QED
    BY <2>2, <2>3, <2>4, <2>5 DEF Located
<1>5. CASE pending' = pending \cup {h} /\ UNCHANGED fresh
  BY <1>1, <1>2, <1>3, <1>5 DEF Located, Unopened
<1>6. QED
  BY <1>4, <1>5 DEF Makes

LEMMA LocatedHanded ==
  ASSUME TypeOK, Located, Loops, NEW w, NEW h, Hands(w, h), UNCHANGED handlers
  PROVE  /\ Located' /\ h \in Handlers /\ h \notin Queued(w)
<1>1. /\ w \in Workers /\ Put(w, h) /\ UNCHANGED <<heap, opens, pending, handlers>>
      /\ \/ fresh # None /\ h = fresh /\ fresh' = None /\ UNCHANGED hds
         \/ h \in hds /\ hds' = hds \ {h} /\ UNCHANGED fresh
  BY DEF Hands, objects
<1>2. /\ h \in heap /\ h \in Handlers /\ opens[h] = 0
      /\ h \notin pending /\ \A v \in Workers : h \notin Queued(v)
  BY <1>1 DEF Located, Unopened, TypeOK
<1>3. Queued(w)' = Queued(w) \cup {h} /\ \A v \in Workers \ {w} : Queued(v)' = Queued(v)
  BY <1>1, <1>2, QueuePut
<1>4. h \notin hds' \cup {fresh'} /\ None \notin Handlers
  BY <1>1, <1>2, IocpAssumption DEF Located
<1>5. fresh' \in {fresh, None} /\ hds' \subseteq hds
  BY <1>1
<1>6. /\ Unopened(pending)' /\ Unopened(hds)' /\ pending' \cap hds' = {}
      /\ fresh' # None => Unopened({fresh})' /\ fresh' \notin pending' \cup hds'
  BY <1>1, <1>5 DEF Located, Unopened
<1>7. ASSUME NEW v \in Workers
      PROVE  Unopened(Queued(v))' /\ Queued(v)' \cap (pending' \cup hds' \cup {fresh'}) = {}
  <2>1. None \notin Queued(v)
    BY <1>4 DEF Located, Unopened, TypeOK
  <2>2. Unopened(Queued(v))'
    BY <1>1, <1>2, <1>3 DEF Located, Unopened
  <2>3. QED
    BY <1>1, <1>2, <1>3, <1>4, <1>5, <2>1, <2>2 DEF Located
<1>8. \A u, v \in Workers : u # v => Queued(u)' \cap Queued(v)' = {}
  BY <1>2, <1>3 DEF Located
<1>9. /\ \A v \in Workers : \A g \in handlers'[v] : g \in heap' /\ opens'[g] = 1
      /\ \A u, v \in Workers : u # v => handlers'[u] \cap handlers'[v] = {}
  BY <1>1 DEF Located
<1>10. ASSUME NEW g \in heap'
       PROVE  \/ g \in pending' \cup hds' \cup {fresh'}
              \/ \E v \in Workers : g \in Queued(v)' \cup handlers'[v]
  <2>1. CASE g = h
    BY <1>1, <1>3, <2>1
  <2>2. CASE g # h
    BY <1>1, <1>3, <2>2 DEF Located
  <2>3. QED
    BY <2>1, <2>2
<1>11. Located'
  BY <1>6, <1>7, <1>8, <1>9, <1>10 DEF Located
<1>12. QED
  BY <1>1, <1>2, <1>11

LEMMA LocatedFetched ==
  ASSUME TypeOK, Located, Fetches, UNCHANGED handlers
  PROVE  Located'
<1>1. UNCHANGED <<heap, opens, pendq, fresh, handlers>> /\ hds' = hds \cup pending /\ pending' = {}
  BY DEF Fetches, objects
<1>2. \A w \in Workers : Queued(w)' = Queued(w)
  BY <1>1 DEF Queued
<1>3. pending' \cup hds' = pending \cup hds
  BY <1>1
<1>4. /\ Unopened(pending)' /\ Unopened(hds)' /\ pending' \cap hds' = {}
      /\ fresh' # None => Unopened({fresh})' /\ fresh' \notin pending' \cup hds'
  BY <1>1, <1>3 DEF Located, Unopened
<1>5. \A w \in Workers :
        Unopened(Queued(w))' /\ Queued(w)' \cap (pending' \cup hds' \cup {fresh'}) = {}
  BY <1>1, <1>2, <1>3 DEF Located, Unopened
<1>6. \A h \in heap' : \/ h \in pending' \cup hds' \cup {fresh'}
                        \/ \E w \in Workers : h \in Queued(w)' \cup handlers'[w]
  BY <1>1, <1>2, <1>3 DEF Located
<1>7. /\ \A v, w \in Workers : v # w => Queued(v)' \cap Queued(w)' = {}
      /\ \A w \in Workers : \A h \in handlers'[w] : h \in heap' /\ opens'[h] = 1
      /\ \A v, w \in Workers : v # w => handlers'[v] \cap handlers'[w] = {}
  BY <1>1, <1>2 DEF Located
<1>8. QED
  BY <1>4, <1>5, <1>6, <1>7 DEF Located

\* The kinds of step.
WorkerStep(w) == (WorkThread(w) \/ Complete(w)) /\ UNCHANGED <<frontVars, control>>
FrontStep == FrontThread /\ UNCHANGED <<completions, worker, control>>
StopStep ==
  StopThread /\ UNCHANGED <<pendq, completions, worker, front, fPc, fresh, hds, look, hdCounter>>

LEMMA SameLocated ==
  ASSUME Located, UNCHANGED <<heap, opens, pendq, handlers, pending, hds, fresh>>
  PROVE  Located'
  BY DEF Located, Unopened, Queued

\* Handlers that the front end has, or the opened ones of a worker, disappear.
LEMMA LocatedDropped ==
  ASSUME IState, NEW S, Drops(S), UNCHANGED handlers
  PROVE  Located'
<1>1. TypeOK /\ Located /\ None \notin heap
  BY IocpAssumption DEF IState, TypeOK
<1>2. /\ S \subseteq heap /\ heap' = heap \ S /\ UNCHANGED <<pendq, handlers>>
      /\ S \subseteq pending \cup hds \cup {fresh} /\ \A h \in S : opens[h] = 0
      /\ pending' = pending \ S /\ hds' = hds \ S /\ fresh' = IF fresh \in S THEN None ELSE fresh
  BY DEF Drops
<1>3. \A h \in heap \ S : opens'[h] = opens[h]
  BY <1>1 DEF Drops, Counted, TypeOK
<1>4. ASSUME NEW w \in Workers PROVE Queued(w)' = Queued(w) \ S /\ handlers'[w] = handlers[w] \ S
  <2>1. Queued(w)' = Queued(w)
    BY <1>2 DEF Queued
  <2>2. Queued(w) \cap S = {} /\ handlers[w] \cap S = {}
    BY <1>1, <1>2 DEF Located
  <2>3. QED
    BY <1>2, <2>1, <2>2
<1>5. QED
  BY <1>1, <1>2, <1>3, <1>4, Shrunk

LEMMA LocatedEnded ==
  ASSUME IState, NEW w \in Workers, NEW S, Ends(w, S), UNCHANGED <<pending, hds, fresh>>
  PROVE  Located'
<1>1. TypeOK /\ Located /\ None \notin heap
  BY IocpAssumption DEF IState, TypeOK
<1>2. /\ S \subseteq handlers[w] /\ heap' = heap \ S /\ UNCHANGED pendq
      /\ handlers' = [handlers EXCEPT ![w] = @ \ S]
  BY DEF Ends
<1>3. \A h \in heap \ S : opens'[h] = opens[h]
  BY <1>1 DEF Ends, Counted, TypeOK
<1>4. S \subseteq heap /\ \A h \in S : opens[h] = 1
  BY <1>1, <1>2 DEF Located
<1>5. ASSUME NEW v \in Workers PROVE Queued(v)' = Queued(v) \ S /\ handlers'[v] = handlers[v] \ S
  <2>1. Queued(v)' = Queued(v)
    BY <1>2 DEF Queued
  <2>2. Queued(v) \cap S = {}
    BY <1>1, <1>4 DEF Located, Unopened
  <2>3. v # w => handlers[v] \cap S = {}
    BY <1>1, <1>2 DEF Located
  <2>4. handlers'[v] = handlers[v] \ S
    BY <1>1, <1>2, <2>3 DEF TypeOK
  <2>5. QED
    BY <2>1, <2>2, <2>4
<1>6. /\ pending \cap S = {} /\ hds \cap S = {} /\ fresh \notin S
  BY <1>1, <1>4 DEF Located, Unopened
<1>7. QED
  BY <1>1, <1>2, <1>3, <1>5, <1>6, Shrunk

LEMMA LocatedTurned ==
  ASSUME IState, NEW w \in Workers, TurnsAway(w), UNCHANGED <<pending, hds, fresh>>
  PROVE  Located'
<1> DEFINE x == Head(pendq[w])
<1>1. TypeOK /\ Located /\ Loops
  BY DEF IState
<1>2. x \in Queued(w) /\ x \in heap /\ opens[x] = 0
  BY <1>1, HeadQueued DEF TurnsAway, Take
<1>3. Take(w) /\ heap' = heap \ {x} /\ UNCHANGED handlers
  BY DEF TurnsAway
<1>4. Queued(w)' = Queued(w) \ {x} /\ \A v \in Workers \ {w} : Queued(v)' = Queued(v)
  BY <1>1, <1>3, QueueTaken
<1>5. \A h \in heap \ {x} : opens'[h] = opens[h]
  BY <1>1 DEF TurnsAway, Counted, TypeOK
<1> HIDE DEF x
<1>6. /\ x \notin pending /\ x \notin hds /\ x # fresh
      /\ \A v \in Workers : x \notin handlers[v]
  BY <1>1, <1>2 DEF Located
<1>7. \A v \in Workers \ {w} : x \notin Queued(v)
  BY <1>1, <1>2 DEF Located
<1>8. \A v \in Workers : Queued(v)' = Queued(v) \ {x} /\ handlers'[v] = handlers[v] \ {x}
  BY <1>3, <1>4, <1>6, <1>7
<1>9. /\ pending' = pending \ {x} /\ hds' = hds \ {x}
      /\ fresh' = IF fresh \in {x} THEN None ELSE fresh
  BY <1>6
<1>10. QED
  BY <1>1, <1>3, <1>5, <1>8, <1>9, Shrunk

LEMMA NextLocated == IState /\ [Next]_vars => Located'
<1> SUFFICES ASSUME IState, [Next]_vars PROVE Located'
  OBVIOUS
<1>1. TypeOK /\ Calls /\ Located /\ Loops
  BY DEF IState
<1>2. ASSUME NEW w \in Workers, WorkerStep(w) PROVE Located'
  <2>1. WorkThread(w) \/ Complete(w)
    BY <1>2 DEF WorkerStep
  <2>2. UNCHANGED <<pending, hds, fresh>>
    BY <1>2 DEF WorkerStep, frontVars
  <2>3. CASE Same
    BY <1>1, <2>2, <2>3, SameLocated DEF Same, objects
  <2>4. ASSUME NEW S, Ends(w, S) PROVE Located'
    BY <2>2, <2>4, LocatedEnded
  <2>5. CASE TurnsAway(w)
    BY <2>2, <2>5, LocatedTurned
  <2>6. CASE Opens(w)
    BY <1>1, <2>2, <2>6, LocatedOpened
  <2>7. QED
    BY <2>1, <2>3, <2>4, <2>5, <2>6, WorkerEffect
<1>3. CASE FrontStep
  <2>1. FrontThread /\ UNCHANGED handlers
    BY <1>3 DEF FrontStep, worker
  <2>2. CASE FrontSame
    BY <1>1, <2>1, <2>2, SameLocated DEF FrontSame, objects
  <2>3. QED
    BY <1>1, <2>1, <2>2, FrontEffect, LocatedMade, LocatedHanded, LocatedDropped, LocatedFetched
<1>4. CASE StopStep
  <2>1. StopThread /\ UNCHANGED <<pendq, fresh, hds, handlers>>
    BY <1>4 DEF StopStep, worker
  <2>2. CASE FrontSame
    BY <1>1, <2>1, <2>2, SameLocated DEF FrontSame, objects
  <2>3. QED
    BY <2>1, <2>2, StopEffect, LocatedDropped
<1>5. CASE UNCHANGED vars
  BY <1>1, <1>5, SameLocated DEF vars, objects, worker, frontVars
<1>6. QED
  BY <1>2, <1>3, <1>4, <1>5 DEF Next, WorkerStep, FrontStep, StopStep

-----------------------------------------------------------------------------
(* The program counters of the threads. *)

LEMMA WorkerMaps ==
  ASSUME IState, NEW w \in Workers, WorkThread(w) \/ Complete(w)
  PROVE  /\ handlers' \in [Workers -> SUBSET Handlers]
         /\ pendq' \in [Workers -> Seq(Handlers)]
         /\ opens' \in [Handlers -> Nat] /\ closes' \in [Handlers -> Nat]
         /\ sock' = sock /\ addr' = addr /\ used' = used
         /\ \A v \in Workers : NoDup(pendq[v])' /\ Len(pendq'[v]) <= PendSize
         /\ \A v \in Workers \ {w} : handlers'[v] = handlers[v] /\ pendq'[v] = pendq[v]
<1>1. TypeOK /\ Located /\ Loops
  BY DEF IState
<1>2. CASE Same
  BY <1>1, <1>2 DEF Same, objects, TypeOK, Loops
<1>3. ASSUME NEW S, Ends(w, S)
      PROVE  /\ handlers' \in [Workers -> SUBSET Handlers] /\ pendq' = pendq
             /\ \A v \in Workers \ {w} : handlers'[v] = handlers[v]
             /\ opens' \in [Handlers -> Nat] /\ closes' \in [Handlers -> Nat]
             /\ sock' = sock /\ addr' = addr /\ used' = used
  BY <1>1, <1>3 DEF Ends, Counted, TypeOK
<1>4. ASSUME Take(w)
      PROVE  /\ \A v \in Workers \ {w} : pendq'[v] = pendq[v]
             /\ \A v \in Workers : NoDup(pendq[v])' /\ Len(pendq'[v]) <= PendSize
             /\ pendq' \in [Workers -> Seq(Handlers)] /\ Head(pendq[w]) \in Handlers
  <2>1. \A v \in Workers \ {w} : pendq'[v] = pendq[v]
    BY <1>1, <1>4 DEF Take, TypeOK
  <2>2. QED
    BY <1>1, <1>4, <2>1, QueueTaken, HeadQueued DEF Take
<1>5. CASE TurnsAway(w)
  BY <1>1, <1>4, <1>5 DEF TurnsAway, Counted, TypeOK
<1>6. CASE Opens(w)
  <2>1. /\ Head(pendq[w]) \in Handlers /\ handlers \in [Workers -> SUBSET Handlers]
        /\ handlers' = [handlers EXCEPT ![w] = @ \cup {Head(pendq[w])}]
    BY <1>1, <1>4, <1>6 DEF Opens, TypeOK
  <2>2. /\ handlers' \in [Workers -> SUBSET Handlers]
        /\ \A v \in Workers \ {w} : handlers'[v] = handlers[v]
    BY <2>1
  <2>3. QED
    BY <1>4, <1>6, <2>2 DEF Opens, Counted
<1>7. ASSUME NEW S, Ends(w, S)
      PROVE  \A v \in Workers : NoDup(pendq[v])' /\ Len(pendq'[v]) <= PendSize
  BY <1>1, <1>3, <1>7 DEF Loops, NoDup, TypeOK
<1>8. ASSUME NEW S, Ends(w, S) PROVE pendq' \in [Workers -> Seq(Handlers)]
  BY <1>1, <1>3, <1>8 DEF TypeOK
<1>9. ASSUME NEW S, Ends(w, S)
      PROVE  \A v \in Workers \ {w} : handlers'[v] = handlers[v] /\ pendq'[v] = pendq[v]
  BY <1>3, <1>9
<1>10. Same \/ (\E S : Ends(w, S)) \/ TurnsAway(w) \/ Opens(w)
  BY WorkerEffect
<1>11. CASE \E S : Ends(w, S)
  BY <1>3, <1>7, <1>8, <1>9, <1>11
<1>12. QED
  BY <1>2, <1>5, <1>6, <1>10, <1>11

\* Where a worker's step leads it, and what holds there.
Goes(w, label) ==
  /\ label \in {"check", "accept", "get", "run", "free", "drain", "exited"}
  /\ wPc' = [wPc EXCEPT ![w] = label]
  /\ todo' = [todo EXCEPT ![w] = todo'[w]] /\ todo'[w] \subseteq todo[w] \cup handlers'[w]
  /\ counter' = [counter EXCEPT ![w] = counter'[w]] /\ counter'[w] \in 0 .. MaxEvents
  /\ label = "run" => todo'[w] \subseteq handlers'[w]
  /\ label \in {"accept", "get"} => counter'[w] < MaxEvents
  /\ label \in {"free", "drain", "exited"} => wStop[w]
  /\ label \in {"drain", "exited"} => handlers'[w] = {}
  /\ label = "exited" => pendq'[w] = <<>>
  /\ wPc[w] # "exited"

LEMMA WorkerGoes ==
  ASSUME IState, NEW w \in Workers, WorkThread(w) \/ Complete(w)
  PROVE  \E label : Goes(w, label)
<1>1. /\ TypeOK /\ Loops /\ Ending /\ 0 \in 0 .. MaxEvents
      /\ wPc \in [Workers -> {"check", "accept", "get", "run", "free", "drain", "exited"}]
      /\ counter \in [Workers -> 0 .. MaxEvents] /\ MaxEvents \in Nat \ {0}
      /\ todo \in [Workers -> SUBSET Handlers] /\ handlers \in [Workers -> SUBSET Handlers]
  BY IocpAssumption DEF IState, TypeOK
<1>2. /\ wPc[w] = "run" => todo[w] \subseteq handlers[w]
      /\ wPc[w] \in {"accept", "get"} => counter[w] < MaxEvents
      /\ wPc[w] \in {"free", "drain", "exited"} => wStop[w]
      /\ wPc[w] \in {"drain", "exited"} => handlers[w] = {}
      /\ wPc[w] = "exited" => pendq[w] = <<>>
  BY <1>1 DEF Loops, Ending
<1>3. CASE Check(w)
  <2>1. Goes(w, IF wStop[w] THEN "free" ELSE "accept")
    BY <1>1, <1>3 DEF Check, Goto, Goes
  <2>2. QED
    BY <2>1
<1>4. CASE AcceptRefused(w) \/ AcceptOpened(w)
  <2>1. Goes(w, "accept")
    BY <1>1, <1>2, <1>4 DEF AcceptRefused, AcceptOpened, worker, Goes
  <2>2. QED
    BY <2>1
<1>5. CASE AcceptDone(w)
  <2>1. Goes(w, "get")
    BY <1>1, <1>2, <1>5 DEF AcceptDone, Goto, Goes
  <2>2. QED
    BY <2>1
<1>6. CASE Complete(w)
  <2>1. Goes(w, wPc[w])
    BY <1>1, <1>2, <1>6 DEF Complete, worker, Goes
  <2>2. QED
    BY <2>1
<1>7. ASSUME Taken(w), NEW h, h \in Completed(w, "data") \cup Completed(w, "eof") \cup Completed(w, "failed")
      PROVE  Goes(w, IF counter[w] + 1 < MaxEvents THEN "accept" ELSE "run")
  <2>1. wPc[w] = "get"
    BY <1>7 DEF Completed
  <2>2. QED
    BY <1>1, <1>2, <1>7, <2>1 DEF Taken, Goto, Goes
<1>8. CASE TakeData(w) \/ TakeEof(w) \/ TakeFailed(w)
  <2>1. PICK h : Taken(w) /\ h \in Completed(w, "data") \cup Completed(w, "eof") \cup Completed(w, "failed")
    BY <1>8, Zenon DEF TakeData, TakeEof, TakeFailed
  <2>2. QED
    BY <1>7, <2>1
<1>9. CASE TakeNothing(w)
  <2>1. Goes(w, "run")
    BY <1>1, <1>9 DEF TakeNothing, Goto, Goes
  <2>2. QED
    BY <2>1
<1>10. CASE RunHandled(w) \/ RunFailed(w)
  <2>1. PICK h \in todo[w] : todo' = [todo EXCEPT ![w] = @ \ {h}]
    BY <1>10 DEF RunHandled, RunFailed
  <2>2. handlers'[w] \in {handlers[w], handlers[w] \ {h}}
    <3>1. CASE RunHandled(w)
      BY <3>1 DEF RunHandled
    <3>2. CASE RunFailed(w)
      <4>1. PICK g \in todo[w] : RemoveAll(w, {g}) /\ todo' = [todo EXCEPT ![w] = @ \ {g}]
        BY <3>2 DEF RunFailed
      <4>2. todo'[w] = todo[w] \ {g} /\ todo'[w] = todo[w] \ {h}
        BY <1>1, <2>1, <4>1
      <4>3. g = h
        BY <4>1, <4>2
      <4>4. QED
        BY <1>1, <4>1, <4>3 DEF RemoveAll
    <3>3. QED
      BY <1>10, <3>1, <3>2
  <2>3. todo'[w] = todo[w] \ {h} /\ todo' = [todo EXCEPT ![w] = todo'[w]]
    BY <1>1, <2>1
  <2>4. wPc[w] = "run" /\ UNCHANGED <<wPc, counter>>
    BY <1>10 DEF RunHandled, RunFailed
  <2>5. Goes(w, "run")
    BY <1>1, <1>2, <2>2, <2>3, <2>4 DEF Goes
  <2>6. QED
    BY <2>5
<1>11. CASE RunDone(w)
  <2>1. Goes(w, "check")
    BY <1>1, <1>11 DEF RunDone, Goto, Goes
  <2>2. QED
    BY <2>1
<1>12. CASE FreeHandlers(w)
  <2>1. Goes(w, "drain")
    BY <1>1, <1>2, <1>12 DEF FreeHandlers, RemoveAll, Goto, Goes
  <2>2. QED
    BY <2>1
<1>13. CASE DrainPending(w)
  <2>1. Goes(w, "drain")
    BY <1>1, <1>2, <1>13 DEF DrainPending, RemoveAll, Goto, Goes
  <2>2. QED
    BY <2>1
<1>14. CASE DrainDone(w)
  <2>1. Goes(w, "exited")
    BY <1>1, <1>2, <1>14 DEF DrainDone, NothingLeft, Goto, Goes
  <2>2. QED
    BY <2>1
<1>15. QED
  BY <1>3, <1>4, <1>5, <1>6, <1>8, <1>9, <1>10, <1>11, <1>12, <1>13, <1>14 DEF WorkThread

-----------------------------------------------------------------------------
(* Operations and what their completions reach. *)

\* The first completion of a port belongs to a handler that has been opened.
LEMMA FirstCompletion ==
  ASSUME IState, NEW w \in Workers, NEW result \in {"data", "eof", "failed"},
         NEW g \in Completed(w, result)
  PROVE  /\ g \in Opened /\ Tail(port[w]) \in Seq(Handlers \X {"data", "eof", "failed"})
         /\ \A i \in 1 .. Len(Tail(port[w])) : Tail(port[w])[i][1] \in Opened
<1> DEFINE p == port[w]
<1>1. /\ p \in Seq(Handlers \X {"data", "eof", "failed"}) /\ p # <<>> /\ Head(p) = <<g, result>>
      /\ \A i \in 1 .. Len(p) : p[i][1] \in Opened
  BY DEF IState, TypeOK, Operations, Completed
<1> HIDE DEF p
<1>2. Len(p) \in Nat \ {0} /\ Head(p) = p[1]
  BY <1>1, EmptySeq, LenProperties, HeadTailProperties
<1>3. g \in Opened
  <2>1. 1 \in 1 .. Len(p)
    BY <1>2
  <2>2. p[1][1] = g
    BY <1>1, <1>2
  <2>3. QED
    BY <1>1, <2>1, <2>2
<1>4. /\ Tail(p) \in Seq(Handlers \X {"data", "eof", "failed"}) /\ Len(Tail(p)) = Len(p) - 1
      /\ \A i \in 1 .. Len(Tail(p)) : Tail(p)[i] = p[i + 1]
  BY <1>1, HeadTailProperties
<1>5. ASSUME NEW i \in 1 .. Len(Tail(p)) PROVE Tail(p)[i][1] \in Opened
  <2>1. i + 1 \in 1 .. Len(p)
    BY <1>2, <1>4
  <2>2. QED
    BY <1>1, <1>4, <2>1
<1>6. QED
  BY <1>3, <1>4, <1>5 DEF p

\* New operations are those of opened handlers.
Starts(w, S) == S \subseteq Opened' /\ posted' = [posted EXCEPT ![w] = @ \cup S]

\* The first completion is taken off the port.
Consumes(w) ==
  /\ port' = [port EXCEPT ![w] = Tail(@)]
  /\ \E result \in {"data", "eof", "failed"} : \E g : g \in Completed(w, result)

\* What a worker's step does to its completion port.
LEMMA WorkerPort ==
  ASSUME IState, NEW w \in Workers, WorkThread(w) \/ Complete(w), Opened \subseteq Opened'
  PROVE  \/ \E S : Starts(w, S) /\ (port' = port \/ Consumes(w))
         \/ Complete(w)
<1>1. /\ TypeOK /\ Located /\ Loops /\ posted \in [Workers -> SUBSET Handlers]
      /\ port \in [Workers -> Seq(Handlers \X {"data", "eof", "failed"})]
  BY DEF IState, TypeOK
<1>2. handlers[w] \subseteq Opened'
  BY <1>1 DEF Located, TypeOK, Opened
<1>3. ASSUME UNCHANGED posted PROVE Starts(w, {})
  BY <1>1, <1>3 DEF Starts
<1>4. CASE \/ Check(w) \/ AcceptRefused(w) \/ AcceptDone(w) \/ TakeNothing(w)
           \/ RunDone(w) \/ FreeHandlers(w) \/ DrainPending(w) \/ DrainDone(w)
  <2>1. UNCHANGED <<posted, port>>
    BY <1>4 DEF Check, AcceptRefused, AcceptDone, TakeNothing, RunDone, FreeHandlers,
                DrainPending, DrainDone, completions
  <2>2. QED
    BY <1>3, <2>1
<1>5. CASE AcceptOpened(w)
  <2> DEFINE x == Head(pendq[w])
  <2>1. x \in Handlers /\ x \in heap /\ opens[x] = 0
    BY <1>1, <1>5, HeadQueued DEF AcceptOpened, Take
  <2>2. PICK S \in SUBSET {x} : posted' = [posted EXCEPT ![w] = @ \cup S]
    BY <1>5 DEF AcceptOpened
  <2>3. x \in Opened'
    <3>1. opens' = [opens EXCEPT ![x] = @ + 1] /\ used' = used
      BY <1>5 DEF AcceptOpened
    <3>2. QED
      BY <1>1, <2>1, <3>1 DEF TypeOK, Opened
  <2>4. Starts(w, S) /\ port' = port
    BY <1>5, <2>2, <2>3 DEF Starts, AcceptOpened
  <2>5. QED
    BY <2>4
<1>6. CASE TakeData(w)
  <2>1. PICK h : \E failed, next \in SUBSET Addressed(w, h) :
                    posted' = [posted EXCEPT ![w] = @ \cup next]
    BY <1>6, Zenon DEF TakeData
  <2>2. PICK next \in SUBSET Addressed(w, h) : posted' = [posted EXCEPT ![w] = @ \cup next]
    BY <2>1
  <2>3. Consumes(w)
    BY <1>6, Zenon DEF TakeData, Taken, Consumes
  <2>4. Starts(w, next)
    BY <1>2, <2>2 DEF Starts, Addressed, Found
  <2>5. QED
    BY <2>3, <2>4
<1>7. CASE TakeEof(w) \/ TakeFailed(w)
  <2>1. UNCHANGED posted /\ Consumes(w)
    BY <1>7, Zenon DEF TakeEof, TakeFailed, Taken, Consumes
  <2>2. QED
    BY <1>3, <2>1
<1>8. CASE RunHandled(w) \/ RunFailed(w)
  <2>1. PICK h \in todo[w] : \E S \in SUBSET {h} : posted' = [posted EXCEPT ![w] = @ \cup S]
    BY <1>8 DEF RunHandled, RunFailed, MayStart
  <2>2. PICK S \in SUBSET {h} : posted' = [posted EXCEPT ![w] = @ \cup S]
    BY <2>1
  <2>3. h \in Opened'
    BY <1>1, <1>2, <1>8 DEF RunHandled, RunFailed, Loops
  <2>4. Starts(w, S) /\ port' = port
    BY <1>8, <2>2, <2>3 DEF Starts, RunHandled, RunFailed
  <2>5. QED
    BY <2>4
<1>9. QED
  BY <1>4, <1>5, <1>6, <1>7, <1>8 DEF WorkThread

LEMMA WorkerOperations ==
  ASSUME IState, NEW w \in Workers, WorkThread(w) \/ Complete(w), Opened \subseteq Opened',
         Opened' \subseteq Handlers
  PROVE  /\ Operations' /\ posted' \in [Workers -> SUBSET Handlers]
         /\ port' \in [Workers -> Seq(Handlers \X {"data", "eof", "failed"})]
<1>1. /\ TypeOK /\ Operations /\ posted \in [Workers -> SUBSET Handlers]
      /\ port \in [Workers -> Seq(Handlers \X {"data", "eof", "failed"})]
  BY DEF IState, TypeOK
<1>2. \A v \in Workers : /\ posted[v] \subseteq Opened'
                         /\ \A i \in 1 .. Len(port[v]) : port[v][i][1] \in Opened'
  BY <1>1 DEF Operations
<1>3. ASSUME NEW S, Starts(w, S)
      PROVE  posted' \in [Workers -> SUBSET Handlers] /\ \A v \in Workers : posted'[v] \subseteq Opened'
  BY <1>1, <1>2, <1>3 DEF Starts
<1>4. ASSUME Consumes(w)
      PROVE  /\ port' \in [Workers -> Seq(Handlers \X {"data", "eof", "failed"})]
             /\ \A v \in Workers : \A i \in 1 .. Len(port'[v]) : port'[v][i][1] \in Opened'
  <2>1. PICK result \in {"data", "eof", "failed"} : \E g : g \in Completed(w, result)
    BY <1>4 DEF Consumes
  <2>2. /\ Tail(port[w]) \in Seq(Handlers \X {"data", "eof", "failed"})
        /\ \A i \in 1 .. Len(Tail(port[w])) : Tail(port[w])[i][1] \in Opened
    BY <2>1, FirstCompletion
  <2>3. /\ port' \in [Workers -> Seq(Handlers \X {"data", "eof", "failed"})]
        /\ port'[w] = Tail(port[w]) /\ \A v \in Workers \ {w} : port'[v] = port[v]
    BY <1>1, <1>4, <2>2 DEF Consumes
  <2>4. ASSUME NEW v \in Workers PROVE \A i \in 1 .. Len(port'[v]) : port'[v][i][1] \in Opened'
    BY <1>2, <2>2, <2>3
  <2>5. QED
    BY <2>3, <2>4
<1>5. CASE Complete(w)
  <2>1. PICK h \in posted[w], result \in {"data", "eof", "failed"} :
          /\ posted' = [posted EXCEPT ![w] = @ \ {h}]
          /\ port' = [port EXCEPT ![w] = Append(@, <<h, result>>)]
    BY <1>5 DEF Complete
  <2> DEFINE p == port[w]
             c == <<h, result>>
  <2>2. p \in Seq(Handlers \X {"data", "eof", "failed"}) /\ c \in Handlers \X {"data", "eof", "failed"}
    BY <1>1
  <2>3. /\ Append(p, c) \in Seq(Handlers \X {"data", "eof", "failed"}) /\ Len(p) \in Nat
        /\ Len(Append(p, c)) = Len(p) + 1 /\ Append(p, c)[Len(p) + 1] = c
        /\ \A i \in 1 .. Len(p) : Append(p, c)[i] = p[i]
    BY <2>2, AppendProperties, LenProperties
  <2>4. h \in Opened' /\ c[1] = h
    BY <1>2
  <2>5. /\ port' \in [Workers -> Seq(Handlers \X {"data", "eof", "failed"})]
        /\ port'[w] = Append(p, c) /\ \A v \in Workers \ {w} : port'[v] = port[v]
    BY <1>1, <2>1, <2>3
  <2> HIDE DEF c
  <2>6. ASSUME NEW i \in 1 .. Len(Append(p, c)) PROVE Append(p, c)[i][1] \in Opened'
    <3>1. CASE i \in 1 .. Len(p)
      BY <1>2, <2>3, <3>1
    <3>2. CASE i = Len(p) + 1
      BY <2>3, <2>4, <3>2
    <3>3. QED
      BY <2>3, <2>6, <3>1, <3>2
  <2>7. ASSUME NEW v \in Workers PROVE \A i \in 1 .. Len(port'[v]) : port'[v][i][1] \in Opened'
    BY <1>2, <2>5, <2>6
  <2>8. posted' \in [Workers -> SUBSET Handlers] /\ \A v \in Workers : posted'[v] \subseteq Opened'
    BY <1>1, <1>2, <2>1
  <2>9. QED
    BY <2>5, <2>7, <2>8 DEF Operations
<1>6. CASE \E S : Starts(w, S) /\ (port' = port \/ Consumes(w))
  <2>1. PICK S : Starts(w, S) /\ (port' = port \/ Consumes(w))
    BY <1>6
  <2>2. /\ port' \in [Workers -> Seq(Handlers \X {"data", "eof", "failed"})]
        /\ \A v \in Workers : \A i \in 1 .. Len(port'[v]) : port'[v][i][1] \in Opened'
    BY <1>1, <1>2, <1>4, <2>1
  <2>3. posted' \in [Workers -> SUBSET Handlers] /\ \A v \in Workers : posted'[v] \subseteq Opened'
    BY <1>3, <2>1
  <2>4. QED
    BY <2>2, <2>3 DEF Operations
<1>7. QED
  BY <1>5, <1>6, WorkerPort

\* A completion that reaches another handler, under the number and perhaps the address of its
\* own, comes from a predecessor.
LEMMA WorkerMixes ==
  ASSUME IState, NEW w \in Workers, WorkThread(w) \/ Complete(w), UNCHANGED <<used, sock, addr>>,
         \A h \in used : Predecessors(h) \subseteq Predecessors(h)'
  PROVE  Matched' /\ mixed' \in [Handlers -> SUBSET {"data", "end"}]
<1>1. /\ TypeOK /\ Located /\ Ids /\ Matched /\ mixed \in [Handlers -> SUBSET {"data", "end"}]
      /\ heap \subseteq used /\ used \subseteq Handlers
  BY DEF IState, TypeOK
<1>2. ASSUME NEW h \in used
      PROVE  /\ mixed[h] # {} => Predecessors(h)' # {}
             /\ "data" \in mixed[h] => \E p \in Predecessors(h)' : addr'[p] = addr'[h]
  BY <1>1 DEF Matched, CompletionsMatched
<1>3. CASE UNCHANGED mixed
  BY <1>1, <1>2, <1>3 DEF Matched, CompletionsMatched
<1>4. ASSUME NEW what \in {"data", "end"}, NEW g \in Opened, NEW S \in SUBSET Found(w, g),
             Note(g, S, what), what = "data" => \A e \in S : addr[e] = addr[g]
      PROVE  Matched' /\ mixed' \in [Handlers -> SUBSET {"data", "end"}]
  <2>1. mixed' = [e \in Handlers |-> IF e \in S \ {g} THEN mixed[e] \cup {what} ELSE mixed[e]]
    BY <1>4 DEF Note
  <2>2. ASSUME NEW e \in S \ {g} PROVE g \in Predecessors(e)' /\ e \in used
    <3>1. e \in heap /\ sock[e] = sock[g] /\ e # g
      BY <1>1 DEF Found, Located
    <3>2. g \in used \ heap /\ opens[g] = 1
      BY <1>1, <3>1 DEF Opened, Ids
    <3>3. g \in Predecessors(e)
      BY <3>1, <3>2 DEF Predecessors
    <3>4. QED
      BY <1>1, <3>1, <3>3
  <2>3. ASSUME NEW h \in used
        PROVE  /\ mixed'[h] # {} => Predecessors(h)' # {}
               /\ "data" \in mixed'[h] => \E p \in Predecessors(h)' : addr'[p] = addr'[h]
    <3>1. CASE h \in S \ {g}
      <4>1. g \in Predecessors(h)' /\ mixed'[h] = mixed[h] \cup {what}
        BY <1>1, <2>1, <2>2, <3>1
      <4>2. CASE what = "data"
        BY <1>4, <3>1, <4>1, <4>2
      <4>3. CASE what # "data"
        BY <1>2, <4>1, <4>3
      <4>4. QED
        BY <4>2, <4>3
    <3>2. CASE h \notin S \ {g}
      <4>1. mixed'[h] = mixed[h]
        BY <1>1, <2>1, <3>2
      <4>2. QED
        BY <1>2, <4>1
    <3>3. QED
      BY <3>1, <3>2
  <2>4. ASSUME NEW h \in Handlers \ used PROVE mixed'[h] = {}
    <3>1. h \notin S \ {g} /\ mixed[h] = {}
      BY <1>1, <2>2 DEF Matched
    <3>2. QED
      BY <2>1, <3>1
  <2>5. mixed' \in [Handlers -> SUBSET {"data", "end"}]
    BY <1>1, <2>1
  <2>6. QED
    BY <2>3, <2>4, <2>5 DEF Matched, CompletionsMatched
<1>5. CASE TakeData(w)
  <2>1. PICK g \in Completed(w, "data") : Note(g, Addressed(w, g), "data")
    BY <1>5, Zenon DEF TakeData
  <2>2. g \in Opened
    BY FirstCompletion
  <2>3. Addressed(w, g) \in SUBSET Found(w, g) /\ \A e \in Addressed(w, g) : addr[e] = addr[g]
    BY DEF Addressed
  <2>4. QED
    BY <1>4, <2>1, <2>2, <2>3
<1>6. CASE TakeEof(w)
  <2>1. PICK g \in Completed(w, "eof") : Note(g, Addressed(w, g), "end")
    BY <1>6, Zenon DEF TakeEof
  <2>2. g \in Opened /\ Addressed(w, g) \in SUBSET Found(w, g)
    BY FirstCompletion DEF Addressed
  <2>3. QED
    BY <1>4, <2>1, <2>2
<1>7. CASE TakeFailed(w)
  <2>1. PICK g \in Completed(w, "failed") : Note(g, Found(w, g), "end")
    BY <1>7, Zenon DEF TakeFailed
  <2>2. g \in Opened
    BY FirstCompletion
  <2>3. QED
    BY <1>4, <2>1, <2>2
<1>8. (TakeData(w) \/ TakeEof(w) \/ TakeFailed(w)) \/ UNCHANGED mixed
  BY WorkerEffect DEF Same, TurnsAway, Opens
<1>9. QED
  BY <1>3, <1>5, <1>6, <1>7, <1>8

-----------------------------------------------------------------------------
(* Steps of the front end and of stop. *)

\* A remainder lies below its divisor.
LEMMA RemainderBound ==
  ASSUME NEW a \in Nat, NEW b \in Nat \ {0}
  PROVE  a % b \in 0 .. b - 1
  BY Z3

LEMMA FrontControl ==
  ASSUME IState, FrontThread
  PROVE  /\ fPc' \in {"check", "accept", "dispatch", "look", "exited"} /\ front' = front
         /\ hdCounter' \in Workers /\ look' \subseteq hds'
         /\ fresh' # None <=> fPc' = "dispatch"
         /\ mPc = "serve" \/ (fPc # "exited" /\ pending' \subseteq pending)
<1>1. TypeOK /\ Loops /\ None \notin Handlers
  BY IocpAssumption DEF IState
<1>2. (hdCounter + 1) % NWorkers \in Workers
  <2>1. hdCounter + 1 \in Nat
    BY <1>1, IocpAssumption DEF TypeOK, Workers
  <2>2. QED
    BY <2>1, RemainderBound, IocpAssumption DEF Workers
<1>3. hdCounter \in Workers /\ look \subseteq hds /\ (fresh # None <=> fPc = "dispatch")
  BY <1>1 DEF TypeOK, Loops
<1>4. \A h, ok : Dispatch(h, ok) => hdCounter' \in Workers
  BY <1>2 DEF Dispatch
<1>5. CASE AcceptCheck \/ Accept \/ AcceptDispatch
  <2>1. hdCounter' \in Workers
    BY <1>3, <1>4, <1>5 DEF AcceptCheck, Accept, AcceptDispatch
  <2>2. QED
    BY <1>1, <1>3, <1>5, <2>1 DEF AcceptCheck, Accept, AcceptDispatch
<1>6. CASE Connect \/ Fetch
  <2>1. hdCounter' \in Workers
    BY <1>3, <1>6 DEF Connect, Fetch
  <2>2. fPc' \in {"check", "accept", "dispatch", "look", "exited"}
    BY <1>1, <1>6 DEF Connect, Fetch, TypeOK
  <2>3. QED
    BY <1>3, <1>6, <2>1, <2>2 DEF Connect, Fetch
<1>7. CASE LookPending \/ LookConnected \/ LookFailed \/ LookDone
  <2>1. hdCounter' \in Workers
    BY <1>3, <1>4, <1>7 DEF LookPending, LookConnected, LookFailed, LookDone
  <2>2. QED
    BY <1>3, <1>7, <2>1 DEF LookPending, LookConnected, LookFailed, LookDone
<1>8. front' = front
  BY DEF FrontThread, AcceptCheck, Accept, AcceptDispatch, Connect, Fetch, LookPending,
         LookConnected, LookFailed, LookDone
<1>9. QED
  BY <1>5, <1>6, <1>7, <1>8 DEF FrontThread

\* What it does to the objects and to the queues has their types.
Objects == /\ sock' \in [Handlers -> Socks \cup {None}] /\ addr' \in [Handlers -> Addrs \cup {None}]
           /\ opens' \in [Handlers -> Nat] /\ closes' \in [Handlers -> Nat]
           /\ pendq' \in [Workers -> Seq(Handlers)]
           /\ \A w \in Workers : NoDup(pendq[w])' /\ Len(pendq'[w]) <= PendSize

LEMMA SameObjects ==
  ASSUME TypeOK, Loops, UNCHANGED <<sock, addr, opens, closes, pendq>>
  PROVE  Objects
  BY DEF TypeOK, Loops, Objects

LEMMA FrontObjects ==
  ASSUME IState, UNCHANGED handlers,
         \/ FrontSame \/ (\E h \in Handlers : Makes(h)) \/ (\E w, h : Hands(w, h))
         \/ (\E S : Drops(S)) \/ Fetches
  PROVE  Objects
<1>1. TypeOK /\ Loops /\ Located
  BY DEF IState
<1>2. CASE FrontSame \/ Fetches
  BY <1>1, <1>2, SameObjects DEF FrontSame, Fetches, objects
<1>3. ASSUME NEW h \in Handlers, Makes(h) PROVE Objects
  <2>1. PICK s \in Socks : sock' = [sock EXCEPT ![h] = s]
    BY <1>3, Zenon DEF Makes, Create
  <2>2. PICK a \in Addrs : addr' = [addr EXCEPT ![h] = a]
    BY <1>3, Zenon DEF Makes, Create
  <2>3. UNCHANGED <<opens, closes, pendq>>
    BY <1>3 DEF Makes, Create
  <2>4. sock' \in [Handlers -> Socks \cup {None}] /\ addr' \in [Handlers -> Addrs \cup {None}]
    BY <1>1, <2>1, <2>2 DEF TypeOK
  <2>5. QED
    BY <1>1, <2>3, <2>4 DEF TypeOK, Loops, Objects
<1>4. ASSUME NEW w, NEW h, Hands(w, h) PROVE Objects
  <2>1. h \in Handlers /\ h \notin Queued(w) /\ w \in Workers /\ Put(w, h) /\ UNCHANGED objects
    BY <1>1, <1>4, LocatedHanded DEF Hands
  <2>2. /\ pendq' \in [Workers -> Seq(Handlers)]
        /\ \A v \in Workers : NoDup(pendq[v])' /\ Len(pendq'[v]) <= PendSize
    BY <1>1, <2>1, QueuePut
  <2>3. QED
    BY <1>1, <2>1, <2>2 DEF TypeOK, objects, Objects
<1>5. ASSUME NEW S, Drops(S) PROVE Objects
  <2>1. /\ opens' \in [Handlers -> Nat] /\ closes' \in [Handlers -> Nat]
        /\ UNCHANGED <<sock, addr, pendq>>
    BY <1>5 DEF Drops, Counted
  <2>2. QED
    BY <1>1, <2>1 DEF TypeOK, Loops, Objects
<1>6. QED
  BY <1>2, <1>3, <1>4, <1>5

\* In every step.
LEMMA NextObjects == IState /\ [Next]_vars => Objects
<1> SUFFICES ASSUME IState, [Next]_vars PROVE Objects
  OBVIOUS
<1>1. TypeOK /\ Loops
  BY DEF IState
<1>2. ASSUME NEW w \in Workers, WorkerStep(w) PROVE Objects
  BY <1>1, <1>2, WorkerMaps DEF WorkerStep, Objects, TypeOK
<1>3. CASE FrontStep
  BY <1>3, FrontEffect, FrontObjects DEF FrontStep, worker
<1>4. CASE StopStep
  <2>1. StopThread /\ UNCHANGED <<pendq, fresh, hds, handlers>>
    BY <1>4 DEF StopStep, worker
  <2>2. QED
    BY <2>1, StopEffect, FrontObjects
<1>5. CASE UNCHANGED vars
  BY <1>1, <1>5, SameObjects DEF vars, objects
<1>6. QED
  BY <1>2, <1>3, <1>4, <1>5 DEF Next, WorkerStep, FrontStep, StopStep

\* The variables of the threads, in every step.
WorkerTypes ==
  /\ handlers' \in [Workers -> SUBSET Handlers] /\ todo' \in [Workers -> SUBSET Handlers]
  /\ wPc' \in [Workers -> {"check", "accept", "get", "run", "free", "drain", "exited"}]
  /\ counter' \in [Workers -> 0 .. MaxEvents] /\ wStop' \in [Workers -> BOOLEAN]
FrontTypes ==
  /\ front' \in {"accepter", "connector"}
  /\ fPc' \in {"check", "accept", "dispatch", "look", "exited"}
  /\ look' \subseteq hds' /\ hdCounter' \in Workers
  /\ mPc' \in {"serve", "join", "pending", "workers", "stopped"}

LEMMA NextControl == IState /\ [Next]_vars => WorkerTypes /\ FrontTypes /\ Loops' /\ Ending'
<1> SUFFICES ASSUME IState, [Next]_vars PROVE WorkerTypes /\ FrontTypes /\ Loops' /\ Ending'
  OBVIOUS
<1>1. TypeOK /\ Loops /\ Ending
  BY DEF IState
<1>2. \A w \in Workers : NoDup(pendq[w])'
  BY NextObjects DEF Objects
<1>3. ASSUME UNCHANGED <<worker, wStop>>
      PROVE  /\ WorkerTypes
             /\ \A w \in Workers : /\ wPc'[w] = "run" => todo'[w] \subseteq handlers'[w]
                                   /\ wPc'[w] \in {"accept", "get"} => counter'[w] < MaxEvents
  BY <1>1, <1>3 DEF TypeOK, Loops, worker, WorkerTypes
<1>4. ASSUME UNCHANGED <<front, fPc, fresh, hds, look, hdCounter>>, mPc' \in {"serve", "join", "pending", "workers", "stopped"}
      PROVE  FrontTypes /\ (fresh' # None <=> fPc' = "dispatch")
  BY <1>1, <1>4 DEF TypeOK, Loops, FrontTypes
<1>5. ASSUME NEW w \in Workers, WorkerStep(w)
      PROVE  WorkerTypes /\ FrontTypes /\ Loops' /\ Ending'
  <2>1. PICK label : Goes(w, label)
    BY <1>5, WorkerGoes DEF WorkerStep
  <2>2. /\ handlers' \in [Workers -> SUBSET Handlers]
        /\ \A v \in Workers \ {w} : handlers'[v] = handlers[v] /\ pendq'[v] = pendq[v]
    BY <1>5, WorkerMaps DEF WorkerStep
  <2>3. UNCHANGED <<front, fPc, fresh, pending, hds, look, hdCounter, mPc, wStop>>
    BY <1>5 DEF WorkerStep, frontVars, control
  <2>4. /\ todo \in [Workers -> SUBSET Handlers] /\ counter \in [Workers -> 0 .. MaxEvents]
        /\ wPc \in [Workers -> {"check", "accept", "get", "run", "free", "drain", "exited"}]
        /\ wStop \in [Workers -> BOOLEAN]
        /\ mPc \in {"serve", "join", "pending", "workers", "stopped"}
    BY <1>1 DEF TypeOK
  <2>5. WorkerTypes
    BY <2>1, <2>2, <2>3, <2>4 DEF Goes, WorkerTypes
  <2>6. FrontTypes /\ (fresh' # None <=> fPc' = "dispatch")
    BY <1>4, <2>3, <2>4
  <2>7. /\ wPc'[w] = label /\ todo'[w] = todo'[w]
        /\ \A v \in Workers \ {w} : wPc'[v] = wPc[v] /\ todo'[v] = todo[v] /\ counter'[v] = counter[v]
    BY <2>1, <2>4 DEF Goes
  <2>8. ASSUME NEW v \in Workers
        PROVE  /\ wPc'[v] = "run" => todo'[v] \subseteq handlers'[v]
               /\ wPc'[v] \in {"accept", "get"} => counter'[v] < MaxEvents
    <3>1. CASE v = w
      BY <2>1, <2>7, <3>1 DEF Goes
    <3>2. CASE v # w
      BY <1>1, <2>2, <2>7, <3>2 DEF Loops
    <3>3. QED
      BY <3>1, <3>2
  <2>9. Loops'
    BY <1>2, <2>6, <2>8 DEF Loops
  <2>10. ASSUME NEW v \in Workers
         PROVE  /\ wStop'[v] => mPc' \in {"workers", "stopped"}
                /\ wPc'[v] \in {"free", "drain", "exited"} => wStop'[v]
                /\ wPc'[v] \in {"drain", "exited"} => handlers'[v] = {}
                /\ wPc'[v] = "exited" => pendq'[v] = <<>>
                /\ mPc' = "stopped" => wPc'[v] = "exited"
    <3>1. CASE v = w
      BY <1>1, <2>1, <2>3, <2>7, <3>1 DEF Goes, Ending
    <3>2. CASE v # w
      BY <1>1, <2>2, <2>3, <2>7, <3>2 DEF Ending
    <3>3. QED
      BY <3>1, <3>2
  <2>11. Ending'
    BY <1>1, <2>3, <2>10 DEF Ending
  <2>12. QED
    BY <2>5, <2>6, <2>9, <2>11
<1>6. CASE FrontStep
  <2>1. FrontThread /\ UNCHANGED <<worker, mPc, wStop>>
    BY <1>6 DEF FrontStep, control
  <2>2. /\ FrontTypes /\ (fresh' # None <=> fPc' = "dispatch")
        /\ mPc = "serve" \/ (fPc # "exited" /\ pending' \subseteq pending)
    BY <1>1, <2>1, FrontControl DEF FrontTypes, TypeOK
  <2>3. Loops'
    BY <1>2, <1>3, <2>1, <2>2 DEF Loops
  <2>4. mPc' \in {"serve", "join"}
    BY <1>1, <2>1, <2>2 DEF Ending, TypeOK
  <2>5. \A w \in Workers : wStop[w] = FALSE /\ wPc[w] \notin {"free", "drain", "exited"}
    BY <1>1, <2>1, <2>4 DEF Ending, TypeOK
  <2>6. Ending'
    BY <2>1, <2>4, <2>5 DEF Ending, worker
  <2>7. QED
    BY <1>3, <2>1, <2>2, <2>3, <2>6
<1>7. CASE StopStep
  <2>1. /\ StopThread
        /\ UNCHANGED <<pendq, completions, worker, front, fPc, fresh, hds, look, hdCounter>>
    BY <1>7 DEF StopStep
  <2>2. /\ mPc' \in {"serve", "join", "pending", "workers", "stopped"}
        /\ wStop' \in [Workers -> BOOLEAN]
    BY <1>1, <2>1 DEF StopThread, Stop, JoinFront, FreePending, StopWorker, Stopped, TypeOK
  <2>3. FrontTypes /\ (fresh' # None <=> fPc' = "dispatch")
    BY <1>4, <2>1, <2>2
  <2>4. WorkerTypes
    BY <1>1, <2>1, <2>2 DEF TypeOK, worker, WorkerTypes
  <2>5. Loops'
    BY <1>1, <1>2, <2>1, <2>3 DEF Loops, worker
  <2>6. /\ \A w \in Workers : /\ wPc[w] \in {"drain", "exited"} => handlers[w] = {}
                              /\ wPc[w] = "exited" => pendq[w] = <<>>
        /\ UNCHANGED <<handlers, pendq, wPc, fPc>>
    BY <1>1, <2>1 DEF Ending, worker
  <2>7. CASE Stop \/ JoinFront \/ FreePending
    <3>1. \A w \in Workers : wStop[w] = FALSE /\ wPc[w] \notin {"free", "drain", "exited"}
      BY <1>1, <2>7 DEF Ending, TypeOK, Stop, JoinFront, FreePending
    <3>2. Ending'
      BY <1>1, <2>6, <2>7, <3>1 DEF Ending, Stop, JoinFront, FreePending
    <3>3. QED
      BY <2>3, <2>4, <2>5, <3>2
  <2>8. CASE Stopped
    <3>1. Ending'
      BY <1>1, <2>6, <2>8 DEF Ending, Stopped
    <3>2. QED
      BY <2>3, <2>4, <2>5, <3>1
  <2>9. ASSUME NEW w \in Workers, StopWorker(w) PROVE Ending'
    <3>1. /\ mPc = "workers" /\ UNCHANGED <<pending, mPc>>
          /\ \A v \in Workers : wStop[v] => wStop'[v]
      BY <1>1, <2>9 DEF StopWorker, TypeOK
    <3>2. QED
      BY <1>1, <2>6, <3>1 DEF Ending
  <2>10. QED
    BY <2>1, <2>3, <2>4, <2>5, <2>7, <2>8, <2>9 DEF StopThread
<1>8. CASE UNCHANGED vars
  <2>1. UNCHANGED <<worker, wStop, front, fPc, fresh, pending, hds, look, hdCounter, mPc, pendq>>
    BY <1>8 DEF vars, frontVars, control
  <2>2. WorkerTypes /\ FrontTypes /\ Loops'
    BY <1>1, <1>2, <1>3, <1>4, <2>1 DEF Loops, TypeOK
  <2>3. Ending'
    BY <1>1, <2>1 DEF Ending, worker
  <2>4. QED
    BY <2>2, <2>3
<1>9. QED
  BY <1>5, <1>6, <1>7, <1>8 DEF Next, WorkerStep, FrontStep, StopStep

-----------------------------------------------------------------------------
(* The invariant. *)

Completions ==
  /\ posted' \in [Workers -> SUBSET Handlers] /\ mixed' \in [Handlers -> SUBSET {"data", "end"}]
  /\ port' \in [Workers -> Seq(Handlers \X {"data", "eof", "failed"})]

LEMMA NextCompletions == IState /\ [Next]_vars => Completions /\ Operations' /\ Matched'
<1> SUFFICES ASSUME IState, [Next]_vars PROVE Completions /\ Operations' /\ Matched'
  OBVIOUS
<1>1. TypeOK /\ Ids /\ Calls /\ Operations /\ Matched /\ Life
  BY NextLife DEF IState
<1>2. Opened \subseteq Opened' /\ \A h \in used : Predecessors(h) \subseteq Predecessors(h)'
  BY <1>1, LifeKeeps
<1>3. used \subseteq used' /\ used' \subseteq Handlers /\ \A h \in used : addr'[h] = addr[h]
  BY <1>1 DEF Life
<1>4. ASSUME NEW w \in Workers, WorkerStep(w) PROVE Completions /\ Operations' /\ Matched'
  <2>1. (WorkThread(w) \/ Complete(w)) /\ UNCHANGED <<used, sock, addr>> /\ Opened' \subseteq Handlers
    BY <1>3, <1>4, WorkerMaps DEF WorkerStep, Opened
  <2>2. QED
    BY <1>2, <2>1, WorkerOperations, WorkerMixes DEF Completions
<1>5. ASSUME UNCHANGED completions PROVE Completions /\ Operations' /\ Matched'
  <2>1. UNCHANGED <<posted, port, mixed>>
    BY <1>5 DEF completions
  <2>2. Completions /\ Operations'
    BY <1>1, <1>2, <2>1 DEF Completions, TypeOK, Operations
  <2>3. ASSUME NEW h \in used'
        PROVE  /\ mixed'[h] # {} => Predecessors(h)' # {}
               /\ "data" \in mixed'[h] => \E p \in Predecessors(h)' : addr'[p] = addr'[h]
    <3>1. CASE h \in used
      <4>1. /\ mixed[h] # {} => Predecessors(h) # {}
            /\ "data" \in mixed[h] => \E p \in Predecessors(h) : addr[p] = addr[h]
        BY <1>1, <3>1 DEF Matched, CompletionsMatched
      <4>2. Predecessors(h) \subseteq used
        BY DEF Predecessors
      <4>3. QED
        BY <1>2, <1>3, <2>1, <3>1, <4>1, <4>2
    <3>2. CASE h \notin used
      BY <1>1, <1>3, <2>1, <3>2 DEF Matched
    <3>3. QED
      BY <3>1, <3>2
  <2>4. \A h \in Handlers \ used' : mixed'[h] = {}
    BY <1>1, <1>3, <2>1 DEF Matched
  <2>5. QED
    BY <2>2, <2>3, <2>4 DEF Matched, CompletionsMatched
<1>6. QED
  BY <1>4, <1>5 DEF Next, WorkerStep, vars

LEMMA NextTypes == IState /\ [Next]_vars => TypeOK'
<1> SUFFICES ASSUME IState, [Next]_vars PROVE TypeOK'
  OBVIOUS
<1>1. Objects /\ WorkerTypes /\ FrontTypes /\ Completions
  BY NextObjects, NextControl, NextCompletions
<1>2. heap' \subseteq used' /\ used' \subseteq Handlers
  <2>1. heap \subseteq used /\ Life
    BY NextLife DEF IState, TypeOK
  <2>2. QED
    BY <2>1 DEF Life
<1>3. pending' \cup hds' \subseteq Handlers /\ fresh' \in Handlers \cup {None}
  BY <1>2, NextLocated DEF Located, Unopened
<1>4. QED
  BY <1>1, <1>2, <1>3 DEF Objects, WorkerTypes, FrontTypes, Completions, TypeOK

LEMMA InitState == Init => IState
<1> SUFFICES ASSUME Init PROVE IState
  OBVIOUS
<1>1. WorkerInit /\ 0 \in Workers /\ 0 \in 0 .. MaxEvents
  BY IocpAssumption DEF Init, Workers
<1>2. \A w \in Workers : pendq[w] = <<>> /\ port[w] = <<>> /\ ToSet(pendq[w]) = {}
  BY <1>1 DEF WorkerInit, ToSet
<1>3. TypeOK
  <2>1. \A T : <<>> \in Seq(T) /\ Len(<<>>) = 0 /\ 0 <= PendSize
    BY EmptySeq, IocpAssumption
  <2>2. /\ pendq \in [Workers -> Seq(Handlers)] /\ \A w \in Workers : Len(pendq[w]) <= PendSize
        /\ port \in [Workers -> Seq(Handlers \X {"data", "eof", "failed"})]
    BY <1>1, <2>1 DEF WorkerInit
  <2>3. QED
    BY <1>1, <2>2 DEF Init, WorkerInit, TypeOK
<1>4. Ids /\ Calls /\ Operations /\ Matched
  BY <1>1, <1>2 DEF WorkerInit, Ids, Calls, Operations, Matched, CompletionsMatched
<1>5. Located
  BY <1>1, <1>2 DEF Init, WorkerInit, Located, Unopened, Queued
<1>6. Loops
  BY <1>1, <1>2 DEF Init, WorkerInit, Loops, NoDup
<1>7. Ending
  BY <1>1 DEF Init, WorkerInit, Ending
<1>8. QED
  BY <1>3, <1>4, <1>5, <1>6, <1>7 DEF IState

\* The state of the service, in every behaviour.
THEOREM IocpInvariant == Spec => []IState
<1>1. Init => IState
  BY InitState
<1>2. IState /\ [Next]_vars => IState'
  <2> SUFFICES ASSUME IState, [Next]_vars PROVE IState'
    OBVIOUS
  <2>1. Ids' /\ Calls'
    BY NextLife, LifeKeeps DEF IState
  <2>2. QED
    BY <2>1, NextTypes, NextLocated, NextControl, NextCompletions DEF IState
<1>3. QED
  BY <1>1, <1>2, PTL DEF Spec

\* A completion only reaches the connection it belongs to, but for a predecessor with the same
\* socket number, and for data the same address.
THEOREM IocpCompletionsMatched == Spec => []CompletionsMatched
<1>1. IState => CompletionsMatched
  BY DEF IState, Matched
<1>2. QED
  BY <1>1, IocpInvariant, PTL

\* The places of a handler, by what they are.
LEMMA PlacesAre ==
  ASSUME IState, NEW h \in Handlers
  PROVE  /\ \A w \in Workers : h \notin Queued(w) =>
                {<<"queue", w, i>> : i \in {j \in 1 .. Len(pendq[w]) : pendq[w][j] = h}} = {}
         /\ \A w \in Workers : h \in Queued(w) => \E k :
                {<<"queue", w, i>> : i \in {j \in 1 .. Len(pendq[w]) : pendq[w][j] = h}}
                  = {<<"queue", w, k>>}
<1>1. \A w \in Workers : /\ pendq[w] \in Seq(Handlers) /\ NoDup(pendq[w])
                         /\ Queued(w) = {pendq[w][i] : i \in 1 .. Len(pendq[w])}
  BY ToSetIs DEF IState, TypeOK, Loops, Queued
<1>2. ASSUME NEW w \in Workers, h \in Queued(w)
      PROVE  \E k : {<<"queue", w, i>> : i \in {j \in 1 .. Len(pendq[w]) : pendq[w][j] = h}}
                      = {<<"queue", w, k>>}
  <2>1. PICK k \in 1 .. Len(pendq[w]) : pendq[w][k] = h
    BY <1>1, <1>2
  <2>2. {j \in 1 .. Len(pendq[w]) : pendq[w][j] = h} = {k}
    BY <1>1, <2>1 DEF NoDup
  <2>3. QED
    BY <2>2
<1>3. ASSUME NEW w \in Workers, h \notin Queued(w)
      PROVE  {<<"queue", w, i>> : i \in {j \in 1 .. Len(pendq[w]) : pendq[w][j] = h}} = {}
  <2>1. {j \in 1 .. Len(pendq[w]) : pendq[w][j] = h} = {}
    BY <1>1, <1>3
  <2>2. QED
    BY <2>1
<1>4. QED
  BY <1>2, <1>3, Zenon

\* A live handler is in one of them, a deleted one in none.
LEMMA OnePlace ==
  ASSUME IState, NEW h \in used
  PROVE  IF h \in heap THEN \E p : Places(h) = {p} ELSE Places(h) = {}
<1> DEFINE F == {<<"fresh">> : x \in {h} \cap {fresh}}
           P == {<<"pending">> : x \in {h} \cap pending}
           D == {<<"hds">> : x \in {h} \cap hds}
           Q(w) == {<<"queue", w, i>> : i \in {j \in 1 .. Len(pendq[w]) : pendq[w][j] = h}}
           M == {<<"map", w>> : w \in {v \in Workers : h \in handlers[v]}}
<1>1. Places(h) = F \cup P \cup D \cup (UNION {Q(w) : w \in Workers}) \cup M
  BY DEF Places
<1>2. /\ h \in Handlers /\ h # None /\ Located
      /\ fresh # None => fresh \in heap
  BY IocpAssumption DEF IState, TypeOK, Located, Unopened
<1>3. /\ \A w \in Workers : h \notin Queued(w) => Q(w) = {}
      /\ \A w \in Workers : h \in Queued(w) => \E k : Q(w) = {<<"queue", w, k>>}
  BY <1>2, PlacesAre
<1>4. /\ F = IF h = fresh THEN {<<"fresh">>} ELSE {}
      /\ P = IF h \in pending THEN {<<"pending">>} ELSE {}
      /\ D = IF h \in hds THEN {<<"hds">>} ELSE {}
  OBVIOUS
<1>5. /\ (\A w \in Workers : h \notin handlers[w]) => M = {}
      /\ \A w \in Workers : h \in handlers[w] /\ (\A v \in Workers \ {w} : h \notin handlers[v])
                              => M = {<<"map", w>>}
  <2>1. ASSUME NEW w \in Workers, h \in handlers[w], \A v \in Workers \ {w} : h \notin handlers[v]
        PROVE  M = {<<"map", w>>}
    <3>1. {v \in Workers : h \in handlers[v]} = {w}
      BY <2>1
    <3>2. QED
      BY <3>1
  <2>2. ASSUME \A w \in Workers : h \notin handlers[w] PROVE M = {}
    BY <2>2
  <2>3. QED
    BY <2>1, <2>2, Zenon
<1> HIDE DEF F, P, D, Q, M
<1>6. \A p : p \in Places(h) <=> p \in F \cup P \cup D \cup M \/ \E w \in Workers : p \in Q(w)
  BY <1>1
<1>7. CASE h \notin heap
  <2>1. /\ h \notin pending \cup hds \cup {fresh}
        /\ \A w \in Workers : h \notin Queued(w) /\ h \notin handlers[w]
    BY <1>2, <1>7 DEF Located, Unopened
  <2>2. Places(h) = {}
    BY <1>3, <1>4, <1>5, <1>6, <2>1
  <2>3. QED
    BY <1>7, <2>2
<1>8. CASE h \in pending \cup hds \cup {fresh}
  <2>1. /\ h \in heap /\ opens[h] = 0 /\ \A w \in Workers : h \notin Queued(w)
        /\ h \in pending => h \notin hds /\ h # fresh
        /\ h \in hds => h \notin pending /\ h # fresh
    BY <1>2, <1>8 DEF Located, Unopened
  <2>2. \A w \in Workers : h \notin handlers[w]
    BY <1>2, <2>1 DEF Located
  <2>3. M = {} /\ \A w \in Workers : Q(w) = {}
    BY <1>3, <1>5, <2>1, <2>2
  <2>4. \E p : F \cup P \cup D = {p}
    BY <1>4, <1>8, <2>1
  <2>5. Places(h) = F \cup P \cup D
    BY <1>6, <2>3
  <2>6. QED
    BY <2>1, <2>4, <2>5
<1>9. ASSUME NEW w \in Workers, h \in Queued(w) PROVE h \in heap /\ \E p : Places(h) = {p}
  <2>1. /\ h \in heap /\ opens[h] = 0 /\ h \notin pending \cup hds \cup {fresh}
        /\ \A v \in Workers \ {w} : h \notin Queued(v)
    BY <1>2, <1>9 DEF Located, Unopened
  <2>2. \A v \in Workers : h \notin handlers[v]
    BY <1>2, <2>1 DEF Located
  <2>3. PICK k : Q(w) = {<<"queue", w, k>>}
    BY <1>3, <1>9
  <2>4. F \cup P \cup D \cup M = {} /\ \A v \in Workers \ {w} : Q(v) = {}
    BY <1>3, <1>4, <1>5, <2>1, <2>2
  <2>5. Places(h) = {<<"queue", w, k>>}
    BY <1>6, <2>3, <2>4
  <2>6. QED
    BY <2>1, <2>5
<1>10. ASSUME NEW w \in Workers, h \in handlers[w] PROVE h \in heap /\ \E p : Places(h) = {p}
  <2>1. /\ h \in heap /\ opens[h] = 1 /\ \A v \in Workers \ {w} : h \notin handlers[v]
    BY <1>2, <1>10 DEF Located
  <2>2. h \notin pending \cup hds \cup {fresh} /\ \A v \in Workers : h \notin Queued(v)
    BY <1>2, <2>1 DEF Located, Unopened
  <2>3. M = {<<"map", w>>} /\ F \cup P \cup D = {} /\ \A v \in Workers : Q(v) = {}
    BY <1>3, <1>4, <1>5, <1>10, <2>1, <2>2
  <2>4. Places(h) = {<<"map", w>>}
    BY <1>6, <2>3
  <2>5. QED
    BY <2>1, <2>4
<1>11. QED
  BY <1>2, <1>7, <1>8, <1>9, <1>10 DEF Located

\* A live handler is in one place, so one thread calls and deletes it; it is opened and closed
\* at most once, and closed if it was opened.  When stop returns, what is left are the
\* connections the connect thread still waited for.
THEOREM IocpOneOwner == Spec => []OneOwner
<1>1. ASSUME IState PROVE OneOwner
  <2>1. TypeOK /\ Calls /\ Located /\ Loops /\ Ending
    BY <1>1 DEF IState
  <2>2. ASSUME NEW h \in used PROVE Cardinality(Places(h)) = (IF h \in heap THEN 1 ELSE 0)
    <3>1. CASE h \in heap
      BY <1>1, <3>1, OnePlace, FS_Singleton
    <3>2. CASE h \notin heap
      BY <1>1, <3>2, OnePlace, FS_EmptySet
    <3>3. QED
      BY <3>1, <3>2
  <2>3. ASSUME NEW h \in used
        PROVE  opens[h] <= 1 /\ closes[h] <= 1 /\ (h \notin heap => opens[h] <= closes[h])
    <3>1. opens[h] \in Nat /\ closes[h] \in Nat
      BY <2>1 DEF TypeOK
    <3>2. QED
      BY <2>1, <3>1 DEF Calls
  <2>4. ASSUME mPc = "stopped" PROVE heap = hds
    <3>1. /\ fresh = None /\ pending = {}
          /\ \A w \in Workers : Queued(w) = {} /\ handlers[w] = {}
      BY <2>1, <2>4 DEF Ending, Loops, Queued, ToSet
    <3>2. hds \subseteq heap /\ None \notin heap
      BY <2>1, IocpAssumption DEF Located, Unopened, TypeOK
    <3>3. QED
      BY <2>1, <3>1, <3>2 DEF Located
  <2>5. QED
    BY <2>1, <2>2, <2>3, <2>4, Zenon DEF OneOwner
<1>2. IState => OneOwner
  BY <1>1
<1>3. QED
  BY <1>2, IocpInvariant, PTL
=============================================================================
