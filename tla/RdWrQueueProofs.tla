-------------------------- MODULE RdWrQueueProofs --------------------------
(* For every ring size, every width of a position and every set of values:  *)
(* the types, how many wake-ups a semaphore can hold, that the two threads  *)
(* never race for a slot, and that the ring is a bounded FIFO queue.        *)
EXTENDS RdWrQueue, Integers, SequenceTheorems, TLAPS

\* A remainder lies below its divisor.
LEMMA RemainderBound ==
  ASSUME NEW a \in Nat, NEW b \in Nat \ {0}
  PROVE  a % b \in 0 .. b - 1
  BY Z3

LEMMA OtherThread ==
  \A t \in Threads : Other(t) \in Threads /\ Other(t) # t /\ Other(Other(t)) = t
  BY DEF Threads, Other

LEMMA InitType == Init => TypeOK
  BY RingAssumption, 0 \in 0 .. Modulus - 1 DEF Init, TypeOK, Threads, Slots

\* A position always names a slot of the ring.
LEMMA SlotRange ==
  ASSUME TypeOK, NEW t \in Threads
  PROVE  Slot(t) \in Slots
  <1>1. pos[t] \in Nat /\ QSize \in Nat \ {0}
    BY RingAssumption DEF TypeOK
  <1> QED
    BY <1>1, RemainderBound DEF Slot, Slots

LEMMA NextType == TypeOK /\ [Next]_vars => TypeOK'
  <1> SUFFICES ASSUME TypeOK, [Next]_vars PROVE TypeOK'
    OBVIOUS
  <1>0. platform' = platform
    BY DEF Next, vars
  <1> USE <1>0 DEF TypeOK, Goto, Return
  <1>1. ASSUME NEW t \in Threads, Call(t) PROVE TypeOK'
    BY <1>1 DEF Call
  <1>2. ASSUME NEW t \in Threads, Try(t) PROVE TypeOK'
    <2>1. /\ slots' = slots /\ pos' = pos /\ flag' = flag /\ sem' = sem /\ last' = last
      BY <1>2 DEF Try
    <2>2. \E l \in {"move", "idle", "test", "flag"} : pc' = [pc EXCEPT ![t] = l]
      BY <1>2, Zenon DEF Try
    <2>3. out' = out \/ \E o \in {"fail", "again"} : out' = [out EXCEPT ![t] = o]
      BY <1>2, Zenon DEF Try
    <2>4. /\ mode' = mode \/ mode' = [mode EXCEPT ![t] = "try"]
          /\ val' = val \/ val' = [val EXCEPT ![t] = NoValue]
      BY <1>2, Zenon DEF Try
    <2> QED
      BY <2>1, <2>2, <2>3, <2>4
  <1>3. ASSUME NEW t \in Threads, Move(t) PROVE TypeOK'
    <2>1. Slot(t) \in Slots
      BY SlotRange
    <2>2. CASE t = "reader"
      BY <1>3, <2>1, <2>2 DEF Move
    <2>3. CASE t # "reader"
      BY <1>3, <2>1, <2>3 DEF Move
    <2> QED
      BY <2>2, <2>3
  <1>4. ASSUME NEW t \in Threads, Advance(t) PROVE TypeOK'
    <2>1. (pos[t] + 1) % Modulus \in 0 .. Modulus - 1
      <3>1. pos[t] + 1 \in Nat /\ Modulus \in Nat \ {0}
        BY RingAssumption
      <3> QED
        BY <3>1, RemainderBound
    <2>2. Slot(t) \in Slots
      BY SlotRange
    <2>3. slots' \in [Slots -> Values \cup {NoValue}] /\ last' \in Values \cup {NoValue}
      BY <1>4, <2>2 DEF Advance
    <2> QED
      <3>1. CASE mode[t] = "try"
        BY <1>4, <2>1, <2>3, <3>1 DEF Advance
      <3>2. CASE mode[t] # "try"
        BY <1>4, <2>1, <2>3, <3>2 DEF Advance
      <3> QED
        BY <3>1, <3>2
  <1>5. ASSUME NEW t \in Threads, RaiseFlag(t) PROVE TypeOK'
    BY <1>5 DEF RaiseFlag
  <1>6. ASSUME NEW t \in Threads, TestFlag(t) PROVE TypeOK'
    BY <1>6 DEF TestFlag, Proceed
  <1>7. ASSUME NEW t \in Threads, ClearFlag(t) PROVE TypeOK'
    BY <1>7, OtherThread DEF ClearFlag
  <1>8. ASSUME NEW t \in Threads, PostSem(t) PROVE TypeOK'
    BY <1>8, OtherThread DEF PostSem, Proceed
  <1>9. ASSUME NEW t \in Threads, WaitWoken(t) PROVE TypeOK'
    BY <1>9 DEF WaitWoken
  <1>10. ASSUME NEW t \in Threads, WaitTimeout(t) PROVE TypeOK'
    BY <1>10 DEF WaitTimeout
  <1>11. CASE UNCHANGED vars
    BY <1>11 DEF vars
  <1> QED
    BY <1>1, <1>2, <1>3, <1>4, <1>5, <1>6, <1>7, <1>8, <1>9, <1>10, <1>11 DEF Next, Step

-----------------------------------------------------------------------------
\* Only the thread at "clear" lowers the flag it has seen raised.
SeenRaised == \A t \in Threads : pc[t] = "clear" => flag[Other(t)] = 1

\* A thread that raises its flag or waits is in the loop of its call.
LoopAgain ==
  \A t \in Threads :
    /\ pc[t] = "idle" => out[t] = "again"
    /\ pc[t] = "try" => out[t] \in {"again", "last"}
    /\ pc[t] \in {"flag", "wait"} => out[t] = "again"

WakeInv == TypeOK /\ LoopAgain /\ SeenRaised /\ WakeupsBounded

LEMMA NextLoop == TypeOK /\ LoopAgain /\ [Next]_vars => LoopAgain'
  <1> SUFFICES ASSUME TypeOK, LoopAgain, [Next]_vars PROVE LoopAgain'
    OBVIOUS
  <1> USE DEF TypeOK, LoopAgain, Goto, Return
  <1>1. ASSUME NEW t \in Threads, Call(t) PROVE LoopAgain'
    BY <1>1 DEF Call
  <1>2. ASSUME NEW t \in Threads, Try(t) PROVE LoopAgain'
    <2>1. CASE pc' = [pc EXCEPT ![t] = "flag"] /\ out' = out /\ out[t] # "last"
      BY <1>2, <2>1 DEF Try
    <2>2. CASE /\ \E l \in {"move", "test"} : pc' = [pc EXCEPT ![t] = l]
               /\ out' = out \/ out' = [out EXCEPT ![t] = "fail"]
      BY <2>2
    <2>3. CASE Return(t)
      BY <2>3
    <2>4. \/ pc' = [pc EXCEPT ![t] = "flag"] /\ out' = out /\ out[t] # "last"
          \/ /\ \E l \in {"move", "test"} : pc' = [pc EXCEPT ![t] = l]
             /\ out' = out \/ out' = [out EXCEPT ![t] = "fail"]
          \/ Return(t)
      BY <1>2, Zenon DEF Try
    <2> QED
      BY <1>2, <2>1, <2>2, <2>3, <2>4 DEF Try
  <1>3. ASSUME NEW t \in Threads, Step(t), ~Try(t) PROVE LoopAgain'
    BY <1>3 DEF Step, Move, Advance, RaiseFlag, TestFlag, ClearFlag, PostSem, Proceed,
                WaitWoken, WaitTimeout
  <1>4. CASE UNCHANGED vars
    BY <1>4 DEF vars
  <1> QED
    BY <1>1, <1>2, <1>3, <1>4 DEF Next

LEMMA InitWake == Init => WakeInv
  <1> SUFFICES ASSUME Init PROVE LoopAgain /\ SeenRaised /\ WakeupsBounded
    BY InitType DEF WakeInv
  <1>0. LoopAgain
    BY DEF Init, LoopAgain
  <1>1. SeenRaised
    BY DEF Init, SeenRaised
  <1>2. ASSUME NEW t \in Threads PROVE Wakeups(t) <= 2 /\ ~Waiting(t)
    BY OtherThread DEF Init, Wakeups, Waiting, Threads
  <1> QED
    BY <1>0, <1>1, <1>2 DEF WakeupsBounded

\* The wake-ups of a thread, as a number.
LEMMA WakeupsType ==
  ASSUME TypeOK, NEW t \in Threads
  PROVE  Wakeups(t) \in Nat
  BY OtherThread DEF TypeOK, Wakeups

LEMMA WakeupsTypeNext ==
  ASSUME TypeOK', NEW t \in Threads
  PROVE  Wakeups(t)' \in Nat
  BY OtherThread DEF TypeOK, Wakeups

\* A step of t that touches neither flags nor semaphores, and does not get t into
\* or out of "post" or to "clear".
LEMMA QuietStep ==
  ASSUME WakeInv, NEW t \in Threads,
         flag' = flag, sem' = sem,
         \A u \in Threads \ {t} : pc'[u] = pc[u],
         pc'[t] \notin {"post", "clear"}, pc[t] # "post",
         Waiting(t) => Waiting(t)',
         \A u \in Threads \ {t} : out'[u] = out[u]
  PROVE  SeenRaised' /\ WakeupsBounded'
  <1> USE DEF WakeInv, TypeOK
  <1>1. SeenRaised'
    BY OtherThread DEF SeenRaised
  <1>2. ASSUME NEW u \in Threads
        PROVE  Wakeups(u)' = Wakeups(u) /\ (Waiting(u) => Waiting(u)')
    <2>1. Wakeups(u)' = Wakeups(u)
      BY OtherThread DEF Wakeups
    <2>2. Waiting(u) => Waiting(u)'
      BY DEF Waiting
    <2> QED
      BY <2>1, <2>2
  <1>3. \A u \in Threads : Wakeups(u) \in Nat
    BY WakeupsType
  <1> QED
    BY <1>1, <1>2, <1>3 DEF WakeupsBounded

LEMMA NextWake == WakeInv /\ [Next]_vars => WakeInv'
  <1> SUFFICES ASSUME WakeInv, [Next]_vars PROVE SeenRaised' /\ WakeupsBounded'
    BY NextType, NextLoop DEF WakeInv
  <1>a. \A u \in Threads : Wakeups(u) \in Nat
    BY WakeupsType DEF WakeInv
  <1>b. \A u \in Threads : Wakeups(u)' \in Nat
    BY NextType, WakeupsTypeNext DEF WakeInv
  <1>c. \A u \in Threads : Wakeups(u) <= IF Waiting(u) THEN 3 ELSE 2
    BY DEF WakeInv, WakeupsBounded
  <1> USE DEF WakeInv, TypeOK, Goto, Return
  <1>1. ASSUME NEW t \in Threads, Call(t) PROVE SeenRaised' /\ WakeupsBounded'
    <2>1. /\ flag' = flag /\ sem' = sem /\ pc' = [pc EXCEPT ![t] = "try"]
          /\ pc[t] = "idle" /\ \A u \in Threads \ {t} : out'[u] = out[u]
      BY <1>1 DEF Call
    <2>2. \A u \in Threads \ {t} : pc'[u] = pc[u]
      BY <2>1
    <2>3. pc'[t] \notin {"post", "clear"} /\ pc[t] # "post" /\ ~Waiting(t)
      BY <2>1 DEF Waiting
    <2> QED
      BY <2>1, <2>2, <2>3, QuietStep
  <1>2. ASSUME NEW t \in Threads, Try(t) PROVE SeenRaised' /\ WakeupsBounded'
    <2>1. /\ flag' = flag /\ sem' = sem /\ pc[t] = "try"
          /\ \A u \in Threads \ {t} : out'[u] = out[u]
      BY <1>2 DEF Try
    <2>2. PICK l \in {"move", "idle", "test", "flag"} : pc' = [pc EXCEPT ![t] = l]
      BY <1>2, Zenon DEF Try
    <2>3. \A u \in Threads \ {t} : pc'[u] = pc[u]
      BY <2>2
    <2>4. pc'[t] \notin {"post", "clear"} /\ pc[t] # "post" /\ ~Waiting(t)
      BY <2>1, <2>2 DEF Waiting
    <2> QED
      BY <2>1, <2>3, <2>4, QuietStep
  <1>3. ASSUME NEW t \in Threads, Move(t) PROVE SeenRaised' /\ WakeupsBounded'
    <2>1. /\ flag' = flag /\ sem' = sem /\ pc' = [pc EXCEPT ![t] = "advance"]
          /\ pc[t] = "move" /\ out' = out
      BY <1>3 DEF Move
    <2>2. \A u \in Threads \ {t} : pc'[u] = pc[u] /\ out'[u] = out[u]
      BY <2>1
    <2>3. pc'[t] \notin {"post", "clear"} /\ pc[t] # "post" /\ ~Waiting(t)
      BY <2>1 DEF Waiting
    <2> QED
      BY <2>1, <2>2, <2>3, QuietStep
  <1>4. ASSUME NEW t \in Threads, Advance(t) PROVE SeenRaised' /\ WakeupsBounded'
    <2>1. /\ flag' = flag /\ sem' = sem /\ pc[t] = "advance"
          /\ \A u \in Threads \ {t} : out'[u] = out[u]
      BY <1>4 DEF Advance
    <2>2. PICK l \in {"idle", "test"} : pc' = [pc EXCEPT ![t] = l]
      BY <1>4, Zenon DEF Advance
    <2>3. \A u \in Threads \ {t} : pc'[u] = pc[u]
      BY <2>2
    <2>4. pc'[t] \notin {"post", "clear"} /\ pc[t] # "post" /\ ~Waiting(t)
      BY <2>1, <2>2 DEF Waiting
    <2> QED
      BY <2>1, <2>3, <2>4, QuietStep
  <1>5. ASSUME NEW t \in Threads, RaiseFlag(t) PROVE SeenRaised' /\ WakeupsBounded'
    <2>1. SeenRaised'
      BY <1>5, OtherThread DEF RaiseFlag, SeenRaised
    <2>2. ASSUME NEW u \in Threads, u # t
          PROVE  Wakeups(u)' = Wakeups(u) /\ (Waiting(u) => Waiting(u)')
      BY <1>5, <2>2, OtherThread DEF RaiseFlag, Wakeups, Waiting
    <2>3. Wakeups(t)' <= Wakeups(t) + 1 /\ ~Waiting(t)
      BY <1>5, OtherThread DEF RaiseFlag, Wakeups, Waiting
    <2>4. Waiting(t)'
      BY <1>5 DEF RaiseFlag, Waiting, LoopAgain
    <2> QED
      BY <2>1, <2>2, <2>3, <2>4, <1>a, <1>b, <1>c DEF WakeupsBounded
  <1>6. ASSUME NEW t \in Threads, TestFlag(t) PROVE SeenRaised' /\ WakeupsBounded'
    <2>1. CASE flag[Other(t)] = 1
      <3>1. SeenRaised'
        BY <1>6, <2>1, OtherThread DEF TestFlag, SeenRaised
      <3>2. ASSUME NEW u \in Threads
            PROVE  Wakeups(u)' = Wakeups(u) /\ (Waiting(u) => Waiting(u)')
        BY <1>6, <2>1, OtherThread DEF TestFlag, Wakeups, Waiting
      <3> QED
        BY <3>1, <3>2, <1>a, <1>b, <1>c DEF WakeupsBounded
    <2>2. CASE flag[Other(t)] # 1
      <3>1. flag' = flag /\ sem' = sem /\ pc[t] = "test" /\ Proceed(t)
        BY <1>6, <2>2 DEF TestFlag
      <3>2. PICK l \in {"wait", "idle"} : pc' = [pc EXCEPT ![t] = l]
        BY <3>1, Zenon DEF Proceed
      <3>3. \A u \in Threads \ {t} : pc'[u] = pc[u] /\ out'[u] = out[u]
        BY <3>1, <3>2 DEF Proceed
      <3>4. pc'[t] \notin {"post", "clear"} /\ pc[t] # "post"
        BY <3>1, <3>2
      <3>5. Waiting(t) => Waiting(t)'
        BY <3>1 DEF Waiting, Proceed
      <3> QED
        BY <3>1, <3>3, <3>4, <3>5, QuietStep
    <2> QED
      BY <2>1, <2>2
  <1>7. ASSUME NEW t \in Threads, ClearFlag(t) PROVE SeenRaised' /\ WakeupsBounded'
    <2>1. SeenRaised'
      BY <1>7, OtherThread DEF ClearFlag, SeenRaised
    <2>2. Wakeups(Other(t))' = Wakeups(Other(t)) /\ Wakeups(t)' = Wakeups(t)
      BY <1>7, OtherThread DEF ClearFlag, Wakeups, SeenRaised
    <2>3. \A u \in Threads : Waiting(u) => Waiting(u)'
      BY <1>7 DEF ClearFlag, Waiting
    <2> QED
      <3>1. \A u \in Threads : Wakeups(u)' = Wakeups(u)
        BY <2>2 DEF Threads, Other
      <3> QED
        BY <1>a, <1>c, <2>1, <2>3, <3>1 DEF WakeupsBounded
  <1>8. ASSUME NEW t \in Threads, PostSem(t) PROVE SeenRaised' /\ WakeupsBounded'
    <2>1. SeenRaised'
      BY <1>8, OtherThread DEF PostSem, Proceed, SeenRaised
    <2>2. Wakeups(Other(t))' <= Wakeups(Other(t)) /\ Wakeups(t)' = Wakeups(t)
      BY <1>8, OtherThread DEF PostSem, Proceed, Wakeups
    <2>3. \A u \in Threads : Waiting(u) => Waiting(u)'
      BY <1>8 DEF PostSem, Proceed, Waiting
    <2> QED
      <3>1. \A u \in Threads : Wakeups(u)' <= Wakeups(u)
        BY <2>2, <1>a DEF Threads, Other
      <3> QED
        BY <1>a, <1>b, <1>c, <2>1, <2>3, <3>1 DEF WakeupsBounded
  <1>9. ASSUME NEW t \in Threads, WaitWoken(t) \/ WaitTimeout(t)
        PROVE SeenRaised' /\ WakeupsBounded'
    <2>1. SeenRaised'
      BY <1>9, OtherThread DEF WaitWoken, WaitTimeout, SeenRaised
    <2>2. ASSUME NEW u \in Threads, u # t
          PROVE  Wakeups(u)' = Wakeups(u) /\ (Waiting(u) => Waiting(u)')
      BY <1>9, <2>2, OtherThread DEF WaitWoken, WaitTimeout, Wakeups, Waiting
    <2>3. Waiting(t)
      BY <1>9 DEF WaitWoken, WaitTimeout, Waiting, LoopAgain
    <2>4. Wakeups(t)' <= 2
      <3>1. Wakeups(t) <= 3
        BY <2>3 DEF WakeupsBounded
      <3>2. CASE WaitWoken(t)
        BY <3>1, <3>2, OtherThread DEF WaitWoken, Wakeups
      <3>3. CASE WaitTimeout(t)
        BY <3>3, OtherThread DEF WaitTimeout, Wakeups
      <3> QED
        BY <1>9, <3>2, <3>3
    <2> QED
      BY <2>1, <2>2, <2>4, <1>a, <1>b, <1>c DEF WakeupsBounded
  <1>10. CASE UNCHANGED vars
    BY <1>10 DEF vars, SeenRaised, WakeupsBounded, Wakeups, Waiting
  <1> QED
    BY <1>1, <1>2, <1>3, <1>4, <1>5, <1>6, <1>7, <1>8, <1>9, <1>10 DEF Next, Step

\* netsvc_rdwrq.cpp read and write: whatever the order of flag tests, posts and
\* timeouts, at most three wake-ups are outstanding for a thread, two when it is
\* not on its way to sem_timedwait; the semaphores cannot overflow.
THEOREM WakeupsStayBounded == Spec => []WakeupsBounded
  <1>1. WakeInv => WakeupsBounded
    BY DEF WakeInv
  <1> QED
    BY <1>1, InitWake, NextWake, PTL DEF Spec

\* The states of the queue are well typed, for every ring size and modulus.
THEOREM QueueTypes == Spec => []TypeOK
  BY InitType, NextType, PTL DEF Spec

-----------------------------------------------------------------------------
(* Remainders: positions are modulo Modulus, slots modulo QSize.           *)

\* Division with a remainder, and the only one there is.
LEMMA Division ==
  ASSUME NEW a \in Nat, NEW b \in Nat \ {0}
  PROVE  a \div b \in Nat /\ a % b \in 0 .. b - 1 /\ a = b * (a \div b) + (a % b)
  BY Z3

LEMMA OnlyRemainder ==
  ASSUME NEW b \in Nat \ {0}, NEW x \in Int, NEW y \in Int,
         NEW c \in 0 .. b - 1, NEW d \in 0 .. b - 1, b * x + c = b * y + d
  PROVE  c = d
<1>1. b * (x - y) = d - c
  BY Z3
<1>2. CASE x - y >= 1
  <2>1. b * (x - y) >= b
    BY <1>2, Z3
  <2>2. QED
    BY <1>1, <2>1
<1>3. CASE x - y <= -1
  <2>1. b * (x - y) <= -b
    BY <1>3, Z3
  <2>2. QED
    BY <1>1, <2>1
<1>4. CASE x = y
  BY <1>4, Z3
<1>5. QED
  BY <1>2, <1>3, <1>4

LEMMA RemainderIs ==
  ASSUME NEW a \in Nat, NEW b \in Nat \ {0}, NEW x \in Int, NEW c \in 0 .. b - 1,
         a = b * x + c
  PROVE  a % b = c
  BY Division, OnlyRemainder

\* Steps around the ring.
LEMMA SmallRemainder ==
  ASSUME NEW a \in Nat, NEW b \in Nat \ {0}
  PROVE  /\ a < b => a % b = a
         /\ a >= b /\ a < 2 * b => a % b = a - b
         /\ a >= 2 * b /\ a < 3 * b => a % b = a - 2 * b
<1>1. CASE a < b
  <2>1. a = b * 0 + a
    BY Z3
  <2>2. QED
    BY <1>1, <2>1, RemainderIs
<1>2. CASE a >= b /\ a < 2 * b
  <2>1. a = b * 1 + (a - b) /\ a - b \in 0 .. b - 1
    BY <1>2, Z3
  <2>2. QED
    BY <1>2, <2>1, RemainderIs
<1>3. CASE a >= 2 * b /\ a < 3 * b
  <2>1. a = b * 2 + (a - 2 * b) /\ a - 2 * b \in 0 .. b - 1
    BY <1>3, Z3
  <2>2. QED
    BY <1>3, <2>1, RemainderIs
<1>4. QED
  BY <1>1, <1>2, <1>3

\* Positions less than a turn apart name different slots.
LEMMA ApartInRing ==
  ASSUME NEW b \in Nat \ {0}, NEW a \in Nat, NEW c \in Nat, a < c, c < a + b
  PROVE  a % b # c % b
<1>1. SUFFICES ASSUME a % b = c % b PROVE FALSE
  OBVIOUS
<1>2. PICK x \in Nat, y \in Nat, r \in 0 .. b - 1 : a = b * x + r /\ c = b * y + r
  <2>1. a \div b \in Nat /\ a % b \in 0 .. b - 1 /\ a = b * (a \div b) + (a % b)
    BY Division, Zenon
  <2>2. c \div b \in Nat /\ c % b \in 0 .. b - 1 /\ c = b * (c \div b) + (c % b)
    BY Division, Zenon
  <2>3. c = b * (c \div b) + (a % b)
    BY <1>1, <2>2, Zenon
  <2>4. QED
    BY <2>1, <2>2, <2>3, Zenon
<1>3. c - a = b * (y - x)
  BY <1>2, Z3
<1>4. CASE y - x >= 1
  <2>1. b * (y - x) >= b
    BY <1>4, Z3
  <2>2. QED
    BY <1>3, <2>1
<1>5. CASE y - x <= 0
  <2>1. b * (y - x) <= 0
    BY <1>5, Z3
  <2>2. QED
    BY <1>3, <2>1
<1>6. QED
  BY <1>4, <1>5

\* A turn of the positions is a number of turns of the ring.
LEMMA SameSlot ==
  ASSUME NEW a \in Nat
  PROVE  (a + Modulus) % QSize = a % QSize
<1>1. QSize \in Nat \ {0} /\ Modulus \in Nat /\ Modulus % QSize = 0
  BY RingAssumption
<1>2. PICK m \in Nat : Modulus = QSize * m + 0
  BY <1>1, Division
<1>3. PICK x \in Nat, r \in 0 .. QSize - 1 : a = QSize * x + r /\ r = a % QSize
  BY <1>1, Division
<1>4. a + Modulus = QSize * (x + m) + r
  BY <1>1, <1>2, <1>3, Z3
<1>5. PICK c \in Nat, y \in Int : c = a + Modulus /\ y = x + m
  BY <1>1
<1>6. c = QSize * y + r
  BY <1>4, <1>5
<1>7. c % QSize = r
  BY <1>1, <1>6, RemainderIs
<1>8. QED
  BY <1>3, <1>5, <1>7

-----------------------------------------------------------------------------
(* The ring: what lies between the two positions.                          *)

\* The fill and the free slots, without remainders.
LEMMA FillIs ==
  ASSUME TypeOK
  PROVE  /\ Fill = IF pos["writer"] >= pos["reader"] THEN pos["writer"] - pos["reader"]
                                            ELSE Modulus + pos["writer"] - pos["reader"]
         /\ Fill \in 0 .. Modulus - 1
         /\ Fill <= QSize => Left = QSize - Fill
<1> DEFINE r == pos["reader"]  w == pos["writer"]
<1>1. r \in 0 .. Modulus - 1 /\ w \in 0 .. Modulus - 1
  BY DEF TypeOK, Threads
<1>2. QSize \in Nat \ {0} /\ Modulus \in Nat \ {0} /\ Modulus >= 2 * QSize
  BY RingAssumption
<1>3. Fill = (Modulus + w - r) % Modulus /\ Left = (QSize + Modulus - w + r) % Modulus
  BY DEF Fill, Left
<1> HIDE DEF r, w
<1>4. Modulus + w - r \in Nat /\ QSize + Modulus - w + r \in Nat
  BY <1>1, <1>2
<1>5. CASE w >= r
  <2>1. Fill = w - r
    <3>1. Modulus + w - r >= Modulus /\ Modulus + w - r < 2 * Modulus
      BY <1>1, <1>2, <1>5
    <3>2. Fill = (Modulus + w - r) - Modulus
      BY <1>2, <1>3, <1>4, <3>1, SmallRemainder
    <3>3. QED
      BY <1>1, <1>2, <3>2
  <2>2. ASSUME Fill <= QSize PROVE Left = QSize - Fill
    <3>1. QSize + Modulus - w + r >= Modulus /\ QSize + Modulus - w + r < 2 * Modulus
      BY <1>1, <1>2, <1>5, <2>1, <2>2
    <3>2. Left = (QSize + Modulus - w + r) - Modulus
      BY <1>2, <1>3, <1>4, <3>1, SmallRemainder
    <3>3. QED
      BY <1>1, <1>2, <2>1, <3>2
  <2>3. QED
    BY <1>1, <1>2, <1>5, <2>1, <2>2 DEF r, w
<1>6. CASE w < r
  <2>1. Fill = Modulus + w - r
    <3>1. Modulus + w - r < Modulus
      BY <1>1, <1>2, <1>6
    <3>2. QED
      BY <1>2, <1>3, <1>4, <3>1, SmallRemainder
  <2>2. ASSUME Fill <= QSize PROVE Left = QSize - Fill
    <3>1. QSize + Modulus - w + r >= 2 * Modulus /\ QSize + Modulus - w + r < 3 * Modulus
      BY <1>1, <1>2, <1>6, <2>1, <2>2
    <3>2. Left = (QSize + Modulus - w + r) - 2 * Modulus
      BY <1>2, <1>3, <1>4, <3>1, SmallRemainder
    <3>3. QED
      BY <1>1, <1>2, <2>1, <3>2
  <2>3. QED
    BY <1>1, <1>2, <1>6, <2>1, <2>2 DEF r, w
<1>7. QED
  BY <1>1, <1>5, <1>6

\* The fill in the second state of a step.
LEMMA FillIsNext ==
  TypeOK' => Fill' = IF pos'["writer"] >= pos'["reader"] THEN pos'["writer"] - pos'["reader"]
                                              ELSE Modulus + pos'["writer"] - pos'["reader"]
<1> DEFINE Holds == Fill = IF pos["writer"] >= pos["reader"] THEN pos["writer"] - pos["reader"]
                                                    ELSE Modulus + pos["writer"] - pos["reader"]
<1>1. TypeOK => Holds
  BY FillIs
<1>2. TypeOK' => Holds'
  <2> HIDE DEF Holds
  <2>1. QED
    BY <1>1, PTL
<1>3. QED
  BY <1>2

\* The slot of the i-th value after the reader's position.
At(i) == (pos["reader"] + i) % QSize

LEMMA AtRange ==
  ASSUME TypeOK, NEW i \in Nat
  PROVE  At(i) \in Slots
<1>1. pos["reader"] + i \in Nat /\ QSize \in Nat \ {0}
  BY RingAssumption DEF TypeOK, Threads
<1>2. QED
  BY <1>1, Division DEF At, Slots

\* The slots of a turn are different.
LEMMA AtDiffers ==
  ASSUME TypeOK, NEW i \in Nat, NEW j \in Nat, i < j, j < i + QSize
  PROVE  At(i) # At(j)
<1>1. pos["reader"] + i \in Nat /\ pos["reader"] + j \in Nat /\ QSize \in Nat \ {0}
  BY RingAssumption DEF TypeOK, Threads
<1>2. pos["reader"] + i < pos["reader"] + j /\ pos["reader"] + j < (pos["reader"] + i) + QSize
  BY <1>1 DEF TypeOK, Threads
<1>3. QED
  BY <1>1, <1>2, ApartInRing DEF At

\* The writer is as far ahead of the reader as the ring is filled.
LEMMA SlotsAt ==
  ASSUME TypeOK
  PROVE  Slot("reader") = At(0) /\ Slot("writer") = At(Fill)
<1> DEFINE r == pos["reader"]  w == pos["writer"]
<1>1. r \in 0 .. Modulus - 1 /\ w \in 0 .. Modulus - 1 /\ Modulus \in Nat
  BY RingAssumption DEF TypeOK, Threads
<1>2. Fill = IF w >= r THEN w - r ELSE Modulus + w - r
  BY FillIs
<1>3. r + Fill = w \/ r + Fill = w + Modulus
  BY <1>1, <1>2
<1>4. (w + Modulus) % QSize = w % QSize
  BY <1>1, SameSlot
<1>5. Slot("writer") = w % QSize /\ At(Fill) = (r + Fill) % QSize
  BY DEF Slot, At
<1>6. Slot("reader") = At(0)
  BY <1>1 DEF Slot, At
<1>7. QED
  BY <1>3, <1>4, <1>5, <1>6

\* A position after its advance.
LEMMA Advanced ==
  ASSUME NEW p \in 0 .. Modulus - 1
  PROVE  (p + 1) % Modulus = IF p = Modulus - 1 THEN 0 ELSE p + 1
<1>1. Modulus \in Nat \ {0} /\ p + 1 \in Nat
  BY RingAssumption
<1>2. CASE p = Modulus - 1
  <2>1. p + 1 >= Modulus /\ p + 1 < 2 * Modulus
    BY <1>1, <1>2
  <2>2. (p + 1) % Modulus = (p + 1) - Modulus
    BY <1>1, <2>1, SmallRemainder
  <2>3. QED
    BY <1>1, <1>2, <2>2
<1>3. CASE p # Modulus - 1
  <2>1. p + 1 < Modulus
    BY <1>1, <1>3
  <2>2. QED
    BY <1>1, <1>3, <2>1, SmallRemainder
<1>4. QED
  BY <1>2, <1>3

\* A positive number of values between the positions, after a read ...
LEMMA ReaderAdvanced ==
  ASSUME TypeOK, TypeOK', Fill > 0, pos' = [pos EXCEPT !["reader"] = (@ + 1) % Modulus],
         NEW i \in Nat
  PROVE  Fill' = Fill - 1 /\ At(i)' = At(i + 1)
<1> DEFINE r == pos["reader"]  w == pos["writer"]
<1>1. r \in 0 .. Modulus - 1 /\ w \in 0 .. Modulus - 1 /\ Modulus \in Nat \ {0}
  BY RingAssumption DEF TypeOK, Threads
<1>2. pos'["reader"] = (IF r = Modulus - 1 THEN 0 ELSE r + 1) /\ pos'["writer"] = w
  BY <1>1, Advanced DEF TypeOK, Threads
<1>3. Fill = IF w >= r THEN w - r ELSE Modulus + w - r
  BY FillIs
<1>4. Fill' = IF pos'["writer"] >= pos'["reader"] THEN pos'["writer"] - pos'["reader"]
                                       ELSE Modulus + pos'["writer"] - pos'["reader"]
  BY FillIsNext
<1>5. Fill' = Fill - 1
  BY <1>1, <1>2, <1>3, <1>4
<1>6. At(i)' = (pos'["reader"] + i) % QSize /\ At(i + 1) = (r + (i + 1)) % QSize
  BY DEF At
<1>7. CASE r = Modulus - 1
  <2>1. r + (i + 1) = i + Modulus
    BY <1>1, <1>7
  <2>2. QED
    BY <1>2, <1>5, <1>6, <1>7, <2>1, SameSlot
<1>8. CASE r # Modulus - 1
  <2>1. r + (i + 1) = (r + 1) + i
    BY <1>1
  <2>2. QED
    BY <1>2, <1>5, <1>6, <1>8, <2>1
<1>9. QED
  BY <1>7, <1>8

\* ... and after a write.
LEMMA WriterAdvanced ==
  ASSUME TypeOK, TypeOK', Fill < QSize, pos' = [pos EXCEPT !["writer"] = (@ + 1) % Modulus],
         NEW i \in Nat
  PROVE  Fill' = Fill + 1 /\ At(i)' = At(i)
<1> DEFINE r == pos["reader"]  w == pos["writer"]
<1>1. /\ r \in 0 .. Modulus - 1 /\ w \in 0 .. Modulus - 1 /\ Modulus \in Nat \ {0}
      /\ QSize \in Nat \ {0} /\ Modulus >= 2 * QSize
  BY RingAssumption DEF TypeOK, Threads
<1>2. pos'["writer"] = (IF w = Modulus - 1 THEN 0 ELSE w + 1) /\ pos'["reader"] = r
  BY <1>1, Advanced DEF TypeOK, Threads
<1>3. Fill = IF w >= r THEN w - r ELSE Modulus + w - r
  BY FillIs
<1>4. Fill' = IF pos'["writer"] >= pos'["reader"] THEN pos'["writer"] - pos'["reader"]
                                       ELSE Modulus + pos'["writer"] - pos'["reader"]
  BY FillIsNext
<1>5. Fill' = Fill + 1
  BY <1>1, <1>2, <1>3, <1>4
<1>6. QED
  BY <1>2, <1>5 DEF At

-----------------------------------------------------------------------------
\* The writer has a value in transit until it has put it into its slot.
Carrying ==
  \/ pc["writer"] \in {"try", "move", "flag", "wait"}
  \/ pc["writer"] \in {"test", "clear", "post"} /\ out["writer"] = "again"

\* What each thread found out about the ring stays true until it advances: the other
\* one can only make it truer.
RingInv ==
  /\ Fill <= QSize
  /\ pc["reader"] \in {"move", "advance"} => Fill > 0
  /\ pc["writer"] \in {"move", "advance"} => Fill < QSize
  /\ pc["reader"] = "advance" => val["reader"] = slots[Slot("reader")]
  /\ pc["writer"] = "advance" => slots[Slot("writer")] \in Values
  /\ Carrying => val["writer"] \in Values

LEMMA InitRing == Init => RingInv
<1> SUFFICES ASSUME Init PROVE RingInv
  OBVIOUS
<1>1. pos["reader"] = 0 /\ pos["writer"] = 0 /\ TypeOK
  BY InitType DEF Init, Threads
<1>2. Fill = 0
  BY <1>1, FillIs
<1>3. QED
  BY <1>2, RingAssumption DEF Init, RingInv, Carrying, Threads

\* The two threads are at different slots while there is something to read and room
\* to write.
LEMMA SlotsDiffer ==
  ASSUME TypeOK, Fill > 0, Fill < QSize
  PROVE  Slot("reader") # Slot("writer")
<1>1. Fill \in Nat /\ QSize \in Nat /\ 0 + QSize = QSize
  BY FillIs, RingAssumption
<1>2. QED
  BY <1>1, SlotsAt, AtDiffers

\* A step that leaves positions and slots alone, and the thread t before its move.
LEMMA NextRing == TypeOK /\ LoopAgain /\ RingInv /\ TypeOK' /\ [Next]_vars => RingInv'
<1> SUFFICES ASSUME TypeOK, LoopAgain, RingInv, TypeOK', [Next]_vars PROVE RingInv'
  OBVIOUS
<1>0. QSize \in Nat \ {0} /\ Fill \in Nat /\ (Possible("reader") => Fill > 0)
      /\ (Possible("writer") => Fill < QSize) /\ "reader" \in Threads /\ "writer" \in Threads
      /\ "reader" # "writer"
  BY RingAssumption, FillIs DEF Possible, RingInv, Threads
<1>a. /\ pc \in [Threads -> {"idle", "try", "move", "advance", "flag", "test", "clear",
                            "post", "wait"}]
      /\ val \in [Threads -> Values \cup {NoValue}]
      /\ out \in [Threads -> {"again", "last", "ok", "fail"}]
      /\ slots \in [Slots -> Values \cup {NoValue}]
  BY DEF TypeOK
<1>b. pos' = pos => Fill' = Fill /\ \A t \in Threads : Slot(t)' = Slot(t)
  BY DEF Fill, Slot
<1>1. ASSUME NEW t \in Threads, Call(t) PROVE RingInv'
  BY <1>0, <1>a, <1>b, <1>1 DEF Call, RingInv, Carrying, Goto, Threads
<1>2. ASSUME NEW t \in Threads, Try(t) PROVE RingInv'
  <2>1. slots' = slots /\ pos' = pos /\ pc[t] = "try"
    BY <1>2 DEF Try
  <2>2. CASE Possible(t) /\ Goto(t, "move") /\ UNCHANGED <<mode, out, val>>
    BY <1>0, <1>a, <1>b, <2>1, <2>2 DEF RingInv, Carrying, Goto, Threads
  <2>3. CASE Return(t)
    BY <1>0, <1>a, <1>b, <2>1, <2>3 DEF RingInv, Carrying, Return, Goto, Threads
  <2>4. CASE Goto(t, "test") /\ out' = [out EXCEPT ![t] = "fail"] /\ UNCHANGED val
    BY <1>0, <1>a, <1>b, <2>1, <2>4 DEF RingInv, Carrying, Goto, Threads
  <2>5. CASE Goto(t, "flag") /\ UNCHANGED out /\ UNCHANGED val
    BY <1>0, <1>a, <1>b, <2>1, <2>5 DEF RingInv, Carrying, Goto, Threads
  <2>6. QED
    BY <1>2, <2>2, <2>3, <2>4, <2>5, Zenon DEF Try
<1>3. ASSUME NEW t \in Threads, Move(t) PROVE RingInv'
  <2>1. pos' = pos /\ out' = out /\ pc[t] = "move" /\ pc' = [pc EXCEPT ![t] = "advance"]
    BY <1>3 DEF Move, Goto
  <2>2. CASE t = "reader"
    <3>1. slots' = slots /\ val' = [val EXCEPT !["reader"] = slots[Slot("reader")]]
      BY <1>3, <2>2 DEF Move
    <3>2. QED
      BY <1>0, <1>a, <1>b, <2>1, <2>2, <3>1 DEF RingInv, Carrying
  <2>3. CASE t = "writer"
    <3>1. /\ slots' = [slots EXCEPT ![Slot("writer")] = val["writer"]]
          /\ val' = [val EXCEPT !["writer"] = NoValue]
      BY <1>0, <1>3, <2>3 DEF Move
    <3>2. Slot("writer") \in Slots /\ Slot("reader") \in Slots /\ val["writer"] \in Values
      BY <1>0, <2>1, <2>3, SlotRange DEF RingInv, Carrying
    <3>3. pc["reader"] = "advance" => Slot("reader") # Slot("writer")
      BY <2>1, <2>3, SlotsDiffer DEF RingInv
    <3>4. QED
      BY <1>0, <1>a, <1>b, <2>1, <2>3, <3>1, <3>2, <3>3 DEF RingInv, Carrying
  <2>4. QED
    BY <2>2, <2>3 DEF Threads
<1>4. ASSUME NEW t \in Threads, Advance(t) PROVE RingInv'
  <2>1. pc[t] = "advance" /\ pos' = [pos EXCEPT ![t] = (@ + 1) % Modulus]
    BY <1>4 DEF Advance
  <2>2. \/ pc' = [pc EXCEPT ![t] = "idle"] /\ val' = [val EXCEPT ![t] = NoValue]
        \/ /\ pc' = [pc EXCEPT ![t] = "test"] /\ val' = [val EXCEPT ![t] = NoValue]
           /\ out' = [out EXCEPT ![t] = "ok"]
    BY <1>4 DEF Advance, Return, Goto
  <2>3. \A u \in Threads \ {t} : val'[u] = val[u] /\ pc'[u] = pc[u] /\ out'[u] = out[u]
    BY <1>4, <1>a DEF Advance, Return, Goto
  <2>4. CASE t = "reader"
    <3>1. Fill' = Fill - 1 /\ Fill > 0
      BY <1>0, <2>1, <2>4, ReaderAdvanced DEF RingInv
    <3>2. slots' = [slots EXCEPT ![Slot("reader")] = NoValue]
      BY <1>4, <2>4 DEF Advance
    <3>3. Slot("writer")' = Slot("writer") /\ Slot("writer") \in Slots
      BY <1>0, <2>1, <2>4, SlotRange DEF Slot, TypeOK
    <3>4. pc["writer"] = "advance" => slots'[Slot("writer")] = slots[Slot("writer")]
      BY <1>a, <3>1, <3>2, <3>3, SlotsDiffer DEF RingInv
    <3>5. pc'["reader"] \in {"idle", "test"} /\ (Carrying' => Carrying)
      BY <1>0, <1>a, <2>2, <2>3, <2>4 DEF Carrying
    <3>6. QED
      BY <1>0, <2>3, <2>4, <3>1, <3>3, <3>4, <3>5 DEF RingInv
  <2>5. CASE t = "writer"
    <3>1. Fill' = Fill + 1 /\ Fill < QSize
      BY <1>0, <2>1, <2>5, WriterAdvanced DEF RingInv
    <3>2. slots' = slots /\ Slot("reader")' = Slot("reader")
      BY <1>0, <1>4, <2>1, <2>5 DEF Advance, Slot, TypeOK
    <3>3. pc'["writer"] \in {"idle", "test"} /\ ~Carrying'
      BY <1>0, <1>a, <2>2, <2>5 DEF Carrying
    <3>4. QED
      BY <1>0, <2>3, <2>5, <3>1, <3>2, <3>3 DEF RingInv
  <2>6. QED
    BY <2>4, <2>5 DEF Threads
<1>5. ASSUME NEW t \in Threads,
             RaiseFlag(t) \/ TestFlag(t) \/ ClearFlag(t) \/ PostSem(t) \/ WaitWoken(t)
               \/ WaitTimeout(t)
      PROVE  RingInv'
  <2>1. slots' = slots /\ pos' = pos
    BY <1>5 DEF RaiseFlag, TestFlag, ClearFlag, PostSem, WaitWoken, WaitTimeout
  <2>2. CASE TestFlag(t) \/ PostSem(t)
    <3>1. CASE Goto(t, "clear") /\ UNCHANGED <<out, val>> /\ pc[t] = "test"
      BY <1>0, <1>a, <1>b, <2>1, <3>1 DEF RingInv, Carrying, Goto, Threads
    <3>2. CASE Goto(t, "wait") /\ UNCHANGED <<out, val>> /\ out[t] = "again" /\ pc[t] \in {"test", "post"}
      BY <1>0, <1>a, <1>b, <2>1, <3>2 DEF RingInv, Carrying, Goto, Threads
    <3>3. CASE Return(t)
      BY <1>0, <1>a, <1>b, <2>1, <3>3 DEF RingInv, Carrying, Return, Goto, Threads
    <3>4. QED
      BY <2>2, <3>1, <3>2, <3>3, Zenon DEF TestFlag, PostSem, Proceed
  <2>3. CASE RaiseFlag(t) \/ ClearFlag(t) \/ WaitWoken(t)
    BY <1>0, <1>a, <1>b, <2>1, <2>3
       DEF RingInv, Carrying, Goto, Threads, RaiseFlag, ClearFlag, WaitWoken, LoopAgain
  <2>4. CASE WaitTimeout(t)
    BY <1>0, <1>a, <1>b, <2>1, <2>4 DEF RingInv, Carrying, Goto, Threads, WaitTimeout
  <2>5. QED
    BY <1>5, <2>2, <2>3, <2>4
<1>6. CASE UNCHANGED vars
  BY <1>0, <1>b, <1>6 DEF vars, RingInv, Carrying
<1>7. QED
  BY <1>1, <1>2, <1>3, <1>4, <1>5, <1>6 DEF Next, Step

-----------------------------------------------------------------------------
LEMMA RingHolds == Spec => [](TypeOK /\ LoopAgain /\ RingInv)
<1>1. Init => LoopAgain
  BY InitWake DEF WakeInv
<1>2. QED
  BY <1>1, InitType, NextType, NextLoop, InitRing, NextRing, PTL DEF Spec

\* "thread safe for only one reader & writer": the two threads are never about to
\* access the same slot, whatever the size of the ring and the width of a position.
THEOREM QueueNoSlotRace == Spec => []NoSlotRace
<1>1. TypeOK /\ RingInv => NoSlotRace
  BY SlotsDiffer DEF RingInv, NoSlotRace
<1>2. QED
  BY <1>1, RingHolds, PTL

-----------------------------------------------------------------------------
(* The ring implements the queue.                                          *)

LEMMA ContentIs ==
  ASSUME TypeOK
  PROVE  /\ Content \in Seq(Values \cup {NoValue}) /\ Len(Content) = Fill
         /\ \A i \in 1 .. Fill : Content[i] = slots[At(i - 1)]
<1>1. Fill \in Nat
  BY FillIs
<1>2. ASSUME NEW i \in 1 .. Fill
      PROVE  /\ slots[(pos["reader"] + i - 1) % QSize] = slots[At(i - 1)]
             /\ slots[At(i - 1)] \in Values \cup {NoValue}
  <2>1. pos["reader"] + i - 1 = pos["reader"] + (i - 1) /\ i - 1 \in Nat
    BY <1>1 DEF TypeOK, Threads
  <2>2. At(i - 1) \in Slots
    BY <2>1, AtRange
  <2>3. QED
    BY <2>1, <2>2 DEF At, TypeOK
<1>3. Content \in [1 .. Fill -> Values \cup {NoValue}]
  BY <1>2 DEF Content
<1>4. Content \in Seq(Values \cup {NoValue})
  BY <1>1, <1>3, SeqDef
<1>5. Len(Content) = Fill
  BY <1>1, <1>3, <1>4, LenProperties
<1>6. QED
  BY <1>2, <1>4, <1>5 DEF Content

LEMMA ContentIsNext ==
  TypeOK' => /\ Content' \in Seq(Values \cup {NoValue}) /\ Len(Content') = Fill'
             /\ \A i \in 1 .. Fill' : Content'[i] = slots'[At(i - 1)']
<1> DEFINE Holds == /\ Content \in Seq(Values \cup {NoValue}) /\ Len(Content) = Fill
                    /\ \A i \in 1 .. Fill : Content[i] = slots[At(i - 1)]
<1>1. TypeOK => Holds
  BY ContentIs
<1>2. TypeOK' => Holds'
  <2> HIDE DEF Holds
  <2>1. QED
    BY <1>1, PTL
<1>3. QED
  BY <1>2

\* Writing a slot changes no value that is to be read, whether the slot is the
\* writer's or the one the reader leaves.
LEMMA ContentKept ==
  ASSUME TypeOK, TypeOK', pos' = pos,
         slots' = slots \/ (Fill < QSize /\ \E v : slots' = [slots EXCEPT ![Slot("writer")] = v])
  PROVE  Content' = Content
<1>1. Fill \in Nat /\ QSize \in Nat /\ Fill' = Fill /\ \A i : At(i)' = At(i)
  BY FillIs, RingAssumption DEF Fill, At
<1>2. ASSUME NEW i \in 1 .. Fill PROVE slots'[At(i - 1)] = slots[At(i - 1)]
  <2>1. i - 1 \in Nat /\ i - 1 < Fill
    BY <1>1
  <2>2. CASE slots' = slots
    BY <2>2
  <2>3. CASE Fill < QSize /\ \E v : slots' = [slots EXCEPT ![Slot("writer")] = v]
    <3>1. Fill < (i - 1) + QSize
      BY <1>1, <2>1, <2>3
    <3>2. At(i - 1) # At(Fill)
      BY <1>1, <2>1, <3>1, AtDiffers
    <3>3. At(i - 1) \in Slots /\ Slot("writer") = At(Fill)
      BY <2>1, AtRange, SlotsAt
    <3>4. QED
      BY <2>3, <3>2, <3>3 DEF TypeOK
  <2>4. QED
    BY <2>2, <2>3
<1>3. /\ Content \in Seq(Values \cup {NoValue}) /\ Len(Content) = Fill
      /\ \A i \in 1 .. Fill : Content[i] = slots[At(i - 1)]
  BY ContentIs
<1>4. /\ Content' \in Seq(Values \cup {NoValue}) /\ Len(Content') = Fill
      /\ \A i \in 1 .. Fill : Content'[i] = slots'[At(i - 1)]
  BY <1>1, ContentIsNext
<1>5. \A i \in 1 .. Fill : Content'[i] = Content[i]
  BY <1>2, <1>3, <1>4
<1>6. QED
  BY <1>3, <1>4, <1>5, SeqEqual

LEMMA ContentAppended ==
  ASSUME TypeOK, TypeOK', Fill < QSize, slots' = slots,
         pos' = [pos EXCEPT !["writer"] = (@ + 1) % Modulus]
  PROVE  Content' = Append(Content, slots[Slot("writer")])
<1> DEFINE v == slots[Slot("writer")]  C == Append(Content, v)
<1>1. Fill \in Nat /\ Fill' = Fill + 1 /\ \A i \in Nat : At(i)' = At(i)
  BY FillIs, WriterAdvanced
<1>2. v = slots[At(Fill)] /\ v \in Values \cup {NoValue}
  <2>1. "writer" \in Threads
    BY DEF Threads
  <2>2. QED
    BY <2>1, SlotsAt, SlotRange DEF TypeOK
<1>3. /\ Content \in Seq(Values \cup {NoValue}) /\ Len(Content) = Fill
      /\ \A i \in 1 .. Fill : Content[i] = slots[At(i - 1)]
  BY ContentIs
<1> HIDE DEF v
<1>4. /\ C \in Seq(Values \cup {NoValue}) /\ Len(C) = Fill + 1
      /\ \A i \in 1 .. Fill : C[i] = Content[i]
      /\ C[Fill + 1] = v
  BY <1>2, <1>3, AppendProperties
<1>5. /\ Content' \in Seq(Values \cup {NoValue}) /\ Len(Content') = Fill + 1
      /\ \A i \in 1 .. Fill + 1 : Content'[i] = slots[At(i - 1)']
  BY <1>1, ContentIsNext
<1> HIDE DEF C
<1>6. ASSUME NEW i \in 1 .. Fill + 1 PROVE Content'[i] = C[i]
  <2>1. i - 1 \in Nat /\ At(i - 1)' = At(i - 1)
    BY <1>1
  <2>2. CASE i = Fill + 1
    <3>1. i - 1 = Fill
      BY <1>1, <2>2
    <3>2. QED
      BY <1>2, <1>4, <1>5, <2>1, <2>2, <3>1
  <2>3. CASE i # Fill + 1
    <3>1. i \in 1 .. Fill
      BY <1>1, <2>3
    <3>2. QED
      BY <1>3, <1>4, <1>5, <2>1, <3>1
  <2>4. QED
    BY <2>2, <2>3
<1>7. Content' = C
  BY <1>4, <1>5, <1>6, SeqEqual
<1>8. QED
  BY <1>7 DEF C, v

LEMMA ContentTaken ==
  ASSUME TypeOK, TypeOK', Fill > 0, Fill <= QSize,
         slots' = [slots EXCEPT ![Slot("reader")] = NoValue],
         pos' = [pos EXCEPT !["reader"] = (@ + 1) % Modulus]
  PROVE  /\ Content # <<>> /\ Head(Content) = slots[Slot("reader")]
         /\ Content' = Tail(Content)
<1>1. Fill \in Nat /\ QSize \in Nat /\ Fill' = Fill - 1 /\ \A i \in Nat : At(i)' = At(i + 1)
  BY FillIs, RingAssumption, ReaderAdvanced
<1>2. /\ Content \in Seq(Values \cup {NoValue}) /\ Len(Content) = Fill
      /\ \A i \in 1 .. Fill : Content[i] = slots[At(i - 1)]
  BY ContentIs
<1>3. Content # <<>> /\ Head(Content) = Content[1]
  BY <1>1, <1>2, EmptySeq
<1>4. Head(Content) = slots[Slot("reader")]
  BY <1>1, <1>2, <1>3, SlotsAt
<1> DEFINE T == Tail(Content)
<1>5. /\ T \in Seq(Values \cup {NoValue}) /\ Len(T) = Fill - 1
      /\ \A i \in 1 .. Fill - 1 : T[i] = Content[i + 1]
  BY <1>2, <1>3, HeadTailProperties
<1>6. /\ Content' \in Seq(Values \cup {NoValue}) /\ Len(Content') = Fill - 1
      /\ \A i \in 1 .. Fill - 1 : Content'[i] = slots'[At(i - 1)']
  BY <1>1, ContentIsNext
<1> HIDE DEF T
<1>7. ASSUME NEW i \in 1 .. Fill - 1 PROVE Content'[i] = T[i]
  <2>1. i - 1 \in Nat /\ (i - 1) + 1 = i /\ i \in Nat /\ i + 1 \in 1 .. Fill /\ (i + 1) - 1 = i
    BY <1>1
  <2>2. Content'[i] = slots'[At(i)]
    BY <1>1, <1>6, <2>1
  <2>3. T[i] = slots[At(i)]
    BY <1>2, <1>5, <2>1
  <2>4. 0 < i /\ i < 0 + QSize
    BY <1>1
  <2>5. At(i) # At(0) /\ At(i) \in Slots /\ Slot("reader") = At(0)
    BY <2>1, <2>4, AtDiffers, AtRange, SlotsAt
  <2>6. slots'[At(i)] = slots[At(i)]
    BY <2>5 DEF TypeOK
  <2>7. QED
    BY <2>2, <2>3, <2>6
<1>8. Content' = T
  BY <1>5, <1>6, <1>7, SeqEqual
<1>9. QED
  BY <1>3, <1>4, <1>8 DEF T

LEMMA InitFifo == Init => Fifo!Init
<1> SUFFICES ASSUME Init PROVE Content = <<>> /\ last = NoValue
  BY DEF Fifo!Init
<1>1. TypeOK /\ Fill = 0
  <2>1. TypeOK /\ pos["reader"] = 0 /\ pos["writer"] = 0
    BY InitType DEF Init, Threads
  <2>2. QED
    BY <2>1, FillIs
<1>2. Content \in Seq(Values \cup {NoValue}) /\ Len(Content) = 0
  BY <1>1, ContentIs
<1>3. QED
  BY <1>2, EmptySeq DEF Init

LEMMA NextFifo ==
  TypeOK /\ RingInv /\ TypeOK' /\ [Next]_vars => [Fifo!Next]_(Fifo!vars)
<1> SUFFICES ASSUME TypeOK, RingInv, TypeOK', [Next]_vars
             PROVE  Fifo!Next \/ (Content' = Content /\ last' = last)
  BY DEF Fifo!vars
<1>0. QSize \in Nat /\ Fill \in Nat /\ Len(Content) = Fill
  BY RingAssumption, FillIs, ContentIs
<1>1. ASSUME NEW t \in Threads, Call(t)
      PROVE  Fifo!Next \/ (Content' = Content /\ last' = last)
  <2>1. Content' = Content
    BY <1>1, ContentKept DEF Call
  <2>2. last' = NoValue \/ last' = last
    BY <1>1 DEF Call
  <2>3. QED
    BY <2>1, <2>2 DEF Fifo!Next, Fifo!Ask
<1>2. ASSUME NEW t \in Threads, Move(t) PROVE Content' = Content /\ last' = last
  <2>1. pos' = pos /\ last' = last /\ pc[t] = "move"
    BY <1>2 DEF Move
  <2>2. CASE t = "reader"
    BY <1>2, <2>1, <2>2, ContentKept DEF Move
  <2>3. CASE t = "writer"
    <3>1. slots' = [slots EXCEPT ![Slot("writer")] = val["writer"]]
      BY <1>2, <2>3 DEF Move
    <3>2. Fill < QSize
      BY <2>1, <2>3 DEF RingInv
    <3>3. QED
      BY <2>1, <3>1, <3>2, ContentKept
  <2>4. QED
    BY <2>2, <2>3 DEF Threads
<1>3. CASE Advance("reader")
  <2>1. /\ pc["reader"] = "advance" /\ pos' = [pos EXCEPT !["reader"] = (@ + 1) % Modulus]
        /\ last' = val["reader"] /\ slots' = [slots EXCEPT ![Slot("reader")] = NoValue]
    BY <1>3 DEF Advance
  <2>2. Fill > 0 /\ Fill <= QSize /\ val["reader"] = slots[Slot("reader")]
    BY <2>1 DEF RingInv
  <2>3. Fifo!Get
    BY <2>1, <2>2, ContentTaken DEF Fifo!Get
  <2>4. QED
    BY <2>3 DEF Fifo!Next
<1>4. CASE Advance("writer")
  <2>1. /\ pc["writer"] = "advance" /\ pos' = [pos EXCEPT !["writer"] = (@ + 1) % Modulus]
        /\ last' = last /\ slots' = slots
    BY <1>4 DEF Advance
  <2>2. Fill < QSize /\ slots[Slot("writer")] \in Values
    BY <2>1 DEF RingInv
  <2>3. Fifo!Put(slots[Slot("writer")])
    BY <1>0, <2>1, <2>2, ContentAppended DEF Fifo!Put
  <2>4. QED
    BY <2>2, <2>3 DEF Fifo!Next
<1>5. ASSUME NEW t \in Threads,
             Try(t) \/ RaiseFlag(t) \/ TestFlag(t) \/ ClearFlag(t) \/ PostSem(t) \/ WaitWoken(t)
               \/ WaitTimeout(t)
      PROVE  Content' = Content /\ last' = last
  <2>1. slots' = slots /\ pos' = pos /\ last' = last
    BY <1>5 DEF Try, RaiseFlag, TestFlag, ClearFlag, PostSem, WaitWoken, WaitTimeout
  <2>2. QED
    BY <2>1, ContentKept
<1>6. CASE UNCHANGED vars
  BY <1>6, ContentKept DEF vars
<1>7. QED
  BY <1>1, <1>2, <1>3, <1>4, <1>5, <1>6 DEF Next, Step, Threads

\* netsvc_rdwrq is a bounded FIFO queue for its one reader and its one writer: every
\* value once and in order, none overwritten before it is read, for every ring size,
\* across every wrap-around of the positions.
THEOREM QueueImplementsFifo == Spec => ImplementsFifo
<1>1. Init => Fifo!Init
  BY InitFifo
<1>2. TypeOK /\ RingInv /\ TypeOK' /\ [Next]_vars => [Fifo!Next]_(Fifo!vars)
  BY NextFifo
<1>3. QED
  BY <1>1, <1>2, RingHolds, PTL DEF Spec, ImplementsFifo, Fifo!Spec
=============================================================================
