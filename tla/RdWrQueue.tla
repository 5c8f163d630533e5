----------------------------- MODULE RdWrQueue -----------------------------
(***************************************************************************)
(* netsvc/linux/netsvc_rdwrq.cpp and netsvc/win/netsvc_rdwrq.cpp: a ring   *)
(* for one reader thread and one writer thread without a lock.  A position *)
(* is an unsigned long, here modulo Modulus; a slot is written and a       *)
(* position is advanced in two separate memory accesses, in the order of   *)
(* the source (netsvc_rdwrq.o stores _valptr before _wpos, and x86 does    *)
(* not reorder stores).                                                    *)
(*                                                                         *)
(* read and write are alike: try; if the ring is empty (full) raise the    *)
(* own flag, wake the other thread if its flag is raised, and wait before  *)
(* the next try.  Flag tests and wake-ups are steps of their own.  The two *)
(* files differ in what the threads wait on: a semaphore, for 10 ms at     *)
(* most, or an auto-reset event, which a blocking call waits for without   *)
(* an end.                                                                 *)
(***************************************************************************)
EXTENDS Naturals, Sequences

CONSTANTS
  Values, NoValue,
  Platforms,        \* which of the two files is built: "linux", "windows"
  QSize,            \* _qsize, a power of two
  Modulus           \* 2^w for a w-bit unsigned long

ASSUME RingAssumption ==
  /\ NoValue \notin Values /\ Platforms \subseteq {"linux", "windows"}
  /\ QSize \in Nat \ {0} /\ Modulus \in Nat
  /\ Modulus % QSize = 0 /\ Modulus >= 2 * QSize

Threads == {"reader", "writer"}
Other(t) == IF t = "reader" THEN "writer" ELSE "reader"
Slots == 0 .. QSize - 1

VARIABLES
  slots,            \* _queue
  pos,              \* _rpos and _wpos
  flag,             \* _rwflag and _wwflag
  platform,         \* never changes
  sem,              \* values of _cond1 (the reader waits) and _cond2; an event is 0 or 1
  pc,               \* where the thread is in _read/read, _write/write
  mode,             \* the call: "try" (_read, _write), "block" (waittm < 0), "timed"
  out,              \* "again": in the loop; "last": timed out, one more try;
                    \* "ok", "fail": about to return
  val,              \* the value in transit, NoValue when it is not needed any more
  last              \* value the reader got from its last call

vars == <<platform, slots, pos, flag, sem, pc, mode, out, val, last>>

TypeOK ==
  /\ platform \in Platforms
  /\ slots \in [Slots -> Values \cup {NoValue}]
  /\ pos \in [Threads -> 0 .. Modulus - 1]
  /\ flag \in [Threads -> {0, 1}]
  /\ sem \in [Threads -> Nat]
  /\ pc \in [Threads -> {"idle", "try", "move", "advance", "flag", "test", "clear",
                         "post", "wait"}]
  /\ mode \in [Threads -> {"try", "block", "timed"}]
  /\ out \in [Threads -> {"again", "last", "ok", "fail"}]
  /\ val \in [Threads -> Values \cup {NoValue}]
  /\ last \in Values \cup {NoValue}

\* init: the reader's flag is raised from the start.
Init ==
  /\ platform \in Platforms
  /\ slots = [s \in Slots |-> NoValue]
  /\ pos = [t \in Threads |-> 0]
  /\ flag = [t \in Threads |-> IF t = "reader" THEN 1 ELSE 0]
  /\ sem = [t \in Threads |-> 0]
  /\ pc = [t \in Threads |-> "idle"]
  /\ mode = [t \in Threads |-> "try"]
  /\ out = [t \in Threads |-> "again"]
  /\ val = [t \in Threads |-> NoValue]
  /\ last = NoValue

Fill == (Modulus + pos["writer"] - pos["reader"]) % Modulus

\* Mutant: one slot more than there is.
LeftOneMore == (QSize + 1 + Modulus - pos["writer"] + pos["reader"]) % Modulus
Left == (QSize + Modulus - pos["writer"] + pos["reader"]) % Modulus
Slot(t) == pos[t] % QSize
Goto(t, label) == pc' = [pc EXCEPT ![t] = label]

\* The call returns, its locals are gone.
Return(t) ==
  /\ Goto(t, "idle")
  /\ mode' = [mode EXCEPT ![t] = "try"]
  /\ out' = [out EXCEPT ![t] = "again"]
  /\ val' = [val EXCEPT ![t] = NoValue]

-----------------------------------------------------------------------------
\* Mutant: a full ring looks empty to the writer.
PossibleUnchecked(t) == IF t = "reader" THEN Fill # 0 ELSE TRUE

\* fillsz != 0 for _read, leftsz != 0 for _write.
Possible(t) == IF t = "reader" THEN Fill # 0 ELSE Left # 0

Call(t) ==
  /\ pc[t] = "idle"
  /\ \E m \in {"try", "block", "timed"} : mode' = [mode EXCEPT ![t] = m]
  /\ IF t = "writer" THEN \E v \in Values : val' = [val EXCEPT ![t] = v]
                     ELSE UNCHANGED val
  /\ last' = IF t = "reader" THEN NoValue ELSE last
  /\ Goto(t, "try")
  /\ UNCHANGED <<slots, pos, flag, sem, out>>

Try(t) ==
  /\ pc[t] = "try"
  /\ \/ Possible(t) /\ Goto(t, "move") /\ UNCHANGED <<mode, out, val>>
     \/ ~Possible(t) /\ mode[t] = "try" /\ Return(t)
     \/ /\ ~Possible(t) /\ mode[t] # "try" /\ UNCHANGED <<mode, val>>
        /\ \/ out[t] = "last" /\ Goto(t, "test") /\ out' = [out EXCEPT ![t] = "fail"]
           \/ out[t] # "last" /\ Goto(t, "flag") /\ UNCHANGED out
  /\ UNCHANGED <<slots, pos, flag, sem, last>>

\* getval or setval
Move(t) ==
  /\ pc[t] = "move"
  /\ IF t = "reader"
     THEN val' = [val EXCEPT ![t] = slots[Slot(t)]] /\ UNCHANGED slots
     ELSE slots' = [slots EXCEPT ![Slot(t)] = val[t]] /\ val' = [val EXCEPT ![t] = NoValue]
  /\ Goto(t, "advance")
  /\ UNCHANGED <<pos, flag, sem, mode, out, last>>

\* _rpos++ or _wpos++.  What the reader has taken stays in its slot, where nobody may look
\* at it again: NoValue here.
Advance(t) ==
  /\ pc[t] = "advance"
  /\ pos' = [pos EXCEPT ![t] = (@ + 1) % Modulus]
  /\ IF t = "reader"
     THEN last' = val[t] /\ slots' = [slots EXCEPT ![Slot(t)] = NoValue]
     ELSE UNCHANGED <<last, slots>>
  /\ IF mode[t] = "try" THEN Return(t)
     ELSE /\ Goto(t, "test") /\ out' = [out EXCEPT ![t] = "ok"]
          /\ val' = [val EXCEPT ![t] = NoValue] /\ UNCHANGED mode
  /\ UNCHANGED <<flag, sem>>

RaiseFlag(t) ==
  /\ pc[t] = "flag"
  /\ flag' = [flag EXCEPT ![t] = 1]
  /\ Goto(t, "test")
  /\ UNCHANGED <<slots, pos, sem, mode, out, val, last>>

\* After waking the other thread, in the loop or on the way out.
Proceed(t) ==
  IF out[t] = "again" THEN Goto(t, "wait") /\ UNCHANGED <<mode, out, val>> ELSE Return(t)

TestFlag(t) ==
  /\ pc[t] = "test"
  /\ IF flag[Other(t)] = 1 THEN Goto(t, "clear") /\ UNCHANGED <<mode, out, val>>
                           ELSE Proceed(t)
  /\ UNCHANGED <<slots, pos, flag, sem, last>>

\* Mutant: the flag of the thread that is woken stays raised.
ClearFlagNever(t) ==
  /\ pc[t] = "clear"
  /\ Goto(t, "post")
  /\ UNCHANGED <<slots, pos, flag, sem, mode, out, val, last>>

ClearFlag(t) ==
  /\ pc[t] = "clear"
  /\ flag' = [flag EXCEPT ![Other(t)] = 0]
  /\ Goto(t, "post")
  /\ UNCHANGED <<slots, pos, sem, mode, out, val, last>>

\* sem_post counts; SetEvent on an event that is set changes nothing.
PostSem(t) ==
  /\ pc[t] = "post"
  /\ sem' = [sem EXCEPT ![Other(t)] = IF platform = "windows" THEN 1 ELSE @ + 1]
  /\ Proceed(t)
  /\ UNCHANGED <<slots, pos, flag, last>>

WaitWoken(t) ==
  /\ pc[t] = "wait" /\ sem[t] > 0
  /\ sem' = [sem EXCEPT ![t] = @ - 1]
  /\ Goto(t, "try")
  /\ UNCHANGED <<slots, pos, flag, mode, out, val, last>>

\* Mutant: every wait is without an end.
WaitTimeoutNever(t) == FALSE

\* ETIMEDOUT or WAIT_TIMEOUT: a timed call tries once more.  A blocking one goes on
\* waiting, and on Windows it waits INFINITE from the start.
WaitTimeout(t) ==
  /\ pc[t] = "wait" /\ sem[t] = 0
  /\ platform = "linux" \/ mode[t] = "timed"
  /\ out' = [out EXCEPT ![t] = IF mode[t] = "timed" THEN "last" ELSE "again"]
  /\ Goto(t, "try")
  /\ UNCHANGED <<slots, pos, flag, sem, mode, val, last>>

Step(t) ==
  \/ Try(t) \/ Move(t) \/ Advance(t)
  \/ RaiseFlag(t) \/ TestFlag(t) \/ ClearFlag(t) \/ PostSem(t)
  \/ WaitWoken(t) \/ WaitTimeout(t)

Next == UNCHANGED platform /\ \E t \in Threads : Call(t) \/ Step(t)

Spec == Init /\ [][Next]_vars

\* A thread in a call is scheduled, and a wait with a timeout returns; nothing makes a
\* thread call.
FairSpec == Spec /\ \A t \in Threads : WF_vars(UNCHANGED platform /\ Step(t))

-----------------------------------------------------------------------------
\* The values between the two positions, oldest first.
Content == [i \in 1 .. Fill |-> slots[(pos["reader"] + i - 1) % QSize]]

Fifo == INSTANCE BoundedFifo WITH queue <- Content, Capacity <- QSize

\* Without a lock, and across the wrap-around of both positions, the reader gets
\* every value once and in order, and the writer never overwrites an unread one.
ImplementsFifo == Fifo!Spec

\* "thread safe for only one reader & writer": the two threads are never about to
\* access the same slot.
NoSlotRace ==
  ~(pc["reader"] = "move" /\ pc["writer"] = "move" /\ Slot("reader") = Slot("writer"))

\* Wake-ups of t that are posted, being posted or asked for by the raised flag.
Wakeups(t) ==
  sem[t] + flag[t] + (IF pc[Other(t)] = "post" THEN 1 ELSE 0)

\* t has raised its flag and is on its way to the wait.
Waiting(t) == out[t] = "again" /\ pc[t] \in {"test", "clear", "post", "wait"}

\* Wake-ups nobody waited for do not pile up in a semaphore, however long the
\* queue is used and however a timeout races with the post.
WakeupsBounded ==
  \A t \in Threads : Wakeups(t) <= IF Waiting(t) THEN 3 ELSE 2

\* t waits in a blocking call on Windows, with nothing that would wake it.
Unwoken(t) ==
  platform = "windows" /\ mode[t] = "block" /\ pc[t] = "wait" /\ sem[t] = 0

\* A raised flag can be missed: the other thread tests it before it is raised. A timed
\* wait bounds the damage: a read or write with waittm >= 0 returns, and so does a
\* blocking one unless the ring is not ready for it, or, on Windows, unless its wake-up
\* was missed.
CallReturns ==
  \A t \in Threads :
    pc[t] # "idle" ~>
      pc[t] = "idle" \/ (mode[t] = "block" /\ ~Possible(t)) \/ Unwoken(t)
=============================================================================
