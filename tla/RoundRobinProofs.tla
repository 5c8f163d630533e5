-------------------------- MODULE RoundRobinProofs --------------------------
(***************************************************************************)
(* Two vectors that an index goes round: the hosts of MongoPool, for any   *)
(* number of them and any outcome of start, and the workers of UdpService, *)
(* for any number of them, of datagrams and of packets in a queue.         *)
(***************************************************************************)
EXTENDS UdpService, MongoPool, Integers, SequenceTheorems, TLAPS

-----------------------------------------------------------------------------
(* MongoPool *)

\* An index stays below the size of the vector that bounds it, or is 0.
IndexInv ==
  /\ plain \in Nat
  /\ \E n \in Nat : slaves \in [1 .. n -> Hosts]
  /\ {conn, fs, connSlave, fsSlave} \subseteq Nat
  /\ conn = fs /\ connSlave = fsSlave
  /\ fs < plain \/ fs = 0
  /\ fsSlave < Len(slaves) \/ fsSlave = 0
  /\ NeverUndefined

LEMMA RotateBounded ==
  ASSUME NEW index \in Nat, NEW length \in Nat
  PROVE  /\ Rotate(index, length) \in Nat
         /\ Rotate(index, length) < length \/ Rotate(index, length) = 0
  BY DEF Rotate

LEMMA InitIndex == PoolInit => IndexInv
  BY HostsAssumption DEF PoolInit, IndexInv, Hosts, NeverUndefined

LEMMA NextIndex == IndexInv /\ [PoolNext]_poolVars => IndexInv'
<1> SUFFICES ASSUME IndexInv, [PoolNext]_poolVars PROVE IndexInv'
  OBVIOUS
<1> USE DEF IndexInv, NeverUndefined
<1>1. PICK n \in Nat : slaves \in [1 .. n -> Hosts]
  OBVIOUS
<1>2. Len(slaves) = n
  BY <1>1
<1>3. CASE UNCHANGED indices /\ UNCHANGED pool /\ pc' # "undefined"
  BY <1>3 DEF indices, pool
<1>4. CASE RotatePlain /\ UNCHANGED pool /\ pc' = "idle"
  BY <1>4, RotateBounded DEF RotatePlain, pool
<1>5. CASE RotateSlave /\ UNCHANGED pool /\ pc' = "idle"
  <2>1. Rotate(fsSlave, n) \in Nat /\ (Rotate(fsSlave, n) < n \/ Rotate(fsSlave, n) = 0)
    <3>1. fsSlave \in Nat
      OBVIOUS
    <3>2. QED
      BY <3>1, RotateBounded
  <2>2. QED
    BY <1>1, <1>2, <1>5, <2>1 DEF RotateSlave, pool
<1>6. CASE Undefined
  <2>1. ~(slaves # <<>> /\ plain <= Len(slaves))
    BY <1>1, <1>2, <1>6 DEF Undefined, Valid
  <2>2. QED
    BY <1>6, <2>1 DEF Undefined, indices, pool
<1>7. CASE UNCHANGED poolVars
  BY <1>7 DEF poolVars, indices, pool
<1>8. CASE HostsChange
  BY <1>8 DEF HostsChange, indices, pool
<1>9. QED
  BY <1>3, <1>4, <1>5, <1>6, <1>7, <1>8
     DEF PoolNext, Call, FirstAnswers, FirstThrows, SecondAnswers, FindSecondThrows,
         GetSecondThrows, StoreFile, Update, StoreThrows

\* A store uses one and the same connection for both of its writes, and what a
\* failure renews is what the lookup used.
THEOREM PoolPaired == PoolSpec => []Paired
<1>1. IndexInv => Paired
  BY DEF IndexInv, Paired
<1>2. QED
  BY <1>1, InitIndex, NextIndex, PTL DEF PoolSpec

\* With a connection of the second kind, and no fewer of them than of the first,
\* get_connector and get_fs never leave a vector, however often the indices are moved.
THEOREM PoolDefined == PoolSpec => []NeverUndefined
<1>1. IndexInv => NeverUndefined
  BY DEF IndexInv, NeverUndefined
<1>2. QED
  BY <1>1, InitIndex, NextIndex, PTL DEF PoolSpec

-----------------------------------------------------------------------------
\* How many steps an index makes from position k of length positions to where it is, at least
\* one: a whole round if it is there now.
Behind(k, index, length) == IF k < index THEN index - k ELSE index + length - k

\* The last failed calls in a row were on the positions just passed, and those hosts are down.
PassedDown(failures, index, length) ==
  \A k \in Nat :
    k < length /\ Behind(k, index, length) <= failures
      => k < Len(slaves) /\ slaves[k + 1] \notin up

\* The second access of a lookup comes after an answer on the slave index: what get_pic
\* moves there by mistake follows no failure.
RoundInv ==
  /\ PoolTypeOK
  /\ fs < plain \/ fs = 0
  /\ fsSlave < Len(slaves) \/ fsSlave = 0
  /\ conn = fs /\ connSlave = fsSlave
  /\ PassedDown(missed, fs, plain)
  /\ PassedDown(missedSlave, fsSlave, Len(slaves))
  /\ pc = "second" => missedSlave = 0

\* One step of an index.
LEMMA BehindRotated ==
  ASSUME NEW k \in Nat, NEW index \in Nat, NEW length \in Nat, k < length,
         index < length
  PROVE  Behind(k, Rotate(index, length), length)
           = IF k = index THEN 1 ELSE Behind(k, index, length) + 1
  BY DEF Behind, Rotate

\* A failure on a host that is down, followed by a step of the index.
LEMMA FailurePasses ==
  ASSUME NEW failures \in Nat, NEW index \in Nat, NEW length \in Nat,
         index < length \/ (length = 0 /\ index = 0),
         PassedDown(failures, index, length),
         Valid(index), Throws(index)
  PROVE  PassedDown(failures + 1, Rotate(index, length), length)
<1> SUFFICES ASSUME NEW k \in Nat, k < length,
                    Behind(k, Rotate(index, length), length) <= failures + 1
             PROVE  k < Len(slaves) /\ slaves[k + 1] \notin up
  BY DEF PassedDown
<1>1. index < length
  OBVIOUS
<1>2. CASE k = index
  BY <1>2 DEF Valid, Throws
<1>3. CASE k # index
  <2>1. Behind(k, index, length) + 1 <= failures + 1
    BY <1>1, <1>3, BehindRotated
  <2>2. Behind(k, index, length) \in Int
    BY <1>1 DEF Behind
  <2>3. Behind(k, index, length) <= failures
    BY <2>1, <2>2
  <2>4. QED
    BY <2>3 DEF PassedDown
<1>4. QED
  BY <1>2, <1>3

\* Without a failure in a row there is nothing to say.
LEMMA NonePassed ==
  ASSUME NEW index \in Nat, NEW length \in Nat, index < length \/ index = 0
  PROVE  PassedDown(0, index, length)
<1>1. \A k \in Nat : k < length => Behind(k, index, length) \in Nat /\ Behind(k, index, length) > 0
  BY DEF Behind
<1>2. QED
  BY <1>1 DEF PassedDown

\* After a whole round, no host is left.
LEMMA WholeRound ==
  ASSUME NEW failures \in Nat, NEW index \in Nat, NEW length \in Nat, NEW i \in Nat,
         index < length \/ index = 0, 1 <= i, i <= length, slaves[i] \in up,
         PassedDown(failures, index, length)
  PROVE  failures < length
<1> SUFFICES ASSUME failures >= length PROVE FALSE
  OBVIOUS
<1>1. i - 1 \in Nat /\ i - 1 < length /\ (i - 1) + 1 = i
  OBVIOUS
<1>2. Behind(i - 1, index, length) \in Int /\ Behind(i - 1, index, length) <= length
  BY <1>1 DEF Behind
<1>3. Behind(i - 1, index, length) <= failures
  BY <1>2
<1>4. QED
  BY <1>1, <1>3 DEF PassedDown

LEMMA InitRound == PoolInit => RoundInv
<1> SUFFICES ASSUME PoolInit PROVE RoundInv
  OBVIOUS
<1>1. PICK n \in 0 .. NHosts : slaves \in [1 .. n -> Hosts]
  BY DEF PoolInit
<1>2. slaves \in Seq(Hosts) /\ Len(slaves) = n /\ n \in 0 .. NHosts
  BY <1>1, HostsAssumption DEF Hosts
<1>3. PoolTypeOK
  BY <1>2, HostsAssumption DEF PoolInit, PoolTypeOK
<1>4. PassedDown(missed, fs, plain) /\ PassedDown(missedSlave, fsSlave, Len(slaves))
  BY <1>2, <1>3, NonePassed DEF PoolInit, PoolTypeOK
<1>5. QED
  BY <1>2, <1>3, <1>4 DEF PoolInit, RoundInv

\* What the cases below need to know of the types.
LEMMA RoundTypes ==
  ASSUME RoundInv
  PROVE  /\ plain \in Nat /\ plain <= NHosts
         /\ Len(slaves) \in Nat /\ Len(slaves) <= NHosts
         /\ conn \in Nat /\ fs \in Nat /\ connSlave \in Nat /\ fsSlave \in Nat
         /\ fs < plain \/ fs = 0
         /\ fsSlave < Len(slaves) \/ fsSlave = 0
         /\ missed \in Nat /\ missedSlave \in Nat
  BY HostsAssumption DEF RoundInv, PoolTypeOK

\* A failed store or findfile: the plain index moves on, and the count with it.
LEMMA PlainFailure ==
  ASSUME RoundInv, RotatePlain, UNCHANGED <<pool, up, op, missedSlave>>,
         pc' = "idle", missed' = missed + 1, Valid(fs), Throws(fs)
  PROVE  RoundInv'
<1> USE RoundTypes
<1>1. plain' = plain /\ slaves' = slaves /\ up' = up
  BY DEF pool
<1>2. /\ fs' = Rotate(fs, plain) /\ conn' = Rotate(fs, plain)
      /\ fsSlave' = fsSlave /\ connSlave' = connSlave
  BY DEF RotatePlain, RoundInv
<1>3. Rotate(fs, plain) \in Nat /\ (Rotate(fs, plain) < plain \/ Rotate(fs, plain) = 0)
  BY RotateBounded
<1>4. PoolTypeOK'
  BY <1>1, <1>2, <1>3, HostsAssumption DEF RoundInv, PoolTypeOK
<1>5. PassedDown(missed, fs, plain) /\ PassedDown(missedSlave, fsSlave, Len(slaves))
  BY DEF RoundInv
<1>6. PassedDown(missed + 1, Rotate(fs, plain), plain)
  <2>1. CASE plain = 0
    BY <2>1 DEF PassedDown
  <2>2. CASE plain # 0
    BY <2>2, <1>5, FailurePasses
  <2>3. QED
    BY <2>1, <2>2
<1>7. PassedDown(missed, fs, plain)'
  BY <1>1, <1>2, <1>6 DEF PassedDown
<1>8. PassedDown(missedSlave, fsSlave, Len(slaves))'
  BY <1>1, <1>2, <1>5 DEF PassedDown
<1>9. QED
  BY <1>1, <1>2, <1>3, <1>4, <1>7, <1>8 DEF RoundInv

\* The slave index moves on.  What it has passed is down if it was a failed lookup, and does
\* not matter if no failure is counted.
LEMMA SlaveFailure ==
  ASSUME RoundInv, RotateSlave, UNCHANGED <<pool, up, op, missed>>, pc' = "idle",
         \/ missedSlave' = missedSlave + 1 /\ Valid(fsSlave) /\ Throws(fsSlave)
         \/ missedSlave' = missedSlave /\ missedSlave = 0
  PROVE  RoundInv'
<1> USE RoundTypes
<1> DEFINE length == Len(slaves)
<1>1. plain' = plain /\ slaves' = slaves /\ up' = up
  BY DEF pool
<1>2. /\ fsSlave' = Rotate(fsSlave, length) /\ connSlave' = Rotate(fsSlave, length)
      /\ fs' = fs /\ conn' = conn
  BY DEF RotateSlave, RoundInv
<1>3. /\ Rotate(fsSlave, length) \in Nat
      /\ Rotate(fsSlave, length) < length \/ Rotate(fsSlave, length) = 0
  <2>1. length \in Nat /\ fsSlave \in Nat
    OBVIOUS
  <2>2. QED
    BY <2>1, RotateBounded
<1>4. PoolTypeOK'
  BY <1>1, <1>2, <1>3, HostsAssumption DEF RoundInv, PoolTypeOK
<1>5. PassedDown(missed, fs, plain)'
  BY <1>1, <1>2 DEF PassedDown, RoundInv
<1>6. PassedDown(missedSlave', Rotate(fsSlave, length), length)
  <2>1. CASE missedSlave' = missedSlave + 1 /\ Valid(fsSlave) /\ Throws(fsSlave)
    <3>1. PassedDown(missedSlave, fsSlave, length)
      BY DEF RoundInv
    <3>2. QED
      BY <2>1, <3>1, FailurePasses
  <2>2. CASE missedSlave' = 0
    BY <1>3, <2>2, NonePassed
  <2>3. QED
    BY <2>1, <2>2
<1>7. PassedDown(missedSlave, fsSlave, Len(slaves))'
  BY <1>1, <1>2, <1>6 DEF PassedDown
<1>8. QED
  BY <1>1, <1>2, <1>3, <1>4, <1>5, <1>7 DEF RoundInv

\* An access that answers, or hosts that change: the counts stay or start again.
LEMMA CountsStay ==
  ASSUME RoundInv, UNCHANGED <<pool, indices>>, op' \in {"store", "find", "get"},
         pc' \in {"idle", "first", "second", "storeFile", "update", "undefined"},
         up' \subseteq Hosts,
         missed' = 0 \/ (missed' = missed /\ up' = up),
         missedSlave' = 0 \/ (missedSlave' = missedSlave /\ up' = up),
         pc' = "second" => missedSlave' = 0
  PROVE  RoundInv'
<1> USE RoundTypes
<1>1. /\ plain' = plain /\ slaves' = slaves /\ fs' = fs /\ conn' = conn
      /\ fsSlave' = fsSlave /\ connSlave' = connSlave
  BY DEF pool, indices
<1>2. PoolTypeOK'
  BY <1>1 DEF RoundInv, PoolTypeOK
<1>3. PassedDown(missed, fs, plain)'
  <2>1. CASE missed' = 0
    BY <1>1, <2>1 DEF PassedDown, Behind
  <2>2. CASE missed' = missed /\ up' = up
    BY <1>1, <2>2 DEF PassedDown, RoundInv
  <2>3. QED
    BY <2>1, <2>2
<1>4. PassedDown(missedSlave, fsSlave, Len(slaves))'
  <2>1. CASE missedSlave' = 0
    <3>1. fsSlave \in Nat /\ Len(slaves) \in Nat
      BY DEF RoundInv, PoolTypeOK
    <3>2. \A k \in Nat : k < Len(slaves) => Behind(k, fsSlave, Len(slaves)) >= 1
      BY ONLY <3>1 DEF Behind
    <3>3. QED
      BY ONLY <1>1, <2>1, <3>1, <3>2 DEF PassedDown, Behind
  <2>2. CASE missedSlave' = missedSlave /\ up' = up
    BY <1>1, <2>2 DEF PassedDown, RoundInv
  <2>3. QED
    BY <2>1, <2>2
<1>5. QED
  BY <1>1, <1>2, <1>3, <1>4 DEF RoundInv

LEMMA NextRound == RoundInv /\ [PoolNext]_poolVars => RoundInv'
<1> SUFFICES ASSUME RoundInv, [PoolNext]_poolVars PROVE RoundInv'
  OBVIOUS
<1>1. CASE Call
  BY <1>1, CountsStay DEF Call, RoundInv, PoolTypeOK
<1>2. CASE Undefined
  BY <1>2, CountsStay DEF Undefined, RoundInv, PoolTypeOK
<1>3. CASE FirstAnswers
  BY <1>3, CountsStay DEF FirstAnswers, RoundInv, PoolTypeOK
<1>4. CASE FirstThrows
  BY <1>4, SlaveFailure DEF FirstThrows
<1>5. CASE SecondAnswers
  BY <1>5, CountsStay DEF SecondAnswers, RoundInv, PoolTypeOK
<1>6. CASE FindSecondThrows
  BY <1>6, PlainFailure DEF FindSecondThrows
<1>7. CASE GetSecondThrows
  BY <1>7, SlaveFailure DEF GetSecondThrows, RoundInv
<1>8. CASE StoreFile
  BY <1>8, CountsStay DEF StoreFile, RoundInv, PoolTypeOK
<1>9. CASE Update
  BY <1>9, CountsStay DEF Update, RoundInv, PoolTypeOK
<1>10. CASE StoreThrows
  <2>1. Valid(fs) /\ Throws(fs)
    BY <1>10 DEF StoreThrows, RoundInv
  <2>2. QED
    BY <1>10, <2>1, PlainFailure DEF StoreThrows
<1>11. CASE HostsChange
  BY <1>11, CountsStay DEF HostsChange, RoundInv, PoolTypeOK
<1>12. CASE UNCHANGED poolVars
  BY <1>12, CountsStay DEF poolVars, RoundInv, PoolTypeOK
<1>13. QED
  BY <1>1, <1>2, <1>3, <1>4, <1>5, <1>6, <1>7, <1>8, <1>9, <1>10, <1>11, <1>12 DEF PoolNext

\* As long as one host that an index can reach answers, less than one round of calls in a
\* row fails: the index passes only hosts that are down, and never the same one twice.
THEOREM PoolFailsOver == PoolSpec => []FailsOver
<1>1. RoundInv => FailsOver
  <2> SUFFICES ASSUME RoundInv PROVE FailsOver
    OBVIOUS
  <2> USE RoundTypes
  <2>1. PoolTypeOK /\ PassedDown(missed, fs, plain) /\ PassedDown(missedSlave, fsSlave, Len(slaves))
    BY DEF RoundInv
  <2>2. ASSUME NEW i \in 1 .. Len(slaves), i <= plain, slaves[i] \in up
        PROVE  missed < plain
    BY <2>1, <2>2, WholeRound
  <2>3. ASSUME NEW i \in 1 .. Len(slaves), slaves[i] \in up
        PROVE  missedSlave < Len(slaves)
    BY <2>1, <2>3, WholeRound
  <2>4. QED
    BY <2>1, <2>2, <2>3 DEF FailsOver
<1>2. QED
  BY <1>1, InitRound, NextRound, PTL DEF PoolSpec

-----------------------------------------------------------------------------
(* UdpService *)

\* A datagram in a queue, in one slot only; with a worker, with one only.
Queued(p) == \E w \in Workers : \E i \in 1 .. Len(recvq[w]) : recvq[w][i] = p
SingleSlot(p) ==
  \A v, w \in Workers : \A i \in 1 .. Len(recvq[v]), j \in 1 .. Len(recvq[w]) :
    recvq[v][i] = p /\ recvq[w][j] = p => v = w /\ i = j
Held(p) == \E w \in Workers : request[w] = p
SingleWorker(p) == \A v, w \in Workers : request[v] = p /\ request[w] = p => v = w

\* Each place that a datagram can be in excludes the others.
Apart(p) ==
  /\ p \in toCome => /\ packet # p /\ ~Queued(p) /\ ~Held(p)
                     /\ handled[p] = 0 /\ p \notin lost
  /\ packet = p => ~Queued(p) /\ ~Held(p) /\ handled[p] = 0 /\ p \notin lost
  /\ Queued(p) => ~Held(p) /\ handled[p] = 0 /\ p \notin lost
  /\ Held(p) => handled[p] = 0 /\ p \notin lost
  /\ handled[p] # 0 => handled[p] = 1 /\ p \notin lost
  /\ p \in toCome \/ packet = p \/ Queued(p) \/ Held(p) \/ handled[p] # 0 \/ p \in lost
  /\ SingleSlot(p) /\ SingleWorker(p)

\* What the receiver and the workers have in hand at each point; a worker that is not in the
\* vector has no thread.
Points ==
  /\ packet # NoPacket <=> rPc \in {"dispatch", "write"}
  /\ \A w \in Workers : /\ request[w] # NoPacket <=> wPc[w] = "handle"
                        /\ Len(recvq[w]) <= QSize
                        /\ w >= size => wPc[w] = "none"

\* How far start has come; on Linux the receiver runs only if all workers are there.
Starts ==
  /\ caller = "down" => size = 0
  /\ caller = "workers" => size < NWorkers
  /\ caller = "receiver" => size = IF platform = "linux" THEN NWorkers ELSE 0
  /\ platform = "linux" /\ (rPc # "none" \/ ~rStop) => size = NWorkers
  /\ caller \in {"down", "receiver", "stop", "join"} => rPc = "none" /\ rStop
  /\ rPc # "none" /\ rStop => caller = "joinReceiver"

\* How far stop has come.
Stops ==
  /\ caller \in {"stop", "join"} => next <= size /\ \A w \in Workers : w < next => wPc[w] = "none"
  /\ caller = "join" => next < size
  /\ caller = "joinReceiver" => next = 0 /\ rStop

Running == Points /\ Starts /\ Stops /\ \A p \in Packets : Apart(p)
Crashed == size < NWorkers /\ (platform = "linux" => rPc = "none")

UdpInv == TypeOK /\ (caller # "crashed" => Running) /\ (caller = "crashed" => Crashed)

-----------------------------------------------------------------------------
(* The places, one at a time *)

LEMMA ApartKept ==
  ASSUME UNCHANGED <<toCome, packet, recvq, request, handled, lost>>
  PROVE  \A p \in Packets : Apart(p)' <=> Apart(p)
  BY DEF Apart, Queued, SingleSlot, Held, SingleWorker

LEMMA Appended ==
  ASSUME TypeOK, NEW w \in Workers, NEW q \in Packets, recvq' = [recvq EXCEPT ![w] = Append(@, q)]
  PROVE  /\ recvq' \in [Workers -> Seq(Packets)]
         /\ Len(recvq'[w]) = Len(recvq[w]) + 1
         /\ \A v \in Workers : v # w => recvq'[v] = recvq[v]
         /\ \A p \in Packets : Queued(p)' <=> Queued(p) \/ p = q
         /\ \A p \in Packets : SingleSlot(p) /\ (p = q => ~Queued(q)) => SingleSlot(p)'
<1>1. /\ recvq \in [Workers -> Seq(Packets)] /\ recvq[w] \in Seq(Packets)
      /\ \A v \in Workers : Len(recvq[v]) \in Nat
  <2>1. recvq \in [Workers -> Seq(Packets)]
    BY Zenon DEF TypeOK
  <2>2. \A v \in Workers : recvq[v] \in Seq(Packets)
    BY <2>1
  <2>3. QED
    BY <2>1, <2>2, LenProperties
<1>2. /\ recvq' \in [Workers -> Seq(Packets)] /\ recvq'[w] = Append(recvq[w], q)
      /\ \A v \in Workers : v # w => recvq'[v] = recvq[v]
  BY <1>1, AppendProperties
<1>3. /\ Len(recvq'[w]) = Len(recvq[w]) + 1 /\ recvq'[w][Len(recvq[w]) + 1] = q
      /\ \A i \in 1 .. Len(recvq[w]) : recvq'[w][i] = recvq[w][i]
  BY <1>1, <1>2, AppendProperties
<1>4. \A i : i \in 1 .. Len(recvq'[w]) <=> i \in 1 .. Len(recvq[w]) \/ i = Len(recvq[w]) + 1
  BY <1>1, <1>3
<1>5. ASSUME NEW p \in Packets PROVE Queued(p)' <=> Queued(p) \/ p = q
  <2>1. ASSUME Queued(p)' PROVE Queued(p) \/ p = q
    <3>1. PICK v \in Workers : \E i \in 1 .. Len(recvq'[v]) : recvq'[v][i] = p
      BY <2>1 DEF Queued
    <3>2. QED
      BY <1>2, <1>3, <1>4, <3>1 DEF Queued
  <2>2. ASSUME Queued(p) PROVE Queued(p)'
    <3>1. PICK v \in Workers : \E i \in 1 .. Len(recvq[v]) : recvq[v][i] = p
      BY <2>2 DEF Queued
    <3>2. \E i \in 1 .. Len(recvq'[v]) : recvq'[v][i] = p
      BY <1>2, <1>3, <1>4, <3>1
    <3>3. QED
      BY <3>2 DEF Queued
  <2>3. ASSUME p = q PROVE Queued(p)'
    BY <1>3, <1>4, <2>3 DEF Queued
  <2>4. QED
    BY <2>1, <2>2, <2>3
<1>6. ASSUME NEW p \in Packets, SingleSlot(p), p = q => ~Queued(q) PROVE SingleSlot(p)'
  <2>1. \A v \in Workers : \A i \in 1 .. Len(recvq'[v]) :
          recvq'[v][i] = p /\ p # q => i \in 1 .. Len(recvq[v]) /\ recvq[v][i] = p
    BY <1>2, <1>3, <1>4
  <2>2. \A v \in Workers : \A i \in 1 .. Len(recvq'[v]) :
          recvq'[v][i] = p /\ p = q => v = w /\ i = Len(recvq[w]) + 1
    BY <1>2, <1>3, <1>4, <1>6 DEF Queued
  <2>3. CASE p = q
    BY <2>2, <2>3 DEF SingleSlot
  <2>4. CASE p # q
    BY <1>6, <2>1, <2>4 DEF SingleSlot
  <2>5. QED
    BY <2>3, <2>4
<1>7. QED
  BY <1>2, <1>3, <1>5, <1>6

LEMMA SlotsLater ==
  ASSUME NEW p,
         \A u, v \in Workers : \A i \in 1 .. Len(recvq'[u]), j \in 1 .. Len(recvq'[v]) :
           recvq'[u][i] = p /\ recvq'[v][j] = p => u = v /\ i = j
  PROVE  SingleSlot(p)'
  BY DEF SingleSlot

LEMMA Taken ==
  ASSUME TypeOK, NEW w \in Workers, recvq[w] # <<>>, recvq' = [recvq EXCEPT ![w] = Tail(@)],
         NEW q, q = Head(recvq[w])
  PROVE  /\ recvq' \in [Workers -> Seq(Packets)]
         /\ Len(recvq'[w]) <= Len(recvq[w])
         /\ \A v \in Workers : v # w => recvq'[v] = recvq[v]
         /\ q \in Packets /\ Queued(q)
         /\ \A p \in Packets : p # q => (Queued(p)' <=> Queued(p))
         /\ \A p \in Packets : SingleSlot(p) => SingleSlot(p)'
         /\ SingleSlot(q) => ~Queued(q)'
<1>1. /\ recvq \in [Workers -> Seq(Packets)] /\ recvq[w] \in Seq(Packets)
      /\ \A v \in Workers : Len(recvq[v]) \in Nat
  <2>1. recvq \in [Workers -> Seq(Packets)]
    BY Zenon DEF TypeOK
  <2>2. \A v \in Workers : recvq[v] \in Seq(Packets)
    BY <2>1
  <2>3. QED
    BY <2>1, <2>2, LenProperties
<1>2. /\ q \in Packets /\ recvq[w][1] = q /\ Len(recvq[w]) >= 1
      /\ Tail(recvq[w]) \in Seq(Packets) /\ Len(Tail(recvq[w])) = Len(recvq[w]) - 1
      /\ \A i \in 1 .. Len(Tail(recvq[w])) : Tail(recvq[w])[i] = recvq[w][i + 1]
  BY <1>1, HeadTailProperties, EmptySeq, ElementOfSeq
<1>3. /\ recvq' \in [Workers -> Seq(Packets)] /\ recvq'[w] = Tail(recvq[w])
      /\ \A v \in Workers : v # w => recvq'[v] = recvq[v]
  BY <1>1, <1>2
<1>4. /\ Len(recvq'[w]) = Len(recvq[w]) - 1 /\ 1 \in 1 .. Len(recvq[w])
      /\ \A i \in 1 .. Len(recvq'[w]) : i + 1 \in 1 .. Len(recvq[w]) /\ recvq'[w][i] = recvq[w][i + 1]
  BY <1>1, <1>2, <1>3
<1>5. \A i \in 1 .. Len(recvq[w]) : i # 1 =>
        i - 1 \in 1 .. Len(recvq'[w]) /\ recvq'[w][i - 1] = recvq[w][i]
  <2>1. ASSUME NEW i \in 1 .. Len(recvq[w]), i # 1
        PROVE  i - 1 \in 1 .. Len(recvq'[w]) /\ recvq'[w][i - 1] = recvq[w][i]
    <3>1. i - 1 \in 1 .. Len(recvq'[w]) /\ (i - 1) + 1 = i
      BY <1>1, <1>4, <2>1
    <3>2. recvq'[w][i - 1] = recvq[w][(i - 1) + 1]
      BY <1>4, <3>1
    <3>3. QED
      BY <3>1, <3>2
  <2>2. QED
    BY <2>1
<1>6. Queued(q)
  BY <1>2, <1>4 DEF Queued
<1>7. ASSUME NEW p \in Packets, p # q PROVE Queued(p)' <=> Queued(p)
  <2>1. ASSUME Queued(p)' PROVE Queued(p)
    <3>1. PICK v \in Workers : \E i \in 1 .. Len(recvq'[v]) : recvq'[v][i] = p
      BY <2>1 DEF Queued
    <3>2. \E i \in 1 .. Len(recvq[v]) : recvq[v][i] = p
      BY <1>3, <1>4, <3>1
    <3>3. QED
      BY <3>2 DEF Queued
  <2>2. ASSUME Queued(p) PROVE Queued(p)'
    <3>1. PICK v \in Workers : \E i \in 1 .. Len(recvq[v]) : recvq[v][i] = p
      BY <2>2 DEF Queued
    <3>2. PICK i \in 1 .. Len(recvq[v]) : recvq[v][i] = p
      BY <3>1
    <3>3. \E k \in 1 .. Len(recvq'[v]) : recvq'[v][k] = p
      <4>1. CASE v = w
        <5>1. i # 1
          BY <1>2, <1>7, <3>2, <4>1
        <5>2. i - 1 \in 1 .. Len(recvq'[v]) /\ recvq'[v][i - 1] = p
          BY <1>5, <3>2, <4>1, <5>1
        <5>3. QED
          BY <5>2
      <4>2. CASE v # w
        BY <1>3, <3>2, <4>2
      <4>3. QED
        BY <4>1, <4>2
    <3>4. QED
      BY <3>3 DEF Queued
  <2>3. QED
    BY <2>1, <2>2
<1>8. ASSUME NEW p \in Packets, SingleSlot(p) PROVE SingleSlot(p)'
  <2>1. ASSUME NEW u \in Workers, NEW v \in Workers, NEW i \in 1 .. Len(recvq'[u]),
               NEW j \in 1 .. Len(recvq'[v]), recvq'[u][i] = p, recvq'[v][j] = p
        PROVE  u = v /\ i = j
    <3> DEFINE ii == IF u = w THEN i + 1 ELSE i
               jj == IF v = w THEN j + 1 ELSE j
    <3>1. ii \in 1 .. Len(recvq[u]) /\ recvq[u][ii] = p
      BY <1>3, <1>4, <2>1
    <3>2. jj \in 1 .. Len(recvq[v]) /\ recvq[v][jj] = p
      BY <1>3, <1>4, <2>1
    <3> HIDE DEF ii, jj
    <3>3. u = v /\ ii = jj
      BY <1>8, <3>1, <3>2 DEF SingleSlot
    <3>4. CASE u = w
      <4>1. i + 1 = j + 1 /\ v = w
        BY <3>3, <3>4 DEF ii, jj
      <4>2. i \in Nat /\ j \in Nat
        BY <1>1, <1>3, <2>1, <3>4, <4>1
      <4>3. QED
        BY <3>3, <4>1, <4>2
    <3>5. CASE u # w
      BY <3>3, <3>5 DEF ii, jj
    <3>6. QED
      BY <3>4, <3>5
  <2>2. \A u, v \in Workers : \A i \in 1 .. Len(recvq'[u]), j \in 1 .. Len(recvq'[v]) :
          recvq'[u][i] = p /\ recvq'[v][j] = p => u = v /\ i = j
    BY ONLY <2>1
  <2>3. QED
    BY ONLY <2>2, SlotsLater
<1>9. ASSUME SingleSlot(q), Queued(q)' PROVE FALSE
  <2>1. PICK v \in Workers : \E i \in 1 .. Len(recvq'[v]) : recvq'[v][i] = q
    BY <1>9 DEF Queued
  <2>2. PICK i \in 1 .. Len(recvq'[v]) : recvq'[v][i] = q
    BY <2>1
  <2>3. CASE v = w
    <3>1. i + 1 \in 1 .. Len(recvq[w]) /\ recvq[w][i + 1] = q /\ i + 1 # 1
      BY <1>4, <2>2, <2>3
    <3>2. QED
      BY <1>2, <1>4, <1>9, <3>1 DEF SingleSlot
  <2>4. CASE v # w
    BY <1>2, <1>3, <1>4, <1>9, <2>2, <2>4 DEF SingleSlot
  <2>5. QED
    BY <2>3, <2>4
<1>10. Len(recvq'[w]) <= Len(recvq[w])
  BY <1>1, <1>4
<1>11. QED
  BY <1>2, <1>3, <1>6, <1>7, <1>8, <1>9, <1>10

LEMMA Emptied ==
  ASSUME TypeOK, NEW w \in Workers, recvq' = [recvq EXCEPT ![w] = <<>>]
  PROVE  /\ recvq' \in [Workers -> Seq(Packets)] /\ recvq'[w] = <<>>
         /\ \A v \in Workers : v # w => recvq'[v] = recvq[v]
         /\ ToSet(recvq[w]) \subseteq Packets
         /\ \A p \in Packets : Queued(p) => Queued(p)' \/ p \in ToSet(recvq[w])
         /\ \A p \in Packets : Queued(p)' => Queued(p)
         /\ \A p \in Packets : SingleSlot(p) /\ p \in ToSet(recvq[w]) => Queued(p) /\ ~Queued(p)'
         /\ \A p \in Packets : SingleSlot(p) => SingleSlot(p)'
<1>1. recvq \in [Workers -> Seq(Packets)]
  BY Zenon DEF TypeOK
<1>2. /\ recvq' \in [Workers -> Seq(Packets)] /\ recvq'[w] = <<>> /\ Len(recvq'[w]) = 0
      /\ \A v \in Workers : v # w => recvq'[v] = recvq[v]
  BY <1>1
<1>3. /\ recvq[w] \in Seq(Packets)
      /\ \A p : p \in ToSet(recvq[w]) <=> \E i \in 1 .. Len(recvq[w]) : recvq[w][i] = p
  BY <1>1 DEF ToSet
<1>4. ToSet(recvq[w]) \subseteq Packets
  BY <1>3, ElementOfSeq
<1>5. \A i : i \notin 1 .. Len(recvq'[w])
  BY <1>2
<1>6. \A v \in Workers : \A i \in 1 .. Len(recvq'[v]) :
        v # w /\ i \in 1 .. Len(recvq[v]) /\ recvq'[v][i] = recvq[v][i]
  BY <1>2, <1>5
<1>7. ASSUME NEW p \in Packets, Queued(p) PROVE Queued(p)' \/ p \in ToSet(recvq[w])
  <2>1. PICK v \in Workers : \E i \in 1 .. Len(recvq[v]) : recvq[v][i] = p
    BY <1>7 DEF Queued
  <2>2. CASE v = w
    BY <1>3, <2>1, <2>2
  <2>3. CASE v # w
    <3>1. \E i \in 1 .. Len(recvq'[v]) : recvq'[v][i] = p
      BY <1>2, <2>1, <2>3
    <3>2. QED
      BY <3>1 DEF Queued
  <2>4. QED
    BY <2>2, <2>3
<1>8. ASSUME NEW p \in Packets, Queued(p)'
      PROVE  \E v \in Workers : v # w /\ \E i \in 1 .. Len(recvq[v]) : recvq[v][i] = p
  <2>1. PICK v \in Workers : \E i \in 1 .. Len(recvq'[v]) : recvq'[v][i] = p
    BY <1>8 DEF Queued
  <2>2. QED
    BY <1>6, <2>1
<1>9. \A p \in Packets : Queued(p)' => Queued(p)
  BY <1>8 DEF Queued
<1>10. ASSUME NEW p \in Packets, SingleSlot(p), p \in ToSet(recvq[w]) PROVE Queued(p) /\ ~Queued(p)'
  <2>1. PICK j \in 1 .. Len(recvq[w]) : recvq[w][j] = p
    BY <1>3, <1>10
  <2>2. ASSUME Queued(p)' PROVE FALSE
    <3>1. PICK v \in Workers : v # w /\ \E i \in 1 .. Len(recvq[v]) : recvq[v][i] = p
      BY <1>8, <2>2
    <3>2. QED
      BY <1>10, <2>1, <3>1 DEF SingleSlot
  <2>3. QED
    BY <2>1, <2>2 DEF Queued
<1>11. ASSUME NEW p \in Packets, SingleSlot(p) PROVE SingleSlot(p)'
  BY <1>6, <1>11 DEF SingleSlot
<1>12. QED
  BY <1>2, <1>4, <1>7, <1>9, <1>10, <1>11

LEMMA Given ==
  ASSUME TypeOK, NoPacket \notin Packets, NEW w \in Workers, NEW q \in Packets, request[w] = NoPacket,
         request' = [request EXCEPT ![w] = q]
  PROVE  /\ request' \in [Workers -> Packets \cup {NoPacket}] /\ request'[w] = q
         /\ \A v \in Workers : v # w => request'[v] = request[v]
         /\ \A p \in Packets : Held(p)' <=> Held(p) \/ p = q
         /\ \A p \in Packets : SingleWorker(p) /\ (p = q => ~Held(q)) => SingleWorker(p)'
<1>1. request \in [Workers -> Packets \cup {NoPacket}]
  BY Zenon DEF TypeOK
<1>2. /\ request' \in [Workers -> Packets \cup {NoPacket}] /\ request'[w] = q
      /\ \A v \in Workers : v # w => request'[v] = request[v]
  BY <1>1
<1>3. \A p \in Packets : Held(p)' <=> Held(p) \/ p = q
  BY <1>2 DEF Held
<1>4. \A p \in Packets : SingleWorker(p) /\ (p = q => ~Held(q)) => SingleWorker(p)'
  BY <1>2 DEF Held, SingleWorker
<1>5. QED
  BY <1>2, <1>3, <1>4

LEMMA Released ==
  ASSUME TypeOK, NoPacket \notin Packets, NEW w \in Workers, NEW q \in Packets, request[w] = q,
         request' = [request EXCEPT ![w] = NoPacket]
  PROVE  /\ request' \in [Workers -> Packets \cup {NoPacket}] /\ request'[w] = NoPacket
         /\ \A v \in Workers : v # w => request'[v] = request[v]
         /\ Held(q) /\ (SingleWorker(q) => ~Held(q)')
         /\ \A p \in Packets : p # q => (Held(p)' <=> Held(p))
         /\ \A p \in Packets : SingleWorker(p) => SingleWorker(p)'
<1>1. request \in [Workers -> Packets \cup {NoPacket}]
  BY Zenon DEF TypeOK
<1>2. /\ request' \in [Workers -> Packets \cup {NoPacket}] /\ request'[w] = NoPacket
      /\ \A v \in Workers : v # w => request'[v] = request[v]
  BY <1>1
<1>3. Held(q) /\ (SingleWorker(q) => ~Held(q)')
  BY <1>2 DEF Held, SingleWorker
<1>4. \A p \in Packets : p # q => (Held(p)' <=> Held(p))
  BY <1>2 DEF Held
<1>5. \A p \in Packets : SingleWorker(p) => SingleWorker(p)'
  BY <1>2 DEF SingleWorker
<1>6. QED
  BY <1>2, <1>3, <1>4, <1>5

-----------------------------------------------------------------------------
(* The order of start *)

LEMMA StartOrder ==
  ASSUME TypeOK, Platforms \subseteq {"linux", "windows"}
  PROVE  /\ platform = "linux" \/ platform = "windows"
         /\ platform = "linux" => Order[1] = "workers" /\ After("workers") = "receiver"
                                  /\ After("receiver") = "up"
         /\ platform = "windows" => Order[1] = "receiver" /\ After("receiver") = "workers"
                                    /\ After("workers") = "up"
<1> DEFINE Step(s) == CHOOSE i \in 1 .. 2 : Order[i] = s
<1>1. platform = "linux" \/ platform = "windows"
  <2>1. platform \in Platforms
    BY Zenon DEF TypeOK
  <2>2. QED
    BY <2>1
<1>2. CASE platform = "linux"
  <2>1. Order = <<"workers", "receiver", "up">>
    BY <1>2 DEF Order, LinuxOrder
  <2>2. Order[1] = "workers" /\ Order[2] = "receiver" /\ Order[3] = "up"
    BY <2>1
  <2>3. \A i \in 1 .. 2 : (Order[i] = "workers" <=> i = 1) /\ (Order[i] = "receiver" <=> i = 2)
    BY <2>2
  <2>4. 1 \in 1 .. 2 /\ 2 \in 1 .. 2
    OBVIOUS
  <2>5. Step("workers") = 1 /\ Step("receiver") = 2
    BY <2>3, <2>4
  <2>6. QED
    BY <1>2, <2>2, <2>5 DEF After
<1>3. CASE platform = "windows"
  <2>1. Order = <<"receiver", "workers", "up">>
    BY <1>3 DEF Order, WindowsOrder
  <2>2. Order[1] = "receiver" /\ Order[2] = "workers" /\ Order[3] = "up"
    BY <2>1
  <2>3. \A i \in 1 .. 2 : (Order[i] = "workers" <=> i = 2) /\ (Order[i] = "receiver" <=> i = 1)
    BY <2>2
  <2>4. 1 \in 1 .. 2 /\ 2 \in 1 .. 2
    OBVIOUS
  <2>5. Step("workers") = 2 /\ Step("receiver") = 1
    BY <2>3, <2>4
  <2>6. QED
    BY <1>3, <2>2, <2>5 DEF After
<1>4. QED
  BY <1>1, <1>2, <1>3

-----------------------------------------------------------------------------
(* start, stop, and the steps that move no datagram *)

LEMMA Facts ==
  ASSUME UdpInv, caller # "crashed"
  PROVE  /\ TypeOK /\ Points /\ Starts /\ Stops /\ \A p \in Packets : Apart(p)
         /\ NWorkers \in Nat /\ NWorkers >= 1 /\ size \in Nat /\ size <= NWorkers
         /\ next \in Nat /\ next <= NWorkers /\ NoPacket \notin Packets
         /\ \A n \in Nat : n < NWorkers => n \in Workers
         /\ \A w \in Workers : w \in Nat /\ w < NWorkers
         /\ platform \in {"linux", "windows"} /\ Platforms \subseteq {"linux", "windows"}
<1>1. size \in 0 .. NWorkers /\ next \in 0 .. NWorkers /\ platform \in Platforms
  BY Zenon DEF UdpInv, TypeOK
<1>2. TypeOK /\ Points /\ Starts /\ Stops /\ \A p \in Packets : Apart(p)
  BY DEF UdpInv, Running
<1>3. QED
  BY <1>1, <1>2, UdpAssumption DEF Workers

\* The caller moves on: which flags and threads there are is the same, but for a stop flag.
LEMMA CallerStep ==
  ASSUME UdpInv, caller # "crashed",
         Start \/ StartFails \/ JoinReceiver \/ Stop \/ Stopped \/ StopWorker
  PROVE  UdpInv'
<1>1. /\ TypeOK /\ Points /\ Starts /\ Stops
      /\ NWorkers \in Nat /\ NWorkers >= 1 /\ size \in Nat /\ size <= NWorkers
      /\ next \in Nat /\ next <= NWorkers
      /\ \A w \in Workers : w \in Nat /\ w < NWorkers
      /\ platform \in {"linux", "windows"}
  BY Facts
<1>2. UNCHANGED <<platform, counter, rPc, packet, to, toCome, recvq, wPc, request, flag, event,
                  handled, lost>>
  BY DEF Start, StartFails, JoinReceiver, Stop, Stopped, StopWorker, receiver, worker
<1>3. \A p \in Packets : Apart(p)'
  BY <1>2, Facts, ApartKept
<1>4. CASE Start
  <2>1. /\ caller = "down" /\ UNCHANGED <<size, next, rStop, wStop>>
        /\ caller' = "workers" \/ caller' = "receiver"
        /\ platform = "linux" => caller' = "workers"
    BY <1>4, <1>1, UdpAssumption, StartOrder DEF Start, receiver, worker
  <2>2. TypeOK'
    BY <1>1, <1>2, <2>1 DEF TypeOK
  <2>3. Points' /\ Starts' /\ Stops'
    BY <1>1, <1>2, <2>1 DEF Points, Starts, Stops
  <2>4. QED
    BY <1>3, <2>1, <2>2, <2>3 DEF UdpInv, Running
<1>5. CASE StartFails
  <2>1. caller' = "failed" /\ caller \in {"workers", "receiver"} /\ UNCHANGED <<size, next, rStop, wStop>>
    BY <1>5 DEF StartFails, receiver, worker
  <2>2. TypeOK'
    BY <1>1, <1>2, <2>1 DEF TypeOK
  <2>3. Points' /\ Starts' /\ Stops'
    BY <1>1, <1>2, <2>1 DEF Points, Starts, Stops
  <2>4. QED
    BY <1>3, <2>1, <2>2, <2>3 DEF UdpInv, Running
<1>6. CASE JoinReceiver
  <2>1. caller' = "stop" /\ caller = "joinReceiver" /\ rPc = "none" /\ UNCHANGED <<size, next, rStop, wStop>>
    BY <1>6 DEF JoinReceiver, receiver, worker
  <2>2. TypeOK'
    BY <1>1, <1>2, <2>1 DEF TypeOK
  <2>3. Points' /\ Starts' /\ Stops'
    BY <1>1, <1>2, <2>1 DEF Points, Starts, Stops
  <2>4. QED
    BY <1>3, <2>1, <2>2, <2>3 DEF UdpInv, Running
<1>7. CASE Stop
  <2>1. /\ caller \in {"up", "failed"} /\ rStop' = TRUE /\ next' = 0 /\ UNCHANGED <<size, wStop>>
        /\ caller' = IF rStop THEN "stop" ELSE "joinReceiver"
    BY <1>7 DEF Stop, worker
  <2>2. TypeOK'
    BY <1>1, <1>2, <2>1 DEF TypeOK
  <2>3. Points' /\ Stops'
    BY <1>1, <1>2, <2>1 DEF Points, Stops
  <2>4. caller' # "crashed"
    BY <2>1
  <2>5. \/ rStop /\ caller' = "stop" /\ rPc = "none"
        \/ ~rStop /\ caller' = "joinReceiver"
    BY <1>1, <2>1 DEF Starts
  <2>6. platform = "linux" /\ (rPc # "none" \/ ~rStop) => size = NWorkers
    BY <1>1 DEF Starts
  <2>7. Starts'
    BY <1>2, <2>1, <2>5, <2>6 DEF Starts
  <2>8. QED
    BY <1>3, <2>2, <2>3, <2>4, <2>7 DEF UdpInv, Running
<1>8. CASE Stopped
  <2>1. /\ caller = "stop" /\ next = NWorkers /\ caller' = "down" /\ size' = 0
        /\ UNCHANGED <<next, rStop, wStop>>
    BY <1>8 DEF Stopped, receiver, worker
  <2>2. TypeOK'
    BY <1>1, <1>2, <2>1 DEF TypeOK
  <2>3. Points' /\ Starts' /\ Stops'
    BY <1>1, <1>2, <2>1 DEF Points, Starts, Stops
  <2>4. QED
    BY <1>3, <2>1, <2>2, <2>3 DEF UdpInv, Running
<1>9. CASE StopWorker
  <2>1. /\ caller = "stop" /\ next < NWorkers /\ UNCHANGED <<size, next, rStop>>
        /\ caller' = IF next < size THEN "join" ELSE "crashed"
        /\ wStop' = [wStop EXCEPT ![next] = TRUE]
    BY <1>9 DEF StopWorker, receiver
  <2>2. TypeOK'
    BY <1>1, <1>2, <2>1 DEF TypeOK
  <2>3. Points' /\ Starts' /\ Stops'
    BY <1>1, <1>2, <2>1 DEF Points, Starts, Stops
  <2>4. caller' = "crashed" => Crashed'
    BY <1>1, <1>2, <2>1 DEF Crashed, Starts
  <2>5. QED
    BY <1>3, <2>2, <2>3, <2>4 DEF UdpInv, Running
<1>10. QED
  BY <1>4, <1>5, <1>6, <1>7, <1>8, <1>9

LEMMA StartWorkerStep ==
  ASSUME UdpInv, caller # "crashed", StartWorker
  PROVE  UdpInv'
<1>1. /\ TypeOK /\ Points /\ Starts /\ Stops
      /\ NWorkers \in Nat /\ NWorkers >= 1 /\ size \in Nat /\ size <= NWorkers
      /\ next \in Nat /\ next <= NWorkers
      /\ \A n \in Nat : n < NWorkers => n \in Workers
      /\ \A w \in Workers : w \in Nat /\ w < NWorkers
      /\ platform \in {"linux", "windows"}
  BY Facts
<1>2. /\ caller = "workers" /\ size' = size + 1
      /\ caller' = IF size' = NWorkers THEN After("workers") ELSE caller
      /\ wPc' = [wPc EXCEPT ![size] = "loop"] /\ wStop' = [wStop EXCEPT ![size] = FALSE]
      /\ UNCHANGED <<platform, next, counter, rPc, rStop, packet, to, toCome, recvq, request, flag, event,
                     handled, lost>>
  BY DEF StartWorker, receiver
<1>3. \A p \in Packets : Apart(p)'
  BY <1>2, Facts, ApartKept
<1>4. /\ size < NWorkers /\ size \in Workers /\ wPc[size] = "none" /\ request[size] = NoPacket
  BY <1>1, <1>2 DEF Starts, Points
<1>5. /\ caller' \in {"workers", "receiver", "up"}
      /\ caller' = "receiver" <=> size' = NWorkers /\ platform = "linux"
      /\ caller' = "workers" => size' < NWorkers
      /\ caller' = "up" => platform = "windows"
  BY <1>1, <1>2, <1>4, UdpAssumption, StartOrder
<1>6. wPc \in [Workers -> {"none", "loop", "read", "flag", "wait", "handle"}] /\ wStop \in [Workers -> BOOLEAN]
  BY <1>1, Zenon DEF TypeOK
<1>7. /\ wPc' \in [Workers -> {"none", "loop", "read", "flag", "wait", "handle"}]
      /\ wStop' \in [Workers -> BOOLEAN] /\ wPc'[size] = "loop"
      /\ \A w \in Workers : w # size => wPc'[w] = wPc[w]
  <2>1. wStop' \in [Workers -> BOOLEAN]
    BY ONLY <1>2, <1>4, <1>6
  <2>2. /\ wPc' \in [Workers -> {"none", "loop", "read", "flag", "wait", "handle"}]
        /\ wPc'[size] = "loop" /\ \A w \in Workers : w # size => wPc'[w] = wPc[w]
    BY ONLY <1>2, <1>4, <1>6
  <2>3. QED
    BY <2>1, <2>2
<1>8. TypeOK'
  BY <1>1, <1>2, <1>4, <1>5, <1>7 DEF TypeOK
<1>9. Points'
  BY <1>1, <1>2, <1>4, <1>7 DEF Points
<1>10. Starts'
  BY <1>1, <1>2, <1>4, <1>5 DEF Starts
<1>11. Stops'
  BY <1>5 DEF Stops
<1>12. QED
  BY <1>3, <1>5, <1>8, <1>9, <1>10, <1>11 DEF UdpInv, Running

LEMMA StartReceiverStep ==
  ASSUME UdpInv, caller # "crashed", StartReceiver
  PROVE  UdpInv'
<1>1. /\ TypeOK /\ Points /\ Starts /\ Stops
      /\ NWorkers \in Nat /\ NWorkers >= 1 /\ size \in Nat /\ size <= NWorkers
      /\ platform \in {"linux", "windows"}
  BY Facts
<1>2. /\ caller = "receiver" /\ rStop' = FALSE /\ rPc' = "loop" /\ caller' = After("receiver")
      /\ UNCHANGED <<platform, size, next, counter, packet, to, toCome, recvq, wPc, wStop, request, flag,
                     event, handled, lost>>
  BY DEF StartReceiver, worker
<1>3. \A p \in Packets : Apart(p)'
  BY <1>2, Facts, ApartKept
<1>4. /\ platform = "linux" => caller' = "up" /\ size = NWorkers
      /\ platform = "windows" => caller' = "workers" /\ size = 0
  BY <1>1, <1>2, UdpAssumption, StartOrder DEF Starts
<1>5. TypeOK'
  BY <1>1, <1>2, <1>4 DEF TypeOK
<1>6. Points' /\ Stops'
  BY <1>1, <1>2, <1>4 DEF Points, Starts, Stops
<1>7. Starts'
  <2>1. ~rStop' /\ platform' = platform /\ size' = size
    BY <1>2
  <2>2. CASE platform = "linux"
    <3>1. caller' = "up" /\ size' = NWorkers
      BY <1>4, <2>1, <2>2
    <3>2. QED
      BY <2>1, <3>1 DEF Starts
  <2>3. CASE platform = "windows"
    <3>1. caller' = "workers" /\ platform' # "linux" /\ size' < NWorkers
      BY <1>1, <1>4, <2>1, <2>3
    <3>2. QED
      BY <2>1, <3>1 DEF Starts
  <2>4. QED
    BY <1>1, <2>2, <2>3
<1>8. QED
  BY <1>1, <1>3, <1>4, <1>5, <1>6, <1>7 DEF UdpInv, Running

-----------------------------------------------------------------------------
(* The receiver *)

\* A wake-up changes only the flag and the event of a worker.
LEMMA WakeTypes ==
  ASSUME TypeOK, Wake
  PROVE  flag' \in [Workers -> BOOLEAN] /\ event' \in [Workers -> BOOLEAN]
<1>1. to \in Workers /\ flag \in [Workers -> BOOLEAN] /\ event \in [Workers -> BOOLEAN]
  BY Zenon DEF TypeOK
<1>2. flag' = [flag EXCEPT ![to] = FALSE] /\ event' = [event EXCEPT ![to] = event[to] \/ flag[to]]
  BY DEF Wake
<1>3. flag' \in [Workers -> BOOLEAN]
  BY ONLY <1>1, <1>2
<1>4. (event[to] \/ flag[to]) \in BOOLEAN
  OBVIOUS
<1>5. event' \in [Workers -> BOOLEAN]
  BY ONLY <1>1, <1>2, <1>4
<1>6. QED
  BY <1>3, <1>5

LEMMA ReceiverQuietStep ==
  ASSUME UdpInv, caller # "crashed", ReceiverLook \/ ReceiveFails \/ WriteWaits
  PROVE  UdpInv'
<1>1. /\ TypeOK /\ Points /\ Starts /\ Stops /\ \A p \in Packets : Apart(p)
      /\ NWorkers \in Nat /\ size \in Nat /\ NoPacket \notin Packets
      /\ \A n \in Nat : n < NWorkers => n \in Workers
      /\ \A w \in Workers : w \in Nat /\ w < NWorkers
  BY Facts
<1>2. UNCHANGED <<platform, caller, size, next, counter, rStop, packet, to, toCome, recvq, wPc, wStop,
                  request, handled, lost>>
  BY DEF ReceiverLook, Look, ReceiveFails, WriteWaits, service, receiver, worker
<1>3. /\ rPc' \in {"none", "loop", "receive", "dispatch", "write"} /\ rPc # "none"
      /\ rPc' \in {"dispatch", "write"} <=> rPc \in {"dispatch", "write"}
      /\ rPc' = "none" => rStop
  BY DEF ReceiverLook, Look, ReceiveFails, WriteWaits, receiver
<1>4. flag' \in [Workers -> BOOLEAN] /\ event' \in [Workers -> BOOLEAN]
  <2>1. UNCHANGED <<flag, event>> \/ Wake
    BY DEF ReceiverLook, ReceiveFails, WriteWaits, worker
  <2>2. flag \in [Workers -> BOOLEAN] /\ event \in [Workers -> BOOLEAN]
    BY <1>1, Zenon DEF TypeOK
  <2>3. QED
    BY <1>1, <2>1, <2>2, WakeTypes
<1>5. \A p \in Packets : Apart(p)'
  BY <1>1, <1>2, ApartKept
<1>6. TypeOK'
  BY <1>1, <1>2, <1>3, <1>4 DEF TypeOK
<1>7. Points' /\ Starts' /\ Stops'
  BY <1>1, <1>2, <1>3 DEF Points, Starts, Stops
<1>8. QED
  BY <1>2, <1>5, <1>6, <1>7 DEF UdpInv, Running

LEMMA DispatchStep ==
  ASSUME UdpInv, caller # "crashed", Dispatch
  PROVE  UdpInv'
<1>1. /\ TypeOK /\ Points /\ Starts /\ Stops /\ \A p \in Packets : Apart(p)
      /\ NWorkers \in Nat /\ size \in Nat /\ NoPacket \notin Packets
      /\ \A n \in Nat : n < NWorkers => n \in Workers
      /\ \A w \in Workers : w \in Nat /\ w < NWorkers
  BY Facts
<1>2. /\ rPc = "dispatch" /\ counter' = (counter + 1) % NWorkers /\ to' = counter /\ rPc' = "write"
      /\ \/ caller' = caller
         \/ (counter >= size \/ caller = "workers") /\ caller' = "crashed"
      /\ UNCHANGED <<platform, size, next, rStop, packet, toCome, recvq, wPc, wStop, request, flag, event,
                     handled, lost>>
  BY DEF Dispatch, worker
<1>3. counter \in Workers /\ counter \in Nat /\ counter < NWorkers
  <2>1. counter \in Workers
    BY <1>1, Zenon DEF TypeOK
  <2>2. QED
    BY <1>1, <2>1
<1>4. counter' \in Workers
  <2>1. NWorkers > 0
    BY <1>1, <1>3
  <2>2. (counter + 1) % NWorkers \in 0 .. NWorkers - 1
    BY ONLY <2>1, <1>1, <1>3, Z3
  <2>3. QED
    BY <1>2, <2>2 DEF Workers
<1>5. \A p \in Packets : Apart(p)'
  BY <1>1, <1>2, ApartKept
<1>6. TypeOK'
  BY <1>1, <1>2, <1>3, <1>4 DEF TypeOK
<1>7. caller' # "crashed" => Points' /\ Starts' /\ Stops'
  BY <1>1, <1>2 DEF Points, Starts, Stops
<1>8. caller' = "crashed" => Crashed'
  <2>1. ASSUME caller' = "crashed" PROVE size < NWorkers /\ platform # "linux"
    <3>1. counter >= size \/ caller = "workers"
      BY <1>2, <2>1
    <3>2. size < NWorkers
      BY <1>1, <1>3, <3>1 DEF Starts
    <3>3. platform = "linux" => size = NWorkers
      BY <1>1, <1>2 DEF Starts
    <3>4. QED
      BY <1>1, <3>2, <3>3
  <2>2. QED
    BY <1>2, <2>1 DEF Crashed
<1>9. QED
  BY <1>5, <1>6, <1>7, <1>8 DEF UdpInv, Running

LEMMA ReceiveStep ==
  ASSUME UdpInv, caller # "crashed", Receive
  PROVE  UdpInv'
<1>1. /\ TypeOK /\ Points /\ Starts /\ Stops /\ \A p \in Packets : Apart(p)
      /\ NWorkers \in Nat /\ size \in Nat /\ NoPacket \notin Packets
      /\ \A n \in Nat : n < NWorkers => n \in Workers
      /\ \A w \in Workers : w \in Nat /\ w < NWorkers
  BY Facts
<1>2. /\ rPc = "receive" /\ packet' \in toCome /\ toCome' = toCome \ {packet'} /\ rPc' = "dispatch"
      /\ UNCHANGED <<platform, caller, size, next, counter, rStop, to, recvq, wPc, wStop, request, flag,
                     event, handled, lost>>
  BY DEF Receive, service, worker
<1>3. packet = NoPacket /\ packet' \in Packets /\ packet' # NoPacket /\ toCome' \subseteq Packets
  BY <1>1, <1>2 DEF Points, TypeOK
<1>4. \A p \in Packets : /\ Queued(p)' <=> Queued(p)
                         /\ Held(p)' <=> Held(p)
                         /\ SingleSlot(p)' <=> SingleSlot(p)
                         /\ SingleWorker(p)' <=> SingleWorker(p)
  BY <1>2 DEF Queued, Held, SingleSlot, SingleWorker
<1>5. \A p \in Packets : Apart(p)'
  BY <1>1, <1>2, <1>3, <1>4 DEF Apart
<1>6. TypeOK'
  BY <1>1, <1>2, <1>3 DEF TypeOK
<1>7. Points' /\ Starts' /\ Stops'
  BY <1>1, <1>2, <1>3 DEF Points, Starts, Stops
<1>8. QED
  BY <1>2, <1>5, <1>6, <1>7 DEF UdpInv, Running

LEMMA WriteStep ==
  ASSUME UdpInv, caller # "crashed", Write
  PROVE  UdpInv'
<1>1. /\ TypeOK /\ Points /\ Starts /\ Stops /\ \A p \in Packets : Apart(p)
      /\ NWorkers \in Nat /\ size \in Nat /\ NoPacket \notin Packets
      /\ \A n \in Nat : n < NWorkers => n \in Workers
      /\ \A w \in Workers : w \in Nat /\ w < NWorkers
  BY Facts
<1>2. /\ rPc = "write" /\ Len(recvq[to]) < QSize
      /\ recvq' = [recvq EXCEPT ![to] = Append(@, packet)]
      /\ packet' = NoPacket /\ rPc' = "loop"
      /\ UNCHANGED <<platform, caller, size, next, counter, rStop, to, toCome, wPc, wStop, request,
                     handled, lost>>
      /\ Wake
  BY DEF Write, service
<1>3. packet \in Packets /\ to \in Workers
  BY <1>1, <1>2 DEF Points, TypeOK
<1>4. /\ recvq' \in [Workers -> Seq(Packets)]
      /\ Len(recvq'[to]) = Len(recvq[to]) + 1
      /\ \A v \in Workers : v # to => recvq'[v] = recvq[v]
      /\ \A p \in Packets : Queued(p)' <=> Queued(p) \/ p = packet
      /\ \A p \in Packets : SingleSlot(p) /\ (p = packet => ~Queued(packet)) => SingleSlot(p)'
  BY <1>1, <1>2, <1>3, Appended
<1>5. \A p \in Packets : (Held(p)' <=> Held(p)) /\ (SingleWorker(p)' <=> SingleWorker(p))
  BY <1>2 DEF Held, SingleWorker
<1>6. \A p \in Packets : Apart(p)'
  BY <1>1, <1>2, <1>3, <1>4, <1>5 DEF Apart
<1>7. flag' \in [Workers -> BOOLEAN] /\ event' \in [Workers -> BOOLEAN]
  BY <1>1, <1>2, WakeTypes
<1>8. TypeOK'
  BY <1>1, <1>2, <1>4, <1>7 DEF TypeOK
<1>9. \A w \in Workers : Len(recvq'[w]) <= QSize
  <2>1. Len(recvq[to]) \in Nat /\ QSize \in Nat
    <3>1. recvq[to] \in Seq(Packets)
      BY <1>1, <1>3 DEF TypeOK
    <3>2. QED
      BY <3>1, LenProperties, UdpAssumption
  <2>2. Len(recvq'[to]) <= QSize
    BY <1>2, <1>4, <2>1
  <2>3. QED
    BY <1>1, <1>4, <2>2 DEF Points
<1>10. Points'
  BY <1>1, <1>2, <1>9 DEF Points
<1>11. Starts' /\ Stops'
  BY <1>1, <1>2 DEF Starts, Stops
<1>12. QED
  BY <1>2, <1>6, <1>8, <1>10, <1>11 DEF UdpInv, Running

-----------------------------------------------------------------------------
(* A worker *)

\* A thread that runs is told what to do next by Goto, and is not one that is gone.
LEMMA GotoStep ==
  ASSUME TypeOK, Points, Stops, NEW w \in Workers, NEW label \in {"none", "loop", "read", "flag", "wait", "handle"}, Goto(w, label),
         wPc[w] # "none", UNCHANGED <<caller, size, next, rStop>>
  PROVE  /\ wPc' \in [Workers -> {"none", "loop", "read", "flag", "wait", "handle"}] /\ wPc'[w] = label
         /\ \A v \in Workers : v # w => wPc'[v] = wPc[v]
         /\ \A v \in Workers : v >= size' => wPc'[v] = "none"
         /\ Stops'
<1>1. wPc \in [Workers -> {"none", "loop", "read", "flag", "wait", "handle"}]
  BY Zenon DEF TypeOK
<1>2. /\ wPc' \in [Workers -> {"none", "loop", "read", "flag", "wait", "handle"}] /\ wPc'[w] = label
      /\ \A v \in Workers : v # w => wPc'[v] = wPc[v]
  BY <1>1 DEF Goto
<1>3. \A v \in Workers : wPc[v] = "none" => wPc'[v] = "none"
  BY <1>2
<1>4. \A v \in Workers : v >= size' => wPc'[v] = "none"
  BY <1>3 DEF Points
<1>5. Stops'
  BY <1>3 DEF Stops
<1>6. QED
  BY <1>2, <1>4, <1>5

LEMMA WorkerQuietStep ==
  ASSUME UdpInv, caller # "crashed", NEW w \in Workers,
         WorkerLook(w) \/ ReadEmpty(w) \/ RaiseFlag(w) \/ Woken(w)
  PROVE  UdpInv'
<1>1. /\ TypeOK /\ Points /\ Starts /\ Stops /\ \A p \in Packets : Apart(p)
      /\ NWorkers \in Nat /\ size \in Nat /\ NoPacket \notin Packets
      /\ \A n \in Nat : n < NWorkers => n \in Workers
      /\ \A v \in Workers : v \in Nat /\ v < NWorkers
  BY Facts
<1>2. UNCHANGED <<platform, caller, size, next, counter, rPc, rStop, packet, to, toCome, recvq, wStop,
                  request, handled, lost>>
  BY DEF WorkerLook, ReadEmpty, RaiseFlag, Woken, service, receiver
<1>3. wPc[w] \in {"loop", "read", "flag", "wait"}
  BY DEF WorkerLook, ReadEmpty, RaiseFlag, Woken
<1>4. PICK label \in {"none", "read", "flag", "wait"} : Goto(w, label)
  <2>1. Goto(w, "none") \/ Goto(w, "read") \/ Goto(w, "flag") \/ Goto(w, "wait")
    BY DEF WorkerLook, ReadEmpty, RaiseFlag, Woken
  <2>2. QED
    BY <2>1
<1>5. /\ wPc' \in [Workers -> {"none", "loop", "read", "flag", "wait", "handle"}] /\ wPc'[w] = label
      /\ \A v \in Workers : v # w => wPc'[v] = wPc[v]
      /\ \A v \in Workers : v >= size' => wPc'[v] = "none"
      /\ Stops'
  BY <1>1, <1>2, <1>3, <1>4, GotoStep
<1>6. flag' \in [Workers -> BOOLEAN] /\ event' \in [Workers -> BOOLEAN]
  <2>1. flag \in [Workers -> BOOLEAN] /\ event \in [Workers -> BOOLEAN]
    BY <1>1, Zenon DEF TypeOK
  <2>2. flag' = flag \/ flag' = [flag EXCEPT ![w] = TRUE]
    BY DEF WorkerLook, ReadEmpty, RaiseFlag, Woken
  <2>3. event' = event \/ event' = [event EXCEPT ![w] = FALSE]
    BY DEF WorkerLook, ReadEmpty, RaiseFlag, Woken
  <2>4. flag' \in [Workers -> BOOLEAN]
    BY ONLY <2>1, <2>2
  <2>5. event' \in [Workers -> BOOLEAN]
    BY ONLY <2>1, <2>3
  <2>6. QED
    BY <2>4, <2>5
<1>7. \A p \in Packets : Apart(p)'
  BY <1>1, <1>2, ApartKept
<1>8. TypeOK'
  BY <1>1, <1>2, <1>5, <1>6 DEF TypeOK
<1>9. Points'
  BY <1>1, <1>2, <1>3, <1>5 DEF Points
<1>10. Starts'
  BY <1>1, <1>2 DEF Starts
<1>11. QED
  BY <1>2, <1>5, <1>7, <1>8, <1>9, <1>10 DEF UdpInv, Running

LEMMA ReadStep ==
  ASSUME UdpInv, caller # "crashed", NEW w \in Workers, Read(w)
  PROVE  UdpInv'
<1>1. /\ TypeOK /\ Points /\ Starts /\ Stops /\ \A p \in Packets : Apart(p)
      /\ NWorkers \in Nat /\ size \in Nat /\ NoPacket \notin Packets
      /\ \A n \in Nat : n < NWorkers => n \in Workers
      /\ \A v \in Workers : v \in Nat /\ v < NWorkers
  BY Facts
<1>2. /\ wPc[w] = "read" /\ recvq[w] # <<>>
      /\ request' = [request EXCEPT ![w] = Head(recvq[w])]
      /\ recvq' = [recvq EXCEPT ![w] = Tail(@)]
      /\ Goto(w, "handle")
      /\ UNCHANGED <<platform, caller, size, next, counter, rPc, rStop, packet, to, toCome, wStop, flag,
                     event, handled, lost>>
  BY DEF Read, service, receiver
<1>3. PICK q : q = Head(recvq[w])
  OBVIOUS
<1>4. /\ recvq' \in [Workers -> Seq(Packets)]
      /\ Len(recvq'[w]) <= Len(recvq[w])
      /\ \A v \in Workers : v # w => recvq'[v] = recvq[v]
      /\ q \in Packets /\ Queued(q)
      /\ \A p \in Packets : p # q => (Queued(p)' <=> Queued(p))
      /\ \A p \in Packets : SingleSlot(p) => SingleSlot(p)'
      /\ SingleSlot(q) => ~Queued(q)'
  BY <1>1, <1>2, <1>3, Taken
<1>5. /\ wPc' \in [Workers -> {"none", "loop", "read", "flag", "wait", "handle"}] /\ wPc'[w] = "handle"
      /\ \A v \in Workers : v # w => wPc'[v] = wPc[v]
      /\ \A v \in Workers : v >= size' => wPc'[v] = "none"
      /\ Stops'
  BY <1>1, <1>2, GotoStep
<1>6. request[w] = NoPacket
  BY <1>1, <1>2 DEF Points
<1>7. /\ request' \in [Workers -> Packets \cup {NoPacket}] /\ request'[w] = q
      /\ \A v \in Workers : v # w => request'[v] = request[v]
      /\ \A p \in Packets : Held(p)' <=> Held(p) \/ p = q
      /\ \A p \in Packets : SingleWorker(p) /\ (p = q => ~Held(q)) => SingleWorker(p)'
  BY <1>1, <1>2, <1>3, <1>4, <1>6, Given
<1>8. \A p \in Packets : Apart(p)'
  <2>1. ASSUME NEW p \in Packets PROVE Apart(p)'
    <3>1. Apart(p) /\ Apart(q)
      BY <1>1, <1>4
    <3>2. p \in toCome' <=> p \in toCome
      BY <1>2
    <3>3. packet' = packet /\ handled' = handled /\ lost' = lost
      BY <1>2
    <3>4. CASE p = q
      BY <1>4, <1>7, <3>1, <3>2, <3>3, <3>4 DEF Apart
    <3>5. CASE p # q
      BY <1>4, <1>7, <3>1, <3>2, <3>3, <3>5 DEF Apart
    <3>6. QED
      BY <3>4, <3>5
  <2>2. QED
    BY <2>1
<1>9. TypeOK'
  BY <1>1, <1>2, <1>4, <1>5, <1>7 DEF TypeOK
<1>10. \A v \in Workers : Len(recvq'[v]) <= QSize
  <2>1. recvq[w] \in Seq(Packets) /\ recvq'[w] \in Seq(Packets) /\ QSize \in Nat
    BY <1>1, <1>4, UdpAssumption DEF TypeOK
  <2>2. Len(recvq[w]) \in Nat /\ Len(recvq'[w]) \in Nat /\ Len(recvq[w]) <= QSize
    BY <1>1, <2>1, LenProperties DEF Points
  <2>3. Len(recvq'[w]) <= QSize
    BY <1>4, <2>1, <2>2
  <2>4. QED
    BY <1>1, <1>4, <2>3 DEF Points
<1>11. Points'
  <2>1. \A v \in Workers : request'[v] # NoPacket <=> wPc'[v] = "handle"
    <3>1. request'[w] # NoPacket /\ wPc'[w] = "handle"
      BY <1>1, <1>4, <1>5, <1>7
    <3>2. \A v \in Workers : v # w => (request'[v] # NoPacket <=> wPc'[v] = "handle")
      BY <1>1, <1>5, <1>7 DEF Points
    <3>3. QED
      BY <3>1, <3>2
  <2>2. packet' # NoPacket <=> rPc' \in {"dispatch", "write"}
    BY <1>1, <1>2 DEF Points
  <2>3. QED
    BY <1>2, <1>5, <1>10, <2>1, <2>2 DEF Points
<1>12. Starts'
  BY <1>1, <1>2 DEF Starts
<1>13. QED
  BY <1>2, <1>5, <1>8, <1>9, <1>11, <1>12 DEF UdpInv, Running

LEMMA HandleStep ==
  ASSUME UdpInv, caller # "crashed", NEW w \in Workers, Handle(w)
  PROVE  UdpInv'
<1>1. /\ TypeOK /\ Points /\ Starts /\ Stops /\ \A p \in Packets : Apart(p)
      /\ NWorkers \in Nat /\ size \in Nat /\ NoPacket \notin Packets
      /\ \A n \in Nat : n < NWorkers => n \in Workers
      /\ \A v \in Workers : v \in Nat /\ v < NWorkers
  BY Facts
<1>2. /\ wPc[w] = "handle"
      /\ handled' = [handled EXCEPT ![request[w]] = @ + 1]
      /\ request' = [request EXCEPT ![w] = NoPacket]
      /\ Goto(w, "loop")
      /\ UNCHANGED <<platform, caller, size, next, counter, rPc, rStop, packet, to, toCome, recvq, wStop,
                     flag, event, lost>>
  BY DEF Handle, service, receiver
<1>3. PICK q : q = request[w]
  OBVIOUS
<1>4. q \in Packets
  BY <1>1, <1>2, <1>3 DEF Points, TypeOK
<1>5. /\ request' \in [Workers -> Packets \cup {NoPacket}] /\ request'[w] = NoPacket
      /\ \A v \in Workers : v # w => request'[v] = request[v]
      /\ Held(q) /\ (SingleWorker(q) => ~Held(q)')
      /\ \A p \in Packets : p # q => (Held(p)' <=> Held(p))
      /\ \A p \in Packets : SingleWorker(p) => SingleWorker(p)'
  BY <1>1, <1>2, <1>3, <1>4, Released
<1>6. /\ wPc' \in [Workers -> {"none", "loop", "read", "flag", "wait", "handle"}] /\ wPc'[w] = "loop"
      /\ \A v \in Workers : v # w => wPc'[v] = wPc[v]
      /\ \A v \in Workers : v >= size' => wPc'[v] = "none"
      /\ Stops'
  BY <1>1, <1>2, GotoStep
<1>7. handled \in [Packets -> Nat] /\ handled[q] = 0
  BY <1>1, <1>4, <1>5 DEF TypeOK, Apart
<1>8. /\ handled' \in [Packets -> Nat] /\ handled'[q] = 1
      /\ \A p \in Packets : p # q => handled'[p] = handled[p]
  BY <1>2, <1>3, <1>4, <1>7
<1>9. \A p \in Packets : (Queued(p)' <=> Queued(p)) /\ (SingleSlot(p)' <=> SingleSlot(p))
  BY <1>2 DEF Queued, SingleSlot
<1>10. \A p \in Packets : Apart(p)'
  <2>1. ASSUME NEW p \in Packets PROVE Apart(p)'
    <3>1. Apart(p) /\ Apart(q) /\ (Queued(p)' <=> Queued(p)) /\ (SingleSlot(p)' <=> SingleSlot(p))
      BY <1>1, <1>4, <1>9, <2>1
    <3>2. packet' = packet /\ toCome' = toCome /\ lost' = lost
      BY <1>2
    <3>3. CASE p = q
      BY <1>5, <1>8, <3>1, <3>2, <3>3 DEF Apart
    <3>4. CASE p # q
      BY <1>5, <1>8, <2>1, <3>1, <3>2, <3>4 DEF Apart
    <3>5. QED
      BY <3>3, <3>4
  <2>2. QED
    BY <2>1
<1>11. TypeOK'
  BY <1>1, <1>2, <1>5, <1>6, <1>8 DEF TypeOK
<1>12. Points'
  BY <1>1, <1>2, <1>5, <1>6 DEF Points
<1>13. Starts'
  BY <1>1, <1>2 DEF Starts
<1>14. QED
  BY <1>2, <1>6, <1>10, <1>11, <1>12, <1>13 DEF UdpInv, Running

\* The packets in the queue of a worker that is deleted are lost.
LEMMA JoinWorkerStep ==
  ASSUME UdpInv, caller # "crashed", JoinWorker
  PROVE  UdpInv'
<1>1. /\ TypeOK /\ Points /\ Starts /\ Stops /\ \A p \in Packets : Apart(p)
      /\ NWorkers \in Nat /\ size \in Nat /\ NoPacket \notin Packets
      /\ \A n \in Nat : n < NWorkers => n \in Workers
      /\ \A v \in Workers : v \in Nat /\ v < NWorkers
  BY Facts
<1>2. /\ caller = "join" /\ wPc[next] = "none" /\ caller' = "stop" /\ next' = next + 1
      /\ lost' = lost \cup ToSet(recvq[next])
      /\ recvq' = [recvq EXCEPT ![next] = <<>>]
      /\ flag' = [flag EXCEPT ![next] = TRUE] /\ event' = [event EXCEPT ![next] = FALSE]
      /\ UNCHANGED <<platform, size, counter, rPc, rStop, packet, to, toCome, wPc, wStop, request, handled>>
  BY DEF JoinWorker, receiver
<1>3. next < size /\ next \in Nat /\ size <= NWorkers /\ next \in Workers
  BY <1>1, <1>2, Facts DEF Stops
<1>4. /\ recvq' \in [Workers -> Seq(Packets)] /\ recvq'[next] = <<>>
      /\ \A v \in Workers : v # next => recvq'[v] = recvq[v]
      /\ ToSet(recvq[next]) \subseteq Packets
      /\ \A p \in Packets : Queued(p) => Queued(p)' \/ p \in ToSet(recvq[next])
      /\ \A p \in Packets : Queued(p)' => Queued(p)
      /\ \A p \in Packets : SingleSlot(p) /\ p \in ToSet(recvq[next]) => Queued(p) /\ ~Queued(p)'
      /\ \A p \in Packets : SingleSlot(p) => SingleSlot(p)'
  BY <1>1, <1>2, <1>3, Emptied
<1>5. \A p \in Packets : (Held(p)' <=> Held(p)) /\ (SingleWorker(p)' <=> SingleWorker(p))
  BY <1>2 DEF Held, SingleWorker
<1>6. \A p \in Packets : Apart(p)'
  <2>1. ASSUME NEW p \in Packets PROVE Apart(p)'
    <3>1. /\ Apart(p) /\ (Held(p)' <=> Held(p)) /\ (SingleWorker(p)' <=> SingleWorker(p))
          /\ packet' = packet /\ toCome' = toCome /\ handled' = handled
          /\ p \in lost' <=> p \in lost \/ p \in ToSet(recvq[next])
      BY <1>1, <1>2, <1>5, <2>1
    <3>2. SingleSlot(p) /\ SingleSlot(p)'
      BY <1>4, <3>1 DEF Apart
    <3>3. CASE p \in ToSet(recvq[next])
      <4>1. Queued(p) /\ ~Queued(p)'
        BY <1>4, <3>2, <3>3
      <4>2. QED
        BY <3>1, <3>2, <3>3, <4>1 DEF Apart
    <3>4. CASE p \notin ToSet(recvq[next])
      <4>1. Queued(p)' <=> Queued(p)
        BY <1>4, <3>4
      <4>2. QED
        BY <3>1, <3>2, <3>4, <4>1 DEF Apart
    <3>5. QED
      BY <3>3, <3>4
  <2>2. QED
    BY <2>1
<1>7. flag' \in [Workers -> BOOLEAN] /\ event' \in [Workers -> BOOLEAN]
  <2>1. flag \in [Workers -> BOOLEAN] /\ event \in [Workers -> BOOLEAN]
    BY <1>1, Zenon DEF TypeOK
  <2>2. flag' \in [Workers -> BOOLEAN]
    BY ONLY <1>2, <1>3, <2>1
  <2>3. event' \in [Workers -> BOOLEAN]
    BY ONLY <1>2, <1>3, <2>1
  <2>4. QED
    BY <2>2, <2>3
<1>8. lost' \subseteq Packets /\ next' \in 0 .. NWorkers
  BY <1>1, <1>2, <1>3, <1>4 DEF TypeOK
<1>9. TypeOK'
  BY <1>1, <1>2, <1>4, <1>7, <1>8 DEF TypeOK
<1>10. \A v \in Workers : Len(recvq'[v]) <= QSize
  <2>1. QSize \in Nat /\ Len(recvq'[next]) = 0
    BY <1>4, UdpAssumption
  <2>2. \A v \in Workers : Len(recvq[v]) <= QSize
    BY <1>1 DEF Points
  <2>3. Len(recvq'[next]) <= QSize
    BY <2>1
  <2>4. QED
    BY ONLY <1>4, <2>2, <2>3
<1>11. Points'
  BY <1>1, <1>2, <1>10 DEF Points
<1>12. Starts'
  BY <1>1, <1>2 DEF Starts
<1>13. Stops'
  <2>1. \A w \in Workers : w < next' => wPc'[w] = "none"
    <3>1. \A w \in Workers : w < next + 1 => w < next \/ w = next
      BY <1>1, <1>3
    <3>2. \A w \in Workers : w < next => wPc[w] = "none"
      BY <1>1, <1>2 DEF Stops
    <3>3. QED
      BY <1>2, <3>1, <3>2
  <2>2. next' <= size'
    BY <1>1, <1>2, <1>3
  <2>3. QED
    BY <1>2, <2>1, <2>2 DEF Stops
<1>14. QED
  BY <1>2, <1>6, <1>9, <1>11, <1>12, <1>13 DEF UdpInv, Running

-----------------------------------------------------------------------------
LEMMA InitUdp == Init => UdpInv
<1> SUFFICES ASSUME Init PROVE UdpInv
  OBVIOUS
<1>1. /\ NoPacket \notin Packets /\ NWorkers \in Nat /\ NWorkers >= 1 /\ QSize \in Nat
      /\ 0 \in Workers /\ 0 \in 0 .. NWorkers /\ caller = "down"
  BY UdpAssumption DEF Workers, Init, ServiceInit
<1>2. \A w \in Workers : recvq[w] = <<>> /\ Len(recvq[w]) = 0 /\ request[w] = NoPacket /\ wPc[w] = "none"
  BY DEF Init, WorkerInit
<1>3. \A p \in Packets : /\ ~Queued(p) /\ ~Held(p) /\ SingleSlot(p) /\ SingleWorker(p)
                         /\ packet # p /\ p \in toCome /\ handled[p] = 0 /\ p \notin lost
  <2>1. \A w \in Workers : \A i : i \notin 1 .. Len(recvq[w])
    BY <1>2
  <2>2. \A p \in Packets : ~Queued(p) /\ SingleSlot(p)
    BY <2>1 DEF Queued, SingleSlot
  <2>3. \A p \in Packets : ~Held(p) /\ SingleWorker(p)
    BY <1>1, <1>2 DEF Held, SingleWorker
  <2>4. \A p \in Packets : packet # p /\ p \in toCome /\ handled[p] = 0 /\ p \notin lost
    BY <1>1 DEF Init, ReceiverInit
  <2>5. QED
    BY <2>2, <2>3, <2>4
<1>4. \A p \in Packets : Apart(p)
  BY <1>3 DEF Apart
<1>5. recvq \in [Workers -> Seq(Packets)] /\ handled \in [Packets -> Nat]
  BY DEF Init, WorkerInit
<1>6. TypeOK
  BY <1>1, <1>5 DEF Init, ServiceInit, ReceiverInit, WorkerInit, TypeOK
<1>7. Points
  BY <1>1, <1>2 DEF Init, ServiceInit, ReceiverInit, Points
<1>8. Starts /\ Stops
  BY <1>1 DEF Init, ServiceInit, ReceiverInit, Starts, Stops
<1>9. QED
  BY <1>1, <1>4, <1>6, <1>7, <1>8 DEF UdpInv, Running

LEMMA NextUdp == UdpInv /\ [Next]_vars => UdpInv'
<1> SUFFICES ASSUME UdpInv, [Next]_vars PROVE UdpInv'
  OBVIOUS
<1>1. CASE UNCHANGED vars
  <2>1. UNCHANGED <<platform, caller, size, next, counter, rPc, rStop, packet, to, toCome, recvq, wPc, wStop,
                    request, flag, event, handled, lost>>
    BY <1>1 DEF vars, service, receiver, worker
  <2>2. TypeOK'
    BY <2>1 DEF UdpInv, TypeOK
  <2>3. Points /\ Starts /\ Stops => Points' /\ Starts' /\ Stops'
    BY <2>1 DEF Points, Starts, Stops
  <2>4. \A p \in Packets : Apart(p) => Apart(p)'
    BY <2>1, ApartKept
  <2>5. Running => Running'
    BY <2>3, <2>4 DEF Running
  <2>6. Crashed => Crashed'
    BY <2>1 DEF Crashed
  <2>7. QED
    BY <2>1, <2>2, <2>5, <2>6 DEF UdpInv
<1>2. CASE Next
  <2>1. caller # "crashed"
    BY <1>2 DEF Next
  <2>2. CASE Starting
    BY <2>1, <2>2, CallerStep, StartWorkerStep, StartReceiverStep DEF Starting
  <2>3. CASE Stop \/ StopThread
    BY <2>1, <2>3, CallerStep, JoinWorkerStep DEF StopThread
  <2>4. CASE Receive \/ ReceiverThread
    BY <2>1, <2>4, ReceiveStep, ReceiverQuietStep, DispatchStep, WriteStep DEF ReceiverThread
  <2>5. ASSUME NEW w \in Workers, WorkerThread(w) PROVE UdpInv'
    BY <2>1, <2>5, WorkerQuietStep, ReadStep, HandleStep DEF WorkerThread
  <2>6. QED
    BY <1>2, <2>2, <2>3, <2>4, <2>5 DEF Next
<1>3. QED
  BY <1>1, <1>2

\* What is said of each place as one set of them.
LEMMA OneHolder ==
  ASSUME TypeOK, Points, NEW p \in Packets, Apart(p)
  PROVE  IF p \in toCome THEN Holders(p) = {} ELSE \E h \in Holders(p) : Holders(p) = {h}
<1> DEFINE AtReceiver == {<<"receiver", 0>> : q \in {packet} \cap {p}}
           Slots == {v \in Workers \X (1 .. QSize) : v[2] <= Len(recvq[v[1]]) /\ recvq[v[1]][v[2]] = p}
           InQueues == {<<"queue", q>> : q \in Slots}
           Having == {v \in Workers : request[v] = p}
           AtWorkers == {<<"worker", w>> : w \in Having}
           AtEnd == {<<"handled", n>> : n \in 1 .. handled[p]}
           Left == {<<"lost", 0>> : q \in lost \cap {p}}
<1>1. Holders(p) = AtReceiver \cup InQueues \cup AtWorkers \cup AtEnd \cup Left
  BY DEF Holders
<1>2. AtReceiver = IF packet = p THEN {<<"receiver", 0>>} ELSE {}
  OBVIOUS
<1>3. Left = IF p \in lost THEN {<<"lost", 0>>} ELSE {}
  OBVIOUS
<1>4. handled[p] \in Nat /\ \A w \in Workers : Len(recvq[w]) \in Nat /\ Len(recvq[w]) <= QSize
  <2>1. handled \in [Packets -> Nat] /\ recvq \in [Workers -> Seq(Packets)]
    BY Zenon DEF TypeOK
  <2>2. \A w \in Workers : recvq[w] \in Seq(Packets)
    BY <2>1
  <2>3. QED
    BY <2>1, <2>2, LenProperties DEF Points
<1>5. (handled[p] = 0 => AtEnd = {}) /\ (handled[p] = 1 => AtEnd = {<<"handled", 1>>})
  <2>1. ASSUME handled[p] = 0 PROVE AtEnd = {}
    <3>1. 1 .. handled[p] = {}
      BY <2>1
    <3>2. QED
      BY <3>1
  <2>2. ASSUME handled[p] = 1 PROVE AtEnd = {<<"handled", 1>>}
    <3>1. 1 .. handled[p] = {1}
      BY <2>2
    <3>2. QED
      BY <3>1
  <2>3. QED
    BY <2>1, <2>2
<1>6. ~Held(p) => AtWorkers = {}
  <2>1. ~Held(p) => Having = {}
    BY DEF Held
  <2>2. QED
    BY <2>1
<1>7. ASSUME Held(p) PROVE \E h : AtWorkers = {h}
  <2>1. PICK w \in Workers : request[w] = p
    BY <1>7 DEF Held
  <2>2. Having = {w}
    BY <2>1 DEF Apart, SingleWorker
  <2>3. AtWorkers = {<<"worker", w>>}
    BY <2>2
  <2>4. QED
    BY <2>3
<1>8. \A v \in Slots : /\ v[1] \in Workers /\ v[2] \in 1 .. Len(recvq[v[1]]) /\ recvq[v[1]][v[2]] = p
                       /\ v = <<v[1], v[2]>>
  BY <1>4, UdpAssumption
<1>9. ~Queued(p) => InQueues = {}
  <2>1. ~Queued(p) => Slots = {}
    BY ONLY <1>8 DEF Queued
  <2>2. QED
    BY ONLY <2>1
<1>10. ASSUME Queued(p) PROVE \E h : InQueues = {h}
  <2>1. PICK w \in Workers : \E i \in 1 .. Len(recvq[w]) : recvq[w][i] = p
    BY <1>10 DEF Queued
  <2>2. PICK i \in 1 .. Len(recvq[w]) : recvq[w][i] = p
    BY <2>1
  <2>3. <<w, i>> \in Slots
    <3>1. i \in 1 .. QSize /\ i <= Len(recvq[w])
      BY <1>4, <2>2, UdpAssumption
    <3>2. QED
      BY <2>2, <3>1
  <2>4. \A v \in Slots : v = <<w, i>>
    <3>1. \A v \in Slots : v[1] = w /\ v[2] = i
      BY <1>8, <2>2 DEF Apart, SingleSlot
    <3>2. QED
      BY ONLY <1>8, <3>1
  <2>5. Slots = {<<w, i>>}
    BY ONLY <2>3, <2>4
  <2>6. InQueues = {<<"queue", <<w, i>>>>}
    BY ONLY <2>5
  <2>7. QED
    BY <2>6
<1>11. \/ p \in toCome /\ packet # p /\ ~Queued(p) /\ ~Held(p) /\ handled[p] = 0 /\ p \notin lost
       \/ p \notin toCome /\ packet = p /\ ~Queued(p) /\ ~Held(p) /\ handled[p] = 0 /\ p \notin lost
       \/ p \notin toCome /\ packet # p /\ Queued(p) /\ ~Held(p) /\ handled[p] = 0 /\ p \notin lost
       \/ p \notin toCome /\ packet # p /\ ~Queued(p) /\ Held(p) /\ handled[p] = 0 /\ p \notin lost
       \/ p \notin toCome /\ packet # p /\ ~Queued(p) /\ ~Held(p) /\ handled[p] = 1 /\ p \notin lost
       \/ p \notin toCome /\ packet # p /\ ~Queued(p) /\ ~Held(p) /\ handled[p] = 0 /\ p \in lost
  BY DEF Apart
<1> HIDE DEF AtReceiver, InQueues, AtWorkers, AtEnd, Left
<1>12. \/ p \in toCome /\ Holders(p) = {}
       \/ p \notin toCome /\ \E h : Holders(p) = {h}
  BY ONLY <1>1, <1>2, <1>3, <1>5, <1>6, <1>7, <1>9, <1>10, <1>11
<1>13. QED
  BY ONLY <1>12

\* udp_service.h, both platforms: from recvfrom to handle a datagram is in one place, with the
\* receiver, in one queue or with one worker, and it is handled or left behind once; only the
\* stop after a start that failed, or on Windows a dispatch during start, looks past the end of
\* the workers.
THEOREM UdpPacketsAccounted == Spec => []PacketsAccounted
<1>1. UdpInv => PacketsAccounted
  <2> SUFFICES ASSUME UdpInv PROVE PacketsAccounted
    OBVIOUS
  <2>1. CASE caller = "crashed"
    BY <2>1 DEF UdpInv, Crashed, PacketsAccounted
  <2>2. CASE caller # "crashed"
    <3>1. \A p \in Packets : IF p \in toCome THEN Holders(p) = {} ELSE \E h \in Holders(p) : Holders(p) = {h}
      BY <2>2, OneHolder DEF UdpInv, Running
    <3>2. QED
      BY <2>2, <3>1, Zenon DEF PacketsAccounted
  <2>3. QED
    BY <2>1, <2>2
<1>2. QED
  BY <1>1, InitUdp, NextUdp, PTL DEF Spec
=============================================================================
