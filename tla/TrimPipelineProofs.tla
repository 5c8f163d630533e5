------------------------- MODULE TrimPipelineProofs -------------------------
(***************************************************************************)
(* Theorems about Master, for every set of keys, any number of trims and   *)
(* restarts, and any reports the environment sends, stale ones included,   *)
(* and about TrimPipeline, which is one such environment, for every set of *)
(* keys and workers and every bound on trims, faults and restarts.         *)
(***************************************************************************)
EXTENDS TrimPipeline, Integers, SequenceTheorems, FiniteSetTheorems, TLAPS

USE DEF Report, NoReport, masterVars, notifierVars, ioVars

\* Bump keeps the counters' type.
LEMMA BumpType ==
  ASSUME stat \in [StatNames -> Nat], NEW names
  PROVE  Bump(names) \in [StatNames -> Nat]
  BY DEF Bump

LEMMA InitInv == Init => TypeOK /\ NotifierInv
  BY NoKeyAssumption DEF Init, TypeOK, NotifierInv

\* TypeOK alone is not inductive: GetRecord looks up the key of a report, and
\* DeleteRecord's test of the count needs the record not to have changed.
LEMMA NextInv == TypeOK /\ NotifierInv /\ [Next]_masterVars => (TypeOK /\ NotifierInv)'
<1> SUFFICES ASSUME TypeOK, NotifierInv, [Next]_masterVars
             PROVE  TypeOK' /\ NotifierInv'
  OBVIOUS
<1> USE DEF TypeOK, NotifierInv
<1>1. ASSUME NEW k \in Keys, TrimNew(k) PROVE TypeOK' /\ NotifierInv'
  <2>1. TypeOK'
    <3>1. stat' \in [StatNames -> Nat]
      BY <1>1, BumpType DEF TrimNew
    <3>2. jobq' \in Seq(Keys)
      BY <1>1 DEF TrimNew
    <3>3. record' \in [Keys -> Nat]
      <4>1. record \in [Keys -> Nat] /\ record' = [record EXCEPT ![k] = 1]
        BY <1>1 DEF TrimNew
      <4>2. QED
        BY ONLY <4>1
    <3>4. accepted' \in [Keys -> Nat]
      BY <1>1 DEF TrimNew
    <3>5. UNCHANGED <<finq, sem, mutex, io, restarts, nPc, nMsg, nNum, posted>>
      BY <1>1 DEF TrimNew
    <3>6. QED
      BY <3>1, <3>2, <3>3, <3>4, <3>5
  <2>2. NotifierInv'
    BY <1>1 DEF TrimNew
  <2>3. QED
    BY <2>1, <2>2
<1>2. ASSUME NEW k \in Keys, TrimAgain(k) PROVE TypeOK' /\ NotifierInv'
  <2>1. TypeOK'
    <3>1. stat' \in [StatNames -> Nat]
      BY <1>2, BumpType DEF TrimAgain
    <3>2. QED
      BY <1>2, <3>1 DEF TrimAgain
  <2>2. NotifierInv'
    BY <1>2 DEF TrimAgain
  <2>3. QED
    BY <2>1, <2>2
<1>3. CASE ApplyJob
  BY <1>3, BumpType, HeadTailProperties DEF ApplyJob
<1>4. ASSUME NEW m \in Report, FinishPut(m) PROVE TypeOK' /\ NotifierInv'
  BY <1>4 DEF FinishPut
<1>5. CASE FinishRelease
  BY <1>5, BumpType DEF FinishRelease
<1>6. CASE SemAcquire
  BY <1>6 DEF SemAcquire
<1>7. CASE PopReport
  <2>1. CASE finq = <<>>
    BY <1>7, <2>1 DEF PopReport
  <2>2. CASE finq # <<>>
    <3>1. Head(finq) \in Report /\ Tail(finq) \in Seq(Report)
      BY <2>2, HeadTailProperties
    <3>2. QED
      BY <1>7, <2>2, <3>1 DEF PopReport
  <2>3. QED
    BY <2>1, <2>2
<1>8. CASE GetRecord
  BY <1>8 DEF GetRecord
<1>9. CASE DeleteRecord
  BY <1>9 DEF DeleteRecord
<1>10. CASE PostTranscode
  <2>1. nNum' \in Nat /\ nMsg' \in Report \cup {NoReport}
    BY <1>10 DEF PostTranscode
  <2>2. posted' \in [Keys -> [{"secc", "fail"} -> Nat]]
    BY <1>10 DEF PostTranscode, Outcome
  <2>3. stat' \in [StatNames -> Nat]
    BY <1>10, BumpType DEF PostTranscode
  <2>4. TypeOK'
    BY <1>10, <2>1, <2>2, <2>3 DEF PostTranscode
  <2>5. NotifierInv'
    BY <1>10 DEF PostTranscode
  <2>6. QED
    BY <2>4, <2>5
<1>11. CASE Restart
  BY <1>11, NoKeyAssumption DEF Restart
<1>12. CASE UNCHANGED masterVars
  BY <1>12
<1>13. QED
  BY <1>1, <1>2, <1>3, <1>4, <1>5, <1>6, <1>7, <1>8, <1>9, <1>10, <1>11, <1>12
     DEF Next, Trim, Notifier

\* The state of the master keeps its type, and the notifier's count is the
\* recorded one when it deletes the record, whatever the environment sends.
THEOREM MasterInvariant == Spec => [](TypeOK /\ NotifierInv)
  BY InitInv, NextInv, PTL DEF Spec

-----------------------------------------------------------------------------
LEMMA InitWakeup == Init => WakeupPerReport
  BY DEF Init, WakeupPerReport

LEMMA NextWakeup ==
  TypeOK /\ WakeupPerReport /\ [Next]_masterVars => WakeupPerReport'
<1> SUFFICES ASSUME TypeOK, WakeupPerReport, [Next]_masterVars
             PROVE  WakeupPerReport'
  OBVIOUS
<1> USE DEF TypeOK, WakeupPerReport
<1>1. ASSUME NEW k \in Keys, Trim(k) PROVE WakeupPerReport'
  BY <1>1 DEF Trim, TrimNew, TrimAgain
<1>2. CASE ApplyJob
  BY <1>2 DEF ApplyJob
<1>3. ASSUME NEW m \in Report, FinishPut(m) PROVE WakeupPerReport'
  <2>1. Len(finq') = Len(finq) + 1
    BY <1>3, AppendProperties DEF FinishPut
  <2>2. m # NoReport
    BY NoKeyAssumption
  <2>3. QED
    BY <1>3, <2>1, <2>2 DEF FinishPut
<1>4. CASE FinishRelease
  BY <1>4 DEF FinishRelease
<1>5. CASE SemAcquire
  BY <1>5 DEF SemAcquire
<1>6. CASE PopReport
  <2>1. finq # <<>>
    BY <1>6, EmptySeq DEF PopReport
  <2>2. Len(finq') = Len(finq) - 1
    BY <1>6, <2>1, HeadTailProperties DEF PopReport
  <2>3. QED
    BY <1>6, <2>1, <2>2, LenProperties DEF PopReport
<1>7. CASE GetRecord \/ DeleteRecord \/ PostTranscode
  BY <1>7 DEF GetRecord, DeleteRecord, PostTranscode
<1>8. CASE Restart
  BY <1>8 DEF Restart
<1>9. CASE UNCHANGED masterVars
  BY <1>9
<1>10. QED
  BY <1>1, <1>2, <1>3, <1>4, <1>5, <1>6, <1>7, <1>8, <1>9 DEF Next, Notifier

\* No wake-up of the notifier is lost or superfluous.
THEOREM WakeupCorrect == Spec => []WakeupPerReport
  BY InitWakeup, NextWakeup, MasterInvariant, PTL DEF Spec

-----------------------------------------------------------------------------
LEMMA InitImplements == Init => Service!Init
  BY DEF Init, Service!Init, Posting, Owed

\* What a trim adds to what is owed, and what a post takes away.
LEMMA TrimOwes ==
  ASSUME TypeOK, NEW k \in Keys, Trim(k), NEW j \in Keys
  PROVE  Owed(j) \in Nat /\ Owed(j)' = IF j = k THEN Owed(j) + 1 ELSE Owed(j)
<1>1. /\ record' = [record EXCEPT ![k] = record[k] + 1]
      /\ UNCHANGED <<nPc, nMsg, nNum>>
  BY DEF Trim, TrimNew, TrimAgain, TypeOK
<1>2. Posting(j) \in Nat /\ Posting(j)' = Posting(j)
  BY <1>1 DEF Posting, TypeOK
<1>3. record[j] \in Nat /\ record'[j] = IF j = k THEN record[j] + 1 ELSE record[j]
  BY <1>1 DEF TypeOK
<1>4. Owed(j) = record[j] + Posting(j)
  BY DEF Owed
<1>5. Owed(j)' = record'[j] + Posting(j)'
  BY DEF Owed
<1>6. QED
  BY <1>2, <1>3, <1>4, <1>5

LEMMA PostOwes ==
  ASSUME TypeOK, NotifierInv, PostTranscode, NEW j \in Keys
  PROVE  Owed(j) \in Nat /\ Owed(j)' = IF j = nMsg.key THEN Owed(j) - 1 ELSE Owed(j)
<1>1. nMsg.key \in Keys
  BY DEF PostTranscode, NotifierInv
<1>2. nNum \in Nat /\ nNum > 0 /\ nPc = "post" /\ nNum' = nNum - 1 /\ record' = record
  BY DEF PostTranscode, TypeOK, NotifierInv
<1>3. Posting(j) = IF j = nMsg.key THEN nNum ELSE 0
  BY <1>1, <1>2 DEF Posting
<1>4. Posting(j)' = IF j = nMsg.key THEN nNum - 1 ELSE 0
  <2>1. CASE nNum = 1
    BY <1>1, <1>2, <2>1, NoKeyAssumption DEF PostTranscode, Posting
  <2>2. CASE nNum # 1
    BY <1>1, <1>2, <2>2 DEF PostTranscode, Posting
  <2>3. QED
    BY <2>1, <2>2
<1>5. record[j] \in Nat /\ record'[j] = record[j]
  BY <1>2 DEF TypeOK
<1>6. Owed(j) = record[j] + Posting(j)
  BY DEF Owed
<1>7. Owed(j)' = record'[j] + Posting(j)'
  BY DEF Owed
<1>8. CASE j = nMsg.key
  BY <1>2, <1>3, <1>4, <1>5, <1>6, <1>7, <1>8
<1>9. CASE j # nMsg.key
  BY <1>2, <1>3, <1>4, <1>5, <1>6, <1>7, <1>9
<1>10. QED
  BY <1>8, <1>9

\* Every other step but a restart leaves what is owed alone: deleting the record
\* moves it to the notifier.
LEMMA OthersOwe ==
  ASSUME TypeOK, NotifierInv, NEW j \in Keys,
         \/ ApplyJob \/ FinishRelease \/ SemAcquire \/ PopReport \/ GetRecord \/ DeleteRecord
         \/ UNCHANGED masterVars
         \/ \E m \in Report : FinishPut(m)
  PROVE  Owed(j) \in Nat /\ Owed(j)' = Owed(j)
<1> USE DEF TypeOK, NotifierInv
<1>1. Owed(j) \in Nat
  BY DEF Owed, Posting
<1>2. CASE ApplyJob \/ FinishRelease \/ SemAcquire \/ PopReport \/ GetRecord
  BY <1>1, <1>2 DEF ApplyJob, FinishRelease, SemAcquire, PopReport, GetRecord, Owed, Posting
<1>3. CASE DeleteRecord
  BY <1>1, <1>3 DEF DeleteRecord, Owed, Posting
<1>4. CASE UNCHANGED masterVars
  BY <1>1, <1>4 DEF Owed, Posting
<1>5. CASE \E m \in Report : FinishPut(m)
  BY <1>1, <1>5 DEF FinishPut, Owed, Posting
<1>6. QED
  BY <1>1, <1>2, <1>3, <1>4, <1>5

\* A trim is an Accept, a post a Post, a restart a Forget, and no other step
\* changes what is owed: deleting the record moves it to the notifier.
LEMMA NextImplements ==
  TypeOK /\ NotifierInv /\ [Next]_masterVars => [Service!Next]_(Service!vars)
<1> SUFFICES ASSUME TypeOK, NotifierInv, [Next]_masterVars
             PROVE  [Service!Next]_(Service!vars)
  OBVIOUS
<1> USE DEF TypeOK, NotifierInv, Service!vars
<1>1. ASSUME NEW k \in Keys, Trim(k) PROVE Service!Accept(k)
  <2>1. /\ record' = [record EXCEPT ![k] = record[k] + 1]
        /\ accepted' = [accepted EXCEPT ![k] = accepted[k] + 1]
        /\ UNCHANGED <<restarts, posted, nPc, nMsg, nNum>>
    BY <1>1 DEF Trim, TrimNew, TrimAgain
  <2>2. ASSUME NEW j \in Keys
        PROVE  Owed(j) \in Nat /\ Owed(j)' = IF j = k THEN Owed(j) + 1 ELSE Owed(j)
    BY <1>1, TrimOwes
  <2>3. [j \in Keys |-> Owed(j)]' = [[j \in Keys |-> Owed(j)] EXCEPT ![k] = @ + 1]
    BY <2>2
  <2>4. QED
    BY <2>1, <2>3 DEF Service!Accept
<1>2. CASE ApplyJob
  BY <1>2 DEF ApplyJob, Owed, Posting
<1>3. ASSUME NEW m \in Report, FinishPut(m) PROVE UNCHANGED Service!vars
  BY <1>3 DEF FinishPut, Owed, Posting
<1>4. CASE FinishRelease
  BY <1>4 DEF FinishRelease, Owed, Posting
<1>5. CASE SemAcquire \/ PopReport \/ GetRecord
  BY <1>5 DEF SemAcquire, PopReport, GetRecord, Owed, Posting
<1>6. CASE DeleteRecord
  BY <1>6 DEF DeleteRecord, Owed, Posting
<1>7. ASSUME PostTranscode PROVE \E k \in Keys : Service!Post(k)
  <2> DEFINE Total(p) == [j \in Keys |-> p[j]["secc"] + p[j]["fail"]]
  <2>1. PICK key \in Keys : key = nMsg.key
    BY <1>7 DEF PostTranscode
  <2>2. nNum > 0 /\ nPc = "post" /\ nNum' = nNum - 1 /\ record' = record
    BY <1>7 DEF PostTranscode
  <2>3. ASSUME NEW j \in Keys
        PROVE  Owed(j) \in Nat /\ Owed(j)' = IF j = key THEN Owed(j) - 1 ELSE Owed(j)
    BY <1>7, <2>1, PostOwes
  <2>4. [j \in Keys |-> Owed(j)]' = [[j \in Keys |-> Owed(j)] EXCEPT ![key] = @ - 1]
    BY <2>3
  <2>5. ASSUME NEW o \in {"secc", "fail"},
               posted' = [posted EXCEPT ![key][o] = @ + 1]
        PROVE  Total(posted') = [Total(posted) EXCEPT ![key] = @ + 1]
    <3>1. posted'[key]["secc"] + posted'[key]["fail"]
            = posted[key]["secc"] + posted[key]["fail"] + 1
      BY <2>1, <2>5
    <3>2. \A j \in Keys \ {key} : posted'[j] = posted[j]
      BY <2>1, <2>5
    <3>3. QED
      BY <2>1, <3>1, <3>2
  <2>6. Total(posted') = [Total(posted) EXCEPT ![key] = @ + 1]
    BY <1>7, <2>1, <2>5 DEF PostTranscode, Outcome
  <2>7. [j \in Keys |-> Owed(j)][key] > 0
    BY <2>1, <2>2 DEF Owed, Posting
  <2>8. UNCHANGED <<accepted, restarts>>
    BY <1>7 DEF PostTranscode
  <2>9. Service!Post(key)
    BY <2>4, <2>6, <2>7, <2>8 DEF Service!Post
  <2>10. QED
    BY <2>1, <2>9
<1>8. ASSUME Restart PROVE Service!Forget
  BY <1>8 DEF Restart, Service!Forget, Owed, Posting
<1>9. CASE UNCHANGED masterVars
  BY <1>9 DEF Owed, Posting
<1>10. QED
  BY <1>1, <1>2, <1>3, <1>4, <1>5, <1>6, <1>7, <1>8, <1>9
     DEF Next, Notifier, Service!Next

\* The two threads of master.py implement TrimService: every accepted trim is
\* answered by at most one post of its own, and only a restart forgets one.
THEOREM MasterImplementsService == Spec => ImplementsService
  BY InitImplements, NextImplements, MasterInvariant, PTL
     DEF Spec, ImplementsService, Service!Spec

\* What TrimService says of its books follows from what its steps do to them.
LEMMA ServiceBalanced == ImplementsService => []Service!Balanced
<1> DEFINE a == accepted
           p == [k \in Keys |-> posted[k]["secc"] + posted[k]["fail"]]
           o == [k \in Keys |-> Owed(k)]
           Books == /\ a \in [Keys -> Nat] /\ p \in [Keys -> Nat] /\ o \in [Keys -> Nat]
                    /\ restarts \in Nat
                    /\ \A k \in Keys : /\ p[k] + o[k] <= a[k]
                                       /\ restarts = 0 => p[k] + o[k] = a[k]
<1>1. Service!Init => Books
  BY DEF Service!Init
<1>2. Books /\ [Service!Next]_(Service!vars) => Books'
  <2>1. Service!Forget => /\ a' = a /\ p' = p /\ o' = [k \in Keys |-> 0]
                          /\ restarts' = restarts + 1
    BY DEF Service!Forget
  <2>2. ASSUME NEW k \in Keys, Service!Accept(k)
        PROVE  /\ a' = [a EXCEPT ![k] = @ + 1] /\ o' = [o EXCEPT ![k] = @ + 1]
               /\ p' = p /\ restarts' = restarts
    BY <2>2 DEF Service!Accept
  <2>3. ASSUME NEW k \in Keys, Service!Post(k)
        PROVE  /\ o[k] > 0
               /\ o' = [o EXCEPT ![k] = @ - 1] /\ p' = [p EXCEPT ![k] = @ + 1]
               /\ a' = a /\ restarts' = restarts
    BY <2>3 DEF Service!Post
  <2>4. UNCHANGED Service!vars => a' = a /\ p' = p /\ o' = o /\ restarts' = restarts
    BY DEF Service!vars
  <2>5. Service!Next => Service!Forget \/ \E k \in Keys : Service!Accept(k) \/ Service!Post(k)
    BY DEF Service!Next
  <2> HIDE DEF a, p, o
  <2>6. Books /\ Service!Forget => Books'
    BY <2>1
  <2>7. Books /\ (\E k \in Keys : Service!Accept(k)) => Books'
    BY <2>2
  <2>8. Books /\ (\E k \in Keys : Service!Post(k)) => Books'
    BY <2>3
  <2>9. Books /\ UNCHANGED Service!vars => Books'
    BY <2>4
  <2> HIDE DEF Books
  <2>10. QED
    BY <2>5, <2>6, <2>7, <2>8, <2>9
<1>3. Books => Service!Balanced
  BY DEF Service!Balanced
<1> HIDE DEF Books
<1>4. QED
  BY <1>1, <1>2, <1>3, PTL DEF ImplementsService, Service!Spec

-----------------------------------------------------------------------------
(* The counters the UDP handler sends.  OwedTrims is a set of tokens, one  *)
(* for each owed trim, so that its size changes as tokens come and go.     *)
LEMMA OwedTrimsHas ==
  \A x : x \in OwedTrims <=> \E k \in Keys : \E i \in 1 .. Owed(k) : x = <<k, i>>
  BY DEF OwedTrims

\* Bumped more trim is owed for one rendition: there is one new token.
LEMMA OneMoreOwed ==
  ASSUME NEW S, NEW T, NEW k \in Keys, NEW f \in [Keys -> Nat], NEW g \in [Keys -> Nat],
         IsFiniteSet(S),
         \A x : x \in S <=> \E j \in Keys : \E i \in 1 .. f[j] : x = <<j, i>>,
         \A x : x \in T <=> \E j \in Keys : \E i \in 1 .. g[j] : x = <<j, i>>,
         \A j \in Keys : g[j] = IF j = k THEN f[j] + 1 ELSE f[j]
  PROVE  IsFiniteSet(T) /\ Cardinality(T) = Cardinality(S) + 1
<1> DEFINE new == <<k, f[k] + 1>>
<1>1. new \notin S
  <2>1. ASSUME NEW j \in Keys, NEW i \in 1 .. f[j], new = <<j, i>> PROVE FALSE
    <3>1. j = k /\ i = f[k] + 1
      BY <2>1
    <3>2. QED
      BY <3>1
  <2>2. QED
    BY <2>1
<1>2. ASSUME NEW x \in S PROVE x \in T
  <2>1. PICK j \in Keys : \E i \in 1 .. f[j] : x = <<j, i>>
    BY <1>2
  <2>2. PICK i \in 1 .. f[j] : x = <<j, i>>
    BY <2>1
  <2>3. i \in 1 .. g[j]
    <3>1. f[j] \in Nat /\ (g[j] = f[j] \/ g[j] = f[j] + 1)
      OBVIOUS
    <3>2. QED
      BY ONLY <3>1, i \in 1 .. f[j]
  <2>4. QED
    BY <2>2, <2>3
<1>3. new \in T
  <2>1. f[k] + 1 \in 1 .. g[k]
    OBVIOUS
  <2>2. QED
    BY <2>1
<1>4. ASSUME NEW x \in T, x # new PROVE x \in S
  <2>1. PICK j \in Keys : \E i \in 1 .. g[j] : x = <<j, i>>
    BY <1>4
  <2>2. PICK i \in 1 .. g[j] : x = <<j, i>>
    BY <2>1
  <2>3. i \in 1 .. f[j]
    <3>1. CASE j = k
      <4>1. g[k] = f[k] + 1 /\ f[k] \in Nat /\ i \in 1 .. g[k] /\ i # f[k] + 1
        BY <1>4, <2>2, <3>1
      <4>2. QED
        BY ONLY <3>1, <4>1
    <3>2. CASE j # k
      BY <3>2
    <3>3. QED
      BY <3>1, <3>2
  <2>4. QED
    BY <2>2, <2>3
<1>5. T = S \cup {new}
  BY <1>2, <1>3, <1>4
<1> HIDE DEF new
<1>6. IsFiniteSet(S \cup {new}) /\ Cardinality(S \cup {new}) = Cardinality(S) + 1
  BY <1>1, FS_AddElement
<1>7. QED
  BY <1>5, <1>6

\* TrimCounters, and why its first part can be kept up: the tokens are finite.
CountersInv == TrimCounters /\ IsFiniteSet(OwedTrims)

InFlight == IF io # NoReport THEN 1 ELSE 0
Bumped(n, names) == IF n \in names THEN 1 ELSE 0

\* What a step does to the counters and to what they count.
Moved(names, owedBy, jobsBy, flightBy, reportsBy) ==
  /\ stat' = Bump(names)
  /\ IsFiniteSet(OwedTrims')
  /\ Cardinality(OwedTrims') = Cardinality(OwedTrims) + owedBy
  /\ Len(jobq') = Len(jobq) + jobsBy
  /\ InFlight' = InFlight + flightBy
  /\ Len(finq') = Len(finq) + reportsBy

Books ==
  /\ stat["server_trim_record"] = stat["server_transcode_secc"]
       + stat["server_transcode_fail"] + Cardinality(OwedTrims)
  /\ stat["server_trim_queue"] = stat["worker_apply_num"] + Len(jobq)
  /\ Len(finq) <= stat["worker_finish_succ"] + stat["worker_finish_fail"] + InFlight

LEMMA CountersAreBooks == TrimCounters <=> Books
  BY DEF Books, TrimCounters, StatNames, InFlight

LEMMA CountersAreBooksNext == TrimCounters' <=> Books'
  BY DEF Books, TrimCounters, StatNames, InFlight

LEMMA BumpIs ==
  ASSUME stat \in [StatNames -> Nat], NEW names, stat' = Bump(names)
  PROVE  \A n \in StatNames : stat[n] \in Nat /\ stat'[n] = stat[n] + Bumped(n, names)
  BY DEF Bump, Bumped

LEMMA CountersKept ==
  ASSUME TypeOK, CountersInv, NEW names,
         NEW owedBy \in Int, NEW jobsBy \in Int, NEW flightBy \in Int, NEW reportsBy \in Int,
         Moved(names, owedBy, jobsBy, flightBy, reportsBy),
         Bumped("server_trim_record", names)
           = Bumped("server_transcode_secc", names) + Bumped("server_transcode_fail", names)
               + owedBy,
         Bumped("server_trim_queue", names) = Bumped("worker_apply_num", names) + jobsBy,
         reportsBy <= Bumped("worker_finish_succ", names) + Bumped("worker_finish_fail", names)
                        + flightBy
  PROVE  CountersInv'
<1>1. Cardinality(OwedTrims) \in Nat
  BY FS_CardinalityType DEF CountersInv
<1>2. Len(jobq) \in Nat /\ Len(finq) \in Nat /\ InFlight \in Nat
  BY LenProperties DEF TypeOK, InFlight
<1>3. \A n \in StatNames : stat[n] \in Nat /\ stat'[n] = stat[n] + Bumped(n, names)
  BY BumpIs DEF TypeOK, Moved
<1>4. \A n : Bumped(n, names) \in Int
  BY DEF Bumped
<1>5. Books
  BY CountersAreBooks DEF CountersInv
<1> DEFINE r == stat["server_trim_record"]  s == stat["server_transcode_secc"]
           f == stat["server_transcode_fail"]  q == stat["server_trim_queue"]
           a == stat["worker_apply_num"]  w == stat["worker_finish_succ"]
           v == stat["worker_finish_fail"]
<1>6. PICK r1, s1, f1, c1, q1, a1, l1, w1, v1, n1, i1 :
        /\ r1 = r' /\ s1 = s' /\ f1 = f' /\ q1 = q' /\ a1 = a' /\ w1 = w' /\ v1 = v'
        /\ c1 = Cardinality(OwedTrims') /\ l1 = Len(jobq') /\ n1 = Len(finq') /\ i1 = InFlight'
  OBVIOUS
<1>7. /\ r \in Nat /\ s \in Nat /\ f \in Nat /\ q \in Nat /\ a \in Nat /\ w \in Nat /\ v \in Nat
      /\ r1 = r + Bumped("server_trim_record", names)
      /\ s1 = s + Bumped("server_transcode_secc", names)
      /\ f1 = f + Bumped("server_transcode_fail", names)
      /\ q1 = q + Bumped("server_trim_queue", names)
      /\ a1 = a + Bumped("worker_apply_num", names)
      /\ w1 = w + Bumped("worker_finish_succ", names)
      /\ v1 = v + Bumped("worker_finish_fail", names)
  BY <1>3, <1>6 DEF StatNames
<1>8. /\ c1 = Cardinality(OwedTrims) + owedBy /\ l1 = Len(jobq) + jobsBy
      /\ i1 = InFlight + flightBy /\ n1 = Len(finq) + reportsBy
  BY <1>6 DEF Moved
<1>9. /\ r = s + f + Cardinality(OwedTrims)
      /\ q = a + Len(jobq)
      /\ Len(finq) <= w + v + InFlight
  BY <1>5 DEF Books
<1> HIDE DEF r, s, f, q, a, w, v
<1>10. r1 = s1 + f1 + c1
  <2> DEFINE x == Bumped("server_trim_record", names)  y == Bumped("server_transcode_secc", names)
             z == Bumped("server_transcode_fail", names)  c == Cardinality(OwedTrims)
  <2>1. x \in Int /\ y \in Int /\ z \in Int /\ c \in Int /\ owedBy \in Int /\ x = y + z + owedBy
    BY <1>1, <1>4
  <2>2. r1 = r + x /\ s1 = s + y /\ f1 = f + z /\ c1 = c + owedBy /\ r = s + f + c
    BY <1>7, <1>8, <1>9
  <2>3. r \in Int /\ s \in Int /\ f \in Int
    BY <1>7
  <2> HIDE DEF x, y, z, c
  <2>4. QED
    BY ONLY <2>1, <2>2, <2>3
<1>11. q1 = a1 + l1
  <2> DEFINE x == Bumped("server_trim_queue", names)  y == Bumped("worker_apply_num", names)
             l == Len(jobq)
  <2>1. x \in Int /\ y \in Int /\ l \in Int /\ jobsBy \in Int /\ x = y + jobsBy
    BY <1>2, <1>4
  <2>2. q1 = q + x /\ a1 = a + y /\ l1 = l + jobsBy /\ q = a + l
    BY <1>7, <1>8, <1>9
  <2>3. q \in Int /\ a \in Int
    BY <1>7
  <2> HIDE DEF x, y, l
  <2>4. QED
    BY ONLY <2>1, <2>2, <2>3
<1>12. n1 <= w1 + v1 + i1
  <2> DEFINE x == Bumped("worker_finish_succ", names)  y == Bumped("worker_finish_fail", names)
             i == InFlight  n == Len(finq)
  <2>1. /\ x \in Int /\ y \in Int /\ i \in Int /\ n \in Int /\ flightBy \in Int
        /\ reportsBy \in Int /\ reportsBy <= x + y + flightBy
    BY <1>2, <1>4
  <2>2. /\ n1 = n + reportsBy /\ w1 = w + x /\ v1 = v + y /\ i1 = i + flightBy
        /\ n <= w + v + i
    BY <1>7, <1>8, <1>9
  <2>3. w \in Int /\ v \in Int
    BY <1>7
  <2> HIDE DEF x, y, i, n
  <2>4. QED
    BY ONLY <2>1, <2>2, <2>3
<1>13. Books'
  BY <1>6, <1>10, <1>11, <1>12 DEF Books, r, s, f, q, a, w, v
<1>14. QED
  BY <1>13, CountersAreBooksNext DEF CountersInv, Moved

\* Nothing owed, nothing counted.
LEMMA CountersStart ==
  ASSUME \A j \in Keys : Owed(j) = 0, jobq = <<>>, finq = <<>>,
         stat = [n \in StatNames |-> 0]
  PROVE  CountersInv
<1>1. OwedTrims = {}
  <2>1. \A k \in Keys : 1 .. Owed(k) = {}
    OBVIOUS
  <2>2. QED
    BY <2>1 DEF OwedTrims
<1>2. IsFiniteSet(OwedTrims) /\ Cardinality(OwedTrims) = 0
  BY <1>1, FS_EmptySet
<1>3. \A n \in StatNames : stat[n] = 0
  OBVIOUS
<1>4. QED
  BY <1>2, <1>3 DEF CountersInv, TrimCounters, StatNames

LEMMA CountersInit == Init => CountersInv
  BY CountersStart DEF Init, Owed, Posting

LEMMA SameOwed ==
  ASSUME \A j \in Keys : Owed(j)' = Owed(j)
  PROVE  OwedTrims' = OwedTrims
  BY DEF OwedTrims

\* A trim brings one token ...
LEMMA TrimToken ==
  ASSUME TypeOK, NEW k \in Keys, Trim(k), IsFiniteSet(OwedTrims)
  PROVE  IsFiniteSet(OwedTrims') /\ Cardinality(OwedTrims') = Cardinality(OwedTrims) + 1
<1> DEFINE f == [j \in Keys |-> Owed(j)]
           g == [j \in Keys |-> Owed(j)']
<1>1. \A j \in Keys : Owed(j) \in Nat /\ Owed(j)' = IF j = k THEN Owed(j) + 1 ELSE Owed(j)
  BY TrimOwes
<1>2. f \in [Keys -> Nat] /\ g \in [Keys -> Nat]
  BY <1>1
<1>3. \A j \in Keys : g[j] = IF j = k THEN f[j] + 1 ELSE f[j]
  BY <1>1
<1>4. \A x : x \in OwedTrims <=> \E j \in Keys : \E i \in 1 .. f[j] : x = <<j, i>>
  BY OwedTrimsHas
<1>5. \A x : x \in OwedTrims' <=> \E j \in Keys : \E i \in 1 .. g[j] : x = <<j, i>>
  BY DEF OwedTrims
<1> HIDE DEF f, g
<1>6. QED
  BY <1>2, <1>3, <1>4, <1>5, OneMoreOwed

\* ... and a post takes one away.
LEMMA PostToken ==
  ASSUME TypeOK, NotifierInv, PostTranscode, IsFiniteSet(OwedTrims)
  PROVE  IsFiniteSet(OwedTrims') /\ Cardinality(OwedTrims) = Cardinality(OwedTrims') + 1
<1> DEFINE f == [j \in Keys |-> Owed(j)']
           g == [j \in Keys |-> Owed(j)]
<1>1. PICK k \in Keys : k = nMsg.key
  BY DEF PostTranscode, NotifierInv
<1>2. \A j \in Keys : Owed(j) \in Nat /\ Owed(j)' = IF j = k THEN Owed(j) - 1 ELSE Owed(j)
  BY <1>1, PostOwes
<1>3. Owed(k) > 0
  BY <1>1 DEF Owed, Posting, PostTranscode, NotifierInv, TypeOK
<1>4. f \in [Keys -> Nat] /\ g \in [Keys -> Nat]
  BY <1>2, <1>3
<1>5. \A j \in Keys : g[j] = IF j = k THEN f[j] + 1 ELSE f[j]
  BY <1>2
<1>6. \A x : x \in OwedTrims <=> \E j \in Keys : \E i \in 1 .. g[j] : x = <<j, i>>
  BY OwedTrimsHas
<1>7. \A x : x \in OwedTrims' <=> \E j \in Keys : \E i \in 1 .. f[j] : x = <<j, i>>
  BY DEF OwedTrims
<1>8. IsFiniteSet(OwedTrims')
  <2>1. \A j \in Keys : /\ f[j] \in Nat /\ g[j] \in Nat
                       /\ (f[j] = g[j] \/ f[j] + 1 = g[j])
    BY <1>4, <1>5
  <2> HIDE DEF f, g
  <2>2. \A j \in Keys : 1 .. f[j] \subseteq 1 .. g[j]
    BY <2>1
  <2>3. OwedTrims' \subseteq OwedTrims
    BY <1>6, <1>7, <2>2
  <2>4. QED
    BY <2>3, FS_Subset
<1> HIDE DEF f, g
<1>9. QED
  BY <1>4, <1>5, <1>6, <1>7, <1>8, OneMoreOwed

LEMMA CountersStep ==
  TypeOK /\ NotifierInv /\ CountersInv /\ [Next]_masterVars => CountersInv'
<1> SUFFICES ASSUME TypeOK, NotifierInv, CountersInv, [Next]_masterVars
             PROVE  CountersInv'
  OBVIOUS
<1>1. /\ Cardinality(OwedTrims) \in Nat /\ Len(jobq) \in Nat /\ Len(finq) \in Nat
      /\ InFlight \in Nat /\ IsFiniteSet(OwedTrims) /\ stat = Bump({})
  BY FS_CardinalityType, LenProperties DEF TypeOK, CountersInv, InFlight, Bump
<1>2. ASSUME \/ ApplyJob \/ FinishRelease \/ SemAcquire \/ PopReport \/ GetRecord \/ DeleteRecord
             \/ UNCHANGED masterVars
             \/ \E m \in Report : FinishPut(m)
      PROVE  OwedTrims' = OwedTrims
  BY <1>2, OthersOwe, SameOwed
<1>3. ASSUME NEW k \in Keys, Trim(k) PROVE CountersInv'
  <2>1. IsFiniteSet(OwedTrims') /\ Cardinality(OwedTrims') = Cardinality(OwedTrims) + 1
    BY <1>1, <1>3, TrimToken
  <2>2. CASE TrimNew(k)
    <3>1. Moved({"server_trim_queue", "server_trim_record"}, 1, 1, 0, 0)
      BY <1>1, <2>1, <2>2 DEF TrimNew, Moved, InFlight, TypeOK
    <3>2. QED
      BY <3>1, CountersKept DEF Bumped
  <2>3. CASE TrimAgain(k)
    <3>1. Moved({"server_trim_record"}, 1, 0, 0, 0)
      <4>1. /\ stat' = Bump({"server_trim_record"})
            /\ jobq' = jobq /\ finq' = finq /\ io' = io
        BY <2>3 DEF TrimAgain
      <4>2. QED
        BY <1>1, <2>1, <4>1 DEF Moved, InFlight
    <3>2. /\ Bumped("server_trim_record", {"server_trim_record"}) = 1
          /\ \A n \in StatNames \ {"server_trim_record"} : Bumped(n, {"server_trim_record"}) = 0
      BY DEF Bumped
    <3>3. QED
      BY <3>1, <3>2, CountersKept DEF StatNames
  <2>4. QED
    BY <1>3, <2>2, <2>3 DEF Trim
<1>4. CASE ApplyJob
  <2>1. Len(jobq') = Len(jobq) - 1
    <3>1. jobq \in Seq(Keys) /\ jobq # <<>> /\ jobq' = Tail(jobq)
      BY <1>4 DEF ApplyJob, TypeOK
    <3>2. QED
      BY ONLY <3>1, HeadTailProperties
  <2>2. Moved({"worker_apply_num"}, 0, -1, 0, 0)
    <3>1. stat' = Bump({"worker_apply_num"}) /\ finq' = finq /\ io' = io
      BY <1>4 DEF ApplyJob
    <3>2. OwedTrims' = OwedTrims
      BY <1>2, <1>4
    <3>3. QED
      BY <1>1, <2>1, <3>1, <3>2 DEF Moved, InFlight
  <2>3. QED
    BY <2>2, CountersKept DEF Bumped
<1>5. ASSUME NEW m \in Report, FinishPut(m) PROVE CountersInv'
  <2>1. io = NoReport /\ io' # NoReport
    BY <1>5, NoKeyAssumption DEF FinishPut
  <2>2. Len(finq') = Len(finq) + 1
    BY <1>5 DEF FinishPut, TypeOK
  <2>3. Moved({}, 0, 0, 1, 1)
    BY <1>1, <1>2, <1>5, <2>1, <2>2 DEF FinishPut, Moved, InFlight
  <2>4. QED
    BY <2>3, CountersKept DEF Bumped
<1>6. CASE FinishRelease
  <2>1. PICK n \in {"worker_finish_succ", "worker_finish_fail"} : stat' = Bump({n})
    BY <1>6 DEF FinishRelease
  <2>2. Moved({n}, 0, 0, -1, 0)
    BY <1>1, <1>2, <1>6, <2>1 DEF FinishRelease, Moved, InFlight
  <2>3. QED
    BY <2>2, CountersKept DEF Bumped
<1>7. CASE SemAcquire \/ GetRecord \/ DeleteRecord \/ UNCHANGED masterVars
  <2>1. Moved({}, 0, 0, 0, 0)
    BY <1>1, <1>2, <1>7 DEF SemAcquire, GetRecord, DeleteRecord, Moved, InFlight
  <2>2. QED
    BY <2>1, CountersKept DEF Bumped
<1>8. CASE PopReport
  <2>1. CASE finq = <<>>
    <3>1. Moved({}, 0, 0, 0, 0)
      BY <1>1, <1>2, <1>8, <2>1 DEF PopReport, Moved, InFlight
    <3>2. QED
      BY <3>1, CountersKept DEF Bumped
  <2>2. CASE finq # <<>>
    <3>1. Len(finq') = Len(finq) - 1
      BY <1>8, <2>2, HeadTailProperties DEF PopReport, TypeOK
    <3>2. Moved({}, 0, 0, 0, -1)
      BY <1>1, <1>2, <1>8, <3>1 DEF PopReport, Moved, InFlight
    <3>3. QED
      BY <3>2, CountersKept DEF Bumped
  <2>3. QED
    BY <2>1, <2>2
<1>9. CASE PostTranscode
  <2>1. IsFiniteSet(OwedTrims') /\ Cardinality(OwedTrims') = Cardinality(OwedTrims) - 1
    <3>1. IsFiniteSet(OwedTrims') /\ Cardinality(OwedTrims) = Cardinality(OwedTrims') + 1
      BY <1>1, <1>9, PostToken
    <3>2. PICK c : c = Cardinality(OwedTrims')
      OBVIOUS
    <3>3. c \in Nat
      BY <3>1, <3>2, FS_CardinalityType
    <3>4. QED
      BY <1>1, <3>1, <3>2, <3>3
  <2>2. PICK n \in {"server_transcode_secc", "server_transcode_fail"} : stat' = Bump({n})
    BY <1>9 DEF PostTranscode
  <2>3. Moved({n}, -1, 0, 0, 0)
    BY <1>1, <1>9, <2>1, <2>2 DEF PostTranscode, Moved, InFlight
  <2>4. /\ Bumped("server_trim_record", {n}) = 0
        /\ Bumped("server_transcode_secc", {n}) + Bumped("server_transcode_fail", {n}) = 1
        /\ Bumped("server_trim_queue", {n}) = 0 /\ Bumped("worker_apply_num", {n}) = 0
        /\ Bumped("worker_finish_succ", {n}) = 0 /\ Bumped("worker_finish_fail", {n}) = 0
    BY DEF Bumped
  <2>5. Bumped("server_transcode_secc", {n}) \in Int /\ Bumped("server_transcode_fail", {n}) \in Int
    BY DEF Bumped
  <2>6. QED
    BY <2>3, <2>4, <2>5, CountersKept
<1>10. CASE Restart
  <2>1. /\ \A j \in Keys : Owed(j)' = 0
        /\ jobq' = <<>> /\ finq' = <<>> /\ stat' = [n \in StatNames |-> 0]
    BY <1>10 DEF Restart, Owed, Posting
  <2>2. OwedTrims' = {}
    <3>1. \A k \in Keys : 1 .. Owed(k)' = {}
      BY <2>1
    <3>2. QED
      BY <3>1 DEF OwedTrims
  <2>3. IsFiniteSet(OwedTrims') /\ Cardinality(OwedTrims') = 0
    BY <2>2, FS_EmptySet
  <2>4. Books'
    <3>1. Len(jobq') = 0 /\ Len(finq') = 0 /\ InFlight' = 0
      BY <1>10, <2>1 DEF Restart, InFlight
    <3>2. \A n \in StatNames : stat'[n] = 0
      BY <2>1
    <3>3. QED
      BY <2>3, <3>1, <3>2 DEF Books, StatNames
  <2>5. QED
    BY <2>3, <2>4, CountersAreBooksNext DEF CountersInv
<1>11. QED
  BY <1>3, <1>4, <1>5, <1>6, <1>7, <1>8, <1>9, <1>10 DEF Next, Notifier

\* Counters and queues agree between two steps of the master, for any number of
\* renditions, trims, reports and restarts.
THEOREM MasterCounters == Spec => []TrimCounters
<1>1. CountersInv => TrimCounters
  BY DEF CountersInv
<1>2. QED
  BY <1>1, CountersInit, CountersStep, MasterInvariant, PTL DEF Spec

-----------------------------------------------------------------------------
(* The UDP handler reads get_queue_size first and server_transcode_fail    *)
(* last, one after another, while the other two threads go on.  Each       *)
(* counter is changed by one of them only, so each read finds the value of *)
(* a state of Master; what follows is about reads in the order of the      *)
(* handler and within one life of the process.                             *)

\* No counter goes back before the next restart.
LEMMA CountersGrow ==
  ASSUME TypeOK, [Next]_masterVars
  PROVE  \/ restarts' = restarts + 1
         \/ restarts' = restarts /\ \A n \in StatNames : stat'[n] \in Nat /\ stat'[n] >= stat[n]
<1>1. \A n \in StatNames : stat[n] \in Nat
  BY DEF TypeOK
<1>2. CASE restarts' = restarts /\ \E names : stat' = Bump(names)
  BY <1>1, <1>2 DEF Bump
<1>3. CASE restarts' = restarts /\ stat' = stat
  BY <1>1, <1>3
<1>4. CASE Restart
  BY <1>4 DEF Restart
<1>5. Restart \/ (restarts' = restarts /\ (stat' = stat \/ \E names : stat' = Bump(names)))
  BY DEF Next, Trim, TrimNew, TrimAgain, ApplyJob, FinishPut, FinishRelease, Notifier,
         SemAcquire, PopReport, GetRecord, DeleteRecord, PostTranscode
<1>6. QED
  BY <1>2, <1>3, <1>4, <1>5

\* What is known of a counter n once a read before it was worth v.
AtLeast(r, n, v) == restarts > r \/ (restarts = r /\ v <= stat[n])

LEMMA AtLeastStays ==
  ASSUME TypeOK, [Next]_masterVars, NEW r \in Nat, NEW n \in StatNames, NEW v \in Int,
         AtLeast(r, n, v)
  PROVE  AtLeast(r, n, v)'
<1>1. restarts \in Nat /\ stat[n] \in Nat
  BY DEF TypeOK
<1>2. CASE restarts' = restarts + 1
  BY <1>1, <1>2 DEF AtLeast
<1>3. CASE restarts' = restarts /\ stat'[n] \in Nat /\ stat'[n] >= stat[n]
  BY <1>1, <1>3 DEF AtLeast
<1>4. QED
  BY <1>2, <1>3, CountersGrow

\* The status sent over UDP never shows more jobs applied for than queued: the number
\* of applications is read before the number of jobs, and the first only grows by
\* what the second counted already.
THEOREM SentApplied ==
  ASSUME NEW r \in Nat, NEW v \in Nat
  PROVE  Spec => [](restarts = r /\ stat["worker_apply_num"] = v
                      => [](restarts = r => v <= stat["server_trim_queue"]))
<1>1. TypeOK /\ CountersInv /\ restarts = r /\ stat["worker_apply_num"] = v
        => AtLeast(r, "server_trim_queue", v)
  <2> SUFFICES ASSUME TypeOK, CountersInv, restarts = r, stat["worker_apply_num"] = v
               PROVE  v <= stat["server_trim_queue"]
    BY DEF AtLeast
  <2>1. stat["server_trim_queue"] = v + Len(jobq)
    BY DEF CountersInv, TrimCounters
  <2>2. Len(jobq) \in Nat
    BY LenProperties DEF TypeOK
  <2>3. QED
    BY <2>1, <2>2
<1>2. TypeOK /\ AtLeast(r, "server_trim_queue", v) /\ [Next]_masterVars
        => AtLeast(r, "server_trim_queue", v)'
  BY AtLeastStays DEF StatNames
<1>3. AtLeast(r, "server_trim_queue", v) => (restarts = r => v <= stat["server_trim_queue"])
  BY DEF AtLeast
<1>4. TypeOK /\ NotifierInv /\ CountersInv /\ [Next]_masterVars => CountersInv'
  BY CountersStep
<1>5. QED
  BY <1>1, <1>2, <1>3, <1>4, CountersInit, MasterInvariant, PTL DEF Spec

\* Nor more reports waiting than were counted, except for the one whose handler
\* stands between the queue and the count: the queue is read before the successes,
\* and those before the failures.
THEOREM SentReports ==
  ASSUME NEW r \in Nat, NEW f \in Nat, NEW s \in Nat
  PROVE  Spec => [](restarts = r /\ Len(finq) = f
                      => [](restarts = r /\ stat["worker_finish_succ"] = s
                              => [](restarts = r => f <= s + stat["worker_finish_fail"] + 1)))
<1> DEFINE Counted == restarts > r \/ (restarts = r /\ f <= stat["worker_finish_succ"]
                                                        + stat["worker_finish_fail"] + 1)
           Waiting == f - s - 1
<1>1. TypeOK /\ CountersInv /\ restarts = r /\ Len(finq) = f => Counted
  <2> SUFFICES ASSUME TypeOK, CountersInv, restarts = r, Len(finq) = f PROVE Counted
    OBVIOUS
  <2>1. f <= stat["worker_finish_succ"] + stat["worker_finish_fail"] + InFlight
    BY CountersAreBooks DEF CountersInv, Books
  <2>2. /\ stat["worker_finish_succ"] \in Nat /\ stat["worker_finish_fail"] \in Nat
        /\ InFlight \in {0, 1}
    BY DEF TypeOK, StatNames, InFlight
  <2>3. QED
    BY <2>1, <2>2
<1>2. TypeOK /\ Counted /\ [Next]_masterVars => Counted'
  <2> SUFFICES ASSUME TypeOK, Counted, [Next]_masterVars PROVE Counted'
    OBVIOUS
  <2>1. /\ restarts \in Nat /\ stat["worker_finish_succ"] \in Nat
        /\ stat["worker_finish_fail"] \in Nat
    BY DEF TypeOK, StatNames
  <2>2. CASE restarts' = restarts + 1
    BY <2>1, <2>2
  <2>3. CASE /\ restarts' = restarts
             /\ \A n \in StatNames : stat'[n] \in Nat /\ stat'[n] >= stat[n]
    <3>1. /\ stat'["worker_finish_succ"] \in Nat /\ stat'["worker_finish_fail"] \in Nat
          /\ stat'["worker_finish_succ"] >= stat["worker_finish_succ"]
          /\ stat'["worker_finish_fail"] >= stat["worker_finish_fail"]
      BY <2>3 DEF StatNames
    <3>2. QED
      BY <2>1, <2>3, <3>1
  <2>4. QED
    BY <2>2, <2>3, CountersGrow
<1>3. Waiting \in Int
  OBVIOUS
<1>4. TypeOK /\ Counted /\ restarts = r /\ stat["worker_finish_succ"] = s
        => AtLeast(r, "worker_finish_fail", Waiting)
  <2>1. TypeOK => stat["worker_finish_fail"] \in Nat
    BY DEF TypeOK, StatNames
  <2>2. QED
    BY <2>1 DEF AtLeast
<1>5. TypeOK /\ AtLeast(r, "worker_finish_fail", Waiting) /\ [Next]_masterVars
        => AtLeast(r, "worker_finish_fail", Waiting)'
  <2> HIDE DEF Waiting
  <2>1. QED
    BY <1>3, AtLeastStays DEF StatNames
<1>6. TypeOK /\ AtLeast(r, "worker_finish_fail", Waiting)
        => (restarts = r => f <= s + stat["worker_finish_fail"] + 1)
  <2>1. TypeOK => stat["worker_finish_fail"] \in Nat
    BY DEF TypeOK, StatNames
  <2>2. QED
    BY <2>1 DEF AtLeast
<1>7. TypeOK /\ NotifierInv /\ CountersInv /\ [Next]_masterVars => CountersInv'
  BY CountersStep
<1> HIDE DEF Counted, Waiting
<1>8. QED
  BY <1>1, <1>2, <1>4, <1>5, <1>6, <1>7, CountersInit, MasterInvariant, PTL DEF Spec

HIDE DEF Report, NoReport, masterVars, notifierVars, ioVars

-----------------------------------------------------------------------------
\* The workers, the faults and the client only take steps that Master leaves
\* open to its environment.
LEMMA StepIsMasterStep == PipelineTypeOK /\ [PipelineNext]_vars => [Next]_masterVars
<1> SUFFICES ASSUME PipelineTypeOK, [PipelineNext]_vars
             PROVE  [Next]_masterVars
  OBVIOUS
<1> USE DEF Next
<1>1. ASSUME NEW k \in Keys, ClientTrim(k) PROVE Next
  BY <1>1 DEF ClientTrim
<1>2. ASSUME NEW w \in Workers, MasterApply(w) PROVE [Next]_masterVars
  BY <1>2 DEF MasterApply, ApplyNone
<1>3. CASE MasterStrayApply
  BY <1>3 DEF MasterStrayApply, ApplyNone
<1>4. ASSUME NEW w \in Workers, MasterFinish(w) PROVE Next
  <2>1. PICK m \in Report : m = wJob[w]
    BY <1>4 DEF MasterFinish, PipelineTypeOK
  <2>2. FinishPut(m)
    BY <1>4, <2>1 DEF MasterFinish
  <2>3. QED
    BY <2>2
<1>5. ASSUME NEW m \in Report, MasterStrayFinish(m) PROVE Next
  BY <1>5 DEF MasterStrayFinish
<1>6. CASE MasterFinishReply \/ MasterNotifier \/ MasterRestart
  BY <1>6 DEF MasterFinishReply, MasterNotifier, MasterRestart
<1>7. ASSUME NEW w \in Workers, WorkerStep(w) PROVE UNCHANGED masterVars
  BY <1>7 DEF WorkerStep, SendApply, TakeJob, CheckMissing, CheckRefused,
              PutRendition, EndJob, Broken
<1>8. ASSUME NEW w \in Workers, WorkerFault(w) PROVE UNCHANGED masterVars
  BY <1>8 DEF WorkerFault, CheckDbFault, PutDbFault, Timeout, WorkerCrash
<1>9. CASE UNCHANGED vars
  BY <1>9 DEF vars
<1>10. QED
  BY <1>1, <1>2, <1>3, <1>4, <1>5, <1>6, <1>7, <1>8, <1>9 DEF PipelineNext, MasterStep

-----------------------------------------------------------------------------
PipelineInv == PipelineTypeOK /\ NotifierInv

LEMMA PipelineInitInv == PipelineInit => PipelineInv
  BY InitInv, NoKeyAssumption DEF PipelineInit, PipelineInv, PipelineTypeOK

\* The variables of a worker keep their types when it sends a report ...
WorkerTypeOK ==
  /\ wPc \in [Workers -> {"idle", "apply", "check", "put", "finish"}]
  /\ wJob \in [Workers -> Report \cup {NoReport}]
  /\ \A w \in Workers : wPc[w] \in {"check", "put", "finish"} => wJob[w] \in Report
  /\ conn \in [Workers -> {"none", "request", "busy", "reply"}]
  /\ answer \in [Workers -> Keys \cup {NoKey}]

LEMMA SendFinishType ==
  ASSUME WorkerTypeOK, NEW w \in Workers, NEW ok \in BOOLEAN,
         wPc[w] \in {"check", "put"}, SendFinish(w, ok), UNCHANGED answer
  PROVE  WorkerTypeOK'
<1>1. wJob[w] \in Report
  BY DEF WorkerTypeOK
<1>2. [wJob[w] EXCEPT !.ok = ok] \in Report
  BY <1>1 DEF Report
<1>3. wJob' = [wJob EXCEPT ![w] = [wJob[w] EXCEPT !.ok = ok]]
  BY DEF SendFinish
<1>4. QED
  BY <1>2, <1>3 DEF WorkerTypeOK, SendFinish

\* ... and when it goes back to the top of its loop.
LEMMA ResetType ==
  ASSUME WorkerTypeOK, NEW w \in Workers, Reset(w)
  PROVE  WorkerTypeOK'
  BY DEF WorkerTypeOK, Reset

\* The part of the type invariant that is about the workers and the network.
LEMMA WorkerTypeStep ==
  PipelineTypeOK /\ NotifierInv /\ TypeOK' /\ [PipelineNext]_vars => PipelineTypeOK'
<1> SUFFICES ASSUME PipelineTypeOK, NotifierInv, TypeOK', [PipelineNext]_vars
             PROVE  PipelineTypeOK'
  OBVIOUS
<1> USE DEF PipelineTypeOK, workerVars
<1> HIDE DEF masterVars
<1>1. ASSUME NEW k \in Keys, ClientTrim(k) PROVE PipelineTypeOK'
  BY <1>1 DEF ClientTrim
<1>2. ASSUME NEW w \in Workers, MasterApply(w) PROVE PipelineTypeOK'
  <2>1. jobq # <<>> => Head(jobq) \in Keys
    BY HeadTailProperties DEF TypeOK
  <2>2. answer' \in [Workers -> Keys \cup {NoKey}]
    BY <1>2, <2>1 DEF MasterApply, ApplyJob
  <2>3. QED
    BY <1>2, <2>2 DEF MasterApply
<1>3. CASE MasterStrayApply
  <2>1. jobq # <<>> => Head(jobq) \in Keys
    BY HeadTailProperties DEF TypeOK
  <2>2. lost' \subseteq Keys
    BY <1>3, <2>1 DEF MasterStrayApply, ApplyJob
  <2>3. QED
    BY <1>3, <2>2 DEF MasterStrayApply
<1>4. ASSUME NEW w \in Workers, MasterFinish(w) PROVE PipelineTypeOK'
  BY <1>4 DEF MasterFinish
<1>5. ASSUME NEW m \in Report, MasterStrayFinish(m) PROVE PipelineTypeOK'
  BY <1>5 DEF MasterStrayFinish
<1>6. CASE MasterFinishReply
  BY <1>6 DEF MasterFinishReply
<1>7. CASE MasterNotifier
  BY <1>7 DEF MasterNotifier
<1>8. CASE MasterRestart
  BY <1>8 DEF MasterRestart
<1>9. ASSUME NEW w \in Workers, SendApply(w) PROVE PipelineTypeOK'
  BY <1>9 DEF SendApply
<1>10. ASSUME NEW w \in Workers, TakeJob(w) PROVE PipelineTypeOK'
  <2>1. CASE answer[w] = NoKey
    BY <1>10, <2>1 DEF TakeJob
  <2>2. CASE answer[w] # NoKey
    <3>1. [key |-> answer[w], ok |-> FALSE] \in Report
      BY <2>2 DEF Report
    <3>2. WorkerTypeOK'
      BY <1>10, <2>2, <3>1 DEF TakeJob, WorkerTypeOK
    <3>3. QED
      BY <1>10, <3>2 DEF TakeJob, WorkerTypeOK
  <2>3. QED
    BY <2>1, <2>2
<1>11. ASSUME NEW w \in Workers, CheckMissing(w) PROVE PipelineTypeOK'
  BY <1>11 DEF CheckMissing
<1>0. WorkerTypeOK
  BY DEF WorkerTypeOK
<1>12. ASSUME NEW w \in Workers, CheckRefused(w) PROVE PipelineTypeOK'
  <2>1. WorkerTypeOK'
    BY <1>0, <1>12, SendFinishType DEF CheckRefused
  <2>2. QED
    BY <1>12, <2>1 DEF CheckRefused, WorkerTypeOK
<1>13. ASSUME NEW w \in Workers, PutRendition(w) PROVE PipelineTypeOK'
  <2>1. WorkerTypeOK'
    BY <1>0, <1>13, SendFinishType DEF PutRendition
  <2>2. renditions' \in [Keys -> Nat]
    BY <1>13 DEF PutRendition, Report
  <2>3. QED
    BY <1>13, <2>1, <2>2 DEF PutRendition, WorkerTypeOK
<1>14. ASSUME NEW w \in Workers, EndJob(w) \/ Broken(w) PROVE PipelineTypeOK'
  BY <1>14 DEF EndJob, Broken, Reset
<1>15. ASSUME NEW w \in Workers, CheckDbFault(w) PROVE PipelineTypeOK'
  <2>1. WorkerTypeOK'
    <3>1. CASE SendFinish(w, FALSE)
      BY <1>0, <1>15, <3>1, SendFinishType DEF CheckDbFault
    <3>2. CASE wPc' = [wPc EXCEPT ![w] = "put"] /\ UNCHANGED <<wJob, conn>>
      BY <1>0, <1>15, <3>2 DEF CheckDbFault, WorkerTypeOK
    <3>3. QED
      BY <1>15, <3>1, <3>2 DEF CheckDbFault
  <2>2. QED
    BY <1>15, <2>1 DEF CheckDbFault, Fault, WorkerTypeOK
<1>16. ASSUME NEW w \in Workers, PutDbFault(w) PROVE PipelineTypeOK'
  <2>1. WorkerTypeOK'
    BY <1>0, <1>16, SendFinishType DEF PutDbFault
  <2>2. renditions' \in [Keys -> Nat]
    BY <1>16 DEF PutDbFault
  <2>3. QED
    BY <1>16, <2>1, <2>2 DEF PutDbFault, Fault, WorkerTypeOK
<1>17. ASSUME NEW w \in Workers, Timeout(w) PROVE PipelineTypeOK'
  <2>1. WorkerTypeOK'
    BY <1>0, <1>17, ResetType DEF Timeout
  <2>2. strayApply' \in Nat /\ strayFinish' \in [Report -> Nat] /\ lost' \subseteq Keys
    <3>1. CASE conn[w] = "request" /\ wPc[w] = "apply"
      BY <1>17, <3>1 DEF Timeout, AbandonCall
    <3>2. CASE conn[w] = "request" /\ wPc[w] = "finish"
      <4>1. wJob[w] \in Report
        BY <3>2
      <4>2. wJob[w].key \in Keys
        BY <4>1 DEF Report
      <4>3. QED
        BY <1>17, <3>2, <4>1, <4>2 DEF Timeout, AbandonCall
    <3>3. CASE conn[w] \in {"busy", "reply"}
      BY <1>17, <3>3 DEF Timeout, AbandonCall
    <3>4. QED
      BY <1>17, <3>1, <3>2, <3>3 DEF Timeout, AbandonCall
  <2>3. QED
    BY <1>17, <2>1, <2>2 DEF Timeout, Fault, WorkerTypeOK
<1>18. ASSUME NEW w \in Workers, WorkerCrash(w) PROVE PipelineTypeOK'
  <2>1. WorkerTypeOK'
    BY <1>0, <1>18, ResetType DEF WorkerCrash
  <2>2. lost' \subseteq Keys
    BY <1>18 DEF WorkerCrash, Report
  <2>3. QED
    BY <1>18, <2>1, <2>2 DEF WorkerCrash, Fault, WorkerTypeOK
<1>19. CASE UNCHANGED vars
  BY <1>19 DEF vars
<1>20. QED
  BY <1>1, <1>2, <1>3, <1>4, <1>5, <1>6, <1>7, <1>8, <1>9, <1>10, <1>11, <1>12,
     <1>13, <1>14, <1>15, <1>16, <1>17, <1>18, <1>19
     DEF PipelineNext, MasterStep, WorkerStep, WorkerFault

\* The whole pipeline keeps its type.
LEMMA PipelineInvHolds == PipelineSpec => []PipelineInv
<1>1. PipelineInv /\ [PipelineNext]_vars => PipelineInv'
  BY StepIsMasterStep, NextInv, WorkerTypeStep DEF PipelineInv, PipelineTypeOK
<1>2. QED
  BY <1>1, PipelineInitInv, PTL DEF PipelineSpec

\* Every variable keeps its type, and what the notifier knows between two of its
\* steps stays true, for any number of keys, workers, trims, faults and restarts.
THEOREM PipelineInvariant == PipelineSpec => [](PipelineTypeOK /\ NotifierInv)
  BY PipelineInvHolds, PTL DEF PipelineInv

\* The pipeline is a master in an environment it allows, so that everything
\* proved of the master holds in it.
THEOREM PipelineImplementsMaster == PipelineSpec => Spec
<1>1. PipelineInit => Init
  BY DEF PipelineInit
<1>2. QED
  BY <1>1, StepIsMasterStep, PipelineInvHolds, PTL DEF PipelineSpec, Spec, PipelineInv

\* Whatever is lost, delayed, restarted or merged, the trims of the pipeline are
\* answered as TrimService says.
THEOREM PipelineImplementsService == PipelineSpec => ImplementsService
  BY PipelineImplementsMaster, MasterImplementsService, PTL

\* There is never a post without a trim of its own, and before the first restart
\* what was accepted was answered or is owed, for every rendition.
THEOREM PipelineBooksBalance == PipelineSpec => []Service!Balanced
  BY PipelineImplementsService, ServiceBalanced, PTL

\* Counters and queues agree between two steps in the pipeline too, whatever is
\* lost, delayed or restarted.
THEOREM PipelineCounters == PipelineSpec => []TrimCounters
  BY PipelineImplementsMaster, MasterCounters, PTL

\* Nor does a fault of a worker cost the notifier a wake-up.
THEOREM PipelineWakeup == PipelineSpec => []WakeupPerReport
  BY PipelineImplementsMaster, WakeupCorrect, PTL

-----------------------------------------------------------------------------
(* A success is reported only after the rendition was stored, and nothing  *)
(* deletes a rendition; every copy of the report keeps that.               *)
StoredInv == ReportsSound /\ SuccessMeansStored

LEMMA StoredInit == PipelineInit => StoredInv
  BY DEF PipelineInit, Init, StoredInv, ReportsSound, ReportSound, SuccessMeansStored, NoReport

\* No step makes a stored rendition disappear.
LEMMA StoredStays ==
  ASSUME PipelineTypeOK, [PipelineNext]_vars, NEW m \in Report, ReportSound(m)
  PROVE  ReportSound(m)'
<1>1. m.key \in Keys
  BY DEF Report
<1>2. renditions[m.key] > 0 => renditions'[m.key] > 0
  <2>1. CASE UNCHANGED renditions
    BY <2>1
  <2>2. CASE \E w \in Workers : renditions' = [renditions EXCEPT ![wJob[w].key] = @ + 1]
    BY <1>1, <2>2 DEF PipelineTypeOK
  <2>3. QED
    BY <2>1, <2>2
       DEF PipelineNext, vars, workerVars, ClientTrim, MasterStep, MasterApply, MasterFinish,
           MasterStrayApply, MasterStrayFinish, MasterFinishReply, MasterNotifier,
           MasterRestart, WorkerStep, WorkerFault, SendApply, TakeJob, CheckMissing,
           CheckRefused, PutRendition, EndJob, Broken, CheckDbFault, PutDbFault, Timeout,
           WorkerCrash
<1>3. QED
  BY <1>2 DEF ReportSound

\* The job in hand after a worker's step.
LEMMA JobsStaySound ==
  ASSUME PipelineTypeOK, ReportsSound, [PipelineNext]_vars,
         NEW v \in Workers, wJob'[v] # NoReport
  PROVE  ReportSound(wJob[v])' 
<1>1. CASE wJob'[v] = wJob[v]
  BY <1>1, StoredStays DEF PipelineTypeOK, ReportsSound
<1>2. CASE wJob'[v] # wJob[v] /\ ~wJob'[v].ok
  BY <1>2 DEF ReportSound
<1>3. CASE wJob'[v] # wJob[v] /\ wJob'[v].ok
  <2>1. PICK w \in Workers : WorkerStep(w) \/ WorkerFault(w)
    BY <1>3 DEF PipelineNext, vars, workerVars, ClientTrim, MasterStep, MasterApply,
                MasterFinish, MasterStrayApply, MasterStrayFinish, MasterFinishReply,
                MasterNotifier, MasterRestart
  <2>2. CASE PutRendition(w)
    <3>1. v = w /\ wJob'[v].key = wJob[w].key /\ wJob[w].key \in Keys
      BY <1>3, <2>2 DEF PutRendition, SendFinish, PipelineTypeOK, Report
    <3>2. renditions'[wJob[w].key] = renditions[wJob[w].key] + 1
      BY <2>2, <3>1 DEF PutRendition, PipelineTypeOK
    <3>3. renditions[wJob[w].key] \in Nat
      BY <3>1 DEF PipelineTypeOK
    <3>4. QED
      BY <3>1, <3>2, <3>3 DEF ReportSound
  <2>3. CASE ~PutRendition(w)
    BY <1>3, <2>1, <2>3
       DEF WorkerStep, WorkerFault, SendApply, TakeJob, CheckMissing, CheckRefused, EndJob,
           Broken, CheckDbFault, PutDbFault, Timeout, WorkerCrash, SendFinish, Reset,
           NoReport, PipelineTypeOK, Report
  <2>4. QED
    BY <2>2, <2>3
<1>4. QED
  BY <1>1, <1>2, <1>3

LEMMA StoredStep ==
  PipelineTypeOK /\ NotifierInv /\ StoredInv /\ [PipelineNext]_vars => StoredInv'
<1> SUFFICES ASSUME PipelineTypeOK, NotifierInv, StoredInv, [PipelineNext]_vars
             PROVE  StoredInv'
  OBVIOUS
<1>1. ReportsSound /\ TypeOK
  BY DEF StoredInv, PipelineTypeOK
<1>2. \A v \in Workers : wJob'[v] # NoReport => ReportSound(wJob[v])'
  BY <1>1, JobsStaySound
<1>3. ASSUME NEW m \in Report, strayFinish'[m] > 0 PROVE ReportSound(m)'
  <2>1. CASE strayFinish[m] > 0
    BY <1>1, <2>1, StoredStays DEF ReportsSound
  <2>2. CASE ~(strayFinish[m] > 0)
    <3>1. strayFinish[m] = 0 /\ strayFinish' # strayFinish
      BY <1>3, <2>2 DEF PipelineTypeOK
    <3>2. ~MasterRestart
      BY <1>3 DEF MasterRestart
    <3>3. ASSUME NEW n \in Report, MasterStrayFinish(n) PROVE FALSE
      BY <1>3, <2>2, <3>1, <3>3 DEF MasterStrayFinish, PipelineTypeOK
    <3>4. PICK w \in Workers : Timeout(w)
      BY <3>1, <3>2, <3>3
         DEF PipelineNext, vars, workerVars, ClientTrim, MasterStep, MasterApply, MasterFinish,
             MasterStrayApply, MasterFinishReply, MasterNotifier, WorkerStep, WorkerFault,
             SendApply, TakeJob, CheckMissing, CheckRefused, PutRendition, EndJob, Broken,
             CheckDbFault, PutDbFault, WorkerCrash
    <3>5. wPc[w] = "finish" /\ m = wJob[w]
      BY <1>3, <2>2, <3>4 DEF Timeout, AbandonCall, PipelineTypeOK
    <3>6. m # NoReport
      BY NoKeyAssumption DEF Report, NoReport
    <3>7. ReportSound(m)
      BY <1>1, <3>5, <3>6 DEF ReportsSound
    <3>8. QED
      BY <3>7, StoredStays
  <2>3. QED
    BY <2>1, <2>2
<1>4. ASSUME NEW i \in DOMAIN finq' PROVE ReportSound(finq[i])'
  <2>1. finq \in Seq(Report) /\ finq' \in Seq(Report)
    BY <1>1, StepIsMasterStep, NextInv DEF TypeOK
  <2>2. finq'[i] \in Report /\ i \in 1 .. Len(finq')
    BY <1>4, <2>1, LenProperties
  <2>3. SUFFICES ReportSound(finq'[i])
    BY <2>2, StoredStays
  <2>4. CASE finq' = finq
    BY <1>1, <1>4, <2>4 DEF ReportsSound
  <2>5. ASSUME NEW m \in Report, FinishPut(m), ReportSound(m)
        PROVE  ReportSound(finq'[i])
    <3>1. finq'[i] = m \/ (i \in 1 .. Len(finq) /\ finq'[i] = finq[i])
      BY <2>1, <2>2, <2>5, AppendProperties, LenProperties DEF FinishPut
    <3>2. QED
      BY <1>1, <2>1, <2>5, <3>1, LenProperties DEF ReportsSound
  <2>6. ASSUME NEW w \in Workers, MasterFinish(w) PROVE ReportSound(finq'[i])
    <3>1. PICK m \in Report : m = wJob[w]
      BY <2>6 DEF MasterFinish, PipelineTypeOK
    <3>2. m # NoReport
      BY NoKeyAssumption DEF Report, NoReport
    <3>3. FinishPut(m) /\ ReportSound(m)
      BY <1>1, <2>6, <3>1, <3>2 DEF MasterFinish, ReportsSound
    <3>4. QED
      BY <2>5, <3>3
  <2>7. ASSUME NEW m \in Report, MasterStrayFinish(m) PROVE ReportSound(finq'[i])
    BY <1>1, <2>5, <2>7 DEF MasterStrayFinish, ReportsSound
  <2>8. CASE MasterRestart
    BY <1>4, <2>1, <2>8 DEF MasterRestart, Restart
  <2>9. CASE PopReport /\ finq' # finq
    <3>1. finq # <<>> /\ finq' = Tail(finq)
      BY <2>9 DEF PopReport
    <3>2. finq'[i] = finq[i + 1] /\ i + 1 \in 1 .. Len(finq)
      BY <2>1, <2>2, <3>1, HeadTailProperties, LenProperties
    <3>3. QED
      BY <1>1, <2>1, <3>2, LenProperties DEF ReportsSound
  <2>10. QED
    BY <2>4, <2>6, <2>7, <2>8, <2>9
       DEF PipelineNext, vars, masterVars, ClientTrim, Trim, TrimNew, TrimAgain, MasterStep,
           MasterApply, ApplyJob, ApplyNone, MasterStrayApply, MasterFinishReply,
           FinishRelease, MasterNotifier, Notifier, SemAcquire, GetRecord, DeleteRecord,
           PostTranscode, WorkerStep, WorkerFault, SendApply, TakeJob, CheckMissing,
           CheckRefused, PutRendition, EndJob, Broken, CheckDbFault, PutDbFault, Timeout,
           WorkerCrash
<1>5. nMsg' # NoReport => ReportSound(nMsg)'
  <2>1. SUFFICES ASSUME nMsg' # NoReport PROVE ReportSound(nMsg)'
    OBVIOUS
  <2>2. nMsg' \in Report
    BY <1>1, <2>1, StepIsMasterStep, NextInv DEF TypeOK
  <2>3. SUFFICES ReportSound(nMsg')
    BY <2>2, StoredStays
  <2>4. CASE nMsg' = nMsg
    BY <1>1, <2>1, <2>4 DEF ReportsSound
  <2>5. CASE nMsg' # nMsg
    <3>1. [Next]_masterVars
      BY StepIsMasterStep
    <3>2. PopReport /\ finq # <<>> /\ nMsg' = Head(finq)
      BY <2>1, <2>5, <3>1
         DEF Next, masterVars, notifierVars, Trim, TrimNew, TrimAgain, ApplyJob, FinishPut,
             FinishRelease, Notifier, SemAcquire, PopReport, GetRecord, DeleteRecord,
             PostTranscode, Restart
    <3>3. Head(finq) = finq[1] /\ 1 \in DOMAIN finq
      BY <1>1, <3>2, EmptySeq, LenProperties DEF TypeOK
    <3>4. QED
      BY <1>1, <3>2, <3>3 DEF ReportsSound
  <2>6. QED
    BY <2>4, <2>5
<1>6. SuccessMeansStored'
  <2>1. SUFFICES ASSUME NEW k \in Keys, posted'[k]["secc"] > 0
                 PROVE  renditions'[k] > 0
    BY DEF SuccessMeansStored
  <2>2. DEFINE m == [key |-> k, ok |-> TRUE]
  <2>3. m \in Report
    BY DEF Report
  <2>4. SUFFICES ReportSound(m)
    BY <2>3, StoredStays DEF ReportSound
  <2>5. CASE posted[k]["secc"] > 0
    BY <2>5 DEF StoredInv, SuccessMeansStored, ReportSound
  <2>6. CASE ~(posted[k]["secc"] > 0)
    <3>1. PostTranscode
      BY <2>1, <2>6, StepIsMasterStep
         DEF Next, masterVars, notifierVars, Trim, TrimNew, TrimAgain, ApplyJob, FinishPut,
             FinishRelease, Notifier, SemAcquire, PopReport, GetRecord, DeleteRecord, Restart
    <3>2. nMsg = m
      BY <1>1, <2>1, <2>6, <3>1 DEF PostTranscode, Outcome, TypeOK, NotifierInv, Report
    <3>3. m # NoReport
      BY DEF NoReport
    <3>4. QED
      BY <1>1, <3>2, <3>3 DEF ReportsSound
  <2>7. QED
    BY <2>5, <2>6
<1>7. QED
  BY <1>2, <1>3, <1>4, <1>5, <1>6 DEF StoredInv, ReportsSound

\* photo_service is told of a success only if the rendition can be found.
THEOREM PipelineSuccessStored == PipelineSpec => []SuccessMeansStored
<1>1. PipelineInv /\ StoredInv /\ [PipelineNext]_vars => StoredInv'
  BY StoredStep DEF PipelineInv
<1>2. StoredInv => SuccessMeansStored
  BY DEF StoredInv
<1>3. QED
  BY <1>1, <1>2, StoredInit, PipelineInvHolds, PTL DEF PipelineSpec

-----------------------------------------------------------------------------
(* Counting jobs: in the two queues, and among the workers.                *)

\* The positions of a sequence that hold a value of P.
Positions(q, P) == {i \in DOMAIN q : q[i] \in P}

LEMMA PositionsFinite ==
  ASSUME NEW T, NEW q \in Seq(T), NEW P
  PROVE  IsFiniteSet(Positions(q, P)) /\ Cardinality(Positions(q, P)) \in Nat
<1>1. Positions(q, P) \subseteq 1 .. Len(q)
  BY LenProperties DEF Positions
<1>2. IsFiniteSet(1 .. Len(q))
  BY FS_Interval, LenProperties
<1>3. QED
  BY <1>1, <1>2, FS_Subset, FS_CardinalityType

LEMMA PositionsAppend ==
  ASSUME NEW T, NEW q \in Seq(T), NEW x \in T, NEW P
  PROVE  Cardinality(Positions(Append(q, x), P))
           = Cardinality(Positions(q, P)) + (IF x \in P THEN 1 ELSE 0)
<1> DEFINE r == Append(q, x)
<1>1. r \in Seq(T) /\ Len(r) = Len(q) + 1 /\ r[Len(q) + 1] = x
      /\ \A i \in 1 .. Len(q) : r[i] = q[i]
  BY AppendProperties
<1>2. DOMAIN r = 1 .. Len(q) + 1 /\ DOMAIN q = 1 .. Len(q) /\ Len(q) \in Nat
  BY <1>1, LenProperties
<1> HIDE DEF r
<1>3. CASE x \in P
  <2>1. Positions(r, P) = Positions(q, P) \cup {Len(q) + 1}
    BY <1>1, <1>2, <1>3 DEF Positions
  <2>2. Len(q) + 1 \notin Positions(q, P)
    BY <1>2 DEF Positions
  <2>3. QED
    BY <1>3, <2>1, <2>2, PositionsFinite, FS_AddElement DEF r
<1>4. CASE x \notin P
  <2>1. Positions(r, P) = Positions(q, P)
    BY <1>1, <1>2, <1>4 DEF Positions
  <2>2. QED
    BY <1>4, <2>1, PositionsFinite DEF r
<1>5. QED
  BY <1>3, <1>4

LEMMA PositionsTail ==
  ASSUME NEW T, NEW q \in Seq(T), q # <<>>, NEW P
  PROVE  Cardinality(Positions(Tail(q), P))
           = Cardinality(Positions(q, P)) - (IF Head(q) \in P THEN 1 ELSE 0)
<1> DEFINE r == Tail(q)
           S == Positions(q, P) \ {1}
           shift == [i \in S |-> i - 1]
<1>1. r \in Seq(T) /\ Len(r) = Len(q) - 1 /\ \A i \in 1 .. Len(r) : r[i] = q[i + 1]
  BY HeadTailProperties
<1>2. DOMAIN r = 1 .. Len(r) /\ DOMAIN q = 1 .. Len(q) /\ Len(q) \in Nat \ {0} /\ Head(q) = q[1]
  BY <1>1, LenProperties, EmptySeq
<1> HIDE DEF r
<1>3. S \subseteq 2 .. Len(q)
  BY <1>2 DEF Positions
<1>4. shift \in [S -> Positions(r, P)]
  <2>1. ASSUME NEW i \in S PROVE i - 1 \in Positions(r, P)
    <3>1. i \in 2 .. Len(q) /\ q[i] \in P
      BY <1>3 DEF Positions
    <3>2. i - 1 \in 1 .. Len(r) /\ r[i - 1] = q[i]
      BY <1>1, <1>2, <3>1
    <3>3. QED
      BY <1>2, <3>1, <3>2 DEF Positions
  <2>2. QED
    BY <2>1
<1>5. \A a, b \in S : shift[a] = shift[b] => a = b
  BY <1>3
<1>6. ASSUME NEW j \in Positions(r, P) PROVE \E i \in S : shift[i] = j
  <2>1. j \in 1 .. Len(r) /\ r[j] \in P
    BY <1>2 DEF Positions
  <2>2. j + 1 \in S
    BY <1>1, <1>2, <2>1 DEF Positions
  <2>3. QED
    BY <2>1, <2>2
<1>7. shift \in Bijection(S, Positions(r, P))
  BY <1>4, <1>5, <1>6 DEF Bijection, Injection, Surjection, IsInjective
<1>8. IsFiniteSet(S) /\ Cardinality(S) = Cardinality(Positions(q, P)) - (IF 1 \in Positions(q, P) THEN 1 ELSE 0)
  BY PositionsFinite, FS_RemoveElement
<1>9. Cardinality(Positions(r, P)) = Cardinality(S)
  BY <1>7, <1>8, FS_Bijection DEF ExistsBijection
<1>10. 1 \in Positions(q, P) <=> Head(q) \in P
  BY <1>2 DEF Positions
<1>11. QED
  BY <1>8, <1>9, <1>10 DEF r

\* A set of workers of which a step moves only w in or out.
LEMMA OneMoves ==
  ASSUME NEW W, IsFiniteSet(W), NEW A \in SUBSET W, NEW B \in SUBSET W, NEW w,
         A \ {w} = B \ {w}
  PROVE  /\ Cardinality(A) \in Nat /\ Cardinality(B) \in Nat
         /\ Cardinality(B) + (IF w \in A THEN 1 ELSE 0)
              = Cardinality(A) + (IF w \in B THEN 1 ELSE 0)
<1>1. IsFiniteSet(A) /\ IsFiniteSet(B)
  BY FS_Subset
<1>2. Cardinality(A) \in Nat /\ Cardinality(B) \in Nat
  BY <1>1, FS_CardinalityType
<1>3. Cardinality(A \ {w}) = IF w \in A THEN Cardinality(A) - 1 ELSE Cardinality(A)
  BY <1>1, FS_RemoveElement, Zenon
<1>4. Cardinality(B \ {w}) = IF w \in B THEN Cardinality(B) - 1 ELSE Cardinality(B)
  BY <1>1, FS_RemoveElement, Zenon
<1>5. QED
  BY <1>2, <1>3, <1>4

-----------------------------------------------------------------------------
(* One job per record.  OneJobPerRecord is inductive with three facts: what *)
(* a worker holds goes with where it is, and a dropped job keeps its record.*)

\* A worker has an answer only while it waits for one, and no call while it works.
CallsMatch ==
  \A w \in Workers :
    /\ answer[w] # NoKey => wPc[w] = "apply" /\ conn[w] = "reply"
    /\ wPc[w] \in {"idle", "check", "put"} => conn[w] = "none"

LostRecorded == restarts = 0 => \A k \in lost : record[k] > 0

\* The jobs of k that the workers have, and those that w has.
Held(k) == Cardinality(Answered(k)) + Cardinality(InHand(k)) + Cardinality(Reporting(k))
One(b) == IF b THEN 1 ELSE 0
Has(w, k) == One(w \in Answered(k)) + One(w \in InHand(k)) + One(w \in Reporting(k))
OfKey(k) == {m \in Report : m.key = k}

LEMMA CallsMatchInit == PipelineInit => CallsMatch
  BY DEF PipelineInit, CallsMatch

LEMMA CallsMatchStep == PipelineTypeOK /\ CallsMatch /\ [PipelineNext]_vars => CallsMatch'
<1> SUFFICES ASSUME PipelineTypeOK, CallsMatch, [PipelineNext]_vars, NEW v \in Workers
             PROVE  /\ answer'[v] # NoKey => wPc'[v] = "apply" /\ conn'[v] = "reply"
                    /\ wPc'[v] \in {"idle", "check", "put"} => conn'[v] = "none"
  BY DEF CallsMatch
<1> USE DEF PipelineTypeOK, CallsMatch
<1>1. CASE UNCHANGED <<wPc, conn, answer>>
  BY <1>1
<1>2. ASSUME NEW w \in Workers, MasterApply(w) \/ MasterFinish(w)
      PROVE  /\ answer'[v] # NoKey => wPc'[v] = "apply" /\ conn'[v] = "reply"
             /\ wPc'[v] \in {"idle", "check", "put"} => conn'[v] = "none"
  BY <1>2 DEF MasterApply, MasterFinish
<1>3. CASE MasterFinishReply \/ MasterRestart
  BY <1>3 DEF MasterFinishReply, MasterRestart
<1>4. ASSUME NEW w \in Workers, WorkerStep(w) \/ WorkerFault(w)
      PROVE  /\ answer'[v] # NoKey => wPc'[v] = "apply" /\ conn'[v] = "reply"
             /\ wPc'[v] \in {"idle", "check", "put"} => conn'[v] = "none"
  BY <1>4 DEF WorkerStep, WorkerFault, SendApply, TakeJob, CheckMissing, CheckRefused,
              PutRendition, EndJob, Broken, CheckDbFault, PutDbFault, Timeout, WorkerCrash,
              SendFinish, Reset
<1>5. QED
  BY <1>1, <1>2, <1>3, <1>4
     DEF PipelineNext, MasterStep, vars, workerVars, ClientTrim, MasterStrayApply,
         MasterStrayFinish, MasterNotifier

\* The jobs of k, counted by where they are.
Counted(k) ==
  /\ Queued(k) = Positions(jobq, {k}) /\ Reported(k) = Positions(finq, OfKey(k))
  /\ Cardinality(Queued(k)) \in Nat /\ Cardinality(Reported(k)) \in Nat
  /\ Held(k) \in Nat /\ Straying(k) \in Nat /\ Resolving(k) \in {0, 1}
  /\ Jobs(k) = Cardinality(Queued(k)) + Held(k) + Straying(k)
                 + Cardinality(Reported(k)) + Resolving(k)

LEMMA CountTypes == ASSUME NEW k \in Keys PROVE PipelineTypeOK => Counted(k)
<1> SUFFICES ASSUME PipelineTypeOK PROVE Counted(k)
  OBVIOUS
<1>1. jobq \in Seq(Keys) /\ finq \in Seq(Report)
  BY DEF PipelineTypeOK, TypeOK
<1>2. Queued(k) = Positions(jobq, {k})
  BY DEF Queued, Positions
<1>3. Reported(k) = Positions(finq, OfKey(k))
  <2>1. \A i \in DOMAIN finq : finq[i] \in Report
    BY <1>1, LenProperties
  <2>2. QED
    BY <2>1 DEF Reported, Positions, OfKey
<1>4. Cardinality(Queued(k)) \in Nat /\ Cardinality(Reported(k)) \in Nat
  BY <1>1, <1>2, <1>3, PositionsFinite
<1>5. /\ Answered(k) \in SUBSET Workers /\ InHand(k) \in SUBSET Workers
      /\ Reporting(k) \in SUBSET Workers
  BY DEF Answered, InHand, Reporting
<1>6. IsFiniteSet(Answered(k)) /\ IsFiniteSet(InHand(k)) /\ IsFiniteSet(Reporting(k))
  BY <1>5, PipelineAssumption, FS_Subset
<1>7. /\ Cardinality(Answered(k)) \in Nat /\ Cardinality(InHand(k)) \in Nat
      /\ Cardinality(Reporting(k)) \in Nat
  BY <1>6, FS_CardinalityType
<1>8. Straying(k) \in Nat
  <2>1. [key |-> k, ok |-> TRUE] \in Report /\ [key |-> k, ok |-> FALSE] \in Report
    BY DEF Report
  <2>2. QED
    BY <2>1 DEF Straying, PipelineTypeOK
<1>9. Resolving(k) \in {0, 1}
  BY DEF Resolving
<1>10. Held(k) \in Nat
  BY <1>7 DEF Held
<1>11. Jobs(k) = Cardinality(Queued(k)) + Held(k) + Straying(k)
                   + Cardinality(Reported(k)) + Resolving(k)
  BY <1>4, <1>7, <1>8, <1>9 DEF Jobs, Held
<1>12. QED
  BY <1>2, <1>3, <1>4, <1>8, <1>9, <1>10, <1>11 DEF Counted

\* A step of, or for, the worker w changes what w has only.
LEMMA HeldStep ==
  ASSUME NEW k \in Keys, NEW w \in Workers,
         \A v \in Workers \ {w} :
           wPc'[v] = wPc[v] /\ wJob'[v] = wJob[v] /\ conn'[v] = conn[v] /\ answer'[v] = answer[v]
  PROVE  /\ Held(k) \in Nat /\ Held(k)' \in Nat
         /\ Held(k)' + Has(w, k) = Held(k) + Has(w, k)'
<1> DEFINE A == Answered(k)  I == InHand(k)  R == Reporting(k)
<1>1. A \in SUBSET Workers /\ A' \in SUBSET Workers /\ A \ {w} = A' \ {w}
  BY DEF Answered
<1>2. I \in SUBSET Workers /\ I' \in SUBSET Workers /\ I \ {w} = I' \ {w}
  BY DEF InHand
<1>3. R \in SUBSET Workers /\ R' \in SUBSET Workers /\ R \ {w} = R' \ {w}
  BY DEF Reporting
<1>4. PICK a \in Nat, a2 \in Nat, x \in Nat, x2 \in Nat :
        a = Cardinality(A) /\ a2 = Cardinality(A)' /\ x = One(w \in A) /\ x2 = One(w \in A)'
        /\ a2 + x = a + x2
  BY <1>1, OneMoves, PipelineAssumption DEF One
<1>5. PICK b \in Nat, b2 \in Nat, y \in Nat, y2 \in Nat :
        b = Cardinality(I) /\ b2 = Cardinality(I)' /\ y = One(w \in I) /\ y2 = One(w \in I)'
        /\ b2 + y = b + y2
  BY <1>2, OneMoves, PipelineAssumption DEF One
<1>6. PICK c \in Nat, c2 \in Nat, z \in Nat, z2 \in Nat :
        c = Cardinality(R) /\ c2 = Cardinality(R)' /\ z = One(w \in R) /\ z2 = One(w \in R)'
        /\ c2 + z = c + z2
  BY <1>3, OneMoves, PipelineAssumption DEF One
<1>7. Held(k) = a + b + c /\ Held(k)' = a2 + b2 + c2
  BY <1>4, <1>5, <1>6 DEF Held
<1>8. Has(w, k) = x + y + z /\ Has(w, k)' = x2 + y2 + z2
  BY <1>4, <1>5, <1>6 DEF Has
<1>9. QED
  BY <1>4, <1>5, <1>6, <1>7, <1>8

\* What does not change leaves the jobs it holds where they are.
LEMMA JobsFrame ==
  ASSUME NEW k \in Keys
  PROVE  /\ UNCHANGED jobq => Cardinality(Queued(k))' = Cardinality(Queued(k))
         /\ UNCHANGED <<wPc, wJob, conn, answer>> => Held(k)' = Held(k)
         /\ UNCHANGED strayFinish => Straying(k)' = Straying(k)
         /\ UNCHANGED finq => Cardinality(Reported(k))' = Cardinality(Reported(k))
         /\ UNCHANGED <<nPc, nMsg>> => Resolving(k)' = Resolving(k)
  BY DEF Queued, Held, Answered, InHand, Reporting, Straying, Reported, Resolving

LEMMA CountTypesNext == ASSUME NEW k \in Keys PROVE PipelineTypeOK' => Counted(k)'
<1>1. PipelineTypeOK => Counted(k)
  BY CountTypes
<1>2. QED
  BY <1>1, PTL

\* A recorded job is in one place, a dropped one is recorded still.
OneJob(k) ==
  /\ Jobs(k) = IF record[k] > 0 /\ k \notin lost THEN 1 ELSE 0
  /\ k \in lost => record[k] > 0

OneJobInv == restarts = 0 => nPc # "dead" /\ \A k \in Keys : OneJob(k)

\* The two states of a step.
Around == PipelineTypeOK /\ PipelineTypeOK' /\ NotifierInv /\ CallsMatch

LEMMA TrimOneJob ==
  ASSUME Around, NEW k \in Keys, OneJob(k), NEW h \in Keys, ClientTrim(h)
  PROVE  OneJob(k)'
<1>0. record \in [Keys -> Nat] /\ record' \in [Keys -> Nat] /\ jobq \in Seq(Keys)
  BY DEF Around, PipelineTypeOK, TypeOK
<1>1. Counted(k) /\ Counted(k)'
  BY CountTypes, CountTypesNext DEF Around
<1>2. /\ Held(k)' = Held(k) /\ Straying(k)' = Straying(k) /\ Resolving(k)' = Resolving(k)
      /\ Cardinality(Reported(k))' = Cardinality(Reported(k)) /\ lost' = lost
  BY JobsFrame DEF ClientTrim, Trim, TrimNew, TrimAgain, workerVars, notifierVars
<1>3. CASE TrimAgain(h)
  <2>1. Cardinality(Queued(k))' = Cardinality(Queued(k))
    BY <1>3, JobsFrame DEF TrimAgain
  <2>2. record[k] \in Nat /\ record'[k] \in Nat /\ (record'[k] > 0 <=> record[k] > 0)
    BY <1>0, <1>3 DEF TrimAgain
  <2>3. QED
    BY <1>1, <1>2, <2>1, <2>2 DEF Counted, OneJob
<1>4. CASE TrimNew(h)
  <2>1. Cardinality(Queued(k))' = Cardinality(Queued(k)) + (IF h \in {k} THEN 1 ELSE 0)
    <3>1. jobq' = Append(jobq, h)
      BY <1>4 DEF TrimNew
    <3>2. Queued(k) = Positions(jobq, {k}) /\ Queued(k)' = Positions(Append(jobq, h), {k})
      BY <1>1, <3>1 DEF Counted, Positions
    <3>3. QED
      BY <1>0, <3>2, PositionsAppend
  <2>2. CASE h = k
    <3>1. record[k] = 0 /\ record'[k] = 1
      BY <1>0, <1>4, <2>2 DEF TrimNew
    <3>2. QED
      BY <1>1, <1>2, <2>1, <2>2, <3>1 DEF Counted, OneJob
  <2>3. CASE h # k
    <3>1. record'[k] = record[k]
      BY <1>0, <1>4, <2>3 DEF TrimNew
    <3>2. QED
      BY <1>1, <1>2, <2>1, <2>3, <3>1 DEF Counted, OneJob
  <2>4. QED
    BY <2>2, <2>3
<1>5. QED
  BY <1>3, <1>4 DEF ClientTrim, Trim

\* A poll takes the oldest job out of the queue ...
LEMMA ApplyTakes ==
  ASSUME Around, NEW k \in Keys, ApplyJob
  PROVE  /\ Head(jobq) \in Keys
         /\ Cardinality(Queued(k))'
              = Cardinality(Queued(k)) - (IF Head(jobq) = k THEN 1 ELSE 0)
         /\ Cardinality(Reported(k))' = Cardinality(Reported(k))
         /\ Resolving(k)' = Resolving(k) /\ record' = record
<1>1. jobq \in Seq(Keys) /\ jobq # <<>> /\ jobq' = Tail(jobq)
  BY DEF ApplyJob, Around, PipelineTypeOK, TypeOK
<1>2. Queued(k) = Positions(jobq, {k}) /\ Queued(k)' = Positions(Tail(jobq), {k})
  BY <1>1, CountTypes, CountTypesNext DEF Around, Counted, Positions
<1>3. Cardinality(Queued(k))'
        = Cardinality(Queued(k)) - (IF Head(jobq) \in {k} THEN 1 ELSE 0)
  BY <1>1, <1>2, PositionsTail
<1>4. Head(jobq) \in Keys
  BY <1>1, HeadTailProperties
<1>5. QED
  BY <1>3, <1>4, JobsFrame DEF ApplyJob, notifierVars

\* ... and a report goes to the end of the other.
LEMMA FinishReports ==
  ASSUME Around, NEW k \in Keys, NEW m \in Report, FinishPut(m)
  PROVE  /\ Cardinality(Reported(k))'
              = Cardinality(Reported(k)) + (IF m.key = k THEN 1 ELSE 0)
         /\ Cardinality(Queued(k))' = Cardinality(Queued(k))
         /\ Resolving(k)' = Resolving(k) /\ record' = record
<1>1. finq \in Seq(Report) /\ finq' = Append(finq, m)
  BY DEF FinishPut, Around, PipelineTypeOK, TypeOK
<1>2. Reported(k) = Positions(finq, OfKey(k)) /\ Reported(k)' = Positions(Append(finq, m), OfKey(k))
  BY <1>1, CountTypes, CountTypesNext DEF Around, Counted, Positions, OfKey
<1>3. Cardinality(Reported(k))'
        = Cardinality(Reported(k)) + (IF m \in OfKey(k) THEN 1 ELSE 0)
  BY <1>1, <1>2, PositionsAppend
<1>4. m \in OfKey(k) <=> m.key = k
  BY DEF OfKey
<1>5. QED
  BY <1>3, <1>4, JobsFrame DEF FinishPut, notifierVars

LEMMA MasterApplyOneJob ==
  ASSUME Around, NEW k \in Keys, OneJob(k), NEW w \in Workers, MasterApply(w)
  PROVE  OneJob(k)'
<1>1. Counted(k) /\ Counted(k)'
  BY CountTypes, CountTypesNext DEF Around
<1>2. Held(k) \in Nat /\ Held(k)' \in Nat /\ Held(k)' + Has(w, k) = Held(k) + Has(w, k)'
  BY HeldStep DEF MasterApply, Around, PipelineTypeOK
<1>3. Has(w, k) = 0
  BY NoKeyAssumption
     DEF MasterApply, Has, One, Answered, InHand, Reporting, Around, CallsMatch
<1>4. lost' = lost /\ Straying(k)' = Straying(k)
  BY JobsFrame DEF MasterApply
<1>5. CASE ApplyJob
  <2>1. answer' = [answer EXCEPT ![w] = Head(jobq)]
    BY <1>5 DEF MasterApply, ApplyNone, ApplyJob
  <2>2. Has(w, k)' = IF Head(jobq) = k THEN 1 ELSE 0
    BY <2>1 DEF MasterApply, Has, One, Answered, InHand, Reporting, Around, PipelineTypeOK
  <2>3. QED
    BY <1>1, <1>2, <1>3, <1>4, <1>5, <2>2, ApplyTakes DEF Counted, OneJob
<1>6. CASE ~ApplyJob
  <2>1. answer' = [answer EXCEPT ![w] = NoKey] /\ UNCHANGED masterVars
    BY <1>6 DEF MasterApply, ApplyNone
  <2>2. Has(w, k)' = 0
    BY <2>1, NoKeyAssumption
       DEF MasterApply, Has, One, Answered, InHand, Reporting, Around, PipelineTypeOK
  <2>3. /\ Cardinality(Queued(k))' = Cardinality(Queued(k))
        /\ Cardinality(Reported(k))' = Cardinality(Reported(k))
        /\ Resolving(k)' = Resolving(k) /\ record' = record
    BY <2>1, JobsFrame DEF masterVars
  <2>4. QED
    BY <1>1, <1>2, <1>3, <1>4, <2>2, <2>3 DEF Counted, OneJob
<1>7. QED
  BY <1>5, <1>6

LEMMA StrayApplyOneJob ==
  ASSUME Around, NEW k \in Keys, OneJob(k), MasterStrayApply
  PROVE  OneJob(k)'
<1>1. Counted(k) /\ Counted(k)'
  BY CountTypes, CountTypesNext DEF Around
<1>2. Held(k)' = Held(k) /\ Straying(k)' = Straying(k)
  BY JobsFrame DEF MasterStrayApply
<1>3. CASE ApplyJob
  <2>1. lost' = lost \cup {Head(jobq)}
    BY <1>3 DEF MasterStrayApply, ApplyNone, ApplyJob
  <2>2. QED
    BY <1>1, <1>2, <1>3, <2>1, ApplyTakes DEF Counted, OneJob
<1>4. CASE ~ApplyJob
  <2>1. UNCHANGED lost /\ UNCHANGED masterVars
    BY <1>4 DEF MasterStrayApply, ApplyNone
  <2>2. /\ Cardinality(Queued(k))' = Cardinality(Queued(k))
        /\ Cardinality(Reported(k))' = Cardinality(Reported(k))
        /\ Resolving(k)' = Resolving(k) /\ record' = record
    BY <2>1, JobsFrame DEF masterVars
  <2>3. QED
    BY <1>1, <1>2, <2>1, <2>2 DEF Counted, OneJob
<1>5. QED
  BY <1>3, <1>4

LEMMA MasterFinishOneJob ==
  ASSUME Around, NEW k \in Keys, OneJob(k), NEW w \in Workers, MasterFinish(w)
  PROVE  OneJob(k)'
<1>1. Counted(k) /\ Counted(k)'
  BY CountTypes, CountTypesNext DEF Around
<1>2. Held(k) \in Nat /\ Held(k)' \in Nat /\ Held(k)' + Has(w, k) = Held(k) + Has(w, k)'
  BY HeldStep DEF MasterFinish, Around, PipelineTypeOK
<1>3. PICK m \in Report : m = wJob[w]
  BY DEF MasterFinish, Around, PipelineTypeOK
<1>4. Has(w, k) = IF m.key = k THEN 1 ELSE 0
  BY <1>3, NoKeyAssumption
     DEF MasterFinish, Has, One, Answered, InHand, Reporting, Around, CallsMatch
<1>5. Has(w, k)' = 0
  BY NoKeyAssumption
     DEF MasterFinish, Has, One, Answered, InHand, Reporting, Around, CallsMatch, PipelineTypeOK
<1>6. lost' = lost /\ Straying(k)' = Straying(k)
  BY JobsFrame DEF MasterFinish
<1>7. FinishPut(m)
  BY <1>3 DEF MasterFinish
<1>8. QED
  BY <1>1, <1>2, <1>4, <1>5, <1>6, <1>7, FinishReports DEF Counted, OneJob

\* The reports of k whose worker has given up, after one more or one less.
LEMMA StrayingChanges ==
  ASSUME Around, NEW k \in Keys, NEW m \in Report, NEW d \in {-1, 1},
         strayFinish' = [strayFinish EXCEPT ![m] = @ + d]
  PROVE  Straying(k)' = Straying(k) + (IF m.key = k THEN d ELSE 0)
<1>1. strayFinish \in [Report -> Nat]
  BY DEF Around, PipelineTypeOK
<1>2. [key |-> k, ok |-> TRUE] \in Report /\ [key |-> k, ok |-> FALSE] \in Report
  BY DEF Report
<1>3. m = [key |-> m.key, ok |-> m.ok] /\ m.ok \in BOOLEAN
  BY DEF Report
<1>4. [key |-> k, ok |-> TRUE] # [key |-> k, ok |-> FALSE]
  OBVIOUS
<1>5. CASE m.key = k
  <2>1. m = [key |-> k, ok |-> TRUE] \/ m = [key |-> k, ok |-> FALSE]
    BY <1>3, <1>5
  <2>2. CASE m = [key |-> k, ok |-> TRUE]
    <3>1. /\ strayFinish'[[key |-> k, ok |-> TRUE]] = strayFinish[[key |-> k, ok |-> TRUE]] + d
          /\ strayFinish'[[key |-> k, ok |-> FALSE]] = strayFinish[[key |-> k, ok |-> FALSE]]
      BY <1>1, <1>2, <1>4, <2>2
    <3>2. QED
      BY <1>1, <1>2, <1>5, <3>1 DEF Straying
  <2>3. CASE m = [key |-> k, ok |-> FALSE]
    <3>1. /\ strayFinish'[[key |-> k, ok |-> FALSE]] = strayFinish[[key |-> k, ok |-> FALSE]] + d
          /\ strayFinish'[[key |-> k, ok |-> TRUE]] = strayFinish[[key |-> k, ok |-> TRUE]]
      BY <1>1, <1>2, <1>4, <2>3
    <3>2. QED
      BY <1>1, <1>2, <1>5, <3>1 DEF Straying
  <2>4. QED
    BY <2>1, <2>2, <2>3
<1>6. CASE m.key # k
  <2>1. m # [key |-> k, ok |-> TRUE] /\ m # [key |-> k, ok |-> FALSE]
    BY <1>6
  <2>2. QED
    BY <1>1, <1>2, <1>6, <2>1 DEF Straying
<1>7. QED
  BY <1>5, <1>6

LEMMA StrayFinishOneJob ==
  ASSUME Around, NEW k \in Keys, OneJob(k), NEW m \in Report, MasterStrayFinish(m)
  PROVE  OneJob(k)'
<1>1. Counted(k) /\ Counted(k)'
  BY CountTypes, CountTypesNext DEF Around
<1>2. lost' = lost /\ Held(k)' = Held(k) /\ FinishPut(m)
  BY JobsFrame DEF MasterStrayFinish
<1>3. strayFinish' = [strayFinish EXCEPT ![m] = @ + (-1)]
  BY DEF MasterStrayFinish, Around, PipelineTypeOK
<1>4. Straying(k)' = Straying(k) + (IF m.key = k THEN -1 ELSE 0)
  BY <1>3, StrayingChanges
<1>5. QED
  BY <1>1, <1>2, <1>4, FinishReports DEF Counted, OneJob

LEMMA FinishReplyOneJob ==
  ASSUME Around, NEW k \in Keys, OneJob(k), MasterFinishReply
  PROVE  OneJob(k)'
<1>1. Counted(k) /\ Counted(k)'
  BY CountTypes, CountTypesNext DEF Around
<1>2. \A w \in Workers : conn'[w] = "request" <=> conn[w] = "request"
  BY DEF MasterFinishReply, Around, PipelineTypeOK
<1>3. Held(k)' = Held(k)
  BY <1>2 DEF MasterFinishReply, Held, Answered, InHand, Reporting
<1>4. /\ Cardinality(Queued(k))' = Cardinality(Queued(k))
      /\ Cardinality(Reported(k))' = Cardinality(Reported(k))
      /\ Resolving(k)' = Resolving(k) /\ Straying(k)' = Straying(k)
      /\ record' = record /\ lost' = lost
  BY JobsFrame DEF MasterFinishReply, FinishRelease, notifierVars
<1>5. QED
  BY <1>1, <1>3, <1>4 DEF Counted, OneJob

\* The notifier takes the job out with the record, so it never finds a record
\* missing: it would die of range(None).
LEMMA NotifierOneJob ==
  ASSUME Around, NEW k \in Keys, OneJob(k), MasterNotifier
  PROVE  OneJob(k)' /\ (nPc = "delete" /\ nMsg.key = k => nNum > 0)
<1>1. Counted(k) /\ Counted(k)'
  BY CountTypes, CountTypesNext DEF Around
<1>2. /\ Cardinality(Queued(k))' = Cardinality(Queued(k))
      /\ Held(k)' = Held(k) /\ Straying(k)' = Straying(k) /\ lost' = lost
  BY JobsFrame
     DEF MasterNotifier, Notifier, SemAcquire, PopReport, GetRecord, DeleteRecord,
         PostTranscode, ioVars, workerVars
<1>3. record \in [Keys -> Nat]
  BY DEF Around, PipelineTypeOK, TypeOK
<1>4. nPc = "delete" /\ nMsg.key = k => nNum > 0
  <2>1. SUFFICES ASSUME nPc = "delete", nMsg.key = k PROVE record[k] > 0
    BY DEF Around, NotifierInv
  <2>2. Resolving(k) = 1
    BY <2>1 DEF Resolving
  <2>3. QED
    BY <1>1, <1>3, <2>2 DEF Counted, OneJob
<1>5. CASE SemAcquire \/ GetRecord \/ PostTranscode
  <2>1. /\ Cardinality(Reported(k))' = Cardinality(Reported(k)) /\ record' = record
    BY <1>5, JobsFrame DEF SemAcquire, GetRecord, PostTranscode
  <2>2. Resolving(k)' = Resolving(k)
    BY <1>5 DEF SemAcquire, GetRecord, PostTranscode, Resolving
  <2>3. QED
    BY <1>1, <1>2, <1>4, <2>1, <2>2 DEF Counted, OneJob
<1>6. CASE PopReport
  <2>1. record' = record /\ Resolving(k) = 0
    BY <1>6 DEF PopReport, Resolving
  <2>2. CASE finq = <<>>
    <3>1. Cardinality(Reported(k))' = Cardinality(Reported(k)) /\ Resolving(k)' = 0
      BY <1>6, <2>2, JobsFrame DEF PopReport, Resolving
    <3>2. QED
      BY <1>1, <1>2, <1>4, <2>1, <3>1 DEF Counted, OneJob
  <2>3. CASE finq # <<>>
    <3>1. finq \in Seq(Report) /\ finq' = Tail(finq) /\ nMsg' = Head(finq) /\ nPc' = "get"
      BY <1>6, <2>3 DEF PopReport, Around, PipelineTypeOK, TypeOK
    <3>2. Reported(k) = Positions(finq, OfKey(k)) /\ Reported(k)' = Positions(Tail(finq), OfKey(k))
      BY <1>1, <3>1 DEF Counted, Positions, OfKey
    <3>3. Cardinality(Reported(k))'
            = Cardinality(Reported(k)) - (IF Head(finq) \in OfKey(k) THEN 1 ELSE 0)
      BY <2>3, <3>1, <3>2, PositionsTail
    <3>4. Head(finq) \in Report
      BY <2>3, <3>1, HeadTailProperties
    <3>5. Head(finq) \in OfKey(k) <=> Head(finq).key = k
      BY <3>4 DEF OfKey
    <3>6. Resolving(k)' = IF Head(finq) \in OfKey(k) THEN 1 ELSE 0
      BY <3>1, <3>5 DEF Resolving
    <3>7. QED
      BY <1>1, <1>2, <1>4, <2>1, <3>3, <3>6 DEF Counted, OneJob
  <2>4. QED
    BY <2>2, <2>3
<1>7. CASE DeleteRecord
  <2>1. Cardinality(Reported(k))' = Cardinality(Reported(k)) /\ Resolving(k)' = 0
    BY <1>7, JobsFrame DEF DeleteRecord, Resolving
  <2>2. CASE nMsg.key = k
    <3>1. Resolving(k) = 1 /\ record'[k] = 0
      BY <1>3, <1>7, <2>2 DEF DeleteRecord, Resolving
    <3>2. QED
      BY <1>1, <1>2, <1>4, <2>1, <3>1 DEF Counted, OneJob
  <2>3. CASE nMsg.key # k
    <3>1. Resolving(k) = 0 /\ record'[k] = record[k]
      BY <1>3, <1>7, <2>3 DEF DeleteRecord, Resolving
    <3>2. QED
      BY <1>1, <1>2, <1>4, <2>1, <3>1 DEF Counted, OneJob
  <2>4. QED
    BY <2>2, <2>3
<1>8. QED
  BY <1>5, <1>6, <1>7 DEF MasterNotifier, Notifier

\* What a worker's own steps leave alone.
LEMMA WorkerFrame ==
  ASSUME NEW k \in Keys, UNCHANGED masterVars
  PROVE  /\ Cardinality(Queued(k))' = Cardinality(Queued(k))
         /\ Cardinality(Reported(k))' = Cardinality(Reported(k))
         /\ Resolving(k)' = Resolving(k) /\ record' = record
  BY JobsFrame DEF masterVars

\* A job moves from the answer through the hands of the worker to the report.
LEMMA WorkerStepOneJob ==
  ASSUME Around, NEW k \in Keys, OneJob(k), NEW w \in Workers,
         WorkerStep(w) \/ CheckDbFault(w) \/ PutDbFault(w)
  PROVE  OneJob(k)'
<1> USE DEF SendFinish, Reset, Around, PipelineTypeOK
<1>1. Counted(k) /\ Counted(k)'
  BY CountTypes, CountTypesNext
<1>2. UNCHANGED masterVars /\ lost' = lost /\ strayFinish' = strayFinish
  BY DEF WorkerStep, SendApply, TakeJob, CheckMissing, CheckRefused, PutRendition, EndJob,
         Broken, CheckDbFault, PutDbFault
<1>3. Held(k) \in Nat /\ Held(k)' \in Nat /\ Held(k)' + Has(w, k) = Held(k) + Has(w, k)'
  BY HeldStep
     DEF WorkerStep, SendApply, TakeJob, CheckMissing, CheckRefused, PutRendition, EndJob,
         Broken, CheckDbFault, PutDbFault
<1>4. Has(w, k) \in Nat /\ Has(w, k)' = Has(w, k)
  <2> USE NoKeyAssumption DEF Has, One, Answered, InHand, Reporting, CallsMatch
  <2>1. CASE SendApply(w)
    BY <2>1 DEF SendApply
  <2>2. CASE TakeJob(w)
    BY <2>2 DEF TakeJob
  <2>3. CASE CheckMissing(w)
    BY <2>3 DEF CheckMissing
  <2>4. CASE CheckRefused(w) \/ PutRendition(w) \/ PutDbFault(w)
    <3>1. /\ wJob'[w].key = wJob[w].key /\ wPc[w] \in {"check", "put"} /\ answer' = answer
          /\ wPc'[w] = "finish" /\ conn'[w] = "request"
      BY <2>4 DEF CheckRefused, PutRendition, PutDbFault, Report
    <3>2. QED
      BY <3>1
  <2>5. CASE EndJob(w) \/ Broken(w)
    BY <2>5 DEF EndJob, Broken
  <2>6. CASE CheckDbFault(w)
    <3>1. /\ wJob'[w].key = wJob[w].key /\ wPc[w] = "check" /\ answer' = answer
          /\ wPc'[w] = "put" \/ (wPc'[w] = "finish" /\ conn'[w] = "request")
      BY <2>6 DEF CheckDbFault, Report
    <3>2. QED
      BY <3>1
  <2>7. QED
    BY <2>1, <2>2, <2>3, <2>4, <2>5, <2>6 DEF WorkerStep
<1>5. Straying(k)' = Straying(k)
  BY <1>2, JobsFrame
<1>6. QED
  BY <1>1, <1>2, <1>3, <1>4, <1>5, WorkerFrame DEF Counted, OneJob

\* A call given up, or a worker that dies: the job is lost or its report strays.
LEMMA AbandonOneJob ==
  ASSUME Around, NEW k \in Keys, OneJob(k), NEW w \in Workers, Timeout(w) \/ WorkerCrash(w)
  PROVE  OneJob(k)'
<1>1. Counted(k) /\ Counted(k)'
  BY CountTypes, CountTypesNext DEF Around
<1>2. /\ Cardinality(Queued(k))' = Cardinality(Queued(k))
      /\ Cardinality(Reported(k))' = Cardinality(Reported(k))
      /\ Resolving(k)' = Resolving(k) /\ record' = record
  BY WorkerFrame DEF Timeout, WorkerCrash
<1>3. Held(k) \in Nat /\ Held(k)' \in Nat /\ Held(k)' + Has(w, k) = Held(k) + Has(w, k)'
  BY HeldStep DEF Timeout, WorkerCrash, Reset, Around, PipelineTypeOK
<1>4. Has(w, k)' = 0
  BY NoKeyAssumption
     DEF Timeout, WorkerCrash, Reset, Has, One, Answered, InHand, Reporting, Around, PipelineTypeOK
<1>5. CASE WorkerCrash(w)
  <2>1. Straying(k)' = Straying(k) /\ lost' = lost \cup {wJob[w].key}
    BY <1>5, JobsFrame DEF WorkerCrash
  <2>2. Has(w, k) = IF wJob[w].key = k THEN 1 ELSE 0
    BY <1>5, NoKeyAssumption
       DEF WorkerCrash, Has, One, Answered, InHand, Reporting, Around, CallsMatch, PipelineTypeOK
  <2>3. QED
    <3>1. Held(k) = Held(k)' + (IF wJob[w].key = k THEN 1 ELSE 0)
      BY <1>3, <1>4, <2>2
    <3>2. CASE wJob[w].key = k
      BY <1>1, <1>2, <1>3, <2>1, <3>1, <3>2 DEF Counted, OneJob
    <3>3. CASE wJob[w].key # k
      BY <1>1, <1>2, <1>3, <2>1, <3>1, <3>3 DEF Counted, OneJob
    <3>4. QED
      BY <3>2, <3>3
<1>6. CASE Timeout(w) /\ conn[w] = "request" /\ wPc[w] = "apply"
  <2>1. Straying(k)' = Straying(k) /\ lost' = lost
    BY <1>6, JobsFrame DEF Timeout, AbandonCall
  <2>2. Has(w, k) = 0
    BY <1>6, NoKeyAssumption
       DEF Has, One, Answered, InHand, Reporting, Around, CallsMatch, PipelineTypeOK
  <2>3. Held(k)' = Held(k)
    BY <1>3, <1>4, <2>2
  <2>4. QED
    BY <1>1, <1>2, <2>1, <2>3 DEF Counted, OneJob
<1>7. CASE Timeout(w) /\ conn[w] = "request" /\ wPc[w] = "finish"
  <2>1. PICK m \in Report : m = wJob[w]
    BY <1>7 DEF Around, PipelineTypeOK
  <2>2. Has(w, k) = IF m.key = k THEN 1 ELSE 0
    BY <1>7, <2>1, NoKeyAssumption
       DEF Has, One, Answered, InHand, Reporting, Around, CallsMatch, PipelineTypeOK
  <2>3. CASE strayFinish' = [strayFinish EXCEPT ![wJob[w]] = @ + 1] /\ UNCHANGED lost
    <3>1. Straying(k)' = Straying(k) + (IF m.key = k THEN 1 ELSE 0)
      BY <2>1, <2>3, StrayingChanges
    <3>2. QED
      BY <1>1, <1>2, <1>3, <1>4, <2>2, <2>3, <3>1 DEF Counted, OneJob
  <2>4. CASE lost' = lost \cup {m.key} /\ UNCHANGED strayFinish
    <3>1. Straying(k)' = Straying(k)
      BY <2>4, JobsFrame
    <3>2. Held(k) = Held(k)' + (IF m.key = k THEN 1 ELSE 0)
      BY <1>3, <1>4, <2>2
    <3>3. CASE m.key = k
      BY <1>1, <1>2, <1>3, <2>4, <3>1, <3>2, <3>3 DEF Counted, OneJob
    <3>4. CASE m.key # k
      BY <1>1, <1>2, <1>3, <2>4, <3>1, <3>2, <3>4 DEF Counted, OneJob
    <3>5. QED
      BY <3>3, <3>4
  <2>5. QED
    BY <1>7, <2>1, <2>3, <2>4 DEF Timeout, AbandonCall
<1>8. CASE Timeout(w) /\ conn[w] \in {"busy", "reply"}
  <2>1. Straying(k)' = Straying(k) /\ lost' = lost \cup ({answer[w]} \ {NoKey})
    BY <1>8, JobsFrame DEF Timeout, AbandonCall
  <2>2. Has(w, k) = IF answer[w] = k THEN 1 ELSE 0
    BY <1>8, NoKeyAssumption
       DEF Has, One, Answered, InHand, Reporting, Around, CallsMatch, PipelineTypeOK
  <2>3. Held(k) = Held(k)' + (IF answer[w] = k THEN 1 ELSE 0)
    BY <1>3, <1>4, <2>2
  <2>4. CASE answer[w] = k
    BY <1>1, <1>2, <1>3, <2>1, <2>3, <2>4, NoKeyAssumption DEF Counted, OneJob
  <2>5. CASE answer[w] # k
    BY <1>1, <1>2, <1>3, <2>1, <2>3, <2>5 DEF Counted, OneJob
  <2>6. QED
    BY <2>4, <2>5
<1>9. QED
  BY <1>5, <1>6, <1>7, <1>8 DEF Timeout, AbandonCall

LEMMA OneJobInit == PipelineInit => OneJobInv
<1>0. PipelineInit => nPc # "dead"
  BY DEF PipelineInit, Init
<1> SUFFICES ASSUME PipelineInit, NEW k \in Keys PROVE OneJob(k)
  BY <1>0 DEF OneJobInv
<1>1. Counted(k)
  BY CountTypes, PipelineInitInv DEF PipelineInv
<1>2. Queued(k) = {} /\ Answered(k) = {} /\ InHand(k) = {} /\ Reporting(k) = {} /\ Reported(k) = {}
  BY NoKeyAssumption
     DEF PipelineInit, Init, Queued, Answered, InHand, Reporting, Reported
<1>3. Straying(k) = 0 /\ Resolving(k) = 0
  BY DEF PipelineInit, Init, Straying, Resolving, Report
<1>4. Cardinality({}) = 0
  BY FS_EmptySet
<1>5. Cardinality(Queued(k)) = 0 /\ Cardinality(Reported(k)) = 0 /\ Held(k) = 0
  BY <1>2, <1>4 DEF Held
<1>6. Jobs(k) = 0
  BY <1>1, <1>3, <1>5 DEF Counted
<1>7. QED
  BY <1>6 DEF PipelineInit, Init, OneJob

LEMMA NoRestart ==
  ASSUME PipelineTypeOK, [PipelineNext]_vars, restarts' = 0
  PROVE  restarts = 0 /\ ~MasterRestart
<1>1. restarts \in Nat /\ [Next]_masterVars
  BY StepIsMasterStep DEF PipelineTypeOK, TypeOK
<1>2. restarts' = restarts \/ restarts' = restarts + 1
  BY <1>1 DEF Next, masterVars, Trim, TrimNew, TrimAgain, ApplyJob, FinishPut, FinishRelease,
              Notifier, SemAcquire, PopReport, GetRecord, DeleteRecord, PostTranscode,
              Restart, ioVars, notifierVars
<1>3. QED
  BY <1>1, <1>2 DEF MasterRestart, Restart

LEMMA OneJobStep == Around /\ OneJobInv /\ [PipelineNext]_vars => OneJobInv'
<1> SUFFICES ASSUME Around, OneJobInv, [PipelineNext]_vars, restarts' = 0
             PROVE  nPc' # "dead" /\ \A k \in Keys : OneJob(k)'
  BY DEF OneJobInv
<1>1. restarts = 0 /\ ~MasterRestart
  BY NoRestart DEF Around
<1>2. nPc # "dead" /\ \A h \in Keys : OneJob(h)
  BY <1>1 DEF OneJobInv
<1>3. nPc' # "dead"
  <2>1. CASE UNCHANGED nPc
    BY <1>2, <2>1
  <2>2. CASE MasterNotifier
    <3>1. nPc \in {"get", "delete", "post"} => nMsg.key \in Keys
      BY DEF Around, NotifierInv, Report
    <3>2. nPc = "delete" => nNum > 0
      BY <1>2, <2>2, <3>1, NotifierOneJob
    <3>3. QED
      BY <1>2, <2>2, <3>2
         DEF MasterNotifier, Notifier, SemAcquire, PopReport, GetRecord, DeleteRecord,
             PostTranscode
  <2>3. QED
    BY <1>1, <2>1, <2>2
       DEF PipelineNext, vars, masterVars, notifierVars, ClientTrim, Trim, TrimNew, TrimAgain,
           MasterStep, MasterApply, ApplyJob, ApplyNone, MasterFinish, FinishPut,
           MasterStrayApply, MasterStrayFinish, MasterFinishReply, FinishRelease, WorkerStep,
           SendApply, TakeJob, CheckMissing, CheckRefused, PutRendition, EndJob, Broken,
           WorkerFault, CheckDbFault, PutDbFault, Timeout, WorkerCrash
<1>4. ASSUME NEW k \in Keys PROVE OneJob(k)'
  <2>1. OneJob(k)
    BY <1>2
  <2>2. CASE UNCHANGED vars
    <3>1. Counted(k) /\ Counted(k)'
      BY CountTypes, CountTypesNext DEF Around
    <3>2. Held(k)' = Held(k) /\ Straying(k)' = Straying(k) /\ UNCHANGED masterVars /\ lost' = lost
      BY <2>2, JobsFrame DEF vars, workerVars
    <3>3. QED
      BY <2>1, <3>1, <3>2, WorkerFrame DEF Counted, OneJob
  <2>3. CASE PipelineNext
    BY <1>1, <2>1, <2>3, TrimOneJob, MasterApplyOneJob, MasterFinishOneJob, StrayApplyOneJob,
       StrayFinishOneJob, FinishReplyOneJob, NotifierOneJob, WorkerStepOneJob, AbandonOneJob
       DEF PipelineNext, MasterStep, WorkerFault
  <2>4. QED
    BY <2>2, <2>3
<1>5. QED
  BY <1>3, <1>4

LEMMA OneJobHolds == PipelineSpec => [](PipelineInv /\ CallsMatch /\ OneJobInv)
<1>1. PipelineInv /\ PipelineInv' /\ CallsMatch /\ [PipelineNext]_vars => CallsMatch'
  BY CallsMatchStep DEF PipelineInv
<1>2. PipelineInv /\ PipelineInv' /\ CallsMatch /\ OneJobInv /\ [PipelineNext]_vars => OneJobInv'
  BY OneJobStep DEF PipelineInv, Around
<1>3. QED
  BY <1>1, <1>2, CallsMatchInit, OneJobInit, PipelineInvHolds, PTL DEF PipelineSpec

\* One trim, one job: every recorded rendition has exactly one job between the
\* queue and the notifier, or lost it to a fault, and the notifier never dies,
\* until the master restarts.
THEOREM PipelineOneJob == PipelineSpec => []OneJobPerRecord
<1>1. OneJobInv => OneJobPerRecord
  BY DEF OneJobInv, OneJob, OneJobPerRecord
<1>2. QED
  BY <1>1, OneJobHolds, PTL

-----------------------------------------------------------------------------
(* StoredOnce: one job per key means one worker between the lookup and the *)
(* put, and what the lookup found is still so when the put is made.        *)
OnceInv ==
  restarts = 0 /\ dbFaults = 0 =>
    /\ \A k \in Keys : renditions[k] <= 1
    /\ \A w \in Workers : wPc[w] = "put" => renditions[wJob[w].key] = 0

LEMMA OnceInit == PipelineInit => OnceInv
  BY DEF PipelineInit, OnceInv

\* Two workers never have the job of the same key in hand.
LEMMA OneInHand ==
  ASSUME PipelineTypeOK, NEW k \in Keys, OneJob(k),
         NEW v \in InHand(k), NEW w \in InHand(k)
  PROVE  v = w
<1>1. Counted(k)
  BY CountTypes
<1>2. IsFiniteSet(InHand(k)) /\ IsFiniteSet(Answered(k)) /\ IsFiniteSet(Reporting(k))
  <2>1. /\ InHand(k) \in SUBSET Workers /\ Answered(k) \in SUBSET Workers
        /\ Reporting(k) \in SUBSET Workers
    BY DEF InHand, Answered, Reporting
  <2>2. QED
    BY <2>1, PipelineAssumption, FS_Subset
<1>3. /\ Cardinality(InHand(k)) \in Nat /\ Cardinality(Answered(k)) \in Nat
      /\ Cardinality(Reporting(k)) \in Nat
  BY <1>2, FS_CardinalityType
<1>4. Cardinality(InHand(k)) <= 1
  BY <1>1, <1>3 DEF Counted, Held, OneJob
<1>5. IsFiniteSet(InHand(k) \ {v}) /\ Cardinality(InHand(k) \ {v}) = Cardinality(InHand(k)) - 1
  BY <1>2, FS_RemoveElement
<1>6. Cardinality(InHand(k) \ {v}) = 0
  BY <1>3, <1>4, <1>5, FS_CardinalityType
<1>7. InHand(k) \ {v} = {}
  BY <1>5, <1>6, FS_EmptySet
<1>8. QED
  BY <1>7

LEMMA OnceStep == Around /\ OneJobInv /\ OnceInv /\ [PipelineNext]_vars => OnceInv'
<1> SUFFICES ASSUME Around, OneJobInv, OnceInv, [PipelineNext]_vars,
                    restarts' = 0, dbFaults' = 0
             PROVE  /\ \A k \in Keys : renditions'[k] <= 1
                    /\ \A v \in Workers : wPc'[v] = "put" => renditions'[wJob'[v].key] = 0
  BY DEF OnceInv
<1>1. restarts = 0 /\ ~MasterRestart
  BY NoRestart DEF Around
<1>2. dbFaults = 0 /\ \A w \in Workers : ~CheckDbFault(w)
  <2>1. dbFaults \in Nat
    BY DEF Around, PipelineTypeOK
  <2>2. dbFaults' = dbFaults \/ dbFaults' = dbFaults + 1
    BY DEF PipelineNext, vars, workerVars, ClientTrim, MasterStep, MasterApply, MasterFinish,
           MasterStrayApply, MasterStrayFinish, MasterFinishReply, MasterNotifier,
           MasterRestart, WorkerStep, SendApply, TakeJob, CheckMissing, CheckRefused,
           PutRendition, EndJob, Broken, WorkerFault, CheckDbFault, PutDbFault, Timeout,
           WorkerCrash
  <2>3. dbFaults = 0
    BY <2>1, <2>2
  <2>4. ASSUME NEW w \in Workers, CheckDbFault(w) PROVE FALSE
    <3>1. dbFaults' = dbFaults + 1
      BY <2>4 DEF CheckDbFault
    <3>2. QED
      BY <2>3, <3>1
  <2>5. QED
    BY <2>3, <2>4
<1>3. /\ \A k \in Keys : renditions[k] <= 1 /\ OneJob(k)
      /\ \A w \in Workers : wPc[w] = "put" => renditions[wJob[w].key] = 0
  BY <1>1, <1>2 DEF OnceInv, OneJobInv
<1>4. /\ renditions \in [Keys -> Nat]
      /\ wPc \in [Workers -> {"idle", "apply", "check", "put", "finish"}]
      /\ wJob \in [Workers -> Report \cup {NoReport}]
      /\ \A w \in Workers : wPc[w] = "put" => wJob[w] \in Report /\ wJob[w].key \in Keys
  BY DEF Around, PipelineTypeOK, Report
<1>5. CASE UNCHANGED <<wPc, wJob, renditions>>
  BY <1>3, <1>5
<1>6. ASSUME NEW w \in Workers, WorkerStep(w) \/ PutDbFault(w) \/ Timeout(w) \/ WorkerCrash(w)
      PROVE  /\ \A k \in Keys : renditions'[k] <= 1
             /\ \A v \in Workers : wPc'[v] = "put" => renditions'[wJob'[v].key] = 0
  <2>1. CASE UNCHANGED renditions
    <3>1. ASSUME NEW v \in Workers, wPc'[v] = "put"
          PROVE  renditions'[wJob'[v].key] = 0
      <4>1. CASE CheckMissing(w)
        BY <1>3, <1>4, <2>1, <3>1, <4>1 DEF CheckMissing
      <4>2. CASE ~CheckMissing(w)
        <5>1. v # w /\ wPc[v] = "put" /\ wJob'[v] = wJob[v]
          BY <1>4, <1>6, <3>1, <4>2
             DEF WorkerStep, SendApply, TakeJob, CheckRefused, PutRendition, EndJob, Broken,
                 PutDbFault, Timeout, WorkerCrash, SendFinish, Reset
        <5>2. QED
          BY <1>3, <2>1, <3>1, <5>1
      <4>3. QED
        BY <4>1, <4>2
    <3>2. QED
      BY <1>3, <2>1, <3>1
  <2>2. CASE renditions' # renditions
    <3>1. /\ wPc[w] = "put" /\ wPc' = [wPc EXCEPT ![w] = "finish"]
          /\ renditions' = [renditions EXCEPT ![wJob[w].key] = @ + 1]
          /\ \A v \in Workers \ {w} : wJob'[v] = wJob[v]
      BY <1>4, <1>6, <2>2
         DEF WorkerStep, SendApply, TakeJob, CheckMissing, CheckRefused, PutRendition, EndJob,
             Broken, PutDbFault, Timeout, WorkerCrash, SendFinish
    <3>2. PICK k \in Keys : k = wJob[w].key
      BY <1>4, <3>1
    <3>3. renditions[k] = 0 /\ renditions' = [renditions EXCEPT ![k] = 1]
      <4>1. renditions[k] = 0
        BY <1>3, <3>1, <3>2
      <4>2. renditions' = [renditions EXCEPT ![k] = 0 + 1]
        BY <3>1, <3>2, <4>1
      <4>3. QED
        BY <4>1, <4>2
    <3>4. ASSUME NEW v \in Workers, wPc'[v] = "put"
          PROVE  renditions'[wJob'[v].key] = 0
      <4>1. v # w /\ wPc[v] = "put" /\ wJob'[v] = wJob[v]
        BY <1>4, <3>1, <3>4
      <4>2. wJob[v].key # k
        <5>1. SUFFICES ASSUME wJob[v].key = k PROVE FALSE
          OBVIOUS
        <5>2. v \in InHand(k) /\ w \in InHand(k)
          BY <3>1, <3>2, <4>1, <5>1 DEF InHand
        <5>3. QED
          BY <1>3, <4>1, <5>2, OneInHand DEF Around
      <4>3. QED
        BY <1>3, <1>4, <3>3, <4>1, <4>2
    <3>5. QED
      BY <1>3, <1>4, <3>3, <3>4
  <2>3. QED
    BY <2>1, <2>2
<1>7. QED
  BY <1>2, <1>5, <1>6
     DEF PipelineNext, vars, workerVars, ClientTrim, MasterStep, MasterApply, MasterFinish,
         MasterStrayApply, MasterStrayFinish, MasterFinishReply, MasterNotifier, MasterRestart,
         WorkerFault

\* No rendition is stored twice unless the master restarts or a lookup fails.
THEOREM PipelineStoredOnce == PipelineSpec => []StoredOnce
<1>1. /\ PipelineInv /\ PipelineInv' /\ CallsMatch /\ OneJobInv /\ OnceInv
      /\ [PipelineNext]_vars
      => OnceInv'
  BY OnceStep DEF PipelineInv, Around
<1>2. OnceInv => StoredOnce
  BY DEF OnceInv, StoredOnce
<1>3. QED
  BY <1>1, <1>2, OnceInit, OneJobHolds, PTL DEF PipelineSpec

-----------------------------------------------------------------------------
(* A key whose job is lost has no job, so nothing resolves its record.     *)
LEMMA WedgedStep ==
  ASSUME Around, OneJobInv, [PipelineNext]_vars, restarts' = 0, NEW k \in Keys, k \in lost
  PROVE  k \in lost' /\ record'[k] >= record[k] /\ Posting(k)' <= Posting(k)
<1>1. restarts = 0 /\ ~MasterRestart
  BY NoRestart DEF Around
<1>2. k \in lost'
  BY DEF PipelineNext, vars, workerVars, ClientTrim, MasterStep, MasterApply, MasterFinish,
         MasterStrayApply, MasterStrayFinish, MasterFinishReply, MasterNotifier,
         MasterRestart, WorkerStep, SendApply, TakeJob, CheckMissing, CheckRefused,
         PutRendition, EndJob, Broken, WorkerFault, CheckDbFault, PutDbFault, Timeout,
         AbandonCall, WorkerCrash
<1>3. Counted(k) /\ Jobs(k) = 0
  BY <1>1, CountTypes DEF Around, OneJobInv, OneJob
<1>4. ~(nPc = "delete" /\ nMsg.key = k)
  BY <1>3 DEF Counted, Resolving
<1>5. [Next]_masterVars /\ ~Restart
  BY <1>1, StepIsMasterStep DEF Around, Restart
<1>6. record \in [Keys -> Nat] /\ nNum \in Nat
  BY DEF Around, PipelineTypeOK, TypeOK
<1>7. record'[k] >= record[k]
  BY <1>4, <1>5, <1>6
     DEF Next, masterVars, Trim, TrimNew, TrimAgain, ApplyJob, FinishPut, FinishRelease,
         Notifier, SemAcquire, PopReport, GetRecord, DeleteRecord, PostTranscode
<1>8. Posting(k)' <= Posting(k)
  BY <1>4, <1>5, <1>6
     DEF Next, masterVars, Trim, TrimNew, TrimAgain, ApplyJob, FinishPut, FinishRelease,
         Notifier, SemAcquire, PopReport, GetRecord, DeleteRecord, PostTranscode, ioVars,
         notifierVars, Posting
<1>9. QED
  BY <1>2, <1>7, <1>8

\* Trims of a key whose job was dropped are merged into a record that nothing
\* resolves, and nothing more is posted for it, until the master restarts.
THEOREM PipelineWedged == PipelineSpec => WedgedUntilRestart
<1>1. /\ PipelineInv /\ PipelineInv' /\ CallsMatch /\ OneJobInv /\ [PipelineNext]_vars
      => [\A k \in Keys :
            restarts' = 0 /\ k \in lost =>
              /\ k \in lost'
              /\ record'[k] >= record[k]
              /\ Posting(k)' <= Posting(k)]_vars
  BY WedgedStep DEF PipelineInv, Around
<1>2. QED
  BY <1>1, OneJobHolds, PTL DEF PipelineSpec, WedgedUntilRestart
=============================================================================
