---------------------------- MODULE TrimService ----------------------------
(***************************************************************************)
(* What the master promises to photo_service: every accepted POST /trim of *)
(* a rendition is answered by at most one POST /transcode of the same      *)
(* rendition, and, as long as the master is not restarted, no accepted     *)
(* trim is forgotten.  How trims are merged into jobs, queued, rendered by *)
(* the workers and reported is left to Master and TrimPipeline.            *)
(***************************************************************************)
EXTENDS Naturals

CONSTANT Keys       \* renditions: (oid, width, height) triples

VARIABLES
  accepted,         \* [Keys -> Nat], trims the master has accepted
  posted,           \* [Keys -> Nat], /transcode posts the master has made
  owed,             \* [Keys -> Nat], accepted trims still to be answered
  epoch             \* number of restarts of the master

vars == <<accepted, posted, owed, epoch>>

TypeOK ==
  /\ accepted \in [Keys -> Nat]
  /\ posted \in [Keys -> Nat]
  /\ owed \in [Keys -> Nat]
  /\ epoch \in Nat

Init ==
  /\ accepted = [k \in Keys |-> 0]
  /\ posted = [k \in Keys |-> 0]
  /\ owed = [k \in Keys |-> 0]
  /\ epoch = 0

Accept(k) ==
  /\ accepted' = [accepted EXCEPT ![k] = @ + 1]
  /\ owed' = [owed EXCEPT ![k] = @ + 1]
  /\ UNCHANGED <<posted, epoch>>

Post(k) ==
  /\ owed[k] > 0
  /\ owed' = [owed EXCEPT ![k] = @ - 1]
  /\ posted' = [posted EXCEPT ![k] = @ + 1]
  /\ UNCHANGED <<accepted, epoch>>

\* The record of what is owed is in the memory of one process.
Forget ==
  /\ owed' = [k \in Keys |-> 0]
  /\ epoch' = epoch + 1
  /\ UNCHANGED <<accepted, posted>>

Next == Forget \/ \E k \in Keys : Accept(k) \/ Post(k)

Spec == Init /\ [][Next]_vars

-----------------------------------------------------------------------------
\* Every /transcode post answers a trim of its own, and before the first
\* restart the books balance: what was accepted was answered or is owed.
Balanced ==
  \A k \in Keys :
    /\ posted[k] + owed[k] <= accepted[k]
    /\ epoch = 0 => posted[k] + owed[k] = accepted[k]
=============================================================================
