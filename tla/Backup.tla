------------------------------- MODULE Backup -------------------------------
(***************************************************************************)
(* The backup and restore scripts (backup_db): back_image.py copies the    *)
(* originals that are newer than the watermark in time.conf to files named *)
(* by their oid, file_to_mongo.py puts such files back into a store that   *)
(* lost them.  The store is read from a secondary, which has a prefix of   *)
(* the oplog, or from the primary; the photo service stores an original in *)
(* two steps, the file first and then its oid and size, and each upload of *)
(* an original makes a document of its own.                                *)
(*                                                                         *)
(* Renditions are skipped like files without tags, before anything else is *)
(* done with them, and are left out.  The scripts are run one at a time.   *)
(***************************************************************************)
EXTENDS Naturals, Sequences, FiniteSets

CONSTANTS
  Originals,        \* the oids
  None,
  MaxDate,          \* upload dates, in the resolution of uploadDate
  MaxOps            \* bound: entries of the oplog

ASSUME BackupAssumption == None \notin Originals /\ MaxDate \in Nat \ {0} /\ MaxOps \in Nat

VARIABLES
  oplog,            \* what the primary did, in order
  disk,             \* the file of an oid: "none", "torn" or "whole"
  mark,             \* time.conf, 0 (the year 1900) if it is empty or cannot be parsed
  bPc, since, ret,  \* back_image.py: where it is, mytime and ret_time
  left, doc,        \* documents the cursor still has, and the one being written
  undone, missed,   \* history: documents out of sight of this run or left out by it,
                    \* and oids with one behind the watermark
  rPc, visit, file, \* file_to_mongo.py: files to look at, and the present one
  doubt             \* history: oids put although a document of theirs was there

backup == <<mark, bPc, since, ret, left, doc, undone, missed>>
restore == <<rPc, visit, file, doubt>>
vars == <<oplog, disk, backup, restore>>

\* An entry inserts a document, with its tags or not yet, or tags a document.
Entries == [op : {"insert", "tag"}, doc : 1 .. MaxOps, oid : Originals, at : 1 .. MaxDate,
            whole : BOOLEAN, tagged : BOOLEAN]

TypeOK ==
  /\ mark \in 0 .. MaxDate
  /\ oplog \in Seq(Entries)
  /\ disk \in [Originals -> {"none", "torn", "whole"}]
  /\ bPc \in {"idle", "query", "loop", "write", "end", "truncated"}
  /\ {since, ret} \subseteq 0 .. MaxDate
  /\ left \subseteq 1 .. Len(oplog) /\ doc \in 0 .. Len(oplog)
  /\ undone \subseteq 1 .. MaxOps /\ missed \cup visit \cup doubt \subseteq Originals
  /\ rPc \in {"idle", "loop", "put"} /\ file \in Originals \cup {None}

Init ==
  /\ oplog = <<>>
  /\ disk = [o \in Originals |-> "none"]
  /\ mark = 0 /\ bPc = "idle" /\ since = 0 /\ ret = 0 /\ left = {} /\ doc = 0
  /\ undone = {} /\ missed = {}
  /\ rPc = "idle" /\ visit = {} /\ file = None /\ doubt = {}

\* The documents after n entries, those of one oid, and those with their tags.
Docs(n) == {i \in 1 .. n : oplog[i].op = "insert"}
Of(n, o) == {i \in Docs(n) : oplog[i].oid = o}
Tagged(n) ==
  {i \in Docs(n) : \/ oplog[i].tagged
                   \/ \E j \in 1 .. n : oplog[j].op = "tag" /\ oplog[j].doc = i}
Now == Len(oplog)

-----------------------------------------------------------------------------
(* The store and the photo service *)

Log(entry) ==
  /\ Now < MaxOps
  /\ oplog' = Append(oplog, entry)

\* The watermark, or the one that the present run started from.
Base == IF bPc = "idle" THEN mark ELSE since

\* A client dates a document before it inserts it: workers and hosts insert in any order
\* of their dates. One that is older than the watermark no run will look for.
Insert(o, whole, tagged) ==
  \E at \in 1 .. MaxDate :
    /\ Log([op |-> "insert", doc |-> Now + 1, oid |-> o, at |-> at, whole |-> whole,
            tagged |-> tagged])
    /\ undone' = IF bPc # "idle" /\ at >= Base THEN undone \cup {Now + 1} ELSE undone
    /\ missed' = IF at < Base THEN missed \cup {o} ELSE missed

\* store_pic: storeFile, then update, which may come late or never.
Store ==
  /\ \E o \in Originals :
       /\ Insert(o, TRUE, FALSE)
       /\ doubt' = IF o = file THEN doubt \cup {o} ELSE doubt
  /\ UNCHANGED <<disk, mark, bPc, since, ret, left, doc, rPc, visit, file>>

\* The update is by the _id of the document.
Tag ==
  /\ \E i \in Docs(Now) \ Tagged(Now) : Log([oplog[i] EXCEPT !.op = "tag", !.tagged = TRUE])
  /\ UNCHANGED <<disk, backup, restore>>

\* The loss that the backup is for: nobody is reading at the time.
Lose ==
  /\ oplog # <<>> /\ bPc = "idle" /\ rPc = "idle"
  /\ oplog' = <<>> /\ missed' = {} /\ doubt' = {}
  /\ UNCHANGED <<disk, mark, bPc, since, ret, left, doc, undone, rPc, visit, file>>

-----------------------------------------------------------------------------
(* back_image.py *)

Goto(label) == bPc' = label

\* get_time
Start ==
  /\ bPc = "idle" /\ rPc = "idle"
  /\ since' = mark /\ ret' = mark /\ Goto("query")
  /\ undone' = {i \in Docs(Now) : oplog[i].at >= mark}
  /\ UNCHANGED <<oplog, disk, mark, left, doc, missed, restore>>

\* Mutant: {"uploadDate": {"$gt": mytime}}
MatchesAfter(i) == oplog[i].at > since

\* {"uploadDate": {"$gte": mytime}}
Matches(i) == oplog[i].at >= since

\* find_all, without an order; a file whose tags are not there is passed over.
Query ==
  /\ bPc = "query"
  /\ \E n \in 0 .. Now :
       /\ left' = {i \in Tagged(n) : Matches(i)}
       /\ undone' = undone \ Tagged(n)
  /\ Goto("loop")
  /\ UNCHANGED <<oplog, disk, mark, since, ret, doc, missed, restore>>

\* The cursor is read in batches, and a later one may hold what was stored or tagged
\* since, or a document once more.
NextBatch ==
  /\ bPc = "loop"
  /\ \E i \in Tagged(Now) :
       /\ Matches(i)
       /\ left' = left \cup {i} /\ undone' = undone \ {i}
  /\ UNCHANGED <<oplog, disk, mark, bPc, since, ret, doc, missed, restore>>

Later(d) == IF d > ret THEN d ELSE ret

\* ret_time is moved, then the file is opened, which empties it.
CopyOpen ==
  /\ bPc = "loop"
  /\ \E i \in left :
       /\ ret' = Later(oplog[i].at)
       /\ disk' = [disk EXCEPT ![oplog[i].oid] = "torn"]
       /\ doc' = i /\ left' = left \ {i}
  /\ Goto("write")
  /\ UNCHANGED <<oplog, mark, since, undone, missed, restore>>

CopyWrite ==
  /\ bPc = "write"
  /\ disk' = [disk EXCEPT ![oplog[doc].oid] = IF oplog[doc].whole THEN "whole" ELSE "torn"]
  /\ Goto("loop") /\ doc' = 0
  /\ UNCHANGED <<oplog, mark, since, ret, left, undone, missed, restore>>

\* The query, the cursor, makedirs, open, read or write raises: ret_time so far.
CopyFails ==
  /\ bPc \in {"query", "loop", "write"}
  /\ ret' \in {ret} \cup {Later(oplog[i].at) : i \in left}
  /\ undone' = undone \cup left \cup ({doc} \ {0})
  /\ Goto("end") /\ left' = {} /\ doc' = 0
  /\ UNCHANGED <<oplog, disk, mark, since, missed, restore>>

CopyDone ==
  /\ bPc = "loop" /\ left = {}
  /\ Goto("end")
  /\ UNCHANGED <<oplog, disk, mark, since, ret, left, doc, undone, missed, restore>>

\* set_time: opening the file for writing empties it.
SetTimeOpen ==
  /\ bPc = "end"
  /\ mark' = 0 /\ Goto("truncated")
  /\ UNCHANGED <<oplog, disk, since, ret, left, doc, undone, missed, restore>>

SetTimeWrite ==
  /\ bPc = "truncated"
  /\ mark' = ret /\ Goto("idle") /\ undone' = {} /\ since' = 0 /\ ret' = 0
  /\ missed' = missed \cup {oplog[i].oid : i \in {j \in undone : oplog[j].at < ret}}
  /\ UNCHANGED <<oplog, disk, left, doc, restore>>

Crash ==
  /\ bPc # "idle"
  /\ Goto("idle") /\ left' = {} /\ doc' = 0 /\ undone' = {} /\ since' = 0 /\ ret' = 0
  /\ UNCHANGED <<oplog, disk, mark, missed, restore>>

-----------------------------------------------------------------------------
(* file_to_mongo.py *)

RestoreStart ==
  /\ rPc = "idle" /\ bPc = "idle"
  /\ visit' = {o \in Originals : disk[o] # "none"} /\ rPc' = "loop"
  /\ UNCHANGED <<oplog, disk, backup, file, doubt>>

\* Mutant: every file is put, as if the test for it were still commented out.
RestoreFindNot ==
  /\ rPc = "loop"
  /\ \E o \in visit : visit' = visit \ {o} /\ rPc' = "put" /\ file' = o
  /\ UNCHANGED <<oplog, disk, backup, doubt>>

\* find_one by oid, on any member of the set; an error reads as "not there".
RestoreFind ==
  /\ rPc = "loop"
  /\ \E o \in visit :
       /\ visit' = visit \ {o}
       /\ \E n \in 0 .. Now :
            IF Tagged(n) \cap Of(n, o) # {}
            THEN UNCHANGED <<rPc, file, doubt>>
            ELSE /\ rPc' = "put" /\ file' = o
                 /\ doubt' = IF Of(Now, o) = {} THEN doubt ELSE doubt \cup {o}
  /\ UNCHANGED <<oplog, disk, backup>>

\* The document comes with its tags; a failed put is not noticed.
RestorePut ==
  /\ rPc = "put"
  /\ Insert(file, disk[file] = "whole", TRUE) \/ UNCHANGED <<oplog, undone, missed>>
  /\ rPc' = "loop" /\ file' = None
  /\ UNCHANGED <<disk, mark, bPc, since, ret, left, doc, visit, doubt>>

\* The end of the walk, or an exception.
RestoreEnds ==
  /\ rPc # "idle"
  /\ rPc' = "idle" /\ visit' = {} /\ file' = None
  /\ UNCHANGED <<oplog, disk, backup, doubt>>

Next ==
  \/ Store \/ Tag \/ Lose
  \/ Start \/ Query \/ NextBatch \/ CopyOpen \/ CopyWrite \/ CopyFails \/ CopyDone
  \/ SetTimeOpen \/ SetTimeWrite \/ Crash
  \/ RestoreStart \/ RestoreFind \/ RestorePut \/ RestoreEnds

Spec == Init /\ [][Next]_vars

-----------------------------------------------------------------------------
\* Between two runs an original older than the watermark has a whole copy on disk,
\* unless one of its documents came dated behind the watermark, or a run moved the
\* watermark past one that it did not see, by a late insert, a late tag or the lag of the
\* secondary, or that it had not written when an exception ended it. So a crash at any
\* point and originals of the same date lose nothing. (An original that was restored from
\* a torn copy has no whole one.)
BackedUp ==
  bPc = "idle" =>
    \A o \in Originals :
      /\ Tagged(Now) \cap Of(Now, o) # {}
      /\ \A d \in Of(Now, o) : oplog[d].whole /\ oplog[d].at < mark
      => disk[o] = "whole" \/ o \in missed

\* The restore adds a document to an original that has one only if its lookup could not see
\* that one, or if it was stored between the lookup and the put. (The photo service adds
\* one at every upload.)
Restored(i) == oplog[i].tagged
RestoredOnce ==
  \A o \in Originals :
    (\E r, d \in Of(Now, o) : d < r /\ Restored(r)) => o \in doubt

\* What the disk has for a restore, and what a restore makes of the store.
Recoverable == TypeOK /\ BackedUp /\ RestoredOnce
=============================================================================
