---------------------------- MODULE ContentProofs ----------------------------
(***************************************************************************)
(* What becomes of contents.  deal_image.py makes the size that was asked  *)
(* for from a picture of any size.  What the watermark of back_image.py    *)
(* has passed can be restored, with any number of originals, dates and     *)
(* entries of the oplog.  A request is handled as it was sent and an       *)
(* answer is read as it was packed, whatever their parameters, headers and *)
(* contents are, of any length, and however TCP cuts the request.          *)
(***************************************************************************)
EXTENDS Backup, DealImage, HttpExchange, SequenceTheorems, FiniteSetTheorems,
        WellFoundedInduction, TLAPS

-----------------------------------------------------------------------------
(* DealImage *)

\* The quotient of two sides: a whole number, and one more factor is too much.
LEMMA RouthBounds ==
  ASSUME NEW a \in Nat, NEW b \in Nat \ {0}
  PROVE  /\ Routh(a, b) \in Nat
         /\ b * Routh(a, b) <= a
         /\ a < b * (Routh(a, b) + 1)
  BY Z3 DEF Routh

\* A larger factor than the quotient covers the side.
LEMMA LargerCovers ==
  ASSUME NEW a \in Nat, NEW b \in Nat \ {0}, NEW r \in Nat, r > Routh(a, b)
  PROVE  b * r \in Nat \ {0} /\ b * r >= a
  <1>1. Routh(a, b) \in Nat /\ a < b * (Routh(a, b) + 1)
    BY RouthBounds
  <1>2. PICK k \in Nat : r = Routh(a, b) + 1 + k
    <2>1. r - (Routh(a, b) + 1) \in Nat
      BY <1>1
    <2> QED
      BY <1>1, <2>1
  <1>3. b * r = b * (Routh(a, b) + 1) + b * k
    BY <1>1, <1>2, Z3
  <1>4. b * k \in Nat /\ b * (Routh(a, b) + 1) \in Nat
    BY <1>1, <1>2, Z3
  <1> QED
    BY <1>1, <1>3, <1>4, Z3

\* The middle of a side has the length asked for and lies in the side.
LEMMA MiddleLength ==
  ASSUME NEW have \in Nat, NEW want \in Nat, have >= want
  PROVE  /\ MiddleFrom(have, want) \in Int /\ MiddleTo(have, want) \in Int
         /\ MiddleTo(have, want) - MiddleFrom(have, want) = want
         /\ MiddleFrom(have, want) >= 0 /\ MiddleTo(have, want) <= have
  BY Z3 DEF MiddleFrom, MiddleTo

-----------------------------------------------------------------------------
DealInv == DealTypeOK /\ Covers /\ RenditionSize

LEMMA InitDeal == DealInit => DealInv
  BY DealAssumption DEF DealInit, DealInv, DealTypeOK, Covers, RenditionSize, Sizes, Targets, Whole

LEMMA ResizeDeal == DealInv /\ Resize => DealInv'
  <1> SUFFICES ASSUME DealInv, Resize PROVE DealInv'
    OBVIOUS
  <1>1. /\ target.w \in Nat \ {0} /\ target.h \in Nat \ {0}
        /\ source.w \in Nat \ {0} /\ source.h \in Nat \ {0}
        /\ target \in Sizes
    BY DealAssumption DEF DealInv, DealTypeOK, Sizes, Targets
  <1> DEFINE rw == Routh(target.w, source.w)
             rh == Routh(target.h, source.h)
  <1>2. rw \in Nat /\ rh \in Nat
    BY <1>1, RouthBounds
  <1> HIDE DEF rw, rh
  <1>3. /\ image' = IF rw = rh THEN target
                    ELSE IF rw > rh THEN [w |-> target.w, h |-> source.h * rw]
                                    ELSE [w |-> source.w * rh, h |-> target.h]
        /\ phase' = IF rw = rh THEN "cropped" ELSE "resized"
        /\ UNCHANGED <<target, source, box>>
    BY DEF Resize, rw, rh
  <1>4. CASE rw = rh
    BY <1>1, <1>3, <1>4 DEF DealInv, DealTypeOK, Covers, RenditionSize
  <1>5. CASE rw > rh
    <2>1. source.h * rw \in Nat \ {0} /\ source.h * rw >= target.h
      BY <1>1, <1>2, <1>5, LargerCovers DEF rh
    <2>2. image' = [w |-> target.w, h |-> source.h * rw] /\ phase' = "resized"
      BY <1>2, <1>3, <1>5
    <2> QED
      BY <1>1, <1>3, <2>1, <2>2 DEF DealInv, DealTypeOK, Covers, RenditionSize, Sizes
  <1>6. CASE rw < rh
    <2>1. source.w * rh \in Nat \ {0} /\ source.w * rh >= target.w
      BY <1>1, <1>2, <1>6, LargerCovers DEF rw
    <2>2. image' = [w |-> source.w * rh, h |-> target.h] /\ phase' = "resized"
      BY <1>2, <1>3, <1>6
    <2> QED
      BY <1>1, <1>3, <2>1, <2>2 DEF DealInv, DealTypeOK, Covers, RenditionSize, Sizes
  <1> QED
    BY <1>2, <1>4, <1>5, <1>6

LEMMA CropDeal == DealInv /\ Crop => DealInv'
  <1> SUFFICES ASSUME DealInv, Crop PROVE DealInv'
    OBVIOUS
  <1>1. /\ target \in Targets /\ source \in Sizes
        /\ target.w \in Nat \ {0} /\ target.h \in Nat \ {0}
        /\ image.w \in Nat /\ image.h \in Nat
        /\ image.w >= target.w /\ image.h >= target.h
        /\ target = [w |-> target.w, h |-> target.h]
    BY DealAssumption DEF DealInv, DealTypeOK, Covers, Sizes, Targets, Crop
  <1>2. /\ box' \in [left : Int, upper : Int, right : Int, lower : Int]
        /\ box'.right - box'.left = target.w /\ box'.lower - box'.upper = target.h
    BY <1>1, MiddleLength DEF Crop
  <1>3. image' = target
    BY <1>1, <1>2 DEF Crop
  <1>4. image' \in Sizes
    BY <1>1, <1>3 DEF Sizes
  <1> QED
    BY <1>1, <1>2, <1>3, <1>4 DEF Crop, DealInv, DealTypeOK, Covers, RenditionSize

LEMMA NextDeal == DealInv /\ [DealNext]_dealVars => DealInv'
  <1> SUFFICES ASSUME DealInv, [DealNext]_dealVars PROVE DealInv'
    OBVIOUS
  <1>1. CASE Resize
    BY <1>1, ResizeDeal
  <1>2. CASE Crop
    BY <1>2, CropDeal
  <1>3. CASE Save
    BY <1>3 DEF Save, DealInv, DealTypeOK, Covers, RenditionSize
  <1>4. CASE Fail
    BY <1>4 DEF Fail, DealInv, DealTypeOK, Covers, RenditionSize
  <1>5. CASE UNCHANGED dealVars
    BY <1>5 DEF dealVars, DealInv, DealTypeOK, Covers, RenditionSize
  <1> QED
    BY <1>1, <1>2, <1>3, <1>4, <1>5 DEF DealNext

\* deal_image.deal (work/deal_image.py): whatever the integer division rounds
\* away, the picture that is saved has exactly the width and height asked for, for
\* every source and target size.
THEOREM DealRenditionSize == DealSpec => []RenditionSize
  <1>1. DealInv => RenditionSize
    BY DEF DealInv
  <1> QED
    BY <1>1, InitDeal, NextDeal, PTL DEF DealSpec

\* The enlarged picture that crop cuts from covers the rendition on both sides.
THEOREM DealCovers == DealSpec => []Covers
  <1>1. DealInv => Covers
    BY DEF DealInv
  <1> QED
    BY <1>1, InitDeal, NextDeal, PTL DEF DealSpec

-----------------------------------------------------------------------------
(* Backup: the inductive invariant *)

\* The originals of which every document is whole and older than m have a whole copy, or are
\* known to be missed.
Covered(m) ==
  \A o \in Originals :
    Of(Now, o) # {} /\ (\A d \in Of(Now, o) : oplog[d].whole /\ oplog[d].at < m)
      => disk[o] = "whole" \/ o \in missed

\* Documents that the run still has to write, and originals with one that it has to write or has
\* not seen.
Waiting == left \cup ({doc} \ {0})
Selected(o) == Of(Now, o) \cap (Waiting \cup undone) # {}

\* A run has written, will write or has not seen what it was started for, and what came since.
Copying ==
  \A o \in Originals :
    (\A d \in Of(Now, o) : oplog[d].whole) /\ (\E d \in Of(Now, o) : oplog[d].at >= since)
      => disk[o] = "whole" \/ Selected(o)

Copied == Covered(Base) /\ (bPc # "idle" => Copying)

\* The two scripts run one at a time; what a run has in hand at each point.
Points ==
  /\ bPc = "idle" \/ rPc = "idle"
  /\ bPc = "idle" => left = {} /\ doc = 0 /\ undone = {}
  /\ bPc \in {"query", "loop", "write", "end"} => mark = since
  /\ bPc = "truncated" => mark = 0
  /\ bPc \in {"query", "end", "truncated"} => left = {}
  /\ bPc = "write" <=> doc # 0
  /\ left \subseteq Docs(Now) /\ undone \subseteq Docs(Now) /\ doc \in Docs(Now) \cup {0}
  /\ \A j \in Waiting \cup undone : oplog[j].at >= since
  /\ rPc = "put" <=> file # None
  /\ Now <= MaxOps

\* Where no lookup missed a document, none was restored beside an older one, and none is there when
\* the restore has looked.
Once ==
  \A o \in Originals \ doubt : /\ \A r, d \in Of(Now, o) : d < r => ~ Restored(r)
                               /\ file = o => Of(Now, o) = {}

BInv == TypeOK /\ Points /\ Once /\ Copied

-----------------------------------------------------------------------------
LEMMA EntryTypes ==
  ASSUME TypeOK, NEW i \in 1 .. Now
  PROVE  /\ oplog[i] \in Entries /\ oplog[i].op \in {"insert", "tag"} /\ oplog[i].oid \in Originals
         /\ oplog[i].at \in Nat /\ oplog[i].at >= 1 /\ oplog[i].at <= MaxDate
         /\ oplog[i].whole \in BOOLEAN
<1>1. oplog[i] \in Entries
  BY ElementOfSeq DEF TypeOK, Now
<1>2. QED
  BY <1>1, BackupAssumption DEF Entries

\* The documents after one more entry.
LEMMA Logged ==
  ASSUME TypeOK, NEW e \in Entries, oplog' = Append(oplog, e)
  PROVE  /\ oplog' \in Seq(Entries) /\ Now \in Nat /\ Now' = Now + 1
         /\ oplog'[Now + 1] = e /\ \A i \in 1 .. Now : oplog'[i] = oplog[i]
         /\ Docs(Now)' = Docs(Now) \cup (IF e.op = "insert" THEN {Now + 1} ELSE {})
         /\ \A o \in Originals :
              Of(Now, o)' = Of(Now, o) \cup (IF e.op = "insert" /\ e.oid = o THEN {Now + 1} ELSE {})
<1>1. /\ oplog' \in Seq(Entries) /\ Now \in Nat /\ Now' = Now + 1
      /\ oplog'[Now + 1] = e /\ \A i \in 1 .. Now : oplog'[i] = oplog[i]
  BY AppendProperties, LenProperties DEF TypeOK, Now
<1>2. \A i : i \in 1 .. Now' <=> i \in 1 .. Now \/ i = Now + 1
  BY <1>1
<1>3. Docs(Now)' = Docs(Now) \cup (IF e.op = "insert" THEN {Now + 1} ELSE {})
  BY <1>1, <1>2 DEF Docs
<1>4. ASSUME NEW o \in Originals
      PROVE  Of(Now, o)' = Of(Now, o) \cup (IF e.op = "insert" /\ e.oid = o THEN {Now + 1} ELSE {})
  <2>1. Of(Now, o)' = {i \in Docs(Now)' : oplog'[i].oid = o}
    BY DEF Of
  <2>2. \A i \in Docs(Now) : i \in 1 .. Now
    BY DEF Docs
  <2>3. QED
    BY <1>1, <1>3, <2>1, <2>2 DEF Of
<1>5. QED
  BY <1>1, <1>3, <1>4

\* An unchanged oplog has the same documents.
LEMMA SameStore ==
  oplog' = oplog => /\ Now' = Now /\ Docs(Now)' = Docs(Now)
                    /\ \A o \in Originals : Of(Now, o)' = Of(Now, o)
  BY DEF Now, Docs, Of

LEMMA DocsRange ==
  /\ Docs(Now) \subseteq 1 .. Now
  /\ \A o \in Originals : Of(Now, o) \subseteq Docs(Now) /\ \A i \in Of(Now, o) : oplog[i].oid = o
  BY DEF Docs, Of

-----------------------------------------------------------------------------
(* Copied: steps that leave the run alone, then the steps of a run. *)

LEMMA CopiedStays ==
  ASSUME Copied, UNCHANGED <<oplog, disk, bPc, mark, since, ret, left, doc, undone, missed>>
  PROVE  Copied'
  BY SameStore DEF Copied, Covered, Base, Copying, Selected, Waiting

\* The entry of an insert, and what becomes of the history.
LEMMA Inserted ==
  ASSUME TypeOK, NEW o \in Originals, NEW whole \in BOOLEAN, NEW tagged \in BOOLEAN,
         Insert(o, whole, tagged)
  PROVE  \E e \in Entries :
           /\ e.op = "insert" /\ e.oid = o /\ e.tagged = tagged
           /\ Now < MaxOps /\ oplog' = Append(oplog, e)
           /\ undone' = IF bPc # "idle" /\ e.at >= Base THEN undone \cup {Now + 1} ELSE undone
           /\ missed' = IF e.at < Base THEN missed \cup {o} ELSE missed
<1>1. PICK at \in 1 .. MaxDate :
        /\ Log([op |-> "insert", doc |-> Now + 1, oid |-> o, at |-> at, whole |-> whole,
                tagged |-> tagged])
        /\ undone' = IF bPc # "idle" /\ at >= Base THEN undone \cup {Now + 1} ELSE undone
        /\ missed' = IF at < Base THEN missed \cup {o} ELSE missed
  BY DEF Insert
<1> DEFINE new == [op |-> "insert", doc |-> Now + 1, oid |-> o, at |-> at, whole |-> whole,
                   tagged |-> tagged]
<1>2. Now < MaxOps /\ oplog' = Append(oplog, new)
  BY <1>1 DEF Log
<1>3. Now + 1 \in 1 .. MaxOps
  <2>1. Now \in Nat /\ MaxOps \in Nat
    BY LenProperties, BackupAssumption DEF TypeOK, Now
  <2>2. QED
    BY <1>2, <2>1
<1>4. new \in Entries
  BY <1>3 DEF Entries
<1>5. new.op = "insert" /\ new.oid = o /\ new.tagged = tagged /\ new.at = at
  OBVIOUS
<1>6. QED
  BY <1>1, <1>2, <1>4, <1>5

\* An original with a new document is not older than the watermark, or missed, and the run that
\* is under way has not seen it.
LEMMA CopiedLogged ==
  ASSUME BInv, NEW e \in Entries, oplog' = Append(oplog, e),
         UNCHANGED <<disk, mark, bPc, since, ret, left, doc>>,
         undone \subseteq undone', missed \subseteq missed',
         e.op = "insert" => /\ bPc # "idle" /\ e.at >= Base => Now + 1 \in undone'
                            /\ e.at < Base => e.oid \in missed'
  PROVE  Copied'
<1>1. TypeOK /\ Copied /\ mark \in Nat /\ since \in Nat
  BY BackupAssumption DEF BInv, TypeOK
<1>2. /\ Now \in Nat /\ oplog'[Now + 1] = e /\ \A i \in 1 .. Now : oplog'[i] = oplog[i]
      /\ \A o \in Originals :
           Of(Now, o)' = Of(Now, o) \cup (IF e.op = "insert" /\ e.oid = o THEN {Now + 1} ELSE {})
  BY <1>1, Logged
<1>3. Waiting' = Waiting /\ Base' = Base /\ Base \in Nat /\ e.at \in Nat
  BY <1>1, BackupAssumption DEF Waiting, Base, Entries
<1>4. ASSUME NEW o \in Originals, Of(Now, o)' # {},
             \A d \in Of(Now, o)' : oplog'[d].whole /\ oplog'[d].at < Base'
      PROVE  disk'[o] = "whole" \/ o \in missed'
  <2>1. CASE Now + 1 \in Of(Now, o)'
    <3>1. oplog'[Now + 1].at < Base'
      BY <1>4, <2>1
    <3>2. e.at < Base
      BY <1>2, <1>3, <3>1
    <3>3. Now + 1 \notin Of(Now, o)
      BY <1>2, DocsRange
    <3>4. e.op = "insert" /\ e.oid = o
      BY <1>2, <2>1, <3>3
    <3>5. QED
      BY <3>2, <3>4
  <2>2. CASE Now + 1 \notin Of(Now, o)'
    <3>1. Of(Now, o)' = Of(Now, o)
      BY <1>2, <2>2
    <3>2. \A d \in Of(Now, o) : oplog[d].whole /\ oplog[d].at < Base
      BY <1>2, <1>3, <1>4, <3>1, DocsRange
    <3>3. disk[o] = "whole" \/ o \in missed
      BY <1>1, <1>4, <3>1, <3>2 DEF Copied, Covered
    <3>4. QED
      BY <3>3
  <2>3. QED
    BY <2>1, <2>2
<1>5. ASSUME bPc # "idle", NEW o \in Originals, \A d \in Of(Now, o)' : oplog'[d].whole,
             NEW d \in Of(Now, o)', oplog'[d].at >= since'
      PROVE  disk'[o] = "whole" \/ Selected(o)'
  <2>1. CASE d = Now + 1
    <3>1. d \notin Of(Now, o)
      BY <1>2, <2>1, DocsRange
    <3>2. e.op = "insert" /\ e.at >= since
      BY <1>2, <1>5, <2>1, <3>1
    <3>3. Base = since
      BY <1>5 DEF Base
    <3>4. d \in undone'
      BY <1>5, <2>1, <3>2, <3>3
    <3>5. QED
      BY <1>5, <3>4 DEF Selected
  <2>2. CASE d # Now + 1
    <3>1. d \in Of(Now, o) /\ \A i \in Of(Now, o) : i \in Of(Now, o)'
      BY <1>2, <1>5, <2>2
    <3>2. oplog'[d] = oplog[d] /\ \A i \in Of(Now, o) : oplog'[i] = oplog[i]
      BY <1>2, <3>1, DocsRange
    <3>3. \A i \in Of(Now, o) : oplog[i].whole
      BY <1>5, <3>1, <3>2
    <3>4. oplog[d].at >= since
      BY <1>5, <3>2
    <3>5. disk[o] = "whole" \/ Selected(o)
      BY <1>1, <1>5, <3>1, <3>3, <3>4 DEF Copied, Copying
    <3>6. Selected(o) => Selected(o)'
      BY <1>3, <3>1 DEF Selected
    <3>7. QED
      BY <3>5, <3>6
  <2>3. QED
    BY <2>1, <2>2
<1>6. Covered(Base)'
  BY <1>4 DEF Covered
<1>7. bPc # "idle" => Copying'
  BY <1>5 DEF Copying
<1>8. QED
  BY <1>6, <1>7 DEF Copied

\* What a run has of each original when the store and its place in the list stay as they are.
LEMMA RunFacts ==
  ASSUME BInv
  PROVE  /\ Now \in Nat /\ mark \in Nat /\ since \in Nat /\ ret \in Nat
         /\ \A i \in 1 .. Now : oplog[i].at \in Nat /\ oplog[i].at >= 1 /\ oplog[i].at <= MaxDate
                               /\ oplog[i].oid \in Originals /\ oplog[i].whole \in BOOLEAN
         /\ left \subseteq Docs(Now) /\ undone \subseteq Docs(Now) /\ Docs(Now) \subseteq 1 .. Now
         /\ \A i \in Docs(Now) : i \in Of(Now, oplog[i].oid)
<1>1. TypeOK /\ Points
  BY DEF BInv
<1>2. Now \in Nat /\ mark \in Nat /\ since \in Nat /\ ret \in Nat
  BY <1>1, LenProperties, BackupAssumption DEF TypeOK, Now
<1>3. \A i \in 1 .. Now : oplog[i].at \in Nat /\ oplog[i].at >= 1 /\ oplog[i].at <= MaxDate
                        /\ oplog[i].oid \in Originals /\ oplog[i].whole \in BOOLEAN
  BY <1>1, EntryTypes
<1>4. \A i \in Docs(Now) : i \in Of(Now, oplog[i].oid)
  BY DEF Of
<1>5. left \subseteq Docs(Now) /\ undone \subseteq Docs(Now) /\ Docs(Now) \subseteq 1 .. Now
  BY <1>1, DocsRange DEF Points
<1>6. QED
  BY <1>2, <1>3, <1>4, <1>5

\* The query finds each document that is not older, or it is out of its sight.
LEMMA CopiedQuery ==
  ASSUME BInv, Query
  PROVE  Copied'
<1>1. Copied /\ bPc = "query" /\ since' = since /\ Waiting = {}
      /\ UNCHANGED <<oplog, disk, missed>>
  BY DEF BInv, Query, Points, Waiting
<1>2. bPc' = "loop"
  BY DEF Query, Goto
<1>3. Covered(Base)'
  BY <1>1, <1>2, SameStore DEF Copied, Covered, Base
<1>4. PICK n \in 0 .. Now : /\ left' = {i \in Tagged(n) : Matches(i)}
                           /\ undone' = undone \ Tagged(n)
  BY DEF Query
<1>5. \A j \in undone : oplog[j].at >= since
  BY <1>1 DEF BInv, Points
<1>6. undone \subseteq left' \cup undone'
  BY <1>4, <1>5 DEF Matches
<1>7. \A o \in Originals : Selected(o) => Selected(o)'
  BY <1>1, <1>6, SameStore DEF Selected, Waiting
<1>8. Copying'
  BY <1>1, <1>7, SameStore DEF Copied, Copying
<1>9. QED
  BY <1>3, <1>8 DEF Copied

\* What a later batch holds is seen now.
LEMMA CopiedBatch ==
  ASSUME BInv, NextBatch
  PROVE  Copied'
<1>1. Copied /\ bPc = "loop" /\ UNCHANGED <<oplog, disk, mark, bPc, since, doc, missed>>
  BY DEF BInv, NextBatch
<1>2. PICK i \in Tagged(Now) : left' = left \cup {i} /\ undone' = undone \ {i}
  BY DEF NextBatch
<1>3. Waiting \cup undone \subseteq Waiting' \cup undone'
  BY <1>1, <1>2 DEF Waiting
<1>4. \A o \in Originals : Selected(o) => Selected(o)'
  BY <1>1, <1>3, SameStore DEF Selected
<1>5. Covered(Base)'
  BY <1>1, SameStore DEF Copied, Covered, Base
<1>6. Copying'
  BY <1>1, <1>4, SameStore DEF Copied, Copying
<1>7. QED
  BY <1>5, <1>6 DEF Copied

\* A file is emptied only for a document that is not older than the watermark.
LEMMA CopiedOpen ==
  ASSUME BInv, CopyOpen
  PROVE  Copied'
<1>1. /\ Copied /\ bPc = "loop" /\ bPc' = "write" /\ since' = since /\ doc = 0
      /\ UNCHANGED <<oplog, missed, undone>>
  BY DEF BInv, CopyOpen, Goto, Points
<1>2. PICK i \in left : /\ ret' = Later(oplog[i].at)
                       /\ disk' = [disk EXCEPT ![oplog[i].oid] = "torn"]
                       /\ doc' = i /\ left' = left \ {i}
  BY DEF CopyOpen
<1>3. i \in Docs(Now) /\ i \in 1 .. Now /\ i # 0 /\ oplog[i].oid \in Originals /\ oplog[i].at \in Nat
      /\ ret \in Nat /\ since \in Nat
  BY RunFacts
<1>4. i \in Waiting
  BY <1>2 DEF Waiting
<1>5. oplog[i].at >= since
  BY <1>4 DEF BInv, Points
<1>6. \A o \in Originals : o # oplog[i].oid => disk'[o] = disk[o]
  BY <1>2 DEF BInv, TypeOK
<1>7. ASSUME NEW o \in Originals, Of(Now, o)' # {},
             \A d \in Of(Now, o)' : oplog'[d].whole /\ oplog'[d].at < Base'
      PROVE  disk'[o] = "whole" \/ o \in missed'
  <2>1. Of(Now, o)' = Of(Now, o) /\ Base' = since /\ Base = since
    BY <1>1, SameStore DEF Base
  <2>2. \A d \in Of(Now, o) : oplog[d].whole /\ oplog[d].at < since
    BY <1>1, <1>7, <2>1
  <2>3. o # oplog[i].oid
    <3>1. ASSUME o = oplog[i].oid PROVE FALSE
      <4>1. i \in Of(Now, o)
        BY <1>3, <3>1, RunFacts
      <4>2. QED
        BY <1>3, <1>5, <2>2, <4>1
    <3>2. QED
      BY <3>1
  <2>4. disk[o] = "whole" \/ o \in missed
    BY <1>1, <1>7, <2>1, <2>2 DEF Copied, Covered
  <2>5. QED
    BY <1>1, <1>6, <2>3, <2>4
<1>8. ASSUME NEW o \in Originals, \A d \in Of(Now, o) : oplog[d].whole,
             \E d \in Of(Now, o) : oplog[d].at >= since
      PROVE  disk'[o] = "whole" \/ Selected(o)'
  <2>1. Waiting \cup undone \subseteq Waiting' \cup undone'
    BY <1>1, <1>2, <1>3 DEF Waiting
  <2>2. CASE o = oplog[i].oid
    <3>1. i \in Of(Now, o)'
      BY <1>1, <1>3, <2>2, RunFacts, SameStore
    <3>2. i \in Waiting'
      BY <1>2, <1>3 DEF Waiting
    <3>3. QED
      BY <3>1, <3>2 DEF Selected
  <2>3. CASE o # oplog[i].oid
    <3>1. disk[o] = "whole" \/ Selected(o)
      BY <1>1, <1>8 DEF Copied, Copying
    <3>2. Selected(o) => Selected(o)'
      BY <1>1, <2>1, SameStore DEF Selected
    <3>3. QED
      BY <1>6, <2>3, <3>1, <3>2
  <2>4. QED
    BY <2>2, <2>3
<1>9. Covered(Base)'
  BY <1>7 DEF Covered
<1>10. Copying'
  BY <1>1, <1>8, SameStore DEF Copying
<1>11. QED
  BY <1>9, <1>10 DEF Copied

\* A document that was written is in its file, if it is whole.
LEMMA CopiedWrite ==
  ASSUME BInv, CopyWrite
  PROVE  Copied'
<1>1. /\ Copied /\ bPc = "write" /\ bPc' = "loop" /\ since' = since /\ ret' = ret
      /\ doc # 0 /\ doc' = 0 /\ UNCHANGED <<oplog, missed, undone, left>>
      /\ disk' = [disk EXCEPT ![oplog[doc].oid] = IF oplog[doc].whole THEN "whole" ELSE "torn"]
  BY DEF BInv, CopyWrite, Goto, Points
<1>2. doc \in Docs(Now) /\ doc \in 1 .. Now
  BY <1>1, DocsRange DEF BInv, Points
<1>3. oplog[doc].oid \in Originals /\ oplog[doc].at \in Nat /\ since \in Nat
      /\ oplog[doc].whole \in BOOLEAN
  BY <1>2, RunFacts
<1>4. Waiting = left \cup {doc} /\ Waiting' = left
  BY <1>1 DEF Waiting
<1>5. oplog[doc].at >= since
  BY <1>4 DEF BInv, Points
<1>6. \A o \in Originals : o # oplog[doc].oid => disk'[o] = disk[o]
  BY <1>1 DEF BInv, TypeOK
<1>7. ASSUME NEW o \in Originals, Of(Now, o)' # {},
             \A d \in Of(Now, o)' : oplog'[d].whole /\ oplog'[d].at < Base'
      PROVE  disk'[o] = "whole" \/ o \in missed'
  <2>1. Of(Now, o)' = Of(Now, o) /\ Base' = since /\ Base = since
    BY <1>1, SameStore DEF Base
  <2>2. \A d \in Of(Now, o) : oplog[d].whole /\ oplog[d].at < since
    BY <1>1, <1>7, <2>1
  <2>3. o # oplog[doc].oid
    <3>1. ASSUME o = oplog[doc].oid PROVE FALSE
      <4>1. doc \in Of(Now, o)
        BY <1>2, <3>1, RunFacts
      <4>2. QED
        BY <1>3, <1>5, <2>2, <4>1
    <3>2. QED
      BY <3>1
  <2>4. disk[o] = "whole" \/ o \in missed
    BY <1>1, <1>7, <2>1, <2>2 DEF Copied, Covered
  <2>5. QED
    BY <1>1, <1>6, <2>3, <2>4
<1>8. ASSUME NEW o \in Originals, \A d \in Of(Now, o) : oplog[d].whole,
             \E d \in Of(Now, o) : oplog[d].at >= since
      PROVE  disk'[o] = "whole" \/ Selected(o)'
  <2>1. CASE o = oplog[doc].oid
    <3>1. oplog[doc].whole
      BY <1>2, <1>8, <2>1, RunFacts
    <3>2. disk'[o] = "whole"
      BY <1>1, <1>3, <2>1, <3>1 DEF BInv, TypeOK
    <3>3. QED
      BY <3>2
  <2>2. CASE o # oplog[doc].oid
    <3>1. disk[o] = "whole" \/ Selected(o)
      BY <1>1, <1>8 DEF Copied, Copying
    <3>2. doc \notin Of(Now, o)
      BY <2>2, DocsRange
    <3>3. Selected(o) => Selected(o)'
      BY <1>1, <1>4, <3>2, SameStore DEF Selected
    <3>4. QED
      BY <1>6, <2>2, <3>1, <3>3
  <2>3. QED
    BY <2>1, <2>2
<1>9. Covered(Base)'
  BY <1>7 DEF Covered
<1>10. Copying'
  BY <1>1, <1>8, SameStore DEF Copying
<1>11. QED
  BY <1>9, <1>10 DEF Copied

\* An exception leaves out what was not written yet.
LEMMA CopiedFails ==
  ASSUME BInv, CopyFails
  PROVE  Copied'
<1>1. /\ Copied /\ bPc \in {"query", "loop", "write"} /\ bPc' = "end" /\ since' = since
      /\ UNCHANGED <<oplog, missed, disk>> /\ undone' = undone \cup Waiting
  BY DEF BInv, CopyFails, Goto, Waiting
<1>2. Covered(Base)'
  BY <1>1, SameStore DEF Copied, Covered, Base
<1>3. \A o \in Originals : Selected(o) => Selected(o)'
  BY <1>1, SameStore DEF Selected
<1>4. Copying'
  BY <1>1, <1>3, SameStore DEF Copied, Copying
<1>5. QED
  BY <1>2, <1>4 DEF Copied

\* The watermark moves: what it passes was written, or is known to be missed.
LEMMA CopiedMarked ==
  ASSUME BInv, SetTimeWrite
  PROVE  Copied'
<1>1. /\ Copied /\ bPc = "truncated" /\ bPc' = "idle" /\ mark' = ret
      /\ UNCHANGED <<oplog, disk>> /\ Waiting = {}
      /\ missed' = missed \cup {oplog[i].oid : i \in {j \in undone : oplog[j].at < ret}}
  BY DEF BInv, SetTimeWrite, Goto, Points, Waiting
<1>2. Base = since /\ Base' = ret /\ Covered(since) /\ Copying
  BY <1>1 DEF Base, Copied
<1>3. ASSUME NEW o \in Originals, Of(Now, o) # {},
             \A d \in Of(Now, o) : oplog[d].whole /\ oplog[d].at < ret
      PROVE  disk[o] = "whole" \/ o \in missed'
  <2>1. CASE \A d \in Of(Now, o) : oplog[d].at < since
    <3>1. disk[o] = "whole" \/ o \in missed
      BY <1>2, <1>3, <2>1 DEF Covered
    <3>2. QED
      BY <1>1, <3>1
  <2>2. CASE ~ \A d \in Of(Now, o) : oplog[d].at < since
    <3>1. PICK d \in Of(Now, o) : ~ (oplog[d].at < since)
      BY <2>2
    <3>2. oplog[d].at \in Nat /\ since \in Nat /\ ret \in Nat
      BY DocsRange, RunFacts
    <3>3. oplog[d].at >= since
      BY <3>1, <3>2
    <3>4. disk[o] = "whole" \/ Selected(o)
      BY <1>2, <1>3, <3>3 DEF Copying
    <3>5. ASSUME Selected(o) PROVE o \in missed'
      <4>1. PICK j : j \in undone /\ j \in Of(Now, o)
        BY <1>1, <3>5 DEF Selected
      <4>2. oplog[j].oid = o /\ oplog[j].at < ret
        BY <1>3, <4>1, DocsRange
      <4>3. QED
        BY <1>1, <4>1, <4>2
    <3>6. QED
      BY <3>4, <3>5
  <2>3. QED
    BY <2>1, <2>2
<1>4. Covered(Base)'
  BY <1>1, <1>2, <1>3, SameStore DEF Covered
<1>5. QED
  BY <1>1, <1>4 DEF Copied

\* A crash keeps the watermark that the run started from, or one that nothing is older than.
LEMMA CopiedCrash ==
  ASSUME BInv, Crash
  PROVE  Copied'
<1>1. /\ Copied /\ bPc # "idle" /\ bPc' = "idle" /\ UNCHANGED <<oplog, disk, mark, missed>>
  BY DEF BInv, Crash, Goto
<1>2. mark = since \/ mark = 0
  BY <1>1 DEF BInv, Points, TypeOK
<1>3. Base = since /\ Base' = mark /\ Covered(since)
  BY <1>1 DEF Base, Copied
<1>4. Covered(mark)
  <2>1. CASE mark = since
    BY <1>3, <2>1
  <2>2. CASE mark = 0
    <3>1. \A o \in Originals : \A d \in Of(Now, o) : ~ (oplog[d].at < 0)
      BY DocsRange, RunFacts
    <3>2. QED
      BY <2>2, <3>1 DEF Covered
  <2>3. QED
    BY <1>2, <2>1, <2>2
<1>5. Covered(Base)'
  BY <1>1, <1>3, <1>4, SameStore DEF Covered
<1>6. QED
  BY <1>1, <1>5 DEF Copied

\* The remaining steps of a run, and the loss of the store.
LEMMA CopiedElse ==
  ASSUME BInv, Start \/ CopyDone \/ SetTimeOpen \/ Lose
  PROVE  Copied'
<1>1. Copied
  BY DEF BInv
<1>2. CASE Start
  <2>1. /\ bPc = "idle" /\ bPc' = "query" /\ since' = mark /\ UNCHANGED <<oplog, disk, missed>>
        /\ undone' = {i \in Docs(Now) : oplog[i].at >= mark}
    BY <1>2 DEF Start, Goto
  <2>2. Covered(Base)'
    BY <1>1, <2>1, SameStore DEF Copied, Covered, Base
  <2>3. ASSUME NEW o \in Originals, NEW d \in Of(Now, o), oplog[d].at >= mark
        PROVE  Selected(o)'
    <3>1. d \in undone'
      BY <2>1, <2>3, DocsRange
    <3>2. d \in Of(Now, o)'
      BY <2>1, SameStore
    <3>3. QED
      BY <3>1, <3>2 DEF Selected
  <2>4. Copying'
    BY <2>1, <2>3, SameStore DEF Copying
  <2>5. QED
    BY <2>2, <2>4 DEF Copied
<1>3. CASE CopyDone
  <2>1. Covered(Base)' /\ Copying
    BY <1>1, <1>3, SameStore DEF CopyDone, Goto, Copied, Covered, Base
  <2>2. Copying'
    BY <1>3, <2>1, SameStore DEF CopyDone, Copying, Selected, Waiting
  <2>3. QED
    BY <2>1, <2>2 DEF Copied
<1>4. CASE SetTimeOpen
  <2>1. Covered(Base)' /\ Copying
    BY <1>1, <1>4, SameStore DEF SetTimeOpen, Goto, Copied, Covered, Base
  <2>2. Copying'
    BY <1>4, <2>1, SameStore DEF SetTimeOpen, Copying, Selected, Waiting
  <2>3. QED
    BY <2>1, <2>2 DEF Copied
<1>5. CASE Lose
  <2>1. bPc' = "idle" /\ oplog' = <<>>
    BY <1>5 DEF Lose
  <2>2. \A o \in Originals : Of(Now, o)' = {}
    BY <2>1 DEF Of, Docs, Now
  <2>3. QED
    BY <2>1, <2>2 DEF Copied, Covered
<1>6. QED
  BY <1>2, <1>3, <1>4, <1>5

-----------------------------------------------------------------------------
(* The rest of the invariant, action by action. *)

\* A new entry, while the run and the disk stay as they are.
LEMMA RestLogged ==
  ASSUME BInv, NEW e \in Entries, Now < MaxOps, oplog' = Append(oplog, e),
         UNCHANGED <<disk, mark, bPc, since, ret, left, doc>>,
         undone' = undone \/ (undone' = undone \cup {Now + 1} /\ e.op = "insert" /\ e.at >= since)
  PROVE  /\ oplog' \in Seq(Entries) /\ left' \subseteq 1 .. Len(oplog') /\ doc' \in 0 .. Len(oplog')
         /\ undone' \subseteq 1 .. MaxOps
         /\ left' \subseteq Docs(Now)' /\ undone' \subseteq Docs(Now)' /\ doc' \in Docs(Now)' \cup {0}
         /\ \A j \in (Waiting \cup undone)' : oplog'[j].at >= since'
         /\ Now' <= MaxOps
<1>1. TypeOK /\ Points /\ MaxOps \in Nat
  BY BackupAssumption DEF BInv
<1>2. /\ oplog' \in Seq(Entries) /\ Now \in Nat /\ Now' = Now + 1
      /\ oplog'[Now + 1] = e /\ \A i \in 1 .. Now : oplog'[i] = oplog[i]
      /\ Docs(Now) \subseteq Docs(Now)' /\ (e.op = "insert" => Now + 1 \in Docs(Now)')
  BY <1>1, Logged
<1>3. left' \subseteq 1 .. Now' /\ doc' \in 0 .. Now'
  BY <1>1, <1>2 DEF TypeOK, Now
<1>4. left' \subseteq Docs(Now)' /\ undone' \subseteq Docs(Now)' /\ doc' \in Docs(Now)' \cup {0}
  BY <1>1, <1>2 DEF Points
<1>5. Waiting' = Waiting /\ \A j \in Waiting \cup undone : j \in 1 .. Now /\ oplog[j].at >= since
  BY <1>1, DocsRange DEF Waiting, Points
<1>6. ASSUME NEW j \in (Waiting \cup undone)'
      PROVE  oplog'[j].at >= since'
  <2>1. CASE j \in Waiting \cup undone
    BY <1>2, <1>5, <2>1
  <2>2. CASE j \notin Waiting \cup undone
    <3>1. j = Now + 1 /\ e.at >= since
      BY <1>5, <1>6, <2>2
    <3>2. QED
      BY <1>2, <3>1
  <2>3. QED
    BY <2>1, <2>2
<1>7. Now' <= MaxOps /\ Now + 1 \in 1 .. MaxOps
  BY <1>1, <1>2
<1>8. undone' \subseteq 1 .. MaxOps
  BY <1>1, <1>7 DEF TypeOK
<1>9. QED
  BY <1>2, <1>3, <1>4, <1>6, <1>7, <1>8 DEF Now

\* An insert, whoever makes it.
LEMMA InsertStep ==
  ASSUME BInv, NEW o \in Originals, NEW whole \in BOOLEAN, NEW tagged \in BOOLEAN,
         Insert(o, whole, tagged), UNCHANGED <<disk, mark, bPc, since, ret, left, doc>>
  PROVE  /\ Copied'
         /\ oplog' \in Seq(Entries) /\ left' \subseteq 1 .. Len(oplog') /\ doc' \in 0 .. Len(oplog')
         /\ undone' \subseteq 1 .. MaxOps /\ missed' \subseteq Originals
         /\ left' \subseteq Docs(Now)' /\ undone' \subseteq Docs(Now)' /\ doc' \in Docs(Now)' \cup {0}
         /\ \A j \in (Waiting \cup undone)' : oplog'[j].at >= since'
         /\ Now' <= MaxOps /\ (bPc = "idle" => undone' = undone)
         /\ Now \in Nat /\ oplog'[Now + 1].tagged = tagged
         /\ \A p \in Originals :
              /\ Of(Now, p)' = Of(Now, p) \cup (IF p = o THEN {Now + 1} ELSE {})
              /\ \A d \in Of(Now, p) : d \in 1 .. Now /\ (Restored(d)' <=> Restored(d))
<1>1. TypeOK
  BY DEF BInv
<1>2. PICK e \in Entries :
        /\ e.op = "insert" /\ e.oid = o /\ e.tagged = tagged
        /\ Now < MaxOps /\ oplog' = Append(oplog, e)
        /\ undone' = IF bPc # "idle" /\ e.at >= Base THEN undone \cup {Now + 1} ELSE undone
        /\ missed' = IF e.at < Base THEN missed \cup {o} ELSE missed
  BY <1>1, Inserted
<1>3. /\ oplog' \in Seq(Entries) /\ Now \in Nat /\ Now' = Now + 1
      /\ oplog'[Now + 1] = e /\ \A i \in 1 .. Now : oplog'[i] = oplog[i]
      /\ \A p \in Originals : Of(Now, p)' = Of(Now, p) \cup (IF e.oid = p THEN {Now + 1} ELSE {})
  BY <1>1, <1>2, Logged
<1>4. Copied'
  <2>1. undone \subseteq undone' /\ missed \subseteq missed'
    BY <1>2
  <2>2. (bPc # "idle" /\ e.at >= Base => Now + 1 \in undone') /\ (e.at < Base => e.oid \in missed')
    BY <1>2
  <2>3. QED
    BY <1>2, <2>1, <2>2, CopiedLogged
<1>5. undone' = undone \/ (undone' = undone \cup {Now + 1} /\ e.op = "insert" /\ e.at >= since)
  BY <1>2 DEF Base
<1>6. /\ oplog' \in Seq(Entries) /\ left' \subseteq 1 .. Len(oplog') /\ doc' \in 0 .. Len(oplog')
      /\ undone' \subseteq 1 .. MaxOps
      /\ left' \subseteq Docs(Now)' /\ undone' \subseteq Docs(Now)' /\ doc' \in Docs(Now)' \cup {0}
      /\ \A j \in (Waiting \cup undone)' : oplog'[j].at >= since'
      /\ Now' <= MaxOps
  BY <1>2, <1>5, RestLogged
<1>7. missed' \subseteq Originals
  BY <1>1, <1>2 DEF TypeOK
<1>8. bPc = "idle" => undone' = undone
  BY <1>2
<1>9. oplog'[Now + 1].tagged = tagged
  BY <1>2, <1>3
<1>10. ASSUME NEW p \in Originals
       PROVE  /\ Of(Now, p)' = Of(Now, p) \cup (IF p = o THEN {Now + 1} ELSE {})
              /\ \A d \in Of(Now, p) : d \in 1 .. Now /\ (Restored(d)' <=> Restored(d))
  <2>1. Of(Now, p)' = Of(Now, p) \cup (IF p = o THEN {Now + 1} ELSE {})
    BY <1>2, <1>3
  <2>2. ASSUME NEW d \in Of(Now, p) PROVE d \in 1 .. Now /\ (Restored(d)' <=> Restored(d))
    <3>1. d \in 1 .. Now
      BY DocsRange
    <3>2. oplog'[d] = oplog[d]
      BY <1>3, <3>1
    <3>3. QED
      BY <3>1, <3>2 DEF Restored
  <2>3. QED
    BY <2>1, <2>2
<1>11. QED
  BY <1>3, <1>4, <1>6, <1>7, <1>8, <1>9, <1>10

\* An upload adds a document that no restore has put, whatever the original has already.
LEMMA StoreStep ==
  ASSUME BInv, Store
  PROVE  BInv'
<1>1. PICK o \in Originals : /\ Insert(o, TRUE, FALSE)
                            /\ doubt' = IF o = file THEN doubt \cup {o} ELSE doubt
  BY DEF Store
<1>2. /\ TypeOK /\ Points /\ Once
      /\ UNCHANGED <<disk, mark, bPc, since, ret, left, doc, rPc, visit, file>>
  BY DEF BInv, Store
<1>3. /\ Copied'
      /\ oplog' \in Seq(Entries) /\ left' \subseteq 1 .. Len(oplog') /\ doc' \in 0 .. Len(oplog')
      /\ undone' \subseteq 1 .. MaxOps /\ missed' \subseteq Originals
      /\ left' \subseteq Docs(Now)' /\ undone' \subseteq Docs(Now)' /\ doc' \in Docs(Now)' \cup {0}
      /\ \A j \in (Waiting \cup undone)' : oplog'[j].at >= since'
      /\ Now' <= MaxOps /\ (bPc = "idle" => undone' = undone)
      /\ Now \in Nat /\ ~ oplog'[Now + 1].tagged
      /\ \A p \in Originals :
           /\ Of(Now, p)' = Of(Now, p) \cup (IF p = o THEN {Now + 1} ELSE {})
           /\ \A d \in Of(Now, p) : d \in 1 .. Now /\ (Restored(d)' <=> Restored(d))
  BY <1>1, <1>2, InsertStep
<1>4. TypeOK'
  BY <1>1, <1>2, <1>3 DEF TypeOK
<1>5. Points'
  BY <1>2, <1>3 DEF Points
<1>6. ASSUME NEW p \in Originals \ doubt'
      PROVE  /\ \A r, d \in Of(Now, p)' : d < r => ~ Restored(r)'
             /\ file' = p => Of(Now, p)' = {}
  <2>1. p \in Originals \ doubt /\ (p = o => file # p)
    BY <1>1, <1>6
  <2>2. ASSUME NEW r \in Of(Now, p)', NEW d \in Of(Now, p)', d < r PROVE ~ Restored(r)'
    <3>1. CASE r = Now + 1 /\ p = o
      BY <1>3, <3>1 DEF Restored
    <3>2. CASE ~ (r = Now + 1 /\ p = o)
      <4>1. r \in Of(Now, p) /\ r \in 1 .. Now
        BY <1>3, <2>2, <3>2
      <4>2. d \in Of(Now, p)
        BY <1>3, <2>2, <4>1
      <4>3. ~ Restored(r)
        BY <1>2, <2>1, <2>2, <4>1, <4>2 DEF Once
      <4>4. QED
        BY <1>3, <4>1, <4>3
    <3>3. QED
      BY <3>1, <3>2
  <2>3. ASSUME file' = p PROVE Of(Now, p)' = {}
    <3>1. file = p /\ p # o
      BY <1>2, <2>1, <2>3
    <3>2. Of(Now, p) = {}
      BY <1>2, <2>1, <3>1 DEF Once
    <3>3. QED
      BY <1>3, <3>1, <3>2
  <2>4. QED
    BY <2>2, <2>3
<1>7. Once'
  BY <1>6 DEF Once
<1>8. QED
  BY <1>3, <1>4, <1>5, <1>7 DEF BInv

LEMMA TagStep ==
  ASSUME BInv, Tag
  PROVE  BInv'
<1>1. TypeOK /\ Points /\ Once /\ UNCHANGED <<disk, backup, restore>>
  BY DEF BInv, Tag
<1>2. PICK i \in Docs(Now) : Log([oplog[i] EXCEPT !.op = "tag", !.tagged = TRUE])
  BY Zenon DEF Tag
<1>3. PICK e \in Entries : e.op = "tag" /\ Now < MaxOps /\ oplog' = Append(oplog, e)
  <2> DEFINE new == [oplog[i] EXCEPT !.op = "tag", !.tagged = TRUE]
  <2>1. oplog[i] \in Entries
    BY <1>1, DocsRange, EntryTypes
  <2>2. new \in Entries /\ new.op = "tag"
    BY <2>1 DEF Entries
  <2>3. QED
    BY <1>2, <2>2 DEF Log
<1>4. Copied'
  BY <1>1, <1>3, CopiedLogged DEF backup
<1>5. /\ oplog' \in Seq(Entries) /\ left' \subseteq 1 .. Len(oplog') /\ doc' \in 0 .. Len(oplog')
      /\ undone' \subseteq 1 .. MaxOps
      /\ left' \subseteq Docs(Now)' /\ undone' \subseteq Docs(Now)' /\ doc' \in Docs(Now)' \cup {0}
      /\ \A j \in (Waiting \cup undone)' : oplog'[j].at >= since'
      /\ Now' <= MaxOps
  BY <1>1, <1>3, RestLogged DEF backup
<1>6. TypeOK'
  BY <1>1, <1>3, <1>5 DEF TypeOK, backup, restore
<1>7. Points'
  BY <1>1, <1>5 DEF Points, backup, restore
<1>8. /\ \A i_1 \in 1 .. Now : oplog'[i_1] = oplog[i_1]
      /\ \A p \in Originals : Of(Now, p)' = Of(Now, p)
  <2>1. e.op # "insert"
    BY <1>3
  <2>2. /\ \A i_1 \in 1 .. Now : oplog'[i_1] = oplog[i_1]
        /\ \A p \in Originals :
             Of(Now, p)' = Of(Now, p) \cup (IF e.op = "insert" /\ e.oid = p THEN {Now + 1} ELSE {})
    BY <1>1, <1>3, Logged
  <2>3. QED
    BY <2>1, <2>2
<1>9. Once'
  <2>1. \A p \in Originals : \A r \in Of(Now, p) : Restored(r)' <=> Restored(r)
    BY <1>8, DocsRange DEF Restored
  <2>2. QED
    BY <1>1, <1>8, <2>1 DEF Once, restore
<1>10. QED
  BY <1>4, <1>6, <1>7, <1>9 DEF BInv

\* The oid that was looked up has a document now, its first or one in doubt, or the put has failed.
LEMMA RestorePutStep ==
  ASSUME BInv, RestorePut
  PROVE  BInv'
<1>1. /\ TypeOK /\ Points /\ Once
      /\ UNCHANGED <<disk, mark, bPc, since, ret, left, doc, visit, doubt>>
      /\ rPc = "put" /\ rPc' = "loop" /\ file' = None /\ file \in Originals
      /\ None \notin Originals
  BY BackupAssumption DEF BInv, RestorePut, Points, TypeOK
<1>2. CASE UNCHANGED <<oplog, undone, missed>>
  <2>1. Copied'
    BY <1>1, <1>2, CopiedStays DEF BInv
  <2>2. TypeOK'
    BY <1>1, <1>2 DEF TypeOK
  <2>3. Points'
    BY <1>1, <1>2, SameStore DEF Points, Waiting
  <2>4. Once'
    BY <1>1, <1>2, SameStore DEF Once, Restored
  <2>5. QED
    BY <2>1, <2>2, <2>3, <2>4 DEF BInv
<1>3. CASE Insert(file, disk[file] = "whole", TRUE)
  <2>1. (disk[file] = "whole") \in BOOLEAN
    OBVIOUS
  <2>2. /\ Copied'
        /\ oplog' \in Seq(Entries) /\ left' \subseteq 1 .. Len(oplog') /\ doc' \in 0 .. Len(oplog')
        /\ undone' \subseteq 1 .. MaxOps /\ missed' \subseteq Originals
        /\ left' \subseteq Docs(Now)' /\ undone' \subseteq Docs(Now)' /\ doc' \in Docs(Now)' \cup {0}
        /\ \A j \in (Waiting \cup undone)' : oplog'[j].at >= since'
        /\ Now' <= MaxOps /\ (bPc = "idle" => undone' = undone)
        /\ Now \in Nat
        /\ \A p \in Originals :
             /\ Of(Now, p)' = Of(Now, p) \cup (IF p = file THEN {Now + 1} ELSE {})
             /\ \A d \in Of(Now, p) : d \in 1 .. Now /\ (Restored(d)' <=> Restored(d))
    BY <1>1, <1>3, <2>1, InsertStep
  <2>3. TypeOK'
    BY <1>1, <2>2 DEF TypeOK
  <2>4. Points'
    BY <1>1, <2>2 DEF Points
  <2>5. ASSUME NEW p \in Originals \ doubt'
        PROVE  /\ \A r, d \in Of(Now, p)' : d < r => ~ Restored(r)'
               /\ file' = p => Of(Now, p)' = {}
    <3>1. p \in Originals \ doubt /\ file' # p
      BY <1>1, <2>5
    <3>2. CASE p = file
      <4>1. Of(Now, p)' = {Now + 1}
        BY <1>1, <2>2, <3>1, <3>2 DEF Once
      <4>2. QED
        BY <2>2, <3>1, <4>1
    <3>3. CASE p # file
      <4>1. Of(Now, p)' = Of(Now, p)
        BY <2>2, <3>1, <3>3
      <4>2. \A r, d \in Of(Now, p) : d < r => ~ Restored(r)'
        BY <1>1, <2>2, <3>1 DEF Once
      <4>3. QED
        BY <3>1, <4>1, <4>2
    <3>4. QED
      BY <3>2, <3>3
  <2>6. Once'
    BY <2>5 DEF Once
  <2>7. QED
    BY <2>2, <2>3, <2>4, <2>6 DEF BInv
<1>4. QED
  BY <1>2, <1>3 DEF RestorePut

LEMMA RestoreStep ==
  ASSUME BInv, RestoreStart \/ RestoreFind \/ RestoreEnds
  PROVE  BInv'
<1>1. TypeOK /\ Points /\ Once /\ UNCHANGED <<oplog, disk, backup>>
  BY DEF BInv, RestoreStart, RestoreFind, RestoreEnds
<1>2. UNCHANGED <<mark, bPc, since, ret, left, doc, undone, missed>>
  BY <1>1 DEF backup
<1>3. Copied'
  BY <1>1, <1>2, CopiedStays DEF BInv
<1>4. Waiting' = Waiting
  BY <1>2 DEF Waiting
<1>5. None \notin Originals /\ \A r : Restored(r)' <=> Restored(r)
  BY <1>1, BackupAssumption DEF Restored
<1>6. CASE RestoreStart
  <2>1. rPc' = "loop" /\ visit' \subseteq Originals /\ UNCHANGED <<file, doubt>>
        /\ bPc = "idle" /\ rPc = "idle"
    BY <1>6 DEF RestoreStart
  <2>2. TypeOK' /\ Once'
    BY <1>1, <1>2, <1>5, <2>1, SameStore DEF TypeOK, Once
  <2>3. Points'
    BY <1>1, <1>2, <1>4, <2>1, SameStore DEF Points
  <2>4. QED
    BY <1>3, <2>2, <2>3 DEF BInv
<1>7. CASE RestoreEnds
  <2>1. rPc' = "idle" /\ visit' = {} /\ file' = None /\ doubt' = doubt
    BY <1>7 DEF RestoreEnds
  <2>2. TypeOK' /\ Once'
    BY <1>1, <1>2, <1>5, <2>1, SameStore DEF TypeOK, Once
  <2>3. Points'
    BY <1>1, <1>2, <1>4, <2>1, SameStore DEF Points
  <2>4. QED
    BY <1>3, <2>2, <2>3 DEF BInv
<1>8. CASE RestoreFind
  <2>1. rPc = "loop"
    BY <1>8 DEF RestoreFind
  <2>2. PICK o \in visit, n \in 0 .. Now :
          /\ visit' = visit \ {o}
          /\ IF Tagged(n) \cap Of(n, o) # {}
             THEN UNCHANGED <<rPc, file, doubt>>
             ELSE /\ rPc' = "put" /\ file' = o
                  /\ doubt' = IF Of(Now, o) = {} THEN doubt ELSE doubt \cup {o}
    BY <1>8, Zenon DEF RestoreFind
  <2>3. o \in Originals
    BY <1>1, <2>2 DEF TypeOK
  <2>4. CASE UNCHANGED <<rPc, file, doubt>>
    <3>1. TypeOK' /\ Once'
      BY <1>1, <1>2, <1>5, <2>2, <2>4, SameStore DEF TypeOK, Once
    <3>2. Points'
      BY <1>1, <1>2, <1>4, <2>4, SameStore DEF Points
    <3>3. QED
      BY <1>3, <3>1, <3>2 DEF BInv
  <2>5. CASE /\ rPc' = "put" /\ file' = o
             /\ doubt' = IF Of(Now, o) = {} THEN doubt ELSE doubt \cup {o}
    <3>1. bPc = "idle" /\ o # None
      BY <1>1, <1>5, <2>1, <2>3 DEF Points
    <3>2. TypeOK'
      BY <1>1, <1>2, <2>2, <2>3, <2>5, SameStore DEF TypeOK
    <3>3. Points'
      BY <1>1, <1>2, <1>4, <2>5, <3>1, SameStore DEF Points
    <3>4. \A p \in Originals \ doubt' : p \notin doubt /\ (file' = p => Of(Now, p) = {})
      BY <2>5
    <3>5. Once'
      BY <1>1, <1>5, <3>4, SameStore DEF Once
    <3>6. QED
      BY <1>3, <3>2, <3>3, <3>5 DEF BInv
  <2>6. QED
    BY <2>2, <2>4, <2>5
<1>9. QED
  BY <1>6, <1>7, <1>8

\* What a step of the run has to show: the store and the restore stay as they are.
LEMMA RunKeeps ==
  ASSUME BInv, UNCHANGED <<oplog, rPc, visit, file, doubt>>
  PROVE  /\ Now' = Now /\ Docs(Now)' = Docs(Now) /\ Once'
         /\ oplog' \in Seq(Entries) /\ rPc' \in {"idle", "loop", "put"}
         /\ visit' \subseteq Originals /\ doubt' \subseteq Originals /\ file' \in Originals \cup {None}
         /\ (rPc' = "put" <=> file' # None) /\ Now' <= MaxOps
<1>1. Now' = Now /\ Docs(Now)' = Docs(Now) /\ \A o \in Originals : Of(Now, o)' = Of(Now, o)
  BY SameStore
<1>2. Once'
  BY <1>1 DEF BInv, Once, Restored
<1>3. QED
  BY <1>1, <1>2 DEF BInv, TypeOK, Points

\* The steps of a run that only move it, its watermark or what it has left.
LEMMA RunStep ==
  ASSUME BInv, Start \/ CopyDone \/ SetTimeOpen \/ SetTimeWrite \/ Crash
  PROVE  BInv'
<1>1. TypeOK /\ Points /\ UNCHANGED <<oplog, disk, rPc, visit, file, doubt>>
  BY DEF BInv, Start, CopyDone, SetTimeOpen, SetTimeWrite, Crash, restore
<1>2. /\ Now' = Now /\ Docs(Now)' = Docs(Now) /\ Once'
      /\ oplog' \in Seq(Entries) /\ rPc' \in {"idle", "loop", "put"}
      /\ visit' \subseteq Originals /\ doubt' \subseteq Originals /\ file' \in Originals \cup {None}
      /\ (rPc' = "put" <=> file' # None) /\ Now' <= MaxOps
  BY <1>1, RunKeeps
<1>3. MaxDate \in Nat /\ Docs(Now) \subseteq 1 .. Now /\ 1 .. Now \subseteq 1 .. MaxOps
  <2>1. Now \in Nat /\ MaxOps \in Nat /\ Docs(Now) \subseteq 1 .. Now /\ Now <= MaxOps
    BY <1>1, RunFacts, BackupAssumption DEF Points
  <2>2. QED
    BY <2>1, BackupAssumption
<1>4. CASE Start
  <2>1. /\ since' = mark /\ ret' = mark /\ mark' = mark /\ bPc = "idle" /\ rPc = "idle" /\ bPc' = "query"
        /\ UNCHANGED <<left, doc, missed>> /\ left = {} /\ doc = 0
        /\ undone' = {i \in Docs(Now) : oplog[i].at >= mark}
    BY <1>1, <1>4 DEF Start, Goto, Points
  <2>2. undone' \subseteq Docs(Now)
    BY <2>1
  <2>3. TypeOK'
    BY <1>1, <1>2, <1>3, <2>1, <2>2 DEF TypeOK
  <2>4. Points'
    <3>1. \A j \in (Waiting \cup undone)' : oplog'[j].at >= since'
      BY <1>1, <2>1 DEF Waiting
    <3>2. QED
      BY <1>1, <1>2, <2>1, <2>2, <3>1 DEF Points
  <2>5. QED
    BY <1>2, <1>4, <2>3, <2>4, CopiedElse DEF BInv
<1>5. CASE CopyDone
  <2>1. /\ UNCHANGED <<mark, since, ret, left, doc, undone, missed>> /\ bPc = "loop" /\ bPc' = "end"
        /\ left = {}
    BY <1>5 DEF CopyDone, Goto
  <2>2. TypeOK'
    BY <1>1, <1>2, <2>1 DEF TypeOK, Now
  <2>3. Points'
    BY <1>1, <1>2, <2>1 DEF Points, Waiting
  <2>4. QED
    BY <1>2, <1>5, <2>2, <2>3, CopiedElse DEF BInv
<1>6. CASE SetTimeOpen
  <2>1. /\ UNCHANGED <<since, ret, left, doc, undone, missed>> /\ bPc = "end" /\ bPc' = "truncated"
        /\ mark' = 0
    BY <1>6 DEF SetTimeOpen, Goto
  <2>2. TypeOK'
    BY <1>1, <1>2, <1>3, <2>1 DEF TypeOK, Now
  <2>3. Points'
    BY <1>1, <1>2, <2>1 DEF Points, Waiting
  <2>4. QED
    BY <1>2, <1>6, <2>2, <2>3, CopiedElse DEF BInv
<1>7. CASE SetTimeWrite
  <2>1. /\ UNCHANGED <<left, doc>> /\ bPc = "truncated" /\ bPc' = "idle" /\ left = {} /\ doc = 0
        /\ mark' = ret /\ since' = 0 /\ ret' = 0 /\ undone' = {}
        /\ missed' = missed \cup {oplog[i].oid : i \in {j \in undone : oplog[j].at < ret}}
    BY <1>1, <1>7 DEF SetTimeWrite, Goto, Points
  <2>2. missed' \subseteq Originals
    BY <1>1, <2>1, RunFacts DEF TypeOK
  <2>3. TypeOK'
    BY <1>1, <1>2, <1>3, <2>1, <2>2 DEF TypeOK
  <2>4. Points'
    BY <1>1, <1>2, <2>1 DEF Points, Waiting
  <2>5. QED
    BY <1>2, <1>7, <2>3, <2>4, CopiedMarked DEF BInv
<1>8. CASE Crash
  <2>1. /\ UNCHANGED <<mark, missed>> /\ bPc # "idle" /\ bPc' = "idle" /\ rPc = "idle"
        /\ left' = {} /\ doc' = 0 /\ undone' = {} /\ since' = 0 /\ ret' = 0
    BY <1>1, <1>8 DEF Crash, Goto, Points
  <2>2. TypeOK'
    BY <1>1, <1>2, <1>3, <2>1 DEF TypeOK
  <2>3. Points'
    BY <1>1, <1>2, <2>1 DEF Points, Waiting
  <2>4. QED
    BY <1>2, <1>8, <2>2, <2>3, CopiedCrash DEF BInv
<1>9. QED
  BY <1>4, <1>5, <1>6, <1>7, <1>8

\* A document of the first n entries is a document.
LEMMA TaggedDocs ==
  ASSUME NEW n \in 0 .. Now, Now \in Nat
  PROVE  Tagged(n) \subseteq Docs(Now)
  BY DEF Tagged, Docs

LEMMA QueryStep ==
  ASSUME BInv, Query \/ NextBatch
  PROVE  BInv'
<1>1. /\ TypeOK /\ Points
      /\ UNCHANGED <<oplog, disk, rPc, visit, file, doubt, mark, since, ret, doc, missed>>
      /\ bPc \in {"query", "loop"} /\ bPc' = "loop" /\ rPc = "idle" /\ doc = 0
  BY DEF BInv, Query, NextBatch, restore, Goto, Points
<1>2. /\ Now' = Now /\ Docs(Now)' = Docs(Now) /\ Once'
      /\ oplog' \in Seq(Entries) /\ rPc' \in {"idle", "loop", "put"}
      /\ visit' \subseteq Originals /\ doubt' \subseteq Originals /\ file' \in Originals \cup {None}
      /\ (rPc' = "put" <=> file' # None) /\ Now' <= MaxOps
  BY <1>1, RunKeeps
<1>3. Now \in Nat /\ Docs(Now) \subseteq 1 .. Now
  BY RunFacts
<1>4. /\ undone' \subseteq undone
      /\ \A i \in left' : i \in left \/ (i \in Docs(Now) /\ oplog[i].at >= since)
  <2>1. CASE Query
    <3>1. PICK n \in 0 .. Now : /\ left' = {i \in Tagged(n) : Matches(i)}
                               /\ undone' = undone \ Tagged(n)
      BY <2>1 DEF Query
    <3>2. Tagged(n) \subseteq Docs(Now)
      BY <1>3, TaggedDocs
    <3>3. QED
      BY <3>1, <3>2 DEF Matches
  <2>2. CASE NextBatch
    <3>1. PICK i \in Tagged(Now) : Matches(i) /\ left' = left \cup {i} /\ undone' = undone \ {i}
      BY <2>2 DEF NextBatch
    <3>2. i \in Docs(Now)
      BY <1>3, <3>1, TaggedDocs
    <3>3. QED
      BY <3>1, <3>2 DEF Matches
  <2>3. QED
    BY <2>1, <2>2
<1>5. left' \subseteq Docs(Now) /\ undone' \subseteq Docs(Now)
  BY <1>1, <1>4 DEF Points
<1>6. \A j \in (Waiting \cup undone)' : oplog'[j].at >= since'
  <2>1. Waiting' = left'
    BY <1>1 DEF Waiting
  <2>2. \A j \in left \cup undone : oplog[j].at >= since
    BY <1>1 DEF Points, Waiting
  <2>3. QED
    BY <1>1, <1>4, <2>1, <2>2
<1>7. TypeOK'
  <2>1. left' \subseteq 1 .. Len(oplog') /\ doc' \in 0 .. Len(oplog') /\ undone' \subseteq 1 .. MaxOps
    BY <1>1, <1>2, <1>3, <1>4, <1>5 DEF TypeOK, Now
  <2>2. QED
    BY <1>1, <1>2, <2>1 DEF TypeOK
<1>8. Points'
  BY <1>1, <1>2, <1>5, <1>6 DEF Points
<1>9. QED
  BY <1>2, <1>7, <1>8, CopiedQuery, CopiedBatch DEF BInv

\* The later of two dates.
LEMMA LaterDate ==
  ASSUME BInv, NEW i \in left
  PROVE  Later(oplog[i].at) \in 0 .. MaxDate
<1>1. i \in 1 .. Now /\ ret \in 0 .. MaxDate
  BY RunFacts DEF BInv, TypeOK
<1>2. oplog[i].at \in Nat /\ oplog[i].at <= MaxDate /\ MaxDate \in Nat
  BY <1>1, RunFacts, BackupAssumption
<1>3. oplog[i].at \in 0 .. MaxDate
  BY <1>2
<1>4. QED
  BY <1>1, <1>3 DEF Later

LEMMA OpenStep ==
  ASSUME BInv, CopyOpen
  PROVE  BInv'
<1>1. /\ TypeOK /\ Points
      /\ UNCHANGED <<oplog, rPc, visit, file, doubt, mark, since, undone, missed>>
      /\ bPc = "loop" /\ bPc' = "write" /\ rPc = "idle" /\ doc = 0
  BY DEF BInv, CopyOpen, restore, Goto, Points
<1>2. /\ Now' = Now /\ Docs(Now)' = Docs(Now) /\ Once'
      /\ oplog' \in Seq(Entries) /\ rPc' \in {"idle", "loop", "put"}
      /\ visit' \subseteq Originals /\ doubt' \subseteq Originals /\ file' \in Originals \cup {None}
      /\ (rPc' = "put" <=> file' # None) /\ Now' <= MaxOps
  BY <1>1, RunKeeps
<1>3. PICK i \in left : /\ ret' = Later(oplog[i].at)
                       /\ disk' = [disk EXCEPT ![oplog[i].oid] = "torn"]
                       /\ doc' = i /\ left' = left \ {i}
  BY DEF CopyOpen
<1>4. i \in Docs(Now) /\ i \in 1 .. Now /\ i # 0 /\ Now \in Nat /\ ret' \in 0 .. MaxDate
  BY <1>3, RunFacts, LaterDate
<1>5. disk' \in [Originals -> {"none", "torn", "whole"}]
  BY <1>1, <1>3 DEF TypeOK
<1>6. TypeOK'
  <2>1. left' \subseteq 1 .. Len(oplog') /\ doc' \in 0 .. Len(oplog')
    BY <1>1, <1>3, <1>4 DEF TypeOK, Now
  <2>2. since' \in 0 .. MaxDate /\ mark' \in 0 .. MaxDate /\ missed' \subseteq Originals
        /\ undone' \subseteq 1 .. MaxOps /\ bPc' \in {"idle", "query", "loop", "write", "end", "truncated"}
    BY <1>1 DEF TypeOK
  <2>3. QED
    BY <1>2, <1>4, <1>5, <2>1, <2>2 DEF TypeOK
<1>7. Points'
  <2>1. Waiting' \subseteq Waiting
    BY <1>3 DEF Waiting
  <2>2. \A j \in (Waiting \cup undone)' : oplog'[j].at >= since'
    BY <1>1, <2>1 DEF Points
  <2>3. left' \subseteq Docs(Now)' /\ undone' \subseteq Docs(Now)' /\ doc' \in Docs(Now)' /\ doc' # 0
    BY <1>1, <1>2, <1>3, <1>4 DEF Points
  <2>4. QED
    BY <1>1, <1>2, <2>2, <2>3 DEF Points
<1>8. QED
  BY <1>2, <1>6, <1>7, CopiedOpen DEF BInv

LEMMA WriteStep ==
  ASSUME BInv, CopyWrite
  PROVE  BInv'
<1>1. /\ TypeOK /\ Points
      /\ UNCHANGED <<oplog, rPc, visit, file, doubt, mark, since, ret, left, undone, missed>>
      /\ bPc = "write" /\ bPc' = "loop" /\ rPc = "idle" /\ doc' = 0
      /\ disk' = [disk EXCEPT ![oplog[doc].oid] = IF oplog[doc].whole THEN "whole" ELSE "torn"]
  BY DEF BInv, CopyWrite, restore, Goto, Points
<1>2. /\ Now' = Now /\ Docs(Now)' = Docs(Now) /\ Once'
      /\ oplog' \in Seq(Entries) /\ rPc' \in {"idle", "loop", "put"}
      /\ visit' \subseteq Originals /\ doubt' \subseteq Originals /\ file' \in Originals \cup {None}
      /\ (rPc' = "put" <=> file' # None) /\ Now' <= MaxOps
  BY <1>1, RunKeeps
<1>3. disk' \in [Originals -> {"none", "torn", "whole"}]
  BY <1>1 DEF TypeOK
<1>4. TypeOK'
  <2>1. doc' \in 0 .. Len(oplog')
    BY <1>1, RunFacts DEF Now
  <2>2. QED
    BY <1>1, <1>2, <1>3, <2>1 DEF TypeOK
<1>5. Points'
  <2>1. Waiting' \subseteq Waiting
    BY <1>1 DEF Waiting
  <2>2. \A j \in (Waiting \cup undone)' : oplog'[j].at >= since'
    BY <1>1, <2>1 DEF Points
  <2>3. QED
    BY <1>1, <1>2, <2>2 DEF Points
<1>6. QED
  BY <1>2, <1>4, <1>5, CopiedWrite DEF BInv

LEMMA FailsStep ==
  ASSUME BInv, CopyFails
  PROVE  BInv'
<1>1. /\ TypeOK /\ Points
      /\ UNCHANGED <<oplog, disk, rPc, visit, file, doubt, mark, since, missed>>
      /\ bPc \in {"query", "loop", "write"} /\ bPc' = "end" /\ rPc = "idle" /\ doc' = 0 /\ left' = {}
      /\ undone' = undone \cup Waiting
  BY DEF BInv, CopyFails, restore, Goto, Points, Waiting
<1>2. /\ Now' = Now /\ Docs(Now)' = Docs(Now) /\ Once'
      /\ oplog' \in Seq(Entries) /\ rPc' \in {"idle", "loop", "put"}
      /\ visit' \subseteq Originals /\ doubt' \subseteq Originals /\ file' \in Originals \cup {None}
      /\ (rPc' = "put" <=> file' # None) /\ Now' <= MaxOps
  BY <1>1, RunKeeps
<1>3. Now \in Nat /\ MaxOps \in Nat /\ Waiting \subseteq Docs(Now) /\ Docs(Now) \subseteq 1 .. Now
  BY <1>1, RunFacts, BackupAssumption DEF Waiting, Points
<1>4. ret' \in 0 .. MaxDate
  <2>1. ret' = ret \/ \E i \in left : ret' = Later(oplog[i].at)
    BY DEF CopyFails
  <2>2. QED
    BY <1>1, <2>1, LaterDate DEF TypeOK
<1>5. undone' \subseteq Docs(Now) /\ 1 .. Now \subseteq 1 .. MaxOps
  BY <1>1, <1>2, <1>3 DEF Points
<1>6. TypeOK'
  <2>1. doc' \in 0 .. Len(oplog') /\ left' \subseteq 1 .. Len(oplog')
    BY <1>1, <1>3 DEF Now
  <2>2. since' \in 0 .. MaxDate /\ mark' \in 0 .. MaxDate /\ missed' \subseteq Originals
        /\ disk' \in [Originals -> {"none", "torn", "whole"}]
    BY <1>1 DEF TypeOK
  <2>3. undone' \subseteq 1 .. MaxOps
    BY <1>3, <1>5
  <2>4. QED
    BY <1>1, <1>2, <1>4, <2>1, <2>2, <2>3 DEF TypeOK
<1>7. Points'
  <2>1. Waiting' = {}
    BY <1>1 DEF Waiting
  <2>2. \A j \in (Waiting \cup undone)' : oplog'[j].at >= since'
    BY <1>1, <2>1 DEF Points
  <2>3. QED
    BY <1>1, <1>2, <1>5, <2>2 DEF Points
<1>8. QED
  BY <1>2, <1>6, <1>7, CopiedFails DEF BInv

LEMMA LoseStep ==
  ASSUME BInv, Lose
  PROVE  BInv'
<1>1. /\ TypeOK /\ Points /\ bPc = "idle" /\ rPc = "idle" /\ oplog' = <<>> /\ missed' = {}
      /\ doubt' = {} /\ UNCHANGED <<disk, mark, bPc, since, ret, left, doc, undone, rPc, visit, file>>
      /\ left = {} /\ doc = 0 /\ undone = {}
  BY DEF BInv, Lose, Points
<1>2. Now' = 0 /\ oplog' \in Seq(Entries) /\ MaxOps \in Nat
  BY <1>1, BackupAssumption DEF Now
<1>3. \A o \in Originals : Of(Now, o)' = {}
  BY <1>2 DEF Of, Docs
<1>4. TypeOK'
  BY <1>1, <1>2 DEF TypeOK, Now
<1>5. Points'
  BY <1>1, <1>2 DEF Points, Waiting
<1>6. Once'
  BY <1>3 DEF Once
<1>7. QED
  BY <1>4, <1>5, <1>6, CopiedElse DEF BInv

LEMMA InitBackup == Init => BInv
<1> SUFFICES ASSUME Init PROVE BInv
  OBVIOUS
<1>1. Now = 0 /\ oplog \in Seq(Entries) /\ MaxOps \in Nat
  BY BackupAssumption DEF Init, Now
<1>2. \A o \in Originals : Of(Now, o) = {}
  BY <1>1 DEF Of, Docs
<1>3. TypeOK
  BY <1>1, BackupAssumption DEF Init, TypeOK, Now
<1>4. Points
  BY <1>1 DEF Init, Points, Waiting
<1>5. Once /\ Copied
  <2>1. Once /\ bPc = "idle"
    BY <1>2 DEF Init, Once
  <2>2. Covered(Base)
    BY <1>2 DEF Covered
  <2>3. QED
    BY <2>1, <2>2 DEF Copied
<1>6. QED
  BY <1>3, <1>4, <1>5 DEF BInv

LEMMA NextBackup == BInv /\ [Next]_vars => BInv'
<1> SUFFICES ASSUME BInv, [Next]_vars PROVE BInv'
  OBVIOUS
<1>1. CASE Store
  BY <1>1, StoreStep
<1>2. CASE Tag
  BY <1>2, TagStep
<1>3. CASE Lose
  BY <1>3, LoseStep
<1>4. CASE Start \/ CopyDone \/ SetTimeOpen \/ SetTimeWrite \/ Crash
  BY <1>4, RunStep
<1>5. CASE Query \/ NextBatch
  BY <1>5, QueryStep
<1>6. CASE CopyOpen
  BY <1>6, OpenStep
<1>7. CASE CopyWrite
  BY <1>7, WriteStep
<1>8. CASE CopyFails
  BY <1>8, FailsStep
<1>9. CASE RestoreStart \/ RestoreFind \/ RestoreEnds
  BY <1>9, RestoreStep
<1>10. CASE RestorePut
  BY <1>10, RestorePutStep
<1>11. CASE UNCHANGED vars
  <2>1. UNCHANGED <<oplog, disk, mark, bPc, since, ret, left, doc, undone, missed, rPc, visit,
                    file, doubt>>
    BY <1>11 DEF vars, backup, restore
  <2>2. Copied'
    BY <2>1, CopiedStays DEF BInv
  <2>3. TypeOK'
    BY <2>1 DEF BInv, TypeOK
  <2>4. Points' /\ Once'
    BY <2>1, SameStore DEF BInv, Points, Once, Waiting, Restored
  <2>5. QED
    BY <2>2, <2>3, <2>4 DEF BInv
<1>12. QED
  BY <1>1, <1>2, <1>3, <1>4, <1>5, <1>6, <1>7, <1>8, <1>9, <1>10, <1>11 DEF Next

\* back_image.py and file_to_mongo.py: between two runs, what is older than the watermark has a
\* whole copy on disk, or came dated behind the watermark, or was out of sight of a run or left out
\* by it, whatever the store, the lag of the member that was read, the batches, the exceptions and
\* the crashes were; and a restore adds to what is there only if its lookup could not see it.
THEOREM BackupRecoverable == Spec => []Recoverable
<1>1. BInv => Recoverable
  <2> SUFFICES ASSUME BInv PROVE Recoverable
    OBVIOUS
  <2>1. BackedUp
    <3>1. bPc = "idle" => Covered(mark)
      BY DEF BInv, Copied, Base
    <3>2. QED
      BY <3>1 DEF Covered, BackedUp
  <2>2. RestoredOnce
    BY DEF BInv, Once, RestoredOnce
  <2>3. QED
    BY <2>1, <2>2 DEF BInv, Recoverable
<1>2. QED
  BY <1>1, InitBackup, NextBackup, PTL DEF Spec

-----------------------------------------------------------------------------
(* HttpRequest, HttpResponse and HttpExchange *)

(* Induction over the natural numbers, as the least element of a set. *)

\* The order of the natural numbers is well founded.
LEMMA SomeOrder ==
  \E R : IsWellFoundedOn(R, Nat) /\ \A m, n \in Nat : m < n => <<m, n>> \in R
  <1> DEFINE R == OpToRel(<, Nat)
  <1>1. \A m, n \in Nat : m < n => <<m, n>> \in R
    BY DEF OpToRel
  <1>2. IsWellFoundedOn(R, Nat)
    BY NatLessThanWellFounded
  <1> QED
    BY <1>1, <1>2

\* A set of natural numbers that is not empty has a least element.
LEMMA LeastElement ==
  ASSUME NEW S, S \subseteq Nat, S # {}
  PROVE  \E n \in S : \A m \in S : n <= m
  <1>1. PICK R : IsWellFoundedOn(R, Nat) /\ \A m, n \in Nat : m < n => <<m, n>> \in R
    BY SomeOrder
  <1>2. IsWellFoundedOn(R, Nat)
    BY <1>1
  <1>3. \E n \in S : \A m \in S : ~ (<<m, n>> \in R)
    BY <1>2, WFMin, Zenon
  <1>4. PICK n \in S : \A m \in S : ~ (<<m, n>> \in R)
    BY <1>3
  <1>5. ASSUME NEW m \in S PROVE n <= m
    <2>1. m \in Nat /\ n \in Nat
      OBVIOUS
    <2>2. ~ (m < n)
      BY <2>1, <1>1, <1>4
    <2> QED
      BY <2>1, <2>2
  <1> QED
    BY <1>5

\* A set with 0 and with the successor of each of its elements has all numbers up to n.
LEMMA UpTo ==
  ASSUME NEW n \in Nat, NEW S, 0 \in S, \A k \in 0 .. n - 1 : k \in S => k + 1 \in S
  PROVE  0 .. n \subseteq S
  <1> DEFINE Missing == {k \in 0 .. n : k \notin S}
  <1>1. SUFFICES ASSUME Missing # {} PROVE FALSE
    OBVIOUS
  <1>2. PICK k \in Missing : \A m \in Missing : k <= m
    <2>1. Missing \subseteq Nat
      OBVIOUS
    <2> HIDE DEF Missing
    <2> QED
      BY <1>1, <2>1, LeastElement
  <1>3. k # 0 /\ k \in 0 .. n
    OBVIOUS
  <1>4. k - 1 \in 0 .. n - 1 /\ k - 1 + 1 = k
    BY <1>3
  <1>5. k - 1 \in S
    <2>1. k - 1 \notin Missing
      BY <1>2, <1>4
    <2> QED
      BY <2>1, <1>4
  <1> QED
    BY <1>4, <1>5

-----------------------------------------------------------------------------
(* FlattenSeq: the texts of a sequence, one after the other. *)

\* What a partial result of FlattenSeq is.
Flattens(f, s, n) ==
  f = [i \in 1 .. n |-> IF i = 1 THEN s[i] ELSE f[i - 1] \o s[i]]

\* The flattening of a sequence of texts is its last partial one.
LEMMA FlattenExists ==
  ASSUME NEW T, NEW s \in Seq(Seq(T))
  PROVE  \E f : Flattens(f, s, Len(s))
  <1> DEFINE Done == {k \in Nat : \E f : Flattens(f, s, k)}
  <1>1. 0 \in Done
    <2>1. Flattens([i \in 1 .. 0 |-> <<>>], s, 0)
      BY DEF Flattens
    <2> QED
      BY <2>1
  <1>2. ASSUME NEW k \in 0 .. Len(s) - 1, k \in Done PROVE k + 1 \in Done
    <2>1. PICK f : Flattens(f, s, k)
      BY <1>2
    <2> DEFINE g == [i \in 1 .. k + 1 |->
          IF i = k + 1 THEN (IF i = 1 THEN s[i] ELSE f[k] \o s[i]) ELSE f[i]]
    <2>2. \A i \in 1 .. k : g[i] = f[i]
      OBVIOUS
    <2>3. \A i \in 1 .. k + 1 : g[i] = IF i = 1 THEN s[i] ELSE g[i - 1] \o s[i]
      <3>1. TAKE i \in 1 .. k + 1
      <3>2. CASE i = k + 1
        <4>1. i # 1 => i - 1 = k /\ k \in 1 .. k
          BY <3>2
        <4> QED
          BY <2>2, <3>2, <4>1
      <3>3. CASE i # k + 1
        <4>1. i \in 1 .. k /\ (i # 1 => i - 1 \in 1 .. k)
          BY <3>3
        <4>2. f[i] = IF i = 1 THEN s[i] ELSE f[i - 1] \o s[i]
          BY <2>1, <4>1 DEF Flattens
        <4>3. g[i] = f[i] /\ (i # 1 => g[i - 1] = f[i - 1])
          BY <2>2, <4>1
        <4> HIDE DEF g
        <4> QED
          BY <4>2, <4>3
      <3> QED
        BY <3>2, <3>3
    <2>4. g = [i \in 1 .. k + 1 |-> g[i]]
      OBVIOUS
    <2>5. Flattens(g, s, k + 1)
      <3> HIDE DEF g
      <3> QED
        BY <2>3, <2>4 DEF Flattens
    <2>6. k + 1 \in Nat
      OBVIOUS
    <2> HIDE DEF g
    <2> QED
      BY <2>5, <2>6
  <1>3. 0 .. Len(s) \subseteq Done
    <2>1. Len(s) \in Nat
      OBVIOUS
    <2> HIDE DEF Done
    <2> QED
      BY <1>1, <1>2, <2>1, UpTo
  <1>4. Len(s) \in Done
    <2>1. Len(s) \in 0 .. Len(s)
      OBVIOUS
    <2> QED
      BY <1>3, <2>1
  <1> QED
    BY <1>4

\* What holds of no text, and of any text with one more, holds of all of them.
LEMMA FlattenInduction ==
  ASSUME NEW T, NEW s \in Seq(Seq(T)), NEW G,
         <<0, <<>>>> \in G,
         \A k \in 0 .. Len(s) - 1, t \in Seq(T) :
           <<k, t>> \in G => <<k + 1, t \o s[k + 1]>> \in G
  PROVE  FlattenSeq(s) \in Seq(T) /\ <<Len(s), FlattenSeq(s)>> \in G
  <1>1. CASE Len(s) = 0
    BY <1>1 DEF FlattenSeq
  <1>2. CASE Len(s) # 0
    <2>1. Flattens(CHOOSE f : Flattens(f, s, Len(s)), s, Len(s))
      BY FlattenExists
    <2>2. FlattenSeq(s) = (CHOOSE f : Flattens(f, s, Len(s)))[Len(s)]
      BY <1>2 DEF FlattenSeq, Flattens
    <2>3. PICK c : Flattens(c, s, Len(s)) /\ FlattenSeq(s) = c[Len(s)]
      BY <2>1, <2>2
    <2>4. \A i \in 1 .. Len(s) : c[i] = IF i = 1 THEN s[i] ELSE c[i - 1] \o s[i]
      BY <2>3 DEF Flattens
    <2> DEFINE Done == {k \in Nat : k = 0 \/ (c[k] \in Seq(T) /\ <<k, c[k]>> \in G)}
    <2>5. ASSUME NEW k \in 0 .. Len(s) - 1, k \in Done PROVE k + 1 \in Done
      <3>1. k + 1 \in Nat
        OBVIOUS
      <3>2. k + 1 \in 1 .. Len(s) /\ s[k + 1] \in Seq(T)
        OBVIOUS
      <3>3. c[k + 1] = IF k = 0 THEN s[k + 1] ELSE c[k] \o s[k + 1]
        BY <2>4, <3>2
      <3>4. CASE k = 0
        <4>1. <<>> \in Seq(T) /\ <<>> \o s[k + 1] = s[k + 1]
          BY <3>2
        <4>2. <<k + 1, <<>> \o s[k + 1]>> \in G
          BY <3>4, <4>1
        <4>3. c[k + 1] = s[k + 1] /\ <<>> \o s[k + 1] = s[k + 1]
          BY <3>3, <3>4, <4>1
        <4> QED
          BY <3>1, <3>2, <4>2, <4>3
      <3>5. CASE k # 0
        <4>1. c[k] \in Seq(T) /\ <<k, c[k]>> \in G
          BY <2>5, <3>5
        <4>2. <<k + 1, c[k] \o s[k + 1]>> \in G
          BY <4>1
        <4>3. c[k] \o s[k + 1] \in Seq(T)
          BY <3>2, <4>1
        <4>4. c[k + 1] = c[k] \o s[k + 1]
          BY <3>3, <3>5
        <4> QED
          BY <3>1, <4>2, <4>3, <4>4
      <3> QED
        BY <3>4, <3>5
    <2>6. 0 .. Len(s) \subseteq Done
      <3>1. 0 \in Done /\ Len(s) \in Nat
        OBVIOUS
      <3> HIDE DEF Done
      <3> QED
        BY <2>5, <3>1, UpTo
    <2>7. Len(s) \in Done
      BY <2>6
    <2> QED
      BY <1>2, <2>3, <2>7
  <1> QED
    BY <1>1, <1>2

\* What texts are made of.  The strings of the code are strings, which the provers are
\* not told.
Token ==
  STRING \cup {e[1] : e \in Escapes} \cup {e[2] : e \in Escapes}
    \cup {"GET", "POST", "HTTP", "/", "1.0", "1.1", "200", "OK", ",", "gzip", "deflate",
          "Content-Length", "Content-length", "Content-Encoding", "Connection", "Close",
          "z", "end"}

\* SetToSeq lists the elements of a finite set.
LEMMA ListedOnce ==
  ASSUME NEW S, IsFiniteSet(S)
  PROVE  /\ SetToSeq(S) \in Seq(S)
         /\ \A x \in S : \E i \in 1 .. Len(SetToSeq(S)) : SetToSeq(S)[i] = x
  <1> DEFINE n == Cardinality(S)
  <1> DEFINE l == SetToSeq(S)
  <1>1. n \in Nat /\ ExistsBijection(1 .. n, S)
    BY FS_CardinalityType
  <1>2. PICK b \in Bijection(1 .. n, S) : TRUE
    BY <1>1, Zenon DEF ExistsBijection
  <1>3. b \in [1 .. n -> S] /\ IsInjective(b)
    BY <1>2 DEF Bijection, Injection, IsInjective
  <1>4. l \in [1 .. n -> S] /\ IsInjective(l)
    BY <1>3 DEF SetToSeq
  <1>5. l \in Injection(1 .. n, S)
    BY <1>4 DEF Injection, IsInjective
  <1>6. IsFiniteSet(1 .. n) /\ Cardinality(1 .. n) = n
    BY <1>1, FS_Interval
  <1>7. l \in Surjection(1 .. n, S)
    <2> HIDE DEF l
    <2> QED
      BY <1>5, <1>6, FS_Injection
  <1>8. \A x \in S : \E i \in 1 .. n : l[i] = x
    BY <1>7 DEF Surjection
  <1>9. l \in Seq(S) /\ Len(l) = n
    BY <1>1, <1>4
  <1> QED
    BY <1>8, <1>9

\* Find: the first place of a token, 0 if there is none.
LEMMA FindFirst ==
  ASSUME NEW text \in Seq(Token), NEW token, NEW from \in Nat \ {0}
  PROVE  LET r == Find(text, token, from)
         IN  /\ r \in 0 .. Len(text)
             /\ r = 0 => \A i \in from .. Len(text) : text[i] # token
             /\ r # 0 => /\ from <= r /\ text[r] = token
                         /\ \A i \in from .. r - 1 : text[i] # token
  <1> DEFINE I == {i \in from .. Len(text) : text[i] = token}
  <1>1. Find(text, token, from) = IF I # {} THEN Min(I) ELSE 0
    BY DEF Find, SelectInSubSeq
  <1>2. CASE I = {}
    BY <1>1, <1>2
  <1>3. CASE I # {}
    <2>1. I \subseteq Nat
      OBVIOUS
    <2>2. PICK n \in I : \A m \in I : n <= m
      <3> HIDE DEF I
      <3> QED
        BY <1>3, <2>1, LeastElement
    <2>3. Min(I) \in I /\ \A m \in I : Min(I) <= m
      <3> HIDE DEF I
      <3> QED
        BY <2>2 DEF Min
    <2>4. PICK r : r = Min(I)
      OBVIOUS
    <2>5. r \in I /\ (\A m \in I : r <= m) /\ Find(text, token, from) = r
      BY <1>1, <1>3, <2>3, <2>4
    <2> QED
      BY <2>5
  <1> QED
    BY <1>2, <1>3

\* The place that Find gives is the only one with these properties.
LEMMA FindIs ==
  ASSUME NEW text \in Seq(Token), NEW token, NEW from \in Nat \ {0}, NEW r \in Nat,
         from <= r, r <= Len(text), text[r] = token,
         \A i \in from .. r - 1 : text[i] # token
  PROVE  Find(text, token, from) = r
  <1>1. PICK f : f = Find(text, token, from)
    OBVIOUS
  <1>2. /\ f \in 0 .. Len(text)
        /\ f = 0 => \A i \in from .. Len(text) : text[i] # token
        /\ f # 0 => /\ from <= f /\ text[f] = token
                    /\ \A i \in from .. f - 1 : text[i] # token
    BY <1>1, FindFirst
  <1>3. f # 0
    BY <1>2
  <1>4. ~ (f < r) /\ ~ (r < f)
    BY <1>2, <1>3
  <1> QED
    BY <1>1, <1>2, <1>4

\* A token that is nowhere is not found.
LEMMA FindNone ==
  ASSUME NEW text \in Seq(Token), NEW token, NEW from \in Nat \ {0},
         \A i \in from .. Len(text) : text[i] # token
  PROVE  Find(text, token, from) = 0
  <1>1. PICK f : f = Find(text, token, from)
    OBVIOUS
  <1>2. /\ f \in 0 .. Len(text)
        /\ f # 0 => from <= f /\ text[f] = token
    BY <1>1, FindFirst
  <1> QED
    BY <1>1, <1>2

\* Two texts, one after the other.
LEMMA ConcatAt ==
  ASSUME NEW a \in Seq(Token), NEW b \in Seq(Token)
  PROVE  /\ a \o b \in Seq(Token) /\ Len(a \o b) = Len(a) + Len(b)
         /\ \A i \in 1 .. Len(a) : (a \o b)[i] = a[i]
         /\ \A i \in Len(a) + 1 .. Len(a) + Len(b) : (a \o b)[i] = b[i - Len(a)]
         /\ \A i \in 1 .. Len(b) : (a \o b)[Len(a) + i] = b[i]
  OBVIOUS

\* The end of the headers is the first place of two line ends.
LEMMA HeaderEndIs ==
  ASSUME NEW text \in Seq(Token), NEW r \in Nat \ {0}, r < Len(text),
         text[r] = "CRLF", text[r + 1] = "CRLF",
         \A i \in 1 .. r - 1 : ~ (text[i] = "CRLF" /\ text[i + 1] = "CRLF")
  PROVE  HeaderEnd(text) = r
  <1> DEFINE ends == {i \in 1 .. Len(text) - 1 : text[i] = "CRLF" /\ text[i + 1] = "CRLF"}
  <1>1. r \in ends /\ \A i \in ends : r <= i
    OBVIOUS
  <1>2. HeaderEnd(text) = CHOOSE i \in ends : \A j \in ends : i <= j
    BY <1>1 DEF HeaderEnd
  <1>3. ends \subseteq Nat
    OBVIOUS
  <1>4. \A i \in ends : (\A j \in ends : i <= j) => i = r
    BY <1>1, <1>3
  <1> HIDE DEF ends
  <1> QED
    BY <1>1, <1>2, <1>4

\* The end of the headers lies in the text, or is 0.
LEMMA HeaderEndRange ==
  ASSUME NEW text \in Seq(Token)
  PROVE  HeaderEnd(text) \in 0 .. Len(text) /\ (HeaderEnd(text) # 0 =>
           /\ HeaderEnd(text) < Len(text)
           /\ text[HeaderEnd(text)] = "CRLF" /\ text[HeaderEnd(text) + 1] = "CRLF")
  <1> DEFINE ends == {i \in 1 .. Len(text) - 1 : text[i] = "CRLF" /\ text[i + 1] = "CRLF"}
  <1>1. CASE ends = {}
    BY <1>1 DEF HeaderEnd
  <1>2. CASE ends # {}
    <2>1. ends \subseteq Nat
      OBVIOUS
    <2>2. PICK n \in ends : \A m \in ends : n <= m
      <3> HIDE DEF ends
      <3> QED
        BY <1>2, <2>1, LeastElement
    <2>3. PICK r : r = HeaderEnd(text)
      OBVIOUS
    <2>4. r = CHOOSE i \in ends : \A j \in ends : i <= j
      BY <1>2, <2>3 DEF HeaderEnd
    <2>5. r \in ends
      <3> HIDE DEF ends
      <3> QED
        BY <2>2, <2>4
    <2> QED
      BY <2>3, <2>5
  <1> QED
    BY <1>1, <1>2

\* b and r are neighbours in a set of numbers.
Adjacent(b, r, S) == b < r /\ \A e \in S : e <= b \/ r <= e

\* The definition of Pieces, without the pairs.
LEMMA PieceOf ==
  ASSUME NEW t, NEW middle, NEW end, NEW ends, ends = Ends(t, middle, end), NEW p
  PROVE  p \in Pieces(t, middle, end) <=>
           \E b \in {0} \cup ends, r \in ends :
             Adjacent(b, r, ends) /\ p = <<b, Find(t, middle, b + 1), r>>
  <1>1. ASSUME NEW b \in {0} \cup ends, NEW r \in ends, Adjacent(b, r, ends),
               p = <<b, Find(t, middle, b + 1), r>>
        PROVE  p \in Pieces(t, middle, end)
    <2>1. PICK q \in ({0} \cup ends) \X ends : q[1] = b /\ q[2] = r
      <3>1. <<b, r>> \in ({0} \cup ends) \X ends
        OBVIOUS
      <3> QED
        BY <3>1
    <2> QED
      BY <1>1, <2>1 DEF Pieces, Adjacent
  <1>2. ASSUME p \in Pieces(t, middle, end)
        PROVE  \E b \in {0} \cup ends, r \in ends :
                 Adjacent(b, r, ends) /\ p = <<b, Find(t, middle, b + 1), r>>
    BY <1>2 DEF Pieces, Adjacent
  <1> QED
    BY <1>1, <1>2

\* A piece is a place before it, then its first middle, then its end.
LEMMA PieceShape ==
  ASSUME NEW t \in Seq(Token), NEW middle, NEW end, middle # end, NEW p \in Pieces(t, middle, end)
  PROVE  /\ p = <<p[1], p[2], p[3]>>
         /\ p[1] \in 0 .. Len(t) /\ p[2] \in 1 .. Len(t) /\ p[3] \in 1 .. Len(t)
         /\ p[1] < p[2] /\ p[2] < p[3]
         /\ t[p[2]] = middle /\ t[p[3]] = end
         /\ \A i \in p[1] + 1 .. p[2] - 1 : t[i] # middle
  <1> DEFINE ends == Ends(t, middle, end)
  <1>1. PICK b \in {0} \cup ends, r \in ends :
          /\ b < r /\ (\A e \in ends : e <= b \/ r <= e)
          /\ p = <<b, Find(t, middle, b + 1), r>>
    BY DEF Pieces
  <1>2. r \in 1 .. Len(t) /\ t[r] = end /\ (b = 0 \/ (b \in 1 .. Len(t) /\ t[b] = end))
    BY <1>1 DEF Ends
  <1>3. PICK m \in 1 .. r - 1 : t[m] = middle /\ \A i \in m .. r - 1 : t[i] # end
    BY <1>1 DEF Ends
  <1>4. b < m
    BY <1>1, <1>2, <1>3
  <1>5. PICK f : f = Find(t, middle, b + 1)
    OBVIOUS
  <1>6. /\ f \in 0 .. Len(t)
        /\ f = 0 => \A i \in b + 1 .. Len(t) : t[i] # middle
        /\ f # 0 => /\ b + 1 <= f /\ t[f] = middle
                    /\ \A i \in b + 1 .. f - 1 : t[i] # middle
    <2>1. b + 1 \in Nat \ {0}
      BY <1>1, <1>2
    <2> QED
      BY <1>5, <2>1, FindFirst
  <1>7. f # 0 /\ f <= m
    BY <1>2, <1>3, <1>4, <1>6
  <1>8. b \in 0 .. Len(t) /\ f \in 1 .. Len(t) /\ b < f /\ f < r
    BY <1>2, <1>3, <1>4, <1>6, <1>7
  <1>9. p = <<b, f, r>>
    BY <1>1, <1>5
  <1> QED
    BY <1>2, <1>6, <1>7, <1>8, <1>9

\* A whole piece at the end of a text of whole pieces is the next piece.
LEMMA EndsAppend ==
  ASSUME NEW t \in Seq(Token), NEW line \in Seq(Token), NEW middle, NEW end, middle # end,
         NEW m \in 1 .. Len(line) - 1, line[m] = middle, line[Len(line)] = end,
         \A i \in 1 .. Len(line) - 1 : line[i] # end
  PROVE  Ends(t \o line, middle, end) = Ends(t, middle, end) \cup {Len(t) + Len(line)}
  <1>1. PICK n \in Nat, l \in Nat : n = Len(t) /\ l = Len(line) /\ m \in 1 .. l - 1
    OBVIOUS
  <1>2. PICK w \in Seq(Token) : w = t \o line
    BY ConcatAt
  <1>3. /\ Len(w) = n + l
        /\ \A i \in 1 .. n : w[i] = t[i]
        /\ \A i \in 1 .. l : w[n + i] = line[i]
    BY <1>1, <1>2, ConcatAt
  <1>4. ASSUME NEW r \in 1 .. n
        PROVE  r \in Ends(w, middle, end) <=> r \in Ends(t, middle, end)
    <2>1. \A i \in 1 .. r : w[i] = t[i]
      BY <1>1, <1>3
    <2>2. DOMAIN w = 1 .. n + l /\ DOMAIN t = 1 .. n
      BY <1>1, <1>3
    <2>3. r \in DOMAIN w /\ r \in DOMAIN t /\ w[r] = t[r]
      BY <1>1, <1>3, <2>2
    <2>4. ASSUME NEW k \in 1 .. r - 1
          PROVE  (\A i \in k .. r - 1 : w[i] # end) <=> (\A i \in k .. r - 1 : t[i] # end)
      <3>1. \A i \in k .. r - 1 : i \in 1 .. r
        OBVIOUS
      <3> QED
        BY <2>1, <3>1
    <2>5. \A k \in 1 .. r - 1 : w[k] = t[k]
      BY <1>1, <2>1
    <2> QED
      BY <2>3, <2>4, <2>5 DEF Ends
  <1>5. ASSUME NEW i \in 1 .. l
        PROVE  n + i \in Ends(w, middle, end) <=> i = l
    <2>1. w[n + i] = end <=> i = l
      <3>1. w[n + i] = line[i] /\ (i # l => i \in 1 .. Len(line) - 1)
        BY <1>1, <1>3
      <3>2. line[l] = end
        BY <1>1
      <3> QED
        BY <3>1, <3>2
    <2>2. n + l \in Ends(w, middle, end)
      <3>1. n + l \in DOMAIN w /\ w[n + l] = end
        BY <1>1, <1>3
      <3>2. n + m \in 1 .. n + l - 1 /\ w[n + m] = middle
        BY <1>1, <1>3
      <3>3. ASSUME NEW j \in n + m .. n + l - 1 PROVE w[j] # end
        <4>1. PICK k \in 1 .. l - 1 : j = n + k
          <5>1. j - n \in 1 .. l - 1 /\ j = n + (j - n)
            BY <1>1
          <5> QED
            BY <5>1
        <4>2. k \in 1 .. l /\ line[k] # end
          BY <1>1
        <4> QED
          BY <1>3, <4>1, <4>2
      <3> QED
        BY <3>1, <3>2, <3>3 DEF Ends
    <2>3. n + i \in Ends(w, middle, end) => w[n + i] = end
      BY DEF Ends
    <2> QED
      BY <2>1, <2>2, <2>3
  <1>6. Ends(w, middle, end) \subseteq 1 .. n + l /\ Ends(t, middle, end) \subseteq 1 .. n
    BY <1>1, <1>3 DEF Ends
  <1>7. \A r \in 1 .. n + l : r \in 1 .. n \/ \E i \in 1 .. l : r = n + i
    <2>1. ASSUME NEW r \in 1 .. n + l, r \notin 1 .. n PROVE \E i \in 1 .. l : r = n + i
      <3>1. r - n \in 1 .. l /\ r = n + (r - n)
        BY <1>1, <2>1
      <3> QED
        BY <3>1
    <2> QED
      BY <2>1
  <1>8. n + l \in Ends(w, middle, end)
    BY <1>1, <1>5
  <1>9. \A r : r \in Ends(w, middle, end) => r \in Ends(t, middle, end) \/ r = n + l
    BY <1>4, <1>5, <1>6, <1>7
  <1>10. \A r : r \in Ends(t, middle, end) => r \in Ends(w, middle, end)
    <2>1. \A r \in 1 .. n : r \in 1 .. n + l
      BY <1>1
    <2> QED
      BY <1>4, <1>6
  <1>11. Ends(w, middle, end) = Ends(t, middle, end) \cup {n + l}
    BY <1>8, <1>9, <1>10
  <1> QED
    BY <1>1, <1>2, <1>11

\* What follows a piece does not change where its middle is found.
LEMMA FindKept ==
  ASSUME NEW t \in Seq(Token), NEW more \in Seq(Token), NEW middle, NEW end, middle # end,
         NEW ends, ends = Ends(t, middle, end), NEW b \in {0} \cup ends, NEW r \in ends, b < r
  PROVE  Find(t \o more, middle, b + 1) = Find(t, middle, b + 1)
  <1>1. PICK w \in Seq(Token), n \in Nat :
          /\ w = t \o more /\ n = Len(t) /\ n <= Len(w)
          /\ \A i \in 1 .. n : w[i] = t[i]
    <2>1. PICK w \in Seq(Token) : w = t \o more
      BY ConcatAt
    <2>2. PICK n \in Nat : n = Len(t)
      OBVIOUS
    <2>3. Len(w) = Len(t) + Len(more) /\ \A i \in 1 .. Len(t) : w[i] = t[i]
      BY <2>1, ConcatAt
    <2>4. n <= Len(w) /\ \A i \in 1 .. n : w[i] = t[i]
      BY <2>2, <2>3
    <2> QED
      BY <2>1, <2>2, <2>4
  <1>2. r \in 1 .. n /\ b \in 0 .. n
    BY <1>1 DEF Ends
  <1>3. PICK k \in 1 .. r - 1 : t[k] = middle /\ \A i \in k .. r - 1 : t[i] # end
    BY DEF Ends
  <1>4. b < k
    <2>1. b = 0 \/ t[b] = end
      BY DEF Ends
    <2> QED
      BY <1>2, <1>3, <2>1
  <1>5. PICK f : f = Find(t, middle, b + 1)
    OBVIOUS
  <1>6. /\ f \in 0 .. n
        /\ f = 0 => \A i \in b + 1 .. n : t[i] # middle
        /\ f # 0 => /\ b + 1 <= f /\ t[f] = middle
                    /\ \A i \in b + 1 .. f - 1 : t[i] # middle
    <2>1. b + 1 \in Nat \ {0}
      BY <1>2
    <2> QED
      BY <1>1, <1>5, <2>1, FindFirst
  <1>7. f # 0
    BY <1>2, <1>3, <1>4, <1>6
  <1>8. /\ b + 1 <= f /\ f <= Len(w) /\ w[f] = middle
        /\ \A i \in b + 1 .. f - 1 : w[i] # middle
    <2>1. b + 1 <= f /\ f \in 1 .. n
      BY <1>1, <1>2, <1>6, <1>7
    <2>2. f <= Len(w) /\ w[f] = middle
      BY <1>1, <1>6, <1>7, <2>1
    <2>3. \A i \in b + 1 .. f - 1 : i \in 1 .. n
      BY <1>1, <1>2, <2>1
    <2> QED
      BY <1>1, <1>6, <1>7, <2>1, <2>2, <2>3
  <1>9. b + 1 \in Nat \ {0} /\ f \in Nat
    BY <1>2, <1>6, <1>1
  <1> QED
    <2>1. PICK c \in Nat \ {0} : c = b + 1
      BY <1>9
    <2>2. Find(w, middle, c) = f
      BY <1>8, <1>9, <2>1, FindIs
    <2> QED
      BY <1>1, <1>5, <2>1, <2>2

\* WholeText pieces only: the text is empty or ends where a piece ends.
Complete(t, middle, end) == t = <<>> \/ Len(t) \in Ends(t, middle, end)

\* A line behind a text that ends with a piece adds one piece.
LEMMA PiecesAppend ==
  ASSUME NEW t \in Seq(Token), NEW line \in Seq(Token), NEW middle, NEW end, middle # end,
         NEW m \in 1 .. Len(line) - 1, line[m] = middle, line[Len(line)] = end,
         \A i \in 1 .. m - 1 : line[i] # middle,
         \A i \in 1 .. Len(line) - 1 : line[i] # end,
         Complete(t, middle, end)
  PROVE  /\ Complete(t \o line, middle, end)
         /\ Pieces(t \o line, middle, end) =
              Pieces(t, middle, end) \cup {<<Len(t), Len(t) + m, Len(t) + Len(line)>>}
  <1>1. PICK n \in Nat, l \in Nat : n = Len(t) /\ l = Len(line) /\ l > 1
    OBVIOUS
  <1>2. PICK w \in Seq(Token) : w = t \o line
    BY ConcatAt
  <1>3. /\ Len(w) = n + l
        /\ \A i \in 1 .. n : w[i] = t[i]
        /\ \A i \in 1 .. l : w[n + i] = line[i]
    BY <1>1, <1>2, ConcatAt
  <1>4. PICK before, ends : before = Ends(t, middle, end) /\ ends = Ends(w, middle, end)
    OBVIOUS
  <1>5. ends = before \cup {n + l} /\ before \subseteq 1 .. n
    <2>1. ends = before \cup {n + l}
      <3>1. Ends(t \o line, middle, end) = Ends(t, middle, end) \cup {Len(t) + Len(line)}
        BY EndsAppend
      <3> QED
        BY <1>1, <1>2, <1>4, <3>1
    <2>2. before \subseteq 1 .. n
      BY <1>1, <1>4 DEF Ends
    <2> QED
      BY <2>1, <2>2
  <1>6. Complete(w, middle, end)
    BY <1>3, <1>4, <1>5 DEF Complete
  <1>7. n = 0 \/ n \in before
    BY <1>1, <1>4 DEF Complete
  \* The pieces before the new one.
  <1>8. \A b \in {0} \cup before, r \in before :
          b < r => Find(w, middle, b + 1) = Find(t, middle, b + 1)
    BY <1>2, <1>4, FindKept
  <1>9. Find(w, middle, n + 1) = n + m
    <2>1. m \in 1 .. l - 1
      BY <1>1
    <2>2. n + 1 \in Nat \ {0} /\ n + m \in Nat /\ n + 1 <= n + m /\ n + m <= Len(w)
      BY <1>3, <2>1
    <2>3. w[n + m] = middle
      BY <1>1, <1>3
    <2>4. ASSUME NEW i \in n + 1 .. n + m - 1 PROVE w[i] # middle
      <3>1. PICK k \in 1 .. m - 1 : i = n + k
        <4>1. i - n \in 1 .. m - 1 /\ i = n + (i - n)
          BY <1>1, <2>1
        <4> QED
          BY <4>1
      <3>2. k \in 1 .. l
        BY <1>1, <2>1
      <3> QED
        BY <1>3, <3>1, <3>2
    <2> QED
      BY <2>2, <2>3, <2>4, FindIs
  <1>10. \A b, r : (b \in {0} \cup ends /\ r \in ends /\ Adjacent(b, r, ends)) =>
           \/ b \in {0} \cup before /\ r \in before /\ Adjacent(b, r, before)
           \/ b = n /\ r = n + l
    <2>1. \A b \in {0} \cup ends, r \in before : Adjacent(b, r, ends) => b \in {0} \cup before
      BY <1>1, <1>5 DEF Adjacent
    <2>2. \A b, r : Adjacent(b, r, ends) => Adjacent(b, r, before)
      BY <1>5 DEF Adjacent
    <2>3. \A b \in {0} \cup ends : Adjacent(b, n + l, ends) => b = n
      BY <1>1, <1>5, <1>7 DEF Adjacent
    <2> QED
      BY <1>5, <2>1, <2>2, <2>3
  <1>11. \A b, r : (b \in {0} \cup before /\ r \in before /\ Adjacent(b, r, before)) =>
           b \in {0} \cup ends /\ r \in ends /\ Adjacent(b, r, ends)
    BY <1>1, <1>5 DEF Adjacent
  <1>12. n \in {0} \cup ends /\ n + l \in ends /\ Adjacent(n, n + l, ends)
    BY <1>1, <1>5, <1>7 DEF Adjacent
  <1>13. ASSUME NEW p \in Pieces(w, middle, end)
         PROVE  p \in Pieces(t, middle, end) \cup {<<n, n + m, n + l>>}
    <2>1. PICK b \in {0} \cup ends, r \in ends :
            Adjacent(b, r, ends) /\ p = <<b, Find(w, middle, b + 1), r>>
      BY <1>4, PieceOf
    <2>2. CASE b = n /\ r = n + l
      BY <1>9, <2>1, <2>2
    <2>3. CASE b \in {0} \cup before /\ r \in before /\ Adjacent(b, r, before)
      <3>1. b < r
        BY <2>3 DEF Adjacent
      <3>2. Find(w, middle, b + 1) = Find(t, middle, b + 1)
        BY <1>8, <2>3, <3>1
      <3>3. p \in Pieces(t, middle, end)
        BY <1>4, <2>1, <2>3, <3>2, PieceOf
      <3> QED
        BY <3>3
    <2> QED
      BY <1>10, <2>1, <2>2, <2>3
  <1>14. ASSUME NEW p \in Pieces(t, middle, end)
         PROVE  p \in Pieces(w, middle, end)
    <2>1. PICK b \in {0} \cup before, r \in before :
            Adjacent(b, r, before) /\ p = <<b, Find(t, middle, b + 1), r>>
      BY <1>4, PieceOf
    <2>2. b < r
      BY <2>1 DEF Adjacent
    <2>3. Find(w, middle, b + 1) = Find(t, middle, b + 1)
      BY <1>8, <2>2
    <2>4. b \in {0} \cup ends /\ r \in ends /\ Adjacent(b, r, ends)
      BY <1>11, <2>1
    <2> QED
      BY <1>4, <2>1, <2>3, <2>4, PieceOf
  <1>15. <<n, n + m, n + l>> \in Pieces(w, middle, end)
    BY <1>4, <1>9, <1>12, PieceOf
  <1>16. Pieces(w, middle, end) = Pieces(t, middle, end) \cup {<<n, n + m, n + l>>}
    BY <1>13, <1>14, <1>15
  <1> QED
    BY <1>1, <1>2, <1>6, <1>16

\* What stands between two places does not depend on what follows, or precedes.
LEMMA BetweenFirst ==
  ASSUME NEW a \in Seq(Token), NEW b \in Seq(Token), NEW i \in Nat, NEW j \in Nat,
         i <= j, j <= Len(a) + 1
  PROVE  Between(a \o b, i, j) = Between(a, i, j)
  <1>1. PICK w \in Seq(Token) : w = a \o b
    BY ConcatAt
  <1>2. Len(w) = Len(a) + Len(b) /\ \A k \in 1 .. Len(a) : w[k] = a[k]
    BY <1>1, ConcatAt
  <1>3. Len(a) \in Nat /\ Len(b) \in Nat
    OBVIOUS
  <1>4. SubSeq(w, i + 1, j - 1) = SubSeq(a, i + 1, j - 1)
    <2>1. /\ SubSeq(w, i + 1, j - 1) = [k \in 1 .. j - 1 - i |-> w[i + k]]
          /\ SubSeq(a, i + 1, j - 1) = [k \in 1 .. j - 1 - i |-> a[i + k]]
      BY <1>3, Z3
    <2>2. \A k \in 1 .. j - 1 - i : w[i + k] = a[i + k]
      BY <1>2, <1>3
    <2> QED
      BY <2>1, <2>2
  <1> QED
    BY <1>1, <1>4 DEF Between

\* What lies between two places of the second of two texts.
LEMMA BetweenSecond ==
  ASSUME NEW a \in Seq(Token), NEW b \in Seq(Token), NEW i \in Nat, NEW j \in Nat,
         i < j, j <= Len(b) + 1
  PROVE  Between(a \o b, Len(a) + i, Len(a) + j) = Between(b, i, j)
  <1>1. PICK w \in Seq(Token) : w = a \o b
    BY ConcatAt
  <1>2. PICK n \in Nat, l \in Nat : n = Len(a) /\ l = Len(b)
    OBVIOUS
  <1>3. Len(w) = n + l /\ \A k \in 1 .. l : w[n + k] = b[k]
    BY <1>1, <1>2, ConcatAt
  <1>4. SubSeq(w, n + i + 1, n + j - 1) = SubSeq(b, i + 1, j - 1)
    <2>1. /\ SubSeq(w, n + i + 1, n + j - 1) = [k \in 1 .. j - 1 - i |-> w[n + i + k]]
          /\ SubSeq(b, i + 1, j - 1) = [k \in 1 .. j - 1 - i |-> b[i + k]]
      BY <1>2, Z3
    <2>2. \A k \in 1 .. j - 1 - i : w[n + i + k] = b[i + k]
      <3>1. ASSUME NEW k \in 1 .. j - 1 - i PROVE w[n + i + k] = b[i + k]
        <4>1. i + k \in 1 .. l /\ n + i + k = n + (i + k)
          BY <1>2
        <4> QED
          BY <1>3, <4>1
      <3> QED
        BY <3>1
    <2> QED
      BY <2>1, <2>2
  <1> QED
    BY <1>1, <1>2, <1>4 DEF Between

-----------------------------------------------------------------------------
(* Escape and Unescape. *)

Row(e, a, b) == e = <<a, b>> /\ e[1] = a /\ e[2] = b

\* The escapes, one by one.
LEMMA Rows ==
  ASSUME NEW e, e \in Escapes
  PROVE  \/ Row(e, " ", "%20") \/ Row(e, "%", "%25") \/ Row(e, "&", "%26") \/ Row(e, ":", "%3A")
         \/ Row(e, "=", "%3D") \/ Row(e, "?", "%3F") \/ Row(e, "CRLF", "%0D%0A")
  <1>1. \/ e = <<" ", "%20">> \/ e = <<"%", "%25">> \/ e = <<"&", "%26">> \/ e = <<":", "%3A">>
         \/ e = <<"=", "%3D">> \/ e = <<"?", "%3F">> \/ e = <<"CRLF", "%0D%0A">>
    BY DEF Escapes
  <1>2. \A a, b : e = <<a, b>> => Row(e, a, b)
    BY DEF Row
  <1> QED
    BY <1>1, <1>2

\* A separator differs from every escape.
LEMMA Rows2 == 
 /\ <<" ", "%20">> \in Escapes /\ <<"%", "%25">> \in Escapes /\ <<"&", "%26">> \in Escapes /\ <<":", "%3A">> \in Escapes
         /\ <<"=", "%3D">> \in Escapes /\ <<"?", "%3F">> \in Escapes /\ <<"CRLF", "%0D%0A">> \in Escapes
  BY DEF Escapes

\* The separators are the tokens that are escaped.
LEMMA SeparatorsAre ==
  Separators = {" ", "%", "&", ":", "=", "?", "CRLF"}
  <1>1. ASSUME NEW t \in Separators PROVE t \in {" ", "%", "&", ":", "=", "?", "CRLF"}
    <2>1. PICK e \in Escapes : t = e[1]
      BY DEF Separators
    <2> QED
      BY <2>1, Rows DEF Row
  <1>2. \A e \in Escapes : e[1] \in Separators
    BY DEF Separators
  <1>3. \A a, b : <<a, b>> \in Escapes => a \in Separators
    BY <1>2
  <1> QED
    BY <1>1, <1>3, Rows2

\* No separator is an escape.
LEMMA EscapePairs ==
  /\ \A e \in Escapes : e[1] \in Token /\ e[2] \in Token /\ e[2] \notin Separators
  /\ \A d, e \in Escapes : d[1] = e[1] \/ d[2] = e[2] => d = e
  /\ "%" \in Separators /\ "&" \in Separators /\ "=" \in Separators /\ "?" \in Separators
  /\ " " \in Separators /\ ":" \in Separators /\ "CRLF" \in Separators
  <1>1. ASSUME NEW e \in Escapes PROVE e[1] \in Token /\ e[2] \in Token
    BY DEF Token
  <1>2. \A e \in Escapes : e[2] \notin Separators
    BY SeparatorsAre, Rows DEF Row
  <1>3. ASSUME NEW d \in Escapes, NEW e \in Escapes, d[1] = e[1] \/ d[2] = e[2] PROVE d = e
    <2>1. PICK a, b : Row(d, a, b)
      BY Rows
    <2>2. PICK f, g : Row(e, f, g)
      BY Rows
    <2>3. d = <<d[1], d[2]>> /\ e = <<e[1], e[2]>>
      BY <2>1, <2>2 DEF Row
    <2>4. d[1] = e[1] /\ d[2] = e[2]
      BY <1>3, Rows DEF Row
    <2> QED
      BY <2>3, <2>4
  <1>4. /\ "%" \in Separators /\ "&" \in Separators /\ "=" \in Separators /\ "?" \in Separators
        /\ " " \in Separators /\ ":" \in Separators /\ "CRLF" \in Separators
    BY SeparatorsAre
  <1> QED
    BY <1>1, <1>2, <1>3, <1>4

\* An escaped text has no separator.
LEMMA EscapeClean ==
  ASSUME NEW text \in Seq(Token)
  PROVE  /\ Escape(text) \in Seq(Token) /\ Len(Escape(text)) = Len(text)
         /\ \A i \in 1 .. Len(text) : Escape(text)[i] \notin Separators
  <1> DEFINE Esc(i) == IF \E e \in Escapes : e[1] = text[i]
                       THEN (CHOOSE e \in Escapes : e[1] = text[i])[2] ELSE text[i]
  <1>1. ASSUME NEW i \in 1 .. Len(text)
        PROVE  Esc(i) \in Token /\ Esc(i) \notin Separators
    <2>1. CASE \E e \in Escapes : e[1] = text[i]
      <3>1. PICK d : d = CHOOSE e \in Escapes : e[1] = text[i]
        OBVIOUS
      <3>2. d \in Escapes
        BY <2>1, <3>1
      <3>3. Esc(i) = d[2]
        BY <2>1, <3>1
      <3> QED
        BY <3>2, <3>3, EscapePairs
    <2>2. CASE ~ \E e \in Escapes : e[1] = text[i]
      <3>1. Esc(i) = text[i] /\ text[i] \in Token
        BY <2>2
      <3>2. text[i] \notin Separators
        BY <2>2 DEF Separators
      <3> QED
        BY <3>1, <3>2
    <2> QED
      BY <2>1, <2>2
  <1>2. Escape(text) = [i \in 1 .. Len(text) |-> Esc(i)]
    BY DEF Escape
  <1> HIDE DEF Esc
  <1>3. Escape(text) \in Seq(Token) /\ Len(Escape(text)) = Len(text)
    BY <1>1, <1>2
  <1> QED
    BY <1>1, <1>2, <1>3

\* What an escaped text stands for.
LEMMA EscapeInverse ==
  ASSUME NEW text \in Seq(Token \ {e[2] : e \in Escapes})
  PROVE  Unescape(Escape(text)) = text
  <1>1. PICK esc \in Seq(Token) : esc = Escape(text)
    BY EscapeClean
  <1>2. Len(esc) = Len(text) /\ \A i \in 1 .. Len(text) : esc[i] \notin Separators
    BY <1>1, EscapeClean
  <1>3. SelectInSeq(esc, LAMBDA t : t = "%") = 0
    <2>1. {i \in 1 .. Len(esc) : esc[i] = "%"} = {}
      BY <1>2, EscapePairs
    <2> QED
      BY <2>1 DEF SelectInSeq
  <1> DEFINE Un(i) == IF \E e \in Escapes : e[2] = esc[i]
                      THEN (CHOOSE e \in Escapes : e[2] = esc[i])[1] ELSE esc[i]
  <1>4. Unescape(esc) = [i \in DOMAIN esc |-> Un(i)]
    BY <1>3 DEF Unescape
  <1>5. ASSUME NEW i \in 1 .. Len(text) PROVE Un(i) = text[i]
    <2>1. esc[i] = IF \E e \in Escapes : e[1] = text[i]
                   THEN (CHOOSE e \in Escapes : e[1] = text[i])[2] ELSE text[i]
      BY <1>1 DEF Escape
    <2>2. CASE \E e \in Escapes : e[1] = text[i]
      <3>1. PICK d : d = CHOOSE e \in Escapes : e[1] = text[i]
        OBVIOUS
      <3>2. d \in Escapes /\ d[1] = text[i] /\ esc[i] = d[2]
        BY <2>1, <2>2, <3>1
      <3>3. PICK c : c = CHOOSE e \in Escapes : e[2] = esc[i]
        OBVIOUS
      <3>4. c \in Escapes /\ c[2] = esc[i]
        BY <3>2, <3>3
      <3>5. c = d
        BY <3>2, <3>4, EscapePairs
      <3>6. Un(i) = c[1]
        BY <3>2, <3>3
      <3> QED
        BY <3>2, <3>5, <3>6
    <2>3. CASE ~ \E e \in Escapes : e[1] = text[i]
      <3>1. esc[i] = text[i]
        BY <2>1, <2>3
      <3>2. text[i] \in Token \ {e[2] : e \in Escapes}
        OBVIOUS
      <3>3. ~ \E e \in Escapes : e[2] = esc[i]
        BY <3>1, <3>2
      <3> QED
        BY <3>1, <3>3
    <2> QED
      BY <2>2, <2>3
  <1>6. DOMAIN esc = 1 .. Len(text) /\ text = [i \in 1 .. Len(text) |-> text[i]]
    BY <1>2
  <1> HIDE DEF Un
  <1>7. Unescape(esc) = text
    BY <1>4, <1>5, <1>6
  <1> QED
    BY <1>1, <1>7

\* A line is a key, the middle with what follows it, a value and the end.
Line(a, mid, b, end) == a \o mid \o b \o <<end>>

\* Where the parts of a line stand.
Laid(line, a, mid, b, end) ==
  /\ line \in Seq(Token) /\ Len(line) = Len(a) + Len(mid) + Len(b) + 1
  /\ \A i \in 1 .. Len(a) : line[i] = a[i]
  /\ \A i \in 1 .. Len(mid) : line[Len(a) + i] = mid[i]
  /\ \A i \in 1 .. Len(b) : line[Len(a) + Len(mid) + i] = b[i]
  /\ line[Len(a) + Len(mid) + Len(b) + 1] = end

\* Where the parts of a line stand.
LEMMA LineShape ==
  ASSUME NEW a \in Seq(Token), NEW mid \in Seq(Token), NEW b \in Seq(Token), NEW end \in Token
  PROVE  Laid(Line(a, mid, b, end), a, mid, b, end)
  <1>1. PICK line : line = Line(a, mid, b, end)
    OBVIOUS
  <1>2. PICK x \in Seq(Token), y \in Seq(Token) : x = a \o mid /\ y = x \o b
    <2>1. a \o mid \in Seq(Token)
      BY ConcatAt
    <2>2. (a \o mid) \o b \in Seq(Token)
      BY <2>1, ConcatAt
    <2> QED
      BY <2>1, <2>2
  <1>3. PICK n \in Nat, m \in Nat, l \in Nat : n = Len(a) /\ m = Len(mid) /\ l = Len(b)
    OBVIOUS
  <1>4. /\ Len(x) = n + m
        /\ \A i \in 1 .. n : x[i] = a[i]
        /\ \A i \in 1 .. m : x[n + i] = mid[i]
    BY <1>2, <1>3, ConcatAt
  <1>5. /\ Len(y) = n + m + l
        /\ \A i \in 1 .. n + m : y[i] = x[i]
        /\ \A i \in 1 .. l : y[n + m + i] = b[i]
    BY <1>2, <1>3, <1>4, ConcatAt
  <1>6. line = y \o <<end>> /\ <<end>> \in Seq(Token) /\ Len(<<end>>) = 1 /\ <<end>>[1] = end
    BY <1>1, <1>2 DEF Line
  <1>7. /\ line \in Seq(Token) /\ Len(line) = n + m + l + 1
        /\ \A i \in 1 .. n + m + l : line[i] = y[i]
        /\ line[n + m + l + 1] = end
    <2>1. PICK z \in Seq(Token) : z = <<end>> /\ Len(z) = 1 /\ z[1] = end
      BY <1>6
    <2>2. /\ line \in Seq(Token) /\ Len(line) = Len(y) + Len(z)
          /\ \A i \in 1 .. Len(y) : line[i] = y[i]
          /\ \A i \in 1 .. Len(z) : line[Len(y) + i] = z[i]
      BY <1>6, <2>1, ConcatAt
    <2>3. 1 \in 1 .. Len(z)
      BY <2>1
    <2> QED
      BY <1>5, <2>1, <2>2, <2>3
  <1>8. \A i \in 1 .. n : line[i] = a[i]
    <2>1. \A i \in 1 .. n : i \in 1 .. n + m /\ i \in 1 .. n + m + l
      BY <1>3
    <2> QED
      BY <1>4, <1>5, <1>7, <2>1
  <1>9. \A i \in 1 .. m : line[n + i] = mid[i]
    <2>1. \A i \in 1 .. m : n + i \in 1 .. n + m /\ n + i \in 1 .. n + m + l
      BY <1>3
    <2> QED
      BY <1>4, <1>5, <1>7, <2>1
  <1>10. \A i \in 1 .. l : line[n + m + i] = b[i]
    <2>1. \A i \in 1 .. l : n + m + i \in 1 .. n + m + l
      BY <1>3
    <2> QED
      BY <1>5, <1>7, <2>1
  <1> QED
    BY <1>1, <1>3, <1>7, <1>8, <1>9, <1>10 DEF Laid

\* The parts of a line, cut out of it.
LEMMA LineParts ==
  ASSUME NEW a \in Seq(Token), NEW mid \in Seq(Token), NEW b \in Seq(Token), NEW end \in Token,
         NEW line, line = Line(a, mid, b, end), mid # <<>>
  PROVE  /\ Between(line, 0, Len(a) + 1) = a
         /\ Between(line, Len(a) + Len(mid), Len(line)) = b
  <1>1. PICK n \in Nat, m \in Nat, l \in Nat : n = Len(a) /\ m = Len(mid) /\ l = Len(b)
    OBVIOUS
  <1>2. /\ line \in Seq(Token) /\ Len(line) = n + m + l + 1
        /\ \A i \in 1 .. n : line[i] = a[i]
        /\ \A i \in 1 .. l : line[n + m + i] = b[i]
    <2>1. Laid(line, a, mid, b, end)
      BY LineShape
    <2> QED
      BY <1>1, <2>1 DEF Laid
  <1>3. SubSeq(line, 1, n) = a
    <2>1. SubSeq(line, 1, n) = [k \in 1 .. n |-> line[k]] /\ a = [k \in 1 .. n |-> a[k]]
      <3>1. SubSeq(line, 1, n) = [k \in 1 .. 1 + n - 1 |-> line[1 + k - 1]]
        BY <1>1, <1>2, Z3
      <3>2. 1 + n - 1 = n /\ \A k \in 1 .. n : 1 + k - 1 = k
        BY <1>1
      <3>3. a = [k \in 1 .. n |-> a[k]]
        BY <1>1
      <3> QED
        BY <3>1, <3>2, <3>3
    <2> QED
      BY <1>2, <2>1
  <1>4. SubSeq(line, n + m + 1, n + m + l) = b
    <2>1. SubSeq(line, n + m + 1, n + m + l) = [k \in 1 .. l |-> line[n + m + k]]
      BY <1>1, Z3
    <2>2. b = [k \in 1 .. l |-> b[k]]
      BY <1>1
    <2> QED
      BY <1>2, <2>1, <2>2
  <1>5. Len(a) + 1 - 1 = n /\ Len(line) - 1 = n + m + l /\ Len(a) + Len(mid) + 1 = n + m + 1
    BY <1>1, <1>2
  <1> QED
    BY <1>3, <1>4, <1>5 DEF Between

-----------------------------------------------------------------------------
(* The pairs that a text is parsed into. *)

Split(text, middle, end, skip) ==
  {<<Between(text, p[1], p[2]), Between(text, p[2] + skip, p[3])>> :
     p \in Pieces(text, middle, end)}

\* A line that is one piece: a middle after the key, and no end before the last place.
Fits(a, mid, b, middle, end, skip) ==
  /\ Len(mid) = skip + 1 /\ mid[1] = middle /\ (skip = 1 => mid[2] # end)
  /\ \A i \in 1 .. Len(a) : a[i] # middle /\ a[i] # end
  /\ \A i \in 1 .. Len(b) : b[i] # end

\* One more line adds its key and its value to what is parsed.
Adds(t, line, middle, end, skip, a, b) ==
  /\ Complete(t \o line, middle, end)
  /\ Pieces(t \o line, middle, end) = Pieces(t, middle, end)
       \cup {<<Len(t), Len(t) + Len(a) + 1, Len(t) + Len(a) + skip + 1 + Len(b) + 1>>}
  /\ Split(t \o line, middle, end, skip) = Split(t, middle, end, skip) \cup {<<a, b>>}

\* A line behind a text adds what lies before and behind its middle.
LEMMA SplitAppend ==
  ASSUME NEW t \in Seq(Token), NEW a \in Seq(Token), NEW b \in Seq(Token),
         NEW mid \in Seq(Token), NEW middle, NEW end \in Token, middle # end,
         NEW skip \in 0 .. 1, Fits(a, mid, b, middle, end, skip), Complete(t, middle, end)
  PROVE  Adds(t, Line(a, mid, b, end), middle, end, skip, a, b)
  <1>1. PICK line : line = Line(a, mid, b, end)
    OBVIOUS
  <1>2. /\ Len(mid) = skip + 1 /\ mid[1] = middle /\ (skip = 1 => mid[2] # end)
        /\ \A i \in 1 .. Len(a) : a[i] # middle /\ a[i] # end
        /\ \A i \in 1 .. Len(b) : b[i] # end
    BY DEF Fits
  <1> USE <1>2
  <1>3. /\ a \in Seq(Token) /\ mid \in Seq(Token) /\ b \in Seq(Token) /\ end \in Token
        /\ line = Line(a, mid, b, end) /\ mid # <<>>
    BY <1>1, <1>2
  <1>4. PICK n \in Nat, m \in Nat, l \in Nat : n = Len(t) /\ m = Len(a) /\ l = Len(b)
    OBVIOUS
  <1>5. /\ line \in Seq(Token) /\ Len(line) = m + skip + 1 + l + 1
        /\ \A i \in 1 .. m : line[i] = a[i]
        /\ \A i \in 1 .. skip + 1 : line[m + i] = mid[i]
        /\ \A i \in 1 .. l : line[m + (skip + 1) + i] = b[i]
        /\ line[m + (skip + 1) + l + 1] = end
    <2>1. Laid(line, a, mid, b, end)
      BY ONLY <1>3, LineShape
    <2>2. m = Len(a) /\ skip + 1 = Len(mid) /\ l = Len(b)
      BY <1>4
    <2>3. Len(a) + Len(mid) + Len(b) + 1 = m + skip + 1 + l + 1
      BY <2>2
    <2>4. m + (skip + 1) + l + 1 = Len(a) + Len(mid) + Len(b) + 1
      BY <2>2
    <2> QED
      BY ONLY <2>1, <2>2, <2>3, <2>4 DEF Laid
  <1>6. PICK f \in Nat : f = m + skip + 1 + l + 1
    BY <1>4
  <1>7. line[m + 1] = middle /\ line[f] = end /\ m + 1 \in 1 .. f - 1
    <2>1. 1 \in 1 .. skip + 1 /\ m + (skip + 1) + l + 1 = f
      BY <1>4, <1>6
    <2> QED
      BY <1>4, <1>5, <1>6, <2>1
  <1>8. \A i \in 1 .. m : line[i] # middle
    BY <1>4, <1>5
  <1>9. ASSUME NEW i \in 1 .. f - 1 PROVE line[i] # end
    <2>1. CASE i <= m
      BY <1>4, <1>5, <2>1
    <2>2. CASE i > m /\ i <= m + skip + 1
      <3>1. PICK k \in 1 .. skip + 1 : i = m + k
        <4>1. i - m \in 1 .. skip + 1 /\ i = m + (i - m)
          BY <1>4, <2>2
        <4> QED
          BY <4>1
      <3>2. k = 1 \/ (skip = 1 /\ k = 2)
        OBVIOUS
      <3>3. mid[k] # end
        BY <3>2
      <3> QED
        BY <1>5, <3>1, <3>3
    <2>3. CASE i > m + skip + 1
      <3>1. PICK k \in 1 .. l : i = m + (skip + 1) + k
        <4>1. i - (m + skip + 1) \in 1 .. l /\ i = m + (skip + 1) + (i - (m + skip + 1))
          BY <1>4, <1>6, <2>3
        <4> QED
          BY <4>1
      <3>2. b[k] # end
        BY <1>4
      <3> QED
        BY <1>5, <3>1, <3>2
    <2> QED
      BY <1>4, <2>1, <2>2, <2>3
  <1>10. PICK w \in Seq(Token) : w = t \o line
    BY <1>5, ConcatAt
  <1>11. /\ Complete(w, middle, end)
         /\ Pieces(w, middle, end) = Pieces(t, middle, end) \cup {<<n, n + (m + 1), n + f>>}
    <2>1. Len(line) = f /\ m + 1 \in 1 .. Len(line) - 1
      BY <1>5, <1>6, <1>7
    <2>2. \A i \in 1 .. (m + 1) - 1 : line[i] # middle
      BY <1>4, <1>8
    <2>3. \A i \in 1 .. Len(line) - 1 : line[i] # end
      BY <1>9, <2>1
    <2>4. line[Len(line)] = end /\ line[m + 1] = middle
      BY <1>7, <2>1
    <2>5. PICK j : j = m + 1
      OBVIOUS
    <2>6. /\ j \in 1 .. Len(line) - 1 /\ line[j] = middle
          /\ \A i \in 1 .. j - 1 : line[i] # middle
      BY <2>1, <2>2, <2>4, <2>5
    <2>7. /\ Complete(t \o line, middle, end)
          /\ Pieces(t \o line, middle, end) =
               Pieces(t, middle, end) \cup {<<Len(t), Len(t) + j, Len(t) + Len(line)>>}
      <3>1. line \in Seq(Token) /\ Complete(t, middle, end) /\ middle # end
        BY <1>5
      <3> QED
        BY ONLY t \in Seq(Token), <3>1, <2>3, <2>4, <2>6, PiecesAppend, SMTT(60)
    <2> QED
      BY <1>4, <1>10, <2>1, <2>5, <2>7
  <1>12. ASSUME NEW p \in Pieces(t, middle, end)
         PROVE  /\ Between(w, p[1], p[2]) = Between(t, p[1], p[2])
                /\ Between(w, p[2] + skip, p[3]) = Between(t, p[2] + skip, p[3])
    <2>1. PICK u \in Nat, v \in Nat, x \in Nat : u = p[1] /\ v = p[2] /\ x = p[3]
      BY PieceShape
    <2>2. u < v /\ v < x /\ x <= n
      BY <1>4, <2>1, PieceShape
    <2>3. w = t \o line /\ line \in Seq(Token)
      BY <1>5, <1>10
    <2>4. Between(w, u, v) = Between(t, u, v)
      <3>1. u <= v /\ v <= Len(t) + 1
        BY <1>4, <2>2
      <3> QED
        BY ONLY t \in Seq(Token), u \in Nat, v \in Nat, <2>3, <3>1, BetweenFirst
    <2>5. Between(w, v + skip, x) = Between(t, v + skip, x)
      <3>1. PICK k \in Nat : k = v + skip
        <4>1. v + skip \in Nat
          BY ONLY skip \in 0 .. 1, v \in Nat
        <4> QED
          BY <4>1
      <3>2. k <= x /\ x <= n + 1
        BY ONLY <2>2, <3>1, skip \in 0 .. 1, v \in Nat, x \in Nat, n \in Nat
      <3>3. x <= Len(t) + 1
        BY <1>4, <3>2
      <3>4. Between(w, k, x) = Between(t, k, x)
        BY ONLY t \in Seq(Token), k \in Nat, x \in Nat, <2>3, <3>2, <3>3, BetweenFirst
      <3> QED
        BY <3>1, <3>4
    <2> QED
      BY <2>1, <2>4, <2>5
  <1>13. Between(w, n, n + (m + 1)) = a /\ Between(w, n + (m + 1) + skip, n + f) = b
    <2>1. Between(line, 0, m + 1) = a /\ Between(line, m + (skip + 1), f) = b
      <3>1. Between(line, 0, Len(a) + 1) = a /\ Between(line, Len(a) + Len(mid), Len(line)) = b
        BY ONLY <1>3, LineParts
      <3>2. Len(a) + 1 = m + 1 /\ Len(a) + Len(mid) = m + (skip + 1) /\ Len(line) = f
        BY <1>4, <1>5, <1>6
      <3> QED
        BY <3>1, <3>2
    <2>2. Between(w, n + 0, n + (m + 1)) = Between(line, 0, m + 1)
      <3>1. PICK z \in Nat : z = 0
        OBVIOUS
      <3>2. PICK j \in Nat : j = m + 1
        BY <1>4
      <3>3. z < j /\ j <= Len(line) + 1
        BY <1>4, <1>5, <3>1, <3>2
      <3>4. Between(t \o line, Len(t) + z, Len(t) + j) = Between(line, z, j)
        BY <1>5, <3>3, BetweenSecond
      <3> QED
        BY <1>4, <1>10, <3>1, <3>2, <3>4
    <2>3. Between(w, n + (m + (skip + 1)), n + f) = Between(line, m + (skip + 1), f)
      <3>1. m + (skip + 1) < f /\ f <= Len(line) + 1 /\ m + (skip + 1) \in Nat
        BY <1>4, <1>5, <1>6
      <3> QED
        BY <1>4, <1>5, <1>6, <1>10, <3>1, BetweenSecond
    <2>4. n + 0 = n /\ n + (m + (skip + 1)) = n + (m + 1) + skip
      BY <1>4
    <2> QED
      BY <2>1, <2>2, <2>3, <2>4
  <1>14. Split(w, middle, end, skip) = Split(t, middle, end, skip) \cup {<<a, b>>}
    <2>1. PICK q : q = <<n, n + (m + 1), n + f>>
      OBVIOUS
    <2>2. q[1] = n /\ q[2] = n + (m + 1) /\ q[3] = n + f
      BY <2>1
    <2>3. <<Between(w, q[1], q[2]), Between(w, q[2] + skip, q[3])>> = <<a, b>>
      BY <1>13, <2>2
    <2>4. Pieces(w, middle, end) = Pieces(t, middle, end) \cup {q}
      BY <1>11, <2>1
    <2> QED
      BY <1>12, <2>3, <2>4 DEF Split
  <1>15. n + (m + 1) = Len(t) + Len(a) + 1 /\ n + f = Len(t) + Len(a) + skip + 1 + Len(b) + 1
    BY <1>4, <1>6
  <1>16. /\ Complete(t \o line, middle, end)
         /\ Pieces(t \o line, middle, end) = Pieces(t, middle, end)
              \cup {<<Len(t), Len(t) + Len(a) + 1, Len(t) + Len(a) + skip + 1 + Len(b) + 1>>}
         /\ Split(t \o line, middle, end, skip) = Split(t, middle, end, skip) \cup {<<a, b>>}
    BY <1>4, <1>10, <1>11, <1>14, <1>15
  <1> QED
    BY <1>1, <1>16 DEF Adds

\* The empty line after whole pieces is no piece.
LEMMA PiecesClosed ==
  ASSUME NEW t \in Seq(Token), NEW middle, NEW end \in Token, middle # end,
         t = <<>> \/ t[Len(t)] = end
  PROVE  Pieces(t \o <<end>>, middle, end) = Pieces(t, middle, end)
  <1>1. PICK more \in Seq(Token) : more = <<end>> /\ Len(more) = 1 /\ more[1] = end
    <2>1. <<end>> \in Seq(Token) /\ Len(<<end>>) = 1 /\ <<end>>[1] = end
      OBVIOUS
    <2> QED
      BY <2>1
  <1>2. PICK w \in Seq(Token) : w = t \o more
    BY ConcatAt
  <1>3. PICK n \in Nat : w = t \o more /\ n = Len(t)
    BY <1>2
  <1>4. Len(w) = n + 1 /\ (\A i \in 1 .. n : w[i] = t[i]) /\ w[n + 1] = end
    <2>1. /\ Len(w) = Len(t) + Len(more)
          /\ \A i \in 1 .. Len(t) : w[i] = t[i]
          /\ \A i \in 1 .. Len(more) : w[Len(t) + i] = more[i]
      BY <1>3, ConcatAt
    <2>2. 1 \in 1 .. Len(more)
      BY <1>1
    <2> QED
      BY <1>1, <1>3, <2>1, <2>2
  <1>5. PICK ends : ends = Ends(t, middle, end)
    OBVIOUS
  <1>6. Ends(w, middle, end) = ends
    <2>1. ASSUME NEW r \in 1 .. n
          PROVE  r \in Ends(w, middle, end) <=> r \in Ends(t, middle, end)
      <3>1. DOMAIN w = 1 .. n + 1 /\ DOMAIN t = 1 .. n
        BY <1>3, <1>4
      <3>2. r \in DOMAIN w /\ r \in DOMAIN t /\ w[r] = t[r]
        BY <1>3, <1>4, <3>1
      <3>3. \A i \in 1 .. r - 1 : w[i] = t[i]
        BY <1>3, <1>4
      <3>4. ASSUME NEW k \in 1 .. r - 1
            PROVE  (\A i \in k .. r - 1 : w[i] # end) <=> (\A i \in k .. r - 1 : t[i] # end)
        <4>1. \A i \in k .. r - 1 : i \in 1 .. r - 1
          OBVIOUS
        <4> QED
          BY <3>3, <4>1
      <3> QED
        BY <3>2, <3>3, <3>4 DEF Ends
    <2>2. n + 1 \notin Ends(w, middle, end)
      <3>1. SUFFICES ASSUME NEW k \in 1 .. n, w[k] = middle, \A i \in k .. n : w[i] # end
                     PROVE  FALSE
        <4>1. n + 1 - 1 = n
          BY <1>3
        <4> QED
          BY <4>1 DEF Ends
      <3>2. n \in k .. n /\ w[n] = t[n] /\ n # 0
        BY <1>3, <1>4
      <3>3. t[n] = end
        BY <1>3, <3>2
      <3> QED
        BY <3>1, <3>2, <3>3
    <2>3. Ends(w, middle, end) \subseteq 1 .. n + 1 /\ Ends(t, middle, end) \subseteq 1 .. n
      BY <1>3, <1>4 DEF Ends
    <2>4. \A r \in 1 .. n + 1 : r \in 1 .. n \/ r = n + 1
      BY <1>3
    <2> QED
      BY <1>5, <2>1, <2>2, <2>3, <2>4
  <1>7. \A b \in {0} \cup ends, r \in ends :
          b < r => Find(w, middle, b + 1) = Find(t, middle, b + 1)
    BY <1>3, <1>5, FindKept
  <1>8. ASSUME NEW p PROVE p \in Pieces(w, middle, end) <=> p \in Pieces(t, middle, end)
    <2>1. p \in Pieces(w, middle, end) <=>
            \E b \in {0} \cup ends, r \in ends :
              Adjacent(b, r, ends) /\ p = <<b, Find(w, middle, b + 1), r>>
      BY <1>6, PieceOf
    <2>2. p \in Pieces(t, middle, end) <=>
            \E b \in {0} \cup ends, r \in ends :
              Adjacent(b, r, ends) /\ p = <<b, Find(t, middle, b + 1), r>>
      BY <1>5, PieceOf
    <2>3. \A b \in {0} \cup ends, r \in ends :
            Adjacent(b, r, ends) => Find(w, middle, b + 1) = Find(t, middle, b + 1)
      BY <1>7 DEF Adjacent
    <2> QED
      BY <2>1, <2>2, <2>3
  <1>9. Pieces(w, middle, end) = Pieces(t, middle, end)
    BY <1>8
  <1> QED
    BY <1>1, <1>3, <1>9

-----------------------------------------------------------------------------
(* HeaderLines. *)

\* The tokens of a text that none of a set is among.
Without(text, S) == \A i \in 1 .. Len(text) : text[i] \notin S

\* No empty line is in the text, and after the text there is one only if the text that
\* follows begins with one.
Clean(t) ==
  /\ t # <<>> => t[1] # "CRLF" /\ t[Len(t)] = "CRLF"
  /\ \A i \in 1 .. Len(t) - 1 : ~ (t[i] = "CRLF" /\ t[i + 1] = "CRLF")

\* The lines of the first k headers.
Headed(k, t, h) ==
  /\ Clean(t) /\ Complete(t, ":", "CRLF")
  /\ ParseHeaders(t) = {h[i] : i \in 1 .. k}
  /\ ~ Throws(t)

\* What stands between a key and its value.
Colon == <<":", " ">>

\* The tokens that parse_headers looks for.
LEMMA HeaderTokens ==
  /\ ":" # "CRLF" /\ " " # "CRLF" /\ "CRLF" \in Token /\ ":" \in Token /\ " " \in Token
  /\ Colon \in Seq(Token) /\ Len(Colon) = 2 /\ Colon[1] = ":" /\ Colon[2] = " "
  <1>1. "CRLF" \in Token /\ ":" \in Token /\ " " \in Token
    BY EscapePairs DEF Token, Separators
  <1>2. ":" # "CRLF" /\ " " # "CRLF"
    OBVIOUS
  <1>3. PICK x \in Token, y \in Token : x = ":" /\ y = " "
    BY <1>1
  <1>4. <<x, y>> \in Seq(Token) /\ Len(<<x, y>>) = 2 /\ <<x, y>>[1] = x /\ <<x, y>>[2] = y
    OBVIOUS
  <1>5. Colon = <<x, y>>
    BY <1>3 DEF Colon
  <1> QED
    BY <1>1, <1>2, <1>3, <1>4, <1>5

\* No header makes the empty text.
LEMMA NoHeaders ==
  ASSUME NEW h
  PROVE  Headed(0, <<>>, h)
  <1>1. Ends(<<>>, ":", "CRLF") = {}
    BY DEF Ends
  <1>2. Pieces(<<>>, ":", "CRLF") = {}
    BY <1>1 DEF Pieces
  <1>3. ParseHeaders(<<>>) = {} /\ ~ Throws(<<>>)
    BY <1>2 DEF ParseHeaders, Throws
  <1>4. {h[i] : i \in 1 .. 0} = {}
    OBVIOUS
  <1>5. Clean(<<>>) /\ Complete(<<>>, ":", "CRLF")
    BY DEF Clean, Complete
  <1> QED
    BY <1>3, <1>4, <1>5 DEF Headed

\* A header line has a line end in its last place only.
LEMMA HeaderLineShape ==
  ASSUME NEW a \in Seq(Token), NEW b \in Seq(Token),
         Without(a, {":", "CRLF"}), Without(b, {"CRLF"}),
         NEW line, line = Line(a, Colon, b, "CRLF")
  PROVE  /\ line \in Seq(Token) /\ Len(line) = Len(a) + Len(b) + 3
         /\ line[Len(line)] = "CRLF"
         /\ \A i \in 1 .. Len(line) - 1 : line[i] # "CRLF"
  <1>1. PICK mid \in Seq(Token) : mid = Colon /\ Len(mid) = 2 /\ mid[1] = ":" /\ mid[2] = " "
    BY HeaderTokens
  <1>2. PICK m \in Nat, l \in Nat : m = Len(a) /\ l = Len(b)
    OBVIOUS
  <1>3. Laid(line, a, mid, b, "CRLF")
    BY <1>1, LineShape, HeaderTokens
  <1>4. /\ line \in Seq(Token) /\ Len(line) = m + l + 3
        /\ \A i \in 1 .. m : line[i] = a[i]
        /\ \A i \in 1 .. 2 : line[m + i] = mid[i]
        /\ \A i \in 1 .. l : line[m + 2 + i] = b[i]
        /\ line[m + 2 + l + 1] = "CRLF"
    <2>1. Len(a) = m /\ Len(mid) = 2 /\ Len(b) = l
      BY <1>1, <1>2
    <2>2. m + 2 + l + 1 = m + l + 3
      OBVIOUS
    <2> QED
      BY ONLY <1>3, <2>1, <2>2 DEF Laid
  <1>5. m + 2 + l + 1 = m + l + 3
    BY <1>2
  <1>6. ASSUME NEW i \in 1 .. m + l + 2 PROVE line[i] # "CRLF"
    <2>1. CASE i <= m
      BY <1>2, <1>4, <2>1 DEF Without
    <2>2. CASE i > m /\ i <= m + 2
      <3>1. PICK k \in 1 .. 2 : i = m + k
        <4>1. i - m \in 1 .. 2 /\ i = m + (i - m)
          BY <1>2, <2>2
        <4> QED
          BY <4>1
      <3>2. mid[k] # "CRLF"
        <4>1. k = 1 \/ k = 2
          OBVIOUS
        <4> QED
          BY <1>1, <4>1, HeaderTokens
      <3> QED
        BY <1>4, <3>1, <3>2
    <2>3. CASE i > m + 2
      <3>1. PICK k \in 1 .. l : i = m + 2 + k
        <4>1. i - (m + 2) \in 1 .. l /\ i = m + 2 + (i - (m + 2))
          BY <1>2, <2>3
        <4> QED
          BY <4>1
      <3>2. b[k] # "CRLF"
        BY <1>2 DEF Without
      <3> QED
        BY <1>4, <3>1, <3>2
    <2> QED
      BY <1>2, <2>1, <2>2, <2>3
  <1>7. Len(line) - 1 = m + l + 2
    BY <1>2, <1>4
  <1> QED
    BY <1>2, <1>4, <1>5, <1>6, <1>7

\* Clean texts, one after the other.
LEMMA CleanConcat ==
  ASSUME NEW a \in Seq(Token), NEW b \in Seq(Token), Clean(a), Clean(b)
  PROVE  Clean(a \o b)
  <1>1. PICK n \in Nat, l \in Nat : n = Len(a) /\ l = Len(b)
    OBVIOUS
  <1>2. PICK w \in Seq(Token) : w = a \o b
    BY ConcatAt
  <1>3. /\ Len(w) = n + l
        /\ \A i \in 1 .. n : w[i] = a[i]
        /\ \A i \in 1 .. l : w[n + i] = b[i]
    BY <1>1, <1>2, ConcatAt
  <1>4. /\ n # 0 => a[1] # "CRLF" /\ a[n] = "CRLF"
        /\ \A i \in 1 .. n - 1 : ~ (a[i] = "CRLF" /\ a[i + 1] = "CRLF")
    BY <1>1 DEF Clean
  <1>5. /\ l # 0 => b[1] # "CRLF" /\ b[l] = "CRLF"
        /\ \A i \in 1 .. l - 1 : ~ (b[i] = "CRLF" /\ b[i + 1] = "CRLF")
    BY <1>1 DEF Clean
  <1>6. ASSUME n + l # 0 PROVE w[1] # "CRLF" /\ w[n + l] = "CRLF"
    <2>1. CASE l = 0
      BY <1>1, <1>3, <1>4, <1>6, <2>1
    <2>2. CASE l # 0
      <3>1. w[n + l] = "CRLF" /\ w[n + 1] = b[1]
        BY <1>1, <1>3, <1>5, <2>2
      <3>2. CASE n = 0
        BY <1>5, <2>2, <3>1, <3>2
      <3>3. CASE n # 0
        BY <1>1, <1>3, <1>4, <3>1, <3>3
      <3> QED
        BY <3>2, <3>3
    <2> QED
      BY <2>1, <2>2
  <1>7. ASSUME NEW i \in 1 .. n + l - 1, w[i] = "CRLF" PROVE w[i + 1] # "CRLF"
    <2>1. CASE i < n
      <3>1. i \in 1 .. n /\ i + 1 \in 1 .. n /\ i \in 1 .. n - 1
        BY <1>1, <2>1
      <3> QED
        BY <1>3, <1>4, <1>7, <3>1
    <2>2. CASE i = n
      <3>1. l # 0 /\ 1 \in 1 .. l
        BY <1>1, <2>2
      <3>2. w[n + 1] = b[1]
        BY <1>3, <3>1
      <3> QED
        BY <1>5, <2>2, <3>1, <3>2
    <2>3. CASE i > n
      <3>1. PICK k \in 1 .. l - 1 : i = n + k
        <4>1. i - n \in 1 .. l - 1 /\ i = n + (i - n)
          BY <1>1, <2>3
        <4> QED
          BY <4>1
      <3>2. k \in 1 .. l /\ k + 1 \in 1 .. l /\ i + 1 = n + (k + 1)
        BY <1>1, <3>1
      <3>3. w[n + k] = b[k] /\ w[n + (k + 1)] = b[k + 1]
        BY <1>3, <3>2
      <3> QED
        BY <1>5, <1>7, <3>1, <3>2, <3>3
    <2> QED
      BY <1>1, <2>1, <2>2, <2>3
  <1>8. Len(w) # 0 => w[1] # "CRLF" /\ w[Len(w)] = "CRLF"
    BY <1>3, <1>6
  <1>9. \A i \in 1 .. Len(w) - 1 : ~ (w[i] = "CRLF" /\ w[i + 1] = "CRLF")
    BY <1>3, <1>7
  <1>10. w # <<>> => Len(w) # 0
    OBVIOUS
  <1> QED
    BY <1>2, <1>8, <1>9, <1>10 DEF Clean

\* A line is clean.
LEMMA CleanLine ==
  ASSUME NEW line \in Seq(Token), Len(line) > 1,
         line[Len(line)] = "CRLF", \A i \in 1 .. Len(line) - 1 : line[i] # "CRLF"
  PROVE  Clean(line)
  <1>1. Len(line) \in Nat /\ 1 \in 1 .. Len(line) - 1
    OBVIOUS
  <1> QED
    BY <1>1 DEF Clean

KeyTexts == {k \in Seq(Token) : Without(k, {":", "CRLF"})}
ValueTexts == {v \in Seq(Token) : Without(v, {"CRLF"})}

\* The line of the next header is read as that header.
LEMMA HeadedAppend ==
  ASSUME NEW h \in Seq(KeyTexts \X ValueTexts), NEW k \in 0 .. Len(h) - 1,
         NEW t \in Seq(Token), Headed(k, t, h)
  PROVE  Headed(k + 1, t \o Line(h[k + 1][1], Colon, h[k + 1][2], "CRLF"), h)
  <1>1. PICK a, b : a = h[k + 1][1] /\ b = h[k + 1][2]
    OBVIOUS
  <1>2. k + 1 \in 1 .. Len(h) /\ h[k + 1] \in KeyTexts \X ValueTexts
    OBVIOUS
  <1>3. h[k + 1] = <<a, b>> /\ a \in KeyTexts /\ b \in ValueTexts
    BY <1>1, <1>2
  <1>4. a \in Seq(Token) /\ b \in Seq(Token) /\ Without(a, {":", "CRLF"}) /\ Without(b, {"CRLF"})
    BY <1>3 DEF KeyTexts, ValueTexts
  <1>5. PICK line : line = Line(a, Colon, b, "CRLF")
    OBVIOUS
  <1>6. /\ line \in Seq(Token) /\ Len(line) = Len(a) + Len(b) + 3
        /\ line[Len(line)] = "CRLF"
        /\ \A i \in 1 .. Len(line) - 1 : line[i] # "CRLF"
    BY ONLY <1>4, <1>5, HeaderLineShape
  <1>7. /\ Complete(t \o line, ":", "CRLF")
        /\ Pieces(t \o line, ":", "CRLF") = Pieces(t, ":", "CRLF")
             \cup {<<Len(t), Len(t) + Len(a) + 1, Len(t) + Len(a) + 1 + 1 + Len(b) + 1>>}
        /\ Split(t \o line, ":", "CRLF", 1) = Split(t, ":", "CRLF", 1) \cup {<<a, b>>}
    <2>1. PICK middle, end \in Token : middle = ":" /\ end = "CRLF" /\ middle # end
      BY HeaderTokens
    <2>2. PICK mid \in Seq(Token) : mid = Colon
      BY HeaderTokens
    <2>3. PICK one : one = 1
      OBVIOUS
    <2>4. one \in 0 .. 1
      BY <2>3
    <2>5. Fits(a, mid, b, middle, end, one)
      <3>1. Len(mid) = 2 /\ mid[1] = middle /\ mid[2] # end
        BY <2>1, <2>2, HeaderTokens
      <3>2. one + 1 = 2
        BY <2>3
      <3>3. /\ \A i \in 1 .. Len(a) : a[i] # middle /\ a[i] # end
            /\ \A i \in 1 .. Len(b) : b[i] # end
        BY <1>4, <2>1 DEF Without
      <3> QED
        BY <3>1, <3>2, <3>3 DEF Fits
    <2>6. Complete(t, middle, end)
      BY <2>1 DEF Headed
    <2>7. line = Line(a, mid, b, end)
      BY <1>5, <2>1, <2>2
    <2>8. Adds(t, line, middle, end, one, a, b)
      BY ONLY t \in Seq(Token), <1>4, <2>1, <2>2, <2>4, <2>5, <2>6, <2>7, SplitAppend
    <2> QED
      BY <2>1, <2>3, <2>8 DEF Adds
  <1>8. Clean(t \o line)
    <2>1. Clean(t) /\ Len(line) > 1
      <3>1. Len(a) \in Nat /\ Len(b) \in Nat
        BY <1>4
      <3>2. Len(line) > 1
        BY ONLY <1>6, <3>1
      <3>3. Clean(t)
        BY DEF Headed
      <3> QED
        BY <3>2, <3>3
    <2> QED
      BY ONLY t \in Seq(Token), <1>6, <2>1, CleanLine, CleanConcat
  <1>9. ParseHeaders(t \o line) = {h[i] : i \in 1 .. k + 1}
    <2>1. \A u : ParseHeaders(u) = Split(u, ":", "CRLF", 1)
      BY DEF ParseHeaders, Split
    <2>2. Split(t, ":", "CRLF", 1) = {h[i] : i \in 1 .. k}
      BY <2>1 DEF Headed
    <2>3. {h[i] : i \in 1 .. k + 1} = {h[i] : i \in 1 .. k} \cup {h[k + 1]}
      <3>1. 1 .. k + 1 = (1 .. k) \cup {k + 1}
        OBVIOUS
      <3> QED
        BY <3>1
    <2> QED
      BY <1>3, <1>7, <2>1, <2>2, <2>3
  <1>10. ~ Throws(t \o line)
    <2>1. PICK n, m, l : n = Len(t) /\ m = Len(a) /\ l = Len(b)
      OBVIOUS
    <2>2. n \in Nat /\ m \in Nat /\ l \in Nat
      BY <1>4, <2>1
    <2>3. PICK x, y, z : x = n /\ y = n + m + 1 /\ z = n + m + 1 + 1 + l + 1
      OBVIOUS
    <2>4. z # y + 1
      BY ONLY <2>2, <2>3
    <2>5. Pieces(t \o line, ":", "CRLF") = Pieces(t, ":", "CRLF") \cup {<<x, y, z>>}
      BY <1>7, <2>1, <2>3
    <2>6. ~ Throws(t)
      BY DEF Headed
    <2>7. ASSUME NEW p \in Pieces(t \o line, ":", "CRLF") PROVE p[3] # p[2] + 1
      <3>1. CASE p \in Pieces(t, ":", "CRLF")
        BY <2>6, <3>1 DEF Throws
      <3>2. CASE p = <<x, y, z>>
        BY <2>4, <3>2
      <3> QED
        BY <2>5, <3>1, <3>2
    <2> QED
      BY <2>7 DEF Throws
  <1> QED
    BY <1>1, <1>5, <1>7, <1>8, <1>9, <1>10 DEF Headed

\* What holds of no lines, and of a line more, holds of the header lines.
LEMMA HeaderLinesInduction ==
  ASSUME NEW headers, IsFiniteSet(headers), headers \subseteq KeyTexts \X ValueTexts,
         NEW h, h = SetToSeq(headers), NEW G, <<0, <<>>>> \in G,
         \A k \in 0 .. Len(h) - 1, t \in Seq(Token) :
           <<k, t>> \in G => <<k + 1, t \o Line(h[k + 1][1], Colon, h[k + 1][2], "CRLF")>> \in G
  PROVE  HeaderLines(headers) \in Seq(Token) /\ <<Len(h), HeaderLines(headers)>> \in G
  <1>1. h \in Seq(headers)
    BY ListedOnce
  <1>2. h \in Seq(KeyTexts \X ValueTexts)
    BY <1>1
  <1>3. PICK s : s = [i \in DOMAIN h |-> Line(h[i][1], Colon, h[i][2], "CRLF")]
    OBVIOUS
  <1>4. ASSUME NEW i \in 1 .. Len(h) PROVE Line(h[i][1], Colon, h[i][2], "CRLF") \in Seq(Token)
    <2>1. PICK a, b : a = h[i][1] /\ b = h[i][2]
      OBVIOUS
    <2>2. h[i] \in KeyTexts \X ValueTexts
      BY <1>2
    <2>3. a \in Seq(Token) /\ b \in Seq(Token)
      BY <2>1, <2>2 DEF KeyTexts, ValueTexts
    <2>4. Laid(Line(a, Colon, b, "CRLF"), a, Colon, b, "CRLF")
      BY <2>3, LineShape, HeaderTokens
    <2> QED
      BY <2>1, <2>4 DEF Laid
  <1>5. s \in Seq(Seq(Token)) /\ Len(s) = Len(h)
        /\ \A i \in 1 .. Len(h) : s[i] = Line(h[i][1], Colon, h[i][2], "CRLF")
    <2>1. DOMAIN h = 1 .. Len(h) /\ Len(h) \in Nat
      BY <1>2
    <2> QED
      BY <1>3, <1>4, <2>1
  <1>6. HeaderLines(headers) = FlattenSeq(s)
    BY <1>3 DEF HeaderLines, Header, Line, Colon
  <1>7. ASSUME NEW k \in 0 .. Len(s) - 1, NEW t \in Seq(Token), <<k, t>> \in G
        PROVE  <<k + 1, t \o s[k + 1]>> \in G
    <2>1. k \in 0 .. Len(h) - 1 /\ k + 1 \in 1 .. Len(h)
      BY <1>5
    <2> QED
      BY <1>5, <1>7, <2>1
  <1>8. FlattenSeq(s) \in Seq(Token) /\ <<Len(s), FlattenSeq(s)>> \in G
    BY <1>5, <1>7, FlattenInduction
  <1> QED
    BY <1>5, <1>6, <1>8

\* The header lines are parsed into the headers.
LEMMA HeaderLinesAre ==
  ASSUME NEW headers, IsFiniteSet(headers), headers \subseteq KeyTexts \X ValueTexts
  PROVE  /\ HeaderLines(headers) \in Seq(Token)
         /\ Clean(HeaderLines(headers)) /\ Complete(HeaderLines(headers), ":", "CRLF")
         /\ ParseHeaders(HeaderLines(headers)) = headers
         /\ ~ Throws(HeaderLines(headers))
  <1>1. PICK h : h = SetToSeq(headers)
    OBVIOUS
  <1>2. h \in Seq(headers) /\ \A x \in headers : \E i \in 1 .. Len(h) : h[i] = x
    BY <1>1, ListedOnce
  <1>3. h \in Seq(KeyTexts \X ValueTexts)
    BY <1>2
  <1> DEFINE G == {g \in Nat \X Seq(Token) : Headed(g[1], g[2], h)}
  <1>4. <<0, <<>>>> \in G
    <2>1. PICK e \in Seq(Token) : e = <<>>
      <3>1. <<>> \in Seq(Token)
        OBVIOUS
      <3> QED
        BY <3>1
    <2>2. <<0, e>> \in Nat \X Seq(Token)
      OBVIOUS
    <2> QED
      BY <2>1, <2>2, NoHeaders
  <1>5. ASSUME NEW k \in 0 .. Len(h) - 1, NEW t \in Seq(Token), <<k, t>> \in G
        PROVE  <<k + 1, t \o Line(h[k + 1][1], Colon, h[k + 1][2], "CRLF")>> \in G
    <2>1. Headed(k, t, h)
      BY <1>5
    <2>2. k + 1 \in 1 .. Len(h) /\ k + 1 \in Nat
      OBVIOUS
    <2>3. PICK u : u = t \o Line(h[k + 1][1], Colon, h[k + 1][2], "CRLF")
      OBVIOUS
    <2>4. Headed(k + 1, u, h)
      BY <1>3, <2>1, <2>3, HeadedAppend
    <2>5. u \in Seq(Token)
      <3>1. PICK a, b : a = h[k + 1][1] /\ b = h[k + 1][2]
        OBVIOUS
      <3>2. h[k + 1] \in KeyTexts \X ValueTexts
        BY <1>3, <2>2
      <3>3. a \in Seq(Token) /\ b \in Seq(Token)
        BY <3>1, <3>2 DEF KeyTexts, ValueTexts
      <3>4. PICK l \in Seq(Token) : l = Line(a, Colon, b, "CRLF")
        BY <3>3, LineShape, HeaderTokens DEF Laid
      <3> QED
        BY <2>3, <3>1, <3>4, ConcatAt
    <2> QED
      BY <2>2, <2>3, <2>4, <2>5
  <1>6. HeaderLines(headers) \in Seq(Token) /\ <<Len(h), HeaderLines(headers)>> \in G
    <2> HIDE DEF G
    <2> QED
      BY <1>1, <1>4, <1>5, HeaderLinesInduction
  <1>7. Headed(Len(h), HeaderLines(headers), h)
    BY <1>6
  <1>8. {h[i] : i \in 1 .. Len(h)} = headers
    <2>1. \A i \in 1 .. Len(h) : h[i] \in headers
      BY <1>2
    <2> QED
      BY <1>2, <2>1
  <1> QED
    BY <1>6, <1>7, <1>8 DEF Headed

\* A text of one token.
One(x) == <<x>>

\* A token as a text.
LEMMA OneIs ==
  ASSUME NEW x \in Token
  PROVE  One(x) \in Seq(Token) /\ Len(One(x)) = 1 /\ One(x)[1] = x
  BY DEF One

\* One text after the other, by a name of its own: the provers take \o apart.
Cat(a, b) == a \o b

\* Two texts make a text.
LEMMA CatType ==
  ASSUME NEW a \in Seq(Token), NEW b \in Seq(Token)
  PROVE  Cat(a, b) \in Seq(Token)
  BY DEF Cat

\* The order in which three texts are put together does not matter.
LEMMA CatAssociative ==
  ASSUME NEW a \in Seq(Token), NEW b \in Seq(Token), NEW c \in Seq(Token)
  PROVE  Cat(Cat(a, b), c) = Cat(a, Cat(b, c))
  BY ConcatAssociative DEF Cat

\* Two texts without some tokens make one without them.
LEMMA WithoutConcat ==
  ASSUME NEW a \in Seq(Token), NEW b \in Seq(Token), NEW S, Without(a, S), Without(b, S)
  PROVE  a \o b \in Seq(Token) /\ Without(a \o b, S)
  <1>1. PICK w \in Seq(Token) : w = a \o b
    BY ConcatAt
  <1>2. /\ Len(w) = Len(a) + Len(b)
        /\ \A i \in 1 .. Len(a) : w[i] = a[i]
        /\ \A i \in 1 .. Len(b) : w[Len(a) + i] = b[i]
    BY <1>1, ConcatAt
  <1>3. PICK n \in Nat, l \in Nat : n = Len(a) /\ l = Len(b)
    OBVIOUS
  <1>4. ASSUME NEW i \in 1 .. n + l PROVE w[i] \notin S
    <2>1. CASE i <= n
      BY <1>2, <1>3, <2>1 DEF Without
    <2>2. CASE i > n
      <3>1. PICK k \in 1 .. l : i = n + k
        <4>1. i - n \in 1 .. l /\ i = n + (i - n)
          BY <1>3, <2>2
        <4> QED
          BY <4>1
      <3>2. w[n + k] = b[k] /\ b[k] \notin S
        BY <1>2, <1>3 DEF Without
      <3> QED
        BY <3>1, <3>2
    <2> QED
      BY <1>3, <2>1, <2>2
  <1> QED
    BY <1>1, <1>2, <1>3, <1>4 DEF Without

\* A token that is none of some.
LEMMA WithoutOne ==
  ASSUME NEW x \in Token, NEW S, x \notin S
  PROVE  Without(One(x), S)
  <1>1. \A i \in 1 .. Len(One(x)) : i = 1
    BY OneIs
  <1> QED
    BY <1>1, OneIs DEF Without

-----------------------------------------------------------------------------
(* Parameters. *)

\* Texts without the code's escapes.
DataTexts == Seq(Token \ {e[2] : e \in Escapes})

\* What stands between the path of a URL and its end, without the question mark.
Asked(k, u, p) ==
  /\ Without(u, {" ", "?", "CRLF", ":"})
  /\ Complete(Append(u, "&"), "=", "&")
  /\ Split(Append(u, "&"), "=", "&", 0) =
       {<<Escape(p[i][1]), Escape(p[i][2])>> : i \in 1 .. k}

\* The text of the first k parameters.
AskedText(k, t, p) ==
  /\ k = 0 => t = <<>>
  /\ k # 0 => \E u \in Seq(Token) : t = One("?") \o u /\ Asked(k, u, p)

\* The tokens that parse_parameter looks for.
LEMMA ParameterTokens ==
  /\ "?" \in Token /\ "&" \in Token /\ "=" \in Token /\ "=" # "&"
  /\ "&" \notin {" ", "?", "CRLF", ":"} /\ "=" \notin {" ", "?", "CRLF", ":"}
  <1>1. "?" \in Token /\ "&" \in Token /\ "=" \in Token
    BY EscapePairs DEF Token, Separators
  <1>2. "=" # "&"
    OBVIOUS
  <1>3. "&" \notin {" ", "?", "CRLF", ":"} /\ "=" \notin {" ", "?", "CRLF", ":"}
    OBVIOUS
  <1> QED
    BY <1>1, <1>2, <1>3

\* A parameter at the end of a text of parameters.
LEMMA ParameterAdds ==
  ASSUME NEW u \in Seq(Token), Complete(u, "=", "&"), NEW a \in Seq(Token), NEW b \in Seq(Token),
         Without(a, Separators), Without(b, Separators)
  PROVE  Adds(u, Line(a, One("="), b, "&"), "=", "&", 0, a, b)
  <1>1. PICK middle, end \in Token : middle = "=" /\ end = "&" /\ middle # end
    BY ParameterTokens
  <1>2. PICK mid \in Seq(Token) : mid = One("=") /\ Len(mid) = 1 /\ mid[1] = middle
    BY <1>1, ParameterTokens, OneIs
  <1>3. PICK none : none = 0
    OBVIOUS
  <1>4. none \in 0 .. 1 /\ none + 1 = 1 /\ none # 1
    BY <1>3
  <1>5. middle \in Separators /\ end \in Separators
    BY <1>1, EscapePairs
  <1>6. Fits(a, mid, b, middle, end, none)
    BY <1>2, <1>4, <1>5 DEF Fits, Without
  <1>7. Complete(u, middle, end)
    BY <1>1
  <1>8. a \in Seq(Token) /\ b \in Seq(Token) /\ u \in Seq(Token)
    OBVIOUS
  <1>9. Adds(u, Line(a, mid, b, end), middle, end, none, a, b)
    BY ONLY <1>8, <1>1, <1>2, <1>4, <1>6, <1>7, SplitAppend
  <1> QED
    BY <1>1, <1>2, <1>3, <1>9

\* The text of the next parameter is read as that parameter.
LEMMA AskedAppend ==
  ASSUME NEW p \in Seq(DataTexts \X DataTexts), NEW k \in 0 .. Len(p) - 1,
         NEW t \in Seq(Token), AskedText(k, t, p),
         NEW a, a = Escape(p[k + 1][1]), NEW b, b = Escape(p[k + 1][2])
  PROVE  AskedText(k + 1, t \o (One(IF k + 1 = 1 THEN "?" ELSE "&") \o a \o One("=") \o b), p)
  <1>1. k + 1 \in 1 .. Len(p) /\ k + 1 # 0 /\ p[k + 1] \in DataTexts \X DataTexts
    OBVIOUS
  <1>2. p[k + 1][1] \in Seq(Token) /\ p[k + 1][2] \in Seq(Token)
    BY <1>1 DEF DataTexts
  <1>3. /\ a \in Seq(Token) /\ b \in Seq(Token)
        /\ Without(a, Separators) /\ Without(b, Separators)
    BY <1>2, EscapeClean DEF Without
  <1>4. {" ", "?", "CRLF", ":"} \subseteq Separators
    BY EscapePairs
  <1>5. Without(a, {" ", "?", "CRLF", ":"}) /\ Without(b, {" ", "?", "CRLF", ":"})
    BY <1>3, <1>4 DEF Without
  <1>6. PICK S : S = {" ", "?", "CRLF", ":"} /\ "&" \notin S /\ "=" \notin S
    BY ParameterTokens
  <1>7. PICK eq \in Seq(Token), qm \in Seq(Token), amp \in Seq(Token) :
          /\ eq = One("=") /\ qm = One("?") /\ amp = One("&")
          /\ Without(eq, S) /\ Without(amp, S)
    BY <1>6, ParameterTokens, OneIs, WithoutOne
  <1>8. PICK core \in Seq(Token) : core = a \o eq \o b /\ Without(core, S)
    <2>1. a \o eq \in Seq(Token) /\ Without(a \o eq, S)
      BY <1>3, <1>5, <1>6, <1>7, WithoutConcat
    <2>2. (a \o eq) \o b \in Seq(Token) /\ Without((a \o eq) \o b, S)
      BY <1>3, <1>5, <1>6, <2>1, WithoutConcat
    <2> QED
      BY <2>2
  <1>9. core \o amp = Line(a, eq, b, "&")
    BY <1>7, <1>8 DEF Line, One
  <1>10. \A u \in Seq(Token) : Append(u, "&") = u \o amp
    BY <1>7, ParameterTokens, AppendIsConcat DEF One
  <1>11. {<<Escape(p[i][1]), Escape(p[i][2])>> : i \in 1 .. k + 1} =
           {<<Escape(p[i][1]), Escape(p[i][2])>> : i \in 1 .. k} \cup {<<a, b>>}
    <2>1. 1 .. k + 1 = (1 .. k) \cup {k + 1}
      OBVIOUS
    <2> QED
      BY <2>1
  <1>12. \A c \in Seq(Token) : c \o a \o eq \o b = c \o core
    <2>1. TAKE c \in Seq(Token)
    <2>2. Cat(Cat(Cat(c, a), eq), b) = Cat(c, Cat(Cat(a, eq), b))
      <3>1. Cat(a, eq) \in Seq(Token)
        BY <1>3, CatType
      <3>2. Cat(Cat(c, a), eq) = Cat(c, Cat(a, eq))
        BY <1>3, CatAssociative
      <3>3. Cat(Cat(c, Cat(a, eq)), b) = Cat(c, Cat(Cat(a, eq), b))
        BY <1>3, <3>1, CatAssociative
      <3> QED
        BY <3>2, <3>3
    <2> QED
      BY <1>8, <2>2 DEF Cat
  <1>13. CASE k = 0
    <2>1. t = <<>>
      BY <1>13 DEF AskedText
    <2>2. t \o (One(IF k + 1 = 1 THEN "?" ELSE "&") \o a \o One("=") \o b) = One("?") \o core
      <3>1. One(IF k + 1 = 1 THEN "?" ELSE "&") = qm
        BY <1>7, <1>13
      <3>2. qm \o a \o eq \o b = qm \o core /\ qm \o core \in Seq(Token)
        BY <1>12, ConcatAt
      <3>3. <<>> \o (qm \o core) = qm \o core
        BY <3>2, ConcatEmptySeq
      <3> QED
        BY <1>7, <2>1, <3>1, <3>2, <3>3
    <2>3. PICK none \in Seq(Token) : none = <<>>
      BY <2>1
    <2>4. Ends(none, "=", "&") = {}
      BY <2>3 DEF Ends
    <2>5. Complete(none, "=", "&") /\ Split(none, "=", "&", 0) = {}
      BY <2>3, <2>4 DEF Complete, Split, Pieces
    <2>6. Adds(none, core \o amp, "=", "&", 0, a, b)
      BY <1>3, <1>7, <1>9, <2>5, ParameterAdds
    <2>7. none \o (core \o amp) = core \o amp
      <3>1. core \o amp \in Seq(Token)
        BY ConcatAt
      <3> QED
        BY <2>3, <3>1, ConcatEmptySeq
    <2>8. {<<Escape(p[i][1]), Escape(p[i][2])>> : i \in 1 .. k} = {}
      BY <1>13
    <2>9. Asked(k + 1, core, p)
      <3>1. Append(core, "&") = core \o amp
        BY <1>10
      <3>2. Complete(core \o amp, "=", "&") /\ Split(core \o amp, "=", "&", 0) = {<<a, b>>}
        BY <2>5, <2>6, <2>7 DEF Adds
      <3> QED
        BY <1>6, <1>8, <1>11, <2>8, <3>1, <3>2 DEF Asked
    <2> QED
      BY <1>1, <2>2, <2>9 DEF AskedText
  <1>14. CASE k # 0
    <2>1. PICK u \in Seq(Token) : t = One("?") \o u /\ Asked(k, u, p)
      BY <1>14 DEF AskedText
    <2>2. PICK v \in Seq(Token) : v = u \o (amp \o core) /\ Without(v, S)
      <3>1. amp \o core \in Seq(Token) /\ Without(amp \o core, S)
        BY <1>7, <1>8, WithoutConcat
      <3>2. Without(u, S)
        BY <1>6, <2>1 DEF Asked
      <3> QED
        BY <3>1, <3>2, WithoutConcat
    <2>3. t \o (One(IF k + 1 = 1 THEN "?" ELSE "&") \o a \o One("=") \o b) = One("?") \o v
      <3>1. One(IF k + 1 = 1 THEN "?" ELSE "&") = amp
        BY <1>7, <1>14
      <3>2. amp \o a \o eq \o b = amp \o core /\ amp \o core \in Seq(Token)
        BY <1>12, ConcatAt
      <3>3. Cat(Cat(qm, u), Cat(amp, core)) = Cat(qm, Cat(u, Cat(amp, core)))
        BY CatType, CatAssociative
      <3> QED
        BY <1>7, <2>1, <2>2, <3>1, <3>2, <3>3 DEF Cat
    <2>4. Append(v, "&") = Append(u, "&") \o (core \o amp)
      <3>1. Append(v, "&") = (u \o (amp \o core)) \o amp /\ Append(u, "&") = u \o amp
        BY <1>10, <2>2
      <3>2. Cat(Cat(u, Cat(amp, core)), amp) = Cat(Cat(u, amp), Cat(core, amp))
        <4>1. Cat(Cat(u, Cat(amp, core)), amp) = Cat(u, Cat(Cat(amp, core), amp))
          BY CatType, CatAssociative
        <4>2. Cat(u, Cat(amp, Cat(core, amp))) = Cat(Cat(u, amp), Cat(core, amp))
          BY CatType, CatAssociative
        <4> QED
          BY <4>1, <4>2, CatAssociative
      <3> QED
        BY <3>1, <3>2 DEF Cat
    <2>5. Append(u, "&") \in Seq(Token) /\ Complete(Append(u, "&"), "=", "&")
      <3>1. Append(u, "&") \in Seq(Token)
        BY ParameterTokens, AppendProperties
      <3> QED
        BY <2>1, <3>1 DEF Asked
    <2>6. Adds(Append(u, "&"), core \o amp, "=", "&", 0, a, b)
      BY <1>3, <1>7, <1>9, <2>5, ParameterAdds
    <2>7. Asked(k + 1, v, p)
      BY <1>6, <1>11, <2>1, <2>2, <2>4, <2>6 DEF Asked, Adds
    <2> QED
      BY <1>1, <2>3, <2>7 DEF AskedText
  <1> QED
    BY <1>13, <1>14

\* The parameters are parsed from their text.
LEMMA ParametersAre ==
  ASSUME NEW params, IsFiniteSet(params), params \subseteq DataTexts \X DataTexts
  PROVE  /\ Parameters(params) \in Seq(Token)
         /\ params = {} => Parameters(params) = <<>>
         /\ params # {} => \E u \in Seq(Token) :
              /\ Parameters(params) = One("?") \o u
              /\ Without(u, {" ", "?", "CRLF", ":"}) /\ ParseParameter(u) = params
  <1>1. PICK p : p = SetToSeq(params)
    OBVIOUS
  <1>2. p \in Seq(params) /\ \A x \in params : \E i \in 1 .. Len(p) : p[i] = x
    BY <1>1, ListedOnce
  <1>3. p \in Seq(DataTexts \X DataTexts)
    BY <1>2
  <1> DEFINE Part(i) == One(IF i = 1 THEN "?" ELSE "&") \o Escape(p[i][1]) \o One("=") \o Escape(p[i][2])
  <1>4. PICK s : s = [i \in DOMAIN p |-> Part(i)]
    OBVIOUS
  <1>5. ASSUME NEW i \in 1 .. Len(p) PROVE Part(i) \in Seq(Token)
    <2>1. p[i] \in DataTexts \X DataTexts
      BY <1>3
    <2>2. p[i][1] \in Seq(Token) /\ p[i][2] \in Seq(Token)
      BY <2>1 DEF DataTexts
    <2>3. PICK a \in Seq(Token), b \in Seq(Token) : a = Escape(p[i][1]) /\ b = Escape(p[i][2])
      BY <2>2, EscapeClean
    <2>4. PICK c \in Seq(Token), eq \in Seq(Token) :
            c = One(IF i = 1 THEN "?" ELSE "&") /\ eq = One("=")
      BY ParameterTokens, OneIs
    <2>5. c \o a \o eq \o b \in Seq(Token)
      <3>1. c \o a \in Seq(Token)
        BY ConcatAt
      <3>2. (c \o a) \o eq \in Seq(Token)
        BY <3>1, ConcatAt
      <3> QED
        BY <3>2, ConcatAt
    <2> QED
      BY <2>3, <2>4, <2>5
  <1>6. /\ s \in Seq(Seq(Token)) /\ Len(s) = Len(p)
        /\ \A i \in 1 .. Len(p) : s[i] = Part(i)
    <2>1. DOMAIN p = 1 .. Len(p) /\ Len(p) \in Nat
      BY <1>3
    <2> HIDE DEF Part
    <2> QED
      BY <1>4, <1>5, <2>1
  <1>7. Parameters(params) = FlattenSeq(s)
    <2>1. s = [i \in DOMAIN p |->
             <<IF i = 1 THEN "?" ELSE "&">> \o Escape(p[i][1]) \o <<"=">> \o Escape(p[i][2])]
      BY <1>4 DEF One
    <2> HIDE DEF Part
    <2> QED
      BY <1>1, <2>1 DEF Parameters
  <1> DEFINE G == {g \in Nat \X Seq(Token) : AskedText(g[1], g[2], p)}
  <1>8. <<0, <<>>>> \in G
    <2>1. PICK e \in Seq(Token) : e = <<>>
      <3>1. <<>> \in Seq(Token)
        OBVIOUS
      <3> QED
        BY <3>1
    <2>2. <<0, e>> \in Nat \X Seq(Token) /\ AskedText(0, e, p)
      BY <2>1 DEF AskedText
    <2> QED
      BY <2>1, <2>2
  <1>9. ASSUME NEW k \in 0 .. Len(s) - 1, NEW t \in Seq(Token), <<k, t>> \in G
        PROVE  <<k + 1, t \o s[k + 1]>> \in G
    <2>1. AskedText(k, t, p)
      BY <1>9
    <2>2. k \in 0 .. Len(p) - 1 /\ k + 1 \in 1 .. Len(p) /\ k + 1 \in Nat
      BY <1>6
    <2>3. AskedText(k + 1, t \o Part(k + 1), p)
      BY <1>3, <2>1, <2>2, AskedAppend
    <2>4. PICK u : u = t \o s[k + 1]
      OBVIOUS
    <2>5. u \in Seq(Token)
      <3>1. s[k + 1] \in Seq(Token)
        BY <1>6, <2>2
      <3> QED
        BY <2>4, <3>1, ConcatAt
    <2>6. AskedText(k + 1, u, p)
      <3>1. s[k + 1] = Part(k + 1)
        BY <1>6, <2>2
      <3> HIDE DEF Part
      <3> QED
        BY <2>3, <2>4, <3>1
    <2> QED
      BY <2>2, <2>4, <2>5, <2>6
  <1>10. FlattenSeq(s) \in Seq(Token) /\ <<Len(s), FlattenSeq(s)>> \in G
    <2> HIDE DEF G, Part
    <2> QED
      BY <1>6, <1>8, <1>9, FlattenInduction
  <1>11. AskedText(Len(p), FlattenSeq(s), p)
    BY <1>6, <1>10
  <1>12. params = {p[i] : i \in 1 .. Len(p)}
    <2>1. \A i \in 1 .. Len(p) : p[i] \in params
      BY <1>2
    <2> QED
      BY <1>2, <2>1
  <1>13. CASE params = {}
    <2>1. Len(p) = 0
      <3>1. Len(p) \in Nat /\ \A i \in 1 .. Len(p) : p[i] \in params
        BY <1>2
      <3>2. Len(p) # 0 => 1 \in 1 .. Len(p)
        BY <3>1
      <3> QED
        BY <1>13, <3>1, <3>2
    <2> QED
      BY <1>7, <1>10, <1>11, <1>13, <2>1 DEF AskedText
  <1>14. CASE params # {}
    <2>1. Len(p) # 0
      <3>1. PICK x \in params : TRUE
        BY <1>14
      <3>2. PICK i \in 1 .. Len(p) : p[i] = x
        BY <1>2
      <3> QED
        BY <1>3, <3>2
    <2>2. PICK u \in Seq(Token) : FlattenSeq(s) = One("?") \o u /\ Asked(Len(p), u, p)
      BY <1>11, <2>1 DEF AskedText
    <2>3. PICK v \in Seq(Token) : v = Append(u, "&")
      BY ParameterTokens, AppendProperties
    <2>4. Split(v, "=", "&", 0) = {<<Escape(p[i][1]), Escape(p[i][2])>> : i \in 1 .. Len(p)}
      BY <2>2, <2>3 DEF Asked
    <2>5. ParseParameter(u) = {<<Unescape(q[1]), Unescape(q[2])>> : q \in Split(v, "=", "&", 0)}
      <3>1. \A q \in Pieces(v, "=", "&") : q[2] + 0 = q[2]
        BY PieceShape, ParameterTokens
      <3>2. ParseParameter(u) =
              {<<Unescape(Between(v, q[1], q[2])), Unescape(Between(v, q[2], q[3]))>> :
                 q \in Pieces(v, "=", "&")}
        BY <2>3 DEF ParseParameter
      <3>3. Split(v, "=", "&", 0) =
              {<<Between(v, q[1], q[2]), Between(v, q[2], q[3])>> : q \in Pieces(v, "=", "&")}
        BY <3>1 DEF Split
      <3>4. ASSUME NEW x \in ParseParameter(u)
            PROVE  \E q \in Split(v, "=", "&", 0) : x = <<Unescape(q[1]), Unescape(q[2])>>
        <4>1. PICK q \in Pieces(v, "=", "&") :
                x = <<Unescape(Between(v, q[1], q[2])), Unescape(Between(v, q[2], q[3]))>>
          BY <3>2
        <4>2. PICK r : r = <<Between(v, q[1], q[2]), Between(v, q[2], q[3])>>
          OBVIOUS
        <4>3. r \in Split(v, "=", "&", 0) /\ x = <<Unescape(r[1]), Unescape(r[2])>>
          BY <3>3, <4>1, <4>2
        <4> QED
          BY <4>3
      <3>5. ASSUME NEW r \in Split(v, "=", "&", 0)
            PROVE  <<Unescape(r[1]), Unescape(r[2])>> \in ParseParameter(u)
        <4>1. PICK q \in Pieces(v, "=", "&") :
                r = <<Between(v, q[1], q[2]), Between(v, q[2], q[3])>>
          BY <3>3
        <4>2. r[1] = Between(v, q[1], q[2]) /\ r[2] = Between(v, q[2], q[3])
          BY <4>1
        <4> QED
          BY <3>2, <4>2
      <3> QED
        BY <3>4, <3>5
    <2>6. \A i \in 1 .. Len(p) :
            /\ Unescape(Escape(p[i][1])) = p[i][1] /\ Unescape(Escape(p[i][2])) = p[i][2]
            /\ p[i] = <<p[i][1], p[i][2]>>
      <3>1. TAKE i \in 1 .. Len(p)
      <3>2. p[i] \in DataTexts \X DataTexts
        BY <1>3
      <3>3. p[i][1] \in DataTexts /\ p[i][2] \in DataTexts /\ p[i] = <<p[i][1], p[i][2]>>
        BY <3>2
      <3> QED
        BY <3>3, EscapeInverse DEF DataTexts
    <2>7. ParseParameter(u) = {p[i] : i \in 1 .. Len(p)}
      <3>1. ASSUME NEW i \in 1 .. Len(p) PROVE p[i] \in ParseParameter(u)
        <4>1. PICK q \in Split(v, "=", "&", 0) : q[1] = Escape(p[i][1]) /\ q[2] = Escape(p[i][2])
          <5>1. PICK q : q = <<Escape(p[i][1]), Escape(p[i][2])>>
            OBVIOUS
          <5>2. q \in Split(v, "=", "&", 0)
            BY <2>4, <5>1
          <5>3. q[1] = Escape(p[i][1]) /\ q[2] = Escape(p[i][2])
            BY <5>1
          <5> QED
            BY <5>2, <5>3
        <4>2. <<Unescape(q[1]), Unescape(q[2])>> = p[i]
          BY <2>6, <4>1
        <4> QED
          BY <2>5, <4>2
      <3>2. ASSUME NEW x \in ParseParameter(u) PROVE \E i \in 1 .. Len(p) : x = p[i]
        <4>1. PICK q \in Split(v, "=", "&", 0) : x = <<Unescape(q[1]), Unescape(q[2])>>
          BY <2>5
        <4>2. PICK i \in 1 .. Len(p) : q = <<Escape(p[i][1]), Escape(p[i][2])>>
          BY <2>4
        <4>3. q[1] = Escape(p[i][1]) /\ q[2] = Escape(p[i][2])
          BY <4>2
        <4>4. x = p[i]
          BY <2>6, <4>1, <4>3
        <4> QED
          BY <4>4
      <3> QED
        BY <3>1, <3>2
    <2> QED
      BY <1>7, <1>10, <1>12, <1>14, <2>2, <2>7 DEF Asked
  <1> QED
    BY <1>13, <1>14

\* The text x stands in w after its first k tokens.
Placed(w, k, x) ==
  /\ w \in Seq(Token) /\ x \in Seq(Token) /\ k \in Nat /\ k + Len(x) <= Len(w)
  /\ \A i \in 1 .. Len(x) : w[k + i] = x[i]

\* A text is what is cut out where it stands.
LEMMA PlacedCut ==
  ASSUME NEW w, NEW k, NEW x, Placed(w, k, x)
  PROVE  SubSeq(w, k + 1, k + Len(x)) = x
  <1>1. PICK n \in Nat : n = Len(x)
    BY DEF Placed
  <1>2. /\ w \in Seq(Token) /\ x \in Seq(Token) /\ k \in Nat
        /\ \A i \in 1 .. n : w[k + i] = x[i]
    BY <1>1 DEF Placed
  <1>3. SubSeq(w, k + 1, k + n) = [i \in 1 .. n |-> w[k + i]]
    BY <1>2, Z3
  <1>4. x = [i \in 1 .. n |-> x[i]]
    BY <1>1, <1>2
  <1>5. [i \in 1 .. n |-> w[k + i]] = [i \in 1 .. n |-> x[i]]
    BY <1>2
  <1> QED
    BY <1>1, <1>3, <1>4, <1>5

\* The first of two texts stands where both of them stand.
LEMMA PlacedFirst ==
  ASSUME NEW a, NEW k, NEW x, Placed(a, k, x), NEW b \in Seq(Token)
  PROVE  Placed(a \o b, k, x)
  <1>1. PICK n \in Nat, m \in Nat, l \in Nat : n = Len(x) /\ m = Len(a) /\ l = Len(b)
    BY DEF Placed
  <1>2. /\ a \in Seq(Token) /\ x \in Seq(Token) /\ k \in Nat /\ k + n <= m
        /\ \A i \in 1 .. n : a[k + i] = x[i]
    BY <1>1 DEF Placed
  <1>3. PICK w \in Seq(Token) : w = a \o b
    BY <1>2, ConcatAt
  <1>4. Len(w) = m + l /\ \A i \in 1 .. m : w[i] = a[i]
    BY <1>1, <1>2, <1>3, ConcatAt
  <1>5. \A i \in 1 .. n : k + i \in 1 .. m
    BY <1>2
  <1>6. k + n <= m + l
    BY <1>2
  <1> QED
    BY <1>1, <1>2, <1>3, <1>4, <1>5, <1>6 DEF Placed

\* The second of two texts stands behind the first.
LEMMA PlacedLast ==
  ASSUME NEW a \in Seq(Token), NEW b \in Seq(Token)
  PROVE  Placed(a \o b, Len(a), b)
  <1>1. PICK w \in Seq(Token) : w = a \o b
    BY ConcatAt
  <1>2. Len(w) = Len(a) + Len(b) /\ \A i \in 1 .. Len(b) : w[Len(a) + i] = b[i]
    BY <1>1, ConcatAt
  <1> QED
    BY <1>1, <1>2 DEF Placed

\* A text stands at its own beginning.
LEMMA PlacedAll ==
  ASSUME NEW a \in Seq(Token)
  PROVE  Placed(a, 0, a)
  <1>1. PICK z \in Nat : z = 0
    OBVIOUS
  <1>2. \A i \in 1 .. Len(a) : z + i = i
    BY <1>1
  <1> QED
    BY <1>1, <1>2 DEF Placed

-----------------------------------------------------------------------------
(* The head of a text: clean lines and the empty one. *)

\* The headers end where the clean lines do, whatever follows the empty line.
LEMMA HeadEnds ==
  ASSUME NEW x \in Seq(Token), Clean(x), x # <<>>, NEW c \in Seq(Token)
  PROVE  HeaderEnd((x \o One("CRLF")) \o c) = Len(x)
  <1>1. PICK n \in Nat : n = Len(x) /\ n # 0
    OBVIOUS
  <1>2. PICK one \in Seq(Token) : one = One("CRLF") /\ Len(one) = 1 /\ one[1] = "CRLF"
    BY HeaderTokens, OneIs
  <1>3. PICK h \in Seq(Token) : h = x \o one
    BY ConcatAt
  <1>4. Len(h) = n + 1 /\ (\A i \in 1 .. n : h[i] = x[i]) /\ h[n + 1] = "CRLF"
    <2>1. /\ Len(h) = Len(x) + Len(one)
          /\ \A i \in 1 .. Len(x) : h[i] = x[i]
          /\ \A i \in 1 .. Len(one) : h[Len(x) + i] = one[i]
      BY <1>3, ConcatAt
    <2>2. 1 \in 1 .. Len(one)
      BY <1>2
    <2> QED
      BY <1>1, <1>2, <2>1, <2>2
  <1>5. PICK w \in Seq(Token) : w = h \o c
    BY ConcatAt
  <1>6. Len(w) = Len(h) + Len(c) /\ \A i \in 1 .. Len(h) : w[i] = h[i]
    BY <1>5, ConcatAt
  <1>7. n < Len(w) /\ \A i \in 1 .. n + 1 : w[i] = h[i]
    BY <1>1, <1>4, <1>6
  <1>8. w[n] = "CRLF" /\ w[n + 1] = "CRLF"
    <2>1. n \in 1 .. n + 1 /\ n + 1 \in 1 .. n + 1 /\ n \in 1 .. n
      BY <1>1
    <2>2. x[n] = "CRLF"
      BY <1>1 DEF Clean
    <2> QED
      BY <1>4, <1>7, <2>1, <2>2
  <1>9. ASSUME NEW i \in 1 .. n - 1 PROVE ~ (w[i] = "CRLF" /\ w[i + 1] = "CRLF")
    <2>1. i \in 1 .. n /\ i + 1 \in 1 .. n /\ i \in 1 .. n + 1 /\ i + 1 \in 1 .. n + 1
      BY <1>1
    <2>2. w[i] = x[i] /\ w[i + 1] = x[i + 1]
      BY <1>4, <1>7, <2>1
    <2>3. ~ (x[i] = "CRLF" /\ x[i + 1] = "CRLF")
      BY <1>1 DEF Clean
    <2> QED
      BY <2>2, <2>3
  <1>10. HeaderEnd(w) = n
    BY <1>1, <1>7, <1>8, <1>9, HeaderEndIs
  <1> QED
    BY <1>1, <1>2, <1>3, <1>5, <1>10

\* No part of a text that ends before its head does has an end of the headers.
LEMMA HeadCut ==
  ASSUME NEW w \in Seq(Token), NEW n \in 0 .. Len(w), n <= HeaderEnd(w)
  PROVE  HeaderEnd(SubSeq(w, 1, n)) = 0
  <1>1. PICK d \in Seq(Token) : d = SubSeq(w, 1, n)
    <2>1. SubSeq(w, 1, n) \in Seq(Token)
      OBVIOUS
    <2> QED
      BY <2>1
  <1>2. Len(d) = n /\ \A i \in 1 .. n : d[i] = w[i]
    BY <1>1
  <1>3. PICK e, f : e = HeaderEnd(d) /\ f = HeaderEnd(w)
    OBVIOUS
  <1>4. SUFFICES ASSUME e # 0 PROVE FALSE
    BY <1>1, <1>3
  <1>5. e \in 1 .. n /\ e < n /\ d[e] = "CRLF" /\ d[e + 1] = "CRLF"
    BY <1>2, <1>3, <1>4, HeaderEndRange
  <1>6. e + 1 \in 1 .. n /\ w[e] = "CRLF" /\ w[e + 1] = "CRLF"
    BY <1>2, <1>5
  <1> DEFINE ends == {i \in 1 .. Len(w) - 1 : w[i] = "CRLF" /\ w[i + 1] = "CRLF"}
  <1>7. e \in ends
    BY <1>5, <1>6
  <1>8. \A j \in ends : f <= j
    <2>1. f = CHOOSE i \in ends : \A j \in ends : i <= j
      BY <1>3, <1>7 DEF HeaderEnd
    <2>2. PICK i \in ends : \A j \in ends : i <= j
      <3>1. ends \subseteq Nat
        OBVIOUS
      <3> HIDE DEF ends
      <3> QED
        BY <1>7, <3>1, LeastElement
    <2> HIDE DEF ends
    <2> QED
      BY <2>1, <2>2
  <1>9. f <= e /\ n <= f /\ e \in Nat /\ f \in Nat
    BY <1>3, <1>5, <1>7, <1>8, HeaderEndRange
  <1> QED
    BY <1>5, <1>9

\* The fixed parts of the first line.
LineStart(m) == <<m, " ">>
LineFinish(v) == <<" ", "HTTP", "/", v, "CRLF">>

\* The tokens of a first line.
LEMMA LineTokens ==
  /\ "GET" \in Token /\ "POST" \in Token /\ "HTTP" \in Token /\ "/" \in Token
  /\ "1.0" \in Token /\ "1.1" \in Token /\ " " \in Token /\ "CRLF" \in Token
  BY HeaderTokens DEF Token

\* The tokens before the path.
LEMMA StartIs ==
  ASSUME NEW m \in {"GET", "POST"}
  PROVE  /\ LineStart(m) \in Seq(Token) /\ Len(LineStart(m)) = 2
         /\ LineStart(m)[1] = m /\ LineStart(m)[2] = " "
  <1>1. PICK x \in Token, y \in Token : x = m /\ y = " "
    BY LineTokens
  <1>2. <<x, y>> \in Seq(Token) /\ Len(<<x, y>>) = 2 /\ <<x, y>>[1] = x /\ <<x, y>>[2] = y
    OBVIOUS
  <1>3. LineStart(m) = <<x, y>>
    BY <1>1 DEF LineStart
  <1> QED
    BY <1>1, <1>2, <1>3

\* The tokens behind the URL.
LEMMA FinishIs ==
  ASSUME NEW v \in {"1.0", "1.1"}
  PROVE  /\ LineFinish(v) \in Seq(Token) /\ Len(LineFinish(v)) = 5
         /\ LineFinish(v)[1] = " " /\ LineFinish(v)[2] = "HTTP" /\ LineFinish(v)[3] = "/"
         /\ LineFinish(v)[4] = v /\ LineFinish(v)[5] = "CRLF"
  <1>1. PICK a \in Token, b \in Token, c \in Token, d \in Token, e \in Token :
          a = " " /\ b = "HTTP" /\ c = "/" /\ d = v /\ e = "CRLF"
    BY LineTokens
  <1>2. PICK f : f = <<a, b, c, d, e>>
    OBVIOUS
  <1>3. /\ f \in Seq(Token) /\ Len(f) = 5
        /\ f[1] = a /\ f[2] = b /\ f[3] = c /\ f[4] = d /\ f[5] = e
    BY <1>2
  <1>4. LineFinish(v) = f
    BY <1>1, <1>2 DEF LineFinish
  <1> QED
    BY <1>1, <1>3, <1>4

\* The parts of a first line, in their places.
FirstLinePlaced(w, m, path, ps, v) ==
  /\ m \in {"GET", "POST"} /\ v \in {"1.0", "1.1"}
  /\ Placed(w, 0, LineStart(m)) /\ Placed(w, 2, path) /\ Placed(w, 2 + Len(path), ps)
  /\ Placed(w, 2 + Len(path) + Len(ps), LineFinish(v))
  /\ Without(path, Separators) /\ Without(ps, {" ", "CRLF"})
  /\ ps = <<>> \/ ps[1] = "?"

\* What parse_get finds in a first line with a path of p tokens and q for the parameters.
FirstRead(w, m, v, p, q) ==
  /\ w[1] = m /\ w[p + q + 4] = "HTTP" /\ w[p + q + 6] = v
  /\ Find(w, " ", 1) = 2 /\ Find(w, " ", 3) = p + q + 3
  /\ Find(w, "/", p + q + 4) = p + q + 5 /\ Find(w, "CRLF", 1) = p + q + 7

\* parse_get finds the parts of a first line.
LEMMA FirstLineRead ==
  ASSUME NEW w, NEW m, NEW path, NEW ps, NEW v, FirstLinePlaced(w, m, path, ps, v),
         NEW p \in Nat, NEW q \in Nat, p = Len(path), q = Len(ps)
  PROVE  FirstRead(w, m, v, p, q)
  <1>1. w \in Seq(Token) /\ path \in Seq(Token) /\ ps \in Seq(Token) /\ p \in Nat /\ q \in Nat
    BY DEF FirstLinePlaced, Placed
  <1>2. w[1] = m /\ w[2] = " "
    <2>1. Len(LineStart(m)) = 2 /\ LineStart(m)[1] = m /\ LineStart(m)[2] = " "
      BY StartIs DEF FirstLinePlaced
    <2>2. \A i \in 1 .. 2 : w[0 + i] = LineStart(m)[i]
      BY <2>1 DEF FirstLinePlaced, Placed
    <2>3. 0 + 1 = 1 /\ 0 + 2 = 2 /\ 1 \in 1 .. 2 /\ 2 \in 1 .. 2
      OBVIOUS
    <2>4. w[1] = LineStart(m)[1] /\ w[2] = LineStart(m)[2]
      BY ONLY <2>2, <2>3
    <2> QED
      BY ONLY <2>1, <2>4
  <1>3. \A i \in 1 .. p : w[2 + i] = path[i]
    BY DEF FirstLinePlaced, Placed
  <1>4. \A i \in 1 .. q : w[2 + p + i] = ps[i]
    BY DEF FirstLinePlaced, Placed
  <1>5. PICK u \in Nat : u = 2 + p + q
    BY <1>1
  <1>6. /\ w[u + 1] = " " /\ w[u + 2] = "HTTP" /\ w[u + 3] = "/"
        /\ w[u + 4] = v /\ w[u + 5] = "CRLF"
    <2>1. PICK f : f = LineFinish(v)
      OBVIOUS
    <2>2. /\ f \in Seq(Token) /\ Len(f) = 5 /\ f[1] = " " /\ f[2] = "HTTP" /\ f[3] = "/"
          /\ f[4] = v /\ f[5] = "CRLF"
      BY <2>1, FinishIs DEF FirstLinePlaced
    <2>3. Placed(w, u, f)
      BY <1>5, <2>1 DEF FirstLinePlaced
    <2>4. Len(f) = 5
      BY <2>2
    <2>5. \A i \in 1 .. 5 : w[u + i] = f[i]
      BY <2>3, <2>4 DEF Placed
    <2>6. /\ w[u + 1] = f[1] /\ w[u + 2] = f[2] /\ w[u + 3] = f[3]
          /\ w[u + 4] = f[4] /\ w[u + 5] = f[5]
      BY ONLY <2>5
    <2> QED
      BY ONLY <2>2, <2>6
  <1>7. u + 5 <= Len(w)
    <2>1. Len(LineFinish(v)) = 5 /\ Placed(w, u, LineFinish(v))
      BY <1>5, FinishIs DEF FirstLinePlaced
    <2> QED
      BY ONLY <1>5, <2>1 DEF Placed
  <1>8. m # " " /\ m # "CRLF" /\ v # "CRLF"
    BY DEF FirstLinePlaced
  <1>9. /\ \A i \in 1 .. p : path[i] # " " /\ path[i] # "CRLF"
        /\ \A i \in 1 .. q : ps[i] # " " /\ ps[i] # "CRLF"
    BY <1>1, EscapePairs DEF FirstLinePlaced, Without
  <1>10. ASSUME NEW i \in 3 .. u PROVE w[i] # " " /\ w[i] # "CRLF"
    <2>1. CASE i <= p + 2
      <3>1. PICK k \in 1 .. p : i = 2 + k
        <4>1. i - 2 \in 1 .. p /\ i = 2 + (i - 2)
          BY <1>1, <1>5, <2>1
        <4> QED
          BY <4>1
      <3> QED
        BY <1>3, <1>9, <3>1
    <2>2. CASE i > p + 2
      <3>1. PICK k \in 1 .. q : i = 2 + p + k
        <4>1. i - (p + 2) \in 1 .. q /\ i = 2 + p + (i - (p + 2))
          BY <1>1, <1>5, <2>2
        <4> QED
          BY <4>1
      <3> QED
        BY <1>4, <1>9, <3>1
    <2>3. i <= p + 2 \/ i > p + 2
      BY ONLY i \in 3 .. u, <1>1
    <2> QED
      BY ONLY <2>1, <2>2, <2>3
  <1>11. Find(w, " ", 1) = 2
    <2>1. PICK a \in Nat \ {0}, r \in Nat : a = 1 /\ r = 2
      OBVIOUS
    <2>2. a <= r /\ r <= u + 5 /\ \A i \in a .. r - 1 : i = 1
      BY ONLY <1>5, <2>1
    <2>3. r <= Len(w)
      BY ONLY <1>7, <1>1, <2>2
    <2>4. w[r] = " " /\ \A i \in a .. r - 1 : w[i] # " "
      BY ONLY <1>2, <1>8, <2>1, <2>2
    <2> QED
      BY <1>1, <2>1, <2>2, <2>3, <2>4, LineTokens, FindIs
  <1>12. Find(w, " ", 3) = u + 1
    <2>1. PICK a \in Nat \ {0}, r \in Nat : a = 3 /\ r = u + 1
      OBVIOUS
    <2>2. a <= r /\ r <= u + 5 /\ \A i \in a .. r - 1 : i \in 3 .. u
      BY ONLY <1>5, <1>1, <2>1
    <2>3. r <= Len(w)
      BY ONLY <1>7, <1>1, <2>2
    <2>4. w[r] = " " /\ \A i \in a .. r - 1 : w[i] # " "
      BY ONLY <1>6, <1>10, <2>1, <2>2
    <2> QED
      BY <1>1, <2>1, <2>2, <2>3, <2>4, LineTokens, FindIs
  <1>13. Find(w, "/", u + 2) = u + 3
    <2>1. PICK a \in Nat \ {0}, r \in Nat : a = u + 2 /\ r = u + 3
      OBVIOUS
    <2>2. a <= r /\ r <= u + 5 /\ \A i \in a .. r - 1 : i = u + 2
      BY ONLY <1>5, <1>1, <2>1
    <2>3. r <= Len(w)
      BY ONLY <1>7, <1>1, <2>2
    <2>4. w[r] = "/" /\ \A i \in a .. r - 1 : w[i] # "/"
      BY ONLY <1>6, <2>1, <2>2
    <2> QED
      BY <1>1, <2>1, <2>2, <2>3, <2>4, LineTokens, FindIs
  <1>14. Find(w, "CRLF", 1) = u + 5
    <2>1. PICK a \in Nat \ {0}, r \in Nat : a = 1 /\ r = u + 5
      OBVIOUS
    <2>2. a <= r /\ r <= Len(w)
      BY ONLY <1>1, <1>5, <1>7, <2>1
    <2>3. w[r] = "CRLF"
      BY ONLY <1>6, <2>1
    <2>4. ASSUME NEW i \in a .. r - 1 PROVE w[i] # "CRLF"
      <3>1. \/ i = 1 \/ i = 2 \/ i \in 3 .. u
            \/ i = u + 1 \/ i = u + 2 \/ i = u + 3 \/ i = u + 4
        BY ONLY <1>1, <1>5, <2>1, i \in a .. r - 1
      <3> QED
        BY ONLY <1>2, <1>6, <1>8, <1>10, <3>1
    <2> QED
      BY <1>1, <2>1, <2>2, <2>4, <2>3, LineTokens, FindIs
  <1>15. u + 1 = p + q + 3 /\ u + 2 = p + q + 4 /\ u + 3 = p + q + 5 /\ u + 4 = p + q + 6
         /\ u + 5 = p + q + 7
    BY <1>1, <1>5
  <1> QED
    BY <1>1, <1>2, <1>6, <1>11, <1>12, <1>13, <1>14, <1>15 DEF FirstRead

\* Where the parameters begin, if there are any.
LEMMA QuestionMark ==
  ASSUME NEW w, NEW m, NEW path, NEW ps, NEW v, FirstLinePlaced(w, m, path, ps, v),
         NEW p \in Nat, NEW q \in Nat, p = Len(path), q = Len(ps)
  PROVE  /\ ps = <<>> => Find(w, "?", 3) \notin 1 .. p + q + 2
         /\ ps # <<>> => Find(w, "?", 3) = p + 3 /\ p + 3 \in 1 .. p + q + 2
  <1>1. w \in Seq(Token) /\ path \in Seq(Token) /\ ps \in Seq(Token)
    BY DEF FirstLinePlaced, Placed
  <1>2. /\ 2 + p + q <= Len(w)
        /\ \A i \in 1 .. p : w[2 + i] = path[i]
        /\ \A i \in 1 .. q : w[2 + p + i] = ps[i]
    BY DEF FirstLinePlaced, Placed
  <1>3. ASSUME NEW i \in 3 .. p + 2 PROVE w[i] # "?"
    <2>1. PICK k \in 1 .. p : i = 2 + k
      <3>1. i - 2 \in 1 .. p /\ i = 2 + (i - 2)
        BY <1>1
      <3> QED
        BY <3>1
    <2>2. path[k] # "?"
      BY EscapePairs DEF FirstLinePlaced, Without
    <2> QED
      BY <1>2, <2>1, <2>2
  <1>4. PICK a \in Nat \ {0} : a = 3
    OBVIOUS
  <1>5. PICK f : f = Find(w, "?", a)
    OBVIOUS
  <1>6. a = 3 /\ f = Find(w, "?", a)
    BY <1>4, <1>5
  <1>7. CASE ps = <<>>
    <2>1. q = 0
      BY <1>7
    <2>2. f \in 0 .. Len(w) /\ (f # 0 => a <= f /\ w[f] = "?")
      BY <1>1, <1>6, FindFirst
    <2>3. f \notin 1 .. p + q + 2
      BY <1>1, <1>3, <1>6, <2>1, <2>2
    <2> QED
      BY <1>6, <1>7, <2>3
  <1>8. CASE ps # <<>>
    <2>1. q # 0 /\ ps[1] = "?"
      <3>1. q # 0
        BY ONLY <1>1, <1>8, q = Len(ps)
      <3>2. ps[1] = "?"
        BY <1>8 DEF FirstLinePlaced
      <3> QED
        BY <3>1, <3>2
    <2>2. PICK r \in Nat : r = p + 3
      BY <1>1
    <2>3. r <= Len(w) /\ w[r] = "?"
      <3>1. 1 \in 1 .. q /\ 2 + p + 1 = p + 3
        BY <1>1, <2>1
      <3>2. w[2 + p + 1] = ps[1]
        BY <1>2, <3>1
      <3> QED
        BY <1>1, <1>2, <2>1, <2>2, <3>1, <3>2
    <2>4. a <= r /\ \A i \in a .. r - 1 : w[i] # "?"
      BY <1>1, <1>3, <1>6, <2>2
    <2>5. f = r
      BY <1>1, <1>6, <2>3, <2>4, FindIs
    <2> QED
      BY <1>1, <1>6, <1>8, <2>1, <2>2, <2>5
  <1> QED
    BY <1>7, <1>8

\* The first line of a request.
First(m, path, ps, v) == Cat(Cat(Cat(LineStart(m), path), ps), LineFinish(v))

\* What the first line is made of, without its places.
FirstFits(m, path, ps, v) ==
  /\ m \in {"GET", "POST"} /\ v \in {"1.0", "1.1"} /\ path \in Seq(Token) /\ ps \in Seq(Token)
  /\ Without(path, Separators) /\ Without(ps, {" ", "CRLF"}) /\ Without(ps, {":"})
  /\ ps = <<>> \/ ps[1] = "?"

\* One text after the other, with their lengths.
LEMMA CatLength ==
  ASSUME NEW a \in Seq(Token), NEW b \in Seq(Token)
  PROVE  Cat(a, b) \in Seq(Token) /\ Len(Cat(a, b)) = Len(a) + Len(b)
  BY ConcatAt DEF Cat

\* Places in the first and in the second of two texts.
LEMMA CatPlaced ==
  ASSUME NEW a \in Seq(Token), NEW b \in Seq(Token)
  PROVE  Placed(Cat(a, b), Len(a), b) /\ \A k, x : Placed(a, k, x) => Placed(Cat(a, b), k, x)
  <1>1. Placed(a \o b, Len(a), b)
    BY PlacedLast
  <1>2. ASSUME NEW k, NEW x, Placed(a, k, x) PROVE Placed(a \o b, k, x)
    BY <1>2, PlacedFirst
  <1> QED
    BY <1>1, <1>2 DEF Cat

\* The parts of a first line stand where parse_get looks for them.
LEMMA FirstIs ==
  ASSUME NEW m, NEW path, NEW ps, NEW v, FirstFits(m, path, ps, v),
         NEW f, f = First(m, path, ps, v)
  PROVE  /\ f \in Seq(Token) /\ FirstLinePlaced(f, m, path, ps, v)
         /\ Len(f) = Len(path) + Len(ps) + 7 /\ Clean(f) /\ f # <<>>
  <1>1. m \in {"GET", "POST"} /\ v \in {"1.0", "1.1"} /\ path \in Seq(Token) /\ ps \in Seq(Token)
    BY DEF FirstFits
  <1>2. path \in Seq(Token) /\ ps \in Seq(Token)
    BY <1>1
  <1>3. PICK s \in Seq(Token), z \in Seq(Token) :
          s = LineStart(m) /\ z = LineFinish(v) /\ Len(s) = 2 /\ Len(z) = 5
    BY <1>1, StartIs, FinishIs
  <1>4. PICK a \in Seq(Token) : a = Cat(s, path)
    BY <1>1, CatLength
  <1>5. PICK b \in Seq(Token) : b = Cat(a, ps)
    BY <1>1, CatLength
  <1>6. f \in Seq(Token) /\ f = Cat(b, z)
    BY <1>3, <1>4, <1>5, CatLength DEF First
  <1>7. PICK p \in Nat, q \in Nat : p = Len(path) /\ q = Len(ps)
    BY <1>1
  <1>8. Len(a) = 2 + p /\ Len(b) = 2 + p + q /\ Len(f) = p + q + 7
    <2>1. Len(a) = Len(s) + Len(path) /\ Len(b) = Len(a) + Len(ps) /\ Len(f) = Len(b) + Len(z)
      BY ONLY <1>2, <1>4, <1>5, <1>6, CatLength
    <2> QED
      BY ONLY <1>3, <1>7, <2>1
  <1>9. Placed(f, 0, s)
    BY <1>1, <1>3, <1>4, <1>5, <1>6, PlacedAll, CatPlaced
  <1>10. Placed(f, 2, path)
    BY <1>1, <1>3, <1>4, <1>5, <1>6, CatPlaced
  <1>11. Placed(f, 2 + p, ps)
    BY <1>1, <1>3, <1>4, <1>5, <1>6, <1>8, CatPlaced
  <1>12. Placed(f, 2 + p + q, z)
    BY <1>1, <1>3, <1>4, <1>5, <1>6, <1>8, CatPlaced
  <1>13. FirstLinePlaced(f, m, path, ps, v)
    BY <1>3, <1>7, <1>9, <1>10, <1>11, <1>12 DEF FirstFits, FirstLinePlaced
  <1>14. PICK l \in Nat : l = p + q + 7
    OBVIOUS
  <1>15. Find(f, "CRLF", 1) = l
    <2>1. FirstRead(f, m, v, p, q)
      BY ONLY <1>7, <1>13, FirstLineRead
    <2> QED
      BY ONLY <1>14, <2>1 DEF FirstRead
  <1>16. f[l] = "CRLF" /\ \A i \in 1 .. l - 1 : f[i] # "CRLF"
    <2>1. PICK one \in Nat \ {0} : one = 1
      OBVIOUS
    <2>2. Find(f, "CRLF", one) = l /\ l # 0
      BY <1>14, <1>15, <2>1
    <2>3. f[l] = "CRLF" /\ \A i \in one .. l - 1 : f[i] # "CRLF"
      BY <1>6, <2>2, FindFirst
    <2> QED
      BY <2>1, <2>3
  <1>17. Clean(f)
    <2>1. Len(f) = l /\ Len(f) > 1
      BY <1>8, <1>14
    <2> QED
      BY <1>6, <1>16, <2>1, CleanLine
  <1> QED
    BY <1>6, <1>7, <1>8, <1>13, <1>17

\* What follows a first line does not move its parts.
LEMMA FirstKept ==
  ASSUME NEW a \in Seq(Token), NEW b \in Seq(Token), NEW m, NEW path, NEW ps, NEW v,
         FirstLinePlaced(a, m, path, ps, v)
  PROVE  FirstLinePlaced(Cat(a, b), m, path, ps, v)
  BY CatPlaced DEF FirstLinePlaced

\* One token between two places that are next to each other but one.
LEMMA BetweenOne ==
  ASSUME NEW w \in Seq(Token), NEW i \in Nat, i + 1 <= Len(w)
  PROVE  Between(w, i, i + 2) = <<w[i + 1]>>
  <1>1. PICK x \in Seq(Token) : x = <<w[i + 1]>> /\ Len(x) = 1 /\ x[1] = w[i + 1]
    <2>1. w[i + 1] \in Token
      OBVIOUS
    <2>2. PICK y \in Token : y = w[i + 1]
      BY <2>1
    <2>3. <<y>> \in Seq(Token) /\ Len(<<y>>) = 1 /\ <<y>>[1] = y
      OBVIOUS
    <2> QED
      BY <2>2, <2>3
  <1>2. Placed(w, i, x)
    BY <1>1 DEF Placed
  <1>3. SubSeq(w, i + 1, i + 1) = x
    BY <1>1, <1>2, PlacedCut
  <1>4. i + 2 - 1 = i + 1
    OBVIOUS
  <1> QED
    BY <1>1, <1>3, <1>4 DEF Between

\* An empty text has no parameters.
LEMMA NoParameters ==
  ParseParameter(<<>>) = {}
  <1>1. PICK t \in Seq(Token) : t = Append(<<>>, "&")
    <2>1. Append(<<>>, "&") \in Seq(Token)
      BY ParameterTokens
    <2> QED
      BY <2>1
  <1>2. Len(t) = 1
    BY <1>1
  <1>3. Ends(t, "=", "&") = {}
    BY <1>2 DEF Ends
  <1>4. Pieces(t, "=", "&") = {}
    BY <1>3 DEF Pieces
  <1> QED
    BY <1>1, <1>4 DEF ParseParameter

\* The text between the path and the end of a URL, for parameters that are read back.
QueryText(ps, params) ==
  /\ ps \in Seq(Token)
  /\ \/ ps = <<>> /\ params = {}
     \/ \E u \in Seq(Token) : ps = Cat(One("?"), u) /\ ParseParameter(u) = params

\* The lines of headers that are read back.
Headers(hl, headers) ==
  /\ hl \in Seq(Token) /\ Clean(hl) /\ Complete(hl, ":", "CRLF")
  /\ ParseHeaders(hl) = headers /\ ~ Throws(hl)

\* The empty line after the headers is not taken for a header.
LEMMA HeadersClosed ==
  ASSUME NEW hl, NEW headers, Headers(hl, headers)
  PROVE  /\ Cat(hl, One("CRLF")) \in Seq(Token)
         /\ ParseHeaders(Cat(hl, One("CRLF"))) = headers /\ ~ Throws(Cat(hl, One("CRLF")))
  <1>1. PICK e \in Seq(Token) : e = One("CRLF") /\ e = <<"CRLF">>
    BY HeaderTokens, OneIs DEF One
  <1>2. hl \in Seq(Token) /\ (hl = <<>> \/ hl[Len(hl)] = "CRLF")
    BY DEF Headers, Clean
  <1>3. hl \in Seq(Token)
    BY <1>2
  <1>4. PICK t \in Seq(Token) : t = hl \o e /\ t = Cat(hl, One("CRLF"))
    BY <1>1, <1>2, ConcatAt DEF Cat
  <1>5. t = hl \o e
    BY <1>4
  <1>6. PICK P : P = Pieces(hl, ":", "CRLF")
    OBVIOUS
  <1>7. Pieces(t, ":", "CRLF") = P
    <2>1. PICK end \in Token, colon \in Token : end = "CRLF" /\ colon = ":"
      BY HeaderTokens
    <2>2. colon # end /\ (hl = <<>> \/ hl[Len(hl)] = end)
      BY <1>2, <2>1
    <2>3. Pieces(hl \o <<end>>, colon, end) = Pieces(hl, colon, end)
      BY ONLY <1>3, <2>2, end \in Token, PiecesClosed
    <2>4. t = hl \o <<end>>
      BY <1>1, <1>4, <2>1
    <2> QED
      BY ONLY <1>6, <2>1, <2>3, <2>4
  <1>8. ASSUME NEW p \in P
        PROVE  /\ Between(t, p[1], p[2]) = Between(hl, p[1], p[2])
               /\ Between(t, p[2] + 1, p[3]) = Between(hl, p[2] + 1, p[3])
    <2>1. /\ p[1] \in 0 .. Len(hl) /\ p[2] \in 1 .. Len(hl) /\ p[3] \in 1 .. Len(hl)
          /\ p[1] < p[2] /\ p[2] < p[3]
      BY <1>2, <1>6, HeaderTokens, PieceShape
    <2>2. PICK i \in Nat, j \in Nat, k \in Nat, l \in Nat :
            i = p[1] /\ j = p[2] /\ k = p[2] + 1 /\ l = p[3]
      BY ONLY <1>3, <2>1
    <2>3. i <= j /\ k <= l /\ j <= Len(hl) + 1 /\ l <= Len(hl) + 1
      BY ONLY <1>3, <2>1, <2>2
    <2>4. Between(t, i, j) = Between(hl, i, j) /\ Between(t, k, l) = Between(hl, k, l)
      BY ONLY <1>3, <1>5, <2>3, e \in Seq(Token), BetweenFirst
    <2> QED
      BY <2>2, <2>4
  <1>9. ParseHeaders(t) = ParseHeaders(hl)
    BY <1>6, <1>7, <1>8 DEF ParseHeaders
  <1>10. ~ Throws(t)
    BY <1>6, <1>7 DEF Headers, Throws
  <1> QED
    BY <1>4, <1>9, <1>10 DEF Headers

\* The text of a request.
WholeText(m, path, ps, v, hl, c) == Cat(Cat(Cat(First(m, path, ps, v), hl), One("CRLF")), c)

\* Where the parts of a request stand.
WholePlaced(w, m, path, ps, v, hl, c) ==
  LET h == Len(path) + Len(ps) + 7 + Len(hl)
  IN  /\ w \in Seq(Token) /\ FirstLinePlaced(w, m, path, ps, v)
      /\ Placed(w, Len(path) + Len(ps) + 7, Cat(hl, One("CRLF"))) /\ Placed(w, h + 1, c)
      /\ HeaderEnd(w) = h /\ Len(w) = h + 1 + Len(c)

\* The parts of a request stand where it was put together.
LEMMA WholeIs ==
  ASSUME NEW m, NEW path, NEW ps, NEW v, FirstFits(m, path, ps, v),
         NEW hl, NEW headers, Headers(hl, headers), NEW c \in Seq(Token),
         NEW w, w = WholeText(m, path, ps, v, hl, c)
  PROVE  WholePlaced(w, m, path, ps, v, hl, c)
  <1>1. PICK f \in Seq(Token) : f = First(m, path, ps, v)
    BY FirstIs
  <1>2. /\ FirstLinePlaced(f, m, path, ps, v)
        /\ Len(f) = Len(path) + Len(ps) + 7 /\ Clean(f) /\ f # <<>>
    BY <1>1, FirstIs
  <1>3. path \in Seq(Token) /\ ps \in Seq(Token) /\ hl \in Seq(Token) /\ Clean(hl)
    BY DEF FirstFits, Headers
  <1>4. PICK p \in Nat, q \in Nat, n \in Nat : p = Len(path) /\ q = Len(ps) /\ n = Len(hl)
    BY <1>3
  <1>5. PICK e \in Seq(Token) : e = One("CRLF") /\ Len(e) = 1
    BY HeaderTokens, OneIs
  <1>6. Len(e) = 1
    BY <1>5
  <1>7. PICK x \in Seq(Token) : x = Cat(f, hl) /\ Len(x) = Len(f) + n
    BY ONLY <1>3, <1>4, f \in Seq(Token), CatLength
  <1>8. PICK y \in Seq(Token) : y = Cat(x, e) /\ Len(y) = Len(x) + 1
    <2>1. Cat(x, e) \in Seq(Token) /\ Len(Cat(x, e)) = Len(x) + Len(e)
      BY ONLY x \in Seq(Token), e \in Seq(Token), CatLength
    <2> QED
      BY ONLY <1>6, <2>1
  <1>9. PICK t \in Seq(Token) : t = Cat(hl, e)
    BY ONLY <1>3, e \in Seq(Token), CatLength
  <1>10. y = Cat(f, t)
    BY ONLY <1>3, <1>7, <1>8, <1>9, f \in Seq(Token), e \in Seq(Token), CatAssociative
  <1>11. w = Cat(y, c) /\ w \in Seq(Token) /\ Len(w) = Len(y) + Len(c)
    <2>1. w = Cat(y, c)
      BY <1>1, <1>5, <1>7, <1>8 DEF WholeText
    <2> QED
      BY ONLY <2>1, y \in Seq(Token), c \in Seq(Token), CatLength
  <1>12. Len(x) = p + q + 7 + n /\ Len(w) = p + q + 7 + n + 1 + Len(c)
         /\ Len(y) = p + q + 7 + n + 1
    BY ONLY <1>2, <1>4, <1>7, <1>8, <1>11
  <1>13. FirstLinePlaced(w, m, path, ps, v)
    BY ONLY <1>2, <1>10, <1>11, f \in Seq(Token), t \in Seq(Token), y \in Seq(Token),
       c \in Seq(Token), FirstKept
  <1>14. Placed(w, p + q + 7, t)
    <2>1. Placed(y, Len(f), t)
      BY ONLY <1>10, f \in Seq(Token), t \in Seq(Token), CatPlaced
    <2>2. Placed(w, Len(f), t)
      BY ONLY <1>11, <2>1, y \in Seq(Token), c \in Seq(Token), CatPlaced
    <2> QED
      BY ONLY <1>2, <1>4, <2>2
  <1>15. Placed(w, p + q + 7 + n + 1, c)
    BY ONLY <1>11, <1>12, y \in Seq(Token), c \in Seq(Token), CatPlaced
  <1>16. HeaderEnd(w) = p + q + 7 + n
    <2>1. Clean(x) /\ x # <<>>
      <3>1. Clean(f \o hl)
        BY <1>2, <1>3, CleanConcat
      <3>2. Len(x) # 0
        BY ONLY <1>12, p \in Nat, q \in Nat, n \in Nat
      <3> QED
        BY <1>7, <3>1, <3>2 DEF Cat
    <2>2. HeaderEnd((x \o One("CRLF")) \o c) = Len(x)
      BY <2>1, HeadEnds
    <2>3. w = (x \o One("CRLF")) \o c
      BY <1>5, <1>8, <1>11 DEF Cat
    <2> QED
      BY ONLY <1>12, <2>2, <2>3
  <1>17. t = Cat(hl, One("CRLF"))
    BY <1>5, <1>9
  <1> QED
    BY <1>4, <1>11, <1>12, <1>13, <1>14, <1>15, <1>16, <1>17 DEF WholePlaced

\* What parse_get makes of the parts of a request.
Got(m, path, params, v, headers) ==
  [method |-> m, path |-> path, params |-> params, version |-> v,
   headers |-> headers, content |-> <<>>]

\* The parameters are what stands between the path and the end of the URL.
LEMMA QueryRead ==
  ASSUME NEW w, NEW m, NEW path, NEW ps, NEW v, FirstLinePlaced(w, m, path, ps, v),
         NEW params, QueryText(ps, params), NEW p \in Nat, NEW q \in Nat, p = Len(path), q = Len(ps)
  PROVE  ParseParameter(Between(w, p + 3, p + q + 3)) = params
  <1>1. w \in Seq(Token) /\ ps \in Seq(Token) /\ Placed(w, 2 + p, ps)
    BY DEF FirstLinePlaced, Placed
  <1>2. CASE ps = <<>> /\ params = {}
    <2>1. q = 0
      BY <1>2
    <2>2. Between(w, p + 3, p + q + 3) = <<>>
      <3>1. p + 3 + 1 > p + q + 3 - 1
        BY <2>1
      <3>2. PICK i \in Nat, j \in Nat : i = p + 3 + 1 /\ j = p + q + 3 - 1 /\ i > j
        <4>1. p + 3 + 1 \in Nat /\ p + q + 3 - 1 \in Nat
          OBVIOUS
        <4> QED
          BY <3>1, <4>1
      <3>3. SubSeq(w, i, j) = <<>>
        BY <1>1, <3>2
      <3> QED
        BY <3>2, <3>3 DEF Between
    <2> QED
      BY <1>2, <2>2, NoParameters
  <1>3. CASE \E u \in Seq(Token) : ps = Cat(One("?"), u) /\ ParseParameter(u) = params
    <2>1. PICK u \in Seq(Token) : ps = Cat(One("?"), u) /\ ParseParameter(u) = params
      BY <1>3
    <2>2. PICK o \in Seq(Token) : o = One("?")
      BY ParameterTokens, OneIs
    <2>3. Len(o) = 1
      BY <2>2, ParameterTokens, OneIs
    <2>4. ps = Cat(o, u)
      BY <2>1, <2>2
    <2>5. Placed(ps, 1, u) /\ q = 1 + Len(u)
      <3>1. Len(ps) = Len(o) + Len(u) /\ Placed(ps, Len(o), u)
        BY ONLY <2>4, o \in Seq(Token), u \in Seq(Token), CatLength, CatPlaced
      <3> QED
        BY ONLY <2>3, <3>1, q = Len(ps)
    <2>6. Placed(w, 3 + p, u)
      <3>1. PICK l \in Nat : l = Len(u) /\ q = 1 + l
        BY <2>5
      <3>2. \A i \in 1 .. l : 1 + i \in 1 .. q /\ 3 + p + i = 2 + p + (1 + i)
        BY ONLY <3>1, p \in Nat, q \in Nat
      <3>3. \A i \in 1 .. q : w[2 + p + i] = ps[i]
        BY ONLY <1>1, q = Len(ps) DEF Placed
      <3>4. \A i \in 1 .. l : ps[1 + i] = u[i]
        BY ONLY <2>5, <3>1 DEF Placed
      <3>5. \A i \in 1 .. l : w[3 + p + i] = u[i]
        BY ONLY <3>2, <3>3, <3>4
      <3>6. 2 + p + q <= Len(w)
        BY ONLY <1>1, q = Len(ps) DEF Placed
      <3>7. 3 + p + l <= Len(w) /\ 3 + p \in Nat
        BY ONLY <1>1, <3>1, <3>6, p \in Nat, q \in Nat
      <3> QED
        BY ONLY <1>1, <3>1, <3>5, <3>7, u \in Seq(Token) DEF Placed
    <2>7. SubSeq(w, 3 + p + 1, 3 + p + Len(u)) = u
      BY <2>6, PlacedCut
    <2>8. 3 + p + 1 = p + 3 + 1 /\ 3 + p + Len(u) = p + q + 3 - 1
      BY ONLY <2>5, p \in Nat, q \in Nat, u \in Seq(Token)
    <2>9. Between(w, p + 3, p + q + 3) = u
      BY ONLY <2>7, <2>8 DEF Between
    <2> QED
      BY <2>1, <2>9
  <1> QED
    BY <1>2, <1>3 DEF QueryText

\* parse_get finds the parts of a request again.
LEMMA GetRead ==
  ASSUME NEW m, NEW path, NEW ps, NEW v, FirstFits(m, path, ps, v), NEW params, QueryText(ps, params),
         NEW hl, NEW headers, Headers(hl, headers), NEW c \in Seq(Token),
         NEW w, WholePlaced(w, m, path, ps, v, hl, c)
  PROVE  ParseGet(w) = Got(m, path, params, v, headers)
  <1>1. FirstLinePlaced(w, m, path, ps, v)
    BY DEF WholePlaced
  <1>2. w \in Seq(Token) /\ path \in Seq(Token) /\ ps \in Seq(Token) /\ hl \in Seq(Token)
    BY DEF WholePlaced, FirstFits, Headers
  <1>3. PICK p \in Nat, q \in Nat, n \in Nat : p = Len(path) /\ q = Len(ps) /\ n = Len(hl)
    BY <1>2
  <1>4. FirstRead(w, m, v, p, q)
    BY <1>1, <1>3, FirstLineRead
  <1>5. PICK line \in Nat, space \in Nat, url \in Nat, slash \in Nat, end \in Nat :
          /\ line = p + q + 7 /\ space = 2 /\ url = p + q + 3 /\ slash = p + q + 5
          /\ end = p + q + 7 + n
    OBVIOUS
  <1>6. /\ Find(w, "CRLF", 1) = line /\ Find(w, " ", 1) = space
        /\ Find(w, " ", space + 1) = url /\ Find(w, "/", url + 1) = slash
    <2>1. space + 1 = 3 /\ url + 1 = p + q + 4
      BY ONLY <1>5
    <2> QED
      BY ONLY <1>4, <1>5, <2>1 DEF FirstRead
  <1>7. PICK qm, qpath : qm = Find(w, "?", space + 1) /\ qpath = IF qm \in 1 .. url - 1 THEN qm ELSE url
    OBVIOUS
  <1>8. qpath = p + 3
    <2>1. space + 1 = 3 /\ url - 1 = p + q + 2
      BY ONLY <1>5
    <2>2. CASE ps = <<>>
      <3>1. Find(w, "?", 3) \notin 1 .. p + q + 2
        BY <1>1, <1>3, <2>2, QuestionMark
      <3>2. qpath = url
        BY ONLY <1>7, <2>1, <3>1
      <3>3. q = 0
        BY ONLY <1>3, <2>2, <1>2
      <3> QED
        BY ONLY <1>5, <3>2, <3>3
    <2>3. CASE ps # <<>>
      <3>1. Find(w, "?", 3) = p + 3 /\ p + 3 \in 1 .. p + q + 2
        BY <1>1, <1>3, <2>3, QuestionMark
      <3> QED
        BY ONLY <1>7, <2>1, <3>1
    <2> QED
      BY ONLY <2>2, <2>3
  <1>9. HeaderEnd(w) = end /\ end > 0
    <2>1. HeaderEnd(w) = p + q + 7 + n
      BY ONLY <1>3, WholePlaced(w, m, path, ps, v, hl, c) DEF WholePlaced
    <2> QED
      BY ONLY <1>5, <2>1
  <1>10. ParseHeaders(SubSeq(w, line + 1, end + 1)) = headers /\ ~ Throws(SubSeq(w, line + 1, end + 1))
    <2>1. PICK t : t = Cat(hl, One("CRLF"))
      OBVIOUS
    <2>2. Placed(w, p + q + 7, t)
      BY ONLY <1>3, <2>1, WholePlaced(w, m, path, ps, v, hl, c) DEF WholePlaced
    <2>3. Len(t) = n + 1
      <3>1. PICK e \in Seq(Token) : e = One("CRLF")
        BY HeaderTokens, OneIs
      <3>2. Len(e) = 1
        BY <3>1, HeaderTokens, OneIs
      <3>3. t = Cat(hl, e)
        BY <2>1, <3>1
      <3>4. Len(t) = Len(hl) + Len(e)
        BY ONLY <1>2, <3>3, e \in Seq(Token), CatLength
      <3> QED
        BY ONLY <1>3, <3>2, <3>4
    <2>4. SubSeq(w, line + 1, end + 1) = t
      <3>1. SubSeq(w, p + q + 7 + 1, p + q + 7 + Len(t)) = t
        BY <2>2, PlacedCut
      <3>2. line + 1 = p + q + 7 + 1 /\ end + 1 = p + q + 7 + Len(t)
        BY ONLY <1>5, <2>3
      <3> QED
        BY ONLY <3>1, <3>2
    <2> QED
      BY <2>1, <2>4, HeadersClosed
  <1>11. Between(w, url, slash) = <<"HTTP">> /\ w[slash + 1] = v /\ w[1] = m
         /\ Between(w, slash, line) = <<v>>
    <2>1. slash = url + 2 /\ line = slash + 2 /\ url + 1 = p + q + 4 /\ slash + 1 = p + q + 6
      BY ONLY <1>5
    <2>2. line <= Len(w)
      <3>1. PICK one \in Nat \ {0} : one = 1
        OBVIOUS
      <3>2. Find(w, "CRLF", one) = line
        BY <1>6, <3>1
      <3> QED
        BY <1>2, <3>2, FindFirst
    <2>3. url + 1 <= Len(w) /\ slash + 1 <= Len(w)
      BY ONLY <1>2, <1>5, <2>2
    <2>4. Between(w, url, slash) = <<w[url + 1]>> /\ Between(w, slash, line) = <<w[slash + 1]>>
      BY ONLY <1>2, <2>1, <2>3, url \in Nat, slash \in Nat, BetweenOne
    <2> QED
      BY ONLY <1>4, <2>1, <2>4 DEF FirstRead
  <1>12. Between(w, space, qpath) = path
    <2>1. SubSeq(w, 2 + 1, 2 + Len(path)) = path
      BY <1>1, PlacedCut DEF FirstLinePlaced
    <2>2. space + 1 = 2 + 1 /\ qpath - 1 = 2 + Len(path)
      BY ONLY <1>3, <1>5, <1>8
    <2> QED
      BY ONLY <2>1, <2>2 DEF Between
  <1>13. ParseParameter(Between(w, qpath, url)) = params
    <2>1. ParseParameter(Between(w, p + 3, p + q + 3)) = params
      BY <1>1, <1>3, QueryRead
    <2> QED
      BY ONLY <1>5, <1>8, <2>1
  <1>14. 0 < space /\ space < url /\ url < slash /\ slash < line
    BY ONLY <1>5
  <1>15. <<v>> \in {<<"1.0">>, <<"1.1">>}
    BY DEF FirstFits
  <1> QED
    BY <1>6, <1>7, <1>9, <1>10, <1>11, <1>12, <1>13, <1>14, <1>15 DEF ParseGet, Got

\* The first tokens of a text.
LEMMA CutIs ==
  ASSUME NEW w \in Seq(Token), NEW n \in 0 .. Len(w), NEW d, d = SubSeq(w, 1, n)
  PROVE  d \in Seq(Token) /\ Len(d) = n /\ \A i \in 1 .. n : d[i] = w[i]
  OBVIOUS

\* What the text of a request begins with.
LEMMA MethodPrefix ==
  ASSUME NEW w \in Seq(Token), NEW m \in {"GET", "POST"}, NEW x \in {"GET", "POST"},
         w[1] = m, w[2] = " ", Len(w) >= 2
  PROVE  IsPrefix(<<x, " ">>, w) <=> x = m
  <1>1. PICK s : s = LineStart(x)
    OBVIOUS
  <1>2. s \in Seq(Token) /\ Len(s) = 2 /\ s[1] = x /\ s[2] = " "
    BY <1>1, StartIs
  <1>3. SubSeq(s, 1, 2) = s
    <2>1. Placed(s, 0, s) /\ Len(s) = 2
      BY <1>2, PlacedAll
    <2>2. SubSeq(s, 0 + 1, 0 + Len(s)) = s
      BY <2>1, PlacedCut
    <2> QED
      BY ONLY <2>1, <2>2
  <1>4. PICK t : t = SubSeq(w, 1, 2)
    OBVIOUS
  <1>5. t \in Seq(Token) /\ Len(t) = 2 /\ t[1] = w[1] /\ t[2] = w[2]
    <2>1. PICK n \in 0 .. Len(w) : n = 2
      BY ONLY w \in Seq(Token), Len(w) >= 2
    <2>2. t \in Seq(Token) /\ Len(t) = n /\ \A i \in 1 .. n : t[i] = w[i]
      BY ONLY <1>4, <2>1, w \in Seq(Token), CutIs
    <2>3. 1 \in 1 .. n /\ 2 \in 1 .. n
      BY ONLY <2>1
    <2> QED
      BY ONLY <2>1, <2>2, <2>3
  <1>6. IsPrefix(s, w) <=> s = t
    BY <1>2, <1>3, <1>4 DEF IsPrefix
  <1>7. s = t <=> x = m
    <2>1. s = t => x = m
      BY <1>2, <1>5
    <2>2. ASSUME x = m PROVE s = t
      <3>1. s[1] = t[1] /\ s[2] = t[2]
        BY <1>2, <1>5, <2>2
      <3>2. Len(s) = 2 /\ Len(t) = 2 /\ s \in Seq(Token) /\ t \in Seq(Token)
        BY <1>2, <1>5
      <3> QED
        BY ONLY <3>1, <3>2
    <2> QED
      BY <2>1, <2>2
  <1> QED
    BY <1>1, <1>6, <1>7 DEF LineStart

\* A whole request is parsed as what it was packed from.
LEMMA WholeRead ==
  ASSUME NEW m, NEW path, NEW ps, NEW v, FirstFits(m, path, ps, v), NEW params, QueryText(ps, params),
         NEW hl, NEW headers, Headers(hl, headers), NEW c \in Seq(Token),
         NEW w, WholePlaced(w, m, path, ps, v, hl, c)
  PROVE  /\ Parse(w) # Failed
         /\ Parse(w).path = path /\ Parse(w).params = params
         /\ Parse(w).version = v /\ Parse(w).headers = headers
         /\ m = "POST" => Parse(w).content = c
  <1>1. ParseGet(w) = Got(m, path, params, v, headers)
    BY GetRead
  <1>2. w \in Seq(Token) /\ FirstLinePlaced(w, m, path, ps, v) /\ path \in Seq(Token) /\ ps \in Seq(Token)
        /\ hl \in Seq(Token)
    BY DEF WholePlaced, FirstFits, Headers
  <1>3. w[1] = m /\ w[2] = " " /\ Len(w) >= 2
    <2>1. Placed(w, 0, LineStart(m)) /\ m \in {"GET", "POST"}
      BY <1>2 DEF FirstLinePlaced
    <2>2. PICK s : s = LineStart(m)
      OBVIOUS
    <2>3. s[1] = m /\ s[2] = " "
      BY <2>1, <2>2, StartIs
    <2>4. Len(s) = 2
      BY <2>1, <2>2, StartIs
    <2>5. Placed(w, 0, s)
      BY <2>1, <2>2
    <2>6. w[1] = s[1] /\ w[2] = s[2] /\ Len(w) >= 2
      <3>1. \A i \in 1 .. 2 : w[0 + i] = s[i]
        BY ONLY <2>4, <2>5 DEF Placed
      <3>2. 0 + 1 = 1 /\ 0 + 2 = 2 /\ 1 \in 1 .. 2 /\ 2 \in 1 .. 2
        OBVIOUS
      <3>3. Len(w) >= 2
        BY ONLY <2>4, <2>5, w \in Seq(Token) DEF Placed
      <3> QED
        BY ONLY <3>1, <3>2, <3>3
    <2> QED
      BY ONLY <2>3, <2>6
  <1>4. m \in {"GET", "POST"}
    BY DEF FirstFits
  <1>5. \A x \in {"GET", "POST"} : IsPrefix(<<x, " ">>, w) <=> x = m
    BY <1>2, <1>3, <1>4, MethodPrefix
  <1>6. Got(m, path, params, v, headers) # Failed
    BY <1>4 DEF Got, Failed
  <1>7. SubSeq(w, HeaderEnd(w) + 2, Len(w)) = c
    <2>1. PICK h \in Nat, n \in Nat : h = Len(path) + Len(ps) + 7 + Len(hl) /\ n = Len(c)
      BY ONLY <1>2, c \in Seq(Token)
    <2>2. HeaderEnd(w) = h /\ Len(w) = h + 1 + n /\ Placed(w, h + 1, c)
      BY <2>1 DEF WholePlaced
    <2>3. SubSeq(w, h + 1 + 1, h + 1 + Len(c)) = c
      BY <2>2, PlacedCut
    <2>4. h + 1 + 1 = h + 2
      OBVIOUS
    <2> QED
      BY ONLY <2>1, <2>2, <2>3, <2>4
  <1>8. CASE m = "GET"
    <2>1. Parse(w) = Got(m, path, params, v, headers)
      BY <1>1, <1>5, <1>8 DEF Parse
    <2> QED
      BY <1>6, <1>8, <2>1 DEF Got
  <1>9. CASE m = "POST"
    <2>1. Parse(w) = ParsePost(w)
      BY <1>5, <1>9 DEF Parse
    <2>2. ParsePost(w) = [Got(m, path, params, v, headers) EXCEPT !.content = c]
      BY <1>1, <1>6, <1>7 DEF ParsePost
    <2> QED
      BY <1>9, <2>1, <2>2 DEF Got, Failed
  <1> QED
    BY <1>4, <1>8, <1>9

\* The headers as they stand in the text: those of a GET are escaped.
Sent(r) ==
  IF r.method = "POST" THEN r.headers
  ELSE {<<Escape(h[1]), Escape(h[2])>> : h \in r.headers}

\* A text of some tokens is a text of more.
LEMMA SeqMore ==
  ASSUME NEW S, NEW T, S \subseteq T, NEW t \in Seq(S)
  PROVE  t \in Seq(T) /\ \A i \in 1 .. Len(t) : t[i] \in S
  OBVIOUS

\* What has no NUL.
Printable == STRING \ {"NUL"}

\* Texts without some tokens are texts.
LEMMA Texts ==
  /\ Seq(STRING) \subseteq Seq(Token)
  /\ Seq(Printable) \subseteq Seq(Token)
  /\ Seq(Printable \ Separators) \subseteq {t \in Seq(Token) : Without(t, Separators)}
  /\ Seq(Printable \ {":", "CRLF"}) \subseteq KeyTexts
  /\ Seq(Printable \ {"CRLF"}) \subseteq ValueTexts
  /\ Seq(Printable \ {e[2] : e \in Escapes}) \subseteq DataTexts
  <1>1. STRING \subseteq Token /\ Printable \subseteq Token
    BY DEF Token, Printable
  <1>2. ASSUME NEW S, NEW t \in Seq(Printable \ S)
        PROVE  t \in Seq(Token) /\ Without(t, S) /\ t \in Seq(Token \ S)
    <2>1. PICK A, B : A = Printable \ S /\ B = Token \ S
      OBVIOUS
    <2>2. A \subseteq Token /\ A \subseteq B /\ t \in Seq(A)
      BY <1>1, <2>1
    <2>3. t \in Seq(Token) /\ t \in Seq(B) /\ \A i \in 1 .. Len(t) : t[i] \in A
      BY ONLY <2>2, SeqMore
    <2> QED
      BY <2>1, <2>3 DEF Without
  <1>3. Seq(STRING) \subseteq Seq(Token) /\ Seq(Printable) \subseteq Seq(Token)
    BY <1>1, SeqMore
  <1> QED
    BY <1>2, <1>3 DEF KeyTexts, ValueTexts, DataTexts

\* The image of a finite set is finite.
LEMMA SentFinite ==
  ASSUME NEW S, IsFiniteSet(S)
  PROVE  IsFiniteSet({<<Escape(h[1]), Escape(h[2])>> : h \in S})
  <1> DEFINE T == {<<Escape(h[1]), Escape(h[2])>> : h \in S}
  <1> DEFINE f == [h \in S |-> <<Escape(h[1]), Escape(h[2])>>]
  <1>1. f \in Surjection(S, T)
    BY DEF Surjection
  <1> HIDE DEF f, T
  <1> QED
    <2>1. IsFiniteSet(T)
      BY <1>1, FS_Surjection
    <2> QED
      BY <2>1 DEF T

\* The headers that are sent are read back as they are sent.
LEMMA SentRead ==
  ASSUME NEW r, WellTyped(r)
  PROVE  Headers(HeaderLines(Sent(r)), Sent(r))
  <1>1. IsFiniteSet(Sent(r)) /\ Sent(r) \subseteq KeyTexts \X ValueTexts
    <2>1. IsFiniteSet(r.headers) /\ r.headers \subseteq Seq(Printable) \X Seq(Printable)
      BY DEF WellTyped, Printable
    <2>2. CASE r.method = "POST"
      <3>1. r.headers \subseteq Seq(Printable \ {":", "CRLF"}) \X Seq(Printable \ {"CRLF"})
        BY <2>2 DEF WellTyped, Printable
      <3>2. r.headers \subseteq KeyTexts \X ValueTexts
        BY ONLY <3>1, Texts
      <3> QED
        BY <2>1, <2>2, <3>2 DEF Sent
    <2>3. CASE r.method # "POST"
      <3>1. ASSUME NEW h \in r.headers
            PROVE  Escape(h[1]) \in KeyTexts /\ Escape(h[2]) \in ValueTexts
        <4>1. h[1] \in Seq(Token) /\ h[2] \in Seq(Token)
          BY <2>1, Texts
        <4>2. PICK a \in Seq(Token), b \in Seq(Token) : a = h[1] /\ b = h[2]
          BY <4>1
        <4>3. /\ Escape(a) \in Seq(Token) /\ Len(Escape(a)) = Len(a)
              /\ \A i \in 1 .. Len(a) : Escape(a)[i] \notin Separators
          BY EscapeClean
        <4>4. /\ Escape(b) \in Seq(Token) /\ Len(Escape(b)) = Len(b)
              /\ \A i \in 1 .. Len(b) : Escape(b)[i] \notin Separators
          BY EscapeClean
        <4>5. Without(Escape(a), {":", "CRLF"}) /\ Without(Escape(b), {"CRLF"})
          BY <4>3, <4>4, EscapePairs DEF Without
        <4> QED
          BY <4>2, <4>3, <4>4, <4>5 DEF KeyTexts, ValueTexts
      <3>2. Sent(r) = {<<Escape(h[1]), Escape(h[2])>> : h \in r.headers}
        BY <2>3 DEF Sent
      <3>3. Sent(r) \subseteq KeyTexts \X ValueTexts
        BY <3>1, <3>2
      <3> QED
        BY <2>1, <3>2, <3>3, SentFinite
    <2> QED
      BY <2>2, <2>3
  <1>2. /\ HeaderLines(Sent(r)) \in Seq(Token)
        /\ Clean(HeaderLines(Sent(r))) /\ Complete(HeaderLines(Sent(r)), ":", "CRLF")
        /\ ParseHeaders(HeaderLines(Sent(r))) = Sent(r)
        /\ ~ Throws(HeaderLines(Sent(r)))
    BY <1>1, HeaderLinesAre
  <1> QED
    BY <1>2 DEF Headers

\* The parameters that are sent are read back.
LEMMA ParametersRead ==
  ASSUME NEW params, IsFiniteSet(params), params \subseteq DataTexts \X DataTexts,
         NEW ps, ps = Parameters(params)
  PROVE  /\ QueryText(ps, params) /\ Without(ps, {" ", "CRLF"}) /\ Without(ps, {":"})
         /\ ps = <<>> \/ ps[1] = "?"
  <1>1. ps \in Seq(Token)
    BY ParametersAre
  <1>2. CASE params = {}
    <2>1. ps = <<>>
      BY <1>2, ParametersAre
    <2>2. Without(<<>>, {" ", "CRLF"}) /\ Without(<<>>, {":"})
      <3>1. \A S : Without(<<>>, S)
        <4>1. 1 .. Len(<<>>) = {}
          OBVIOUS
        <4> QED
          BY <4>1 DEF Without
      <3> QED
        BY <3>1
    <2>3. QueryText(ps, params)
      BY <1>1, <1>2, <2>1 DEF QueryText
    <2> QED
      BY <2>1, <2>2, <2>3
  <1>3. CASE params # {}
    <2>1. PICK u \in Seq(Token) :
              /\ ps = One("?") \o u
              /\ Without(u, {" ", "?", "CRLF", ":"}) /\ ParseParameter(u) = params
      BY <1>3, ParametersAre
    <2>2. PICK o \in Seq(Token) : o = One("?")
      BY ParameterTokens, OneIs
    <2>3. Len(o) = 1 /\ o[1] = "?"
      BY <2>2, ParameterTokens, OneIs
    <2>4. ps = o \o u
      BY <2>1, <2>2
    <2>5. /\ Without(o, {" ", "CRLF"}) /\ Without(u, {" ", "CRLF"})
          /\ Without(o, {":"}) /\ Without(u, {":"})
      BY <2>1, <2>2, ParameterTokens, WithoutOne DEF Without
    <2>6. Without(ps, {" ", "CRLF"}) /\ Without(ps, {":"})
      BY <2>4, <2>5, WithoutConcat
    <2>7. ps[1] = o[1]
      <3>1. 1 \in 1 .. Len(o)
        BY <2>3
      <3> QED
        BY ONLY <2>4, <3>1, o \in Seq(Token), u \in Seq(Token), ConcatAt
    <2>8. QueryText(ps, params)
      BY <1>1, <2>1 DEF QueryText, Cat
    <2> QED
      BY <2>3, <2>6, <2>7, <2>8
  <1> QED
    BY <1>2, <1>3

\* A request with some content.
RequestText(r, c) == IF r.method = "POST" THEN HeadPost(r) \o c ELSE PackGet(r)

\* The parts of a request stand in its text where the parser looks for them.
RequestPlaced(r, c) ==
  LET ps == Parameters(r.params)
      hl == HeaderLines(Sent(r))
  IN  /\ FirstFits(r.method, r.path, ps, r.version) /\ QueryText(ps, r.params) /\ Headers(hl, Sent(r))
      /\ RequestText(r, c) = WholeText(r.method, r.path, ps, r.version, hl, c)
      /\ WholePlaced(RequestText(r, c), r.method, r.path, ps, r.version, hl, c)

\* A request that a client may make has parts that the parser can read.
LEMMA RequestIs ==
  ASSUME NEW r, WellTyped(r), NEW c \in Seq(Token), r.method = "GET" => c = <<>>
  PROVE  RequestPlaced(r, c)
  <1>1. PICK ps, hl : ps = Parameters(r.params) /\ hl = HeaderLines(Sent(r))
    OBVIOUS
  <1>2. /\ r.method \in {"GET", "POST"} /\ r.version \in {"1.0", "1.1"}
        /\ r.path \in Seq(Printable \ Separators) /\ IsFiniteSet(r.params)
        /\ r.params \subseteq Seq(Printable \ {e[2] : e \in Escapes}) \X Seq(Printable \ {e[2] : e \in Escapes})
    BY DEF WellTyped, Printable
  <1>3. r.path \in Seq(Token) /\ Without(r.path, Separators)
    BY <1>2, Texts
  <1>4. r.params \subseteq DataTexts \X DataTexts
    BY ONLY <1>2, Texts
  <1>5. QueryText(ps, r.params) /\ Without(ps, {" ", "CRLF"}) /\ Without(ps, {":"}) /\ (ps = <<>> \/ ps[1] = "?")
    BY <1>1, <1>2, <1>4, ParametersRead
  <1>6. FirstFits(r.method, r.path, ps, r.version)
    BY <1>2, <1>3, <1>5 DEF FirstFits, QueryText
  <1>7. Headers(hl, Sent(r))
    BY <1>1, SentRead
  <1>8. RequestText(r, c) = WholeText(r.method, r.path, ps, r.version, hl, c)
    <2>1. PICK x : x = First(r.method, r.path, ps, r.version)
      OBVIOUS
    <2>2. FirstLine(r) = x
      BY <1>1, <2>1 DEF FirstLine, First, Cat, LineStart, LineFinish
    <2>3. CASE r.method = "POST"
      <3>1. RequestText(r, c) = x \o hl \o <<"CRLF">> \o c
        BY <1>1, <2>2, <2>3 DEF RequestText, HeadPost, Sent
      <3> QED
        BY <2>1, <3>1 DEF WholeText, Cat, One
    <2>4. CASE r.method = "GET"
      <3>1. PICK t : t = x \o hl \o <<"CRLF">>
        OBVIOUS
      <3>2. RequestText(r, c) = t
        BY <1>1, <2>2, <2>4, <3>1 DEF RequestText, PackGet, Sent
      <3>3. t = Cat(Cat(x, hl), One("CRLF"))
        BY <3>1 DEF Cat, One
      <3>4. t \in Seq(Token)
        <4>1. x \in Seq(Token)
          BY <1>6, <2>1, FirstIs
        <4>2. hl \in Seq(Token)
          BY <1>7 DEF Headers
        <4>3. PICK e \in Seq(Token) : e = One("CRLF")
          BY HeaderTokens, OneIs
        <4>4. Cat(Cat(x, hl), e) \in Seq(Token)
          BY ONLY <4>1, <4>2, e \in Seq(Token), CatType
        <4> QED
          BY <3>3, <4>3, <4>4
      <3>5. Cat(t, <<>>) = t
        BY <3>4 DEF Cat
      <3> QED
        BY <1>2, <2>1, <2>4, <3>2, <3>3, <3>5 DEF WholeText
    <2> QED
      BY <1>2, <2>3, <2>4
  <1>9. WholePlaced(RequestText(r, c), r.method, r.path, ps, r.version, hl, c)
    BY <1>3, <1>6, <1>7, <1>8, WholeIs
  <1> QED
    BY <1>1, <1>5, <1>6, <1>7, <1>8, <1>9 DEF RequestPlaced

\* The text w begins with the text a.
Begins(a, w) ==
  /\ a \in Seq(Token) /\ w \in Seq(Token) /\ Len(a) <= Len(w)
  /\ \A i \in 1 .. Len(a) : w[i] = a[i]

\* What snprintf leaves of a text is what it begins with, up to a NUL or the end of the room.
LEMMA PrintedIs ==
  ASSUME NEW t \in Seq(Token), NEW room \in Int, NEW d, d = Printed(t, room)
  PROVE  /\ Begins(d, t) /\ Without(d, {"NUL"})
         /\ d = t \/ t[Len(d) + 1] = "NUL" \/ Len(d) + 1 = room
  <1>1. PICK l \in Nat : l = Len(t)
    OBVIOUS
  <1>2. PICK E : E = {n \in 0 .. l : n = l \/ t[n + 1] = "NUL" \/ n + 1 = room}
    OBVIOUS
  <1>3. l \in E /\ E \subseteq Nat
    BY ONLY <1>2, l \in Nat
  <1>4. \E n \in E : \A m \in E : n <= m
    BY ONLY <1>3, LeastElement
  <1>5. PICK n : n = CHOOSE x \in E : \A m \in E : x <= m
    OBVIOUS
  <1>6. n \in E /\ \A m \in E : n <= m
    BY ONLY <1>4, <1>5
  <1>7. n \in 0 .. l /\ (n = l \/ t[n + 1] = "NUL" \/ n + 1 = room)
    BY ONLY <1>2, <1>6
  <1>8. d = SubSeq(t, 1, n)
    BY <1>1, <1>2, <1>5 DEF Printed
  <1>9. d \in Seq(Token) /\ Len(d) = n /\ \A i \in 1 .. n : d[i] = t[i]
    BY ONLY <1>1, <1>7, <1>8, t \in Seq(Token), CutIs
  <1>10. Begins(d, t)
    <2>1. Len(d) <= Len(t)
      BY ONLY <1>1, <1>7, <1>9
    <2> QED
      BY <1>9, <2>1 DEF Begins
  <1>11. ASSUME NEW i \in 1 .. n PROVE d[i] # "NUL"
    <2>1. i - 1 \in 0 .. l /\ (i - 1) + 1 = i /\ ~ (n <= i - 1)
      BY ONLY <1>7, l \in Nat, i \in 1 .. n
    <2>2. i - 1 \notin E
      BY ONLY <1>6, <2>1
    <2>3. t[(i - 1) + 1] # "NUL"
      BY ONLY <1>2, <2>1, <2>2
    <2> QED
      BY <1>9, <2>1, <2>3
  <1>12. n = l => d = t
    <2>1. SubSeq(t, 1, Len(t)) = t
      BY ONLY t \in Seq(Token)
    <2> QED
      BY <1>1, <1>8, <2>1
  <1> QED
    BY <1>7, <1>9, <1>10, <1>11, <1>12 DEF Without

\* The text of a request with the content, or with what it begins with.
SentAs(w, r, c) ==
  /\ w = RequestText(r, c) /\ Begins(c, r.content) /\ (r.method = "GET" => c = <<>>)
  /\ r.method = "POST" => c \in {r.content, Printed(r.content, Room - Len(HeadPost(r)))}
  /\ c = r.content <=> (r.method = "POST" => w = PackWhole(r))

\* A text that begins with a text of its length is that text.
LEMMA BeginsWhole ==
  ASSUME NEW a, NEW w, Begins(a, w), Len(a) = Len(w)
  PROVE  a = w
  <1>1. a \in Seq(Token) /\ w \in Seq(Token) /\ \A i \in 1 .. Len(a) : w[i] = a[i]
    BY DEF Begins
  <1> QED
    BY ONLY <1>1, Len(a) = Len(w)

\* The head of a request, and that a content may follow it.
LEMMA HeadPostIs ==
  ASSUME NEW r, WellTyped(r), r.method = "POST"
  PROVE  HeadPost(r) \in Seq(Token)
  <1>1. PICK x : x = First(r.method, r.path, Parameters(r.params), r.version)
    OBVIOUS
  <1>2. PICK hl : hl = HeaderLines(Sent(r))
    OBVIOUS
  <1>3. PICK c \in Seq(Token) : c = <<>>
    <2>1. <<>> \in Seq(Token)
      OBVIOUS
    <2> QED
      BY <2>1
  <1>4. FirstFits(r.method, r.path, Parameters(r.params), r.version) /\ Headers(hl, Sent(r))
    BY <1>2, <1>3, RequestIs DEF RequestPlaced
  <1>5. x \in Seq(Token) /\ hl \in Seq(Token)
    BY <1>1, <1>4, FirstIs DEF Headers
  <1>6. PICK e \in Seq(Token) : e = One("CRLF")
    BY HeaderTokens, OneIs
  <1>7. HeadPost(r) = x \o hl \o e
    BY <1>1, <1>2, <1>6 DEF HeadPost, FirstLine, First, Cat, LineStart, LineFinish, Sent, One
  <1> QED
    BY ONLY <1>5, <1>7, e \in Seq(Token)

\* Whatever a client sends, it is the request with the content or with what it begins with.
LEMMA SendingIs ==
  ASSUME NEW r, WellTyped(r), Room \in Nat, NEW w \in Sendings(r)
  PROVE  \E c \in Seq(Token) : SentAs(w, r, c)
  <1>1. r.method \in {"GET", "POST"} /\ r.content \in Seq(STRING) /\ (r.method = "GET" => r.content = <<>>)
    BY DEF WellTyped
  <1>2. PICK b \in Seq(Token) : b = r.content
    BY <1>1, Texts
  <1>3. Begins(b, b)
    BY DEF Begins
  <1>4. CASE r.method = "GET"
    <2>1. w = RequestText(r, b)
      BY <1>4 DEF Sendings, RequestText
    <2> QED
      BY <1>1, <1>2, <1>3, <1>4, <2>1 DEF SentAs
  <1>5. CASE r.method = "POST"
    <2>1. PICK h \in Seq(Token) : h = HeadPost(r)
      BY <1>5, HeadPostIs
    <2>2. PICK d : d = Printed(b, Room - Len(h))
      OBVIOUS
    <2>3. Room - Len(h) \in Int
      BY ONLY h \in Seq(Token), Room \in Nat
    <2>4. Begins(d, b) /\ d \in Seq(Token)
      BY <2>2, <2>3, PrintedIs DEF Begins
    <2>5. w \in {h \o d, h \o b} /\ PackWhole(r) = h \o b
      BY <1>2, <1>5, <2>1, <2>2 DEF Sendings, PackPost, PackWhole
    <2>6. PICK c \in {d, b} : w = h \o c
      BY <2>5
    <2>7. c \in Seq(Token) /\ Begins(c, b)
      BY <1>3, <2>4, <2>6
    <2>8. ASSUME h \o c = h \o b PROVE c = b
      <3>1. Len(c) = Len(b)
        <4>1. Len(h \o c) = Len(h) + Len(c) /\ Len(h \o b) = Len(h) + Len(b)
          BY ONLY <2>7, h \in Seq(Token), b \in Seq(Token)
        <4>2. Len(h) \in Nat /\ Len(c) \in Nat /\ Len(b) \in Nat
          BY ONLY <2>7, h \in Seq(Token), b \in Seq(Token)
        <4> QED
          BY ONLY <2>8, <4>1, <4>2
      <3> QED
        BY <2>7, <3>1, BeginsWhole
    <2>9. w = RequestText(r, c) /\ (c = b <=> w = PackWhole(r))
      BY <1>5, <2>1, <2>5, <2>6, <2>8 DEF RequestText
    <2> QED
      BY <1>2, <1>5, <2>1, <2>2, <2>6, <2>7, <2>9 DEF SentAs
  <1> QED
    BY <1>1, <1>4, <1>5

\* The text of a request is parsed as the request, headers as they are sent: with all of
\* its content, or with what pack_post left of it if it was packed with that.
THEOREM RequestRead ==
  ASSUME NEW r, WellTyped(r), Room \in Nat, NEW w \in Sendings(r)
  PROVE  /\ Parse(w) # Failed
         /\ Parse(w).path = r.path /\ Parse(w).params = r.params
         /\ Parse(w).version = r.version /\ Parse(w).headers = Sent(r)
         /\ r.method = "POST" =>
              /\ w = PackWhole(r) => Parse(w).content = r.content
              /\ w # PackWhole(r) =>
                   /\ Parse(w).content = Printed(r.content, Room - Len(HeadPost(r)))
                   /\ Parse(w).content # r.content
  <1>1. PICK c \in Seq(Token) : SentAs(w, r, c)
    BY SendingIs
  <1>2. RequestPlaced(r, c) /\ w = RequestText(r, c)
    BY <1>1, RequestIs DEF SentAs
  <1>3. /\ Parse(w) # Failed
        /\ Parse(w).path = r.path /\ Parse(w).params = r.params
        /\ Parse(w).version = r.version /\ Parse(w).headers = Sent(r)
        /\ r.method = "POST" => Parse(w).content = c
    BY <1>2, WholeRead DEF RequestPlaced
  <1> QED
    BY <1>1, <1>3 DEF SentAs

\* A header begins at i.
Opens(t, key, i) ==
  i \in 1 .. Len(t) - 2 /\ t[i] = key /\ t[i + 1] = ":" /\ t[i + 2] = " "

\* No header begins anywhere.
Closed(t, key) == \A i \in 1 .. Len(t) : ~ Opens(t, key, i)

\* The first header with a key begins at s and ends at l.
FirstAt(t, key, s) == Opens(t, key, s) /\ \A i \in 1 .. s - 1 : ~ Opens(t, key, i)
Held(t, key, s, l) ==
  /\ FirstAt(t, key, s)
  /\ l \in s + 3 .. Len(t) /\ t[l] = "CRLF" /\ \A i \in s + 3 .. l - 1 : t[i] # "CRLF"

Dangling(t, key, s) == FirstAt(t, key, s) /\ \A i \in s + 3 .. Len(t) : t[i] # "CRLF"

\* A text without the key says nothing of it.
LEMMA ExtractNone ==
  ASSUME NEW t \in Seq(Token), NEW key, Closed(t, key)
  PROVE  Extract(t, key) = {}
  <1>1. {i \in 1 .. Len(t) - 2 : t[i] = key /\ t[i + 1] = ":" /\ t[i + 2] = " "} = {}
    <2>1. \A i \in 1 .. Len(t) - 2 : i \in 1 .. Len(t)
      OBVIOUS
    <2> QED
      BY <2>1 DEF Closed, Opens
  <1> QED
    BY <1>1 DEF Extract

\* What is extracted begins with the first header.
LEMMA ExtractFirst ==
  ASSUME NEW t \in Seq(Token), NEW key, NEW s \in Nat, FirstAt(t, key, s)
  PROVE  Extract(t, key) = IF Find(t, "CRLF", s + 3) = 0 THEN {}
                           ELSE {Between(t, s + 2, Find(t, "CRLF", s + 3))}
  <1> DEFINE S == {i \in 1 .. Len(t) - 2 : t[i] = key /\ t[i + 1] = ":" /\ t[i + 2] = " "}
  <1>1. s \in S
    BY DEF FirstAt, Opens
  <1>2. \A i \in S : i \in 1 .. Len(t) - 2 /\ Opens(t, key, i)
    BY DEF Opens
  <1>3. S \subseteq Nat
    <2>1. PICK n \in Nat : n = Len(t)
      OBVIOUS
    <2>2. \A i \in 1 .. n - 2 : i \in Nat
      OBVIOUS
    <2> HIDE DEF S
    <2> QED
      BY <1>2, <2>1, <2>2
  <1>4. \A i \in S : s <= i
    <2> HIDE DEF S
    <2>1. ASSUME NEW i \in S, i < s PROVE FALSE
      <3>1. PICK n \in Nat : n = Len(t)
        OBVIOUS
      <3>2. i \in 1 .. n - 2
        BY <1>2, <3>1
      <3>3. i \in 1 .. s - 1
        BY ONLY <2>1, <3>2, s \in Nat, n \in Nat
      <3> QED
        BY <1>2, <3>3 DEF FirstAt
    <2>2. \A i \in S : ~ (i < s)
      BY <2>1
    <2> QED
      BY ONLY <1>3, <2>2, s \in Nat
  <1>5. (CHOOSE i \in S : \A j \in S : i <= j) = s
    <2> HIDE DEF S
    <2>1. \A i \in S : (\A j \in S : i <= j) => i = s
      BY <1>1, <1>4, <1>3
    <2> QED
      BY <1>1, <1>4, <2>1
  <1>6. S # {}
    BY <1>1
  <1> HIDE DEF S
  <1>7. Extract(t, key) = IF S = {} \/ Find(t, "CRLF", s + 3) = 0 THEN {}
                          ELSE {Between(t, s + 2, Find(t, "CRLF", s + 3))}
    BY <1>5 DEF Extract, S
  <1> QED
    BY <1>6, <1>7

\* The value behind the first key up to the end of its line.
LEMMA ExtractHeld ==
  ASSUME NEW t \in Seq(Token), NEW key, NEW s \in Nat, NEW l \in Nat, Held(t, key, s, l)
  PROVE  Extract(t, key) = {Between(t, s + 2, l)}
  <1>1. Find(t, "CRLF", s + 3) = l /\ l # 0
    <2>1. PICK f \in Nat \ {0} : f = s + 3
      OBVIOUS
    <2>2. f <= l /\ l <= Len(t) /\ l # 0
      BY ONLY <2>1, Held(t, key, s, l), t \in Seq(Token), s \in Nat, l \in Nat DEF Held
    <2>3. t[l] = "CRLF" /\ \A i \in f .. l - 1 : t[i] # "CRLF"
      BY <2>1 DEF Held
    <2> QED
      BY <2>1, <2>2, <2>3, HeaderTokens, FindIs
  <1> QED
    BY <1>1, ExtractFirst DEF Held

\* A line without its end says nothing.
LEMMA ExtractDangling ==
  ASSUME NEW t \in Seq(Token), NEW key, NEW s \in Nat, Dangling(t, key, s)
  PROVE  Extract(t, key) = {}
  <1>1. PICK f \in Nat \ {0} : f = s + 3
    OBVIOUS
  <1>2. \A i \in f .. Len(t) : t[i] # "CRLF"
    BY <1>1 DEF Dangling
  <1>3. Find(t, "CRLF", f) = 0
    BY <1>2, HeaderTokens, FindNone
  <1> QED
    BY <1>1, <1>3, ExtractFirst DEF Dangling

\* A header begins somewhere first, or nowhere.
LEMMA OpensFirst ==
  ASSUME NEW t \in Seq(Token), NEW key, ~ Closed(t, key)
  PROVE  \E s \in Nat \ {0} : FirstAt(t, key, s)
  <1> DEFINE S == {i \in 1 .. Len(t) : Opens(t, key, i)}
  <1>1. S \subseteq Nat /\ S # {}
    BY DEF Closed
  <1>2. PICK s \in S : \A i \in S : s <= i
    <2> HIDE DEF S
    <2> QED
      BY <1>1, LeastElement
  <1>3. ASSUME NEW i \in 1 .. s - 1 PROVE ~ Opens(t, key, i)
    <2>1. i \in 1 .. Len(t) /\ i < s
      BY <1>2
    <2>2. i \notin S
      BY <1>2, <2>1
    <2> QED
      BY <2>1, <2>2
  <1> QED
    BY <1>2, <1>3 DEF FirstAt

\* Every text has a header with its end, one without, or none.
LEMMA ExtractCases ==
  ASSUME NEW t \in Seq(Token), NEW key
  PROVE  \/ Closed(t, key) \/ \E s \in Nat \ {0} : Dangling(t, key, s)
         \/ \E s \in Nat \ {0}, l \in Nat : Held(t, key, s, l)
  <1>1. SUFFICES ASSUME ~ Closed(t, key)
        PROVE  \/ \E s \in Nat \ {0} : Dangling(t, key, s)
               \/ \E s \in Nat \ {0}, l \in Nat : Held(t, key, s, l)
    OBVIOUS
  <1>2. PICK s \in Nat \ {0} : FirstAt(t, key, s)
    BY <1>1, OpensFirst
  <1>3. PICK n \in Nat, f \in Nat \ {0} : n = Len(t) /\ f = s + 3
    OBVIOUS
  <1>4. PICK l \in Nat : l = Find(t, "CRLF", f) /\ l \in 0 .. n
    BY <1>3, FindFirst
  <1>5. CASE l = 0
    <2>1. \A i \in f .. n : t[i] # "CRLF"
      BY <1>3, <1>4, <1>5, FindFirst
    <2> QED
      BY <1>2, <1>3, <2>1 DEF Dangling
  <1>6. CASE l # 0
    <2>1. f <= l /\ t[l] = "CRLF" /\ \A i \in f .. l - 1 : t[i] # "CRLF"
      BY <1>4, <1>6, FindFirst
    <2>2. f <= l
      BY <2>1
    <2>3. l \in s + 3 .. Len(t)
      BY ONLY <1>3, <1>4, <2>2, s \in Nat \ {0}
    <2> QED
      BY <1>2, <1>3, <2>1, <2>3 DEF Held
  <1> QED
    BY <1>5, <1>6

\* A header with its end does not dangle.
LEMMA DanglingEnds ==
  ASSUME NEW t \in Seq(Token), NEW key, NEW s \in Nat \ {0}, Dangling(t, key, s),
         t # <<>> => t[Len(t)] = "CRLF"
  PROVE  FALSE
  <1>1. s \in 1 .. Len(t) - 2 /\ t[s + 2] = " "
    BY DEF Dangling, FirstAt, Opens
  <1>2. s \in 1 .. Len(t) - 2
    BY <1>1
  <1>3. PICK n \in Nat : n = Len(t)
    OBVIOUS
  <1>4. s + 2 <= n /\ n # 0
    BY ONLY <1>2, <1>3, s \in Nat \ {0}
  <1>5. t[n] = "CRLF"
    BY <1>3, <1>4
  <1>6. n # s + 2
    BY <1>1, <1>5
  <1>7. n \in s + 3 .. n
    BY ONLY <1>4, <1>6, s \in Nat \ {0}, n \in Nat
  <1> QED
    BY <1>3, <1>5, <1>7 DEF Dangling

\* A header that has its end where a text begins is the header of the text.
LEMMA HeldKept ==
  ASSUME NEW a, NEW w, Begins(a, w), NEW key, NEW s \in Nat \ {0}, NEW l \in Nat, Held(a, key, s, l)
  PROVE  Held(w, key, s, l)
  <1>1. PICK n \in Nat, k \in Nat : n = Len(a) /\ k = Len(w) /\ n <= k
    BY DEF Begins
  <1>2. \A i \in 1 .. n : w[i] = a[i]
    BY <1>1 DEF Begins
  <1>3. s + 3 <= l /\ l <= n /\ s \in 1 .. n - 2
    <2>1. l \in s + 3 .. Len(a) /\ s \in 1 .. Len(a) - 2
      BY DEF Held, FirstAt, Opens
    <2> QED
      BY ONLY <1>1, <2>1, s \in Nat \ {0}
  <1>4. ASSUME NEW i \in 1 .. n - 2 PROVE Opens(w, key, i) <=> Opens(a, key, i)
    <2>1. i \in 1 .. n /\ i + 1 \in 1 .. n /\ i + 2 \in 1 .. n /\ i \in 1 .. k - 2
      BY ONLY <1>1, n \in Nat, k \in Nat, i \in 1 .. n - 2
    <2>2. w[i] = a[i] /\ w[i + 1] = a[i + 1] /\ w[i + 2] = a[i + 2]
      BY ONLY <1>2, <2>1
    <2> QED
      BY ONLY <1>1, <2>1, <2>2, i \in 1 .. n - 2 DEF Opens
  <1>5. FirstAt(w, key, s)
    <2>1. \A i \in 1 .. s - 1 : i \in 1 .. n - 2
      BY ONLY <1>3, s \in Nat \ {0}, n \in Nat
    <2> QED
      BY <1>3, <1>4, <2>1 DEF Held, FirstAt
  <1>6. \A i \in s + 3 .. l : i \in 1 .. n
    BY ONLY <1>3, s \in Nat \ {0}, n \in Nat, l \in Nat
  <1>7. l \in s + 3 .. l /\ \A i \in s + 3 .. l - 1 : i \in s + 3 .. l
    BY ONLY <1>3, s \in Nat \ {0}, l \in Nat
  <1>8. w[l] = a[l] /\ \A i \in s + 3 .. l - 1 : w[i] = a[i]
    BY ONLY <1>2, <1>6, <1>7
  <1>9. l \in s + 3 .. Len(w)
    BY ONLY <1>1, <1>3, s \in Nat \ {0}, n \in Nat, l \in Nat, k \in Nat
  <1> QED
    BY <1>5, <1>8, <1>9 DEF Held

\* Whatever is extracted from a part that a text begins with is extracted from the text.
LEMMA ExtractKept ==
  ASSUME NEW a, NEW w, Begins(a, w), NEW key, Extract(a, key) # {}
  PROVE  Extract(w, key) # {}
  <1>1. a \in Seq(Token) /\ w \in Seq(Token)
    BY DEF Begins
  <1>2. PICK s \in Nat \ {0}, l \in Nat : Held(a, key, s, l)
    BY <1>1, ExtractCases, ExtractNone, ExtractDangling
  <1>3. Held(w, key, s, l)
    BY <1>2, HeldKept
  <1>4. Extract(w, key) = {Between(w, s + 2, l)}
    BY ONLY <1>1, <1>3, s \in Nat \ {0}, l \in Nat, ExtractHeld
  <1> QED
    BY ONLY <1>4

\* Two texts, the first of which ends with a line end.
Joined(w, a, b, n, l) ==
  /\ a \in Seq(Token) /\ b \in Seq(Token) /\ w \in Seq(Token) /\ w = a \o b
  /\ n \in Nat \ {0} /\ l \in Nat /\ n = Len(a) /\ l = Len(b) /\ Len(w) = n + l
  /\ a[n] = "CRLF"
  /\ \A i \in 1 .. n : w[i] = a[i]
  /\ \A i \in 1 .. l : w[n + i] = b[i]

\* Two texts that stand behind each other.
LEMMA JoinedIs ==
  ASSUME NEW a \in Seq(Token), NEW b \in Seq(Token), a # <<>>, a[Len(a)] = "CRLF"
  PROVE  Joined(a \o b, a, b, Len(a), Len(b))
  <1>1. PICK n \in Nat \ {0}, l \in Nat, w \in Seq(Token) : n = Len(a) /\ l = Len(b) /\ w = a \o b
    <2>1. Len(a) \in Nat \ {0} /\ Len(b) \in Nat
      BY ONLY a \in Seq(Token), b \in Seq(Token), a # <<>>
    <2>2. a \o b \in Seq(Token)
      BY ConcatAt
    <2> QED
      BY ONLY <2>1, <2>2
  <1>2. w \in Seq(Token) /\ Len(w) = n + l /\ (\A i \in 1 .. n : w[i] = a[i])
        /\ (\A i \in 1 .. l : w[n + i] = b[i])
    BY ONLY <1>1, a \in Seq(Token), b \in Seq(Token), ConcatAt
  <1> QED
    BY <1>1, <1>2 DEF Joined

\* Headers of two texts: a line end is in none.
LEMMA JoinedOpens ==
  ASSUME NEW w, NEW a, NEW b, NEW n, NEW l, Joined(w, a, b, n, l), NEW key, key # "CRLF"
  PROVE  /\ \A i \in 1 .. n : Opens(w, key, i) <=> Opens(a, key, i)
         /\ \A j \in 1 .. l : Opens(w, key, n + j) <=> Opens(b, key, j)
  <1>1. n \in Nat \ {0} /\ l \in Nat /\ n = Len(a) /\ l = Len(b) /\ Len(w) = n + l
    BY DEF Joined
  <1>2. (\A i \in 1 .. n : w[i] = a[i]) /\ (\A i \in 1 .. l : w[n + i] = b[i])
    BY DEF Joined
  <1>3. w[n] = "CRLF"
    BY <1>1 DEF Joined
  <1>4. ASSUME NEW i \in 1 .. n - 2 PROVE Opens(w, key, i) <=> Opens(a, key, i)
    <2>1. i \in 1 .. n /\ i + 1 \in 1 .. n /\ i + 2 \in 1 .. n /\ i \in 1 .. (n + l) - 2
      BY ONLY <1>1, i \in 1 .. n - 2
    <2>2. w[i] = a[i] /\ w[i + 1] = a[i + 1] /\ w[i + 2] = a[i + 2]
      BY ONLY <1>2, <2>1
    <2> QED
      BY ONLY <1>1, <2>1, <2>2, i \in 1 .. n - 2 DEF Opens
  <1>5. ASSUME NEW i \in 1 .. n, i \notin 1 .. n - 2 PROVE ~ Opens(w, key, i) /\ ~ Opens(a, key, i)
    <2>1. i = n \/ i + 1 = n
      BY ONLY <1>1, <1>5
    <2>2. ~ Opens(w, key, i)
      BY <1>3, <2>1 DEF Opens
    <2>3. ~ Opens(a, key, i)
      BY ONLY <1>1, <1>5 DEF Opens
    <2> QED
      BY <2>2, <2>3
  <1>6. ASSUME NEW j \in 1 .. l PROVE Opens(w, key, n + j) <=> Opens(b, key, j)
    <2>1. n + j \in 1 .. (n + l) - 2 <=> j \in 1 .. l - 2
      BY ONLY <1>1, j \in 1 .. l
    <2>2. ASSUME j \in 1 .. l - 2
          PROVE  w[n + j] = b[j] /\ w[n + j + 1] = b[j + 1] /\ w[n + j + 2] = b[j + 2]
      <3>1. /\ j \in 1 .. l /\ j + 1 \in 1 .. l /\ j + 2 \in 1 .. l
            /\ n + j + 1 = n + (j + 1) /\ n + j + 2 = n + (j + 2)
        BY ONLY <1>1, <2>2
      <3> QED
        BY ONLY <1>2, <3>1
    <2> QED
      BY ONLY <1>1, <2>1, <2>2 DEF Opens
  <1> QED
    BY <1>4, <1>5, <1>6

\* What is extracted from two texts, the first of which ends with a line end.
LEMMA ExtractJoined ==
  ASSUME NEW a \in Seq(Token), NEW b \in Seq(Token), a # <<>> => a[Len(a)] = "CRLF",
         NEW key, key # "CRLF"
  PROVE  Extract(a \o b, key) = IF Extract(a, key) # {} THEN Extract(a, key) ELSE Extract(b, key)
  <1>1. CASE a = <<>>
    <2>1. Closed(a, key)
      BY <1>1 DEF Closed
    <2>2. a \o b = b
      BY <1>1
    <2> QED
      BY <2>1, <2>2, ExtractNone
  <1>2. CASE a # <<>>
    <2>1. PICK w, n, l : Joined(w, a, b, n, l) /\ w = a \o b
      BY <1>2, JoinedIs
    <2>2. n \in Nat \ {0} /\ l \in Nat /\ n = Len(a) /\ l = Len(b) /\ Len(w) = n + l /\ w \in Seq(Token)
      BY <2>1 DEF Joined
    <2>3. \A i \in 1 .. n : Opens(w, key, i) <=> Opens(a, key, i)
      BY <2>1, JoinedOpens
    <2>4. \A j \in 1 .. l : Opens(w, key, n + j) <=> Opens(b, key, j)
      BY <2>1, JoinedOpens
    <2>5. CASE \E s \in Nat \ {0}, e \in Nat : Held(a, key, s, e)
      <3>1. PICK s \in Nat \ {0}, e \in Nat : Held(a, key, s, e)
        BY <2>5
      <3>2. Begins(a, w)
        BY <2>1, <2>2 DEF Begins, Joined
      <3>3. Extract(w, key) = {Between(w, s + 2, e)}
        BY <2>2, <3>1, <3>2, HeldKept, ExtractHeld
      <3>4. Extract(a, key) = {Between(a, s + 2, e)}
        BY <3>1, ExtractHeld
      <3>5. PICK i \in Nat : i = s + 2
        OBVIOUS
      <3>6. i <= e /\ e <= Len(a) + 1
        BY ONLY <3>1, <3>5, a \in Seq(Token), s \in Nat \ {0}, e \in Nat DEF Held
      <3>7. Between(w, i, e) = Between(a, i, e)
        BY <2>1, <3>6, BetweenFirst
      <3> QED
        BY <2>1, <3>3, <3>4, <3>5, <3>7
    <2>6. CASE Closed(a, key)
      <3>1. Extract(a, key) = {}
        BY <2>6, ExtractNone
      <3>2. \A i \in 1 .. n : ~ Opens(w, key, i)
        BY <2>2, <2>3, <2>6 DEF Closed
      <3>3. ASSUME NEW s \in Nat \ {0}, FirstAt(b, key, s) PROVE FirstAt(w, key, n + s) /\ s \in 1 .. l
        <4>1. s \in 1 .. l
          <5>1. s \in 1 .. Len(b) - 2
            BY ONLY <3>3 DEF FirstAt, Opens
          <5> QED
            BY ONLY <2>2, <5>1
        <4>2. Opens(w, key, n + s)
          BY <2>4, <3>3, <4>1 DEF FirstAt
        <4>3. PICK t \in Nat : t = n + s
          BY <2>2
        <4>4. ASSUME NEW i \in 1 .. t - 1 PROVE ~ Opens(w, key, i)
          <5>1. CASE i \in 1 .. n
            BY <3>2, <5>1
          <5>2. CASE i \notin 1 .. n
            <6>1. PICK j \in 1 .. s - 1 : i = n + j
              <7>1. i - n \in 1 .. s - 1 /\ i = n + (i - n)
                BY ONLY <2>2, <4>3, <5>2, s \in Nat \ {0}, i \in 1 .. t - 1
              <7> QED
                BY <7>1
            <6>2. j \in 1 .. l
              BY ONLY <2>2, <4>1, j \in 1 .. s - 1
            <6> QED
              BY <2>4, <3>3, <6>1, <6>2 DEF FirstAt
          <5> QED
            BY <5>1, <5>2
        <4>5. FirstAt(w, key, n + s)
          <5>1. FirstAt(w, key, t)
            BY ONLY <4>2, <4>4, <4>3 DEF FirstAt
          <5> QED
            BY ONLY <4>3, <5>1
        <4> QED
          BY <4>1, <4>5
      <3>4. \A i \in 1 .. l : w[n + i] = b[i]
        BY <2>1 DEF Joined
      <3>5. CASE Closed(b, key)
        <4>1. Closed(w, key)
          <5>1. ASSUME NEW i \in 1 .. n + l PROVE ~ Opens(w, key, i)
            <6>1. CASE i \in 1 .. n
              BY <3>2, <6>1
            <6>2. CASE i \notin 1 .. n
              <7>1. PICK j \in 1 .. l : i = n + j
                <8>1. i - n \in 1 .. l /\ i = n + (i - n)
                  BY ONLY <2>2, <6>2, i \in 1 .. n + l
                <8> QED
                  BY <8>1
              <7> QED
                BY <2>2, <2>4, <3>5, <7>1 DEF Closed
            <6> QED
              BY <6>1, <6>2
          <5> QED
            BY <2>2, <5>1 DEF Closed
        <4> QED
          BY <2>1, <2>2, <3>1, <3>5, <4>1, ExtractNone
      <3>6. CASE \E s \in Nat \ {0} : Dangling(b, key, s)
        <4>1. PICK s \in Nat \ {0} : Dangling(b, key, s)
          BY <3>6
        <4>2. PICK t \in Nat : t = n + s
          BY <2>2
        <4>3. ASSUME NEW i \in t + 3 .. Len(w) PROVE w[i] # "CRLF"
          <5>1. PICK j \in s + 3 .. l : i = n + j
            <6>1. i - n \in s + 3 .. l /\ i = n + (i - n)
              BY ONLY <2>2, <4>2, i \in t + 3 .. Len(w), s \in Nat \ {0}
            <6> QED
              BY <6>1
          <5>2. j \in 1 .. l
            BY ONLY <2>2, j \in s + 3 .. l, s \in Nat \ {0}
          <5> QED
            BY <2>2, <3>4, <4>1, <5>1, <5>2 DEF Dangling
        <4>4. Dangling(w, key, t)
          BY <3>3, <4>1, <4>2, <4>3 DEF Dangling
        <4> QED
          BY <2>1, <2>2, <3>1, <4>1, <4>4, ExtractDangling
      <3>7. CASE \E s \in Nat \ {0}, e \in Nat : Held(b, key, s, e)
        <4>1. PICK s \in Nat \ {0}, e \in Nat : Held(b, key, s, e)
          BY <3>7
        <4>2. PICK t \in Nat \ {0}, f \in Nat : t = n + s /\ f = n + e
          BY <2>2
        <4>3. e \in s + 3 .. l
          BY <2>2, <4>1 DEF Held
        <4>4. e \in 1 .. l /\ f \in t + 3 .. Len(w)
          BY ONLY <2>2, <4>2, <4>3, s \in Nat \ {0}, e \in Nat
        <4>5. w[f] = "CRLF"
          BY <3>4, <4>1, <4>2, <4>4 DEF Held
        <4>6. ASSUME NEW i \in t + 3 .. f - 1 PROVE w[i] # "CRLF"
          <5>1. PICK j \in s + 3 .. e - 1 : i = n + j
            <6>1. i - n \in s + 3 .. e - 1 /\ i = n + (i - n)
              BY ONLY <2>2, <4>2, i \in t + 3 .. f - 1, s \in Nat \ {0}, e \in Nat
            <6> QED
              BY <6>1
          <5>2. j \in 1 .. l
            BY ONLY <2>2, <4>3, j \in s + 3 .. e - 1, s \in Nat \ {0}, e \in Nat
          <5> QED
            BY <3>4, <4>1, <5>1, <5>2 DEF Held
        <4>7. Held(w, key, t, f)
          BY <3>3, <4>1, <4>2, <4>4, <4>5, <4>6 DEF Held
        <4>8. Extract(w, key) = {Between(w, t + 2, f)} /\ Extract(b, key) = {Between(b, s + 2, e)}
          BY <2>2, <4>1, <4>7, ExtractHeld
        <4>9. PICK i \in Nat : i = s + 2
          OBVIOUS
        <4>10. i < e /\ e <= Len(b) + 1 /\ t + 2 = Len(a) + i /\ f = Len(a) + e
          BY ONLY <2>2, <4>2, <4>3, <4>9, s \in Nat \ {0}, e \in Nat
        <4>11. Between(a \o b, Len(a) + i, Len(a) + e) = Between(b, i, e)
          BY <4>10, BetweenSecond
        <4> QED
          BY <2>1, <3>1, <4>8, <4>9, <4>10, <4>11
      <3> QED
        BY <3>5, <3>6, <3>7, ExtractCases
    <2>7. ~ \E s \in Nat \ {0} : Dangling(a, key, s)
      BY DanglingEnds
    <2> QED
      BY <2>5, <2>6, <2>7, ExtractCases
  <1> QED
    BY <1>1, <1>2

\* The text of a header.
HeaderLine(h) == Line(h[1], Colon, h[2], "CRLF")

\* A header line says its value for its key.
LEMMA LineSays ==
  ASSUME NEW key \in Token, key # "CRLF", NEW b \in Seq(Token), Without(b, {"CRLF"})
  PROVE  Extract(Line(<<key>>, Colon, b, "CRLF"), key) = {b}
  <1>1. PICK a \in Seq(Token) : a = <<key>> /\ Len(a) = 1 /\ a[1] = key
    <2>1. <<key>> \in Seq(Token) /\ Len(<<key>>) = 1 /\ <<key>>[1] = key
      OBVIOUS
    <2> QED
      BY <2>1
  <1>2. PICK line : line = Line(a, Colon, b, "CRLF")
    OBVIOUS
  <1>3. Laid(line, a, Colon, b, "CRLF")
    BY <1>2, LineShape, HeaderTokens
  <1>4. PICK n \in Nat, l \in Nat : n = Len(b) /\ l = n + 4
    OBVIOUS
  <1>5. Len(a) = 1
    BY <1>1
  <1>6. Len(Colon) = 2
    BY HeaderTokens
  <1>7. line \in Seq(Token) /\ Len(line) = l
    <2>1. line \in Seq(Token) /\ Len(line) = Len(a) + Len(Colon) + Len(b) + 1
      BY ONLY <1>3 DEF Laid
    <2> QED
      BY ONLY <1>4, <1>5, <1>6, <2>1
  <1>8. line[1] = key /\ line[2] = ":" /\ line[3] = " "
    <2>1. 1 \in 1 .. Len(a) /\ 1 \in 1 .. Len(Colon) /\ 2 \in 1 .. Len(Colon)
          /\ Len(a) + 1 = 2 /\ Len(a) + 2 = 3
      BY ONLY <1>5, <1>6
    <2>2. line[1] = a[1] /\ line[2] = Colon[1] /\ line[3] = Colon[2]
      <3>1. line[1] = a[1] /\ line[Len(a) + 1] = Colon[1] /\ line[Len(a) + 2] = Colon[2]
        BY ONLY <1>3, <2>1 DEF Laid
      <3> QED
        BY ONLY <2>1, <3>1
    <2> QED
      BY <1>1, <2>2, HeaderTokens
  <1>9. \A i \in 1 .. n : line[3 + i] = b[i]
    <2>1. Len(a) + Len(Colon) = 3
      BY ONLY <1>5, <1>6
    <2> QED
      BY ONLY <1>3, <1>4, <2>1 DEF Laid
  <1>10. line[l] = "CRLF"
    <2>1. Len(a) + Len(Colon) + Len(b) + 1 = l
      BY ONLY <1>4, <1>5, <1>6
    <2>2. line[Len(a) + Len(Colon) + Len(b) + 1] = "CRLF"
      BY ONLY <1>3 DEF Laid
    <2> QED
      BY ONLY <2>1, <2>2
  <1>11. PICK s \in Nat \ {0} : s = 1
    OBVIOUS
  <1>12. Opens(line, key, s)
    <2>1. s \in 1 .. Len(line) - 2 /\ s + 1 = 2 /\ s + 2 = 3
      BY ONLY <1>4, <1>7, <1>11
    <2> QED
      BY <1>8, <1>11, <2>1 DEF Opens
  <1>13. FirstAt(line, key, s)
    <2>1. 1 .. s - 1 = {}
      BY ONLY <1>11
    <2> QED
      BY <1>12, <2>1 DEF FirstAt
  <1>14. ASSUME NEW i \in s + 3 .. l - 1 PROVE line[i] # "CRLF"
    <2>1. PICK k \in 1 .. n : i = 3 + k
      <3>1. i - 3 \in 1 .. n /\ i = 3 + (i - 3)
        BY ONLY <1>4, <1>11, i \in s + 3 .. l - 1
      <3> QED
        BY <3>1
    <2> QED
      BY <1>4, <1>9, <2>1 DEF Without
  <1>15. Held(line, key, s, l)
    <2>1. l \in s + 3 .. Len(line)
      BY ONLY <1>4, <1>7, <1>11
    <2> QED
      BY <1>10, <1>13, <1>14, <2>1 DEF Held
  <1>16. Extract(line, key) = {Between(line, s + 2, l)}
    BY ONLY <1>7, <1>15, s \in Nat \ {0}, l \in Nat, ExtractHeld
  <1>17. Between(line, s + 2, l) = b
    <2>1. PICK mid \in Seq(Token), end \in Token : mid = Colon /\ end = "CRLF"
      BY HeaderTokens
    <2>2. mid # <<>> /\ mid = Colon
      <3>1. mid = Colon
        BY <2>1
      <3>2. Len(mid) = 2
        BY ONLY <1>6, <3>1
      <3>3. mid # <<>>
        <4>1. SUFFICES ASSUME mid = <<>> PROVE FALSE
          OBVIOUS
        <4>2. Len(<<>>) = 0
          OBVIOUS
        <4>3. Len(mid) = 0
          BY ONLY <4>1, <4>2
        <4> QED
          BY ONLY <3>2, <4>3
      <3> QED
        BY <3>1, <3>3
    <2>3. line = Line(a, mid, b, end)
      BY <1>2, <2>1
    <2>4. Between(line, Len(a) + Len(Colon), Len(line)) = b
      BY ONLY <2>2, <2>3, a \in Seq(Token), b \in Seq(Token), end \in Token, mid \in Seq(Token), LineParts
    <2>5. Len(a) + Len(Colon) = s + 2
      BY ONLY <1>5, <1>6, <1>11
    <2> QED
      BY ONLY <1>7, <2>4, <2>5
  <1> QED
    BY <1>1, <1>2, <1>16, <1>17

\* What the first k header lines say of a key.
Tells(k, t, h, key, x) ==
  /\ t # <<>> => t[Len(t)] = "CRLF"
  /\ Extract(t, key) \subseteq {x}
  /\ Extract(t, key) = {} => \A i \in 1 .. k : Extract(HeaderLine(h[i]), key) = {}

\* All header lines say what one says, if no two disagree.
LEMMA HeaderLinesSay ==
  ASSUME NEW headers, IsFiniteSet(headers), headers \subseteq KeyTexts \X ValueTexts,
         NEW key, key # "CRLF", NEW x,
         \A g \in headers : Extract(HeaderLine(g), key) \subseteq {x}
  PROVE  /\ Extract(HeaderLines(headers), key) \subseteq {x}
         /\ \A g \in headers : Extract(HeaderLine(g), key) # {} =>
              Extract(HeaderLines(headers), key) # {}
  <1>1. PICK h : h = SetToSeq(headers)
    OBVIOUS
  <1>2. h \in Seq(headers) /\ \A g \in headers : \E i \in 1 .. Len(h) : h[i] = g
    BY <1>1, ListedOnce
  <1> DEFINE G == {g \in Nat \X Seq(Token) : Tells(g[1], g[2], h, key, x)}
  <1>3. <<0, <<>>>> \in G
    <2>1. PICK e \in Seq(Token) : e = <<>>
      <3>1. <<>> \in Seq(Token)
        OBVIOUS
      <3> QED
        BY <3>1
    <2>2. <<0, e>> \in Nat \X Seq(Token)
      OBVIOUS
    <2>3. Tells(0, e, h, key, x)
      <3>1. Closed(e, key)
        BY <2>1 DEF Closed
      <3>2. Extract(e, key) = {}
        BY <3>1, ExtractNone
      <3>3. 1 .. 0 = {}
        OBVIOUS
      <3> QED
        BY <2>1, <3>2, <3>3 DEF Tells
    <2> QED
      BY <2>1, <2>2, <2>3
  <1>4. ASSUME NEW k \in 0 .. Len(h) - 1, NEW t \in Seq(Token), <<k, t>> \in G
        PROVE  <<k + 1, t \o Line(h[k + 1][1], Colon, h[k + 1][2], "CRLF")>> \in G
    <2>1. Tells(k, t, h, key, x)
      BY <1>4
    <2>2. k + 1 \in 1 .. Len(h) /\ k + 1 \in Nat /\ k \in Nat
      OBVIOUS
    <2>3. h[k + 1] \in headers
      BY <1>2, <2>2
    <2>4. PICK a \in KeyTexts, b \in ValueTexts : a = h[k + 1][1] /\ b = h[k + 1][2]
      BY <2>3
    <2>5. PICK line : line = Line(a, Colon, b, "CRLF")
      OBVIOUS
    <2>6. line \in Seq(Token) /\ Len(line) = Len(a) + Len(b) + 3 /\ line[Len(line)] = "CRLF"
      BY <2>5, HeaderLineShape DEF KeyTexts, ValueTexts
    <2>7. line \in Seq(Token) /\ line # <<>>
      <3>1. Len(line) # 0
        <4>1. Len(line) = Len(a) + Len(b) + 3
          BY <2>6
        <4>2. Len(a) \in Nat /\ Len(b) \in Nat
          BY DEF KeyTexts, ValueTexts
        <4> QED
          BY ONLY <4>1, <4>2
      <3> QED
        BY <2>6, <3>1
    <2>8. PICK u : u = t \o line
      OBVIOUS
    <2>9. u \in Seq(Token) /\ u[Len(u)] = "CRLF"
      <3>1. PICK m \in Nat, n \in Nat \ {0} : m = Len(t) /\ n = Len(line)
        BY <2>7
      <3>2. u \in Seq(Token) /\ Len(u) = m + n /\ \A i \in 1 .. n : u[m + i] = line[i]
        BY ONLY <2>7, <2>8, <3>1, t \in Seq(Token), ConcatAt
      <3>3. n \in 1 .. n
        BY ONLY n \in Nat \ {0}
      <3>4. u[m + n] = line[n]
        BY ONLY <3>2, <3>3
      <3> QED
        BY <2>6, <3>1, <3>2, <3>4
    <2>10. Extract(u, key) = IF Extract(t, key) # {} THEN Extract(t, key) ELSE Extract(line, key)
      BY <2>1, <2>7, <2>8, ExtractJoined DEF Tells
    <2>11. line = HeaderLine(h[k + 1]) /\ Extract(line, key) \subseteq {x}
      BY <2>3, <2>4, <2>5 DEF HeaderLine
    <2>12. ASSUME Extract(u, key) = {}, NEW i \in 1 .. k + 1
           PROVE  Extract(HeaderLine(h[i]), key) = {}
      <3>1. Extract(t, key) = {} /\ Extract(line, key) = {}
        BY <2>10, <2>12
      <3>2. i \in 1 .. k \/ i = k + 1
        BY ONLY <2>2, i \in 1 .. k + 1
      <3> QED
        BY <2>1, <2>11, <3>1, <3>2 DEF Tells
    <2>13. Extract(u, key) \subseteq {x}
      BY <2>1, <2>10, <2>11 DEF Tells
    <2>14. Tells(k + 1, u, h, key, x)
      BY <2>9, <2>12, <2>13 DEF Tells
    <2>15. u = t \o Line(h[k + 1][1], Colon, h[k + 1][2], "CRLF")
      BY <2>4, <2>5, <2>8
    <2> QED
      BY <2>2, <2>9, <2>14, <2>15
  <1>5. HeaderLines(headers) \in Seq(Token) /\ <<Len(h), HeaderLines(headers)>> \in G
    <2> HIDE DEF G
    <2> QED
      BY <1>1, <1>3, <1>4, HeaderLinesInduction
  <1>6. Tells(Len(h), HeaderLines(headers), h, key, x)
    BY <1>5
  <1>7. ASSUME NEW g \in headers, Extract(HeaderLine(g), key) # {}
        PROVE  Extract(HeaderLines(headers), key) # {}
    <2>1. PICK i \in 1 .. Len(h) : h[i] = g
      BY <1>2
    <2> QED
      BY <1>6, <1>7, <2>1 DEF Tells
  <1> QED
    BY <1>6, <1>7 DEF Tells

\* A text without colons has no headers.
LEMMA Silent ==
  ASSUME NEW t \in Seq(Token), Without(t, {":"}), NEW key
  PROVE  Extract(t, key) = {}
  <1>1. ASSUME NEW i \in 1 .. Len(t), Opens(t, key, i) PROVE FALSE
    <2>1. PICK n \in Nat : n = Len(t)
      OBVIOUS
    <2>2. i \in 1 .. Len(t) - 2 /\ t[i + 1] = ":"
      BY <1>1 DEF Opens
    <2>3. i \in 1 .. n - 2
      BY <2>1, <2>2
    <2>4. i + 1 \in 1 .. n
      BY ONLY <2>3, n \in Nat
    <2> QED
      BY <2>1, <2>2, <2>4 DEF Without
  <1> QED
    BY <1>1, ExtractNone DEF Closed

\* The first line has no colons.
LEMMA FirstSilent ==
  ASSUME NEW m, NEW path, NEW ps, NEW v, FirstFits(m, path, ps, v)
  PROVE  Without(First(m, path, ps, v), {":"})
  <1>1. PICK s \in Seq(Token), z \in Seq(Token) : s = LineStart(m) /\ z = LineFinish(v)
    BY StartIs, FinishIs DEF FirstFits
  <1>2. Without(s, {":"})
    <2>1. Len(s) = 2
      BY <1>1, StartIs DEF FirstFits
    <2>2. s[1] # ":" /\ s[2] # ":"
      BY <1>1, StartIs DEF FirstFits
    <2>3. \A i \in 1 .. Len(s) : i = 1 \/ i = 2
      BY ONLY <2>1
    <2> QED
      BY <2>2, <2>3 DEF Without
  <1>3. Without(z, {":"})
    <2>1. Len(z) = 5
      BY <1>1, FinishIs DEF FirstFits
    <2>2. z[1] # ":" /\ z[2] # ":" /\ z[3] # ":" /\ z[4] # ":" /\ z[5] # ":"
      BY <1>1, FinishIs DEF FirstFits
    <2>3. \A i \in 1 .. Len(z) : i = 1 \/ i = 2 \/ i = 3 \/ i = 4 \/ i = 5
      BY ONLY <2>1
    <2> QED
      BY <2>2, <2>3 DEF Without
  <1>4. path \in Seq(Token) /\ Without(path, {":"})
    BY EscapePairs DEF FirstFits, Without
  <1>5. ps \in Seq(Token) /\ Without(ps, {":"})
    BY DEF FirstFits
  <1>6. Cat(s, path) \in Seq(Token) /\ Without(Cat(s, path), {":"})
    BY <1>2, <1>4, WithoutConcat DEF Cat
  <1>7. Cat(Cat(s, path), ps) \in Seq(Token) /\ Without(Cat(Cat(s, path), ps), {":"})
    BY <1>5, <1>6, WithoutConcat DEF Cat
  <1>8. Without(Cat(Cat(Cat(s, path), ps), z), {":"})
    BY <1>3, <1>7, WithoutConcat DEF Cat
  <1> QED
    BY <1>1, <1>8 DEF First

\* The head of a request: the first line, the headers and the empty line.
RequestHead(m, path, ps, v, hl) == Cat(Cat(First(m, path, ps, v), hl), One("CRLF"))

HeadIs(h, path, ps, hl) ==
  /\ h \in Seq(Token) /\ Len(h) = Len(path) + Len(ps) + 7 + Len(hl) + 1
  /\ h # <<>> /\ h[Len(h)] = "CRLF"

\* The head says what the header lines say.
LEMMA HeadSays ==
  ASSUME NEW m, NEW path, NEW ps, NEW v, FirstFits(m, path, ps, v),
         NEW hl, NEW headers, Headers(hl, headers), NEW key, key # "CRLF",
         NEW h, h = RequestHead(m, path, ps, v, hl)
  PROVE  HeadIs(h, path, ps, hl) /\ Extract(h, key) = Extract(hl, key)
  <1>1. PICK f \in Seq(Token) : f = First(m, path, ps, v)
    BY FirstIs
  <1>2. hl \in Seq(Token) /\ (hl # <<>> => hl[Len(hl)] = "CRLF")
    BY DEF Headers, Clean
  <1>3. PICK e \in Seq(Token) : e = One("CRLF")
    BY HeaderTokens, OneIs
  <1>4. Len(e) = 1
    BY <1>3, HeaderTokens, OneIs
  <1>5. hl \in Seq(Token)
    BY <1>2
  <1>6. PICK x \in Seq(Token) : x = Cat(f, hl)
    BY ONLY <1>5, f \in Seq(Token), CatLength
  <1>7. h = Cat(x, e) /\ h \in Seq(Token)
    <2>1. h = Cat(x, e)
      BY <1>1, <1>3, <1>6 DEF RequestHead
    <2> QED
      BY ONLY <2>1, x \in Seq(Token), e \in Seq(Token), CatLength
  <1>8. Len(x) = Len(f) + Len(hl) /\ Len(h) = Len(x) + 1
    <2>1. Len(x) = Len(f) + Len(hl) /\ Len(h) = Len(x) + Len(e)
      BY ONLY <1>5, <1>6, <1>7, f \in Seq(Token), x \in Seq(Token), e \in Seq(Token), CatLength
    <2> QED
      BY ONLY <1>4, <2>1
  <1>9. Len(f) = Len(path) + Len(ps) + 7
    BY <1>1, FirstIs
  <1>10. f # <<>> /\ f[Len(f)] = "CRLF"
    BY <1>1, FirstIs DEF Clean
  <1>11. Extract(f, key) = {}
    BY <1>1, FirstSilent, Silent
  <1>12. Extract(x, key) = Extract(hl, key)
    BY <1>2, <1>6, <1>10, <1>11, ExtractJoined DEF Cat
  <1>13. x # <<>> /\ x[Len(x)] = "CRLF"
    <2>1. Clean(x)
      <3>1. Clean(f) /\ Clean(hl)
        BY <1>1, FirstIs DEF Headers
      <3> QED
        BY <1>2, <1>6, <3>1, CleanConcat DEF Cat
    <2>2. Len(f) # 0
      BY ONLY <1>10, f \in Seq(Token)
    <2>3. Len(x) # 0
      BY ONLY <1>5, <1>8, <2>2, f \in Seq(Token)
    <2>4. x # <<>>
      BY ONLY <2>3
    <2> QED
      BY <2>1, <2>4 DEF Clean
  <1>14. Extract(e, key) = {}
    <2>1. Without(e, {":"})
      <3>1. "CRLF" \notin {":"} /\ "CRLF" \in Token
        BY HeaderTokens
      <3> QED
        BY ONLY <1>3, <3>1, WithoutOne
    <2> QED
      BY <2>1, Silent
  <1>15. Extract(h, key) = Extract(hl, key)
    <2>1. Extract(h, key) = IF Extract(x, key) # {} THEN Extract(x, key) ELSE Extract(e, key)
      BY <1>7, <1>13, ExtractJoined DEF Cat
    <2> QED
      BY <1>12, <1>14, <2>1
  <1>16. h[Len(h)] = "CRLF"
    <2>1. e[1] = "CRLF"
      BY <1>3, HeaderTokens, OneIs
    <2>2. h[Len(x) + 1] = e[1]
      <3>1. 1 \in 1 .. Len(e)
        BY ONLY <1>4
      <3>2. h = x \o e
        BY ONLY <1>7 DEF Cat
      <3> QED
        BY ONLY <3>1, <3>2, x \in Seq(Token), e \in Seq(Token), ConcatAt
    <2> QED
      BY ONLY <1>8, <2>1, <2>2
  <1>17. Len(h) = Len(path) + Len(ps) + 7 + Len(hl) + 1
    BY ONLY <1>8, <1>9
  <1>18. h # <<>>
    <2>1. Len(h) # 0
      BY ONLY <1>8, x \in Seq(Token)
    <2> QED
      BY ONLY <2>1
  <1> QED
    BY <1>7, <1>15, <1>16, <1>17, <1>18 DEF HeadIs

\* The beginning of two texts that ends in the second one.
LEMMA CutSecond ==
  ASSUME NEW a \in Seq(Token), NEW b \in Seq(Token), NEW k \in 0 .. Len(b)
  PROVE  SubSeq(a \o b, 1, Len(a) + k) = a \o SubSeq(b, 1, k)
  <1>1. PICK n \in Nat, l \in Nat : n = Len(a) /\ l = Len(b) /\ k <= l
    OBVIOUS
  <1>2. PICK w \in Seq(Token) : w = a \o b
    BY ConcatAt
  <1>3. Len(w) = n + l /\ (\A i \in 1 .. n : w[i] = a[i]) /\ (\A i \in 1 .. l : w[n + i] = b[i])
    BY ONLY <1>1, <1>2, a \in Seq(Token), b \in Seq(Token), ConcatAt
  <1>4. PICK r \in 0 .. Len(w) : r = n + k
    <2>1. n + k \in 0 .. Len(w)
      BY ONLY <1>1, <1>3, k \in 0 .. Len(b)
    <2> QED
      BY <2>1
  <1>5. PICK d : d = SubSeq(w, 1, r)
    OBVIOUS
  <1>6. d \in Seq(Token) /\ Len(d) = r /\ \A i \in 1 .. r : d[i] = w[i]
    BY ONLY <1>5, w \in Seq(Token), r \in 0 .. Len(w), CutIs
  <1>7. PICK e : e = SubSeq(b, 1, k)
    OBVIOUS
  <1>8. e \in Seq(Token) /\ Len(e) = k /\ \A i \in 1 .. k : e[i] = b[i]
    BY ONLY <1>7, b \in Seq(Token), k \in 0 .. Len(b), CutIs
  <1>9. PICK u \in Seq(Token) : u = a \o e
    BY <1>8, ConcatAt
  <1>10. Len(u) = n + Len(e) /\ (\A i \in 1 .. n : u[i] = a[i])
         /\ (\A i \in 1 .. Len(e) : u[n + i] = e[i])
    <2>1. e \in Seq(Token)
      BY <1>8
    <2> QED
      BY ONLY <1>1, <1>9, <2>1, a \in Seq(Token), ConcatAt
  <1>11. ASSUME NEW i \in 1 .. r PROVE d[i] = u[i]
    <2>1. CASE i \in 1 .. n
      BY <1>3, <1>6, <1>10, <2>1
    <2>2. CASE i \notin 1 .. n
      <3>1. PICK j \in 1 .. k : i = n + j
        <4>1. i - n \in 1 .. k /\ i = n + (i - n)
          BY ONLY <1>1, <1>4, <2>2, i \in 1 .. r, k \in 0 .. Len(b)
        <4> QED
          BY <4>1
      <3>2. j \in 1 .. l
        BY ONLY <1>1, j \in 1 .. k, k \in 0 .. Len(b)
      <3> QED
        BY <1>3, <1>6, <1>8, <1>10, <3>1, <3>2
    <2> QED
      BY <2>1, <2>2
  <1>12. Len(u) = r
    BY ONLY <1>4, <1>8, <1>10
  <1>13. d = u
    BY ONLY <1>6, <1>11, <1>12, u \in Seq(Token)
  <1> QED
    BY <1>1, <1>2, <1>4, <1>5, <1>7, <1>9, <1>13

\* What has arrived is the head and the beginning of the content.
Arrived(data, h, c, w) ==
  \E d : Begins(d, c) /\ data = h \o d /\ HeaderEnd(data) = HeaderEnd(w)

\* What has arrived when the head has.
LEMMA HeadArrived ==
  ASSUME NEW m, NEW path, NEW ps, NEW v, FirstFits(m, path, ps, v),
         NEW hl, NEW headers, Headers(hl, headers), NEW c \in Seq(Token),
         NEW w, w = WholeText(m, path, ps, v, hl, c),
         NEW n \in 0 .. Len(w), n > HeaderEnd(w), NEW data, data = SubSeq(w, 1, n)
  PROVE  Arrived(data, RequestHead(m, path, ps, v, hl), c, w)
  <1>1. PICK h : h = RequestHead(m, path, ps, v, hl)
    OBVIOUS
  <1>2. h \in Seq(Token) /\ Len(h) = Len(path) + Len(ps) + 7 + Len(hl) + 1
    <2>1. PICK key : key # "CRLF"
      BY HeaderTokens
    <2>2. HeadIs(h, path, ps, hl)
      BY <1>1, <2>1, HeadSays
    <2> QED
      BY ONLY <2>2 DEF HeadIs
  <1>3. w = h \o c
    BY <1>1 DEF WholeText, RequestHead, Cat
  <1>4. path \in Seq(Token) /\ ps \in Seq(Token) /\ hl \in Seq(Token)
    BY DEF FirstFits, Headers
  <1>5. PICK x \in Nat, l \in Nat : x = Len(path) + Len(ps) + 7 + Len(hl) /\ l = Len(c)
    BY ONLY <1>4, c \in Seq(Token)
  <1>6. HeaderEnd(w) = x /\ Len(w) = x + 1 + l
    <2>1. WholePlaced(w, m, path, ps, v, hl, c)
      BY WholeIs
    <2> QED
      BY <1>5, <2>1 DEF WholePlaced
  <1>7. PICK k \in 0 .. Len(c) : n = Len(h) + k
    <2>1. n - Len(h) \in 0 .. Len(c) /\ n = Len(h) + (n - Len(h))
      BY ONLY <1>2, <1>5, <1>6, n \in 0 .. Len(w), n > HeaderEnd(w)
    <2> QED
      BY <2>1
  <1>8. PICK d : d = SubSeq(c, 1, k)
    OBVIOUS
  <1>9. data = h \o d
    BY ONLY <1>2, <1>3, <1>7, <1>8, c \in Seq(Token), data = SubSeq(w, 1, n), CutSecond
  <1>10. Begins(d, c)
    <2>1. d \in Seq(Token) /\ Len(d) = k /\ \A i \in 1 .. k : d[i] = c[i]
      BY ONLY <1>8, c \in Seq(Token), k \in 0 .. Len(c), CutIs
    <2>2. Len(d) <= Len(c)
      BY ONLY <2>1, c \in Seq(Token), k \in 0 .. Len(c)
    <2> QED
      BY <2>1, <2>2 DEF Begins
  <1>11. HeaderEnd(data) = x
    <2>1. WholePlaced(WholeText(m, path, ps, v, hl, d), m, path, ps, v, hl, d)
      BY <1>10, WholeIs DEF Begins
    <2>2. data = WholeText(m, path, ps, v, hl, d)
      BY <1>1, <1>9 DEF WholeText, RequestHead, Cat
    <2> QED
      BY <1>5, <2>1, <2>2 DEF WholePlaced
  <1> QED
    BY <1>1, <1>6, <1>9, <1>10, <1>11 DEF Arrived

\* The one length that is announced.
Length == <<Numeral[Len(request.content)]>>

\* The length is announced, and nothing else, when the head of a POST has arrived.
LEMMA LengthAnnounced ==
  ASSUME ExchangeAssumption, WellTyped(request), request.method = "POST", WellFormed, ~ Misleading,
         sent \in Sendings(request),
         NEW n \in 0 .. Len(sent), n > HeaderEnd(sent), NEW data, data = SubSeq(sent, 1, n)
  PROVE  Announced(data) = {Length} /\ HeaderEnd(data) = HeaderEnd(sent)
  <1>1. PICK ps, hl, b : ps = Parameters(request.params) /\ hl = HeaderLines(request.headers)
                         /\ b = request.content
    OBVIOUS
  <1>2. PICK c \in Seq(Token) : SentAs(sent, request, c)
    BY SendingIs DEF ExchangeAssumption
  <1>3. RequestPlaced(request, c) /\ sent = RequestText(request, c) /\ Begins(c, b)
    BY <1>1, <1>2, RequestIs DEF SentAs
  <1>4. PICK m, path, v : m = request.method /\ path = request.path /\ v = request.version
    OBVIOUS
  <1>5. Sent(request) = request.headers
    BY DEF Sent
  <1>6. FirstFits(m, path, ps, v) /\ Headers(hl, request.headers) /\ b \in Seq(Token)
    BY <1>1, <1>4, <1>5, <1>3 DEF RequestPlaced, Begins
  <1>7. sent = WholeText(m, path, ps, v, hl, c)
    BY <1>1, <1>4, <1>5, <1>3 DEF RequestPlaced
  <1>8. PICK h : h = RequestHead(m, path, ps, v, hl)
    OBVIOUS
  <1>9. PICK d : Begins(d, c) /\ data = h \o d /\ HeaderEnd(data) = HeaderEnd(sent)
    <2>1. Arrived(data, h, c, sent)
      BY <1>6, <1>7, <1>8, HeadArrived
    <2> QED
      BY <2>1 DEF Arrived
  <1>10. ASSUME NEW key, key # "CRLF"
        PROVE  Extract(data, key) = IF Extract(hl, key) # {} THEN Extract(hl, key) ELSE Extract(d, key)
    <2>1. h \in Seq(Token) /\ h # <<>> /\ h[Len(h)] = "CRLF" /\ Extract(h, key) = Extract(hl, key)
      <3>1. HeadIs(h, path, ps, hl) /\ Extract(h, key) = Extract(hl, key)
        BY <1>6, <1>8, <1>10, HeadSays
      <3> QED
        BY <3>1 DEF HeadIs
    <2>2. d \in Seq(Token)
      BY <1>9 DEF Begins
    <2>3. Extract(h \o d, key) = IF Extract(h, key) # {} THEN Extract(h, key) ELSE Extract(d, key)
      BY <1>10, <2>1, <2>2, ExtractJoined
    <2> QED
      BY <1>9, <2>1, <2>3
  <1>11. PICK S : S = request.headers
    OBVIOUS
  <1>12. IsFiniteSet(S) /\ S \subseteq KeyTexts \X ValueTexts
    <2>1. S \subseteq Seq(Printable \ {":", "CRLF"}) \X Seq(Printable \ {"CRLF"}) /\ IsFiniteSet(S)
      BY <1>11 DEF WellTyped, Printable
    <2> QED
      BY ONLY <2>1, Texts
  <1>13. \A key \in Spellings, g \in S : Extract(HeaderLine(g), key) \subseteq {Length}
    BY <1>11 DEF WellFormed, Header, HeaderLine, Line, Colon, Length
  <1>14. \A key \in Spellings : key # "CRLF" /\ key \in Token
    BY DEF Spellings, Token
  <1>15. ASSUME NEW key \in Spellings
         PROVE  /\ Extract(hl, key) \subseteq {Length}
                /\ \A g \in S : Extract(HeaderLine(g), key) # {} => Extract(hl, key) # {}
    BY <1>1, <1>11, <1>12, <1>13, <1>14, HeaderLinesSay
  <1>16. Length \in Seq(Token) /\ Without(Length, {"CRLF"})
    <2>1. Len(b) \in 0 .. MaxLength
      <3>1. Len(b) <= MaxLength
        BY <1>1 DEF WellTyped
      <3>2. MaxLength \in Nat
        BY NumeralAssumption DEF NumeralAssumption
      <3> QED
        BY ONLY <1>6, <3>1, <3>2
    <2>2. PICK x : x = Numeral[Len(b)]
      OBVIOUS
    <2>3. x \in STRING \ Separators
      BY <2>1, <2>2, NumeralAssumption DEF NumeralAssumption
    <2>4. x \in Token /\ x # "CRLF"
      BY <2>3, EscapePairs DEF Token
    <2>5. Length = One(x)
      BY <1>1, <2>2 DEF Length, One
    <2>6. One(x) \in Seq(Token) /\ Without(One(x), {"CRLF"})
      BY <2>4, OneIs, WithoutOne
    <2> QED
      BY <2>5, <2>6
  <1>17. ASSUME NEW key \in Spellings, NEW g \in S, g[1] = <<key>> PROVE Extract(hl, key) = {Length}
    <2>1. g[2] \in Seq(Token) /\ Without(g[2], {"CRLF"})
      BY <1>12 DEF ValueTexts
    <2>2. HeaderLine(g) = Line(<<key>>, Colon, g[2], "CRLF")
      BY <1>17 DEF HeaderLine
    <2>3. Extract(HeaderLine(g), key) = {g[2]}
      BY <1>14, <2>1, <2>2, LineSays
    <2> QED
      BY <1>15, <2>3
  <1>18. PICK key0 \in Spellings : <<<<key0>>, Length>> \in S
    BY <1>11 DEF WellFormed, Length
  <1>19. Extract(hl, key0) = {Length}
    <2>1. PICK g \in S : g = <<<<key0>>, Length>>
      BY <1>18
    <2>2. g[1] = <<key0>>
      BY <2>1
    <2> QED
      BY <1>17, <2>2
  <1>20. "Content-length" \in Spellings /\ "Content-Length" \in Spellings
    BY DEF Spellings
  <1>21. CASE Extract(hl, "Content-length") # {}
    <2>1. Extract(data, "Content-length") = {Length}
      BY <1>10, <1>15, <1>20, <1>21
    <2> QED
      BY <1>9, <2>1 DEF Announced
  <1>22. CASE Extract(hl, "Content-length") = {}
    <2>1. key0 = "Content-Length"
      BY <1>19, <1>22 DEF Spellings
    <2>2. Extract(data, "Content-Length") = {Length}
      BY <1>10, <1>19, <2>1
    <2>3. Extract(d, "Content-length") = {}
      <3>1. SUFFICES ASSUME Extract(d, "Content-length") # {} PROVE FALSE
        OBVIOUS
      <3>2. Extract(b, "Content-length") # {}
        <4>1. Extract(c, "Content-length") # {}
          BY <1>9, <3>1, ExtractKept
        <4> QED
          BY <1>3, <4>1, ExtractKept
      <3>3. PICK g \in S : g[1] = <<"Content-length">>
        BY <1>1, <1>11, <3>2 DEF Misleading
      <3> QED
        BY <1>17, <1>20, <1>22, <3>3
    <2>4. Extract(data, "Content-length") = {}
      BY <1>10, <1>22, <2>3
    <2> QED
      BY <1>9, <2>2, <2>4 DEF Announced
  <1> QED
    BY <1>21, <1>22

-----------------------------------------------------------------------------
(* Responses. *)

\* The status line.
StatusLine == <<"HTTP", "/", "1.1", " ", "200", " ", "OK", "CRLF">>

\* The tokens of the status line.
LEMMA StatusIs ==
  /\ StatusLine \in Seq(Token) /\ Len(StatusLine) = 8
  /\ StatusLine[1] = "HTTP" /\ StatusLine[2] = "/" /\ StatusLine[3] = "1.1" /\ StatusLine[4] = " "
  /\ StatusLine[5] = "200" /\ StatusLine[6] = " " /\ StatusLine[7] = "OK" /\ StatusLine[8] = "CRLF"
  <1>1. PICK a \in Token, b \in Token, c \in Token, d \in Token, e \in Token, f \in Token,
             g \in Token :
          /\ a = "HTTP" /\ b = "/" /\ c = "1.1" /\ d = " " /\ e = "200" /\ f = "OK" /\ g = "CRLF"
    BY LineTokens DEF Token
  <1>2. PICK s : s = <<a, b, c, d, e, d, f, g>>
    OBVIOUS
  <1>3. /\ s \in Seq(Token) /\ Len(s) = 8 /\ s[1] = a /\ s[2] = b /\ s[3] = c /\ s[4] = d
        /\ s[5] = e /\ s[6] = d /\ s[7] = f /\ s[8] = g
    BY <1>2
  <1>4. StatusLine = s
    BY <1>1, <1>2 DEF StatusLine
  <1> QED
    BY <1>1, <1>3, <1>4

\* A text that begins with the status line.
Answered(w) == w \in Seq(Token) /\ Placed(w, 0, StatusLine)

\* Where parse finds the parts of a status line.
StatusFound(w) ==
  /\ w[1] = "HTTP" /\ w[3] = "1.1" /\ w[5] = "200"
  /\ Find(w, "CRLF", 1) = 8 /\ Find(w, "/", 1) = 2 /\ Find(w, " ", 1) = 4 /\ Find(w, " ", 5) = 6
  /\ 8 <= Len(w)

\* parse finds the parts of the status line.
LEMMA StatusRead ==
  ASSUME NEW w, Answered(w)
  PROVE  StatusFound(w)
  <1>1. w \in Seq(Token)
    BY DEF Answered
  <1>2. Len(StatusLine) = 8
    BY StatusIs
  <1>3. 8 <= Len(w) /\ \A i \in 1 .. 8 : w[0 + i] = StatusLine[i]
    BY ONLY <1>1, <1>2, Answered(w) DEF Answered, Placed
  <1>4. 8 <= Len(w)
    BY <1>3
  <1>5. \A i \in 1 .. 8 : w[i] = StatusLine[i]
    <2>1. \A i \in 1 .. 8 : 0 + i = i
      OBVIOUS
    <2> QED
      BY ONLY <1>3, <2>1
  <1>6. /\ 1 \in 1 .. 8 /\ 2 \in 1 .. 8 /\ 3 \in 1 .. 8 /\ 4 \in 1 .. 8
        /\ 5 \in 1 .. 8 /\ 6 \in 1 .. 8 /\ 7 \in 1 .. 8 /\ 8 \in 1 .. 8
    OBVIOUS
  <1>7. /\ w[1] = StatusLine[1] /\ w[2] = StatusLine[2] /\ w[3] = StatusLine[3] /\ w[4] = StatusLine[4]
        /\ w[5] = StatusLine[5] /\ w[6] = StatusLine[6] /\ w[7] = StatusLine[7] /\ w[8] = StatusLine[8]
    BY ONLY <1>5, <1>6
  <1>8. /\ w[1] = "HTTP" /\ w[2] = "/" /\ w[3] = "1.1" /\ w[4] = " "
        /\ w[5] = "200" /\ w[6] = " " /\ w[7] = "OK" /\ w[8] = "CRLF"
    BY ONLY <1>7, StatusIs
  <1>9. ASSUME NEW x \in Token, NEW a \in 1 .. 8, NEW r \in 1 .. 8, a <= r, w[r] = x,
               \A i \in a .. r - 1 : w[i] # x
        PROVE  Find(w, x, a) = r
    <2>1. a \in Nat \ {0} /\ r \in Nat /\ r <= Len(w)
      BY ONLY <1>1, <1>4, a \in 1 .. 8, r \in 1 .. 8
    <2> QED
      BY ONLY <1>1, <1>9, <2>1, x \in Token, FindIs
  <1>10. Find(w, "CRLF", 1) = 8
    <2>1. \A i \in 1 .. 8 - 1 : i = 1 \/ i = 2 \/ i = 3 \/ i = 4 \/ i = 5 \/ i = 6 \/ i = 7
      OBVIOUS
    <2>2. \A i \in 1 .. 8 - 1 : w[i] # "CRLF"
      BY ONLY <1>8, <2>1
    <2>3. 1 <= 8
      OBVIOUS
    <2> QED
      BY <1>6, <1>8, <1>9, <2>2, <2>3, LineTokens
  <1>11. Find(w, "/", 1) = 2
    <2>1. \A i \in 1 .. 2 - 1 : i = 1
      OBVIOUS
    <2>2. \A i \in 1 .. 2 - 1 : w[i] # "/"
      BY ONLY <1>8, <2>1
    <2>3. 1 <= 2
      OBVIOUS
    <2> QED
      BY <1>6, <1>8, <1>9, <2>2, <2>3, LineTokens
  <1>12. Find(w, " ", 1) = 4
    <2>1. \A i \in 1 .. 4 - 1 : i = 1 \/ i = 2 \/ i = 3
      OBVIOUS
    <2>2. \A i \in 1 .. 4 - 1 : w[i] # " "
      BY ONLY <1>8, <2>1
    <2>3. 1 <= 4
      OBVIOUS
    <2> QED
      BY <1>6, <1>8, <1>9, <2>2, <2>3, LineTokens
  <1>13. Find(w, " ", 5) = 6
    <2>1. \A i \in 5 .. 6 - 1 : i = 5
      OBVIOUS
    <2>2. \A i \in 5 .. 6 - 1 : w[i] # " "
      BY ONLY <1>8, <2>1
    <2>3. PICK a \in 1 .. 8, r \in 1 .. 8 : a = 5 /\ r = 6
      OBVIOUS
    <2>4. a <= r
      BY ONLY <2>3
    <2>5. w[r] = " " /\ \A i \in a .. r - 1 : w[i] # " "
      BY ONLY <1>8, <2>2, <2>3
    <2> QED
      BY <1>9, <2>3, <2>4, <2>5, LineTokens
  <1> QED
    BY <1>4, <1>8, <1>10, <1>11, <1>12, <1>13 DEF StatusFound

\* A response with its headers and its content.
Reply(hl, c) == Cat(Cat(Cat(StatusLine, hl), One("CRLF")), c)

\* Where the parts of a response stand.
ReplyPlaced(w, hl, c) ==
  /\ Answered(w) /\ HeaderEnd(w) = 8 + Len(hl)
  /\ SubSeq(w, 9, 8 + Len(hl) + 1) = Cat(hl, One("CRLF"))
  /\ SubSeq(w, 8 + Len(hl) + 2, Len(w)) = c

\* The status line holds no other line end than its own.
LEMMA StatusClean ==
  Clean(StatusLine)
  <1>1. Len(StatusLine) = 8 /\ StatusLine \in Seq(Token)
    BY StatusIs
  <1>2. ASSUME NEW i \in 1 .. Len(StatusLine) - 1 PROVE StatusLine[i] # "CRLF"
    <2>1. i = 1 \/ i = 2 \/ i = 3 \/ i = 4 \/ i = 5 \/ i = 6 \/ i = 7
      BY ONLY <1>1, i \in 1 .. Len(StatusLine) - 1
    <2> QED
      BY <2>1, StatusIs
  <1>3. StatusLine[Len(StatusLine)] = "CRLF"
    BY <1>1, StatusIs
  <1>4. Len(StatusLine) > 1
    BY <1>1
  <1> QED
    BY <1>1, <1>2, <1>3, <1>4, CleanLine

\* The parts of a response stand where it was put together.
LEMMA ReplyIs ==
  ASSUME NEW hl, NEW headers, Headers(hl, headers), NEW c \in Seq(Token), NEW w, w = Reply(hl, c)
  PROVE  ReplyPlaced(w, hl, c)
  <1>1. PICK f \in Seq(Token) : f = StatusLine
    BY StatusIs
  <1>2. Len(f) = 8
    BY <1>1, StatusIs
  <1>3. hl \in Seq(Token)
    BY DEF Headers
  <1>4. PICK n \in Nat : n = Len(hl)
    BY <1>3
  <1>5. PICK e \in Seq(Token) : e = One("CRLF")
    BY HeaderTokens, OneIs
  <1>6. Len(e) = 1
    BY <1>5, HeaderTokens, OneIs
  <1>7. PICK x \in Seq(Token) : x = Cat(f, hl)
    BY ONLY <1>3, f \in Seq(Token), CatLength
  <1>8. PICK y \in Seq(Token) : y = Cat(x, e)
    BY ONLY x \in Seq(Token), e \in Seq(Token), CatLength
  <1>9. PICK t \in Seq(Token) : t = Cat(hl, e)
    BY ONLY <1>3, e \in Seq(Token), CatLength
  <1>10. y = Cat(f, t)
    BY ONLY <1>3, <1>7, <1>8, <1>9, f \in Seq(Token), e \in Seq(Token), CatAssociative
  <1>11. w = Cat(y, c)
    BY <1>1, <1>5, <1>7, <1>8 DEF Reply
  <1>12. /\ Len(x) = Len(f) + Len(hl) /\ Len(y) = Len(x) + Len(e) /\ Len(t) = Len(hl) + Len(e)
         /\ Len(w) = Len(y) + Len(c) /\ w \in Seq(Token)
    BY ONLY <1>3, <1>7, <1>8, <1>9, <1>11, f \in Seq(Token), e \in Seq(Token), x \in Seq(Token),
       y \in Seq(Token), t \in Seq(Token), c \in Seq(Token), CatLength
  <1>13. Len(x) = 8 + n /\ Len(y) = 8 + n + 1 /\ Len(t) = n + 1 /\ Len(w) = 8 + n + 1 + Len(c)
    BY ONLY <1>2, <1>4, <1>6, <1>12
  <1>14. Placed(w, 0, f) /\ Placed(w, 8, t) /\ Placed(w, 8 + n + 1, c)
    <2>1. Placed(y, 0, f) /\ Placed(y, Len(f), t)
      BY ONLY <1>10, f \in Seq(Token), t \in Seq(Token), CatPlaced, PlacedAll
    <2>2. Placed(w, 0, f) /\ Placed(w, Len(f), t) /\ Placed(w, Len(y), c)
      BY ONLY <1>11, <2>1, y \in Seq(Token), c \in Seq(Token), CatPlaced
    <2> QED
      BY ONLY <1>2, <1>13, <2>2
  <1>15. HeaderEnd(w) = 8 + n
    <2>1. Clean(x)
      <3>1. Clean(f) /\ Clean(hl)
        BY <1>1, StatusClean DEF Headers
      <3> QED
        BY <1>3, <1>7, <3>1, CleanConcat DEF Cat
    <2>2. x # <<>>
      <3>1. Len(x) # 0
        BY ONLY <1>13, n \in Nat
      <3> QED
        BY ONLY <3>1
    <2>3. HeaderEnd((x \o One("CRLF")) \o c) = Len(x)
      BY <2>1, <2>2, HeadEnds
    <2>4. w = (x \o One("CRLF")) \o c
      BY <1>5, <1>8, <1>11 DEF Cat
    <2> QED
      BY ONLY <1>13, <2>3, <2>4
  <1>16. SubSeq(w, 9, 8 + n + 1) = t
    <2>1. SubSeq(w, 8 + 1, 8 + Len(t)) = t
      BY <1>14, PlacedCut
    <2>2. 8 + 1 = 9 /\ 8 + Len(t) = 8 + n + 1
      BY ONLY <1>13, n \in Nat
    <2> QED
      BY ONLY <2>1, <2>2
  <1>17. SubSeq(w, 8 + n + 2, Len(w)) = c
    <2>1. SubSeq(w, 8 + n + 1 + 1, 8 + n + 1 + Len(c)) = c
      BY <1>14, PlacedCut
    <2>2. 8 + n + 1 + 1 = 8 + n + 2 /\ 8 + n + 1 + Len(c) = Len(w)
      BY ONLY <1>13, n \in Nat
    <2> QED
      BY ONLY <2>1, <2>2
  <1>18. Answered(w)
    BY <1>1, <1>12, <1>14 DEF Answered
  <1> QED
    BY <1>4, <1>5, <1>9, <1>15, <1>16, <1>17, <1>18 DEF ReplyPlaced

\* The header lines of an answer, as they are packed.
LengthLine(x) == Line(<<"Content-Length">>, Colon, <<x>>, "CRLF")
CloseLine == Line(<<"Connection">>, Colon, <<"Close">>, "CRLF")
GzipLine == Line(<<"Content-Encoding">>, Colon, <<"gzip", ",", " ", "deflate">>, "CRLF")

\* The headers of an answer.
LengthHeader(x) == <<<<"Content-Length">>, <<x>>>>
CloseHeader == <<<<"Connection">>, <<"Close">>>>
GzipHeader == <<<<"Content-Encoding">>, <<"gzip", ",", " ", "deflate">>>>

\* The headers of an answer are ones that can be read back.
LEMMA ReplyHeaderTypes ==
  ASSUME NEW x \in Token, x # "CRLF"
  PROVE  /\ LengthHeader(x) \in KeyTexts \X ValueTexts
         /\ CloseHeader \in KeyTexts \X ValueTexts
         /\ GzipHeader \in KeyTexts \X ValueTexts
  <1>1. ASSUME NEW y \in Token, y # "CRLF" PROVE One(y) \in ValueTexts
    <2>1. y \notin {"CRLF"}
      BY <1>1
    <2>2. One(y) \in Seq(Token)
      BY OneIs
    <2>3. Without(One(y), {"CRLF"})
      BY <2>1, WithoutOne
    <2> QED
      BY <2>2, <2>3 DEF ValueTexts
  <1>2. ASSUME NEW y \in Token, y # "CRLF", y # ":" PROVE One(y) \in KeyTexts
    <2>1. y \notin {":", "CRLF"}
      BY <1>2
    <2>2. One(y) \in Seq(Token)
      BY OneIs
    <2>3. Without(One(y), {":", "CRLF"})
      BY <2>1, WithoutOne
    <2> QED
      BY <2>2, <2>3 DEF KeyTexts
  <1>3. "Content-Length" \in Token /\ "Connection" \in Token /\ "Close" \in Token
        /\ "Content-Encoding" \in Token
    BY DEF Token
  <1>4. One("Content-Length") \in KeyTexts /\ One("Connection") \in KeyTexts
        /\ One("Content-Encoding") \in KeyTexts /\ One("Close") \in ValueTexts /\ One(x) \in ValueTexts
    BY <1>1, <1>2, <1>3
  <1>5. <<"gzip", ",", " ", "deflate">> \in ValueTexts
    <2>1. PICK a \in Token, b \in Token, c \in Token, d \in Token :
            a = "gzip" /\ b = "," /\ c = " " /\ d = "deflate"
      BY LineTokens DEF Token
    <2>2. PICK s : s = <<a, b, c, d>>
      OBVIOUS
    <2>3. s \in Seq(Token) /\ Len(s) = 4 /\ s[1] = a /\ s[2] = b /\ s[3] = c /\ s[4] = d
      BY <2>2
    <2>4. Len(s) = 4
      BY <2>3
    <2>5. \A i \in 1 .. Len(s) : i = 1 \/ i = 2 \/ i = 3 \/ i = 4
      BY ONLY <2>4
    <2>6. Without(s, {"CRLF"})
      BY <2>1, <2>3, <2>5 DEF Without
    <2> QED
      BY <2>1, <2>2, <2>3, <2>6 DEF ValueTexts
  <1> QED
    BY <1>4, <1>5 DEF LengthHeader, CloseHeader, GzipHeader, One

\* A line more is a header more.
LEMMA HeadersMore ==
  ASSUME NEW h \in Seq(KeyTexts \X ValueTexts), NEW k \in 0 .. Len(h) - 1, NEW t \in Seq(Token),
         Headed(k, t, h), NEW g, g = h[k + 1]
  PROVE  /\ t \o HeaderLine(g) \in Seq(Token) /\ Headed(k + 1, t \o HeaderLine(g), h)
  <1>1. Headed(k + 1, t \o Line(h[k + 1][1], Colon, h[k + 1][2], "CRLF"), h)
    BY HeadedAppend
  <1>2. k + 1 \in 1 .. Len(h)
    OBVIOUS
  <1>3. g \in KeyTexts \X ValueTexts
    BY <1>2
  <1>4. PICK a \in KeyTexts, b \in ValueTexts : a = g[1] /\ b = g[2]
    BY <1>3
  <1>5. PICK l \in Seq(Token) : l = Line(a, Colon, b, "CRLF")
    BY LineShape, HeaderTokens DEF Laid, KeyTexts, ValueTexts
  <1>6. t \o l \in Seq(Token)
    BY ONLY t \in Seq(Token), l \in Seq(Token), ConcatAt
  <1> QED
    BY <1>1, <1>4, <1>5, <1>6 DEF HeaderLine

\* The line of the first header is read as that header.
LEMMA HeadersBegin ==
  ASSUME NEW h \in Seq(KeyTexts \X ValueTexts), Len(h) # 0, NEW g, g = h[1]
  PROVE  HeaderLine(g) \in Seq(Token) /\ Headed(1, HeaderLine(g), h)
  <1>1. PICK t \in Seq(Token), k \in 0 .. Len(h) - 1 : t = <<>> /\ k = 0
    <2>1. <<>> \in Seq(Token) /\ 0 \in 0 .. Len(h) - 1
      OBVIOUS
    <2> QED
      BY <2>1
  <1>2. Headed(k, t, h)
    BY <1>1, NoHeaders
  <1>3. k + 1 = 1
    BY <1>1
  <1>4. t \o HeaderLine(g) \in Seq(Token) /\ Headed(1, t \o HeaderLine(g), h)
    BY <1>2, <1>3, HeadersMore
  <1>5. HeaderLine(g) \in Seq(Token)
    <2>1. 1 \in 1 .. Len(h)
      OBVIOUS
    <2>2. PICK a \in KeyTexts, b \in ValueTexts : a = g[1] /\ b = g[2]
      BY <2>1
    <2> QED
      BY <2>2, LineShape, HeaderTokens DEF Laid, KeyTexts, ValueTexts, HeaderLine
  <1>6. t \o HeaderLine(g) = HeaderLine(g)
    BY <1>1, <1>5
  <1> QED
    BY <1>4, <1>5, <1>6

\* The headers of an answer that is not zipped.
LEMMA PlainHeaders ==
  ASSUME NEW x \in Token, x # "CRLF"
  PROVE  Headers(Cat(LengthLine(x), CloseLine), {LengthHeader(x), CloseHeader})
  <1>1. PICK a \in KeyTexts \X ValueTexts, b \in KeyTexts \X ValueTexts :
          a = LengthHeader(x) /\ b = CloseHeader
    BY ReplyHeaderTypes
  <1>2. PICK h : h = <<a, b>>
    OBVIOUS
  <1>3. h \in Seq(KeyTexts \X ValueTexts) /\ Len(h) = 2 /\ h[1] = a /\ h[2] = b
    BY <1>2
  <1>4. HeaderLine(a) \in Seq(Token) /\ Headed(1, HeaderLine(a), h)
    BY <1>3, HeadersBegin
  <1>5. PICK k \in 0 .. Len(h) - 1 : k = 1 /\ k + 1 = 2
    BY <1>3
  <1>6. PICK t : t = HeaderLine(a) \o HeaderLine(b)
    OBVIOUS
  <1>7. t \in Seq(Token) /\ Headed(2, t, h)
    BY <1>3, <1>4, <1>5, <1>6, HeadersMore
  <1>8. {h[i] : i \in 1 .. 2} = {a, b}
    <2>1. \A i \in 1 .. 2 : i = 1 \/ i = 2
      OBVIOUS
    <2>2. 1 \in 1 .. 2 /\ 2 \in 1 .. 2
      OBVIOUS
    <2> QED
      BY <1>3, <2>1, <2>2
  <1>9. HeaderLine(a) = LengthLine(x) /\ HeaderLine(b) = CloseLine
    BY <1>1 DEF HeaderLine, LengthHeader, CloseHeader, LengthLine, CloseLine
  <1> QED
    BY <1>1, <1>6, <1>7, <1>8, <1>9 DEF Headers, Headed, Cat

\* The headers of a zipped answer.
LEMMA GzipHeaders ==
  ASSUME NEW x \in Token, x # "CRLF"
  PROVE  Headers(Cat(Cat(GzipLine, LengthLine(x)), CloseLine),
                 {GzipHeader, LengthHeader(x), CloseHeader})
  <1>1. PICK a \in KeyTexts \X ValueTexts, b \in KeyTexts \X ValueTexts, c \in KeyTexts \X ValueTexts :
          a = GzipHeader /\ b = LengthHeader(x) /\ c = CloseHeader
    BY ReplyHeaderTypes
  <1>2. PICK h : h = <<a, b, c>>
    OBVIOUS
  <1>3. h \in Seq(KeyTexts \X ValueTexts) /\ Len(h) = 3 /\ h[1] = a /\ h[2] = b /\ h[3] = c
    BY <1>2
  <1>4. HeaderLine(a) \in Seq(Token) /\ Headed(1, HeaderLine(a), h)
    BY <1>3, HeadersBegin
  <1>5. PICK k \in 0 .. Len(h) - 1 : k = 1 /\ k + 1 = 2
    BY <1>3
  <1>6. PICK t : t = HeaderLine(a) \o HeaderLine(b)
    OBVIOUS
  <1>7. t \in Seq(Token) /\ Headed(2, t, h)
    BY <1>3, <1>4, <1>5, <1>6, HeadersMore
  <1>8. PICK l \in 0 .. Len(h) - 1 : l = 2 /\ l + 1 = 3
    BY <1>3
  <1>9. PICK u : u = t \o HeaderLine(c)
    OBVIOUS
  <1>10. u \in Seq(Token) /\ Headed(3, u, h)
    BY <1>3, <1>7, <1>8, <1>9, HeadersMore
  <1>11. {h[i] : i \in 1 .. 3} = {a, b, c}
    <2>1. \A i \in 1 .. 3 : i = 1 \/ i = 2 \/ i = 3
      OBVIOUS
    <2>2. 1 \in 1 .. 3 /\ 2 \in 1 .. 3 /\ 3 \in 1 .. 3
      OBVIOUS
    <2> QED
      BY <1>3, <2>1, <2>2
  <1>12. HeaderLine(a) = GzipLine /\ HeaderLine(b) = LengthLine(x) /\ HeaderLine(c) = CloseLine
    BY <1>1 DEF HeaderLine, LengthHeader, CloseHeader, GzipHeader, LengthLine, CloseLine, GzipLine
  <1> QED
    BY <1>1, <1>6, <1>9, <1>10, <1>11, <1>12 DEF Headers, Headed, Cat

\* A length is read as it was announced.
LEMMA NumberRead ==
  ASSUME NEW n \in 0 .. MaxLength
  PROVE  /\ Numeral[n] \in Token /\ Numeral[n] # "CRLF" /\ Numeral[n] \in Digits
         /\ Number(Numeral[n]) = n
  <1>1. PICK x : x = Numeral[n]
    OBVIOUS
  <1>2. x \in STRING \ Separators
    BY <1>1, NumeralAssumption DEF NumeralAssumption
  <1>3. x \in Token /\ x # "CRLF"
    BY <1>2, EscapePairs DEF Token
  <1>4. \A m \in 0 .. MaxLength : Numeral[m] = x => m = n
    BY <1>1, NumeralAssumption DEF NumeralAssumption
  <1>5. Number(x) = n
    BY <1>1, <1>4 DEF Number
  <1> QED
    BY <1>1, <1>3, <1>5 DEF Digits

\* Head200 is made of the status line, the headers and the empty line.
LEMMA HeadIsReply ==
  ASSUME NEW n \in 0 .. MaxLength, NEW c \in Seq(Token), NEW x, x = Numeral[n]
  PROVE  /\ Head200(n, <<>>) \o c = Reply(Cat(LengthLine(x), CloseLine), c)
         /\ Head200(n, Gzip) \o c = Reply(Cat(Cat(GzipLine, LengthLine(x)), CloseLine), c)
  <1>1. x \in Token /\ x # "CRLF"
    BY NumberRead
  <1>2. PICK s \in Seq(Token) : s = StatusLine
    BY StatusIs
  <1>3. PICK l \in Seq(Token), z \in Seq(Token), y \in Seq(Token) :
          l = LengthLine(x) /\ z = CloseLine /\ y = GzipLine
    <2>1. \A h \in KeyTexts \X ValueTexts : HeaderLine(h) \in Seq(Token)
      <3> SUFFICES ASSUME NEW h \in KeyTexts \X ValueTexts PROVE HeaderLine(h) \in Seq(Token)
        OBVIOUS
      <3>1. PICK a \in KeyTexts, b \in ValueTexts : a = h[1] /\ b = h[2]
        OBVIOUS
      <3> QED
        BY <3>1, LineShape, HeaderTokens DEF Laid, KeyTexts, ValueTexts, HeaderLine
    <2>2. LengthLine(x) \in Seq(Token) /\ CloseLine \in Seq(Token) /\ GzipLine \in Seq(Token)
      <3>1. /\ HeaderLine(LengthHeader(x)) \in Seq(Token) /\ HeaderLine(CloseHeader) \in Seq(Token)
            /\ HeaderLine(GzipHeader) \in Seq(Token)
        BY <1>1, <2>1, ReplyHeaderTypes
      <3>2. /\ HeaderLine(LengthHeader(x)) = LengthLine(x) /\ HeaderLine(CloseHeader) = CloseLine
            /\ HeaderLine(GzipHeader) = GzipLine
        BY DEF HeaderLine, LengthHeader, CloseHeader, GzipHeader, LengthLine, CloseLine, GzipLine
      <3> QED
        BY <3>1, <3>2
    <2> QED
      BY <2>2
  <1>4. PICK o \in Seq(Token) : o = One("CRLF")
    BY HeaderTokens, OneIs
  <1>5. Head200(n, <<>>) = s \o <<>> \o l \o z \o o
    BY <1>2, <1>3, <1>4 DEF Head200, Header, StatusLine, LengthLine, CloseLine, Line, Colon, One
  <1>6. Head200(n, Gzip) = s \o y \o l \o z \o o
    BY <1>2, <1>3, <1>4
       DEF Head200, Header, Gzip, StatusLine, LengthLine, CloseLine, GzipLine, Line, Colon, One
  <1>7. Cat(Cat(s, l), z) = Cat(s, Cat(l, z))
    BY CatAssociative
  <1>8. Cat(Cat(Cat(s, y), l), z) = Cat(s, Cat(Cat(y, l), z))
    <2>1. Cat(s, y) \in Seq(Token) /\ Cat(y, l) \in Seq(Token)
      BY CatType
    <2>2. Cat(Cat(s, y), l) = Cat(s, Cat(y, l))
      BY CatAssociative
    <2>3. Cat(Cat(s, Cat(y, l)), z) = Cat(s, Cat(Cat(y, l), z))
      BY <2>1, CatAssociative
    <2> QED
      BY <2>2, <2>3
  <1>9. s \o <<>> = s
    OBVIOUS
  <1>10. Head200(n, <<>>) = Cat(Cat(s, Cat(l, z)), o)
    BY <1>5, <1>7, <1>9 DEF Cat
  <1>11. Head200(n, Gzip) = Cat(Cat(s, Cat(Cat(y, l), z)), o)
    BY <1>6, <1>8 DEF Cat
  <1>12. /\ Head200(n, <<>>) \o c = Cat(Head200(n, <<>>), c)
         /\ Head200(n, Gzip) \o c = Cat(Head200(n, Gzip), c)
    BY DEF Cat
  <1> QED
    BY <1>2, <1>3, <1>4, <1>10, <1>11, <1>12 DEF Reply

\* The values of the headers with some key.
Values(headers, key) == {h[2] : h \in {g \in headers : g[1] = <<key>>}}

\* What parse makes of the headers and the content of a response.
Judged(code, headers, content, original) ==
  IF \E v \in Values(headers, "Content-Length") :
       v = <<>> \/ v[1] \notin Digits \/ Number(v[1]) # Len(content)
  THEN {Failure}
  ELSE IF Values(headers, "Content-Encoding") = {} THEN {Read(code, content)}
  ELSE IF /\ \E v \in Values(headers, "Content-Encoding") : {"gzip", "deflate"} \cap ToSet(v) # {}
          /\ content # <<>>
       THEN Inflate(code, content, original)
       ELSE {Failure}

\* parse judges a response by the headers and the content it was made with.
LEMMA ReplyJudged ==
  ASSUME NEW hl, NEW headers, Headers(hl, headers), NEW c \in Seq(Token), NEW original
  PROVE  ParseResponse(Reply(hl, c), original) = Judged("200", headers, c, original)
  <1>1. PICK w : w = Reply(hl, c)
    OBVIOUS
  <1>2. ReplyPlaced(w, hl, c)
    BY <1>1, ReplyIs
  <1>3. PICK n \in Nat : n = Len(hl)
    BY DEF Headers
  <1>4. StatusFound(w)
    BY <1>2, StatusRead DEF ReplyPlaced
  <1>5. w \in Seq(Token)
    BY <1>2 DEF ReplyPlaced, Answered
  <1>6. HeaderEnd(w) = 8 + n /\ 8 + n # 0
    BY <1>2, <1>3 DEF ReplyPlaced
  <1>7. ParseHeaders(SubSeq(w, 8 + 1, 8 + n + 1)) = headers
    <2>1. SubSeq(w, 9, 8 + n + 1) = Cat(hl, One("CRLF"))
      BY <1>2, <1>3 DEF ReplyPlaced
    <2>2. 8 + 1 = 9
      OBVIOUS
    <2> QED
      BY <2>1, <2>2, HeadersClosed
  <1>8. SubSeq(w, 8 + n + 2, Len(w)) = c
    BY <1>2, <1>3 DEF ReplyPlaced
  <1>9. Between(w, 0, 2) = <<w[1]>> /\ Between(w, 2, 4) = <<w[3]>>
    <2>1. 8 <= Len(w)
      BY <1>4 DEF StatusFound
    <2>2. 0 + 1 <= Len(w) /\ 2 + 1 <= Len(w)
      BY ONLY <1>5, <2>1
    <2>3. Between(w, 0, 0 + 2) = <<w[0 + 1]>> /\ Between(w, 2, 2 + 2) = <<w[2 + 1]>>
      BY ONLY <1>5, <2>2, BetweenOne
    <2>4. 0 + 2 = 2 /\ 0 + 1 = 1 /\ 2 + 2 = 4 /\ 2 + 1 = 3
      OBVIOUS
    <2> QED
      BY ONLY <2>3, <2>4
  <1>10. Between(w, 0, 2) = <<"HTTP">> /\ Between(w, 2, 4) \in {<<"1.0">>, <<"1.1">>}
    BY <1>4, <1>9 DEF StatusFound
  <1>11. w[4 + 1] = "200"
    <2>1. 4 + 1 = 5
      OBVIOUS
    <2> QED
      BY <1>4, <2>1 DEF StatusFound
  <1>12. Find(w, "CRLF", 1) = 8 /\ Find(w, "/", 1) = 2 /\ Find(w, " ", 1) = 4 /\ Find(w, " ", 4 + 1) = 6
    <2>1. 4 + 1 = 5
      OBVIOUS
    <2> QED
      BY <1>4, <2>1 DEF StatusFound
  <1>13. 0 < 2 /\ 2 < 4 /\ 4 < 6 /\ 6 < 8
    OBVIOUS
  <1>14. ParseResponse(w, original) = Judged(w[4 + 1], headers, c, original)
    BY ONLY <1>6, <1>7, <1>8, <1>10, <1>12, <1>13 DEF ParseResponse, Judged, Values
  <1> QED
    BY <1>1, <1>11, <1>14

\* The keys of the headers of an answer differ.
LEMMA HeaderKeys ==
  /\ <<"Content-Length">> # <<"Connection">> /\ <<"Content-Length">> # <<"Content-Encoding">>
  /\ <<"Connection">> # <<"Content-Encoding">>
  OBVIOUS

\* An answer that is not zipped is taken as it was packed.
LEMMA PlainJudged ==
  ASSUME NEW c \in Seq(Token), Len(c) \in 0 .. MaxLength, NEW original
  PROVE  Judged("200", {LengthHeader(Numeral[Len(c)]), CloseHeader}, c, original) = {Read("200", c)}
  <1>1. PICK n \in 0 .. MaxLength : n = Len(c)
    OBVIOUS
  <1>2. PICK x : x = Numeral[n]
    OBVIOUS
  <1>3. x \in Digits /\ Number(x) = n
    BY <1>2, NumberRead
  <1>4. PICK a, b, H : a = LengthHeader(x) /\ b = CloseHeader /\ H = {a, b}
    OBVIOUS
  <1>5. /\ a[1] = <<"Content-Length">> /\ b[1] # <<"Content-Length">> /\ a[2] = <<x>>
        /\ a[1] # <<"Content-Encoding">> /\ b[1] # <<"Content-Encoding">>
    BY <1>4, HeaderKeys DEF LengthHeader, CloseHeader
  <1>6. Values(H, "Content-Length") = {<<x>>} /\ Values(H, "Content-Encoding") = {}
    <2>1. {g \in H : g[1] = <<"Content-Length">>} = {a} /\ {g \in H : g[1] = <<"Content-Encoding">>} = {}
      BY ONLY <1>4, <1>5
    <2>2. {h[2] : h \in {a}} = {<<x>>} /\ {h[2] : h \in {}} = {}
      BY ONLY <1>5
    <2> QED
      BY ONLY <2>1, <2>2 DEF Values
  <1>7. ~ \E v \in Values(H, "Content-Length") :
            v = <<>> \/ v[1] \notin Digits \/ Number(v[1]) # Len(c)
    <2>1. <<x>> # <<>> /\ <<x>>[1] = x
      OBVIOUS
    <2> QED
      BY <1>1, <1>3, <1>6, <2>1
  <1>8. Judged("200", H, c, original) = {Read("200", c)}
    BY <1>6, <1>7 DEF Judged
  <1> QED
    BY <1>1, <1>2, <1>4, <1>8

\* A zipped answer that announces its own length is not refused.
LEMMA GzipJudged ==
  ASSUME NEW c \in Seq(Token), c # <<>>, Len(c) \in 0 .. MaxLength, NEW original
  PROVE  Failure \notin Judged("200", {GzipHeader, LengthHeader(Numeral[Len(c)]), CloseHeader}, c, original)
  <1>1. PICK n \in 0 .. MaxLength : n = Len(c)
    OBVIOUS
  <1>2. PICK x : x = Numeral[n]
    OBVIOUS
  <1>3. x \in Digits /\ Number(x) = n
    BY <1>2, NumberRead
  <1>4. PICK a, b, z, H : a = LengthHeader(x) /\ b = CloseHeader /\ z = GzipHeader /\ H = {z, a, b}
    OBVIOUS
  <1>5. PICK e : e = <<"gzip", ",", " ", "deflate">> /\ z[2] = e
    BY <1>4 DEF GzipHeader
  <1>6. /\ a[1] = <<"Content-Length">> /\ b[1] # <<"Content-Length">> /\ a[2] = <<x>>
        /\ a[1] # <<"Content-Encoding">> /\ b[1] # <<"Content-Encoding">>
        /\ z[1] # <<"Content-Length">> /\ z[1] = <<"Content-Encoding">>
    BY <1>4, HeaderKeys DEF LengthHeader, CloseHeader, GzipHeader
  <1>7. Values(H, "Content-Length") = {<<x>>} /\ Values(H, "Content-Encoding") = {e}
    <2>1. {g \in H : g[1] = <<"Content-Length">>} = {a} /\ {g \in H : g[1] = <<"Content-Encoding">>} = {z}
      BY ONLY <1>4, <1>6
    <2>2. {h[2] : h \in {a}} = {<<x>>} /\ {h[2] : h \in {z}} = {e}
      BY ONLY <1>5, <1>6
    <2> QED
      BY ONLY <2>1, <2>2 DEF Values
  <1>8. ~ \E v \in Values(H, "Content-Length") :
            v = <<>> \/ v[1] \notin Digits \/ Number(v[1]) # Len(c)
    <2>1. <<x>> # <<>> /\ <<x>>[1] = x
      OBVIOUS
    <2> QED
      BY <1>1, <1>3, <1>7, <2>1
  <1>9. \E v \in Values(H, "Content-Encoding") : {"gzip", "deflate"} \cap ToSet(v) # {}
    <2>1. PICK p \in Token, q \in Token, r \in Token, t \in Token :
            p = "gzip" /\ q = "," /\ r = " " /\ t = "deflate"
      BY LineTokens DEF Token
    <2>2. PICK v : v = <<p, q, r, t>>
      OBVIOUS
    <2>3. 1 \in DOMAIN v /\ v[1] = p
      BY ONLY <2>2, p \in Token
    <2>4. v = e
      BY <1>5, <2>1, <2>2
    <2>5. p \in ToSet(v)
      BY <2>3 DEF ToSet
    <2> QED
      BY <1>7, <2>1, <2>4, <2>5
  <1>10. Judged("200", H, c, original) = Inflate("200", c, original)
    BY <1>7, <1>8, <1>9 DEF Judged
  <1>11. Failure # Endless /\ \A y : Failure # Read("200", y)
    BY DEF Failure, Endless, Read
  <1>12. Failure \notin Inflate("200", c, original)
    BY <1>11 DEF Inflate
  <1> QED
    BY <1>1, <1>2, <1>4, <1>10, <1>12

\* What the client makes of an answer that is not zipped.
LEMMA PlainRead ==
  ASSUME NEW c \in Seq(Token), Len(c) \in 0 .. MaxLength, NEW original
  PROVE  ParseResponse(PackPlain(c), original) = {Read("200", c)}
  <1>1. PICK n \in 0 .. MaxLength : n = Len(c)
    OBVIOUS
  <1>2. PICK x : x = Numeral[n]
    OBVIOUS
  <1>3. PackPlain(c) = Reply(Cat(LengthLine(x), CloseLine), c)
    BY <1>1, <1>2, HeadIsReply DEF PackPlain
  <1>4. Headers(Cat(LengthLine(x), CloseLine), {LengthHeader(x), CloseHeader})
    BY <1>2, NumberRead, PlainHeaders
  <1> QED
    BY <1>1, <1>2, <1>3, <1>4, ReplyJudged, PlainJudged

\* What the client makes of a zipped answer with the length of what it holds.
LEMMA GzipRead ==
  ASSUME NEW c \in Seq(Token), c # <<>>, Len(c) \in 0 .. MaxLength, NEW original
  PROVE  Failure \notin ParseResponse(Head200(Len(c), Gzip) \o c, original)
  <1>1. PICK n \in 0 .. MaxLength : n = Len(c)
    OBVIOUS
  <1>2. PICK x : x = Numeral[n]
    OBVIOUS
  <1>3. PICK hl : hl = Cat(Cat(GzipLine, LengthLine(x)), CloseLine)
    OBVIOUS
  <1>4. Head200(n, Gzip) \o c = Reply(hl, c)
    BY <1>2, <1>3, HeadIsReply
  <1>5. Headers(hl, {GzipHeader, LengthHeader(x), CloseHeader})
    BY <1>2, <1>3, NumberRead, GzipHeaders
  <1>6. ParseResponse(Reply(hl, c), original)
          = Judged("200", {GzipHeader, LengthHeader(x), CloseHeader}, c, original)
    BY <1>5, ReplyJudged
  <1> QED
    BY <1>1, <1>2, <1>4, <1>6, GzipJudged

\* What zlib leaves in the buffer.
LEMMA GzipIntoIs ==
  ASSUME NEW room \in Nat, NEW size \in Nat
  PROVE  GzipInto(room, size) \in Seq(Token) /\ Len(GzipInto(room, size)) <= room
  <1>1. PICK z : z = Zipped(size)
    OBVIOUS
  <1>2. "end" \in Token /\ "z" \in Token
    BY DEF Token
  <1>3. z \in [1 .. size -> Token]
    BY <1>1, <1>2 DEF Zipped
  <1>4. z \in Seq(Token) /\ Len(z) = size
    BY <1>3
  <1>5. PICK k \in 0 .. Len(z) : k = IF size <= room THEN size ELSE room
    <2>1. (IF size <= room THEN size ELSE room) \in 0 .. Len(z)
      BY <1>4
    <2> QED
      BY <2>1
  <1>6. k <= room
    BY <1>5
  <1>7. PICK d : d = SubSeq(z, 1, k)
    OBVIOUS
  <1>8. d \in Seq(Token) /\ Len(d) = k
    BY ONLY <1>4, <1>7, k \in 0 .. Len(z), CutIs
  <1> QED
    BY <1>1, <1>5, <1>6, <1>7, <1>8 DEF GzipInto

\* A packed answer is read back, unless it is zipped; a zipped one of pack(string) is not refused.
LEMMA AnswerRead ==
  ASSUME ExchangeAssumption, NEW a \in Answers, NEW size \in ZippedSizes,
         NEW text \in {Pack(a, size), PackBuffer(a, size)}, NEW r \in ParseResponse(text, a)
  PROVE  /\ size = 0 \/ a = <<>> => r = Read("200", a)
         /\ text = Pack(a, size) => r # Failure
  <1>1. a \in Seq(Token)
    BY Texts DEF ExchangeAssumption
  <1>2. size \in Nat
    BY DEF ExchangeAssumption
  <1>3. PICK room \in Nat : room = Len(a) + Slack
    BY <1>1 DEF Slack
  <1>4. room <= MaxLength /\ MaxLength \in Nat
    BY <1>3, NumeralAssumption DEF ExchangeAssumption, NumeralAssumption
  <1>5. Len(a) \in 0 .. MaxLength
    BY <1>1, <1>3, <1>4 DEF Slack
  <1>6. PICK z : z = GzipInto(room, size)
    OBVIOUS
  <1>7. z \in Seq(Token) /\ Len(z) <= room
    BY <1>2, <1>6, GzipIntoIs
  <1>8. Len(z) \in 0 .. MaxLength
    BY <1>4, <1>7
  <1>9. Read("200", a) # Failure
    BY DEF Read, Failure
  <1>10. ParseResponse(PackPlain(a), a) = {Read("200", a)}
    BY <1>1, <1>5, PlainRead
  <1>11. CASE a = <<>> \/ z = <<>>
    <2>1. text = PackPlain(a)
      BY <1>3, <1>6, <1>11 DEF Pack, PackBuffer
    <2> QED
      BY <1>9, <1>10, <2>1
  <1>12. CASE ~ (a = <<>> \/ z = <<>>)
    <2>1. size # 0
      <3> SUFFICES ASSUME size = 0 PROVE z = <<>>
        BY <1>12
      <3>1. PICK s, k : s = Zipped(size) /\ k = 0
        OBVIOUS
      <3>2. z = SubSeq(s, 1, k)
        BY <1>6, <3>1 DEF GzipInto
      <3> QED
        BY ONLY <3>1, <3>2
    <2>2. Pack(a, size) = Head200(Len(z), Gzip) \o z
      BY <1>3, <1>6, <1>12 DEF Pack
    <2>3. Failure \notin ParseResponse(Head200(Len(z), Gzip) \o z, a)
      BY <1>7, <1>8, <1>12, GzipRead
    <2> QED
      BY <1>12, <2>1, <2>2, <2>3
  <1> QED
    BY <1>11, <1>12

\* The length and the beginning of a request.
Shaped(w, r) ==
  /\ w \in Seq(Token) /\ HeaderEnd(w) \in Nat \ {0} /\ w[1] = r.method
  /\ Len(w) \in HeaderEnd(w) + 1 .. HeaderEnd(w) + 1 + Len(r.content)
  /\ Len(w) = HeaderEnd(w) + 1 + Len(r.content) <=> (r.method = "POST" => w = PackWhole(r))
  /\ Len(r.content) \in 0 .. MaxLength /\ (r.method = "GET" => Len(r.content) = 0)
  /\ r.method \in {"GET", "POST"}

\* The text of a request is its head, an empty line and its content, or less of it.
LEMMA TextShaped ==
  ASSUME WellTyped(request), Room \in Nat, sent \in Sendings(request)
  PROVE  Shaped(sent, request)
  <1>1. PICK r, w : r = request /\ w = sent
    OBVIOUS
  <1>2. PICK c \in Seq(Token) : SentAs(w, r, c)
    BY <1>1, SendingIs
  <1>3. PICK ps, hl : ps = Parameters(r.params) /\ hl = HeaderLines(Sent(r))
    OBVIOUS
  <1>4. /\ FirstFits(r.method, r.path, ps, r.version) /\ Headers(hl, Sent(r))
        /\ WholePlaced(w, r.method, r.path, ps, r.version, hl, c)
    BY <1>1, <1>2, <1>3, RequestIs DEF RequestPlaced, SentAs
  <1>5. PICK p \in Nat, q \in Nat, n \in Nat : p = Len(r.path) /\ q = Len(ps) /\ n = Len(hl)
    <2>1. r.path \in Seq(Token) /\ ps \in Seq(Token) /\ hl \in Seq(Token)
      BY <1>4 DEF FirstFits, Headers
    <2> QED
      BY ONLY <2>1
  <1>6. PICK e \in Nat \ {0} : e = p + q + 7 + n
    OBVIOUS
  <1>7. w \in Seq(Token) /\ HeaderEnd(w) = e /\ Len(w) = e + 1 + Len(c)
    BY <1>4, <1>5, <1>6 DEF WholePlaced
  <1>8. w[1] = r.method
    <2>1. FirstLinePlaced(w, r.method, r.path, ps, r.version)
      BY <1>4 DEF WholePlaced
    <2>2. w[1] = r.method
      <3>1. FirstRead(w, r.method, r.version, p, q)
        BY <1>5, <2>1, FirstLineRead
      <3> QED
        BY ONLY <3>1 DEF FirstRead
    <2> QED
      BY <2>2
  <1>9. r.method \in {"GET", "POST"} /\ (r.method = "GET" => r.content = <<>>)
        /\ Len(r.content) <= MaxLength
    BY <1>1 DEF WellTyped
  <1>10. PICK x \in Nat, y \in Nat : x = Len(c) /\ y = Len(r.content) /\ x <= y
    BY <1>2 DEF SentAs, Begins
  <1>11. Len(r.content) \in 0 .. MaxLength
    <2>1. MaxLength \in Nat
      BY NumeralAssumption DEF NumeralAssumption
    <2> QED
      BY ONLY <1>9, <1>10, <2>1
  <1>12. x = y <=> (r.method = "POST" => w = PackWhole(r))
    <2>1. x = y <=> c = r.content
      BY <1>2, <1>10, BeginsWhole DEF SentAs
    <2> QED
      BY <1>2, <2>1 DEF SentAs
  <1>13. e + 1 + x \in e + 1 .. e + 1 + y /\ (e + 1 + x = e + 1 + y <=> x = y)
    <2>1. x <= y /\ e \in Nat
      BY <1>10
    <2> QED
      BY ONLY <2>1, x \in Nat, y \in Nat
  <1>14. r.method = "GET" => Len(r.content) = 0
    BY <1>9
  <1> QED
    BY <1>1, <1>7, <1>8, <1>9, <1>10, <1>11, <1>12, <1>13, <1>14 DEF Shaped

-----------------------------------------------------------------------------
\* The answer is one that a handler packs.
Packed ==
  answer # NoAnswer =>
    \E a \in Answers, size \in ZippedSizes : \E text \in {Pack(a, size), PackBuffer(a, size)} :
      answer = [content |-> a, size |-> size, text |-> text]

\* What the client made of the answer.
Understood ==
  read # Unread => answer # NoAnswer /\ read \in ParseResponse(answer.text, answer.content)

\* The length is the one of the content when it is known.
Counted ==
  contentLength >= 0 =>
    /\ request.method = "POST" /\ contentLength = Len(request.content)
    /\ headerLength = HeaderEnd(sent) + 1

\* A request that has arrived is not received any more, unless it was cut, and then it is
\* received for ever.
Settled ==
  /\ outcome = "receiving" => arrived < Len(sent) \/ Cut
  /\ outcome # "receiving" => ~ Cut
  /\ outcome = "handled" => handled = Parse(sent)
  /\ outcome = "closed" => Parse(sent).path \notin Registered

ExchangeInv ==
  /\ request \in Requests /\ sent \in Sendings(request)
  /\ Packed /\ Understood
  /\ WellFormed /\ ~ Misleading => ExchangeTypeOK /\ Counted /\ Settled

\* What a read means for the request: it has arrived as a whole, or it goes on.
Reads(n, l, e, c) ==
  /\ n \in 1 .. l /\ l \in e + 1 .. e + 1 + c /\ (l = e + 1 + c <=> ~ Cut)
  /\ arrived' = n /\ UNCHANGED <<request, sent, answer, read>>
  /\ \/ UNCHANGED <<headerLength, contentLength>>
     \/ contentLength' = -1 /\ UNCHANGED headerLength
     \/ contentLength' = c /\ headerLength' = e + 1 /\ request.method = "POST"
  /\ IF n = e + 1 + c THEN Dispatch(sent) ELSE UNCHANGED <<outcome, handled>>

\* A request that is read is dispatched when it has arrived, and not before.
LEMMA ReadAll ==
  ASSUME ExchangeAssumption, ExchangeInv, WellFormed, ~ Misleading, NEW n, HandleRecv(n),
         n \in 1 .. Len(sent)
  PROVE  Reads(n, Len(sent), HeaderEnd(sent), Len(request.content)) /\ outcome = "receiving"
  <1>1. /\ WellTyped(request) /\ ExchangeTypeOK /\ Counted /\ Settled /\ request \in Requests
        /\ sent \in Sendings(request) /\ Room \in Nat
    BY DEF ExchangeInv, ExchangeAssumption
  <1>2. PICK w : w = sent
    OBVIOUS
  <1>3. Shaped(w, request)
    BY <1>1, <1>2, TextShaped
  <1>4. w \in Seq(Token)
    BY <1>3 DEF Shaped
  <1>5. PICK e \in Nat \ {0}, c \in Nat, l \in Nat :
          e = HeaderEnd(w) /\ c = Len(request.content) /\ l = Len(w)
    BY <1>3 DEF Shaped
  <1>6. /\ l \in e + 1 .. e + 1 + c /\ (request.method = "GET" => c = 0)
        /\ request.method \in {"GET", "POST"} /\ w[1] = request.method /\ c \in 0 .. MaxLength
        /\ l = e + 1 + c <=> ~ Cut
    BY <1>2, <1>3, <1>5 DEF Shaped, Cut
  <1>7. n \in 1 .. l
    BY <1>2, <1>5
  <1>8. PICK data : data = SubSeq(w, 1, n)
    OBVIOUS
  <1>9. data \in Seq(Token) /\ Len(data) = n /\ data[1] = request.method
    <2>1. n \in 0 .. l /\ 1 \in 1 .. n
      BY ONLY <1>7, l \in Nat
    <2>2. n \in 0 .. Len(w)
      BY <1>5, <2>1
    <2>3. data \in Seq(Token) /\ Len(data) = n /\ \A i \in 1 .. n : data[i] = w[i]
      BY ONLY <1>4, <1>8, <2>2, CutIs
    <2> QED
      BY <1>6, <2>1, <2>3
  <1>10. /\ outcome = "receiving" /\ arrived' = n
         /\ IF data[1] = "POST" THEN Learn(data) ELSE UNCHANGED <<headerLength, contentLength>>
         /\ IF Finished(data) THEN Dispatch(data) ELSE UNCHANGED <<outcome, handled>>
         /\ UNCHANGED <<request, sent, answer, read>>
    BY <1>2, <1>8 DEF HandleRecv
  <1>11. n <= e => HeaderEnd(data) = 0
    <2>1. n \in 0 .. l
      BY ONLY <1>7, l \in Nat
    <2> QED
      BY <1>4, <1>5, <1>8, <2>1, HeadCut
  <1>12. n = e + 1 + c => n = l /\ data = w
    <2>1. SubSeq(w, 1, Len(w)) = w
      BY ONLY <1>4
    <2>2. n = e + 1 + c => n = l
      BY ONLY <1>6, <1>7, e \in Nat \ {0}, c \in Nat, l \in Nat
    <2> QED
      BY <1>5, <1>8, <2>1, <2>2
  <1>13. SUFFICES
                         /\ \/ UNCHANGED <<headerLength, contentLength>>
                            \/ contentLength' = -1 /\ UNCHANGED headerLength
                            \/ contentLength' = c /\ headerLength' = e + 1 /\ request.method = "POST"
                         /\ Finished(data) <=> n = e + 1 + c
    BY <1>2, <1>5, <1>6, <1>7, <1>10, <1>12 DEF Reads
  <1>14. CASE request.method = "GET"
    <2>1. c = 0
      BY <1>6, <1>14
    <2>2. n = e + 1 + c \/ n <= e
      BY ONLY <1>6, <1>7, <2>1, l \in Nat, e \in Nat \ {0}
    <2>3. e > 0 /\ ~ (0 > 0)
      BY ONLY e \in Nat \ {0}
    <2>4. Finished(data) <=> HeaderEnd(data) > 0
      BY <1>9, <1>14 DEF Finished
    <2>5. Finished(data) <=> n = e + 1 + c
      <3>1. CASE n = e + 1 + c
        BY <1>5, <1>12, <2>3, <2>4, <3>1
      <3>2. CASE n # e + 1 + c
        BY <1>11, <2>2, <2>3, <2>4, <3>2
      <3> QED
        BY <3>1, <3>2
    <2> QED
      BY <1>9, <1>10, <1>14, <2>5
  <1>15. CASE request.method = "POST"
    <2>1. Learn(data) /\ (Finished(data) <=> contentLength' >= 0 /\ contentLength' + headerLength' <= n)
      BY <1>9, <1>10, <1>15 DEF Finished
    <2>2. contentLength \in -1 .. MaxLength /\ MaxLength \in Nat
      BY <1>1, NumeralAssumption DEF ExchangeTypeOK, NumeralAssumption
    <2>3. (c + (e + 1) <= n) <=> n = e + 1 + c
      BY ONLY <1>6, <1>7, l \in Nat, e \in Nat \ {0}, c \in Nat
    <2>4. c >= 0 /\ ~ (-1 >= 0)
      OBVIOUS
    <2>5. CASE contentLength >= 0
      <3>1. contentLength = c /\ headerLength = e + 1
        BY <1>1, <1>2, <1>5, <2>5 DEF Counted
      <3>2. UNCHANGED <<headerLength, contentLength>>
        BY <2>1, <2>2, <2>5 DEF Learn
      <3> QED
        BY <2>1, <2>3, <2>4, <3>1, <3>2
    <2>6. CASE ~ (contentLength >= 0) /\ n <= e
      <3>1. UNCHANGED <<headerLength, contentLength>>
        <4>1. ~ (HeaderEnd(data) > 0)
          BY <1>11, <2>6
        <4> QED
          BY <2>1, <4>1 DEF Learn
      <3>2. n # e + 1 + c
        BY ONLY <1>7, <2>6, l \in Nat, c \in Nat, e \in Nat \ {0}
      <3> QED
        BY <2>1, <2>6, <3>1, <3>2
    <2>7. CASE ~ (contentLength >= 0) /\ ~ (n <= e)
      <3>1. Announced(data) = {Length} /\ HeaderEnd(data) = e
        <4>1. n \in 0 .. Len(sent)
          BY ONLY <1>2, <1>5, <1>7, l \in Nat
        <4>2. n > HeaderEnd(sent)
          <5>1. n > e
            BY ONLY <1>7, <2>7, l \in Nat, e \in Nat \ {0}
          <5> QED
            BY <1>2, <1>5, <5>1
        <4> QED
          BY <1>1, <1>2, <1>5, <1>8, <1>15, <4>1, <4>2, LengthAnnounced
      <3>2. \E v \in Announced(data) : IsDigit(v)
        <4>1. Numeral[c] \in Digits
          BY <1>6, NumberRead
        <4>2. Length = <<Numeral[c]>>
          BY <1>5 DEF Length
        <4>3. PICK x : x = Numeral[c]
          OBVIOUS
        <4>4. Len(<<x>>) = 1 /\ <<x>>[1] = x
          OBVIOUS
        <4>5. IsDigit(Length)
          BY <4>1, <4>2, <4>3, <4>4 DEF IsDigit
        <4> QED
          BY <3>1, <4>5
      <3>3. Number((CHOOSE v \in Announced(data) : TRUE)[1]) = c
        <4>1. (CHOOSE v \in Announced(data) : TRUE) = Length
          BY <3>1
        <4>2. Length[1] = Numeral[c]
          BY <1>5 DEF Length
        <4> QED
          BY <1>6, <4>1, <4>2, NumberRead
      <3>4. contentLength < 0 /\ HeaderEnd(data) > 0
        <4>1. e > 0
          OBVIOUS
        <4>2. contentLength < 0
          BY ONLY <2>2, <2>7
        <4> QED
          BY <3>1, <4>1, <4>2
      <3>5. headerLength' = e + 1 /\ contentLength' = c
        BY <2>1, <3>1, <3>2, <3>3, <3>4 DEF Learn
      <3> QED
        BY <1>15, <2>1, <2>3, <2>4, <3>5
    <2> QED
      BY <2>5, <2>6, <2>7
  <1> QED
    BY <1>6, <1>14, <1>15

\* After a read the request is handled if it has arrived, and its length is known or not.
LEMMA ReadSettles ==
  ASSUME ExchangeAssumption, ExchangeInv, WellFormed, ~ Misleading, NEW n, HandleRecv(n),
         n \in 1 .. Len(sent)
  PROVE  (ExchangeTypeOK /\ Counted /\ Settled)'
  <1>1. /\ WellTyped(request) /\ ExchangeTypeOK /\ Counted /\ Settled /\ request \in Requests
        /\ sent \in Sendings(request) /\ Room \in Nat
    BY DEF ExchangeInv, ExchangeAssumption
  <1>2. PICK w : w = sent
    OBVIOUS
  <1>3. Shaped(w, request)
    BY <1>1, <1>2, TextShaped
  <1>4. PICK e \in Nat \ {0}, c \in Nat, l \in Nat :
          e = HeaderEnd(w) /\ c = Len(request.content) /\ l = Len(w)
    BY <1>3 DEF Shaped
  <1>5. c \in 0 .. MaxLength /\ MaxLength \in Nat
    BY <1>3, <1>4, NumeralAssumption DEF Shaped, NumeralAssumption
  <1>6. Reads(n, l, e, c) /\ outcome = "receiving"
    BY <1>2, <1>4, ReadAll
  <1>7. /\ n \in 1 .. l /\ arrived' = n /\ request' = request
        /\ l \in e + 1 .. e + 1 + c /\ (l = e + 1 + c <=> ~ Cut)
    BY <1>6 DEF Reads
  <1>8. sent' = w /\ Cut' = Cut
    BY <1>2, <1>6 DEF Reads, Cut
  <1>9. Parse(w) # Failed /\ Parse(w).path = request.path
    BY <1>1, <1>2, RequestRead
  <1>10. /\ headerLength' \in 0 .. l /\ contentLength' \in -1 .. MaxLength
         /\ contentLength' >= 0 =>
              request.method = "POST" /\ contentLength' = c /\ headerLength' = e + 1
    <2>1. contentLength \in -1 .. MaxLength /\ headerLength \in 0 .. l
          /\ (contentLength >= 0 => request.method = "POST" /\ contentLength = c /\ headerLength = e + 1)
      BY <1>1, <1>2, <1>4 DEF ExchangeTypeOK, Counted
    <2>2. e + 1 \in 0 .. l /\ -1 \in -1 .. MaxLength /\ c \in -1 .. MaxLength /\ ~ (-1 >= 0)
      BY ONLY <1>5, <1>7, e \in Nat \ {0}, c \in Nat, l \in Nat
    <2> QED
      BY <1>6, <2>1, <2>2 DEF Reads
  <1>11. /\ outcome' \in {"receiving", "closed", "handled"}
         /\ (handled' # Failed) = (outcome' = "handled")
         /\ outcome' = "receiving" => n # e + 1 + c
         /\ outcome' # "receiving" => n = e + 1 + c
         /\ outcome' = "handled" => handled' = Parse(w)
         /\ outcome' = "closed" => Parse(w).path \notin Registered
    <2>1. handled = Failed
      BY <1>1, <1>6 DEF ExchangeTypeOK
    <2>2. CASE n = e + 1 + c
      BY <1>2, <1>6, <1>9, <2>1, <2>2 DEF Reads, Dispatch
    <2>3. CASE n # e + 1 + c
      BY <1>6, <2>1, <2>3 DEF Reads
    <2> QED
      BY <2>2, <2>3
  <1>12. n \in 0 .. l /\ (n # e + 1 + c => n < l \/ Cut) /\ (n = e + 1 + c => ~ Cut)
    <2>1. n \in 1 .. l /\ l \in e + 1 .. e + 1 + c /\ e \in Nat
      BY <1>7
    <2>2. n \in 0 .. l /\ (n < l \/ n = l) /\ (n = e + 1 + c => n = l)
      BY ONLY <2>1, c \in Nat, l \in Nat
    <2> QED
      BY <1>7, <2>2
  <1>13. ExchangeTypeOK'
    <2>1. request' \in Requests /\ sent' \in Sendings(request)' /\ Len(sent)' = l
      BY <1>1, <1>2, <1>4, <1>7, <1>8
    <2> QED
      BY <1>7, <1>10, <1>11, <1>12, <2>1 DEF ExchangeTypeOK
  <1>14. Counted'
    BY <1>4, <1>7, <1>8, <1>10 DEF Counted
  <1>15. Settled'
    BY <1>4, <1>7, <1>8, <1>11, <1>12 DEF Settled
  <1> QED
    BY <1>13, <1>14, <1>15

\* The invariant holds when a connection begins.
LEMMA ExchangeInvInit ==
  ASSUME ExchangeAssumption, ExchangeInit
  PROVE  ExchangeInv
  <1>1. request \in Requests /\ WellTyped(request) /\ sent \in Sendings(request) /\ Room \in Nat
    BY DEF ExchangeInit, ExchangeAssumption
  <1>2. PICK w : w = sent
    OBVIOUS
  <1>3. Shaped(w, request)
    BY <1>1, <1>2, TextShaped
  <1>4. PICK l \in Nat : l = Len(w) /\ l # 0
    <2>1. PICK e \in Nat \ {0}, c \in Nat : e = HeaderEnd(w) /\ c = Len(request.content)
      BY <1>3 DEF Shaped
    <2>2. Len(w) \in e + 1 .. e + 1 + c
      BY <1>3, <2>1 DEF Shaped
    <2>3. Len(w) \in Nat /\ Len(w) # 0
      BY ONLY <2>2, e \in Nat \ {0}, c \in Nat
    <2> QED
      BY <2>3
  <1>5. 0 \in 0 .. l /\ 0 < l /\ ~ (-1 >= 0) /\ -1 \in -1 .. MaxLength
    <2>1. MaxLength \in Nat
      BY NumeralAssumption DEF NumeralAssumption
    <2> QED
      BY <1>4, <2>1
  <1>6. ExchangeTypeOK
    BY <1>1, <1>2, <1>4, <1>5 DEF ExchangeInit, ExchangeTypeOK
  <1>7. Counted
    BY <1>5 DEF ExchangeInit, Counted
  <1>8. Settled
    BY <1>2, <1>4, <1>5 DEF ExchangeInit, Settled
  <1>9. Packed /\ Understood
    BY DEF ExchangeInit, Packed, Understood
  <1> QED
    BY <1>1, <1>6, <1>7, <1>8, <1>9 DEF ExchangeInv

\* Every step keeps the invariant: a read of the request, the answer, and the read of it.
LEMMA ExchangeInvStep ==
  ASSUME ExchangeAssumption, ExchangeInv, [ExchangeNext]_exchangeVars
  PROVE  ExchangeInv'
  <1> USE DEF ExchangeInv
  <1>1. ASSUME NEW n \in 1 .. Len(sent), HandleRecv(n)
        PROVE  ExchangeInv'
    <2>1. UNCHANGED <<request, sent, answer, read>>
      BY <1>1 DEF HandleRecv
    <2>2. (WellFormed /\ ~ Misleading)' => WellFormed /\ ~ Misleading
      BY <2>1 DEF WellFormed, Misleading
    <2>3. WellFormed /\ ~ Misleading => (ExchangeTypeOK /\ Counted /\ Settled)'
      BY <1>1, ReadSettles
    <2>4. Packed' /\ Understood'
      BY <2>1 DEF Packed, Understood
    <2> QED
      BY <2>1, <2>2, <2>3, <2>4
  <1>2. ASSUME NEW content \in Answers, NEW size \in ZippedSizes, Respond(content, size)
        PROVE  ExchangeInv'
    <2>1. /\ answer = NoAnswer
          /\ \E text \in {Pack(content, size), PackBuffer(content, size)} :
               answer' = [content |-> content, size |-> size, text |-> text]
          /\ UNCHANGED <<request, sent, arrived, contentLength, headerLength, outcome, handled, read>>
      BY <1>2 DEF Respond
    <2>2. Packed'
      BY <1>2, <2>1 DEF Packed
    <2>3. read = Unread
      BY <2>1 DEF Understood
    <2>4. Understood'
      BY <2>1, <2>3 DEF Understood
    <2>5. (WellFormed /\ ~ Misleading)' => WellFormed /\ ~ Misleading
      BY <2>1 DEF WellFormed, Misleading
    <2>6. ExchangeTypeOK /\ Counted /\ Settled => (ExchangeTypeOK /\ Counted /\ Settled)'
      BY <2>1 DEF ExchangeTypeOK, Counted, Settled, Cut
    <2> QED
      BY <2>1, <2>2, <2>4, <2>5, <2>6
  <1>3. ASSUME ReadAnswer
        PROVE  ExchangeInv'
    <2>1. /\ answer # NoAnswer /\ read' \in ParseResponse(answer.text, answer.content)
          /\ UNCHANGED <<request, sent, arrived, contentLength, headerLength, outcome, handled, answer>>
      BY <1>3 DEF ReadAnswer
    <2>2. Packed' /\ Understood'
      BY <2>1 DEF Packed, Understood
    <2>3. (WellFormed /\ ~ Misleading)' => WellFormed /\ ~ Misleading
      BY <2>1 DEF WellFormed, Misleading
    <2>4. ExchangeTypeOK /\ Counted /\ Settled => (ExchangeTypeOK /\ Counted /\ Settled)'
      BY <2>1 DEF ExchangeTypeOK, Counted, Settled, Cut
    <2> QED
      BY <2>1, <2>2, <2>3, <2>4
  <1>4. ASSUME UNCHANGED exchangeVars
        PROVE  ExchangeInv'
    <2>1. UNCHANGED <<request, sent, arrived, contentLength, headerLength, outcome, handled, answer, read>>
      BY <1>4 DEF exchangeVars
    <2>2. Packed' /\ Understood'
      BY <2>1 DEF Packed, Understood
    <2>3. (WellFormed /\ ~ Misleading)' => WellFormed /\ ~ Misleading
      BY <2>1 DEF WellFormed, Misleading
    <2>4. ExchangeTypeOK /\ Counted /\ Settled => (ExchangeTypeOK /\ Counted /\ Settled)'
      BY <2>1 DEF ExchangeTypeOK, Counted, Settled, Cut
    <2> QED
      BY <2>1, <2>2, <2>3, <2>4
  <1> QED
    BY <1>1, <1>2, <1>3, <1>4 DEF ExchangeNext

\* What the invariant says of a request that is handled, and of an answer that is read.
LEMMA ExchangeInvMeaning ==
  ASSUME ExchangeAssumption, ExchangeInv
  PROVE  HandledAsSent /\ FoundComplete /\ AnswerReadBack
  <1>1. request \in Requests /\ WellTyped(request) /\ sent \in Sendings(request) /\ Room \in Nat
    BY DEF ExchangeInv, ExchangeAssumption
  <1>2. PICK p : p = Parse(sent)
    OBVIOUS
  <1>3. /\ p.path = request.path /\ p.params = request.params /\ p.version = request.version
        /\ p.headers = Sent(request)
    BY <1>1, <1>2, RequestRead
  <1>4. request.method = "POST" /\ ~ Cut => p.content = request.content
    BY <1>1, <1>2, RequestRead DEF Cut
  <1>5. request.method = "POST" => Sent(request) = request.headers
    BY DEF Sent
  <1>6. HandledAsSent
    BY <1>2, <1>3, <1>4, <1>5 DEF HandledAsSent, ExchangeInv, Settled
  <1>7. FoundComplete
    <2>1. SUFFICES ASSUME WellFormed, ~ Misleading, arrived = Len(sent)
                   PROVE  outcome = "receiving" <=> Cut
      BY DEF FoundComplete
    <2>2. /\ outcome = "receiving" => arrived < Len(sent) \/ Cut
          /\ outcome # "receiving" => ~ Cut
      BY <2>1 DEF ExchangeInv, Settled
    <2>3. sent \in Seq(Token)
      BY <1>1, TextShaped DEF Shaped
    <2>4. Len(sent) \in Nat
      BY ONLY <2>3
    <2>5. ~ (arrived < Len(sent))
      BY ONLY <2>1, <2>4
    <2> QED
      BY ONLY <2>2, <2>5
  <1>8. AnswerReadBack
    <2>1. SUFFICES ASSUME read # Unread
                   PROVE  /\ answer.size = 0 \/ answer.content = <<>> =>
                               read = Read("200", answer.content)
                          /\ answer.text = Pack(answer.content, answer.size) => read # Failure
      BY DEF AnswerReadBack
    <2>2. answer # NoAnswer /\ read \in ParseResponse(answer.text, answer.content)
      BY <2>1 DEF ExchangeInv, Understood
    <2>3. PICK a \in Answers, size \in ZippedSizes : \E text \in {Pack(a, size), PackBuffer(a, size)} :
            answer = [content |-> a, size |-> size, text |-> text]
      BY <2>2 DEF ExchangeInv, Packed
    <2>4. PICK text \in {Pack(a, size), PackBuffer(a, size)} :
            answer = [content |-> a, size |-> size, text |-> text]
      BY <2>3
    <2>5. answer.content = a /\ answer.size = size /\ answer.text = text
      BY <2>4
    <2> QED
      BY <2>2, <2>5, AnswerRead
  <1> QED
    BY <1>6, <1>7, <1>8

\* The inductive invariant of an exchange.
THEOREM ExchangeInvariant == ExchangeSpec => []ExchangeInv
  <1>1. ExchangeInit => ExchangeInv
    BY ExchangeAssumption, ExchangeInvInit
  <1>2. ExchangeInv /\ [ExchangeNext]_exchangeVars => ExchangeInv'
    BY ExchangeAssumption, ExchangeInvStep
  <1> QED
    BY <1>1, <1>2, PTL DEF ExchangeSpec

\* However TCP cuts a request, whatever its parameters are, it is handled as it was sent.
THEOREM ExchangeHandledAsSent == ExchangeSpec => []HandledAsSent
  <1>1. ExchangeInv => HandledAsSent
    BY ExchangeAssumption, ExchangeInvMeaning
  <1> QED
    BY <1>1, ExchangeInvariant, PTL

\* However TCP cuts a request, the read that completes it finds it complete, unless
\* pack_post left out a part of its content: then none ever does.
THEOREM ExchangeFoundComplete == ExchangeSpec => []FoundComplete
  <1>1. ExchangeInv => FoundComplete
    BY ExchangeAssumption, ExchangeInvMeaning
  <1> QED
    BY <1>1, ExchangeInvariant, PTL

\* Answers are read back by length and content, and a zipped one is not refused by its length.
THEOREM ExchangeAnswerReadBack == ExchangeSpec => []AnswerReadBack
  <1>1. ExchangeInv => AnswerReadBack
    BY ExchangeAssumption, ExchangeInvMeaning
  <1> QED
    BY <1>1, ExchangeInvariant, PTL
==============================================================================
