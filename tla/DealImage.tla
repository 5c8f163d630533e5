----------------------------- MODULE DealImage -----------------------------
(***************************************************************************)
(* work/deal_image.py: the worker makes the rendition of a picture.  The   *)
(* picture is enlarged by a whole factor, the larger of the two integer    *)
(* quotients, and the middle of it is cut out; when the quotients are      *)
(* equal it is stretched to the size asked for.  Python 2's / on integers  *)
(* is \div here.                                                           *)
(***************************************************************************)
EXTENDS Integers

CONSTANTS
  MaxSide,          \* longest side a trim may ask for (proc_image.py: 10000)
  Sources           \* sizes of the stored pictures

Sizes == [w : Nat \ {0}, h : Nat \ {0}]
Targets == [w : 1 .. MaxSide, h : 1 .. MaxSide]

ASSUME DealAssumption == MaxSide \in Nat /\ Sources \subseteq Sizes

VARIABLES
  target,           \* __width and __hight
  source,           \* image.size
  image,            \* size of __tmpImage
  box,              \* what crop cuts out: left, upper, right, lower
  phase             \* "opened", "resized", "cropped", "saved", "failed"

dealVars == <<target, source, image, box, phase>>

DealTypeOK ==
  /\ target \in Targets /\ source \in Sizes /\ image \in Sizes
  /\ box \in [left : Int, upper : Int, right : Int, lower : Int]
  /\ phase \in {"opened", "resized", "cropped", "saved", "failed"}

Whole(size) == [left |-> 0, upper |-> 0, right |-> size.w, lower |-> size.h]

\* Image.open succeeded; proc_image has checked the target.
DealInit ==
  /\ target \in Targets /\ source \in Sources
  /\ image = source /\ box = Whole(source)
  /\ phase = "opened"

\* routh_w and routh_h
Routh(side, original) == side \div original

\* Mutant: routh_w and routh_h the wrong way round.
ResizeSwapped ==
  /\ phase = "opened"
  /\ LET rw == Routh(target.w, source.w)
         rh == Routh(target.h, source.h)
     IN  image' = IF rw = rh THEN target
                  ELSE IF rw < rh THEN [w |-> target.w, h |-> source.h * rw]
                                  ELSE [w |-> source.w * rh, h |-> target.h]
  /\ phase' = IF Routh(target.w, source.w) = Routh(target.h, source.h)
              THEN "cropped" ELSE "resized"
  /\ UNCHANGED <<target, source, box>>

\* image.resize; with equal quotients nothing is left to cut off.
Resize ==
  /\ phase = "opened"
  /\ LET rw == Routh(target.w, source.w)
         rh == Routh(target.h, source.h)
     IN  image' = IF rw = rh THEN target
                  ELSE IF rw > rh THEN [w |-> target.w, h |-> source.h * rw]
                                  ELSE [w |-> source.w * rh, h |-> target.h]
  /\ phase' = IF Routh(target.w, source.w) = Routh(target.h, source.h)
              THEN "cropped" ELSE "resized"
  /\ UNCHANGED <<target, source, box>>

\* Mutant: the end of the middle is half of each length.
MiddleToRounded(have, want) == have \div 2 + want \div 2

\* The middle of a side: of length want, in a side of length have.
MiddleFrom(have, want) == (have - want) \div 2
MiddleTo(have, want) == (have + want) \div 2

\* crop.  The side that has its length already is kept whole, and so would its
\* middle be.
Crop ==
  /\ phase = "resized"
  /\ box' = [left |-> MiddleFrom(image.w, target.w), upper |-> MiddleFrom(image.h, target.h),
             right |-> MiddleTo(image.w, target.w), lower |-> MiddleTo(image.h, target.h)]
  /\ image' = [w |-> box'.right - box'.left, h |-> box'.lower - box'.upper]
  /\ phase' = "cropped"
  /\ UNCHANGED <<target, source>>

\* image_to_string: __outImage is set.
Save ==
  /\ phase = "cropped"
  /\ phase' = "saved"
  /\ UNCHANGED <<target, source, image, box>>

\* An exception in any of the steps (no memory, a format that cannot be written):
\* it is logged, and get_image returns None.
Fail ==
  /\ phase \notin {"saved", "failed"}
  /\ phase' = "failed"
  /\ UNCHANGED <<target, source, image, box>>

DealNext == Resize \/ Crop \/ Save \/ Fail

DealSpec == DealInit /\ [][DealNext]_dealVars

-----------------------------------------------------------------------------
\* The enlarged picture covers the rendition on both sides, so crop never reads
\* outside it (PIL would fill the border with black).
Covers == phase = "resized" => image.w >= target.w /\ image.h >= target.h

\* Whatever the integer quotients round away, the rendition that is stored under
\* width and height has that width and height.
RenditionSize == phase \in {"cropped", "saved"} => image = target
=============================================================================
