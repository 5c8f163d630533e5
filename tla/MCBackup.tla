------------------------------ MODULE MCBackup ------------------------------
(* Two originals that may be stored on the same date or on two, and stored *)
(* again, with or without their old copies, after a loss: enough for a     *)
(* watermark that stands on the date of an original it has not seen.       *)
EXTENDS Backup, TLC

Alike == Permutations(Originals)
=============================================================================
