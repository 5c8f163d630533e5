--------------------------- MODULE MCTrimPipeline ---------------------------
(* Small instances of TrimPipeline for TLC.                                *)
EXTENDS TrimPipeline, TLC

CONSTANTS k1, k2, w1, w2

TwoKeys == {k1, k2}
OneKey == {k1}
TwoWorkers == {w1, w2}
TwoAndOne == [k \in TwoKeys |-> IF k = k1 THEN 2 ELSE 1]

WorkerSymmetry == Permutations(TwoWorkers)
=============================================================================
