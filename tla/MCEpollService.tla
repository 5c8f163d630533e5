--------------------------- MODULE MCEpollService ---------------------------
(* More connections than descriptors make the kernel give one out again,   *)
(* and more than a worker and its queue take make it turn one away.        *)
EXTENDS EpollService, TLC
=============================================================================
