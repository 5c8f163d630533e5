---------------------------- MODULE MCRdWrQueue ----------------------------
(* Two values tell every order of a ring of two slots apart, and positions  *)
(* of two bits wrap around as the ring is filled and emptied.               *)
EXTENDS RdWrQueue
=============================================================================
