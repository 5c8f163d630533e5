----------------------------- MODULE MCVisitor -----------------------------
(* Two commands at once, and a third object for a connect that is pending   *)
(* while the worker's queue and its pool are full.                          *)
EXTENDS Visitor, TLC
=============================================================================
