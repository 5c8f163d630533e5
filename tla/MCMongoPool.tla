---------------------------- MODULE MCMongoPool ----------------------------
(* Three hosts: a vector that has lost its first or its middle one, and    *)
(* failures in a row for more than two rounds.                             *)
EXTENDS MongoPool
=============================================================================
