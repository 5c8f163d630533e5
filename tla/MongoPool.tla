----------------------------- MODULE MongoPool -----------------------------
(***************************************************************************)
(* mongo_mgr/mongo_mgr.cpp: the database connections of one epoll worker.  *)
(* Each worker has a connection_struct of its own (tid), so one is enough. *)
(* start opens two connections per host, a plain one and one that reads    *)
(* from secondaries, each with its GridFS; a call that throws moves the    *)
(* index of the connection it used to the next host.                       *)
(*                                                                         *)
(* Every lookup takes the connection from the vectors of the second kind,  *)
(* with the index, and the bound of the index, of either kind.  A position *)
(* in a vector is counted from 0 as in the source.                         *)
(***************************************************************************)
EXTENDS Naturals, Sequences

CONSTANTS
  NHosts,           \* hosts in the configuration (mongos)
  MaxMissed         \* bound: failed calls in a row that the counters below follow

ASSUME HostsAssumption == NHosts \in Nat \ {0} /\ MaxMissed \in Nat

Hosts == 1 .. NHosts

VARIABLES
  plain,            \* size of _lconn and of _fs
  slaves,           \* hosts of _lconn_slave and of _fs_slave
  conn, fs,         \* _lconn_index, _fs_index
  connSlave, fsSlave, \* _lconn_slave_index, _fs_slave_index
  up,               \* hosts that answer
  op, pc,           \* the call in progress and its next access to a host
  missed, missedSlave \* failed stores and findfiles in a row on a plain index, failed
                    \* lookups in a row on a slave index, up unchanged (auxiliary)

pool == <<plain, slaves>>
indices == <<conn, fs, connSlave, fsSlave>>
poolVars == <<pool, indices, up, op, pc, missed, missedSlave>>

PoolTypeOK ==
  /\ plain \in 0 .. NHosts
  /\ slaves \in Seq(Hosts) /\ Len(slaves) \in 0 .. NHosts
  /\ {conn, fs, connSlave, fsSlave} \subseteq 0 .. NHosts - 1
  /\ up \subseteq Hosts
  /\ op \in {"store", "find", "get"}
  /\ pc \in {"idle", "first", "second", "storeFile", "update", "undefined"}
  /\ missed \in Nat /\ missedSlave \in Nat

\* A host whose connection failed is not in the vector, the others are in the configured
\* order.  That start returned 0 says nothing of them: its result is set anew for every
\* worker and every host, so that it is that of the last host of the last worker, and any
\* other worker may have been left with no connection at all.
PoolInit ==
  /\ plain \in 0 .. NHosts
  /\ \E n \in 0 .. NHosts :
       /\ slaves \in [1 .. n -> Hosts]
       /\ \A i, j \in 1 .. n : i < j => slaves[i] < slaves[j]
  /\ conn = 0 /\ fs = 0 /\ connSlave = 0 /\ fsSlave = 0
  /\ up \in SUBSET Hosts
  /\ op = "find" /\ pc = "idle"
  /\ missed = 0 /\ missedSlave = 0

\* Mutant: the end of the vector is tested before the increment.
RotatePastEnd(index, size) == IF index >= size THEN 0 ELSE index + 1

\* The increment in get_connector and get_fs with newconn.
Rotate(index, size) == IF index + 1 >= size THEN 0 ELSE index + 1

Valid(index) == index < Len(slaves)
Throws(index) == slaves[index + 1] \notin up

\* The catch blocks: newconn with slaveok false, and true.
RotatePlain ==
  /\ conn' = Rotate(conn, plain) /\ fs' = Rotate(fs, plain)
  /\ UNCHANGED <<connSlave, fsSlave>>

RotateSlave ==
  /\ connSlave' = Rotate(connSlave, Len(slaves)) /\ fsSlave' = Rotate(fsSlave, Len(slaves))
  /\ UNCHANGED <<conn, fs>>

-----------------------------------------------------------------------------
Call ==
  /\ pc = "idle"
  /\ missed < MaxMissed /\ missedSlave < MaxMissed
  /\ \/ op' = "store" /\ pc' = "storeFile"
     \/ op' \in {"find", "get"} /\ pc' = "first"
  /\ UNCHANGED <<pool, indices, up, missed, missedSlave>>

\* A vector is read behind its end, and the GridFS or connection there is used.
Undefined ==
  /\ \/ pc \in {"second", "storeFile"} /\ ~Valid(fs)
     \/ pc = "update" /\ ~Valid(conn)
     \/ pc = "first" /\ ~Valid(fsSlave)
  /\ pc' = "undefined"
  /\ UNCHANGED <<pool, indices, up, op, missed, missedSlave>>

\* findFile on the slave index, in findfile and get_pic: found, or to be looked up
\* once more.
FirstAnswers ==
  /\ pc = "first" /\ Valid(fsSlave) /\ ~Throws(fsSlave)
  /\ pc' \in {"idle", "second"}
  /\ missedSlave' = 0
  /\ UNCHANGED <<pool, indices, up, op, missed>>

FirstThrows ==
  /\ pc = "first" /\ Valid(fsSlave) /\ Throws(fsSlave)
  /\ RotateSlave
  /\ pc' = "idle"
  /\ missedSlave' = missedSlave + 1
  /\ UNCHANGED <<pool, up, op, missed>>

SecondAnswers ==
  /\ pc = "second" /\ Valid(fs) /\ ~Throws(fs)
  /\ pc' = "idle"
  /\ missed' = 0
  /\ UNCHANGED <<pool, indices, up, op, missedSlave>>

FindSecondThrows ==
  /\ pc = "second" /\ op = "find" /\ Valid(fs) /\ Throws(fs)
  /\ RotatePlain
  /\ pc' = "idle"
  /\ missed' = missed + 1
  /\ UNCHANGED <<pool, up, op, missedSlave>>

\* get_pic declares a second step in the inner block, so that the handler sees the
\* outer one, 0, and moves the other index.
GetSecondThrows ==
  /\ pc = "second" /\ op = "get" /\ Valid(fs) /\ Throws(fs)
  /\ RotateSlave
  /\ pc' = "idle"
  /\ UNCHANGED <<pool, up, op, missed, missedSlave>>

StoreFile ==
  /\ pc = "storeFile" /\ Valid(fs) /\ ~Throws(fs)
  /\ pc' = "update"
  /\ UNCHANGED <<pool, indices, up, op, missed, missedSlave>>

\* The update that gives the stored file its oid, width and height.
Update ==
  /\ pc = "update" /\ Valid(conn) /\ ~Throws(conn)
  /\ pc' = "idle"
  /\ missed' = 0
  /\ UNCHANGED <<pool, indices, up, op, missedSlave>>

\* Mutant: a store that failed is tried on the same connection again.
StoreThrowsStay ==
  /\ \/ pc = "storeFile" /\ Valid(fs) /\ Throws(fs)
     \/ pc = "update" /\ Valid(conn) /\ Throws(conn)
  /\ pc' = "idle"
  /\ missed' = missed + 1
  /\ UNCHANGED <<pool, indices, up, op, missedSlave>>

StoreThrows ==
  /\ \/ pc = "storeFile" /\ Valid(fs) /\ Throws(fs)
     \/ pc = "update" /\ Valid(conn) /\ Throws(conn)
  /\ RotatePlain
  /\ pc' = "idle"
  /\ missed' = missed + 1
  /\ UNCHANGED <<pool, up, op, missedSlave>>

\* Hosts go down and come back between any two accesses.
HostsChange ==
  /\ up' \in SUBSET Hosts \ {up}
  /\ missed' = 0 /\ missedSlave' = 0
  /\ UNCHANGED <<pool, indices, op, pc>>

PoolNext ==
  \/ Call \/ Undefined
  \/ FirstAnswers \/ FirstThrows
  \/ SecondAnswers \/ FindSecondThrows \/ GetSecondThrows
  \/ StoreFile \/ Update \/ StoreThrows
  \/ HostsChange

PoolSpec == PoolInit /\ [][PoolNext]_poolVars

-----------------------------------------------------------------------------
\* A store writes the file and gives it its name on one and the same connection,
\* and a lookup uses the GridFS of the connection its failure renews, although the
\* two indices of a pair are moved by different functions.
Paired == conn = fs /\ connSlave = fsSlave

\* No vector is read behind its end, provided start made a connection of the second
\* kind, and at least as many of them as of the first: the plain indices run up to the
\* size of the one and are used in the other.  Without any, position 0 is behind the end.
NeverUndefined == slaves # <<>> /\ plain <= Len(slaves) => pc # "undefined"

\* Failing over: as long as one host the index can reach answers, a call that is
\* repeated comes to it in less than one round of the hosts.
FailsOver ==
  /\ PoolTypeOK
  /\ (\E i \in 1 .. Len(slaves) : i <= plain /\ slaves[i] \in up) => missed < plain
  /\ (\E i \in 1 .. Len(slaves) : slaves[i] \in up) => missedSlave < Len(slaves)
=============================================================================
