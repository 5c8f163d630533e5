--------------------------- MODULE MCIocpService ---------------------------
(* Three connections over two socket numbers and two addresses: a number   *)
(* comes back with and without its old address while an operation of its   *)
(* former owner is in flight.                                              *)
EXTENDS IocpService, TLC

Alike == Permutations(Handlers) \cup Permutations(Socks) \cup Permutations(Addrs)
=============================================================================
