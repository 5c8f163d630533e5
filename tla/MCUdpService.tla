--------------------------- MODULE MCUdpService ---------------------------
(* Two workers with queues of one packet, and a packet more than they hold: *)
(* the receiver waits for space, and the round goes past its end.           *)
EXTENDS UdpService
=============================================================================
