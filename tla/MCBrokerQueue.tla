---------------------------- MODULE MCBrokerQueue ----------------------------
(* Commands and startup capabilities for TLC. *)
EXTENDS BrokerQueue
CONSTANTS k1, k2, k3, c1, c2
=============================================================================
