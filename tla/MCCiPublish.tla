----------------------------- MODULE MCCiPublish -----------------------------
(* Two operators' shells for TLC. *)
EXTENDS CiPublish
CONSTANTS p1, p2
=============================================================================
