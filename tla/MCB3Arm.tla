------------------------------- MODULE MCB3Arm -------------------------------
(* B3Arm for TLC: two processes; one old row, given up in flight. *)
EXTENDS B3Arm

CONSTANTS d1, d2

MCLegacyRows == {[id |-> 0, reading |-> 1, unit |-> Legacy, status |-> "dispatched"]}
MCSymmetry == Permutations(Dispatchers)
==============================================================================
