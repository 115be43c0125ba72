----------------------------- MODULE MCSyndicate -----------------------------
(* Syndicate for TLC. *)
EXTENDS Syndicate, TLC

CONSTANTS t1, p1, p2, k1, k2, qa, qb

Symmetry == Permutations(Processes) \cup Permutations(Tokens) \cup Permutations(Proposals)
==============================================================================
