--------------------------- MODULE MCRunController ---------------------------
(* RunController for TLC: two operators' shells. *)
EXTENDS RunController, TLC

CONSTANTS c1, c2

\* Shells are interchangeable.
Symmetry == Permutations(Controllers)
==============================================================================
