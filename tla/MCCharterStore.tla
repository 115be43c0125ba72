--------------------------- MODULE MCCharterStore ---------------------------
(* Requests and envelopes for TLC: a GET with two approvals and a revoke,   *)
(* two POSTs of the same run, and a row an older release left behind.       *)
EXTENDS CharterStore, TLC

CONSTANTS get, postA, postB, old,
          approveGet, again, rejectGet, revokeGet, forged, approveA, approveB, approveOld,
          e1, e2, e3

MCEnvRequest ==
  [n \in Envelopes |-> CASE n = approveA -> postA [] n = approveB -> postB
                         [] n = approveOld -> old [] OTHER -> get]
MCEnvDecision ==
  [n \in Envelopes |-> CASE n = revokeGet -> "revoke" [] n = rejectGet -> "reject"
                         [] OTHER -> "approve"]
\* The reject and one request run out within the clock's bound.
MCEnvExpiry == [n \in Envelopes |-> IF n = rejectGet THEN MaxClock ELSE MaxClock + 1]
MCExpiry == [r \in Requests |-> IF r = postB THEN MaxClock ELSE MaxClock + 1]
MCRunOf == [r \in Requests |-> "run"]
Symmetry == Permutations(Executors)
=============================================================================
