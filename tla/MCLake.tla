------------------------------- MODULE MCLake -------------------------------
(* Two runs over the same OUT_DIR.                                        *)
EXTENDS Lake, TLC
CONSTANTS r1, r2
MCSemgrep == <<"semgrep">>
MCKind == [t \in {"semgrep", "trivy", "nuclei"} |-> t]
Symmetry == Permutations(Runs)
=============================================================================
